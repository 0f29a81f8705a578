----------------------------- MODULE ReplayTool -----------------------------
(***************************************************************************)
(* laige-replay (tools/replay/laige-replay.cpp) with the replay runner and  *)
(* the replay diff of laige-sim (replay.cpp, replay_diff.cpp): a log is      *)
(* replayed and its hashes compared with a baseline, or two logs are        *)
(* replayed in lock step up to the first tick whose states differ.          *)
(*                                                                          *)
(* What a world holds after each tick is a function of the seed alone.      *)
(* The recorded frames are read and not used by any system of this version, *)
(* so a log is its identity and its length.                                 *)
(***************************************************************************)
EXTENDS StateHash

CONSTANTS Seeds,       \* master seeds
          Traces,      \* the states a run can go through, tick 0 first
          Logs,        \* [frames, seed, rest]: rest is the identity but the seed
          Configs,     \* [seed, rest, deterministic]
          Baselines,   \* texts over Line(tick, hash), CR, NL and Junk
          MaxEntries,  \* --entries
          MaxExpectTicks   \* kMaxExpectTicks

Line(t, hash) == <<"line", t, hash>>
CR == <<"cr">>   NL == <<"nl">>   Junk == <<"junk">>
NoFile == <<<<"none">>>>   Unreadable == <<<<"unreadable">>>>   \* no --expect, or one that cannot be read
Missing == [frames |-> 0, seed |-> 0, rest |-> "unreadable"]

VARIABLES mode,      \* "log" or "diff"
          config, logs, expect,   \* the files named on the command line
          world,     \* the states of the run of each seed
          failing,   \* the tick a system fails in, per seed; 0 for never
          pc, engines,            \* the engines that are not shut down
          made,      \* engines created
          tick, fullStateDivergent, hashes,
          result     \* what is reported and the exit code
vars == <<mode, config, logs, expect, world, failing, pc, engines, made, tick,
          fullStateDivergent, hashes, result>>
files == <<mode, config, logs, expect, world, failing>>

NoResult == [exit |-> 0, kind |-> "none", at |-> 0, items |-> 0, entries |-> <<>>]
Sides == IF mode = "diff" THEN {1, 2} ELSE {1}
\* The per-log configuration: in diff mode a log is replayed with its own seed.
SeedOf(i) == IF mode = "diff" THEN logs[i].seed ELSE config.seed
At(i, t) == world[SeedOf(i)][t + 1]

Init ==
    /\ mode \in {"log", "diff"}
    /\ config \in Configs
    /\ logs \in (Logs \cup {Missing}) \X (Logs \cup {Missing})
    /\ expect \in Baselines \cup {NoFile, Unreadable}
    /\ mode = "log" => logs[2] = logs[1]
    /\ mode = "diff" => expect = NoFile      \* mutually exclusive
    /\ world \in [Seeds -> Traces]
    /\ failing \in [Seeds -> {0, 1}]
    /\ pc = "load" /\ engines = {} /\ made = 0 /\ tick = 0
    /\ fullStateDivergent = FALSE /\ hashes = <<>> /\ result = NoResult

\* Every engine made so far is shut down on the way out.
Exit(code, kind) ==
    /\ result' = [result EXCEPT !.exit = code, !.kind = kind]
    /\ engines' = {} /\ pc' = "exit"

\* readFileBounded, parseReplay: both logs are loaded before an engine is made.
Load ==
    /\ pc = "load"
    /\ IF config.rest = "unreadable" \/ \E i \in Sides : logs[i] = Missing
       THEN Exit(2, "unreadable")
       ELSE pc' = "create" /\ UNCHANGED <<engines, result>>
    /\ UNCHANGED <<files, made, tick, fullStateDivergent, hashes>>

\* Engine::create, once per log.
Create ==
    /\ pc = "create"
    /\ \/ /\ engines' = engines \cup {made + 1} /\ made' = made + 1
          /\ pc' = IF made' = Cardinality(Sides) THEN "identity" ELSE "create"
          /\ UNCHANGED result
       \/ Exit(2, "engine") /\ UNCHANGED made
    /\ UNCHANGED <<files, tick, fullStateDivergent, hashes>>

\* replayIdentityDiff: the configuration is the one the log was recorded under.
IdentityMatches(i) == logs[i].seed = SeedOf(i) /\ logs[i].rest = config.rest

\* reportIdentityMismatch, then diffReplays or runReplay up to their loop: the
\* identity again, the determinism mode and the schedules, which this tool's
\* worlds without game systems always have.
Check ==
    /\ pc = "identity"
    /\ IF \E i \in Sides : ~IdentityMatches(i) THEN Exit(2, "identity")
       ELSE IF ~config.deterministic THEN Exit(2, "determinism")
       ELSE pc' = "compare" /\ UNCHANGED <<engines, result>>
    /\ UNCHANGED <<files, made, tick, fullStateDivergent, hashes>>

AlignedTicks == Min({logs[i].frames : i \in Sides})

\* compareTick
CompareTick(t) ==
    /\ fullStateDivergent' = (fullStateDivergent \/ Hash(At(1, t), t) # Hash(At(2, t), t))
    /\ pc' = IF ComponentStateHash(At(1, t), t) # ComponentStateHash(At(2, t), t) THEN "diverged"
             ELSE IF t < AlignedTicks THEN "run" ELSE "lengths"

\* The hash of a log's state is recorded.
RecordTick(t) ==
    /\ hashes' = Append(hashes, Hash(At(1, t), t))
    /\ pc' = IF t < AlignedTicks THEN "run" ELSE "print"

Compare ==
    /\ pc = "compare"
    /\ IF mode = "diff" THEN CompareTick(tick) /\ UNCHANGED hashes
       ELSE RecordTick(tick) /\ UNCHANGED fullStateDivergent
    /\ UNCHANGED <<files, engines, made, tick, result>>

\* beginFrame and runSystems on each world; a failed tick gives no partial result.
RunTick ==
    /\ pc = "run"
    /\ tick' = tick + 1
    /\ IF \E i \in Sides : failing[SeedOf(i)] = tick'
       THEN Exit(2, "tick") ELSE pc' = "compare" /\ UNCHANGED <<engines, result>>
    /\ UNCHANGED <<files, made, fullStateDivergent, hashes>>

\* The report at the first divergent tick, bounded by --entries.
ReportDivergence ==
    /\ pc = "diverged"
    /\ LET items == StateDiff(At(1, tick), At(2, tick))
       IN result' = [exit |-> 1, kind |-> "divergent", at |-> tick, items |-> Len(items),
                     entries |-> SubSeq(items, 1, Min({Len(items), MaxEntries}))]
    /\ engines' = {} /\ pc' = "exit"
    /\ UNCHANGED <<files, made, tick, fullStateDivergent, hashes>>

ReportLengths ==
    /\ pc = "lengths"
    /\ result' = IF logs[1].frames # logs[2].frames
                 THEN [result EXCEPT !.exit = 1, !.kind = "length_divergence", !.at = AlignedTicks + 1]
                 ELSE [result EXCEPT !.kind = "identical"]
    /\ engines' = {} /\ pc' = "exit"
    /\ UNCHANGED <<files, made, tick, fullStateDivergent, hashes>>

-----------------------------------------------------------------------------
(* --expect *)

Chomped(line) == IF line # <<>> /\ Last(line) = CR THEN SubSeq(line, 1, Len(line) - 1) ELSE line

\* The baseline's lines: a carriage return counts only before a line feed, and an
\* empty file is one empty line.
LinesOf(text) ==
    LET ends == Ascending({i \in DOMAIN text : text[i] = NL})
        from == [k \in 1..Len(ends) + 1 |-> IF k = 1 THEN 1 ELSE ends[k - 1] + 1]
        whole == [k \in DOMAIN ends |-> Chomped(SubSeq(text, from[k], ends[k] - 1))]
        rest == SubSeq(text, from[Len(ends) + 1], Len(text))
        all == IF rest = <<>> /\ ends # <<>> THEN whole ELSE Append(whole, rest)
    IN IF ends # <<>> /\ rest = <<>> /\ Last(all) = <<>> THEN SubSeq(all, 1, Len(all) - 1) ELSE all

\* parseBaselineLine: the line's index, one space, sixteen digits.
ParseBaselineLine(line, i) == Len(line) = 1 /\ line[1][1] = "line" /\ line[1][2] = i - 1

\* The lengths first, then the first line that is malformed or differs.
Expected ==
    LET lines == LinesOf(expect)
        bad == {i \in DOMAIN lines : ~ParseBaselineLine(lines[i], i) \/ lines[i][1][3] # hashes[i]}
    IN IF Len(lines) # Len(hashes) THEN [exit |-> 1, at |-> Min({Len(lines), Len(hashes)})]
       ELSE IF bad = {} THEN [exit |-> 0, at |-> 0]
       ELSE [exit |-> IF ParseBaselineLine(lines[Min(bad)], Min(bad)) THEN 1 ELSE 2, at |-> Min(bad) - 1]

\* The hashes are printed, then compared; more than the bound are compared with nothing.
PrintHashes ==
    /\ pc = "print"
    /\ result' = IF expect = NoFile THEN [result EXCEPT !.kind = "printed"]
                 ELSE IF logs[1].frames + 1 > MaxExpectTicks THEN [result EXCEPT !.kind = "bound", !.exit = 2]
                 ELSE IF expect = Unreadable THEN [result EXCEPT !.kind = "baseline", !.exit = 2]
                 ELSE [result EXCEPT !.kind = "expected", !.exit = Expected.exit, !.at = Expected.at]
    /\ engines' = {} /\ pc' = "exit"
    /\ UNCHANGED <<files, made, tick, fullStateDivergent, hashes>>

Next == Load \/ Create \/ Check \/ Compare \/ RunTick \/ ReportDivergence \/ ReportLengths \/ PrintHashes
Spec == Init /\ [][Next]_vars

-----------------------------------------------------------------------------
(* Properties *)

Ran == pc = "exit" /\ result.exit \in {0, 1}

\* The states differ at most in which slot owns a row.
Alike(a, b) ==
    /\ LiveSlots(a) = LiveSlots(b)
    /\ \A s \in LiveSlots(a) : a.slots[s].generation = b.slots[s].generation
    /\ Signatures(a) = Signatures(b) /\ \A sig \in Range(Signatures(a)) : RowsOf(a, sig) = RowsOf(b, sig)

\* A divergence is reported at the first tick with a difference other than that, the
\* count is that of all differences, the report is cut to the bound, and nothing to
\* show means that only generations differ (replay_diff.h:95-122).
DivergenceIsReal ==
    (pc = "exit" /\ mode = "diff" /\ Ran) =>
      LET a == At(1, result.at)  b == At(2, result.at)
          before == IF result.kind = "divergent" THEN 0..(result.at - 1) ELSE 0..AlignedTicks
      IN /\ \A t \in before : Alike(At(1, t), At(2, t))
         /\ result.kind = "divergent" =>
              /\ ~Alike(a, b)
              /\ Len(result.entries) = Min({result.items, MaxEntries})
              /\ result.items = 0 => \E s \in LiveSlots(a) : a.slots[s].generation # b.slots[s].generation

\* The texts that say a stream of hashes: each line ended by a line feed or a
\* carriage return and one, the last perhaps by nothing.
SaysStream(text, stream) ==
    LET n == Len(stream)
    IN \E ends \in [1..n -> {<<>>, <<NL>>, <<CR, NL>>}] :
          /\ \A k \in 1..(n - 1) : ends[k] # <<>>
          /\ text = FlattenSeq([k \in 1..n |-> <<Line(k - 1, stream[k])>> \o ends[k]])

\* --expect accepts exactly the texts of the run's own hashes, tick 0 to the last
\* (laige-replay.cpp:36-40), with the blank line an editor may leave at the end.
ExpectIsTheStream ==
    (pc = "exit" /\ result.kind = "expected") =>
       (result.exit = 0 <=>
          \E k \in 0..Min({2, Len(expect)}) :
             /\ SubSeq(expect, Len(expect) - k + 1, Len(expect)) \in {<<>>, <<NL>>, <<CR, NL>>}
             /\ SaysStream(SubSeq(expect, 1, Len(expect) - k),
                           [t \in 1..(logs[1].frames + 1) |-> Hash(At(1, t - 1), t - 1)]))

\* The exit code is 0 or 1 only for a run that was neither refused nor cut short,
\* and no engine is left at any exit (laige-replay.cpp:36-50, 491-525).
ExitsClean ==
    pc = "exit" =>
      /\ engines = {}
      /\ Ran => /\ made = Cardinality(Sides) /\ config.deterministic
                /\ \A i \in Sides : IdentityMatches(i)
                /\ (result.kind # "divergent" => tick = AlignedTicks)

\* entity.h:195-202: the hash carries the live handles, the archetype assignment and
\* every component's bytes, so replays reported identical went through one state.
IdenticalMeansSameState ==
    (pc = "exit" /\ result.kind = "identical") => \A t \in 0..AlignedTicks : SameState(At(1, t), At(2, t))
=============================================================================
