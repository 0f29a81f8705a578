------------------------------ MODULE Detcheck ------------------------------
(***************************************************************************)
(* laige-detcheck (tools/detcheck/laige-detcheck.cpp): two runs of a         *)
(* scenario are compared tick by tick.  Two binaries are compared in two    *)
(* phases: the first spawns them one after the other and lets their output  *)
(* run into its own, between markers; the check script of tests/detcheck    *)
(* captures that and, when the phase ended with 0, hands it to the second.  *)
(*                                                                          *)
(* Output is a sequence of tokens: the text of a tick line, carriage return *)
(* and line feed, other text, and the markers.  A line over the length      *)
(* bound is other text: both are refused.                                   *)
(***************************************************************************)
EXTENDS Integers, Sequences, FiniteSetsExt, SequencesExt

CONSTANTS Hashes, MaxTicks,   \* kMaxTicks
          PerturbTick, DefaultTicks

Tick(t, hash) == <<"tick", t, hash>>
CR == <<"cr">>   NL == <<"nl">>   Junk == <<"junk">>
Begin(run) == <<"begin", run>>   End(run) == <<"end", run>>
Other(run) == IF run = "A" THEN "B" ELSE "A"

VARIABLES phase, run,   \* the run that is spawned
          out,          \* what the first phase and its children have written
          said,         \* the tokens of each scenario
          code,         \* the exit codes of the scenarios
          result        \* the exit code of the tool, and the first tick that differs
vars == <<phase, run, out, said, code, result>>

Init ==
    /\ phase = "args" /\ run = "A" /\ out = <<>> /\ result = [exit |-> -1, at |-> 0]
    /\ said = [A |-> <<>>, B |-> <<>>] /\ code = [A |-> -1, B |-> -1]

Exit(n, at) == phase' = "exit" /\ result' = [exit |-> n, at |-> at]

-----------------------------------------------------------------------------
(* Lines and streams *)

Chomped(line) == IF line # <<>> /\ Last(line) = CR THEN SubSeq(line, 1, Len(line) - 1) ELSE line

\* appendChunk and finishPending: the last line may lack its line feed.
AppendToken(r, token) ==
    IF token = NL THEN [lines |-> Append(r.lines, Chomped(r.pending)), pending |-> <<>>]
    ELSE [r EXCEPT !.pending = Append(@, token)]
Lines(text) ==
    LET r == FoldLeft(AppendToken, [lines |-> <<>>, pending |-> <<>>], text)
    IN IF r.pending = <<>> THEN r.lines ELSE Append(r.lines, Chomped(r.pending))

\* extractRunStream: the lines from the begin marker to the first line that starts
\* with the end marker.
ExtractRunStream(lines, r) ==
    LET begins == {i \in DOMAIN lines : lines[i] = <<Begin(r)>>}
        ends == {i \in DOMAIN lines : begins # {} /\ i > Min(begins)
                                      /\ lines[i] # <<>> /\ lines[i][1] = End(r)}
    IN [found |-> ends # {},
        lines |-> IF ends = {} THEN <<>>
                  ELSE SelectSeq(SubSeq(lines, Min(begins), Min(ends) - 1), LAMBDA l : l # <<Begin(r)>>)]

ParseHashLine(line) == Len(line) = 1 /\ line[1][1] = "tick"

\* Faulty variant: the ticks need not follow one another.
ValidShape(lines) == Len(lines) \in 1..MaxTicks /\ \A i \in DOMAIN lines : ParseHashLine(lines[i])

\* validateStream
ValidStream(lines) ==
    Len(lines) \in 1..MaxTicks /\ \A i \in DOMAIN lines : ParseHashLine(lines[i]) /\ lines[i][1][2] = i - 1

\* compareStreams and report
Compare(a, b) ==
    LET n == Min({Len(a), Len(b)})
        differ == {i \in 1..n : a[i] # b[i]}
    IN IF differ # {} THEN Exit(1, Min(differ) - 1)
       ELSE IF Len(a) # Len(b) THEN Exit(1, n) ELSE Exit(0, 0)

-----------------------------------------------------------------------------
(* The modes *)

\* runBuiltIn: what a run of the synthetic scenario hashes is a function of the seed,
\* the tick and whether the run was disturbed by then.
BuiltInStream(ticks, seed, perturb) ==
    [i \in 1..ticks |-> <<Tick(i - 1, <<seed, perturb /\ i - 1 >= PerturbTick>>)>>]

\* One mode exactly, and each option only in its mode; anything else is refused.
ParseArgs ==
    /\ phase = "args"
    /\ \/ Exit(2, 0) /\ UNCHANGED <<run, out, said, code>>
       \/ phase' = "spawn" /\ UNCHANGED <<run, out, said, code, result>>
       \/ \E ticks \in 1..DefaultTicks, seed \in Hashes, perturb \in BOOLEAN :
            /\ Compare(BuiltInStream(ticks, seed, FALSE), BuiltInStream(ticks, seed, perturb))
            /\ said' = [A |-> <<Tick(ticks, seed)>>, B |-> IF perturb THEN <<Junk>> ELSE <<>>]
            /\ run' = "built-in" /\ UNCHANGED <<out, code>>

\* spawnScenarioWithMarkers; an executable that cannot be run ends the tool, with the
\* end marker written all the same.
Spawn ==
    /\ phase = "spawn"
    /\ \/ /\ out' = Append(Append(out, Begin(run)), NL) /\ phase' = "child" /\ UNCHANGED <<result, code>>
       \/ /\ out' = out \o <<Begin(run), NL, End(run), NL>> /\ Exit(2, 0)
          /\ code' = [code EXCEPT ![run] = 127]
    /\ UNCHANGED <<run, said>>

\* The scenario writes its next tick, one too far, or something else.  Bounds: one
\* line more than the contract allows, and carriage returns on the first line only.
Write ==
    /\ phase = "child"
    /\ LET next == Len(Lines(said[run]))
           ends == {<<>>, <<NL>>} \cup (IF next = 0 THEN {<<CR, NL>>} ELSE {})
       IN /\ next <= MaxTicks
          /\ \E line \in {Tick(next, h) : h \in Hashes} \cup {Tick(next + 1, 0), Junk}, end \in ends :
               /\ said[run] # <<>> => Last(said[run]) = NL
               /\ out' = Append(out, line) \o end
               /\ said' = [said EXCEPT ![run] = Append(@, line) \o end]
    /\ UNCHANGED <<phase, run, code, result>>

\* The scenario ends; a failure of either ends the tool.
ChildExits ==
    /\ phase = "child"
    /\ out' = Append(Append(out, End(run)), NL)
    /\ \E c \in {0, 1} :
         /\ code' = [code EXCEPT ![run] = c]
         /\ IF c # 0 THEN Exit(2, 0) /\ UNCHANGED run
            ELSE IF run = "A" THEN run' = "B" /\ phase' = "spawn" /\ UNCHANGED result
            ELSE phase' = "captured" /\ UNCHANGED <<run, result>>
    /\ UNCHANGED said

\* --compare-combined
CompareCombined ==
    /\ phase = "captured"
    /\ LET a == ExtractRunStream(Lines(out), "A")
           b == ExtractRunStream(Lines(out), "B")
       IN IF ~a.found \/ ~b.found \/ ~ValidStream(a.lines) \/ ~ValidStream(b.lines)
          THEN Exit(2, 0) ELSE Compare(a.lines, b.lines)
    /\ UNCHANGED <<run, out, said, code>>

Next == ParseArgs \/ Spawn \/ Write \/ ChildExits \/ CompareCombined
Spec == Init /\ [][Next]_vars

-----------------------------------------------------------------------------
(* Properties *)

Conforms(text) ==
    LET lines == Lines(text) IN
    /\ lines # <<>> /\ Len(lines) <= MaxTicks
    /\ \A i \in DOMAIN lines : \E h \in Hashes : lines[i] = <<Tick(i - 1, h)>>

\* A verdict is about what the two runs did.  Of two scenarios: agreement only when both
\* kept the contract, ended well and wrote the same ticks, divergence only when both kept
\* it and the first tick named differs or is missing in one.  The built-in scenario that
\* is disturbed on purpose diverges at that tick, when it gets so far, and the other never
\* (laige-detcheck.cpp:19-44, 55-64).
VerdictTellsRuns ==
    /\ (phase = "exit" /\ run # "built-in" /\ result.exit \in {0, 1}) =>
         LET a == Lines(said.A)  b == Lines(said.B)  at == result.at + 1
         IN /\ Conforms(said.A) /\ Conforms(said.B) /\ code = [A |-> 0, B |-> 0]
            /\ result.exit = 0 <=> a = b
            /\ result.exit = 1 => /\ at \notin DOMAIN a \/ at \notin DOMAIN b \/ a[at] # b[at]
                                  /\ \A i \in 1..(at - 1) : a[i] = b[i]
    /\ (phase = "exit" /\ run = "built-in") =>
         result = IF said.B # <<>> /\ said.A[1][2] > PerturbTick
                  THEN [exit |-> 1, at |-> PerturbTick] ELSE [exit |-> 0, at |-> 0]

\* A claim the code does not keep.
\* docs/api/detcheck.md:45: a scenario may leave out the line feed of its last line.
LastLineFeedIsOptional ==
    (phase = "exit" /\ run # "built-in" /\ code = [A |-> 0, B |-> 0] /\ Conforms(said.A) /\ Conforms(said.B))
       => result.exit # 2
=============================================================================
