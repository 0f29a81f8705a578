-------------------------------- MODULE Golden --------------------------------
(***************************************************************************)
(* laige-golden (laige-golden.cpp): it renders the fixtures it is told, one  *)
(* after the other, and compares each with its reference image or replaces   *)
(* the reference.  How a fixture renders and what the files answer is chosen *)
(* at each step; a crash may come between any two.                          *)
(***************************************************************************)
EXTENDS Integers, Sequences, SequencesExt, FiniteSets

CONSTANTS Fixtures, UiFixture,   \* the names of the fixtures, the one that needs the font
          Words, MaxWords,       \* the words of a command line, a bound
          Negatives              \* the words that read as a number below zero

VARIABLES argv, update, names,   \* the command line, and what it selects
          phase, k,              \* what comes next, for which of the names
          rc, failed,            \* the exit code so far, the fixtures beyond the tolerance
          references,            \* name -> the reference: "old", "new", "short" or "none"
          temporaries,           \* the names with a temporary file
          passes,                \* the render passes of the frame left
          exit,                  \* -1 while running
          looks                  \* history: name -> "same", "differs" or "unseen"
vars == <<argv, update, names, phase, k, rc, failed, references, temporaries, passes, exit, looks>>

ExitOk == 0
ExitCompareFailed == 1
ExitConfigError == 2
ExitNoGl == 77

Tolerances == {"--max-channel-diff", "--pixel-budget-pct"}

\* parseArgs, as a fold: --all forgets the fixtures named before it, and of a tolerance the last value counts.
ParseArgs(words) ==
    LET Step(s, w) ==
          IF s.want = "fixture" THEN [s EXCEPT !.want = "none", !.names = Append(@, w)]
          ELSE IF s.want \in Tolerances THEN [s EXCEPT !.want = "none", !.tolerance[s.want] = w]
          ELSE IF s.want = "--references" THEN [s EXCEPT !.want = "none"]
          ELSE CASE w = "--update" -> [s EXCEPT !.update = TRUE]
                 [] w = "--all" -> [s EXCEPT !.names = <<>>]
                 [] w = "--fixture" -> [s EXCEPT !.want = "fixture"]
                 [] w \in Tolerances \cup {"--references"} -> [s EXCEPT !.want = w]
                 [] OTHER -> [s EXCEPT !.ok = FALSE]
        end == FoldLeft(Step, [update |-> FALSE, names |-> <<>>, want |-> "none", ok |-> TRUE,
                               tolerance |-> [t \in Tolerances |-> "0"]], words)
    IN [end EXCEPT !.ok = @ /\ end.want = "none" /\ \A t \in Tolerances : end.tolerance[t] \notin Negatives]

Init == /\ argv \in UNION {[1..n -> Words] : n \in 0..MaxWords}
        /\ update = FALSE /\ names = <<>> /\ phase = "arguments" /\ k = 1 /\ rc = ExitOk /\ failed = 0
        /\ references \in [Fixtures -> {"old", "none"}] /\ temporaries = {} /\ passes = 0 /\ exit = -1
        /\ looks = [f \in Fixtures |-> "unseen"]

fileVars == <<references, temporaries>>
Return(code) == exit' = code /\ phase' = "done"
Continue(to) == phase' = to /\ UNCHANGED exit

Start ==
    /\ phase = "arguments"
    /\ LET parsed == ParseArgs(argv)
           selected == IF parsed.names = <<>> THEN SetToSeq(Fixtures) ELSE parsed.names
       IN /\ update' = parsed.update /\ names' = selected
          /\ IF parsed.ok /\ ToSet(selected) \subseteq Fixtures THEN Continue("font") ELSE Return(ExitConfigError)
    /\ UNCHANGED <<argv, k, rc, failed, fileVars, passes, looks>>

LoadFont(ok) ==
    /\ phase = "font"
    /\ IF UiFixture \in ToSet(names) /\ ~ok THEN Return(ExitConfigError) ELSE Continue("fixture")
    /\ UNCHANGED <<argv, update, names, k, rc, failed, fileVars, passes, looks>>

\* renderFrame: the context, then the passes (the isometric and side views have a second, for the
\* interface), then the pixels.
CreateContext(ok, count) ==
    /\ phase = "fixture" /\ k <= Len(names) /\ passes' = count
    /\ IF ok THEN Continue("pass") ELSE Return(ExitNoGl)
    /\ UNCHANGED <<argv, update, names, k, rc, failed, fileVars, looks>>
RenderPass(ok) ==
    /\ phase = "pass"
    /\ IF ~ok THEN Return(ExitConfigError) /\ UNCHANGED passes
       ELSE /\ passes' = passes - 1 /\ Continue(IF passes = 1 THEN "rendered" ELSE "pass")
    /\ UNCHANGED <<argv, update, names, k, rc, failed, fileVars, looks>>

\* stbi_write_png answers a short write with success.
WriteTemporary(outcome) ==
    /\ phase = "rendered" /\ update
    /\ IF outcome = "refused" THEN Return(ExitConfigError) /\ UNCHANGED temporaries
       ELSE Continue(IF outcome = "short" THEN "rename_short" ELSE "rename") /\ temporaries' = temporaries \cup {names[k]}
    /\ UNCHANGED <<argv, update, names, k, rc, failed, references, passes, looks>>

\* What the reference is after the rename.
Renamed(ok) == IF ~ok THEN references[names[k]] ELSE IF phase = "rename" THEN "new" ELSE "short"

RenameTemporary(ok) ==
    /\ phase \in {"rename", "rename_short"}
    /\ references' = [references EXCEPT ![names[k]] = Renamed(ok)]
    /\ temporaries' = IF ok THEN temporaries \ {names[k]} ELSE temporaries
    /\ IF ok THEN Continue("fixture") /\ k' = k + 1 ELSE Return(ExitConfigError) /\ UNCHANGED k
    /\ UNCHANGED <<argv, update, names, rc, failed, passes, looks>>

\* Faulty variant: the last fixture decides.
MergedLast(pass) == IF pass THEN ExitOk ELSE ExitCompareFailed
\* The exit code with the outcome of one more fixture.
Merged(pass) == IF pass THEN rc ELSE ExitCompareFailed

\* A missing or wrong-sized reference ends the comparison.
Compare(usable, pass) ==
    /\ phase = "rendered" /\ ~update
    /\ IF references[names[k]] # "old" \/ ~usable THEN Return(ExitConfigError) /\ UNCHANGED <<k, rc, failed, looks>>
       ELSE /\ looks[names[k]] \in {"unseen", IF pass THEN "same" ELSE "differs"}
            /\ looks' = [looks EXCEPT ![names[k]] = IF pass THEN "same" ELSE "differs"]
            /\ rc' = Merged(pass) /\ failed' = failed + (IF pass THEN 0 ELSE 1)
            /\ k' = k + 1 /\ Continue("fixture")
    /\ UNCHANGED <<argv, update, names, fileVars, passes>>

Finish ==
    /\ phase = "fixture" /\ k > Len(names) /\ Return(rc)
    /\ UNCHANGED <<argv, update, names, k, rc, failed, fileVars, passes, looks>>

Next == \/ Start \/ Finish
        \/ \E ok \in BOOLEAN : LoadFont(ok) \/ RenderPass(ok) \/ RenameTemporary(ok)
                               \/ \E count \in 1..2 : CreateContext(ok, count)
                               \/ \E pass \in BOOLEAN : Compare(ok, pass)
        \/ \E outcome \in {"refused", "short", "written"} : WriteTemporary(outcome)
Spec == Init /\ [][Next]_vars

-----------------------------------------------------------------------------
(* Properties *)

\* Exit 0 of a comparison means that every fixture selected was compared and none is beyond the
\* tolerance, exit 1 that one is; an update that exits 0 has put a new reference in place for every
\* fixture selected (laige-golden.cpp:26-38).
VerdictCountsEveryFixture ==
    /\ exit = ExitOk /\ ~update => \A n \in ToSet(names) : looks[n] = "same"
    /\ exit = ExitCompareFailed => \E n \in ToSet(names) : looks[n] = "differs"
    /\ exit = ExitOk /\ update => \A n \in ToSet(names) : references[n] \in {"new", "short"}

\* A claim the code does not keep.
\* A reference is only ever a whole image: "atomic: a temp file in the target directory, then rename"
\* (laige-golden.cpp:27-28).
ReferencesAreWhole == \A f \in Fixtures : references[f] # "short"

\* A claim the code does not keep.
\* An environment without GL is told apart from a comparison that failed (laige-golden.cpp:31-38).
SkipHidesNoFailure == exit = ExitNoGl => failed = 0
=============================================================================
