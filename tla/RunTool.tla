------------------------------- MODULE RunTool -------------------------------
(***************************************************************************)
(* laige-run (laige-run.cpp): it reads its arguments, loads the config,      *)
(* builds the engine, starts what was asked for, runs, and tells the outcome *)
(* by its exit code.  What the config, the file system and the engine answer *)
(* is chosen at each step.                                                  *)
(***************************************************************************)
EXTENDS Integers, Sequences

CONSTANTS CommandLines, \* sequences of words
          Numbers,      \* the numerals among the words -> their value
          Window,       \* kFrameBudgetWindow
          CatchUp       \* kDefaultMaxCatchUpTicks

VARIABLES argv, i,      \* the command line, the argument read next
          options, phase,
          started,      \* what the engine was asked to produce
          frameBudget,  \* the ticks per frame of the run, 0 before it
          ran, passed, profiled,   \* the run's status, the budget report's, the profile report's
          shut, exit    \* the engine is shut down; -1 while running
vars == <<argv, i, options, phase, started, frameBudget, ran, passed, profiled, shut, exit>>

NoPath == "none"
NoOptions == [headless |-> FALSE, config |-> NoPath, ticks |-> 0, replay |-> NoPath, prof |-> NoPath,
              report |-> FALSE, reportN |-> Window, budgets |-> NoPath, failOnBudget |-> FALSE]

Init == /\ argv \in CommandLines /\ i = 1
        /\ options = NoOptions /\ phase = "arguments" /\ started = {} /\ frameBudget = 0
        /\ ran = FALSE /\ passed = FALSE /\ profiled = TRUE /\ shut = FALSE /\ exit = -1

engineVars == <<started, frameBudget, ran, passed, profiled, shut>>
Return(code) == exit' = code /\ phase' = "done"
Continue(to) == phase' = to /\ UNCHANGED exit

\* parseTicks: digits to the end.
IsTicks(word) == word \in DOMAIN Numbers

-----------------------------------------------------------------------------
(* The arguments *)

Reads(changed, words) == /\ options' = changed /\ i' = i + words /\ Continue("arguments")
Usage == Return(2) /\ UNCHANGED <<i, options>>

WithValue(field) == IF i = Len(argv) THEN Usage ELSE Reads([options EXCEPT ![field] = argv[i + 1]], 2)
Headless == IF i = Len(argv) THEN Usage
            ELSE Reads([options EXCEPT !.headless = TRUE, !.config = argv[i + 1]], 2)
Ticks == IF i = Len(argv) \/ ~IsTicks(argv[IF i = Len(argv) THEN i ELSE i + 1]) THEN Usage
         ELSE Reads([options EXCEPT !.ticks = Numbers[argv[i + 1]]], 2)

\* The number is read only when it is one the window can hold.
ReportCount == IF i < Len(argv) THEN (IF IsTicks(argv[i + 1]) THEN {Numbers[argv[i + 1]]} ELSE {}) \cap (1..Window) ELSE {}
BudgetReport == IF ReportCount = {} THEN Reads([options EXCEPT !.report = TRUE], 1)
                ELSE Reads([options EXCEPT !.report = TRUE, !.reportN = CHOOSE n \in ReportCount : TRUE], 2)

ReadArgument ==
    /\ phase = "arguments" /\ i <= Len(argv)
    /\ CASE argv[i] = "--headless" -> Headless
         [] argv[i] = "--ticks" -> Ticks
         [] argv[i] = "--replay" -> WithValue("replay")
         [] argv[i] = "--prof-out" -> WithValue("prof")
         [] argv[i] = "--budget-report" -> BudgetReport
         [] argv[i] = "--budgets" -> WithValue("budgets")
         [] argv[i] = "--fail-on-budget" -> Reads([options EXCEPT !.failOnBudget = TRUE], 1)
         [] argv[i] = "--help" -> Return(0) /\ UNCHANGED <<i, options>>
         [] OTHER -> Usage
    /\ UNCHANGED <<argv, engineVars>>

ArgumentsRead ==
    /\ phase = "arguments" /\ i > Len(argv)
    /\ IF options.headless THEN Continue("create") ELSE Return(2)
    /\ UNCHANGED <<argv, i, options, engineVars>>

-----------------------------------------------------------------------------
(* The run *)

\* loadGameConfig and Engine::create.
CreateEngine(ok) ==
    /\ phase = "create" /\ IF ok THEN Continue("replay") ELSE Return(2)
    /\ UNCHANGED <<argv, i, options, engineVars>>

\* An output that was not asked for is not started.
StartOutput(at, asked, next, ok) ==
    /\ phase = at
    /\ IF ~asked THEN Continue(next) /\ UNCHANGED started
       ELSE IF ok THEN Continue(next) /\ started' = started \cup {at}
       ELSE Return(2) /\ UNCHANGED started
    /\ UNCHANGED <<argv, i, options, frameBudget, ran, passed, profiled, shut>>

StartOutputs(ok) == \/ StartOutput("replay", options.replay # NoPath, "profile", ok)
                    \/ StartOutput("profile", options.prof # NoPath, "budget", ok)
                    \/ StartOutput("budget", options.report, "run", ok)

\* A bounded run takes one tick a frame; an unbounded one never returns on its own.
RunHeadless(ok, within) ==
    /\ phase = "run" /\ frameBudget' = (IF options.ticks # 0 THEN 1 ELSE CatchUp)
    /\ options.ticks = 0 => ~ok
    /\ ran' = ok /\ passed' = within /\ Continue("shutdown")
    /\ UNCHANGED <<argv, i, options, started, profiled, shut>>

BudgetExit == IF options.report /\ options.failOnBudget /\ ~passed /\ ran THEN 3 ELSE 0

\* The shutdown writes the profile report.
Shutdown(written) ==
    /\ phase = "shutdown" /\ shut' = TRUE
    /\ profiled' = (("profile" \notin started) \/ written)
    /\ Return(IF ~ran THEN 1 ELSE IF ~profiled' THEN 2 ELSE BudgetExit)
    /\ UNCHANGED <<argv, i, options, started, frameBudget, ran, passed>>

Next == \/ ReadArgument \/ ArgumentsRead
        \/ \E ok \in BOOLEAN : CreateEngine(ok) \/ StartOutputs(ok) \/ Shutdown(ok)
        \/ \E ok, within \in BOOLEAN : RunHeadless(ok, within)
Spec == Init /\ [][Next]_vars

-----------------------------------------------------------------------------
(* Properties *)

\* Exit 0 after a run means that it completed, the profile asked for was written and no budget gate
\* was failed; exit 3 that the run completed and the gate alone stands in the way (laige-run.cpp:58-69).
ExitTellsRun ==
    /\ exit = 0 /\ shut => ran /\ profiled /\ ~(options.report /\ options.failOnBudget /\ ~passed)
    /\ exit = 3 => ran /\ profiled /\ options.report /\ ~passed /\ options.failOnBudget

\* The optional count of --budget-report swallows no other word: on a command line that is accepted
\* every word is a value of the option before it or has its effect.
TakesValue == {"--headless", "--ticks", "--replay", "--prof-out", "--budgets"}
EveryWordCounts ==
    LET IsValue[k \in 0..Len(argv)] == k > 1 /\ argv[k - 1] \in TakesValue /\ ~IsValue[k - 1]
        Effect(w) == CASE w = "--headless" -> options.headless [] w = "--replay" -> options.replay # NoPath
                       [] w = "--prof-out" -> options.prof # NoPath [] w = "--budgets" -> options.budgets # NoPath
                       [] w = "--budget-report" -> options.report [] w = "--fail-on-budget" -> options.failOnBudget
                       [] OTHER -> TRUE
    IN frameBudget # 0 => \A k \in DOMAIN argv : IsValue[k] \/ Effect(argv[k])
=============================================================================
