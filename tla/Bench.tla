------------------------------- MODULE Bench -------------------------------
(***************************************************************************)
(* laige-bench (tools/bench/laige-bench.cpp): a suite is set up, run a few   *)
(* times to warm up and then measured, and the measured windows are checked *)
(* against the named entries of budgets.json.                               *)
(*                                                                          *)
(* A suite is its setup steps, what its iteration records by itself and the *)
(* names of the budgets those histograms answer to.  A sample is a small    *)
(* number.  A host without OpenGL measures the CPU side alone.              *)
(***************************************************************************)
EXTENDS Measurements, FiniteSets

CONSTANTS Suites,     \* subset of DOMAIN SetupSteps
          Runs, Warmup,
          Budgets,    \* the entries named by --budget, as a sequence of names
          Entries,    \* budgets.json: [name -> [metric, target]]
          Samples     \* what a timer can read

VARIABLES suite, phase, step,
          gl,         \* an offscreen context was made
          clock,      \* sim-tick: the synthetic clock, in ticks
          loopTicks,  \* the ticks its loop completed
          iterations, histogram, own,   \* the suite's own histograms, by budget name
          verdicts,   \* the verdict of each budget checked
          exit,
          \* history
          measured,   \* the samples of the timed runs: the harness's and, by name, the suite's
          allocated   \* a measured window allocated
vars == <<suite, phase, step, gl, clock, loopTicks, iterations, histogram, own, verdicts, exit, measured, allocated>>

\* What may fail while a suite is set up, in order; "gl" is optional.
SetupSteps ==
    ("synthetic" :> <<>>) @@
    ("sim-tick" :> <<"world", "components", "systems", "entities", "schedule", "loop", "first frame">>) @@
    ("render-50k" :> <<"scene", "layout", "batchers", "gl", "renderers", "camera">>) @@
    ("ac4" :> <<"projection", "batchers", "gl", "renderers">>)

\* histogramFor: the budgets a suite measures by itself, and those that need a GL.
OwnBudgets == ("render-50k" :> {"sprites_50k_cpu", "sprites_50k_draw_calls"}) @@ ("ac4" :> {"sprites_10k_frame"})
              @@ [s \in {"synthetic", "sim-tick"} |-> {}]
NeedsGl == {"sprites_50k_draw_calls", "sprites_10k_frame"}
Watched == {"render-50k", "ac4"}   \* the batch stage must not allocate

Init ==
    /\ suite \in Suites /\ phase = "setup" /\ step = 1 /\ gl = TRUE /\ clock = 0 /\ loopTicks = 0
    /\ iterations = 0 /\ histogram = NewHistogram(Runs)
    /\ own = [b \in OwnBudgets[suite] |-> NewHistogram(Runs)]
    /\ verdicts = <<>> /\ exit = -1
    /\ measured = [harness |-> <<>>, suite |-> [b \in OwnBudgets[suite] |-> <<>>]] /\ allocated = FALSE

Exit(code) == phase' = "exit" /\ exit' = code

-----------------------------------------------------------------------------
(* Setup: simTickSetup, render50Setup and ac4Setup.  A failure leaves at once  *)
(* with 1, but a host without a context goes on without its renderers.         *)

SetupStep ==
    /\ phase = "setup" /\ step <= Len(SetupSteps[suite])
    /\ \/ step' = step + 1 /\ UNCHANGED <<phase, exit, gl>>
       \/ SetupSteps[suite][step] # "gl" /\ Exit(1) /\ UNCHANGED <<step, gl>>
       \/ SetupSteps[suite][step] = "gl" /\ gl' = FALSE /\ step' = step + 2 /\ UNCHANGED <<phase, exit>>
    /\ UNCHANGED <<suite, clock, loopTicks, iterations, histogram, own, verdicts, measured, allocated>>

\* The suite's own histograms are as large as the number of timed runs.
SetupDone ==
    /\ phase = "setup" /\ step > Len(SetupSteps[suite])
    /\ phase' = "run"
    /\ own' = [b \in OwnBudgets[suite] |-> NewHistogram(Runs)]
    /\ UNCHANGED <<suite, step, gl, clock, loopTicks, iterations, histogram, verdicts, exit, measured, allocated>>

-----------------------------------------------------------------------------
(* Iterations *)

Timed == iterations >= Warmup

\* The iteration of each suite: one tick of the loop on the synthetic clock, or the
\* batch stage of a frame and, with a context, its submission.
OwnSample(b, x) == IF ~gl /\ b \in NeedsGl THEN own[b] ELSE Record(own[b], x)

\* The harness times the whole iteration, when the warm-up is over.
Iteration ==
    /\ phase = "run" /\ iterations < Warmup + Runs
    /\ iterations' = iterations + 1
    /\ \/ /\ \E whole \in Samples, x \in Samples :
               /\ histogram' = IF Timed THEN Record(histogram, whole) ELSE histogram
               /\ own' = [b \in OwnBudgets[suite] |-> OwnSample(b, x)]
               /\ measured' = IF ~Timed THEN measured
                              ELSE [harness |-> Append(measured.harness, whole),
                                    suite |-> [b \in OwnBudgets[suite] |->
                                        IF ~gl /\ b \in NeedsGl THEN <<>> ELSE Append(measured.suite[b], x)]]
          /\ clock' = IF suite = "sim-tick" THEN clock + 1 ELSE clock
          /\ loopTicks' = IF suite = "sim-tick" THEN clock' ELSE loopTicks
          /\ UNCHANGED <<phase, exit, allocated>>
       \* a frame, a declaration, a build or a submission fails
       \/ suite # "synthetic" /\ Exit(1) /\ UNCHANGED <<histogram, own, measured, clock, loopTicks, allocated>>
       \* the batch stage allocated
       \/ suite \in Watched /\ allocated' = TRUE /\ Exit(1) /\ UNCHANGED <<histogram, own, measured, clock, loopTicks>>
    /\ UNCHANGED <<suite, step, gl, verdicts>>

\* The teardown; ac4 insists on its four draw calls a frame.
Teardown ==
    /\ phase = "run" /\ iterations = Warmup + Runs
    /\ \/ phase' = "check" /\ UNCHANGED exit
       \/ suite = "ac4" /\ gl /\ Exit(1)
    /\ UNCHANGED <<suite, step, gl, clock, loopTicks, iterations, histogram, own, verdicts, measured, allocated>>

-----------------------------------------------------------------------------
(* The checks *)

ExitOf(vs) == IF \E i \in DOMAIN vs : vs[i] # "PASS" THEN 2 ELSE 0

\* The entries one by one; a name the file does not have ends the tool with nothing
\* printed.
Check ==
    /\ phase = "check" /\ Len(verdicts) < Len(Budgets)
    /\ LET name == Budgets[Len(verdicts) + 1]
           checked == IF name \in OwnBudgets[suite] THEN own[name] ELSE histogram
       IN IF name \notin DOMAIN Entries THEN Exit(1) /\ UNCHANGED verdicts
          ELSE verdicts' = Append(verdicts, BudgetCheck(Entries[name], checked)) /\ UNCHANGED <<phase, exit>>
    /\ UNCHANGED <<suite, step, gl, clock, loopTicks, iterations, histogram, own, measured, allocated>>

\* The report is printed and appended to the report file, whose failure wins.
Report ==
    /\ phase = "check" /\ Len(verdicts) = Len(Budgets)
    /\ \/ Exit(ExitOf(verdicts)) \/ Exit(1)
    /\ UNCHANGED <<suite, step, gl, clock, loopTicks, iterations, histogram, own, verdicts, measured, allocated>>

Next == SetupStep \/ SetupDone \/ Iteration \/ Teardown \/ Check \/ Report
Spec == Init /\ [][Next]_vars

-----------------------------------------------------------------------------
(* Properties *)

\* Every window that is checked holds the samples of the timed runs and no other: the
\* warm-up, which the suites record into their own histograms like any frame, has been
\* pushed out again, and the loop has run a tick per iteration (laige-bench.cpp:10-11).
WarmupIsDiscarded ==
    phase \in {"check", "exit"} /\ iterations = Warmup + Runs /\ ~allocated /\ exit # 1 =>
      /\ Stored(histogram) = measured.harness
      /\ \A b \in OwnBudgets[suite] : Stored(own[b]) = measured.suite[b]
      /\ loopTicks = IF suite = "sim-tick" THEN Warmup + Runs ELSE 0

\* Exit code 0 says that every named budget was checked on a window that is not empty and
\* held, 2 that one was not; no batch stage that allocated comes to a verdict
\* (laige-bench.cpp:22-25, 57-66).
ExitTellsBudgets ==
    (phase = "exit" /\ exit \in {0, 2}) =>
      /\ ~allocated
      /\ (exit = 0) <=> \A i \in DOMAIN Budgets :
           LET h == IF Budgets[i] \in OwnBudgets[suite] THEN measured.suite[Budgets[i]] ELSE measured.harness
               m == Entries[Budgets[i]]
           IN h # <<>> /\ IF m.metric = "max" THEN \A j \in DOMAIN h : h[j] <= m.target
                          ELSE FoldSeq(+, 0, h) <= m.target * Len(h)
=============================================================================
