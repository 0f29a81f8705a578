------------------------------ MODULE MCTools ------------------------------
(***************************************************************************)
(* The documents the engine reads and the command-line programs around it,  *)
(* each on small inputs: a behaviour is one document read, or one run of    *)
(* laige-api's scanner, laige-replay, laige-detcheck, laige-bench,          *)
(* laige-run or laige-golden.                                               *)
(***************************************************************************)
EXTENDS ReplayTool

CONSTANTS Fixtures

-----------------------------------------------------------------------------
(* Two slots and components 1 and 2, the logs of a seed and the baselines of --expect *)

Entity(g, v) == [generation |-> g, values |-> v]
W(a, b, r) == [slots |-> <<a, b>>, rng |-> r]
First == W(Entity(1, 1 :> 0), Entity(1, 2 :> 0), 0)
Swapped == W(Entity(1, 2 :> 0), Entity(1, 1 :> 0), 0)
TestStates ==
    {First, Swapped, W(Entity(1, 1 :> 0), Entity(1, <<1, 0>>), 0),
     W(Entity(2, 1 :> 0), Entity(1, 2 :> 0), 0), W(Entity(1, 1 :> 0), Entity(1, 2 :> 1), 0)}
Other == W(Entity(1, 1 :> 0), Entity(1, 2 :> 0), 1)   \* the generator is elsewhere
TestTraces == {<<First, First, c, First>> : c \in TestStates}
              \cup {<<First, Swapped, First, First>>, <<W(<<>>, Entity(1, 2 :> 1), 0), First, First, First>>, <<Other, Other, Other, Other>>}
TestLogs == [frames : {0, 2, 3}, seed : {1}, rest : {"base"}] \cup [frames : {2}, seed : {2}, rest : {"base"}] \cup {[frames |-> 1, seed |-> 2, rest |-> "other"]}
TestConfigs == {[seed |-> 1, rest |-> "base", deterministic |-> TRUE], [seed |-> 1, rest |-> "base", deterministic |-> FALSE],
                [seed |-> 0, rest |-> "unreadable", deterministic |-> TRUE]}
Right(t) == <<Line(t, Hash(First, t))>>
TestBaselines ==
    { <<>>, Right(0), Right(0) \o <<NL>>, Right(0) \o <<CR, NL>>, Right(0) \o <<CR>>, Right(0) \o <<NL, NL>>,
      Right(0) \o <<NL, CR, NL>>, Right(0) \o <<NL, NL, NL>>, <<Junk, NL>>, Right(1) \o <<NL>>,
      Right(0) \o <<NL>> \o Right(1) \o <<CR, NL>> \o Right(2),
      Right(0) \o <<CR, NL>> \o Right(1) \o <<NL>> \o Right(2) \o <<NL>>,
      Right(0) \o <<CR, NL>> \o Right(1) \o <<NL, Junk, NL>> }

-----------------------------------------------------------------------------
(* The pieces of header files laige-api scans *)

EndOfLine == <<"newline">>
Piece(tokens) == [tokens |-> tokens \o EndOfLine, opens |-> <<>>, declares |-> "", role |-> "end", inEnum |-> FALSE]
As(role, p) == [p EXCEPT !.role = role]
Declares(name, tokens) == [Piece(tokens) EXCEPT !.declares = name]
Scope(name, kind, access) == [name |-> name, kind |-> kind, access |-> access]
Opens(scopes, p) == [p EXCEPT !.opens = scopes]
Enumerator(name, tokens) == [Declares(name, tokens) EXCEPT !.inEnum = TRUE]

Lines ==
    {As("comment", Piece(<<c>>)) : c \in {"one", "", "@budget"}}
    \cup {As("gap", Piece(<<>>)), As("gap", Piece(<<"banner">>)), As("keep", Piece(<<"#if">>))}
Scoping ==
    {Opens(<<Scope("a", "namespace", ""), Scope("detail", "namespace", "")>>, Piece(<<"namespace", "a", "detail", "{">>)),
     Opens(<<Scope("a", "namespace", ""), Scope("b", "namespace", "")>>, Piece(<<"namespace", "a", "b", "{">>)),
     Piece(<<"}", ";">>), Piece(<<"public:">>), Piece(<<"private:">>), Piece(<<"#include">>),
     Opens(<<Scope("A", "class", "private:")>>, Declares("A", <<"class", "A", "{">>)),
     Opens(<<Scope("A", "class", "public:")>>,
           Declares("A", <<"template", "<", "class", "T", ">", "struct", "A", "{">>)),
     Opens(<<Scope("E", "enum", "")>>, Declares("E", <<"enum", "class", "E", ":", "a", "{">>))}
Declarations ==
    {Piece(<<"class", "A", ";">>), Piece(<<"friend", "class", "A", ";">>),
     Piece(<<"static_assert", "(", "a", ",", "quote", "}", "quote", ")", ";">>),
     Piece(<<"void", "A::f", "(", ")", "{", "}">>),
     Declares("MACRO", <<"#define">>),
     Declares("f", <<"template", "<", "class", "T", ">", "requires", "(", "T", ")", "a", "f", "(", "a", "=", "{", "}", ")", ";">>),
     Declares("f", <<"void", "f", "(", ")", "{", "if", "(", "a", ")", "{", "newline", "two", "newline", "}", "}">>),
     As("trailing", Declares("b", <<"a", "b", "=", "f", "(", ")", ";", "two">>)),
     Declares("b", <<"a", "b", "{", "f", "(", ")", "}", ";">>),
     Declares("A", <<"A", "(", ")", ":", "a", "(", "b", ")", "{", "}">>),
     Declares("~A", <<"~A", "(", ")", "=", "default", ";">>),
     Declares("b", <<"using", "b", "=", "a", ";">>)}
Enumerators ==
    {Enumerator("a", <<"a", ",">>), As("trailing", Enumerator("b", <<"b", "=", "f", "(", "a", ",", "b", ")", ",", "one">>)),
     Enumerator("b", <<"b", "newline", "}", ";">>), [Piece(<<"}", ";">>) EXCEPT !.inEnum = TRUE]}
ApiPieces == Lines \cup Scoping \cup Declarations \cup Enumerators

-----------------------------------------------------------------------------
(* Command lines and budgets *)

RunWords == {"--headless", "--ticks", "--replay", "--prof-out", "--budget-report", "--budgets",
             "--fail-on-budget", "--help", "7", "40", "game.json"}
CommandLines == {p \o w : p \in {<<>>, <<"--headless", "game.json", "--ticks", "7">>},
                          w \in UNION {[1..n -> RunWords] : n \in 0..3}}

BenchBudgets == <<"sprites_50k_cpu", "sprites_50k_draw_calls", "sprites_10k_frame">>
BenchEntries == [sprites_50k_cpu |-> [metric |-> "mean", target |-> 1],
                 sprites_50k_draw_calls |-> [metric |-> "max", target |-> 2],
                 sprites_10k_frame |-> [metric |-> "max", target |-> 1]]

-----------------------------------------------------------------------------
VARIABLES
    part,  \* what this behaviour is about
    case, parsed,
    sc, above, declares, outside, open,
    detPhase, scenario, out, said, code, compared,
    suite, benchPhase, step, gl, clock, loopTicks, iterations, histogram, own, verdicts, benchExit, measured, allocated,
    argv, i, options, phase, started, frameBudget, ran, passed, profiled, shut, exit,
    goldenArgv, update, names, goldenPhase, k, rc, failed, references, temporaries, passes, goldenExit, looks

replayVars == <<mode, config, logs, expect, world, failing, pc, engines, made, tick, fullStateDivergent, hashes, result>>
documentsVars == <<case, parsed>>
apiVars == <<sc, above, declares, outside, open>>
detcheckVars == <<detPhase, scenario, out, said, code, compared>>
benchVars == <<suite, benchPhase, step, gl, clock, loopTicks, iterations, histogram, own, verdicts, benchExit, measured, allocated>>
runVars == <<argv, i, options, phase, started, frameBudget, ran, passed, profiled, shut, exit>>
goldenVars == <<goldenArgv, update, names, goldenPhase, k, rc, failed, references, temporaries, passes, goldenExit, looks>>
toolsVars == <<part, replayVars, documentsVars, apiVars, detcheckVars, benchVars, runVars, goldenVars>>

Docs == INSTANCE MCDocuments WITH MaxText <- 6, result <- parsed
Api == INSTANCE ApiScanner WITH
    Identifiers <- {"a", "b", "f", "A", "E", "T", "detail"}, Qualified <- {"A::f"}, Destructors <- {"~A"},
    Comments <- {"one", "two", "", "@budget"}, Pieces <- ApiPieces, MaxSince <- 3, MaxOpen <- 2
Det == INSTANCE Detcheck WITH
    Hashes <- {0, 1}, MaxTicks <- 2, PerturbTick <- 1, DefaultTicks <- 3,
    phase <- detPhase, run <- scenario, result <- compared
Ben == INSTANCE Bench WITH
    Suites <- {"synthetic", "sim-tick", "render-50k", "ac4"}, Runs <- 2, Warmup <- 1,
    Budgets <- BenchBudgets, Entries <- BenchEntries, Samples <- {1, 2}, phase <- benchPhase, exit <- benchExit
RunT == INSTANCE RunTool WITH Numbers <- [w \in {"7", "40"} |-> IF w = "7" THEN 7 ELSE 40], Window <- 32, CatchUp <- 5
Gold == INSTANCE Golden WITH
    UiFixture <- "ui_smoke",
    Words <- {"--update", "--all", "--fixture", "--max-channel-diff", "sprite_iso_1000", "ui_smoke", "-1"}, MaxWords <- 4,
    Negatives <- {"-1"},
    argv <- goldenArgv, phase <- goldenPhase, exit <- goldenExit

\* The variables of what is not run.
Idle(v) == v = "idle"
ToolsInit ==
    /\ part \in {"replay", "documents", "api", "detcheck", "bench", "run", "golden"}
    /\ IF part = "replay" THEN Init
       ELSE Idle(mode) /\ Idle(config) /\ Idle(logs) /\ Idle(expect) /\ Idle(world) /\ Idle(failing) /\ Idle(pc) /\ Idle(engines) /\ Idle(made) /\ Idle(tick) /\ Idle(fullStateDivergent) /\ Idle(hashes) /\ Idle(result)
    /\ IF part = "documents" THEN Docs!Init
       ELSE Idle(case) /\ Idle(parsed)
    /\ IF part = "api" THEN Api!Init
       ELSE Idle(sc) /\ Idle(above) /\ Idle(declares) /\ Idle(outside) /\ Idle(open)
    /\ IF part = "detcheck" THEN Det!Init
       ELSE Idle(detPhase) /\ Idle(scenario) /\ Idle(out) /\ Idle(said) /\ Idle(code) /\ Idle(compared)
    /\ IF part = "bench" THEN Ben!Init
       ELSE Idle(suite) /\ Idle(benchPhase) /\ Idle(step) /\ Idle(gl) /\ Idle(clock) /\ Idle(loopTicks) /\ Idle(iterations) /\ Idle(histogram) /\ Idle(own) /\ Idle(verdicts) /\ Idle(benchExit) /\ Idle(measured) /\ Idle(allocated)
    /\ IF part = "run" THEN RunT!Init
       ELSE Idle(argv) /\ Idle(i) /\ Idle(options) /\ Idle(phase) /\ Idle(started) /\ Idle(frameBudget) /\ Idle(ran) /\ Idle(passed) /\ Idle(profiled) /\ Idle(shut) /\ Idle(exit)
    /\ IF part = "golden" THEN Gold!Init
       ELSE Idle(goldenArgv) /\ Idle(update) /\ Idle(names) /\ Idle(goldenPhase) /\ Idle(k) /\ Idle(rc) /\ Idle(failed) /\ Idle(references) /\ Idle(temporaries) /\ Idle(passes) /\ Idle(goldenExit) /\ Idle(looks)
ToolsNext ==
    \/ part = "replay" /\ Next /\ UNCHANGED <<part, documentsVars, apiVars, detcheckVars, benchVars, runVars, goldenVars>>
    \/ part = "documents" /\ Docs!Next /\ UNCHANGED <<part, replayVars, apiVars, detcheckVars, benchVars, runVars, goldenVars>>
    \/ part = "api" /\ Api!Next /\ UNCHANGED <<part, replayVars, documentsVars, detcheckVars, benchVars, runVars, goldenVars>>
    \/ part = "detcheck" /\ Det!Next /\ UNCHANGED <<part, replayVars, documentsVars, apiVars, benchVars, runVars, goldenVars>>
    \/ part = "bench" /\ Ben!Next /\ UNCHANGED <<part, replayVars, documentsVars, apiVars, detcheckVars, runVars, goldenVars>>
    \/ part = "run" /\ RunT!Next /\ UNCHANGED <<part, replayVars, documentsVars, apiVars, detcheckVars, benchVars, goldenVars>>
    \/ part = "golden" /\ Gold!Next /\ UNCHANGED <<part, replayVars, documentsVars, apiVars, detcheckVars, benchVars, runVars>>
ToolsSpec == ToolsInit /\ [][ToolsNext]_toolsVars

-----------------------------------------------------------------------------
(* Properties *)

\* Every JSON text of the documented grammar is accepted, nothing else is as far as
\* arrays, strings and numbers go, and what is written reads back as the same value
\* (json.cpp).  A budgets file with one slip anywhere fails as a whole; a good one is
\* taken in its order, each name leading to one entry (budget_harness.cpp).
DocumentsReadRight ==
    part = "documents" => Docs!ParserTakesTheGrammar /\ Docs!RoundTrip /\ Docs!TableIsAllOrNothing

\* A public declaration is listed once, under its scopes, with the comment block above
\* it and no other (laige-api.cpp).
ListedWithItsBlock == part = "api" => Api!ListedWithItsBlock

\* A divergence laige-replay reports is one and the first, --expect accepts exactly the
\* run's own stream, and no engine outlives the tool (laige-replay.cpp, replay_diff.cpp).
ReplayTellsTheRuns == part = "replay" => DivergenceIsReal /\ ExpectIsTheStream /\ ExitsClean

\* The exit code tells what happened: laige-detcheck's what the two scenarios wrote,
\* laige-bench's what the timed runs and no warm-up measured, laige-run's whether the run
\* completed and its files and gates are in order.
ExitTellsWhatHappened ==
    /\ part = "detcheck" => Det!VerdictTellsRuns
    /\ part = "bench" => Ben!WarmupIsDiscarded /\ Ben!ExitTellsBudgets
    /\ part = "run" => RunT!ExitTellsRun /\ RunT!EveryWordCounts

\* Exit 0 of laige-golden means that every selected fixture was compared and held, or
\* has its new reference; exit 1 that one did not hold (laige-golden.cpp).
VerdictCountsEveryFixture == part = "golden" => Gold!VerdictCountsEveryFixture

=============================================================================
