# laige-cpp: specifications and proofs

This directory holds TLA+ specifications of the laige game engine
(`src/src/laige-core`, `laige-sim`, `laige-render`) and of its command-line
tools (`src/tools`), the TLC configurations that check them, and proofs that
TLAPS checks. Paths below are relative to `src/src/` unless they say otherwise.
`PROJECT.json` maps every definition that models code to its lines and lists the
runs, the faulty variant each property is tested against, the findings, the
hazards and the theorems.

## 1. The system

laige is a C++20 engine library for 2D games with a deterministic, fixed-rate
simulation. One *owner thread* runs the simulation and the frame pipeline. The
only second thread of the engine itself is the optional render thread; the
logger may be called from any thread, and a GL context is bound to one thread
at a time.

    Engine --owns--> World, GameLoop, PresentationSnapshot, Profiler,
       |             FrameBudgetRecorder, ReplayRecorder
       | run_headless: frame(), sleep, frame(), ...
       v
    GameLoop --runTick--> World::runSystems --> systems (user code)
       | onTick hook after each tick              | create, destroy,
       v                                          | addComponent, each()
    PresentationSnapshot, ReplayRecorder          v
                                               World (entities, archetypes)
    FrameClock --waitFrame--> PresentationSnapshot --alpha--> what is drawn
    TileMap, ParallaxLayers, UiTree, text, particles --add--> SpriteBatcher
    SpriteBatcher --batches--> SpriteRenderer --GL--> GlContext
    owner thread --submitFrame--> RenderThread slot --> render thread
    everything --record--> Logger --> Sink
    laige-run, -replay, -detcheck, -bench, -golden, -api: one process each

### Inventory

| Component | State it keeps | Operations | What is hard | What makes it correct |
|---|---|---|---|---|
| Render thread (`laige-render/frame_pipeline.cpp`) | a one-frame slot of four words, `seq_`, `consumedSeq_`, `inFlight_`, `stop_`, counters; all atomics; a thread handle | `submitFrame`, `waitIdle`, `shutdown`, `stats`, the consumer loop, moves | lock-free, two threads, a seqlock whose words are written before the sequence is bumped | `waitIdle` is a barrier; no frame is lost without an event; a copy mixes at most two publications; no thread outlives its object |
| Frame clock (same file) and presentation snapshot (`laige-sim/presentation.h`) | frame index, reference; two records per slot, last tick, alpha | `waitFrame`; `onTick`, `onRenderFrame`, `sample_position`, moves | arithmetic near 2^63, slot reuse between ticks, ticks that are skipped | deadlines in order, a picture that never runs backwards, no interpolation across occupants |
| World: store (`entity.cpp`, `entity.h`, `archetype.cpp`) | generations, free stack, archetypes with sorted rows and columns, `rowOf_` | create, destroy, clear, add, remove, get | rows shift on every change, generations wrap | handles go stale, data follows its entity, the row index is exact |
| World: iteration guard (`query.cpp`, `query.h`) | the active iteration's archetypes and row | `each`, three guards | callbacks change the world while a cursor is held | each match is visited once |
| World: guardrails (`guardrails.cpp`) | churn counts, entity thresholds | `beginFrame`, checks | windows, thresholds compared for equality | one warning per level and frame, none missed |
| Systems (`systems.cpp`, `system.h`) | registry with dependencies and declared components, an order | `registerSystem`, `scheduleSystems`, `runSystems` | a graph algorithm on fixed arrays, schedules that go stale | stable topological order, real cycles, one writer per tick |
| Game loop (`game_loop.cpp`) | start time, completed and dropped ticks | `frame`, moves | catch-up under overload, clocks that step back, user code between ticks | ticks never ahead of the clock, counts add up, it catches up |
| Measurements (`system_timing.cpp`, `profiler.cpp`, `frame_budget.cpp`, `laige-core/budget_harness.cpp`, `alloc_watch.cpp`) | rings of samples and frame records, counters, a watched window of allocations | record, snapshot, report, arm, read | ring wrap, partly filled rings, five atomics without order | the report tells the last frames as they were, a tick is charged its own allocations |
| Engine (`engine.cpp`) | ownership of the above, `replayFail_`, report requests | create, `run_headless`, recording, reports, `shutdown` | every call can fail, an ordered teardown on every path | status and files agree, every request has an outcome, the run ends |
| Replay (`replay.cpp`, `replay_diff.cpp`, `state_hash.cpp`) | the recorder's counters, hash and file; parsed logs | create, `writeFrame`, `finish`, parse, `runReplay`, `diffReplays`, `stateHash`, `stateDiff` | crashes, size limits, torn files; a hash that must tell all states | a file at the final path is whole; a reported divergence is the first |
| Configuration (`config.cpp`), JSON and `budgets.json` (`json.cpp`, `budget_harness.cpp`) | the live values, the last accepted file | load, override, poll; parse, serialize | files read half-written, partial updates, escapes and surrogates | a rejected file changes nothing; the grammar and nothing else; what is written reads back |
| Logger (`laige-core/logging.cpp`) | rate table, retired flag, sink | record, `shutdown`, `init` | any thread, decisions under a lock and output after it | suppressed records are counted once and reported |
| Pools (`pools.h`), particles (`particles.h`) | slots with generations, a free list; a dense prefix of live particles | create, destroy, clear, moves; emit, burst, update | wrap of the generation, moves onto live pools, swap on death | each element destroyed once, a handle reaches its own; each particle aged once per tick |
| Isometric table, tile map, parallax (`iso_depth_key.h`, `iso_depth_table.h`, `tilemap.h`, `parallax.h`) | chunks of packed keys, textures, animation clocks, scroll offsets | setTile, rebuild, ensureChunk, advance, declareTo | growth copies cells to new places, wraps on both sides | the incremental table is the rebuilt one; what is declared is what was given |
| Batcher (`sprite_batcher.h`, `depth_sort.h`), renderer (`sprite_renderer.cpp`), contexts (`gl_context.cpp`) | a ring of sprites, groups; GL objects, atlases, remembered GL state; one owner per native context | add, build; create, bind, submit; create, makeCurrent, release, move | the ring drops the oldest, every GL call may fail, objects deleted once, contexts current on other threads | a batch is the sorted end of the frame; nothing leaks; a clear reaches its own context |
| Text (`text_items.h`), widgets (`ui_widgets.h`, `ui_render.h`) | interned strings; a tree of pooled nodes, focus, pressed widget, events | intern, layout; addChild, remove, layout, handlePointer, declareUi | wrapping, removal during a press, occlusion | lines fit and lose nothing; a click is press and release on one widget; hits are what is seen |
| Reference scene (`iso_reference_scene.h`) | one file | build, serialize, read, write | short writes and crashes | a scene or nothing |
| Tools (`src/tools/*`) | one process's options, files and exit code | see the modules | several outcomes in one exit code | the exit code tells what happened |

## 2. The modules

| Module | Models | State and actions |
|---|---|---|
| `FrameHandoff` | what the handoff promises: a published, an accepted and a rendering frame | abstract specification with its own fairness |
| `RenderThread` | `RenderThread`, one action per access to a shared atomic | `seq`, `slot`, `consumedSeq`, `inFlight`, `stop` and two program counters; `Handoff` is the refinement mapping |
| `RenderThreadOwnership` | construction, moves and destruction of two `RenderThread` objects and their thread handles | per object: valid, handle; per thread: running |
| `World` | `World` with its free stack, archetypes, rows, columns, the iteration guard and the entity budget | one action per operation; `clear` and `each` are several, because callbacks run between their steps |
| `Presentation` | `PresentationSnapshot` and the render loop with its `FrameClock`, over the whole of `World` (EXTENDS); `boundedDeadline`, `waitFrame` and the interpolation factor are operators | `records`, `lastTick`, `alpha`, the frame's index |
| `Scheduler` | `registerSystem`, `scheduleSystems`, `runSystems` | one action per turn of Kahn's loop and of the cycle walk |
| `GameLoop` | `frame`, `runTick`, the system phase and its staleness check, the churn guardrail | one action per frame begin, tick begin, system run, tick end, frame end |
| `ReplayRecorder` | the file format (`encodeHeader`, records, trailer, `parseReplay`), `ReplayRecorder` and the two files it touches | operators, and actions its owner composes; `finish` is one action per effect on the file system; `Die` is the process's end |
| `Engine` | `Engine`, composed with its `ReplayRecorder` (EXTENDS) | `pc` follows `run_headless`, `runFrames` and `shutdown`; `live` is what it owns |
| `Measurements`, `FrameBudget` | `Histogram`, `budgetCheck`; per-system budgets, the `Profiler`, the ring of frame records, the budget report | one action per call of the loop and of the engine that feeds them |
| `AllocWatch` | the allocation watch | one action per access to a shared atomic, per thread |
| `Logger` | concurrent `record`, `shutdown` and, apart from them, `init` | one action per step between locks, per thread |
| `Pools`, `Particles` | `Pool` and `ArenaPool`; `ParticleSystem` | one action per operation; `update` is three, its loop one turn at a time |
| `Config` | the schema, the overrides, the hot reloader and the editor's file | one action per call |
| `Json`, `BudgetFile`, `MCDocuments` | `parseJson` and the serializer, `loadBudgets`; the inputs and reference grammar they are checked with | operators (recursive, as the code) |
| `StateHash`, `ReplayTool` | the words a hash is fed, `stateDiff`; `runReplay`, `diffReplays` and laige-replay | one action per tick and per step of `main` |
| `ApiScanner`, `Detcheck`, `Bench`, `RunTool`, `Golden` | laige-api's scanner, laige-detcheck, -bench, -run, -golden | one action per piece of a header, or per step of `main` |
| `IsoDepthTable`, `TileMap`, `Parallax` | depth keys and their table; the tile map that owns one; layers, of images or of a map | each EXTENDS the one before |
| `SpriteBatcher`, `SpriteRenderer`, `GlContext` | declaration ring and depth sort; renderers over one context; contexts over threads | one action per call, `create` chooses the stage that fails |
| `UiTree`, `UiRender` | the widget tree; the pass that draws it | one action per call; the pass changes only the batcher, so it is an operator of the tree |
| `TextItems`, `SceneFile` | string table and line layout; the reference scene and its file | one action per call, per effect on the file system |
| `RenderThreadProofs`, `SimulationProofs`, `SchedulerProofs`, `WorldProofs`, `PresentationProofs`, `ServicesProofs` | theorems; `ServicesProofs` holds those of `AllocWatch`, `Pools`, `Particles`, `Config`, `Logger` and `FrameBudget`; that of `GlContext` stands at the end of the module | |

`MCSimulation`, `MCServices`, `MCTools` and `MCRendering` give the
instances. Each holds several components: a variable `part`, fixed
by the initial state, says which one the behaviour is of, and the others' variables
do not change. `MCServices` only adds `part` to the services' own modules, so
the properties it checks are the ones the theorems state. The components of one of these modules do not interact, in the
code or here; where components do interact, one module EXTENDS the other. The
runs of `World`, `Scheduler`, `RenderThread` and `Engine` are of these modules themselves.

Abstractions used throughout:

- Sequentially consistent memory. `RenderThread` and `AllocWatch` interleave
  atomic accesses; the additional reorderings of relaxed accesses are not
  explored.
- Release-build behaviour where a debug build would assert (`GameLoop` clamps
  a clock that steps back), except `Engine`, which is the debug build, because
  recording is refused in a release build.
- Names and payloads are model values or small numbers; floats whose fraction
  no property is about are whole numbers. A dependency string is the sequence
  of its tokens, a header the sequence of its words, a log's word a unit. A
  rejected call that changes nothing is not a step.
- FNV-1a is taken to be injective (`ReplayRecorder`, `StateHash`): what is shown
  about damage and equality holds up to a collision.
- What the outside answers (GL, EGL, the file system, a child process, an
  allocation) is a choice at every call that can fail. A process may die at any
  step where files are written; the disk keeps what was flushed.

## 3. The runs

Each property is also checked against a faulty variant of one definition (the
operators commented "Faulty variant"), which it has to reject.

| Run | Instance | Shows |
|---|---|---|
| `render_thread` | 3 publications, all interleavings of 2 threads | `WaitIdleBarrier`: from `waitIdle`'s return to the next publication the render thread holds no frame and copies none. `TornByAtMostOne`: a used copy mixes the accepted publication and at most the next. `DropsAreLogged`, `QuietStatsExact`, `WaitIdleReturns`, and `HandoffImplemented`, the refinement of `FrameHandoff` |
| `world` | 3 slots, 2 components, 2 archetypes, generations modulo 3, thresholds 0, 1 and 3 | `StoreIsWhole` (slots partitioned, stale handles refused until the wrap, rows indexed, data with its entity, room for every move), `EachVisitsMatchesOnce`, `BudgetWarnsMatchPeak` |
| `scheduler` | 3 names, 1 component, 3 systems, 2 dependencies each | `ScheduleIsTheStableSort`: the order is the least of all topological orders, a reported cycle is one, the walk stays in its array. `TickReadsWhatItWrote`: one writer, and no stale read that was not warned of |
| `simulation` | the loop: 3 ticks to 4 clock units, limit 2, clock to 7, 2 systems; the engine: 2 engines, 4 size limits, runs of 2 ticks or no end, 2 ticks per frame, a crash at every step | `NeverAheadOfClock`, `FrameAccounting`, `SystemsInLockStep`, `LoopCatchesUp`; `FinalLogIsWhole` (also: size limit kept, damaged logs refused), `OutcomeMatchesFile` (also: no temporary left, every request answered, bounded overshoot), `RunReturns` |
| `services` | see `MCServices`: 1 slot reused twice under 2 frames and 3 ticks; 2 logging threads and 5 calls; 2 pools of 2 slots, generations modulo 2; 3 particles, 2 emitters; 2 threads with 3 allocations each; a ring of 2 frame records and 3 frames; 10 files, 4 edits | one property per service: `SampleMixesOneEntity`, `PictureAdvances`, `SuppressedAreReported`, `PoolsKeepTheirElements`, `ParticlesAgeOnce`, `ReadCountsTheTick`, `ReportIsWhatHappened`, `LiveFollowsAcceptedFile` |
| `tools` | texts of up to 6 bytes, documents with at most one defect; 3 header pieces in 2 scopes; logs of up to 3 ticks over 2 slots, of which `--expect` takes 2; scenarios of 2 ticks; command lines of 3 words; 4 suites; 2 fixtures | `DocumentsReadRight`, `ListedWithItsBlock`, `ReplayTellsTheRuns`, `ExitTellsWhatHappened` (detcheck, bench, run), `VerdictCountsEveryFixture` (golden) |
| `rendering` | see `MCRendering`: coordinates -2 to 1 with chunks of 1 and 2; 3 widgets on 3 by 2 pixels with 3 edits, seen in half pixels; a ring of 3 and 4 declarations, keys of 2 binary digits; 2 renderers, 2 atlases, 2 passes; 4 contexts, 2 objects, 2 threads; 2 texts in a pool of 5; scenes of a few records, 2 writes | `KeysAndFramesAreRight`, `DeclaredAsGiven`, `InterfaceIsWhole`, `PictureAndPointerAgree` (culling changes no half pixel that is drawn where it was laid out, and the pointer hits what is seen there), `BatchesAreTheFrame`, `RendererBooks`, `ContextsHaveOneOwner`, `TextIsShown`, `SceneFileIsWhole` (also: a widget's fields at the ends of their domains) |

Five runs end with a violation; each states what a comment of the repository
says and shows an execution in which the code does otherwise (`findings` in
`PROJECT.json` quotes both).

| Run | What the code does |
|---|---|
| `render_thread_torn_copy` | accepts a copy that mixes two publications |
| `render_thread_move` | move assignment from a running `RenderThread` leaves its thread unjoined |
| `world_guard_ids` | asks the guard set for an id one past its size |
| `engine_rename` | removes the complete log that a failed rename is said to leave |
| `state_hash` | gives one hash to two worlds that differ in which slot has which components, so laige-replay reports them identical |

### Claims stated and not kept

These definitions, commented "A claim the code does not keep", state a line of
the repository that TLC refutes on the same instance; no run is kept for them.

| Claim | What the code does |
|---|---|
| `GameLoop!DropsForgetDemand` | a dropped tick stays in the demand and is run or dropped again (`game_loop.cpp:228` against `game_loop.h:104-108`; the test `game_loop_tests.cpp:458-469` pins the growing demand) |
| `GameLoop!ChurnWindowIsTheFrame` | the churn window is reopened for every tick, not every frame (`game_loop.cpp:248`, `game_loop.h:113-119`) |
| `Presentation!PairIsLastTwoTicks` | an entity created between two ticks has one position twice (`presentation.h:20-23`) |
| `Config!FileIsAuthoritative` | an override of a key the accepted edit did not change stays (`config.cpp:691-719`, `config.h:140-143`) |
| `MCDocuments!OnlyTheGrammar` | an object key without its opening quote is accepted (`json.cpp:258`, `json.h:18`) |
| `ApiScanner!HiddenStaysHidden` | a public class in a private one is listed: only the innermost class is asked (`laige-api.cpp:935-939`) |
| `Detcheck!LastLineFeedIsOptional` | a last line without line feed is refused when two binaries are compared (`laige-detcheck.cpp:480-497`, `docs/api/detcheck.md:45-46`) |
| `Golden!ReferencesAreWhole`, `Golden!SkipHidesNoFailure` | a short write of a reference is renamed into place (`laige-golden.cpp:478-502`); exit 77 hides an earlier failed comparison |
| `GlContext!FailureIsReported` | a context that fails before its functions were loaded is destroyed through a null function (`gl_context.h:127-130`) |
| `IsoDepthTable!ChunksWithinCap` | an origin off the chunk grid covers one chunk more than `maxChunks` (`iso_depth_table.h:625-634`) |
| `SpriteRenderer!DrawnWithItsAtlas` | the remembered texture and blend survive a pass of another renderer (`sprite_renderer.cpp:963-987`, `sprite_renderer.h:92-106`) |
| `UiTree!SaturatesToItsSide` | a coordinate below the negative bound saturates to the positive one (`ui_widgets.h:522-528`, `docs/api/ui_widgets.md:141-144`) |
| `UiRender!CulledIsUnseen` | a quad is centred with the whole half of its size, so an odd size shows half a pixel left of, or above, its rect (`ui_render.h:449-452` against `:41-44` and `docs/api/ui_render.md:38`); culling compares rects, and drops a widget of which half a pixel would show beside the panel (`:360-362`) |

Further disagreements met while reading, not stated as formulas:

- `system.h` says a system never runs earlier than registration order would
  place it; it can, when an earlier one is moved behind its dependency.
- `logging.h` says `emit` is never called concurrently with itself; the
  facade's lock is released before the call, and the sinks serialise themselves.
- `RenderThread::stats()` is exact only when the render thread is quiet.
- The allocation watch's emit depth is shared: an emit of another thread hides
  the owner's allocations during it (`ReadCountsTheTick` says so).
- `json.cpp:66-80` accepts code points above 10FFFF (F4 90..BF).
- `writeProfile` does not close its file after a short write; `readFileBounded`
  of laige-replay does not look at `ferror`; laige-bench's failure to open its
  report hides a failed budget; laige-api writes its output in place.
- `stateDiff` compares no generations.
- A `SpriteBatcher` or depth table that was moved from keeps its capacity or
  range without its store; some failure paths of the renderer's `create` delete
  the program twice; a windowed `makeCurrent` reports success always.
- `setPlacement` on the root before a layout empties its rectangle;
  `handlePointer` discards the frame's earlier input-text events.
- The scene reader does not validate the origin tile. It takes widget places up to
  2^21 - 1, the bound of computed rects, for "the M2-UI-01 domains"
  (`iso_reference_scene.h:1065`), where `addChild` refuses offsets beyond 2^20; and it
  tests them with `std::abs`, which is undefined for the least integer.
- `wrapUv` of a tiny negative offset rounds to 1 instead of below it, in floats
  (`Parallax` counts texels).

### Why the bounds are enough

- `render_thread`: the slot holds one frame. With three publications one can be
  in flight, one pending and one being written, and a drop, a retried copy and
  a `waitIdle` between any two accesses all occur.
- `world`: three rows are the least in which a row in the middle is removed;
  two components give the empty, both single and the joint signature, more
  than the two archetypes allow; generations wrap within a run.
- `scheduler`: three systems give chains, forks, self-dependencies and cycles
  with and without a tail, and a dependency on a name registered later.
- `simulation`: 4 units at 3 ticks is a rate that does not divide the second;
  the clock covers more than a second, so whole seconds and remainders, more
  ticks than the limit and steps back all occur. The size limits are one that
  is refused, one with room for one record and the trailer, one with room for
  two records but not the trailer, and one that suffices. `MaxTicks` lies one
  above the furthest a correct run can get.
- `services`: the slot's generations and the rings wrap, the pools' generation
  passes its reserved value, five logger calls allow a record let through, a
  suppressed one and a reporting one with a shutdown around them; the files
  are good ones, ones with a bad key behind a good one, and no file.
- `tools`: six bytes hold a nested array, an escape and a number with fraction
  or exponent; three header pieces after two scopes hold a block, a trailing
  comment or a directive before a declaration; two slots and two components
  are the least in which component sets can be exchanged.
- `rendering`: the domain has chunks on both sides of zero and grows in both
  directions; three widgets give an occluder, a container and a child, of even
  and odd sizes, on and across the screen's edges; the
  ring overflows by one; both renderers submit in both orders; a text has a
  space run, a word too wide and one that fits exactly.

Deadlock is checked in `render_thread`, `render_thread_torn_copy`, `world`,
`world_guard_ids` and `scheduler`. The other runs stop when a bound (on engines,
calls, edits, writes) is used up, a program has exited, or every object is
destroyed.

### Fairness

- `RenderThread`: weak fairness of the render thread, and of the owner while
  it is inside a call. Both are threads the operating system schedules; the
  owner is under no obligation to begin a call.
- `MCSimulation`: weak fairness of the loop's steps, because
  `Engine::runFrames` calls `frame()` again and again; `LoopCatchesUp` speaks
  of a clock that rests. Weak fairness of the engine's thread, and strong
  fairness of "a frame finds a tick due": the loop sleeps until the next
  tick's due time, computed from the completed count; the sleep uses the
  reading taken before the frame, so after it the clock is at or within rounding
  of the due time, and a steady clock passes it.
- Everything else claims safety only.

## 4. What is proved

TLAPS proves these for every value of the constants.

`RenderThreadProofs` assumes only `MaxFrames` and the counter's width
(`MaxFrames < CounterMod`, no wrap within a run). The inductive invariant
relates the two program counters to the counters: the consumer's `consumedSeq`
never passes `seq`; a copied word was written by the publication the consumer
saw or the one being written; while the consumer is past `MarkInFlight`,
`inFlight` holds. `WaitIdleBarrier` alone is not inductive, because it says
nothing of the moment between `inFlight`'s store and `consumedSeq`'s. Theorems:
`TypeCorrect`, `WaitIdleIsABarrier`, `CopyMixesAtMostTwo`, `NoSilentDrop`, and
`RefinesHandoff`, the safety part of the refinement. `StatsAreExact` needs a
second invariant on top (`StatsInv`): the accepted publications are as many as
the rendered frames, plus one while the accepted frame is not yet counted, and
what a quiet `stats()` has read so far is that nothing is on its way.

`SimulationProofs` holds two invariants. The loop's assumes the constants' assumptions of
`GameLoop`. `TicksDueExact` shows that converting seconds and remainder apart is the exact
floor. On it rest `TypeCorrect`, `NeverAhead`, `BooksBalance`,
`DropsAreTheShortfall` and `LockStep`. The invariant adds to each property what a
frame in progress still owes: planned plus completed plus dropped ticks equal the
demand the frame began with.

The engine's, `EngineInv`, assumes natural numbers and at least one tick per frame
(`EngineAssumption`). Neither property is inductive, because both speak of the end of
a run that every call of it may have failed. Its parts:

- `RecorderInv`: while the recorder's file is open it holds the header and
  the records of the frames so far, or these and their trailer, is within the
  size limit, and the running hash is of exactly these units; only a finished
  recorder has a final file, of as many frames as ticks.
- `RunInv`: the recorder's error is what `replayFail_` holds while the run lasts,
  a run with an error never returns ok, and a failure is followed by at most the
  rest of its frame.
- `FileInv`: what stands at the final path is empty or a whole log: this run's
  when it returned ok, what stood there before in every other case.
- `EventsInv`: which announcements and outcomes the logger took; `RestInv`: types.

`FinalLogWhole` also says that a damaged log is refused and a whole one read back as
its frames. The reader's loop is a recursive function over the places of the
log. Its existence on a finite set of places is proved (`ReaderExists`), and that it reads
k frames from k records by the least place at which it would not (`LeastExists`, as
below, since induction theorems cannot be cited). A log with a changed, missing or
added unit fails the trailer's count, its hash (injective, see section 2) or the header.
`OutcomeTells` adds what `run_headless` and the logger said of it.

`SchedulerProofs` makes no assumption beyond the constants' types.
`ScheduleIsStable` is about every turn of Kahn's loop. The inductive invariant says
that `pending` counts, for each unplaced system, the dependencies not yet placed
(so that 0 means ready); that what is placed respects the dependencies; and that
no topological order agreeing with the placed ones up to some place has a lower
system there, which is what "stable" comes to. When nothing is ready
and something is left, each unplaced system has an unplaced dependency: the walk
cannot leave the unplaced systems, is longer than their number only after it came back
to one, and what it then reports is a cycle, beside which no order exists.
`TicksReadFresh` adds what the checks of a finished schedule established for
as long as no registration has made it stale.

`WorldProofs` assumes a capacity of at least 1 and at least two generations. Its
invariant, `WorldInv`, has one part for each hazard, proved apart:

- `FreeInv`: the stack has no slot twice and is the dead slots; those `clear` has
  passed are dead; the count is that of the live ones unless `clear` runs
  (`FreeStackIsTheDead`).
- `HandleInv`: a slot that gave out n handles is in generation n while alive and
  n + 1 after, where generations go round and skip 0
  (`StaleHandlesAreRejected`, from `ModUnique` and `BumpIsNext`).
- `BudgetInv` and `CountInv`: the population never passes the peak, so a count is
  first compared when it becomes the peak (`WarningsMatchThePeak`).
- `StoreInv`: the rows of an archetype are in slot order, without repetition, within
  its reservation, and exactly those of the live slots assigned to it; `rowOf` is where the
  slot's row is; the columns hold what was written. Each part leans on the
  others: removing a row is right only because `rowOf` names it, the new index only
  because the rows were in order. With the first two it gives `StoreStaysWhole`.
- `EachInv`: the iteration's archetypes exist, hold the query's components and
  lose no row while it runs. `CoverInv` then gives `EachCoversItsMatches`: what was visited
  and what the cursor still has before it are what matched at the beginning. That
  a row is not taken or moved from under the cursor is the step property
  `ArchetypesStay`, proved of every action from the guards.

`EachVisitsMatchesOnce` flattens a sequence of sequences, which the community modules
define by recursion over the length. An induction theorem cannot be used here (see
below), so `WorldProofs` and `SchedulerProofs` prove from the
well-foundedness of finite sets that a non-empty set of numbers has a least
element (`LeastExists`), and take the least place at which a statement would fail.

`PresentationProofs` adds to `WorldInv` that an active record was made for one of its
slot's entities and carries that one's generation, and that while the
generations have not gone round the newest entity's record holds positions of
that entity. `SamplesAreItsOwn` therefore has the hypothesis that no slot has given out
as many handles as there are generations (`NoneGoneRound`): after a
round, a record made for an earlier entity has the generation of a later one, and
`sample_position`, which compares only generations, trusts it. In the code a slot goes
round after 65535 reuses; the bounds of the run `services` stay below a
round too, so the invariant holds there without the hypothesis. `PictureNeverRunsBack` has none:
what was last shown is at most what the last render time shows of the current tick,
each tick moves that by no less than the factor falls, and deadlines are
ordered. It rests on lemmas about the operators of the clock and the factor, which
assume positive rates not above the clock's units and the largest tick
rate. `AlphaExact`: the factor computed from seconds and remainder apart, with the
early exits that keep the products within 64 bits, is the exact one clamped to
[0, 1]. `AlphaGrows`: so it grows with time between two ticks. `DeadlinesOrdered`:
deadlines never decrease and stay between the reference and the largest time, the
clamped ones included.

`ServicesProofs` has one invariant for each service.

`PoolsLoseNothing`, for pools of any number and
capacity and at least two generations: a slot used n times is in the generation of its
n-th use while it holds an element and of the next after; the element's handle names
slot, store and use, and so no element can be in two slots; the free stack is the empty
slots, each once; stores are numbered once, a moved-from pool has none; and what was constructed and
is nowhere was destroyed, once. `NoLeakNoDoubleDestroy` alone is not inductive: that
`destroy` frees one place rests on the handles, that `create` takes none on the stack.
That `clear` pushes every live slot once, in order, is `InOrderLists`, a count of the
slots below each.

`ReadsAreTheTicks`, for any finite set of threads and any number of allocations:
the invariant (`BooksInv`) relates `firstSite` and the count to what the loop's thread
allocated at every step between two of its atomic accesses, with one allocation under
way or none, and allows the count to fall behind only once another thread was inside
`emit` (`EmitInv`).

`ParticlesAreAgedOnce`, for any capacity, emitters and lengths of life. The invariant
(`AgesInv`) says where `update`'s loop stands: the slots before `at` are up to date
and that one and all behind it one update behind. So the last particle, which takes the place
of a dead one, is one that was not looked at, and looking at the same slot again ages it
once; passing over it would not. A drop needs a full pool, and what is in the pool was spawned.

`LiveIsTheAcceptedFile`, for any set of documents and overrides.
`LiveFollowsAcceptedFile` speaks only of a reloader that exists; what is added
(`ConfigInv`) is that before there is one, a configuration that was loaded
follows the file itself until the file is edited, which is why `create`, which
reads the file a second time, may take what it reads for what is live.

`TheLoggerLosesNothing`, for any finite set of threads, any set of events and any
movement of the clock. `LoggerInv` has four parts:

- `RateInv`: a rate remembers the latest time stamp let through since the rates
  were cleared, although threads stamp before they take the lock and the clock may
  go back (`WindowsApart` is its corollary).
- `ReportInv`: a thread has a summary to tell only between its dispatch and its
  write, `shutdown` has pending counts only while it drains, and the sink's mutex is
  held by the thread that writes.
- `BooksBalance`: dispatched records are written, told, counted in the
  rate, taken by a thread, forgotten by an `init` or waiting to be written. The shares of the threads
  are sums over a finite set: a step of one thread changes them by that thread's
  share (`SharesChange`, from `SumChanges`), and what it gives up is what the other side gains.
- `QuietDrain`: once retired with no record under way, at most one shutdown
  drains, nothing else writes, and what is not flushed it has yet to flush.

The sums of the community modules are recursive functions over the subsets of a
set. That such a function exists and what it gives is proved by the least
cardinality at which it would not (`SumIs`), and from it that sums add up, count, and
change by one share (`SumAdds`, `SumCounts`, `SumChanges`).

`TheReportIsWhatHappened`, for any finite set of systems, any budgets and times, any
number of frames and any ring of them, and a window of fewer than a hundred samples
per system (it is 64 in the code): with a hundred, the 99th percentile would no longer be the largest
and one slow tick could pass. The invariant (`MeasuringInv`):

- `WindowsInv`: each histogram holds the last samples of its system, the k-th at
  place k - 1 modulo the capacity (`RecordHolds`; `StoredIs` reads them back in order,
  from a ring that is full and one that is not).
- `FrameInv`: the totals over all systems have grown since the frame was opened by
  what the frame's own record counts.
- `RingInv`: the ring holds the last completed frames in the same way.

The verdict then needs that the last of the sorted samples is the largest
(`SortedEnds`) and is the one the percentile picks (`TopIsP99`); and that the
report of a run without frames cannot pass (`NoFramesNoPass`).

`GlContext`: `ContextsAreOwned`, the property `ContextsHaveOneOwner` of the run
`rendering`, with no assumption on the constants. The invariant adds that native
numbers are given once.

Only model-checked: all liveness (`WaitIdleReturns`, `LoopCatchesUp`,
`RunReturns`) and the fairness part of the refinement, since the prover does not
treat fairness; and what is not named above: the documents, the tools and
the rest of rendering; of the measurements the profiler's formats, the tick and
heap entries of `budgets.json`, and means and medians.
`Json`, `MCDocuments` and the modules that reach them use recursive operators,
and what `parseReplay` or the layout compute for every input is induction over
data; both are out of the prover's reach.

## 5. Not modelled

- Cameras and projection, fixed-point maths, the random generator, font
  rasterising, particle rendering: arithmetic or one pass without state, which
  the repository compares with references over whole ranges.
- The memory orders of relaxed atomics, as said above.
- The aliasing of `addComponent`'s value with a column that moves
  (`entity.h:1767`): values are copied here.
- Component registration, moves of a `World`, `TileMap`, depth table, batcher
  and renderer, and the statistics that only count calls.
- Where glyphs come to lie: they are not clipped to the widget (`ui_render.h:95-97`),
  so `UiRender` speaks of a widget's art only; its widgets share one atlas (the
  batcher draws atlas by atlas), its fonts are loaded, and the pass runs in an open
  frame, in which an add always succeeds.
- The layout of reports and of the API manifest, window events, the walk over
  directories, fuzz targets and samples.

Candidates for further proofs: the depth table and the batcher's order, the widget tree,
and the pacing lemma behind the engine's fairness.
