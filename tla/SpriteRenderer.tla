--------------------------- MODULE SpriteRenderer ---------------------------
(***************************************************************************)
(* The sprite renderers (sprite_renderer.cpp) that share one GL context: the *)
(* objects they create, the atlas textures bound to them and the passes they *)
(* submit, with the texture and blend function they remember from the last.  *)
(*                                                                          *)
(* A texture is known by its GL name, which the driver may hand out again    *)
(* once it is deleted; its image is a number of its own.  A frame is what    *)
(* the batcher published: whether it was built, and its batches.            *)
(***************************************************************************)
EXTENDS Integers, Sequences, FiniteSets, SequencesExt, FiniteSetsExt

CONSTANTS Renderers, Atlases,
          Frames,         \* [built, batches: seq of [atlas, blend, n]]
          Sizes,          \* the sizes of an atlas, in bytes
          MaxInstances, MaxDrawCalls,
          GpuTiming,      \* Options::gpuTiming
          MaxUploads, MaxSubmits   \* bounds

VARIABLES valid,          \* renderer -> created and not destroyed
          objects,        \* renderer -> its GL objects, textures apart
          registry,       \* renderer -> atlas -> [texture, sdf, bytes]
          memory,         \* renderer -> textureMemoryBytes
          seen,           \* renderer -> lastTexture, lastBlend and the sdf flag its program holds
          gpu,            \* renderer -> the state of its timer query: pending, poisoned
          frame, totals,  \* renderer -> statistics of the last submit, and of all
          bound, blend,   \* the context: the texture on unit 0, the blend function
          images,         \* the live textures: name -> image
          \* history
          uploads, submits,
          drew,           \* what the last submit drew its batches with and should have
          timed           \* renderer -> whether the pass its query measures, and the one last reported, was drawn
rendererVars == <<valid, objects, registry, memory, seen, gpu, frame, totals>>
contextVars == <<bound, blend, images>>
vars == <<rendererVars, contextVars, uploads, submits, drew, timed>>

NoAtlas == [texture |-> 0, sdf |-> FALSE, bytes |-> 0]
NoFrame == [draws |-> 0, binds |-> 0, blends |-> 0, over |-> FALSE, gpuTime |-> FALSE]
Unseen == [texture |-> 0, blend |-> "none", sdf |-> FALSE]

Init == /\ valid = [r \in Renderers |-> FALSE] /\ objects = [r \in Renderers |-> {}]
        /\ registry = [r \in Renderers |-> [a \in Atlases |-> NoAtlas]] /\ memory = [r \in Renderers |-> 0]
        /\ seen = [r \in Renderers |-> Unseen] /\ gpu = [r \in Renderers |-> [pending |-> FALSE, poisoned |-> FALSE]]
        /\ frame = [r \in Renderers |-> NoFrame] /\ totals = [r \in Renderers |-> 0]
        /\ bound = 0 /\ blend = "none" /\ images = <<>>
        /\ uploads = 0 /\ submits = 0 /\ drew = <<>>
        /\ timed = [r \in Renderers |-> [measures |-> TRUE, reported |-> TRUE]]

-----------------------------------------------------------------------------
(* create and destroy *)

\* The stages at which create may fail, and what may live when one does: of the shaders one at most
\* when they cannot be created.
Stages == <<"shader_create", "compile", "program_create", "program_link", "uniform_lookup",
            "quad_vbo", "instance_vbo", "vao", "vao_setup", "gpu_query">>
Alive(stage) ==
    LET at == CHOOSE i \in DOMAIN Stages : Stages[i] = stage
        shaders == CASE at = 1 -> SUBSET {"vertex", "fragment"} \ {{"vertex", "fragment"}}
                     [] at \in {2, 3} -> {{"vertex", "fragment"}}
                     [] OTHER -> {{}}   \* the link takes them over
    IN {s \cup (IF at >= 4 THEN {"program"} ELSE {}) \cup (IF at >= 7 THEN {"quadVbo"} ELSE {})
          \cup (IF at >= 8 THEN {"instanceVbo"} ELSE {}) \cup (IF at >= 9 THEN {"vao"} ELSE {}) : s \in shaders}

\* Faulty variant: the instance buffer is left to destroy(), which does not know it yet.
DeletedAtKeepingBuffers(stage) ==
    CASE stage \in {"shader_create", "compile", "program_create"} -> {"vertex", "fragment"}
      [] stage = "program_link" -> {"program"}
      [] stage = "instance_vbo" -> {"quadVbo"}
      [] stage = "vao" -> {"quadVbo"}
      [] stage \in {"vao_setup", "gpu_query"} -> {"quadVbo", "instanceVbo", "vao", "program"}
      [] OTHER -> {}
\* What the failure branch of the stage deletes itself.
DeletedAt(stage) ==
    CASE stage \in {"shader_create", "compile", "program_create"} -> {"vertex", "fragment"}
      [] stage = "program_link" -> {"program"}
      [] stage = "instance_vbo" -> {"quadVbo"}
      [] stage = "vao" -> {"quadVbo", "instanceVbo"}
      [] stage \in {"vao_setup", "gpu_query"} -> {"quadVbo", "instanceVbo", "vao", "program"}
      [] OTHER -> {}
\* What destroy() deletes: the members set so far, of which the program is the only one early.
Recorded(stage) == IF stage \in {"uniform_lookup", "quad_vbo", "instance_vbo", "vao", "vao_setup", "gpu_query"}
                   THEN {"program"} ELSE {}

Create(r) ==
    /\ ~valid[r] /\ objects[r] = {}
    /\ \/ /\ valid' = [valid EXCEPT ![r] = TRUE]
          /\ objects' = [objects EXCEPT ![r] = {"program", "quadVbo", "instanceVbo", "vao"}
                                               \cup (IF GpuTiming THEN {"gpuQuery"} ELSE {})]
       \/ \E stage \in ToSet(Stages) :
            /\ stage = "gpu_query" => GpuTiming
            /\ \E alive \in Alive(stage) : objects' = [objects EXCEPT ![r] = alive \ (DeletedAt(stage) \cup Recorded(stage))]
            /\ UNCHANGED valid
    /\ UNCHANGED <<registry, memory, seen, gpu, frame, totals, contextVars, uploads, submits, drew, timed>>

Without(names) == [t \in DOMAIN images \ names |-> images[t]]

\* destroy(): the textures of the registry and every object.
Destroy(r) ==
    /\ valid[r]
    /\ LET names == {registry[r][a].texture : a \in Atlases} \ {0}
       IN images' = Without(names) /\ bound' = IF bound \in names THEN 0 ELSE bound
    /\ valid' = [valid EXCEPT ![r] = FALSE] /\ objects' = [objects EXCEPT ![r] = {}]
    /\ registry' = [registry EXCEPT ![r] = [a \in Atlases |-> NoAtlas]] /\ memory' = [memory EXCEPT ![r] = 0]
    /\ seen' = [seen EXCEPT ![r] = Unseen] /\ gpu' = [gpu EXCEPT ![r] = [pending |-> FALSE, poisoned |-> FALSE]]
    /\ frame' = [frame EXCEPT ![r] = NoFrame] /\ totals' = [totals EXCEPT ![r] = 0]
    /\ UNCHANGED <<blend, uploads, submits, drew, timed>>

-----------------------------------------------------------------------------
(* Atlases *)

\* The driver hands out any name that is not in use.
FreshNames == (1..MaxUploads) \ DOMAIN images

ReplacedBy(old) == IF old.texture = 0 THEN {} ELSE {old.texture}

\* bindAtlas and bindSdfAtlas: the new texture is complete before the old one goes; it stays on
\* the unit.  A failed upload deletes it, and with it what was on the unit.
UploadAtlas(r, a, sdf, bytes) ==
    /\ valid[r] /\ uploads < MaxUploads
    /\ LET old == registry[r][a]
           gone == ReplacedBy(old)
       IN \E name \in FreshNames :
            \/ /\ registry' = [registry EXCEPT ![r][a] = [texture |-> name, sdf |-> sdf, bytes |-> bytes]]
               /\ memory' = [memory EXCEPT ![r] = @ - old.bytes + bytes]
               /\ images' = [t \in (DOMAIN images \ gone) \cup {name} |-> IF t = name THEN uploads + 1 ELSE images[t]]
               /\ bound' = name
            \/ bound' \in {0, bound} /\ UNCHANGED <<registry, memory, images>>
    /\ uploads' = uploads + 1
    /\ UNCHANGED <<valid, objects, seen, gpu, frame, totals, blend, submits, drew, timed>>

-----------------------------------------------------------------------------
(* submit *)

Instances(f) == FoldLeft(LAMBDA n, b : n + b.n, 0, f.batches)
Drawable(r, f) == /\ f.built /\ Instances(f) <= MaxInstances
                  /\ \A i \in DOMAIN f.batches : registry[r][f.batches[i].atlas].texture # 0

\* A refused submit zeroes the statistics and touches nothing else.
SubmitRefused(r, f) ==
    /\ valid[r] /\ submits < MaxSubmits /\ submits' = submits + 1
    /\ frame' = [frame EXCEPT ![r] = NoFrame]    \* also when the context cannot be made current
    /\ UNCHANGED <<valid, objects, registry, memory, seen, gpu, totals, contextVars, uploads, drew, timed>>

SubmitEmpty(r, f) ==
    /\ valid[r] /\ Drawable(r, f) /\ Instances(f) = 0 /\ submits < MaxSubmits /\ submits' = submits + 1
    /\ frame' = [frame EXCEPT ![r] = [NoFrame EXCEPT !.over = Len(f.batches) > MaxDrawCalls]]
    /\ totals' = [totals EXCEPT ![r] = @ + 1]
    /\ UNCHANGED <<valid, objects, registry, memory, seen, gpu, contextVars, uploads, drew, timed>>

\* The draws: a texture or a blend function that is the one remembered is not set again; the
\* program's sdf flag travels with the texture.
DrawBatches(r, f) ==
    LET Step(s, b) ==
          LET atlas == registry[r][b.atlas]
              binds == s.seen.texture # atlas.texture
              blends == s.seen.blend # b.blend
              on == IF binds THEN atlas.texture ELSE s.bound
              sdf == IF binds THEN atlas.sdf ELSE s.seen.sdf
          IN [bound |-> on, blend |-> IF blends THEN b.blend ELSE s.blend,
              seen |-> [texture |-> atlas.texture, blend |-> b.blend, sdf |-> sdf],
              frame |-> [s.frame EXCEPT !.draws = @ + 1, !.binds = @ + (IF binds THEN 1 ELSE 0),
                                        !.blends = @ + (IF blends THEN 1 ELSE 0)],
              drew |-> Append(s.drew, [asked |-> [texture |-> atlas.texture, sdf |-> atlas.sdf, blend |-> b.blend],
                                       used |-> [texture |-> on, sdf |-> sdf, blend |-> IF blends THEN b.blend ELSE s.blend]])]
    IN FoldLeft(Step, [bound |-> bound, blend |-> blend, seen |-> seen[r],
                       frame |-> [NoFrame EXCEPT !.over = Len(f.batches) > MaxDrawCalls], drew |-> <<>>], f.batches)

\* poisonGpuMeasurement: the measurement of a pass that failed will be thrown away.
Poisoned(drawn) == ~drawn

\* Polls the earlier measurement, and begins one of this pass when none is pending.
Measured(r, drawn, available) ==
    LET ready == gpu[r].pending /\ available
        measuring == ~gpu[r].pending \/ available
    IN [gpu |-> IF ~GpuTiming THEN gpu[r]
                ELSE IF measuring THEN [pending |-> TRUE, poisoned |-> Poisoned(drawn)] ELSE gpu[r],
        reports |-> GpuTiming /\ ready /\ ~gpu[r].poisoned,
        measures |-> IF GpuTiming /\ measuring THEN drawn ELSE timed[r].measures]

\* The pass is drawn: the statistics count, an earlier measurement may be reported.
Drawn(r, d, m) ==
    /\ bound' = d.bound /\ blend' = d.blend /\ seen' = [seen EXCEPT ![r] = d.seen] /\ drew' = d.drew
    /\ frame' = [frame EXCEPT ![r] = [d.frame EXCEPT !.gpuTime = m.reports]]
    /\ totals' = [totals EXCEPT ![r] = @ + 1]
    /\ gpu' = [gpu EXCEPT ![r] = m.gpu]
    /\ timed' = [timed EXCEPT ![r] = [measures |-> m.measures, reported |-> IF m.reports THEN @.measures ELSE TRUE]]

\* The upload or the query object fails, or an error is found after the draws.
Failed(r, d, m) ==
    /\ \/ bound' = d.bound /\ blend' = d.blend /\ seen' = [seen EXCEPT ![r] = d.seen]
       \/ UNCHANGED <<bound, blend, seen>>
    /\ frame' = [frame EXCEPT ![r] = NoFrame] /\ gpu' = [gpu EXCEPT ![r] = m.gpu]
    /\ timed' = [timed EXCEPT ![r] = [measures |-> m.measures, reported |-> TRUE]]
    /\ drew' = <<>> /\ UNCHANGED totals

Submit(r, f, available) ==
    /\ valid[r] /\ Drawable(r, f) /\ Instances(f) > 0 /\ submits < MaxSubmits /\ submits' = submits + 1
    /\ LET d == DrawBatches(r, f)
       IN Drawn(r, d, Measured(r, TRUE, available)) \/ Failed(r, d, Measured(r, FALSE, available))
    /\ UNCHANGED <<valid, objects, registry, memory, images, uploads>>

Next == \E r \in Renderers :
          \/ Create(r) \/ Destroy(r)
          \/ \E a \in Atlases, sdf \in BOOLEAN, bytes \in Sizes : UploadAtlas(r, a, sdf, bytes)
          \/ \E f \in Frames : SubmitRefused(r, f) \/ SubmitEmpty(r, f) \/ \E available \in BOOLEAN : Submit(r, f, available)
Spec == Init /\ [][Next]_vars

-----------------------------------------------------------------------------
(* Properties *)

\* Whatever stage of create fails and however often an atlas is bound again, every live GL object
\* belongs to a renderer that can still delete it, and the reported texture memory is that of the
\* live textures (sprite_renderer.h:413-417, 496-500).
NothingLeaks ==
    /\ \A r \in Renderers : ~valid[r] => objects[r] = {}
    /\ DOMAIN images = {registry[r][a].texture : r \in Renderers, a \in Atlases} \ {0}
    /\ \A r \in Renderers : memory[r] = FoldSet(LAMBDA a, n : n + registry[r][a].bytes, 0, Atlases)

\* A GPU time is only ever reported of a pass that was drawn, however late the measurement
\* completes and whatever failed in between (sprite_renderer.cpp:218-221).
GpuTimeIsOfADrawnPass == \A r \in Renderers : timed[r].reported

\* A claim the code does not keep.
\* Every batch is drawn with the texture, the mode and the blend function of its own atlas: "submit()
\* establishes ... each group's atlas on texture unit 0" (sprite_renderer.h:92-106).
DrawnWithItsAtlas == \A i \in DOMAIN drew : drew[i].used = drew[i].asked
=============================================================================
