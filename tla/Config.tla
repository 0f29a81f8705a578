------------------------------- MODULE Config -------------------------------
(***************************************************************************)
(* The typed game configuration (config.cpp): the version 1 schema, the     *)
(* merge of programmatic overrides, and the hot reloader that polls the     *)
(* file an editor rewrites.  Documents are JSON values as Json.tla has them,*)
(* with numbers as <<n, class>>: an integer, a fraction between n and n+1,  *)
(* or "inf" for what overflows a double.                                    *)
(***************************************************************************)
EXTENDS Integers, Sequences, SequencesExt

CONSTANTS
    Documents,     \* what the file may hold: JSON values, Garbage, Unreadable
    Overrides,     \* the overrides the program may apply: key -> value
    MaxRate, MinRate, MaxEntities, MaxSeed, MaxUint,  \* the numeric bounds
    Defaults,      \* the default of every key
    MaxEdits       \* bound: edits of the file, overrides, moves

Garbage == [kind |-> "garbage"]
Unreadable == [kind |-> "unreadable"]
Rejected == [kind |-> "rejected"]

SimKeys == {"tick_rate_hz", "entity_budget", "churn_per_frame_budget", "seed",
            "enabled", "math", "system_time_default_ms"}
PresentationKeys == {"draw_calls_per_frame", "particles_per_frame", "fov_degrees", "zoom",
                     "follow_lerp_per_sec", "asset_roots"}
Keys == SimKeys \cup PresentationKeys
Sections == {"determinism", "budgets", "camera"}
SectionOf(key) ==
    CASE key \in {"enabled", "math"} -> "determinism"
      [] key \in {"system_time_default_ms", "draw_calls_per_frame", "particles_per_frame"} -> "budgets"
      [] key \in {"fov_degrees", "zoom", "follow_lerp_per_sec"} -> "camera"
      [] OTHER -> "top"

-----------------------------------------------------------------------------
(* The schema *)

IntInRange(v, lo, hi) == v.kind = "number" /\ v.value[2] = "int" /\ v.value[1] \in lo..hi
Finite(v) == v.kind = "number" /\ v.value[2] # "inf"
NonNegative(v) == Finite(v) /\ v.value[1] >= 0
Positive(v) == NonNegative(v) /\ v.value # <<0, "int">>
UpTo180(v) == v.value[1] < 180 \/ v.value = <<180, "int">>

Valid(key, v) ==
    CASE key = "tick_rate_hz" -> IntInRange(v, MinRate, MaxRate)
      [] key = "entity_budget" -> IntInRange(v, 0, MaxEntities)
      [] key \in {"churn_per_frame_budget", "draw_calls_per_frame", "particles_per_frame"} ->
           IntInRange(v, 0, MaxUint)
      [] key = "seed" -> IntInRange(v, 0, MaxSeed)
      [] key = "enabled" -> v.kind = "bool"
      [] key = "math" -> v.kind = "string" /\ v.value \in {"fixed_point_16_16", "float_pinned_32"}
      [] key \in {"system_time_default_ms", "zoom"} -> Positive(v)
      [] key = "fov_degrees" -> Positive(v) /\ UpTo180(v)
      [] key = "follow_lerp_per_sec" -> NonNegative(v)
      [] key = "asset_roots" ->
           v.kind = "array" /\ \A i \in DOMAIN v.value : v.value[i].kind = "string" /\ v.value[i].value # ""

\* One member of a section, in document order: the first that is invalid
\* rejects the document, an unknown one is ignored.
WithMember(section, config, member) ==
    IF config = Rejected THEN Rejected
    ELSE IF member[1] \in Keys /\ SectionOf(member[1]) = section
         THEN IF Valid(member[1], member[2]) THEN [config EXCEPT ![member[1]] = member[2]] ELSE Rejected
         ELSE config

WithTopMember(config, member) ==
    IF config = Rejected THEN Rejected
    ELSE IF member[1] \in Sections
         THEN IF member[2].kind = "object"
              THEN FoldLeft(LAMBDA c, m : WithMember(member[1], c, m), config, member[2].value)
              ELSE Rejected
         ELSE WithMember("top", config, member)

\* The version comes first, wherever it is in the document.
ParseEngineConfig(doc) ==
    IF doc.kind # "object" THEN Rejected
    ELSE IF ~\E i \in DOMAIN doc.value : doc.value[i][1] = "version" /\ IntInRange(doc.value[i][2], 1, 1)
         THEN Rejected
         ELSE FoldLeft(WithTopMember, Defaults, doc.value)

LoadGameConfig(document) ==
    IF document \in {Unreadable, Garbage} THEN Rejected ELSE ParseEngineConfig(document)

\* The programmatic surface is typed, and its seed has all 64 bits.
OverrideValid(key, v) == key = "seed" \/ Valid(key, v)
ApplyConfigOverride(base, override) ==
    IF \A key \in DOMAIN override : OverrideValid(key, override[key])
    THEN [key \in Keys |-> IF key \in DOMAIN override THEN override[key] ELSE base[key]]
    ELSE Rejected

-----------------------------------------------------------------------------
(* The hot reloader *)

VARIABLES
    file,      \* what the file holds
    live,      \* the program's EngineConfig (Rejected before it is loaded)
    reloader,  \* the reloader: its baseline bytes and config, or NoReloader
    edits,     \* edits so far
    \* history
    replaced,  \* keys a programmatic override set
    missed,    \* the file the config was loaded from is not the first baseline
    outcome    \* what the last step was
configVars == <<file, live, reloader, edits, replaced, missed, outcome>>

NoReloader == [bytes |-> Unreadable, config |-> Rejected, movedFrom |-> FALSE]

ConfigInit ==
    /\ file \in Documents
    /\ live = Rejected /\ reloader = NoReloader
    /\ edits = 0 /\ replaced = {} /\ missed = FALSE /\ outcome = "none"

\* Outside the program: an editor rewrites the file, or it is away for a while.
Edit ==
    /\ edits < MaxEdits /\ edits' = edits + 1
    /\ file' \in Documents \ {file}
    /\ missed' = (missed \/ (live # Rejected /\ reloader = NoReloader))
    /\ outcome' = "edit"
    /\ UNCHANGED <<live, reloader, replaced>>

Load ==
    /\ live = Rejected
    /\ live' = LoadGameConfig(file)
    /\ outcome' = "load"
    /\ UNCHANGED <<file, reloader, edits, replaced, missed>>

Override ==
    /\ live # Rejected /\ edits < MaxEdits /\ edits' = edits + 1
    /\ \E override \in Overrides :
         LET merged == ApplyConfigOverride(live, override)
         IN IF merged = Rejected THEN UNCHANGED <<live, replaced>>
            ELSE live' = merged /\ replaced' = replaced \cup DOMAIN override
    /\ outcome' = "override"
    /\ UNCHANGED <<file, reloader, missed>>

CreateReloader ==
    /\ live # Rejected /\ reloader = NoReloader /\ LoadGameConfig(file) # Rejected
    /\ reloader' = [bytes |-> file, config |-> LoadGameConfig(file), movedFrom |-> FALSE]
    /\ outcome' = "create"
    /\ UNCHANGED <<file, live, edits, replaced, missed>>

\* What a reload writes into the live config: the presentation keys whose
\* value in the file is not the baseline's.
Changed(fresh) == {key \in PresentationKeys : fresh[key] # reloader.config[key]}
Applied(fresh) == [key \in Keys |-> IF key \in Changed(fresh) THEN fresh[key] ELSE live[key]]
Refused(fresh) == \E key \in SimKeys : fresh[key] # reloader.config[key]

PollFails(status, config) ==
    /\ outcome' = status /\ live' = config
    /\ UNCHANGED <<file, reloader, edits, replaced, missed>>
PollAccepts(fresh) ==
    /\ live' = Applied(fresh)
    /\ reloader' = [reloader EXCEPT !.bytes = file, !.config = fresh]
    /\ outcome' = "applied"
    /\ UNCHANGED <<file, edits, replaced, missed>>

PollGuard == live # Rejected /\ reloader # NoReloader
\* Faulty variant: the presentation keys applied before the others are compared.
PollEagerly ==
    /\ PollGuard
    /\ LET fresh == LoadGameConfig(file)
       IN IF reloader.movedFrom \/ file = reloader.bytes \/ fresh = Rejected
          THEN PollFails("same", live)
          ELSE IF Refused(fresh) THEN PollFails("failed", Applied(fresh)) ELSE PollAccepts(fresh)
Poll ==
    /\ PollGuard
    /\ LET fresh == LoadGameConfig(file)
       IN IF reloader.movedFrom \/ file = Unreadable THEN PollFails("failed", live)
          ELSE IF file = reloader.bytes THEN PollFails("same", live)
          ELSE IF fresh = Rejected \/ Refused(fresh) THEN PollFails("failed", live)
          ELSE PollAccepts(fresh)

\* A moved-from reloader only fails; its bytes and config went with the move.
MoveAway ==
    /\ reloader # NoReloader /\ ~reloader.movedFrom /\ edits < MaxEdits /\ edits' = edits + 1
    /\ reloader' = [reloader EXCEPT !.movedFrom = TRUE]
    /\ outcome' = "move"
    /\ UNCHANGED <<file, live, replaced, missed>>

ConfigNext == Edit \/ Load \/ Override \/ CreateReloader \/ Poll \/ MoveAway

ConfigSpec == ConfigInit /\ [][ConfigNext]_configVars

-----------------------------------------------------------------------------
(* Properties *)

Bound == reloader # NoReloader /\ ~reloader.movedFrom /\ ~missed

\* The live configuration is what the file held when it was last accepted,
\* key by key, except where the program overrode it: a refused, torn or
\* unreadable file leaves nothing behind, whatever was edited in between, and no
\* later poll takes a key that a refused one should have brought for known
\* (config.cpp, ConfigHotReloader::poll).
LiveFollowsAcceptedFile ==
    Bound => \A key \in Keys \ replaced : live[key] = reloader.config[key]

\* A claim the code does not keep.
\* config.h:140-143, "the file becomes authoritative for them - a programmatic
\* override of those fields is replaced": after an accepted change the
\* presentation keys are the file's.
FileIsAuthoritative ==
    (outcome = "applied" /\ Bound) =>
        \A key \in PresentationKeys : live[key] = reloader.config[key]

=============================================================================
