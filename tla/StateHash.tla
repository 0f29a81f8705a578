----------------------------- MODULE StateHash -----------------------------
(***************************************************************************)
(* The state hash of a world and the bounded difference of two worlds       *)
(* (laige-sim/state_hash.cpp, World::stateDiff in entity.h).                *)
(*                                                                          *)
(* A world's state gives every slot <<>> when dead, otherwise its entity's  *)
(* generation and the values of its components; and rng, the position of    *)
(* the systems' PRNG substreams.  FNV-1a is taken to be injective, so a     *)
(* hash is the stream of words that is hashed.                              *)
(***************************************************************************)
EXTENDS Integers, Sequences, FiniteSetsExt, SequencesExt

LiveSlots(w) == {s \in DOMAIN w.slots : w.slots[s] # <<>>}
ComponentsOf(w, s) == DOMAIN w.slots[s].values   \* the sorted signature, as a set
Ascending(S) == SetToSortSeq(S, <)

\* compareSig: lexicographic, a proper prefix first.
CompareSig(a, b) ==
    LET differ == {i \in 1..Min({Len(a), Len(b)}) : a[i] # b[i]}
    IN IF differ = {} THEN Len(a) < Len(b) ELSE a[Min(differ)] < b[Min(differ)]

Signatures(w) ==
    SetToSortSeq({Ascending(ComponentsOf(w, s)) : s \in LiveSlots(w)} \ {<<>>}, CompareSig)

\* The rows of a signature, by slot, each the bytes of its columns.  The slot a
\* row belongs to is not written.
RowsOf(w, sig) ==
    LET rows == Ascending({s \in LiveSlots(w) : Ascending(ComponentsOf(w, s)) = sig})
    IN [r \in DOMAIN rows |-> [c \in DOMAIN sig |-> w.slots[rows[r]].values[sig[c]]]]

\* Faulty variant: the rows of one signature only.
FeedFirstSignature(w, tick) ==
    LET live == Ascending(LiveSlots(w))
        sigs == SubSeq(Signatures(w), 1, 1)
    IN <<tick, [i \in DOMAIN live |-> <<live[i], w.slots[live[i]].generation>>],
         [i \in DOMAIN sigs |-> <<sigs[i], RowsOf(w, sigs[i])>>]>>

\* feedStateSteps1to4
FeedStateSteps1to4(w, tick) ==
    LET live == Ascending(LiveSlots(w))
        sigs == Signatures(w)
    IN <<tick, [i \in DOMAIN live |-> <<live[i], w.slots[live[i]].generation>>],
         [i \in DOMAIN sigs |-> <<sigs[i], RowsOf(w, sigs[i])>>]>>

ComponentStateHash(w, tick) == FeedStateSteps1to4(w, tick)
Hash(w, tick) == <<FeedStateSteps1to4(w, tick), w.rng>>   \* stateHash

\* stateDiff: an item per entity that one world has, and per component of a shared
\* entity that one world has or whose bytes differ, by slot, then by component.
StateDiff(a, b) ==
    LET Items(s) ==
          IF (s \in LiveSlots(a)) # (s \in LiveSlots(b)) THEN <<<<s, 0>>>>
          ELSE IF s \notin LiveSlots(a) THEN <<>>
          ELSE LET shared == ComponentsOf(a, s) \cap ComponentsOf(b, s)
                   all == ComponentsOf(a, s) \cup ComponentsOf(b, s)
                   differ == {c \in all : c \in shared => a.slots[s].values[c] # b.slots[s].values[c]}
               IN [i \in 1..Cardinality(differ) |-> <<s, Ascending(differ)[i]>>]
        slots == Ascending(DOMAIN a.slots)
    IN FlattenSeq([i \in DOMAIN slots |-> Items(slots[i])])

\* What the two worlds hold, whatever the stream says.
SameState(a, b) == a.slots = b.slots
=============================================================================
