--------------------------- MODULE SpriteBatcher ---------------------------
(***************************************************************************)
(* The sprite batcher (laige/render/sprite_batcher.h) and the radix sort     *)
(* under it (laige/render/depth_sort.h): a frame of declared sprites, the    *)
(* oldest of which give way when the budget is spent, becomes one batch per  *)
(* atlas, material and blend, each drawn back to front.                      *)
(*                                                                          *)
(* The sort's digit has Base values and a key Passes digits; 256 and 4 in    *)
(* the code.                                                                 *)
(***************************************************************************)
EXTENDS Integers, Sequences, FiniteSets, SequencesExt

CONSTANTS Capacity,     \* Options::maxSprites
          Base, Passes,
          Items,        \* what a game declares: key, group (<<atlas, material, blend>>), override, look
          MaxFrames, MaxDeclared   \* bounds

VARIABLES ring,         \* slot -> item, the slots of this frame
          head, count, open, built,
          batches,      \* the published batches: group and the slots, in drawing order
          overrides, dropped,
          \* history
          declared,     \* the items of this frame in order of declaration
          frames
vars == <<ring, head, count, open, built, batches, overrides, dropped, declared, frames>>

Init == /\ ring = <<>> /\ head = 0 /\ count = 0 /\ open = TRUE /\ built = FALSE /\ batches = <<>>
        /\ overrides = 0 /\ dropped = 0 /\ declared = <<>> /\ frames = 1

\* Faulty variant: the slots are taken in order of storage.
SlotAtUnturned(i) == i
\* The slot of the i-th live declaration, the oldest first.
SlotAt(i) == (head + i) % Capacity
Item(slot) == ring[slot + 1]

BeginFrame ==
    /\ frames < MaxFrames /\ frames' = frames + 1
    /\ ring' = <<>> /\ head' = 0 /\ count' = 0 /\ batches' = <<>> /\ overrides' = 0
    /\ open' = TRUE /\ built' = FALSE /\ declared' = <<>>
    /\ UNCHANGED dropped

\* A declaration beyond the budget takes the slot of the oldest one.
Add(item) ==
    /\ open /\ Len(declared) < MaxDeclared
    /\ overrides' = IF item.override THEN overrides + 1 ELSE overrides
    /\ IF count < Capacity
       THEN ring' = Append(ring, item) /\ count' = count + 1 /\ UNCHANGED <<head, dropped>>
       ELSE /\ ring' = [ring EXCEPT ![head + 1] = item] /\ head' = (head + 1) % Capacity
            /\ dropped' = dropped + 1 /\ UNCHANGED count
    /\ declared' = Append(declared, item)
    /\ UNCHANGED <<open, built, batches, frames>>

Digit(key, pass) == (key \div (Base ^ pass)) % Base

\* One pass of the counting sort: by one digit, equal ones in the order they came.
RunPass(recs, pass) == FlattenSeq([b \in 1..Base |-> SelectSeq(recs, LAMBDA r : Digit(r.key, pass) = b - 1)])

\* The positions of the keys in ascending order.
SortedIndices(keys) ==
    LET records == [i \in DOMAIN keys |-> [key |-> keys[i], idx |-> i - 1]]
        sorted == FoldLeft(RunPass, records, [p \in 1..Passes |-> p - 1])
    IN [i \in DOMAIN sorted |-> sorted[i].idx]

GroupLess(g, h) == \E f \in 1..3 : g[f] < h[f] /\ \A e \in 1..f - 1 : g[e] = h[e]

\* Binary search for the first group that is not less.
LowerBound(groups, g) ==
    LET Search[lo \in 0..Len(groups), hi \in 0..Len(groups)] ==
          IF lo >= hi THEN lo
          ELSE LET mid == lo + (hi - lo) \div 2
               IN IF GroupLess(groups[mid + 1].group, g) THEN Search[mid + 1, hi] ELSE Search[lo, mid]
    IN Search[0, Len(groups)]

\* Counts the instance in its group, inserting the group in order when it is new.
FindOrInsertGroup(groups, g) ==
    LET at == LowerBound(groups, g)
        known == IF at < Len(groups) THEN groups[at + 1].group = g ELSE FALSE
        table == IF known THEN groups ELSE InsertAt(groups, at + 1, [group |-> g, size |-> 0])
    IN [table EXCEPT ![at + 1].size = @ + 1]

Build ==
    /\ open
    /\ LET live == [i \in 1..count |-> Item(SlotAt(i - 1))]
           sorted == SortedIndices([i \in 1..count |-> live[i].key])
           groups == FoldLeft(LAMBDA t, pos : FindOrInsertGroup(t, live[pos + 1].group), <<>>, sorted)
           Start(g) == FoldLeft(LAMBDA n, h : n + groups[h].size, 0, [h \in 1..g - 1 |-> h])
           order == FlattenSeq([g \in DOMAIN groups |->
                      SelectSeq([i \in DOMAIN sorted |-> SlotAt(sorted[i])], LAMBDA s : Item(s).group = groups[g].group)])
       IN batches' = [g \in DOMAIN groups |->
                        [group |-> groups[g].group, instances |-> SubSeq(order, Start(g) + 1, Start(g) + groups[g].size)]]
    /\ open' = FALSE /\ built' = TRUE
    /\ UNCHANGED <<ring, head, count, overrides, dropped, declared, frames>>

Next == BeginFrame \/ (\E item \in Items : Add(item)) \/ Build
Spec == Init /\ [][Next]_vars

-----------------------------------------------------------------------------
(* Properties *)

\* What is drawn is the end of what was declared, as much of it as the budget holds: every
\* declaration in the batch of its group, the groups ascending, the nearer ones of a batch after
\* the farther ones and equal ones in the order of declaration (sprite_batcher.h:66-83).
BatchesAreTheFrame ==
    built =>
      LET kept == SubSeq(declared, IF Len(declared) > Capacity THEN Len(declared) - Capacity + 1 ELSE 1, Len(declared))
          Before(i, j) == kept[i].key < kept[j].key \/ (kept[i].key = kept[j].key /\ i < j)
          Drawn(b) == [k \in DOMAIN batches[b].instances |-> Item(batches[b].instances[k])]
          Wanted(g) == LET of == {i \in DOMAIN kept : kept[i].group = g}
                       IN [k \in 1..Cardinality(of) |->
                             kept[CHOOSE i \in of : Cardinality({j \in of : Before(j, i)}) = k - 1]]
      IN /\ {batches[b].group : b \in DOMAIN batches} = {kept[i].group : i \in DOMAIN kept}
         /\ \A b \in DOMAIN batches : /\ Drawn(b) = Wanted(batches[b].group)
                                      /\ b > 1 => GroupLess(batches[b - 1].group, batches[b].group)
=============================================================================
