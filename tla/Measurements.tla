---------------------------- MODULE Measurements ----------------------------
(***************************************************************************)
(* The measurement helpers of budget_harness.h: Histogram, a ring of the   *)
(* last samples with order statistics, and the check of a measured window  *)
(* against an entry of budgets.json.  Samples are natural numbers here.     *)
(***************************************************************************)
EXTENDS Integers, Sequences, SequencesExt

NewHistogram(capacity) ==
    [capacity |-> capacity, window |-> [i \in 0..(capacity - 1) |-> 0],
     cursor |-> 0, count |-> 0, total |-> 0]

\* Beyond the capacity the oldest sample is overwritten; the total is not
\* truncated.  A histogram without capacity only counts.
Record(h, value) ==
    IF h.capacity = 0 THEN [h EXCEPT !.total = @ + 1]
    ELSE [h EXCEPT !.total = @ + 1,
                   !.window[h.cursor] = value,
                   !.cursor = (@ + 1) % h.capacity,
                   !.count = IF @ < h.capacity THEN @ + 1 ELSE @]

\* The stored samples, oldest first: a full ring starts at the cursor.
Stored(h) ==
    IF h.count = h.capacity
    THEN [k \in 1..h.count |-> h.window[(h.cursor + k - 1) % h.capacity]]
    ELSE [k \in 1..h.count |-> h.window[k - 1]]

\* Nearest rank (rounded up), never below the first.
Percentile(sorted, p) ==
    LET rank == (p * Len(sorted) + 99) \div 100
    IN sorted[IF rank < 1 THEN 1 ELSE rank]

\* std::sort of the samples: the k-th smallest has fewer than k below it.
Sorted(samples) ==
    LET below(v) == {i \in DOMAIN samples : samples[i] < v}
        upTo(v) == {i \in DOMAIN samples : samples[i] <= v}
    IN [k \in 1..Len(samples) |->
          CHOOSE v \in Range(samples) : Cardinality(below(v)) < k /\ k <= Cardinality(upTo(v))]

\* No samples, no statistics.  The mean is kept as the sum it is computed from.
Stats(h) ==
    LET s == Sorted(Stored(h))
        n == Len(s)
    IN IF n = 0 THEN [n |-> 0]
       ELSE [n |-> n, min |-> s[1], max |-> s[n], sum |-> FoldSeq(+, 0, s),
             p50 |-> Percentile(s, 50), p95 |-> Percentile(s, 95), p99 |-> Percentile(s, 99)]

\* The metric of an entry as a pair <<value, divisor>>.
Metric(metric, stats) ==
    IF metric = "mean" THEN <<stats.sum, stats.n>> ELSE <<stats[metric], 1>>

\* A target of zero asks for exactly zero; a window without samples fails.
BudgetCheck(entry, h) ==
    LET stats == Stats(h)
        m == Metric(entry.metric, stats)
    IN IF stats.n = 0 THEN "NO_SAMPLES"
       ELSE IF IF entry.target > 0 THEN m[1] <= entry.target * m[2] ELSE m[1] = 0
            THEN "PASS" ELSE "FAIL"

=============================================================================
