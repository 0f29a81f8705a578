----------------------------- MODULE BudgetFile -----------------------------
(***************************************************************************)
(* budgets.json: the file is read whole, parsed and checked entry by entry  *)
(* (budget_harness.cpp).  Documents are JSON values as in Json.tla, with    *)
(* strings and numbers abstracted to what the checks ask of them: a string  *)
(* is [kind, value, form] with the strictest form it has, a number is       *)
(* [kind, value] with a negative or an infinite one as -1.                  *)
(***************************************************************************)
EXTENDS Integers, Sequences, SequencesExt

CONSTANTS BlockBytes, MaxDocumentBytes   \* fread's buffer; kBudgetsMaxDocumentBytes

Fields == {"name", "metric", "unit", "target", "measured", "workload"}
Metrics == {"mean", "min", "max", "p50", "p95", "p99"}
Malformed == [error |-> "MalformedInput"]
IoError == [error |-> "IoError"]
Failed(result) == "error" \in DOMAIN result

Member(obj, name) == obj.value[CHOOSE i \in DOMAIN obj.value : obj.value[i][1] = name][2]
Has(obj, name) == \E i \in DOMAIN obj.value : obj.value[i][1] = name
IsString(v) == v.kind = "string"
IsSnakeCase(v) == IsString(v) /\ v.form = "snake"
IsUnitIdentifier(v) == IsString(v) /\ v.form \in {"snake", "identifier"}
IsNonNegativeFinite(v) == v.kind = "number" /\ v.value >= 0

IsFree(name, existing) == \A i \in DOMAIN existing : existing[i].name # name

\* Exactly the six fields, each of its kind, under a name not yet taken.
ParseBudgetEntry(obj, existing) ==
    IF /\ obj.kind = "object" /\ Len(obj.value) = 6
       /\ \A i \in 1..6 : obj.value[i][1] \in Fields
       /\ \A f \in Fields : Has(obj, f)
       /\ IsSnakeCase(Member(obj, "name"))
       /\ IsFree(Member(obj, "name").value, existing)
       /\ IsString(Member(obj, "metric")) /\ Member(obj, "metric").value \in Metrics
       /\ IsUnitIdentifier(Member(obj, "unit"))
       /\ IsNonNegativeFinite(Member(obj, "target")) /\ IsNonNegativeFinite(Member(obj, "measured"))
       /\ IsString(Member(obj, "workload")) /\ Member(obj, "workload").form # "empty"
    THEN [f \in Fields |-> Member(obj, f).value]
    ELSE Malformed

\* The entries in their order; the first malformed one fails the table.
ParseEntries(elements) ==
    LET Step(acc, obj) ==
          IF ~acc.ok THEN acc
          ELSE LET entry == ParseBudgetEntry(obj, acc.entries)
               IN IF Failed(entry) THEN [acc EXCEPT !.ok = FALSE]
                  ELSE [acc EXCEPT !.entries = Append(@, entry)]
    IN FoldLeft(Step, [ok |-> TRUE, entries |-> <<>>], elements)

ParseBudgetsTable(root) ==
    IF /\ root.kind = "object"
       /\ \A i \in DOMAIN root.value : root.value[i][1] \in {"version", "description", "budgets"}
       /\ Has(root, "version") /\ Member(root, "version").kind = "number" /\ Member(root, "version").value = 1
       /\ Has(root, "description") => IsString(Member(root, "description"))
       /\ Has(root, "budgets") /\ Member(root, "budgets").kind = "array"
       /\ ParseEntries(Member(root, "budgets").value).ok
    THEN [entries |-> ParseEntries(Member(root, "budgets").value).entries]
    ELSE Malformed

\* The size is looked at after each full block only: a last, shorter block is
\* taken whatever it adds up to (and left to the parser's own limit).
ReadWholeFile(bytes, opens, errs) ==
    IF ~opens THEN IoError
    ELSE IF (bytes \div BlockBytes) * BlockBytes > MaxDocumentBytes THEN Malformed
    ELSE IF errs THEN IoError ELSE [bytes |-> bytes]

LoadBudgets(document, bytes, opens, errs) ==
    LET text == ReadWholeFile(bytes, opens, errs)
    IN IF Failed(text) THEN text
       ELSE IF bytes > MaxDocumentBytes \/ document.kind = "garbage" THEN Malformed
       ELSE ParseBudgetsTable(document)

FindEntry(table, name) == {i \in DOMAIN table.entries : table.entries[i].name = name}

=============================================================================
