----------------------------- MODULE MCDocuments -----------------------------
(***************************************************************************)
(* The text formats the engine reads, checked input by input: JSON texts    *)
(* over small alphabets, JSON values written and read back, and             *)
(* budgets.json documents with at most one defect.                          *)
(***************************************************************************)
EXTENDS Integers, FiniteSets, Sequences, SequencesExt, FiniteSetsExt

CONSTANTS MaxText   \* bound: bytes of the enumerated texts

VARIABLES case,   \* what is tried: a text, a value, or a budgets document
          result  \* what the code makes of it

J == INSTANCE Json WITH MaxDepth <- 2, MaxDocumentBytes <- 1000
B == INSTANCE BudgetFile WITH BlockBytes <- 8, MaxDocumentBytes <- 16

-----------------------------------------------------------------------------
(* JSON: the grammar of json.h, as a recogniser by splitting *)

Quote == 34   One == 49
StructureBytes == {J!LBRACE, J!RBRACE, Quote, J!COLON, One}
ListBytes == {J!LBRACK, J!RBRACK, J!COMMA, One, 32, Quote}
NumberBytes == {J!MINUS, J!ZERO, One, J!DOT, 101}

Texts == UNION {BoundedSeq(alphabet, MaxText) : alphabet \in {StructureBytes, ListBytes, NumberBytes}}

Before(t, k) == SubSeq(t, 1, k - 1)
Behind(t, k) == SubSeq(t, k + 1, Len(t))
RECURSIVE Trimmed(_)
Trimmed(t) ==
    IF t # <<>> /\ t[1] \in J!Space THEN Trimmed(Tail(t))
    ELSE IF t # <<>> /\ t[Len(t)] \in J!Space THEN Trimmed(Before(t, Len(t))) ELSE t

IsDigits(t) == t # <<>> /\ \A i \in DOMAIN t : t[i] \in J!Digit
IsInt(t) == IsDigits(t) /\ (Len(t) > 1 => t[1] # J!ZERO)
IsUnsigned(t) ==
    LET Mantissa(m) == IsInt(m) \/ \E k \in DOMAIN m : m[k] = J!DOT /\ IsInt(Before(m, k)) /\ IsDigits(Behind(m, k))
        Signless(e) == IF e # <<>> /\ e[1] \in {J!PLUS, J!MINUS} THEN Tail(e) ELSE e
    IN Mantissa(t) \/ \E k \in DOMAIN t : t[k] \in J!E /\ Mantissa(Before(t, k)) /\ IsDigits(Signless(Behind(t, k)))
IsNumber(t) == IsUnsigned(t) \/ (t # <<>> /\ t[1] = J!MINUS /\ IsUnsigned(Tail(t)))
IsString(t) == /\ Len(t) >= 2 /\ t[1] = Quote /\ t[Len(t)] = Quote
               /\ \A i \in 2..(Len(t) - 1) : t[i] # Quote

\* A value of at most depth levels; lists are split at a comma.
RECURSIVE IsValue(_, _), IsList(_, _, _)
IsMember(t, depth) ==
    \E k \in DOMAIN t : t[k] = J!COLON /\ IsString(Trimmed(Before(t, k))) /\ IsValue(Trimmed(Behind(t, k)), depth)
IsElement(kind, t, depth) == IF kind = "array" THEN IsValue(Trimmed(t), depth) ELSE IsMember(Trimmed(t), depth)
IsList(kind, t, depth) ==
    \/ IsElement(kind, t, depth)
    \/ \E k \in DOMAIN t : t[k] = J!COMMA /\ IsElement(kind, Before(t, k), depth) /\ IsList(kind, Behind(t, k), depth)
IsBracketed(kind, t, open, close, depth) ==
    /\ depth > 0 /\ Len(t) >= 2 /\ t[1] = open /\ t[Len(t)] = close
    /\ LET inner == SubSeq(t, 2, Len(t) - 1)
       IN Trimmed(inner) = <<>> \/ IsList(kind, inner, depth - 1)
IsValue(t, depth) ==
    \/ IsNumber(t) \/ IsString(t)
    \/ IsBracketed("array", t, J!LBRACK, J!RBRACK, depth)
    \/ IsBracketed("object", t, J!LBRACE, J!RBRACE, depth)

\* Values to write: scalars at the borders of the code point ranges, and
\* containers of them.
CodePoints == {8, 31, 32, 34, 47, 92, 127, 128, 2047, 2048, 55295, 57344, 65535, 65536, 66559, 66560, 1114111}
Scalars == {J!Null, J!Bool(TRUE), J!Bool(FALSE), J!Number(<<J!MINUS, One>>)}
           \cup {J!String(<<c, d>>) : c, d \in CodePoints}
Some == {J!Null, J!Bool(TRUE), J!String(<<65536, 34>>), J!Array(<<J!Number(<<One>>)>>), J!Object(<<>>)}
Values == Scalars \cup {J!Array(<<v, w>>) : v, w \in Some}
                  \cup {J!Object(<<<<<<97>>, v>>, <<<<128, 92>>, w>>>>) : v, w \in Some \ {J!Array(<<J!Number(<<One>>)>>)}}
Encodings == {J!AppendUtf8(c) : c \in CodePoints}

-----------------------------------------------------------------------------
(* budgets.json: a good document and what one slip makes of it *)

Str(text, form) == [kind |-> "string", value |-> text, form |-> form]
Num(n) == [kind |-> "number", value |-> n]
Good(name) ==
    <<<<"name", Str(name, "snake")>>, <<"metric", Str("p99", "snake")>>, <<"unit", Str("ms", "identifier")>>,
      <<"target", Num(2)>>, <<"measured", Num(0)>>, <<"workload", Str("headless", "text")>>>>
Wrong == [name |-> Str("A b", "text"), metric |-> Str("p42", "snake"), unit |-> Str("m/s", "text"),
          target |-> Num(-1), measured |-> Str("0", "snake"), workload |-> Str("", "empty")]
Obj(members) == [kind |-> "object", value |-> members]
Table(members) == Obj(<<<<"version", Num(1)>>, <<"budgets", [kind |-> "array", value |-> members]>>>>)

Slips(members) ==
    {RemoveAt(members, i) : i \in 1..6}
    \cup {Append(members, <<"note", Str("x", "text")>>)}
    \cup {ReplaceAt(members, i, <<"note", Str("x", "text")>>) : i \in 1..6}
    \cup {ReplaceAt(members, i, <<members[i][1], Wrong[members[i][1]]>>) : i \in 1..6}
GoodTables == {Table(<<Obj(Good("a")), Obj(Good("b"))>>), Table(<<>>),
               Obj(<<<<"description", Str("", "empty")>>>> \o Table(<<Obj(Good("a"))>>).value)}
BadTables == {Table(<<Obj(Good("a")), Obj(Good("b")), Obj(Good("a"))>>), Obj(<<>>), Num(1),
              Obj(<<<<"version", Num(2)>>, <<"budgets", [kind |-> "array", value |-> <<>>]>>>>),
              Obj(Append(Table(<<>>).value, <<"extra", Num(1)>>))}
             \cup {Table(<<Obj(m)>>) : m \in Slips(Good("a"))}
             \cup {Table(<<Obj(Good("a")), Obj(m)>>) : m \in Slips(Good("b"))}

-----------------------------------------------------------------------------
Cases == {<<"text", t>> : t \in Texts} \cup {<<"value", v>> : v \in Values} \cup {<<"utf8", b>> : b \in Encodings}
         \cup {<<"good", d>> : d \in GoodTables} \cup {<<"bad", d>> : d \in BadTables}

Init == case \in Cases /\ result = <<>>

TryText == case[1] = "text" /\ result' = J!ParseJson(case[2])
TryValue == case[1] = "value" /\ result' = J!ParseJson(J!SerializeJson(case[2]))
TryUtf8 == case[1] = "utf8" /\ result' = J!DecodeUtf8(case[2], 1)
TryTable ==
    /\ case[1] \in {"good", "bad"}
    /\ \E bytes \in {10, 16, 20, 30}, opens, errs \in BOOLEAN :
         result' = B!LoadBudgets(case[2], bytes, opens, errs)

Next == result = <<>> /\ UNCHANGED case /\ (TryText \/ TryValue \/ TryUtf8 \/ TryTable)

Spec == Init /\ [][Next]_<<case, result>>

-----------------------------------------------------------------------------
(* Properties *)

Tried(kind) == case[1] = kind /\ result # <<>>

\* Every text of the grammar json.h documents is accepted (json.cpp, parseJson);
\* and nothing else is, as far as arrays, strings and numbers go.
ParserTakesTheGrammar ==
    Tried("text") => /\ IsValue(Trimmed(case[2]), 2) => J!Ok(result)
                     /\ (J!Ok(result) /\ J!LBRACE \notin ToSet(case[2])) => IsValue(Trimmed(case[2]), 2)

\* A claim the code does not keep.
\* json.h:18, "member = string ':' value": only texts of the grammar are accepted.
OnlyTheGrammar ==
    Tried("text") => (J!Ok(result) => IsValue(Trimmed(case[2]), 2))

\* What is written reads back as the same value, whatever its strings hold; a
\* code point's encoding decodes to it (json.h: parse(serialize(v)) == v).
RoundTrip ==
    /\ Tried("value") => J!Ok(result) /\ J!Equal(result.value, case[2])
    /\ Tried("utf8") => J!Ok(result) /\ J!AppendUtf8(result.value) = case[2]

\* A budgets file with one slip anywhere fails as a whole; a good one is taken in
\* its order, each name leading to one entry (budget_harness.cpp, loadBudgets).
TableIsAllOrNothing ==
    /\ Tried("bad") => B!Failed(result)
    /\ Tried("good") =>
         \/ B!Failed(result)
         \/ \A i \in DOMAIN result.entries : B!FindEntry(result, result.entries[i].name) = {i}

=============================================================================
