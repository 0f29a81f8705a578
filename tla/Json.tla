-------------------------------- MODULE Json --------------------------------
(***************************************************************************)
(* The JSON reader and writer of json.cpp over byte sequences (a byte is a *)
(* number).  A value is a record with its kind; a string is a sequence of   *)
(* code points; an object a sequence of <<key, value>> pairs in document    *)
(* order.  A number is represented by its token: the C library converts.    *)
(*                                                                          *)
(* The parser is recursive as in the code, a result is [at, value] with the *)
(* position after what was read, or Fail.                                   *)
(***************************************************************************)
EXTENDS Integers, Sequences, SequencesExt

CONSTANTS MaxDepth,        \* JsonOptions::maxDepth
          MaxDocumentBytes \* JsonOptions::maxDocumentBytes

Fail == [at |-> 0]
Ok(result) == result.at # 0
Done(at, value) == [at |-> at, value |-> value]

\* The bytes of the grammar.
QUOTE == 34   PLUS == 43   COMMA == 44   MINUS == 45   DOT == 46   SLASH == 47
COLON == 58   BACKSLASH == 92   LBRACK == 91   RBRACK == 93   LBRACE == 123   RBRACE == 125
ZERO == 48    U == 117    E == {101, 69}
Digit == 48..57
Space == {32, 9, 10, 13}
Literals == {<<"true", <<116, 114, 117, 101>>>>, <<"false", <<102, 97, 108, 115, 101>>>>,
             <<"null", <<110, 117, 108, 108>>>>}
\* Short escapes: the letter after the backslash and the code it stands for.
Short == {<<34, 34>>, <<92, 92>>, <<47, 47>>, <<98, 8>>, <<102, 12>>, <<110, 10>>, <<114, 13>>, <<116, 9>>}

Null == [kind |-> "null"]
Bool(b) == [kind |-> "bool", value |-> b]
Number(token) == [kind |-> "number", value |-> token]
String(text) == [kind |-> "string", value |-> text]
Array(elements) == [kind |-> "array", value |-> elements]
Object(members) == [kind |-> "object", value |-> members]

Byte(s, i) == IF i <= Len(s) THEN s[i] ELSE -1
Slice(s, i, n) == IF i + n - 1 <= Len(s) THEN SubSeq(s, i, i + n - 1) ELSE <<>>

-----------------------------------------------------------------------------
(* UTF-8 *)

Surrogates == 55296..57343     \* D800..DFFF
Continues(s, i, n) == \A k \in i..(i + n - 1) : Byte(s, k) \in 128..191

\* The sequence length the lead byte announces; C0, C1 and above F4 never lead.
Announced(b) ==
    IF b \in 0..127 THEN 1 ELSE IF b \in 194..223 THEN 2
    ELSE IF b \in 224..239 THEN 3 ELSE IF b \in 240..244 THEN 4 ELSE 0

Composed(s, i, n) ==
    LET lead == IF n = 1 THEN s[i] ELSE s[i] % (2 ^ (7 - n))
    IN FoldLeft(LAMBDA cp, k : cp * 64 + (s[i + k] % 64), lead, [k \in 1..(n - 1) |-> k])

\* One code point: no overlong form, no surrogate.  (An F4 lead followed by a
\* byte above 8F gives a code point above 10FFFF; the code has no check of that.)
DecodeUtf8(s, i) ==
    LET n == Announced(Byte(s, i))
        cp == Composed(s, i, n)
    IN IF /\ n > 0 /\ Continues(s, i + 1, n - 1)
          /\ n = 3 => cp >= 2048 /\ cp \notin Surrogates
          /\ n = 4 => cp >= 65536
       THEN Done(i + n, cp) ELSE Fail

Trail(cp, shift) == 128 + ((cp \div shift) % 64)
AppendUtf8(cp) ==
    IF cp < 128 THEN <<cp>>
    ELSE IF cp < 2048 THEN <<192 + (cp \div 64), Trail(cp, 1)>>
    ELSE IF cp < 65536 THEN <<224 + (cp \div 4096), Trail(cp, 64), Trail(cp, 1)>>
    ELSE <<240 + (cp \div 262144), Trail(cp, 4096), Trail(cp, 64), Trail(cp, 1)>>

-----------------------------------------------------------------------------
(* Parsing *)

RECURSIVE SkipWhitespace(_, _), SkipDigits(_, _)
SkipWhitespace(s, i) == IF Byte(s, i) \in Space THEN SkipWhitespace(s, i + 1) ELSE i
SkipDigits(s, i) == IF Byte(s, i) \in Digit THEN SkipDigits(s, i + 1) ELSE i

ParseLiteral(s, i) ==
    LET matching == {l \in Literals : Slice(s, i, Len(l[2])) = l[2]}
    IN IF matching = {} THEN Fail
       ELSE LET l == CHOOSE l \in matching : TRUE
            IN Done(i + Len(l[2]), IF l[1] = "null" THEN Null ELSE Bool(l[1] = "true"))

\* minus? (0 | [1-9][0-9]*) (. [0-9]+)? ([eE] [+-]? [0-9]+)?
ParseNumber(s, i) ==
    LET int == IF s[i] = MINUS THEN i + 1 ELSE i
        afterInt == IF Byte(s, int) = ZERO THEN int + 1 ELSE SkipDigits(s, int)
        intOk == Byte(s, int) \in Digit /\ (Byte(s, int) = ZERO => Byte(s, int + 1) \notin Digit)
        fraction == Byte(s, afterInt) = DOT
        afterFraction == IF fraction THEN SkipDigits(s, afterInt + 1) ELSE afterInt
        exponent == Byte(s, afterFraction) \in E
        power == IF Byte(s, afterFraction + 1) \in {PLUS, MINUS} THEN afterFraction + 2 ELSE afterFraction + 1
        end == IF exponent THEN SkipDigits(s, power) ELSE afterFraction
    IN IF /\ intOk
          /\ fraction => Byte(s, afterInt + 1) \in Digit
          /\ exponent => Byte(s, power) \in Digit
       THEN Done(end, Number(SubSeq(s, i, end - 1))) ELSE Fail

HexValue(b) ==
    IF b \in Digit THEN b - 48 ELSE IF b \in 97..102 THEN b - 87 ELSE IF b \in 65..70 THEN b - 55 ELSE -1

ParseHex4(s, i) ==
    IF \A k \in i..(i + 3) : HexValue(Byte(s, k)) >= 0
    THEN Done(i + 4, FoldLeft(LAMBDA v, b : v * 16 + HexValue(b), 0, SubSeq(s, i, i + 3)))
    ELSE Fail

\* After \u: a high surrogate needs a low one after it, a low one alone fails.
Joined(high, lo) ==
    IF Ok(lo) /\ lo.value \in 56320..57343
    THEN Done(lo.at, 65536 + (high - 55296) * 1024 + (lo.value - 56320)) ELSE Fail
HexRead(s, hi) ==
    IF ~Ok(hi) \/ hi.value \in 56320..57343 THEN Fail
    ELSE IF hi.value \in 55296..56319
         THEN Joined(hi.value, IF Slice(s, hi.at, 2) = <<BACKSLASH, U>> THEN ParseHex4(s, hi.at + 2) ELSE Fail)
         ELSE hi
ParseUnicodeEscape(s, i) == HexRead(s, ParseHex4(s, i))

\* One character of a string, escaped or not; a raw control character fails.
ParseCharacter(s, i) ==
    IF Byte(s, i) = BACKSLASH
    THEN IF Byte(s, i + 1) = U THEN ParseUnicodeEscape(s, i + 2)
         ELSE LET codes == {p[2] : p \in {p \in Short : p[1] = Byte(s, i + 1)}}
              IN IF codes = {} THEN Fail ELSE Done(i + 2, CHOOSE c \in codes : TRUE)
    ELSE LET c == DecodeUtf8(s, i) IN IF Ok(c) /\ c.value >= 32 THEN c ELSE Fail

RECURSIVE ParseCharacters(_, _, _)
CharacterRead(s, c, text) == IF Ok(c) THEN ParseCharacters(s, c.at, Append(text, c.value)) ELSE Fail
ParseCharacters(s, i, text) ==
    IF Byte(s, i) = QUOTE THEN Done(i + 1, String(text))
    ELSE IF i > Len(s) THEN Fail ELSE CharacterRead(s, ParseCharacter(s, i), text)

\* A key is parsed where one is expected whatever is there: an opening quote is
\* consumed when there is one.
ParseString(s, i) == ParseCharacters(s, IF Byte(s, i) = QUOTE THEN i + 1 ELSE i, <<>>)

FindMember(members, key) == {members[k][2] : k \in {k \in DOMAIN members : members[k][1] = key}}

RECURSIVE ParseValue(_, _, _), ParseElements(_, _, _, _), ParseMembers(_, _, _, _)

\* After an element or a member: the next one, the end, or a failure.
ElementRead(s, v, depth, elements) ==
    LET next == SkipWhitespace(s, v.at)
    IN IF ~Ok(v) THEN Fail
       ELSE IF Byte(s, next) = COMMA THEN ParseElements(s, next + 1, depth, Append(elements, v.value))
       ELSE IF Byte(s, next) = RBRACK THEN Done(next + 1, Array(Append(elements, v.value))) ELSE Fail
ParseElements(s, i, depth, elements) == ElementRead(s, ParseValue(s, i, depth), depth, elements)

ParseArray(s, i, depth) ==
    LET first == SkipWhitespace(s, i + 1)
    IN IF depth + 1 > MaxDepth THEN Fail
       ELSE IF Byte(s, first) = RBRACK THEN Done(first + 1, Array(<<>>))
       ELSE ParseElements(s, first, depth + 1, <<>>)

\* A key that occurs twice fails.
MemberRead(s, key, v, depth, members) ==
    LET next == SkipWhitespace(s, v.at)
        grown == Append(members, <<key, v.value>>)
    IN IF ~Ok(v) THEN Fail
       ELSE IF FindMember(members, key) # {} THEN Fail
       ELSE IF Byte(s, next) = COMMA THEN ParseMembers(s, next + 1, depth, grown)
       ELSE IF Byte(s, next) = RBRACE THEN Done(next + 1, Object(grown)) ELSE Fail
KeyRead(s, key, depth, members) ==
    LET colon == SkipWhitespace(s, key.at)
    IN IF Ok(key) /\ Byte(s, colon) = COLON
       THEN MemberRead(s, key.value.value, ParseValue(s, colon + 1, depth), depth, members) ELSE Fail
ParseMembers(s, i, depth, members) == KeyRead(s, ParseString(s, SkipWhitespace(s, i)), depth, members)

ParseObject(s, i, depth) ==
    LET first == SkipWhitespace(s, i + 1)
    IN IF depth + 1 > MaxDepth THEN Fail
       ELSE IF Byte(s, first) = RBRACE THEN Done(first + 1, Object(<<>>))
       ELSE ParseMembers(s, first, depth + 1, <<>>)

ParseValue(s, i0, depth) ==
    LET i == SkipWhitespace(s, i0)
        c == Byte(s, i)
    IN IF c = -1 THEN Fail
       ELSE IF c = LBRACE THEN ParseObject(s, i, depth)
       ELSE IF c = LBRACK THEN ParseArray(s, i, depth)
       ELSE IF c = QUOTE THEN ParseString(s, i)
       ELSE IF c = MINUS \/ c \in Digit THEN ParseNumber(s, i)
       ELSE ParseLiteral(s, i)

\* Faulty variant: what follows the first value is ignored.
ParseJsonPrefix(s) == ParseValue(s, 1, 0)

\* The whole document, nothing but whitespace after it.
Whole(s, v) == IF Ok(v) /\ SkipWhitespace(s, v.at) = Len(s) + 1 THEN v ELSE Fail
ParseJson(s) == IF Len(s) <= MaxDocumentBytes THEN Whole(s, ParseValue(s, 1, 0)) ELSE Fail

-----------------------------------------------------------------------------
(* Writing *)

HexDigit(d) == IF d < 10 THEN 48 + d ELSE 87 + d
Hex4(v) == <<HexDigit(v \div 4096), HexDigit((v \div 256) % 16), HexDigit((v \div 16) % 16), HexDigit(v % 16)>>
UnicodeEscape(v) == <<BACKSLASH, U>> \o Hex4(v)

\* Everything outside ASCII is escaped, above FFFF as a surrogate pair; so are
\* control characters, the short way where there is one.
EscapedCharacter(cp) ==
    IF cp >= 65536
    THEN UnicodeEscape(55296 + ((cp - 65536) \div 1024)) \o UnicodeEscape(56320 + ((cp - 65536) % 1024))
    ELSE IF cp >= 128 THEN UnicodeEscape(cp)
    ELSE LET short == {p[1] : p \in {p \in Short : p[2] = cp /\ cp # SLASH}}
         IN IF short # {} THEN <<BACKSLASH, CHOOSE c \in short : TRUE>>
            ELSE IF cp < 32 THEN UnicodeEscape(cp) ELSE <<cp>>

AppendEscapedString(text) ==
    <<QUOTE>> \o FlattenSeq([k \in DOMAIN text |-> EscapedCharacter(text[k])]) \o <<QUOTE>>

Commas(parts) == FlattenSeq([k \in DOMAIN parts |-> IF k = 1 THEN parts[k] ELSE <<COMMA>> \o parts[k]])

RECURSIVE SerializeJson(_)
SerializeJson(v) ==
    CASE v.kind = "null" -> (CHOOSE l \in Literals : l[1] = "null")[2]
      [] v.kind = "bool" -> (CHOOSE l \in Literals : l[1] = IF v.value THEN "true" ELSE "false")[2]
      [] v.kind = "number" -> v.value
      [] v.kind = "string" -> AppendEscapedString(v.value)
      [] v.kind = "array" -> <<LBRACK>> \o Commas([k \in DOMAIN v.value |-> SerializeJson(v.value[k])]) \o <<RBRACK>>
      [] v.kind = "object" ->
           <<LBRACE>> \o Commas([k \in DOMAIN v.value |->
                                   AppendEscapedString(v.value[k][1]) \o <<COLON>> \o SerializeJson(v.value[k][2])])
                      \o <<RBRACE>>

\* operator==: the members of an object in any order.
RECURSIVE Equal(_, _)
Equal(v, w) ==
    /\ v.kind = w.kind
    /\ v.kind \in {"bool", "number", "string"} => v.value = w.value
    /\ v.kind = "array" => /\ Len(v.value) = Len(w.value)
                           /\ \A k \in DOMAIN v.value : Equal(v.value[k], w.value[k])
    /\ v.kind = "object" => /\ Len(v.value) = Len(w.value)
                            /\ \A k \in DOMAIN v.value : \E x \in FindMember(w.value, v.value[k][1]) :
                                  Equal(v.value[k][2], x)

=============================================================================
