----------------------------- MODULE TextItems -----------------------------
(***************************************************************************)
(* The string table and the text layout of laige/render/text_items.h.  A     *)
(* text is interned once: its code points are appended to one pool, and its  *)
(* handle is good for the table's life.  Layout breaks a text into lines,    *)
(* greedily between words and inside a word only when it alone is too wide,  *)
(* and declares one quad per glyph that has ink.                             *)
(*                                                                          *)
(* Widths are pixels times the item's scale of 1; positions are half         *)
(* pixels, for a centred line of odd width.                                  *)
(***************************************************************************)
EXTENDS Integers, Sequences, FiniteSets, SequencesExt, FiniteSetsExt

CONSTANTS MaxStrings, MaxCodePoints,   \* StringTable::Options
          Space, Advance, Ink,         \* the font: the space, the advance of a code, the codes with ink
          MaxLineWidth,                \* kTextMaxLineWidthPx
          Texts, Widths                \* what a game passes

VARIABLES capacity,   \* maxStrings_ of the table: zero once it is moved from
          pool, headers,
          shown,      \* the last declaration since the table changed: the text, its options and the quads
          interned    \* history: handle -> text
vars == <<capacity, pool, headers, shown, interned>>

NothingShown == [codes |-> <<>>, width |-> 0, align |-> "left", quads |-> <<>>]
Init == capacity = MaxStrings /\ pool = <<>> /\ headers = <<>> /\ shown = NothingShown /\ interned = <<>>

IsValid(ref) == ref < Len(headers)
Text(ref) == LET h == headers[ref + 1] IN SubSeq(pool, h.offset + 1, h.offset + h.length)

Same(ref, codes) == headers[ref + 1].length = Len(codes) /\ Text(ref) = codes

\* A text that is there already gets its handle again, whatever room is left.
Intern(codes) ==
    /\ shown' = NothingShown /\ UNCHANGED capacity
    /\ LET known == {ref \in 0..Len(headers) - 1 : Same(ref, codes)}
       IN IF capacity > 0 /\ known # {}
          THEN /\ UNCHANGED <<pool, headers>>
               /\ interned' = [interned EXCEPT ![Min(known) + 1] = @ \cup {codes}]
          ELSE IF capacity = 0 \/ Len(headers) = capacity \/ Len(pool) + Len(codes) > MaxCodePoints
          THEN UNCHANGED <<pool, headers, interned>>
          ELSE /\ pool' = pool \o codes
               /\ headers' = Append(headers, [offset |-> Len(pool), length |-> Len(codes)])
               /\ interned' = Append(interned, {codes})

\* The table is moved out: no handle is valid in what is left of it.
MoveOut ==
    /\ capacity > 0
    /\ capacity' = 0 /\ pool' = <<>> /\ headers' = <<>> /\ interned' = <<>>
    /\ shown' = NothingShown

\* Layout: the first position at or after pos whose code is (or is not) the space, or one past the end.
NextAt(codes, pos, isSpace) == Min({i \in pos..Len(codes) : (codes[i] = Space) = isSpace} \cup {Len(codes) + 1})

WordWidth(codes, p, q) == FoldLeft(LAMBDA sum, code : sum + Advance[code], 0, SubSeq(codes, p, q - 1))

\* The part of a word wider than the line that fits on it: at least one glyph that advances.
BrokenAt(codes, p, q, maxWidth) ==
    Max({r \in p + 1..q : \A i \in p + 1..r - 1 : WordWidth(codes, p, i) = 0 \/ WordWidth(codes, p, i + 1) <= maxWidth})

\* Faulty variant: the space before the word is left out of the sum.
FitsWithoutSpace(cur, word, maxWidth) == maxWidth = 0 \/ cur + word <= maxWidth
Fits(cur, word, maxWidth) == maxWidth = 0 \/ cur + Advance[Space] + word <= maxWidth

NoLine == [start |-> 0, end |-> 0, width |-> 0]
\* The line that begins with the first word at or after pos: its first position, one past its last, its width.
NextLine(codes, maxWidth, pos) ==
    LET p == NextAt(codes, pos, FALSE)
        q == NextAt(codes, p, TRUE)
        \* The words that still fit, one at a time.
        Extended[r \in 1..Len(codes) + 1, cur \in Nat] ==
            LET r2 == NextAt(codes, r, FALSE)
                q2 == NextAt(codes, r2, TRUE)
                word == WordWidth(codes, r2, q2)
            IN IF r > Len(codes) \/ r2 > Len(codes) \/ ~Fits(cur, word, maxWidth) THEN [start |-> p, end |-> r, width |-> cur]
               ELSE Extended[q2, cur + Advance[Space] + word]
    IN IF p > Len(codes) THEN NoLine
       ELSE IF maxWidth > 0 /\ WordWidth(codes, p, q) > maxWidth
       THEN LET r == BrokenAt(codes, p, q, maxWidth) IN [start |-> p, end |-> r, width |-> WordWidth(codes, p, r)]
       ELSE Extended[q, WordWidth(codes, p, q)]

Lines(codes, maxWidth) ==
    LET From[pos \in 1..Len(codes) + 1] ==
          LET line == NextLine(codes, maxWidth, pos)
          IN IF line = NoLine THEN <<>> ELSE <<line>> \o From[line.end]
    IN From[1]

\* The pen before position i of a line: a run of spaces advances it once.
Pen(codes, line, i) ==
    LET steps == {j \in line.start..i - 1 : codes[j] # Space \/ codes[j + 1] # Space}
    IN MapThenSumSet(LAMBDA j : Advance[codes[j]], steps)

LineStart(line, align) == CASE align = "left" -> 0 [] align = "center" -> -line.width [] align = "right" -> -(2 * line.width)

LineQuads(codes, line, number, align) ==
    LET inked == SelectSeq([k \in 1..line.end - line.start |-> line.start + k - 1], LAMBDA i : codes[i] \in Ink)
    IN [k \in DOMAIN inked |-> [code |-> codes[inked[k]], line |-> number, at |-> inked[k],
                                pen |-> LineStart(line, align) + 2 * Pen(codes, line, inked[k])]]

\* Nothing is declared when any line would be too wide.
DeclareText(ref, maxWidth, align) ==
    LET lines == Lines(Text(ref), maxWidth)
    IN /\ IsValid(ref)
       /\ shown' = [codes |-> Text(ref), width |-> maxWidth, align |-> align,
                    quads |-> IF \E k \in DOMAIN lines : lines[k].width > MaxLineWidth THEN <<>>
                              ELSE FlattenSeq([k \in DOMAIN lines |-> LineQuads(Text(ref), lines[k], k, align)])]
       /\ UNCHANGED <<capacity, pool, headers, interned>>

Next ==
    \/ \E codes \in Texts : Intern(codes)
    \/ MoveOut
    \/ \E ref \in 0..MaxStrings, maxWidth \in Widths, align \in {"left", "center", "right"} : DeclareText(ref, maxWidth, align)

Spec == Init /\ [][Next]_vars

TypeOK == /\ Len(headers) <= MaxStrings /\ Len(pool) <= MaxCodePoints
          /\ \A h \in {headers[i] : i \in DOMAIN headers} : h.offset + h.length <= Len(pool)

\* One handle per text (text_items.h, StringTable::intern): two calls got the same handle exactly when they
\* passed the same text, and every handle still reads the text it was given for.
HandlesAreTexts ==
    \A i, j \in DOMAIN interned : interned[i] = {Text(i - 1)} /\ (i # j => interned[i] # interned[j])

\* What is shown is the text (text_items.h, nextLine and declareTextImpl): the glyphs with ink appear once each
\* and in order; no line is wider than asked for unless it is a single advancing glyph; a word that begins a
\* line would not have fitted on the line above; and a right-aligned line ends at the position of the text.
ShownIsTheText ==
    LET codes == shown.codes  quads == shown.quads
        On(n) == {k \in DOMAIN quads : quads[k].line = n}
        Right(k) == quads[k].pen + 2 * Advance[quads[k].code]
        Wide(n) == Right(Max(On(n))) - quads[Min(On(n))].pen
        WordEnd(i) == NextAt(codes, i, TRUE)
    IN quads # <<>> =>
         /\ [k \in DOMAIN quads |-> quads[k].at] = SelectSeq([i \in DOMAIN codes |-> i], LAMBDA i : codes[i] \in Ink)
         /\ \A k \in DOMAIN quads \ {1} : quads[k].line > quads[k - 1].line \/ quads[k].pen >= quads[k - 1].pen
         /\ \A n \in {quads[k].line : k \in DOMAIN quads} :
              LET first == quads[Min(On(n))].at
                  previous == {k \in DOMAIN quads : quads[k].line = n - 1}
              IN /\ shown.width > 0 => Wide(n) <= 2 * shown.width \/ Cardinality(On(n)) = 1
                 /\ shown.align = "right" => Right(Max(On(n))) = 0
                 /\ shown.align = "center" => Right(Max(On(n))) = -quads[Min(On(n))].pen
                 /\ previous # {} /\ codes[first - 1] = Space =>
                      Wide(n - 1) + 2 * (Advance[Space] + WordWidth(codes, first, WordEnd(first))) > 2 * shown.width
=============================================================================
