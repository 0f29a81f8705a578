----------------------------- MODULE ApiScanner -----------------------------
(***************************************************************************)
(* The scanner of laige-api.cpp, which lists the public symbols of the      *)
(* headers with the comment block above each.  The source is a sequence of  *)
(* tokens: words, punctuation, "newline", comments by their text, and whole *)
(* directives; characters inside a word never change the scanner's state.   *)
(* A nested namespace a::b is the words a and b.                            *)
(***************************************************************************)
EXTENDS Integers, Sequences, SequencesExt

CONSTANTS Identifiers, Qualified, Destructors,  \* words that name something
          Comments,   \* texts of comment lines that are no banner
          Pieces,     \* the pieces headers are made of: whole lines
          MaxSince,   \* bound: lines between two declarations
          MaxOpen     \* bound: open scopes

VARIABLES sc,       \* the scanner's fields
          \* history: what the pieces say
          above,    \* the lines above the piece read last, as <<role, text>>
          declares, \* what that piece declares
          outside,  \* the scopes around it, the outermost first
          open      \* those around the next: a sequence per open brace
vars == <<sc, above, declares, outside, open>>

Blank == ""    \* a comment line without text
TypeWords == {"class", "struct", "enum", "namespace"}
Silent == TypeWords \cup {"using", "friend", "static_assert"}   \* never a function or a variable
Access == {"public:", "private:", "protected:"}
Transparent == {"#if", "#endif"}
Directives == Transparent \cup {"#include", "#define"}
Openers == {"(", "[", "{"}   Closers == {")", "]", "}"}
NameWords == Identifiers \cup Qualified \cup Destructors

NoDoc == [active |-> FALSE, complete |-> FALSE, lines |-> <<>>]
FreshLine == [code |-> FALSE, comment |-> FALSE, trailing |-> FALSE, transparent |-> FALSE]
NoCandidate == [on |-> FALSE, text |-> <<>>, nested |-> <<>>, param |-> FALSE, typeOpen |-> FALSE,
                template |-> FALSE, angle |-> 0, pending |-> FALSE, requires |-> FALSE, requiresParen |-> 0]
NoEnum == [on |-> FALSE, text |-> <<>>, paren |-> 0]
Start == [error |-> FALSE, string |-> FALSE, scopes |-> <<>>, depth |-> 0, doc |-> NoDoc, line |-> FreshLine,
          prevTrailing |-> FALSE, cand |-> NoCandidate, body |-> 0, enum |-> NoEnum, out |-> <<>>]

Failed(s) == [s EXCEPT !.error = TRUE]
MarkCode(s) == [s EXCEPT !.line.code = TRUE]

-----------------------------------------------------------------------------
(* Comments *)

\* The first paragraph with text, the first budget line, and the flag.
DocFromLines(lines) ==
    LET tags == {"@budget", "@experimental"}
        texts == {i \in DOMAIN lines : lines[i] \notin tags \cup {Blank}}
        first == CHOOSE i \in texts : \A j \in texts : i <= j
        paragraph == {i \in texts : \A j \in first..i : lines[j] # Blank}
    IN [summary |-> IF texts = {} THEN <<>> ELSE [k \in 1..Cardinality(paragraph) |->
                        lines[CHOOSE i \in paragraph : Cardinality({j \in paragraph : j <= i}) = k]],
        budget |-> "@budget" \in ToSet(lines),
        experimental |-> "@experimental" \in ToSet(lines)]

\* An empty line ends a comment block, which stays pending.
EndLine(s) ==
    [s EXCEPT !.prevTrailing = s.line.trailing, !.line = FreshLine,
              !.doc.complete = @ \/ (/\ s.body = 0 /\ s.doc.active
                                     /\ ~s.line.code /\ ~s.line.comment /\ ~s.line.transparent)]

\* Faulty variant: the line below a trailing comment is taken for a block.
StepCommentBelow(s0, text) ==
    LET s == [s0 EXCEPT !.line.comment = TRUE]
    IN IF s.line.code THEN [s EXCEPT !.line.trailing = TRUE]
       ELSE IF text = "banner" THEN [s EXCEPT !.doc.complete = @ \/ s.doc.active]
       ELSE IF s.doc.active /\ ~s.doc.complete THEN [s EXCEPT !.doc.lines = Append(@, text)]
       ELSE [s EXCEPT !.doc = [active |-> TRUE, complete |-> FALSE, lines |-> <<text>>]]

\* A comment after code is no documentation, nor is the line below it.
StepComment(s0, text) ==
    LET s == [s0 EXCEPT !.line.comment = TRUE]
    IN IF s.line.code THEN [s EXCEPT !.line.trailing = TRUE]
       ELSE IF text = "banner" THEN [s EXCEPT !.doc.complete = @ \/ s.doc.active]
       ELSE IF s.doc.active /\ ~s.doc.complete THEN [s EXCEPT !.doc.lines = Append(@, text)]
       ELSE IF s.prevTrailing THEN s
       ELSE [s EXCEPT !.doc = [active |-> TRUE, complete |-> FALSE, lines |-> <<text>>]]

-----------------------------------------------------------------------------
(* Scopes and symbols *)

Classes(s) == {i \in DOMAIN s.scopes : s.scopes[i].kind = "class"}
Innermost(s) == CHOOSE i \in Classes(s) : \A j \in Classes(s) : j <= i
InDetail(s) == \E i \in DOMAIN s.scopes : s.scopes[i].kind = "namespace" /\ s.scopes[i].name = "detail"
IsEligible(s) == ~InDetail(s) /\ (Classes(s) # {} => s.scopes[Innermost(s)].access = "public:")
QualifiedBase(s) == [i \in DOMAIN s.scopes |-> s.scopes[i].name]

\* consumeDoc, then emit.
Emit(s, kind, name) ==
    LET symbol == [kind |-> kind, name |-> IF kind = "macro" THEN <<name>> ELSE Append(QualifiedBase(s), name),
                   doc |-> DocFromLines(s.doc.lines)]
    IN [s EXCEPT !.doc = NoDoc, !.out = IF IsEligible(s) THEN Append(@, symbol) ELSE @]
ConsumeDoc(s) == [s EXCEPT !.doc = NoDoc]

Opened(s, names, kind, access) ==
    [s EXCEPT !.depth = @ + 1, !.cand = NoCandidate,
              !.scopes = @ \o [i \in DOMAIN names |->
                  [name |-> names[i], kind |-> kind, access |-> access, depth |-> s.depth + 1]]]

\* A closing brace takes every scope its opening one opened.
Close(s) ==
    IF s.depth = 0 THEN Failed(s)
    ELSE [s EXCEPT !.depth = @ - 1, !.doc = NoDoc,
                   !.scopes = SelectSeq(@, LAMBDA scope : scope.depth < s.depth)]

-----------------------------------------------------------------------------
(* Declarations *)

FirstOf(S) == CHOOSE i \in S : \A j \in S : i <= j
\* Where the brackets opened before position i are closed again.
Level(text, i) == Len(SelectSeq(SubSeq(text, 1, i - 1), LAMBDA t : t \in Openers))
                  - Len(SelectSeq(SubSeq(text, 1, i - 1), LAMBDA t : t \in Closers))
IsCall(text, i) == text[i] = "(" /\ i > 1 /\ text[i - 1] \in NameWords

StripTemplatePrefix(text) ==
    IF text = <<>> \/ text[1] # "template" THEN text
    ELSE LET Count(i, t) == Len(SelectSeq(SubSeq(text, 1, i), LAMBDA u : u = t))
             ends == {i \in DOMAIN text : text[i] = ">" /\ Count(i, "<") = Count(i, ">")}
         IN IF ends = {} THEN text ELSE SubSeq(text, FirstOf(ends) + 1, Len(text))

ParamLists(text) == {i \in DOMAIN text : IsCall(text, i) /\ Level(text, i) = 0}
EqualsAt(text) == {i \in DOMAIN text : text[i] = "=" /\ Level(text, i) = 0}

\* The last word before the initialiser or the array bound.
VariableNameIn(text) ==
    LET cuts == {i \in DOMAIN text : text[i] \in {"=", "{", "["} /\ Level(text, i) = 0
                                     /\ (text[i] = "[" => i > 1 /\ text[i - 1] # ">")}
        end == IF cuts = {} THEN Len(text) ELSE FirstOf(cuts) - 1
    IN IF end > 0 /\ text[end] \in NameWords THEN text[end] ELSE ""

ClassifyFunction(s, text) ==
    LET rest == StripTemplatePrefix(text)
        name == rest[FirstOf(ParamLists(rest)) - 1]
        class == IF Classes(s) = {} THEN "" ELSE s.scopes[Innermost(s)].name
    IN IF rest # <<>> /\ rest[1] \in Silent THEN ConsumeDoc(s)
       ELSE IF ParamLists(rest) = {} THEN Failed(s)
       ELSE IF name \in Qualified THEN ConsumeDoc(s)
       ELSE Emit(s, IF name \in Destructors THEN "destructor"
                    ELSE IF name = class THEN "constructor"
                    ELSE IF class # "" THEN "method" ELSE "function", name)

ClassifyDeclaration(s, text) ==
    LET rest == StripTemplatePrefix(text)
        params == ParamLists(rest)
    IN IF rest # <<>> /\ rest[1] = "using"
       THEN IF Len(rest) > 1 /\ rest[2] \in Identifiers THEN Emit(s, "alias", rest[2]) ELSE Failed(s)
       ELSE IF rest # <<>> /\ rest[1] \in Silent THEN ConsumeDoc(s)
       ELSE IF params # {} /\ ~\E i \in EqualsAt(rest) : i < FirstOf(params) THEN ClassifyFunction(s, text)
       ELSE IF VariableNameIn(text) = "" THEN Failed(s)
       ELSE Emit(s, "variable", VariableNameIn(text))

FinishTypeOpen(s, text) ==
    LET rest == StripTemplatePrefix(text)
        names == SelectSeq(Tail(rest), LAMBDA t : t \in Identifiers)
        kind == IF rest[1] = "enum" THEN "enum" ELSE "class"
        emitted == Emit(s, rest[1], names[1])
    IN IF names = <<>> \/ rest[1] \notin TypeWords THEN Failed(s)
       ELSE IF rest[1] = "namespace" THEN Opened(ConsumeDoc(s), names, "namespace", "public:")
       ELSE [Opened(emitted, <<names[1]>>, kind, IF rest[1] = "struct" THEN "public:" ELSE "private:")
                 EXCEPT !.enum.on = (kind = "enum")]

FinishFunctionBody(s, text) == [ClassifyFunction(s, text) EXCEPT !.cand = NoCandidate, !.body = 1]
FinishDeclaration(s, text) == [ClassifyDeclaration(s, text) EXCEPT !.cand = NoCandidate]

-----------------------------------------------------------------------------
(* Candidates: the tokens of a declaration up to its ';' or '{' *)

BeginCandidate(s, t) ==
    [MarkCode(s) EXCEPT !.cand = [NoCandidate EXCEPT !.on = TRUE, !.typeOpen = t \in TypeWords, !.template = t = "template"]]

\* After a template prefix: a requires clause is passed over, then the first
\* word tells whether a type is opened.
FirstToken(c, t) ==
    IF ~c.pending THEN c
    ELSE IF c.requires
         THEN LET n == c.requiresParen + (IF t = "(" THEN 1 ELSE IF t = ")" THEN -1 ELSE 0)
              IN [c EXCEPT !.requiresParen = n, !.requires = ~(t = ")" /\ n = 0)]
    ELSE IF t = "requires" THEN [c EXCEPT !.requires = TRUE]
    ELSE [c EXCEPT !.pending = FALSE, !.typeOpen = @ \/ t \in TypeWords]

TemplatePrefix(c, t) ==
    IF ~c.template \/ t \notin {"<", ">"} THEN c
    ELSE LET n == IF t = "<" THEN c.angle + 1 ELSE c.angle - 1
         IN [c EXCEPT !.angle = n, !.template = n # 0, !.pending = (n = 0)]

Matching(t) == CASE t = ")" -> "(" [] t = "]" -> "[" [] t = "}" -> "{"
\* The open brackets of each kind are counted apart.
Nested(left, t) ==
    IF t \in Openers THEN Append(left, t)
    ELSE IF t \in Closers /\ Matching(t) \in ToSet(left)
         THEN RemoveAt(left, CHOOSE i \in DOMAIN left : left[i] = Matching(t)) ELSE left

StepCandidate(s, t) ==
    LET c == TemplatePrefix(FirstToken(s.cand, t), t)
        atTop == c.nested = <<>> /\ ~c.template
        grown == [c EXCEPT !.text = Append(@, t)]
        parameter == t = "(" /\ atTop /\ IsCall(grown.text, Len(grown.text))
    IN IF t = "{" /\ atTop /\ c.typeOpen THEN FinishTypeOpen(s, c.text)
       ELSE IF t = "{" /\ atTop /\ c.param THEN FinishFunctionBody(s, c.text)
       ELSE IF t = ";" /\ c.nested = <<>> THEN FinishDeclaration(s, c.text)
       ELSE [s EXCEPT !.cand = [grown EXCEPT !.nested = Nested(@, t), !.param = @ \/ parameter]]

-----------------------------------------------------------------------------
(* The other modes *)

\* An enumerator ends at a comma outside parentheses or with the enum.
FinalizeEnumerator(s) ==
    LET text == s.enum.text
        name == IF EqualsAt(text) = {} THEN text ELSE SubSeq(text, 1, FirstOf(EqualsAt(text)) - 1)
        done == [s EXCEPT !.enum.text = <<>>]
    IN IF text = <<>> THEN s
       ELSE IF Len(name) = 1 /\ name[1] \in Identifiers THEN Emit(done, "enumerator", name[1]) ELSE Failed(done)

StepEnum(s0, t) ==
    LET s == MarkCode(s0)
    IN IF t = "}" THEN Close([FinalizeEnumerator(s) EXCEPT !.enum = NoEnum])
       ELSE IF t = "," /\ s.enum.paren = 0 THEN FinalizeEnumerator(s)
       ELSE [s EXCEPT !.enum.text = Append(@, t),
                      !.enum.paren = IF t = "(" THEN @ + 1 ELSE IF t = ")" /\ @ > 0 THEN @ - 1 ELSE @]

SkipBody(s, t) == [MarkCode(s) EXCEPT !.body = IF t = "{" THEN @ + 1 ELSE IF t = "}" THEN @ - 1 ELSE @]

StepPreproc(s, t) ==
    LET marked == [MarkCode(s) EXCEPT !.line.transparent = t \in Transparent]
    IN IF s.line.code THEN Failed(s)
       ELSE IF t = "#define" THEN IF Classes(s) # {} THEN Failed(marked) ELSE Emit(marked, "macro", "MACRO")
       ELSE IF t \in Transparent THEN marked ELSE ConsumeDoc(marked)

TryAccessSpecifier(s, t) == t \in Access /\ ~s.line.code /\ Classes(s) # {}

StepTop(s, t) ==
    IF t \in Directives THEN StepPreproc(s, t)
    ELSE IF t = "}" THEN Close(MarkCode(s))
    ELSE IF t = ";" THEN MarkCode(s)
    ELSE IF TryAccessSpecifier(s, t)
         THEN [ConsumeDoc(MarkCode(s)) EXCEPT !.scopes[Len(s.scopes)].access = t]
    ELSE StepCandidate(BeginCandidate(s, t), t)

\* FileScanner::scan: one token.
Scan(s, t) ==
    IF s.error THEN s
    ELSE IF t = "newline" THEN EndLine([s EXCEPT !.string = FALSE])
    ELSE IF s.string THEN [s EXCEPT !.string = (t # "quote")]
    ELSE IF t = "quote" THEN [MarkCode(s) EXCEPT !.string = TRUE]
    ELSE IF t \in Comments \cup {"banner"}
         THEN IF s.body > 0 \/ s.cand.on THEN s ELSE StepComment(s, t)
    ELSE IF s.body > 0 THEN SkipBody(s, t)
    ELSE IF s.enum.on THEN StepEnum(s, t)
    ELSE IF s.cand.on THEN StepCandidate(s, t)
    ELSE StepTop(s, t)

-----------------------------------------------------------------------------
(* A header, piece by piece.  A piece is a record of its tokens, the scopes    *)
(* its brace opens, what it declares ("" for nothing) and its role for the     *)
(* block above the next declaration: "comment", "gap", "keep", "end", or       *)
(* "trailing" for a declaration with a comment behind it.                      *)

Init ==
    /\ sc = Start /\ above = <<<<"end", "">>>> /\ declares = ""
    /\ outside = <<>> /\ open = <<>>

Has(p, tokens) == ToSet(p.tokens) \cap tokens # {}
Closes(p) == ~Has(p, {"{"}) /\ \E i \in DOMAIN p.tokens : p.tokens[i] = "}" /\ (i = 1 \/ p.tokens[i - 1] = "newline")
InClass == \E i \in DOMAIN open : open[i][1].kind = "class"

\* The pieces that may follow: a class holds no namespace and no macro, and an
\* enum holds enumerators and comments.
Fits(p) ==
    /\ p.role \in {"comment", "gap"} \/ p.inEnum = sc.enum.on
    /\ Closes(p) => open # <<>>
    /\ Has(p, Access) => InClass
    /\ Has(p, {"namespace", "#define"}) => ~InClass
    /\ p.opens # <<>> => Len(open) < MaxOpen
    /\ Len(above) >= MaxSince => p.role \in {"end", "trailing"}

Read ==
    /\ ~sc.error
    /\ \E p \in Pieces :
         /\ Fits(p)
         /\ sc' = FoldLeft(Scan, [sc EXCEPT !.out = <<>>], p.tokens)
         /\ above' = (IF Last(above)[1] \in {"end", "trailing"} THEN <<Last(above)>> ELSE above)
                     \o <<<<p.role, IF p.role = "comment" THEN p.tokens[1] ELSE "">>>>
         /\ declares' = p.declares /\ outside' = FlattenSeq(open)
         /\ open' = IF Closes(p) THEN SubSeq(open, 1, Len(open) - 1)
                    ELSE IF Has(p, Access) THEN [open EXCEPT ![Len(open)][1].access = p.tokens[1]]
                    ELSE IF p.opens # <<>> THEN Append(open, p.opens) ELSE open

Next == Read
Spec == Init /\ [][Next]_vars

-----------------------------------------------------------------------------
(* Properties *)

\* The block above a declaration, from the lines since the one before: the last
\* comment lines that no gap separates, directives of #if kind left out; a comment
\* right below a trailing one belongs to that.
BlockAbove(lines) ==
    LET own == IF Len(lines) > 1 /\ lines[1][1] = "trailing" /\ lines[2][1] = "comment"
               THEN SubSeq(lines, 3, Len(lines)) ELSE lines
        text == SelectSeq(own, LAMBDA l : l[1] \in {"comment", "gap"})
        comments == {i \in DOMAIN text : text[i][1] = "comment"}
        last == CHOOSE i \in comments : \A j \in comments : j <= i
        block == {i \in comments : \A j \in i..last : text[j][1] = "comment"}
    IN IF comments = {} THEN <<>> ELSE [k \in 1..Cardinality(block) |-> text[last - Cardinality(block) + k][2]]

Public(scopes) == \A i \in DOMAIN scopes : scopes[i].name # "detail"
                                          /\ (scopes[i].kind = "class" => scopes[i].access = "public:")

\* A public declaration is listed once, under its scopes, with the comment block
\* above it and no other, whatever braces, bodies, directives and trailing comments
\* came before (laige-api.cpp:101-122, docs of FileScanner).
ListedWithItsBlock ==
    /\ ~sc.error
    /\ (declares # "" /\ Public(outside)) =>
         /\ Len(sc.out) = 1
         /\ sc.out[1].name = (IF declares = "MACRO" THEN <<>> ELSE [i \in DOMAIN outside |-> outside[i].name])
                             \o <<declares>>
         /\ sc.out[1].doc = DocFromLines(BlockAbove(SubSeq(above, 1, Len(above) - 1)))
    /\ declares = "" => sc.out = <<>>

\* A claim the code does not keep.
\* laige-api.cpp:64-66, "public access only": nothing inside a class that is itself
\* hidden is listed.
HiddenStaysHidden == ~Public(outside) => sc.out = <<>>

=============================================================================
