---- MODULE Patterns ----
(***************************************************************************)
(* The rules of Lexer.l: in each start condition, what each matches and    *)
(* what its action does.                                                   *)
(*                                                                         *)
(* A text is a sequence of characters, one for each class the rules tell   *)
(* apart: "x" a letter, and those of !include and :override= on their own, *)
(* "1" a digit, "-" a sign, "sp" a blank or tab, "cr", "nl", "dq" the      *)
(* double quote, "?" what no name holds, and "nul".  INITIAL and           *)
(* SECTION_BODY have the same rules and are one condition here, BODY.      *)
(***************************************************************************)
EXTENDS Integers, Sequences, FiniteSetsExt

VARIABLE text  \* _input

----------------------------------------------------------------------------
(* Patterns: how much of the text one matches from position p on.           *)

Letter == {"x", "E", "c", "d", "e", "i", "l", "n", "o", "r", "u", "v"}
Char == Letter \cup {"1", ".", "-", "!", "sp", "cr", "nl", "[", "]", "=", ":", "'", "dq", "$", "{",
                     "}", ";", "#", "\\", "?", "nul"}
Space == {"sp"}
Ident == Letter \cup {"1", ".", "-", "!"}
NotNl == Char \ {"nl"}
Bare == Char \ {"sp", "nl", "cr", "[", "#", "$", "'", "dq", "\\"}   \* of an unquoted value
Element == Char \ {"sp", "nl", "cr", ";", "#", "$", "'", "dq"}      \* of an array element
InBrace == Char \ {"$", "}"}

One(S, p) == IF p \in DOMAIN text /\ text[p] \in S THEN 1 ELSE 0
Run(S, p) == Min({q \in p .. Len(text) : text[q] \notin S} \cup {Len(text) + 1}) - p
Stands(w, p) == p + Len(w) - 1 <= Len(text) /\ SubSeq(text, p, p + Len(w) - 1) = w
Word(w, p) == IF Stands(w, p) THEN Len(w) ELSE 0
Some(S, p) == IF p <= Len(text) THEN Run(S, p) ELSE 0

Include == <<"!", "i", "n", "c", "l", "u", "d", "e">>
Override == <<":", "o", "v", "e", "r", "r", "i", "d", "e", "=">>

\* "${" and "$"[^{]
DollarBrace(p) == Word(<<"$", "{">>, p)
Dollar(p) == IF One({"$"}, p) + One(Char \ {"{"}, p + 1) = 2 THEN 2 ELSE 0

\* \n([ \t]*\n)+
BlankLines(p) ==
  LET ends == {q \in p + 1 .. p + Some({"nl"} \cup Space, p) - 1 : text[q] = "nl"}
  IN  IF One({"nl"}, p) = 1 /\ ends # {} THEN Max(ends) - p + 1 ELSE 0

\* {INTEGER} and {FLOAT}
Integer(p) ==
  LET s == One({"-"}, p)
      d == Some({"1"}, p + s)
  IN  IF d > 0 THEN s + d ELSE 0
Exponent(p) ==
  LET s == One({"-"}, p + 1)
      d == Some({"1"}, p + 1 + s)
  IN  IF One({"e", "E"}, p) = 1 /\ d > 0 THEN 1 + s + d ELSE 0
Float(p) ==
  LET s == One({"-"}, p)
      a == Some({"1"}, p + s)
      dot == One({"."}, p + s + a)
      b == IF dot = 1 THEN Some({"1"}, p + s + a + 1) ELSE 0
      e == Exponent(p + s + a + dot + b)
  IN  IF a + b > 0 /\ dot + e > 0 THEN s + a + dot + b + e ELSE 0

----------------------------------------------------------------------------
(* The rules of each start condition, in their order.  A rule has the       *)
(* length it matches, what its action does, the condition it begins, the    *)
(* token it returns, and whether it opens or closes a brace.                *)

R(len, do, next, tok) == [len |-> len, do |-> do, next |-> next, tok |-> tok, brace |-> "no"]
B(len, do, next, brace) == [len |-> len, do |-> do, next |-> next, tok |-> "brace expression",
                            brace |-> brace]

Body(p) ==
  <<R(Some({"sp", "cr"}, p), "skip", "BODY", "-"),
    R(BlankLines(p), "token", "BODY", "blank line"),
    R(One({"nl"}, p), "skip", "BODY", "-"),
    R(One({"#"}, p) * (1 + Some(NotNl, p + 1)), "string", "BODY", "comment"),
    R(Word(Include, p), "token", "IN_INCLUDE", "!include"),
    R(Word(<<"[", "]">>, p), "token", "BODY", "[]"),
    R(One({"["}, p), "token", "IN_PATH", "["),
    R(Some(Ident, p), "string", "IN_PARAM", "identifier"),
    R(One(NotNl, p), "error", "BODY", "-")>>
InPath(p) ==
  <<R(Some(Space, p), "skip", "IN_PATH", "-"),
    R(One({"]"}, p), "token", "BODY", "]"),
    R(Some(Char \ {"sp", "nl", "cr", "[", "]"}, p), "string", "IN_PATH", "section path"),
    R(One({"nl"}, p), "error", "BODY", "-"),
    R(One(NotNl, p), "error", "IN_PATH", "-")>>
InParam(p) ==
  <<R(Some({"sp", "cr"}, p), "skip", "IN_PARAM", "-"),
    R(Word(Override, p), "token", "AFTER_EQ", ":="),
    R(Word(<<":", "=">>, p), "token", "AFTER_EQ", ":="),
    R(One({"="}, p), "token", "AFTER_EQ", "="),
    R(One({"nl"}, p), "skip", "BODY", "-"),
    R(One(NotNl, p), "error", "BODY", "-")>>
AfterEq(p) ==
  <<R(Some({"sp", "cr"}, p), "skip", "AFTER_EQ", "-"),
    R(One({"nl"}, p), "skip", "BODY", "-"),
    R(Float(p), "string", "BODY", "floating-point number"),
    R(Integer(p), "string", "BODY", "integer"),
    R(Word(<<"'", "'", "'">>, p), "triple", "IN_TRIPLE_SQ", "-"),
    R(Word(<<"dq", "dq", "dq">>, p), "triple", "IN_TRIPLE_DQ", "-"),
    R(One({"dq"}, p), "quote", "IN_DARRAY", "'"),
    R(One({"'"}, p), "quote", "IN_ARRAY", "'"),
    B(DollarBrace(p), "begin", "IN_UBRACE", "open"),
    B(Some(Bare, p), "begin", "IN_UNQUOTED", "no"),
    R(One(NotNl, p), "error", "BODY", "-")>>
InUnquoted(p) ==
  <<B(Some(Bare, p), "append", "IN_UNQUOTED", "no"),
    B(DollarBrace(p), "append", "IN_UBRACE", "open"),
    R(One(NotNl, p), "flush", "BODY", "unquoted string"),
    R(One({"nl"}, p), "flush", "BODY", "unquoted string")>>
\* The last rule here and of InArrayBrace is flex's own: a character no rule matches,
\* a `$` at the end of the text, is echoed.
InUBrace(p) ==
  <<B(DollarBrace(p), "append", "IN_UBRACE", "open"),
    B(One({"}"}, p), "append", "IN_UNQUOTED", "close"),
    B(Some(InBrace, p), "append", "IN_UBRACE", "no"),
    B(Dollar(p), "append", "IN_UBRACE", "no"),
    R(One(Char, p), "skip", "IN_UBRACE", "-")>>

\* IN_ARRAY and IN_DARRAY, IN_ARRAY_BRACE and IN_DARRAY_BRACE, IN_TRIPLE_SQ and
\* IN_TRIPLE_DQ are the same rules with another delimiter.
InArray(p, m, braceMode, delim) ==
  <<R(Some({"sp", "nl", "cr"}, p), "ws", m, "-"),
    R(One({delim}, p), "token", "BODY", "'"),
    R(One({";"}, p), "token", m, ";"),
    B(DollarBrace(p), "more", braceMode, "open"),
    R(Float(p), "string", m, "floating-point number"),
    R(Integer(p), "string", m, "integer"),
    R(Some(Element, p), "string", m, "array element"),
    R(One(NotNl, p), "error", m, "-")>>
InArrayBrace(p, m, outer) ==
  <<B(DollarBrace(p), "more", m, "open"),
    B(One({"}"}, p), "more", outer, "close"),
    B(Some(InBrace, p), "more", m, "no"),
    B(Dollar(p), "more", m, "no"),
    R(One(Char, p), "skip", m, "-")>>
InTriple(p, m, delim) ==
  <<R(Word(<<delim, delim, delim>>, p), "verbatim", "BODY", delim),
    R(Word(<<delim, delim>>, p), "body", m, "-"),
    R(One({delim}, p), "body", m, "-"),
    R(Some(Char \ {delim}, p), "body", m, "-")>>
InInclude(p) ==
  <<R(Some(Space, p), "skip", "IN_INCLUDE", "-"),
    R(One(Char \ {"sp", "nl", "cr", "#"}, p) * (1 + Some(Char \ {"nl", "cr", "#"}, p + 1)),
      "path", "BODY", "include path"),
    R(One({"nl"}, p), "skip", "BODY", "-"),
    R(One(NotNl, p), "error", "BODY", "-")>>

Rules(m, p) ==
  CASE m = "BODY" -> Body(p)
    [] m = "IN_PATH" -> InPath(p)
    [] m = "IN_PARAM" -> InParam(p)
    [] m = "AFTER_EQ" -> AfterEq(p)
    [] m = "IN_UNQUOTED" -> InUnquoted(p)
    [] m = "IN_UBRACE" -> InUBrace(p)
    [] m = "IN_ARRAY" -> InArray(p, m, "IN_ARRAY_BRACE", "'")
    [] m = "IN_DARRAY" -> InArray(p, m, "IN_DARRAY_BRACE", "dq")
    [] m = "IN_ARRAY_BRACE" -> InArrayBrace(p, m, "IN_ARRAY")
    [] m = "IN_DARRAY_BRACE" -> InArrayBrace(p, m, "IN_DARRAY")
    [] m = "IN_TRIPLE_SQ" -> InTriple(p, m, "'")
    [] m = "IN_TRIPLE_DQ" -> InTriple(p, m, "dq")
    [] OTHER -> InInclude(p)

\* The rule that fires: the first of those that match most.
IsBest(rs, i) ==
  \A j \in DOMAIN rs : rs[j].len < rs[i].len \/ (rs[j].len = rs[i].len /\ i <= j)
====
