---- MODULE Lexer ----
(***************************************************************************)
(* The scanner that flex generated from Lexer.l, with the part of          *)
(* ParseDriver its rules write to, feeding the parser it EXTENDS.          *)
(*                                                                         *)
(* One step is one match: the longest, and the first rule of those that    *)
(* match as much.  Scanner shows that this is what the tables compute.     *)
(***************************************************************************)
EXTENDS Parser, Patterns

CONSTANT Texts  \* the inputs

ASSUME TextsAssumption == Texts \subseteq Seq(Char)

VARIABLES
  pos,       \* the next character to match, yy_c_buf_p
  base,      \* where yytext starts, yytext_ptr
  mode,      \* the start condition
  at,        \* <<_line, _col>>
  tokAt,     \* <<_tok_start_line, _tok_start_col>>
  inMore,    \* _in_yymore, and the scanner's yy_more_flag
  moreBase,  \* _yymore_base
  depth,     \* _brace_depth
  acc,       \* _unquoted_acc
  accAt,     \* <<_unquoted_start_line, _unquoted_start_col>>
  triple     \* _triple_str

placeVars == <<text, pos, base, mode, at, tokAt, inMore, moreBase>>
valueVars == <<depth, acc, accAt, triple>>
lexVars == <<placeVars, valueVars>>

----------------------------------------------------------------------------
(* on_token_action, run before every rule's own action.  The operators      *)
(* called Slip... are plausible mistakes in the operator that follows them. *)

\* _line and _col after the characters of s.
After(a, s) ==
  LET nls == {i \in DOMAIN s : s[i] = "nl"}
  IN  IF nls = {} THEN <<a[1], a[2] + Len(s)>>
                  ELSE <<a[1] + Cardinality(nls), 1 + Len(s) - Max(nls)>>

\* yytext: with yymore() what was matched before stands in front.
Begins == IF inMore THEN base ELSE pos
yytext(r) == SubSeq(text, Begins, pos + r.len - 1)
SlipHeld == 0
Held == IF inMore THEN moreBase ELSE 0

Matched(r) ==
  /\ base' = Begins
  /\ tokAt' = IF inMore THEN tokAt ELSE at
  /\ at' = After(at, SubSeq(yytext(r), Held + 1, Len(yytext(r))))
  /\ moreBase' = Len(yytext(r))
  /\ pos' = pos + r.len
  /\ UNCHANGED text

\* The rule's BEGIN, and no yymore().
Begin(m) == mode' = m /\ inMore' = FALSE

Code(tok) == IF tok = "]" THEN 93 ELSE IF tok = "end of file" THEN 0 ELSE Kind[tok] + 255

\* The tokens that come with a string, and those that come without.
Texted == {"section path", "identifier", "integer", "floating-point number", "unquoted string",
           "array element", "brace expression", "comment", "include path"}
Textless == {"[", "[]", "=", ":=", "'", ";", "!include", "blank line", "]", "end of file"}
ASSUME TokensAssumption ==
  /\ \A tok \in Texted \cup Textless : yytranslate(Code(tok)) = Kind[tok] /\ Kind[tok] \in 0 .. 20
  /\ \A tok \in Texted : Type(Kind[tok]) = "string"
  /\ \A tok \in Textless : Type(Kind[tok]) = "none"
ASSUME PathAssumption == \A tok \in Texted \ {"include path"} : Kind[tok] # Kind["include path"]

\* The end of ParseDriver::lex: the token is where its first character stands, and the
\* pending string, be it empty, its value.
Returned(tok) == Take(Code(tok), "none", <<>>, [begin |-> tokAt', end |-> at'])
SlipBuilt(val) == IF val = <<>> THEN "none" ELSE "string"
Built(val) == "string"
ReturnedText(tok, val) ==
  Take(Code(tok), Built(val), val, [begin |-> tokAt', end |-> at'])

\* No token yet: yylex goes on matching.
Goes == UNCHANGED <<stack, la, phase, root>>

----------------------------------------------------------------------------
(* The actions of the rules.                                                *)

Skip(r) ==
  /\ r.do = "skip"
  /\ Matched(r) /\ Begin(r.next) /\ Goes
  /\ UNCHANGED <<valueVars, errors, ws, verbatim>>

\* TOK: no value; TOK_S: yytext.
Token(r) ==
  /\ r.do = "token"
  /\ Matched(r) /\ Begin(r.next) /\ Returned(r.tok)
  /\ UNCHANGED <<valueVars, ws, verbatim>>
String(r) ==
  /\ r.do = "string"
  /\ Matched(r) /\ Begin(r.next) /\ ReturnedText(r.tok, yytext(r))
  /\ UNCHANGED <<valueVars, ws, verbatim>>

\* TOK_INCLUDE_PATH: the blanks behind it are not of the path.
Trimmed(s) == SubSeq(s, 1, Max({0} \cup {i \in DOMAIN s : s[i] \notin Space}))
Path(r) ==
  /\ r.do = "path"
  /\ Matched(r) /\ Begin(r.next) /\ ReturnedText(r.tok, Trimmed(yytext(r)))
  /\ UNCHANGED <<valueVars, ws, verbatim>>

\* lex_error: the parse has failed, and goes on.
LexError(r) ==
  /\ r.do = "error"
  /\ Matched(r) /\ Begin(r.next) /\ Goes
  /\ errors' = Append(errors, [unexpected |-> Kind["invalid token"], expecting |-> {},
                               at |-> tokAt'])
  /\ UNCHANGED <<valueVars, ws, verbatim>>

\* The opening quote of an array; the whitespace between its elements.
Quote(r) ==
  /\ r.do = "quote"
  /\ Matched(r) /\ Begin(r.next) /\ Returned(r.tok)
  /\ ws' = <<>>
  /\ UNCHANGED <<valueVars, verbatim>>
Whitespace(r) ==
  /\ r.do = "ws"
  /\ Matched(r) /\ Begin(r.next) /\ Goes
  /\ ws' = ws \o yytext(r)
  /\ UNCHANGED <<valueVars, errors, verbatim>>

\* begin_brace and end_brace.
Nested(r) == IF r.brace = "open" THEN depth + 1
             ELSE IF r.brace = "close" /\ depth > 0 THEN depth - 1
             ELSE depth
\* A closing brace ends the expression when it is the outermost one.
SlipAfterBrace(r) == r.next
AfterBrace(r) == IF r.brace = "close" /\ Nested(r) # 0 THEN mode ELSE r.next

\* begin_unquoted and append_unquoted.
BeginUnquoted(r) ==
  /\ r.do = "begin"
  /\ Matched(r) /\ Begin(r.next) /\ Goes
  /\ acc' = yytext(r) /\ accAt' = tokAt' /\ depth' = Nested(r)
  /\ UNCHANGED <<triple, errors, ws, verbatim>>
SlipGathered(r) == yytext(r)
Gathered(r) == acc \o yytext(r)
AppendUnquoted(r) ==
  /\ r.do = "append"
  /\ Matched(r) /\ Begin(AfterBrace(r)) /\ Goes
  /\ acc' = Gathered(r) /\ depth' = Nested(r)
  /\ UNCHANGED <<accAt, triple, errors, ws, verbatim>>

\* flush_unquoted.  What ends the value is pushed back, on_yyless_all and yyless(0):
\* the place goes back to where it began.
Back(r) == at
Flush(r) ==
  /\ r.do = "flush"
  /\ base' = pos /\ moreBase' = r.len
  /\ tokAt' = accAt /\ at' = Back(r)
  /\ Begin(r.next) /\ acc' = <<>>
  /\ ReturnedText(r.tok, acc)
  /\ UNCHANGED <<text, pos, depth, accAt, triple, ws, verbatim>>

\* Triple-quoted strings: _triple_str, and set_verbatim_pending.  yytext is appended as
\* a C string: up to a NUL.
CString(s) == SubSeq(s, 1, Min({i \in DOMAIN s : s[i] = "nul"} \cup {Len(s) + 1}) - 1)
OpenTriple(r) ==
  /\ r.do = "triple"
  /\ Matched(r) /\ Begin(r.next) /\ Goes
  /\ triple' = <<>>
  /\ UNCHANGED <<depth, acc, accAt, errors, ws, verbatim>>
TripleBody(r) ==
  /\ r.do = "body"
  /\ Matched(r) /\ Begin(r.next) /\ Goes
  /\ triple' = triple \o CString(yytext(r))
  /\ UNCHANGED <<depth, acc, accAt, errors, ws, verbatim>>
CloseTriple(r) ==
  /\ r.do = "verbatim"
  /\ Matched(r) /\ Begin(r.next)
  /\ ReturnedText("unquoted string", triple)
  /\ verbatim' = r.tok
  /\ UNCHANGED <<valueVars, ws>>

\* A brace expression within an array: set_yymore and yymore keep the pieces
\* together until the outermost brace is closed.
More(r) ==
  /\ r.do = "more" /\ (r.brace = "close" => Nested(r) # 0)
  /\ Matched(r) /\ mode' = AfterBrace(r) /\ inMore' = TRUE /\ Goes
  /\ depth' = Nested(r)
  /\ UNCHANGED <<acc, accAt, triple, errors, ws, verbatim>>
EndMore(r) ==
  /\ r.do = "more" /\ r.brace = "close" /\ Nested(r) = 0
  /\ Matched(r) /\ Begin(r.next) /\ ReturnedText(r.tok, yytext(r))
  /\ depth' = Nested(r)
  /\ UNCHANGED <<acc, accAt, triple, ws, verbatim>>

\* <<EOF>>, which no on_token_action precedes: an unquoted value ends, or the text.
EndOfText ==
  /\ pos > Len(text)
  /\ base' = Begins
  /\ UNCHANGED <<text, pos, at, inMore, moreBase, depth, accAt, triple, ws, verbatim>>
  /\ IF mode = "IN_UNQUOTED"
       THEN /\ tokAt' = accAt /\ acc' = <<>> /\ mode' = "BODY"
            /\ ReturnedText("unquoted string", acc)
       ELSE /\ UNCHANGED <<tokAt, acc, mode>>
            /\ Returned("end of file")

Scan(r) ==
  \/ Skip(r) \/ Token(r) \/ String(r) \/ Path(r) \/ LexError(r)
  \/ Quote(r) \/ Whitespace(r)
  \/ BeginUnquoted(r) \/ AppendUnquoted(r) \/ Flush(r)
  \/ OpenTriple(r) \/ TripleBody(r) \/ CloseTriple(r)
  \/ More(r) \/ EndMore(r)

\* The parser calls lex() and yylex matches, one rule a step.
Lex ==
  /\ WantsToken
  /\ \/ /\ pos <= Len(text)
        /\ \E rs \in {Rules(mode, pos)} : \E i \in DOMAIN rs : IsBest(rs, i) /\ Scan(rs[i])
     \/ EndOfText

LexInit(t) ==
  /\ text = t
  /\ pos = 1 /\ base = 1
  /\ mode = "BODY"
  /\ at = <<1, 1>> /\ tokAt = <<1, 1>>
  /\ inMore = FALSE /\ moreBase = 0
  /\ depth = 0
  /\ acc = <<>> /\ accAt = <<1, 1>>
  /\ triple = <<>>

vars == <<parserVars, lexVars>>
Init == ParserInit /\ \E t \in Texts : LexInit(t)
Next == Lex \/ (ParserStep /\ UNCHANGED lexVars)
Spec == Init /\ [][Next]_vars /\ WF_vars(Next)

----------------------------------------------------------------------------
(* Properties.                                                              *)

BraceModes == {"IN_UBRACE", "IN_ARRAY_BRACE", "IN_DARRAY_BRACE"}

\* The brace counter is one field for the whole text (ParseDriver.h:79), reset by
\* nobody: a value that would leave it above zero shifts where the next `}` of
\* another value ends.  It is above zero exactly while an expression is open.
DepthIsOfThisValue == depth > 0 <=> mode \in BraceModes

\* The text as its author counts it.
Line(p) == 1 + Cardinality({q \in 1 .. p - 1 : text[q] = "nl"})
Column(p) == p - Max({0} \cup {q \in 1 .. p - 1 : text[q] = "nl"})

\* What the parser is handed runs from some place p of the text, and its end is where
\* the scanner goes on: line and column of both are those a count from the beginning of
\* the text gives, and the string is all that stands between them, in however many
\* matches it came (append_unquoted, yymore) and whatever was pushed back behind it
\* (yyless, Node.cpp:648).  Only an include path loses the blanks behind it, and a
\* verbatim value stands at its closing quotes.
IsOfTheText(tok, p, end) ==
  /\ tok.loc = [begin |-> <<Line(p), Column(p)>>, end |-> <<Line(end), Column(end)>>]
  /\ tok.type = "string" /\ mode \notin {"IN_TRIPLE_SQ", "IN_TRIPLE_DQ"} =>
       LET s == SubSeq(text, p, end - 1)
       IN  tok.value = IF tok.kind = Kind["include path"] THEN Trimmed(s) ELSE s
TokensAreTheText ==
  [][la' # la /\ la'.kind # NoToken.kind => \E p \in 1 .. pos' : IsOfTheText(la', p, pos')]_vars
====
