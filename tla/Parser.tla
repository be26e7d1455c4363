---- MODULE Parser ----
(***************************************************************************)
(* The LALR(1) automaton that bison generated from Parser.y, with its      *)
(* tables, and the semantic action of every rule.                          *)
(*                                                                         *)
(* Parser::parse asks for a look-ahead token only in the states whose row  *)
(* of yypact is not the default one; everywhere else it reduces at once.   *)
(* The scanner leaves whitespace (_ws_pending) and the verbatim flag       *)
(* (_next_field_verbatim) beside the token, and the actions pick them up:  *)
(* that they find those of the right token hangs on when the next one is   *)
(* read.  A string is any value here; where strings come from is the       *)
(* matter of the module that composes this one.                            *)
(***************************************************************************)
EXTENDS Integers, Sequences, FiniteSetsExt

VARIABLES
  stack,   \* yystack_, top last
  la,      \* yyla
  phase,   \* "parsing", "popping" (yyerrlab1), "accepted" or "aborted"
  root,    \* ParseDriver::_root: <<items>>, and <<>> before set_root
  errors,  \* what Parser::error passed to the driver
  ws,      \* ParseDriver::_ws_pending
  verbatim \* ParseDriver::_next_field_verbatim: "no", or its delimiter

parserVars == <<stack, la, phase, root, errors, ws, verbatim>>

----------------------------------------------------------------------------
(* The tables.                                                              *)

\* Symbols by number, terminals first.
yytname ==
  <<"end of file", "error", "invalid token", "section path", "identifier", "integer",
    "floating-point number", "unquoted string", "array element", "brace expression",
    "comment", "include path", "[", "[]", "=", ":=", "'", ";", "!include", "blank line", "]",
    "$accept", "start", "items", "item", "section", "field", "assign_op", "value", "scalar",
    "array_rows", "array_row", "array_elem", "include", "comment node", "blank">>
YYNTOKENS == 21
yypact ==
  <<-26, 3, 0, -26, -13, -26, 2, 6, -26, -26, -26, -26, -26, -26, -26, -26, -26, 15, -9, -26,
    -26, -26, -26, -26, 20, -26, -26, -26, -26, -26, -26, -26, -26, 16, 29, -26, -4, -26, 29,
    -26, -26, 29>>
yydefact ==
  <<3, 0, 2, 1, 0, 30, 0, 0, 31, 4, 5, 6, 9, 7, 8, 12, 13, 0, 0, 29, 17, 18, 19, 20, 0, 11, 14,
    3, 26, 27, 25, 28, 16, 0, 21, 23, 0, 15, 0, 24, 10, 22>>
yypgoto == <<-26, -26, -20, -26, -26, -26, -26, -26, -26, -26, -25, -18, -26, -26, -26>>
yydefgoto == <<0, 1, 2, 9, 10, 11, 17, 25, 26, 33, 34, 35, 12, 13, 14>>
yytable ==
  <<4, 15, 16, 3, 4, 18, 5, 36, 6, 40, 5, 27, 6, 41, 7, 8, 39, 19, 7, 8, 20, 21, 22, 39, 23, 28,
    29, 0, 30, 31, 0, 24, 37, 38, 28, 29, 32, 30, 31>>
yycheck ==
  <<4, 14, 15, 0, 4, 3, 10, 27, 12, 13, 10, 20, 12, 38, 18, 19, 34, 11, 18, 19, 5, 6, 7, 41, 9,
    5, 6, -1, 8, 9, -1, 16, 16, 17, 5, 6, 16, 8, 9>>
yystos ==
  <<0, 22, 23, 0, 4, 10, 12, 18, 19, 24, 25, 26, 33, 34, 35, 14, 15, 27, 3, 11, 5, 6, 7, 9, 16, 28,
    29, 20, 5, 6, 8, 9, 16, 30, 31, 32, 23, 16, 17, 32, 13, 31>>
yyr1 ==
  <<0, 21, 22, 23, 23, 24, 24, 24, 24, 24, 25, 26, 27, 27, 28, 28, 28, 29, 29, 29, 29, 30, 30,
    31, 31, 32, 32, 32, 32, 33, 34, 35>>
yyr2 ==
  <<0, 2, 1, 0, 2, 1, 1, 1, 1, 1, 5, 3, 1, 1, 1, 3, 2, 1, 1, 1, 1, 1, 3, 1, 2, 1, 1, 1, 1, 2, 1,
    1>>
yyfinal == 3
Ninf == -26

\* C arrays start at 0.
At(a, i) == a[i + 1]
Kind == [n \in {yytname[i] : i \in DOMAIN yytname} |->
           CHOOSE k \in 0 .. 35 : At(yytname, k) = n]

\* The symbol of a token code: 0, a character, or 256 and up.
yytranslate(t) == IF t <= 0 THEN 0
                  ELSE IF t = 93 THEN Kind["]"]
                  ELSE IF t \in 256 .. 274 THEN t - 255
                  ELSE Kind["invalid token"]

IsDefault(s) == At(yypact, s) = Ninf
Listed(s, k) == LET n == At(yypact, s) + k
                IN  n \in 0 .. 38 /\ At(yycheck, n) = k
Entry(s, k) == At(yytable, At(yypact, s) + k)

\* The state after symbol k is reduced on top of state s.
yy_lr_goto_state(s, k) ==
  LET n == At(yypgoto, k - YYNTOKENS) + s
  IN  IF n \in 0 .. 38 /\ At(yycheck, n) = s THEN At(yytable, n)
                                             ELSE At(yydefgoto, k - YYNTOKENS)

\* No state of this grammar shifts the error token, and no entry of yytable is a
\* reduction or an error: what is listed is shifted.
ASSUME TablesAssumption ==
  \A s \in 0 .. 41 :
    IsDefault(s) \/ (/\ ~ Listed(s, Kind["error"])
                     /\ \A k \in 0 .. YYNTOKENS - 1 : Listed(s, k) => Entry(s, k) > 0)

----------------------------------------------------------------------------
(* Values and locations.  The operators called Slip... are plausible        *)
(* mistakes in the operator that follows them; nothing else uses one.       *)

\* The type of the value a symbol of kind k has in its variant, which keeps no record of
\* it: whoever moves, reads or destroys the value goes by the kind.
Type(k) == IF k \in 3 .. 11 \cup {27, 28, 29, 32} THEN "string"
           ELSE IF k \in {24, 25, 26, 33, 34, 35} THEN "node"
           ELSE IF k \in {23, 30, 31} THEN "nodes"
           ELSE "none"

\* A stack entry and a look-ahead, each with nothing in it yet.
Nowhere == [begin |-> <<1, 1>>, end |-> <<1, 1>>]
Bottom == [state |-> 0, type |-> "none", value |-> <<>>, loc |-> Nowhere]
NoToken == [kind |-> -2, type |-> "none", value |-> <<>>, loc |-> Nowhere]

Elem(sp, v) == [ws |-> sp, val |-> v]
RowEnd == Elem(<<>>, <<>>)  \* the nullptr between two rows; no element is empty
Top == stack[Len(stack)]

\* Element of the right-hand side, $1 first; and YYLLOC_DEFAULT.
Rhs(r) == SubSeq(stack, Len(stack) - At(yyr2, r) + 1, Len(stack))
Span(r) == IF At(yyr2, r) = 0 THEN [begin |-> Top.loc.end, end |-> Top.loc.end]
           ELSE [begin |-> Rhs(r)[1].loc.begin, end |-> Top.loc.end]

\* build_array_value: rows end with "; ", and within one every element but the
\* first keeps the whitespace before it.
ArrayValue(es) ==
  LET First(n) == n = 1 \/ es[n - 1] = RowEnd
      out[n \in 0 .. Len(es)] ==
        IF n = 0 THEN <<"'">>
        ELSE IF es[n] = RowEnd THEN out[n - 1] \o <<";", "sp">>
        ELSE out[n - 1] \o (IF First(n) THEN <<>> ELSE es[n].ws) \o es[n].val
  IN  Append(out[Len(es)], "'")

\* $$ of rule r, from the values of its right-hand side.
Value(r, v, loc) ==
  CASE r = 3  -> <<>>                                       \* items: %empty
    [] r = 4  -> Append(v[1], v[2])                         \* items: items item
    [] r = 10 -> [node |-> "section", path |-> v[2], items |-> v[4], at |-> loc.begin]
    [] r = 11 -> [node |-> "field", name |-> v[1], override |-> v[2] = ":=",
                  raw |-> v[3], verbatim |-> verbatim, at |-> loc.begin]
    [] r = 12 -> "="
    [] r = 13 -> ":="
    [] r = 15 -> ArrayValue(v[2])
    [] r = 16 -> <<"'", "'">>
    [] r = 22 -> v[1] \o <<RowEnd>> \o v[3]
    [] r = 23 -> <<Elem(<<>>, v[1])>>
    [] r = 24 -> Append(v[1], Elem(ws, v[2]))
    [] r = 29 -> [node |-> "include", path |-> v[2], at |-> loc.begin]
    [] r = 30 -> [node |-> "comment", text |-> v[1], at |-> loc.begin]
    [] r = 31 -> [node |-> "blank"]
    [] OTHER  -> v[1]

----------------------------------------------------------------------------
(* The machine.                                                             *)

Missing == la.kind = NoToken.kind
ParserInit ==
  /\ stack = <<Bottom>>
  /\ la = NoToken
  /\ phase = "parsing"
  /\ root = <<>>
  /\ errors = <<>>
  /\ ws = <<>>
  /\ verbatim = "no"

\* yybackup: a state that does not look ahead decides without a token.
WantsToken == phase = "parsing" /\ Missing /\ Top.state # yyfinal /\ ~ IsDefault(Top.state)

\* yyla.kind_ = yytranslate_(yylex(&yyla.value, &yyla.location)), the value built by
\* the scanner as what it has.
Take(code, type, value, loc) ==
  /\ WantsToken
  /\ la' = [kind |-> yytranslate(code), type |-> type, value |-> value, loc |-> loc]
  /\ UNCHANGED <<stack, phase, root, errors>>

Decided == phase = "parsing" /\ Top.state # yyfinal /\ (IsDefault(Top.state) \/ ~ Missing)
Shifts == ~ IsDefault(Top.state) /\ Listed(Top.state, la.kind)
Default == At(yydefact, Top.state)

\* yypush_ of a token: its value is moved.
Pushed(s) == [state |-> s, type |-> la.type, value |-> la.value, loc |-> la.loc]

Shift ==
  /\ Decided /\ Shifts
  /\ stack' = Append(stack, Pushed(Entry(Top.state, la.kind)))
  /\ la' = NoToken
  /\ UNCHANGED <<phase, root, errors, ws, verbatim>>

\* The driver's state after the action of rule r: array_row takes the whitespace,
\* build_field the verbatim flag.
TakesWs(r) == r \in {23, 24}
SlipTakesFlag(r) == FALSE
TakesFlag(r) == r = 11

\* yypop_ of the right-hand side, and yylhs in the state below it.
Below(r) == SubSeq(stack, 1, Len(stack) - At(yyr2, r))
Lhs(r) ==
  LET rhs == Rhs(r)
      vals == [i \in DOMAIN rhs |-> rhs[i].value]
  IN  [state |-> yy_lr_goto_state(Below(r)[Len(Below(r))].state, At(yyr1, r)),
       type |-> Type(At(yyr1, r)),
       value |-> IF r = 2 THEN <<>> ELSE Value(r, vals, Span(r)),
       loc |-> Span(r)]

Reduce(r) ==
  /\ Decided /\ ~ Shifts /\ Default = r
  /\ stack' = Append(Below(r), Lhs(r))
  /\ root' = IF r = 2 THEN <<Top.value>> ELSE root
  /\ ws' = IF TakesWs(r) THEN <<>> ELSE ws
  /\ verbatim' = IF TakesFlag(r) THEN "no" ELSE verbatim
  /\ UNCHANGED <<la, phase, errors>>

\* context::expected_tokens, as yysyntax_error_ asks for it: at most four, else none.
SlipExpected(s) ==
  LET all == {k \in 0 .. YYNTOKENS - 1 : ~ IsDefault(s) /\ Listed(s, k + 1)}
  IN  IF Cardinality(all) > 4 THEN {} ELSE all
Expected(s) ==
  LET all == {k \in 0 .. YYNTOKENS - 1 : ~ IsDefault(s) /\ Listed(s, k) /\ k # Kind["error"]}
  IN  IF Cardinality(all) > 4 THEN {} ELSE all

\* yyerrlab
SlipFail ==
  /\ Decided /\ ~ Shifts /\ Default = 0
  /\ errors' = Append(errors, [unexpected |-> la.kind, expecting |-> Expected(Top.state),
                               at |-> la.loc.begin])
  /\ la' = NoToken
  /\ UNCHANGED <<stack, phase, root, ws, verbatim>>
Fail ==
  /\ Decided /\ ~ Shifts /\ Default = 0
  /\ errors' = Append(errors, [unexpected |-> la.kind, expecting |-> Expected(Top.state),
                               at |-> la.loc.begin])
  /\ phase' = "popping"
  /\ UNCHANGED <<stack, la, root, ws, verbatim>>

\* yyerrlab1: there is no state that shifts the error token, so all of them go.
SlipPop ==
  /\ phase = "popping"
  /\ Len(stack) > 2
  /\ stack' = SubSeq(stack, 1, Len(stack) - 1)
  /\ UNCHANGED <<la, phase, root, errors, ws, verbatim>>
Pop ==
  /\ phase = "popping"
  /\ Len(stack) > 1
  /\ stack' = SubSeq(stack, 1, Len(stack) - 1)
  /\ UNCHANGED <<la, phase, root, errors, ws, verbatim>>

\* yyabortlab and yyacceptlab, with the cleanup of yyreturn.
Abort ==
  /\ phase = "popping"
  /\ Len(stack) = 1
  /\ phase' = "aborted"
  /\ la' = NoToken
  /\ UNCHANGED <<stack, root, errors, ws, verbatim>>

Accept ==
  /\ phase = "parsing"
  /\ Top.state = yyfinal
  /\ phase' = "accepted"
  /\ stack' = SubSeq(stack, 1, 1)
  /\ UNCHANGED <<la, root, errors, ws, verbatim>>

ParserStep ==
  \/ Shift
  \/ \E r \in 2 .. 31 : Reduce(r)
  \/ Fail
  \/ Pop
  \/ Abort
  \/ Accept

\* "That knowledge is available via the current parser state" (Parser.h:207): the
\* value of every symbol is of the type its state says, and that of the look-ahead of
\* the type its kind says, so that no string is moved out of a variant that holds none.
ValuesHaveTheirType ==
  /\ \A i \in DOMAIN stack : stack[i].type = Type(At(yystos, stack[i].state))
  /\ la.type = Type(la.kind)
====
