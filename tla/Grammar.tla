---- MODULE Grammar ----
(***************************************************************************)
(* Parser fed with every sequence of tokens, against the grammar of        *)
(* Parser.y stated on its own: a document is a row of pieces - a header, a *)
(* `[]`, a field, a comment, a blank, an include - whose sections nest.    *)
(***************************************************************************)
EXTENDS Parser, TLC

CONSTANT MaxTokens  \* tokens before the end of the text

ASSUME MaxTokensAssumption == MaxTokens \in Nat

VARIABLE read  \* history: the tokens handed to the parser

vars == <<parserVars, read>>

----------------------------------------------------------------------------
(* The scanner, as far as the parser knows it.                              *)

\* The string of token n, and the whitespace before it.
Str(n) == <<ToString(n)>>
Ws(n) == <<"_" \o ToString(n)>>

\* Inside an array: an odd number of quotes was read.
InArray == Cardinality({i \in DOMAIN read : read[i].kind = Kind["'"]}) % 2 = 1

\* HITlex: whitespace is gathered within arrays only, the opening quote starts it
\* anew, and a triple-quoted string comes as an unquoted one with the flag set.
Lex ==
  LET n == Len(read) + 1
  IN  \E code \in {0, 93} \cup 258 .. 274, flag \in {"no", "'"} :
        /\ code = 0 \/ n <= MaxTokens
        /\ flag # "no" => yytranslate(code) = Kind["unquoted string"]
        /\ Take(code, Type(yytranslate(code)), Str(n), [begin |-> n, end |-> n])
        /\ read' = Append(read, [kind |-> yytranslate(code), flag |-> flag])
        /\ ws' = IF InArray THEN ws \o Ws(n)
                 ELSE IF yytranslate(code) = Kind["'"] THEN <<>> ELSE ws
        /\ verbatim' = IF flag = "no" THEN verbatim ELSE flag

Init == ParserInit /\ read = <<>>
Next == Lex \/ (ParserStep /\ UNCHANGED read)
Spec == Init /\ [][Next]_vars /\ WF_vars(Next)

----------------------------------------------------------------------------
(* The grammar.                                                             *)

K(n) == Kind[n]
Scalars == {K("integer"), K("floating-point number"), K("unquoted string"), K("brace expression")}
Elements == {K("integer"), K("floating-point number"), K("array element"), K("brace expression")}

\* The kinds read, without the end of the text.
Kinds == SelectSeq([i \in DOMAIN read |-> read[i].kind], LAMBDA k : k # 0)

\* `'`, rows of elements with a `;` between any two of them, and - unless the value
\* is still being read - `'`.
Rows(s) == /\ \A i \in DOMAIN s : s[i] \in Elements \cup {K(";")}
           /\ \A i \in DOMAIN s : s[i] = K(";") => i > 1 /\ s[i - 1] # K(";")
IsValue(s) ==
  \/ Len(s) = 1 /\ s[1] \in Scalars
  \/ /\ Len(s) > 1 /\ s[1] = K("'") /\ s[Len(s)] = K("'")
     /\ Rows(SubSeq(s, 2, Len(s) - 1)) /\ s[Len(s) - 1] # K(";")
Header == <<K("["), K("section path"), K("]")>>
Include == <<K("!include"), K("include path")>>
IsField(s) == /\ Len(s) > 2
              /\ s[1] = K("identifier") /\ s[2] \in {K("="), K(":=")}
              /\ IsValue(SubSeq(s, 3, Len(s)))
IsPiece(s) == s \in {Header, Include, <<K("[]")>>, <<K("comment")>>, <<K("blank line")>>}
              \/ IsField(s)

\* The beginnings of a piece.
IsBegun(s) ==
  \/ \E i \in 0 .. 2 : s = SubSeq(Header, 1, i)
  \/ s = <<K("!include")>>
  \/ /\ Len(s) > 0 /\ s[1] = K("identifier")
     /\ Len(s) > 1 => s[2] \in {K("="), K(":=")}
     /\ Len(s) > 2 => s[3] = K("'") /\ Rows(SubSeq(s, 4, Len(s)))

Depth(s, i) == Cardinality({j \in 1 .. i : s[j] = K("[")})
                 - Cardinality({j \in 1 .. i : s[j] = K("[]")})

\* Where the pieces of s end, as long as they nest.
Ends(s) ==
  LET end[i \in 0 .. Len(s)] ==
        \/ i = 0
        \/ /\ Depth(s, i) >= 0
           /\ \E j \in 0 .. i - 1 : end[j] /\ IsPiece(SubSeq(s, j + 1, i))
  IN  {i \in 0 .. Len(s) : end[i]}

IsDocument(s) == Len(s) \in Ends(s) /\ Depth(s, Len(s)) = 0
Continues(s) == \E i \in Ends(s) : IsBegun(SubSeq(s, i + 1, Len(s)))

\* s, and then token k, is still the beginning of a document.
Allowed(s, k) == IF k = 0 THEN IsDocument(s) ELSE Continues(Append(s, k))

----------------------------------------------------------------------------
(* What the tokens of a document stand for.                                 *)

\* The text of the value in tokens a to b.
RawText(a, b) ==
  LET Before(i) == IF read[i - 1].kind \in Elements THEN Ws(i) ELSE <<>>
      Said(i) == CASE read[i].kind = K("'") -> <<"'">>
                   [] read[i].kind = K(";") -> <<";", "sp">>
                   [] OTHER -> Before(i) \o Str(i)
      out[i \in a - 1 .. b] == IF i < a THEN <<>> ELSE out[i - 1] \o Said(i)
  IN  out[b]

Meant(a, b) ==
  LET k == read[a].kind
  IN  CASE k = K("[") -> [node |-> "open", path |-> Str(a + 1), at |-> a]
        [] k = K("[]") -> [node |-> "close"]
        [] k = K("comment") -> [node |-> "comment", text |-> Str(a), at |-> a]
        [] k = K("blank line") -> [node |-> "blank"]
        [] k = K("!include") -> [node |-> "include", path |-> Str(b), at |-> a]
        [] OTHER -> [node |-> "field", name |-> Str(a), at |-> a,
                     override |-> read[a + 1].kind = K(":="),
                     raw |-> RawText(a + 2, b), verbatim |-> read[a + 2].flag]

MeantByAll ==
  LET s == Kinds
      ends == Ends(s)
      cuts == SelectSeq([i \in 1 .. Len(s) + 1 |-> i - 1], LAMBDA i : i \in ends)
  IN  [n \in 1 .. Len(cuts) - 1 |-> Meant(cuts[n] + 1, cuts[n + 1])]

\* A tree as the same list.
RECURSIVE Listing(_)
Listing(items) ==
  IF items = <<>> THEN <<>>
  ELSE LET n == items[1]
       IN  (IF n.node = "section"
            THEN <<[node |-> "open", path |-> n.path, at |-> n.at]>>
                   \o Listing(n.items) \o <<[node |-> "close"]>>
            ELSE <<n>>)
           \o Listing(Tail(items))

----------------------------------------------------------------------------
(* Properties.                                                              *)

\* A text is accepted when its tokens are a document, and the tree handed to
\* set_root says what they say: every section closed by its own `[]`, every value
\* in its field, every array with the whitespace the text has between its elements
\* though the scanner gathers it in one string (ParseDriver.h:173), and every
\* verbatim flag on the field whose value was triple-quoted, though the scanner
\* sets it before the field exists (ParseDriver.h:61).
TreeIsText ==
  phase = "accepted" => IsDocument(Kinds) /\ Listing(root[1]) = MeantByAll

\* A text is refused at the first token no document goes on with, and never
\* before: the reductions done without a look-ahead do not swallow an error and
\* never let a token pass it.
RefusedAtTheToken ==
  /\ phase = "aborted"
       => LET s == [i \in 1 .. Len(read) - 1 |-> read[i].kind]
          IN  ~ Allowed(s, read[Len(read)].kind) /\ errors[1].unexpected = read[Len(read)].kind
  /\ WantsToken => Continues(Kinds)

\* "syntax error, unexpected X, expecting Y or Z" (yysyntax_error_): each token
\* named could have stood there, though the states before it were left by default.
ExpectedCouldStand ==
  phase = "aborted" => \A i \in DOMAIN errors : \A k \in errors[i].expecting :
    Allowed([j \in 1 .. Len(read) - 1 |-> read[j].kind], k)

\* parse() returns, whatever the scanner hands it: reductions of the empty items do
\* not go round, and the popping after an error comes to the bottom of the stack.
ParseReturns == <>(phase \in {"accepted", "aborted"})
====
