---- MODULE BracesMeaning ----
(***************************************************************************)
(* What `${...}` stands for, by the table of the README: over trees instead *)
(* of texts, by recursion instead of a stack.                               *)
(***************************************************************************)
EXTENDS Braces, FiniteSets

CONSTANTS Part,      \* the words and braces that values are made of
          Depth,     \* how deep the braces of each part are nested
          Nesting,   \* a bound on that
          Tree       \* each value as a tree: parts, and perhaps a brace left open

\* A part is a word or braces around parts, with white space between them, in
\* front of the first and behind the last.
Plain(w) == [plain |-> TRUE, word |-> w, parts |-> <<>>, gaps |-> <<>>]
Braced(ps, gaps) == [plain |-> FALSE, word |-> <<>>, parts |-> ps, gaps |-> gaps]

\* Within braces a word is without braces and white space, and white space keeps
\* it apart from the next one.
Inner(p) == p.plain => p.word \in Seq(Word) \ {<<>>}
IsWord(p) == /\ p.word \in Seq(Token \ {"${"})
             /\ p = Plain(p.word)
IsBraces(p) ==
  /\ p.parts \in Seq(Part) /\ p.gaps \in Seq(Seq({" "}))
  /\ p = Braced(p.parts, p.gaps)
  /\ Len(p.gaps) = Len(p.parts) + 1
  /\ Depth[p] > 0
  /\ \A i \in DOMAIN p.parts : Inner(p.parts[i]) /\ Depth[p.parts[i]] < Depth[p]
  /\ \A i \in 2 .. Len(p.parts) :
       p.parts[i].plain /\ p.parts[i - 1].plain => p.gaps[i] # <<>>

\* A text that ends within a brace.
Open(t) == \A j \in DOMAIN t : Level(t, j) > 0
Trees == [parts : Seq(Part), tail : {t \in Seq(Token) : Open(t)}]

ASSUME DepthAssumption == Nesting \in Nat /\ Depth \in [Part -> 0 .. Nesting]
ASSUME PartAssumption == \A p \in Part : IF p.plain THEN IsWord(p) ELSE IsBraces(p)

\* Texts and what is between, before and behind them, from the k-th on.
LaidFrom(texts, gaps) ==
  LET from[k \in Nat \ {0}] ==
        IF k \in DOMAIN texts THEN gaps[k] \o texts[k] \o from[k + 1] ELSE gaps[k]
  IN  from
Laid(texts, gaps) == LaidFrom(texts, gaps)[1]

Spelling[p \in Part] ==
  IF p.plain THEN p.word
  ELSE <<"${">> \o Laid([i \in DOMAIN p.parts |-> Spelling[p.parts[i]]], p.gaps) \o <<"}">>

Spelled(n) == Laid([i \in DOMAIN n.parts |-> Spelling[n.parts[i]]],
                   [i \in 1 .. Len(n.parts) + 1 |-> IF i > Len(n.parts) THEN n.tail ELSE <<>>])

ASSUME TreeAssumption == Tree \in [Value -> Trees] /\ \A t \in Value : Spelled(Tree[t]) = t

Text(t) == [is |-> "text", text |-> t]
Error == [is |-> "error", text |-> <<>>]
Endless == [is |-> "endless", text |-> <<>>]

\* One after the other: what comes first decides how the whole ends.
Then(x, y) == IF x.is # "text" THEN x
              ELSE IF y.is # "text" THEN y ELSE Text(x.text \o y.text)
TurnsFrom(outcomes) ==
  LET from[k \in Nat \ {0}] ==
        IF k \in DOMAIN outcomes THEN Then(outcomes[k], from[k + 1]) ELSE Text(<<>>)
  IN  from
InTurn(outcomes) == TurnsFrom(outcomes)[1]

OfName(known, name) == IF name \in DOMAIN known THEN known[name] ELSE Error
OfEnv(name) == IF name = <<>> THEN Error
               ELSE Text(IF name \in DOMAIN Env THEN Env[name] ELSE <<>>)

\* What braces stand for, given what the Fields and the parts in them stand for.
\* `written` says whether raw keeps its arguments as they are written.
OfBraces(known, parts, own, written) ==
  LET command == parts[1].word
      rest == [i \in 1 .. Len(parts) - 1 |-> own[i + 1]]
      wordAt == {i \in DOMAIN rest : parts[i + 1].plain}
      braceAt == DOMAIN rest \ wordAt
      words == Chosen(rest, wordAt)
      braces == Chosen(rest, braceAt)
      first == IF wordAt # {} THEN words[1] ELSE IF braceAt # {} THEN braces[1] ELSE Error
  IN  IF parts = <<>> \/ ~ parts[1].plain THEN Error
      ELSE CASE command = <<"raw">> -> IF written THEN InTurn(rest)
                                       ELSE Then(InTurn(words), InTurn(braces))
             [] command = <<"env">> -> IF first.is = "text" THEN OfEnv(first.text) ELSE first
             [] command = <<"replace">> -> IF first.is = "text" THEN OfName(known, first.text)
                                           ELSE first
             [] OTHER -> IF wordAt = {} THEN OfName(known, command) ELSE Error

OfParts(known, written) ==
  LET of[p \in Part] == IF p.plain THEN Text(p.word)
                        ELSE OfBraces(known, p.parts, [i \in DOMAIN p.parts |-> of[p.parts[i]]],
                                      written)
  IN  of

OfTree(known, n, written) ==
  Then(InTurn([i \in DOMAIN n.parts |-> OfParts(known, written)[n.parts[i]]]),
       IF n.tail = <<>> THEN Text(<<>>) ELSE Error)

\* What each Field stands for if from it no more than n Fields in a row lead from
\* one to the next.  Of more Fields in a row than there are, one came up twice.
Within(fields, written) ==
  LET within[n \in Nat] ==
        [name \in DOMAIN fields |->
           IF n = 0 THEN Endless ELSE OfTree(within[n - 1], Tree[fields[name]], written)]
  IN  within

MeaningOf(fields, name, written) == Within(fields, written)[Cardinality(Name)][name]
Meaning == MeaningOf(field, asked, FALSE)

\* The stack has room for every reading that does not go in a circle.
ASSUME StackAssumption ==
  IsFiniteSet(Name) /\ MaxCalls >= Cardinality(Name) * (Nesting + 1)

----------------------------------------------------------------------------
(* Properties.                                                              *)

\* "expanded at value-extraction time" (README.md:273): what a client reads is the
\* text with every brace replaced by what it stands for, in its place, and what
\* replaces it is not expanded a second time.
AnswerIsMeaning == phase = "returned" => Meaning = Text(answer)

\* A reading throws for a cause: a brace that is not closed, or a name that is
\* missing, empty or no Field, among the braces that are evaluated.
ThrownWithCause == phase = "thrown" => Meaning = Error

\* The process dies only of values that refer to each other in a circle.
DiesInCircle == phase = "died" => Meaning = Endless

\* "${raw a b c}: Concatenate all arguments literally: abc", and for nested braces
\* "lib = ${raw ${prefix} /lib} -> /opt/lib" (README.md:283-289): arguments are
\* concatenated in the order they are written.
RawKeepsOrder ==
  phase = "returned" => MeaningOf(field, asked, TRUE) = Text(answer)
====
