---- MODULE Frontend ----
(***************************************************************************)
(* Scanner and parser together, on a text and then on what the tree of     *)
(* that text renders to: where the nodes stand, what the values are and    *)
(* whether writing a document out and reading it again gives the document. *)
(***************************************************************************)
EXTENDS Lexer

VARIABLES
  pass,  \* 1: the text given; 2: the text rendered
  first  \* history: the items of the first pass

frontVars == <<vars, pass, first>>

----------------------------------------------------------------------------
(* Node::render, two blanks for each level.  SlipFieldText is a plausible   *)
(* mistake in FieldText.                                                    *)

Pad(n) == [i \in 1 .. 2 * n |-> "sp"]
SlipFieldText(n) == n.raw
FieldText(n) ==
  LET d == IF n.verbatim = "no" THEN <<>> ELSE [i \in 1 .. 3 |-> n.verbatim]
  IN  d \o n.raw \o d

RECURSIVE Rendered(_, _)
Rendered(items, indent) ==
  IF items = <<>> THEN <<>>
  ELSE LET n == items[1]
           OnLine(s) == Pad(indent) \o s \o <<"nl">>
       IN  (CASE n.node = "section" -> OnLine(<<"[">> \o n.path \o <<"]">>)
                                         \o Rendered(n.items, indent + 1)
                                         \o OnLine(<<"[", "]">>)
              [] n.node = "field" -> OnLine(n.name \o <<"sp", "=", "sp">> \o FieldText(n))
              [] n.node = "comment" -> OnLine(n.text)
              [] n.node = "blank" -> <<"nl">>
              [] OTHER -> <<>>)              \* an include node renders to nothing
           \o Rendered(Tail(items), indent)

\* The nodes with a place, in the order of the text.
RECURSIVE Placed(_)
Placed(items) ==
  IF items = <<>> THEN <<>>
  ELSE LET n == items[1]
       IN  (IF n.node = "blank" THEN <<>> ELSE <<n>>)
           \o (IF n.node = "section" THEN Placed(n.items) ELSE <<>>)
           \o Placed(Tail(items))

\* The caller parses root->render(): another scanner, another driver.
Again ==
  /\ phase = "accepted" /\ errors = <<>> /\ pass = 1
  /\ \A i \in DOMAIN Placed(root[1]) : Placed(root[1])[i].node # "include"
  /\ pass' = 2
  /\ first' = root[1]
  /\ text' = Rendered(root[1], 0)
  /\ pos' = 1 /\ base' = 1 /\ mode' = "BODY"
  /\ at' = <<1, 1>> /\ tokAt' = <<1, 1>> /\ inMore' = FALSE /\ moreBase' = 0
  /\ depth' = 0 /\ acc' = <<>> /\ accAt' = <<1, 1>> /\ triple' = <<>>
  /\ stack' = <<Bottom>> /\ la' = NoToken
  /\ phase' = "parsing" /\ root' = <<>> /\ errors' = <<>> /\ ws' = <<>> /\ verbatim' = "no"

FrontendInit == Init /\ pass = 1 /\ first = <<>>
FrontendNext == (Next /\ UNCHANGED <<pass, first>>) \/ Again
FrontendSpec == FrontendInit /\ [][FrontendNext]_frontVars

----------------------------------------------------------------------------
(* Where a node begins.                                                     *)

\* What the text has where node n begins.
Opening(n) == CASE n.node = "section" -> <<"[">>
                [] n.node = "field" -> n.name
                [] n.node = "comment" -> n.text
                [] OTHER -> Include

Place(n) == CHOOSE p \in 1 .. Len(text) : <<Line(p), Column(p)>> = n.at

----------------------------------------------------------------------------
(* The text of a value.                                                     *)

Blanks == {"sp", "nl", "cr"}
\* An array keeps its whitespace except at its ends and around its semicolons.
Tidy(s) ==
  LET Borders == {0, Len(s) + 1} \cup {j \in DOMAIN s : s[j] = ";"}
      Between(i, j) == (i + 1 .. j - 1) \cup (j + 1 .. i - 1)
      Drops(i) == /\ s[i] \in Blanks
                  /\ \E j \in Borders : \A k \in Between(i, j) : s[k] \in Blanks
      kept == SelectSeq([i \in DOMAIN s |-> i], LAMBDA i : ~ Drops(i))
  IN  [n \in DOMAIN kept |-> s[kept[n]]]
Inside(s) == SubSeq(s, 2, Len(s) - 1)

\* What separates a bare value from the next thing.
Separators == {"sp", "cr", "nl", "[", "#"}

\* raw is the value the text has at p.
IsValueAt(n, p) ==
  LET d == <<n.verbatim, n.verbatim, n.verbatim>>
  IN  CASE n.verbatim # "no" -> Stands(d \o n.raw \o d, p)
        [] text[p] \in {"'", "dq"} ->
             /\ n.raw[1] = "'" /\ n.raw[Len(n.raw)] = "'"
             /\ \E q \in p + 1 .. Len(text) : /\ text[q] = text[p]
                                             /\ Tidy(SubSeq(text, p + 1, q - 1)) = Tidy(Inside(n.raw))
        [] OTHER ->
             /\ Stands(n.raw, p)
             /\ p + Len(n.raw) <= Len(text) => text[p + Len(n.raw)] \in Separators

\* The position after the blanks from p on.
Skipped(p) == p + Some({"sp", "cr"}, p)

\* How deep the braces of s are nested at its end, as parse_brace_node_at counts
\* them (BraceExpr.cpp:43): every `${` opens one, every `}` closes one.
Nesting(s) ==
  LET Opens(i) == s[i] = "{" /\ i > 1 /\ s[i - 1] = "$"
      n[i \in 0 .. Len(s)] == IF i = 0 THEN 0
                              ELSE IF Opens(i) THEN n[i - 1] + 1
                              ELSE IF s[i] = "}" /\ n[i - 1] > 0 THEN n[i - 1] - 1
                              ELSE n[i - 1]
  IN  n[Len(s)]

----------------------------------------------------------------------------
(* Properties.                                                              *)

Read == phase = "accepted" /\ errors = <<>>
Nodes == LET ns == Placed(root[1]) IN {ns[i] : i \in DOMAIN ns}

\* Line and column of a node (Node.h:91) are where its text stands, counted from
\* the beginning of the document, and the raw value of a field is the text behind its
\* `=`, however many rules matched it: not one character of a bare value, of a verbatim
\* one or of an array's elements is lost, doubled or taken from what follows.
NodesAreTheText ==
  Read => \A n \in Nodes :
            /\ \E p \in 1 .. Len(text) : <<Line(p), Column(p)>> = n.at
            /\ Stands(Opening(n), Place(n))
            /\ n.node = "field" =>
                 LET op == Skipped(Place(n) + Len(n.name))
                     eq == Min({q \in op .. Len(text) : text[q] = "="})
                 IN  IsValueAt(n, Skipped(eq + 1))

\* The items as rendering keeps them: `:=` becomes `=`, and of blank lines the ones
\* at the top and all but the first of several in a row go.
RECURSIVE Shape(_, _)
Shape(items, top) ==
  LET Keeps(i) == items[i].node = "blank" => IF i = 1 THEN ~ top ELSE items[i - 1].node # "blank"
      Form(n) == CASE n.node = "section" -> [n EXCEPT !.items = Shape(n.items, FALSE), !.at = <<>>]
                   [] n.node = "field" -> [n EXCEPT !.override = FALSE, !.at = <<>>]
                   [] n.node = "comment" -> [n EXCEPT !.at = <<>>]
                   [] OTHER -> n
      kept == SelectSeq([i \in DOMAIN items |-> i], Keeps)
  IN  [i \in DOMAIN kept |-> Form(items[kept[i]])]

\* README: the tree "round-trips": what it renders to is accepted, and is the tree.
RoundTrip ==
  pass = 2 => /\ errors = <<>>
              /\ phase = "accepted" => Shape(root[1], TRUE) = Shape(first, TRUE)

\* README.md:341, `brace_expr = '${' <content, brace-depth-tracked> '}'`: the scanner
\* and the brace parser (BraceExpr.cpp:43) count the braces of a value each in its own
\* way, and agree that every expression of an accepted value is closed.  A `$` in an
\* expression hides the character behind it from the scanner (Lexer.l:98), even a `}`,
\* which does no harm; but one that hides the `$` of `${` leaves a brace that counts
\* for the brace parser only.
BracesAgree ==
  Read => \A n \in {n \in Nodes : n.node = "field" /\ n.verbatim = "no"} :
            (\A i \in 2 .. Len(n.raw) - 1 :
                n.raw[i] = "$" /\ n.raw[i + 1] = "{" => n.raw[i - 1] # "$")
              => Nesting(n.raw) = 0
====
