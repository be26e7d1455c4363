---- MODULE ParseDriver ----
(***************************************************************************)
(* nmhit_detail::ParseDriver as the Bison parser drives it over one text:  *)
(* build_field, build_section and build_include make nodes, and            *)
(* apply_overrides settles a list of siblings whenever a section closes    *)
(* and once more when the document ends.                                   *)
(*                                                                         *)
(* Nodes are numbered in the order they are constructed.  Every operation  *)
(* of the driver appends, and a section is constructed after its children, *)
(* so the order of siblings in a vector is the order of their numbers and  *)
(* a vector of children is kept as a SET of numbers.                       *)
(*                                                                         *)
(* Container 0 is Items, the vector of the innermost open `items`          *)
(* nonterminal; the vectors of the enclosing ones wait in the frames of    *)
(* "open", as they wait on the Bison stack.                                *)
(***************************************************************************)
EXTENDS Integers, Sequences, FiniteSets

CONSTANTS Name,        \* path segments: section and field names
          FieldKey,    \* keys the text may give a field: segments of `a/b/k`
          SectionKey,  \* paths the text may open with `[a/b]`
          MaxNode,     \* bound: nodes constructed in one parse
          MaxDepth,    \* bound: sections open at once
          MaxOther,    \* bound: comments, blank lines and includes among them
          Reuse        \* may the allocator hand out a freed Field's address?

ASSUME NodeAssumption == MaxNode \in Nat /\ MaxDepth \in Nat /\ MaxOther \in Nat
ASSUME KeyAssumption == /\ FieldKey \subseteq Seq(Name) \ {<<>>}
                        /\ SectionKey \subseteq Seq(Name) \ {<<>>}
ASSUME ReuseAssumption == Reuse \in BOOLEAN

Node == 1 .. MaxNode
Items == 0
Container == 0 .. MaxNode

VARIABLES
  size,      \* nodes constructed so far
  node,      \* what was constructed: [kind, name, op, addr, path]
  kids,      \* the child vector of every node, and the innermost items
  wrapper,   \* Section::_is_wrapper
  blocks,    \* history: the `[..]` blocks of the text whose content a node holds
  overrides, \* _override_fields: addresses of Fields built with ':='
  open,      \* the enclosing `items`, outermost first
  phase,     \* where the parse stands
  work,      \* containers apply_overrides has still to visit
  reports,   \* _errors: duplicate errors recorded, per Field
  failed     \* _failed

tree == <<size, node, kids, wrapper, blocks>>
vars == <<size, node, kids, wrapper, blocks, overrides, open, phase, work,
          reports, failed>>

Kind == {"none", "field", "section", "other"}
Op == {"none", "=", ":="}
Record == [kind : Kind, name : Name \cup {"none"}, op : Op,
           addr : Container, path : Seq(Name)]
Nothing == [kind |-> "none", name |-> "none", op |-> "none", addr |-> 0,
            path |-> <<>>]

\* The path of the section whose items are being read.
Here == IF open = <<>> THEN <<>> ELSE open[Len(open)].path

Named(n, k) == node[n].kind = k
Fields == {n \in 1 .. size : Named(n, "field")}
Sections == {n \in 1 .. size : Named(n, "section")}

\* Every node some vector owns: the others have been deleted.
Live == (UNION {kids[c] : c \in Container})
          \cup (UNION {open[i].outer : i \in 1 .. Len(open)})

Init ==
  /\ size = 0
  /\ node = [n \in Node |-> Nothing]
  /\ kids = [c \in Container |-> {}]
  /\ wrapper = [n \in Node |-> FALSE]
  /\ blocks = [n \in Node |-> {}]
  /\ overrides = {}
  /\ open = <<>>
  /\ phase = "items"
  /\ work = {}
  /\ reports = [n \in Node |-> 0]
  /\ failed = FALSE

----------------------------------------------------------------------------
(* Construction.  The operators called Slip... are plausible mistakes in    *)
(* the operator that follows them; no action of the specification uses one. *)

\* The node that stands for the whole key among its siblings.
SlipOutermost(key) == size + Len(key) + 1
Outermost(key) == size + Len(key)

\* wrap_in_sections: node size + 1 is what the text wrote; the segments of its
\* key but the last become path wrappers around it, built inside out, and the
\* outermost joins its siblings.
WrapInSections(rec, inner, siblings, key) ==
  LET top == size + Len(key)
      Wrappers == size + 2 .. top
  IN  /\ top <= MaxNode
      /\ size' = top
      /\ node' = [n \in Node |->
           IF n = size + 1 THEN rec
           ELSE IF n \in Wrappers
             THEN [kind |-> "section", name |-> key[top + 1 - n], op |-> "none",
                   addr |-> 0,
                   path |-> SubSeq(rec.path, 1, Len(rec.path) + size + 1 - n)]
           ELSE node[n]]
      /\ kids' = [c \in Container |->
           IF c = Items THEN siblings \cup {Outermost(key)}
           ELSE IF c = size + 1 THEN inner
           ELSE IF c \in Wrappers THEN {c - 1}
           ELSE kids[c]]
      /\ wrapper' = [n \in Node |-> IF n \in Wrappers THEN TRUE ELSE wrapper[n]]

\* Addresses no live Field has but a deleted one had.
Freed == {node[f].addr : f \in Fields} \ {node[f].addr : f \in Fields \cap Live}

\* build_field.  An address is named after the first Field that lived there.
\* The set of overrides keeps the addresses of Fields deleted since.
SlipTagged(op, a) == overrides \cup {a}
Tagged(op, a) == IF op = ":=" THEN overrides \cup {a} ELSE overrides

BuildField(key, op, a) ==
  /\ phase = "items"
  /\ WrapInSections([kind |-> "field", name |-> key[Len(key)], op |-> op,
                     addr |-> a, path |-> Here \o key],
                    {}, kids[Items], key)
  /\ overrides' = Tagged(op, a)
  /\ UNCHANGED <<blocks, open, phase, work, reports, failed>>

\* A comment, a blank line or an !include: a node with no name.
BuildOther ==
  /\ phase = "items"
  /\ size < MaxNode
  /\ Cardinality({n \in 1 .. size : Named(n, "other")}) < MaxOther
  /\ size' = size + 1
  /\ node' = [node EXCEPT ![size + 1].kind = "other"]
  /\ kids' = [kids EXCEPT ![Items] = @ \cup {size + 1}]
  /\ UNCHANGED <<wrapper, blocks, overrides, open, phase, work, reports, failed>>

\* '[' path ']': the items read so far wait on the parser's stack.
OpenSection(key) ==
  /\ phase = "items"
  /\ Len(open) < MaxDepth
  /\ open' = Append(open, [key |-> key, path |-> Here \o key,
                           outer |-> kids[Items]])
  /\ kids' = [kids EXCEPT ![Items] = {}]
  /\ UNCHANGED <<size, node, wrapper, blocks, overrides, phase, work, reports,
                 failed>>

\* '[]': build_section starts by applying the overrides to the items inside.
CloseSection ==
  /\ phase = "items"
  /\ open # <<>>
  /\ size + Len(open[Len(open)].key) <= MaxNode
  /\ phase' = "closing"
  /\ work' = {Items}
  /\ UNCHANGED <<tree, overrides, open, reports, failed>>

\* The rest of build_section.
BuildSection ==
  LET frame == open[Len(open)]
      s == size + 1
  IN  /\ phase = "closing"
      /\ work = {}
      /\ WrapInSections([kind |-> "section", name |-> frame.key[Len(frame.key)],
                         op |-> "none", addr |-> 0, path |-> frame.path],
                        kids[Items], frame.outer, frame.key)
      /\ blocks' = [blocks EXCEPT ![s] = {s}]
      /\ open' = SubSeq(open, 1, Len(open) - 1)
      /\ phase' = "items"
      /\ UNCHANGED <<overrides, work, reports, failed>>

----------------------------------------------------------------------------
(* apply_overrides: what one visit makes of a list S of siblings.           *)

SameName(m, n) == node[m].name = node[n].name

SlipEarlier(S, n, k) == {m \in S : m < n /\ Named(m, k) /\ Named(n, k)}
Earlier(S, n, k) ==
  {m \in S : m < n /\ Named(m, k) /\ Named(n, k) /\ SameName(m, n)}

\* Pass 1.  A section folds into the latest surviving one of its name when
\* either of the two is a path wrapper; that one still is a wrapper only while
\* every section of the name before it was.
SlipFolded(S, n) == Earlier(S, n, "section") # {}
SlipFoldedWrapper(S, n) == wrapper[n] /\ Earlier(S, n, "section") # {}
Folded(S, n) ==
  /\ Earlier(S, n, "section") # {}
  /\ wrapper[n] \/ \A m \in Earlier(S, n, "section") : wrapper[m]

Hosts(S, h, n) ==
  /\ Folded(S, n) /\ ~Folded(S, h)
  /\ \A m \in Earlier(S, n, "section") : m > h => Folded(S, m)

Guests(S, h) == {n \in S : h \in Earlier(S, n, "section") /\ Hosts(S, h, n)}

\* Pass 2.  A repeated Field is an error unless its address is among the
\* overrides; then it removes the one that held the name before it.
SlipRejected(S, f) == Earlier(S, f, "field") # {}
Rejected(S, f) ==
  Earlier(S, f, "field") # {} /\ node[f].addr \notin overrides

Replaced(S, f) ==
  /\ ~Rejected(S, f)
  /\ \E g \in S : f \in Earlier(S, g, "field") /\ node[g].addr \in overrides

Kept(S) == {n \in S : ~Folded(S, n) /\ ~Replaced(S, n)}

\* Pass 3 goes on into every section that is left, the hosts among them.
SlipRemaining(S) == {n \in S : Named(n, "section") /\ Guests(S, n) = {}}
Remaining(S) == {n \in Kept(S) : Named(n, "section")}

ApplyOverrides(c) ==
  LET S == kids[c]
  IN  /\ phase \in {"closing", "ending"}
      /\ c \in work
      /\ kids' = [d \in Container |->
           IF d = c THEN Kept(S)
           ELSE IF d \in S /\ Folded(S, d) THEN {}
           ELSE kids[d] \cup UNION {kids[n] : n \in Guests(S, d)}]
      /\ wrapper' = [n \in Node |->
           IF \E m \in Guests(S, n) : ~wrapper[m] THEN FALSE ELSE wrapper[n]]
      /\ blocks' = [n \in Node |->
           blocks[n] \cup UNION {blocks[m] : m \in Guests(S, n)}]
      /\ reports' = [f \in Node |->
           reports[f] + IF f \in S /\ Rejected(S, f) THEN 1 ELSE 0]
      /\ failed' = (failed \/ \E f \in S : Rejected(S, f))
      /\ work' = (work \ {c}) \cup Remaining(S)
      /\ UNCHANGED <<size, node, overrides, open, phase>>

----------------------------------------------------------------------------
(* The end of the parse                                                     *)

\* The start symbol is reduced: set_root applies the overrides to the document.
EndOfFile ==
  /\ phase = "items"
  /\ open = <<>>
  /\ phase' = "ending"
  /\ work' = {Items}
  /\ UNCHANGED <<tree, overrides, open, reports, failed>>

\* The rest of set_root, and parse_raw: an error recorded anywhere discards
\* the tree.
SlipSetRoot ==
  /\ phase = "ending"
  /\ work = {}
  /\ ~failed
  /\ phase' = "ok"
  /\ UNCHANGED <<tree, overrides, open, work, reports, failed>>

SetRoot ==
  /\ phase = "ending"
  /\ work = {}
  /\ phase' = IF failed THEN "thrown" ELSE "ok"
  /\ UNCHANGED <<tree, overrides, open, work, reports, failed>>

\* A character no lexer rule accepts: recorded, and the parse goes on.
LexError ==
  /\ phase = "items"
  /\ ~failed
  /\ failed' = TRUE
  /\ UNCHANGED <<tree, overrides, open, phase, work, reports>>

\* A token the grammar does not accept there: the grammar has no recovery.
SyntaxError ==
  /\ phase = "items"
  /\ phase' = "thrown"
  /\ failed' = TRUE
  /\ UNCHANGED <<tree, overrides, open, work, reports>>

\* parse_raw has returned or thrown.
Done == phase \in {"ok", "thrown"} /\ UNCHANGED vars

Next ==
  \/ \E key \in FieldKey, op \in {"=", ":="} :
       \E a \in {size + 1} \cup (IF Reuse THEN Freed ELSE {}) :
         BuildField(key, op, a)
  \/ BuildOther
  \/ \E key \in SectionKey : OpenSection(key)
  \/ CloseSection
  \/ \E c \in Container : ApplyOverrides(c)
  \/ BuildSection
  \/ EndOfFile
  \/ SetRoot
  \/ LexError
  \/ SyntaxError
  \/ Done

\* apply_overrides and the construction after it run to their end once called;
\* nothing makes the text go on.
Fairness == /\ WF_vars(\E c \in Container : ApplyOverrides(c))
            /\ WF_vars(BuildSection)
            /\ WF_vars(SetRoot)

Spec == Init /\ [][Next]_vars /\ Fairness

----------------------------------------------------------------------------
(* Properties                                                               *)

Frame == [key : SectionKey, path : Seq(Name), outer : SUBSET (1 .. size)]

\* Every variable has its type, and no vector holds a node not yet built.
TypeOK ==
  /\ size \in 0 .. MaxNode
  /\ node \in [Node -> Record]
  /\ kids \in [Container -> SUBSET (1 .. size)]
  /\ wrapper \in [Node -> BOOLEAN]
  /\ blocks \in [Node -> SUBSET (1 .. size)]
  /\ overrides \subseteq Container
  /\ open \in Seq(Frame)
  /\ phase \in {"items", "closing", "ending", "ok", "thrown"}
  /\ work \subseteq Container
  /\ reports \in [Node -> Nat]
  /\ failed \in BOOLEAN

\* A list of siblings with nothing left to do: a name is given to one Field,
\* and sections that share a name were all written as `[name]` blocks.
CleanFields(S) ==
  \A m, n \in S : Named(m, "field") /\ Named(n, "field") /\ SameName(m, n)
                    => m = n
CleanSections(S) ==
  \A m, n \in S : Named(m, "section") /\ Named(n, "section") /\ SameName(m, n)
                    /\ wrapper[m] => m = n

\* A parse that returns a tree returns one with no unresolved duplicate on any
\* level, however the sections were nested, split by `/`, repeated and folded:
\* the recursion of apply_overrides reaches every list a fold has disturbed.
ResultIsClean ==
  phase = "ok" => \A c \in Container : CleanFields(kids[c]) /\ CleanSections(kids[c])

\* Two `[name]` blocks of the text never end up in one section (the comment
\* above apply_overrides), and a section is a wrapper exactly while it holds
\* nothing of any block.
BlocksNeverMerge ==
  \A s \in Sections : /\ \A x, y \in blocks[s] : x = y
                      /\ wrapper[s] <=> blocks[s] = {}

\* Moving a subtree into another section never changes what the text called
\* it: a node's path is the path of the section that owns it and its own name.
PathsKept ==
  \A s \in Sections : \A n \in kids[s] :
    Named(n, "other") \/ node[n].path = Append(node[s].path, node[n].name)

\* apply_overrides deletes only what the text overrode: a Field that is gone
\* has a later ':=' Field of its path in the tree, the content of every block
\* is in the tree, and no comment, blank line or include is ever dropped.
NothingLost ==
  phase = "ok" => \A n \in 1 .. size :
    CASE Named(n, "field") ->
           n \in Live \/ \E g \in Fields \cap Live :
             g > n /\ node[g].op = ":=" /\ node[g].path = node[n].path
      [] Named(n, "section") ->
           \E s \in Sections \cap Live : blocks[n] \subseteq blocks[s]
      [] OTHER -> n \in Live

\* The blocks of the text; texts in which no two of them have one path, so that
\* a path names one place in the tree.
Block == UNION {blocks[s] : s \in Sections}
BlocksAreDistinct ==
  \A s, t \in Block : node[s].path = node[t].path => s = t

\* Last writer wins: where a path names one place, the Fields in the returned
\* tree are the last ones of their path, whether the text reached them through
\* blocks, through `/` or both, and in whichever order.
LastOccurrenceWins ==
  phase = "ok" /\ BlocksAreDistinct =>
    \A f \in Fields :
      f \in Live <=> ~ \E g \in Fields : g > f /\ node[g].path = node[f].path

\* An error is recorded only for a Field written with '=' whose path an earlier
\* Field of the text has: no legal text is refused as a duplicate.
NoFalseReports ==
  \A f \in Fields : reports[f] > 0 =>
    /\ node[f].op = "="
    /\ \E g \in Fields : g < f /\ node[g].path = node[f].path

\* A call of apply_overrides ends, and a text that ends is answered.
CallsReturn ==
  phase \in {"closing", "ending"} ~> phase \in {"items", "ok", "thrown"}

\* ParseDriver.h on apply_overrides: it "emits an error for any duplicate that
\* does not use ':='".
EveryDuplicateReported ==
  phase = "ok" /\ BlocksAreDistinct =>
    \A f, g \in Fields : g < f /\ node[g].path = node[f].path
                           => node[f].op = ":="
====
