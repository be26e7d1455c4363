---- MODULE NodeTree ----
(***************************************************************************)
(* nmhit::Node as its clients use it: trees built and taken apart with     *)
(* add_child, insert_child and remove_child, copied with clone, searched   *)
(* with find, and freed when the unique_ptr at their top goes.  C++ moves  *)
(* a node into a tree; the Python bindings put a clone there instead.      *)
(*                                                                         *)
(* What a node carries besides its type and its local path (value, text,   *)
(* source location) is left out: no operation here looks at it.            *)
(***************************************************************************)
EXTENDS Integers, Sequences, FiniteSets

CONSTANTS Node,     \* addresses: the bound on nodes alive at once
          Name,     \* names of sections and fields
          Empty,    \* the path() of a Root, a Comment and a Blank
          Null,     \* nullptr
          RelPath   \* the paths asked of find(), as the segments between slashes

ASSUME NullAssumption == Null \notin Node
ASSUME EmptyAssumption == Empty \notin Name
ASSUME PathAssumption == RelPath \subseteq Seq(Name \cup {Empty})

VARIABLES
  alive,     \* nodes constructed and not yet deleted
  label,     \* type() and path(), by address
  parent,    \* _parent
  children,  \* _children, the vector of unique_ptr that owns them
  held       \* nodes owned by a unique_ptr of the client

vars == <<alive, label, parent, children, held>>

Nameless == {"root", "blank"}
Named == {"section", "field"}
Label == [kind : Nameless, name : {Empty}] \cup [kind : Named, name : Name]
Blank == [kind |-> "blank", name |-> Empty]

Kind(n) == label[n].kind
Path(n) == label[n].name

Elements(s) == {s[i] : i \in DOMAIN s}
Distinct(s) == \A i, j \in DOMAIN s : s[i] = s[j] => i = j
ChildSet(n) == Elements(children[n])

\* n and everything below it: in every set that holds n and, with a node, its
\* children.
Closed(D) == \A x \in D : ChildSet(x) \subseteq D
Subtree(n) == {m \in Node : \A D \in SUBSET Node : n \in D /\ Closed(D) => m \in D}

Init ==
  /\ alive = {}
  /\ label = [n \in Node |-> Blank]
  /\ parent = [n \in Node |-> Null]
  /\ children = [n \in Node |-> <<>>]
  /\ held = {}

----------------------------------------------------------------------------
(* Navigation.  The operators called Slip... are plausible mistakes in the  *)
(* operator that follows them; nothing else uses one.                       *)

\* The child at which find() stops for one segment: the first of that name.
SlipFirstNamed(n, s) ==
  LET Hits == {i \in DOMAIN children[n] : Path(children[n][i]) = s}
  IN  IF Hits = {} THEN Null
      ELSE children[n][CHOOSE i \in Hits : \A j \in Hits : j <= i]
FirstNamed(n, s) ==
  LET Hits == {i \in DOMAIN children[n] : Path(children[n][i]) = s}
  IN  IF Hits = {} THEN Null
      ELSE children[n][CHOOSE i \in Hits : \A j \in Hits : i <= j]

\* find() stops at an empty tail, so it does not see the segment after the last
\* slash when that is empty.
Trimmed(q) == IF q # <<>> /\ q[Len(q)] = Empty THEN SubSeq(q, 1, Len(q) - 1) ELSE q

Find(n, q) ==
  LET t == Trimmed(q)
      at[k \in 0 .. Len(t)] == IF k = 0 THEN n
                               ELSE IF at[k - 1] = Null THEN Null
                               ELSE FirstNamed(at[k - 1], t[k])
  IN  at[Len(t)]

Segment(n) == IF Path(n) = Empty THEN <<>> ELSE <<Path(n)>>

FullPath(n) ==
  LET full[m \in Node] == IF parent[m] = Null \/ Kind(parent[m]) = "root"
                          THEN Segment(m)
                          ELSE full[parent[m]] \o Segment(m)
  IN  full[n]

RootOf(n) ==
  LET up[m \in Node] == IF parent[m] = Null THEN m ELSE up[parent[m]]
  IN  up[n]

----------------------------------------------------------------------------
(* Construction and ownership.                                              *)

\* The client makes a node with std::make_unique or a Python constructor.
Make(n, l) ==
  /\ n \notin alive
  /\ alive' = alive \cup {n}
  /\ label' = [label EXCEPT ![n] = l]
  /\ held' = held \cup {n}
  /\ UNCHANGED <<parent, children>>

\* A vector with c put before position i + 1, and one with position i erased.
Inserted(s, i, c) == SubSeq(s, 1, i) \o <<c>> \o SubSeq(s, i + 1, Len(s))
Erased(s, i) == SubSeq(s, 1, i - 1) \o SubSeq(s, i + 1, Len(s))

\* insert_child: the caller keeps idx within the vector, and does not move a
\* tree into itself.
InsertChild(p, idx, c) ==
  /\ c \in held
  /\ p \in alive \ Subtree(c)
  /\ idx \in 0 .. Len(children[p])
  /\ parent' = [parent EXCEPT ![c] = p]
  /\ children' = [children EXCEPT ![p] = Inserted(@, idx, c)]
  /\ held' = held \ {c}
  /\ UNCHANGED <<alive, label>>

AddChild(p, c) ==
  /\ c \in held
  /\ p \in alive \ Subtree(c)
  /\ parent' = [parent EXCEPT ![c] = p]
  /\ children' = [children EXCEPT ![p] = Append(@, c)]
  /\ held' = held \ {c}
  /\ UNCHANGED <<alive, label>>

\* remove_child hands the node it finds in the vector back to the caller; for
\* any other pointer it returns nullptr and changes nothing.
SlipDetached(c) == parent
Detached(c) == [parent EXCEPT ![c] = Null]

RemoveChild(p, c) ==
  /\ p \in alive
  /\ \E i \in DOMAIN children[p] :
       /\ children[p][i] = c
       /\ \A j \in 1 .. i - 1 : children[p][j] # c
       /\ children' = [children EXCEPT ![p] = Erased(@, i)]
  /\ parent' = Detached(c)
  /\ held' = held \cup {c}
  /\ UNCHANGED <<alive, label>>

\* A unique_ptr of the client goes out of scope: ~Node deletes the subtree.
SlipDoomed(h) == {h} \cup ChildSet(h)
Doomed(h) == Subtree(h)

Destroy(h) ==
  /\ h \in held
  /\ alive' = alive \ Doomed(h)
  /\ label' = [n \in Node |-> IF n \in Doomed(h) THEN Blank ELSE label[n]]
  /\ parent' = [n \in Node |-> IF n \in Doomed(h) THEN Null ELSE parent[n]]
  /\ children' = [n \in Node |-> IF n \in Doomed(h) THEN <<>> ELSE children[n]]
  /\ held' = held \ {h}

----------------------------------------------------------------------------
(* Cloning.                                                                 *)

\* What clone() copies below a node: Root::clone and Section::clone clone their
\* children in turn; those of a Field, a Comment or a Blank are left behind.
Containers == {"root", "section"}
ClonedRow(n) == IF Kind(n) \in Containers THEN children[n] ELSE <<>>
ClonedWith(D) == \A x \in D : Elements(ClonedRow(x)) \subseteq D
Cloned(n) == {m \in Node : \A D \in SUBSET Node : n \in D /\ ClonedWith(D) => m \in D}

\* Where a clone of c is put: one new address for each node that is cloned.
Copies(c) ==
  LET T == Cloned(c)
  IN  {f \in [T -> Node \ alive] : \A x, y \in T : f[x] = f[y] => x = y}
Image(f) == {f[x] : x \in DOMAIN f}
Original(f, y) == CHOOSE x \in DOMAIN f : f[x] = y

\* The vector of a clone: the clones of the children, in their order.
SlipShared(f, s) == s
SlipShort(f, s) == [i \in 1 .. Len(s) - 1 |-> f[s[i]]]
Copied(f, s) == [i \in DOMAIN s |-> f[s[i]]]

\* The clone f of c, owned by "owner", whose vector becomes "row".
CloneInto(c, f, owner, row) ==
  /\ alive' = alive \cup Image(f)
  /\ label' = [n \in Node |-> IF n \in Image(f) THEN label[Original(f, n)]
                              ELSE label[n]]
  /\ parent' = [n \in Node |-> IF n \notin Image(f) THEN parent[n]
                               ELSE IF n = f[c] THEN owner
                               ELSE f[parent[Original(f, n)]]]
  /\ children' = [n \in Node |->
       IF n \in Image(f) THEN Copied(f, ClonedRow(Original(f, n)))
       ELSE IF n = owner THEN row
       ELSE children[n]]

\* clone(): the caller holds the copy.
Clone(c) ==
  /\ c \in alive
  /\ \E f \in Copies(c) : /\ CloneInto(c, f, Null, <<>>)
                          /\ held' = held \cup {f[c]}

\* The bindings' insert_child and add_child: any node may be copied into any
\* node, even one below it, since the copy is complete before it is put there.
PyInsertChild(p, idx, c) ==
  /\ c \in alive /\ p \in alive
  /\ idx \in 0 .. Len(children[p])
  /\ UNCHANGED held
  /\ \E f \in Copies(c) : CloneInto(c, f, p, Inserted(children[p], idx, f[c]))

PyAddChild(p, c) ==
  /\ c \in alive /\ p \in alive
  /\ UNCHANGED held
  /\ \E f \in Copies(c) : CloneInto(c, f, p, Append(children[p], f[c]))

\* The bindings' remove_child: find() first, then the direct parent of what it
\* found.
PyRemoveChild(p, q) ==
  /\ p \in alive
  /\ q \notin {<<>>, <<Empty>>}
  /\ Find(p, q) # Null
  /\ parent[Find(p, q)] # Null
  /\ RemoveChild(parent[Find(p, q)], Find(p, q))

Next ==
  \/ \E n \in Node, l \in Label : Make(n, l)
  \/ \E p, c \in Node : AddChild(p, c)
  \/ \E p, c \in Node, idx \in 0 .. Cardinality(Node) : InsertChild(p, idx, c)
  \/ \E p, c \in Node : RemoveChild(p, c)
  \/ \E h \in Node : Destroy(h)
  \/ \E c \in Node : Clone(c)
  \/ \E p, c \in Node : PyAddChild(p, c)
  \/ \E p, c \in Node, idx \in 0 .. Cardinality(Node) : PyInsertChild(p, idx, c)
  \/ \E p \in Node, q \in RelPath : PyRemoveChild(p, q)

Spec == Init /\ [][Next]_vars

----------------------------------------------------------------------------
(* Properties.                                                              *)

\* Addresses, labels and vectors keep their types, and a freed address holds
\* nothing.
TypeOK ==
  /\ alive \subseteq Node
  /\ label \in [Node -> Label]
  /\ parent \in [Node -> Node \cup {Null}]
  /\ children \in [Node -> Seq(Node)]
  /\ held \subseteq alive
  /\ \A n \in Node \ alive : children[n] = <<>> /\ parent[n] = Null

\* Ownership (Node.h, "each node owns its children"): after any sequence of
\* moves, copies, removals and deletions a live node is owned exactly once,
\* by the client and then it has no parent, or by the vector of the node its
\* _parent points to; and no vector holds a node that was deleted.
OneOwner ==
  /\ \A p \in Node : /\ Distinct(children[p])
                      /\ \A c \in ChildSet(p) : c \in alive \ held /\ parent[c] = p
  /\ \A n \in alive : IF parent[n] = Null THEN n \in held
                      ELSE n \in ChildSet(parent[n])

\* Nothing leaks: every live node is at or below one the client owns, so no two
\* trees ever came to own each other and deleting them all deletes everything.
NoLeak ==
  \A D \in SUBSET Node : held \subseteq D /\ Closed(D) => alive \subseteq D

\* n is the first of its name among its siblings.
FirstOfName(n) ==
  LET row == children[parent[n]]
  IN  \A i, j \in DOMAIN row : row[i] = n /\ j < i => Path(row[j]) # Path(n)

\* What the client can name unambiguously: below a Root there are only
\* sections on the way, and each is the first of its name.
Reachable(n) ==
  LET ok[m \in Node] ==
        IF parent[m] = Null THEN Kind(m) = "root"
        ELSE IF Kind(m) \in Named /\ FirstOfName(m) THEN ok[parent[m]]
        ELSE FALSE
  IN  ok[n] /\ parent[n] # Null

\* fullpath() and find() are inverse: the root of a node finds it under the
\* path the node says it has, unless a namesake stands before it or before one
\* of its ancestors, and whatever else was moved, copied or removed.
FullPathFinds ==
  \A n \in alive : Reachable(n) => Find(RootOf(n), FullPath(n)) = n

\* The tree at n: labels, order and depth, where row[m] is what stands below m.
Laid(row, n) ==
  LET tree[m \in Node] == <<label[m], [i \in DOMAIN row[m] |-> tree[row[m][i]]]>>
  IN  tree[n]
Tree(n) == Laid(children, n)

\* The tree at n as render() walks it: Root::render and Section::render write what the
\* node holds, those of the other kinds do not.
ShownRows == [m \in Node |-> IF Kind(m) \in {"root", "section"} THEN children[m] ELSE <<>>]
Shown(n) == Laid(ShownRows, n)

\* A clone is what render() shows of its original, at every level and in order, and
\* nothing else: clone() and render() are written for each kind of node on its own,
\* and what one of them walks into the other must too.  This holds for the copy the
\* caller gets and for the one the bindings put into a tree, at the place they were
\* told, even when the node that takes it is itself in what is copied.
ClonesAreWhatIsShown ==
  [][\A c \in alive :
       /\ Clone(c) => \E n \in held' \ held : Tree(n)' = Shown(c)
       /\ \A p \in alive :
            /\ PyAddChild(p, c) =>
                 \E n \in alive' \ alive : /\ n = children'[p][Len(children'[p])]
                                          /\ Tree(n)' = Shown(c)
            /\ \A idx \in 0 .. Len(children[p]) : PyInsertChild(p, idx, c) =>
                 \E n \in alive' \ alive : n = children'[p][idx + 1] /\ Tree(n)' = Shown(c)]_vars
====
