---- MODULE NodeTree_proofs ----
(***************************************************************************)
(* Ownership and find() in NodeTree, for every set of addresses and names. *)
(***************************************************************************)
EXTENDS NodeTree, SequenceTheorems, Recursion, TLAPS

\* The inductive invariant: each part needs the others.  That a subtree can be
\* freed needs single owners, and that a moved tree stays under a held node
\* needs both.
Owned == TypeOK /\ OneOwner /\ NoLeak

----------------------------------------------------------------------------
(* Vectors                                                                  *)

LEMMA SubSeqOf ==
  ASSUME NEW S, NEW s \in Seq(S), NEW a \in 1 .. Len(s) + 1, NEW b \in 0 .. Len(s)
  PROVE  /\ SubSeq(s, a, b) \in Seq(S)
         /\ Len(SubSeq(s, a, b)) = IF a <= b THEN b - a + 1 ELSE 0
         /\ \A i \in 1 .. b - a + 1 : SubSeq(s, a, b)[i] = s[a + i - 1]
<1>1. \A i \in a .. b : s[i] \in S
  BY LenProperties
<1> QED BY <1>1, SubSeqProperties

\* Element k of the vector s with c put at position i + 1.
AfterInsert(s, i, c, k) == IF k <= i THEN s[k] ELSE IF k = i + 1 THEN c ELSE s[k - 1]

LEMMA InsertedProperties ==
  ASSUME NEW S, NEW s \in Seq(S), NEW i \in 0 .. Len(s), NEW c \in S
  PROVE  /\ Inserted(s, i, c) \in Seq(S)
         /\ Len(Inserted(s, i, c)) = Len(s) + 1
         /\ \A k \in 1 .. Len(s) + 1 : Inserted(s, i, c)[k] = AfterInsert(s, i, c, k)
<1> DEFINE front == SubSeq(s, 1, i)
           back == SubSeq(s, i + 1, Len(s))
           mid == front \o <<c>>
<1>0. Len(s) \in Nat
  BY LenProperties
<1>1. front \in Seq(S) /\ Len(front) = i /\ \A k \in 1 .. i : front[k] = s[k]
  <2>1. 1 \in 1 .. Len(s) + 1 /\ i \in 0 .. Len(s)
    BY <1>0
  <2> QED BY <2>1, SubSeqOf
<1>2. back \in Seq(S) /\ Len(back) = Len(s) - i
      /\ \A k \in 1 .. Len(s) - i : back[k] = s[i + k]
  <2>1. i + 1 \in 1 .. Len(s) + 1 /\ Len(s) \in 0 .. Len(s)
    BY <1>0
  <2> HIDE DEF back
  <2>2. /\ back \in Seq(S)
        /\ Len(back) = IF i + 1 <= Len(s) THEN Len(s) - (i + 1) + 1 ELSE 0
        /\ \A k \in 1 .. Len(s) - (i + 1) + 1 : back[k] = s[i + 1 + k - 1]
    BY <2>1, SubSeqOf DEF back
  <2> QED BY <1>0, <2>2
<1>3. <<c>> \in Seq(S) /\ Len(<<c>>) = 1 /\ <<c>>[1] = c
  OBVIOUS
<1>4. mid \in Seq(S) /\ Len(mid) = i + 1
      /\ \A k \in 1 .. i + 1 : mid[k] = IF k <= i THEN s[k] ELSE c
  <2>1. /\ mid \in Seq(S) /\ Len(mid) = Len(front) + Len(<<c>>)
        /\ \A k \in 1 .. Len(front) + Len(<<c>>) :
             mid[k] = IF k <= Len(front) THEN front[k] ELSE <<c>>[k - Len(front)]
    BY <1>1, <1>3, ConcatProperties
  <2> QED BY <1>0, <1>1, <1>3, <2>1
<1>5. /\ mid \o back \in Seq(S) /\ Len(mid \o back) = Len(mid) + Len(back)
      /\ \A k \in 1 .. Len(mid) + Len(back) :
           (mid \o back)[k] = IF k <= Len(mid) THEN mid[k] ELSE back[k - Len(mid)]
  BY <1>2, <1>4, ConcatProperties
<1>6. Inserted(s, i, c) = mid \o back
  BY DEF Inserted
<1> DEFINE whole == mid \o back
<1> HIDE DEF whole, mid, back, front
<1>7. Len(whole) = Len(s) + 1
  BY <1>0, <1>2, <1>4, <1>5 DEF whole
<1>8. ASSUME NEW k \in 1 .. Len(s) + 1
      PROVE  whole[k] = IF k <= i THEN s[k] ELSE IF k = i + 1 THEN c ELSE s[k - 1]
  <2>1. CASE k <= i + 1
    <3>1. k \in 1 .. i + 1 /\ k \in 1 .. Len(mid) + Len(back) /\ k <= Len(mid)
      BY <1>0, <1>2, <1>4, <2>1
    <3>2. whole[k] = mid[k]
      BY <1>5, <3>1 DEF whole
    <3> QED BY <1>0, <1>4, <3>1, <3>2
  <2>2. CASE k > i + 1
    <3>1. /\ k - (i + 1) \in 1 .. Len(s) - i /\ k \in 1 .. Len(mid) + Len(back)
          /\ ~(k <= Len(mid)) /\ i + (k - (i + 1)) = k - 1
      BY <1>0, <1>2, <1>4, <2>2
    <3>2. whole[k] = back[k - (i + 1)]
      BY <1>4, <1>5, <3>1 DEF whole
    <3>3. back[k - (i + 1)] = s[k - 1]
      BY <1>2, <3>1
    <3> QED BY <1>0, <2>2, <3>2, <3>3
  <2> QED BY <1>0, <2>1, <2>2
<1>9. whole \in Seq(S) /\ Inserted(s, i, c) = whole
  BY <1>5, <1>6 DEF whole
<1> QED BY <1>7, <1>8, <1>9 DEF AfterInsert

LEMMA ErasedProperties ==
  ASSUME NEW S, NEW s \in Seq(S), NEW i \in 1 .. Len(s)
  PROVE  /\ Erased(s, i) \in Seq(S)
         /\ Len(Erased(s, i)) = Len(s) - 1
         /\ \A k \in 1 .. Len(s) - 1 :
              Erased(s, i)[k] = IF k < i THEN s[k] ELSE s[k + 1]
<1> DEFINE front == SubSeq(s, 1, i - 1)
           back == SubSeq(s, i + 1, Len(s))
<1>0. Len(s) \in Nat
  BY LenProperties
<1>1. front \in Seq(S) /\ Len(front) = i - 1 /\ \A k \in 1 .. i - 1 : front[k] = s[k]
  <2>1. 1 \in 1 .. Len(s) + 1 /\ i - 1 \in 0 .. Len(s)
    BY <1>0
  <2> HIDE DEF front
  <2>2. /\ front \in Seq(S)
        /\ Len(front) = IF 1 <= i - 1 THEN i - 1 - 1 + 1 ELSE 0
        /\ \A k \in 1 .. i - 1 - 1 + 1 : front[k] = s[1 + k - 1]
    BY <2>1, SubSeqOf DEF front
  <2> QED BY <1>0, <2>2
<1>2. back \in Seq(S) /\ Len(back) = Len(s) - i
      /\ \A k \in 1 .. Len(s) - i : back[k] = s[i + k]
  <2>1. i + 1 \in 1 .. Len(s) + 1 /\ Len(s) \in 0 .. Len(s)
    BY <1>0
  <2> HIDE DEF back
  <2>2. /\ back \in Seq(S)
        /\ Len(back) = IF i + 1 <= Len(s) THEN Len(s) - (i + 1) + 1 ELSE 0
        /\ \A k \in 1 .. Len(s) - (i + 1) + 1 : back[k] = s[i + 1 + k - 1]
    BY <2>1, SubSeqOf DEF back
  <2> QED BY <1>0, <2>2
<1>3. /\ front \o back \in Seq(S) /\ Len(front \o back) = Len(front) + Len(back)
      /\ \A k \in 1 .. Len(front) + Len(back) :
           (front \o back)[k] = IF k <= Len(front) THEN front[k]
                                ELSE back[k - Len(front)]
  BY <1>1, <1>2, ConcatProperties
<1>4. Erased(s, i) = front \o back
  BY DEF Erased
<1> DEFINE whole == front \o back
<1> HIDE DEF whole, back, front
<1>5. Len(whole) = Len(s) - 1
  BY <1>0, <1>1, <1>2, <1>3 DEF whole
<1>6. ASSUME NEW k \in 1 .. Len(s) - 1
      PROVE  whole[k] = IF k < i THEN s[k] ELSE s[k + 1]
  <2>1. CASE k < i
    <3>1. k \in 1 .. i - 1 /\ k \in 1 .. Len(front) + Len(back) /\ k <= Len(front)
      BY <1>0, <1>1, <1>2, <2>1
    <3>2. whole[k] = front[k]
      BY <1>3, <3>1 DEF whole
    <3> QED BY <1>1, <2>1, <3>1, <3>2
  <2>2. CASE k >= i
    <3>1. /\ k - (i - 1) \in 1 .. Len(s) - i /\ k \in 1 .. Len(front) + Len(back)
          /\ ~(k <= Len(front)) /\ i + (k - (i - 1)) = k + 1
      BY <1>0, <1>1, <1>2, <2>2
    <3>2. whole[k] = back[k - (i - 1)]
      BY <1>1, <1>3, <3>1 DEF whole
    <3>3. back[k - (i - 1)] = s[k + 1]
      BY <1>2, <3>1
    <3> QED BY <1>0, <2>2, <3>2, <3>3
  <2> QED BY <1>0, <2>1, <2>2
<1> QED BY <1>3, <1>4, <1>5, <1>6 DEF whole

\* add_child is insert_child at the end.
LEMMA AppendIsInserted ==
  ASSUME NEW S, NEW s \in Seq(S), NEW c \in S
  PROVE  Append(s, c) = Inserted(s, Len(s), c) /\ Len(s) \in 0 .. Len(s)
<1>1. Len(s) \in 0 .. Len(s)
  BY LenProperties
<1>2. /\ Append(s, c) \in Seq(S) /\ Len(Append(s, c)) = Len(s) + 1
      /\ \A k \in 1 .. Len(s) + 1 : Append(s, c)[k] = IF k <= Len(s) THEN s[k] ELSE c
  BY <1>1
<1> DEFINE ins == Inserted(s, Len(s), c)
           app == Append(s, c)
<1>3. /\ ins \in Seq(S) /\ Len(ins) = Len(s) + 1
      /\ \A k \in 1 .. Len(s) + 1 :
           ins[k] = AfterInsert(s, Len(s), c, k)
  BY <1>1, InsertedProperties, Zenon
<1>4. app \in Seq(S) /\ Len(app) = Len(ins)
  BY <1>2, <1>3
<1>5. ASSUME NEW k \in 1 .. Len(app)
      PROVE  app[k] = ins[k]
  <2>1. k \in 1 .. Len(s) + 1 /\ (k <= Len(s) \/ k = Len(s) + 1)
    BY <1>1, <1>2
  <2>2. app[k] = IF k <= Len(s) THEN s[k] ELSE c
    BY <1>2, <2>1
  <2>3. ins[k] = IF k <= Len(s) THEN s[k] ELSE c
    BY <1>1, <1>3, <2>1 DEF AfterInsert
  <2> QED BY <2>2, <2>3
<1> HIDE DEF ins, app
<1>6. app = ins
  BY <1>3, <1>4, <1>5, SeqEqual
<1> QED BY <1>1, <1>6 DEF ins, app

LEMMA InsertedAt ==
  ASSUME NEW S, NEW s \in Seq(S), NEW i \in 0 .. Len(s), NEW c \in S
  PROVE  Inserted(s, i, c)[i + 1] = c
<1>1. Len(s) \in Nat /\ i + 1 \in 1 .. Len(s) + 1
  BY LenProperties
<1>2. Inserted(s, i, c)[i + 1] = AfterInsert(s, i, c, i + 1)
  BY <1>1, InsertedProperties, Zenon
<1>3. AfterInsert(s, i, c, i + 1) = c
  BY <1>1 DEF AfterInsert
<1> QED BY <1>2, <1>3

\* What a vector holds after insert_child and remove_child.
LEMMA InsertedRow ==
  ASSUME NEW s \in Seq(Node), NEW i \in 0 .. Len(s), NEW c \in Node,
         Distinct(s), c \notin Elements(s)
  PROVE  /\ Inserted(s, i, c) \in Seq(Node)
         /\ Elements(Inserted(s, i, c)) = Elements(s) \cup {c}
         /\ Distinct(Inserted(s, i, c))
<1> DEFINE t == Inserted(s, i, c)
<1>0. /\ t \in Seq(Node) /\ Len(t) = Len(s) + 1
      /\ \A k \in 1 .. Len(s) + 1 : t[k] = AfterInsert(s, i, c, k)
  BY InsertedProperties, Zenon
<1> HIDE DEF t
<1>1. /\ t \in Seq(Node) /\ Len(t) = Len(s) + 1
      /\ \A k \in 1 .. Len(s) + 1 :
           t[k] = IF k <= i THEN s[k] ELSE IF k = i + 1 THEN c ELSE s[k - 1]
  BY <1>0 DEF AfterInsert
<1>2. /\ Len(s) \in Nat /\ DOMAIN s = 1 .. Len(s)
      /\ DOMAIN t = 1 .. Len(s) + 1
  BY <1>1, LenProperties
<1>3. Elements(t) \subseteq Elements(s) \cup {c}
  <2>1. ASSUME NEW k \in 1 .. Len(s) + 1, t[k] # c
        PROVE  \E j \in 1 .. Len(s) : t[k] = s[j]
    <3>1. CASE k <= i
      BY <1>1, <1>2, <3>1
    <3>2. CASE k > i
      <4>1. k # i + 1 /\ t[k] = s[k - 1] /\ k - 1 \in 1 .. Len(s)
        BY <1>1, <1>2, <2>1, <3>2
      <4> QED BY <4>1
    <3> QED BY <1>2, <3>1, <3>2
  <2> QED BY <1>2, <2>1 DEF Elements
<1>4. c \in Elements(t)
  <2>1. i + 1 \in 1 .. Len(s) + 1 /\ t[i + 1] = c
    BY <1>1, <1>2
  <2> QED BY <1>2, <2>1 DEF Elements
<1>5. Elements(s) \subseteq Elements(t)
  <2>1. ASSUME NEW j \in 1 .. Len(s)
        PROVE  \E k \in 1 .. Len(s) + 1 : t[k] = s[j]
    <3>1. CASE j <= i
      BY <1>1, <1>2, <3>1
    <3>2. CASE j > i
      <4>1. j + 1 \in 1 .. Len(s) + 1 /\ t[j + 1] = s[j + 1 - 1] /\ j + 1 - 1 = j
        BY <1>1, <1>2, <3>2
      <4> QED BY <4>1
    <3> QED BY <1>2, <3>1, <3>2
  <2> QED BY <1>2, <2>1 DEF Elements
<1>6. Distinct(t)
  <2> SUFFICES ASSUME NEW k \in 1 .. Len(s) + 1, NEW l \in 1 .. Len(s) + 1, t[k] = t[l]
               PROVE  k = l
    BY <1>2 DEF Distinct
  <2>1. \A j \in 1 .. Len(s) : s[j] # c
    BY <1>2 DEF Elements
  <2>2. \A a, b \in 1 .. Len(s) : s[a] = s[b] => a = b
    BY <1>2 DEF Distinct
  <2> DEFINE from(x) == IF x <= i THEN x ELSE x - 1
  <2>3. ASSUME NEW x \in 1 .. Len(s) + 1
        PROVE  IF x = i + 1 THEN t[x] = c
               ELSE from(x) \in 1 .. Len(s) /\ t[x] = s[from(x)] /\ t[x] # c
    BY <1>1, <1>2, <2>1
  <2>4. CASE k = i + 1 \/ l = i + 1
    BY <2>3, <2>4
  <2>5. CASE k # i + 1 /\ l # i + 1
    <3>1. from(k) = from(l)
      BY <2>2, <2>3, <2>5
    <3> QED BY <1>2, <2>5, <3>1
  <2> QED BY <2>4, <2>5
<1> QED BY <1>1, <1>3, <1>4, <1>5, <1>6 DEF t

LEMMA ErasedRow ==
  ASSUME NEW s \in Seq(Node), NEW i \in DOMAIN s, Distinct(s)
  PROVE  /\ Erased(s, i) \in Seq(Node)
         /\ Elements(Erased(s, i)) = Elements(s) \ {s[i]}
         /\ Distinct(Erased(s, i))
<1> DEFINE t == Erased(s, i)
<1>0. Len(s) \in Nat /\ DOMAIN s = 1 .. Len(s) /\ i \in 1 .. Len(s)
  BY LenProperties
<1>1. /\ t \in Seq(Node) /\ Len(t) = Len(s) - 1
      /\ \A k \in 1 .. Len(s) - 1 : t[k] = IF k < i THEN s[k] ELSE s[k + 1]
  BY <1>0, ErasedProperties
<1> HIDE DEF t
<1>2. DOMAIN t = 1 .. Len(s) - 1
  BY <1>1, LenProperties
<1>3. \A a, b \in 1 .. Len(s) : s[a] = s[b] => a = b
  BY <1>0 DEF Distinct
<1> DEFINE from(x) == IF x < i THEN x ELSE x + 1
<1>4. ASSUME NEW x \in 1 .. Len(s) - 1
      PROVE  from(x) \in 1 .. Len(s) /\ from(x) # i /\ t[x] = s[from(x)]
  BY <1>0, <1>1
<1>5. Elements(t) \subseteq Elements(s) \ {s[i]}
  BY <1>0, <1>2, <1>3, <1>4 DEF Elements
<1>6. Elements(s) \ {s[i]} \subseteq Elements(t)
  <2>1. ASSUME NEW j \in 1 .. Len(s), s[j] # s[i]
        PROVE  \E k \in 1 .. Len(s) - 1 : t[k] = s[j]
    <3>1. CASE j < i
      BY <1>0, <1>1, <3>1
    <3>2. CASE j > i
      <4>1. j - 1 \in 1 .. Len(s) - 1 /\ t[j - 1] = s[j - 1 + 1] /\ j - 1 + 1 = j
        BY <1>0, <1>1, <3>2
      <4> QED BY <4>1
    <3> QED BY <1>0, <2>1, <3>1, <3>2
  <2> QED BY <1>0, <1>2, <2>1 DEF Elements
<1>7. Distinct(t)
  <2> SUFFICES ASSUME NEW k \in 1 .. Len(s) - 1, NEW l \in 1 .. Len(s) - 1, t[k] = t[l]
               PROVE  k = l
    BY <1>2 DEF Distinct
  <2>1. from(k) = from(l)
    BY <1>3, <1>4
  <2> QED BY <1>0, <2>1
<1> QED BY <1>1, <1>5, <1>6, <1>7 DEF t

----------------------------------------------------------------------------
(* Subtrees                                                                 *)

LEMMA SubtreeFacts ==
  ASSUME NEW n \in Node, children \in [Node -> Seq(Node)]
  PROVE  /\ n \in Subtree(n) /\ Subtree(n) \subseteq Node
         /\ Closed(Subtree(n))
         /\ \A D \in SUBSET Node : n \in D /\ Closed(D) => Subtree(n) \subseteq D
<1>1. n \in Subtree(n) /\ Subtree(n) \subseteq Node
  BY DEF Subtree
<1>2. \A D \in SUBSET Node : n \in D /\ Closed(D) => Subtree(n) \subseteq D
  BY DEF Subtree
<1>3. \A x \in Node : ChildSet(x) \subseteq Node
  <2> SUFFICES ASSUME NEW x \in Node, NEW i \in DOMAIN children[x]
               PROVE  children[x][i] \in Node
    BY DEF ChildSet, Elements
  <2>1. children[x] \in Seq(Node) /\ i \in 1 .. Len(children[x])
    BY LenProperties
  <2> QED BY <2>1, ElementOfSeq
<1>4. Closed(Subtree(n))
  BY <1>1, <1>3 DEF Subtree, Closed
<1> QED BY <1>1, <1>2, <1>4

LEMMA ChildrenAreNodes ==
  ASSUME TypeOK, OneOwner
  PROVE  \A x \in Node : ChildSet(x) \subseteq alive /\ ChildSet(x) \subseteq Node
BY DEF OneOwner, TypeOK

\* What is below a live node is alive.
LEMMA SubtreeAlive ==
  ASSUME TypeOK, OneOwner, NEW n \in alive
  PROVE  Subtree(n) \subseteq alive
<1>1. Closed(alive)
  BY ChildrenAreNodes DEF Closed, TypeOK
<1> QED BY <1>1, SubtreeFacts DEF TypeOK

\* Below the node at the top of a subtree, every member's parent is a member.
LEMMA ParentWithin ==
  ASSUME TypeOK, OneOwner, NEW n \in Node, NEW p \in Node, NEW x \in ChildSet(p),
         x \in Subtree(n), x # n
  PROVE  p \in Subtree(n)
<1> SUFFICES ASSUME p \notin Subtree(n) PROVE FALSE
  OBVIOUS
<1> DEFINE D == Subtree(n) \ {x}
<1>1. /\ n \in Subtree(n) /\ Subtree(n) \subseteq Node /\ Closed(Subtree(n))
      /\ \A E \in SUBSET Node : n \in E /\ Closed(E) => Subtree(n) \subseteq E
  BY SubtreeFacts DEF TypeOK
<1>2. Closed(D)
  <2> SUFFICES ASSUME NEW y \in D, NEW c \in ChildSet(y), c \notin D PROVE FALSE
    BY DEF Closed
  <2>1. c \in Subtree(n) /\ c = x
    BY <1>1 DEF Closed
  <2>2. parent[x] = y /\ parent[x] = p
    BY <1>1, <2>1 DEF OneOwner
  <2> QED BY <2>2
<1> QED BY <1>1, <1>2

----------------------------------------------------------------------------
(* Moves                                                                    *)

LEMMA Labels == Blank \in Label
BY DEF Blank, Label, Nameless

LEMMA RowType ==
  ASSUME TypeOK, OneOwner, NEW p \in Node
  PROVE  /\ children[p] \in Seq(Node) /\ Distinct(children[p])
         /\ ChildSet(p) = Elements(children[p])
         /\ DOMAIN children[p] = 1 .. Len(children[p]) /\ Len(children[p]) \in Nat
BY LenProperties DEF TypeOK, OneOwner, ChildSet

\* c, owned by the client, becomes a child of p, which is not below it.  What
\* was kept by c alone is now kept by whatever keeps p.
LEMMA InsertOwned ==
  ASSUME Owned, NEW p \in Node, NEW c \in Node, NEW idx \in 0 .. Len(children[p]),
         InsertChild(p, idx, c)
  PROVE  Owned'
<1> USE DEF Owned
<1>1. /\ c \in held /\ c \in alive /\ p \in alive /\ p \notin Subtree(c)
      /\ alive' = alive /\ label' = label /\ held' = held \ {c}
      /\ parent' = [parent EXCEPT ![c] = p]
      /\ children' = [children EXCEPT ![p] = Inserted(children[p], idx, c)]
  BY DEF InsertChild, TypeOK
<1>2. \A x \in Node : c \notin ChildSet(x)
  BY <1>1 DEF OneOwner
<1>3. /\ Inserted(children[p], idx, c) \in Seq(Node)
      /\ Elements(Inserted(children[p], idx, c)) = ChildSet(p) \cup {c}
      /\ Distinct(Inserted(children[p], idx, c))
  <2>1. children[p] \in Seq(Node) /\ Distinct(children[p]) /\ c \notin Elements(children[p])
    BY <1>2 DEF TypeOK, OneOwner, ChildSet
  <2> QED BY <2>1, InsertedRow DEF ChildSet
<1>4. ASSUME NEW x \in Node
      PROVE  /\ Elements(children'[x]) = IF x = p THEN ChildSet(p) \cup {c} ELSE ChildSet(x)
             /\ Distinct(children'[x])
  <2>1. CASE x = p
    <3>1. children'[x] = Inserted(children[p], idx, c)
      BY <1>1, <2>1 DEF TypeOK
    <3> QED BY <1>3, <2>1, <3>1
  <2>2. CASE x # p
    <3>1. children'[x] = children[x]
      BY <1>1, <2>2 DEF TypeOK
    <3> QED BY <2>2, <3>1 DEF ChildSet, OneOwner
  <2> QED BY <2>1, <2>2
<1>5. TypeOK'
  <2>1. children' \in [Node -> Seq(Node)]
    BY <1>1, <1>3 DEF TypeOK
  <2> QED BY <1>1, <2>1 DEF TypeOK
<1>6. OneOwner'
  <2>1. ASSUME NEW x \in Node, NEW y \in Elements(children'[x])
        PROVE  y \in alive' \ held' /\ parent'[y] = x
    <3>1. CASE y = c
      <4>1. x = p
        BY <1>2, <1>4, <3>1
      <4> QED BY <1>1, <3>1, <4>1 DEF TypeOK
    <3>2. CASE y # c
      <4>1. y \in ChildSet(x)
        BY <1>4, <3>2
      <4> QED BY <1>1, <3>2, <4>1 DEF OneOwner, TypeOK
    <3> QED BY <3>1, <3>2
  <2>2. ASSUME NEW n \in alive'
        PROVE  IF parent'[n] = Null THEN n \in held'
               ELSE n \in Elements(children'[parent'[n]])
    <3>1. CASE n = c
      BY <1>1, <1>4, <3>1, NullAssumption DEF TypeOK
    <3>2. CASE n # c
      <4>1. parent'[n] = parent[n] /\ n \in alive
        BY <1>1, <3>2 DEF TypeOK
      <4>2. CASE parent[n] = Null
        BY <1>1, <3>2, <4>1, <4>2 DEF OneOwner
      <4>3. CASE parent[n] # Null
        <5>1. n \in ChildSet(parent[n]) /\ parent[n] \in Node
          BY <4>1, <4>3 DEF OneOwner, TypeOK
        <5> QED BY <1>4, <4>1, <4>3, <5>1
      <4> QED BY <4>2, <4>3
    <3> QED BY <3>1, <3>2
  <2>3. \A x \in Node : Distinct(children'[x])
    BY <1>4
  <2> QED BY <2>1, <2>2, <2>3 DEF OneOwner, ChildSet
<1>7. NoLeak'
  <2> SUFFICES ASSUME NEW D \in SUBSET Node, held' \subseteq D, Closed(D)'
               PROVE  alive \subseteq D
    BY <1>1 DEF NoLeak
  <2>1. /\ c \in Subtree(c) /\ Subtree(c) \subseteq Node /\ Closed(Subtree(c))
        /\ \A E \in SUBSET Node : c \in E /\ Closed(E) => Subtree(c) \subseteq E
    BY SubtreeFacts DEF TypeOK
  <2>2. Closed(D)
    BY <1>4 DEF Closed, ChildSet
  <2>3. Closed(D \cup Subtree(c)) /\ held \subseteq D \cup Subtree(c)
    BY <1>1, <2>1, <2>2 DEF Closed
  <2>4. alive \subseteq D \cup Subtree(c)
    BY <2>1, <2>3 DEF NoLeak
  <2>5. p \in D
    BY <1>1, <2>4
  <2>6. c \in D
    BY <1>4, <2>5 DEF Closed, ChildSet
  <2> QED BY <2>1, <2>2, <2>4, <2>6
<1> QED BY <1>5, <1>6, <1>7

LEMMA AddOwned ==
  ASSUME Owned, NEW p \in Node, NEW c \in Node, AddChild(p, c)
  PROVE  Owned'
<1>1. children[p] \in Seq(Node)
  BY DEF Owned, TypeOK
<1>2. /\ Append(children[p], c) = Inserted(children[p], Len(children[p]), c)
      /\ Len(children[p]) \in 0 .. Len(children[p])
  BY <1>1, AppendIsInserted
<1>3. InsertChild(p, Len(children[p]), c)
  BY <1>2 DEF AddChild, InsertChild, Owned, TypeOK
<1> QED BY <1>2, <1>3, InsertOwned

\* remove_child turns a child into a tree the client owns.
LEMMA RemoveOwned ==
  ASSUME Owned, NEW p \in Node, NEW c \in Node, RemoveChild(p, c)
  PROVE  Owned'
<1> USE DEF Owned
<1>1. PICK i \in DOMAIN children[p] :
        children[p][i] = c /\ children' = [children EXCEPT ![p] = Erased(children[p], i)]
  BY DEF RemoveChild
<1>2. /\ p \in alive
      /\ alive' = alive /\ label' = label /\ held' = held \cup {c}
      /\ parent' = [parent EXCEPT ![c] = Null]
  BY DEF RemoveChild, Detached
<1>3. c \in ChildSet(p) /\ c \in alive \ held /\ parent[c] = p
  BY <1>1 DEF ChildSet, Elements, OneOwner
<1>4. /\ Erased(children[p], i) \in Seq(Node)
      /\ Elements(Erased(children[p], i)) = ChildSet(p) \ {c}
      /\ Distinct(Erased(children[p], i))
  <2>1. children[p] \in Seq(Node) /\ Distinct(children[p])
    BY DEF TypeOK, OneOwner
  <2> QED BY <1>1, <2>1, ErasedRow DEF ChildSet
<1>5. ASSUME NEW x \in Node
      PROVE  /\ Elements(children'[x]) = ChildSet(x) \ {c}
             /\ Distinct(children'[x])
  <2>1. CASE x = p
    BY <1>1, <1>4, <2>1 DEF ChildSet, TypeOK
  <2>2. CASE x # p
    <3>1. children'[x] = children[x]
      BY <1>1, <2>2 DEF TypeOK
    <3>2. c \notin ChildSet(x)
      BY <1>3, <2>2 DEF OneOwner
    <3> QED BY <3>1, <3>2 DEF ChildSet, OneOwner
  <2> QED BY <2>1, <2>2
<1>6. TypeOK'
  <2>1. children' \in [Node -> Seq(Node)]
    BY <1>1, <1>4 DEF TypeOK
  <2>2. ASSUME NEW n \in Node \ alive'
        PROVE  children'[n] = <<>> /\ parent'[n] = Null
    <3>1. n \notin alive /\ n # p /\ n # c
      BY <1>2, <1>3
    <3> QED BY <1>1, <1>2, <3>1 DEF TypeOK
  <2> QED BY <1>2, <1>3, <2>1, <2>2 DEF TypeOK
<1>7. OneOwner'
  <2>1. ASSUME NEW x \in Node, NEW y \in Elements(children'[x])
        PROVE  y \in alive' \ held' /\ parent'[y] = x
    BY <1>2, <1>5 DEF OneOwner, TypeOK
  <2>2. ASSUME NEW n \in alive'
        PROVE  IF parent'[n] = Null THEN n \in held'
               ELSE n \in Elements(children'[parent'[n]])
    <3>1. CASE n = c
      BY <1>2, <3>1 DEF TypeOK
    <3>2. CASE n # c
      <4>1. parent'[n] = parent[n] /\ n \in alive
        BY <1>2, <3>2 DEF TypeOK
      <4>2. CASE parent[n] = Null
        BY <1>2, <4>1, <4>2 DEF OneOwner
      <4>3. CASE parent[n] # Null
        <5>1. n \in ChildSet(parent[n]) /\ parent[n] \in Node
          BY <4>1, <4>3 DEF OneOwner, TypeOK
        <5> QED BY <1>5, <3>2, <4>1, <4>3, <5>1
      <4> QED BY <4>2, <4>3
    <3> QED BY <3>1, <3>2
  <2>3. \A x \in Node : Distinct(children'[x])
    BY <1>5
  <2> QED BY <2>1, <2>2, <2>3 DEF OneOwner, ChildSet
<1>8. NoLeak'
  <2> SUFFICES ASSUME NEW D \in SUBSET Node, held' \subseteq D, Closed(D)'
               PROVE  alive \subseteq D
    BY <1>2 DEF NoLeak
  <2>1. Closed(D)
    BY <1>2, <1>5 DEF Closed, ChildSet
  <2> QED BY <1>2, <2>1 DEF NoLeak
<1> QED BY <1>6, <1>7, <1>8

\* ~Node: nothing outside the subtree points into it, and nothing that stays was
\* kept by it.
LEMMA DestroyOwned ==
  ASSUME Owned, NEW h \in Node, Destroy(h)
  PROVE  Owned'
<1> USE DEF Owned
<1> DEFINE T == Subtree(h)
<1>1. /\ h \in held /\ h \in alive
      /\ alive' = alive \ T /\ held' = held \ {h}
      /\ label' = [n \in Node |-> IF n \in T THEN Blank ELSE label[n]]
      /\ parent' = [n \in Node |-> IF n \in T THEN Null ELSE parent[n]]
      /\ children' = [n \in Node |-> IF n \in T THEN <<>> ELSE children[n]]
  BY DEF Destroy, Doomed, TypeOK
<1>2. h \in T /\ T \subseteq alive /\ T \subseteq Node /\ Closed(T)
  BY <1>1, SubtreeFacts, SubtreeAlive DEF TypeOK
<1>3. \A x \in Node : \A y \in ChildSet(x) : y \in T => x \in T
  <2> SUFFICES ASSUME NEW x \in Node, NEW y \in ChildSet(x), y \in T PROVE x \in T
    OBVIOUS
  <2>1. y # h
    BY <1>1 DEF OneOwner
  <2> QED BY <2>1, ParentWithin
<1> HIDE DEF T
<1>4. ASSUME NEW x \in Node
      PROVE  Elements(children'[x]) = IF x \in T THEN {} ELSE ChildSet(x)
  <2>1. CASE x \in T
    BY <1>1, <2>1 DEF ChildSet, Elements
  <2>2. CASE x \notin T
    BY <1>1, <2>2 DEF ChildSet
  <2> QED BY <2>1, <2>2
<1>5. TypeOK'
  <2>1. label' \in [Node -> Label]
    BY <1>1, Labels DEF TypeOK
  <2>2. children' \in [Node -> Seq(Node)]
    BY <1>1, EmptySeq DEF TypeOK
  <2>3. parent' \in [Node -> Node \cup {Null}]
    BY <1>1 DEF TypeOK
  <2>4. held' \subseteq alive'
    <3> SUFFICES ASSUME NEW n \in held, n # h, n \in T PROVE FALSE
      BY <1>1 DEF TypeOK
    <3>1. ~ \E x \in Node : n \in ChildSet(x)
      BY DEF OneOwner
    <3>2. Closed(T \ {n}) /\ h \in T \ {n}
      BY <1>2, <3>1 DEF Closed
    <3>3. T \subseteq T \ {n}
      BY <1>2, <3>2, SubtreeFacts DEF T, TypeOK
    <3> QED BY <3>3
  <2>5. \A n \in Node \ alive' : children'[n] = <<>> /\ parent'[n] = Null
    BY <1>1 DEF TypeOK
  <2> QED BY <1>1, <2>1, <2>2, <2>3, <2>4, <2>5 DEF TypeOK
<1>6. OneOwner'
  <2>1. ASSUME NEW x \in Node, NEW y \in Elements(children'[x])
        PROVE  y \in alive' \ held' /\ parent'[y] = x
    <3>1. x \notin T /\ y \in ChildSet(x)
      BY <1>4
    <3>2. y \in alive \ held /\ parent[y] = x /\ y \notin T
      BY <1>3, <3>1 DEF OneOwner
    <3> QED BY <1>1, <3>2 DEF TypeOK
  <2>2. ASSUME NEW n \in alive'
        PROVE  IF parent'[n] = Null THEN n \in held'
               ELSE n \in Elements(children'[parent'[n]])
    <3>1. n \in alive /\ n \in Node /\ n \notin T /\ parent'[n] = parent[n]
      BY <1>1 DEF TypeOK
    <3>2. CASE parent[n] = Null
      BY <1>1, <1>2, <3>1, <3>2 DEF OneOwner
    <3>3. CASE parent[n] # Null
      <4>1. n \in ChildSet(parent[n]) /\ parent[n] \in Node
        BY <3>1, <3>3 DEF OneOwner, TypeOK
      <4>2. parent[n] \notin T
        BY <1>2, <3>1, <4>1 DEF Closed
      <4> QED BY <1>4, <3>1, <3>3, <4>1, <4>2
    <3> QED BY <3>2, <3>3
  <2>3. ASSUME NEW x \in Node
        PROVE  Distinct(children'[x])
    <3>1. CASE x \in T
      BY <1>1, <3>1 DEF Distinct
    <3>2. CASE x \notin T
      BY <1>1, <3>2 DEF OneOwner
    <3> QED BY <3>1, <3>2
  <2> QED BY <2>1, <2>2, <2>3 DEF OneOwner, ChildSet
<1>7. NoLeak'
  <2> SUFFICES ASSUME NEW D \in SUBSET Node, held' \subseteq D, Closed(D)'
               PROVE  alive' \subseteq D
    BY DEF NoLeak
  <2>1. Closed(D \cup T)
    <3> SUFFICES ASSUME NEW x \in D, x \notin T PROVE ChildSet(x) \subseteq D
      BY <1>2 DEF Closed
    <3> QED BY <1>4 DEF Closed, ChildSet
  <2>2. held \subseteq D \cup T
    BY <1>1, <1>2
  <2>3. alive \subseteq D \cup T
    BY <1>2, <2>1, <2>2 DEF NoLeak
  <2> QED BY <1>1, <2>3
<1> QED BY <1>5, <1>6, <1>7

----------------------------------------------------------------------------
(* Copies                                                                   *)

\* Inside a subtree every node but its top hangs from another member of it.
LEMMA ParentInside ==
  ASSUME TypeOK, OneOwner, NEW n \in alive, NEW x \in Subtree(n), x # n
  PROVE  parent[x] \in Subtree(n) /\ x \in ChildSet(parent[x])
<1>1. /\ n \in Subtree(n) /\ Subtree(n) \subseteq Node /\ Closed(Subtree(n))
      /\ \A E \in SUBSET Node : n \in E /\ Closed(E) => Subtree(n) \subseteq E
  BY SubtreeFacts DEF TypeOK
<1>2. x \in alive /\ n \in Node
  BY SubtreeAlive DEF TypeOK
<1>3. CASE parent[x] = Null
  <2>1. \A y \in Node : x \notin ChildSet(y)
    BY <1>2, <1>3 DEF OneOwner
  <2>2. Closed(Subtree(n) \ {x}) /\ n \in Subtree(n) \ {x}
    BY <1>1, <2>1 DEF Closed
  <2>3. Subtree(n) \subseteq Subtree(n) \ {x}
    BY <1>1, <2>2
  <2> QED BY <2>3
<1>4. CASE parent[x] # Null
  <2>1. x \in ChildSet(parent[x]) /\ parent[x] \in Node
    BY <1>2, <1>4 DEF OneOwner, TypeOK
  <2> QED BY <1>2, <2>1, ParentWithin
<1> QED BY <1>3, <1>4

\* No live node hangs below itself: a cycle would be owned by nobody outside it.
LEMMA NoCycle ==
  ASSUME Owned, NEW c \in alive, NEW u \in Subtree(c)
  PROVE  c \notin ChildSet(u)
<1> USE DEF Owned
<1> SUFFICES ASSUME c \in ChildSet(u) PROVE FALSE
  OBVIOUS
<1> DEFINE D == alive \ Subtree(c)
<1>1. c \in Subtree(c) /\ Subtree(c) \subseteq Node /\ c \in Node /\ D \in SUBSET Node
  BY SubtreeFacts DEF TypeOK
<1>2. parent[c] = u /\ u \in Node /\ c \notin held
  BY <1>1 DEF OneOwner
<1>3. held \subseteq D
  <2> SUFFICES ASSUME NEW h \in held, h \in Subtree(c) PROVE FALSE
    BY DEF TypeOK
  <2>1. h # c
    BY <1>2
  <2>2. h \in ChildSet(parent[h]) /\ parent[h] \in Node
    BY <1>1, <2>1, ParentInside
  <2> QED BY <2>2 DEF OneOwner
<1>4. Closed(D)
  <2> SUFFICES ASSUME NEW x \in D, NEW y \in ChildSet(x), y \in Subtree(c) PROVE FALSE
    BY ChildrenAreNodes DEF Closed, TypeOK
  <2>1. x \in Node /\ parent[y] = x
    BY DEF OneOwner, TypeOK
  <2>2. y # c
    BY <1>2, <2>1
  <2>3. x \in Subtree(c)
    BY <1>1, <2>1, <2>2, ParentInside
  <2> QED BY <2>3
<1>5. alive \subseteq D
  BY <1>1, <1>3, <1>4 DEF NoLeak
<1> QED BY <1>1, <1>5

\* What clone() copies is part of what stands below the node, and hangs together.
LEMMA ClonedFacts ==
  ASSUME Owned, NEW c \in alive
  PROVE  /\ c \in Cloned(c) /\ Cloned(c) \subseteq Node /\ Cloned(c) \subseteq Subtree(c)
         /\ Cloned(c) \subseteq alive /\ ClonedWith(Cloned(c))
         /\ \A D \in SUBSET Node : c \in D /\ ClonedWith(D) => Cloned(c) \subseteq D
<1> USE DEF Owned
<1>1. c \in Node /\ c \in Cloned(c) /\ Cloned(c) \subseteq Node
  BY DEF Cloned, TypeOK
<1>2. \A D \in SUBSET Node : c \in D /\ ClonedWith(D) => Cloned(c) \subseteq D
  BY DEF Cloned
<1>3. \A x \in Node : Elements(ClonedRow(x)) \subseteq ChildSet(x)
  BY DEF ClonedRow, ChildSet, Elements
<1>4. ClonedWith(Cloned(c))
  <2> SUFFICES ASSUME NEW x \in Cloned(c), NEW y \in Elements(ClonedRow(x))
               PROVE  y \in Cloned(c)
    BY DEF ClonedWith
  <2>1. y \in Node
    BY <1>1, <1>3, ChildrenAreNodes
  <2>2. ASSUME NEW D \in SUBSET Node, c \in D, ClonedWith(D) PROVE y \in D
    <3>1. x \in D
      BY <1>2, <2>2
    <3> QED BY <2>2, <3>1 DEF ClonedWith
  <2> QED BY <2>1, <2>2 DEF Cloned
<1>5. Cloned(c) \subseteq Subtree(c)
  <2>1. c \in Subtree(c) /\ Subtree(c) \in SUBSET Node /\ Closed(Subtree(c))
    BY <1>1, SubtreeFacts DEF TypeOK
  <2>2. ClonedWith(Subtree(c))
    BY <1>3, <2>1 DEF ClonedWith, Closed
  <2> QED BY <1>2, <2>1, <2>2
<1> QED BY <1>1, <1>2, <1>4, <1>5, SubtreeAlive

\* Each node that is cloned below the top stands in a vector that is cloned.
LEMMA ClonedParent ==
  ASSUME Owned, NEW c \in alive, NEW x \in Cloned(c), x # c
  PROVE  parent[x] \in Cloned(c) /\ x \in Elements(ClonedRow(parent[x]))
<1>1. PICK u \in Cloned(c) : x \in Elements(ClonedRow(u))
  <2> SUFFICES ASSUME \A u \in Cloned(c) : x \notin Elements(ClonedRow(u)) PROVE FALSE
    OBVIOUS
  <2>1. ClonedWith(Cloned(c) \ {x}) /\ c \in Cloned(c) \ {x}
    BY ClonedFacts DEF ClonedWith
  <2>2. Cloned(c) \subseteq Cloned(c) \ {x}
    BY <2>1, ClonedFacts
  <2> QED BY <2>2
<1>2. x \in ChildSet(u) /\ u \in Node
  BY <1>1, ClonedFacts DEF ClonedRow, ChildSet, Elements
<1>3. parent[x] = u
  BY <1>2 DEF Owned, OneOwner
<1> QED BY <1>1, <1>3

LEMMA CopiedRow ==
  ASSUME NEW T \in SUBSET Node, NEW f \in [T -> Node], NEW s \in Seq(Node),
         Elements(s) \subseteq T, Distinct(s),
         \A x, y \in T : f[x] = f[y] => x = y
  PROVE  /\ Copied(f, s) \in Seq(Node)
         /\ Elements(Copied(f, s)) = {f[x] : x \in Elements(s)}
         /\ Distinct(Copied(f, s))
<1>1. Len(s) \in Nat /\ DOMAIN s = 1 .. Len(s)
  BY LenProperties
<1>2. \A i \in 1 .. Len(s) : s[i] \in T
  BY <1>1 DEF Elements
<1>3. Copied(f, s) = [i \in 1 .. Len(s) |-> f[s[i]]]
  BY <1>1 DEF Copied
<1>4. Copied(f, s) \in [1 .. Len(s) -> Node]
  BY <1>2, <1>3
<1>5. Copied(f, s) \in Seq(Node)
  BY <1>1, <1>4
<1>6. Elements(Copied(f, s)) = {f[x] : x \in Elements(s)}
  BY <1>1, <1>2, <1>3 DEF Elements
<1>7. Distinct(Copied(f, s))
  BY <1>1, <1>2, <1>3 DEF Distinct
<1> QED BY <1>5, <1>6, <1>7

\* A clone, put where "owner" says: what it copied stays as it was, and the copy
\* hangs together as the original does.
LEMMA CopyOwned ==
  ASSUME Owned, NEW c \in alive, NEW f \in Copies(c), NEW owner \in alive \cup {Null},
         NEW row \in Seq(Node), CloneInto(c, f, owner, row),
         IF owner = Null THEN held' = held \cup {f[c]}
         ELSE held' = held /\ Distinct(row)
              /\ Elements(row) = ChildSet(owner) \cup {f[c]}
  PROVE  Owned'
<1> USE DEF Owned
<1> DEFINE T == Cloned(c)
           Row(x) == Elements(ClonedRow(x))
           I == Image(f)
<1>1. /\ c \in T /\ T \subseteq Node /\ T \subseteq alive /\ ClonedWith(T)
      /\ \A E \in SUBSET Node : c \in E /\ ClonedWith(E) => T \subseteq E
      /\ T \subseteq Subtree(c)
  BY ClonedFacts
<1>2. /\ f \in [T -> Node \ alive] /\ DOMAIN f = T
      /\ \A x, y \in T : f[x] = f[y] => x = y
  BY DEF Copies
<1>3. \A x \in T : f[x] \in I /\ Original(f, f[x]) = x
  BY <1>2 DEF Image, Original
<1>4. I \subseteq Node \ alive /\ \A n \in I : \E x \in T : n = f[x]
  BY <1>2 DEF Image
<1>5. owner # Null => owner \in Node \ I
  BY <1>4 DEF TypeOK
<1>6. \A x \in T \ {c} : parent[x] \in T /\ x \in Row(parent[x])
  BY ClonedParent
<1>7. \A x \in T : /\ Row(x) \subseteq ChildSet(x) /\ Row(x) \subseteq T /\ c \notin Row(x)
                   /\ ClonedRow(x) \in Seq(Node) /\ Distinct(ClonedRow(x))
  <2> SUFFICES ASSUME NEW x \in T
               PROVE  /\ Row(x) \subseteq ChildSet(x) /\ Row(x) \subseteq T /\ c \notin Row(x)
                      /\ ClonedRow(x) \in Seq(Node) /\ Distinct(ClonedRow(x))
    OBVIOUS
  <2>1. x \in Node /\ x \in Subtree(c)
    BY <1>1
  <2>2. c \notin ChildSet(x)
    BY <2>1, NoCycle
  <2>3. Row(x) \subseteq ChildSet(x)
    BY DEF ClonedRow, ChildSet, Elements
  <2>4. Row(x) \subseteq T
    BY <1>1 DEF ClonedWith
  <2>5. ClonedRow(x) \in Seq(Node) /\ Distinct(ClonedRow(x))
    BY <2>1, EmptySeq DEF ClonedRow, TypeOK, OneOwner, Distinct
  <2> QED BY <2>2, <2>3, <2>4, <2>5
<1> HIDE DEF T, I, Row
<1>8. ASSUME NEW x \in T
      PROVE  /\ children'[f[x]] \in Seq(Node) /\ Distinct(children'[f[x]])
             /\ Elements(children'[f[x]]) = {f[y] : y \in Row(x)}
             /\ parent'[f[x]] = IF x = c THEN owner ELSE f[parent[x]]
             /\ label'[f[x]] = label[x]
  <2>1. f[x] \in I /\ f[x] \in Node /\ Original(f, f[x]) = x /\ x \in Node
    BY <1>1, <1>2, <1>3
  <2>2. f[x] = f[c] <=> x = c
    BY <1>1, <1>2
  <2>3. children'[f[x]] = Copied(f, ClonedRow(x))
    BY <2>1 DEF CloneInto, I
  <2>4. /\ ClonedRow(x) \in Seq(Node) /\ Distinct(ClonedRow(x))
        /\ Elements(ClonedRow(x)) \subseteq T
    BY <1>7 DEF Row
  <2>5. f \in [T -> Node] /\ T \in SUBSET Node
    BY <1>1, <1>2
  <2>6. /\ Copied(f, ClonedRow(x)) \in Seq(Node) /\ Distinct(Copied(f, ClonedRow(x)))
        /\ Elements(Copied(f, ClonedRow(x))) = {f[y] : y \in Elements(ClonedRow(x))}
    BY <1>2, <2>4, <2>5, CopiedRow
  <2>7. parent'[f[x]] = IF x = c THEN owner ELSE f[parent[x]]
    BY <2>1, <2>2 DEF CloneInto, I
  <2>8. label'[f[x]] = label[x]
    BY <2>1 DEF CloneInto, I
  <2> QED BY <2>3, <2>6, <2>7, <2>8 DEF Row
<1>9. ASSUME NEW n \in Node \ I
      PROVE  /\ children'[n] = IF n = owner THEN row ELSE children[n]
             /\ parent'[n] = parent[n] /\ label'[n] = label[n]
  BY DEF CloneInto, I
<1>10. ASSUME NEW n \in Node \ I
       PROVE  /\ children'[n] \in Seq(Node) /\ Distinct(children'[n])
              /\ Elements(children'[n]) = IF n = owner THEN ChildSet(n) \cup {f[c]}
                                          ELSE ChildSet(n)
  <2>1. CASE n = owner
    <3>1. owner # Null
      BY <2>1, NullAssumption
    <3> QED BY <1>9, <2>1, <3>1
  <2>2. CASE n # owner
    BY <1>9, <2>2 DEF TypeOK, OneOwner, ChildSet
  <2> QED BY <2>1, <2>2
<1>11. alive' = alive \cup I /\ alive' \subseteq Node
  BY <1>4 DEF CloneInto, TypeOK, I
<1>12. f[c] \in I /\ held \subseteq held' /\ held' \subseteq held \cup {f[c]}
       /\ (owner # Null => held' = held)
  BY <1>1, <1>3
<1>13. TypeOK'
  <2>1. ASSUME NEW n \in Node
        PROVE  /\ label'[n] \in Label /\ parent'[n] \in Node \cup {Null}
               /\ children'[n] \in Seq(Node)
    <3>1. CASE n \in I
      <4>1. PICK x \in T : n = f[x]
        BY <1>4, <3>1
      <4>2. label'[n] \in Label /\ children'[n] \in Seq(Node)
        BY <1>1, <1>8, <4>1 DEF TypeOK
      <4>3. parent'[n] \in Node \cup {Null}
        BY <1>2, <1>5, <1>6, <1>8, <4>1
      <4> QED BY <4>2, <4>3
    <3>2. CASE n \notin I
      <4>1. n \in Node \ I
        BY <3>2
      <4>2. label'[n] = label[n] /\ parent'[n] = parent[n]
        BY <1>9, <4>1
      <4>3. children'[n] \in Seq(Node)
        BY <1>10, <4>1
      <4> QED BY <4>2, <4>3 DEF TypeOK
    <3> QED BY <3>1, <3>2
  <2>2. /\ label' \in [Node -> Label] /\ parent' \in [Node -> Node \cup {Null}]
        /\ children' \in [Node -> Seq(Node)]
    <3>1. label' = [n \in Node |-> label'[n]] /\ parent' = [n \in Node |-> parent'[n]]
          /\ children' = [n \in Node |-> children'[n]]
      BY DEF CloneInto
    <3> QED BY <2>1, <3>1
  <2>3. held' \subseteq alive'
    BY <1>11, <1>12 DEF TypeOK
  <2>4. ASSUME NEW n \in Node \ alive'
        PROVE  children'[n] = <<>> /\ parent'[n] = Null
    <3>1. n \notin I /\ n \notin alive /\ n # owner
      BY <1>11, NullAssumption
    <3> QED BY <1>9, <3>1 DEF TypeOK
  <2> QED BY <1>11, <2>2, <2>3, <2>4 DEF TypeOK
<1>14. OneOwner'
  <2>1. ASSUME NEW x \in Node, NEW y \in Elements(children'[x])
        PROVE  y \in alive' \ held' /\ parent'[y] = x
    <3>1. CASE x \in I
      <4>1. PICK u \in T : x = f[u]
        BY <1>4, <3>1
      <4>2. PICK v \in Row(u) : y = f[v]
        <5>1. Elements(children'[f[u]]) = {f[z] : z \in Row(u)}
          BY <1>8
        <5> QED BY <4>1, <5>1
      <4>3. v \in T /\ v # c /\ parent[v] = u
        BY <1>1, <1>7, <4>2 DEF OneOwner
      <4>4. y \in I /\ y \notin alive /\ y # f[c]
        BY <1>1, <1>2, <1>3, <4>2, <4>3
      <4>5. y \notin held'
        BY <1>12, <4>4 DEF TypeOK
      <4> QED BY <1>8, <1>11, <4>1, <4>2, <4>3, <4>4, <4>5
    <3>2. CASE x \notin I
      <4>1. CASE y \in ChildSet(x)
        <5>1. y \in alive \ held /\ parent[y] = x /\ y \notin I /\ y \in Node
          BY <1>4, <4>1 DEF OneOwner, TypeOK
        <5>2. y # f[c]
          BY <1>12, <5>1
        <5> QED BY <1>9, <1>11, <1>12, <5>1, <5>2
      <4>2. CASE y \notin ChildSet(x)
        <5>1. x = owner /\ y = f[c]
          <6>1. Elements(children'[x]) = IF x = owner THEN ChildSet(x) \cup {f[c]}
                                         ELSE ChildSet(x)
            BY <1>10, <3>2
          <6> QED BY <4>2, <6>1
        <5>2. owner # Null /\ held' = held
          BY <1>12, <5>1, NullAssumption
        <5>3. f[c] \notin alive
          BY <1>4, <1>12
        <5> QED BY <1>1, <1>8, <1>11, <1>12, <5>1, <5>2, <5>3 DEF TypeOK
      <4> QED BY <4>1, <4>2
    <3> QED BY <3>1, <3>2
  <2>2. ASSUME NEW n \in alive'
        PROVE  IF parent'[n] = Null THEN n \in held'
               ELSE n \in Elements(children'[parent'[n]])
    <3>1. CASE n \in alive
      <4>1. n \in Node \ I /\ parent'[n] = parent[n]
        BY <1>4, <1>9, <3>1 DEF TypeOK
      <4>2. CASE parent[n] = Null
        BY <1>12, <3>1, <4>1, <4>2 DEF OneOwner
      <4>3. CASE parent[n] # Null
        <5>1. n \in ChildSet(parent[n]) /\ parent[n] \in Node
          BY <3>1, <4>1, <4>3 DEF OneOwner, TypeOK
        <5>2. parent[n] \in alive
          BY <5>1 DEF TypeOK, ChildSet, Elements
        <5>3. parent[n] \in Node \ I
          BY <1>4, <5>1, <5>2
        <5> QED BY <1>10, <4>1, <4>3, <5>1, <5>3
      <4> QED BY <4>2, <4>3
    <3>2. CASE n \notin alive
      <4>1. PICK x \in T : n = f[x]
        BY <1>4, <1>11, <3>2
      <4>2. CASE x = c
        <5>1. parent'[n] = owner /\ n = f[c]
          BY <1>8, <4>1, <4>2
        <5>2. CASE owner = Null
          BY <5>1, <5>2
        <5>3. CASE owner # Null
          BY <1>5, <1>10, <5>1, <5>3
        <5> QED BY <5>2, <5>3
      <4>3. CASE x # c
        <5>1. parent[x] \in T /\ x \in Row(parent[x]) /\ parent'[n] = f[parent[x]]
          BY <1>6, <1>8, <4>1, <4>3
        <5>2. f[parent[x]] # Null
          BY <1>2, <5>1, NullAssumption
        <5>3. n \in Elements(children'[f[parent[x]]])
          BY <1>8, <4>1, <5>1
        <5> QED BY <5>1, <5>2, <5>3
      <4> QED BY <4>2, <4>3
    <3> QED BY <3>1, <3>2
  <2>3. ASSUME NEW x \in Node
        PROVE  Distinct(children'[x])
    BY <1>4, <1>8, <1>10
  <2> QED BY <2>1, <2>2, <2>3 DEF OneOwner, ChildSet
<1>15. NoLeak'
  <2> SUFFICES ASSUME NEW D \in SUBSET Node, held' \subseteq D, Closed(D)'
               PROVE  alive' \subseteq D
    BY DEF NoLeak
  <2>1. \A x \in D : Elements(children'[x]) \subseteq D
    BY DEF Closed, ChildSet
  <2>2. Closed(D \ I)
    <3> SUFFICES ASSUME NEW x \in D \ I, NEW y \in ChildSet(x) PROVE y \in D \ I
      BY DEF Closed
    <3>1. y \in Elements(children'[x]) /\ x \in Node
      BY <1>10
    <3>2. y \in alive
      BY <3>1 DEF OneOwner
    <3> QED BY <1>4, <2>1, <3>1, <3>2
  <2>3. held \subseteq D \ I
    BY <1>4, <1>12 DEF TypeOK
  <2>4. alive \subseteq D
    BY <2>2, <2>3 DEF NoLeak
  <2>5. f[c] \in D
    <3>1. CASE owner = Null
      BY <3>1
    <3>2. CASE owner # Null
      <4>1. owner \in D /\ owner \in Node \ I
        BY <1>5, <2>4, <3>2
      <4>2. f[c] \in Elements(children'[owner])
        BY <1>10, <4>1
      <4> QED BY <2>1, <4>1, <4>2
    <3> QED BY <3>1, <3>2
  <2> DEFINE E == {x \in T : f[x] \in D}
  <2>6. ClonedWith(E) /\ c \in E
    <3> SUFFICES ASSUME NEW x \in E, NEW y \in Row(x) PROVE y \in E
      BY <1>1, <2>5 DEF ClonedWith, Row
    <3>1. y \in T
      BY <1>7
    <3>2. f[y] \in Elements(children'[f[x]])
      <4>1. Elements(children'[f[x]]) = {f[z] : z \in Row(x)}
        BY <1>8
      <4> QED BY <4>1
    <3> QED BY <2>1, <3>1, <3>2
  <2>7. T \subseteq E
    BY <1>1, <2>6
  <2>8. I \subseteq D
    BY <1>4, <2>7
  <2> QED BY <1>11, <2>4, <2>8
<1> QED BY <1>13, <1>14, <1>15

LEMMA CloneOwned ==
  ASSUME Owned, NEW c \in Node, Clone(c)
  PROVE  Owned'
<1>1. PICK f \in Copies(c) : CloneInto(c, f, Null, <<>>) /\ held' = held \cup {f[c]}
  BY DEF Clone
<1>2. c \in alive /\ <<>> \in Seq(Node)
  BY EmptySeq DEF Clone
<1> QED BY <1>1, <1>2, CopyOwned

LEMMA PyInsertOwned ==
  ASSUME Owned, NEW p \in Node, NEW c \in Node, NEW idx \in 0 .. Len(children[p]),
         PyInsertChild(p, idx, c)
  PROVE  Owned'
<1>1. PICK f \in Copies(c) : CloneInto(c, f, p, Inserted(children[p], idx, f[c]))
  BY DEF PyInsertChild
<1>2. c \in alive /\ p \in alive /\ held' = held /\ p # Null
  BY NullAssumption DEF PyInsertChild
<1>3. f[c] \in Node /\ f[c] \notin alive
  BY <1>2, ClonedFacts DEF Copies
<1>4. /\ children[p] \in Seq(Node) /\ Distinct(children[p])
      /\ f[c] \notin Elements(children[p])
  BY <1>3 DEF Owned, TypeOK, OneOwner, ChildSet
<1>5. /\ Inserted(children[p], idx, f[c]) \in Seq(Node)
      /\ Elements(Inserted(children[p], idx, f[c])) = ChildSet(p) \cup {f[c]}
      /\ Distinct(Inserted(children[p], idx, f[c]))
  BY <1>3, <1>4, InsertedRow DEF ChildSet
<1> QED BY <1>1, <1>2, <1>5, CopyOwned

LEMMA PyAddOwned ==
  ASSUME Owned, NEW p \in Node, NEW c \in Node, PyAddChild(p, c)
  PROVE  Owned'
<1>1. PICK f \in Copies(c) : CloneInto(c, f, p, Append(children[p], f[c]))
  BY DEF PyAddChild
<1>2. c \in alive /\ p \in alive /\ held' = held /\ c \in Node
  BY DEF PyAddChild
<1>3. f[c] \in Node /\ children[p] \in Seq(Node)
  BY <1>2, ClonedFacts DEF Copies, Owned, TypeOK
<1>4. /\ Append(children[p], f[c]) = Inserted(children[p], Len(children[p]), f[c])
      /\ Len(children[p]) \in 0 .. Len(children[p])
  BY <1>3, AppendIsInserted
<1>5. PyInsertChild(p, Len(children[p]), c)
  BY <1>1, <1>2, <1>4 DEF PyInsertChild
<1> QED BY <1>4, <1>5, PyInsertOwned

LEMMA MakeOwned ==
  ASSUME Owned, NEW n \in Node, NEW l \in Label, Make(n, l)
  PROVE  Owned'
<1> USE DEF Owned
<1>1. /\ n \notin alive /\ alive' = alive \cup {n} /\ held' = held \cup {n}
      /\ label' = [label EXCEPT ![n] = l] /\ parent' = parent /\ children' = children
  BY DEF Make
<1>2. \A x \in Node : Elements(children'[x]) = ChildSet(x)
  BY <1>1 DEF ChildSet
<1>3. TypeOK'
  BY <1>1 DEF TypeOK
<1>4. OneOwner'
  <2>1. ASSUME NEW x \in Node, NEW y \in Elements(children'[x])
        PROVE  y \in alive' \ held' /\ parent'[y] = x
    BY <1>1, <1>2 DEF OneOwner
  <2>2. ASSUME NEW m \in alive'
        PROVE  IF parent'[m] = Null THEN m \in held'
               ELSE m \in Elements(children'[parent'[m]])
    BY <1>1 DEF OneOwner, TypeOK, ChildSet
  <2>3. \A x \in Node : Distinct(children'[x])
    BY <1>1 DEF OneOwner
  <2> QED BY <2>1, <2>2, <2>3 DEF OneOwner, ChildSet
<1>5. NoLeak'
  <2> SUFFICES ASSUME NEW D \in SUBSET Node, held' \subseteq D, Closed(D)'
               PROVE  alive' \subseteq D
    BY DEF NoLeak
  <2>1. Closed(D)
    BY <1>1 DEF Closed, ChildSet
  <2> QED BY <1>1, <2>1 DEF NoLeak
<1> QED BY <1>3, <1>4, <1>5

\* The bindings' remove_child is remove_child of what find() returned.
LEMMA PyRemoveOwned ==
  ASSUME Owned, NEW p \in Node, NEW q \in RelPath, PyRemoveChild(p, q)
  PROVE  Owned'
<1> DEFINE c == Find(p, q)
<1>1. RemoveChild(parent[c], c)
  BY DEF PyRemoveChild
<1> HIDE DEF c
<1>2. PICK i \in DOMAIN children[parent[c]] : children[parent[c]][i] = c
  BY <1>1 DEF RemoveChild
<1>3. parent[c] \in Node
  BY <1>1 DEF RemoveChild, Owned, TypeOK
<1>4. children[parent[c]] \in Seq(Node)
      /\ DOMAIN children[parent[c]] = 1 .. Len(children[parent[c]])
  BY <1>3, LenProperties DEF Owned, TypeOK
<1>5. c \in Node
  BY <1>2, <1>4, ElementOfSeq
<1> QED BY <1>1, <1>3, <1>5, RemoveOwned

----------------------------------------------------------------------------
(* Theorems                                                                 *)

LEMMA InitOwned == Init => Owned
<1> SUFFICES ASSUME Init PROVE Owned
  OBVIOUS
<1>1. \A x \in Node : children[x] = <<>> /\ ChildSet(x) = {} /\ Distinct(children[x])
  BY DEF Init, ChildSet, Elements, Distinct
<1>2. TypeOK
  BY Labels, EmptySeq DEF Init, TypeOK
<1>3. OneOwner
  BY <1>1 DEF Init, OneOwner
<1>4. NoLeak
  BY DEF Init, NoLeak
<1> QED BY <1>2, <1>3, <1>4 DEF Owned

LEMMA NextOwned == Owned /\ [Next]_vars => Owned'
<1> SUFFICES ASSUME Owned, [Next]_vars PROVE Owned'
  OBVIOUS
<1>1. CASE \E n \in Node, l \in Label : Make(n, l)
  BY <1>1, MakeOwned
<1>2. CASE \E p, c \in Node : AddChild(p, c)
  BY <1>2, AddOwned
<1>3. CASE \E p, c \in Node, idx \in 0 .. Cardinality(Node) : InsertChild(p, idx, c)
  <2>1. PICK p \in Node, c \in Node, idx \in 0 .. Cardinality(Node) : InsertChild(p, idx, c)
    BY <1>3
  <2>2. idx \in 0 .. Len(children[p])
    BY <2>1 DEF InsertChild
  <2> QED BY <2>1, <2>2, InsertOwned
<1>4. CASE \E p, c \in Node : RemoveChild(p, c)
  BY <1>4, RemoveOwned
<1>5. CASE \E h \in Node : Destroy(h)
  BY <1>5, DestroyOwned
<1>6. CASE \E c \in Node : Clone(c)
  BY <1>6, CloneOwned
<1>7. CASE \E p, c \in Node : PyAddChild(p, c)
  BY <1>7, PyAddOwned
<1>8. CASE \E p, c \in Node, idx \in 0 .. Cardinality(Node) : PyInsertChild(p, idx, c)
  <2>1. PICK p \in Node, c \in Node, idx \in 0 .. Cardinality(Node) : PyInsertChild(p, idx, c)
    BY <1>8
  <2>2. idx \in 0 .. Len(children[p])
    BY <2>1 DEF PyInsertChild
  <2> QED BY <2>1, <2>2, PyInsertOwned
<1>9. CASE \E p \in Node, q \in RelPath : PyRemoveChild(p, q)
  BY <1>9, PyRemoveOwned
<1>10. CASE UNCHANGED vars
  <2>1. TypeOK' /\ OneOwner'
    BY <1>10 DEF Owned, vars, TypeOK, OneOwner, ChildSet
  <2>2. NoLeak'
    BY <1>10 DEF Owned, vars, NoLeak, Closed, ChildSet
  <2> QED BY <2>1, <2>2 DEF Owned
<1> QED BY <1>1, <1>2, <1>3, <1>4, <1>5, <1>6, <1>7, <1>8, <1>9, <1>10 DEF Next

\* The inductive invariant of Node's tree operations holds in every state.
THEOREM Ownership == Spec => []Owned
<1>1. Init => Owned
  BY InitOwned
<1>2. Owned /\ [Next]_vars => Owned'
  BY NextOwned
<1> QED BY <1>1, <1>2, PTL DEF Spec

\* Addresses, labels and vectors keep their types, and freed addresses hold
\* nothing, whatever the client of Node does.
THEOREM TreeTypeCorrect == Spec => []TypeOK
<1>1. Owned => TypeOK
  BY DEF Owned
<1> QED BY <1>1, Ownership, PTL

\* After any sequence of moves, clones, removals and deletions a live node is
\* owned exactly once, where its _parent says, and no vector holds a node that
\* was deleted.
THEOREM OwnedOnce == Spec => []OneOwner
<1>1. Owned => OneOwner
  BY DEF Owned
<1> QED BY <1>1, Ownership, PTL

\* Every live node is below one the client owns: nothing leaks, and no sequence
\* of operations makes trees that own each other.
THEOREM NothingLeaks == Spec => []NoLeak
<1>1. Owned => NoLeak
  BY DEF Owned
<1> QED BY <1>1, Ownership, PTL

----------------------------------------------------------------------------
(* fullpath() and find().                                                   *)

Tops == {m \in Node : parent[m] = Null}
Up == [m \in Node |-> IF parent[m] = Null THEN m ELSE parent[m]]

\* The way up from any node ends: from a live one at a node the client owns.
LEMMA TreeGrounded ==
  ASSUME Owned
  PROVE  Grounded(Node, Tops, Up)
<1> SUFFICES ASSUME NEW D \in SUBSET Node, \A m \in Node : m \in Tops \/ Up[m] \in D => m \in D
             PROVE  D = Node
  BY DEF Grounded
<1>1. ASSUME NEW m \in Node, parent[m] = Null PROVE m \in D
  BY <1>1 DEF Tops
<1>2. ASSUME NEW m \in Node, parent[m] \in D PROVE m \in D
  BY <1>2, NullAssumption DEF Up
<1>3. held \subseteq D
  <2> SUFFICES ASSUME NEW h \in held, parent[h] # Null PROVE FALSE
    BY <1>1 DEF Owned, TypeOK
  <2>1. h \in ChildSet(parent[h]) /\ parent[h] \in Node
    BY DEF Owned, TypeOK, OneOwner
  <2> QED BY <2>1 DEF Owned, OneOwner
<1>4. Closed(D)
  <2> SUFFICES ASSUME NEW x \in D, NEW c \in ChildSet(x) PROVE c \in D
    BY DEF Closed
  <2>1. c \in Node /\ parent[c] = x
    BY DEF Owned, OneOwner, TypeOK
  <2> QED BY <1>2, <2>1
<1>5. alive \subseteq D
  BY <1>3, <1>4 DEF Owned, NoLeak
<1>6. \A m \in Node \ alive : parent[m] = Null
  BY DEF Owned, TypeOK
<1> QED BY <1>1, <1>5, <1>6

LEMMA UpType ==
  ASSUME Owned
  PROVE  Up \in [Node -> Node] /\ Tops \in SUBSET Node
BY DEF Owned, TypeOK, Up, Tops

LEMMA RootOfValue ==
  ASSUME Owned, NEW n \in Node
  PROVE  RootOf(n) = IF parent[n] = Null THEN n ELSE RootOf(parent[n])
<1> DEFINE b == [m \in Node |-> m]
           st == [m \in Node |-> [s \in Node |-> s]]
           Eq(g) == g = [m \in Node |-> IF parent[m] = Null THEN m ELSE g[parent[m]]]
           root == CHOOSE g : Eq(g)
<1>1. b \in [Node -> Node] /\ st \in [Node -> [Node -> Node]]
  OBVIOUS
<1>2. PICK f \in [Node -> Node] : Solves(f, Node, Tops, Up, b, st)
  <2> HIDE DEF b, st
  <2> QED BY <1>1, UpType, TreeGrounded, RecursiveFunction
<1>3. ASSUME NEW m \in Node PROVE f[m] = IF parent[m] = Null THEN m ELSE f[parent[m]]
  <2>1. f[m] = IF m \in Tops THEN b[m] ELSE st[m][f[Up[m]]]
    BY <1>2 DEF Solves
  <2>2. Up[m] \in Node
    BY UpType
  <2> QED BY <2>1, <2>2 DEF Tops, Up
<1>4. Eq(f)
  <2>1. f = [m \in Node |-> f[m]]
    OBVIOUS
  <2> QED BY <1>3, <2>1
<1>5. Eq(root)
  BY <1>4
<1>6. \A m : RootOf(m) = root[m]
  BY DEF RootOf
<1>7. root[n] = IF parent[n] = Null THEN n ELSE root[parent[n]]
  BY <1>5
<1> HIDE DEF root
<1> QED BY <1>6, <1>7

LEMMA FullPathValue ==
  ASSUME Owned, NEW n \in Node
  PROVE  FullPath(n) = IF parent[n] = Null \/ Kind(parent[n]) = "root" THEN Segment(n)
                       ELSE FullPath(parent[n]) \o Segment(n)
<1> DEFINE S == Seq(Name)
           First(m) == parent[m] = Null \/ Kind(parent[m]) = "root"
           b == [m \in Node |-> Segment(m)]
           st == [m \in Node |-> [s \in S |-> IF First(m) THEN Segment(m) ELSE s \o Segment(m)]]
           Eq(g) == g = [m \in Node |-> IF parent[m] = Null \/ Kind(parent[m]) = "root"
                                        THEN Segment(m) ELSE g[parent[m]] \o Segment(m)]
           full == CHOOSE g : Eq(g)
<1>0. ASSUME NEW m \in Node PROVE Segment(m) \in S
  <2>1. Path(m) \in Name \cup {Empty}
    BY DEF Owned, TypeOK, Label, Path
  <2> QED BY <2>1 DEF Segment
<1>1. b \in [Node -> S] /\ st \in [Node -> [S -> S]]
  <2>1. \A m \in Node, s \in S : s \o Segment(m) \in S
    BY <1>0, ConcatProperties
  <2> QED BY <1>0, <2>1
<1>2. PICK f \in [Node -> S] : Solves(f, Node, Tops, Up, b, st)
  <2> HIDE DEF b, st, S
  <2> QED BY <1>1, UpType, TreeGrounded, RecursiveFunction
<1>3. ASSUME NEW m \in Node
      PROVE  f[m] = IF parent[m] = Null \/ Kind(parent[m]) = "root"
                    THEN Segment(m) ELSE f[parent[m]] \o Segment(m)
  <2>1. f[m] = IF m \in Tops THEN b[m] ELSE st[m][f[Up[m]]]
    BY <1>2 DEF Solves
  <2>2. Up[m] \in Node /\ f[Up[m]] \in S
    BY UpType
  <2> HIDE DEF S
  <2> QED BY <2>1, <2>2 DEF Tops, Up
<1>4. Eq(f)
  <2>1. f = [m \in Node |-> f[m]]
    OBVIOUS
  <2> QED BY <1>3, <2>1
<1>5. Eq(full)
  BY <1>4
<1>6. \A m : FullPath(m) = full[m]
  BY DEF FullPath
<1>7. full[n] = IF parent[n] = Null \/ Kind(parent[n]) = "root"
                THEN Segment(n) ELSE full[parent[n]] \o Segment(n)
  BY <1>5
<1> HIDE DEF full
<1> QED BY <1>6, <1>7

LEMMA ReachableValue ==
  ASSUME Owned, NEW n \in Node, Reachable(n)
  PROVE  /\ parent[n] # Null /\ Kind(n) \in Named /\ FirstOfName(n)
         /\ parent[parent[n]] = Null => Kind(parent[n]) = "root"
         /\ parent[parent[n]] # Null => Reachable(parent[n])
<1> DEFINE b == [m \in Node |-> Kind(m) = "root"]
           st == [m \in Node |-> [s \in BOOLEAN |->
                    IF Kind(m) \in Named /\ FirstOfName(m) THEN s ELSE FALSE]]
           Eq(g) == g = [m \in Node |-> IF parent[m] = Null THEN Kind(m) = "root"
                                        ELSE IF Kind(m) \in Named /\ FirstOfName(m)
                                             THEN g[parent[m]] ELSE FALSE]
           ok == CHOOSE g : Eq(g)
<1>1. b \in [Node -> BOOLEAN] /\ st \in [Node -> [BOOLEAN -> BOOLEAN]]
  OBVIOUS
<1>2. PICK f \in [Node -> BOOLEAN] : Solves(f, Node, Tops, Up, b, st)
  <2> HIDE DEF b, st
  <2> QED BY <1>1, UpType, TreeGrounded, RecursiveFunction
<1>3. ASSUME NEW m \in Node
      PROVE  f[m] = IF parent[m] = Null THEN Kind(m) = "root"
                    ELSE IF Kind(m) \in Named /\ FirstOfName(m) THEN f[parent[m]] ELSE FALSE
  <2>1. f[m] = IF m \in Tops THEN b[m] ELSE st[m][f[Up[m]]]
    BY <1>2 DEF Solves
  <2>2. Up[m] \in Node /\ f[Up[m]] \in BOOLEAN
    BY UpType
  <2> QED BY <2>1, <2>2 DEF Tops, Up
<1>4. Eq(f)
  <2>1. f = [m \in Node |-> f[m]]
    OBVIOUS
  <2> QED BY <1>3, <2>1
<1>5. Eq(ok)
  BY <1>4
<1>6. \A m : Reachable(m) <=> ok[m] /\ parent[m] # Null
  BY DEF Reachable
<1>7. \A m \in Node : ok[m] = IF parent[m] = Null THEN Kind(m) = "root"
                              ELSE IF Kind(m) \in Named /\ FirstOfName(m)
                                   THEN ok[parent[m]] ELSE FALSE
  BY <1>5
<1> HIDE DEF ok
<1>8. ok[n] /\ parent[n] # Null /\ parent[n] \in Node
  BY <1>6 DEF Owned, TypeOK
<1>9. Kind(n) \in Named /\ FirstOfName(n) /\ ok[parent[n]]
  BY <1>7, <1>8
<1> QED BY <1>6, <1>7, <1>8, <1>9

\* One segment of find(): the first child of that name, or nullptr.
LEMMA FirstNamedType ==
  ASSUME Owned, NEW m \in Node, NEW s
  PROVE  FirstNamed(m, s) \in Node \cup {Null}
<1> DEFINE Hits == {i \in DOMAIN children[m] : Path(children[m][i]) = s}
<1>1. children[m] \in Seq(Node) /\ DOMAIN children[m] = 1 .. Len(children[m])
  BY RowType DEF Owned
<1>2. CASE Hits = {}
  BY <1>2 DEF FirstNamed
<1>3. CASE Hits # {}
  <2> DEFINE h == CHOOSE i \in Hits : \A j \in Hits : i <= j
  <2>1. Hits \subseteq Nat
    BY <1>1
  <2>2. \E i \in Hits : \A j \in Hits : i <= j
    <3> HIDE DEF Hits
    <3> QED BY <1>3, <2>1, LeastElement
  <2>3. h \in Hits
    <3> HIDE DEF Hits
    <3> QED BY <2>2
  <2>4. FirstNamed(m, s) = children[m][h]
    BY <1>3 DEF FirstNamed
  <2>5. children[m][h] \in Node
    BY <1>1, <2>3, ElementOfSeq
  <2> QED BY <2>4, <2>5
<1> QED BY <1>2, <1>3

\* find() of its own name stops at a child that has no namesake before it.
LEMMA FindsFirst ==
  ASSUME Owned, NEW n \in alive, parent[n] # Null, FirstOfName(n)
  PROVE  FirstNamed(parent[n], Path(n)) = n
<1> DEFINE p == parent[n]
           row == children[p]
           Hits == {i \in DOMAIN row : Path(row[i]) = Path(n)}
           h == CHOOSE i \in Hits : \A j \in Hits : i <= j
<1>1. /\ p \in Node /\ row \in Seq(Node) /\ DOMAIN row = 1 .. Len(row) /\ Len(row) \in Nat
      /\ n \in Elements(row)
  <2>1. p \in Node /\ n \in ChildSet(p)
    BY DEF Owned, TypeOK, OneOwner
  <2> QED BY <2>1, RowType DEF Owned
<1>2. PICK k \in DOMAIN row : row[k] = n
  BY <1>1 DEF Elements
<1>3. k \in Hits
  BY <1>2
<1>4. Hits \subseteq Nat
  BY <1>1
<1>5. \E i \in Hits : \A j \in Hits : i <= j
  <2> HIDE DEF Hits
  <2> QED BY <1>3, <1>4, LeastElement
<1>6. h \in Hits /\ h <= k
  <2> HIDE DEF Hits
  <2> QED BY <1>3, <1>5
<1>7. ~ (h < k)
  BY <1>2, <1>6 DEF FirstOfName
<1>8. h = k
  BY <1>1, <1>2, <1>6, <1>7
<1>9. FirstNamed(p, Path(n)) = row[h]
  BY <1>3 DEF FirstNamed
<1> QED BY <1>2, <1>8, <1>9

\* Where find() stands after the first k segments of t, called at r.
Walk(r, t, g) == g = [k \in 0 .. Len(t) |-> IF k = 0 THEN r
                                           ELSE IF g[k - 1] = Null THEN Null
                                           ELSE FirstNamed(g[k - 1], t[k])]

LEMMA WalkExists ==
  ASSUME Owned, NEW r \in Node, NEW t, Len(t) \in Nat
  PROVE  \E g : Walk(r, t, g)
<1> DEFINE S == Node \cup {Null}
           st == [k \in 1 .. Len(t) |-> [m \in S |->
                    IF m = Null THEN Null ELSE FirstNamed(m, t[k])]]
<1>1. st \in [1 .. Len(t) -> [S -> S]]
  <2>1. \A k \in 1 .. Len(t), m \in S : (IF m = Null THEN Null ELSE FirstNamed(m, t[k])) \in S
    BY FirstNamedType
  <2> QED BY <2>1
<1>2. PICK g \in [0 .. Len(t) -> S] : Counts(g, Len(t), r, st)
  <2>1. r \in S
    OBVIOUS
  <2> HIDE DEF S, st
  <2> QED BY <1>1, <2>1, Counted
<1>3. ASSUME NEW k \in 0 .. Len(t)
      PROVE  g[k] = IF k = 0 THEN r ELSE IF g[k - 1] = Null THEN Null ELSE FirstNamed(g[k - 1], t[k])
  <2>1. g[k] = IF k = 0 THEN r ELSE st[k][g[k - 1]]
    BY <1>2 DEF Counts
  <2>2. CASE k # 0
    <3>1. k \in 1 .. Len(t) /\ k - 1 \in 0 .. Len(t)
      BY <2>2
    <3>2. g[k - 1] \in S
      BY <3>1
    <3> HIDE DEF S
    <3> QED BY <2>1, <2>2, <3>1, <3>2
  <2> QED BY <2>1, <2>2
<1>4. g = [k \in 0 .. Len(t) |-> g[k]]
  OBVIOUS
<1>5. Walk(r, t, g)
  BY <1>3, <1>4 DEF Walk
<1> QED BY <1>5

LEMMA FindByWalk ==
  ASSUME Owned, NEW r \in Node, NEW q, Trimmed(q) = q, Len(q) \in Nat
  PROVE  \E g : Walk(r, q, g) /\ Find(r, q) = g[Len(q)]
<1> DEFINE g == CHOOSE at : Walk(r, q, at)
<1>1. Walk(r, q, g)
  <2>1. \E at : Walk(r, q, at)
    BY WalkExists
  <2> QED BY <2>1
<1>2. Find(r, q) = g[Len(q)]
  BY DEF Find, Walk
<1> HIDE DEF g
<1> QED BY <1>1, <1>2

LEMMA SingleFind ==
  ASSUME Owned, NEW r \in Node, NEW s \in Name
  PROVE  Find(r, <<s>>) = FirstNamed(r, s)
<1> DEFINE q == <<s>>
<1>1. Len(q) = 1 /\ q[1] = s /\ s # Empty /\ Len(q) \in Nat
  BY EmptyAssumption
<1>2. Trimmed(q) = q
  BY <1>1 DEF Trimmed
<1> HIDE DEF q
<1>3. PICK g : Walk(r, q, g) /\ Find(r, q) = g[Len(q)]
  BY <1>1, <1>2, FindByWalk
<1>4. g = [k \in 0 .. 1 |-> IF k = 0 THEN r ELSE IF g[k - 1] = Null THEN Null
                            ELSE FirstNamed(g[k - 1], q[k])]
  BY <1>1, <1>3 DEF Walk
<1>5. g[0] = r /\ g[1] = IF g[0] = Null THEN Null ELSE FirstNamed(g[0], q[1])
  BY <1>4
<1>6. r # Null
  BY NullAssumption
<1> QED BY <1>1, <1>3, <1>5, <1>6 DEF q

\* One segment more is one step more.
LEMMA LongerFind ==
  ASSUME Owned, NEW r \in Node, NEW q \in Seq(Name), Trimmed(q) = q, NEW s \in Name,
         Find(r, q) # Null
  PROVE  /\ Trimmed(q \o <<s>>) = q \o <<s>>
         /\ Find(r, q \o <<s>>) = FirstNamed(Find(r, q), s)
<1> DEFINE n == Len(q)
           e == <<s>>
           t == q \o e
<1>1. n \in Nat /\ e \in Seq(Name) /\ Len(e) = 1 /\ e[1] = s
  BY LenProperties
<1>2. t \in Seq(Name) /\ Len(t) = n + 1 /\ (\A k \in 1 .. n : t[k] = q[k]) /\ t[n + 1] = s
  <2>1. /\ t \in Seq(Name) /\ Len(t) = Len(q) + Len(e)
        /\ \A k \in 1 .. Len(q) + Len(e) : t[k] = IF k <= Len(q) THEN q[k] ELSE e[k - Len(q)]
    BY <1>1, ConcatProperties
  <2> HIDE DEF t, e
  <2>2. Len(t) = n + 1 /\ \A k \in 1 .. n + 1 : t[k] = IF k <= n THEN q[k] ELSE e[k - n]
    BY <1>1, <2>1
  <2> HIDE DEF n
  <2>3. n + 1 \in 1 .. n + 1 /\ ~ (n + 1 <= n) /\ n + 1 - n = 1 /\ \A k \in 1 .. n : k \in 1 .. n + 1 /\ k <= n
    BY <1>1
  <2> QED BY <1>1, <2>1, <2>2, <2>3
<1> HIDE DEF t, n, e
<1>3. Trimmed(t) = t
  BY <1>1, <1>2, EmptyAssumption DEF Trimmed
<1>4. PICK g : Walk(r, q, g) /\ Find(r, q) = g[n]
  BY <1>1, FindByWalk DEF n
<1>5. Len(t) \in Nat
  BY <1>1, <1>2
<1>6. PICK h : Walk(r, t, h) /\ Find(r, t) = h[n + 1]
  BY <1>2, <1>3, <1>5, FindByWalk
<1>7. \A k \in 0 .. n : g[k] = IF k = 0 THEN r ELSE IF g[k - 1] = Null THEN Null
                               ELSE FirstNamed(g[k - 1], q[k])
  BY <1>4 DEF Walk, n
<1>8. \A k \in 0 .. n + 1 : h[k] = IF k = 0 THEN r ELSE IF h[k - 1] = Null THEN Null
                                   ELSE FirstNamed(h[k - 1], t[k])
  BY <1>2, <1>6 DEF Walk
<1> DEFINE D == {k \in 0 .. n : g[k] = h[k]}
<1>9. D = 0 .. n
  <2>1. 0 \in D
    BY <1>1, <1>7, <1>8
  <2>2. ASSUME NEW k \in 1 .. n, k - 1 \in D PROVE k \in D
    <3>1. k \in 0 .. n /\ k \in 0 .. n + 1 /\ k # 0 /\ g[k - 1] = h[k - 1] /\ t[k] = q[k]
      BY <1>1, <1>2, <2>2
    <3> QED BY <1>7, <1>8, <3>1
  <2>3. D \in SUBSET (0 .. n)
    OBVIOUS
  <2> HIDE DEF D
  <2> QED BY <1>1, <2>1, <2>2, <2>3, UpToInduction
<1>10. h[n] = Find(r, q)
  <2>1. n \in 0 .. n
    BY <1>1
  <2>2. n \in D
    BY <1>9, <2>1
  <2> QED BY <1>4, <2>2
<1>11. h[n + 1] = FirstNamed(h[n], t[n + 1])
  <2> DEFINE z == n + 1
  <2>1. z \in 0 .. n + 1 /\ z # 0 /\ z - 1 = n
    BY <1>1
  <2> HIDE DEF z
  <2>2. h[z] = IF h[z - 1] = Null THEN Null ELSE FirstNamed(h[z - 1], t[z])
    BY <1>8, <2>1
  <2>3. h[z] = FirstNamed(h[n], t[z])
    BY <1>10, <2>1, <2>2
  <2> QED BY <2>3 DEF z
<1> QED BY <1>2, <1>3, <1>6, <1>10, <1>11 DEF t, e

LEMMA ReachableFound ==
  ASSUME Owned, NEW n \in alive, Reachable(n)
  PROVE  Find(RootOf(n), FullPath(n)) = n
<1> DEFINE Found(m) == m \in alive /\ Reachable(m) =>
                         /\ Find(RootOf(m), FullPath(m)) = m
                         /\ RootOf(m) \in Node /\ FullPath(m) \in Seq(Name)
                         /\ Trimmed(FullPath(m)) = FullPath(m)
           D == {m \in Node : Found(m)}
<1>1. ASSUME NEW m \in Node, m \in Tops \/ Up[m] \in D PROVE m \in D
  <2> SUFFICES ASSUME m \in alive, Reachable(m)
               PROVE  /\ Find(RootOf(m), FullPath(m)) = m
                      /\ RootOf(m) \in Node /\ FullPath(m) \in Seq(Name)
                      /\ Trimmed(FullPath(m)) = FullPath(m)
    OBVIOUS
  <2> DEFINE p == parent[m]
  <2>1. /\ p # Null /\ Kind(m) \in Named /\ FirstOfName(m)
        /\ parent[p] = Null => Kind(p) = "root"
        /\ parent[p] # Null => Reachable(p)
    BY ReachableValue
  <2>2. p \in Node /\ p \in alive /\ m \in ChildSet(p)
    <3>1. p \in Node /\ m \in ChildSet(p)
      BY <2>1 DEF Owned, TypeOK, OneOwner
    <3>2. p \in alive
      BY <3>1 DEF Owned, TypeOK, ChildSet, Elements
    <3> QED BY <3>1, <3>2
  <2>3. Path(m) \in Name /\ Segment(m) = <<Path(m)>>
    <3>1. label[m] \in Label /\ label[m].kind \in Named
      BY <2>1 DEF Owned, TypeOK, Kind
    <3>2. Path(m) \in Name
      BY <3>1 DEF Label, Named, Nameless, Path
    <3> QED BY <3>2, EmptyAssumption DEF Segment
  <2>4. FirstNamed(p, Path(m)) = m
    BY <2>1, FindsFirst
  <2>5. RootOf(m) = RootOf(p)
    BY <2>1, RootOfValue
  <2>6. CASE parent[p] = Null
    <3>1. RootOf(m) = p /\ Kind(p) = "root"
      BY <2>1, <2>2, <2>5, <2>6, RootOfValue
    <3>2. FullPath(m) = <<Path(m)>>
      BY <2>3, <3>1, FullPathValue
    <3>3. Find(p, <<Path(m)>>) = m
      BY <2>2, <2>3, <2>4, SingleFind
    <3>4. <<Path(m)>> \in Seq(Name)
      BY <2>3
    <3>5. Trimmed(<<Path(m)>>) = <<Path(m)>>
      BY <2>3, EmptyAssumption DEF Trimmed
    <3> QED BY <2>2, <3>1, <3>2, <3>3, <3>4, <3>5
  <2>7. CASE parent[p] # Null
    <3>1. Reachable(p) /\ p \in D
      BY <1>1, <2>1, <2>7 DEF Tops, Up
    <3>2. /\ Find(RootOf(p), FullPath(p)) = p
          /\ RootOf(p) \in Node /\ FullPath(p) \in Seq(Name)
          /\ Trimmed(FullPath(p)) = FullPath(p)
      BY <2>2, <3>1
    <3>3. Kind(p) # "root"
      BY <2>2, <3>1, ReachableValue DEF Named
    <3>4. FullPath(m) = FullPath(p) \o <<Path(m)>>
      BY <2>1, <2>3, <3>3, FullPathValue
    <3>5. p # Null
      BY <2>1
    <3> HIDE DEF p, D
    <3>6. /\ Trimmed(FullPath(p) \o <<Path(m)>>) = FullPath(p) \o <<Path(m)>>
          /\ Find(RootOf(p), FullPath(p) \o <<Path(m)>>) = FirstNamed(p, Path(m))
      BY <2>3, <3>2, <3>5, LongerFind
    <3>7. FullPath(p) \o <<Path(m)>> \in Seq(Name)
      BY <2>3, <3>2, ConcatProperties
    <3> QED BY <2>4, <2>5, <3>2, <3>4, <3>6, <3>7
  <2> QED BY <2>6, <2>7
<1>2. D = Node
  <2>1. D \in SUBSET Node
    OBVIOUS
  <2> HIDE DEF D
  <2> QED BY <1>1, <2>1, TreeGrounded DEF Grounded
<1>3. n \in Node
  BY DEF Owned, TypeOK
<1> QED BY <1>2, <1>3

\* fullpath() and find() are inverse in every tree a sequence of operations can
\* build: a node whose ancestors up to a Root are sections, each the first of its
\* name, is what the Root finds under the node's full path.
THEOREM FullPathsFind == Spec => []FullPathFinds
<1>1. Owned => FullPathFinds
  BY ReachableFound DEF FullPathFinds
<1> QED BY <1>1, Ownership, PTL

----------------------------------------------------------------------------
(* What a clone renders as.                                                 *)

\* The nodes alive at once are finitely many, so every way down ends.
Finite == IsFiniteSet(alive)
Ends == Descends(Node, children)

LEMMA ImageFinite ==
  ASSUME Owned, Finite, NEW c \in alive, NEW f \in Copies(c)
  PROVE  IsFiniteSet(Image(f))
<1>1. IsFiniteSet(Cloned(c))
  BY ClonedFacts, FS_Subset DEF Finite
<1>2. f \in Surjection(Cloned(c), Image(f))
  BY DEF Copies, Image, Surjection
<1> QED BY <1>1, <1>2, FS_Surjection

LEMMA NextFinite == Owned /\ Finite /\ [Next]_vars => Finite'
<1> SUFFICES ASSUME Owned, Finite, [Next]_vars PROVE Finite'
  OBVIOUS
<1> USE DEF Finite
<1>1. CASE \E n \in Node, l \in Label : Make(n, l)
  BY <1>1, FS_AddElement DEF Make
<1>2. CASE \E p, c \in Node : AddChild(p, c)
  BY <1>2 DEF AddChild
<1>3. CASE \E p, c \in Node, idx \in 0 .. Cardinality(Node) : InsertChild(p, idx, c)
  BY <1>3 DEF InsertChild
<1>4. CASE \E p, c \in Node : RemoveChild(p, c)
  BY <1>4 DEF RemoveChild
<1>5. CASE \E h \in Node : Destroy(h)
  BY <1>5, FS_Subset DEF Destroy
<1> DEFINE Copying == \E c \in alive : \E f \in Copies(c) : alive' = alive \cup Image(f)
<1>6. CASE Copying
  <2>1. PICK c \in alive : \E f \in Copies(c) : alive' = alive \cup Image(f)
    BY <1>6
  <2>2. PICK f \in Copies(c) : alive' = alive \cup Image(f)
    BY <2>1
  <2> QED BY <2>2, ImageFinite, FS_Union DEF Owned
<1>7. CASE \E c \in Node : Clone(c)
  <2>1. Copying
    BY <1>7 DEF Clone, CloneInto
  <2> QED BY <1>6, <2>1
<1>8. CASE \E p, c \in Node : PyAddChild(p, c)
  <2>1. Copying
    BY <1>8 DEF PyAddChild, CloneInto
  <2> QED BY <1>6, <2>1
<1>9. CASE \E p, c \in Node, idx \in 0 .. Cardinality(Node) : PyInsertChild(p, idx, c)
  <2>1. Copying
    BY <1>9 DEF PyInsertChild, CloneInto
  <2> QED BY <1>6, <2>1
<1>10. CASE \E p \in Node, q \in RelPath : PyRemoveChild(p, q)
  BY <1>10 DEF PyRemoveChild, RemoveChild
<1>11. CASE UNCHANGED vars
  BY <1>11 DEF vars
<1> QED BY <1>1, <1>2, <1>3, <1>4, <1>5, <1>7, <1>8, <1>9, <1>10, <1>11 DEF Next

\* A child has a smaller subtree than its parent.
LEMMA TreesEnd ==
  ASSUME Owned, Finite
  PROVE  Ends
<1> USE DEF Owned
<1> SUFFICES ASSUME NEW D \in SUBSET Node, D # Node,
                    \A m \in Node : (\A i \in DOMAIN children[m] : children[m][i] \in D) => m \in D
             PROVE  FALSE
  BY DEF Ends, Descends
<1> DEFINE M == Node \ D
           Size(m) == Cardinality(Subtree(m))
           Sizes == {Size(m) : m \in M}
<1>1. ASSUME NEW m \in M PROVE m \in alive /\ \E c \in M : c \in ChildSet(m)
  <2>1. PICK i \in DOMAIN children[m] : children[m][i] \notin D
    OBVIOUS
  <2>2. m \in alive
    BY <2>1 DEF TypeOK
  <2>3. children[m][i] \in ChildSet(m)
    BY DEF ChildSet, Elements
  <2> QED BY <2>1, <2>2, <2>3, ChildrenAreNodes
<1>2. ASSUME NEW m \in M
      PROVE  Subtree(m) \subseteq alive /\ IsFiniteSet(Subtree(m)) /\ Size(m) \in Nat
  <2>1. Subtree(m) \subseteq alive
    BY <1>1, SubtreeAlive
  <2> QED BY <2>1, FS_Subset, FS_CardinalityType DEF Finite
<1>3. PICK m \in M : \A k \in M : Size(m) <= Size(k)
  <2>1. Sizes \subseteq Nat /\ Sizes # {}
    <3> HIDE DEF Size
    <3> QED BY <1>2
  <2>2. PICK z \in Sizes : \A y \in Sizes : z <= y
    <3> HIDE DEF Sizes
    <3> QED BY <2>1, LeastElement
  <2> HIDE DEF Size
  <2> QED BY <2>2
<1>4. PICK c \in M : c \in ChildSet(m)
  BY <1>1
<1>5. m \in Subtree(m) /\ Closed(Subtree(m))
  BY SubtreeFacts DEF TypeOK
<1>6. Subtree(c) \subseteq Subtree(m)
  <2>1. c \in Subtree(m) /\ Subtree(m) \in SUBSET Node
    BY <1>4, <1>5, SubtreeFacts DEF Closed, TypeOK
  <2> QED BY <1>5, <2>1, SubtreeFacts DEF TypeOK
<1>7. m \notin Subtree(c)
  BY <1>1, <1>4, NoCycle
<1>8. Size(c) <= Size(m) /\ Size(c) # Size(m)
  BY <1>2, <1>5, <1>6, <1>7, FS_Subset
<1>9. Size(m) \in Nat /\ Size(c) \in Nat /\ Size(m) <= Size(c)
  BY <1>2, <1>3
<1> HIDE DEF Size
<1> QED BY <1>8, <1>9

Render(lab, row, n) ==
  LET shape[m \in Node] == <<lab[m], [i \in DOMAIN row[m] |-> shape[row[m][i]]]>>
  IN  shape[n]

LEMMA ShapeValue ==
  ASSUME NEW lab, NEW row \in [Node -> Seq(Node)], Descends(Node, row)
  PROVE  \A m \in Node : Render(lab, row, m)
                           = <<lab[m], [i \in DOMAIN row[m] |-> Render(lab, row, row[m][i])]>>
<1> DEFINE F == CHOOSE g : g = [m \in Node |-> <<lab[m], [i \in DOMAIN row[m] |-> g[row[m][i]]]>>]
<1>1. \A m \in Node : \A i \in DOMAIN row[m] : row[m][i] \in Node
  <2> SUFFICES ASSUME NEW m \in Node, NEW i \in DOMAIN row[m] PROVE row[m][i] \in Node
    OBVIOUS
  <2>1. row[m] \in Seq(Node) /\ i \in 1 .. Len(row[m])
    BY LenProperties
  <2> QED BY <2>1, ElementOfSeq
<1>2. \E g : g = [m \in Node |-> <<lab[m], [i \in DOMAIN row[m] |-> g[row[m][i]]]>>]
  <2>1. \E g : BuiltOn(g, Node, lab, row)
    BY <1>1, TreeFunction
  <2> QED BY <2>1 DEF BuiltOn
<1>3. F = [m \in Node |-> <<lab[m], [i \in DOMAIN row[m] |-> F[row[m][i]]]>>]
  BY <1>2
<1>4. \A m : Render(lab, row, m) = F[m]
  BY DEF Render
<1> HIDE DEF F
<1>5. ASSUME NEW m \in Node
      PROVE F[m] = <<lab[m], [i \in DOMAIN row[m] |-> F[row[m][i]]]>>
  BY <1>3
<1> QED BY <1>4, <1>5

LEMMA ShownRowsEnd ==
  ASSUME TypeOK, Ends
  PROVE  ShownRows \in [Node -> Seq(Node)] /\ Descends(Node, ShownRows)
<1>1. ASSUME NEW m \in Node PROVE ShownRows[m] \in Seq(Node) /\ ShownRows[m] \in {children[m], <<>>}
  BY EmptySeq DEF ShownRows, TypeOK
<1>2. ShownRows \in [Node -> Seq(Node)]
  BY <1>1 DEF ShownRows
<1>3. ASSUME NEW D \in SUBSET Node,
             \A m \in Node : (\A i \in DOMAIN ShownRows[m] : ShownRows[m][i] \in D) => m \in D
      PROVE  D = Node
  <2>1. ASSUME NEW m \in Node, \A i \in DOMAIN children[m] : children[m][i] \in D PROVE m \in D
    <3>1. \A i \in DOMAIN ShownRows[m] : ShownRows[m][i] \in D
      BY <1>1, <2>1
    <3> QED BY <1>3, <3>1
  <2> QED BY <2>1 DEF Ends, Descends
<1> QED BY <1>2, <1>3 DEF Descends

\* A copy is what its original shows.
LEMMA CopyShown ==
  ASSUME Owned, Ends, Ends', TypeOK', NEW c \in alive, NEW f \in Copies(c),
         NEW owner, NEW row, CloneInto(c, f, owner, row)
  PROVE  \A x \in Cloned(c) : Render(label', children', f[x]) = Render(label, ShownRows, x)
<1> USE DEF Owned
<1> DEFINE Was(n) == Render(label, ShownRows, n)
           Is(n) == Render(label', children', n)
           D == {x \in Node : x \in Cloned(c) => Is(f[x]) = Was(x)}
<1>1. /\ Cloned(c) \subseteq Node /\ ClonedWith(Cloned(c))
      /\ f \in [Cloned(c) -> Node \ alive]
      /\ \A x, y \in Cloned(c) : f[x] = f[y] => x = y
  BY ClonedFacts DEF Copies
<1>2. ASSUME NEW m \in Node
      PROVE  /\ Was(m) = <<label[m], [i \in DOMAIN ShownRows[m] |-> Was(ShownRows[m][i])]>>
             /\ Is(m) = <<label'[m], [i \in DOMAIN children'[m] |-> Is(children'[m][i])]>>
  <2>1. ShownRows \in [Node -> Seq(Node)] /\ Descends(Node, ShownRows)
    BY ShownRowsEnd
  <2>2. children' \in [Node -> Seq(Node)]
    BY DEF TypeOK
  <2> QED BY <2>1, <2>2, ShapeValue DEF Ends
<1>3. ASSUME NEW x \in Cloned(c)
      PROVE  /\ f[x] \in Node /\ label'[f[x]] = label[x]
             /\ DOMAIN children'[f[x]] = DOMAIN ShownRows[x]
             /\ \A i \in DOMAIN ShownRows[x] : /\ children'[f[x]][i] = f[ShownRows[x][i]]
                                               /\ ShownRows[x][i] \in Cloned(c)
  <2>1. f[x] \in Image(f) /\ f[x] \in Node
    BY <1>1 DEF Image
  <2>2. Original(f, f[x]) = x
    BY <1>1 DEF Original
  <2>3. ShownRows[x] = ClonedRow(x)
    BY <1>1 DEF ShownRows, ClonedRow, Containers
  <2>4. label'[f[x]] = label[x] /\ children'[f[x]] = Copied(f, ClonedRow(x))
    BY <2>1, <2>2 DEF CloneInto
  <2>5. \A i \in DOMAIN ClonedRow(x) : ClonedRow(x)[i] \in Cloned(c)
    BY <1>1 DEF ClonedWith, Elements
  <2> QED BY <2>1, <2>3, <2>4, <2>5 DEF Copied
<1>4. ASSUME NEW x \in Node, \A i \in DOMAIN ShownRows[x] : ShownRows[x][i] \in D PROVE x \in D
  <2> SUFFICES ASSUME x \in Cloned(c) PROVE Is(f[x]) = Was(x)
    OBVIOUS
  <2>1. \A i \in DOMAIN ShownRows[x] : Is(f[ShownRows[x][i]]) = Was(ShownRows[x][i])
    BY <1>3, <1>4
  <2>2. [i \in DOMAIN children'[f[x]] |-> Is(children'[f[x]][i])]
          = [i \in DOMAIN ShownRows[x] |-> Was(ShownRows[x][i])]
    BY <1>3, <2>1
  <2> QED BY <1>2, <1>3, <2>2
<1>5. D = Node
  <2>1. D \in SUBSET Node
    OBVIOUS
  <2>2. Descends(Node, ShownRows)
    BY ShownRowsEnd
  <2> HIDE DEF D
  <2> QED BY <1>4, <2>1, <2>2 DEF Descends
<1> QED BY <1>1, <1>5

\* The copy is a new node, and what its original shows.
LEMMA CopyKept ==
  ASSUME Owned, Finite, Owned', Finite', NEW c \in alive, NEW f \in Copies(c),
         NEW owner, NEW row, CloneInto(c, f, owner, row)
  PROVE  /\ f[c] \in alive' \ alive /\ f[c] \in Node /\ Image(f) \subseteq Node \ alive
         /\ Tree(f[c])' = Shown(c)
<1>1. Ends
  BY TreesEnd
<1>2. TypeOK' /\ Ends'
  <2>1. (Owned /\ Finite => Ends)'
    BY TreesEnd, PTL
  <2> QED BY <2>1 DEF Owned
<1>3. c \in Cloned(c)
  BY ClonedFacts
<1>4. Render(label', children', f[c]) = Render(label, ShownRows, c)
  BY <1>1, <1>2, <1>3, CopyShown
<1>5. Tree(f[c])' = Shown(c)
  BY <1>4 DEF Tree, Shown, Laid, Render
<1>6. f[c] \in Image(f) /\ Image(f) \subseteq Node \ alive
  BY <1>3 DEF Copies, Image
<1> QED BY <1>5, <1>6 DEF CloneInto

Kept ==
  \A c \in alive :
    /\ Clone(c) => \E n \in held' \ held : Tree(n)' = Shown(c)
    /\ \A p \in alive :
         /\ PyAddChild(p, c) =>
              \E n \in alive' \ alive : /\ n = children'[p][Len(children'[p])]
                                       /\ Tree(n)' = Shown(c)
         /\ \A idx \in 0 .. Len(children[p]) : PyInsertChild(p, idx, c) =>
              \E n \in alive' \ alive : n = children'[p][idx + 1] /\ Tree(n)' = Shown(c)

LEMMA CloneKept == Owned /\ Finite /\ [Next]_vars => Kept
<1> SUFFICES ASSUME Owned, Finite, [Next]_vars PROVE Kept
  OBVIOUS
<1>1. Owned' /\ Finite'
  BY NextOwned, NextFinite
<1>2. ASSUME NEW c \in alive, Clone(c) PROVE \E n \in held' \ held : Tree(n)' = Shown(c)
  <2>1. PICK f \in Copies(c) : CloneInto(c, f, Null, <<>>) /\ held' = held \cup {f[c]}
    BY <1>2 DEF Clone
  <2>2. f[c] \notin alive /\ Tree(f[c])' = Shown(c)
    BY <1>1, <2>1, CopyKept
  <2>3. f[c] \notin held
    BY <2>2 DEF Owned, TypeOK
  <2> QED BY <2>1, <2>2, <2>3
<1>3. ASSUME NEW c \in alive, NEW p \in alive, PyAddChild(p, c)
      PROVE  \E n \in alive' \ alive : /\ n = children'[p][Len(children'[p])]
                                       /\ Tree(n)' = Shown(c)
  <2>1. PICK f \in Copies(c) : CloneInto(c, f, p, Append(children[p], f[c]))
    BY <1>3 DEF PyAddChild
  <2>2. /\ f[c] \in alive' \ alive /\ f[c] \in Node /\ Image(f) \subseteq Node \ alive
        /\ Tree(f[c])' = Shown(c)
    BY <1>1, <2>1, CopyKept
  <2>3. p \in Node /\ p \notin Image(f) /\ children[p] \in Seq(Node)
    BY <2>2 DEF Owned, TypeOK
  <2>4. children'[p] = Append(children[p], f[c])
    BY <2>1, <2>3 DEF CloneInto
  <2>5. children'[p][Len(children'[p])] = f[c]
    BY <2>2, <2>3, <2>4, AppendProperties
  <2> QED BY <2>2, <2>5
<1>4. ASSUME NEW c \in alive, NEW p \in alive, NEW idx \in 0 .. Len(children[p]),
             PyInsertChild(p, idx, c)
      PROVE  \E n \in alive' \ alive : n = children'[p][idx + 1] /\ Tree(n)' = Shown(c)
  <2>1. PICK f \in Copies(c) : CloneInto(c, f, p, Inserted(children[p], idx, f[c]))
    BY <1>4 DEF PyInsertChild
  <2>2. /\ f[c] \in alive' \ alive /\ f[c] \in Node /\ Image(f) \subseteq Node \ alive
        /\ Tree(f[c])' = Shown(c)
    BY <1>1, <2>1, CopyKept
  <2>3. p \in Node /\ p \notin Image(f) /\ children[p] \in Seq(Node)
    BY <2>2 DEF Owned, TypeOK
  <2>4. children'[p] = Inserted(children[p], idx, f[c])
    BY <2>1, <2>3 DEF CloneInto
  <2>5. children'[p][idx + 1] = f[c]
    BY <2>2, <2>3, <2>4, InsertedAt
  <2> QED BY <2>2, <2>5
<1> QED BY <1>2, <1>3, <1>4 DEF Kept

\* clone() copies what render() shows, at every depth and in order: so does the copy
\* a caller gets, and the one add_child and insert_child of the bindings put into a
\* tree, whatever kinds of nodes the tree has and wherever the copy goes.
THEOREM ClonesAreShown == Spec => ClonesAreWhatIsShown
<1>1. Init => Owned /\ Finite
  <2>1. Init => Finite
    BY FS_EmptySet DEF Init, Finite
  <2> QED BY <2>1, InitOwned
<1>2. Owned /\ Finite /\ [Next]_vars => Owned' /\ Finite'
  BY NextOwned, NextFinite
<1>3. Owned /\ Finite /\ [Next]_vars => [Kept]_vars
  BY CloneKept
<1>4. Spec => [][Kept]_vars
  BY <1>1, <1>2, <1>3, PTL DEF Spec
<1> QED BY <1>4 DEF ClonesAreWhatIsShown, Kept
====
