---- MODULE ParseTree_proofs ----
(***************************************************************************)
(* The tree ParseDriver returns, against the text, for every set of keys   *)
(* and every bound: what the text calls a node is where it is found        *)
(* (PathsKept), an error is reported for a cause (NoFalseReports), what    *)
(* apply_overrides deletes was overridden (NothingLost) and the last       *)
(* occurrence of a name is the one that stays (LastOccurrenceWins).        *)
(*                                                                         *)
(* What carries all four is that the members of one list have one path and *)
(* that a node is in one list.  A fold moves children between siblings of  *)
(* one name only, so it moves them to a section of the same path.          *)
(***************************************************************************)
EXTENDS ParseDriver_proofs

----------------------------------------------------------------------------
(* The inductive invariant, in five parts.                                  *)

\* Paths: what the text calls the list that frame i keeps, and how its members
\* are called.
Outside(i) == IF i = 1 THEN <<>> ELSE open[i - 1].path
In(n, p) == Named(n, "other") \/ node[n].path = Append(p, node[n].name)
FramePaths ==
  \A i \in 1 .. Len(open) : /\ open[i].path = Outside(i) \o open[i].key
                            /\ \A n \in open[i].outer : In(n, Outside(i))
ItemPaths == \A n \in kids[Items] : In(n, Here)
PathInv ==
  /\ PathsKept /\ ItemPaths /\ FramePaths
  /\ work \subseteq {Items} \cup Sections
  /\ \A s \in Sections : node[s].path # <<>>

\* Reports.
ReportInv ==
  /\ \A f \in Fields : /\ node[f].op \in {"=", ":="}
                       /\ node[f].op = ":=" => node[f].addr \in overrides
  /\ \A n \in Node : n > size => reports[n] = 0
  /\ NoFalseReports

\* Ownership: a node is in one vector, and whoever has children is owned.
OneVector ==
  /\ \A c, d \in Container : \A n \in kids[c] \cap kids[d] : c = d
  /\ \A i, j \in 1 .. Len(open) : \A n \in open[i].outer \cap open[j].outer : i = j
  /\ \A c \in Container, i \in 1 .. Len(open) : kids[c] \cap open[i].outer = {}
OwnInv ==
  /\ \A c \in Node : c > size => kids[c] = {}
  /\ \A c \in Node : kids[c] # {} => c \in Sections \cap Live
  /\ OneVector
  /\ phase \in {"ending", "ok"} => open = <<>>

\* Blocks: their content is in one owned section, of their path.
BlockInv ==
  /\ \A s \in Sections : \A x \in blocks[s] : x \in Sections /\ node[x].path = node[s].path
  /\ \A s, t \in Sections \cap Live : \A x \in blocks[s] \cap blocks[t] : s = t
  /\ \A n \in Sections : \E s \in Sections \cap Live : blocks[n] \subseteq blocks[s]

\* Survivors: a later Field of its path for each that is gone.
LastInv ==
  /\ \A f \in Fields : f \in Live \/ \E g \in Fields \cap Live :
                                       g > f /\ node[g].path = node[f].path
  /\ \A n \in 1 .. size : n \in Fields \cup Sections \cup Live

TreeInv == IInv /\ PathInv /\ ReportInv /\ OwnInv /\ BlockInv /\ LastInv

\* When no address is used twice, the set of overrides is the set of overriding Fields.
OverrideInv ==
  /\ \A f \in Fields : node[f].addr = f
  /\ overrides \subseteq {f \in Fields : node[f].op = ":="}
  /\ \A f \in Fields : f \in Live \/ \E g \in Fields \cap Live :
       g > f /\ node[g].op = ":=" /\ node[g].path = node[f].path

----------------------------------------------------------------------------
(* What wrap_in_sections builds                                             *)

\* The path of a wrapper is the key cut off behind its own segment.
LEMMA KeyPrefix ==
  ASSUME NEW base \in Seq(Name), NEW key \in Seq(Name), NEW i \in 1 .. Len(key)
  PROVE  /\ SubSeq(base \o key, 1, Len(base) + i)
              = Append(SubSeq(base \o key, 1, Len(base) + i - 1), key[i])
         /\ SubSeq(base \o key, 1, Len(base) + i) \in Seq(Name)
         /\ SubSeq(base \o key, 1, Len(base) + i) # <<>>
         /\ SubSeq(base \o key, 1, Len(base)) = base
         /\ SubSeq(base \o key, 1, Len(base) + Len(key)) = base \o key
<1> DEFINE P == base \o key
           b == Len(base)
<1>1. /\ P \in Seq(Name) /\ Len(P) = b + Len(key) /\ b \in Nat /\ Len(key) \in Nat
      /\ P[b + i] = key[i]
      /\ key[i] \in Name
  <2>1. /\ P \in Seq(Name) /\ Len(P) = b + Len(key)
        /\ \A j \in 1 .. b + Len(key) : P[j] = IF j <= b THEN base[j] ELSE key[j - b]
    BY ConcatProperties
  <2>2. b \in Nat /\ Len(key) \in Nat
    BY LenProperties
  <2>3. b + i \in 1 .. b + Len(key) /\ ~(b + i <= b) /\ b + i - b = i
    BY <2>2
  <2> QED BY <2>1, <2>2, <2>3, ElementOfSeq
<1>2. SubSeq(P, 1, b + i) = SubSeq(P, 1, b + i - 1) \o <<P[b + i]>>
  <2>1. 1 \in 1 .. Len(P) /\ b + i \in 1 .. Len(P)
    BY <1>1
  <2> HIDE DEF P, b
  <2> QED BY <1>1, <2>1, SubSeqRecursiveSecond
<1>3. /\ SubSeq(P, 1, b + i - 1) \in Seq(Name)
      /\ SubSeq(P, 1, b + i) \in Seq(Name) /\ Len(SubSeq(P, 1, b + i)) = b + i
  <2>1. \A j \in 1 .. Len(P) : P[j] \in Name
    BY <1>1, ElementOfSeq
  <2>2. /\ \A j \in 1 .. b + i : P[j] \in Name
        /\ \A j \in 1 .. b + i - 1 : P[j] \in Name
    BY <1>1, <2>1
  <2>3. b + i \in Int /\ b + i - 1 \in Int /\ 1 \in Int /\ 1 <= b + i
    BY <1>1
  <2> HIDE DEF P, b
  <2>4. SubSeq(P, 1, b + i - 1) \in Seq(Name)
    BY <2>2, <2>3, SubSeqProperties
  <2>5. SubSeq(P, 1, b + i) \in Seq(Name) /\ Len(SubSeq(P, 1, b + i)) = b + i
    BY <2>2, <2>3, SubSeqProperties
  <2> QED BY <2>4, <2>5
<1>4. SubSeq(P, 1, b + i) = Append(SubSeq(P, 1, b + i - 1), key[i])
  <2> HIDE DEF P, b
  <2> QED BY <1>1, <1>2, <1>3, AppendIsConcat
<1>5. SubSeq(P, 1, b + i) # <<>>
  <2> HIDE DEF P, b
  <2>1. b + i # 0 /\ Len(SubSeq(P, 1, b + i)) = b + i
    BY <1>1, <1>3
  <2> QED BY <2>1, EmptySeq
<1>6. SubSeq(P, 1, b) = base
  <2>1. CASE b = 0
    <3>1. base = <<>>
      BY <2>1, EmptySeq
    <3>2. SubSeq(P, 1, b) = <<>>
      <4> HIDE DEF P
      <4> QED BY <2>1, SubSeqEmpty
    <3> QED BY <3>1, <3>2
  <2>2. CASE b # 0
    <3>1. 1 \in 1 .. Len(base) /\ b \in 1 .. Len(base)
      BY <1>1, <2>2
    <3>2. SubSeq(P, 1, b) = SubSeq(base, 1, b)
      BY <3>1, SubSeqOfConcat1
    <3> QED BY <3>2, SubSeqFull
  <2> QED BY <2>1, <2>2
<1>7. SubSeq(P, 1, b + Len(key)) = P
  <2> HIDE DEF P
  <2> QED BY <1>1, SubSeqFull
<1> QED BY <1>3, <1>4, <1>5, <1>6, <1>7

\* The wrapper that is node n.
WrapperOf(path, key, n) ==
  [kind |-> "section", name |-> key[size + Len(key) + 1 - n], op |-> "none",
   addr |-> 0, path |-> SubSeq(path, 1, Len(path) + size + 1 - n)]

LEMMA WrapperFields ==
  ASSUME NEW path, NEW key, NEW n
  PROVE  /\ WrapperOf(path, key, n).kind = "section"
         /\ WrapperOf(path, key, n).name = key[size + Len(key) + 1 - n]
         /\ WrapperOf(path, key, n).path = SubSeq(path, 1, Len(path) + size + 1 - n)
BY DEF WrapperOf

LEMMA WrapForm ==
  ASSUME TypeOK, NEW rec, NEW inner, NEW siblings, NEW key \in Seq(Name),
         Len(key) >= 1, WrapInSections(rec, inner, siblings, key)
  PROVE  /\ size \in Nat /\ Len(key) \in Nat /\ size' = size + Len(key)
         /\ size' \in Nat /\ size' <= MaxNode /\ 1 .. size' \subseteq Node
         /\ node'[size + 1] = rec
         /\ \A n \in 1 .. size : node'[n] = node[n]
         /\ \A n \in size + 2 .. size' :
              node'[n] = WrapperOf(rec.path, key, n)
         /\ kids'[Items] = siblings \cup {size'}
         /\ kids'[size + 1] = inner
         /\ \A n \in size + 2 .. size' : kids'[n] = {n - 1}
         /\ \A n \in Node : n \notin size + 1 .. size' => kids'[n] = kids[n]
<1>1. /\ size \in Nat /\ Len(key) \in Nat /\ MaxNode \in Nat
      /\ size' = size + Len(key) /\ size' \in Nat /\ size' <= MaxNode
      /\ 1 .. size' \subseteq Node /\ size + 1 \in Node
  BY NodeAssumption, LenProperties DEF TypeOK, WrapInSections, Node
<1>2. node'[size + 1] = rec
  BY <1>1 DEF WrapInSections
<1>3. \A n \in 1 .. size : node'[n] = node[n]
  <2> SUFFICES ASSUME NEW n \in 1 .. size PROVE node'[n] = node[n]
    OBVIOUS
  <2>1. n \in Node /\ n # size + 1 /\ n \notin size + 2 .. size + Len(key)
    BY <1>1
  <2> QED BY <2>1 DEF WrapInSections
<1>4. \A n \in size + 2 .. size' :
        node'[n] = WrapperOf(rec.path, key, n)
  BY <1>1 DEF WrapInSections, WrapperOf
<1>5. kids'[Items] = siblings \cup {size'}
  <2>1. Items \in Container
    BY NodeAssumption DEF Items, Container
  <2> QED BY <1>1, <2>1 DEF WrapInSections, Outermost
<1>6. \A c \in Node : c # Items /\ c \in Container
  BY DEF Node, Items, Container
<1>7. kids'[size + 1] = inner
  BY <1>1, <1>6 DEF WrapInSections
<1>8. \A n \in size + 2 .. size' : kids'[n] = {n - 1}
  BY <1>1, <1>6 DEF WrapInSections
<1>9. \A n \in Node : n \notin size + 1 .. size' => kids'[n] = kids[n]
  <2> SUFFICES ASSUME NEW n \in Node, n \notin size + 1 .. size'
               PROVE  kids'[n] = kids[n]
    OBVIOUS
  <2>1. n # size + 1 /\ n \notin size + 2 .. size + Len(key)
    BY <1>1 DEF Node
  <2> QED BY <1>6, <2>1 DEF WrapInSections
<1> QED BY <1>1, <1>2, <1>3, <1>4, <1>5, <1>7, <1>8, <1>9

\* Each node built stands in the next where the text says it does, and the
\* outermost stands in the section being read.
LEMMA WrapPaths ==
  ASSUME TypeOK, NEW rec, NEW inner, NEW siblings, NEW key \in Seq(Name),
         Len(key) >= 1, WrapInSections(rec, inner, siblings, key),
         NEW base \in Seq(Name), rec.path = base \o key, rec.name = key[Len(key)]
  PROVE  /\ \A n \in size + 2 .. size' :
              /\ node'[n].kind = "section" /\ node'[n].path # <<>>
              /\ node'[n - 1].path = Append(node'[n].path, node'[n - 1].name)
         /\ node'[size'].path = Append(base, node'[size'].name)
         /\ rec.path # <<>>
<1>1. /\ size \in Nat /\ Len(key) \in Nat /\ size' = size + Len(key)
      /\ node'[size + 1] = rec
      /\ \A n \in size + 2 .. size' :
           node'[n] = WrapperOf(rec.path, key, n)
  BY WrapForm
<1>2. Len(rec.path) = Len(base) + Len(key) /\ Len(base) \in Nat
  BY ConcatProperties, LenProperties
<1>3. ASSUME NEW n \in size + 1 .. size'
      PROVE  /\ size' + 1 - n \in 1 .. Len(key)
             /\ node'[n].name = key[size' + 1 - n]
             /\ node'[n].path = SubSeq(base \o key, 1, Len(base) + (size' + 1 - n))
  <2>1. size' + 1 - n \in 1 .. Len(key)
        /\ Len(rec.path) + size + 1 - n = Len(base) + (size' + 1 - n)
    BY <1>1, <1>2
  <2>2. CASE n = size + 1
    <3>1. size' + 1 - n = Len(key)
      BY <1>1, <2>2
    <3>2. SubSeq(base \o key, 1, Len(base) + Len(key)) = base \o key
      BY <2>1, KeyPrefix
    <3> QED BY <1>1, <2>1, <2>2, <3>1, <3>2
  <2>3. CASE n # size + 1
    <3>1. n \in size + 2 .. size'
      BY <1>1, <2>3
    <3> DEFINE p == rec.path
    <3>2. node'[n] = WrapperOf(p, key, n)
      BY <1>1, <3>1
    <3>3. p = base \o key
      OBVIOUS
    <3> HIDE DEF p
    <3>4. /\ WrapperOf(p, key, n).name = key[size + Len(key) + 1 - n]
          /\ WrapperOf(p, key, n).path = SubSeq(p, 1, Len(p) + size + 1 - n)
      BY WrapperFields
    <3>5. /\ node'[n].name = key[size + Len(key) + 1 - n]
          /\ node'[n].path = SubSeq(p, 1, Len(p) + size + 1 - n)
      BY <3>2, <3>4
    <3>6. Len(p) + size + 1 - n = Len(base) + (size' + 1 - n)
      BY <1>1, <1>2, <3>3
    <3> QED BY <1>1, <2>1, <3>3, <3>5, <3>6
  <2> QED BY <2>2, <2>3
<1>4. ASSUME NEW n \in size + 2 .. size'
      PROVE  /\ node'[n].kind = "section" /\ node'[n].path # <<>>
             /\ node'[n - 1].path = Append(node'[n].path, node'[n - 1].name)
  <2> DEFINE i == size' + 1 - n
             j == size' + 1 - (n - 1)
  <2>1. n \in size + 1 .. size' /\ n - 1 \in size + 1 .. size'
    BY <1>1
  <2>2. /\ i \in 1 .. Len(key) /\ node'[n].path = SubSeq(base \o key, 1, Len(base) + i)
    BY <1>3, <2>1
  <2>3. /\ j \in 1 .. Len(key) /\ node'[n - 1].name = key[j]
        /\ node'[n - 1].path = SubSeq(base \o key, 1, Len(base) + j)
    BY <1>3, <2>1
  <2>4. Len(base) + j - 1 = Len(base) + i
    BY <1>1, <1>2
  <2> HIDE DEF i, j
  <2>5. SubSeq(base \o key, 1, Len(base) + i) # <<>>
    BY <2>2, KeyPrefix
  <2>6. SubSeq(base \o key, 1, Len(base) + j)
          = Append(SubSeq(base \o key, 1, Len(base) + j - 1), key[j])
    BY <2>3, KeyPrefix
  <2>7. node'[n].kind = "section"
    <3>1. node'[n] = WrapperOf(rec.path, key, n)
      BY <1>1
    <3> QED BY <3>1, WrapperFields
  <2> QED BY <2>2, <2>3, <2>4, <2>5, <2>6, <2>7
<1>5. node'[size'].path = Append(base, node'[size'].name)
  <2>1. size' \in size + 1 .. size' /\ size' + 1 - size' = 1 /\ Len(base) + 1 - 1 = Len(base)
        /\ 1 \in 1 .. Len(key)
    BY <1>1, <1>2
  <2>2. node'[size'].name = key[1] /\ node'[size'].path = SubSeq(base \o key, 1, Len(base) + 1)
    BY <1>3, <2>1
  <2>3. /\ SubSeq(base \o key, 1, Len(base) + 1)
             = Append(SubSeq(base \o key, 1, Len(base) + 1 - 1), key[1])
        /\ SubSeq(base \o key, 1, Len(base)) = base
    BY <2>1, KeyPrefix
  <2> QED BY <2>1, <2>2, <2>3
<1>6. rec.path # <<>>
  BY <1>1, <1>2, EmptySeq
<1> QED BY <1>4, <1>5, <1>6

----------------------------------------------------------------------------
(* Paths                                                                    *)

LEMMA Vectors ==
  ASSUME TypeOK
  PROVE  /\ \A c \in Container : kids[c] \in SUBSET (1 .. size)
         /\ size \in Nat /\ 1 .. size \subseteq Node /\ Node \subseteq Container
         /\ Items \in Container /\ Items \notin Node
BY NodeAssumption DEF TypeOK, Node, Container, Items

\* The new name of a node.
Put(n, p) == node'[n].kind = "other" \/ node'[n].path = Append(p, node'[n].name)

LEMMA WrapPathInv ==
  ASSUME IInv, PathInv, NEW rec \in Record, NEW inner \in SUBSET (1 .. size),
         NEW siblings \in SUBSET (1 .. size), NEW key \in Seq(Name),
         Len(key) >= 1, WrapInSections(rec, inner, siblings, key),
         NEW base \in Seq(Name), rec.path = base \o key, rec.name = key[Len(key)],
         \A n \in inner : In(n, rec.path), \A n \in siblings : In(n, base)
  PROVE  /\ PathsKept'
         /\ \A n \in kids'[Items] : Put(n, base)
         /\ \A s \in Sections' : node'[s].path # <<>>
         /\ Sections \subseteq Sections'
<1>1. /\ size \in Nat /\ Len(key) \in Nat /\ size' = size + Len(key)
      /\ 1 .. size' \subseteq Node
      /\ node'[size + 1] = rec
      /\ \A n \in 1 .. size : node'[n] = node[n]
      /\ kids'[Items] = siblings \cup {size'}
      /\ kids'[size + 1] = inner
      /\ \A n \in size + 2 .. size' : kids'[n] = {n - 1}
      /\ \A n \in Node : n \notin size + 1 .. size' => kids'[n] = kids[n]
  BY WrapForm DEF IInv, TypeInv
<1>2. /\ \A n \in size + 2 .. size' :
              /\ node'[n].kind = "section" /\ node'[n].path # <<>>
              /\ node'[n - 1].path = Append(node'[n].path, node'[n - 1].name)
      /\ node'[size'].path = Append(base, node'[size'].name)
      /\ rec.path # <<>>
  BY WrapPaths DEF IInv, TypeInv
<1>3. Sections \subseteq Sections'
  BY <1>1 DEF Sections, Named
<1>4. ASSUME NEW s \in Sections'
      PROVE  \/ s \in Sections /\ s \in 1 .. size
             \/ s = size + 1 \/ s \in size + 2 .. size'
  <2>1. s \in 1 .. size' /\ node'[s].kind = "section"
    BY DEF Sections, Named
  <2>2. CASE s \in 1 .. size
    BY <1>1, <2>1, <2>2 DEF Sections, Named
  <2> QED BY <1>1, <2>1, <2>2
<1>5. ASSUME NEW T \in SUBSET (1 .. size), NEW p, \A n \in T : In(n, p)
      PROVE  \A n \in T : Put(n, p)
  BY <1>1, <1>5 DEF In, Named, Put
<1>6. \A s \in Sections' : node'[s].path # <<>>
  <2> SUFFICES ASSUME NEW s \in Sections' PROVE node'[s].path # <<>>
    OBVIOUS
  <2>1. CASE s \in Sections /\ s \in 1 .. size
    BY <1>1, <2>1 DEF PathInv
  <2>2. CASE s = size + 1
    BY <1>1, <1>2, <2>2
  <2>3. CASE s \in size + 2 .. size'
    BY <1>2, <2>3
  <2> QED BY <1>4, <2>1, <2>2, <2>3
<1>7. PathsKept'
  <2> SUFFICES ASSUME NEW s \in Sections', NEW n \in kids'[s]
               PROVE  Put(n, node'[s].path)
    BY DEF PathsKept, Put, Named
  <2>1. CASE s \in Sections /\ s \in 1 .. size
    <3>1. s \in Node /\ s \notin size + 1 .. size'
      BY <1>1, <2>1
    <3>2. n \in kids[s] /\ kids[s] \in SUBSET (1 .. size)
      BY <1>1, <3>1, Vectors DEF IInv, TypeInv
    <3>3. \A m \in kids[s] : In(m, node[s].path)
      BY <2>1 DEF PathInv, PathsKept, In
    <3>4. node'[s] = node[s]
      BY <1>1, <2>1
    <3> DEFINE p == node[s].path
    <3>5. \A m \in kids[s] : In(m, p)
      BY <3>3
    <3> HIDE DEF p
    <3>6. node'[n] = node[n]
      BY <1>1, <3>2
    <3>7. Put(n, p)
      BY <3>2, <3>5, <3>6 DEF In, Named, Put
    <3> QED BY <3>4, <3>7 DEF p
  <2>2. CASE s = size + 1
    <3>1. n \in inner
      BY <1>1, <2>2
    <3>2. Put(n, rec.path)
      BY <1>5, <3>1
    <3> QED BY <1>1, <2>2, <3>2
  <2>3. CASE s \in size + 2 .. size'
    <3>1. n = s - 1
      BY <1>1, <2>3
    <3> QED BY <1>2, <2>3, <3>1 DEF Put
  <2> QED BY <1>4, <2>1, <2>2, <2>3
<1>8. \A n \in kids'[Items] : Put(n, base)
  <2>1. \A n \in siblings : Put(n, base)
    BY <1>5
  <2>2. Put(size', base)
    BY <1>2 DEF Put
  <2> QED BY <1>1, <2>1, <2>2
<1> QED BY <1>3, <1>6, <1>7, <1>8

\* The items a frame keeps are nodes already built.
LEMMA FrameOuter ==
  ASSUME TypeOK
  PROVE  \A i \in 1 .. Len(open) : open[i] \in Frame /\ open[i].outer \subseteq 1 .. size
<1>1. \A i \in 1 .. Len(open) : open[i] \in Frame
  BY ElementOfSeq DEF TypeOK
<1>2. \A f \in Frame : f.outer \subseteq 1 .. size
  BY DEF Frame
<1> QED BY <1>1, <1>2

LEMMA OutsideType ==
  ASSUME TypeOK
  PROVE  /\ \A i \in 1 .. Len(open) : Outside(i) \in Seq(Name)
         /\ Len(open) \in Nat
<1>1. Len(open) \in Nat
  BY DEF TypeOK
<1>2. \A i \in 1 .. Len(open) : open[i].path \in Seq(Name)
  BY FrameOuter DEF Frame
<1>3. ASSUME NEW i \in 1 .. Len(open) PROVE Outside(i) \in Seq(Name)
  <2>1. CASE i = 1
    BY <2>1 DEF Outside
  <2>2. CASE i # 1
    BY <1>1, <1>2, <2>2 DEF Outside
  <2> QED BY <2>1, <2>2
<1> QED BY <1>1, <1>3

LEMMA BuildFieldPaths ==
  ASSUME IInv, PathInv, NEW key \in FieldKey, NEW op \in {"=", ":="},
         NEW a \in {size + 1} \cup Freed, BuildField(key, op, a)
  PROVE  PathInv'
<1> DEFINE rec == [kind |-> "field", name |-> key[Len(key)], op |-> op,
                   addr |-> a, path |-> Here \o key]
<1>1. key \in Seq(Name) /\ Len(key) \in Nat /\ Len(key) >= 1
  BY KeyType
<1>2. WrapInSections(rec, {}, kids[Items], key)
      /\ UNCHANGED <<open, phase, work>>
  BY DEF BuildField
<1>3. Here \in Seq(Name) /\ kids[Items] \in SUBSET (1 .. size)
  BY HereType, NodeAssumption DEF IInv, TypeInv, TypeOK, Items, Container
<1>4. rec.path = Here \o key /\ rec.name = key[Len(key)] /\ rec \in Record
  <2>1. TypeInv'
    BY BuildFieldType DEF IInv
  <2>2. node'[size + 1] = rec /\ size + 1 \in Node
    <3> HIDE DEF rec
    <3>1. node'[size + 1] = rec /\ size + 1 \in 1 .. size' /\ 1 .. size' \subseteq Node
      BY <1>1, <1>2, WrapForm DEF IInv, TypeInv
    <3> QED BY <3>1
  <2>3. node'[size + 1] \in Record
    BY <2>1, <2>2 DEF TypeInv, TypeOK
  <2> QED BY <2>2, <2>3
<1> HIDE DEF rec
<1>5. /\ PathsKept'
      /\ ItemPaths'
      /\ \A s \in Sections' : node'[s].path # <<>>
      /\ Sections \subseteq Sections'
  <2> DEFINE base == Here
  <2>1. \A n \in kids[Items] : In(n, base)
    BY DEF PathInv, ItemPaths
  <2>2. Here' = base
    BY <1>2 DEF Here
  <2>3. base \in Seq(Name) /\ rec.path = base \o key
    BY <1>3, <1>4
  <2> HIDE DEF base
  <2> DEFINE none == {}
  <2>6. none \in SUBSET (1 .. size) /\ (\A n \in none : In(n, rec.path))
        /\ WrapInSections(rec, none, kids[Items], key)
    BY <1>2
  <2> HIDE DEF none
  <2>4. /\ PathsKept'
        /\ \A n \in kids'[Items] : Put(n, base)
        /\ \A s \in Sections' : node'[s].path # <<>>
        /\ Sections \subseteq Sections'
    BY <1>1, <1>3, <1>4, <2>1, <2>3, <2>6, WrapPathInv
  <2>5. ItemPaths'
    BY <2>2, <2>4 DEF ItemPaths, In, Put, Named
  <2> QED BY <2>4, <2>5
<1>6. FramePaths'
  <2> SUFFICES ASSUME NEW i \in 1 .. Len(open)
               PROVE  /\ open[i].path = Outside(i) \o open[i].key
                      /\ \A n \in open[i].outer : In(n, Outside(i))'
    BY <1>2 DEF FramePaths, Outside
  <2>1. /\ open[i].path = Outside(i) \o open[i].key
        /\ \A n \in open[i].outer : In(n, Outside(i))
    BY DEF PathInv, FramePaths
  <2>2. Outside(i)' = Outside(i)
    BY <1>2 DEF Outside
  <2>3. \A n \in open[i].outer : node'[n] = node[n]
    <3>1. \A n \in 1 .. size : node'[n] = node[n]
      BY <1>1, <1>2, WrapForm DEF IInv, TypeInv
    <3> QED BY <3>1, FrameOuter DEF IInv, TypeInv
  <2> QED BY <2>1, <2>2, <2>3 DEF In, Named
<1> QED BY <1>2, <1>5, <1>6 DEF PathInv

\* What BuildSection needs to know of the frame it takes off the stack.
LEMMA TopFrame ==
  ASSUME TypeInv, open # <<>>, open' = SubSeq(open, 1, Len(open) - 1)
  PROVE  /\ Len(open) \in Nat /\ Len(open) >= 1 /\ Len(open') = Len(open) - 1
         /\ \A i \in 1 .. Len(open') : open'[i] = open[i]
         /\ open' = <<>> <=> Len(open) = 1
<1>1. open \in Seq(Frame) /\ Len(open) \in Nat /\ Len(open) >= 1
  BY EmptySeq DEF TypeInv, TypeOK
<1>2. \A i \in 1 .. Len(open) - 1 : open[i] \in Frame
  BY <1>1, ElementOfSeq
<1>3. ASSUME NEW t, NEW m \in Int, t = SubSeq(open, 1, m), m = Len(open) - 1
      PROVE  /\ t \in Seq(Frame) /\ Len(t) = m
             /\ \A i \in 1 .. m : t[i] = open[i]
  <2>1. /\ t \in Seq(Frame) /\ Len(t) = IF 1 <= m THEN m - 1 + 1 ELSE 0
        /\ \A i \in 1 .. m - 1 + 1 : t[i] = open[1 + i - 1]
    BY <1>2, <1>3, SubSeqProperties
  <2> QED BY <1>1, <1>3, <2>1
<1>4. /\ open' \in Seq(Frame) /\ Len(open') = Len(open) - 1
      /\ \A i \in 1 .. Len(open') : open'[i] = open[i]
  <2>1. Len(open) - 1 \in Int
    BY <1>1
  <2> QED BY <1>3, <2>1
<1>5. open' = <<>> <=> Len(open) = 1
  <2>1. Len(open') = 0 <=> open' = <<>>
    <3> DEFINE t == open'
    <3>1. t \in Seq(Frame)
      BY <1>4
    <3> HIDE DEF t
    <3>2. Len(t) = 0 <=> t = <<>>
      BY <3>1, EmptySeq
    <3> QED BY <3>2 DEF t
  <2> QED BY <1>1, <1>4, <2>1
<1> QED BY <1>1, <1>4, <1>5

LEMMA BuildSectionPaths ==
  ASSUME IInv, PathInv, BuildSection
  PROVE  PathInv'
<1> DEFINE frame == open[Len(open)]
           rec == [kind |-> "section", name |-> frame.key[Len(frame.key)],
                   op |-> "none", addr |-> 0, path |-> frame.path]
           base == Outside(Len(open))
<1>1. open # <<>> /\ work = {} /\ work' = {} /\ TypeInv
  BY DEF BuildSection, IInv, PhaseOK
<1>2. /\ Len(open) \in Nat /\ Len(open) >= 1 /\ Len(open') = Len(open) - 1
      /\ \A i \in 1 .. Len(open') : open'[i] = open[i]
      /\ open' = <<>> <=> Len(open) = 1
  BY <1>1, TopFrame DEF BuildSection
<1>3. frame.key \in Seq(Name) /\ Len(frame.key) >= 1 /\ frame.outer \in SUBSET (1 .. size)
  BY <1>1, FrameType, KeyType
<1>4. WrapInSections(rec, kids[Items], frame.outer, frame.key)
  BY DEF BuildSection
<1>5. /\ frame.path = base \o frame.key
      /\ \A n \in frame.outer : In(n, base)
      /\ \A n \in kids[Items] : In(n, frame.path)
  <2>1. Len(open) \in 1 .. Len(open)
    BY <1>2
  <2>2. Here = frame.path
    BY <1>1 DEF Here
  <2>3. \A n \in kids[Items] : In(n, Here)
    BY DEF PathInv, ItemPaths
  <2> QED BY <2>1, <2>2, <2>3 DEF PathInv, FramePaths
<1>6. base \in Seq(Name) /\ kids[Items] \in SUBSET (1 .. size)
  BY <1>1, <1>2, OutsideType, Vectors DEF TypeInv
<1>7. rec.path = frame.path /\ rec.name = frame.key[Len(frame.key)] /\ rec \in Record
  <2>1. TypeInv'
    BY <1>1, BuildSectionType
  <2>2. node'[size + 1] = rec /\ size + 1 \in Node
    <3> HIDE DEF rec, frame
    <3>1. node'[size + 1] = rec /\ size + 1 \in 1 .. size' /\ 1 .. size' \subseteq Node
      BY <1>1, <1>3, <1>4, WrapForm DEF TypeInv
    <3> QED BY <3>1
  <2>3. node'[size + 1] \in Record
    BY <2>1, <2>2 DEF TypeInv, TypeOK
  <2> QED BY <2>2, <2>3
<1>8. Here' = base
  BY <1>1, <1>2 DEF Here, Outside
<1> HIDE DEF rec, base
<1>9. /\ PathsKept'
      /\ \A n \in kids'[Items] : Put(n, base)
      /\ \A s \in Sections' : node'[s].path # <<>>
  <2> DEFINE fk == frame.key
             fo == frame.outer
  <2>1. /\ fk \in Seq(Name) /\ Len(fk) >= 1 /\ fo \in SUBSET (1 .. size)
        /\ WrapInSections(rec, kids[Items], fo, fk)
        /\ rec.path = base \o fk /\ rec.name = fk[Len(fk)]
        /\ (\A n \in fo : In(n, base)) /\ (\A n \in kids[Items] : In(n, rec.path))
    BY <1>3, <1>4, <1>5, <1>7
  <2> HIDE DEF fk, fo, frame
  <2> QED BY <1>6, <1>7, <2>1, WrapPathInv
<1>10. ItemPaths'
  BY <1>8, <1>9 DEF ItemPaths, In, Put, Named
<1>11. FramePaths'
  <2> SUFFICES ASSUME NEW i \in 1 .. Len(open')
               PROVE  /\ open'[i].path = Outside(i)' \o open'[i].key
                      /\ \A n \in open'[i].outer : Put(n, Outside(i)')
    BY DEF FramePaths, In, Put, Named
  <2>1. i \in 1 .. Len(open) /\ open'[i] = open[i]
    BY <1>2
  <2>2. /\ open[i].path = Outside(i) \o open[i].key
        /\ \A n \in open[i].outer : In(n, Outside(i))
    BY <2>1 DEF PathInv, FramePaths
  <2>3. Outside(i)' = Outside(i)
    BY <1>2 DEF Outside
  <2>4. \A n \in open[i].outer : node'[n] = node[n]
    <3>1. \A n \in 1 .. size : node'[n] = node[n]
      <4> HIDE DEF frame
      <4> QED BY <1>1, <1>3, <1>4, WrapForm DEF TypeInv
    <3> QED BY <2>1, <3>1, FrameOuter DEF IInv, TypeInv
  <2> QED BY <2>1, <2>2, <2>3, <2>4 DEF In, Put, Named
<1> QED BY <1>1, <1>9, <1>10, <1>11 DEF PathInv

\* The steps that leave what is built as it is.
LEMMA BuildOtherForm ==
  ASSUME TypeOK, BuildOther
  PROVE  /\ size \in Nat /\ size' = size + 1 /\ size + 1 \in Node
         /\ \A n \in 1 .. size : node'[n] = node[n]
         /\ node'[size + 1].kind = "other"
         /\ kids'[Items] = kids[Items] \cup {size + 1}
         /\ \A c \in Node : kids'[c] = kids[c]
         /\ Sections' = Sections /\ Fields' = Fields
<1>1. size \in Nat /\ size' = size + 1 /\ size + 1 \in Node
      /\ 1 .. size \subseteq Node
  BY NodeAssumption DEF TypeOK, BuildOther, Node
<1>2. \A n \in 1 .. size : node'[n] = node[n]
  BY <1>1 DEF BuildOther, TypeOK
<1>3. node'[size + 1].kind = "other"
  BY <1>1 DEF BuildOther, TypeOK
<1>4. kids'[Items] = kids[Items] \cup {size + 1} /\ \A c \in Node : kids'[c] = kids[c]
  BY Vectors DEF BuildOther, TypeOK
<1>5. Sections' = Sections /\ Fields' = Fields
  <2>1. \A n \in 1 .. size' : n \in 1 .. size \/ n = size + 1
    BY <1>1
  <2>2. \A n \in 1 .. size : n \in 1 .. size'
    BY <1>1
  <2> QED BY <1>2, <1>3, <2>1, <2>2 DEF Sections, Fields, Named
<1> QED BY <1>1, <1>2, <1>3, <1>4, <1>5

LEMMA BuildOtherPaths ==
  ASSUME IInv, PathInv, BuildOther
  PROVE  PathInv'
<1>1. /\ size \in Nat /\ size' = size + 1 /\ size + 1 \in Node
      /\ \A n \in 1 .. size : node'[n] = node[n]
      /\ node'[size + 1].kind = "other"
      /\ kids'[Items] = kids[Items] \cup {size + 1}
      /\ \A c \in Node : kids'[c] = kids[c]
      /\ Sections' = Sections
  BY BuildOtherForm DEF IInv, TypeInv
<1>2. /\ \A c \in Container : kids[c] \in SUBSET (1 .. size)
      /\ 1 .. size \subseteq Node /\ Node \subseteq Container
      /\ Items \in Container
  BY Vectors DEF IInv, TypeInv
<1>3. UNCHANGED <<open, phase, work>>
  BY DEF BuildOther
<1>4. ASSUME NEW n \in 1 .. size, NEW p, In(n, p) PROVE In(n, p)'
  BY <1>1, <1>4 DEF In, Named
<1>5. \A s \in Sections : s \in 1 .. size /\ s \in Node /\ node'[s] = node[s]
                           /\ kids'[s] = kids[s]
  BY <1>1, <1>2 DEF Sections
<1>6. PathsKept'
  <2> SUFFICES ASSUME NEW s \in Sections', NEW n \in kids'[s]
               PROVE  Put(n, node'[s].path)
    BY DEF PathsKept, Put, Named
  <2>3. s \in Sections /\ n \in kids[s] /\ node'[s] = node[s]
    BY <1>1, <1>5
  <2>1. n \in 1 .. size
    BY <1>2, <1>5, <2>3
  <2>2. Named(n, "other") \/ node[n].path = Append(node[s].path, node[n].name)
    BY <2>3 DEF PathInv, PathsKept
  <2> QED BY <1>1, <2>1, <2>2, <2>3 DEF Put, Named
<1>7. ItemPaths'
  <2> SUFFICES ASSUME NEW n \in kids'[Items] PROVE Put(n, Here)
    BY <1>3 DEF ItemPaths, In, Put, Named, Here
  <2>1. CASE n \in kids[Items]
    <3>1. In(n, Here) /\ n \in 1 .. size
      BY <1>2, <2>1 DEF PathInv, ItemPaths
    <3> QED BY <1>1, <3>1 DEF In, Put, Named
  <2>2. CASE n = size + 1
    BY <1>1, <2>2 DEF Put
  <2> QED BY <1>1, <2>1, <2>2
<1>8. FramePaths'
  <2> SUFFICES ASSUME NEW i \in 1 .. Len(open), NEW n \in open[i].outer
               PROVE  Put(n, Outside(i))
    BY <1>3 DEF FramePaths, PathInv, In, Put, Named, Outside
  <2>1. In(n, Outside(i)) /\ n \in 1 .. size
    BY FrameOuter DEF PathInv, FramePaths, IInv, TypeInv
  <2> QED BY <1>1, <2>1 DEF In, Put, Named
<1>9. /\ work' \subseteq {Items} \cup Sections'
      /\ \A s \in Sections' : node'[s].path # <<>>
  BY <1>1, <1>3, <1>5 DEF PathInv
<1> QED BY <1>6, <1>7, <1>8, <1>9 DEF PathInv

LEMMA OpenSectionForm ==
  ASSUME TypeOK, NEW key \in SectionKey, OpenSection(key)
  PROVE  /\ Len(open) \in Nat /\ Len(open') = Len(open) + 1
         /\ \A i \in 1 .. Len(open) : open'[i] = open[i]
         /\ open'[Len(open')] = [key |-> key, path |-> Here \o key, outer |-> kids[Items]]
         /\ open' # <<>>
         /\ kids'[Items] = {} /\ \A c \in Node : kids'[c] = kids[c]
         /\ \A c \in Container : kids'[c] = kids[c] \/ kids'[c] = {}
<1> DEFINE f == [key |-> key, path |-> Here \o key, outer |-> kids[Items]]
<1>1. Here \o key \in Seq(Name)
  BY HereType, KeyType, ConcatProperties
<1>2. f \in Frame
  BY <1>1, Vectors DEF Frame
<1>3. open' = Append(open, f) /\ open \in Seq(Frame)
  BY DEF OpenSection, TypeOK
<1> HIDE DEF f
<1>4. /\ open' # <<>> /\ Len(open) \in Nat /\ Len(open') = Len(open) + 1
      /\ \A i \in 1 .. Len(open) : open'[i] = open[i]
      /\ open'[Len(open) + 1] = f
  BY <1>2, <1>3, AppendProperties, LenProperties
<1>5. /\ kids'[Items] = {} /\ \A c \in Node : kids'[c] = kids[c]
      /\ \A c \in Container : kids'[c] = kids[c] \/ kids'[c] = {}
  BY Vectors DEF OpenSection, TypeOK
<1> QED BY <1>4, <1>5 DEF f

LEMMA OpenSectionPaths ==
  ASSUME IInv, PathInv, NEW key \in SectionKey, OpenSection(key)
  PROVE  PathInv'
<1> DEFINE f == [key |-> key, path |-> Here \o key, outer |-> kids[Items]]
<1>1. /\ Len(open) \in Nat /\ Len(open') = Len(open) + 1
      /\ \A i \in 1 .. Len(open) : open'[i] = open[i]
      /\ open'[Len(open')] = f
      /\ kids'[Items] = {} /\ \A c \in Node : kids'[c] = kids[c]
  BY OpenSectionForm DEF IInv, TypeInv
<1>2. UNCHANGED <<size, node, phase, work>>
  BY DEF OpenSection
<1>3. PathsKept' /\ Sections' = Sections
  <2>1. Sections' = Sections /\ \A n : Named(n, "other")' = Named(n, "other")
    BY <1>2 DEF Sections, Named
  <2>2. \A s \in Sections : s \in Node /\ kids'[s] = kids[s]
    <3>1. 1 .. size \subseteq Node
      BY Vectors DEF IInv, TypeInv
    <3>2. Sections \subseteq 1 .. size
      BY DEF Sections
    <3> QED BY <1>1, <3>1, <3>2
  <2>3. \A s \in Sections : \A n \in kids[s] :
          Named(n, "other") \/ node[n].path = Append(node[s].path, node[n].name)
    BY DEF PathInv, PathsKept
  <2>4. ASSUME NEW s \in Sections, NEW n \in kids'[s]
        PROVE  Named(n, "other")' \/ node'[n].path = Append(node'[s].path, node'[n].name)
    BY <1>2, <2>1, <2>2, <2>3
  <2> QED BY <2>1, <2>4 DEF PathsKept
<1>4. ItemPaths'
  BY <1>1 DEF ItemPaths
<1>5. FramePaths'
  <2> SUFFICES ASSUME NEW i \in 1 .. Len(open')
               PROVE  /\ open'[i].path = Outside(i)' \o open'[i].key
                      /\ \A n \in open'[i].outer : Put(n, Outside(i)')
    BY DEF FramePaths, In, Put, Named
  <2>1. CASE i <= Len(open)
    <3>1. i \in 1 .. Len(open) /\ open'[i] = open[i]
      BY <1>1, <2>1
    <3>2. /\ open[i].path = Outside(i) \o open[i].key
          /\ \A n \in open[i].outer : In(n, Outside(i))
      BY <3>1 DEF PathInv, FramePaths
    <3>3. Outside(i)' = Outside(i)
      BY <1>1, <3>1 DEF Outside
    <3> QED BY <1>2, <3>1, <3>2, <3>3 DEF In, Put, Named
  <2>2. CASE i = Len(open) + 1
    <3>1. open'[i] = f
      BY <1>1, <2>2
    <3>2. Outside(i)' = Here
      <4>1. CASE open = <<>>
        <5>1. Len(open) = 0
          BY <4>1
        <5> QED BY <2>2, <4>1, <5>1 DEF Outside, Here
      <4>2. CASE open # <<>>
        <5>1. Len(open) # 0
          BY <4>2, EmptySeq DEF IInv, TypeInv, TypeOK
        <5>2. i # 1 /\ i - 1 = Len(open) /\ Len(open) \in 1 .. Len(open)
          BY <1>1, <2>2, <5>1
        <5> QED BY <1>1, <4>2, <5>2 DEF Outside, Here
      <4> QED BY <4>1, <4>2
    <3>3. f.path = Here \o f.key /\ f.outer = kids[Items]
      OBVIOUS
    <3>4. \A n \in kids[Items] : In(n, Here)
      BY DEF PathInv, ItemPaths
    <3> HIDE DEF f
    <3> QED BY <1>2, <3>1, <3>2, <3>3, <3>4 DEF In, Put, Named
  <2> QED BY <1>1, <2>1, <2>2
<1> QED BY <1>2, <1>3, <1>4, <1>5 DEF PathInv

LEMMA PhaseStepForm ==
  ASSUME CloseSection \/ EndOfFile \/ SetRoot \/ LexError \/ SyntaxError
           \/ UNCHANGED vars
  PROVE  /\ UNCHANGED <<size, node, kids, wrapper, blocks, overrides, open, reports>>
         /\ work' \in {work, {Items}}
BY DEF CloseSection, EndOfFile, SetRoot, LexError, SyntaxError, tree, vars

LEMMA PhaseStepPaths ==
  ASSUME IInv, PathInv, CloseSection \/ EndOfFile \/ SetRoot \/ LexError \/ SyntaxError
                 \/ UNCHANGED vars
  PROVE  PathInv'
<1>1. /\ UNCHANGED <<size, node, kids, open>>
      /\ work' \in {work, {Items}}
  BY PhaseStepForm
<1>2. PathsKept' /\ ItemPaths' /\ FramePaths' /\ Sections' = Sections
  BY <1>1 DEF PathInv, PathsKept, ItemPaths, FramePaths, In, Named, Outside, Here, Sections
<1>3. \A s \in Sections' : node'[s].path # <<>>
  BY <1>1, <1>2 DEF PathInv
<1>4. work' \subseteq {Items} \cup Sections'
  BY <1>1, <1>2 DEF PathInv
<1> QED BY <1>2, <1>3, <1>4 DEF PathInv

----------------------------------------------------------------------------
(* What a visit of apply_overrides does to the lists                        *)

LEMMA VisitForm ==
  ASSUME TypeOK, NEW c \in Container, ApplyOverrides(c)
  PROVE  /\ UNCHANGED <<size, node, overrides, open, phase>>
         /\ kids[c] \in SUBSET (1 .. size) /\ kids[c] \subseteq Nat
         /\ kids'[c] = Kept(kids[c])
         /\ \A d \in Container : d # c => kids'[d] =
              IF d \in kids[c] /\ Folded(kids[c], d) THEN {}
              ELSE kids[d] \cup UNION {kids[n] : n \in Guests(kids[c], d)}
         /\ Remaining(kids[c]) \subseteq Sections
         /\ Sections' = Sections /\ Fields' = Fields
BY Vectors DEF ApplyOverrides, Remaining, Kept, Sections, Fields, Named

\* The members of one list that have one name and kind have one path.
LEMMA SiblingPath ==
  ASSUME PathInv, NEW c \in {Items} \cup Sections, NEW m \in kids[c], NEW n \in kids[c],
         ~Named(m, "other"), ~Named(n, "other"), SameName(m, n)
  PROVE  node[m].path = node[n].path
<1>1. CASE c = Items
  BY <1>1 DEF PathInv, ItemPaths, In, SameName
<1>2. CASE c \in Sections
  BY <1>2 DEF PathInv, PathsKept, SameName
<1> QED BY <1>1, <1>2

LEMMA VisitPaths ==
  ASSUME IInv, PathInv, NEW c \in Container, ApplyOverrides(c)
  PROVE  PathInv'
<1> DEFINE S == kids[c]
<1>1. /\ UNCHANGED <<size, node, overrides, open, phase>>
      /\ S \in SUBSET (1 .. size)
      /\ kids'[c] = Kept(S)
      /\ \A d \in Container : d # c => kids'[d] =
           IF d \in S /\ Folded(S, d) THEN {}
           ELSE kids[d] \cup UNION {kids[n] : n \in Guests(S, d)}
      /\ Remaining(S) \subseteq Sections
      /\ Sections' = Sections
  BY VisitForm DEF IInv, TypeInv
<1>2. c \in {Items} \cup Sections /\ work' = (work \ {c}) \cup Remaining(S)
  BY DEF ApplyOverrides, PathInv
<1>3. Kept(S) \subseteq S
  BY DEF Kept
<1>4. \A d, g : g \in Guests(S, d) =>
        /\ d \in S /\ g \in S /\ Named(d, "section") /\ Named(g, "section")
        /\ SameName(d, g)
  BY DEF Guests, Earlier
<1> HIDE DEF S
<1>5. PathsKept'
  <2> SUFFICES ASSUME NEW s \in Sections, NEW n \in kids'[s]
               PROVE  In(n, node[s].path)
    BY <1>1 DEF PathsKept, In, Named
  <2>0. s \in Container
    BY Vectors DEF Sections, IInv, TypeInv
  <2>1. \A t \in Sections : \A k \in kids[t] : In(k, node[t].path)
    BY DEF PathInv, PathsKept, In
  <2>2. CASE n \in kids[s]
    BY <2>1, <2>2
  <2>3. CASE n \notin kids[s]
    <3>1. s # c
      BY <1>1, <1>3, <2>3 DEF S
    <3>6. kids'[s] \subseteq kids[s] \cup UNION {kids[g] : g \in Guests(S, s)}
      BY <1>1, <2>0, <3>1
    <3>7. n \in UNION {kids[g] : g \in Guests(S, s)}
      BY <2>3, <3>6
    <3>2. PICK g \in Guests(S, s) : n \in kids[g]
      BY <3>7
    <3>3. g \in Sections
      BY <1>1, <1>4, <3>2 DEF Sections
    <3>4. node[g].path = node[s].path
      <4>1. g \in kids[c] /\ s \in kids[c] /\ ~Named(g, "other") /\ ~Named(s, "other")
            /\ SameName(g, s)
        BY <1>4, <3>2 DEF S, Named, SameName
      <4> QED BY <1>2, <4>1, SiblingPath
    <3>5. In(n, node[g].path)
      BY <2>1, <3>2, <3>3
    <3> QED BY <3>4, <3>5
  <2> QED BY <2>2, <2>3
<1>6. kids'[Items] \subseteq kids[Items]
  <2>1. CASE c = Items
    BY <1>1, <1>3, <2>1 DEF S
  <2>2. CASE c # Items
    <3>1. Items \notin S /\ Items \in Container
      BY <1>1, Vectors DEF IInv, TypeInv
    <3>2. Guests(S, Items) = {}
      BY <1>4, <3>1
    <3> QED BY <1>1, <2>2, <3>1, <3>2
  <2> QED BY <2>1, <2>2
<1>7. ItemPaths'
  <2>1. Here' = Here
    BY <1>1 DEF Here
  <2> QED BY <1>1, <1>6, <2>1 DEF PathInv, ItemPaths, In, Named
<1>8. FramePaths'
  BY <1>1 DEF PathInv, FramePaths, Outside, In, Named
<1>9. /\ work' \subseteq {Items} \cup Sections'
      /\ \A s \in Sections' : node'[s].path # <<>>
  BY <1>1, <1>2 DEF PathInv
<1> QED BY <1>5, <1>7, <1>8, <1>9 DEF PathInv

LEMMA NextPaths == IInv /\ PathInv /\ [Next]_vars => PathInv'
<1> SUFFICES ASSUME IInv, PathInv, [Next]_vars PROVE PathInv'
  OBVIOUS
<1>1. ASSUME NEW key \in FieldKey, NEW op \in {"=", ":="},
             NEW a \in {size + 1} \cup (IF Reuse THEN Freed ELSE {}),
             BuildField(key, op, a)
      PROVE  PathInv'
  <2>1. a \in {size + 1} \cup Freed
    BY ReuseAssumption
  <2> QED BY <1>1, <2>1, BuildFieldPaths
<1>2. CASE BuildOther
  BY <1>2, BuildOtherPaths
<1>3. ASSUME NEW key \in SectionKey, OpenSection(key) PROVE PathInv'
  BY <1>3, OpenSectionPaths
<1>4. ASSUME NEW c \in Container, ApplyOverrides(c) PROVE PathInv'
  BY <1>4, VisitPaths
<1>5. CASE BuildSection
  BY <1>5, BuildSectionPaths
<1>6. CASE CloseSection \/ EndOfFile \/ SetRoot \/ LexError \/ SyntaxError
             \/ UNCHANGED vars
  BY <1>6, PhaseStepPaths
<1> QED BY <1>1, <1>2, <1>3, <1>4, <1>5, <1>6 DEF Next, Done

----------------------------------------------------------------------------
(* Reports                                                                  *)

\* What a construction adds to the kinds of nodes.
LEMMA WrapKinds ==
  ASSUME TypeOK, NEW rec, NEW inner, NEW siblings, NEW key \in Seq(Name),
         Len(key) >= 1, WrapInSections(rec, inner, siblings, key)
  PROVE  /\ Fields \subseteq Fields' /\ Sections \subseteq Sections'
         /\ \A f \in Fields' : f \in Fields \/ (f = size + 1 /\ rec.kind = "field")
         /\ \A s \in Sections' : \/ s \in Sections
                                 \/ s = size + 1 /\ rec.kind = "section"
                                 \/ s \in size + 2 .. size'
         /\ size + 2 .. size' \subseteq Sections'
         /\ rec.kind = "field" => size + 1 \in Fields'
         /\ rec.kind = "section" => size + 1 \in Sections'
<1>1. /\ size \in Nat /\ Len(key) \in Nat /\ size' = size + Len(key)
      /\ node'[size + 1] = rec
      /\ \A n \in 1 .. size : node'[n] = node[n]
  BY WrapForm
<1>2. \A n \in size + 2 .. size' : node'[n].kind = "section"
  <2>1. \A n \in size + 2 .. size' : node'[n] = WrapperOf(rec.path, key, n)
    BY WrapForm
  <2> QED BY <2>1, WrapperFields
<1>3. \A n \in 1 .. size' : n \in 1 .. size \/ n = size + 1 \/ n \in size + 2 .. size'
  BY <1>1
<1>4. 1 .. size \subseteq 1 .. size' /\ size + 1 \in 1 .. size'
      /\ size + 2 .. size' \subseteq 1 .. size'
  BY <1>1
<1>5. Fields \subseteq Fields' /\ Sections \subseteq Sections'
  BY <1>1, <1>4 DEF Fields, Sections, Named
<1>6. \A f \in Fields' : f \in Fields \/ (f = size + 1 /\ rec.kind = "field")
  BY <1>1, <1>2, <1>3 DEF Fields, Named
<1>7. \A s \in Sections' : \/ s \in Sections
                           \/ s = size + 1 /\ rec.kind = "section"
                           \/ s \in size + 2 .. size'
  BY <1>1, <1>3 DEF Sections, Named
<1>8. size + 2 .. size' \subseteq Sections'
  BY <1>2, <1>4 DEF Sections, Named
<1>9. (rec.kind = "field" => size + 1 \in Fields')
      /\ (rec.kind = "section" => size + 1 \in Sections')
  BY <1>1, <1>4 DEF Fields, Sections, Named
<1> QED BY <1>5, <1>6, <1>7, <1>8, <1>9

\* What was reported stays a report with a cause while nodes only join.
LEMMA ReportsStay ==
  ASSUME IInv, ReportInv, reports' = reports, size' \in Nat, size' >= size,
         \A n \in 1 .. size : node'[n] = node[n], Fields' \subseteq Node,
         Fields \subseteq Fields', \A f \in Fields' : f \in Fields \/ f > size
  PROVE  /\ NoFalseReports'
         /\ \A n \in Node' : n > size' => reports'[n] = 0
<1>1. size \in Nat /\ Node' = Node /\ Node \subseteq Nat /\ Fields' \subseteq Nat
  BY DEF IInv, TypeInv, TypeOK, Node, Fields
<1>2. \A n \in Node : n > size' => reports'[n] = 0
  BY <1>1 DEF ReportInv
<1>3. ASSUME NEW f \in Fields', reports'[f] > 0
      PROVE  node'[f].op = "=" /\ \E g \in Fields' : g < f /\ node'[g].path = node'[f].path
  <2>1. f \in Fields
    <3>1. ASSUME f > size PROVE FALSE
      <4>1. f \in Node
        OBVIOUS
      <4> QED BY <1>3, <3>1, <4>1 DEF ReportInv
    <3> QED BY <1>3, <3>1
  <2>2. /\ node[f].op = "="
        /\ \E g \in Fields : g < f /\ node[g].path = node[f].path
    BY <1>3, <2>1 DEF ReportInv, NoFalseReports
  <2>3. \A g \in Fields : node'[g] = node[g] /\ g \in Fields'
    BY DEF Fields
  <2> QED BY <2>1, <2>2, <2>3
<1> QED BY <1>1, <1>2, <1>3 DEF NoFalseReports

LEMMA BuildFieldReports ==
  ASSUME IInv, ReportInv, NEW key \in FieldKey, NEW op \in {"=", ":="},
         NEW a, BuildField(key, op, a)
  PROVE  ReportInv'
<1> DEFINE rec == [kind |-> "field", name |-> key[Len(key)], op |-> op,
                   addr |-> a, path |-> Here \o key]
<1>1. key \in Seq(Name) /\ Len(key) \in Nat /\ Len(key) >= 1
  BY KeyType
<1>2. WrapInSections(rec, {}, kids[Items], key) /\ reports' = reports
      /\ overrides' = Tagged(op, a)
  BY DEF BuildField
<1>3. rec.kind = "field" /\ rec.op = op /\ rec.addr = a
  OBVIOUS
<1> HIDE DEF rec
<1>4. /\ size \in Nat /\ size' = size + Len(key) /\ node'[size + 1] = rec
      /\ \A n \in 1 .. size : node'[n] = node[n]
      /\ 1 .. size' \subseteq Node
  BY <1>1, <1>2, WrapForm DEF IInv, TypeInv
<1>5. /\ Fields \subseteq Fields'
      /\ \A f \in Fields' : f \in Fields \/ f = size + 1
  BY <1>1, <1>2, WrapKinds DEF IInv, TypeInv
<1>6. NoFalseReports' /\ \A n \in Node' : n > size' => reports'[n] = 0
  <2>1. Fields' \subseteq Node
    BY <1>4 DEF Fields
  <2> QED BY <1>1, <1>2, <1>4, <1>5, <2>1, ReportsStay
<1>7. overrides \subseteq overrides' /\ (op = ":=" => a \in overrides')
  BY <1>2 DEF Tagged
<1>8. ASSUME NEW f \in Fields'
      PROVE  node'[f].op \in {"=", ":="} /\ (node'[f].op = ":=" => node'[f].addr \in overrides')
  <2>1. CASE f \in Fields
    <3>1. node'[f] = node[f]
      BY <1>4, <2>1 DEF Fields
    <3>2. node[f].op \in {"=", ":="} /\ (node[f].op = ":=" => node[f].addr \in overrides)
      BY <2>1 DEF ReportInv
    <3> QED BY <1>7, <3>1, <3>2
  <2>2. CASE f = size + 1
    <3>1. node'[f] = rec
      BY <1>4, <2>2
    <3> QED BY <1>3, <1>7, <3>1
  <2> QED BY <1>5, <2>1, <2>2
<1> QED BY <1>6, <1>8 DEF ReportInv

LEMMA BuildSectionReports ==
  ASSUME IInv, ReportInv, BuildSection
  PROVE  ReportInv'
<1> DEFINE frame == open[Len(open)]
           key == frame.key
           rec == [kind |-> "section", name |-> frame.key[Len(frame.key)],
                   op |-> "none", addr |-> 0, path |-> frame.path]
<1>1. key \in Seq(Name) /\ Len(key) \in Nat /\ Len(key) >= 1
  BY FrameType, KeyType DEF BuildSection, IInv, PhaseOK
<1>2. WrapInSections(rec, kids[Items], frame.outer, key) /\ reports' = reports
      /\ overrides' = overrides
  BY DEF BuildSection
<1>3. rec.kind # "field"
  OBVIOUS
<1> HIDE DEF rec, frame, key
<1>4. /\ size \in Nat /\ size' = size + Len(key)
      /\ \A n \in 1 .. size : node'[n] = node[n]
      /\ 1 .. size' \subseteq Node
  BY <1>1, <1>2, WrapForm DEF IInv, TypeInv
<1>5. Fields' = Fields
  BY <1>1, <1>2, <1>3, WrapKinds DEF IInv, TypeInv
<1>6. NoFalseReports' /\ \A n \in Node' : n > size' => reports'[n] = 0
  <2>1. Fields' \subseteq Node
    BY <1>4 DEF Fields
  <2> QED BY <1>1, <1>2, <1>4, <1>5, <2>1, ReportsStay
<1>7. \A f \in Fields : node'[f] = node[f]
  BY <1>4 DEF Fields
<1> QED BY <1>2, <1>5, <1>6, <1>7 DEF ReportInv

LEMMA VisitReports ==
  ASSUME IInv, PathInv, ReportInv, NEW c \in Container, ApplyOverrides(c)
  PROVE  ReportInv'
<1> DEFINE S == kids[c]
<1>1. /\ UNCHANGED <<size, node, overrides, open, phase>>
      /\ S \in SUBSET (1 .. size)
      /\ Fields' = Fields
  BY VisitForm DEF IInv, TypeInv
<1>2. c \in {Items} \cup Sections
  BY DEF ApplyOverrides, PathInv
<1>3. /\ \A f \in Node : f \in S /\ Rejected(S, f) => reports'[f] = reports[f] + 1
      /\ \A f \in Node : ~(f \in S /\ Rejected(S, f)) => reports'[f] = reports[f] + 0
  BY DEF ApplyOverrides
<1>4. Fields \subseteq Node /\ 1 .. size \subseteq Node /\ \A f \in Node : reports[f] \in Nat
  BY Vectors DEF Fields, IInv, TypeInv, TypeOK
<1> HIDE DEF S
<1>5. NoFalseReports'
  <2> SUFFICES ASSUME NEW f \in Fields, reports'[f] > 0
               PROVE  node[f].op = "=" /\ \E g \in Fields : g < f /\ node[g].path = node[f].path
    BY <1>1 DEF NoFalseReports
  <2>1. CASE f \in S /\ Rejected(S, f)
    <3>1. PICK g \in Earlier(S, f, "field") : TRUE
      BY <2>1 DEF Rejected
    <3>2. g \in S /\ g < f /\ Named(g, "field") /\ Named(f, "field") /\ SameName(g, f)
      BY <3>1 DEF Earlier
    <3>3. node[g].path = node[f].path
      <4>1. g \in kids[c] /\ f \in kids[c] /\ ~Named(g, "other") /\ ~Named(f, "other")
        BY <2>1, <3>2 DEF S, Named
      <4> QED BY <1>2, <3>2, <4>1, SiblingPath
    <3>4. g \in Fields
      BY <1>1, <3>2 DEF Fields
    <3>5. node[f].op = "="
      BY <2>1 DEF Rejected, ReportInv
    <3> QED BY <3>2, <3>3, <3>4, <3>5
  <2>2. CASE ~(f \in S /\ Rejected(S, f))
    <3>1. reports[f] > 0
      BY <1>3, <1>4, <2>2
    <3> QED BY <3>1 DEF ReportInv, NoFalseReports
  <2> QED BY <2>1, <2>2
<1>6. \A n \in Node : n > size => reports'[n] = 0
  <2> SUFFICES ASSUME NEW n \in Node, n > size PROVE reports'[n] = 0
    OBVIOUS
  <2>1. n \notin S
    BY <1>1 DEF IInv, TypeInv, TypeOK, Node
  <2>2. reports[n] = 0
    BY DEF ReportInv
  <2> QED BY <1>3, <2>1, <2>2
<1> QED BY <1>1, <1>5, <1>6 DEF ReportInv

LEMMA NextReports == IInv /\ PathInv /\ ReportInv /\ [Next]_vars => ReportInv'
<1> SUFFICES ASSUME IInv, PathInv, ReportInv, [Next]_vars PROVE ReportInv'
  OBVIOUS
<1>1. ASSUME NEW key \in FieldKey, NEW op \in {"=", ":="}, NEW a, BuildField(key, op, a)
      PROVE  ReportInv'
  BY <1>1, BuildFieldReports
<1>2. CASE BuildOther
  <2>1. /\ size \in Nat /\ size' = size + 1
        /\ \A n \in 1 .. size : node'[n] = node[n]
        /\ Fields' = Fields
    BY <1>2, BuildOtherForm DEF IInv, TypeInv
  <2>2. reports' = reports /\ overrides' = overrides
    BY <1>2 DEF BuildOther
  <2>3. NoFalseReports' /\ \A n \in Node' : n > size' => reports'[n] = 0
    <3>1. Fields' \subseteq Node
      BY <2>1, Vectors DEF Fields, IInv, TypeInv
    <3> QED BY <2>1, <2>2, <3>1, ReportsStay
  <2>4. \A f \in Fields : node'[f] = node[f]
    BY <2>1 DEF Fields
  <2> QED BY <2>1, <2>2, <2>3, <2>4 DEF ReportInv
<1>3. CASE BuildSection
  BY <1>3, BuildSectionReports
<1>4. ASSUME NEW c \in Container, ApplyOverrides(c) PROVE ReportInv'
  BY <1>4, VisitReports
<1>5. ASSUME UNCHANGED <<size, node, overrides, reports>> PROVE ReportInv'
  BY <1>5 DEF ReportInv, NoFalseReports, Fields, Named
<1>6. ASSUME NEW key \in SectionKey, OpenSection(key) PROVE ReportInv'
  BY <1>5, <1>6 DEF OpenSection
<1>7. CASE CloseSection \/ EndOfFile \/ SetRoot \/ LexError \/ SyntaxError
             \/ UNCHANGED vars
  BY <1>5, <1>7, PhaseStepForm
<1> QED BY <1>1, <1>2, <1>3, <1>4, <1>6, <1>7 DEF Next, Done

----------------------------------------------------------------------------
(* Ownership                                                                *)

LEMMA LiveIs ==
  ASSUME NEW n
  PROVE  n \in Live <=> \/ \E c \in Container : n \in kids[c]
                        \/ \E i \in 1 .. Len(open) : n \in open[i].outer
<1> DEFINE A == UNION {kids[c] : c \in Container}
           B == UNION {open[i].outer : i \in 1 .. Len(open)}
<1>1. n \in A <=> \E c \in Container : n \in kids[c]
  OBVIOUS
<1>2. n \in B <=> \E i \in 1 .. Len(open) : n \in open[i].outer
  OBVIOUS
<1>3. Live = A \cup B
  BY DEF Live
<1> HIDE DEF A, B
<1> QED BY <1>1, <1>2, <1>3

\* The nodes a construction adds are owned, and the others stay where they are.
LEMMA WrapOwn ==
  ASSUME IInv, OwnInv, NEW rec, NEW inner \in SUBSET (1 .. size),
         NEW siblings \in SUBSET (1 .. size), NEW key \in Seq(Name),
         Len(key) >= 1, WrapInSections(rec, inner, siblings, key), phase' = "items",
         rec.kind = "section" \/ inner = {},
         siblings \cap inner = {},
         \A c \in Node : kids[c] \cap siblings = {} /\ kids[c] \cap inner = {},
         \A i \in 1 .. Len(open') :
           /\ open'[i].outer \subseteq 1 .. size
           /\ open'[i].outer \cap siblings = {} /\ open'[i].outer \cap inner = {}
           /\ \A c \in Node : kids[c] \cap open'[i].outer = {},
         \A i, j \in 1 .. Len(open') : \A n \in open'[i].outer \cap open'[j].outer : i = j,
         \A n : n \in Live <=> \/ \E c \in Node : n \in kids[c]
                               \/ n \in siblings \/ n \in inner
                               \/ \E i \in 1 .. Len(open') : n \in open'[i].outer
  PROVE  OwnInv' /\ Live' = Live \cup size + 1 .. size'
<1>1. /\ size \in Nat /\ Len(key) \in Nat /\ size' = size + Len(key)
      /\ 1 .. size' \subseteq Node
      /\ kids'[Items] = siblings \cup {size'}
      /\ kids'[size + 1] = inner
      /\ \A n \in size + 2 .. size' : kids'[n] = {n - 1}
      /\ \A n \in Node : n \notin size + 1 .. size' => kids'[n] = kids[n]
  BY WrapForm DEF IInv, TypeInv
<1>2. /\ Sections \subseteq Sections'
      /\ size + 2 .. size' \subseteq Sections'
      /\ rec.kind = "section" => size + 1 \in Sections'
  BY WrapKinds DEF IInv, TypeInv
<1>3. /\ \A c \in Container : kids[c] \in SUBSET (1 .. size)
      /\ Node \subseteq Container /\ Items \in Container /\ Items \notin Node
      /\ Container' = Container /\ Node' = Node
      /\ \A c \in Container : c = Items \/ c \in Node
      /\ Node \subseteq Nat
  BY Vectors DEF IInv, TypeInv, Container, Node, Items
<1>4. ASSUME NEW c \in Container, NEW n \in kids'[c]
      PROVE  \/ c = Items /\ n \in siblings
             \/ c = Items /\ n = size'
             \/ c = size + 1 /\ n \in inner
             \/ c \in size + 2 .. size' /\ n = c - 1
             \/ c \in Node /\ c \notin size + 1 .. size' /\ n \in kids[c]
  <2>1. CASE c = Items
    BY <1>1, <1>4, <2>1
  <2>2. CASE c \in Node /\ c \notin size + 1 .. size'
    BY <1>1, <1>4, <2>2
  <2>3. CASE c = size + 1
    BY <1>1, <1>4, <2>3
  <2>4. CASE c \in size + 2 .. size'
    BY <1>1, <1>4, <2>4
  <2> QED BY <1>1, <1>3, <2>1, <2>2, <2>3, <2>4
<1>5. ASSUME NEW c \in Container, NEW n \in kids'[c], n > size
      PROVE  n \in size + 1 .. size' /\ (c = IF n = size' THEN Items ELSE n + 1)
  <2>1. siblings \subseteq 1 .. size /\ inner \subseteq 1 .. size
    OBVIOUS
  <2>2. \A k \in 1 .. size : ~(k > size)
    BY <1>1
  <2>3. n \notin siblings /\ n \notin inner /\ n \notin kids[c]
    BY <1>3, <1>5, <2>1, <2>2
  <2>4. (c = Items /\ n = size') \/ (c \in size + 2 .. size' /\ n = c - 1)
    BY <1>4, <2>3
  <2> QED BY <1>1, <2>4
<1>6. ASSUME NEW c \in Container, NEW n \in kids'[c], ~(n > size)
      PROVE  \/ c = Items /\ n \in siblings
             \/ c = size + 1 /\ n \in inner
             \/ c \in Node /\ c \notin size + 1 .. size' /\ n \in kids[c]
  <2>1. size' > size /\ \A d \in size + 2 .. size' : d - 1 > size
    BY <1>1
  <2> QED BY <1>4, <1>6, <2>1
<1>7. ASSUME NEW c \in Container, NEW d \in Container, NEW n \in kids'[c], n \in kids'[d]
      PROVE  c = d
  <2>1. CASE n > size
    BY <1>5, <1>7, <2>1
  <2>2. CASE ~(n > size)
    <3>1. \/ c = Items /\ n \in siblings
          \/ c = size + 1 /\ n \in inner
          \/ c \in Node /\ c \notin size + 1 .. size' /\ n \in kids[c]
      BY <1>6, <2>2
    <3>2. \/ d = Items /\ n \in siblings
          \/ d = size + 1 /\ n \in inner
          \/ d \in Node /\ d \notin size + 1 .. size' /\ n \in kids[d]
      BY <1>6, <1>7, <2>2
    <3>3. \A a, b \in Container : n \in kids[a] /\ n \in kids[b] => a = b
      BY DEF OwnInv, OneVector
    <3>4. ~(n \in siblings /\ n \in inner)
      OBVIOUS
    <3>5. \A a \in Node : n \in kids[a] => n \notin siblings /\ n \notin inner
      OBVIOUS
    <3> QED BY <3>1, <3>2, <3>3, <3>4, <3>5
  <2> QED BY <2>1, <2>2
<1>8. ASSUME NEW c \in Container, NEW i \in 1 .. Len(open'),
             NEW n \in kids'[c], n \in open'[i].outer
      PROVE  FALSE
  <2>1. ~(n > size)
    BY <1>1, <1>8
  <2>2. \/ c = Items /\ n \in siblings
        \/ c = size + 1 /\ n \in inner
        \/ c \in Node /\ c \notin size + 1 .. size' /\ n \in kids[c]
    BY <1>6, <2>1
  <2> QED BY <1>8, <2>2
<1>9. OneVector'
  BY <1>3, <1>7, <1>8 DEF OneVector
<1>10. ASSUME NEW n, \/ \E c \in Container : n \in kids'[c]
                     \/ \E i \in 1 .. Len(open') : n \in open'[i].outer
       PROVE  n \in Live'
  <2>1. CASE \E c \in Container : n \in kids'[c]
    <3>1. n \in UNION {kids'[c] : c \in Container}
      BY <2>1
    <3> QED BY <1>3, <3>1 DEF Live
  <2>2. CASE \E i \in 1 .. Len(open') : n \in open'[i].outer
    <3>1. n \in UNION {open'[i].outer : i \in 1 .. Len(open')}
      BY <2>2
    <3> QED BY <3>1 DEF Live
  <2> QED BY <1>10, <2>1, <2>2
<1>11. ASSUME NEW n \in Live PROVE n \in Live'
  <2>1. CASE \E c \in Node : n \in kids[c]
    <3>1. PICK c \in Node : n \in kids[c]
      BY <2>1
    <3>2. c \notin size + 1 .. size'
      BY <1>1, <3>1 DEF OwnInv
    <3> QED BY <1>1, <1>3, <1>10, <3>1, <3>2
  <2>2. CASE n \in siblings
    BY <1>1, <1>3, <1>10, <2>2
  <2>3. CASE n \in inner
    <3>1. size + 1 \in Container
      BY <1>1, <1>3
    <3> QED BY <1>1, <1>10, <2>3, <3>1
  <2>4. CASE \E i \in 1 .. Len(open') : n \in open'[i].outer
    BY <1>10, <2>4
  <2> QED BY <2>1, <2>2, <2>3, <2>4
<1>12. ASSUME NEW n \in size + 1 .. size' PROVE n \in Live'
  <2>1. CASE n = size'
    BY <1>1, <1>3, <1>10, <2>1
  <2>2. CASE n # size'
    <3>1. n + 1 \in size + 2 .. size' /\ n + 1 \in Container /\ (n + 1) - 1 = n
      BY <1>1, <1>3, <2>2
    <3>2. n \in kids'[n + 1]
      BY <1>1, <3>1
    <3> QED BY <1>10, <3>1, <3>2
  <2> QED BY <2>1, <2>2
<1>13. \A c \in Node : c > size' => kids'[c] = {}
  <2> SUFFICES ASSUME NEW c \in Node, c > size' PROVE kids'[c] = {}
    OBVIOUS
  <2>1. c \notin size + 1 .. size' /\ c > size
    BY <1>1, <1>3
  <2> QED BY <1>1, <2>1 DEF OwnInv
<1>14. \A c \in Node : kids'[c] # {} => c \in Sections' \cap Live'
  <2> SUFFICES ASSUME NEW c \in Node, kids'[c] # {} PROVE c \in Sections' /\ c \in Live'
    OBVIOUS
  <2>1. CASE c \notin size + 1 .. size'
    BY <1>1, <1>2, <1>11, <2>1 DEF OwnInv
  <2>2. CASE c = size + 1
    <3>1. c \in size + 1 .. size' /\ inner # {}
      BY <1>1, <2>2
    <3> QED BY <1>2, <1>12, <2>2, <3>1
  <2>3. CASE c \in size + 2 .. size'
    <3>1. c \in size + 1 .. size'
      BY <1>1, <2>3
    <3> QED BY <1>2, <1>12, <2>3, <3>1
  <2> QED BY <1>1, <2>1, <2>2, <2>3
<1>15. OwnInv'
  BY <1>3, <1>9, <1>13, <1>14 DEF OwnInv
<1>16. ASSUME NEW n \in Live' PROVE n \in Live \/ n \in size + 1 .. size'
  <2> DEFINE A == UNION {kids'[c] : c \in Container}
             B == UNION {open'[i].outer : i \in 1 .. Len(open')}
  <2>1. Live' = A \cup B
    BY <1>3 DEF Live
  <2>2. CASE n \in A
    <3>1. PICK c \in Container : n \in kids'[c]
      BY <2>2
    <3> HIDE DEF A, B
    <3>2. CASE n > size
      BY <1>5, <3>1, <3>2
    <3>3. CASE ~(n > size)
      BY <1>6, <3>1, <3>3
    <3> QED BY <3>2, <3>3
  <2>3. CASE n \in B
    <3>1. \E i \in 1 .. Len(open') : n \in open'[i].outer
      BY <2>3
    <3> QED BY <3>1
  <2> HIDE DEF A, B
  <2> QED BY <1>16, <2>1, <2>2, <2>3
<1> QED BY <1>11, <1>12, <1>15, <1>16

LEMMA BuildFieldOwn ==
  ASSUME IInv, OwnInv, NEW key \in FieldKey, NEW op, NEW a, BuildField(key, op, a)
  PROVE  OwnInv' /\ Live' = Live \cup size + 1 .. size'
<1> DEFINE rec == [kind |-> "field", name |-> key[Len(key)], op |-> op,
                   addr |-> a, path |-> Here \o key]
           none == {}
           items == kids[Items]
<1>1. key \in Seq(Name) /\ Len(key) >= 1
  BY KeyType
<1>2. WrapInSections(rec, none, items, key) /\ open' = open /\ phase' = "items"
  BY DEF BuildField
<1>3. /\ none \in SUBSET (1 .. size) /\ items \in SUBSET (1 .. size)
      /\ items \cap none = {} /\ \A S : S \cap none = {}
  BY Vectors DEF IInv, TypeInv
<1>4. /\ \A c \in Node : c \in Container /\ c # Items
      /\ \A c \in Container : c = Items \/ c \in Node
      /\ Items \in Container
  BY Vectors DEF IInv, TypeInv, Container, Node, Items
<1>5. \A c \in Node : kids[c] \cap items = {} /\ kids[c] \cap none = {}
  BY <1>3, <1>4 DEF OwnInv, OneVector
<1>6. \A i \in 1 .. Len(open') :
           /\ open'[i].outer \subseteq 1 .. size
           /\ open'[i].outer \cap items = {} /\ open'[i].outer \cap none = {}
           /\ \A c \in Node : kids[c] \cap open'[i].outer = {}
  <2> SUFFICES ASSUME NEW i \in 1 .. Len(open)
               PROVE  /\ open[i].outer \subseteq 1 .. size
                      /\ open[i].outer \cap items = {} /\ open[i].outer \cap none = {}
                      /\ \A c \in Node : kids[c] \cap open[i].outer = {}
    BY <1>2
  <2>1. open[i].outer \subseteq 1 .. size
    BY FrameOuter DEF IInv, TypeInv
  <2>2. \A c \in Container : kids[c] \cap open[i].outer = {}
    BY DEF OwnInv, OneVector
  <2> QED BY <1>3, <1>4, <2>1, <2>2
<1>7. \A i, j \in 1 .. Len(open') : \A n \in open'[i].outer \cap open'[j].outer : i = j
  BY <1>2 DEF OwnInv, OneVector
<1>8. \A n : n \in Live <=> \/ \E c \in Node : n \in kids[c]
                            \/ n \in items \/ n \in none
                            \/ \E i \in 1 .. Len(open') : n \in open'[i].outer
  <2> SUFFICES ASSUME NEW n
               PROVE  n \in Live <=> \/ \E c \in Node : n \in kids[c]
                                     \/ n \in items
                                     \/ \E i \in 1 .. Len(open) : n \in open[i].outer
    BY <1>2
  <2>1. (\E c \in Container : n \in kids[c]) <=> \/ \E c \in Node : n \in kids[c]
                                               \/ n \in items
    BY <1>4
  <2> HIDE DEF items
  <2> QED BY <2>1, LiveIs
<1>9. rec.kind = "section" \/ none = {}
  OBVIOUS
<1> HIDE DEF rec, none, items
<1> QED BY <1>1, <1>2, <1>3, <1>5, <1>6, <1>7, <1>8, <1>9, WrapOwn

LEMMA BuildSectionOwn ==
  ASSUME IInv, OwnInv, BuildSection
  PROVE  OwnInv' /\ Live' = Live \cup size + 1 .. size'
<1> DEFINE frame == open[Len(open)]
           rec == [kind |-> "section", name |-> frame.key[Len(frame.key)],
                   op |-> "none", addr |-> 0, path |-> frame.path]
           key == frame.key
           inner == kids[Items]
           siblings == frame.outer
<1>1. key \in Seq(Name) /\ Len(key) >= 1 /\ open # <<>> /\ TypeInv
  BY FrameType, KeyType DEF BuildSection, IInv, PhaseOK
<1>2. WrapInSections(rec, inner, siblings, key) /\ phase' = "items"
  BY DEF BuildSection
<1>3. /\ Len(open) \in Nat /\ Len(open) >= 1 /\ Len(open') = Len(open) - 1
      /\ \A i \in 1 .. Len(open') : open'[i] = open[i]
  BY <1>1, TopFrame DEF BuildSection
<1>4. /\ \A c \in Node : c \in Container /\ c # Items
      /\ \A c \in Container : c = Items \/ c \in Node
      /\ Items \in Container
  BY Vectors DEF IInv, TypeInv, Container, Node, Items
<1>5. inner \in SUBSET (1 .. size) /\ siblings \in SUBSET (1 .. size)
  BY <1>1, FrameType, Vectors DEF IInv, TypeInv
<1>6. /\ Len(open) \in 1 .. Len(open)
      /\ \A i \in 1 .. Len(open') : i \in 1 .. Len(open) /\ i # Len(open)
  BY <1>3
<1>7. \A c \in Container, i \in 1 .. Len(open) : kids[c] \cap open[i].outer = {}
  BY DEF OwnInv, OneVector
<1>8. siblings \cap inner = {}
  BY <1>4, <1>6, <1>7
<1>9. \A c \in Node : kids[c] \cap siblings = {} /\ kids[c] \cap inner = {}
  BY <1>4, <1>6, <1>7 DEF OwnInv, OneVector
<1>10. ASSUME NEW i \in 1 .. Len(open')
       PROVE  /\ open'[i].outer \subseteq 1 .. size
              /\ open'[i].outer \cap siblings = {} /\ open'[i].outer \cap inner = {}
              /\ \A c \in Node : kids[c] \cap open'[i].outer = {}
  <2>1. open'[i] = open[i] /\ i \in 1 .. Len(open) /\ i # Len(open)
    BY <1>3, <1>6
  <2>2. open[i].outer \subseteq 1 .. size
    BY <2>1, FrameOuter DEF IInv, TypeInv
  <2>3. open[i].outer \cap siblings = {}
    BY <1>6, <2>1 DEF OwnInv, OneVector
  <2>4. open[i].outer \cap inner = {} /\ \A c \in Node : kids[c] \cap open[i].outer = {}
    BY <1>4, <1>7, <2>1
  <2> QED BY <2>1, <2>2, <2>3, <2>4
<1>11. \A i, j \in 1 .. Len(open') : \A n \in open'[i].outer \cap open'[j].outer : i = j
  BY <1>3, <1>6 DEF OwnInv, OneVector
<1>12. ASSUME NEW n
       PROVE  n \in Live <=> \/ \E c \in Node : n \in kids[c]
                             \/ n \in siblings \/ n \in inner
                             \/ \E i \in 1 .. Len(open') : n \in open'[i].outer
  <2>1. (\E c \in Container : n \in kids[c])
          <=> (\E c \in Node : n \in kids[c]) \/ n \in inner
    BY <1>4
  <2>2. (\E i \in 1 .. Len(open) : n \in open[i].outer)
          <=> (\E i \in 1 .. Len(open') : n \in open'[i].outer) \/ n \in siblings
    <3>1. \A i \in 1 .. Len(open) : i = Len(open) \/ i \in 1 .. Len(open')
      BY <1>3
    <3> QED BY <1>3, <1>6, <3>1
  <2> HIDE DEF inner, siblings
  <2> QED BY <2>1, <2>2, LiveIs
<1>13. rec.kind = "section"
  OBVIOUS
<1> HIDE DEF rec, inner, siblings, key, frame
<1> QED BY <1>1, <1>2, <1>5, <1>8, <1>9, <1>10, <1>11, <1>12, <1>13, WrapOwn

LEMMA BuildOtherOwn ==
  ASSUME IInv, OwnInv, BuildOther
  PROVE  OwnInv' /\ Live' = Live \cup {size + 1}
<1>1. /\ size \in Nat /\ size' = size + 1 /\ size + 1 \in Node
      /\ kids'[Items] = kids[Items] \cup {size + 1}
      /\ \A c \in Node : kids'[c] = kids[c]
      /\ Sections' = Sections
  BY BuildOtherForm DEF IInv, TypeInv
<1>2. /\ \A c \in Container : kids[c] \in SUBSET (1 .. size)
      /\ \A c \in Node : c \in Container /\ c # Items
      /\ \A c \in Container : c = Items \/ c \in Node
      /\ Items \in Container /\ Container' = Container /\ Node' = Node
      /\ \A i \in 1 .. Len(open) : open[i].outer \subseteq 1 .. size
  BY Vectors, FrameOuter DEF IInv, TypeInv, Container, Node, Items
<1>3. open' = open /\ phase' = phase /\ phase = "items"
  BY DEF BuildOther
<1>4. \A c \in Container : \A n \in kids'[c] :
        n \in kids[c] \/ (c = Items /\ n = size + 1)
  BY <1>1, <1>2
<1>5. size + 1 \notin 1 .. size
  BY <1>1
<1>6. OneVector'
  <2>1. \A c, d \in Container : \A n \in kids[c] \cap kids[d] : c = d
    BY DEF OwnInv, OneVector
  <2>2. \A c, d \in Container : \A n \in kids'[c] \cap kids'[d] : c = d
    BY <1>2, <1>4, <1>5, <2>1
  <2>3. \A c \in Container, i \in 1 .. Len(open) : kids'[c] \cap open[i].outer = {}
    BY <1>2, <1>4, <1>5 DEF OwnInv, OneVector
  <2>4. \A i, j \in 1 .. Len(open) : \A n \in open[i].outer \cap open[j].outer : i = j
    BY DEF OwnInv, OneVector
  <2> QED BY <1>2, <1>3, <2>2, <2>3, <2>4 DEF OneVector
<1>7. ASSUME NEW n
      PROVE  n \in Live' <=> \/ \E c \in Container : n \in kids'[c]
                             \/ \E i \in 1 .. Len(open) : n \in open[i].outer
  <2> DEFINE A == UNION {kids'[c] : c \in Container}
             B == UNION {open[i].outer : i \in 1 .. Len(open)}
  <2>1. n \in A <=> \E c \in Container : n \in kids'[c]
    OBVIOUS
  <2>2. n \in B <=> \E i \in 1 .. Len(open) : n \in open[i].outer
    OBVIOUS
  <2>3. Live' = A \cup B
    BY <1>2, <1>3 DEF Live
  <2> HIDE DEF A, B
  <2> QED BY <2>1, <2>2, <2>3
<1>8. Live \subseteq Live'
  <2>1. \A c \in Container : kids[c] \subseteq kids'[c]
    BY <1>1, <1>2
  <2> QED BY <1>7, <2>1, LiveIs
<1>9. size + 1 \in Live'
  BY <1>1, <1>2, <1>7
<1>10. /\ \A c \in Node : c > size' => kids'[c] = {}
       /\ \A c \in Node : kids'[c] # {} => c \in Sections' \cap Live'
  <2>1. \A c \in Node : c > size' => c > size
    BY <1>1 DEF Node
  <2> QED BY <1>1, <1>8, <2>1 DEF OwnInv
<1>11. OwnInv'
  BY <1>2, <1>3, <1>6, <1>10 DEF OwnInv
<1>12. \A n \in Live' : n \in Live \/ n = size + 1
  BY <1>4, <1>7, LiveIs
<1> QED BY <1>8, <1>9, <1>11, <1>12

LEMMA OpenSectionOwn ==
  ASSUME IInv, OwnInv, NEW key \in SectionKey, OpenSection(key)
  PROVE  OwnInv' /\ Live' = Live
<1> DEFINE f == [key |-> key, path |-> Here \o key, outer |-> kids[Items]]
<1>1. /\ Len(open) \in Nat /\ Len(open') = Len(open) + 1
      /\ \A i \in 1 .. Len(open) : open'[i] = open[i]
      /\ open'[Len(open')] = f
      /\ kids'[Items] = {} /\ \A c \in Node : kids'[c] = kids[c]
  BY OpenSectionForm DEF IInv, TypeInv
<1>2. f.outer = kids[Items]
  OBVIOUS
<1> HIDE DEF f
<1>3. /\ \A c \in Node : c \in Container /\ c # Items
      /\ \A c \in Container : c = Items \/ c \in Node
      /\ Items \in Container /\ Container' = Container /\ Node' = Node
  BY Vectors DEF IInv, TypeInv, Container, Node, Items
<1>4. /\ \A i \in 1 .. Len(open') : i \in 1 .. Len(open) \/ i = Len(open')
      /\ \A i \in 1 .. Len(open) : i \in 1 .. Len(open')
      /\ Len(open') \in 1 .. Len(open')
  BY <1>1
<1>5. \A i \in 1 .. Len(open') :
        (i \in 1 .. Len(open) /\ open'[i].outer = open[i].outer)
          \/ (i = Len(open') /\ open'[i].outer = kids[Items])
  BY <1>1, <1>2, <1>4
<1>6. OneVector'
  <2>1. /\ \A c, d \in Container : \A n \in kids[c] \cap kids[d] : c = d
        /\ \A i, j \in 1 .. Len(open) : \A n \in open[i].outer \cap open[j].outer : i = j
        /\ \A c \in Container, i \in 1 .. Len(open) : kids[c] \cap open[i].outer = {}
    BY DEF OwnInv, OneVector
  <2>2. \A c, d \in Container : \A n \in kids'[c] \cap kids'[d] : c = d
    BY <1>1, <1>3, <2>1
  <2>3. \A c \in Container, i \in 1 .. Len(open') : kids'[c] \cap open'[i].outer = {}
    <3> SUFFICES ASSUME NEW c \in Node, NEW i \in 1 .. Len(open')
                 PROVE  kids[c] \cap open'[i].outer = {}
      BY <1>1, <1>3
    <3>1. CASE i \in 1 .. Len(open) /\ open'[i].outer = open[i].outer
      BY <1>3, <2>1, <3>1
    <3>2. CASE open'[i].outer = kids[Items]
      BY <1>3, <2>1, <3>2
    <3> QED BY <1>5, <3>1, <3>2
  <2>4. \A i, j \in 1 .. Len(open') : \A n \in open'[i].outer \cap open'[j].outer : i = j
    <3> SUFFICES ASSUME NEW i \in 1 .. Len(open'), NEW j \in 1 .. Len(open'),
                        NEW n \in open'[i].outer, n \in open'[j].outer
                 PROVE  i = j
      OBVIOUS
    <3>1. \A k \in 1 .. Len(open) : ~(n \in open[k].outer /\ n \in kids[Items])
      BY <1>3, <2>1
    <3> QED BY <1>5, <2>1, <3>1
  <2> QED BY <1>3, <2>2, <2>3, <2>4 DEF OneVector
<1>7. ASSUME NEW n PROVE n \in Live' <=> n \in Live
  <2> DEFINE A == UNION {kids'[c] : c \in Container}
             B == UNION {open'[i].outer : i \in 1 .. Len(open')}
  <2>1. n \in A <=> \E c \in Node : n \in kids[c]
    BY <1>1, <1>3
  <2>2. n \in B <=> n \in kids[Items] \/ \E i \in 1 .. Len(open) : n \in open[i].outer
    <3>1. n \in B <=> \E i \in 1 .. Len(open') : n \in open'[i].outer
      OBVIOUS
    <3> HIDE DEF B
    <3> QED BY <1>1, <1>2, <1>4, <1>5, <3>1
  <2>3. Live' = A \cup B
    BY <1>3 DEF Live
  <2> HIDE DEF A, B
  <2> QED BY <1>3, <2>1, <2>2, <2>3, LiveIs
<1>8. /\ \A c \in Node : c > size' => kids'[c] = {}
      /\ \A c \in Node : kids'[c] # {} => c \in Sections' \cap Live'
  <2>1. size' = size /\ Sections' = Sections
    BY DEF OpenSection, Sections, Named
  <2> QED BY <1>1, <1>7, <2>1 DEF OwnInv
<1>9. OwnInv'
  BY <1>3, <1>6, <1>8 DEF OwnInv, OpenSection
<1> QED BY <1>7, <1>9

LEMMA PhaseStepOwn ==
  ASSUME IInv, OwnInv, CloseSection \/ EndOfFile \/ SetRoot \/ LexError \/ SyntaxError
                 \/ UNCHANGED vars
  PROVE  OwnInv' /\ Live' = Live
<1>1. UNCHANGED <<size, node, kids, open>>
  BY PhaseStepForm
<1>2. Live' = Live /\ Sections' = Sections /\ OneVector'
  BY <1>1 DEF Live, Sections, Named, OwnInv, OneVector, Container
<1>3. phase' \in {"ending", "ok"} => open' = <<>>
  BY <1>1 DEF CloseSection, EndOfFile, SetRoot, LexError, SyntaxError, vars, OwnInv
<1> QED BY <1>1, <1>2, <1>3 DEF OwnInv

\* A bounded nonempty set of natural numbers has a greatest element.
LEMMA GreatestElement ==
  ASSUME NEW T, T \subseteq Nat, T # {}, NEW b \in Nat, \A x \in T : x <= b
  PROVE  \E x \in T : \A y \in T : y <= x
<1> DEFINE D == {b - x : x \in T}
<1>1. D \subseteq Nat /\ D # {}
  <2>1. \A x \in T : b - x \in Nat
    OBVIOUS
  <2>2. PICK x \in T : TRUE
    OBVIOUS
  <2>3. b - x \in D
    BY <2>2
  <2> QED BY <2>1, <2>3
<1>2. PICK d \in D : \A e \in D : d <= e
  <2> HIDE DEF D
  <2> QED BY <1>1, LeastElement
<1>3. PICK x \in T : d = b - x
  OBVIOUS
<1>4. \A y \in T : d <= b - y
  BY <1>2
<1> HIDE DEF D
<1>5. ASSUME NEW y \in T PROVE y <= x
  <2>1. b - x <= b - y /\ x \in Nat /\ y \in Nat
    BY <1>3, <1>4
  <2> QED BY <2>1
<1> QED BY <1>5

\* A folded section has a host, and only one.
LEMMA FoldedHasHost ==
  ASSUME NEW S, S \subseteq Nat, NEW n \in S, Folded(S, n)
  PROVE  \E h \in S : n \in Guests(S, h)
<1> DEFINE E == Earlier(S, n, "section")
           T == {m \in E : ~Folded(S, m)}
<1>1. E # {} /\ E \subseteq Nat /\ \A m \in E : m \in S /\ m < n
  BY DEF Folded, Earlier
<1>2. PICK l \in E : \A m \in E : l <= m
  <2> HIDE DEF E
  <2> QED BY <1>1, LeastElement
<1>3. Earlier(S, l, "section") = {}
  <2> SUFFICES ASSUME NEW k \in Earlier(S, l, "section") PROVE FALSE
    OBVIOUS
  <2>1. k \in E /\ k < l
    BY <1>1, <1>2 DEF Earlier, SameName
  <2> QED BY <1>1, <1>2, <2>1
<1>4. T # {} /\ T \subseteq Nat /\ \A x \in T : x <= n
  BY <1>1, <1>2, <1>3 DEF Folded
<1>5. PICK h \in T : \A y \in T : y <= h
  <2> HIDE DEF T
  <2> QED BY <1>4, GreatestElement
<1>6. \A m \in E : m > h => Folded(S, m)
  BY <1>1, <1>4, <1>5
<1>7. Hosts(S, h, n)
  BY <1>5, <1>6 DEF Hosts
<1> QED BY <1>1, <1>5, <1>7 DEF Guests

LEMMA OneHost ==
  ASSUME NEW S, S \subseteq Nat, NEW g \in Nat, NEW h \in Nat, NEW n,
         n \in Guests(S, g), n \in Guests(S, h)
  PROVE  g = h
<1>1. /\ g \in Earlier(S, n, "section") /\ h \in Earlier(S, n, "section")
      /\ ~Folded(S, g) /\ ~Folded(S, h)
      /\ \A m \in Earlier(S, n, "section") : m > g => Folded(S, m)
      /\ \A m \in Earlier(S, n, "section") : m > h => Folded(S, m)
  BY DEF Guests, Hosts
<1>2. ~(h > g) /\ ~(g > h)
  BY <1>1
<1> QED BY <1>2

\* What every visit finds: the list visited is not one of its own members, and
\* a list joins another only when its section is folded.
LEMMA VisitLists ==
  ASSUME IInv, PathInv, OwnInv, NEW c \in Container, ApplyOverrides(c)
  PROVE  /\ kids[c] \subseteq 1 .. size /\ c \notin kids[c] /\ c \in {Items} \cup Sections
         /\ \A d : \A g \in Guests(kids[c], d) :
              /\ d \in kids[c] /\ g \in kids[c] /\ d # c /\ g # c
              /\ Folded(kids[c], g) /\ ~Folded(kids[c], d)
              /\ d \in Sections /\ g \in Sections /\ SameName(d, g)
              /\ node[g].path = node[d].path
         /\ \A d \in Container : \A n \in kids'[d] :
              \/ d = c /\ n \in Kept(kids[c])
              \/ d # c /\ ~(d \in kids[c] /\ Folded(kids[c], d)) /\ n \in kids[d]
              \/ d # c /\ \E g \in Guests(kids[c], d) : n \in kids[g]
<1> DEFINE S == kids[c]
<1>1. /\ S \in SUBSET (1 .. size) /\ S \subseteq Nat
      /\ kids'[c] = Kept(S)
      /\ \A d \in Container : d # c => kids'[d] =
           IF d \in S /\ Folded(S, d) THEN {}
           ELSE kids[d] \cup UNION {kids[n] : n \in Guests(S, d)}
  BY VisitForm DEF IInv, TypeInv
<1>2. c \in {Items} \cup Sections
  BY DEF ApplyOverrides, PathInv
<1>3. c \notin S
  <2>1. CASE c = Items
    BY <1>1, <2>1 DEF Items
  <2>2. CASE c \in Sections /\ c \in S
    <3>1. node[c].path = Append(node[c].path, node[c].name)
      BY <2>2 DEF PathInv, PathsKept, Sections, Named
    <3>2. node[c].path \in Seq(Name \cup {"none"}) /\ node[c].name \in Name \cup {"none"}
      <4>1. node[c] \in Record
        BY <2>2, Vectors DEF Sections, IInv, TypeInv, TypeOK
      <4>2. node[c].path \in Seq(Name) /\ node[c].name \in Name \cup {"none"}
        BY <4>1 DEF Record
      <4>3. Seq(Name) \subseteq Seq(Name \cup {"none"})
        BY SeqMonotonic
      <4> QED BY <4>2, <4>3
    <3> DEFINE p == node[c].path
               e == node[c].name
    <3>3. p = Append(p, e) /\ p \in Seq(Name \cup {"none"}) /\ e \in Name \cup {"none"}
      BY <3>1, <3>2
    <3> HIDE DEF p, e
    <3>4. Len(Append(p, e)) = Len(p) + 1 /\ Len(p) \in Nat
      BY <3>3, AppendProperties, LenProperties
    <3> QED BY <3>3, <3>4
  <2> QED BY <1>2, <2>1, <2>2
<1> HIDE DEF S
<1>4. ASSUME NEW d, NEW g \in Guests(S, d)
      PROVE  /\ d \in S /\ g \in S /\ d # c /\ g # c
             /\ Folded(S, g) /\ ~Folded(S, d)
             /\ d \in Sections /\ g \in Sections /\ SameName(d, g)
             /\ node[g].path = node[d].path
  <2>1. /\ g \in S /\ d \in S /\ Named(d, "section") /\ Named(g, "section")
        /\ SameName(d, g) /\ Folded(S, g) /\ ~Folded(S, d)
    BY <1>4 DEF Guests, Earlier, Hosts
  <2>2. node[g].path = node[d].path
    <3>1. g \in kids[c] /\ d \in kids[c] /\ ~Named(g, "other") /\ ~Named(d, "other")
          /\ SameName(g, d)
      BY <2>1 DEF S, Named, SameName
    <3> QED BY <1>2, <3>1, SiblingPath
  <2> QED BY <1>1, <1>3, <2>1, <2>2 DEF Sections
<1>5. ASSUME NEW d \in Container, NEW n \in kids'[d]
      PROVE  \/ d = c /\ n \in Kept(S)
             \/ d # c /\ ~(d \in S /\ Folded(S, d)) /\ n \in kids[d]
             \/ d # c /\ \E g \in Guests(S, d) : n \in kids[g]
  <2>1. CASE d = c
    BY <1>1, <1>5, <2>1
  <2>2. CASE d # c
    <3>1. ~(d \in S /\ Folded(S, d))
      BY <1>1, <1>5, <2>2
    <3>2. n \in kids[d] \cup UNION {kids[g] : g \in Guests(S, d)}
      BY <1>1, <1>5, <2>2, <3>1
    <3> QED BY <2>2, <3>1, <3>2
  <2> QED BY <2>1, <2>2
<1> QED BY <1>1, <1>2, <1>3, <1>4, <1>5 DEF S

\* A visit takes out of the tree what it folds or replaces, and nothing else.
LEMMA VisitLive ==
  ASSUME IInv, PathInv, OwnInv, NEW c \in Container, ApplyOverrides(c)
  PROVE  /\ Live' \subseteq Live
         /\ \A n \in Live : n \in Live' \/ (n \in kids[c] /\ n \notin Kept(kids[c]))
         /\ \A n \in Live' : n \in kids[c] => n \in Kept(kids[c])
<1> DEFINE S == kids[c]
<1>1. /\ UNCHANGED <<size, node, overrides, open, phase>>
      /\ S \in SUBSET (1 .. size) /\ S \subseteq Nat
      /\ kids'[c] = Kept(S)
      /\ \A d \in Container : d # c => kids'[d] =
           IF d \in S /\ Folded(S, d) THEN {}
           ELSE kids[d] \cup UNION {kids[n] : n \in Guests(S, d)}
  BY VisitForm DEF IInv, TypeInv
<1>2. /\ c \notin S
      /\ \A d : \A g \in Guests(S, d) :
           d \in S /\ g \in S /\ d # c /\ g # c /\ Folded(S, g) /\ ~Folded(S, d)
      /\ \A d \in Container : \A n \in kids'[d] :
           \/ d = c /\ n \in Kept(S)
           \/ d # c /\ ~(d \in S /\ Folded(S, d)) /\ n \in kids[d]
           \/ d # c /\ \E g \in Guests(S, d) : n \in kids[g]
  BY VisitLists
<1>3. S \subseteq Container /\ Container' = Container
  BY <1>1, Vectors DEF IInv, TypeInv, Container
<1>4. ASSUME NEW n
      PROVE  n \in Live' <=> \/ \E d \in Container : n \in kids'[d]
                             \/ \E i \in 1 .. Len(open) : n \in open[i].outer
  <2> DEFINE A == UNION {kids'[d] : d \in Container}
             B == UNION {open[i].outer : i \in 1 .. Len(open)}
  <2>1. n \in A <=> \E d \in Container : n \in kids'[d]
    OBVIOUS
  <2>2. n \in B <=> \E i \in 1 .. Len(open) : n \in open[i].outer
    OBVIOUS
  <2>3. Live' = A \cup B
    BY <1>1, <1>3 DEF Live
  <2> HIDE DEF A, B
  <2> QED BY <2>1, <2>2, <2>3
<1>5. Kept(S) \subseteq S
  BY DEF Kept
<1> HIDE DEF S
<1>6. ASSUME NEW n \in Live' PROVE n \in Live
  <2>1. CASE \E i \in 1 .. Len(open) : n \in open[i].outer
    BY <2>1, LiveIs
  <2>2. CASE \E d \in Container : n \in kids'[d]
    <3>1. \E d \in Container : n \in kids[d]
      BY <1>2, <1>3, <1>5, <2>2 DEF S
    <3> QED BY <3>1, LiveIs
  <2> QED BY <1>4, <2>1, <2>2
<1>7. ASSUME NEW n \in Live, n \notin S \/ n \in Kept(S) PROVE n \in Live'
  <2>1. CASE \E i \in 1 .. Len(open) : n \in open[i].outer
    BY <1>4, <2>1
  <2>2. CASE \E d \in Container : n \in kids[d]
    <3>1. PICK d \in Container : n \in kids[d]
      BY <2>2
    <3>2. CASE d = c
      BY <1>1, <1>4, <1>7, <3>1, <3>2 DEF S
    <3>3. CASE d # c /\ ~(d \in S /\ Folded(S, d))
      BY <1>1, <1>4, <3>1, <3>3
    <3>4. CASE d \in S /\ Folded(S, d)
      <4>1. PICK h \in S : d \in Guests(S, h)
        BY <1>1, <3>4, FoldedHasHost
      <4>2. h # c /\ ~Folded(S, h) /\ h \in Container
        BY <1>2, <1>3, <4>1
      <4>3. n \in UNION {kids[g] : g \in Guests(S, h)}
        BY <3>1, <4>1
      <4>4. n \in kids'[h]
        BY <1>1, <4>2, <4>3
      <4> QED BY <1>4, <4>2, <4>4
    <3> QED BY <3>2, <3>3, <3>4
  <2> QED BY <2>1, <2>2, LiveIs
<1>8. ASSUME NEW n \in Live', n \in S PROVE n \in Kept(S)
  <2>1. \A d \in Container : n \in kids[d] => d = c
    BY <1>8 DEF OwnInv, OneVector, S
  <2>2. \A i \in 1 .. Len(open) : n \notin open[i].outer
    BY <1>8 DEF OwnInv, OneVector, S
  <2>3. PICK d \in Container : n \in kids'[d]
    BY <1>4, <2>2
  <2> QED BY <1>2, <1>3, <2>1, <2>3
<1> QED BY <1>6, <1>7, <1>8 DEF S

LEMMA VisitOwn ==
  ASSUME IInv, PathInv, OwnInv, NEW c \in Container, ApplyOverrides(c)
  PROVE  OwnInv'
<1> DEFINE S == kids[c]
<1>1. /\ UNCHANGED <<size, node, overrides, open, phase>>
      /\ S \in SUBSET (1 .. size) /\ S \subseteq Nat
      /\ Sections' = Sections
  BY VisitForm DEF IInv, TypeInv
<1>2. /\ c \notin S /\ c \in {Items} \cup Sections
      /\ \A d : \A g \in Guests(S, d) :
           /\ d \in S /\ g \in S /\ d # c /\ g # c /\ Folded(S, g) /\ ~Folded(S, d)
           /\ d \in Sections
      /\ \A d \in Container : \A n \in kids'[d] :
           \/ d = c /\ n \in Kept(S)
           \/ d # c /\ ~(d \in S /\ Folded(S, d)) /\ n \in kids[d]
           \/ d # c /\ \E g \in Guests(S, d) : n \in kids[g]
  BY VisitLists
<1>3. /\ \A n \in Live : n \in Live' \/ (n \in kids[c] /\ n \notin Kept(kids[c]))
  BY VisitLive
<1>4. /\ S \subseteq Container /\ Container' = Container /\ Node' = Node
      /\ Node \subseteq Container /\ Items \notin Node /\ Node \subseteq Nat
      /\ Sections \subseteq 1 .. size /\ size \in Nat
  BY <1>1, Vectors DEF IInv, TypeInv, Container, Node, Sections
<1>5. Kept(S) \subseteq S
  BY DEF Kept
<1>6. \A a, b \in Container : \A n : n \in kids[a] /\ n \in kids[b] => a = b
  BY DEF OwnInv, OneVector
<1>7. Remaining(S) \subseteq Kept(S) /\ \A h : Guests(S, h) # {} => h \in Remaining(S)
  BY HostsAreVisited DEF Remaining
<1> HIDE DEF S
<1>8. ASSUME NEW d \in Container, NEW n \in kids'[d]
      PROVE  \/ n \in kids[d] /\ ~(d \in S /\ Folded(S, d))
             \/ \E g \in Guests(S, d) : n \in kids[g]
  BY <1>2, <1>5 DEF S
<1>9. ASSUME NEW d \in Container, NEW e \in Container, NEW n \in kids'[d], n \in kids'[e]
      PROVE  d = e
  <2>1. CASE n \in kids[d] /\ ~(d \in S /\ Folded(S, d))
              /\ n \in kids[e] /\ ~(e \in S /\ Folded(S, e))
    BY <1>6, <2>1
  <2>2. CASE n \in kids[d] /\ ~(d \in S /\ Folded(S, d))
              /\ \E g \in Guests(S, e) : n \in kids[g]
    <3>1. PICK g \in Guests(S, e) : n \in kids[g]
      BY <2>2
    <3>2. g = d
      BY <1>2, <1>4, <1>6, <2>2, <3>1
    <3> QED BY <1>2, <2>2, <3>1, <3>2
  <2>3. CASE n \in kids[e] /\ ~(e \in S /\ Folded(S, e))
              /\ \E g \in Guests(S, d) : n \in kids[g]
    <3>1. PICK g \in Guests(S, d) : n \in kids[g]
      BY <2>3
    <3>2. g = e
      BY <1>2, <1>4, <1>6, <2>3, <3>1
    <3> QED BY <1>2, <2>3, <3>1, <3>2
  <2>4. CASE (\E g \in Guests(S, d) : n \in kids[g])
              /\ \E g \in Guests(S, e) : n \in kids[g]
    <3>1. PICK g \in Guests(S, d) : n \in kids[g]
      BY <2>4
    <3>2. PICK k \in Guests(S, e) : n \in kids[k]
      BY <2>4
    <3>3. g = k
      BY <1>2, <1>4, <1>6, <3>1, <3>2
    <3>4. d \in Nat /\ e \in Nat
      BY <1>1, <1>2, <3>1, <3>2
    <3> QED BY <1>1, <3>1, <3>2, <3>3, <3>4, OneHost
  <2> QED BY <1>8, <1>9, <2>1, <2>2, <2>3, <2>4
<1>10. OneVector'
  <2>1. \A d \in Container, i \in 1 .. Len(open) : kids'[d] \cap open[i].outer = {}
    <3> SUFFICES ASSUME NEW d \in Container, NEW i \in 1 .. Len(open),
                        NEW n \in kids'[d], n \in open[i].outer
                 PROVE  FALSE
      OBVIOUS
    <3>1. \E a \in Container : n \in kids[a]
      BY <1>2, <1>4, <1>8
    <3> QED BY <3>1 DEF OwnInv, OneVector
  <2>2. \A i, j \in 1 .. Len(open) : \A n \in open[i].outer \cap open[j].outer : i = j
    BY DEF OwnInv, OneVector
  <2>3. \A d, e \in Container : \A n \in kids'[d] \cap kids'[e] : d = e
    BY <1>9
  <2> QED BY <1>1, <1>4, <2>1, <2>2, <2>3 DEF OneVector
<1>11. ASSUME NEW d \in Node, kids'[d] # {} PROVE d \in Sections /\ d \in Live'
  <2>1. PICK n \in kids'[d] : TRUE
    BY <1>11
  <2>2. CASE n \in kids[d] /\ ~(d \in S /\ Folded(S, d))
    <3>1. d \in Sections /\ d \in Live
      BY <2>2 DEF OwnInv
    <3>2. d \in S => d \in Kept(S)
      <4>1. ~Replaced(S, d)
        BY <3>1 DEF Replaced, Earlier, Sections, Named
      <4> QED BY <2>2, <4>1 DEF Kept
    <3> QED BY <1>3, <3>1, <3>2 DEF S
  <2>3. CASE \E g \in Guests(S, d) : n \in kids[g]
    <3>1. d \in Kept(S) /\ d \in Sections /\ d \in S
      BY <1>2, <1>7, <2>3
    <3>2. d \in Live
      BY <3>1, LiveIs DEF S
    <3> QED BY <1>3, <3>1, <3>2 DEF S
  <2> QED BY <1>4, <1>8, <2>1, <2>2, <2>3
<1>12. ASSUME NEW d \in Node, d > size PROVE kids'[d] = {}
  <2>1. kids[d] = {}
    BY <1>12 DEF OwnInv
  <2>2. d \notin Sections
    BY <1>4, <1>12
  <2> QED BY <1>2, <1>4, <1>8, <2>1, <2>2
<1> QED BY <1>1, <1>4, <1>10, <1>11, <1>12 DEF OwnInv

\* Every step keeps the ownership, and every step but a visit only adds to it.
LEMMA NextOwn ==
  ASSUME IInv, PathInv, OwnInv, [Next]_vars
  PROVE  OwnInv'
<1>1. ASSUME NEW key \in FieldKey, NEW op, NEW a, BuildField(key, op, a) PROVE OwnInv'
  BY <1>1, BuildFieldOwn
<1>2. CASE BuildOther
  BY <1>2, BuildOtherOwn
<1>3. ASSUME NEW key \in SectionKey, OpenSection(key) PROVE OwnInv'
  BY <1>3, OpenSectionOwn
<1>4. ASSUME NEW c \in Container, ApplyOverrides(c) PROVE OwnInv'
  BY <1>4, VisitOwn
<1>5. CASE BuildSection
  BY <1>5, BuildSectionOwn
<1>6. CASE CloseSection \/ EndOfFile \/ SetRoot \/ LexError \/ SyntaxError
             \/ UNCHANGED vars
  BY <1>6, PhaseStepOwn
<1> QED BY <1>1, <1>2, <1>3, <1>4, <1>5, <1>6 DEF Next, Done

----------------------------------------------------------------------------
(* Blocks and survivors                                                     *)

\* Construction: what is new is owned, and the rest stays as it was.
LEMMA WrapBlocksOwn ==
  ASSUME IInv, BlockInv, LastInv, NEW rec \in Record, NEW inner, NEW siblings,
         NEW key \in Seq(Name), Len(key) >= 1,
         WrapInSections(rec, inner, siblings, key),
         Live' = Live \cup size + 1 .. size',
         \A n \in Node \ {size + 1} : blocks'[n] = blocks[n],
         blocks'[size + 1] = {} \/ (blocks'[size + 1] = {size + 1} /\ rec.kind = "section")
  PROVE  BlockInv' /\ LastInv'
<1>1. /\ size \in Nat /\ Len(key) \in Nat /\ size' = size + Len(key)
      /\ 1 .. size' \subseteq Node /\ node'[size + 1] = rec
      /\ \A n \in 1 .. size : node'[n] = node[n]
  BY WrapForm DEF IInv, TypeInv
<1>2. /\ Fields \subseteq Fields' /\ Sections \subseteq Sections'
      /\ \A f \in Fields' : f \in Fields \/ f = size + 1
      /\ \A s \in Sections' : s \in Sections \/ s \in size + 1 .. size'
      /\ rec.kind = "section" => size + 1 \in Sections'
  <2>1. \A s \in Sections' : \/ s \in Sections
                             \/ s = size + 1
                             \/ s \in size + 2 .. size'
    BY WrapKinds DEF IInv, TypeInv
  <2>2. size + 1 \in size + 1 .. size' /\ size + 2 .. size' \subseteq size + 1 .. size'
    BY <1>1
  <2> QED BY <2>1, <2>2, WrapKinds DEF IInv, TypeInv
<1>3. /\ Sections \subseteq 1 .. size /\ Fields \subseteq 1 .. size
      /\ \A n \in Node : n > size => blocks[n] = {}
      /\ \A n \in Sections : node'[n] = node[n] /\ n \in Node
      /\ \A n \in Fields : node'[n] = node[n]
  BY <1>1, Vectors DEF Sections, Fields, IInv, FreshOK, TypeInv
<1>4. ASSUME NEW s \in Sections', NEW x \in blocks'[s]
      PROVE  \/ s \in Sections /\ x \in blocks[s] /\ x \in 1 .. size
             \/ s = size + 1 /\ x = size + 1
  <2>1. CASE s \in Sections
    <3>1. s # size + 1 /\ s \in Node
      BY <1>1, <1>3, <2>1
    <3>2. x \in blocks[s]
      BY <1>4, <3>1
    <3>3. x \in 1 .. size
      BY <1>3, <2>1, <3>2 DEF BlockInv
    <3> QED BY <2>1, <3>2, <3>3
  <2>2. CASE s = size + 1
    BY <1>4, <2>2
  <2>3. CASE s \in size + 1 .. size' /\ s # size + 1
    <3>1. s \in Node /\ s > size
      BY <1>1, <2>3
    <3>2. blocks'[s] = {}
      BY <1>3, <2>3, <3>1
    <3> QED BY <1>4, <3>2
  <2> QED BY <1>2, <2>1, <2>2, <2>3
<1>5. \A s \in Sections' : \A x \in blocks'[s] : x \in Sections' /\ node'[x].path = node'[s].path
  <2> SUFFICES ASSUME NEW s \in Sections', NEW x \in blocks'[s]
               PROVE  x \in Sections' /\ node'[x].path = node'[s].path
    OBVIOUS
  <2>1. CASE s \in Sections /\ x \in blocks[s]
    <3>1. x \in Sections /\ node[x].path = node[s].path
      BY <2>1 DEF BlockInv
    <3> QED BY <1>2, <1>3, <2>1, <3>1
  <2>2. CASE s = size + 1 /\ x = size + 1
    BY <2>2
  <2> QED BY <1>4, <2>1, <2>2
<1>6. \A s, t \in Sections' \cap Live' : \A x \in blocks'[s] \cap blocks'[t] : s = t
  <2> SUFFICES ASSUME NEW s \in Sections', NEW t \in Sections',
                      NEW x \in blocks'[s], x \in blocks'[t], s \in Live', t \in Live'
               PROVE  s = t
    OBVIOUS
  <2>1. size + 1 \notin 1 .. size
    BY <1>1
  <2>2. \/ s \in Sections /\ x \in blocks[s] /\ x \in 1 .. size
        \/ s = size + 1 /\ x = size + 1
    BY <1>4
  <2>3. \/ t \in Sections /\ x \in blocks[t] /\ x \in 1 .. size
        \/ t = size + 1 /\ x = size + 1
    BY <1>4
  <2>4. \A k \in Sections : k \in Live' => k \in Live
    BY <1>1, <1>3
  <2>5. \A k, l \in Sections \cap Live : x \in blocks[k] /\ x \in blocks[l] => k = l
    BY DEF BlockInv
  <2> QED BY <2>1, <2>2, <2>3, <2>4, <2>5
<1>7. \A n \in Sections' : \E s \in Sections' \cap Live' : blocks'[n] \subseteq blocks'[s]
  <2> SUFFICES ASSUME NEW n \in Sections'
               PROVE  \E s \in Sections' \cap Live' : blocks'[n] \subseteq blocks'[s]
    OBVIOUS
  <2>1. CASE n \in Sections
    <3>1. PICK s \in Sections \cap Live : blocks[n] \subseteq blocks[s]
      BY <2>1 DEF BlockInv
    <3>2. \A k \in Sections : blocks'[k] = blocks[k]
      <4>1. \A k \in Sections : k \in Node /\ k # size + 1
        BY <1>1, <1>3
      <4> QED BY <4>1
    <3> QED BY <1>2, <2>1, <3>1, <3>2
  <2>2. CASE n \in size + 1 .. size'
    BY <2>2
  <2> QED BY <1>2, <2>1, <2>2
<1>8. \A f \in Fields' : f \in Live' \/ \E g \in Fields' \cap Live' :
                                       g > f /\ node'[g].path = node'[f].path
  <2> SUFFICES ASSUME NEW f \in Fields, f \notin Live'
               PROVE  \E g \in Fields' \cap Live' : g > f /\ node'[g].path = node'[f].path
    <3>1. size + 1 \in Live'
      BY <1>1
    <3> QED BY <1>2, <3>1
  <2>1. PICK g \in Fields \cap Live : g > f /\ node[g].path = node[f].path
    BY DEF LastInv
  <2> QED BY <1>2, <1>3, <2>1
<1>9. \A n \in 1 .. size' : n \in Fields' \cup Sections' \cup Live'
  <2>1. \A n \in 1 .. size' : n \in 1 .. size \/ n \in size + 1 .. size'
    BY <1>1
  <2> QED BY <1>2, <2>1 DEF LastInv
<1> QED BY <1>5, <1>6, <1>7, <1>8, <1>9 DEF BlockInv, LastInv

\* The greatest Field that overrides f stays.
LEMMA LastReplacer ==
  ASSUME NEW S, S \subseteq Nat, NEW b \in Nat, \A x \in S : x <= b,
         NEW f \in S, Replaced(S, f)
  PROVE  \E g \in Kept(S) : /\ g > f /\ Named(g, "field") /\ Named(f, "field")
                            /\ SameName(f, g) /\ node[g].addr \in overrides
<1> DEFINE G == {g \in S : f \in Earlier(S, g, "field") /\ node[g].addr \in overrides}
<1>1. G # {} /\ G \subseteq Nat /\ \A x \in G : x <= b
  BY DEF Replaced
<1>2. PICK g \in G : \A y \in G : y <= g
  <2> HIDE DEF G
  <2> QED BY <1>1, GreatestElement
<1>3. /\ g \in S /\ g \in Nat /\ f < g /\ Named(f, "field") /\ Named(g, "field")
      /\ SameName(f, g) /\ node[g].addr \in overrides
  BY <1>2 DEF Earlier
<1>4. ~Folded(S, g)
  BY <1>3 DEF Folded, Earlier, Named
<1>5. ~Replaced(S, g)
  <2> SUFFICES ASSUME NEW k \in S, g \in Earlier(S, k, "field"), node[k].addr \in overrides
               PROVE  FALSE
    BY DEF Replaced
  <2>1. k \in Nat /\ g < k /\ Named(k, "field") /\ SameName(g, k)
    BY DEF Earlier
  <2>2. f < k /\ SameName(f, k)
    BY <1>3, <2>1 DEF SameName
  <2>3. k \in G
    BY <1>3, <2>1, <2>2 DEF Earlier
  <2> QED BY <1>2, <1>3, <2>1, <2>3
<1> QED BY <1>3, <1>4, <1>5 DEF Kept

\* For each Field whose last owner a visit takes away there is a later one of
\* its path, with an address among the overrides, that stays.
LEMMA VisitFields ==
  ASSUME IInv, PathInv, OwnInv, NEW c \in Container, ApplyOverrides(c),
         NEW f \in Fields, f \in Live
  PROVE  f \in Live' \/ \E g \in Fields \cap Live' :
           g > f /\ node[g].path = node[f].path /\ node[g].addr \in overrides
<1> SUFFICES ASSUME f \notin Live'
             PROVE  \E g \in Fields \cap Live' :
                      g > f /\ node[g].path = node[f].path /\ node[g].addr \in overrides
  OBVIOUS
<1> DEFINE S == kids[c]
<1>1. S \subseteq 1 .. size /\ S \subseteq Nat /\ size \in Nat
      /\ kids'[c] = Kept(S)
  BY VisitForm, Vectors DEF IInv, TypeInv
<1>2. f \in S /\ f \notin Kept(S)
  BY VisitLive
<1>3. c \in {Items} \cup Sections
  BY DEF ApplyOverrides, PathInv
<1>4. Replaced(S, f)
  <2>1. ~Folded(S, f)
    BY DEF Folded, Earlier, Fields, Named
  <2> QED BY <1>2, <2>1 DEF Kept
<1>5. \A x \in S : x <= size
  BY <1>1
<1>6. PICK g \in Kept(S) : /\ g > f /\ Named(g, "field") /\ Named(f, "field")
                           /\ SameName(f, g) /\ node[g].addr \in overrides
  <2> HIDE DEF S
  <2> QED BY <1>1, <1>2, <1>4, <1>5, LastReplacer
<1>7. g \in S /\ g \in Fields
  BY <1>1, <1>6 DEF Kept, Fields
<1>8. node[g].path = node[f].path
  <2>1. g \in kids[c] /\ f \in kids[c] /\ ~Named(g, "other") /\ ~Named(f, "other")
        /\ SameName(g, f)
    BY <1>2, <1>6, <1>7 DEF Named, SameName
  <2> QED BY <1>3, <2>1, SiblingPath
<1>9. g \in Live'
  <2>1. g \in Live
    BY <1>7, LiveIs
  <2> QED BY <1>6, <2>1, VisitLive
<1> QED BY <1>6, <1>7, <1>8, <1>9

LEMMA VisitBlocks ==
  ASSUME IInv, PathInv, OwnInv, BlockInv, LastInv, NEW c \in Container, ApplyOverrides(c)
  PROVE  BlockInv' /\ LastInv'
<1> DEFINE S == kids[c]
<1>1. /\ UNCHANGED <<size, node, overrides, open, phase>>
      /\ S \subseteq 1 .. size /\ S \subseteq Nat
      /\ Sections' = Sections /\ Fields' = Fields
  BY VisitForm DEF IInv, TypeInv
<1>2. \A d : \A g \in Guests(S, d) :
        /\ d \in S /\ g \in S /\ Folded(S, g) /\ ~Folded(S, d)
        /\ d \in Sections /\ g \in Sections /\ node[g].path = node[d].path
  BY VisitLists
<1>3. /\ Live' \subseteq Live
      /\ \A n \in Live : n \in Live' \/ (n \in S /\ n \notin Kept(S))
      /\ \A n \in Live' : n \in S => n \in Kept(S)
  BY VisitLive
<1>4. \A s \in Sections : s \in Node
  BY Vectors DEF Sections, IInv, TypeInv
<1>5. \A n \in Node : blocks'[n] = blocks[n] \cup UNION {blocks[m] : m \in Guests(S, n)}
  BY DEF ApplyOverrides
<1>6. \A n \in S : n \in Live
  BY LiveIs
<1>7. Remaining(S) \subseteq Kept(S) /\ \A h : Guests(S, h) # {} => h \in Remaining(S)
  BY HostsAreVisited DEF Remaining
<1> HIDE DEF S
<1>8. ASSUME NEW s \in Sections, NEW x \in blocks'[s]
      PROVE  \E o \in Sections : x \in blocks[o] /\ (o = s \/ o \in Guests(S, s))
  <2>1. x \in blocks[s] \/ \E g \in Guests(S, s) : x \in blocks[g]
    BY <1>4, <1>5, <1>8
  <2> QED BY <1>2, <2>1
<1>9. \A s \in Sections : \A x \in blocks'[s] : x \in Sections /\ node[x].path = node[s].path
  <2> SUFFICES ASSUME NEW s \in Sections, NEW x \in blocks'[s]
               PROVE  x \in Sections /\ node[x].path = node[s].path
    OBVIOUS
  <2>1. PICK o \in Sections : x \in blocks[o] /\ (o = s \/ o \in Guests(S, s))
    BY <1>8
  <2> QED BY <1>2, <2>1 DEF BlockInv
<1>10. ASSUME NEW s \in Sections, NEW t \in Sections, s \in Live', t \in Live',
              NEW x \in blocks'[s], x \in blocks'[t]
       PROVE  s = t
  <2>1. PICK o \in Sections : x \in blocks[o] /\ (o = s \/ o \in Guests(S, s))
    BY <1>8
  <2>2. PICK p \in Sections : x \in blocks[p] /\ (p = t \/ p \in Guests(S, t))
    BY <1>8, <1>10
  <2>3. o \in Live /\ p \in Live
    BY <1>2, <1>3, <1>6, <1>10, <2>1, <2>2
  <2>4. o = p
    BY <2>1, <2>2, <2>3 DEF BlockInv
  <2>5. \A k \in Sections : k \in Live' => \A h : k \notin Guests(S, h)
    <3>1. \A k \in Kept(S) : ~Folded(S, k)
      BY DEF Kept
    <3> QED BY <1>2, <1>3, <3>1
  <2>6. CASE o = s /\ p = t
    BY <2>4, <2>6
  <2>7. CASE o \in Guests(S, s) /\ p \in Guests(S, t)
    <3>1. s \in Nat /\ t \in Nat
      BY <1>1, <1>2, <2>7
    <3> QED BY <1>1, <2>4, <2>7, <3>1, OneHost
  <2> QED BY <1>10, <2>1, <2>2, <2>4, <2>5, <2>6, <2>7
<1>11. \A n \in Sections : \E s \in Sections \cap Live' : blocks'[n] \subseteq blocks'[s]
  <2> SUFFICES ASSUME NEW n \in Sections
               PROVE  \E s \in Sections \cap Live' : blocks'[n] \subseteq blocks'[s]
    OBVIOUS
  <2>1. CASE Guests(S, n) # {}
    <3>1. n \in Kept(S) /\ n \in S
      BY <1>7, <2>1 DEF Kept
    <3>2. n \in Live'
      BY <1>3, <1>6, <3>1
    <3> QED BY <3>2
  <2>2. CASE Guests(S, n) = {}
    <3>1. blocks'[n] = blocks[n]
      <4>1. UNION {blocks[m] : m \in Guests(S, n)} = {}
        BY <2>2
      <4> QED BY <1>4, <1>5, <4>1
    <3>2. PICK s \in Sections \cap Live : blocks[n] \subseteq blocks[s]
      BY DEF BlockInv
    <3>3. \A k \in Sections : blocks[k] \subseteq blocks'[k]
      BY <1>4, <1>5
    <3>4. CASE s \in Live'
      BY <3>1, <3>2, <3>3, <3>4
    <3>5. CASE s \notin Live'
      <4>1. s \in S /\ s \notin Kept(S)
        BY <1>3, <3>2, <3>5
      <4>2. Folded(S, s)
        <5>1. ~Replaced(S, s)
          BY <3>2 DEF Replaced, Earlier, Sections, Named
        <5> QED BY <4>1, <5>1 DEF Kept
      <4>3. PICK h \in S : s \in Guests(S, h)
        BY <1>1, <4>1, <4>2, FoldedHasHost
      <4>4. h \in Sections /\ h \in Kept(S) /\ h \in Live'
        BY <1>2, <1>3, <1>6, <1>7, <4>3
      <4>5. blocks[s] \subseteq blocks'[h]
        BY <1>4, <1>5, <4>3, <4>4
      <4> QED BY <3>1, <3>2, <4>4, <4>5
    <3> QED BY <3>4, <3>5
  <2> QED BY <2>1, <2>2
<1>12. ASSUME NEW f \in Fields
       PROVE  f \in Live' \/ \E g \in Fields \cap Live' : g > f /\ node[g].path = node[f].path
  <2>0. Fields \subseteq Nat
    BY DEF Fields
  <2>1. CASE f \in Live
    BY <2>1, VisitFields
  <2>2. CASE f \notin Live
    <3>1. PICK w \in Fields \cap Live : w > f /\ node[w].path = node[f].path
      BY <2>2 DEF LastInv
    <3>2. w \in Live' \/ \E g \in Fields \cap Live' : g > w /\ node[g].path = node[w].path
      BY <3>1, VisitFields
    <3>3. CASE w \in Live'
      BY <3>1, <3>3
    <3>4. CASE \E g \in Fields \cap Live' : g > w /\ node[g].path = node[w].path
      <4>1. PICK g \in Fields \cap Live' : g > w /\ node[g].path = node[w].path
        BY <3>4
      <4>2. g > f
        BY <2>0, <3>1, <4>1
      <4> QED BY <3>1, <4>1, <4>2
    <3> QED BY <3>2, <3>3, <3>4
  <2> QED BY <2>1, <2>2
<1>13. \A n \in 1 .. size : n \in Fields \cup Sections \cup Live'
  <2> SUFFICES ASSUME NEW n \in 1 .. size, n \notin Fields, n \notin Sections
               PROVE  n \in Live'
    OBVIOUS
  <2>1. n \in Live /\ ~Named(n, "field") /\ ~Named(n, "section")
    BY DEF LastInv, Fields, Sections
  <2>2. ~Folded(S, n) /\ ~Replaced(S, n)
    BY <2>1 DEF Folded, Replaced, Earlier
  <2>3. n \in S => n \in Kept(S)
    BY <2>2 DEF Kept
  <2> QED BY <1>3, <2>1, <2>3
<1>14. BlockInv'
  <2>1. \A s, t \in Sections \cap Live' : \A x \in blocks'[s] \cap blocks'[t] : s = t
    BY <1>10
  <2> QED BY <1>1, <1>9, <1>11, <2>1 DEF BlockInv
<1>15. LastInv'
  BY <1>1, <1>12, <1>13 DEF LastInv
<1> QED BY <1>14, <1>15

LEMMA NextBlocks ==
  ASSUME TreeInv, [Next]_vars
  PROVE  BlockInv' /\ LastInv'
<1>0. IInv /\ PathInv /\ OwnInv /\ BlockInv /\ LastInv
  BY DEF TreeInv
<1>1. ASSUME NEW key \in FieldKey, NEW op \in {"=", ":="}, NEW a \in {size + 1} \cup Freed,
             BuildField(key, op, a)
      PROVE  BlockInv' /\ LastInv'
  <2> DEFINE rec == [kind |-> "field", name |-> key[Len(key)], op |-> op,
                     addr |-> a, path |-> Here \o key]
             none == {}
  <2>1. key \in Seq(Name) /\ Len(key) >= 1
    BY KeyType
  <2>2. WrapInSections(rec, none, kids[Items], key) /\ blocks' = blocks
    BY <1>1 DEF BuildField
  <2>3. TypeInv'
    BY <1>0, <1>1, BuildFieldType DEF IInv
  <2> HIDE DEF rec, none
  <2>4. node'[size + 1] = rec /\ size + 1 \in 1 .. size' /\ 1 .. size' \subseteq Node
        /\ size \in Nat
    BY <1>0, <2>1, <2>2, WrapForm DEF IInv, TypeInv
  <2>5. rec \in Record
    BY <2>3, <2>4 DEF TypeInv, TypeOK
  <2>6. blocks'[size + 1] = {}
    <3>1. size + 1 \in Node /\ size + 1 > size
      BY <2>4
    <3> QED BY <1>0, <2>2, <3>1 DEF IInv, FreshOK
  <2>7. Live' = Live \cup size + 1 .. size'
    BY <1>0, <1>1, BuildFieldOwn
  <2>8. \A n \in Node \ {size + 1} : blocks'[n] = blocks[n]
    BY <2>2
  <2> QED BY <1>0, <2>1, <2>2, <2>5, <2>6, <2>7, <2>8, WrapBlocksOwn
<1>2. CASE BuildSection
  <2> DEFINE frame == open[Len(open)]
             key == frame.key
             rec == [kind |-> "section", name |-> frame.key[Len(frame.key)],
                     op |-> "none", addr |-> 0, path |-> frame.path]
  <2>1. key \in Seq(Name) /\ Len(key) >= 1 /\ open # <<>>
    BY <1>0, <1>2, FrameType, KeyType DEF BuildSection, IInv, PhaseOK
  <2>2. WrapInSections(rec, kids[Items], frame.outer, key)
        /\ blocks' = [blocks EXCEPT ![size + 1] = {size + 1}]
    BY <1>2 DEF BuildSection
  <2>3. TypeInv'
    BY <1>0, <1>2, <2>1, BuildSectionType DEF IInv
  <2>9. rec.kind = "section"
    OBVIOUS
  <2> HIDE DEF rec, key, frame
  <2>4. node'[size + 1] = rec /\ size + 1 \in 1 .. size' /\ 1 .. size' \subseteq Node
    BY <1>0, <2>1, <2>2, WrapForm DEF IInv, TypeInv
  <2>5. rec \in Record
    BY <2>3, <2>4 DEF TypeInv, TypeOK
  <2>6. blocks'[size + 1] = {size + 1}
    BY <1>0, <2>2, <2>4 DEF IInv, TypeInv, TypeOK
  <2>7. Live' = Live \cup size + 1 .. size'
    BY <1>0, <1>2, BuildSectionOwn
  <2>8. \A n \in Node \ {size + 1} : blocks'[n] = blocks[n]
    BY <1>0, <2>2 DEF IInv, TypeInv, TypeOK
  <2> QED BY <1>0, <2>1, <2>2, <2>5, <2>6, <2>7, <2>8, <2>9, WrapBlocksOwn
<1>3. CASE BuildOther
  <2>1. /\ size \in Nat /\ size' = size + 1
        /\ \A n \in 1 .. size : node'[n] = node[n]
        /\ Sections' = Sections /\ Fields' = Fields
        /\ blocks' = blocks /\ Live' = Live \cup {size + 1}
    BY <1>0, <1>3, BuildOtherForm, BuildOtherOwn DEF IInv, TypeInv, BuildOther
  <2>2. /\ Sections \subseteq 1 .. size /\ Fields \subseteq 1 .. size
        /\ size + 1 \notin 1 .. size /\ \A n \in 1 .. size' : n \in 1 .. size \/ n = size + 1
    BY <2>1 DEF Sections, Fields
  <2>3. Sections \cap Live' = Sections \cap Live /\ Fields \cap Live' = Fields \cap Live
    BY <2>1, <2>2
  <2>4. BlockInv'
    <3>1. \A s \in Sections : \A x \in blocks[s] :
            x \in Sections /\ node'[x].path = node'[s].path
      BY <1>0, <2>1, <2>2 DEF BlockInv
    <3> QED BY <1>0, <2>1, <2>3, <3>1 DEF BlockInv
  <2>5. LastInv'
    <3>1. \A f \in Fields : f \in Live' \/ \E g \in Fields \cap Live :
                              g > f /\ node'[g].path = node'[f].path
      BY <1>0, <2>1, <2>2 DEF LastInv
    <3>2. \A n \in 1 .. size' : n \in Fields \cup Sections \cup Live'
      BY <1>0, <2>1, <2>2 DEF LastInv
    <3> QED BY <2>1, <2>3, <3>1, <3>2 DEF LastInv
  <2> QED BY <2>4, <2>5
<1>4. ASSUME NEW c \in Container, ApplyOverrides(c) PROVE BlockInv' /\ LastInv'
  BY <1>0, <1>4, VisitBlocks
<1>5. ASSUME UNCHANGED <<size, node, blocks>>, Live' = Live
      PROVE  BlockInv' /\ LastInv'
  BY <1>0, <1>5 DEF BlockInv, LastInv, Sections, Fields, Named
<1>6. ASSUME NEW key \in SectionKey, OpenSection(key) PROVE BlockInv' /\ LastInv'
  BY <1>0, <1>5, <1>6, OpenSectionOwn DEF OpenSection
<1>7. CASE CloseSection \/ EndOfFile \/ SetRoot \/ LexError \/ SyntaxError
             \/ UNCHANGED vars
  BY <1>0, <1>5, <1>7, PhaseStepForm, PhaseStepOwn
<1>8. ASSUME NEW a \in {size + 1} \cup (IF Reuse THEN Freed ELSE {})
      PROVE  a \in {size + 1} \cup Freed
  BY ReuseAssumption
<1> QED BY <1>1, <1>2, <1>3, <1>4, <1>6, <1>7, <1>8 DEF Next, Done

----------------------------------------------------------------------------
(* The theorems                                                             *)

LEMMA InitTree == Init => TreeInv
<1> SUFFICES ASSUME Init PROVE TreeInv
  OBVIOUS
<1>1. /\ size = 0 /\ open = <<>> /\ work = {} /\ Len(open) = 0
      /\ \A c \in Container : kids[c] = {}
      /\ \A n \in Node : blocks[n] = {} /\ reports[n] = 0
      /\ Node \subseteq Container /\ Items \in Container
  BY NodeAssumption DEF Init, Node, Container, Items
<1>2. Sections = {} /\ Fields = {}
  BY <1>1 DEF Sections, Fields
<1>3. PathInv
  BY <1>1, <1>2 DEF PathInv, PathsKept, ItemPaths, FramePaths
<1>4. ReportInv
  BY <1>1, <1>2 DEF ReportInv, NoFalseReports
<1>5. OwnInv
  BY <1>1 DEF OwnInv, OneVector
<1>6. BlockInv /\ LastInv
  BY <1>1, <1>2 DEF BlockInv, LastInv
<1> QED BY <1>3, <1>4, <1>5, <1>6, InitInv DEF TreeInv

LEMMA NextTree == TreeInv /\ [Next]_vars => TreeInv'
BY NextInv, NextPaths, NextReports, NextOwn, NextBlocks DEF TreeInv

THEOREM TreeInvariance == Spec => []TreeInv
BY InitTree, NextTree, PTL DEF Spec

\* Wherever apply_overrides moves a node, its path is what the text called it.
THEOREM PathsStay == Spec => []PathsKept
<1>1. TreeInv => PathsKept
  BY DEF TreeInv, PathInv
<1> QED BY <1>1, TreeInvariance, PTL

\* A duplicate is reported only of a Field written with '=' behind another of
\* its path.
THEOREM ReportsHaveCause == Spec => []NoFalseReports
<1>1. TreeInv => NoFalseReports
  BY DEF TreeInv, ReportInv
<1> QED BY <1>1, TreeInvariance, PTL

\* A node that is owned when the document is settled stands in the document or
\* in an owned section, under its own name.
ListPath(c) == IF c = Items THEN <<>> ELSE node[c].path

LEMMA Placed ==
  ASSUME TreeInv, phase = "ok", NEW n \in Fields \cup Sections, n \in Live
  PROVE  \E c \in Container :
           /\ n \in kids[c]
           /\ ListPath(c) \in Seq(Name \cup {"none"}) /\ node[n].name \in Name \cup {"none"}
           /\ node[n].path = Append(ListPath(c), node[n].name)
           /\ c = Items \/ (c \in Sections \cap Live /\ ListPath(c) # <<>>)
<1>1. open = <<>> /\ Len(open) = 0
  BY DEF TreeInv, OwnInv
<1>2. PICK c \in Container : n \in kids[c]
  BY <1>1, LiveIs
<1>3. c = Items \/ c \in Node
  BY DEF Container, Node, Items
<1>4. Seq(Name) \subseteq Seq(Name \cup {"none"})
  BY SeqMonotonic
<1>5. ~Named(n, "other") /\ n \in Node
  BY Vectors DEF Fields, Sections, Named, TreeInv, IInv, TypeInv
<1>6. node[n].name \in Name \cup {"none"}
  BY <1>5 DEF TreeInv, IInv, TypeInv, TypeOK, Record
<1>7. CASE c = Items
  <2>1. Here = <<>> /\ ListPath(c) = <<>> /\ <<>> \in Seq(Name)
    BY <1>1, <1>7 DEF Here, ListPath
  <2>2. node[n].path = Append(Here, node[n].name)
    BY <1>2, <1>5, <1>7 DEF TreeInv, PathInv, ItemPaths, In
  <2> QED BY <1>2, <1>4, <1>6, <1>7, <2>1, <2>2
<1>8. CASE c # Items
  <2>1. c \in Sections /\ c \in Live /\ c \in Node
    BY <1>2, <1>3, <1>8 DEF TreeInv, OwnInv
  <2>2. node[c].path # <<>> /\ node[n].path = Append(node[c].path, node[n].name)
    BY <1>2, <1>5, <2>1 DEF TreeInv, PathInv, PathsKept
  <2>3. ListPath(c) = node[c].path
    BY <1>8 DEF ListPath
  <2>4. node[c].path \in Seq(Name)
    BY <2>1 DEF TreeInv, IInv, TypeInv, TypeOK, Record
  <2> QED BY <1>2, <1>4, <1>6, <2>1, <2>2, <2>3, <2>4
<1> QED BY <1>7, <1>8

\* In a text whose blocks have different paths, a path names one section of the
\* tree.  Take two sections of one path, the path as short as it can be: their
\* owners have one path, so they are one list; in a settled list both were
\* written as blocks, and blocks of one path are one block.
LEMMA OnePlace ==
  ASSUME TreeInv, phase = "ok", BlocksAreDistinct,
         NEW s \in Sections \cap Live, NEW t \in Sections \cap Live,
         node[s].path = node[t].path
  PROVE  s = t
<1> DEFINE Bad(l) == \E x, y \in Sections \cap Live :
                       x # y /\ node[x].path = node[y].path /\ l = Len(node[x].path)
           T == {l \in Nat : Bad(l)}
<1>1. \A x \in Sections : Len(node[x].path) \in Nat /\ x \in Node
  <2> SUFFICES ASSUME NEW x \in Sections PROVE Len(node[x].path) \in Nat /\ x \in Node
    OBVIOUS
  <2>1. x \in Node
    BY Vectors DEF Sections, TreeInv, IInv, TypeInv
  <2>2. node[x].path \in Seq(Name)
    BY <2>1 DEF TreeInv, IInv, TypeInv, TypeOK, Record
  <2> QED BY <2>1, <2>2, LenProperties
<1>2. SUFFICES ASSUME s # t PROVE FALSE
  OBVIOUS
<1>3. T # {} /\ T \subseteq Nat
  <2>1. Len(node[s].path) \in T
    BY <1>1, <1>2
  <2> QED BY <2>1
<1>4. PICK l \in T : \A k \in T : l <= k
  <2> HIDE DEF T
  <2> QED BY <1>3, LeastElement
<1>5. PICK x \in Sections \cap Live, y \in Sections \cap Live :
        x # y /\ node[x].path = node[y].path /\ l = Len(node[x].path)
  BY <1>4
<1>6. PICK c \in Container :
        /\ x \in kids[c]
        /\ ListPath(c) \in Seq(Name \cup {"none"}) /\ node[x].name \in Name \cup {"none"}
        /\ node[x].path = Append(ListPath(c), node[x].name)
        /\ c = Items \/ (c \in Sections \cap Live /\ ListPath(c) # <<>>)
  BY Placed
<1>7. PICK d \in Container :
        /\ y \in kids[d]
        /\ ListPath(d) \in Seq(Name \cup {"none"}) /\ node[y].name \in Name \cup {"none"}
        /\ node[y].path = Append(ListPath(d), node[y].name)
        /\ d = Items \/ (d \in Sections \cap Live /\ ListPath(d) # <<>>)
  BY Placed
<1>8. ListPath(c) = ListPath(d) /\ node[x].name = node[y].name
  <2>1. Append(ListPath(c), node[x].name) = Append(ListPath(d), node[y].name)
    BY <1>5, <1>6, <1>7
  <2> QED BY <1>6, <1>7, <2>1, AppendInjective
<1>9. CASE c = d
  <2>1. CleanSections(kids[c])
    BY DEF TreeInv, IInv, PhaseOK, CleanOK, Settled
  <2>2. Named(x, "section") /\ Named(y, "section") /\ SameName(x, y) /\ SameName(y, x)
    BY <1>8 DEF Sections, SameName
  <2>3. ~wrapper[x] /\ ~wrapper[y]
    BY <1>5, <1>6, <1>7, <1>9, <2>1, <2>2 DEF CleanSections
  <2>4. blocks[x] # {} /\ blocks[y] # {}
    BY <2>3 DEF TreeInv, IInv, BlocksNeverMerge
  <2>5. PICK a \in blocks[x], b \in blocks[y] : TRUE
    BY <2>4
  <2>6. node[a].path = node[x].path /\ node[b].path = node[y].path
    BY DEF TreeInv, BlockInv
  <2>7. a \in Block /\ b \in Block
    BY DEF Block
  <2>8. a = b
    BY <1>5, <2>6, <2>7 DEF BlocksAreDistinct
  <2> QED BY <1>5, <2>5, <2>8 DEF TreeInv, BlockInv
<1>10. CASE c # d
  <2>1. c \in Sections \cap Live /\ d \in Sections \cap Live
    <3>1. ListPath(Items) = <<>>
      BY DEF ListPath
    <3> QED BY <1>6, <1>7, <1>8, <1>10, <3>1
  <2>2. ListPath(c) = node[c].path /\ ListPath(d) = node[d].path
    <3>1. Items \notin Node
      BY DEF Items, Node
    <3> QED BY <1>1, <2>1, <3>1 DEF ListPath
  <2>3. Len(node[c].path) \in T
    BY <1>1, <1>8, <1>10, <2>1, <2>2
  <2>4. Len(node[x].path) = Len(node[c].path) + 1
    <3> DEFINE p == ListPath(c)
               e == node[x].name
    <3>1. p \in Seq(Name \cup {"none"}) /\ e \in Name \cup {"none"}
      BY <1>6
    <3>2. node[x].path = Append(p, e) /\ p = node[c].path
      BY <1>6, <2>2
    <3> HIDE DEF p, e
    <3>3. Len(Append(p, e)) = Len(p) + 1
      BY <3>1, AppendProperties
    <3> QED BY <3>2, <3>3
  <2>5. l <= Len(node[c].path) /\ Len(node[c].path) \in Nat
    BY <1>1, <1>4, <2>1, <2>3
  <2> QED BY <1>5, <2>4, <2>5
<1> QED BY <1>9, <1>10

LEMMA LastWins == TreeInv => LastOccurrenceWins
<1> SUFFICES ASSUME TreeInv, phase = "ok", BlocksAreDistinct, NEW f \in Fields
             PROVE  f \in Live <=> ~ \E g \in Fields : g > f /\ node[g].path = node[f].path
  BY DEF LastOccurrenceWins
<1>1. \A g \in Fields : g \in Nat
  BY DEF Fields
<1>2. ASSUME f \notin Live
      PROVE  \E g \in Fields : g > f /\ node[g].path = node[f].path
  BY <1>2 DEF TreeInv, LastInv
<1>3. ASSUME f \in Live, NEW h \in Fields, h > f, node[h].path = node[f].path
      PROVE  FALSE
  <2>1. PICK g \in Fields \cap Live : g > f /\ node[g].path = node[f].path
    <3>1. CASE h \in Live
      BY <1>3, <3>1
    <3>2. CASE h \notin Live
      <4>1. PICK g \in Fields \cap Live : g > h /\ node[g].path = node[h].path
        BY <3>2 DEF TreeInv, LastInv
      <4> QED BY <1>1, <1>3, <4>1
    <3> QED BY <3>1, <3>2
  <2>2. PICK c \in Container :
          /\ f \in kids[c]
          /\ ListPath(c) \in Seq(Name \cup {"none"}) /\ node[f].name \in Name \cup {"none"}
          /\ node[f].path = Append(ListPath(c), node[f].name)
          /\ c = Items \/ (c \in Sections \cap Live /\ ListPath(c) # <<>>)
    BY <1>3, Placed
  <2>3. PICK d \in Container :
          /\ g \in kids[d]
          /\ ListPath(d) \in Seq(Name \cup {"none"}) /\ node[g].name \in Name \cup {"none"}
          /\ node[g].path = Append(ListPath(d), node[g].name)
          /\ d = Items \/ (d \in Sections \cap Live /\ ListPath(d) # <<>>)
    BY Placed
  <2>4. ListPath(c) = ListPath(d) /\ node[f].name = node[g].name
    BY <2>1, <2>2, <2>3, AppendInjective
  <2>5. c = d
    <3>1. ListPath(Items) = <<>>
      BY DEF ListPath
    <3>2. CASE c \in Sections \cap Live /\ d \in Sections \cap Live
      <4>1. c # Items /\ d # Items
        BY <3>2 DEF Sections, Items
      <4>2. node[c].path = node[d].path
        BY <2>4, <4>1 DEF ListPath
      <4> QED BY <3>2, <4>2, OnePlace
    <3> QED BY <2>2, <2>3, <2>4, <3>1, <3>2
  <2>6. CleanFields(kids[c])
    BY DEF TreeInv, IInv, PhaseOK, CleanOK, Settled
  <2>7. f = g
    BY <2>2, <2>3, <2>4, <2>5, <2>6 DEF CleanFields, Fields, SameName
  <2> QED BY <1>1, <2>1, <2>7
<1> QED BY <1>2, <1>3

\* Where a path names one place, the Fields of a returned tree are the last of
\* their path in the text.
THEOREM LastOneWins == Spec => []LastOccurrenceWins
BY LastWins, TreeInvariance, PTL

----------------------------------------------------------------------------
(* Nothing is lost, when no address is used twice                           *)

LEMMA OverrideStays ==
  ASSUME OverrideInv, Live \subseteq Live', Fields \subseteq Fields',
         \A f \in Fields' : f \in Fields \/ f \in Live',
         \A f \in Fields : node'[f] = node[f],
         \A f \in Fields' : node'[f].addr = f,
         overrides' \subseteq {f \in Fields' : node'[f].op = ":="}
  PROVE  OverrideInv'
<1>1. ASSUME NEW f \in Fields', f \notin Live'
      PROVE  \E g \in Fields' \cap Live' :
               g > f /\ node'[g].op = ":=" /\ node'[g].path = node'[f].path
  <2>1. f \in Fields /\ f \notin Live
    BY <1>1
  <2>2. PICK g \in Fields \cap Live : g > f /\ node[g].op = ":=" /\ node[g].path = node[f].path
    BY <2>1 DEF OverrideInv
  <2> QED BY <2>1, <2>2
<1> QED BY <1>1 DEF OverrideInv

LEMMA VisitOverride ==
  ASSUME TreeInv, OverrideInv, NEW c \in Container, ApplyOverrides(c)
  PROVE  OverrideInv'
<1>1. /\ UNCHANGED <<size, node, overrides, open, phase>>
      /\ Fields' = Fields /\ IInv /\ PathInv /\ OwnInv
  BY VisitForm DEF TreeInv, IInv, TypeInv
<1>2. \A g \in Fields : g \in Nat /\ (node[g].addr \in overrides => node[g].op = ":=")
  BY DEF OverrideInv, Fields
<1>3. ASSUME NEW f \in Fields, f \in Live
      PROVE  f \in Live' \/ \E g \in Fields \cap Live' :
               g > f /\ node[g].op = ":=" /\ node[g].path = node[f].path
  <2>1. f \in Live' \/ \E g \in Fields \cap Live' :
          g > f /\ node[g].path = node[f].path /\ node[g].addr \in overrides
    BY <1>1, <1>3, VisitFields
  <2> QED BY <1>2, <2>1
<1>4. ASSUME NEW f \in Fields
      PROVE  f \in Live' \/ \E g \in Fields \cap Live' :
               g > f /\ node[g].op = ":=" /\ node[g].path = node[f].path
  <2>1. CASE f \in Live
    BY <1>3, <2>1
  <2>2. CASE f \notin Live
    <3>1. PICK w \in Fields \cap Live : w > f /\ node[w].op = ":=" /\ node[w].path = node[f].path
      BY <2>2 DEF OverrideInv
    <3>2. CASE w \in Live'
      BY <3>1, <3>2
    <3>3. CASE w \notin Live'
      <4>1. PICK g \in Fields \cap Live' :
              g > w /\ node[g].op = ":=" /\ node[g].path = node[w].path
        BY <1>3, <3>1, <3>3
      <4>2. g > f
        BY <1>2, <3>1, <4>1
      <4> QED BY <3>1, <4>1, <4>2
    <3> QED BY <3>2, <3>3
  <2> QED BY <2>1, <2>2
<1> QED BY <1>1, <1>4 DEF OverrideInv

LEMMA NextOverride ==
  ASSUME ~Reuse, TreeInv, OverrideInv, [Next]_vars
  PROVE  OverrideInv'
<1>0. IInv /\ OwnInv /\ TypeInv /\ TypeOK
  BY DEF TreeInv, IInv, TypeInv
<1>1. ASSUME NEW key \in FieldKey, NEW op \in {"=", ":="}, BuildField(key, op, size + 1)
      PROVE  OverrideInv'
  <2> DEFINE rec == [kind |-> "field", name |-> key[Len(key)], op |-> op,
                     addr |-> size + 1, path |-> Here \o key]
             none == {}
  <2>1. key \in Seq(Name) /\ Len(key) >= 1
    BY KeyType
  <2>2. WrapInSections(rec, none, kids[Items], key) /\ overrides' = Tagged(op, size + 1)
    BY <1>1 DEF BuildField
  <2>3. rec.kind = "field" /\ rec.op = op /\ rec.addr = size + 1
    OBVIOUS
  <2> HIDE DEF rec, none
  <2>4. /\ size \in Nat /\ size + 1 \in size + 1 .. size' /\ node'[size + 1] = rec
        /\ \A n \in 1 .. size : node'[n] = node[n]
    BY <1>0, <2>1, <2>2, WrapForm
  <2>5. /\ Fields \subseteq Fields' /\ size + 1 \in Fields'
        /\ \A f \in Fields' : f \in Fields \/ f = size + 1
    BY <1>0, <2>1, <2>2, <2>3, WrapKinds
  <2>6. \A f \in Fields : node'[f] = node[f]
    BY <2>4 DEF Fields
  <2>7. Live' = Live \cup size + 1 .. size'
    BY <1>0, <1>1, BuildFieldOwn
  <2>8. \A f \in Fields' : node'[f].addr = f
    BY <2>3, <2>4, <2>5, <2>6 DEF OverrideInv
  <2>9. overrides' \subseteq {f \in Fields' : node'[f].op = ":="}
    <3>1. \A f \in overrides : f \in Fields' /\ node'[f].op = ":="
      BY <2>5, <2>6 DEF OverrideInv
    <3>2. op = ":=" => size + 1 \in Fields' /\ node'[size + 1].op = ":="
      BY <2>3, <2>4, <2>5
    <3>3. \A f \in overrides' : f \in overrides \/ (f = size + 1 /\ op = ":=")
      BY <2>2 DEF Tagged
    <3> QED BY <3>1, <3>2, <3>3
  <2> QED BY <2>4, <2>5, <2>6, <2>7, <2>8, <2>9, OverrideStays
<1>2. CASE BuildSection
  <2> DEFINE frame == open[Len(open)]
             key == frame.key
             rec == [kind |-> "section", name |-> frame.key[Len(frame.key)],
                     op |-> "none", addr |-> 0, path |-> frame.path]
  <2>1. key \in Seq(Name) /\ Len(key) >= 1
    BY <1>0, <1>2, FrameType, KeyType DEF BuildSection, IInv, PhaseOK
  <2>2. WrapInSections(rec, kids[Items], frame.outer, key) /\ overrides' = overrides
    BY <1>2 DEF BuildSection
  <2>3. rec.kind # "field"
    OBVIOUS
  <2> HIDE DEF rec, key, frame
  <2>4. \A n \in 1 .. size : node'[n] = node[n]
    BY <1>0, <2>1, <2>2, WrapForm
  <2>5. Fields' = Fields
    BY <1>0, <2>1, <2>2, <2>3, WrapKinds
  <2>6. \A f \in Fields : node'[f] = node[f]
    BY <2>4 DEF Fields
  <2>7. Live \subseteq Live'
    BY <1>0, <1>2, BuildSectionOwn
  <2> QED BY <2>2, <2>5, <2>6, <2>7, OverrideStays DEF OverrideInv
<1>3. CASE BuildOther
  <2>1. /\ \A n \in 1 .. size : node'[n] = node[n]
        /\ Fields' = Fields /\ overrides' = overrides /\ Live \subseteq Live'
    BY <1>0, <1>3, BuildOtherForm, BuildOtherOwn DEF BuildOther
  <2>2. \A f \in Fields : node'[f] = node[f]
    BY <2>1 DEF Fields
  <2> QED BY <2>1, <2>2, OverrideStays DEF OverrideInv
<1>4. ASSUME NEW c \in Container, ApplyOverrides(c) PROVE OverrideInv'
  BY <1>4, VisitOverride
<1>5. ASSUME UNCHANGED <<size, node, overrides>>, Live' = Live
      PROVE  OverrideInv'
  BY <1>5 DEF OverrideInv, Fields, Named
<1>6. ASSUME NEW key \in SectionKey, OpenSection(key) PROVE OverrideInv'
  BY <1>0, <1>5, <1>6, OpenSectionOwn DEF OpenSection
<1>7. CASE CloseSection \/ EndOfFile \/ SetRoot \/ LexError \/ SyntaxError
             \/ UNCHANGED vars
  BY <1>0, <1>5, <1>7, PhaseStepForm, PhaseStepOwn
<1>8. \A a \in {size + 1} \cup (IF Reuse THEN Freed ELSE {}) : a = size + 1
  OBVIOUS
<1> QED BY <1>1, <1>2, <1>3, <1>4, <1>6, <1>7, <1>8 DEF Next, Done

LEMMA Lossless == TreeInv /\ OverrideInv => NothingLost
<1> SUFFICES ASSUME TreeInv, OverrideInv, NEW n \in 1 .. size
             PROVE  CASE Named(n, "field") ->
                           n \in Live \/ \E g \in Fields \cap Live :
                             g > n /\ node[g].op = ":=" /\ node[g].path = node[n].path
                      [] Named(n, "section") ->
                           \E s \in Sections \cap Live : blocks[n] \subseteq blocks[s]
                      [] OTHER -> n \in Live
  BY DEF NothingLost
<1>1. CASE Named(n, "field")
  <2>1. n \in Fields /\ ~Named(n, "section")
    BY <1>1 DEF Fields, Named
  <2>2. n \in Live \/ \E g \in Fields \cap Live :
          g > n /\ node[g].op = ":=" /\ node[g].path = node[n].path
    BY <2>1 DEF OverrideInv
  <2> QED BY <1>1, <2>1, <2>2
<1>2. CASE Named(n, "section")
  <2>1. n \in Sections /\ ~Named(n, "field")
    BY <1>2 DEF Sections, Named
  <2>2. \E s \in Sections \cap Live : blocks[n] \subseteq blocks[s]
    BY <2>1 DEF TreeInv, BlockInv
  <2> QED BY <1>2, <2>1, <2>2
<1>3. CASE ~Named(n, "field") /\ ~Named(n, "section")
  <2>1. n \in Live
    BY <1>3 DEF TreeInv, LastInv, Fields, Sections
  <2> QED BY <1>3, <2>1
<1> QED BY <1>1, <1>2, <1>3

\* While no freed address is handed out again, a parse that succeeds has dropped
\* only Fields with a later ':=' Field of their path.  (With reuse this fails:
\* the set of overrides keeps the addresses of Fields deleted since.)
THEOREM NothingIsLost ==
  ASSUME ~Reuse
  PROVE  Spec => []NothingLost
<1>1. Init => OverrideInv
  BY NodeAssumption DEF Init, OverrideInv, Fields
<1>2. TreeInv /\ OverrideInv /\ [Next]_vars => OverrideInv'
  BY NextOverride
<1>3. TreeInv /\ OverrideInv => NothingLost
  BY Lossless
<1> QED BY <1>1, <1>2, <1>3, TreeInvariance, PTL DEF Spec
====
