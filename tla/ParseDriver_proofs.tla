---- MODULE ParseDriver_proofs ----
(***************************************************************************)
(* What holds of ParseDriver for every set of keys, every bound and either *)
(* allocator.                                                              *)
(***************************************************************************)
EXTENDS ParseDriver, SequenceTheorems, Recursion, TLAPS

----------------------------------------------------------------------------
(* Type correctness                                                         *)

\* A frame's path ends in its key, so it is long enough to name the wrappers.
FramesOK == \A i \in 1 .. Len(open) : Len(open[i].key) <= Len(open[i].path)

TypeInv == TypeOK /\ FramesOK

LEMMA KeyType ==
  ASSUME NEW key \in FieldKey \cup SectionKey
  PROVE  key \in Seq(Name) /\ Len(key) \in Nat /\ Len(key) >= 1
BY KeyAssumption, EmptySeq

LEMMA HereType ==
  ASSUME TypeOK
  PROVE  Here \in Seq(Name)
<1>1. CASE open = <<>>
  BY <1>1 DEF Here
<1>2. CASE open # <<>>
  <2>1. Len(open) \in 1 .. Len(open)
    BY <1>2, EmptySeq DEF TypeOK
  <2>2. open[Len(open)] \in Frame
    BY <2>1, ElementOfSeq DEF TypeOK
  <2> QED BY <1>2, <2>2 DEF Here, Frame
<1> QED BY <1>1, <1>2

LEMMA FrameType ==
  ASSUME TypeInv, open # <<>>
  PROVE  /\ Len(open) \in 1 .. Len(open)
         /\ open[Len(open)].key \in SectionKey
         /\ open[Len(open)].path \in Seq(Name)
         /\ open[Len(open)].outer \subseteq 1 .. size
         /\ Len(open[Len(open)].key) <= Len(open[Len(open)].path)
<1>1. Len(open) \in 1 .. Len(open)
  BY EmptySeq DEF TypeInv, TypeOK
<1>2. open[Len(open)] \in Frame
  BY <1>1, ElementOfSeq DEF TypeInv, TypeOK
<1> QED BY <1>1, <1>2 DEF TypeInv, FramesOK, Frame

\* wrap_in_sections keeps the types when the path of what it wraps is at least
\* as long as the key.
LEMMA WrapType ==
  ASSUME TypeOK,
         NEW rec \in Record, NEW inner \in SUBSET (1 .. size),
         NEW siblings \in SUBSET (1 .. size), NEW key \in Seq(Name),
         Len(key) >= 1, Len(key) <= Len(rec.path),
         WrapInSections(rec, inner, siblings, key)
  PROVE  /\ size' \in 0 .. MaxNode /\ size' = size + Len(key)
         /\ node' \in [Node -> Record]
         /\ kids' \in [Container -> SUBSET (1 .. size')]
         /\ wrapper' \in [Node -> BOOLEAN]
<1>1. size \in Nat /\ Len(key) \in Nat /\ MaxNode \in Nat /\ size' = size + Len(key)
      /\ size' \in 0 .. MaxNode
  BY NodeAssumption DEF TypeOK, WrapInSections
<1>2. wrapper' \in [Node -> BOOLEAN]
  BY DEF WrapInSections, TypeOK
<1>3. kids' \in [Container -> SUBSET (1 .. size')]
  <2>1. \A c \in Container : kids[c] \subseteq 1 .. size'
    BY <1>1 DEF TypeOK
  <2>2. siblings \cup {Outermost(key)} \subseteq 1 .. size'
    <3>1. siblings \subseteq 1 .. size'
      BY <1>1
    <3>2. Outermost(key) = size'
      BY <1>1 DEF Outermost
    <3>3. size' \in 1 .. size'
      BY <1>1
    <3> QED BY <3>1, <3>2, <3>3
  <2>3. inner \subseteq 1 .. size'
    BY <1>1
  <2>4. \A c \in size + 2 .. size' : {c - 1} \subseteq 1 .. size'
    BY <1>1
  <2> QED BY <1>1, <2>1, <2>2, <2>3, <2>4 DEF WrapInSections
<1>4. node' \in [Node -> Record]
  <2>1. ASSUME NEW n \in size + 2 .. size'
        PROVE  [kind |-> "section", name |-> key[size' + 1 - n], op |-> "none",
                addr |-> 0,
                path |-> SubSeq(rec.path, 1, Len(rec.path) + size + 1 - n)] \in Record
    <3>1. size' + 1 - n \in 1 .. Len(key)
      BY <1>1
    <3>2. key[size' + 1 - n] \in Name
      BY <3>1
    <3>3. rec.path \in Seq(Name)
      BY DEF Record
    <3>4. Len(rec.path) + size + 1 - n \in 0 .. Len(rec.path)
      BY <1>1, <3>3
    <3>5. SubSeq(rec.path, 1, Len(rec.path) + size + 1 - n) \in Seq(Name)
      BY <3>3, <3>4, SubSeqProperties
    <3>6. 0 \in Container
      BY NodeAssumption DEF Container
    <3> QED BY <3>2, <3>5, <3>6 DEF Record, Kind, Op
  <2> QED BY <1>1, <2>1 DEF WrapInSections, TypeOK
<1> QED BY <1>1, <1>2, <1>3, <1>4

LEMMA InitType == Init => TypeInv
BY NodeAssumption DEF Init, TypeInv, TypeOK, FramesOK, Node, Container, Record,
   Kind, Op, Nothing

LEMMA BuildFieldType ==
  ASSUME TypeInv, NEW key \in FieldKey, NEW op \in {"=", ":="},
         NEW a \in {size + 1} \cup Freed, BuildField(key, op, a)
  PROVE  TypeInv'
<1> DEFINE rec == [kind |-> "field", name |-> key[Len(key)], op |-> op,
                   addr |-> a, path |-> Here \o key]
<1>1. key \in Seq(Name) /\ Len(key) \in Nat /\ Len(key) >= 1
  BY KeyType
<1>2. size + Len(key) <= MaxNode /\ size \in Nat /\ MaxNode \in Nat
  BY NodeAssumption DEF BuildField, WrapInSections, TypeInv, TypeOK
<1>3. a \in Container
  <2>1. size + 1 \in Container
    BY <1>1, <1>2 DEF Container
  <2>2. Freed \subseteq Container
    <3>1. Fields \subseteq Node
      BY <1>2 DEF Fields, Node, TypeInv, TypeOK
    <3>2. \A f \in Node : node[f].addr \in Container
      BY DEF TypeInv, TypeOK, Record
    <3> QED BY <3>1, <3>2 DEF Freed
  <2> QED BY <2>1, <2>2
<1>4. Here \o key \in Seq(Name) /\ Len(key) <= Len(Here \o key)
  <2>1. Here \in Seq(Name)
    BY HereType DEF TypeInv
  <2> QED BY <1>1, <2>1, ConcatProperties, LenProperties
<1>5. rec \in Record
  BY <1>1, <1>3, <1>4, ElementOfSeq DEF Record, Kind, Op
<1>6. kids[Items] \in SUBSET (1 .. size)
  BY <1>2 DEF TypeInv, TypeOK, Items, Container
<1>7. /\ size' \in 0 .. MaxNode /\ size' = size + Len(key)
      /\ node' \in [Node -> Record]
      /\ kids' \in [Container -> SUBSET (1 .. size')]
      /\ wrapper' \in [Node -> BOOLEAN]
  <2>1. WrapInSections(rec, {}, kids[Items], key)
    BY DEF BuildField
  <2>2. Len(key) <= Len(rec.path)
    BY <1>4
  <2> HIDE DEF rec
  <2> QED BY <1>1, <1>5, <1>6, <2>1, <2>2, WrapType DEF TypeInv
<1>8. overrides' \subseteq Container
  BY <1>3 DEF BuildField, Tagged, TypeInv, TypeOK
<1>9. 1 .. size \subseteq 1 .. size'
  BY <1>1, <1>2, <1>7
<1>10. open' \in Seq(Frame')
  <2>1. Frame \subseteq Frame'
    BY <1>9 DEF Frame
  <2> QED BY <2>1, SeqMonotonic DEF BuildField, TypeInv, TypeOK
<1>11. blocks' \in [Node -> SUBSET (1 .. size')]
  BY <1>9 DEF BuildField, TypeInv, TypeOK
<1>12. FramesOK'
  BY DEF BuildField, TypeInv, FramesOK
<1> QED BY <1>7, <1>8, <1>10, <1>11, <1>12 DEF BuildField, TypeInv, TypeOK

LEMMA BuildOtherType == TypeInv /\ BuildOther => TypeInv'
<1> SUFFICES ASSUME TypeInv, BuildOther PROVE TypeInv'
  OBVIOUS
<1>1. size \in Nat /\ size' = size + 1 /\ size' \in 0 .. MaxNode
      /\ 1 .. size \subseteq 1 .. size' /\ size' \in Node /\ Items \in Container
  BY NodeAssumption DEF BuildOther, TypeInv, TypeOK, Node, Items, Container
<1>2. node' \in [Node -> Record]
  BY <1>1 DEF BuildOther, TypeInv, TypeOK, Record, Kind
<1>3. kids' \in [Container -> SUBSET (1 .. size')]
  BY <1>1 DEF BuildOther, TypeInv, TypeOK
<1>4. blocks' \in [Node -> SUBSET (1 .. size')]
  BY <1>1 DEF BuildOther, TypeInv, TypeOK
<1>5. open' \in Seq(Frame')
  <2>1. Frame \subseteq Frame'
    BY <1>1 DEF Frame
  <2> QED BY <2>1, SeqMonotonic DEF BuildOther, TypeInv, TypeOK
<1>6. FramesOK'
  BY DEF BuildOther, TypeInv, FramesOK
<1> QED BY <1>1, <1>2, <1>3, <1>4, <1>5, <1>6 DEF BuildOther, TypeInv, TypeOK

LEMMA OpenSectionType ==
  ASSUME TypeInv, NEW key \in SectionKey, OpenSection(key)
  PROVE  TypeInv'
<1> DEFINE f == [key |-> key, path |-> Here \o key, outer |-> kids[Items]]
<1>1. key \in Seq(Name) /\ Len(key) \in Nat
  BY KeyType
<1>2. Here \o key \in Seq(Name) /\ Len(key) <= Len(Here \o key)
  <2>1. Here \in Seq(Name)
    BY HereType DEF TypeInv
  <2> QED BY <1>1, <2>1, ConcatProperties, LenProperties
<1>3. f \in Frame
  BY <1>2, NodeAssumption DEF Frame, TypeInv, TypeOK, Items, Container
<1>4. open' = Append(open, f) /\ open \in Seq(Frame)
  BY DEF OpenSection, TypeInv, TypeOK
<1>5. Len(key) <= Len(f.path) /\ f.key = key
  BY <1>2
<1> HIDE DEF f
<1>6. open' \in Seq(Frame) /\ Len(open') = Len(open) + 1 /\ Len(open) \in Nat
      /\ \A i \in 1 .. Len(open) + 1 :
            open'[i] = IF i <= Len(open) THEN open[i] ELSE f
  BY <1>3, <1>4, AppendProperties, LenProperties
<1>7. FramesOK'
  BY <1>5, <1>6 DEF TypeInv, FramesOK
<1>8. Frame' = Frame
  BY DEF OpenSection, Frame
<1>9. kids' \in [Container -> SUBSET (1 .. size)]
  BY DEF OpenSection, TypeInv, TypeOK
<1> QED BY <1>6, <1>7, <1>8, <1>9 DEF OpenSection, TypeInv, TypeOK

LEMMA BuildSectionType ==
  ASSUME TypeInv, open # <<>>, BuildSection
  PROVE  TypeInv'
<1> DEFINE frame == open[Len(open)]
           rec == [kind |-> "section", name |-> frame.key[Len(frame.key)],
                   op |-> "none", addr |-> 0, path |-> frame.path]
<1>1. /\ Len(open) \in 1 .. Len(open)
      /\ frame.key \in SectionKey
      /\ frame.path \in Seq(Name)
      /\ frame.outer \subseteq 1 .. size
      /\ Len(frame.key) <= Len(frame.path)
  BY FrameType
<1>2. frame.key \in Seq(Name) /\ Len(frame.key) \in Nat /\ Len(frame.key) >= 1
  BY <1>1, KeyType
<1>3. rec \in Record
  <2>1. frame.key[Len(frame.key)] \in Name
    BY <1>2, ElementOfSeq
  <2> HIDE DEF frame
  <2> QED BY <1>1, <2>1, NodeAssumption DEF Record, Kind, Op, Container
<1>4. kids[Items] \in SUBSET (1 .. size) /\ size \in Nat /\ MaxNode \in Nat
  BY NodeAssumption DEF TypeInv, TypeOK, Items, Container
<1>5. WrapInSections(rec, kids[Items], frame.outer, frame.key)
  BY DEF BuildSection
<1>6. Len(frame.key) <= Len(rec.path)
  BY <1>1
<1>7. open' = SubSeq(open, 1, Len(open) - 1) /\ open \in Seq(Frame)
  BY DEF BuildSection, TypeInv, TypeOK
<1> HIDE DEF frame, rec
<1>8. /\ size' \in 0 .. MaxNode /\ size' = size + Len(frame.key)
      /\ node' \in [Node -> Record]
      /\ kids' \in [Container -> SUBSET (1 .. size')]
      /\ wrapper' \in [Node -> BOOLEAN]
  BY <1>1, <1>2, <1>3, <1>4, <1>5, <1>6, WrapType DEF TypeInv
<1>9. 1 .. size \subseteq 1 .. size' /\ size + 1 \in 1 .. size'
  BY <1>2, <1>4, <1>8
<1>10. blocks' \in [Node -> SUBSET (1 .. size')]
  BY <1>9 DEF BuildSection, TypeInv, TypeOK
<1>11. open' \in Seq(Frame) /\ Len(open') = Len(open) - 1
       /\ \A i \in 1 .. Len(open') : open'[i] = open[i]
  <2>1. \A i \in 1 .. Len(open) - 1 : open[i] \in Frame
    BY <1>7, ElementOfSeq
  <2>2. Len(open) \in Nat /\ Len(open) >= 1 /\ Len(open) - 1 \in Int
    BY <1>1, <1>7, LenProperties
  <2>3. ASSUME NEW t, NEW m \in Int, t = SubSeq(open, 1, m), m = Len(open) - 1
        PROVE  /\ t \in Seq(Frame) /\ Len(t) = m
               /\ \A i \in 1 .. m : t[i] = open[i]
    <3>1. /\ t \in Seq(Frame) /\ Len(t) = IF 1 <= m THEN m - 1 + 1 ELSE 0
          /\ \A i \in 1 .. m - 1 + 1 : t[i] = open[1 + i - 1]
      BY <2>1, <2>3, SubSeqProperties
    <3> QED BY <2>2, <2>3, <3>1
  <2> QED BY <1>7, <2>2, <2>3
<1>12. FramesOK'
  BY <1>1, <1>11 DEF TypeInv, FramesOK
<1>13. open' \in Seq(Frame')
  <2>1. Frame \subseteq Frame'
    BY <1>9 DEF Frame
  <2> QED BY <1>11, <2>1, SeqMonotonic
<1> QED BY <1>8, <1>10, <1>12, <1>13 DEF BuildSection, TypeInv, TypeOK

LEMMA ApplyOverridesType ==
  ASSUME TypeInv, NEW c \in Container, ApplyOverrides(c)
  PROVE  TypeInv'
<1> DEFINE S == kids[c]
<1>1. S \subseteq 1 .. size /\ size \in 0 .. MaxNode /\ MaxNode \in Nat
  BY NodeAssumption DEF TypeInv, TypeOK
<1>2. S \subseteq Node /\ S \subseteq Container
  BY <1>1 DEF Node, Container
<1>3. \A d : Guests(S, d) \subseteq S
  BY DEF Guests
<1>4. kids' \in [Container -> SUBSET (1 .. size)]
  <2>1. Kept(S) \subseteq 1 .. size
    BY <1>1 DEF Kept
  <2>2. \A d \in Container :
          kids[d] \cup UNION {kids[n] : n \in Guests(S, d)} \subseteq 1 .. size
    BY <1>2, <1>3 DEF TypeInv, TypeOK
  <2> QED BY <2>1, <2>2 DEF ApplyOverrides
<1>5. blocks' \in [Node -> SUBSET (1 .. size)]
  <2>1. \A n \in Node :
          blocks[n] \cup UNION {blocks[m] : m \in Guests(S, n)} \subseteq 1 .. size
    BY <1>2, <1>3 DEF TypeInv, TypeOK
  <2> QED BY <2>1 DEF ApplyOverrides
<1>6. wrapper' \in [Node -> BOOLEAN]
  BY DEF ApplyOverrides, TypeInv, TypeOK
<1>7. work' \subseteq Container
  BY <1>2 DEF ApplyOverrides, Remaining, Kept, TypeInv, TypeOK
<1>8. reports' \in [Node -> Nat]
  BY DEF ApplyOverrides, TypeInv, TypeOK
<1>9. failed' \in BOOLEAN
  BY DEF ApplyOverrides, TypeInv, TypeOK
<1>10. Frame' = Frame /\ FramesOK'
  BY DEF ApplyOverrides, Frame, FramesOK, TypeInv
<1> QED BY <1>4, <1>5, <1>6, <1>7, <1>8, <1>9, <1>10
        DEF ApplyOverrides, TypeInv, TypeOK

----------------------------------------------------------------------------
(* What one visit of apply_overrides makes of a list of siblings            *)

\* Among the sections left by a visit, one that is still a wrapper afterwards
\* has no namesake.  Were there a later one, take the first section of the name
\* that was written as a block: only wrappers precede it, so it was folded into
\* the first of them, which then is no wrapper any more.
LEMMA KeptSections ==
  ASSUME NEW S, S \subseteq Nat, NEW m \in Kept(S), NEW n \in Kept(S),
         Named(m, "section"), Named(n, "section"), SameName(m, n),
         wrapper[m], \A g \in Guests(S, m) : wrapper[g]
  PROVE  m = n
<1>1. m \in S /\ n \in S /\ m \in Nat /\ n \in Nat /\ ~Folded(S, m) /\ ~Folded(S, n)
  BY DEF Kept
<1>2. Earlier(S, m, "section") = {}
  BY <1>1 DEF Folded
<1>3. ASSUME m # n PROVE FALSE
  <2>1. m < n /\ m \in Earlier(S, n, "section")
    <3>1. ~(n < m)
      BY <1>1, <1>2 DEF Earlier, SameName
    <3> QED BY <1>1, <1>3, <3>1 DEF Earlier
  <2>2. ~wrapper[n]
    BY <1>1, <2>1 DEF Folded
  <2> DEFINE T == {x \in S : Named(x, "section") /\ SameName(m, x) /\ ~wrapper[x]}
  <2>3. PICK e \in T : \A y \in T : e <= y
    <3>1. n \in T /\ T \subseteq Nat
      BY <1>1, <2>2
    <3> HIDE DEF T
    <3> QED BY <3>1, LeastElement
  <2>4. e \in S /\ e \in Nat /\ m < e /\ m \in Earlier(S, e, "section")
    <3>1. e # m
      OBVIOUS
    <3>2. ~(e < m)
      BY <1>1, <1>2 DEF Earlier, SameName
    <3> QED BY <1>1, <3>1, <3>2 DEF Earlier
  <2>5. \A x \in Earlier(S, e, "section") : wrapper[x]
    <3> SUFFICES ASSUME NEW x \in Earlier(S, e, "section"), ~wrapper[x]
                 PROVE  FALSE
      OBVIOUS
    <3>1. x \in T /\ x < e /\ x \in Nat
      BY DEF Earlier, SameName
    <3> QED BY <2>3, <2>4, <3>1
  <2>6. Folded(S, e)
    BY <2>4, <2>5 DEF Folded
  <2>7. \A x \in Earlier(S, e, "section") : x > m => Folded(S, x)
    <3> SUFFICES ASSUME NEW x \in Earlier(S, e, "section"), x > m
                 PROVE  Folded(S, x)
      OBVIOUS
    <3>1. wrapper[x]
      BY <2>5
    <3>2. m \in Earlier(S, x, "section")
      BY <1>1, <2>4 DEF Earlier, SameName
    <3> QED BY <3>1, <3>2 DEF Folded
  <2>8. e \in Guests(S, m)
    BY <1>1, <2>4, <2>6, <2>7 DEF Guests, Hosts
  <2> QED BY <2>8
<1> QED BY <1>3

\* When no Field of the list is rejected, each repetition is an override and
\* has removed the Field before it.
LEMMA KeptFields ==
  ASSUME NEW S, S \subseteq Nat, ~ \E f \in S : Rejected(S, f),
         NEW m \in Kept(S), NEW n \in Kept(S),
         Named(m, "field"), Named(n, "field"), SameName(m, n)
  PROVE  m = n
<1>1. \A x, y \in Kept(S) : Named(x, "field") /\ Named(y, "field") /\ SameName(x, y)
        => ~(x < y)
  <2> SUFFICES ASSUME NEW x \in Kept(S), NEW y \in Kept(S), Named(x, "field"),
                      Named(y, "field"), SameName(x, y), x < y
               PROVE  FALSE
    OBVIOUS
  <2>1. x \in S /\ y \in S /\ ~Replaced(S, x)
    BY DEF Kept
  <2>2. x \in Earlier(S, y, "field")
    BY <2>1 DEF Earlier
  <2>3. node[y].addr \in overrides
    BY <2>1, <2>2 DEF Rejected
  <2> QED BY <2>1, <2>2, <2>3 DEF Replaced
<1>2. m \in Nat /\ n \in Nat /\ SameName(n, m)
  BY DEF Kept, SameName
<1> QED BY <1>1, <1>2

\* Whoever takes in the children of others is visited next.
LEMMA HostsAreVisited ==
  ASSUME NEW S, NEW h, Guests(S, h) # {}
  PROVE  h \in Remaining(S)
<1>1. PICK n \in S : h \in Earlier(S, n, "section") /\ Hosts(S, h, n)
  BY DEF Guests
<1>2. h \in S /\ Named(h, "section") /\ ~Folded(S, h)
  BY <1>1 DEF Earlier, Hosts
<1>3. ~Replaced(S, h)
  BY <1>2 DEF Replaced, Earlier, Named
<1> QED BY <1>2, <1>3 DEF Remaining, Kept

----------------------------------------------------------------------------
(* The inductive invariant                                                  *)

PhaseOK ==
  /\ work # {} => phase \in {"closing", "ending"}
  /\ phase = "closing" => open # <<>>
  /\ phase = "ok" => ~failed

\* The lists that apply_overrides has been through, or need not go through: all
\* but those on its worklist and the items being read.
Settled(c) == c \notin work /\ (c # Items \/ phase \in {"closing", "ending", "ok"})

CleanOK ==
  \A c \in Container : Settled(c) =>
    CleanSections(kids[c]) /\ (failed \/ CleanFields(kids[c]))

FreshOK == \A n \in Node : n > size => ~wrapper[n] /\ blocks[n] = {}

IInv == TypeInv /\ PhaseOK /\ CleanOK /\ FreshOK /\ BlocksNeverMerge

\* Building nodes changes nothing of those already built.
LEMMA WrapKeeps ==
  ASSUME TypeOK, FreshOK,
         NEW rec \in Record, NEW inner, NEW siblings, NEW key \in Seq(Name),
         Len(key) >= 1, WrapInSections(rec, inner, siblings, key)
  PROVE  /\ \A n \in 1 .. size : node'[n] = node[n] /\ (wrapper'[n] <=> wrapper[n])
         /\ \A c \in Node : \/ kids'[c] = kids[c]
                            \/ kids'[c] = {c - 1}
                            \/ c = size + 1 /\ kids'[c] = inner
         /\ \A n \in Node : n > size' => ~wrapper'[n]
         /\ \A n \in size + 2 .. size' : wrapper'[n]
         /\ ~wrapper'[size + 1]
         /\ size + 1 \in Node /\ size' \in Nat /\ size' > size
<1>1. /\ size \in Nat /\ Len(key) \in Nat /\ MaxNode \in Nat
      /\ size' = size + Len(key) /\ size' <= MaxNode
      /\ 1 .. size \subseteq Node /\ Node \subseteq Container /\ size + 1 \in Node
  BY NodeAssumption DEF TypeOK, WrapInSections, Node, Container
<1>2. ASSUME NEW n \in 1 .. size
      PROVE  node'[n] = node[n] /\ (wrapper'[n] <=> wrapper[n])
  <2>1. n \in Node /\ n # size + 1 /\ n \notin size + 2 .. size + Len(key)
    BY <1>1
  <2>2. node'[n] = node[n]
    BY <2>1 DEF WrapInSections
  <2>3. wrapper'[n] = wrapper[n]
    BY <2>1 DEF WrapInSections
  <2> QED BY <2>2, <2>3
<1>3. \A c \in Node : \/ kids'[c] = kids[c]
                      \/ kids'[c] = {c - 1}
                      \/ c = size + 1 /\ kids'[c] = inner
  <2>1. \A c \in Node : c # Items
    BY DEF Node, Items
  <2> QED BY <1>1, <2>1 DEF WrapInSections
<1>4. \A n \in Node : wrapper'[n] <=> (wrapper[n] \/ n \in size + 2 .. size')
  BY <1>1 DEF WrapInSections
<1>5. \A n \in Node : n > size => ~wrapper[n]
  BY DEF FreshOK
<1>6. \A n \in size + 2 .. size' : n \in Node
  BY <1>1 DEF Node
<1> QED BY <1>1, <1>2, <1>3, <1>4, <1>5, <1>6 DEF Node

\* A list stays clean when its nodes stay what they are or cease to be wrappers.
LEMMA CleanStays ==
  ASSUME NEW T, \A n \in T : node'[n] = node[n] /\ (wrapper'[n] => wrapper[n])
  PROVE  /\ CleanSections(T) => CleanSections(T)'
         /\ CleanFields(T) => CleanFields(T)'
BY DEF CleanSections, CleanFields, Named, SameName

\* After nodes were built, the lists that were clean are, and a new list has at
\* most one node or is the list of a section whose items are settled.
LEMMA WrapClean ==
  ASSUME IInv, work = {}, work' = {}, failed' = failed, phase' = "items",
         NEW rec \in Record, NEW inner \in SUBSET (1 .. size), NEW siblings,
         NEW key \in Seq(Name), Len(key) >= 1,
         WrapInSections(rec, inner, siblings, key),
         CleanSections(inner), failed \/ CleanFields(inner)
  PROVE  CleanOK'
<1>1. /\ \A n \in 1 .. size : node'[n] = node[n] /\ (wrapper'[n] <=> wrapper[n])
      /\ \A c \in Node : \/ kids'[c] = kids[c]
                         \/ kids'[c] = {c - 1}
                         \/ c = size + 1 /\ kids'[c] = inner
  BY WrapKeeps DEF IInv, TypeInv
<1> SUFFICES ASSUME NEW c \in Container, Settled(c)'
             PROVE  (CleanSections(kids[c]) /\ (failed \/ CleanFields(kids[c])))'
  BY DEF CleanOK, Container
<1>2. c \in Node /\ Settled(c)
  BY DEF Settled, Container, Node, Items
<1>3. ASSUME NEW T \in SUBSET (1 .. size), kids'[c] = T,
             CleanSections(T), failed \/ CleanFields(T)
      PROVE  (CleanSections(kids[c]) /\ (failed \/ CleanFields(kids[c])))'
  <2>1. CleanSections(T)' /\ (failed \/ CleanFields(T)')
    BY <1>1, <1>3, CleanStays
  <2> QED BY <1>3, <2>1 DEF CleanSections, CleanFields
<1>4. CASE kids'[c] = kids[c]
  <2>1. kids[c] \subseteq 1 .. size
    BY DEF IInv, TypeInv, TypeOK
  <2>2. CleanSections(kids[c]) /\ (failed \/ CleanFields(kids[c]))
    BY <1>2 DEF IInv, CleanOK
  <2> QED BY <1>3, <1>4, <2>1, <2>2
<1>5. CASE kids'[c] = {c - 1}
  BY <1>5 DEF CleanSections, CleanFields
<1>6. CASE kids'[c] = inner
  BY <1>3, <1>6
<1> QED BY <1>1, <1>2, <1>4, <1>5, <1>6

\* Wrappers hold nothing of any block.
LEMMA WrapBlocks ==
  ASSUME IInv, NEW rec \in Record, NEW inner, NEW siblings, NEW key \in Seq(Name),
         Len(key) >= 1, WrapInSections(rec, inner, siblings, key),
         \A n \in Node \ {size + 1} : blocks'[n] = blocks[n],
         rec.kind = "section" => blocks'[size + 1] = {size + 1}
  PROVE  FreshOK' /\ BlocksNeverMerge'
<1>1. /\ \A n \in 1 .. size : node'[n] = node[n] /\ (wrapper'[n] <=> wrapper[n])
      /\ \A n \in Node : n > size' => ~wrapper'[n]
      /\ \A n \in size + 2 .. size' : wrapper'[n]
      /\ ~wrapper'[size + 1]
      /\ size + 1 \in Node /\ size' \in Nat /\ size' > size
  BY WrapKeeps DEF IInv, TypeInv
<1>2. size \in Nat /\ 1 .. size' \subseteq Node
  BY NodeAssumption DEF IInv, TypeInv, TypeOK, WrapInSections, Node
<1>3. FreshOK'
  <2> SUFFICES ASSUME NEW n \in Node, n > size'
               PROVE  ~wrapper'[n] /\ blocks'[n] = {}
    BY DEF FreshOK, Node
  <2>1. n # size + 1 /\ n > size
    BY <1>1, <1>2 DEF Node
  <2> QED BY <1>1, <2>1 DEF IInv, FreshOK
<1>4. BlocksNeverMerge'
  <2> SUFFICES ASSUME NEW s \in 1 .. size', node'[s].kind = "section"
               PROVE  /\ \A x, y \in blocks'[s] : x = y
                      /\ wrapper'[s] <=> blocks'[s] = {}
    BY DEF BlocksNeverMerge, Sections, Named
  <2>1. CASE s \in 1 .. size
    <3>1. s \in Sections /\ s # size + 1 /\ s \in Node
      BY <1>1, <1>2, <2>1 DEF Sections, Named
    <3> QED BY <1>1, <2>1, <3>1 DEF IInv, BlocksNeverMerge
  <2>2. CASE s = size + 1
    <3>1. node'[s] = rec
      BY <1>1, <2>2 DEF WrapInSections
    <3> QED BY <1>1, <2>2, <3>1
  <2>3. CASE s \in size + 2 .. size'
    <3>1. s \in Node /\ s > size /\ s # size + 1
      BY <1>2, <2>3
    <3>2. blocks'[s] = {}
      BY <3>1 DEF IInv, FreshOK
    <3> QED BY <1>1, <2>3, <3>2
  <2> QED BY <1>2, <2>1, <2>2, <2>3
<1> QED BY <1>3, <1>4

LEMMA BuildFieldInv ==
  ASSUME IInv, NEW key \in FieldKey, NEW op \in {"=", ":="},
         NEW a \in {size + 1} \cup Freed, BuildField(key, op, a)
  PROVE  IInv'
<1> DEFINE rec == [kind |-> "field", name |-> key[Len(key)], op |-> op,
                   addr |-> a, path |-> Here \o key]
<1>1. TypeInv'
  BY BuildFieldType DEF IInv
<1>2. key \in Seq(Name) /\ Len(key) \in Nat /\ Len(key) >= 1
  BY KeyType
<1>3. WrapInSections(rec, {}, kids[Items], key) /\ phase = "items"
      /\ UNCHANGED <<blocks, open, phase, work, reports, failed>>
  BY DEF BuildField
<1>4. rec \in Record /\ rec.kind = "field"
  <2>1. node'[size + 1] = rec
    BY <1>2, <1>3, NodeAssumption DEF WrapInSections, Node, IInv, TypeInv, TypeOK
  <2>2. size + 1 \in Node
    BY <1>2, <1>3, NodeAssumption DEF WrapInSections, Node, IInv, TypeInv, TypeOK
  <2>3. node'[size + 1] \in Record
    BY <1>1, <2>2 DEF TypeInv, TypeOK
  <2> QED BY <2>1, <2>3
<1> HIDE DEF rec
<1>5. work = {}
  BY <1>3 DEF IInv, PhaseOK
<1>6. CleanOK'
  <2>1. CleanSections({}) /\ CleanFields({})
    BY DEF CleanSections, CleanFields
  <2> QED BY <1>2, <1>3, <1>4, <1>5, <2>1, WrapClean
<1>7. FreshOK' /\ BlocksNeverMerge'
  BY <1>2, <1>3, <1>4, WrapBlocks
<1>8. PhaseOK'
  BY <1>3 DEF IInv, PhaseOK
<1> QED BY <1>1, <1>6, <1>7, <1>8 DEF IInv

LEMMA BuildSectionInv ==
  ASSUME IInv, BuildSection
  PROVE  IInv'
<1> DEFINE frame == open[Len(open)]
           rec == [kind |-> "section", name |-> frame.key[Len(frame.key)],
                   op |-> "none", addr |-> 0, path |-> frame.path]
<1>1. open # <<>> /\ phase = "closing" /\ work = {}
  BY DEF BuildSection, IInv, PhaseOK
<1>2. TypeInv'
  BY <1>1, BuildSectionType DEF IInv
<1>3. frame.key \in Seq(Name) /\ Len(frame.key) \in Nat /\ Len(frame.key) >= 1
  BY <1>1, FrameType, KeyType DEF IInv
<1>4. WrapInSections(rec, kids[Items], frame.outer, frame.key) /\ phase' = "items"
      /\ blocks' = [blocks EXCEPT ![size + 1] = {size + 1}]
      /\ UNCHANGED <<overrides, work, reports, failed>>
  BY DEF BuildSection
<1>5. size + 1 \in Node
  BY <1>3, <1>4, NodeAssumption DEF WrapInSections, Node, IInv, TypeInv, TypeOK
<1>6. rec \in Record /\ rec.kind = "section"
  <2>1. node'[size + 1] = rec
    BY <1>4, <1>5 DEF WrapInSections
  <2>2. node'[size + 1] \in Record
    BY <1>2, <1>5 DEF TypeInv, TypeOK
  <2> QED BY <2>1, <2>2
<1> HIDE DEF rec, frame
<1>7. CleanOK'
  <2>1. CleanSections(kids[Items]) /\ (failed \/ CleanFields(kids[Items]))
    BY <1>1, NodeAssumption DEF IInv, CleanOK, Settled, Container, Items
  <2>2. kids[Items] \in SUBSET (1 .. size)
    BY NodeAssumption DEF IInv, TypeInv, TypeOK, Container, Items
  <2> QED BY <1>1, <1>3, <1>4, <1>6, <2>1, <2>2, WrapClean
<1>8. FreshOK' /\ BlocksNeverMerge'
  <2>1. \A n \in Node \ {size + 1} : blocks'[n] = blocks[n]
    BY <1>4 DEF IInv, TypeInv, TypeOK
  <2>2. blocks'[size + 1] = {size + 1}
    BY <1>4, <1>5 DEF IInv, TypeInv, TypeOK
  <2> QED BY <1>3, <1>4, <1>6, <2>1, <2>2, WrapBlocks
<1>9. PhaseOK'
  BY <1>1, <1>4 DEF PhaseOK
<1> QED BY <1>2, <1>7, <1>8, <1>9 DEF IInv

LEMMA BuildOtherInv == IInv /\ BuildOther => IInv'
<1> SUFFICES ASSUME IInv, BuildOther PROVE IInv'
  OBVIOUS
<1>1. TypeInv'
  BY BuildOtherType DEF IInv
<1>2. size \in Nat /\ size' = size + 1 /\ size' \in Node
  BY NodeAssumption DEF BuildOther, IInv, TypeInv, TypeOK, Node
<1>3. \A n \in 1 .. size : node'[n] = node[n]
  BY <1>2 DEF BuildOther, IInv, TypeInv, TypeOK, Node
<1>4. node'[size + 1].kind = "other"
  BY <1>2 DEF BuildOther, IInv, TypeInv, TypeOK
<1>5. CleanOK'
  <2> SUFFICES ASSUME NEW c \in Container, Settled(c)'
               PROVE  (CleanSections(kids[c]) /\ (failed \/ CleanFields(kids[c])))'
    BY DEF CleanOK, Container
  <2>1. c # Items /\ Settled(c)
    BY DEF Settled, BuildOther
  <2>2. kids'[c] = kids[c] /\ kids[c] \subseteq 1 .. size
    BY <2>1 DEF BuildOther, IInv, TypeInv, TypeOK
  <2>3. CleanSections(kids[c]) /\ (failed \/ CleanFields(kids[c]))
    BY <2>1 DEF IInv, CleanOK
  <2> QED BY <1>3, <2>2, <2>3
          DEF CleanSections, CleanFields, Named, SameName, BuildOther
<1>6. FreshOK' /\ BlocksNeverMerge'
  <2>1. \A n \in Sections' : n \in Sections
    BY <1>2, <1>3, <1>4 DEF Sections, Named
  <2> QED BY <1>2, <2>1 DEF BuildOther, IInv, FreshOK, BlocksNeverMerge, Node
<1>7. PhaseOK'
  BY DEF BuildOther, IInv, PhaseOK
<1> QED BY <1>1, <1>5, <1>6, <1>7 DEF IInv

\* The heart of the matter.  A visit cleans its own list; it disturbs another
\* list only by making it the host of a fold, and then puts it on the worklist.
LEMMA ApplyOverridesInv ==
  ASSUME IInv, NEW c \in Container, ApplyOverrides(c)
  PROVE  IInv'
<1> DEFINE S == kids[c]
<1>1. TypeInv'
  BY ApplyOverridesType DEF IInv
<1>2. S \subseteq 1 .. size /\ size \in Nat /\ MaxNode \in Nat /\ size <= MaxNode
      /\ S \subseteq Nat /\ S \subseteq Node
  BY NodeAssumption DEF IInv, TypeInv, TypeOK, Node
<1>3. UNCHANGED <<size, node, overrides, open, phase>> /\ phase \in {"closing", "ending"}
  BY DEF ApplyOverrides
<1>4. \A n \in Node : wrapper'[n] =
        IF \E m \in Guests(S, n) : ~wrapper[m] THEN FALSE ELSE wrapper[n]
  BY DEF ApplyOverrides
<1>5. \A n \in Node : blocks'[n] = blocks[n] \cup UNION {blocks[m] : m \in Guests(S, n)}
  BY DEF ApplyOverrides
<1>6. \A n : Guests(S, n) # {} => n \in S
  BY DEF Guests, Earlier
<1>7. CleanOK'
  <2> SUFFICES ASSUME NEW d \in Container, Settled(d)'
               PROVE  (CleanSections(kids[d]) /\ (failed \/ CleanFields(kids[d])))'
    BY DEF CleanOK, Container
  <2>1. CASE d = c
    <3>1. kids'[d] = Kept(S)
      BY <2>1 DEF ApplyOverrides
    <3>2. Kept(S) \subseteq Node
      BY <1>2 DEF Kept
    <3>3. CleanSections(kids[d])'
      <4> SUFFICES ASSUME NEW m \in Kept(S), NEW n \in Kept(S),
                          Named(m, "section"), Named(n, "section"),
                          SameName(m, n), wrapper'[m]
                   PROVE  m = n
        BY <1>3, <3>1 DEF CleanSections, Named, SameName
      <4>1. wrapper[m] /\ \A g \in Guests(S, m) : wrapper[g]
        BY <1>4, <3>2
      <4> HIDE DEF S
      <4> QED BY <1>2, <4>1, KeptSections
    <3>4. (failed \/ CleanFields(kids[d]))'
      <4> SUFFICES ASSUME ~failed', NEW m \in Kept(S), NEW n \in Kept(S),
                          Named(m, "field"), Named(n, "field"), SameName(m, n)
                   PROVE  m = n
        BY <1>3, <3>1 DEF CleanFields, Named, SameName
      <4>1. ~ \E f \in S : Rejected(S, f)
        BY DEF ApplyOverrides
      <4> HIDE DEF S
      <4> QED BY <1>2, <4>1, KeptFields
    <3> QED BY <3>3, <3>4
  <2>2. CASE d # c /\ d \in S /\ Folded(S, d)
    <3>1. kids'[d] = {}
      BY <2>2 DEF ApplyOverrides
    <3> QED BY <3>1 DEF CleanSections, CleanFields
  <2>3. CASE d # c /\ ~(d \in S /\ Folded(S, d))
    <3>1. d \notin Remaining(S) /\ d \notin work
      BY <2>3 DEF Settled, ApplyOverrides
    <3>2. Guests(S, d) = {}
      BY <3>1, HostsAreVisited
    <3>3. kids'[d] = kids[d]
      BY <2>3, <3>2 DEF ApplyOverrides
    <3>4. CleanSections(kids[d]) /\ (failed \/ CleanFields(kids[d]))
      BY <1>3, <3>1 DEF Settled, IInv, CleanOK
    <3>5. failed => failed'
      BY DEF ApplyOverrides
    <3>6. ASSUME NEW n \in kids[d], wrapper'[n] PROVE wrapper[n]
      <4>1. n \in Node
        BY <1>2 DEF IInv, TypeInv, TypeOK, Node
      <4>2. CASE \E m \in Guests(S, n) : ~wrapper[m]
        BY <1>4, <3>6, <4>1, <4>2
      <4>3. CASE ~ \E m \in Guests(S, n) : ~wrapper[m]
        BY <1>4, <3>6, <4>1, <4>3
      <4> QED BY <4>2, <4>3
    <3> QED BY <1>3, <3>3, <3>4, <3>5, <3>6
            DEF CleanSections, CleanFields, Named, SameName
  <2> QED BY <2>1, <2>2, <2>3
<1>8. FreshOK'
  <2>1. \A n \in Node : n > size => Guests(S, n) = {}
    BY <1>2, <1>6 DEF Node
  <2> SUFFICES ASSUME NEW n \in Node, n > size
               PROVE  ~wrapper'[n] /\ blocks'[n] = {}
    BY <1>3 DEF FreshOK
  <2>2. ~wrapper[n] /\ blocks[n] = {}
    BY DEF IInv, FreshOK
  <2>3. ~wrapper'[n]
    BY <1>4, <2>1, <2>2
  <2>4. UNION {blocks[m] : m \in Guests(S, n)} = {}
    BY <2>1
  <2> QED BY <1>5, <2>2, <2>3, <2>4
<1>9. BlocksNeverMerge'
  <2> SUFFICES ASSUME NEW s \in Sections
               PROVE  /\ \A x, y \in blocks'[s] : x = y
                      /\ wrapper'[s] <=> blocks'[s] = {}
    BY <1>3 DEF BlocksNeverMerge, Sections, Named
  <2>1. s \in Node /\ s \in Nat
    BY <1>2 DEF Sections, Node
  <2>2. \A g \in Guests(S, s) : g \in Sections /\ g \in Nat /\ s < g
          /\ SameName(s, g) /\ Folded(S, g) /\ g \in S
          /\ s \in Earlier(S, g, "section")
    BY <1>2 DEF Guests, Earlier, Hosts, Sections
  <2>3. ASSUME NEW g \in Guests(S, s), ~wrapper[g]
        PROVE  wrapper[s] /\ \A h \in Guests(S, s) : h = g \/ wrapper[h]
    <3>1. wrapper[s]
      BY <2>2, <2>3 DEF Folded
    <3>2. ASSUME NEW h \in Guests(S, s), h # g, ~wrapper[h]
          PROVE  FALSE
      <4>1. CASE g < h
        <5>1. g \in Earlier(S, h, "section")
          BY <2>2, <4>1 DEF Earlier, Sections, SameName
        <5> QED BY <2>2, <2>3, <3>2, <5>1 DEF Folded
      <4>2. CASE h < g
        <5>1. h \in Earlier(S, g, "section")
          BY <2>2, <4>2 DEF Earlier, Sections, SameName
        <5> QED BY <2>2, <2>3, <3>2, <5>1 DEF Folded
      <4> QED BY <2>2, <3>2, <4>1, <4>2
    <3> QED BY <3>1, <3>2
  <2>4. \A t \in Sections : /\ \A x, y \in blocks[t] : x = y
                            /\ wrapper[t] <=> blocks[t] = {}
    BY DEF IInv, BlocksNeverMerge
  <2>5. CASE \A g \in Guests(S, s) : wrapper[g]
    <3>1. \A g \in Guests(S, s) : blocks[g] = {}
      BY <2>2, <2>4, <2>5
    <3>2. UNION {blocks[m] : m \in Guests(S, s)} = {}
      BY <3>1
    <3>3. blocks'[s] = blocks[s]
      BY <1>5, <2>1, <3>2
    <3>4. wrapper'[s] = wrapper[s]
      BY <1>4, <2>1, <2>5
    <3> QED BY <2>4, <3>3, <3>4
  <2>6. CASE \E g \in Guests(S, s) : ~wrapper[g]
    <3>1. PICK g \in Guests(S, s) : ~wrapper[g]
      BY <2>6
    <3>2. blocks[s] = {} /\ \A h \in Guests(S, s) : h = g \/ blocks[h] = {}
      BY <2>2, <2>3, <2>4, <3>1
    <3>3. blocks'[s] = blocks[g]
      <4>1. UNION {blocks[m] : m \in Guests(S, s)} = blocks[g]
        BY <3>1, <3>2
      <4> QED BY <1>5, <2>1, <3>2, <4>1
    <3>4. blocks[g] # {} /\ ~wrapper'[s]
      BY <1>4, <2>1, <2>2, <2>4, <3>1
    <3> QED BY <2>2, <2>4, <3>3, <3>4
  <2> QED BY <2>5, <2>6
<1>10. PhaseOK'
  BY <1>3 DEF IInv, PhaseOK
<1> QED BY <1>1, <1>7, <1>8, <1>9, <1>10 DEF IInv

\* The steps that leave the nodes alone.
LEMMA OpenSectionInv ==
  ASSUME IInv, NEW key \in SectionKey, OpenSection(key)
  PROVE  IInv'
<1>1. TypeInv'
  BY OpenSectionType DEF IInv
<1>2. CleanOK'
  <2> SUFFICES ASSUME NEW c \in Container, Settled(c)'
               PROVE  (CleanSections(kids[c]) /\ (failed \/ CleanFields(kids[c])))'
    BY DEF CleanOK, Container
  <2>1. c # Items /\ Settled(c)
    BY DEF Settled, OpenSection
  <2>2. kids'[c] = kids[c]
    BY <2>1 DEF OpenSection, IInv, TypeInv, TypeOK
  <2> QED BY <2>1, <2>2
          DEF IInv, CleanOK, CleanSections, CleanFields, Named, SameName, OpenSection
<1> QED BY <1>1, <1>2
        DEF IInv, PhaseOK, FreshOK, BlocksNeverMerge, Sections, Named, OpenSection

LEMMA PhaseStepInv ==
  ASSUME IInv, CloseSection \/ EndOfFile \/ SetRoot \/ LexError \/ SyntaxError
                 \/ UNCHANGED vars
  PROVE  IInv'
<1>1. UNCHANGED <<size, node, kids, wrapper, blocks, overrides, open, reports>>
  BY DEF CloseSection, EndOfFile, SetRoot, LexError, SyntaxError, tree, vars
<1>2. /\ phase' \in {"items", "closing", "ending", "ok", "thrown"}
      /\ work' \subseteq Container /\ failed' \in BOOLEAN /\ (failed => failed')
  <2>1. phase \in {"items", "closing", "ending", "ok", "thrown"}
        /\ work \subseteq Container /\ failed \in BOOLEAN /\ {Items} \subseteq Container
    BY NodeAssumption DEF IInv, TypeInv, TypeOK, Items, Container
  <2>2. CASE CloseSection \/ EndOfFile
    BY <2>1, <2>2 DEF CloseSection, EndOfFile
  <2>3. CASE SetRoot
    BY <2>1, <2>3 DEF SetRoot
  <2>4. CASE LexError \/ SyntaxError
    BY <2>1, <2>4 DEF LexError, SyntaxError
  <2>5. CASE UNCHANGED vars
    BY <2>1, <2>5 DEF vars
  <2> QED BY <2>2, <2>3, <2>4, <2>5
<1>3. TypeInv'
  BY <1>1, <1>2 DEF IInv, TypeInv, TypeOK, FramesOK, Frame
<1>4. PhaseOK'
  BY <1>1 DEF CloseSection, EndOfFile, SetRoot, LexError, SyntaxError, vars,
     IInv, PhaseOK
<1>5. CleanOK'
  <2> SUFFICES ASSUME NEW c \in Container, Settled(c)'
               PROVE  (CleanSections(kids[c]) /\ (failed \/ CleanFields(kids[c])))'
    BY DEF CleanOK, Container
  <2>1. Settled(c)
    BY DEF Settled, CloseSection, EndOfFile, SetRoot, LexError, SyntaxError, vars,
       IInv, PhaseOK
  <2> QED BY <1>1, <1>2, <2>1 DEF IInv, CleanOK, CleanSections, CleanFields, Named,
          SameName
<1>6. FreshOK' /\ BlocksNeverMerge'
  BY <1>1 DEF IInv, FreshOK, BlocksNeverMerge, Sections, Named
<1> QED BY <1>3, <1>4, <1>5, <1>6 DEF IInv

LEMMA InitInv == Init => IInv
<1> SUFFICES ASSUME Init PROVE IInv
  OBVIOUS
<1>1. TypeInv
  BY InitType
<1>2. PhaseOK /\ FreshOK
  BY DEF Init, PhaseOK, FreshOK
<1>3. CleanOK
  BY DEF Init, CleanOK, CleanSections, CleanFields
<1>4. BlocksNeverMerge
  BY DEF Init, BlocksNeverMerge, Sections
<1> QED BY <1>1, <1>2, <1>3, <1>4 DEF IInv

LEMMA NextInv == IInv /\ [Next]_vars => IInv'
<1> SUFFICES ASSUME IInv, [Next]_vars PROVE IInv'
  OBVIOUS
<1>1. ASSUME NEW key \in FieldKey, NEW op \in {"=", ":="},
             NEW a \in {size + 1} \cup (IF Reuse THEN Freed ELSE {}),
             BuildField(key, op, a)
      PROVE  IInv'
  <2>1. a \in {size + 1} \cup Freed
    BY ReuseAssumption
  <2> QED BY <1>1, <2>1, BuildFieldInv
<1>2. CASE BuildOther
  BY <1>2, BuildOtherInv
<1>3. ASSUME NEW key \in SectionKey, OpenSection(key) PROVE IInv'
  BY <1>3, OpenSectionInv
<1>4. ASSUME NEW c \in Container, ApplyOverrides(c) PROVE IInv'
  BY <1>4, ApplyOverridesInv
<1>5. CASE BuildSection
  BY <1>5, BuildSectionInv
<1>6. CASE CloseSection \/ EndOfFile \/ SetRoot \/ LexError \/ SyntaxError
             \/ UNCHANGED vars
  BY <1>6, PhaseStepInv
<1> QED BY <1>1, <1>2, <1>3, <1>4, <1>5, <1>6 DEF Next, Done

THEOREM Invariance == Spec => []IInv
BY InitInv, NextInv, PTL DEF Spec

\* Every variable keeps its type, for every text and either allocator.
THEOREM TypeCorrect == Spec => []TypeOK
<1>1. IInv => TypeOK
  BY DEF IInv, TypeInv
<1> QED BY <1>1, Invariance, PTL

\* A parse that succeeds returns a tree in which no level has an unresolved
\* duplicate: apply_overrides (Node.cpp) really re-visits all it disturbs.
THEOREM CleanResult == Spec => []ResultIsClean
<1>1. IInv => ResultIsClean
  BY DEF IInv, PhaseOK, CleanOK, Settled, ResultIsClean
<1> QED BY <1>1, Invariance, PTL

\* No section of the tree ever holds the content of two `[name]` blocks.
THEOREM BlocksStayApart == Spec => []BlocksNeverMerge
<1>1. IInv => BlocksNeverMerge
  BY DEF IInv
<1> QED BY <1>1, Invariance, PTL
====
