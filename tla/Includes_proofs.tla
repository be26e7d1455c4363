---- MODULE Includes_proofs ----
(***************************************************************************)
(* resolve_includes, for every disk, every text and every limit on open    *)
(* files: how deep it goes, when it throws, and what it returns.           *)
(***************************************************************************)
EXTENDS Includes, SequenceTheorems, Recursion, TLAPS

IsStack(s) == \E Frame : s \in Seq(Frame)

\* What the stack and the streams have in common at every moment; outside a call
\* nothing is open.
CallStack ==
  /\ IsStack(stack)
  /\ streams \in Nat
  /\ asked.own \in {0, 1}
  /\ phase \in {"start", "resolving", "returned", "thrown"}
  /\ phase # "resolving" => streams = 0
  /\ phase = "start" => stack = <<>>
  /\ StreamPerCall

LEMMA LengthOfPrefix == ASSUME NEW m \in Nat PROVE (IF 1 <= m THEN m - 1 + 1 ELSE 0) = m
OBVIOUS

LEMMA PushType ==
  ASSUME NEW x, IsStack(stack)
  PROVE  /\ Len(stack) \in Nat
         /\ IsStack(Append(stack, x))
         /\ Len(Append(stack, x)) = Len(stack) + 1
<1>1. PICK F : stack \in Seq(F)
  BY DEF IsStack
<1>2. stack \in Seq(F \cup {x})
  BY <1>1, SeqMonotonic
<1>3. /\ Append(stack, x) \in Seq(F \cup {x})
      /\ Len(Append(stack, x)) = Len(stack) + 1
  BY <1>2
<1> QED BY <1>1, <1>3, LenProperties DEF IsStack

\* The last two frames give way to one.
LEMMA PopType ==
  ASSUME NEW x, IsStack(stack), Len(stack) > 1
  PROVE  /\ IsStack(Append(SubSeq(stack, 1, Len(stack) - 2), x))
         /\ Len(Append(SubSeq(stack, 1, Len(stack) - 2), x)) = Len(stack) - 1
<1>1. PICK F : stack \in Seq(F)
  BY DEF IsStack
<1>2. Len(stack) \in Nat /\ \A i \in 1 .. Len(stack) - 2 : stack[i] \in F
  <2>1. Len(stack) \in Nat
    BY <1>1, LenProperties
  <2>2. ASSUME NEW i \in 1 .. Len(stack) - 2 PROVE stack[i] \in F
    <3>1. i \in 1 .. Len(stack)
      BY <2>1
    <3> QED BY <1>1, <3>1, ElementOfSeq
  <2> QED BY <2>1, <2>2
<1> DEFINE s == SubSeq(stack, 1, Len(stack) - 2)
           m == Len(stack) - 2
<1>3. s \in Seq(F) /\ Len(s) = m
  <2>1. m \in Nat
    BY <1>2
  <2>2. /\ SubSeq(stack, 1, m) \in Seq(F)
        /\ Len(SubSeq(stack, 1, m)) = IF 1 <= m THEN m - 1 + 1 ELSE 0
    BY <1>2, <2>1, SubSeqProperties
  <2>3. (IF 1 <= m THEN m - 1 + 1 ELSE 0) = m
    BY <2>1, LengthOfPrefix
  <2> HIDE DEF m
  <2> QED BY <2>2, <2>3 DEF m
<1> HIDE DEF s
<1>4. s \in Seq(F \cup {x})
  BY <1>3, SeqMonotonic
<1>5. Append(s, x) \in Seq(F \cup {x}) /\ Len(Append(s, x)) = Len(s) + 1
  BY <1>4
<1>6. IsStack(Append(s, x))
  BY <1>5 DEF IsStack
<1>7. Len(Append(s, x)) = Len(stack) - 1
  BY <1>2, <1>3, <1>5
<1> QED BY <1>6, <1>7 DEF s

LEMMA InitStack == Init => CallStack
<1> SUFFICES ASSUME Init PROVE CallStack
  OBVIOUS
<1>1. IsStack(<<>>)
  BY EmptySeq DEF IsStack
<1> QED BY <1>1 DEF Init, CallStack, StreamPerCall

\* A document is entered: one call more, or everything is unwound.
LEMMA EnterStack ==
  ASSUME CallStack, NEW base, NEW d, Enter(base, d)
  PROVE  /\ IsStack(stack')
         /\ \/ phase' = "resolving" /\ Len(stack') = Len(stack) + 1
            \/ phase' = "thrown"
<1>1. CASE Accepted(d)
  BY <1>1, PushType DEF Enter, CallStack
<1>2. CASE ~ Accepted(d)
  <2>1. IsStack(<<>>)
    BY EmptySeq DEF IsStack
  <2> QED BY <1>2, <2>1 DEF Enter
<1> QED BY <1>1, <1>2

LEMMA ParseFileStack ==
  ASSUME CallStack, NEW f, NEW pre, NEW post, ParseFile(f, pre, post)
  PROVE  CallStack'
<1> USE OpenAssumption
<1>1. stack = <<>> /\ streams = 0 /\ phase = "start" /\ Len(stack) = 0
  BY DEF CallStack, ParseFile
<1>2. CASE Opens(f)
  <2>1. /\ Enter(Dir(f), From(f, pre \o disk[f] \o post)) /\ asked'.own = 1
        /\ streams' = IF phase' = "thrown" THEN 0 ELSE 1
    BY <1>2 DEF ParseFile
  <2>2. /\ IsStack(stack')
        /\ \/ phase' = "resolving" /\ Len(stack') = Len(stack) + 1
           \/ phase' = "thrown"
    BY <2>1, EnterStack
  <2>3. 1 <= MaxOpen
    BY <1>1, <1>2 DEF Opens
  <2>4. CASE phase' = "resolving"
    <3>1. Len(stack') = 1 /\ streams' = 1 /\ 1 \in 1 .. MaxOpen + 1
      BY <1>1, <2>1, <2>2, <2>4
    <3> QED BY <2>1, <2>2, <2>4, <3>1 DEF CallStack, StreamPerCall
  <2>5. CASE phase' = "thrown"
    BY <2>1, <2>2, <2>5 DEF CallStack, StreamPerCall
  <2> QED BY <2>2, <2>4, <2>5
<1>3. CASE ~ Opens(f)
  <2>1. phase' = "thrown" /\ stack' = stack /\ asked' = asked /\ streams' = streams
    BY <1>3 DEF ParseFile
  <2> QED BY <1>1, <2>1 DEF CallStack, StreamPerCall
<1> QED BY <1>2, <1>3

LEMMA ParseTextStack ==
  ASSUME CallStack, NEW d, NEW pre, NEW post, ParseText(d, pre, post)
  PROVE  CallStack'
<1>1. stack = <<>> /\ streams = 0 /\ phase = "start" /\ Len(stack) = 0
  BY DEF CallStack, ParseText
<1>2. /\ Enter(<<>>, From(<<>>, pre \o d \o post)) /\ asked'.own = 0
      /\ streams' = streams
  BY DEF ParseText
<1>3. /\ IsStack(stack')
      /\ \/ phase' = "resolving" /\ Len(stack') = Len(stack) + 1
         \/ phase' = "thrown"
  BY <1>2, EnterStack
<1>4. CASE phase' = "resolving"
  <2>1. Len(stack') = 1 /\ streams' = 0 /\ 1 \in 1 .. MaxOpen + 1
    BY <1>1, <1>2, <1>3, <1>4, OpenAssumption
  <2> QED BY <1>2, <1>3, <1>4, <2>1 DEF CallStack, StreamPerCall
<1>5. CASE phase' = "thrown"
  BY <1>1, <1>2, <1>3, <1>5 DEF CallStack, StreamPerCall
<1> QED BY <1>3, <1>4, <1>5

LEMMA OpenIncludeStack ==
  ASSUME CallStack, OpenInclude
  PROVE  CallStack'
<1> DEFINE f == Resolved(Top.base, Top.doc[NextInclude(Top.doc)])
<1>1. /\ phase = "resolving" /\ asked' = asked
      /\ Len(stack) = streams + 1 - asked.own /\ Len(stack) \in 1 .. MaxOpen + 1
  BY DEF OpenInclude, CallStack, StreamPerCall
<1>2. CASE Opens(f)
  <2>1. /\ Enter(Dir(f), From(f, disk[f]))
        /\ streams' = IF phase' = "thrown" THEN 0 ELSE streams + 1
    BY <1>2 DEF OpenInclude
  <2>2. /\ IsStack(stack')
        /\ \/ phase' = "resolving" /\ Len(stack') = Len(stack) + 1
           \/ phase' = "thrown"
    BY <2>1, EnterStack
  <2>3. streams < MaxOpen
    BY <1>2 DEF Opens
  <2> QED BY <1>1, <2>1, <2>2, <2>3, OpenAssumption DEF CallStack, StreamPerCall
<1>3. CASE ~ Opens(f)
  <2>1. phase' = "thrown" /\ stack' = <<>> /\ streams' = 0
    BY <1>3 DEF OpenInclude
  <2>2. IsStack(<<>>)
    BY EmptySeq DEF IsStack
  <2> QED BY <1>1, <2>1, <2>2 DEF CallStack, StreamPerCall
<1> QED BY <1>2, <1>3

LEMMA SpliceStack ==
  ASSUME CallStack, Splice
  PROVE  CallStack'
<1> DEFINE x == [Below EXCEPT !.doc = Spliced(@, NextInclude(@), Top.doc)]
<1>1. /\ phase = "resolving" /\ phase' = phase /\ asked' = asked
      /\ Len(stack) = streams + 1 - asked.own /\ Len(stack) \in 1 .. MaxOpen + 1
      /\ Len(stack) > 1 /\ streams' = streams - 1
      /\ stack' = Append(SubSeq(stack, 1, Len(stack) - 2), x)
  BY DEF Splice, Closed, CallStack, StreamPerCall
<1>2. IsStack(stack') /\ Len(stack') = Len(stack) - 1
  BY <1>1, PopType DEF CallStack
<1> HIDE DEF x
<1> QED BY <1>1, <1>2, OpenAssumption DEF CallStack, StreamPerCall

LEMMA NextStack == CallStack /\ [Next]_vars => CallStack'
<1> SUFFICES ASSUME CallStack, [Next]_vars PROVE CallStack'
  OBVIOUS
<1>1. CASE \E f \in File, pre \in Pre, post \in Post : ParseFile(f, pre, post)
  BY <1>1, ParseFileStack
<1>2. CASE \E d \in Text, pre \in Pre, post \in Post : ParseText(d, pre, post)
  BY <1>2, ParseTextStack
<1>3. CASE OpenInclude
  BY <1>3, OpenIncludeStack
<1>4. CASE Splice
  BY <1>4, SpliceStack
<1>5. CASE Return
  BY <1>5 DEF Return, CallStack, StreamPerCall
<1>6. CASE UNCHANGED vars
  BY <1>6 DEF vars, CallStack, StreamPerCall
<1> QED BY <1>1, <1>2, <1>3, <1>4, <1>5, <1>6 DEF Next, Resolve

\* Every call of resolve_includes that reads a file holds one stream and no stream
\* is held by anybody else, so the recursion is at most one call deeper than the
\* number of streams the process can open, whatever the files include.
THEOREM RecursionBounded == Spec => []StreamPerCall
<1>1. Init => CallStack
  BY InitStack
<1>2. CallStack /\ [Next]_vars => CallStack'
  BY NextStack
<1>3. CallStack => StreamPerCall
  BY DEF CallStack
<1> QED BY <1>1, <1>2, <1>3, PTL DEF Spec

----------------------------------------------------------------------------
(* Documents.                                                               *)

LEMMA DocumentFacts ==
  ASSUME NEW d \in Document
  PROVE  /\ Len(d) \in Nat
         /\ DOMAIN d = 1 .. Len(d)
         /\ \A i \in DOMAIN d : d[i] \in Item
<1>1. d \in Seq(Item)
  BY DEF Document
<1>2. Len(d) \in Nat /\ DOMAIN d = 1 .. Len(d) /\ d \in [1 .. Len(d) -> Item]
  BY <1>1, LenProperties
<1> QED BY <1>2

LEMMA MakeDocument ==
  ASSUME NEW n \in Nat, NEW f \in [1 .. n -> Item]
  PROVE  f \in Document /\ Len(f) = n
BY DEF Document

\* What is left of a document is a document.
LEMMA SettledType ==
  ASSUME NEW d \in Document
  PROVE  Settled[d] \in Document
<1> DEFINE L == Left(d)
           c == Cardinality(L)
<1>1. Len(d) \in Nat /\ DOMAIN d = 1 .. Len(d) /\ \A i \in DOMAIN d : d[i] \in Item
  BY DocumentFacts
<1>2. L \subseteq 1 .. Len(d)
  BY <1>1 DEF Left
<1>3. L \subseteq Nat /\ IsFiniteSet(L)
  <2>1. IsFiniteSet(1 .. Len(d))
    BY <1>1, FS_Interval
  <2> HIDE DEF L
  <2>2. L \subseteq Nat
    BY <1>1, <1>2
  <2> QED BY <1>2, <2>1, <2>2, FS_Subset
<1>4. c \in Nat
  BY <1>3, FS_CardinalityType
<1>5. Settled[d] = [n \in 1 .. c |-> d[Nth(L, n)]]
  BY DEF Settled, Chosen
<1> HIDE DEF L
<1>6. ASSUME NEW n \in 1 .. c PROVE d[Nth(L, n)] \in Item
  <2>1. Nth(L, n) \in L
    BY <1>3, NthMember
  <2> QED BY <1>1, <1>2, <2>1
<1> HIDE DEF c
<1>7. [n \in 1 .. c |-> d[Nth(L, n)]] \in [1 .. c -> Item]
  BY <1>6
<1> QED BY <1>4, <1>5, <1>7, MakeDocument

\* A text keeps its shape when its items are marked with their file.
LEMMA FromFacts ==
  ASSUME NEW f \in Seq(Segment), NEW d \in Document
  PROVE  /\ From(f, d) \in Document
         /\ DOMAIN From(f, d) = DOMAIN d
         /\ \A i \in DOMAIN d : /\ From(f, d)[i].kind = d[i].kind
                                /\ From(f, d)[i].name = d[i].name
                                /\ From(f, d)[i].op = d[i].op
<1>1. Len(d) \in Nat /\ DOMAIN d = 1 .. Len(d) /\ \A i \in DOMAIN d : d[i] \in Item
  BY DocumentFacts
<1>2. ASSUME NEW t \in Item
      PROVE  /\ [t EXCEPT !.from = f] \in Item
             /\ [t EXCEPT !.from = f].kind = t.kind
             /\ [t EXCEPT !.from = f].name = t.name
             /\ [t EXCEPT !.from = f].op = t.op
  BY DEF Item
<1>3. From(f, d) = [i \in 1 .. Len(d) |-> [d[i] EXCEPT !.from = f]]
  BY <1>1 DEF From
<1>4. ASSUME NEW i \in DOMAIN d
      PROVE  /\ From(f, d)[i] \in Item
             /\ From(f, d)[i].kind = d[i].kind
             /\ From(f, d)[i].name = d[i].name
             /\ From(f, d)[i].op = d[i].op
  <2>1. From(f, d)[i] = [d[i] EXCEPT !.from = f] /\ d[i] \in Item
    BY <1>1, <1>3
  <2> QED BY <1>2, <2>1
<1>5. From(f, d) \in [1 .. Len(d) -> Item]
  BY <1>1, <1>3, <1>4
<1>6. From(f, d) \in Document
  BY <1>1, <1>5, MakeDocument
<1> QED BY <1>1, <1>3, <1>4, <1>6

LEMMA SameDepth ==
  ASSUME NEW d, NEW e, NEW n \in Nat, NEW i \in 0 .. n,
         \A j \in 1 .. n : d[j].kind = e[j].kind
  PROVE  Depth(d, i) = Depth(e, i)
<1>1. \A j \in 1 .. i : Is(d[j], "open") = Is(e[j], "open") /\ Is(d[j], "close") = Is(e[j], "close")
  BY DEF Is
<1>2. /\ {j \in 1 .. i : Is(d[j], "open")} = {j \in 1 .. i : Is(e[j], "open")}
      /\ {j \in 1 .. i : Is(d[j], "close")} = {j \in 1 .. i : Is(e[j], "close")}
  BY <1>1
<1> QED BY <1>2 DEF Depth

\* Whether a text is accepted does not depend on the file it is in.
LEMMA AcceptedAnywhere ==
  ASSUME NEW f \in Seq(Segment), NEW d \in Document
  PROVE  Accepted(From(f, d)) <=> Accepted(d)
<1> DEFINE e == From(f, d)
<1>1. /\ Len(d) \in Nat /\ DOMAIN d = 1 .. Len(d)
      /\ e \in Document /\ DOMAIN e = DOMAIN d
      /\ \A i \in DOMAIN d : e[i].kind = d[i].kind /\ e[i].name = d[i].name /\ e[i].op = d[i].op
  BY DocumentFacts, FromFacts
<1> HIDE DEF e
<1>2. Len(e) = Len(d)
  <2>1. Len(e) \in Nat /\ DOMAIN e = 1 .. Len(e)
    BY <1>1, DocumentFacts
  <2> QED BY <1>1, <2>1
<1>3. ASSUME NEW i \in 1 .. Len(d) PROVE Closing(e, i) = Closing(d, i)
  <2>1. \A j \in 0 .. Len(d) : Depth(e, j) = Depth(d, j)
    BY <1>1, SameDepth
  <2>2. {j \in i .. Len(d) : Depth(e, j) < Depth(e, i)} = {j \in i .. Len(d) : Depth(d, j) < Depth(d, i)}
    <3>1. \A j \in i .. Len(d) : j \in 0 .. Len(d)
      BY <1>1
    <3>2. i \in 0 .. Len(d)
      BY <1>1
    <3> QED BY <2>1, <3>1, <3>2
  <2> QED BY <1>2, <2>2 DEF Closing
<1>4. ASSUME NEW i \in DOMAIN d, NEW j \in DOMAIN d
      PROVE  Repeats(e, i, j) <=> Repeats(d, i, j)
  <2>1. Closing(e, i) = Closing(d, i) /\ Closing(e, j) = Closing(d, j)
    BY <1>1, <1>3
  <2> QED BY <1>1, <2>1 DEF Repeats, Is
<1>5. \A i, j \in DOMAIN d :
        (Repeats(e, i, j) => e[j].op = ":=") <=> (Repeats(d, i, j) => d[j].op = ":=")
  BY <1>1, <1>4
<1>6. Accepted(e) <=> Accepted(d)
  BY <1>1, <1>5 DEF Accepted
<1> QED BY <1>6 DEF e

LEMMA ClosingType ==
  ASSUME NEW d, Len(d) \in Nat, NEW i \in 1 .. Len(d)
  PROVE  Closing(d, i) \in Nat
<1> DEFINE Ends == {j \in i .. Len(d) : Depth(d, j) < Depth(d, i)} \cup {Len(d) + 1}
<1>1. Ends \subseteq Nat /\ Ends # {}
  OBVIOUS
<1>2. Closing(d, i) = CHOOSE e \in Ends : \A j \in Ends : e <= j
  BY DEF Closing
<1> HIDE DEF Ends
<1>3. \E e \in Ends : \A j \in Ends : e <= j
  BY <1>1, LeastElement
<1>4. Closing(d, i) \in Ends
  BY <1>2, <1>3
<1> QED BY <1>1, <1>4

\* There is an include that is met next, as long as there is any.
LEMMA NextIsPending ==
  ASSUME NEW d, Len(d) \in Nat, DOMAIN d = 1 .. Len(d), Pending(d) # {}
  PROVE  NextInclude(d) \in Pending(d)
<1>1. Pending(d) \subseteq 1 .. Len(d)
  BY DEF Pending
<1>2. \A i \in Pending(d) : Closing(d, i) \in Nat /\ i \in Nat
  <2> SUFFICES ASSUME NEW i \in Pending(d) PROVE Closing(d, i) \in Nat /\ i \in Nat
    OBVIOUS
  <2>1. i \in 1 .. Len(d)
    BY <1>1
  <2> QED BY <2>1, ClosingType
<1> DEFINE Ends == {Closing(d, i) : i \in Pending(d)}
<1>3. PICK e \in Ends : \A g \in Ends : e <= g
  <2>1. Ends \subseteq Nat /\ Ends # {}
    BY <1>2
  <2> HIDE DEF Ends
  <2> QED BY <2>1, LeastElement
<1> DEFINE First == {i \in Pending(d) : Closing(d, i) = e}
<1>4. PICK i \in First : \A j \in First : i <= j
  <2>1. First \subseteq Nat /\ First # {}
    BY <1>2, <1>3
  <2> HIDE DEF First
  <2> QED BY <2>1, LeastElement
<1>5. ASSUME NEW j \in Pending(d)
      PROVE  \/ Closing(d, i) < Closing(d, j)
             \/ Closing(d, i) = Closing(d, j) /\ i <= j
  <2>1. Closing(d, i) = e /\ e <= Closing(d, j) /\ e \in Nat /\ Closing(d, j) \in Nat
    BY <1>2, <1>3, <1>4
  <2>2. Closing(d, j) = e => i <= j
    BY <1>4
  <2> QED BY <2>1, <2>2
<1>6. i \in Pending(d)
  BY <1>4
<1>7. \E k \in Pending(d) : \A j \in Pending(d) :
        \/ Closing(d, k) < Closing(d, j)
        \/ Closing(d, k) = Closing(d, j) /\ k <= j
  BY <1>5, <1>6
<1> QED BY <1>7 DEF NextInclude

\* Where the items stand after a splice.
LEMMA SplicedPlaces ==
  ASSUME NEW d \in Document, NEW e \in Document, NEW i \in DOMAIN d
  PROVE  /\ Spliced(d, i, e) \in Document
         /\ Len(Spliced(d, i, e)) = Len(d) - 1 + Len(e)
         /\ \A k \in 1 .. i - 1 : Spliced(d, i, e)[k] = d[k]
         /\ \A k \in 1 .. Len(e) : Spliced(d, i, e)[i - 1 + k] = e[k]
         /\ \A k \in i + 1 .. Len(d) : Spliced(d, i, e)[k - 1 + Len(e)] = d[k]
<1>1. /\ Len(d) \in Nat /\ DOMAIN d = 1 .. Len(d) /\ \A j \in DOMAIN d : d[j] \in Item
      /\ Len(e) \in Nat /\ DOMAIN e = 1 .. Len(e)
      /\ e \in Seq(Item) /\ i \in 1 .. Len(d)
  <2>1. \A x \in Document : Len(x) \in Nat /\ DOMAIN x = 1 .. Len(x) /\ \A j \in DOMAIN x : x[j] \in Item
    BY DocumentFacts
  <2> QED BY <2>1 DEF Document
<1> DEFINE a == SubSeq(d, 1, i - 1)
           z == SubSeq(d, i + 1, Len(d))
           n == Len(d)
           m == Len(e)
           s == Spliced(d, i, e)
<1>2. /\ a \in Seq(Item) /\ Len(a) = i - 1
      /\ \A k \in 1 .. i - 1 : a[k] = d[k]
  <2>1. \A k \in 1 .. i - 1 : d[k] \in Item
    BY <1>1
  <2>2. /\ a \in Seq(Item)
        /\ Len(a) = IF 1 <= i - 1 THEN i - 1 - 1 + 1 ELSE 0
        /\ \A k \in 1 .. i - 1 - 1 + 1 : a[k] = d[1 + k - 1]
    <3>1. 1 \in Int /\ i - 1 \in Int
      BY <1>1
    <3> QED BY <2>1, <3>1, SubSeqProperties
  <2> HIDE DEF a
  <2>3. Len(a) = i - 1
    BY <1>1, <2>2
  <2>4. ASSUME NEW k \in 1 .. i - 1 PROVE a[k] = d[k]
    <3>1. k \in 1 .. i - 1 - 1 + 1 /\ 1 + k - 1 = k
      BY <1>1
    <3> QED BY <2>2, <3>1
  <2> QED BY <2>2, <2>3, <2>4
<1>3. /\ z \in Seq(Item) /\ Len(z) = n - i
      /\ \A k \in 1 .. n - i : z[k] = d[i + k]
  <2>1. \A k \in i + 1 .. n : d[k] \in Item
    BY <1>1
  <2>2. /\ z \in Seq(Item)
        /\ Len(z) = IF i + 1 <= n THEN n - (i + 1) + 1 ELSE 0
        /\ \A k \in 1 .. n - (i + 1) + 1 : z[k] = d[i + 1 + k - 1]
    <3>1. i + 1 \in Int /\ n \in Int
      BY <1>1
    <3> QED BY <2>1, <3>1, SubSeqProperties
  <2> HIDE DEF z
  <2>3. Len(z) = n - i
    BY <1>1, <2>2
  <2>4. ASSUME NEW k \in 1 .. n - i PROVE z[k] = d[i + k]
    <3>1. k \in 1 .. n - (i + 1) + 1 /\ i + 1 + k - 1 = i + k
      BY <1>1
    <3> QED BY <2>2, <3>1
  <2> QED BY <2>2, <2>3, <2>4
<1>4. s = (a \o e) \o z
  <2>1. s = a \o e \o z
    BY DEF Spliced
  <2> QED BY <2>1
<1>5. /\ n \in Nat /\ m \in Nat /\ DOMAIN d = 1 .. n /\ DOMAIN e = 1 .. m /\ i \in 1 .. n
  BY <1>1
<1> HIDE DEF a, z, s
<1>6. /\ a \o e \in Seq(Item) /\ Len(a \o e) = i - 1 + m
      /\ \A k \in 1 .. i - 1 + m : (a \o e)[k] = IF k <= i - 1 THEN a[k] ELSE e[k - (i - 1)]
  <2>1. /\ a \o e \in Seq(Item) /\ Len(a \o e) = Len(a) + Len(e)
        /\ \A k \in 1 .. Len(a) + Len(e) : (a \o e)[k] = IF k <= Len(a) THEN a[k] ELSE e[k - Len(a)]
    BY <1>1, <1>2, ConcatProperties
  <2>2. Len(a) = i - 1
    BY <1>2
  <2> QED BY <2>1, <2>2
<1> DEFINE b == a \o e
<1>7. /\ s \in Seq(Item) /\ Len(s) = i - 1 + m + (n - i)
      /\ \A k \in 1 .. i - 1 + m + (n - i) :
           s[k] = IF k <= i - 1 + m THEN b[k] ELSE z[k - (i - 1 + m)]
  <2>0. s = b \o z
    BY <1>4
  <2>1. b \in Seq(Item) /\ Len(b) = i - 1 + m
    BY <1>6
  <2> HIDE DEF b
  <2>2. z \in Seq(Item) /\ Len(z) = n - i
    BY <1>3
  <2>3. /\ b \o z \in Seq(Item) /\ Len(b \o z) = Len(b) + Len(z)
        /\ \A k \in 1 .. Len(b) + Len(z) : (b \o z)[k] = IF k <= Len(b) THEN b[k] ELSE z[k - Len(b)]
    BY <2>1, <2>2, ConcatProperties
  <2> QED BY <2>0, <2>1, <2>2, <2>3
<1>8. \A k \in 1 .. i - 1 + m : b[k] = IF k <= i - 1 THEN a[k] ELSE e[k - (i - 1)]
  BY <1>6
<1>9. s \in Document /\ Len(s) = n - 1 + m
  <2>1. s \in Document
    BY <1>7 DEF Document
  <2>2. Len(s) = i - 1 + m + (n - i)
    BY <1>7
  <2> HIDE DEF n, m
  <2> QED BY <1>5, <2>1, <2>2
<1> HIDE DEF b, n, m
<1>10. ASSUME NEW k \in 1 .. i - 1
       PROVE  s[k] = d[k]
  <2>1. k <= i - 1 /\ k \in 1 .. i - 1 + m /\ k <= i - 1 + m /\ k \in 1 .. i - 1 + m + (n - i)
    BY <1>5
  <2> QED BY <1>2, <1>7, <1>8, <2>1
<1>11. ASSUME NEW k \in 1 .. m
       PROVE  s[i - 1 + k] = e[k]
  <2> DEFINE j == i - 1 + k
  <2>1. /\ j \in 1 .. i - 1 + m /\ j <= i - 1 + m /\ ~ (j <= i - 1) /\ j - (i - 1) = k
        /\ j \in 1 .. i - 1 + m + (n - i)
    BY <1>5
  <2> HIDE DEF j
  <2>2. s[j] = e[k]
    BY <1>7, <1>8, <2>1
  <2> QED BY <2>2 DEF j
<1>12. ASSUME NEW k \in i + 1 .. n
       PROVE  s[k - 1 + m] = d[k]
  <2> DEFINE j == k - 1 + m
             h == k - i
  <2>1. i \in Nat /\ k \in Nat /\ n \in Nat /\ m \in Nat /\ 1 <= i /\ i < k /\ k <= n
    BY <1>5
  <2>2. j - (i - 1 + m) = h /\ i + h = k /\ ~ (j <= i - 1 + m) /\ h \in 1 .. n - i
    BY <2>1
  <2>3. j \in 1 .. i - 1 + m + (n - i)
    BY <2>1
  <2> HIDE DEF j, h
  <2>4. s[j] = z[h]
    BY <1>7, <2>2, <2>3
  <2>5. s[j] = d[k]
    BY <1>3, <2>2, <2>4
  <2> QED BY <2>5 DEF j
<1> QED BY <1>9, <1>10, <1>11, <1>12 DEF s, n, m

\* What a splice leaves: every item of the list but the include, and the items put
\* in its place.
LEMMA SplicedItems ==
  ASSUME NEW d \in Document, NEW e \in Document, NEW i \in DOMAIN d
  PROVE  /\ Spliced(d, i, e) \in Document
         /\ \A k \in DOMAIN Spliced(d, i, e) :
              \/ \E j \in DOMAIN d : Spliced(d, i, e)[k] = d[j]
              \/ \E j \in DOMAIN e : Spliced(d, i, e)[k] = e[j]
         /\ \A j \in DOMAIN d : j # i =>
              \E k \in DOMAIN Spliced(d, i, e) : Spliced(d, i, e)[k] = d[j]
<1> DEFINE s == Spliced(d, i, e)
           n == Len(d)
           m == Len(e)
<1>1. /\ n \in Nat /\ DOMAIN d = 1 .. n /\ i \in 1 .. n
      /\ m \in Nat /\ DOMAIN e = 1 .. m
  BY DocumentFacts
<1>2. /\ s \in Document /\ Len(s) = n - 1 + m
      /\ \A k \in 1 .. i - 1 : s[k] = d[k]
      /\ \A k \in 1 .. m : s[i - 1 + k] = e[k]
      /\ \A k \in i + 1 .. n : s[k - 1 + m] = d[k]
  BY SplicedPlaces
<1> HIDE DEF s, n, m
<1>3. DOMAIN s = 1 .. n - 1 + m
  BY <1>2, DocumentFacts
<1>4. ASSUME NEW k \in DOMAIN s
      PROVE  (\E j \in DOMAIN d : s[k] = d[j]) \/ (\E j \in DOMAIN e : s[k] = e[j])
  <2>0. k \in 1 .. n - 1 + m
    BY <1>3
  <2>1. CASE k <= i - 1
    <3>1. k \in 1 .. i - 1 /\ k \in 1 .. n
      BY <1>1, <2>0, <2>1
    <3> QED BY <1>1, <1>2, <3>1
  <2>2. CASE ~ (k <= i - 1) /\ k <= i - 1 + m
    <3> DEFINE j == k - (i - 1)
    <3>1. j \in 1 .. m /\ i - 1 + j = k
      BY <1>1, <2>0, <2>2
    <3> HIDE DEF j
    <3>2. s[k] = e[j]
      BY <1>2, <3>1
    <3> QED BY <1>1, <3>1, <3>2
  <2>3. CASE ~ (k <= i - 1 + m)
    <3> DEFINE j == k + 1 - m
    <3>1. j \in i + 1 .. n /\ j \in 1 .. n /\ j - 1 + m = k
      BY <1>1, <2>0, <2>3
    <3> HIDE DEF j
    <3>2. s[k] = d[j]
      BY <1>2, <3>1
    <3> QED BY <1>1, <3>1, <3>2
  <2> QED BY <2>1, <2>2, <2>3
<1>5. ASSUME NEW j \in DOMAIN d, j # i
      PROVE  \E k \in DOMAIN s : s[k] = d[j]
  <2>0. j \in 1 .. n
    BY <1>1
  <2>1. CASE j < i
    <3>1. j \in 1 .. i - 1 /\ j \in 1 .. n - 1 + m
      BY <1>1, <2>0, <2>1
    <3> QED BY <1>2, <1>3, <3>1
  <2>2. CASE i < j
    <3> DEFINE k == j - 1 + m
    <3>1. j \in i + 1 .. n /\ k \in 1 .. n - 1 + m
      BY <1>1, <2>0, <2>2
    <3>2. s[k] = d[j]
      BY <1>2, <3>1
    <3> HIDE DEF k
    <3> QED BY <1>3, <3>1, <3>2
  <2> QED BY <1>1, <2>0, <2>1, <2>2, <1>5
<1> QED BY <1>2, <1>4, <1>5 DEF s

\* With an included document that names no file, a splice takes at most one name
\* out of the list and brings none in.
LEMMA SplicedNames ==
  ASSUME NEW d \in Document, NEW e \in Document, NEW i \in DOMAIN d, NEW base,
         Pending(e) = {}
  PROVE  /\ Named(base, Spliced(d, i, e)) \subseteq Named(base, d)
         /\ Named(base, d) \subseteq Named(base, Spliced(d, i, e)) \cup {Resolved(base, d[i])}
<1> DEFINE s == Spliced(d, i, e)
<1>1. /\ \A k \in DOMAIN s : (\E j \in DOMAIN d : s[k] = d[j]) \/ (\E j \in DOMAIN e : s[k] = e[j])
      /\ \A j \in DOMAIN d : j # i => \E k \in DOMAIN s : s[k] = d[j]
  BY SplicedItems
<1> HIDE DEF s
<1>2. \A j \in DOMAIN e : ~ Is(e[j], "include")
  BY DEF Pending
<1>3. ASSUME NEW x \in Named(base, s) PROVE x \in Named(base, d)
  <2>1. PICK k \in DOMAIN s : Is(s[k], "include") /\ x = Resolved(base, s[k])
    BY DEF Named
  <2>2. PICK j \in DOMAIN d : s[k] = d[j]
    BY <1>1, <1>2, <2>1
  <2> QED BY <2>1, <2>2 DEF Named
<1>4. ASSUME NEW x \in Named(base, d), x # Resolved(base, d[i]) PROVE x \in Named(base, s)
  <2>1. PICK j \in DOMAIN d : Is(d[j], "include") /\ x = Resolved(base, d[j])
    BY DEF Named
  <2>2. PICK k \in DOMAIN s : s[k] = d[j]
    BY <1>1, <1>4, <2>1
  <2> QED BY <2>1, <2>2 DEF Named
<1> QED BY <1>3, <1>4 DEF s

----------------------------------------------------------------------------
(* The types, and where the documents on the stack come from.               *)

Frame == [base : Seq(Segment), doc : Document]

\* What frame k of a stack waits for, and the files its document still names.
Awaited(s, k) == Resolved(s[k].base, s[k].doc[NextInclude(s[k].doc)])
Names(s, k) == Named(s[k].base, s[k].doc)

\* The outermost document names no file that its text did not name; every other
\* frame belongs to a file the one below waits for, and names no file that file
\* did not name.  All those files are on the disk and are come to.
Lineage ==
  /\ Names(stack, 1) \subseteq Start
  /\ \A k \in 1 .. Len(stack) - 1 :
       /\ Pending(stack[k].doc) # {}
       /\ Awaited(stack, k) \in Files
       /\ Names(stack, k + 1) \subseteq NamedBy(Awaited(stack, k))

TypeInv == CallStack /\ TypeOK /\ (phase = "resolving" => Lineage)

LEMMA DirType ==
  ASSUME NEW f \in Seq(Segment), f # <<>>
  PROVE  Dir(f) \in Seq(Segment)
<1>1. Len(f) \in Nat /\ \A i \in 1 .. Len(f) - 1 : f[i] \in Segment
  <2>1. Len(f) \in Nat
    BY LenProperties
  <2>2. \A i \in 1 .. Len(f) - 1 : i \in 1 .. Len(f)
    BY <2>1
  <2> QED BY <2>1, <2>2, ElementOfSeq
<1>2. 1 \in Int /\ Len(f) - 1 \in Int
  BY <1>1
<1> QED BY <1>1, <1>2, SubSeqProperties DEF Dir

\* The files there are.
LEMMA DiskFacts ==
  ASSUME TypeOK, NEW f \in DOMAIN disk
  PROVE  f \in Seq(Segment) /\ Dir(f) \in Seq(Segment) /\ disk[f] \in Document
<1>1. f \in File /\ disk[f] \in Text
  BY DEF TypeOK
<1>2. f \in Seq(Segment) /\ f # <<>>
  BY <1>1, FileAssumption
<1> QED BY <1>1, <1>2, DirType, TextAssumption

LEMMA WrittenType ==
  ASSUME NEW f \in Seq(Segment), NEW d \in Document, NEW pre \in Pre, NEW post \in Post
  PROVE  From(f, pre \o d \o post) \in Document
<1>1. pre \in Seq(Item) /\ d \in Seq(Item) /\ post \in Seq(Item)
  BY TextAssumption DEF Document
<1>2. pre \o d \in Seq(Item)
  BY <1>1, ConcatProperties
<1>3. pre \o d \o post \in Seq(Item)
  BY <1>1, <1>2, ConcatProperties
<1> QED BY <1>3, FromFacts DEF Document

\* The documents of the frames.
LEMMA FrameFacts ==
  ASSUME TypeOK, NEW k \in 1 .. Len(stack)
  PROVE  stack[k].base \in Seq(Segment) /\ stack[k].doc \in Document
<1>1. stack \in Seq(Frame)
  BY DEF TypeOK, Frame
<1>2. stack[k] \in Frame
  BY <1>1, ElementOfSeq
<1> QED BY <1>2 DEF Frame

LEMMA NextFacts ==
  ASSUME TypeOK, NEW k \in 1 .. Len(stack), Pending(stack[k].doc) # {}
  PROVE  /\ NextInclude(stack[k].doc) \in DOMAIN stack[k].doc
         /\ Awaited(stack, k) \in Names(stack, k)
<1>1. Len(stack[k].doc) \in Nat /\ DOMAIN stack[k].doc = 1 .. Len(stack[k].doc)
  BY FrameFacts, DocumentFacts
<1>2. NextInclude(stack[k].doc) \in Pending(stack[k].doc)
  BY <1>1, NextIsPending
<1> QED BY <1>2 DEF Pending, Awaited, Names, Named

\* A frame is put on the stack, or the last two give way to one.
LEMMA PushFrame ==
  ASSUME stack \in Seq(Frame), NEW x \in Frame, stack' = Append(stack, x)
  PROVE  /\ stack' \in Seq(Frame)
         /\ Len(stack) \in Nat /\ Len(stack') = Len(stack) + 1
         /\ stack'[Len(stack) + 1] = x
         /\ \A k \in 1 .. Len(stack) : stack'[k] = stack[k]
BY LenProperties

LEMMA PopFrame ==
  ASSUME stack \in Seq(Frame), NEW x \in Frame, Len(stack) > 1,
         stack' = Append(SubSeq(stack, 1, Len(stack) - 2), x)
  PROVE  /\ stack' \in Seq(Frame)
         /\ Len(stack) \in Nat /\ Len(stack') = Len(stack) - 1
         /\ stack'[Len(stack) - 1] = x
         /\ \A k \in 1 .. Len(stack) - 2 : stack'[k] = stack[k]
<1> DEFINE m == Len(stack) - 2
           s == SubSeq(stack, 1, m)
<1>1. Len(stack) \in Nat /\ m \in Nat /\ \A k \in 1 .. m : stack[k] \in Frame
  <2>1. Len(stack) \in Nat
    BY LenProperties
  <2>2. \A k \in 1 .. m : k \in 1 .. Len(stack)
    BY <2>1
  <2> QED BY <2>1, <2>2, ElementOfSeq
<1>2. s \in Seq(Frame) /\ Len(s) = m /\ \A k \in 1 .. m : s[k] = stack[k]
  <2> HIDE DEF m
  <2>1. 1 \in Int /\ m \in Int /\ m - 1 + 1 = m /\ \A k \in 1 .. m : 1 + k - 1 = k
    BY <1>1
  <2>2. /\ s \in Seq(Frame) /\ Len(s) = (IF 1 <= m THEN m - 1 + 1 ELSE 0)
        /\ \A k \in 1 .. m - 1 + 1 : s[k] = stack[1 + k - 1]
    BY <1>1, <2>1, SubSeqProperties
  <2>3. Len(s) = m
    BY <1>1, <2>2
  <2> HIDE DEF s
  <2> QED BY <2>1, <2>2, <2>3
<1>3. stack' = Append(s, x)
  OBVIOUS
<1> HIDE DEF s
<1>4. /\ stack' \in Seq(Frame) /\ Len(stack') = m + 1 /\ stack'[m + 1] = x
      /\ \A k \in 1 .. m : stack'[k] = s[k]
  BY <1>1, <1>2, <1>3
<1>5. m + 1 = Len(stack) - 1
  BY <1>1
<1> QED BY <1>1, <1>2, <1>4, <1>5

LEMMA EnterType ==
  ASSUME stack \in Seq(Frame), NEW base \in Seq(Segment), NEW d \in Document, Enter(base, d)
  PROVE  /\ stack' \in Seq(Frame)
         /\ \/ /\ phase' = "resolving" /\ Accepted(d)
               /\ stack' = Append(stack, [base |-> base, doc |-> Settled[d]])
            \/ phase' = "thrown" /\ stack' = <<>> /\ ~ Accepted(d)
<1>1. CASE Accepted(d)
  <2>1. [base |-> base, doc |-> Settled[d]] \in Frame
    BY SettledType DEF Frame
  <2> QED BY <1>1, <2>1, PushFrame DEF Enter
<1>2. CASE ~ Accepted(d)
  BY <1>2, EmptySeq DEF Enter
<1> QED BY <1>1, <1>2

\* Files is closed: what the text names, or a file in it, is in it if it exists.
LEMMA FilesClosed ==
  ASSUME NEW f \in DOMAIN disk, f \in Start \/ \E g \in Files : f \in NamedBy(g)
  PROVE  f \in Files
<1>1. SUFFICES ASSUME NEW R \in SUBSET DOMAIN disk, Closes(R) PROVE f \in R
  BY DEF Files
<1>2. CASE f \in Start
  BY <1>1, <1>2 DEF Closes
<1>3. CASE \E g \in Files : f \in NamedBy(g)
  <2>1. PICK g \in Files : f \in NamedBy(g)
    BY <1>3
  <2>2. g \in R
    BY <1>1 DEF Files
  <2> QED BY <1>1, <2>1, <2>2 DEF Closes
<1> QED BY <1>2, <1>3

LEMMA AwaitedFile ==
  ASSUME TypeInv, phase = "resolving", NEW k \in 1 .. Len(stack), Pending(stack[k].doc) # {}
  PROVE  /\ k = 1 => Awaited(stack, k) \in Start
         /\ k # 1 => k - 1 \in 1 .. Len(stack) - 1 /\ Awaited(stack, k) \in NamedBy(Awaited(stack, k - 1))
         /\ Awaited(stack, k) \in DOMAIN disk => Awaited(stack, k) \in Files
<1>1. Awaited(stack, k) \in Names(stack, k)
  BY NextFacts DEF TypeInv
<1>2. Lineage /\ Len(stack) \in Nat
  BY LenProperties DEF TypeInv, TypeOK
<1>3. CASE k = 1
  BY <1>1, <1>2, <1>3, FilesClosed DEF Lineage
<1>4. CASE k # 1
  <2>1. k - 1 \in 1 .. Len(stack) - 1 /\ k - 1 + 1 = k
    BY <1>2, <1>4
  <2>2. Awaited(stack, k - 1) \in Files /\ Names(stack, k) \subseteq NamedBy(Awaited(stack, k - 1))
    BY <1>2, <2>1 DEF Lineage
  <2> QED BY <1>1, <1>4, <2>1, <2>2, FilesClosed
<1> QED BY <1>3, <1>4

\* The document a caller hands in is entered.
LEMMA FirstFrame ==
  ASSUME TypeInv, phase = "start", NEW base \in Seq(Segment), NEW d \in Document,
         Enter(base, d), asked'.base = base, asked'.text = d
  PROVE  /\ stack' \in Seq(Frame)
         /\ phase' = "resolving" => /\ Lineage'
                                    /\ Len(stack') = 1
                                    /\ Names(stack', 1) = Start'
                                    /\ stack'[1] = [base |-> base, doc |-> Settled[d]]
         /\ phase' # "resolving" => phase' = "thrown" /\ ~ Accepted(d)
<1>1. stack = <<>> /\ stack \in Seq(Frame)
  BY DEF TypeInv, CallStack, TypeOK, Frame
<1>2. /\ stack' \in Seq(Frame)
      /\ \/ /\ phase' = "resolving" /\ Accepted(d)
            /\ stack' = Append(stack, [base |-> base, doc |-> Settled[d]])
         \/ phase' = "thrown" /\ stack' = <<>> /\ ~ Accepted(d)
  BY <1>1, EnterType
<1>3. CASE phase' = "resolving"
  <2>1. [base |-> base, doc |-> Settled[d]] \in Frame
    BY SettledType DEF Frame
  <2>2. Len(stack') = 1 /\ stack'[1] = [base |-> base, doc |-> Settled[d]]
    BY <1>1, <1>2, <1>3, <2>1
  <2>3. Names(stack', 1) = Start'
    BY <2>2 DEF Names, Start
  <2> QED BY <1>2, <1>3, <2>2, <2>3 DEF Lineage
<1> QED BY <1>2, <1>3

LEMMA ParseFileType ==
  ASSUME TypeInv, NEW f \in File, NEW pre \in Pre, NEW post \in Post, ParseFile(f, pre, post)
  PROVE  TypeInv'
<1>1. CallStack'
  BY ParseFileStack DEF TypeInv
<1>2. /\ phase = "start" /\ disk' = disk /\ stack \in Seq(Frame)
      /\ streams = 0 /\ asked \in [base : Seq(Segment), text : Document, own : {0, 1}]
  BY DEF ParseFile, TypeInv, TypeOK, CallStack, Frame
<1>3. CASE Opens(f)
  <2> DEFINE d == From(f, pre \o disk[f] \o post)
  <2>1. /\ Enter(Dir(f), d) /\ asked' = [base |-> Dir(f), own |-> 1, text |-> d]
        /\ streams' = IF phase' = "thrown" THEN 0 ELSE 1
    BY <1>3 DEF ParseFile
  <2>2. f \in DOMAIN disk /\ streams < MaxOpen
    BY <1>3 DEF Opens
  <2>3. f \in Seq(Segment) /\ Dir(f) \in Seq(Segment) /\ disk[f] \in Document
    BY <2>2, DiskFacts DEF TypeInv
  <2>4. d \in Document
    BY <2>3, WrittenType
  <2> HIDE DEF d
  <2>5. /\ stack' \in Seq(Frame)
        /\ phase' = "resolving" => Lineage'
        /\ phase' # "resolving" => phase' = "thrown"
    BY <1>2, <2>1, <2>3, <2>4, FirstFrame
  <2>6. asked' \in [base : Seq(Segment), text : Document, own : {0, 1}]
    BY <2>1, <2>3, <2>4
  <2>7. streams' \in 0 .. MaxOpen
    BY <1>2, <2>1, <2>2, OpenAssumption
  <2>8. TypeOK'
    BY <1>2, <2>5, <2>6, <2>7 DEF TypeOK, TypeInv, Frame
  <2> QED BY <1>1, <2>5, <2>8 DEF TypeInv
<1>4. CASE ~ Opens(f)
  <2>1. phase' = "thrown" /\ stack' = stack /\ asked' = asked /\ streams' = streams
    BY <1>4 DEF ParseFile
  <2>2. TypeOK'
    BY <1>2, <2>1 DEF TypeOK, TypeInv
  <2> QED BY <1>1, <2>1, <2>2 DEF TypeInv
<1> QED BY <1>3, <1>4

LEMMA ParseTextType ==
  ASSUME TypeInv, NEW t \in Text, NEW pre \in Pre, NEW post \in Post, ParseText(t, pre, post)
  PROVE  TypeInv'
<1> DEFINE d == From(<<>>, pre \o t \o post)
<1>1. CallStack'
  BY ParseTextStack DEF TypeInv
<1>2. /\ phase = "start" /\ disk' = disk /\ streams' = streams
      /\ Enter(<<>>, d) /\ asked' = [base |-> <<>>, own |-> 0, text |-> d]
  BY DEF ParseText
<1>3. <<>> \in Seq(Segment)
  BY EmptySeq
<1>4. t \in Document
  BY TextAssumption
<1>5. d \in Document
  BY <1>3, <1>4, WrittenType
<1> HIDE DEF d
<1>6. /\ stack' \in Seq(Frame)
      /\ phase' = "resolving" => Lineage'
      /\ phase' # "resolving" => phase' = "thrown"
  BY <1>2, <1>3, <1>5, FirstFrame
<1>7. asked' \in [base : Seq(Segment), text : Document, own : {0, 1}]
  BY <1>2, <1>3, <1>5
<1>8. TypeOK'
  BY <1>2, <1>6, <1>7 DEF TypeOK, TypeInv, Frame
<1> QED BY <1>1, <1>6, <1>8 DEF TypeInv

\* While a call runs, what it can come to stays what it is.
LEMMA SameFiles ==
  ASSUME UNCHANGED <<disk, asked>>
  PROVE  /\ Start' = Start /\ Files' = Files
         /\ \A f : NamedBy(f)' = NamedBy(f)
<1>1. Start' = Start
  BY DEF Start
<1>2. \A f : NamedBy(f)' = NamedBy(f)
  BY DEF NamedBy
<1>3. \A R : Closes(R)' <=> Closes(R)
  BY DEF Closes, Start, NamedBy
<1>4. Files' = Files
  BY DEF Files, Closes, Start, NamedBy
<1> QED BY <1>1, <1>2, <1>4

\* The frame of a file that was opened.
FrameOf(f) == [base |-> Dir(f), doc |-> Settled[From(f, disk[f])]]

\* An include is opened: its file is the one the frame below waits for.
LEMMA OpenIncludeFrames ==
  ASSUME TypeInv, OpenInclude, phase' = "resolving"
  PROVE  /\ Len(stack) \in Nat \ {0} /\ Len(stack') = Len(stack) + 1
         /\ stack' \in Seq(Frame)
         /\ \A k \in 1 .. Len(stack) : stack'[k] = stack[k]
         /\ Pending(stack[Len(stack)].doc) # {}
         /\ Awaited(stack, Len(stack)) \in DOMAIN disk
         /\ Names(stack', Len(stack) + 1) = NamedBy(Awaited(stack, Len(stack)))
         /\ stack'[Len(stack) + 1] = FrameOf(Awaited(stack, Len(stack)))
<1> DEFINE n == Len(stack)
           f == Awaited(stack, n)
<1>1. /\ phase = "resolving" /\ Pending(stack[n].doc) # {} /\ n \in Nat \ {0}
      /\ stack \in Seq(Frame)
  <2>1. phase = "resolving" /\ Pending(stack[n].doc) # {}
    BY DEF OpenInclude, Top
  <2>2. n \in 1 .. MaxOpen + 1 /\ stack \in Seq(Frame)
    BY <2>1 DEF TypeInv, CallStack, StreamPerCall, TypeOK, Frame
  <2> QED BY <2>1, <2>2, OpenAssumption
<1>2. Opens(f) /\ Enter(Dir(f), From(f, disk[f]))
  BY DEF OpenInclude, Top, Awaited
<1>3. f \in DOMAIN disk
  BY <1>2 DEF Opens
<1>4. f \in Seq(Segment) /\ Dir(f) \in Seq(Segment) /\ disk[f] \in Document
  BY <1>3, DiskFacts DEF TypeInv
<1>5. From(f, disk[f]) \in Document
  BY <1>4, FromFacts
<1> DEFINE x == [base |-> Dir(f), doc |-> Settled[From(f, disk[f])]]
<1>6. x \in Frame
  BY <1>4, <1>5, SettledType DEF Frame
<1>7. stack' = Append(stack, x)
  <2> HIDE DEF f
  <2> QED BY <1>1, <1>2, <1>4, <1>5, EnterType
<1>8. x.base = Dir(f) /\ x.doc = Settled[From(f, disk[f])] /\ x = FrameOf(f)
  BY DEF FrameOf
<1> HIDE DEF x, f
<1>9. /\ stack' \in Seq(Frame) /\ Len(stack') = n + 1 /\ stack'[n + 1] = x
      /\ \A k \in 1 .. n : stack'[k] = stack[k]
  BY <1>1, <1>6, <1>7, PushFrame
<1>10. Names(stack', n + 1) = NamedBy(f)
  BY <1>8, <1>9 DEF Names, NamedBy
<1> QED BY <1>1, <1>3, <1>8, <1>9, <1>10 DEF f

LEMMA OpenIncludeType ==
  ASSUME TypeInv, OpenInclude
  PROVE  TypeInv'
<1>1. CallStack'
  BY OpenIncludeStack DEF TypeInv
<1>2. /\ phase = "resolving" /\ disk' = disk /\ asked' = asked /\ Lineage
      /\ streams \in 0 .. MaxOpen
  BY DEF OpenInclude, TypeInv, TypeOK
<1>3. phase' \in {"resolving", "thrown"} /\ streams' \in 0 .. MaxOpen
      /\ (phase' = "thrown" => stack' = <<>>)
  BY <1>2, OpenAssumption DEF OpenInclude, Opens, Enter
<1>4. CASE phase' = "thrown"
  <2>1. TypeOK'
    BY <1>2, <1>3, <1>4, EmptySeq DEF TypeOK, TypeInv
  <2> QED BY <1>1, <1>4, <2>1 DEF TypeInv
<1>5. CASE phase' = "resolving"
  <2> DEFINE n == Len(stack)
  <2>1. /\ n \in Nat \ {0} /\ Len(stack') = n + 1 /\ stack' \in Seq(Frame)
        /\ \A k \in 1 .. n : stack'[k] = stack[k]
        /\ Pending(stack[n].doc) # {}
        /\ Awaited(stack, n) \in DOMAIN disk
        /\ Names(stack', n + 1) = NamedBy(Awaited(stack, n))
    BY <1>5, OpenIncludeFrames
  <2>2. TypeOK'
    BY <1>2, <1>3, <2>1 DEF TypeOK, TypeInv, Frame
  <2>3. Start' = Start /\ Files' = Files /\ \A f : NamedBy(f)' = NamedBy(f)
    BY <1>2, SameFiles
  <2>4. Awaited(stack, n) \in Files
    <3>1. n \in 1 .. Len(stack)
      BY <2>1
    <3> QED BY <1>2, <2>1, <3>1, AwaitedFile
  <2> HIDE DEF n
  <2>5. \A k \in 1 .. n : Awaited(stack', k) = Awaited(stack, k) /\ Names(stack', k) = Names(stack, k)
    BY <2>1 DEF Awaited, Names
  <2>6. Names(stack', 1) \subseteq Start'
    BY <1>2, <2>1, <2>3, <2>5 DEF Lineage
  <2>7. ASSUME NEW k \in 1 .. n
        PROVE  /\ Pending(stack'[k].doc) # {}
               /\ Awaited(stack', k) \in Files
               /\ Names(stack', k + 1) \subseteq NamedBy(Awaited(stack', k))
    <3>1. CASE k = n
      BY <2>1, <2>4, <2>5, <3>1
    <3>2. CASE k # n
      <4>1. k \in 1 .. n - 1 /\ k + 1 \in 1 .. n
        BY <2>1, <3>2
      <4> QED BY <1>2, <2>1, <2>5, <4>1 DEF Lineage, n
    <3> QED BY <3>1, <3>2
  <2>8. Lineage'
    <3>1. Len(stack') - 1 = n
      BY <2>1
    <3> QED BY <1>2, <2>3, <2>6, <2>7, <3>1 DEF Lineage, NamedBy
  <2> QED BY <1>1, <2>2, <2>8 DEF TypeInv
<1> QED BY <1>3, <1>4, <1>5

\* A splice: the frame below keeps its names but the one it waited for.
LEMMA SpliceFrames ==
  ASSUME TypeInv, Splice
  PROVE  /\ Len(stack) \in Nat /\ Len(stack) > 1 /\ Len(stack') = Len(stack) - 1
         /\ stack' \in Seq(Frame)
         /\ \A k \in 1 .. Len(stack) - 2 : stack'[k] = stack[k]
         /\ Names(stack, Len(stack)) = {}
         /\ Names(stack', Len(stack) - 1) \subseteq Names(stack, Len(stack) - 1)
         /\ Names(stack, Len(stack) - 1) \subseteq
              Names(stack', Len(stack) - 1) \cup {Awaited(stack, Len(stack) - 1)}
         /\ Pending(stack[Len(stack)].doc) = {}
         /\ stack'[Len(stack) - 1].base = stack[Len(stack) - 1].base
         /\ stack'[Len(stack) - 1].doc =
              Spliced(stack[Len(stack) - 1].doc, NextInclude(stack[Len(stack) - 1].doc), stack[Len(stack)].doc)
<1> DEFINE n == Len(stack)
           b == stack[n - 1]
           e == stack[n].doc
           i == NextInclude(b.doc)
           x == [b EXCEPT !.doc = Spliced(b.doc, i, e)]
<1>1. /\ phase = "resolving" /\ n > 1 /\ Pending(e) = {} /\ n \in Nat
      /\ stack' = Append(SubSeq(stack, 1, n - 2), x) /\ stack \in Seq(Frame)
  <2>1. /\ phase = "resolving" /\ n > 1 /\ Pending(e) = {}
        /\ stack' = Append(SubSeq(stack, 1, n - 2), x)
    BY DEF Splice, Top, Below
  <2>2. stack \in Seq(Frame)
    BY DEF TypeInv, TypeOK, Frame
  <2> QED BY <2>1, <2>2, LenProperties
<1>2. n - 1 \in 1 .. n - 1 /\ n - 1 \in 1 .. n /\ n \in 1 .. n
  BY <1>1
<1>3. b \in Frame /\ stack[n] \in Frame
  BY <1>1, <1>2, ElementOfSeq
<1>4. b.doc \in Document /\ e \in Document /\ b.base \in Seq(Segment)
  BY <1>3 DEF Frame
<1>5. Pending(b.doc) # {}
  BY <1>1, <1>2 DEF TypeInv, Lineage
<1>6. i \in DOMAIN b.doc
  BY <1>2, <1>5, NextFacts DEF TypeInv
<1>7. x \in Frame /\ x.base = b.base /\ x.doc = Spliced(b.doc, i, e)
  <2>1. Spliced(b.doc, i, e) \in Document
    BY <1>4, <1>6, SplicedItems
  <2> HIDE DEF i, e, b
  <2> QED BY <1>3, <2>1 DEF Frame
<1>8. /\ stack' \in Seq(Frame) /\ Len(stack') = n - 1 /\ stack'[n - 1] = x
      /\ \A k \in 1 .. n - 2 : stack'[k] = stack[k]
  <2> HIDE DEF x
  <2> QED BY <1>1, <1>7, PopFrame
<1>9. /\ Named(b.base, Spliced(b.doc, i, e)) \subseteq Named(b.base, b.doc)
      /\ Named(b.base, b.doc) \subseteq Named(b.base, Spliced(b.doc, i, e)) \cup {Resolved(b.base, b.doc[i])}
  <2> HIDE DEF i, e, b
  <2> QED BY <1>1, <1>4, <1>6, SplicedNames
<1>10. Names(stack', n - 1) = Named(b.base, Spliced(b.doc, i, e))
  BY <1>7, <1>8 DEF Names
<1>11. Names(stack, n - 1) = Named(b.base, b.doc) /\ Awaited(stack, n - 1) = Resolved(b.base, b.doc[i])
  BY DEF Names, Awaited
<1>12. Names(stack, n) = {}
  BY <1>1 DEF Names, Named, Pending
<1>13. stack'[n - 1].base = b.base /\ stack'[n - 1].doc = Spliced(b.doc, i, e) /\ Pending(e) = {}
  BY <1>1, <1>7, <1>8
<1>14. /\ n \in Nat /\ n > 1 /\ Len(stack') = n - 1
       /\ stack' \in Seq(Frame)
       /\ \A k \in 1 .. n - 2 : stack'[k] = stack[k]
       /\ Names(stack, n) = {}
       /\ Names(stack', n - 1) \subseteq Names(stack, n - 1)
       /\ Names(stack, n - 1) \subseteq Names(stack', n - 1) \cup {Awaited(stack, n - 1)}
  <2> HIDE DEF x, b, e, i
  <2> QED BY <1>1, <1>8, <1>9, <1>10, <1>11, <1>12
<1> HIDE DEF x
<1> QED BY <1>13, <1>14

LEMMA SpliceType ==
  ASSUME TypeInv, Splice
  PROVE  TypeInv'
<1> DEFINE n == Len(stack)
<1>1. CallStack'
  BY SpliceStack DEF TypeInv
<1>2. /\ phase = "resolving" /\ phase' = phase /\ disk' = disk /\ asked' = asked /\ Lineage
      /\ streams \in 0 .. MaxOpen /\ streams' = streams - 1
      /\ n = streams + 1 - asked.own /\ asked.own \in {0, 1}
  BY DEF Splice, Closed, TypeInv, TypeOK, CallStack, StreamPerCall
<1>3. /\ n \in Nat /\ n > 1 /\ Len(stack') = n - 1 /\ stack' \in Seq(Frame)
      /\ \A k \in 1 .. n - 2 : stack'[k] = stack[k]
      /\ Names(stack', n - 1) \subseteq Names(stack, n - 1)
  BY SpliceFrames
<1>4. streams' \in 0 .. MaxOpen
  BY <1>2, <1>3, OpenAssumption
<1>5. TypeOK'
  BY <1>2, <1>3, <1>4 DEF TypeOK, TypeInv, Frame
<1>6. Start' = Start /\ Files' = Files /\ \A f : NamedBy(f)' = NamedBy(f)
  BY <1>2, SameFiles
<1>7. \A k \in 1 .. n - 2 : Awaited(stack', k) = Awaited(stack, k) /\ Names(stack', k) = Names(stack, k)
  BY <1>3 DEF Awaited, Names
<1>8. \A k \in 1 .. n - 1 : Names(stack', k) \subseteq Names(stack, k)
  <2>1. \A k \in 1 .. n - 1 : k = n - 1 \/ k \in 1 .. n - 2
    <3>1. n \in Nat /\ n > 1
      BY <1>3
    <3> HIDE DEF n
    <3> QED BY <3>1
  <2> QED BY <1>3, <1>7, <2>1
<1>9. Names(stack', 1) \subseteq Start
  <2>1. 1 \in 1 .. n - 1
    BY <1>3
  <2> QED BY <1>2, <1>8, <2>1 DEF Lineage
<1>10. ASSUME NEW k \in 1 .. n - 2
       PROVE  /\ Pending(stack'[k].doc) # {}
              /\ Awaited(stack', k) \in Files
              /\ Names(stack', k + 1) \subseteq NamedBy(Awaited(stack', k))
  <2>1. k \in 1 .. n - 1 /\ k + 1 \in 1 .. n - 1
    BY <1>3
  <2>2. /\ Pending(stack[k].doc) # {}
        /\ Awaited(stack, k) \in Files
        /\ Names(stack, k + 1) \subseteq NamedBy(Awaited(stack, k))
    BY <1>2, <2>1 DEF Lineage
  <2>3. Names(stack', k + 1) \subseteq Names(stack, k + 1)
    BY <1>8, <2>1
  <2> QED BY <1>3, <1>7, <2>2, <2>3
<1>11. Lineage'
  <2>1. Len(stack') - 1 = n - 2
    BY <1>3
  <2> QED BY <1>2, <1>6, <1>9, <1>10, <2>1 DEF Lineage, NamedBy
<1> QED BY <1>1, <1>5, <1>11 DEF TypeInv

LEMMA NextType == TypeInv /\ [Next]_vars => TypeInv'
<1> SUFFICES ASSUME TypeInv, [Next]_vars PROVE TypeInv'
  OBVIOUS
<1>1. CASE \E f \in File, pre \in Pre, post \in Post : ParseFile(f, pre, post)
  BY <1>1, ParseFileType
<1>2. CASE \E d \in Text, pre \in Pre, post \in Post : ParseText(d, pre, post)
  BY <1>2, ParseTextType
<1>3. CASE OpenInclude
  BY <1>3, OpenIncludeType
<1>4. CASE Splice
  BY <1>4, SpliceType
<1>5. CASE Return
  <2>1. CallStack'
    BY <1>5, NextStack DEF TypeInv, Next, Resolve
  <2>2. TypeOK'
    BY <1>5, OpenAssumption DEF TypeInv, TypeOK, Return
  <2> QED BY <1>5, <2>1, <2>2 DEF TypeInv, Return
<1>6. CASE UNCHANGED vars
  <2>1. CallStack'
    BY <1>6, NextStack DEF TypeInv
  <2>2. TypeOK'
    BY <1>6 DEF TypeInv, TypeOK, vars
  <2>3. phase' = phase /\ stack' = stack /\ UNCHANGED <<disk, asked>>
    BY <1>6 DEF vars
  <2>4. Lineage => Lineage'
    BY <2>3 DEF Lineage, Files, Closes, Start, NamedBy
  <2> QED BY <2>1, <2>2, <2>3, <2>4 DEF TypeInv
<1> QED BY <1>1, <1>2, <1>3, <1>4, <1>5, <1>6 DEF Next, Resolve

LEMMA InitType == Init => TypeInv
<1> SUFFICES ASSUME Init PROVE TypeInv
  OBVIOUS
<1>1. CallStack
  BY InitStack
<1>2. PICK E \in SUBSET File : disk \in [E -> Text]
  BY DEF Init
<1>3. DOMAIN disk \subseteq File /\ \A f \in DOMAIN disk : disk[f] \in Text
  BY <1>2
<1>4. <<>> \in Seq(Segment) /\ <<>> \in Document /\ <<>> \in Seq([base : Seq(Segment), doc : Document])
  BY EmptySeq DEF Document
<1>5. TypeOK
  BY <1>3, <1>4, OpenAssumption DEF Init, TypeOK
<1> QED BY <1>1, <1>5 DEF TypeInv, Init

\* The documents being resolved are documents at every moment, whatever was spliced
\* into them, and no more files are open than the process can hold.
THEOREM TypesKept == Spec => []TypeOK
<1>1. Init => TypeInv
  BY InitType
<1>2. TypeInv /\ [Next]_vars => TypeInv'
  BY NextType
<1>3. TypeInv => TypeOK
  BY DEF TypeInv
<1> QED BY <1>1, <1>2, <1>3, PTL DEF Spec

----------------------------------------------------------------------------
(* Why a call gives up.                                                     *)

CauseInv == TypeInv /\ (phase = "start" => asked.text = <<>>) /\ RefusedWithCause

\* A file that cannot be opened is missing, or every stream is taken and the files
\* the calls wait for are a chain that long.
LEMMA NotOpened ==
  ASSUME TypeInv, OpenInclude, ~ Opens(Awaited(stack, Len(stack)))
  PROVE  \/ ~ Start \subseteq DOMAIN disk
         \/ \E f \in Files : ~ NamedBy(f) \subseteq DOMAIN disk
         \/ Chain(MaxOpen + 1 - asked.own)
<1> DEFINE n == Len(stack)
           f == Awaited(stack, n)
<1>1. /\ phase = "resolving" /\ Pending(stack[n].doc) # {} /\ n \in Nat /\ n \in 1 .. Len(stack)
      /\ n = streams + 1 - asked.own /\ Lineage
      /\ streams \in 0 .. MaxOpen /\ asked.own \in {0, 1}
  <2>1. phase = "resolving" /\ Pending(stack[n].doc) # {} /\ Lineage
    BY DEF OpenInclude, Top, TypeInv
  <2>2. /\ n \in 1 .. MaxOpen + 1 /\ n = streams + 1 - asked.own
        /\ streams \in 0 .. MaxOpen /\ asked.own \in {0, 1}
    BY <2>1 DEF TypeInv, CallStack, StreamPerCall, TypeOK
  <2> QED BY <2>1, <2>2, OpenAssumption
<1>2. /\ n = 1 => f \in Start
      /\ n # 1 => n - 1 \in 1 .. Len(stack) - 1 /\ f \in NamedBy(Awaited(stack, n - 1))
  BY <1>1, AwaitedFile
<1>3. CASE f \notin DOMAIN disk
  <2>1. CASE n = 1
    BY <1>2, <1>3, <2>1
  <2>2. CASE n # 1
    <3>1. Awaited(stack, n - 1) \in Files
      BY <1>1, <1>2, <2>2 DEF Lineage
    <3> QED BY <1>2, <1>3, <2>2, <3>1
  <2> QED BY <2>1, <2>2
<1>4. CASE f \in DOMAIN disk
  <2>1. n = MaxOpen + 1 - asked.own
    <3>1. ~ (streams < MaxOpen)
      BY <1>4 DEF Opens
    <3> QED BY <1>1, <3>1, OpenAssumption
  <2> DEFINE c == [k \in 1 .. n |-> Awaited(stack, k)]
  <2>2. \A k \in 1 .. n : Awaited(stack, k) \in DOMAIN disk
    <3> SUFFICES ASSUME NEW k \in 1 .. n PROVE Awaited(stack, k) \in DOMAIN disk
      OBVIOUS
    <3>1. CASE k = n
      BY <1>4, <3>1
    <3>2. CASE k # n
      <4>1. k \in 1 .. Len(stack) - 1
        BY <1>1, <3>2
      <4> QED BY <1>1, <4>1 DEF Lineage, Files
    <3> QED BY <3>1, <3>2
  <2>3. c \in [1 .. n -> DOMAIN disk]
    BY <2>2
  <2>4. \A k \in 1 .. n : Pending(stack[k].doc) # {}
    <3> SUFFICES ASSUME NEW k \in 1 .. n PROVE Pending(stack[k].doc) # {}
      OBVIOUS
    <3>1. CASE k # n
      <4>1. k \in 1 .. Len(stack) - 1
        BY <1>1, <3>1
      <4> QED BY <1>1, <4>1 DEF Lineage
    <3> QED BY <1>1, <3>1
  <2>5. c[1] \in Start
    <3>1. 1 \in 1 .. n
      BY <1>1
    <3>2. Awaited(stack, 1) \in Start
      BY <1>1, <2>4, <3>1, AwaitedFile
    <3> QED BY <3>1, <3>2
  <2>6. ASSUME NEW k \in 2 .. n PROVE c[k] \in NamedBy(c[k - 1])
    <3>1. k \in 1 .. n /\ k # 1 /\ k - 1 \in 1 .. n
      BY <1>1
    <3>2. Awaited(stack, k) \in NamedBy(Awaited(stack, k - 1))
      BY <1>1, <2>4, <3>1, AwaitedFile
    <3> QED BY <3>1, <3>2
  <2> HIDE DEF c, n
  <2>7. Chain(n)
    BY <2>3, <2>5, <2>6 DEF Chain
  <2> QED BY <2>1, <2>7
<1> QED BY <1>3, <1>4

LEMMA OpenIncludeCause ==
  ASSUME TypeInv, OpenInclude
  PROVE  RefusedWithCause'
<1> DEFINE f == Awaited(stack, Len(stack))
<1>1. UNCHANGED <<disk, asked>> /\ phase = "resolving" /\ Pending(stack[Len(stack)].doc) # {}
  BY DEF OpenInclude, Top
<1>2. SUFFICES ASSUME phase' = "thrown"
      PROVE  \/ ~ Start \subseteq DOMAIN disk
             \/ \E g \in Files : ~ Accepted(disk[g]) \/ ~ NamedBy(g) \subseteq DOMAIN disk
             \/ Chain(MaxOpen + 1 - asked.own)
  BY <1>1 DEF RefusedWithCause, Files, Closes, Start, NamedBy, Chain
<1>3. CASE Opens(f)
  <2>1. Enter(Dir(f), From(f, disk[f]))
    BY <1>3 DEF OpenInclude, Top, Awaited
  <2>2. ~ Accepted(From(f, disk[f]))
    BY <1>2, <2>1 DEF Enter
  <2>3. f \in DOMAIN disk
    BY <1>3 DEF Opens
  <2>4. f \in Seq(Segment) /\ disk[f] \in Document
    BY <2>3, DiskFacts DEF TypeInv
  <2>5. ~ Accepted(disk[f])
    BY <2>2, <2>4, AcceptedAnywhere
  <2>6. Len(stack) \in 1 .. Len(stack)
    <3>1. Len(stack) \in 1 .. MaxOpen + 1
      BY <1>1 DEF TypeInv, CallStack, StreamPerCall
    <3> QED BY <3>1, OpenAssumption
  <2>7. f \in Files
    BY <1>1, <2>3, <2>6, AwaitedFile
  <2> QED BY <2>5, <2>7
<1>4. CASE ~ Opens(f)
  BY <1>4, NotOpened
<1> QED BY <1>3, <1>4

\* A caller's document is refused for what it says, or its file is not opened and
\* there is no text at all.
LEMMA EntryCause ==
  ASSUME CauseInv,
         \/ \E f \in File, pre \in Pre, post \in Post : ParseFile(f, pre, post)
         \/ \E d \in Text, pre \in Pre, post \in Post : ParseText(d, pre, post)
  PROVE  RefusedWithCause'
<1>1. CASE \E f \in File, pre \in Pre, post \in Post : ParseFile(f, pre, post)
  <2>1. PICK f \in File, pre \in Pre, post \in Post : ParseFile(f, pre, post)
    BY <1>1
  <2>2. CASE Opens(f)
    <3>1. phase' = "thrown" => ~ Accepted(asked'.text)
      BY <2>1, <2>2 DEF ParseFile, Enter
    <3> QED BY <3>1 DEF RefusedWithCause
  <2>3. CASE ~ Opens(f)
    <3>1. asked' = asked
      BY <2>1, <2>3 DEF ParseFile
    <3>2. asked.text = <<>>
      BY <2>1 DEF CauseInv, ParseFile
    <3> QED BY <3>1, <3>2 DEF RefusedWithCause
  <2> QED BY <2>2, <2>3
<1>2. CASE \E d \in Text, pre \in Pre, post \in Post : ParseText(d, pre, post)
  <2>1. phase' = "thrown" => ~ Accepted(asked'.text)
    BY <1>2 DEF ParseText, Enter
  <2> QED BY <2>1 DEF RefusedWithCause
<1> QED BY <1>1, <1>2

LEMMA NextCause == CauseInv /\ [Next]_vars => CauseInv'
<1> SUFFICES ASSUME CauseInv, [Next]_vars PROVE CauseInv'
  OBVIOUS
<1>1. TypeInv'
  BY NextType DEF CauseInv
<1>2. phase' = "start" => phase = "start" /\ asked' = asked
  BY DEF Next, ParseFile, ParseText, Enter, Resolve, OpenInclude, Splice, Return, vars
<1>3. RefusedWithCause'
  <2>1. CASE \/ \E f \in File, pre \in Pre, post \in Post : ParseFile(f, pre, post)
             \/ \E d \in Text, pre \in Pre, post \in Post : ParseText(d, pre, post)
    BY <2>1, EntryCause
  <2>2. CASE OpenInclude
    BY <2>2, OpenIncludeCause DEF CauseInv
  <2>3. CASE Splice
    BY <2>3 DEF Splice, RefusedWithCause
  <2>4. CASE Return
    BY <2>4 DEF Return, RefusedWithCause
  <2>5. CASE UNCHANGED vars
    BY <2>5 DEF vars, CauseInv, RefusedWithCause, Files, Closes, Start, NamedBy, Chain
  <2> QED BY <2>1, <2>2, <2>3, <2>4, <2>5 DEF Next, Resolve
<1> QED BY <1>1, <1>2, <1>3 DEF CauseInv

\* A call that throws has met a missing file, a file that is no HIT document, or a
\* chain of includes longer than the files the process can hold open: no stream is
\* left open behind a call that has returned, which would refuse shorter chains.
THEOREM ThrowsHaveCause == Spec => []RefusedWithCause
<1>1. Init => CauseInv
  BY InitType DEF Init, CauseInv, RefusedWithCause
<1>2. CauseInv /\ [Next]_vars => CauseInv'
  BY NextCause
<1>3. CauseInv => RefusedWithCause
  BY DEF CauseInv
<1> QED BY <1>1, <1>2, <1>3, PTL DEF Spec

----------------------------------------------------------------------------
(* Files that include each other in a circle.                               *)

\* Whatever was spliced in so far, a document that names files of a circle goes on
\* naming one: its file stands open below until the circle is resolved.
Round(C) ==
  /\ Names(stack, 1) \cap C # {}
  /\ \A k \in 1 .. Len(stack) - 1 :
       Awaited(stack, k) \in C => Names(stack, k + 1) \cap C # {}

CircleInv ==
  /\ TypeInv
  /\ phase \in {"resolving", "returned"} =>
       \A C \in SUBSET DOMAIN disk : Circle(C) => Round(C)
  /\ phase = "returned" => Names(stack, 1) = {}

\* What a step does to one circle.
LEMMA EntryRound ==
  ASSUME TypeInv, NEW C, C \cap Start' # {}, phase' = "resolving",
         \/ \E f \in File, pre \in Pre, post \in Post : ParseFile(f, pre, post)
         \/ \E d \in Text, pre \in Pre, post \in Post : ParseText(d, pre, post)
  PROVE  Round(C)'
<1>1. Len(stack') = 1 /\ Names(stack', 1) = Start'
  <2>1. CASE \E f \in File, pre \in Pre, post \in Post : ParseFile(f, pre, post)
    <3>1. PICK f \in File, pre \in Pre, post \in Post : ParseFile(f, pre, post)
      BY <2>1
    <3> DEFINE d == From(f, pre \o disk[f] \o post)
    <3>2. /\ phase = "start" /\ f \in DOMAIN disk
          /\ Enter(Dir(f), d) /\ asked' = [base |-> Dir(f), own |-> 1, text |-> d]
      BY <3>1 DEF ParseFile, Opens
    <3>3. f \in Seq(Segment) /\ Dir(f) \in Seq(Segment) /\ disk[f] \in Document
      BY <3>2, DiskFacts DEF TypeInv
    <3>4. d \in Document
      BY <3>3, WrittenType
    <3> HIDE DEF d
    <3> QED BY <3>2, <3>3, <3>4, FirstFrame
  <2>2. CASE \E d \in Text, pre \in Pre, post \in Post : ParseText(d, pre, post)
    <3>1. PICK t \in Text, pre \in Pre, post \in Post : ParseText(t, pre, post)
      BY <2>2
    <3> DEFINE d == From(<<>>, pre \o t \o post)
    <3>2. /\ phase = "start" /\ Enter(<<>>, d)
          /\ asked' = [base |-> <<>>, own |-> 0, text |-> d]
      BY <3>1 DEF ParseText
    <3>3. <<>> \in Seq(Segment) /\ t \in Document
      BY EmptySeq, TextAssumption
    <3>4. d \in Document
      BY <3>3, WrittenType
    <3> HIDE DEF d
    <3> QED BY <3>2, <3>3, <3>4, FirstFrame
  <2> QED BY <2>1, <2>2
<1> QED BY <1>1 DEF Round

LEMMA OpenIncludeRound ==
  ASSUME TypeInv, OpenInclude, phase' = "resolving", NEW C,
         \A f \in C : NamedBy(f) \cap C # {}, Round(C)
  PROVE  Round(C)'
<1> DEFINE n == Len(stack)
<1>1. /\ n \in Nat \ {0} /\ Len(stack') = n + 1
      /\ \A k \in 1 .. n : stack'[k] = stack[k]
      /\ Names(stack', n + 1) = NamedBy(Awaited(stack, n))
  BY OpenIncludeFrames
<1> HIDE DEF n
<1>2. \A k \in 1 .. n : Awaited(stack', k) = Awaited(stack, k) /\ Names(stack', k) = Names(stack, k)
  BY <1>1 DEF Awaited, Names
<1>3. Names(stack', 1) \cap C # {}
  BY <1>1, <1>2 DEF Round
<1>4. ASSUME NEW k \in 1 .. n, Awaited(stack', k) \in C
      PROVE  Names(stack', k + 1) \cap C # {}
  <2>1. CASE k = n
    BY <1>1, <1>2, <1>4, <2>1
  <2>2. CASE k # n
    <3>1. k \in 1 .. n - 1 /\ k + 1 \in 1 .. n
      BY <1>1, <2>2
    <3> QED BY <1>2, <1>4, <3>1 DEF Round, n
  <2> QED BY <2>1, <2>2
<1>5. Len(stack') - 1 = n
  BY <1>1
<1> QED BY <1>3, <1>4, <1>5 DEF Round

\* The document spliced in names no file, so its own file is in no circle; any other
\* file of the circle that was named is named still.
LEMMA SpliceRound ==
  ASSUME TypeInv, Splice, NEW C, Round(C)
  PROVE  Round(C)'
<1> DEFINE n == Len(stack)
<1>1. /\ n \in Nat /\ n > 1 /\ Len(stack') = n - 1
      /\ \A k \in 1 .. n - 2 : stack'[k] = stack[k]
      /\ Names(stack, n) = {}
      /\ Names(stack, n - 1) \subseteq Names(stack', n - 1) \cup {Awaited(stack, n - 1)}
  BY SpliceFrames
<1>2. Awaited(stack, n - 1) \notin C
  <2>1. n - 1 \in 1 .. n - 1 /\ n - 1 + 1 = n
    BY <1>1
  <2> QED BY <1>1, <2>1 DEF Round
<1> HIDE DEF n
<1>3. n \in Nat /\ n > 1
  BY <1>1
<1>4. \A k \in 1 .. n - 2 : Awaited(stack', k) = Awaited(stack, k) /\ Names(stack', k) = Names(stack, k)
  BY <1>1 DEF Awaited, Names
<1>5. ASSUME NEW k \in 1 .. n - 1, Names(stack, k) \cap C # {}
      PROVE  Names(stack', k) \cap C # {}
  <2>1. CASE k = n - 1
    BY <1>1, <1>2, <1>5, <2>1
  <2>2. CASE k # n - 1
    <3>1. k \in 1 .. n - 2
      BY <1>3, <2>2
    <3> QED BY <1>4, <1>5, <3>1
  <2> QED BY <2>1, <2>2
<1>6. Names(stack', 1) \cap C # {}
  <2>1. 1 \in 1 .. n - 1
    BY <1>3
  <2> QED BY <1>5, <2>1 DEF Round
<1>7. ASSUME NEW k \in 1 .. n - 2, Awaited(stack', k) \in C
      PROVE  Names(stack', k + 1) \cap C # {}
  <2>1. k \in 1 .. n - 1 /\ k + 1 \in 1 .. n - 1
    BY <1>3
  <2>2. Names(stack, k + 1) \cap C # {}
    BY <1>4, <1>7, <2>1 DEF Round, n
  <2> QED BY <1>5, <2>1, <2>2
<1>8. Len(stack') - 1 = n - 2
  BY <1>1, <1>3
<1> QED BY <1>6, <1>7, <1>8 DEF Round

LEMMA NextCircle == CircleInv /\ [Next]_vars => CircleInv'
<1> SUFFICES ASSUME CircleInv, [Next]_vars PROVE CircleInv'
  OBVIOUS
<1>1. TypeInv' /\ TypeInv
  BY NextType DEF CircleInv
<1>2. CASE \/ \E f \in File, pre \in Pre, post \in Post : ParseFile(f, pre, post)
           \/ \E d \in Text, pre \in Pre, post \in Post : ParseText(d, pre, post)
  <2>1. phase' \in {"resolving", "thrown"}
    BY <1>2 DEF ParseFile, ParseText, Enter
  <2>2. ASSUME phase' = "resolving", NEW C, Circle(C)' PROVE Round(C)'
    <3>1. C \cap Start' # {}
      BY <2>2 DEF Circle
    <3> QED BY <1>1, <1>2, <2>2, <3>1, EntryRound
  <2> QED BY <1>1, <2>1, <2>2 DEF CircleInv
<1>3. CASE OpenInclude
  <2>1. phase' \in {"resolving", "thrown"} /\ UNCHANGED <<disk, asked>> /\ phase = "resolving"
    BY <1>3 DEF OpenInclude, Enter
  <2>2. ASSUME phase' = "resolving", NEW C \in SUBSET DOMAIN disk, Circle(C)' PROVE Round(C)'
    <3>1. Circle(C)
      BY <2>1, <2>2 DEF Circle, Start, NamedBy
    <3>2. Round(C) /\ \A f \in C : NamedBy(f) \cap C # {}
      BY <2>1, <3>1 DEF CircleInv, Circle
    <3> QED BY <1>1, <1>3, <2>2, <3>2, OpenIncludeRound
  <2> QED BY <1>1, <2>1, <2>2 DEF CircleInv
<1>4. CASE Splice
  <2>1. phase' = "resolving" /\ UNCHANGED <<disk, asked>> /\ phase = "resolving"
    BY <1>4 DEF Splice
  <2>2. ASSUME NEW C \in SUBSET DOMAIN disk, Circle(C)' PROVE Round(C)'
    <3>1. Circle(C)
      BY <2>1, <2>2 DEF Circle, Start, NamedBy
    <3>2. Round(C)
      BY <2>1, <3>1 DEF CircleInv
    <3> QED BY <1>1, <1>4, <3>2, SpliceRound
  <2> QED BY <1>1, <2>1, <2>2 DEF CircleInv
<1>5. CASE Return
  <2>1. /\ phase' = "returned" /\ UNCHANGED <<disk, asked, stack>> /\ phase = "resolving"
        /\ Pending(stack[1].doc) = {}
    BY <1>5 DEF Return, Top
  <2>2. Names(stack', 1) = {}
    BY <2>1 DEF Names, Named, Pending
  <2>3. ASSUME NEW C \in SUBSET DOMAIN disk, Circle(C)' PROVE Round(C)'
    <3>1. Circle(C)
      BY <2>1, <2>3 DEF Circle, Start, NamedBy
    <3> QED BY <2>1, <3>1 DEF CircleInv, Round
  <2> QED BY <1>1, <2>1, <2>2, <2>3 DEF CircleInv
<1>6. CASE UNCHANGED vars
  <2>1. phase' = phase /\ UNCHANGED <<disk, asked, stack>>
    BY <1>6 DEF vars
  <2>2. ASSUME NEW C \in SUBSET DOMAIN disk, Circle(C)', phase \in {"resolving", "returned"} PROVE Round(C)'
    <3>1. Circle(C)
      BY <2>1, <2>2 DEF Circle, Start, NamedBy
    <3> QED BY <2>1, <2>2, <3>1 DEF CircleInv, Round
  <2> QED BY <1>1, <2>1, <2>2 DEF CircleInv
<1> QED BY <1>2, <1>3, <1>4, <1>5, <1>6 DEF Next, Resolve

\* A tree is never returned for a text from which one can go on from include to
\* include for ever: a call whose files form a circle either throws or has not ended.
THEOREM CirclesRefused == Spec => []CyclesAreRefused
<1>1. Init => CircleInv
  BY InitType DEF Init, CircleInv
<1>2. CircleInv /\ [Next]_vars => CircleInv'
  BY NextCircle
<1>3. CircleInv => CyclesAreRefused
  BY DEF CircleInv, CyclesAreRefused, HasCycle, Round
<1> QED BY <1>1, <1>2, <1>3, PTL DEF Spec

----------------------------------------------------------------------------
(* What documents stand for.                                                *)

Readings == [Seq(Segment) -> Document]

LEMMA StandsForType ==
  ASSUME NEW base \in Seq(Segment), NEW t \in Item, NEW w \in Readings
  PROVE  StandsFor(base, t, w) \in Document
<1>1. CASE Is(t, "include")
  <2>1. t.path \in Seq(Segment)
    BY DEF Item
  <2>2. Resolved(base, t) \in Seq(Segment)
    BY <2>1, ConcatProperties DEF Resolved
  <2> QED BY <1>1, <2>2 DEF StandsFor, Readings
<1>2. CASE ~ Is(t, "include")
  BY <1>2 DEF StandsFor, Document
<1> QED BY <1>1, <1>2

\* How far the items up to n have been put together.
Joined(base, d, w, acc) ==
  acc = [n \in 0 .. Len(d) |-> IF n = 0 THEN <<>> ELSE acc[n - 1] \o StandsFor(base, d[n], w)]

LEMMA JoinedExists ==
  ASSUME NEW base \in Seq(Segment), NEW d \in Document, NEW w \in Readings
  PROVE  \E acc \in [0 .. Len(d) -> Document] : Joined(base, d, w, acc)
<1> DEFINE L == Len(d)
           S == Document
           st == [k \in 1 .. L |-> [s \in S |-> s \o StandsFor(base, d[k], w)]]
<1>1. L \in Nat /\ \A k \in 1 .. L : d[k] \in Item
  BY DocumentFacts
<1>2. st \in [1 .. L -> [S -> S]]
  <2>1. ASSUME NEW k \in 1 .. L, NEW s \in S PROVE s \o StandsFor(base, d[k], w) \in S
    <3>1. StandsFor(base, d[k], w) \in Document
      BY <1>1, StandsForType
    <3> QED BY <3>1, ConcatProperties DEF Document
  <2> HIDE DEF S, L
  <2> QED BY <2>1
<1>3. <<>> \in S
  BY EmptySeq DEF Document
<1>4. PICK g \in [0 .. L -> S] : Counts(g, L, <<>>, st)
  <2> HIDE DEF S, st, L
  <2> QED BY <1>1, <1>2, <1>3, Counted
<1>5. ASSUME NEW k \in 0 .. L
      PROVE  g[k] = IF k = 0 THEN <<>> ELSE g[k - 1] \o StandsFor(base, d[k], w)
  <2>1. g[k] = IF k = 0 THEN <<>> ELSE st[k][g[k - 1]]
    BY <1>4 DEF Counts
  <2>2. CASE k # 0
    <3>1. k \in 1 .. L /\ k - 1 \in 0 .. L
      BY <1>1, <2>2
    <3>2. g[k - 1] \in S
      BY <1>4, <3>1
    <3> HIDE DEF S
    <3> QED BY <2>1, <2>2, <3>1, <3>2
  <2> QED BY <2>1, <2>2
<1>6. Joined(base, d, w, g)
  BY <1>4, <1>5 DEF Joined
<1> QED BY <1>4, <1>6

JoinsTo(base, d, w, acc) ==
  /\ acc \in [0 .. Len(d) -> Document]
  /\ Expanded(base, d, w) = acc[Len(d)]
  /\ acc[0] = <<>>
  /\ \A n \in 1 .. Len(d) : acc[n] = acc[n - 1] \o StandsFor(base, d[n], w)

LEMMA ExpandedJoins ==
  ASSUME NEW base \in Seq(Segment), NEW d \in Document, NEW w \in Readings
  PROVE  \E acc : JoinsTo(base, d, w, acc)
<1> DEFINE g == CHOOSE acc : Joined(base, d, w, acc)
<1>0. Len(d) \in Nat
  BY DocumentFacts
<1>1. PICK a \in [0 .. Len(d) -> Document] : Joined(base, d, w, a)
  BY JoinedExists
<1>2. Joined(base, d, w, g)
  BY <1>1
<1>3. Expanded(base, d, w) = g[Len(d)]
  BY DEF Expanded, Joined
<1> HIDE DEF g
<1>4. g[0] = <<>> /\ \A n \in 1 .. Len(d) : g[n] = g[n - 1] \o StandsFor(base, d[n], w)
  <2> DEFINE go == [n \in 0 .. Len(d) |-> IF n = 0 THEN <<>> ELSE g[n - 1] \o StandsFor(base, d[n], w)]
  <2>1. g = go
    BY <1>2 DEF Joined
  <2>2. go[0] = <<>> /\ \A n \in 1 .. Len(d) : go[n] = g[n - 1] \o StandsFor(base, d[n], w)
    <3>1. 0 \in 0 .. Len(d) /\ \A n \in 1 .. Len(d) : n \in 0 .. Len(d) /\ n # 0
      BY <1>0
    <3> QED BY <3>1
  <2> HIDE DEF go
  <2> QED BY <2>1, <2>2
<1>5. g \in [0 .. Len(d) -> Document]
  <2> DEFINE D == {n \in 0 .. Len(d) : g[n] \in Document}
  <2>1. 0 \in D /\ D \in SUBSET (0 .. Len(d))
    <3>1. g[0] \in Document
      BY <1>4, EmptySeq DEF Document
    <3> QED BY <1>0, <3>1
  <2>2. ASSUME NEW n \in 1 .. Len(d), n - 1 \in D PROVE n \in D
    <3>1. g[n - 1] \in Document /\ d[n] \in Item /\ n \in 0 .. Len(d)
      BY <1>0, <2>2, DocumentFacts
    <3>2. StandsFor(base, d[n], w) \in Document
      BY <3>1, StandsForType
    <3>3. g[n] \in Document
      BY <1>4, <3>1, <3>2, ConcatProperties DEF Document
    <3> QED BY <3>1, <3>3
  <2>3. D = 0 .. Len(d)
    <3> HIDE DEF D
    <3> QED BY <1>0, <2>1, <2>2, UpToInduction
  <2>4. g = [n \in 0 .. Len(d) |-> g[n]]
    BY <1>2 DEF Joined
  <2> QED BY <2>3, <2>4
<1> QED BY <1>3, <1>4, <1>5 DEF JoinsTo

LEMMA ExpandedType ==
  ASSUME NEW base \in Seq(Segment), NEW d \in Document, NEW w \in Readings
  PROVE  Expanded(base, d, w) \in Document
<1>1. Len(d) \in 0 .. Len(d)
  BY DocumentFacts
<1>2. PICK acc : JoinsTo(base, d, w, acc)
  BY ExpandedJoins
<1> QED BY <1>1, <1>2 DEF JoinsTo

\* A document without an include stands for itself.
LEMMA ExpandedPlain ==
  ASSUME NEW base \in Seq(Segment), NEW d \in Document, NEW w \in Readings, Pending(d) = {}
  PROVE  Expanded(base, d, w) = d
<1> DEFINE L == Len(d)
<1>0. PICK acc : JoinsTo(base, d, w, acc)
  BY ExpandedJoins
<1>1. /\ acc \in [0 .. L -> Document]
      /\ Expanded(base, d, w) = acc[L]
      /\ acc[0] = <<>>
      /\ \A n \in 1 .. L : acc[n] = acc[n - 1] \o StandsFor(base, d[n], w)
  BY <1>0 DEF JoinsTo
<1>2. L \in Nat /\ DOMAIN d = 1 .. L /\ \A n \in 1 .. L : d[n] \in Item
  BY DocumentFacts
<1>3. \A n \in 1 .. L : StandsFor(base, d[n], w) = <<d[n]>>
  BY <1>2 DEF Pending, StandsFor
<1> DEFINE Same(n) == Len(acc[n]) = n /\ \A j \in 1 .. n : acc[n][j] = d[j]
           D == {n \in 0 .. L : Same(n)}
<1>4. 0 \in D /\ D \in SUBSET (0 .. L)
  BY <1>1, <1>2
<1>5. ASSUME NEW n \in 1 .. L, n - 1 \in D PROVE n \in D
  <2> DEFINE s == acc[n - 1]
             m == n - 1
  <2>1. s \in Seq(Item) /\ Len(s) = m /\ (\A j \in 1 .. m : s[j] = d[j]) /\ d[n] \in Item
    BY <1>1, <1>2, <1>5 DEF Document
  <2>2. acc[n] = s \o <<d[n]>>
    BY <1>1, <1>3
  <2> HIDE DEF s
  <2>3. <<d[n]>> \in Seq(Item) /\ Len(<<d[n]>>) = 1 /\ <<d[n]>>[1] = d[n]
    BY <2>1
  <2> DEFINE u == <<d[n]>>
  <2>4. u \in Seq(Item) /\ Len(u) = 1 /\ u[1] = d[n] /\ acc[n] = s \o u
    BY <2>2, <2>3
  <2> HIDE DEF u
  <2>5. Len(acc[n]) = m + 1 /\ \A j \in 1 .. m + 1 : acc[n][j] = IF j <= m THEN s[j] ELSE u[j - m]
    <3> HIDE DEF m
    <3>1. /\ Len(s \o u) = Len(s) + Len(u)
          /\ \A j \in 1 .. Len(s) + Len(u) : (s \o u)[j] = IF j <= Len(s) THEN s[j] ELSE u[j - Len(s)]
      BY <2>1, <2>4, ConcatProperties
    <3> QED BY <2>1, <2>4, <3>1
  <2>6. n \in Nat /\ m + 1 = n /\ n - m = 1
    BY <1>2
  <2>7. ASSUME NEW j \in 1 .. n PROVE acc[n][j] = d[j]
    <3>1. CASE j = n
      BY <2>4, <2>5, <2>6, <3>1
    <3>2. CASE j # n
      <4>1. j \in 1 .. m /\ j <= m
        BY <2>6, <3>2
      <4> QED BY <2>1, <2>5, <2>6, <4>1
    <3> QED BY <3>1, <3>2
  <2>8. n \in 0 .. L
    BY <1>2
  <2> QED BY <2>5, <2>6, <2>7, <2>8
<1>6. D = 0 .. L
  <2> HIDE DEF D, L
  <2> QED BY <1>2, <1>4, <1>5, UpToInduction
<1>7. Same(L) /\ acc[L] \in Seq(Item) /\ d \in Seq(Item)
  BY <1>1, <1>2, <1>6 DEF Document
<1>8. acc[L] = d
  BY <1>7, SeqEqual
<1> QED BY <1>1, <1>8

\* A document stands for the same when one of its includes is replaced by what the
\* include stands for.
LEMMA ExpandedSplice ==
  ASSUME NEW base \in Seq(Segment), NEW d \in Document, NEW e \in Document, NEW i \in DOMAIN d,
         NEW w \in Readings, Is(d[i], "include"), w[Resolved(base, d[i])] = e, Pending(e) = {}
  PROVE  Expanded(base, Spliced(d, i, e), w) = Expanded(base, d, w)
<1> DEFINE s == Spliced(d, i, e)
           n == Len(d)
           m == Len(e)
           P(t) == StandsFor(base, t, w)
<1>1. /\ n \in Nat /\ m \in Nat /\ DOMAIN d = 1 .. n /\ DOMAIN e = 1 .. m /\ i \in 1 .. n
      /\ \A k \in 1 .. n : d[k] \in Item
      /\ \A k \in 1 .. m : e[k] \in Item
  BY DocumentFacts
<1>2. /\ s \in Document /\ Len(s) = n - 1 + m
      /\ \A k \in 1 .. i - 1 : s[k] = d[k]
      /\ \A k \in 1 .. m : s[i - 1 + k] = e[k]
      /\ \A k \in i + 1 .. n : s[k - 1 + m] = d[k]
  BY SMTT(40), SplicedPlaces
<1> HIDE DEF s
<1>0. PICK a, b, c : JoinsTo(base, d, w, a) /\ JoinsTo(base, e, w, b) /\ JoinsTo(base, s, w, c)
  <2>1. (\E a : JoinsTo(base, d, w, a)) /\ (\E b : JoinsTo(base, e, w, b))
    BY ExpandedJoins
  <2>2. \E c : JoinsTo(base, s, w, c)
    BY <1>2, ExpandedJoins
  <2> QED BY <2>1, <2>2
<1>3. /\ a \in [0 .. n -> Document] /\ Expanded(base, d, w) = a[n] /\ a[0] = <<>>
      /\ \A k \in 1 .. n : a[k] = a[k - 1] \o P(d[k])
  BY <1>0 DEF JoinsTo
<1>4. /\ b \in [0 .. m -> Document] /\ Expanded(base, e, w) = b[m] /\ b[0] = <<>>
      /\ \A k \in 1 .. m : b[k] = b[k - 1] \o P(e[k])
  BY <1>0 DEF JoinsTo
<1>5. /\ c \in [0 .. Len(s) -> Document] /\ Expanded(base, s, w) = c[Len(s)] /\ c[0] = <<>>
      /\ \A k \in 1 .. Len(s) : c[k] = c[k - 1] \o P(s[k])
  BY <1>0 DEF JoinsTo
<1>6. b[m] = e /\ P(d[i]) = e
  BY <1>4, ExpandedPlain DEF StandsFor
<1>7. \A k \in 1 .. m : P(e[k]) \in Document
  BY <1>1, StandsForType
<1> HIDE DEF n, m, P
<1>8. c[i - 1] = a[i - 1]
  <2> DEFINE D == {k \in 0 .. i - 1 : c[k] = a[k]}
             h == i - 1
  <2>1. h \in Nat /\ 0 \in D /\ D \in SUBSET (0 .. h)
    BY <1>1, <1>3, <1>5
  <2>2. ASSUME NEW k \in 1 .. h, k - 1 \in D PROVE k \in D
    <3>1. k \in 1 .. n /\ k \in 1 .. Len(s) /\ k \in 1 .. i - 1 /\ k \in 0 .. i - 1
      BY <1>1, <1>2
    <3>2. c[k] = c[k - 1] \o P(s[k]) /\ a[k] = a[k - 1] \o P(d[k]) /\ s[k] = d[k]
      BY <1>2, <1>3, <1>5, <3>1
    <3> QED BY <2>2, <3>1, <3>2
  <2>3. D = 0 .. h
    <3> HIDE DEF D, h
    <3> QED BY <2>1, <2>2, UpToInduction
  <2>4. h \in D
    BY <2>1, <2>3
  <2> QED BY <2>4
<1>9. c[i - 1 + m] = a[i]
  <2> DEFINE D == {k \in 0 .. m : c[i - 1 + k] = a[i - 1] \o b[k]}
  <2>0. a[i - 1] \in Seq(Item)
    <3>1. i - 1 \in 0 .. n
      BY <1>1
    <3> QED BY <1>3, <3>1 DEF Document
  <2>1. 0 \in D /\ D \in SUBSET (0 .. m)
    <3>1. i - 1 + 0 = i - 1 /\ 0 \in 0 .. m
      BY <1>1
    <3>2. a[i - 1] \o <<>> = a[i - 1]
      BY <2>0, ConcatEmptySeq
    <3>3. c[i - 1 + 0] = a[i - 1] \o b[0]
      BY <1>4, <1>8, <3>1, <3>2
    <3> QED BY <3>1, <3>3
  <2>2. ASSUME NEW k \in 1 .. m, k - 1 \in D PROVE k \in D
    <3> DEFINE j == i - 1 + k
    <3>1. j \in 1 .. Len(s) /\ j - 1 = i - 1 + (k - 1) /\ k \in 0 .. m /\ k - 1 \in 0 .. m
      BY <1>1, <1>2
    <3>2. s[j] = e[k]
      BY <1>2
    <3> HIDE DEF j
    <3>3. c[j] = c[j - 1] \o P(e[k])
      BY <1>5, <3>1, <3>2
    <3>4. c[j - 1] = a[i - 1] \o b[k - 1]
      BY <2>2, <3>1
    <3>5. b[k] = b[k - 1] \o P(e[k]) /\ b[k - 1] \in Seq(Item) /\ P(e[k]) \in Seq(Item)
      BY <1>4, <1>7, <3>1 DEF Document
    <3>6. c[j] = a[i - 1] \o b[k]
      <4>1. (a[i - 1] \o b[k - 1]) \o P(e[k]) = a[i - 1] \o (b[k - 1] \o P(e[k]))
        <5> DEFINE x == a[i - 1]
                   y == b[k - 1]
                   z == P(e[k])
        <5>1. x \in Seq(Item) /\ y \in Seq(Item) /\ z \in Seq(Item)
          BY <2>0, <3>5
        <5> HIDE DEF x, y, z
        <5>2. (x \o y) \o z = x \o (y \o z)
          BY <5>1, ConcatAssociative
        <5> QED BY <5>2 DEF x, y, z
      <4> QED BY Zenon, <3>3, <3>4, <3>5, <4>1
    <3> QED BY <3>1, <3>6 DEF j
  <2>3. D = 0 .. m
    <3> HIDE DEF D
    <3> QED BY <1>1, <2>1, <2>2, UpToInduction
  <2>4. c[i - 1 + m] = a[i - 1] \o b[m]
    <3>1. m \in 0 .. m
      BY <1>1
    <3> QED BY <2>3, <3>1
  <2>5. c[i - 1 + m] = a[i - 1] \o e
    BY <1>6, <2>4
  <2>6. a[i] = a[i - 1] \o e
    BY <1>1, <1>3, <1>6
  <2> QED BY <2>5, <2>6
<1>10. c[n - 1 + m] = a[n]
  <2> DEFINE h == n - i
             D == {k \in 0 .. h : c[i + k - 1 + m] = a[i + k]}
  <2>1. h \in Nat /\ 0 \in D /\ D \in SUBSET (0 .. h)
    <3>1. h \in Nat /\ i + 0 - 1 + m = i - 1 + m /\ i + 0 = i
      BY <1>1
    <3> QED BY <1>9, <3>1
  <2>2. ASSUME NEW k \in 1 .. h, k - 1 \in D PROVE k \in D
    <3> DEFINE j == i + k
               x == i + k - 1 + m
    <3>1. /\ j \in i + 1 .. n /\ j \in 1 .. n /\ x \in 1 .. Len(s) /\ x = j - 1 + m
          /\ x - 1 = i + (k - 1) - 1 + m /\ j - 1 = i + (k - 1) /\ k \in 0 .. h
      BY <1>1, <1>2
    <3>2. c[x - 1] = a[j - 1]
      BY <2>2, <3>1
    <3> HIDE DEF j, x
    <3>3. c[x] = c[x - 1] \o P(s[x]) /\ a[j] = a[j - 1] \o P(d[j]) /\ s[x] = d[j]
      BY <1>2, <1>3, <1>5, <3>1
    <3>4. c[x] = a[j]
      BY <3>2, <3>3
    <3> QED BY <3>1, <3>4 DEF j, x
  <2>3. D = 0 .. h
    <3> HIDE DEF D, h
    <3> QED BY <2>1, <2>2, UpToInduction
  <2>4. h \in D
    BY <2>1, <2>3
  <2>5. i + h = n /\ i + h - 1 + m = n - 1 + m
    BY <1>1
  <2> HIDE DEF h
  <2> QED BY <2>4, <2>5
<1> QED BY <1>2, <1>3, <1>5, <1>10 DEF s

LEMMA WholeFacts ==
  ASSUME TypeOK
  PROVE  /\ \A k \in 0 .. MaxOpen : Whole[k] \in Readings
         /\ \A k \in 1 .. MaxOpen, f \in DOMAIN disk :
              Whole[k][f] = Expanded(FrameOf(f).base, FrameOf(f).doc, Whole[k - 1])
<1> DEFINE L == MaxOpen
           S == Readings
           Next1(w) == [f \in Seq(Segment) |->
                          IF f \notin DOMAIN disk THEN <<>>
                          ELSE Expanded(Dir(f), Settled[From(f, disk[f])], w)]
           none == [f \in Seq(Segment) |-> <<>>]
           st == [k \in 1 .. L |-> [w \in S |-> Next1(w)]]
           Solution(g) == g = [k \in 0 .. MaxOpen |-> [f \in Seq(Segment) |->
                            IF k = 0 \/ f \notin DOMAIN disk THEN <<>>
                            ELSE Expanded(Dir(f), Settled[From(f, disk[f])], g[k - 1])]]
<1>0. L \in Nat /\ <<>> \in Document
  BY OpenAssumption, EmptySeq DEF Document
<1>1. ASSUME NEW w \in S PROVE Next1(w) \in S
  <2>1. ASSUME NEW f \in DOMAIN disk PROVE Expanded(Dir(f), Settled[From(f, disk[f])], w) \in Document
    <3>1. f \in Seq(Segment) /\ Dir(f) \in Seq(Segment) /\ disk[f] \in Document
      BY DiskFacts
    <3>2. Settled[From(f, disk[f])] \in Document
      BY <3>1, FromFacts, SettledType
    <3> QED BY <3>1, <3>2, ExpandedType
  <2> QED BY <1>0, <2>1 DEF Readings
<1>2. st \in [1 .. L -> [S -> S]]
  <2> HIDE DEF S, Next1, L
  <2> QED BY <1>1
<1>3. none \in S
  BY <1>0 DEF Readings
<1>4. PICK h \in [0 .. L -> S] : Counts(h, L, none, st)
  <2> HIDE DEF S, st, L, none
  <2> QED BY <1>0, <1>2, <1>3, Counted
<1>5. ASSUME NEW k \in 0 .. L
      PROVE  h[k] = IF k = 0 THEN none ELSE Next1(h[k - 1])
  <2>1. h[k] = IF k = 0 THEN none ELSE st[k][h[k - 1]]
    BY <1>4 DEF Counts
  <2>2. CASE k # 0
    <3>1. k \in 1 .. L /\ k - 1 \in 0 .. L
      BY <1>0, <2>2
    <3>2. h[k - 1] \in S
      BY <1>4, <3>1
    <3> HIDE DEF S, Next1
    <3> QED BY <2>1, <2>2, <3>1, <3>2
  <2> QED BY <2>1, <2>2
<1>6. Solution(h)
  <2>1. ASSUME NEW k \in 0 .. L
        PROVE  h[k] = [f \in Seq(Segment) |->
                            IF k = 0 \/ f \notin DOMAIN disk THEN <<>>
                            ELSE Expanded(Dir(f), Settled[From(f, disk[f])], h[k - 1])]
    <3>1. CASE k = 0
      BY <1>5, <3>1
    <3>2. CASE k # 0
      BY <1>5, <3>2
    <3> QED BY <3>1, <3>2
  <2>2. h = [k \in 0 .. L |-> h[k]]
    BY <1>4
  <2> HIDE DEF L
  <2> QED BY <2>1, <2>2 DEF L
<1>7. Whole = CHOOSE g : Solution(g)
  BY DEF Whole
<1>8. Solution(Whole)
  <2> HIDE DEF Solution
  <2> QED BY <1>6, <1>7
<1> DEFINE Step(k) == [f \in Seq(Segment) |->
                         IF k = 0 \/ f \notin DOMAIN disk THEN <<>>
                         ELSE Expanded(Dir(f), Settled[From(f, disk[f])], Whole[k - 1])]
<1>9. ASSUME NEW k \in 0 .. L PROVE Whole[k] = Step(k)
  BY <1>8
<1>10. \A k \in 0 .. L : Whole[k] \in Readings
  <2> DEFINE D == {k \in 0 .. L : Whole[k] \in Readings}
  <2>1. 0 \in D /\ D \in SUBSET (0 .. L)
    <3>1. 0 \in 0 .. L /\ Step(0) = none
      BY <1>0
    <3>2. Whole[0] \in Readings
      BY <1>3, <1>9, <3>1
    <3> QED BY <3>1, <3>2
  <2>2. ASSUME NEW k \in 1 .. L, k - 1 \in D PROVE k \in D
    <3>1. k \in 0 .. L /\ k # 0 /\ Whole[k - 1] \in S
      BY <1>0, <2>2
    <3>2. Step(k) = Next1(Whole[k - 1])
      BY <3>1
    <3>3. Whole[k] \in Readings
      <4> HIDE DEF Step, Next1
      <4> QED BY <1>1, <1>9, <3>1, <3>2
    <3> QED BY <3>1, <3>3
  <2>3. D = 0 .. L
    <3> HIDE DEF D, L
    <3> QED BY <1>0, <2>1, <2>2, UpToInduction
  <2> QED BY <2>3
<1>11. ASSUME NEW k \in 1 .. L, NEW f \in DOMAIN disk
       PROVE  Whole[k][f] = Expanded(FrameOf(f).base, FrameOf(f).doc, Whole[k - 1])
  <2>1. f \in Seq(Segment)
    BY DiskFacts
  <2>2. k \in 0 .. L /\ k # 0
    BY <1>0
  <2>3. Step(k)[f] = Expanded(Dir(f), Settled[From(f, disk[f])], Whole[k - 1])
    BY <2>1, <2>2
  <2>4. Whole[k][f] = Step(k)[f]
    <3> HIDE DEF Step
    <3> QED BY <1>9, <2>2
  <2>5. FrameOf(f).base = Dir(f) /\ FrameOf(f).doc = Settled[From(f, disk[f])]
    BY DEF FrameOf
  <2> QED BY <2>3, <2>4, <2>5
<1> QED BY <1>10, <1>11

----------------------------------------------------------------------------
(* The documents on the stack stand for what their texts stand for.         *)

\* What frame k stands for: its includes are read no deeper than files are left.
Stands(s, whole, k) == Expanded(s[k].base, s[k].doc, whole[MaxOpen + 1 - k])

\* However far the includes of each frame are resolved, the outermost document stands
\* for what the call was asked for, and every other one for what the file stands for
\* that the frame below waits for.
InPlace ==
  /\ Stands(stack, Whole, 1) = Meaning
  /\ \A k \in 1 .. Len(stack) - 1 :
       Whole[MaxOpen + 1 - k][Awaited(stack, k)] = Stands(stack, Whole, k + 1)

PlaceInv ==
  /\ TypeInv
  /\ phase = "resolving" => InPlace
  /\ phase = "returned" => stack[1].doc = Meaning

LEMMA SameWhole ==
  ASSUME disk' = disk
  PROVE  Whole' = Whole
BY DEF Whole

LEMMA FirstInPlace ==
  ASSUME NEW base, NEW d, disk' = disk, asked'.base = base, asked'.text = d,
         Len(stack') = 1, stack'[1] = [base |-> base, doc |-> Settled[d]]
  PROVE  InPlace'
<1>1. MaxOpen + 1 - 1 = MaxOpen /\ 1 .. Len(stack') - 1 = {}
  BY OpenAssumption
<1>2. Stands(stack', Whole', 1) = Expanded(base, Settled[d], Whole'[MaxOpen])
  BY <1>1 DEF Stands
<1>3. Meaning' = Expanded(base, Settled[d], Whole'[MaxOpen])
  BY DEF Meaning
<1> QED BY <1>1, <1>2, <1>3 DEF InPlace

LEMMA EntryPlace ==
  ASSUME TypeInv, phase' = "resolving",
         \/ \E f \in File, pre \in Pre, post \in Post : ParseFile(f, pre, post)
         \/ \E d \in Text, pre \in Pre, post \in Post : ParseText(d, pre, post)
  PROVE  InPlace'
<1>1. CASE \E f \in File, pre \in Pre, post \in Post : ParseFile(f, pre, post)
  <2>1. PICK f \in File, pre \in Pre, post \in Post : ParseFile(f, pre, post)
    BY <1>1
  <2> DEFINE d == From(f, pre \o disk[f] \o post)
  <2>2. /\ phase = "start" /\ f \in DOMAIN disk /\ disk' = disk
        /\ Enter(Dir(f), d) /\ asked' = [base |-> Dir(f), own |-> 1, text |-> d]
    BY <2>1 DEF ParseFile, Opens
  <2>3. f \in Seq(Segment) /\ Dir(f) \in Seq(Segment) /\ disk[f] \in Document
    BY <2>2, DiskFacts DEF TypeInv
  <2>4. d \in Document
    BY <2>3, WrittenType
  <2> HIDE DEF d
  <2>5. asked'.base = Dir(f) /\ asked'.text = d
    BY <2>2
  <2>6. Len(stack') = 1 /\ stack'[1] = [base |-> Dir(f), doc |-> Settled[d]]
    BY <2>2, <2>3, <2>4, <2>5, FirstFrame
  <2> QED BY <2>2, <2>5, <2>6, FirstInPlace
<1>2. CASE \E d \in Text, pre \in Pre, post \in Post : ParseText(d, pre, post)
  <2>1. PICK t \in Text, pre \in Pre, post \in Post : ParseText(t, pre, post)
    BY <1>2
  <2> DEFINE d == From(<<>>, pre \o t \o post)
             base == <<>>
  <2>2. /\ phase = "start" /\ Enter(base, d) /\ disk' = disk
        /\ asked' = [base |-> base, own |-> 0, text |-> d]
    BY <2>1 DEF ParseText
  <2>3. base \in Seq(Segment) /\ t \in Document
    BY EmptySeq, TextAssumption
  <2>4. d \in Document
    BY <2>3, WrittenType
  <2> HIDE DEF d, base
  <2>5. asked'.base = base /\ asked'.text = d
    BY <2>2
  <2>6. Len(stack') = 1 /\ stack'[1] = [base |-> base, doc |-> Settled[d]]
    BY <2>2, <2>3, <2>4, <2>5, FirstFrame
  <2> QED BY <2>2, <2>5, <2>6, FirstInPlace
<1> QED BY <1>1, <1>2

LEMMA SameMeaning ==
  ASSUME UNCHANGED <<disk, asked>>
  PROVE  Meaning' = Meaning /\ Whole' = Whole
<1>1. Whole' = Whole
  BY SameWhole
<1> QED BY <1>1 DEF Meaning

LEMMA OpenIncludePlace ==
  ASSUME TypeInv, OpenInclude, phase' = "resolving", InPlace
  PROVE  InPlace'
<1> DEFINE n == Len(stack)
           f == Awaited(stack, n)
<1>1. /\ n \in Nat \ {0} /\ Len(stack') = n + 1
      /\ \A k \in 1 .. n : stack'[k] = stack[k]
      /\ f \in DOMAIN disk /\ stack'[n + 1] = FrameOf(f)
  BY OpenIncludeFrames
<1>2. UNCHANGED <<disk, asked>> /\ Opens(f) /\ phase = "resolving"
  BY DEF OpenInclude, Enter, Top, Awaited
<1>3. n <= MaxOpen
  <2>1. streams < MaxOpen /\ Len(stack) = streams + 1 - asked.own
        /\ asked.own \in {0, 1} /\ streams \in Nat
    BY <1>2 DEF Opens, TypeInv, CallStack, StreamPerCall
  <2> QED BY <2>1, OpenAssumption
<1>4. Meaning' = Meaning /\ Whole' = Whole
  BY <1>2, SameMeaning
<1> HIDE DEF n, f
<1>5. \A k \in 1 .. n : /\ Stands(stack', Whole, k) = Stands(stack, Whole, k)
                        /\ Awaited(stack', k) = Awaited(stack, k)
  BY <1>1 DEF Stands, Awaited
<1>6. Stands(stack', Whole, 1) = Meaning
  <2>1. 1 \in 1 .. n
    BY <1>1
  <2> QED BY <1>5, <2>1 DEF InPlace
<1>7. ASSUME NEW k \in 1 .. n
      PROVE  Whole[MaxOpen + 1 - k][Awaited(stack', k)] = Stands(stack', Whole, k + 1)
  <2>1. CASE k = n
    <3> DEFINE h == MaxOpen + 1 - n
    <3>1. h \in 1 .. MaxOpen /\ MaxOpen + 1 - (n + 1) = h - 1
      BY <1>1, <1>3, OpenAssumption
    <3>2. Awaited(stack', k) = f
      BY <1>5, <2>1 DEF f
    <3>3. Whole[h][f] = Expanded(FrameOf(f).base, FrameOf(f).doc, Whole[h - 1])
      BY <1>1, <3>1, WholeFacts DEF TypeInv
    <3>4. Stands(stack', Whole, n + 1) = Expanded(FrameOf(f).base, FrameOf(f).doc, Whole[h - 1])
      BY <1>1, <3>1 DEF Stands
    <3> QED BY <2>1, <3>2, <3>3, <3>4
  <2>2. CASE k # n
    <3>1. k \in 1 .. n - 1 /\ k + 1 \in 1 .. n
      BY <1>1, <2>2
    <3> QED BY <1>5, <3>1 DEF InPlace, n
  <2> QED BY <2>1, <2>2
<1>8. Len(stack') - 1 = n
  BY <1>1
<1> QED BY <1>4, <1>6, <1>7, <1>8 DEF InPlace

LEMMA SplicePlace ==
  ASSUME TypeInv, Splice, InPlace
  PROVE  InPlace'
<1> DEFINE n == Len(stack)
           p == n - 1
           d == stack[p].doc
           e == stack[n].doc
           i == NextInclude(d)
           base == stack[p].base
           w == Whole[MaxOpen + 1 - p]
<1>1. /\ n \in Nat /\ n > 1 /\ Len(stack') = p
      /\ \A k \in 1 .. n - 2 : stack'[k] = stack[k]
      /\ Pending(e) = {}
      /\ stack'[p].base = base
      /\ stack'[p].doc = Spliced(d, i, e)
  BY SpliceFrames
<1>2. UNCHANGED <<disk, asked>> /\ phase = "resolving"
  BY DEF Splice
<1>3. n <= MaxOpen + 1 /\ MaxOpen \in Nat
  BY <1>2, OpenAssumption DEF TypeInv, CallStack, StreamPerCall
<1>4. Meaning' = Meaning /\ Whole' = Whole
  BY <1>2, SameMeaning
<1>5. p \in 1 .. n /\ n \in 1 .. n /\ p \in 1 .. n - 1 /\ p + 1 = n
  BY <1>1
<1>6. d \in Document /\ base \in Seq(Segment) /\ e \in Document /\ stack[n].base \in Seq(Segment)
  BY <1>5, FrameFacts DEF TypeInv
<1>7. i \in DOMAIN d /\ Is(d[i], "include") /\ Awaited(stack, p) = Resolved(base, d[i])
  <2>1. Pending(d) # {}
    BY <1>2, <1>5 DEF TypeInv, Lineage
  <2>2. i \in Pending(d)
    BY <1>6, <2>1, NextIsPending, DocumentFacts
  <2> QED BY <2>2 DEF Pending, Awaited
<1>8. w \in Readings /\ Whole[MaxOpen + 1 - n] \in Readings
  <2>1. MaxOpen + 1 - p \in 0 .. MaxOpen /\ MaxOpen + 1 - n \in 0 .. MaxOpen
    BY <1>1, <1>3
  <2> QED BY <2>1, WholeFacts DEF TypeInv
<1>9. Stands(stack, Whole, n) = e
  BY <1>1, <1>6, <1>8, ExpandedPlain DEF Stands
<1>10. w[Resolved(base, d[i])] = e
  <2>1. w[Awaited(stack, p)] = Stands(stack, Whole, p + 1)
    BY <1>5 DEF InPlace
  <2> QED BY <1>5, <1>7, <1>9, <2>1
<1> HIDE DEF d, e, i, base
<1>11. Stands(stack', Whole, p) = Stands(stack, Whole, p)
  <2>1. Stands(stack', Whole, p) = Expanded(base, Spliced(d, i, e), w)
    BY <1>1 DEF Stands
  <2>2. Stands(stack, Whole, p) = Expanded(base, d, w)
    BY DEF Stands, d, base
  <2> HIDE DEF w
  <2>3. Expanded(base, Spliced(d, i, e), w) = Expanded(base, d, w)
    BY <1>1, <1>6, <1>7, <1>8, <1>10, ExpandedSplice
  <2> QED BY <2>1, <2>2, <2>3
<1> HIDE DEF p, w
<1>12. \A k \in 1 .. n - 2 : /\ Stands(stack', Whole, k) = Stands(stack, Whole, k)
                             /\ Awaited(stack', k) = Awaited(stack, k)
  BY <1>1 DEF Stands, Awaited
<1>13. ASSUME NEW k \in 1 .. p PROVE Stands(stack', Whole, k) = Stands(stack, Whole, k)
  <2>1. k = p \/ k \in 1 .. n - 2
    BY <1>1, <1>5
  <2> QED BY <1>11, <1>12, <2>1
<1>14. Stands(stack', Whole, 1) = Meaning
  <2>1. 1 \in 1 .. p
    BY <1>5
  <2> QED BY <1>13, <2>1 DEF InPlace
<1>15. ASSUME NEW k \in 1 .. n - 2
       PROVE  Whole[MaxOpen + 1 - k][Awaited(stack', k)] = Stands(stack', Whole, k + 1)
  <2>1. k \in 1 .. n - 1 /\ k + 1 \in 1 .. p
    BY <1>1, <1>5
  <2>2. Whole[MaxOpen + 1 - k][Awaited(stack, k)] = Stands(stack, Whole, k + 1)
    BY <2>1 DEF InPlace, n
  <2> QED BY <1>12, <1>13, <2>1, <2>2
<1>16. Len(stack') - 1 = n - 2
  BY <1>1, <1>5
<1> QED BY <1>4, <1>14, <1>15, <1>16 DEF InPlace

LEMMA NextPlace == PlaceInv /\ [Next]_vars => PlaceInv'
<1> SUFFICES ASSUME PlaceInv, [Next]_vars PROVE PlaceInv'
  OBVIOUS
<1>1. TypeInv' /\ TypeInv
  BY NextType DEF PlaceInv
<1>2. CASE \/ \E f \in File, pre \in Pre, post \in Post : ParseFile(f, pre, post)
           \/ \E d \in Text, pre \in Pre, post \in Post : ParseText(d, pre, post)
  <2>1. phase' \in {"resolving", "thrown"}
    BY <1>2 DEF ParseFile, ParseText, Enter
  <2>2. phase' = "resolving" => InPlace'
    BY <1>1, <1>2, EntryPlace
  <2> QED BY <1>1, <2>1, <2>2 DEF PlaceInv
<1>3. CASE OpenInclude
  <2>1. phase' \in {"resolving", "thrown"} /\ phase = "resolving"
    BY <1>3 DEF OpenInclude, Enter
  <2>2. phase' = "resolving" => InPlace'
    BY <1>1, <1>3, <2>1, OpenIncludePlace DEF PlaceInv
  <2> QED BY <1>1, <2>1, <2>2 DEF PlaceInv
<1>4. CASE Splice
  <2>1. phase' = "resolving" /\ phase = "resolving"
    BY <1>4 DEF Splice
  <2>2. InPlace'
    BY <1>1, <1>4, <2>1, SplicePlace DEF PlaceInv
  <2> QED BY <1>1, <2>1, <2>2 DEF PlaceInv
<1>5. CASE Return
  <2>1. /\ phase' = "returned" /\ UNCHANGED <<disk, asked, stack>> /\ phase = "resolving"
        /\ Pending(stack[1].doc) = {} /\ Len(stack) = 1
    BY <1>5 DEF Return, Top
  <2>2. stack[1].base \in Seq(Segment) /\ stack[1].doc \in Document
    <3>1. 1 \in 1 .. Len(stack)
      BY <2>1
    <3> QED BY <1>1, <3>1, FrameFacts DEF TypeInv
  <2>3. MaxOpen + 1 - 1 = MaxOpen /\ Whole[MaxOpen] \in Readings
    <3>1. MaxOpen \in 0 .. MaxOpen /\ MaxOpen + 1 - 1 = MaxOpen
      BY OpenAssumption
    <3> QED BY <1>1, <3>1, WholeFacts DEF TypeInv
  <2>4. Stands(stack, Whole, 1) = stack[1].doc
    BY <2>1, <2>2, <2>3, ExpandedPlain DEF Stands
  <2>5. stack[1].doc = Meaning
    BY <2>1, <2>4 DEF PlaceInv, InPlace
  <2>6. Meaning' = Meaning
    BY <2>1, SameMeaning
  <2> QED BY <1>1, <2>1, <2>5, <2>6 DEF PlaceInv
<1>6. CASE UNCHANGED vars
  <2>1. phase' = phase /\ UNCHANGED <<disk, asked, stack>>
    BY <1>6 DEF vars
  <2>2. Meaning' = Meaning /\ Whole' = Whole
    BY <2>1, SameMeaning
  <2>3. InPlace => InPlace'
    BY <2>1, <2>2 DEF InPlace, Stands, Awaited
  <2> QED BY <1>1, <2>1, <2>2, <2>3 DEF PlaceInv
<1> QED BY <1>2, <1>3, <1>4, <1>5, <1>6 DEF Next, Resolve

\* Whatever the files hold and however they include each other, the tree returned is
\* the text that was asked for with every include replaced, in place, by what its file
\* stands for.
THEOREM IncludesStandInPlace == Spec => []IncludesInPlace
<1>1. Init => PlaceInv
  BY InitType DEF Init, PlaceInv
<1>2. PlaceInv /\ [Next]_vars => PlaceInv'
  BY NextPlace
<1>3. PlaceInv => IncludesInPlace
  BY DEF PlaceInv, IncludesInPlace
<1> QED BY <1>1, <1>2, <1>3, PTL DEF Spec
====
