---- MODULE Lexer_proofs ----
(***************************************************************************)
(* For every text: the brace counter of the scanner, DepthIsOfThisValue;   *)
(* the values on the parser's stack, ValuesHaveTheirType; and what the     *)
(* scanner hands to the parser, TokensAreTheText.                          *)
(*                                                                         *)
(* The counter: every rule that opens a brace begins a brace condition,    *)
(* every rule that closes one is a rule of a brace condition and leaves it *)
(* only when the counter comes to zero, and no other rule crosses the      *)
(* border.                                                                 *)
(*                                                                         *)
(* The stack: a step down it goes from a state to one it can lie on        *)
(* (ParserStates).  So what is below the right-hand side of a rule is one  *)
(* of the states Down names, all of which go to a state of the rule's      *)
(* left-hand side; and the type of a look-ahead is the one its token code  *)
(* says because each rule of the scanner gives it the value it should.     *)
(*                                                                         *)
(* The tokens: every pattern matches what is there, the place is that of   *)
(* the next character after each match, what yymore() keeps and what a     *)
(* bare value has gathered is the text since its first character.  Only a  *)
(* `$` at the very end of the text escapes, and nothing comes behind it.   *)
(***************************************************************************)
EXTENDS Lexer, ParserStates, Recursion, SequenceTheorems, FunctionTheorems, TLAPS

----------------------------------------------------------------------------
(* Counting lines and columns.                                              *)

LEMMA MaxThere ==
  ASSUME NEW n \in Nat, NEW T \in SUBSET (0 .. n), T # {}
  PROVE  Max(T) \in T /\ \A y \in T : Max(T) >= y
<1> DEFINE U == {n - y : y \in T}
<1>1. U \subseteq Nat /\ U # {}
  <2>1. \A y \in T : n - y \in Nat
    <3> TAKE y \in T
    <3>1. y \in 0 .. n
      OBVIOUS
    <3> QED
      BY <3>1
  <2>2. PICK y \in T : TRUE
    OBVIOUS
  <2>3. n - y \in U
    OBVIOUS
  <2> QED
    BY <2>1, <2>3
<1>2. PICK u \in U : \A v \in U : u <= v
  BY <1>1, LeastElement
<1>3. PICK x \in T : u = n - x
  BY <1>2
<1>4. \A y \in T : x >= y
  <2> TAKE y \in T
  <2>1. n - y \in U
    OBVIOUS
  <2>2. u <= n - y
    BY <1>2, <2>1
  <2> QED
    BY <1>3, <2>2
<1> QED
  BY <1>4 DEF Max

LEMMA MaxIs ==
  ASSUME NEW n \in Nat, NEW T \in SUBSET (0 .. n), NEW x \in T, \A y \in T : x >= y
  PROVE  Max(T) = x
<1>1. Max(T) \in T /\ Max(T) >= x
  BY MaxThere
<1>2. x >= Max(T)
  BY <1>1
<1>3. x \in 0 .. n /\ Max(T) \in 0 .. n
  BY <1>1
<1> QED
  BY <1>1, <1>2, <1>3

LEMMA MinThere ==
  ASSUME NEW T, T \subseteq Nat, T # {}
  PROVE  Min(T) \in T /\ \A y \in T : Min(T) <= y
<1>1. \E x \in T : \A y \in T : x =< y
  BY LeastElement
<1> QED
  BY <1>1 DEF Min

\* The line ends from a up to b.
Ends(a, b) == {q \in a .. b - 1 : text[q] = "nl"}
\* Line and column of place p of text t.
Spot(t, p) ==
  LET nls == {q \in 1 .. p - 1 : t[q] = "nl"}
  IN  <<1 + Cardinality(nls), p - Max({0} \cup nls)>>

LEMMA SpotIs ==
  \A p : Spot(text, p) = <<1 + Cardinality(Ends(1, p)), p - Max({0} \cup Ends(1, p))>>
  BY DEF Spot, Ends

LEMMA EndsFinite == ASSUME NEW a \in Nat, NEW b \in Nat
  PROVE  IsFiniteSet(Ends(a, b)) /\ Cardinality(Ends(a, b)) \in Nat
<1>1. IsFiniteSet(a .. b - 1)
  BY FS_Interval
<1>2. Ends(a, b) \in SUBSET (a .. b - 1)
  BY DEF Ends
<1>3. IsFiniteSet(Ends(a, b))
  BY <1>1, <1>2, FS_Subset
<1> QED
  BY <1>3, FS_CardinalityType

\* on_token_action counts on from a as one would from the beginning of the text.
LEMMA CountedOn ==
  ASSUME NEW S, text \in Seq(S), NEW a \in 1 .. Len(text) + 1, NEW b \in a .. Len(text) + 1
  PROVE  After(Spot(text, a), SubSeq(text, a, b - 1)) = Spot(text, b)
<1> DEFINE s == SubSeq(text, a, b - 1)
           nls == {i \in DOMAIN s : s[i] = "nl"}
           f == [i \in nls |-> a + i - 1]
           upA == {0} \cup Ends(1, a)
           upB == {0} \cup Ends(1, b)
<1>1. Len(text) \in Nat /\ a \in Nat /\ b \in Nat /\ a >= 1 /\ a <= b /\ b <= Len(text) + 1
  OBVIOUS
<1>2. Len(s) = b - a /\ DOMAIN s = 1 .. b - a /\ \A i \in 1 .. b - a : s[i] = text[a + i - 1]
  BY <1>1
<1> HIDE DEF s
<1>3. \A i : i \in nls <=> i \in 1 .. b - a /\ text[a + i - 1] = "nl"
  BY <1>2
<1> HIDE DEF nls
<1>4. \A q : q \in Ends(a, b) <=> q \in a .. b - 1 /\ text[q] = "nl"
  BY DEF Ends
<1>5. \A i \in nls : f[i] = a + i - 1 /\ f[i] \in Ends(a, b) /\ i \in Nat
  <2> TAKE i \in nls
  <2>1. i \in 1 .. b - a /\ text[a + i - 1] = "nl"
    BY <1>3
  <2>2. a + i - 1 \in a .. b - 1 /\ i \in Nat
    BY <1>1, <2>1
  <2>3. a + i - 1 \in Ends(a, b)
    BY <1>4, <2>1, <2>2
  <2> QED
    BY <2>2, <2>3
<1>6. \A q \in Ends(a, b) : q - a + 1 \in nls /\ f[q - a + 1] = q
  <2> TAKE q \in Ends(a, b)
  <2>1. q \in a .. b - 1 /\ text[q] = "nl"
    BY <1>4
  <2>2. q - a + 1 \in 1 .. b - a /\ a + (q - a + 1) - 1 = q
    BY <1>1, <2>1
  <2>3. q - a + 1 \in nls
    BY <1>3, <2>1, <2>2
  <2> QED
    BY <2>2, <2>3
<1>7. f \in Bijection(nls, Ends(a, b))
  <2>1. f \in [nls -> Ends(a, b)]
    BY <1>5
  <2>2. \A i, j \in nls : f[i] = f[j] => i = j
    BY <1>1, <1>5
  <2>3. \A q \in Ends(a, b) : \E i \in nls : f[i] = q
    BY <1>6
  <2> HIDE DEF f
  <2> QED
    BY <2>1, <2>2, <2>3, Fun_IsBij
<1>8. IsFiniteSet(nls) /\ Cardinality(nls) = Cardinality(Ends(a, b))
  <2>1. IsFiniteSet(1 .. b - a)
    BY <1>1, FS_Interval
  <2>2. nls \in SUBSET (1 .. b - a)
    BY <1>3
  <2>3. IsFiniteSet(nls)
    BY <2>1, <2>2, FS_Subset
  <2> QED
    BY <1>7, <2>3, FS_Bijection DEF ExistsBijection
<1>9. Ends(1, b) = Ends(1, a) \cup Ends(a, b) /\ Ends(1, a) \cap Ends(a, b) = {}
  BY <1>1 DEF Ends
<1>10. Cardinality(Ends(1, b)) = Cardinality(Ends(1, a)) + Cardinality(nls)
  <2>1. IsFiniteSet(Ends(1, a)) /\ IsFiniteSet(Ends(a, b))
    BY <1>1, EndsFinite
  <2>2. Cardinality(Ends(1, a)) \in Nat /\ Cardinality(Ends(a, b)) \in Nat
    BY <1>1, EndsFinite
  <2>3. Cardinality(Ends(1, b)) = Cardinality(Ends(1, a)) + Cardinality(Ends(a, b)) - Cardinality({})
    BY <1>9, <2>1, FS_Union
  <2> QED
    BY <1>8, <2>2, <2>3, FS_EmptySet
<1>11. upA \in SUBSET (0 .. Len(text)) /\ upA # {} /\ upB \in SUBSET (0 .. Len(text)) /\ upB # {}
  BY <1>1 DEF Ends
<1>12. Max(upA) \in 0 .. Len(text)
  BY <1>1, <1>11, MaxThere
<1>13. Cardinality(Ends(1, a)) \in Nat
  BY <1>1, EndsFinite
<1>14. CASE nls = {}
  <2>1. Ends(a, b) = {}
    BY <1>6, <1>14
  <2>2. Ends(1, b) = Ends(1, a)
    BY <1>9, <2>1
  <2>3. Spot(text, b) = <<1 + Cardinality(Ends(1, a)), b - Max(upA)>>
    BY <1>1, <2>2, SpotIs
  <2>4. Spot(text, a) = <<1 + Cardinality(Ends(1, a)), a - Max(upA)>>
    BY <1>1, SpotIs
  <2>5. After(Spot(text, a), s) = <<Spot(text, a)[1], Spot(text, a)[2] + (b - a)>>
    BY <1>2, <1>14 DEF After, nls
  <2>6. (a - Max(upA)) + (b - a) = b - Max(upA)
    BY <1>1, <1>12
  <2> HIDE DEF upA
  <2> QED
    BY <2>3, <2>4, <2>5, <2>6 DEF s
<1>15. CASE nls # {}
  <2> DEFINE m == Max(nls)
  <2>1. nls \in SUBSET (0 .. b - a) /\ b - a \in Nat
    BY <1>1, <1>3
  <2>2. m \in nls /\ \A y \in nls : m >= y
    BY <1>15, <2>1, MaxThere
  <2> HIDE DEF m
  <2>3. m \in Nat /\ m >= 1 /\ a + m - 1 \in Ends(a, b)
    BY <1>3, <1>5, <2>2
  <2>4. \A y \in upB : a + m - 1 >= y
    <3> SUFFICES ASSUME NEW y \in upB PROVE a + m - 1 >= y
      OBVIOUS
    <3>1. CASE y = 0
      BY <1>1, <2>3, <3>1
    <3>2. CASE y \in Ends(1, a)
      BY <1>1, <2>3, <3>2 DEF Ends
    <3>3. CASE y \in Ends(a, b)
      <4>1. y - a + 1 \in nls
        BY <1>6, <3>3
      <4>2. m >= y - a + 1 /\ y \in Nat
        BY <1>1, <1>4, <2>2, <3>3, <4>1
      <4> QED
        BY <1>1, <2>3, <4>2
    <3> QED
      BY <1>9, <3>1, <3>2, <3>3
  <2>5. a + m - 1 \in upB
    BY <1>9, <2>3
  <2> HIDE DEF upB
  <2>6. Max(upB) = a + m - 1
    BY <1>1, <1>11, <2>4, <2>5, MaxIs
  <2>7. Spot(text, b) = <<1 + (Cardinality(Ends(1, a)) + Cardinality(nls)), b - (a + m - 1)>>
    BY <1>1, <1>10, <2>6, SpotIs DEF upB
  <2>8. Spot(text, a)[1] = 1 + Cardinality(Ends(1, a))
    BY DEF Spot, Ends
  <2>9. After(Spot(text, a), s) = <<Spot(text, a)[1] + Cardinality(nls), 1 + (b - a) - m>>
    BY <1>2, <1>15 DEF After, nls, m
  <2>10. Cardinality(nls) \in Nat
    BY <1>8, FS_CardinalityType
  <2>11. b - (a + m - 1) = 1 + (b - a) - m
    BY <1>1, <2>3
  <2>12. (1 + Cardinality(Ends(1, a))) + Cardinality(nls) = 1 + (Cardinality(Ends(1, a)) + Cardinality(nls))
    BY <1>13, <2>10
  <2> QED
    BY <2>7, <2>8, <2>9, <2>11, <2>12 DEF s
<1> QED
  BY <1>14, <1>15

----------------------------------------------------------------------------
(* What a rule matches is of the text.                                      *)

\* l characters from p on.
Within(p, l) == l \in Nat /\ p + l <= Len(text) + 1

LEMMA OneWithin ==
  ASSUME NEW X, text \in Seq(X), NEW p \in 1 .. Len(text) + 1, NEW S
  PROVE  Within(p, One(S, p)) /\ One(S, p) \in {0, 1}
<1>1. DOMAIN text = 1 .. Len(text) /\ Len(text) \in Nat
  OBVIOUS
<1> QED
  BY <1>1 DEF Within, One

LEMMA SomeWithin ==
  ASSUME NEW X, text \in Seq(X), NEW p \in 1 .. Len(text) + 1, NEW S
  PROVE  Within(p, Some(S, p))
<1> DEFINE T == {q \in p .. Len(text) : text[q] \notin S} \cup {Len(text) + 1}
<1>1. Len(text) \in Nat /\ p \in Nat
  OBVIOUS
<1>2. T \subseteq Nat /\ T # {} /\ \A q \in T : p <= q /\ q <= Len(text) + 1
  BY <1>1
<1>3. Min(T) \in T
  BY <1>2, MinThere
<1>4. Run(S, p) = Min(T) - p
  BY DEF Run
<1> HIDE DEF T
<1>5. Min(T) \in Nat /\ p <= Min(T) /\ Min(T) <= Len(text) + 1
  BY <1>2, <1>3
<1> QED
  BY <1>1, <1>4, <1>5 DEF Some, Within

LEMMA WordWithin ==
  ASSUME NEW X, text \in Seq(X), NEW p \in 1 .. Len(text) + 1, NEW w, Len(w) \in Nat
  PROVE  Within(p, Word(w, p))
<1>1. Len(text) \in Nat /\ p \in Nat /\ Len(w) \in Nat
  OBVIOUS
<1> QED
  BY <1>1 DEF Word, Stands, Within

\* A match, and another one behind it.
LEMMA Behind ==
  ASSUME NEW X, text \in Seq(X), NEW p \in 1 .. Len(text) + 1, NEW l, NEW k, Within(p, l), Within(p + l, k)
  PROVE  p + l \in 1 .. Len(text) + 1 /\ l + k \in Nat /\ Within(p, l + k) /\ Within(p, l) /\ Within(p, 0)
  BY DEF Within

LEMMA IntegerWithin ==
  ASSUME NEW X, text \in Seq(X), NEW p \in 1 .. Len(text) + 1
  PROVE  Within(p, Integer(p))
<1> DEFINE s == One({"-"}, p)
           d == Some({"1"}, p + s)
<1>1. Within(p, s) /\ p + s \in 1 .. Len(text) + 1
  BY OneWithin DEF Within
<1>2. Within(p + s, d)
  BY <1>1, SomeWithin
<1> HIDE DEF s, d
<1>3. Within(p, s + d) /\ Within(p, 0)
  BY <1>1, <1>2, Behind
<1> QED
  BY <1>3 DEF Integer, s, d

LEMMA ExponentWithin ==
  ASSUME NEW X, text \in Seq(X), NEW p \in 1 .. Len(text) + 1
  PROVE  Within(p, Exponent(p))
<1> DEFINE s == One({"-"}, p + 1)
           d == Some({"1"}, p + 1 + s)
<1>0. Len(text) \in Nat /\ p \in Nat
  OBVIOUS
<1>1. Within(p, 0)
  BY <1>0 DEF Within
<1>2. CASE One({"e", "E"}, p) = 1
  <2>1. p + 1 \in 1 .. Len(text) + 1
    BY <1>0, <1>2, OneWithin DEF Within
  <2>2. Within(p + 1, s) /\ p + 1 + s \in 1 .. Len(text) + 1
    BY <1>0, <2>1, OneWithin DEF Within
  <2>3. Within(p + 1 + s, d)
    BY <2>2, SomeWithin
  <2> HIDE DEF s, d
  <2>4. Within(p, 1 + s + d)
    BY <1>0, <2>2, <2>3 DEF Within
  <2> QED
    BY <1>1, <2>4 DEF Exponent, s, d
<1>3. CASE One({"e", "E"}, p) # 1
  BY <1>1, <1>3 DEF Exponent
<1> QED
  BY <1>2, <1>3

LEMMA FloatWithin ==
  ASSUME NEW X, text \in Seq(X), NEW p \in 1 .. Len(text) + 1
  PROVE  Within(p, Float(p))
<1> DEFINE s == One({"-"}, p)
           a == Some({"1"}, p + s)
           dot == One({"."}, p + s + a)
           b == IF dot = 1 THEN Some({"1"}, p + s + a + 1) ELSE 0
           e == Exponent(p + s + a + dot + b)
<1>0. Len(text) \in Nat /\ p \in Nat
  OBVIOUS
<1>1. s \in Nat /\ p + s \in 1 .. Len(text) + 1
  BY <1>0, OneWithin DEF Within
<1>2. a \in Nat /\ p + s + a \in 1 .. Len(text) + 1
  <2>1. Within(p + s, a)
    BY <1>1, SomeWithin
  <2> HIDE DEF s, a
  <2> QED
    BY <1>0, <1>1, <2>1 DEF Within
<1>3. dot \in {0, 1} /\ p + s + a + dot \in 1 .. Len(text) + 1
  <2>1. Within(p + s + a, dot) /\ dot \in {0, 1}
    BY <1>2, OneWithin
  <2> HIDE DEF s, a, dot
  <2> QED
    BY <1>0, <1>1, <1>2, <2>1 DEF Within
<1>4. b \in Nat /\ p + s + a + dot + b \in 1 .. Len(text) + 1
  <2>1. CASE dot = 1
    <3>1. p + s + a + 1 \in 1 .. Len(text) + 1
      BY <1>3, <2>1
    <3>2. Within(p + s + a + 1, Some({"1"}, p + s + a + 1))
      BY <3>1, SomeWithin
    <3>3. Within(p + s + a + 1, b)
      BY <2>1, <3>2
    <3> HIDE DEF s, a, dot, b
    <3> QED
      BY <1>0, <1>1, <1>2, <2>1, <3>3 DEF Within
  <2>2. CASE dot # 1
    <3>1. b = 0
      BY <2>2
    <3> HIDE DEF s, a, dot, b
    <3> QED
      BY <1>0, <1>1, <1>2, <1>3, <3>1
  <2> HIDE DEF dot
  <2> QED
    BY <2>1, <2>2
<1>5. Within(p + s + a + dot + b, e)
  BY <1>4, ExponentWithin
<1>6. Float(p) = IF a + b > 0 /\ dot + e > 0 THEN s + a + dot + b + e ELSE 0
  BY DEF Float
<1> HIDE DEF s, a, dot, b, e
<1> QED
  BY <1>0, <1>1, <1>2, <1>3, <1>4, <1>5, <1>6 DEF Within

LEMMA BlankLinesWithin ==
  ASSUME NEW X, text \in Seq(X), NEW p \in 1 .. Len(text) + 1
  PROVE  Within(p, BlankLines(p))
<1> DEFINE k == Some({"nl"} \cup Space, p)
           T == {q \in p + 1 .. p + k - 1 : text[q] = "nl"}
<1>0. Len(text) \in Nat /\ p \in Nat
  OBVIOUS
<1>1. k \in Nat /\ p + k <= Len(text) + 1
  BY SomeWithin DEF Within
<1>2. BlankLines(p) = IF One({"nl"}, p) = 1 /\ T # {} THEN Max(T) - p + 1 ELSE 0
  BY DEF BlankLines
<1> HIDE DEF k
<1>3. CASE T = {}
  BY <1>0, <1>2, <1>3 DEF Within
<1>4. CASE T # {}
  <2>1. T \in SUBSET (0 .. p + k) /\ p + k \in Nat /\ \A q \in T : q \in p + 1 .. p + k - 1
    BY <1>0, <1>1
  <2>2. Max(T) \in T
    BY <1>4, <2>1, MaxThere
  <2>3. Max(T) \in p + 1 .. p + k - 1
    BY <2>1, <2>2
  <2> HIDE DEF T
  <2> QED
    BY <1>0, <1>1, <1>2, <2>3 DEF Within
<1> QED
  BY <1>3, <1>4

\* A first character and the run behind it.
LEMMA HeadedWithin ==
  ASSUME NEW X, text \in Seq(X), NEW p \in 1 .. Len(text) + 1, NEW S, NEW T
  PROVE  Within(p, One(S, p) * (1 + Some(T, p + 1)))
<1> DEFINE h == One(S, p)
           k == Some(T, p + 1)
<1>0. Len(text) \in Nat /\ p \in Nat
  OBVIOUS
<1>1. h \in {0, 1} /\ Within(p, h)
  BY OneWithin
<1>2. k \in Int
  <2>1. CASE p + 1 \in 1 .. Len(text) + 1
    BY <2>1, SomeWithin DEF Within
  <2>2. CASE p + 1 \notin 1 .. Len(text) + 1
    BY <1>0, <2>2 DEF Some
  <2> QED
    BY <2>1, <2>2
<1>3. CASE h = 1
  <2>1. p + 1 \in 1 .. Len(text) + 1
    BY <1>0, <1>1, <1>3 DEF Within
  <2>2. Within(p + 1, k)
    BY <2>1, SomeWithin
  <2> HIDE DEF h, k
  <2>3. h * (1 + k) = 1 + k
    BY <1>2, <1>3
  <2>4. Within(p, 1 + k)
    BY <1>0, <2>2 DEF Within
  <2> QED
    BY <2>3, <2>4 DEF h, k
<1>4. CASE h = 0
  <2> HIDE DEF h, k
  <2>1. h * (1 + k) = 0 /\ Within(p, 0)
    BY <1>0, <1>2, <1>4 DEF Within
  <2> QED
    BY <2>1 DEF h, k
<1> QED
  BY <1>1, <1>3, <1>4

LEMMA DollarWithin ==
  ASSUME NEW X, text \in Seq(X), NEW p \in 1 .. Len(text) + 1
  PROVE  Within(p, Dollar(p))
<1> DEFINE S == Char \ {"{"}
           x == One({"$"}, p)
           y == One(S, p + 1)
<1>0. Len(text) \in Nat /\ p \in Nat
  OBVIOUS
<1>1. Dollar(p) = IF x + y = 2 THEN 2 ELSE 0
  BY DEF Dollar
<1> HIDE DEF S
<1>2. x \in {0, 1} /\ Within(p, x)
  BY OneWithin
<1>3. p + 1 \in 1 .. Len(text) + 1 => y \in {0, 1} /\ Within(p + 1, y)
  BY OneWithin
<1>4. y \in {0, 1}
  BY DEF One
<1> HIDE DEF x, y
<1>5. x + y = 2 => x = 1 /\ y = 1
  BY <1>2, <1>4
<1> QED
  BY <1>0, <1>1, <1>2, <1>3, <1>4, <1>5 DEF Within
LEMMA Word2 ==
  ASSUME NEW X, text \in Seq(X), NEW p \in 1 .. Len(text) + 1
  PROVE  /\ \A a, b : Within(p, Word(<<a, b>>, p))
         /\ \A a : Within(p, Word(<<a, a, a>>, p))
<1>1. \A a, b : Len(<<a, b>>) = 2 /\ Len(<<a, a, a>>) = 3
  OBVIOUS
<1> QED
  BY <1>1, WordWithin

LEMMA LongWords ==
  ASSUME NEW X, text \in Seq(X), NEW p \in 1 .. Len(text) + 1
  PROVE  Within(p, Word(Include, p)) /\ Within(p, Word(Override, p))
<1>1. Len(Include) = 8
  BY DEF Include
<1>2. Len(Override) = 10
  BY DEF Override
<1> QED
  BY <1>1, <1>2, WordWithin

\* What every pattern of the rules matches.
AllPatterns(p) ==
  /\ \A S : Within(p, One(S, p)) /\ Within(p, Some(S, p))
  /\ \A S, T : Within(p, One(S, p) * (1 + Some(T, p + 1)))
  /\ \A a, b : Within(p, Word(<<a, b>>, p))
  /\ \A a : Within(p, Word(<<a, a, a>>, p))
  /\ Within(p, Word(Include, p)) /\ Within(p, Word(Override, p)) /\ Within(p, DollarBrace(p))
  /\ Within(p, Dollar(p)) /\ Within(p, BlankLines(p)) /\ Within(p, Integer(p)) /\ Within(p, Float(p))

LEMMA PatternsWithin ==
  ASSUME NEW X, text \in Seq(X), NEW p \in 1 .. Len(text) + 1
  PROVE  AllPatterns(p)
<1>1. Within(p, DollarBrace(p))
  BY Word2 DEF DollarBrace
<1>2. \A S : Within(p, One(S, p)) /\ Within(p, Some(S, p))
  BY OneWithin, SomeWithin
<1>3. \A S, T : Within(p, One(S, p) * (1 + Some(T, p + 1)))
  BY HeadedWithin
<1> QED
  BY <1>1, <1>2, <1>3, Word2, LongWords, DollarWithin, BlankLinesWithin, IntegerWithin, FloatWithin
  DEF AllPatterns

----------------------------------------------------------------------------
(* What the rules do.                                                       *)

BareModes == {"IN_UNQUOTED", "IN_UBRACE"}
ArrayModes == {"IN_ARRAY", "IN_DARRAY"}
ArrayBraceModes == {"IN_ARRAY_BRACE", "IN_DARRAY_BRACE"}
TripleModes == {"IN_TRIPLE_SQ", "IN_TRIPLE_DQ"}

\* What rule r, of condition m, may do to the counter and the condition.
KeepsBraces(m, r) ==
  /\ r.brace \in {"open", "close", "no"}
  /\ r.brace # "no" => r.do \in {"begin", "append", "more"}
  /\ r.do \in {"begin", "flush"} => m \notin BraceModes
  /\ r.do = "begin" => r.brace # "close"
  /\ r.brace = "open" => r.next \in BraceModes
  /\ r.brace = "no" => (r.next \in BraceModes <=> m \in BraceModes)
  /\ r.brace = "close" => m \in BraceModes /\ r.next \notin BraceModes

\* The token a rule returns comes with a string just when its action gives it one.
KeepsTokens(r) ==
  /\ r.do \in {"token", "quote"} => r.tok \in Textless
  /\ r.do \in {"string", "flush", "more"} => r.tok \in Texted \ {"include path"}
  /\ r.do = "path" => r.tok = "include path"

\* Only the rules of a bare value gather one, and only those of an expression in an
\* array keep what was matched.
KeepsPieces(m, r) ==
  /\ r.do = "verbatim" => m \in TripleModes
  /\ r.do = "flush" => m = "IN_UNQUOTED"
  /\ r.do = "append" => m \in BareModes
  /\ r.next \in BareModes => \/ r.do \in {"begin", "append"}
                             \/ r.do = "skip" /\ m = "IN_UBRACE" /\ r.next = m
  /\ r.do = "more" => IF r.brace = "close" THEN m \in ArrayBraceModes ELSE r.next \in ArrayBraceModes

\* All of it, and that a rule matches at p what is there.
Keeps(m, p, r) ==
  /\ KeepsBraces(m, r)
  /\ KeepsTokens(r)
  /\ KeepsPieces(m, r)
  /\ AllPatterns(p) => Within(p, r.len)

AllKeep(m, p, rs) == \A i \in DOMAIN rs : Keeps(m, p, rs[i])

LEMMA All4 ==
  ASSUME NEW m, NEW p, NEW a1, NEW a2, NEW a3, NEW a4,
         Keeps(m, p, a1), Keeps(m, p, a2), Keeps(m, p, a3), Keeps(m, p, a4)
  PROVE  AllKeep(m, p, <<a1, a2, a3, a4>>)
  BY DEF AllKeep
LEMMA All5 ==
  ASSUME NEW m, NEW p, NEW a1, NEW a2, NEW a3, NEW a4, NEW a5,
         Keeps(m, p, a1), Keeps(m, p, a2), Keeps(m, p, a3), Keeps(m, p, a4), Keeps(m, p, a5)
  PROVE  AllKeep(m, p, <<a1, a2, a3, a4, a5>>)
  BY DEF AllKeep
LEMMA All6 ==
  ASSUME NEW m, NEW p, NEW a1, NEW a2, NEW a3, NEW a4, NEW a5, NEW a6,
         Keeps(m, p, a1), Keeps(m, p, a2), Keeps(m, p, a3), Keeps(m, p, a4), Keeps(m, p, a5),
         Keeps(m, p, a6)
  PROVE  AllKeep(m, p, <<a1, a2, a3, a4, a5, a6>>)
  BY DEF AllKeep
LEMMA All8 ==
  ASSUME NEW m, NEW p, NEW a1, NEW a2, NEW a3, NEW a4, NEW a5, NEW a6, NEW a7, NEW a8,
         Keeps(m, p, a1), Keeps(m, p, a2), Keeps(m, p, a3), Keeps(m, p, a4), Keeps(m, p, a5),
         Keeps(m, p, a6), Keeps(m, p, a7), Keeps(m, p, a8)
  PROVE  AllKeep(m, p, <<a1, a2, a3, a4, a5, a6, a7, a8>>)
  BY DEF AllKeep
LEMMA All9 ==
  ASSUME NEW m, NEW p, NEW a1, NEW a2, NEW a3, NEW a4, NEW a5, NEW a6, NEW a7, NEW a8, NEW a9,
         Keeps(m, p, a1), Keeps(m, p, a2), Keeps(m, p, a3), Keeps(m, p, a4), Keeps(m, p, a5),
         Keeps(m, p, a6), Keeps(m, p, a7), Keeps(m, p, a8), Keeps(m, p, a9)
  PROVE  AllKeep(m, p, <<a1, a2, a3, a4, a5, a6, a7, a8, a9>>)
  BY DEF AllKeep
LEMMA All11 ==
  ASSUME NEW m, NEW p, NEW a1, NEW a2, NEW a3, NEW a4, NEW a5, NEW a6, NEW a7, NEW a8, NEW a9,
         NEW a10, NEW a11,
         Keeps(m, p, a1), Keeps(m, p, a2), Keeps(m, p, a3), Keeps(m, p, a4), Keeps(m, p, a5),
         Keeps(m, p, a6), Keeps(m, p, a7), Keeps(m, p, a8), Keeps(m, p, a9), Keeps(m, p, a10),
         Keeps(m, p, a11)
  PROVE  AllKeep(m, p, <<a1, a2, a3, a4, a5, a6, a7, a8, a9, a10, a11>>)
  BY DEF AllKeep

\* The rules, one start condition after the other.
LEMMA BodyKeeps == \A p : AllKeep("BODY", p, Body(p))
<1> TAKE p
<1> USE DEF Keeps, KeepsBraces, KeepsTokens, KeepsPieces, R, B, BraceModes, Texted, Textless,
      BareModes, ArrayModes, ArrayBraceModes, TripleModes, AllPatterns
<1>1. Keeps("BODY", p, R(Some({"sp", "cr"}, p), "skip", "BODY", "-"))
  OBVIOUS
<1>2. Keeps("BODY", p, R(BlankLines(p), "token", "BODY", "blank line"))
  OBVIOUS
<1>3. Keeps("BODY", p, R(One({"nl"}, p), "skip", "BODY", "-"))
  OBVIOUS
<1>4. Keeps("BODY", p, R(One({"#"}, p) * (1 + Some(NotNl, p + 1)), "string", "BODY", "comment"))
  OBVIOUS
<1>5. Keeps("BODY", p, R(Word(Include, p), "token", "IN_INCLUDE", "!include"))
  OBVIOUS
<1>6. Keeps("BODY", p, R(Word(<<"[", "]">>, p), "token", "BODY", "[]"))
  OBVIOUS
<1>7. Keeps("BODY", p, R(One({"["}, p), "token", "IN_PATH", "["))
  OBVIOUS
<1>8. Keeps("BODY", p, R(Some(Ident, p), "string", "IN_PARAM", "identifier"))
  OBVIOUS
<1>9. Keeps("BODY", p, R(One(NotNl, p), "error", "BODY", "-"))
  OBVIOUS
<1> HIDE DEF Keeps, R, B
<1> QED
  BY All9, <1>1, <1>2, <1>3, <1>4, <1>5, <1>6, <1>7, <1>8, <1>9 DEF Body
LEMMA InPathKeeps == \A p : AllKeep("IN_PATH", p, InPath(p))
  BY All5 DEF InPath, Keeps, KeepsBraces, KeepsTokens, KeepsPieces, R, B, BraceModes, Texted, Textless,
      BareModes, ArrayModes, ArrayBraceModes, TripleModes, AllPatterns
LEMMA InParamKeeps == \A p : AllKeep("IN_PARAM", p, InParam(p))
  BY All6 DEF InParam, Keeps, KeepsBraces, KeepsTokens, KeepsPieces, R, B, BraceModes, Texted, Textless,
      BareModes, ArrayModes, ArrayBraceModes, TripleModes, AllPatterns
LEMMA AfterEqKeeps == \A p : AllKeep("AFTER_EQ", p, AfterEq(p))
<1> TAKE p
<1> USE DEF Keeps, KeepsBraces, KeepsTokens, KeepsPieces, R, B, BraceModes, Texted, Textless,
            BareModes, ArrayModes, ArrayBraceModes, TripleModes, AllPatterns
<1>1. Keeps("AFTER_EQ", p, R(Some({"sp", "cr"}, p), "skip", "AFTER_EQ", "-"))
  OBVIOUS
<1>2. Keeps("AFTER_EQ", p, R(One({"nl"}, p), "skip", "BODY", "-"))
  OBVIOUS
<1>3. Keeps("AFTER_EQ", p, R(Float(p), "string", "BODY", "floating-point number"))
  OBVIOUS
<1>4. Keeps("AFTER_EQ", p, R(Integer(p), "string", "BODY", "integer"))
  OBVIOUS
<1>5. Keeps("AFTER_EQ", p, R(Word(<<"'", "'", "'">>, p), "triple", "IN_TRIPLE_SQ", "-"))
  OBVIOUS
<1>6. Keeps("AFTER_EQ", p, R(Word(<<"dq", "dq", "dq">>, p), "triple", "IN_TRIPLE_DQ", "-"))
  OBVIOUS
<1>7. Keeps("AFTER_EQ", p, R(One({"dq"}, p), "quote", "IN_DARRAY", "'"))
  OBVIOUS
<1>8. Keeps("AFTER_EQ", p, R(One({"'"}, p), "quote", "IN_ARRAY", "'"))
  OBVIOUS
<1>9. Keeps("AFTER_EQ", p, B(DollarBrace(p), "begin", "IN_UBRACE", "open"))
  OBVIOUS
<1>10. Keeps("AFTER_EQ", p, B(Some(Bare, p), "begin", "IN_UNQUOTED", "no"))
  OBVIOUS
<1>11. Keeps("AFTER_EQ", p, R(One(NotNl, p), "error", "BODY", "-"))
  OBVIOUS
<1> HIDE DEF Keeps, R, B
<1> QED
  BY All11, <1>1, <1>2, <1>3, <1>4, <1>5, <1>6, <1>7, <1>8, <1>9, <1>10, <1>11 DEF AfterEq
LEMMA InUnquotedKeeps == \A p : AllKeep("IN_UNQUOTED", p, InUnquoted(p))
  BY All4 DEF InUnquoted, Keeps, KeepsBraces, KeepsTokens, KeepsPieces, R, B, BraceModes, Texted, Textless,
      BareModes, ArrayModes, ArrayBraceModes, TripleModes, AllPatterns
LEMMA InUBraceKeeps == \A p : AllKeep("IN_UBRACE", p, InUBrace(p))
  BY All5 DEF InUBrace, Keeps, KeepsBraces, KeepsTokens, KeepsPieces, R, B, BraceModes, Texted, Textless,
      BareModes, ArrayModes, ArrayBraceModes, TripleModes, AllPatterns
LEMMA InIncludeKeeps == \A p, m : m \notin BraceModes => AllKeep(m, p, InInclude(p))
  BY All4 DEF InInclude, Keeps, KeepsBraces, KeepsTokens, KeepsPieces, R, B, BraceModes, Texted, Textless,
      BareModes, ArrayModes, ArrayBraceModes, TripleModes, AllPatterns
LEMMA InArrayKeeps ==
  ASSUME NEW p, NEW m, NEW braceMode, NEW delim, m \in ArrayModes, braceMode \in ArrayBraceModes
  PROVE  AllKeep(m, p, InArray(p, m, braceMode, delim))
  BY All8 DEF InArray, Keeps, KeepsBraces, KeepsTokens, KeepsPieces, R, B, BraceModes, Texted, Textless,
      BareModes, ArrayModes, ArrayBraceModes, TripleModes, AllPatterns
LEMMA InArrayBraceKeeps ==
  ASSUME NEW p, NEW m, NEW outer, m \in ArrayBraceModes, outer \in ArrayModes
  PROVE  AllKeep(m, p, InArrayBrace(p, m, outer))
  BY All5 DEF InArrayBrace, Keeps, KeepsBraces, KeepsTokens, KeepsPieces, R, B, BraceModes, Texted, Textless,
      BareModes, ArrayModes, ArrayBraceModes, TripleModes, AllPatterns
LEMMA InTripleKeeps ==
  ASSUME NEW p, NEW m, NEW delim, m \in TripleModes
  PROVE  AllKeep(m, p, InTriple(p, m, delim))
  BY All4 DEF InTriple, Keeps, KeepsBraces, KeepsTokens, KeepsPieces, R, B, BraceModes, Texted, Textless,
      BareModes, ArrayModes, ArrayBraceModes, TripleModes, AllPatterns

LEMMA RulesKeep == \A m, p : AllKeep(m, p, Rules(m, p))
<1> TAKE m, p
<1>1. CASE m \in {"IN_ARRAY", "IN_DARRAY"}
  BY <1>1, InArrayKeeps DEF Rules, BraceModes, ArrayModes, ArrayBraceModes, TripleModes
<1>2. CASE m \in {"IN_ARRAY_BRACE", "IN_DARRAY_BRACE"}
  BY <1>2, InArrayBraceKeeps DEF Rules, BraceModes, ArrayModes, ArrayBraceModes, TripleModes
<1>3. CASE m \in {"IN_TRIPLE_SQ", "IN_TRIPLE_DQ"}
  BY <1>3, InTripleKeeps DEF Rules, BraceModes, ArrayModes, ArrayBraceModes, TripleModes
<1>4. CASE m \in {"BODY", "IN_PATH", "IN_PARAM", "AFTER_EQ", "IN_UNQUOTED", "IN_UBRACE"}
  BY <1>4, BodyKeeps, InPathKeeps, InParamKeeps, AfterEqKeeps, InUnquotedKeeps, InUBraceKeeps
  DEF Rules
<1>5. CASE m \notin {"BODY", "IN_PATH", "IN_PARAM", "AFTER_EQ", "IN_UNQUOTED", "IN_UBRACE",
                    "IN_ARRAY", "IN_DARRAY", "IN_ARRAY_BRACE", "IN_DARRAY_BRACE",
                    "IN_TRIPLE_SQ", "IN_TRIPLE_DQ"}
  BY <1>5, InIncludeKeeps DEF Rules, BraceModes, ArrayModes, ArrayBraceModes, TripleModes
<1> QED
  BY <1>1, <1>2, <1>3, <1>4, <1>5

----------------------------------------------------------------------------
(* The counter.                                                             *)

Inv == depth \in Nat /\ DepthIsOfThisValue

\* The actions that leave the counter alone.
LEMMA PlainStep ==
  ASSUME NEW r, Keeps(mode, pos, r), Inv, r.do \notin {"begin", "append", "more"},
         Begin(r.next), UNCHANGED depth
  PROVE  Inv'
  BY DEF Keeps, KeepsBraces, Inv, DepthIsOfThisValue, Begin

LEMMA ScanKeeps ==
  ASSUME NEW r, Keeps(mode, pos, r), Inv, Scan(r)
  PROVE  Inv'
<1>1. CASE Skip(r)
  BY <1>1, PlainStep DEF Skip, valueVars
<1>2. CASE Token(r)
  BY <1>2, PlainStep DEF Token, valueVars
<1>3. CASE String(r)
  BY <1>3, PlainStep DEF String, valueVars
<1>4. CASE Path(r)
  BY <1>4, PlainStep DEF Path, valueVars
<1>5. CASE LexError(r)
  BY <1>5, PlainStep DEF LexError, valueVars
<1>6. CASE Quote(r)
  BY <1>6, PlainStep DEF Quote, valueVars
<1>7. CASE Whitespace(r)
  BY <1>7, PlainStep DEF Whitespace, valueVars
<1>8. CASE OpenTriple(r)
  BY <1>8, PlainStep DEF OpenTriple
<1>9. CASE TripleBody(r)
  BY <1>9, PlainStep DEF TripleBody
<1>10. CASE CloseTriple(r)
  BY <1>10, PlainStep DEF CloseTriple, valueVars
<1>11. CASE Flush(r)
  BY <1>11, PlainStep DEF Flush
<1>12. CASE BeginUnquoted(r)
  <2>1. depth = 0 /\ mode' = r.next /\ depth' = Nested(r)
    BY <1>12 DEF BeginUnquoted, Begin, Keeps, KeepsBraces, Inv, DepthIsOfThisValue
  <2> QED
    BY <1>12, <2>1 DEF BeginUnquoted, Nested, Keeps, KeepsBraces, Inv, DepthIsOfThisValue
<1>13. CASE AppendUnquoted(r)
  <2>1. mode' = AfterBrace(r) /\ depth' = Nested(r)
    BY <1>13 DEF AppendUnquoted, Begin
  <2> QED
    BY <2>1 DEF AfterBrace, Nested, Keeps, KeepsBraces, Inv, DepthIsOfThisValue
<1>14. CASE More(r)
  BY <1>14 DEF More, AfterBrace, Nested, Keeps, KeepsBraces, Inv, DepthIsOfThisValue
<1>15. CASE EndMore(r)
  <2>1. mode' = r.next /\ depth' = 0
    BY <1>15 DEF EndMore, Begin
  <2> QED
    BY <1>15, <2>1 DEF EndMore, Keeps, KeepsBraces, Inv, DepthIsOfThisValue
<1> QED
  BY <1>1, <1>2, <1>3, <1>4, <1>5, <1>6, <1>7, <1>8, <1>9, <1>10, <1>11, <1>12, <1>13, <1>14,
     <1>15 DEF Scan

LEMMA EndKeeps == Inv /\ EndOfText => Inv'
  BY DEF Inv, DepthIsOfThisValue, EndOfText, BraceModes

LEMMA NextKeeps == Inv /\ [Next]_vars => Inv'
<1> SUFFICES ASSUME Inv, [Next]_vars PROVE Inv'
  OBVIOUS
<1>1. CASE Lex
  <2>1. CASE EndOfText
    BY <2>1, EndKeeps
  <2>2. ASSUME NEW i \in DOMAIN Rules(mode, pos), Scan(Rules(mode, pos)[i])
        PROVE  Inv'
    BY <2>2, ScanKeeps, RulesKeep DEF AllKeep
  <2> QED
    BY <1>1, <2>1, <2>2 DEF Lex
<1>2. CASE UNCHANGED lexVars
  BY <1>2 DEF lexVars, placeVars, valueVars, Inv, DepthIsOfThisValue
<1> QED
  BY <1>1, <1>2 DEF Next, vars

LEMMA InitHolds == Init => Inv
  BY DEF Init, LexInit, Inv, DepthIsOfThisValue, BraceModes

\* For every text: outside a brace expression the counter of ParseDriver is zero, and
\* inside one it is not, so that begin_brace (ParseDriver.h:74) never goes on from
\* what an earlier value left.
THEOREM BraceDepth == Spec => []DepthIsOfThisValue
<1>1. Inv => DepthIsOfThisValue
  BY DEF Inv
<1> QED
  BY InitHolds, NextKeeps, <1>1, PTL DEF Spec

----------------------------------------------------------------------------
(* The stack of the parser.                                                 *)

\* Every entry is of its type and lies where the tables let it lie.
WellStacked(st) ==
  /\ \E S : st \in Seq(S)
  /\ Len(st) >= 1
  /\ st[1].state = 0
  /\ \A i \in 2 .. Len(st) : st[i].state \in States /\ LiesOn(st[i].state, st[i - 1].state)
  /\ \A i \in 1 .. Len(st) : st[i].type = Type(At(yystos, st[i].state))

TokenKinds == 0 .. YYNTOKENS - 1
LookAhead == la.kind \in TokenKinds \cup {NoToken.kind} /\ la.type = Type(la.kind)
Typed == WellStacked(stack) /\ LookAhead

----------------------------------------------------------------------------
(* Stacks.                                                                  *)

LEMMA Push ==
  ASSUME NEW st, WellStacked(st), NEW e, e.state \in States,
         LiesOn(e.state, st[Len(st)].state), e.type = Type(At(yystos, e.state))
  PROVE  WellStacked(Append(st, e))
<1>1. PICK S : st \in Seq(S)
  BY DEF WellStacked
<1>2. st \in Seq(S \cup {e})
  BY <1>1
<1>3. Append(st, e) \in Seq(S \cup {e})
  BY <1>2
<1>4. /\ Len(Append(st, e)) = Len(st) + 1
      /\ \A i \in 1 .. Len(st) : Append(st, e)[i] = st[i]
      /\ Append(st, e)[Len(st) + 1] = e
  BY <1>2
<1>5. Len(st) \in Nat /\ Len(st) >= 1
  BY <1>1 DEF WellStacked
<1> QED
  BY <1>3, <1>4, <1>5 DEF WellStacked

LEMMA Cut ==
  ASSUME NEW st, WellStacked(st), NEW n \in 1 .. Len(st)
  PROVE  /\ WellStacked(SubSeq(st, 1, n))
         /\ Len(SubSeq(st, 1, n)) = n
         /\ SubSeq(st, 1, n)[n] = st[n]
<1>1. PICK S : st \in Seq(S)
  BY DEF WellStacked
<1>2. Len(st) \in Nat /\ n \in Nat /\ n >= 1 /\ n <= Len(st)
  BY <1>1
<1>3. /\ SubSeq(st, 1, n) \in Seq(S)
      /\ Len(SubSeq(st, 1, n)) = n
      /\ \A i \in 1 .. n : SubSeq(st, 1, n)[i] = st[i]
  BY <1>1, <1>2
<1> DEFINE cut == SubSeq(st, 1, n)
<1> HIDE DEF cut
<1>4. cut \in Seq(S) /\ Len(cut) = n /\ \A i \in 1 .. n : cut[i] = st[i]
  BY <1>3 DEF cut
<1>5. cut[1].state = 0 /\ Len(cut) >= 1 /\ cut[n] = st[n]
  BY <1>2, <1>4 DEF WellStacked
<1>6. ASSUME NEW i \in 2 .. Len(cut)
      PROVE  cut[i].state \in States /\ LiesOn(cut[i].state, cut[i - 1].state)
  <2>1. i \in 2 .. Len(st) /\ cut[i] = st[i] /\ cut[i - 1] = st[i - 1]
    BY <1>2, <1>4
  <2> QED
    BY <2>1 DEF WellStacked
<1>7. ASSUME NEW i \in 1 .. Len(cut)
      PROVE  cut[i].type = Type(At(yystos, cut[i].state))
  <2>1. i \in 1 .. Len(st) /\ cut[i] = st[i]
    BY <1>2, <1>4
  <2> QED
    BY <2>1 DEF WellStacked
<1>8. WellStacked(cut)
  BY <1>4, <1>5, <1>6, <1>7 DEF WellStacked
<1> QED
  BY <1>4, <1>5, <1>8 DEF cut

LEMMA AllStates ==
  ASSUME NEW st, WellStacked(st), NEW i \in 1 .. Len(st)
  PROVE  st[i].state \in States
<1>1. Len(st) \in Nat
  BY DEF WellStacked
<1> QED
  BY <1>1 DEF WellStacked, States

\* One entry further down.
LEMMA DownNext == \A s : \A n \in 0 .. 4 : Down(n + 1, s) = Beneath(Down(n, s))
<1> TAKE s
<1> TAKE n \in 0 .. 4
<1>1. CASE n = 0
  BY <1>1 DEF Down
<1>2. CASE n = 1
  BY <1>2 DEF Down
<1>3. CASE n = 2
  BY <1>3 DEF Down
<1>4. CASE n = 3
  BY <1>4 DEF Down
<1>5. CASE n = 4
  BY <1>5 DEF Down
<1> QED
  BY <1>1, <1>2, <1>3, <1>4, <1>5

Reaches(st, n) ==
  Len(st) > n /\ st[Len(st) - n].state \in Down(n, st[Len(st)].state)

LEMMA StepDown ==
  ASSUME NEW st, WellStacked(st), NEW n \in 0 .. 4, Reaches(st, n),
         0 \notin Down(n, st[Len(st)].state)
  PROVE  Reaches(st, n + 1)
<1> DEFINE s == st[Len(st)].state
           i == Len(st) - n
<1>1. Len(st) \in Nat
  BY DEF WellStacked
<1>2. st[i].state \in Down(n, s) /\ st[i].state # 0 /\ i >= 1 /\ i \in 1 .. Len(st)
  BY <1>1 DEF Reaches
<1>3. i # 1
  BY <1>2 DEF WellStacked
<1>4. LiesOn(st[i].state, st[i - 1].state)
  BY <1>1, <1>2, <1>3 DEF WellStacked
<1>5. i - 1 \in 1 .. Len(st)
  BY <1>1, <1>2, <1>3
<1>6. st[i - 1].state \in States
  BY <1>5, AllStates
<1>7. st[i - 1].state \in Beneath(Down(n, s))
  BY <1>2, <1>4, <1>6 DEF Beneath
<1>8. st[i - 1].state \in Down(n + 1, s)
  BY <1>7, DownNext
<1>9. Len(st) - (n + 1) = i - 1 /\ Len(st) > n + 1
  BY <1>1, <1>2, <1>3
<1> QED
  BY <1>8, <1>9 DEF Reaches

LEMMA RightHandSide ==
  ASSUME NEW st, WellStacked(st), NEW k \in 0 .. 5,
         \A n \in 0 .. 4 : n < k => 0 \notin Down(n, st[Len(st)].state)
  PROVE  Reaches(st, k)
<1> DEFINE P(n) == n <= k => Reaches(st, n)
<1>1. P(0)
  <2>1. Len(st) \in Nat /\ Len(st) >= 1
    BY DEF WellStacked
  <2> QED
    BY <2>1 DEF Reaches, Down
<1>2. ASSUME NEW n \in 0 .. 4, P(n) PROVE P(n + 1)
  BY <1>2, StepDown
<1>3. P(1)
  BY <1>1, <1>2
<1>4. P(2)
  BY <1>3, <1>2
<1>5. P(3)
  BY <1>4, <1>2
<1>6. P(4)
  BY <1>5, <1>2
<1>7. P(5)
  BY <1>6, <1>2
<1> QED
  BY <1>1, <1>3, <1>4, <1>5, <1>6, <1>7

LEMMA BottomTyped == WellStacked(<<Bottom>>)
<1> DEFINE st == <<Bottom>>
<1>1. st \in Seq({Bottom}) /\ Len(st) = 1 /\ st[1] = Bottom
  OBVIOUS
<1>2. Bottom.state = 0 /\ Bottom.type = "none"
  BY DEF Bottom
<1>3. Type(0) = "none"
  BY DEF Type
<1> HIDE DEF st
<1>4. WellStacked(st)
  BY <1>1, <1>2, <1>3, BottomAssumption DEF WellStacked
<1> QED
  BY <1>4 DEF st

----------------------------------------------------------------------------
(* The steps of the parser.                                                 *)

LEMMA NoTokenTyped == la = NoToken => LookAhead
  BY DEF NoToken, LookAhead, Type

LEMMA StackIsThere == Typed => Len(stack) \in Nat /\ Len(stack) >= 1 /\ Top.state \in States
<1> SUFFICES ASSUME Typed
             PROVE  Len(stack) \in Nat /\ Len(stack) >= 1 /\ Top.state \in States
  OBVIOUS
<1>1. Len(stack) \in Nat /\ Len(stack) >= 1
  BY DEF Typed, WellStacked
<1> QED
  BY <1>1, AllStates DEF Typed, Top

LEMMA ShiftTyped == Typed /\ Shift => Typed'
<1> SUFFICES ASSUME Typed, Shift PROVE Typed'
  OBVIOUS
<1> DEFINE q == Entry(Top.state, la.kind)
<1>1. Top.state \in States
  BY StackIsThere
<1>2. ~ IsDefault(Top.state) /\ Listed(Top.state, la.kind) /\ ~ Missing
  BY DEF Shift, Decided, Shifts
<1>3. la.kind \in TokenKinds /\ la.type = Type(la.kind)
  BY <1>2 DEF Typed, LookAhead, Missing
<1>4. Fits(q, Top.state, la.kind)
  BY <1>1, <1>2, <1>3, ShiftAssumption DEF TokenKinds
<1>5. WellStacked(Append(stack, Pushed(q)))
  BY <1>3, <1>4, Push DEF Fits, Pushed, Typed, Top
<1>6. LookAhead'
  BY DEF Shift, NoToken, LookAhead, Type
<1> QED
  BY <1>5, <1>6 DEF Shift, Typed

LEMMA ReduceTyped == ASSUME NEW r \in 2 .. 31, Typed, Reduce(r) PROVE Typed'
<1> DEFINE k == At(yyr2, r)
           p == stack[Len(stack) - k].state
           g == yy_lr_goto_state(p, At(yyr1, r))
<1>1. Len(stack) \in Nat /\ Len(stack) >= 1 /\ Top.state \in States
  BY StackIsThere
<1>2. At(yydefact, Top.state) = r
  BY DEF Reduce, Default
<1>3. /\ k \in 0 .. 5
      /\ \A n \in 0 .. 4 : n < k => 0 \notin Down(n, Top.state)
      /\ \A o \in Down(k, Top.state) :
           Fits(yy_lr_goto_state(o, At(yyr1, r)), o, At(yyr1, r))
  BY <1>1, <1>2, ReduceAssumption
<1>4. Reaches(stack, k)
  BY <1>3, RightHandSide DEF Typed, Top
<1>5. Len(stack) - k \in 1 .. Len(stack) /\ Fits(g, p, At(yyr1, r))
  BY <1>1, <1>3, <1>4 DEF Reaches, Top
<1>6. /\ WellStacked(Below(r))
      /\ Len(Below(r)) = Len(stack) - k
      /\ Below(r)[Len(Below(r))].state = p
  BY <1>5, Cut DEF Below, Typed
<1>7. Lhs(r).state = g /\ Lhs(r).type = Type(At(yyr1, r))
  BY <1>6 DEF Lhs
<1>8. WellStacked(Append(Below(r), Lhs(r)))
  BY <1>5, <1>6, <1>7, Push DEF Fits
<1>9. LookAhead'
  BY DEF Reduce, Typed, LookAhead
<1> QED
  BY <1>8, <1>9 DEF Reduce, Typed

LEMMA ParserTyped == Typed /\ ParserStep => Typed'
<1> SUFFICES ASSUME Typed, ParserStep PROVE Typed'
  OBVIOUS
<1>1. CASE Shift
  BY <1>1, ShiftTyped
<1>2. CASE \E r \in 2 .. 31 : Reduce(r)
  BY <1>2, ReduceTyped
<1>3. CASE Fail
  BY <1>3 DEF Fail, Typed, LookAhead
<1>4. CASE Pop
  <2>1. Len(stack) - 1 \in 1 .. Len(stack)
    BY <1>4, StackIsThere DEF Pop
  <2>2. WellStacked(SubSeq(stack, 1, Len(stack) - 1))
    BY <2>1, Cut DEF Typed
  <2> QED
    BY <1>4, <2>2 DEF Pop, Typed, LookAhead
<1>5. CASE Abort
  <2>1. LookAhead'
    BY <1>5 DEF Abort, NoToken, LookAhead, Type
  <2> QED
    BY <1>5, <2>1 DEF Abort, Typed
<1>6. CASE Accept
  <2>1. WellStacked(SubSeq(stack, 1, 1))
    BY StackIsThere, Cut DEF Typed
  <2> QED
    BY <1>6, <2>1 DEF Accept, Typed, LookAhead
<1> QED
  BY <1>1, <1>2, <1>3, <1>4, <1>5, <1>6 DEF ParserStep

----------------------------------------------------------------------------
(* The steps of the scanner.                                                *)

LEMMA GoesTyped == Typed /\ Goes => Typed'
  BY DEF Goes, Typed, LookAhead

LEMMA ReturnedTyped == ASSUME NEW tok \in Textless, Typed, Returned(tok) PROVE Typed'
<1>1. yytranslate(Code(tok)) \in TokenKinds /\ Type(yytranslate(Code(tok))) = "none"
  BY TokensAssumption DEF TokenKinds, YYNTOKENS
<1> QED
  BY <1>1 DEF Returned, Take, Typed, LookAhead

LEMMA TextTyped ==
  ASSUME NEW tok \in Texted, NEW val, Typed, ReturnedText(tok, val) PROVE Typed'
<1>1. yytranslate(Code(tok)) \in TokenKinds /\ Type(yytranslate(Code(tok))) = "string"
  BY TokensAssumption DEF TokenKinds, YYNTOKENS
<1> QED
  BY <1>1 DEF ReturnedText, Built, Take, Typed, LookAhead

LEMMA ScanTyped == ASSUME NEW r, Keeps(mode, pos, r), Typed, Scan(r) PROVE Typed'
<1> USE GoesTyped, ReturnedTyped, TextTyped
<1>1. CASE Skip(r)
  BY <1>1 DEF Skip
<1>2. CASE Token(r)
  BY <1>2 DEF Token, Keeps, KeepsTokens
<1>3. CASE String(r)
  BY <1>3 DEF String, Keeps, KeepsTokens
<1>4. CASE Path(r)
  BY <1>4 DEF Path, Keeps, KeepsTokens, Texted
<1>5. CASE LexError(r)
  BY <1>5 DEF LexError
<1>6. CASE Quote(r)
  BY <1>6 DEF Quote, Keeps, KeepsTokens
<1>7. CASE Whitespace(r)
  BY <1>7 DEF Whitespace
<1>8. CASE BeginUnquoted(r)
  BY <1>8 DEF BeginUnquoted
<1>9. CASE AppendUnquoted(r)
  BY <1>9 DEF AppendUnquoted
<1>10. CASE Flush(r)
  BY <1>10 DEF Flush, Keeps, KeepsTokens
<1>11. CASE OpenTriple(r)
  BY <1>11 DEF OpenTriple
<1>12. CASE TripleBody(r)
  BY <1>12 DEF TripleBody
<1>13. CASE CloseTriple(r)
  <2>1. "unquoted string" \in Texted
    BY DEF Texted
  <2> QED
    BY <1>13, <2>1 DEF CloseTriple
<1>14. CASE More(r)
  BY <1>14 DEF More
<1>15. CASE EndMore(r)
  BY <1>15 DEF EndMore, Keeps, KeepsTokens
<1> QED
  BY <1>1, <1>2, <1>3, <1>4, <1>5, <1>6, <1>7, <1>8, <1>9, <1>10, <1>11, <1>12, <1>13, <1>14,
     <1>15 DEF Scan

LEMMA EndTyped == Typed /\ EndOfText => Typed'
<1>1. "unquoted string" \in Texted /\ "end of file" \in Textless
  BY DEF Texted, Textless
<1> QED
  BY <1>1, ReturnedTyped, TextTyped DEF EndOfText

----------------------------------------------------------------------------
(* The theorem.                                                             *)

LEMMA InitTyped == Init => Typed
  BY BottomTyped, NoTokenTyped DEF Init, ParserInit, Typed

LEMMA NextTyped == Typed /\ [Next]_vars => Typed'
<1> SUFFICES ASSUME Typed, [Next]_vars PROVE Typed'
  OBVIOUS
<1>1. CASE Lex
  <2>1. CASE EndOfText
    BY <2>1, EndTyped
  <2>2. ASSUME NEW i \in DOMAIN Rules(mode, pos), Scan(Rules(mode, pos)[i])
        PROVE  Typed'
    BY <2>2, ScanTyped, RulesKeep DEF AllKeep
  <2> QED
    BY <1>1, <2>1, <2>2 DEF Lex
<1>2. CASE ParserStep
  BY <1>2, ParserTyped
<1>3. CASE UNCHANGED vars
  BY <1>3 DEF vars, parserVars, Typed, LookAhead
<1> QED
  BY <1>1, <1>2, <1>3 DEF Next

LEMMA TypedValues == Typed => ValuesHaveTheirType
<1> SUFFICES ASSUME Typed PROVE ValuesHaveTheirType
  OBVIOUS
<1>1. DOMAIN stack = 1 .. Len(stack)
  BY DEF Typed, WellStacked
<1> QED
  BY <1>1 DEF Typed, WellStacked, LookAhead, ValuesHaveTheirType

\* For every text: the value of a stack entry is of the type its state says, and that of
\* the look-ahead of the type its kind says (Parser.h:207).  The generated parser moves and
\* destroys values by these alone, and pops the right-hand side of a rule unchecked.
THEOREM TypesKnown == Spec => []ValuesHaveTheirType
  BY InitTyped, NextTyped, TypedValues, PTL DEF Spec

----------------------------------------------------------------------------
(* Where the scanner stands.                                                *)

\* A bare value is being gathered.
Gathering == mode = "IN_UNQUOTED" \/ (mode = "IN_UBRACE" /\ pos <= Len(text))

\* _line and _col are those of the next character; a token that is kept begins where
\* yytext does, and what is gathered is the text since its first character.
InPlace ==
  /\ text \in Seq(Char)
  /\ pos \in 1 .. Len(text) + 1
  /\ at = Spot(text, pos)
  /\ \E p \in 1 .. pos : tokAt = Spot(text, p)
  /\ inMore => /\ mode \in ArrayBraceModes
               /\ base \in 1 .. pos /\ moreBase = pos - base
               /\ tokAt = Spot(text, base)
  /\ Gathering => \E p \in 1 .. pos : accAt = Spot(text, p) /\ acc = SubSeq(text, p, pos - 1)

\* Within an expression a `$` that opens nothing and has nothing behind it, the one
\* character no rule takes, is the last of the text.
LEMMA EchoedIsLast ==
  ASSUME text \in Seq(Char), pos \in 1 .. Len(text),
         NEW i \in DOMAIN InUBrace(pos), IsBest(InUBrace(pos), i), InUBrace(pos)[i].do = "skip"
  PROVE  pos + InUBrace(pos)[i].len = Len(text) + 1
<1> DEFINE rs == InUBrace(pos)
           r1 == B(DollarBrace(pos), "append", "IN_UBRACE", "open")
           r2 == B(One({"}"}, pos), "append", "IN_UNQUOTED", "close")
           r3 == B(Some(InBrace, pos), "append", "IN_UBRACE", "no")
           r4 == B(Dollar(pos), "append", "IN_UBRACE", "no")
           r5 == R(One(Char, pos), "skip", "IN_UBRACE", "-")
           Brace == {"}"}
<1>0. Len(text) \in Nat /\ pos \in Nat /\ text[pos] \in Char /\ DOMAIN text = 1 .. Len(text)
  OBVIOUS
<1>1. /\ r1.len = DollarBrace(pos) /\ r2.len = One(Brace, pos) /\ r3.len = Some(InBrace, pos)
      /\ r4.len = Dollar(pos) /\ r5.len = One(Char, pos)
  BY Zenon DEF R, B
<1>2. r1.do # "skip" /\ r2.do # "skip" /\ r3.do # "skip" /\ r4.do # "skip"
  BY DEF B
<1>3. rs = <<r1, r2, r3, r4, r5>>
  BY DEF InUBrace
<1> HIDE DEF rs, r1, r2, r3, r4, r5, Brace
<1>4. /\ DOMAIN rs = 1 .. 5
      /\ rs[1] = r1 /\ rs[2] = r2 /\ rs[3] = r3 /\ rs[4] = r4 /\ rs[5] = r5
  BY <1>3
<1>5. i = 5
  BY <1>2, <1>4 DEF rs
<1>6. One(Char, pos) = 1
  BY <1>0 DEF One
<1>7. \A j \in 1 .. 4 : rs[j].len < 1
  <2>1. rs[5].len = 1
    BY <1>1, <1>4, <1>6
  <2>2. \A j \in 1 .. 5 : rs[j].len < 1 \/ (rs[j].len = 1 /\ 5 <= j)
    BY <1>4, <1>5, <2>1 DEF IsBest, rs
  <2> QED
    BY <2>2
<1>8. One(Brace, pos) < 1 /\ Some(InBrace, pos) < 1 /\ Dollar(pos) < 1 /\ DollarBrace(pos) < 1
  BY <1>1, <1>4, <1>7
<1>9. text[pos] \notin Brace
  <2> SUFFICES ASSUME text[pos] \in Brace PROVE FALSE
    OBVIOUS
  <2>1. One(Brace, pos) = 1
    BY <1>0 DEF One
  <2> QED
    BY <1>8, <2>1
<1>10. text[pos] \notin InBrace
  <2> SUFFICES ASSUME text[pos] \in InBrace PROVE FALSE
    OBVIOUS
  <2> DEFINE T == {q \in pos .. Len(text) : text[q] \notin InBrace} \cup {Len(text) + 1}
  <2>1. T \subseteq Nat /\ T # {} /\ \A q \in T : q > pos
    BY <1>0
  <2>2. Min(T) > pos /\ Min(T) \in Nat
    BY <2>1, MinThere
  <2>3. Some(InBrace, pos) = Min(T) - pos
    BY <1>0 DEF Some, Run
  <2> HIDE DEF T
  <2> QED
    BY <1>0, <1>8, <2>2, <2>3
<1>11. text[pos] = "$"
  BY Zenon, <1>0, <1>9, <1>10 DEF InBrace, Brace
<1> SUFFICES ASSUME pos < Len(text) PROVE FALSE
  <2>1. InUBrace(pos)[i].len = 1
    BY <1>1, <1>4, <1>5, <1>6 DEF rs
  <2> QED
    BY <1>0, <2>1
<1>12. pos + 1 \in DOMAIN text /\ text[pos + 1] \in Char
  BY <1>0
<1>13. CASE text[pos + 1] = "{"
  <2> DEFINE w == <<text[pos], text[pos + 1]>>
  <2>1. DollarBrace(pos) = Word(w, pos)
    BY Zenon, <1>11, <1>13 DEF DollarBrace
  <2>2. Len(w) = 2
    OBVIOUS
  <2>3. SubSeq(text, pos, pos + 1) = w
    <3> DEFINE u == SubSeq(text, pos, pos + 1)
    <3>1. u \in Seq(Char) /\ Len(u) = 2 /\ u[1] = text[pos] /\ u[2] = text[pos + 1]
      BY <1>0, <1>12
    <3>2. w \in Seq(Char) /\ w[1] = text[pos] /\ w[2] = text[pos + 1]
      BY <1>0, <1>12
    <3> HIDE DEF u, w
    <3>3. \A k \in 1 .. 2 : u[k] = w[k]
      BY <3>1, <3>2
    <3>4. u = w
      BY <2>2, <3>1, <3>2, <3>3, SeqEqual
    <3> QED
      BY <3>4 DEF u
  <2>4. pos + Len(w) - 1 = pos + 1
    BY <1>0, <2>2
  <2> HIDE DEF w
  <2>5. Word(w, pos) = 2
    BY <1>0, <2>2, <2>3, <2>4 DEF Word, Stands
  <2> QED
    BY <1>8, <2>1, <2>5
<1>14. CASE text[pos + 1] # "{"
  <2> DEFINE S == Char \ {"{"}
             D == {"$"}
  <2>1. text[pos + 1] \in S /\ text[pos] \in D
    BY Zenon, <1>11, <1>12, <1>14
  <2>2. Dollar(pos) = IF One(D, pos) + One(S, pos + 1) = 2 THEN 2 ELSE 0
    BY Zenon DEF Dollar
  <2> HIDE DEF S, D
  <2>3. One(D, pos) = 1 /\ One(S, pos + 1) = 1
    BY <1>0, <1>12, <2>1 DEF One
  <2> QED
    BY <1>8, <2>2, <2>3
<1> QED
  BY <1>13, <1>14

\* Two stretches of the text, one behind the other.
LEMMA Joined ==
  ASSUME NEW S, NEW t \in Seq(S), NEW a \in 1 .. Len(t) + 1, NEW b \in a .. Len(t) + 1,
         NEW c \in b .. Len(t) + 1
  PROVE  /\ SubSeq(t, a, b - 1) \o SubSeq(t, b, c - 1) = SubSeq(t, a, c - 1)
         /\ Len(SubSeq(t, a, c - 1)) = c - a
         /\ SubSeq(SubSeq(t, a, c - 1), b - a + 1, c - a) = SubSeq(t, b, c - 1)
<1> DEFINE x == SubSeq(t, a, b - 1)
           y == SubSeq(t, b, c - 1)
           z == SubSeq(t, a, c - 1)
           w == SubSeq(z, b - a + 1, c - a)
<1>1. /\ Len(t) \in Nat /\ a \in Nat /\ b \in Nat /\ c \in Nat
      /\ 1 <= a /\ a <= b /\ b <= c /\ c <= Len(t) + 1
  OBVIOUS
<1>2. x \in Seq(S) /\ Len(x) = b - a /\ \A i \in 1 .. b - a : x[i] = t[a + i - 1]
  BY <1>1
<1>3. y \in Seq(S) /\ Len(y) = c - b /\ \A i \in 1 .. c - b : y[i] = t[b + i - 1]
  BY <1>1
<1>4. z \in Seq(S) /\ Len(z) = c - a /\ \A i \in 1 .. c - a : z[i] = t[a + i - 1]
  BY <1>1
<1> HIDE DEF x, y, z
<1>5. w \in Seq(S) /\ Len(w) = c - b /\ \A i \in 1 .. c - b : w[i] = z[b - a + i]
  <2> DEFINE lo == b - a + 1
             hi == c - a
  <2>1. lo \in 1 .. Len(z) + 1 /\ hi \in lo - 1 .. Len(z) /\ hi - lo + 1 = c - b
    BY <1>1, <1>4
  <2>2. /\ SubSeq(z, lo, hi) \in Seq(S)
        /\ Len(SubSeq(z, lo, hi)) = hi - lo + 1
        /\ \A i \in 1 .. hi - lo + 1 : SubSeq(z, lo, hi)[i] = z[lo + i - 1]
    <3> HIDE DEF lo, hi
    <3> QED
      BY <1>4, <2>1, SubSeqProperties
  <2>3. \A i \in 1 .. c - b : lo + i - 1 = b - a + i
    BY <1>1
  <2> QED
    BY <2>1, <2>2, <2>3
<1> HIDE DEF w
<1>6. w = y
  <2>1. \A i \in 1 .. c - b : w[i] = y[i]
    <3> TAKE i \in 1 .. c - b
    <3>1. b - a + i \in 1 .. c - a /\ a + (b - a + i) - 1 = b + i - 1
      BY <1>1
    <3> QED
      BY <1>3, <1>4, <1>5, <3>1
  <2> QED
    BY <1>3, <1>5, <2>1, SeqEqual
<1>7. x \o y = z
  <2>1. /\ x \o y \in Seq(S) /\ Len(x \o y) = c - a
        /\ \A i \in 1 .. c - a : (x \o y)[i] = IF i <= b - a THEN x[i] ELSE y[i - (b - a)]
    <3>1. Len(x) + Len(y) = c - a
      BY <1>1, <1>2, <1>3
    <3>2. x \o y \in Seq(S)
      BY <1>2, <1>3
    <3>3. /\ Len(x \o y) = Len(x) + Len(y)
          /\ \A i \in 1 .. Len(x) + Len(y) : (x \o y)[i] = IF i <= Len(x) THEN x[i] ELSE y[i - Len(x)]
      BY <1>2, <1>3, ConcatProperties
    <3> QED
      BY <1>2, <3>1, <3>2, <3>3
  <2>2. \A i \in 1 .. c - a : (x \o y)[i] = z[i]
    <3> TAKE i \in 1 .. c - a
    <3>1. CASE i <= b - a
      BY <1>1, <1>2, <1>4, <2>1, <3>1
    <3>2. CASE ~ (i <= b - a)
      <4>1. i - (b - a) \in 1 .. c - b /\ b + (i - (b - a)) - 1 = a + i - 1
        BY <1>1, <3>2
      <4> QED
        BY <1>1, <1>3, <1>4, <2>1, <3>2, <4>1
    <3> QED
      BY <3>1, <3>2
  <2> QED
    BY <1>4, <2>1, <2>2, SeqEqual
<1> QED
  BY <1>4, <1>6, <1>7 DEF x, y, z, w

\* What on_token_action leaves: yytext is the text from its first character to the next
\* one to match, and both places are counted as from the beginning.
LEMMA MatchInPlace ==
  ASSUME InPlace, NEW r, Within(pos, r.len), Matched(r)
  PROVE  /\ text' = text /\ pos' = pos + r.len /\ pos' \in pos .. Len(text) + 1
         /\ base' = Begins /\ Begins \in 1 .. pos
         /\ inMore \/ Begins = pos
         /\ yytext(r) = SubSeq(text, Begins, pos' - 1)
         /\ moreBase' = pos' - base'
         /\ tokAt' = Spot(text, Begins)
         /\ at' = Spot(text, pos')
<1>1. Len(text) \in Nat /\ pos \in Nat /\ 1 <= pos /\ pos <= Len(text) + 1 /\ text \in Seq(Char)
  BY DEF InPlace
<1>2. pos' = pos + r.len /\ pos' \in pos .. Len(text) + 1 /\ text' = text /\ pos' \in Nat
  BY <1>1 DEF Matched, Within
<1>3. Begins \in 1 .. pos /\ (inMore \/ Begins = pos) /\ Held = pos - Begins
  BY <1>1 DEF InPlace, Begins, Held
<1>4. yytext(r) = SubSeq(text, Begins, pos' - 1)
  <2>1. yytext(r) = SubSeq(text, Begins, pos + r.len - 1)
    BY DEF yytext
  <2>2. pos + r.len - 1 = pos' - 1
    BY <1>1, <1>2 DEF Within
  <2> QED
    BY <2>1, <2>2
<1>5. pos \in Begins .. Len(text) + 1 /\ Begins \in 1 .. Len(text) + 1
  BY <1>1, <1>3
<1>6. /\ Len(yytext(r)) = pos' - Begins
      /\ SubSeq(yytext(r), pos - Begins + 1, pos' - Begins) = SubSeq(text, pos, pos' - 1)
  BY <1>1, <1>2, <1>4, <1>5, Joined
<1>7. at' = After(at, SubSeq(text, pos, pos' - 1))
  BY <1>3, <1>6 DEF Matched
<1>8. at' = Spot(text, pos')
  BY <1>1, <1>2, <1>7, CountedOn DEF InPlace
<1>9. tokAt' = Spot(text, Begins)
  BY DEF InPlace, Matched, Begins
<1> QED
  BY <1>2, <1>3, <1>4, <1>6, <1>8, <1>9 DEF Matched

\* A rule that ends what was gathered, or gathers nothing.
LEMMA PlainInPlace ==
  ASSUME InPlace, NEW r, Within(pos, r.len), Matched(r), Begin(r.next),
         r.next \in BareModes => r.next = "IN_UBRACE" /\ pos + r.len > Len(text)
  PROVE  InPlace'
<1>1. Begins \in 1 .. pos' /\ pos' \in 1 .. Len(text) + 1 /\ text' = text /\ pos' = pos + r.len
  <2>1. Len(text) \in Nat /\ pos \in Nat /\ 1 <= pos
    BY DEF InPlace
  <2> QED
    BY <2>1, MatchInPlace
<1>2. ~ inMore' /\ ~ Gathering'
  <2>1. Len(text) \in Nat /\ pos' \in Nat /\ mode' = r.next /\ inMore' = FALSE
    BY <1>1 DEF InPlace, Begin
  <2> QED
    BY <1>1, <2>1 DEF Gathering, BareModes
<1>3. at' = Spot(text', pos') /\ tokAt' = Spot(text', Begins)
  BY <1>1, MatchInPlace
<1>4. text' \in Seq(Char) /\ pos' \in 1 .. Len(text') + 1
  BY <1>1 DEF InPlace
<1>5. \E p \in 1 .. pos' : tokAt' = Spot(text', p)
  BY <1>1, <1>3
<1> QED
  BY <1>2, <1>3, <1>4, <1>5 DEF InPlace

\* At the end of an expression no rule but flex's own matches.
EchoesLast(r) == r.do = "skip" /\ mode = "IN_UBRACE" => pos + r.len > Len(text)

LEMMA ScanInPlace ==
  ASSUME InPlace, pos <= Len(text), NEW r, Keeps(mode, pos, r), Within(pos, r.len),
         EchoesLast(r), Scan(r)
  PROVE  InPlace'
<1>0. Len(text) \in Nat /\ pos \in Nat /\ 1 <= pos /\ text \in Seq(Char)
  BY DEF InPlace
<1>1. CASE /\ Skip(r) \/ Token(r) \/ String(r) \/ Path(r) \/ LexError(r) \/ Quote(r) \/ Whitespace(r)
              \/ OpenTriple(r) \/ TripleBody(r) \/ CloseTriple(r) \/ EndMore(r)
  <2>1. Matched(r) /\ Begin(r.next) /\ r.do \notin {"begin", "append"}
    BY <1>1 DEF Skip, Token, String, Path, LexError, Quote, Whitespace, OpenTriple, TripleBody,
                CloseTriple, EndMore
  <2>2. r.next \in BareModes => r.next = "IN_UBRACE" /\ pos + r.len > Len(text)
    BY <2>1 DEF Keeps, KeepsPieces, EchoesLast
  <2> QED
    BY <2>1, <2>2, PlainInPlace
<1>2. CASE BeginUnquoted(r)
  <2>1. Matched(r) /\ inMore' = FALSE /\ acc' = yytext(r) /\ accAt' = tokAt'
    BY <1>2 DEF BeginUnquoted, Begin
  <2>2. Begins \in 1 .. pos' /\ pos' \in 1 .. Len(text) + 1 /\ text' = text
    BY <1>0, <2>1, MatchInPlace
  <2>3. at' = Spot(text', pos') /\ tokAt' = Spot(text', Begins) /\ acc' = SubSeq(text', Begins, pos' - 1)
    BY <2>1, MatchInPlace
  <2> QED
    BY <1>0, <2>1, <2>2, <2>3 DEF InPlace
<1>3. CASE AppendUnquoted(r)
  <2>1. Matched(r) /\ inMore' = FALSE /\ acc' = acc \o yytext(r) /\ accAt' = accAt /\ mode \in BareModes
    BY <1>3 DEF AppendUnquoted, Begin, Gathered, Keeps, KeepsPieces
  <2>2. Gathering /\ ~ inMore
    BY <2>1 DEF InPlace, Gathering, BareModes, ArrayBraceModes
  <2>3. PICK p \in 1 .. pos : accAt = Spot(text, p) /\ acc = SubSeq(text, p, pos - 1)
    BY <2>2 DEF InPlace
  <2>4. /\ pos' \in pos .. Len(text) + 1 /\ text' = text /\ at' = Spot(text', pos')
        /\ yytext(r) = SubSeq(text, pos, pos' - 1)
        /\ tokAt' = Spot(text', pos)
    BY <2>1, <2>2, MatchInPlace
  <2>5. p \in 1 .. Len(text) + 1 /\ pos \in p .. Len(text) + 1 /\ p \in 1 .. pos' /\ pos \in 1 .. pos'
        /\ pos' \in 1 .. Len(text) + 1
    BY <1>0, <2>4
  <2>6. acc' = SubSeq(text', p, pos' - 1)
    BY <1>0, <2>1, <2>3, <2>4, <2>5, Joined
  <2> QED
    BY <1>0, <2>1, <2>3, <2>4, <2>5, <2>6 DEF InPlace
<1>4. CASE Flush(r)
  <2>1. mode = "IN_UNQUOTED" /\ r.next \notin BareModes
    BY <1>4 DEF Flush, Keeps, KeepsPieces
  <2>2. /\ text' = text /\ pos' = pos /\ at' = at /\ tokAt' = accAt /\ inMore' = FALSE
        /\ mode' = r.next
    BY <1>4 DEF Flush, Back, Begin
  <2>3. ~ Gathering'
    BY <2>1, <2>2 DEF Gathering, BareModes
  <2>4. \E p \in 1 .. pos : accAt = Spot(text, p)
    BY <2>1 DEF InPlace, Gathering
  <2> QED
    BY <2>2, <2>3, <2>4 DEF InPlace
<1>5. CASE More(r)
  <2>1. Matched(r) /\ mode' \in ArrayBraceModes /\ inMore' = TRUE
    BY <1>5 DEF More, AfterBrace, Keeps, KeepsPieces
  <2>2. /\ Begins \in 1 .. pos' /\ pos' \in 1 .. Len(text) + 1 /\ text' = text
        /\ base' = Begins /\ moreBase' = pos' - base'
    BY <1>0, <2>1, MatchInPlace
  <2>3. at' = Spot(text', pos') /\ tokAt' = Spot(text', base')
    BY <2>1, MatchInPlace
  <2>4. ~ Gathering'
    BY <2>1 DEF Gathering, ArrayBraceModes
  <2> QED
    BY <1>0, <2>1, <2>2, <2>3, <2>4 DEF InPlace
<1> QED
  BY <1>1, <1>2, <1>3, <1>4, <1>5 DEF Scan

LEMMA EndInPlace == ASSUME InPlace, EndOfText PROVE InPlace'
<1>1. text' = text /\ pos' = pos /\ at' = at /\ inMore' = inMore /\ moreBase' = moreBase
  BY DEF EndOfText
<1>2. inMore => base' = base
  BY DEF EndOfText, Begins
<1>3. pos > Len(text)
  BY DEF EndOfText
<1>4. CASE mode = "IN_UNQUOTED"
  <2>1. tokAt' = accAt /\ mode' = "BODY" /\ ~ inMore
    BY <1>4 DEF EndOfText, InPlace, ArrayBraceModes
  <2>2. \E p \in 1 .. pos : accAt = Spot(text, p)
    BY <1>4 DEF InPlace, Gathering
  <2>3. ~ Gathering'
    BY <2>1 DEF Gathering
  <2> QED
    BY <1>1, <2>1, <2>2, <2>3 DEF InPlace
<1>5. CASE mode # "IN_UNQUOTED"
  <2>1. tokAt' = tokAt /\ mode' = mode
    BY <1>5 DEF EndOfText
  <2>2. ~ Gathering'
    <3>1. Len(text) \in Nat /\ pos \in Nat
      BY DEF InPlace
    <3> QED
      BY <1>1, <1>3, <1>5, <2>1, <3>1 DEF Gathering
  <2> QED
    BY <1>1, <1>2, <2>1, <2>2 DEF InPlace
<1> QED
  BY <1>4, <1>5

----------------------------------------------------------------------------
(* What the parser is handed.                                               *)

\* What is handed over by a step of the scanner.
Hands == la' # la /\ la'.kind # NoToken.kind
IsText == \E p \in 1 .. pos' : IsOfTheText(la', p, pos')

LEMMA LineColumn == \A p : <<Line(p), Column(p)>> = Spot(text, p)
  BY DEF Line, Column, Spot

LEMMA TextlessIsText ==
  ASSUME NEW tok, Returned(tok), NEW p \in 1 .. pos', tokAt' = Spot(text, p), at' = Spot(text, pos')
  PROVE  IsText
<1>1. la'.type = "none" /\ la'.loc = [begin |-> tokAt', end |-> at']
  BY DEF Returned, Take
<1> QED
  BY <1>1, LineColumn DEF IsText, IsOfTheText

LEMMA TextedIsText ==
  ASSUME NEW tok \in Texted, NEW val, ReturnedText(tok, val),
         NEW p \in 1 .. pos', tokAt' = Spot(text, p), at' = Spot(text, pos'),
         \/ mode \in TripleModes
         \/ tok # "include path" /\ val = SubSeq(text, p, pos' - 1)
         \/ tok = "include path" /\ val = Trimmed(SubSeq(text, p, pos' - 1))
  PROVE  IsText
<1>1. /\ la'.kind = yytranslate(Code(tok)) /\ la'.value = val
      /\ la'.loc = [begin |-> tokAt', end |-> at']
  BY DEF ReturnedText, Take
<1>2. la'.kind = Kind[tok]
  BY <1>1, TokensAssumption
<1>3. la'.kind = Kind["include path"] <=> tok = "include path"
  BY <1>2, PathAssumption
<1> QED
  BY <1>1, <1>3, LineColumn DEF IsText, IsOfTheText, TripleModes

LEMMA ScanHandsText ==
  ASSUME InPlace, pos <= Len(text), NEW r, Keeps(mode, pos, r), Within(pos, r.len), Scan(r), Hands
  PROVE  IsText
<1>0. Len(text) \in Nat /\ pos \in Nat /\ 1 <= pos
  BY DEF InPlace
<1>1. Goes => FALSE
  BY DEF Goes, Hands
<1>2. ~ (Skip(r) \/ LexError(r) \/ Whitespace(r) \/ BeginUnquoted(r) \/ AppendUnquoted(r)
         \/ OpenTriple(r) \/ TripleBody(r) \/ More(r))
  BY <1>1 DEF Skip, LexError, Whitespace, BeginUnquoted, AppendUnquoted, OpenTriple, TripleBody, More
<1>3. ASSUME Matched(r)
      PROVE  /\ Begins \in 1 .. pos' /\ tokAt' = Spot(text, Begins) /\ at' = Spot(text, pos')
             /\ yytext(r) = SubSeq(text, Begins, pos' - 1)
  BY <1>0, <1>3, MatchInPlace
<1>4. CASE Token(r) \/ Quote(r)
  <2>1. Matched(r) /\ Returned(r.tok)
    BY <1>4 DEF Token, Quote
  <2> QED
    BY <1>3, <2>1, TextlessIsText
<1>5. CASE String(r) \/ EndMore(r)
  <2>1. Matched(r) /\ ReturnedText(r.tok, yytext(r)) /\ r.tok \in Texted /\ r.tok # "include path"
    BY <1>5 DEF String, EndMore, Keeps, KeepsTokens
  <2> QED
    BY <1>3, <2>1, TextedIsText
<1>6. CASE Path(r)
  <2>1. Matched(r) /\ ReturnedText(r.tok, Trimmed(yytext(r))) /\ r.tok = "include path"
    BY <1>6 DEF Path, Keeps, KeepsTokens
  <2>2. r.tok \in Texted
    BY <2>1 DEF Texted
  <2> QED
    BY <1>3, <2>1, <2>2, TextedIsText
<1>7. CASE CloseTriple(r)
  <2>1. Matched(r) /\ ReturnedText("unquoted string", triple) /\ mode \in TripleModes
    BY <1>7 DEF CloseTriple, Keeps, KeepsPieces
  <2>2. "unquoted string" \in Texted
    BY DEF Texted
  <2> QED
    BY <1>3, <2>1, <2>2, TextedIsText
<1>8. CASE Flush(r)
  <2>1. /\ pos' = pos /\ at' = at /\ tokAt' = accAt /\ ReturnedText(r.tok, acc)
        /\ mode = "IN_UNQUOTED" /\ r.tok \in Texted /\ r.tok # "include path"
    BY <1>8 DEF Flush, Back, Keeps, KeepsPieces, KeepsTokens
  <2>2. PICK p \in 1 .. pos : accAt = Spot(text, p) /\ acc = SubSeq(text, p, pos - 1)
    BY <2>1 DEF InPlace, Gathering
  <2>3. /\ tokAt' = Spot(text, p) /\ at' = Spot(text, pos') /\ p \in 1 .. pos'
        /\ acc = SubSeq(text, p, pos' - 1)
    BY <2>1, <2>2 DEF InPlace
  <2> QED
    BY <2>1, <2>3, TextedIsText
<1> QED
  BY <1>2, <1>4, <1>5, <1>6, <1>7, <1>8 DEF Scan

LEMMA EndHandsText == ASSUME InPlace, EndOfText PROVE IsText
<1>1. pos' = pos /\ at' = Spot(text, pos')
  BY DEF EndOfText, InPlace
<1>2. CASE mode = "IN_UNQUOTED"
  <2>1. tokAt' = accAt /\ ReturnedText("unquoted string", acc)
    BY <1>2 DEF EndOfText
  <2>2. PICK p \in 1 .. pos : accAt = Spot(text, p) /\ acc = SubSeq(text, p, pos - 1)
    BY <1>2 DEF InPlace, Gathering
  <2>3. "unquoted string" \in Texted /\ "unquoted string" # "include path"
    BY DEF Texted
  <2>4. tokAt' = Spot(text, p) /\ p \in 1 .. pos' /\ acc = SubSeq(text, p, pos' - 1)
    BY <1>1, <2>1, <2>2
  <2> QED
    BY <1>1, <2>1, <2>3, <2>4, TextedIsText
<1>3. CASE mode # "IN_UNQUOTED"
  <2>1. tokAt' = tokAt /\ Returned("end of file")
    BY <1>3 DEF EndOfText
  <2>2. PICK p \in 1 .. pos : tokAt = Spot(text, p)
    BY DEF InPlace
  <2> QED
    BY <1>1, <2>1, <2>2, TextlessIsText
<1> QED
  BY <1>2, <1>3

LEMMA InitInPlace == Init => InPlace
<1> SUFFICES ASSUME Init PROVE InPlace
  OBVIOUS
<1>1. PICK t \in Texts : LexInit(t)
  BY DEF Init
<1>2. text \in Seq(Char) /\ pos = 1 /\ mode = "BODY" /\ at = <<1, 1>> /\ tokAt = <<1, 1>> /\ inMore = FALSE
  BY <1>1, TextsAssumption DEF LexInit
<1>3. Spot(text, 1) = <<1, 1>>
  <2>1. Ends(1, 1) = {}
    BY DEF Ends
  <2>2. Max({0}) = 0
    BY MaxIs
  <2>3. Spot(text, 1) = <<1 + Cardinality({}), 1 - Max({0} \cup {})>>
    BY <2>1, SpotIs
  <2>4. {0} \cup {} = {0}
    OBVIOUS
  <2> QED
    BY <2>2, <2>3, <2>4, FS_EmptySet
<1>4. ~ Gathering
  BY <1>2 DEF Gathering
<1>5. 1 \in 1 .. Len(text) + 1 /\ 1 \in 1 .. 1
  BY <1>2
<1> QED
  BY <1>2, <1>3, <1>4, <1>5 DEF InPlace

\* The rule that fires.
LEMMA Fires ==
  ASSUME InPlace, Lex, ~ EndOfText
  PROVE  /\ pos <= Len(text)
         /\ \E r : Keeps(mode, pos, r) /\ Within(pos, r.len) /\ EchoesLast(r) /\ Scan(r)
<1>1. pos <= Len(text)
  BY DEF Lex
<1>2. PICK i \in DOMAIN Rules(mode, pos) : IsBest(Rules(mode, pos), i) /\ Scan(Rules(mode, pos)[i])
  BY DEF Lex
<1> DEFINE r == Rules(mode, pos)[i]
<1>3. Keeps(mode, pos, r)
  BY RulesKeep DEF AllKeep
<1>4. text \in Seq(Char) /\ Len(text) \in Nat /\ pos \in 1 .. Len(text) + 1 /\ pos \in 1 .. Len(text)
  BY <1>1 DEF InPlace
<1>5. AllPatterns(pos)
  BY <1>4, PatternsWithin
<1>6. Within(pos, r.len)
  BY <1>3, <1>5 DEF Keeps
<1>7. EchoesLast(r)
  <2> SUFFICES ASSUME r.do = "skip", mode = "IN_UBRACE" PROVE pos + r.len > Len(text)
    BY DEF EchoesLast
  <2>1. Rules(mode, pos) = InUBrace(pos)
    BY DEF Rules
  <2>2. pos + r.len = Len(text) + 1
    BY <1>2, <1>4, <2>1, EchoedIsLast
  <2> QED
    BY <1>4, <2>2
<1> QED
  BY <1>1, <1>2, <1>3, <1>6, <1>7

LEMMA NextInPlace == InPlace /\ [Next]_vars => InPlace'
<1> SUFFICES ASSUME InPlace, [Next]_vars PROVE InPlace'
  OBVIOUS
<1>1. CASE Lex /\ EndOfText
  BY <1>1, EndInPlace
<1>2. CASE Lex /\ ~ EndOfText
  BY <1>2, Fires, ScanInPlace
<1>3. CASE UNCHANGED lexVars
  BY <1>3 DEF lexVars, placeVars, valueVars, InPlace, Gathering
<1> QED
  BY <1>1, <1>2, <1>3 DEF Next, vars

LEMMA NextHandsText == InPlace /\ [Next]_vars => (Hands => IsText)
<1> SUFFICES ASSUME InPlace, [Next]_vars, Hands PROVE IsText
  OBVIOUS
<1>1. CASE Lex /\ EndOfText
  BY <1>1, EndHandsText
<1>2. CASE Lex /\ ~ EndOfText
  BY <1>2, Fires, ScanHandsText
<1>3. CASE ParserStep \/ UNCHANGED vars
  <2>1. la' = la \/ la' = NoToken
    BY <1>3 DEF ParserStep, Shift, Reduce, Fail, Pop, Abort, Accept, vars, parserVars
  <2> QED
    BY <2>1 DEF Hands
<1> QED
  BY <1>1, <1>2, <1>3 DEF Next

\* For every text: what the scanner hands to the parser is the text from its first
\* character to the next one to match, at the lines and columns that counting from the
\* beginning of the text gives; on_token_action (Node.cpp:645) counts on from match to
\* match, and neither yymore(), yyless() nor a value gathered from pieces leads it astray.
THEOREM TokensStand == Spec => TokensAreTheText
<1>1. InPlace /\ [Next]_vars =>
        [la' # la /\ la'.kind # NoToken.kind => \E p \in 1 .. pos' : IsOfTheText(la', p, pos')]_vars
  BY NextHandsText DEF Hands, IsText
<1> QED
  BY InitInPlace, NextInPlace, <1>1, PTL DEF Spec, TokensAreTheText
====
