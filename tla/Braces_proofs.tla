---- MODULE Braces_proofs ----
(***************************************************************************)
(* A reading makes progress (ReadingProgresses) and says what the Field    *)
(* stands for (AnswerIsMeaning, ThrownWithCause, DiesInCircle), whatever   *)
(* the texts, the tree and the environment.                                *)
(*                                                                         *)
(* Progress.  The text expand_all goes over is shorter behind a brace than *)
(* in front of it because the "}" it finds is behind the "${".  The nested *)
(* braces evaluate goes over are texts, so that they can be counted and    *)
(* looked into, because each was cut out of a text with the "}" that       *)
(* answers it: within a brace that is closed every brace is closed.        *)
(*                                                                         *)
(* Meaning.                                                                *)
(* 1. The pieces that evaluate cuts a brace into are the spellings of its  *)
(*    parts (PiecesAre): at each part the text is nested as deep as at the *)
(*    first, so that the scan over the text begins and ends where the part *)
(*    does.  So the frame made of a brace is left to do what the brace     *)
(*    stands for (EvaluationMeans).                                        *)
(* 2. The brace expand_all finds in a text is the next one of its tree     *)
(*    (NextBrace), and what is behind it is spelled by the rest.           *)
(* 3. What each call on the stack owes the one below it is what it has     *)
(*    gathered, then what it gets from above, then what its rest stands    *)
(*    for, with its command applied (Chain).  Every step keeps what the    *)
(*    outermost call owes.                                                 *)
(* 4. As many steps from Field to Field as there are names find out what   *)
(*    there is to find out (Settled), so that in the end a Field stands    *)
(*    for what the Fields it refers to stand for: an answer or an exception*)
(*    is what the outermost call owed.                                     *)
(* 5. Taken level by level, a reading that is known to end within the      *)
(*    levels that are left finds room on the stack for what they call:     *)
(*    it dies only if the outermost Field is not known to.                 *)
(***************************************************************************)
EXTENDS BracesMeaning, SequenceTheorems, Recursion, TLAPS

Inside(b) == SubSeq(b, 2, Len(b) - 1)

\* What `${...}` is cut out as: all that is opened in it is closed in it.
Closed == {b \in Seq(Token) : Level(Inside(b), Len(Inside(b))) = 0}

\* A piece of what stands in braces.
Piece == {p \in Seq(Token) : IsBrace(p) => p \in Closed}

IsFrame(frame) ==
  /\ frame = [kind |-> frame.kind, acc |-> frame.acc, text |-> frame.text, nested |-> frame.nested]
  /\ frame.text \in Seq(Token)
  /\ frame.nested \in Seq(Closed)

Frames(s) == (\E F : s \in Seq(F)) /\ \A k \in 1 .. Len(s) : IsFrame(s[k])

\* Outside a reading nothing is called.
Reading ==
  /\ field \in UNION {[D -> Value] : D \in SUBSET Name}
  /\ Frames(stack)
  /\ stack # <<>> <=> phase = "reading"

----------------------------------------------------------------------------
(* Nesting.                                                                 *)

\* Where a part of a text stands.
LEMMA SubText ==
  ASSUME NEW X, NEW t \in Seq(X), NEW m \in 1 .. Len(t) + 1, NEW n \in m - 1 .. Len(t)
  PROVE  /\ SubSeq(t, m, n) \in Seq(X)
         /\ Len(SubSeq(t, m, n)) = n - m + 1
         /\ \A k \in 1 .. n - m + 1 : SubSeq(t, m, n)[k] = t[m - 1 + k]
<1> DEFINE s == SubSeq(t, m, n)
           L == n - m + 1
<1>1. L \in Nat /\ Len(t) \in Nat /\ n \in Nat /\ m \in Nat
  OBVIOUS
<1>2. s = [k \in 1 .. L |-> t[m - 1 + k]]
  <2>1. s = [k \in 1 .. L |-> t[k + m - 1]]
    OBVIOUS
  <2>2. ASSUME NEW k \in 1 .. L PROVE k + m - 1 = m - 1 + k
    BY <1>1
  <2> QED BY <2>1, <2>2
<1>3. ASSUME NEW k \in 1 .. L PROVE t[m - 1 + k] \in X
  <2>1. m - 1 + k \in 1 .. Len(t)
    BY <1>1
  <2> QED BY <2>1
<1>4. s \in [1 .. L -> X]
  BY <1>2, <1>3
<1>5. s \in Seq(X) /\ Len(s) = L
  <2> HIDE DEF s, L
  <2> QED BY <1>1, <1>4
<1> QED BY <1>2, <1>5

LEMMA CountStep ==
  ASSUME NEW t, NEW x, NEW i \in Nat \ {0}
  PROVE  /\ Count(t, i - 1, x) \in Nat
         /\ Count(t, i, x) = Count(t, i - 1, x) + IF t[i] = x THEN 1 ELSE 0
<1> DEFINE A == {k \in 1 .. i - 1 : t[k] = x}
           B == {k \in 1 .. i : t[k] = x}
<1>1. IsFiniteSet(A) /\ i \notin A
  <2>1. IsFiniteSet(1 .. i - 1) /\ A \subseteq 1 .. i - 1
    BY FS_Interval
  <2> QED BY <2>1, FS_Subset
<1>2. Cardinality(A) \in Nat
  BY <1>1, FS_CardinalityType
<1>3. CASE t[i] = x
  <2>1. B = A \cup {i}
    BY <1>3
  <2>2. Cardinality(A \cup {i}) = Cardinality(A) + 1
    <3> HIDE DEF A
    <3> QED BY <1>1, FS_AddElement
  <2> QED BY <1>2, <1>3, <2>1, <2>2 DEF Count
<1>4. CASE t[i] # x
  <2>1. B = A
    BY <1>4
  <2> QED BY <1>2, <1>4, <2>1 DEF Count
<1> QED BY <1>3, <1>4

LEMMA Differ == "${" # "}"
  OBVIOUS

\* A token opens a brace, closes one or leaves the level as it is.
Steps(new, old, token, o, c) ==
  /\ new \in Int /\ old \in Int
  /\ token = o => new = old + 1
  /\ token = c => new = old - 1
  /\ token \notin {o, c} => new = old

LEMMA LevelStep ==
  ASSUME NEW t, NEW i \in Nat \ {0}
  PROVE  Steps(Level(t, i), Level(t, i - 1), t[i], "${", "}")
<1> DEFINE o == "${"
           c == "}"
<1>1. o # c
  BY Differ
<1>2. Level(t, i) = Count(t, i, o) - Count(t, i, c)
      /\ Level(t, i - 1) = Count(t, i - 1, o) - Count(t, i - 1, c)
  BY Zenon DEF Level
<1> SUFFICES Steps(Level(t, i), Level(t, i - 1), t[i], o, c)
  OBVIOUS
<1> HIDE DEF o, c
<1>3. Count(t, i - 1, o) \in Nat /\ Count(t, i - 1, c) \in Nat
  BY CountStep
<1>4. Count(t, i, o) = Count(t, i - 1, o) + IF t[i] = o THEN 1 ELSE 0
  BY CountStep
<1>5. Count(t, i, c) = Count(t, i - 1, c) + IF t[i] = c THEN 1 ELSE 0
  BY CountStep
<1> QED BY <1>1, <1>2, <1>3, <1>4, <1>5 DEF Steps

\* Two places before which the levels differ by l, at one token.
LEMMA SameStep ==
  ASSUME NEW x, NEW y, NEW u, NEW v, NEW token, NEW o, NEW c, NEW l \in Int,
         Steps(x, y, token, o, c), Steps(u, v, token, o, c), v = y - l
  PROVE  u = x - l
<1>1. x \in Int /\ y \in Int /\ u \in Int /\ v \in Int
  BY DEF Steps
<1>2. CASE token = o
  BY <1>1, <1>2 DEF Steps
<1>3. CASE token = c
  BY <1>1, <1>3 DEF Steps
<1>4. CASE token \notin {o, c}
  BY <1>1, <1>4 DEF Steps
<1> QED BY <1>2, <1>3, <1>4

LEMMA LevelNone == ASSUME NEW t PROVE Level(t, 0) = 0
<1> DEFINE o == "${"
           c == "}"
<1>1. Level(t, 0) = Count(t, 0, o) - Count(t, 0, c)
  BY Zenon DEF Level
<1>2. ASSUME NEW x PROVE Count(t, 0, x) = 0
  <2>1. {k \in 1 .. 0 : t[k] = x} = {}
    OBVIOUS
  <2> QED BY <2>1, FS_EmptySet DEF Count
<1> HIDE DEF o, c
<1> QED BY <1>1, <1>2

LEMMA LevelType == ASSUME NEW t, NEW i \in Nat PROVE Level(t, i) \in Int
<1>1. CASE i = 0
  BY <1>1, LevelNone
<1>2. CASE i # 0
  <2>1. Steps(Level(t, i), Level(t, i - 1), t[i], "${", "}")
    BY <1>2, LevelStep
  <2> QED BY Zenon, <2>1 DEF Steps
<1> QED BY <1>1, <1>2

\* The level in a part of a text is the one in the text, less that in front of it.
LEMMA LevelShift ==
  ASSUME NEW X, NEW t \in Seq(X), NEW a \in 0 .. Len(t), NEW b \in a .. Len(t),
         NEW k \in 0 .. b - a
  PROVE  Level(SubSeq(t, a + 1, b), k) = Level(t, a + k) - Level(t, a)
<1> DEFINE u == SubSeq(t, a + 1, b)
           Same(n) == Level(u, n) = Level(t, a + n) - Level(t, a)
           D == {n \in 0 .. b - a : Same(n)}
<1>1. a \in Nat /\ b - a \in Nat /\ Level(t, a) \in Int /\ Len(t) \in Nat
  BY LevelType
<1>2. 0 \in D
  <2>1. Level(u, 0) = 0
    BY LevelNone
  <2>2. a + 0 = a /\ Level(t, a) - Level(t, a) = 0
    BY <1>1
  <2> HIDE DEF u
  <2> QED BY <1>1, <2>1, <2>2
<1>3. ASSUME NEW n \in 1 .. b - a, n - 1 \in D PROVE n \in D
  <2> DEFINE m == a + n
  <2>1. m \in Nat \ {0} /\ n \in Nat \ {0} /\ a + (n - 1) = m - 1
    BY <1>1
  <2>2. u[n] = t[m]
    <3>1. a + 1 \in 1 .. Len(t) + 1 /\ b \in (a + 1) - 1 .. Len(t) /\ n \in 1 .. b - (a + 1) + 1
          /\ (a + 1) - 1 + n = m
      BY <1>1
    <3> QED BY <3>1, SubText
  <2>3. Level(u, n - 1) = Level(t, m - 1) - Level(t, a)
    BY <1>3, <2>1
  <2> HIDE DEF u, m
  <2>4. Steps(Level(t, m), Level(t, m - 1), t[m], "${", "}")
    BY <2>1, LevelStep
  <2>5. Steps(Level(u, n), Level(u, n - 1), u[n], "${", "}")
    BY <2>1, LevelStep
  <2>6. Level(u, n) = Level(t, m) - Level(t, a)
    <3> DEFINE o == "${"
               c == "}"
               l == Level(t, a)
               v == Level(u, n - 1)
               y == Level(t, m - 1)
               token == t[m]
    <3>1. /\ Steps(Level(t, m), y, token, o, c) /\ Steps(Level(u, n), v, token, o, c)
          /\ v = y - l /\ l \in Int
      BY Zenon, <1>1, <2>2, <2>3, <2>4, <2>5
    <3> HIDE DEF o, c, l, v, y, token
    <3>2. Level(u, n) = Level(t, m) - l
      BY <3>1, SameStep
    <3> QED BY Zenon, <3>2 DEF l
  <2>7. Same(n)
    BY <2>6 DEF m
  <2> QED BY <2>7
<1>4. D = 0 .. b - a
  <2> DEFINE L == b - a
  <2>1. L \in Nat /\ D \in SUBSET (0 .. L) /\ 0 \in D /\ \A n \in 1 .. L : n - 1 \in D => n \in D
    BY <1>1, <1>2, <1>3
  <2> HIDE DEF L, D
  <2>2. D = 0 .. L
    BY <2>1, UpToInduction
  <2> QED BY <2>2 DEF L
<1>5. k \in D
  BY <1>4
<1> QED BY <1>5

----------------------------------------------------------------------------
(* The "}" that answers a "${".                                             *)

\* When there is one it is behind the "${", it is the first to go below its level, and
\* what is between the two is closed.
LEMMA ClosingFacts ==
  ASSUME NEW t \in Seq(Token), NEW i \in Opens(t), Shuts(t, i) # {}
  PROVE  /\ i \in 1 .. Len(t)
         /\ Closing(t, i) \in i + 1 .. Len(t)
         /\ SubSeq(t, i, Closing(t, i)) \in Closed
<1> DEFINE j == Closing(t, i)
           u == SubSeq(t, i, j)
           in == SubSeq(t, i + 1, j - 1)
<1>1. i \in 1 .. Len(t) /\ Len(t) \in Nat
  BY Zenon, LenProperties DEF Opens
<1>2. \A k \in 1 .. Len(t) : Level(t, k) \in Int
  BY LevelType
<1>3. j \in Shuts(t, i) /\ \A k \in Shuts(t, i) : j <= k
  <2>1. Shuts(t, i) \subseteq Nat
    BY <1>1 DEF Shuts
  <2>2. \E k \in Shuts(t, i) : \A m \in Shuts(t, i) : k <= m
    BY <2>1, LeastElement
  <2> QED BY <2>2 DEF Closing
<1> HIDE DEF j
<1>4. j \in i .. Len(t) /\ Level(t, j) < Level(t, i)
      /\ \A k \in i .. Len(t) : Level(t, k) < Level(t, i) => j <= k
  BY <1>3 DEF Shuts
<1>5. j \in i + 1 .. Len(t)
  BY <1>1, <1>2, <1>4
<1>6. Level(t, j - 1) = Level(t, i)
  <2>1. j - 1 \in i .. Len(t) /\ ~ (j <= j - 1) /\ j \in Nat \ {0}
    BY <1>1, <1>5
  <2>2. ~ (Level(t, j - 1) < Level(t, i))
    BY <1>4, <2>1
  <2>3. Steps(Level(t, j), Level(t, j - 1), t[j], "${", "}")
    BY <2>1, LevelStep
  <2> DEFINE o == "${"
             c == "}"
  <2>4. Steps(Level(t, j), Level(t, j - 1), t[j], o, c)
    BY <2>3
  <2>5. Level(t, i) \in Int
    BY <1>1, <1>2
  <2> HIDE DEF o, c
  <2> QED BY <1>4, <2>2, <2>4, <2>5 DEF Steps
<1>7. Inside(u) = in /\ u \in Seq(Token)
  <2> DEFINE L == j - i + 1
  <2>1. /\ i \in 1 .. Len(t) + 1 /\ j \in i - 1 .. Len(t)
        /\ i + 1 \in 1 .. Len(t) + 1 /\ j - 1 \in (i + 1) - 1 .. Len(t)
        /\ L \in Nat /\ 2 \in 1 .. L + 1 /\ L - 1 \in 2 - 1 .. L
        /\ (L - 1) - 2 + 1 = (j - 1) - (i + 1) + 1
    BY <1>1, <1>5
  <2>2. /\ u \in Seq(Token) /\ Len(u) = L
        /\ \A k \in 1 .. L : u[k] = t[i - 1 + k]
    BY <2>1, SubText
  <2> DEFINE s == in
             M == (j - 1) - (i + 1) + 1
  <2>3. /\ s \in Seq(Token) /\ Len(s) = M
        /\ \A k \in 1 .. M : s[k] = t[(i + 1) - 1 + k]
    BY <2>1, SubText
  <2> DEFINE v == Inside(u)
  <2>4. /\ v \in Seq(Token) /\ Len(v) = (L - 1) - 2 + 1
        /\ \A k \in 1 .. (L - 1) - 2 + 1 : v[k] = u[2 - 1 + k]
    <3> DEFINE last == L - 1
    <3>1. v = SubSeq(u, 2, last)
      <4> HIDE DEF u, L
      <4> QED BY <2>2 DEF Inside
    <3>2. /\ u \in Seq(Token) /\ 2 \in 1 .. Len(u) + 1 /\ last \in 2 - 1 .. Len(u)
      <4> HIDE DEF u, L
      <4> QED BY <2>1, <2>2
    <3> HIDE DEF u, v, last
    <3>3. /\ v \in Seq(Token) /\ Len(v) = last - 2 + 1
          /\ \A k \in 1 .. last - 2 + 1 : v[k] = u[2 - 1 + k]
      BY <3>1, <3>2, SubText
    <3> QED BY <3>3 DEF last
  <2>5. ASSUME NEW k \in 1 .. M PROVE v[k] = s[k]
    <3>1. 2 - 1 + k \in 1 .. L /\ i - 1 + (2 - 1 + k) = (i + 1) - 1 + k
      BY <1>1, <1>5
    <3> HIDE DEF u, s, v, L, M
    <3> QED BY <2>1, <2>2, <2>3, <2>4, <3>1 DEF M
  <2> HIDE DEF u, s, v, L, M
  <2>6. v = s
    BY <2>1, <2>3, <2>4, <2>5, SeqEqual DEF M
  <2> QED BY <2>2, <2>6 DEF v, s
<1>8. Level(in, Len(in)) = 0
  <2> DEFINE b == j - 1
             n == b - i
  <2>1. i \in 0 .. Len(t) /\ b \in i .. Len(t) /\ n \in 0 .. b - i /\ i + n = b /\ Len(in) = n
    <3>1. i + 1 \in 1 .. Len(t) + 1 /\ b \in (i + 1) - 1 .. Len(t) /\ b - (i + 1) + 1 = n
      BY <1>1, <1>5
    <3>2. Len(SubSeq(t, i + 1, b)) = b - (i + 1) + 1
      <4> HIDE DEF b
      <4> QED BY <3>1, SubText
    <3> QED BY <1>1, <1>5, <3>1, <3>2
  <2>2. Level(SubSeq(t, i + 1, b), n) = Level(t, i + n) - Level(t, i)
    <3> HIDE DEF b, n
    <3> QED BY <2>1, LevelShift
  <2>3. Level(t, i) \in Int
    BY <1>1, <1>2
  <2> QED BY <1>6, <2>1, <2>2, <2>3
<1>9. u \in Closed
  <2> HIDE DEF u, in
  <2> QED BY <1>7, <1>8 DEF Closed
<1> QED BY <1>1, <1>5, <1>9 DEF j

----------------------------------------------------------------------------
(* Pieces.                                                                  *)

\* A piece of characters goes on as far as they do.
LEMMA PlainEnds ==
  ASSUME NEW t \in Seq(Token), NEW i \in 1 .. Len(t), t[i] \in Word
  PROVE  \E j \in i .. Len(t) : /\ \A k \in i .. j : t[k] \in Word
                                /\ j = Len(t) \/ t[j + 1] \notin Word
<1> DEFINE T == {j \in i .. Len(t) : j = Len(t) \/ t[j + 1] \notin Word}
<1>1. Len(t) \in T /\ T \subseteq Nat
  OBVIOUS
<1>2. PICK j \in T : \A k \in T : j <= k
  <2> HIDE DEF T
  <2> QED BY <1>1, LeastElement
<1>3. ASSUME NEW k \in i .. j PROVE t[k] \in Word
  <2>1. CASE k = i
    BY <2>1
  <2>2. CASE k # i
    <3>1. k - 1 \in i .. Len(t) /\ ~ (j <= k - 1) /\ k - 1 # Len(t) /\ k - 1 + 1 = k
      BY <1>2, <2>2
    <3>2. k - 1 \notin T
      BY <1>2, <3>1
    <3> QED BY <3>1, <3>2
  <2> QED BY <2>1, <2>2
<1> QED BY <1>2, <1>3

LEMMA NoWord == "${" \notin Word
  BY Zenon, WordAssumption

LEMMA OnePiece ==
  ASSUME NEW t \in Seq(Token), Level(t, Len(t)) = 0, NEW i \in DOMAIN t, Starts(t, i)
  PROVE  SubSeq(t, i, Ends(t, i)) \in Piece
<1>1. i \in 1 .. Len(t) /\ Len(t) \in Nat
  BY LenProperties
<1>2. CASE t[i] = "${" /\ Level(t, i) = 1
  <2>1. i \in Opens(t) /\ Ends(t, i) = Closing(t, i)
    BY Zenon, <1>2 DEF Opens, Ends
  <2>2. Level(t, i) = 1
    BY <1>2
  <2>3. Len(t) \in Shuts(t, i)
    <3> SUFFICES Len(t) \in i .. Len(t) /\ Level(t, Len(t)) < Level(t, i)
      BY Zenon DEF Shuts
    <3>1. t[i] = t[i]
      OBVIOUS
    <3> DEFINE L == Level(t, i)
               M == Level(t, Len(t))
    <3>2. L = 1 /\ M = 0
      BY <2>2
    <3> HIDE DEF L, M
    <3>3. Len(t) \in i .. Len(t) /\ M < L
      BY <1>1, <3>2
    <3> QED BY <3>3 DEF L, M
  <2>4. SubSeq(t, i, Closing(t, i)) \in Closed
    BY Zenon, <2>1, <2>3, ClosingFacts
  <2> QED BY Zenon, <2>1, <2>4 DEF Piece, Closed
<1>3. CASE t[i] \in Word
  <2>1. t[i] # "${"
    BY Zenon, <1>3, NoWord
  <2>2. Ends(t, i) = CHOOSE j \in i .. Len(t) :
                       /\ \A k \in i .. j : t[k] \in Word
                       /\ j = Len(t) \/ t[j + 1] \notin Word
    BY Zenon, <2>1 DEF Ends
  <2>3. Ends(t, i) \in i .. Len(t)
    BY <1>1, <1>3, <2>2, PlainEnds
  <2> DEFINE j == Ends(t, i)
             p == SubSeq(t, i, j)
  <2> HIDE DEF j
  <2>4. /\ i \in 1 .. Len(t) + 1 /\ j \in i - 1 .. Len(t) /\ 1 \in 1 .. j - i + 1
        /\ i - 1 + 1 = i
    BY <1>1, <2>3 DEF j
  <2>5. p \in Seq(Token) /\ p[1] = t[i]
    BY <2>4, SubText
  <2>6. ~ IsBrace(p)
    BY Zenon, <2>1, <2>5 DEF IsBrace
  <2>7. p \in Piece
    BY Zenon, <2>5, <2>6 DEF Piece
  <2> QED BY <2>7 DEF j
<1> QED BY Zenon, <1>2, <1>3 DEF Starts

LEMMA PlacesFinite ==
  ASSUME NEW n \in Nat, NEW S, S \subseteq 1 .. n
  PROVE  S \subseteq Nat /\ IsFiniteSet(S)
<1>1. IsFiniteSet(1 .. n)
  BY FS_Interval
<1>2. IsFiniteSet(S)
  BY <1>1, FS_Subset
<1>3. S \subseteq Nat
  OBVIOUS
<1> QED BY <1>2, <1>3

LEMMA PiecesType ==
  ASSUME NEW t \in Seq(Token), Level(t, Len(t)) = 0
  PROVE  Pieces[t] \in Seq(Piece)
<1> DEFINE s == [i \in DOMAIN t |-> SubSeq(t, i, Ends(t, i))]
           S == {i \in DOMAIN t : Starts(t, i)}
<1>1. Pieces[t] = Chosen(s, S)
  BY Zenon DEF Pieces
<1>2. \A i \in S : s[i] \in Piece
  BY Zenon, OnePiece
<1>3. S \subseteq Nat /\ IsFiniteSet(S)
  <2>1. DOMAIN t = 1 .. Len(t) /\ Len(t) \in Nat
    BY LenProperties
  <2>2. S \subseteq 1 .. Len(t)
    BY Zenon, <2>1
  <2> HIDE DEF S
  <2> QED BY <2>1, <2>2, PlacesFinite
<1>4. Chosen(s, S) \in Seq(Piece)
  <2> HIDE DEF s, S
  <2> QED BY <1>2, <1>3, ChosenType
<1> QED BY <1>1, <1>4

LEMMA BracesType ==
  ASSUME NEW pieces \in Seq(Piece)
  PROVE  BracesOf(pieces) \in Seq(Closed)
<1> DEFINE S == {k \in DOMAIN pieces : IsBrace(pieces[k])}
<1>1. DOMAIN pieces = 1 .. Len(pieces) /\ Len(pieces) \in Nat /\ pieces \in [1 .. Len(pieces) -> Piece]
  BY LenProperties
<1>2. S \subseteq Nat /\ IsFiniteSet(S)
  <2>1. S \subseteq 1 .. Len(pieces)
    BY Zenon, <1>1
  <2> HIDE DEF S
  <2> QED BY <1>1, <2>1, PlacesFinite
<1>3. \A k \in S : pieces[k] \in Closed
  BY Zenon, <1>1 DEF Piece
<1>4. Chosen(pieces, S) \in Seq(Closed)
  <2> HIDE DEF S
  <2> QED BY <1>2, <1>3, ChosenType
<1> QED BY <1>4 DEF BracesOf

----------------------------------------------------------------------------
(* Frames.                                                                  *)

LEMMA FrameIs ==
  ASSUME NEW kind, NEW acc, NEW text \in Seq(Token), NEW nested \in Seq(Closed)
  PROVE  IsFrame([kind |-> kind, acc |-> acc, text |-> text, nested |-> nested])
  BY DEF IsFrame

LEMMA EvaluationType ==
  ASSUME NEW b \in Closed
  PROVE  IsFrame(Evaluation[b])
<1> DEFINE pieces == Pieces[Inside(b)]
           named == pieces # <<>> /\ IsPlain(pieces[1])
           command == IF named THEN pieces[1] ELSE <<>>
           rest == IF named THEN Tail(pieces) ELSE pieces
           args == PlainOf(rest)
           subs == BracesOf(rest)
<1>1. b \in Seq(Token) /\ Inside(b) \in Seq(Token) /\ Level(Inside(b), Len(Inside(b))) = 0
  <2>1. b \in Seq(Token) /\ Level(Inside(b), Len(Inside(b))) = 0
    BY Zenon DEF Closed
  <2>2. Inside(b) \in Seq(Token)
    BY <2>1 DEF Inside
  <2> QED BY <2>1, <2>2
<1>2. pieces \in Seq(Piece)
  <2> HIDE DEF Inside
  <2> QED BY Zenon, <1>1, PiecesType
<1>3. rest \in Seq(Piece)
  <2> HIDE DEF pieces
  <2> QED BY <1>2
<1>4. subs \in Seq(Closed)
  <2> HIDE DEF rest
  <2> QED BY <1>3, BracesType
<1>5. Needed(args, subs) \in Seq(Closed) /\ <<>> \in Seq(Closed)
  <2> HIDE DEF args, subs
  <2> QED BY <1>4 DEF Needed, Foremost
<1>6. <<>> \in Seq(Token)
  OBVIOUS
<1>7. ASSUME NEW kind, NEW acc, NEW nested \in Seq(Closed)
      PROVE  IsFrame(Evaluating(kind, acc, nested))
  BY <1>6, FrameIs DEF Evaluating
<1>8. Evaluation[b]
        = CASE command = <<"raw">> -> Evaluating("raw", FlattenSeq(args), subs)
            [] command = <<"env">> -> Evaluating("env", Given(args), Needed(args, subs))
            [] command = <<"replace">> -> Evaluating("lookup", Given(args), Needed(args, subs))
            [] OTHER -> Evaluating("lookup",
                                   IF args = <<>> THEN command ELSE command \o <<" ">> \o args[1],
                                   <<>>)
  BY Zenon, <1>1 DEF Evaluation, Inside
<1> HIDE DEF command, args, subs
<1> QED BY <1>4, <1>5, <1>7, <1>8

\* The topmost frame goes on as `caller`, below a new one.
Pushed(after, s, caller, frame) ==
  /\ Len(s) \in Nat /\ Len(s) >= 1 /\ Len(after) = Len(s) + 1
  /\ \A k \in 1 .. Len(s) - 1 : after[k] = s[k]
  /\ after[Len(s)] = caller
  /\ after[Len(s) + 1] = frame

LEMMA CallPushes ==
  ASSUME NEW s, Frames(s), Len(s) >= 1, NEW caller, NEW frame
  PROVE  LET after == Append([s EXCEPT ![Len(s)] = caller], frame)
         IN  Pushed(after, s, caller, frame) /\ \E G : after \in Seq(G)
<1> DEFINE n == Len(s)
           base == [s EXCEPT ![n] = caller]
           after == Append(base, frame)
<1>1. PICK F : s \in Seq(F)
  BY DEF Frames
<1> DEFINE G == F \cup {caller, frame}
<1>2. s \in Seq(G) /\ n \in Nat /\ n \in 1 .. n
  BY <1>1
<1>3. /\ base \in Seq(G) /\ Len(base) = n
      /\ \A k \in 1 .. n : base[k] = IF k = n THEN caller ELSE s[k]
  <2> HIDE DEF G
  <2>1. caller \in G
    BY DEF G
  <2> QED BY <1>2, <2>1, ExceptSeq
<1>4. /\ after \in Seq(G) /\ Len(after) = n + 1
      /\ \A k \in 1 .. n : after[k] = base[k]
      /\ after[n + 1] = frame
  <2>1. frame \in G
    OBVIOUS
  <2> HIDE DEF G, base
  <2> QED BY <1>2, <1>3, <2>1, AppendProperties
<1> HIDE DEF base, after, G
<1>5. \A k \in 1 .. n - 1 : after[k] = s[k]
  BY <1>2, <1>3, <1>4
<1>6. after[n] = caller /\ after[n + 1] = frame
  BY <1>2, <1>3, <1>4
<1>7. Pushed(after, s, caller, frame)
  BY <1>2, <1>4, <1>5, <1>6 DEF Pushed, n
<1> QED BY <1>4, <1>7 DEF after, base

LEMMA CallFrames ==
  ASSUME NEW s, Frames(s), Len(s) >= 1, NEW caller, NEW frame, IsFrame(caller), IsFrame(frame),
         NEW after, Pushed(after, s, caller, frame), \E G : after \in Seq(G)
  PROVE  Frames(after) /\ after # <<>>
<1> DEFINE n == Len(s)
<1>1. /\ n \in Nat /\ n >= 1 /\ Len(after) = n + 1
      /\ \A k \in 1 .. n - 1 : after[k] = s[k]
      /\ after[n] = caller /\ after[n + 1] = frame
  BY Zenon DEF Pushed
<1>2. \A k \in 1 .. n : IsFrame(s[k])
  BY DEF Frames
<1> HIDE DEF n
<1>3. ASSUME NEW k \in 1 .. n + 1 PROVE IsFrame(after[k])
  <2>1. CASE k = n + 1
    BY <1>1, <2>1
  <2>2. CASE k = n
    BY <1>1, <2>2
  <2>3. CASE k # n /\ k # n + 1
    <3>1. k \in 1 .. n - 1 /\ k \in 1 .. n
      BY <1>1, <2>3
    <3> QED BY <1>1, <1>2, <3>1
  <2> QED BY <2>1, <2>2, <2>3
<1>4. after # <<>>
  BY <1>1
<1> QED BY <1>1, <1>3, <1>4 DEF Frames

LEMMA WorkType ==
  ASSUME NEW frame, IsFrame(frame)
  PROVE  Len(frame.text) \in Nat /\ Len(frame.nested) \in Nat /\ Work(frame) \in Nat
<1>1. Len(frame.text) \in Nat /\ Len(frame.nested) \in Nat
  BY DEF IsFrame
<1> DEFINE rest == IF frame.kind = "lookup" THEN 1 ELSE 0
<1>2. rest \in Nat
  OBVIOUS
<1> DEFINE a == Len(frame.text)
           b == Len(frame.nested)
<1>3. Work(frame) = a + b + rest
  BY Zenon DEF Work
<1>4. a \in Nat /\ b \in Nat
  BY <1>1
<1> HIDE DEF a, b, rest
<1>5. a + b + rest \in Nat
  BY <1>2, <1>4
<1>6. Work(frame) \in Nat
  BY Zenon, <1>3, <1>5
<1> QED BY Zenon, <1>1, <1>6

Fits(c, kind, acc, text, nested) ==
  c.kind = kind /\ c.acc = acc /\ c.text = text /\ c.nested = nested

\* A frame that gets a text from the call above it.
Gets(c, frame, t) == Fits(c, frame.kind, frame.acc \o t, frame.text, frame.nested)

\* The topmost frame goes, and the one below gets what it returns.
LEMMA ReturnFrames ==
  ASSUME NEW s, Frames(s), Len(s) > 1, NEW t
  PROVE  LET m == Len(s) - 1
             after == [SubSeq(s, 1, m) EXCEPT ![m].acc = @ \o t]
         IN  /\ Frames(after) /\ after # <<>>
             /\ Len(after) = m
             /\ \A k \in 1 .. m : Work(after[k]) = Work(s[k])
             /\ \A k \in 1 .. m - 1 : after[k] = s[k]
             /\ Gets(after[m], s[m], t)
<1> DEFINE m == Len(s) - 1
           base == SubSeq(s, 1, m)
           top == [base[m] EXCEPT !.acc = @ \o t]
           after == [base EXCEPT ![m] = top]
<1>1. PICK F : s \in Seq(F)
  BY DEF Frames
<1>2. Len(s) \in Nat /\ m \in 1 .. Len(s) /\ m \in Nat /\ m \in 1 .. m
  BY <1>1
<1>3. /\ base \in Seq(F) /\ Len(base) = m
      /\ \A k \in 1 .. m : base[k] = s[k]
  <2>1. 1 \in 1 .. Len(s) + 1 /\ m \in 1 - 1 .. Len(s) /\ m - 1 + 1 = m
        /\ \A k \in 1 .. m : 1 - 1 + k = k
    BY <1>2
  <2> HIDE DEF m
  <2> QED BY <1>1, <2>1, SubText
<1>4. IsFrame(base[m])
  BY <1>2, <1>3 DEF Frames
<1>5. IsFrame(top) /\ Work(top) = Work(s[m]) /\ Gets(top, s[m], t)
  <2> DEFINE f == base[m]
  <2>1. f = s[m]
    BY <1>2, <1>3
  <2> HIDE DEF f
  <2>2. IsFrame(f) /\ top = [f EXCEPT !.acc = @ \o t]
    BY <1>4 DEF f
  <2>3. /\ top = [kind |-> f.kind, acc |-> f.acc \o t, text |-> f.text, nested |-> f.nested]
        /\ f.text \in Seq(Token) /\ f.nested \in Seq(Closed)
    <3>1. /\ f = [kind |-> f.kind, acc |-> f.acc, text |-> f.text, nested |-> f.nested]
          /\ f.text \in Seq(Token) /\ f.nested \in Seq(Closed)
      BY <2>2 DEF IsFrame
    <3> DEFINE a == f.kind
               b == f.acc
               c == f.text
               d == f.nested
    <3>2. f = [kind |-> a, acc |-> b, text |-> c, nested |-> d]
      BY <3>1
    <3> HIDE DEF a, b, c, d, top
    <3>3. top = [kind |-> a, acc |-> b \o t, text |-> c, nested |-> d]
      BY <2>2, <3>2
    <3> QED BY <3>1, <3>3 DEF a, b, c, d
  <2> HIDE DEF top
  <2>4. IsFrame(top)
    BY <2>3 DEF IsFrame
  <2>5. /\ top.kind = f.kind /\ top.acc = f.acc \o t
        /\ top.text = f.text /\ top.nested = f.nested
    BY <2>3
  <2> QED BY <2>1, <2>4, <2>5 DEF Work, Gets, Fits
<1> DEFINE G == F \cup {top}
<1>6. base \in Seq(G) /\ top \in G
  <2> HIDE DEF base, top
  <2> QED BY <1>3
<1>7. /\ after \in Seq(G) /\ Len(after) = m
      /\ \A k \in 1 .. m : after[k] = IF k = m THEN top ELSE base[k]
  <2> HIDE DEF G, base, top, m
  <2> QED BY <1>2, <1>3, <1>6, ExceptSeq
<1>8. \A k \in 1 .. m : IsFrame(after[k]) /\ Work(after[k]) = Work(s[k])
  <2>1. \A k \in 1 .. m : IsFrame(s[k])
    BY <1>2 DEF Frames
  <2> HIDE DEF after, base, top, m
  <2> QED BY <1>3, <1>5, <1>7, <2>1
<1>9. Frames(after) /\ after # <<>>
  <2> HIDE DEF after, m, G
  <2> QED BY <1>2, <1>7, <1>8 DEF Frames
<1>10. after = [SubSeq(s, 1, m) EXCEPT ![m].acc = @ \o t]
  OBVIOUS
<1> HIDE DEF top
<1>11. Gets(after[m], s[m], t) /\ \A k \in 1 .. m - 1 : after[k] = s[k]
  <2> HIDE DEF after, m, base
  <2> QED BY <1>2, <1>3, <1>5, <1>7
<1> HIDE DEF after, m
<1> QED BY <1>7, <1>8, <1>9, <1>10, <1>11 DEF m

----------------------------------------------------------------------------
(* Steps.                                                                   *)

Deeper ==
  /\ Len(stack') = Len(stack) + 1
  /\ \A k \in 1 .. Len(stack) - 1 : Work(stack'[k]) = Work(stack[k])
  /\ Work(stack'[Len(stack)]) < Work(Top)

Back ==
  /\ Len(stack') = Len(stack) - 1
  /\ \A k \in 1 .. Len(stack) - 1 : Work(stack'[k]) = Work(stack[k])

Goes == Reading' /\ (phase' = "reading" => Deeper \/ Back)

LEMMA TopIs ==
  ASSUME Reading, phase = "reading"
  PROVE  Len(stack) \in Nat /\ Len(stack) >= 1 /\ Frames(stack) /\ IsFrame(Top)
<1>1. PICK F : stack \in Seq(F)
  BY DEF Reading, Frames
<1>2. Len(stack) \in Nat /\ Len(stack) >= 1
  <2>1. stack # <<>>
    BY DEF Reading
  <2> QED BY <1>1, <2>1, EmptySeq
<1>3. Frames(stack)
  BY DEF Reading
<1> QED BY <1>2, <1>3 DEF Frames, Top

LEMMA EmptyStack == Frames(<<>>)
  BY DEF Frames

LEMMA CallGoes ==
  ASSUME Reading, phase = "reading", NEW caller, NEW frame, IsFrame(caller), IsFrame(frame),
         Work(caller) < Work(Top), Call(caller, frame)
  PROVE  Goes
<1>1. Len(stack) \in Nat /\ Len(stack) >= 1 /\ Frames(stack)
  BY TopIs
<1>2. field' = field
  BY DEF Call
<1>3. CASE Full
  <2>1. phase' = "died" /\ stack' = <<>>
    BY <1>3 DEF Call
  <2> QED BY <1>2, <2>1, EmptyStack DEF Goes, Reading
<1>4. CASE ~ Full
  <2>1. phase' = "reading" /\ stack' = Append([stack EXCEPT ![Len(stack)] = caller], frame)
    BY <1>4 DEF Call
  <2>2. /\ Frames(stack') /\ stack' # <<>>
        /\ Len(stack') = Len(stack) + 1
        /\ \A k \in 1 .. Len(stack) - 1 : stack'[k] = stack[k]
        /\ stack'[Len(stack)] = caller
    <3> DEFINE s == stack
               after == Append([s EXCEPT ![Len(s)] = caller], frame)
    <3>1. /\ Frames(after) /\ after # <<>>
          /\ Len(after) = Len(s) + 1
          /\ \A k \in 1 .. Len(s) - 1 : after[k] = s[k]
          /\ after[Len(s)] = caller
      <4> HIDE DEF s
      <4>1. Frames(s) /\ Len(s) >= 1
        BY <1>1 DEF s
      <4>2. Pushed(after, s, caller, frame) /\ \E G : after \in Seq(G)
        BY Zenon, <4>1, CallPushes
      <4> HIDE DEF after
      <4>3. Frames(after) /\ after # <<>>
        BY Zenon, <4>1, <4>2, CallFrames
      <4> QED BY Zenon, <4>2, <4>3 DEF Pushed
    <3>2. stack' = after
      BY <2>1
    <3> HIDE DEF after
    <3> QED BY <3>1, <3>2
  <2>3. Deeper
    BY <2>2 DEF Deeper
  <2>4. Reading'
    BY <1>2, <2>1, <2>2 DEF Reading
  <2> QED BY <2>3, <2>4 DEF Goes
<1> QED BY <1>3, <1>4

LEMMA ReturnGoes ==
  ASSUME Reading, phase = "reading", NEW t, Return(t)
  PROVE  Goes
<1>1. Len(stack) \in Nat /\ Len(stack) >= 1 /\ Frames(stack)
  BY TopIs
<1>2. field' = field
  BY DEF Return
<1>3. CASE Len(stack) = 1
  <2>1. phase' = "returned" /\ stack' = <<>>
    BY <1>3 DEF Return
  <2> QED BY <1>2, <2>1, EmptyStack DEF Goes, Reading
<1>4. CASE Len(stack) # 1
  <2>1. phase' = "reading"
        /\ stack' = [SubSeq(stack, 1, Len(stack) - 1) EXCEPT ![Len(stack) - 1].acc = @ \o t]
    BY <1>4 DEF Return
  <2>2. Len(stack) > 1
    <3> DEFINE n == Len(stack)
    <3>1. n \in Nat /\ n >= 1 /\ n # 1
      BY Zenon, <1>1, <1>4
    <3> HIDE DEF n
    <3>2. n > 1
      BY <3>1
    <3> QED BY Zenon, <3>2 DEF n
  <2>3. /\ Frames(stack') /\ stack' # <<>>
        /\ Len(stack') = Len(stack) - 1
        /\ \A k \in 1 .. Len(stack) - 1 : Work(stack'[k]) = Work(stack[k])
    <3> DEFINE s == stack
               m == Len(s) - 1
               after == [SubSeq(s, 1, m) EXCEPT ![m].acc = @ \o t]
    <3>1. /\ Frames(after) /\ after # <<>>
          /\ Len(after) = m
          /\ \A k \in 1 .. m : Work(after[k]) = Work(s[k])
      <4>1. Len(stack) > 1
        BY <2>2
      <4>2. Frames(s) /\ Len(s) > 1
        BY Zenon, <1>1, <4>1
      <4> HIDE DEF s
      <4> QED BY <4>2, ReturnFrames
    <3>2. stack' = after
      BY <2>1
    <3> HIDE DEF after
    <3> QED BY <3>1, <3>2
  <2>4. Back
    BY <2>3 DEF Back
  <2>5. Reading'
    BY <1>2, <2>1, <2>3 DEF Reading
  <2> QED BY <2>4, <2>5 DEF Goes
<1> QED BY <1>3, <1>4

LEMMA ThrowGoes == ASSUME Reading, Throw PROVE Goes
<1>1. phase' = "thrown" /\ stack' = <<>> /\ field' = field
  BY DEF Throw
<1> QED BY <1>1, EmptyStack DEF Goes, Reading

\* What a Field holds is a text.
LEMMA FieldIsText == ASSUME Reading, NEW f \in DOMAIN field PROVE field[f] \in Seq(Token)
<1>1. PICK D \in SUBSET Name : field \in [D -> Value]
  BY DEF Reading
<1>2. field[f] \in Value
  BY <1>1
<1>3. Value \subseteq Seq(Token)
  BY Zenon, ValueAssumption DEF Token
<1> QED BY <1>2, <1>3

LEMMA ExpandingType == ASSUME NEW t \in Seq(Token) PROVE IsFrame(Expanding(t))
<1>1. <<>> \in Seq(Closed)
  OBVIOUS
<1> QED BY <1>1, FrameIs DEF Expanding

\* The work of a frame by its parts.
Extra(kind) == IF kind = "lookup" THEN 1 ELSE 0

LEMMA WorkOf ==
  ASSUME NEW frame, IsFrame(frame)
  PROVE  /\ Len(frame.text) \in Nat /\ Len(frame.nested) \in Nat /\ Extra(frame.kind) \in Nat
         /\ Work(frame) = Len(frame.text) + Len(frame.nested) + Extra(frame.kind)
<1>1. Extra(frame.kind) \in Nat
  BY DEF Extra
<1>2. Work(frame) = Len(frame.text) + Len(frame.nested) + Extra(frame.kind)
  BY Zenon DEF Work, Extra
<1> QED BY Zenon, <1>1, <1>2, WorkType

\* Less in one part and no more in the others is less.
LEMMA LessWork ==
  ASSUME NEW x, NEW y, IsFrame(x), IsFrame(y),
         Len(x.text) <= Len(y.text), Len(x.nested) <= Len(y.nested),
         Extra(x.kind) <= Extra(y.kind),
         \/ Len(x.text) < Len(y.text)
         \/ Len(x.nested) < Len(y.nested)
         \/ Extra(x.kind) < Extra(y.kind)
  PROVE  Work(x) < Work(y)
<1> DEFINE a == Len(x.text)
           b == Len(x.nested)
           c == Extra(x.kind)
           d == Len(y.text)
           e == Len(y.nested)
           f == Extra(y.kind)
           v == Work(x)
           w == Work(y)
<1>1. /\ a \in Nat /\ b \in Nat /\ c \in Nat /\ d \in Nat /\ e \in Nat /\ f \in Nat
      /\ v = a + b + c /\ w = d + e + f
  BY Zenon, WorkOf
<1>2. a <= d /\ b <= e /\ c <= f /\ (a < d \/ b < e \/ c < f)
  BY Zenon
<1> HIDE DEF a, b, c, d, e, f, v, w
<1>3. v < w
  BY <1>1, <1>2
<1> QED BY Zenon, <1>3 DEF v, w

LEMMA AsMuch == ASSUME NEW n \in Nat PROVE n <= n
OBVIOUS

LEMMA Less == ASSUME NEW m \in Nat, NEW n \in Nat, m < n PROVE m <= n
OBVIOUS

\* A frame with its text, its nested braces or its kind replaced.
GoesBehind(c, frame, t, u) == c = [frame EXCEPT !.acc = @ \o t, !.text = u]
GoesOver(c, frame, nested) == c = [frame EXCEPT !.nested = nested]
HasFound(c, frame) == c = [frame EXCEPT !.kind = "found", !.acc = <<>>]

LEMMA FrameExpanded ==
  ASSUME NEW frame, IsFrame(frame), NEW t, NEW u \in Seq(Token), NEW c,
         GoesBehind(c, frame, t, u)
  PROVE  IsFrame(c) /\ Fits(c, frame.kind, frame.acc \o t, u, frame.nested)
<1> DEFINE k == frame.kind
           a == frame.acc
           x == frame.text
           n == frame.nested
           z == a \o t
           d == [frame EXCEPT !.acc = z]
<1>1. frame = [kind |-> k, acc |-> a, text |-> x, nested |-> n] /\ x \in Seq(Token) /\ n \in Seq(Closed)
  BY Zenon DEF IsFrame
<1>2. c = [d EXCEPT !.text = u]
  BY Zenon DEF GoesBehind
<1> HIDE DEF k, a, x, n, z
<1>3. d = [kind |-> k, acc |-> z, text |-> x, nested |-> n]
  BY <1>1
<1> HIDE DEF d
<1>4. c = [kind |-> k, acc |-> z, text |-> u, nested |-> n]
  BY <1>2, <1>3
<1>5. IsFrame(c) /\ c.kind = k /\ c.acc = z /\ c.text = u /\ c.nested = n
  <2>1. IsFrame([kind |-> k, acc |-> z, text |-> u, nested |-> n])
    BY <1>1, FrameIs
  <2>2. c.kind = k /\ c.acc = z /\ c.text = u /\ c.nested = n
    BY <1>4
  <2> QED BY Zenon, <1>4, <2>1, <2>2
<1> QED BY Zenon, <1>5 DEF Fits, k, a, n, z

LEMMA FrameNested ==
  ASSUME NEW frame, IsFrame(frame), NEW nested \in Seq(Closed), NEW c,
         GoesOver(c, frame, nested)
  PROVE  IsFrame(c) /\ Fits(c, frame.kind, frame.acc, frame.text, nested)
<1> DEFINE k == frame.kind
           a == frame.acc
           x == frame.text
           n == frame.nested
<1>1. frame = [kind |-> k, acc |-> a, text |-> x, nested |-> n] /\ x \in Seq(Token)
  BY Zenon DEF IsFrame
<1> HIDE DEF k, a, x, n
<1>2. c = [kind |-> k, acc |-> a, text |-> x, nested |-> nested]
  BY <1>1 DEF GoesOver
<1>3. IsFrame(c) /\ c.kind = k /\ c.acc = a /\ c.text = x /\ c.nested = nested
  BY <1>1, <1>2, FrameIs
<1> QED BY Zenon, <1>3 DEF Fits, k, a, x

LEMMA FrameFound ==
  ASSUME NEW frame, IsFrame(frame), NEW c, HasFound(c, frame)
  PROVE  IsFrame(c) /\ Fits(c, "found", <<>>, frame.text, frame.nested)
<1> DEFINE k == frame.kind
           a == frame.acc
           x == frame.text
           n == frame.nested
           d == [frame EXCEPT !.kind = "found"]
<1>1. frame = [kind |-> k, acc |-> a, text |-> x, nested |-> n] /\ x \in Seq(Token) /\ n \in Seq(Closed)
  BY Zenon DEF IsFrame
<1>2. c = [d EXCEPT !.acc = <<>>]
  BY Zenon DEF HasFound
<1> HIDE DEF k, a, x, n
<1>3. d = [kind |-> "found", acc |-> a, text |-> x, nested |-> n]
  BY <1>1
<1> HIDE DEF d
<1>4. c = [kind |-> "found", acc |-> <<>>, text |-> x, nested |-> n]
  BY <1>2, <1>3
<1>5. IsFrame(c) /\ c.kind = "found" /\ c.acc = <<>> /\ c.text = x /\ c.nested = n
  <2>1. IsFrame([kind |-> "found", acc |-> <<>>, text |-> x, nested |-> n])
    BY <1>1, FrameIs
  <2>2. c.kind = "found" /\ c.acc = <<>> /\ c.text = x /\ c.nested = n
    BY <1>4
  <2> QED BY Zenon, <1>4, <2>1, <2>2
<1> QED BY Zenon, <1>5 DEF Fits, x, n

\* Behind the brace there is less text than before.
LEMMA ExpandBraceGoes == ASSUME Reading, ExpandBrace PROVE Goes
<1>1. PICK t \in {Top.text} : \E i \in Opens(t) :
        \/ Throw
        \/ \E j \in Shuts(t, i) :
             /\ j = Closing(t, i)
             /\ Call([Top EXCEPT !.acc = @ \o SubSeq(t, 1, i - 1), !.text = Behind(t, j)],
                     Evaluation[SubSeq(t, i, j)])
  BY Zenon DEF ExpandBrace
<1>2. PICK i \in Opens(t) :
        \/ Throw
        \/ \E j \in Shuts(t, i) :
             /\ j = Closing(t, i)
             /\ Call([Top EXCEPT !.acc = @ \o SubSeq(t, 1, i - 1), !.text = Behind(t, j)],
                     Evaluation[SubSeq(t, i, j)])
  BY Zenon, <1>1
<1>3. CASE Throw
  BY Zenon, <1>3, ThrowGoes
<1>4. ASSUME NEW j \in Shuts(t, i), j = Closing(t, i),
             Call([Top EXCEPT !.acc = @ \o SubSeq(t, 1, i - 1), !.text = Behind(t, j)],
                  Evaluation[SubSeq(t, i, j)])
      PROVE  Goes
  <2> DEFINE f == Top
             w == SubSeq(t, 1, i - 1)
             u == Behind(t, j)
             caller == [f EXCEPT !.acc = @ \o w, !.text = u]
             callee == Evaluation[SubSeq(t, i, j)]
  <2>1. IsFrame(f) /\ t = f.text /\ phase = "reading"
    BY Zenon, TopIs DEF ExpandBrace
  <2>2. t \in Seq(Token)
    BY Zenon, <2>1 DEF IsFrame
  <2>3. i \in 1 .. Len(t) /\ j \in i + 1 .. Len(t) /\ SubSeq(t, i, j) \in Closed
    BY Zenon, <1>4, <2>2, ClosingFacts
  <2>4. IsFrame(callee)
    BY Zenon, <2>3, EvaluationType
  <2>5. u \in Seq(Token) /\ Len(u) \in Nat /\ Len(u) < Len(t) /\ Len(t) \in Nat
    <3>1. j + 1 \in 1 .. Len(t) + 1 /\ Len(t) \in (j + 1) - 1 .. Len(t)
      BY <2>2, <2>3
    <3>2. u \in Seq(Token) /\ Len(u) = Len(t) - (j + 1) + 1
      BY Zenon, <2>2, <3>1, SubText DEF Behind
    <3> DEFINE v == Len(u)
               n == Len(t)
    <3>3. v = n - (j + 1) + 1 /\ n \in Nat /\ j \in 1 .. n
      BY <2>2, <2>3, <3>2
    <3> HIDE DEF v, n
    <3>4. v \in Nat /\ v < n /\ n \in Nat
      BY <3>3
    <3> QED BY Zenon, <3>2, <3>4 DEF v, n
  <2>6. IsFrame(caller) /\ caller.kind = f.kind /\ caller.text = u /\ caller.nested = f.nested
    <3> HIDE DEF f, u, w
    <3>1. GoesBehind(caller, f, w, u)
      BY Zenon DEF GoesBehind
    <3> HIDE DEF caller
    <3>2. IsFrame(caller) /\ Fits(caller, f.kind, f.acc \o w, u, f.nested)
      BY Zenon, <2>1, <2>5, <3>1, FrameExpanded
    <3> QED BY Zenon, <3>2 DEF Fits
  <2> HIDE DEF caller
  <2>7. IsFrame(caller)
    BY <2>6
  <2>8. Work(caller) < Work(f)
    <3>1. /\ Len(f.text) \in Nat /\ Len(f.nested) \in Nat /\ Extra(f.kind) \in Nat
          /\ Len(caller.text) \in Nat
      BY Zenon, <2>1, <2>7, WorkOf
    <3>2. Len(caller.text) < Len(f.text)
      BY Zenon, <2>1, <2>5, <2>6
    <3>3. Len(f.nested) <= Len(f.nested) /\ Extra(f.kind) <= Extra(f.kind) /\ Len(caller.text) <= Len(f.text)
      BY Zenon, <3>1, <3>2, AsMuch, Less
    <3> QED BY Zenon, <2>1, <2>6, <2>7, <3>2, <3>3, LessWork
  <2> HIDE DEF f, w, u, caller, callee
  <2> QED BY Zenon, <1>4, <2>1, <2>4, <2>7, <2>8, CallGoes DEF f, w, u, caller, callee
<1> QED BY Zenon, <1>2, <1>3, <1>4

LEMMA ExpandRestGoes == ASSUME Reading, ExpandRest PROVE Goes
  BY Zenon, ReturnGoes DEF ExpandRest

\* There is one nested brace less to evaluate.
LEMMA EvaluateNestedGoes == ASSUME Reading, EvaluateNested PROVE Goes
<1> DEFINE f == Top
           nested == f.nested
           rest == Tail(nested)
           caller == [f EXCEPT !.nested = rest]
           callee == Evaluation[Head(nested)]
<1>1. phase = "reading" /\ nested # <<>> /\ Call(caller, callee)
  BY Zenon DEF EvaluateNested
<1>2. IsFrame(f)
  BY Zenon, <1>1, TopIs
<1>3. nested \in Seq(Closed)
  BY Zenon, <1>2 DEF IsFrame
<1>4. /\ Head(nested) \in Closed /\ rest \in Seq(Closed)
      /\ Len(nested) \in Nat /\ Len(rest) \in Nat /\ Len(rest) < Len(nested)
  <2> HIDE DEF nested
  <2> QED BY <1>1, <1>3
<1>5. IsFrame(callee)
  BY Zenon, <1>4, EvaluationType
<1>6. GoesOver(caller, f, rest)
  BY Zenon DEF GoesOver
<1> HIDE DEF f, rest, caller, callee
<1>7. IsFrame(caller) /\ caller.kind = f.kind /\ caller.text = f.text /\ caller.nested = rest
  <2>1. IsFrame(caller) /\ Fits(caller, f.kind, f.acc, f.text, rest)
    BY Zenon, <1>2, <1>4, <1>6, FrameNested
  <2> QED BY Zenon, <2>1 DEF Fits
<1>8. Work(caller) < Work(f)
  <2>1. Len(f.text) \in Nat /\ Extra(f.kind) \in Nat
    BY Zenon, <1>2, WorkOf
  <2>2. Len(f.text) <= Len(f.text) /\ Extra(f.kind) <= Extra(f.kind) /\ Len(rest) <= Len(nested)
    BY Zenon, <1>4, <2>1, AsMuch, Less
  <2> QED BY Zenon, <1>2, <1>4, <1>7, <2>2, LessWork
<1> QED BY Zenon, <1>1, <1>5, <1>7, <1>8, CallGoes DEF f

LEMMA EvaluateRawGoes == ASSUME Reading, EvaluateRaw PROVE Goes
  BY Zenon, ReturnGoes DEF EvaluateRaw

LEMMA EvaluateEnvGoes == ASSUME Reading, EvaluateEnv PROVE Goes
<1>1. CASE Top.acc = <<>>
  BY Zenon, <1>1, ThrowGoes DEF EvaluateEnv
<1>2. CASE Top.acc # <<>>
  BY Zenon, <1>2, ReturnGoes DEF EvaluateEnv
<1> QED BY Zenon, <1>1, <1>2

\* The name is looked up once.
LEMMA LookUpGoes == ASSUME Reading, LookUp PROVE Goes
<1>1. CASE Top.acc \in DOMAIN field
  <2> DEFINE f == Top
             caller == [f EXCEPT !.kind = "found", !.acc = <<>>]
             callee == Expanding(field[f.acc])
  <2>1. phase = "reading" /\ f.kind = "lookup" /\ Call(caller, callee)
    BY Zenon, <1>1 DEF LookUp
  <2>2. IsFrame(f)
    BY Zenon, <2>1, TopIs
  <2>3. IsFrame(callee)
    BY Zenon, <1>1, FieldIsText, ExpandingType
  <2>4. HasFound(caller, f)
    BY Zenon DEF HasFound
  <2> HIDE DEF f, caller, callee
  <2>5. IsFrame(caller) /\ caller.kind = "found" /\ caller.text = f.text /\ caller.nested = f.nested
    <3>1. IsFrame(caller) /\ Fits(caller, "found", <<>>, f.text, f.nested)
      BY Zenon, <2>2, <2>4, FrameFound
    <3> QED BY Zenon, <3>1 DEF Fits
  <2>6. Work(caller) < Work(f)
    <3>1. Len(f.text) \in Nat /\ Len(f.nested) \in Nat
      BY Zenon, <2>2, WorkOf
    <3>2. Len(f.text) <= Len(f.text) /\ Len(f.nested) <= Len(f.nested)
      BY Zenon, <3>1, AsMuch
    <3>3. Extra("found") < Extra("lookup") /\ Extra("found") <= Extra("lookup")
      BY DEF Extra
    <3> QED BY Zenon, <2>1, <2>2, <2>5, <3>2, <3>3, LessWork
  <2> QED BY Zenon, <2>1, <2>3, <2>5, <2>6, CallGoes DEF f
<1>2. CASE Top.acc \notin DOMAIN field
  BY Zenon, <1>2, ThrowGoes DEF LookUp
<1> QED BY Zenon, <1>1, <1>2

LEMMA LookedUpGoes == ASSUME Reading, LookedUp PROVE Goes
  BY Zenon, ReturnGoes DEF LookedUp

LEMMA ReadGoes == ASSUME Reading, NEW f \in Name, Read(f) PROVE Reading'
<1> DEFINE frame == Expanding(field[f])
<1>1. f \in DOMAIN field /\ phase' = "reading" /\ stack' = <<frame>> /\ field' = field
  BY Zenon DEF Read
<1>2. IsFrame(frame)
  BY Zenon, <1>1, FieldIsText, ExpandingType
<1> HIDE DEF frame
<1>3. Frames(stack') /\ stack' # <<>>
  <2> DEFINE s == <<frame>>
  <2>1. s \in Seq({frame}) /\ Len(s) = 1 /\ s[1] = frame
    OBVIOUS
  <2>2. stack' = s
    BY <1>1
  <2> HIDE DEF s
  <2>3. \A k \in 1 .. Len(s) : IsFrame(s[k])
    BY <1>2, <2>1
  <2>4. \E F : s \in Seq(F)
    BY <2>1
  <2>5. s # <<>>
    BY <2>1
  <2> QED BY <2>2, <2>3, <2>4, <2>5 DEF Frames
<1> QED BY <1>1, <1>3 DEF Reading

LEMMA InitReading == Init => Reading
<1> SUFFICES ASSUME Init PROVE Reading
  OBVIOUS
<1>1. stack = <<>> /\ phase = "idle" /\ field \in UNION {[D -> Value] : D \in SUBSET Name}
  BY Zenon DEF Init
<1> QED BY <1>1, EmptyStack DEF Reading

LEMMA EvaluateGoes == ASSUME Reading, Evaluate PROVE Goes
  BY Zenon, ExpandBraceGoes, ExpandRestGoes, EvaluateNestedGoes, EvaluateRawGoes,
     EvaluateEnvGoes, LookUpGoes, LookedUpGoes DEF Evaluate

LEMMA NextReading == Reading /\ [Next]_vars => Reading'
<1> SUFFICES ASSUME Reading, [Next]_vars PROVE Reading'
  OBVIOUS
<1>1. CASE \E f \in Name : Read(f)
  BY Zenon, <1>1, ReadGoes
<1>2. CASE Evaluate
  BY Zenon, <1>2, EvaluateGoes DEF Goes
<1>3. CASE UNCHANGED vars
  BY <1>3 DEF vars, Reading
<1> QED BY Zenon, <1>1, <1>2, <1>3 DEF Next

\* What a step does after which the reading goes on.
Progress ==
  phase = "reading" /\ phase' = "reading" =>
    LET n == Len(stack)
        Unchanged(m) == \A i \in 1 .. m : Work(stack'[i]) = Work(stack[i])
    IN  \/ Len(stack') = n - 1 /\ Unchanged(n - 1)
        \/ Len(stack') = n + 1 /\ Unchanged(n - 1) /\ Work(stack'[n]) < Work(Top)

LEMMA StepProgress == Reading /\ [Next]_vars => [Progress]_vars
<1> SUFFICES ASSUME Reading, Next PROVE Progress
  BY Zenon
<1>1. CASE \E f \in Name : Read(f)
  BY <1>1 DEF Read, Progress
<1>2. CASE Evaluate
  <2>1. Goes
    BY Zenon, <1>2, EvaluateGoes
  <2> QED BY Zenon, <2>1 DEF Goes, Deeper, Back, Progress
<1> QED BY Zenon, <1>1, <1>2 DEF Next

\* Each step of a reading that does not end it finishes the topmost call, or calls
\* deeper and leaves less to do behind, whatever the Fields and the environment hold.
THEOREM ReadingsProgress == Spec => ReadingProgresses
<1>1. Init => Reading
  BY InitReading
<1>2. Reading /\ [Next]_vars => Reading'
  BY NextReading
<1>3. Reading /\ [Next]_vars => [Progress]_vars
  BY StepProgress
<1>4. Spec => [][Progress]_vars
  BY <1>1, <1>2, <1>3, PTL DEF Spec
<1> QED BY <1>4 DEF ReadingProgresses, Progress

----------------------------------------------------------------------------
(* What a text can stand for.                                               *)

Outcome == {Text(t) : t \in Seq(Token)} \cup {Error, Endless}

\* A text, an error and no end are told apart.
LEMMA Texts ==
  /\ \A t : Text(t).is = "text" /\ Text(t).text = t /\ Text(t) # Error /\ Text(t) # Endless
  /\ Error.is # "text" /\ Endless.is # "text" /\ Error # Endless
  BY DEF Text, Error, Endless

\* What comes first decides.
LEMMA Thens ==
  /\ \A t, u : Then(Text(t), Text(u)) = Text(t \o u)
  /\ \A t : Then(Text(t), Error) = Error /\ Then(Text(t), Endless) = Endless
  /\ \A x : Then(Error, x) = Error /\ Then(Endless, x) = Endless
<1>1. ASSUME NEW t, NEW u PROVE Then(Text(t), Text(u)) = Text(t \o u)
  <2>1. Text(t).is = "text" /\ Text(u).is = "text" /\ Text(t).text = t /\ Text(u).text = u
    BY Texts
  <2> QED BY Zenon, <2>1 DEF Then
<1>2. ASSUME NEW t PROVE Then(Text(t), Error) = Error /\ Then(Text(t), Endless) = Endless
  BY Zenon, Texts DEF Then
<1>3. ASSUME NEW x PROVE Then(Error, x) = Error /\ Then(Endless, x) = Endless
  BY Zenon, Texts DEF Then
<1> QED BY <1>1, <1>2, <1>3

LEMMA OutcomeCases ==
  ASSUME NEW x \in Outcome
  PROVE  (\E t \in Seq(Token) : x = Text(t)) \/ x = Error \/ x = Endless
  BY Zenon DEF Outcome

LEMMA OutcomesAre ==
  /\ \A t \in Seq(Token) : Text(t) \in Outcome
  /\ Error \in Outcome /\ Endless \in Outcome
  BY Zenon DEF Outcome

LEMMA ThenType ==
  ASSUME NEW x \in Outcome, NEW y \in Outcome PROVE Then(x, y) \in Outcome
<1>1. CASE \E t \in Seq(Token) : x = Text(t)
  <2>1. PICK t \in Seq(Token) : x = Text(t)
    BY <1>1
  <2>2. CASE \E u \in Seq(Token) : y = Text(u)
    <3>1. PICK u \in Seq(Token) : y = Text(u)
      BY <2>2
    <3>2. t \o u \in Seq(Token)
      BY ConcatProperties
    <3> QED BY Zenon, <2>1, <3>1, <3>2, Thens, OutcomesAre
  <2>3. CASE y = Error \/ y = Endless
    BY Zenon, <2>1, <2>3, Thens, OutcomesAre
  <2> QED BY Zenon, <2>2, <2>3, OutcomeCases
<1>2. CASE x = Error \/ x = Endless
  BY Zenon, <1>2, Thens, OutcomesAre
<1> QED BY Zenon, <1>1, <1>2, OutcomeCases

LEMMA ThenNothing ==
  ASSUME NEW x \in Outcome
  PROVE  Then(x, Text(<<>>)) = x /\ Then(Text(<<>>), x) = x
<1>1. CASE \E t \in Seq(Token) : x = Text(t)
  <2>1. PICK t \in Seq(Token) : x = Text(t)
    BY <1>1
  <2>2. t \o <<>> = t /\ <<>> \o t = t
    BY ConcatEmptySeq
  <2> QED BY Zenon, <2>1, <2>2, Thens
<1>2. CASE x = Error \/ x = Endless
  BY Zenon, <1>2, Thens
<1> QED BY Zenon, <1>1, <1>2, OutcomeCases

\* The order of evaluation does not depend on how it is grouped.
LEMMA ThenAssociative ==
  ASSUME NEW x \in Outcome, NEW y \in Outcome, NEW z \in Outcome
  PROVE  Then(Then(x, y), z) = Then(x, Then(y, z))
<1>1. CASE \E t \in Seq(Token) : x = Text(t)
  <2>1. PICK t \in Seq(Token) : x = Text(t)
    BY <1>1
  <2>2. CASE \E u \in Seq(Token) : y = Text(u)
    <3>1. PICK u \in Seq(Token) : y = Text(u)
      BY <2>2
    <3>2. CASE \E v \in Seq(Token) : z = Text(v)
      <4>1. PICK v \in Seq(Token) : z = Text(v)
        BY <3>2
      <4>2. (t \o u) \o v = t \o (u \o v)
        BY ConcatAssociative
      <4>3. Then(Then(x, y), z) = Text((t \o u) \o v)
        BY Zenon, <2>1, <3>1, <4>1, Thens
      <4>4. Then(x, Then(y, z)) = Text(t \o (u \o v))
        BY Zenon, <2>1, <3>1, <4>1, Thens
      <4> QED BY Zenon, <4>2, <4>3, <4>4
    <3>3. CASE z = Error \/ z = Endless
      <4>1. Then(Then(x, y), z) = z
        <5>1. Then(x, y) = Text(t \o u)
          BY Zenon, <2>1, <3>1, Thens
        <5> QED BY Zenon, <3>3, <5>1, Thens
      <4>2. Then(x, Then(y, z)) = z
        BY Zenon, <2>1, <3>1, <3>3, Thens
      <4> QED BY Zenon, <4>1, <4>2
    <3> QED BY Zenon, <3>2, <3>3, OutcomeCases
  <2>3. CASE y = Error \/ y = Endless
    BY Zenon, <2>1, <2>3, Thens
  <2> QED BY Zenon, <2>2, <2>3, OutcomeCases
<1>2. CASE x = Error \/ x = Endless
  BY Zenon, <1>2, Thens
<1> QED BY Zenon, <1>1, <1>2, OutcomeCases

\* y goes further than x, or is the same.
Further(x, y) == x = Endless \/ y = x

\* What is known of two outcomes is known of one after the other.
LEMMA ThenFurther ==
  ASSUME NEW x \in Outcome, NEW y \in Outcome, NEW u, NEW v, Further(x, u), Further(y, v)
  PROVE  Further(Then(x, y), Then(u, v))
<1>1. CASE x = Endless
  BY Zenon, <1>1, Thens DEF Further
<1>2. CASE u = x
  <2>1. CASE \E t \in Seq(Token) : x = Text(t)
    BY Zenon, <1>2, <2>1, Thens DEF Further
  <2>2. CASE x = Error \/ x = Endless
    BY Zenon, <1>2, <2>2, Thens DEF Further
  <2> QED BY Zenon, <2>1, <2>2, OutcomeCases
<1> QED BY Zenon, <1>1, <1>2 DEF Further

----------------------------------------------------------------------------
(* Recursive definitions.                                                   *)

\* Texts laid out with what is between them, one step at a time.
LEMMA LaidFromIs ==
  ASSUME NEW L \in Nat, NEW texts \in [1 .. L -> Seq(Token)], NEW gaps \in [1 .. L + 1 -> Seq(Token)]
  PROVE  /\ \A k \in 1 .. L + 1 : LaidFrom(texts, gaps)[k] \in Seq(Token)
         /\ \A k \in 1 .. L : LaidFrom(texts, gaps)[k]
                                = gaps[k] \o texts[k] \o LaidFrom(texts, gaps)[k + 1]
         /\ LaidFrom(texts, gaps)[L + 1] = gaps[L + 1]
<1> DEFINE S == Seq(Token)
           st == [k \in 1 .. L |-> [s \in S |-> gaps[k] \o texts[k] \o s]]
           Is(f) == f = [k \in Nat \ {0} |-> IF k \in DOMAIN texts
                                             THEN gaps[k] \o texts[k] \o f[k + 1] ELSE gaps[k]]
           g == LaidFrom(texts, gaps)
<1>1. st \in [1 .. L -> [S -> S]]
  <2>1. ASSUME NEW k \in 1 .. L, NEW s \in S PROVE gaps[k] \o texts[k] \o s \in S
    <3>1. gaps[k] \in S /\ texts[k] \in S
      BY <2>1
    <3> HIDE DEF S
    <3>2. gaps[k] \o texts[k] \in S
      BY <3>1, ConcatProperties DEF S
    <3> QED BY <3>2, ConcatProperties DEF S
  <2> HIDE DEF S
  <2> QED BY <2>1
<1>2. gaps[L + 1] \in S
  OBVIOUS
<1>3. PICK f : Backs(f, L, gaps, st) /\ \A k \in 1 .. L + 1 : f[k] \in S
  <2> HIDE DEF S, st
  <2> QED BY <1>1, <1>2, BackFunction
<1>4. Is(f)
  <2>1. ASSUME NEW k \in Nat \ {0}
        PROVE  (IF k \in 1 .. L THEN st[k][f[k + 1]] ELSE gaps[k])
                 = (IF k \in DOMAIN texts THEN gaps[k] \o texts[k] \o f[k + 1] ELSE gaps[k])
    <3>1. CASE k \in 1 .. L
      <4>1. f[k + 1] \in S
        <5>1. k + 1 \in 1 .. L + 1
          BY <3>1
        <5> QED BY Zenon, <1>3, <5>1
      <4>2. st[k] = [s \in S |-> gaps[k] \o texts[k] \o s]
        BY <3>1
      <4>3. st[k][f[k + 1]] = gaps[k] \o texts[k] \o f[k + 1]
        <5> HIDE DEF S, st
        <5> QED BY <4>1, <4>2
      <4> HIDE DEF st
      <4> QED BY <3>1, <4>3
    <3>2. CASE k \notin 1 .. L
      BY <3>2
    <3> QED BY <3>1, <3>2
  <2> HIDE DEF st
  <2> QED BY <1>3, <2>1 DEF Backs
<1>5. Is(g)
  <2>1. g = CHOOSE h : Is(h)
    BY DEF LaidFrom
  <2> HIDE DEF Is, g
  <2> QED BY <1>4, <2>1
<1> HIDE DEF g
<1>6. /\ \A k \in 1 .. L : g[k] = gaps[k] \o texts[k] \o g[k + 1]
      /\ g[L + 1] = gaps[L + 1]
  <2>1. \A k \in Nat \ {0} : g[k] = IF k \in 1 .. L THEN gaps[k] \o texts[k] \o g[k + 1] ELSE gaps[k]
    BY <1>5
  <2>2. \A k \in 1 .. L : k \in Nat \ {0}
    OBVIOUS
  <2>3. L + 1 \in Nat \ {0} /\ L + 1 \notin 1 .. L
    OBVIOUS
  <2> QED BY Zenon, <2>1, <2>2, <2>3
<1> DEFINE D == {m \in 0 .. L : g[L + 1 - m] \in S}
<1>7. 0 \in D
  BY <1>2, <1>6
<1>8. ASSUME NEW m \in 1 .. L, m - 1 \in D PROVE m \in D
  <2> DEFINE k == L + 1 - m
  <2>1. k \in 1 .. L /\ k + 1 = L + 1 - (m - 1)
    OBVIOUS
  <2>2. gaps[k] \in S /\ texts[k] \in S /\ g[k + 1] \in S
    <3>1. g[k + 1] \in S
      BY <1>8, <2>1
    <3> QED BY <2>1, <3>1
  <2>3. gaps[k] \o texts[k] \o g[k + 1] \in S
    <3> HIDE DEF k
    <3>1. gaps[k] \o texts[k] \in S
      BY <2>2, ConcatProperties
    <3> QED BY <2>2, <3>1, ConcatProperties
  <2>4. g[k] \in S
    <3> HIDE DEF k
    <3> QED BY <1>6, <2>1, <2>3
  <2> QED BY <2>4
<1>9. D = 0 .. L
  <2> HIDE DEF D
  <2>1. D \in SUBSET (0 .. L)
    BY DEF D
  <2> QED BY <1>7, <1>8, <2>1, UpToInduction
<1>10. ASSUME NEW k \in 1 .. L + 1 PROVE g[k] \in S
  <2>1. L + 1 - k \in 0 .. L /\ L + 1 - (L + 1 - k) = k
    OBVIOUS
  <2>2. L + 1 - k \in D
    BY Zenon, <1>9, <2>1
  <2> QED BY <2>1, <2>2
<1> QED BY <1>6, <1>10 DEF g

\* Outcomes in turn, one step at a time.
LEMMA TurnsFromIs ==
  ASSUME NEW L \in Nat, NEW outs \in [1 .. L -> Outcome]
  PROVE  /\ \A k \in 1 .. L + 1 : TurnsFrom(outs)[k] \in Outcome
         /\ \A k \in 1 .. L : TurnsFrom(outs)[k] = Then(outs[k], TurnsFrom(outs)[k + 1])
         /\ TurnsFrom(outs)[L + 1] = Text(<<>>)
<1> DEFINE st == [k \in 1 .. L |-> [x \in Outcome |-> Then(outs[k], x)]]
           b == [k \in Nat \ {0} |-> Text(<<>>)]
           Is(f) == f = [k \in Nat \ {0} |-> IF k \in DOMAIN outs
                                             THEN Then(outs[k], f[k + 1]) ELSE Text(<<>>)]
           g == TurnsFrom(outs)
<1>1. st \in [1 .. L -> [Outcome -> Outcome]]
  <2>1. ASSUME NEW k \in 1 .. L, NEW x \in Outcome PROVE Then(outs[k], x) \in Outcome
    BY ThenType
  <2> QED BY <2>1
<1>2. b[L + 1] \in Outcome /\ Text(<<>>) \in Outcome
  <2>1. Text(<<>>) \in Outcome
    BY EmptySeq, OutcomesAre
  <2> QED BY <2>1
<1>3. PICK f : Backs(f, L, b, st) /\ \A k \in 1 .. L + 1 : f[k] \in Outcome
  <2> HIDE DEF st, b
  <2> QED BY <1>1, <1>2, BackFunction
<1>4. Is(f)
  <2>1. ASSUME NEW k \in Nat \ {0}
        PROVE  (IF k \in 1 .. L THEN st[k][f[k + 1]] ELSE b[k])
                 = (IF k \in DOMAIN outs THEN Then(outs[k], f[k + 1]) ELSE Text(<<>>))
    <3>1. CASE k \in 1 .. L
      <4>1. f[k + 1] \in Outcome
        <5>1. k + 1 \in 1 .. L + 1
          BY <3>1
        <5> QED BY Zenon, <1>3, <5>1
      <4>2. st[k] = [x \in Outcome |-> Then(outs[k], x)]
        BY <3>1
      <4>3. st[k][f[k + 1]] = Then(outs[k], f[k + 1])
        <5> HIDE DEF st
        <5> QED BY <4>1, <4>2
      <4> HIDE DEF st, b
      <4> QED BY <3>1, <4>3
    <3>2. CASE k \notin 1 .. L
      BY <3>2
    <3> QED BY <3>1, <3>2
  <2> HIDE DEF st, b
  <2> QED BY <1>3, <2>1 DEF Backs
<1>5. Is(g)
  <2>1. g = CHOOSE h : Is(h)
    BY DEF TurnsFrom
  <2> HIDE DEF Is, g
  <2> QED BY <1>4, <2>1
<1> HIDE DEF g
<1>6. /\ \A k \in 1 .. L : g[k] = Then(outs[k], g[k + 1])
      /\ g[L + 1] = Text(<<>>)
  <2>1. \A k \in Nat \ {0} : g[k] = IF k \in 1 .. L THEN Then(outs[k], g[k + 1]) ELSE Text(<<>>)
    BY <1>5
  <2>2. \A k \in 1 .. L : k \in Nat \ {0}
    OBVIOUS
  <2>3. L + 1 \in Nat \ {0} /\ L + 1 \notin 1 .. L
    OBVIOUS
  <2> QED BY Zenon, <2>1, <2>2, <2>3
<1> DEFINE D == {m \in 0 .. L : g[L + 1 - m] \in Outcome}
<1>7. 0 \in D
  BY <1>2, <1>6
<1>8. ASSUME NEW m \in 1 .. L, m - 1 \in D PROVE m \in D
  <2> DEFINE k == L + 1 - m
  <2>1. k \in 1 .. L /\ k + 1 = L + 1 - (m - 1)
    OBVIOUS
  <2>2. outs[k] \in Outcome /\ g[k + 1] \in Outcome
    <3>1. g[k + 1] \in Outcome
      BY <1>8, <2>1
    <3> QED BY <2>1, <3>1
  <2>3. Then(outs[k], g[k + 1]) \in Outcome
    <3> HIDE DEF k
    <3> QED BY <2>2, ThenType
  <2>4. g[k] \in Outcome
    <3> HIDE DEF k
    <3> QED BY <1>6, <2>1, <2>3
  <2> QED BY <2>4
<1>9. D = 0 .. L
  <2> HIDE DEF D
  <2>1. D \in SUBSET (0 .. L)
    BY DEF D
  <2> QED BY <1>7, <1>8, <2>1, UpToInduction
<1>10. ASSUME NEW k \in 1 .. L + 1 PROVE g[k] \in Outcome
  <2>1. L + 1 - k \in 0 .. L /\ L + 1 - (L + 1 - k) = k
    OBVIOUS
  <2>2. L + 1 - k \in D
    BY Zenon, <1>9, <2>1
  <2> QED BY <2>1, <2>2
<1> QED BY <1>6, <1>10 DEF g

----------------------------------------------------------------------------
(* Parts.                                                                   *)

Unopened == Token \ {"${"}

\* A word has no brace in it.
LEMMA WordIs ==
  ASSUME NEW p \in Part, p.plain
  PROVE  p.word \in Seq(Unopened) /\ p.word \in Seq(Token) /\ p.parts = <<>>
<1>1. IsWord(p)
  BY Zenon, PartAssumption
<1>2. p.word \in Seq(Unopened) /\ p = Plain(p.word)
  BY Zenon, <1>1 DEF IsWord, Unopened
<1>3. p.word \in Seq(Token)
  <2>1. Unopened \subseteq Token
    BY Zenon DEF Unopened
  <2> QED BY <1>2, <2>1, SeqMonotonic
<1>4. Plain(p.word).parts = <<>>
  BY DEF Plain
<1> QED BY Zenon, <1>2, <1>3, <1>4

\* Braces are around parts that are nested less deep, with white space around each.
LEMMA BracesAre ==
  ASSUME NEW p \in Part, ~ p.plain
  PROVE  /\ p.parts \in Seq(Part)
         /\ p.gaps \in [1 .. Len(p.parts) + 1 -> Seq({" "})]
         /\ p.gaps \in [1 .. Len(p.parts) + 1 -> Seq(Token)]
         /\ \A i \in 1 .. Len(p.parts) : Inner(p.parts[i]) /\ Depth[p.parts[i]] < Depth[p]
         /\ \A i \in 2 .. Len(p.parts) :
              p.parts[i].plain /\ p.parts[i - 1].plain => p.gaps[i] # <<>>
<1>1. IsBraces(p)
  BY Zenon, PartAssumption
<1>2. /\ p.parts \in Seq(Part) /\ p.gaps \in Seq(Seq({" "}))
      /\ Len(p.gaps) = Len(p.parts) + 1
      /\ \A i \in DOMAIN p.parts : Inner(p.parts[i]) /\ Depth[p.parts[i]] < Depth[p]
      /\ \A i \in 2 .. Len(p.parts) :
           p.parts[i].plain /\ p.parts[i - 1].plain => p.gaps[i] # <<>>
  BY Zenon, <1>1 DEF IsBraces
<1>3. DOMAIN p.parts = 1 .. Len(p.parts) /\ p.gaps \in [1 .. Len(p.parts) + 1 -> Seq({" "})]
  BY Zenon, <1>2, LenProperties
<1>4. ASSUME NEW i \in 1 .. Len(p.parts) + 1 PROVE p.gaps[i] \in Seq(Token)
  <2>1. {" "} \subseteq Token
    BY Zenon DEF Token
  <2> DEFINE B == {" "}
             g == p.gaps
  <2>2. g[i] \in Seq(B)
    BY <1>3
  <2> HIDE DEF B, g
  <2>3. g[i] \in Seq(Token)
    BY <2>1, <2>2, SeqMonotonic DEF B
  <2> QED BY <2>3 DEF g
<1>5. p.gaps \in [1 .. Len(p.parts) + 1 -> Seq(Token)]
  BY <1>3, <1>4
<1> QED BY Zenon, <1>2, <1>3, <1>5

Row == [p \in Part |-> p.parts]

LEMMA RowIs ==
  ASSUME NEW p \in Part
  PROVE  /\ Row[p] = p.parts /\ p.parts \in Seq(Part)
         /\ Len(p.parts) \in Nat /\ DOMAIN p.parts = 1 .. Len(p.parts)
         /\ \A i \in DOMAIN p.parts : p.parts[i] \in Part /\ Depth[p.parts[i]] < Depth[p]
<1>1. p.parts \in Seq(Part)
  <2>1. CASE p.plain
    BY <2>1, WordIs, EmptySeq
  <2>2. CASE ~ p.plain
    BY <2>2, BracesAre
  <2> QED BY <2>1, <2>2
<1>2. /\ Len(p.parts) \in Nat /\ DOMAIN p.parts = 1 .. Len(p.parts)
      /\ \A i \in DOMAIN p.parts : p.parts[i] \in Part
  BY <1>1, LenProperties
<1>3. ASSUME NEW i \in DOMAIN p.parts PROVE Depth[p.parts[i]] < Depth[p]
  <2>1. CASE p.plain
    <3>1. p.parts = <<>>
      BY <2>1, WordIs
    <3>2. DOMAIN <<>> = {}
      OBVIOUS
    <3> QED BY <3>1, <3>2
  <2>2. CASE ~ p.plain
    BY <1>2, <2>2, BracesAre
  <2> QED BY <2>1, <2>2
<1> QED BY <1>1, <1>2, <1>3 DEF Row

\* Parts within parts come to an end.
LEMMA PartsDescend == Descends(Part, Row)
<1> SUFFICES ASSUME NEW D \in SUBSET Part,
                    \A p \in Part : (\A i \in DOMAIN Row[p] : Row[p][i] \in D) => p \in D,
                    Part \ D # {}
             PROVE  FALSE
  BY DEF Descends
<1> DEFINE T == {Depth[p] : p \in Part \ D}
<1>1. \A p \in Part : Depth[p] \in Nat
  BY DepthAssumption
<1>2. PICK x \in T : \A y \in T : x <= y
  <2>1. T \subseteq Nat /\ T # {}
    BY <1>1
  <2> HIDE DEF T
  <2> QED BY <2>1, LeastElement
<1>3. PICK p \in Part \ D : x = Depth[p]
  BY <1>2
<1>4. ASSUME NEW i \in DOMAIN Row[p] PROVE Row[p][i] \in D
  <2>1. Row[p] = p.parts
    BY RowIs
  <2>2. p.parts[i] \in Part /\ Depth[p.parts[i]] < Depth[p]
    BY <2>1, RowIs
  <2>3. ~ (Depth[p] <= Depth[p.parts[i]])
    BY <1>1, <2>2
  <2>4. Depth[p.parts[i]] \notin T
    BY <1>2, <1>3, <2>3
  <2>5. p.parts[i] \in D
    BY <2>2, <2>4
  <2> QED BY <2>1, <2>5
<1> QED BY <1>3, <1>4

\* The texts of the parts within braces.
Spelt(p) == [i \in DOMAIN p.parts |-> Spelling[p.parts[i]]]

LEMMA LaidType ==
  ASSUME NEW p \in Part, ~ p.plain, NEW texts \in [DOMAIN p.parts -> Seq(Token)]
  PROVE  <<"${">> \o Laid(texts, p.gaps) \o <<"}">> \in Seq(Token)
<1>1. Len(p.parts) \in Nat /\ DOMAIN p.parts = 1 .. Len(p.parts)
  BY RowIs
<1>2. p.gaps \in [1 .. Len(p.parts) + 1 -> Seq(Token)]
  BY BracesAre
<1>3. LaidFrom(texts, p.gaps)[1] \in Seq(Token)
  <2> DEFINE L == Len(p.parts)
             gaps == p.gaps
  <2>1. L \in Nat /\ texts \in [1 .. L -> Seq(Token)] /\ gaps \in [1 .. L + 1 -> Seq(Token)]
        /\ 1 \in 1 .. L + 1
    BY <1>1, <1>2
  <2> HIDE DEF L, gaps
  <2>2. LaidFrom(texts, gaps)[1] \in Seq(Token)
    BY <2>1, LaidFromIs
  <2> QED BY <2>2 DEF gaps
<1>4. <<"${">> \in Seq(Token) /\ <<"}">> \in Seq(Token)
  <2>1. "${" \in Token /\ "}" \in Token
    BY Zenon DEF Token
  <2>2. \A x \in Token : <<x>> \in Seq(Token)
    OBVIOUS
  <2> QED BY Zenon, <2>1, <2>2
<1> DEFINE a == <<"${">>
           b == <<"}">>
           t == Laid(texts, p.gaps)
<1>5. t \in Seq(Token)
  BY Zenon, <1>3 DEF Laid
<1> HIDE DEF a, b, t
<1>6. a \in Seq(Token) /\ b \in Seq(Token)
  BY <1>4 DEF a, b
<1>7. a \o t \o b \in Seq(Token)
  <2>1. a \o t \in Seq(Token)
    BY <1>5, <1>6, ConcatProperties
  <2> QED BY <1>6, <2>1, ConcatProperties
<1> QED BY Zenon, <1>7 DEF a, b, t

\* The spelling of a part, by those of the parts in it.
LEMMA SpellingIs ==
  ASSUME NEW p \in Part
  PROVE  /\ Spelling[p] \in Seq(Token)
         /\ Spelt(p) \in [DOMAIN p.parts -> Seq(Token)]
         /\ p.plain => Spelling[p] = p.word
         /\ ~ p.plain => Spelling[p] = <<"${">> \o Laid(Spelt(p), p.gaps) \o <<"}">>
<1> DEFINE S == Seq(Token)
           Made(q, v) == IF q.plain THEN q.word ELSE <<"${">> \o Laid(v, q.gaps) \o <<"}">>
           Own(f, q) == [i \in DOMAIN q.parts |-> f[q.parts[i]]]
           st == [q \in Part |-> [v \in [DOMAIN q.parts -> S] |-> Made(q, v)]]
           Is(f) == f = [q \in Part |-> Made(q, Own(f, q))]
<1>1. ASSUME NEW q \in Part, NEW v \in [DOMAIN q.parts -> S] PROVE Made(q, v) \in S
  BY Zenon, LaidType, WordIs
<1> HIDE DEF Made
<1>2. \A q \in Part : st[q] \in [[DOMAIN q.parts -> S] -> S]
  BY <1>1
<1>3. PICK f \in [Part -> S] : GrowsOn(f, Part, st, Row)
  <2>1. \A q \in Part : st[q] \in [[DOMAIN Row[q] -> S] -> S]
    BY <1>2, RowIs
  <2>2. \A q \in Part : \A i \in DOMAIN Row[q] : Row[q][i] \in Part
    BY RowIs
  <2> HIDE DEF S, st
  <2> QED BY <2>1, <2>2, PartsDescend, RowFunctionType
<1>4. Is(f)
  <2>1. f = [q \in Part |-> st[q][[i \in DOMAIN Row[q] |-> f[Row[q][i]]]]]
    BY Zenon, <1>3 DEF GrowsOn
  <2>2. ASSUME NEW q \in Part PROVE st[q][[i \in DOMAIN Row[q] |-> f[Row[q][i]]]] = Made(q, Own(f, q))
    <3>1. [i \in DOMAIN Row[q] |-> f[Row[q][i]]] = Own(f, q)
      BY Zenon, RowIs
    <3>2. Own(f, q) \in [DOMAIN q.parts -> S]
      BY <1>3, RowIs
    <3>3. st[q] = [v \in [DOMAIN q.parts -> S] |-> Made(q, v)]
      OBVIOUS
    <3> HIDE DEF Own, st, S
    <3> QED BY <3>1, <3>2, <3>3
  <2> HIDE DEF Own, st
  <2> QED BY <2>1, <2>2
<1>5. Is(Spelling)
  <2>1. Spelling = CHOOSE g : Is(g)
    BY Zenon DEF Spelling, Made
  <2> HIDE DEF Is
  <2> QED BY <1>4, <2>1
<1>6. ASSUME NEW q \in Part PROVE Spelling[q] = Made(q, Own(Spelling, q))
  <2> HIDE DEF Own
  <2> QED BY <1>5
<1> DEFINE D == {q \in Part : Spelling[q] \in S}
<1>7. ASSUME NEW q \in Part, \A i \in DOMAIN Row[q] : Row[q][i] \in D PROVE q \in D
  <2>1. Own(Spelling, q) \in [DOMAIN q.parts -> S]
    <3>1. \A i \in DOMAIN q.parts : Spelling[q.parts[i]] \in S
      BY Zenon, <1>7, RowIs
    <3> HIDE DEF S
    <3> QED BY <3>1
  <2>2. Spelling[q] \in S
    BY Zenon, <1>1, <1>6, <2>1
  <2> QED BY <2>2
<1>8. D = Part
  <2>1. D \in SUBSET Part
    OBVIOUS
  <2> HIDE DEF D
  <2> QED BY <1>7, <2>1, PartsDescend DEF Descends
<1>9. ASSUME NEW q \in Part PROVE Spelling[q] \in S
  BY <1>8
<1>10. Spelt(p) \in [DOMAIN p.parts -> S]
  BY <1>9, RowIs DEF Spelt
<1>11. Spelling[p] = Made(p, Spelt(p))
  BY Zenon, <1>6 DEF Spelt
<1> QED BY Zenon, <1>9, <1>10, <1>11 DEF Made

----------------------------------------------------------------------------
(* Words one after the other.                                               *)

Flattens(f, seqs) ==
  f = [i \in 1 .. Len(seqs) |-> IF i = 1 THEN seqs[i] ELSE f[i - 1] \o seqs[i]]

\* Texts one after the other, one step at a time.
LEMMA FlattenIs ==
  ASSUME NEW seqs \in Seq(Seq(Token)), seqs # <<>>
  PROVE  \E f \in [1 .. Len(seqs) -> Seq(Token)] :
           /\ FlattenSeq(seqs) = f[Len(seqs)]
           /\ f[1] = seqs[1]
           /\ \A i \in 2 .. Len(seqs) : f[i] = f[i - 1] \o seqs[i]
<1> DEFINE S == Seq(Token)
           L == Len(seqs)
           st == [k \in 1 .. L |-> [s \in S |-> s \o seqs[k]]]
           F == CHOOSE f : Flattens(f, seqs)
<1>1. L \in Nat /\ L # 0 /\ \A k \in 1 .. L : seqs[k] \in S
  <2>1. Len(seqs) \in Nat \ {0}
    BY EmptySeq
  <2>2. \A k \in 1 .. Len(seqs) : seqs[k] \in S
    BY ElementOfSeq
  <2> QED BY <2>1, <2>2
<1>2. st \in [1 .. L -> [S -> S]] /\ <<>> \in S
  <2>1. ASSUME NEW k \in 1 .. L, NEW s \in S PROVE s \o seqs[k] \in S
    <3>1. seqs[k] \in S
      BY <1>1
    <3> QED BY <3>1, ConcatProperties
  <2> HIDE DEF L
  <2>2. <<>> \in S
    OBVIOUS
  <2> HIDE DEF S
  <2> QED BY <2>1, <2>2
<1> HIDE DEF L
<1>3. PICK c \in [0 .. L -> S] : Counts(c, L, <<>>, st)
  <2> HIDE DEF S, st
  <2> QED BY <1>1, <1>2, Counted
<1>4. c[0] = <<>> /\ \A k \in 1 .. L : c[k] = c[k - 1] \o seqs[k]
  <2>1. \A k \in 0 .. L : c[k] = IF k = 0 THEN <<>> ELSE st[k][c[k - 1]]
    <3> HIDE DEF S, st
    <3> QED BY <1>3 DEF Counts
  <2>2. c[0] = <<>>
    <3>1. 0 \in 0 .. L
      BY <1>1
    <3> HIDE DEF st, S
    <3> QED BY <2>1, <3>1
  <2>3. ASSUME NEW k \in 1 .. L PROVE c[k] = c[k - 1] \o seqs[k]
    <3>1. k \in 0 .. L /\ k # 0 /\ k - 1 \in 0 .. L
      BY <1>1
    <3>2. c[k - 1] \in S
      BY <1>3, <3>1
    <3>3. st[k] = [s \in S |-> s \o seqs[k]]
      OBVIOUS
    <3>4. c[k] = st[k][c[k - 1]]
      <4> HIDE DEF st, S
      <4> QED BY <2>1, <3>1
    <3> HIDE DEF st, S
    <3> QED BY <3>2, <3>3, <3>4
  <2> QED BY <2>2, <2>3
<1> DEFINE d == [i \in 1 .. L |-> c[i]]
<1>5. Flattens(d, seqs)
  <2>1. ASSUME NEW i \in 1 .. L PROVE d[i] = IF i = 1 THEN seqs[i] ELSE d[i - 1] \o seqs[i]
    <3>1. CASE i = 1
      <4>1. seqs[1] \in S /\ d[1] = <<>> \o seqs[1]
        <5>1. 1 \in 1 .. L /\ 1 - 1 = 0
          BY <1>1
        <5>2. c[1] = c[0] \o seqs[1] /\ d[1] = c[1]
          BY <1>4, <5>1
        <5>3. seqs[1] \in S
          BY Zenon, <1>1, <5>1
        <5> QED BY Zenon, <1>4, <5>2, <5>3
      <4>2. <<>> \o seqs[1] = seqs[1]
        BY <4>1, ConcatEmptySeq
      <4> QED BY <3>1, <4>1, <4>2
    <3>2. CASE i # 1
      <4>1. i - 1 \in 1 .. L
        BY <1>1, <3>2
      <4> QED BY <1>4, <3>2, <4>1
    <3> QED BY <3>1, <3>2
  <2>2. d = [i \in 1 .. L |-> d[i]]
    OBVIOUS
  <2> HIDE DEF d
  <2>3. d = [i \in 1 .. L |-> IF i = 1 THEN seqs[i] ELSE d[i - 1] \o seqs[i]]
    BY <2>1, <2>2
  <2> QED BY Zenon, <2>3 DEF Flattens, L
<1>6. Flattens(F, seqs)
  BY Zenon, <1>5
<1> HIDE DEF F
<1>7. F = [i \in 1 .. L |-> IF i = 1 THEN seqs[i] ELSE F[i - 1] \o seqs[i]]
  BY Zenon, <1>6 DEF Flattens, L
<1>8. F[1] = seqs[1] /\ \A i \in 2 .. L : F[i] = F[i - 1] \o seqs[i]
  <2>1. 1 \in 1 .. L /\ \A i \in 2 .. L : i \in 1 .. L /\ i # 1
    BY <1>1
  <2>2. \A i \in 1 .. L : F[i] = IF i = 1 THEN seqs[i] ELSE F[i - 1] \o seqs[i]
    BY <1>7
  <2> QED BY <2>1, <2>2
<1> DEFINE D == {k \in 0 .. L : k = 0 \/ F[k] \in S}
<1>9. ASSUME NEW k \in 1 .. L, k - 1 \in D PROVE k \in D
  <2>1. CASE k = 1
    BY <1>1, <1>8, <2>1
  <2>2. CASE k # 1
    <3>1. k \in 2 .. L /\ k - 1 # 0 /\ F[k - 1] \in S /\ seqs[k] \in S
      BY <1>1, <1>9, <2>2
    <3>2. F[k] \in S
      BY <1>8, <3>1, ConcatProperties
    <3> QED BY <1>1, <3>2
  <2> QED BY <2>1, <2>2
<1>10. D = 0 .. L
  <2>1. D \in SUBSET (0 .. L) /\ 0 \in D
    BY <1>1
  <2> HIDE DEF D
  <2> QED BY <1>1, <1>9, <2>1, UpToInduction
<1>11. F \in [1 .. L -> S]
  <2>1. ASSUME NEW k \in 1 .. L PROVE F[k] \in S
    <3>1. k \in 0 .. L /\ k # 0
      BY <1>1
    <3> QED BY <1>10, <3>1
  <2> HIDE DEF S
  <2> QED BY <1>7, <2>1
<1>12. FlattenSeq(seqs) = F[L]
  BY Zenon, <1>1 DEF FlattenSeq, F, Flattens, L
<1> QED BY Zenon, <1>8, <1>11, <1>12 DEF L

\* Words in turn are their concatenation, as raw makes it.
LEMMA WordsInTurn ==
  ASSUME NEW seqs \in Seq(Seq(Token)),
         NEW outs, outs = [m \in DOMAIN seqs |-> Text(seqs[m])]
  PROVE  InTurn(outs) = Text(FlattenSeq(seqs)) /\ FlattenSeq(seqs) \in Seq(Token)
<1> DEFINE L == Len(seqs)
           T == TurnsFrom(outs)
<1>1. L \in Nat /\ DOMAIN seqs = 1 .. L /\ \A k \in 1 .. L : seqs[k] \in Seq(Token)
  BY LenProperties, ElementOfSeq
<1>2. outs \in [1 .. L -> Outcome] /\ \A k \in 1 .. L : outs[k] = Text(seqs[k])
  BY <1>1, OutcomesAre
<1>3. /\ \A k \in 1 .. L + 1 : T[k] \in Outcome
      /\ \A k \in 1 .. L : T[k] = Then(outs[k], T[k + 1])
      /\ T[L + 1] = Text(<<>>)
  <2> HIDE DEF L
  <2> QED BY <1>1, <1>2, TurnsFromIs
<1>4. InTurn(outs) = T[1]
  BY Zenon DEF InTurn
<1>5. CASE seqs = <<>>
  <2>1. Len(seqs) = 0 /\ seqs \in Seq(Token)
    BY <1>5
  <2>2. FlattenSeq(seqs) = seqs
    BY Zenon, <2>1 DEF FlattenSeq
  <2>3. InTurn(outs) = Text(<<>>)
    <3>1. L + 1 = 1
      BY <2>1
    <3> HIDE DEF L, T
    <3> QED BY <1>3, <1>4, <3>1
  <2> QED BY Zenon, <1>5, <2>1, <2>2, <2>3
<1>6. CASE seqs # <<>>
  <2>1. PICK f \in [1 .. L -> Seq(Token)] :
           /\ FlattenSeq(seqs) = f[L]
           /\ f[1] = seqs[1]
           /\ \A i \in 2 .. L : f[i] = f[i - 1] \o seqs[i]
    BY Zenon, <1>6, FlattenIs
  <2>2. L # 0
    BY <1>6, EmptySeq
  <2> HIDE DEF L, T
  <2> DEFINE D == {k \in 0 .. L : k = 0 \/ Then(Text(f[k]), T[k + 1]) = T[1]}
  <2>3. ASSUME NEW k \in 1 .. L, k - 1 \in D PROVE k \in D
    <3>1. k \in 0 .. L /\ k \in 1 .. L + 1 /\ k + 1 \in 1 .. L + 1
      BY <1>1
    <3>2. T[k] = Then(Text(seqs[k]), T[k + 1])
      BY <1>2, <1>3, <3>1
    <3>3. CASE k = 1
      BY <2>1, <3>1, <3>2, <3>3
    <3>4. CASE k # 1
      <4>1. k \in 2 .. L /\ k - 1 \in 1 .. L /\ k - 1 # 0 /\ k - 1 + 1 = k
        BY <1>1, <3>4
      <4>2. Then(Text(f[k - 1]), T[k]) = T[1]
        BY <2>3, <4>1
      <4>3. f[k] = f[k - 1] \o seqs[k] /\ f[k - 1] \in Seq(Token) /\ seqs[k] \in Seq(Token)
        BY <1>1, <2>1, <4>1
      <4>4. /\ Text(f[k - 1]) \in Outcome /\ Text(seqs[k]) \in Outcome /\ T[k + 1] \in Outcome
            /\ Then(Text(f[k - 1]), Text(seqs[k])) = Text(f[k])
        <5>1. Text(f[k - 1]) \in Outcome /\ Text(seqs[k]) \in Outcome
          BY Zenon, <4>3, OutcomesAre
        <5>2. T[k + 1] \in Outcome
          BY Zenon, <1>3, <3>1
        <5>3. Then(Text(f[k - 1]), Text(seqs[k])) = Text(f[k - 1] \o seqs[k])
          BY Zenon, Thens
        <5> QED BY Zenon, <4>3, <5>1, <5>2, <5>3
      <4>5. Then(Text(f[k]), T[k + 1]) = T[1]
        <5> DEFINE x == Text(f[k - 1])
                   y == Text(seqs[k])
                   z == T[k + 1]
        <5>1. Then(Then(x, y), z) = Then(x, Then(y, z))
          BY Zenon, <4>4, ThenAssociative
        <5> QED BY Zenon, <3>2, <4>2, <4>4, <5>1
      <4> QED BY <3>1, <4>5
    <3> QED BY <3>3, <3>4
  <2>4. D = 0 .. L
    <3>1. D \in SUBSET (0 .. L) /\ 0 \in D
      BY <1>1
    <3> HIDE DEF D
    <3> QED BY <1>1, <2>3, <3>1, UpToInduction
  <2>5. L \in D /\ L \in 1 .. L
    <3>1. L \in 0 .. L /\ L \in 1 .. L
      BY <1>1, <2>2
    <3> HIDE DEF D
    <3> QED BY Zenon, <2>4, <3>1
  <2>6. Then(Text(f[L]), Text(<<>>)) = T[1] /\ f[L] \in Seq(Token)
    BY <1>3, <2>1, <2>2, <2>5
  <2>7. Then(Text(f[L]), Text(<<>>)) = Text(f[L])
    BY Zenon, <2>6, OutcomesAre, ThenNothing
  <2> QED BY Zenon, <1>4, <2>1, <2>6, <2>7
<1> QED BY <1>5, <1>6

LEMMA InTurnType == ASSUME NEW outs \in Seq(Outcome) PROVE InTurn(outs) \in Outcome
<1> DEFINE L == Len(outs)
<1>1. L \in Nat /\ outs \in [1 .. L -> Outcome] /\ 1 \in 1 .. L + 1
  BY LenProperties
<1> HIDE DEF L
<1>2. TurnsFrom(outs)[1] \in Outcome
  BY <1>1, TurnsFromIs
<1> QED BY <1>2 DEF InTurn

LEMMA NothingInTurn == InTurn(<<>>) = Text(<<>>)
<1>1. <<>> \in [1 .. 0 -> Outcome] /\ 0 \in Nat /\ 0 + 1 = 1
  OBVIOUS
<1>2. TurnsFrom(<<>>)[0 + 1] = Text(<<>>)
  BY <1>1, TurnsFromIs
<1> QED BY <1>1, <1>2 DEF InTurn

LEMMA OneInTurn == ASSUME NEW x \in Outcome PROVE InTurn(<<x>>) = x
<1> DEFINE o == <<x>>
<1>1. o \in [1 .. 1 -> Outcome] /\ o[1] = x /\ 1 \in Nat /\ 1 \in 1 .. 1
  OBVIOUS
<1> HIDE DEF o
<1>2. TurnsFrom(o)[1] = Then(o[1], TurnsFrom(o)[1 + 1]) /\ TurnsFrom(o)[1 + 1] = Text(<<>>)
  BY <1>1, TurnsFromIs
<1>3. TurnsFrom(o)[1] = x
  BY Zenon, <1>1, <1>2, ThenNothing
<1> QED BY <1>3 DEF InTurn, o

----------------------------------------------------------------------------
(* What braces stand for.                                                   *)

\* What each Field stands for.
Tables == UNION {[D -> Outcome] : D \in SUBSET Name}

LEMMA TableIs ==
  ASSUME NEW known \in Tables
  PROVE  /\ DOMAIN known \subseteq Name
         /\ \A name \in DOMAIN known : known[name] \in Outcome
  BY DEF Tables

LEMMA OfNameType ==
  ASSUME NEW known \in Tables, NEW name PROVE OfName(known, name) \in Outcome
  BY Zenon, TableIs, OutcomesAre DEF OfName

LEMMA OfEnvType == ASSUME NEW name PROVE OfEnv(name) \in Outcome
<1>1. <<>> \in Seq(Token)
  OBVIOUS
<1>2. (IF name \in DOMAIN Env THEN Env[name] ELSE <<>>) \in Seq(Token)
  BY Zenon, <1>1, EnvAssumption
<1> QED BY Zenon, <1>2, OutcomesAre DEF OfEnv

\* Behind the first one of n.
Behinds(s, n) == [i \in 1 .. n - 1 |-> s[i + 1]]
WordAt(p) == {i \in 1 .. Len(p.parts) - 1 : p.parts[i + 1].plain}
BraceAt(p) == (1 .. Len(p.parts) - 1) \ WordAt(p)
WordsOf(p, own) == Chosen(Behinds(own, Len(p.parts)), WordAt(p))
BracesIn(p, own) == Chosen(Behinds(own, Len(p.parts)), BraceAt(p))
First(p, own) == IF WordAt(p) # {} THEN WordsOf(p, own)[1]
                 ELSE IF BraceAt(p) # {} THEN BracesIn(p, own)[1] ELSE Error
Named(p) == p.parts # <<>> /\ p.parts[1].plain

LEMMA PlacesAre ==
  ASSUME NEW p \in Part
  PROVE  /\ WordAt(p) \subseteq Nat /\ IsFiniteSet(WordAt(p))
         /\ BraceAt(p) \subseteq Nat /\ IsFiniteSet(BraceAt(p))
<1> DEFINE n == Len(p.parts) - 1
<1>1. CASE n \in Nat
  <2>1. WordAt(p) \subseteq 1 .. n /\ BraceAt(p) \subseteq 1 .. n
    BY DEF WordAt, BraceAt
  <2> HIDE DEF n
  <2> QED BY <1>1, <2>1, PlacesFinite
<1>2. CASE n \notin Nat
  <2>1. Len(p.parts) \in Nat
    BY RowIs
  <2>2. 1 .. Len(p.parts) - 1 = {}
    BY <1>2, <2>1
  <2>3. WordAt(p) = {} /\ BraceAt(p) = {}
    BY <2>2 DEF WordAt, BraceAt
  <2> QED BY <2>3, FS_EmptySet
<1> QED BY <1>1, <1>2

LEMMA ChosenLength ==
  ASSUME NEW s, NEW S, Cardinality(S) \in Nat
  PROVE  Len(Chosen(s, S)) = Cardinality(S) /\ DOMAIN Chosen(s, S) = 1 .. Cardinality(S)
<1> DEFINE n == Cardinality(S)
<1>1. Chosen(s, S) = [m \in 1 .. n |-> s[Nth(S, m)]]
  BY DEF Chosen
<1> HIDE DEF n
<1>2. n \in Nat
  BY DEF n
<1>3. Len(Chosen(s, S)) = n /\ DOMAIN Chosen(s, S) = 1 .. n
  BY <1>1, <1>2
<1> QED BY <1>3 DEF n

\* Those at some of the places behind the first one.
LEMMA BehindType ==
  ASSUME NEW p \in Part, NEW X, NEW own \in [DOMAIN p.parts -> X],
         NEW S, S \subseteq 1 .. Len(p.parts) - 1
  PROVE  LET c == Chosen(Behinds(own, Len(p.parts)), S)
         IN  /\ Cardinality(S) \in Nat
             /\ c \in Seq(X) /\ Len(c) = Cardinality(S) /\ DOMAIN c = 1 .. Cardinality(S)
             /\ \A m \in 1 .. Cardinality(S) : /\ Nth(S, m) \in S
                                               /\ Nth(S, m) + 1 \in DOMAIN p.parts
                                               /\ c[m] = own[Nth(S, m) + 1]
<1> DEFINE n == Len(p.parts)
           s == Behinds(own, n)
<1>1. n \in Nat /\ DOMAIN p.parts = 1 .. n
  BY RowIs
<1> HIDE DEF n
<1>2. S \subseteq Nat /\ IsFiniteSet(S)
  <2>1. CASE n = 0
    <3>1. S = {}
      BY <2>1 DEF n
    <3> QED BY <3>1, FS_EmptySet
  <2>2. CASE n # 0
    <3>1. n - 1 \in Nat /\ S \subseteq 1 .. n - 1
      BY <1>1, <2>2 DEF n
    <3> QED BY <3>1, PlacesFinite
  <2> QED BY <2>1, <2>2
<1>3. \A i \in S : i + 1 \in DOMAIN p.parts /\ s[i] = own[i + 1]
  <2>1. \A i \in 1 .. n - 1 : i + 1 \in 1 .. n /\ s[i] = own[i + 1]
    BY <1>1 DEF Behinds
  <2> HIDE DEF s
  <2>2. S \subseteq 1 .. n - 1
    BY DEF n
  <2> QED BY <1>1, <2>1, <2>2
<1> HIDE DEF s
<1>4. \A i \in S : s[i] \in X
  BY <1>3
<1> DEFINE c == Chosen(s, S)
<1>5. /\ Cardinality(S) \in Nat /\ c \in Seq(X) /\ Len(c) = Cardinality(S)
      /\ \A m \in 1 .. Cardinality(S) : Nth(S, m) \in S /\ c[m] = s[Nth(S, m)]
  <2> HIDE DEF c
  <2>1. /\ Cardinality(S) \in Nat /\ Chosen(s, S) \in Seq(X) /\ Len(Chosen(s, S)) = Cardinality(S)
    BY <1>2, <1>4, ChosenType
  <2>2. \A m \in 1 .. Cardinality(S) : Nth(S, m) \in S /\ Chosen(s, S)[m] = s[Nth(S, m)]
    BY <1>2, <2>1, NthMember DEF Chosen
  <2> QED BY <2>1, <2>2 DEF c
<1>6. DOMAIN c = 1 .. Cardinality(S)
  BY Zenon, <1>5, LenProperties
<1>7. \A m \in 1 .. Cardinality(S) : Nth(S, m) + 1 \in DOMAIN p.parts /\ c[m] = own[Nth(S, m) + 1]
  BY Zenon, <1>3, <1>5
<1> QED BY Zenon, <1>5, <1>6, <1>7 DEF s, n

LEMMA Subsets ==
  ASSUME NEW p
  PROVE  WordAt(p) \subseteq 1 .. Len(p.parts) - 1 /\ BraceAt(p) \subseteq 1 .. Len(p.parts) - 1
  BY Zenon DEF WordAt, BraceAt

LEMMA Commands == <<"raw">> # <<"env">> /\ <<"raw">> # <<"replace">> /\ <<"env">> # <<"replace">>
  OBVIOUS

LEMMA OfBracesIs ==
  ASSUME NEW p, NEW known, NEW own
  PROVE  LET x == OfBraces(known, p.parts, own, FALSE)
             command == p.parts[1].word
             first == First(p, own)
         IN  /\ ~ Named(p) => x = Error
             /\ Named(p) /\ command = <<"raw">> =>
                  x = Then(InTurn(WordsOf(p, own)), InTurn(BracesIn(p, own)))
             /\ Named(p) /\ command = <<"env">> =>
                  x = IF first.is = "text" THEN OfEnv(first.text) ELSE first
             /\ Named(p) /\ command = <<"replace">> =>
                  x = IF first.is = "text" THEN OfName(known, first.text) ELSE first
             /\ Named(p) /\ command \notin {<<"raw">>, <<"env">>, <<"replace">>} =>
                  x = IF WordAt(p) = {} THEN OfName(known, command) ELSE Error
<1> DEFINE parts == p.parts
           command == parts[1].word
           rest == [i \in 1 .. Len(parts) - 1 |-> own[i + 1]]
           wordAt == {i \in DOMAIN rest : parts[i + 1].plain}
           braceAt == DOMAIN rest \ wordAt
           words == Chosen(rest, wordAt)
           braces == Chosen(rest, braceAt)
           first == IF wordAt # {} THEN words[1] ELSE IF braceAt # {} THEN braces[1] ELSE Error
           x == OfBraces(known, parts, own, FALSE)
           raw == <<"raw">>
           env == <<"env">>
           replace == <<"replace">>
<1>1. x = IF parts = <<>> \/ ~ parts[1].plain THEN Error
      ELSE CASE command = raw -> IF FALSE THEN InTurn(rest) ELSE Then(InTurn(words), InTurn(braces))
             [] command = env -> IF first.is = "text" THEN OfEnv(first.text) ELSE first
             [] command = replace -> IF first.is = "text" THEN OfName(known, first.text) ELSE first
             [] OTHER -> IF wordAt = {} THEN OfName(known, command) ELSE Error
  BY Zenon DEF OfBraces
<1>2. wordAt = WordAt(p) /\ braceAt = BraceAt(p) /\ rest = Behinds(own, Len(p.parts))
  BY DEF WordAt, BraceAt, Behinds
<1>3. words = WordsOf(p, own) /\ braces = BracesIn(p, own) /\ first = First(p, own)
  BY Zenon, <1>2 DEF WordsOf, BracesIn, First
<1>4. raw # env /\ raw # replace /\ env # replace
  BY Commands
<1>5. Named(p) <=> ~ (parts = <<>> \/ ~ parts[1].plain)
  BY Zenon DEF Named
<1> HIDE DEF raw, env, replace, first, words, braces, wordAt, command, x, parts
<1>6. ~ Named(p) => x = Error
  BY Zenon, <1>1, <1>5
<1>7. Named(p) /\ command = raw => x = Then(InTurn(words), InTurn(braces))
  BY <1>1, <1>4, <1>5
<1>8. Named(p) /\ command = env => x = IF first.is = "text" THEN OfEnv(first.text) ELSE first
  BY <1>1, <1>4, <1>5
<1>9. Named(p) /\ command = replace => x = IF first.is = "text" THEN OfName(known, first.text) ELSE first
  BY <1>1, <1>4, <1>5
<1>10. Named(p) /\ command \notin {raw, env, replace}
         => x = IF wordAt = {} THEN OfName(known, command) ELSE Error
  BY <1>1, <1>4, <1>5
<1>11. wordAt = WordAt(p)
  BY Zenon, <1>2
<1> QED BY Zenon, <1>3, <1>6, <1>7, <1>8, <1>9, <1>10, <1>11 DEF x, command, raw, env, replace, parts

LEMMA FirstType ==
  ASSUME NEW p \in Part, NEW own \in [DOMAIN p.parts -> Outcome]
  PROVE  First(p, own) \in Outcome
<1>1. ASSUME NEW S, S \subseteq 1 .. Len(p.parts) - 1, S # {}
      PROVE  Chosen(Behinds(own, Len(p.parts)), S)[1] \in Outcome
  <2> DEFINE c == Chosen(Behinds(own, Len(p.parts)), S)
  <2>1. Cardinality(S) \in Nat /\ c \in Seq(Outcome) /\ Len(c) = Cardinality(S)
    <3> HIDE DEF c
    <3>1. /\ Cardinality(S) \in Nat
          /\ Chosen(Behinds(own, Len(p.parts)), S) \in Seq(Outcome)
      BY <1>1, BehindType
    <3>2. Len(Chosen(Behinds(own, Len(p.parts)), S)) = Cardinality(S)
      BY <3>1, ChosenLength
    <3> QED BY <3>1, <3>2 DEF c
  <2>2. Cardinality(S) # 0
    <3>1. Len(p.parts) \in Nat
      BY RowIs
    <3>2. IsFiniteSet(S)
      <4>1. IsFiniteSet(1 .. Len(p.parts) - 1)
        BY <3>1, FS_Interval
      <4> QED BY <1>1, <4>1, FS_Subset
    <3> QED BY <1>1, <3>2, FS_EmptySet
  <2>3. 1 \in 1 .. Len(c)
    BY <2>1, <2>2
  <2> HIDE DEF c
  <2>4. c[1] \in Outcome
    BY <2>1, <2>3, ElementOfSeq
  <2> QED BY <2>4 DEF c
<1> QED BY Zenon, <1>1, Subsets, OutcomesAre DEF First, WordsOf, BracesIn

LEMMA OfBracesType ==
  ASSUME NEW p \in Part, NEW known \in Tables, NEW own \in [DOMAIN p.parts -> Outcome]
  PROVE  OfBraces(known, p.parts, own, FALSE) \in Outcome
<1>1. WordsOf(p, own) \in Seq(Outcome) /\ BracesIn(p, own) \in Seq(Outcome)
  BY Zenon, BehindType, Subsets DEF WordsOf, BracesIn
<1>2. Then(InTurn(WordsOf(p, own)), InTurn(BracesIn(p, own))) \in Outcome
  BY Zenon, <1>1, InTurnType, ThenType
<1>3. First(p, own) \in Outcome
  BY FirstType
<1> QED BY Zenon, <1>2, <1>3, OfBracesIs, OfNameType, OfEnvType, OutcomesAre

\* What the parts within braces stand for.
Owns(known, p) == [i \in DOMAIN p.parts |-> OfParts(known, FALSE)[p.parts[i]]]

\* What a part stands for, by what the parts in it do.
LEMMA OfPartsIs ==
  ASSUME NEW known \in Tables, NEW p \in Part
  PROVE  /\ OfParts(known, FALSE)[p] \in Outcome
         /\ Owns(known, p) \in [DOMAIN p.parts -> Outcome]
         /\ p.plain => OfParts(known, FALSE)[p] = Text(p.word)
         /\ ~ p.plain => OfParts(known, FALSE)[p] = OfBraces(known, p.parts, Owns(known, p), FALSE)
<1> DEFINE Made(q, v) == IF q.plain THEN Text(q.word) ELSE OfBraces(known, q.parts, v, FALSE)
           Own(f, q) == [i \in DOMAIN q.parts |-> f[q.parts[i]]]
           st == [q \in Part |-> [v \in [DOMAIN q.parts -> Outcome] |-> Made(q, v)]]
           Is(f) == f = [q \in Part |-> Made(q, Own(f, q))]
           g == OfParts(known, FALSE)
<1>1. ASSUME NEW q \in Part, NEW v \in [DOMAIN q.parts -> Outcome] PROVE Made(q, v) \in Outcome
  BY Zenon, OfBracesType, WordIs, OutcomesAre
<1> HIDE DEF Made
<1>2. \A q \in Part : st[q] \in [[DOMAIN q.parts -> Outcome] -> Outcome]
  BY <1>1
<1>3. PICK f \in [Part -> Outcome] : GrowsOn(f, Part, st, Row)
  <2>1. \A q \in Part : st[q] \in [[DOMAIN Row[q] -> Outcome] -> Outcome]
    BY <1>2, RowIs
  <2>2. \A q \in Part : \A i \in DOMAIN Row[q] : Row[q][i] \in Part
    BY RowIs
  <2> HIDE DEF st
  <2> QED BY <2>1, <2>2, PartsDescend, RowFunctionType
<1>4. Is(f)
  <2>1. f = [q \in Part |-> st[q][[i \in DOMAIN Row[q] |-> f[Row[q][i]]]]]
    BY Zenon, <1>3 DEF GrowsOn
  <2>2. ASSUME NEW q \in Part PROVE st[q][[i \in DOMAIN Row[q] |-> f[Row[q][i]]]] = Made(q, Own(f, q))
    <3>1. [i \in DOMAIN Row[q] |-> f[Row[q][i]]] = Own(f, q)
      BY Zenon, RowIs
    <3>2. Own(f, q) \in [DOMAIN q.parts -> Outcome]
      BY <1>3, RowIs
    <3>3. st[q] = [v \in [DOMAIN q.parts -> Outcome] |-> Made(q, v)]
      OBVIOUS
    <3> HIDE DEF Own, st
    <3> QED BY <3>1, <3>2, <3>3
  <2> HIDE DEF Own, st
  <2> QED BY <2>1, <2>2
<1>5. Is(g)
  <2>1. g = CHOOSE h : Is(h)
    BY Zenon DEF OfParts, Made
  <2> HIDE DEF Is, g
  <2> QED BY <1>4, <2>1
<1> HIDE DEF g
<1>6. ASSUME NEW q \in Part PROVE g[q] = Made(q, Own(g, q))
  <2> HIDE DEF Own
  <2> QED BY <1>5
<1> DEFINE D == {q \in Part : g[q] \in Outcome}
<1>7. ASSUME NEW q \in Part, \A i \in DOMAIN Row[q] : Row[q][i] \in D PROVE q \in D
  <2>1. Own(g, q) \in [DOMAIN q.parts -> Outcome]
    <3>1. \A i \in DOMAIN q.parts : g[q.parts[i]] \in Outcome
      BY Zenon, <1>7, RowIs
    <3> QED BY <3>1
  <2>2. g[q] \in Outcome
    BY Zenon, <1>1, <1>6, <2>1
  <2> QED BY <2>2
<1>8. D = Part
  <2>1. D \in SUBSET Part
    OBVIOUS
  <2> HIDE DEF D
  <2> QED BY <1>7, <2>1, PartsDescend DEF Descends
<1>9. ASSUME NEW q \in Part PROVE g[q] \in Outcome
  BY <1>8
<1>10. Owns(known, p) \in [DOMAIN p.parts -> Outcome]
  BY <1>9, RowIs DEF Owns, g
<1>11. g[p] = Made(p, Owns(known, p))
  BY Zenon, <1>6 DEF Owns, g
<1> QED BY Zenon, <1>9, <1>10, <1>11 DEF Made, g

----------------------------------------------------------------------------
(* Levels of what is put together.                                          *)

Begin == "${"
End == "}"
Blank == " "

LEMMA Marks ==
  /\ Begin # End /\ Begin # Blank /\ End # Blank
  /\ Begin \in Token /\ End \in Token /\ Blank \in Token
  /\ Begin \notin Word /\ End \notin Word /\ Blank \notin Word
  /\ Word \subseteq Token
  /\ Token = Word \cup {Begin, End, Blank}
  /\ Unopened = Token \ {Begin}
<1>1. "${" # "}" /\ "${" # " " /\ "}" # " "
  OBVIOUS
<1>2. Begin # End /\ Begin # Blank /\ End # Blank
  BY Zenon, <1>1 DEF Begin, End, Blank
<1>3. "${" \in Token /\ "}" \in Token /\ " " \in Token /\ Word \subseteq Token
  BY Zenon DEF Token
<1>4. "${" \notin Word /\ "}" \notin Word /\ " " \notin Word
  BY Zenon, WordAssumption
<1>5. Token = Word \cup {Begin, End, Blank}
  BY Zenon DEF Token, Begin, End, Blank
<1>6. Unopened = Token \ {Begin}
  BY Zenon DEF Unopened, Begin
<1> QED BY Zenon, <1>2, <1>3, <1>4, <1>5, <1>6 DEF Begin, End, Blank

LEMMA Stepping ==
  ASSUME NEW t, NEW i \in Nat \ {0}
  PROVE  Steps(Level(t, i), Level(t, i - 1), t[i], Begin, End)
  BY Zenon, LevelStep DEF Begin, End

\* Both halves of a text can be cut out of it again.
LEMMA ConcatParts ==
  ASSUME NEW X, NEW s \in Seq(X), NEW t \in Seq(X)
  PROVE  SubSeq(s \o t, 1, Len(s)) = s /\ SubSeq(s \o t, Len(s) + 1, Len(s) + Len(t)) = t
<1> DEFINE c == s \o t
           m == Len(s)
           n == Len(t)
<1>1. /\ m \in Nat /\ n \in Nat /\ c \in Seq(X) /\ Len(c) = m + n
      /\ \A i \in 1 .. m + n : c[i] = IF i <= m THEN s[i] ELSE t[i - m]
  <2>1. Len(s) \in Nat /\ Len(t) \in Nat
    OBVIOUS
  <2> QED BY <2>1, ConcatProperties
<1> HIDE DEF c, m, n
<1>2. SubSeq(c, 1, m) = s
  <2> DEFINE u == SubSeq(c, 1, m)
  <2>1. 1 \in 1 .. Len(c) + 1 /\ m \in 1 - 1 .. Len(c)
    BY <1>1
  <2>2. u \in Seq(X) /\ Len(u) = m - 1 + 1 /\ \A k \in 1 .. m - 1 + 1 : u[k] = c[1 - 1 + k]
    BY <1>1, <2>1, SubText
  <2> HIDE DEF u
  <2>3. Len(u) = m /\ \A k \in 1 .. m : u[k] = s[k]
    <3>1. ASSUME NEW k \in 1 .. m PROVE u[k] = s[k]
      <4>1. k \in 1 .. m - 1 + 1 /\ 1 - 1 + k = k /\ k \in 1 .. m + n /\ k <= m
        BY <1>1
      <4> QED BY <1>1, <2>2, <4>1
    <3> QED BY <1>1, <2>2, <3>1
  <2> QED BY <2>2, <2>3, SeqEqual DEF m, u
<1>3. SubSeq(c, m + 1, m + n) = t
  <2> DEFINE a == m + 1
             b == m + n
             u == SubSeq(c, a, b)
  <2>1. a \in 1 .. Len(c) + 1 /\ b \in a - 1 .. Len(c) /\ b - a + 1 = n
    BY <1>1
  <2> HIDE DEF a, b
  <2>2. u \in Seq(X) /\ Len(u) = b - a + 1 /\ \A k \in 1 .. b - a + 1 : u[k] = c[a - 1 + k]
    BY <1>1, <2>1, SubText
  <2> HIDE DEF u
  <2>3. Len(u) = n /\ \A k \in 1 .. n : u[k] = t[k]
    <3>1. ASSUME NEW k \in 1 .. n PROVE u[k] = t[k]
      <4>1. k \in 1 .. b - a + 1 /\ a - 1 + k = m + k /\ m + k \in 1 .. m + n /\ ~ (m + k <= m)
            /\ (m + k) - m = k
        BY <1>1, <2>1 DEF a
      <4>2. u[k] = c[m + k]
        BY <2>2, <4>1
      <4>3. c[m + k] = t[(m + k) - m]
        BY <1>1, <4>1
      <4> QED BY <4>1, <4>2, <4>3
    <3> QED BY <2>1, <2>2, <3>1
  <2> QED BY <2>2, <2>3, SeqEqual DEF n, u, a, b
<1> QED BY <1>2, <1>3 DEF c, m, n

\* Levels of a text put together are those of its halves, one upon the other.
LEMMA LevelConcat ==
  ASSUME NEW s \in Seq(Token), NEW t \in Seq(Token)
  PROVE  /\ \A k \in 0 .. Len(s) : Level(s \o t, k) = Level(s, k)
         /\ \A k \in 0 .. Len(t) : Level(s \o t, Len(s) + k) = Level(s, Len(s)) + Level(t, k)
<1> DEFINE c == s \o t
           m == Len(s)
           n == Len(t)
<1>1. /\ m \in Nat /\ n \in Nat /\ c \in Seq(Token) /\ Len(c) = m + n
      /\ SubSeq(c, 0 + 1, m) = s /\ SubSeq(c, m + 1, m + n) = t
  <2>1. Len(s) \in Nat /\ Len(t) \in Nat /\ 0 + 1 = 1
    OBVIOUS
  <2> QED BY <2>1, ConcatProperties, ConcatParts
<1> HIDE DEF c, m, n
<1>2. ASSUME NEW k \in 0 .. m PROVE Level(c, k) = Level(s, k)
  <2>1. 0 \in 0 .. Len(c) /\ m \in 0 .. Len(c) /\ k \in 0 .. m - 0 /\ 0 + k = k /\ k \in Nat
    BY <1>1
  <2>2. Level(SubSeq(c, 0 + 1, m), k) = Level(c, 0 + k) - Level(c, 0)
    BY <1>1, <2>1, LevelShift
  <2>3. Level(c, 0) = 0 /\ Level(c, k) \in Int
    BY <2>1, LevelNone, LevelType
  <2>4. Level(s, k) = Level(c, k) - Level(c, 0)
    BY Zenon, <1>1, <2>1, <2>2
  <2> QED BY <2>3, <2>4
<1>3. ASSUME NEW k \in 0 .. n PROVE Level(c, m + k) = Level(s, m) + Level(t, k)
  <2> DEFINE b == m + n
  <2>1. m \in 0 .. Len(c) /\ b \in m .. Len(c) /\ k \in 0 .. b - m /\ m + k \in Nat
    BY <1>1
  <2> HIDE DEF b
  <2>2. Level(SubSeq(c, m + 1, b), k) = Level(c, m + k) - Level(c, m)
    BY <1>1, <2>1, LevelShift
  <2>3. Level(c, m) = Level(s, m)
    BY <1>1, <1>2
  <2>4. Level(c, m + k) \in Int /\ Level(s, m) \in Int
    BY <1>1, <2>1, LevelType
  <2>5. Level(t, k) = Level(c, m + k) - Level(c, m)
    BY Zenon, <1>1, <2>2 DEF b
  <2> QED BY <2>3, <2>4, <2>5
<1> QED BY <1>2, <1>3 DEF c, m, n

\* c is s and t, of the lengths m and n.
Joined(c, s, t, m, n) ==
  /\ m \in Nat /\ n \in Nat /\ c \in Seq(Token) /\ Len(c) = m + n
  /\ \A i \in 1 .. m + n : c[i] = IF i <= m THEN s[i] ELSE t[i - m]
  /\ \A k \in 0 .. m : Level(c, k) = Level(s, k)
  /\ \A k \in 0 .. n : Level(c, m + k) = Level(s, m) + Level(t, k)

LEMMA ConcatIs ==
  ASSUME NEW s \in Seq(Token), NEW t \in Seq(Token)
  PROVE  Joined(s \o t, s, t, Len(s), Len(t))
<1>1. Len(s) \in Nat /\ Len(t) \in Nat
  OBVIOUS
<1>2. /\ s \o t \in Seq(Token) /\ Len(s \o t) = Len(s) + Len(t)
      /\ \A i \in 1 .. Len(s) + Len(t) : (s \o t)[i] = IF i <= Len(s) THEN s[i] ELSE t[i - Len(s)]
  BY ConcatProperties
<1>3. /\ \A k \in 0 .. Len(s) : Level(s \o t, k) = Level(s, k)
      /\ \A k \in 0 .. Len(t) : Level(s \o t, Len(s) + k) = Level(s, Len(s)) + Level(t, k)
  BY LevelConcat
<1> QED BY Zenon, <1>1, <1>2, <1>3 DEF Joined

\* All that is opened in it is closed in it, and no more is closed.
Nests(s) == /\ s \in Seq(Token)
            /\ \A k \in 0 .. Len(s) : Level(s, k) >= 0
            /\ Level(s, Len(s)) = 0

\* Tokens that are no braces.
Flat == Token \ {Begin, End}

\* Text without braces stays on its level.
LEMMA FlatLevels ==
  ASSUME NEW s \in Seq(Flat)
  PROVE  Nests(s) /\ \A k \in 0 .. Len(s) : Level(s, k) = 0
<1> DEFINE L == Len(s)
           D == {k \in 0 .. L : Level(s, k) = 0}
<1>1. L \in Nat /\ s \in Seq(Token)
  <2>1. Flat \subseteq Token
    BY DEF Flat
  <2> QED BY <2>1, SeqMonotonic
<1>2. 0 \in D
  BY <1>1, LevelNone
<1>3. ASSUME NEW k \in 1 .. L, k - 1 \in D PROVE k \in D
  <2>1. s[k] \notin {Begin, End}
    <3>1. s[k] \in Flat
      BY ElementOfSeq
    <3> QED BY <3>1 DEF Flat
  <2>2. Steps(Level(s, k), Level(s, k - 1), s[k], Begin, End)
    BY Stepping
  <2>3. Level(s, k - 1) = 0
    BY <1>3
  <2>4. Level(s, k) = 0
    BY <2>1, <2>2, <2>3 DEF Steps
  <2> QED BY <1>1, <2>4
<1>4. D = 0 .. L
  <2>1. D \in SUBSET (0 .. L)
    OBVIOUS
  <2> HIDE DEF D, L
  <2> QED BY <1>1, <1>2, <1>3, <2>1, UpToInduction
<1>5. \A k \in 0 .. L : Level(s, k) = 0
  BY <1>4
<1> HIDE DEF D, L
<1>6. Nests(s)
  <2>1. L \in 0 .. L
    BY <1>1
  <2> QED BY <1>1, <1>5, <2>1 DEF Nests, L
<1> QED BY <1>5, <1>6 DEF L

\* Texts that are nested properly are so one after the other.
LEMMA NestsConcat ==
  ASSUME NEW s, NEW t, Nests(s), Nests(t)
  PROVE  Nests(s \o t)
<1> DEFINE c == s \o t
           m == Len(s)
           n == Len(t)
<1>1. s \in Seq(Token) /\ t \in Seq(Token)
  BY DEF Nests
<1>2. /\ m \in Nat /\ n \in Nat /\ c \in Seq(Token) /\ Len(c) = m + n
      /\ \A k \in 0 .. m : Level(c, k) = Level(s, k)
      /\ \A k \in 0 .. n : Level(c, m + k) = Level(s, m) + Level(t, k)
  <2>1. Len(s) \in Nat /\ Len(t) \in Nat
    BY <1>1
  <2> QED BY <1>1, <2>1, ConcatProperties, LevelConcat
<1>3. /\ \A k \in 0 .. m : Level(s, k) >= 0
      /\ \A k \in 0 .. n : Level(t, k) >= 0
      /\ Level(s, m) = 0 /\ Level(t, n) = 0
  BY DEF Nests
<1>4. \A k \in 0 .. n : Level(t, k) \in Int
  BY LevelType
<1> HIDE DEF c, m, n
<1>5. ASSUME NEW k \in 0 .. m + n PROVE Level(c, k) >= 0
  <2>1. CASE k <= m
    <3>1. k \in 0 .. m
      BY <1>2, <2>1
    <3> QED BY <1>2, <1>3, <3>1
  <2>2. CASE ~ (k <= m)
    <3>1. k - m \in 0 .. n /\ m + (k - m) = k
      BY <1>2, <2>2
    <3>2. Level(c, k) = Level(s, m) + Level(t, k - m)
      BY <1>2, <3>1
    <3> QED BY <1>3, <1>4, <3>1, <3>2
  <2> QED BY <2>1, <2>2
<1>6. Level(c, m + n) = 0
  <2>1. n \in 0 .. n
    BY <1>2
  <2> QED BY <1>2, <1>3, <2>1
<1>7. Nests(c)
  BY <1>2, <1>5, <1>6 DEF Nests
<1> QED BY <1>7 DEF c

\* A text in braces.
Bracket(b) == /\ Nests(b) /\ Len(b) >= 2 /\ b[1] = Begin /\ b[Len(b)] = End
              /\ Level(b, 1) = 1
              /\ \A k \in 1 .. Len(b) - 1 : Level(b, k) >= 1

LEMMA OneToken ==
  ASSUME NEW x \in Token
  PROVE  /\ <<x>> \in Seq(Token) /\ Len(<<x>>) = 1 /\ <<x>>[1] = x
         /\ Level(<<x>>, 0) = 0
         /\ x = Begin => Level(<<x>>, 1) = 1
         /\ x = End => Level(<<x>>, 1) = -1
<1> DEFINE s == <<x>>
<1>1. s \in Seq(Token) /\ Len(s) = 1 /\ s[1] = x
  OBVIOUS
<1> HIDE DEF s
<1>2. Level(s, 0) = 0
  BY LevelNone
<1>3. Steps(Level(s, 1), Level(s, 1 - 1), s[1], Begin, End) /\ 1 - 1 = 0
  BY Stepping
<1>4. x = Begin => Level(s, 1) = 1
  BY <1>1, <1>2, <1>3 DEF Steps
<1>5. x = End => Level(s, 1) = -1
  BY <1>1, <1>2, <1>3 DEF Steps
<1> QED BY <1>1, <1>2, <1>4, <1>5 DEF s

\* And with braces around them.
LEMMA Bracketing ==
  ASSUME NEW s, Nests(s)
  PROVE  LET b == <<Begin>> \o s \o <<End>>
         IN  Bracket(b) /\ Len(b) = Len(s) + 2 /\ Inside(b) = s
<1> DEFINE o == <<Begin>>
           e == <<End>>
           a == o \o s
           b == a \o e
           n == Len(s)
<1>1. /\ s \in Seq(Token) /\ Level(s, n) = 0
      /\ \A k \in 0 .. n : Level(s, k) >= 0
  BY DEF Nests
<1>2. n \in Nat /\ \A k \in 0 .. n : Level(s, k) \in Int
  <2>1. Len(s) \in Nat
    BY <1>1
  <2> QED BY <2>1, LevelType
<1>3. /\ o \in Seq(Token) /\ Len(o) = 1 /\ o[1] = Begin /\ Level(o, 0) = 0 /\ Level(o, 1) = 1
      /\ e \in Seq(Token) /\ Len(e) = 1 /\ e[1] = End /\ Level(e, 0) = 0 /\ Level(e, 1) = -1
  BY Marks, OneToken
<1> HIDE DEF o, e
<1>4. /\ a \in Seq(Token) /\ Len(a) = 1 + n
      /\ \A i \in 1 .. 1 + n : a[i] = IF i <= 1 THEN o[i] ELSE s[i - 1]
      /\ \A k \in 0 .. 1 : Level(a, k) = Level(o, k)
      /\ \A k \in 0 .. n : Level(a, 1 + k) = Level(o, 1) + Level(s, k)
  <2>1. 1 = Len(o) /\ n = Len(s)
    BY <1>3
  <2> HIDE DEF n
  <2>2. Joined(a, o, s, Len(o), Len(s))
    BY Zenon, <1>1, <1>3, ConcatIs DEF a
  <2>3. Joined(a, o, s, 1, n)
    BY Zenon, <2>1, <2>2
  <2> QED BY Zenon, <2>3 DEF Joined
<1> HIDE DEF a
<1>5. /\ b \in Seq(Token) /\ Len(b) = (1 + n) + 1
      /\ \A i \in 1 .. (1 + n) + 1 : b[i] = IF i <= 1 + n THEN a[i] ELSE e[i - (1 + n)]
      /\ \A k \in 0 .. 1 + n : Level(b, k) = Level(a, k)
      /\ \A k \in 0 .. 1 : Level(b, (1 + n) + k) = Level(a, 1 + n) + Level(e, k)
  <2>1. 1 + n = Len(a) /\ 1 = Len(e)
    BY <1>3, <1>4
  <2> HIDE DEF n
  <2>2. Joined(b, a, e, Len(a), Len(e))
    BY Zenon, <1>3, <1>4, ConcatIs DEF b
  <2>3. Joined(b, a, e, 1 + n, 1)
    BY Zenon, <2>1, <2>2
  <2> QED BY Zenon, <2>3 DEF Joined
<1> HIDE DEF b, n
<1>6. b[1] = Begin /\ b[(1 + n) + 1] = End
  <2>1. 1 \in 1 .. 1 + n /\ 1 \in 1 .. (1 + n) + 1 /\ 1 <= 1 + n
        /\ (1 + n) + 1 \in 1 .. (1 + n) + 1 /\ ~ ((1 + n) + 1 <= 1 + n)
        /\ ((1 + n) + 1) - (1 + n) = 1
    BY <1>2
  <2>2. b[1] = a[1] /\ a[1] = o[1]
    BY <1>4, <1>5, <2>1
  <2>3. b[(1 + n) + 1] = e[1]
    BY <1>5, <2>1
  <2> QED BY <1>3, <2>2, <2>3
<1>7. ASSUME NEW k \in 1 .. 1 + n PROVE Level(b, k) = 1 + Level(s, k - 1)
  <2>1. k - 1 \in 0 .. n /\ 1 + (k - 1) = k /\ k \in 0 .. 1 + n
    BY <1>2
  <2>2. Level(b, k) = Level(a, 1 + (k - 1))
    BY <1>5, <2>1
  <2>3. Level(a, 1 + (k - 1)) = Level(o, 1) + Level(s, k - 1)
    BY <1>4, <2>1
  <2> QED BY <1>3, <2>2, <2>3
<1>8. Level(b, (1 + n) + 1) = 0
  <2>1. 1 \in 0 .. 1 /\ 1 + n \in 1 .. 1 + n /\ 1 + n \in 0 .. 1 + n /\ (1 + n) - 1 = n
    BY <1>2
  <2>2. Level(b, (1 + n) + 1) = Level(a, 1 + n) + Level(e, 1)
    BY <1>5, <2>1
  <2>3. Level(a, 1 + n) = 1
    BY <1>1, <1>5, <1>7, <2>1 DEF n
  <2> QED BY <1>3, <2>2, <2>3
<1>9. \A k \in 1 .. Len(b) - 1 : Level(b, k) >= 1
  <2>1. ASSUME NEW k \in 1 .. Len(b) - 1 PROVE Level(b, k) >= 1
    <3>1. k \in 1 .. 1 + n /\ k - 1 \in 0 .. n
      BY <1>2, <1>5
    <3>2. Level(s, k - 1) \in Int /\ Level(s, k - 1) >= 0
      BY <1>1, <1>2, <3>1 DEF n
    <3> QED BY <1>7, <3>1, <3>2
  <2> QED BY <2>1
<1>10. Level(b, 1) = 1 /\ Level(b, 0) = 0
  <2>1. 1 \in 1 .. 1 + n /\ 1 - 1 = 0
    BY <1>2
  <2> QED BY <1>7, <2>1, LevelNone
<1>11. Nests(b)
  <2>1. ASSUME NEW k \in 0 .. Len(b) PROVE Level(b, k) >= 0
    <3>1. k = 0 \/ k \in 1 .. Len(b) - 1 \/ k = (1 + n) + 1
      BY <1>2, <1>5
    <3>2. CASE k \in 1 .. Len(b) - 1
      <4>1. Level(b, k) >= 1 /\ Level(b, k) \in Int
        BY <1>9, <3>2, LevelType
      <4> QED BY <4>1
    <3> QED BY <1>8, <1>10, <3>1, <3>2
  <2> QED BY <1>5, <1>8, <2>1 DEF Nests
<1>12. Bracket(b) /\ Len(b) = n + 2
  BY <1>2, <1>5, <1>6, <1>9, <1>10, <1>11 DEF Bracket
<1>13. Inside(b) = s
  <2> DEFINE u == Inside(b)
             m == Len(b) - 1
  <2>1. 2 \in 1 .. Len(b) + 1 /\ m \in 2 - 1 .. Len(b) /\ m - 2 + 1 = n
    BY <1>2, <1>5
  <2>2. u \in Seq(Token) /\ Len(u) = n /\ \A k \in 1 .. n : u[k] = b[2 - 1 + k]
    <3>1. SubSeq(b, 2, m) \in Seq(Token) /\ Len(SubSeq(b, 2, m)) = m - 2 + 1
          /\ \A k \in 1 .. m - 2 + 1 : SubSeq(b, 2, m)[k] = b[2 - 1 + k]
      <4> HIDE DEF m
      <4> QED BY <1>5, <2>1, SubText
    <3> QED BY <2>1, <3>1 DEF Inside
  <2> HIDE DEF u, m
  <2>3. ASSUME NEW k \in 1 .. n PROVE u[k] = s[k]
    <3>1. 2 - 1 + k = 1 + k /\ 1 + k \in 1 .. 1 + n /\ ~ (1 + k <= 1) /\ (1 + k) - 1 = k
          /\ 1 + k \in 1 .. (1 + n) + 1 /\ 1 + k <= 1 + n
      BY <1>2
    <3>2. u[k] = b[1 + k]
      BY <2>2, <3>1
    <3>3. b[1 + k] = a[1 + k]
      BY <1>5, <3>1
    <3>4. a[1 + k] = s[(1 + k) - 1]
      BY <1>4, <3>1
    <3> QED BY <3>1, <3>2, <3>3, <3>4
  <2> QED BY <1>1, <2>2, <2>3, SeqEqual DEF n, u
<1> QED BY <1>12, <1>13 DEF a, b, o, e, n

LEMMA BlanksAre ==
  ASSUME NEW g \in Seq({" "})
  PROVE  g \in Seq(Flat) /\ g \in Seq(Token) /\ \A i \in 1 .. Len(g) : g[i] = Blank
<1> DEFINE B == {" "}
<1>1. B = {Blank} /\ g \in Seq(B)
  BY Zenon DEF Blank
<1> HIDE DEF B
<1>2. B \subseteq Flat /\ B \subseteq Token
  BY Zenon, <1>1, Marks DEF Flat
<1>3. \A i \in 1 .. Len(g) : g[i] \in B
  BY <1>1, ElementOfSeq
<1> QED BY <1>1, <1>2, <1>3, SeqMonotonic

\* What stands in braces is nested properly if each part is.
LEMMA LaidNests ==
  ASSUME NEW L \in Nat, NEW texts \in [1 .. L -> Seq(Token)], NEW gaps \in [1 .. L + 1 -> Seq(Flat)],
         \A k \in 1 .. L : Nests(texts[k])
  PROVE  \A k \in 1 .. L + 1 : Nests(LaidFrom(texts, gaps)[k])
<1> DEFINE F == LaidFrom(texts, gaps)
           D == {m \in 0 .. L : Nests(F[L + 1 - m])}
<1>1. gaps \in [1 .. L + 1 -> Seq(Token)]
  <2>1. Flat \subseteq Token
    BY DEF Flat
  <2>2. \A k \in 1 .. L + 1 : gaps[k] \in Seq(Token)
    BY <2>1, SeqMonotonic
  <2> QED BY <2>2
<1>2. /\ \A k \in 1 .. L : F[k] = gaps[k] \o texts[k] \o F[k + 1]
      /\ F[L + 1] = gaps[L + 1]
  BY <1>1, LaidFromIs
<1> HIDE DEF F
<1>3. \A k \in 1 .. L + 1 : Nests(gaps[k])
  BY FlatLevels
<1>4. 0 \in D
  BY <1>2, <1>3
<1>5. ASSUME NEW m \in 1 .. L, m - 1 \in D PROVE m \in D
  <2> DEFINE k == L + 1 - m
  <2>1. k \in 1 .. L /\ k \in 1 .. L + 1 /\ k + 1 = L + 1 - (m - 1)
    OBVIOUS
  <2>2. Nests(F[k + 1])
    BY <1>5, <2>1
  <2> HIDE DEF k
  <2>3. Nests(gaps[k] \o texts[k])
    BY <1>3, <2>1, NestsConcat
  <2>4. Nests(gaps[k] \o texts[k] \o F[k + 1])
    BY <2>2, <2>3, NestsConcat
  <2>5. Nests(F[k])
    BY <1>2, <2>1, <2>4
  <2> QED BY <2>5 DEF k
<1>6. D = 0 .. L
  <2>1. D \in SUBSET (0 .. L)
    OBVIOUS
  <2> HIDE DEF D
  <2> QED BY <1>4, <1>5, <2>1, UpToInduction
<1>7. ASSUME NEW k \in 1 .. L + 1 PROVE Nests(F[k])
  <2>1. L + 1 - k \in 0 .. L /\ L + 1 - (L + 1 - k) = k
    OBVIOUS
  <2>2. L + 1 - k \in D
    BY Zenon, <1>6, <2>1
  <2> QED BY <2>1, <2>2
<1> QED BY <1>7 DEF F

LEMMA InnerWord ==
  ASSUME NEW p \in Part, p.plain, Inner(p)
  PROVE  Spelling[p] \in Seq(Word) /\ Spelling[p] # <<>> /\ Nests(Spelling[p])
<1>1. Spelling[p] = p.word /\ p.word \in Seq(Word) /\ p.word # <<>>
  BY Zenon, SpellingIs DEF Inner
<1>2. Word \subseteq Flat
  BY Marks DEF Flat
<1>3. p.word \in Seq(Flat)
  BY <1>1, <1>2, SeqMonotonic
<1> QED BY Zenon, <1>1, <1>3, FlatLevels

\* Braces that are spelled out are a text in braces.
LEMMA SpellingBracket ==
  ASSUME NEW p \in Part, ~ p.plain
  PROVE  /\ Bracket(Spelling[p]) /\ Inside(Spelling[p]) = Laid(Spelt(p), p.gaps)
         /\ Nests(Laid(Spelt(p), p.gaps))
         /\ \A i \in 1 .. Len(p.parts) : Nests(Spelling[p.parts[i]])
<1> DEFINE Good(q) == q.plain \/ Nests(Spelling[q])
           D == {q \in Part : Good(q)}
<1>1. ASSUME NEW q \in Part, ~ q.plain, \A i \in DOMAIN q.parts : Good(q.parts[i])
      PROVE  /\ \A i \in 1 .. Len(q.parts) : Nests(Spelling[q.parts[i]])
             /\ Nests(Laid(Spelt(q), q.gaps))
             /\ Bracket(Spelling[q]) /\ Inside(Spelling[q]) = Laid(Spelt(q), q.gaps)
  <2> DEFINE L == Len(q.parts)
             texts == Spelt(q)
             gaps == q.gaps
  <2>1. L \in Nat /\ DOMAIN q.parts = 1 .. L /\ \A i \in 1 .. L : q.parts[i] \in Part
    BY RowIs
  <2>2. /\ gaps \in [1 .. L + 1 -> Seq({" "})]
        /\ \A i \in 1 .. L : Inner(q.parts[i])
    BY <1>1, BracesAre
  <2>3. ASSUME NEW i \in 1 .. L PROVE Nests(Spelling[q.parts[i]]) /\ texts[i] = Spelling[q.parts[i]]
    <3>1. q.parts[i] \in Part /\ Inner(q.parts[i]) /\ Good(q.parts[i])
      BY <1>1, <2>1, <2>2
    <3>2. Nests(Spelling[q.parts[i]])
      BY Zenon, <3>1, InnerWord
    <3> QED BY <2>1, <3>2 DEF Spelt
  <2>4. texts \in [1 .. L -> Seq(Token)] /\ gaps \in [1 .. L + 1 -> Seq(Flat)]
    <3>1. Spelt(q) \in [DOMAIN q.parts -> Seq(Token)]
      BY SpellingIs
    <3>2. \A i \in 1 .. L + 1 : gaps[i] \in Seq(Flat)
      BY <2>2, BlanksAre
    <3> QED BY <2>1, <2>2, <3>1, <3>2
  <2>5. 1 \in 1 .. L + 1 /\ \A i \in 1 .. L : Nests(texts[i])
    BY <2>1, <2>3
  <2>6. Nests(LaidFrom(texts, gaps)[1])
    <3> HIDE DEF L, texts, gaps
    <3> QED BY <2>1, <2>4, <2>5, LaidNests
  <2>7. Nests(Laid(Spelt(q), q.gaps))
    BY <2>6 DEF Laid
  <2>8. Spelling[q] = <<Begin>> \o Laid(Spelt(q), q.gaps) \o <<End>>
    BY Zenon, <1>1, SpellingIs DEF Begin, End
  <2> QED BY Zenon, <2>3, <2>7, <2>8, Bracketing
<1>2. ASSUME NEW q \in Part, \A i \in DOMAIN Row[q] : Row[q][i] \in D PROVE q \in D
  <2>1. \A i \in DOMAIN q.parts : Good(q.parts[i])
    BY Zenon, <1>2, RowIs
  <2>2. ~ q.plain => Nests(Spelling[q])
    BY Zenon, <1>1, <2>1 DEF Bracket
  <2> QED BY <2>2
<1>3. D = Part
  <2>1. D \in SUBSET Part
    OBVIOUS
  <2> HIDE DEF D
  <2> QED BY <1>2, <2>1, PartsDescend DEF Descends
<1>4. \A i \in DOMAIN p.parts : Good(p.parts[i])
  BY <1>3, RowIs
<1> QED BY Zenon, <1>1, <1>4

\* b stands in t between u and r, which have m, l and n tokens.
Between(t, u, b, r, l, m, n) ==
  /\ l \in Nat /\ m \in Nat /\ n \in Nat
  /\ t \in Seq(Token) /\ Len(t) = l + (m + n)
  /\ SubSeq(t, 1, l) = u /\ SubSeq(t, l + 1, l + m) = b
  /\ SubSeq(t, l + m + 1, Len(t)) = r
  /\ \A k \in 1 .. l : t[k] = u[k]
  /\ \A k \in 1 .. m : t[l + k] = b[k] /\ Level(t, l + k) = Level(u, l) + Level(b, k)
  /\ \A k \in 1 .. n : t[l + m + k] = r[k]

\* A text in the middle of another, and the levels there.
LEMMA Middle ==
  ASSUME NEW u \in Seq(Token), NEW b \in Seq(Token), NEW r \in Seq(Token)
  PROVE  Between(u \o (b \o r), u, b, r, Len(u), Len(b), Len(r))
<1> DEFINE l == Len(u)
           m == Len(b)
           n == Len(r)
           c == b \o r
           t == u \o c
           i == l + 1
           j == l + m
<1>1. m \in Nat /\ l \in Nat /\ n \in Nat
  OBVIOUS
<1>2. Joined(c, b, r, m, n)
  BY Zenon, ConcatIs
<1>3. Joined(t, u, c, l, m + n)
  <2>1. c \in Seq(Token) /\ Len(c) = m + n
    BY Zenon, <1>2 DEF Joined
  <2>2. Joined(t, u, c, l, Len(c))
    BY Zenon, <2>1, ConcatIs
  <2> QED BY Zenon, <2>1, <2>2
<1>4. SubSeq(t, 1, l) = u /\ SubSeq(t, l + 1, l + (m + n)) = c
      /\ SubSeq(c, 1, m) = b /\ SubSeq(c, m + 1, m + n) = r
  <2>1. c \in Seq(Token) /\ Len(c) = m + n
    BY Zenon, <1>2 DEF Joined
  <2>2. SubSeq(t, 1, l) = u /\ SubSeq(t, l + 1, l + Len(c)) = c
    BY Zenon, <2>1, ConcatParts
  <2>3. SubSeq(c, 1, m) = b /\ SubSeq(c, m + 1, m + n) = r
    BY Zenon, ConcatParts
  <2> QED BY Zenon, <2>1, <2>2, <2>3
<1> HIDE DEF c, l, m, n, t
<1>6. t \in Seq(Token) /\ Len(t) = l + (m + n) /\ c \in Seq(Token) /\ Len(c) = m + n
  BY <1>2, <1>3 DEF Joined
<1>7. ASSUME NEW k \in 1 .. m PROVE t[l + k] = b[k] /\ Level(t, l + k) = Level(u, l) + Level(b, k)
  <2>1. /\ l + k \in 1 .. l + (m + n) /\ ~ (l + k <= l) /\ (l + k) - l = k
        /\ k \in 1 .. m + n /\ k <= m /\ k \in 0 .. m /\ k \in 0 .. m + n
    BY <1>1
  <2>2. t[l + k] = c[k] /\ Level(t, l + k) = Level(u, l) + Level(c, k)
    <3>1. t[l + k] = c[(l + k) - l]
      BY <1>3, <2>1 DEF Joined
    <3> QED BY <1>3, <2>1, <3>1 DEF Joined
  <2>3. c[k] = b[k] /\ Level(c, k) = Level(b, k)
    BY <1>2, <2>1 DEF Joined
  <2> QED BY <2>2, <2>3
<1>8. SubSeq(t, i, j) = b /\ SubSeq(t, j + 1, Len(t)) = r
  <2>1. ASSUME NEW x \in 1 .. m + n + 1, NEW y \in x - 1 .. m + n
        PROVE  SubSeq(t, l + x, l + y) = SubSeq(c, x, y)
    <3> DEFINE a == l + x
               e == l + y
               v == SubSeq(t, a, e)
               w == SubSeq(c, x, y)
               h == y - x + 1
    <3>1. a \in 1 .. Len(t) + 1 /\ e \in a - 1 .. Len(t) /\ e - a + 1 = h
          /\ x \in 1 .. Len(c) + 1 /\ y \in x - 1 .. Len(c)
      BY <1>1, <1>6
    <3> HIDE DEF a, e
    <3>2. v \in Seq(Token) /\ Len(v) = e - a + 1 /\ \A k \in 1 .. e - a + 1 : v[k] = t[a - 1 + k]
      BY <1>6, <3>1, SubText
    <3>3. w \in Seq(Token) /\ Len(w) = h /\ \A k \in 1 .. h : w[k] = c[x - 1 + k]
      BY <1>6, <3>1, SubText
    <3> HIDE DEF v, w
    <3>4. ASSUME NEW k \in 1 .. h PROVE v[k] = w[k]
      <4>1. /\ k \in 1 .. e - a + 1 /\ a - 1 + k = l + (x - 1 + k) /\ x - 1 + k \in 1 .. m + n
            /\ l + (x - 1 + k) \in 1 .. l + (m + n) /\ ~ (l + (x - 1 + k) <= l)
            /\ (l + (x - 1 + k)) - l = x - 1 + k
        BY <1>1, <3>1 DEF a
      <4>2. v[k] = t[l + (x - 1 + k)]
        BY <3>2, <4>1
      <4>3. t[l + (x - 1 + k)] = c[(l + (x - 1 + k)) - l]
        BY <1>3, <4>1 DEF Joined
      <4> QED BY <3>3, <4>1, <4>2, <4>3
    <3>5. v = w
      <4> HIDE DEF h
      <4> QED BY <3>1, <3>2, <3>3, <3>4, SeqEqual
    <3> QED BY <3>5 DEF v, w, a, e
  <2>2. 1 \in 1 .. m + n + 1 /\ m \in 1 - 1 .. m + n /\ m + 1 \in 1 .. m + n + 1 /\ m + n \in (m + 1) - 1 .. m + n
    BY <1>1
  <2>3. SubSeq(t, l + 1, l + m) = SubSeq(c, 1, m)
    BY Zenon, <2>1, <2>2
  <2>4. SubSeq(t, l + (m + 1), l + (m + n)) = SubSeq(c, m + 1, m + n)
    BY Zenon, <2>1, <2>2
  <2>5. l + (m + 1) = j + 1
    BY <1>1
  <2> QED BY Zenon, <1>4, <1>6, <2>3, <2>4, <2>5
<1>9. SubSeq(t, 1, i - 1) = u
  <2>1. i - 1 = l
    BY <1>1
  <2> QED BY Zenon, <1>4, <2>1
<1>10. ASSUME NEW k \in 1 .. l PROVE t[k] = u[k]
  <2>1. k \in 1 .. l + (m + n) /\ k <= l
    BY <1>1
  <2> QED BY <1>3, <2>1 DEF Joined
<1>11. ASSUME NEW k \in 1 .. n PROVE t[j + k] = r[k]
  <2>1. /\ j + k \in 1 .. l + (m + n) /\ ~ (j + k <= l) /\ (j + k) - l = m + k
        /\ m + k \in 1 .. m + n /\ ~ (m + k <= m) /\ (m + k) - m = k
    BY <1>1
  <2>2. t[j + k] = c[(j + k) - l]
    BY <1>3, <2>1 DEF Joined
  <2>3. c[m + k] = r[(m + k) - m]
    BY <1>2, <2>1 DEF Joined
  <2> QED BY Zenon, <2>1, <2>2, <2>3
<1>12. Between(t, u, b, r, l, m, n)
  <2>1. \A k \in 1 .. n : t[l + m + k] = r[k]
    BY <1>11
  <2>2. SubSeq(t, 1, l) = u
    BY Zenon, <1>4
  <2>3. SubSeq(t, l + 1, l + m) = b /\ SubSeq(t, l + m + 1, Len(t)) = r
    BY Zenon, <1>8
  <2> QED BY Zenon, <1>1, <1>6, <1>7, <1>10, <2>1, <2>2, <2>3 DEF Between
<1> QED BY Zenon, <1>12 DEF t, c, l, m, n

\* The "}" that answers the "${" of a text in braces is its last token.
LEMMA ClosingIs ==
  ASSUME NEW u \in Seq(Token), NEW b, Bracket(b), NEW r \in Seq(Token)
  PROVE  LET t == u \o (b \o r)
             i == Len(u) + 1
             j == Len(u) + Len(b)
         IN  /\ t \in Seq(Token) /\ Len(t) = Len(u) + (Len(b) + Len(r))
             /\ i \in Opens(t) /\ j \in Shuts(t, i) /\ Closing(t, i) = j
             /\ SubSeq(t, i, j) = b /\ SubSeq(t, j + 1, Len(t)) = r
             /\ SubSeq(t, 1, i - 1) = u
             /\ \A k \in 1 .. Len(b) : /\ t[Len(u) + k] = b[k]
                                       /\ Level(t, Len(u) + k) = Level(u, Len(u)) + Level(b, k)
<1> DEFINE l == Len(u)
           m == Len(b)
           n == Len(r)
           c == b \o r
           t == u \o c
           i == l + 1
           j == l + m
<1>1. /\ b \in Seq(Token) /\ m \in Nat /\ m >= 2 /\ l \in Nat /\ n \in Nat
      /\ b[1] = Begin /\ Level(b, 1) = 1 /\ Level(b, m) = 0
      /\ \A k \in 1 .. m - 1 : Level(b, k) >= 1
  <2>1. b \in Seq(Token)
    BY DEF Bracket, Nests
  <2>2. Len(b) \in Nat /\ Len(u) \in Nat /\ Len(r) \in Nat
    BY <2>1
  <2> QED BY <2>1, <2>2 DEF Bracket, Nests
<1>2. /\ t \in Seq(Token) /\ Len(t) = l + (m + n)
      /\ SubSeq(t, i, j) = b /\ SubSeq(t, j + 1, Len(t)) = r
      /\ SubSeq(t, 1, i - 1) = u
      /\ \A k \in 1 .. m : t[l + k] = b[k] /\ Level(t, l + k) = Level(u, l) + Level(b, k)
  <2>1. b \in Seq(Token)
    BY <1>1
  <2>2. Between(t, u, b, r, l, m, n)
    BY Zenon, <2>1, Middle
  <2>3. l + 1 = i /\ i - 1 = l /\ j + 1 = l + m + 1
    BY <1>1
  <2> HIDE DEF t, c, l, m, n
  <2> QED BY Zenon, <2>2, <2>3 DEF Between
<1>5. Level(u, l) \in Int
  BY <1>1, LevelType
<1> HIDE DEF c, l, m, n, t
<1>8. t[i] = Begin /\ Level(t, i) = Level(u, l) + 1 /\ Level(t, j) = Level(u, l)
  <2>1. 1 \in 1 .. m /\ m \in 1 .. m
    BY <1>1
  <2>2. t[l + 1] = b[1] /\ Level(t, l + 1) = Level(u, l) + Level(b, 1)
        /\ Level(t, l + m) = Level(u, l) + Level(b, m)
    BY <1>2, <2>1
  <2> QED BY <1>1, <1>5, <2>2
<1>9. i \in Opens(t)
  <2>1. i \in DOMAIN t
    <3>1. i \in 1 .. l + (m + n)
      BY <1>1
    <3> QED BY <1>2, <3>1, LenProperties
  <2> QED BY Zenon, <1>8, <2>1 DEF Opens, Begin
<1>10. j \in Shuts(t, i) /\ \A k \in Shuts(t, i) : j <= k
  <2>1. j \in i .. Len(t) /\ Level(t, j) < Level(t, i)
    BY <1>1, <1>5, <1>2, <1>8
  <2>2. ASSUME NEW k \in i .. Len(t), Level(t, k) < Level(t, i) PROVE j <= k
    <3>1. SUFFICES ASSUME ~ (j <= k) PROVE FALSE
      OBVIOUS
    <3>2. k - l \in 1 .. m /\ k - l \in 1 .. m - 1 /\ l + (k - l) = k
      BY <1>1, <1>2, <3>1
    <3>3. Level(t, l + (k - l)) = Level(u, l) + Level(b, k - l) /\ Level(b, k - l) >= 1
      BY <1>1, <1>2, <3>2
    <3>4. Level(b, k - l) \in Int
      BY <3>2, LevelType
    <3>5. Level(t, k) = Level(u, l) + Level(b, k - l)
      BY <3>2, <3>3
    <3> QED BY <1>5, <1>8, <2>2, <3>3, <3>4, <3>5
  <2> HIDE DEF i, j
  <2> QED BY <2>1, <2>2 DEF Shuts
<1>11. Closing(t, i) = j
  <2>1. j \in Nat /\ Shuts(t, i) \subseteq Nat
    <3>1. i \in Nat
      BY <1>1
    <3> HIDE DEF i
    <3> QED BY <1>1, <3>1 DEF Shuts
  <2> DEFINE x == Closing(t, i)
  <2>2. x \in Shuts(t, i) /\ \A k \in Shuts(t, i) : x <= k
    BY Zenon, <1>10 DEF Closing
  <2> HIDE DEF x, i, j
  <2>3. x = j
    BY <1>10, <2>1, <2>2
  <2> QED BY <2>3 DEF x
<1> QED BY Zenon, <1>2, <1>9, <1>10, <1>11 DEF t, c, l, m, n

\* Where a piece starts and ends, without the characters themselves.
LEMMA StartOfBrace ==
  ASSUME NEW t, NEW i, t[i] = Begin
  PROVE  (Starts(t, i) <=> Level(t, i) = 1) /\ Ends(t, i) = Closing(t, i)
<1>1. t[i] = "${" /\ t[i] \notin Word
  BY Zenon, Marks DEF Begin
<1> QED BY Zenon, <1>1 DEF Starts, Ends

\* Where a word starts, and where it ends.
LEMMA StartOfWord ==
  ASSUME NEW t, NEW i, t[i] \in Word
  PROVE  Starts(t, i) <=> Level(t, i) = 0 /\ (i = 1 \/ t[i - 1] \notin Word)
<1>1. t[i] # "${"
  BY Zenon, Marks DEF Begin
<1> QED BY Zenon, <1>1 DEF Starts

EndsWord(t, i, j) == (\A k \in i .. j : t[k] \in Word) /\ (j = Len(t) \/ t[j + 1] \notin Word)
LEMMA EndOfWord ==
  ASSUME NEW t, NEW i, t[i] \in Word
  PROVE  Ends(t, i) = CHOOSE j \in i .. Len(t) : EndsWord(t, i, j)
<1>1. t[i] # "${"
  BY Zenon, Marks DEF Begin
<1> QED BY Zenon, <1>1 DEF Ends, EndsWord

LEMMA StartOfNone == ASSUME NEW t, NEW i, t[i] # Begin, t[i] \notin Word PROVE ~ Starts(t, i)
  BY Zenon DEF Starts, Begin

LEMMA BlankStartsNothing == ASSUME NEW t, NEW i, t[i] = Blank PROVE ~ Starts(t, i)
  BY Zenon, StartOfNone, Marks

\* A piece s of t stands behind l tokens, has m, and no piece starts within it.
Stands(t, s, l, m) ==
  /\ Starts(t, l + 1) /\ SubSeq(t, l + 1, Ends(t, l + 1)) = s
  /\ \A k \in 2 .. m : ~ Starts(t, l + k)

\* A brace that stands in braces is cut out as one piece.
LEMMA BraceStands ==
  ASSUME NEW v, Nests(v), NEW s, Bracket(s), NEW r \in Seq(Token)
  PROVE  Stands(v \o (s \o r), s, Len(v), Len(s))
<1> DEFINE t == v \o (s \o r)
           l == Len(v)
           m == Len(s)
<1>1. /\ s \in Seq(Token) /\ m >= 2 /\ s[1] = Begin /\ Level(s, 1) = 1
      /\ \A k \in 1 .. m - 1 : Level(s, k) >= 1
      /\ v \in Seq(Token) /\ Level(v, l) = 0
  BY DEF Bracket, Nests
<1>2. m \in Nat /\ l \in Nat
  BY <1>1
<1>3. Between(t, v, s, r, l, m, Len(r))
  BY Zenon, <1>1, Middle
<1>4. Closing(t, l + 1) = l + m
  BY Zenon, <1>1, ClosingIs
<1> HIDE DEF t, l, m
<1>5. ASSUME NEW k \in 1 .. m PROVE t[l + k] = s[k] /\ Level(t, l + k) = Level(s, k)
  <2>1. Level(s, k) \in Int
    BY LevelType
  <2> QED BY <1>1, <1>3, <2>1 DEF Between
<1>6. t[l + 1] = Begin /\ Level(t, l + 1) = 1
  <2>1. 1 \in 1 .. m
    BY <1>1, <1>2
  <2> QED BY Zenon, <1>1, <1>5, <2>1
<1>7. Starts(t, l + 1) /\ SubSeq(t, l + 1, Ends(t, l + 1)) = s
  <2>1. SubSeq(t, l + 1, l + m) = s
    BY Zenon, <1>3 DEF Between
  <2> QED BY Zenon, <1>4, <1>6, <2>1, StartOfBrace
<1>8. ASSUME NEW k \in 2 .. m PROVE ~ Starts(t, l + k)
  <2>1. k \in 1 .. m /\ k - 1 \in 1 .. m - 1 /\ k \in Nat \ {0}
    BY <1>2
  <2>2. Steps(Level(s, k), Level(s, k - 1), s[k], Begin, End)
    BY <2>1, Stepping
  <2>3. Level(s, k - 1) >= 1
    BY <1>1, <2>1
  <2>4. t[l + k] = s[k] /\ Level(t, l + k) = Level(s, k)
    BY <1>5, <2>1
  <2>5. s[k] = Begin => Level(s, k) # 1
    BY <2>2, <2>3 DEF Steps
  <2>6. s[k] \in Word => Level(s, k) # 0
    <3>1. s[k] \in Word => s[k] \notin {Begin, End}
      BY Zenon, Marks
    <3> QED BY <2>2, <2>3, <3>1 DEF Steps
  <2> QED BY Zenon, <2>4, <2>5, <2>6, StartOfBrace, StartOfWord, StartOfNone
<1> QED BY Zenon, <1>7, <1>8 DEF Stands, t, l, m

\* So is a word with no word next to it.
LEMMA WordStands ==
  ASSUME NEW v, Nests(v), NEW s \in Seq(Word), s # <<>>, NEW r \in Seq(Token),
         v = <<>> \/ v[Len(v)] \notin Word, r = <<>> \/ r[1] \notin Word
  PROVE  Stands(v \o (s \o r), s, Len(v), Len(s))
<1> DEFINE t == v \o (s \o r)
           l == Len(v)
           m == Len(s)
           n == Len(r)
<1>1. v \in Seq(Token) /\ Level(v, l) = 0
  BY DEF Nests
<1>2. s \in Seq(Token) /\ s \in Seq(Flat)
  <2>1. Word \subseteq Token /\ Word \subseteq Flat
    BY Zenon, Marks DEF Flat
  <2> QED BY <2>1, SeqMonotonic
<1>3. m \in Nat /\ m >= 1 /\ l \in Nat /\ n \in Nat
  BY <1>1, EmptySeq
<1>4. \A k \in 1 .. m : s[k] \in Word
  BY ElementOfSeq
<1>5. \A k \in 0 .. m : Level(s, k) = 0
  BY Zenon, <1>2, FlatLevels
<1>6. Between(t, v, s, r, l, m, n)
  BY Zenon, <1>1, <1>2, Middle
<1>7. (l = 0 \/ v[l] \notin Word) /\ (n = 0 \/ r[1] \notin Word)
  BY <1>1, EmptySeq
<1> HIDE DEF t, l, m, n
<1>8. ASSUME NEW k \in 1 .. m PROVE t[l + k] \in Word /\ Level(t, l + k) = 0
  <2>1. Level(s, k) = 0 /\ s[k] \in Word
    BY <1>3, <1>4, <1>5
  <2> QED BY <1>1, <1>6, <2>1 DEF Between
<1>9. t[l + 1] \in Word /\ Level(t, l + 1) = 0 /\ t[l + 1] # Begin
  <2>1. 1 \in 1 .. m
    BY <1>3
  <2> QED BY Zenon, <1>8, <2>1, Marks
<1>10. l + 1 = 1 \/ t[(l + 1) - 1] \notin Word
  <2>1. CASE l = 0
    BY <2>1
  <2>2. CASE l # 0
    <3>1. l \in 1 .. l /\ (l + 1) - 1 = l
      BY <1>3, <2>2
    <3>2. t[l] = v[l]
      BY Zenon, <1>6, <3>1 DEF Between
    <3> QED BY <1>7, <2>2, <3>1, <3>2
  <2> QED BY <2>1, <2>2
<1>11. Ends(t, l + 1) = l + m
  <2> DEFINE e == CHOOSE j \in l + 1 .. Len(t) : EndsWord(t, l + 1, j)
  <2>1. Ends(t, l + 1) = e
    BY Zenon, <1>9, EndOfWord
  <2>2. Len(t) = l + (m + n)
    BY Zenon, <1>6 DEF Between
  <2>3. l + m \in l + 1 .. Len(t)
    BY <1>3, <2>2
  <2>4. ASSUME NEW k \in l + 1 .. l + m PROVE t[k] \in Word
    <3>1. k - l \in 1 .. m /\ l + (k - l) = k
      BY <1>3
    <3> QED BY <1>8, <3>1
  <2>5. l + m = Len(t) \/ t[l + m + 1] \notin Word
    <3>1. CASE n = 0
      BY <1>3, <2>2, <3>1
    <3>2. CASE n # 0
      <4>1. 1 \in 1 .. n
        BY <1>3, <3>2
      <4>2. t[l + m + 1] = r[1]
        BY Zenon, <1>6, <4>1 DEF Between
      <4> QED BY <1>7, <3>2, <4>2
    <3> QED BY <3>1, <3>2
  <2>6. EndsWord(t, l + 1, l + m)
    BY <2>4, <2>5 DEF EndsWord
  <2>7. e \in l + 1 .. Len(t) /\ EndsWord(t, l + 1, e)
    BY Zenon, <2>3, <2>6
  <2> HIDE DEF e
  <2>8. ASSUME e < l + m PROVE FALSE
    <3>1. e + 1 \in l + 1 .. l + m /\ e # Len(t)
      BY <1>3, <2>2, <2>7, <2>8
    <3>2. t[e + 1] \in Word
      BY <2>4, <3>1
    <3> QED BY <2>7, <3>1, <3>2 DEF EndsWord
  <2>9. ASSUME e > l + m PROVE FALSE
    <3>1. l + m + 1 \in l + 1 .. e /\ l + m # Len(t)
      BY <1>3, <2>2, <2>7, <2>9
    <3>2. t[l + m + 1] \in Word
      BY <2>7, <3>1 DEF EndsWord
    <3> QED BY <2>5, <3>1, <3>2
  <2>10. e = l + m
    BY <1>3, <2>2, <2>7, <2>8, <2>9
  <2> QED BY <2>1, <2>10
<1>12. Starts(t, l + 1) /\ SubSeq(t, l + 1, Ends(t, l + 1)) = s
  <2>1. SubSeq(t, l + 1, l + m) = s
    BY Zenon, <1>6 DEF Between
  <2> QED BY Zenon, <1>9, <1>10, <1>11, <2>1, StartOfWord
<1>13. ASSUME NEW k \in 2 .. m PROVE ~ Starts(t, l + k)
  <2>1. k \in 1 .. m /\ k - 1 \in 1 .. m /\ (l + k) - 1 = l + (k - 1) /\ l + k # 1
    BY <1>3
  <2>2. t[l + k] \in Word /\ t[(l + k) - 1] \in Word
    BY <1>8, <2>1
  <2> QED BY Zenon, <2>1, <2>2, StartOfWord
<1> QED BY Zenon, <1>12, <1>13 DEF Stands, t, l, m

\* What stands in braces from part k on, and the spelling of that part.
From(p) == LaidFrom(Spelt(p), p.gaps)
PartText(p, k) == Spelling[p.parts[k]]

LEMMA GapsAre ==
  ASSUME NEW p \in Part, ~ p.plain, NEW k \in 1 .. Len(p.parts) + 1
  PROVE  /\ p.gaps[k] \in Seq(Token) /\ Nests(p.gaps[k]) /\ Len(p.gaps[k]) \in Nat
         /\ \A i \in 1 .. Len(p.gaps[k]) : p.gaps[k][i] = Blank
<1>1. p.gaps[k] \in Seq({" "})
  BY Zenon, BracesAre
<1>2. p.gaps[k] \in Seq(Flat) /\ p.gaps[k] \in Seq(Token) /\ \A i \in 1 .. Len(p.gaps[k]) : p.gaps[k][i] = Blank
  BY Zenon, <1>1, BlanksAre
<1>3. Nests(p.gaps[k])
  BY Zenon, <1>2, FlatLevels
<1>4. Len(p.gaps[k]) \in Nat
  BY <1>2
<1> QED BY Zenon, <1>2, <1>3, <1>4

\* The spelling of a part within braces.
LEMMA PieceIs ==
  ASSUME NEW p \in Part, ~ p.plain, NEW k \in 1 .. Len(p.parts)
  PROVE  /\ p.parts[k] \in Part /\ Spelt(p)[k] = PartText(p, k)
         /\ PartText(p, k) \in Seq(Token) /\ Nests(PartText(p, k))
         /\ Len(PartText(p, k)) \in Nat /\ Len(PartText(p, k)) >= 1
         /\ p.parts[k].plain => PartText(p, k) \in Seq(Word) /\ PartText(p, k) # <<>>
         /\ ~ p.parts[k].plain => Bracket(PartText(p, k))
<1> DEFINE q == p.parts[k]
           s == Spelling[q]
<1>1. q \in Part /\ k \in DOMAIN p.parts
  BY Zenon, RowIs
<1>2. Inner(q)
  BY Zenon, BracesAre
<1>3. s \in Seq(Token)
  BY Zenon, <1>1, SpellingIs
<1>4. q.plain => s \in Seq(Word) /\ s # <<>> /\ Nests(s)
  BY Zenon, <1>1, <1>2, InnerWord
<1>5. ~ q.plain => Bracket(s)
  BY Zenon, <1>1, SpellingBracket
<1>6. Spelt(p)[k] = s
  BY Zenon, <1>1 DEF Spelt
<1>7. Nests(s)
  BY Zenon, <1>4, <1>5 DEF Bracket
<1>8. Len(s) \in Nat /\ Len(s) >= 1
  <2> HIDE DEF s, q
  <2>1. Len(s) \in Nat /\ (s = <<>> \/ Len(s) >= 1)
    BY <1>3, EmptySeq
  <2>2. Bracket(s) => Len(s) >= 1
    BY <2>1 DEF Bracket
  <2> QED BY <1>4, <1>5, <2>1, <2>2
<1> QED BY Zenon, <1>1, <1>3, <1>4, <1>5, <1>6, <1>7, <1>8 DEF PartText

\* What stands in braces from a part on.
LEMMA FromIs ==
  ASSUME NEW p \in Part, ~ p.plain
  PROVE  /\ \A k \in 1 .. Len(p.parts) + 1 : From(p)[k] \in Seq(Token) /\ Len(From(p)[k]) \in Nat
         /\ \A k \in 1 .. Len(p.parts) :
              From(p)[k] = p.gaps[k] \o PartText(p, k) \o From(p)[k + 1]
         /\ From(p)[Len(p.parts) + 1] = p.gaps[Len(p.parts) + 1]
         /\ From(p)[1] = Laid(Spelt(p), p.gaps)
<1> DEFINE L == Len(p.parts)
           texts == Spelt(p)
           gaps == p.gaps
<1>1. L \in Nat /\ texts \in [1 .. L -> Seq(Token)]
  BY Zenon, RowIs, SpellingIs
<1>2. gaps \in [1 .. L + 1 -> Seq(Token)]
  BY Zenon, BracesAre
<1>3. \A k \in 1 .. L : texts[k] = PartText(p, k)
  BY Zenon, PieceIs
<1> HIDE DEF L, texts, gaps
<1>4. /\ \A k \in 1 .. L + 1 : LaidFrom(texts, gaps)[k] \in Seq(Token)
      /\ \A k \in 1 .. L : LaidFrom(texts, gaps)[k] = gaps[k] \o texts[k] \o LaidFrom(texts, gaps)[k + 1]
      /\ LaidFrom(texts, gaps)[L + 1] = gaps[L + 1]
  BY Zenon, <1>1, <1>2, LaidFromIs
<1>5. \A k \in 1 .. L + 1 : Len(LaidFrom(texts, gaps)[k]) \in Nat
  BY <1>4, LenProperties
<1>6. \A k \in 1 .. L : LaidFrom(texts, gaps)[k] = gaps[k] \o PartText(p, k) \o LaidFrom(texts, gaps)[k + 1]
  BY Zenon, <1>3, <1>4
<1> QED BY Zenon, <1>4, <1>5, <1>6 DEF From, Laid, L, texts, gaps

----------------------------------------------------------------------------
(* What stands in front of a part.                                          *)

Quiet(u) == u = <<>> \/ u[Len(u)] \notin Word
Before(p, u, k) ==
  /\ Nests(u) /\ Laid(Spelt(p), p.gaps) = u \o From(p)[k]
  /\ k = 1 \/ ~ p.parts[k - 1].plain => Quiet(u)

LEMMA LastOf ==
  ASSUME NEW u \in Seq(Token), NEW s \in Seq(Token), s # <<>>
  PROVE  (u \o s)[Len(u \o s)] = s[Len(s)]
<1> DEFINE c == u \o s
           l == Len(u)
           m == Len(s)
<1>1. Joined(c, u, s, l, m)
  BY Zenon, ConcatIs
<1>2. m \in Nat /\ m # 0 /\ l \in Nat
  BY EmptySeq
<1> HIDE DEF c, l, m
<1>3. l + m \in 1 .. l + m /\ ~ (l + m <= l) /\ l + m - l = m
  BY <1>2
<1>4. c[l + m] = s[m] /\ Len(c) = l + m
  BY <1>1, <1>3 DEF Joined
<1> QED BY <1>4 DEF c, l, m

LEMMA Regroup ==
  ASSUME NEW s \in Seq(Token), NEW t \in Seq(Token), NEW u \in Seq(Token)
  PROVE  s \o (t \o u) = (s \o t) \o u
  BY ConcatAssociative

Grouped(u, g, s, r) ==
  /\ u \o (g \o s \o r) = ((u \o g) \o s) \o r
  /\ u \o (g \o s \o r) = (u \o g) \o (s \o r)
  /\ u \o g \in Seq(Token) /\ (u \o g) \o s \in Seq(Token)
LEMMA FourConcat ==
  ASSUME NEW u \in Seq(Token), NEW g \in Seq(Token), NEW s \in Seq(Token), NEW r \in Seq(Token)
  PROVE  Grouped(u, g, s, r)
<1> DEFINE ug == u \o g
           gs == g \o s
<1>1. ug \in Seq(Token) /\ gs \in Seq(Token)
  BY ConcatProperties
<1>2. u \o gs = ug \o s
  BY Regroup
<1> HIDE DEF ug, gs
<1>3. u \o (gs \o r) = (u \o gs) \o r
  <2>1. \A x \in Seq(Token) : u \o (x \o r) = (u \o x) \o r
    BY Regroup
  <2> QED BY Zenon, <1>1, <2>1
<1>4. ug \o (s \o r) = (ug \o s) \o r
  <2>1. \A x \in Seq(Token) : x \o (s \o r) = (x \o s) \o r
    BY Regroup
  <2> QED BY Zenon, <1>1, <2>1
<1>5. ug \o s \in Seq(Token)
  BY <1>1, ConcatProperties
<1>6. u \o (gs \o r) = (ug \o s) \o r
  BY <1>2, <1>3
<1> QED BY <1>1, <1>4, <1>5, <1>6 DEF Grouped, ug, gs

\* What stands in front of the next part.
LEMMA BeforeStep ==
  ASSUME NEW p \in Part, ~ p.plain, NEW k \in 1 .. Len(p.parts), NEW u, Before(p, u, k)
  PROVE  Before(p, (u \o p.gaps[k]) \o PartText(p, k), k + 1)
<1> DEFINE g == p.gaps[k]
           s == PartText(p, k)
           r == From(p)[k + 1]
           v == (u \o g) \o s
<1>1. k \in 1 .. Len(p.parts) + 1 /\ k + 1 \in 1 .. Len(p.parts) + 1 /\ (k + 1) - 1 = k /\ k + 1 # 1
  OBVIOUS
<1>2. Nests(u) /\ Nests(g) /\ Nests(s) /\ r \in Seq(Token)
  BY Zenon, <1>1, GapsAre, PieceIs, FromIs DEF Before
<1>3. Nests(v)
  BY Zenon, <1>2, NestsConcat
<1>4. u \in Seq(Token) /\ g \in Seq(Token) /\ s \in Seq(Token)
  BY Zenon, <1>2 DEF Nests
<1>5. Laid(Spelt(p), p.gaps) = u \o (g \o s \o r)
  BY Zenon, FromIs DEF Before
<1>6. Laid(Spelt(p), p.gaps) = v \o r
  <2>1. u \o (g \o s \o r) = v \o r
    <3>1. Grouped(u, g, s, r)
      BY Zenon, <1>2, <1>4, FourConcat
    <3> QED BY Zenon, <3>1 DEF Grouped
  <2> QED BY Zenon, <1>5, <2>1
<1>7. ASSUME ~ p.parts[k].plain PROVE Quiet(v)
  <2>1. Bracket(s) /\ s # <<>>
    <3>1. Bracket(s) /\ Len(s) >= 1
      BY Zenon, <1>7, PieceIs
    <3> HIDE DEF s
    <3> QED BY <1>4, <3>1, EmptySeq
  <2>2. u \o g \in Seq(Token)
    BY Zenon, <1>2, <1>4, FourConcat DEF Grouped
  <2>3. v[Len(v)] = s[Len(s)]
    BY Zenon, <1>4, <2>1, <2>2, LastOf
  <2>4. s[Len(s)] = End
    BY Zenon, <2>1 DEF Bracket
  <2> QED BY Zenon, <2>3, <2>4, Marks DEF Quiet
<1> HIDE DEF v, r
<1>8. Before(p, v, k + 1)
  <2>1. r = From(p)[k + 1]
    BY DEF r
  <2>2. Laid(Spelt(p), p.gaps) = v \o From(p)[k + 1]
    BY Zenon, <1>6, <2>1
  <2>3. k + 1 = 1 \/ ~ p.parts[(k + 1) - 1].plain => Quiet(v)
    BY <1>1, <1>7
  <2> QED BY Zenon, <1>3, <2>2, <2>3 DEF Before
<1> QED BY <1>8 DEF v

LEMMA BeforeExists ==
  ASSUME NEW p \in Part, ~ p.plain
  PROVE  \A k \in 1 .. Len(p.parts) + 1 : \E u : Before(p, u, k)
<1> DEFINE L == Len(p.parts)
           D == {k \in 0 .. L : \E u : Before(p, u, k + 1)}
<1>1. L \in Nat
  BY RowIs
<1>2. Before(p, <<>>, 1)
  <2>1. 1 \in 1 .. L + 1
    BY <1>1
  <2>2. <<>> \in Seq(Flat)
    BY EmptySeq
  <2>3. Nests(<<>>)
    BY Zenon, <2>2, FlatLevels
  <2>4. From(p)[1] \in Seq(Token) /\ From(p)[1] = Laid(Spelt(p), p.gaps)
    BY Zenon, <2>1, FromIs
  <2>5. Laid(Spelt(p), p.gaps) = <<>> \o From(p)[1]
    BY <2>4, ConcatEmptySeq
  <2> QED BY Zenon, <2>3, <2>5 DEF Before, Quiet
<1>3. 0 \in D
  BY <1>1, <1>2
<1>4. ASSUME NEW k \in 1 .. L, k - 1 \in D PROVE k \in D
  <2>1. PICK u : Before(p, u, (k - 1) + 1)
    BY <1>4
  <2>2. (k - 1) + 1 = k /\ k \in 0 .. L
    BY <1>1
  <2>3. Before(p, (u \o p.gaps[k]) \o PartText(p, k), k + 1)
    BY Zenon, <2>1, <2>2, BeforeStep
  <2> QED BY <2>2, <2>3
<1>5. D = 0 .. L
  <2>1. D \in SUBSET (0 .. L)
    OBVIOUS
  <2> HIDE DEF D, L
  <2> QED BY <1>1, <1>3, <1>4, <2>1, UpToInduction
<1>6. ASSUME NEW k \in 1 .. L + 1 PROVE \E u : Before(p, u, k)
  <2>1. k - 1 \in 0 .. L /\ (k - 1) + 1 = k
    BY <1>1
  <2>2. k - 1 \in D
    BY Zenon, <1>5, <2>1
  <2>3. \E u : Before(p, u, (k - 1) + 1)
    BY Zenon, <2>2
  <2> QED BY Zenon, <2>1, <2>3
<1> QED BY <1>6

LEMMA FirstOf ==
  ASSUME NEW s \in Seq(Token), NEW r \in Seq(Token), s # <<>>
  PROVE  (s \o r)[1] = s[1]
<1> DEFINE c == s \o r
           m == Len(s)
           n == Len(r)
<1>1. Joined(c, s, r, m, n)
  BY Zenon, ConcatIs
<1>2. m \in Nat /\ m # 0 /\ n \in Nat
  BY EmptySeq
<1> HIDE DEF c, m, n
<1>3. 1 \in 1 .. m + n /\ 1 <= m
  BY <1>2
<1>4. c[1] = s[1]
  BY <1>1, <1>3 DEF Joined
<1> QED BY <1>4 DEF c

LEMMA QuietBehind ==
  ASSUME NEW p \in Part, ~ p.plain, NEW k \in 1 .. Len(p.parts), NEW u, Before(p, u, k),
         p.parts[k].plain
  PROVE  Quiet(u \o p.gaps[k])
<1> DEFINE g == p.gaps[k]
<1>1. k \in 1 .. Len(p.parts) + 1
  OBVIOUS
<1>2. g \in Seq(Token) /\ \A i \in 1 .. Len(g) : g[i] = Blank
  BY Zenon, <1>1, GapsAre
<1>3. u \in Seq(Token)
  BY Zenon DEF Before, Nests
<1>4. CASE g # <<>>
  <2>1. g[Len(g)] = Blank
    <3> HIDE DEF g
    <3>1. Len(g) \in 1 .. Len(g)
      BY <1>2, <1>4, EmptySeq
    <3> QED BY <1>2, <3>1
  <2>2. (u \o g)[Len(u \o g)] = g[Len(g)]
    BY Zenon, <1>2, <1>3, <1>4, LastOf
  <2> QED BY Zenon, <2>1, <2>2, Marks DEF Quiet
<1>5. CASE g = <<>>
  <2>1. k = 1 \/ ~ p.parts[k - 1].plain
    <3>1. k = 1 \/ k \in 2 .. Len(p.parts)
      OBVIOUS
    <3>2. CASE k \in 2 .. Len(p.parts)
      <4>1. ~ p.parts[k - 1].plain
        BY Zenon, <1>5, <3>2, BracesAre
      <4> QED BY <4>1
    <3> QED BY Zenon, <3>1, <3>2
  <2>2. u \o g = u
    BY <1>3, <1>5, ConcatEmptySeq
  <2>3. Quiet(u)
    BY Zenon, <2>1 DEF Before
  <2> QED BY Zenon, <2>2, <2>3
<1> QED BY <1>4, <1>5

LEMMA HushedBefore ==
  ASSUME NEW p \in Part, ~ p.plain, NEW k \in 1 .. Len(p.parts), p.parts[k].plain
  PROVE  From(p)[k + 1] = <<>> \/ From(p)[k + 1][1] \notin Word
<1> DEFINE g == p.gaps[k + 1]
           r == From(p)[k + 1]
<1>1. k + 1 \in 1 .. Len(p.parts) + 1 /\ Len(p.parts) \in Nat
  BY RowIs
<1>2. g \in Seq(Token) /\ (\A i \in 1 .. Len(g) : g[i] = Blank) /\ r \in Seq(Token)
  BY Zenon, <1>1, GapsAre, FromIs
<1>3. ASSUME g # <<>> PROVE g[1] = Blank
  <2> HIDE DEF g
  <2>1. 1 \in 1 .. Len(g)
    BY <1>2, <1>3, EmptySeq
  <2> QED BY <1>2, <2>1
<1>4. CASE k = Len(p.parts)
  <2>1. r = g
    BY Zenon, <1>4, FromIs
  <2> QED BY Zenon, <1>3, <2>1, Marks
<1>5. CASE k # Len(p.parts)
  <2> DEFINE s == PartText(p, k + 1)
             q == From(p)[(k + 1) + 1]
  <2>1. k + 1 \in 1 .. Len(p.parts) /\ k + 1 \in 2 .. Len(p.parts) /\ (k + 1) - 1 = k
        /\ (k + 1) + 1 \in 1 .. Len(p.parts) + 1
    BY <1>1, <1>5
  <2>2. r = g \o s \o q /\ s \in Seq(Token) /\ q \in Seq(Token)
    BY Zenon, <2>1, FromIs, PieceIs
  <2>3. g \o s \in Seq(Token)
    <3> HIDE DEF g, s
    <3> QED BY <1>2, <2>2, ConcatProperties
  <2>4. CASE g # <<>>
    <3>1. (g \o s)[1] = Blank
      BY Zenon, <1>2, <1>3, <2>2, <2>4, FirstOf
    <3>2. g \o s # <<>>
      <4> HIDE DEF g, s
      <4> QED BY <1>2, <2>2, <2>4
    <3>3. ((g \o s) \o q)[1] = (g \o s)[1]
      <4> DEFINE gs == g \o s
      <4> HIDE DEF gs, q
      <4> QED BY <2>2, <2>3, <3>2, FirstOf DEF gs
    <3> QED BY Zenon, <2>2, <3>1, <3>3, Marks
  <2>5. CASE g = <<>>
    <3>1. ~ p.parts[k + 1].plain
      BY Zenon, <2>1, <2>5, BracesAre
    <3>2. s # <<>> /\ s[1] = Begin
      <4>1. Bracket(s) /\ Len(s) >= 1
        BY Zenon, <2>1, <3>1, PieceIs
      <4>2. s # <<>>
        <5> HIDE DEF s
        <5> QED BY <2>2, <4>1, EmptySeq
      <4> QED BY Zenon, <4>1, <4>2 DEF Bracket
    <3>3. g \o s = s
      <4> HIDE DEF s
      <4> QED BY <2>2, <2>5, ConcatEmptySeq
    <3>4. (s \o q)[1] = s[1]
      BY Zenon, <2>2, <3>2, FirstOf
    <3> QED BY Zenon, <2>2, <3>2, <3>3, <3>4, Marks
  <2> QED BY <2>4, <2>5
<1> QED BY <1>4, <1>5

\* Where what comes from part k on begins, and where part k does.
Passed(p, k) == Len(From(p)[1]) - Len(From(p)[k])
Begins(p, k) == Passed(p, k) + Len(p.gaps[k])

\* Each part is cut out where it stands.
LEMMA PartStands ==
  ASSUME NEW p \in Part, ~ p.plain, NEW k \in 1 .. Len(p.parts)
  PROVE  Stands(From(p)[1], PartText(p, k), Begins(p, k), Len(PartText(p, k)))
<1>1. k \in 1 .. Len(p.parts) + 1 /\ k + 1 \in 1 .. Len(p.parts) + 1
  OBVIOUS
<1>2. PICK u : Before(p, u, k)
  BY Zenon, <1>1, BeforeExists
<1> DEFINE t == From(p)[1]
           g == p.gaps[k]
           s == PartText(p, k)
           f == From(p)[k]
           r == From(p)[k + 1]
           v == u \o g
<1>3. Nests(u) /\ Nests(g) /\ s \in Seq(Token) /\ r \in Seq(Token) /\ f \in Seq(Token)
  BY Zenon, <1>1, <1>2, GapsAre, PieceIs, FromIs DEF Before
<1>4. u \in Seq(Token) /\ g \in Seq(Token) /\ Nests(v)
  BY Zenon, <1>3, NestsConcat DEF Nests
<1>5. t = u \o f /\ f = g \o s \o r
  BY Zenon, <1>2, FromIs DEF Before
<1>6. t = v \o (s \o r)
  <2>1. Grouped(u, g, s, r)
    BY Zenon, <1>3, <1>4, FourConcat
  <2> QED BY Zenon, <1>5, <2>1 DEF Grouped
<1>7. Len(v) = Begins(p, k)
  <2>1. Len(v) = Len(u) + Len(g) /\ Len(g) \in Nat /\ Len(u) \in Nat
    <3> HIDE DEF g
    <3> QED BY <1>4, ConcatProperties
  <2>2. Len(t) = Len(u) + Len(f) /\ Len(f) \in Nat
    <3>1. Joined(u \o f, u, f, Len(u), Len(f))
      BY Zenon, <1>3, <1>4, ConcatIs
    <3>2. Joined(t, u, f, Len(u), Len(f))
      BY Zenon, <1>5, <3>1
    <3> QED BY Zenon, <3>2 DEF Joined
  <2> HIDE DEF v, f, t, g
  <2> QED BY <2>1, <2>2 DEF Begins, Passed, t, f, g
<1>8. CASE p.parts[k].plain
  <2>1. Quiet(v) /\ (r = <<>> \/ r[1] \notin Word) /\ s \in Seq(Word) /\ s # <<>>
    BY Zenon, <1>2, <1>8, QuietBehind, HushedBefore, PieceIs
  <2>2. v = <<>> \/ v[Len(v)] \notin Word
    BY Zenon, <2>1 DEF Quiet
  <2>3. Stands(v \o (s \o r), s, Len(v), Len(s))
    <3> HIDE DEF v, s, r
    <3> QED BY Zenon, <1>3, <1>4, <2>1, <2>2, WordStands
  <2> QED BY Zenon, <1>6, <1>7, <2>3
<1>9. CASE ~ p.parts[k].plain
  <2>1. Bracket(s)
    BY Zenon, <1>9, PieceIs
  <2>2. Stands(v \o (s \o r), s, Len(v), Len(s))
    <3> HIDE DEF v, s, r
    <3> QED BY Zenon, <1>3, <1>4, <2>1, BraceStands
  <2> QED BY Zenon, <1>6, <1>7, <2>2
<1> QED BY Zenon, <1>8, <1>9

\* Nothing is cut out of the white space between them.
LEMMA GapStands ==
  ASSUME NEW p \in Part, ~ p.plain, NEW k \in 1 .. Len(p.parts) + 1,
         NEW i \in 1 .. Len(p.gaps[k])
  PROVE  ~ Starts(From(p)[1], Passed(p, k) + i)
<1>1. PICK u : Before(p, u, k)
  BY Zenon, BeforeExists
<1> DEFINE t == From(p)[1]
           g == p.gaps[k]
           f == From(p)[k]
           l == Len(u)
           m == Len(f)
           n == Len(g)
<1>2. u \in Seq(Token) /\ g \in Seq(Token) /\ g[i] = Blank /\ f \in Seq(Token) /\ n \in Nat
  BY Zenon, <1>1, GapsAre, FromIs DEF Before, Nests
<1>3. t = u \o f
  BY Zenon, <1>1, FromIs DEF Before
<1>4. Joined(t, u, f, l, m)
  BY Zenon, <1>2, <1>3, ConcatIs
<1>5. f[i] = g[i] /\ n <= m
  <2>1. Len(p.parts) \in Nat
    BY RowIs
  <2>2. CASE k = Len(p.parts) + 1
    <3>1. f = g
      BY Zenon, <2>2, FromIs
    <3> HIDE DEF g
    <3> QED BY <1>2, <3>1
  <2>3. CASE k # Len(p.parts) + 1
    <3> DEFINE s == PartText(p, k)
               r == From(p)[k + 1]
               a == g \o s
    <3>1. k \in 1 .. Len(p.parts) /\ k + 1 \in 1 .. Len(p.parts) + 1
      BY <2>1, <2>3
    <3>2. f = g \o s \o r /\ s \in Seq(Token) /\ r \in Seq(Token)
      BY Zenon, <3>1, FromIs, PieceIs
    <3>3. Joined(a, g, s, n, Len(s))
      BY Zenon, <1>2, <3>2, ConcatIs
    <3>4. Joined(a \o r, a, r, Len(a), Len(r))
      <4>1. a \in Seq(Token)
        BY Zenon, <3>3 DEF Joined
      <4> HIDE DEF a, r
      <4> QED BY Zenon, <3>2, <4>1, ConcatIs
    <3>5. f = a \o r
      BY Zenon, <3>2
    <3> HIDE DEF a, r, s, f, g, n
    <3>6. n \in Nat /\ Len(s) \in Nat /\ Len(a) = n + Len(s) /\ Len(r) \in Nat
          /\ Len(f) = Len(a) + Len(r)
      BY <3>3, <3>4, <3>5 DEF Joined
    <3>7. i \in 1 .. n
      BY DEF n, g
    <3>8. a[i] = g[i]
      BY <3>3, <3>6, <3>7 DEF Joined
    <3>9. f[i] = a[i]
      BY <3>4, <3>5, <3>6, <3>7 DEF Joined
    <3>10. n <= Len(f)
      BY <3>6
    <3> QED BY <3>8, <3>9, <3>10
  <2> QED BY <2>2, <2>3
<1>6. i \in 1 .. n
  OBVIOUS
<1> HIDE DEF t, g, f, l, m, n
<1>7. t[l + i] = Blank /\ l = Len(t) - m
  <2>1. l \in Nat /\ m \in Nat /\ Len(t) = l + m
    BY <1>4 DEF Joined
  <2>2. l + i \in 1 .. l + m /\ ~ (l + i <= l) /\ (l + i) - l = i
    BY <1>2, <1>5, <1>6, <2>1
  <2>3. t[l + i] = f[i]
    BY <1>4, <2>2 DEF Joined
  <2> QED BY <1>2, <1>5, <2>1, <2>3
<1>8. ~ Starts(t, l + i)
  BY Zenon, <1>7, BlankStartsNothing
<1>9. l = Passed(p, k)
  BY Zenon, <1>7 DEF Passed, t, f, m
<1> QED BY Zenon, <1>8, <1>9 DEF t

\* The pieces of what stands in braces are the parts as they are spelled.
LEMMA PiecesAre ==
  ASSUME NEW p \in Part, ~ p.plain
  PROVE  Pieces[Inside(Spelling[p])] = Spelt(p)
<1> DEFINE t == From(p)[1]
           L == Len(p.parts)
           S == {i \in DOMAIN t : Starts(t, i)}
           at(k) == Begins(p, k) + 1
           f == [k \in 1 .. L |-> at(k)]
           gap(k) == Len(p.gaps[k])
           size(k) == Len(PartText(p, k))
           end(k) == Passed(p, k)
           Good(k) == \A i \in 1 .. end(k) : Starts(t, i) => \E m \in 1 .. L : i = at(m)
           Z == {k \in 0 .. L : Good(k + 1)}
<1>1. L \in Nat /\ 1 \in 1 .. L + 1 /\ L + 1 \in 1 .. L + 1
  BY RowIs
<1>2. t = Inside(Spelling[p]) /\ t \in Seq(Token) /\ Len(t) \in Nat
  BY Zenon, <1>1, SpellingBracket, FromIs
<1>3. \A k \in 1 .. L + 1 : gap(k) \in Nat /\ Len(From(p)[k]) \in Nat
  BY Zenon, GapsAre, FromIs
<1>4. \A k \in 1 .. L : size(k) \in Nat /\ size(k) >= 1
  BY Zenon, PieceIs
<1>5. \A k \in 1 .. L : Len(From(p)[k]) = gap(k) + size(k) + Len(From(p)[k + 1])
  <2>1. ASSUME NEW k \in 1 .. L PROVE Len(From(p)[k]) = gap(k) + size(k) + Len(From(p)[k + 1])
    <3> DEFINE g == p.gaps[k]
               s == PartText(p, k)
               r == From(p)[k + 1]
    <3>1. k \in 1 .. L + 1 /\ k + 1 \in 1 .. L + 1
      BY <1>1
    <3>2. g \in Seq(Token) /\ s \in Seq(Token) /\ r \in Seq(Token)
      BY Zenon, <3>1, GapsAre, PieceIs, FromIs
    <3>3. From(p)[k] = g \o s \o r
      BY Zenon, FromIs
    <3> HIDE DEF g, s, r
    <3>4. Len(g \o s \o r) = Len(g) + Len(s) + Len(r)
      BY <3>2
    <3> QED BY <3>3, <3>4 DEF g, s, r
  <2> QED BY <2>1
<1>6. Len(From(p)[L + 1]) = gap(L + 1)
  BY Zenon, FromIs
<1>7. /\ \A k \in 1 .. L : end(k + 1) = end(k) + gap(k) + size(k) /\ end(k + 1) \in Int /\ end(k) \in Int
      /\ end(1) = 0 /\ Len(t) = end(L + 1) + gap(L + 1) /\ end(L + 1) \in Int
  <2> DEFINE len(k) == Len(From(p)[k])
  <2>1. \A k \in 1 .. L : len(k) = gap(k) + size(k) + len(k + 1)
    BY <1>5
  <2>2. len(L + 1) = gap(L + 1) /\ Len(t) = len(1)
    BY Zenon, <1>6
  <2>3. \A k \in 1 .. L + 1 : end(k) = len(1) - len(k) /\ len(k) \in Nat
    BY Zenon, <1>3 DEF Passed
  <2> HIDE DEF len, gap, size, end, t, L
  <2>4. \A k \in 1 .. L : k \in 1 .. L + 1 /\ k + 1 \in 1 .. L + 1
    BY <1>1
  <2>5. ASSUME NEW k \in 1 .. L
        PROVE  end(k + 1) = end(k) + gap(k) + size(k) /\ end(k + 1) \in Int /\ end(k) \in Int
    <3>1. /\ len(k) = gap(k) + size(k) + len(k + 1) /\ len(k) \in Nat /\ len(k + 1) \in Nat
          /\ gap(k) \in Nat /\ size(k) \in Nat /\ len(1) \in Nat
          /\ end(k) = len(1) - len(k) /\ end(k + 1) = len(1) - len(k + 1)
      BY <1>1, <1>3, <1>4, <2>1, <2>3, <2>4
    <3> QED BY <3>1
  <2>6. end(1) = 0 /\ Len(t) = end(L + 1) + gap(L + 1) /\ end(L + 1) \in Int
    <3>1. /\ len(1) \in Nat /\ len(L + 1) \in Nat /\ gap(L + 1) \in Nat
          /\ end(1) = len(1) - len(1) /\ end(L + 1) = len(1) - len(L + 1)
      BY <1>1, <1>3, <2>3
    <3> QED BY <2>2, <3>1
  <2> QED BY <2>5, <2>6
<1>8. \A k \in 1 .. L : at(k) = end(k) + gap(k) + 1
  BY Zenon DEF Begins
<1>9. \A k \in 1 .. L : Stands(t, PartText(p, k), Begins(p, k), size(k))
  BY Zenon, PartStands
<1>10. \A k \in 1 .. L : Starts(t, at(k)) /\ SubSeq(t, at(k), Ends(t, at(k))) = PartText(p, k)
  BY Zenon, <1>9 DEF Stands
<1>11. \A k \in 1 .. L : \A i \in 2 .. size(k) : ~ Starts(t, Begins(p, k) + i)
  BY Zenon, <1>9 DEF Stands
<1>12. \A k \in 1 .. L : Begins(p, k) = end(k) + gap(k)
  BY Zenon DEF Begins
<1>13. \A k \in 1 .. L + 1 : \A i \in 1 .. gap(k) : ~ Starts(t, end(k) + i)
  BY Zenon, GapStands
<1> HIDE DEF t, L, S, at, gap, size, end
<1>14. 0 \in Z
  <2>1. end(0 + 1) = 0
    BY <1>7
  <2> QED BY <1>1, <2>1
<1>15. ASSUME NEW k \in 1 .. L, k - 1 \in Z PROVE k \in Z
  <2>1. Good(k)
    <3>1. (k - 1) + 1 = k
      OBVIOUS
    <3>2. Good((k - 1) + 1)
      BY Zenon, <1>15
    <3> HIDE DEF Good
    <3> QED BY <3>1, <3>2
  <2>2. ASSUME NEW i \in 1 .. end(k + 1), Starts(t, i) PROVE \E m \in 1 .. L : i = at(m)
    <3>1. /\ end(k + 1) = end(k) + gap(k) + size(k) /\ end(k) \in Int /\ gap(k) \in Nat
          /\ size(k) \in Nat /\ k \in 1 .. L + 1
      BY <1>1, <1>3, <1>4, <1>7
    <3>2. CASE i <= end(k)
      <4>1. i \in 1 .. end(k)
        BY <3>1, <3>2
      <4> QED BY <2>1, <2>2, <4>1
    <3>3. CASE i > end(k) /\ i <= end(k) + gap(k)
      <4>1. i - end(k) \in 1 .. gap(k) /\ end(k) + (i - end(k)) = i
        BY <3>1, <3>3
      <4>2. ~ Starts(t, end(k) + (i - end(k)))
        BY <1>13, <3>1, <4>1
      <4> QED BY <2>2, <4>1, <4>2
    <3>4. CASE i > end(k) + gap(k)
      <4> DEFINE h == i - (end(k) + gap(k))
      <4>1. h \in 1 .. size(k) /\ end(k) + gap(k) + h = i
        BY <3>1, <3>4
      <4>2. CASE h = 1
        <5>1. i = at(k)
          BY <1>8, <4>1, <4>2
        <5> QED BY <5>1
      <4>3. CASE h # 1
        <5>1. h \in 2 .. size(k)
          BY <4>1, <4>3
        <5>2. ~ Starts(t, Begins(p, k) + h)
          BY <1>11, <5>1
        <5>3. Begins(p, k) + h = i
          BY <1>12, <4>1
        <5> QED BY <2>2, <5>2, <5>3
      <4> QED BY <4>2, <4>3
    <3> QED BY <3>1, <3>2, <3>3, <3>4
  <2>3. k \in 0 .. L /\ Good(k + 1)
    BY <1>1, <2>2
  <2> QED BY <2>3
<1>16. Z = 0 .. L
  <2>1. Z \in SUBSET (0 .. L)
    OBVIOUS
  <2> HIDE DEF Z
  <2> QED BY <1>1, <1>14, <1>15, <2>1, UpToInduction
<1>17. Good(L + 1)
  <2>1. L \in 0 .. L
    BY <1>1
  <2>2. L \in Z
    BY Zenon, <1>16, <2>1
  <2> QED BY Zenon, <2>2
<1>18. \A k \in 2 .. L : at(k - 1) < at(k)
  <2>1. ASSUME NEW k \in 2 .. L PROVE at(k - 1) < at(k)
    <3>1. k - 1 \in 1 .. L /\ k \in 1 .. L /\ (k - 1) + 1 = k /\ k \in 1 .. L + 1 /\ k - 1 \in 1 .. L + 1
      BY <1>1
    <3>2. /\ end((k - 1) + 1) = end(k - 1) + gap(k - 1) + size(k - 1) /\ end(k - 1) \in Int
          /\ gap(k - 1) \in Nat /\ gap(k) \in Nat /\ size(k - 1) \in Nat /\ size(k - 1) >= 1
          /\ at(k - 1) = end(k - 1) + gap(k - 1) + 1 /\ at(k) = end(k) + gap(k) + 1
      BY <1>3, <1>4, <1>7, <1>8, <3>1
    <3> QED BY <3>1, <3>2
  <2> QED BY <2>1
<1>19. \A k \in 1 .. L : end(k) \in Nat
  <2> DEFINE Y == {k \in 0 .. L : end(k + 1) \in Nat}
  <2>1. 0 \in Y
    BY <1>1, <1>7
  <2>2. ASSUME NEW k \in 1 .. L, k - 1 \in Y PROVE k \in Y
    <3>1. (k - 1) + 1 = k /\ k \in 0 .. L /\ k \in 1 .. L + 1
      BY <1>1
    <3>2. end(k) \in Nat
      BY <2>2, <3>1
    <3>3. end(k + 1) = end(k) + gap(k) + size(k) /\ gap(k) \in Nat /\ size(k) \in Nat
      BY <1>3, <1>4, <1>7, <3>1
    <3> QED BY <3>1, <3>2, <3>3
  <2>3. Y = 0 .. L
    <3>1. Y \in SUBSET (0 .. L)
      OBVIOUS
    <3> HIDE DEF Y
    <3> QED BY <1>1, <2>1, <2>2, <3>1, UpToInduction
  <2>4. ASSUME NEW k \in 1 .. L PROVE end(k) \in Nat
    <3>1. k - 1 \in 0 .. L /\ (k - 1) + 1 = k
      BY <1>1
    <3>2. k - 1 \in Y
      BY Zenon, <2>3, <3>1
    <3>3. end((k - 1) + 1) \in Nat
      BY Zenon, <3>2
    <3> QED BY <3>1, <3>3
  <2> QED BY <2>4
<1>20. \A k \in 1 .. L : at(k) \in 1 .. Len(t)
  <2> DEFINE Y == {k \in 0 .. L : end(L - k + 1) <= end(L + 1)}
  <2>1. 0 \in Y
    <3>1. L - 0 + 1 = L + 1
      BY <1>1
    <3>2. end(L + 1) <= end(L + 1)
      BY <1>7
    <3> QED BY <1>1, <3>1, <3>2
  <2>2. ASSUME NEW k \in 1 .. L, k - 1 \in Y PROVE k \in Y
    <3> DEFINE j == L - k + 1
    <3>1. L - (k - 1) + 1 = j + 1 /\ j \in 1 .. L /\ k \in 0 .. L
      BY <1>1
    <3>2. end(j + 1) <= end(L + 1)
      <4>1. end(L - (k - 1) + 1) <= end(L + 1)
        BY Zenon, <2>2
      <4> HIDE DEF j
      <4> QED BY <3>1, <4>1
    <3> HIDE DEF j
    <3>3. end(j + 1) = end(j) + gap(j) + size(j) /\ gap(j) \in Nat /\ size(j) \in Nat /\ end(j) \in Int
      <4>1. j \in 1 .. L + 1
        BY <1>1, <3>1
      <4> QED BY <1>3, <1>4, <1>7, <3>1, <4>1
    <3>4. end(j) <= end(L + 1)
      BY <1>7, <3>2, <3>3
    <3> QED BY <3>1, <3>4 DEF j
  <2>3. Y = 0 .. L
    <3>1. Y \in SUBSET (0 .. L)
      OBVIOUS
    <3> HIDE DEF Y
    <3> QED BY <1>1, <2>1, <2>2, <3>1, UpToInduction
  <2>4. ASSUME NEW k \in 1 .. L PROVE at(k) \in 1 .. Len(t)
    <3>1. L - k \in 0 .. L /\ L - (L - k) + 1 = k + 1 /\ k \in 1 .. L + 1 /\ L + 1 \in 1 .. L + 1
      BY <1>1
    <3>2. L - k \in Y
      BY Zenon, <2>3, <3>1
    <3>3. end(L - (L - k) + 1) <= end(L + 1)
      BY Zenon, <3>2
    <3>4. /\ end(k + 1) <= end(L + 1) /\ end(k + 1) = end(k) + gap(k) + size(k) /\ end(k) \in Nat
          /\ gap(k) \in Nat /\ size(k) \in Nat /\ size(k) >= 1 /\ at(k) = end(k) + gap(k) + 1
          /\ Len(t) = end(L + 1) + gap(L + 1) /\ gap(L + 1) \in Nat /\ end(L + 1) \in Int
      BY <1>3, <1>4, <1>7, <1>8, <1>19, <3>1, <3>3
    <3> QED BY <3>4
  <2> QED BY <2>4
<1>21. DOMAIN t = 1 .. Len(t)
  BY <1>2, LenProperties
<1>22. S = {f[k] : k \in 1 .. L}
  <2>1. ASSUME NEW i \in S PROVE \E k \in 1 .. L : i = f[k]
    <3>1. i \in 1 .. Len(t) /\ Starts(t, i)
      BY <1>21 DEF S
    <3>2. CASE i \in 1 .. end(L + 1)
      <4>1. \E m \in 1 .. L : i = at(m)
        BY <1>17, <3>1, <3>2
      <4> QED BY <4>1
    <3>3. CASE i \notin 1 .. end(L + 1)
      <4>1. i - end(L + 1) \in 1 .. gap(L + 1) /\ end(L + 1) + (i - end(L + 1)) = i
        <5>1. gap(L + 1) \in Nat /\ end(L + 1) \in Int /\ Len(t) = end(L + 1) + gap(L + 1) /\ i \in 1 .. Len(t)
          BY Zenon, <1>1, <1>3, <1>7, <3>1
        <5> QED BY <3>3, <5>1
      <4>2. ~ Starts(t, end(L + 1) + (i - end(L + 1)))
        BY <1>1, <1>13, <4>1
      <4> QED BY <3>1, <4>1, <4>2
    <3> QED BY <3>2, <3>3
  <2>2. ASSUME NEW k \in 1 .. L PROVE f[k] \in S
    <3>1. at(k) \in DOMAIN t /\ Starts(t, at(k))
      BY <1>10, <1>20, <1>21
    <3> QED BY <3>1 DEF S
  <2> QED BY <2>1, <2>2
<1>23. f \in [1 .. L -> Nat] /\ \A k \in 2 .. L : f[k - 1] < f[k]
  <2>1. \A k \in 1 .. L : at(k) \in Nat
    BY <1>2, <1>20
  <2>2. ASSUME NEW k \in 2 .. L PROVE f[k - 1] < f[k]
    <3>1. k - 1 \in 1 .. L /\ k \in 1 .. L
      BY <1>1
    <3> QED BY <1>18, <3>1
  <2> QED BY <2>1, <2>2
<1>24. Cardinality(S) = L /\ \A k \in 1 .. L : Nth(S, k) = f[k]
  <2> HIDE DEF f
  <2> QED BY <1>1, <1>22, <1>23, Enumerated
<1>25. Pieces[t] = Chosen([i \in DOMAIN t |-> SubSeq(t, i, Ends(t, i))], S)
  BY Zenon, <1>2 DEF Pieces, S
<1>26. Pieces[t] = [k \in 1 .. L |-> PartText(p, k)]
  <2>1. ASSUME NEW k \in 1 .. L
        PROVE  [i \in DOMAIN t |-> SubSeq(t, i, Ends(t, i))][Nth(S, k)] = PartText(p, k)
    <3>1. Nth(S, k) = at(k) /\ at(k) \in DOMAIN t
      BY Zenon, <1>20, <1>21, <1>24
    <3>2. [i \in DOMAIN t |-> SubSeq(t, i, Ends(t, i))][at(k)] = SubSeq(t, at(k), Ends(t, at(k)))
      BY Zenon, <3>1
    <3> QED BY Zenon, <1>10, <3>1, <3>2
  <2> QED BY Zenon, <1>24, <1>25, <2>1 DEF Chosen
<1>27. Spelt(p) = [k \in 1 .. L |-> PartText(p, k)]
  <2>1. DOMAIN p.parts = 1 .. L
    BY Zenon, RowIs DEF L
  <2> QED BY Zenon, <2>1 DEF Spelt, PartText
<1> QED BY Zenon, <1>2, <1>26, <1>27

----------------------------------------------------------------------------
(* The frame of braces, from their parts.                                   *)

\* A piece is a brace if the part is.
LEMMA PlainPiece ==
  ASSUME NEW p \in Part, ~ p.plain, NEW k \in 1 .. Len(p.parts)
  PROVE  IsPlain(PartText(p, k)) <=> p.parts[k].plain
<1> DEFINE s == PartText(p, k)
<1>1. s \in Seq(Token) /\ Len(s) \in Nat /\ Len(s) >= 1
  BY Zenon, PieceIs
<1>2. IsPlain(s) <=> s[1] # Begin
  BY Zenon DEF IsPlain, IsBrace, Begin
<1>3. CASE p.parts[k].plain
  <2>1. s \in Seq(Word)
    BY Zenon, <1>3, PieceIs
  <2>2. s[1] \in Word
    <3> HIDE DEF s
    <3>1. 1 \in 1 .. Len(s)
      BY <1>1
    <3> QED BY <2>1, <3>1, ElementOfSeq
  <2> QED BY Zenon, <1>2, <1>3, <2>2, Marks
<1>4. CASE ~ p.parts[k].plain
  <2>1. Bracket(s)
    BY Zenon, <1>4, PieceIs
  <2>2. s[1] = Begin
    BY Zenon, <2>1 DEF Bracket
  <2> QED BY Zenon, <1>2, <1>4, <2>2
<1> QED BY <1>3, <1>4

\* The parts behind the command that stand at the places of S.
Among(p, S, s) == Chosen(Behinds(s, Len(p.parts)), S)

\* The members at some places, taken out in order, of what the parts are mapped to.
LEMMA AmongIs ==
  ASSUME NEW p \in Part, NEW S, S \subseteq 1 .. Len(p.parts) - 1, NEW s
  PROVE  /\ Cardinality(S) \in Nat /\ (Cardinality(S) = 0 <=> S = {})
         /\ \A m \in 1 .. Cardinality(S) : Nth(S, m) \in S /\ Nth(S, m) + 1 \in DOMAIN p.parts
         /\ Among(p, S, s) = [m \in 1 .. Cardinality(S) |-> s[Nth(S, m) + 1]]
<1>1. /\ Cardinality(S) \in Nat
      /\ \A m \in 1 .. Cardinality(S) : Nth(S, m) \in S /\ Nth(S, m) + 1 \in DOMAIN p.parts
  <2> DEFINE own == [i \in DOMAIN p.parts |-> 0]
  <2>1. own \in [DOMAIN p.parts -> {0}]
    OBVIOUS
  <2> HIDE DEF own
  <2>2. /\ Cardinality(S) \in Nat
        /\ Chosen(Behinds(own, Len(p.parts)), S) \in Seq({0})
        /\ \A m \in 1 .. Cardinality(S) : Nth(S, m) \in S /\ Nth(S, m) + 1 \in DOMAIN p.parts
    BY <2>1, BehindType
  <2> QED BY <2>2
<1>2. IsFiniteSet(S)
  <2>1. Len(p.parts) \in Nat
    BY RowIs
  <2>2. IsFiniteSet(1 .. Len(p.parts) - 1)
    BY <2>1, FS_Interval
  <2> QED BY <2>2, FS_Subset
<1>3. Cardinality(S) = 0 <=> S = {}
  BY <1>2, FS_EmptySet
<1>4. \A m \in 1 .. Cardinality(S) : Behinds(s, Len(p.parts))[Nth(S, m)] = s[Nth(S, m) + 1]
  <2>1. \A m \in 1 .. Cardinality(S) : Nth(S, m) \in 1 .. Len(p.parts) - 1
    BY Zenon, <1>1
  <2> QED BY Zenon, <2>1 DEF Behinds
<1>5. Among(p, S, s) = [m \in 1 .. Cardinality(S) |-> s[Nth(S, m) + 1]]
  BY Zenon, <1>4 DEF Among, Chosen
<1> QED BY Zenon, <1>1, <1>3, <1>5

\* The text, and then perhaps more, that the frame of p starts with.
LEMMA RestIs ==
  ASSUME NEW p \in Part, ~ p.plain, Named(p)
  PROVE  LET pieces == Pieces[Inside(Spelling[p])]
             rest == Tail(pieces)
         IN  /\ pieces # <<>> /\ IsPlain(pieces[1]) /\ pieces[1] = p.parts[1].word
             /\ PlainOf(rest) = Among(p, WordAt(p), Spelt(p))
             /\ BracesOf(rest) = Among(p, BraceAt(p), Spelt(p))
<1> DEFINE pieces == Pieces[Inside(Spelling[p])]
           rest == Tail(pieces)
           L == Len(p.parts)
<1>1. L \in Nat /\ DOMAIN p.parts = 1 .. L /\ p.parts \in Seq(Part)
  BY Zenon, RowIs
<1>2. L >= 1 /\ 1 \in 1 .. L
  <2>1. p.parts # <<>>
    BY Zenon DEF Named
  <2> QED BY <1>1, <2>1, EmptySeq
<1>3. pieces = Spelt(p) /\ pieces = [k \in 1 .. L |-> PartText(p, k)]
  BY Zenon, <1>1, PiecesAre DEF Spelt, PartText
<1>4. pieces # <<>> /\ Len(pieces) = L
  <2> HIDE DEF L, pieces
  <2> QED BY <1>1, <1>2, <1>3
<1>5. IsPlain(pieces[1]) /\ pieces[1] = p.parts[1].word
  <2>1. pieces[1] = PartText(p, 1) /\ p.parts[1].plain /\ p.parts[1] \in Part
    BY Zenon, <1>2, <1>3, PieceIs DEF Named
  <2>2. IsPlain(PartText(p, 1))
    BY Zenon, <1>2, <2>1, PlainPiece
  <2>3. PartText(p, 1) = p.parts[1].word
    BY Zenon, <2>1, SpellingIs DEF PartText
  <2> QED BY Zenon, <2>1, <2>2, <2>3
<1>6. rest = Behinds(Spelt(p), L)
  <2>1. rest = [k \in 1 .. L - 1 |-> pieces[k + 1]]
    <3> HIDE DEF pieces, L
    <3> QED BY <1>4, <1>1, <1>2, <1>3
  <2> QED BY Zenon, <1>3, <2>1 DEF Behinds
<1>7. DOMAIN rest = 1 .. L - 1
  BY Zenon, <1>6 DEF Behinds
<1>8. \A k \in 1 .. L - 1 : rest[k] = PartText(p, k + 1) /\ (IsPlain(rest[k]) <=> p.parts[k + 1].plain)
  <2>1. ASSUME NEW k \in 1 .. L - 1
        PROVE  rest[k] = PartText(p, k + 1) /\ (IsPlain(rest[k]) <=> p.parts[k + 1].plain)
    <3>1. k + 1 \in 1 .. L
      BY <1>1
    <3>2. rest[k] = Spelt(p)[k + 1]
      BY Zenon, <1>6 DEF Behinds
    <3>3. rest[k] = PartText(p, k + 1)
      BY Zenon, <1>3, <3>1, <3>2
    <3> QED BY Zenon, <3>1, <3>3, PlainPiece
  <2> QED BY <2>1
<1>9. {k \in DOMAIN rest : IsPlain(rest[k])} = WordAt(p)
  <2> HIDE DEF rest, pieces
  <2> QED BY <1>7, <1>8 DEF WordAt
<1>10. {k \in DOMAIN rest : IsBrace(rest[k])} = BraceAt(p)
  <2>1. \A k \in 1 .. L - 1 : IsBrace(rest[k]) <=> k \notin WordAt(p)
    BY Zenon, <1>8 DEF IsPlain, WordAt
  <2> HIDE DEF rest, pieces
  <2> QED BY <1>7, <2>1 DEF BraceAt
<1> QED BY Zenon, <1>4, <1>5, <1>6, <1>9, <1>10 DEF PlainOf, BracesOf, Among

\* No Field is named like white space.
LEMMA BlankNoName ==
  ASSUME NEW c \in Seq(Token), NEW w \in Seq(Token)
  PROVE  /\ c \o <<" ">> \o w \in Seq(Token)
         /\ \A known \in Tables : OfName(known, c \o <<" ">> \o w) = Error
<1> DEFINE b == <<Blank>>
           a == c \o b
           t == a \o w
           l == Len(c)
           n == Len(w)
<1>1. b \in Seq(Token) /\ Len(b) = 1 /\ b[1] = Blank
  BY Zenon, OneToken, Marks
<1>2. Joined(a, c, b, l, 1)
  BY Zenon, <1>1, ConcatIs
<1>3. a \in Seq(Token) /\ Len(a) = l + 1
  BY Zenon, <1>2 DEF Joined
<1>4. Joined(t, a, w, l + 1, n)
  BY Zenon, <1>3, ConcatIs
<1>5. t = c \o <<" ">> \o w
  BY Zenon DEF Blank
<1> HIDE DEF a, b, t, l, n
<1>6. l \in Nat /\ n \in Nat
  BY <1>2, <1>4 DEF Joined
<1>7. t[l + 1] = Blank /\ l + 1 \in 1 .. Len(t)
  <2>1. l + 1 \in 1 .. l + 1 /\ l + 1 \in 1 .. (l + 1) + n /\ l + 1 <= l + 1 /\ ~ (l + 1 <= l) /\ (l + 1) - l = 1
    BY <1>6
  <2>2. a[l + 1] = b[1]
    BY <1>2, <2>1 DEF Joined
  <2>3. t[l + 1] = a[l + 1] /\ Len(t) = (l + 1) + n
    BY <1>4, <2>1 DEF Joined
  <2> QED BY <1>1, <2>1, <2>2, <2>3
<1>8. t \notin Seq(Word)
  <2>1. t \in Seq(Word) => t[l + 1] \in Word
    BY <1>7, ElementOfSeq
  <2> QED BY Zenon, <1>7, <2>1, Marks
<1>9. t \notin Name
  BY <1>8, NameAssumption
<1>10. ASSUME NEW known \in Tables PROVE OfName(known, t) = Error
  BY Zenon, <1>9, TableIs DEF OfName
<1>11. t \in Seq(Token)
  BY Zenon, <1>4 DEF Joined
<1> QED BY Zenon, <1>5, <1>10, <1>11

LEMMA NothingNoName == ASSUME NEW known \in Tables PROVE OfName(known, <<>>) = Error
<1>1. <<>> \notin Name
  BY NameAssumption
<1> QED BY Zenon, <1>1, TableIs DEF OfName

Raw == <<"raw">>
Environment == <<"env">>
Replace == <<"replace">>

FrameOf(command, args, subs) ==
  CASE command = Raw -> Evaluating("raw", FlattenSeq(args), subs)
    [] command = Environment -> Evaluating("env", Given(args), Needed(args, subs))
    [] command = Replace -> Evaluating("lookup", Given(args), Needed(args, subs))
    [] OTHER -> Evaluating("lookup", IF args = <<>> THEN command ELSE command \o <<" ">> \o args[1], <<>>)

\* The frame of a command with its arguments.
LEMMA FrameOfIs ==
  ASSUME NEW args, NEW subs
  PROVE  /\ FrameOf(Raw, args, subs) = Evaluating("raw", FlattenSeq(args), subs)
         /\ FrameOf(Environment, args, subs) = Evaluating("env", Given(args), Needed(args, subs))
         /\ FrameOf(Replace, args, subs) = Evaluating("lookup", Given(args), Needed(args, subs))
<1> DEFINE a == Evaluating("raw", FlattenSeq(args), subs)
           b == Evaluating("env", Given(args), Needed(args, subs))
           c == Evaluating("lookup", Given(args), Needed(args, subs))
           d(command) ==
             Evaluating("lookup", IF args = <<>> THEN command ELSE command \o <<" ">> \o args[1], <<>>)
           f(command) == FrameOf(command, args, subs)
<1>1. ASSUME NEW command
      PROVE  f(command) = CASE command = Raw -> a [] command = Environment -> b
                            [] command = Replace -> c [] OTHER -> d(command)
  BY DEF FrameOf
<1>2. Raw # Environment /\ Raw # Replace /\ Environment # Replace
  BY Commands DEF Raw, Environment, Replace
<1> HIDE DEF a, b, c, d, f
<1>3. f(Raw) = a /\ f(Environment) = b /\ f(Replace) = c
  <2>1. f(Raw) = a
    BY <1>1, <1>2
  <2>2. f(Environment) = b
    BY <1>1, <1>2
  <2>3. f(Replace) = c
    BY <1>1, <1>2
  <2> QED BY Zenon, <2>1, <2>2, <2>3
<1> QED BY Zenon, <1>3 DEF a, b, c, f

LEMMA OtherFrame ==
  ASSUME NEW command, command # Raw, command # Environment, command # Replace, NEW args, NEW subs
  PROVE  FrameOf(command, args, subs)
           = Evaluating("lookup", IF args = <<>> THEN command ELSE command \o <<" ">> \o args[1], <<>>)
<1> DEFINE a == Evaluating("raw", FlattenSeq(args), subs)
           b == Evaluating("env", Given(args), Needed(args, subs))
           c == Evaluating("lookup", Given(args), Needed(args, subs))
           d == Evaluating("lookup", IF args = <<>> THEN command ELSE command \o <<" ">> \o args[1], <<>>)
           f == FrameOf(command, args, subs)
<1>1. f = CASE command = Raw -> a [] command = Environment -> b [] command = Replace -> c [] OTHER -> d
  BY DEF FrameOf
<1> HIDE DEF a, b, c, d, f
<1>2. f = d
  BY <1>1
<1> QED BY <1>2 DEF d, f

LEMMA EvaluationOf ==
  ASSUME NEW b \in Seq(Token)
  PROVE  LET pieces == Pieces[Inside(b)]
             named == pieces # <<>> /\ IsPlain(pieces[1])
             command == IF named THEN pieces[1] ELSE <<>>
             rest == IF named THEN Tail(pieces) ELSE pieces
         IN  Evaluation[b] = FrameOf(command, PlainOf(rest), BracesOf(rest))
<1> DEFINE pieces == Pieces[Inside(b)]
           named == pieces # <<>> /\ IsPlain(pieces[1])
           command == IF named THEN pieces[1] ELSE <<>>
           rest == IF named THEN Tail(pieces) ELSE pieces
           args == PlainOf(rest)
           subs == BracesOf(rest)
<1>1. Evaluation[b]
        = CASE command = <<"raw">> -> Evaluating("raw", FlattenSeq(args), subs)
            [] command = <<"env">> -> Evaluating("env", Given(args), Needed(args, subs))
            [] command = <<"replace">> -> Evaluating("lookup", Given(args), Needed(args, subs))
            [] OTHER -> Evaluating("lookup",
                                   IF args = <<>> THEN command ELSE command \o <<" ">> \o args[1],
                                   <<>>)
  BY Zenon DEF Evaluation, Inside
<1> HIDE DEF command, args, subs
<1>2. Evaluation[b] = FrameOf(command, args, subs)
  BY Zenon, <1>1 DEF FrameOf, Raw, Environment, Replace
<1> QED BY <1>2 DEF command, args, subs

\* Braces that begin with a word, and those that do not.
LEMMA NamedFrame ==
  ASSUME NEW p \in Part, ~ p.plain, Named(p)
  PROVE  Evaluation[Spelling[p]]
           = FrameOf(p.parts[1].word, Among(p, WordAt(p), Spelt(p)), Among(p, BraceAt(p), Spelt(p)))
<1> DEFINE b == Spelling[p]
           pieces == Pieces[Inside(b)]
           named == pieces # <<>> /\ IsPlain(pieces[1])
           command == IF named THEN pieces[1] ELSE <<>>
           rest == IF named THEN Tail(pieces) ELSE pieces
<1>1. b \in Seq(Token)
  BY Zenon, SpellingIs
<1>2. /\ named /\ pieces[1] = p.parts[1].word
      /\ PlainOf(Tail(pieces)) = Among(p, WordAt(p), Spelt(p))
      /\ BracesOf(Tail(pieces)) = Among(p, BraceAt(p), Spelt(p))
  BY Zenon, RestIs
<1>3. Evaluation[b] = FrameOf(command, PlainOf(rest), BracesOf(rest))
  BY Zenon, <1>1, EvaluationOf
<1>4. command = p.parts[1].word /\ rest = Tail(pieces)
  <2> HIDE DEF pieces
  <2> QED BY <1>2
<1> HIDE DEF b, pieces, named, command, rest
<1> QED BY Zenon, <1>2, <1>3, <1>4 DEF b

\* Braces without a command look up what is no name.
LEMMA NamelessFrame ==
  ASSUME NEW p \in Part, ~ p.plain, ~ Named(p)
  PROVE  \E acc \in Seq(Token) : /\ Evaluation[Spelling[p]] = Evaluating("lookup", acc, <<>>)
                                 /\ \A known \in Tables : OfName(known, acc) = Error
<1> DEFINE b == Spelling[p]
           pieces == Pieces[Inside(b)]
           L == Len(p.parts)
           named == pieces # <<>> /\ IsPlain(pieces[1])
           command == IF named THEN pieces[1] ELSE <<>>
           rest == IF named THEN Tail(pieces) ELSE pieces
           args == PlainOf(pieces)
           subs == BracesOf(pieces)
           S == {k \in DOMAIN pieces : IsPlain(pieces[k])}
<1>1. b \in Seq(Token)
  BY Zenon, SpellingIs
<1>2. L \in Nat /\ DOMAIN p.parts = 1 .. L /\ p.parts \in Seq(Part)
  BY Zenon, RowIs
<1>3. pieces = Spelt(p) /\ pieces = [k \in 1 .. L |-> PartText(p, k)]
  BY Zenon, <1>2, PiecesAre DEF Spelt, PartText
<1>4. pieces \in [1 .. L -> Seq(Token)] /\ DOMAIN pieces = 1 .. L
  <2>1. \A k \in 1 .. L : PartText(p, k) \in Seq(Token)
    BY Zenon, PieceIs
  <2> HIDE DEF pieces, L
  <2> QED BY <1>3, <2>1
<1>5. ~ named
  <2>1. CASE p.parts = <<>>
    <3>1. L = 0
      BY <2>1
    <3>2. pieces = <<>>
      <4> HIDE DEF L, pieces
      <4> QED BY <1>3, <3>1
    <3> QED BY Zenon, <3>2
  <2>2. CASE p.parts # <<>>
    <3>1. 1 \in 1 .. L /\ ~ p.parts[1].plain
      BY <1>2, <2>2, EmptySeq DEF Named
    <3>2. pieces[1] = PartText(p, 1)
      BY Zenon, <1>3, <3>1
    <3>3. ~ IsPlain(pieces[1])
      BY Zenon, <3>1, <3>2, PlainPiece
    <3> QED BY Zenon, <3>3
  <2> QED BY <2>1, <2>2
<1>6. Evaluation[b] = FrameOf(<<>>, args, subs)
  <2>1. Evaluation[b] = FrameOf(command, PlainOf(rest), BracesOf(rest))
    BY Zenon, <1>1, EvaluationOf
  <2>2. command = <<>> /\ rest = pieces
    <3> HIDE DEF named
    <3> QED BY Zenon, <1>5
  <2> HIDE DEF command, rest, pieces, b
  <2> QED BY Zenon, <2>1, <2>2
<1>7. args \in Seq(Seq(Token))
  <2>1. S \subseteq 1 .. L
    BY <1>4
  <2>2. S \subseteq Nat /\ IsFiniteSet(S)
    <3> HIDE DEF S, L
    <3> QED BY <1>2, <2>1, PlacesFinite
  <2>3. \A k \in S : pieces[k] \in Seq(Token)
    <3> HIDE DEF pieces, S, L
    <3> QED BY <1>4, <2>1
  <2>4. Chosen(pieces, S) \in Seq(Seq(Token))
    <3> HIDE DEF S, pieces
    <3> QED BY <2>2, <2>3, ChosenType
  <2> QED BY <2>4 DEF PlainOf
<1> HIDE DEF args, subs, pieces, b
<1> DEFINE acc == IF args = <<>> THEN <<>> ELSE <<>> \o <<" ">> \o args[1]
<1>8. Evaluation[b] = Evaluating("lookup", acc, <<>>)
  <2>1. <<>> # Raw /\ <<>> # Environment /\ <<>> # Replace
    BY DEF Raw, Environment, Replace
  <2> QED BY Zenon, <1>6, <2>1, OtherFrame
<1>9. acc \in Seq(Token) /\ \A known \in Tables : OfName(known, acc) = Error
  <2>1. CASE args = <<>>
    <3>1. acc = <<>> /\ <<>> \in Seq(Token)
      BY <2>1
    <3> HIDE DEF acc
    <3> QED BY Zenon, <3>1, NothingNoName
  <2>2. CASE args # <<>>
    <3>1. acc = <<>> \o <<" ">> \o args[1]
      BY Zenon, <2>2
    <3>2. args[1] \in Seq(Token) /\ <<>> \in Seq(Token)
      <4>1. 1 \in 1 .. Len(args)
        BY <1>7, <2>2, EmptySeq
      <4> QED BY <1>7, <4>1, ElementOfSeq
    <3> HIDE DEF acc
    <3> QED BY Zenon, <3>1, <3>2, BlankNoName
  <2> QED BY <2>1, <2>2
<1> HIDE DEF acc
<1> QED BY <1>8, <1>9 DEF b

\* What parts stand for, one by one, and how they are spelled.
Ofs(known, qs) == [i \in DOMAIN qs |-> OfParts(known, FALSE)[qs[i]]]
SpeltOut(qs) == [i \in DOMAIN qs |-> Spelling[qs[i]]]
BraceParts(p, qs) ==
  qs \in Seq(Part) /\ \A i \in DOMAIN qs : ~ qs[i].plain /\ Depth[qs[i]] < Depth[p]

\* The arguments of p: its words, and the braces among them.
WordTexts(p) == Among(p, WordAt(p), Spelt(p))
InnerBraces(p) == Among(p, BraceAt(p), p.parts)

\* The braces among the arguments, and their spellings.
LEMMA BracesAmong ==
  ASSUME NEW p \in Part, ~ p.plain
  PROVE  /\ BraceParts(p, InnerBraces(p))
         /\ Among(p, BraceAt(p), Spelt(p)) = SpeltOut(InnerBraces(p))
         /\ \A known : BracesIn(p, Owns(known, p)) = Ofs(known, InnerBraces(p))
         /\ InnerBraces(p) = <<>> <=> BraceAt(p) = {}
<1> DEFINE S == BraceAt(p)
           n == Cardinality(S)
           qs == InnerBraces(p)
           at(m) == Nth(S, m) + 1
<1>1. S \subseteq 1 .. Len(p.parts) - 1
  BY Zenon, Subsets
<1>2. /\ n \in Nat /\ (n = 0 <=> S = {})
      /\ \A m \in 1 .. n : Nth(S, m) \in S /\ at(m) \in DOMAIN p.parts
  BY Zenon, <1>1, AmongIs
<1>3. \A s : Among(p, S, s) = [m \in 1 .. n |-> s[at(m)]]
  BY Zenon, <1>1, AmongIs
<1>4. qs = [m \in 1 .. n |-> p.parts[at(m)]] /\ DOMAIN qs = 1 .. n
  BY Zenon, <1>3 DEF InnerBraces
<1>5. \A m \in 1 .. n : ~ p.parts[at(m)].plain
  BY Zenon, <1>2 DEF BraceAt, WordAt
<1>6. \A i \in DOMAIN p.parts : p.parts[i] \in Part /\ Depth[p.parts[i]] < Depth[p]
  BY Zenon, RowIs
<1>7. \A m \in 1 .. n : Spelt(p)[at(m)] = Spelling[qs[m]]
  <2>1. \A m \in 1 .. n : qs[m] = p.parts[at(m)]
    BY Zenon, <1>4
  <2> QED BY Zenon, <1>2, <2>1 DEF Spelt
<1>8. \A known : \A m \in 1 .. n : Owns(known, p)[at(m)] = OfParts(known, FALSE)[qs[m]]
  <2>1. \A m \in 1 .. n : qs[m] = p.parts[at(m)]
    BY Zenon, <1>4
  <2> QED BY Zenon, <1>2, <2>1 DEF Owns
<1>9. Among(p, S, Spelt(p)) = SpeltOut(qs)
  <2> DEFINE a == Among(p, S, Spelt(p))
  <2>1. a = [m \in 1 .. n |-> Spelt(p)[at(m)]]
    BY Zenon, <1>3
  <2>2. a = [m \in DOMAIN qs |-> Spelling[qs[m]]]
    <3> HIDE DEF a, qs, at, n
    <3> QED BY <1>4, <1>7, <2>1
  <2> QED BY <2>2 DEF SpeltOut
<1>10. \A known : Among(p, S, Owns(known, p)) = Ofs(known, qs)
  <2>1. ASSUME NEW known PROVE Among(p, S, Owns(known, p)) = Ofs(known, qs)
    <3> DEFINE own == Owns(known, p)
               a == Among(p, S, own)
    <3>1. a = [m \in 1 .. n |-> own[at(m)]]
      BY Zenon, <1>3
    <3>2. \A m \in 1 .. n : own[at(m)] = OfParts(known, FALSE)[qs[m]]
      BY Zenon, <1>8
    <3>3. a = [m \in DOMAIN qs |-> OfParts(known, FALSE)[qs[m]]]
      <4> HIDE DEF a, own, qs, at, n
      <4> QED BY <1>4, <3>1, <3>2
    <3> QED BY <3>3 DEF Ofs
  <2> QED BY <2>1
<1> HIDE DEF S, n, qs, at
<1>11. qs \in Seq(Part) /\ (qs = <<>> <=> S = {})
  <2>1. \A m \in 1 .. n : p.parts[at(m)] \in Part
    BY <1>2, <1>6
  <2> QED BY <1>2, <1>4, <2>1
<1>12. BraceParts(p, qs)
  BY Zenon, <1>2, <1>4, <1>5, <1>6, <1>11 DEF BraceParts
<1> QED BY Zenon, <1>9, <1>10, <1>11, <1>12 DEF qs, S, BracesIn, Among

\* The words among the arguments, in turn.
LEMMA WordsAmong ==
  ASSUME NEW p \in Part, ~ p.plain
  PROVE  /\ WordTexts(p) \in Seq(Seq(Token))
         /\ \A known \in Tables : WordsOf(p, Owns(known, p)) = [m \in DOMAIN WordTexts(p) |-> Text(WordTexts(p)[m])]
         /\ WordTexts(p) = <<>> <=> WordAt(p) = {}
<1> DEFINE S == WordAt(p)
           n == Cardinality(S)
           ws == WordTexts(p)
           at(m) == Nth(S, m) + 1
<1>1. S \subseteq 1 .. Len(p.parts) - 1
  BY Zenon, Subsets
<1>2. /\ n \in Nat /\ (n = 0 <=> S = {})
      /\ \A m \in 1 .. n : Nth(S, m) \in S /\ at(m) \in DOMAIN p.parts
  BY Zenon, <1>1, AmongIs
<1>3. \A s : Among(p, S, s) = [m \in 1 .. n |-> s[at(m)]]
  BY Zenon, <1>1, AmongIs
<1>4. \A m \in 1 .. n : p.parts[at(m)] \in Part /\ p.parts[at(m)].plain
  <2>1. \A m \in 1 .. n : p.parts[at(m)] \in Part
    BY Zenon, <1>2, RowIs
  <2> QED BY Zenon, <1>2, <2>1 DEF WordAt
<1>5. \A m \in 1 .. n : Spelt(p)[at(m)] = p.parts[at(m)].word /\ p.parts[at(m)].word \in Seq(Token)
  <2>1. \A m \in 1 .. n : Spelt(p)[at(m)] = Spelling[p.parts[at(m)]]
    BY Zenon, <1>2 DEF Spelt
  <2> QED BY Zenon, <1>4, <2>1, SpellingIs, WordIs
<1>6. ws = [m \in 1 .. n |-> p.parts[at(m)].word] /\ DOMAIN ws = 1 .. n
  <2>1. ws = [m \in 1 .. n |-> Spelt(p)[at(m)]]
    BY Zenon, <1>3 DEF WordTexts
  <2> HIDE DEF ws, n, at
  <2> QED BY <1>5, <2>1
<1>7. \A known \in Tables : \A m \in 1 .. n : Owns(known, p)[at(m)] = Text(p.parts[at(m)].word)
  BY Zenon, <1>2, <1>4, OfPartsIs DEF Owns
<1>8. \A known \in Tables : Among(p, S, Owns(known, p)) = [m \in DOMAIN ws |-> Text(ws[m])]
  <2>1. ASSUME NEW known \in Tables PROVE Among(p, S, Owns(known, p)) = [m \in DOMAIN ws |-> Text(ws[m])]
    <3> DEFINE own == Owns(known, p)
               a == Among(p, S, own)
    <3>1. a = [m \in 1 .. n |-> own[at(m)]]
      BY Zenon, <1>3
    <3>2. \A m \in 1 .. n : own[at(m)] = Text(p.parts[at(m)].word)
      BY Zenon, <1>7
    <3>3. \A m \in 1 .. n : ws[m] = p.parts[at(m)].word
      BY Zenon, <1>6
    <3>4. \A m \in 1 .. n : own[at(m)] = Text(ws[m])
      BY Zenon, <3>2, <3>3
    <3>5. a = [m \in DOMAIN ws |-> Text(ws[m])]
      <4> HIDE DEF a, own, ws, at, n
      <4> QED BY <1>6, <3>1, <3>4
    <3> QED BY <3>5
  <2> QED BY <2>1
<1> HIDE DEF S, n, ws, at
<1>9. ws \in Seq(Seq(Token)) /\ (ws = <<>> <=> S = {})
  BY <1>2, <1>5, <1>6
<1> QED BY Zenon, <1>8, <1>9 DEF ws, S, WordsOf, Among

\* The first argument that env and replace take.
LEMMA FirstAmong ==
  ASSUME NEW p \in Part, ~ p.plain, NEW known \in Tables
  PROVE  /\ WordTexts(p) # <<>> => First(p, Owns(known, p)) = Text(WordTexts(p)[1])
         /\ WordTexts(p) = <<>> /\ InnerBraces(p) # <<>>
              => First(p, Owns(known, p)) = OfParts(known, FALSE)[InnerBraces(p)[1]]
         /\ WordTexts(p) = <<>> /\ InnerBraces(p) = <<>> => First(p, Owns(known, p)) = Error
<1>1. ASSUME WordTexts(p) # <<>> PROVE First(p, Owns(known, p)) = Text(WordTexts(p)[1])
  <2>1. 1 \in DOMAIN WordTexts(p)
    <3>1. WordTexts(p) \in Seq(Seq(Token))
      BY Zenon, WordsAmong
    <3> QED BY <1>1, <3>1, EmptySeq
  <2>2. WordsOf(p, Owns(known, p))[1] = Text(WordTexts(p)[1])
    BY Zenon, <2>1, WordsAmong
  <2>3. WordAt(p) # {}
    BY Zenon, <1>1, WordsAmong
  <2> QED BY Zenon, <2>2, <2>3 DEF First
<1>2. ASSUME WordTexts(p) = <<>>, InnerBraces(p) # <<>>
      PROVE  First(p, Owns(known, p)) = OfParts(known, FALSE)[InnerBraces(p)[1]]
  <2>1. 1 \in DOMAIN InnerBraces(p)
    <3>1. InnerBraces(p) \in Seq(Part)
      BY Zenon, BracesAmong DEF BraceParts
    <3> QED BY <1>2, <3>1, EmptySeq
  <2>2. BracesIn(p, Owns(known, p))[1] = OfParts(known, FALSE)[InnerBraces(p)[1]]
    <3>1. BracesIn(p, Owns(known, p)) = Ofs(known, InnerBraces(p))
      BY Zenon, BracesAmong
    <3> QED BY <2>1, <3>1 DEF Ofs
  <2>3. WordAt(p) = {} /\ BraceAt(p) # {}
    BY Zenon, <1>2, WordsAmong, BracesAmong
  <2> QED BY Zenon, <2>2, <2>3 DEF First
<1>3. ASSUME WordTexts(p) = <<>>, InnerBraces(p) = <<>> PROVE First(p, Owns(known, p)) = Error
  <2>1. WordAt(p) = {} /\ BraceAt(p) = {}
    BY Zenon, <1>3, WordsAmong, BracesAmong
  <2> QED BY Zenon, <2>1 DEF First
<1> QED BY Zenon, <1>1, <1>2, <1>3

\* What is done with what the arguments stand for.
Finish(known, kind, x) ==
  IF x.is # "text" THEN x
  ELSE IF kind = "env" THEN OfEnv(x.text)
  ELSE IF kind = "lookup" THEN OfName(known, x.text)
  ELSE x

Means(p, kind, acc, qs) ==
  /\ kind \in {"raw", "env", "lookup"} /\ acc \in Seq(Token) /\ BraceParts(p, qs)
  /\ Evaluation[Spelling[p]] = Evaluating(kind, acc, SpeltOut(qs))
  /\ \A known \in Tables :
       OfParts(known, FALSE)[p] = Finish(known, kind, Then(Text(acc), InTurn(Ofs(known, qs))))

LEMMA NoParts == /\ \A p : BraceParts(p, <<>>)
                 /\ SpeltOut(<<>>) = <<>>
                 /\ \A known : InTurn(Ofs(known, <<>>)) = Text(<<>>)
<1>1. DOMAIN <<>> = {} /\ <<>> \in Seq(Part)
  OBVIOUS
<1>2. SpeltOut(<<>>) = <<>> /\ \A known : Ofs(known, <<>>) = <<>>
  BY DEF SpeltOut, Ofs
<1> QED BY Zenon, <1>1, <1>2, NothingInTurn DEF BraceParts

\* A frame with no braces left.
LEMMA WithoutBraces ==
  ASSUME NEW acc \in Seq(Token)
  PROVE  \A known : Then(Text(acc), InTurn(Ofs(known, <<>>))) = Text(acc)
<1>1. Text(acc) \in Outcome
  BY Zenon, OutcomesAre
<1> QED BY Zenon, <1>1, NoParts, ThenNothing

LEMMA FinishText ==
  ASSUME NEW known, NEW t
  PROVE  /\ Finish(known, "raw", Text(t)) = Text(t)
         /\ Finish(known, "env", Text(t)) = OfEnv(t)
         /\ Finish(known, "lookup", Text(t)) = OfName(known, t)
<1>1. Text(t).is = "text" /\ Text(t).text = t
  BY Zenon, Texts
<1>2. "raw" # "env" /\ "raw" # "lookup" /\ "env" # "lookup"
  OBVIOUS
<1> QED BY Zenon, <1>1, <1>2 DEF Finish

\* What raw is left to do is what it stands for.
LEMMA RawMeans ==
  ASSUME NEW p \in Part, ~ p.plain, Named(p), p.parts[1].word = Raw
  PROVE  \E kind, acc, qs : Means(p, kind, acc, qs)
<1> DEFINE ws == WordTexts(p)
           qs == InnerBraces(p)
           acc == FlattenSeq(ws)
<1>1. ws \in Seq(Seq(Token)) /\ BraceParts(p, qs)
  BY Zenon, WordsAmong, BracesAmong
<1>2. ASSUME NEW known \in Tables
      PROVE  InTurn(WordsOf(p, Owns(known, p))) = Text(acc) /\ acc \in Seq(Token)
  <2> DEFINE outs == WordsOf(p, Owns(known, p))
  <2>1. outs = [m \in DOMAIN ws |-> Text(ws[m])]
    BY Zenon, WordsAmong
  <2> HIDE DEF outs, ws
  <2> QED BY Zenon, <1>1, <2>1, WordsInTurn DEF outs
<1>3. acc \in Seq(Token)
  <2> DEFINE outs == [m \in DOMAIN ws |-> Text(ws[m])]
  <2>1. outs = [m \in DOMAIN ws |-> Text(ws[m])]
    OBVIOUS
  <2> HIDE DEF outs, ws
  <2> QED BY Zenon, <1>1, <2>1, WordsInTurn
<1>4. Evaluation[Spelling[p]] = Evaluating("raw", acc, SpeltOut(qs))
  <2>1. Among(p, BraceAt(p), Spelt(p)) = SpeltOut(qs)
    BY Zenon, BracesAmong
  <2>2. Evaluation[Spelling[p]] = FrameOf(Raw, ws, SpeltOut(qs))
    BY Zenon, <2>1, NamedFrame DEF WordTexts
  <2>3. FrameOf(Raw, ws, SpeltOut(qs)) = Evaluating("raw", FlattenSeq(ws), SpeltOut(qs))
    <3> HIDE DEF ws, qs
    <3> QED BY Zenon, FrameOfIs
  <2> QED BY Zenon, <2>2, <2>3
<1>5. ASSUME NEW known \in Tables
      PROVE  OfParts(known, FALSE)[p] = Finish(known, "raw", Then(Text(acc), InTurn(Ofs(known, qs))))
  <2> DEFINE own == Owns(known, p)
             x == Then(Text(acc), InTurn(Ofs(known, qs)))
  <2>1. OfParts(known, FALSE)[p] = OfBraces(known, p.parts, own, FALSE)
    BY Zenon, OfPartsIs
  <2>2. OfBraces(known, p.parts, own, FALSE) = Then(InTurn(WordsOf(p, own)), InTurn(BracesIn(p, own)))
    BY Zenon, OfBracesIs DEF Raw
  <2>3. BracesIn(p, own) = Ofs(known, qs)
    BY Zenon, BracesAmong
  <2>4. OfParts(known, FALSE)[p] = x
    BY Zenon, <1>2, <2>1, <2>2, <2>3
  <2>5. Finish(known, "raw", x) = x
    <3> HIDE DEF x
    <3>1. "raw" # "env" /\ "raw" # "lookup"
      OBVIOUS
    <3> QED BY Zenon, <3>1 DEF Finish
  <2> QED BY Zenon, <2>4, <2>5
<1> HIDE DEF acc, qs
<1> QED BY Zenon, <1>1, <1>3, <1>4, <1>5 DEF Means

Argument(p, acc, qs) ==
  /\ acc \in Seq(Token) /\ BraceParts(p, qs)
  /\ acc = Given(WordTexts(p)) /\ SpeltOut(qs) = Needed(WordTexts(p), SpeltOut(InnerBraces(p)))
  /\ \A known \in Tables :
       \/ Then(Text(acc), InTurn(Ofs(known, qs))) = First(p, Owns(known, p))
       \/ First(p, Owns(known, p)) = Error
          /\ Then(Text(acc), InTurn(Ofs(known, qs))) = Text(<<>>)

LEMMA ArgumentExists ==
  ASSUME NEW p \in Part, ~ p.plain
  PROVE  \E acc, qs : Argument(p, acc, qs)
<1> DEFINE ws == WordTexts(p)
           bs == InnerBraces(p)
<1>1. ws \in Seq(Seq(Token)) /\ BraceParts(p, bs)
  BY Zenon, WordsAmong, BracesAmong
<1>2. CASE ws # <<>>
  <2>1. ws[1] \in Seq(Token)
    <3> HIDE DEF ws
    <3>1. 1 \in 1 .. Len(ws)
      BY <1>1, <1>2, EmptySeq
    <3> QED BY <1>1, <3>1, ElementOfSeq
  <2>2. Given(ws) = ws[1] /\ Needed(ws, SpeltOut(bs)) = <<>>
    BY Zenon, <1>2 DEF Given, Needed
  <2>3. \A known \in Tables : First(p, Owns(known, p)) = Text(ws[1])
    BY Zenon, <1>2, FirstAmong
  <2>4. \A known : Then(Text(ws[1]), InTurn(Ofs(known, <<>>))) = Text(ws[1])
    BY Zenon, <2>1, WithoutBraces
  <2>5. BraceParts(p, <<>>) /\ SpeltOut(<<>>) = <<>>
    BY Zenon, NoParts
  <2>6. Argument(p, ws[1], <<>>)
    BY Zenon, <2>1, <2>2, <2>3, <2>4, <2>5 DEF Argument
  <2> QED BY <2>6
<1>3. CASE ws = <<>> /\ bs # <<>>
  <2> DEFINE q == bs[1]
             qs == <<q>>
  <2>1. bs \in Seq(Part) /\ 1 \in DOMAIN bs
    <3>1. bs \in Seq(Part)
      BY Zenon, <1>1 DEF BraceParts
    <3> HIDE DEF bs
    <3> QED BY <1>3, <3>1, EmptySeq
  <2>2. ~ q.plain /\ Depth[q] < Depth[p]
    BY Zenon, <1>1, <2>1 DEF BraceParts
  <2>3. q \in Part
    <3> HIDE DEF bs
    <3> QED BY <2>1, ElementOfSeq
  <2> HIDE DEF q
  <2>4. DOMAIN qs = {1} /\ qs[1] = q /\ qs \in Seq(Part) /\ qs # <<>>
    BY <2>3
  <2>5. BraceParts(p, qs)
    <3> HIDE DEF qs
    <3> QED BY <2>2, <2>4 DEF BraceParts
  <2>6. SpeltOut(qs) = <<Spelling[q]>>
    <3>1. [i \in DOMAIN qs |-> Spelling[qs[i]]] = <<Spelling[q]>>
      BY <2>4
    <3> QED BY <3>1 DEF SpeltOut
  <2>7. SpeltOut(bs) # <<>> /\ SpeltOut(bs)[1] = Spelling[q]
    <3>1. SpeltOut(bs)[1] = Spelling[q] /\ 1 \in DOMAIN SpeltOut(bs)
      BY Zenon, <2>1 DEF SpeltOut, q
    <3> DEFINE o == SpeltOut(bs)
    <3> HIDE DEF o
    <3>2. o # <<>>
      <4>1. 1 \in DOMAIN o
        BY <3>1 DEF o
      <4> QED BY <4>1
    <3> QED BY <3>1, <3>2 DEF o
  <2>8. Given(ws) = <<>> /\ Needed(ws, SpeltOut(bs)) = SpeltOut(qs)
    <3> HIDE DEF qs, bs, ws
    <3> QED BY Zenon, <1>3, <2>6, <2>7 DEF Given, Needed, Foremost
  <2>9. ASSUME NEW known \in Tables
        PROVE  Then(Text(<<>>), InTurn(Ofs(known, qs))) = First(p, Owns(known, p))
    <3> DEFINE x == OfParts(known, FALSE)[q]
    <3>1. x \in Outcome
      BY Zenon, <2>3, OfPartsIs
    <3>2. First(p, Owns(known, p)) = x
      BY Zenon, <1>3, FirstAmong DEF q
    <3>3. Ofs(known, qs) = <<x>>
      <4> HIDE DEF x
      <4> DEFINE o == OfParts(known, FALSE)
      <4> HIDE DEF o
      <4>1. [i \in DOMAIN qs |-> o[qs[i]]] = <<o[q]>>
        BY <2>4
      <4>2. [i \in DOMAIN qs |-> OfParts(known, FALSE)[qs[i]]] = <<x>>
        BY <4>1 DEF o, x
      <4> QED BY <4>2 DEF Ofs
    <3>4. InTurn(<<x>>) = x
      BY Zenon, <3>1, OneInTurn
    <3>5. Then(Text(<<>>), x) = x
      BY Zenon, <3>1, ThenNothing
    <3> QED BY Zenon, <3>2, <3>3, <3>4, <3>5
  <2>10. <<>> \in Seq(Token)
    OBVIOUS
  <2>11. Argument(p, <<>>, qs)
    <3> HIDE DEF qs
    <3> QED BY Zenon, <2>5, <2>8, <2>9, <2>10 DEF Argument
  <2> QED BY <2>11
<1>4. CASE ws = <<>> /\ bs = <<>>
  <2>1. <<>> \in Seq(Token)
    OBVIOUS
  <2>2. BraceParts(p, <<>>) /\ SpeltOut(<<>>) = <<>>
    BY Zenon, NoParts
  <2>3. Given(ws) = <<>> /\ Needed(ws, SpeltOut(bs)) = <<>>
    BY Zenon, <1>4, <2>2 DEF Given, Needed, Foremost
  <2>4. \A known \in Tables : First(p, Owns(known, p)) = Error
    BY Zenon, <1>4, FirstAmong
  <2>5. \A known : Then(Text(<<>>), InTurn(Ofs(known, <<>>))) = Text(<<>>)
    BY Zenon, <2>1, WithoutBraces
  <2>6. Argument(p, <<>>, <<>>)
    BY Zenon, <2>1, <2>2, <2>3, <2>4, <2>5 DEF Argument
  <2> QED BY <2>6
<1> QED BY Zenon, <1>2, <1>3, <1>4

\* So is what env and replace are,
LEMMA ArgumentMeans ==
  ASSUME NEW p \in Part, ~ p.plain, Named(p), p.parts[1].word \in {Environment, Replace}
  PROVE  \E kind, acc, qs : Means(p, kind, acc, qs)
<1>1. PICK acc, qs : Argument(p, acc, qs)
  BY Zenon, ArgumentExists
<1> DEFINE word == p.parts[1].word
           kind == IF word = Environment THEN "env" ELSE "lookup"
           ws == WordTexts(p)
           bs == SpeltOut(InnerBraces(p))
<1>2. Evaluation[Spelling[p]] = Evaluating(kind, acc, SpeltOut(qs))
  <2>1. Among(p, BraceAt(p), Spelt(p)) = bs
    BY Zenon, BracesAmong
  <2>2. Evaluation[Spelling[p]] = FrameOf(word, ws, bs)
    BY Zenon, <2>1, NamedFrame DEF WordTexts
  <2>3. /\ FrameOf(Environment, ws, bs) = Evaluating("env", Given(ws), Needed(ws, bs))
        /\ FrameOf(Replace, ws, bs) = Evaluating("lookup", Given(ws), Needed(ws, bs))
    <3> HIDE DEF ws, bs
    <3> QED BY Zenon, FrameOfIs
  <2>4. acc = Given(ws) /\ SpeltOut(qs) = Needed(ws, bs)
    BY Zenon, <1>1 DEF Argument
  <2>5. word = Environment \/ (word = Replace /\ word # Environment)
    BY Zenon
  <2> HIDE DEF word, ws, bs
  <2> QED BY Zenon, <2>2, <2>3, <2>4, <2>5
<1>3. ASSUME NEW known \in Tables
      PROVE  OfParts(known, FALSE)[p] = Finish(known, kind, Then(Text(acc), InTurn(Ofs(known, qs))))
  <2> DEFINE own == Owns(known, p)
             first == First(p, own)
             x == Then(Text(acc), InTurn(Ofs(known, qs)))
             z == OfParts(known, FALSE)[p]
  <2>1. z = OfBraces(known, p.parts, own, FALSE)
    BY Zenon, OfPartsIs
  <2>2. x = first \/ (first = Error /\ x = Text(<<>>))
    BY Zenon, <1>1 DEF Argument
  <2>3. Error.is # "text" /\ Text(<<>>).is = "text" /\ Text(<<>>).text = <<>>
    BY Zenon, Texts
  <2>4. "env" # "lookup"
    OBVIOUS
  <2>5. CASE word = Environment
    <3>1. OfBraces(known, p.parts, own, FALSE) = IF first.is = "text" THEN OfEnv(first.text) ELSE first
      BY Zenon, <2>5, OfBracesIs DEF Environment
    <3>2. OfEnv(<<>>) = Error
      BY Zenon DEF OfEnv
    <3>3. Finish(known, "env", x) = IF x.is # "text" THEN x ELSE OfEnv(x.text)
      BY Zenon DEF Finish
    <3>4. kind = "env"
      BY Zenon, <2>5
    <3> HIDE DEF x, first, z, kind
    <3> QED BY Zenon, <2>1, <2>2, <2>3, <3>1, <3>2, <3>3, <3>4 DEF x, z
  <2>6. CASE word # Environment
    <3>1. OfBraces(known, p.parts, own, FALSE) = IF first.is = "text" THEN OfName(known, first.text) ELSE first
      <4>1. word = Replace
        BY <2>6
      <4> QED BY Zenon, <4>1, OfBracesIs DEF Replace
    <3>2. OfName(known, <<>>) = Error
      BY Zenon, NothingNoName
    <3>3. Finish(known, "lookup", x) = IF x.is # "text" THEN x ELSE OfName(known, x.text)
      BY Zenon, <2>4 DEF Finish
    <3>4. kind = "lookup"
      BY Zenon, <2>6
    <3> HIDE DEF x, first, z, kind
    <3> QED BY Zenon, <2>1, <2>2, <2>3, <3>1, <3>2, <3>3, <3>4 DEF x, z
  <2> QED BY <2>5, <2>6
<1>4. kind \in {"raw", "env", "lookup"}
  BY Zenon
<1> HIDE DEF kind
<1>5. Means(p, kind, acc, qs)
  BY Zenon, <1>1, <1>2, <1>3, <1>4 DEF Means, Argument
<1> QED BY <1>5

\* and what a Field's name in braces is.
LEMMA OtherMeans ==
  ASSUME NEW p \in Part, ~ p.plain, Named(p),
         p.parts[1].word # Raw, p.parts[1].word # Environment, p.parts[1].word # Replace
  PROVE  \E kind, acc, qs : Means(p, kind, acc, qs)
<1> DEFINE word == p.parts[1].word
           ws == WordTexts(p)
           bs == SpeltOut(InnerBraces(p))
           acc == IF ws = <<>> THEN word ELSE word \o <<" ">> \o ws[1]
<1>1. word \in Seq(Token)
  <2>1. p.parts # <<>> /\ p.parts[1].plain /\ p.parts \in Seq(Part)
    BY Zenon, RowIs DEF Named
  <2>2. p.parts[1] \in Part
    BY <2>1, EmptySeq
  <2> QED BY Zenon, <2>1, <2>2, WordIs
<1>2. ws \in Seq(Seq(Token))
  BY Zenon, WordsAmong
<1>3. ASSUME ws # <<>> PROVE ws[1] \in Seq(Token)
  <2> HIDE DEF ws
  <2>1. 1 \in 1 .. Len(ws)
    BY <1>2, <1>3, EmptySeq
  <2> QED BY <1>2, <2>1, ElementOfSeq
<1>4. acc \in Seq(Token) /\ (ws # <<>> => \A known \in Tables : OfName(known, acc) = Error)
  <2>1. CASE ws = <<>>
    <3>1. acc = word
      BY Zenon, <2>1
    <3> HIDE DEF acc, word, ws
    <3> QED BY Zenon, <1>1, <2>1, <3>1
  <2>2. CASE ws # <<>>
    <3>1. acc = word \o <<" ">> \o ws[1]
      BY Zenon, <2>2
    <3>2. ws[1] \in Seq(Token)
      BY Zenon, <1>3, <2>2
    <3> HIDE DEF acc, word, ws
    <3> QED BY Zenon, <1>1, <3>1, <3>2, BlankNoName
  <2> QED BY <2>1, <2>2
<1>5. Evaluation[Spelling[p]] = Evaluating("lookup", acc, <<>>)
  <2>1. Among(p, BraceAt(p), Spelt(p)) = bs
    BY Zenon, BracesAmong
  <2>2. Evaluation[Spelling[p]] = FrameOf(word, ws, bs)
    BY Zenon, <2>1, NamedFrame DEF WordTexts
  <2>3. FrameOf(word, ws, bs) = Evaluating("lookup", acc, <<>>)
    <3>1. word # Raw /\ word # Environment /\ word # Replace
      OBVIOUS
    <3> HIDE DEF word, ws, bs
    <3> QED BY Zenon, <3>1, OtherFrame
  <2> QED BY Zenon, <2>2, <2>3
<1>6. ASSUME NEW known \in Tables
      PROVE  OfParts(known, FALSE)[p] = Finish(known, "lookup", Then(Text(acc), InTurn(Ofs(known, <<>>))))
  <2>1. OfParts(known, FALSE)[p] = OfBraces(known, p.parts, Owns(known, p), FALSE)
    BY Zenon, OfPartsIs
  <2>2. OfBraces(known, p.parts, Owns(known, p), FALSE)
          = IF WordAt(p) = {} THEN OfName(known, word) ELSE Error
    <3>1. word \notin {<<"raw">>, <<"env">>, <<"replace">>}
      BY DEF Raw, Environment, Replace
    <3> HIDE DEF word
    <3> QED BY Zenon, <3>1, OfBracesIs DEF word
  <2>3. WordAt(p) = {} <=> ws = <<>>
    BY Zenon, WordsAmong
  <2>4. Then(Text(acc), InTurn(Ofs(known, <<>>))) = Text(acc)
    <3> HIDE DEF acc
    <3> QED BY Zenon, <1>4, WithoutBraces
  <2>5. Finish(known, "lookup", Text(acc)) = OfName(known, acc)
    <3> HIDE DEF acc
    <3> QED BY Zenon, FinishText
  <2>6. OfName(known, acc) = IF ws = <<>> THEN OfName(known, word) ELSE Error
    <3>1. CASE ws = <<>>
      <4>1. acc = word
        BY Zenon, <3>1
      <4> HIDE DEF acc, ws, word
      <4> QED BY Zenon, <3>1, <4>1
    <3>2. CASE ws # <<>>
      <4> HIDE DEF acc
      <4> QED BY Zenon, <1>4, <3>2
    <3> QED BY <3>1, <3>2
  <2> HIDE DEF acc, ws, word
  <2> QED BY Zenon, <2>1, <2>2, <2>3, <2>4, <2>5, <2>6
<1>7. BraceParts(p, <<>>) /\ SpeltOut(<<>>) = <<>>
  BY Zenon, NoParts
<1>8. "lookup" \in {"raw", "env", "lookup"}
  OBVIOUS
<1> HIDE DEF acc
<1>9. Means(p, "lookup", acc, <<>>)
  BY Zenon, <1>4, <1>5, <1>6, <1>7, <1>8 DEF Means
<1> QED BY <1>9

\* The frame of braces, continued, comes to what the braces stand for.
LEMMA EvaluationMeans ==
  ASSUME NEW p \in Part, ~ p.plain
  PROVE  \E kind, acc, qs : Means(p, kind, acc, qs)
<1>1. CASE ~ Named(p)
  <2>1. PICK acc \in Seq(Token) : /\ Evaluation[Spelling[p]] = Evaluating("lookup", acc, <<>>)
                                  /\ \A known \in Tables : OfName(known, acc) = Error
    BY Zenon, <1>1, NamelessFrame
  <2>2. ASSUME NEW known \in Tables
        PROVE  OfParts(known, FALSE)[p] = Finish(known, "lookup", Then(Text(acc), InTurn(Ofs(known, <<>>))))
    <3>1. OfParts(known, FALSE)[p] = Error
      <4>1. OfParts(known, FALSE)[p] = OfBraces(known, p.parts, Owns(known, p), FALSE)
        BY Zenon, OfPartsIs
      <4> DEFINE own == Owns(known, p)
      <4> HIDE DEF own
      <4>2. OfBraces(known, p.parts, own, FALSE) = Error
        BY Zenon, <1>1, OfBracesIs
      <4> QED BY Zenon, <4>1, <4>2 DEF own
    <3>2. Then(Text(acc), InTurn(Ofs(known, <<>>))) = Text(acc)
      BY Zenon, WithoutBraces
    <3> QED BY Zenon, <2>1, <3>1, <3>2, FinishText
  <2>3. BraceParts(p, <<>>) /\ SpeltOut(<<>>) = <<>> /\ "lookup" \in {"raw", "env", "lookup"}
    BY Zenon, NoParts
  <2>4. Means(p, "lookup", acc, <<>>)
    BY Zenon, <2>1, <2>2, <2>3 DEF Means
  <2> QED BY <2>4
<1>2. CASE Named(p)
  BY Zenon, <1>2, RawMeans, ArgumentMeans, OtherMeans
<1> QED BY <1>1, <1>2

----------------------------------------------------------------------------
(* More of the Fields known, more of what it comes to.                      *)

Extends(known, more) ==
  /\ known \in Tables /\ more \in Tables /\ DOMAIN more = DOMAIN known
  /\ \A name \in DOMAIN known : Further(known[name], more[name])

LEMMA TurnsFurther ==
  ASSUME NEW L \in Nat, NEW outs \in [1 .. L -> Outcome], NEW outs2 \in [1 .. L -> Outcome],
         \A i \in 1 .. L : Further(outs[i], outs2[i])
  PROVE  \A k \in 1 .. L + 1 : Further(TurnsFrom(outs)[k], TurnsFrom(outs2)[k])
<1> DEFINE f == TurnsFrom(outs)
           g == TurnsFrom(outs2)
           D == {m \in 0 .. L : Further(f[L + 1 - m], g[L + 1 - m])}
<1>1. /\ \A k \in 1 .. L + 1 : f[k] \in Outcome
      /\ \A k \in 1 .. L : f[k] = Then(outs[k], f[k + 1])
      /\ f[L + 1] = Text(<<>>)
  BY TurnsFromIs
<1>2. /\ \A k \in 1 .. L : g[k] = Then(outs2[k], g[k + 1])
      /\ g[L + 1] = Text(<<>>)
  BY TurnsFromIs
<1> HIDE DEF f, g
<1>3. 0 \in D
  <2>1. L + 1 - 0 = L + 1
    OBVIOUS
  <2>2. Further(f[L + 1], g[L + 1])
    BY <1>1, <1>2 DEF Further
  <2> QED BY <2>1, <2>2
<1>4. ASSUME NEW m \in 1 .. L, m - 1 \in D PROVE m \in D
  <2> DEFINE k == L + 1 - m
  <2>1. k \in 1 .. L /\ L + 1 - (m - 1) = k + 1 /\ k + 1 \in 1 .. L + 1 /\ m \in 0 .. L
    OBVIOUS
  <2>2. Further(f[L + 1 - (m - 1)], g[L + 1 - (m - 1)])
    BY Zenon, <1>4
  <2> HIDE DEF k
  <2>3. Further(f[k + 1], g[k + 1])
    BY Zenon, <2>1, <2>2
  <2>4. outs[k] \in Outcome /\ f[k + 1] \in Outcome /\ Further(outs[k], outs2[k])
    BY Zenon, <1>1, <2>1
  <2>5. Further(Then(outs[k], f[k + 1]), Then(outs2[k], g[k + 1]))
    BY Zenon, <2>3, <2>4, ThenFurther
  <2>6. Further(f[k], g[k])
    BY Zenon, <1>1, <1>2, <2>1, <2>5
  <2> QED BY <2>1, <2>6 DEF k
<1>5. D = 0 .. L
  <2>1. D \in SUBSET (0 .. L)
    OBVIOUS
  <2> HIDE DEF D
  <2> QED BY <1>3, <1>4, <2>1, UpToInduction
<1>6. ASSUME NEW k \in 1 .. L + 1 PROVE Further(f[k], g[k])
  <2>1. L + 1 - k \in 0 .. L /\ L + 1 - (L + 1 - k) = k
    OBVIOUS
  <2>2. L + 1 - k \in D
    BY Zenon, <1>5, <2>1
  <2>3. Further(f[L + 1 - (L + 1 - k)], g[L + 1 - (L + 1 - k)])
    BY Zenon, <2>2
  <2> QED BY Zenon, <2>1, <2>3
<1> QED BY <1>6 DEF f, g

LEMMA OfsType ==
  ASSUME NEW known \in Tables, NEW qs \in Seq(Part)
  PROVE  /\ Ofs(known, qs) \in [1 .. Len(qs) -> Outcome]
         /\ Ofs(known, qs) \in Seq(Outcome) /\ Len(qs) \in Nat /\ DOMAIN qs = 1 .. Len(qs)
         /\ \A i \in 1 .. Len(qs) : qs[i] \in Part /\ Ofs(known, qs)[i] = OfParts(known, FALSE)[qs[i]]
<1>1. Len(qs) \in Nat /\ DOMAIN qs = 1 .. Len(qs) /\ \A i \in 1 .. Len(qs) : qs[i] \in Part
  BY LenProperties, ElementOfSeq
<1>2. \A i \in 1 .. Len(qs) : OfParts(known, FALSE)[qs[i]] \in Outcome
  BY Zenon, <1>1, OfPartsIs
<1> DEFINE n == Len(qs)
           o == Ofs(known, qs)
<1>3. o = [i \in 1 .. n |-> OfParts(known, FALSE)[qs[i]]]
  BY Zenon, <1>1 DEF Ofs
<1> HIDE DEF o, n
<1>4. o \in [1 .. n -> Outcome]
  BY <1>2, <1>3 DEF n
<1>5. o \in Seq(Outcome)
  BY <1>1, <1>4 DEF n
<1>6. \A i \in 1 .. n : o[i] = OfParts(known, FALSE)[qs[i]]
  BY Zenon, <1>3
<1> QED BY Zenon, <1>1, <1>4, <1>5, <1>6 DEF o, n

LEMMA OfsFurther ==
  ASSUME NEW known, NEW more, Extends(known, more), NEW qs \in Seq(Part),
         \A i \in DOMAIN qs : Further(OfParts(known, FALSE)[qs[i]], OfParts(more, FALSE)[qs[i]])
  PROVE  /\ Further(InTurn(Ofs(known, qs)), InTurn(Ofs(more, qs)))
         /\ InTurn(Ofs(known, qs)) \in Outcome
<1> DEFINE L == Len(qs)
           o == Ofs(known, qs)
           o2 == Ofs(more, qs)
<1>1. known \in Tables /\ more \in Tables
  BY Zenon DEF Extends
<1>2. /\ L \in Nat /\ DOMAIN qs = 1 .. L
      /\ o \in [1 .. L -> Outcome] /\ \A i \in 1 .. L : o[i] = OfParts(known, FALSE)[qs[i]]
      /\ o2 \in [1 .. L -> Outcome] /\ \A i \in 1 .. L : o2[i] = OfParts(more, FALSE)[qs[i]]
      /\ o \in Seq(Outcome)
  BY Zenon, <1>1, OfsType
<1>3. \A i \in 1 .. L : Further(o[i], o2[i])
  BY Zenon, <1>2
<1>4. 1 \in 1 .. L + 1
  BY <1>2
<1> HIDE DEF L, o, o2
<1>5. Further(TurnsFrom(o)[1], TurnsFrom(o2)[1])
  BY Zenon, <1>2, <1>3, <1>4, TurnsFurther
<1>6. InTurn(o) \in Outcome
  BY Zenon, <1>2, InTurnType
<1> QED BY Zenon, <1>5, <1>6 DEF InTurn, o, o2

LEMMA FinishFurther ==
  ASSUME NEW known, NEW more, Extends(known, more), NEW kind, NEW x, NEW y, Further(x, y), x \in Outcome
  PROVE  Further(Finish(known, kind, x), Finish(more, kind, y))
<1>1. CASE x = Endless
  <2>1. Endless.is # "text"
    BY Zenon, Texts
  <2>2. Finish(known, kind, x) = Endless
    BY Zenon, <1>1, <2>1 DEF Finish
  <2> QED BY Zenon, <2>2 DEF Further
<1>2. CASE x # Endless
  <2>1. y = x
    BY Zenon, <1>2 DEF Further
  <2>2. \A name : Further(OfName(known, name), OfName(more, name))
    BY Zenon DEF Extends, OfName, Further
  <2>3. \A z : Further(z, z)
    BY Zenon DEF Further
  <2> QED BY Zenon, <2>1, <2>2, <2>3 DEF Finish
<1> QED BY <1>1, <1>2

\* Of more Fields known, more is known of every part.
LEMMA PartsFurther ==
  ASSUME NEW known, NEW more, Extends(known, more)
  PROVE  \A p \in Part : Further(OfParts(known, FALSE)[p], OfParts(more, FALSE)[p])
<1> DEFINE Good(p) == Further(OfParts(known, FALSE)[p], OfParts(more, FALSE)[p])
           D == {m \in 0 .. Nesting : \A p \in Part : Depth[p] <= m => Good(p)}
<1>1. known \in Tables /\ more \in Tables
  BY Zenon DEF Extends
<1>2. Nesting \in Nat /\ \A p \in Part : Depth[p] \in 0 .. Nesting
  BY DepthAssumption
<1>3. ASSUME NEW p \in Part, \A q \in Part : Depth[q] < Depth[p] => Good(q)
      PROVE  Good(p)
  <2>1. CASE p.plain
    <3>1. OfParts(known, FALSE)[p] = OfParts(more, FALSE)[p]
      BY Zenon, <1>1, <2>1, OfPartsIs
    <3> QED BY Zenon, <3>1 DEF Further
  <2>2. CASE ~ p.plain
    <3>1. PICK kind, acc, qs : Means(p, kind, acc, qs)
      BY Zenon, <2>2, EvaluationMeans
    <3>2. acc \in Seq(Token) /\ BraceParts(p, qs)
      BY Zenon, <3>1 DEF Means
    <3>3. qs \in Seq(Part) /\ \A i \in DOMAIN qs : Depth[qs[i]] < Depth[p]
      BY Zenon, <3>2 DEF BraceParts
    <3>4. \A i \in DOMAIN qs : qs[i] \in Part
      BY Zenon, <1>1, <3>3, OfsType
    <3>5. \A i \in DOMAIN qs : Further(OfParts(known, FALSE)[qs[i]], OfParts(more, FALSE)[qs[i]])
      BY Zenon, <1>3, <3>3, <3>4
    <3> DEFINE x == InTurn(Ofs(known, qs))
               y == InTurn(Ofs(more, qs))
               t == Text(acc)
    <3>6. Further(x, y) /\ x \in Outcome
      BY Zenon, <3>3, <3>5, OfsFurther
    <3>7. t \in Outcome /\ Further(t, t)
      BY Zenon, <3>2, OutcomesAre DEF Further
    <3> HIDE DEF x, y, t
    <3>8. Further(Then(t, x), Then(t, y)) /\ Then(t, x) \in Outcome
      BY Zenon, <3>6, <3>7, ThenFurther, ThenType
    <3>9. Further(Finish(known, kind, Then(t, x)), Finish(more, kind, Then(t, y)))
      BY Zenon, <3>8, FinishFurther
    <3>10. /\ OfParts(known, FALSE)[p] = Finish(known, kind, Then(t, x))
           /\ OfParts(more, FALSE)[p] = Finish(more, kind, Then(t, y))
      BY Zenon, <1>1, <3>1 DEF Means, t, x, y
    <3> QED BY Zenon, <3>9, <3>10
  <2> QED BY <2>1, <2>2
<1> HIDE DEF Good
<1>4. 0 \in D
  <2>1. ASSUME NEW p \in Part, Depth[p] <= 0 PROVE Good(p)
    <3>1. \A q \in Part : ~ (Depth[q] < Depth[p])
      BY <1>2, <2>1
    <3> QED BY <1>3, <3>1
  <2> QED BY <1>2, <2>1
<1>5. ASSUME NEW m \in 1 .. Nesting, m - 1 \in D PROVE m \in D
  <2>1. ASSUME NEW p \in Part, Depth[p] <= m PROVE Good(p)
    <3>1. \A q \in Part : Depth[q] < Depth[p] => Depth[q] <= m - 1
      BY <1>2, <2>1
    <3>2. \A q \in Part : Depth[q] <= m - 1 => Good(q)
      BY Zenon, <1>5
    <3> QED BY <1>3, <3>1, <3>2
  <2> QED BY <1>2, <2>1
<1>6. D = 0 .. Nesting
  <2>1. D \in SUBSET (0 .. Nesting)
    OBVIOUS
  <2> HIDE DEF D
  <2> QED BY <1>2, <1>4, <1>5, <2>1, UpToInduction
<1>7. Nesting \in D
  <2>1. Nesting \in 0 .. Nesting
    BY <1>2
  <2> QED BY Zenon, <1>6, <2>1
<1>8. \A p \in Part : Good(p)
  BY <1>2, <1>7
<1> QED BY <1>8 DEF Good

\* A brace that is left open is an error.
EndOf(n) == IF n.tail = <<>> THEN Text(<<>>) ELSE Error

\* What a value stands for.
LEMMA OfTreeIs ==
  ASSUME NEW known \in Tables, NEW n \in Trees
  PROVE  /\ OfTree(known, n, FALSE) = Then(InTurn(Ofs(known, n.parts)), EndOf(n))
         /\ InTurn(Ofs(known, n.parts)) \in Outcome /\ EndOf(n) \in Outcome
         /\ OfTree(known, n, FALSE) \in Outcome
         /\ n.parts \in Seq(Part) /\ n.tail \in Seq(Token) /\ Open(n.tail)
<1>1. n.parts \in Seq(Part) /\ n.tail \in {t \in Seq(Token) : Open(t)}
  BY DEF Trees
<1>2. n.tail \in Seq(Token) /\ Open(n.tail)
  BY Zenon, <1>1
<1>3. EndOf(n) \in Outcome
  <2>1. <<>> \in Seq(Token)
    OBVIOUS
  <2> QED BY Zenon, <2>1, OutcomesAre DEF EndOf
<1>4. Ofs(known, n.parts) \in Seq(Outcome)
  BY Zenon, <1>1, OfsType
<1>5. InTurn(Ofs(known, n.parts)) \in Outcome
  BY Zenon, <1>4, InTurnType
<1>6. OfTree(known, n, FALSE) = Then(InTurn(Ofs(known, n.parts)), EndOf(n))
  BY Zenon DEF OfTree, Ofs, EndOf
<1>7. OfTree(known, n, FALSE) \in Outcome
  BY Zenon, <1>3, <1>5, <1>6, ThenType
<1> QED BY Zenon, <1>1, <1>2, <1>3, <1>5, <1>6, <1>7

\* Of more Fields known, more is known of every value.
LEMMA TreeFurther ==
  ASSUME NEW known, NEW more, Extends(known, more), NEW n \in Trees
  PROVE  Further(OfTree(known, n, FALSE), OfTree(more, n, FALSE))
<1> DEFINE x == InTurn(Ofs(known, n.parts))
           y == InTurn(Ofs(more, n.parts))
           e == EndOf(n)
<1>1. known \in Tables /\ more \in Tables
  BY Zenon DEF Extends
<1>2. /\ OfTree(known, n, FALSE) = Then(x, e) /\ OfTree(more, n, FALSE) = Then(y, e)
      /\ x \in Outcome /\ e \in Outcome /\ n.parts \in Seq(Part)
  BY Zenon, <1>1, OfTreeIs
<1>3. \A i \in DOMAIN n.parts : n.parts[i] \in Part
  BY Zenon, <1>1, <1>2, OfsType
<1>4. \A i \in DOMAIN n.parts : Further(OfParts(known, FALSE)[n.parts[i]], OfParts(more, FALSE)[n.parts[i]])
  BY Zenon, <1>3, PartsFurther
<1>5. Further(x, y)
  BY Zenon, <1>2, <1>4, OfsFurther
<1>6. Further(e, e)
  BY Zenon DEF Further
<1> HIDE DEF x, y, e
<1> QED BY Zenon, <1>2, <1>5, <1>6, ThenFurther

----------------------------------------------------------------------------
(* What the Fields stand for, step by step.                                 *)

AllFields == UNION {[D -> Value] : D \in SUBSET Name}
Step(fields, known) == [name \in DOMAIN fields |-> OfTree(known, Tree[fields[name]], FALSE)]
Nowhere(fields) == [name \in DOMAIN fields |-> Endless]

LEMMA FieldsAre ==
  ASSUME NEW fields \in AllFields
  PROVE  /\ DOMAIN fields \subseteq Name
         /\ \A name \in DOMAIN fields : fields[name] \in Value /\ Tree[fields[name]] \in Trees
                                        /\ Spelled(Tree[fields[name]]) = fields[name]
<1>1. PICK D \in SUBSET Name : fields \in [D -> Value]
  BY DEF AllFields
<1>2. DOMAIN fields = D /\ \A name \in D : fields[name] \in Value
  BY <1>1
<1>3. \A v \in Value : Tree[v] \in Trees /\ Spelled(Tree[v]) = v
  <2>1. Tree \in [Value -> Trees] /\ \A v \in Value : Spelled(Tree[v]) = v
    BY Zenon, TreeAssumption
  <2> HIDE DEF Trees
  <2> QED BY <2>1
<1> QED BY Zenon, <1>1, <1>2, <1>3

LEMMA StepType ==
  ASSUME NEW fields \in AllFields, NEW known \in [DOMAIN fields -> Outcome]
  PROVE  /\ known \in Tables
         /\ Step(fields, known) \in [DOMAIN fields -> Outcome]
<1>1. known \in Tables
  BY FieldsAre DEF Tables
<1>2. \A name \in DOMAIN fields : OfTree(known, Tree[fields[name]], FALSE) \in Outcome
  BY Zenon, <1>1, FieldsAre, OfTreeIs
<1> QED BY <1>1, <1>2 DEF Step

\* Counting down ends at zero.
LEMMA DownGrounds == ASSUME NEW par, par = [n \in Nat |-> IF n = 0 THEN 0 ELSE n - 1]
                     PROVE  Grounded(Nat, {0}, par)
<1>1. ASSUME NEW D \in SUBSET Nat, \A m \in Nat : m \in {0} \/ par[m] \in D => m \in D, D # Nat PROVE FALSE
  <2> DEFINE T == Nat \ D
  <2>1. T \subseteq Nat /\ T # {}
    BY <1>1
  <2>2. PICK x \in T : \A y \in T : x <= y
    <3> HIDE DEF T
    <3> QED BY <2>1, LeastElement
  <2>3. x \in Nat /\ x \notin D
    OBVIOUS
  <2>4. x # 0
    BY <1>1, <2>3
  <2>5. x - 1 \in Nat /\ x - 1 \in D
    <3>1. x - 1 \in Nat /\ ~ (x <= x - 1)
      BY <2>3, <2>4
    <3> QED BY <2>2, <3>1
  <2>6. par[x] = x - 1
    BY <2>3, <2>4
  <2> QED BY <1>1, <2>3, <2>5, <2>6
<1> QED BY <1>1 DEF Grounded

\* What is known after a step, by what was known before.
LEMMA WithinIs ==
  ASSUME NEW fields \in AllFields
  PROVE  /\ \A n \in Nat : Within(fields, FALSE)[n] \in [DOMAIN fields -> Outcome]
         /\ Within(fields, FALSE)[0] = Nowhere(fields)
         /\ \A n \in Nat : Within(fields, FALSE)[n + 1] = Step(fields, Within(fields, FALSE)[n])
<1> DEFINE S == [DOMAIN fields -> Outcome]
           Made(n, w) == [name \in DOMAIN fields |->
                            IF n = 0 THEN Endless ELSE OfTree(w, Tree[fields[name]], FALSE)]
           Is(f) == f = [n \in Nat |-> Made(n, f[n - 1])]
           par == [n \in Nat |-> IF n = 0 THEN 0 ELSE n - 1]
           b == [n \in Nat |-> Nowhere(fields)]
           st == [n \in Nat |-> [w \in S |-> Step(fields, w)]]
           g == Within(fields, FALSE)
<1>1. Nowhere(fields) \in S
  BY OutcomesAre DEF Nowhere
<1>2. \A w \in S : Step(fields, w) \in S
  BY StepType
<1>3. \A n \in Nat : \A w : Made(n, w) = IF n = 0 THEN Nowhere(fields) ELSE Step(fields, w)
  BY Zenon DEF Nowhere, Step
<1> HIDE DEF S, Made
<1>4. PICK f \in [Nat -> S] : Solves(f, Nat, {0}, par, b, st)
  <2>1. par \in [Nat -> Nat] /\ b \in [Nat -> S] /\ st \in [Nat -> [S -> S]]
    BY <1>1, <1>2
  <2>2. Grounded(Nat, {0}, par)
    BY Zenon, DownGrounds
  <2>3. {0} \in SUBSET Nat
    OBVIOUS
  <2> HIDE DEF par, b, st
  <2> QED BY <2>1, <2>2, <2>3, RecursiveFunction
<1>5. Is(f)
  <2>1. f = [n \in Nat |-> IF n \in {0} THEN b[n] ELSE st[n][f[par[n]]]]
    BY Zenon, <1>4 DEF Solves
  <2>2. ASSUME NEW n \in Nat PROVE (IF n \in {0} THEN b[n] ELSE st[n][f[par[n]]]) = Made(n, f[n - 1])
    <3>1. CASE n = 0
      <4>1. b[n] = Nowhere(fields)
        OBVIOUS
      <4> HIDE DEF b, st, par
      <4> QED BY <1>3, <3>1, <4>1
    <3>2. CASE n # 0
      <4>1. par[n] = n - 1 /\ n - 1 \in Nat
        BY <3>2
      <4>2. f[n - 1] \in S
        BY <4>1
      <4>3. st[n] = [w \in S |-> Step(fields, w)]
        OBVIOUS
      <4> HIDE DEF b, st, par
      <4>4. st[n][f[n - 1]] = Step(fields, f[n - 1])
        BY <4>2, <4>3
      <4> QED BY <1>3, <3>2, <4>1, <4>4
    <3> QED BY <3>1, <3>2
  <2> HIDE DEF b, st, par
  <2> QED BY <2>1, <2>2
<1>6. Is(g)
  <2>1. g = CHOOSE h : Is(h)
    BY Zenon DEF Within, Made
  <2> HIDE DEF Is, g
  <2> QED BY <1>5, <2>1
<1> HIDE DEF g
<1>7. g[0] = Nowhere(fields) /\ \A n \in Nat : g[n + 1] = Step(fields, g[n])
  <2>1. \A n \in Nat : g[n] = Made(n, g[n - 1])
    BY <1>6
  <2>2. g[0] = Nowhere(fields)
    BY <1>3, <2>1
  <2>3. ASSUME NEW n \in Nat PROVE g[n + 1] = Step(fields, g[n])
    <3>1. n + 1 \in Nat /\ n + 1 # 0 /\ (n + 1) - 1 = n
      OBVIOUS
    <3> QED BY <1>3, <2>1, <3>1
  <2> QED BY <2>2, <2>3
<1>8. ASSUME NEW n \in Nat PROVE g[n] \in S
  <2> DEFINE D == {m \in 0 .. n : g[m] \in S}
  <2>1. 0 \in D
    BY <1>1, <1>7
  <2>2. ASSUME NEW m \in 1 .. n, m - 1 \in D PROVE m \in D
    <3>1. m - 1 \in Nat /\ (m - 1) + 1 = m /\ m \in 0 .. n
      OBVIOUS
    <3>2. g[m - 1] \in S
      BY <2>2
    <3>3. g[(m - 1) + 1] = Step(fields, g[m - 1])
      BY Zenon, <1>7, <3>1
    <3>4. g[m] \in S
      BY Zenon, <1>2, <3>1, <3>2, <3>3
    <3> QED BY <3>1, <3>4
  <2>3. D = 0 .. n
    <3>1. D \in SUBSET (0 .. n)
      OBVIOUS
    <3> HIDE DEF D
    <3> QED BY <2>1, <2>2, <3>1, UpToInduction
  <2>4. n \in D
    <3>1. n \in 0 .. n
      OBVIOUS
    <3> QED BY Zenon, <2>3, <3>1
  <2> QED BY <2>4
<1> QED BY <1>7, <1>8 DEF S, g

\* What is known stays known.
LEMMA StepFurther ==
  ASSUME NEW fields \in AllFields, NEW known \in [DOMAIN fields -> Outcome],
         NEW more \in [DOMAIN fields -> Outcome],
         \A name \in DOMAIN fields : Further(known[name], more[name])
  PROVE  \A name \in DOMAIN fields : Further(Step(fields, known)[name], Step(fields, more)[name])
<1>1. Extends(known, more)
  BY StepType DEF Extends
<1>2. \A name \in DOMAIN fields :
        Further(OfTree(known, Tree[fields[name]], FALSE), OfTree(more, Tree[fields[name]], FALSE))
  BY Zenon, <1>1, FieldsAre, TreeFurther
<1> QED BY Zenon, <1>2 DEF Step

\* The Fields of which it is known what they stand for.
Known(fields, n) == {name \in DOMAIN fields : Within(fields, FALSE)[n][name] # Endless}

\* A step that finds out nothing is the last that does.
LEMMA KnownGrows ==
  ASSUME NEW fields \in AllFields, NEW n \in Nat
  PROVE  /\ \A name \in DOMAIN fields :
              Further(Within(fields, FALSE)[n][name], Within(fields, FALSE)[n + 1][name])
         /\ Known(fields, n) \subseteq Known(fields, n + 1)
         /\ Known(fields, n) = Known(fields, n + 1)
              => Within(fields, FALSE)[n + 1] = Within(fields, FALSE)[n]
<1> DEFINE w == Within(fields, FALSE)
           E == DOMAIN fields
           D == {m \in 0 .. n : \A name \in E : Further(w[m][name], w[m + 1][name])}
<1>1. /\ \A m \in Nat : w[m] \in [E -> Outcome] /\ w[m + 1] = Step(fields, w[m])
      /\ w[0] = Nowhere(fields)
  BY Zenon, WithinIs
<1> HIDE DEF w
<1>2. 0 \in D
  <2>1. \A name \in E : w[0][name] = Endless
    BY <1>1 DEF Nowhere
  <2>2. \A name \in E : Further(w[0][name], w[0 + 1][name])
    BY Zenon, <2>1 DEF Further
  <2> QED BY <2>2
<1>3. ASSUME NEW m \in 1 .. n, m - 1 \in D PROVE m \in D
  <2>1. m - 1 \in Nat /\ (m - 1) + 1 = m /\ m \in 0 .. n /\ m \in Nat
    OBVIOUS
  <2>2. \A name \in E : Further(w[m - 1][name], w[m][name])
    BY <1>3, <2>1
  <2>3. w[m - 1] \in [E -> Outcome] /\ w[m] \in [E -> Outcome]
    BY <1>1, <2>1
  <2>4. w[m] = Step(fields, w[m - 1]) /\ w[m + 1] = Step(fields, w[m])
    <3>1. w[(m - 1) + 1] = Step(fields, w[m - 1]) /\ w[m + 1] = Step(fields, w[m])
      BY Zenon, <1>1, <2>1
    <3> QED BY Zenon, <2>1, <3>1
  <2>5. \A name \in E : Further(Step(fields, w[m - 1])[name], Step(fields, w[m])[name])
    BY Zenon, <2>2, <2>3, StepFurther
  <2>6. \A name \in E : Further(w[m][name], w[m + 1][name])
    BY Zenon, <2>4, <2>5
  <2> QED BY <2>1, <2>6
<1>4. D = 0 .. n
  <2>1. D \in SUBSET (0 .. n)
    OBVIOUS
  <2> HIDE DEF D
  <2> QED BY <1>2, <1>3, <2>1, UpToInduction
<1>5. \A name \in E : Further(w[n][name], w[n + 1][name])
  <2>1. n \in 0 .. n
    OBVIOUS
  <2>2. n \in D
    BY Zenon, <1>4, <2>1
  <2> QED BY <2>2
<1>6. Known(fields, n) \subseteq Known(fields, n + 1)
  <2>1. \A name \in E : w[n][name] # Endless => w[n + 1][name] = w[n][name]
    BY Zenon, <1>5 DEF Further
  <2> QED BY Zenon, <2>1 DEF Known, w
<1>7. ASSUME Known(fields, n) = Known(fields, n + 1) PROVE w[n + 1] = w[n]
  <2>1. ASSUME NEW name \in E PROVE w[n + 1][name] = w[n][name]
    <3>1. w[n][name] = Endless <=> w[n + 1][name] = Endless
      BY Zenon, <1>7 DEF Known, w
    <3>2. w[n][name] # Endless => w[n + 1][name] = w[n][name]
      BY Zenon, <1>5 DEF Further
    <3> QED BY <3>1, <3>2
  <2>2. w[n] \in [E -> Outcome] /\ w[n + 1] \in [E -> Outcome]
    <3>1. n + 1 \in Nat
      OBVIOUS
    <3> QED BY <1>1, <3>1
  <2> QED BY <2>1, <2>2
<1> QED BY <1>5, <1>6, <1>7 DEF w

\* After as many steps as there are names there is nothing left to find out.
LEMMA Settled ==
  ASSUME NEW fields \in AllFields
  PROVE  Step(fields, Within(fields, FALSE)[Cardinality(Name)]) = Within(fields, FALSE)[Cardinality(Name)]
<1> DEFINE w == Within(fields, FALSE)
           C == Cardinality(Name)
           E == DOMAIN fields
           K(n) == Known(fields, n)
           D == {n \in 0 .. C : w[n + 1] = w[n] \/ Cardinality(K(n)) >= n}
<1>1. IsFiniteSet(Name) /\ C \in Nat /\ E \subseteq Name
  BY StackAssumption, FS_CardinalityType, FieldsAre
<1>2. \A n \in Nat : w[n + 1] = Step(fields, w[n])
  BY Zenon, WithinIs
<1>3. ASSUME NEW n \in Nat PROVE IsFiniteSet(K(n)) /\ K(n) \subseteq E /\ Cardinality(K(n)) \in Nat
                                  /\ Cardinality(K(n)) <= C
  <2>1. K(n) \subseteq E
    BY DEF Known
  <2>2. K(n) \subseteq Name
    BY <1>1, <2>1
  <2>3. IsFiniteSet(K(n)) /\ Cardinality(K(n)) <= C
    BY <1>1, <2>2, FS_Subset
  <2> QED BY <2>1, <2>3, FS_CardinalityType
<1>4. ASSUME NEW n \in Nat
      PROVE  K(n) \subseteq K(n + 1) /\ (K(n) = K(n + 1) => w[n + 1] = w[n])
  BY Zenon, KnownGrows
<1> HIDE DEF w, K, C
<1>5. 0 \in D
  BY <1>1, <1>3
<1>6. ASSUME NEW n \in 1 .. C, n - 1 \in D PROVE n \in D
  <2> DEFINE m == n - 1
  <2>1. m \in Nat /\ m + 1 = n /\ n \in 0 .. C /\ n \in Nat
    OBVIOUS
  <2>2. w[m + 1] = w[m] \/ Cardinality(K(m)) >= m
    BY <1>6
  <2> HIDE DEF m
  <2>3. CASE w[m + 1] = w[m]
    <3>1. w[n + 1] = Step(fields, w[n]) /\ w[m + 1] = Step(fields, w[m])
      BY Zenon, <1>2, <2>1
    <3>2. w[n + 1] = w[n]
      BY Zenon, <2>1, <2>3, <3>1
    <3> QED BY <2>1, <3>2
  <2>4. CASE w[m + 1] # w[m]
    <3>1. K(m) \subseteq K(n) /\ K(m) # K(n)
      BY <1>4, <2>1, <2>4
    <3>2. Cardinality(K(m)) < Cardinality(K(n))
      <4>1. IsFiniteSet(K(n)) /\ IsFiniteSet(K(m))
        BY <1>3, <2>1
      <4> DEFINE A == K(m)
                 B == K(n)
      <4>2. A \in SUBSET B /\ A # B /\ IsFiniteSet(A) /\ IsFiniteSet(B)
        BY <3>1, <4>1
      <4> HIDE DEF A, B
      <4>3. Cardinality(A) <= Cardinality(B) /\ Cardinality(A) # Cardinality(B)
        BY <4>2, FS_Subset
      <4>4. Cardinality(A) \in Nat /\ Cardinality(B) \in Nat
        BY <4>2, FS_CardinalityType
      <4>5. Cardinality(A) < Cardinality(B)
        BY <4>3, <4>4
      <4> QED BY <4>5 DEF A, B
    <3>3. Cardinality(K(m)) \in Nat /\ Cardinality(K(n)) \in Nat
      BY <1>3, <2>1
    <3>4. Cardinality(K(n)) >= n
      BY <2>1, <2>2, <2>4, <3>2, <3>3
    <3> QED BY <2>1, <3>4
  <2> QED BY <2>3, <2>4
<1>7. D = 0 .. C
  <2>1. D \in SUBSET (0 .. C)
    OBVIOUS
  <2> HIDE DEF D
  <2> QED BY <1>1, <1>5, <1>6, <2>1, UpToInduction
<1>8. w[C + 1] = w[C] \/ Cardinality(K(C)) >= C
  <2>1. C \in 0 .. C
    BY <1>1
  <2>2. C \in D
    BY Zenon, <1>7, <2>1
  <2> QED BY <2>2
<1>9. ASSUME Cardinality(K(C)) >= C PROVE w[C + 1] = w[C]
  <2>1. K(C) \subseteq Name /\ Cardinality(K(C)) = Cardinality(Name)
    BY <1>1, <1>3, <1>9 DEF C
  <2>2. K(C) = Name
    BY <1>1, <2>1, FS_Subset
  <2>3. K(C + 1) \subseteq E /\ K(C) \subseteq K(C + 1)
    BY <1>1, <1>3, <1>4
  <2>4. K(C) = K(C + 1)
    BY <1>1, <2>2, <2>3
  <2> QED BY <1>1, <1>4, <2>4
<1>10. w[C + 1] = w[C]
  BY <1>8, <1>9
<1>11. Step(fields, w[C]) = w[C]
  BY Zenon, <1>1, <1>2, <1>10
<1> QED BY <1>11 DEF w, C

----------------------------------------------------------------------------
(* The text of a tree from its k-th part on, and what it stands for.        *)

Tails(n) == [i \in 1 .. Len(n.parts) + 1 |-> IF i > Len(n.parts) THEN n.tail ELSE <<>>]
TextFrom(n) == LaidFrom(SpeltOut(n.parts), Tails(n))
RestOf(known, n, k) == Then(TurnsFrom(Ofs(known, n.parts))[k], EndOf(n))

\* The text of a tree, part by part.
LEMMA TextFromIs ==
  ASSUME NEW n \in Trees
  PROVE  /\ n.parts \in Seq(Part) /\ n.tail \in Seq(Token) /\ Open(n.tail)
         /\ Len(n.parts) \in Nat
         /\ \A k \in 1 .. Len(n.parts) : n.parts[k] \in Part /\ Spelling[n.parts[k]] \in Seq(Token)
         /\ \A k \in 1 .. Len(n.parts) + 1 : TextFrom(n)[k] \in Seq(Token)
         /\ \A k \in 1 .. Len(n.parts) :
              TextFrom(n)[k] = Spelling[n.parts[k]] \o TextFrom(n)[k + 1]
         /\ TextFrom(n)[Len(n.parts) + 1] = n.tail
         /\ TextFrom(n)[1] = Spelled(n)
<1> DEFINE L == Len(n.parts)
           t == TextFrom(n)
           s == SpeltOut(n.parts)
           g == Tails(n)
<1>1. n.parts \in Seq(Part) /\ n.tail \in {u \in Seq(Token) : Open(u)}
  BY DEF Trees
<1>2. n.tail \in Seq(Token) /\ Open(n.tail)
  BY Zenon, <1>1
<1>3. L \in Nat /\ DOMAIN n.parts = 1 .. L /\ \A k \in 1 .. L : n.parts[k] \in Part
  BY <1>1, LenProperties, ElementOfSeq
<1>4. \A k \in 1 .. L : Spelling[n.parts[k]] \in Seq(Token)
  BY Zenon, <1>3, SpellingIs
<1>5. s = [k \in 1 .. L |-> Spelling[n.parts[k]]]
  BY Zenon, <1>3 DEF SpeltOut
<1>6. g = [i \in 1 .. L + 1 |-> IF i > L THEN n.tail ELSE <<>>]
  BY Zenon DEF Tails
<1> HIDE DEF s, g, L
<1>7. s \in [1 .. L -> Seq(Token)] /\ \A k \in 1 .. L : s[k] = Spelling[n.parts[k]]
  BY <1>4, <1>5
<1>8. <<>> \in Seq(Token)
  OBVIOUS
<1>9. g \in [1 .. L + 1 -> Seq(Token)] /\ g[L + 1] = n.tail /\ \A k \in 1 .. L : g[k] = <<>>
  BY <1>2, <1>3, <1>6, <1>8
<1>10. t = LaidFrom(s, g)
  BY Zenon DEF TextFrom, s, g
<1> HIDE DEF t
<1>11. /\ \A k \in 1 .. L + 1 : t[k] \in Seq(Token)
       /\ \A k \in 1 .. L : t[k] = g[k] \o s[k] \o t[k + 1]
       /\ t[L + 1] = g[L + 1]
  BY Zenon, <1>3, <1>7, <1>9, <1>10, LaidFromIs
<1>12. ASSUME NEW k \in 1 .. L PROVE t[k] = Spelling[n.parts[k]] \o t[k + 1]
  <2> DEFINE a == s[k]
             b == t[k + 1]
  <2>1. k + 1 \in 1 .. L + 1
    BY <1>3
  <2>2. a \in Seq(Token) /\ b \in Seq(Token)
    BY <1>7, <1>11, <2>1
  <2>3. t[k] = <<>> \o a \o b
    BY <1>9, <1>11
  <2> HIDE DEF a, b
  <2>4. <<>> \o a \o b = a \o b
    BY <2>2
  <2>5. a = Spelling[n.parts[k]]
    BY <1>7 DEF a
  <2> QED BY Zenon, <2>3, <2>4, <2>5 DEF b
<1>13. t[1] = Spelled(n)
  BY Zenon, <1>10 DEF Spelled, Laid, s, g, L, SpeltOut, Tails
<1>14. t[L + 1] = n.tail
  BY Zenon, <1>9, <1>11
<1> QED BY Zenon, <1>1, <1>2, <1>3, <1>4, <1>11, <1>12, <1>13, <1>14 DEF t, L

\* What it stands for, part by part.
LEMMA RestOfIs ==
  ASSUME NEW known \in Tables, NEW n \in Trees
  PROVE  /\ \A k \in 1 .. Len(n.parts) + 1 : RestOf(known, n, k) \in Outcome
         /\ \A k \in 1 .. Len(n.parts) :
              /\ OfParts(known, FALSE)[n.parts[k]] \in Outcome
              /\ RestOf(known, n, k) = Then(OfParts(known, FALSE)[n.parts[k]], RestOf(known, n, k + 1))
         /\ RestOf(known, n, Len(n.parts) + 1) = EndOf(n)
         /\ RestOf(known, n, 1) = OfTree(known, n, FALSE)
<1> DEFINE L == Len(n.parts)
           o == Ofs(known, n.parts)
           f == TurnsFrom(o)
           e == EndOf(n)
<1>1. /\ e \in Outcome /\ n.parts \in Seq(Part)
      /\ OfTree(known, n, FALSE) = Then(InTurn(o), e)
  BY Zenon, OfTreeIs
<1>2. /\ o \in [1 .. L -> Outcome] /\ L \in Nat
      /\ \A k \in 1 .. L : o[k] = OfParts(known, FALSE)[n.parts[k]]
  BY Zenon, <1>1, OfsType
<1> HIDE DEF L, o
<1>3. /\ \A k \in 1 .. L + 1 : f[k] \in Outcome
      /\ \A k \in 1 .. L : f[k] = Then(o[k], f[k + 1])
      /\ f[L + 1] = Text(<<>>)
  BY Zenon, <1>2, TurnsFromIs
<1>4. \A k : RestOf(known, n, k) = Then(f[k], e)
  BY Zenon DEF RestOf, o
<1>5. RestOf(known, n, 1) = OfTree(known, n, FALSE)
  BY Zenon, <1>1, <1>4 DEF InTurn
<1> HIDE DEF f, e
<1>6. \A k \in 1 .. L + 1 : RestOf(known, n, k) \in Outcome
  BY Zenon, <1>1, <1>3, <1>4, ThenType
<1>7. ASSUME NEW k \in 1 .. L
      PROVE  /\ OfParts(known, FALSE)[n.parts[k]] \in Outcome
             /\ RestOf(known, n, k) = Then(OfParts(known, FALSE)[n.parts[k]], RestOf(known, n, k + 1))
  <2>1. k + 1 \in 1 .. L + 1
    BY <1>2
  <2>2. o[k] \in Outcome
    BY <1>2
  <2>3. Then(Then(o[k], f[k + 1]), e) = Then(o[k], Then(f[k + 1], e))
    BY Zenon, <1>1, <1>3, <2>1, <2>2, ThenAssociative
  <2> QED BY Zenon, <1>2, <1>3, <1>4, <2>2, <2>3
<1>8. RestOf(known, n, L + 1) = EndOf(n)
  BY Zenon, <1>1, <1>3, <1>4, ThenNothing DEF e
<1> QED BY Zenon, <1>5, <1>6, <1>7, <1>8 DEF L

\* How a text goes on: to a brace, to one that is not closed, or to its end.
ToBrace(n, k, w, m) ==
  /\ m \in k .. Len(n.parts) /\ n.parts[m] \in Part /\ ~ n.parts[m].plain
  /\ TextFrom(n)[k] = w \o (Spelling[n.parts[m]] \o TextFrom(n)[m + 1])
  /\ \A known \in Tables :
       RestOf(known, n, k)
         = Then(Text(w), Then(OfParts(known, FALSE)[n.parts[m]], RestOf(known, n, m + 1)))
ToTail(n, k, w) ==
  /\ n.tail # <<>> /\ TextFrom(n)[k] = w \o n.tail
  /\ \A known \in Tables : RestOf(known, n, k) = Error
ToEnd(n, k, w) ==
  /\ TextFrom(n)[k] = w
  /\ \A known \in Tables : RestOf(known, n, k) = Text(w)
GoesOn(n, k) ==
  \E w \in Seq(Unopened) : (\E m : ToBrace(n, k, w, m)) \/ ToTail(n, k, w) \/ ToEnd(n, k, w)

LEMMA UnopenedText == ASSUME NEW w \in Seq(Unopened) PROVE w \in Seq(Token)
<1>1. Unopened \subseteq Token
  BY Marks
<1> HIDE DEF Unopened
<1> QED BY <1>1

LEMMA NoText ==
  /\ <<>> \in Seq(Unopened) /\ <<>> \in Seq(Token)
  /\ \A s \in Seq(Token) : <<>> \o s = s
<1> HIDE DEF Unopened
<1>1. <<>> \in Seq(Unopened) /\ <<>> \in Seq(Token)
  OBVIOUS
<1>2. \A s \in Seq(Token) : <<>> \o s = s
  OBVIOUS
<1> QED BY <1>1, <1>2

\* From each place on, a text goes on to a brace, to one that is left open, or to its
\* end.
LEMMA AheadStep ==
  ASSUME NEW n \in Trees, NEW k \in 1 .. Len(n.parts), GoesOn(n, k + 1) PROVE GoesOn(n, k)
<1> DEFINE L == Len(n.parts)
           p == n.parts[k]
           t == TextFrom(n)
<1>1. /\ L \in Nat /\ p \in Part /\ Spelling[p] \in Seq(Token)
      /\ t[k] = Spelling[p] \o t[k + 1]
      /\ \A i \in 1 .. L + 1 : t[i] \in Seq(Token)
      /\ \A i \in 1 .. L : n.parts[i] \in Part /\ Spelling[n.parts[i]] \in Seq(Token)
      /\ n.tail \in Seq(Token)
  BY Zenon, TextFromIs
<1>2. \A known \in Tables :
        /\ OfParts(known, FALSE)[p] \in Outcome
        /\ RestOf(known, n, k) = Then(OfParts(known, FALSE)[p], RestOf(known, n, k + 1))
        /\ \A i \in 1 .. L + 1 : RestOf(known, n, i) \in Outcome
        /\ \A i \in 1 .. L : OfParts(known, FALSE)[n.parts[i]] \in Outcome
  BY Zenon, RestOfIs
<1>3. k \in k .. L /\ k + 1 \in 1 .. L + 1 /\ k \in 1 .. L + 1 /\ k \in Nat
  BY <1>1
<1>4. CASE ~ p.plain
  <2>1. t[k] = <<>> \o (Spelling[p] \o t[k + 1])
    <3> DEFINE a == Spelling[p] \o t[k + 1]
    <3>1. a \in Seq(Token)
      BY Zenon, <1>1, <1>3
    <3>2. a = <<>> \o a
      BY Zenon, <3>1, NoText
    <3>3. t[k] = a
      BY Zenon, <1>1
    <3> HIDE DEF a
    <3>4. t[k] = <<>> \o a
      BY Zenon, <3>2, <3>3
    <3> QED BY <3>4 DEF a
  <2>2. ASSUME NEW known \in Tables
        PROVE  RestOf(known, n, k)
                 = Then(Text(<<>>), Then(OfParts(known, FALSE)[p], RestOf(known, n, k + 1)))
    <3>1. RestOf(known, n, k) \in Outcome
      <4>1. k \in 1 .. L + 1
        BY <1>1
      <4> QED BY Zenon, <1>2, <4>1
    <3>2. Then(Text(<<>>), RestOf(known, n, k)) = RestOf(known, n, k)
      BY Zenon, <3>1, ThenNothing
    <3> QED BY Zenon, <1>2, <3>2
  <2>3. ToBrace(n, k, <<>>, k)
    BY Zenon, <1>1, <1>3, <1>4, <2>1, <2>2 DEF ToBrace
  <2> QED BY Zenon, <2>3, NoText DEF GoesOn
<1>5. CASE p.plain
  <2> DEFINE v == p.word
  <2>1. v \in Seq(Unopened) /\ v \in Seq(Token)
    BY Zenon, <1>1, <1>5, WordIs
  <2>2. t[k] = v \o t[k + 1]
    BY Zenon, <1>1, <1>5, SpellingIs
  <2>3. \A known \in Tables : RestOf(known, n, k) = Then(Text(v), RestOf(known, n, k + 1))
    BY Zenon, <1>1, <1>2, <1>5, OfPartsIs
  <2>4. PICK w \in Seq(Unopened) :
          (\E m : ToBrace(n, k + 1, w, m)) \/ ToTail(n, k + 1, w) \/ ToEnd(n, k + 1, w)
    BY Zenon DEF GoesOn
  <2> HIDE DEF v
  <2>5. w \in Seq(Token) /\ Text(v) \in Outcome /\ Text(w) \in Outcome
    BY Zenon, <2>1, <2>4, UnopenedText, OutcomesAre
  <2>6. v \o w \in Seq(Unopened)
    <3> HIDE DEF Unopened
    <3> QED BY <2>1, <2>4
  <2>7. CASE \E m : ToBrace(n, k + 1, w, m)
    <3>1. PICK m : ToBrace(n, k + 1, w, m)
      BY Zenon, <2>7
    <3> DEFINE b == Spelling[n.parts[m]] \o t[m + 1]
    <3>2. /\ m \in k + 1 .. L /\ n.parts[m] \in Part /\ ~ n.parts[m].plain
          /\ t[k + 1] = w \o b
          /\ \A known \in Tables :
               RestOf(known, n, k + 1)
                 = Then(Text(w), Then(OfParts(known, FALSE)[n.parts[m]], RestOf(known, n, m + 1)))
      BY Zenon, <3>1 DEF ToBrace
    <3>3. m \in k .. L /\ m \in 1 .. L /\ m + 1 \in 1 .. L + 1
      BY <1>1, <1>3, <3>2
    <3>4. b \in Seq(Token)
      <4>1. Spelling[n.parts[m]] \in Seq(Token) /\ t[m + 1] \in Seq(Token)
        BY Zenon, <1>1, <3>3
      <4> HIDE DEF t
      <4> QED BY <4>1
    <3>5. t[k] = (v \o w) \o b
      <4> HIDE DEF b, t
      <4>1. v \o (w \o b) = (v \o w) \o b
        BY Zenon, <2>1, <2>5, <3>4, Regroup
      <4> QED BY Zenon, <2>2, <3>2, <4>1
    <3>6. ASSUME NEW known \in Tables
          PROVE  RestOf(known, n, k)
                   = Then(Text(v \o w), Then(OfParts(known, FALSE)[n.parts[m]], RestOf(known, n, m + 1)))
      <4> DEFINE x == Then(OfParts(known, FALSE)[n.parts[m]], RestOf(known, n, m + 1))
      <4>1. x \in Outcome
        <5>1. OfParts(known, FALSE)[n.parts[m]] \in Outcome /\ RestOf(known, n, m + 1) \in Outcome
          BY Zenon, <1>2, <3>3
        <5> QED BY Zenon, <5>1, ThenType
      <4>2. RestOf(known, n, k) = Then(Text(v), Then(Text(w), x))
        BY Zenon, <2>3, <3>2
      <4> HIDE DEF x
      <4>3. Then(Text(v), Then(Text(w), x)) = Then(Then(Text(v), Text(w)), x)
        BY Zenon, <2>5, <4>1, ThenAssociative
      <4>4. Then(Text(v), Text(w)) = Text(v \o w)
        BY Zenon, Thens
      <4> QED BY Zenon, <4>2, <4>3, <4>4 DEF x
    <3>7. ToBrace(n, k, v \o w, m)
      BY Zenon, <3>2, <3>3, <3>5, <3>6 DEF ToBrace
    <3> QED BY Zenon, <2>6, <3>7 DEF GoesOn
  <2>8. CASE ToTail(n, k + 1, w)
    <3>1. n.tail # <<>> /\ t[k + 1] = w \o n.tail /\ \A known \in Tables : RestOf(known, n, k + 1) = Error
      BY Zenon, <2>8 DEF ToTail
    <3>2. t[k] = (v \o w) \o n.tail
      <4> DEFINE b == n.tail
      <4>1. b \in Seq(Token) /\ t[k + 1] = w \o b
        BY Zenon, <1>1, <3>1
      <4> HIDE DEF b, t
      <4>2. v \o (w \o b) = (v \o w) \o b
        BY Zenon, <2>1, <2>5, <4>1, Regroup
      <4>3. t[k] = (v \o w) \o b
        BY Zenon, <2>2, <4>1, <4>2
      <4> QED BY <4>3 DEF b
    <3>3. \A known \in Tables : RestOf(known, n, k) = Error
      BY Zenon, <2>3, <3>1, Thens
    <3>4. ToTail(n, k, v \o w)
      BY Zenon, <3>1, <3>2, <3>3 DEF ToTail
    <3> QED BY Zenon, <2>6, <3>4 DEF GoesOn
  <2>9. CASE ToEnd(n, k + 1, w)
    <3>1. t[k + 1] = w /\ \A known \in Tables : RestOf(known, n, k + 1) = Text(w)
      BY Zenon, <2>9 DEF ToEnd
    <3>2. \A known \in Tables : RestOf(known, n, k) = Text(v \o w)
      BY Zenon, <2>3, <3>1, Thens
    <3>3. ToEnd(n, k, v \o w)
      BY Zenon, <2>2, <3>1, <3>2 DEF ToEnd
    <3> QED BY Zenon, <2>6, <3>3 DEF GoesOn
  <2> QED BY Zenon, <2>4, <2>7, <2>8, <2>9
<1> QED BY <1>4, <1>5

LEMMA AheadIs ==
  ASSUME NEW n \in Trees, NEW k \in 1 .. Len(n.parts) + 1 PROVE GoesOn(n, k)
<1> DEFINE L == Len(n.parts)
           D == {j \in 0 .. L : GoesOn(n, L + 1 - j)}
<1>1. L \in Nat /\ n.tail \in Seq(Token) /\ TextFrom(n)[L + 1] = n.tail
  BY Zenon, TextFromIs
<1>2. GoesOn(n, L + 1)
  <2>1. \A known \in Tables : RestOf(known, n, L + 1) = EndOf(n)
    BY Zenon, RestOfIs
  <2>2. CASE n.tail = <<>>
    <3>1. ToEnd(n, L + 1, <<>>)
      BY Zenon, <1>1, <2>1, <2>2 DEF ToEnd, EndOf
    <3> QED BY Zenon, <3>1, NoText DEF GoesOn
  <2>3. CASE n.tail # <<>>
    <3>1. TextFrom(n)[L + 1] = <<>> \o n.tail
      BY Zenon, <1>1, NoText
    <3>2. ToTail(n, L + 1, <<>>)
      BY Zenon, <2>1, <2>3, <3>1 DEF ToTail, EndOf
    <3> QED BY Zenon, <3>2, NoText DEF GoesOn
  <2> QED BY <2>2, <2>3
<1> HIDE DEF L
<1>3. 0 \in D
  <2>1. L + 1 - 0 = L + 1
    BY <1>1
  <2> QED BY <1>1, <1>2, <2>1
<1>4. ASSUME NEW j \in 1 .. L, j - 1 \in D PROVE j \in D
  <2> DEFINE i == L + 1 - j
  <2>1. i \in 1 .. L /\ L + 1 - (j - 1) = i + 1 /\ j \in 0 .. L
    BY <1>1
  <2>2. GoesOn(n, L + 1 - (j - 1))
    BY Zenon, <1>4
  <2> HIDE DEF i
  <2>3. GoesOn(n, i + 1)
    BY Zenon, <2>1, <2>2
  <2>4. GoesOn(n, i)
    BY Zenon, <2>1, <2>3, AheadStep DEF L
  <2> QED BY <2>1, <2>4 DEF i
<1>5. D = 0 .. L
  <2>1. D \in SUBSET (0 .. L)
    OBVIOUS
  <2> HIDE DEF D
  <2> QED BY <1>1, <1>3, <1>4, <2>1, UpToInduction
<1>6. L + 1 - k \in 0 .. L /\ L + 1 - (L + 1 - k) = k
  BY <1>1 DEF L
<1>7. L + 1 - k \in D
  BY Zenon, <1>5, <1>6
<1>8. GoesOn(n, L + 1 - (L + 1 - k))
  BY Zenon, <1>7
<1> QED BY Zenon, <1>6, <1>8

----------------------------------------------------------------------------
(* The next brace of a text.                                                *)

LEMMA NoneOpen == ASSUME NEW w \in Seq(Unopened) PROVE Opens(w) = {}
<1>1. \A i \in DOMAIN w : w[i] \in Unopened
  <2> HIDE DEF Unopened
  <2> QED OBVIOUS
<1>2. Begin \notin Unopened
  BY Zenon, Marks
<1>3. \A i \in DOMAIN w : w[i] # Begin
  BY Zenon, <1>1, <1>2
<1> QED BY Zenon, <1>3 DEF Opens, Begin

\* The first brace of a text that begins with none.
LEMMA FirstOpen ==
  ASSUME NEW w \in Seq(Unopened), NEW b \in Seq(Token), b # <<>>, b[1] = Begin
  PROVE  /\ w \in Seq(Token) /\ Len(w) \in Nat
         /\ w \o b \in Seq(Token) /\ Len(w) + 1 \in 1 .. Len(w \o b)
         /\ Len(w) + 1 \in Opens(w \o b)
         /\ \A k \in Opens(w \o b) : k \in 1 .. Len(w \o b) /\ Len(w) + 1 <= k
<1> DEFINE c == w \o b
           m == Len(w)
           n == Len(b)
<1>1. w \in Seq(Token)
  BY Zenon, UnopenedText
<1>2. Joined(c, w, b, m, n)
  BY Zenon, <1>1, ConcatIs
<1>3. n >= 1
  <2>1. n \in Nat /\ n # 0
    BY EmptySeq
  <2> QED BY <2>1
<1>4. \A i \in 1 .. m : w[i] # Begin
  <2>1. DOMAIN w = 1 .. m
    BY <1>1, LenProperties
  <2>2. \A i \in 1 .. m : w[i] \in Unopened
    <3> HIDE DEF Unopened
    <3> QED BY <2>1
  <2> QED BY Zenon, <2>2, Marks
<1> HIDE DEF c, m, n
<1>5. /\ m \in Nat /\ n \in Nat /\ c \in Seq(Token) /\ Len(c) = m + n
      /\ \A i \in 1 .. m + n : c[i] = IF i <= m THEN w[i] ELSE b[i - m]
  BY Zenon, <1>2 DEF Joined
<1>6. DOMAIN c = 1 .. m + n
  BY <1>5, LenProperties
<1>7. m + 1 \in 1 .. m + n /\ ~ (m + 1 <= m) /\ m + 1 - m = 1
  BY <1>3, <1>5
<1>8. c[m + 1] = Begin
  <2>1. c[m + 1] = b[m + 1 - m]
    <3> DEFINE k == m + 1
    <3>1. k \in 1 .. m + n /\ ~ (k <= m)
      BY <1>7
    <3> HIDE DEF k
    <3>2. c[k] = IF k <= m THEN w[k] ELSE b[k - m]
      BY <1>5, <3>1
    <3>3. c[k] = b[k - m]
      BY <3>1, <3>2
    <3> QED BY <3>3 DEF k, m
  <2>2. b[m + 1 - m] = b[1]
    BY Zenon, <1>7
  <2> QED BY Zenon, <2>1, <2>2
<1>9. ASSUME NEW k \in 1 .. m + n, c[k] = Begin PROVE m + 1 <= k
  <2>1. CASE k <= m
    <3>1. k \in 1 .. m
      BY <1>5, <2>1
    <3>2. c[k] = w[k]
      BY Zenon, <1>5, <2>1
    <3> QED BY Zenon, <1>4, <1>9, <3>1, <3>2
  <2>2. CASE ~ (k <= m)
    BY <1>5, <2>2
  <2> QED BY <2>1, <2>2
<1>10. Opens(c) = {k \in 1 .. m + n : c[k] = Begin}
  BY Zenon, <1>6 DEF Opens, Begin
<1>11. m + 1 \in Opens(c) /\ \A k \in Opens(c) : k \in 1 .. m + n /\ m + 1 <= k
  <2> HIDE DEF Begin
  <2> QED BY <1>7, <1>8, <1>9, <1>10
<1> QED BY Zenon, <1>1, <1>5, <1>7, <1>11 DEF c, m

LEMMA OpenTail ==
  ASSUME NEW b \in Seq(Token), Open(b), b # <<>> PROVE b[1] = Begin
<1>1. Len(b) \in Nat /\ Len(b) # 0 /\ DOMAIN b = 1 .. Len(b)
  BY EmptySeq, LenProperties
<1>2. 1 \in DOMAIN b
  BY <1>1
<1>3. Level(b, 1) > 0
  BY Zenon, <1>2 DEF Open
<1>4. Steps(Level(b, 1), Level(b, 1 - 1), b[1], Begin, End)
  BY Stepping
<1>5. Level(b, 1 - 1) = 0
  BY LevelNone
<1> HIDE DEF Begin, End
<1>6. Level(b, 1) \in Int
  BY Zenon, <1>4 DEF Steps
<1> QED BY <1>3, <1>4, <1>5, <1>6 DEF Steps

\* A brace that is left open is found open.
LEMMA TailNotShut ==
  ASSUME NEW w \in Seq(Token), NEW b \in Seq(Token), Open(b), b # <<>>
  PROVE  Shuts(w \o b, Len(w) + 1) = {}
<1> DEFINE c == w \o b
           m == Len(w)
           n == Len(b)
<1>1. Joined(c, w, b, m, n)
  BY Zenon, ConcatIs
<1>2. b[1] = Begin
  BY Zenon, OpenTail
<1>3. Steps(Level(b, 1), Level(b, 1 - 1), b[1], Begin, End) /\ Level(b, 1 - 1) = 0
  BY Stepping, LevelNone
<1>4. Level(b, 1) = 1
  <2> HIDE DEF Begin, End
  <2> QED BY <1>2, <1>3 DEF Steps
<1>5. n \in Nat /\ n >= 1 /\ DOMAIN b = 1 .. n
  <2>1. n \in Nat /\ n # 0 /\ DOMAIN b = 1 .. n
    BY EmptySeq, LenProperties
  <2> QED BY <2>1
<1>6. \A k \in 1 .. n : Level(b, k) > 0 /\ Level(b, k) \in Int
  <2>1. \A k \in 1 .. n : k \in Nat
    OBVIOUS
  <2> QED BY Zenon, <1>5, <2>1, LevelType DEF Open
<1> HIDE DEF c, m, n
<1>7. /\ m \in Nat /\ c \in Seq(Token) /\ Len(c) = m + n
      /\ \A k \in 0 .. n : Level(c, m + k) = Level(w, m) + Level(b, k)
  BY Zenon, <1>1 DEF Joined
<1>8. Level(w, m) \in Int
  BY Zenon, <1>7, LevelType
<1>9. Level(c, m + 1) = Level(w, m) + 1
  <2>1. 1 \in 0 .. n
    BY <1>5
  <2> QED BY Zenon, <1>4, <1>7, <2>1
<1>10. ASSUME NEW j \in m + 1 .. m + n PROVE ~ (Level(c, j) < Level(c, m + 1))
  <2> DEFINE k == j - m
  <2>1. k \in 1 .. n /\ k \in 0 .. n /\ m + k = j
    BY <1>5, <1>7
  <2> HIDE DEF k
  <2>2. Level(c, j) = Level(w, m) + Level(b, k)
    BY Zenon, <1>7, <2>1
  <2>3. Level(b, k) > 0 /\ Level(b, k) \in Int
    BY Zenon, <1>6, <2>1
  <2> QED BY <1>8, <1>9, <2>2, <2>3
<1>11. Shuts(c, m + 1) = {}
  BY Zenon, <1>7, <1>10 DEF Shuts
<1> QED BY Zenon, <1>11 DEF c, m

\* A brace at i that is answered, and what is in front of and behind it.
Found(n, k, i, w, m) ==
  LET t == TextFrom(n)[k]
      p == n.parts[m]
  IN  /\ m \in 1 .. Len(n.parts) /\ p \in Part /\ ~ p.plain /\ w \in Seq(Token)
      /\ SubSeq(t, 1, i - 1) = w
      /\ SubSeq(t, i, Closing(t, i)) = Spelling[p]
      /\ Behind(t, Closing(t, i)) = TextFrom(n)[m + 1]
      /\ \A known \in Tables :
           RestOf(known, n, k) = Then(Text(w), Then(OfParts(known, FALSE)[p], RestOf(known, n, m + 1)))

\* What a text stands for from a place on, by the first brace behind it.
LEMMA NextBrace ==
  ASSUME NEW n \in Trees, NEW k \in 1 .. Len(n.parts) + 1
  PROVE  LET t == TextFrom(n)[k]
         IN  /\ Opens(t) = {} => \A known \in Tables : RestOf(known, n, k) = Text(t)
             /\ \A i \in Opens(t) : (\A j \in Opens(t) : i <= j) =>
                  /\ Shuts(t, i) = {} => \A known \in Tables : RestOf(known, n, k) = Error
                  /\ Shuts(t, i) # {} => \E w, m : Found(n, k, i, w, m)
<1> DEFINE t == TextFrom(n)[k]
           L == Len(n.parts)
<1>1. /\ L \in Nat /\ n.tail \in Seq(Token) /\ Open(n.tail)
      /\ \A i \in 1 .. L : Spelling[n.parts[i]] \in Seq(Token)
      /\ \A i \in 1 .. L + 1 : TextFrom(n)[i] \in Seq(Token)
  BY Zenon, TextFromIs
<1>2. PICK w \in Seq(Unopened) :
        (\E m : ToBrace(n, k, w, m)) \/ ToTail(n, k, w) \/ ToEnd(n, k, w)
  BY Zenon, AheadIs DEF GoesOn
<1>3. w \in Seq(Token)
  BY Zenon, UnopenedText
<1>4. CASE ToEnd(n, k, w)
  <2>1. t = w /\ \A known \in Tables : RestOf(known, n, k) = Text(t)
    BY Zenon, <1>4 DEF ToEnd
  <2>2. Opens(t) = {}
    BY Zenon, <2>1, NoneOpen
  <2> HIDE DEF t
  <2>3. /\ Opens(t) = {} => \A known \in Tables : RestOf(known, n, k) = Text(t)
        /\ \A i \in Opens(t) : FALSE
    BY <2>1, <2>2
  <2> QED BY Zenon, <2>3 DEF t
<1>5. CASE ToTail(n, k, w)
  <2> DEFINE b == n.tail
  <2>1. b # <<>> /\ t = w \o b /\ \A known \in Tables : RestOf(known, n, k) = Error
    BY Zenon, <1>5 DEF ToTail
  <2>2. b[1] = Begin
    BY Zenon, <1>1, <2>1, OpenTail
  <2>3. /\ Len(w) + 1 \in Opens(w \o b) /\ Len(w) \in Nat
        /\ \A j \in Opens(w \o b) : j \in 1 .. Len(w \o b) /\ Len(w) + 1 <= j
    BY Zenon, <1>1, <2>1, <2>2, FirstOpen
  <2>4. Shuts(w \o b, Len(w) + 1) = {}
    BY Zenon, <1>1, <1>3, <2>1, TailNotShut
  <2> HIDE DEF t, b
  <2>5. Opens(t) # {}
    BY <2>1, <2>3
  <2>6. ASSUME NEW i \in Opens(t), \A j \in Opens(t) : i <= j PROVE i = Len(w) + 1
    <3>1. i <= Len(w) + 1 /\ Len(w) + 1 <= i /\ i \in 1 .. Len(w \o b)
      BY Zenon, <2>1, <2>3, <2>6
    <3> DEFINE x == Len(w \o b)
               y == Len(w)
    <3>2. i <= y + 1 /\ y + 1 <= i /\ i \in 1 .. x /\ y \in Nat
      BY <2>3, <3>1
    <3> HIDE DEF x, y
    <3> QED BY <3>2 DEF y
  <2>7. ASSUME NEW i \in Opens(t), \A j \in Opens(t) : i <= j PROVE Shuts(t, i) = {}
    <3>1. i = Len(w) + 1
      BY Zenon, <2>6, <2>7
    <3> QED BY Zenon, <2>1, <2>4, <3>1
  <2> QED BY Zenon, <2>1, <2>5, <2>7 DEF t
<1>6. CASE \E m : ToBrace(n, k, w, m)
  <2>1. PICK m : ToBrace(n, k, w, m)
    BY Zenon, <1>6
  <2> DEFINE p == n.parts[m]
             b == Spelling[p]
             r == TextFrom(n)[m + 1]
  <2>2. /\ m \in k .. L /\ p \in Part /\ ~ p.plain /\ t = w \o (b \o r)
        /\ \A known \in Tables :
             RestOf(known, n, k) = Then(Text(w), Then(OfParts(known, FALSE)[p], RestOf(known, n, m + 1)))
    BY Zenon, <2>1 DEF ToBrace
  <2>3. m \in 1 .. L /\ m + 1 \in 1 .. L + 1
    BY <1>1, <2>2
  <2>4. Bracket(b) /\ b \in Seq(Token) /\ r \in Seq(Token)
    BY Zenon, <1>1, <2>2, <2>3, SpellingBracket
  <2> HIDE DEF p, b, r, t
  <2> DEFINE c == b \o r
  <2>5. c \in Seq(Token) /\ c # <<>> /\ c[1] = Begin
    <3>1. b # <<>> /\ b[1] = Begin
      <4>1. Len(b) >= 2 /\ b[1] = Begin
        BY Zenon, <2>4 DEF Bracket
      <4>2. b # <<>>
        BY <4>1
      <4> QED BY <4>1, <4>2
    <3>2. c[1] = b[1]
      BY Zenon, <2>4, <3>1, FirstOf
    <3>3. c \in Seq(Token) /\ c # <<>>
      BY <2>4, <3>1
    <3> QED BY Zenon, <3>1, <3>2, <3>3
  <2>6. /\ Len(w) + 1 \in Opens(w \o c) /\ Len(w) \in Nat
        /\ \A j \in Opens(w \o c) : j \in 1 .. Len(w \o c) /\ Len(w) + 1 <= j
    BY Zenon, <2>5, FirstOpen
  <2>7. t = w \o c
    BY Zenon, <2>2
  <2> DEFINE i0 == Len(w) + 1
             j0 == Len(w) + Len(b)
  <2>8. /\ j0 \in Shuts(t, i0) /\ Closing(t, i0) = j0
        /\ SubSeq(t, i0, j0) = b /\ SubSeq(t, j0 + 1, Len(t)) = r
        /\ SubSeq(t, 1, i0 - 1) = w
    <3> DEFINE d == w \o (b \o r)
    <3>1. d = t
      BY Zenon, <2>2
    <3>2. Closing(d, i0) = j0 /\ j0 \in Shuts(d, i0)
      BY Zenon, <1>3, <2>4, ClosingIs
    <3>3. Between(d, w, b, r, Len(w), Len(b), Len(r))
      BY Zenon, <1>3, <2>4, Middle
    <3> HIDE DEF d
    <3>4. SubSeq(d, i0, j0) = b /\ SubSeq(d, j0 + 1, Len(d)) = r /\ SubSeq(d, 1, Len(w)) = w
      BY Zenon, <3>3 DEF Between
    <3>5. i0 - 1 = Len(w)
      BY <2>6
    <3> QED BY Zenon, <3>1, <3>2, <3>4, <3>5
  <2> HIDE DEF c
  <2>9. ASSUME NEW i \in Opens(t), \A j \in Opens(t) : i <= j PROVE i = i0
    <3>1. i <= Len(w) + 1 /\ Len(w) + 1 <= i /\ i \in 1 .. Len(w \o c)
      BY Zenon, <2>6, <2>7, <2>9
    <3> DEFINE x == Len(w \o c)
               y == Len(w)
    <3>2. i <= y + 1 /\ y + 1 <= i /\ i \in 1 .. x /\ y \in Nat
      BY <2>6, <3>1
    <3> HIDE DEF x, y
    <3> QED BY <3>2 DEF y
  <2> HIDE DEF i0, j0
  <2>10. Found(n, k, i0, w, m)
    BY Zenon, <1>3, <2>2, <2>3, <2>8 DEF Found, t, p, b, r, L, Behind
  <2>11. Opens(t) # {}
    BY Zenon, <2>6, <2>7
  <2>12. Shuts(t, i0) # {}
    BY Zenon, <2>8
  <2>13. \A i \in Opens(t) : (\A j \in Opens(t) : i <= j) =>
           Shuts(t, i) # {} /\ Found(n, k, i, w, m)
    BY Zenon, <2>9, <2>10, <2>12
  <2> QED BY Zenon, <2>11, <2>13 DEF t
<1> QED BY Zenon, <1>2, <1>4, <1>5, <1>6

----------------------------------------------------------------------------
(* What a call owes.                                                        *)

\* What a frame returns to the one below it, if x is what it gets from above and
\* r what the rest of it stands for.
Owes(known, kind, acc, x, r) == Finish(known, kind, Then(Then(Text(acc), x), r))

LEMMA OwesNothing ==
  ASSUME NEW known, NEW kind, NEW acc \in Seq(Token)
  PROVE  Owes(known, kind, acc, Text(<<>>), Text(<<>>)) = Finish(known, kind, Text(acc))
<1>1. Text(acc) \in Outcome
  BY Zenon, OutcomesAre
<1>2. Then(Text(acc), Text(<<>>)) = Text(acc)
  BY Zenon, <1>1, ThenNothing
<1> QED BY Zenon, <1>2 DEF Owes

Carries(known, kind, acc, w, x, r) ==
  Owes(known, kind, acc, Text(<<>>), Then(Text(w), Then(x, r))) = Owes(known, kind, acc \o w, x, r)

\* Text in front of a brace is gathered without a change to what is owed.
LEMMA OwesMore ==
  ASSUME NEW known, NEW kind, NEW acc \in Seq(Token), NEW w \in Seq(Token),
         NEW x \in Outcome, NEW r \in Outcome
  PROVE  Carries(known, kind, acc, w, x, r)
<1> DEFINE y == Then(x, r)
           a == Text(acc)
           b == Text(w)
<1>1. a \in Outcome /\ b \in Outcome /\ y \in Outcome
  BY Zenon, OutcomesAre, ThenType
<1>2. Then(a, b) = Text(acc \o w)
  BY Zenon, Thens
<1>3. Text(acc \o w) \in Outcome
  BY Zenon, <1>1, <1>2, ThenType
<1>4. Then(Text(acc \o w), y) = Then(Then(Text(acc \o w), x), r)
  BY Zenon, <1>3, ThenAssociative
<1> HIDE DEF y, a, b
<1>5. Then(Then(a, Text(<<>>)), Then(b, y)) = Then(a, Then(b, y))
  BY Zenon, <1>1, ThenNothing
<1>6. Then(a, Then(b, y)) = Then(Then(a, b), y)
  BY Zenon, <1>1, ThenAssociative
<1>7. Then(Then(a, Text(<<>>)), Then(b, y)) = Then(Then(Text(acc \o w), x), r)
  BY Zenon, <1>2, <1>4, <1>5, <1>6
<1> QED BY Zenon, <1>7 DEF Carries, Owes, y, a, b

LEMMA OwesNested ==
  ASSUME NEW known, NEW kind, NEW acc \in Seq(Token), NEW x \in Outcome, NEW r \in Outcome
  PROVE  Owes(known, kind, acc, Text(<<>>), Then(x, r)) = Owes(known, kind, acc, x, r)
<1> DEFINE a == Text(acc)
<1>1. a \in Outcome
  BY Zenon, OutcomesAre
<1> HIDE DEF a
<1>2. Then(Then(a, Text(<<>>)), Then(x, r)) = Then(Then(a, x), r)
  <2>1. Then(a, Text(<<>>)) = a
    BY Zenon, <1>1, ThenNothing
  <2>2. Then(a, Then(x, r)) = Then(Then(a, x), r)
    BY Zenon, <1>1, ThenAssociative
  <2> QED BY Zenon, <2>1, <2>2
<1> QED BY Zenon, <1>2 DEF Owes, a

Takes(known, kind, acc, t, r) ==
  Owes(known, kind, acc, Text(t), r) = Owes(known, kind, acc \o t, Text(<<>>), r)

\* So is what a call returns.
LEMMA OwesReturned ==
  ASSUME NEW known, NEW kind, NEW acc \in Seq(Token), NEW t \in Seq(Token), NEW r
  PROVE  Takes(known, kind, acc, t, r)
<1>1. Then(Text(acc), Text(t)) = Text(acc \o t)
  BY Zenon, Thens
<1>2. Text(acc \o t) \in Outcome
  BY Zenon, <1>1, OutcomesAre, ThenType
<1>3. Then(Text(acc \o t), Text(<<>>)) = Text(acc \o t)
  BY Zenon, <1>2, ThenNothing
<1> QED BY Zenon, <1>1, <1>3 DEF Owes, Takes

Passes(known, kind, acc, z, r) == Owes(known, kind, acc, z, r) = z

\* What is no text is passed on.
LEMMA OwesThrown ==
  ASSUME NEW known, NEW kind, NEW acc, NEW z \in {Error, Endless}, NEW r
  PROVE  Passes(known, kind, acc, z, r)
<1>1. Then(Then(Text(acc), Error), r) = Error /\ Then(Then(Text(acc), Endless), r) = Endless
  BY Zenon, Thens
<1>2. Finish(known, kind, Error) = Error /\ Finish(known, kind, Endless) = Endless
  BY Zenon, Texts DEF Finish
<1> QED BY Zenon, <1>1, <1>2 DEF Owes, Passes

----------------------------------------------------------------------------
(* Fields that refer to each other, level by level.                         *)

\* The calls that l levels of Fields have room for.
Room(l) == l * (Nesting + 1)

\* The stack has room for a level for each name.
LEMMA RoomIs ==
  /\ Nesting \in Nat /\ Cardinality(Name) \in Nat /\ Room(0) = 0
  /\ \A l \in Nat : Room(l) \in Nat /\ Room(l + 1) = Room(l) + (Nesting + 1)
  /\ \A l \in Nat : l <= Cardinality(Name) => Room(l) <= MaxCalls
  /\ MaxCalls \in Nat
<1> DEFINE C == Cardinality(Name)
           N == Nesting + 1
<1>1. C \in Nat /\ N \in Nat /\ MaxCalls >= C * N /\ MaxCalls \in Nat /\ Nesting \in Nat
  BY StackAssumption, FS_CardinalityType, DepthAssumption, CallsAssumption
<1> HIDE DEF C, N
<1>2. \A l : Room(l) = l * N
  BY DEF Room, N
<1>3. ASSUME NEW l \in Nat PROVE Room(l) \in Nat /\ Room(l + 1) = Room(l) + N
  <2>1. l * N \in Nat /\ (l + 1) * N = l * N + N
    BY <1>1
  <2> QED BY <1>2, <2>1
<1>4. ASSUME NEW l \in Nat, l <= C PROVE Room(l) <= MaxCalls
  <2>1. l * N <= C * N /\ C * N \in Nat /\ l * N \in Nat
    BY <1>1, <1>4
  <2> QED BY <1>1, <1>2, <2>1
<1>5. Room(0) = 0
  BY <1>1, <1>2
<1> QED BY <1>1, <1>3, <1>4, <1>5 DEF C, N

\* T[l] is what a reading knows that l Fields in a row have led to.  If e holds it
\* knows less and less, and what it does not know is Endless.
Ladder(T, e, f) ==
  /\ f \in AllFields
  /\ \A l \in Nat : T[l] \in [DOMAIN f -> Outcome] /\ T[l] \in Tables
  /\ \A l \in Nat : \A name \in DOMAIN f :
       \/ /\ T[l][name] = OfTree(T[l + 1], Tree[f[name]], FALSE)
          /\ e => l + 1 <= Cardinality(Name)
       \/ e /\ T[l][name] = Endless

\* What is known in the end, and within the levels that are left.
Settles(f) == [l \in Nat |-> Within(f, FALSE)[Cardinality(Name)]]
Descent(f) ==
  [l \in Nat |-> Within(f, FALSE)[IF l <= Cardinality(Name) THEN Cardinality(Name) - l ELSE 0]]

\* What is known in the end is a ladder all of whose steps are alike.
LEMMA SettlesIs == ASSUME NEW f \in AllFields PROVE Ladder(Settles(f), FALSE, f)
<1> DEFINE w == Within(f, FALSE)[Cardinality(Name)]
<1>1. w \in [DOMAIN f -> Outcome]
  BY Zenon, WithinIs, RoomIs
<1>2. w \in Tables
  BY Zenon, <1>1, StepType
<1>3. Step(f, w) = w
  BY Zenon, Settled
<1>4. \A name \in DOMAIN f : w[name] = OfTree(w, Tree[f[name]], FALSE)
  <2>1. \A name \in DOMAIN f : Step(f, w)[name] = OfTree(w, Tree[f[name]], FALSE)
    BY Zenon DEF Step
  <2> QED BY Zenon, <1>3, <2>1
<1> HIDE DEF w
<1>5. \A l \in Nat : Settles(f)[l] = w /\ Settles(f)[l + 1] = w
  <2>1. Settles(f) = [l \in Nat |-> w]
    BY Zenon DEF Settles, w
  <2>2. \A l \in Nat : l + 1 \in Nat
    OBVIOUS
  <2> QED BY Zenon, <2>1, <2>2
<1> QED BY Zenon, <1>1, <1>2, <1>4, <1>5 DEF Ladder

\* What is known within fewer and fewer levels is one that ends.
LEMMA DescentIs == ASSUME NEW f \in AllFields PROVE Ladder(Descent(f), TRUE, f)
<1> DEFINE C == Cardinality(Name)
           w == Within(f, FALSE)
           T == Descent(f)
           E == DOMAIN f
<1>1. /\ \A n \in Nat : w[n] \in [E -> Outcome]
      /\ w[0] = Nowhere(f)
      /\ \A n \in Nat : w[n + 1] = Step(f, w[n])
  BY Zenon, WithinIs
<1>2. C \in Nat
  BY RoomIs
<1>3. T = [l \in Nat |-> w[IF l <= C THEN C - l ELSE 0]]
  BY Zenon DEF Descent
<1> HIDE DEF C, w, T
<1>4. ASSUME NEW l \in Nat PROVE T[l] \in [E -> Outcome]
  <2> DEFINE n == IF l <= C THEN C - l ELSE 0
  <2>1. n \in Nat
    BY <1>2
  <2>2. T[l] = w[n]
    BY <1>3
  <2> HIDE DEF n
  <2> QED BY Zenon, <1>1, <2>1, <2>2
<1>5. \A l \in Nat : T[l] \in Tables
  BY Zenon, <1>4, StepType
<1>6. ASSUME NEW l \in Nat, NEW name \in E
      PROVE  \/ T[l][name] = OfTree(T[l + 1], Tree[f[name]], FALSE) /\ l + 1 <= C
             \/ T[l][name] = Endless
  <2>1. CASE l + 1 <= C
    <3> DEFINE n == C - (l + 1)
    <3>1. n \in Nat /\ n + 1 = C - l /\ l <= C /\ l + 1 \in Nat
      BY <1>2, <2>1
    <3>2. T[l] = w[C - l] /\ T[l + 1] = w[n]
      BY <1>3, <2>1, <3>1
    <3> HIDE DEF n
    <3>3. T[l] = Step(f, T[l + 1])
      BY Zenon, <1>1, <3>1, <3>2
    <3> QED BY Zenon, <2>1, <3>3 DEF Step
  <2>2. CASE ~ (l + 1 <= C)
    <3>1. (IF l <= C THEN C - l ELSE 0) = 0
      BY <1>2, <2>2
    <3>2. T[l] = w[0]
      BY <1>3, <3>1
    <3> QED BY Zenon, <1>1, <3>2 DEF Nowhere
  <2> QED BY <2>1, <2>2
<1> QED BY Zenon, <1>4, <1>5, <1>6 DEF Ladder, C, T

----------------------------------------------------------------------------
(* What is left of a call.                                                  *)

\* The braces of qs from the j-th on, which are nested no deeper than h.
Nested(nested, qs, j, h) ==
  /\ qs \in Seq(Part) /\ j \in 1 .. Len(qs) + 1
  /\ nested \in Seq(Seq(Token)) /\ Len(nested) = Len(qs) + 1 - j
  /\ \A m \in 1 .. Len(nested) : nested[m] = Spelling[qs[j - 1 + m]]
  /\ \A m \in 1 .. Len(qs) : ~ qs[m].plain /\ Depth[qs[m]] <= h

\* The rest of expand_all, of evaluate and of a Field whose value was expanded stands for r.
Expands(known, frame, r) ==
  /\ frame.nested = <<>>
  /\ \E n \in Trees : \E k \in 1 .. Len(n.parts) + 1 :
       frame.text = TextFrom(n)[k] /\ r = RestOf(known, n, k)
Evaluates(known, frame, r, h) ==
  \E qs, j : Nested(frame.nested, qs, j, h) /\ r = TurnsFrom(Ofs(known, qs))[j]

Rest(known, frame, r, h) ==
  \/ frame.kind = "expand" /\ Expands(known, frame, r) /\ h = Nesting
  \/ frame.kind \in {"raw", "env", "lookup"} /\ Evaluates(known, frame, r, h)
  \/ frame.kind = "found" /\ frame.nested = <<>> /\ r = Text(<<>>)

\* The j-th of the braces is evaluated next, if there is one.
NextNested(f, nested, qs, j, h, x) ==
  /\ f[j] \in Outcome
  /\ nested = <<>> => f[j] = Text(<<>>)
  /\ nested # <<>> =>
       /\ qs[j] \in Part /\ ~ qs[j].plain /\ Depth[qs[j]] <= h
       /\ Head(nested) = Spelling[qs[j]]
       /\ Nested(Tail(nested), qs, j + 1, h)
       /\ x \in Outcome /\ f[j + 1] \in Outcome /\ f[j] = Then(x, f[j + 1])

\* The next of the nested braces is owed first.
LEMMA NestedStep ==
  ASSUME NEW known \in Tables, NEW nested, NEW qs, NEW j, NEW h, Nested(nested, qs, j, h)
  PROVE  NextNested(TurnsFrom(Ofs(known, qs)), nested, qs, j, h, OfParts(known, FALSE)[qs[j]])
<1> DEFINE o == Ofs(known, qs)
           f == TurnsFrom(o)
           L == Len(qs)
           x == OfParts(known, FALSE)[qs[j]]
<1>1. /\ qs \in Seq(Part) /\ j \in 1 .. L + 1
      /\ nested \in Seq(Seq(Token)) /\ Len(nested) = L + 1 - j
      /\ \A m \in 1 .. Len(nested) : nested[m] = Spelling[qs[j - 1 + m]]
      /\ \A m \in 1 .. L : ~ qs[m].plain /\ Depth[qs[m]] <= h
  BY Zenon DEF Nested
<1>2. /\ o \in [1 .. L -> Outcome] /\ L \in Nat
      /\ \A i \in 1 .. L : qs[i] \in Part /\ o[i] = OfParts(known, FALSE)[qs[i]]
  BY Zenon, <1>1, OfsType
<1> HIDE DEF o, L
<1>3. /\ \A k \in 1 .. L + 1 : f[k] \in Outcome
      /\ \A k \in 1 .. L : f[k] = Then(o[k], f[k + 1])
      /\ f[L + 1] = Text(<<>>)
  BY Zenon, <1>2, TurnsFromIs
<1> HIDE DEF f
<1>4. ASSUME nested = <<>> PROVE f[j] = Text(<<>>)
  <2>1. Len(nested) = 0
    BY <1>4
  <2>2. j = L + 1
    BY <1>1, <1>2, <2>1
  <2> QED BY Zenon, <1>3, <2>2
<1>5. ASSUME nested # <<>>
      PROVE  /\ qs[j] \in Part /\ ~ qs[j].plain /\ Depth[qs[j]] <= h
             /\ Head(nested) = Spelling[qs[j]]
             /\ Nested(Tail(nested), qs, j + 1, h)
             /\ x \in Outcome /\ f[j + 1] \in Outcome /\ f[j] = Then(x, f[j + 1])
  <2>1. Len(nested) \in Nat /\ Len(nested) # 0
    BY <1>1, <1>5, EmptySeq
  <2> DEFINE M == Len(nested)
  <2>2. M \in Nat /\ M # 0 /\ M = L + 1 - j
    BY <1>1, <2>1
  <2> HIDE DEF M
  <2>3. j \in 1 .. L /\ j + 1 \in 1 .. L + 1 /\ 1 \in 1 .. M /\ j - 1 + 1 = j
    BY <1>1, <1>2, <2>2
  <2>4. Head(nested) = nested[1]
    BY <1>1, <1>5
  <2>5. Head(nested) = Spelling[qs[j]]
    BY Zenon, <1>1, <2>3, <2>4 DEF M
  <2> DEFINE u == Tail(nested)
             P == Seq(Token)
  <2>6. u \in Seq(P) /\ Len(u) = M - 1 /\ \A m \in 1 .. M - 1 : u[m] = nested[m + 1]
    <3> HIDE DEF P
    <3>1. nested \in Seq(P) /\ nested # <<>>
      BY <1>1, <1>5 DEF P
    <3> QED BY <3>1 DEF M
  <2> HIDE DEF u, P
  <2>7. Nested(u, qs, j + 1, h)
    <3>1. \A m \in 1 .. M : nested[m] = Spelling[qs[j - 1 + m]]
      BY <1>1 DEF M
    <3>2. ASSUME NEW m \in 1 .. M - 1 PROVE u[m] = Spelling[qs[(j + 1) - 1 + m]]
      <4>1. m + 1 \in 1 .. M /\ j - 1 + (m + 1) = (j + 1) - 1 + m
        BY <1>1, <1>2, <2>2
      <4> QED BY Zenon, <2>6, <3>1, <4>1
    <3>3. M - 1 = L + 1 - (j + 1)
      BY <1>1, <1>2, <2>2
    <3> QED BY Zenon, <1>1, <2>3, <2>6, <3>2, <3>3 DEF Nested, P, L
  <2>8. o[j] = x /\ o[j] \in Outcome
    BY <1>2, <2>3
  <2>9. /\ x \in Outcome /\ f[j + 1] \in Outcome /\ f[j] = Then(x, f[j + 1])
    BY Zenon, <1>3, <2>3, <2>8
  <2>10. qs[j] \in Part /\ ~ qs[j].plain /\ Depth[qs[j]] <= h
    BY Zenon, <1>1, <1>2, <2>3
  <2> QED BY Zenon, <2>5, <2>7, <2>9, <2>10 DEF u
<1>6. f[j] \in Outcome
  BY Zenon, <1>1, <1>3
<1> QED BY Zenon, <1>4, <1>5, <1>6 DEF NextNested, f, o

\* The frame at place i of a stack owes d and gets x from above.  If e holds what is
\* above it still fits on the stack.
Left(known, e, frame, i, l, d, x, r, h) ==
  /\ Rest(known, frame, r, h)
  /\ d = Owes(known, frame.kind, frame.acc, x, r)
  /\ e => l <= Cardinality(Name) /\ i + h <= Room(l)
Link(T, e, frame, i, l, d, x) ==
  /\ l \in Nat /\ frame.acc \in Seq(Token)
  /\ \E r \in Outcome : \E h \in Nat : Left(T[l], e, frame, i, l, d, x, r, h)

\* A part in braces, evaluated from place i.
LEMMA BraceLink ==
  ASSUME NEW T, NEW e, NEW l \in Nat, T[l] \in Tables, NEW p \in Part, ~ p.plain, NEW i \in Nat,
         NEW h \in Nat, Depth[p] <= h, e => l <= Cardinality(Name) /\ i + h <= Room(l)
  PROVE  Link(T, e, Evaluation[Spelling[p]], i + 1, l, OfParts(T[l], FALSE)[p], Text(<<>>))
<1> DEFINE known == T[l]
           frame == Evaluation[Spelling[p]]
           d == OfParts(known, FALSE)[p]
<1>1. PICK kind, acc, qs : Means(p, kind, acc, qs)
  BY Zenon, EvaluationMeans
<1>2. /\ kind \in {"raw", "env", "lookup"} /\ acc \in Seq(Token) /\ BraceParts(p, qs)
      /\ frame = Evaluating(kind, acc, SpeltOut(qs))
      /\ d = Finish(known, kind, Then(Text(acc), InTurn(Ofs(known, qs))))
  BY Zenon, <1>1 DEF Means
<1>3. qs \in Seq(Part) /\ \A m \in DOMAIN qs : ~ qs[m].plain /\ Depth[qs[m]] < Depth[p]
  BY Zenon, <1>2 DEF BraceParts
<1>4. /\ Len(qs) \in Nat /\ DOMAIN qs = 1 .. Len(qs)
      /\ \A m \in 1 .. Len(qs) : qs[m] \in Part
      /\ Ofs(known, qs) \in Seq(Outcome)
  BY Zenon, <1>3, OfsType
<1> DEFINE L == Len(qs)
           s == SpeltOut(qs)
           r == TurnsFrom(Ofs(known, qs))[1]
<1>5. s = [m \in 1 .. L |-> Spelling[qs[m]]]
  BY Zenon, <1>4 DEF SpeltOut
<1>6. \A m \in 1 .. L : Spelling[qs[m]] \in Seq(Token)
  BY Zenon, <1>4, SpellingIs
<1> HIDE DEF L, s
<1>7. s \in Seq(Seq(Token)) /\ Len(s) = L /\ \A m \in 1 .. L : s[m] = Spelling[qs[m]]
  <2> DEFINE P == Seq(Token)
  <2>1. \A m \in 1 .. L : Spelling[qs[m]] \in P
    BY <1>6
  <2> HIDE DEF P
  <2>2. s \in [1 .. L -> P] /\ L \in Nat
    BY <1>4, <1>5, <2>1 DEF L
  <2>3. s \in Seq(P) /\ Len(s) = L
    BY <2>2
  <2>4. \A m \in 1 .. L : s[m] = Spelling[qs[m]]
    BY <1>5
  <2> QED BY <2>3, <2>4 DEF P
<1>8. /\ frame.kind = kind /\ frame.acc = acc /\ frame.nested = s
  <2> HIDE DEF frame
  <2>1. frame = [kind |-> kind, acc |-> acc, text |-> <<>>, nested |-> s]
    BY Zenon, <1>2 DEF Evaluating, s
  <2> QED BY Zenon, <2>1
<1>9. Depth[p] \in Nat /\ Depth[p] > 0 /\ \A m \in 1 .. L : Depth[qs[m]] \in Nat
  <2>1. IsBraces(p)
    BY Zenon, PartAssumption
  <2>2. Depth[p] > 0
    BY Zenon, <2>1 DEF IsBraces
  <2>3. \A q \in Part : Depth[q] \in Nat
    BY DepthAssumption
  <2> QED BY Zenon, <1>4, <2>2, <2>3 DEF L
<1> DEFINE g == Depth[p] - 1
<1>10. g \in Nat /\ \A m \in 1 .. L : ~ qs[m].plain /\ Depth[qs[m]] <= g
  <2>1. \A m \in 1 .. L : ~ qs[m].plain /\ Depth[qs[m]] < Depth[p]
    BY Zenon, <1>3, <1>4 DEF L
  <2> QED BY <1>9, <2>1
<1>11. e => l <= Cardinality(Name) /\ (i + 1) + g <= Room(l)
  <2>1. i + Depth[p] <= i + h /\ (i + 1) + g = i + Depth[p]
    BY <1>9
  <2>2. Room(l) \in Nat
    BY Zenon, RoomIs
  <2> QED BY <1>9, <2>1, <2>2
<1> HIDE DEF g, frame
<1>12. Nested(frame.nested, qs, 1, g)
  <2>1. 1 \in 1 .. L + 1 /\ L = L + 1 - 1 /\ L \in Nat
    BY <1>4 DEF L
  <2>2. \A m \in 1 .. L : 1 - 1 + m = m
    BY <2>1
  <2>3. \A m \in 1 .. L : s[m] = Spelling[qs[1 - 1 + m]]
    BY Zenon, <1>7, <2>2
  <2>4. Len(s) = L + 1 - 1
    BY Zenon, <1>7, <2>1
  <2>5. \A m \in 1 .. Len(s) : s[m] = Spelling[qs[1 - 1 + m]]
    BY Zenon, <1>7, <2>3
  <2> QED BY Zenon, <1>3, <1>7, <1>8, <1>10, <2>1, <2>4, <2>5 DEF Nested, L
<1>13. r \in Outcome /\ Rest(known, frame, r, g)
  <2>1. r \in Outcome
    BY Zenon, <1>12, NestedStep DEF NextNested
  <2>2. Evaluates(known, frame, r, g)
    BY Zenon, <1>12 DEF Evaluates
  <2> QED BY Zenon, <1>2, <1>8, <2>1, <2>2 DEF Rest
<1>14. d = Owes(known, kind, acc, Text(<<>>), r)
  <2>1. Text(acc) \in Outcome
    BY Zenon, <1>2, OutcomesAre
  <2>2. Then(Text(acc), Text(<<>>)) = Text(acc)
    BY Zenon, <2>1, ThenNothing
  <2> QED BY Zenon, <1>2, <2>2 DEF Owes, InTurn
<1> QED BY Zenon, <1>2, <1>8, <1>10, <1>11, <1>13, <1>14 DEF Link, Left, frame

\* A Field, expanded from place i.
LEMMA FieldLink ==
  ASSUME NEW T, NEW e, NEW f, Ladder(T, e, f), NEW l \in Nat, NEW name \in DOMAIN f, NEW i \in Nat,
         ~ (e /\ T[l][name] = Endless), e => i <= Room(l)
  PROVE  Link(T, e, Expanding(f[name]), i + 1, l + 1, T[l][name], Text(<<>>))
<1> DEFINE known == T[l + 1]
           n == Tree[f[name]]
           frame == Expanding(f[name])
           d == T[l][name]
           m == l + 1
<1>1. m \in Nat
  OBVIOUS
<1>2. known \in Tables /\ f \in AllFields
  BY Zenon, <1>1 DEF Ladder
<1>3. n \in Trees /\ Spelled(n) = f[name]
  BY Zenon, <1>2, FieldsAre
<1>4. d = OfTree(known, n, FALSE) /\ (e => m <= Cardinality(Name))
  BY Zenon DEF Ladder
<1>5. RestOf(known, n, 1) \in Outcome /\ RestOf(known, n, 1) = d
  <2>1. 1 \in 1 .. Len(n.parts) + 1
    <3>1. Len(n.parts) \in Nat
      BY Zenon, <1>3, TextFromIs
    <3> QED BY <3>1
  <2> QED BY Zenon, <1>2, <1>3, <1>4, <2>1, RestOfIs
<1>6. frame.kind = "expand" /\ frame.acc = <<>> /\ frame.text = f[name] /\ frame.nested = <<>>
  BY Zenon DEF Expanding
<1>7. Expands(known, frame, d)
  <2>1. 1 \in 1 .. Len(n.parts) + 1
    <3>1. Len(n.parts) \in Nat
      BY Zenon, <1>3, TextFromIs
    <3> QED BY <3>1
  <2>2. frame.text = TextFrom(n)[1]
    BY Zenon, <1>3, <1>6, TextFromIs
  <2> QED BY Zenon, <1>3, <1>5, <1>6, <2>1, <2>2 DEF Expands
<1>8. e => m <= Cardinality(Name) /\ (i + 1) + Nesting <= Room(m)
  <2>1. Room(l) \in Nat /\ Room(m) = Room(l) + (Nesting + 1) /\ Nesting \in Nat
    BY Zenon, RoomIs
  <2> HIDE DEF m
  <2>2. ASSUME e PROVE (i + 1) + Nesting <= Room(m)
    <3>1. i <= Room(l)
      BY <2>2
    <3> QED BY <2>1, <3>1
  <2> QED BY <1>4, <2>2
<1> HIDE DEF frame, known, n
<1>9. d = Owes(known, "expand", <<>>, Text(<<>>), d)
  <2>1. d \in Outcome
    BY Zenon, <1>5
  <2> HIDE DEF d
  <2>2. Text(<<>>) \in Outcome
    BY Zenon, NoText, OutcomesAre
  <2>3. Then(Text(<<>>), Text(<<>>)) = Text(<<>>) /\ Then(Text(<<>>), d) = d
    BY Zenon, <2>1, <2>2, ThenNothing
  <2>4. Finish(known, "expand", d) = d
    BY Zenon DEF Finish
  <2> QED BY Zenon, <2>3, <2>4 DEF Owes
<1>10. d \in Outcome /\ Nesting \in Nat
  BY Zenon, <1>5, RoomIs
<1>11. Rest(known, frame, d, Nesting)
  BY Zenon, <1>6, <1>7 DEF Rest
<1>12. frame.acc \in Seq(Token)
  BY Zenon, <1>6, NoText
<1>13. d = Owes(known, frame.kind, frame.acc, Text(<<>>), d)
  BY Zenon, <1>6, <1>9
<1> HIDE DEF d
<1> QED BY Zenon, <1>1, <1>8, <1>10, <1>11, <1>12, <1>13 DEF Link, Left, frame, known, d

----------------------------------------------------------------------------
(* What each step makes of the topmost frame.                               *)

\* The topmost frame goes on as c, below a call that owes x.
Called(T, e, c, frame, i, l, m, d, x) ==
  x \in Outcome /\ Link(T, e, c, i, l, d, x) /\ Link(T, e, frame, i + 1, m, x, Text(<<>>))

LEMMA KindsDiffer ==
  /\ "expand" \notin {"raw", "env", "lookup"} /\ "found" \notin {"raw", "env", "lookup"}
  /\ "expand" # "found" /\ "raw" # "env" /\ "raw" # "lookup" /\ "env" # "lookup"
  OBVIOUS

\* The next brace of a text is called, or is not closed.
LEMMA BraceCalled ==
  ASSUME NEW T, NEW e, NEW frame, NEW i \in Nat, NEW l, NEW d,
         Link(T, e, frame, i, l, d, Text(<<>>)), T[l] \in Tables, IsFrame(frame),
         frame.kind = "expand", NEW b \in Opens(frame.text), \A k \in Opens(frame.text) : b <= k
  PROVE  /\ Shuts(frame.text, b) = {} => d = Error
         /\ Shuts(frame.text, b) # {} =>
              \A c : GoesBehind(c, frame, SubSeq(frame.text, 1, b - 1),
                                Behind(frame.text, Closing(frame.text, b))) =>
                \E x : Called(T, e, c, Evaluation[SubSeq(frame.text, b, Closing(frame.text, b))],
                              i, l, l, d, x)
<1> DEFINE known == T[l]
           t == frame.text
           acc == frame.acc
<1>1. l \in Nat /\ acc \in Seq(Token)
  BY Zenon DEF Link
<1>20. PICK r \in Outcome : \E h \in Nat : Left(T[l], e, frame, i, l, d, Text(<<>>), r, h)
  BY Zenon DEF Link
<1>2. PICK h \in Nat : Left(T[l], e, frame, i, l, d, Text(<<>>), r, h)
  BY Zenon, <1>20
<1>3. /\ Rest(known, frame, r, h)
      /\ d = Owes(known, "expand", acc, Text(<<>>), r)
      /\ e => l <= Cardinality(Name) /\ i + h <= Room(l)
  BY Zenon, <1>2 DEF Left
<1>4. Expands(known, frame, r) /\ h = Nesting
  BY Zenon, <1>3, KindsDiffer DEF Rest
<1>5. PICK n \in Trees : \E k \in 1 .. Len(n.parts) + 1 : t = TextFrom(n)[k] /\ r = RestOf(known, n, k)
  BY Zenon, <1>4 DEF Expands
<1>6. PICK k \in 1 .. Len(n.parts) + 1 : t = TextFrom(n)[k] /\ r = RestOf(known, n, k)
  BY Zenon, <1>5
<1>7. /\ Shuts(t, b) = {} => r = Error
      /\ Shuts(t, b) # {} => \E w, m : Found(n, k, b, w, m)
  BY Zenon, <1>6, NextBrace
<1>8. frame.nested = <<>>
  BY Zenon, <1>4 DEF Expands
<1>9. Shuts(t, b) = {} => d = Error
  <2>1. Then(Text(acc), Text(<<>>)) = Text(acc)
    <3>1. Text(acc) \in Outcome
      BY Zenon, <1>1, OutcomesAre
    <3> QED BY Zenon, <3>1, ThenNothing
  <2>2. Owes(known, "expand", acc, Text(<<>>), Error) = Error
    BY Zenon, <2>1, Thens, Texts DEF Owes, Finish
  <2> QED BY Zenon, <1>3, <1>7, <2>2
<1>10. ASSUME Shuts(t, b) # {}, NEW c,
              GoesBehind(c, frame, SubSeq(t, 1, b - 1), Behind(t, Closing(t, b)))
       PROVE  \E x : Called(T, e, c, Evaluation[SubSeq(t, b, Closing(t, b))], i, l, l, d, x)
  <2>1. PICK w, m : Found(n, k, b, w, m)
    BY Zenon, <1>7, <1>10
  <2> DEFINE p == n.parts[m]
             x == OfParts(known, FALSE)[p]
             s == RestOf(known, n, m + 1)
             u == TextFrom(n)[m + 1]
  <2>2. /\ m \in 1 .. Len(n.parts) /\ p \in Part /\ ~ p.plain /\ w \in Seq(Token)
        /\ SubSeq(t, 1, b - 1) = w
        /\ SubSeq(t, b, Closing(t, b)) = Spelling[p]
        /\ Behind(t, Closing(t, b)) = u
        /\ r = Then(Text(w), Then(x, s))
    BY Zenon, <1>6, <2>1 DEF Found
  <2>3. m + 1 \in 1 .. Len(n.parts) + 1
    <3>1. Len(n.parts) \in Nat
      BY Zenon, TextFromIs
    <3> QED BY <2>2, <3>1
  <2>4. x \in Outcome /\ s \in Outcome /\ u \in Seq(Token)
    BY Zenon, <2>2, <2>3, RestOfIs, TextFromIs
  <2>5. /\ c.kind = "expand" /\ c.acc = acc \o w /\ c.text = u /\ c.nested = <<>>
    <3>1. GoesBehind(c, frame, w, u)
      BY Zenon, <1>10, <2>2
    <3>2. Fits(c, frame.kind, acc \o w, u, frame.nested)
      BY Zenon, <2>4, <3>1, FrameExpanded
    <3> QED BY Zenon, <1>8, <3>2 DEF Fits
  <2>6. acc \o w \in Seq(Token)
    <3> HIDE DEF acc
    <3> QED BY <1>1, <2>2
  <2>7. d = Owes(known, "expand", acc \o w, x, s)
    <3>1. Carries(known, "expand", acc, w, x, s)
      BY Zenon, <1>1, <2>2, <2>4, OwesMore
    <3> QED BY Zenon, <1>3, <2>2, <3>1 DEF Carries
  <2>8. Rest(known, c, s, h)
    <3>1. Expands(known, c, s)
      BY Zenon, <2>3, <2>5 DEF Expands
    <3> QED BY Zenon, <1>4, <2>5, <3>1 DEF Rest
  <2>9. Link(T, e, c, i, l, d, x)
    <3>1. c.acc \in Seq(Token) /\ d = Owes(T[l], c.kind, c.acc, x, s)
      BY Zenon, <2>5, <2>6, <2>7
    <3> QED BY Zenon, <1>1, <1>3, <2>4, <2>8, <3>1 DEF Link, Left
  <2>10. Link(T, e, Evaluation[Spelling[p]], i + 1, l, x, Text(<<>>))
    <3>1. Depth[p] <= h
      BY <1>4, <2>2, DepthAssumption
    <3> QED BY Zenon, <1>1, <1>3, <2>2, <3>1, BraceLink
  <2>11. Called(T, e, c, Evaluation[Spelling[p]], i, l, l, d, x)
    BY Zenon, <2>4, <2>9, <2>10 DEF Called
  <2> QED BY Zenon, <2>2, <2>11
<1> QED BY Zenon, <1>9, <1>10

\* The next nested brace of a node is called.
LEMMA NestedCalled ==
  ASSUME NEW T, NEW e, NEW frame, NEW i \in Nat, NEW l, NEW d,
         Link(T, e, frame, i, l, d, Text(<<>>)), T[l] \in Tables, IsFrame(frame),
         frame.nested # <<>>, Tail(frame.nested) \in Seq(Closed)
  PROVE  \A c : GoesOver(c, frame, Tail(frame.nested)) =>
           \E x : Called(T, e, c, Evaluation[Head(frame.nested)], i, l, l, d, x)
<1> DEFINE known == T[l]
           acc == frame.acc
           kind == frame.kind
           u == frame.nested
<1>1. l \in Nat /\ acc \in Seq(Token)
  BY Zenon DEF Link
<1>20. PICK r \in Outcome : \E h \in Nat : Left(T[l], e, frame, i, l, d, Text(<<>>), r, h)
  BY Zenon DEF Link
<1>2. PICK h \in Nat : Left(T[l], e, frame, i, l, d, Text(<<>>), r, h)
  BY Zenon, <1>20
<1>3. /\ Rest(known, frame, r, h)
      /\ d = Owes(known, kind, acc, Text(<<>>), r)
      /\ e => l <= Cardinality(Name) /\ i + h <= Room(l)
  BY Zenon, <1>2 DEF Left
<1>4. kind \in {"raw", "env", "lookup"} /\ Evaluates(known, frame, r, h)
  BY Zenon, <1>3 DEF Rest, Expands
<1>5. PICK qs, j : Nested(u, qs, j, h) /\ r = TurnsFrom(Ofs(known, qs))[j]
  BY Zenon, <1>4 DEF Evaluates
<1> DEFINE p == qs[j]
           x == OfParts(known, FALSE)[p]
           s == TurnsFrom(Ofs(known, qs))[j + 1]
<1>6. /\ p \in Part /\ ~ p.plain /\ Depth[p] <= h
      /\ Head(u) = Spelling[p] /\ Nested(Tail(u), qs, j + 1, h)
      /\ x \in Outcome /\ s \in Outcome /\ r = Then(x, s)
  <2>1. NextNested(TurnsFrom(Ofs(known, qs)), u, qs, j, h, x)
    BY Zenon, <1>5, NestedStep
  <2> QED BY Zenon, <1>5, <2>1 DEF NextNested
<1>7. ASSUME NEW c, GoesOver(c, frame, Tail(u))
      PROVE  \E y : Called(T, e, c, Evaluation[Head(u)], i, l, l, d, y)
  <2>1. c.kind = kind /\ c.acc = acc /\ c.nested = Tail(u)
    <3>1. Fits(c, kind, acc, frame.text, Tail(u))
      BY Zenon, <1>7, FrameNested
    <3> QED BY Zenon, <3>1 DEF Fits
  <2>2. d = Owes(known, kind, acc, x, s)
    BY Zenon, <1>1, <1>3, <1>6, OwesNested
  <2>3. Rest(known, c, s, h)
    <3>1. Evaluates(known, c, s, h)
      BY Zenon, <1>6, <2>1 DEF Evaluates
    <3> QED BY Zenon, <1>4, <2>1, <3>1 DEF Rest
  <2>4. Link(T, e, c, i, l, d, x)
    BY Zenon, <1>1, <1>3, <1>6, <2>1, <2>2, <2>3 DEF Link, Left
  <2>5. Link(T, e, Evaluation[Spelling[p]], i + 1, l, x, Text(<<>>))
    BY Zenon, <1>1, <1>3, <1>6, BraceLink
  <2>6. Called(T, e, c, Evaluation[Spelling[p]], i, l, l, d, x)
    BY Zenon, <1>6, <2>4, <2>5 DEF Called
  <2> QED BY Zenon, <1>6, <2>6
<1> QED BY Zenon, <1>7

\* A frame with nothing left to do.
Finished(known, frame, d) == d = Finish(known, frame.kind, Text(frame.acc))

\* A frame with nothing left to do owes what it gathered, with its command applied.
LEMMA LinkDone ==
  ASSUME NEW T, NEW e, NEW frame, NEW i, NEW l, NEW d,
         Link(T, e, frame, i, l, d, Text(<<>>)), T[l] \in Tables,
         frame.kind # "expand", frame.nested = <<>>
  PROVE  frame.acc \in Seq(Token) /\ Finished(T[l], frame, d)
<1> DEFINE known == T[l]
           acc == frame.acc
           kind == frame.kind
<1>1. l \in Nat /\ acc \in Seq(Token)
  BY Zenon DEF Link
<1>20. PICK r \in Outcome : \E h \in Nat : Left(T[l], e, frame, i, l, d, Text(<<>>), r, h)
  BY Zenon DEF Link
<1>2. PICK h \in Nat : Left(T[l], e, frame, i, l, d, Text(<<>>), r, h)
  BY Zenon, <1>20
<1>3. /\ Rest(known, frame, r, h)
      /\ d = Owes(known, kind, acc, Text(<<>>), r)
      /\ e => l <= Cardinality(Name) /\ i + h <= Room(l)
  BY Zenon, <1>2 DEF Left
<1>4. r = Text(<<>>)
  <2>1. CASE Evaluates(known, frame, r, h)
    <3>1. PICK qs, j : Nested(frame.nested, qs, j, h) /\ r = TurnsFrom(Ofs(known, qs))[j]
      BY Zenon, <2>1 DEF Evaluates
    <3>2. NextNested(TurnsFrom(Ofs(known, qs)), frame.nested, qs, j, h, OfParts(known, FALSE)[qs[j]])
      BY Zenon, <3>1, NestedStep
    <3> QED BY Zenon, <3>1, <3>2 DEF NextNested
  <2>2. CASE r = Text(<<>>)
    BY <2>2
  <2> QED BY Zenon, <1>3, <2>1, <2>2 DEF Rest
<1>5. d = Finish(known, kind, Text(acc))
  BY Zenon, <1>1, <1>3, <1>4, OwesNothing
<1> QED BY Zenon, <1>1, <1>5 DEF Finished

\* No brace is left in a text.
LEMMA TextDone ==
  ASSUME NEW T, NEW e, NEW frame, NEW i, NEW l, NEW d,
         Link(T, e, frame, i, l, d, Text(<<>>)), T[l] \in Tables,
         frame.kind = "expand", Opens(frame.text) = {}
  PROVE  d = Text(frame.acc \o frame.text) /\ frame.acc \o frame.text \in Seq(Token)
<1> DEFINE known == T[l]
           acc == frame.acc
           t == frame.text
<1>1. l \in Nat /\ acc \in Seq(Token)
  BY Zenon DEF Link
<1>20. PICK r \in Outcome : \E h \in Nat : Left(T[l], e, frame, i, l, d, Text(<<>>), r, h)
  BY Zenon DEF Link
<1>2. PICK h \in Nat : Left(T[l], e, frame, i, l, d, Text(<<>>), r, h)
  BY Zenon, <1>20
<1>3. /\ Rest(known, frame, r, h)
      /\ d = Owes(known, "expand", acc, Text(<<>>), r)
      /\ e => l <= Cardinality(Name) /\ i + h <= Room(l)
  BY Zenon, <1>2 DEF Left
<1>4. Expands(known, frame, r)
  BY Zenon, <1>3, KindsDiffer DEF Rest
<1>5. PICK n \in Trees : \E k \in 1 .. Len(n.parts) + 1 : t = TextFrom(n)[k] /\ r = RestOf(known, n, k)
  BY Zenon, <1>4 DEF Expands
<1>6. PICK k \in 1 .. Len(n.parts) + 1 : t = TextFrom(n)[k] /\ r = RestOf(known, n, k)
  BY Zenon, <1>5
<1>7. r = Text(t) /\ t \in Seq(Token)
  BY Zenon, <1>6, NextBrace, TextFromIs
<1>8. acc \o t \in Seq(Token)
  <2> HIDE DEF acc, t
  <2> QED BY <1>1, <1>7
<1>9. d = Text(acc \o t)
  <2>1. Text(acc) \in Outcome
    BY Zenon, <1>1, OutcomesAre
  <2>2. Then(Text(acc), Text(<<>>)) = Text(acc)
    BY Zenon, <2>1, ThenNothing
  <2>3. Then(Text(acc), Text(t)) = Text(acc \o t)
    BY Zenon, Thens
  <2>4. Finish(known, "expand", Text(acc \o t)) = Text(acc \o t)
    BY Zenon DEF Finish
  <2> QED BY Zenon, <1>3, <1>7, <2>2, <2>3, <2>4 DEF Owes
<1> QED BY Zenon, <1>8, <1>9

\* The Field is found, and expanded one level further down.
LEMMA FieldCalled ==
  ASSUME NEW T, NEW e, NEW f, Ladder(T, e, f), NEW frame, NEW i \in Nat, NEW l, NEW d,
         Link(T, e, frame, i, l, d, Text(<<>>)), IsFrame(frame),
         frame.kind = "lookup", frame.nested = <<>>
  PROVE  /\ frame.acc \notin DOMAIN f => d = Error
         /\ frame.acc \in DOMAIN f /\ ~ (e /\ d = Endless) =>
              \A c : HasFound(c, frame) =>
                \E x : Called(T, e, c, Expanding(f[frame.acc]), i, l, l + 1, d, x)
<1> DEFINE acc == frame.acc
<1>1. l \in Nat /\ acc \in Seq(Token)
  BY Zenon DEF Link
<1>2. T[l] \in Tables /\ T[l] \in [DOMAIN f -> Outcome]
  BY Zenon, <1>1 DEF Ladder
<1>3. d = OfName(T[l], acc)
  <2>1. frame.kind # "expand"
    BY Zenon, KindsDiffer
  <2>2. d = Finish(T[l], "lookup", Text(acc))
    <3>1. Finished(T[l], frame, d)
      BY Zenon, <1>1, <1>2, <2>1, LinkDone
    <3> QED BY Zenon, <3>1 DEF Finished
  <2> QED BY Zenon, <2>2, FinishText
<1>4. DOMAIN T[l] = DOMAIN f
  BY <1>2
<1>5. acc \notin DOMAIN f => d = Error
  BY Zenon, <1>3, <1>4 DEF OfName
<1>60. PICK r \in Outcome : \E h \in Nat : Left(T[l], e, frame, i, l, d, Text(<<>>), r, h)
  BY Zenon DEF Link
<1>6. PICK h \in Nat : Left(T[l], e, frame, i, l, d, Text(<<>>), r, h)
  BY Zenon, <1>60
<1>7. /\ Rest(T[l], frame, r, h)
      /\ d = Owes(T[l], "lookup", acc, Text(<<>>), r)
      /\ e => l <= Cardinality(Name) /\ i + h <= Room(l)
  BY Zenon, <1>6 DEF Left
<1>8. e => i <= Room(l) /\ i + 0 <= Room(l)
  <2>1. Room(l) \in Nat
    BY Zenon, <1>1, RoomIs
  <2> QED BY <1>7, <2>1
<1>9. ASSUME acc \in DOMAIN f, ~ (e /\ d = Endless), NEW c, HasFound(c, frame)
      PROVE  \E x : Called(T, e, c, Expanding(f[acc]), i, l, l + 1, d, x)
  <2>1. d = T[l][acc] /\ d \in Outcome
    BY <1>2, <1>3, <1>4, <1>9 DEF OfName
  <2>2. c.kind = "found" /\ c.acc = <<>> /\ c.nested = <<>>
    <3>1. Fits(c, "found", <<>>, frame.text, frame.nested)
      BY Zenon, <1>9, FrameFound
    <3> QED BY Zenon, <3>1 DEF Fits
  <2>3. d = Owes(T[l], "found", <<>>, d, Text(<<>>))
    <3>1. Then(Text(<<>>), d) = d /\ Then(d, Text(<<>>)) = d
      BY Zenon, <2>1, ThenNothing
    <3>2. Finish(T[l], "found", d) = d
      BY Zenon DEF Finish
    <3> QED BY Zenon, <3>1, <3>2 DEF Owes
  <2>4. Link(T, e, c, i, l, d, d)
    <3>1. Text(<<>>) \in Outcome /\ 0 \in Nat /\ c.acc \in Seq(Token)
      BY Zenon, <2>2, NoText, OutcomesAre
    <3>2. Rest(T[l], c, Text(<<>>), 0)
      BY Zenon, <2>2 DEF Rest
    <3>3. d = Owes(T[l], c.kind, c.acc, d, Text(<<>>))
      BY Zenon, <2>2, <2>3
    <3> QED BY Zenon, <1>1, <1>7, <1>8, <3>1, <3>2, <3>3 DEF Link, Left
  <2>5. Link(T, e, Expanding(f[acc]), i + 1, l + 1, d, Text(<<>>))
    BY Zenon, <1>1, <1>8, <1>9, <2>1, FieldLink
  <2>6. Called(T, e, c, Expanding(f[acc]), i, l, l + 1, d, d)
    BY Zenon, <2>1, <2>4, <2>5 DEF Called
  <2> QED BY Zenon, <2>6
<1> QED BY Zenon, <1>5, <1>9

----------------------------------------------------------------------------
(* What the calls on a stack owe each other.                                *)

\* Each call on the stack owes due[i], knows T[lev[i]] and gets what the next one owes.
Chain(T, e, s, n, due, lev) ==
  /\ due \in [1 .. n + 1 -> Outcome] /\ due[n + 1] = Text(<<>>)
  /\ \A i \in 1 .. n : Link(T, e, s[i], i, lev[i], due[i], due[i + 1])

\* The outermost call owes v.
Follows(T, e, s, n, v) == \E due, lev : Chain(T, e, s, n, due, lev) /\ due[1] = v

LEMMA ChainTop ==
  ASSUME NEW T, NEW e, NEW s, NEW n \in Nat \ {0}, NEW due, NEW lev, Chain(T, e, s, n, due, lev)
  PROVE  Link(T, e, s[n], n, lev[n], due[n], Text(<<>>)) /\ due[n] \in Outcome
<1>1. n \in 1 .. n /\ n \in 1 .. n + 1
  OBVIOUS
<1>2. due \in [1 .. n + 1 -> Outcome] /\ due[n + 1] = Text(<<>>)
  BY Zenon DEF Chain
<1>3. Link(T, e, s[n], n, lev[n], due[n], due[n + 1])
  BY Zenon, <1>1 DEF Chain
<1>4. due[n] \in Outcome
  BY <1>1, <1>2
<1> QED BY Zenon, <1>2, <1>3, <1>4

\* A call keeps what the outermost call owes.
LEMMA ChainCall ==
  ASSUME NEW T, NEW e, NEW s, NEW n \in Nat \ {0}, NEW due, NEW lev, Chain(T, e, s, n, due, lev),
         NEW c, NEW frame, NEW m, NEW x, Called(T, e, c, frame, n, lev[n], m, due[n], x),
         NEW u, \A k \in 1 .. n - 1 : u[k] = s[k], u[n] = c, u[n + 1] = frame
  PROVE  Follows(T, e, u, n + 1, due[1])
<1> DEFINE due2 == [i \in 1 .. (n + 1) + 1 |-> IF i <= n THEN due[i] ELSE IF i = n + 1 THEN x ELSE Text(<<>>)]
           lev2 == [i \in 1 .. n + 1 |-> IF i <= n THEN lev[i] ELSE m]
           nothing == Text(<<>>)
<1>1. /\ due \in [1 .. n + 1 -> Outcome] /\ due[n + 1] = nothing
      /\ \A i \in 1 .. n : Link(T, e, s[i], i, lev[i], due[i], due[i + 1])
  BY Zenon DEF Chain
<1>2. x \in Outcome /\ Link(T, e, c, n, lev[n], due[n], x) /\ Link(T, e, frame, n + 1, m, x, nothing)
  BY Zenon DEF Called
<1>3. nothing \in Outcome
  BY Zenon, NoText, OutcomesAre
<1>4. due2 = [i \in 1 .. (n + 1) + 1 |-> IF i <= n THEN due[i] ELSE IF i = n + 1 THEN x ELSE nothing]
  OBVIOUS
<1> HIDE DEF due2, lev2, nothing
<1>5. /\ due2 \in [1 .. (n + 1) + 1 -> Outcome] /\ due2[(n + 1) + 1] = nothing
      /\ due2[n + 1] = x /\ \A i \in 1 .. n : due2[i] = due[i]
  BY <1>1, <1>2, <1>3, <1>4
<1>6. lev2[n + 1] = m /\ \A i \in 1 .. n : lev2[i] = lev[i]
  BY DEF lev2
<1>7. ASSUME NEW i \in 1 .. n + 1 PROVE Link(T, e, u[i], i, lev2[i], due2[i], due2[i + 1])
  <2>1. CASE i = n + 1
    BY Zenon, <1>2, <1>5, <1>6, <2>1
  <2>2. CASE i = n
    <3>1. n \in 1 .. n
      OBVIOUS
    <3> QED BY Zenon, <1>2, <1>5, <1>6, <2>2, <3>1
  <2>3. CASE i # n + 1 /\ i # n
    <3>1. i \in 1 .. n - 1 /\ i \in 1 .. n /\ i + 1 \in 1 .. n
      BY <2>3
    <3>2. u[i] = s[i] /\ lev2[i] = lev[i] /\ due2[i] = due[i] /\ due2[i + 1] = due[i + 1]
      BY Zenon, <1>5, <1>6, <3>1
    <3> QED BY Zenon, <1>1, <3>1, <3>2
  <2> QED BY <2>1, <2>2, <2>3
<1>8. Chain(T, e, u, n + 1, due2, lev2)
  BY Zenon, <1>5, <1>7 DEF Chain, nothing
<1>9. due2[1] = due[1]
  <2>1. 1 \in 1 .. n
    OBVIOUS
  <2> QED BY Zenon, <1>5, <2>1
<1> QED BY Zenon, <1>8, <1>9 DEF Follows

\* What a frame gets it gathers.
LEMMA LinkGets ==
  ASSUME NEW T, NEW e, NEW frame, NEW i, NEW l, NEW d, NEW t \in Seq(Token),
         Link(T, e, frame, i, l, d, Text(t)), NEW c, Gets(c, frame, t)
  PROVE  Link(T, e, c, i, l, d, Text(<<>>))
<1> DEFINE known == T[l]
           acc == frame.acc
<1>1. l \in Nat /\ acc \in Seq(Token)
  BY Zenon DEF Link
<1>2. PICK r \in Outcome : \E h \in Nat : Left(known, e, frame, i, l, d, Text(t), r, h)
  BY Zenon DEF Link
<1>3. PICK h \in Nat : Left(known, e, frame, i, l, d, Text(t), r, h)
  BY Zenon, <1>2
<1>4. /\ Rest(known, frame, r, h)
      /\ d = Owes(known, frame.kind, acc, Text(t), r)
      /\ e => l <= Cardinality(Name) /\ i + h <= Room(l)
  BY Zenon, <1>3 DEF Left
<1>5. c.kind = frame.kind /\ c.acc = acc \o t /\ c.text = frame.text /\ c.nested = frame.nested
  BY Zenon DEF Gets, Fits
<1>6. Rest(known, c, r, h)
  BY Zenon, <1>4, <1>5 DEF Rest, Expands, Evaluates
<1>7. d = Owes(known, c.kind, c.acc, Text(<<>>), r)
  <2>1. Takes(known, frame.kind, acc, t, r)
    BY Zenon, <1>1, OwesReturned
  <2> QED BY Zenon, <1>4, <1>5, <2>1 DEF Takes
<1>8. c.acc \in Seq(Token)
  <2> HIDE DEF acc
  <2>1. acc \o t \in Seq(Token)
    BY <1>1
  <2> QED BY Zenon, <1>5, <2>1
<1>9. Left(known, e, c, i, l, d, Text(<<>>), r, h)
  BY Zenon, <1>4, <1>6, <1>7 DEF Left
<1> QED BY Zenon, <1>1, <1>8, <1>9 DEF Link

\* So does a return.
LEMMA ChainReturn ==
  ASSUME NEW T, NEW e, NEW s, NEW n \in Nat, n > 1, NEW due, NEW lev, Chain(T, e, s, n, due, lev),
         NEW t \in Seq(Token), due[n] = Text(t),
         NEW u, \A k \in 1 .. (n - 1) - 1 : u[k] = s[k], Gets(u[n - 1], s[n - 1], t)
  PROVE  Follows(T, e, u, n - 1, due[1])
<1> DEFINE m == n - 1
           nothing == Text(<<>>)
           due2 == [i \in 1 .. m + 1 |-> IF i = m + 1 THEN nothing ELSE due[i]]
<1>1. /\ due \in [1 .. n + 1 -> Outcome]
      /\ \A i \in 1 .. n : Link(T, e, s[i], i, lev[i], due[i], due[i + 1])
  BY Zenon DEF Chain
<1>2. nothing \in Outcome
  BY Zenon, NoText, OutcomesAre
<1>3. m \in 1 .. n /\ m + 1 = n /\ m \in Nat
  OBVIOUS
<1>4. Link(T, e, s[m], m, lev[m], due[m], Text(t))
  BY Zenon, <1>1, <1>3
<1>5. Link(T, e, u[m], m, lev[m], due[m], nothing)
  BY Zenon, <1>4, LinkGets
<1> HIDE DEF nothing
<1>6. /\ due2 \in [1 .. m + 1 -> Outcome] /\ due2[m + 1] = nothing
      /\ \A i \in 1 .. m : due2[i] = due[i]
  <2> HIDE DEF m
  <2> QED BY <1>1, <1>2, <1>3
<1> HIDE DEF due2, m
<1>7. ASSUME NEW i \in 1 .. m PROVE Link(T, e, u[i], i, lev[i], due2[i], due2[i + 1])
  <2>1. CASE i = m
    BY Zenon, <1>5, <1>6, <2>1
  <2>2. CASE i # m
    <3>1. i \in 1 .. m - 1 /\ i + 1 \in 1 .. m /\ i \in 1 .. n
      BY <1>3, <2>2
    <3>2. u[i] = s[i] /\ due2[i] = due[i] /\ due2[i + 1] = due[i + 1]
      BY Zenon, <1>6, <3>1 DEF m
    <3> QED BY Zenon, <1>1, <3>1, <3>2
  <2> QED BY <2>1, <2>2
<1>8. Chain(T, e, u, m, due2, lev)
  BY Zenon, <1>6, <1>7 DEF Chain, nothing
<1>9. due2[1] = due[1]
  <2>1. 1 \in 1 .. m
    BY <1>3
  <2> QED BY Zenon, <1>6, <2>1
<1> QED BY Zenon, <1>8, <1>9 DEF Follows, m

PassedOn(due, n) == due[1] = due[n]

\* What is no text goes down to the outermost call as it is.
LEMMA ChainThrown ==
  ASSUME NEW T, NEW e, NEW s, NEW n \in Nat \ {0}, NEW due, NEW lev, Chain(T, e, s, n, due, lev),
         due[n] \in {Error, Endless}
  PROVE  PassedOn(due, n)
<1> DEFINE z == due[n]
           L == n - 1
           D == {j \in 0 .. L : due[n - j] = z}
<1>1. \A i \in 1 .. n : Link(T, e, s[i], i, lev[i], due[i], due[i + 1])
  BY Zenon DEF Chain
<1>2. z \in {Error, Endless}
  OBVIOUS
<1>3. ASSUME NEW i \in 1 .. n, due[i + 1] = z PROVE due[i] = z
  <2>1. Link(T, e, s[i], i, lev[i], due[i], z)
    BY Zenon, <1>1, <1>3
  <2> DEFINE d == due[i]
  <2>2. \E r \in Outcome : \E h \in Nat : Left(T[lev[i]], e, s[i], i, lev[i], d, z, r, h)
    BY Zenon, <2>1 DEF Link
  <2> HIDE DEF z
  <2>3. \E r : d = Owes(T[lev[i]], s[i].kind, s[i].acc, z, r)
    BY Zenon, <2>2 DEF Left
  <2>4. \A r : Passes(T[lev[i]], s[i].kind, s[i].acc, z, r)
    BY Zenon, <1>2, OwesThrown
  <2> QED BY Zenon, <2>3, <2>4 DEF Passes
<1>4. L \in Nat
  OBVIOUS
<1>5. 0 \in D
  <2>1. n - 0 = n
    OBVIOUS
  <2> QED BY <1>4, <2>1
<1> HIDE DEF z
<1>6. ASSUME NEW j \in 1 .. L, j - 1 \in D PROVE j \in D
  <2>1. n - j \in 1 .. n /\ n - (j - 1) = (n - j) + 1 /\ j \in 0 .. L
    OBVIOUS
  <2>2. due[n - (j - 1)] = z
    BY Zenon, <1>6
  <2>3. due[n - j] = z
    BY Zenon, <1>3, <2>1, <2>2
  <2> QED BY <2>1, <2>3
<1>7. D = 0 .. L
  <2>1. D \in SUBSET (0 .. L)
    OBVIOUS
  <2> HIDE DEF D, L
  <2> QED BY <1>4, <1>5, <1>6, <2>1, UpToInduction
<1>8. L \in 0 .. L /\ n - L = 1
  OBVIOUS
<1>9. L \in D
  BY Zenon, <1>7, <1>8
<1>10. due[n - L] = z
  BY Zenon, <1>9
<1>11. due[1] = z
  BY Zenon, <1>8, <1>10
<1> QED BY Zenon, <1>11 DEF PassedOn, z

----------------------------------------------------------------------------
(* What a reading comes to.                                                 *)

\* What the phase says of v, which the outermost call owes.
Comes(T, e, v, ph, s, ans) ==
  \/ e /\ v = Endless
  \/ /\ ph = "reading" => Follows(T, e, s, Len(s), v)
     /\ ph = "returned" => v = Text(ans)
     /\ ph = "thrown" => v = Error
     /\ ph = "died" => ~ e

LEMMA PhasesDiffer ==
  /\ "reading" # "returned" /\ "reading" # "thrown" /\ "reading" # "died"
  /\ "returned" # "thrown" /\ "returned" # "died" /\ "thrown" # "died"
  /\ "idle" # "reading" /\ "idle" # "returned" /\ "idle" # "thrown" /\ "idle" # "died"
  OBVIOUS

\* A call that fits on the stack keeps what the reading comes to; one that does not was
\* not known to end.
LEMMA CallComes ==
  ASSUME Reading, phase = "reading", NEW T, NEW e \in BOOLEAN, NEW due, NEW lev,
         Chain(T, e, stack, Len(stack), due, lev), NEW c, NEW frame, NEW m, NEW x,
         Called(T, e, c, frame, Len(stack), lev[Len(stack)], m, due[Len(stack)], x),
         Call(c, frame)
  PROVE  Comes(T, e, due[1], phase', stack', answer')
<1> DEFINE n == Len(stack)
<1>1. n \in Nat \ {0} /\ n >= 1 /\ Frames(stack)
  BY TopIs
<1>2. CASE Full
  <2>1. phase' = "died"
    BY Zenon, <1>2 DEF Call
  <2>2. ~ e
    <3> SUFFICES ASSUME e PROVE FALSE
      BY Zenon
    <3>1. Link(T, e, frame, n + 1, m, x, Text(<<>>))
      BY Zenon DEF Called
    <3>2. m \in Nat /\ \E r \in Outcome : \E h \in Nat : Left(T[m], e, frame, n + 1, m, x, Text(<<>>), r, h)
      BY Zenon, <3>1 DEF Link
    <3>3. \E h \in Nat : m <= Cardinality(Name) /\ (n + 1) + h <= Room(m)
      BY Zenon, <3>2 DEF Left
    <3>4. Room(m) \in Nat /\ Room(m) <= MaxCalls /\ MaxCalls \in Nat
      BY Zenon, <3>2, <3>3, RoomIs
    <3>5. n >= MaxCalls
      BY <1>2 DEF Full
    <3> HIDE DEF n
    <3> QED BY <1>1, <3>3, <3>4, <3>5
  <2> QED BY Zenon, <2>1, <2>2, PhasesDiffer DEF Comes
<1>3. CASE ~ Full
  <2>1. phase' = "reading" /\ stack' = Append([stack EXCEPT ![Len(stack)] = c], frame)
    BY Zenon, <1>3 DEF Call
  <2>2. Pushed(stack', stack, c, frame)
    BY Zenon, <1>1, <2>1, CallPushes
  <2>3. /\ Len(stack') = n + 1
        /\ \A k \in 1 .. n - 1 : stack'[k] = stack[k]
        /\ stack'[n] = c /\ stack'[n + 1] = frame
    BY Zenon, <2>2 DEF Pushed
  <2>4. Follows(T, e, stack', n + 1, due[1])
    BY Zenon, <1>1, <2>3, ChainCall
  <2> QED BY Zenon, <2>1, <2>3, <2>4, PhasesDiffer DEF Comes
<1> QED BY Zenon, <1>2, <1>3

\* A return keeps it, and what the outermost call returns is what it owed.
LEMMA ReturnComes ==
  ASSUME Reading, phase = "reading", NEW T, NEW e \in BOOLEAN, NEW due, NEW lev,
         Chain(T, e, stack, Len(stack), due, lev), NEW t \in Seq(Token), due[Len(stack)] = Text(t),
         Return(t)
  PROVE  Comes(T, e, due[1], phase', stack', answer')
<1> DEFINE n == Len(stack)
<1>1. n \in Nat /\ n >= 1 /\ Frames(stack)
  BY TopIs
<1>2. CASE n = 1
  <2>1. phase' = "returned" /\ answer' = t
    BY Zenon, <1>2 DEF Return
  <2>2. due[1] = Text(t)
    BY Zenon, <1>2
  <2> QED BY Zenon, <2>1, <2>2, PhasesDiffer DEF Comes
<1>3. CASE n # 1
  <2>1. phase' = "reading" /\ stack' = [SubSeq(stack, 1, Len(stack) - 1) EXCEPT ![Len(stack) - 1].acc = @ \o t]
    BY <1>3 DEF Return
  <2>2. n > 1
    <3> HIDE DEF n
    <3> QED BY <1>1, <1>3
  <2>3. /\ Len(stack') = n - 1
        /\ \A k \in 1 .. (n - 1) - 1 : stack'[k] = stack[k]
        /\ Gets(stack'[n - 1], stack[n - 1], t)
    <3> DEFINE s == stack
               m == Len(s) - 1
               after == [SubSeq(s, 1, m) EXCEPT ![m].acc = @ \o t]
    <3>1. Frames(s) /\ Len(s) > 1
      BY Zenon, <1>1, <2>2
    <3>2. stack' = after
      BY <2>1
    <3> HIDE DEF s
    <3>3. /\ Len(after) = m /\ \A k \in 1 .. m - 1 : after[k] = s[k]
          /\ Gets(after[m], s[m], t)
      BY <3>1, ReturnFrames
    <3> HIDE DEF after, m
    <3>4. m = n - 1
      BY DEF m, s
    <3> QED BY Zenon, <3>2, <3>3, <3>4 DEF s
  <2>4. Follows(T, e, stack', n - 1, due[1])
    BY Zenon, <1>1, <2>2, <2>3, ChainReturn
  <2> QED BY Zenon, <2>1, <2>3, <2>4, PhasesDiffer DEF Comes
<1> QED BY Zenon, <1>2, <1>3

\* An exception was owed.
LEMMA ThrowComes ==
  ASSUME Reading, phase = "reading", NEW T, NEW e \in BOOLEAN, NEW due, NEW lev,
         Chain(T, e, stack, Len(stack), due, lev), due[Len(stack)] = Error, Throw
  PROVE  Comes(T, e, due[1], phase', stack', answer')
<1>1. Len(stack) \in Nat \ {0}
  BY TopIs
<1>2. due[Len(stack)] \in {Error, Endless}
  BY Zenon
<1>3. due[1] = due[Len(stack)]
  <2>1. PassedOn(due, Len(stack))
    BY Zenon, <1>1, <1>2, ChainThrown
  <2> QED BY Zenon, <2>1 DEF PassedOn
<1>4. phase' = "thrown"
  BY Zenon DEF Throw
<1> QED BY Zenon, <1>3, <1>4, PhasesDiffer DEF Comes

\* The topmost frame and what it owes.
LEMMA TopOwes ==
  ASSUME Reading, phase = "reading", NEW T, NEW e \in BOOLEAN, Ladder(T, e, field), NEW due, NEW lev,
         Chain(T, e, stack, Len(stack), due, lev)
  PROVE  LET n == Len(stack)
         IN  /\ n \in Nat /\ n \in Nat \ {0} /\ IsFrame(Top) /\ Top = stack[n]
             /\ Link(T, e, Top, n, lev[n], due[n], Text(<<>>)) /\ due[n] \in Outcome
             /\ lev[n] \in Nat /\ T[lev[n]] \in Tables
<1> DEFINE n == Len(stack)
<1>1. n \in Nat /\ n \in Nat \ {0} /\ IsFrame(Top)
  BY TopIs
<1>2. Top = stack[n]
  BY Zenon DEF Top
<1>3. Link(T, e, Top, n, lev[n], due[n], Text(<<>>)) /\ due[n] \in Outcome
  BY Zenon, <1>1, <1>2, ChainTop
<1>4. lev[n] \in Nat
  BY Zenon, <1>3 DEF Link
<1>5. T[lev[n]] \in Tables
  BY Zenon, <1>4 DEF Ladder
<1> QED BY Zenon, <1>1, <1>2, <1>3, <1>4, <1>5

\* The steps of expand_all and evaluate, one by one.
LEMMA ExpandBraceComes ==
  ASSUME Reading, phase = "reading", NEW T, NEW e \in BOOLEAN, Ladder(T, e, field), NEW due, NEW lev,
         Chain(T, e, stack, Len(stack), due, lev), ExpandBrace
  PROVE  Comes(T, e, due[1], phase', stack', answer')
<1> DEFINE n == Len(stack)
           t == Top.text
<1>1. /\ n \in Nat /\ IsFrame(Top)
      /\ Link(T, e, Top, n, lev[n], due[n], Text(<<>>)) /\ T[lev[n]] \in Tables
  BY Zenon, TopOwes
<1>2. Top.kind = "expand" /\ \E i \in Opens(t) :
        /\ \A k \in Opens(t) : i <= k
        /\ \/ Shuts(t, i) = {} /\ Throw
           \/ \E j \in Shuts(t, i) :
                /\ j = Closing(t, i)
                /\ Call([Top EXCEPT !.acc = @ \o SubSeq(t, 1, i - 1), !.text = Behind(t, j)],
                        Evaluation[SubSeq(t, i, j)])
  BY Zenon DEF ExpandBrace
<1>3. PICK i \in Opens(t) :
        /\ \A k \in Opens(t) : i <= k
        /\ \/ Shuts(t, i) = {} /\ Throw
           \/ \E j \in Shuts(t, i) :
                /\ j = Closing(t, i)
                /\ Call([Top EXCEPT !.acc = @ \o SubSeq(t, 1, i - 1), !.text = Behind(t, j)],
                        Evaluation[SubSeq(t, i, j)])
  BY Zenon, <1>2
<1>4. CASE Shuts(t, i) = {} /\ Throw
  <2>1. due[n] = Error
    BY Zenon, <1>1, <1>2, <1>3, <1>4, BraceCalled
  <2> QED BY Zenon, <1>4, <2>1, ThrowComes
<1>5. ASSUME NEW j \in Shuts(t, i), j = Closing(t, i),
             Call([Top EXCEPT !.acc = @ \o SubSeq(t, 1, i - 1), !.text = Behind(t, j)],
                  Evaluation[SubSeq(t, i, j)])
      PROVE  Comes(T, e, due[1], phase', stack', answer')
  <2> DEFINE f == Top
             w == SubSeq(t, 1, i - 1)
             u == Behind(t, j)
             c == [f EXCEPT !.acc = @ \o w, !.text = u]
             frame == Evaluation[SubSeq(t, i, j)]
  <2>1. GoesBehind(c, f, w, u)
    BY Zenon DEF GoesBehind
  <2>2. Call(c, frame)
    BY Zenon, <1>5
  <2> HIDE DEF c
  <2>3. \E x : Called(T, e, c, frame, n, lev[n], lev[n], due[n], x)
    BY Zenon, <1>1, <1>2, <1>3, <1>5, <2>1, BraceCalled
  <2> QED BY Zenon, <2>2, <2>3, CallComes
<1> QED BY Zenon, <1>3, <1>4, <1>5

LEMMA EvaluateNestedComes ==
  ASSUME Reading, phase = "reading", NEW T, NEW e \in BOOLEAN, Ladder(T, e, field), NEW due, NEW lev,
         Chain(T, e, stack, Len(stack), due, lev), EvaluateNested
  PROVE  Comes(T, e, due[1], phase', stack', answer')
<1> DEFINE n == Len(stack)
           f == Top
           nested == f.nested
           c == [f EXCEPT !.nested = Tail(nested)]
           frame == Evaluation[Head(nested)]
<1>1. /\ n \in Nat /\ IsFrame(f)
      /\ Link(T, e, f, n, lev[n], due[n], Text(<<>>)) /\ T[lev[n]] \in Tables
  BY Zenon, TopOwes
<1>2. nested # <<>> /\ Call(c, frame)
  BY Zenon DEF EvaluateNested
<1>3. Tail(nested) \in Seq(Closed)
  <2>1. nested \in Seq(Closed)
    BY Zenon, <1>1 DEF IsFrame
  <2> HIDE DEF nested
  <2> QED BY <1>2, <2>1
<1>4. GoesOver(c, f, Tail(nested))
  BY Zenon DEF GoesOver
<1> HIDE DEF c
<1>5. \E x : Called(T, e, c, frame, n, lev[n], lev[n], due[n], x)
  BY Zenon, <1>1, <1>2, <1>3, <1>4, NestedCalled
<1> QED BY Zenon, <1>2, <1>5, CallComes

LEMMA LookUpComes ==
  ASSUME Reading, phase = "reading", NEW T, NEW e \in BOOLEAN, Ladder(T, e, field), NEW due, NEW lev,
         Chain(T, e, stack, Len(stack), due, lev), LookUp
  PROVE  Comes(T, e, due[1], phase', stack', answer')
<1> DEFINE n == Len(stack)
           f == Top
           c == [f EXCEPT !.kind = "found", !.acc = <<>>]
           frame == Expanding(field[f.acc])
<1>1. /\ n \in Nat /\ n \in Nat \ {0} /\ IsFrame(f)
      /\ Link(T, e, f, n, lev[n], due[n], Text(<<>>))
  BY Zenon, TopOwes
<1>2. f.kind = "lookup" /\ f.nested = <<>>
  BY Zenon DEF LookUp
<1>3. CASE f.acc \notin DOMAIN field
  <2>1. due[n] = Error
    BY Zenon, <1>1, <1>2, <1>3, FieldCalled
  <2> QED BY Zenon, <1>3, <2>1, ThrowComes DEF LookUp
<1>4. CASE e /\ due[n] = Endless
  <2>1. due[n] \in {Error, Endless}
    BY Zenon, <1>4
  <2>2. due[1] = Endless
    <3>1. PassedOn(due, n)
      BY Zenon, <1>1, <2>1, ChainThrown
    <3> QED BY Zenon, <1>4, <3>1 DEF PassedOn
  <2> QED BY Zenon, <1>4, <2>2 DEF Comes
<1>5. CASE f.acc \in DOMAIN field /\ ~ (e /\ due[n] = Endless)
  <2>1. Call(c, frame)
    BY Zenon, <1>5 DEF LookUp
  <2>2. HasFound(c, f)
    BY Zenon DEF HasFound
  <2> HIDE DEF c
  <2>3. \E x : Called(T, e, c, frame, n, lev[n], lev[n] + 1, due[n], x)
    BY Zenon, <1>1, <1>2, <1>5, <2>2, FieldCalled
  <2> QED BY Zenon, <2>1, <2>3, CallComes
<1> QED BY Zenon, <1>3, <1>4, <1>5

LEMMA ExpandRestComes ==
  ASSUME Reading, phase = "reading", NEW T, NEW e \in BOOLEAN, Ladder(T, e, field), NEW due, NEW lev,
         Chain(T, e, stack, Len(stack), due, lev), ExpandRest
  PROVE  Comes(T, e, due[1], phase', stack', answer')
<1> DEFINE n == Len(stack)
           t == Top.acc \o Top.text
<1>1. Link(T, e, Top, n, lev[n], due[n], Text(<<>>)) /\ T[lev[n]] \in Tables
  BY Zenon, TopOwes
<1>2. Top.kind = "expand" /\ Opens(Top.text) = {} /\ Return(t)
  BY Zenon DEF ExpandRest
<1>3. due[n] = Text(t) /\ t \in Seq(Token)
  BY Zenon, <1>1, <1>2, TextDone
<1> HIDE DEF t
<1> QED BY Zenon, <1>2, <1>3, ReturnComes

\* What a node comes to that has nothing left to evaluate.
LEMMA TopFinished ==
  ASSUME Reading, phase = "reading", NEW T, NEW e \in BOOLEAN, Ladder(T, e, field), NEW due, NEW lev,
         Chain(T, e, stack, Len(stack), due, lev), Top.kind # "expand", Top.nested = <<>>
  PROVE  Top.acc \in Seq(Token) /\ Finished(T[lev[Len(stack)]], Top, due[Len(stack)])
<1> DEFINE n == Len(stack)
<1>1. Link(T, e, Top, n, lev[n], due[n], Text(<<>>)) /\ T[lev[n]] \in Tables
  BY Zenon, TopOwes
<1> QED BY Zenon, <1>1, LinkDone

LEMMA EvaluateRawComes ==
  ASSUME Reading, phase = "reading", NEW T, NEW e \in BOOLEAN, Ladder(T, e, field), NEW due, NEW lev,
         Chain(T, e, stack, Len(stack), due, lev), EvaluateRaw
  PROVE  Comes(T, e, due[1], phase', stack', answer')
<1>1. Top.kind = "raw" /\ Top.nested = <<>> /\ Return(Top.acc)
  BY Zenon DEF EvaluateRaw
<1>2. Top.acc \in Seq(Token) /\ Finished(T[lev[Len(stack)]], Top, due[Len(stack)])
  BY Zenon, <1>1, TopFinished
<1>3. due[Len(stack)] = Text(Top.acc)
  BY Zenon, <1>1, <1>2, FinishText DEF Finished
<1> QED BY Zenon, <1>1, <1>2, <1>3, ReturnComes

LEMMA LookedUpComes ==
  ASSUME Reading, phase = "reading", NEW T, NEW e \in BOOLEAN, Ladder(T, e, field), NEW due, NEW lev,
         Chain(T, e, stack, Len(stack), due, lev), LookedUp
  PROVE  Comes(T, e, due[1], phase', stack', answer')
<1>1. Top.kind = "found" /\ Return(Top.acc)
  BY Zenon DEF LookedUp
<1>2. Top.nested = <<>>
  <2> DEFINE n == Len(stack)
  <2>1. Link(T, e, Top, n, lev[n], due[n], Text(<<>>))
    BY Zenon, TopOwes
  <2>2. \E r \in Outcome : \E h \in Nat : Left(T[lev[n]], e, Top, n, lev[n], due[n], Text(<<>>), r, h)
    BY Zenon, <2>1 DEF Link
  <2>3. \E r, h : Rest(T[lev[n]], Top, r, h)
    BY Zenon, <2>2 DEF Left
  <2> QED BY Zenon, <1>1, <2>3, KindsDiffer DEF Rest
<1>3. Top.acc \in Seq(Token) /\ Finished(T[lev[Len(stack)]], Top, due[Len(stack)])
  BY Zenon, <1>1, <1>2, KindsDiffer, TopFinished
<1>4. due[Len(stack)] = Text(Top.acc)
  BY Zenon, <1>1, <1>3 DEF Finished, Finish
<1> QED BY Zenon, <1>1, <1>3, <1>4, ReturnComes

LEMMA EvaluateEnvComes ==
  ASSUME Reading, phase = "reading", NEW T, NEW e \in BOOLEAN, Ladder(T, e, field), NEW due, NEW lev,
         Chain(T, e, stack, Len(stack), due, lev), EvaluateEnv
  PROVE  Comes(T, e, due[1], phase', stack', answer')
<1> DEFINE a == Top.acc
           v == IF a \in DOMAIN Env THEN Env[a] ELSE <<>>
<1>1. Top.kind = "env" /\ Top.nested = <<>> /\ IF a = <<>> THEN Throw ELSE Return(v)
  BY Zenon DEF EvaluateEnv
<1>2. a \in Seq(Token) /\ Finished(T[lev[Len(stack)]], Top, due[Len(stack)])
  BY Zenon, <1>1, TopFinished
<1>3. due[Len(stack)] = OfEnv(a)
  BY Zenon, <1>1, <1>2, FinishText DEF Finished
<1>4. CASE a = <<>>
  <2>1. due[Len(stack)] = Error
    BY Zenon, <1>3, <1>4 DEF OfEnv
  <2> QED BY Zenon, <1>1, <1>4, <2>1, ThrowComes
<1>5. CASE a # <<>>
  <2>1. due[Len(stack)] = Text(v)
    BY Zenon, <1>3, <1>5 DEF OfEnv
  <2>2. v \in Seq(Token)
    BY Zenon, EnvAssumption, NoText
  <2>3. Return(v)
    BY Zenon, <1>1, <1>5
  <2> HIDE DEF v
  <2> QED BY Zenon, <2>1, <2>2, <2>3, ReturnComes
<1> QED BY <1>4, <1>5

\* Every step of a reading keeps what it comes to.
LEMMA EvaluateComes ==
  ASSUME Reading, phase = "reading", NEW T, NEW e \in BOOLEAN, Ladder(T, e, field), NEW v,
         Comes(T, e, v, phase, stack, answer), Evaluate
  PROVE  Comes(T, e, v, phase', stack', answer')
<1>1. CASE e /\ v = Endless
  BY Zenon, <1>1 DEF Comes
<1>2. CASE Follows(T, e, stack, Len(stack), v)
  <2>1. PICK due, lev : Chain(T, e, stack, Len(stack), due, lev) /\ due[1] = v
    BY Zenon, <1>2 DEF Follows
  <2>2. Comes(T, e, due[1], phase', stack', answer')
    BY Zenon, <2>1, ExpandBraceComes, ExpandRestComes, EvaluateNestedComes, EvaluateRawComes,
       EvaluateEnvComes, LookUpComes, LookedUpComes DEF Evaluate
  <2> QED BY Zenon, <2>1, <2>2
<1> QED BY Zenon, <1>1, <1>2 DEF Comes

\* A reading begins with what the Field stands for.
LEMMA ReadComes ==
  ASSUME Reading, NEW T, NEW e \in BOOLEAN, Ladder(T, e, field), NEW f \in Name, Read(f)
  PROVE  Comes(T, e, T[0][f], phase', stack', answer')
<1> DEFINE frame == Expanding(field[f])
           v == T[0][f]
           nothing == Text(<<>>)
<1>1. f \in DOMAIN field /\ phase' = "reading" /\ stack' = <<frame>>
  BY Zenon DEF Read
<1>2. CASE e /\ v = Endless
  BY Zenon, <1>2 DEF Comes
<1>3. CASE ~ (e /\ v = Endless)
  <2>1. 0 \in Nat /\ 0 + 1 = 1 /\ 0 <= Room(0)
    BY RoomIs
  <2>2. Link(T, e, frame, 0 + 1, 0 + 1, v, nothing)
    BY Zenon, <1>1, <1>3, <2>1, FieldLink
  <2>3. Link(T, e, frame, 1, 1, v, nothing)
    BY Zenon, <2>1, <2>2
  <2>4. v \in Outcome /\ nothing \in Outcome
    <3>1. T[0] \in [DOMAIN field -> Outcome]
      BY Zenon, <2>1 DEF Ladder
    <3>2. v \in Outcome
      BY <1>1, <3>1
    <3> QED BY Zenon, <3>2, NoText, OutcomesAre
  <2> DEFINE due == [i \in 1 .. 1 + 1 |-> IF i = 1 THEN v ELSE nothing]
             lev == [i \in 1 .. 1 |-> 1]
             s == <<frame>>
  <2> HIDE DEF frame, v, nothing
  <2>5. due \in [1 .. 1 + 1 -> Outcome] /\ due[1] = v /\ due[1 + 1] = nothing
    BY <2>4
  <2>6. lev[1] = 1 /\ s[1] = frame /\ Len(s) = 1
    OBVIOUS
  <2> HIDE DEF due, lev, s
  <2>7. \A i \in 1 .. 1 : Link(T, e, s[i], i, lev[i], due[i], due[i + 1])
    <3>1. Link(T, e, s[1], 1, lev[1], due[1], due[1 + 1])
      BY Zenon, <2>3, <2>5, <2>6
    <3>2. \A i \in 1 .. 1 : i = 1
      OBVIOUS
    <3> QED BY Zenon, <3>1, <3>2
  <2>8. Chain(T, e, s, 1, due, lev)
    BY Zenon, <2>5, <2>7 DEF Chain, nothing
  <2>9. Follows(T, e, s, Len(s), v)
    BY Zenon, <2>5, <2>6, <2>8 DEF Follows
  <2>10. stack' = s
    BY Zenon, <1>1 DEF s, frame
  <2> QED BY Zenon, <1>1, <2>9, <2>10, PhasesDiffer DEF Comes, v
<1> QED BY Zenon, <1>2, <1>3

----------------------------------------------------------------------------
(* The invariant.                                                           *)

\* What a reading comes to, by what the Fields stand for in the end, and by what
\* they stand for within as many steps as the stack has room for.
Telling ==
  phase # "idle" =>
    /\ asked \in DOMAIN field
    /\ Comes(Settles(field), FALSE, Settles(field)[0][asked], phase, stack, answer)
    /\ Comes(Descent(field), TRUE, Descent(field)[0][asked], phase, stack, answer)

LEMMA ReadTells == ASSUME Reading, Telling, NEW f \in Name, Read(f) PROVE Telling'
<1> DEFINE A == Settles(field)
           B == Descent(field)
<1>1. field \in AllFields
  BY Zenon DEF Reading, AllFields
<1>2. Ladder(A, FALSE, field) /\ Ladder(B, TRUE, field)
  BY Zenon, <1>1, SettlesIs, DescentIs
<1>3. field' = field /\ asked' = f /\ f \in DOMAIN field
  BY Zenon DEF Read
<1>4. FALSE \in BOOLEAN /\ TRUE \in BOOLEAN
  OBVIOUS
<1>5. /\ Comes(A, FALSE, A[0][f], phase', stack', answer')
      /\ Comes(B, TRUE, B[0][f], phase', stack', answer')
  <2> HIDE DEF A, B
  <2> QED BY Zenon, <1>2, <1>4, ReadComes
<1> QED BY Zenon, <1>3, <1>5 DEF Telling

LEMMA EvaluateTells == ASSUME Reading, Telling, Evaluate PROVE Telling'
<1> DEFINE A == Settles(field)
           B == Descent(field)
<1>1. field \in AllFields
  BY Zenon DEF Reading, AllFields
<1>2. Ladder(A, FALSE, field) /\ Ladder(B, TRUE, field)
  BY Zenon, <1>1, SettlesIs, DescentIs
<1>3. phase = "reading"
  BY Zenon DEF Evaluate, ExpandBrace, ExpandRest, EvaluateNested, EvaluateRaw, EvaluateEnv,
     LookUp, LookedUp
<1>4. field' = field /\ asked' = asked
  BY Zenon DEF Evaluate, ExpandBrace, ExpandRest, EvaluateNested, EvaluateRaw, EvaluateEnv,
     LookUp, LookedUp, Call, Return, Throw
<1>5. /\ asked \in DOMAIN field
      /\ Comes(A, FALSE, A[0][asked], phase, stack, answer)
      /\ Comes(B, TRUE, B[0][asked], phase, stack, answer)
  BY Zenon, <1>3, PhasesDiffer DEF Telling
<1>6. FALSE \in BOOLEAN /\ TRUE \in BOOLEAN
  OBVIOUS
<1>7. /\ Comes(A, FALSE, A[0][asked], phase', stack', answer')
      /\ Comes(B, TRUE, B[0][asked], phase', stack', answer')
  <2> HIDE DEF A, B
  <2> QED BY Zenon, <1>2, <1>3, <1>5, <1>6, EvaluateComes
<1> QED BY Zenon, <1>4, <1>5, <1>7 DEF Telling

LEMMA InitTelling == Init => Telling
  BY Zenon DEF Init, Telling

LEMMA NextTelling == Reading /\ Telling /\ [Next]_vars => Telling'
<1> SUFFICES ASSUME Reading, Telling, [Next]_vars PROVE Telling'
  OBVIOUS
<1>1. CASE \E f \in Name : Read(f)
  BY Zenon, <1>1, ReadTells
<1>2. CASE Evaluate
  BY Zenon, <1>2, EvaluateTells
<1>3. CASE UNCHANGED vars
  BY Zenon, <1>3 DEF vars, Telling
<1> QED BY Zenon, <1>1, <1>2, <1>3 DEF Next

\* What the Field stands for in the end, told by both ladders.
LEMMA TellsMeaning ==
  ASSUME Reading, Telling
  PROVE  AnswerIsMeaning /\ ThrownWithCause /\ DiesInCircle
<1> DEFINE C == Cardinality(Name)
           w == Within(field, FALSE)
<1>1. C \in Nat
  BY Zenon, RoomIs
<1>2. Meaning = w[C][asked]
  BY Zenon DEF Meaning, MeaningOf
<1> HIDE DEF w, C
<1>3. Settles(field)[0] = w[C]
  BY DEF Settles, w, C
<1>4. Descent(field)[0] = w[C]
  <2>1. Descent(field) = [l \in Nat |-> w[IF l <= C THEN C - l ELSE 0]]
    BY Zenon DEF Descent, w, C
  <2>2. Descent(field)[0] = w[IF 0 <= C THEN C - 0 ELSE 0]
    BY <2>1
  <2> DEFINE k == IF 0 <= C THEN C - 0 ELSE 0
  <2>3. k = C
    BY <1>1
  <2>4. Descent(field)[0] = w[k]
    BY Zenon, <2>2
  <2> HIDE DEF k
  <2> QED BY <2>3, <2>4
<1>5. phase # "idle" =>
        /\ phase = "returned" => Meaning = Text(answer)
        /\ phase = "thrown" => Meaning = Error
        /\ phase = "died" => Meaning = Endless
  BY Zenon, <1>2, <1>3, <1>4 DEF Telling, Comes
<1> QED BY Zenon, <1>5, PhasesDiffer DEF AnswerIsMeaning, ThrownWithCause, DiesInCircle

LEMMA Tells == Spec => [](Reading /\ Telling)
  BY InitReading, NextReading, InitTelling, NextTelling, PTL DEF Spec

\* What a client reads is what the Field stands for, whatever the values, the tree and
\* the environment: every brace is replaced by what it stands for, in its place, and what
\* replaces it is not expanded again (Node::expand_all).
THEOREM AnswersAreMeanings == Spec => []AnswerIsMeaning
<1>1. Reading /\ Telling => AnswerIsMeaning
  BY Zenon, TellsMeaning
<1> QED BY <1>1, Tells, PTL

\* An exception of a reading has a cause in what it evaluates: a brace that is not closed,
\* or a name that is missing, empty or no Field.
THEOREM ThrowsHaveCauses == Spec => []ThrownWithCause
<1>1. Reading /\ Telling => ThrownWithCause
  BY Zenon, TellsMeaning
<1> QED BY <1>1, Tells, PTL

\* A stack with room for as many Fields in a row as there are names is exhausted by Fields
\* that refer to each other in a circle, and by nothing else.
THEOREM DeathsAreCircles == Spec => []DiesInCircle
<1>1. Reading /\ Telling => DiesInCircle
  BY Zenon, TellsMeaning
<1> QED BY <1>1, Tells, PTL
====
