---- MODULE Recursion ----
(***************************************************************************)
(* Induction and recursion over data, stated with sets and functions in    *)
(* the place of the operators that the library's theorems take.            *)
(***************************************************************************)
EXTENDS Positions, FiniteSetTheorems, WellFoundedInduction, TLAPS

\* A nonempty set of natural numbers has a least element.
LEMMA LeastElement ==
  ASSUME NEW T, T \subseteq Nat, T # {}
  PROVE  \E x \in T : \A y \in T : x <= y
<1>1. \E x \in T : \A y \in T : ~ (<<y, x>> \in OpToRel(<, Nat))
  BY WFMin, NatLessThanWellFounded
<1>2. PICK x \in T : \A y \in T : ~ (<<y, x>> \in OpToRel(<, Nat))
  BY <1>1
<1>3. \A y \in T : ~ (y < x)
  BY <1>2 DEF OpToRel
<1> QED BY <1>3

\* A set of the numbers up to L that holds 0 and, with each, the next one.
LEMMA UpToInduction ==
  ASSUME NEW L \in Nat, NEW D \in SUBSET (0 .. L), 0 \in D,
         \A k \in 1 .. L : k - 1 \in D => k \in D
  PROVE  D = 0 .. L
<1> SUFFICES ASSUME (0 .. L) \ D # {} PROVE FALSE
  OBVIOUS
<1> DEFINE M == (0 .. L) \ D
<1>1. M \subseteq Nat /\ M # {}
  OBVIOUS
<1>2. PICK m \in M : \A y \in M : m <= y
  <2> HIDE DEF M
  <2> QED BY <1>1, LeastElement
<1>3. m \in 1 .. L /\ m \notin D
  BY <1>2
<1>4. m - 1 \in 0 .. L /\ ~ (m <= m - 1)
  BY <1>3
<1>5. m - 1 \in D
  BY <1>2, <1>4
<1> QED BY <1>3, <1>5

\* Everything in N is come to from the members of Base by the inverse of par.
Grounded(N, Base, par) ==
  \A D \in SUBSET N : (\A m \in N : m \in Base \/ par[m] \in D => m \in D) => D = N

Solves(f, N, Base, par, b, st) ==
  f = [m \in N |-> IF m \in Base THEN b[m] ELSE st[m][f[par[m]]]]

\* A function defined at m by its value at par[m] exists when that ends in
\* Base.
LEMMA RecursiveFunction ==
  ASSUME NEW N, NEW S, NEW Base \in SUBSET N, NEW par \in [N -> N],
         NEW b \in [N -> S], NEW st \in [N -> [S -> S]], Grounded(N, Base, par)
  PROVE  \E f \in [N -> S] : Solves(f, N, Base, par, b, st)
<1> DEFINE Gen(R) == /\ \A m \in Base : <<m, b[m]>> \in R
                     /\ \A m \in N \ Base, s \in S : <<par[m], s>> \in R => <<m, st[m][s]>> \in R
           G == {p \in N \X S : \A R \in SUBSET (N \X S) : Gen(R) => p \in R}
           One(m) == \E s \in S : <<m, s>> \in G /\ \A t \in S : <<m, t>> \in G => t = s
           D == {m \in N : One(m)}
<1>1. G \in SUBSET (N \X S) /\ \A R \in SUBSET (N \X S) : Gen(R) => G \subseteq R
  OBVIOUS
<1>2. Gen(G)
  <2>1. ASSUME NEW m \in Base PROVE <<m, b[m]>> \in G
    OBVIOUS
  <2>2. ASSUME NEW m \in N \ Base, NEW s \in S, <<par[m], s>> \in G
        PROVE  <<m, st[m][s]>> \in G
    BY <2>2
  <2> HIDE DEF G
  <2> QED BY <2>1, <2>2
<1> HIDE DEF G
<1>3. ASSUME NEW m \in N, m \in Base \/ par[m] \in D PROVE m \in D
  <2>1. CASE m \in Base
    <3>1. ASSUME NEW t \in S, <<m, t>> \in G, t # b[m] PROVE FALSE
      <4> DEFINE R == G \ {<<m, t>>}
      <4>1. Gen(R)
        BY <1>2, <2>1, <3>1
      <4>2. R \in SUBSET (N \X S)
        BY <1>1
      <4> HIDE DEF Gen
      <4> QED BY <1>1, <3>1, <4>1, <4>2
    <3>2. <<m, b[m]>> \in G /\ b[m] \in S
      BY <1>2, <2>1
    <3> QED BY <3>1, <3>2
  <2>2. CASE m \notin Base
    <3>1. par[m] \in D
      BY <1>3, <2>2
    <3>2. PICK s \in S : <<par[m], s>> \in G /\ \A t \in S : <<par[m], t>> \in G => t = s
      BY <3>1
    <3>3. <<m, st[m][s]>> \in G /\ st[m][s] \in S
      BY <1>2, <2>2, <3>2
    <3>4. ASSUME NEW t \in S, <<m, t>> \in G, t # st[m][s] PROVE FALSE
      <4> DEFINE R == G \ {<<m, t>>}
      <4>1. \A x \in Base : <<x, b[x]>> \in R
        BY <1>2, <2>2
      <4>2. ASSUME NEW x \in N \ Base, NEW u \in S, <<par[x], u>> \in R
            PROVE  <<x, st[x][u]>> \in R
        <5>1. <<par[x], u>> \in G /\ <<x, st[x][u]>> \in G
          BY <1>2, <4>2
        <5>2. x = m => u = s
          BY <3>2, <5>1
        <5> QED BY <3>4, <5>1, <5>2
      <4>3. R \in SUBSET (N \X S)
        BY <1>1
      <4>4. Gen(R)
        <5> HIDE DEF R
        <5> QED BY <4>1, <4>2
      <4> HIDE DEF Gen
      <4> QED BY <1>1, <3>4, <4>3, <4>4
    <3> QED BY <3>3, <3>4
  <2> QED BY <2>1, <2>2
<1>4. D = N
  <2>1. D \in SUBSET N
    OBVIOUS
  <2> HIDE DEF D
  <2> QED BY <1>3, <2>1 DEF Grounded
<1> DEFINE f == [m \in N |-> CHOOSE s \in S : <<m, s>> \in G]
<1>5. ASSUME NEW m \in N
      PROVE  f[m] \in S /\ <<m, f[m]>> \in G /\ \A t \in S : <<m, t>> \in G => t = f[m]
  <2>1. One(m)
    BY <1>4
  <2> QED BY <2>1
<1>6. f \in [N -> S]
  BY <1>5
<1> HIDE DEF f
<1>7. ASSUME NEW m \in N PROVE f[m] = IF m \in Base THEN b[m] ELSE st[m][f[par[m]]]
  <2>1. CASE m \in Base
    BY <1>2, <1>5, <2>1
  <2>2. CASE m \notin Base
    <3>1. par[m] \in N /\ <<par[m], f[par[m]]>> \in G /\ f[par[m]] \in S
      BY <1>5
    <3>2. <<m, st[m][f[par[m]]]>> \in G /\ st[m][f[par[m]]] \in S
      BY <1>2, <2>2, <3>1
    <3> QED BY <1>5, <2>2, <3>2
  <2> QED BY <2>1, <2>2
<1>8. f = [m \in N |-> IF m \in Base THEN b[m] ELSE st[m][f[par[m]]]]
  BY <1>6, <1>7
<1>9. Solves(f, N, Base, par, b, st)
  BY <1>8 DEF Solves
<1> QED BY <1>6, <1>9

Counts(f, L, x, st) == f = [k \in 0 .. L |-> IF k = 0 THEN x ELSE st[k][f[k - 1]]]

\* The same along the numbers up to L.
LEMMA Counted ==
  ASSUME NEW L \in Nat, NEW S, NEW x \in S, NEW st \in [1 .. L -> [S -> S]]
  PROVE  \E f \in [0 .. L -> S] : Counts(f, L, x, st)
<1> DEFINE N == 0 .. L
           par == [k \in N |-> IF k = 0 THEN 0 ELSE k - 1]
           b == [k \in N |-> x]
           go == [k \in N |-> IF k = 0 THEN [s \in S |-> s] ELSE st[k]]
<1>1. par \in [N -> N] /\ b \in [N -> S] /\ {0} \in SUBSET N
  OBVIOUS
<1>2. go \in [N -> [S -> S]]
  <2>1. ASSUME NEW k \in N PROVE go[k] \in [S -> S]
    <3>1. CASE k = 0
      BY <3>1
    <3>2. CASE k # 0
      <4>1. k \in 1 .. L
        BY <3>2
      <4> QED BY <3>2, <4>1
    <3> QED BY <3>1, <3>2
  <2> QED BY <2>1
<1>3. Grounded(N, {0}, par)
  <2> SUFFICES ASSUME NEW D \in SUBSET N, \A m \in N : m \in {0} \/ par[m] \in D => m \in D
               PROVE  D = N
    BY DEF Grounded
  <2>1. 0 \in D
    OBVIOUS
  <2>2. \A k \in 1 .. L : k - 1 \in D => k \in D
    <3> SUFFICES ASSUME NEW k \in 1 .. L, k - 1 \in D PROVE k \in D
      OBVIOUS
    <3>1. k \in N /\ par[k] = k - 1
      OBVIOUS
    <3> QED BY <3>1
  <2> QED BY <2>1, <2>2, UpToInduction
<1> DEFINE Base == {0}
<1>4. PICK f \in [N -> S] : Solves(f, N, Base, par, b, go)
  <2>1. Base \in SUBSET N /\ Grounded(N, Base, par)
    BY <1>1, <1>3
  <2> HIDE DEF N, par, b, go, Base
  <2> QED BY <1>1, <1>2, <2>1, RecursiveFunction
<1>5. ASSUME NEW g PROVE Counts(g, L, x, st) <=> Solves(g, N, Base, par, b, go)
  <2>1. ASSUME NEW k \in N
        PROVE  (IF k = 0 THEN x ELSE st[k][g[k - 1]]) = (IF k \in Base THEN b[k] ELSE go[k][g[par[k]]])
    <3>1. CASE k = 0
      BY <3>1
    <3>2. CASE k # 0
      BY <3>2
    <3> QED BY <3>1, <3>2
  <2>2. [k \in N |-> IF k = 0 THEN x ELSE st[k][g[k - 1]]]
          = [k \in N |-> IF k \in Base THEN b[k] ELSE go[k][g[par[k]]]]
    BY <2>1
  <2> QED BY <2>2 DEF Counts, Solves
<1>6. Counts(f, L, x, st)
  BY <1>4, <1>5
<1> QED BY <1>6

\* row leads from each member of N to others, and nowhere for ever: what holds of
\* a member when it holds of all in its row holds of all of N.
Descends(N, row) ==
  \A D \in SUBSET N : (\A m \in N : (\A i \in DOMAIN row[m] : row[m][i] \in D) => m \in D) => D = N

BuiltOn(g, D, lab, row) == g = [m \in D |-> <<lab[m], [i \in DOMAIN row[m] |-> g[row[m][i]]]>>]

\* A tree can be put together below each member of N.
LEMMA TreeFunction ==
  ASSUME NEW N, NEW lab, NEW row, \A m \in N : \A i \in DOMAIN row[m] : row[m][i] \in N,
         Descends(N, row)
  PROVE  \E g : BuiltOn(g, N, lab, row)
<1> DEFINE Built(g, x) == <<lab[x], [i \in DOMAIN row[x] |-> g[row[x][i]]]>>
           Down(D) == \A x \in D : \A i \in DOMAIN row[x] : row[x][i] \in D
           On(g, D) == Down(D) /\ g = [x \in D |-> Built(g, x)]
           Is(x, v) == \E D \in SUBSET N : \E g : x \in D /\ On(g, D) /\ v = g[x]
           W == {x \in N : \E v : Is(x, v)}
           V(x) == CHOOSE v : Is(x, v)
<1>1. ASSUME NEW D \in SUBSET N, NEW E \in SUBSET N, NEW g, NEW h, On(g, D), On(h, E)
      PROVE  \A x \in D \cap E : g[x] = h[x]
  <2> DEFINE S == {x \in N : x \in D \cap E => g[x] = h[x]}
  <2>1. ASSUME NEW x \in N, \A i \in DOMAIN row[x] : row[x][i] \in S PROVE x \in S
    <3> SUFFICES ASSUME x \in D \cap E PROVE g[x] = h[x]
      OBVIOUS
    <3>1. \A i \in DOMAIN row[x] : g[row[x][i]] = h[row[x][i]]
      BY <1>1, <2>1
    <3>2. Built(g, x) = Built(h, x)
      BY <3>1
    <3>3. g[x] = Built(g, x) /\ h[x] = Built(h, x)
      <4> HIDE DEF Built
      <4> QED BY <1>1
    <3> QED BY <3>2, <3>3
  <2>2. S \in SUBSET N
    OBVIOUS
  <2> HIDE DEF S
  <2>3. S = N
    BY <2>1, <2>2 DEF Descends
  <2> QED BY <2>3 DEF S
<1>2. ASSUME NEW x, NEW v, NEW w, Is(x, v), Is(x, w) PROVE v = w
  <2> HIDE DEF On
  <2> QED BY <1>1, <1>2
<1>3. ASSUME NEW x \in W PROVE Is(x, V(x))
  <2> HIDE DEF Is
  <2> QED BY <1>3
<1> HIDE DEF V
<1>4. ASSUME NEW x \in W
      PROVE  /\ \A i \in DOMAIN row[x] : row[x][i] \in W
             /\ V(x) = <<lab[x], [i \in DOMAIN row[x] |-> V(row[x][i])]>>
  <2>1. PICK D \in SUBSET N : \E g : x \in D /\ On(g, D) /\ V(x) = g[x]
    BY <1>3
  <2>2. PICK g : x \in D /\ On(g, D) /\ V(x) = g[x]
    BY <2>1
  <2>3. ASSUME NEW i \in DOMAIN row[x] PROVE row[x][i] \in W /\ g[row[x][i]] = V(row[x][i])
    <3>1. row[x][i] \in D /\ row[x][i] \in N
      BY <2>2
    <3>2. Is(row[x][i], g[row[x][i]])
      <4> HIDE DEF On
      <4> QED BY <2>2, <3>1
    <3>3. row[x][i] \in W
      <4> HIDE DEF Is
      <4> QED BY <3>1, <3>2
    <3> HIDE DEF Is, W
    <3> QED BY <1>2, <1>3, <3>2, <3>3
  <2>4. V(x) = Built(g, x)
    <3> HIDE DEF Built
    <3> QED BY <2>2
  <2>5. [i \in DOMAIN row[x] |-> g[row[x][i]]] = [i \in DOMAIN row[x] |-> V(row[x][i])]
    BY <2>3
  <2> HIDE DEF W
  <2> QED BY <2>3, <2>4, <2>5
<1>5. ASSUME NEW y \in N, \A i \in DOMAIN row[y] : row[y][i] \in W PROVE y \in W
  <2> DEFINE E == W \cup {y}
             h == [x \in E |-> <<lab[x], [i \in DOMAIN row[x] |-> V(row[x][i])]>>]
  <2>1. ASSUME NEW x \in E PROVE \A i \in DOMAIN row[x] : row[x][i] \in W
    <3> HIDE DEF W
    <3> QED BY <1>4, <1>5
  <2>2. ASSUME NEW x \in W PROVE h[x] = V(x)
    <3> HIDE DEF W
    <3> QED BY <1>4
  <2>3. ASSUME NEW x \in E PROVE h[x] = Built(h, x)
    <3>1. [i \in DOMAIN row[x] |-> h[row[x][i]]] = [i \in DOMAIN row[x] |-> V(row[x][i])]
      <4> HIDE DEF h, W
      <4> QED BY <2>1, <2>2, <2>3
    <3>2. h[x] = <<lab[x], [i \in DOMAIN row[x] |-> V(row[x][i])]>>
      <4> HIDE DEF W
      <4> QED BY <2>3
    <3> HIDE DEF h
    <3> QED BY <3>1, <3>2
  <2>4. h = [x \in E |-> Built(h, x)]
    <3>1. h = [x \in E |-> h[x]]
      OBVIOUS
    <3> HIDE DEF h, Built
    <3> QED BY <2>3, <3>1
  <2>5. Down(E) /\ E \in SUBSET N
    <3>1. W \subseteq N
      OBVIOUS
    <3> HIDE DEF W
    <3> QED BY <2>1, <3>1
  <2>6. Is(y, h[y])
    <3> HIDE DEF Built, h
    <3>1. On(h, E) /\ y \in E
      BY <2>4, <2>5
    <3> HIDE DEF On, E
    <3> QED BY <2>5, <3>1
  <2> HIDE DEF Is
  <2> QED BY <2>6
<1>6. W = N
  <2>1. W \in SUBSET N
    OBVIOUS
  <2> HIDE DEF W
  <2> QED BY <1>5, <2>1 DEF Descends
<1> HIDE DEF W
<1> DEFINE f == [x \in N |-> V(x)]
<1>7. ASSUME NEW x \in N PROVE f[x] = Built(f, x)
  <2>1. [i \in DOMAIN row[x] |-> f[row[x][i]]] = [i \in DOMAIN row[x] |-> V(row[x][i])]
    OBVIOUS
  <2> QED BY <1>4, <1>6, <2>1
<1>8. f = [x \in N |-> Built(f, x)]
  <2>1. f = [x \in N |-> f[x]]
    OBVIOUS
  <2> HIDE DEF f, Built
  <2> QED BY <1>7, <2>1
<1>9. BuiltOn(f, N, lab, row)
  BY <1>8 DEF BuiltOn
<1> QED BY <1>9

Backs(f, L, b, st) ==
  f = [k \in Nat \ {0} |-> IF k \in 1 .. L THEN st[k][f[k + 1]] ELSE b[k]]

\* A function defined from a place on backwards, by its value at the next one.
LEMMA BackFunction ==
  ASSUME NEW L \in Nat, NEW S, NEW b, b[L + 1] \in S, NEW st \in [1 .. L -> [S -> S]]
  PROVE  \E f : Backs(f, L, b, st) /\ \A k \in 1 .. L + 1 : f[k] \in S
<1> DEFINE back == [k \in 1 .. L |-> st[L + 1 - k]]
<1>1. back \in [1 .. L -> [S -> S]]
  <2>1. \A k \in 1 .. L : L + 1 - k \in 1 .. L
    OBVIOUS
  <2> QED BY <2>1
<1>2. PICK g \in [0 .. L -> S] : Counts(g, L, b[L + 1], back)
  <2> HIDE DEF back
  <2> QED BY <1>1, Counted
<1>3. /\ g[0] = b[L + 1]
      /\ \A k \in 1 .. L : g[k] = st[L + 1 - k][g[k - 1]]
  <2>1. 0 \in 0 .. L /\ \A k \in 1 .. L : k \in 0 .. L /\ k # 0 /\ back[k] = st[L + 1 - k]
    OBVIOUS
  <2> HIDE DEF back
  <2>2. \A k \in 0 .. L : g[k] = IF k = 0 THEN b[L + 1] ELSE back[k][g[k - 1]]
    BY <1>2 DEF Counts
  <2> QED BY <2>1, <2>2
<1> DEFINE f == [k \in Nat \ {0} |-> IF k \in 1 .. L + 1 THEN g[L + 1 - k] ELSE b[k]]
<1>4. ASSUME NEW k \in Nat \ {0}
      PROVE  f[k] = IF k \in 1 .. L THEN st[k][f[k + 1]] ELSE b[k]
  <2>1. CASE k \in 1 .. L
    <3>1. L + 1 - k \in 1 .. L /\ L + 1 - (L + 1 - k) = k /\ (L + 1 - k) - 1 = L + 1 - (k + 1)
          /\ k + 1 \in 1 .. L + 1
      BY <2>1
    <3>2. g[L + 1 - k] = st[k][g[L + 1 - (k + 1)]]
      BY <1>3, <3>1
    <3> QED BY <2>1, <3>1, <3>2
  <2>2. CASE k = L + 1
    BY <1>3, <2>2
  <2>3. CASE k \notin 1 .. L + 1
    BY <2>3
  <2> QED BY <2>1, <2>2, <2>3
<1>5. f = [k \in Nat \ {0} |-> IF k \in 1 .. L THEN st[k][f[k + 1]] ELSE b[k]]
  <2>1. f = [k \in Nat \ {0} |-> f[k]]
    OBVIOUS
  <2> HIDE DEF f
  <2> QED BY <1>4, <2>1
<1>6. Backs(f, L, b, st)
  <2> HIDE DEF f
  <2> QED BY <1>5 DEF Backs
<1>7. \A k \in 1 .. L + 1 : f[k] \in S
  <2>1. \A k \in 1 .. L + 1 : L + 1 - k \in 0 .. L /\ k \in Nat \ {0}
    OBVIOUS
  <2> QED BY <2>1
<1> HIDE DEF f
<1> QED BY <1>6, <1>7

GrowsOn(g, D, st, row) == g = [m \in D |-> st[m][[i \in DOMAIN row[m] |-> g[row[m][i]]]]]

\* The same with a value at each member that is made of those at the members in its
\* row.
LEMMA RowFunction ==
  ASSUME NEW N, NEW st, NEW row, \A m \in N : \A i \in DOMAIN row[m] : row[m][i] \in N,
         Descends(N, row)
  PROVE  \E g : GrowsOn(g, N, st, row)
<1> DEFINE Built(g, x) == st[x][[i \in DOMAIN row[x] |-> g[row[x][i]]]]
           Down(D) == \A x \in D : \A i \in DOMAIN row[x] : row[x][i] \in D
           On(g, D) == Down(D) /\ g = [x \in D |-> Built(g, x)]
           Is(x, v) == \E D \in SUBSET N : \E g : x \in D /\ On(g, D) /\ v = g[x]
           W == {x \in N : \E v : Is(x, v)}
           V(x) == CHOOSE v : Is(x, v)
<1>1. ASSUME NEW D \in SUBSET N, NEW E \in SUBSET N, NEW g, NEW h, On(g, D), On(h, E)
      PROVE  \A x \in D \cap E : g[x] = h[x]
  <2> DEFINE S == {x \in N : x \in D \cap E => g[x] = h[x]}
  <2>1. ASSUME NEW x \in N, \A i \in DOMAIN row[x] : row[x][i] \in S PROVE x \in S
    <3> SUFFICES ASSUME x \in D \cap E PROVE g[x] = h[x]
      OBVIOUS
    <3>1. \A i \in DOMAIN row[x] : g[row[x][i]] = h[row[x][i]]
      BY <1>1, <2>1
    <3>2. Built(g, x) = Built(h, x)
      BY <3>1
    <3>3. g[x] = Built(g, x) /\ h[x] = Built(h, x)
      <4> HIDE DEF Built
      <4> QED BY <1>1
    <3> QED BY <3>2, <3>3
  <2>2. S \in SUBSET N
    OBVIOUS
  <2> HIDE DEF S
  <2>3. S = N
    BY <2>1, <2>2 DEF Descends
  <2> QED BY <2>3 DEF S
<1>2. ASSUME NEW x, NEW v, NEW w, Is(x, v), Is(x, w) PROVE v = w
  <2> HIDE DEF On
  <2> QED BY <1>1, <1>2
<1>3. ASSUME NEW x \in W PROVE Is(x, V(x))
  <2> HIDE DEF Is
  <2> QED BY <1>3
<1> HIDE DEF V
<1>4. ASSUME NEW x \in W
      PROVE  /\ \A i \in DOMAIN row[x] : row[x][i] \in W
             /\ V(x) = st[x][[i \in DOMAIN row[x] |-> V(row[x][i])]]
  <2>1. PICK D \in SUBSET N : \E g : x \in D /\ On(g, D) /\ V(x) = g[x]
    BY <1>3
  <2>2. PICK g : x \in D /\ On(g, D) /\ V(x) = g[x]
    BY <2>1
  <2>3. ASSUME NEW i \in DOMAIN row[x] PROVE row[x][i] \in W /\ g[row[x][i]] = V(row[x][i])
    <3>1. row[x][i] \in D /\ row[x][i] \in N
      BY <2>2
    <3>2. Is(row[x][i], g[row[x][i]])
      <4> HIDE DEF On
      <4> QED BY <2>2, <3>1
    <3>3. row[x][i] \in W
      <4> HIDE DEF Is
      <4> QED BY <3>1, <3>2
    <3> HIDE DEF Is, W
    <3> QED BY <1>2, <1>3, <3>2, <3>3
  <2>4. V(x) = Built(g, x)
    <3> HIDE DEF Built
    <3> QED BY <2>2
  <2>5. [i \in DOMAIN row[x] |-> g[row[x][i]]] = [i \in DOMAIN row[x] |-> V(row[x][i])]
    BY <2>3
  <2> HIDE DEF W
  <2> QED BY <2>3, <2>4, <2>5
<1>5. ASSUME NEW y \in N, \A i \in DOMAIN row[y] : row[y][i] \in W PROVE y \in W
  <2> DEFINE E == W \cup {y}
             h == [x \in E |-> st[x][[i \in DOMAIN row[x] |-> V(row[x][i])]]]
  <2>1. ASSUME NEW x \in E PROVE \A i \in DOMAIN row[x] : row[x][i] \in W
    <3> HIDE DEF W
    <3> QED BY <1>4, <1>5
  <2>2. ASSUME NEW x \in W PROVE h[x] = V(x)
    <3> HIDE DEF W
    <3> QED BY <1>4
  <2>3. ASSUME NEW x \in E PROVE h[x] = Built(h, x)
    <3>1. [i \in DOMAIN row[x] |-> h[row[x][i]]] = [i \in DOMAIN row[x] |-> V(row[x][i])]
      <4> HIDE DEF h, W
      <4> QED BY <2>1, <2>2, <2>3
    <3>2. h[x] = st[x][[i \in DOMAIN row[x] |-> V(row[x][i])]]
      <4> HIDE DEF W
      <4> QED BY <2>3
    <3> HIDE DEF h
    <3> QED BY <3>1, <3>2
  <2>4. h = [x \in E |-> Built(h, x)]
    <3>1. h = [x \in E |-> h[x]]
      OBVIOUS
    <3> HIDE DEF h, Built
    <3> QED BY <2>3, <3>1
  <2>5. Down(E) /\ E \in SUBSET N
    <3>1. W \subseteq N
      OBVIOUS
    <3> HIDE DEF W
    <3> QED BY <2>1, <3>1
  <2>6. Is(y, h[y])
    <3> HIDE DEF Built, h
    <3>1. On(h, E) /\ y \in E
      BY <2>4, <2>5
    <3> HIDE DEF On, E
    <3> QED BY <2>5, <3>1
  <2> HIDE DEF Is
  <2> QED BY <2>6
<1>6. W = N
  <2>1. W \in SUBSET N
    OBVIOUS
  <2> HIDE DEF W
  <2> QED BY <1>5, <2>1 DEF Descends
<1> HIDE DEF W
<1> DEFINE f == [x \in N |-> V(x)]
<1>7. ASSUME NEW x \in N PROVE f[x] = Built(f, x)
  <2>1. [i \in DOMAIN row[x] |-> f[row[x][i]]] = [i \in DOMAIN row[x] |-> V(row[x][i])]
    OBVIOUS
  <2> QED BY <1>4, <1>6, <2>1
<1>8. f = [x \in N |-> Built(f, x)]
  <2>1. f = [x \in N |-> f[x]]
    OBVIOUS
  <2> HIDE DEF f, Built
  <2> QED BY <1>7, <2>1
<1>9. GrowsOn(f, N, st, row)
  BY <1>8 DEF GrowsOn
<1> QED BY <1>9

\* Its values are of a kind when what is made of values of that kind is.
LEMMA RowFunctionType ==
  ASSUME NEW N, NEW S, NEW row, NEW st, \A m \in N : \A i \in DOMAIN row[m] : row[m][i] \in N,
         Descends(N, row), \A m \in N : st[m] \in [[DOMAIN row[m] -> S] -> S]
  PROVE  \E g \in [N -> S] : GrowsOn(g, N, st, row)
<1>1. PICK g : GrowsOn(g, N, st, row)
  BY RowFunction
<1>2. g = [m \in N |-> st[m][[i \in DOMAIN row[m] |-> g[row[m][i]]]]]
  BY <1>1 DEF GrowsOn
<1> DEFINE D == {m \in N : g[m] \in S}
<1>3. ASSUME NEW m \in N, \A i \in DOMAIN row[m] : row[m][i] \in D PROVE m \in D
  <2> DEFINE v == [i \in DOMAIN row[m] |-> g[row[m][i]]]
  <2>1. v \in [DOMAIN row[m] -> S]
    BY <1>3
  <2>2. g[m] = st[m][v]
    BY <1>2
  <2> HIDE DEF v
  <2>3. g[m] \in S
    BY <2>1, <2>2
  <2> QED BY <2>3
<1>4. D = N
  <2>1. D \in SUBSET N
    OBVIOUS
  <2> HIDE DEF D
  <2> QED BY <1>3, <2>1 DEF Descends
<1>5. g \in [N -> S]
  <2>1. \A m \in N : g[m] \in S
    BY <1>4
  <2>2. g = [m \in N |-> g[m]]
    BY <1>2
  <2> QED BY <2>1, <2>2
<1> QED BY <1>1, <1>5

----------------------------------------------------------------------------
(* Positions.                                                               *)

\* The members of a finite set of numbers up to one of them, and the next one.
UpTo(S, i) == {j \in S : j <= i}

LEMMA NextCount ==
  ASSUME NEW S, S \subseteq Nat, IsFiniteSet(S), NEW i \in S,
         Cardinality(UpTo(S, i)) < Cardinality(S)
  PROVE  \E k \in S : Cardinality(UpTo(S, k)) = Cardinality(UpTo(S, i)) + 1
<1> DEFINE Above == {j \in S : i < j}
<1>1. Above # {}
  <2>1. SUFFICES ASSUME Above = {} PROVE FALSE
    OBVIOUS
  <2>2. \A j \in S : j <= i
    BY <2>1
  <2>3. UpTo(S, i) = S
    BY <2>2 DEF UpTo
  <2>4. Cardinality(S) \in Nat
    BY FS_CardinalityType
  <2> QED BY <2>3, <2>4
<1>2. PICK k \in Above : \A j \in Above : k <= j
  <2>1. Above \subseteq Nat
    OBVIOUS
  <2> HIDE DEF Above
  <2> QED BY <1>1, <2>1, LeastElement
<1>3. UpTo(S, k) = UpTo(S, i) \cup {k}
  <2>1. ASSUME NEW j \in S PROVE j <= k <=> j <= i \/ j = k
    <3>1. j \in Nat /\ i \in Nat /\ k \in Nat /\ i < k /\ (i < j => k <= j)
      BY <1>2
    <3> QED BY <3>1
  <2> QED BY <1>2, <2>1 DEF UpTo
<1>4. k \notin UpTo(S, i)
  BY <1>2 DEF UpTo
<1>5. IsFiniteSet(UpTo(S, i))
  BY FS_Subset DEF UpTo
<1>6. Cardinality(UpTo(S, k)) = Cardinality(UpTo(S, i)) + 1
  BY <1>3, <1>4, <1>5, FS_AddElement
<1> QED BY <1>2, <1>6

LEMMA FirstCount ==
  ASSUME NEW S, S \subseteq Nat, S # {}
  PROVE  \E k \in S : Cardinality(UpTo(S, k)) = 1
<1>1. PICK k \in S : \A j \in S : k <= j
  BY LeastElement
<1>2. UpTo(S, k) = {k}
  <2>1. \A j \in S : j <= k <=> j = k
    BY <1>1
  <2> QED BY <2>1 DEF UpTo
<1> QED BY <1>2, FS_Singleton

\* The n-th member is one.
LEMMA NthMember ==
  ASSUME NEW S, S \subseteq Nat, IsFiniteSet(S), NEW n \in 1 .. Cardinality(S)
  PROVE  Nth(S, n) \in S
<1> DEFINE Has(k) == \E i \in S : Cardinality(UpTo(S, i)) = k
           Bad == {k \in 1 .. Cardinality(S) : ~ Has(k)}
<1>1. Cardinality(S) \in Nat
  BY FS_CardinalityType
<1>2. Bad = {}
  <2>1. SUFFICES ASSUME Bad # {} PROVE FALSE
    OBVIOUS
  <2>2. Bad \subseteq Nat
    BY <1>1
  <2>3. PICK k \in Bad : \A j \in Bad : k <= j
    <3> HIDE DEF Bad
    <3> QED BY <2>1, <2>2, LeastElement
  <2>4. CASE k = 1
    <3>1. S # {}
      BY <1>1, <2>3, FS_EmptySet
    <3> QED BY <2>3, <2>4, <3>1, FirstCount
  <2>5. CASE k # 1
    <3>1. k - 1 \in 1 .. Cardinality(S) /\ ~ (k <= k - 1) /\ k \in 1 .. Cardinality(S)
      BY <1>1, <2>3, <2>5
    <3>2. Has(k - 1)
      <4>1. k - 1 \notin Bad
        <5> HIDE DEF Bad
        <5> QED BY <2>3, <3>1
      <4> QED BY <3>1, <4>1
    <3>3. PICK i \in S : Cardinality(UpTo(S, i)) = k - 1
      BY <3>2
    <3>4. k - 1 < Cardinality(S) /\ k - 1 + 1 = k
      BY <1>1, <3>1
    <3>5. \E j \in S : Cardinality(UpTo(S, j)) = k
      BY <3>3, <3>4, NextCount
    <3> QED BY <2>3, <3>5
  <2> QED BY <2>4, <2>5
<1>3. \E i \in S : Cardinality({j \in S : j <= i}) = n
  BY <1>2 DEF UpTo
<1> QED BY <1>3 DEF Nth

\* What is chosen is as long as the set of positions, and stood at one of them.
LEMMA ChosenType ==
  ASSUME NEW X, NEW s, NEW S, S \subseteq Nat, IsFiniteSet(S), \A i \in S : s[i] \in X
  PROVE  /\ Cardinality(S) \in Nat
         /\ Chosen(s, S) \in Seq(X)
         /\ Len(Chosen(s, S)) = Cardinality(S)
         /\ \A n \in 1 .. Cardinality(S) : Nth(S, n) \in S /\ Chosen(s, S)[n] = s[Nth(S, n)]
<1>1. Cardinality(S) \in Nat
  BY FS_CardinalityType
<1>2. \A n \in 1 .. Cardinality(S) : Nth(S, n) \in S
  BY NthMember
<1>3. Chosen(s, S) \in [1 .. Cardinality(S) -> X]
  BY <1>1, <1>2 DEF Chosen
<1>4. Chosen(s, S) \in Seq(X) /\ Len(Chosen(s, S)) = Cardinality(S)
  <2> DEFINE n == Cardinality(S)
             f == Chosen(s, S)
  <2>1. n \in Nat /\ f \in [1 .. n -> X]
    BY <1>1, <1>3
  <2> HIDE DEF n, f
  <2>2. f \in Seq(X) /\ Len(f) = n
    BY <2>1
  <2> QED BY <2>2 DEF n, f
<1> QED BY <1>1, <1>2, <1>4 DEF Chosen

\* The positions that a function goes through in order.
LEMMA Enumerated ==
  ASSUME NEW n \in Nat, NEW f \in [1 .. n -> Nat], \A k \in 2 .. n : f[k - 1] < f[k],
         NEW S, S = {f[k] : k \in 1 .. n}
  PROVE  Cardinality(S) = n /\ \A k \in 1 .. n : Nth(S, k) = f[k]
<1> DEFINE D == {k \in 0 .. n : \A i \in 1 .. k : i < k => f[i] < f[k]}
           First(k) == {f[i] : i \in 1 .. k}
           C == {k \in 0 .. n : IsFiniteSet(First(k)) /\ Cardinality(First(k)) = k}
<1>1. \A k \in 1 .. n : f[k] \in Nat
  OBVIOUS
<1>2. ASSUME NEW k \in 1 .. n, k - 1 \in D PROVE k \in D
  <2>1. ASSUME NEW i \in 1 .. k, i < k PROVE f[i] < f[k]
    <3>1. k \in 2 .. n /\ i \in 1 .. k - 1 /\ i \in 1 .. n /\ k - 1 \in 1 .. n
      BY <2>1
    <3>2. f[k - 1] < f[k]
      BY <3>1
    <3>3. i = k - 1 \/ f[i] < f[k - 1]
      BY <1>2, <3>1
    <3>4. f[i] \in Nat /\ f[k - 1] \in Nat /\ f[k] \in Nat
      BY <1>1, <3>1
    <3>5. CASE i = k - 1
      BY <3>2, <3>5
    <3>6. CASE f[i] < f[k - 1]
      BY <3>2, <3>4, <3>6
    <3> QED BY <3>3, <3>5, <3>6
  <2> QED BY <2>1
<1>3. D = 0 .. n
  <2>1. D \in SUBSET (0 .. n) /\ 0 \in D
    OBVIOUS
  <2> HIDE DEF D
  <2> QED BY <1>2, <2>1, UpToInduction
<1>4. ASSUME NEW i \in 1 .. n, NEW k \in 1 .. n, i < k PROVE f[i] < f[k]
  <2>1. k \in 0 .. n /\ i \in 1 .. k
    BY <1>4
  <2>2. k \in D
    <3> HIDE DEF D
    <3> QED BY <1>3, <2>1
  <2> QED BY <1>4, <2>1, <2>2
<1>5. ASSUME NEW k \in 1 .. n, k - 1 \in C PROVE k \in C
  <2>1. First(k) = First(k - 1) \cup {f[k]}
    <3>1. 1 .. k = (1 .. k - 1) \cup {k}
      OBVIOUS
    <3> QED BY <3>1
  <2>2. f[k] \notin First(k - 1)
    <3>1. SUFFICES ASSUME NEW i \in 1 .. k - 1, f[k] = f[i] PROVE FALSE
      OBVIOUS
    <3>2. i \in 1 .. n /\ i < k
      OBVIOUS
    <3> QED BY <1>1, <1>4, <3>1, <3>2
  <2>3. IsFiniteSet(First(k - 1)) /\ Cardinality(First(k - 1)) = k - 1
    BY <1>5
  <2> DEFINE A == First(k - 1)
             B == First(k)
  <2>4. IsFiniteSet(B) /\ Cardinality(B) = (k - 1) + 1
    <3>1. B = A \cup {f[k]} /\ f[k] \notin A /\ IsFiniteSet(A) /\ Cardinality(A) = k - 1
      BY Zenon, <2>1, <2>2, <2>3
    <3> HIDE DEF A, B
    <3> QED BY <3>1, FS_AddElement
  <2>5. (k - 1) + 1 = k /\ k \in 0 .. n
    OBVIOUS
  <2> QED BY Zenon, <2>4, <2>5
<1>6. C = 0 .. n
  <2>1. 0 \in C
    <3>1. First(0) = {}
      OBVIOUS
    <3>2. IsFiniteSet({}) /\ Cardinality({}) = 0 /\ 0 \in 0 .. n
      BY FS_EmptySet
    <3> QED BY Zenon, <3>1, <3>2
  <2>2. C \in SUBSET (0 .. n)
    OBVIOUS
  <2> HIDE DEF C
  <2> QED BY <1>5, <2>1, <2>2, UpToInduction
<1>7. ASSUME NEW k \in 0 .. n PROVE Cardinality(First(k)) = k
  <2>1. k \in C
    BY <1>6
  <2> HIDE DEF First
  <2> QED BY <2>1
<1>8. ASSUME NEW k \in 1 .. n PROVE UpTo(S, f[k]) = First(k)
  <2>1. ASSUME NEW i \in 1 .. n PROVE f[i] <= f[k] <=> i <= k
    <3>1. CASE i < k
      BY <1>1, <1>4, <3>1
    <3>2. CASE i = k
      BY <1>1, <3>2
    <3>3. CASE k < i
      <4>1. f[k] < f[i]
        BY <1>4, <3>3
      <4> QED BY <1>1, <3>3, <4>1
    <3> QED BY <3>1, <3>2, <3>3
  <2>2. \A i \in 1 .. k : i \in 1 .. n /\ i <= k
    OBVIOUS
  <2>3. \A i \in 1 .. n : i <= k => i \in 1 .. k
    OBVIOUS
  <2> QED BY <2>1, <2>2, <2>3 DEF UpTo
<1> HIDE DEF First
<1>9. ASSUME NEW k \in 1 .. n PROVE Cardinality(UpTo(S, f[k])) = k
  BY <1>7, <1>8
<1>10. Cardinality(S) = n
  <2>1. S = First(n)
    BY DEF First
  <2>2. n \in 0 .. n
    OBVIOUS
  <2> QED BY Zenon, <1>7, <2>1, <2>2
<1>11. ASSUME NEW k \in 1 .. n PROVE Nth(S, k) = f[k]
  <2>1. f[k] \in S /\ Cardinality(UpTo(S, f[k])) = k
    BY <1>9
  <2>2. ASSUME NEW x \in S, Cardinality(UpTo(S, x)) = k PROVE x = f[k]
    <3>1. PICK i \in 1 .. n : x = f[i]
      OBVIOUS
    <3> QED BY <1>9, <2>2, <3>1
  <2>3. Nth(S, k) = CHOOSE x \in S : Cardinality(UpTo(S, x)) = k
    BY DEF Nth, UpTo
  <2> QED BY <2>1, <2>2, <2>3
<1> QED BY <1>10, <1>11
====
