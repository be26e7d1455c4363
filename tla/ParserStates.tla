---- MODULE ParserStates ----
(***************************************************************************)
(* What the tables of Parser say of its stack: on which states an entry    *)
(* can lie, and that a rule is reduced only where all of its right-hand    *)
(* side lies on the stack, above a state that knows where to go with what  *)
(* it is reduced to.  Bison keeps none of this; the generated code takes   *)
(* it for granted when it pops (Parser.cpp, yyreduce).                     *)
(***************************************************************************)
EXTENDS Parser

States == 0 .. 41

\* Where an entry of each state may lie: the least sets that are closed under the
\* shifts and the reductions below.
Under ==
  <<{}, {0}, {0}, {1}, {2, 36}, {2, 36}, {2, 36}, {2, 36}, {2, 36}, {2, 36}, {2, 36}, {2, 36},
    {2, 36}, {2, 36}, {2, 36}, {4}, {4}, {4}, {6}, {7}, {17}, {17}, {17}, {17}, {17}, {17}, {17},
    {18}, {24, 34, 38, 41}, {24, 34, 38, 41}, {24, 34, 38, 41}, {24, 34, 38, 41}, {24}, {24},
    {24}, {24, 38}, {27}, {33}, {33}, {34, 41}, {36}, {38}>>
LiesOn(q, p) == p \in At(Under, q)

\* The states n entries below one of state s.
Beneath(S) == {p \in States : \E q \in S : LiesOn(q, p)}
Down(n, s) == CASE n = 0 -> {s}
                [] n = 1 -> Beneath({s})
                [] n = 2 -> Beneath(Beneath({s}))
                [] n = 3 -> Beneath(Beneath(Beneath({s})))
                [] n = 4 -> Beneath(Beneath(Beneath(Beneath({s}))))
                [] n = 5 -> Beneath(Beneath(Beneath(Beneath(Beneath({s})))))

\* Entry q on p, for symbol k.
Fits(q, p, k) == q \in States /\ LiesOn(q, p) /\ At(yystos, q) = k

\* A token is shifted to a state of that token.
ASSUME ShiftAssumption ==
  \A s \in States : \A k \in 0 .. YYNTOKENS - 1 :
    ~ IsDefault(s) /\ Listed(s, k) => Fits(Entry(s, k), s, k)

\* The first state is at the bottom only, and where a rule is reduced its right-hand
\* side lies above the bottom.
ASSUME ReduceAssumption ==
  \A s \in States : At(yydefact, s) \in 2 .. 31 =>
    LET r == At(yydefact, s)
    IN  /\ At(yyr2, r) \in 0 .. 5
        /\ \A n \in 0 .. 4 : n < At(yyr2, r) => 0 \notin Down(n, s)
        /\ \A p \in Down(At(yyr2, r), s) :
             Fits(yy_lr_goto_state(p, At(yyr1, r)), p, At(yyr1, r))
ASSUME BottomAssumption == At(yystos, 0) = 0 /\ \A p \in States : ~ LiesOn(0, p)
====
