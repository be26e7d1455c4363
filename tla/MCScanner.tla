---- MODULE MCScanner ----
EXTENDS Scanner

Words(S, n) == UNION {[1 .. k -> S] : k \in 0 .. n}

\* What brings the scanner to each of its start conditions.
Ways == {<<>>, <<"[">>, <<"x">>, <<"x", "=">>, <<"x", "=", "'">>, <<"x", "=", "dq">>,
         <<"x", "=", "x">>, <<"x", "=", "$", "{">>, <<"x", "=", "'", "$", "{">>,
         <<"x", "=", "dq", "$", "{">>, Include, <<"x", "=", "'", "'", "'">>,
         <<"x", "=", "dq", "dq", "dq">>}

\* Any two characters anywhere; keywords and numbers given up after several; and NULs
\* among them.
Begun == {SubSeq(Include, 1, k) : k \in 2 .. 8} \cup {<<"x">> \o SubSeq(Override, 1, k) : k \in 2 .. 10}
Numbers == {<<"x", "=">> \o q \o w : q \in {<<>>, <<"'">>}, w \in Words({"1", ".", "E", "-"}, 4)}
Nulls == {w \o e : w \in Ways, e \in Words({"nul", "x", "$", "nl"}, 3)}
MCTexts == {w \o e : w \in Ways, e \in Words(Char, 2)} \cup Nulls \cup Numbers
             \cup {w \o e : w \in Begun, e \in Words({"x", "nul", "="}, 1)}
====
