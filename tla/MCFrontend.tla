---- MODULE MCFrontend ----
EXTENDS Values, ParserStates

\* The words of at most n letters over S.
Words(S, n) == UNION {[1 .. k -> S] : k \in 0 .. n}

\* One bare value, and a line behind it; one array; one verbatim value.
Bares == {<<"x", "=">> \o w \o <<"nl", "e", "=", "1">> :
            w \in Words({"x", "1", "e", ".", "-", "sp", "'", "$", "{", "}", "[", "#", ";"}, 3)}
Arrays == {<<"x", "=", d>> \o w \o <<d, "nl", "e", "=", "1">> :
            d \in {"'", "dq"}, w \in Words({"x", "1", "sp", "nl", ";", "$", "{", "}", "dq"}, 3)}
Bodies == {<<"x", "=", d, d, d>> \o w \o <<d, d, d, "nl", "e", "=", "1">> :
            d \in {"'", "dq"}, w \in Words({"x", "nl", "'", "dq"}, 3)}

\* Values with nested expressions, bare and in arrays.
RECURSIVE Rows(_, _)
Rows(S, n) == IF n = 0 THEN {<<>>} ELSE {<<>>} \cup {p \o w : p \in S, w \in Rows(S, n - 1)}
Nestings == {<<"x", "=">> \o o \o w \o o \o <<"nl", "#", "e">> :
               o \in {<<>>, <<"'">>, <<"dq">>},
               w \in Rows({<<"$", "{">>, <<"}">>, <<"x">>, <<"sp">>}, 5)}

\* An expression with `$` in it that open nothing, bare and in an array.
Strays == {<<"x", "=">> \o o \o <<"$", "{">> \o w \o o \o <<"nl">> :
             o \in {<<>>, <<"'">>}, w \in Rows({<<"$", "{">>, <<"}">>, <<"$">>, <<"x">>}, 4)}

\* Whole numbers up to and beyond the limits of every type.
WholeNumbers == {<<"x", "=">> \o w \o <<"nl">> : w \in Words({"1", "-"}, 5)}

\* Documents of whole pieces.
Pieces == {<<"[", "x", "]">>, <<"[", "]">>, <<"nl">>, <<"cr">>, <<"#", "e">>, <<"x", "=", "e">>,
           Include \o <<"sp", "x">>, <<"sp">>}

\* The ways to assign.
Assignments == {<<"x">> \o s \o op \o s \o <<"1", e, "e", "=", "x">> :
                  s \in {<<>>, <<"sp">>}, op \in {<<"=">>, <<":", "=">>, Override}, e \in {"nl", "sp"}}

MCTexts == Assignments \cup Bares \cup Strays \cup WholeNumbers
             \cup Arrays \cup Bodies \cup Nestings \cup Rows(Pieces, 4)

\* The words of bool.
TrueWord == <<"e">>
FalseWord == <<"x">>
====
