---- MODULE MCParseDriver ----
(* Small texts for ParseDriver: one field name and two section names give    *)
(* repeated and overridden fields, blocks and wrappers of one name in every  *)
(* order, and folds that cascade through two levels.                         *)
EXTENDS ParseDriver

MCName == {"a", "b", "k"}
ShallowFields == {<<"k">>, <<"a", "k">>}
ShallowSections == {<<"a">>}
CascadeFields == {<<"k">>, <<"a", "b", "k">>}
CascadeSections == {<<"a">>, <<"a", "b">>}
====
