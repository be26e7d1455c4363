---- MODULE MCGrammar ----
(* Every sequence of at most MaxTokens tokens. *)
EXTENDS Grammar
====
