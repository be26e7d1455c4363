---- MODULE MCBraces ----
(* Three Fields over every combination of values that look up, nest, name a    *)
(* Field by the value of another, read the environment, or are malformed.      *)
EXTENDS BracesMeaning

W(w) == Plain(<<w>>)
Around(parts) == Braced(parts, <<>>)
Look(w) == Around(<<W(w)>>)
Do(command, parts) == Around(<<W(command)>> \o parts)

\* With white space everywhere within braces, or only where two words would run
\* together.
RECURSIVE Spaced(_, _), SpacedAll(_, _), Parts(_), Height(_)
SpacedAll(ps, everywhere) ==
  IF ps = <<>> THEN <<>> ELSE <<Spaced(Head(ps), everywhere)>> \o SpacedAll(Tail(ps), everywhere)
Spaced(p, everywhere) ==
  LET Gap(i) == IF \/ everywhere
                   \/ i \in 2 .. Len(p.parts) /\ p.parts[i].plain /\ p.parts[i - 1].plain
                THEN <<" ">> ELSE <<>>
  IN  IF p.plain THEN p
      ELSE Braced(SpacedAll(p.parts, everywhere),
                  SubSeq([i \in 1 .. Len(p.parts) + 1 |-> Gap(i)], 1, Len(p.parts) + 1))
Parts(p) == {p} \cup UNION {Parts(p.parts[i]) : i \in DOMAIN p.parts}
Height(p) == IF p.plain THEN 0 ELSE 1 + Max({0} \cup {Height(p.parts[i]) : i \in DOMAIN p.parts})

MCWord == {"a", "b", "c", "u", "env", "raw", "replace"}
A == <<"a">>
B == <<"b">>
AB == <<"a", "b">>
MCName == {A, B, AB}
MCEnv == [e \in {<<"c">>} |-> <<"${", "a", "}">>]

Values == {
  <<>>,
  <<W("b")>>,
  <<Look("a"), W("c"), Look("b")>>,
  <<Do("replace", <<Look("b")>>)>>,
  <<Do("replace", <<Do("raw", <<W("a"), Look("b")>>)>>), W("u")>>,
  <<Do("raw", <<Look("b"), W("c"), Look("a"), W("a")>>)>>,
  <<Do("replace", <<W("b"), Look("a")>>)>>,
  <<Do("env", <<Do("raw", <<W("c")>>)>>), W("a"), Do("env", <<W("u"), Look("b")>>)>>,
  <<Do("env", <<Look("a")>>)>>,
  <<Around(<<Look("b")>>)>>,
  <<Do("env", <<>>), Around(<<>>)>>,
  <<W("a"), Do("replace", <<>>)>>,
  <<W("}"), Look("b"), W(" ")>>,
  <<Around(<<W("a"), W("b")>>)>>
}
Tight(v) == [parts |-> SpacedAll(v, FALSE), tail |-> <<>>]
Loose(v) == [parts |-> SpacedAll(v, TRUE), tail |-> <<>>]
Notation == {Tight(v) : v \in Values} \cup {Loose(v) : v \in {v \in Values : Len(v) = 1}}
              \cup {[parts |-> <<>>, tail |-> <<"${", "a">>]}
MCPart == UNION {UNION {Parts(n.parts[i]) : i \in DOMAIN n.parts} : n \in Notation}
MCDepth == [p \in MCPart |-> Height(p)]
MCValue == {Spelled(n) : n \in Notation}
MCTree == FoldSet(LAMBDA n, trees : (Spelled(n) :> n) @@ trees, <<>>, Notation)
====
