---- MODULE MCIncludes ----
(* Three files, one in a directory of its own, holding every combination of   *)
(* a few short texts or missing: chains, siblings, includes in sections,      *)
(* cycles, repeats on either side of an include, an empty file, bad files.    *)
EXTENDS Includes

Token == [kind |-> "field", name |-> "k", op |-> "=", value |-> 0,
          absolute |-> FALSE, path |-> <<>>, from |-> <<>>]
Field(op, v) == [Token EXCEPT !.op = op, !.value = v]
Include(p) == [Token EXCEPT !.kind = "include", !.path = p]
Absolute(p) == [Include(p) EXCEPT !.absolute = TRUE]
Open == [Token EXCEPT !.kind = "open", !.name = "s"]
Close == [Token EXCEPT !.kind = "close"]

MCSegment == {"k", "s", "x", "y", "d"}
X == <<"x">>
Y == <<"y">>
DY == <<"d", "y">>
MCFile == {X, Y, DY}
MCText == {
  <<>>,
  <<Field("=", 0)>>,
  <<Field("=", 0), Field("=", 0)>>,
  <<Field("=", 0), Field(":=", 0)>>,
  <<Field("=", 0), Include(Y)>>,
  <<Include(DY), Open, Field("=", 0), Include(Y), Close>>,
  <<Include(Y), Field(":=", 0), Absolute(X)>>
}
MCPre == {<<>>, <<Field("=", 0)>>}
MCPost == {<<>>, <<Field(":=", 1)>>}
====
