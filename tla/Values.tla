---- MODULE Values ----
(***************************************************************************)
(* What a caller reads out of an accepted document: param<T>, with the     *)
(* built-in types of TypeRegistry, their lists and their lists of lists.   *)
(*                                                                         *)
(* A value with a brace expression in it is expanded first, which is the   *)
(* matter of Braces: here values have none.  The limits of the types and   *)
(* the two words of bool are constants, so that numbers of two digits and  *)
(* more already reach them; floating-point values are counted in           *)
(* hundredths, "-" is the minus sign and every digit is 1.                 *)
(***************************************************************************)
EXTENDS Frontend

Sequence == INSTANCE SequencesExt

CONSTANTS
  LongMax, UnsignedMax, IntMax,  \* the limits of int64_t, unsigned int and int
  DoubleMax, FloatMax,           \* of double and float, in hundredths
  True, False                    \* "true" and "false"

ASSUME LimitsAssumption ==
  /\ IntMax \in Nat /\ UnsignedMax \in Nat /\ LongMax \in Nat
  /\ IntMax < UnsignedMax /\ UnsignedMax < LongMax
  /\ FloatMax \in Nat /\ DoubleMax \in Nat /\ FloatMax < DoubleMax
  /\ 100 * (LongMax + 1) <= FloatMax
  /\ True # False

----------------------------------------------------------------------------
(* Reading a scalar gives <<v>>, or throws.  The operators called Slip...   *)
(* are plausible mistakes in the operator that follows them.                *)

Thrown == <<>>

\* field_unquote
Unquoted(s) ==
  IF Len(s) >= 2 /\ s[1] = s[Len(s)] /\ s[1] \in {"'", "dq"} THEN Inside(s) ELSE s

\* How many characters of s from p on are in S; whether the one at p is, as 0 or 1.
Length(S, s, p) ==
  CHOOSE k \in 0 .. Len(s) : /\ \A q \in p .. p + k - 1 : q <= Len(s) /\ s[q] \in S
                            /\ p + k <= Len(s) => s[p + k] \notin S
Has(S, s, p) == IF p <= Len(s) /\ s[p] \in S THEN 1 ELSE 0
Digits(s, p) == Length({"1"}, s, p)
Worth[n \in Nat] == IF n = 0 THEN 0 ELSE 10 * Worth[n - 1] + 1
Signed(sign, v) == IF sign = 1 THEN 0 - v ELSE v

\* std::stoll and std::stod: the longest beginning of s that is a number, blanks
\* skipped; they throw when there is none and when it is out of range.
stoll(s) ==
  LET b == 1 + Length(Blanks, s, 1)
      sign == Has({"-"}, s, b)
      d == Digits(s, b + sign)
      v == Signed(sign, Worth[d])
  IN  IF d = 0 \/ v \notin - LongMax - 1 .. LongMax THEN Thrown
      ELSE <<v, b + sign + d - 1>>
stod(s) ==
  LET b == 1 + Length(Blanks, s, 1)
      sign == Has({"-"}, s, b)
      p == b + sign
      whole == Digits(s, p)
      dot == Has({"."}, s, p + whole)
      part == IF dot = 1 THEN Digits(s, p + whole + 1) ELSE 0
      e == p + whole + dot + part
      minus == Has({"-"}, s, e + 1)
      power == IF Has({"e", "E"}, s, e) = 1 THEN Digits(s, e + 1 + minus) ELSE 0
      v == Signed(sign, (100 * Worth[whole + part] * 10 ^ (IF minus = 1 THEN 0 ELSE Worth[power]))
                           \div 10 ^ (part + (IF minus = 1 THEN Worth[power] ELSE 0)))
  IN  IF whole + part = 0 \/ v \notin - DoubleMax .. DoubleMax THEN Thrown
      ELSE <<v, e - 1 + (IF power > 0 THEN 1 + minus + power ELSE 0)>>

\* The whole of the text is the number, or there is none.
Whole(r, u) == IF r # Thrown /\ r[2] = Len(u) THEN <<r[1]>> ELSE Thrown
SlipParseInt(raw) == LET r == stoll(Unquoted(raw)) IN IF r = Thrown THEN Thrown ELSE <<r[1]>>
parse_int(raw) == Whole(stoll(Unquoted(raw)), Unquoted(raw))
parse_double(raw) == Whole(stod(Unquoted(raw)), Unquoted(raw))
parse_bool(raw) ==
  LET v == Unquoted(raw)
  IN  IF v = True THEN <<TRUE>> ELSE IF v = False THEN <<FALSE>> ELSE Thrown

\* The narrowing of an int64_t; of a double, beyond whose limits is infinity.
SlipNarrowed(r, low, high) == IF r # Thrown /\ r[1] \in low .. high + 1 THEN r ELSE Thrown
Narrowed(r, low, high) == IF r # Thrown /\ r[1] \in low .. high THEN r ELSE Thrown
parse_float(raw) ==
  LET r == parse_double(raw)
  IN  IF r = Thrown THEN Thrown
      ELSE <<Max({- FloatMax - 1, Min({FloatMax + 1, r[1]})})>>

\* TypeRegistry::_store and dispatch.
Integers64 == {"int", "unsigned int", "int64_t", "size_t"}
Numbers == Integers64 \cup {"double", "float"}
dispatch(T, s) ==
  CASE T = "bool" -> parse_bool(s)
    [] T = "int" -> Narrowed(parse_int(s), - IntMax - 1, IntMax)
    [] T = "unsigned int" -> Narrowed(parse_int(s), 0, UnsignedMax)
    [] T = "int64_t" -> parse_int(s)
    [] T = "size_t" -> Narrowed(parse_int(s), 0, LongMax)
    [] T = "double" -> parse_double(s)
    [] T = "float" -> parse_float(s)
    [] T = "string" -> <<s>>

----------------------------------------------------------------------------
(* Reading a node.                                                          *)

\* The pieces of s between the characters of S, empty ones too.
Split(S, s) ==
  LET cuts == Sequence!SetToSortSeq({0, Len(s) + 1} \cup {i \in DOMAIN s : s[i] \in S}, <)
  IN  [i \in 1 .. Len(cuts) - 1 |-> SubSeq(s, cuts[i] + 1, cuts[i + 1] - 1)]
NotEmpty(s) == s # <<>>

\* field_split_tokens and field_split_rows
Tokens(s) == SelectSeq(Split(Blanks, s), NotEmpty)
SlipRows(raw) ==
  LET parts == Split({";"}, Unquoted(raw)) IN [i \in DOMAIN parts |-> Tokens(parts[i])]
Rows2D(raw) ==
  LET parts == Split({";"}, Unquoted(raw))
  IN  SelectSeq([i \in DOMAIN parts |-> Tokens(parts[i])], NotEmpty)

\* Node::_raw_string: the body of a verbatim string has no quotes around it.
RawString(n) == IF n.verbatim = "no" THEN Unquoted(n.raw) ELSE n.raw

\* as_field and _assert_not_verbatim
Readable(n, T) == n.node = "field" /\ (n.verbatim = "no" \/ T = "string")

\* _param_inner: the first element that throws ends it.
Each(rs) == IF \E i \in DOMAIN rs : rs[i] = Thrown THEN Thrown
            ELSE <<[i \in DOMAIN rs |-> rs[i][1]]>>
EachOf(T, ts) == Each([i \in DOMAIN ts |-> dispatch(T, ts[i])])
param(n, T) == IF Readable(n, T) THEN dispatch(T, RawString(n)) ELSE Thrown
paramList(n, T) ==
  IF Readable(n, "list") THEN EachOf(T, Tokens(Unquoted(n.raw))) ELSE Thrown
paramRows(n, T) ==
  IF Readable(n, "list")
    THEN LET rows == Rows2D(n.raw) IN Each([i \in DOMAIN rows |-> EachOf(T, rows[i])])
    ELSE Thrown

----------------------------------------------------------------------------
(* Properties.                                                              *)

\* The value of n as its author wrote it: what its quotes enclose, or the word.
ValueFrom(n) == Skipped(1 + Min({q \in Skipped(Place(n) + Len(n.name)) .. Len(text) : text[q] = "="}))
Written(n) ==
  LET p == ValueFrom(n)
      Until(S, q) == SubSeq(text, q, q + Length(Char \ S, text, q) - 1)
  IN  IF text[p] \in {"'", "dq"} THEN Until({text[p]}, p + 1) ELSE Until(Separators, p)

Plain == {n \in Nodes : /\ n.node = "field" /\ n.verbatim = "no"
                        /\ \A i \in DOMAIN n.raw : n.raw[i] # "$"}

\* The decimal text of a number.
DecimalOf(v) ==
  LET size == CHOOSE k \in 1 .. 5 : Worth[k] \in {v, 0 - v}
  IN  (IF v < 0 THEN <<"-">> ELSE <<>>) \o [i \in 1 .. size |-> "1"]
Sample == {Worth[k] : k \in 1 .. 5} \cup {0 - Worth[k] : k \in 1 .. 5}
RangeOf == [int |-> - IntMax - 1 .. IntMax, unsigned |-> 0 .. UnsignedMax,
            long |-> - LongMax - 1 .. LongMax, size |-> 0 .. LongMax]
Limits(T) == CASE T = "int" -> RangeOf.int [] T = "unsigned int" -> RangeOf.unsigned
               [] T = "int64_t" -> RangeOf.long [] T = "size_t" -> RangeOf.size

\* A whole number is read as what the text says, or refused: the number whose decimal
\* text stands there, if the type can hold it, never one that wrapped around or lost
\* its sign on the way through int64_t (Node.cpp:234), and never for any other text.
\* The greatest and the least number of a type are among the ones that it can hold.
NumbersAreTheText ==
  Read => \A n \in Plain : \A T \in Integers64 :
            LET says == {v \in Sample \cap Limits(T) : Tidy(Written(n)) = DecimalOf(v)}
            IN  IF says = {} THEN param(n, T) = Thrown
                ELSE \E v \in says : param(n, T) = <<v>>

\* README.md: "Rows are separated by `;`.  Each row is a whitespace-delimited sequence
\* of elements": a list of lists has the words of the text, each in the row it stands
\* in, whatever blanks and line breaks the scanner kept, dropped or put there.
RowsAreTheText ==
  Read => \A n \in Plain :
            \A w \in {Written(n)}, rows \in {paramRows(n, "string")[1]} :
            LET IsWord(i, j) == /\ \A k \in i .. j : w[k] \notin Blanks \cup {";"}
                                /\ i = 1 \/ w[i - 1] \in Blanks \cup {";"}
                                /\ j = Len(w) \/ w[j + 1] \in Blanks \cup {";"}
                Cuts(i) == {k \in 1 .. i - 1 : w[k] = ";"}
                words == {ij \in (1 .. Len(w)) \X (1 .. Len(w)) :
                            ij[1] <= ij[2] /\ IsWord(ij[1], ij[2])}
                Nth(ij) == Cardinality({o \in words : o[1] <= ij[1] /\ Cuts(o[1]) = Cuts(ij[1])})
                Row(ij) == Cardinality({Cuts(o[1]) : o \in {o \in words : o[1] <= ij[1]}})
            IN  /\ \A ij \in words : rows[Row(ij)][Nth(ij)] = SubSeq(w, ij[1], ij[2])
                /\ Cardinality(words) = Cardinality({<<r, c>> \in (1 .. Len(w)) \X (1 .. Len(w)) :
                                                       r \in DOMAIN rows /\ c \in DOMAIN rows[r]})
                /\ \A r \in DOMAIN rows : rows[r] # <<>>

\* Whoever reads one number as a scalar, as a list or as a list of lists, and as one
\* type or another, gets that number or is refused: a value that is not one number is
\* no scalar, and neither is a verbatim string any of them.
ReadingsAgree ==
  Read => \A n \in Nodes : n.node = "field" /\ (n \in Plain \/ n.verbatim # "no") =>
            \A T \in Numbers :
              \A one \in {param(n, T)} :
                  /\ IF one = Thrown
                       THEN \A v \in {p \in {paramList(n, T)} : p # Thrown} : Len(v[1]) # 1
                       ELSE /\ paramList(n, T) = <<one>>
                            /\ paramRows(n, T) = <<<<one>>>>
                  /\ T \in Integers64 /\ one # Thrown =>
                       /\ param(n, "int64_t") = one
                       /\ param(n, "double") = <<100 * one[1]>>
                       /\ param(n, "float") = <<100 * one[1]>>
                  /\ n.verbatim # "no" => one = Thrown
====
