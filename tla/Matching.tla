---- MODULE Matching ----
(***************************************************************************)
(* What the rules of Lexer.l mean, before flex compiles them: of the rules *)
(* of the start condition the one that matches most fires, the first of    *)
(* those that match as much; a `.` or a [^...] matches a NUL like any      *)
(* other character; and the text matched is what the action reads, with    *)
(* what yymore() kept in front of it.                                      *)
(***************************************************************************)
EXTENDS Patterns

VARIABLES
  pos,   \* the next character to match
  mode,  \* the start condition
  kept,  \* what yymore() keeps of the matches before
  seen   \* the match that was handed to an action last

vars == <<text, pos, mode, kept, seen>>

Nothing == [mode |-> "BODY", rule |-> 0, yytext |-> <<>>]

Init ==
  /\ pos = 1
  /\ mode = "BODY"
  /\ kept = <<>>
  /\ seen = Nothing

\* The action of rule r may begin another condition.  yymore() keeps what was
\* matched: each piece of a brace expression in an array does, but for the brace that
\* closes it.  yyless(0) puts the character back that ends a bare value.
Acts(r, yytext) ==
  /\ \E outermost \in BOOLEAN :
       /\ mode' = IF r.brace = "close" /\ ~ outermost THEN mode ELSE r.next
       /\ kept' = IF r.do = "more" /\ (r.brace = "close" => ~ outermost) THEN yytext ELSE <<>>
  /\ pos' = IF r.do = "flush" THEN pos ELSE pos + r.len

Match ==
  /\ pos <= Len(text)
  /\ \E rs \in {Rules(mode, pos)} : \E i \in DOMAIN rs :
       LET yytext == kept \o SubSeq(text, pos, pos + rs[i].len - 1)
       IN  /\ IsBest(rs, i)
           /\ seen' = [mode |-> mode, rule |-> i, yytext |-> yytext]
           /\ Acts(rs[i], yytext)
  /\ UNCHANGED text

\* <<EOF>>: only that of IN_UNQUOTED begins another condition.
EndOfText ==
  /\ pos > Len(text)
  /\ seen' = [mode |-> mode, rule |-> 0, yytext |-> <<>>]
  /\ mode' = IF mode = "IN_UNQUOTED" THEN "BODY" ELSE mode
  /\ kept' = <<>>
  /\ UNCHANGED <<text, pos>>

Next == Match \/ EndOfText
Spec == Init /\ [][Next]_vars
====
