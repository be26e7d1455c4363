---- MODULE Scanner ----
(***************************************************************************)
(* HITlex, the function flex generated, at the level of its tables and its *)
(* buffer: yy_match goes from state to state, a character a step, and      *)
(* remembers the last state that accepts; yytext is ended by a NUL written *)
(* over the character behind it, which yy_hold_char keeps; and a NUL read  *)
(* is the end of the buffer, or a character, or comes back to what was     *)
(* matched before it.                                                      *)
(*                                                                         *)
(* What the rules' actions do besides - tokens, the driver - is the matter *)
(* of Lexer.  Here they begin a condition, keep or push back.              *)
(***************************************************************************)
EXTENDS Patterns, ScannerTables

CONSTANT Texts  \* the inputs

ASSUME TextsAssumption == Texts \subseteq Seq(Char)

VARIABLES
  yy_ch_buf,               \* the buffer, a C array
  yy_c_buf_p, yytext_ptr,  \* where scanning goes on, and where yytext begins
  yy_hold_char,
  yy_start,                \* 1 + 2 * the start condition
  yy_more_flag, yy_more_len,
  yy_cp, yy_bp,            \* of yylex: the current character, the start of this run
  yy_current_state,
  yy_last,                 \* yy_last_accepting_state and yy_last_accepting_cpos
  yy_act,
  stage,                   \* "call" (the loop of yylex), "match", "act", "nul" or "last"
                           \* (yy_get_previous_state at a NUL or at the end), or "done"
  seen                     \* history: the match that was handed to an action last

buffer == <<yy_ch_buf, yy_c_buf_p, yytext_ptr, yy_hold_char>>
run == <<yy_cp, yy_bp, yy_current_state, yy_last, yy_act>>
vars == <<text, buffer, yy_start, yy_more_flag, yy_more_len, run, stage, seen>>

----------------------------------------------------------------------------
(* The automaton.  The operators called Slip... are plausible mistakes in   *)
(* the operator that follows them; nothing else uses one.                   *)

At(a, i) == a[i + 1]
Jam == 189      \* the state that goes nowhere
End == 29       \* the state after the NUL at the end of the buffer
EndAct == 77    \* YY_END_OF_BUFFER

yy_ec == [c \in Char |-> IF c = "nul" THEN 0 ELSE CHOOSE i \in DOMAIN Classes : Classes[i] = c]

\* The state after class c: what is not listed for a state is looked up in its
\* default one, from 190 on by a coarser class.
Move[s \in 0 .. 217, c \in 0 .. 32] ==
  IF At(yy_chk, At(yy_base, s) + c) = s THEN At(yy_nxt, At(yy_base, s) + c)
  ELSE LET d == At(yy_def, s) IN Move[d, IF d >= 190 THEN At(yy_meta, c) ELSE c]
Goes(s, c) == Move[<<s, c>>]

\* Every character has a class; every state goes to End at a NUL or nowhere, and End,
\* which alone stands for the end of the buffer, goes nowhere.  From the state a run
\* begins in, every character leads to a state that accepts (rule ECHO at the least).
ASSUME TablesAssumption ==
  /\ \A c \in Char : yy_ec[c] \in 0 .. 32
  /\ yy_ec["nul"] = 0
  /\ \A s \in 1 .. Jam : \A c \in 0 .. 32 : Goes(s, c) \in 1 .. Jam
  /\ \A s \in 1 .. Jam : Goes(s, 0) \in {End, Jam}
  /\ \A c \in 0 .. 32 : Goes(End, c) = Jam
  /\ \A s \in 0 .. Jam : At(yy_accept, s) \in 0 .. EndAct /\ (At(yy_accept, s) = EndAct <=> s = End)
  /\ \A n \in 0 .. 13 : \A c \in 0 .. 32 :
       Goes(1 + 2 * n, c) # Jam /\ At(yy_accept, Goes(1 + 2 * n, c)) # 0

\* An accepting state is remembered, with where it was entered.
Remember(s, p, last) == IF At(yy_accept, s) # 0 THEN [state |-> s, cpos |-> p] ELSE last

\* The rules of each start condition, and the number of the first.
Mode == <<"BODY", "BODY", "IN_PARAM", "IN_PATH", "AFTER_EQ", "IN_ARRAY", "IN_DARRAY", "IN_UNQUOTED",
          "IN_UBRACE", "IN_ARRAY_BRACE", "IN_DARRAY_BRACE", "IN_INCLUDE", "IN_TRIPLE_SQ",
          "IN_TRIPLE_DQ">>
FirstRule == <<1, 1, 15, 10, 21, 48, 60, 40, 44, 56, 68, 72, 32, 36>>
ECHO == 76
YY_START == (yy_start - 1) \div 2
Conditions(m) == {1 + 2 * n : n \in {i \in 0 .. 13 : At(Mode, i) = m}}
RuleIndex == IF yy_act = ECHO THEN 5 ELSE yy_act - At(FirstRule, YY_START) + 1

----------------------------------------------------------------------------
(* yylex.                                                                   *)

Put(buf, p, c) == [buf EXCEPT ![p + 1] = c]

ScannerInit(t) ==
  /\ text = t
  /\ yy_ch_buf = t \o <<"nul", "nul">>
  /\ yy_c_buf_p = 0 /\ yytext_ptr = 0
  /\ yy_hold_char = At(yy_ch_buf, 0)
  /\ yy_start = 1
  /\ yy_more_flag = FALSE /\ yy_more_len = 0
  /\ yy_cp = 0 /\ yy_bp = 0 /\ yy_current_state = 0 /\ yy_last = [state |-> 0, cpos |-> 0]
  /\ yy_act = 0
  /\ stage = "call"
  /\ seen = [mode |-> "BODY", rule |-> 0, yytext |-> <<>>]
Init == \E t \in Texts : ScannerInit(t)

\* The top of the loop.
SlipKeptLength == 0
KeptLength == IF yy_more_flag THEN yy_c_buf_p - yytext_ptr ELSE 0
SlipRestored == yy_ch_buf
Restored == Put(yy_ch_buf, yy_c_buf_p, yy_hold_char)

StartRun ==
  /\ stage = "call"
  /\ yy_more_len' = KeptLength /\ yy_more_flag' = FALSE
  /\ yy_ch_buf' = Restored
  /\ yy_cp' = yy_c_buf_p /\ yy_bp' = yy_c_buf_p
  /\ yy_current_state' = yy_start
  /\ stage' = "match"
  /\ UNCHANGED <<text, yy_c_buf_p, yytext_ptr, yy_hold_char, yy_start, yy_last, yy_act, seen>>

\* yy_find_action and YY_DO_BEFORE_ACTION: yytext is what lies between the start of
\* this run, or of the matches kept, and p.
FindAction(buf, bp, p, s) ==
  /\ yy_act' = At(yy_accept, s)
  /\ yytext_ptr' = bp - yy_more_len
  /\ yy_hold_char' = At(buf, p)
  /\ yy_ch_buf' = Put(buf, p, "nul")
  /\ yy_c_buf_p' = p /\ yy_cp' = p /\ yy_bp' = bp /\ yy_current_state' = s
  /\ stage' = "act"
  /\ UNCHANGED <<text, yy_start, yy_more_flag, yy_more_len, seen>>

\* yy_match: one character, and when no rule can match on, the last that did.
MatchCharacter ==
  LET next == Goes(yy_current_state, yy_ec[At(yy_ch_buf, yy_cp)])
      last == Remember(yy_current_state, yy_cp, yy_last)
  IN  /\ stage = "match"
      /\ yy_last' = last
      /\ IF next # Jam
           THEN /\ yy_current_state' = next
                /\ yy_cp' = yy_cp + 1
                /\ UNCHANGED <<text, buffer, yy_start, yy_more_flag, yy_more_len, yy_bp, yy_act,
                               stage, seen>>
           ELSE FindAction(yy_ch_buf, yy_bp, last.cpos, last.state)

\* Case 0, "must back up", of an action found at a state that accepts nothing.
Before == Put(yy_ch_buf, yy_cp, yy_hold_char)
BackUp ==
  /\ stage = "act" /\ yy_act = 0
  /\ FindAction(Before, yy_bp, yy_last.cpos, yy_last.state)
  /\ UNCHANGED yy_last

\* YY_END_OF_BUFFER, at a NUL of the text or at the end of the buffer, which is not
\* filled again (yy_get_next_buffer): what was matched before the NUL is gone over once
\* more.
SlipIsNul == yy_c_buf_p <= Len(text) + 1
IsNul == yy_c_buf_p <= Len(text)
SlipIsEmptyRun == yy_c_buf_p - yytext_ptr = 1
IsEmptyRun == yy_c_buf_p - yytext_ptr - yy_more_len = 1
BeginAgain ==
  /\ stage = "act" /\ yy_act = EndAct /\ (IsNul \/ ~ IsEmptyRun)
  /\ yy_ch_buf' = Before
  /\ yy_c_buf_p' = IF IsNul THEN yy_cp - 1 ELSE Len(text)
  /\ yy_bp' = yytext_ptr + yy_more_len /\ yy_cp' = yytext_ptr + yy_more_len
  /\ yy_current_state' = yy_start
  /\ stage' = IF IsNul THEN "nul" ELSE "last"
  /\ UNCHANGED <<text, yytext_ptr, yy_hold_char, yy_start, yy_more_flag, yy_more_len, yy_last,
                 yy_act, seen>>

\* yy_get_previous_state, a character a step.  There a NUL is a character, of class 1.
AgainCharacter ==
  LET c == At(yy_ch_buf, yy_cp)
  IN  /\ stage \in {"nul", "last"} /\ yy_cp < yy_c_buf_p
      /\ yy_last' = Remember(yy_current_state, yy_cp, yy_last)
      /\ yy_current_state' = Goes(yy_current_state, IF c = "nul" THEN 1 ELSE yy_ec[c])
      /\ yy_cp' = yy_cp + 1
      /\ UNCHANGED <<text, buffer, yy_start, yy_more_flag, yy_more_len, yy_bp, yy_act, stage, seen>>

\* yy_try_NUL_trans: the NUL of the text is matched, or ends a match.
NulRead ==
  LET next == Goes(yy_current_state, 1)
      last == Remember(yy_current_state, yy_c_buf_p, yy_last)
  IN  /\ stage = "nul" /\ yy_cp >= yy_c_buf_p
      /\ yy_last' = last
      /\ IF next # Jam
           THEN /\ yy_c_buf_p' = yy_c_buf_p + 1 /\ yy_cp' = yy_c_buf_p + 1
                /\ yy_current_state' = next
                /\ stage' = "match"
                /\ UNCHANGED <<text, yy_ch_buf, yytext_ptr, yy_hold_char, yy_start, yy_more_flag,
                               yy_more_len, yy_bp, yy_act, seen>>
           ELSE FindAction(yy_ch_buf, yy_bp, last.cpos, last.state)

\* EOB_ACT_LAST_MATCH: the text matched so far goes first.  What is matched there may
\* have to be backed up from.
LastMatch ==
  /\ stage = "last" /\ yy_cp >= yy_c_buf_p
  /\ FindAction(yy_ch_buf, yy_bp, Len(text), yy_current_state)
  /\ UNCHANGED yy_last

\* The text of an action.
Yytext == SubSeq(yy_ch_buf, yytext_ptr + 1, yy_c_buf_p)

\* <<EOF>>; the parser does not call again but for the end of a bare value.
EndOfText ==
  /\ stage = "act" /\ yy_act = EndAct /\ ~ IsNul /\ IsEmptyRun
  /\ yy_ch_buf' = Before
  /\ yy_c_buf_p' = yytext_ptr + yy_more_len
  /\ seen' = [mode |-> At(Mode, YY_START), rule |-> 0, yytext |-> <<>>]
  /\ IF At(Mode, YY_START) = "IN_UNQUOTED"
       THEN yy_start' \in Conditions("BODY") /\ stage' = "call"
       ELSE yy_start' = yy_start /\ stage' = "done"
  /\ UNCHANGED <<text, yytext_ptr, yy_hold_char, yy_more_flag, yy_more_len, run>>

\* The action of a rule: BEGIN and yymore(), or yyless(0).
RuleAction ==
  LET r == Rules(At(Mode, YY_START), yy_bp + 1)[RuleIndex]
  IN  /\ stage = "act" /\ yy_act \notin {0, EndAct}
      /\ seen' = [mode |-> At(Mode, YY_START), rule |-> RuleIndex, yytext |-> Yytext]
      /\ \E outermost \in BOOLEAN :
           /\ IF r.next = At(Mode, YY_START) \/ (r.brace = "close" /\ ~ outermost)
                THEN yy_start' = yy_start
                ELSE yy_start' \in Conditions(r.next)
           /\ yy_more_flag' = (r.do = "more" /\ (r.brace = "close" => ~ outermost))
      /\ IF r.do = "flush"
           THEN /\ yy_hold_char' = At(Before, yy_bp)
                /\ yy_ch_buf' = Put(Before, yy_bp, "nul")
                /\ yy_c_buf_p' = yy_bp
                /\ yytext_ptr' = yy_bp - yy_more_len
           ELSE UNCHANGED buffer
      /\ stage' = "call"
      /\ UNCHANGED <<text, yy_more_len, run>>

Next ==
  \/ StartRun
  \/ MatchCharacter
  \/ BackUp
  \/ BeginAgain
  \/ AgainCharacter
  \/ NulRead
  \/ LastMatch
  \/ EndOfText
  \/ RuleAction

\* yylex and the parser that calls it run on.
Spec == Init /\ [][Next]_vars /\ WF_vars(Next)

----------------------------------------------------------------------------
(* Properties.                                                              *)

\* No pointer leaves the buffer and its two NULs, and each lies behind the one it is
\* to lie behind.
TypeOK ==
  /\ Len(yy_ch_buf) = Len(text) + 2
  /\ yy_start \in {1 + 2 * n : n \in 0 .. 13}
  /\ yy_c_buf_p \in 0 .. Len(text) + 1
  /\ yytext_ptr \in 0 .. Len(text) /\ yy_more_len \in 0 .. yy_bp
  /\ yy_cp \in 0 .. Len(text) + 1 /\ yy_last.cpos \in 0 .. Len(text) + 1
  /\ stage \in {"match", "act", "nul", "last"} => yy_bp <= yy_cp
  /\ yy_act \in 0 .. EndAct

\* The NUL that ends yytext (YY_DO_BEFORE_ACTION) is undone wherever scanning goes
\* on: while a run is matched the buffer is the text, and while an action reads yytext
\* it is the text but for the one character held.
BufferIsText ==
  /\ stage \in {"match", "nul", "last"} => yy_ch_buf = text \o <<"nul", "nul">>
  /\ stage \in {"act", "call"}
       => Put(yy_ch_buf, yy_c_buf_p, yy_hold_char) = text \o <<"nul", "nul">>

\* The compiled automaton does what the rules mean: the rule it comes to, by tables,
\* back-ups and second runs, is the one that Matching chooses, with the yytext it has
\* there.
RunStarts == IF stage \in {"call", "done"} THEN yy_c_buf_p ELSE yy_bp
Kept == IF stage = "call" /\ yy_more_flag THEN Yytext
        ELSE IF stage \in {"match", "act", "nul", "last"} THEN SubSeq(yy_ch_buf, yy_bp - yy_more_len + 1, yy_bp)
        ELSE <<>>
M == INSTANCE Matching WITH pos <- RunStarts + 1, mode <- At(Mode, YY_START), kept <- Kept
MatchesTheRules == M!Spec

\* The scanner comes to the end of every text: no run is begun over and over.
ScanEnds == <>(stage = "done")
====
