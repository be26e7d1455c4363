---- MODULE Scanner_proofs ----
(***************************************************************************)
(* The buffer of the scanner and its pointers, for every text:             *)
(* BufferIsText and TypeOK.                                                *)
(*                                                                         *)
(* What YY_DO_BEFORE_ACTION writes into the buffer can be undone from      *)
(* yy_hold_char wherever yy_c_buf_p still is where it was written.  The    *)
(* one place where it is not is the end of the text, and there the run is  *)
(* empty and both characters are NULs; that the scanner stops there needs  *)
(* the bounds of its pointers, and these the automaton's tables.           *)
(***************************************************************************)
EXTENDS Scanner, SequenceTheorems, TLAPS

Full == text \o <<"nul", "nul">>
IsBuffer(b) == b = [i \in 1 .. Len(text) + 2 |-> b[i]]

----------------------------------------------------------------------------
(* The buffer.                                                              *)

LEMMA FullBuffer ==
  ASSUME text \in Seq(Char)
  PROVE  /\ Len(text) \in Nat
         /\ Full \in Seq(Char)
         /\ Len(Full) = Len(text) + 2
         /\ IsBuffer(Full)
         /\ Full[Len(text) + 1] = "nul"
         /\ Full[Len(text) + 2] = "nul"
<1>1. "nul" \in Char
  BY DEF Char
<1>2. Full \in Seq(Char) /\ Len(Full) = Len(text) + 2 /\ Len(text) \in Nat
  BY <1>1 DEF Full
<1>3. IsBuffer(Full)
  BY <1>2 DEF IsBuffer
<1>4. Full[Len(text) + 1] = "nul" /\ Full[Len(text) + 2] = "nul"
  BY DEF Full
<1> QED
  BY <1>2, <1>3, <1>4

LEMMA PutKeeps ==
  ASSUME NEW b, NEW p, NEW x, IsBuffer(b)
  PROVE  IsBuffer(Put(b, p, x))
  BY DEF IsBuffer, Put

\* A character written over and put back.
LEMMA PutBack ==
  ASSUME NEW b, NEW p, NEW x, IsBuffer(b)
  PROVE  Put(Put(b, p, x), p, At(b, p)) = b
  BY DEF IsBuffer, Put, At

\* A character put where it stands.
LEMMA PutSame ==
  ASSUME NEW b, NEW p, NEW x, IsBuffer(b), p \in Nat, p <= Len(text) + 1, b[p + 1] = x
  PROVE  Put(b, p, x) = b
  BY DEF IsBuffer, Put

----------------------------------------------------------------------------
(* The invariant, one part for each stage.                                  *)

LastIsBounded(last) ==
  /\ last.cpos \in Nat /\ last.cpos <= Len(text) + 1
  /\ last.state \in 0 .. Jam
  /\ last.cpos = Len(text) + 1 => last.state = End
  /\ last.state = End => last.cpos >= 1
Common ==
  /\ text \in Seq(Char)
  /\ IsBuffer(yy_ch_buf)
  /\ yytext_ptr \in Int /\ yy_more_len \in Int
  /\ yy_start \in 1 .. 27
  /\ LastIsBounded(yy_last)
Matching1 ==
  /\ yy_ch_buf = Full
  /\ yy_bp \in Nat /\ yy_bp <= Len(text)
  /\ yy_cp \in Nat /\ yy_cp <= Len(text) + 1
  /\ yy_current_state \in 1 .. Jam
  /\ yy_cp = Len(text) + 1 => yy_current_state = End
  /\ yy_current_state = End => yy_cp >= 1
Rescanning ==
  /\ yy_ch_buf = Full
  /\ yy_bp \in Nat /\ yy_bp <= Len(text)
  /\ yy_cp \in Nat
  /\ yy_c_buf_p \in Nat /\ yy_c_buf_p <= Len(text)
  /\ stage = "nul" => yy_c_buf_p < Len(text)
  /\ stage = "last" => yy_c_buf_p = Len(text)
  /\ yy_current_state \in 1 .. Jam
  /\ yy_current_state = End => yy_cp >= 1 /\ yy_c_buf_p >= 1
Acting ==
  /\ Put(yy_ch_buf, yy_c_buf_p, yy_hold_char) = Full
  /\ yy_bp \in Nat /\ yy_bp <= Len(text) /\ yytext_ptr + yy_more_len = yy_bp
  /\ yy_c_buf_p \in Nat /\ yy_c_buf_p <= Len(text) + 1
  /\ yy_cp = yy_c_buf_p
  /\ yy_c_buf_p = Len(text) + 1 => yy_act = EndAct
  /\ yy_act = EndAct => yy_c_buf_p >= 1
Calling ==
  /\ Put(yy_ch_buf, yy_c_buf_p, yy_hold_char) = Full
  /\ yy_c_buf_p \in Nat /\ yy_c_buf_p <= Len(text)
Inv ==
  /\ Common
  /\ stage \in {"call", "match", "act", "nul", "last", "done"}
  /\ stage = "match" => Matching1
  /\ stage \in {"nul", "last"} => Rescanning
  /\ stage = "act" => Acting
  /\ stage = "call" => Calling

LEMMA InitHolds == Init => Inv
<1> SUFFICES ASSUME NEW t \in Texts, ScannerInit(t) PROVE Inv
  BY DEF Init
<1>1. text \in Seq(Char) /\ yy_ch_buf = Full
  BY TextsAssumption DEF ScannerInit, Full
<1>2. Len(text) \in Nat /\ IsBuffer(Full)
  BY <1>1, FullBuffer
<1>3. LastIsBounded(yy_last)
  <2>1. yy_last = [state |-> 0, cpos |-> 0]
    BY DEF ScannerInit
  <2> QED
    BY <1>2, <2>1 DEF LastIsBounded, Jam, End
<1>4. IsBuffer(yy_ch_buf)
  BY <1>1, <1>2
<1>5. Common
  <2>1. yytext_ptr = 0 /\ yy_more_len = 0 /\ yy_start = 1
    BY DEF ScannerInit
  <2> QED
    BY <1>1, <1>3, <1>4, <2>1 DEF Common
<1>6. yy_c_buf_p = 0 /\ stage = "call" /\ yy_hold_char = At(yy_ch_buf, yy_c_buf_p)
  BY Zenon DEF ScannerInit
<1>7. Put(yy_ch_buf, yy_c_buf_p, yy_hold_char) = yy_ch_buf
  <2>1. yy_c_buf_p \in Nat /\ yy_c_buf_p <= Len(text) + 1
    BY <1>2, <1>6
  <2>2. yy_ch_buf[yy_c_buf_p + 1] = yy_hold_char
    BY Zenon, <1>6 DEF At
  <2> QED
    BY Zenon, <1>4, <2>1, <2>2, PutSame
<1> QED
  BY <1>1, <1>2, <1>5, <1>6, <1>7 DEF Inv, Calling

\* YY_DO_BEFORE_ACTION on the whole buffer.
LEMMA FindActionActs ==
  ASSUME Common, NEW bp \in Nat, bp <= Len(text), NEW p \in Nat, p <= Len(text) + 1,
         NEW s \in 0 .. Jam, p = Len(text) + 1 => s = End, s = End => p >= 1,
         LastIsBounded(yy_last)', FindAction(Full, bp, p, s)
  PROVE  Inv'
<1>1. Len(text) \in Nat /\ IsBuffer(Full) /\ Full' = Full
  BY FullBuffer DEF Common, FindAction, Full
<1>2. IsBuffer(yy_ch_buf)'
  <2>1. yy_ch_buf' = Put(Full, p, "nul") /\ text' = text
    BY DEF FindAction
  <2>2. IsBuffer(Put(Full, p, "nul"))
    BY <1>1, PutKeeps
  <2> DEFINE b == Put(Full, p, "nul")
  <2>3. yy_ch_buf' = b /\ b = [i \in 1 .. Len(text) + 2 |-> b[i]]
    BY <2>1, <2>2 DEF IsBuffer
  <2> HIDE DEF b
  <2> QED BY <2>1, <2>3 DEF IsBuffer
<1>3. Put(Put(Full, p, "nul"), p, At(Full, p)) = Full
  BY <1>1, PutBack
<1>4. (yytext_ptr \in Int)' /\ (yytext_ptr + yy_more_len = yy_bp)'
  BY DEF FindAction, Common
<1>5. (yy_act = EndAct)' <=> s = End
  BY TablesAssumption DEF FindAction
<1>6. Common'
  BY <1>2, <1>4 DEF FindAction, Common
<1>7. Acting'
  BY <1>1, <1>3, <1>4, <1>5 DEF FindAction, Acting
<1> QED
  BY <1>6, <1>7 DEF Inv, FindAction

----------------------------------------------------------------------------
(* The steps.                                                               *)

LEMMA RememberBounds ==
  ASSUME NEW s \in 1 .. Jam, NEW p \in Nat, NEW last, LastIsBounded(last),
         p <= Len(text) + 1, p = Len(text) + 1 => s = End, s = End => p >= 1
  PROVE  LastIsBounded(Remember(s, p, last))
<1>1. CASE At(yy_accept, s) # 0
  <2>1. Remember(s, p, last) = [state |-> s, cpos |-> p]
    BY <1>1 DEF Remember
  <2> QED
    BY <2>1 DEF LastIsBounded, Jam
<1>2. CASE At(yy_accept, s) = 0
  BY <1>2 DEF Remember
<1> QED
  BY <1>1, <1>2

LEMMA LastStays ==
  ASSUME NEW last, LastIsBounded(last), yy_last' = last, UNCHANGED text
  PROVE  LastIsBounded(yy_last)'
  BY DEF LastIsBounded

\* Where the buffer is the text, every class is one of the automaton's.
LEMMA ClassOfText ==
  ASSUME text \in Seq(Char), NEW p \in Nat, p <= Len(text) + 1
  PROVE  /\ At(Full, p) \in Char
         /\ yy_ec[At(Full, p)] \in 0 .. 32
         /\ p = Len(text) => yy_ec[At(Full, p)] = 0
<1>1. Full[p + 1] \in Char
  BY FullBuffer
<1>2. p = Len(text) => Full[p + 1] = "nul"
  BY FullBuffer
<1> QED
  BY <1>1, <1>2, TablesAssumption DEF At

LEMMA GoesOn ==
  ASSUME NEW s \in 1 .. Jam, NEW c \in 0 .. 32
  PROVE  Goes(s, c) \in 1 .. Jam
  BY TablesAssumption

LEMMA StartRunKeeps == Inv /\ StartRun => Inv'
<1> SUFFICES ASSUME Inv, StartRun PROVE Inv'
  OBVIOUS
<1>1. Common /\ Calling /\ Full' = Full
  BY DEF Inv, StartRun, Full
<1>2. yy_ch_buf' = Full
  BY <1>1 DEF StartRun, Restored, Calling
<1>3. Len(text) \in Nat /\ IsBuffer(Full)
  BY <1>1, FullBuffer DEF Common
<1>4. yy_more_len' \in Int
  BY <1>1 DEF StartRun, KeptLength, Common, Calling
<1>5. LastIsBounded(yy_last)'
  BY <1>1, LastStays DEF StartRun, Common
<1>6. IsBuffer(yy_ch_buf)'
  BY <1>2, <1>3 DEF IsBuffer, StartRun
<1>7. Common'
  BY <1>1, <1>4, <1>5, <1>6 DEF StartRun, Common
<1>8. Matching1'
  BY <1>1, <1>2, <1>3 DEF StartRun, Matching1, Calling, Common, End, Jam
<1> QED
  BY <1>7, <1>8 DEF Inv, StartRun

LEMMA MatchCharacterKeeps == Inv /\ MatchCharacter => Inv'
<1> SUFFICES ASSUME Inv, MatchCharacter PROVE Inv'
  OBVIOUS
<1> DEFINE class == yy_ec[At(yy_ch_buf, yy_cp)]
           next == Goes(yy_current_state, class)
           last == Remember(yy_current_state, yy_cp, yy_last)
<1>1. Common /\ Matching1 /\ Len(text) \in Nat
  BY FullBuffer DEF Inv, MatchCharacter, Common
<1>2. class \in 0 .. 32 /\ (yy_cp = Len(text) => class = 0)
  BY <1>1, ClassOfText DEF Common, Matching1
<1>3. LastIsBounded(last)
  BY <1>1, RememberBounds DEF Common, Matching1
<1>4. text' = text /\ yy_last' = last
  BY DEF MatchCharacter, FindAction
<1>5. LastIsBounded(yy_last)'
  BY <1>3, <1>4, LastStays
<1>6. CASE next # Jam
  <2>1. /\ yy_current_state' = next /\ yy_cp' = yy_cp + 1
        /\ UNCHANGED <<text, buffer, yy_start, yy_more_flag, yy_more_len, yy_bp, yy_act, stage, seen>>
    BY <1>6 DEF MatchCharacter
  <2> HIDE DEF class, next, last
  <2>2. yy_cp # Len(text) + 1
    BY <1>1, <1>2, <1>6, TablesAssumption DEF next, Matching1
  <2>3. next \in 1 .. Jam
    BY <1>1, <1>2, TablesAssumption DEF next, Matching1
  <2>4. yy_cp = Len(text) => next = End
    BY <1>1, <1>2, <1>6, TablesAssumption DEF next, Matching1
  <2>5. Full' = Full /\ Len(text)' = Len(text) /\ IsBuffer(yy_ch_buf)'
    BY <1>1, <2>1 DEF Full, IsBuffer, Common, buffer
  <2>6. Matching1'
    BY <1>1, <2>1, <2>2, <2>3, <2>4, <2>5 DEF Matching1, buffer
  <2>7. Common'
    BY <1>1, <1>5, <2>1, <2>5 DEF Common, buffer
  <2> QED
    BY <2>1, <2>6, <2>7 DEF Inv, MatchCharacter
<1>7. CASE next = Jam
  <2>1. FindAction(yy_ch_buf, yy_bp, last.cpos, last.state)
    BY <1>7 DEF MatchCharacter
  <2> HIDE DEF last
  <2>2. FindAction(Full, yy_bp, last.cpos, last.state)
    BY <1>1, <2>1 DEF Matching1
  <2>3. /\ last.cpos \in Nat /\ last.cpos <= Len(text) + 1 /\ last.state \in 0 .. Jam
        /\ last.cpos = Len(text) + 1 => last.state = End
        /\ last.state = End => last.cpos >= 1
        /\ yy_bp \in Nat /\ yy_bp <= Len(text)
    BY <1>1, <1>3 DEF LastIsBounded, Matching1
  <2> QED
    BY <1>1, <1>5, <2>2, <2>3, FindActionActs
<1> QED
  BY <1>6, <1>7

\* The NUL written behind yytext undone, before anything else is done.
LEMMA BeforeIsFull ==
  ASSUME Inv, stage = "act"
  PROVE  /\ Common /\ Acting /\ Before = Full
         /\ Len(text) \in Nat /\ IsBuffer(Full)
<1>1. Common /\ Acting
  BY DEF Inv
<1>2. Len(text) \in Nat /\ IsBuffer(Full)
  BY <1>1, FullBuffer DEF Common
<1> QED
  BY <1>1, <1>2 DEF Before, Acting

LEMMA BackUpKeeps == Inv /\ BackUp => Inv'
<1> SUFFICES ASSUME Inv, BackUp PROVE Inv'
  OBVIOUS
<1>1. Common /\ Acting /\ Before = Full
  BY BeforeIsFull DEF BackUp
<1>2. FindAction(Full, yy_bp, yy_last.cpos, yy_last.state)
  BY <1>1 DEF BackUp
<1>3. LastIsBounded(yy_last) /\ yy_bp \in Nat /\ yy_bp <= Len(text)
  BY <1>1 DEF Common, Acting
<1>4. LastIsBounded(yy_last)'
  BY <1>3, LastStays DEF BackUp, FindAction
<1> QED
  BY <1>1, <1>2, <1>3, <1>4, FindActionActs DEF LastIsBounded

LEMMA BeginAgainKeeps == Inv /\ BeginAgain => Inv'
<1> SUFFICES ASSUME Inv, BeginAgain PROVE Inv'
  OBVIOUS
<1>1. Common /\ Acting /\ Before = Full /\ Len(text) \in Nat /\ IsBuffer(Full)
  BY BeforeIsFull DEF BeginAgain
<1>2. text' = text /\ Full' = Full /\ yy_ch_buf' = Full
  BY <1>1 DEF BeginAgain, Full
<1>3. LastIsBounded(yy_last)'
  BY <1>1, LastStays DEF BeginAgain, Common
<1>4. Common'
  BY <1>1, <1>2, <1>3 DEF BeginAgain, Common, IsBuffer
<1>5. Rescanning'
  <2>1. yy_bp' = yy_bp /\ yy_cp' = yy_bp /\ yy_current_state' = yy_start
    BY <1>1 DEF BeginAgain, Acting
  <2>2. yy_c_buf_p' \in Nat /\ yy_c_buf_p' <= Len(text)
    BY <1>1 DEF BeginAgain, Acting, IsNul
  <2>3. stage' = "nul" => yy_c_buf_p' < Len(text)
    BY <1>1 DEF BeginAgain, Acting, IsNul
  <2>4. stage' = "last" => yy_c_buf_p' = Len(text)
    BY DEF BeginAgain
  <2>5. yy_current_state' \in 1 .. Jam /\ yy_current_state' # End
    BY <1>1, <2>1 DEF Common, Jam, End
  <2> QED
    BY <1>1, <1>2, <2>1, <2>2, <2>3, <2>4, <2>5 DEF Rescanning, Acting
<1> QED
  BY <1>4, <1>5 DEF Inv, BeginAgain

LEMMA AgainCharacterKeeps == Inv /\ AgainCharacter => Inv'
<1> SUFFICES ASSUME Inv, AgainCharacter PROVE Inv'
  OBVIOUS
<1>1. Common /\ Rescanning /\ Len(text) \in Nat
  BY FullBuffer DEF Inv, AgainCharacter, Common
<1>2. yy_cp < yy_c_buf_p /\ yy_cp' = yy_cp + 1 /\ stage \in {"nul", "last"}
      /\ UNCHANGED <<text, buffer, yy_start, yy_more_flag, yy_more_len, yy_bp, yy_act, stage, seen>>
  BY DEF AgainCharacter
<1>3. yy_current_state' \in 1 .. Jam
  <2>1. yy_ec[At(yy_ch_buf, yy_cp)] \in 0 .. 32
    BY <1>1, <1>2, ClassOfText DEF Common, Rescanning
  <2> DEFINE class == IF At(yy_ch_buf, yy_cp) = "nul" THEN 1 ELSE yy_ec[At(yy_ch_buf, yy_cp)]
  <2>2. yy_current_state' = Goes(yy_current_state, class)
    BY DEF AgainCharacter
  <2>3. class \in 0 .. 32
    BY <2>1
  <2>4. yy_current_state \in 1 .. Jam
    BY <1>1 DEF Rescanning
  <2> HIDE DEF class
  <2> QED
    BY <2>2, <2>3, <2>4, GoesOn
<1>4. LastIsBounded(yy_last)'
  <2>1. yy_cp \in Nat /\ yy_cp < Len(text) /\ yy_current_state \in 1 .. Jam
    BY <1>1, <1>2 DEF Rescanning
  <2>2. yy_last' = Remember(yy_current_state, yy_cp, yy_last)
    BY DEF AgainCharacter
  <2>3. yy_current_state = End => yy_cp >= 1
    BY <1>1 DEF Rescanning
  <2>4. LastIsBounded(Remember(yy_current_state, yy_cp, yy_last))
    BY <1>1, <2>1, <2>3, RememberBounds DEF Common
  <2> QED
    BY <1>2, <2>2, <2>4, LastStays
<1>5. Full' = Full /\ Len(text)' = Len(text) /\ IsBuffer(yy_ch_buf)'
  BY <1>1, <1>2 DEF Full, IsBuffer, Common, buffer
<1>6. Common'
  BY <1>1, <1>2, <1>4, <1>5 DEF Common, buffer
<1>7. Rescanning'
  BY <1>1, <1>2, <1>3, <1>5 DEF Rescanning, buffer
<1> QED
  BY <1>2, <1>6, <1>7 DEF Inv

LEMMA NulReadKeeps == Inv /\ NulRead => Inv'
<1> SUFFICES ASSUME Inv, NulRead PROVE Inv'
  OBVIOUS
<1> DEFINE class == 1
           next == Goes(yy_current_state, class)
           last == Remember(yy_current_state, yy_c_buf_p, yy_last)
<1>1. Common /\ Rescanning /\ Len(text) \in Nat /\ stage = "nul"
  BY FullBuffer DEF Inv, NulRead, Common
<1>2. yy_c_buf_p \in Nat /\ yy_c_buf_p < Len(text) /\ yy_current_state \in 1 .. Jam
  BY <1>1 DEF Rescanning
<1>3. LastIsBounded(last)
  <2>1. yy_current_state = End => yy_c_buf_p >= 1
    BY <1>1 DEF Rescanning
  <2> QED
    BY <1>1, <1>2, <2>1, RememberBounds DEF Common
<1>4. text' = text /\ yy_last' = last
  BY DEF NulRead, FindAction
<1>5. LastIsBounded(yy_last)'
  BY <1>3, <1>4, LastStays
<1>6. CASE next # Jam
  <2>1. /\ yy_c_buf_p' = yy_c_buf_p + 1 /\ yy_cp' = yy_c_buf_p + 1
        /\ yy_current_state' = next /\ stage' = "match"
        /\ UNCHANGED <<text, yy_ch_buf, yytext_ptr, yy_start, yy_more_len, yy_bp>>
    BY <1>6 DEF NulRead
  <2>2. next \in 1 .. Jam
    <3>1. class \in 0 .. 32
      OBVIOUS
    <3> HIDE DEF class
    <3> QED
      BY <1>2, <3>1, GoesOn
  <2> HIDE DEF next, last
  <2>3. Full' = Full /\ Len(text)' = Len(text) /\ IsBuffer(yy_ch_buf)'
    BY <1>1, <2>1 DEF Full, IsBuffer, Common
  <2>4. Matching1'
    BY <1>1, <1>2, <2>1, <2>2, <2>3 DEF Matching1, Rescanning
  <2>5. Common'
    BY <1>1, <1>5, <2>1, <2>3 DEF Common
  <2> QED
    BY <2>1, <2>4, <2>5 DEF Inv
<1>7. CASE next = Jam
  <2>1. FindAction(yy_ch_buf, yy_bp, last.cpos, last.state)
    BY <1>7 DEF NulRead
  <2> HIDE DEF last
  <2>2. FindAction(Full, yy_bp, last.cpos, last.state)
    BY <1>1, <2>1 DEF Rescanning
  <2>3. /\ last.cpos \in Nat /\ last.cpos <= Len(text) + 1 /\ last.state \in 0 .. Jam
        /\ last.cpos = Len(text) + 1 => last.state = End
        /\ last.state = End => last.cpos >= 1
        /\ yy_bp \in Nat /\ yy_bp <= Len(text)
    BY <1>1, <1>3 DEF LastIsBounded, Rescanning
  <2> QED
    BY <1>1, <1>5, <2>2, <2>3, FindActionActs
<1> QED
  BY <1>6, <1>7

LEMMA LastMatchKeeps == Inv /\ LastMatch => Inv'
<1> SUFFICES ASSUME Inv, LastMatch PROVE Inv'
  OBVIOUS
<1>1. Common /\ Rescanning /\ Len(text) \in Nat /\ stage = "last"
  BY FullBuffer DEF Inv, LastMatch, Common
<1>2. FindAction(Full, yy_bp, Len(text), yy_current_state)
  BY <1>1 DEF LastMatch, Rescanning
<1>3. /\ yy_bp \in Nat /\ yy_bp <= Len(text) /\ yy_current_state \in 0 .. Jam
      /\ yy_current_state = End => Len(text) >= 1
      /\ Len(text) # Len(text) + 1 /\ Len(text) <= Len(text) + 1
  BY <1>1 DEF Rescanning, Jam
<1>4. LastIsBounded(yy_last)'
  BY <1>1, LastStays DEF LastMatch, FindAction, Common
<1> QED
  BY <1>1, <1>2, <1>3, <1>4, FindActionActs

\* The conditions that begin: of one mode, or of two.
LEMMA ConditionsAreBounded == ASSUME NEW m PROVE Conditions(m) \subseteq 1 .. 27
  BY DEF Conditions

\* The end of the text: the run is empty, so where it began is one character before the
\* NUL that was read, and the character held is a NUL too.
LEMMA EndOfTextKeeps == Inv /\ EndOfText => Inv'
<1> SUFFICES ASSUME Inv, EndOfText PROVE Inv'
  OBVIOUS
<1>1. Common /\ Acting /\ Before = Full /\ Len(text) \in Nat /\ IsBuffer(Full)
  BY BeforeIsFull DEF EndOfText
<1>2. text' = text /\ yy_ch_buf' = Full /\ yy_hold_char' = yy_hold_char
      /\ yytext_ptr' = yytext_ptr /\ yy_more_len' = yy_more_len /\ yy_last' = yy_last
  BY <1>1 DEF EndOfText, run
<1>3. Full' = Full /\ Len(text)' = Len(text) /\ IsBuffer(yy_ch_buf)'
  BY <1>1, <1>2 DEF Full, IsBuffer
<1>4. yy_c_buf_p = Len(text) + 1 /\ yy_c_buf_p' = Len(text)
  BY <1>1 DEF EndOfText, IsNul, IsEmptyRun, Acting, Common
<1>5. yy_start' \in 1 .. 27
  BY <1>1, ConditionsAreBounded DEF EndOfText, Common
<1>6. LastIsBounded(yy_last)'
  BY <1>1, <1>2, LastStays DEF Common
<1>7. Common'
  BY <1>1, <1>2, <1>3, <1>5, <1>6 DEF Common
<1>8. yy_hold_char = "nul"
  <2>1. Put(yy_ch_buf, yy_c_buf_p, yy_hold_char) = Full /\ IsBuffer(yy_ch_buf)
    BY <1>1 DEF Acting, Common
  <2>2. Put(yy_ch_buf, yy_c_buf_p, yy_hold_char)[Len(text) + 2] = yy_hold_char
    BY <1>1, <1>4, <2>1 DEF Put, IsBuffer
  <2> QED
    BY <1>1, <2>1, <2>2, FullBuffer DEF Common
<1>9. Put(Full, Len(text), yy_hold_char) = Full
  <2>1. Full[Len(text) + 1] = yy_hold_char
    BY <1>1, <1>8, FullBuffer DEF Common
  <2>2. Len(text) <= Len(text) + 1
    BY <1>1
  <2> QED
    BY Zenon, <1>1, <2>1, <2>2, PutSame
<1>10. Calling'
  BY <1>1, <1>2, <1>3, <1>4, <1>9 DEF Calling
<1>11. stage' \in {"call", "done"}
  BY DEF EndOfText
<1> QED
  BY <1>7, <1>10, <1>11 DEF Inv

LEMMA RuleActionKeeps == Inv /\ RuleAction => Inv'
<1> SUFFICES ASSUME Inv, RuleAction PROVE Inv'
  OBVIOUS
<1> DEFINE r == Rules(At(Mode, YY_START), yy_bp + 1)[RuleIndex]
<1> HIDE DEF r
<1>1. Common /\ Acting /\ Before = Full /\ Len(text) \in Nat /\ IsBuffer(Full)
  BY BeforeIsFull DEF RuleAction
<1>2. /\ text' = text /\ yy_more_len' = yy_more_len /\ yy_last' = yy_last /\ stage' = "call"
      /\ yy_act # EndAct
  BY DEF RuleAction, run
<1>3. yy_start' \in 1 .. 27
  <2>1. yy_start' = yy_start \/ yy_start' \in Conditions(r.next)
    BY DEF RuleAction, r
  <2> QED
    BY <1>1, <2>1, ConditionsAreBounded DEF Common
<1>4. LastIsBounded(yy_last)'
  BY <1>1, <1>2, LastStays DEF Common
<1>5. Full' = Full /\ Len(text)' = Len(text)
  BY <1>2 DEF Full
<1>6. CASE r.do = "flush"
  <2>1. /\ yy_hold_char' = At(Full, yy_bp) /\ yy_ch_buf' = Put(Full, yy_bp, "nul")
        /\ yy_c_buf_p' = yy_bp /\ yytext_ptr' = yy_bp - yy_more_len
    BY <1>1, <1>6 DEF RuleAction, r
  <2>2. IsBuffer(yy_ch_buf)'
    BY <1>1, <1>2, <2>1, PutKeeps DEF IsBuffer
  <2>3. Put(Put(Full, yy_bp, "nul"), yy_bp, At(Full, yy_bp)) = Full
    BY <1>1, PutBack
  <2>4. Common'
    BY <1>1, <1>2, <1>3, <1>4, <2>1, <2>2 DEF Common, Acting
  <2>5. Calling'
    BY <1>1, <1>2, <1>5, <2>1, <2>3 DEF Calling, Acting
  <2> QED
    BY <1>2, <2>4, <2>5 DEF Inv
<1>7. CASE r.do # "flush"
  <2>1. UNCHANGED buffer
    BY <1>7 DEF RuleAction, r
  <2>2. Common'
    BY <1>1, <1>2, <1>3, <1>4, <2>1 DEF Common, buffer, IsBuffer
  <2>3. Calling'
    BY <1>1, <1>2, <1>5, <2>1 DEF Calling, Acting, buffer
  <2> QED
    BY <1>2, <2>2, <2>3 DEF Inv
<1> QED
  BY <1>6, <1>7

LEMMA StutterKeeps == Inv /\ UNCHANGED vars => Inv'
  BY DEF Inv, Common, Matching1, Rescanning, Acting, Calling, LastIsBounded, IsBuffer, Full, vars,
         buffer, run

----------------------------------------------------------------------------
(* The theorem.                                                             *)

LEMMA InvMeansRestored == Inv => BufferIsText
  BY DEF Inv, Matching1, Rescanning, Acting, Calling, BufferIsText, Full

\* Whatever the text, and however matches are kept, pushed back and gone over again: the
\* buffer is the text wherever characters are matched, and wherever an action reads
\* yytext it is the text but for the character held (Lexer.cpp's YY_DO_BEFORE_ACTION
\* and its undoing).
THEOREM BufferRestored == Spec => []BufferIsText
<1>1. Init => Inv
  BY InitHolds
<1>2. Inv /\ [Next]_vars => Inv'
  BY StartRunKeeps, MatchCharacterKeeps, BackUpKeeps, BeginAgainKeeps, AgainCharacterKeeps,
     NulReadKeeps, LastMatchKeeps, EndOfTextKeeps, RuleActionKeeps, StutterKeeps DEF Next
<1>3. Inv => BufferIsText
  BY InvMeansRestored
<1> QED
  BY <1>1, <1>2, <1>3, PTL DEF Spec

----------------------------------------------------------------------------
(* The pointers.  That none of them lies before the one it is to follow    *)
(* needs more than their bounds: the place a run backs up to is what       *)
(* yy_last remembers, and yy_last is not reset when a run begins.  It is   *)
(* of this run because the first character of every run leads to a state   *)
(* that accepts, which is remembered when it is left.                      *)

Starts == {1 + 2 * n : n \in 0 .. 13}

Pointers ==
  /\ yy_ch_buf \in Seq(Char) /\ Len(yy_ch_buf) = Len(text) + 2
  /\ yy_start \in Starts
  /\ yy_c_buf_p \in 0 .. Len(text) + 1
  /\ yytext_ptr \in 0 .. Len(text)
  /\ yy_bp \in 0 .. Len(text) /\ yy_more_len \in 0 .. yy_bp
  /\ yy_cp \in 0 .. Len(text) + 1
  /\ yy_act \in 0 .. EndAct
Begun ==
  /\ yy_bp <= yy_cp
  /\ yy_cp = yy_bp => yy_current_state = yy_start
  /\ yy_cp > yy_bp => yy_last.cpos > yy_bp \/ At(yy_accept, yy_current_state) # 0
Forward ==
  /\ Pointers
  /\ stage \in {"match", "nul", "last"} => Begun
  /\ stage \in {"nul", "last"} => yy_cp <= yy_c_buf_p
  /\ stage = "last" => yy_bp < yy_c_buf_p
  /\ stage = "act" => yy_bp < yy_c_buf_p /\ (yy_act = 0 => yy_last.cpos > yy_bp)
  /\ stage = "call" => yytext_ptr <= yy_c_buf_p

LEMMA PutKeepsText ==
  ASSUME NEW b \in Seq(Char), NEW p \in Nat, p < Len(b), NEW x \in Char
  PROVE  Put(b, p, x) \in Seq(Char) /\ Len(Put(b, p, x)) = Len(b)
<1>1. p + 1 \in 1 .. Len(b)
  OBVIOUS
<1> QED
  BY <1>1, ExceptSeq DEF Put

LEMMA FirstAccepts ==
  ASSUME NEW s \in Starts, NEW c \in 0 .. 32
  PROVE  Goes(s, c) # Jam /\ At(yy_accept, Goes(s, c)) # 0
  BY TablesAssumption DEF Starts

LEMMA StartsAreStates == ASSUME NEW s \in Starts PROVE s \in 1 .. Jam
  BY DEF Starts, Jam

LEMMA ConditionsBegin == ASSUME NEW m PROVE Conditions(m) \subseteq Starts
  BY DEF Conditions, Starts

\* Behind the first character, what a run backs up to is its own.
LEMMA LaterRemembered ==
  ASSUME Begun, yy_cp > yy_bp
  PROVE  Remember(yy_current_state, yy_cp, yy_last).cpos > yy_bp
  BY DEF Begun, Remember

LEMMA InitForward == Init => Forward
<1> SUFFICES ASSUME NEW t \in Texts, ScannerInit(t) PROVE Forward
  BY DEF Init
<1>1. text \in Seq(Char) /\ yy_ch_buf = Full
  BY TextsAssumption DEF ScannerInit, Full
<1>2. Full \in Seq(Char) /\ Len(Full) = Len(text) + 2 /\ Len(text) \in Nat
  BY <1>1, FullBuffer
<1>3. /\ yy_c_buf_p = 0 /\ yytext_ptr = 0 /\ yy_start = 1 /\ yy_more_len = 0 /\ yy_cp = 0
      /\ yy_bp = 0 /\ yy_act = 0 /\ stage = "call"
  BY DEF ScannerInit
<1>4. yy_start \in Starts
  BY <1>3 DEF Starts
<1>5. Pointers
  BY <1>1, <1>2, <1>3, <1>4 DEF Pointers, EndAct
<1> QED
  BY <1>3, <1>5 DEF Forward

LEMMA FindActionForward ==
  ASSUME Inv, Forward, NEW p \in Nat, yy_bp < p, p <= Len(text) + 1,
         NEW s \in 0 .. Jam, At(yy_accept, s) = 0 => yy_last'.cpos > yy_bp,
         FindAction(Full, yy_bp, p, s)
  PROVE  Forward'
<1>1. /\ Full \in Seq(Char) /\ Len(Full) = Len(text) + 2 /\ Len(text) \in Nat
  BY FullBuffer DEF Inv, Common
<1>2. "nul" \in Char
  BY DEF Char
<1>3. yy_ch_buf' \in Seq(Char) /\ Len(yy_ch_buf') = Len(text) + 2
  <2>1. yy_ch_buf' = Put(Full, p, "nul")
    BY DEF FindAction
  <2>2. p < Len(Full)
    <3>1. Len(Full) = Len(text) + 2 /\ Len(text) \in Nat
      BY <1>1
    <3> HIDE DEF Full
    <3> QED
      BY <3>1
  <2> QED
    BY <1>1, <1>2, <2>1, <2>2, PutKeepsText
<1>4. At(yy_accept, s) \in 0 .. EndAct
  BY TablesAssumption
<1>5. /\ yy_act' = At(yy_accept, s) /\ yytext_ptr' = yy_bp - yy_more_len /\ yy_c_buf_p' = p
      /\ yy_cp' = p /\ yy_bp' = yy_bp /\ stage' = "act"
      /\ UNCHANGED <<text, yy_start, yy_more_len>>
  BY DEF FindAction
<1>6. Pointers'
  BY <1>1, <1>3, <1>4, <1>5 DEF Forward, Pointers
<1> QED
  BY <1>5, <1>6 DEF Forward

LEMMA StartRunForward == Inv /\ Forward /\ StartRun => Forward'
<1> SUFFICES ASSUME Inv, Forward, StartRun PROVE Forward'
  OBVIOUS
<1>1. Common /\ Calling /\ Pointers /\ yytext_ptr <= yy_c_buf_p
  BY DEF Inv, Forward, StartRun
<1>2. /\ Full \in Seq(Char) /\ Len(Full) = Len(text) + 2 /\ Len(text) \in Nat
  BY <1>1, FullBuffer DEF Common
<1>3. yy_ch_buf' = Full
  BY <1>1 DEF StartRun, Restored, Calling
<1>4. yy_more_len' \in 0 .. yy_c_buf_p
  BY <1>1, <1>2 DEF StartRun, KeptLength, Pointers
<1>5. /\ yy_cp' = yy_c_buf_p /\ yy_bp' = yy_c_buf_p /\ yy_current_state' = yy_start
      /\ stage' = "match"
      /\ UNCHANGED <<text, yy_c_buf_p, yytext_ptr, yy_start, yy_act>>
  BY DEF StartRun
<1>6. Pointers'
  BY <1>1, <1>2, <1>3, <1>4, <1>5 DEF Pointers, Calling
<1>7. Begun'
  BY <1>1, <1>5 DEF Begun, Pointers
<1> QED
  BY <1>5, <1>6, <1>7 DEF Forward

LEMMA MatchCharacterForward == Inv /\ Forward /\ MatchCharacter => Forward'
<1> SUFFICES ASSUME Inv, Forward, MatchCharacter PROVE Forward'
  OBVIOUS
<1> DEFINE class == yy_ec[At(yy_ch_buf, yy_cp)]
           next == Goes(yy_current_state, class)
           last == Remember(yy_current_state, yy_cp, yy_last)
<1>1. Common /\ Matching1 /\ Pointers /\ Begun /\ Len(text) \in Nat
  BY FullBuffer DEF Inv, Forward, MatchCharacter, Common
<1>2. class \in 0 .. 32
  BY <1>1, ClassOfText DEF Common, Matching1
<1>3. yy_cp = yy_bp => next # Jam /\ At(yy_accept, next) # 0
  BY <1>1, <1>2, FirstAccepts DEF Begun, Pointers
<1>4. yy_cp > yy_bp => last.cpos > yy_bp
  BY <1>1, LaterRemembered
<1>5. yy_cp >= yy_bp /\ yy_cp \in Nat /\ yy_bp \in Nat
  BY <1>1 DEF Begun, Matching1
<1>6. yy_last' = last
  BY DEF MatchCharacter
<1>7. CASE next # Jam
  <2>1. /\ yy_current_state' = next /\ yy_cp' = yy_cp + 1 /\ stage' = "match"
        /\ UNCHANGED <<text, buffer, yy_start, yy_more_len, yy_bp, yy_act>>
    BY <1>7 DEF MatchCharacter
  <2>2. (yy_cp <= Len(text) + 1)'
    BY MatchCharacterKeeps, <2>1 DEF Inv, Matching1
  <2> HIDE DEF next, last
  <2>3. Pointers'
    BY <1>1, <1>5, <2>1, <2>2 DEF Pointers, buffer
  <2>4. Begun'
    BY <1>3, <1>4, <1>5, <1>6, <2>1 DEF Begun
  <2> QED
    BY <2>1, <2>3, <2>4 DEF Forward
<1>8. CASE next = Jam
  <2>1. FindAction(Full, yy_bp, last.cpos, last.state)
    BY <1>1, <1>8 DEF MatchCharacter, Matching1
  <2>2. last.cpos > yy_bp
    BY <1>3, <1>4, <1>5, <1>8
  <2>3. LastIsBounded(last)
    BY <1>1, RememberBounds DEF Common, Matching1
  <2> HIDE DEF last
  <2> QED
    BY <1>6, <2>1, <2>2, <2>3, FindActionForward DEF LastIsBounded
<1> QED
  BY <1>7, <1>8

LEMMA BackUpForward == Inv /\ Forward /\ BackUp => Forward'
<1> SUFFICES ASSUME Inv, Forward, BackUp PROVE Forward'
  OBVIOUS
<1>1. Common /\ Before = Full
  BY BeforeIsFull DEF BackUp
<1>2. FindAction(Full, yy_bp, yy_last.cpos, yy_last.state) /\ yy_last' = yy_last
  BY <1>1 DEF BackUp
<1>3. yy_last.cpos > yy_bp
  BY DEF Forward, BackUp
<1> QED
  BY <1>1, <1>2, <1>3, FindActionForward DEF Common, LastIsBounded

LEMMA BeginAgainForward == Inv /\ Forward /\ BeginAgain => Forward'
<1> SUFFICES ASSUME Inv, Forward, BeginAgain PROVE Forward'
  OBVIOUS
<1>1. /\ Common /\ Acting /\ Before = Full /\ Len(text) \in Nat /\ Pointers
      /\ yy_bp < yy_c_buf_p
  BY BeforeIsFull DEF BeginAgain, Forward
<1>2. /\ Full \in Seq(Char) /\ Len(Full) = Len(text) + 2
  BY <1>1, FullBuffer DEF Common
<1>3. /\ yy_bp' = yy_bp /\ yy_cp' = yy_bp /\ yy_current_state' = yy_start
      /\ stage' \in {"nul", "last"} /\ yy_ch_buf' = Full
      /\ UNCHANGED <<text, yytext_ptr, yy_start, yy_more_len, yy_act>>
  BY <1>1 DEF BeginAgain, Acting
<1>4. yy_c_buf_p' \in 0 .. Len(text) /\ yy_bp <= yy_c_buf_p'
  BY <1>1 DEF BeginAgain, IsNul, Acting
<1>5. stage' = "last" => yy_bp < yy_c_buf_p'
  BY <1>1 DEF BeginAgain, IsNul, IsEmptyRun, Acting, Pointers
<1>6. Pointers'
  BY <1>1, <1>2, <1>3, <1>4 DEF Pointers
<1>7. Begun'
  BY <1>1, <1>3 DEF Begun, Pointers
<1> QED
  BY <1>1, <1>3, <1>4, <1>5, <1>6, <1>7 DEF Forward

LEMMA AgainCharacterForward == Inv /\ Forward /\ AgainCharacter => Forward'
<1> SUFFICES ASSUME Inv, Forward, AgainCharacter PROVE Forward'
  OBVIOUS
<1> DEFINE class == IF At(yy_ch_buf, yy_cp) = "nul" THEN 1 ELSE yy_ec[At(yy_ch_buf, yy_cp)]
           next == Goes(yy_current_state, class)
           last == Remember(yy_current_state, yy_cp, yy_last)
<1>1. Common /\ Rescanning /\ Pointers /\ Begun /\ Len(text) \in Nat
  BY FullBuffer DEF Inv, Forward, AgainCharacter, Common
<1>2. /\ yy_cp < yy_c_buf_p /\ yy_cp' = yy_cp + 1 /\ stage \in {"nul", "last"}
      /\ yy_last' = last /\ yy_current_state' = next
      /\ UNCHANGED <<text, buffer, yy_start, yy_more_len, yy_bp, yy_act, stage>>
  BY DEF AgainCharacter
<1>3. class \in 0 .. 32
  <2>1. yy_ec[At(yy_ch_buf, yy_cp)] \in 0 .. 32
    BY <1>1, <1>2, ClassOfText DEF Common, Rescanning
  <2> QED
    BY <2>1
<1> HIDE DEF class
<1>4. yy_cp = yy_bp => At(yy_accept, next) # 0
  BY <1>1, <1>3, FirstAccepts DEF Begun, Pointers
<1>5. yy_cp > yy_bp => last.cpos > yy_bp
  BY <1>1, LaterRemembered
<1>6. /\ yy_cp >= yy_bp /\ yy_cp \in Nat /\ yy_bp \in Nat
      /\ yy_c_buf_p \in Nat /\ yy_c_buf_p <= Len(text)
  BY <1>1 DEF Begun, Rescanning
<1> HIDE DEF next, last
<1>7. Pointers'
  BY <1>1, <1>2, <1>6 DEF Pointers, buffer
<1>8. Begun'
  BY <1>2, <1>4, <1>5, <1>6 DEF Begun
<1> QED
  BY <1>2, <1>6, <1>7, <1>8 DEF Forward, buffer

LEMMA NulReadForward == Inv /\ Forward /\ NulRead => Forward'
<1> SUFFICES ASSUME Inv, Forward, NulRead PROVE Forward'
  OBVIOUS
<1> DEFINE class == 1
           next == Goes(yy_current_state, class)
           last == Remember(yy_current_state, yy_c_buf_p, yy_last)
<1>1. Common /\ Rescanning /\ Pointers /\ Begun /\ Len(text) \in Nat /\ stage = "nul"
  BY FullBuffer DEF Inv, Forward, NulRead, Common
<1>2. /\ yy_c_buf_p \in Nat /\ yy_c_buf_p < Len(text) /\ yy_current_state \in 1 .. Jam
      /\ yy_cp = yy_c_buf_p /\ yy_bp \in Nat /\ yy_cp >= yy_bp
  BY <1>1 DEF Rescanning, Forward, NulRead, Begun
<1>3. class \in 0 .. 32
  OBVIOUS
<1> HIDE DEF class
<1>4. yy_cp = yy_bp => next # Jam /\ At(yy_accept, next) # 0
  BY <1>1, <1>3, FirstAccepts DEF Begun, Pointers
<1>5. yy_cp > yy_bp => last.cpos > yy_bp
  BY <1>1, <1>2, LaterRemembered
<1>6. yy_last' = last
  BY DEF NulRead
<1>7. CASE next # Jam
  <2>1. /\ yy_c_buf_p' = yy_c_buf_p + 1 /\ yy_cp' = yy_c_buf_p + 1
        /\ yy_current_state' = next /\ stage' = "match"
        /\ UNCHANGED <<text, yy_ch_buf, yytext_ptr, yy_start, yy_more_len, yy_bp, yy_act>>
    BY <1>7 DEF NulRead, class
  <2> HIDE DEF next, last
  <2>2. Pointers'
    BY <1>1, <1>2, <2>1 DEF Pointers
  <2>3. Begun'
    BY <1>2, <1>4, <1>5, <1>6, <2>1 DEF Begun
  <2> QED
    BY <2>1, <2>2, <2>3 DEF Forward
<1>8. CASE next = Jam
  <2>1. FindAction(Full, yy_bp, last.cpos, last.state)
    BY <1>1, <1>8 DEF NulRead, Rescanning, class
  <2>2. last.cpos > yy_bp
    BY <1>2, <1>4, <1>5, <1>8
  <2>3. LastIsBounded(last)
    <3>1. yy_current_state = End => yy_c_buf_p >= 1
      BY <1>1 DEF Rescanning
    <3> QED
      BY <1>1, <1>2, <3>1, RememberBounds DEF Common
  <2> HIDE DEF last
  <2> QED
    BY <1>6, <2>1, <2>2, <2>3, FindActionForward DEF LastIsBounded
<1> QED
  BY <1>7, <1>8

LEMMA LastMatchForward == Inv /\ Forward /\ LastMatch => Forward'
<1> SUFFICES ASSUME Inv, Forward, LastMatch PROVE Forward'
  OBVIOUS
<1>1. Common /\ Rescanning /\ Pointers /\ Begun /\ Len(text) \in Nat /\ stage = "last"
  BY FullBuffer DEF Inv, Forward, LastMatch, Common
<1>2. yy_cp = yy_c_buf_p /\ yy_bp < yy_c_buf_p /\ yy_c_buf_p = Len(text)
  BY <1>1 DEF Forward, LastMatch, Rescanning
<1>3. FindAction(Full, yy_bp, Len(text), yy_current_state) /\ yy_last' = yy_last
  BY <1>1 DEF LastMatch, Rescanning
<1>4. At(yy_accept, yy_current_state) = 0 => yy_last.cpos > yy_bp
  BY <1>1, <1>2 DEF Begun
<1>5. yy_current_state \in 0 .. Jam
  BY <1>1 DEF Rescanning, Jam
<1> QED
  BY <1>1, <1>2, <1>3, <1>4, <1>5, FindActionForward

LEMMA EndOfTextForward == Inv /\ Forward /\ EndOfText => Forward'
<1> SUFFICES ASSUME Inv, Forward, EndOfText PROVE Forward'
  OBVIOUS
<1>1. Common /\ Acting /\ Before = Full /\ Len(text) \in Nat /\ Pointers
  BY BeforeIsFull DEF EndOfText, Forward
<1>2. /\ Full \in Seq(Char) /\ Len(Full) = Len(text) + 2
  BY <1>1, FullBuffer DEF Common
<1>3. /\ yy_ch_buf' = Full /\ yy_c_buf_p' = yy_bp /\ stage' \in {"call", "done"}
      /\ UNCHANGED <<text, yytext_ptr, yy_more_len, yy_bp, yy_cp, yy_act>>
  BY <1>1 DEF EndOfText, run, Acting
<1>4. yy_start' \in Starts
  BY <1>1, ConditionsBegin DEF EndOfText, Pointers
<1>5. Pointers'
  BY <1>1, <1>2, <1>3, <1>4 DEF Pointers
<1>6. yytext_ptr <= yy_bp
  BY <1>1 DEF Acting, Pointers
<1> QED
  BY <1>3, <1>5, <1>6 DEF Forward

LEMMA RuleActionForward == Inv /\ Forward /\ RuleAction => Forward'
<1> SUFFICES ASSUME Inv, Forward, RuleAction PROVE Forward'
  OBVIOUS
<1> DEFINE r == Rules(At(Mode, YY_START), yy_bp + 1)[RuleIndex]
<1> HIDE DEF r
<1>1. /\ Common /\ Acting /\ Before = Full /\ Len(text) \in Nat /\ Pointers
      /\ yy_bp < yy_c_buf_p
  BY BeforeIsFull DEF RuleAction, Forward
<1>2. /\ Full \in Seq(Char) /\ Len(Full) = Len(text) + 2
  BY <1>1, FullBuffer DEF Common
<1>3. stage' = "call" /\ UNCHANGED <<text, yy_more_len, yy_bp, yy_cp, yy_act>>
  BY DEF RuleAction, run
<1>4. yy_start' \in Starts
  <2>1. yy_start' = yy_start \/ yy_start' \in Conditions(r.next)
    BY DEF RuleAction, r
  <2> QED
    BY <1>1, <2>1, ConditionsBegin DEF Pointers
<1>5. yytext_ptr + yy_more_len = yy_bp /\ yytext_ptr <= yy_bp
  BY <1>1 DEF Acting, Pointers
<1>6. CASE r.do = "flush"
  <2>1. /\ yy_ch_buf' = Put(Full, yy_bp, "nul")
        /\ yy_c_buf_p' = yy_bp /\ yytext_ptr' = yytext_ptr
    BY <1>1, <1>5, <1>6 DEF RuleAction, r, Pointers
  <2>2. "nul" \in Char /\ yy_bp \in Nat /\ yy_bp < Len(Full)
    <3>1. "nul" \in Char
      BY DEF Char
    <3>2. yy_bp \in 0 .. Len(text)
      BY <1>1 DEF Pointers
    <3>3. Len(Full) = Len(text) + 2 /\ Len(text) \in Nat
      BY <1>1, <1>2
    <3> HIDE DEF Full
    <3> QED
      BY <3>1, <3>2, <3>3
  <2>3. yy_ch_buf' \in Seq(Char) /\ Len(yy_ch_buf') = Len(text) + 2
    BY <1>2, <2>1, <2>2, PutKeepsText
  <2>4. Pointers'
    BY <1>1, <1>3, <1>4, <2>1, <2>3 DEF Pointers
  <2> QED
    BY <1>3, <1>5, <2>1, <2>4 DEF Forward
<1>7. CASE r.do # "flush"
  <2>1. UNCHANGED <<yy_ch_buf, yy_c_buf_p, yytext_ptr>>
    BY <1>7 DEF RuleAction, r, buffer
  <2>2. Pointers'
    BY <1>1, <1>3, <1>4, <2>1 DEF Pointers
  <2> QED
    BY <1>1, <1>3, <1>5, <2>1, <2>2 DEF Forward, Pointers
<1> QED
  BY <1>6, <1>7

LEMMA StutterForward == Forward /\ UNCHANGED vars => Forward'
  BY DEF Forward, Pointers, Begun, vars, buffer, run

LEMMA InvMeansTypes == Inv /\ Forward => TypeOK
<1> SUFFICES ASSUME Inv, Forward PROVE TypeOK
  OBVIOUS
<1>1. Common /\ Pointers
  BY DEF Inv, Forward
<1>2. yy_last.cpos \in 0 .. Len(text) + 1
  BY <1>1, FullBuffer DEF Common, LastIsBounded
<1>3. stage \in {"match", "act", "nul", "last"} => yy_bp <= yy_cp
  BY <1>1 DEF Inv, Forward, Begun, Acting, Pointers
<1> QED
  BY <1>1, <1>2, <1>3 DEF TypeOK, Pointers, Starts

\* Whatever the text, no pointer of the scanner leaves the buffer and its two NULs, and
\* each lies behind the one it is to lie behind: the run's place behind its start, also
\* where it backed up to what an earlier character had matched, and the kept length
\* within what was read (Lexer.cpp's yy_match, yy_find_action, yymore and yyless).
THEOREM PointersStay == Spec => []TypeOK
<1>1. Init => Inv /\ Forward
  BY InitHolds, InitForward
<1>2. Inv /\ Forward /\ [Next]_vars => Inv' /\ Forward'
  <2>1. Inv /\ [Next]_vars => Inv'
    BY StartRunKeeps, MatchCharacterKeeps, BackUpKeeps, BeginAgainKeeps, AgainCharacterKeeps,
       NulReadKeeps, LastMatchKeeps, EndOfTextKeeps, RuleActionKeeps, StutterKeeps DEF Next
  <2>2. Inv /\ Forward /\ [Next]_vars => Forward'
    BY StartRunForward, MatchCharacterForward, BackUpForward, BeginAgainForward,
       AgainCharacterForward, NulReadForward, LastMatchForward, EndOfTextForward,
       RuleActionForward, StutterForward DEF Next
  <2> QED
    BY <2>1, <2>2
<1>3. Inv /\ Forward => TypeOK
  BY InvMeansTypes
<1> QED
  BY <1>1, <1>2, <1>3, PTL DEF Spec
====
