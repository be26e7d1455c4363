---- MODULE Braces ----
(***************************************************************************)
(* Reading a value: param<string>, expand_all, parse_brace_node_at and the *)
(* built-in evaluator of `${...}`, which reads other values in turn.       *)
(*                                                                         *)
(* A text is a sequence of tokens: "${", "}", " " (any white space) and    *)
(* words, the pieces of other characters.  The calls of expand_all and     *)
(* evaluate that have not returned yet are the frames of a stack.          *)
(***************************************************************************)
EXTENDS Positions, SequencesExt

CONSTANTS Word,     \* pieces of text, "env", "raw" and "replace" among them
          Name,     \* paths at which a tree may have a Field
          Value,    \* what a Field may hold, its quotes stripped
          Env,      \* the environment of the process
          MaxCalls  \* calls that fit on the stack of the thread

Token == Word \cup {"${", "}", " "}

ASSUME WordAssumption == Word \cap {"${", "}", " "} = {}
ASSUME NameAssumption == Name \subseteq Seq(Word) \ {<<>>}
ASSUME ValueAssumption == Value \subseteq Seq(Token)
ASSUME EnvAssumption == DOMAIN Env \subseteq Seq(Word) \ {<<>>} /\ \A e \in DOMAIN Env : Env[e] \in Seq(Token)
ASSUME CallsAssumption == MaxCalls \in Nat \ {0}

VARIABLES
  field,   \* the Fields of the tree by path; the rest is absent or a Section
  phase,   \* "idle", "reading", "returned", "thrown" or "died"
  asked,   \* history: the Field the caller reads
  stack,   \* calls, outermost first
  answer   \* what the caller got

vars == <<field, phase, asked, stack, answer>>

Init ==
  /\ field \in UNION {[D -> Value] : D \in SUBSET Name}
  /\ phase = "idle"
  /\ asked = <<>>
  /\ stack = <<>>
  /\ answer = <<>>

----------------------------------------------------------------------------
(* Nesting.  The operators called Slip... are plausible mistakes in the     *)
(* operator that follows them; nothing else uses one.                       *)

Opens(t) == {i \in DOMAIN t : t[i] = "${"}

\* How many braces are open behind token i.  Levels are compared with each other,
\* so a "}" nobody opened does not matter behind it.
Count(t, i, x) == Cardinality({k \in 1 .. i : t[k] = x})
Level(t, i) == Count(t, i, "${") - Count(t, i, "}")

Shuts(t, i) == {j \in i .. Len(t) : Level(t, j) < Level(t, i)}

\* The "}" that answers the "${" at i.
SlipClosing(t, i) == CHOOSE j \in Shuts(t, i) : \A k \in Shuts(t, i) : k <= j
Closing(t, i) == CHOOSE j \in Shuts(t, i) : \A k \in Shuts(t, i) : j <= k

\* What stands in braces falls into pieces: nested braces, and runs of other
\* characters, which end at white space or at a brace.
SlipStarts(t, i) == \/ t[i] = "${" /\ Level(t, i) = 1
                    \/ /\ t[i] \in Word /\ Level(t, i) = 0
                       /\ i = 1 \/ t[i - 1] = " "
Starts(t, i) == \/ t[i] = "${" /\ Level(t, i) = 1
                \/ /\ t[i] \in Word /\ Level(t, i) = 0
                   /\ i = 1 \/ t[i - 1] \notin Word
Ends(t, i) ==
  IF t[i] = "${" THEN Closing(t, i)
  ELSE CHOOSE j \in i .. Len(t) : /\ \A k \in i .. j : t[k] \in Word
                                  /\ j = Len(t) \/ t[j + 1] \notin Word
Pieces[t \in Seq(Token)] ==
  Chosen([i \in DOMAIN t |-> SubSeq(t, i, Ends(t, i))], {i \in DOMAIN t : Starts(t, i)})

IsBrace(piece) == piece[1] = "${"
IsPlain(piece) == ~ IsBrace(piece)
BracesOf(pieces) == Chosen(pieces, {k \in DOMAIN pieces : IsBrace(pieces[k])})
PlainOf(pieces) == Chosen(pieces, {k \in DOMAIN pieces : IsPlain(pieces[k])})

----------------------------------------------------------------------------
(* Frames.  acc is the text put together so far.                            *)

\* expand_all on a text.
Expanding(t) == [kind |-> "expand", acc |-> <<>>, text |-> t, nested |-> <<>>]

\* evaluate on a node: `nested` are the sub-nodes it will evaluate, in order.
Evaluating(kind, acc, nested) ==
  [kind |-> kind, acc |-> acc, text |-> <<>>, nested |-> nested]

\* The name env and replace act on is the first argument, if there is one.
Given(args) == IF args = <<>> THEN <<>> ELSE args[1]
Foremost(subs) == IF subs = <<>> THEN <<>> ELSE <<subs[1]>>
SlipNeeded(args, subs) == Foremost(subs)
Needed(args, subs) == IF args = <<>> THEN Foremost(subs) ELSE <<>>

\* The frame for one `${...}`: the first plain piece is the command.
Evaluation[brace \in Seq(Token)] ==
  LET pieces == Pieces[SubSeq(brace, 2, Len(brace) - 1)]
      named == pieces # <<>> /\ IsPlain(pieces[1])
      command == IF named THEN pieces[1] ELSE <<>>
      rest == IF named THEN Tail(pieces) ELSE pieces
      args == PlainOf(rest)
      subs == BracesOf(rest)
  IN  CASE command = <<"raw">> -> Evaluating("raw", FlattenSeq(args), subs)
        [] command = <<"env">> -> Evaluating("env", Given(args), Needed(args, subs))
        [] command = <<"replace">> -> Evaluating("lookup", Given(args), Needed(args, subs))
        [] OTHER -> Evaluating("lookup",
                               IF args = <<>> THEN command ELSE command \o <<" ">> \o args[1],
                               <<>>)

Top == stack[Len(stack)]

\* A call from the topmost one, which goes on as `caller` afterwards.  Nothing
\* bounds the recursion: when the stack of the thread is full the process dies.
Full == Len(stack) >= MaxCalls
Call(caller, frame) ==
  /\ IF Full
       THEN phase' = "died" /\ stack' = <<>>
       ELSE phase' = phase /\ stack' = Append([stack EXCEPT ![Len(stack)] = caller], frame)
  /\ UNCHANGED <<field, asked, answer>>

\* The topmost call returns a text to the one below, or to the client.
Return(t) ==
  /\ IF Len(stack) = 1
       THEN phase' = "returned" /\ stack' = <<>> /\ answer' = t
       ELSE /\ stack' = [SubSeq(stack, 1, Len(stack) - 1)
                           EXCEPT ![Len(stack) - 1].acc = @ \o t]
            /\ UNCHANGED <<phase, answer>>
  /\ UNCHANGED <<field, asked>>

Throw ==
  /\ phase' = "thrown"
  /\ stack' = <<>>
  /\ UNCHANGED <<field, asked, answer>>

----------------------------------------------------------------------------
(* Steps.                                                                   *)

\* The client reads a Field as a string.
Read(f) ==
  /\ phase = "idle"
  /\ f \in DOMAIN field
  /\ phase' = "reading"
  /\ asked' = f
  /\ stack' = <<Expanding(field[f])>>
  /\ UNCHANGED <<field, answer>>

\* The text behind a brace is not looked at again together with what replaced it.
SlipBehind(t, j) == t
Behind(t, j) == SubSeq(t, j + 1, Len(t))

\* The next `${...}` of a text.
ExpandBrace ==
  /\ phase = "reading"
  /\ Top.kind = "expand" /\ Opens(Top.text) # {}
  /\ \E t \in {Top.text} : \E i \in Opens(t) :
       /\ \A k \in Opens(t) : i <= k
       /\ \/ Shuts(t, i) = {} /\ Throw
          \/ \E j \in Shuts(t, i) :
               /\ j = Closing(t, i)
               /\ Call([Top EXCEPT !.acc = @ \o SubSeq(t, 1, i - 1), !.text = Behind(t, j)],
                       Evaluation[SubSeq(t, i, j)])

\* No `${` is left in it.
ExpandRest ==
  /\ phase = "reading"
  /\ Top.kind = "expand" /\ Opens(Top.text) = {}
  /\ Return(Top.acc \o Top.text)

EvaluateNested ==
  /\ phase = "reading"
  /\ Top.nested # <<>>
  /\ Call([Top EXCEPT !.nested = Tail(@)], Evaluation[Head(Top.nested)])

EvaluateRaw ==
  /\ phase = "reading"
  /\ Top.kind = "raw" /\ Top.nested = <<>>
  /\ Return(Top.acc)

EvaluateEnv ==
  /\ phase = "reading"
  /\ Top.kind = "env" /\ Top.nested = <<>>
  /\ IF Top.acc = <<>> THEN Throw
     ELSE Return(IF Top.acc \in DOMAIN Env THEN Env[Top.acc] ELSE <<>>)

\* find from the root, then param<string> of the node found.
LookUp ==
  /\ phase = "reading"
  /\ Top.kind = "lookup" /\ Top.nested = <<>>
  /\ IF Top.acc \in DOMAIN field
       THEN Call([Top EXCEPT !.kind = "found", !.acc = <<>>], Expanding(field[Top.acc]))
       ELSE Throw

LookedUp ==
  /\ phase = "reading"
  /\ Top.kind = "found"
  /\ Return(Top.acc)

Evaluate == \/ ExpandBrace \/ ExpandRest \/ EvaluateNested \/ EvaluateRaw
            \/ EvaluateEnv \/ LookUp \/ LookedUp

Next == (\E f \in Name : Read(f)) \/ Evaluate

Spec == Init /\ [][Next]_vars

----------------------------------------------------------------------------
(* Properties.  What the answer has to be is in BracesMeaning.              *)

\* What a call has still to do.
Work(frame) == Len(frame.text) + Len(frame.nested)
                 + IF frame.kind = "lookup" THEN 1 ELSE 0

\* A reading ends, with an answer, an exception or the death of the process: each
\* step finishes the topmost call, or calls deeper and leaves less to do behind.
\* Within a bounded stack that cannot go on for ever, since the work left, from
\* the outermost call inwards, decreases lexicographically.
ReadingProgresses ==
  [][phase = "reading" /\ phase' = "reading" =>
       LET n == Len(stack)
           Unchanged(m) == \A i \in 1 .. m : Work(stack'[i]) = Work(stack[i])
       IN  \/ Len(stack') = n - 1 /\ Unchanged(n - 1)
           \/ Len(stack') = n + 1 /\ Unchanged(n - 1) /\ Work(stack'[n]) < Work(Top)]_vars
====
