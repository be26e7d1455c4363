---- MODULE Includes ----
(***************************************************************************)
(* parse_file and parse_text with resolve_includes: a document is parsed,  *)
(* and every `!include` in it is replaced by the resolved document of the  *)
(* file it names.                                                          *)
(*                                                                         *)
(* A document is the sequence of its items as they are written, a section  *)
(* between an "open" and a "close" token; splicing a list of children is   *)
(* splicing their tokens.  The call stack of resolve_includes is the stack *)
(* of the documents being resolved: within one, the walk over its sections *)
(* is fixed by the tokens (NextInclude).                                   *)
(***************************************************************************)
EXTENDS Positions

CONSTANTS Segment,  \* names of files and directories
          File,     \* the paths a text may name
          Text,     \* what a file may hold
          Pre,      \* snippets a caller puts before a document ...
          Post,     \* ... and behind it
          MaxOpen   \* files the process can hold open at once

ASSUME OpenAssumption == MaxOpen \in Nat
ASSUME FileAssumption == File \subseteq Seq(Segment) \ {<<>>}

\* A document, or the list of items of one.
Item == [kind : {"open", "close", "field", "include"}, name : Segment,
         op : {"=", ":="}, value : Nat, absolute : BOOLEAN,
         path : Seq(Segment), from : Seq(Segment)]
Document == Seq(Item)

ASSUME TextAssumption == Text \cup Pre \cup Post \subseteq Document

VARIABLES
  disk,    \* the files that exist, with their content
  phase,   \* "start", "resolving", "returned" or "thrown"
  stack,   \* documents being resolved, outermost first, with their base_dir
  asked,   \* history: the text of the outermost one, and its own open files
  streams  \* files open: each resolve_includes keeps its ifstream while it recurses

vars == <<disk, phase, stack, asked, streams>>

Is(t, k) == t.kind = k
Dir(f) == SubSeq(f, 1, Len(f) - 1)

\* base_dir / inc_path, and inc_path alone when it is absolute.
Resolved(base, t) == IF t.absolute THEN t.path ELSE base \o t.path

Init ==
  /\ disk \in UNION {[E -> Text] : E \in SUBSET File}
  /\ phase = "start"
  /\ stack = <<>>
  /\ asked = [base |-> <<>>, text |-> <<>>, own |-> 0]
  /\ streams = 0

----------------------------------------------------------------------------
(* One document: parse_raw.                                                 *)

Depth(d, i) == Cardinality({j \in 1 .. i : Is(d[j], "open")})
                 - Cardinality({j \in 1 .. i : Is(d[j], "close")})

\* Where the list that token i is an item of ends: the `[]` of its section.
Closing(d, i) ==
  LET Ends == {j \in i .. Len(d) : Depth(d, j) < Depth(d, i)} \cup {Len(d) + 1}
  IN  CHOOSE e \in Ends : \A j \in Ends : e <= j

\* Two Fields of one list with one name.
Repeats(d, i, j) == /\ Is(d[i], "field") /\ Is(d[j], "field")
                    /\ d[i].name = d[j].name
                    /\ i < j /\ Closing(d, i) = Closing(d, j)

\* What ParseDriver accepts, and what it leaves: a repeat needs ':=' and takes
\* the place of the Field before it.
Accepted(d) == \A i, j \in DOMAIN d : Repeats(d, i, j) => d[j].op = ":="
Left(d) == {i \in DOMAIN d : \A j \in DOMAIN d : ~ Repeats(d, i, j)}
Settled[d \in Document] == Chosen(d, Left(d))

\* Every node made from a text carries the name of the file.
From(f, d) == [i \in DOMAIN d |-> [d[i] EXCEPT !.from = f]]

\* The call of resolve_includes for one document, or the throw of parse_raw.
Enter(base, d) ==
  IF Accepted(d)
    THEN /\ phase' = "resolving"
         /\ stack' = Append(stack, [base |-> base, doc |-> Settled[d]])
    ELSE /\ phase' = "thrown"
         /\ stack' = <<>>

----------------------------------------------------------------------------
(* The entry points.  The operators called Slip... are plausible mistakes   *)
(* in the operator that follows them; nothing else uses one.                *)

\* std::ifstream opens: the file exists and a descriptor is left for it.
SlipOpens(f) == f \in DOMAIN disk /\ streams <= MaxOpen
Opens(f) == f \in DOMAIN disk /\ streams < MaxOpen

ParseFile(f, pre, post) ==
  /\ phase = "start"
  /\ IF Opens(f)
       THEN /\ Enter(Dir(f), From(f, pre \o disk[f] \o post))
            /\ streams' = IF phase' = "thrown" THEN 0 ELSE 1
            /\ asked' = [base |-> Dir(f), own |-> 1,
                         text |-> From(f, pre \o disk[f] \o post)]
       ELSE /\ phase' = "thrown"
            /\ UNCHANGED <<stack, asked, streams>>
  /\ UNCHANGED disk

\* Relative paths of a text are resolved against the current directory, <<>>.
ParseText(d, pre, post) ==
  /\ phase = "start"
  /\ Enter(<<>>, From(<<>>, pre \o d \o post))
  /\ asked' = [base |-> <<>>, own |-> 0, text |-> From(<<>>, pre \o d \o post)]
  /\ UNCHANGED <<disk, streams>>

----------------------------------------------------------------------------
(* resolve_includes.                                                        *)

\* The include met next: sections are resolved before the list they stand in,
\* each list from its front.  What was spliced in holds no include any more.
SlipPending(d) == {i \in DOMAIN d : Is(d[i], "include") /\ Depth(d, i) = 0}
Pending(d) == {i \in DOMAIN d : Is(d[i], "include")}
NextInclude(d) ==
  CHOOSE i \in Pending(d) : \A j \in Pending(d) :
    \/ Closing(d, i) < Closing(d, j)
    \/ Closing(d, i) = Closing(d, j) /\ i <= j

Top == stack[Len(stack)]
Below == stack[Len(stack) - 1]

\* The include is opened and its text parsed; either may throw, which unwinds
\* every call and closes every file.
OpenInclude ==
  /\ phase = "resolving"
  /\ Pending(Top.doc) # {}
  /\ \E f \in {Resolved(Top.base, Top.doc[NextInclude(Top.doc)])} :
       IF Opens(f)
         THEN /\ Enter(Dir(f), From(f, disk[f]))
              /\ streams' = IF phase' = "thrown" THEN 0 ELSE streams + 1
         ELSE /\ phase' = "thrown"
              /\ stack' = <<>>
              /\ streams' = 0
  /\ UNCHANGED <<disk, asked>>

\* The children of the included root take the place of the include, in order.
SlipSpliced(d, i, e) == SubSeq(d, 1, i - 1) \o SubSeq(d, i + 1, Len(d)) \o e
SlipEmpty(d, i, e) ==
  IF e = <<>> THEN d ELSE SubSeq(d, 1, i - 1) \o e \o SubSeq(d, i + 1, Len(d))
Spliced(d, i, e) == SubSeq(d, 1, i - 1) \o e \o SubSeq(d, i + 1, Len(d))

\* The stream closes when the call that opened it returns.
SlipClosed == streams
Closed == streams - 1

Splice ==
  /\ phase = "resolving"
  /\ Len(stack) > 1
  /\ Pending(Top.doc) = {}
  /\ stack' = Append(SubSeq(stack, 1, Len(stack) - 2),
                     [Below EXCEPT !.doc = Spliced(@, NextInclude(@), Top.doc)])
  /\ streams' = Closed
  /\ UNCHANGED <<disk, phase, asked>>

Return ==
  /\ phase = "resolving"
  /\ Len(stack) = 1
  /\ Pending(Top.doc) = {}
  /\ phase' = "returned"
  /\ streams' = 0
  /\ UNCHANGED <<disk, stack, asked>>

Resolve == OpenInclude \/ Splice \/ Return

Next ==
  \/ \E f \in File, pre \in Pre, post \in Post : ParseFile(f, pre, post)
  \/ \E d \in Text, pre \in Pre, post \in Post : ParseText(d, pre, post)
  \/ Resolve

Spec == Init /\ [][Next]_vars /\ WF_vars(Resolve)

----------------------------------------------------------------------------
(* Properties.                                                              *)

\* The disk and the documents keep their types.
TypeOK ==
  /\ DOMAIN disk \subseteq File /\ \A f \in DOMAIN disk : disk[f] \in Text
  /\ phase \in {"start", "resolving", "returned", "thrown"}
  /\ stack \in Seq([base : Seq(Segment), doc : Document])
  /\ asked \in [base : Seq(Segment), text : Document, own : {0, 1}]
  /\ streams \in 0 .. MaxOpen

\* The files a document names, and those a call comes to: what its text names,
\* what a file it comes to names, and no other.
Named(base, d) ==
  {Resolved(base, d[i]) : i \in {j \in DOMAIN d : Is(d[j], "include")}}
NamedBy(f) == Named(Dir(f), Settled[From(f, disk[f])])
Start == Named(asked.base, Settled[asked.text])
Closes(R) == /\ Start \cap DOMAIN disk \subseteq R
             /\ \A f \in R : NamedBy(f) \cap DOMAIN disk \subseteq R
Files == {f \in DOMAIN disk : \A R \in SUBSET DOMAIN disk : Closes(R) => f \in R}

\* n files, each named by the one before it.
Chain(n) == \E c \in [1 .. n -> DOMAIN disk] :
              /\ c[1] \in Start
              /\ \A k \in 2 .. n : c[k] \in NamedBy(c[k - 1])

\* Files one can go on in for ever, and that are met.
Circle(C) == C \cap Start # {} /\ \A f \in C : NamedBy(f) \cap C # {}
HasCycle == \E C \in SUBSET DOMAIN disk : Circle(C)

\* What an item stands for, given what the files do, and a document: its items in their
\* order, every include replaced by what the named file stands for.
StandsFor(base, t, whole) == IF Is(t, "include") THEN whole[Resolved(base, t)] ELSE <<t>>
Expanded(base, d, whole) ==
  LET acc[n \in 0 .. Len(d)] ==
        IF n = 0 THEN <<>> ELSE acc[n - 1] \o StandsFor(base, d[n], whole)
  IN  acc[Len(d)]

\* What the files stand for, files up to k deep; what is returned is never deeper than
\* the files that can be open.
Whole[k \in 0 .. MaxOpen] ==
  [f \in Seq(Segment) |->
     IF k = 0 \/ f \notin DOMAIN disk THEN <<>>
     ELSE Expanded(Dir(f), Settled[From(f, disk[f])], Whole[k - 1])]
Meaning == Expanded(asked.base, Settled[asked.text], Whole[MaxOpen])

\* "its top-level items are spliced into the AST at the point of the `!include`
\* directive.  Relative paths are resolved against the directory of the including
\* file" (README.md:304): the tree returned is what the files say, item by item,
\* each with the file it came from, in whatever order the includes were read.
IncludesInPlace == phase = "returned" => stack[1].doc = Meaning

\* A call gives up for a cause: a file reached is missing, is no HIT document, or
\* is reached through more files than can be open; a stream is never held longer
\* than its file is being resolved.
RefusedWithCause ==
  phase = "thrown" /\ Accepted(asked.text) /\ asked.text # <<>> =>
    \/ ~ Start \subseteq DOMAIN disk
    \/ \E f \in Files : ~ Accepted(disk[f]) \/ ~ NamedBy(f) \subseteq DOMAIN disk
    \/ Chain(MaxOpen + 1 - asked.own)

\* No tree is returned for files that include each other in a circle.
CyclesAreRefused == phase = "returned" => ~ HasCycle

\* One stream is open per call of resolve_includes that reads a file, and no
\* more: the recursion is never deeper than the streams the process can open.
StreamPerCall ==
  phase = "resolving" => /\ Len(stack) = streams + 1 - asked.own
                         /\ Len(stack) \in 1 .. MaxOpen + 1

\* A call ends, with a tree or with an exception, even when files include each
\* other in a circle: the limit on open files stops it.
CallsEnd == phase = "resolving" ~> phase \in {"returned", "thrown"}

\* "All content -- pre, file, and post -- is concatenated and parsed as a single
\* document, so override semantics (':=') apply globally across all sources"
\* (nmhit.h:22): what a caller overrides at the end of the document is what a
\* reader finds.  Values of snippets behind the document are 1.
PostOverrideWins ==
  phase = "returned" =>
    LET d == stack[1].doc
        Top1(i) == Is(d[i], "field") /\ Depth(d, i) = 0
    IN  \A i, j \in DOMAIN d :
          Top1(i) /\ Top1(j) /\ d[i].name = d[j].name /\ d[j].value = 1 /\ d[j].op = ":="
            => \E k \in 1 .. i : Top1(k) /\ d[k].name = d[j].name /\ d[k].value = 1
====
