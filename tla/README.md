# A TLA+ model of nmhit

nmhit reads, edits and writes HIT (Hierarchical Input Text) files: sections
`[name] ... []`, fields `key = value`, overrides `key := value`, keys and
section paths split by `/`, `!include`, and `${...}` expressions in values.
This directory holds TLA+ modules translated from its source, the TLC
configurations that check them and proofs for TLAPS.  `PROJECT.json` lists the
runs, maps every definition to the lines it models and names the theorems.

## 1. Inventory

| part | code | state it keeps | operations |
|---|---|---|---|
| Parse driver | `src/src/ParseDriver.h`, `src/src/Node.cpp:604-1012`, `src/src/Parser.y` | the `items` vectors on the Bison stack, `_override_fields`, `_errors`, `_failed`, `_root` | `build_field`, `build_section`, `build_include`, `build_array_value`, `set_root`, `apply_overrides`, `report_error`, `lex_error` |
| Lexer | `src/src/Lexer.l`, `ParseDriver::lex`, `on_token_action` | start condition, brace depth, pending value, verbatim flag, whitespace of arrays, line and column | one action per rule |
| Node tree | `src/include/nmhit/Node.h`, `src/src/Node.cpp:80-217, 480-600` | `_parent`, `_children`, `_is_wrapper`, values | `add_child`, `insert_child`, `remove_child`, `find`, `fullpath`, `root`, `clone`, `set_val`, `render` |
| Include resolution | `src/src/Node.cpp:1020-1133` | the call stack of `resolve_includes`, the files of the host | `parse_file`, `parse_text`, `resolve_includes` |
| Brace expressions | `src/src/BraceExpr.cpp` | the call stack of an evaluation | `parse_brace_node_at`, `evaluate`, `expand_all` |
| Typed values | `src/src/Node.cpp:219-478`, `TypeRegistry.h` | the table of parsers by type | `param`, `param_optional`, `register_parser`, `dispatch` |
| Python bindings | `src/python/src/_nmhit.cpp` | handles and what each keeps alive | the tree's operations, with clones where C++ moves |
| Formatter | `src/python/nmhit/_cli.py` | the files | `_is_neml2`, `format_files` |
| Generated scanner | `src/generated/Lexer.cpp` | the buffer, its pointers, `yy_hold_char`, the start condition, the state of the automaton | `yylex` with `yy_get_previous_state`, `yy_try_NUL_trans`, `yy_get_next_buffer` |
| Generated parser | `src/generated/Parser.cpp`, `Parser.h` | the stack of states and values, the look-ahead token | `parse`, `expected_tokens` |
| Build, packaging | `src/CMakeLists.txt`, `src/src/abi_compat.cpp` | none of their own | not modelled |

How they interact.  The Bison parser calls `driver.lex`, which runs the Flex
scanner and hands a token with its value and location back; on a reduction it
calls the driver, which allocates nodes.  `parse_raw` runs one driver over one
text and throws what the driver recorded, or takes its tree.  `parse_file` and
`parse_text` run `parse_raw`, then `resolve_includes`, which runs `parse_raw`
again for every file included.  `param` reads a node, expands braces (which
calls `find` and `param` again from the root) and dispatches to the registry.
The bindings call all of this and hand out references into the tree.

Everything runs in one thread and calls are synchronous.  What is hard is not
interleaving but sequence: in which order blocks, wrappers, repeats and
overrides come, what a level looks like when an outer level comes back to it,
what an address means after its node is gone, what a handle means after its
tree changed, and recursion over data (files, values) that may be cyclic.

What makes each part correct:

- *Parse driver*: the last writer of a path wins; a repeat without `:=` is an
  error; blocks of the text never merge, wrappers always do; nothing else is
  dropped; nothing moves to another path; the recursion ends.
- *Lexer*: every token has the location of its first character; the verbatim
  flag marks the field whose value it came with; brace depth is zero between
  values; no character of a value is lost or doubled.
- *Generated scanner*: it matches what the rules say, whatever is kept, pushed
  back or a NUL; what it writes into the buffer is undone; it ends.
- *Generated parser*: it accepts the documents of the grammar and builds their
  tree; an error is reported at the first token that is wrong; every value on
  the stack has the type its state says; it ends.
- *Rendering*: what is rendered is the same document when it is read.
- *Node tree*: one owner per node, parent pointers agree with child vectors,
  nothing leaks, `find` and `fullpath` are inverse where names are unique.
- *Includes*: paths are resolved against the including file, items keep their
  place, an acyclic set of files is resolved, and a call always ends.
- *Brace expressions*: whatever the lexer accepts the evaluator can parse; each
  brace is replaced in its place; an acyclic set of fields evaluates.
- *Typed values*: a value is returned exactly when it is in the type's range.
- *Handles*: a handle is usable as long as its node exists, and only then.
- *Formatter*: a formatted file is a fixed point and means the same; a run that
  fails leaves the other files whole.

## 2. Plan

1. `ParseDriver` (done, every safety invariant proved): the core.
2. `NodeTree` (done for ownership, navigation and cloning; all its properties
   proved): the tree as clients use it.  Left: `set_val`,
   `set_inline`; rendering is in `Frontend`.
3. `Includes` (done, every safety invariant proved): files as a graph.
4. `Braces` and `BracesMeaning` (done, all its properties proved): the recursion
   of evaluation, against the meaning of the notation.
5. `Patterns`, `Lexer` and `Parser`, composed in `Frontend` (done; brace depth,
   the types of the parser's values and what the tokens are proved): from
   characters to the tree and back; `Grammar` runs `Parser` on tokens alone,
   against the grammar.
6. `Values` (done but for registration): typed reads of what `Frontend` builds.
7. `Scanner` against `Matching` (done, the restored buffer and the bounds of the
   pointers proved): the scanner flex generated is a refinement of the rules.
8. Handles of Python objects and the formatter are not modelled; section 12
   says why.

Which module uses which: `Lexer` EXTENDS `Parser` and `Patterns`, `Frontend`
EXTENDS `Lexer`, `Values` EXTENDS `Frontend`; `Grammar` EXTENDS `Parser`;
`Scanner` EXTENDS `Patterns` and `ScannerTables` and instantiates `Matching`,
which EXTENDS `Patterns` too, so that the rules `Lexer` runs are the ones
`Scanner` is shown to implement.  `ParserStates` EXTENDS `Parser` with what its
tables say of the stack, for `Lexer_proofs`.  `Includes` and `Braces` EXTEND
`Positions`, which takes out of a sequence what stands at some of its positions.

A proof module EXTENDS the module it is about (`ParseTree_proofs` extends
`ParseDriver_proofs`) and, where it needs them, the lemmas of `Recursion`.  They
stand in for induction over data, which the prover does not do: a nonempty set
of numbers has a least member (`LeastElement`), a set closed under "one more" is
all of them (`UpToInduction`), and a function defined at one point by its value
at another exists when every point comes down to a base
(`RecursiveFunction`, `Counted`); so does one defined at each member by its values
at any number of others, when going from one to the next comes to an end (`TreeFunction`, `RowFunction`).  Where a property recurses over data, the
module states it with such a function, or as the least set with a property, and
so has no RECURSIVE operator.

Theorems that would be worth proving next: that the tree of an accepted document
is its text (`Grammar!TreeIsText`), by an invariant of what each entry of the
parser's stack stands for; that the scanner's tables implement the rules for
texts of any length.

## 3. ParseDriver

### State and actions

| TLA+ | code |
|---|---|
| `node`, `size` | nodes in the order they are constructed: kind, name, operator, address; `path` (what the text calls it) and `op` are history |
| `kids[n]`, `kids[Items]`, `open` | `_children` of every node; the innermost `items` vector; the enclosing ones, on the Bison stack |
| `wrapper`, `overrides`, `reports`, `failed` | `_is_wrapper`, `_override_fields`, `_errors` (how often per field), `_failed` |
| `blocks` | history: the blocks of the text whose content a section holds |
| `phase`, `work` | where control stands; the sections the recursion of `apply_overrides` has still to visit |
| `BuildField`, `BuildOther`, `OpenSection` | a reduction of `field`; of `comment`, `blank`, `include`; the shift of `[path]` |
| `CloseSection`, `ApplyOverrides(c)`, `BuildSection` | `build_section`: its call of `apply_overrides`, one visit of a list (passes 1 and 2), the rest |
| `EndOfFile`, `ApplyOverrides(c)`, `SetRoot`, `Done` | `set_root` likewise, and the verdict of `parse_raw` |
| `LexError`, `SyntaxError` | an error recorded by the lexer, after which the parse goes on; one reported by Bison, which ends it |

Nodes are numbered in the order of construction.  Every operation of the driver
appends, and a section is constructed after its children, so siblings always
stand in the order of their numbers; `kids` can be sets and passes 1 and 2 can
be stated by what they compute (`Folded`, `Hosts`, `Rejected`, `Replaced`)
instead of by their loops.  Pass 3 visits the lists below in depth-first order;
the model leaves the order open, since a visit touches only its list and the
lists one level below, and so checks more orders than the code has.

An address is named after the first field that lived there.  With `Reuse`
false every field gets a new address; with `Reuse` true it may get the address
of a deleted one, which is what `malloc` does.

Values, locations and the text of comments are left out: nothing the driver
decides depends on them.

### Checks

| run | shows |
|---|---|
| `parse_shallow` | `TypeOK`, `BlocksNeverMerge`, `NothingLost`, `NoFalseReports` over the fields `k`, `a/k`, the block `[a]` nested twice, one comment |
| `parse_cascade` | `ResultIsClean`, `PathsKept`, `LastOccurrenceWins` where folds cascade through two levels: fields `k`, `a/b/k`, blocks `[a]`, `[a/b]`; `CallsReturn`: every call of `apply_overrides` ends and a text that ends is answered |
| `parse_stale_override` | finding: an address outlives its field in `_override_fields` |
| `parse_hidden_duplicate` | finding: an inner override hides an outer duplicate |

`LastOccurrenceWins` and `EveryDuplicateReported` speak of texts that do not
write one block twice (`BlocksAreDistinct`); in the others two places of the
tree share a path by design.

Bounds.  `MaxNode` is 6: a wrapper with its field, a block, and three more
fields or wrappers, which is enough for both findings and for every slip in the list of mutants; `MaxNode = 8` with one level of nesting was
checked once with the same result.  `MaxDepth` is 2, so lists are settled three
times.  `MaxOther` is 1: a comment takes part in nothing but being kept.
`CloseSection` starts only when the section and its wrappers fit the bound; a
text that would not fit can still end in `SyntaxError`.

Fairness.  `ApplyOverrides`, `BuildSection` and `SetRoot` are weakly fair: they
are the continuation of a call, in a single thread, that nothing blocks.
Reading on is not fair: a text may end anywhere, by an error.

### The findings

- `_override_fields` keeps raw addresses of deleted fields.  The text
  `[a] k := 0  k := 1 []  x = 1  x = 2` may be accepted with `x = 2`, depending
  on the allocator.
- `a/k = 0  [a] k = 1  k := 2 []` is accepted: the block settles `k` on its own
  before the document sees that `k = 1` repeats `a/k`.

Besides, a duplicate inside a block is recorded by the block and again by every
enclosing level, since `apply_overrides` visits the settled list again
(`Node.cpp:829`, where the comment at 759 speaks of "an error").  The verdict is
the same, so no run is spent on it.

### Proofs

`ParseDriver_proofs` proves, for every set of keys, every bound and either
allocator:

- `TypeCorrect`: `Spec => []TypeOK`;
- `CleanResult`: `Spec => []ResultIsClean`;
- `BlocksStayApart`: `Spec => []BlocksNeverMerge`.

All three follow from one inductive invariant, `IInv`.  `ResultIsClean` speaks
only of the end; what carries it there is `CleanOK`: at every moment each list
that is neither on the worklist nor being read is clean (its wrappers have no
namesake, and unless an error was recorded its fields have distinct names).
The argument, in `ApplyOverridesInv`: a visit cleans its own list
(`KeptSections`, `KeptFields`); it adds children to another list only by
folding a section into it, and then that list's owner is one of the remaining
sections, hence on the worklist (`HostsAreVisited`); and elsewhere it can only
turn wrappers into blocks, which never makes a clean list unclean.
`KeptSections` is the delicate part: a wrapper left beside a later namesake
would have to be followed by a first block of the name, and that block was
folded into it and has made it a block.  It takes the least element of a set of
numbers, from the well-foundedness of `<`.  `FreshOK` says that nodes not yet
built are no wrappers, for `BuildField` and `BuildSection`; `FramesOK` that a
stacked path is at least as long as its key, for the paths of wrappers.

`ParseTree_proofs` compares the tree with the text:

- `PathsStay`: `Spec => []PathsKept`;
- `ReportsHaveCause`: `Spec => []NoFalseReports`;
- `LastOneWins`: `Spec => []LastOccurrenceWins`;
- `NothingIsLost`: `Spec => []NothingLost` where no address is used twice
  (`~ Reuse`).  With `Reuse` it is false: that is the finding
  `parse_stale_override`, where a Field is replaced for the `:=` of another that
  lived at its address.

They follow from `TreeInv`, which adds five parts to `IInv`.  `PathInv`: the
members of one list have the path of the list and their own name, on every frame
of the stack too; a fold goes between two sections of one list and one name,
hence of one path.  `ReportInv`: a `:=` Field's address is in `_override_fields`,
so a Field rejected was written with `=`.  `OwnInv`: a node is in one vector, and
only owned sections have children; without it, a section that is settled could
also be changed through another list.  `BlockInv`: the content of a block is in
one owned section; it turns "the text has each block once" into "no two sections
of the tree share a path", for which `LastOccurrenceWins` needs it.  `LastInv`:
for each Field deleted there is a later one of its path; it is what relates the
returned tree to a text that is gone.  `OverrideInv` is `LastInv` with `:=`, and
inductive only while addresses differ.

The proofs rest on `NodeAssumption`, `KeyAssumption` (keys are nonempty
sequences of names, as `split_path` and the fallback after it guarantee) and
`ReuseAssumption`.  Of the run's properties only `CallsReturn` is model-checked
alone: liveness is out of the prover's reach.

## 4. NodeTree

### State and actions

| TLA+ | code |
|---|---|
| `alive` | the addresses that hold a node; `Make` and `Clone` allocate, `Destroy` frees |
| `label`, `parent`, `children` | type and name, `_parent`, `_children` |
| `held` | the nodes a client owns through a `unique_ptr` of its own |
| `Make` | the constructors; the node belongs to the client |
| `InsertChild`, `AddChild`, `RemoveChild` | the same operations: ownership passes between the client and a child vector, and `_parent` follows |
| `Destroy` | the client drops a `unique_ptr`, and the vectors below go with it |
| `Clone` | `Root::clone` and `Section::clone`, which clone what they hold in turn (`ClonedRow`), and those of the other kinds, which leave it behind |
| `PyInsertChild`, `PyAddChild` | the bindings, which add a clone and leave the original to its owner |
| `PyRemoveChild` | the bindings' removal by path: `find`, then `_parent` of what it found |

`find`, `fullpath` and `root` are operators.  `find` follows the loop of the
code: the first child of the name decides, and nothing behind it is tried.

Two obligations of the caller are guards: the index of `insert_child` lies
within the vector (the code does not check it, `Node.cpp:200`), and no tree is
moved into itself, which a `unique_ptr` to a node that holds the target would
allow.  Beyond either the C++ program has no defined behaviour.

### Checks

`tree_ownership` takes every sequence of operations with four nodes alive at
once, under symmetry of the addresses (the properties name no address): four
are enough for a node, its child and the copies of both, for a section moved
between two parents, and for two namesakes with a child each.

- `OneOwner`: a live node is owned exactly once, where its `_parent` says.
- `NoLeak`: every live node is below one that the client owns, so there is no
  leak and no cycle of owners.
- `FullPathFinds`: looking up the `fullpath` of a node from its root finds that
  node, where the root is a `Root` and the node and all above it are the first
  of their names among their siblings.
- `ClonesAreWhatIsShown`: a copy has the labels, order and depth that `render`
  shows of its original, and nothing else, whether a client gets it from `clone`
  or the bindings put it into a tree.

Every kind of node can hold children, since `add_child` and `insert_child` are
members of `Node`, and the model lets them.  `clone` and `render` are written
kind by kind, and agree: only `Root` and `Section` walk what they hold.

Where two sections share a name, `find` commits to the first (`Node.cpp:173`): what
the second of two `[a]` blocks holds cannot be reached, although `Node.h:109` says
that the first *matching* node is returned.  `FullPathFinds` states what does hold.

A section built by a client as `Section("a/b")` cannot be reached by its path
either, since `find` splits it.

### Proofs

`NodeTree_proofs` proves for any set of addresses and names and any size:

- `TreeTypeCorrect`: `Spec => []TypeOK`;
- `OwnedOnce`: `Spec => []OneOwner`, which follows from the inductive invariant
  of `Ownership`;
- `NothingLeaks`: `Spec => []NoLeak`;
- `FullPathsFind`: `Spec => []FullPathFinds`.

`NoLeak` says that the live nodes are the least set that contains what the
client owns and is closed under `children`.  Stated as "every set that contains
`held` and is closed contains `alive`" it needs no recursion and no induction
on depth: a closed set of the new state is turned into one of the old state,
action by action.  A move needs that the target is not below the node moved
(`ParentInside`, `NoCycle`), a removal that the node removed is held, and
`Clone` that the copies are owned among themselves or by the client
(`CopyOwned`).

`FullPathFinds` needs nothing but ownership.  `Ownership` makes the way from a
node up to its root end (`TreeGrounded`), so `fullpath`, `root` and the walk of `find` exist as functions; and
from a node that is the first of its name, the step of `find` and the step of
`fullpath` undo each other (`LongerFind`, `ReachableFound`).

`ClonesAreShown`, `Spec => ClonesAreWhatIsShown`, compares the trees below two
nodes in two states.  A tree is put together from those below its children, so it
exists only where going down ends.  It does (`TreesEnd`), since a child has fewer
nodes below it than its parent, and what was allocated is finite (`Finite`).  What
`clone` copies is a part of what stands below a node that hangs together
(`ClonedFacts`, `ClonedParent`).  The tree of a copy is what its original shows
because the two agree at the leaves and at each node whose children agree
(`CopyShown`); the copies are new nodes, so putting one into a vector of the
original (`PyAddChild`, `PyInsertChild`) changes nothing in what was copied.

## 5. Includes

### State and actions

A document is the sequence of its items as they are written, with an `open` and
a `close` token around the content of a section.  Splicing the children of one
list into another is then splicing their tokens.

| TLA+ | code |
|---|---|
| `disk` | the files of the host, which do not change during a call |
| `stack` | the calls of `resolve_includes` that read a file, each with its `base_dir` and its document |
| `streams` | the `std::ifstream`s that are open |
| `asked` | history: the text of the outermost document, and whether it came from a file |
| `ParseFile`, `ParseText` | the entry points up to the first `resolve_includes`: open, join with the snippets, `parse_raw` |
| `OpenInclude` | `Node.cpp:1065-1080`: the path, the stream, `parse_raw`, the recursive call; or the exception that unwinds it all |
| `Splice` | `Node.cpp:1082-1092`: the items take the include's place, the stream closes |
| `Return` | no include is left |

Of `parse_raw` the module has what the splice depends on: repeats of a field
within one list are refused or settled (`Accepted`, `Settled`), one file at a
time.  Wrappers, folding and duplicates that hide each other are
`ParseDriver`'s.  Where a section is walked is fixed: the lists inside are
resolved first, then the list itself from its front, looking afresh after each
splice (`NextInclude`); what was spliced in is resolved already.

`MaxOpen` is the number of files the process can hold open, and the only thing
that ends a circle of includes: nothing in the code records which files are
being read.  Where the limit is larger than what the C++ stack holds, the
process dies of the recursion before; the model has no such end.

### Checks

`includes_files` takes every disk of three files (one in a subdirectory) over
seven texts, with files missing, empty, refused, chained, repeated, included
from within a section and in a circle, parsed from any file or any text, with a
snippet before and behind or without.  `MaxOpen` is 3, so a chain of all three
files fits and a circle does not.

- `IncludesInPlace`: the tree returned is the meaning of the files, stated by
  substitution over the acyclic files and without any stack or order.
- `RefusedWithCause`: an exception means a file that is missing, no document, or
  reached through more files than can be open.
- `CyclesAreRefused`: no tree is returned for a circle.
- `StreamPerCall`: one stream per call that reads a file, and no other.

- `CallsEnd`: a call ends on every disk, circles included.  Fairness is weak on
  `Resolve`: one call in one thread, which nothing blocks.

`includes_post_override` is a finding.  `nmhit.h:22` and `README.md:365` promise
that `:=` in a post snippet (the command line's overrides) applies across all
sources.  It does not reach a field that an included file brings: that one
stays in the tree, first, and is what `find` returns.

### Proofs

`Includes_proofs` proves every safety property of the run, for any files, texts
and limit:

- `RecursionBounded`: `Spec => []StreamPerCall`.  The invariant `CallStack` adds
  that the stack is a sequence and that nothing is open outside a call.
- `TypesKept`: `Spec => []TypeOK`, that is, splicing and settling make documents
  of documents.  `TextAssumption` says that files hold documents.
- `ThrowsHaveCause`: `Spec => []RefusedWithCause`.  The property speaks of the
  files a call comes to, the least set closed under what they name (`Files`), and
  the stack is what is left of the way there.  `Lineage` says so: every frame but
  the outermost belongs to the file the frame below waits for, which is one of
  `Files`, and names no more than that file does.  When no stream is left the
  frames are the chain of files the property asks for (`NotOpened`).
- `CirclesRefused`: `Spec => []CyclesAreRefused`.  A circle is a set of files
  each of which names another.  `CircleInv`: while the call goes on, some include
  that leads into the circle is left, on the outermost frame and on each frame
  above one that waits for a file of the circle; so the outermost document, when
  it has none left, shows that there is no circle.
- `IncludesStandInPlace`: `Spec => []IncludesInPlace`.  What a document means is
  a function of the depth its includes are read to (`Whole`), which is as deep as
  files can be open.  `PlaceInv`: however far the includes of each frame are
  resolved, the outermost frame stands for what was asked for, and every other
  for what the file means that the frame below waits for.  A step keeps this
  because expanding a document in which one item is replaced by others is
  expanding those others in its place (`ExpandedSplice`), and expanding a
  document without includes changes nothing (`ExpandedPlain`), at whatever depth.

They rest on `OpenAssumption`, `FileAssumption` and `TextAssumption`.  `CallsEnd`
is liveness and stays with TLC.

## 6. Braces

### State and actions

A text is a sequence of tokens: `${`, `}`, white space, and words, which are the
runs of other characters between them.

| TLA+ | code |
|---|---|
| `field` | the Fields of the tree by path, as `find` from the root sees them; a Section or nothing elsewhere |
| `stack` | the calls of `expand_all` (`expand`) and of `evaluate` (`env`, `raw`, `lookup`, and `found` while it waits for the value), each with the text put together so far |
| `Read` | `param<std::string>` on a Field |
| `ExpandBrace`, `ExpandRest` | one turn of the loop of `expand_all`: up to the next `${...}`, or to the end |
| `Evaluation` | `parse_brace_node_at` on what was found, and the branch of `evaluate` it leads to |
| `EvaluateNested`, `EvaluateRaw`, `EvaluateEnv`, `LookUp`, `LookedUp` | the branches: sub-nodes first, then the result or the read of another Field |

The code parses sub-nodes when it parses a node, the model when they are
evaluated; what is inside closed braces is balanced, so parsing it cannot fail.
`MaxCalls` is what the stack of the thread holds.  Nothing in the code bounds
the recursion: at the limit the process dies (`died`).

`BracesMeaning` says what a value stands for, by the table of the README: over
trees of parts instead of texts, and by recursion instead of a stack.

| TLA+ | meaning |
|---|---|
| `Part`, `Plain`, `Braced` | a word, or braces around parts with white space (`gaps`) around each; two words are kept apart by some |
| `Depth`, `Nesting` | how deep the braces of each part are nested, and a bound on it |
| `Tree` | each value as a sequence of parts and a `tail`, a brace that is left open |
| `Spelling`, `Spelled` | what is written for a part and for a value; `TreeAssumption` says that `Tree[t]` is spelled `t` |
| `OfBraces`, `OfParts`, `OfTree` | what braces, parts and values stand for, given what the Fields do: a text, an error, or no end |
| `Within[n]` | what the Fields stand for when at most `n` of them in a row lead from one to the next |
| `Meaning` | that of the Field asked for, within as many steps as there are names: of more in a row one came up twice |

Every text can be written down as a tree: up to the first brace that is not
closed it is closed braces with words between them (where a `}` is a character
like any other), and within closed braces it is words, white space and closed
braces again.  So `TreeAssumption` keeps no text from being a value.  The values
are the code's inputs, the trees only say what they mean: nothing in `Braces`
refers to them.  `StackAssumption`, that the stack has
room for `Cardinality(Name) * (Nesting + 1)` calls, is for `DiesInCircle` alone:
a shorter stack is exhausted by nesting that ends.

### Checks

`braces_values` takes every tree of three Fields (one named by two words, so
that a name can be put together by `raw`) over fourteen values with white space
only where two words would join, those that are one brace also with white space
everywhere in it, and one malformed: look-ups in a row, names that are values,
text on both sides of a brace, an environment variable that itself holds `${a}`,
arguments a command ignores or lacks, up to three braces deep.  `MaxCalls` is 16,
above the 3 * (3 + 1) of `StackAssumption`.

- `AnswerIsMeaning`: the answer is what the value stands for, and what replaced
  a brace is not expanded again.
- `ThrownWithCause`, `DiesInCircle`: the other two outcomes have their causes.

- `ReadingProgresses`: every step returns, or calls deeper and leaves the caller
  with less to do, so a reading ends within any bounded stack.  Stated as a
  ranking of steps it needs no fairness.

`braces_raw_order` is a finding: `${raw ${prefix} /lib}` reads as `/lib/opt`,
where the README says `/opt/lib`.

### Proofs

`Braces_proofs` proves `ReadingsProgress`, `Spec => ReadingProgresses`, for every
tree, text, environment and stack.  A call that goes deeper leaves less behind
because the `}` that answers a `${` is behind it (`ClosingFacts`), because a
nested brace is taken off the list, or because the name is looked up once.  What
needs the invariant, `Reading`, is that lists and texts are such: evaluating a
nested brace parses a text that was cut out of another, and only a text in which
every brace is closed falls into pieces that are texts.  So a frame's nested
braces are `Closed`: the level inside comes back to zero.  A brace cut out with
the `}` that answers it is closed, since levels change by one (`LevelStep`) and
are counted alike in a text and in a part of it (`LevelShift`), and so is every
piece of a closed brace (`OnePiece`).  This is also why the model may parse
sub-nodes only when they are evaluated.  It rests on `WordAssumption` (no word
is a brace) and `ValueAssumption`.

The module also proves, for every tree of Fields, every text and environment,
what a reading comes to:

- `AnswersAreMeanings`: `Spec => []AnswerIsMeaning`;
- `ThrowsHaveCauses`: `Spec => []ThrownWithCause`;
- `DeathsAreCircles`: `Spec => []DiesInCircle`.

The argument has five parts.

1. *What a brace is cut into.*  `parse_brace_node_at` goes over characters and
   counts levels; the notation speaks of parts.  In front of each part everything
   is closed (`BeforeExists`), so at the part the scan is on the level it began
   on, starts a piece there and ends it where the part ends (`BraceStands`,
   `WordStands`), and nothing starts in the white space between
   (`BlankStartsNothing`).  So the pieces are the spellings of the parts, in
   order (`PiecesAre`).
2. *The frame of a brace.*  Each branch of `evaluate` takes some pieces as words
   and leaves the others to evaluate; what it is left with, and its command,
   amount to what `OfBraces` says (`EvaluationMeans`).
3. *The brace expand_all finds* is the next one of the tree, or the tail
   (`NextBrace`): what stands in front of it has no `${`.
4. *What the stack owes.*  No step of a reading can be judged by the state it
   leads to alone: halfway through, the answer exists nowhere.  The invariant
   `Telling` says that each call owes the one below what it has gathered, then
   what it gets from above, then what its rest stands for (`Link`), and that the
   outermost owes what the Field stands for (`Chain`, `Follows`).  A call and a
   return change two links and keep that sum (`ChainCall`, `ChainReturn`); an
   error is passed on through all of them (`ChainThrown`).
5. *Fields.*  A look-up replaces the text of a Field by its name, so the calls
   above it owe what the Field stands for by what *other* Fields stand for.  With
   what is known after as many steps as there are names, that is the same again:
   each step that finds out anything finds out about one more name (`KnownGrows`),
   so the last one finds out nothing (`Settled`).  This gives the first two
   theorems.  For the third the invariant is kept a second time, with what is
   known within one step less for each Field further up (`Descent`): then a
   reading that is known to end has, at level `l`, at most `l * (Nesting + 1)`
   calls on the stack, since braces within braces are nested less deep.  A
   call that does not fit is one whose Field is not known to end.

They rest on the assumptions of `Braces` and `BracesMeaning`, which TLC evaluates
in the two runs.

## 7. Parser and Grammar

### State and actions

`Parser` is the machine Bison generated (`Parser.cpp`), by its own tables, with
the semantic actions of `Parser.y`.

| TLA+ | code |
|---|---|
| `stack` | `yystack_`: states with their values and locations; `type` is the alternative of the variant that is alive |
| `la` | `yyla` |
| `WantsToken`, `Take` | `yybackup`: a state that does not look ahead decides without a token |
| `Shift`, `Reduce(r)` | one turn of the loop: the token goes on the stack, or rule `r` and its action run |
| `Fail`, `Pop`, `Abort`, `Accept` | `yyerrlab`, `yyerrlab1`, `yyabortlab`, `yyacceptlab` |
| `ws`, `verbatim` | `_ws_pending` and the verbatim flag of the driver, set by the scanner and taken by `array_row` and `build_field` |
| `root`, `errors` | what `set_root` and `report_error` were given |

A section's value is the tree the driver would build without overrides, which
are `ParseDriver`'s matter: a node is a record, wrappers are not made and
repeats not settled.

`Grammar` feeds `Parser` every sequence of tokens and has the grammar of
`Parser.y` stated a second time, as what a document *is* (a row of pieces whose
sections nest) and not by productions.

### Checks

`grammar_tokens` takes every sequence of up to seven tokens of all twenty kinds
(an unquoted string also as a verbatim one), cut where the parser refuses:
seven are a section with a field in it, or an array with two rows behind its
key, and every rule and every state but those reached only by longer arrays are
entered by then.

- `TreeIsText`: an accepted text is a document, and the tree says what its
  tokens say, with the whitespace and the verbatim flag on the element and the
  field they were written at - the driver keeps one of each while the parser
  may be a token ahead.
- `RefusedAtTheToken`: an error is at the first token that no document goes on
  with, although default reductions run before that token is looked at.
- `ExpectedCouldStand`: a token the message names as expected could stand there.
- `ParseReturns`: the parser comes to a verdict.  Fairness is weak on `Next`: the
  scanner and the parser are one thread, which runs on.

## 8. Patterns, Lexer and Frontend

### State and actions

A text is a sequence of characters, one for each class that the rules tell
apart (`yy_ec` merges more than the rules need; `Char` has one member per class
of flex's, and `nul`).  `Patterns` has what every rule matches from a position
on and what its action does; `Lexer` is `ParseDriver::lex` around it.

| TLA+ | code |
|---|---|
| `pos`, `base`, `mode`, `inMore` | `yy_c_buf_p`, `yytext_ptr`, the start condition, `yymore()` |
| `at`, `tokAt`, `moreBase` | `_line` and `_col`, `_tok_start_*`, `_yymore_base` |
| `depth`, `acc`, `triple` | `_brace_depth`, `_unquoted_acc`, `_triple_str` |
| `Matched` | `on_token_action`, run before every action |
| `Skip`, `Token`, `String`, `Path`, ... | one action for each kind of rule action |
| `EndOfText` | `<<EOF>>` |

`Frontend` runs scanner and parser on a text; when the text is accepted without
an include, `Again` runs them once more on what the tree renders to
(`Node::render` with two blanks).  `text`, `pass` and `first` keep the two apart.

### Checks

`frontend_texts` takes 13,715 texts: every bare value of up to three characters
over the thirteen that matter to it, every array and every verbatim body likewise,
nested expressions up to five pieces in bare values and in both kinds of array, with
a `$` that opens nothing up to four, whole numbers of up to five characters,
documents of up to four pieces, and all ways to assign.  Three characters are
enough for a value, what ends it and what follows; each value has a line behind
it, so that a character taken from it shows.

- `ValuesHaveTheirType`: every value on the parser's stack, and that of the
  look-ahead, is of the type its state or kind says.  The union has no tag: the
  code knows it by the state alone (`Parser.h:207`).
- `DepthIsOfThisValue`: the brace counter is above zero exactly while an
  expression is open, so no value hands a depth on to the next.
- `NodesAreTheText`: line and column of every node are where its text begins,
  counted from the beginning of the text, and a raw value is the text behind its
  `=`.
- `TokensAreTheText`, an action property: what the scanner hands to the parser
  runs from some place of the text to the next character to match, both at the
  line and column a count from the beginning gives, and its string is all that
  stands between.  It says of each token what the property before it says of
  the nodes of an accepted document, and so of refused documents too.
- `RoundTrip`: what is rendered is accepted and is the same document, but for
  blank lines at the top and all but the first of several in a row.
- `BracesAgree`: an accepted value has every expression closed, as the brace
  parser counts (`BraceExpr.cpp:43`).  Within an expression the scanner takes a
  `$` together with the character behind it (`Lexer.l:98`).  Where that is a `}`,
  an `x` or a `$` that opens nothing, no harm is done; the one case left out is
  `$${`, where it hides an opening brace: `x=${$${}` is accepted as one closed
  expression, where `README.md:341` has the content tracked by depth and the brace
  parser finds it open.

`FrontendSpec` states no fairness: that both machines end is checked of each on
its own, in `grammar_tokens` and `scanner_tables`.

### Proofs

`Lexer_proofs` proves `BraceDepth`, `Spec => []DepthIsOfThisValue`, for every
set of texts.  What carries it is which rules can be the action of a step in
which condition, one lemma for each kind of rule.

It proves `TokensStand`, `Spec => TokensAreTheText`.  The inductive invariant
`InPlace` says where the scanner stands between two matches: `_line` and `_col`
are those of the next character, what `yymore()` keeps begins where the pending
token does and ends before that character, and what a bare value has gathered is
the text since its first character.  `CountedOn` is the arithmetic: counting on
from one place to another gives what counting from the beginning gives.
`PatternsWithin` says that every pattern matches characters that are there.  One
case is not of this form: within an expression a `$` at the very end of the text
matches no rule and is echoed, so it is missing from what was gathered;
`EchoedIsLast` shows that nothing comes behind it, and the value is never handed
over.

It also proves `TypesKnown`, `Spec => []ValuesHaveTheirType`, for every
set of texts.  The property is not inductive: after a reduction the new state
depends on the one below the right-hand side, which the property says nothing
of.  `WellStacked` adds that every entry lies on a state it can lie on.
`ParserStates` has those pairs of states (`Under`, found once from the tables),
and with them `Down(n, s)`, the states that can be `n` entries below `s`.  From
there a reduction finds its right-hand side above the bottom entry (`StepDown`,
`RightHandSide`) and a state that goes where the left-hand side belongs.  On the
scanner's side the same lemmas as for `BraceDepth` say that a rule's token comes
with a string just when its action builds one.

What the proof takes from the tables themselves, `ShiftAssumption`,
`ReduceAssumption`, `BottomAssumption`, `TokensAssumption` and `PathAssumption`,
has no parameter: each is about the 42 states and 21 tokens of this parser, and
TLC evaluates it in `frontend_texts`.  `TextsAssumption` says of the inputs that
they consist of the characters the rules tell apart, which is how a text is
modelled.  That the symbols of a right-hand side are those the action of its
rule reads is not proved; `grammar_tokens` checks what the actions make of them.

## 9. Values

`Values` is `param<T>` on the fields of an accepted document, as operators:
`bool`, `int`, `unsigned int`, `int64_t`, `size_t`, `double`, `float` and
`string`, their lists and lists of lists, with the quotes, splits and
conversions of `Node.cpp`.  `std::stoll` and `std::stod` are modelled by what
they do with digits, sign, point and exponent; hexadecimal numbers, `inf`,
`nan` and numbers too small for a `double` are not (the characters they need
are not among the texts').  The limits of the types are constants: 110, 11 and
10 in place of 2^63-1, 2^32-1 and 2^31-1.  The numbers of the texts are 1, 11 up
to 11111 and their negatives, so that the greatest `unsigned int` (11), the least
`int` (-11) and the least `int64_t` (-111) are read, and the first numbers beyond
the greatest `int` and `int64_t`; a `float` and a `double` hold every `int64_t`, as
they do in C++, and 1111 and 11111 are beyond them.  The words `true` and `false` are the constants
`True` and `False`, for which the run has one letter each.

- `NumbersAreTheText`: an integer type returns the number whose decimal text
  stands in the document when it can hold it, and throws otherwise.
- `RowsAreTheText`: a list of lists has the words of the text, each in its row
  and place, although scanner, driver and reader each drop or insert blanks.
- `ReadingsAgree`: a field that reads as one number of some type reads as that
  number in the others or is refused there, is a list of that one number and a
  row of it; what is no scalar is no list of one; a verbatim string is none.

They are checked by `frontend_texts`.  Expressions in values are `Braces`'s.

## 10. Scanner and Matching

### State and actions

`Scanner` is `yylex` as flex generated it, one character a step, by the tables
in `ScannerTables` (copied from `Lexer.cpp:700-982`).

| TLA+ | code |
|---|---|
| `yy_ch_buf` | the buffer: the text and two NULs |
| `yy_c_buf_p`, `yytext_ptr`, `yy_hold_char`, `yy_more_*`, `yy_start` | the fields of `yyguts_t` |
| `yy_cp`, `yy_bp`, `yy_current_state`, `yy_last`, `yy_act` | the locals of `yylex` and the last accepting state |
| `StartRun`, `MatchCharacter`, `BackUp` | the top of the loop, `yy_match` with `yy_find_action`, case 0 |
| `BeginAgain`, `AgainCharacter`, `NulRead`, `LastMatch`, `EndOfText` | `YY_END_OF_BUFFER`: the run is gone over again up to a NUL of the text, or up to the end; or there is nothing left |
| `RuleAction` | the action: `BEGIN`, `yymore()`, `yyless(0)` |

`YY_DO_BEFORE_ACTION` writes a NUL into the buffer, in the model too, and
`yy_hold_char` has the character that stood there.

`Matching` is the abstract specification: which rule fires is the longest, then
the first, of `Patterns!Rules`, on the text itself, with no buffer, no table and
no second run.  `MatchesTheRules` is `M!Spec` under the mapping that reads
`pos`, `mode` and `kept` off the scanner's pointers: every step of `Scanner` is
one match of `Matching`, by the same rule with the same yytext, or stutters.
`Lexer` takes one step a match by the same operators, so what is checked of
`Lexer` is checked of what flex generated.

### Checks

`scanner_tables` begins in each start condition (by a text that leads there) and
goes on with every two characters of all classes, and has the keywords cut at
every length, numbers of up to four characters, and runs with NULs: 66 steps
deep, which is every rule, every back-up and every way out of
`YY_END_OF_BUFFER`.

- `TypeOK`: no pointer leaves the buffer.
- `BufferIsText`: while characters are matched the buffer is the text, and while
  an action reads yytext it is the text but for the one character held.
- `MatchesTheRules`: the refinement.
- `ScanEnds`: no run is begun over and over.  Fairness is weak on `Next`, one
  thread.

### Proofs

`Scanner_proofs` proves, for every set of texts, `BufferRestored`,
`Spec => []BufferIsText`, and `PointersStay`, `Spec => []TypeOK`.

The invariant `Inv` has a part for each stage.  While an action
runs, putting `yy_hold_char` back at `yy_c_buf_p` gives the text; the one place
where `yy_c_buf_p` moves without that is the end of the text, where the run is
empty and the character it moves to is a NUL as is the one held
(`EndOfTextKeeps`).  That the scanner cannot be further than that needs bounds
on all pointers, and these need three facts about the automaton: from every
state a NUL leads to the state `End` or nowhere, `End` leads nowhere, and `End`
alone stands for the end of the buffer.

The bounds from below need more, `Forward`, an invariant relative to `Inv`.  The
code does not reset `yy_last_accepting_cpos` when a run begins, so `BackUp` could
return to a place in front of the run, and the length yymore() keeps be negative.
It does not, since from the state of every start condition every character leads
to an accepting state: behind its first character a run has a last accepting
place of its own, or is in an accepting state (`Begun`).

What is used of the automaton is `TablesAssumption`, a statement about constants
that TLC evaluates on the tables in every run.  `MatchesTheRules` compares the
tables with patterns that recurse over the text, and `ScanEnds` is liveness:
both stay with TLC.

## 11. What else was seen

Where code and documentation differ without a run of their own:

- the clone of a Field, a Comment or a Blank lacks the children that `add_child`
  lets it have (`Node.cpp:569`), so that `root.clone()` is a deep copy
  (`README.md:576`) of what it renders and not of all it holds;
- a comment behind a value on the same line is a Comment node, which renders on a
  line of its own (`README.md` lists inline comments as not supported);
- `k = 3${x}` is refused and `k = v${x}` accepted, since a number ends where its
  digits end (`Lexer.l:70`);
- a verbatim string loses what follows a NUL up to the end of the match, since
  the pieces are appended as C strings (`Lexer.l:79-87`);
- a list read from a two-dimensional array keeps the `;` on the word before it;
- `nmhit-format` renders what `parse_file` returns, in which includes are
  spliced in and overrides settled: a file with an `!include` is rewritten with
  the included items in its place.  A file that begins with blank lines changes
  once more when it is formatted again;
- a line or column behind a `pre` snippet counts from the beginning of the
  snippet, since the texts are joined (`Node.cpp:1095-1116`);
- `set_val` stores any string, so that a verbatim field may not read back.

## 12. Not modelled

- `Field::set_val`, `Comment::set_inline`: assignments of a caller's string.
- `TypeRegistry::register_parser`: one look-up and one insertion; the header
  forbids calling it beside a read, and nothing in the library does.
- `parse_double` on hexadecimal numbers, `inf`, `nan` and subnormal ones.
- The buffer stack and refills of the generated scanner: `HIT_scan_bytes` makes
  one buffer with `yy_fill_buffer` 0.  `Lexer.h` and `location.hh` declare what
  other files define; of `Parser.h` the storage of variants and the copies and
  moves of symbols are left out, their types are not.
- Overrides and wrappers within `Frontend`: the tree there is as the text has it.
- Lifetimes of Python handles, which nanobind decides and whose source is not
  here; the rest of the bindings forwards calls one to one.
- The formatter's loop over files, which keeps no state, and the error messages'
  wording.
- Build files, packaging, the C ABI shims.

Not proved: the liveness properties (`CallsReturn`, `CallsEnd`, `ParseReturns`,
`ScanEnds`), for which the prover has no fairness; the refinement of `Matching`
by the scanner's tables; and the other properties of `Grammar`, `Frontend` and
`Values`, which are stated with RECURSIVE operators over trees, texts and
documents.  These stay with TLC.
