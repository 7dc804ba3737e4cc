# MERIX compiler: TLA+ models and proofs

Models of the MERIX compiler as it stands in `compiler/src`, checked with TLC,
and theorems about them, proved with TLAPS. What the models say is read from
the code; the documents under `docs/` and `compiler/` are quoted only where
the code departs from them.

## The system

One process, `compiler -o out a.mrx b.mrx ...`, makes three passes over its
files:

1. `parseInput` reads the command line, or exits with status 1.
2. `lexer::entry` turns every file into tokens. `main` calls it twice, first as
   a warm-up whose result is dropped. The tokens are written to `outLexer.txt`.
3. `syntax::entry` parses every token list; what it builds goes to
   `outSyntax.txt`. No tree is built at this commit, so that file only lists
   the file names, but the code that dumps one is there.

Lexing and parsing are each spread over a pool of threads, a static object
that lives from before `main` until process exit. There is no other
concurrency: files do not depend on each other, and `main` sleeps while a pool
works.

| Component | State | Operations | Module |
|---|---|---|---|
| Worker pools, `header/frontend/lexer.h` and `syntax.h` (same text), with `entry` | mutex, two condition variables, queue, `activeTasks`, `stop` | worker loop, `enqueue`, `waitAll`, destructor | `ThreadPool`, `EntryCalls` |
| Lexer, `code/frontend/lexer.cpp` | position, line, column, number flags, tokens | `threadEntry` | `Lexer` |
| Parser, `code/frontend/syntax.cpp` | shared `pos`, the call stack, each call's `con`, `metaMove` | `ParseScope`, `ParseREG`, `ParseHelperREG`, `ParseHelperCallVREG` | `Parser` |
| Command line, `lib/code/inputParser.cpp` | `curr`, the command | `parseInput` | `CommandLine` |
| Driver, `main.cpp` | phase, exit status, two output streams | `main` | `Pipeline`, `Compilation` |
| AST factory, `createSyntax.h`, `createSyntaxData.h` | none beyond a call's own | `createDataType`, `createVReg`, `createArray` and what they call | `AstFactory` |
| AST dump, `syntaxTree.h` and `main.cpp` | the trees, the calls under way, the lines written | the loop over the files, `dumpTranslationUnit`, `dumpAST` | `AstDump` |
| Register table, node kind names, console output, back end | tables, formatting, empty files | none that changes anything the rest reads | not modelled |

How they interact: `main` calls `parseInput`, then the two `entry` functions,
then dumps each file's tree. `entry` submits one closure per file, which captures `entry`'s parameters by
reference, and blocks in `waitAll`; a worker runs the closure, which is one
whole `Lexer` or `Parser`. A parse that does not end keeps its worker, `waitAll`
and so `main` for ever; one that dies takes the process along.

### What is hard

* The pools: two condition variables on one mutex, a counter that stands for
  the jobs, references to a caller's locals, several calls on one pool, and a
  destructor that races with workers about to block.
* The parser: most cases of its loops consume nothing, so that it repeats them
  for ever; which files end, and where, is not obvious from the code. A
  function without a `return` makes what follows undefined.
* The lexer: three positions carried by hand through nine loops and branches,
  unterminated constructs that step past the end, and a set of word-breaking
  characters that must agree with a switch.
* The driver: what is left of the output when a pass hangs or dies, what the
  exit status says of files that could not be read, and pools that are destroyed
  by `exit(1)` before they have had a job.
* The dump: the tree is told from the text by order and indentation, both
  carried through a recursion by hand, and by names of which only five are known.
* The AST factory: which of several flags wins, and which arguments end in an
  exception or in undefined behaviour.

`PROJECT.json` lists these hazards at their lines with the properties that
watch them.

## Modules

`MC*` modules only hold inputs for TLC and claims of documents to be refuted.
A definition marked *Variant* is not part of the model: it is what the
definition after it would be with a plausible mistake in the code, and is there
to confirm that a property notices it.

### ThreadPool, EntryCalls

`ThreadPool` has the workers and the one caller. A step is what one thread does
between two points where another can run. A worker goes
`idle -> test -> park -> blocked -> idle` while it waits and
`test -> run -> ran -> report -> idle` for a job; `test`, `park` and `report`
hold the mutex. The test of a `cv.wait` predicate (`MustWait`) and the blocking
(`Park`, which releases the mutex and joins the wait set at once, as the
standard has it) are two steps, so that the model would lose a notification if
the code let it. `NotifyOne` wakes any one blocked worker, or none if there is
none; a woken thread has to take the mutex again. Spurious wake-ups are
actions, at most `MaxSpurious` of them. The caller goes through `enqueue`,
`push`, `check`, `park`, `asleep`, `woken` for `Calls` calls and then through
the destructor, or straight to the destructor, as when `parseInput` exits.
`started` and `finished` are history.

`EntryCalls` is what `main` may rely on: files are submitted, entered in that
order with at most `Threads` at a time, finished in any order, and the call
returns once all are. It knows no mutex and no queue. `KeepsPromise` is the
refinement, with `submitted <- settled + i`, `entered <- Len(started)` and
`closed <- mpc = "dead"`. `Pipeline` is built on it.

### Lexer

One action per turn of a loop and per branch of the switch, with `mode` saying
which loop is running. Offsets count from 0 as in the code. Characters are
model strings: one digit, one letter `k` that is also the only keyword, and
each character the code distinguishes. The lexeme of a token is the range of
the source it was copied from. The thirty-odd cases of the symbol switch are
one action, `Symbol`, that takes the longest symbol of a set; the sets hold
exactly the texts the switch tests. At this commit lexer.cpp:96 names
`TOKEN_ARROW`, which no header declares: the model takes it for the kind of the
text `->`. Likewise syntaxTree.cpp:38-40 names enumerators that do not exist;
nothing modelled depends on them.

### Parser

The four functions share `pos` by reference and call each other; the model
keeps their calls on `stack`. A turn of the innermost loop is an action for
each group of cases. A case that ends in `break` without changing `pos` or
`con` makes the same turn again: that is `Spin`, a step that changes nothing.
Token kinds are grouped by what the switches do with them. `ParseHelperREG` ends
without `return`, which is undefined: the model lets the process die
(`HelperRegCrash`) or go on with an empty or a non-empty string
(`HelperRegFallsOff`). Dying with an abort and with a segmentation fault, and
going on, are all outcomes of the two build modes of the Makefile.

`EndsAt` and `MayCrash`, `MayCrashInOperand` are the reference: they say from
the tokens alone, without running anything, where a parse may end and when it
may kill the process.

### CommandLine

One argument a step. Arguments are one or two representatives of every class
the code tells apart: `a.mrx`, `-c.mrx` (an input that begins with a dash),
`p.mrxproj`, `-p.mrxproj` (a project that begins with a dash: passed over in first
place, warned about anywhere else), a plain word, two numbers, each flag in one
spelling, two unknown flags. Without arguments the code looks at the null pointer
that ends `argv`, for which `endsWith` answers no: `Init` takes over the answer, the
pointer is not modelled.

### Pipeline, Compilation

`main` over two instances of `EntryCalls`. `Accept` and `Reject` are the two ends
of `parseInput`; a rejected line goes on with the destruction of two pools that
have had no job. Each file has a `fate`, chosen at the start: its parse ends,
spins, or kills the process, the three outcomes of `Parser`. When a file is lexed
it may turn out that it cannot be opened or mapped (`FileLexed` may add it to
`unread`): that is printed, its token list stays empty, and the parse of that
ends, whence `Fate(k)`. The output files go from absent to buffered, when `main`
has written them to a stream, to complete, when `main` returns and the streams
are closed. `status` is the exit status. `Over` and `Hung` stutter in the states
where the process is gone or every thread that could act is spinning or asleep,
so that TLC reports any other dead end.

`Compilation` is the same run as the shell sees it, without pools: each file is
read once, then each is parsed once, in any order, and the two files and the
exit status follow from that alone. `Compiles` says that `Pipeline` implements
it (`Whole`): `lexed <- {k : k + Files \in lexFinished}` leaves out the files of the
first of the two calls of the lexer, whose tokens `main` throws away, and the
queues, the destruction of the pools and the number of threads are gone. It
states safety only; what the pools do to progress is `BehindSpinningUnread`.

### AstFactory

One behaviour is one call; the recursion of `createDataType` and the turns of
the loops are the steps. `rest` is the copy of the argument that `createDataType`
hands down with a flag cleared, `made` the nodes: for a data type each is the child
of the one before it, else the parameters of a `VRegType` or the elements of an
`InitializerListExpr`. `std::stoll` is modelled by what it does: it skips blanks,
takes a sign, reads the digits that follow and ignores what is behind them, and
throws when there are none or their number is no long long. A numeral is whether
a number is spelt and which (`Numerals`); `MaxLong` is 2^63 - 1 scaled down, and the
number next to the range on either side stands for all beyond it. The length of
an array is an `int`, a width or an integer a long long, and all are stored as
`uint64_t` (`uint64`): a negative one comes out above every number there is. The
value of a `FloatLiteral` is a double and keeps its sign; its rounding is left out.
`createLit` without a matching case has no `return`, and
`createCallArray` reads `para[0]` of a list that may be empty: both are choices, as
in `Parser`. Nothing calls the factory yet, so any argument is possible
(`CallsAssumption`); `Wrappers`, `IsBase`, `IsLiteral` and `Read` say from the argument
alone what is made of it, the numbers as the declared ones or, if those are
negative, as greater than `MaxLong` (`Unsigned`), without the conversion.

### AstDump

`Fields` and `Holds` are the node types of `syntaxTree.h`: which fields of each
point to nodes, and to which. A node is named by its path from the root, so that a
tree is a function from paths to kinds (`IsTree`), and a null pointer is a path
that is not there. One step is one turn of the loop over the files or one call of
`dumpAST`; `pending` holds the calls that are still to be made, the innermost
first, which is the order in which the recursion makes them. `out` holds the lines
with the node each is of; the text shows indentation, name and which detail was
printed, not the node. `dumpAST` goes on to initializers and operands only, and
names five kinds: main.cpp:18 tests for `MAGIC_ENUM_HPP`, but magic_enum.hpp defines
`NEARGYE_MAGIC_ENUM_HPP`, so that the names of the fallback are all there is.
Nothing fills `Syntax::tree` at this commit: the inputs are the trees the types
allow.

## Runs

| Run | Bounds | Shows |
|---|---|---|
| `pool` | 3 workers, no call or 2 calls of 3 files, 2 spurious wake-ups | the invariants of the pool; that it implements `EntryCalls`, with its fairness too, so that the process gets through the destructor |
| `parser` | every sequence of up to 4 tokens, and of up to 6 tokens of the kinds that open and close blocks and operands | `OutcomeExact`, `SecondOperandUnread`, `WorkBounded`, `CleanFilesEnd` |
| `parser_documented_moves` | the two moves | refutes the documentation, see below |
| `lexer` | every text of up to 6 characters of each of three alphabets | lexemes, positions, nothing dropped, no endless loop |
| `lexer_left_arrow`, `lexer_word_end` | texts of up to 4 characters | refute the symbol table and the documentation |
| `command_line` | every line of up to 4 arguments | acceptance and contents, against a definition on the whole line |
| `command_line_project` | the same | refutes a message of the program |
| `pipeline` | 2 threads, 4 files of any fates, readable or not; accepted or rejected | order of the phases, what the exit status says, starvation; that it implements `Compilation` |
| `pipeline_reported_file` | 2 threads, 2 files | refutes a message of the program |
| `ast_factory` | every data type over three bases, lengths -1 to 1; lists of up to 3 parameters; `MaxLong` 1 | the tree made of each argument, which arguments throw or kill, how many steps a call takes |
| `ast_dump` | every kind of node with all its fields as a declaration, an initializer and an operand; operations of operations; null pointers; one or two files | which nodes are dumped and in which order, what the text still tells of the tree |

Why the bounds are enough. *Pool*: three workers on three files have one
blocked, one running and one between the two at the same time; two calls show
what one leaves to the next; the safety results do not rest on the bounds, being
proved. *Parser*: four tokens hold a move that is
ended by a semicolon, and another construct beside it; six of the second
kind hold a move with one operand and the beginning of the next inside two
blocks; longer files only repeat kinds that are skipped.
*Lexer*: the longest fixed construct is a three-character symbol or a
four-character literal, so that six characters hold one, cut off or not, next
to another token; the three alphabets separate groups of branches that
share no state but `pos`, `line` and `col`. *Command line*: four arguments hold
a project, an `-o` with its operand and a further flag or input; lines with more in
them (two accepted `-mT` beside an `-o` and an input) are covered by the proofs only. *Pipeline*: four
files on two threads have two spinning, two behind them. *AST factory*: all
combinations of the flags, numerals of both signs, within, at and past the limits,
and none at all, and lists
with something after each kind of failure. *AST dump*: two levels of operations
have a node after a deeper one on its left, a null pointer before and after one
that is not, and three declarations one between two others; what the
text is and what it tells are proved for every tree.

Fairness. The threads are scheduled by the operating system: in `ThreadPool`
each thread is weakly fair, and nothing is assumed of spurious wake-ups, of
which waiter `notify_one` picks or of who gets a contended mutex (a thread
that wants the mutex competes for it finitely often, for the jobs are finite).
`KeepsPromiseFairly` ends in the closed pool, since `Close` and nothing else is
left when all calls have returned.
In `Parser` the one thread is scheduled; `Spin` counts as being scheduled, so a
spinning parse does not end. In `Pipeline` some step that can be made is made.
`GoodRunsExit` and `OthersParsed` are stated for the fates that justify them.

What the properties say of the code as it is:

* The pool is right: no lost wake-up, no lost or repeated job, no dangling
  capture, no deadlock at exit.
* A parse that ends has read the file up to the first `}` that is not inside an
  operand, whatever blocks were open (`OutcomeExact`): the rest is silently
  unread. Any statement, identifier, or complete operand makes it spin.
* A move's second operand is never read, whatever the input
  (`SecondOperandUnread`).
* As many spinning files as there are threads starve those behind them
  (`BehindSpinningUnread`); fewer do not (`OthersParsed`), but the process does
  not exit either (`ExitMeansParsed`).
* Exit status 1 means that no file was touched. Status 0 means that every parse
  has ended and the reported files are complete, but not that every file was
  read: one that could not be counts as parsed (`ExitMeansParsed`).
* A data type is always a pointer to a reference to an array of its base
  (`TypeTree`): the array of pointers of `merix_language.md:399` cannot be said. A
  `mem<>*` (`merix_language.md:66`) comes out as `mem<>`. The value of a float
  literal is its whole part, and one that begins with its point, like a `mem<16>`
  whose fraction was left empty, throws (`EndsForAReason`); an escaped character is
  a backslash (`ListInOrder`). A negative array length becomes a size no length can
  declare (`TypeTree`).
* The lexer drops nothing but blanks and comments, and always ends. Lines lag
  behind when a newline hides in a word, a character literal or an escape
  (`LinesCounted` gives the files for which they are exact); columns are exact
  on the first line, of the first character for some tokens and after the last
  for others (`FirstLineColumns`).
* The dump has a section for each file, in their order, with each node that is
  reached once (`SectionsExact`): function bodies, types, parameters, conditions,
  arguments and the operand of a unary operation are never reached. Indentation
  tells what a node is below (`IndentTellsParent`). All kinds but five are called
  `Unknown`; a binary operation is, but can be told by its operator
  (`TextTellsKind`).

Disagreements with a document, a table or a message of the repository, each
shown by a run that ends in a counterexample: documented moves never parse
(`parser_documented_moves`); `<-` is lexed as two symbols (`lexer_left_arrow`);
a word runs on over a newline or a `?` (`lexer_word_end`); a `.mrxproj` is asked
for and then not accepted (`command_line_project`); `outLexer.txt` is reported as
written and then lost with the process (`pipeline_reported_file`). The compiler
reference is headed as planned; the moves it describes are what `ParseREG` was
begun for.

## Proofs

### ThreadPoolProofs

For any finite non-empty set of workers, any number of
files, calls and spurious wake-ups (`ConstantAssumption`):

* `Invariance`: `Spec => []IndInv`, and from it `TypeCorrect`, `CountCorrect`,
  `WakeupCorrect`, `ReturnCorrect`, `OrderCorrect`, `CaptureCorrect`.
* `Implements`: `Spec => KeepsPromise`, the refinement of `EntryCalls`.

The safety properties are not inductive by themselves. `ReturnedMeansFinished`
needs that `activeTasks = 0` means no job is queued or in a worker's hands
(`CountExact`) and that every job entered and not finished is in the hands of
a worker (`JobInv`). `CountExact` needs the types and, when the caller returns,
that it alone holds the mutex (`LockInv`). `NoLostWakeup` needs that a predicate
found false is still false when its thread blocks (`ParkInv`), which holds
because nobody else can have the mutex in between. `FirstInFirstOut` is kept
element by element (`QueueInv`). `CallInv` ties the caller's place to its
counters. `IndInv` is the conjunction. It is proved part by part: `TypeStep`, `ControlStep`
(lock, caller, park and wake-up), `QueueStep`, `JobStep`, `CountStep`, each
one step per action that can disturb it. `CaptureCorrect` follows from `JobInv`
and `CallInv`: out of a call the pool is idle. For the refinement, `FreeThread`
shows by a counting argument that a worker which takes a job is not among those that run
one, so that fewer than `Threads` jobs are running; `StepImplements` maps each
action to a step of the contract or a stutter.

### ParserProofs

For any set of token sequences, of any length (`InputsAssumption`):

* `Invariance`, and from it `TypeCorrect`, `OperandUnread` and `OutcomeCorrect`:
  where a parse ends, and after what it may die, is what `EndsAt`, `MayCrash` and
  `MayCrashInOperand` read off the tokens.
* `WorkCorrect`: `Spec => WorkBounded`, a parse makes at most 3n + 4 turns
  before it ends or spins.

`IndInv` has three parts that are not properties of their own. `CallsNest`: the
stack is blocks, then at most one `ParseREG`, then at most one helper, so that a
return is always to the function that called. `OperandOnce`: a helper runs only
while no operand is recorded, and what it leaves its caller at is the end of the
file or a `>`, where `ParseREG` can call nothing; `SecondOperandUnread` follows.
`ReadSoFar` says of each function what the tokens before `pos` are, in the words
of `EndsAt`: `Clean` in a block, `InMove` or `InOperand` below it, or that the end
of the file has been met, which each return hands on to the caller. It is kept
by lemmas about the tokens alone (`CleanToken`, `CleanMove`) and yields the
outcome by others (`CutOffEnds`, `CutOffInEnds`, `OperandMayCrash`). `BudgetStep`
needs the types only: no turn passes the end of the tokens, a token is worth more
than the call it begins, and a call more than the loop flag its return restores.

### PipelineProofs

For any positive number of threads and files (`PipelineAssumption`):
`Invariance`, and from it `TypeCorrect`, `TokensCorrect`, `ExitCorrect`,
`StarvationCorrect` and `Implements`, that the run is one of `Compilation`.

`IndInv` adds four parts to `TypeOK` and `BehindSpinningUnread`. `LexProgress`
and `SynProgress` say how far each pool has got with the files of its calls;
`PhaseInv` ties that to the place where `main` is; `StatusInv` says what the exit
status and the two streams are there. `TokensSettled` and `ExitMeansParsed`
are read off them. `StarvationStep` is a counting argument: a file is entered
only while fewer than `Threads` parses run, and each spinning one before it
runs for ever.

`Implements` goes by the steps of `Next` (`StepImplements`): a file lexed in the
first call is a stutter, one of the second is a file not yet read
(`FileLexedImplements`); `main` passes from one phase to the next only when the
pool has finished the files of its calls, which `LexProgress` and `SynProgress`
say (`TokensImplement`); a parse that finishes is one that ends
(`ParsingImplements`).

### LexerProofs

For any set of texts (`SourcesAssumption`), so any text: `Invariance`, and from
it `TypeCorrect`, `DroppedCorrect`, `StringsCorrect`, `NumbersCorrect`,
`LinesCorrect`, `ColumnsCorrect`, `PositionsCorrect`; and `WorkCorrect`, that a text
of n characters takes at most 3n + 9 steps.

`IndInv` has three parts. `ReadSoFar` describes the lexeme being read: where `pos`
may be in each loop (`InPlace`), that what has been taken of a word, a number or a
string could be of one (`WordSoFar`, `NumberSoFar`, `StringSoFar`), and how far `line`
and `col` are right (`PositionSoFar`). Whether a character of a string is escaped is
the parity of the backslashes before it, for which `Unescaped` has lemmas
(`EvenNotOdd`, `OneMoreBackslash`, `TwoMore`, `NoBackslash`). `TokensSoFar` says that each
token pushed is right and was reported at or before the position reached.
`ExtentsSoFar` divides what has been read into tokens, blanks and comments that do
not meet, up to the `Frontier`, before which all is settled. What a step may push is
stated once (`Follows`) and shown for each kind of token; the three parts are kept
by `PositionStep`, `TokensStep`, `ExtentsStep`. `BudgetStep` gives each loop a
share of a budget that consumed characters pay for.

### CommandLineProofs

For command lines of any length: `TypeCorrect`, `AcceptedCorrect`,
`ContentsCorrect` and `WarningsCorrect`.

`SoFar` says that what has been seen is what stands before `curr`, with each `-o`
and `-mT` there followed by its operand; at the end of the line all of it stands
before `curr`. `ContentsSoFar` is the same of the contents of the command: the
list of inputs is the inputs before `curr` in their order, each operand that
of the last of its flags. An argument that is read is after all others, so that
appending it keeps a list in order (`ListsOneMore`) and makes it the last of its
class (`LastAdded`). A project in first place is before `curr` from the beginning
(`ProjectPassed`), so that nothing that is warned about is in first place and a
project (`PassedStep`).

### AstFactoryProofs

For any `MaxLong` and any calls (`LongAssumption`, `CallsAssumption`):
`Invariance`, and from it `TreeCorrect`, `ListCorrect`, `EndCorrect` and
`WorkCorrect`; and `TypeCorrect`.

While a data type is built, the nodes made are those of the flags that have been
cleared, in the order of `Wrappers` (`DataSoFar`, with `Cleared` for each flag):
`WrapStep` clears one, and when none is left the nodes are all the wrappers
(`WrappersMade`), so that the base completes the tree (`BaseStep`). Of a list,
the nodes made are those of the parameters before `i`, and all of those could be
read (`ListSoFar`); `VRegEnds` and `ArrayEnds` say where it stops. What is stored of a
number is said without the conversion, and `StoredUnsigned` is the arithmetic that
shows it of the code's `% 2^64`: `IntegerMade`, `LiteralMade` and `BaseMade` carry it to
the nodes.

`Left` counts the flags still set, or the parameters from `i` on, and one for the
end: it is a number as long as the invariant holds (`LeftIsNumber`), and each
step makes it less (`OneFlagLess`, `WorkStep`), so that no call recurses or loops
without end; that one always gets to `done`, `thrown` or `dead` is TLC's check for
deadlocks.

### AstDumpProofs

For any number of files and trees of any finite size (`InputsAssumption`):
`Invariance`, and from it `IndentCorrect` and `TextCorrect`.

A node's parent is found from the text by going back to the nearest line with one
indentation less, but nothing of that kind holds of `out` alone as it grows.
What makes it inductive is about the calls to come (`PendingSoFar`): the deepest
are first, and of each the parent has been written and is the last line at its
indentation. Writing a node's line (`NodeStep`) replaces the last line at its own
indentation only, and all calls left are at that indentation or less.

### AstDumpSectionProofs

For the same inputs: `OrderInvariance` and from it `SectionsCorrect`, that
`outSyntax.txt` is one section for each file.

What is written of a file says nothing of what its section will be; that takes the
calls to come. `OpenSection`: all that is dumped (`Dumped`) is written or below a
call to come, and all that is written is before all calls to come. `PendingApart`:
the calls to come go from left to right, and are for what may be dumped. When no call
is left, the section is complete (`EndOrder`).

The step of a node (`NodeOrder`) rests on facts about trees and their orders alone.
Paths are compared element by element (`PrefixIs`, `LeftIs`); what is left of a node
is left of what is below it (`LeftBelow`, `EarlierBelow`). A tree has what is above
its nodes (`AboveInTree`, by a least counterexample, since the provers cannot use an
induction theorem). Everything dumped is below a declaration (`BelowDeclaration`),
and what is dumped below a node is below one of the calls that the node's own call
makes (`NextBelow`, `CallsBelow`): this is where the fields that `dumpAST` follows
must be all the fields called `initializer`, `left` or `right` (`FollowedAll`). Below
a null pointer there is nothing (`NullBelow`).

### Model-checked only

Liveness (`KeepsPromiseFairly`, `CleanFilesEnd`, `OthersParsed`,
`GoodRunsExit`), which rests on fairness and `ENABLED`, out of this prover's
reach. All invariants, action properties and refinements (but for
`KeepsPromiseFairly`) of the runs are proved.

## Not modelled

* Semantic analysis, intermediate code, back end: empty files.
* `magic_enum`: third party. `output.h`: formatting under an innermost mutex.
* `contextTokens.h`: a table whose lookups have no effect.
* `nodeKindToString` of syntaxTree.cpp: nothing calls it, and it names enumerators
  that do not exist. `ASTVisitor`: empty methods without an heir.
* Thread ids, benchmark times, wording.
* `maxThreads`: parsed into the command (`CommandLine`) and then not used by
  anything; the pools are built before `main` with their own number of threads.

## Plan

1. Done: `ThreadPool` with `EntryCalls`, `Parser`, `Lexer`, `CommandLine`,
   `Pipeline` over `EntryCalls` with both ends of `parseInput` and unreadable
   files, `AstFactory`, `AstDump`, and proofs about each of them.
2. When the parser begins to build trees and to call the factory: `AstDump` and
   `AstFactory` on what `Parser` makes in place of all the types allow.
