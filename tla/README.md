# A verification project for `tabulate`

`tabulate` reads files of tab-separated rows, evaluates the expressions in their
cells and prints the tables. This directory holds TLA+ modules of the program,
the TLC configurations that check them on small instances, and proofs that TLAPS
checks for every instance. Paths below are relative to the repository; `main.c`,
`mem.c`, `mem.h`, `util.c` are in `src/`.

## 1. The system

One thread, no signals, no network. What is hard about it is not concurrency but
*recursion over shared mutable state*: evaluating a cell evaluates the cells it
refers to, in this or another file, changes them in place, may load files in the
middle, and may come back to the cell it started from. The rest is text that has to
mean one thing (lines, cells, commands, expressions), formats that are inherited on
several ways, and three structures that grow while others hold pointers into them.

| component | state | operations | interacts with |
|---|---|---|---|
| **Evaluator** (`main`, `EvaluateDocument`, `EvaluateCell`, `EvaluateIntoNode`, `ReduceNode`) | `Type`, value and `State` of each cell; the C stack | take an argument, evaluate a cell, reduce a node, walk a range, print | asks the cache for documents, the parser for trees, the table for cells |
| **Document cache** (`MakeDocument` down to the open file, `FindExistingDoc`, `AllocAndLogDoc`) | array of documents by device and inode; open descriptors | find, open, append with growth | asked by `main` and by foreign references; the file system changes meanwhile |
| **Table** (`ReserveDocumentSpace`, `ReserveCell`, `ReserveColumn`, `GetCell`, `CellExists`) | `Cols`, `Rows` used; a flat array of `Table.Cols * Table.Rows` cells | reserve (grows to powers of two), get | filled by the loader, read by evaluator and printer |
| **Loader** (`MakeDocument`'s line loop) | row number, format row, body and foot bounds, macros, summary | one step per line, cell and word; `sep`, `fmt`, `prcsn`, `summary`, `define` | reads lines, reserves cells, parses macros |
| **Line reader** (`ReadLine`, `NextCell`, `NextCmdWord`) | a buffer of 1024 bytes, two of 512 | read one line, one cell, one word | called by the loader |
| **Expression lexer and parser** (`NextExprToken`, `ParseExpr`) | cursor, held tokens | `ParseSum` ... `ParseTerm`, `ParseRange`, `ParseXeno` | called for a cell when it is evaluated, for a macro when it is defined |
| **Printer** (`PrintDocument`, `MergeHeader`) | cell formats | merge formats, align and print | runs after `EvaluateDocument` |
| **Arena** (`Reserve`, `NewPage`, `Wipe`, `ReleaseAllMem`) | lists of pages, one per category | reserve, release | nodes and strings live there |
| **Numbers** (`NextPow2_*`, `Str2f64`) | none | pure functions | table, cache, loader |

What makes each correct:

* Evaluator: a cell is computed once, from final cells; circular references end
  in errors and never in a second entry; errors reach the cell; every argument is
  printed; nothing printed changes later; no assertion fails.
* Cache: one document per file, whoever asks for it, when, and whatever else goes
  wrong; no descriptor is lost on the way out of a failing step.
* Table: growth keeps every used cell, in its place; the used area is inside the
  allocated one.
* Loader: body and foot bounds delimit what the blank lines delimit; a command
  changes what it names and nothing else.
* Printer: what a row prints is what the commands before and after it ask for.
* Arena: no two blocks overlap, no page is lost, a page is made only when none has room.
* Reader and parser: the text has one meaning and this is the one that is read; input
  at the limit of a buffer or of a grammar rule is cut or refused.

`PROJECT.json` lists all of these with their status, and the hazards line by line.

## 2. Modules

| module | what it is |
|---|---|
| `Expr` | nodes, cells, the table of functions and the pure helpers: `AbsoluteDim`, `CanonicalCol/Row`, `Clamp`, `AccumulateMathOp`, `SetAsNodeFrom`, `SetCellFromNode`, `CellsEq` |
| `Sheets` | the documents as constants: dimensions, bounds, macros, expressions; what a reference in a cell stands for |
| `Evaluator` | the state machine of the evaluator, one action per step of the code |
| `Dataflow` | the abstract specification: cells take the value they denote, in any order |
| `Denotation` | what an expression denotes, told from the cells alone: its value, or the pending cell it needs |
| `EvaluatorProps` | what a printed sheet tells its reader of references that go wrong |
| `EvaluatorRefinement` | `Evaluator` implements `Dataflow` |
| `EvaluatorClaims` | what comments and assertions of the source say and the code does not keep |
| `MCEvaluator` | the instances for TLC |
| `EvaluatorProofs` | lemmas about the operators; the inductive invariants of `Evaluator`; theorems about its calls, what is printed, errors and circles, and the depth of the recursion |
| `DataflowProofs` | the theorem that `Evaluator` implements `Dataflow` |
| `Pow2` | `NextPow2_u8` to `_u64` by their bit operations |
| `Table` | the table as a record and its operations; no variables, so that `Loader` and `Printer` share it |
| `Loader` | extends `Table`: the line loop, one action per kind of line, cell, command word |
| `Printer` | extends `Loader`: evaluation (by what it leaves), completion of the formats, printing, a second time if the file is named twice |
| `Grid` | abstract: what a document is to its readers, a cell at every place; no table, no growth |
| `SheetMeaning` | what the lines of a file mean, told from the lines alone; the properties of `Loader` and `Printer`; they implement `Grid` |
| `DocCache` | `MakeDocument`'s system calls, the cache, the files as an environment |
| `DocStore` | abstract: a store of one document per key |
| `DocCacheProps` | the properties of `DocCache`; it implements `DocStore` |
| `Arena` | the pages of `mem.c` and their properties; it implements `Heap` |
| `Heap` | abstract: blocks that no one else holds |
| `Reader` | `ReadLine`, `NextCell`, `NextCmdWord`, character by character |
| `ReaderMeaning` | what lines, cells and words a text has; the properties of `Reader` |
| `ExprParser` | the recursive descent parser, a pure function of the words of an expression |
| `ExprMeaning` | the grammar as a set of texts, the tree by the operators that bind least; the properties of `ExprParser` |
| `MCSheet`, `MCDocCache`, `MCArena`, `MCReader`, `MCParser` | the instances for TLC |
| `NumberLemmas` | the least number of a set, the quotient and remainder of an index |
| `DocCacheProofs`, `ArenaProofs` | the inductive invariants of `DocCache` and `Arena`, their theorems, their refinements |
| `LoaderProofs` | the table as a function of places; the inductive invariants of the line loop and its theorems |
| `PrinterProofs` | theorems about what is printed of a loaded document |
| `ReaderProofs` | the inductive invariants of `ReadLine` and of the lexers of a line, and their theorems |

The chain `Table` - `Loader` - `Printer` is one state machine, from an empty document to
the printed rows. `Evaluator` is another: it begins with what the loader leaves in the
cells. They meet in `Sheets` (the shape of a document, which `SheetMeaning!TypeOK` shows
the loader keeps) and in `Printer!Evaluate` (no expression is left, which
`OutputFinal` shows of the evaluator). `Reader` gives the lines `Loader` takes,
`ExprParser` the trees that `Evaluator` reduces.

### How the Evaluator corresponds to the code

* `cell`, `state`: the cells of all documents and their `State`. Cells are
  addressed by document, column and row, for the *allocated* table, which is
  larger than the used area; the loops over ranges depend on the difference.
* `loaded`: the documents in the cache. `files` is what parsing a file yields;
  `MakeDocument` copies it into `cell` when the document is not loaded yet.
* `args`, `scan`, `output`: `main`'s arguments left, the cells
  `EvaluateDocument` has left, and what has been printed.
* `calls`: the C stack. Each open `EvaluateCell` call has the `ReduceNode` work it
  has open: the operands of a sum or product left, the arguments of a function
  left, the cell a reference waits for, the place in a range or in `mask_sum`'s
  body rows.
* `ctl`: what the program does next - a call of `ReduceNode` (`REDUCE`), its
  return (`VALUE`), a call of `EvaluateCell` (`EVALUATE`), its return
  (`RETURNED`), a function with its arguments reduced (`APPLY`), a turn of a loop
  (`LOOP`), the loops of `main` and `EvaluateDocument` (`MAIN`, `SCAN`), `EXIT`,
  or a failed assertion (`ABORT`).

An action is the code from one such point to the next; nothing else runs in
between, so the granularity hides no behaviour. `EN_SUM` and `EN_PROD` are the
same code and one kind of node here; so are the five functions that fold the
numbers of their ranges (`Accumulate`). The build is the default one of the
Makefile: `Assert`, `Check*` and `unreachable()` stop the program, signed
overflow wraps after a report (`WrapAdd`).

Abstractions of data: a double is an integer or `NaN`; infinities, and numbers an
instance does not represent, are `NaN`. Quotients and libm functions are the
constant operator `Scalar`, the text of `pcent` is `Percent`. Strings are members of
a set. The cell formats are left out: `round/1` and `trunc/1`, which read the
precision, are `Scalar` too. A cell keeps the tree of its expression, or
`Unparsable`, instead of a text, since `ParseExpr` reads nothing but the text.
`bodycol/1` reads the bytes of a range as a double: `ReadAsNumber` says what number
that is.

### How the other modules correspond to the code

* `Table`: `cells` is the flat array, indexed as `GetCellIdx` does; `Grown` is the two
  allocations and the loops that copy. A pointer that `ReserveCell` or `GetCell` returns
  is used at once (`PutCell`), never across a growth; the code keeps to that.
* `Loader`: `lines` keeps the lines read, for the properties; `pos` is `ColIdx` of a row and
  `ArgPos` of a command, `state` the command, `rowIdx` and `fmtRowIdx` the code's. A step is
  one turn of a loop, with the switch on what it found. A word carries what each scanner
  makes of it (alignment, width, precision, reference); `DefineWord` takes any outcome of
  `ParseExpr`. A `u8` wraps (`% 256`).
* `Printer`: `printed` has, for each cell, the fields that `printf` is given. `before` keeps
  the first printing while the document is printed again.
* `DocCache`: `Stat`, `OpenDir`, `OpenFile`, `AllocAndLogDoc`, `Load` are the steps between
  two system calls; each may fail. `Replace` is anyone else who renames, removes or
  creates files between them. `raced` is a history variable: the keys of calls whose path
  was replaced between `fstatat` and `openat`.
* `Arena`: `pages[c]` is the list `Category[c]`; a page is its number and what is used of it.
  `held` is a history variable: the blocks that were given.
* `Reader`: a file and a buffer are sequences of characters; a place past the end of a
  buffer is its NUL. A loop over characters is the place it stops at (`Find`).
* `ExprParser`: `Next`, `UngetExprToken` and `Peek` are functions of the lexer, as are the
  parsers of it, which return a node and the lexer. The three pairs of `ParseX` and
  `ParseXCont` have the same code but for the operand and the operators: `ParseChain` and
  `ParseCont`. They call each other through `Parser`, a recursive function of the rule and the
  lexer. `MatchFunc` begins at the second entry of the table, as it does in the code,
  where `abs` is the first.

## 3. What is checked

| run | instance | properties |
|---|---|---|
| `eval_core` | document A with 3 rows (head, body, foot with the summary), B with one; each cell of A is a number, the empty string, a reference to any of the three rows, a sum, `sum` over the column or over the body, a macro, or a reference into B; B refers back to A's summary or is a number; A is printed before B with a missing file between them, or B before A | below |
| `eval_edges` | the same shapes; the foot cell is each of about 39 expressions, one or more for every other case of `ReduceNode`, the head cells numbers, strings, an unparsable cell, errors, a negation; the cases that stop the program are in it | `TypeOK`, `ReadsFinal`, `WrongRefsAreErrors`, `ImplementsDataflow` |
| `claim_existing` | 16 rows that fill the table of 16 a document starts with, no foot, a `sum(bodycol)` | `OnlyExisting` is violated |
| `claim_col` | a cell with `col` | `ColHasArgument` is violated |
| `claim_relative` | a reference to the row above the first | `RelativeIsError` is violated |
| `claim_sub` | a chain of references to an unparsable cell | `SubIsReferencedError` is violated |
| `sheet` | every sequence of up to 4 of 13 lines (blank, comment, rows of one and two cells, each command with its odd words), a table that starts at 1 by 1 | below |
| `cache` | 2 names, 4 files (two with one inode), a cache that starts at 1, 3 descriptors | below |
| `arena` | up to 7 blocks of 5 sizes of strings and 3 of nodes, pages of 64 bytes | below |
| `reader` | every file of up to 6 of 9 characters; line buffer 8, cell buffer 3 | below |
| `parser` | every text of up to 5 of 15 words; about 28,000 longer ones | below |
| `claim_line` | as `reader` | `LineFits` is violated |

What the properties of `eval_core` show:

* `CallsInv`: no cell is entered twice; the flag `EVALUATING` is set exactly while a
  call is open, on every way out; an open cell keeps its expression.
* `ReadsFinal`: after `EvaluateCell` returns success the cell its caller reads is
  final - `SetAsNodeFrom` traps on an expression - and a reported cycle is a real one.
* `OutputFinal`, `FinalStable`: what is printed has no expression left and stays true;
  a final cell never changes, a second reference to a file does not parse it again.
* `OnlyLoaded`: a document is loaded on demand, once, before anything of it is used.
* `ErrorsPropagate`, `CyclesAreErrors`: a printed cell that reads an error, an empty
  cell or one outside of the table is an error; so is every cell of a circle of plain
  references, and every cell that leads into one, wherever it was entered and through
  however many files it goes.
* `NoAbort`: on shapes whose table is larger than its rows no assertion fails.
* `EndsWithOutput`: the program ends and every argument that is a file is printed.
* `ImplementsDataflow`: refinement. `Dataflow` has one action: a pending cell is
  replaced by a value that its expression denotes where the cells are what they are. What
  it denotes is in `Denotation`, one case per kind of node, with no stack, no flag and no
  order: an outcome is a value, computed from final cells, or the pending cell that the
  value needs; while one is needed there is no value. The refinement mapping
  (`SheetCells`) lets a document not yet loaded have the cells of its file: loading,
  in whatever order, changes no value. The abstract specification names the one
  exception: a pending cell that itself needs its reader, directly or through others
  (`LeadsTo`), may be read, as an error by a plain reference and as no number by a loop,
  so in a circular sheet a `sum` may depend on where the circle was entered. `Denotation`
  reuses the pure helpers of `Expr`: those are shared, what is compared is the control. In
  particular both take the row of a reference from `CanonicalRow`, its addition in two's
  complement included, so that a slip there would not show in the refinement.

`eval_edges` checks `WrongRefsAreErrors`, which is `ErrorsPropagate` and `MissingFootIsError`: a
reference into the foot of a document that has
none is an error and never a cell. `FirstFootRow` is `INT32_MAX` then and the sum overflows
from `$1` on; the property is told from the reference and the lack of a foot alone. It says
nothing of the corner of a range, which the loops clamp to the first row.

`sheet`, from the lines of the file to the printed rows:

* `TextKept`, `RoomIsLeast`, `ImplementsGrid`: however the table grew, by rows, by columns, by
  a command that names a column or a row before it is there, every cell read is at its
  place and every other is blank; the room is never more than the next power of two;
  for a reader of the document growth does not happen.
* `SectionsAsMeant`: body and foot begin where the blank lines say, in this order - also
  where the first line is blank and row 0 is taken for "none".
* `PrintedAsMeant`, `PointsAligned`: a cell's precision is told from the lines alone (its own
  `prcsn`, else that of the row it inherits from, else of the top row, else `fmt`, else the
  default) and must be what `MergeHeader` arrived at on its three ways; so must width,
  separator, alignment and line. The decimal points of a column are below each other.
* `SecondTheSame`: a document that is named twice is printed the same twice, though the first
  time changed its cells and formats.
* `StopsAsMeant`: the program stops only where the file has one of four faults; the
  assertions of the table and of the format row never fail.

`cache`:

* `FiledRight`: a document is kept under another file's inode only if its path was replaced
  between `fstatat` and `openat`. `SlotsKept`: growth moves no document.
* `NoLeak`: the open descriptors are the directories of the documents and those of the call
  that runs, on every way out. `CallsReturn`: every call returns, at the limit as well.
* `ImplementsStore`: a file that is known gives its document, whatever fails.

`arena`: `BlocksFit`, `NeverStops`, `ImplementsHeap` - blocks are in their page, aligned,
and apart; `NewPageIfFull` - the order of the list is what makes it enough to try the
page in front; `TypeOK` - no page is lost while it is moved.

`reader`: `LinesAsMeant` and `ItemsAsMeant` compare what is read with definitions that do not
read in order (newlines, tabs outside of quotes, maximal runs of black characters). NULs,
quotes that are not closed, empty cells, lines without a newline are all among the files.

`parser`: `AcceptsAsMeant` - the grammar comment at `main.c:740`, as a set of texts, with the
strings that `ParseTerm` takes as well, and with the tokens of `main.c:1003` alone to begin an
argument without parentheses: `sum "x"` is not of it and is not accepted;
`TreeAsMeant` - the tree of an accepted text is the one its operators' precedence gives;
`StopsAsMeant` - the parser stops the program only after an operator without its
operand, or a call it cannot parse, and never because two tokens are held.

Each property has a mutant in `PROJECT.json`, a plausible slip of the code under
which TLC finds it violated; the slips stand beside the definitions they mutate.

**Bounds.** The table a document starts with has 8 columns and 16 rows; in the pools it is
scaled down to 2 by 2 (`InitCols`, `InitRows`) and grows by doubling like the code's, so
that what matters stays: allocated rows and columns past the used ones, empty and
readable. `claim_existing` has the real sizes. Three cells in one column and one in a second file are enough for every
shape of circle (self, two, three cells, through a range, through a macro, through the
other file), for references up, down and out of the table, and for ranges that end
inside, at and past the used area. Two documents and three arguments give both orders
of printing and loading, and a document that another one loads before its turn. There is
no counter to cap: such a run ends by itself. `eval_edges` varies what each function sees
instead of how cells refer to each other.

`sheet` (`MaxLines`): four lines are a blank line before and after a row, a command before and
after the row it is about, three ways for a format to arrive, a table that grows twice in
each direction, from 1 by 1 (the code's 8 by 16 would never grow on small files). The
words are chosen so that each scanner's cases occur: `-`, `reset`, a precision past 255, a
width below the minimum, one column narrower than its precision, a reference above the
first row. `MaxMacros` is 1 for 32, `MaxDim` only names a finite range. `cache`: the array is made
for the first document and grows at the second. A document that is loaded keeps the
descriptor of its directory, so with `MaxFd` 3 no third one can be loaded: it finds a
descriptor for its directory and none for its file. `arena` (`MaxBlocks`): seven blocks are three pages of
a category at different use, so that a page is moved behind one and behind two others.
`reader` (`MaxLen`): six characters with a line buffer of 8 reach and pass its limit, and a
cell buffer of 3 cuts words and cells. `parser` (`MaxLen`): five words are a call with a binary
operator; the longer texts have two operators of different levels, lists, nested parentheses and
functions without parentheses before a string, a number and nothing.

**Fairness.** `Evaluator` has `WF_vars(Step)`: a single thread that never blocks takes its next
step. `Rest` is the stuttering of a process that has ended, so deadlock is checked.
`DocCache` has `WF_vars(MakeDocument)`: a call that has begun goes on, system calls return;
nothing is assumed of who replaces files or of when the next document is asked for. The
other modules state no liveness.

**Findings.** The five violated claims are disagreements of the source with itself:
an inclusive clamp that reaches past a full table and into an assertion
(`main.c:2368`, `main.c:2462`); `col`, whose assertion and table of forms exclude each
other (`main.c:2137`); `ERROR_RELATIVE` (`mem.h:48`), which `AbsoluteDim`'s check
forestalls (`main.c:550`); `ERROR_SUB` (`mem.h:45`), which stands for a cycle and
not for a referenced error (`main.c:1813`); and `ReadLine`, which cuts a line of 1022
characters or more and then fails its own assertion (`main.c:317`, `main.c:324`).

Behaviour that the models have and no text contradicts: `abs` is never found among the
functions (`main.c:608`); `1+` stops the program instead of giving `ERROR_PARSE`
(`main.c:1224`); where the arguments of a function cannot be parsed it has none
(`sum(*)` is `sum()`); a file in the root directory cannot be opened from outside
(`main.c:471`); each document keeps a descriptor until the program ends.

## 4. What is proved

Each theorem is of a whole specification and for every value of its constants. A run shows the
same property on an instance.

`EvaluatorProofs` and `DataflowProofs`: every set of documents, shapes, expressions and
contents, every `Scalar`, `Percent` and `Resolve`.

| theorem | statement |
|---|---|
| `TypeCorrect` | `Spec => []TypeOK` |
| `CallsDiscipline` | `Spec => []CallsInv` |
| `ReadsAreFinal` | `Spec => []ReadsFinal` |
| `DocumentsOnDemand` | `Spec => []OnlyLoaded` |
| `FinalCellsStable` | `Spec => FinalStable` |
| `OutputIsFinal` | `Spec => []OutputFinal` |
| `ErrorsReachReaders` | `Spec => []ErrorsPropagate` |
| `CirclesAreErrors` | `Spec => []CyclesAreErrors` |
| `EvaluatorRefinesDataflow` | `Spec => ImplementsDataflow` |
| `BoundedRecursion` | if `Addr` is finite, `Spec => [](Len(calls) <= Cardinality(Addr))` |

`DocCacheProofs`: every set of names and files, every inode they have, every limit of descriptors,
whatever fails and whatever is replaced in between.

| theorem | statement |
|---|---|
| `CacheTypeCorrect` | `Spec => []TypeOK` |
| `DescriptorsAccounted` | `Spec => []NoLeak` |
| `DocumentsFiledRight` | `Spec => []FiledRight` |
| `DocumentsStay` | `Spec => SlotsKept` |
| `CacheRefinesStore` | `Spec => ImplementsStore` |

`ArenaProofs`: every page size, header, alignment, and every set of requests an empty page has room for.

| theorem | statement |
|---|---|
| `PagesAccounted` | `Spec => []TypeOK` |
| `BlocksStay` | `Spec => []BlocksFit` |
| `ReserveNeverStops` | `Spec => []NeverStops` |
| `NoPageTooSoon` | `Spec => NewPageIfFull` |
| `ArenaRefinesHeap` | `Spec => ImplementsHeap` |

`LoaderProofs` and `PrinterProofs`: every set of lines with words of the right types, every least size
of a table, every way its room is rounded up, every default.

| theorem | statement |
|---|---|
| `DocumentIsTyped` | `Spec => []TypeOK` |
| `LoaderRefinesGrid` | `Spec => ImplementsGrid` |
| `TextIsKept` | `Spec => []TextKept` |
| `SectionsAreMeant` | `Spec => []SectionsAsMeant` |
| `PrintsTheSameTwice` | `Spec => []SecondTheSame` |
| `PrintsWhatIsMeant` | `Spec => []PrintedAsMeant` |
| `PointsAreAligned` | `Spec => []PointsAligned` |
| `StopsForAReason` | `Spec => []StopsAsMeant` |

`ReaderProofs`: every file of whatever characters and length, every size of the line buffer and of the
buffers of cells and words.

| theorem | statement |
|---|---|
| `ReaderTypes` | `Spec => []TypeOK` |
| `LinesAreMeant` | `Spec => []LinesAsMeant` |
| `ItemsAreMeant` | `Spec => []ItemsAsMeant` |

### Assumptions

They are the named ones of the modules, and TLC evaluates each on the runs that extend them.
`Expr`, `Sheets`, `Evaluator`: `NaN` is no integer, the empty string is a string, shapes have natural
dimensions with the used area inside the table, every node is well formed and its parts are
nodes, `Resolve` gives a document or none. None bounds a size, and none excludes a
circular sheet or a recursive macro. `DocCache`: `NextPow2(n)` is a number of at least `n` (what
`Pow2`'s run shows of the code's), and the null pointer and "no inode" are neither a document nor a key. `Arena`: the
header and the page are multiples of the alignment, requests are positive and fit an empty page
(`RequestsFit`, with the callers' sizes as the reason). `Table` and `Loader`: the same of `NextPow2`; a line
has words of its kind, as many as `MaxDim` at most, and a parsed reference has letters or `@` for its
column (`ParseCellRef`; its row may be any code); a new cell has nothing set (`DefaultsAssumption`: it is zeroed).
`Reader`: the line buffer has room for more than a newline and a NUL, the other buffers for a NUL; the end of a
file is no character (`CharAssumption`), while NUL may be one.

### The inductive invariants

*Evaluator.* `IInv` is the conjunction of the four invariants and
`ControlInv`, none of which is inductive alone. `ReadsFinal` of a return needs to know
that the call below waited for just that cell; that a stored cell is the one waited for
needs that no cell is open twice (`CallsInv`); that the flag tells the truth when a
document is loaded in the middle of an evaluation needs that no cell of an unloaded
document is open (`OnlyLoaded`); that the value stored is a cell needs `TypeOK` of the
control state; and `ControlInv` ties the mode to the stack (`MAIN` and `SCAN` have
no open call, `REDUCE`, `VALUE`, `APPLY` and `LOOP` have one).

Most steps only change the work of the innermost call. `SetWorkKeeps`,
`ChainKeeps` and `PureKeeps` say once that such a step keeps the chain of calls, and
`WorkChain` reduces what is left to: the new work is typed, and if the step asks for a
cell the new head of the work waits for it. The lemmas per group of actions
(`ReduceAtOnce`, `ReduceReads`, `MathGoesOn`, `FoldGoesOn`, ...) show that. The steps
that change a cell or the stack itself have lemmas of their own: `MainKeeps`,
`Answers`, `EnterKeeps` (the cell is not open yet: its flag was `STABLE`) and
`StoreKeeps` (the call below waits for the cell just stored). `FinalCellsStable`
follows from `Writers`: a step writes a cell by loading a document that has none, or
by storing into an open cell, which is an expression by `CallsInv`.
The first part of the module has the types of the operators and of the helpers on sequences.

*Errors and circles.* `OwedInv` follows the error through `ReduceNode`'s recursion. Of each cell
that the expression of an open call reads it says that the cell has a value (`Good`), or that it is still to be
read - a frame of the call's work or the node about to be reduced has it (`FrameOwes`, `NextOwes`) -, or that
an error is on its way that will be the result: the value just returned, or an argument already
reduced, which matches no form of any function (`ErrorMatchesNone`). No step of an expression drops what is
owed (`OwedPush`, `OwedPop`, `OwedReplace` for the three ways to change the work); when the value is stored no
work is left, so a value is stored only if all that was read has one (`StorePays`). That is
`SettledInv`, from which `ErrorsPropagate` follows. A circle follows without following the evaluation around it: for a cell
of it to get a value, another cell of it would have had one before (`CirclesInv`). What an expression reads
(`PlainRefs`) is a recursive function over nodes which are not ordered - a macro may name itself -, so its equation is
proved by constructing the least family of sets that is closed under it (`PlainRefsIs`).

*Refinement of `Dataflow`.* `Outcomes` is a recursive function over what can be left to do for a cell (`Todo`), and recursive
macros let it call itself for ever, so that it cannot be reasoned about by induction over expressions. Two
facts replace the induction. What an expression means grows with what its parts mean (`MeansGrows`), so
that the recursion has a solution, the least one (`OutcomesClosed`, after Knaster and Tarski); and a solution is closed: it
has what each case of `Means` gives (`Closed`). Where no macro leads back to itself there is only one solution; where one does,
`ReduceNode` does not return, and the theorem is about what can be returned. The invariant uses only the latter and looks forward instead of
back. `DInv` says of every open call, and of every `see` that shows the cells that are final and the open ones as circular,
that what the call can still come to is an outcome of its expression: the frames of its work lead (`Leads`) from the
outcomes of what comes next (`Ends`) to the outcomes of the cell's own expression. Each action of `ReduceNode` is one case of
`Means` and keeps this (the lemmas `Pursues...`); as more cells become final, fewer `see` are left, never more (`SeesBefore`).
The invariant is used twice. `see` may show pending cells as needed; then `DInv` says that the cell of a
call needs the cell that the next call is for (`NeedsNext`), and hence each open cell leads to the innermost one (`AllLead`):
what `EvaluateCell` finds `EVALUATING` is circular in the sense of `LeadsTo`. So `see` may be what `Denotation` lets the innermost
cell see (`SeenSees`), and at `EvaluateStore`, when no frame is left, `DInv` says that the value is denoted
(`StoreDenotes`). `ReturnedInv` and `ParsedInv` are the two facts about calls that this needs besides `IInv`.

*DocCache.* `FiledRight` alone is lost at the `openat`: the invariant adds `CallInv`, what is known of the call in
progress - no document has its key until it is appended, and the path it is about to open
still names a file of that inode, or the key is in `raced`. That a file has one document
(`OneEach`), which `DocStore` asks for, follows from the first half. The bound `MaxFd` on the descriptors
bounds the documents through `NoLeak`, and so keeps the arguments of `NextPow2` in its range.
In the refinement a document counts from the end of `Load` on; every other step stutters or answers.

*Arena.* `Reserve` tries the page in front only, and `NewPageIfFull` holds because the list is
sorted: `InOrder` is the heart of `PagesInv`, and `Inserted` keeps it since the place it takes is the first page
at least as full (`IsPlace`; it exists because a set of numbers has a least one, `LeastNumber`). `Apart`,
`NoneLost` and the sum of the lengths say together that each page is at one place
(`OnePlace`), which `TypeOK` counts. `HeldInv` puts each block below what is used of its page; two
blocks of one page are then apart, as the newer begins where the page was used up to.

*Loader.* The flat array is reasoned about once: `CellAt` and `ColumnAt` are what a reader finds
at a place, blank outside of the used area, and `ReserveCell`, `PutCell` and growth have lemmas in
these terms (an index has one column and one row, `QuotientOfIndex`). `IInv` is `IsTable` - sizes, types, *and that what is
allocated but not used is blank*, without which a reserved cell would not be empty -, `LoopInv`
(among it: while a `prcsn` is read the format row is the next row) and `MetaInv`. On top of it come, each
inductive relative to the former, `RowInv` (`rowIdx` is the number of row lines read, the last one counted when it
ends), `TextInv` (`TextKept` is the part of it a reader cares for) and `BoundsInv`: the bounds are those the
blank lines *read so far* mean. Reading a line keeps what the lines before it mean
(`RowNoPrefix`); the new line is the last of its kind, and the first only if there was none
(`FirstFacts`, `LastFacts`).

*Printer.* `PrintInv` says that the rows printed are those of the table as it is (`RowsTo`), which `FieldSame` makes
independent of the room of the table; and that after the first printing no expression is left and every
format is complete (`Finished`), so that neither evaluation nor completion changes a cell the second time.

What the commands ask for is defined of the words *read so far* (`AskedFmt`, `AskedPrcsn`, `AskedWidth`, `BarsOf`:
each a set that is empty or has what counts), and so is the row that a line inherits from (`ScopeOf`); one word more
or one line more changes these as `WordMeans` and `LineAsks` say. `AskedInv` relates the cells to them.
`ScopeInv` is what `FmtRowIdx` means: the row of the last `prcsn` that no blank line or `reset` ended, a row that
itself inherits from no other - which is why a cell read later finds that row's own precision. `ColumnsInv` is the
column. `FormatsInv` (`CellMeans`) says of each cell what its mask and its values tell: its own precision if one was asked
for, else that of the row it inherits from, else the one `fmt` gave the top of its column, and that only if the top has
none of its own. The last clause is the subtle one: a row that inherits from row 0 takes what `fmt` left in
the top cell, long before the formats are completed, and is right to: a `prcsn` for row 0 comes before
row 0 is read, so nothing can overrule the copy later.
`FormatOK` adds that the top has a whole format once `fmt` gave one. At the end of the file the sets of what is asked for
are what `SheetMeaning` says is meant (`WholeAsks`, `WholeScope`), `FormatMeant` computes the completed format
from them, and `MeantInv` carries it through evaluation, completion, printing and the second time. The fields that
are printed follow (`PrintedField`), the alignment of the points is arithmetic, and the printer stops at a column that
is meant to be narrower than its precision. The loader stops in three commands: `RowCell` never does,
since the row it inherits from is in the table (`RowCellFacts`).

*Reader.* `LinesInv` counts: `line` is the number of newlines before the place read next, which is the first of
a line (`AtLine`), so the next line is the one with the next number; `KindIsMeant` and
`RestIsMeant` compare what `ReadLine` sees of it with what it means, and `BufferInv` keeps that in the
buffer until the next call. The lexers' invariant is that a number of items has been read and that they are the first
ones of those meant (`ItemsRead`); what makes it inductive is where the lexer then is. For a row
(`RowAt`) it is where a cell begins, in the sense of `Where`, behind as many of the row's tabs as cells were read;
or at a NUL or behind the newline, with all of them read. The cell `NextCell` takes from there goes up to the next
of those tabs (`CellToTab`) or to the end of the row (`CellToEnd`), as `PlainRuns` and `QuotedRuns` follow
the loops of the lexer through `Where`. For a command (`WordAt`) as many words begin before the place as end before
it, and it is not inside of a word. The recursive function `Where` is
shown to have a value in `WhereIs`.

### Only model-checked

Liveness (`EndsWithOutput`, `CallsReturn`), which is out of the prover's reach;
`NoAbort`, which is about the shapes of the instance; `RoomIsLeast`, which is about the powers of two, bit
operations; what `ExprParser` computes (recursion over a text).

## 5. Plan

1. Evaluator, with its proofs (done).
2. `Pow2`, `Table`, `Loader`, `Printer`; `DocCache`; `Arena`; `Reader`; `ExprParser` (done: modelled
   and checked).
3. Proofs: `DataflowProofs`, `DocCacheProofs`, `ArenaProofs`, `LoaderProofs`, `PrinterProofs`, `ReaderProofs` (done).
4. Perhaps: the characters of a token (`ParseCellRef`), with `Reader`'s definitions.

## 6. Not modelled

The hash table of `mem.c` is compiled out. `Str2f64` accumulates decimal digits in a
double and `logging.c` formats messages: no state worth checking. The memory reports
(`PrintAllMemInfo`, `DumpMemInfo`), `WipeAllMem` and `OVERDRAW_*` are never called or behind debugging
switches that are off. How the characters of an expression become words
(`NextExprToken`'s scanning, `ParseCellRef`) is left out: `ExprParser` has words with types. What
`printf` makes of its fields, a number wider than its column included, is left to it. In
`Evaluator` files are constant during a run; in `DocCache` they are not. Release builds
(`NDEBUG`), in which the failing checks are not there, are left out: their behaviour
past such a point is undefined.

## 7. Running

    tlc -workers 2 -config eval_core.cfg MCEvaluator
    tlc -workers 2 -config sheet.cfg MCSheet
    tlc -workers 2 -config cache.cfg MCDocCache
    tlc -workers 2 -config arena.cfg MCArena
    tlc -workers 2 -config reader.cfg MCReader
    tlc -workers 2 -config parser.cfg MCParser
    tlapm EvaluatorProofs.tla
    tlapm DataflowProofs.tla
    tlapm DocCacheProofs.tla
    tlapm ArenaProofs.tla
    tlapm LoaderProofs.tla
    tlapm PrinterProofs.tla
    tlapm ReaderProofs.tla

Every run ends within a minute or so on two workers; the proofs take some minutes each.
