# A TLA+ model of cc0

cc0 is a compiler for C0, a C-like language for programs of *runners* (tasks
with private stacks that commit their writes to a shared space) and *watchers*
(tasks started when a range of that space changes).  The repository holds the
compiler (`src/src/toolchain`), the language manual (`src/doc/c0/c0.tex`) and
applications (`src/apps`).  The compiler is one sequential C++ program per
step: `cc0 -c` for each file, then `ld0` for all of them.  The concurrency is
in the programs it compiles, and between builds that share a directory.

This directory holds the specifications, the TLC configurations that check
them on small instances, and proofs, for every value of the constants, of the
safety of the linker, the optimizer, the layout of variables, the assembler, the
driver, kmeans and pagerank.  `PROJECT.json` lists components, runs, mutants,
findings, hazards and theorems, and says for every definition which lines of
the source it stands for.

## The system

    file.c --cpp--> C.g parser --tree--> ConstantPropagation --> TypeDeduction
        --typed tree--> ILGenerator --IL--> ILOptimizer --IL--> file.o
    *.o --> ld0: merge, purge --one program--> SymbolAddressAllocator
        --addresses--> I0CodeGenerator | DisaCodeGenerator --instructions-->
        ResolveSymbols --> Encode --> flat image
    image --> a runner executes it: its stack, the globals, its fp and sp
    cc0 (driver): "cc0 -c" for each source, then ld0, each a child it waits for

| component (source) | state it keeps | operations | what is hard | what makes it correct |
|---|---|---|---|---|
| **ld0 merge and purge** (`tools/ld0/main.cpp`) | symbol tables of the files, the merged table, `func_map`, work list, purged table and functions | append functions, merge a name, move references, breadth-first purge from `main`; exceptions end it | tables that are emptied while they are searched, `operator[]` that inserts null, a work list with duplicates, an error found half-way | the image has exactly what `main` reaches, each function once; every reference finds its symbol; it ends; it rejects exactly the conflicting programs |
| **TypeDeduction** (`core/Pass`) | the tree, annotated | one Visit per node, inserts conversions | conversions it leaves out are only visible two passes later | (with the passes below) the program's meaning |
| **ILGenerator** (`core/Pass`) | code so far, temporary counter, scope chain, loop contexts | one Visit per node | jumps through nested loops and switches, scopes of temporaries; one fixed area that describes every runner to `newr` | same meaning; branches stay in their function; the runners created are those of the source |
| **ILOptimizer** (`core/Pass`) | body of the function, the copy a pass rewrites, iterator, `optimized` | fuse compare and branch, forward a result, delete Nops, repeat until nothing changes | counts are taken in the old body while the copy is rewritten; repeated passes must make progress | counts are never stale; control flow is kept; it ends; same meaning |
| **SymbolAddressAllocator** (`core/Symbol`) | an address per symbol, a size per scope | allocate root, function, blocks | widths, sibling blocks that share memory, agreement with the code that pushes arguments | no two live variables share a byte; arguments are where parameters are |
| **I0CodeGenerator** (`backend/i0`) | code, labels to patch, sp and fp conventions | one Visit per IL instruction, prologue, `GenerateSpawn0` | a frame pushed by four functions that must agree; width of every load and store | calls and returns are balanced, return addresses survive, a write changes its variable only |
| **ConstantPropagation** (`core/Pass`) | the tree, values as tags | one Visit per node, folds, replaces | 64-bit arithmetic at compile time, a converted constant that keeps its value | the folded program means what the source does |
| **Encoding and resolution** (`backend/*/*Instruction.cpp`, `ResolveSymbols`, flat writer) | instructions with the address each was given, `Symbol::Address`, the buffer | emit, patch labels, resolve, `GetLength`, `Encode`, write | a length known twice: when an instruction is placed and when it is encoded; forward branches; pointers kept to earlier instructions | every instruction is where its address says; nothing unresolved reaches the file; the instructions do what the IL does |
| **DisaCodeGenerator** (`backend/disa`) | as I0CodeGenerator | the same Visits with three-operand branches | a true label written through a kept pointer | as above |
| **cc0 driver, ld0's main** (`tools/cc0`, `tools/ld0`) | command line, files of the tree, the child that runs | compile each source, link, exit codes | objects of an earlier build, a half-written file, a child that fails, a build killed and run again, two builds in one tree | success means the image is the program on the command line; a failing build keeps the old image |
| **kmeans** (`apps/kmeans/L0`) | points, centres, `trigger[]`, iteration number | init runners, recluster runners, watchers, commit and abort | watchers activated by every commit, stale instances, triggers that are reset while they are watched, pages that two commits share | one runner per part and iteration, nothing stale is committed, the last one done is noticed; it computes Lloyd's algorithm |
| **pagerank** (`apps/pagerank`) | graph in persistent memory, partitions, `task_status[]`, `iter`; a copy of the graph in each task's space; the phasing cache | read edges and build the graph, rewrite its pages; per iteration one task per part and a barrier; select and sort the highest ranks | writes to the phasing cache do not wait for a commit, copies made in the first iteration are used in all, a barrier that aborts until it must not, ranges computed from a last element | the graph is the input's; a version is complete before it is read, never changed after; the ranks are the iterates of the formula; the highest are printed in order |

The passes communicate only by the tree (tags on nodes), the IL program and
the symbol tables; a pass runs to its end before the next one starts, and
`ld0` starts when all files are compiled.  In the compiler the dangers are
therefore not races but *agreements*: passes and an allocator each decide
something about a variable's width, place and lifetime, or about an
instruction's length, and no single one of them can see whether the others
decided the same.  Races are what kmeans, pagerank and the driver are about: tasks
that commit to one shared space, and builds that write files of one tree.

## Modules

| module | models |
|---|---|
| `LinkInput` | object files as `ld0` sees them: symbols (kind, type, specifiers, extent), functions and what they refer to; and what is *meant*: reachable names, linkable programs |
| `LinkSpec` | the promise of `ld0` in one step: reject exactly what is not linkable, or hold exactly what is reachable |
| `Linker` | `merge`, `check_merge_symbol`, `ilprogram_symref_fixup`, `purge_program`, one action per iteration of each loop and one per exception |
| `LinkerProofs` | theorems about `Linker` |
| `ILCode` | the IL: operands, instructions, when two operands are the same |
| `TypedTree` | the expression tree as the grammar builds it and TypeDeduction leaves it: every constructor applies that pass's conversions |
| `ILGenerator` | the ILGenerator pass, one operator per Visit |
| `ILOptimizer` | the ILOptimizer pass as a state machine, one action per rewriting |
| `FrameLayout` | the allocator: addresses of globals, offsets of parameters and locals, sizes of frames |
| `ConstantPropagation` | the ConstantPropagation pass, one operator per Visit; the generator works on what it leaves |
| `Image` | a linked program as a memory of bytes: where variables are, loads and stores, what a runner's stack holds when it starts |
| `I0Machine` | what the code that each Visit of the code generator emits does to that memory |
| `Cc0` | the composition: a source is compiled (`Compile` is the optimizer's `Next`), rejected or linked, and started as a runner that executes it |
| `CMeaning` | the reference: what a source program means, computed from the tree with no pass of the compiler |
| `Pool` | the source programs |
| `TargetCode` | instructions of i0 and disa: operands, lengths, headers, what `Encode` writes |
| `CodeGenerator` | the instructions each Visit emits, for both targets, with the general registers it uses |
| `Assembler` | what ld0 does last, as a state machine: optimizer, generator, resolution, encoding and file |
| `AssemblerProofs` | theorems about `ILOptimizer`, `FrameLayout`, `TargetCode`, `CodeGenerator` and `Assembler` |
| `Assembly` | `ILGenerator`, `Image` and `Assembler` together, and a core that executes the file; refines `I0Machine` |
| `L0` | the runtime (external): snapshots, commits, pages, runners and watchers |
| `L0Proofs` | lemmas about the runtime: pages, commits, which tasks a step leaves |
| `KMeans` | the tasks and watchers of kmeans over `L0` |
| `KMeansProofs` | theorems about `KMeans` |
| `Totals` | the running totals of a sequence: lengths of code, degrees of vertices, a vertex's rank |
| `SumProofs` | lemmas about running totals and sums over finite sets, and an induction for others to use |
| `Lloyd` | what kmeans promises: Lloyd's algorithm in two actions |
| `PageRankInput` | pagerank-stdin2pmem: the edges read, the graph built from them, the runners that write its pages again |
| `PageRank` | pagerank-frompmem over `L0`, run behind the first program; the phasing cache and the sticky memory (external) |
| `PageRankProofs` | theorems about `PageRankInput` and `PageRank` |
| `PowerIteration` | what pagerank promises: the formula of its first comment, iterated, then printed |
| `TopK` | `select_topk` and `sort`, one comparison or swap per step |
| `TopKProofs` | theorems about `TopK` |
| `Driver` | builds: cc0, `cc0 -c` and ld0's main on the files of a tree, several at a time, killed and run again |
| `DriverProofs` | theorems about `Driver` |
| `MC_Linker`, `MC_ILOptimizer`, `MC_Cc0`, `MC_Cc0Cases`, `MC_Assembly`, `MC_KMeans`, `MC_PageRank`, `MC_TopK`, `MC_Driver` | instances for TLC |

### The linker

`objs` are the files; `pc` says which loop runs: `append` (functions of every
file into `func_map`), `merge` (the pool of symbols, name by name, in any
order since the pool is ordered by address), `root` (main must be there),
`purge` and `scan` (front of the queue; its operands from `pos` on), `done`,
`failed`.  `table` is the merged symbol map, `purged` the one that replaces it
at the end, `emitted` the order of the functions.  A missing entry read with
`operator[]` becomes `NoSymbol`, as in the code.  Exceptions are caught in
`main`, which returns 1: `failed`.

Abstracted: an instruction's operands are the sequence of names they refer to;
types are equal or not, with the extent of an array kept apart because
`ArrayType::Equals` does not compare it.

### The compile pipeline

A program of `Pool` is a tree.  `Cc0!CInit` runs `GenProgram` on it, which is
ConstantPropagation, then the generator (the
generator is deterministic and keeps nothing between nodes but what its record
holds, so it is an operator), then the optimizer runs step by step, `Link`
lays out the variables and concatenates the code, `Spawn` starts a runner with
arguments at the top of its stack as `NewRunner` leaves them, and `Execute` runs
one IL instruction at a time with the effect of the i0 instructions emitted
for it.  `Link` empties the passes' variables, as `ld0` exits and leaves the
image.  Numbers are little-endian bytes, and every access has the width the
code generator gives it: this is where a wrong width reads a neighbour.

`runner f(..) using .. watching ..` is generated as the code does it: the
ranges are computed and stored in the area at `NewrMetadata`, `newr` reads them
from there, and the arguments are pushed on the stack it has made.  The machine
then has a new runner with a stack of its own (`newr` is external).  When a
runner has committed, `StartNext` starts one that it has created and that
watches nothing, in any order; `CMeaning` runs them in the same order
(`order`).  Runners that watch are compared with the source
(`RunnersAsWritten`) and not started.  Each runs alone here, on what the one
before it has committed: runners that overlap are what kmeans is about.

`Reject` is every way in which the compiler gives a program up: an operand of
no kind (an assertion of `GenerateI0Operand`), an instruction with a missing
operand, a null scope.

Abstracted: the position of an IL instruction stands for the address of its
code; the general registers a Visit uses inside one instruction do not appear
(they hold nothing from one Visit to the next).  Temporaries of a block are
placed in the order of their numbers, behind the declared variables, where
the code takes the order of a map by name; the cases of a switch are taken in
source order, where the code takes the order of a map by address.  No property
depends on either.

### The assembly

`Assembler` is the last part of the compiler for any linked program of `Units`: the
optimizer's steps (`Compile`), then one step of `VisitIL` for each Visit of an IL
instruction, which appends the instructions with the address each
gets (`_currentText`), and stores addresses of labels and functions.  `Resolve`
is one instruction of `ResolveSymbols`, `Encode` one of the loop in `main`, and
`WriteFile` the end.  `Assembly` takes for `Units` what the passes before make of
the sources, and adds a core, which fetches instructions *by the addresses they
lie at* and executes them: a wrong length, a label that is one instruction
off, or a general register that is used twice shows as a core that does
something other than `I0Machine` says (`ImplementsMachine`: the state between
the instructions of one IL instruction is hidden, `seen` is the last state that
was between two).  i0 and disa are chosen by `target`; `CodeGenerator` is
written once and says where the two differ.

The core is external (the repository compiles for it but does not hold it); it
is modelled from what the generators' comments and uses say of the
instructions.

### kmeans

A task is one record.  It waits, is scheduled, takes its snapshot (`Start`), and
from then on its end is determined, since the snapshot is all it reads: which
locations it writes, which tasks and watchers it creates, and whether it ends
with `commit`, `commitd`, `abort` or `abortd`.  What is left to interleave is
what really interleaves: when it is scheduled, when its snapshot is taken and
when it commits; `missed` collects the pages committed in between.  The
runtime is external, `L0` follows the manual's section on tasks.  Where the
manual leaves a choice (a refused commit is given up or run again; the commit
that creates a watcher does or does not activate it) both are taken.

x, y, z, w are one array of vectors, since every statement treats them alike.
Numbers are from `-Half` to `Half - 1` and wrap, so distances overflow as in
the code.  `ReadsWritten` is the part of `TypeOK` that says that no task reads a
location before somebody has written it (`Unset`).

### pagerank

Tasks are those of `L0`, as in kmeans, and what a task commits is again
determined by its snapshot.  But pagerank's runners do two things that no
commit undoes, and the model does them at `Start`, while the task runs:
`pc_write` puts a value for a version and a vertex into the phasing cache, and
the first run of a task in a space fills the space's sticky memory with a part
of the graph.  A value can be read by others when its version has been
synchronised (`pc_sync`, in `new_iter_task` and `topk`); before that, and where
nobody wrote, a reader gets 0.  Both are the runtime's, and modelled from their
use.  In later iterations the graph is not in the snapshot of a `calc_task`
(`Snapshot`), only what its space copied.

`RunPageRank` is the user who starts the second program when the first has come
to rest.  The graph is read as `pr_build_graph` makes it, a word at a time with
the offsets of the code, so that a partition's end off by one is a wrong rank.

A double is a multiple of 1/`Scale`; instances are such that nothing is rounded
(`alpha` is 1/2, outdegrees are 1 and 2, `Scale` is 64).  `PowerIteration` divides
like the code, in its order, so that the two can be compared exactly: what a
vertex gives over each of its edges, its rank over its outdegree, is what
`ImplementsPowerIteration` takes from the last version in the phasing cache.

`TopK` starts with any ranks.  `work` says which function runs, `loop` whether it is
in the loop that partitions a range, which both have; a step is one iteration
of a loop.  `stack` is the sort's own.

### The driver

`system()` makes a driver wait for its child, so a build is one process; the
interleaving is between builds and with `Kill`.  Every file operation is two
steps, opening (which empties the file) and writing.  A translation unit is
its name with the functions it defines and uses; the check of ld0 that
matters here is that a function has one definition and every used one exists.
Each source of an instance defines a function, so that an object linked twice,
because two sources have one object, is a redefinition and is rejected.
`NamesApart` keeps builds apart that would write the same text, object or
image: what one of them then compiles depends on what ANTLR makes of a text
that ends early.  An object that one build compiles may be another one's
input, and is read half written.  The disk is never full.

## Runs

| run | shows | instance |
|---|---|---|
| `linker` | `LinkInv` and all the linker's properties, and that it implements `LinkSpec`, liveness included | 39 181 states: every pair of a main file and a library, over four names with every kind of conflict, and lists of three |
| `optimizer` | counts are fresh, control flow is kept, it ends | 19 822 states: the IL of 263 programs |
| `compile` | compiled programs, and the runners they create, do what their source means; the runners created are those of the source, their ranges exact to the byte; calls are balanced; no write leaves its variable; they end | 47 640 states: 315 programs, two choices of arguments, on stacks of garbage |
| `assembly` | instructions are as long as they were when they were placed, nothing unresolved is written, headers differ, and the core does what `I0Machine` says | 24 358 states: one program for every statement of the pool, two with arrays and runners, one whose local arrays are assigned, passed and returned, both targets, with and without a definition missing |
| `kmeans` | one runner per part, commits are current, the tasks come to rest, and they compute `Lloyd` | 26 096 states: four points, two parts, two clusters, two iterations, two processors, both programs |
| `driver` | success is the program of the command line, a failing build keeps the old image, a build that nothing stands in the way of succeeds | 70 288 states: 24 pairs of command lines on four trees, one kill |
| `pagerank` | the graph stored is the input's; what a space copied is all its task reads later; nothing written to the phasing cache changes, though it does not wait for a commit; the ranks committed by the barrier are those of the formula over the counted vertices, iteration by iteration, and they are printed | 16 734 states: two graphs, the second one with an edge that comes twice, a vertex with no edge in and one with none out |
| `topk` | `TopKInv` (which includes that the highest ranks are selected, and bounds the stack), that they are sorted, and that it ends | 17 159 states: every assignment of three ranks to six vertices, three of them printed |
| `continue_in_loop`, `lost_definition`, `parameter_after_char` | the findings about the compiler | one program each |
| `short_immediate` | the finding about the encoder | one program |

### Bounds, and why they are enough

* Linker: four names (`main`, two functions, a variable) and at most three
  files.  A conflict is between two symbols of one name, so two files show it
  and a third shows that the order does not matter; two functions give
  recursion, mutual recursion, a function queued twice before its visit, and a
  definition that nothing reaches.
* `W = 2`: a word of two bytes instead of eight.  What the code distinguishes
  is a byte and a word, whatever the word's length; with two, every narrow
  access has a neighbour, and numbers wrap at 2^16.
* `StackTop = 140`: the stack of the deepest call chain of the pool (recursion
  of depth three in the runner) above the globals; `ReturnAddressesKept` says
  that it does not reach them.
* `Fuel = 12`: iterations that `CMeaning` allows; no loop of the pool needs more.
* `Fills`: what a stack nobody has written to holds.  `compile` uses garbage
  only, since zeros hide a read that is too wide; the case runs use both.
* `Inputs`: both branches of each condition, and a negative char.
* The pool: all 256 pairs of sixteen statements over shared variables, so that
  each construct is compiled behind and in front of each other one (the optimizer works
  on neighbours), and five more programs for what pairs cannot have; and all
  54 pairs of nine statements over two global and two local arrays with six of
  them, among which are runners with ranges of every form, created next to each
  other, and with arguments that are calls.
* `ArrayLength = 3`: a first, a middle and a last element.  `NewrMetadata` and
  `NewStack` are behind every stack, as in the code's address space.
* Assembly: one program per statement instead of one per pair, since an
  encoder works on one instruction and a label on one pair of places; the
  programs of `Others` have what single statements cannot.  `TextStart = 1000`
  is apart from the data, as `0x30000` is.
* kmeans: two parts are enough for a runner that commits first and one that
  commits last, two iterations for a watcher of the first that is started
  in the second, two clusters for one that becomes empty; with
  `Processors = 2` a watcher runs beside a runner or beside another watcher.
  `N_LONG_PAGE = 2` keeps two parts in different pages of the points and makes
  the padding of `trigger` and of `lcx` matter.  `Half` is 2^15.
* pagerank: two parts, one of two vertices and one of one, so that ranges meet
  within and between parts; `MAX_ITER = 2` gives a first iteration, one
  that reads what the first wrote from copies and one that reads what was
  computed from such.  Two processors run a task beside the barrier or beside
  the other task.  `N_LONG_PAGE = 2` makes the padding of `task_status` matter
  and gives the graph several pages.  The edges of `TwoWays` and `NoWayOut`
  end with a source that is not counted (see the findings) and have none to it: such
  an edge reads and writes behind an array, and the code does not say what is there.
* `topk`: six vertices of which three are selected have pivots that leave more, exactly
  as many and fewer than are needed, and three ranks have every pattern of
  ties among few; the theorems are about any number.  `SORT_STACK_LEN = 6` is
  the least the assumption allows, 2 * `TOPK_K`; the code has 10240.
* Driver: two builds, where the second compiles or links an object that the
  first one uses; inputs that are absent, rejected, half written by a killed
  build, of an older version, twice under one name, or no source at all.
  `MaxKills = 1` reaches every point at which a build can be interrupted.

`CHECK_DEADLOCK FALSE` appears in `MC_ILOptimizer.cfg`, since the optimizer
stops at the end of the program, and in `MC_Driver.cfg`, since the builds end.
The others have an explicit stutter at their end instead.

### Fairness

Each program is one thread that runs until it exits: `WF_vars(Next)` for the
optimizer and `WF_vars(Step)` for the linker say that a thread which can take
a step takes one.  In `Cc0` there is weak fairness on `Compile` (the compiler
runs on), on `Execute` (a runner that was started is scheduled) and on
`StartNext` (one that was created and has nothing to wait for is started: the
i0 runtime runs every runner it was given).  Nothing requires that a linked
program is ever started, so `Link` and `Spawn` have none; `RunnerEnds` is about
runners that were.  `KMeans` has weak fairness on a step of some task: the
runtime goes on while it has tasks, and none of them has to be preferred, as
no task waits for another; `PageRank` has the same, and the user's start of the
second program is one of its steps.  `TopK` is sequential, `WF_vars(Next)`.
`Driver` has weak fairness on each build's `Step`
(its processes are scheduled) and none on `Kill` or `Restart`: nobody has to
run a killed build again.  `Assembly` states none, its properties are safety:
the core's steps are finitely many for each step of `I0Machine`, and that the
program ends is `RunnerEnds`.

## Findings

Each is a program or a list of files on which the code does something other
than the manual or a comment says; the run gives the trace, and `PROJECT.json`
the quotation.

1. *`continue` leaves the loop*: the loop's tag holds the break label
   (`continue_in_loop`).
2. *A definition removed while it is used*: operands of one variable with
   different IL types are not counted together (`lost_definition`).
3. *The parameter behind a char* is not where the caller puts it
   (`parameter_after_char`).
4. *The target of a branch on a char and a constant* is written 7 bytes early:
   the length of an immediate is the operand's for `EncodeOperandData` and the
   instruction's for `GetLength` (`short_immediate`).

Also seen while modelling, and without a run of their own: a prototype repeated
after the definition leaves its own Symbol in the linked table, not the
definition's (`ld0/main.cpp:291`); a disabled centroid of kmeans attracts points, since
the distance to it overflows (`on_recluster_finished.c:90`); the vertex with
the highest number has no rank, since the number of vertices is taken to be that of
the last edge's source (`pagerank-stdin2pmem.c0:33`); a struct tag of file scope makes the link fail
(`ld0/main.cpp:137`); an array declared with two lengths can get the shorter
storage (`ld0/main.cpp:318`); a long compared with a char reads a word at the
char's address (`ILGenerator.cpp:137`); a comparison of chars as a function's
first instruction reads words, because only the fused form is right and the
optimizer skips the first position (`I0CodeGenerator.cpp:459`); a char loaded
through a pointer into a global char overwrites the globals behind it
(`I0CodeGenerator.cpp:1130`); a unary plus leaves no operand
(`ILGenerator.cpp:456`), where the manual says `+x & Identity` (`c0.tex:212`): its use is
rejected by an assertion, except in `return +a;`, which compiles, since `VisitRet` only
skips the store, and the caller reads what was in the place of the result (the
program `LocalArrays` of `MC_Assembly` has such a return, on both machines); a narrow `Neg`
reads an operand it does not have; the parser recovers from syntax errors and
nobody reads their number, so a file with one compiles with exit code 0; two
sources of one name in one directory share their text and their object; an
index or an end of a range that is a char is read as a word, since nothing
converts it (`TypeDeduction.cpp:316`); a range that calls a function which
creates a runner overwrites the half-filled description of the first one
(`ILGenerator.cpp:816`); storing a local array into an element of a local array
of pointers stores to the array, since both addresses are computed in
`GENERAL_REG_2` (`I0CodeGenerator.cpp:324`; the models therefore have at most one
local array among the operands of an instruction, located by an instruction that
is emitted where the operand's code is generated); a char passed to a long parameter
leaves the rest of the word as it was; `newr` is encoded with the mode of its
third operand in place of the second's (`I0Instruction.cpp:449`), which shows
only if they differ, and here all are direct; the three
shuffles are called with 0, 1 and 2 where their code asks for 3, 2 or another,
so the first third of the graph is never written again and two runners write the same
pages (`pagerank-stdin2pmem.c0:242`; `GraphStored` shows that it does no harm);
the sort's test for an overflow of its stack comes after the writes (`StackIsEnough`:
it never overflows).  The
programs of `compile` avoid the constructs among these: the run shows that
outside of them the passes agree, and the case runs show that the model does
not hide them.

## Proofs

| module | proves, for every value of the constants | from |
|---|---|---|
| `LinkerProofs` | what ld0's merge and purge compute | `LinkInput`'s assumptions |
| `AssemblerProofs` | counts are fresh, control flow is kept; variables do not overlap; instructions are where their addresses say and can be told apart, no name is left | `ProgramsAssumption`; for the assembler also `TextAssumption`, `UnitsAssumption` |
| `DriverProofs` | what a build that succeeds has linked | the five assumptions of `Driver` |
| `KMeansProofs` | parts do not meet, no stale commit, one runner per part; the sums and centroids are Lloyd's | `LayoutAssumption`, `KMeansAssumption`, `L0Assumption` |
| `PageRankProofs` | the graph is stored, copies suffice, no value in the phasing cache changes, the ranks are the formula's iterates | `InputAssumption`, `InputsFit`, `PageRankAssumption`, `PartitionsFit`, `L0Assumption` |
| `TopKProofs` | the highest ranks are selected and sorted | `TopKAssumption` |
| `L0Proofs`, `SumProofs` | lemmas for these | |

TLC evaluates the assumptions on each run that extends the module.  An inductive
invariant is defined in the model, beside the properties that follow from it:
a run can check it, and `linker` and `topk` do.  `DriverInv`, `KMeansInv`,
`OptimizerInv`, `AssemblerInv` and `PageRankInv` were checked on their instances before they were
proved, and are not part of the runs, which check the properties themselves.

### The linker

For every set of names, types and object files, and every number of files:

* `TypeCorrect`: the type invariant.
* `LinkInvHolds`: the inductive invariant.
* `NeverNull`: `operator[]` never makes a null Symbol.  (It and `OnlyNeeded`
  follow from conjuncts of `LinkInv`, which is what TLC checks.)
* `OnlyNeeded`, `ImageCorrect`: nothing that `main` does not need is kept or
  queued, and at the end the table is exactly what it needs.
* `AllResolve`: every reference of every linked function resolves.
* `EachOnce`: each function is emitted once.
* `KeptStays`: a kept symbol is never replaced (an action property).
* `AllAgree`: the symbol kept for a name speaks for every file that declares it.
* `ImplementsSafely`: every step is a step or a stutter of `LinkSpec`.

**The argument.**  None of these is inductive by itself.  Which names survive a
purge is only known at its end, so `LinkInv` says what is true in the middle:
`Sources` (what `func_map` holds is what the files define), `Scopes` (before
the fix-up every scope is of a file, after it none is), `Symbols` (a name with
a holder is in the merged table, in the purged one, or still to be merged;
no entry is null), `Frontier` (a reference of a kept function is kept, queued,
or ahead of the scan at the front of the queue, and everything kept or queued
is reachable), `Emission` (the functions emitted are the functions kept,
each once) and `Agreement` (an entry of either table can be merged with each
file's symbol of its name).  When the queue is empty `Frontier` makes the kept
names closed under reference, so they contain the reachable ones:
`ImageIsExact` and `ImageIsClosed`.  There is one lemma per conjunct, with one
step per action; the lemmas at the start are about the map operations
(`Insert`, `Erase`) and about the range of a queue.  Of the refinement, most
actions stutter: `Replace` is the abstract `Accept`, which needs
`ImageIsExact` and that no two files contradict each other (`Agreement`), and
the exceptions are `Reject`, which need that they are thrown *only* for such
files.

**Assumptions.**  `Inputs` are non-empty sequences of object files, a file has
a symbol for each function it defines and each name it refers to (the parser
declares before it refers), `main` is a name, and `NoSymbol` is not a Symbol.

### The optimizer

For every program, of any number of functions of any length:

* `OptimizerInvHolds`: `OptimizerInv`.
* `OptimizerTyped`: every instruction that a rewriting makes is one that the
  passes behind it can read.
* `CountsAgree`: whenever `OperandUsedTwice` is asked, which counts in the body as
  it was before the pass, it says of a variable that is still in the copy what
  it would say of the copy (`CountsFresh`).
* `LabelsKept`: no step changes the sequence of labels and branch targets of a
  function (`ControlKept`, an action property).

**The argument.**  `CountsFresh` nearly is inductive by itself, which is what
the code relies on: that the temporary of a comparison or an assignment has no
third use is known from counting in the *old* body, and carried over to the
copy (`OnlyThere`).  A rewriting then moves the other operands: a bijection
takes the places of the old copy, but the two where the temporary was, to those
of the new one (`CountsFused`, `CountsForwarded`), so no other count changes
and the temporary's falls to 0.  For the labels, `ControlFresh` says that copy
and body agree within a pass, since the body is only replaced at its end; that
the deletion of Nops keeps them is a fact about the concatenation of a
sequence of sequences, in which an empty one may be left out.

**Assumption.**  `ProgramsAssumption`: bodies are sequences of well-formed
instructions, which is what `ILGenerator` makes (`MC_ILOptimizer` checks it of the
programs it has).

### The layout of variables

For every list of symbols and every tree of blocks, with words of any length:

* `GlobalsApart`: no two globals of a file share a byte, and none is in the first
  word, so that no global has the address that stands for none.
* `ParametersApart`: nor do two parameters, and they are behind the saved frame
  pointer, the return address and the result.
* `LocalsApart`: nor do two variables that are visible at the same place, and all
  of them lie in the frame that the prologue makes.

**The argument.**  A block begins where the variables of the block around it end,
and sibling blocks begin at the same place, so that two locals may share bytes.  What is
visible at one place are the variables of the blocks on a way from the function
to a block (`BlockPath` in a `Forest`, in which a block comes behind the one it is
in, as the scopes do).  Starts and sizes are recursive functions over the
blocks; that they exist, and that a frame is at least as deep as each way through
it, is by induction over a block's number.  Within a block offsets are running totals.

### The assembler

These are theorems of `AsmSpec`, for every set of linked programs that can be
visited, for both targets, and for every set of functions without a definition:

* `AssemblerInvHolds`: `AssemblerInv`.
* `AddressesTyped` (`ATypeOK`): every instruction is behind all that were emitted
  before it and has a form and operands that the encoders have a case for; a name's
  address is in what has been emitted, a variable's is below the code.
* `NamesResolved` (`AllResolved`): no placeholder and no name gets into the file.
* `HeadersDiffer` (`HeadersTellApart`): the bytes before the operands tell two
  instructions apart, for either target.
* `FileExact` (`TextExact`): every instruction is encoded at the address that was
  given out for it, and has as many bytes as `GetLength` said, but for a
  `ShortImmediate`; without one in the program `TextExact` holds.
* `LabelsOfComparison`, `ReturnsBehindCall`, `ReturnsBehindNewr`: the addresses
  that a Visit patches after it has measured the code it emits are those of
  the instruction meant: the last one of a comparison or the one behind it, also
  when the place of the result has to be computed first, and the one behind a call
  or behind `newr`.

**The argument.**  `AssemblerInv` says what holds in each phase.  A program that can
be visited still can after each step of the optimizer (`CompilingStep`), since operands
are moved and not made; this is where the optimizer's type invariant is
needed.  Every Visit emits instructions of a few shapes only (`Emitted`,
`VisitTyped`), and for these the lengths, the header and its bits are computed,
one operation at a time (`HeaderLength`, `BytesAreLength`, `HeadersTell`).  Code is
a row (`InRow`): an instruction is where the one before it ends, and `EmitAll`
appends another row (`RowGrows`).  Resolving changes operands that are as long as what
replaces them, so the row stays (`ResolveStep`), and encoding follows it
(`EncodeStep`).  The patched addresses rest on the same fact: an instruction is as
long with the address as with the 0 it had while it was measured (`SameLengths`).

**What the theorems leave out.**  `FileExact` has an exception because the code
has one: the finding `short_immediate` is an instruction whose encoding ends
early, not one that is misplaced.  `HeadersDiffer` holds although i0 does not
write the mode of `newr`'s second operand, since all its operands are direct
wherever it is emitted.  The theorems are about `AsmSpec` and not about `Assembly`,
which reaches the recursive passes; each step of `Assembly` is a step of
`Assembler` or leaves its variables alone.

**Assumptions.**  `UnitsAssumption`: an instruction has the operands its Visit reads, and
the allocator has placed its local variables; without either the code
stops at an assertion or a null pointer (`Reject`).  No number is the one
that stands for an unknown address, and the data are below the code.
`TextAssumption` is a type.

### The driver

For any builds, with any command lines, on any tree, killed any number of times:

* `TypeCorrect`, `InvariantHolds`: the type and inductive invariants.
* `SuccessWhole`: a build that exits with 0 has linked all of its inputs, each
  source as it is now.
* `OldOrWhole`: an output is what it was before or the whole image of a build
  that succeeded, except while it is written or after a kill.

**The argument.**  What an image holds was decided when objects were loaded,
what these hold when they were written, and that when a text was parsed.
`DriverInv` follows a unit on that way: `SourcesKept` (no build writes a source),
`ObjectsKnown` (an object holds a unit that some input compiles to),
`CompilesInput` (the unit a build is compiling is its input's), `Listed`
(`objfiles` has the object of each input so far, in their order, where an
ignored input has no place: `Place` counts), `UpToDate` (the object of a source
the driver has passed holds that source's unit, or that of a later source with
the same object) and `LoadsInputs` (what the linker has loaded is what is in the
files it has loaded it from, and stays so).  A kill leaves half-written
files but no process that believes in them, and a build that is run again is
back at its first input.

**Assumptions.**  `NamesApart`: no two builds write the same text, object or
image; without it they race, and what they compile depends on what ANTLR makes
of half a text.  `OutputsApart`: no output is a source of any build, and no
image is a text or an object of its own build; `cc0 -o a.c a.c` destroys its
source and nobody says that it should not.  `TreesAssumption`: a source that is
there has a function, since the linker cannot tell an object without one from
none.  `ValuesAssumption` and `CommandLinesAssumption` are types.

### kmeans

For any number of points, parts, clusters, iterations, processors and longs in a
page that satisfy the layout the code asserts or comments on:

* `InvariantHolds`: `KMeansInv`.
* `NeverRefused` (`PartsApart`): no runner of a part is ever refused.
* `NothingStale` (`CommitsAreCurrent`): what commits would do the same on the
  heap as it is.
* `EachPartOnce` (`OneRunnerPerPart`): a part has one runner until its trigger is
  set, and none after.
* `TypeCorrect`: types, and that no task reads what nobody has written
  (`ReadsWritten`, which is what makes the type invariant inductive).
* `ValuesRight`, for inputs whose coordinates are at most `bound`, when neither a
  distance between two points nor the sum of all overflows (`SmallInputs(bound)`): a
  part that is done has the sums of the points that are in each cluster now, a
  centroid is disabled or no farther out than the points, and one is not disabled.
* `LloydComputed`, for the same inputs: every step is a step of Lloyd's algorithm
  over the committed centroids, or changes none of them, if it starts where
  disabled centroids attract nobody (`DisabledFar`).  The first iteration always
  does.  That hypothesis cannot be dropped: it is a condition on where points are
  when a centroid is disabled, and the code does not see to it.  On the run's
  inputs it holds, and one of them disables a centroid.

**The argument.**  Either the prologue is under way, with a single task, or
(`Underway`) the triggers tell which runners there are: a part's is 0 exactly if
one runner has the part to do, and the watchers that are there can act on
triggers of that phase.  No watcher acts while a trigger is 0, so the
locations that a runner has read are written by nobody else (`RunnersCurrent`),
and those it writes are in pages of its own part: for the points since
`PSIZE` is a multiple of the page, for triggers and sums because of the padding.
So nothing a runner touches is ever in `missed`.  A watcher that is stale, because
it was activated twice or by a commit of the last iteration, has read `iter`, and
the commit that made it stale has written that page: it is refused.  Types need that
a sum of `PSIZE` vectors is one, which is `SumProofs`, and that a division by a count is
in range.

For Lloyd's algorithm, `ValuesKept` says of each part's sums that they are those
`recluster_runner` would write now.  It is kept because the commit that moves the
centroids also resets the triggers, or is the last.  The watcher adds the sums up: by
parts or all at once is the same (`WholeSum`), a sum of some of the points wraps nowhere
(`PointsSum`), and a mean rounded toward zero lies no farther out than the points
(`MeanNear`), so that no distance ever wraps (`DistanceExact`).  Some cluster has a
point, so one centroid is not disabled.  The loops choose a centroid by a strict
comparison, which makes the choice unique (`OneNearest`); a disabled one loses under
`DisabledFar`, and what is left to choose from are the algorithm's enabled ones
(`SameCluster`).

**Assumptions.**  `LayoutAssumption`: parts of equal size, of whole pages unless
there is only one.  `KMeansAssumption`: `Half` (half the range of a number) is a
multiple of 32, as it is for `long`; inputs are in range; there is a dimension;
`Unset` and `Disabled` are no numbers and no vectors.

### pagerank

For every list of edges that fits, any partition into parts, and any number of
iterations, processors and longs in a page:

* `InvariantHolds`: `PageRankInv`.
* `GraphIsStored` (`GraphStored`): from the commit of `init` on, while the three
  shuffles write it again and while the second program runs, the graph has each
  edge once among the in-neighbors of its target.
* `CopiesHoldAll` (`CacheSuffices`): what a space copied is all its tasks read.
* `ValuesStay` (`WrittenOnce`): no value of the phasing cache changes.
* `RanksComputed`: what the barrier commits and what is printed in the end are the
  iterates of the formula, on the graph of all edges read: the safety of
  `ImplementsPowerIteration`.
* `TypeCorrect` (`TypeOK`): every value of the phasing cache is a number and of a
  version and a vertex there are, and what others see of it is what was written;
  every copy a space has is what memory holds there; and while a task of a later
  iteration is on, the last one's value of every counted vertex is there to be read.

**The argument.**  Memory and phasing cache: the graph is there once it is built,
and every page of it is written with what it holds already; what each space
copied is what that graph holds (`CopiesKept`); and no version after the one being
calculated has values (`WrittenUpTo`).  Tasks: the invariant has
a phase for each thing that can go on.  In `Inputting` there is one task, or the
shuffles, each of which commits the heap as it is whatever the others did.  In
`SettingUp` there is one task.  When iterating, either at most one runner is
there, `new_iter_task` or `topk` (`Between`), or there is one runner for each
part whose status is `CREATED` (`Calculating`), and the part's values of this
version are unwritten until its runner starts.  That is what `WrittenOnce`
needs, since a write is not undone: a `calc_task` that ran twice, or a barrier that
began an iteration twice, would write again.  A barrier that acts has
seen all parts finished and is not refused, so nothing it has read has changed;
one that is late has read `iter`, whose page the commit that overtook it has
written.

The graph: the list of a vertex begins where the running total of indegrees is,
so lists do not meet, and the place of an edge in its list is the number of
earlier edges to the same vertex, which no two edges share (`PlacesApart`).  Hence
the words written are those read, and each edge is found once
(`HoldingRepresents`).  Parts are apart since their ends are the running
totals of `cnt`; a part's in-neighbors lie between the offsets of its first
vertex and of the first vertex of the next part, offsets grow with the vertex, and
the last part ends with its own list (`CopiesSuffice`).

The ranks: a value in the cache is what the formula gives from the
version before (`Share`), which is part of the invariant and true when the value is
written, since by then the version before is complete and synchronised
(`LastSynced`) and every counted vertex is in a part (`AllInParts`).  A task adds up
along a list, the formula over all edges; the list of a vertex has each of its edges
once, and a running total does not depend on the order (`ListedTotal`).  The
commit of the barrier is the abstract `Compute`, the start of `topk` is
`PrintRanks`, and every other step is a stutter: whatever tasks do until
then, no value of the last version changes.  Both sides divide the same way, so nothing
is assumed about rounding.

**Assumptions.**  `InputsFit`: at least one edge, within the maxima of
`config.h`, none to the vertex that is not counted, and the inverse of an
outdegree is a multiple of 1/`Scale` (for any graph there is such a `Scale`).
`PartitionsFit`: the numbers of `cnt` together are as many as the vertices
(`pagerank-frompmem.c0:258` has them for one graph, and checks nothing).
`PageRankAssumption`: no part is empty.

### select_topk and sort

For every number of vertices, every assignment of
integer ranks and every `TOPK_K` up to that number:

* `TopKKept`: the inductive invariant.
* `IdxIsPermutation`: the type invariant; no index leaves the array, no vertex is
  lost or doubled.
* `SelectsTop`: `select_topk` leaves the highest ranks at the end of `idx`.
* `SortsTop`: `sort` leaves them in order.
* `StackIsEnough`: two longs for each of the `TOPK_K` are enough for its stack.

**The argument.**  When `select_topk` works (`SelectInv`) the range it looks at
ends so far from the end of the array that `k` more complete the top, and
ranks below, in and above the range are in order; that holds across a
partition (`Partitioned`: a pivot separates the sides, only ranks of the range move).
In the loop (`LoopInv`) what is before `p` is lower than the pivot and what is
between `p` and `i` is not.  When `sort` works (`SortInv`) two vertices of the top
are in order unless one pending range has both.  For the stack, `StackInv`
says that the pending ranges lie in the top one below the other and that the
m-th ends at least m before the end of the array; a range that is
partitioned has two vertices, so there is room for the two that replace it.

**Assumption.**  The constants of the code satisfy `TopKAssumption` (100 and
10240, `config.h:78`, `pagerank-frompmem.c0:40`) if there are `TOPK_K` vertices.

### Lemmas of general use

`L0Proofs` says what memory holds after a commit (`Over`), which tasks each step
of the runtime leaves, and that a task is refused only for a page it has in
common with a commit since its start.  `SumProofs` shows that a sum over a finite
set does not depend on the order in which the community modules' fold takes its
elements, that it can be taken by parts (`SumInParts`) or over other names
(`SumRenamed`), and what bounds it (`SumWithin`): that fold is a recursive function chosen by `CHOOSE`, and that one exists and is
unique is shown by taking a set of least cardinality on which it would not be.  The same
way, by a least counterexample, it shows what holds of every natural number in a set
that is closed under successors (`EveryNat`); with that `AssemblerProofs` shows what
`FlattenSeq` is, and that the recursive functions of `FrameLayout` have values.  That
running totals exist and grow (`TotalsExist`, `TotalsGrow`) is also there, for the
code's lengths and for pagerank.  These are the inductions over data in the project; the library's induction
theorems have an operator parameter, with which no prover here can work, and the
well-foundedness of the naturals is cited in their place.

### Model-checked only

* Liveness: `Terminates`, `ComesToRest`, `RunnerEnds`, `GoodBuildsSucceed`, `Prints`, and the liveness of `ImplementsLinkSpec`.
* `ImplementsLloyd` as it stands: it is true of the chosen inputs and not of all, since
  a disabled centroid attracts points when its distance overflows (see the
  findings).  `LloydComputed` proves its safety where that does not happen.
* The compile pipeline and the core: `CMeaning`, `ConstantPropagation`,
  `ILGenerator`, `Image` and `TypedTree` are recursive over trees, and a module that
  reaches a RECURSIVE operator cannot be proved about; `Cc0` and `Assembly` reach
  them.  So `SameMeaning`, `CallsBalanced`, `ReturnAddressesKept`,
  `RunnersAsWritten`, `WritesStayInside` and `ImplementsMachine` are checked on
  the programs of the pool.  What they need of the layout and of the addresses in
  the code is proved for all programs.
* The liveness of `ImplementsPowerIteration`: that ranks are printed.

## Not modelled

Floating point, arrays of other types than char and long, structs and members,
shifts and the logical and bitwise operators, division, inline assembly of the
source, the `in` of a runner (`spawnx`), globals in
pages of their own or in registers; `goto` out of a block backwards
(`CMeaning` follows it forwards only); the errors that TypeDeduction reports.
Of the assembly: the end of the 1 MiB buffer, the textual dump.  Of the driver:
options that only pass through, a full disk, ANTLR's recovery.  Whole
components: the lexer and the declarators of the grammar (the tree is where
the model starts); serialization of object files, dumps and maps (output);
`binary/elf` and `cc0_cc` (not used by `cc0` and `ld0`); `pagerank-naiive.c0`
(no makefile builds it), the alphabet example, and the tests (programs, read
for what they expect).  Of pagerank: times and other output; edges to
the vertex that is not counted; fewer vertices than `TOPK_K`.

## Plan

Done: the linker, the optimizer, the layout of variables, the assembler, the driver,
kmeans and pagerank with their proofs; the compile pipeline with
ConstantPropagation, arrays and runners; the core that executes the file.
Next: logical, bitwise and shift operators; a runner's `in`; arrays of pointers
and structs; standalone pages and register globals.
