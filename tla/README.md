# A specification of brainfuck-jit

TLA+ models of the two Brainfuck JIT compilers in this repository, TLC runs
that check them, and TLAPS proofs about them.  Paths below are relative to the
repository root; `src/` in the repository holds the C++ version, which is the one
`CMakeLists.txt` builds, and `src/c/` an older C version with another
intermediate representation and other passes.  Both are modelled.

## 1. Inventory

### C++ version

| component | state | operations | interacts by |
|---|---|---|---|
| parser, `compiler.cpp` | input stream, recursion of `CompileBlock` | `CompileFile`, one branch per kind of character | returns the tree |
| optimizer, `optimizer.cpp` | the tree, edited in place | `BfOptimizeOps`, `BfOptimizeReorder`, `BfOptimizeSimpleLoop`, `BfOptimizeOps` again | each pass relies on the shape left by the one before |
| code generator, `vm.cpp` | `temporary_values` (offset → jit value), emitted instructions | `CompileBlock`, `CompileOpcodeCached`, eviction and renaming at shifts, final stores | reads the tree, calls libjit |
| open loops, `vm.cpp` | `current_loop`, `Loop` records linked by `parent` | `BeginLoop`, `EndLoop` | called by `CompileBlock` |
| `main`, `bf.cpp` | options | parse, optimize, compile, run | calls in sequence |

What makes each correct: the tree means the text, unbalanced brackets included; no
pass changes what the program prints, reads or leaves on the tape; the emitted
code, run, does what the tree says, although cells live in values that are only
stored when a shift moves them behind the pointer; each `EndLoop` uses the labels of its
own `BeginLoop`, although `current_loop` and `Loop::parent` start uninitialised.

### C version

| component | state | operations |
|---|---|---|
| parser, `compiler.c` | current container and block, position | runs of equal commands, brackets, end of text |
| optimizer, `optimizer.c` | the tree | eliminate, clear, reorder, merge, ops, loops; chosen by the level |
| lists, `list.h` | `first`/`last`, `next`/`prev` | `bf_list_append`, `bf_list_remove`, `bf_list_replace` |
| code generator, `vm.c` | one virtual machine for all programs: list of open loops, jit context, signatures of the last function, tape | `bf_vm_begin_jit`, one function per operation, `bf_vm_end_jit`, `bf_vm_run` |
| `main`, `bf.c` | options, what has been read and allocated | file mode; read-eval-print loop: read, parse, optimize, compile, run, free, remember |

`main` hands objects from call to call, and different callees free them: the text of a
line belongs to its `bf_state` and goes with it in `bf_program_from_str`, the program
is freed by `main` or by `bf_compile_file`, functions go with the jit context.  What
makes it correct: no call works on what is gone (two calls do, see `UsedWhenGone`); a
turn of the prompt leaves nothing behind that would pile up; every line does what it
says on the tape that the lines before have left, whatever they left in
`current_loop`, the pointer or the labels.

The macros of `list.h` evaluate their arguments anew at each use, and blocks and
operations are freed while passes walk over them.  The lists are a source of
trouble of their own: the passes must find their way along lists that they edit.

### What is hard

Nothing runs concurrently and nothing is persisted.  The hard behaviours are long
sequences of legal edits and calls that must preserve a relation between two
structures (pointers and sequence; tree and text; map of cached cells and memory;
recursion and linked records), facts that are stale when they are used (cached
cells after a jump, macro arguments after an assignment, addresses after a free),
and boundaries (end of input, wrap-around of cells, a stray bracket).
`PROJECT.json` lists each hazard at its line, with the properties aimed at it.

## 2. Modules

```
BfMachine               tape machine, opcodes, an interpreter of them
 ├ CppVM (FlatCode)     code generator, run of its code beside the interpreter ┐
 └ BfProgram (BfText)   trees, flat code, meaning of a text, runs              │
    ├ CppCompiler       parser                      ┐                          ├ CppMain
    ├ CppOptimizer      passes over the tree        ├ CppFrontEnd              ┘
    │  (CppPasses       what they do to opcodes)    ┘
    ├ CProgram (CTree)  tree of the C version
    │  ├ COptimizer     passes over the tree        ┐
    │  │  (CPasses      what they do to operations) ├ CFrontEnd   ┐
    │  │  CCompiler     parser (CTree, BfText)      ┘             │
    │  └ CVM            run of the functions                      ├ CMain
    └ BfSession         what a session promises: CMain implements it
CProcess                order of main()'s calls, who owns what    │
 └ CJit (LoopStack,     code generator, its list of open loops    ┘
         FlatCode)
FlatCode                flat code of a tree: operations, loops that do not cross
LoopStack implements LoopNest  linked Loop records give nested jumps
CJit implements LoopNest       so do the jumps of each function in turn
ReorderRuns (CppPasses)        original and reordered program side by side
BfList                         list.h on pointers
 ├ COpList                     every edit of a list of operations
 │  └ COpWalk (CPasses)        the passes that walk a list and edit it
 └ CMergeBlocks (CBlockRuns)   the merging of blocks; COptimizer uses CBlockRuns

proofs: LoopStackProofs, LoopNestProofs, CppProofs (ReorderRuns, CppPasses, CppVM),
        CCompilerProofs, CMergeBlocksProofs, COpWalkProofs (COpList, COpWalk),
        CProcessProofs (CProcess, CJit), FoldProofs (FoldLeft of SequencesExt)
```

`MC*` modules give the inputs of the runs.  `*Proofs` modules hold the proofs; what they
are about, and all it extends, is free of recursive operators, which the provers cannot
use: `BfText` and `CTree` are apart from `BfProgram` and `CProgram` for that reason.

**Conventions.** Addresses are relative to the cell the program starts on
(`data + MAX_CELLS / 2`).  The tape is a window `Lo .. Hi`; touching a cell outside
it is a fault, after which nothing is required.  Cells are numbers modulo
`Modulus` (2^32 in the code).  Definitions named `X_Something` in front of `X` are
deliberately wrong variants of `X`, which no specification uses: each property is
known to notice the one that `PROJECT.json` pairs it with.

**Correspondence.** `PROJECT.json` maps each definition to its lines.  In short:
- `CppCompiler`: `frames` is the recursion of `CompileBlock`, one entry per call with the
  block under construction; each action is a branch of the reading loop.
- `CppOptimizer`: one step per pass; a pass is a fold over the children of a block,
  since each walks its list once and edits behind the iterator.
- `CppVM`: one step per opcode of the flat code (`LOOP` and `END` are the calls of
  `BeginLoop` and `EndLoop`); `temporary_values`, the values made so far and the
  instructions.  The iteration order of the unordered map is any order.  Then the
  function runs (`jit`), one step per instruction, on any of the inputs `Stdin`, with
  values nobody has set holding any of `Unset`.  An interpreter of the same opcodes
  (`plain`) runs beside it and takes a step whenever an instruction of the function
  has its effect, so that the two can be compared at every instruction.
- `LoopStack`: `heap`, `current_loop`, an allocator that returns any free address, and
  uninitialised pointers that hold anything.
- `ReorderRuns`: one machine runs the original opcodes, the other the rewritten ones;
  steps are the branches of `BfOptimizeReorder::Visit`.
- `CCompiler`: `open` is the chain of `parent` pointers from the current container
  down to the program, empty when `container` is null.
- `COptimizer`: one step per pass of `bf_optimize_program`, at any level; `broken`
  once merging has corrupted a list of blocks or crashed.
- `CMergeBlocks`: the loop of `bf_optimize_merge_blocks` by pointers: `alive` addresses,
  `holds` what each merged block is made of, and status "crashed" or "wild" when
  null or freed memory is used.
- `COpList`: `list` are the pointers, `items` the sequence they are meant to be.
- `COpWalk`: one step per turn of a loop over operations; `op` and `offset` are the
  variables of the loop, `fields` what the nodes hold.  Every edit is one of `COpList`.
- `CJit`: one step per operation or bracket of the tree, whose code is `flat`;
  `BeginLoop` and `EndLoop` are those of `LoopStack`, whose variables survive
  `bf_vm_begin_jit` except for labels and instructions.  `CVM` runs what it emits.
- `CProcess`: `stage` is what `main` does next; `live` are the objects allocated and not
  freed, `dangling` collects what was used or freed without being live.  What the calls
  compute is left out.
- `CMain`: `CJit` with `CFrontEnd`, `CVM` and the machine filled in; each action is one
  of `CProcess` together with a step of a part, or a step of a part within a stage.
  `AnswersAsTyped` includes that its steps are steps of `CJit` (`JitSpec`), so that what
  is proved of `CJit` holds of it.  `misread` is a history variable: a pass of the last
  text has met one of the two programs that `Misread` of `COptimizer` names.  `BfSession`
  promises less of such a text (`Misanswer`), and says so, rather than that the
  texts are chosen to avoid them; `AnswersAsTyped` includes that only level 2 misreads.

## 3. Runs

| run | shows | bounds |
|---|---|---|
| `loop_stack` | chain of `parent`s is the recursion of `CompileBlock`; nothing leaks, nothing freed is used; jumps pair up; refinement of `LoopNest` | 3 addresses, 5 loops in all: nesting to depth 3 and reuse of addresses |
| `cpp_main` | the C++ version from text to run: the parser ends, its tree means the text, prefix by prefix; every pass preserves runs; shape after each pass; cache invisible when the map is the same on all paths | all texts of ≤ 6 characters of `[ ] - #`; 3 510 loops with up to 3 of 8 pieces, entered or not; 2 331 loops around cached cells; tape of 4 cells, modulus 4, one character of input, two contents of unset values; a run is left alone after 6 outputs (`MaxPrinted`) or 2 cells off the tape (`MaxStray`): 1 108 501 states |
| `reorder_runs` | machines in step, meet at block boundaries | any sequence of opcodes, pointer within 2 cells, 2 outputs |
| `c_frontend` | parser ends, its tree means the text, crash exactly after a stray bracket; every pass of every level preserves runs, except two named misreadings, which only level 2 meets; the other levels run every text as it says | all texts of ≤ 5 characters of `[ ] - > . #`, and 1 600 loops of pieces, at 4 levels |
| `c_merge_blocks` | merging crashes or uses freed memory only on lists that do not survive; if it comes to its end, then completely and in order exactly for those that do; never circles | all lists of ≤ 7 blocks, 8 addresses |
| `c_op_walk` | the pointers stand for the sequence meant while passes edit the list they walk; turn by turn the walks make what `CPasses` says | blocks of ≤ 5 operations of each kind a pass may be given, 6 addresses, interchangeable (`MCSymmetry`; no liveness is checked here) |
| `c_main` | the C version as a process: each text does what it says on the shared tape (refinement of `BfSession`), unless level 2 misreads it; what is live when, and the two uses of what is gone; loops of one function leave no trace in the next; what kills the process; the prompt comes back | a file or up to 2 lines, 13 texts, 10 that act on each other and 3 that level 2 misreads, 4 levels, 2 addresses for loops: 284 101 states |

Violation runs, each with its finding in `PROJECT.json`:

| run | what TLC finds |
|---|---|
| `cpp_repeated_add` | two multiplications of the same cells fused by multiplying their factors (`optimizer.cpp:27`) |
| `cpp_stale_cache` | cached cells out of date when a loop comes round, or is left (`vm.cpp:66`): `+[.>]>.<` prints 1 1 instead of 1 0 |
| `c_clear_offset` | `[<->]` taken for `[-]` at the default level (`optimizer.c:46`) |
| `c_default_level` | the first of two clears of different cells dropped (`optimizer.c:207`): `+.[-]>[-]<[.-]` prints 1 1 instead of 1 |
| `c_merge_crash` | null pointer followed when the last two blocks are merged (`optimizer.c:288`) |

**Why the bounds are enough.** The passes treat each opcode by its kind and by whether
offsets are equal, zero or negative; windows of four cells with the start in the second
give all of these.  Modulus 4 has a middle, a wrap-around and -1 ≠ 1.  Pieces
rather than characters let a body hold nested loops, cleared cells and excursions to
either side within three choices.  `Fuel` bounds runs: an original still
running when it is gone must be matched by a translation still running with the same
output so far (`Agree`), so that too little fuel could only show as a disagreement.
The run of the function needs no fuel: on a finite tape a run that goes on for ever goes
through the same states again or prints, and `MaxPrinted` leaves room for every cell
to be printed and for a loop that prints to come round a few times.
Merging needs seven blocks: only from there on can the address of a freed block be used
again while a stale `prev` still points to it, so that a run of containers is
unlinked and the loop ends as if nothing had happened (`<<T,T,T,F,T,T,F>>`, T a block
of operations).  Eight and nine blocks show nothing more.
In `c_op_walk` a sixth node is needed for the operation that replaces one of a full
block; five operations let a walk merge, stay and go on at least twice.  In `c_main` the
second line finds whatever the first can leave: tape, pointer, loop records, signatures;
a third would find nothing else.
Three of its texts survive merging and are misread: one leaves another tape to the
line after it, one never ends, one ends although it should not.  The proofs of section 4 need no such bound.

**Fairness.** The parsers, the merge loop and `main` of the C version have liveness
properties (`Terminates`, `Stops`, `ComesBack`).  Each is one thread: weak fairness of
its steps says no more than that the thread keeps running.  In `CMain` only `readline`
may wait for ever, so no fairness is assumed of typing a line or of the end of input;
a pass of the optimizer is assumed to end (`PassEnds`);
and a run is assumed to end one way or the other (`RunEnds`): with its result, or, when
it leaves the tape or is still running out of fuel, with the end of the process.

The passes run on what the parsers make (`CppFrontEnd`, `CFrontEnd`), so that every text
a parser may be given also goes through the passes.

**Deadlock** is not checked: every model is a program that ends, or a data structure
that is full.

## 4. Proofs

All are checked by TLAPS for every value of the constants under the named
assumptions of the modules.

**`LoopStackProofs`** (from `LoopStackAssumption`: null is no address).  The inductive
invariant `IInv` is that instructions carry labels libjit has numbered, and `Chain`: the types
of the records, `ChainMirrorsCalls` (the parent of each active call's Loop is the Loop of
the call around it, `current_loop` is the innermost), the liveness of exactly these Loops,
and `OpenLabels`: libjit has numbered the labels of each of them.  The chain says nothing about the
parent of the outermost Loop, which is how garbage stays harmless: it comes back into
`current_loop` only when no call is active.  Results: `TypeCorrect`, `NeverWild`,
`ChainCorrect`, `LiveLoops`, and `Refinement` (the list implements `LoopNest`, where the
open loops are the labels found in the heap along `calls`); `BranchesCorrect` follows from
the refinement and `Pairing` below.

**`LoopNestProofs`** (no assumptions).  Every exit lands behind the jump back to the label
it stands behind, and no label is placed twice (`Pairing`).  That is not inductive by
itself: `PInv` adds that labels are numbered in the order they are given out, that of an
open loop the start is placed, the end is not and the exits to it stand behind the
start (`OpenLoops`), and that a label used and not yet placed is the end of an open loop
(`Targets`).

**`CppProofs`**.  Of reordering (from `MachineAssumption` and `ReorderAssumption`),
`TypeOK /\ InStep` is inductive.  The key lemma: an opcode that is no shift, applied with
the pointer moved by k, does what the same opcode with offsets moved by k does.
`SameBranches` follows: at boundaries the machines are equal, so loops take the same
branches.  Of fusing, for every machine, cell size and pair of opcodes: fused additions
and shifts do what the two do (`SumsFuse`; the key lemma is `WrapSum`,
that wrapping around twice is wrapping around once); so do two settings of one cell
to one value (`SettingsFuse`), a condition the code relies on without testing it; and
two multiplications of the same cells would be one by the sum of the factors
(`FactorsAdd`), where the code takes their product, as `cpp_repeated_add` shows.

Of code generation, from `MachineAssumption` and `VMAssumption`, for `VMSpec`: any
program, given as the flat code of some tree (`IsTreeCode`: loops do not cross and lead to
each other; `cpp_main` checks of the trees the optimizer makes that they are that).
- `VMTypeCorrect`.  That no two cells share a value and that jumps lead somewhere is not
  inductive alone.  `TypeInv` adds that the loops entered are those of the tree around
  the position reached (`Nested`), so that none is open at the end, and that a label
  which is used has been placed or is the end of a loop still open (`LabelsOK`).
- `CoherentCacheCorrect`.  The hypothesis is the history variable `coherent`: the
  current cell was cached before each loop, each loop left the map as it found it, no shift
  renamed a value over another it keeps.  The conclusion compares a function with an
  interpreter that are at the same point of the program only in a sense that the
  state does not hold: the map at an instruction is gone once the generator is past it.
  So the invariant `Annotated` says that there are notes, one for each position of the
  code: the opcode that is being executed there, and the map that held there.
  *The generator* (`Good`): each instruction takes its note to the next one's (`Takes`), a
  jump lands at the note its opcode leads to (`Landing`), and the marks of loops still open
  have the notes of their beginning (`OpenNotes`).  Each step of the generator extends the
  notes (`NotesOpcode`, `NotesShift`, `NotesBeginLoop`, `NotesEndLoop`, `NotesFinish`); the last
  four of the five are where `coherent` is needed or the map shrinks.
  *The run* (`Coupled`): at each instruction the interpreter is at the noted opcode,
  and the function's machine mirrors the interpreter's through the noted map (`Mirrors`:
  same pointer, input and output, and each cell of the tape is the one in memory or the one
  in its value).  One lemma for each opcode says that its instruction keeps that
  (`AddMirrors` .. `GetMirrors`, `ShiftMirrors`), others that loads into spare
  values and stores of cached cells are invisible (`LoadMirrors`, `StoreMirrors`).
  At the end of the code the noted map is empty, so the machines are equal.

**`CCompilerProofs`** (from `CCompilerAssumption`).  The invariant counts: with the depth of
the brackets read so far never below 0, as many containers are open as it says and one
more for the program (`Opened`); once it has been below 0, `container` is null, and the
block holds something exactly if a command has been read since the stray bracket
(`LeftAt`), which is why a text that ends right behind one does no harm.  With it goes
that every container that is open is well formed.  `CrashesJustAfterStray` reads off it.

**`CProcessProofs`** (from `ProcessAssumption`).  The invariant is a ledger: for each
stage of `main` and each mode the exact set of live objects (`Live`), next to which stages
come with which number of lines (`Control`) and the exact set of what has dangled.
`UsesAreLive`, `PilesUp` and `HistoryDangles` read off it: the first says what each
stage works on, reads included, and that all of it is live but for the line that goes into
the history and signatures that no line has set.

For `CJit` (from `JitAssumption`, for the code of any tree: brackets that lead to each other and
do not cross, `IsTreeCode`) the invariant `JitInv` takes the chain of records from
`LoopStackProofs` (`Chain`, which `BeginLoopChain` and `EndLoopChain` show to be kept whatever
is emitted) and adds what carries it from one function to the next: there are as many calls as
loops of the code that the walk has entered and not left (`UnderWay`), so none is open when
it has come to the end.  `LoopsEnd` follows.  For `FunctionsNest` the jumps have to be
found among the other instructions: they are a fold over what has been emitted, of which
`FoldLast` of `FoldProofs` says what an instruction more makes of it; operations add none
(`OperationsKeepJumps`), loops add `LoopNest`'s (`LoopStartOpens`, `LoopEndCloses`).

**`CMergeBlocksProofs`** (from `BfListAssumption` and `CMergeBlocksAssumption`).  The list
is never intact while it is merged, so the invariant says how far it is not.  Ahead of the
loop's pointer the list is as it was built, except that the `prev` of one block may be stale:
the address of a block freed since, perhaps in use again, but never for one of the blocks
ahead (`Ahead`).  Behind it, either everything is as it should be (`Clean`) or something is
lost already and the outcome decided (`Lost`, `Doomed`); which of these holds is a
function of the kinds of the blocks alone, `Survives` of `CBlockRuns`.  That is where
the allocator comes in: an address that is used again can turn a crash into an unnoticed
loss, but never into a good end.

**`COpWalkProofs`** (from `BfListAssumption`: NULL is no node; `COpWalkAssumption`: the routes
consist of passes).  For any edits of a list in any order, `TypeOK /\ Intact`
is inductive.  One lemma per macro says what it does to a linked list (`AppendLinked`,
`RemoveLinked`, `ReplaceLinked`); `RemovesSuccessor` shows why naming the node to remove
as `op->next` is safe in `bf_optimize_ops`, where op has left the list, as opposed to
`bf_optimize_merge_blocks`, where block has not.  `WalksAreFolds` is about the loops
themselves: at every turn the pointer is at a place k of the list such that the
operations before k, with the rest of the fold from k on, give what the pass makes of
all it was given (`WInv`).  A turn takes one step of the fold (`ReorderTurns`,
`LinearTurns`) or, in `bf_optimize_ops`, half of one (`OpsTurns`: that the loop has
compared an operation with its successor is not in its pointer).

**`FoldProofs`** (no assumptions) is the induction that the walks need: `FoldFirst`, that
folding from an element on is folding what follows from where that element leads, and
`FoldLast`, that an element appended is folded last.
The operator folded is a constant of the module, so each instance gives the
theorem for one operator; induction theorems with an operator as a parameter, which
the provers cannot instantiate, are not needed.

**Only model-checked:** the meaning of the trees that the parsers make, the passes over
whole trees (of reordering, paths through them are proved; of fusing, pairs of opcodes;
of the C passes, what the pointers do to a block), what the instructions of the C
code generator do when they run, and the composition of both versions (`AnswersAsTyped`
of `CMain`; that `CppMain` gives the code generator the flat code of a tree).  Their meaning is defined
by recursive operators over trees or runs, which are out of reach of the provers used
here, as are the liveness properties.

## 5. Not modelled

- Printing, timing, the dump of a function, the debug variants of putchar and getchar: they
  read state and change none.
- Option parsing: the level is any level, the mode any mode.
- The C++ file that cannot be opened reads as empty, which is one of the texts.  In C
  it reads as whatever the memory holds, which is any of the texts; a null text after
  a failed allocation is left out.
- `readline` and `getchar` share the standard input and buffer it separately; how is up
  to the terminal and both libraries.  Here programs have an input of their own.
- Overflow of `int` in sums and products of arguments, which takes very long texts.
- What a cell outside the array holds; leaving the tape ends a run and with it the claims.
- What happens after merging has corrupted a list of blocks: in `COptimizer` every list
  that does not survive makes the tree `broken`, and the process is taken to die.
- `bf_vm_reset`, which nothing calls, and `BfOptimizeConstants`, which is empty.
- libjit is external: its instructions do what their names say.

## 6. What could follow

1. The passes over lists of blocks other than merging (eliminate, clear, loops) by
   pointers, as `COpWalk` does it for operations.
2. A proof that fusing a whole block preserves what it does, from `SumsFuse`, and that
   unrolling a loop of additions does, for a given number of iterations.
3. For the C code generator the proof that `CppProofs` gives for the C++ one; without a
   cache, `Mirrors` becomes equality at the end of each operation.
