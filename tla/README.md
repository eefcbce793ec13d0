# HCC in TLA+

HCC compiles HistoryC, a small C whose *history variables* remember the values they had
before (`var int x<:3:>`, `x<:2:>` is the value of two assignments ago), to SPARC V8
assembler.  This directory holds TLA+ models of the parts of the compiler and of its
runtime library that have logic of their own, the TLC configurations that check them on
small instances, and TLAPS proofs of the properties that matter most.

`PROJECT.json` is the machine-readable index: the runs, which definition models which
lines, one mutant per checked property (a plausible bug that makes TLC report the
property), the hazards, and the theorems.

    tlc -config HistoryScalar.cfg MCHistoryScalar
    tlapm HistoryScalarProofs.tla

## 1. The system

`compiler.c` runs the passes in this order, in one process and one thread:

    cpp -> yyparse (lex.l, parser.y)                 the AST
    create_global_scope, parse_declarations          scopes, symbols, frames (scope.c, symtable.c)
    munge_*                                          rewriting of the AST (ast.c)
    type_check_node, set_global_offset               typechk.c, scope.c
    parse_ast                                        MIR code (astparse.c, history.c, mir.c)
    inline_funcs                                     inline.c
    mir_munge_globals .. mir_label_nodes             passes over the MIR list (mir.c)
    mcfg_build, global_load_store                    graph of each function (mir_cfg.c)
    allocate_registers                               regalloc.c, mir_cfg.c, again until nothing spills
    gen_sparc_code                                   sparcgen.c, stabs.c

The compiled program is linked with `rtlib/`, which executes the history operations.

| Component | State it keeps | Operations | Where |
|---|---|---|---|
| Scalar history storage | the words of the variable, `.x_ptr`, `.x_cur` | init, store, load; flat or cyclic; by call, inline, or short code | `rtlib/history.c`, `history.c`, `sparcgen.c` |
| Atomic blocks | `atomic_counter`, `atomic_modified` (compile time), `.x_cpy` (run time) | enter, exit, store | `history.c`, `astparse.c` |
| History arrays, array-wise | snapshots, `.a_ptr`, `.a_cur`, the change list | init, store, load with the O(n) or the O(d) algorithm | `rtlib/harray.c`, `history.c` |
| History arrays, index-wise | a cycle and a pointer per element | init, store, load | the same |
| Scopes and frames | the scope tree, symbol tables, offsets | declare, look up, size, place | `scope.c`, `symtable.c` |
| MIR list | one list of instructions with jumps between them | insert, remove, the passes | `mir.c` |
| Abstract syntax tree | the trees of the functions | build, two rewriting passes | `ast.c` |
| MIR generation | the list, labels, temporaries | one case per AST node | `astparse.c` |
| Inlining | the list, scopes, offsets | copy a function into its callers | `inline.c` |
| Flow graph and liveness | nodes, edges, in and out sets | build, analyse, insert nodes | `mir_cfg.c` |
| Interference graph and colouring | bit matrix, adjacency lists, stack, colours | build, prune, assign | `regalloc.c` |
| Spilling and the allocation loop | stack locations of temporaries, the list, the graph | spill, repeat | `regalloc.c`, `mir_cfg.c` |
| Type checker | annotations on the AST | check, coerce | `typechk.c`, `utype.c` |
| SPARC generator | counters of arguments and stack words | one sequence per instruction, the frame | `sparcgen.c` |
| Debug output, lexer, parser, the older IC back end, driver, library I/O | | translation and formatting | the rest |

How they interact: `parse_statement` calls `history_enter_atomic`, `history_exit_atomic` and
`history_store`, which append to the MIR list; what they append runs against the library's
data layout, whose sizes `symtable.c` computes.  `regalloc.c` reads the live sets of
`mir_cfg.c`, builds the interference graph, colours it, and on a spill inserts
instructions into the MIR list *and* nodes into the flow graph, and the analysis starts
over.  There is no concurrency, no persistence and no message; what is hard here is
  - *data structures edited in place over many steps*: the cyclic pointers, the change
    list, adjacency lists taken apart and rebuilt, the shuffled predecessor arrays;
  - *two descriptions of one thing that must agree*: two algorithms for one array, three
    load paths for one variable, the condition that picks a layout and the one that
    initialises it, what a block assigns at compile time and at run time;
  - *ordering inside iterations*: depth-first walks whose result must not depend on the
    order, changes applied in sequence, variables kept in lists across constructs;
  - *termination* of loops that run until a flag stays down.

What makes each component correct:
  - storage: a load delivers the value of k assignments ago and a store touches its own
    words only, whatever the layout and however long the program runs;
  - atomic blocks: nothing is visible before the end of the block; at the end exactly
    the variables the block assigned get one more history;
  - arrays: every snapshot is the array as it was at the time;
  - liveness: exactly the live variables, for every graph and every order;
  - interference graph: what a node writes is linked to everything live after it;
  - colouring: proper, complete but for the spilled nodes, which had no choice;
  - spilling: every use reads a value that was stored after the last definition, and the
    loop ends;
  - frames: two variables that live at one time never overlap; an inlined copy never
    shares a word with its caller or with another copy;
  - MIR list and inlining: no jump ends outside its function or on a removed instruction;
  - type checker: what does not fit is rejected and nothing else is; a history variable is
    loaded exactly where it is read;
  - all passes together: the code that comes out computes what the program means, and
    every instruction of it is one the printer has.

## 2. The modules

    Histories          what an assignment does to the values a variable shows
    HistoryAbs         the abstract history variable
      ^ implemented by
    HistoryScalar      storage of one scalar                 HistoryScalarProofs
    HistoryArray       storage of one array                  HistoryArrayProofs
    AtomicBlocks       atomic blocks, parsed and executed    AtomicBlocksProofs
    Liveness           flow graph, live sets, interference   LivenessProofs
    RegColour          colouring of any interference graph   RegColourProofs
    SpillCode          the allocation loop and its code, executed
                                                             SpillCodeProofs

    TypeSigs           type signatures and sizes
      Frames           scopes, offsets, inlined locals, spill locations, frames
                                                             FramesProofs
      Trees            the tree and its rewriting
        Programs       the declarations of a program
          TypeCheck    the type checker
            MirGen     code for the tree  (with MirList, the instruction list)
              MirPasses  inlining and the passes over the list
          SourceSemantics  what a program means
      Compile          the composition: compile a program, run the code

    IndexLemmas        numbers, recursion on an index: for SpillCodeProofs, FramesProofs

Each `MC*` module only defines the small sets a configuration uses.  Operators keep the
names of the functions they model (`adjust_neighbours`, `history_exit_atomic`) or name the
part of one (`Visit` is `liveness_at_node` up to its recursive calls).  Mistaken variants
of an operator are marked `Mistake:` or `Mutant of`; no specification uses them.

### HistoryScalar

`mem` is the memory around a variable: its own words and one of each neighbour, so that
running out of the storage is visible.  `ptr` is `.x_ptr`, in words relative to the base,
`cur` is `.x_cur`.  `conf` holds what decides the layout: the option
`--history-simple-store`, its depth, and whether the variable is local.  `Flat` is the test
in `history_add_internal_names`, `InitScalarEmitted` the one in `init_history_vars`; they
are not each other's complement, which is the first finding below.  Contents of the stack
are arbitrary; globals are what the data segment says.  `Store`, `LoadIndexed` and
`LoadConst` are the three code sequences `history.c` emits, with the library function they
call as part of the action.  Inline forms compute the same as the functions.

`ImplementsHistory` is refinement of `HistoryAbs`: the histories a variable shows are
computed from memory by the load functions (`Visible`), every store is `Push`, every load
delivers an element.

### AtomicBlocks

A behaviour first parses a function body (one statement or brace per step, any body of at
most `MaxTokens` tokens, closed properly) into instructions and then runs them; `if` and
`while` take either way.  The compile time counter and list are those of `history.c`; the
copies `.x_cpy` start with arbitrary values as the stack does.  `want` is what the source
asks for: the outermost block adds one history, the last value assigned, to each variable it
assigned while it ran.  A history store is `Push`, which `HistoryScalar` justifies.  `do`
and `for` differ from `while` in where the test is.  Calls and returns inside a block are
not modelled; see section 6.

`BlocksCommitOnce` leaves out bodies with a block in a block (`Nested`): entering the inner one
empties the list of the outer one (`history.c:59`), although the warning at line 55 says it has no
effect.  It also leaves out assignments under a condition inside a block, which is finding 2.

### HistoryArray

Offsets instead of addresses; the snapshots, the present array and the change list of
`rtlib/harray.c`.  The loops over the elements and over the change list are functions of the
whole array: of several changes to one index the one that the loop reaches last wins.
`hist` keeps the arrays the source asks for.  The word `Junk` stands for whatever the stack
holds.

### Liveness

`code` is any function body that the parser could produce as far as the shape goes: the exit
can be reached from every node (`ReachesExit`).  An instruction is told apart as far
as the analysis does: what it reads, what it writes, a call's arguments, where it jumps.  A
walk of `liveness_at_node` is a stack of calls, each with the predecessors left to visit, in
any order.  `live` is computed once, in `Init`, from the definition of liveness and not by an
algorithm: the least set closed under use and flow.  `again` records that the walk is not
the first.  `ig_build_graph` is the last step.

### RegColour

Any symmetric graph with any spill costs.  `adj`, `rem` and `num_adjs` are `adj_node`, `rem_node`
and their counter; the lists are sets since their order never matters.  `ScanPush`, `ScanSkip` and
`ScanPassEnd` are the two nested loops of the degree < R rule, `ChooseSpill` the search for
a candidate, `Pop` a round of `assign_regs` with its reconnection and `min_colour`.

### SpillCode

A behaviour rewrites one function in passes and then runs it.  `fn` is the instruction list
(`order`), the instructions by number of creation, the flow graph with the arrays `succ` and
`pred` in their order, and the counter of temporaries.  `NumberRegs` is the first half of a
pass, from `ig_build_graph` to the colouring; which registers the colouring marks is left open, so
that nothing depends on costs or on the number of hard registers.  `SpillReg` is a round of the
inner loop of `gen_spill_code`, `NextInstr` one of the outer; `cur` and `instr` are `current` and
`instr`, which come apart when a store was inserted.  `mcfg_insert_node` is modelled with its loop
over an array that shrinks and is shuffled underneath (`MovePreds`).  When nothing is marked the code runs,
on as many registers as it names, in step with the function as it was before (`want`).

`gen_spill_code` does not provide for everything, and `odd` collects what came up: a load inserted
in front of the target of a branch, which the branch skips (`jumped`); a load for a second register that lands
behind the store for the first (`late`); a stack location found under a number that meant another register
in an earlier pass (`shared`); a received argument, turned into `MIR_PUSH_ARG`, whose second use in one
instruction or use as a pointer keeps the old register (`unloaded`); a store in front of the
target of a branch (`joined`).  `UsesReadLast` is claimed outside the first four, each of which does lead to
a wrong value when it is let in, and `GraphFollowsCode` outside `jumped` and `joined`, where
`mcfg_insert_node` moves some edges that do not belong to the new node and skips others.

### TypeSigs and Frames

A signature is a kind of declaration and a list of elements, as `type_sig_t` is; `Array(n)` has one
dimension, `History(n)` a depth, `Struct(n)` the number of its definition.  The operators that
`typechk.c` and `symtable.c` share are here, sizes among them: they compute what the code computes, and what
a value *needs* is defined separately (`Needed`, from the meaning of the type).

`Frames` builds scopes and records as the declaration pass does.  `scopes` is the tree by number, with
`prev` the scope around it; `records` are the name records, with the size their type gives
(`entry_size`) and the bytes that are needed.  `DeclareGlobal`, `DeclareFunc`, `EnterFunction`, `add_scope`, `LeaveBlock`
and `LeaveFunction` are the walk over the declarations, in any shape the bounds allow; a history variable brings
its internal records with it (`history_add_internal_names`).  `set_scope_offsets` gives offsets from the innermost
scope outwards, `InlineCall` runs `copy_locals`, `SpillTemp` gives a temporary a place behind the scopes,
`add_temps_to_scopes` and `FrameSize` are what `regalloc.c` and `sparcgen.c` make of it.

`func_inline` are the functions still to be inlined.  Their code is not in this module, so a call that is inlined
has any calls in the copy that the walk of `inline_funcs` allows, and each disables the inlining of the function it calls
(`inline.c:66-73`): of the function that is being inlined, when it is recursive, or of one that was inlined before.  `Left` is what
`remove_inlined_funcs` leaves, a function that was inlined *and* disabled included: its records were moved by `copy_locals` all the same.
Functions are walked in some order; without `--inline` a program behaves as one that declares no function inline.  An inline function
that is walked before any caller and calls itself is not among the behaviours: the loops of `inline_funcs` (`inline.c:45`) and `copy_locals` then
follow what they insert themselves, without an end.

Excluded by name: `CopiedOnce` (a function with variables in several scopes, or inlined twice, has its
offsets moved more than once, `inline.c:134`; variables that come from a function into which they were inlined before
have offsets that count the header of its frame, by which the caller's does not grow), the variables of a function that is left although it
was inlined (`FramesHold` only: they are moved behind everything the caller has, which may be outside of the function's own frame; they stay apart, and
its temporaries inside), `MeasuredByBase` (sizes of arrays of pointers or structs, `sizeof_array`, and
of histories of arrays with several dimensions, whose elements are added up, `typechk.c:1250`), `IndexWisePointers`
(one word where `rtlib/harray.c:21` sets a pointer for each element), `BaseCopy` (the copies kept for a history of pointers have
the base type and one dimension, whatever the values are, `history.c:423-442`).  The first four are necessary: without
any of them TLC reports the property in this instance.  The last is necessary as soon as a history pointer
such as `char *p<:2:>` is among the types; with it the run takes half as long again, so the instance does not have it, and
`FramesProofs` covers those types.  Structs have no internal records: they are declared by `NODE_STRUCT` (`symtable.c`), which adds none.

### Trees, TypeCheck, MirList, MirGen, MirPasses

The passes are functions of the tree or the list, written as operators.  A node is a record; what the C code
finds by looking up (`find_parent`, `child_number`) comes down as the record of the way to the node (`Way`).  An error
of the type checker is a rejected signature.  Where two nodes share a `type_sig_t` in memory and one is
changed later, the change is made to both (`Shared`).

The list of instructions has its spare node (`mir_get_tail` returns one that has no instruction yet, so that jumps
can go to what comes next), numbers for nodes, and the count of links to each.  An expression leaves an operand; an
operand may be *dereferenced* (`ind`), which `mir_munge_pointers` resolves.  Passes over the list are folds over the
nodes that were there when the pass began (`Sweep`); instructions that a pass inserts are not visited by it in the code either,
or are left alone by it.  A field of an expression or a node that nothing
set (`malloc` leaves it as it is) is taken to be zero.

### SourceSemantics and Compile

`Meaning` is written from the meaning of C and not from the compiler: programs are put into a small language
of loads, stores, conditions and loops (`Plain`), and evaluated with a memory (`Execute`).  `Undef` is a value that nobody may rely on.

A behaviour of `Compile` takes one program through the passes in the order of `compiler.c`, one action for each, and
then executes the result, one instruction for each step, by what the instructions do that `sparcgen.c` prints for it
(`ExecReceive` counts arguments as the printer does, `ExecEnd` has the return that the printer leaves out).  Registers
are still symbolic.  The programs can be rejected by the type checker, refused by the flow graph (a jump that leaves its
function) or make inlining or a pass follow a null pointer (`lost`, `HasNullMove`); `phase` tells.

`MeansSource` is claimed for programs outside a list of named situations, each with the code that is behind it:

| Name | Situation | Code |
|---|---|---|
| `TruthAssigned` | the value of a comparison or a connective is assigned: only the last of its two moves gets the variable | `astparse.c:845` |
| `Conjunction` | `&&` tests its first operand twice | `astparse.c:324` |
| `Division` | no code is printed for it | `sparcgen.c`, the cases of the printer |
| `CallResultLost` | a result reaches only the variable of an assignment | `astparse.c:618`, `mir.c:854` |
| `ArrayAsPointer`, `GlobalPointer` | an array as a value; a global pointer, used by its address | `typechk.c:569`, `mir.c:428` |
| `FallsThrough` | a function that ends with an `if` that returns has no code for its end | `sparcgen.c:382` |
| `SecondOnStack` | every argument on the stack is read from the first place | `sparcgen.c:314` |
| `ArgumentSkipped` | the jump over an `if` passes the load of a constant argument of the call behind it | `mir.c:754` |
| `EarlyReturn`, `LoopAtEnd`, `ValueDropped` | inlined code: returns before the end, a last jump, an unused value | `inline.c:88` |
| `NothingInlined` | an inlined function without arguments and without code: the walk over the copies starts behind its end and runs off the list | `inline.c:87` |

`Encodable` has `ConstantFirst` besides (a constant first operand of a product or a condition, which
`mir_rhs_constants` leaves), `TypesAgree` has `HistoryAsIndex` (a history variable as an index on the left is refused).
Each was checked to be necessary: without it TLC reports the property in this instance.  962 programs remain whose meaning is
defined and is compared.

## 3. The runs

| Run | Shows | Bounds |
|---|---|---|
| scalar | types, pointer in the cycle, neighbours untouched, refinement of `HistoryAbs` | depth 3, three values, five configurations |
| scalar_uninit | violation, finding 1 | as above, all configurations |
| atomic | isolation; each block commits what it assigned, once | four tokens, two variables, two values |
| atomic_conditional | violation, finding 2 | as above |
| array | snapshots exact with O(n), and with O(d) as long as no index gets two values within the depth | depth 3, two elements, two values |
| array_order_d | violation, finding 3 | depth 2 |
| liveness | nothing dead, nothing missing after a second walk, the graph protects live variables, termination | three instructions, two variables |
| liveness_one_walk | violation, finding 4 | as above |
| spill | edges paired, the graph follows the code, every use reads the last value | three or four instructions, three registers, two spilled in a first pass and one in a second |
| colour | graph kept, proper colouring, no needless spill, termination | four nodes, two registers, three costs |
| frames | nested variables, inlined copies and spilled temporaries never share a byte, in functions that stay though they were inlined too; frames hold them; histories have their space | three functions, six scopes, two variables of four types, two temporaries, two inlined calls with any functions disabled, two words of outgoing arguments |
| compile | the code means the source; jumps and link counts; only what can be printed; types | 2183 programs, two arguments in registers, 250 instructions of a run |

Why the bounds are enough.  A cycle of three words wraps, has a middle, and is shorter than
the number of stores, which is not bounded.  Three words also tell
`StepBack` from the wrap by one too many that `oldest_history` has.  Four tokens give two
blocks in sequence, a block in a block, a block in a loop, a loop in a block, and an
assignment before, inside and after each.  Two elements are the least with which
a snapshot and a change list entry have different strides; depth 3 with two values has
entries of the change list that are overtaken.  Three instructions between
entry and exit allow for loops, branches that join, and definitions on one arm only.  Four nodes
with two registers contain the 4-clique, which must spill, the 4-cycle, which the degree
rule cannot take apart but which needs no spill, and gaps among the used colours.
Two registers spilled in one pass meet in one instruction (`late`), a second pass renumbers and can confuse
locations (`shared`), and the bodies have a join after a branch and a loop tested at either end; letting in any
of the four situations gives `UsesReadLast` a counterexample in this very instance.
Six scopes are the global one, three functions, and a block in a block or two blocks in sequence, so that an offset depends on a
scope that is not its own; two variables of the types chosen bring up to ten records, and one function can be inlined into another that is
inlined itself, or stay behind.  Each of the three parts of `CopiedOnce` is needed in this instance.  The programs of `compile` combine
every way to write (a variable, a global, an array, through a pointer, under a condition, in a loop) with every way to read, every
callee with every kind of argument and use of the result, inlined or not, and calls before, under and in a loop behind
a condition.  Two argument registers let three and four arguments go to the stack, which six would only repeat; no run that
ends needs more than about 120 instructions.

Deadlock is not checked where the modelled program ends (`AtomicBlocks`, `Liveness`, `RegColour`, `SpillCode`).
Symmetry is used where variables, values or functions are only compared for equality.

Fairness.  The compiler has one thread that executes its loops until they end: weak fairness of
the next step (`WF_vars(Next)`), in `Liveness` and `RegColour` only.  A run-time program need not
terminate, and nothing about `HistoryScalar`, `HistoryArray`, `AtomicBlocks` or `SpillCode` asks for progress.

## 4. What the violations show

Each of these runs checks one sentence of the repository and fails.

1. `scalar_uninit`.  `history.c:502-505` says that simple storage leaves out the initialisation of
   variables *below* the given depth; the condition at line 506 leaves it out for all.  A
   deeper local variable is cyclic and its `.x_ptr` is whatever the stack holds.
2. `atomic_conditional`.  `history.c:76` says all modified variables are updated; a variable
   assigned on a branch that was not taken is updated too, from a copy that nobody set.
3. `array_order_d`.  `sparc/Makefile:52` compares the output of the O(d) build with that of the
   O(n) build.  The O(d) store applies the changes newest first, so an index assigned twice within
   the depth gets its older value in the snapshot.
4. `liveness_one_walk`.  `mir_cfg.c:544-546` says the live sets are calculated.  Adding uses is not
   reported as a change, so the loop can stop after a first walk that only added uses, before
   they were carried around a branch.

The passing runs state what holds in spite of these: `scalar` leaves the uninitialised
configuration out, `BlocksCommitOnce` bodies with nested blocks or conditional assignments in a block,
`DSnapshotsAgree` repeated indices, `SecondWalkComplete` functions settled in one walk, and `frames` and `compile` what section 2
names for them.  Those names are situations found while modelling for which no sentence of the repository says
otherwise, or for which a run of its own would show only that one program is translated wrongly.

## 5. What is proved

The proofs hold for every value of the constants under the assumptions the modules name.

*HistoryScalarProofs*, for every depth, set of values and set of configurations in which the
pointer is initialised (`AllInitialised`; the other case is finding 1).  `IInv` is `TypeOK` and
`PtrInCycle`.  `StoresStayInside`: no store writes a neighbour.  `StorageImplementsHistory`: `Init`
maps to `Abs!Init`; a store maps to `Assign` because stepping back turns position k of the cycle into
position k + 1 (`StoreShifts`); a load maps to `Load` since the short code agrees with the library.
The pointer invariant is needed there: outside the cycle the positions do not wrap.

*HistoryArrayProofs*, for every depth, every size of the array and every set of values.  The cycle is seen as `Depth` places of
`Size` words, `ptr` standing at place j and snapshot k at `Place(j, k)`; both wraps of the library are those of the
places (`StepBackPlace`, `SnapshotPlace`), different places have no word in common (`PlacesApart`), and a store shifts every
snapshot by one and overwrites the oldest (`PlacesShift`).  `IInv` is `TypeOK`, `PtrsOnBoundary` and the type of the whole
change list; from it follow `TypesKept` and `PtrsStayOnBoundary`.  `NSnapshotsAreExact` is inductive on it: the O(n) store puts the present
array in the one place that is overwritten.  `DSnapshotsAgreeUnrepeated` needs more (`DInv`): the change list is a `Ledger`, in
which entry i has the value that its index got i assignments ago while every other index stayed as it was.  An index in the list then has
the value of its entries, since without repetition they all have the same (`ListedIndex`), so that the order in which the
loop applies them is of no matter; an index that is not in the list has the value of Depth assignments ago, which the
overwritten snapshot already holds (`UnlistedIndex`).  Both are arguments along the list, made with the greatest member of a
set of entries (`LastExists`) in place of induction.  Without the assumption on repetition this is finding 3.

*AtomicBlocksProofs*, for every depth, any variables and values, and bodies of any length (`MaxTokens` is any number).  `IInv` is
the type invariant and a `Placed`ment: a function `D` from positions of the code to the number of blocks around them, and the levels
`L` of the constructs that are open.  Braces change `D` by one and nothing else does (`Marks`), an open `if` or `while` is on the
level of its test (`Levels`), and every jump that is patched stays on its level (`Jumps`).  The number cannot be read off the
counters of braces alone, because a run may reach a position by many paths; that all agree is what the jumps are for.  Each statement
or brace the parser reads extends `D` (`BecomesGrows` to `WhileEndGrows`); the machine then finds `depth = D[pc]` after every step.
A variable itself is stored to at level 0 only, so it never changes while `depth` is positive (`BlocksIsolate`).

`BlocksCommit` proves `BlocksCommitOnce` for code that is `Plain`: no block in a block (`Flat`), no copy that a test in its block can skip
(`Straight`).  The property has this as its hypothesis (`PlainMeans`), about the whole of the code; a prefix of plain code is plain, with
or without a jump that was patched since (`PlainGrown`, `PlainPatched`), so the argument can follow the parser.  In plain code the
variables copied since the last brace are a function of the position (`Since`), whichever way a run took to it.  `CInv` says so of the
code (`Sound`) and of the parser's list:
  - `Text`: commits stand behind their exit, one for each variable of `Since` there and no other, none twice;
  - `SameJumps`: a jump goes to a place where the same variables were copied, and to no commit;
  - `Within`: what stands behind a test that is still open is in the test's block, or the test is in none;
  - `Covers`: the parser's list is `Since` at the end of the code, each variable once.

The third is what makes the second go through: when the test of an `if` or `while` in a block is patched, nothing was copied in between (`EndSame`).
`RInv` is about the run: a variable whose commit is still ahead lacks just that push, every other has the
histories wanted (`Follows`); what was copied has `pend` in its copy.  A jump changes neither, because of `SameJumps`.

*SpillCodeProofs*, for functions of any length, all bodies the parser could produce (`BodiesAssumption`), any
registers marked, any number of passes.  `EdgesPaired` and `GraphFollowsCode` are not inductive: that every successor is right
says nothing of an edge that is there twice, and taking an edge away takes one.  `IInv` counts: between two
instructions there are as many edges as there are ways, a fall and a jump, from the one to the other (`Exact`), unless `odd` has one of the
two situations in which an insertion moves the edges of a branch.  That the two ends of an edge agree (`EdgesStayPaired`) is kept in every
situation; the successors follow from the count (`GraphStaysWithCode`).  `mcfg_insert_node` and `gen_spill_code` loop over a
list, which the model writes as functions defined by recursion on an index.  The prover sees these as a
`CHOOSE`, so `IndexLemmas` shows that such a function exists (`IterationExists`, from the set of partial solutions and a least
index without one) and carries an invariant along it (`Upward`).

`UsesReadLast` compares the code in any number of passes with the function as it was.  It follows from
`Held`, which is claimed while `odd` holds at most `joined`: there are `R` and `M`, where `R[a][x]` are the source registers whose
last value register `x` has whenever instruction `a` is reached, and `M[a][h]` those whose last value home `h` has.
A home is a variable, or a temporary together with the pass that spilled it, as the numbers of temporaries come back in later passes.
`Describes` says what holds of the two:
  - `Flow`: what is known in front of an instruction holds behind each instruction that leads to it;
  - `OperandsKnown`, `StoresKnown`: an instruction of the source finds its operands, and a store to the home of a variable stores its value;
  - `InBoth`: the register of a variable, or a marked register, knows what its home knows unless it is an argument, so that a
    use in front of which no load was put still finds the value;
  - `Owned`: the register and the home of a variable hold values of this variable only.

`Shape` and `Fits` tie the code to the source: its instructions are all there, in order and with their own operands, and only loads and stores
stand between them.  In the middle of a pass `Todo` are the pairs of instruction and register that `gen_spill_code` has yet to come
to; they count as if their loads and stores were there already (`Known`, `RegAfter`, `MemAfter`).  This is what makes
the invariant inductive: an insertion takes a pair out of `Todo` and changes only how its value is found.  At the start
of a pass `R` and `M` are renamed along with the registers, which is possible because `SymRegs` lists each once
(`SymRegsOnce`, `DescribesRenewed`); the proof starts from the source, where every register has its own value (`HeldInit`).  When the code runs,
registers and frame agree with `R` and `M` (`Dynamic`) in front of every instruction.  For this `BodiesAssumption` says of the source what the
front end ensures: branches define nothing, a `reg_store` has the register that it goes through, and arguments are received once, into
variables, in front of what uses them (`parse_func`, `astparse.c:915`).

*FramesProofs*, for all signatures and options, all declarations in any tree of scopes, any sequence of inlined calls and any
number of spilled registers.  `TypesAssumption` says that types are as the grammar builds them (pointers outermost, the
base last) and have a size, `SizesAssumption` that characters and pointers are no larger than words (`icg.h:111`), `FramesAssumption` and
`StackAssumption` that the words for arguments and variables lie in the header of a frame in the order of `sparc.h`.
`SlotsDisjoint` and `FramesHold` are far from inductive.  They say nothing of why two variables are apart, and once a call was
inlined neither the offsets nor the sizes of scopes are those that `set_scope_offsets` worked with.  `FrameInv` consists of
  - `TypeInv`: the types, that a scope has a larger number than the one around it (`Tree`), that a function has one outermost scope
    (`Roots`), that scopes list records there are, and have room for them (`Sound`), and that every record is in a list (`Placed`);
  - `Layout`: while `CopiedOnce` holds, the records of each function that was not inlined (`Unmoved`) are placed as follows (`Placement`).  They end before the scope
    ends and begin behind everything in the scopes inside (`Roomy`), they follow each other in the order of the list (`InOrder`), no record is
    in two of these scopes (`Apart` of `ClosedScopes`), and in a function into which nothing was inlined they are in the slots they were given (`Untouched`).
    Of a function that was inlined, and may be left, the records still follow each other: they were moved together (`MovedTogether`);
  - `TempPlaces`: temporary i + 1 of a function is i words behind the extent of its scopes, with or without the words
    by which `add_temps_to_scopes` then makes the scope grow (`Rest`).

`Untouched` is what inlining depends on.  The slots of a function that has only one scope with variables start at zero, and `copy_locals`
adds to them the extent of the caller, so they end up behind everything the caller has (`RoomOfCopy`, `InlinePlacement`); this is why
`CopiedOnce` asks what it asks.  The frame is large enough because the variables leave room for the temporaries (`AddTempsLayout`).
`StorageSuffices` is about one record at a time and is part of `TypeInv`, but it has to be shown for every type with its
history.  Outside of the exclusions an array is one of primitives, and with a history it has one dimension, for which the sum of the
dimensions that the code takes is their product (`OneDimension`, `ArrayStored`); any other type takes the size of a value for
the variable and for each of its histories (`ValueStored`, `VariableStored`).
Two things needed lemmas of their own.  The sizes of a tree are recursive along its edges: as numbers fall towards the root, a
recursion over the tree is one over an index, downwards or upwards (`CourseDown`, `CourseUp` of `IndexLemmas`).  Sums of a list are given by the
sums of its beginnings (`TotalSums`).

*LivenessProofs*, for every function of any length, any variables, any order of the
predecessors.  `OnlyLive` is inductive with the fact that `live` is closed.  Completeness needs the
strengthening `IInv`: every node that was visited has its unvisited predecessors still to do in a frame
on the stack (`SearchComplete`), so a walk visits the whole graph; after the first walk every node's
uses are in its in set (`UsesKnown`); as long as no change is reported every visited node
satisfies the flow equations (`NoChangeSettles`).  At the end of a walk without change the sets are closed,
and `live` is least, so everything live is there (`SecondWalkIsComplete`), and what the graph links
follows (`ClobbersAreLinked`).  `UsesKnown` fails on the first walk, which is finding 4.

*RegColourProofs*, for every number of nodes and registers, every graph, all costs.  `IInv` adds to the types
and the graph bookkeeping that the stack holds no node twice (`StackInjective`) and that a node pushed by
the degree rule had fewer than R neighbours outside the stack below it (`LowDegreeKept`), which is what
guarantees it a colour when it is popped, whatever became of the nodes above it.  `GraphIsKept`,
`ColouringIsProper`, `LowDegreeIsColoured` and `SpillsAreNeeded` follow step by step.

Model-checked only: the two `Terminates` (liveness under fairness is outside the prover's reach) and the invariants of `Compile`.  `Trees`, `TypeCheck`, `MirGen` and
`SourceSemantics`, which it puts together, follow trees with recursive operators, of which nothing can be proved with this prover; all other modules have none.

## 6. Not modelled, and the plan

Left out of what is modelled, and why:

  - *Expressions*: a sign in front of an expression (the parser makes a subtraction or an addition with one child of it, `parser.y:672`, and
    `astparse.c:231` reads the second child, which is not there; the `NODE_MINUS` that `astparse.c:262` is for is never made), blocks without a
    statement (the parser leaves none, and `astparse.c:945` reads its line before it tests for that), casts (`type_check_cast` leaves its operand without a type, which the next pass follows), struct members, characters,
    strings, functions with a variable number of arguments, calls with another number of arguments than declared (nothing counts
    them).  History variables are followed through the type checker, where `HistoryUsesLoaded` is about them; the code for
    them is in `HistoryScalar`, `HistoryArray` and `AtomicBlocks` with a list of instructions of its own.
  - *Names*: they are unique in the programs.  Look-up by name from the current scope (`scope.c:203`) confuses a local with
    the global it shadows; modelling it means strings in place of records everywhere.
  - *Alignment*: sizes are added without regard to it; the instance of `frames` has no character before a word.
  - *Global load and store* (`mir_cfg.c`): `num_globals` is 0 when `global_load_store` runs, so that it does nothing.
  - *Index-wise arrays*: the storage is in `Frames`.  The library sets a pointer per element in one word of storage, and what
    it writes over is not determined by the source, so there is no state for a model to be in.
  - *Calls and returns in atomic blocks*: a return leaves without the commits, a call may assign the same globals.
  - *Hard registers*: `modify_code`, the rounds of the allocation loop and its limit of 100.

Planned, in this order:

1. `AllocLoop`: `SpillCode` with the registers that `Liveness` and `RegColour` choose, the replacement by hard
   registers (`modify_code`), and with them the end of the loop and the size of the lists of stack locations.
2. Calls and returns in `AtomicBlocks`, and history variables in the programs of `Compile`.
3. Index-wise arrays with enough storage as a third algorithm of `HistoryArray`; the data segment of global arrays.
4. Struct members and characters in `MirGen`, alignment in `Frames`.

Worth proving next: that a proper colouring of the graph of a complete analysis lets the code run on hard
registers as it does in `SpillCode`.

Not planned: the lexer and the parser (generated state machines), dumps and stabs (formatting),
delay slots and large constants of SPARC, `cfg.c`, `peephole.c`, `icg.c`
and `tempreg.c` beyond their counter (an older back end), library I/O.

Left out of the models on purpose: history indices outside `0 .. Depth` (the language gives them no meaning),
the width of integers (nothing depends on overflow in the instances), out-of-memory paths (not handled), and
invalid options such as zero registers (`NRegsAssumption`).
