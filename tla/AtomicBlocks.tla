---------------------------- MODULE AtomicBlocks ----------------------------
(***************************************************************************)
(* Atomic blocks over scalar history variables: how the compiler translates *)
(* them (history_enter_atomic, history_exit_atomic and history_store of     *)
(* history.c, called from parse_statement of astparse.c), and what the      *)
(* emitted code then does.                                                  *)
(*                                                                          *)
(* While the phase is "parse" a function body is read, one statement or     *)
(* brace at a time, and code is appended; any body of at most MaxTokens     *)
(* tokens is read.  In the phase "run" that code is executed.  A store of   *)
(* the final code is a whole history store, of the cyclic or of the flat    *)
(* kind, which HistoryScalar shows to be the Push used here.                *)
(*                                                                          *)
(* The instructions "enter" and "exit" stand for the braces of an atomic    *)
(* block in the source: the machine does nothing there.  They let the model *)
(* keep, in want, what the source says the variables should hold: the       *)
(* outermost block adds one history to each variable it assigned, holding   *)
(* the value assigned last.                                                 *)
(***************************************************************************)
EXTENDS Histories, Sequences, SequencesExt

CONSTANTS
  Vars,       \* the scalar history variables in scope
  Val,        \* the values assigned
  None,       \* not a value: no assignment yet
  MaxTokens   \* bound on the length of the function body

ASSUME DepthAssumption == Depth \in Nat \ {0}
ASSUME BoundAssumption == MaxTokens \in Nat
ASSUME NoneAssumption == None \notin Val

VARIABLES
  \* compile time
  code,             \* the instructions emitted so far
  open,             \* the constructs being parsed, innermost first
  atomic_counter,
  atomic_modified,  \* the list mark_atomic_modified keeps
  \* run time
  phase,            \* "parse", "run" or "done"
  pc,
  hist,             \* the histories each variable shows
  cpy,              \* .x_cpy, the copy that an atomic block assigns
  \* what the source means
  depth,            \* atomic blocks that the execution is inside of
  pend,             \* the assignments of the outermost block so far
  want              \* the histories each variable should show

comp == <<code, open, atomic_counter, atomic_modified>>
mach == <<hist, cpy>>
src  == <<depth, pend, want>>
vars == <<comp, phase, pc, mach, src>>

Instr ==
       [op : {"store", "copy"}, x : Vars, v : Val]   \* history_store, MOVE v .x_cpy
  \cup [op : {"commit", "recopy"}, x : Vars]         \* the same, with .x_cpy as source
  \cup [op : {"if", "jump"}, to : Nat]               \* MIR_IF over a block, MIR_JUMP
  \cup [op : {"enter", "exit"}]

\* A local variable starts with unspecified contents; the histories do not
\* matter here, the copy does.
Init ==
  /\ code = <<>> /\ open = <<>> /\ atomic_counter = 0 /\ atomic_modified = <<>>
  /\ phase = "parse" /\ pc = 1
  /\ \E z \in Val : hist = [x \in Vars |-> [k \in 0..Depth |-> z]]
  /\ cpy \in [Vars -> Val]
  /\ depth = 0 /\ pend = [x \in Vars |-> None] /\ want = hist

----------------------------------------------------------------------------
(* Compile time *)

Emit(instrs) == code' = code \o instrs

Parsing == phase = "parse"

\* Tokens read: every statement and opening brace emits one instruction.
Tokens == Len(SelectSeq(code, LAMBDA i : i.op \notin {"commit", "recopy", "exit", "jump"}))

mark_atomic_modified(x) ==
  IF atomic_counter = 0 \/ Contains(atomic_modified, x)
    THEN atomic_modified ELSE Append(atomic_modified, x)

\* Mistake: the list is kept from block to block.
EnterKeepsList ==
  /\ atomic_counter' = atomic_counter + 1
  /\ UNCHANGED atomic_modified

\* history_enter_atomic: a nested block is only warned about.
history_enter_atomic ==
  /\ atomic_counter' = atomic_counter + 1
  /\ atomic_modified' = <<>>

\* history_exit_atomic stores the copy of every variable on the list, through
\* history_store: with an enclosing block still open that is a move of the
\* copy to itself.  The list is left as it is.
history_exit_atomic ==
  /\ atomic_counter' = atomic_counter - 1
  /\ Emit(<<[op |-> "exit"]>> \o
          [i \in 1..Len(atomic_modified) |->
             [op |-> IF atomic_counter' > 0 THEN "recopy" ELSE "commit",
              x |-> atomic_modified[i]]])
  /\ UNCHANGED atomic_modified

\* Mistake: an atomic block assigns the variable itself.
StoreThrough(x, v) ==
  /\ atomic_modified' = mark_atomic_modified(x)
  /\ Emit(<<[op |-> "store", x |-> x, v |-> v]>>)

\* history_store, for an assignment in the source
history_store(x, v) ==
  /\ Emit(<<[op |-> IF atomic_counter > 0 THEN "copy" ELSE "store",
             x |-> x, v |-> v]>>)
  /\ atomic_modified' = mark_atomic_modified(x)

ParseBecomes(x, v) ==
  /\ Parsing /\ Tokens < MaxTokens
  /\ history_store(x, v)
  /\ UNCHANGED <<open, atomic_counter, phase, pc, mach, src>>

ParseAtomic ==
  /\ Parsing /\ Tokens < MaxTokens
  /\ history_enter_atomic
  /\ Emit(<<[op |-> "enter"]>>)
  /\ open' = <<[kind |-> "atomic"]>> \o open
  /\ UNCHANGED <<phase, pc, mach, src>>

ParseAtomicEnd ==
  /\ Parsing /\ open # <<>> /\ Head(open).kind = "atomic"
  /\ history_exit_atomic
  /\ open' = Tail(open)
  /\ UNCHANGED <<phase, pc, mach, src>>

\* The jump of an if is patched once its block is parsed.
ParseIf ==
  /\ Parsing /\ Tokens < MaxTokens
  /\ Emit(<<[op |-> "if", to |-> 0]>>)
  /\ open' = <<[kind |-> "if", at |-> Len(code) + 1]>> \o open
  /\ UNCHANGED <<atomic_counter, atomic_modified, phase, pc, mach, src>>

\* Mistake: the jump goes one instruction past the block.
PatchPastNext ==
  /\ Parsing /\ open # <<>> /\ Head(open).kind = "if"
  /\ code' = [code EXCEPT ![Head(open).at].to = Len(code) + 2]
  /\ open' = Tail(open)
  /\ UNCHANGED <<atomic_counter, atomic_modified, phase, pc, mach, src>>

ParseIfEnd ==
  /\ Parsing /\ open # <<>> /\ Head(open).kind = "if"
  /\ code' = [code EXCEPT ![Head(open).at].to = Len(code) + 1]
  /\ open' = Tail(open)
  /\ UNCHANGED <<atomic_counter, atomic_modified, phase, pc, mach, src>>

ParseWhile ==
  /\ Parsing /\ Tokens < MaxTokens
  /\ Emit(<<[op |-> "if", to |-> 0]>>)
  /\ open' = <<[kind |-> "while", at |-> Len(code) + 1]>> \o open
  /\ UNCHANGED <<atomic_counter, atomic_modified, phase, pc, mach, src>>

\* The loop jumps back to its test, the test to behind that jump.
ParseWhileEnd ==
  /\ Parsing /\ open # <<>> /\ Head(open).kind = "while"
  /\ LET at == Head(open).at IN
       code' = Append([code EXCEPT ![at].to = Len(code) + 2],
                      [op |-> "jump", to |-> at])
  /\ open' = Tail(open)
  /\ UNCHANGED <<atomic_counter, atomic_modified, phase, pc, mach, src>>

ParseFuncEnd ==
  /\ Parsing /\ open = <<>>
  /\ phase' = "run"
  /\ UNCHANGED <<comp, pc, mach, src>>

----------------------------------------------------------------------------
(* Run time *)

At(op) == phase = "run" /\ pc <= Len(code) /\ code[pc].op = op

RunStore ==
  /\ At("store")
  /\ LET i == code[pc] IN
       /\ hist' = [hist EXCEPT ![i.x] = Push(@, i.v)]
       /\ want' = [want EXCEPT ![i.x] = Push(@, i.v)]
  /\ pc' = pc + 1
  /\ UNCHANGED <<comp, phase, cpy, depth, pend>>

RunCopy ==
  /\ At("copy")
  /\ LET i == code[pc] IN
       /\ cpy' = [cpy EXCEPT ![i.x] = i.v]
       /\ pend' = [pend EXCEPT ![i.x] = i.v]
  /\ pc' = pc + 1
  /\ UNCHANGED <<comp, phase, hist, depth, want>>

RunCommit ==
  /\ At("commit")
  /\ LET x == code[pc].x IN hist' = [hist EXCEPT ![x] = Push(@, cpy[x])]
  /\ pc' = pc + 1
  /\ UNCHANGED <<comp, phase, cpy, src>>

RunRecopy ==
  /\ At("recopy")
  /\ pc' = pc + 1
  /\ UNCHANGED <<comp, phase, mach, src>>

RunIf ==
  /\ At("if")
  /\ pc' \in {pc + 1, code[pc].to}
  /\ UNCHANGED <<comp, phase, mach, src>>

RunJump ==
  /\ At("jump")
  /\ pc' = code[pc].to
  /\ UNCHANGED <<comp, phase, mach, src>>

RunEnter ==
  /\ At("enter")
  /\ depth' = depth + 1
  /\ pc' = pc + 1
  /\ UNCHANGED <<comp, phase, mach, pend, want>>

RunExit ==
  /\ At("exit")
  /\ depth' = depth - 1
  /\ IF depth = 1
       THEN /\ want' = [x \in Vars |-> IF pend[x] = None THEN want[x]
                                        ELSE Push(want[x], pend[x])]
            /\ pend' = [x \in Vars |-> None]
       ELSE UNCHANGED <<want, pend>>
  /\ pc' = pc + 1
  /\ UNCHANGED <<comp, phase, mach>>

RunEnd ==
  /\ phase = "run" /\ pc > Len(code)
  /\ phase' = "done"
  /\ UNCHANGED <<comp, pc, mach, src>>

Next ==
  \/ \E x \in Vars, v \in Val : ParseBecomes(x, v)
  \/ ParseAtomic \/ ParseAtomicEnd \/ ParseIf \/ ParseIfEnd
  \/ ParseWhile \/ ParseWhileEnd \/ ParseFuncEnd
  \/ RunStore \/ RunCopy \/ RunCommit \/ RunRecopy \/ RunIf \/ RunJump
  \/ RunEnter \/ RunExit \/ RunEnd

Spec == Init /\ [][Next]_vars

----------------------------------------------------------------------------
(* Properties *)

TypeOK ==
  /\ \A i \in DOMAIN code : code[i] \in Instr
  /\ atomic_counter \in Nat
  /\ \A i \in DOMAIN atomic_modified : atomic_modified[i] \in Vars
  /\ phase \in {"parse", "run", "done"} /\ pc \in 1 .. Len(code) + 1
  /\ hist \in [Vars -> [0..Depth -> Val]]
  /\ cpy \in [Vars -> Val]
  /\ depth \in Nat
  /\ pend \in [Vars -> Val \cup {None}]
  /\ want \in [Vars -> [0..Depth -> Val]]

\* Nothing that runs between the braces of an atomic block changes what any
\* history variable shows, however blocks, ifs and loops are nested.
Isolation == [][depth > 0 => hist' = hist]_vars

\* Positions of the code inside an atomic block, and inside two of them.
Braces(i, op) == Cardinality({j \in 1..i : code[j].op = op})
InBlock(i, n) == Braces(i, "enter") - Braces(i, "exit") >= n

Nested == \E i \in DOMAIN code : InBlock(i, 2)

\* An assignment inside an atomic block that an if or a while of that block may
\* skip.
Conditional ==
  \E i, j \in DOMAIN code :
    /\ i < j /\ code[i].op = "if" /\ j < code[i].to
    /\ code[j].op = "copy" /\ InBlock(i, 1)

Committed == phase = "done" => hist = want

\* A body without nested atomic blocks and without conditional assignments in
\* a block leaves every variable with the histories the source asks for: each
\* block it ran added one history, the last value assigned, to each variable
\* it assigned, and none to the others.
BlocksCommitOnce == ~Nested /\ ~Conditional => Committed

\* The update that is forced at the end of a block is of a variable that the
\* block modified, also when it assigns variables under a condition.
OnlyModifiedUpdated == ~Nested => Committed
=============================================================================
