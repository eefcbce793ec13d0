----------------------------- MODULE SpillCode -----------------------------
(***************************************************************************)
(* The loop of allocate_registers (regalloc.c) seen from the code: in each *)
(* pass the registers are numbered anew, the colouring marks some of them  *)
(* for spilling, and gen_spill_code inserts loads and stores around the    *)
(* instructions that use or define those, into the list of instructions    *)
(* and into the flow graph (mcfg_insert_node of mir_cfg.c).  Which         *)
(* registers are marked is left open here; RegColour decides it.           *)
(*                                                                         *)
(* When a pass spills nothing the code is executed.  Next to the machine,  *)
(* with as many registers as the code names, runs the function as it was   *)
(* before allocation: want holds the value that each of its registers got  *)
(* last.  Instructions are known by number in order of creation, which is  *)
(* also their order in the graph's array of nodes.                         *)
(***************************************************************************)
EXTENDS Integers, Sequences, SequencesExt

CONSTANTS
  Bodies,     \* the functions: sequences of instructions
  VarRegs,    \* registers that are variables; their home is in the frame
  TempRegs,   \* registers that are temporaries
  Val,        \* the values that are computed
  Junk,       \* the contents of a register or word never assigned
  None,       \* an operand, a variable or a location that is absent
  MaxSpills   \* bounds: MaxSpills[p] registers are marked in pass p, if any

Sources == VarRegs \cup TempRegs

ASSUME RegsAssumption ==
  /\ Sources \subseteq Nat /\ Sources # {} /\ IsFiniteSet(Sources)
  /\ VarRegs \cap TempRegs = {}
ASSUME ValAssumption == Junk \notin Val /\ None \notin Nat
ASSUME BoundsAssumption == MaxSpills \in Seq(Nat)

VARIABLES
  source,  \* the function before allocation; no step changes it
  fn,      \* the function: code, order (the list), pred, succ, and tmp, the
           \* register tr_alloc returns next
  info,    \* what stands behind each symbolic register of this pass
  temps,   \* stack_temps: the temporaries with a location in the frame
  phase,   \* "number", "spill", then "run" and "done"
  passes,
  spill,   \* the symbolic registers marked in this pass
  cur,     \* current of gen_spill_code
  instr,   \* instr, the instruction that was current when its turn came
  todo,    \* the marked registers that this instruction has yet to be
           \* searched for
  odd,     \* (not in the code) the unusual situations met so far
  pc, reg, mem, want

alloc == <<fn, info, temps, passes, spill, cur, instr, todo, odd>>
mach == <<pc, reg, mem, want>>
vars == <<source, phase, alloc, mach>>

\* operand[0] and operand[1], or the arguments of a call, are src as far as
\* they are registers; operand[2] is dst.
Ins(op, src, dst, jump) ==
  [op |-> op, src |-> src, dst |-> dst, jump |-> jump, slot |-> None]

Frame == Ins("frame", <<>>, None, 0)   \* MIR_LABEL and MIR_END

Branches == {"if", "jump"}

SourceOps == {"op", "call", "receive", "reg_store"} \cup Branches

\* A branch goes to an instruction of its function and defines nothing; the
\* register that a reg_store goes through is its operand[2].  The arguments are
\* received, each once, in front of what uses them (parse_func of astparse.c).
ASSUME BodiesAssumption ==
  \A b \in Bodies :
    /\ b \in Seq([op : SourceOps, src : Seq(Sources), dst : Sources \cup {None},
                  jump : Nat, slot : {None}])
    /\ \A k \in DOMAIN b :
         /\ b[k].op \in Branches => b[k].jump \in 1 .. Len(b) + 2 /\ b[k].dst = None
         /\ b[k].op = "reg_store" => b[k].dst # None
         /\ b[k].op = "receive" =>
              /\ b[k].src = <<>> /\ b[k].dst \in VarRegs
              /\ \A i \in 1 .. k - 1 :
                   b[k].dst # b[i].dst /\ \A l \in DOMAIN b[i].src : b[i].src[l] # b[k].dst

----------------------------------------------------------------------------
(* The list of instructions and the graph *)

Ids(f) == DOMAIN f.code

Pos(f, id) == CHOOSE p \in DOMAIN f.order : f.order[p] = id

NextOf(f, id) == f.order[Pos(f, id) + 1]

\* Where control goes from an instruction, by the list
CodeSucc(f, id) ==
  {m \in Ids(f) :
     \/ f.code[id].op \in Branches /\ m = f.code[id].jump
     \/ f.code[id].op # "jump" /\ id # Last(f.order) /\ m = NextOf(f, id)}

\* The last element takes the place of the first x.
Unlink(list, x) ==
  LET k == CHOOSE k \in DOMAIN list :
             list[k] = x /\ \A l \in 1 .. k - 1 : list[l] # x
  IN  Front([list EXCEPT ![k] = Last(list)])

mcfg_add_node(f) == [f EXCEPT !.pred = Append(@, <<>>), !.succ = Append(@, <<>>)]

mcfg_add_edge(f, from, to) ==
  [f EXCEPT !.succ[from] = Append(@, to), !.pred[to] = Append(@, from)]

\* Mistake: the old edge stays among the predecessors.
KeepPred(f, from, dest, new_dest) ==
  mcfg_add_edge([f EXCEPT !.succ[from] = Unlink(@, dest)], from, new_dest)

mcfg_adjust_edge(f, from, dest, new_dest) ==
  mcfg_add_edge([f EXCEPT !.succ[from] = Unlink(@, dest),
                          !.pred[dest] = Unlink(@, from)], from, new_dest)

\* Mistake: control still goes around the new instruction.
LeavePreds(f, new, next) == f

\* The loop of mcfg_insert_node counts up while the array that it reads gets
\* shorter and changes its order.
MovePreds(f, new, next) ==
  LET after[i \in 0 .. Len(f.pred[next])] ==
        IF i = 0 THEN f
        ELSE LET g == after[i - 1] IN
             IF i <= Len(g.pred[next])
               THEN mcfg_adjust_edge(g, g.pred[next][i], next, new) ELSE g
  IN  after[Len(f.pred[next])]

mcfg_insert_node(f, new) ==
  LET next == NextOf(f, new)
  IN  mcfg_add_edge(MovePreds(mcfg_add_node(f), new, next), new, next)

\* mir_add_instr, at place p of the list, and mcfg_insert_node.  Jumps keep
\* the instruction they go to.
InsertInstr(f, p, ins) ==
  LET new == Len(f.code) + 1 IN
  mcfg_insert_node([f EXCEPT !.code = Append(@, ins),
                             !.order = InsertAt(@, p, new)], new)

----------------------------------------------------------------------------
(* A pass: the symbolic registers *)

\* What mcfg_build_defuse finds in an instruction: the definition, then the
\* uses; a store through a register uses it.
Operands(i) ==
  (IF i.dst = None THEN <<>> ELSE <<i.dst>>) \o i.src

\* ig_build_graph adds each register once, as it comes across it.
AddMissing(found, ops) ==
  LET with[k \in 0 .. Len(ops)] ==
        IF k = 0 THEN found
        ELSE IF Contains(with[k - 1], ops[k]) THEN with[k - 1]
        ELSE Append(with[k - 1], ops[k])
  IN  with[Len(ops)]

SymRegs(f) ==
  LET upTo[id \in 0 .. Len(f.code)] ==
        IF id = 0 THEN <<>> ELSE AddMissing(upTo[id - 1], Operands(f.code[id]))
  IN  upTo[Len(f.code)]

\* ig_sym_reg
SymReg(regs, r) == (CHOOSE k \in DOMAIN regs : regs[k] = r) - 1

SymInstr(i, regs) ==
  [i EXCEPT !.src = [k \in DOMAIN i.src |-> SymReg(regs, i.src[k])],
            !.dst = IF i.dst = None THEN None ELSE SymReg(regs, i.dst)]

\* mir_to_sym_lir, and tr_set_lowest before it
Numbered(f, regs) ==
  [f EXCEPT !.code = [id \in Ids(f) |-> SymInstr(f.code[id], regs)],
            !.tmp = IF f.tmp < Len(regs) THEN Len(regs) ELSE f.tmp]

VarOf(r) == IF r \in DOMAIN info THEN info[r].var ELSE None

Locations(t) == {<<"var", v>> : v \in VarRegs} \cup {<<"temp", k>> : k \in DOMAIN t}

\* The edges that mcfg_build_func adds for one instruction
EdgesOf(f, id) ==
  LET g == IF f.code[id].op = "jump" \/ id = Len(f.code) THEN f
           ELSE mcfg_add_edge(f, id, id + 1)
  IN  IF f.code[id].op \in Branches THEN mcfg_add_edge(g, id, f.code[id].jump) ELSE g

mcfg_build_func(f) ==
  LET nodes[n \in 0 .. Len(f.code)] == IF n = 0 THEN f ELSE mcfg_add_node(nodes[n - 1])
      edges[n \in 0 .. Len(f.code)] ==
        IF n = 0 THEN nodes[Len(f.code)] ELSE EdgesOf(edges[n - 1], n)
  IN  edges[Len(f.code)]

\* The list of the function, before its graph is built
Listed(body) ==
  LET code == <<Frame>> \o body \o <<Frame>> IN
  [code |-> code, order |-> [id \in DOMAIN code |-> id], pred |-> <<>>, succ |-> <<>>,
   tmp |-> 1 + CHOOSE r \in Sources : \A q \in Sources : q <= r]

Init ==
  /\ source \in Bodies
  /\ fn = mcfg_build_func(Listed(source))
  /\ info = [r \in Sources |-> [var |-> IF r \in VarRegs THEN r ELSE None, key |-> r]]
  /\ temps = <<>>
  /\ phase = "number" /\ passes = 0
  /\ spill = {} /\ cur = 1 /\ instr = 1 /\ todo = {} /\ odd = {}
  /\ pc = 1 /\ reg = <<>> /\ mem = <<>>
  /\ want = [r \in Sources |-> Junk]

\* The first half of a pass ends with the colouring, which marks any registers
\* for spilling.
NumberRegs ==
  /\ phase = "number"
  /\ LET regs == SymRegs(fn) IN
       /\ fn' = Numbered(fn, regs)
       /\ info' = [n \in 0 .. Len(regs) - 1 |->
                     [var |-> VarOf(regs[n + 1]), key |-> regs[n + 1]]]
  /\ spill' \in {S \in SUBSET DOMAIN info' :
                   Cardinality(S) <= IF passes < Len(MaxSpills) THEN MaxSpills[passes + 1] ELSE 0}
  /\ UNCHANGED <<source, temps, odd, pc, want>>
  /\ IF spill' # {}
       THEN /\ phase' = "spill"
            /\ passes' = passes + 1 /\ cur' = 1 /\ instr' = 1 /\ todo' = spill'
            /\ UNCHANGED <<reg, mem>>
       ELSE /\ phase' = "run"
            /\ reg' = [r \in 0 .. fn'.tmp - 1 |-> Junk]
            /\ mem' = [l \in Locations(temps) |-> Junk]
            /\ UNCHANGED <<passes, cur, instr, todo>>

----------------------------------------------------------------------------
(* gen_spill_code *)

\* Where temp_stack_location finds a temporary, or puts it
TempIndex(key) ==
  IF \E k \in DOMAIN temps : temps[k].reg = key
    THEN CHOOSE k \in DOMAIN temps :
           temps[k].reg = key /\ \A l \in 1 .. k - 1 : temps[l].reg # key
    ELSE Len(temps) + 1

\* The offset of a variable, or of a temporary in the frame
Location(j) ==
  IF info[j].var # None THEN <<"var", info[j].var>> ELSE <<"temp", TempIndex(info[j].key)>>

temp_stack_location(j) ==
  IF info[j].var = None /\ TempIndex(info[j].key) > Len(temps)
    THEN Append(temps, [reg |-> info[j].key, pass |-> passes]) ELSE temps

\* The operands of i that get a load: every such argument of a call, else
\* the first
Loaded(i, j) ==
  {k \in DOMAIN i.src :
     i.src[k] = j /\ (i.op = "call" \/ \A l \in 1 .. k - 1 : i.src[l] # j)}

\* Mistake: the register loaded to is not taken from the pool.
LoadToFree(f, j, k) ==
  LET g == InsertInstr(f, Pos(f, cur),
             [Ins("load", <<>>, f.tmp, 0) EXCEPT !.slot = Location(j)])
  IN  [g EXCEPT !.code[instr].src[k] = f.tmp]

\* Mistake: the load goes behind the instruction.
LoadBehind(f, j, k) ==
  LET g == InsertInstr(f, Pos(f, cur) + 1,
             [Ins("load", <<>>, f.tmp, 0) EXCEPT !.slot = Location(j)])
  IN  [g EXCEPT !.code[instr].src[k] = f.tmp, !.tmp = @ + 1]

gen_spill_load(f, j, k) ==
  LET g == InsertInstr(f, Pos(f, cur),
             [Ins("load", <<>>, f.tmp, 0) EXCEPT !.slot = Location(j)])
  IN  [g EXCEPT !.code[instr].src[k] = f.tmp, !.tmp = @ + 1]

GenLoads(f, j) ==
  LET i == f.code[instr]
      loaded[k \in 0 .. Len(i.src)] ==
        IF k = 0 THEN f
        ELSE IF k \in Loaded(i, j) THEN gen_spill_load(loaded[k - 1], j, k) ELSE loaded[k - 1]
  IN  loaded[Len(i.src)]

gen_spill_store(f, j) ==
  InsertInstr(f, Pos(f, cur) + 1,
              [Ins("store", <<j>>, None, 0) EXCEPT !.slot = Location(j)])

\* A received argument is stored directly.
PushArg(f, j) ==
  [f EXCEPT !.code[instr] =
     [Ins("push_arg", <<>>, None, 0) EXCEPT !.slot = Location(j)]]

GenDef(f, j) ==
  IF f.code[instr].dst # j THEN f
  ELSE IF f.code[instr].op = "receive" THEN PushArg(f, j) ELSE gen_spill_store(f, j)

\* Situations that matter: a received argument that is read twice by one
\* instruction, or stored through, and so keeps an operand without a load; a
\* load in front of an instruction that a branch goes to; a load when a store is
\* already there; a location that an earlier pass gave to a temporary of the
\* same number; a store in front of an instruction that a branch goes to.
OddAt(j) ==
  LET i == fn.code[instr]
      load == Loaded(i, j) # {}
      store == i.dst = j /\ i.op # "receive"
      place == TempIndex(info[j].key)
      Target(id) == \E b \in Ids(fn) : fn.code[b].op \in Branches /\ fn.code[b].jump = id
      Pushed == \E a \in Ids(fn) : fn.code[a].op = "push_arg" /\ fn.code[a].slot = Location(j)
  IN  {o \in {"unloaded", "jumped", "late", "shared", "joined"} :
         \/ o = "unloaded" /\ Pushed
              /\ \/ \E k \in DOMAIN i.src : i.src[k] = j /\ k \notin Loaded(i, j)
                 \/ i.op = "reg_store" /\ i.dst = j
         \/ o = "jumped" /\ load /\ Target(cur)
         \/ o = "late" /\ load /\ cur # instr
         \/ o = "shared" /\ (load \/ store) /\ info[j].var = None
              /\ place <= Len(temps) /\ temps[place].pass # passes
         \/ o = "joined" /\ store /\ Target(NextOf(fn, cur))}

\* One round of the loop over the marked registers, for the instruction that
\* was current when its turn came
SpillReg(j) ==
  /\ phase = "spill" /\ j \in todo /\ \A k \in todo : j <= k
  /\ fn' = GenDef(GenLoads(fn, j), j)
  /\ cur' = IF fn.code[instr].dst = j /\ fn.code[instr].op # "receive"
              THEN NextOf(fn', cur) ELSE cur
  /\ temps' = IF fn' # fn THEN temp_stack_location(j) ELSE temps
  /\ odd' = odd \cup OddAt(j)
  /\ todo' = todo \ {j}
  /\ UNCHANGED <<source, phase, info, passes, spill, instr, mach>>

NextInstr ==
  /\ phase = "spill" /\ todo = {} /\ cur # Last(fn.order)
  /\ cur' = NextOf(fn, cur)
  /\ instr' = cur'
  /\ todo' = spill
  /\ UNCHANGED <<source, phase, fn, info, temps, passes, spill, odd, mach>>

PassEnd ==
  /\ phase = "spill" /\ todo = {} /\ cur = Last(fn.order)
  /\ phase' = "number"
  /\ UNCHANGED <<source, alloc, mach>>

----------------------------------------------------------------------------
(* Running the code.  A definition computes any value, and the function as  *)
(* it was before allocation computes the same.                              *)

At(ops) == phase = "run" /\ fn.code[pc].op \in ops

Follow == pc' \in CodeSucc(fn, pc)

RunLoad ==
  /\ At({"load"})
  /\ reg' = [reg EXCEPT ![fn.code[pc].dst] = mem[fn.code[pc].slot]]
  /\ Follow
  /\ UNCHANGED <<source, phase, alloc, mem, want>>

RunStore ==
  /\ At({"store"})
  /\ mem' = [mem EXCEPT ![fn.code[pc].slot] = reg[fn.code[pc].src[1]]]
  /\ Follow
  /\ UNCHANGED <<source, phase, alloc, reg, want>>

RunPushArg ==
  /\ At({"push_arg"})
  /\ \E v \in Val :
       /\ mem' = [mem EXCEPT ![fn.code[pc].slot] = v]
       /\ want' = [want EXCEPT ![source[pc - 1].dst] = v]
  /\ Follow
  /\ UNCHANGED <<source, phase, alloc, reg>>

RunDef ==
  /\ At({"op", "call", "receive"}) /\ fn.code[pc].dst # None
  /\ \E v \in Val :
       /\ reg' = [reg EXCEPT ![fn.code[pc].dst] = v]
       /\ want' = [want EXCEPT ![source[pc - 1].dst] = v]
  /\ Follow
  /\ UNCHANGED <<source, phase, alloc, mem>>

RunOther ==
  /\ phase = "run" /\ pc # Last(fn.order)
  /\ \/ fn.code[pc].op \in {"frame", "reg_store"} \cup Branches
     \/ fn.code[pc].op \in {"op", "call"} /\ fn.code[pc].dst = None
  /\ Follow
  /\ UNCHANGED <<source, phase, alloc, reg, mem, want>>

RunEnd ==
  /\ phase = "run" /\ pc = Last(fn.order)
  /\ phase' = "done"
  /\ UNCHANGED <<source, alloc, mach>>

Next ==
  \/ NumberRegs \/ (\E j \in todo : SpillReg(j)) \/ NextInstr \/ PassEnd
  \/ RunLoad \/ RunStore \/ RunPushArg \/ RunDef \/ RunOther \/ RunEnd

Spec == Init /\ [][Next]_vars

----------------------------------------------------------------------------
(* Properties *)

TypeOK ==
  /\ source \in Bodies
  /\ \A id \in Ids(fn) :
       /\ \A r \in {fn.code[id].src[k] : k \in DOMAIN fn.code[id].src} : r < fn.tmp
       /\ fn.code[id].dst \in 0 .. fn.tmp - 1 \cup {None}
  /\ DOMAIN fn.pred = Ids(fn) /\ DOMAIN fn.succ = Ids(fn)
  /\ IsInjective(fn.order) /\ {fn.order[p] : p \in DOMAIN fn.order} = Ids(fn)
  /\ phase \in {"number", "spill", "run", "done"}
  /\ spill \subseteq DOMAIN info /\ todo \subseteq spill
  /\ cur \in Ids(fn) /\ instr \in Ids(fn) /\ pc \in Ids(fn)

Count(list, x) == Cardinality({k \in DOMAIN list : list[k] = x})

\* The two ends of every edge of the graph agree, as often as it is there.
EdgesPaired ==
  \A a, b \in Ids(fn) : Count(fn.succ[a], b) = Count(fn.pred[b], a)

\* Unless something was inserted in front of an instruction that a branch goes
\* to, the graph that liveness is computed from next follows the code.
GraphFollowsCode ==
  odd \cap {"jumped", "joined"} = {} =>
    \A id \in Ids(fn) : {fn.succ[id][k] : k \in DOMAIN fn.succ[id]} = CodeSucc(fn, id)

\* The operands of the instruction about to run, in the code and in the source
Reads ==
  LET i == fn.code[pc]
      s == source[pc - 1]
  IN  {<<i.src[k], s.src[k]>> : k \in DOMAIN s.src}
        \cup (IF s.op = "reg_store" THEN {<<i.dst, s.dst>>} ELSE {})

AllReadLast ==
  phase = "run" /\ pc \in 2 .. Len(source) + 1 =>
    \A r \in Reads : want[r[2]] # Junk => reg[r[1]] = want[r[2]]

\* Whatever was spilled, in however many passes: each instruction of the source
\* reads the values assigned last, unless one of the situations came up that
\* gen_spill_code does not provide for.
UsesReadLast == odd \subseteq {"joined"} => AllReadLast
=============================================================================
