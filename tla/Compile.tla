-------------------------------- MODULE Compile --------------------------------
(* One compilation from the tree the parser leaves to SPARC code (compiler.c *)
(* with the modules it calls), and the run of the code that comes out, one   *)
(* instruction after the other as sparcgen.c prints them.  Registers are     *)
(* still symbolic when it runs: RegColour and SpillCode are about giving     *)
(* them real ones.                                                           *)
EXTENDS MirPasses, SourceSemantics

CONSTANTS
    Programs,       \* the programs to be compiled,
    MainBody(_),    \* and the body of main around the statements of one
    REG_ARGS,       \* arguments that are passed in registers
    MaxSteps        \* bound on the instructions of a run

VARIABLES
    prog,       \* the program: callees, the statements of main, inlining or not
    phase,      \* what was done last
    trees,      \* the trees of the functions, in the order of the source,
                \* as long as they are needed
    list,       \* the MIR code
    frames,     \* the machine: the calls that are active,
    mem,        \* the memory,
    steps,      \* the number of instructions so far
    result      \* and what the run comes to

source == <<prog, trees>>
machine == <<frames, mem, steps, result>>
vars == <<prog, phase, trees, list, machine>>

Functions == Append(prog.callees, "main")
BodyIn(p, f) == IF f = "main" THEN MainBody(p.main) ELSE BodyOf[f]

Init ==
    /\ prog \in Programs
    /\ phase = "parsed"
    /\ trees = [i \in DOMAIN Functions |-> BodyIn(prog, Functions[i])]
    /\ list = EmptyList
    /\ frames = <<>> /\ mem = InitialMemory /\ steps = 0
    /\ result = Outcome(Undef, InitialMemory)

-----------------------------------------------------------------------------
(* The passes over the tree.                                                 *)

MungeTrees ==
    /\ phase = "parsed" /\ phase' = "munged"
    /\ trees' = [i \in DOMAIN trees |->
                    munge_duplicate_unaries(munge_array_indicies(trees[i]))]
    /\ UNCHANGED <<prog, list, machine>>

CheckTypes ==
    /\ phase = "munged"
    /\ trees' = [i \in DOMAIN trees |->
                    type_check_node(trees[i], Way(Functions[i]))]
    /\ phase' = IF \E i \in DOMAIN trees : Rejected(trees'[i])
                  THEN "rejected" ELSE "checked"
    /\ UNCHANGED <<prog, list, machine>>

(* History variables are followed up to here; their code is in HistoryScalar *)
(* and HistoryArray.                                                         *)
HasHistory(p) ==
    \E f \in ToSet(p.callees) \cup {"main"} : \E s \in Subtrees(BodyIn(p, f)) :
        s.k = "id" /\ is_history_type(DeclOf[s.name])

parse_ast ==
    /\ phase = "checked" /\ ~HasHistory(prog)
    /\ phase' = "generated"
    /\ list' = FoldLeft(LAMBDA l, i : parse_func(l, Functions[i], trees[i]),
                        EmptyList, [i \in DOMAIN trees |-> i])
    /\ trees' = <<>>
    /\ UNCHANGED <<prog, machine>>

-----------------------------------------------------------------------------
(* The passes over MIR code, in the order of the driver.                     *)

Pass(from, to, l) ==
    /\ phase = from /\ phase' = to /\ list' = l
    /\ UNCHANGED <<source, machine>>

Inline ==
    \/ ~prog.inline /\ Pass("generated", "inlined", list)
    \/ /\ prog.inline
       /\ LET fl == inline_funcs(list, ToSet(prog.callees))
          IN  IF fl.lost THEN Pass("generated", "crashed", list)
              ELSE Pass("generated", "inlined", remove_inlined_funcs(fl))

MungeGlobals == Pass("inlined", "globals", mir_munge_globals(list))

(* A move without a result is what inlining makes of a call whose value is   *)
(* not used: the pass follows a null pointer.                                *)
HasNullMove ==
    \E i \in DOMAIN list.order : /\ Op(list, list.order[i]) = "move"
                                 /\ O(list, list.order[i], 3).k = "none"
MungeCode ==
    \/ ~HasNullMove /\ Pass("globals", "moves", mir_munge(list))
    \/ HasNullMove /\ Pass("globals", "crashed", list)

MungePointers == Pass("moves", "pointers", mir_munge_pointers(list))
SpillAliases == Pass("pointers", "aliases", mir_spill_may_aliases(list))
FoldConstants == Pass("aliases", "folded", mir_fold_constants(list))
RhsConstants == Pass("folded", "constants", mir_rhs_constants(list))
ArgsToRegs == Pass("constants", "arguments", mir_args_to_regs(list, REG_ARGS))
LabelNodes == Pass("arguments", "labelled", mir_label_nodes(list))

(* The control flow graph of each function: a jump out of it is an error.    *)
FunctionOf(l, id) ==
    CHOOSE first \in {i \in 1 .. Position(l, id) : Op(l, l.order[i]) = "label"} :
        \A j \in first + 1 .. Position(l, id) : Op(l, l.order[j]) # "label"

JumpStays(l, id) ==
    LET to == l.node[id].jump
    IN  to = 0 \/ (InList(l, to) /\ FunctionOf(l, id) = FunctionOf(l, to))

BuildGraphs ==
    /\ phase = "labelled"
    /\ phase' = IF \A i \in DOMAIN list.order : JumpStays(list, list.order[i])
                  THEN "compiled" ELSE "refused"
    /\ UNCHANGED <<source, list, machine>>

-----------------------------------------------------------------------------
(* The machine.  A call has registers of its own, and its arguments: the     *)
(* first REG_ARGS came in registers, the others on the stack.                *)

Entry(f) == CHOOSE id \in ToSet(list.order) : list.node[id].label = f
Defined(f) == \E id \in ToSet(list.order) : list.node[id].label = f

Frame(f, args) ==
    [pc |-> Entry(f), vars |-> << >>, regs |-> << >>, args |-> args]

Run ==
    /\ phase = "compiled" /\ phase' = "running"
    /\ frames' = << Frame("main", <<>>) >>
    /\ UNCHANGED <<source, list, mem, steps, result>>

Top == Last(frames)
I == list.node[Top.pc]
Val(o) == CASE o.k = "const" -> o.v
            [] o.k = "reg" -> Get(Top.regs, o.v)
            [] o.k = "var" -> Get(Top.vars, o.v)
Holding(fr, o, v) ==
    CASE o.k = "reg" -> [fr EXCEPT !.regs = Put(@, o.v, v)]
      [] o.k = "var" -> [fr EXCEPT !.vars = Put(@, o.v, v)]
      [] o.k = "none" -> fr

At(fr, id) == [fr EXCEPT !.pc = id]
Onward(fr) == At(fr, next(list, fr.pc))
Replace(fr) == frames' = [frames EXCEPT ![Len(frames)] = fr]

Executing(ops) ==
    /\ phase = "running" /\ steps < MaxSteps /\ I.op \in ops
    /\ steps' = steps + 1
    /\ UNCHANGED <<source, list>>

Computes(v) ==
    /\ Replace(Onward(Holding(Top, I.o[3], v)))
    /\ UNCHANGED <<phase, mem, result>>

Stop(v) ==
    /\ phase' = "stopped" /\ result' = Outcome(v, mem)
    /\ UNCHANGED <<frames, mem>>

(* A division is none of the cases of the printer.                           *)
ExecNothing ==
    /\ Executing({"nop", "label", "begin", "div"})
    /\ Replace(Onward(Top))
    /\ UNCHANGED <<phase, mem, result>>

ExecMove == Executing({"move"}) /\ Computes(Val(I.o[1]))

ExecArithmetic ==
    /\ Executing({"add", "sub", "mul"})
    /\ Computes(Calculate(I.op, Val(I.o[1]), Val(I.o[2])))

ExecAddress ==
    /\ Executing({"stack_addr", "heap_addr"})
    /\ Computes(IF I.op = "heap_addr" THEN AddressOf[I.o[1].v]
                ELSE StackAddress(Len(frames), I.o[1].v))

ExecLoad ==
    /\ Executing({"stack_load", "heap_load", "reg_load"})
    /\ Computes(Get(mem, CASE I.op = "heap_load" -> AddressOf[I.o[1].v]
                           [] I.op = "stack_load" ->
                                StackAddress(Len(frames), I.o[1].v)
                           [] I.op = "reg_load" -> Val(I.o[1])))

ExecStore ==
    /\ Executing({"stack_store", "heap_store", "reg_store"})
    /\ mem' = Put(mem, CASE I.op = "heap_store" -> AddressOf[I.o[3].v]
                         [] I.op = "stack_store" ->
                              StackAddress(Len(frames), I.o[3].v)
                         [] I.op = "reg_store" -> Val(I.o[3]),
                  Val(I.o[1]))
    /\ Replace(Onward(Top))
    /\ UNCHANGED <<phase, result>>

ExecJump ==
    /\ Executing({"jump"})
    /\ Replace(At(Top, I.jump))
    /\ UNCHANGED <<phase, mem, result>>

ExecIf ==
    /\ Executing({"if"})
    /\ LET holds == Calculate(I.o[3].v, Val(I.o[1]), Val(I.o[2]))
       IN  IF holds = Undef THEN Stop(Undef)
           ELSE /\ Replace(IF holds = 1 THEN At(Top, I.jump) ELSE Onward(Top))
                /\ UNCHANGED <<phase, mem, result>>

(* The number of the argument is counted while the code is printed, and not  *)
(* any further once the registers are used up.                               *)
ArgNumber(id) ==
    Cardinality({i \in FunctionOf(list, id) .. Position(list, id) - 1 :
                    Op(list, list.order[i]) = "receive"})

ExecReceive ==
    /\ Executing({"receive"})
    /\ LET n == ArgNumber(Top.pc)
       IN  Computes(Top.args[IF n < REG_ARGS THEN n + 1 ELSE REG_ARGS + 1])

ExecCall ==
    /\ Executing({"call"})
    /\ frames' = Append(frames, Frame(I.o[1].v, [i \in DOMAIN I.args |-> Val(I.args[i])]))
    /\ UNCHANGED <<phase, mem, result>>

(* Back in the caller, the first incoming register of the callee is the      *)
(* outgoing one that the result is taken from.                               *)
Leave(v) ==
    IF Len(frames) = 1 THEN Stop(v)
    ELSE LET caller == frames[Len(frames) - 1]
         IN  /\ frames' = Append(SubSeq(frames, 1, Len(frames) - 2),
                    Onward(Holding(caller, list.node[caller.pc].o[3], v)))
             /\ UNCHANGED <<phase, mem, result>>

ExecReturn == Executing({"return"}) /\ Leave(Val(I.o[1]))

(* There is no return at the end behind another: what is there jumps into    *)
(* the next function.                                                        *)
ExecEnd ==
    /\ Executing({"end"})
    /\ IF Op(list, prev(list, Top.pc)) = "return" THEN Stop(Undef)
       ELSE Leave(IF Top.args = <<>> THEN Undef ELSE Top.args[1])

Execution ==
    \/ ExecNothing \/ ExecMove \/ ExecArithmetic \/ ExecAddress
    \/ ExecLoad \/ ExecStore \/ ExecJump \/ ExecIf
    \/ ExecReceive \/ ExecCall \/ ExecReturn \/ ExecEnd

Final ==
    \/ phase \in {"rejected", "crashed", "refused", "stopped"}
    \/ phase = "checked" /\ HasHistory(prog)
    \/ phase = "running" /\ steps = MaxSteps
Done == Final /\ UNCHANGED vars

Next ==
    \/ MungeTrees \/ CheckTypes \/ parse_ast
    \/ Inline \/ MungeGlobals \/ MungeCode \/ MungePointers \/ SpillAliases
    \/ FoldConstants \/ RhsConstants \/ ArgsToRegs \/ LabelNodes
    \/ BuildGraphs \/ Run \/ Execution
    \/ Done

Spec == Init /\ [][Next]_vars

-----------------------------------------------------------------------------
(* Programs the compiler is known to translate wrongly.  Each of the names   *)
(* below is one situation, with the code that is behind it.                  *)

Bodies == {BodyIn(prog, f) : f \in ToSet(Functions)}
Nodes == UNION {Subtrees(b) : b \in Bodies}
Of(k) == {t \in Nodes : t.k = k}

(* BECOMES gives the variable to the last instruction of the value: for a    *)
(* comparison or || that is only one of the two moves.                       *)
TruthAssigned == \E t \in Of("becomes") :
    t.c[2].k \in Relations \cup {"and", "or"} /\ t.c[1].k = "id"

(* && tests its first operand twice.                                         *)
Conjunction == Of("and") # {}

(* No SPARC code is printed for a division.                                  *)
Division == Of("div") # {}

(* The result of a call gets to a variable only, as the value of an          *)
(* assignment; not to one that is kept in memory, its address being taken.   *)
CallResultLost ==
    \/ \E t \in Nodes : \E i \in DOMAIN t.c :
          /\ t.c[i].k = "call"
          /\ ~(t.k \in {"block"})
          /\ ~(t.k = "becomes" /\ i = 2 /\ t.c[1].k = "id")
    \/ \E t \in Of("becomes"), u \in Of("address") :
          t.c[2].k = "call" /\ t.c[1] = u.c[1]

(* An array whose address is the value.                                      *)
ArrayAsPointer == \E t \in Nodes : \E i \in DOMAIN t.c :
    /\ t.c[i].k = "id" /\ IsArray(t.c[i].name)
    /\ ~(t.k = "array" /\ i = 1)

(* A global pointer is used by its address, as if it were an array.          *)
GlobalPointer == \E t \in Of("id") :
    t.name \in Globals /\ is_address_type(DeclOf[t.name])

(* A function that ends in an if that returns has no code for its end.       *)
EndsInReturn(b) == b.c # <<>> /\ Last(b.c).k = "if" /\ Last(Last(b.c).c[2].c).k = "return"
FallsThrough == \E b \in Bodies : EndsInReturn(b)

(* Every argument on the stack is read from the first place.                 *)
SecondOnStack == \E f \in ToSet(prog.callees) : Len(ArgsOf[f]) > REG_ARGS + 1

(* The jump over an if lands on the call behind it, past the instruction     *)
(* that loads a constant for an argument on the stack.                       *)
ArgumentSkipped == \E b \in Of("block") : \E i \in 2 .. Len(b.c) :
    /\ b.c[i - 1].k \in {"if", "while", "for", "do"}
    /\ \E t \in Subtrees(b.c[i]) :
          t.k = "call" /\ \E j \in REG_ARGS + 2 .. Len(t.c) : t.c[j].k = "num"

(* Inlined code: a return before the end does not leave it, a jump that is   *)
(* its last instruction stays a jump into the function, a value that is not  *)
(* used has no place to go to, and a function that does nothing has no code  *)
(* that could be copied.                                                     *)
EarlyReturn == prog.inline /\ \E f \in ToSet(prog.callees) :
    \E t \in Subtrees(BodyOf[f]) :
        t.k \in {"if", "while", "do", "for"} /\ "return" \in Kinds(t)
LoopAtEnd == prog.inline /\ \E f \in ToSet(prog.callees) :
    BodyOf[f].c # <<>> /\ Last(BodyOf[f].c).k \in {"while", "do", "for"}
ValueDropped == prog.inline /\ \E b \in Of("block") : \E i \in DOMAIN b.c :
    b.c[i].k = "call" /\ DeclOf[b.c[i].c[1].name].s # <<VoidType>>
Statements == {"becomes", "call", "return", "if", "while", "do", "for"}
NothingInlined == prog.inline /\ \E f \in ToSet(prog.callees) :
    /\ ArgsOf[f] = <<>>
    /\ {s.k : s \in ToSet(BodyOf[f].c)} \cap Statements = {}

(* What mir_rhs_constants leaves: a constant that is the first operand of a  *)
(* product or a condition.                                                   *)
ConstantFirst == \E t \in Nodes :
    t.k \in Relations \cup {"mul"} /\ t.c[1].k = "num"

Supported ==
    /\ ~TruthAssigned /\ ~Conjunction /\ ~Division /\ ~CallResultLost
    /\ ~ArrayAsPointer /\ ~GlobalPointer /\ ~FallsThrough /\ ~SecondOnStack
    /\ ~EarlyReturn /\ ~ArgumentSkipped /\ ~LoopAtEnd /\ ~ValueDropped
    /\ ~NothingInlined

-----------------------------------------------------------------------------
(* Properties.                                                               *)

Phases == {"parsed", "munged", "checked", "generated", "inlined", "globals",
           "moves", "pointers", "aliases", "folded", "constants", "arguments",
           "labelled", "compiled", "running",
           "rejected", "crashed", "refused", "stopped"}

(* The list is one: no node is in it twice, the spare one is not in it, and  *)
(* registers come from tr_alloc.                                             *)
TypeOK ==
    /\ phase \in Phases /\ steps \in 0 .. MaxSteps
    /\ IsInjective(list.order) /\ ~InList(list, list.spare)
    /\ ToSet(list.order) \cup {list.spare} \subseteq DOMAIN list.node
    /\ \A id \in DOMAIN list.node : \A i \in 1 .. 3 :
          O(list, id, i).k = "reg" => O(list, id, i).v \in 0 .. list.reg - 1

(* The code that comes out computes what the program means: the value main   *)
(* returns and the globals it leaves.  It does come out and to its end.      *)
MeansSource ==
    Final /\ Supported /\ phase \notin {"rejected", "checked"} =>
        LET meaning == Meaning(BodyIn(prog, "main"))
        IN  meaning.ret # Undef => phase = "stopped" /\ result = meaning

(* Whatever passes insert, move and delete, a jump goes to an instruction of *)
(* the list, in its own function, and the links of an instruction are as     *)
(* many as the jumps to it: mir_move_label and mir_label_nodes rely on that. *)
JumpsResolve ==
    phase \in Phases \ {"refused", "running", "stopped"} /\ ~LoopAtEnd =>
        /\ \A id \in ToSet(list.order) : JumpStays(list, id)
        /\ \A id \in ToSet(list.order) :
              list.node[id].links =
                  Cardinality({i \in ToSet(list.order) : list.node[i].jump = id})

(* The printer has an instruction for all that comes out of the passes:      *)
(* nothing is dereferenced in an operand, a global is used by loads and      *)
(* stores only, a variable that has an address is not read from a register,  *)
(* and is stored as soon as it is set, and constants are where SPARC         *)
(* instructions can have them.                                               *)
Loading == {"heap_load", "heap_addr"}
RegisterFirst == {"add", "sub", "mul", "if", "reg_load",
                  "reg_store", "stack_store", "heap_store"}
Stored(id) == LET ins == list.node[next(list, id)]
              IN  ins.op = "stack_store" /\ IsVar(ins.o[1])
                  /\ ins.o[1].v = O(list, id, 3).v

Encodable ==
    phase = "compiled" /\ ~CallResultLost /\ ~ConstantFirst /\ ~GlobalPointer =>
        \A id \in ToSet(list.order) :
            LET ins == list.node[id]
                used == SubSeq(ins.o, 1, 2) \o ins.args
            IN  /\ \A i \in DOMAIN used :
                      /\ ~used[i].ind
                      /\ IsGlobal(used[i]) => ins.op \in Loading
                      /\ Aliased(list, used[i]) => ins.op \in Stores
                /\ ~ins.o[3].ind
                /\ IsGlobal(ins.o[3]) => ins.op = "heap_store"
                /\ Aliased(list, ins.o[3]) => Stored(id)
                /\ ins.op \in RegisterFirst => ~IsConst(ins.o[1])
                /\ \A i \in DOMAIN ins.args :
                      i > REG_ARGS => ~IsConst(ins.args[i])

(* A history variable that is read is read through a history node, in the    *)
(* value of an assignment and in a call, and the variable that an assignment *)
(* sets is not.  The depth of an access is the exception: type checking does *)
(* not go there.                                                             *)
IsHistoryLeaf(t) == t.k = "id" /\ is_history_type(DeclOf[t.name])

Loaded(t) == \A u \in Subtrees(t) : \A i \in DOMAIN u.c :
    IsHistoryLeaf(u.c[i]) => u.k \in {"history", "address"}

HistoryUsesLoaded ==
    phase = "checked" =>
        \A i \in DOMAIN trees : \A t \in Subtrees(trees[i]) :
            /\ t.k = "call" => Loaded(t)
            /\ t.k = "becomes" => /\ Loaded(t.c[2]) /\ ~IsHistoryLeaf(t.c[2])
                                 /\ t.c[1].k # "history"

(* What is rejected is what does not fit: an address where a function has an *)
(* integer, an integer where it has a pointer, or one that is dereferenced.  *)
(* Arrays do not become pointers in a call, and a history variable that is   *)
(* an index on the left of an assignment has not been loaded: it is refused. *)
Mismatch(t) ==
    \/ /\ t.k = "call"
       /\ LET f == t.c[1].name
          IN  \E i \in DOMAIN ArgsOf[f] :
                 IsPointer(t.c[i + 1]) # is_address_type(DeclOf[ArgsOf[f][i]])
    \/ t.k = "pointer" /\ ~IsPointer(t.c[1])

HistoryAsIndex == \E t \in Of("becomes") : \E u \in Subtrees(t.c[1]) :
    u.k = "array" /\ IsHistoryLeaf(u.c[2])

TypesAgree ==
    phase \in {"checked", "rejected"} /\ ~ArrayAsPointer /\ ~HistoryAsIndex =>
        (phase = "rejected" <=> \E t \in Nodes : Mismatch(t))
=============================================================================
