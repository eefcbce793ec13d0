------------------------------- MODULE Frames -------------------------------
(* Scopes and the layout of stack frames (scope.c, symtable.c,               *)
(* copy_locals of inline.c, the places of spilled temporaries in regalloc.c  *)
(* and the frame sparcgen.c makes of it).  A declaration pass builds the     *)
(* tree of scopes, set_scope_offsets gives every variable an offset, then    *)
(* inlining moves local variables to their callers, and spilling takes more  *)
(* words of the frame.                                                       *)
EXTENDS TypeSigs

CONSTANTS
    Funcs,                       \* functions that are declared and defined
    EntryPoint,                  \* one of them, declared by the compiler
    Types,                       \* types of local and global variables
    ArgTypes,                    \* types of arguments
    Options,                     \* the options of history storage: the depth
                                 \* below which it is flat, O(d) or not
    IC_STACK_FRAME_HEADER_BYTES,
    STACK_HEADER_SIZE, STACK_LOCAL_BASE, STACK_ARGS_BASE, STACK_ALIGN,
    WORD_SIZE,                   \* sparc.h
    MaxScopes, MaxRecords, MaxTogether, MaxInlined, MaxTemps,
    MaxStackArgs                 \* bounds of the instance

(* The types of declarations: the grammar has pointers outside of arrays and  *)
(* histories, and nothing inside the base type; a variable of a struct's     *)
(* type is TYPE_USER.                                                        *)
ASSUME TypesAssumption ==
    /\ \A t \in Types \cup ArgTypes :
          /\ IsSized(t)
          /\ Base(t).k = "utype" => Base(t).n \in DOMAIN UTypes
          /\ \A i \in 1 .. Len(t.s) - 1 :
                /\ t.s[i].k \in {"pointer", "array", "history"}
                /\ t.s[i + 1].k = "pointer" => t.s[i].k = "pointer"
    /\ \A t \in Types :
          t.decl = IF is_struct_type(t) THEN "user" ELSE "variable"
    /\ \A t \in ArgTypes : t.decl = "argument"
ASSUME FramesAssumption ==
    /\ EntryPoint \in Funcs
    /\ Options \subseteq [history_simple_depth : Nat, order_d : BOOLEAN]
    /\ IC_STACK_FRAME_HEADER_BYTES \in Nat
    /\ {MaxScopes, MaxRecords, MaxTogether, MaxInlined, MaxTemps,
        MaxStackArgs} \subseteq Nat

(* The words for arguments begin below those for variables, and these below  *)
(* the end of the header.                                                    *)
ASSUME StackAssumption ==
    /\ {STACK_HEADER_SIZE, STACK_LOCAL_BASE, STACK_ARGS_BASE, WORD_SIZE} \subseteq Nat
    /\ STACK_ALIGN \in Nat \ {0}
    /\ STACK_ARGS_BASE <= STACK_LOCAL_BASE
    /\ STACK_LOCAL_BASE <= STACK_HEADER_SIZE

VARIABLES
    cflags,      \* the options; no step changes them
    scopes,      \* scope_node_t: the global scope is the first
    records,     \* name_record_t: type, offset, and the bytes the program
                 \* and the run time library make use of
    current,     \* current_scope
    parsed,      \* functions whose body was walked
    phase,       \* "declare", "inline", "allocate", "generate"
    func_inline, \* functions to be inlined: those declared so, until the
                 \* inlining of one is disabled
    inlined,     \* pairs <<inlined function, caller>>, in order
    temps        \* stack_temps: for each function, offsets in its list

vars == <<cflags, scopes, records, current, parsed, phase, func_inline, inlined,
          temps>>

Global == 1
Scope(f, prev, recs, size) ==
    [func |-> f, prev |-> prev, recs |-> recs, size |-> size]
Record(t, need) == [type |-> t, offset |-> 0, need |-> need]

(* A scope gets more records.                                                *)
Extended(scope, recs, size) ==
    Scope(scope.func, scope.prev, scope.recs \o recs, scope.size + size)

(* Scopes and records change while they are copied, so the operators that    *)
(* walk over them have them as parameters, sc and rs.                        *)
Children(sc, s) == {c \in DOMAIN sc : sc[c].prev = s}
FuncScope(f) ==
    CHOOSE c \in Children(scopes, Global) : scopes[c].func = f
Declared == {scopes[c].func : c \in Children(scopes, Global)}

(* A scope and the scopes around it.                                         *)
Ancestors(sc, s) ==
    LET around[c \in DOMAIN sc] ==
            {c} \cup (IF sc[c].prev = 0 THEN {} ELSE around[sc[c].prev])
    IN  around[s]

NewIds(n) == [i \in 1 .. n |-> Len(records) + i]
RecsSize(rs, recs) == Total([i \in DOMAIN recs |-> entry_size(rs[recs[i]].type)])

(* The declarations have still to fit into the bounds, which count the       *)
(* variables of the program only.                                            *)
OfProgram == {i \in DOMAIN records :
                 records[i].type.decl \notin
                     {"internal", "base_copy", "element_pointers"}}
Fits(newScopes, newRecords) ==
    /\ Len(scopes) + newScopes <= MaxScopes
    /\ Cardinality(OfProgram) + newRecords <= MaxRecords

-----------------------------------------------------------------------------
(* What values of a type take, from the meaning of the type: one value of    *)
(* it, all elements of an array, and these with their history.               *)
OneValue(t) ==
    IF is_address_type(t) THEN IC_SIZEOF_POINTER
    ELSE IF is_struct_type(t) THEN StructSize[Base(t).n]
    ELSE sizeof_primitive(Base(t))
Values(t) == OneValue(t) * Product(Extents(t, 1))
Needed(t) ==
    IF ~is_history_type(t) THEN Values(t)
    ELSE IF is_array_type(t) THEN Values(t) * get_history_depth(t)
    ELSE Values(t) * (get_history_depth(t) + 1)

(* Types whose size is computed for another type: the elements of an array   *)
(* are measured by the base type, pointers and structs or not, and histories *)
(* of arrays add the dimensions up.                                          *)
MeasuredByBase(t) ==
    /\ is_array_type(t)
    /\ \/ Has(t, {"pointer", "utype"})
       \/ is_history_type(t) /\ get_num_dimensions(t) > 1

(* A declared variable, and what history storage adds for one of type t: a   *)
(* copy or the current value, a pointer, an array.  Copies have the base     *)
(* type, be the values pointers or not, and one dimension.                   *)
Variable(t) == Record(t, Needed(t))
CopyDecl(t) ==
    IF MeasuredByBase(t) \/ Has(t, {"pointer"}) THEN "base_copy" ELSE "internal"
OfOne(t) == Record(Sig(CopyDecl(t), <<Base(t)>>), OneValue(t))
CopyOf(t) ==
    Record(create_array_type(CopyDecl(t), Base(t),
                             t.s[Leftmost(t.s, {"array"})].n), Values(t))
PtrTo(base, levels) ==
    Record(create_ptr_to_type("internal", base, levels), IC_SIZEOF_POINTER)
ArrayOf(base, size, need) ==
    Record(create_array_type("internal", base, size), need)

Flat(t) == ~is_array_type(t)
             /\ get_history_depth(t) < cflags.history_simple_depth

(* The library uses a pointer for every element of an index-wise array, and  *)
(* two words for every entry of a change list.                               *)
history_add_internal_names(t) ==
    LET base == Base(t)
        elements == get_num_elements(t)
        depth == get_history_depth(t)
    IN  IF ~is_history_type(t) \/ t.decl = "user" THEN <<>>
        ELSE IF history_array_type(t) = "index_wise"
          THEN << Record(create_ptr_to_type("element_pointers", base, 2),
                         elements * IC_SIZEOF_POINTER), CopyOf(t) >>
        ELSE IF is_array_type(t) /\ cflags.order_d
          THEN << PtrTo(base, 2), CopyOf(t),
                  ArrayOf(IntType, depth * 2, depth * 2 * IC_SIZEOF_INT),
                  PtrTo(base, 1) >>
        ELSE IF is_array_type(t) THEN << PtrTo(base, 1), CopyOf(t) >>
        ELSE IF Flat(t) THEN << OfOne(t) >>
        ELSE << OfOne(t), PtrTo(base, 1), OfOne(t) >>

(* Flat storage is counted once more.                                        *)
CountedTwice(t) ==
    IF is_history_type(t) /\ t.decl # "user" /\ Flat(t) THEN sizeof_history(t)
    ELSE 0

(* Mutant of add_entries: the space for the histories is forgotten.          *)
AddWithoutHistory(list, new) ==
    [recs |-> list.recs \o new,
     size |-> list.size + Total([i \in DOMAIN new |-> sizeof_type(new[i].type)])]

(* Records are appended one after the other and the scope grows by their     *)
(* sizes, without regard to alignment.                                       *)
add_entries(list, new) ==
    [recs |-> list.recs \o new,
     size |-> list.size + Total([i \in DOMAIN new |-> entry_size(new[i].type)])]

NoEntries == [recs |-> <<>>, size |-> 0]

parse_decl(list, t) ==
    LET with == add_entries(list, <<Variable(t)>> \o history_add_internal_names(t))
    IN  [with EXCEPT !.size = @ + CountedTwice(t)]

parse_decls(ts) ==
    LET after[i \in 0 .. Len(ts)] ==
            IF i = 0 THEN NoEntries ELSE parse_decl(after[i - 1], ts[i])
    IN  after[Len(ts)]

parse_func_args(ts) ==
    add_entries([NoEntries EXCEPT !.size = IC_STACK_FRAME_HEADER_BYTES],
                [i \in DOMAIN ts |-> Variable(ts[i])])

-----------------------------------------------------------------------------
(* parse_decls of the global scope starts with a record and a scope for the  *)
(* entry point; its scope has no header.                                     *)
Init ==
    /\ cflags \in Options
    /\ scopes = << Scope("", 0, <<>>, 0), Scope(EntryPoint, Global, <<>>, 0) >>
    /\ records = <<>>
    /\ current = Global
    /\ parsed = {}
    /\ phase = "declare"
    /\ func_inline = {}
    /\ inlined = <<>>
    /\ temps = [f \in Funcs |-> <<>>]

DeclareGlobal ==
    /\ phase = "declare" /\ current = Global /\ parsed = {}
    /\ Fits(0, 1)
    /\ \E t \in Types :
          LET sc == parse_decls(<<t>>)
          IN  /\ records' = records \o sc.recs
              /\ scopes' = [scopes EXCEPT ![Global] =
                    Extended(@, NewIds(Len(sc.recs)), sc.size)]
    /\ UNCHANGED <<cflags, current, parsed, phase, func_inline, inlined, temps>>

(* The scope of a function has its arguments and a header.  The function can *)
(* be declared inline.                                                       *)
DeclareFunc ==
    /\ phase = "declare" /\ current = Global /\ parsed = {}
    /\ \E f \in Funcs \ Declared, args \in SeqOf(ArgTypes, MaxTogether) :
          LET sc == parse_func_args(args)
          IN  /\ Fits(1, Len(args))
              /\ func_inline' \in {func_inline, func_inline \cup {f}}
              /\ records' = records \o sc.recs
              /\ scopes' = Append(scopes,
                    Scope(f, Global, NewIds(Len(args)), sc.size))
    /\ UNCHANGED <<cflags, current, parsed, phase, inlined, temps>>

(* parse_decl_subtrees at a function and at its end; the definitions are in  *)
(* the order of the declarations.                                            *)
EnterFunction ==
    /\ phase = "declare" /\ current = Global
    /\ \E f \in Declared \ parsed :
          /\ \A g \in Declared \ parsed : FuncScope(f) <= FuncScope(g)
          /\ current' = FuncScope(f)
          /\ parsed' = parsed \cup {f}
    /\ UNCHANGED <<cflags, scopes, records, phase, func_inline, inlined, temps>>

LeaveFunction ==
    /\ phase = "declare" /\ scopes[current].prev = Global
    /\ current' = Global
    /\ UNCHANGED <<cflags, scopes, records, parsed, phase, func_inline, inlined,
                   temps>>

(* A block that starts with declarations: parse_decls makes the scope and    *)
(* add_scope puts it below the current one, whose name it gets.              *)
add_scope ==
    /\ phase = "declare" /\ current # Global
    /\ \E ts \in SeqOf(Types, MaxTogether) \ {<<>>} :
          LET sc == parse_decls(ts)
          IN  /\ Fits(1, Len(ts))
              /\ records' = records \o sc.recs
              /\ scopes' = Append(scopes,
                    Scope(scopes[current].func, current, NewIds(Len(sc.recs)),
                          sc.size))
              /\ current' = Len(scopes) + 1
    /\ UNCHANGED <<cflags, parsed, phase, func_inline, inlined, temps>>

LeaveBlock ==
    /\ phase = "declare" /\ current # Global
    /\ scopes[current].prev # Global
    /\ current' = scopes[current].prev
    /\ UNCHANGED <<cflags, scopes, records, parsed, phase, func_inline, inlined,
                   temps>>

-----------------------------------------------------------------------------
(* Offsets.                                                                  *)

Largest(S) == CHOOSE n \in S : \A m \in S : m <= n

(* The size of a scope and of the largest of the scopes in it.               *)
max_scope_size(sc, s) ==
    LET size[c \in DOMAIN sc] ==
            sc[c].size + Largest({0} \cup {size[d] : d \in Children(sc, c)})
    IN  size[s]

(* Mutant of RecordOffset: every scope starts at the bottom of the frame.    *)
OffsetInScope(s, r) ==
    LET i == CHOOSE j \in DOMAIN scopes[s].recs : scopes[s].recs[j] = r
    IN  RecsSize(records, SubSeq(scopes[s].recs, 1, i - 1))

(* The records of a scope come after everything in the scopes inside it.     *)
RecordOffset(s, r) ==
    LET i == CHOOSE j \in DOMAIN scopes[s].recs : scopes[s].recs[j] = r
        base == IF Children(scopes, s) = {} THEN 0
                ELSE max_scope_size(scopes, s) - scopes[s].size
    IN  base + RecsSize(records, SubSeq(scopes[s].recs, 1, i - 1))

Home(r) == CHOOSE s \in DOMAIN scopes :
              \E i \in DOMAIN scopes[s].recs : scopes[s].recs[i] = r
IsLocal(r) == Home(r) # Global

set_scope_offsets ==
    /\ phase = "declare" /\ current = Global /\ parsed = Declared
    /\ records' = [r \in DOMAIN records |->
          IF IsLocal(r)
            THEN [records[r] EXCEPT !.offset = RecordOffset(Home(r), r)]
            ELSE records[r]]
    /\ phase' = "inline"
    /\ UNCHANGED <<cflags, scopes, current, parsed, func_inline, inlined, temps>>

(* copy_locals: the records of a scope, and then those of the scopes in it,  *)
(* go to the caller's scope.  They stay shared with the inlined function,    *)
(* and every scope adds the size the caller has by then.  A record that is   *)
(* listed twice is moved twice.                                              *)
CopyScope(sc, rs, src, dest) ==
    LET recs == sc[src].recs
        base == max_scope_size(sc, dest)
        times(r) == Cardinality({i \in DOMAIN recs : recs[i] = r})
    IN  [scopes |-> [sc EXCEPT ![dest] =
                        Extended(@, recs, RecsSize(rs, recs))],
         records |-> [r \in DOMAIN rs |->
                        [rs[r] EXCEPT !.offset = @ + base * times(r)]]]

(* The scopes are copied in the order of the recursion: numbers are given    *)
(* when a scope is opened, so parents first, children in order.              *)
CopyScopes(src, dest) ==
    LET after[s \in 0 .. Len(scopes)] ==
            IF s = 0 THEN [scopes |-> scopes, records |-> records]
            ELSE LET before == after[s - 1]
                 IN  IF src \in Ancestors(scopes, s)
                       THEN CopyScope(before.scopes, before.records, s, dest)
                       ELSE before
    IN  after[Len(scopes)]

copy_locals(src, dest) ==
    /\ scopes' = CopyScopes(src, dest).scopes
    /\ records' = CopyScopes(src, dest).records

Moved == {inlined[i][1] : i \in DOMAIN inlined}
Callers == {inlined[i][2] : i \in DOMAIN inlined}

(* The walk over the code comes to a call of f in g: the functions follow    *)
(* each other in the order of their definitions, so it does not come back to *)
(* one.  The calls in the code that is copied are not visited any more, but  *)
(* end the inlining of the functions they call, f itself it may be, and of   *)
(* functions that were inlined before.  They can be any when f was neither   *)
(* walked nor copied yet; after a walk f has no such call left, and after a  *)
(* copy none whose inlining is not disabled, so nothing is inlined into it.  *)
(* (A function that is walked first and calls itself makes the loops of      *)
(* copy_locals and inline_funcs follow what they insert, without an end.)    *)
InlineCall ==
    /\ phase = "inline" /\ Len(inlined) < MaxInlined
    /\ \E f \in func_inline :
       \E g \in Declared \ (Moved \cup {f}), called \in SUBSET func_inline :
          /\ g \in Callers => g = Last(inlined)[2]
          /\ f \in Moved \cup Callers => called = {}
          /\ copy_locals(FuncScope(f), FuncScope(g))
          /\ inlined' = Append(inlined, <<f, g>>)
          /\ func_inline' = func_inline \ called
    /\ UNCHANGED <<cflags, current, parsed, phase, temps>>

(* remove_inlined_funcs: what was not disabled is gone.                      *)
Left == Declared \ func_inline

AllocateRegisters ==
    /\ phase = "inline"
    /\ phase' = "allocate"
    /\ UNCHANGED <<cflags, scopes, records, current, parsed, func_inline, inlined,
                   temps>>

(* Mutant of temp_stack_location: not behind the last place but on it.       *)
LastTempAgain(f) ==
    IF temps[f] = <<>> THEN max_scope_size(scopes, FuncScope(f)) ELSE Last(temps[f])

(* temp_stack_location for a register that has no place yet: the next word   *)
(* behind the largest extent of the scopes.                                  *)
temp_stack_location(f) ==
    LET size == max_scope_size(scopes, FuncScope(f))
    IN  size + (IF temps[f] = <<>> THEN 0 ELSE Last(temps[f]) - size + 4)

Spilled == {p \in Funcs \X (1 .. MaxTemps) : p[2] \in DOMAIN temps[p[1]]}

SpillTemp ==
    /\ phase = "allocate" /\ Cardinality(Spilled) < MaxTemps
    /\ \E f \in Left :
          temps' = [temps EXCEPT ![f] = Append(@, temp_stack_location(f))]
    /\ UNCHANGED <<cflags, scopes, records, current, parsed, phase, func_inline,
                   inlined>>

add_temps_to_scopes ==
    /\ phase = "allocate"
    /\ scopes' = [s \in DOMAIN scopes |->
          IF scopes[s].prev = Global
            THEN [scopes[s] EXCEPT !.size = @ + 4 * Len(temps[scopes[s].func])]
            ELSE scopes[s]]
    /\ phase' = "generate"
    /\ UNCHANGED <<cflags, records, current, parsed, func_inline, inlined, temps>>

Done == phase = "generate" /\ UNCHANGED vars

Next ==
    \/ DeclareGlobal \/ DeclareFunc
    \/ EnterFunction \/ LeaveFunction \/ add_scope \/ LeaveBlock
    \/ set_scope_offsets \/ InlineCall
    \/ AllocateRegisters \/ SpillTemp \/ add_temps_to_scopes
    \/ Done

Spec == Init /\ [][Next]_vars

-----------------------------------------------------------------------------
(* The frame of a function whose calls take w words of arguments beyond the  *)
(* registers.                                                                *)

align(n) == IF n % STACK_ALIGN = 0 THEN n
            ELSE n + (STACK_ALIGN - (n % STACK_ALIGN))
sp_offset(o, w) == o + STACK_LOCAL_BASE + w * WORD_SIZE
FrameSize(f, w) ==
    align(STACK_HEADER_SIZE + max_scope_size(scopes, FuncScope(f)) + w * WORD_SIZE)

-----------------------------------------------------------------------------
(* Properties.                                                               *)

TypeOK ==
    /\ current \in DOMAIN scopes
    /\ phase \in {"declare", "inline", "allocate", "generate"}
    /\ parsed \subseteq Funcs
    /\ func_inline \subseteq Declared \ {EntryPoint}
    /\ \A s \in DOMAIN scopes :
          /\ scopes[s].prev \in 0 .. s - 1
          /\ scopes[s].size >= RecsSize(records, scopes[s].recs)
    /\ \A r \in DOMAIN records : records[r].offset \in Nat

(* The scopes of f that have variables, and the records of a set of scopes.  *)
OwnScopes(f) == {s \in DOMAIN scopes : FuncScope(f) \in Ancestors(scopes, s)}
RecsIn(S) == UNION {{scopes[s].recs[i] : i \in DOMAIN scopes[s].recs} : s \in S}

(* copy_locals is right for a function that is inlined only once, that has   *)
(* all its variables in one scope, and into which nothing was inlined: the   *)
(* base it adds to the offsets of a scope already has the sizes of the       *)
(* scopes before it in it, and those offsets had too; a second call moves    *)
(* the same records again; and the offsets of records that were copied       *)
(* before count the header of a frame that the caller does not grow by.      *)
CopiedOnce ==
    \A i \in DOMAIN inlined :
        /\ \A j \in DOMAIN inlined :
              /\ inlined[j][1] = inlined[i][1] => i = j
              /\ inlined[j][2] # inlined[i][1]
        /\ Cardinality({s \in OwnScopes(inlined[i][1]) :
                           scopes[s].recs # <<>>}) <= 1

Overlap(a, m, b, n) == a < b + n /\ b < a + m

(* Variables that can be in use at once, because the scope of one is inside  *)
(* that of the other, never share a byte of the frame: offsets are given     *)
(* from the innermost scope outwards, and moved by inlining.                 *)
SlotsDisjoint ==
    phase # "declare" /\ CopiedOnce =>
        \A f \in Left : \A s \in OwnScopes(f) :
            LET seen == RecsIn(Ancestors(scopes, s) \ {Global})
            IN  \A r, q \in seen : r < q =>
                  ~Overlap(records[r].offset, entry_size(records[r].type),
                           records[q].offset, entry_size(records[q].type))

(* Every variable and every spilled temporary of a function that is left is  *)
(* inside its frame and behind the words for outgoing arguments, whatever    *)
(* their number, and no temporary shares a word with a variable or another   *)
(* temporary.  The exception is a function that is left although it was      *)
(* inlined, because its inlining was disabled then or later: its variables   *)
(* were moved to where the caller has room for them.                         *)
FramesHold ==
    phase \in {"allocate", "generate"} /\ CopiedOnce =>
        \A f \in Left :
            LET recs == IF f \in Moved THEN {} ELSE RecsIn(OwnScopes(f))
                slots == {<<records[r].offset, entry_size(records[r].type)>> :
                            r \in recs}
                         \cup {<<temps[f][i], 4>> : i \in DOMAIN temps[f]}
            IN  /\ phase = "generate" =>
                      \A w \in 0 .. MaxStackArgs, x \in slots :
                         /\ sp_offset(x[1], w) >=
                               STACK_ARGS_BASE + w * WORD_SIZE
                         /\ sp_offset(x[1], w) + x[2] <= FrameSize(f, w)
                /\ \A i, j \in DOMAIN temps[f] :
                      i < j => ~Overlap(temps[f][i], 4, temps[f][j], 4)
                /\ \A i \in DOMAIN temps[f], r \in recs :
                      ~Overlap(temps[f][i], 4, records[r].offset,
                               entry_size(records[r].type))

(* An index-wise array has one pointer, the library sets one per element.    *)
IndexWisePointers(t) == t.decl = "element_pointers"

(* The copies of a variable whose values are not those of its base type.     *)
BaseCopy(t) == t.decl = "base_copy"

(* The space kept for a variable, and for what history storage adds to it,   *)
(* is at least what its type needs and the run time library writes.          *)
StorageSuffices ==
    \A r \in DOMAIN records :
        LET t == records[r].type
        IN  ~MeasuredByBase(t) /\ ~IndexWisePointers(t) /\ ~BaseCopy(t) =>
                entry_size(t) >= records[r].need
=============================================================================
