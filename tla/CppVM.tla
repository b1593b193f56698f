------------------------------- MODULE CppVM -------------------------------
(***************************************************************************)
(* BfVM: code generation with cells cached in values, and the run of what  *)
(* was generated.                                                          *)
(*                                                                         *)
(* temporary_values maps an offset from the data pointer to the jit value  *)
(* that holds the cell.  Opcodes work on values; cells go back to memory   *)
(* when a shift moves them behind the pointer, or when the program ends.   *)
(* A shift renames the values that stay: nothing but the map changes.      *)
(*                                                                         *)
(* CompileBlock walks the tree in order, so its steps are driven here by   *)
(* the flat code of the tree, whose LOOP and END are the calls of BeginLoop*)
(* and EndLoop.  The labels of open loops are kept as in LoopNest, which   *)
(* LoopStack shows to be what the linked Loop records provide.             *)
(*                                                                         *)
(* The jit function then runs, and beside it a machine that interprets the *)
(* opcodes: each executes one whenever an instruction has its effect.      *)
(***************************************************************************)
EXTENDS BfMachine, FlatCode, SequencesExt

CONSTANTS
  Stdin,        \* bound: what the standard input may hold
  Unset,        \* bound: what memory and values that nothing has set may hold
  MaxPrinted,   \* bound: characters printed before a run is left alone
  MaxStray      \* bound: how far off the tape the pointer may go in a run

ASSUME VMAssumption ==
  /\ Stdin \subseteq Seq(Cell) /\ Unset \subseteq Cell
  /\ MaxPrinted \in Nat /\ MaxStray \in Nat

VARIABLES
  flat,               \* the flat code of the tree
  at,                 \* position in it, 0 before CompileProgram is called
  temporary_values,   \* BfVM::temporary_values, without the null entries
  values,             \* number of jit values made
  code,               \* instructions emitted
  nest,               \* labels of the open loops, innermost last
  labels,             \* number of labels
  finished,           \* CompileProgram has returned
  entered,            \* history: position and map at the label of each open loop
  coherent,           \* history: see CoherentCacheIsInvisible
  jit,                \* the function as it runs: position, machine, values
  plain               \* history: the opcodes interpreted alongside

genVars == <<flat, at, temporary_values, values, code, nest, labels, finished,
             entered, coherent>>
vmVars == <<genVars, jit, plain>>

-----------------------------------------------------------------------------
(* Instructions of the jit function, in the order they are emitted. *)

Insn(insn, dst, src, arg) == [insn |-> insn, dst |-> dst, src |-> src, arg |-> arg]

\* The map with the cell at an offset held by value r.
Caching(map, offset, r) ==
  [k \in DOMAIN map \cup {offset} |-> IF k = offset THEN r ELSE map[k]]

\* What the generator has made so far, as helpers pass it on.
Gen == [map |-> temporary_values, values |-> values, code |-> code]

Emit(g, insns) == [g EXCEPT !.code = @ \o insns]

\* The value of a cell, loading it into a fresh one if it is not cached.
LoadCached_Shared(g, offset) ==
  IF offset \in DOMAIN g.map THEN g
  ELSE [map    |-> Caching(g.map, offset, g.values),
        values |-> g.values,
        code   |-> g.code \o << Insn("LOAD", g.values, 0, offset) >>]
LoadCached(g, offset) ==
  IF offset \in DOMAIN g.map THEN g
  ELSE [map    |-> Caching(g.map, offset, g.values + 1),
        values |-> g.values + 1,
        code   |-> g.code \o << Insn("LOAD", g.values + 1, 0, offset) >>]

Stored(offset) == Insn("STORE", 0, temporary_values[offset], offset)

\* CompileOpcodeCached: the opcode on the values of its two cells.
OnValues(o, map) ==
  CASE o.op = "BF_ADD" -> Insn("ADD", map[o.dst], map[o.src], o.arg)
    [] o.op = "BF_MUL" -> Insn("MUL", map[o.dst], map[o.src], o.arg)
    [] o.op = "BF_PUT" -> Insn("PUT", 0, map[o.src], 0)
    [] o.op = "BF_GET" -> Insn("GET", map[o.dst], 0, 0)
    [] o.op = "BF_SET" -> Insn("SET", map[o.dst], 0, o.arg)

(***************************************************************************)
(* What a shift does for a value it keeps: its new offset may be cached    *)
(* too, then that other value is overwritten; otherwise the new offset is  *)
(* loaded, into a value r that is dropped (the pair changed is a copy).    *)
(***************************************************************************)
Renamed(offset, arg, r) ==
  IF offset - arg \in DOMAIN temporary_values
  THEN Insn("MOVE", temporary_values[offset - arg], temporary_values[offset], 0)
  ELSE Insn("LOAD", r, 0, offset - arg)

Stays(map, arg) == {k \in DOMAIN map : k - arg >= 0}
Evicted_None(map, arg) == {}
Evicted(map, arg) == DOMAIN map \ Stays(map, arg)

\* The jump back and the place a loop exits to.
LoopEnd(loop) ==
  << Insn("BR", 0, 0, loop.start), Insn("LABEL", 0, 0, loop.end) >>

Becomes(g) ==
  /\ temporary_values' = g.map
  /\ values' = g.values
  /\ code' = g.code

-----------------------------------------------------------------------------
VMInit ==
  /\ flat = << >> /\ at = 0
  /\ temporary_values = << >> /\ values = 0
  /\ code = << >>
  /\ nest = << >> /\ labels = 0
  /\ finished = FALSE
  /\ entered = << >> /\ coherent = TRUE
  /\ plain = [pc |-> 0, m |-> Loaded(<< >>)]
  /\ jit = [pc |-> 0, m |-> Loaded(<< >>), v |-> << >>]

BeginCompilation(ops) ==
  /\ at = 0
  /\ at' = 1 /\ flat' = ops
  /\ UNCHANGED <<temporary_values, values, code, nest, labels, finished,
                 entered, coherent, jit, plain>>

generated == at > Len(flat)

Compiles(ops) ==
  /\ at > 0
  /\ ~generated
  /\ flat[at].op \in ops
  /\ at' = at + 1
  /\ UNCHANGED <<flat, finished, jit, plain>>

CompileOpcode ==
  /\ Compiles(Operations \ {"BF_SFT"})
  /\ LET o == flat[at]
         g == LoadCached(LoadCached(Gen, o.src), o.dst)
     IN Becomes(Emit(g, << OnValues(o, g.map) >>))
  /\ UNCHANGED <<nest, labels, entered, coherent>>

\* The order is that of std::unordered_map's iteration: any.
CompileShift ==
  /\ Compiles({"BF_SFT"})
  /\ LET arg == flat[at].arg
         kept == Stays(temporary_values, arg)
     IN /\ \E stores \in SetToSeqs(Evicted(temporary_values, arg)), d \in SetToSeqs(kept) :
             Becomes([map    |-> [k \in {j - arg : j \in kept} |-> temporary_values[k + arg]],
                      values |-> values + Len(d),
                      code   |-> code \o [i \in DOMAIN stores |-> Stored(stores[i])]
                                      \o [i \in DOMAIN d |-> Renamed(d[i], arg, values + i)]
                                      \o << Insn("SHIFT", 0, 0, arg) >>])
        /\ coherent' = (coherent /\ \A k \in kept : k - arg \notin kept)
  /\ UNCHANGED <<nest, labels, entered>>

BeginLoop ==
  /\ Compiles({"LOOP"})
  /\ LET g == LoadCached(Emit(Gen, << Insn("LABEL", 0, 0, labels) >>), 0)
     IN Becomes(Emit(g, << Insn("BRZ", 0, g.map[0], labels + 1) >>))
  /\ nest' = Append(nest, [start |-> labels, end |-> labels + 1])
  /\ labels' = labels + 2
  /\ entered' = Append(entered, [op |-> at, map |-> temporary_values])
  /\ coherent' = (coherent /\ 0 \in DOMAIN temporary_values)

EndLoop ==
  /\ Compiles({"END"})
  /\ Becomes(Emit(Gen, LoopEnd(Last(nest))))
  /\ nest' = Front(nest)
  /\ entered' = Front(entered)
  /\ coherent' = (coherent /\ temporary_values = Last(entered).map)
  /\ UNCHANGED labels

\* All cached cells go back to memory (each to its own, so in any order).
Finish ==
  /\ ~finished
  /\ at > 0 /\ generated
  /\ LET order == SetToSeq(DOMAIN temporary_values)
     IN code' = code \o [i \in DOMAIN order |-> Stored(order[i])]
  /\ finished' = TRUE
  /\ UNCHANGED <<flat, at, temporary_values, values, nest, labels, entered, coherent,
                 jit, plain>>

CompileStep == CompileOpcode \/ CompileShift \/ BeginLoop \/ EndLoop \/ Finish
-----------------------------------------------------------------------------
(***************************************************************************)
(* Running the emitted code.  v holds the values; v[0] stands for memory   *)
(* that is not the tape, whose contents mean nothing to the program: what  *)
(* is stored there is lost.                                                *)
(***************************************************************************)
LabelAt(l) ==
  CHOOSE i \in DOMAIN code : code[i].insn = "LABEL" /\ code[i].arg = l

\* The effect of an instruction on the machine m and on the values v.
Does(i, m, v) ==
  LET Assign(value) == [m |-> m, v |-> [v EXCEPT ![i.dst] = Wrap(value)]]
      Change(machine) == [m |-> machine, v |-> v]
  IN CASE i.insn = "LOAD" -> Assign(IF InTape(m, i.arg) THEN At(m, i.arg) ELSE v[0])
       [] i.insn = "STORE" ->
            Change(IF InTape(m, i.arg) THEN Put(m, i.arg, v[i.src]) ELSE m)
       [] i.insn = "ADD" -> Assign(v[i.src] + i.arg)
       [] i.insn = "MUL" -> Assign(v[i.dst] + v[i.src] * i.arg)
       [] i.insn = "SET" -> Assign(i.arg)
       [] i.insn = "MOVE" -> Assign(v[i.src])
       [] i.insn = "PUT" -> Change([m EXCEPT !.out = Append(@, v[i.src])])
       [] i.insn = "GET" ->
            IF m.inp = << >> THEN Assign(EOF)
            ELSE [m |-> [m EXCEPT !.inp = Tail(@)],
                  v |-> [v EXCEPT ![i.dst] = Wrap(Head(m.inp))]]
       [] i.insn = "SHIFT" -> Change([m EXCEPT !.ptr = @ + i.arg])
       [] OTHER -> Change(m)

Goes(i, pc, v) ==
  IF i.insn = "BR" \/ (i.insn = "BRZ" /\ v[i.src] = 0) THEN LabelAt(i.arg)
  ELSE pc + 1

\* Each opcode is compiled to one of these, and to others that only prepare it.
Effective == {"ADD", "MUL", "SET", "PUT", "GET", "SHIFT", "BRZ", "BR"}

\* BfVM::Run: the jit function applied to the middle of the zeroed array.
Run ==
  /\ finished /\ jit.pc = 0
  /\ \E input \in Stdin, unset \in Unset :
       /\ jit' = [pc |-> 1, m |-> Loaded(input), v |-> [r \in 0 .. values |-> unset]]
       /\ plain' = [pc |-> 1, m |-> Loaded(input)]
  /\ UNCHANGED genVars

\* After a fault nothing is required of either.
WithinBounds(m) ==
  /\ ~plain.m.fault
  /\ Len(m.out) <= MaxPrinted
  /\ m.ptr \in Lo - MaxStray .. Hi + MaxStray

RunInstruction ==
  /\ jit.pc \in DOMAIN code
  /\ WithinBounds(jit.m)
  /\ LET i == code[jit.pc]
         done == Does(i, jit.m, jit.v)
     IN /\ jit' = [pc |-> Goes(i, jit.pc, jit.v), m |-> done.m, v |-> done.v]
        /\ plain' = IF i.insn \in Effective /\ ~Stopped(flat, plain)
                    THEN Interpreted(flat, plain) ELSE plain
  /\ UNCHANGED genVars

\* The function has returned, but the opcodes are not at their end.
RunOpcode ==
  /\ jit.pc > Len(code)
  /\ ~Stopped(flat, plain) /\ plain.pc > 0
  /\ WithinBounds(plain.m)
  /\ plain' = Interpreted(flat, plain)
  /\ UNCHANGED <<genVars, jit>>

RunStep == Run \/ RunInstruction \/ RunOpcode

\* A program is the code of some tree; which one, the optimizer says.
VMNext ==
  \/ \E ops \in {flat'} : IsTreeCode(ops) /\ BeginCompilation(ops)
  \/ CompileStep \/ RunStep

VMSpec == VMInit /\ [][VMNext]_vmVars
-----------------------------------------------------------------------------
InsnKinds == {"LOAD", "STORE", "MOVE", "LABEL"} \cup Effective

(***************************************************************************)
(* Types: the generator is given the code of a tree; no two cells share a  *)
(* value; every loop that is open has labels; a branch always leads to an  *)
(* instruction of the function.                                            *)
(***************************************************************************)
VMTypeOK ==
  /\ IsTreeCode(flat) /\ at \in 0 .. Len(flat) + 1
  /\ values \in Nat /\ labels \in Nat
  /\ DOMAIN temporary_values \subseteq Int
  /\ \A k, l \in DOMAIN temporary_values :
       /\ temporary_values[k] \in 1 .. values
       /\ temporary_values[k] = temporary_values[l] => k = l
  /\ code \in Seq([insn : InsnKinds, dst : 0 .. values, src : 0 .. values, arg : Int])
  /\ nest \in Seq([start : 0 .. labels - 1, end : 0 .. labels - 1])
  /\ Len(nest) = Len(entered)
  /\ finished \in BOOLEAN /\ coherent \in BOOLEAN
  /\ jit.pc \in 0 .. Len(code) + 1 /\ jit.m \in Machine
  /\ jit.pc > 0 => finished /\ jit.v \in [0 .. values -> Cell]
  /\ plain.pc \in 0 .. Len(flat) + 1 /\ plain.m \in Machine

(***************************************************************************)
(* The cache is invisible as long as the map means the same on every path  *)
(* to an instruction.  That is so when the current cell was cached before  *)
(* each loop, the loop leaves the map as it found it at its label, and no  *)
(* shift renames a value over another one it keeps; `coherent' says so.    *)
(* Then the function prints and reads what the opcodes do, when they do;   *)
(* it returns only when they are at their end, with the same tape; and     *)
(* when they are, all it has left to do is to store cells.                 *)
(***************************************************************************)
CoherentCacheIsInvisible ==
  coherent /\ jit.pc > 0 /\ ~plain.m.fault =>
    /\ jit.m.out = plain.m.out /\ jit.m.inp = plain.m.inp
    /\ jit.pc > Len(code) => plain.pc > Len(flat) /\ jit.m = plain.m
    /\ plain.pc > Len(flat) =>
         \A p \in jit.pc .. Len(code) : code[p].insn \in {"LABEL", "STORE"}

(***************************************************************************)
(* The compiled program does what its opcodes say (README.md calls this an *)
(* interpreter of them): it prints the same, as far as both have come, and *)
(* leaves the same when both are done.                                     *)
(***************************************************************************)
CompiledRunsAsProgram ==
  jit.pc > 0 /\ ~plain.m.fault =>
    /\ IsPrefix(jit.m.out, plain.m.out) \/ IsPrefix(plain.m.out, jit.m.out)
    /\ jit.pc > Len(code) /\ plain.pc > Len(flat) => jit.m = plain.m
=============================================================================
