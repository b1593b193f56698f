----------------------------- MODULE CProgram -------------------------------
(***************************************************************************)
(* Trees of the C version: the code that bf_compile_block makes of one,    *)
(* and the containers in it.                                               *)
(*                                                                         *)
(* Only the program itself is a container without being a loop.            *)
(***************************************************************************)
EXTENDS BfProgram, CTree

RECURSIVE Compiled(_)
Compiled(container) ==
  LET Of(block) == IF block.is_container THEN Compiled(block) ELSE CompileOps(block.ops)
      body == FlattenSeq([i \in DOMAIN container.blocks |-> Of(container.blocks[i])])
  IN IF container.is_loop THEN Cycle(body) ELSE body

\* Every container of a program, the program included.
RECURSIVE ContainersOf(_)
ContainersOf(container) ==
  {container} \cup
    UNION {ContainersOf(container.blocks[i]) :
             i \in {j \in DOMAIN container.blocks : container.blocks[j].is_container}}

OpBlocksOf(program) ==
  UNION {{c.blocks[i] : i \in {j \in DOMAIN c.blocks : ~c.blocks[j].is_container}} :
           c \in ContainersOf(program)}

IsProgram(program) ==
  /\ ~program.is_loop
  /\ \A c \in ContainersOf(program) : c.is_loop <=> c # program
  /\ \A b \in OpBlocksOf(program) : b.ops \in Seq(COp)
=============================================================================
