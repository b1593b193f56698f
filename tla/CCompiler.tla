----------------------------- MODULE CCompiler -----------------------------
(***************************************************************************)
(* bf_compile_state (src/c/compiler.c): a loop over the text that keeps    *)
(* the container being filled and the block of operations to put into it.  *)
(*                                                                         *)
(* A closing bracket moves to container->parent, which is null above the   *)
(* program.  `open' holds the containers from the program's to the current *)
(* one, so it is empty when container is null; nested containers are in    *)
(* their parents from the start, so `open' is closed into the program when *)
(* the text ends.                                                          *)
(***************************************************************************)
EXTENDS CTree, BfText, SequencesExt

CONSTANT Files      \* bound: the source texts, sequences of characters

ASSUME CCompilerAssumption == \A text \in Files : text \in Seq(STRING)

VARIABLES
  code,       \* state->code
  code_pos,   \* position of the next character in it
  open,       \* from the program to the current container
  block,      \* operations of the block under construction
  program,    \* the finished program
  parsing     \* "yes", "done", or "crashed": a null container dereferenced

cCompilerVars == <<code, code_pos, open, block, program, parsing>>

CompilerInit ==
  /\ code \in Files
  /\ code_pos = 1
  /\ open = << Container(FALSE, << >>) >>
  /\ block = << >>
  /\ program = Container(FALSE, << >>)
  /\ parsing = "yes"

\* bf_compile_state is called again, on another text.
BeginText(text) ==
  /\ code' = text
  /\ code_pos' = 1
  /\ open' = << Container(FALSE, << >>) >>
  /\ block' = << >>
  /\ program' = Container(FALSE, << >>)
  /\ parsing' = "yes"

\* bf_list_append on the blocks of the current container.
Filled(containers, b) == [containers EXCEPT ![Len(containers)].blocks = Append(@, b)]

\* The first of nested containers, with all the others in their places.
Closed(containers) ==
  LET closed[i \in DOMAIN containers] ==
        IF i = Len(containers) THEN containers[i]
        ELSE [containers[i] EXCEPT !.blocks = Append(@, closed[i + 1])]
  IN closed[1]

Crash_GivesUp == parsing' = "done" /\ UNCHANGED <<code_pos, open, block, program>>
Crash == parsing' = "crashed" /\ UNCHANGED <<code_pos, open, block, program>>

Reads(chars) ==
  /\ parsing = "yes"
  /\ code_pos <= Len(code)
  /\ code[code_pos] \in chars
  /\ UNCHANGED code

\* bf_count_eq_ops: the length of the run of equal characters that starts here.
CountEqOps ==
  Max({n \in 1 .. Len(code) - code_pos + 1 :
         \A i \in 0 .. n - 1 : code[code_pos + i] = code[code_pos]})

\* A run of one of the characters that count becomes one operation.
RunOp_LengthOnly(c, n) ==
  CreateOp(IF c \in {"+", "-"} THEN "BF_ADD" ELSE "BF_SFT", n, 0)
RunOp(c, n) ==
  CreateOp(IF c \in {"+", "-"} THEN "BF_ADD" ELSE "BF_SFT",
           IF c \in {"+", ">"} THEN n ELSE -n, 0)

RunOfCommands ==
  /\ Reads({"+", "-", "<", ">"})
  /\ block' = Append(block, RunOp(code[code_pos], CountEqOps))
  /\ code_pos' = code_pos + CountEqOps
  /\ UNCHANGED <<open, program, parsing>>

InputOutput ==
  /\ Reads({".", ","})
  /\ block' = Append(block,
                     CreateOp(IF code[code_pos] = "." THEN "BF_PUT" ELSE "BF_GET", 1, 0))
  /\ code_pos' = code_pos + 1
  /\ UNCHANGED <<open, program, parsing>>

\* The block that follows a bracket.
NextBlock_Kept == block
NextBlock == << >>

\* The container a bracket opens.
NewContainer_NotLoop == Container(FALSE, << >>)
NewContainer == Container(TRUE, << >>)

OpenBracket ==
  /\ Reads({"["})
  /\ IF open = << >> THEN Crash
     ELSE /\ open' = Append(Filled(open, OpBlock(block)), NewContainer)
          /\ block' = NextBlock
          /\ code_pos' = code_pos + 1
          /\ UNCHANGED <<program, parsing>>

\* The container is left even if it is the program's.
CloseBracket ==
  /\ Reads({"]"})
  /\ IF open = << >> THEN Crash
     ELSE LET filled == Filled(open, OpBlock(block)) IN
          /\ IF Len(open) > 1
             THEN open' = Filled(Front(filled), Last(filled)) /\ UNCHANGED program
             ELSE open' = << >> /\ program' = filled[1]
          /\ block' = NextBlock
          /\ code_pos' = code_pos + 1
          /\ UNCHANGED parsing

Comment_NotSkipped ==
  /\ Reads({code[i] : i \in DOMAIN code} \ (Commands \cup {"[", "]"}))
  /\ UNCHANGED <<code_pos, open, block, program, parsing>>
Comment ==
  /\ Reads({code[i] : i \in DOMAIN code} \ (Commands \cup {"[", "]"}))
  /\ code_pos' = code_pos + 1
  /\ UNCHANGED <<open, block, program, parsing>>

\* The last block is only appended if it has operations.
EndOfText ==
  /\ parsing = "yes"
  /\ code_pos > Len(code)
  /\ IF block # << >> /\ open = << >> THEN Crash
     ELSE /\ program' = IF open = << >> THEN program
                        ELSE Closed(IF block = << >> THEN open
                                    ELSE Filled(open, OpBlock(block)))
          /\ parsing' = "done"
          /\ UNCHANGED <<code_pos, open, block>>
  /\ UNCHANGED code

CompilerNext ==
  RunOfCommands \/ InputOutput \/ OpenBracket \/ CloseBracket \/ Comment \/ EndOfText

CompilerSpec ==
  CompilerInit /\ [][CompilerNext \/ \E text \in Files : BeginText(text)]_cCompilerVars
-----------------------------------------------------------------------------
\* Containers of the given blocks; and what is in the given containers.
Containers(blocks) == [is_container : {TRUE}, is_loop : BOOLEAN, blocks : Seq(blocks)]

BlocksIn(containers) ==
  UNION {{containers[i].blocks[k] : k \in DOMAIN containers[i].blocks} :
           i \in DOMAIN containers}

\* Types; the program is the only open container that is no loop.
CompilerTypeOK ==
  /\ code \in Files
  /\ code_pos \in 1 .. Len(code) + 1
  /\ block \in Seq(COp)
  /\ open \in Seq(Containers(BlocksIn(open)))
  /\ \A i \in DOMAIN open : open[i].is_loop <=> i > 1
  /\ parsing \in {"yes", "done", "crashed"}

\* A closing bracket that closes nothing.
StrayAt(i) == code[i] = "]" /\ ~ \E j \in 1 .. i : Closes(code, j, i)

(***************************************************************************)
(* The compiler crashes just when something is left to put somewhere after *)
(* the first stray bracket: a command or another bracket.                  *)
(***************************************************************************)
CrashesAfterStray ==
  parsing # "yes" =>
    (parsing = "crashed" <=>
       \E i \in DOMAIN code : StrayAt(i) /\
         \E j \in i + 1 .. Len(code) : code[j] \in Commands \cup {"[", "]"})

\* The loop ends, whatever the text is.
Terminates == <>(parsing # "yes")
=============================================================================
