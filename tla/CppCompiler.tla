---------------------------- MODULE CppCompiler ----------------------------
(***************************************************************************)
(* BfCompiler::CompileFile: the recursive-descent parser, one step per     *)
(* character it takes from the stream.  `frames' is its recursion: for     *)
(* each active call of CompileBlock, innermost last, the block under       *)
(* construction.                                                           *)
(*                                                                         *)
(* Brackets need not balance.  The calls that are active when the stream   *)
(* ends all return, one after the other.                                   *)
(***************************************************************************)
EXTENDS BfProgram

CONSTANT Files      \* bound: the source texts, sequences of characters

VARIABLES
  file,      \* the source text
  pos,       \* position of the next character in it
  frames,    \* blocks of the active calls of CompileBlock
  program    \* the tree, once CompileBlock(false, ...) has returned

cppCompilerVars == <<file, pos, frames, program>>

compiled == frames = << >>

Init ==
  /\ file \in Files
  /\ pos = 1
  /\ frames = << Block(FALSE, << >>) >>
  /\ program = Block(FALSE, << >>)

\* BfBlock::Append on the block of the innermost call.
Appended_InFront(fs, node) == [fs EXCEPT ![Len(fs)].children = <<node>> \o @]
Appended(fs, node) == [fs EXCEPT ![Len(fs)].children = Append(@, node)]

Returned(fs) == Appended(Front(fs), Last(fs))

\* The innermost call returns its block to its caller.
Return ==
  IF Len(frames) = 1
  THEN frames' = << >> /\ program' = frames[1]
  ELSE frames' = Returned(frames) /\ UNCHANGED program

AtEnd == pos > Len(file)

Reads(chars) ==
  /\ ~compiled
  /\ ~AtEnd
  /\ file[pos] \in chars
  /\ UNCHANGED file

OpenBracket_NotCycle ==
  /\ Reads({"["})
  /\ pos' = pos + 1
  /\ frames' = Append(frames, Block(FALSE, << >>))
  /\ UNCHANGED program
OpenBracket ==
  /\ Reads({"["})
  /\ pos' = pos + 1
  /\ frames' = Append(frames, Block(TRUE, << >>))
  /\ UNCHANGED program

CloseLoop ==
  /\ Reads({"]"})
  /\ Last(frames).cycle
  /\ pos' = pos + 1
  /\ Return

\* A closing bracket at the outermost level (an error the code leaves a TODO).
StrayClose_Returns ==
  /\ Reads({"]"})
  /\ ~Last(frames).cycle
  /\ pos' = pos + 1
  /\ Return
StrayClose_NotTaken ==
  /\ Reads({"]"})
  /\ ~Last(frames).cycle
  /\ UNCHANGED <<pos, frames, program>>
StrayClose ==
  /\ Reads({"]"})
  /\ ~Last(frames).cycle
  /\ pos' = pos + 1
  /\ UNCHANGED <<frames, program>>

Command ==
  /\ Reads(Commands)
  /\ pos' = pos + 1
  /\ frames' = Appended(frames, Op(OpOf(file[pos])))
  /\ UNCHANGED program

Comment ==
  /\ ~compiled
  /\ ~AtEnd
  /\ file[pos] \notin Commands \cup {"[", "]"}
  /\ pos' = pos + 1
  /\ UNCHANGED <<file, frames, program>>

EndOfFile ==
  /\ ~compiled
  /\ AtEnd
  /\ Return
  /\ UNCHANGED <<file, pos>>

Next == OpenBracket \/ CloseLoop \/ StrayClose \/ Command \/ Comment \/ EndOfFile
-----------------------------------------------------------------------------
RECURSIVE IsTree(_)
IsTree(node) ==
  IF IsBlock(node)
  THEN node.cycle \in BOOLEAN /\ \A i \in DOMAIN node.children : IsTree(node.children[i])
  ELSE node.opcode \in Opcode

\* Types; only the outermost call compiles a block that is not a cycle.
TypeOK ==
  /\ file \in Files
  /\ pos \in 1 .. Len(file) + 1
  /\ IsTree(program) /\ ~program.cycle
  /\ \A i \in DOMAIN frames : /\ IsTree(frames[i])
                              /\ frames[i].cycle <=> i > 1

(***************************************************************************)
(* The active calls hold exactly what the text read so far means, as if    *)
(* the file ended here: closing every open block now would give the        *)
(* meaning of the prefix, brackets matched by balance and not by recursion.*)
(***************************************************************************)
RECURSIVE Closed(_)
Closed(fs) ==
  IF Len(fs) = 1 THEN fs[1]
  ELSE Closed(Appended(Front(fs), Last(fs)))

PrefixUnderstood ==
  ~compiled => Flat(Closed(frames)) = Source(SubSeq(file, 1, pos - 1))

\* The finished tree is the meaning of the whole file, unbalanced or not.
TreeMatchesBrackets == compiled => AtEnd /\ Flat(program) = Source(file)

\* CompileFile returns, whatever the file holds.
Terminates == <>compiled
=============================================================================
