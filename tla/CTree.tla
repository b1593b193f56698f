------------------------------- MODULE CTree --------------------------------
(***************************************************************************)
(* The nodes of the tree of the C version (src/c): operations, blocks of   *)
(* operations, containers of blocks; and what operations are compiled to.  *)
(***************************************************************************)
EXTENDS BfMachine

\* bf_create_op: arg2 is only used by BF_MUL and starts as 0.
CreateOp(op, count, offset) ==
  [op |-> op, arg |-> count, arg2 |-> 0, offset |-> offset]

COpType == {"BF_ADD", "BF_SFT", "BF_PUT", "BF_GET", "BF_CLEAR", "BF_MUL"}
COp == [op : COpType, arg : Int, arg2 : Int, offset : Int]

OpBlock(ops) == [is_container |-> FALSE, ops |-> ops]

Container(is_loop, blocks) ==
  [is_container |-> TRUE, is_loop |-> is_loop, blocks |-> blocks]

(***************************************************************************)
(* bf_compile_block: what each operation is compiled to.  A shift, unlike  *)
(* the others, does not look at the offset.                                *)
(***************************************************************************)
CompileOp(o) ==
  CASE o.op = "BF_ADD"   -> MkOp("BF_ADD", o.offset, o.offset, o.arg)
    [] o.op = "BF_SFT"   -> MkOp("BF_SFT", 0, 0, o.arg)
    [] o.op = "BF_PUT"   -> MkOp("BF_PUT", o.offset, 0, 0)
    [] o.op = "BF_GET"   -> MkOp("BF_GET", 0, o.offset, 0)
    [] o.op = "BF_MUL"   -> MkOp("BF_MUL", o.arg2, o.offset, o.arg)
    [] o.op = "BF_CLEAR" -> MkOp("BF_SET", 0, o.offset, 0)

CompileOps(ops) == [i \in DOMAIN ops |-> CompileOp(ops[i])]
=============================================================================
