------------------------------ MODULE COpWalk ------------------------------
(***************************************************************************)
(* The loops of bf_optimize_reorder, bf_make_block_linear and              *)
(* bf_optimize_ops over the operations of one block, by pointers: they     *)
(* edit the list (COpList) that they walk.  CPasses says what they amount  *)
(* to on sequences.                                                        *)
(*                                                                         *)
(* A step is one turn of a loop.                                           *)
(***************************************************************************)
EXTENDS COpList, CPasses

CONSTANT
  Blocks      \* bound: [ops, route]: how a block is filled, and the passes after

ASSUME COpWalkAssumption ==
  \A b \in Blocks : b.route \in Seq({"reorder", "linear", "ops"})

VARIABLES
  fields,     \* what bf_create_op and the passes write to the nodes
  given,      \* history: the operations before the pass, or those to come
  route,      \* the passes that follow
  pass,       \* the pass being made or just made; "fill" before the first
  walking,    \* it is being made
  op,         \* the loop's pointer
  offset      \* sum of the shifts removed by bf_optimize_reorder

walkVars == <<list, items, fields, given, route, pass, walking, op, offset>>

Contents == [i \in DOMAIN items |-> fields[items[i]]]

\* Where a node is in the list.
Place(x) == CHOOSE i \in DOMAIN items : items[i] = x

NextOp == list.next[op]

Writes(x, o) == fields' = [fields EXCEPT ![x] = o]

-----------------------------------------------------------------------------
WalkInit ==
  /\ Init
  /\ fields = [x \in Node |-> Clear]
  /\ \E b \in Blocks : given = b.ops /\ route = b.route
  /\ pass = "fill" /\ walking = FALSE /\ op = NULL /\ offset = 0

\* The parser, bf_block_copy and bf_merge_blocks fill a new block in order.
Fill ==
  /\ pass = "fill"
  /\ Len(items) < Len(given)
  /\ \E x \in Node : AppendOp(x) /\ Writes(x, given[Len(items) + 1])
  /\ UNCHANGED <<given, route, pass, walking, op, offset>>

Turn(name) ==
  pass = name /\ walking /\ op # NULL /\ UNCHANGED <<given, route, pass, walking>>

Ends(name) ==
  /\ pass = name /\ walking /\ op = NULL
  /\ walking' = FALSE
  /\ UNCHANGED <<given, route, pass, op, offset>>

Starts ==
  /\ route # << >>
  /\ ~walking /\ walking' = TRUE
  /\ pass = "fill" => Len(items) = Len(given)
  /\ pass' = Head(route) /\ route' = Tail(route)
  /\ given' = Contents
  /\ op' = list.first /\ offset' = 0
  /\ UNCHANGED <<list, items, fields>>

-----------------------------------------------------------------------------
(* bf_optimize_reorder: tmp is op->next from before the edit. *)

ReorderTurn ==
  /\ Turn("reorder")
  /\ op' = NextOp
  /\ LET o == fields[op] IN
       \/ /\ Shift(o)
          /\ offset' = offset + o.arg
          /\ RemoveOp(Place(op))
          /\ UNCHANGED fields
       \/ /\ ~Shift(o)
          /\ Writes(op, Displaced(o, offset))
          /\ UNCHANGED <<list, items, offset>>

ReorderEnds ==
  /\ Ends("reorder")
  /\ IF offset = 0 THEN UNCHANGED <<list, items, fields>>
     ELSE \E x \in Node : AppendOp(x) /\ Writes(x, CreateOp("BF_SFT", offset, 0))
-----------------------------------------------------------------------------
(* bf_make_block_linear. *)

LinearTurn ==
  /\ Turn("linear")
  /\ op' = NextOp /\ UNCHANGED offset
  /\ LET o == fields[op] IN
       \/ /\ o.op = "BF_ADD" /\ o.offset # 0
          /\ \E new \in Node : /\ ReplaceOp(Place(op), new)
                               /\ Writes(new, CreateOp("BF_MUL", o.arg, o.offset))
       \/ o.op = "BF_ADD" /\ o.offset = 0 /\ RemoveOp(Place(op)) /\ UNCHANGED fields
       \/ o.op # "BF_ADD" /\ UNCHANGED <<list, items, fields>>

LinearEnds ==
  /\ Ends("linear")
  /\ \E x \in Node : AppendOp(x) /\ Writes(x, Clear)
-----------------------------------------------------------------------------
(* bf_optimize_ops. *)

\* op and its successor are one operation of the same kind from now on.
Sums(o, next) ==
  next # NULL /\ o.op = fields[next].op /\
    \/ o.op = "BF_ADD" /\ o.offset = fields[next].offset
    \/ o.op = "BF_SFT"

\* op makes no difference before its successor.
Lost(o, next) ==
  next # NULL /\ fields[next].op = "BF_CLEAR" /\
    \/ o.op = "BF_ADD" /\ o.offset = fields[next].offset
    \/ o.op = "BF_CLEAR"

\* The walk goes past the sum of two additions, but stays at one of shifts.
AfterSum_Stays(l, new, kind) == new
AfterSum(l, new, kind) == IF kind = "BF_SFT" THEN new ELSE l.next[new]

OpsTurn ==
  /\ Turn("ops") /\ UNCHANGED offset
  /\ LET o == fields[op]
         next == NextOp
     IN \/ /\ Sums(o, next)
           /\ \E new \in Node :
                /\ MergeOps(Place(op), new)
                /\ Writes(new, CreateOp(o.op, o.arg + fields[next].arg, o.offset))
                /\ op' = AfterSum(list', new, o.op)
        \/ /\ Lost(o, next)
           /\ RemoveOp(Place(op)) /\ UNCHANGED fields
           /\ op' = IF o.op = "BF_ADD" THEN list'.next[next] ELSE next
        \/ /\ ~Sums(o, next) /\ ~Lost(o, next)
           /\ op' = next
           /\ UNCHANGED <<list, items, fields>>

OpsEnds == Ends("ops") /\ UNCHANGED <<list, items, fields>>
-----------------------------------------------------------------------------
WalkNext ==
  \/ Fill \/ Starts
  \/ ReorderTurn \/ ReorderEnds \/ LinearTurn \/ LinearEnds \/ OpsTurn \/ OpsEnds

WalkSpec == WalkInit /\ [][WalkNext]_walkVars
-----------------------------------------------------------------------------
\* What the pass makes of operations, when it has made `seen' and is at `rest'.
Finished(seen, rest) ==
  CASE pass = "reorder" ->
         LET done == FoldLeft(Reorder, [ops |-> seen, offset |-> offset], rest)
         IN done.ops \o Rest(done.offset)
    [] pass = "linear" -> FoldLeft(AddLinear, seen, rest) \o << Clear >>
    [] pass = "ops" -> FoldLeft(Sweep, [ops |-> seen, at |-> FALSE], rest).ops

Whole(ops) ==
  CASE pass = "reorder" -> Reordered(ops)
    [] pass = "linear" -> MadeLinear(ops)
    [] pass = "ops" -> Optimized(ops)

(***************************************************************************)
(* Editing the list it walks, a loop loses its way at no turn: its pointer *)
(* is in the list, and what it has made so far followed by what the pass   *)
(* makes of the operations from the pointer on is what CPasses makes of    *)
(* all operations the pass was given.  At the end the list holds that.     *)
(***************************************************************************)
WalkFolds ==
  pass # "fill" =>
    IF ~walking THEN Contents = Whole(given)
    ELSE /\ op = NULL \/ \E i \in DOMAIN items : items[i] = op
         /\ LET at == IF op = NULL THEN Len(items) + 1 ELSE Place(op) IN
              Finished(SubSeq(Contents, 1, at - 1), SubSeq(Contents, at, Len(items)))
                = Whole(given)
=============================================================================
