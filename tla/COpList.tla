------------------------------ MODULE COpList ------------------------------
(***************************************************************************)
(* A list of operations and everything the passes do to one (the lists of  *)
(* blocks are treated alike, but for the merging in CMergeBlocks).         *)
(*                                                                         *)
(* `items' is what the list is meant to be, a sequence; each action says   *)
(* what it does to it and what the macros of BfList do to the pointers.    *)
(* Nodes removed are freed, with whatever their fields hold; the allocator *)
(* may return them for new operations.                                     *)
(***************************************************************************)
EXTENDS BfList

VARIABLES
  list,       \* the pointers
  items       \* the sequence they stand for

vars == <<list, items>>

Init ==
  /\ list \in [first : {NULL}, last : {NULL}, next : [Node -> {NULL}],
               prev : [Node -> {NULL}], fault : {FALSE}]
  /\ items = << >>

Free(x) == \A i \in 1 .. Len(items) : items[i] # x

Without(s, i) == [j \in 1 .. Len(s) - 1 |-> IF j < i THEN s[j] ELSE s[j + 1]]

\* The parser and the passes add operations at the end.
AppendOp_NotCopied(x) ==
  /\ list' = ListAppend(list, x)
  /\ items' = Append(items, x)
AppendOp(x) ==
  /\ Free(x)
  /\ list' = ListAppend(Created(list, x), x)
  /\ items' = Append(items, x)

\* A shift is absorbed, an addition is cleared, a count disappears.
RemoveOp(i) ==
  /\ list' = ListRemove(list, Variable(items[i]))
  /\ items' = Without(items, i)

\* An addition becomes a multiplication.
ReplaceOp(i, new) ==
  /\ Free(new)
  /\ list' = ListReplace(Created(list, new), items[i], new)
  /\ items' = [items EXCEPT ![i] = new]

(***************************************************************************)
(* bf_optimize_ops: an operation and its successor become a new one.  The  *)
(* successor is removed as op->next, where op is no longer in the list:    *)
(* what the argument means stays the same.                                 *)
(***************************************************************************)
Successor_InList(new, op) == new
Successor(new, op) == op

MergeOps(i, new) ==
  /\ Free(new)
  /\ LET op == items[i] IN
       list' = ListRemove(ListReplace(Created(list, new), op, new),
                          NextOf(Successor(new, op)))
  /\ items' = Without([items EXCEPT ![i] = new], i + 1)

Next ==
  \/ \E x \in Node : AppendOp(x)
  \/ \E i \in 1 .. Len(items) : RemoveOp(i)
  \/ \E i \in 1 .. Len(items), new \in Node : ReplaceOp(i, new)
  \/ \E i \in 1 .. Len(items) - 1, new \in Node : MergeOps(i, new)

Spec == Init /\ [][Next]_vars
-----------------------------------------------------------------------------
\* Types; no operation is in the list twice.
TypeOK ==
  /\ list \in List
  /\ items \in Seq(Node)
  /\ Distinct(items)

(***************************************************************************)
(* The pointers mirror the sequence in both directions, whatever the       *)
(* fields of freed nodes hold when they are used again, and no pass ever   *)
(* follows a null pointer.                                                 *)
(***************************************************************************)
Intact == Linked(list, items) /\ ~list.fault
=============================================================================
