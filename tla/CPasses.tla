------------------------------ MODULE CPasses ------------------------------
(***************************************************************************)
(* What the passes of src/c/optimizer.c do to one block's list of          *)
(* operations.  Each pass walks the list once and edits it behind the      *)
(* operation it is at; that is a fold over the list.                       *)
(***************************************************************************)
EXTENDS CTree, SequencesExt

\* The sum of the arguments of the operations at the positions counted.
SumArgs(ops, counted) == MapThenSumSet(LAMBDA i : ops[i].arg, counted)

Shift(o) == o.op = "BF_SFT"
Shifts(ops) == SumArgs(ops, {i \in DOMAIN ops : Shift(ops[i])})

-----------------------------------------------------------------------------
\* bf_optimize_reorder: operations move by the shifts before them, which are
\* collected into one at the end of the block.
Displaced(o, offset) ==
  CASE o.op = "BF_MUL" -> [o EXCEPT !.offset = @ + offset, !.arg2 = @ + offset]
    [] OTHER -> [o EXCEPT !.offset = @ + offset]

\* The shift that is left; a shift by nothing is not made.
Rest(offset) == IF offset = 0 THEN << >> ELSE << CreateOp("BF_SFT", offset, 0) >>

Reorder(done, o) ==
  IF Shift(o) THEN [ops |-> done.ops, offset |-> done.offset + o.arg]
  ELSE [ops |-> Append(done.ops, Displaced(o, done.offset)), offset |-> done.offset]

Reordered(ops) ==
  LET done == FoldLeft(Reorder, [ops |-> << >>, offset |-> 0], ops)
  IN done.ops \o Rest(done.offset)

-----------------------------------------------------------------------------
\* bf_optimize_clear: a loop body that only decrements; which cell it
\* decrements is not looked at.
Decrements(ops) == Len(ops) = 1 /\ ops[1].op = "BF_ADD" /\ ops[1].arg = -1

Clear == CreateOp("BF_CLEAR", 0, 0)

-----------------------------------------------------------------------------
\* What a loop's body adds to the cell it tests.
Counts(ops) ==
  SumArgs(ops, {i \in DOMAIN ops : ops[i].op = "BF_ADD" /\ ops[i].offset = 0})

\* bf_optimize_loops: a body that counts cell 0 down by one and stays put.
CountsDown_WithOutput(ops) ==
  /\ Shifts(ops) = 0
  /\ Counts(ops) = -1
CountsDown(ops) ==
  /\ \A i \in DOMAIN ops : ops[i].op \notin {"BF_PUT", "BF_GET"}
  /\ Shifts(ops) = 0
  /\ Counts(ops) = -1

\* bf_op_copy loses arg2.
OpCopy(o) == CreateOp(o.op, o.arg, o.offset)
BlockCopy(ops) == [i \in DOMAIN ops |-> OpCopy(ops[i])]

\* bf_make_block_linear.
Linear(o) ==
  IF o.op # "BF_ADD" THEN << o >>
  ELSE IF o.offset = 0 THEN << >>
  ELSE << CreateOp("BF_MUL", o.arg, o.offset) >>

AddLinear(done, o) == done \o Linear(o)

MadeLinear(ops) == FoldLeft(AddLinear, << >>, ops) \o << Clear >>

-----------------------------------------------------------------------------
(***************************************************************************)
(* bf_optimize_ops.  `at' tells whether the walk stands at the last of the *)
(* operations done, to compare it with its successor, or has passed it: it *)
(* passes the sum of two additions, and a clear that made an addition      *)
(* pointless, but stays at a sum of shifts and at the second of two clears.*)
(***************************************************************************)
SameOffset(a, b) == a.offset = b.offset

Sweep(done, o) ==
  LET last == Last(done.ops)
      Both(op) == done.at /\ last.op = op /\ o.op = op
      Merge(at) == [ops |-> Append(Front(done.ops),
                                   CreateOp(o.op, last.arg + o.arg, last.offset)),
                    at  |-> at]
      Replace(at) == [ops |-> Append(Front(done.ops), o), at |-> at]
  IN IF Both("BF_ADD") /\ SameOffset(last, o) THEN Merge(FALSE)
     ELSE IF done.at /\ last.op = "BF_ADD" /\ o.op = "BF_CLEAR" /\ SameOffset(last, o)
          THEN Replace(FALSE)
     ELSE IF Both("BF_SFT") THEN Merge(TRUE)
     ELSE IF Both("BF_CLEAR") THEN Replace(TRUE)
     ELSE [ops |-> Append(done.ops, o), at |-> TRUE]

Optimized(ops) == FoldLeft(Sweep, [ops |-> << >>, at |-> FALSE], ops).ops

-----------------------------------------------------------------------------
(***************************************************************************)
(* bf_merge_blocks: copies of the operations of both blocks, then the      *)
(* shift, even a shift by nothing.  Only the second block's multiplications*)
(* get the offset added to their source (bf_op_copy has made it 0); for the*)
(* first block the code tests for BF_CLEAR instead.                        *)
(***************************************************************************)
Copied_Unmoved(o, offset, sourceOf) == OpCopy(o)
Copied(o, offset, sourceOf) ==
  LET c == OpCopy(o) IN
  [c EXCEPT !.offset = @ + offset,
            !.arg2 = IF o.op = sourceOf THEN @ + offset ELSE @]

MergeInto(done, ops, sourceOf) ==
  FoldLeft(LAMBDA d, o :
             IF Shift(o) THEN [d EXCEPT !.offset = @ + o.arg]
             ELSE [d EXCEPT !.ops = Append(@, Copied(o, d.offset, sourceOf))],
           done, ops)

Merged(a, b) ==
  LET first == MergeInto([ops |-> << >>, offset |-> 0], a, "BF_CLEAR")
      both == MergeInto(first, b, "BF_MUL")
  IN both.ops \o << CreateOp("BF_SFT", both.offset, 0) >>
=============================================================================
