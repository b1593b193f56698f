------------------------------- MODULE BfList -------------------------------
(***************************************************************************)
(* The doubly linked lists of src/c/list.h.  A list is a first and a last  *)
(* pointer, and the next and prev fields of the nodes.                     *)
(*                                                                         *)
(* The macros evaluate their argument anew at every use.  Where a client   *)
(* passes an expression that the macro itself changes, that matters; the   *)
(* argument of ListRemove is therefore not a node but an expression that   *)
(* stands for one: a variable, or the next field of one.                   *)
(***************************************************************************)
EXTENDS Integers, Sequences

CONSTANTS
  Node,       \* addresses of list nodes
  NULL

ASSUME BfListAssumption == NULL \notin Node

Pointer == Node \cup {NULL}

List == [first : Pointer, last : Pointer,
         next : [Node -> Pointer], prev : [Node -> Pointer],
         fault : BOOLEAN]      \* a null pointer has been dereferenced

SetNext(l, x, p) == [l EXCEPT !.next = [@ EXCEPT ![x] = p]]
SetPrev(l, x, p) == [l EXCEPT !.prev = [@ EXCEPT ![x] = p]]
Fault(l) == [l EXCEPT !.fault = TRUE]

\* A node as bf_create_op and bf_create_block make it.
Created(l, x) == SetPrev(SetNext(l, x, NULL), x, NULL)

ListAppend(l, x) ==
  IF l.first = NULL THEN [l EXCEPT !.first = x, !.last = x]
  ELSE SetNext([SetPrev(SetNext(l, l.last, x), x, l.last) EXCEPT !.last = x], x, NULL)

\* The arguments that the clients give to bf_list_remove: x, and x->next.
Variable(x) == [base |-> x, takes_next |-> FALSE]
NextOf(x) == [base |-> x, takes_next |-> TRUE]

Value(l, arg) == IF arg.takes_next THEN l.next[arg.base] ELSE arg.base

\* The three ways a node is unlinked: the only one, the first, another.
UnlinkOnly(l) == [l EXCEPT !.first = NULL, !.last = NULL]

UnlinkFirst(l, x) ==
  LET m == [l EXCEPT !.first = l.next[x]]
  IN IF m.first = NULL THEN m ELSE SetPrev(m, m.first, NULL)

UnlinkLater_NotLast(l, arg) ==
  LET m == SetNext(l, l.prev[Value(l, arg)], l.next[Value(l, arg)])
      x == Value(m, arg)
  IN IF x = NULL \/ m.next[x] = NULL THEN Fault(m)
     ELSE SetPrev(m, m.next[x], m.prev[x])
UnlinkLater(l, arg) ==
  LET m == SetNext(l, l.prev[Value(l, arg)], l.next[Value(l, arg)])
      x == Value(m, arg)     \* after the assignment, it may be another node
  IN IF m.last = x THEN [m EXCEPT !.last = m.prev[x]]
     ELSE IF x = NULL THEN Fault(m)
     ELSE IF m.next[x] = NULL THEN Fault(m)
     ELSE SetPrev(m, m.next[x], m.prev[x])

ListRemove(l, arg) ==
  IF l.first = l.last THEN UnlinkOnly(l)
  ELSE IF l.prev[Value(l, arg)] = NULL THEN UnlinkFirst(l, Value(l, arg))
  ELSE UnlinkLater(l, arg)

\* What replaces a node takes over its neighbours.
TakeNext(l, x, new) ==
  IF l.next[new] = NULL THEN [l EXCEPT !.last = new]
  ELSE SetPrev(l, l.next[new], new)

ListReplace_NotFromPrev(l, x, new) ==
  TakeNext([SetNext(l, new, l.next[x]) EXCEPT
              !.first = IF l.prev[x] = NULL THEN new ELSE @], x, new)
ListReplace(l, x, new) ==
  LET m == SetNext(l, new, l.next[x])
  IN TakeNext(IF l.prev[x] = NULL THEN [m EXCEPT !.first = new]
              ELSE SetNext(SetPrev(m, new, l.prev[x]), l.prev[x], new),
              x, new)

-----------------------------------------------------------------------------
(***************************************************************************)
(* List l holds the nodes of sequence s, in that order: walking it from    *)
(* either end gives s.                                                     *)
(***************************************************************************)
Distinct(s) == \A i, j \in 1 .. Len(s) : s[i] = s[j] => i = j

Neighbour(s, i) == IF i \in 1 .. Len(s) THEN s[i] ELSE NULL

Linked(l, s) ==
  /\ l.first = Neighbour(s, 1)
  /\ l.last = Neighbour(s, Len(s))
  /\ \A i \in 1 .. Len(s) : /\ l.next[s[i]] = Neighbour(s, i + 1)
                            /\ l.prev[s[i]] = Neighbour(s, i - 1)
=============================================================================
