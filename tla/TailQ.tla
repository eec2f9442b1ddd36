------------------------------- MODULE TailQ -------------------------------
(***************************************************************************)
(* The tail queue of src/include/queue.h at the level of its pointers: a    *)
(* head holds tqh_first and tqh_last, an element tqe_next and tqe_prev, and *)
(* tqh_last and tqe_prev are addresses of other pointers.  The operators    *)
(* are the macros the library uses, each statement of them in order.        *)
(***************************************************************************)
EXTENDS Integers

CONSTANTS
  Heads,   \* the queues: thread_env->epoll.block_queue, by descriptor
  Elems    \* the elements: control blocks, linked through block_entry

ASSUME TailQAssumption == Heads \subseteq Nat /\ Elems \subseteq Nat

\* Values of a pointer to an element, besides the elements.
NIL   == -1
FREED == -2     \* it points into memory that was given back

\* The pointers that other pointers point to, and the remaining addresses.
FirstCell(h) == <<"tqh_first", h>>
NextCell(e)  == <<"tqe_next", e>>
Cells == {FirstCell(h) : h \in Heads} \cup {NextCell(e) : e \in Elems}
NullAddr  == <<"NULL", 0>>
FreedAddr == <<"freed", 0>>

Queues ==
  [ptr  : [Cells -> Elems \cup {NIL, FREED}],        \* what a cell points to
   last : [Heads -> Cells \cup {FreedAddr}],
   prev : [Elems -> Cells \cup {NullAddr, FreedAddr}]]

\* TAILQ_INIT of every head; every element is as calloc() left it.
TAILQ_INIT ==
  [ptr  |-> [c \in Cells |-> NIL],
   last |-> [h \in Heads |-> FirstCell(h)],
   prev |-> [e \in Elems |-> NullAddr]]

TAILQ_FIRST(q, h) == q.ptr[FirstCell(h)]

\* slip: the element does not note what points to it
TAILQ_INSERT_TAIL_NoPrev(q, h, e) ==
  [ptr  |-> [q.ptr EXCEPT ![NextCell(e)] = NIL, ![q.last[h]] = e],
   last |-> [q.last EXCEPT ![h] = NextCell(e)],
   prev |-> q.prev]

TAILQ_INSERT_TAIL(q, h, e) ==
  [ptr  |-> [q.ptr EXCEPT ![NextCell(e)] = NIL, ![q.last[h]] = e],
   last |-> [q.last EXCEPT ![h] = NextCell(e)],
   prev |-> [q.prev EXCEPT ![e] = q.last[h]]]

\* slip: the element that follows keeps its old tqe_prev
TAILQ_REMOVE_OneWay(q, h, e) ==
  LET next == q.ptr[NextCell(e)]
  IN  [q EXCEPT !.last[h] = IF next = NIL THEN q.prev[e] ELSE @,
                !.ptr[q.prev[e]] = next]

\* slip: tqh_last keeps pointing at the link of the removed element
TAILQ_REMOVE_KeepsLast(q, h, e) ==
  LET next == q.ptr[NextCell(e)]
      u    == IF next # NIL THEN [q EXCEPT !.prev[next] = q.prev[e]] ELSE q
  IN  [u EXCEPT !.ptr[u.prev[e]] = next]

TAILQ_REMOVE(q, h, e) ==
  LET next == q.ptr[NextCell(e)]
      u    == IF next # NIL THEN [q EXCEPT !.prev[next] = q.prev[e]]
                            ELSE [q EXCEPT !.last[h] = q.prev[e]]
  IN  [u EXCEPT !.ptr[u.prev[e]] = next]

\* The macros dereference no NULL and nothing that was freed.
InsertDefined(q, h) == q.last[h] \in Cells
RemoveDefined(q, e) ==
  /\ e \in Elems
  /\ q.ptr[NextCell(e)] # FREED
  /\ q.prev[e] \in Cells

\* free() of element e: what still points to it dangles.
FreeElem(q, e) ==
  [ptr  |-> [c \in Cells |-> IF q.ptr[c] = e THEN FREED ELSE q.ptr[c]],
   last |-> [h \in Heads |-> IF q.last[h] = NextCell(e) THEN FreedAddr ELSE q.last[h]],
   prev |-> [x \in Elems |-> IF q.prev[x] = NextCell(e) THEN FreedAddr ELSE q.prev[x]]]

\* calloc() of element e
ZeroElem(q, e) ==
  [q EXCEPT !.ptr[NextCell(e)] = NIL, !.prev[e] = NullAddr]
=============================================================================
