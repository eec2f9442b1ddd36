----------------------------- MODULE TailQueue -----------------------------
(***************************************************************************)
(* The tail queues in use: an element is in one queue at most, as a control *)
(* block has one block_entry, and is linked and unlinked any number of      *)
(* times.                                                                   *)
(***************************************************************************)
EXTENDS TailQ, Sequences

VARIABLES
  q,      \* the pointers
  order   \* history: head -> the elements that are linked, in order

qvars == <<q, order>>

Linked(h) == {order[h][k] : k \in 1 .. Len(order[h])}

QInit == q = TAILQ_INIT /\ order = [h \in Heads |-> <<>>]

Insert(h, e) ==
  /\ \A g \in Heads : e \notin Linked(g)
  /\ q' = TAILQ_INSERT_TAIL(q, h, e)
  /\ order' = [order EXCEPT ![h] = Append(@, e)]

\* the element at position k is unlinked (co_eventloop always takes the first)
Remove(h, k) ==
  /\ q' = TAILQ_REMOVE(q, h, order[h][k])
  /\ order' = [order EXCEPT
                 ![h] = SubSeq(@, 1, k - 1) \o SubSeq(@, k + 1, Len(@))]

QNext ==
  \/ \E h \in Heads, e \in Elems : Insert(h, e)
  \/ \E h \in Heads : \E k \in 1 .. Len(order[h]) : Remove(h, k)

QSpec == QInit /\ [][QNext]_qvars

-----------------------------------------------------------------------------
\* The cell that must point to the k-th element of h.
Before(h, k) == IF k = 1 THEN FirstCell(h) ELSE NextCell(order[h][k - 1])

\* The pointers say what was linked, forwards and backwards: following
\* tqh_first and tqe_next one meets exactly the elements of order[h] and then
\* NULL, tqe_prev is the address of the pointer that leads to an element, and
\* tqh_last that of the final NULL.  The three links are kept apart in the
\* code and every macro has to mend all of them.
Represents ==
  /\ q \in Queues
  /\ \A h \in Heads :
       /\ q.last[h] = Before(h, Len(order[h]) + 1)
       /\ q.ptr[q.last[h]] = NIL
       /\ \A k \in 1 .. Len(order[h]) :
            /\ q.ptr[Before(h, k)] = order[h][k]
            /\ q.prev[order[h][k]] = Before(h, k)
=============================================================================
