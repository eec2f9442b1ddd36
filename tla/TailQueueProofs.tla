--------------------------- MODULE TailQueueProofs ---------------------------
(***************************************************************************)
(* Proofs about TailQueue, for any number of queues and elements: the       *)
(* macros of queue.h keep the pointers of every queue in step with the      *)
(* sequence of its elements.                                                *)
(***************************************************************************)
EXTENDS TailQueue, SequenceTheorems, TLAPS

\* An element is linked once, in one queue: a control block has one block_entry.
Distinct ==
  \A g, h \in Heads : \A k \in 1 .. Len(order[g]), l \in 1 .. Len(order[h]) :
    order[g][k] = order[h][l] => g = h /\ k = l

\* The inductive invariant.  Without Distinct a macro applied to one queue
\* could write a link of another one.
QInv == order \in [Heads -> Seq(Elems)] /\ Distinct /\ Represents

-----------------------------------------------------------------------------
\* The links are different memory, all of them.
LEMMA CellsDiffer ==
  /\ \A h \in Heads : FirstCell(h) \in Cells
  /\ \A e \in Elems : NextCell(e) \in Cells
  /\ \A h \in Heads, e \in Elems : FirstCell(h) # NextCell(e)
  /\ \A g, h \in Heads : FirstCell(g) = FirstCell(h) => g = h
  /\ \A d, e \in Elems : NextCell(d) = NextCell(e) => d = e
BY DEF Cells, FirstCell, NextCell

\* NULL and a dangling pointer are no elements.
LEMMA NoElement == NIL \notin Elems /\ FREED \notin Elems /\ NIL # FREED
BY TailQAssumption DEF NIL, FREED

\* What is linked is an element.
LEMMA OrderTypes ==
  ASSUME QInv, NEW h \in Heads
  PROVE  /\ Len(order[h]) \in Nat
         /\ \A k \in 1 .. Len(order[h]) : order[h][k] \in Elems
BY DEF QInv

\* The links that lead to the elements of a queue, and the one behind the last,
\* are links, and different for different positions.
LEMMA BeforeCells ==
  ASSUME QInv, NEW h \in Heads, NEW k \in 1 .. Len(order[h]) + 1
  PROVE  Before(h, k) \in Cells
BY CellsDiffer, OrderTypes DEF Before

LEMMA BeforeDiffer ==
  ASSUME QInv, NEW g \in Heads, NEW h \in Heads,
         NEW k \in 1 .. Len(order[g]) + 1, NEW l \in 1 .. Len(order[h]) + 1,
         Before(g, k) = Before(h, l)
  PROVE  g = h /\ k = l
<1>1. CASE k = 1
  BY <1>1, CellsDiffer, OrderTypes DEF Before
<1>2. CASE k # 1 /\ l = 1
  BY <1>2, CellsDiffer, OrderTypes DEF Before
<1>3. CASE k # 1 /\ l # 1
  <2>1. /\ k - 1 \in 1 .. Len(order[g]) /\ l - 1 \in 1 .. Len(order[h])
        /\ Before(g, k) = NextCell(order[g][k - 1])
        /\ Before(h, l) = NextCell(order[h][l - 1])
    BY <1>3, OrderTypes DEF Before
  <2>2. order[g][k - 1] = order[h][l - 1]
    BY <2>1, CellsDiffer, OrderTypes
  <2> QED
    BY <2>1, <2>2 DEF QInv, Distinct
<1> QED
  BY <1>1, <1>2, <1>3

-----------------------------------------------------------------------------
\* TAILQ_INIT makes every queue empty.
LEMMA InitQInv == QInit => QInv
<1> SUFFICES ASSUME QInit PROVE QInv
  OBVIOUS
<1>1. order = [h \in Heads |-> <<>>] /\ \A h \in Heads : Len(order[h]) = 0
  BY DEF QInit
<1>2. order \in [Heads -> Seq(Elems)] /\ Distinct
  BY <1>1 DEF Distinct
<1>3. q \in Queues
  BY CellsDiffer DEF QInit, TAILQ_INIT, Queues
<1>4. \A h \in Heads : Before(h, 1) = FirstCell(h)
  BY DEF Before
<1>5. \A h \in Heads : q.last[h] = FirstCell(h) /\ q.ptr[FirstCell(h)] = NIL
  BY CellsDiffer DEF QInit, TAILQ_INIT
<1> QED
  BY <1>1, <1>2, <1>3, <1>4, <1>5 DEF QInv, Represents

\* TAILQ_INSERT_TAIL appends an element that is in no queue.
LEMMA InsertQInv ==
  ASSUME QInv, NEW h \in Heads, NEW e \in Elems, Insert(h, e)
  PROVE  QInv'
<1>a. PICK n \in Nat : n = Len(order[h])
  BY OrderTypes
<1>1. n \in Nat /\ \A g \in Heads : \A k \in 1 .. Len(order[g]) : order[g][k] # e
  BY OrderTypes DEF Insert, Linked
<1>2. /\ order' \in [Heads -> Seq(Elems)]
      /\ Len(order'[h]) = n + 1
      /\ \A k \in 1 .. n : order'[h][k] = order[h][k]
      /\ order'[h][n + 1] = e
      /\ \A g \in Heads \ {h} : order'[g] = order[g]
  BY <1>a, AppendProperties DEF Insert, QInv
<1>3. Distinct'
  <2> SUFFICES ASSUME NEW g1 \in Heads, NEW g2 \in Heads,
                      NEW k \in 1 .. Len(order'[g1]), NEW l \in 1 .. Len(order'[g2]),
                      order'[g1][k] = order'[g2][l]
               PROVE  g1 = g2 /\ k = l
    BY DEF Distinct
  <2>1. \A g \in Heads : \A m \in 1 .. Len(order'[g]) :
          \/ m \in 1 .. Len(order[g]) /\ order'[g][m] = order[g][m] /\ order'[g][m] # e
          \/ g = h /\ m = n + 1 /\ order'[g][m] = e
    <3> SUFFICES ASSUME NEW g \in Heads, NEW m \in 1 .. Len(order'[g])
                 PROVE  \/ m \in 1 .. Len(order[g]) /\ order'[g][m] = order[g][m] /\ order'[g][m] # e
                        \/ g = h /\ m = n + 1 /\ order'[g][m] = e
      OBVIOUS
    <3>1. CASE g = h /\ m = n + 1
      BY <1>2, <3>1
    <3>2. CASE g = h /\ m # n + 1
      <4>1. m \in 1 .. n
        BY <1>2, <3>2
      <4> QED
        BY <1>a, <1>1, <1>2, <3>2, <4>1
    <3>3. CASE g # h
      BY <1>1, <1>2, <3>3
    <3> QED
      BY <3>1, <3>2, <3>3
  <2> QED
    BY <2>1 DEF QInv, Distinct
<1>4. \A g \in Heads : \A k \in 1 .. Len(order[g]) + 1 : Before(g, k)' = Before(g, k)
  <2> SUFFICES ASSUME NEW g \in Heads, NEW k \in 1 .. Len(order[g]) + 1
               PROVE  Before(g, k)' = Before(g, k)
    OBVIOUS
  <2>1. CASE k = 1
    BY <2>1 DEF Before
  <2>2. CASE k # 1
    <3>1. k - 1 \in 1 .. Len(order[g])
      BY <2>2, OrderTypes
    <3>2. order'[g][k - 1] = order[g][k - 1]
      BY <1>a, <1>2, <3>1
    <3> QED
      BY <2>2, <3>2 DEF Before
  <2> QED
    BY <2>1, <2>2
<1>5. Before(h, n + 2)' = NextCell(e)
  <2>1. n + 2 # 1 /\ (n + 2) - 1 = n + 1
    BY <1>1
  <2>2. Before(h, n + 2)' = NextCell(order'[h][(n + 2) - 1])
    BY <2>1 DEF Before
  <2> QED
    BY <1>2, <2>1, <2>2
<1>b. PICK end \in Cells : end = Before(h, n + 1)
  BY <1>a, BeforeCells
<1>7. \A g \in Heads : \A k \in 1 .. Len(order[g]) + 1 : Before(g, k) # NextCell(e)
  <2> SUFFICES ASSUME NEW g \in Heads, NEW k \in 1 .. Len(order[g]) + 1
               PROVE  Before(g, k) # NextCell(e)
    OBVIOUS
  <2>1. CASE k = 1
    BY <2>1, CellsDiffer DEF Before
  <2>2. CASE k # 1
    <3>1. k - 1 \in 1 .. Len(order[g])
      BY <2>2, OrderTypes
    <3> QED
      BY <1>1, <2>2, <3>1, CellsDiffer, OrderTypes DEF Before
  <2> QED
    BY <2>1, <2>2
<1>6. /\ end \in Cells /\ NextCell(e) \in Cells /\ end # NextCell(e)
      /\ q.last[h] = end
  <2>1. end \in Cells /\ NextCell(e) \in Cells
    BY CellsDiffer
  <2>2. end # NextCell(e)
    BY <1>a, <1>b, <1>7
  <2> QED
    BY <1>a, <1>b, <2>1, <2>2 DEF QInv, Represents
<1>8. /\ q \in Queues
      /\ q'.ptr = [q.ptr EXCEPT ![NextCell(e)] = NIL, ![end] = e]
      /\ q'.last = [q.last EXCEPT ![h] = NextCell(e)]
      /\ q'.prev = [q.prev EXCEPT ![e] = end]
      /\ q' = [ptr |-> q'.ptr, last |-> q'.last, prev |-> q'.prev]
  BY <1>6 DEF Insert, TAILQ_INSERT_TAIL, QInv, Represents
<1>9. /\ q.ptr \in [Cells -> Elems \cup {NIL, FREED}]
      /\ q.last \in [Heads -> Cells \cup {FreedAddr}]
      /\ q.prev \in [Elems -> Cells \cup {NullAddr, FreedAddr}]
  BY <1>8 DEF Queues
<1>10. q' \in Queues
  BY <1>6, <1>8, <1>9 DEF Queues
<1>11. ASSUME NEW g \in Heads
       PROVE  /\ q'.last[g] = Before(g, Len(order[g]) + 1)'
              /\ q'.ptr[q'.last[g]] = NIL
              /\ \A k \in 1 .. Len(order'[g]) :
                   /\ q'.ptr[Before(g, k)'] = order'[g][k]
                   /\ q'.prev[order'[g][k]] = Before(g, k)'
  <2>1. /\ Len(order[g]) \in Nat
        /\ \A k \in 1 .. Len(order[g]) : order[g][k] \in Elems /\ order[g][k] # e
    BY <1>1, OrderTypes
  <2>2. \A k \in 1 .. Len(order[g]) :
          /\ q.ptr[Before(g, k)] = order[g][k]
          /\ q.prev[order[g][k]] = Before(g, k)
    BY DEF QInv, Represents
  <2>3. \A k \in 1 .. Len(order[g]) + 1 : Before(g, k) \in Cells
    BY BeforeCells
  <2>4. \A k \in 1 .. Len(order[g]) :
          /\ q'.prev[order[g][k]] = Before(g, k)'
          /\ Before(g, k) # end => q'.ptr[Before(g, k)'] = order[g][k]
    BY <1>4, <1>6, <1>7, <1>8, <1>9, <2>1, <2>2, <2>3
  <2>5. \A k \in 1 .. Len(order[g]) : Before(g, k) # end
    <3>1. n + 1 \in 1 .. n + 1 /\ n + 1 \in 1 .. Len(order[h]) + 1
      BY <1>a, <1>1
    <3>2. ASSUME NEW k \in 1 .. Len(order[g]), Before(g, k) = end PROVE FALSE
      <4>1. g = h /\ k = n + 1
        BY <1>b, <2>1, <3>1, <3>2, BeforeDiffer
      <4> QED
        BY <1>a, <2>1, <4>1
    <3> QED
      BY <3>2
  <2>6. CASE g = h
    <3>1. /\ q'.last[h] = NextCell(e)
          /\ q'.ptr[NextCell(e)] = NIL
          /\ q'.ptr[end] = e
          /\ q'.prev[e] = end
      BY <1>6, <1>8, <1>9
    <3>2. Before(h, n + 1)' = end
      BY <1>a, <1>b, <1>1, <1>4
    <3>3. Before(h, Len(order[h]) + 1)' = NextCell(e)
      <4>1. Len(order'[h]) + 1 = n + 2
        BY <1>1, <1>2
      <4> QED
        BY <1>5, <4>1
    <3>4. ASSUME NEW k \in 1 .. Len(order'[h])
          PROVE  /\ q'.ptr[Before(h, k)'] = order'[h][k]
                 /\ q'.prev[order'[h][k]] = Before(h, k)'
      <4>1. CASE k = n + 1
        BY <1>2, <3>1, <3>2, <4>1
      <4>2. CASE k \in 1 .. n
        BY <1>a, <1>2, <2>4, <2>5, <2>6, <4>2
      <4> QED
        BY <1>1, <1>2, <4>1, <4>2
    <3> QED
      BY <2>6, <3>1, <3>3, <3>4
  <2>7. CASE g # h
    <3>1. order'[g] = order[g]
      BY <1>2, <2>7
    <3>2. Before(g, Len(order[g]) + 1)' = Before(g, Len(order[g]) + 1)
      BY <1>4, <2>1, <3>1
    <3>3. /\ q.last[g] = Before(g, Len(order[g]) + 1)
          /\ q.ptr[Before(g, Len(order[g]) + 1)] = NIL
          /\ q'.last[g] = q.last[g]
      BY <1>8, <1>9, <2>7 DEF QInv, Represents
    <3>4. Before(g, Len(order[g]) + 1) # end
      <4>1. n + 1 \in 1 .. Len(order[h]) + 1
        BY <1>a, <1>1
      <4> QED
        BY <1>b, <2>1, <2>7, <4>1, BeforeDiffer
    <3>5. q'.ptr[Before(g, Len(order[g]) + 1)] = NIL
      BY <1>6, <1>7, <1>8, <1>9, <2>1, <2>3, <3>3, <3>4
    <3> QED
      BY <2>4, <2>5, <3>1, <3>2, <3>3, <3>5
  <2> QED
    BY <2>6, <2>7
<1> QED
  BY <1>2, <1>3, <1>10, <1>11 DEF QInv, Represents

\* TAILQ_REMOVE takes an element out, whether it is the first, an inner or the
\* last one.
LEMMA RemoveQInv ==
  ASSUME QInv, NEW h \in Heads, NEW k \in 1 .. Len(order[h]), Remove(h, k)
  PROVE  QInv'
<1>a. PICK n \in Nat : n = Len(order[h])
  BY OrderTypes
<1>b. PICK e \in Elems : e = order[h][k]
  BY OrderTypes
<1>1. /\ k \in 1 .. n
      /\ order' \in [Heads -> Seq(Elems)]
      /\ Len(order'[h]) = n - 1
      /\ \A j \in 1 .. n - 1 : order'[h][j] = IF j < k THEN order[h][j] ELSE order[h][j + 1]
      /\ \A g \in Heads \ {h} : order'[g] = order[g]
  <2> DEFINE left  == SubSeq(order[h], 1, k - 1)
             right == SubSeq(order[h], k + 1, n)
  <2>1. \A j \in 1 .. n : order[h][j] \in Elems
    BY <1>a, OrderTypes
  <2>2. /\ left \in Seq(Elems) /\ Len(left) = k - 1
        /\ \A j \in 1 .. k - 1 : left[j] = order[h][j]
    <3>1. \A j \in 1 .. k - 1 : order[h][j] \in Elems
      BY <1>a, <2>1
    <3> QED
      BY <1>a, <3>1, SubSeqProperties
  <2>3. /\ right \in Seq(Elems) /\ Len(right) = n - k
        /\ \A j \in 1 .. n - k : right[j] = order[h][k + j]
    <3>1. \A j \in k + 1 .. n : order[h][j] \in Elems
      BY <1>a, <2>1
    <3>2. /\ right \in Seq(Elems)
          /\ Len(right) = IF k + 1 <= n THEN n - (k + 1) + 1 ELSE 0
          /\ \A j \in 1 .. n - (k + 1) + 1 : right[j] = order[h][(k + 1) + j - 1]
      BY <1>a, <3>1, SubSeqProperties
    <3>3. \A j \in 1 .. n - k : (k + 1) + j - 1 = k + j
      BY <1>a
    <3>4. n - (k + 1) + 1 = n - k
      BY <1>a
    <3> QED
      BY <1>a, <3>2, <3>3, <3>4
  <2> HIDE DEF left, right
  <2>4. /\ left \o right \in Seq(Elems)
        /\ Len(left \o right) = n - 1
        /\ \A j \in 1 .. n - 1 :
             (left \o right)[j] = IF j <= k - 1 THEN left[j] ELSE right[j - (k - 1)]
    <3>1. /\ left \o right \in Seq(Elems)
          /\ Len(left \o right) = Len(left) + Len(right)
          /\ \A j \in 1 .. Len(left) + Len(right) :
               (left \o right)[j] = IF j <= Len(left) THEN left[j] ELSE right[j - Len(left)]
      BY <2>2, <2>3, ConcatProperties
    <3>2. Len(left) + Len(right) = n - 1 /\ Len(left) = k - 1
      BY <1>a, <2>2, <2>3
    <3> QED
      BY <3>1, <3>2
  <2>5. order' = [order EXCEPT ![h] = left \o right]
    BY <1>a DEF Remove, left, right
  <2>6. \A j \in 1 .. n - 1 :
          (left \o right)[j] = IF j < k THEN order[h][j] ELSE order[h][j + 1]
    <3> SUFFICES ASSUME NEW j \in 1 .. n - 1
                 PROVE  (left \o right)[j] = IF j < k THEN order[h][j] ELSE order[h][j + 1]
      OBVIOUS
    <3>1. CASE j < k
      BY <1>a, <2>2, <2>4, <3>1
    <3>2. CASE ~(j < k)
      <4>1. j - (k - 1) \in 1 .. n - k /\ k + (j - (k - 1)) = j + 1
        BY <1>a, <3>2
      <4> QED
        BY <1>a, <2>3, <2>4, <3>2, <4>1
    <3> QED
      BY <3>1, <3>2
  <2> QED
    BY <1>a, <2>4, <2>5, <2>6 DEF QInv
\* where the element that is then at position j of g was
<1> DEFINE Was(g, j) == IF g = h /\ j >= k THEN j + 1 ELSE j
<1>2. ASSUME NEW g \in Heads, NEW j \in 1 .. Len(order'[g])
      PROVE  /\ Was(g, j) \in 1 .. Len(order[g])
             /\ order'[g][j] = order[g][Was(g, j)]
             /\ g = h => Was(g, j) # k
  BY <1>a, <1>1
<1>3. Distinct'
  <2> SUFFICES ASSUME NEW g1 \in Heads, NEW g2 \in Heads,
                      NEW i \in 1 .. Len(order'[g1]), NEW j \in 1 .. Len(order'[g2]),
                      order'[g1][i] = order'[g2][j]
               PROVE  g1 = g2 /\ i = j
    BY DEF Distinct
  <2>1. /\ Was(g1, i) \in 1 .. Len(order[g1]) /\ Was(g2, j) \in 1 .. Len(order[g2])
        /\ order[g1][Was(g1, i)] = order[g2][Was(g2, j)]
    BY <1>2
  <2>2. g1 = g2 /\ Was(g1, i) = Was(g2, j)
    BY <2>1 DEF QInv, Distinct
  <2>3. i \in Int /\ j \in Int
    OBVIOUS
  <2> QED
    BY <1>a, <2>2, <2>3
<1>4. ASSUME NEW g \in Heads, NEW j \in 1 .. Len(order'[g]) + 1
      PROVE  /\ Was(g, j) \in 1 .. Len(order[g]) + 1
             /\ Before(g, j)' = IF g = h /\ j = k THEN Before(h, k) ELSE Before(g, Was(g, j))
  <2>0. Len(order'[g]) \in Nat /\ Len(order[g]) \in Nat
    BY <1>a, <1>1, OrderTypes
  <2>1. Was(g, j) \in 1 .. Len(order[g]) + 1
    BY <1>a, <1>1, <2>0
  <2>2. CASE j = 1
    BY <1>a, <1>1, <2>2 DEF Before
  <2>3. CASE j # 1
    <3>1. j - 1 \in 1 .. Len(order'[g])
      BY <2>0, <2>3
    <3>2. order'[g][j - 1] = order[g][Was(g, j - 1)]
      BY <1>2, <3>1
    <3>3. Before(g, j)' = NextCell(order[g][Was(g, j - 1)])
      BY <2>3, <3>2 DEF Before
    <3>4. CASE g = h /\ j = k
      BY <1>a, <2>3, <3>3, <3>4 DEF Before
    <3>5. CASE ~(g = h /\ j = k)
      <4>1. Was(g, j) # 1 /\ Was(g, j) - 1 = Was(g, j - 1)
        BY <1>a, <2>3, <3>5
      <4> QED
        BY <2>1, <3>3, <3>5, <4>1 DEF Before
    <3> QED
      BY <3>4, <3>5
  <2> QED
    BY <2>1, <2>2, <2>3
<1>c. PICK here \in Cells : here = Before(h, k)
  BY <1>a, BeforeCells
<1> DEFINE next == q.ptr[NextCell(e)]
<1>5. /\ q \in Queues
      /\ \A g \in Heads :
           /\ q.last[g] = Before(g, Len(order[g]) + 1)
           /\ q.ptr[Before(g, Len(order[g]) + 1)] = NIL
           /\ \A j \in 1 .. Len(order[g]) :
                /\ q.ptr[Before(g, j)] = order[g][j]
                /\ q.prev[order[g][j]] = Before(g, j)
  BY DEF QInv, Represents
<1>6. /\ q.ptr \in [Cells -> Elems \cup {NIL, FREED}]
      /\ q.last \in [Heads -> Cells \cup {FreedAddr}]
      /\ q.prev \in [Elems -> Cells \cup {NullAddr, FreedAddr}]
  BY <1>5 DEF Queues
<1>7. q.prev[e] = here
  BY <1>a, <1>b, <1>c, <1>5
<1>8. next = IF k = n THEN NIL ELSE order[h][k + 1]
  <2>1. Before(h, k + 1) = NextCell(e)
    BY <1>a, <1>b DEF Before
  <2>2. CASE k = n
    BY <1>a, <1>5, <2>1, <2>2
  <2>3. CASE k # n
    <3>1. k + 1 \in 1 .. Len(order[h])
      BY <1>a, <2>3
    <3> QED
      BY <1>5, <2>1, <2>3, <3>1
  <2> QED
    BY <2>2, <2>3
<1>9. k # n => next \in Elems /\ next # NIL
  <2>1. k # n => k + 1 \in 1 .. Len(order[h])
    BY <1>a
  <2> QED
    BY <1>8, <2>1, NoElement, OrderTypes
<1>10. q' = TAILQ_REMOVE(q, h, e)
  BY <1>b DEF Remove
<1>11. /\ q'.ptr = [q.ptr EXCEPT ![here] = next]
       /\ q'.last = IF k = n THEN [q.last EXCEPT ![h] = here] ELSE q.last
       /\ q'.prev = IF k = n THEN q.prev ELSE [q.prev EXCEPT ![next] = here]
       /\ q' = [ptr |-> q'.ptr, last |-> q'.last, prev |-> q'.prev]
  <2>1. q = [ptr |-> q.ptr, last |-> q.last, prev |-> q.prev]
    BY <1>5 DEF Queues
  <2>2. CASE k = n
    BY <1>7, <1>8, <1>10, <2>1, <2>2 DEF TAILQ_REMOVE
  <2>3. CASE k # n
    <3>1. CASE e = next
      <4>1. k + 1 \in 1 .. Len(order[h]) /\ order[h][k + 1] = order[h][k]
        BY <1>a, <1>b, <1>8, <2>3, <3>1
      <4>2. k + 1 = k
        BY <4>1 DEF QInv, Distinct
      <4> QED
        BY <1>a, <4>2
    <3>2. CASE e # next
      BY <1>6, <1>7, <1>9, <1>10, <2>1, <2>3, <3>2 DEF TAILQ_REMOVE
    <3> QED
      BY <3>1, <3>2
  <2> QED
    BY <2>2, <2>3
<1>12. q' \in Queues
  BY <1>6, <1>8, <1>9, <1>11 DEF Queues
<1>13. ASSUME NEW g \in Heads, NEW j \in 1 .. Len(order'[g]) + 1
       PROVE  q'.ptr[Before(g, j)'] = IF j = Len(order'[g]) + 1 THEN NIL ELSE order'[g][j]
  <2>0. Len(order'[g]) \in Nat /\ Len(order[g]) \in Nat
    BY <1>a, <1>1, OrderTypes
  <2>1. CASE g = h /\ j = k
    <3>1. q'.ptr[here] = next /\ Before(g, j)' = here
      BY <1>c, <1>4, <1>6, <1>11, <2>1
    <3> QED
      BY <1>a, <1>1, <1>8, <2>1, <3>1
  <2>2. CASE ~(g = h /\ j = k)
    <3>1. Before(g, j)' = Before(g, Was(g, j)) /\ Was(g, j) \in 1 .. Len(order[g]) + 1
      BY <1>4, <2>2
    <3>2. ~(g = h /\ Was(g, j) = k)
      BY <1>a, <2>2
    <3>3. Before(g, Was(g, j)) # here
      <4>1. k \in 1 .. Len(order[h]) + 1
        BY <1>a
      <4> QED
        BY <1>c, <3>1, <3>2, <4>1, BeforeDiffer
    <3>4. Before(g, Was(g, j)) \in Cells
      BY <3>1, BeforeCells
    <3>5. q'.ptr[Before(g, j)'] = q.ptr[Before(g, Was(g, j))]
      BY <1>6, <1>11, <3>1, <3>3, <3>4
    <3>6. CASE j = Len(order'[g]) + 1
      <4>1. Was(g, j) = Len(order[g]) + 1
        BY <1>a, <1>1, <2>0, <2>2, <3>6
      <4> QED
        BY <1>5, <3>5, <3>6, <4>1
    <3>7. CASE j # Len(order'[g]) + 1
      <4>1. j \in 1 .. Len(order'[g])
        BY <2>0, <3>7
      <4> QED
        BY <1>2, <1>5, <2>2, <3>5, <3>7, <4>1
    <3> QED
      BY <3>6, <3>7
  <2> QED
    BY <2>1, <2>2
<1>14. ASSUME NEW g \in Heads, NEW j \in 1 .. Len(order'[g])
       PROVE  q'.prev[order'[g][j]] = Before(g, j)'
  <2>0. /\ order'[g][j] = order[g][Was(g, j)] /\ Was(g, j) \in 1 .. Len(order[g])
        /\ order'[g][j] \in Elems
    BY <1>2, OrderTypes
  <2>1. CASE g = h /\ j = k
    <3>1. k # n /\ order'[g][j] = next
      BY <1>a, <1>1, <1>8, <2>0, <2>1
    <3>2. j \in 1 .. Len(order'[g]) + 1
      BY <1>a, <1>1, <2>1
    <3>3. Before(g, j)' = here
      BY <1>c, <1>4, <2>1, <3>2
    <3> QED
      BY <1>6, <1>9, <1>11, <3>1, <3>3
  <2>2. CASE ~(g = h /\ j = k)
    <3>0. Len(order'[g]) \in Nat
      BY <1>a, <1>1, OrderTypes
    <3>1. Before(g, j)' = Before(g, Was(g, j))
      <4>1. j \in 1 .. Len(order'[g]) + 1
        BY <3>0
      <4> QED
        BY <1>4, <2>2, <4>1
    <3>2. k # n => order'[g][j] # next
      <4> SUFFICES ASSUME k # n, order'[g][j] = next PROVE FALSE
        OBVIOUS
      <4>1. k + 1 \in 1 .. Len(order[h]) /\ order[g][Was(g, j)] = order[h][k + 1]
        BY <1>a, <1>8, <2>0
      <4>2. g = h /\ Was(g, j) = k + 1
        BY <2>0, <4>1 DEF QInv, Distinct
      <4> QED
        BY <1>a, <2>2, <4>2
    <3>3. q'.prev[order'[g][j]] = q.prev[order'[g][j]]
      BY <1>6, <1>9, <1>11, <2>0, <3>2
    <3> QED
      BY <1>5, <2>0, <3>1, <3>3
  <2> QED
    BY <2>1, <2>2
<1>15. ASSUME NEW g \in Heads
       PROVE  q'.last[g] = Before(g, Len(order[g]) + 1)'
  <2>0. Len(order'[g]) \in Nat /\ Len(order[g]) \in Nat
    BY <1>a, <1>1, OrderTypes
  <2>a. PICK m \in 1 .. Len(order'[g]) + 1 : m = Len(order'[g]) + 1
    BY <2>0
  <2>1. Before(g, Len(order[g]) + 1)' = Before(g, m)'
    BY <2>a DEF Before
  <2>2. CASE g = h /\ k = n
    <3>1. m = k
      BY <1>a, <1>1, <2>2, <2>a
    <3> QED
      BY <1>c, <1>4, <1>6, <1>11, <2>1, <2>2, <3>1
  <2>3. CASE ~(g = h /\ k = n)
    <3>1. Was(g, m) = Len(order[g]) + 1 /\ ~(g = h /\ m = k)
      BY <1>a, <1>1, <2>0, <2>3, <2>a
    <3>2. q'.last[g] = q.last[g]
      BY <1>6, <1>11, <2>3
    <3> QED
      BY <1>4, <1>5, <2>1, <3>1, <3>2
  <2> QED
    BY <2>2, <2>3
<1>16. ASSUME NEW g \in Heads
       PROVE  /\ q'.last[g] = Before(g, Len(order[g]) + 1)'
              /\ q'.ptr[q'.last[g]] = NIL
              /\ \A j \in 1 .. Len(order'[g]) :
                   /\ q'.ptr[Before(g, j)'] = order'[g][j]
                   /\ q'.prev[order'[g][j]] = Before(g, j)'
  <2>0. Len(order'[g]) \in Nat
    BY <1>a, <1>1, OrderTypes
  <2>a. PICK m \in 1 .. Len(order'[g]) + 1 : m = Len(order'[g]) + 1
    BY <2>0
  <2>1. Before(g, Len(order[g]) + 1)' = Before(g, m)'
    BY <2>a DEF Before
  <2>2. q'.ptr[Before(g, m)'] = NIL
    BY <1>13, <2>a
  <2>3. \A j \in 1 .. Len(order'[g]) : j \in 1 .. Len(order'[g]) + 1 /\ j # Len(order'[g]) + 1
    BY <2>0
  <2> QED
    BY <1>13, <1>14, <1>15, <2>1, <2>2, <2>3
<1> QED
  BY <1>1, <1>3, <1>12, <1>16 DEF QInv, Represents

-----------------------------------------------------------------------------
\* The pointers represent the sequences in every behaviour.
THEOREM TailQueueCorrect == QSpec => []Represents
<1>1. QInv /\ [QNext]_qvars => QInv'
  <2> SUFFICES ASSUME QInv, [QNext]_qvars PROVE QInv'
    OBVIOUS
  <2>1. ASSUME NEW h \in Heads, NEW e \in Elems, Insert(h, e) PROVE QInv'
    BY <2>1, InsertQInv
  <2>2. ASSUME NEW h \in Heads, NEW k \in 1 .. Len(order[h]), Remove(h, k) PROVE QInv'
    BY <2>2, RemoveQInv
  <2>3. CASE UNCHANGED qvars
    <3>1. q' = q /\ order' = order
      BY <2>3 DEF qvars
    <3> QED
      BY <3>1 DEF QInv, Distinct, Represents, Before
  <2> QED
    BY <2>1, <2>2, <2>3 DEF QNext
<1>2. QInv => Represents
  BY DEF QInv
<1> QED
  BY <1>1, <1>2, InitQInv, PTL DEF QSpec
=============================================================================
