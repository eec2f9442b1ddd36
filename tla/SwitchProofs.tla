---------------------------- MODULE SwitchProofs ----------------------------
(***************************************************************************)
(* Proofs about Switch, for any number of coroutines and any size of their  *)
(* stacks: switch_to and the first frame of co_create together put every    *)
(* coroutine back where it was, whatever the others do meanwhile.           *)
(***************************************************************************)
EXTENDS Switch, SequenceTheorems, TLAPS

(***************************************************************************)
(* The inductive invariant.                                                 *)
(***************************************************************************)
Tags  == Regs \cup {"addr", "tsk", "ret", "start", "fill", "var"}
Words == Tags \X Tasks \X (Int \cup Gens)
Cells == 0 .. STACK_SIZE - 1

SwTypes ==
  /\ reg \in [Regs -> Words]
  /\ stack \in [Tasks -> [Cells -> Words]]
  /\ esp \in [Tasks -> Words]
  /\ current \in made /\ made \subseteq Tasks
  /\ ip \in 0 .. 38
  /\ saved \in [Tasks -> SUBSET [reg : [Regs -> Words], stack : [Cells -> Words]]]
  /\ Running \in made /\ Depth \in 0 .. STACK_SIZE /\ reg["sp"] = Addr(Running, Depth)

\* the stack pointer in what a coroutine had when it called switch_to
Sp(s) == s.reg["sp"][3]

\* The return address is on top, and there is room for what switch_to pushes.
Departures ==
  \A t \in Tasks :
    /\ t \notin made => saved[t] = {}
    /\ \A s \in saved[t] :
         /\ Sp(s) \in 16 .. STACK_SIZE - 1
         /\ s.stack[Sp(s)] = Ret(t)

\* the registers in the order in which switch_to pushes them
Kept == [k \in 1 .. 16 |-> IF k = 1 THEN "bp" ELSE Pushed[k - 1]]

\* the first m words that switch_to has pushed for t
Below(t, s, m) == \A k \in 1 .. m : stack[t][Sp(s) - k] = s.reg[Kept[k]]

\* what t has on its stack itself
Above(t, s) == \A k \in Sp(s) .. STACK_SIZE - 1 : stack[t][k] = s.stack[k]

\* What the rest of switch_to finds on the stack of t, from word d on, behind the
\* m words that it has popped: the registers that t left with, or the frame of
\* co_create.
Frame(t, d, m) ==
  /\ d \in 0 .. STACK_SIZE - 17
  /\ \A s \in saved[t] :
       /\ d = Sp(s) - 16
       /\ \A k \in m + 1 .. 15 : stack[t][d + k - 1] = s.reg[Popped[k]]
       /\ m < 16 => stack[t][d + 15] = s.reg["bp"]
       /\ Above(t, s)
  /\ saved[t] = {} =>
       /\ d = STACK_SIZE - 18
       /\ m < 15 => stack[t][d + 14] = Tsk(t)
       /\ stack[t][d + 16] = Start

\* A coroutine without the CPU can be switched to.
Parked(t) == \E d \in Cells : esp[t] = Addr(t, d) /\ Frame(t, d, 0)

OthersParked == \A t \in made \ {Running} : Parked(t)

\* how many words switch_to has pushed before instruction k
PushedBefore(k) == IF k = 1 THEN 0 ELSE IF k = 2 THEN 1 ELSE IF k <= 18 THEN k - 2 ELSE 16

\* The instructions up to the change of stacks: the coroutine that leaves is
\* being saved; current is the other one.
Leaving ==
  ip \in 1 .. 21 =>
    /\ Running # current /\ saved[Running] # {}
    /\ \A s \in saved[Running] :
         /\ Depth = Sp(s) - PushedBefore(ip)
         /\ Below(Running, s, PushedBefore(ip)) /\ Above(Running, s)
         /\ s.reg["di"] = Tsk(Running) /\ s.reg["si"] = Tsk(current)
         /\ \A r \in Regs \ {"sp", "bp", "ax"} : reg[r] = s.reg[r]
         /\ ip = 1 => reg["bp"] = s.reg["bp"]
         /\ ip <= 18 => reg["ax"] = s.reg["ax"]
    /\ ip = 19 => reg["ax"] = Tsk(Running)
    /\ ip \in {20, 21} => esp[Running] = Addr(Running, Depth)
    /\ ip = 21 => reg["ax"] = Tsk(current)

\* The instructions behind it: current gets its registers back.
Regained(m) ==
  /\ \A s \in saved[current] :
       /\ \A k \in 1 .. 15 : k <= m => reg[Popped[k]] = s.reg[Popped[k]]
       /\ m = 16 => reg["bp"] = s.reg["bp"]
  /\ saved[current] = {} /\ m >= 15 => reg["di"] = Tsk(current)

Entering ==
  ip \in 22 .. 38 =>
    /\ Running = current
    /\ Frame(current, Depth - (ip - 22), ip - 22)
    /\ Regained(ip - 22)

InProgram == ip = 0 => Running = current

SwInv == SwTypes /\ Departures /\ OthersParked /\ Leaving /\ Entering /\ InProgram

-----------------------------------------------------------------------------
(***************************************************************************)
(* The code.                                                                *)
(***************************************************************************)
\* The registers are pushed and popped in opposite orders, none twice.
LEMMA Names ==
  /\ Len(Pushed) = 15 /\ Len(Popped) = 15
  /\ Pushed \in Seq(Regs \ {"bp", "sp"}) /\ Popped \in Seq(Regs \ {"bp", "sp"})
  /\ \A k \in 1 .. 15 : Popped[k] = Pushed[16 - k]
  /\ \A j, k \in 1 .. 15 : Popped[j] = Popped[k] => j = k
  /\ \A r \in CalleeSaved \ {"bp", "sp"} : \E k \in 1 .. 15 : r = Popped[k]
  /\ CalleeSaved \subseteq Regs /\ {"ax", "di", "si", "bp", "sp"} \subseteq Regs
  /\ Popped[15] = "di"
<1>1. /\ Len(Pushed) = 15 /\ Len(Popped) = 15
      /\ DOMAIN Pushed = 1 .. 15 /\ DOMAIN Popped = 1 .. 15
  BY DEF Pushed, Popped
<1>2. /\ Pushed[1] = "di" /\ Pushed[2] = "si" /\ Pushed[3] = "bx" /\ Pushed[4] = "dx"
      /\ Pushed[5] = "cx" /\ Pushed[6] = "ax" /\ Pushed[7] = "flags" /\ Pushed[8] = "r8"
      /\ Pushed[9] = "r9" /\ Pushed[10] = "r10" /\ Pushed[11] = "r11" /\ Pushed[12] = "r12"
      /\ Pushed[13] = "r13" /\ Pushed[14] = "r14" /\ Pushed[15] = "r15"
  BY DEF Pushed
<1>3. \A k \in 1 .. 15 :
        \/ k = 1 \/ k = 2 \/ k = 3 \/ k = 4 \/ k = 5 \/ k = 6 \/ k = 7 \/ k = 8
        \/ k = 9 \/ k = 10 \/ k = 11 \/ k = 12 \/ k = 13 \/ k = 14 \/ k = 15
  OBVIOUS
<1>4. \A k \in 1 .. 15 : Popped[k] = Pushed[16 - k]
  <2>1. /\ Popped[1] = "r15" /\ Popped[2] = "r14" /\ Popped[3] = "r13" /\ Popped[4] = "r12"
        /\ Popped[5] = "r11" /\ Popped[6] = "r10" /\ Popped[7] = "r9" /\ Popped[8] = "r8"
        /\ Popped[9] = "flags" /\ Popped[10] = "ax" /\ Popped[11] = "cx"
        /\ Popped[12] = "dx" /\ Popped[13] = "bx" /\ Popped[14] = "si" /\ Popped[15] = "di"
    BY DEF Popped
  <2>2. QED
    BY <1>2, <1>3, <2>1
<1>5. \A j, k \in 1 .. 15 : Pushed[j] = Pushed[k] => j = k
  BY <1>2, <1>3
<1>6. \A k \in 1 .. 15 : Pushed[k] \in Regs /\ Pushed[k] # "bp" /\ Pushed[k] # "sp"
  <2>1. \A k \in 1 .. 15 : Pushed[k] \in Regs
    BY <1>1 DEF Regs
  <2>2. \A k \in 1 .. 15 : Pushed[k] # "bp" /\ Pushed[k] # "sp"
    BY <1>2, <1>3
  <2>3. QED
    BY <2>1, <2>2
<1>7. /\ Pushed \in Seq(Regs \ {"bp", "sp"}) /\ Popped \in Seq(Regs \ {"bp", "sp"})
  <2>1. Pushed \in [1 .. 15 -> Regs \ {"bp", "sp"}]
    BY <1>1, <1>6 DEF Pushed
  <2>2. Popped \in [1 .. 15 -> Regs \ {"bp", "sp"}]
    <3>1. \A k \in 1 .. 15 : Popped[k] \in Regs \ {"bp", "sp"}
      BY <1>4, <1>6
    <3>2. QED
      BY <1>1, <3>1 DEF Popped
  <2>3. QED
    BY <2>1, <2>2, SeqDef
<1>8. \A r \in CalleeSaved \ {"bp", "sp"} : \E k \in 1 .. 15 : r = Popped[k]
  <2>1. \A r \in CalleeSaved \ {"bp", "sp"} :
          r = Pushed[3] \/ r = Pushed[12] \/ r = Pushed[13] \/ r = Pushed[14] \/ r = Pushed[15]
    BY <1>2 DEF CalleeSaved
  <2>2. /\ Pushed[3] = Popped[13] /\ Pushed[12] = Popped[4] /\ Pushed[13] = Popped[3]
        /\ Pushed[14] = Popped[2] /\ Pushed[15] = Popped[1]
    BY <1>4
  <2>3. QED
    BY <2>1, <2>2
<1>9. CalleeSaved \subseteq Regs /\ {"ax", "di", "si", "bp", "sp"} \subseteq Regs
  <2>1. {"bx", "r12", "r13", "r14", "r15", "ax", "di", "si"} \subseteq Regs
    BY <1>2, <1>6
  <2>2. {"bp", "sp"} \subseteq Regs
    BY DEF Regs
  <2>3. QED
    BY <2>1, <2>2 DEF CalleeSaved
<1>10. QED
  BY <1>1, <1>2, <1>4, <1>5, <1>7, <1>8, <1>9

LEMMA PoppedRegs == \A k \in 1 .. 15 : Popped[k] \in Regs \ {"bp", "sp"}
BY Names, ElementOfSeq

\* Two pieces of code, one behind the other.
LEMMA Joined ==
  ASSUME NEW S, NEW s \in Seq(S), NEW t \in Seq(S), NEW u, u = s \o t
  PROVE  /\ u \in Seq(S) /\ Len(u) = Len(s) + Len(t)
         /\ \A i \in 1 .. Len(s) + Len(t) : u[i] = IF i <= Len(s) THEN s[i] ELSE t[i - Len(s)]
<1>1. /\ s \o t \in Seq(S)
      /\ Len(s \o t) = Len(s) + Len(t)
      /\ \A i \in 1 .. Len(s) + Len(t) :
           (s \o t)[i] = IF i <= Len(s) THEN s[i] ELSE t[i - Len(s)]
  BY ConcatProperties, Zenon
<1>2. QED
  BY <1>1, Zenon

\* switch_to, instruction by instruction.
LEMMA Code ==
  /\ switch_to[1] = <<"push", "bp">> /\ switch_to[2] = <<"enter", "bp">>
  /\ \A k \in 3 .. 17 : switch_to[k] = <<"push", Pushed[k - 2]>>
  /\ switch_to[18] = <<"mov", "di">> /\ switch_to[19] = <<"save", "ax">>
  /\ switch_to[20] = <<"mov", "si">> /\ switch_to[21] = <<"load", "ax">>
  /\ \A k \in 22 .. 36 : switch_to[k] = <<"pop", Popped[k - 21]>>
  /\ switch_to[37] = <<"pop", "bp">> /\ switch_to[38] = <<"ret", "ip">>
<1> DEFINE Ops == {"push", "enter", "mov", "save", "load", "pop", "ret"}
           Ins == Ops \X (Regs \cup {"ip"})
           A == <<<<"push", "bp">>, <<"enter", "bp">>>>
           B == Each("push", Pushed)
           C == <<Current, <<"save", "ax">>, Next_, <<"load", "ax">>>>
           D == Each("pop", Popped)
           E == <<<<"pop", "bp">>, <<"ret", "ip">>>>
<1>1. A \in Seq(Ins) /\ Len(A) = 2 /\ A[1] = <<"push", "bp">> /\ A[2] = <<"enter", "bp">>
  BY Names
<1>2. C \in Seq(Ins) /\ Len(C) = 4 /\ C[1] = <<"mov", "di">> /\ C[2] = <<"save", "ax">>
      /\ C[3] = <<"mov", "si">> /\ C[4] = <<"load", "ax">>
  BY Names DEF Current, Next_
<1>3. E \in Seq(Ins) /\ Len(E) = 2 /\ E[1] = <<"pop", "bp">> /\ E[2] = <<"ret", "ip">>
  BY Names
<1>4. ASSUME NEW op \in Ops, NEW s \in Seq(Regs), Len(s) = 15
      PROVE  /\ Each(op, s) \in Seq(Ins) /\ Len(Each(op, s)) = 15
             /\ \A k \in 1 .. 15 : Each(op, s)[k] = <<op, s[k]>>
  <2>1. \A k \in 1 .. 15 : s[k] \in Regs
    BY <1>4, ElementOfSeq
  <2>2. Each(op, s) = [k \in 1 .. 15 |-> <<op, s[k]>>]
    BY <1>4 DEF Each
  <2>3. Each(op, s) \in [1 .. 15 -> Ins]
    <3>1. \A k \in 1 .. 15 : <<op, s[k]>> \in Ins
      BY <2>1, Zenon
    <3> HIDE DEF Ins
    <3>2. QED
      BY <2>2, <3>1
  <2>4. Each(op, s) \in Seq(Ins) /\ Len(Each(op, s)) = 15
    BY <2>2, <2>3, SeqDef
  <2>5. QED
    BY <2>2, <2>4
<1>5. Pushed \in Seq(Regs) /\ Popped \in Seq(Regs) /\ Len(Pushed) = 15 /\ Len(Popped) = 15
  BY Names, SeqMonotonic
<1>6. "push" \in Ops /\ "pop" \in Ops
  OBVIOUS
<1> HIDE DEF Ops
<1>60. /\ B \in Seq(Ins) /\ Len(B) = 15 /\ \A k \in 1 .. 15 : B[k] = <<"push", Pushed[k]>>
  BY <1>4, <1>5, <1>6
<1>61. /\ D \in Seq(Ins) /\ Len(D) = 15 /\ \A k \in 1 .. 15 : D[k] = <<"pop", Popped[k]>>
  BY <1>4, <1>5, <1>6
<1>7. switch_to = (((A \o B) \o C) \o D) \o E
  BY DEF switch_to
<1> HIDE DEF A, B, C, D, E, Ins
<1>62. /\ A \in Seq(Ins) /\ Len(A) = 2 /\ B \in Seq(Ins) /\ Len(B) = 15
       /\ C \in Seq(Ins) /\ Len(C) = 4 /\ D \in Seq(Ins) /\ Len(D) = 15
       /\ E \in Seq(Ins) /\ Len(E) = 2
  BY <1>1, <1>2, <1>3, <1>60, <1>61, Zenon
<1> DEFINE F == A \o B
           G == F \o C
           H == G \o D
           I == H \o E
<1>8. /\ F \in Seq(Ins) /\ Len(F) = 17
      /\ \A i \in 1 .. 17 : F[i] = IF i <= 2 THEN A[i] ELSE B[i - 2]
  <2>1. F = A \o B
    BY DEF F
  <2> HIDE DEF F
  <2>2. /\ F \in Seq(Ins) /\ Len(F) = Len(A) + Len(B)
        /\ \A i \in 1 .. Len(A) + Len(B) :
             F[i] = IF i <= Len(A) THEN A[i] ELSE B[i - Len(A)]
    <3>1. A \in Seq(Ins) /\ B \in Seq(Ins)
      BY <1>62, Zenon
    <3>2. QED
      BY <2>1, <3>1, Joined
  <2>3. Len(A) = 2 /\ Len(B) = 15
    BY <1>62, Zenon
  <2>4. QED
    BY <2>2, <2>3
<1> HIDE DEF F
<1>9. /\ G \in Seq(Ins) /\ Len(G) = 21
      /\ \A i \in 1 .. 21 : G[i] = IF i <= 17 THEN F[i] ELSE C[i - 17]
  <2>1. G = F \o C
    BY DEF G
  <2> HIDE DEF G
  <2>2. /\ G \in Seq(Ins) /\ Len(G) = Len(F) + Len(C)
        /\ \A i \in 1 .. Len(F) + Len(C) :
             G[i] = IF i <= Len(F) THEN F[i] ELSE C[i - Len(F)]
    <3>1. F \in Seq(Ins) /\ C \in Seq(Ins)
      BY <1>62, <1>8, Zenon
    <3>2. QED
      BY <2>1, <3>1, Joined
  <2>3. Len(F) = 17 /\ Len(C) = 4
    BY <1>62, <1>8, Zenon
  <2>4. QED
    BY <2>2, <2>3
<1> HIDE DEF G
<1>10. /\ H \in Seq(Ins) /\ Len(H) = 36
      /\ \A i \in 1 .. 36 : H[i] = IF i <= 21 THEN G[i] ELSE D[i - 21]
  <2>1. H = G \o D
    BY DEF H
  <2> HIDE DEF H
  <2>2. /\ H \in Seq(Ins) /\ Len(H) = Len(G) + Len(D)
        /\ \A i \in 1 .. Len(G) + Len(D) :
             H[i] = IF i <= Len(G) THEN G[i] ELSE D[i - Len(G)]
    <3>1. G \in Seq(Ins) /\ D \in Seq(Ins)
      BY <1>62, <1>9, Zenon
    <3>2. QED
      BY <2>1, <3>1, Joined
  <2>3. Len(G) = 21 /\ Len(D) = 15
    BY <1>62, <1>9, Zenon
  <2>4. QED
    BY <2>2, <2>3
<1> HIDE DEF H
<1>11. /\ I \in Seq(Ins) /\ Len(I) = 38
      /\ \A i \in 1 .. 38 : I[i] = IF i <= 36 THEN H[i] ELSE E[i - 36]
  <2>1. I = H \o E
    BY DEF I
  <2> HIDE DEF I
  <2>2. /\ I \in Seq(Ins) /\ Len(I) = Len(H) + Len(E)
        /\ \A i \in 1 .. Len(H) + Len(E) :
             I[i] = IF i <= Len(H) THEN H[i] ELSE E[i - Len(H)]
    <3>1. H \in Seq(Ins) /\ E \in Seq(Ins)
      BY <1>62, <1>10, Zenon
    <3>2. QED
      BY <2>1, <3>1, Joined
  <2>3. Len(H) = 36 /\ Len(E) = 2
    BY <1>62, <1>10, Zenon
  <2>4. QED
    BY <2>2, <2>3
<1>12. I = switch_to
  BY <1>7, Zenon DEF F, G, H, I
<1> HIDE DEF I
<1>13. /\ \A i \in 1 .. 17 : F[i] = IF i <= 2 THEN A[i] ELSE B[i - 2]
       /\ \A i \in 1 .. 21 : G[i] = IF i <= 17 THEN F[i] ELSE C[i - 17]
       /\ \A i \in 1 .. 36 : H[i] = IF i <= 21 THEN G[i] ELSE D[i - 21]
       /\ \A i \in 1 .. 38 : switch_to[i] = IF i <= 36 THEN H[i] ELSE E[i - 36]
  BY <1>8, <1>9, <1>10, <1>11, <1>12, Zenon
<1>14. /\ \A i \in 1 .. 17 : switch_to[i] = IF i <= 2 THEN A[i] ELSE B[i - 2]
       /\ \A i \in 18 .. 21 : switch_to[i] = C[i - 17]
       /\ \A i \in 22 .. 36 : switch_to[i] = D[i - 21]
       /\ \A i \in 37 .. 38 : switch_to[i] = E[i - 36]
  BY <1>13
<1>15. /\ \A k \in 1 .. 15 : B[k] = <<"push", Pushed[k]>>
       /\ \A k \in 1 .. 15 : D[k] = <<"pop", Popped[k]>>
       /\ A[1] = <<"push", "bp">> /\ A[2] = <<"enter", "bp">>
       /\ C[1] = <<"mov", "di">> /\ C[2] = <<"save", "ax">>
       /\ C[3] = <<"mov", "si">> /\ C[4] = <<"load", "ax">>
       /\ E[1] = <<"pop", "bp">> /\ E[2] = <<"ret", "ip">>
  BY <1>1, <1>2, <1>3, <1>60, <1>61, Zenon
<1>16. switch_to[1] = <<"push", "bp">> /\ switch_to[2] = <<"enter", "bp">>
  BY <1>14, <1>15
<1>17. \A k \in 3 .. 17 : switch_to[k] = <<"push", Pushed[k - 2]>>
  BY <1>14, <1>15
<1>18. /\ switch_to[18] = <<"mov", "di">> /\ switch_to[19] = <<"save", "ax">>
       /\ switch_to[20] = <<"mov", "si">> /\ switch_to[21] = <<"load", "ax">>
  BY <1>14, <1>15
<1>19. \A k \in 22 .. 36 : switch_to[k] = <<"pop", Popped[k - 21]>>
  BY <1>14, <1>15
<1>20. switch_to[37] = <<"pop", "bp">> /\ switch_to[38] = <<"ret", "ip">>
  BY <1>14, <1>15
<1>21. QED
  BY <1>16, <1>17, <1>18, <1>19, <1>20

\* The registers switch_to pushes, in this order, never the stack pointer.
LEMMA KeptNames ==
  /\ Kept[1] = "bp"
  /\ \A k \in 2 .. 16 : Kept[k] = Pushed[k - 1] /\ Kept[k] \in Regs \ {"bp", "sp"}
  /\ \A k \in 1 .. 15 : Popped[k] = Kept[17 - k]
<1>1. Kept[1] = "bp" /\ \A k \in 2 .. 16 : Kept[k] = Pushed[k - 1]
  BY DEF Kept
<1>2. \A k \in 1 .. 15 : Pushed[k] \in Regs \ {"bp", "sp"}
  BY Names, ElementOfSeq
<1>3. \A k \in 2 .. 16 : Kept[k] \in Regs \ {"bp", "sp"}
  BY <1>1, <1>2
<1>4. \A k \in 1 .. 15 : Popped[k] = Kept[17 - k]
  BY <1>1, Names
<1>5. QED
  BY <1>1, <1>3, <1>4

-----------------------------------------------------------------------------
(***************************************************************************)
(* Steps.                                                                   *)
(***************************************************************************)
LEMMA FirstFrameWords ==
  ASSUME NEW t
  PROVE  /\ Len(FirstFrame(t)) = 18
         /\ FirstFrame(t)[15] = Tsk(t) /\ FirstFrame(t)[17] = Start
         /\ \A k \in 1 .. 18 : FirstFrame(t)[k] \in {Filler, Tsk(t), Start}
<1> DEFINE S == {Filler, Tsk(t), Start}
           A == [k \in 1 .. 14 |-> Filler]
           B == <<Tsk(t), Filler, Start, Filler>>
<1>1. A \in Seq(S) /\ Len(A) = 14 /\ \A k \in 1 .. 14 : A[k] = Filler
  <2>1. A \in [1 .. 14 -> S]
    OBVIOUS
  <2>2. QED
    BY <2>1, SeqDef
<1>2. B \in Seq(S) /\ Len(B) = 4 /\ B[1] = Tsk(t) /\ B[2] = Filler /\ B[3] = Start /\ B[4] = Filler
  <2> DEFINE f == Tsk(t)
             g == Filler
             h == Start
  <2> HIDE DEF f, g, h
  <2>1. <<f, g, h, g>> \in Seq({g, f, h}) /\ Len(<<f, g, h, g>>) = 4
    OBVIOUS
  <2>2. QED
    BY <2>1 DEF f, g, h
<1>3. FirstFrame(t) = A \o B
  BY DEF FirstFrame
<1> HIDE DEF A, B, S
<1> DEFINE F == FirstFrame(t)
<1>4. F = A \o B
  BY <1>3
<1> HIDE DEF F
<1>5. /\ Len(F) = Len(A) + Len(B)
      /\ \A i \in 1 .. Len(A) + Len(B) : F[i] = IF i <= Len(A) THEN A[i] ELSE B[i - Len(A)]
  <2>1. A \in Seq(S) /\ B \in Seq(S)
    BY <1>1, <1>2, Zenon
  <2>2. QED
    BY <1>4, <2>1, Joined
<1>6. /\ Len(A) = 14 /\ Len(B) = 4 /\ B[1] = Tsk(t) /\ B[2] = Filler /\ B[3] = Start /\ B[4] = Filler
      /\ \A k \in 1 .. 14 : A[k] = Filler
  BY <1>1, <1>2, Zenon
<1>7. Len(F) = 18 /\ \A i \in 1 .. 18 : F[i] = IF i <= 14 THEN A[i] ELSE B[i - 14]
  BY <1>5, <1>6
<1>8. F[15] = Tsk(t) /\ F[17] = Start
  BY <1>6, <1>7
<1>9. \A k \in 1 .. 18 : F[k] \in {Filler, Tsk(t), Start}
  <2>1. \A k \in 1 .. 14 : F[k] = Filler
    BY <1>6, <1>7
  <2>2. F[16] = Filler /\ F[18] = Filler
    BY <1>6, <1>7
  <2>3. \A k \in 1 .. 18 : k \in 1 .. 14 \/ k = 15 \/ k = 16 \/ k = 17 \/ k = 18
    OBVIOUS
  <2>4. QED
    BY <1>8, <2>1, <2>2, <2>3
<1>10. QED
  BY <1>7, <1>8, <1>9 DEF F

LEMMA Word ==
  /\ \A t, k : Addr(t, k)[2] = t /\ Addr(t, k)[3] = k
  /\ \A t : Tsk(t)[1] = "tsk" /\ Tsk(t)[2] = t
  /\ \A t \in Tasks, k \in Int : Addr(t, k) \in Words
  /\ \A t \in Tasks : Tsk(t) \in Words /\ Ret(t) \in Words
  /\ Start \in Words /\ Filler \in Words
  /\ \A t \in Tasks, g \in Gens : Local(t, g) \in Words
  /\ \A t \in Tasks, r \in Regs, g \in Gens \cup {0} : Value(t, r, g) \in Words
<1>1. /\ \A t, k : Addr(t, k)[2] = t /\ Addr(t, k)[3] = k
      /\ \A t : Tsk(t)[1] = "tsk" /\ Tsk(t)[2] = t
  BY DEF Addr, Tsk
<1>2. \A x \in Tags, t \in Tasks, g \in Int \cup Gens : <<x, t, g>> \in Words
  BY DEF Words
<1>3. {"addr", "tsk", "ret", "start", "fill", "var"} \subseteq Tags /\ Regs \subseteq Tags
  BY DEF Tags
<1>4. 0 \in Tasks /\ 0 \in Int \cup Gens
  BY SwitchAssumption
<1>5. \A t \in Tasks, k \in Int : Addr(t, k) \in Words
  BY <1>2, <1>3 DEF Addr
<1>6. \A t \in Tasks : Tsk(t) \in Words /\ Ret(t) \in Words
  BY <1>2, <1>3, <1>4 DEF Tsk, Ret
<1>7. Start \in Words /\ Filler \in Words
  BY <1>2, <1>3, <1>4 DEF Start, Filler
<1>8. \A t \in Tasks, g \in Gens : Local(t, g) \in Words
  BY <1>2, <1>3 DEF Local
<1>9. \A t \in Tasks, r \in Regs, g \in Gens \cup {0} : Value(t, r, g) \in Words
  BY <1>2, <1>3, <1>4 DEF Value
<1>10. QED
  BY <1>1, <1>5, <1>6, <1>7, <1>8, <1>9, Zenon

\* Each instruction by its place in switch_to.
LEMMA Steps ==
  ASSUME ip \in 0 .. 38, Instruction
  PROVE  /\ UNCHANGED <<current, made, saved>>
         /\ \/ ip \in (1 .. 17) \ {2} /\ push(Kept[PushedBefore(ip) + 1])
            \/ ip = 2 /\ enter
            \/ ip = 18 /\ mov("di")
            \/ ip = 19 /\ save
            \/ ip = 20 /\ mov("si")
            \/ ip = 21 /\ load
            \/ ip \in 22 .. 36 /\ pop(Popped[ip - 21])
            \/ ip = 37 /\ pop("bp")
            \/ ip = 38 /\ ret
<1> DEFINE i == switch_to[ip]
<1>1. /\ ip > 0 /\ UNCHANGED <<current, made, saved>>
      /\ CASE i[1] = "push"  -> push(i[2])
           [] i[1] = "pop"   -> pop(i[2])
           [] i[1] = "enter" -> enter
           [] i[1] = "mov"   -> mov(i[2])
           [] i[1] = "save"  -> save
           [] i[1] = "load"  -> load
           [] i[1] = "ret"   -> ret
  BY DEF Instruction
<1> HIDE DEF i
<1>2. /\ i[1] = "push"  => push(i[2])
      /\ i[1] = "pop"   => pop(i[2])
      /\ i[1] = "enter" => enter
      /\ i[1] = "mov"   => mov(i[2])
      /\ i[1] = "save"  => save
      /\ i[1] = "load"  => load
      /\ i[1] = "ret"   => ret
  BY <1>1
<1>3. CASE ip = 1
  <2>1. i[1] = "push" /\ i[2] = Kept[PushedBefore(ip) + 1]
    BY <1>3, Code, KeptNames DEF i, PushedBefore
  <2>2. QED
    BY <1>1, <1>2, <1>3, <2>1
<1>4. CASE ip \in 3 .. 17
  <2>1. switch_to[ip] = <<"push", Pushed[ip - 2]>>
    BY <1>4, Code
  <2>2. PushedBefore(ip) + 1 = ip - 1 /\ ip - 1 \in 2 .. 16
    BY <1>4 DEF PushedBefore
  <2>3. Kept[ip - 1] = Pushed[(ip - 1) - 1] /\ (ip - 1) - 1 = ip - 2
    BY <1>4, <2>2, KeptNames
  <2>4. i[1] = "push" /\ i[2] = Kept[PushedBefore(ip) + 1]
    BY <2>1, <2>2, <2>3 DEF i
  <2>5. QED
    BY <1>1, <1>2, <1>4, <2>4
<1>5. CASE ip = 2
  <2>1. i[1] = "enter"
    BY <1>5, Code DEF i
  <2>2. QED
    BY <1>1, <1>2, <1>5, <2>1
<1>6. CASE ip \in {18, 19, 20, 21}
  <2>1. /\ ip = 18 => i[1] = "mov" /\ i[2] = "di"
        /\ ip = 19 => i[1] = "save"
        /\ ip = 20 => i[1] = "mov" /\ i[2] = "si"
        /\ ip = 21 => i[1] = "load"
    BY Code DEF i
  <2>2. QED
    BY <1>1, <1>2, <1>6, <2>1
<1>7. CASE ip \in 22 .. 36
  <2>1. switch_to[ip] = <<"pop", Popped[ip - 21]>>
    BY <1>7, Code
  <2>2. i[1] = "pop" /\ i[2] = Popped[ip - 21]
    BY <2>1 DEF i
  <2>3. QED
    BY <1>1, <1>2, <1>7, <2>2
<1>8. CASE ip \in {37, 38}
  <2>1. /\ ip = 37 => i[1] = "pop" /\ i[2] = "bp"
        /\ ip = 38 => i[1] = "ret"
    BY Code DEF i
  <2>2. QED
    BY <1>1, <1>2, <1>8, <2>1
<1>9. QED
  BY <1>1, <1>3, <1>4, <1>5, <1>6, <1>7, <1>8

\* Who does not run keeps its stack.
LEMMA ParkedKept ==
  ASSUME NEW t, Parked(t), stack'[t] = stack[t], esp'[t] = esp[t], saved'[t] = saved[t]
  PROVE  Parked(t)'
BY DEF Parked, Frame, Above

LEMMA OthersKept ==
  ASSUME OthersParked, UNCHANGED <<made, saved>>, Running' = Running,
         \A t \in made \ {Running} : stack'[t] = stack[t] /\ esp'[t] = esp[t]
  PROVE  OthersParked'
<1>1. SUFFICES ASSUME NEW t \in made, t # Running
               PROVE  Parked(t)'
  BY DEF OthersParked
<1>2. QED
  BY <1>1, ParkedKept DEF OthersParked

LEMMA DeparturesKept ==
  ASSUME Departures, UNCHANGED <<made, saved>>
  PROVE  Departures'
BY DEF Departures

LEMMA SInitInv == SInit => SwInv
<1> SUFFICES ASSUME SInit
             PROVE  SwInv
  OBVIOUS
<1> USE DEF SInit
<1>1. "sp" \in Regs /\ reg["sp"] = Addr(0, STACK_SIZE)
  BY Names
<1>2. Running = 0 /\ Depth = STACK_SIZE
  BY <1>1, Word DEF Running, Depth
<1>3. SwTypes
  <2>1. reg \in [Regs -> Words]
    <3>1. Addr(0, STACK_SIZE) \in Words /\ \A r \in Regs : Value(0, r, 0) \in Words
      BY Word, SwitchAssumption
    <3>2. QED
      BY <3>1
  <2>2. stack \in [Tasks -> [Cells -> Words]] /\ esp \in [Tasks -> Words]
    <3>1. [k \in Cells |-> Filler] \in [Cells -> Words]
      BY Word
    <3>2. stack = [t \in Tasks |-> [k \in Cells |-> Filler]]
      BY DEF Cells
    <3>3. QED
      BY <3>1, <3>2, Word
  <2>3. saved \in [Tasks -> SUBSET [reg : [Regs -> Words], stack : [Cells -> Words]]]
    OBVIOUS
  <2>4. /\ current \in made /\ made \subseteq Tasks /\ ip \in 0 .. 38
        /\ Running \in made /\ Depth \in 0 .. STACK_SIZE /\ reg["sp"] = Addr(Running, Depth)
    BY <1>1, <1>2, SwitchAssumption
  <2>5. QED
    BY <2>1, <2>2, <2>3, <2>4 DEF SwTypes
<1>4. Departures
  BY DEF Departures
<1>5. OthersParked
  BY <1>2 DEF OthersParked
<1>6. Leaving /\ Entering /\ InProgram
  BY <1>2 DEF Leaving, Entering, InProgram
<1>7. QED
  BY <1>3, <1>4, <1>5, <1>6 DEF SwInv

LEMMA CreateStep ==
  ASSUME SwInv, NEW t \in Tasks, co_create(t)
  PROVE  SwInv'
<1> DEFINE base == STACK_SIZE - 18
           frame == [k \in Cells |-> IF k >= base THEN FirstFrame(t)[k - base + 1] ELSE Filler]
<1>1. /\ ip = 0 /\ t \notin made
      /\ made' = made \cup {t}
      /\ esp' = [esp EXCEPT ![t] = Addr(t, base)]
      /\ stack' = [stack EXCEPT ![t] = frame]
      /\ UNCHANGED <<reg, current, ip, saved>>
  BY FirstFrameWords DEF co_create, Cells
<1>2. /\ STACK_SIZE \in Nat /\ STACK_SIZE >= 20
      /\ base \in Cells /\ base + 14 \in Cells /\ base + 16 \in Cells
      /\ base \in 0 .. STACK_SIZE - 17
  BY SwitchAssumption DEF Cells
<1>3. frame[base + 14] = Tsk(t) /\ frame[base + 16] = Start
  <2>1. /\ frame[base + 14] = FirstFrame(t)[(base + 14) - base + 1]
        /\ frame[base + 16] = FirstFrame(t)[(base + 16) - base + 1]
    BY <1>2
  <2>2. (base + 14) - base + 1 = 15 /\ (base + 16) - base + 1 = 17
    BY <1>2
  <2>3. QED
    BY <2>1, <2>2, FirstFrameWords
<1>4. frame \in [Cells -> Words]
  <2>1. ASSUME NEW k \in Cells
        PROVE  frame[k] \in Words
    <3>1. CASE k >= base
      <4>1. k - base + 1 \in 1 .. 18
        BY <1>2, <2>1, <3>1 DEF Cells
      <4>2. FirstFrame(t)[k - base + 1] \in Words
        BY <4>1, FirstFrameWords, Word
      <4>3. QED
        BY <2>1, <3>1, <4>2
    <3>2. CASE ~(k >= base)
      BY <2>1, <3>2, Word
    <3>3. QED
      BY <3>1, <3>2
  <2>2. QED
    BY <2>1
<1> HIDE DEF frame, base
<1>5. /\ reg \in [Regs -> Words] /\ stack \in [Tasks -> [Cells -> Words]]
      /\ esp \in [Tasks -> Words] /\ current \in made /\ made \subseteq Tasks
      /\ Running \in made /\ Depth \in 0 .. STACK_SIZE /\ reg["sp"] = Addr(Running, Depth)
      /\ saved \in [Tasks -> SUBSET [reg : [Regs -> Words], stack : [Cells -> Words]]]
  BY DEF SwInv, SwTypes
<1>6. Running' = Running /\ Depth' = Depth
  BY <1>1 DEF Running, Depth
<1>7. Addr(t, base) \in Words
  BY <1>2, Word DEF Cells
<1>8. SwTypes'
  <2>1. stack' \in [Tasks -> [Cells -> Words]] /\ esp' \in [Tasks -> Words]
    BY <1>1, <1>4, <1>5, <1>7
  <2>2. current' \in made' /\ made' \subseteq Tasks /\ ip' \in 0 .. 38 /\ Running' \in made'
    BY <1>1, <1>5, <1>6
  <2>3. reg' \in [Regs -> Words] /\ saved' \in [Tasks -> SUBSET [reg : [Regs -> Words], stack : [Cells -> Words]]]
    BY <1>1, <1>5
  <2>4. Depth' \in 0 .. STACK_SIZE /\ (reg["sp"] = Addr(Running, Depth))'
    BY <1>1, <1>5, <1>6
  <2>5. QED
    BY <2>1, <2>2, <2>3, <2>4 DEF SwTypes
<1>9. saved[t] = {}
  BY <1>1 DEF SwInv, Departures
<1>10. Departures'
  BY <1>1 DEF SwInv, Departures
<1>11. OthersParked'
  <2>1. Parked(t)'
    <3>1. esp'[t] = Addr(t, base) /\ stack'[t] = frame /\ saved'[t] = {}
      BY <1>1, <1>5, <1>9
    <3>2. Frame(t, base, 0)'
      BY <1>2, <1>3, <3>1 DEF Frame, base
    <3>3. QED
      BY <1>2, <3>1, <3>2 DEF Parked
  <2>2. ASSUME NEW u \in made, u # Running
        PROVE  Parked(u)'
    <3>1. stack'[u] = stack[u] /\ esp'[u] = esp[u] /\ saved'[u] = saved[u]
      BY <1>1, <1>5, <2>2
    <3>2. Parked(u)
      BY <2>2 DEF SwInv, OthersParked
    <3>3. QED
      BY <3>1, <3>2, ParkedKept
  <2>3. QED
    BY <1>1, <1>6, <2>1, <2>2 DEF OthersParked
<1>12. Leaving' /\ Entering'
  BY <1>1 DEF Leaving, Entering
<1>13. InProgram'
  BY <1>1, <1>6 DEF SwInv, InProgram
<1>14. QED
  BY <1>8, <1>10, <1>11, <1>12, <1>13 DEF SwInv

LEMMA CallStep ==
  ASSUME SwInv, NEW next \in Tasks, NEW g \in Gens, NEW depth \in Depths,
         co_switch_to(next, g, depth)
  PROVE  SwInv'
<1> DEFINE t    == current
           base == STACK_SIZE - depth
           sp   == base - 1
           r0   == [r \in Regs |-> CASE r = "sp" -> Addr(t, sp)
                                     [] r = "di" -> Tsk(t)
                                     [] r = "si" -> Tsk(next)
                                     [] OTHER -> Value(t, r, g)]
           s0   == [k \in 0 .. STACK_SIZE - 1 |->
                      IF k >= base THEN Local(t, g)
                      ELSE IF k = sp THEN Ret(t)
                      ELSE stack[t][k]]
           s    == [reg |-> r0, stack |-> s0]
<1>1. /\ ip = 0 /\ next \in made \ {t}
      /\ reg' = r0
      /\ stack' = [stack EXCEPT ![t] = s0]
      /\ saved' = [saved EXCEPT ![t] = {s}]
      /\ current' = next
      /\ ip' = 1
      /\ UNCHANGED <<esp, made>>
  BY DEF co_switch_to
<1>2. /\ STACK_SIZE \in Nat /\ base \in 20 .. STACK_SIZE /\ sp \in 19 .. STACK_SIZE - 1 /\ sp \in Cells
      /\ sp \in Int
  <2>1. STACK_SIZE \in Nat /\ depth \in 0 .. STACK_SIZE - 20 /\ STACK_SIZE >= 20
    BY SwitchAssumption
  <2>2. QED
    BY <2>1 DEF Cells
<1>3. /\ r0["sp"] = Addr(t, sp) /\ r0["di"] = Tsk(t) /\ r0["si"] = Tsk(next)
  BY Names
<1>4. s0[sp] = Ret(t)
  BY <1>2
<1>5. t \in Tasks /\ t \in made /\ made \subseteq Tasks
  BY DEF SwInv, SwTypes
<1>6. r0 \in [Regs -> Words]
  <2>1. /\ Addr(t, sp) \in Words /\ Tsk(t) \in Words /\ Tsk(next) \in Words
        /\ \A r \in Regs : Value(t, r, g) \in Words
    <3>1. g \in Gens \cup {0}
      OBVIOUS
    <3> HIDE DEF t, sp
    <3>2. QED
      BY <1>2, <1>5, <3>1, Word
  <2> HIDE DEF t, sp
  <2>2. QED
    BY <2>1
<1>7. s0 \in [Cells -> Words]
  <2>1. Local(t, g) \in Words /\ Ret(t) \in Words
    BY <1>5, Word
  <2>2. stack[t] \in [Cells -> Words]
    BY <1>5 DEF SwInv, SwTypes
  <2> HIDE DEF t, base, sp
  <2>3. QED
    BY <2>1, <2>2 DEF Cells
<1>8. s.reg = r0 /\ s.stack = s0 /\ s \in [reg : [Regs -> Words], stack : [Cells -> Words]]
  BY <1>6, <1>7
<1> HIDE DEF r0, s0, s, base
<1>9. Sp(s) = sp
  BY <1>3, <1>8, Word DEF Sp
<1>10. Running' = t /\ Depth' = sp
  BY <1>1, <1>3, Word DEF Running, Depth
<1>11. stack'[t] = s0 /\ saved'[t] = {s}
  BY <1>1, <1>5 DEF SwInv, SwTypes
<1>12. \A u \in Tasks \ {t} : stack'[u] = stack[u] /\ saved'[u] = saved[u] /\ esp'[u] = esp[u]
  BY <1>1, <1>5 DEF SwInv, SwTypes
<1> HIDE DEF sp
<1>13. SwTypes'
  <2>1. reg' \in [Regs -> Words]
    BY <1>1, <1>6
  <2>2. stack' \in [Tasks -> [Cells -> Words]]
    BY <1>1, <1>7 DEF SwInv, SwTypes
  <2>3. esp' \in [Tasks -> Words]
    BY <1>1 DEF SwInv, SwTypes
  <2>4. saved' \in [Tasks -> SUBSET [reg : [Regs -> Words], stack : [Cells -> Words]]]
    <3> DEFINE R == [reg : [Regs -> Words], stack : [Cells -> Words]]
    <3>1. s \in R /\ saved \in [Tasks -> SUBSET R]
      BY <1>8 DEF SwInv, SwTypes
    <3> HIDE DEF R
    <3>2. saved' \in [Tasks -> SUBSET R]
      BY <1>1, <3>1
    <3>3. QED
      BY <3>2 DEF R
  <2>5. current' \in made' /\ made' \subseteq Tasks /\ ip' \in 0 .. 38 /\ Running' \in made'
    BY <1>1, <1>5, <1>10
  <2>6. Depth' \in 0 .. STACK_SIZE /\ (reg["sp"] = Addr(Running, Depth))'
    BY <1>1, <1>2, <1>3, <1>10
  <2>7. QED
    BY <2>1, <2>2, <2>3, <2>4, <2>5, <2>6 DEF SwTypes
<1>14. Departures'
  <2>1. SUFFICES ASSUME NEW u \in Tasks
                 PROVE  /\ u \notin made => saved'[u] = {}
                        /\ \A x \in saved'[u] : Sp(x) \in 16 .. STACK_SIZE - 1 /\ x.stack[Sp(x)] = Ret(u)
    BY <1>1 DEF Departures
  <2>2. CASE u = t
    BY <1>2, <1>4, <1>5, <1>8, <1>9, <1>11, <2>2
  <2>3. CASE u # t
    BY <1>12, <2>3 DEF SwInv, Departures
  <2>4. QED
    BY <2>2, <2>3
<1>15. OthersParked'
  <2>1. SUFFICES ASSUME NEW u \in made, u # t
                 PROVE  Parked(u)'
    BY <1>1, <1>10 DEF OthersParked
  <2>2. Running = t
    BY <1>1 DEF SwInv, InProgram
  <2>3. Parked(u)
    BY <2>1, <2>2 DEF SwInv, OthersParked
  <2>4. QED
    BY <1>5, <1>12, <2>1, <2>3, ParkedKept
<1>16. Leaving'
  <2>1. Running' # current' /\ saved'[Running'] # {}
    BY <1>1, <1>10, <1>11
  <2>2. PushedBefore(ip') = 0
    BY <1>1 DEF PushedBefore
  <2>3. ASSUME NEW x \in saved'[Running']
        PROVE  /\ Depth' = Sp(x) - PushedBefore(ip')
               /\ Below(Running, x, PushedBefore(ip))' /\ Above(Running, x)'
               /\ x.reg["di"] = Tsk(Running') /\ x.reg["si"] = Tsk(current')
               /\ \A r \in Regs : reg'[r] = x.reg[r]
    <3>1. x = s
      BY <1>10, <1>11, <2>3
    <3>2. Depth' = Sp(x) - PushedBefore(ip')
      BY <1>2, <1>9, <1>10, <2>2, <3>1
    <3>3. Below(Running, x, PushedBefore(ip))'
      BY <2>2 DEF Below
    <3>4. Above(Running, x)'
      BY <1>8, <1>10, <1>11, <3>1 DEF Above
    <3>5. /\ x.reg["di"] = Tsk(Running') /\ x.reg["si"] = Tsk(current')
          /\ \A r \in Regs : reg'[r] = x.reg[r]
      BY <1>1, <1>3, <1>8, <1>10, <3>1
    <3>6. QED
      BY <3>2, <3>3, <3>4, <3>5
  <2>4. QED
    BY <1>1, <2>1, <2>3, Names DEF Leaving
<1>17. Entering' /\ InProgram'
  BY <1>1 DEF Entering, InProgram
<1>18. QED
  BY <1>13, <1>14, <1>15, <1>16, <1>17 DEF SwInv

LEMMA PushStep ==
  ASSUME SwInv, ip \in (1 .. 17) \ {2}, push(Kept[PushedBefore(ip) + 1]),
         UNCHANGED <<current, made, saved>>
  PROVE  SwInv'
<1> DEFINE t == Running
           m == PushedBefore(ip)
           d == Depth - 1
<1>1. /\ m \in 0 .. 15 /\ (ip = 1 => m = 0) /\ (ip # 1 => m >= 1)
      /\ PushedBefore(ip + 1) = m + 1 /\ ip + 1 \in 2 .. 18
  BY DEF PushedBefore
<1>2. /\ t # current /\ saved[t] # {} /\ t \in Tasks /\ t \in made
      /\ \A s \in saved[t] :
           /\ Sp(s) \in 16 .. STACK_SIZE - 1
           /\ Depth = Sp(s) - m
           /\ Below(t, s, m) /\ Above(t, s)
           /\ s.reg["di"] = Tsk(t) /\ s.reg["si"] = Tsk(current)
           /\ \A r \in Regs \ {"sp", "bp"} : reg[r] = s.reg[r]
           /\ ip = 1 => reg["bp"] = s.reg["bp"]
  <2>1. t \in Tasks /\ t \in made
    BY DEF SwInv, SwTypes
  <2>2. \A s \in saved[t] : Sp(s) \in 16 .. STACK_SIZE - 1
    BY <2>1 DEF SwInv, Departures
  <2>3. ip \in 1 .. 21 /\ ip <= 18
    OBVIOUS
  <2>4. QED
    BY <2>1, <2>2, <2>3 DEF SwInv, Leaving
<1>3. d \in Cells /\ STACK_SIZE \in Nat
  BY <1>1, <1>2, SwitchAssumption DEF Cells
<1>4. Kept[m + 1] \in Regs \ {"sp"} /\ \A s \in saved[t] : reg[Kept[m + 1]] = s.reg[Kept[m + 1]]
  <2>1. CASE ip = 1
    BY <1>1, <1>2, <2>1, KeptNames, Names
  <2>2. CASE ip # 1
    <3>1. m + 1 \in 2 .. 16
      BY <1>1, <2>2
    <3>2. Kept[m + 1] \in Regs \ {"bp", "sp"}
      BY <3>1, KeptNames
    <3>3. QED
      BY <1>2, <3>2
  <2>3. QED
    BY <2>1, <2>2
<1>5. /\ stack' = [stack EXCEPT ![t][d] = reg[Kept[m + 1]]]
      /\ reg' = [reg EXCEPT !["sp"] = Addr(t, d)]
      /\ ip' = ip + 1 /\ esp' = esp /\ current' = current /\ made' = made /\ saved' = saved
  BY DEF push
<1> HIDE DEF t, d, m
<1>6. Running' = t /\ Depth' = d /\ reg'["sp"] = Addr(t, d)
  <2>1. reg'["sp"] = Addr(t, d)
    BY <1>5, Names DEF SwInv, SwTypes
  <2>2. QED
    BY <2>1, Word DEF Running, Depth
<1>7. /\ stack'[t][d] = reg[Kept[m + 1]]
      /\ \A k \in Cells \ {d} : stack'[t][k] = stack[t][k]
      /\ \A u \in Tasks \ {t} : stack'[u] = stack[u]
  BY <1>2, <1>3, <1>5 DEF SwInv, SwTypes
<1>8. \A r \in Regs \ {"sp"} : reg'[r] = reg[r]
  BY <1>5 DEF SwInv, SwTypes
<1>9. SwTypes'
  <2>1. Addr(t, d) \in Words /\ reg[Kept[m + 1]] \in Words
    BY <1>2, <1>3, <1>4, Word DEF Cells, SwInv, SwTypes
  <2>2. reg' \in [Regs -> Words]
    BY <1>5, <2>1 DEF SwInv, SwTypes
  <2>3. stack' \in [Tasks -> [Cells -> Words]]
    BY <1>2, <1>3, <1>5, <2>1 DEF SwInv, SwTypes
  <2>4. ip' \in 0 .. 38
    BY <1>1, <1>5
  <2>5. Depth' \in 0 .. STACK_SIZE /\ Running' \in made' /\ (reg["sp"] = Addr(Running, Depth))'
    BY <1>2, <1>3, <1>5, <1>6 DEF Cells
  <2>6. QED
    BY <1>5, <2>2, <2>3, <2>4, <2>5 DEF SwInv, SwTypes
<1>10. Departures'
  BY <1>5, DeparturesKept DEF SwInv
<1>11. OthersParked'
  <2>1. Running' = Running
    BY <1>6 DEF t
  <2>2. \A u \in made \ {Running} : stack'[u] = stack[u] /\ esp'[u] = esp[u]
    BY <1>5, <1>7 DEF t, SwInv, SwTypes
  <2>3. QED
    BY <1>5, <2>1, <2>2, OthersKept DEF SwInv
<1>12. Leaving'
  <2>1. ASSUME NEW s \in saved[t]
        PROVE  /\ d = Sp(s) - (m + 1)
               /\ \A k \in 1 .. m + 1 : stack'[t][Sp(s) - k] = s.reg[Kept[k]]
               /\ \A k \in Sp(s) .. STACK_SIZE - 1 : stack'[t][k] = s.stack[k]
    <3>1. d = Sp(s) - (m + 1)
      BY <1>1, <1>2 DEF d
    <3>2. ASSUME NEW k \in 1 .. m + 1
          PROVE  stack'[t][Sp(s) - k] = s.reg[Kept[k]]
      <4>1. Sp(s) \in Int /\ m \in Int
        BY <1>1, <1>2
      <4>2. CASE k = m + 1
        <5>1. Sp(s) - k = d
          BY <3>1, <4>1, <4>2
        <5>2. QED
          BY <1>4, <1>7, <4>2, <5>1
      <4>3. CASE k # m + 1
        <5>1. k \in 1 .. m /\ Sp(s) - k \in Cells \ {d}
          BY <1>1, <1>2, <3>1, <4>3, SwitchAssumption DEF Cells
        <5>2. stack[t][Sp(s) - k] = s.reg[Kept[k]]
          BY <1>2, <5>1 DEF Below
        <5>3. QED
          BY <1>7, <5>1, <5>2
      <4>4. QED
        BY <4>2, <4>3
    <3>3. \A k \in Sp(s) .. STACK_SIZE - 1 : stack'[t][k] = s.stack[k]
      <4>1. \A k \in Sp(s) .. STACK_SIZE - 1 : k \in Cells \ {d}
        BY <1>1, <1>2, <3>1, SwitchAssumption DEF Cells
      <4>2. QED
        BY <1>2, <1>7, <4>1 DEF Above
    <3>4. QED
      BY <3>1, <3>2, <3>3
  <2>2. ip' \in 2 .. 18 /\ PushedBefore(ip') = m + 1
    BY <1>1, <1>5
  <2>3. \A s \in saved[t] : \A r \in Regs \ {"sp", "bp"} : reg'[r] = s.reg[r]
    BY <1>2, <1>8
  <2>4. ASSUME NEW s \in saved[t]
        PROVE  Below(Running, s, PushedBefore(ip))' /\ Above(Running, s)'
    BY <1>6, <2>1, <2>2 DEF Below, Above
  <2>5. "ax" \in Regs \ {"sp", "bp"}
    BY Names
  <2>6. \A s \in saved'[Running'] :
          /\ Depth' = Sp(s) - PushedBefore(ip')
          /\ Below(Running, s, PushedBefore(ip))' /\ Above(Running, s)'
          /\ s.reg["di"] = Tsk(Running') /\ s.reg["si"] = Tsk(current')
          /\ \A r \in Regs \ {"sp", "bp"} : reg'[r] = s.reg[r]
    BY <1>2, <1>5, <1>6, <2>1, <2>2, <2>3, <2>4
  <2>7. Running' # current' /\ saved'[Running'] # {}
    BY <1>2, <1>5, <1>6
  <2>8. QED
    BY <2>2, <2>5, <2>6, <2>7 DEF Leaving
<1>13. Entering' /\ InProgram'
  BY <1>1, <1>5 DEF Entering, InProgram
<1>14. QED
  BY <1>9, <1>10, <1>11, <1>12, <1>13 DEF SwInv

\* The instructions on the old stack that push nothing.
LEMMA StillStep ==
  ASSUME SwInv, ip \in {2, 18, 19, 20},
         \/ ip = 2 /\ enter
         \/ ip = 18 /\ mov("di")
         \/ ip = 19 /\ save
         \/ ip = 20 /\ mov("si"),
         UNCHANGED <<current, made, saved>>
  PROVE  SwInv'
<1>1. /\ reg \in [Regs -> Words] /\ esp \in [Tasks -> Words]
      /\ Running \in made /\ Running \in Tasks /\ current \in Tasks /\ current \in made
      /\ Depth \in 0 .. STACK_SIZE /\ reg["sp"] = Addr(Running, Depth)
      /\ {"sp", "bp", "ax", "di", "si"} \subseteq Regs
  BY Names DEF SwInv, SwTypes
<1>2. /\ Running # current /\ saved[Running] # {}
      /\ \A s \in saved[Running] :
           /\ Depth = Sp(s) - PushedBefore(ip)
           /\ Below(Running, s, PushedBefore(ip)) /\ Above(Running, s)
           /\ s.reg["di"] = Tsk(Running) /\ s.reg["si"] = Tsk(current)
           /\ \A r \in Regs \ {"sp", "bp", "ax"} : reg[r] = s.reg[r]
           /\ ip <= 18 => reg["ax"] = s.reg["ax"]
      /\ ip = 19 => reg["ax"] = Tsk(Running)
      /\ ip = 20 => esp[Running] = Addr(Running, Depth)
  <2>1. ip \in 1 .. 21 /\ ip # 1
    OBVIOUS
  <2>2. QED
    BY <2>1 DEF SwInv, Leaving
<1>3. /\ ip' = ip + 1 /\ stack' = stack /\ current' = current /\ made' = made /\ saved' = saved
      /\ PushedBefore(ip + 1) = PushedBefore(ip)
  BY DEF enter, mov, save, PushedBefore
<1>4. /\ reg' \in [Regs -> Words]
      /\ \A r \in Regs \ {"bp", "ax"} : reg'[r] = reg[r]
      /\ ip = 2 => reg'["ax"] = reg["ax"]
  <2>1. CASE ip = 2
    <3>1. reg' = [reg EXCEPT !["bp"] = reg["sp"]]
      BY <2>1 DEF enter
    <3>2. QED
      BY <1>1, <3>1, <2>1
  <2>2. CASE ip \in {18, 20}
    <3>1. reg' = [reg EXCEPT !["ax"] = reg["di"]] \/ reg' = [reg EXCEPT !["ax"] = reg["si"]]
      BY <2>2 DEF mov
    <3>2. QED
      BY <1>1, <3>1, <2>2
  <2>3. CASE ip = 19
    BY <1>1, <2>3 DEF save
  <2>4. QED
    BY <2>1, <2>2, <2>3
<1>5. /\ \A u \in Tasks \ {Running} : esp'[u] = esp[u]
      /\ ip \in {19, 20} => esp'[Running] = Addr(Running, Depth)
      /\ esp' \in [Tasks -> Words]
  <2>1. CASE ip = 19
    <3>1. reg["ax"][2] = Running
      BY <1>2, <2>1, Word
    <3>2. esp' = [esp EXCEPT ![Running] = reg["sp"]]
      BY <2>1, <3>1 DEF save
    <3>3. reg["sp"] \in Words
      BY <1>1
    <3>4. QED
      BY <1>1, <2>1, <3>2, <3>3
  <2>2. CASE ip # 19
    <3>1. esp' = esp
      BY <2>2 DEF enter, mov
    <3>2. QED
      BY <1>1, <1>2, <2>2, <3>1
  <2>3. QED
    BY <2>1, <2>2
<1>6. Running' = Running /\ Depth' = Depth /\ reg'["sp"] = reg["sp"]
  BY <1>1, <1>4 DEF Running, Depth
<1>7. SwTypes'
  BY <1>1, <1>3, <1>4, <1>5, <1>6 DEF SwInv, SwTypes
<1>8. Departures'
  BY <1>3, DeparturesKept DEF SwInv
<1>9. OthersParked'
  <2>1. \A u \in made \ {Running} : stack'[u] = stack[u] /\ esp'[u] = esp[u]
    BY <1>3, <1>5 DEF SwInv, SwTypes
  <2>2. QED
    BY <1>3, <1>6, <2>1, OthersKept DEF SwInv
<1>10. Leaving'
  <2>1. \A s \in saved[Running] :
          /\ Below(Running, s, PushedBefore(ip)) <=> Below(Running, s, PushedBefore(ip))'
          /\ Above(Running, s) <=> Above(Running, s)'
    BY <1>3, <1>6 DEF Below, Above
  <2>2. \A s \in saved'[Running'] :
          /\ Depth' = Sp(s) - PushedBefore(ip')
          /\ Below(Running, s, PushedBefore(ip))' /\ Above(Running, s)'
          /\ s.reg["di"] = Tsk(Running') /\ s.reg["si"] = Tsk(current')
          /\ \A r \in Regs \ {"sp", "bp", "ax"} : reg'[r] = s.reg[r]
          /\ ip' <= 18 => reg'["ax"] = s.reg["ax"]
    <3>1. SUFFICES ASSUME NEW s \in saved[Running]
                   PROVE  /\ Depth' = Sp(s) - PushedBefore(ip')
                          /\ Below(Running, s, PushedBefore(ip))' /\ Above(Running, s)'
                          /\ s.reg["di"] = Tsk(Running') /\ s.reg["si"] = Tsk(current')
                          /\ \A r \in Regs \ {"sp", "bp", "ax"} : reg'[r] = s.reg[r]
                          /\ ip' <= 18 => reg'["ax"] = s.reg["ax"]
      BY <1>3, <1>6
    <3>2. Depth' = Sp(s) - PushedBefore(ip')
      BY <1>2, <1>3, <1>6
    <3>3. Below(Running, s, PushedBefore(ip))' /\ Above(Running, s)'
      <4>1. PushedBefore(ip') = PushedBefore(ip)
        BY <1>3
      <4>2. Below(Running, s, PushedBefore(ip)) /\ Above(Running, s)
        BY <1>2
      <4>3. QED
        BY <1>3, <1>6, <4>1, <4>2 DEF Below, Above
    <3>4. s.reg["di"] = Tsk(Running') /\ s.reg["si"] = Tsk(current')
      BY <1>2, <1>3, <1>6
    <3>5. \A r \in Regs \ {"sp", "bp", "ax"} : reg'[r] = s.reg[r]
      BY <1>2, <1>4
    <3>6. ip' <= 18 => ip = 2
      BY <1>3
    <3>7. QED
      BY <1>2, <1>4, <3>2, <3>3, <3>4, <3>5, <3>6
  <2>3. PICK s \in saved[Running] : TRUE
    BY <1>2
  <2>4. ip' = 19 => reg'["ax"] = Tsk(Running')
    <3>1. ASSUME ip' = 19
          PROVE  reg'["ax"] = Tsk(Running')
      <4>1. ip = 18
        BY <1>3, <3>1
      <4>2. reg'["ax"] = reg["di"]
        BY <1>1, <4>1 DEF mov
      <4>3. reg["di"] = Tsk(Running)
        BY <1>1, <1>2, <2>3
      <4>4. QED
        BY <1>6, <4>2, <4>3
    <3>2. QED
      BY <3>1
  <2>5. ip' = 21 => reg'["ax"] = Tsk(current')
    <3>1. ASSUME ip' = 21
          PROVE  reg'["ax"] = Tsk(current')
      <4>1. ip = 20
        BY <1>3, <3>1
      <4>2. reg'["ax"] = reg["si"]
        BY <1>1, <4>1 DEF mov
      <4>3. reg["si"] = Tsk(current)
        BY <1>1, <1>2, <2>3
      <4>4. QED
        BY <1>3, <4>2, <4>3
    <3>2. QED
      BY <3>1
  <2>6. /\ ip' \in {20, 21} => esp'[Running'] = Addr(Running', Depth')
        /\ ip' # 1
        /\ Running' # current' /\ saved'[Running'] # {}
    BY <1>2, <1>3, <1>5, <1>6
  <2>7. QED
    BY <2>2, <2>4, <2>5, <2>6 DEF Leaving
<1>11. Entering' /\ InProgram'
  BY <1>3 DEF Entering, InProgram
<1>12. QED
  BY <1>7, <1>8, <1>9, <1>10, <1>11 DEF SwInv

\* What switch_to has pushed is a frame that it can pop.
LEMMA PushedIsFrame ==
  ASSUME NEW t \in Tasks, saved[t] # {}, NEW d \in Int,
         \A s \in saved[t] :
           /\ Sp(s) \in 16 .. STACK_SIZE - 1 /\ d = Sp(s) - 16
           /\ Below(t, s, 16) /\ Above(t, s)
  PROVE  Frame(t, d, 0)
<1>1. STACK_SIZE \in Nat
  BY SwitchAssumption
<1>2. d \in 0 .. STACK_SIZE - 17
  BY <1>1
<1>3. ASSUME NEW s \in saved[t]
      PROVE  /\ \A k \in 1 .. 15 : stack[t][d + k - 1] = s.reg[Popped[k]]
             /\ stack[t][d + 15] = s.reg["bp"]
  <2>1. Sp(s) \in Int /\ d = Sp(s) - 16
    BY <1>3
  <2>2. ASSUME NEW k \in 1 .. 15
        PROVE  stack[t][d + k - 1] = s.reg[Popped[k]]
    <3>1. 17 - k \in 1 .. 16 /\ Sp(s) - (17 - k) = d + k - 1
      BY <2>1
    <3>2. stack[t][Sp(s) - (17 - k)] = s.reg[Kept[17 - k]]
      BY <1>3, <3>1 DEF Below
    <3>3. QED
      BY <3>1, <3>2, KeptNames
  <2>3. stack[t][d + 15] = s.reg["bp"]
    <3>1. stack[t][Sp(s) - 1] = s.reg[Kept[1]] /\ Sp(s) - 1 = d + 15
      BY <1>3, <2>1 DEF Below
    <3>2. QED
      BY <3>1, KeptNames
  <2>4. QED
    BY <2>2, <2>3
<1>4. QED
  BY <1>2, <1>3 DEF Frame

LEMMA LoadStep ==
  ASSUME SwInv, ip = 21, load, UNCHANGED <<current, made, saved>>
  PROVE  SwInv'
<1>1. /\ reg \in [Regs -> Words] /\ esp \in [Tasks -> Words]
      /\ Running \in made /\ Running \in Tasks /\ current \in Tasks /\ current \in made
      /\ Depth \in 0 .. STACK_SIZE /\ "sp" \in Regs
  BY Names DEF SwInv, SwTypes
<1>2. /\ Running # current /\ saved[Running] # {}
      /\ \A s \in saved[Running] :
           Depth = Sp(s) - 16 /\ Below(Running, s, 16) /\ Above(Running, s)
      /\ esp[Running] = Addr(Running, Depth)
      /\ reg["ax"] = Tsk(current)
  <2>1. ip \in 1 .. 21 /\ ip \in {20, 21} /\ PushedBefore(ip) = 16
    BY DEF PushedBefore
  <2>2. QED
    BY <2>1 DEF SwInv, Leaving
<1>3. PICK d \in Cells : esp[current] = Addr(current, d) /\ Frame(current, d, 0)
  BY <1>1, <1>2 DEF SwInv, OthersParked, Parked
<1>4. /\ reg' = [reg EXCEPT !["sp"] = Addr(current, d)] /\ ip' = 22
      /\ stack' = stack /\ esp' = esp /\ current' = current /\ made' = made /\ saved' = saved
  BY <1>2, <1>3, Word DEF load
<1>5. reg'["sp"] = Addr(current, d) /\ Running' = current /\ Depth' = d
  BY <1>1, <1>4, Word DEF Running, Depth
<1>6. SwTypes'
  <2>1. Addr(current, d) \in Words /\ d \in 0 .. STACK_SIZE
    BY <1>1, Word, SwitchAssumption DEF Cells
  <2>2. reg' \in [Regs -> Words]
    BY <1>1, <1>4, <2>1
  <2>3. QED
    BY <1>1, <1>4, <1>5, <2>1, <2>2 DEF SwInv, SwTypes
<1>7. Departures'
  BY <1>4, DeparturesKept DEF SwInv
<1>8. OthersParked'
  <2>1. Parked(Running)
    <3>1. \A s \in saved[Running] : Sp(s) \in 16 .. STACK_SIZE - 1
      BY <1>1 DEF SwInv, Departures
    <3>2. Frame(Running, Depth, 0)
      BY <1>1, <1>2, <3>1, PushedIsFrame
    <3>3. Depth \in Cells
      BY <3>2, SwitchAssumption DEF Frame, Cells
    <3>4. QED
      BY <1>2, <3>2, <3>3 DEF Parked
  <2>2. SUFFICES ASSUME NEW u \in made, u # current
                 PROVE  Parked(u)'
    BY <1>4, <1>5 DEF OthersParked
  <2>3. Parked(u)
    BY <2>1, <2>2 DEF SwInv, OthersParked
  <2>4. QED
    BY <1>4, <2>3, ParkedKept
<1>9. Leaving' /\ InProgram'
  BY <1>4 DEF Leaving, InProgram
<1>10. Entering'
  <2>1. ip' - 22 = 0 /\ Depth' - (ip' - 22) = d
    BY <1>4, <1>5 DEF Cells
  <2>2. Frame(current, d, 0)'
    BY <1>3, <1>4 DEF Frame, Above
  <2>3. Frame(current, Depth - (ip - 22), ip - 22)'
    BY <2>1, <2>2
  <2>4. Regained(ip - 22)'
    BY <2>1 DEF Regained
  <2>5. QED
    BY <1>5, <2>3, <2>4, <1>4 DEF Entering
<1>11. QED
  BY <1>6, <1>7, <1>8, <1>9, <1>10 DEF SwInv

\* What holds when switch_to pops its next word, the one for the register r.
LEMMA PopStep ==
  ASSUME SwInv, NEW m \in 0 .. 15, ip = 22 + m,
         NEW r \in Regs, r = IF m = 15 THEN "bp" ELSE Popped[m + 1],
         pop(r), UNCHANGED <<current, made, saved>>
  PROVE  SwInv'
<1>1. /\ reg \in [Regs -> Words] /\ stack \in [Tasks -> [Cells -> Words]]
      /\ Running = current /\ current \in Tasks /\ current \in made
      /\ Depth \in 0 .. STACK_SIZE /\ STACK_SIZE \in Nat /\ {"sp", "bp", "di"} \subseteq Regs
  <2>1. ip \in 22 .. 38
    OBVIOUS
  <2>2. QED
    BY <2>1, Names, SwitchAssumption DEF SwInv, SwTypes, Entering
<1>2. PICK d \in Int : d = Depth - m
  BY <1>1
<1>3. /\ Depth = d + m /\ Frame(current, d, m) /\ Regained(m)
  <2>1. ip \in 22 .. 38 /\ ip - 22 = m
    OBVIOUS
  <2>2. QED
    BY <1>1, <1>2, <2>1 DEF SwInv, Entering
<1>4. d \in 0 .. STACK_SIZE - 17 /\ d + m \in Cells /\ d + m + 1 \in Cells
  BY <1>1, <1>3 DEF Frame, Cells
<1>5. PICK top \in Words : top = Top
  BY <1>1, <1>3, <1>4 DEF Top
<1>6. /\ reg' = [reg EXCEPT ![r] = top, !["sp"] = Addr(current, d + m + 1)]
      /\ stack' = [stack EXCEPT ![current][d + m] = Filler]
      /\ ip' = 22 + (m + 1)
      /\ esp' = esp /\ current' = current /\ made' = made /\ saved' = saved
  BY <1>1, <1>3, <1>5 DEF pop, Drop
<1>7. \A k \in 1 .. 15 : Popped[k] \in Regs \ {"bp", "sp"}
  BY PoppedRegs
<1>8. r # "sp"
  <2>1. CASE m = 15
    BY <2>1
  <2>2. CASE m # 15
    <3>1. m + 1 \in 1 .. 15
      BY <2>2
    <3>2. QED
      BY <1>7, <2>2, <3>1
  <2>3. QED
    BY <2>1, <2>2
<1>9. /\ reg'["sp"] = Addr(current, d + m + 1) /\ reg'[r] = top
      /\ \A q \in Regs \ {"sp", r} : reg'[q] = reg[q]
  BY <1>1, <1>6, <1>8
<1>10. Running' = current /\ Depth' = d + m + 1
  BY <1>9, Word DEF Running, Depth
<1>11. /\ \A k \in Cells \ {d + m} : stack'[current][k] = stack[current][k]
       /\ \A u \in Tasks \ {current} : stack'[u] = stack[u]
  BY <1>1, <1>4, <1>6
<1>12. SwTypes'
  <2>1. Addr(current, d + m + 1) \in Words
    BY <1>1, <1>2, Word
  <2>2. reg' \in [Regs -> Words]
    BY <1>1, <1>6, <2>1
  <2>3. stack' \in [Tasks -> [Cells -> Words]]
    BY <1>1, <1>4, <1>6, Word
  <2>4. ip' \in 0 .. 38
    BY <1>6
  <2>5. Depth' \in 0 .. STACK_SIZE /\ Running' \in made' /\ (reg["sp"] = Addr(Running, Depth))'
    BY <1>1, <1>4, <1>6, <1>9, <1>10 DEF Cells
  <2>6. QED
    BY <1>6, <2>2, <2>3, <2>4, <2>5 DEF SwInv, SwTypes
<1>13. Departures'
  BY <1>6, DeparturesKept DEF SwInv
<1>14. OthersParked'
  <2>1. \A u \in made \ {Running} : stack'[u] = stack[u] /\ esp'[u] = esp[u]
    BY <1>1, <1>6, <1>11 DEF SwInv, SwTypes
  <2>2. QED
    BY <1>1, <1>6, <1>10, <2>1, OthersKept DEF SwInv
<1>15. Leaving' /\ InProgram'
  BY <1>6 DEF Leaving, InProgram
<1>16. top = stack[current][d + m]
  BY <1>1, <1>3, <1>5 DEF Top
<1>17. Frame(current, d, m + 1)'
  <2>1. ASSUME NEW s \in saved[current]
        PROVE  /\ d = Sp(s) - 16
               /\ \A k \in m + 2 .. 15 : stack'[current][d + k - 1] = s.reg[Popped[k]]
               /\ m + 1 < 16 => stack'[current][d + 15] = s.reg["bp"]
               /\ \A k \in Sp(s) .. STACK_SIZE - 1 : stack'[current][k] = s.stack[k]
    <3>1. d = Sp(s) - 16 /\ Sp(s) \in 16 .. STACK_SIZE - 1
      BY <1>1, <1>3, <2>1 DEF Frame, SwInv, Departures
    <3>2. \A k \in m + 2 .. 15 : stack'[current][d + k - 1] = s.reg[Popped[k]]
      <4>1. SUFFICES ASSUME NEW k \in m + 2 .. 15
                     PROVE  stack'[current][d + k - 1] = s.reg[Popped[k]]
        OBVIOUS
      <4>2. d + k - 1 \in Cells \ {d + m} /\ k \in m + 1 .. 15
        BY <1>1, <1>4, <4>1 DEF Cells
      <4>3. stack[current][d + k - 1] = s.reg[Popped[k]]
        BY <1>3, <2>1, <4>2 DEF Frame
      <4>4. QED
        BY <1>11, <4>2, <4>3
    <3>3. m + 1 < 16 => stack'[current][d + 15] = s.reg["bp"]
      <4>1. SUFFICES ASSUME m + 1 < 16
                     PROVE  stack'[current][d + 15] = s.reg["bp"]
        OBVIOUS
      <4>2. d + 15 \in Cells \ {d + m} /\ m < 16
        BY <1>1, <1>4, <4>1 DEF Cells
      <4>3. stack[current][d + 15] = s.reg["bp"]
        <5>1. Frame(current, d, m)
          BY <1>3
        <5>2. QED
          BY <2>1, <4>2, <5>1 DEF Frame
      <4>4. QED
        BY <1>11, <4>2, <4>3
    <3>4. \A k \in Sp(s) .. STACK_SIZE - 1 : stack'[current][k] = s.stack[k]
      <4>1. \A k \in Sp(s) .. STACK_SIZE - 1 : k \in Cells \ {d + m}
        <5>1. Sp(s) \in Nat /\ Sp(s) > d + m /\ STACK_SIZE \in Nat
          BY <1>1, <1>2, <3>1
        <5>2. QED
          BY <5>1 DEF Cells
      <4>2. \A k \in Sp(s) .. STACK_SIZE - 1 : stack[current][k] = s.stack[k]
        BY <1>3, <2>1 DEF Frame, Above
      <4>3. QED
        BY <1>11, <4>1, <4>2
    <3>5. QED
      BY <3>1, <3>2, <3>3, <3>4
  <2>2. ASSUME saved[current] = {}
        PROVE  /\ d = STACK_SIZE - 18
               /\ m + 1 < 15 => stack'[current][d + 14] = Tsk(current)
               /\ stack'[current][d + 16] = Start
    <3>1. /\ d = STACK_SIZE - 18
          /\ m < 15 => stack[current][d + 14] = Tsk(current)
          /\ stack[current][d + 16] = Start
      BY <1>3, <2>2 DEF Frame
    <3>2. d + 16 \in Cells \ {d + m} /\ (m + 1 < 15 => d + 14 \in Cells \ {d + m})
      BY <1>1, <1>4 DEF Cells
    <3>3. QED
      BY <1>11, <3>1, <3>2
  <2>3. (m + 1) + 1 = m + 2
    OBVIOUS
  <2>4. \A s \in saved'[current'] :
          /\ d = Sp(s) - 16
          /\ \A k \in (m + 1) + 1 .. 15 : stack'[current'][d + k - 1] = s.reg[Popped[k]]
          /\ m + 1 < 16 => stack'[current'][d + 15] = s.reg["bp"]
          /\ Above(current, s)'
    BY <1>6, <2>1, <2>3 DEF Above
  <2>5. QED
    BY <1>4, <1>6, <2>2, <2>4 DEF Frame
<1>18. Regained(m + 1)'
  <2>1. ASSUME NEW s \in saved[current]
        PROVE  /\ \A k \in 1 .. 15 : k <= m + 1 => reg'[Popped[k]] = s.reg[Popped[k]]
               /\ m + 1 = 16 => reg'["bp"] = s.reg["bp"]
    <3>1. ASSUME NEW k \in 1 .. 15, k <= m + 1
          PROVE  reg'[Popped[k]] = s.reg[Popped[k]]
      <4>1. CASE k = m + 1
        <5>1. m # 15 /\ r = Popped[k] /\ k \in m + 1 .. 15 /\ d + k - 1 = d + m
          BY <1>2, <3>1, <4>1
        <5>2. stack[current][d + k - 1] = s.reg[Popped[k]]
          BY <1>3, <2>1, <5>1 DEF Frame
        <5>3. QED
          BY <1>9, <1>16, <5>1, <5>2
      <4>2. CASE k # m + 1
        <5>1. k <= m
          BY <3>1, <4>2
        <5>2. Popped[k] # r /\ Popped[k] \in Regs \ {"bp", "sp"}
          <6>1. m # 15 => m + 1 \in 1 .. 15
            OBVIOUS
          <6>2. QED
            BY <1>7, <3>1, <4>2, <6>1, Names
        <5>3. reg[Popped[k]] = s.reg[Popped[k]]
          BY <1>3, <2>1, <3>1, <5>1 DEF Regained
        <5>4. QED
          BY <1>9, <5>2, <5>3
      <4>3. QED
        BY <4>1, <4>2
    <3>2. ASSUME m + 1 = 16
          PROVE  reg'["bp"] = s.reg["bp"]
      <4>1. m = 15 /\ r = "bp"
        BY <3>2
      <4>2. stack[current][d + 15] = s.reg["bp"]
        BY <1>3, <2>1, <4>1 DEF Frame
      <4>3. QED
        BY <1>9, <1>16, <4>1, <4>2
    <3>3. QED
      BY <3>1, <3>2
  <2>2. ASSUME saved[current] = {}, m + 1 >= 15
        PROVE  reg'["di"] = Tsk(current)
    <3>1. CASE m = 14
      <4>1. r = "di"
        BY <3>1, Names
      <4>2. stack[current][d + 14] = Tsk(current)
        BY <1>3, <2>2, <3>1 DEF Frame
      <4>3. QED
        BY <1>9, <1>16, <3>1, <4>1, <4>2
    <3>2. CASE m = 15
      <4>1. reg["di"] = Tsk(current)
        BY <1>3, <2>2, <3>2 DEF Regained
      <4>2. "di" \in Regs \ {"sp", r}
        BY <1>1, <3>2
      <4>3. QED
        BY <1>9, <4>1, <4>2
    <3>3. QED
      BY <2>2, <3>1, <3>2
  <2>3. QED
    BY <1>6, <2>1, <2>2 DEF Regained
<1>19. Entering'
  <2>1. ip' - 22 = m + 1 /\ Depth' - (ip' - 22) = d
    BY <1>2, <1>6, <1>10
  <2>2. (Frame(current, Depth - (ip - 22), ip - 22) /\ Regained(ip - 22))'
    BY <1>17, <1>18, <2>1
  <2>3. QED
    BY <1>6, <1>10, <2>2 DEF Entering
<1>20. QED
  BY <1>12, <1>13, <1>14, <1>15, <1>19 DEF SwInv

\* The last instruction, from which Restores follows.
LEMMA RetStep ==
  ASSUME SwInv, ip = 38, ret, UNCHANGED <<current, made, saved>>
  PROVE  /\ SwInv'
         /\ ip' = 0 /\ Running' = current
         /\ \A s \in saved[current] :
              /\ Top = Ret(current)
              /\ \A r \in CalleeSaved \ {"sp"} : reg'[r] = s.reg[r]
              /\ Depth' = s.reg["sp"][3] + 1
              /\ \A k \in Depth' .. STACK_SIZE - 1 : stack[current][k] = s.stack[k]
         /\ saved[current] = {} =>
              /\ Top = Start
              /\ Depth' = STACK_SIZE - 1
              /\ reg'["di"] = Tsk(current)
<1>1. /\ reg \in [Regs -> Words] /\ stack \in [Tasks -> [Cells -> Words]]
      /\ Running = current /\ current \in Tasks /\ current \in made
      /\ Depth \in 0 .. STACK_SIZE /\ STACK_SIZE \in Nat /\ {"sp", "bp", "di"} \subseteq Regs
  <2>1. ip \in 22 .. 38
    OBVIOUS
  <2>2. QED
    BY <2>1, Names, SwitchAssumption DEF SwInv, SwTypes, Entering
<1>2. PICK d \in Int : d = Depth - 16
  BY <1>1
<1>3. Depth = d + 16 /\ Frame(current, d, 16) /\ Regained(16)
  <2>1. ip \in 22 .. 38 /\ ip - 22 = 16
    OBVIOUS
  <2>2. QED
    BY <1>1, <1>2, <2>1 DEF SwInv, Entering
<1>4. d \in 0 .. STACK_SIZE - 17 /\ Depth \in Cells
  BY <1>1, <1>3 DEF Frame, Cells
<1>5. \A s \in saved[current] :
        /\ Depth = Sp(s) /\ Top = Ret(current)
        /\ \A k \in Sp(s) .. STACK_SIZE - 1 : stack[current][k] = s.stack[k]
  <2>1. SUFFICES ASSUME NEW s \in saved[current]
                 PROVE  /\ Depth = Sp(s) /\ Top = Ret(current)
                        /\ \A k \in Sp(s) .. STACK_SIZE - 1 : stack[current][k] = s.stack[k]
    OBVIOUS
  <2>2. Sp(s) \in 16 .. STACK_SIZE - 1 /\ s.stack[Sp(s)] = Ret(current)
    BY <1>1 DEF SwInv, Departures
  <2>3. d = Sp(s) - 16 /\ \A k \in Sp(s) .. STACK_SIZE - 1 : stack[current][k] = s.stack[k]
    BY <1>3 DEF Frame, Above
  <2>4. Depth = Sp(s)
    BY <1>3, <2>2, <2>3
  <2>5. Sp(s) \in Sp(s) .. STACK_SIZE - 1
    BY <1>1, <2>2
  <2>6. Top = Ret(current)
    BY <1>1, <2>2, <2>3, <2>4, <2>5 DEF Top
  <2>7. QED
    BY <2>3, <2>4, <2>6
<1>6. saved[current] = {} =>
        Depth = STACK_SIZE - 2 /\ Top = Start /\ reg["di"] = Tsk(current)
  <2>1. SUFFICES ASSUME saved[current] = {}
                 PROVE  Depth = STACK_SIZE - 2 /\ Top = Start /\ reg["di"] = Tsk(current)
    OBVIOUS
  <2>2. d = STACK_SIZE - 18 /\ stack[current][d + 16] = Start
    BY <1>3, <2>1 DEF Frame
  <2>3. reg["di"] = Tsk(current)
    BY <1>3, <2>1 DEF Regained
  <2>4. QED
    BY <1>1, <1>3, <2>2, <2>3 DEF Top
<1>7. /\ reg' = [reg EXCEPT !["sp"] = Addr(current, Depth + 1)] /\ ip' = 0
      /\ stack' = [stack EXCEPT ![current][Depth] = Filler]
      /\ esp' = esp /\ current' = current /\ made' = made /\ saved' = saved
  <2>1. Top \in {Ret(Running), Start}
    BY <1>1, <1>5, <1>6
  <2>2. QED
    BY <1>1, <2>1 DEF ret, Drop
<1>8. /\ reg'["sp"] = Addr(current, Depth + 1)
      /\ \A r \in Regs \ {"sp"} : reg'[r] = reg[r]
  BY <1>1, <1>7
<1>9. Running' = current /\ Depth' = Depth + 1
  BY <1>8, Word DEF Running, Depth
<1>10. \A s \in saved[current] : \A r \in CalleeSaved \ {"sp"} : reg'[r] = s.reg[r]
  <2>1. SUFFICES ASSUME NEW s \in saved[current], NEW r \in CalleeSaved \ {"sp"}
                 PROVE  reg'[r] = s.reg[r]
    OBVIOUS
  <2>2. (\A k \in 1 .. 15 : reg[Popped[k]] = s.reg[Popped[k]]) /\ reg["bp"] = s.reg["bp"]
    BY <1>3, <2>1 DEF Regained
  <2>3. r \in Regs \ {"sp"}
    BY <2>1, Names
  <2>4. CASE r = "bp"
    BY <1>8, <2>2, <2>3, <2>4
  <2>5. CASE r # "bp"
    <3>1. PICK k \in 1 .. 15 : r = Popped[k]
      BY <2>1, <2>5, Names
    <3>2. reg[r] = s.reg[r]
      BY <2>2, <3>1
    <3>3. QED
      BY <1>8, <2>3, <3>2
  <2>6. QED
    BY <2>4, <2>5
<1>11. \A s \in saved[current] :
         /\ Depth' = s.reg["sp"][3] + 1
         /\ \A k \in Depth' .. STACK_SIZE - 1 : stack[current][k] = s.stack[k]
  <2>1. SUFFICES ASSUME NEW s \in saved[current]
                 PROVE  /\ Depth' = s.reg["sp"][3] + 1
                        /\ \A k \in Depth' .. STACK_SIZE - 1 : stack[current][k] = s.stack[k]
    OBVIOUS
  <2>2. Depth' = Sp(s) + 1
    BY <1>5, <1>9
  <2>3. \A k \in Depth' .. STACK_SIZE - 1 : k \in Sp(s) .. STACK_SIZE - 1
    BY <1>1, <1>5, <2>2
  <2>4. QED
    BY <1>5, <2>2, <2>3 DEF Sp
<1>12. saved[current] = {} => Depth' = STACK_SIZE - 1 /\ reg'["di"] = Tsk(current)
  BY <1>1, <1>6, <1>8, <1>9
<1>13. SwTypes'
  <2>1. Addr(current, Depth + 1) \in Words /\ Filler \in Words
    BY <1>1, Word
  <2>2. reg' \in [Regs -> Words]
    BY <1>1, <1>7, <2>1
  <2>3. stack' \in [Tasks -> [Cells -> Words]]
    BY <1>1, <1>4, <1>7, <2>1
  <2>4. Depth' \in 0 .. STACK_SIZE /\ Running' \in made' /\ (reg["sp"] = Addr(Running, Depth))'
    BY <1>1, <1>4, <1>7, <1>8, <1>9 DEF Cells
  <2>5. QED
    BY <1>7, <2>2, <2>3, <2>4 DEF SwInv, SwTypes
<1>14. Departures'
  BY <1>7, DeparturesKept DEF SwInv
<1>15. OthersParked'
  <2>1. \A u \in made \ {Running} : stack'[u] = stack[u] /\ esp'[u] = esp[u]
    BY <1>1, <1>7 DEF SwInv, SwTypes
  <2>2. QED
    BY <1>1, <1>7, <1>9, <2>1, OthersKept DEF SwInv
<1>16. Leaving' /\ Entering' /\ InProgram'
  BY <1>7, <1>9 DEF Leaving, Entering, InProgram
<1>17. SwInv'
  BY <1>13, <1>14, <1>15, <1>16 DEF SwInv
<1>18. QED
  BY <1>5, <1>6, <1>7, <1>9, <1>10, <1>11, <1>12, <1>17

-----------------------------------------------------------------------------
(***************************************************************************)
(* The theorems.                                                            *)
(***************************************************************************)
\* The steps of the specification, Instruction by place.
LEMMA SNextInv == SwInv /\ [SNext]_svars => SwInv'
<1> SUFFICES ASSUME SwInv, [SNext]_svars
             PROVE  SwInv'
  OBVIOUS
<1>1. ASSUME NEW t \in Tasks, co_create(t)
      PROVE  SwInv'
  BY <1>1, CreateStep
<1>2. ASSUME NEW next \in Tasks, NEW g \in Gens, NEW d \in Depths, co_switch_to(next, g, d)
      PROVE  SwInv'
  BY <1>2, CallStep
<1>3. ASSUME Instruction
      PROVE  SwInv'
  <2>1. ip \in 0 .. 38
    BY DEF SwInv, SwTypes
  <2>2. UNCHANGED <<current, made, saved>>
    BY <1>3, <2>1, Steps
  <2>3. CASE ip \in (1 .. 17) \ {2} /\ push(Kept[PushedBefore(ip) + 1])
    BY <2>2, <2>3, PushStep
  <2>4. CASE \/ ip = 2 /\ enter
             \/ ip = 18 /\ mov("di")
             \/ ip = 19 /\ save
             \/ ip = 20 /\ mov("si")
    BY <2>2, <2>4, StillStep
  <2>5. CASE ip = 21 /\ load
    BY <2>2, <2>5, LoadStep
  <2>6. CASE ip \in 22 .. 36 /\ pop(Popped[ip - 21])
    <3>1. PICK m \in 0 .. 14 : m = ip - 22
      BY <2>6
    <3>2. m \in 0 .. 15 /\ m # 15 /\ ip = 22 + m /\ ip - 21 = m + 1 /\ m + 1 \in 1 .. 15
      BY <2>6, <3>1
    <3>3. Popped[m + 1] \in Regs
      BY <3>2, PoppedRegs
    <3>4. QED
      BY <2>2, <2>6, <3>2, <3>3, PopStep
  <2>7. CASE ip = 37 /\ pop("bp")
    <3>1. 15 \in 0 .. 15 /\ ip = 22 + 15 /\ "bp" \in Regs
      BY <2>7, Names
    <3>2. QED
      BY <2>2, <2>7, <3>1, PopStep
  <2>8. CASE ip = 38 /\ ret
    BY <2>2, <2>8, RetStep
  <2>9. QED
    BY <1>3, <2>1, <2>3, <2>4, <2>5, <2>6, <2>7, <2>8, Steps
<1>4. ASSUME UNCHANGED svars
      PROVE  SwInv'
  <2>1. /\ reg' = reg /\ stack' = stack /\ esp' = esp /\ current' = current /\ ip' = ip
        /\ made' = made /\ saved' = saved
    BY <1>4 DEF svars
  <2>2. Running' = Running /\ Depth' = Depth
    BY <2>1 DEF Running, Depth
  <2>3. SwTypes'
    BY <2>1, <2>2 DEF SwInv, SwTypes
  <2>4. Departures'
    BY <2>1, DeparturesKept DEF SwInv
  <2>5. OthersParked'
    BY <2>1, <2>2, OthersKept DEF SwInv
  <2>6. Leaving'
    BY <2>1, <2>2 DEF SwInv, Leaving, Below, Above
  <2>7. Entering'
    BY <2>1, <2>2 DEF SwInv, Entering, Frame, Above, Regained
  <2>8. InProgram'
    BY <2>1, <2>2 DEF SwInv, InProgram
  <2>9. QED
    BY <2>3, <2>4, <2>5, <2>6, <2>7, <2>8 DEF SwInv
<1>5. QED
  BY <1>1, <1>2, <1>3, <1>4 DEF SNext

\* The registers, the stacks and the place in switch_to fit together at every
\* instruction: who has left can come back.
THEOREM SwitchInvariant == SSpec => []SwInv
<1>1. SInit => SwInv
  BY SInitInv
<1>2. SwInv /\ [SNext]_svars => SwInv'
  BY SNextInv
<1>3. QED
  BY <1>1, <1>2, PTL DEF SSpec

\* switch_to returns into the coroutine that co_switch_to named, with the
\* registers and the stack it had when it left, or enters start() with its
\* argument: for any number of coroutines, any size of their stacks and any
\* use they make of them.
THEOREM SwitchRestores == SSpec => Restores
<1> DEFINE Back == /\ ip' = 0 /\ Running' = current
                   /\ \A s \in saved[current] :
                        /\ Top = Ret(current)
                        /\ \A r \in CalleeSaved \ {"sp"} : reg'[r] = s.reg[r]
                        /\ Depth' = s.reg["sp"][3] + 1
                        /\ \A k \in Depth' .. STACK_SIZE - 1 : stack[current][k] = s.stack[k]
                   /\ saved[current] = {} =>
                        /\ Top = Start
                        /\ Depth' = STACK_SIZE - 1
                        /\ reg'["di"] = Tsk(current)
<1>1. SwInv /\ [SNext]_svars => [ip > 0 /\ ip' <= 0 => Back]_svars
  <2>1. SUFFICES ASSUME SwInv, SNext, ip > 0, ip' <= 0
                 PROVE  Back
    OBVIOUS
  <2>2. Instruction
    BY <2>1 DEF SNext, co_create, co_switch_to
  <2>3. ip \in 1 .. 38 /\ UNCHANGED <<current, made, saved>>
    BY <2>1, <2>2, Steps DEF SwInv, SwTypes
  <2>4. ip = 38 /\ ret
    <3>1. CASE \/ ip \in (1 .. 17) \ {2} /\ push(Kept[PushedBefore(ip) + 1])
               \/ ip \in 22 .. 36 /\ pop(Popped[ip - 21])
               \/ ip = 37 /\ pop("bp")
               \/ ip = 2 /\ enter
               \/ ip = 18 /\ mov("di")
               \/ ip = 19 /\ save
               \/ ip = 20 /\ mov("si")
      <4>1. ip' = ip + 1
        BY <3>1 DEF push, pop, enter, mov, save
      <4>2. QED
        BY <2>1, <2>3, <4>1
    <3>2. CASE ip = 21 /\ load
      <4>1. SwInv'
        BY <2>1, <2>3, <3>2, LoadStep
      <4>2. ip' = ip + 1 \/ ip' = -1
        BY <3>2 DEF load
      <4>3. ip' \in 0 .. 38
        BY <4>1 DEF SwInv, SwTypes
      <4>4. QED
        BY <2>1, <3>2, <4>2, <4>3
    <3>3. QED
      BY <2>2, <2>3, <3>1, <3>2, Steps
  <2>5. QED
    BY <2>1, <2>3, <2>4, RetStep
<1>2. QED
  BY <1>1, SwitchInvariant, PTL DEF SSpec, Restores
=============================================================================
