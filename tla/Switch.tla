------------------------------- MODULE Switch -------------------------------
(***************************************************************************)
(* switch_to of src/src/switch.S on x86-64, one instruction a step, with the *)
(* first frame that co_create (src/src/coroutine.c) lays out for it: what   *)
(* the atomic change of `current' in Sched's Pick stands for.               *)
(*                                                                         *)
(* Between two switches the C code of a coroutine puts anything into the    *)
(* registers and moves its stack pointer.                                   *)
(***************************************************************************)
EXTENDS Integers, Sequences

CONSTANTS
  Tasks,       \* the coroutines of the thread; 0 is the initial one
  STACK_SIZE,  \* words of tsk->stack (131072)
  Gens,        \* what the C code can put into a register
  Depths       \* words the C code can have on a stack when it calls switch_to

ASSUME SwitchAssumption ==
  /\ Tasks \subseteq Nat /\ 0 \in Tasks
  /\ STACK_SIZE \in Nat /\ STACK_SIZE >= 20 /\ STACK_SIZE % 2 = 0
  /\ Depths \subseteq 0 .. STACK_SIZE - 20

\* Machine words, by what they mean.
Addr(t, k)   == <<"addr", t, k>>    \* &tsk->stack[k], STACK_SIZE when empty
Tsk(t)       == <<"tsk", t, 0>>     \* the control block of t
Ret(t)       == <<"ret", t, 0>>     \* where t's co_switch_to goes on
Value(t, r, g) == <<r, t, g>>       \* what t's C code has in register r
Local(t, g)  == <<"var", t, g>>     \* and in its variables
Start        == <<"start", 0, 0>>   \* the address of start()
Filler       == <<"fill", 0, 0>>    \* any word nobody should look at

\* The remainder modulo 16 of &tsk->stack[k] on x86-64: calloc() returns
\* multiples of 16, the fields before `stack' take 20552 bytes.
Misalign(k) == (20552 + 8 * k) % 16

(***************************************************************************)
(* The code, as a sequence of instructions on named registers.              *)
(***************************************************************************)
Each(op, regs) == [k \in 1 .. Len(regs) |-> <<op, regs[k]>>]

Pushed ==
  <<"di", "si", "bx", "dx", "cx", "ax", "flags",
    "r8", "r9", "r10", "r11", "r12", "r13", "r14", "r15">>

\* slip: two registers change places on the way back
Popped_Swapped ==
  <<"r15", "r14", "r13", "r12", "r11", "r10", "r9", "r8",
    "flags", "ax", "cx", "bx", "dx", "si", "di">>

Popped ==
  <<"r15", "r14", "r13", "r12", "r11", "r10", "r9", "r8",
    "flags", "ax", "cx", "dx", "bx", "si", "di">>

\* the two parameters, in registers
Current == <<"mov", "di">>
Next_   == <<"mov", "si">>

switch_to ==
  <<<<"push", "bp">>, <<"enter", "bp">>>> \o Each("push", Pushed)
    \o <<Current, <<"save", "ax">>, Next_, <<"load", "ax">>>>
    \o Each("pop", Popped) \o <<<<"pop", "bp">>, <<"ret", "ip">>>>

Regs == {Pushed[k] : k \in 1 .. Len(Pushed)} \cup {"bp", "sp"}

\* what the C code relies on across a call
CalleeSaved == {"bx", "bp", "sp", "r12", "r13", "r14", "r15"}

(***************************************************************************)
(* The state.                                                               *)
(***************************************************************************)
VARIABLES
  reg,      \* the registers of the CPU
  stack,    \* t -> the words of its stack
  esp,      \* t -> tsk->esp
  current,  \* thread_env->current, which co_switch_to sets before the call
  ip,       \* next instruction of switch_to; 0: C code runs; -1: anything does
  made,     \* the tasks that co_create was called for
  saved     \* history: t -> the registers and stack with which it called, or {}

svars == <<reg, stack, esp, current, ip, made, saved>>

\* the stack the CPU uses
Running == reg["sp"][2]

SInit ==
  /\ reg = [r \in Regs |-> IF r = "sp" THEN Addr(0, STACK_SIZE) ELSE Value(0, r, 0)]
  /\ stack = [t \in Tasks |-> [k \in 0 .. STACK_SIZE - 1 |-> Filler]]
  /\ esp = [t \in Tasks |-> Filler]
  /\ current = 0
  /\ ip = 0
  /\ made = {0}
  /\ saved = [t \in Tasks |-> {}]

\* The frame of a coroutine that has not run, from its lowest word up.
FirstFrame(t) ==
  [k \in 1 .. 14 |-> Filler] \o <<Tsk(t), Filler, Start, Filler>>

\* slip: the frame lacks the word for %rbp
FirstFrame_Short(t) ==
  [k \in 1 .. 14 |-> Filler] \o <<Tsk(t), Start, Filler, Filler>>

co_create(t) ==
  LET base == STACK_SIZE - Len(FirstFrame(t)) IN
  /\ ip = 0 /\ t \notin made
  /\ made' = made \cup {t}
  /\ esp' = [esp EXCEPT ![t] = Addr(t, base)]
  /\ stack' = [stack EXCEPT ![t] =
                 [k \in 0 .. STACK_SIZE - 1 |->
                    IF k >= base THEN FirstFrame(t)[k - base + 1] ELSE Filler]]
  /\ UNCHANGED <<reg, current, ip, saved>>

\* The C code computes, uses depth words of its stack, and in co_switch_to
\* sets current and calls switch_to(current, next).
co_switch_to(next, g, depth) ==
  LET t    == current
      base == STACK_SIZE - depth
      sp   == base - 1
      r0   == [r \in Regs |-> CASE r = "sp" -> Addr(t, sp)
                                [] r = "di" -> Tsk(t)
                                [] r = "si" -> Tsk(next)
                                [] OTHER -> Value(t, r, g)]
      s0   == [k \in 0 .. STACK_SIZE - 1 |->
                 IF k >= base THEN Local(t, g)
                 ELSE IF k = sp THEN Ret(t)
                 ELSE stack[t][k]]
  IN
  /\ ip = 0 /\ next \in made \ {t}
  /\ reg' = r0
  /\ stack' = [stack EXCEPT ![t] = s0]
  /\ saved' = [saved EXCEPT ![t] = {[reg |-> r0, stack |-> s0]}]
  /\ current' = next
  /\ ip' = 1
  /\ UNCHANGED <<esp, made>>

(***************************************************************************)
(* One instruction.                                                         *)
(***************************************************************************)
Depth == reg["sp"][3]
Top   == stack[Running][Depth]

push(r) ==
  /\ stack' = [stack EXCEPT ![Running][Depth - 1] = reg[r]]
  /\ reg' = [reg EXCEPT !["sp"] = Addr(Running, Depth - 1)]
  /\ ip' = ip + 1
  /\ UNCHANGED esp

\* Words below the stack pointer are dead, a signal handler may overwrite them.
Drop ==
  /\ stack' = [stack EXCEPT ![Running][Depth] = Filler]
  /\ UNCHANGED esp

pop(r) ==
  /\ reg' = [reg EXCEPT ![r] = Top, !["sp"] = Addr(Running, Depth + 1)]
  /\ ip' = ip + 1
  /\ Drop

\* movq %rsp, %rbp
enter ==
  /\ reg' = [reg EXCEPT !["bp"] = reg["sp"]]
  /\ ip' = ip + 1
  /\ UNCHANGED <<stack, esp>>

\* movq %rdi, %rax
mov(r) ==
  /\ reg' = [reg EXCEPT !["ax"] = reg[r]]
  /\ ip' = ip + 1
  /\ UNCHANGED <<stack, esp>>

\* movq %rsp, 8(%rax)
save ==
  /\ esp' = [esp EXCEPT ![reg["ax"][2]] = reg["sp"]]
  /\ ip' = ip + 1
  /\ UNCHANGED <<reg, stack>>

\* movq 8(%rax), %rsp; from a word that is no control block comes anything
load ==
  /\ \/ /\ reg["ax"][1] = "tsk"
        /\ reg' = [reg EXCEPT !["sp"] = esp[reg["ax"][2]]]
        /\ ip' = ip + 1
     \/ reg["ax"][1] # "tsk" /\ ip' = -1 /\ UNCHANGED reg
  /\ UNCHANGED <<stack, esp>>

ret ==
  /\ reg' = [reg EXCEPT !["sp"] = Addr(Running, Depth + 1)]
  /\ ip' = IF Top \in {Ret(Running), Start} THEN 0 ELSE -1
  /\ Drop

Instruction ==
  LET i == switch_to[ip] IN
  /\ ip > 0
  /\ CASE i[1] = "push"  -> push(i[2])
       [] i[1] = "pop"   -> pop(i[2])
       [] i[1] = "enter" -> enter
       [] i[1] = "mov"   -> mov(i[2])
       [] i[1] = "save"  -> save
       [] i[1] = "load"  -> load
       [] i[1] = "ret"   -> ret
  /\ UNCHANGED <<current, made, saved>>

SNext ==
  \/ \E t \in Tasks : co_create(t)
  \/ \E next \in Tasks, g \in Gens, d \in Depths : co_switch_to(next, g, d)
  \/ Instruction

SSpec == SInit /\ [][SNext]_svars

-----------------------------------------------------------------------------
\* A switch returns into the coroutine it was asked for, exactly as that one
\* left: with its callee-saved registers, its stack pointer behind the return
\* address, and every word it has on its stack, whatever others did meanwhile.
\* A coroutine that was never left enters start(tsk) on its own empty stack.
Restores ==
  [][ip > 0 /\ ip' <= 0 =>
       /\ ip' = 0 /\ Running' = current
       /\ \A s \in saved[current] :
            /\ Top = Ret(current)
            /\ \A r \in CalleeSaved \ {"sp"} : reg'[r] = s.reg[r]
            /\ Depth' = s.reg["sp"][3] + 1
            /\ \A k \in Depth' .. STACK_SIZE - 1 : stack[current][k] = s.stack[k]
       /\ saved[current] = {} =>
            /\ Top = Start
            /\ Depth' = STACK_SIZE - 1
            /\ reg'["di"] = Tsk(current)
     ]_svars

\* `start's frame, as it looks just on entry to start' (co_create): behind a
\* call the stack pointer is 8 modulo 16, which compiled code relies on.
EntersAligned ==
  ip = 0 /\ current # 0 /\ saved[current] = {}
    => Misalign(Depth) = 8
=============================================================================
