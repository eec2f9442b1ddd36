---------------------------- MODULE SchedHistory ----------------------------
(***************************************************************************)
(* Sched with history variables: what the scheduler owes a coroutine over   *)
(* several steps.  None of them exists in the code; no guard reads them.    *)
(***************************************************************************)
EXTENDS Sched

VARIABLES
  due,       \* slot -> the millisecond, not truncated, its last co_sleep asked for
  bypass,    \* slot -> how often others got the CPU since the slot is runnable
  passStart  \* the time at which the current wake-up loop began

history == <<due, bypass, passStart>>
hvars == <<vars, history>>

HInit ==
  /\ Init
  /\ due = [i \in Slots |-> 0]
  /\ bypass = [i \in Slots |-> 0]
  /\ passStart = 0

\* bypass need not be counted further than BoundedBypass looks
Count(k) == IF k < NR_TASKS THEN k + 1 ELSE k

\* the steps that enter pick()'s wake-up loop note the time
Enter == passStart' = now /\ UNCHANGED <<due, bypass>>

HNext ==
  \/ /\ \/ \E id \in Slots : co_create(id)
        \/ \E cid \in Slots : co_join(cid)
        \/ JoinReap
        \/ WakeScan
        \/ Tick
     /\ UNCHANGED history
  \/ (JoinWait \/ Finish \/ Repeat) /\ Enter
  \/ \E s \in Seconds :
       /\ co_sleep(s)
       /\ due' = [due EXCEPT ![current] = now + MsPerSec * s]
       /\ passStart' = now
       /\ UNCHANGED bypass
  \/ \E next \in Slots :
       /\ Pick(next)
       /\ bypass' = [i \in Slots |->
                       IF i \in Ready \ {next} THEN Count(bypass[i]) ELSE 0]
       /\ UNCHANGED <<due, passStart>>

HSpec == HInit /\ [][HNext]_hvars
HFairSpec == HSpec /\ Fairness

HTypeOK ==
  /\ TypeOK
  /\ due \in [Slots -> Nat]
  /\ bypass \in [Slots -> Nat]
  /\ passStart \in 0 .. now

-----------------------------------------------------------------------------
\* Bounded waiting: once runnable, a coroutine sees the CPU given to others at
\* most NR_TASKS - 1 times before it is its turn, however they create, join
\* and sleep.  (pick() resumes its walk of the table behind current.)
BoundedBypass == \A i \in Slots : bypass[i] < NR_TASKS

\* The number of times the 32-bit millisecond clock has wrapped by time t.
Epoch(t) == t \div ClockMod

\* co_sleep does not return early: pick() readies a sleeper only after the
\* time it asked for, unless the clock wrapped between that time and now.
NoEarlyWake ==
  [][\A i \in Slots :
       status[i] = "SLEEP" /\ status'[i] = "RUNNING" =>
         now > due[i] \/ Epoch(now) # Epoch(due[i])]_hvars

\* The wake-up loop misses nobody: a slot it has passed does not hold a sleeper
\* that had expired when the loop began, unless the clock wrapped since.
NoOversleep ==
  phase = "wake" =>
    \A i \in 0 .. scan - 1 :
      status[i] = "SLEEP" /\ Epoch(passStart) = Epoch(now) =>
        passStart % ClockMod <= wakeuptime[i]
=============================================================================
