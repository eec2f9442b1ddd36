------------------------------- MODULE Sched -------------------------------
(***************************************************************************)
(* The coroutines of one thread: co_create, co_sleep, co_join, the tail of  *)
(* start(), and the scheduling pass schedule() -> pick() -> co_switch_to()  *)
(* of src/src/coroutine.c and src/src/sched.c, over one thread_env_t.       *)
(*                                                                         *)
(* Scheduling is cooperative: exactly one coroutine executes, and it keeps  *)
(* the CPU until it calls into schedule().  A step is the code between two  *)
(* points where the clock may move: a library call up to its schedule(),    *)
(* one slot of pick()'s wake-up loop, or pick()'s choice with the switch.   *)
(*                                                                         *)
(* A coroutine is named by its slot in thread_env->task: no two control     *)
(* blocks share a slot, and only co_join empties one.                       *)
(***************************************************************************)
EXTENDS Integers, FiniteSets

CONSTANTS
  NR_TASKS,   \* slots of thread_env->task (10240 in coroutine.h)
  ClockMod,   \* values of an unsigned int, the type of getmstime() (2^32)
  MsPerSec,   \* milliseconds in a second (1000 in co_sleep)
  Seconds,    \* the arguments the program passes to co_sleep
  MaxTime     \* bound: the clock is followed up to this millisecond

ASSUME SchedAssumption ==
  /\ NR_TASKS \in Nat \ {0}
  /\ ClockMod \in Nat \ {0}
  /\ MsPerSec \in Nat
  /\ Seconds \subseteq Nat
  /\ MaxTime \in Nat

Slots == 0 .. NR_TASKS - 1

NoCid == -1            \* "in no co_join", in the variable joining
Free  == "NULL"        \* status of a slot whose task pointer is NULL

Statuses == {"RUNNING", "SLEEP", "WAIT", "EXIT"}

VARIABLES
  status,      \* slot -> task[slot]->status, or Free when task[slot] = NULL
  wakeuptime,  \* slot -> task[slot]->wakeuptime
  task_count,  \* thread_env->task_count
  current,     \* the slot of thread_env->current
  joining,     \* slot -> the cid whose exit its co_join loop waits for, or NoCid
  phase,       \* "run": current executes; "wake": it is inside pick()
  scan,        \* index i of pick()'s wake-up loop
  now          \* gettimeofday() in milliseconds, before truncation

vars == <<status, wakeuptime, task_count, current, joining, phase, scan, now>>

TypeOK ==
  /\ status \in [Slots -> Statuses \cup {Free}]
  /\ wakeuptime \in [Slots -> 0 .. ClockMod - 1]
  /\ task_count \in Int
  /\ current \in Slots
  /\ joining \in [Slots -> Slots \cup {NoCid}]
  /\ phase \in {"run", "wake"}
  /\ scan \in 0 .. NR_TASKS
  /\ now \in 0 .. MaxTime

Allocated == {i \in Slots : status[i] # Free}

Ready == {i \in Slots : status[i] = "RUNNING"}

(***************************************************************************)
(* co_get_thread_env(), first call of a thread: the initial task takes slot *)
(* 0 and is the running coroutine.                                          *)
(***************************************************************************)
Init ==
  /\ status = [i \in Slots |-> IF i = 0 THEN "RUNNING" ELSE Free]
  /\ wakeuptime = [i \in Slots |-> 0]
  /\ task_count = 1
  /\ current = 0
  /\ joining = [i \in Slots |-> NoCid]
  /\ phase = "run"
  /\ scan = 0
  /\ now = 0

(***************************************************************************)
(* The program's calls.                                                     *)
(***************************************************************************)

\* current executes the program's own code, outside the library
InUserCode == phase = "run" /\ joining[current] = NoCid

\* getmstime(): the milliseconds, truncated to the unsigned int it returns
getmstime == now % ClockMod

\* the call of schedule(): pick() starts its wake-up loop
schedule == phase' = "wake" /\ scan' = 0

\* the first empty slot of the table
FirstFree(id) == status[id] = Free /\ \A lower \in 0 .. id - 1 : status[lower] # Free

\* co_create: without an empty slot the call only returns -1
co_create(id) ==
  /\ InUserCode
  /\ FirstFree(id)
  /\ status' = [status EXCEPT ![id] = "RUNNING"]
  /\ wakeuptime' = [wakeuptime EXCEPT ![id] = 0]
  /\ task_count' = task_count + 1
  /\ UNCHANGED <<current, joining, phase, scan, now>>

\* slip: the sum is not kept in an unsigned int
WakeAt_Wide(seconds) == getmstime + MsPerSec * seconds

WakeAt(seconds) == (getmstime + MsPerSec * seconds) % ClockMod

co_sleep(seconds) ==
  /\ InUserCode
  /\ wakeuptime' = [wakeuptime EXCEPT ![current] = WakeAt(seconds)]
  /\ status' = [status EXCEPT ![current] = "SLEEP"]
  /\ schedule
  /\ UNCHANGED <<task_count, current, joining, now>>

\* The contract of the pthread-style interface: a cid is joined while its
\* coroutine is not yet reaped, and by one coroutine at a time.
Joinable(cid) == status[cid] # Free /\ \A i \in Slots : joining[i] # cid

\* co_join is entered; its loop tests the target's status before it schedules
co_join(cid) ==
  /\ InUserCode
  /\ Joinable(cid)
  /\ joining' = [joining EXCEPT ![current] = cid]
  /\ UNCHANGED <<status, wakeuptime, task_count, current, phase, scan, now>>

\* slip: the joiner blocks, and nobody wakes it
JoinWait_Blocks ==
  /\ phase = "run" /\ joining[current] # NoCid
  /\ status[joining[current]] \notin {Free, "EXIT"}
  /\ status' = [status EXCEPT ![current] = "WAIT"]
  /\ schedule
  /\ UNCHANGED <<wakeuptime, task_count, current, joining, now>>

\* while (task[cid]->status != COROUTINE_EXIT) schedule();
JoinWait ==
  /\ phase = "run" /\ joining[current] # NoCid
  /\ status[joining[current]] \notin {Free, "EXIT"}
  /\ schedule
  /\ UNCHANGED <<status, wakeuptime, task_count, current, joining, now>>

Exited_Any(cid) == status[cid] # Free   \* slip: co_join does not wait for the exit

Exited(cid) == status[cid] = "EXIT"

\* slip: task_count is left alone
Release_Uncounted(cid) ==
  status' = [status EXCEPT ![cid] = Free] /\ UNCHANGED task_count

\* free(task[cid]); task[cid] = NULL; task_count--
Release(cid) == status' = [status EXCEPT ![cid] = Free] /\ task_count' = task_count - 1

JoinReap ==
  /\ phase = "run" /\ joining[current] # NoCid
  /\ Exited(joining[current])
  /\ Release(joining[current])
  /\ joining' = [joining EXCEPT ![current] = NoCid]
  /\ UNCHANGED <<wakeuptime, current, phase, scan, now>>

Ended_Freed == Free   \* slip: start() frees its control block, as a comment warns

Ended == "EXIT"

\* start(), once co_fn has returned.  The initial task has no start().
Finish ==
  /\ InUserCode
  /\ current # 0
  /\ status' = [status EXCEPT ![current] = Ended]
  /\ schedule
  /\ UNCHANGED <<wakeuptime, task_count, current, joining, now>>

(***************************************************************************)
(* schedule(): pick() and co_switch_to().                                   *)
(***************************************************************************)

\* One slot of the wake-up loop; the clock is read anew for each sleeper.
Expired_Equal(i) == getmstime >= wakeuptime[i]   \* slip: not strict

\* slip: the coroutine that entered pick() is passed over
Expired_Others(i) == i # current /\ getmstime > wakeuptime[i]

Expired(i) == getmstime > wakeuptime[i]

WakeScan ==
  /\ phase = "wake" /\ scan < NR_TASKS
  /\ status' = IF status[scan] = "SLEEP" /\ Expired(scan)
               THEN [status EXCEPT ![scan] = "RUNNING"]
               ELSE status
  /\ scan' = scan + 1
  /\ UNCHANGED <<wakeuptime, task_count, current, joining, phase, now>>

Dist_FromZero(c, i) == i   \* slip: every search begins at slot 0

\* Steps from slot c forward around the table to slot i; c itself comes last.
Dist(c, i) == IF i > c THEN i - c ELSE i - c + NR_TASKS

\* slip: after a full turn current is taken, whatever its status
Nearest_Any(next) ==
  IF Ready = {} THEN next = current
  ELSE next \in Ready /\ \A i \in Ready : Dist(current, next) <= Dist(current, i)

\* The first runnable slot after current gets the CPU (current if it is alone).
Nearest(next) ==
  next \in Ready /\ \A i \in Ready : Dist(current, next) <= Dist(current, i)

Pick(next) ==
  /\ phase = "wake" /\ scan = NR_TASKS
  /\ Nearest(next)
  /\ current' = next
  /\ phase' = "run" /\ scan' = 0
  /\ UNCHANGED <<status, wakeuptime, task_count, joining, now>>

\* goto repeat: nothing is runnable, not even current
Repeat ==
  /\ phase = "wake" /\ scan = NR_TASKS
  /\ Ready = {}
  /\ scan' = 0
  /\ UNCHANGED <<status, wakeuptime, task_count, current, joining, phase, now>>

\* the wall clock moves by a millisecond; it is not set back
Tick ==
  /\ now < MaxTime
  /\ now' = now + 1
  /\ UNCHANGED <<status, wakeuptime, task_count, current, joining, phase, scan>>

(***************************************************************************)
(* The specification.                                                       *)
(***************************************************************************)
Next ==
  \/ \E id \in Slots : co_create(id)
  \/ \E s \in Seconds : co_sleep(s)
  \/ \E cid \in Slots : co_join(cid)
  \/ JoinWait
  \/ JoinReap
  \/ Finish
  \/ WakeScan
  \/ \E next \in Slots : Pick(next)
  \/ Repeat
  \/ Tick

Spec == Init /\ [][Next]_vars

\* Code that runs makes progress; so does the clock.  For the program's own
\* code this is the contract of cooperative scheduling: a coroutine that has
\* the CPU sleeps, joins or returns in the end (as all of examples/ do).
Fairness ==
  /\ WF_vars((\E s \in Seconds : co_sleep(s)) \/ Finish)
  /\ WF_vars(JoinWait)
  /\ WF_vars(JoinReap)
  /\ WF_vars(WakeScan)
  /\ WF_vars(\E next \in Slots : Pick(next))
  /\ WF_vars(Repeat)
  /\ WF_vars(Tick)

FairSpec == Spec /\ Fairness

(***************************************************************************)
(* Safety.                                                                  *)
(***************************************************************************)

\* thread_env->task_count is the number of control blocks that co_create and
\* co_get_thread_env made and co_join has not freed.
TaskCountExact == task_count = Cardinality(Allocated)

\* co_join's loop never reads task[cid] after it became NULL: what a coroutine
\* waits for stays allocated until the waiter itself frees it, although
\* others create, exit and join in the meantime.
JoinTargetAllocated ==
  \A i \in Slots : joining[i] # NoCid => status[joining[i]] # Free

\* Code only ever executes on a live, runnable control block: never on the
\* stack of a coroutine that returned (start() must never come back from its
\* schedule()), nor on one that co_join freed.
RunsOnLiveStack == phase = "run" => status[current] = "RUNNING"

(***************************************************************************)
(* Liveness, of FairSpec.                                                   *)
(***************************************************************************)

\* Round robin starves nobody: a runnable coroutine gets the CPU, whatever
\* the others do - joiners that poll for ever included.
ReadyRuns == \A i \in Slots : i \in Ready ~> (current = i /\ phase = "run")

\* co_sleep returns: a sleeper becomes runnable once the clock is past its
\* wakeuptime, even when every coroutine sleeps and pick() spins.
SleeperWakes ==
  \A i \in Slots :
    (status[i] = "SLEEP" /\ wakeuptime[i] < MaxTime) ~> status[i] = "RUNNING"

\* co_join returns once its target has exited.
JoinReturns ==
  \A i, c \in Slots :
    (joining[i] = c /\ status[c] = "EXIT") ~> joining[i] = NoCid

(***************************************************************************)
(* Sched implements Coop: pick()'s loops are no step of it.                 *)
(***************************************************************************)
AbsState ==
  [i \in Slots |-> CASE status[i] = Free -> "none"
                     [] status[i] = "RUNNING" -> "ready"
                     [] status[i] = "EXIT" -> "done"
                     [] OTHER -> "asleep"]

AbsCpu == IF phase = "run" THEN {current} ELSE {}

Abstract == INSTANCE Coop
            WITH Ids <- Slots, Main <- 0, state <- AbsState, cpu <- AbsCpu

\* Every behaviour of the scheduler is one of a cooperative thread package.
ImplementsCoop == Abstract!CSpec

\* ... and a fair one, which hands the CPU to every ready thread.
ImplementsFairCoop == Abstract!CFairSpec
=============================================================================
