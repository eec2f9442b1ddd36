----------------------------- MODULE SchedProofs -----------------------------
(***************************************************************************)
(* Proofs about Sched, for every table size, clock width and set of sleeps. *)
(***************************************************************************)
EXTENDS Sched, FiniteSetTheorems, TLAPS

\* A coroutine inside co_join is runnable and its target is not yet freed ...
JoinersPoll ==
  \A i \in Slots : joining[i] # NoCid =>
    status[i] = "RUNNING" /\ status[joining[i]] # Free

\* ... and no two coroutines join the same target.
JoinersDiffer ==
  \A i, j \in Slots : joining[i] # NoCid /\ joining[i] = joining[j] => i = j

\* The inductive invariant.  JoinReap empties the slot of current's target; that
\* no other co_join reads it follows from JoinersDiffer, and that current is
\* not the coroutine freed from JoinersPoll, as the target has exited.
IInv == TypeOK /\ JoinersPoll /\ JoinersDiffer /\ RunsOnLiveStack

USE DEF Slots, NoCid, Free, Statuses

-----------------------------------------------------------------------------
\* Truncation to an unsigned int yields one of its values.
LEMMA Truncated ==
  ASSUME NEW t \in Nat
  PROVE  t % ClockMod \in 0 .. ClockMod - 1
BY SchedAssumption

\* The initial state is well typed: co_get_thread_env's first call.
LEMMA InitTypeOK == Init => TypeOK
<1> SUFFICES ASSUME Init PROVE TypeOK
  OBVIOUS
<1> QED
  BY SchedAssumption DEF Init, TypeOK

\* Every step of the scheduler and of the program keeps the types.
LEMMA NextTypeOK == TypeOK /\ [Next]_vars => TypeOK'
<1> SUFFICES ASSUME TypeOK, [Next]_vars PROVE TypeOK'
  OBVIOUS
<1> USE SchedAssumption DEF TypeOK
<1>1. ASSUME NEW id \in Slots, co_create(id) PROVE TypeOK'
  BY <1>1 DEF co_create
<1>2. ASSUME NEW s \in Seconds, co_sleep(s) PROVE TypeOK'
  <2>1. getmstime + MsPerSec * s \in Nat
    <3>1. MsPerSec * s \in Nat
      OBVIOUS
    <3>2. getmstime \in Nat
      BY Truncated DEF getmstime
    <3>3. \A a, b \in Nat : a + b \in Nat
      OBVIOUS
    <3> QED
      BY <3>1, <3>2, <3>3, Zenon
  <2>2. (getmstime + MsPerSec * s) % ClockMod \in 0 .. ClockMod - 1
    BY <2>1, Truncated
  <2> QED
    BY <1>2, <2>2 DEF co_sleep, WakeAt, schedule
<1>3. ASSUME NEW cid \in Slots, co_join(cid) PROVE TypeOK'
  BY <1>3 DEF co_join
<1>4. CASE JoinWait
  BY <1>4 DEF JoinWait, schedule
<1>5. CASE JoinReap
  BY <1>5 DEF JoinReap, Exited, Release
<1>6. CASE Finish
  BY <1>6 DEF Finish, Ended, schedule
<1>7. CASE WakeScan
  BY <1>7 DEF WakeScan
<1>8. ASSUME NEW next \in Slots, Pick(next) PROVE TypeOK'
  BY <1>8 DEF Pick
<1>9. CASE Repeat
  BY <1>9 DEF Repeat
<1>10. CASE Tick
  BY <1>10 DEF Tick
<1>11. CASE UNCHANGED vars
  BY <1>11 DEF vars
<1> QED
  BY <1>1, <1>2, <1>3, <1>4, <1>5, <1>6, <1>7, <1>8, <1>9, <1>10, <1>11 DEF Next

\* The variables of the scheduler keep their types in every behaviour.
THEOREM TypeCorrect == Spec => []TypeOK
BY InitTypeOK, NextTypeOK, PTL DEF Spec

-----------------------------------------------------------------------------
\* The inductive invariant holds initially: nobody joins, the initial task runs.
LEMMA InitIInv == Init => IInv
<1> SUFFICES ASSUME Init PROVE IInv
  OBVIOUS
<1> QED
  BY InitTypeOK, SchedAssumption
     DEF Init, IInv, JoinersPoll, JoinersDiffer, RunsOnLiveStack

\* The inductive invariant is kept by every step.
LEMMA NextIInv == IInv /\ [Next]_vars => IInv'
<1> SUFFICES ASSUME IInv, [Next]_vars PROVE IInv'
  OBVIOUS
<1>0. TypeOK /\ TypeOK'
  BY NextTypeOK DEF IInv
<1> SUFFICES JoinersPoll' /\ JoinersDiffer' /\ RunsOnLiveStack'
  BY <1>0 DEF IInv
<1> USE <1>0, SchedAssumption DEF IInv, TypeOK, JoinersPoll, JoinersDiffer, RunsOnLiveStack
<1>1. ASSUME NEW id \in Slots, co_create(id)
      PROVE  JoinersPoll' /\ JoinersDiffer' /\ RunsOnLiveStack'
  BY <1>1 DEF co_create, FirstFree
<1>2. ASSUME NEW s \in Seconds, co_sleep(s)
      PROVE  JoinersPoll' /\ JoinersDiffer' /\ RunsOnLiveStack'
  BY <1>2 DEF co_sleep, WakeAt, InUserCode, schedule
<1>3. ASSUME NEW cid \in Slots, co_join(cid)
      PROVE  JoinersPoll' /\ JoinersDiffer' /\ RunsOnLiveStack'
  BY <1>3 DEF co_join, InUserCode, Joinable
<1>4. CASE JoinWait
  BY <1>4 DEF JoinWait, schedule
<1>5. CASE JoinReap
  <2>1. current \in Slots /\ status[current] = "RUNNING"
    BY <1>5 DEF JoinReap, Exited, Release
  <2>2. \A i \in Slots : i # current => joining'[i] = joining[i] /\ joining[i] # joining[current]
    BY <1>5 DEF JoinReap, Exited, Release
  <2>3. JoinersPoll'
    BY <1>5, <2>1, <2>2 DEF JoinReap, Exited, Release
  <2>4. JoinersDiffer' /\ RunsOnLiveStack'
    BY <1>5, <2>1, <2>2 DEF JoinReap, Exited, Release
  <2> QED
    BY <2>3, <2>4
<1>6. CASE Finish
  BY <1>6 DEF Finish, Ended, InUserCode, schedule
<1>7. CASE WakeScan
  BY <1>7 DEF WakeScan
<1>8. ASSUME NEW next \in Slots, Pick(next)
      PROVE  JoinersPoll' /\ JoinersDiffer' /\ RunsOnLiveStack'
  BY <1>8 DEF Pick, Nearest, Ready
<1>9. CASE Repeat
  BY <1>9 DEF Repeat
<1>10. CASE Tick
  BY <1>10 DEF Tick
<1>11. CASE UNCHANGED vars
  BY <1>11 DEF vars
<1> QED
  BY <1>1, <1>2, <1>3, <1>4, <1>5, <1>6, <1>7, <1>8, <1>9, <1>10, <1>11 DEF Next

\* The inductive invariant holds throughout.
LEMMA Invariance == Spec => []IInv
BY InitIInv, NextIInv, PTL DEF Spec

\* co_join never reads the status of a control block that was freed.
THEOREM JoinSafe == Spec => []JoinTargetAllocated
<1>1. IInv => JoinTargetAllocated
  BY DEF IInv, JoinersPoll, JoinTargetAllocated
<1> QED
  BY <1>1, Invariance, PTL

\* An exited or freed coroutine never executes.
THEOREM LiveStack == Spec => []RunsOnLiveStack
<1>1. IInv => RunsOnLiveStack
  BY DEF IInv
<1> QED
  BY <1>1, Invariance, PTL

-----------------------------------------------------------------------------
\* The slots are finitely many, and so are the control blocks in them.
LEMMA AllocatedFinite == IsFiniteSet(Allocated)
<1>1. IsFiniteSet(Slots)
  BY SchedAssumption, FS_Interval
<1> QED
  BY <1>1, FS_Subset DEF Allocated

\* task_count follows every change of the table.
LEMMA NextTaskCount == IInv /\ TaskCountExact /\ [Next]_vars => TaskCountExact'
<1> SUFFICES ASSUME IInv, TaskCountExact, [Next]_vars PROVE TaskCountExact'
  OBVIOUS
<1>a. TypeOK /\ RunsOnLiveStack
  BY DEF IInv
<1> USE SchedAssumption DEF TypeOK, TaskCountExact
<1>b. ASSUME Allocated' = Allocated, task_count' = task_count
      PROVE  TaskCountExact'
  BY <1>b
<1>1. ASSUME NEW id \in Slots, co_create(id) PROVE TaskCountExact'
  <2>1. status[id] = Free /\ status' = [status EXCEPT ![id] = "RUNNING"]
    BY <1>1 DEF co_create, FirstFree
  <2>2. Allocated' = Allocated \cup {id} /\ id \notin Allocated
    BY <1>a, <2>1 DEF Allocated
  <2>3. Cardinality(Allocated') = Cardinality(Allocated) + 1
    BY <2>2, AllocatedFinite, FS_AddElement
  <2> QED
    BY <1>1, <2>3 DEF co_create
<1>2. ASSUME NEW s \in Seconds, co_sleep(s) PROVE TaskCountExact'
  BY <1>a, <1>b, <1>2 DEF co_sleep, WakeAt, InUserCode, Allocated, RunsOnLiveStack
<1>3. ASSUME NEW cid \in Slots, co_join(cid) PROVE TaskCountExact'
  BY <1>b, <1>3 DEF co_join, Allocated
<1>4. CASE JoinWait
  BY <1>b, <1>4 DEF JoinWait, Allocated
<1>5. CASE JoinReap
  <2>1. joining[current] \in Slots
    BY <1>a, <1>5 DEF JoinReap, Exited, Release
  <2>2. Allocated' = Allocated \ {joining[current]} /\ joining[current] \in Allocated
    BY <1>a, <1>5, <2>1 DEF JoinReap, Exited, Release, Allocated
  <2>3. Cardinality(Allocated') = Cardinality(Allocated) - 1
    BY <2>2, AllocatedFinite, FS_RemoveElement
  <2> QED
    BY <1>5, <2>3 DEF JoinReap, Exited, Release
<1>6. CASE Finish
  BY <1>a, <1>b, <1>6 DEF Finish, Ended, InUserCode, Allocated, RunsOnLiveStack
<1>7. CASE WakeScan
  BY <1>a, <1>b, <1>7 DEF WakeScan, Allocated
<1>8. ASSUME NEW next \in Slots, Pick(next) PROVE TaskCountExact'
  BY <1>b, <1>8 DEF Pick, Allocated
<1>9. CASE Repeat
  BY <1>b, <1>9 DEF Repeat, Allocated
<1>10. CASE Tick
  BY <1>b, <1>10 DEF Tick, Allocated
<1>11. CASE UNCHANGED vars
  BY <1>b, <1>11 DEF vars, Allocated
<1> QED
  BY <1>1, <1>2, <1>3, <1>4, <1>5, <1>6, <1>7, <1>8, <1>9, <1>10, <1>11 DEF Next

\* thread_env->task_count is the number of control blocks in the table.
THEOREM TaskCountCorrect == Spec => []TaskCountExact
<1>1. Init => TaskCountExact
  <2> SUFFICES ASSUME Init PROVE TaskCountExact
    OBVIOUS
  <2>1. Allocated = {0}
    BY SchedAssumption DEF Init, Allocated
  <2> QED
    BY <2>1, FS_Singleton DEF Init, TaskCountExact
<1> QED
  BY <1>1, NextTaskCount, Invariance, PTL DEF Spec

-----------------------------------------------------------------------------
\* The initial task is the one thread of Coop that exists from the start.
LEMMA InitRefines == Init => Abstract!CInit
BY SchedAssumption DEF Init, Abstract!CInit, AbsState, AbsCpu

\* Every step of the scheduler is a step of Coop or none.
LEMMA NextRefines == IInv /\ [Next]_vars => [Abstract!CNext]_(Abstract!cvars)
<1> SUFFICES ASSUME IInv, [Next]_vars PROVE [Abstract!CNext]_(Abstract!cvars)
  OBVIOUS
<1>a. TypeOK /\ RunsOnLiveStack /\ JoinersPoll
  BY DEF IInv
<1> USE SchedAssumption DEF TypeOK
<1>b. ASSUME UNCHANGED <<status, phase, current>>
      PROVE  UNCHANGED Abstract!cvars
  BY <1>b DEF Abstract!cvars, AbsState, AbsCpu
<1>1. ASSUME NEW id \in Slots, co_create(id) PROVE Abstract!CNext
  <2>1. status[id] = Free /\ status' = [status EXCEPT ![id] = "RUNNING"]
    BY <1>1 DEF co_create, FirstFree
  <2>2. AbsState[id] = "none" /\ AbsState' = [AbsState EXCEPT ![id] = "ready"]
    BY <1>a, <2>1 DEF AbsState
  <2>3. AbsCpu = {current} /\ AbsCpu' = AbsCpu
    BY <1>1 DEF co_create, InUserCode, AbsCpu
  <2>4. Abstract!Spawn(current, id)
    BY <2>2, <2>3 DEF Abstract!Spawn
  <2> QED
    BY <1>a, <2>4 DEF Abstract!CNext
<1>2. ASSUME NEW s \in Seconds, co_sleep(s) PROVE Abstract!CNext
  <2>1. AbsState' = [AbsState EXCEPT ![current] = "asleep"]
    BY <1>a, <1>2 DEF co_sleep, WakeAt, AbsState
  <2>2. AbsCpu = {current} /\ AbsCpu' = {}
    BY <1>2 DEF co_sleep, WakeAt, InUserCode, schedule, AbsCpu
  <2>3. Abstract!Release(current, "asleep")
    BY <2>1, <2>2 DEF Abstract!Release
  <2> QED
    BY <1>a, <2>3 DEF Abstract!CNext
<1>3. ASSUME NEW cid \in Slots, co_join(cid) PROVE UNCHANGED Abstract!cvars
  BY <1>b, <1>3 DEF co_join
<1>4. CASE JoinWait
  <2>1. AbsState' = [AbsState EXCEPT ![current] = "ready"]
    BY <1>a, <1>4 DEF JoinWait, AbsState, RunsOnLiveStack
  <2>2. AbsCpu = {current} /\ AbsCpu' = {}
    BY <1>4 DEF JoinWait, schedule, AbsCpu
  <2>3. Abstract!Release(current, "ready")
    BY <2>1, <2>2 DEF Abstract!Release
  <2> QED
    BY <1>a, <2>3 DEF Abstract!CNext
<1>5. CASE JoinReap
  <2>1. joining[current] \in Slots
    BY <1>a, <1>5 DEF JoinReap, Exited, Release
  <2>2. /\ AbsState[joining[current]] = "done"
        /\ AbsState' = [AbsState EXCEPT ![joining[current]] = "none"]
    BY <1>a, <1>5, <2>1 DEF JoinReap, Exited, Release, AbsState
  <2>3. AbsCpu = {current} /\ AbsCpu' = AbsCpu
    BY <1>5 DEF JoinReap, Exited, Release, AbsCpu
  <2>4. Abstract!Reap(current, joining[current])
    BY <2>2, <2>3 DEF Abstract!Reap
  <2> QED
    BY <1>a, <2>1, <2>4 DEF Abstract!CNext
<1>6. CASE Finish
  <2>1. AbsState' = [AbsState EXCEPT ![current] = "done"]
    BY <1>a, <1>6 DEF Finish, Ended, AbsState
  <2>2. AbsCpu = {current} /\ AbsCpu' = {} /\ current # 0
    BY <1>6 DEF Finish, Ended, InUserCode, schedule, AbsCpu
  <2>3. Abstract!Release(current, "done")
    BY <2>1, <2>2 DEF Abstract!Release
  <2> QED
    BY <1>a, <2>3 DEF Abstract!CNext
<1>7. CASE WakeScan
  <2>1. CASE status' = status
    BY <1>b, <1>7, <2>1 DEF WakeScan
  <2>2. CASE status[scan] = "SLEEP" /\ status' = [status EXCEPT ![scan] = "RUNNING"]
    <3>1. scan \in Slots
      BY <1>a, <1>7 DEF WakeScan
    <3>2. AbsState[scan] = "asleep" /\ AbsState' = [AbsState EXCEPT ![scan] = "ready"]
      BY <1>a, <2>2, <3>1 DEF AbsState
    <3>3. AbsCpu' = AbsCpu
      BY <1>7 DEF WakeScan, AbsCpu
    <3>4. Abstract!Wake(scan)
      BY <3>2, <3>3 DEF Abstract!Wake
    <3> QED
      BY <3>1, <3>4 DEF Abstract!CNext
  <2> QED
    BY <1>7, <2>1, <2>2 DEF WakeScan
<1>8. ASSUME NEW next \in Slots, Pick(next) PROVE Abstract!CNext
  <2>1. AbsState[next] = "ready" /\ AbsState' = AbsState
    BY <1>a, <1>8 DEF Pick, Nearest, Ready, AbsState
  <2>2. AbsCpu = {} /\ AbsCpu' = {next}
    BY <1>8 DEF Pick, AbsCpu
  <2>3. Abstract!Dispatch(next)
    BY <2>1, <2>2 DEF Abstract!Dispatch
  <2> QED
    BY <2>3 DEF Abstract!CNext
<1>9. CASE Repeat
  BY <1>b, <1>9 DEF Repeat
<1>10. CASE Tick
  BY <1>b, <1>10 DEF Tick
<1>11. CASE UNCHANGED vars
  BY <1>b, <1>11 DEF vars
<1> QED
  BY <1>1, <1>2, <1>3, <1>4, <1>5, <1>6, <1>7, <1>8, <1>9, <1>10, <1>11 DEF Next

\* The table, the round robin and the wake-up loop implement cooperative threads.
THEOREM Refinement == Spec => ImplementsCoop
BY InitRefines, NextRefines, Invariance, PTL DEF Spec, ImplementsCoop, Abstract!CSpec
=============================================================================
