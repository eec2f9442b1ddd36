--------------------------- MODULE ThreadsProofs ---------------------------
(***************************************************************************)
(* Theorems about Threads: for any number of threads, table size and slots, *)
(* while live threads' ids differ modulo the table size (Apart).  And about *)
(* Demo01, a program on them: for any bound on the turns of its loops too.  *)
(***************************************************************************)
EXTENDS Demo01, SequenceTheorems, TLAPS

(***************************************************************************)
(* The inductive invariant.  RunsCurrent alone is not inductive: it depends *)
(* on where the saved stack pointers lead, and for an inherited environment *)
(* on its former thread having ended in slot 0.                             *)
(***************************************************************************)
EnvsDiffer == \A t, u \in Threads : Live(t) /\ Live(u) /\ t # u => Env(t) # Env(u)

\* a thread schedules only inside an environment of its own
PicksInEnv ==
  \A t \in Threads : phase[t] = "pick" => Live(t) /\ g_thread_env_arr[Env(t)]

\* a thread without an environment is on the stack it began on
BeginsOnOwn ==
  \A t \in Threads : Live(t) /\ ~g_thread_env_arr[Env(t)] => stack[t] = Own(t)

\* slot 0 is current in an environment that no thread uses, or not yet
IdleAtZero ==
  \A k \in Indices :
    ~g_thread_env_arr[k] \/ (\A t \in Threads : Live(t) => Env(t) # k) => current[k] = 0

\* the initial task neither exits nor is it freed
InitialStays ==
  \A k \in Indices : g_thread_env_arr[k] => task[k][0] \in {"RUNNING", "SLEEP"}

\* a coroutine that has lost the CPU is saved on its own stack, ...
BlocksSaved ==
  \A k \in Indices, i \in Slots \ {0} :
    g_thread_env_arr[k] /\ task[k][i] # Free /\ i # current[k] => esp[k][i] = Block(k, i)

\* ... the initial task on that of the thread
InitialSaved ==
  \A t \in Threads :
    Live(t) /\ g_thread_env_arr[Env(t)] /\ current[Env(t)] # 0 => esp[Env(t)][0] = Own(t)

\* a thread that has no environment, or has ended, is not in co_join
JoinsInEnv ==
  \A t \in Threads :
    joining[Own(t)] # NoJoin => Live(t) /\ g_thread_env_arr[Env(t)]

Usage == RunsCurrent /\ EnvsDiffer /\ PicksInEnv /\ BeginsOnOwn /\ IdleAtZero /\ JoinsInEnv
Saves == InitialStays /\ BlocksSaved /\ InitialSaved

TInv == TTypeOK /\ Usage /\ Saves

USE DEF Usage, Saves

LEMMA EnvIsIndex ==
  ASSUME tid \in [Threads -> Tids \cup {NoTid}], NEW t \in Threads, Live(t)
  PROVE  Env(t) \in Indices
<1>1. tid[t] \in Nat
  BY ThreadsAssumption DEF Live
<1>2. \A a \in Nat : a % MAX_THREAD_NUM \in 0 .. MAX_THREAD_NUM - 1
  BY ThreadsAssumption
<1> QED
  BY <1>1, <1>2, Zenon DEF Env, Indices

LEMMA ZeroIsSlot == 0 \in Slots
BY ThreadsAssumption DEF Slots

\* Stacks have different names.
LEMMA StackNames ==
  /\ \A t \in Threads : Own(t) \in Stacks
  /\ \A k \in Indices, i \in Slots : Block(k, i) \in Stacks
  /\ \A t, u \in Threads : Own(t) = Own(u) => t = u
  /\ \A t \in Threads, k \in Indices, i \in Slots : Own(t) # Block(k, i)
  /\ \A k, l \in Indices, i, j \in Slots : Block(k, i) = Block(l, j) => k = l /\ i = j
BY DEF Own, Block, Stacks

\* What pick() may choose has its stack: the invariant gives ReadyHasStack.
LEMMA ReadyStack ==
  ASSUME TInv, NEW t \in Threads, Live(t), g_thread_env_arr[Env(t)],
         NEW i \in Ready(Env(t)), i # current[Env(t)]
  PROVE  esp[Env(t)][i] = StackOf(t, i)
<1>1. Env(t) \in Indices /\ i \in Slots /\ task[Env(t)][i] # Free
  BY EnvIsIndex DEF TInv, TTypeOK, Ready, Free
<1>2. CASE i = 0
  BY <1>2 DEF TInv, InitialSaved, StackOf
<1>3. CASE i # 0
  BY <1>1, <1>3 DEF TInv, BlocksSaved, StackOf
<1> QED BY <1>2, <1>3

-----------------------------------------------------------------------------
\* The variables have their types at first, and keep them: that the thread goes on
\* on a stack at all, not at NoStack, follows only from the whole invariant.
LEMMA InitTypes == TInit => TTypeOK
BY ThreadsAssumption, ZeroIsSlot, StackNames
   DEF TInit, TTypeOK, Statuses, Indices, Free

LEMMA NextTypes == TInv /\ [TNext]_tvars => TTypeOK'
<1> SUFFICES ASSUME TInv, [TNext]_tvars PROVE TTypeOK'
  OBVIOUS
<1>0. TTypeOK
  BY DEF TInv
<1> USE <1>0 DEF TTypeOK
<1>1. ASSUME NEW t \in Threads, NEW id \in Tids, pthread_create(t, id) PROVE TTypeOK'
  BY <1>1, StackNames DEF pthread_create
<1>2. ASSUME NEW t \in Threads, thread_returns(t) PROVE TTypeOK'
  BY <1>2 DEF thread_returns
<1>3. ASSUME NEW t \in Threads, co_get_thread_env(t) PROVE TTypeOK'
  BY <1>3 DEF co_get_thread_env, Statuses, Free
<1>4. ASSUME NEW t \in Threads, NEW id \in Slots, co_create(t, id) PROVE TTypeOK'
  <2>1. Env(t) \in Indices
    BY <1>4, EnvIsIndex DEF co_create, InLibrary, InProgram
  <2> QED
    BY <1>4, <2>1, StackNames DEF co_create, Statuses
<1>5. ASSUME NEW t \in Threads, co_sleep(t) PROVE TTypeOK'
  BY <1>5 DEF co_sleep, schedule, Statuses
<1>6. ASSUME NEW t \in Threads, NEW cid \in Slots, co_join(t, cid) PROVE TTypeOK'
  <2>1. Env(t) \in Indices
    BY <1>6, EnvIsIndex DEF co_join, InLibrary, InProgram
  <2> QED
    BY <1>6, <2>1 DEF co_join
<1>7. ASSUME NEW t \in Threads, JoinWait(t) PROVE TTypeOK'
  BY <1>7 DEF JoinWait, schedule
<1>8. ASSUME NEW t \in Threads, JoinReap(t) PROVE TTypeOK'
  BY <1>8 DEF JoinReap, Free
<1>9. ASSUME NEW t \in Threads, finish(t) PROVE TTypeOK'
  BY <1>9 DEF finish, schedule, Statuses
<1>10. ASSUME NEW t \in Threads, NEW i \in Slots, WakeUp(t, i) PROVE TTypeOK'
  BY <1>10 DEF WakeUp, Statuses
<1>11. ASSUME NEW t \in Threads, NEW next \in Slots, Pick(t, next) PROVE TTypeOK'
  <2>1. current' \in [Indices -> Slots] /\ phase' \in [Threads -> {"run", "pick"}]
    BY <1>11 DEF Pick, SetCurrent
  <2>2. /\ Live(t) /\ g_thread_env_arr[Env(t)] /\ Env(t) \in Indices
        /\ next \in Ready(Env(t))
    BY <1>11, EnvIsIndex DEF Pick, TInv, PicksInEnv
  <2>3. StackOf(t, next) \in Stacks
    BY <2>2, StackNames DEF StackOf
  <2>4. CASE next = current[Env(t)]
    BY <1>11, <2>1, <2>4 DEF Pick, co_switch_to
  <2>5. CASE next # current[Env(t)]
    <3>1. esp[Env(t)][next] \in Stacks
      BY <2>2, <2>3, <2>5, ReadyStack
    <3>2. esp' = Saved(t) /\ stack' = [stack EXCEPT ![t] = esp[Env(t)][next]]
      BY <1>11, <2>5 DEF Pick, co_switch_to
    <3> HIDE DEF TTypeOK
    <3>3. stack' \in [Threads -> Stacks]
      BY <1>0, <3>1, <3>2 DEF TTypeOK
    <3>4. stack[t] \in Stacks /\ esp \in [Indices -> [Slots -> Stacks \cup {NoStack}]]
      BY <1>0 DEF TTypeOK
    <3>5. esp' \in [Indices -> [Slots -> Stacks \cup {NoStack}]]
      BY <3>2, <3>4 DEF Saved
    <3> QED
      BY <1>0, <1>11, <2>1, <3>3, <3>5 DEF Pick, TTypeOK
  <2> QED
    BY <2>4, <2>5
<1>12. CASE UNCHANGED tvars
  BY <1>12 DEF tvars
<1> QED
  BY <1>1, <1>2, <1>3, <1>4, <1>5, <1>6, <1>7, <1>8, <1>9, <1>10, <1>11, <1>12
     DEF TNext, Thread

-----------------------------------------------------------------------------
LEMMA InitInv == TInit => TInv
<1> SUFFICES ASSUME TInit PROVE TInv
  OBVIOUS
<1>1. TTypeOK
  BY InitTypes
<1>2. \A t \in Threads : Live(t) => t = first
  BY DEF TInit, Live
<1>3. EnvsDiffer
  BY <1>2 DEF EnvsDiffer
<1>4. \A t \in Threads : Live(t) => Env(t) \in Indices
  BY <1>1, EnvIsIndex DEF TTypeOK
<1>5. /\ RunsCurrent /\ PicksInEnv /\ BeginsOnOwn /\ IdleAtZero /\ JoinsInEnv
      /\ InitialStays /\ BlocksSaved /\ InitialSaved
  BY <1>4, StackNames
     DEF TInit, RunsCurrent, PicksInEnv, BeginsOnOwn, IdleAtZero, JoinsInEnv,
         InitialStays, BlocksSaved, InitialSaved
<1> QED
  BY <1>1, <1>3, <1>5 DEF TInv

\* The index of a thread depends on its id only.
LEMMA SameIndex ==
  ASSUME NEW t \in Threads, tid'[t] = tid[t]
  PROVE  Env(t)' = Env(t) /\ (Live(t)' <=> Live(t))
BY DEF Env, Live

\* Where a thread stands that is about to call or return.
LEMMA Position ==
  ASSUME TInv, NEW t \in Threads, Live(t)
  PROVE  /\ Env(t) \in Indices /\ current[Env(t)] \in Slots
         /\ stack[t] = Own(t) => current[Env(t)] = 0
         /\ stack[t] # Own(t) => g_thread_env_arr[Env(t)]
<1>1. Env(t) \in Indices
  BY EnvIsIndex DEF TInv, TTypeOK
<1>2. current[Env(t)] \in Slots
  BY <1>1 DEF TInv, TTypeOK
<1>3. stack[t] # Own(t) => g_thread_env_arr[Env(t)]
  BY DEF TInv, BeginsOnOwn
<1>4. CASE g_thread_env_arr[Env(t)]
  <2>1. stack[t] = StackOf(t, current[Env(t)])
    BY <1>4 DEF TInv, RunsCurrent
  <2> QED
    BY <1>1, <1>2, <1>3, <2>1, StackNames DEF StackOf
<1>5. CASE ~g_thread_env_arr[Env(t)]
  BY <1>1, <1>2, <1>3, <1>5 DEF TInv, IdleAtZero
<1> QED
  BY <1>4, <1>5

\* Whoever sleeps, joins, creates, exits or schedules has an environment.
LEMMA InEnvironment ==
  ASSUME TInv, NEW t \in Threads,
         \/ co_sleep(t) \/ JoinWait(t) \/ JoinReap(t) \/ finish(t)
         \/ \E i \in Slots : co_create(t, i) \/ co_join(t, i) \/ WakeUp(t, i)
  PROVE  Live(t) /\ g_thread_env_arr[Env(t)]
<1>1. CASE JoinWait(t) \/ JoinReap(t)
  <2>1. Live(t) /\ joining[stack[t]] # NoJoin
    BY <1>1 DEF JoinWait, JoinReap, InJoin
  <2>2. CASE stack[t] = Own(t)
    BY <2>1, <2>2 DEF TInv, JoinsInEnv
  <2> QED
    BY <2>1, <2>2, Position
<1>2. CASE finish(t)
  <2>1. Live(t) /\ \E k \in Indices, i \in Slots : stack[t] = Block(k, i)
    BY <1>2 DEF finish, InProgram
  <2> QED
    BY <2>1, StackNames, Position
<1>3. CASE \E i \in Slots : WakeUp(t, i)
  BY <1>3 DEF TInv, PicksInEnv, WakeUp
<1>4. CASE co_sleep(t) \/ \E i \in Slots : co_create(t, i) \/ co_join(t, i)
  BY <1>4 DEF co_sleep, co_create, co_join, InLibrary, InProgram
<1> QED
  BY <1>1, <1>2, <1>3, <1>4

\* A step that changes only the status of a slot, or starts or ends a search or
\* a co_join, in the environment of a live thread.
LEMMA NextStatus ==
  ASSUME TInv, NEW t \in Threads,
         \/ co_sleep(t) \/ JoinWait(t) \/ JoinReap(t) \/ finish(t)
         \/ \E i \in Slots : co_create(t, i) \/ co_join(t, i) \/ WakeUp(t, i)
  PROVE  Usage' /\ Saves'
<1> USE ZeroIsSlot
<1>t. TTypeOK
  BY DEF TInv
<1>l. Live(t) /\ g_thread_env_arr[Env(t)]
  BY InEnvironment
<1>s. \A u \in Threads : Env(u)' = Env(u) /\ (Live(u)' <=> Live(u))
  BY SameIndex DEF co_sleep, JoinWait, JoinReap, finish, co_create, co_join, WakeUp
<1>p. Env(t) \in Indices /\ current[Env(t)] \in Slots
  BY <1>l, Position
<1>u. UNCHANGED <<g_thread_env_arr, current, stack>>
  BY DEF co_sleep, JoinWait, JoinReap, finish, co_create, co_join, WakeUp
<1>1. RunsCurrent' /\ EnvsDiffer' /\ BeginsOnOwn' /\ IdleAtZero'
  BY <1>s, <1>u DEF TInv, RunsCurrent, EnvsDiffer, BeginsOnOwn, IdleAtZero, StackOf
<1>2. PicksInEnv'
  BY <1>l, <1>s, <1>t, <1>u
     DEF TInv, TTypeOK, PicksInEnv, co_sleep, JoinWait, JoinReap, finish, schedule,
         co_create, co_join, WakeUp
<1>o. /\ stack[t] = StackOf(t, current[Env(t)]) /\ stack[t] \in Stacks
      /\ \A u \in Threads : stack[t] = Own(u) => u = t
  <2>1. stack[t] = StackOf(t, current[Env(t)])
    BY <1>l DEF TInv, RunsCurrent
  <2> QED
    BY <1>p, <2>1, StackNames DEF StackOf
<1>3. JoinsInEnv'
  <2>1. ASSUME NEW u \in Threads, joining'[Own(u)] # NoJoin, u # t
        PROVE  joining[Own(u)] # NoJoin
    <3>1. Own(u) \in Stacks /\ Own(u) # stack[t]
      BY <1>o, <2>1, StackNames
    <3>2. \/ joining' = joining
          \/ \E v : joining' = [joining EXCEPT ![stack[t]] = v]
      BY DEF co_sleep, JoinWait, JoinReap, finish, co_create, co_join, WakeUp
    <3>3. joining'[Own(u)] = joining[Own(u)]
      BY <1>t, <3>1, <3>2 DEF TTypeOK
    <3> QED
      BY <2>1, <3>3
  <2> QED
    BY <1>l, <1>s, <1>u, <2>1 DEF TInv, JoinsInEnv
\* The status of a slot changes only if it is in use or current, and stays
\* RUNNING or SLEEP in slot 0.
<1>4. ASSUME UNCHANGED esp, NEW k \in Indices, NEW i \in Slots, NEW st,
             task' = [task EXCEPT ![k][i] = st],
             st = Free \/ task[k][i] # Free \/ i = current[k],
             g_thread_env_arr[k] /\ i = 0 => st \in {"RUNNING", "SLEEP"}
      PROVE  Saves'
  <2>1. \A m \in Indices, j \in Slots :
          task'[m][j] = IF m = k /\ j = i THEN st ELSE task[m][j]
    BY <1>4, <1>t DEF TTypeOK
  <2>2. InitialStays'
    BY <1>4, <1>s, <1>t, <1>u, <2>1 DEF TInv, TTypeOK, InitialStays
  <2>3. BlocksSaved' /\ InitialSaved'
    BY <1>4, <1>s, <1>t, <1>u, <2>1 DEF TInv, TTypeOK, BlocksSaved, InitialSaved
  <2> QED
    BY <2>2, <2>3
<1>5. Saves'
  <2>1. CASE JoinWait(t) \/ \E i \in Slots : co_join(t, i)
    BY <2>1, <1>s, <1>u
       DEF JoinWait, co_join, TInv, InitialStays, BlocksSaved, InitialSaved
  <2>2. CASE co_sleep(t)
    <3>1. UNCHANGED esp /\ task' = [task EXCEPT ![Env(t)][current[Env(t)]] = "SLEEP"]
      BY <2>2 DEF co_sleep
    <3> QED
      BY <3>1, <1>4, <1>p
  <2>3. CASE finish(t)
    <3>1. PICK k \in Indices, i \in Slots :
            stack[t] = Block(k, i) /\ task' = [task EXCEPT ![k][i] = "EXIT"]
      BY <2>3 DEF finish
    <3>2. i # 0 /\ i = current[k]
      BY <1>o, <1>p, <3>1, StackNames DEF StackOf
    <3>3. UNCHANGED esp
      BY <2>3 DEF finish
    <3> QED
      BY <3>1, <3>2, <3>3, <1>4
  <2>4. CASE JoinReap(t)
    <3>1. PICK k \in Indices, i \in Slots :
            task[k][i] = "EXIT" /\ task' = [task EXCEPT ![k][i] = Free]
      BY <1>o, <1>t, <2>4 DEF JoinReap, InJoin, Target, Exited, TTypeOK
    <3>2. g_thread_env_arr[k] => i # 0
      BY <3>1 DEF TInv, InitialStays
    <3>3. UNCHANGED esp
      BY <2>4 DEF JoinReap
    <3> QED
      BY <3>1, <3>2, <3>3, <1>4
  <2>5. ASSUME NEW i \in Slots, WakeUp(t, i) PROVE Saves'
    <3>1. /\ UNCHANGED esp /\ task' = [task EXCEPT ![Env(t)][i] = "RUNNING"]
          /\ task[Env(t)][i] # Free
      BY <2>5 DEF WakeUp, Free
    <3> QED
      BY <3>1, <1>4, <1>p
  <2>6. ASSUME NEW id \in Slots, co_create(t, id) PROVE Saves'
    <3>1. /\ task' = [task EXCEPT ![Env(t)][id] = "RUNNING"]
          /\ esp' = [esp EXCEPT ![Env(t)][id] = Block(Env(t), id)]
          /\ id # 0
      BY <1>l, <1>p, <2>6 DEF co_create, TInv, InitialStays, Free
    <3> QED
      BY <3>1, <1>p, <1>s, <1>t, <1>u
         DEF TInv, TTypeOK, InitialStays, BlocksSaved, InitialSaved
  <2> QED
    BY <2>1, <2>2, <2>3, <2>4, <2>5, <2>6
<1> QED
  BY <1>1, <1>2, <1>3, <1>5

\* A thread that ends leaves its environment at slot 0, so that one which begins
\* with the same index finds what its own stack needs; a thread's first call
\* finds slot 0 current.
LEMMA NextThread ==
  ASSUME TInv, NEW t \in Threads,
         \/ co_get_thread_env(t) \/ thread_returns(t)
         \/ \E id \in Tids : pthread_create(t, id)
  PROVE  Usage' /\ Saves'
<1> USE ZeroIsSlot
<1>t. TTypeOK
  BY DEF TInv
<1>1. CASE co_get_thread_env(t)
  <2>1. \A u \in Threads : Env(u)' = Env(u) /\ (Live(u)' <=> Live(u))
    BY <1>1, SameIndex DEF co_get_thread_env
  <2>2. Live(t) /\ ~g_thread_env_arr[Env(t)] /\ Env(t) \in Indices
    BY <1>1, Position DEF co_get_thread_env, InProgram
  <2>3. stack[t] = Own(t) /\ current[Env(t)] = 0
    BY <2>2 DEF TInv, BeginsOnOwn, IdleAtZero
  <2>4. /\ g_thread_env_arr' = [g_thread_env_arr EXCEPT ![Env(t)] = TRUE]
        /\ task' = [task EXCEPT ![Env(t)] =
                      [i \in Slots |-> IF i = 0 THEN "RUNNING" ELSE Free]]
        /\ UNCHANGED <<current, esp, stack, phase, joining>>
    BY <1>1 DEF co_get_thread_env
  <2>5. \A u \in Threads : Live(u) => Env(u) \in Indices
    BY Position
  <2>6. Usage'
    BY <1>t, <2>1, <2>2, <2>3, <2>4, <2>5
       DEF TInv, TTypeOK, RunsCurrent, EnvsDiffer, PicksInEnv, BeginsOnOwn, IdleAtZero,
           JoinsInEnv, StackOf
  <2>7. InitialStays' /\ BlocksSaved'
    BY <1>t, <2>4 DEF TInv, TTypeOK, InitialStays, BlocksSaved
  <2>8. InitialSaved'
    BY <1>t, <2>1, <2>2, <2>3, <2>4, <2>5 DEF TInv, TTypeOK, EnvsDiffer, InitialSaved
  <2> QED
    BY <2>6, <2>7, <2>8
<1>2. CASE thread_returns(t)
  <2>1. /\ Live(t) /\ phase[t] = "run" /\ stack[t] = Own(t) /\ joining[Own(t)] = NoJoin
        /\ tid' = [tid EXCEPT ![t] = NoTid]
        /\ UNCHANGED <<g_thread_env_arr, task, current, esp, stack, phase, joining>>
    BY <1>2 DEF thread_returns, InProgram
  <2>2. \A u \in Threads : u # t => Env(u)' = Env(u) /\ (Live(u)' <=> Live(u))
    BY <1>t, <2>1 DEF TTypeOK, Env, Live
  <2>3. ~Live(t)'
    BY <1>t, <2>1 DEF TTypeOK, Live
  <2>4. current[Env(t)] = 0
    BY <2>1, Position
  <2>5. Usage'
    BY <2>1, <2>2, <2>3, <2>4
       DEF TInv, RunsCurrent, EnvsDiffer, PicksInEnv, BeginsOnOwn, IdleAtZero,
           JoinsInEnv, StackOf
  <2>6. Saves'
    BY <2>1, <2>2, <2>3 DEF TInv, InitialStays, BlocksSaved, InitialSaved
  <2> QED
    BY <2>5, <2>6
<1>3. ASSUME NEW id \in Tids, pthread_create(t, id) PROVE Usage' /\ Saves'
  <2>1. /\ ~Live(t) /\ tid' = [tid EXCEPT ![t] = id] /\ stack' = [stack EXCEPT ![t] = Own(t)]
        /\ UNCHANGED <<g_thread_env_arr, task, current, esp, phase, joining>>
    BY <1>3 DEF pthread_create
  <2>2. \A u \in Threads : u # t => Env(u)' = Env(u) /\ (Live(u)' <=> Live(u))
    BY <1>t, <2>1 DEF TTypeOK, Env, Live
  <2>3. tid'[t] = id /\ id \in Nat
    BY <1>t, <2>1, ThreadsAssumption DEF TTypeOK
  <2>4. Live(t)' /\ Env(t)' = id % MAX_THREAD_NUM
    BY <2>3 DEF Live, Env, NoTid
  <2>5. \A u \in Threads : Live(u) => Env(u) # Env(t)'
    BY <1>3, <2>4 DEF pthread_create, Apart
  <2>6. Env(t)' \in Indices
    <3>1. \A a \in Nat : a % MAX_THREAD_NUM \in 0 .. MAX_THREAD_NUM - 1
      BY ThreadsAssumption
    <3> QED
      BY <2>3, <2>4, <3>1, Zenon DEF Indices
  <2>7. current[Env(t)'] = 0
    BY <2>5, <2>6 DEF TInv, IdleAtZero
  <2>8. Usage'
    <3>1. /\ stack'[t] = Own(t) /\ \A u \in Threads : u # t => stack'[u] = stack[u]
          /\ joining[Own(t)] = NoJoin /\ phase[t] # "pick"
      BY <1>t, <2>1 DEF TInv, TTypeOK, JoinsInEnv, PicksInEnv
    <3>2. RunsCurrent'
      BY <2>1, <2>2, <2>7, <3>1 DEF TInv, RunsCurrent, StackOf
    <3>3. EnvsDiffer'
      BY <2>2, <2>5 DEF TInv, EnvsDiffer
    <3>4. PicksInEnv' /\ BeginsOnOwn' /\ JoinsInEnv'
      BY <2>1, <2>2, <3>1 DEF TInv, PicksInEnv, BeginsOnOwn, JoinsInEnv
    <3>5. IdleAtZero'
      BY <2>1, <2>2 DEF TInv, IdleAtZero
    <3> QED
      BY <3>2, <3>3, <3>4, <3>5
  <2>9. Saves'
    BY <2>1, <2>2, <2>4, <2>7 DEF TInv, InitialStays, BlocksSaved, InitialSaved
  <2> QED
    BY <2>8, <2>9
<1> QED
  BY <1>1, <1>2, <1>3

\* schedule() goes on with the coroutine whose slot it makes current.
LEMMA NextPick ==
  ASSUME TInv, NEW t \in Threads, NEW next \in Slots, Pick(t, next)
  PROVE  Usage' /\ Saves'
<1> USE ZeroIsSlot
<1>t. TTypeOK
  BY DEF TInv
<1>1. /\ phase[t] = "pick" /\ next \in Ready(Env(t))
      /\ current' = [current EXCEPT ![Env(t)] = next]
      /\ phase' = [phase EXCEPT ![t] = "run"]
      /\ UNCHANGED <<tid, g_thread_env_arr, task, joining>>
  BY DEF Pick, SetCurrent
<1>2. Live(t) /\ g_thread_env_arr[Env(t)]
  BY <1>1 DEF TInv, PicksInEnv
<1>3. Env(t) \in Indices /\ current[Env(t)] \in Slots
  BY <1>2, Position
<1>4. \A u \in Threads : Env(u)' = Env(u) /\ (Live(u)' <=> Live(u))
  BY <1>1, SameIndex
<1>5. \A u \in Threads : Live(u) => Env(u) \in Indices /\ (u # t => Env(u) # Env(t))
  BY <1>2, Position DEF TInv, EnvsDiffer
<1>6. stack'[t] = StackOf(t, next) /\ \A u \in Threads : u # t => stack'[u] = stack[u]
  <2>1. CASE next = current[Env(t)]
    BY <1>2, <2>1 DEF Pick, co_switch_to, TInv, RunsCurrent
  <2>2. CASE next # current[Env(t)]
    <3>1. stack' = [stack EXCEPT ![t] = esp[Env(t)][next]]
      BY <2>2 DEF Pick, co_switch_to
    <3> QED
      BY <1>1, <1>2, <1>t, <2>2, <3>1, ReadyStack DEF TTypeOK
  <2> QED
    BY <2>1, <2>2
<1>7. RunsCurrent' /\ EnvsDiffer'
  BY <1>t, <1>1, <1>3, <1>4, <1>5, <1>6
     DEF TInv, TTypeOK, RunsCurrent, EnvsDiffer, StackOf
<1>8. PicksInEnv' /\ BeginsOnOwn' /\ IdleAtZero' /\ JoinsInEnv'
  BY <1>t, <1>1, <1>2, <1>3, <1>4, <1>5, <1>6
     DEF TInv, TTypeOK, PicksInEnv, BeginsOnOwn, IdleAtZero, JoinsInEnv
<1>9. InitialStays'
  BY <1>1 DEF TInv, InitialStays
<1>10. BlocksSaved' /\ InitialSaved'
  <2>1. CASE next = current[Env(t)]
    BY <1>t, <1>1, <1>3, <1>4, <2>1
       DEF Pick, co_switch_to, TInv, TTypeOK, BlocksSaved, InitialSaved
  <2>2. CASE next # current[Env(t)]
    <3>1. esp' = [esp EXCEPT ![Env(t)][current[Env(t)]] = StackOf(t, current[Env(t)])]
      BY <1>2, <2>2 DEF Pick, co_switch_to, Saved, TInv, RunsCurrent
    <3>2. BlocksSaved'
      BY <1>t, <1>1, <1>3, <3>1 DEF TInv, TTypeOK, BlocksSaved, StackOf
    <3>3. InitialSaved'
      BY <1>t, <1>1, <1>3, <1>4, <1>5, <3>1 DEF TInv, TTypeOK, InitialSaved, StackOf
    <3> QED
      BY <3>2, <3>3
  <2> QED
    BY <2>1, <2>2
<1> QED
  BY <1>7, <1>8, <1>9, <1>10

LEMMA NextInv == TInv /\ [TNext]_tvars => TInv'
<1> SUFFICES ASSUME TInv, [TNext]_tvars PROVE Usage' /\ Saves'
  BY NextTypes DEF TInv
<1>1. ASSUME NEW t \in Threads, Thread(t) PROVE Usage' /\ Saves'
  BY <1>1, NextStatus, NextThread, NextPick DEF Thread
<1>2. ASSUME NEW t \in Threads, NEW id \in Tids, pthread_create(t, id)
      PROVE  Usage' /\ Saves'
  BY <1>2, NextThread
<1>3. CASE UNCHANGED tvars
  <2>1. \A u \in Threads : Env(u)' = Env(u) /\ (Live(u)' <=> Live(u))
    BY <1>3, SameIndex DEF tvars
  <2> QED
    BY <1>3, <2>1
       DEF tvars, TInv, RunsCurrent, EnvsDiffer, PicksInEnv, BeginsOnOwn, IdleAtZero,
           JoinsInEnv, InitialStays, BlocksSaved, InitialSaved, StackOf
<1> QED
  BY <1>1, <1>2, <1>3 DEF TNext

LEMMA ThreadsInvariance == TSpec => []TInv
BY InitInv, NextInv, PTL DEF TSpec

-----------------------------------------------------------------------------
\* The table of environments, their slots and the stacks keep their types: a
\* thread is never switched to a slot without a stack.
THEOREM ThreadsTypeCorrect == TSpec => []TTypeOK
<1>1. TInv => TTypeOK
  BY DEF TInv
<1> QED
  BY <1>1, ThreadsInvariance, PTL

\* co_get_thread_env() finds the coroutine that executes, also in an inherited
\* environment.
THEOREM RightCurrent == TSpec => []RunsCurrent
<1>1. TInv => RunsCurrent
  BY DEF TInv
<1> QED
  BY <1>1, ThreadsInvariance, PTL

\* Each coroutine that pick() may choose has been saved on its own stack.
THEOREM RightStack == TSpec => []ReadyHasStack
<1>1. TInv => ReadyHasStack
  BY ReadyStack DEF ReadyHasStack
<1> QED
  BY <1>1, ThreadsInvariance, PTL

\* Threads never share a stack, however many there are and however they end and
\* begin.
THEOREM OwnStacks == TSpec => []StacksDiffer
<1>1. ASSUME TInv, NEW t \in Threads, NEW u \in Threads, Live(t), Live(u), t # u
      PROVE  stack[t] # stack[u]
  <2> DEFINE On(v) == \/ stack[v] = Own(v)
                      \/ \E i \in Slots : stack[v] = Block(Env(v), i)
  <2>1. ASSUME NEW v \in Threads, Live(v) PROVE On(v) /\ Env(v) \in Indices
    BY <1>1, <2>1, Position DEF TInv, RunsCurrent, BeginsOnOwn, StackOf
  <2>2. Env(t) # Env(u)
    BY <1>1 DEF TInv, EnvsDiffer
  <2> QED
    BY <1>1, <2>1, <2>2, StackNames
<1>2. TInv => StacksDiffer
  BY <1>1 DEF StacksDiffer
<1> QED
  BY <1>2, ThreadsInvariance, PTL
-----------------------------------------------------------------------------
(***************************************************************************)
(* Each environment is a package of cooperative threads, for any number of  *)
(* threads, environments and slots.                                         *)
(***************************************************************************)

(***************************************************************************)
(* What the refinement needs beside TInv.                                   *)
(***************************************************************************)
Unused == \A k \in Indices : ~g_thread_env_arr[k] => \A i \in Slots : task[k][i] = Free

\* the coroutine that executes is runnable, also while its thread has ended
Alive ==
  \A k \in Indices : g_thread_env_arr[k] => task[k][current[k]] = "RUNNING" \/ Picking(k)

\* a coroutine joins one of its own environment
JoinsHome ==
  /\ \A k \in Indices, i \in Slots :
       joining[Block(k, i)] # NoJoin => joining[Block(k, i)].env = k
  /\ \A t \in Threads : joining[Own(t)] # NoJoin => joining[Own(t)].env = Env(t)

RInv == TInv /\ Unused /\ Alive /\ JoinsHome

USE ZeroIsSlot

\* What holds of a thread in an environment, in its program or in schedule().
LEMMA Here ==
  ASSUME RInv, NEW t \in Threads, Live(t), g_thread_env_arr[Env(t)]
  PROVE  /\ Env(t) \in Indices /\ current[Env(t)] \in Slots
         /\ stack[t] = StackOf(t, current[Env(t)])
         /\ joining[stack[t]] # NoJoin => joining[stack[t]].env = Env(t)
         /\ Picking(Env(t)) <=> phase[t] = "pick"
         /\ phase[t] = "run" => task[Env(t)][current[Env(t)]] = "RUNNING"
<1>1. Env(t) \in Indices /\ current[Env(t)] \in Slots
  BY Position DEF RInv
<1>2. stack[t] = StackOf(t, current[Env(t)])
  BY DEF RInv, TInv, RunsCurrent
<1>3. joining[stack[t]] # NoJoin => joining[stack[t]].env = Env(t)
  BY <1>1, <1>2 DEF RInv, JoinsHome, StackOf
<1>4. Picking(Env(t)) <=> phase[t] = "pick"
  BY DEF RInv, TInv, EnvsDiffer, Picking
<1>5. phase[t] = "run" => task[Env(t)][current[Env(t)]] = "RUNNING"
  BY <1>1, <1>4 DEF RInv, Alive
<1> QED
  BY <1>1, <1>2, <1>3, <1>4, <1>5

\* A thread enters and leaves schedule() for its own environment only.
LEMMA PickingNext ==
  ASSUME RInv, NEW t \in Threads, Live(t), NEW e \in Indices, e = Env(t), UNCHANGED tid,
         \A u \in Threads : u # t => phase'[u] = phase[u]
  PROVE  /\ \A k \in Indices : k # e => (Picking(k)' <=> Picking(k))
         /\ Picking(e)' <=> phase'[t] = "pick"
<1>1. \A u \in Threads : Env(u)' = Env(u) /\ (Live(u)' <=> Live(u))
  BY SameIndex
<1>2. \A u \in Threads : Live(u) /\ u # t => Env(u) # e
  BY DEF RInv, TInv, EnvsDiffer
<1>3. ASSUME NEW k \in Indices, k # e PROVE Picking(k)' <=> Picking(k)
  BY <1>1, <1>3 DEF Picking
<1>4. Picking(e)' <=> phase'[t] = "pick"
  BY <1>1, <1>2 DEF Picking
<1> QED
  BY <1>3, <1>4

\* The status of a slot, and of its thread in Coop.
LEMMA AbsStateNext ==
  ASSUME TTypeOK, NEW k \in Indices, NEW i \in Slots, NEW st \in Statuses \cup {Free},
         task' = [task EXCEPT ![k][i] = st]
  PROVE  /\ \A l \in Indices : l # k => AbsState(l)' = AbsState(l)
         /\ st = "RUNNING" => AbsState(k)' = [AbsState(k) EXCEPT ![i] = "ready"]
         /\ st = "SLEEP" => AbsState(k)' = [AbsState(k) EXCEPT ![i] = "asleep"]
         /\ st = "EXIT" => AbsState(k)' = [AbsState(k) EXCEPT ![i] = "done"]
         /\ st = Free /\ i # 0 => AbsState(k)' = [AbsState(k) EXCEPT ![i] = "none"]
<1>1. \A l \in Indices : l # k => task'[l] = task[l]
  BY DEF TTypeOK
<1>2. \A j \in Slots : task'[k][j] = IF j = i THEN st ELSE task[k][j]
  BY DEF TTypeOK
<1>3. \A l \in Indices : l # k => AbsState(l)' = AbsState(l)
  BY <1>1 DEF AbsState
<1>4. st = "RUNNING" => AbsState(k)' = [AbsState(k) EXCEPT ![i] = "ready"]
  BY <1>2 DEF AbsState
<1>5. st = "SLEEP" => AbsState(k)' = [AbsState(k) EXCEPT ![i] = "asleep"]
  BY <1>2 DEF AbsState
<1>6. st = "EXIT" => AbsState(k)' = [AbsState(k) EXCEPT ![i] = "done"]
  BY <1>2 DEF AbsState
<1>7. st = Free /\ i # 0 => AbsState(k)' = [AbsState(k) EXCEPT ![i] = "none"]
  BY <1>2 DEF AbsState, Free
<1> QED
  BY <1>3, <1>4, <1>5, <1>6, <1>7

\* An environment that a step does not touch.
LEMMA AbsSame ==
  ASSUME NEW k \in Indices, task'[k] = task[k], current'[k] = current[k],
         Picking(k)' <=> Picking(k)
  PROVE  UNCHANGED <<AbsState(k), AbsCpu(k)>>
BY DEF AbsState, AbsCpu

\* Each environment makes a step of Coop or none.
Steps ==
  \A k \in Indices : EnvCoop(k)!CNext \/ UNCHANGED <<AbsState(k), AbsCpu(k)>>

\* It is enough to look at the environment of the thread that takes the step.
LEMMA OwnStep ==
  ASSUME RInv, NEW t \in Threads, Live(t), NEW e \in Indices, e = Env(t),
         g_thread_env_arr[e], UNCHANGED <<tid, g_thread_env_arr>>,
         \A u \in Threads : u # t => phase'[u] = phase[u],
         \A k \in Indices : k # e => task'[k] = task[k] /\ current'[k] = current[k],
         task'[e][current'[e]] = "RUNNING" \/ phase'[t] = "pick",
         EnvCoop(e)!CNext \/ UNCHANGED <<AbsState(e), AbsCpu(e)>>
  PROVE  Unused' /\ Alive' /\ Steps
<1>1. /\ \A k \in Indices : k # e => (Picking(k)' <=> Picking(k))
      /\ Picking(e)' <=> phase'[t] = "pick"
  BY PickingNext
<1>2. Unused'
  BY DEF RInv, Unused
<1>3. Alive'
  <2>1. ASSUME NEW k \in Indices, g_thread_env_arr'[k], k # e
        PROVE  task'[k][current'[k]] = "RUNNING" \/ Picking(k)'
    BY <1>1, <2>1 DEF RInv, Alive
  <2>2. task'[e][current'[e]] = "RUNNING" \/ Picking(e)'
    BY <1>1
  <2> QED
    BY <2>1, <2>2 DEF Alive
<1>4. Steps
  <2>1. ASSUME NEW k \in Indices, k # e PROVE UNCHANGED <<AbsState(k), AbsCpu(k)>>
    BY <1>1, <2>1, AbsSame
  <2> QED
    BY <2>1 DEF Steps
<1> QED
  BY <1>2, <1>3, <1>4

\* co_sleep, one turn of co_join's loop and the end of a coroutine give the CPU back.
LEMMA GiveBack ==
  ASSUME RInv, NEW t \in Threads, co_sleep(t) \/ JoinWait(t) \/ finish(t)
  PROVE  Unused' /\ Alive' /\ Steps
<1>t. TInv /\ TTypeOK
  BY DEF RInv, TInv
<1>1. Live(t) /\ g_thread_env_arr[Env(t)]
  BY <1>t, InEnvironment
<1>2. PICK e \in Indices, c \in Slots :
        /\ e = Env(t) /\ c = current[e] /\ g_thread_env_arr[e] /\ stack[t] = StackOf(t, c)
        /\ Picking(e) <=> phase[t] = "pick"
        /\ phase[t] = "run" => task[e][c] = "RUNNING"
  BY <1>1, Here
<1>3. /\ phase[t] = "run" /\ phase' = [phase EXCEPT ![t] = "pick"]
      /\ UNCHANGED <<tid, g_thread_env_arr, current>>
  BY DEF co_sleep, JoinWait, finish, schedule, InLibrary, InProgram, InJoin
<1>4. AbsCpu(e) = {c} /\ AbsCpu(e)' = {}
  <2>1. Picking(e)' <=> phase'[t] = "pick"
    BY <1>t, <1>1, <1>2, <1>3, PickingNext DEF TTypeOK
  <2> QED
    BY <1>t, <1>2, <1>3, <2>1 DEF AbsCpu, TTypeOK
<1>5. \/ task' = [task EXCEPT ![e][c] = "SLEEP"]
      \/ task' = [task EXCEPT ![e][c] = "RUNNING"]
      \/ task' = [task EXCEPT ![e][c] = "EXIT"] /\ c # 0
  <2>1. CASE co_sleep(t)
    BY <1>2, <2>1 DEF co_sleep
  <2>2. CASE JoinWait(t)
    <3>1. task[e][c] = "RUNNING" /\ task' = task
      BY <1>2, <1>3, <2>2 DEF JoinWait
    <3>2. [task[e] EXCEPT ![c] = "RUNNING"] = task[e]
      BY <1>t, <3>1 DEF TTypeOK
    <3>3. [task EXCEPT ![e] = task[e]] = task
      BY <1>t DEF TTypeOK
    <3> QED
      BY <3>1, <3>2, <3>3
  <2>3. CASE finish(t)
    <3>1. PICK k \in Indices, i \in Slots :
            stack[t] = Block(k, i) /\ task' = [task EXCEPT ![k][i] = "EXIT"]
      BY <2>3 DEF finish
    <3>2. k = e /\ i = c /\ c # 0
      BY <1>2, <3>1, StackNames DEF StackOf
    <3> QED
      BY <3>1, <3>2
  <2> QED
    BY <2>1, <2>2, <2>3
<1>6. PICK st \in {"ready", "asleep", "done"} :
        AbsState(e)' = [AbsState(e) EXCEPT ![c] = st] /\ (st = "done" => c # 0)
  <2>1. "SLEEP" \in Statuses /\ "RUNNING" \in Statuses /\ "EXIT" \in Statuses
    BY DEF Statuses
  <2>2. CASE task' = [task EXCEPT ![e][c] = "SLEEP"]
    BY <1>t, <2>1, <2>2, AbsStateNext
  <2>3. CASE task' = [task EXCEPT ![e][c] = "RUNNING"]
    BY <1>t, <2>1, <2>3, AbsStateNext
  <2>4. CASE task' = [task EXCEPT ![e][c] = "EXIT"] /\ c # 0
    BY <1>t, <2>1, <2>4, AbsStateNext
  <2> QED
    BY <1>5, <2>2, <2>3, <2>4
<1>7. EnvCoop(e)!Release(c, st)
  BY <1>4, <1>6 DEF EnvCoop!Release
<1>8. EnvCoop(e)!CNext
  BY <1>2, <1>7 DEF EnvCoop!CNext
<1>9. phase'[t] = "pick" /\ \A u \in Threads : u # t => phase'[u] = phase[u]
  BY <1>t, <1>3 DEF TTypeOK
<1>10. \A k \in Indices : k # e => task'[k] = task[k]
  BY <1>t, <1>5 DEF TTypeOK
<1> QED
  BY <1>1, <1>2, <1>3, <1>8, <1>9, <1>10, OwnStep

\* The calls that leave the CPU where it is: co_create, co_join and its end.
LEMMA Carry ==
  ASSUME RInv, NEW t \in Threads,
         JoinReap(t) \/ \E i \in Slots : co_create(t, i) \/ co_join(t, i)
  PROVE  Unused' /\ Alive' /\ Steps
<1>t. TInv /\ TTypeOK
  BY DEF RInv, TInv
<1>1. Live(t) /\ g_thread_env_arr[Env(t)]
  BY <1>t, InEnvironment
<1>2. PICK e \in Indices, c \in Slots :
        /\ e = Env(t) /\ c = current[e] /\ g_thread_env_arr[e]
        /\ joining[stack[t]] # NoJoin => joining[stack[t]].env = e
        /\ Picking(e) <=> phase[t] = "pick"
        /\ phase[t] = "run" => task[e][c] = "RUNNING"
  BY <1>1, Here
<1>3. /\ phase[t] = "run"
      /\ UNCHANGED <<tid, g_thread_env_arr, current, phase>>
  BY DEF JoinReap, co_create, co_join, InLibrary, InProgram, InJoin
<1>4. AbsCpu(e) = {c} /\ AbsCpu(e)' = {c}
  <2>1. Picking(e)' <=> phase'[t] = "pick"
    BY <1>1, <1>2, <1>3, PickingNext
  <2> QED
    BY <1>2, <1>3, <2>1 DEF AbsCpu
<1>5. ASSUME NEW i \in Slots, co_create(t, i) PROVE Unused' /\ Alive' /\ Steps
  <2>1. i # 0 /\ task[e][i] = Free /\ task' = [task EXCEPT ![e][i] = "RUNNING"]
    BY <1>2, <1>5, <1>t DEF co_create, TInv, InitialStays, Free
  <2>2. AbsState(e)[i] = "none" /\ AbsState(e)' = [AbsState(e) EXCEPT ![i] = "ready"]
    BY <1>t, <2>1, AbsStateNext DEF AbsState, Statuses, Free
  <2>3. EnvCoop(e)!Spawn(c, i)
    BY <1>4, <2>2 DEF EnvCoop!Spawn
  <2>4. EnvCoop(e)!CNext
    BY <2>3 DEF EnvCoop!CNext
  <2>5. task'[e][c] = "RUNNING" /\ \A k \in Indices : k # e => task'[k] = task[k]
    BY <1>t, <1>2, <1>3, <2>1 DEF TTypeOK, Free
  <2> QED
    BY <1>1, <1>2, <1>3, <2>4, <2>5, OwnStep
<1>6. ASSUME NEW i \in Slots, co_join(t, i) PROVE Unused' /\ Alive' /\ Steps
  <2>1. task' = task
    BY <1>6 DEF co_join
  <2>2. UNCHANGED <<AbsState(e), AbsCpu(e)>>
    BY <1>4, <2>1 DEF AbsState
  <2> QED
    BY <1>1, <1>2, <1>3, <2>1, <2>2, OwnStep
<1>7. CASE JoinReap(t)
  <2>1. PICK i \in Slots : task[e][i] = "EXIT" /\ task' = [task EXCEPT ![e][i] = Free]
    <3>1. joining[stack[t]].env = e /\ joining[stack[t]].cid \in Slots
      BY <1>1, <1>2, <1>7, <1>t, Here, StackNames
         DEF JoinReap, InJoin, TTypeOK, StackOf
    <3> QED
      BY <1>7, <3>1 DEF JoinReap, Target, Exited
  <2>2. i # 0
    BY <1>2, <1>t, <2>1 DEF TInv, InitialStays
  <2>3. AbsState(e)[i] = "done" /\ AbsState(e)' = [AbsState(e) EXCEPT ![i] = "none"]
    BY <1>t, <2>1, <2>2, AbsStateNext DEF AbsState, Statuses, Free
  <2>4. EnvCoop(e)!Reap(c, i)
    BY <1>4, <2>3 DEF EnvCoop!Reap
  <2>5. EnvCoop(e)!CNext
    BY <2>4 DEF EnvCoop!CNext
  <2>6. task'[e][c] = "RUNNING" /\ \A k \in Indices : k # e => task'[k] = task[k]
    BY <1>t, <1>2, <1>3, <2>1 DEF TTypeOK
  <2> QED
    BY <1>1, <1>2, <1>3, <2>5, <2>6, OwnStep
<1> QED
  BY <1>5, <1>6, <1>7

\* The steps of schedule().
LEMMA InSchedule ==
  ASSUME RInv, NEW t \in Threads, NEW i \in Slots, WakeUp(t, i) \/ Pick(t, i)
  PROVE  Unused' /\ Alive' /\ Steps
<1>t. TInv /\ TTypeOK
  BY DEF RInv, TInv
<1>1. phase[t] = "pick" /\ UNCHANGED <<tid, g_thread_env_arr>>
  BY DEF WakeUp, Pick
<1>2. Live(t) /\ g_thread_env_arr[Env(t)]
  BY <1>1, <1>t DEF TInv, PicksInEnv
<1>3. PICK e \in Indices : e = Env(t) /\ g_thread_env_arr[e] /\ Picking(e)
  BY <1>1, <1>2, Here
<1>4. CASE WakeUp(t, i)
  <2>1. /\ task[e][i] = "SLEEP" /\ task' = [task EXCEPT ![e][i] = "RUNNING"]
        /\ UNCHANGED <<current, phase>>
    BY <1>3, <1>4 DEF WakeUp
  <2>2. AbsState(e)[i] = "asleep" /\ AbsState(e)' = [AbsState(e) EXCEPT ![i] = "ready"]
    BY <1>t, <2>1, AbsStateNext DEF AbsState, Statuses
  <2>3. AbsCpu(e)' = AbsCpu(e)
    <3>1. Picking(e)' <=> phase'[t] = "pick"
      BY <1>1, <1>2, <1>3, <2>1, PickingNext
    <3> QED
      BY <1>1, <1>3, <2>1, <3>1 DEF AbsCpu
  <2>4. EnvCoop(e)!Wake(i)
    BY <2>2, <2>3 DEF EnvCoop!Wake
  <2>5. EnvCoop(e)!CNext
    BY <2>4 DEF EnvCoop!CNext
  <2>6. \A k \in Indices : k # e => task'[k] = task[k]
    BY <1>t, <2>1 DEF TTypeOK
  <2> QED
    BY <1>1, <1>2, <1>3, <2>1, <2>5, <2>6, OwnStep
<1>5. CASE Pick(t, i)
  <2>1. /\ task[e][i] = "RUNNING" /\ UNCHANGED task
        /\ current' = [current EXCEPT ![e] = i] /\ phase' = [phase EXCEPT ![t] = "run"]
    BY <1>3, <1>5 DEF Pick, Ready, SetCurrent
  <2>2. AbsState(e)[i] = "ready" /\ AbsState(e)' = AbsState(e)
    BY <2>1 DEF AbsState
  <2>3. \A u \in Threads : u # t => phase'[u] = phase[u]
    BY <1>t, <2>1 DEF TTypeOK
  <2>4. AbsCpu(e) = {} /\ AbsCpu(e)' = {i}
    <3>1. Picking(e)' <=> phase'[t] = "pick"
      BY <1>1, <1>2, <1>3, <2>3, PickingNext
    <3> QED
      BY <1>t, <1>3, <2>1, <3>1 DEF AbsCpu, TTypeOK
  <2>5. EnvCoop(e)!Dispatch(i)
    BY <2>2, <2>4 DEF EnvCoop!Dispatch
  <2>6. EnvCoop(e)!CNext
    BY <2>5 DEF EnvCoop!CNext
  <2>7. /\ task'[e][current'[e]] = "RUNNING"
        /\ \A k \in Indices : k # e => task'[k] = task[k] /\ current'[k] = current[k]
    BY <1>t, <2>1 DEF TTypeOK
  <2> QED
    BY <1>1, <1>2, <1>3, <2>3, <2>6, <2>7, OwnStep
<1> QED
  BY <1>4, <1>5

\* A first call, the end and the beginning of a thread are no steps of Coop.
LEMMA ThreadSteps ==
  ASSUME RInv, NEW t \in Threads,
         \/ co_get_thread_env(t) \/ thread_returns(t)
         \/ \E id \in Tids : pthread_create(t, id)
  PROVE  Unused' /\ Alive' /\ Steps
<1>t. TInv /\ TTypeOK
  BY DEF RInv, TInv
<1>1. CASE co_get_thread_env(t)
  <2>1. PICK e \in Indices : e = Env(t) /\ Live(t) /\ ~g_thread_env_arr[e]
    BY <1>1, <1>t, Position DEF co_get_thread_env, InProgram
  <2>2. /\ g_thread_env_arr' = [g_thread_env_arr EXCEPT ![e] = TRUE]
        /\ task' = [task EXCEPT ![e] = [i \in Slots |-> IF i = 0 THEN "RUNNING" ELSE Free]]
        /\ UNCHANGED <<tid, current, phase>>
    BY <1>1, <2>1 DEF co_get_thread_env
  <2>3. \A u \in Threads : Env(u)' = Env(u) /\ (Live(u)' <=> Live(u))
    BY <2>2, SameIndex
  <2>4. \A k \in Indices : Picking(k)' <=> Picking(k)
    BY <2>2, <2>3 DEF Picking
  <2>5. current[e] = 0 /\ \A i \in Slots : task[e][i] = Free
    BY <1>t, <2>1 DEF RInv, TInv, IdleAtZero, Unused
  <2>6. \A k \in Indices : k # e => task'[k] = task[k] /\ g_thread_env_arr'[k] = g_thread_env_arr[k]
    BY <1>t, <2>2 DEF TTypeOK
  <2>7. task'[e] = [i \in Slots |-> IF i = 0 THEN "RUNNING" ELSE Free] /\ g_thread_env_arr'[e]
    BY <1>t, <2>2 DEF TTypeOK
  <2>8. AbsState(e)' = AbsState(e)
    BY <2>5, <2>7 DEF AbsState, Free
  <2>9. Steps
    <3>1. ASSUME NEW k \in Indices PROVE UNCHANGED <<AbsState(k), AbsCpu(k)>>
      BY <2>2, <2>4, <2>6, <2>8 DEF AbsState, AbsCpu
    <3> QED
      BY <3>1 DEF Steps
  <2>10. Unused'
    BY <2>6, <2>7 DEF RInv, Unused
  <2>11. Alive'
    BY <2>2, <2>4, <2>5, <2>6, <2>7 DEF RInv, Alive
  <2> QED
    BY <2>9, <2>10, <2>11
<1>2. ASSUME UNCHANGED <<g_thread_env_arr, task, current>>,
             \A k \in Indices : Picking(k)' <=> Picking(k)
      PROVE  Unused' /\ Alive' /\ Steps
  BY <1>2, AbsSame DEF RInv, Unused, Alive, Steps
<1>3. CASE thread_returns(t)
  <2>1. /\ phase[t] = "run" /\ tid' = [tid EXCEPT ![t] = NoTid]
        /\ UNCHANGED <<g_thread_env_arr, task, current, phase>>
    BY <1>3 DEF thread_returns, InProgram
  <2>2. \A u \in Threads : u # t => Env(u)' = Env(u) /\ (Live(u)' <=> Live(u))
    BY <1>t, <2>1 DEF TTypeOK, Env, Live
  <2>3. \A k \in Indices : Picking(k)' <=> Picking(k)
    BY <2>1, <2>2 DEF Picking
  <2> QED
    BY <1>2, <2>1, <2>3
<1>4. ASSUME NEW id \in Tids, pthread_create(t, id) PROVE Unused' /\ Alive' /\ Steps
  <2>1. /\ ~Live(t) /\ tid' = [tid EXCEPT ![t] = id]
        /\ UNCHANGED <<g_thread_env_arr, task, current, phase>>
    BY <1>4 DEF pthread_create
  <2>2. \A u \in Threads : u # t => Env(u)' = Env(u) /\ (Live(u)' <=> Live(u))
    BY <1>t, <2>1 DEF TTypeOK, Env, Live
  <2>3. phase[t] # "pick"
    BY <1>t, <2>1 DEF TInv, PicksInEnv
  <2>4. \A k \in Indices : Picking(k)' <=> Picking(k)
    BY <2>1, <2>2, <2>3 DEF Picking
  <2> QED
    BY <1>2, <2>1, <2>4
<1> QED
  BY <1>1, <1>3, <1>4

\* A coroutine goes on joining in the environment in which it began.
LEMMA NextHome == RInv /\ [TNext]_tvars => JoinsHome'
<1> SUFFICES ASSUME RInv, [TNext]_tvars PROVE JoinsHome'
  OBVIOUS
<1>t. TInv /\ TTypeOK /\ JoinsHome
  BY DEF RInv, TInv
<1>1. ASSUME UNCHANGED <<tid, joining>> PROVE JoinsHome'
  <2>1. \A u \in Threads : Env(u)' = Env(u)
    BY <1>1, SameIndex
  <2> QED
    BY <1>1, <1>t, <2>1 DEF JoinsHome
<1>2. ASSUME NEW t \in Threads, NEW i \in Slots, co_join(t, i) PROVE JoinsHome'
  <2>1. \A u \in Threads : Env(u)' = Env(u)
    BY <1>2, SameIndex DEF co_join
  <2>2. Live(t) /\ g_thread_env_arr[Env(t)]
    BY <1>2, <1>t, InEnvironment
  <2>3. /\ stack[t] = StackOf(t, current[Env(t)])
        /\ Env(t) \in Indices /\ current[Env(t)] \in Slots
    BY <2>2, Here
  <2>4. PICK target : target.env = Env(t) /\ joining' = [joining EXCEPT ![stack[t]] = target]
    BY <1>2 DEF co_join
  <2> QED
    BY <1>t, <2>1, <2>3, <2>4, StackNames DEF JoinsHome, StackOf, TTypeOK
<1>3. ASSUME NEW t \in Threads, JoinReap(t) PROVE JoinsHome'
  <2>1. UNCHANGED tid /\ joining' = [joining EXCEPT ![stack[t]] = NoJoin]
    BY <1>3 DEF JoinReap
  <2>2. \A u \in Threads : Env(u)' = Env(u)
    BY <2>1, SameIndex
  <2> QED
    BY <1>t, <2>1, <2>2, StackNames DEF JoinsHome, TTypeOK
<1>4. ASSUME NEW t \in Threads, UNCHANGED joining, joining[Own(t)] = NoJoin,
             \A u \in Threads : u # t => tid'[u] = tid[u]
      PROVE  JoinsHome'
  <2>1. \A u \in Threads : u # t => Env(u)' = Env(u)
    BY <1>4, SameIndex
  <2> QED
    BY <1>4, <1>t, <2>1 DEF JoinsHome
<1>5. ASSUME NEW t \in Threads, thread_returns(t) PROVE JoinsHome'
  BY <1>4, <1>5, <1>t DEF thread_returns, InProgram, TTypeOK
<1>6. ASSUME NEW t \in Threads, NEW id \in Tids, pthread_create(t, id) PROVE JoinsHome'
  BY <1>4, <1>6, <1>t DEF pthread_create, TInv, JoinsInEnv, TTypeOK
<1>7. ASSUME NEW t \in Threads, Thread(t), ~thread_returns(t) PROVE JoinsHome'
  BY <1>1, <1>2, <1>3, <1>7
     DEF Thread, co_get_thread_env, co_sleep, JoinWait, finish, co_create, WakeUp, Pick
<1>8. CASE UNCHANGED tvars
  BY <1>1, <1>8 DEF tvars
<1> QED
  BY <1>5, <1>6, <1>7, <1>8 DEF TNext

-----------------------------------------------------------------------------
LEMMA InitRInv == TInit => RInv /\ \A k \in Indices : EnvCoop(k)!CInit
<1> SUFFICES ASSUME TInit PROVE RInv /\ \A k \in Indices : EnvCoop(k)!CInit
  OBVIOUS
<1>1. TInv
  BY InitInv
<1>2. Unused /\ Alive /\ JoinsHome
  BY StackNames DEF TInit, Unused, Alive, JoinsHome
<1>3. ASSUME NEW k \in Indices PROVE EnvCoop(k)!CInit
  <2>1. ~Picking(k)
    BY DEF TInit, Picking
  <2> QED
    BY <2>1 DEF TInit, EnvCoop!CInit, AbsState, AbsCpu, Free
<1> QED
  BY <1>1, <1>2, <1>3 DEF RInv

LEMMA NextRInv == RInv /\ [TNext]_tvars => RInv' /\ Steps
<1> SUFFICES ASSUME RInv, [TNext]_tvars PROVE RInv' /\ Steps
  OBVIOUS
<1>1. TInv'
  BY NextInv DEF RInv
<1>2. JoinsHome'
  BY NextHome
<1>3. ASSUME NEW t \in Threads, Thread(t) PROVE Unused' /\ Alive' /\ Steps
  BY <1>3, GiveBack, Carry, InSchedule, ThreadSteps DEF Thread
<1>4. ASSUME NEW t \in Threads, NEW id \in Tids, pthread_create(t, id)
      PROVE  Unused' /\ Alive' /\ Steps
  BY <1>4, ThreadSteps
<1>5. ASSUME UNCHANGED tvars PROVE Unused' /\ Alive' /\ Steps
  <2>1. \A u \in Threads : Env(u)' = Env(u) /\ (Live(u)' <=> Live(u))
    BY <1>5, SameIndex DEF tvars
  <2>2. \A k \in Indices : Picking(k)' <=> Picking(k)
    BY <1>5, <2>1 DEF tvars, Picking
  <2> QED
    BY <1>5, <2>2, AbsSame DEF tvars, RInv, Unused, Alive, Steps
<1>6. Unused' /\ Alive' /\ Steps
  BY <1>3, <1>4, <1>5 DEF TNext
<1> QED
  BY <1>1, <1>2, <1>6 DEF RInv

\* However the threads take turns, end and begin, each environment behaves as
\* one package of cooperative threads.
THEOREM EnvironmentsRefine == TSpec => EnvsImplementCoop
<1>1. TInit => RInv /\ \A k \in Indices : EnvCoop(k)!CInit
  BY InitRInv
<1>2. RInv /\ [TNext]_tvars => RInv' /\ Steps
  BY NextRInv
<1> QED
  BY <1>1, <1>2, PTL DEF TSpec, EnvsImplementCoop, Steps
-----------------------------------------------------------------------------
(***************************************************************************)
(* demo01: what its functions do, which coroutine and thread executes which *)
(* of them, and what the functions still have to join.                      *)
(***************************************************************************)
Funs == {"fun1", "fun2", "fun3", "fun4", "fun5"}

Turns == Len(Loop(2))

\* of main and th_fn: how many coroutines they create, and the statements before
\* they join the first
Creates(fn) == IF fn = "main" THEN 3 ELSE 2
Before(fn) == (IF fn = "main" THEN 4 ELSE 2) + Turns

-----------------------------------------------------------------------------
\* A loop only sleeps.
LEMMA Loops ==
  ASSUME NEW turns \in Nat, NEW S, <<"co_sleep", 0>> \in S
  PROVE  /\ Loop(turns) \in Seq(S) /\ Len(Loop(turns)) \in Nat
         /\ \A k \in 1 .. Len(Loop(turns)) : Loop(turns)[k] = <<"co_sleep", 0>>
<1> DEFINE m == IF turns < MaxTurns THEN turns ELSE MaxTurns
<1>1. m \in Nat
  BY Demo01Assumption
<1>2. Loop(turns) = [k \in 1 .. m |-> <<"co_sleep", 0>>]
  BY DEF Loop
<1> HIDE DEF m
<1> QED
  BY <1>1, <1>2

\* The functions of the coroutines do nothing else.
LEMMA FunBodies ==
  ASSUME NEW fn \in Funs \cup {"none"}
  PROVE  /\ Len(Body[fn]) \in Nat
         /\ \A k \in 1 .. Len(Body[fn]) : Body[fn][k] = <<"co_sleep", 0>>
<1>1. CASE fn = "none"
  BY <1>1 DEF Body
<1>2. CASE fn # "none"
  <2>1. \E turns \in Nat : Body[fn] = Loop(turns)
    <3>1. fn \in Funs
      BY <1>2
    <3>2. \/ Body[fn] = Loop(2) \/ Body[fn] = Loop(10) \/ Body[fn] = Loop(8)
          \/ Body[fn] = Loop(4)
      BY <3>1 DEF Funs, Body, fun1, fun2, fun3, fun4, fun5
    <3> QED
      BY <3>2
  <2> QED
    BY <2>1, Loops
<1> QED
  BY <1>1, <1>2

\* A function in three parts, and the part in which each statement is.
Threefold(s, a, b, c) == s = a \o b \o c

LEMMA Glued ==
  ASSUME NEW S, NEW a \in Seq(S), NEW b \in Seq(S), NEW c \in Seq(S),
         NEW s, Threefold(s, a, b, c)
  PROVE  /\ Len(s) = Len(a) + Len(b) + Len(c)
         /\ \A k \in 1 .. Len(s) :
              \/ k <= Len(a) /\ s[k] = a[k]
              \/ k > Len(a) /\ k - Len(a) <= Len(b) /\ s[k] = b[k - Len(a)]
              \/ k > Len(a) + Len(b) /\ s[k] = c[k - (Len(a) + Len(b))]
<1>1. a \o b \in Seq(S) /\ Len(a \o b) = Len(a) + Len(b)
  BY ConcatProperties
<1> QED
  BY <1>1, ConcatProperties DEF Threefold

\* the parts of main and th_fn
Statements ==
  ({"co_create", "pthread_create"} \X (Funs \cup {"th_fn"}))
    \cup ({"co_sleep", "co_join", "pthread_join"} \X Nat)

MainStarts ==
  <<<<"co_create", "fun1">>, <<"co_create", "fun2">>, <<"co_create", "fun3">>,
    <<"pthread_create", "th_fn">>>>
MainEnds ==
  <<<<"co_join", 1>>, <<"co_join", 2>>, <<"co_join", 3>>, <<"pthread_join", 0>>>>
ThStarts == <<<<"co_create", "fun4">>, <<"co_create", "fun5">>>>
ThEnds == <<<<"co_join", 1>>, <<"co_join", 2>>>>

\* Sequences of four and of two statements.
LEMMA FourSeq ==
  ASSUME NEW S, NEW a \in S, NEW b \in S, NEW c \in S, NEW d \in S
  PROVE  <<a, b, c, d>> \in Seq(S)
OBVIOUS

LEMMA TwoSeq ==
  ASSUME NEW S, NEW a \in S, NEW b \in S
  PROVE  <<a, b>> \in Seq(S)
OBVIOUS

\* main and th_fn create their coroutines, sleep, and join what they have created.
LEMMA Parts ==
  /\ Threefold(main, MainStarts, Loop(2), MainEnds)
  /\ Threefold(th_fn, ThStarts, Loop(2), ThEnds)
  /\ MainStarts \in Seq(Statements) /\ MainEnds \in Seq(Statements)
  /\ ThStarts \in Seq(Statements) /\ ThEnds \in Seq(Statements)
  /\ Loop(2) \in Seq(Statements) /\ Turns \in Nat
  /\ \A k \in 1 .. Turns : Loop(2)[k] = <<"co_sleep", 0>>
<1>1. /\ Threefold(main, MainStarts, Loop(2), MainEnds)
      /\ Threefold(th_fn, ThStarts, Loop(2), ThEnds)
  BY Zenon DEF Threefold, main, th_fn, MainStarts, MainEnds, ThStarts, ThEnds
<1>2. /\ \A fn \in Funs : <<"co_create", fn>> \in Statements
      /\ <<"pthread_create", "th_fn">> \in Statements
      /\ \A n \in Nat : /\ <<"co_join", n>> \in Statements
                       /\ <<"co_sleep", n>> \in Statements
                       /\ <<"pthread_join", n>> \in Statements
  BY DEF Statements
<1>3. MainStarts \in Seq(Statements)
  <2>1. /\ <<"co_create", "fun1">> \in Statements /\ <<"co_create", "fun2">> \in Statements
        /\ <<"co_create", "fun3">> \in Statements
    BY <1>2 DEF Funs
  <2> QED
    BY <1>2, <2>1, Zenon, FourSeq DEF MainStarts
<1>4. MainEnds \in Seq(Statements)
  <2>1. 0 \in Nat /\ 1 \in Nat /\ 2 \in Nat /\ 3 \in Nat
    OBVIOUS
  <2> QED
    BY <1>2, <2>1, Zenon, FourSeq DEF MainEnds
<1>5. ThStarts \in Seq(Statements)
  <2>1. <<"co_create", "fun4">> \in Statements /\ <<"co_create", "fun5">> \in Statements
    BY <1>2 DEF Funs
  <2> QED
    BY <2>1, Zenon, TwoSeq DEF ThStarts
<1>6. ThEnds \in Seq(Statements)
  <2>1. 1 \in Nat /\ 2 \in Nat
    OBVIOUS
  <2> QED
    BY <1>2, <2>1, Zenon, TwoSeq DEF ThEnds
<1>7. /\ Loop(2) \in Seq(Statements) /\ Turns \in Nat
      /\ \A k \in 1 .. Turns : Loop(2)[k] = <<"co_sleep", 0>>
  BY <1>2, Loops DEF Turns
<1> QED
  BY <1>1, <1>3, <1>4, <1>5, <1>6, <1>7

\* What the statements of main and th_fn are, and where.
Placed(fn, pc, st) ==
  /\ st[1] = "co_create" => pc <= Creates(fn) /\ st[2] \in Funs
  /\ st[1] = "co_sleep" => pc > Creates(fn) /\ pc <= Before(fn)
  /\ st[1] = "co_join" => st[2] \in 1 .. Creates(fn) /\ pc = Before(fn) + st[2]
  /\ st[1] = "pthread_create" => fn = "main" /\ pc = 4 /\ st[2] = "th_fn"
  /\ st[1] = "pthread_join" => fn = "main" /\ pc = Before(fn) + 4

\* Where main is when it is at a statement ...
LEMMA MainScript ==
  /\ Len(main) = Turns + 8
  /\ \A pc \in 1 .. Len(main) : Placed("main", pc, main[pc])
<1>0. /\ Len(MainStarts) = 4 /\ Len(MainEnds) = 4 /\ Turns \in Nat
      /\ Len(Loop(2)) = Turns
      /\ \A k \in 1 .. Turns : Loop(2)[k] = <<"co_sleep", 0>>
  BY Parts DEF MainStarts, MainEnds, Turns
<1>1. Len(main) = Turns + 8
  <2>1. \A s : Threefold(s, MainStarts, Loop(2), MainEnds) =>
          Len(s) = Len(MainStarts) + Len(Loop(2)) + Len(MainEnds)
    BY Parts, Glued
  <2> QED
    BY <1>0, <2>1, Parts
<1>2. ASSUME NEW pc \in 1 .. Len(main) PROVE Placed("main", pc, main[pc])
  <2>1. \/ pc <= 4 /\ main[pc] = MainStarts[pc]
        \/ pc > 4 /\ pc - 4 <= Turns /\ main[pc] = Loop(2)[pc - 4]
        \/ pc > 4 + Turns /\ main[pc] = MainEnds[pc - (4 + Turns)]
    <3> DEFINE Splits(a, b) ==
          \/ pc <= a /\ main[pc] = MainStarts[pc]
          \/ pc > a /\ pc - a <= b /\ main[pc] = Loop(2)[pc - a]
          \/ pc > a + b /\ main[pc] = MainEnds[pc - (a + b)]
    <3>0. /\ MainStarts \in Seq(Statements) /\ Loop(2) \in Seq(Statements)
          /\ MainEnds \in Seq(Statements)
          /\ Threefold(main, MainStarts, Loop(2), MainEnds)
      BY Parts
    <3>1. Splits(Len(MainStarts), Len(Loop(2)))
      BY <3>0, Glued
    <3> HIDE DEF Splits
    <3>2. Splits(4, Turns)
      BY <1>0, <3>1
    <3> QED
      BY <3>2 DEF Splits
  <2>2. CASE pc <= 4 /\ main[pc] = MainStarts[pc]
    BY <1>0, <1>1, <2>2 DEF Placed, MainStarts, Creates, Before, Funs
  <2>3. CASE pc > 4 /\ pc - 4 <= Turns /\ main[pc] = Loop(2)[pc - 4]
    <3>0. pc - 4 \in 1 .. Turns
      BY <1>0, <1>1, <2>3
    <3>1. main[pc] = <<"co_sleep", 0>>
      BY <1>0, <2>3, <3>0
    <3> QED
      BY <1>0, <1>1, <2>3, <3>1 DEF Placed, Creates, Before
  <2>4. CASE pc > 4 + Turns /\ main[pc] = MainEnds[pc - (4 + Turns)]
    <3>1. PICK m \in 1 .. 4 : pc = 4 + Turns + m /\ main[pc] = MainEnds[m]
      BY <1>0, <1>1, <2>4
    <3> QED
      BY <1>0, <3>1 DEF Placed, MainEnds, Creates, Before
  <2> QED
    BY <2>1, <2>2, <2>3, <2>4
<1> QED
  BY <1>1, <1>2

\* ... and th_fn.
LEMMA ThScript ==
  /\ Len(th_fn) = Turns + 4
  /\ \A pc \in 1 .. Len(th_fn) : Placed("th_fn", pc, th_fn[pc])
<1>0. /\ Len(ThStarts) = 2 /\ Len(ThEnds) = 2 /\ Turns \in Nat
      /\ Len(Loop(2)) = Turns
      /\ \A k \in 1 .. Turns : Loop(2)[k] = <<"co_sleep", 0>>
  BY Parts DEF ThStarts, ThEnds, Turns
<1>1. Len(th_fn) = Turns + 4
  <2>1. \A s : Threefold(s, ThStarts, Loop(2), ThEnds) =>
          Len(s) = Len(ThStarts) + Len(Loop(2)) + Len(ThEnds)
    BY Parts, Glued
  <2> QED
    BY <1>0, <2>1, Parts
<1>2. ASSUME NEW pc \in 1 .. Len(th_fn) PROVE Placed("th_fn", pc, th_fn[pc])
  <2>1. \/ pc <= 2 /\ th_fn[pc] = ThStarts[pc]
        \/ pc > 2 /\ pc - 2 <= Turns /\ th_fn[pc] = Loop(2)[pc - 2]
        \/ pc > 2 + Turns /\ th_fn[pc] = ThEnds[pc - (2 + Turns)]
    <3> DEFINE Splits(a, b) ==
          \/ pc <= a /\ th_fn[pc] = ThStarts[pc]
          \/ pc > a /\ pc - a <= b /\ th_fn[pc] = Loop(2)[pc - a]
          \/ pc > a + b /\ th_fn[pc] = ThEnds[pc - (a + b)]
    <3>0. /\ ThStarts \in Seq(Statements) /\ Loop(2) \in Seq(Statements)
          /\ ThEnds \in Seq(Statements)
          /\ Threefold(th_fn, ThStarts, Loop(2), ThEnds)
      BY Parts
    <3>1. Splits(Len(ThStarts), Len(Loop(2)))
      BY <3>0, Glued
    <3> HIDE DEF Splits
    <3>2. Splits(2, Turns)
      BY <1>0, <3>1
    <3> QED
      BY <3>2 DEF Splits
  <2>2. CASE pc <= 2 /\ th_fn[pc] = ThStarts[pc]
    BY <1>0, <1>1, <2>2 DEF Placed, ThStarts, Creates, Before, Funs
  <2>3. CASE pc > 2 /\ pc - 2 <= Turns /\ th_fn[pc] = Loop(2)[pc - 2]
    <3>0. pc - 2 \in 1 .. Turns
      BY <1>0, <1>1, <2>3
    <3>1. th_fn[pc] = <<"co_sleep", 0>>
      BY <1>0, <2>3, <3>0
    <3> QED
      BY <1>0, <1>1, <2>3, <3>1 DEF Placed, Creates, Before
  <2>4. CASE pc > 2 + Turns /\ th_fn[pc] = ThEnds[pc - (2 + Turns)]
    <3>1. PICK m \in 1 .. 2 : pc = 2 + Turns + m /\ th_fn[pc] = ThEnds[m]
      BY <1>0, <1>1, <2>4
    <3> QED
      BY <1>0, <3>1 DEF Placed, ThEnds, Creates, Before
  <2> QED
    BY <2>1, <2>2, <2>3, <2>4
<1> QED
  BY <1>1, <1>2

\* What a thread's own function is at.
LEMMA Scripts ==
  ASSUME NEW fn \in {"main", "th_fn"}
  PROVE  /\ Turns \in Nat /\ Len(Body[fn]) \in Nat
         /\ Len(Body[fn]) >= Before(fn) + Creates(fn)
         /\ fn = "main" => Len(Body[fn]) = Before(fn) + 4
         /\ \A pc \in 1 .. Len(Body[fn]) : Placed(fn, pc, Body[fn][pc])
<1>1. Turns \in Nat
  BY Parts
<1>2. CASE fn = "main"
  <2>1. Body[fn] = main
    BY <1>2 DEF Body
  <2> QED
    BY <1>1, <1>2, <2>1, MainScript DEF Before, Creates
<1>3. CASE fn = "th_fn"
  <2>1. Body[fn] = th_fn
    BY <1>3 DEF Body
  <2> QED
    BY <1>1, <1>3, <2>1, ThScript DEF Before, Creates
<1> QED
  BY <1>2, <1>3

-----------------------------------------------------------------------------
(***************************************************************************)
(* The inductive invariant of demo01.  A function that ends must have       *)
(* joined every coroutine that is there: each is in the list of cids, at an *)
(* n whose co_join is still to come or is going on.                         *)
(***************************************************************************)
Actors == {first, second}

FramesOf(fns, lists) == [fn : fns, pc : Nat \ {0}, cids : lists]
Frames == FramesOf(Funs \cup {"main", "th_fn", "none"}, Seq(Slots))

DTypeOK == program \in {"demo01", "any"} /\ frame \in [Stacks -> Frames]

\* who executes what
Cast ==
  /\ Live(first) /\ \A t \in Threads : Live(t) => t \in Actors
  /\ frame[Own(first)].fn = "main"
  /\ frame[Own(second)].fn \in {"none", "th_fn"}
  /\ Live(second) => frame[Own(second)].fn = "th_fn"

\* coroutines only sleep
BlocksSleep ==
  \A k \in Indices, i \in Slots :
    frame[Block(k, i)].fn \in Funs \cup {"none"} /\ joining[Block(k, i)] = NoJoin

\* before pthread_create there is one environment
NotStarted ==
  /\ frame[Own(first)].pc <= 4 => frame[Own(second)].fn = "none"
  /\ frame[Own(second)].fn = "none" =>
       \A k \in Indices : k # Env(first) =>
         ~g_thread_env_arr[k] /\ \A i \in Slots : frame[Block(k, i)].fn = "none"

\* a function has the cids of the co_creates it has come past
Listed(f) == Len(f.cids) = IF f.pc <= Creates(f.fn) THEN f.pc - 1 ELSE Creates(f.fn)

StillJoined(t) ==
  \A i \in Slots \ {0} :
    task[Env(t)][i] # Free =>
      \E n \in 1 .. Len(frame[Own(t)].cids) :
        /\ frame[Own(t)].cids[n] = i
        /\ \/ frame[Own(t)].pc <= Before(frame[Own(t)].fn) + n
           \/ joining[Own(t)] = [env |-> Env(t), cid |-> i]

EndedReturned(t) ==
  \A i \in Slots \ {0} :
    task[Env(t)][i] \in {Free, "EXIT"} => Returned(Block(Env(t), i))

Kept(t) == Listed(frame[Own(t)]) /\ StillJoined(t) /\ EndedReturned(t)

Demo01Inv ==
  Cast /\ BlocksSleep /\ NotStarted /\ \A t \in Actors : Live(t) => Kept(t)

DInv == RInv /\ DTypeOK /\ (program = "demo01" => Demo01Inv)

-----------------------------------------------------------------------------
\* Who is where: in the thread's own function, or in a coroutine.
LEMMA Player ==
  ASSUME DInv, program = "demo01", NEW t \in Threads, Live(t)
  PROVE  /\ t \in Actors /\ Env(t) \in Indices
         /\ frame[Own(t)].fn \in {"main", "th_fn"}
         /\ \/ stack[t] = Own(t)
            \/ /\ current[Env(t)] \in Slots \ {0}
               /\ stack[t] = Block(Env(t), current[Env(t)])
               /\ joining[stack[t]] = NoJoin
               /\ frame[stack[t]].fn \in Funs \cup {"none"}
<1>1. RInv /\ TInv /\ Demo01Inv
  BY DEF DInv, RInv
<1>2. t \in Actors /\ frame[Own(t)].fn \in {"main", "th_fn"}
  BY <1>1 DEF Demo01Inv, Cast, Actors
<1>3. Env(t) \in Indices /\ current[Env(t)] \in Slots
  BY <1>1, Position
<1>4. CASE stack[t] # Own(t)
  <2>0. g_thread_env_arr[Env(t)]
    BY <1>1, <1>4, Position
  <2>1. stack[t] = StackOf(t, current[Env(t)])
    BY <1>1, <2>0 DEF TInv, RunsCurrent
  <2>2. current[Env(t)] \in Slots \ {0} /\ stack[t] = Block(Env(t), current[Env(t)])
    BY <1>3, <1>4, <2>1 DEF StackOf
  <2> QED
    BY <1>1, <1>2, <1>3, <2>2 DEF Demo01Inv, BlocksSleep
<1> QED
  BY <1>2, <1>3, <1>4

\* What a thread is at.
LEMMA AtStatement ==
  ASSUME DInv, NEW t \in Threads, NEW op, At(t, op)
  PROVE  /\ program = "demo01" /\ Live(t) /\ phase[t] = "run"
         /\ joining[stack[t]] = NoJoin /\ stack[t] \in Stacks
         /\ frame[stack[t]] \in Frames
         /\ Statement(stack[t])[1] = op
         /\ \/ /\ stack[t] = Own(t)
               /\ Placed(frame[Own(t)].fn, frame[Own(t)].pc, Statement(Own(t)))
            \/ stack[t] # Own(t) /\ op = "co_sleep"
<1>1. /\ program = "demo01" /\ Live(t) /\ phase[t] = "run" /\ joining[stack[t]] = NoJoin
      /\ frame[stack[t]].pc <= Length(stack[t]) /\ Statement(stack[t])[1] = op
  BY DEF At, InProgram
<1>2. stack[t] \in Stacks /\ frame[stack[t]] \in Frames
  BY DEF DInv, RInv, TInv, TTypeOK, DTypeOK
<1>3. frame[stack[t]].pc \in Nat \ {0}
  BY <1>2 DEF Frames, FramesOf
<1>4. CASE stack[t] = Own(t)
  <2>1. frame[Own(t)].fn \in {"main", "th_fn"}
    BY <1>1, Player
  <2>2. frame[Own(t)].pc \in 1 .. Len(Body[frame[Own(t)].fn])
    BY <1>1, <1>3, <1>4, <2>1, Scripts DEF Length
  <2>3. Placed(frame[Own(t)].fn, frame[Own(t)].pc, Statement(Own(t)))
    BY <2>1, <2>2, Scripts DEF Statement
  <2> QED
    BY <1>1, <1>2, <1>4, <2>3
<1>5. CASE stack[t] # Own(t)
  <2>1. frame[stack[t]].fn \in Funs \cup {"none"}
    BY <1>1, <1>5, Player
  <2>2. Len(Body[frame[stack[t]].fn]) \in Nat
    BY <2>1, FunBodies
  <2>3. frame[stack[t]].pc \in 1 .. Len(Body[frame[stack[t]].fn])
    BY <1>1, <1>3, <2>2 DEF Length
  <2>4. Statement(stack[t]) = <<"co_sleep", 0>>
    BY <2>1, <2>3, FunBodies DEF Statement
  <2>5. op = "co_sleep"
    BY <1>1, <2>4
  <2> QED
    BY <1>1, <1>2, <1>5, <2>5
<1> QED
  BY <1>4, <1>5

\* What holds of a live actor goes on to hold while its own function does not go
\* on, no coroutine is created in its environment, and one that ends has returned.
LEMMA KeptSame ==
  ASSUME NEW t \in Actors, Kept(t), tid'[t] = tid[t], NEW e, e = Env(t),
         frame'[Own(t)] = frame[Own(t)], joining'[Own(t)] = joining[Own(t)],
         \A i \in Slots \ {0} :
           /\ task'[e][i] # Free => task[e][i] # Free
           /\ task'[e][i] \in {Free, "EXIT"} =>
                \/ /\ task[e][i] \in {Free, "EXIT"}
                   /\ frame'[Block(e, i)] = frame[Block(e, i)]
                \/ Returned(Block(e, i))'
  PROVE  Kept(t)'
<1>1. Env(t)' = e
  BY DEF Env
<1>2. Listed(frame[Own(t)])'
  BY DEF Kept, Listed
<1>3. StillJoined(t)'
  BY <1>1 DEF Kept, StillJoined
<1>4. ASSUME NEW i \in Slots \ {0}, task'[e][i] \in {Free, "EXIT"}
      PROVE  Returned(Block(e, i))'
  <2>1. CASE task[e][i] \in {Free, "EXIT"} /\ frame'[Block(e, i)] = frame[Block(e, i)]
    <3>1. Returned(Block(e, i))
      BY <2>1 DEF Kept, EndedReturned
    <3> QED
      BY <2>1, <3>1 DEF Returned, Length
  <2> QED
    BY <1>4, <2>1
<1>5. EndedReturned(t)'
  BY <1>1, <1>4 DEF EndedReturned
<1> QED
  BY <1>2, <1>3, <1>5 DEF Kept

\* What a step of thread t, other than those with which a thread begins and ends,
\* must do to its own environment; elsewhere it changes nothing.
LEMMA Footprint ==
  ASSUME DInv, program = "demo01", NEW t \in Threads, Live(t), UNCHANGED tid,
         \A k \in Indices : k # Env(t) =>
           /\ task'[k] = task[k] /\ g_thread_env_arr'[k] = g_thread_env_arr[k]
           /\ \A i \in Slots : frame'[Block(k, i)] = frame[Block(k, i)],
         \A u \in Threads : u # t =>
           frame'[Own(u)] = frame[Own(u)] /\ joining'[Own(u)] = joining[Own(u)],
         frame'[Own(t)].fn = frame[Own(t)].fn,
         frame'[Own(t)].pc <= 4 => frame[Own(t)].pc <= 4,
         \A k \in Indices, i \in Slots :
           frame'[Block(k, i)].fn \in Funs \cup {"none"} /\ joining'[Block(k, i)] = NoJoin,
         Kept(t)'
  PROVE  Demo01Inv'
<1>1. Demo01Inv /\ TInv
  BY DEF DInv, RInv
<1>2. \A u \in Threads : Env(u)' = Env(u) /\ (Live(u)' <=> Live(u))
  BY SameIndex
<1>3. first \in Threads /\ second \in Threads /\ first # second
  BY ThreadsAssumption, Demo01Assumption
<1>4. Cast'
  BY <1>1, <1>2, <1>3 DEF Demo01Inv, Cast
<1>5. BlocksSleep'
  BY DEF BlocksSleep
<1>6. t = first \/ (t = second /\ frame[Own(second)].fn # "none")
  BY <1>1 DEF Demo01Inv, Cast, Actors
<1>7. NotStarted'
  <2>1. frame'[Own(second)].fn = frame[Own(second)].fn
    BY <1>3
  <2>2. frame'[Own(first)].pc <= 4 => frame'[Own(second)].fn = "none"
    <3>1. frame'[Own(first)].pc <= 4 => frame[Own(first)].pc <= 4
      BY <1>3
    <3> QED
      BY <1>1, <2>1, <3>1 DEF Demo01Inv, NotStarted
  <2>3. ASSUME frame'[Own(second)].fn = "none", NEW k \in Indices, k # Env(first)'
        PROVE  ~g_thread_env_arr'[k] /\ \A i \in Slots : frame'[Block(k, i)].fn = "none"
    <3>1. t = first /\ k # Env(t)
      BY <1>2, <1>3, <1>6, <2>1, <2>3
    <3>2. ~g_thread_env_arr[k] /\ \A i \in Slots : frame[Block(k, i)].fn = "none"
      BY <1>1, <2>1, <2>3, <3>1 DEF Demo01Inv, NotStarted
    <3> QED
      BY <3>1, <3>2
  <2> QED
    BY <2>2, <2>3 DEF NotStarted
<1>8. ASSUME NEW u \in Actors, Live(u), u # t PROVE Kept(u)'
  <2>1. u \in Threads /\ Kept(u)
    BY <1>1, <1>3, <1>8 DEF Actors, Demo01Inv
  <2>2. Env(u) \in Indices /\ Env(u) # Env(t)
    <3>1. Env(u) \in Indices
      BY <1>1, <1>8, <2>1, Position
    <3> QED
      BY <1>1, <1>8, <2>1, <3>1 DEF TInv, EnvsDiffer
  <2>3. /\ tid'[u] = tid[u] /\ frame'[Own(u)] = frame[Own(u)]
        /\ joining'[Own(u)] = joining[Own(u)] /\ task'[Env(u)] = task[Env(u)]
        /\ \A i \in Slots : frame'[Block(Env(u), i)] = frame[Block(Env(u), i)]
    BY <1>8, <2>1, <2>2
  <2> QED
    BY <1>8, <2>1, <2>3, KeptSame
<1>9. \A u \in Actors : Live(u)' => Kept(u)'
  BY <1>2, <1>3, <1>8 DEF Actors
<1> QED
  BY <1>4, <1>5, <1>7, <1>9 DEF Demo01Inv

-----------------------------------------------------------------------------
\* A frame with the next statement, and one with a further cid.
LEMMA NextFrame ==
  ASSUME NEW F, NEW C, NEW f \in FramesOf(F, C)
  PROVE  LET g == [f EXCEPT !.pc = @ + 1] IN
         /\ g \in FramesOf(F, C)
         /\ g.pc = f.pc + 1 /\ g.fn = f.fn /\ g.cids = f.cids
BY DEF FramesOf

LEMMA AddedCid ==
  ASSUME NEW F, NEW S, NEW f \in FramesOf(F, Seq(S)), NEW id \in S,
         NEW g, g = [f EXCEPT !.cids = Append(@, id)]
  PROVE  /\ g \in FramesOf(F, Seq(S))
         /\ g.pc = f.pc /\ g.fn = f.fn /\ g.cids = Append(f.cids, id)
BY DEF FramesOf

\* The next statement, of the function on stack s.
LEMMA Advances ==
  ASSUME DTypeOK, NEW s \in Stacks, frame' = [frame EXCEPT ![s].pc = @ + 1]
  PROVE  /\ frame' \in [Stacks -> Frames]
         /\ frame'[s].pc = frame[s].pc + 1
         /\ frame'[s].fn = frame[s].fn /\ frame'[s].cids = frame[s].cids
         /\ \A r \in Stacks : r # s => frame'[r] = frame[r]
<1>1. frame \in [Stacks -> Frames] /\ frame[s] \in Frames
  BY DEF DTypeOK
<1>2. frame' = [frame EXCEPT ![s] = [frame[s] EXCEPT !.pc = @ + 1]]
  OBVIOUS
<1>3. /\ [frame[s] EXCEPT !.pc = @ + 1] \in Frames
      /\ [frame[s] EXCEPT !.pc = @ + 1].pc = frame[s].pc + 1
      /\ [frame[s] EXCEPT !.pc = @ + 1].fn = frame[s].fn
      /\ [frame[s] EXCEPT !.pc = @ + 1].cids = frame[s].cids
  BY <1>1, NextFrame DEF Frames
<1> QED
  BY <1>1, <1>2, <1>3

\* The types of what a frame holds.
LEMMA FrameTypes ==
  ASSUME DTypeOK, NEW s \in Stacks
  PROVE  /\ frame[s].pc \in Nat \ {0} /\ frame[s].cids \in Seq(Slots)
         /\ Len(frame[s].cids) \in Nat
<1>1. frame[s] \in Frames
  BY DEF DTypeOK
<1>2. frame[s].pc \in Nat \ {0} /\ frame[s].cids \in Seq(Slots)
  BY <1>1 DEF Frames, FramesOf
<1> QED
  BY <1>2

\* Where the function goes on on the stack of thread t, the others do not.
LEMMA GoesOn ==
  ASSUME DInv, program = "demo01", NEW t \in Threads, Live(t),
         frame' = [frame EXCEPT ![stack[t]].pc = @ + 1]
  PROVE  /\ frame' \in [Stacks -> Frames]
         /\ \A k \in Indices : k # Env(t) =>
              \A i \in Slots : frame'[Block(k, i)] = frame[Block(k, i)]
         /\ \A u \in Threads : u # t => frame'[Own(u)] = frame[Own(u)]
         /\ \A s \in Stacks : /\ frame'[s].fn = frame[s].fn
                             /\ frame'[s].cids = frame[s].cids
                             /\ frame'[s].pc \in {frame[s].pc, frame[s].pc + 1}
                             /\ s # stack[t] => frame'[s] = frame[s]
         /\ frame'[stack[t]].pc = frame[stack[t]].pc + 1
         /\ stack[t] = Own(t) => /\ frame'[Own(t)].fn = frame[Own(t)].fn
                                /\ frame'[Own(t)].cids = frame[Own(t)].cids
                                /\ frame'[Own(t)].pc = frame[Own(t)].pc + 1
         /\ frame'[Own(t)].pc <= 4 => frame[Own(t)].pc <= 4
         /\ \A k \in Indices, i \in Slots : frame'[Block(k, i)].fn \in Funs \cup {"none"}
<1>1. DTypeOK /\ TTypeOK /\ BlocksSleep
  BY DEF DInv, RInv, TInv, Demo01Inv
<1>2. stack[t] \in Stacks
  BY <1>1 DEF TTypeOK
<1>3. /\ frame' \in [Stacks -> Frames]
      /\ frame'[stack[t]].pc = frame[stack[t]].pc + 1
      /\ frame'[stack[t]].fn = frame[stack[t]].fn
      /\ frame'[stack[t]].cids = frame[stack[t]].cids
      /\ \A r \in Stacks : r # stack[t] => frame'[r] = frame[r]
  BY <1>1, <1>2, Advances
<1>4. /\ Env(t) \in Indices
      /\ stack[t] = Own(t) \/ \E i \in Slots : stack[t] = Block(Env(t), i)
  BY Player
<1>5. /\ \A k \in Indices : k # Env(t) => \A i \in Slots : stack[t] # Block(k, i)
      /\ \A u \in Threads : u # t => stack[t] # Own(u)
  BY <1>4, StackNames
<1>6. /\ \A k \in Indices : k # Env(t) =>
           \A i \in Slots : frame'[Block(k, i)] = frame[Block(k, i)]
      /\ \A u \in Threads : u # t => frame'[Own(u)] = frame[Own(u)]
  BY <1>3, <1>5, StackNames
<1>7. \A s \in Stacks : /\ frame'[s].fn = frame[s].fn
                        /\ frame'[s].cids = frame[s].cids
                        /\ frame'[s].pc \in {frame[s].pc, frame[s].pc + 1}
                        /\ s # stack[t] => frame'[s] = frame[s]
  BY <1>3
<1>8. frame'[Own(t)].pc <= 4 => frame[Own(t)].pc <= 4
  BY <1>1, <1>7, FrameTypes, StackNames
<1>9. \A k \in Indices, i \in Slots : frame'[Block(k, i)].fn \in Funs \cup {"none"}
  BY <1>1, <1>7, StackNames DEF BlocksSleep
<1> QED
  BY <1>3, <1>6, <1>7, <1>8, <1>9

\* Where a status of the own environment changes and no co_join begins or ends,
\* the other threads notice nothing.
LEMMA Inwards ==
  ASSUME DInv, program = "demo01", NEW t \in Threads, Live(t),
         frame' = [frame EXCEPT ![stack[t]].pc = @ + 1],
         UNCHANGED <<tid, g_thread_env_arr, joining>>,
         \A k \in Indices : k # Env(t) => task'[k] = task[k],
         Kept(t)'
  PROVE  Demo01Inv'
<1>1. \A k \in Indices, i \in Slots : joining'[Block(k, i)] = NoJoin
  BY DEF DInv, Demo01Inv, BlocksSleep
<1>2. \A k \in Indices : g_thread_env_arr'[k] = g_thread_env_arr[k]
  OBVIOUS
<1>3. \A u \in Threads : joining'[Own(u)] = joining[Own(u)]
  OBVIOUS
<1>4. frame'[Own(t)].fn = frame[Own(t)].fn
  BY GoesOn, StackNames
<1>5. /\ \A k \in Indices : k # Env(t) =>
           /\ task'[k] = task[k] /\ g_thread_env_arr'[k] = g_thread_env_arr[k]
           /\ \A i \in Slots : frame'[Block(k, i)] = frame[Block(k, i)]
      /\ \A u \in Threads : u # t =>
           frame'[Own(u)] = frame[Own(u)] /\ joining'[Own(u)] = joining[Own(u)]
      /\ frame'[Own(t)].pc <= 4 => frame[Own(t)].pc <= 4
  BY <1>2, <1>3, GoesOn
<1>6. \A k \in Indices, i \in Slots :
        frame'[Block(k, i)].fn \in Funs \cup {"none"} /\ joining'[Block(k, i)] = NoJoin
  BY <1>1, GoesOn
<1> QED
  BY <1>4, <1>5, <1>6, Footprint

\* Of two numbers that are not equal the lower has room for one more.
LEMMA NotYet ==
  ASSUME NEW a \in Nat, NEW b \in Nat, a <= b, a # b
  PROVE  a + 1 <= b
OBVIOUS

\* A function that is past its co_creates keeps the list and what it has to join
\* when it gets to a statement that is before its co_joins, or to the next of them.
LEMMA OwnGoesOn ==
  ASSUME DInv, NEW t \in Threads, Kept(t), tid'[t] = tid[t],
         frame'[Own(t)].fn = frame[Own(t)].fn, frame'[Own(t)].cids = frame[Own(t)].cids,
         frame'[Own(t)].pc = frame[Own(t)].pc + 1,
         frame[Own(t)].pc > Creates(frame[Own(t)].fn),
         \A i \in Slots \ {0} :
           /\ frame'[Block(Env(t), i)] = frame[Block(Env(t), i)]
           /\ task'[Env(t)][i] = task[Env(t)][i],
         joining[Own(t)] = NoJoin,
         \A n \in 1 .. Len(frame[Own(t)].cids) :
           \/ frame[Own(t)].pc # Before(frame[Own(t)].fn) + n
           \/ joining'[Own(t)] = [env |-> Env(t), cid |-> frame[Own(t)].cids[n]]
  PROVE  Kept(t)'
<1>1. Env(t)' = Env(t)
  BY DEF Env
<1>2. frame[Own(t)].pc \in Nat /\ Len(frame[Own(t)].cids) \in Nat
  BY FrameTypes, StackNames DEF DInv
<1>3. Before(frame[Own(t)].fn) \in Nat /\ Creates(frame[Own(t)].fn) \in Nat
  BY Parts DEF Before, Creates
<1>4. Listed(frame[Own(t)])'
  BY <1>2, <1>3 DEF Kept, Listed
<1>5. StillJoined(t)'
  <2>1. \A i \in Slots : [env |-> Env(t), cid |-> i] # NoJoin
    BY DEF NoJoin, Slots
  <2>2. ASSUME NEW i \in Slots \ {0}, task'[Env(t)][i] # Free
        PROVE  \E n \in 1 .. Len(frame[Own(t)].cids) :
                 /\ frame[Own(t)].cids[n] = i
                 /\ \/ frame[Own(t)].pc + 1 <= Before(frame[Own(t)].fn) + n
                    \/ joining'[Own(t)] = [env |-> Env(t), cid |-> i]
    <3>1. PICK n \in 1 .. Len(frame[Own(t)].cids) :
            /\ frame[Own(t)].cids[n] = i
            /\ frame[Own(t)].pc <= Before(frame[Own(t)].fn) + n
      BY <2>1, <2>2 DEF Kept, StillJoined
    <3>2. CASE frame[Own(t)].pc = Before(frame[Own(t)].fn) + n
      BY <3>1, <3>2
    <3>3. CASE frame[Own(t)].pc # Before(frame[Own(t)].fn) + n
      <4>1. frame[Own(t)].pc + 1 <= Before(frame[Own(t)].fn) + n
        <5>1. n \in Nat /\ Before(frame[Own(t)].fn) + n \in Nat
          BY <1>2, <1>3
        <5> QED
          BY <1>2, <3>1, <3>3, <5>1, NotYet
      <4> QED
        BY <3>1, <4>1
    <3> QED
      BY <3>2, <3>3
  <2> QED
    BY <1>1, <2>2 DEF StillJoined
<1>6. EndedReturned(t)'
  BY <1>1 DEF Kept, EndedReturned, Returned, Length
<1> QED
  BY <1>4, <1>5, <1>6 DEF Kept
-----------------------------------------------------------------------------
\* A function that sleeps or starts a thread is at none of its co_joins.
LEMMA BeforeJoins ==
  ASSUME DTypeOK, NEW t \in Threads, frame[Own(t)].pc <= Before(frame[Own(t)].fn)
  PROVE  \A n \in 1 .. Len(frame[Own(t)].cids) :
           frame[Own(t)].pc # Before(frame[Own(t)].fn) + n
<1>1. frame[Own(t)].pc \in Nat /\ Len(frame[Own(t)].cids) \in Nat
  BY FrameTypes, StackNames
<1>2. Before(frame[Own(t)].fn) \in Nat
  BY Parts DEF Before
<1> QED
  BY <1>1, <1>2

\* A coroutine, or the function of a thread, sleeps.
LEMMA sleepKeeps ==
  ASSUME DInv, NEW t \in Threads, sleep(t)
  PROVE  frame' \in [Stacks -> Frames] /\ Demo01Inv'
<1>t. RInv /\ TInv /\ TTypeOK /\ DTypeOK
  BY DEF DInv, RInv, TInv
<1>1. /\ program = "demo01" /\ Live(t) /\ phase[t] = "run"
      /\ joining[stack[t]] = NoJoin
      /\ stack[t] = Own(t) =>
           Placed(frame[Own(t)].fn, frame[Own(t)].pc, Statement(Own(t)))
           /\ Statement(Own(t))[1] = "co_sleep"
  BY AtStatement DEF sleep
<1>2. PICK e \in Indices, c \in Slots : e = Env(t) /\ c = current[e] /\ g_thread_env_arr[e]
  BY <1>1, <1>t, Position DEF sleep, co_sleep, InLibrary
<1>3. /\ task' = [task EXCEPT ![e][c] = "SLEEP"]
      /\ UNCHANGED <<tid, g_thread_env_arr, joining>>
      /\ frame' = [frame EXCEPT ![stack[t]].pc = @ + 1]
  BY <1>2 DEF sleep, co_sleep, Advanced
<1>4. /\ \A k \in Indices : k # e => task'[k] = task[k]
      /\ \A i \in Slots : i # c => task'[e][i] = task[e][i]
      /\ task'[e][c] = "SLEEP" /\ task[e][c] = "RUNNING"
  BY <1>1, <1>2, <1>3, <1>t, Here DEF TTypeOK
<1>k. Kept(t)
  BY <1>1, Player DEF DInv, Demo01Inv
<1>5. Kept(t)'
  <2>1. CASE stack[t] = Own(t)
    <3>1. /\ frame[Own(t)].pc > Creates(frame[Own(t)].fn)
          /\ frame[Own(t)].pc <= Before(frame[Own(t)].fn)
      BY <1>1, <2>1 DEF Placed
    <3>2. c = 0 /\ \A i \in Slots : Block(e, i) # stack[t]
      BY <1>1, <1>2, <1>t, <2>1, Position, StackNames
    <3>3. \A i \in Slots \ {0} :
            /\ frame'[Block(e, i)] = frame[Block(e, i)]
            /\ task'[e][i] = task[e][i]
      BY <1>1, <1>3, <1>4, <3>2, GoesOn, StackNames
    <3>4. \A n \in 1 .. Len(frame[Own(t)].cids) :
            frame[Own(t)].pc # Before(frame[Own(t)].fn) + n
      BY <1>t, <3>1, BeforeJoins
    <3>5. /\ frame'[Own(t)].fn = frame[Own(t)].fn
          /\ frame'[Own(t)].cids = frame[Own(t)].cids
          /\ frame'[Own(t)].pc = frame[Own(t)].pc + 1
      BY <1>1, <1>3, <2>1, GoesOn
    <3>6. tid'[t] = tid[t] /\ joining[Own(t)] = NoJoin
      BY <1>1, <1>3, <2>1
    <3> QED
      BY <1>2, <1>k, <3>1, <3>3, <3>4, <3>5, <3>6, OwnGoesOn
  <2>2. CASE stack[t] # Own(t)
    <3>1. c # 0 /\ stack[t] = Block(e, c) /\ t \in Actors
      BY <1>1, <1>2, <2>2, Player
    <3>2. frame'[Own(t)] = frame[Own(t)] /\ joining'[Own(t)] = joining[Own(t)]
      BY <1>1, <1>3, <2>2, GoesOn, StackNames
    <3>3. ASSUME NEW i \in Slots \ {0}
          PROVE  /\ task'[e][i] # Free => task[e][i] # Free
                 /\ task'[e][i] \in {Free, "EXIT"} =>
                      /\ task[e][i] \in {Free, "EXIT"}
                      /\ frame'[Block(e, i)] = frame[Block(e, i)]
      <4>1. CASE i = c
        BY <1>4, <4>1 DEF Free
      <4>2. CASE i # c
        <5>1. Block(e, i) \in Stacks /\ Block(e, i) # stack[t]
          BY <3>1, <4>2, StackNames
        <5> QED
          BY <1>1, <1>3, <1>4, <4>2, <5>1, GoesOn
      <4> QED
        BY <4>1, <4>2
    <3> QED
      BY <1>2, <1>3, <1>k, <3>1, <3>2, <3>3, KeptSame
  <2> QED
    BY <2>1, <2>2
<1>6. frame' \in [Stacks -> Frames]
  BY <1>1, <1>3, GoesOn
<1>7. Demo01Inv'
  BY <1>1, <1>2, <1>3, <1>4, <1>5, Inwards
<1> QED
  BY <1>6, <1>7

\* The function of a thread begins a co_join.
LEMMA joinKeeps ==
  ASSUME DInv, NEW t \in Threads, join(t)
  PROVE  /\ frame' \in [Stacks -> Frames] /\ Demo01Inv'
         /\ frame[stack[t]].cids[Arg(t)] \in Slots
<1>t. RInv /\ TInv /\ TTypeOK /\ DTypeOK /\ BlocksSleep
  BY DEF DInv, RInv, TInv, join, At, Demo01Inv
<1>1. /\ program = "demo01" /\ Live(t) /\ joining[stack[t]] = NoJoin
      /\ stack[t] = Own(t)
      /\ Placed(frame[Own(t)].fn, frame[Own(t)].pc, Statement(Own(t)))
      /\ Statement(Own(t))[1] = "co_join"
  BY AtStatement DEF join
<1>2. PICK m \in 1 .. Creates(frame[Own(t)].fn) :
        m = Arg(t) /\ frame[Own(t)].pc = Before(frame[Own(t)].fn) + m
  BY <1>1 DEF Placed, Arg
<1>k. Kept(t) /\ Env(t) \in Indices
  BY <1>1, Player DEF DInv, Demo01Inv
<1>n. /\ frame[Own(t)].pc \in Nat /\ Before(frame[Own(t)].fn) \in Nat
      /\ frame[Own(t)].pc > Creates(frame[Own(t)].fn)
  BY <1>2, Parts DEF Before, Creates
<1>3. m \in 1 .. Len(frame[Own(t)].cids) /\ Len(frame[Own(t)].cids) \in Nat
  BY <1>2, <1>k, <1>n DEF Kept, Listed, Creates
<1>4. frame[Own(t)].cids[m] \in Slots
  BY <1>3, <1>t, FrameTypes, StackNames
<1>5. /\ joining' = [joining EXCEPT ![Own(t)] = [env |-> Env(t), cid |-> frame[Own(t)].cids[m]]]
      /\ UNCHANGED <<tid, g_thread_env_arr, task>>
      /\ frame' = [frame EXCEPT ![stack[t]].pc = @ + 1]
  BY <1>1, <1>2 DEF join, co_join, Advanced
<1>6. /\ joining'[Own(t)] = [env |-> Env(t), cid |-> frame[Own(t)].cids[m]]
      /\ \A s \in Stacks : s # Own(t) => joining'[s] = joining[s]
  BY <1>5, <1>t, StackNames DEF TTypeOK
<1>7. /\ frame' \in [Stacks -> Frames]
      /\ frame'[Own(t)].fn = frame[Own(t)].fn
      /\ frame'[Own(t)].cids = frame[Own(t)].cids
      /\ frame'[Own(t)].pc = frame[Own(t)].pc + 1
  BY <1>1, <1>5, GoesOn
<1>8. Kept(t)'
  <2>1. \A i \in Slots \ {0} :
          /\ frame'[Block(Env(t), i)] = frame[Block(Env(t), i)]
          /\ task'[Env(t)][i] = task[Env(t)][i]
    BY <1>1, <1>5, <1>k, GoesOn, StackNames
  <2>2. \A n \in 1 .. Len(frame[Own(t)].cids) :
          \/ frame[Own(t)].pc # Before(frame[Own(t)].fn) + n
          \/ joining'[Own(t)] = [env |-> Env(t), cid |-> frame[Own(t)].cids[n]]
    <3>1. \A n \in 1 .. Len(frame[Own(t)].cids) :
            frame[Own(t)].pc = Before(frame[Own(t)].fn) + n => n = m
      BY <1>2, <1>3, <1>n
    <3> QED
      BY <1>6, <3>1
  <2>3. tid'[t] = tid[t] /\ joining[Own(t)] = NoJoin
    BY <1>1, <1>5
  <2> QED
    BY <1>7, <1>k, <1>n, <2>1, <2>2, <2>3, OwnGoesOn
<1>9. Demo01Inv'
  <2>1. \A k \in Indices, i \in Slots :
          frame'[Block(k, i)].fn \in Funs \cup {"none"} /\ joining'[Block(k, i)] = NoJoin
    <3>1. \A k \in Indices, i \in Slots : joining'[Block(k, i)] = NoJoin
      BY <1>6, <1>t, StackNames DEF BlocksSleep
    <3> QED
      BY <1>1, <1>5, <3>1, GoesOn
  <2>2. \A u \in Threads : u # t =>
          frame'[Own(u)] = frame[Own(u)] /\ joining'[Own(u)] = joining[Own(u)]
    BY <1>1, <1>5, <1>6, GoesOn, StackNames
  <2>3. /\ \A k \in Indices : k # Env(t) =>
             /\ task'[k] = task[k] /\ g_thread_env_arr'[k] = g_thread_env_arr[k]
             /\ \A i \in Slots : frame'[Block(k, i)] = frame[Block(k, i)]
        /\ frame'[Own(t)].pc <= 4 => frame[Own(t)].pc <= 4
    BY <1>1, <1>5, GoesOn
  <2> QED
    BY <1>1, <1>5, <1>7, <1>8, <2>1, <2>2, <2>3, Footprint
<1> QED
  BY <1>1, <1>2, <1>4, <1>7, <1>9

\* main goes past pthread_join.
LEMMA join_threadKeeps ==
  ASSUME DInv, NEW t \in Threads, join_thread(t)
  PROVE  frame' \in [Stacks -> Frames] /\ Demo01Inv'
<1>t. DTypeOK
  BY DEF DInv
<1>1. /\ program = "demo01" /\ Live(t) /\ joining[stack[t]] = NoJoin
      /\ stack[t] = Own(t)
      /\ frame[Own(t)].fn = "main" /\ frame[Own(t)].pc = Before(frame[Own(t)].fn) + 4
  BY AtStatement DEF join_thread, Placed
<1>2. /\ UNCHANGED <<tid, g_thread_env_arr, task, joining>>
      /\ frame' = [frame EXCEPT ![stack[t]].pc = @ + 1]
  BY DEF join_thread, Advanced, tvars
<1>k. Kept(t) /\ Env(t) \in Indices
  BY <1>1, Player DEF DInv, Demo01Inv
<1>n. /\ Before(frame[Own(t)].fn) \in Nat /\ frame[Own(t)].pc > 3
      /\ Creates(frame[Own(t)].fn) = 3
  BY <1>1, Parts DEF Before, Creates
<1>3. Kept(t)'
  <2>1. \A i \in Slots \ {0} :
          /\ frame'[Block(Env(t), i)] = frame[Block(Env(t), i)]
          /\ task'[Env(t)][i] = task[Env(t)][i]
    BY <1>1, <1>2, <1>k, GoesOn, StackNames
  <2>2. Len(frame[Own(t)].cids) = 3
    BY <1>1, <1>k, <1>n DEF Kept, Listed
  <2>3. \A n \in 1 .. Len(frame[Own(t)].cids) : frame[Own(t)].pc # Before(frame[Own(t)].fn) + n
    BY <1>1, <1>n, <2>2
  <2>4. /\ frame'[Own(t)].fn = frame[Own(t)].fn
        /\ frame'[Own(t)].cids = frame[Own(t)].cids
        /\ frame'[Own(t)].pc = frame[Own(t)].pc + 1
        /\ frame[Own(t)].pc > Creates(frame[Own(t)].fn)
    BY <1>1, <1>2, <1>n, GoesOn
  <2> QED
    BY <1>1, <1>2, <1>k, <2>1, <2>3, <2>4, OwnGoesOn
<1>4. Demo01Inv'
  BY <1>1, <1>2, <1>3, Inwards
<1> QED
  BY <1>1, <1>2, <1>4, GoesOn

\* A function returns to start(): the coroutine ends.
LEMMA finishKeeps ==
  ASSUME DInv, program = "demo01", NEW t \in Threads, finish(t), AtEnd(stack[t]),
         frame' = Advanced(t)
  PROVE  frame' \in [Stacks -> Frames] /\ Demo01Inv'
<1>t. RInv /\ TInv /\ TTypeOK /\ DTypeOK
  BY DEF DInv, RInv, TInv
<1>1. Live(t) /\ UNCHANGED <<tid, g_thread_env_arr, joining>>
  BY DEF finish, InProgram
<1>2. PICK e \in Indices, c \in Slots \ {0} :
        e = Env(t) /\ stack[t] = Block(e, c) /\ task' = [task EXCEPT ![e][c] = "EXIT"]
  <2>1. PICK k \in Indices, i \in Slots :
          stack[t] = Block(k, i) /\ task' = [task EXCEPT ![k][i] = "EXIT"]
    BY DEF finish
  <2>2. stack[t] # Own(t)
    BY <2>1, StackNames
  <2>3. current[Env(t)] \in Slots \ {0} /\ stack[t] = Block(Env(t), current[Env(t)])
    BY <1>1, <2>2, Player
  <2>4. k = Env(t) /\ i \in Slots \ {0}
    <3>1. Env(t) \in Indices
      BY <1>1, Player
    <3>2. Block(k, i) = Block(Env(t), current[Env(t)])
      BY <2>1, <2>3
    <3>3. k = Env(t) /\ i = current[Env(t)]
      BY <2>3, <3>1, <3>2, StackNames
    <3> QED
      BY <2>3, <3>3
  <2> QED
    BY <2>1, <2>4
<1>3. frame' = [frame EXCEPT ![stack[t]].pc = @ + 1]
  BY DEF Advanced
<1>4. /\ \A k \in Indices : k # e => task'[k] = task[k]
      /\ \A i \in Slots : i # c => task'[e][i] = task[e][i]
      /\ task[e][c] # Free
  <2>1. g_thread_env_arr[e]
    BY <1>1, <1>2, <1>t, StackNames, Position
  <2>2. c = current[e] /\ phase[t] = "run"
    <3>1. stack[t] = StackOf(t, current[e]) /\ current[e] \in Slots
      BY <1>1, <1>2, <1>t, <2>1, Here
    <3>2. current[e] # 0
      BY <1>2, <3>1, StackNames DEF StackOf
    <3>3. Block(e, c) = Block(e, current[e])
      BY <1>2, <3>1, <3>2 DEF StackOf
    <3>4. c = current[e]
      BY <3>1, <3>3, StackNames
    <3> QED
      BY <3>4 DEF finish, InProgram
  <2>3. task[e][c] = "RUNNING"
    BY <1>1, <1>2, <1>t, <2>1, <2>2, Here
  <2> QED
    BY <1>2, <1>t, <2>3 DEF TTypeOK, Free
<1>5. Returned(Block(e, c))'
  <2>1. Block(e, c) \in Stacks /\ frame[Block(e, c)].pc \in Nat
    BY <1>t, StackNames, FrameTypes
  <2>2. /\ frame'[Block(e, c)].fn = frame[Block(e, c)].fn
        /\ frame'[Block(e, c)].pc = frame[Block(e, c)].pc + 1
    <3>1. frame'[stack[t]].pc = frame[stack[t]].pc + 1
      BY <1>1, <1>3, GoesOn
    <3>2. \A s \in Stacks : frame'[s].fn = frame[s].fn
      BY <1>1, <1>3, GoesOn
    <3> QED
      BY <1>2, <2>1, <3>1, <3>2
  <2>3. frame[Block(e, c)].fn \in Funs \cup {"none"}
    BY DEF DInv, Demo01Inv, BlocksSleep
  <2>4. Len(Body[frame[Block(e, c)].fn]) \in Nat
    BY <2>3, FunBodies
  <2>5. frame[Block(e, c)].pc = Len(Body[frame[Block(e, c)].fn]) + 1
    BY <1>2 DEF AtEnd, Length
  <2> QED
    BY <2>1, <2>2, <2>4, <2>5 DEF Returned, Length
<1>6. Kept(t)'
  <2>1. t \in Actors /\ Kept(t) /\ Own(t) # stack[t] /\ Own(t) \in Stacks
    BY <1>1, <1>2, Player, StackNames DEF DInv, Demo01Inv
  <2>2. frame'[Own(t)] = frame[Own(t)]
    BY <1>1, <1>3, <2>1, GoesOn
  <2>3. ASSUME NEW i \in Slots \ {0}, i # c PROVE frame'[Block(e, i)] = frame[Block(e, i)]
    <3>1. Block(e, i) \in Stacks /\ Block(e, i) # stack[t]
      BY <1>2, <2>3, StackNames
    <3> QED
      BY <1>1, <1>3, <3>1, GoesOn
  <2>4. \A i \in Slots \ {0} :
          /\ task'[e][i] # Free => task[e][i] # Free
          /\ task'[e][i] \in {Free, "EXIT"} =>
               \/ /\ task[e][i] \in {Free, "EXIT"}
                  /\ frame'[Block(e, i)] = frame[Block(e, i)]
               \/ Returned(Block(e, i))'
    BY <1>4, <1>5, <2>3
  <2>5. tid'[t] = tid[t] /\ joining'[Own(t)] = joining[Own(t)]
    BY <1>1
  <2> QED
    BY <1>2, <2>1, <2>2, <2>4, <2>5, KeptSame
<1>7. Demo01Inv'
  BY <1>1, <1>2, <1>3, <1>4, <1>6, Inwards
<1> QED
  BY <1>1, <1>3, <1>7, GoesOn

\* th_fn returns, and with it the second thread ends.
LEMMA thread_returnsKeeps ==
  ASSUME DInv, program = "demo01", NEW t \in Threads, thread_returns(t), frame' = Advanced(t)
  PROVE  frame' \in [Stacks -> Frames] /\ Demo01Inv'
<1>t. DTypeOK /\ TTypeOK /\ Demo01Inv
  BY DEF DInv, RInv, TInv
<1>0. first \in Threads /\ second \in Threads /\ first # second
  BY ThreadsAssumption, Demo01Assumption
<1>1. /\ Live(t) /\ stack[t] = Own(t) /\ t = second
      /\ tid' = [tid EXCEPT ![t] = NoTid]
      /\ UNCHANGED <<g_thread_env_arr, task, joining>>
  BY Player DEF thread_returns, InProgram, Actors
<1>2. /\ ~Live(second)' /\ tid'[first] = tid[first]
      /\ \A u \in Threads : Live(u)' => Live(u)
  BY <1>0, <1>1, <1>t DEF Live, TTypeOK
<1>3. frame' = [frame EXCEPT ![stack[t]].pc = @ + 1]
  BY DEF Advanced
<1>4. /\ frame' \in [Stacks -> Frames]
      /\ frame'[Own(first)] = frame[Own(first)]
      /\ frame'[Own(second)].fn = frame[Own(second)].fn
      /\ frame[Own(second)].fn # "none"
      /\ \A k \in Indices, i \in Slots : frame'[Block(k, i)] = frame[Block(k, i)]
  <2>1. /\ frame' \in [Stacks -> Frames]
        /\ frame'[Own(second)].fn = frame[Own(second)].fn
        /\ \A s \in Stacks : s # Own(second) => frame'[s] = frame[s]
    BY <1>1, <1>3, GoesOn
  <2>2. frame[Own(second)].fn # "none"
    BY <1>1, Player
  <2> QED
    BY <1>0, <2>1, <2>2, StackNames
<1>5. Live(first) /\ Live(first)' /\ Env(first)' = Env(first)
  BY <1>0, <1>2, <1>t, SameIndex DEF Demo01Inv, Cast
<1>6. Cast' /\ BlocksSleep'
  BY <1>1, <1>2, <1>4, <1>5, <1>t DEF Demo01Inv, Cast, BlocksSleep
<1>7. NotStarted'
  BY <1>4, <1>t DEF Demo01Inv, NotStarted
<1>8. Kept(first)'
  <2>1. first \in Actors /\ Kept(first) /\ Env(first) \in Indices
    BY <1>0, <1>5, <1>t, Player DEF Demo01Inv, Actors
  <2>2. joining'[Own(first)] = joining[Own(first)]
    BY <1>1
  <2>3. \A i \in Slots \ {0} :
          /\ task'[Env(first)][i] = task[Env(first)][i]
          /\ frame'[Block(Env(first), i)] = frame[Block(Env(first), i)]
    BY <1>1, <1>4, <2>1
  <2> QED
    BY <1>2, <1>4, <2>1, <2>2, <2>3, KeptSame
<1> QED
  BY <1>2, <1>4, <1>6, <1>7, <1>8 DEF Demo01Inv, Actors

\* main starts the second thread, with an environment where nothing is.
LEMMA start_threadKeeps ==
  ASSUME DInv, NEW t \in Threads, start_thread(t)
  PROVE  frame' \in [Stacks -> Frames] /\ Demo01Inv'
<1>t. DTypeOK /\ TTypeOK /\ RInv
  BY DEF DInv, RInv, TInv
<1>0. first \in Threads /\ second \in Threads /\ first # second
  BY ThreadsAssumption, Demo01Assumption
<1>1. /\ program = "demo01" /\ Live(t) /\ joining[stack[t]] = NoJoin /\ stack[t] = Own(t)
      /\ frame[Own(t)].fn = "main" /\ frame[Own(t)].pc = 4 /\ Arg(t) = "th_fn"
  BY AtStatement DEF start_thread, Placed, Arg
<1>i. Demo01Inv
  BY <1>1 DEF DInv
<1>2. t = first
  BY <1>0, <1>1, <1>i, Player DEF Demo01Inv, Cast, Actors
<1>3. PICK id \in Tids : pthread_create(second, id)
  BY DEF start_thread
<1>4. /\ ~Live(second) /\ Apart(id) /\ tid' = [tid EXCEPT ![second] = id]
      /\ UNCHANGED <<g_thread_env_arr, task, joining>>
  BY <1>3 DEF pthread_create
<1>5. frame' = [[frame EXCEPT ![Own(first)].pc = @ + 1] EXCEPT ![Own(second)] = Begin("th_fn")]
  BY <1>1, <1>2 DEF start_thread, Advanced
<1>6. /\ frame' \in [Stacks -> Frames]
      /\ frame'[Own(first)].fn = frame[Own(first)].fn
      /\ frame'[Own(first)].cids = frame[Own(first)].cids
      /\ frame'[Own(first)].pc = frame[Own(first)].pc + 1
      /\ frame'[Own(second)] = [fn |-> "th_fn", pc |-> 1, cids |-> <<>>]
      /\ \A k \in Indices, i \in Slots : frame'[Block(k, i)] = frame[Block(k, i)]
  <2> DEFINE f == [frame EXCEPT ![Own(first)].pc = @ + 1]
  <2>1. frame \in [Stacks -> Frames] /\ frame[Own(first)] \in Frames
    BY <1>0, <1>t, StackNames DEF DTypeOK
  <2>2. f = [frame EXCEPT ![Own(first)] = [frame[Own(first)] EXCEPT !.pc = @ + 1]]
    OBVIOUS
  <2>3. /\ [frame[Own(first)] EXCEPT !.pc = @ + 1] \in Frames
        /\ [frame[Own(first)] EXCEPT !.pc = @ + 1].pc = frame[Own(first)].pc + 1
        /\ [frame[Own(first)] EXCEPT !.pc = @ + 1].fn = frame[Own(first)].fn
        /\ [frame[Own(first)] EXCEPT !.pc = @ + 1].cids = frame[Own(first)].cids
    BY <2>1, NextFrame DEF Frames
  <2>4. Begin("th_fn") \in Frames
    BY DEF Begin, Frames, FramesOf
  <2>5. frame' = [f EXCEPT ![Own(second)] = Begin("th_fn")]
    BY <1>5
  <2>6. f \in [Stacks -> Frames] /\ f[Own(first)] = [frame[Own(first)] EXCEPT !.pc = @ + 1]
    BY <1>0, <2>1, <2>2, <2>3, StackNames
  <2>7. \A s \in Stacks : s # Own(first) => f[s] = frame[s]
    BY <2>1, <2>2
  <2> HIDE DEF f
  <2>8. frame' \in [Stacks -> Frames] /\ frame'[Own(second)] = Begin("th_fn")
    BY <1>0, <2>4, <2>5, <2>6, StackNames
  <2>9. \A s \in Stacks : s # Own(second) => frame'[s] = f[s]
    BY <2>5, <2>6
  <2>10. frame'[Own(first)] = [frame[Own(first)] EXCEPT !.pc = @ + 1]
    BY <1>0, <2>6, <2>9, StackNames
  <2>11. \A k \in Indices, i \in Slots : frame'[Block(k, i)] = frame[Block(k, i)]
    BY <1>0, <2>7, <2>9, StackNames
  <2> QED
    BY <2>3, <2>8, <2>10, <2>11 DEF Begin
<1>7. /\ tid'[first] = tid[first] /\ tid'[second] = id
      /\ \A u \in Threads : u # second => (Live(u)' <=> Live(u))
  BY <1>0, <1>4, <1>t DEF TTypeOK, Live
<1>8. Cast' /\ BlocksSleep'
  BY <1>0, <1>1, <1>2, <1>4, <1>6, <1>7, <1>i DEF Demo01Inv, Cast, BlocksSleep, Actors
<1>9. NotStarted'
  BY <1>1, <1>2, <1>6 DEF NotStarted
<1>10. Kept(first)'
  <2>1. Kept(first) /\ Env(first) \in Indices
    BY <1>0, <1>1, <1>2, <1>i, Player DEF Demo01Inv, Actors
  <2>2. /\ frame[Own(first)].pc > Creates(frame[Own(first)].fn)
        /\ frame[Own(first)].pc <= Before(frame[Own(first)].fn)
    BY <1>1, <1>2, Parts DEF Creates, Before
  <2>3. \A n \in 1 .. Len(frame[Own(first)].cids) :
          frame[Own(first)].pc # Before(frame[Own(first)].fn) + n
    BY <1>0, <1>t, <2>2, BeforeJoins
  <2>4. \A i \in Slots \ {0} :
          /\ frame'[Block(Env(first), i)] = frame[Block(Env(first), i)]
          /\ task'[Env(first)][i] = task[Env(first)][i]
    BY <1>4, <1>6, <2>1
  <2>5. joining[Own(first)] = NoJoin
    BY <1>1, <1>2
  <2> QED
    BY <1>0, <1>6, <1>7, <2>1, <2>2, <2>3, <2>4, <2>5, OwnGoesOn
<1>11. Kept(second)'
  <2>1. PICK e \in Indices : e = Env(second)' /\ e # Env(first)
    <3>1. Env(second)' = id % MAX_THREAD_NUM
      BY <1>7 DEF Env
    <3>2. id \in Nat
      BY ThreadsAssumption
    <3>3. \A a \in Nat : a % MAX_THREAD_NUM \in 0 .. MAX_THREAD_NUM - 1
      BY ThreadsAssumption
    <3>4. Env(second)' \in Indices
      BY <3>1, <3>2, <3>3, Zenon DEF Indices
    <3>5. Env(first) # id % MAX_THREAD_NUM
      BY <1>0, <1>1, <1>2, <1>4 DEF Apart
    <3> QED
      BY <3>1, <3>4, <3>5
  <2>2. /\ ~g_thread_env_arr[e]
        /\ \A i \in Slots : frame[Block(e, i)].fn = "none"
    BY <1>1, <1>2, <1>i, <2>1 DEF Demo01Inv, NotStarted
  <2>3. \A i \in Slots : task'[e][i] = Free /\ frame'[Block(e, i)].fn = "none"
    BY <1>4, <1>6, <1>t, <2>2 DEF RInv, Unused
  <2>4. Listed(frame[Own(second)])'
    BY <1>6 DEF Listed, Creates
  <2>5. StillJoined(second)'
    BY <2>1, <2>3 DEF StillJoined
  <2>6. EndedReturned(second)'
    BY <2>1, <2>3 DEF EndedReturned, Returned
  <2> QED
    BY <2>4, <2>5, <2>6 DEF Kept
<1> QED
  BY <1>6, <1>8, <1>9, <1>10, <1>11 DEF Demo01Inv, Actors

\* The function of a thread creates a coroutine: it gets a cid and a function of
\* its own.
LEMMA Created ==
  ASSUME DInv, NEW t \in Threads, create(t)
  PROVE  /\ program = "demo01" /\ Live(t) /\ joining[Own(t)] = NoJoin
         /\ frame[Own(t)].pc <= Creates(frame[Own(t)].fn)
         /\ Kept(t) /\ BlocksSleep
         /\ \E e \in Indices, id \in Slots \ {0} :
              /\ e = Env(t) /\ task[e][id] = Free
              /\ UNCHANGED <<tid, g_thread_env_arr, joining>>
              /\ frame' \in [Stacks -> Frames]
              /\ frame'[Own(t)].fn = frame[Own(t)].fn
              /\ frame'[Own(t)].cids = Append(frame[Own(t)].cids, id)
              /\ frame'[Own(t)].pc = frame[Own(t)].pc + 1
              /\ frame'[Block(e, id)].fn \in Funs
              /\ \A s \in Stacks : s # Own(t) /\ s # Block(e, id) => frame'[s] = frame[s]
              /\ \A k \in Indices : k # e => task'[k] = task[k]
              /\ \A i \in Slots : i # id => task'[e][i] = task[e][i]
              /\ task'[e][id] = "RUNNING"
<1>t. DTypeOK /\ TTypeOK /\ RInv /\ TInv
  BY DEF DInv, RInv, TInv
<1>1. /\ program = "demo01" /\ Live(t) /\ joining[stack[t]] = NoJoin /\ stack[t] = Own(t)
      /\ frame[Own(t)].pc <= Creates(frame[Own(t)].fn) /\ Arg(t) \in Funs
  BY AtStatement DEF create, Placed, Arg
<1>k. /\ Kept(t) /\ Env(t) \in Indices /\ BlocksSleep
  BY <1>1, Player DEF DInv, Demo01Inv
<1>2. PICK e \in Indices, id \in Slots :
        /\ e = Env(t) /\ co_create(t, id)
        /\ frame' = [Advanced(t) EXCEPT ![stack[t]].cids = Append(@, id),
                                        ![Block(e, id)] = Begin(Arg(t))]
  BY <1>k DEF create
<1>3. /\ task' = [task EXCEPT ![e][id] = "RUNNING"] /\ task[e][id] = Free
      /\ g_thread_env_arr[e]
      /\ UNCHANGED <<tid, g_thread_env_arr, joining>>
  BY <1>2 DEF co_create, InLibrary
<1>4. id # 0
  BY <1>3, <1>t DEF TInv, InitialStays, Free
<1>5. /\ frame' \in [Stacks -> Frames]
      /\ frame'[Own(t)].fn = frame[Own(t)].fn
      /\ frame'[Own(t)].cids = Append(frame[Own(t)].cids, id)
      /\ frame'[Own(t)].pc = frame[Own(t)].pc + 1
      /\ frame'[Block(e, id)].fn \in Funs
      /\ \A s \in Stacks : s # Own(t) /\ s # Block(e, id) => frame'[s] = frame[s]
  <2> DEFINE s == Own(t)
             f == [frame[s] EXCEPT !.pc = @ + 1]
             g == [f EXCEPT !.cids = Append(@, id)]
  <2>1. s \in Stacks /\ Block(e, id) \in Stacks /\ s # Block(e, id)
    BY StackNames
  <2>2. frame \in [Stacks -> Frames] /\ frame[s] \in Frames
    BY <1>t, <2>1 DEF DTypeOK
  <2>3. /\ f \in Frames /\ f.fn = frame[s].fn /\ f.pc = frame[s].pc + 1
        /\ f.cids = frame[s].cids
    BY <2>2, NextFrame DEF Frames
  <2>4. /\ g \in Frames /\ g.fn = f.fn /\ g.pc = f.pc /\ g.cids = Append(f.cids, id)
    <3>1. f \in FramesOf(Funs \cup {"main", "th_fn", "none"}, Seq(Slots))
      BY <2>3 DEF Frames
    <3>2. g = [f EXCEPT !.cids = Append(@, id)]
      OBVIOUS
    <3> HIDE DEF f, g
    <3>3. /\ g \in FramesOf(Funs \cup {"main", "th_fn", "none"}, Seq(Slots))
          /\ g.fn = f.fn /\ g.pc = f.pc /\ g.cids = Append(f.cids, id)
      BY <3>1, <3>2, AddedCid
    <3> QED
      BY <3>3 DEF Frames
  <2> HIDE DEF f
  <2>5. Advanced(t) = [frame EXCEPT ![s] = f]
    BY <1>1 DEF Advanced, f
  <2>6. Advanced(t) \in [Stacks -> Frames] /\ Advanced(t)[s] = f
    BY <2>1, <2>2, <2>3, <2>5
  <2>7. \A r \in Stacks : r # s => Advanced(t)[r] = frame[r]
    BY <2>2, <2>5
  <2>8. frame' = [[Advanced(t) EXCEPT ![s] = g] EXCEPT ![Block(e, id)] = Begin(Arg(t))]
    BY <1>1, <1>2, <2>6
  <2> HIDE DEF g, s
  <2>9. Begin(Arg(t)) \in Frames /\ Begin(Arg(t)).fn = Arg(t)
    BY <1>1 DEF Begin, Frames, FramesOf
  <2>10. /\ frame' \in [Stacks -> Frames] /\ frame'[s] = g
         /\ frame'[Block(e, id)] = Begin(Arg(t))
         /\ \A r \in Stacks : r # s /\ r # Block(e, id) => frame'[r] = frame[r]
    BY <2>1, <2>4, <2>6, <2>7, <2>8, <2>9
  <2>11. frame'[s].fn = frame[s].fn /\ frame'[s].cids = Append(frame[s].cids, id)
         /\ frame'[s].pc = frame[s].pc + 1
    BY <2>3, <2>4, <2>10
  <2> QED
    BY <1>1, <2>9, <2>10, <2>11 DEF s
<1>6. /\ \A k \in Indices : k # e => task'[k] = task[k]
      /\ \A i \in Slots : i # id => task'[e][i] = task[e][i]
      /\ task'[e][id] = "RUNNING"
  BY <1>3, <1>t DEF TTypeOK
<1>7. id \in Slots \ {0} /\ e = Env(t) /\ task[e][id] = Free
      /\ UNCHANGED <<tid, g_thread_env_arr, joining>>
  BY <1>2, <1>3, <1>4
<1>8. joining[Own(t)] = NoJoin
  BY <1>1
<1> QED
  BY <1>1, <1>k, <1>5, <1>6, <1>7, <1>8, Zenon

LEMMA createKeeps ==
  ASSUME DInv, NEW t \in Threads, create(t)
  PROVE  frame' \in [Stacks -> Frames] /\ Demo01Inv'
<1>t. DTypeOK /\ TTypeOK /\ RInv /\ TInv
  BY DEF DInv, RInv, TInv
<1>1. /\ program = "demo01" /\ Live(t) /\ joining[Own(t)] = NoJoin
      /\ frame[Own(t)].pc <= Creates(frame[Own(t)].fn)
  BY Created
<1>k. /\ Kept(t) /\ BlocksSleep
  BY Created
<1>2. PICK e \in Indices, id \in Slots \ {0} :
        /\ e = Env(t) /\ task[e][id] = Free
        /\ UNCHANGED <<tid, g_thread_env_arr, joining>>
        /\ frame' \in [Stacks -> Frames]
        /\ frame'[Own(t)].fn = frame[Own(t)].fn
        /\ frame'[Own(t)].cids = Append(frame[Own(t)].cids, id)
        /\ frame'[Own(t)].pc = frame[Own(t)].pc + 1
        /\ frame'[Block(e, id)].fn \in Funs
        /\ \A s \in Stacks : s # Own(t) /\ s # Block(e, id) => frame'[s] = frame[s]
        /\ \A k \in Indices : k # e => task'[k] = task[k]
        /\ \A i \in Slots : i # id => task'[e][i] = task[e][i]
        /\ task'[e][id] = "RUNNING"
  BY Created
<1>3. UNCHANGED <<tid, g_thread_env_arr, joining>>
  BY <1>2
<1>5. /\ frame' \in [Stacks -> Frames]
      /\ frame'[Own(t)].fn = frame[Own(t)].fn
      /\ frame'[Own(t)].cids = Append(frame[Own(t)].cids, id)
      /\ frame'[Own(t)].pc = frame[Own(t)].pc + 1
      /\ frame'[Block(e, id)].fn \in Funs
      /\ \A s \in Stacks : s # Own(t) /\ s # Block(e, id) => frame'[s] = frame[s]
  BY <1>2
<1>6. /\ \A k \in Indices : k # e => task'[k] = task[k]
      /\ \A i \in Slots : i # id => task'[e][i] = task[e][i]
      /\ task'[e][id] = "RUNNING"
  BY <1>2
<1>7. Kept(t)'
  <2>1. Env(t)' = e
    BY <1>2, <1>3 DEF Env
  <2>2. /\ frame[Own(t)].pc \in Nat \ {0} /\ frame[Own(t)].cids \in Seq(Slots)
        /\ Len(frame[Own(t)].cids) = frame[Own(t)].pc - 1
    BY <1>1, <1>k, <1>t, FrameTypes, StackNames DEF Kept, Listed
  <2>3. /\ Len(frame'[Own(t)].cids) = frame[Own(t)].pc
        /\ frame'[Own(t)].cids[frame[Own(t)].pc] = id
        /\ \A n \in 1 .. Len(frame[Own(t)].cids) :
             frame'[Own(t)].cids[n] = frame[Own(t)].cids[n]
    BY <1>5, <2>2
  <2>4. /\ Creates(frame[Own(t)].fn) \in Nat
        /\ Creates(frame[Own(t)].fn) < Before(frame[Own(t)].fn) + 1
        /\ Before(frame[Own(t)].fn) \in Nat /\ Before(frame[Own(t)].fn) > 0
    BY Parts DEF Creates, Before
  <2>5. Listed(frame[Own(t)])'
    BY <1>1, <1>5, <2>2, <2>3, <2>4 DEF Listed
  <2>6. \A n \in Nat \ {0} : frame'[Own(t)].pc <= Before(frame'[Own(t)].fn) + n
    BY <1>1, <1>5, <2>2, <2>4
  <2>7. ASSUME NEW i \in Slots \ {0}, task'[e][i] # Free
        PROVE  \E n \in 1 .. Len(frame'[Own(t)].cids) : frame'[Own(t)].cids[n] = i
    <3>1. CASE i = id
      <4>1. frame[Own(t)].pc \in 1 .. Len(frame'[Own(t)].cids)
        BY <2>2, <2>3
      <4> QED
        BY <2>3, <3>1, <4>1
    <3>2. CASE i # id
      <4>1. task[e][i] # Free
        BY <1>6, <2>7, <3>2
      <4>2. PICK n \in 1 .. Len(frame[Own(t)].cids) : frame[Own(t)].cids[n] = i
        BY <1>2, <1>k, <4>1 DEF Kept, StillJoined
      <4>3. n \in 1 .. Len(frame'[Own(t)].cids)
        BY <2>2, <2>3
      <4> QED
        BY <2>3, <4>2, <4>3
    <3> QED
      BY <3>1, <3>2
  <2>8. StillJoined(t)'
    <3>1. Len(frame'[Own(t)].cids) \in Nat
      BY <2>2, <2>3
    <3>2. \A n \in 1 .. Len(frame'[Own(t)].cids) :
            frame'[Own(t)].pc <= Before(frame'[Own(t)].fn) + n
      BY <2>6, <3>1
    <3> QED
      BY <2>1, <2>7, <3>2 DEF StillJoined
  <2>9. EndedReturned(t)'
    <3>1. ASSUME NEW i \in Slots \ {0}, task'[e][i] \in {Free, "EXIT"}
          PROVE  Returned(Block(e, i))'
      <4>1. i # id /\ task[e][i] \in {Free, "EXIT"}
        BY <1>6, <3>1 DEF Free
      <4>2. frame'[Block(e, i)] = frame[Block(e, i)]
        BY <1>5, <4>1, StackNames
      <4>3. Returned(Block(e, i))
        BY <1>2, <1>k, <4>1 DEF Kept, EndedReturned
      <4> QED
        BY <4>2, <4>3 DEF Returned, Length
    <3> QED
      BY <2>1, <3>1 DEF EndedReturned
  <2> QED
    BY <2>5, <2>8, <2>9 DEF Kept
<1>8. \A k \in Indices, i \in Slots :
        frame'[Block(k, i)].fn \in Funs \cup {"none"} /\ joining'[Block(k, i)] = NoJoin
  BY <1>3, <1>5, <1>k, StackNames DEF BlocksSleep
<1>9. /\ \A k \in Indices : k # Env(t) =>
           /\ task'[k] = task[k] /\ g_thread_env_arr'[k] = g_thread_env_arr[k]
           /\ \A i \in Slots : frame'[Block(k, i)] = frame[Block(k, i)]
      /\ \A u \in Threads : u # t =>
           frame'[Own(u)] = frame[Own(u)] /\ joining'[Own(u)] = joining[Own(u)]
  <2>1. ASSUME NEW k \in Indices, k # e, NEW i \in Slots
        PROVE  frame'[Block(k, i)] = frame[Block(k, i)]
    BY <1>5, <2>1, StackNames
  <2>2. ASSUME NEW u \in Threads, u # t PROVE frame'[Own(u)] = frame[Own(u)]
    BY <1>5, <2>2, StackNames
  <2> QED
    BY <1>2, <1>3, <1>6, <2>1, <2>2
<1>10. frame'[Own(t)].pc <= 4 => frame[Own(t)].pc <= 4
  BY <1>5, <1>t, FrameTypes, StackNames
<1>11. Demo01Inv'
  BY <1>1, <1>3, <1>5, <1>7, <1>8, <1>9, <1>10, Footprint
<1> QED
  BY <1>5, <1>11

-----------------------------------------------------------------------------
\* Inside the calls the functions do not go on; what the others see of it.
LEMMA Aside ==
  ASSUME DInv, program = "demo01", NEW t \in Threads, Live(t),
         tid' = tid, joining' = joining, frame' = frame,
         \A k \in Indices : k # Env(t) =>
           task'[k] = task[k] /\ g_thread_env_arr'[k] = g_thread_env_arr[k],
         \A i \in Slots \ {0} :
           /\ task'[Env(t)][i] # Free => task[Env(t)][i] # Free
           /\ task'[Env(t)][i] \in {Free, "EXIT"} => task[Env(t)][i] \in {Free, "EXIT"}
  PROVE  Demo01Inv'
<1>1. t \in Actors /\ Kept(t) /\ Env(t) \in Indices /\ BlocksSleep
  BY Player DEF DInv, Demo01Inv
<1>2. PICK e \in Indices : e = Env(t)
  BY <1>1
<1>3. /\ tid'[t] = tid[t] /\ \A s \in Stacks : frame'[s] = frame[s] /\ joining'[s] = joining[s]
  OBVIOUS
<1>4. Kept(t)'
  <2>1. frame'[Own(t)] = frame[Own(t)] /\ joining'[Own(t)] = joining[Own(t)]
    BY <1>3, StackNames
  <2>2. \A i \in Slots : frame'[Block(e, i)] = frame[Block(e, i)]
    BY <1>3, StackNames
  <2> QED
    BY <1>1, <1>2, <1>3, <2>1, <2>2, KeptSame
<1>5. /\ \A k \in Indices : k # Env(t) =>
           /\ task'[k] = task[k] /\ g_thread_env_arr'[k] = g_thread_env_arr[k]
           /\ \A i \in Slots : frame'[Block(k, i)] = frame[Block(k, i)]
      /\ \A u \in Threads : u # t =>
           frame'[Own(u)] = frame[Own(u)] /\ joining'[Own(u)] = joining[Own(u)]
      /\ frame'[Own(t)].fn = frame[Own(t)].fn
      /\ frame'[Own(t)].pc <= 4 => frame[Own(t)].pc <= 4
  OBVIOUS
<1>6. \A k \in Indices, i \in Slots :
        frame'[Block(k, i)].fn \in Funs \cup {"none"} /\ joining'[Block(k, i)] = NoJoin
  BY <1>1, <1>3, StackNames DEF BlocksSleep
<1> QED
  BY <1>4, <1>5, <1>6, Footprint

\* The end of a co_join frees the slot that the function has waited for.
LEMMA JoinReapKeeps ==
  ASSUME DInv, program = "demo01", NEW t \in Threads, JoinReap(t), UNCHANGED frame
  PROVE  Demo01Inv'
<1>t. DTypeOK /\ TTypeOK /\ RInv /\ TInv /\ BlocksSleep
  BY DEF DInv, RInv, TInv, Demo01Inv
<1>1. Live(t) /\ joining[stack[t]] # NoJoin
  BY DEF JoinReap, InJoin
<1>2. stack[t] = Own(t) /\ Kept(t) /\ Env(t) \in Indices
  BY <1>1, Player DEF DInv, Demo01Inv
<1>3. PICK e \in Indices, j \in Slots :
        /\ e = Env(t) /\ joining[Own(t)] = [env |-> e, cid |-> j]
        /\ task[e][j] = "EXIT" /\ task' = [task EXCEPT ![e][j] = Free]
        /\ joining' = [joining EXCEPT ![Own(t)] = NoJoin]
        /\ UNCHANGED <<tid, g_thread_env_arr>>
  <2>1. joining[Own(t)].env = Env(t)
    BY <1>1, <1>2, <1>t DEF RInv, JoinsHome
  <2>2. joining[Own(t)] \in [env : Indices, cid : Slots]
    BY <1>1, <1>2, <1>t, StackNames DEF TTypeOK
  <2>3. joining[Own(t)] = [env |-> Env(t), cid |-> joining[Own(t)].cid]
    BY <2>1, <2>2
  <2> QED
    BY <1>2, <2>1, <2>2, <2>3 DEF JoinReap, Target, Exited
<1>4. /\ \A k \in Indices : k # e => task'[k] = task[k]
      /\ \A i \in Slots : i # j => task'[e][i] = task[e][i]
      /\ task'[e][j] = Free
      /\ \A s \in Stacks : s # Own(t) => joining'[s] = joining[s]
  BY <1>3, <1>t DEF TTypeOK
<1>5. Kept(t)'
  <2>1. Env(t)' = e
    BY <1>3 DEF Env
  <2>2. Listed(frame[Own(t)])'
    BY <1>2 DEF Kept, Listed
  <2>3. ASSUME NEW i \in Slots \ {0}, task'[e][i] # Free
        PROVE  \E n \in 1 .. Len(frame[Own(t)].cids) :
                 /\ frame[Own(t)].cids[n] = i
                 /\ frame[Own(t)].pc <= Before(frame[Own(t)].fn) + n
    <3>1. i # j /\ task[e][i] # Free
      BY <1>4, <2>3
    <3>2. joining[Own(t)] # [env |-> e, cid |-> i]
      BY <1>3, <3>1
    <3> QED
      BY <1>2, <1>3, <3>1, <3>2 DEF Kept, StillJoined
  <2>4. StillJoined(t)'
    BY <2>1, <2>3 DEF StillJoined
  <2>5. EndedReturned(t)'
    <3>1. ASSUME NEW i \in Slots \ {0}, task'[e][i] \in {Free, "EXIT"}
          PROVE  task[e][i] \in {Free, "EXIT"}
      BY <1>3, <1>4, <3>1
    <3> QED
      BY <1>2, <1>3, <2>1, <3>1 DEF Kept, EndedReturned, Returned, Length
  <2> QED
    BY <2>2, <2>4, <2>5 DEF Kept
<1>6. /\ \A k \in Indices : k # Env(t) =>
           /\ task'[k] = task[k] /\ g_thread_env_arr'[k] = g_thread_env_arr[k]
           /\ \A i \in Slots : frame'[Block(k, i)] = frame[Block(k, i)]
      /\ \A u \in Threads : u # t =>
           frame'[Own(u)] = frame[Own(u)] /\ joining'[Own(u)] = joining[Own(u)]
      /\ frame'[Own(t)].fn = frame[Own(t)].fn
      /\ frame'[Own(t)].pc <= 4 => frame[Own(t)].pc <= 4
  BY <1>3, <1>4, StackNames
<1>7. \A k \in Indices, i \in Slots :
        frame'[Block(k, i)].fn \in Funs \cup {"none"} /\ joining'[Block(k, i)] = NoJoin
  BY <1>4, <1>t, StackNames DEF BlocksSleep
<1> QED
  BY <1>1, <1>3, <1>5, <1>6, <1>7, Footprint

\* What goes on inside the calls, and the sleepers that wake.
LEMMA InsideKeeps ==
  ASSUME DInv, NEW t \in Threads, Inside(t) \/ Wakes(t)
  PROVE  frame' \in [Stacks -> Frames] /\ Demo01Inv'
<1>t. RInv /\ TInv /\ TTypeOK /\ DTypeOK
  BY DEF DInv, RInv, TInv
<1>0. program = "demo01" /\ UNCHANGED frame
  BY DEF Inside, Wakes
<1>1. ASSUME co_get_thread_env(t) PROVE Demo01Inv'
  <2>1. /\ Live(t) /\ ~g_thread_env_arr[Env(t)]
        /\ g_thread_env_arr' = [g_thread_env_arr EXCEPT ![Env(t)] = TRUE]
        /\ task' = [task EXCEPT ![Env(t)] = [i \in Slots |-> IF i = 0 THEN "RUNNING" ELSE Free]]
        /\ UNCHANGED <<tid, joining>>
    BY <1>1 DEF co_get_thread_env, InProgram
  <2>2. PICK e \in Indices : e = Env(t)
    BY <1>t, <2>1, Position
  <2>3. /\ \A k \in Indices : k # e =>
             task'[k] = task[k] /\ g_thread_env_arr'[k] = g_thread_env_arr[k]
        /\ \A i \in Slots \ {0} : task'[e][i] = Free
    BY <1>t, <2>1, <2>2 DEF TTypeOK
  <2>4. \A i \in Slots \ {0} : task[e][i] = Free
    BY <1>t, <2>1, <2>2 DEF RInv, Unused
  <2> QED
    BY <1>0, <2>1, <2>2, <2>3, <2>4, Aside
<1>2. ASSUME JoinWait(t) \/ \E i \in Slots : Pick(t, i) PROVE Demo01Inv'
  <2>1. Live(t)
    BY <1>2, <1>t DEF JoinWait, InJoin, Pick, TInv, PicksInEnv
  <2>2. UNCHANGED <<tid, g_thread_env_arr, task, joining>>
    BY <1>2 DEF JoinWait, Pick
  <2>3. \A k \in Indices : k # Env(t) =>
          task'[k] = task[k] /\ g_thread_env_arr'[k] = g_thread_env_arr[k]
    BY <2>2
  <2>4. \A i \in Slots \ {0} : task'[Env(t)][i] = task[Env(t)][i]
    BY <2>2
  <2> QED
    BY <1>0, <2>1, <2>2, <2>3, <2>4, Aside
<1>3. ASSUME NEW i \in Slots, WakeUp(t, i) PROVE Demo01Inv'
  <2>1. /\ task[Env(t)][i] = "SLEEP" /\ task' = [task EXCEPT ![Env(t)][i] = "RUNNING"]
        /\ UNCHANGED <<tid, g_thread_env_arr, joining>>
    BY <1>3 DEF WakeUp
  <2>2. Live(t)
    BY <1>3, <1>t DEF WakeUp, TInv, PicksInEnv
  <2>3. PICK e \in Indices : e = Env(t)
    BY <1>t, <2>2, Position
  <2>4. /\ \A k \in Indices : k # e => task'[k] = task[k]
        /\ \A j \in Slots : task'[e][j] = IF j = i THEN "RUNNING" ELSE task[e][j]
    BY <1>t, <2>1, <2>3 DEF TTypeOK
  <2>5. \A j \in Slots \ {0} :
          /\ task'[e][j] # Free => task[e][j] # Free
          /\ task'[e][j] \in {Free, "EXIT"} => task[e][j] \in {Free, "EXIT"}
    BY <2>1, <2>3, <2>4 DEF Free
  <2> QED
    BY <1>0, <2>1, <2>2, <2>3, <2>4, <2>5, Aside
<1>4. ASSUME JoinReap(t) PROVE Demo01Inv'
  BY <1>0, <1>4, JoinReapKeeps
<1>5. Demo01Inv'
  BY <1>1, <1>2, <1>3, <1>4 DEF Inside, Wakes
<1> QED
  BY <1>0, <1>5, <1>t DEF DTypeOK

\* Every call of demo01 is one that a program may make.
LEMMA DNextThreads == DInv /\ [DNext]_dvars => [TNext]_tvars
<1> SUFFICES ASSUME DInv, [DNext]_dvars PROVE [TNext]_tvars
  OBVIOUS
<1>1. ASSUME NEW t \in Threads, create(t) PROVE TNext
  BY <1>1 DEF create, TNext, Thread
<1>2. ASSUME NEW t \in Threads, sleep(t) PROVE TNext
  BY <1>2 DEF sleep, TNext, Thread
<1>3. ASSUME NEW t \in Threads, join(t) PROVE TNext
  <2>1. \E i \in Slots : co_join(t, i)
    BY <1>3, joinKeeps DEF join
  <2> QED
    BY <2>1 DEF TNext, Thread
<1>4. ASSUME NEW t \in Threads, start_thread(t) PROVE TNext
  <2>1. second \in Threads /\ \E id \in Tids : pthread_create(second, id)
    BY <1>4, Demo01Assumption DEF start_thread
  <2> QED
    BY <2>1 DEF TNext
<1>5. ASSUME NEW t \in Threads, join_thread(t) PROVE UNCHANGED tvars
  BY <1>5 DEF join_thread
<1>6. ASSUME NEW t \in Threads, return(t) PROVE TNext
  BY <1>6 DEF return, TNext, Thread
<1>7. ASSUME NEW t \in Threads, Inside(t) \/ Wakes(t) PROVE TNext
  BY <1>7 DEF Inside, Wakes, TNext, Thread
<1>8. CASE UNCHANGED dvars
  BY <1>8 DEF dvars
<1>9. CASE AnyCall
  BY <1>9 DEF AnyCall
<1> QED
  BY <1>1, <1>2, <1>3, <1>4, <1>5, <1>6, <1>7, <1>8, <1>9 DEF DNext, Runs

\* The invariant holds at first, and is kept.
LEMMA InitDInv == DInit => DInv
<1> SUFFICES ASSUME DInit PROVE DInv
  OBVIOUS
<1>0. first \in Threads /\ second \in Threads /\ first # second
  BY ThreadsAssumption, Demo01Assumption
<1>1. RInv
  BY InitRInv DEF DInit
<1>2. \A fn \in Funs \cup {"main", "th_fn", "none"} : Begin(fn) \in Frames
  BY DEF Begin, Frames, FramesOf
<1>3. DTypeOK
  BY <1>2 DEF DInit, DTypeOK
<1>4. ASSUME program = "demo01" PROVE Demo01Inv
  <2>1. /\ frame[Own(first)] = Begin("main")
        /\ \A s \in Stacks : s # Own(first) => frame[s] = Begin("none")
    BY <1>0, <1>4, StackNames DEF DInit
  <2>2. /\ \A t \in Threads : Live(t) <=> t = first
        /\ \A k \in Indices : ~g_thread_env_arr[k] /\ \A i \in Slots : task[k][i] = Free
        /\ \A s \in Stacks : joining[s] = NoJoin
    BY <1>0, ThreadsAssumption DEF DInit, TInit, Live, NoTid
  <2>3. /\ frame[Own(second)].fn = "none" /\ frame[Own(first)].fn = "main"
        /\ \A k \in Indices, i \in Slots : frame[Block(k, i)].fn = "none"
    BY <1>0, <2>1, StackNames DEF Begin
  <2>4. Cast /\ BlocksSleep /\ NotStarted
    BY <1>0, <2>2, <2>3, StackNames DEF Cast, BlocksSleep, NotStarted, Actors
  <2>5. Env(first) \in Indices
    BY <1>0, <1>1, <2>2, Position DEF RInv
  <2>6. Listed(frame[Own(first)])
    BY <2>1 DEF Listed, Begin, Creates
  <2>7. StillJoined(first) /\ EndedReturned(first)
    BY <2>2, <2>3, <2>5 DEF StillJoined, EndedReturned, Returned
  <2> QED
    BY <1>0, <2>2, <2>4, <2>6, <2>7 DEF Demo01Inv, Kept, Actors
<1> QED
  BY <1>1, <1>3, <1>4 DEF DInv

LEMMA NextDInv == DInv /\ [DNext]_dvars => DInv'
<1> SUFFICES ASSUME DInv, [DNext]_dvars PROVE DInv'
  OBVIOUS
<1>1. RInv'
  BY DNextThreads, NextRInv DEF DInv
<1>2. ASSUME NEW t \in Threads, Runs(t) \/ Wakes(t)
      PROVE  frame' \in [Stacks -> Frames] /\ Demo01Inv'
  <2>1. ASSUME return(t) PROVE frame' \in [Stacks -> Frames] /\ Demo01Inv'
    BY <2>1, finishKeeps, thread_returnsKeeps DEF return
  <2> QED
    BY <1>2, <2>1, createKeeps, sleepKeeps, joinKeeps, start_threadKeeps, join_threadKeeps,
       InsideKeeps DEF Runs
<1>3. CASE UNCHANGED dvars
  <2>1. DTypeOK'
    BY <1>3 DEF DInv, DTypeOK, dvars
  <2>2. UNCHANGED <<tid, g_thread_env_arr, task, joining, frame, program>>
    BY <1>3 DEF dvars, tvars
  <2>3. Demo01Inv => Demo01Inv'
    BY <2>2
       DEF Demo01Inv, Cast, BlocksSleep, NotStarted, Kept, Listed, StillJoined,
           EndedReturned, Returned, Length, Live, Env
  <2> QED
    BY <1>1, <2>1, <2>2, <2>3 DEF DInv
<1>4. CASE AnyCall /\ UNCHANGED program
  BY <1>1, <1>4 DEF AnyCall, DInv, DTypeOK
<1>5. ASSUME NEW t \in Threads, Runs(t) \/ Wakes(t), UNCHANGED program PROVE DInv'
  BY <1>1, <1>2, <1>5 DEF DInv, DTypeOK
<1> QED
  BY <1>3, <1>4, <1>5 DEF DNext

LEMMA Demo01Invariance == DSpec => []DInv
BY InitDInv, NextDInv, PTL DEF DSpec

-----------------------------------------------------------------------------
(***************************************************************************)
(* The joins of demo01.  Those that are still to come have each a coroutine *)
(* of their own, which is there; one that goes on is for a cid further up.  *)
(***************************************************************************)
StillThere(t) ==
  \A n \in 1 .. Len(frame[Own(t)].cids) :
    frame[Own(t)].pc <= Before(frame[Own(t)].fn) + n =>
      task[Env(t)][frame[Own(t)].cids[n]] # Free

CidsDiffer(t) ==
  \A m, n \in 1 .. Len(frame[Own(t)].cids) :
    m # n => frame[Own(t)].cids[m] # frame[Own(t)].cids[n]

\* the co_join for the n-th cid has begun
Begun(t, cid) ==
  \E n \in 1 .. Len(frame[Own(t)].cids) :
    frame[Own(t)].pc > Before(frame[Own(t)].fn) + n /\ cid = frame[Own(t)].cids[n]

Due(t) ==
  /\ StillThere(t) /\ CidsDiffer(t)
  /\ joining[Own(t)] # NoJoin => Begun(t, joining[Own(t)].cid)

AllDue == \A t \in Threads : IF Live(t) THEN Due(t) ELSE joining[Own(t)] = NoJoin

PInv == DInv /\ (program = "demo01" => AllDue)

\* What is due goes on to be, also when the function comes to its next statement.
LEMMA DueSame ==
  ASSUME DInv, NEW t \in Threads, Due(t), tid'[t] = tid[t],
         frame'[Own(t)].fn = frame[Own(t)].fn, frame'[Own(t)].cids = frame[Own(t)].cids,
         frame'[Own(t)].pc \in {frame[Own(t)].pc, frame[Own(t)].pc + 1},
         \A i \in Slots :
           task'[Env(t)][i] = Free => task[Env(t)][i] = Free \/ Begun(t, i),
         \/ joining'[Own(t)] \in {NoJoin, joining[Own(t)]}
         \/ Begun(t, joining[Own(t)].cid)'
  PROVE  Due(t)'
<1>1. Env(t)' = Env(t)
  BY DEF Env
<1>2. /\ frame[Own(t)].pc \in Nat /\ Len(frame[Own(t)].cids) \in Nat
      /\ frame[Own(t)].cids \in Seq(Slots)
      /\ Before(frame[Own(t)].fn) \in Nat
  BY FrameTypes, StackNames, Parts DEF DInv, Before
<1>3. CidsDiffer(t)'
  BY DEF Due, CidsDiffer
<1>4. StillThere(t)'
  <2>1. ASSUME NEW n \in 1 .. Len(frame[Own(t)].cids),
               frame'[Own(t)].pc <= Before(frame[Own(t)].fn) + n
        PROVE  task'[Env(t)][frame[Own(t)].cids[n]] # Free
    <3>1. frame[Own(t)].pc <= Before(frame[Own(t)].fn) + n
      BY <1>2, <2>1
    <3>2. task[Env(t)][frame[Own(t)].cids[n]] # Free
      BY <3>1 DEF Due, StillThere
    <3>3. ~Begun(t, frame[Own(t)].cids[n])
      <4>1. ASSUME NEW m \in 1 .. Len(frame[Own(t)].cids),
                   frame[Own(t)].pc > Before(frame[Own(t)].fn) + m
            PROVE  frame[Own(t)].cids[n] # frame[Own(t)].cids[m]
        <5>1. m # n
          BY <1>2, <3>1, <4>1
        <5> QED
          BY <5>1 DEF Due, CidsDiffer
      <4> QED
        BY <4>1 DEF Begun
    <3>4. frame[Own(t)].cids[n] \in Slots
      BY <1>2
    <3> QED
      BY <3>2, <3>3, <3>4
  <2> QED
    BY <1>1, <2>1 DEF StillThere
<1>5. joining'[Own(t)] # NoJoin => Begun(t, joining[Own(t)].cid)'
  <2>1. CASE joining'[Own(t)] = joining[Own(t)] /\ joining[Own(t)] # NoJoin
    <3>1. PICK n \in 1 .. Len(frame[Own(t)].cids) :
            /\ frame[Own(t)].pc > Before(frame[Own(t)].fn) + n
            /\ joining[Own(t)].cid = frame[Own(t)].cids[n]
      BY <2>1 DEF Due, Begun
    <3>2. frame'[Own(t)].pc > Before(frame[Own(t)].fn) + n
      BY <1>2, <3>1
    <3> QED
      BY <2>1, <3>1, <3>2 DEF Begun
  <2> QED
    BY <2>1
<1> QED
  BY <1>3, <1>4, <1>5 DEF Due

\* A step of thread t, other than those with which a thread begins and ends,
\* leaves to the others what they have to join.
LEMMA DueElsewhere ==
  ASSUME PInv, program = "demo01", NEW t \in Threads, Live(t), UNCHANGED tid,
         \A k \in Indices : k # Env(t) => task'[k] = task[k],
         \A u \in Threads : u # t =>
           frame'[Own(u)] = frame[Own(u)] /\ joining'[Own(u)] = joining[Own(u)],
         Due(t)'
  PROVE  AllDue'
<1>1. AllDue /\ DInv /\ TInv
  BY DEF PInv, DInv, RInv
<1>2. \A u \in Threads : Env(u)' = Env(u) /\ (Live(u)' <=> Live(u))
  BY SameIndex
<1>3. ASSUME NEW u \in Threads, Live(u), u # t PROVE Due(u)'
  <2>1. Env(u) \in Indices /\ Env(u) # Env(t)
    <3>1. Env(u) \in Indices
      BY <1>1, <1>3, Position
    <3> QED
      BY <1>1, <1>3, <3>1 DEF TInv, EnvsDiffer
  <2>2. tid'[u] = tid[u] /\ Due(u) /\ task'[Env(u)] = task[Env(u)]
    BY <1>1, <1>3, <2>1 DEF AllDue
  <2>3. frame'[Own(u)] = frame[Own(u)] /\ joining'[Own(u)] = joining[Own(u)]
    BY <1>3
  <2> QED
    BY <1>1, <2>2, <2>3, DueSame
<1>4. ASSUME NEW u \in Threads, ~Live(u) PROVE joining'[Own(u)] = NoJoin
  BY <1>1, <1>4 DEF AllDue
<1> QED
  BY <1>2, <1>3, <1>4 DEF AllDue

\* The same where the function on the stack of t goes on and no co_join begins.
LEMMA DueInwards ==
  ASSUME PInv, program = "demo01", NEW t \in Threads, Live(t),
         frame' = [frame EXCEPT ![stack[t]].pc = @ + 1],
         UNCHANGED <<tid, joining>>,
         \A k \in Indices : k # Env(t) => task'[k] = task[k],
         \A i \in Slots : task'[Env(t)][i] = Free => task[Env(t)][i] = Free
  PROVE  AllDue'
<1>1. AllDue /\ DInv /\ Due(t)
  BY DEF PInv, AllDue
<1>2. /\ frame'[Own(t)].fn = frame[Own(t)].fn
      /\ frame'[Own(t)].cids = frame[Own(t)].cids
      /\ frame'[Own(t)].pc \in {frame[Own(t)].pc, frame[Own(t)].pc + 1}
      /\ \A u \in Threads : u # t => frame'[Own(u)] = frame[Own(u)]
  BY <1>1, GoesOn, StackNames
<1>3. Due(t)'
  BY <1>1, <1>2, DueSame
<1> QED
  BY <1>2, <1>3, DueElsewhere

\* The step that begins a co_join.
LEMMA joinDue ==
  ASSUME PInv, NEW t \in Threads, join(t)
  PROVE  AllDue'
<1>d. DInv /\ RInv /\ TInv /\ TTypeOK /\ DTypeOK
  BY DEF PInv, DInv, RInv, TInv
<1>1. /\ program = "demo01" /\ Live(t) /\ joining[stack[t]] = NoJoin
      /\ stack[t] = Own(t)
      /\ Placed(frame[Own(t)].fn, frame[Own(t)].pc, Statement(Own(t)))
      /\ Statement(Own(t))[1] = "co_join"
  BY <1>d, AtStatement DEF join
<1>2. PICK m \in 1 .. Creates(frame[Own(t)].fn) :
        m = Arg(t) /\ frame[Own(t)].pc = Before(frame[Own(t)].fn) + m
  BY <1>1 DEF Placed, Arg
<1>k. Kept(t) /\ Due(t) /\ Env(t) \in Indices
  BY <1>1, <1>d, Player DEF DInv, Demo01Inv, PInv, AllDue
<1>n. /\ frame[Own(t)].pc \in Nat /\ Before(frame[Own(t)].fn) \in Nat
      /\ frame[Own(t)].pc > Creates(frame[Own(t)].fn)
  BY <1>2, Parts DEF Before, Creates
<1>3. m \in 1 .. Len(frame[Own(t)].cids)
  BY <1>2, <1>k, <1>n DEF Kept, Listed, Creates
<1>4. /\ joining' = [joining EXCEPT ![Own(t)] = [env |-> Env(t), cid |-> frame[Own(t)].cids[m]]]
      /\ UNCHANGED <<tid, task>>
      /\ frame' = [frame EXCEPT ![stack[t]].pc = @ + 1]
  BY <1>1, <1>2 DEF join, co_join, Advanced
<1>5. /\ joining'[Own(t)].cid = frame[Own(t)].cids[m]
      /\ \A u \in Threads : u # t => joining'[Own(u)] = joining[Own(u)]
  BY <1>4, <1>d, StackNames DEF TTypeOK
<1>6. /\ frame'[Own(t)].fn = frame[Own(t)].fn
      /\ frame'[Own(t)].cids = frame[Own(t)].cids
      /\ frame'[Own(t)].pc = frame[Own(t)].pc + 1
      /\ \A u \in Threads : u # t => frame'[Own(u)] = frame[Own(u)]
  BY <1>1, <1>4, <1>d, GoesOn
<1>7. Begun(t, joining[Own(t)].cid)'
  <2>1. frame'[Own(t)].pc > Before(frame'[Own(t)].fn) + m
    BY <1>2, <1>3, <1>6, <1>n
  <2> QED
    BY <1>3, <1>5, <1>6, <2>1 DEF Begun
<1>8. Due(t)'
  BY <1>4, <1>6, <1>7, <1>d, <1>k, DueSame
<1> QED
  BY <1>1, <1>4, <1>5, <1>6, <1>8, DueElsewhere

\* The step that ends one.
LEMMA JoinReapDue ==
  ASSUME PInv, program = "demo01", NEW t \in Threads, JoinReap(t), UNCHANGED frame
  PROVE  AllDue'
<1>d. DInv /\ RInv /\ TInv /\ TTypeOK /\ JoinsHome
  BY DEF PInv, DInv, RInv, TInv
<1>1. Live(t) /\ joining[stack[t]] # NoJoin
  BY DEF JoinReap, InJoin
<1>2. stack[t] = Own(t) /\ Due(t) /\ Env(t) \in Indices
  BY <1>1, <1>d, Player DEF PInv, AllDue
<1>3. PICK e \in Indices, j \in Slots :
        /\ e = Env(t) /\ joining[Own(t)].cid = j
        /\ task' = [task EXCEPT ![e][j] = Free]
        /\ joining' = [joining EXCEPT ![Own(t)] = NoJoin] /\ UNCHANGED tid
  <2>1. joining[Own(t)].env = Env(t)
    BY <1>1, <1>2, <1>d DEF JoinsHome
  <2>2. joining[Own(t)] \in [env : Indices, cid : Slots]
    BY <1>1, <1>2, <1>d, StackNames DEF TTypeOK
  <2> QED
    BY <1>2, <2>1, <2>2 DEF JoinReap
<1>4. /\ \A k \in Indices : k # e => task'[k] = task[k]
      /\ \A i \in Slots : i # j => task'[e][i] = task[e][i]
      /\ joining'[Own(t)] = NoJoin
      /\ \A u \in Threads : u # t => joining'[Own(u)] = joining[Own(u)]
  BY <1>3, <1>d, StackNames DEF TTypeOK
<1>5. Begun(t, j)
  BY <1>1, <1>2, <1>3 DEF Due
<1>6. frame[Own(t)].pc \in {frame[Own(t)].pc, frame[Own(t)].pc + 1}
  OBVIOUS
<1>7. \A i \in Slots : task'[Env(t)][i] = Free => task[Env(t)][i] = Free \/ Begun(t, i)
  BY <1>3, <1>4, <1>5
<1>8. Due(t)'
  BY <1>2, <1>3, <1>4, <1>6, <1>7, <1>d, DueSame
<1> QED
  BY <1>1, <1>3, <1>4, <1>8, DueElsewhere

\* A coroutine is created: its cid differs from those that are in the list.
LEMMA createDue ==
  ASSUME PInv, NEW t \in Threads, create(t)
  PROVE  AllDue'
<1>d. DInv /\ DTypeOK
  BY DEF PInv, DInv
<1>1. /\ program = "demo01" /\ Live(t) /\ joining[Own(t)] = NoJoin
      /\ frame[Own(t)].pc <= Creates(frame[Own(t)].fn) /\ Kept(t)
  BY <1>d, Created
<1>2. PICK e \in Indices, id \in Slots \ {0} :
        /\ e = Env(t) /\ task[e][id] = Free
        /\ UNCHANGED <<tid, joining>>
        /\ frame'[Own(t)].fn = frame[Own(t)].fn
        /\ frame'[Own(t)].cids = Append(frame[Own(t)].cids, id)
        /\ frame'[Own(t)].pc = frame[Own(t)].pc + 1
        /\ \A s \in Stacks : s # Own(t) /\ s # Block(e, id) => frame'[s] = frame[s]
        /\ \A k \in Indices : k # e => task'[k] = task[k]
        /\ \A i \in Slots : i # id => task'[e][i] = task[e][i]
        /\ task'[e][id] = "RUNNING"
  BY <1>d, Created
<1>3. Due(t)
  BY <1>1 DEF PInv, AllDue
<1>4. /\ frame[Own(t)].pc \in Nat \ {0} /\ frame[Own(t)].cids \in Seq(Slots)
      /\ Len(frame[Own(t)].cids) = frame[Own(t)].pc - 1
      /\ Creates(frame[Own(t)].fn) \in Nat /\ Before(frame[Own(t)].fn) \in Nat
      /\ Creates(frame[Own(t)].fn) < Before(frame[Own(t)].fn) + 1
  BY <1>1, <1>d, FrameTypes, StackNames, Parts DEF Kept, Listed, Creates, Before
<1>5. /\ Len(frame'[Own(t)].cids) = frame[Own(t)].pc
      /\ frame'[Own(t)].cids[frame[Own(t)].pc] = id
      /\ \A n \in 1 .. Len(frame[Own(t)].cids) :
           frame'[Own(t)].cids[n] = frame[Own(t)].cids[n]
  <2>1. frame'[Own(t)].cids = Append(frame[Own(t)].cids, id) /\ id \in Slots
    BY <1>2
  <2> QED
    BY <1>4, <2>1
<1>6. \A n \in 1 .. Len(frame[Own(t)].cids) :
        /\ frame[Own(t)].cids[n] \in Slots
        /\ task[e][frame[Own(t)].cids[n]] # Free
        /\ frame[Own(t)].cids[n] # id
  <2>1. ASSUME NEW n \in 1 .. Len(frame[Own(t)].cids)
        PROVE  frame[Own(t)].pc <= Before(frame[Own(t)].fn) + n
    BY <1>1, <1>4
  <2>2. \A n \in 1 .. Len(frame[Own(t)].cids) : task[e][frame[Own(t)].cids[n]] # Free
    BY <1>2, <1>3, <2>1 DEF Due, StillThere
  <2>3. \A n \in 1 .. Len(frame[Own(t)].cids) : frame[Own(t)].cids[n] \in Slots
    BY <1>4
  <2> QED
    BY <1>2, <2>2, <2>3
<1>7. \A n \in 1 .. frame[Own(t)].pc :
        n = frame[Own(t)].pc \/ n \in 1 .. Len(frame[Own(t)].cids)
  BY <1>4
<1>8. Due(t)'
  <2>1. Env(t)' = e
    BY <1>2 DEF Env
  <2>2. \A n \in 1 .. Len(frame'[Own(t)].cids) : task'[e][frame'[Own(t)].cids[n]] # Free
    <3>1. task'[e][id] # Free
      BY <1>2 DEF Free
    <3> QED
      BY <1>2, <1>5, <1>6, <1>7, <3>1
  <2>3. StillThere(t)'
    BY <2>1, <2>2 DEF StillThere
  <2>4. ASSUME NEW m \in 1 .. frame[Own(t)].pc, NEW n \in 1 .. frame[Own(t)].pc, m # n
        PROVE  frame'[Own(t)].cids[m] # frame'[Own(t)].cids[n]
    <3>1. CASE m = frame[Own(t)].pc \/ n = frame[Own(t)].pc
      BY <1>5, <1>6, <1>7, <2>4, <3>1
    <3>2. CASE m # frame[Own(t)].pc /\ n # frame[Own(t)].pc
      BY <1>3, <1>5, <1>7, <2>4, <3>2 DEF Due, CidsDiffer
    <3> QED
      BY <3>1, <3>2
  <2>5. CidsDiffer(t)'
    BY <1>5, <2>4 DEF CidsDiffer
  <2>6. joining'[Own(t)] = NoJoin
    BY <1>1, <1>2
  <2> QED
    BY <2>3, <2>5, <2>6 DEF Due
<1>9. \A u \in Threads : u # t =>
        frame'[Own(u)] = frame[Own(u)] /\ joining'[Own(u)] = joining[Own(u)]
  BY <1>2, StackNames
<1> QED
  BY <1>1, <1>2, <1>8, <1>9, DueElsewhere

\* The second thread begins with nothing to join; when it ends it joins nothing.
LEMMA start_threadDue ==
  ASSUME PInv, NEW t \in Threads, start_thread(t)
  PROVE  AllDue'
<1>d. DInv /\ DTypeOK /\ TTypeOK
  BY DEF PInv, DInv, RInv, TInv
<1>0. first \in Threads /\ second \in Threads /\ first # second
  BY ThreadsAssumption, Demo01Assumption
<1>1. /\ program = "demo01" /\ Live(t) /\ joining[stack[t]] = NoJoin /\ stack[t] = Own(t)
      /\ frame[Own(t)].pc = 4 /\ Arg(t) = "th_fn"
  BY <1>d, AtStatement DEF start_thread, Placed, Arg
<1>2. PICK id \in Tids : pthread_create(second, id)
  BY DEF start_thread
<1>3. /\ ~Live(second) /\ t # second /\ tid' = [tid EXCEPT ![second] = id]
      /\ UNCHANGED <<task, joining>>
  BY <1>1, <1>2 DEF pthread_create
<1>4. frame' = [Advanced(t) EXCEPT ![Own(second)] = Begin("th_fn")]
  BY <1>1 DEF start_thread
<1>5. /\ frame'[Own(second)].cids = <<>>
      /\ frame'[Own(t)].fn = frame[Own(t)].fn /\ frame'[Own(t)].cids = frame[Own(t)].cids
      /\ frame'[Own(t)].pc = frame[Own(t)].pc + 1
      /\ \A u \in Threads : u # t /\ u # second => frame'[Own(u)] = frame[Own(u)]
  <2>1. Own(t) \in Stacks /\ Own(second) \in Stacks /\ Own(t) # Own(second)
    BY <1>0, <1>3, StackNames
  <2>2. /\ Advanced(t) \in [Stacks -> Frames]
        /\ Advanced(t)[Own(t)].fn = frame[Own(t)].fn
        /\ Advanced(t)[Own(t)].cids = frame[Own(t)].cids
        /\ Advanced(t)[Own(t)].pc = frame[Own(t)].pc + 1
        /\ \A s \in Stacks : s # Own(t) => Advanced(t)[s] = frame[s]
    <3>1. frame \in [Stacks -> Frames] /\ frame[Own(t)] \in Frames
      BY <1>d, <2>1 DEF DTypeOK
    <3>2. Advanced(t) = [frame EXCEPT ![Own(t)] = [frame[Own(t)] EXCEPT !.pc = @ + 1]]
      BY <1>1 DEF Advanced
    <3>3. /\ [frame[Own(t)] EXCEPT !.pc = @ + 1] \in Frames
          /\ [frame[Own(t)] EXCEPT !.pc = @ + 1].pc = frame[Own(t)].pc + 1
          /\ [frame[Own(t)] EXCEPT !.pc = @ + 1].fn = frame[Own(t)].fn
          /\ [frame[Own(t)] EXCEPT !.pc = @ + 1].cids = frame[Own(t)].cids
      BY <3>1, NextFrame DEF Frames
    <3> QED
      BY <2>1, <3>1, <3>2, <3>3
  <2>3. /\ frame'[Own(second)] = Begin("th_fn")
        /\ \A s \in Stacks : s # Own(second) => frame'[s] = Advanced(t)[s]
    BY <1>4, <2>1, <2>2
  <2>4. Begin("th_fn").cids = <<>>
    BY DEF Begin
  <2>5. ASSUME NEW u \in Threads, u # t, u # second PROVE frame'[Own(u)] = frame[Own(u)]
    <3>1. Own(u) \in Stacks /\ Own(u) # Own(t) /\ Own(u) # Own(second)
      BY <1>0, <2>5, StackNames
    <3> QED
      BY <2>2, <2>3, <3>1
  <2> QED
    BY <2>1, <2>2, <2>3, <2>4, <2>5
<1>6. /\ tid'[second] = id /\ \A u \in Threads : u # second => tid'[u] = tid[u]
      /\ \A u \in Threads : u # second => (Live(u)' <=> Live(u))
  BY <1>0, <1>3, <1>d DEF TTypeOK, Live
<1>7. ASSUME NEW u \in Threads, u # second, Live(u) PROVE Due(u)'
  <2>1. Due(u) /\ tid'[u] = tid[u]
    BY <1>1, <1>6, <1>7 DEF PInv, AllDue
  <2>2. /\ frame'[Own(u)].fn = frame[Own(u)].fn /\ frame'[Own(u)].cids = frame[Own(u)].cids
        /\ frame'[Own(u)].pc \in {frame[Own(u)].pc, frame[Own(u)].pc + 1}
    BY <1>5, <1>7
  <2> QED
    BY <1>3, <1>d, <2>1, <2>2, DueSame
<1>8. Due(second)'
  <2>1. joining'[Own(second)] = NoJoin
    BY <1>0, <1>1, <1>3 DEF PInv, AllDue
  <2>2. ~\E n \in 1 .. Len(frame'[Own(second)].cids) : TRUE
    <3>1. Len(frame'[Own(second)].cids) = 0
      BY <1>5
    <3> QED
      BY <3>1
  <2> QED
    BY <2>1, <2>2 DEF Due, StillThere, CidsDiffer
<1>9. \A u \in Threads : ~Live(u) => joining'[Own(u)] = NoJoin
  BY <1>1, <1>3 DEF PInv, AllDue
<1> QED
  BY <1>3, <1>6, <1>7, <1>8, <1>9 DEF AllDue

LEMMA thread_returnsDue ==
  ASSUME PInv, program = "demo01", NEW t \in Threads, thread_returns(t), frame' = Advanced(t)
  PROVE  AllDue'
<1>d. DInv /\ TTypeOK
  BY DEF PInv, DInv, RInv, TInv
<1>1. /\ Live(t) /\ joining[Own(t)] = NoJoin /\ tid' = [tid EXCEPT ![t] = NoTid]
      /\ UNCHANGED <<task, joining>> /\ frame' = [frame EXCEPT ![stack[t]].pc = @ + 1]
  BY DEF thread_returns, InProgram, Advanced
<1>2. /\ ~Live(t)' /\ \A u \in Threads : u # t => tid'[u] = tid[u]
      /\ \A u \in Threads : u # t => (Live(u)' <=> Live(u))
  BY <1>1, <1>d DEF TTypeOK, Live
<1>3. \A u \in Threads : u # t => frame'[Own(u)] = frame[Own(u)]
  BY <1>1, <1>d, GoesOn
<1>4. ASSUME NEW u \in Threads, u # t, Live(u) PROVE Due(u)'
  <2>1. Due(u) /\ tid'[u] = tid[u] /\ frame'[Own(u)] = frame[Own(u)]
    BY <1>2, <1>3, <1>4 DEF PInv, AllDue
  <2> QED
    BY <1>1, <1>d, <2>1, DueSame
<1> QED
  BY <1>1, <1>2, <1>4 DEF PInv, AllDue

\* What goes on inside the calls, and the sleepers that wake.
LEMMA InsideDue ==
  ASSUME PInv, NEW t \in Threads, Inside(t) \/ Wakes(t)
  PROVE  AllDue'
<1>d. DInv /\ RInv /\ TInv /\ TTypeOK
  BY DEF PInv, DInv, RInv, TInv
<1>0. program = "demo01" /\ UNCHANGED frame
  BY DEF Inside, Wakes
<1>1. CASE JoinReap(t)
  BY <1>0, <1>1, JoinReapDue
<1>2. CASE ~JoinReap(t)
  <2>1. /\ Live(t) /\ UNCHANGED <<tid, joining>>
    BY <1>2, <1>d DEF Inside, Wakes, co_get_thread_env, InProgram, JoinWait, InJoin, Pick, WakeUp,
                      TInv, PicksInEnv
  <2>2. PICK e \in Indices : e = Env(t)
    BY <1>d, <2>1, Position
  <2>3. /\ \A k \in Indices : k # e => task'[k] = task[k]
        /\ \A i \in Slots : task'[e][i] = Free => task[e][i] = Free
    <3>1. CASE co_get_thread_env(t)
      <4>1. /\ ~g_thread_env_arr[e]
            /\ task' = [task EXCEPT ![e] = [i \in Slots |-> IF i = 0 THEN "RUNNING" ELSE Free]]
        BY <2>2, <3>1 DEF co_get_thread_env
      <4>2. \A i \in Slots : task[e][i] = Free
        BY <1>d, <4>1 DEF RInv, Unused
      <4> QED
        BY <1>d, <4>1, <4>2 DEF TTypeOK
    <3>2. CASE \E i \in Slots : WakeUp(t, i)
      <4>1. PICK i \in Slots : task' = [task EXCEPT ![e][i] = "RUNNING"]
        BY <2>2, <3>2 DEF WakeUp
      <4>2. /\ \A k \in Indices : k # e => task'[k] = task[k]
            /\ \A j \in Slots : task'[e][j] = IF j = i THEN "RUNNING" ELSE task[e][j]
        BY <1>d, <4>1 DEF TTypeOK
      <4> QED
        BY <4>2 DEF Free
    <3>3. CASE JoinWait(t) \/ \E i \in Slots : Pick(t, i)
      BY <3>3 DEF JoinWait, Pick
    <3> QED
      BY <1>2, <3>1, <3>2, <3>3 DEF Inside, Wakes
  <2>4. Due(t)
    BY <1>0, <2>1 DEF PInv, AllDue
  <2>5. Due(t)'
    BY <1>0, <1>d, <2>1, <2>2, <2>3, <2>4, DueSame
  <2>6. \A u \in Threads : u # t =>
          frame'[Own(u)] = frame[Own(u)] /\ joining'[Own(u)] = joining[Own(u)]
    BY <1>0, <2>1
  <2> QED
    BY <1>0, <2>1, <2>2, <2>3, <2>5, <2>6, DueElsewhere
<1> QED
  BY <1>1, <1>2

\* Functions that sleep, return or wait for the thread.
LEMMA OthersDue ==
  ASSUME PInv, NEW t \in Threads, sleep(t) \/ join_thread(t) \/ return(t)
  PROVE  AllDue'
<1>d. DInv /\ RInv /\ TInv /\ TTypeOK
  BY DEF PInv, DInv, RInv, TInv
<1>1. /\ program = "demo01" /\ Live(t)
      /\ frame' = [frame EXCEPT ![stack[t]].pc = @ + 1] /\ frame' = Advanced(t)
  BY DEF sleep, join_thread, return, At, InProgram, Advanced
<1>2. CASE thread_returns(t)
  BY <1>1, <1>2, thread_returnsDue
<1>3. CASE ~thread_returns(t)
  <2>1. UNCHANGED <<tid, joining>>
    BY <1>3 DEF sleep, join_thread, return, co_sleep, finish, tvars
  <2>2. PICK e \in Indices : e = Env(t)
    BY <1>1, <1>d, Position
  <2>3. /\ \A k \in Indices : k # e => task'[k] = task[k]
        /\ \A i \in Slots : task'[e][i] = Free => task[e][i] = Free
    <3>1. CASE sleep(t)
      <4>1. task' = [task EXCEPT ![e][current[e]] = "SLEEP"] /\ current[e] \in Slots
        BY <2>2, <3>1, <1>d DEF sleep, co_sleep, TTypeOK
      <4>2. /\ \A k \in Indices : k # e => task'[k] = task[k]
            /\ \A j \in Slots : task'[e][j] = IF j = current[e] THEN "SLEEP" ELSE task[e][j]
        BY <1>d, <4>1 DEF TTypeOK
      <4> QED
        BY <4>2 DEF Free
    <3>2. CASE join_thread(t)
      BY <3>2 DEF join_thread, tvars
    <3>3. CASE finish(t)
      <4>1. PICK k \in Indices, c \in Slots :
              stack[t] = Block(k, c) /\ task' = [task EXCEPT ![k][c] = "EXIT"]
        BY <3>3 DEF finish
      <4>2. k = e
        <5>1. stack[t] # Own(t)
          BY <4>1, StackNames
        <5>2. current[e] \in Slots /\ stack[t] = Block(e, current[e])
          BY <1>1, <1>d, <2>2, <5>1, Player
        <5> QED
          BY <4>1, <5>2, StackNames
      <4>3. /\ \A j \in Indices : j # e => task'[j] = task[j]
            /\ \A j \in Slots : task'[e][j] = IF j = c THEN "EXIT" ELSE task[e][j]
        BY <1>d, <4>1, <4>2 DEF TTypeOK
      <4> QED
        BY <4>3 DEF Free
    <3> QED
      BY <1>3, <3>1, <3>2, <3>3 DEF return
  <2> QED
    BY <1>1, <2>1, <2>2, <2>3, DueInwards
<1> QED
  BY <1>2, <1>3

LEMMA InitPInv == DInit => PInv
<1> SUFFICES ASSUME DInit, program = "demo01" PROVE AllDue
  BY InitDInv DEF PInv
<1>1. ASSUME NEW t \in Threads PROVE joining[Own(t)] = NoJoin /\ frame[Own(t)].cids = <<>>
  BY StackNames DEF DInit, TInit, Begin
<1> QED
  BY <1>1 DEF AllDue, Due, StillThere, CidsDiffer

LEMMA NextPInv == PInv /\ [DNext]_dvars => PInv'
<1> SUFFICES ASSUME PInv, [DNext]_dvars PROVE PInv'
  OBVIOUS
<1>1. DInv'
  BY NextDInv DEF PInv
<1>2. ASSUME NEW t \in Threads, Runs(t) \/ Wakes(t) PROVE AllDue'
  BY <1>2, createDue, joinDue, start_threadDue, OthersDue, InsideDue DEF Runs
<1>3. CASE UNCHANGED dvars
  <2>1. UNCHANGED <<tid, task, joining, frame, program>>
    BY <1>3 DEF dvars, tvars
  <2>2. AllDue => AllDue'
    BY <2>1 DEF AllDue, Due, StillThere, CidsDiffer, Begun, Live, Env
  <2> QED
    BY <1>1, <2>1, <2>2 DEF PInv
<1>4. CASE AnyCall /\ UNCHANGED program
  BY <1>1, <1>4 DEF AnyCall, PInv
<1>5. ASSUME NEW t \in Threads, Runs(t) \/ Wakes(t), UNCHANGED program PROVE PInv'
  BY <1>1, <1>2, <1>5 DEF PInv
<1> QED
  BY <1>3, <1>4, <1>5 DEF DNext

\* Whatever the two threads and their coroutines have done by then, a co_join of
\* demo01 may begin: its control block is there and no other co_join waits for it.
THEOREM JoinsBegin == DSpec => []JoinsMayBegin
<1>1. DSpec => []PInv
  BY InitPInv, NextPInv, PTL DEF DSpec
<1>2. PInv => JoinsMayBegin
  <2> SUFFICES ASSUME PInv, NEW t \in Threads, At(t, "co_join")
               PROVE  /\ Arg(t) \in 1 .. Len(frame[stack[t]].cids)
                      /\ task[Env(t)][frame[stack[t]].cids[Arg(t)]] # Free
                      /\ \A s \in Stacks :
                           joining[s] # [env |-> Env(t), cid |-> frame[stack[t]].cids[Arg(t)]]
    BY DEF JoinsMayBegin
  <2>d. DInv /\ TInv /\ JoinsHome
    BY DEF PInv, DInv, RInv
  <2>1. /\ program = "demo01" /\ Live(t) /\ joining[Own(t)] = NoJoin /\ stack[t] = Own(t)
        /\ Arg(t) \in 1 .. Creates(frame[Own(t)].fn)
        /\ frame[Own(t)].pc = Before(frame[Own(t)].fn) + Arg(t)
    BY <2>d, AtStatement DEF Placed, Arg
  <2>2. Kept(t) /\ Due(t) /\ AllDue /\ BlocksSleep /\ Env(t) \in Indices
    BY <2>1, <2>d, Player DEF DInv, Demo01Inv, PInv, AllDue
  <2>3. /\ frame[Own(t)].pc \in Nat /\ Before(frame[Own(t)].fn) \in Nat
        /\ frame[Own(t)].pc > Creates(frame[Own(t)].fn)
    BY <2>1, Parts DEF Before, Creates
  <2>4. Arg(t) \in 1 .. Len(frame[Own(t)].cids)
    BY <2>1, <2>2, <2>3 DEF Kept, Listed, Creates
  <2>5. task[Env(t)][frame[Own(t)].cids[Arg(t)]] # Free
    BY <2>1, <2>2, <2>3, <2>4 DEF Due, StillThere
  <2>6. ASSUME NEW u \in Threads, joining[Own(u)] # NoJoin PROVE joining[Own(u)].env # Env(t)
    <3>1. Live(u) /\ u # t
      BY <2>1, <2>2, <2>6 DEF AllDue
    <3>2. joining[Own(u)].env = Env(u)
      BY <2>d, <2>6 DEF JoinsHome
    <3> QED
      BY <2>1, <2>d, <3>1, <3>2 DEF TInv, EnvsDiffer
  <2>7. ASSUME NEW s \in Stacks
        PROVE  joining[s] # [env |-> Env(t), cid |-> frame[Own(t)].cids[Arg(t)]]
    <3>1. NoJoin # [env |-> Env(t), cid |-> frame[Own(t)].cids[Arg(t)]]
      BY <2>2 DEF NoJoin, Indices
    <3>2. CASE \E u \in Threads : s = Own(u)
      BY <2>6, <3>1, <3>2
    <3>3. CASE \E k \in Indices, i \in Slots : s = Block(k, i)
      BY <2>2, <3>1, <3>3 DEF BlocksSleep
    <3> QED
      BY <3>2, <3>3 DEF Stacks
  <2> QED
    BY <2>1, <2>4, <2>5, <2>7
<1> QED
  BY <1>1, <1>2, PTL

\* When main waits for the second thread or comes to its end, and when th_fn
\* does, each coroutine of the thread has returned and been joined.
THEOREM NoneLeftBehind == DSpec => []NothingLeftBehind
<1>1. ASSUME DInv, program = "demo01", NEW t \in Actors, InProgram(t), stack[t] = Own(t),
             AtEnd(Own(t)) \/ At(t, "pthread_join"), NEW i \in Slots \ {0}
      PROVE  task[Env(t)][i] = Free /\ Returned(Block(Env(t), i))
  <2>0. t \in Threads /\ Live(t) /\ joining[Own(t)] = NoJoin /\ DTypeOK
    BY <1>1, ThreadsAssumption, Demo01Assumption DEF Actors, InProgram, DInv
  <2>1. Kept(t) /\ frame[Own(t)].fn \in {"main", "th_fn"}
    BY <1>1, <2>0, Player DEF DInv, Demo01Inv
  <2>2. /\ frame[Own(t)].pc \in Nat /\ Before(frame[Own(t)].fn) \in Nat
        /\ Creates(frame[Own(t)].fn) \in Nat
    BY <2>0, FrameTypes, StackNames, Parts DEF Before, Creates
  <2>3. frame[Own(t)].pc > Before(frame[Own(t)].fn) + Creates(frame[Own(t)].fn)
    <3>1. CASE AtEnd(Own(t))
      <4>1. frame[Own(t)].pc = Len(Body[frame[Own(t)].fn]) + 1
        BY <3>1 DEF AtEnd, Length
      <4>2. /\ Len(Body[frame[Own(t)].fn]) \in Nat
            /\ Len(Body[frame[Own(t)].fn])
                 >= Before(frame[Own(t)].fn) + Creates(frame[Own(t)].fn)
        BY <2>1, Scripts
      <4> QED
        BY <2>2, <4>1, <4>2
    <3>2. CASE At(t, "pthread_join")
      <4>1. frame[Own(t)].fn = "main" /\ frame[Own(t)].pc = Before(frame[Own(t)].fn) + 4
        BY <1>1, <2>0, <3>2, AtStatement DEF Placed
      <4> QED
        BY <2>2, <4>1 DEF Creates
    <3> QED
      BY <1>1, <3>1, <3>2
  <2>4. Len(frame[Own(t)].cids) = Creates(frame[Own(t)].fn)
    BY <2>1, <2>2, <2>3 DEF Kept, Listed
  <2>5. \A n \in 1 .. Len(frame[Own(t)].cids) :
          ~(frame[Own(t)].pc <= Before(frame[Own(t)].fn) + n)
    BY <2>2, <2>3, <2>4
  <2>6. joining[Own(t)] # [env |-> Env(t), cid |-> i]
    BY <2>0 DEF NoJoin, Slots
  <2>7. task[Env(t)][i] = Free
    BY <2>1, <2>5, <2>6 DEF Kept, StillJoined
  <2>8. Returned(Block(Env(t), i))
    BY <2>1, <2>7 DEF Kept, EndedReturned
  <2> QED
    BY <2>7, <2>8
<1>2. DInv => NothingLeftBehind
  BY <1>1 DEF NothingLeftBehind, Actors
<1> QED
  BY <1>2, Demo01Invariance, PTL
=============================================================================
