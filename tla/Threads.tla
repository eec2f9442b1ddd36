------------------------------ MODULE Threads ------------------------------
(***************************************************************************)
(* Several threads, each with coroutines of its own: the table              *)
(* g_thread_env_arr in which co_get_thread_env() (src/src/coroutine.c)      *)
(* finds the environment of the calling thread, and the stacks that         *)
(* schedule() (src/src/sched.c) lets a thread move between.                 *)
(*                                                                         *)
(* Sched describes the inside of one environment.  Here its clock is left   *)
(* out: a sleeper that pick() comes across is readied sooner or later.      *)
(* Threads end and others start, with any id that the table has room for.   *)
(***************************************************************************)
EXTENDS Integers, FiniteSets

CONSTANTS
  Threads,         \* the threads
  first,           \* the one the process starts with
  Tids,            \* the ids the kernel gives to threads
  MAX_THREAD_NUM,  \* entries of g_thread_env_arr (10240)
  NR_TASKS         \* slots of thread_env->task (10240)

ASSUME ThreadsAssumption ==
  /\ first \in Threads
  /\ Tids \subseteq Nat /\ Tids # {}
  /\ MAX_THREAD_NUM \in Nat \ {0}
  /\ NR_TASKS \in Nat \ {0}

Indices == 0 .. MAX_THREAD_NUM - 1   \* an environment is named by its index
Slots   == 0 .. NR_TASKS - 1

NoTid  == -1
Free   == "NULL"
NoJoin == [env |-> -1, cid |-> -1]

Statuses == {"RUNNING", "SLEEP", "EXIT"}

\* A stack: that of a thread, or tsk->stack of the control block in a slot.
Own(t)    == <<"thread", t, 0>>
Block(k, i) == <<"block", k, i>>
Stacks == {Own(t) : t \in Threads} \cup {Block(k, i) : k \in Indices, i \in Slots}
NoStack == <<"none", 0, 0>>

VARIABLES
  tid,               \* thread -> its id, or NoTid
  g_thread_env_arr,  \* index -> whether the entry points to an environment
  task,              \* index -> slot -> task[slot]->status, or Free
  current,           \* index -> the slot of thread_env->current
  esp,               \* index -> slot -> the stack that task[slot]->esp points into
  stack,             \* thread -> the stack it executes on
  phase,             \* thread -> "run", or "pick" when it is inside schedule()
  joining            \* stack -> the environment and the cid of its co_join, or NoJoin

tvars == <<tid, g_thread_env_arr, task, current, esp, stack, phase, joining>>

TTypeOK ==
  /\ tid \in [Threads -> Tids \cup {NoTid}]
  /\ g_thread_env_arr \in [Indices -> BOOLEAN]
  /\ task \in [Indices -> [Slots -> Statuses \cup {Free}]]
  /\ current \in [Indices -> Slots]
  /\ esp \in [Indices -> [Slots -> Stacks \cup {NoStack}]]
  /\ stack \in [Threads -> Stacks]
  /\ phase \in [Threads -> {"run", "pick"}]
  /\ joining \in [Stacks -> [env : Indices, cid : Slots] \cup {NoJoin}]

Live(t) == tid[t] # NoTid

Env_NoValue(t) == 0   \* slip: gettid(), without a return, has no value to give

\* the index that thread t computes from gettid(): src/src/cosyscall.c returns
\* what the system call left in the return register, which is the id
Env(t) == tid[t] % MAX_THREAD_NUM

TInit ==
  /\ \E id \in Tids : tid = [t \in Threads |-> IF t = first THEN id ELSE NoTid]
  /\ g_thread_env_arr = [k \in Indices |-> FALSE]
  /\ task = [k \in Indices |-> [i \in Slots |-> Free]]
  /\ current = [k \in Indices |-> 0]
  /\ esp = [k \in Indices |-> [i \in Slots |-> NoStack]]
  /\ stack = [t \in Threads |-> Own(t)]
  /\ phase = [t \in Threads |-> "run"]
  /\ joining = [s \in Stacks |-> NoJoin]

(***************************************************************************)
(* The kernel's threads.                                                    *)
(***************************************************************************)
InProgram(t) == Live(t) /\ phase[t] = "run" /\ joining[stack[t]] = NoJoin

\* What the table needs: threads that live at the same time have ids that
\* differ modulo its size.
Apart(id) == \A t \in Threads : Live(t) => Env(t) # id % MAX_THREAD_NUM

pthread_create(t, id) ==
  /\ ~Live(t) /\ Apart(id)
  /\ tid' = [tid EXCEPT ![t] = id]
  /\ stack' = [stack EXCEPT ![t] = Own(t)]
  /\ UNCHANGED <<g_thread_env_arr, task, current, esp, phase, joining>>

\* the function of a thread returns, on the stack it began on; nothing is freed
thread_returns(t) ==
  /\ InProgram(t) /\ t # first /\ stack[t] = Own(t)
  /\ tid' = [tid EXCEPT ![t] = NoTid]
  /\ UNCHANGED <<g_thread_env_arr, task, current, esp, stack, phase, joining>>

(***************************************************************************)
(* The library's calls, by thread t in the environment of index Env(t).     *)
(***************************************************************************)

\* the first call finds no environment: its initial task is the thread itself
co_get_thread_env(t) ==
  /\ InProgram(t) /\ ~g_thread_env_arr[Env(t)]
  /\ g_thread_env_arr' = [g_thread_env_arr EXCEPT ![Env(t)] = TRUE]
  /\ task' = [task EXCEPT ![Env(t)] =
                [i \in Slots |-> IF i = 0 THEN "RUNNING" ELSE Free]]
  /\ UNCHANGED <<tid, current, esp, stack, phase, joining>>

InLibrary(t) == InProgram(t) /\ g_thread_env_arr[Env(t)]

schedule(t) == phase' = [phase EXCEPT ![t] = "pick"]

co_create(t, id) ==
  /\ InLibrary(t)
  /\ task[Env(t)][id] = Free /\ \A lower \in 0 .. id - 1 : task[Env(t)][lower] # Free
  /\ task' = [task EXCEPT ![Env(t)][id] = "RUNNING"]
  /\ esp' = [esp EXCEPT ![Env(t)][id] = Block(Env(t), id)]
  /\ UNCHANGED <<tid, g_thread_env_arr, current, stack, phase, joining>>

co_sleep(t) ==
  /\ InLibrary(t)
  /\ task' = [task EXCEPT ![Env(t)][current[Env(t)]] = "SLEEP"]
  /\ schedule(t)
  /\ UNCHANGED <<tid, g_thread_env_arr, current, esp, stack, joining>>

\* As in Sched, a cid is joined before it is reaped and by one coroutine.
co_join(t, cid) ==
  LET target == [env |-> Env(t), cid |-> cid] IN
  /\ InLibrary(t)
  /\ task[Env(t)][cid] # Free /\ \A s \in Stacks : joining[s] # target
  /\ joining' = [joining EXCEPT ![stack[t]] = target]
  /\ UNCHANGED <<tid, g_thread_env_arr, task, current, esp, stack, phase>>

\* the status that co_join's loop on the stack of t looks at
InJoin(t) == Live(t) /\ phase[t] = "run" /\ joining[stack[t]] # NoJoin
Target(t) == task[joining[stack[t]].env][joining[stack[t]].cid]

Exited_Any(st) == st # Free   \* slip: co_join does not wait for the exit

Exited(st) == st = "EXIT"

JoinWait(t) ==
  /\ InJoin(t) /\ Target(t) # Free /\ ~Exited(Target(t))
  /\ schedule(t)
  /\ UNCHANGED <<tid, g_thread_env_arr, task, current, esp, stack, joining>>

JoinReap(t) ==
  /\ InJoin(t) /\ Exited(Target(t))
  /\ task' = [task EXCEPT ![joining[stack[t]].env][joining[stack[t]].cid] = Free]
  /\ joining' = [joining EXCEPT ![stack[t]] = NoJoin]
  /\ UNCHANGED <<tid, g_thread_env_arr, current, esp, stack, phase>>

\* start(tsk), once co_fn has returned: tsk is the block whose stack it runs on
finish(t) ==
  /\ InProgram(t)
  /\ \E k \in Indices, i \in Slots :
       /\ stack[t] = Block(k, i)
       /\ task' = [task EXCEPT ![k][i] = "EXIT"]
  /\ schedule(t)
  /\ UNCHANGED <<tid, g_thread_env_arr, current, esp, stack, joining>>

(***************************************************************************)
(* schedule().                                                              *)
(***************************************************************************)
Ready(k) == {i \in Slots : task[k][i] = "RUNNING"}

\* pick()'s first loop finds that a sleeper's time has passed
WakeUp(t, i) ==
  /\ phase[t] = "pick" /\ task[Env(t)][i] = "SLEEP"
  /\ task' = [task EXCEPT ![Env(t)][i] = "RUNNING"]
  /\ UNCHANGED <<tid, g_thread_env_arr, current, esp, stack, phase, joining>>

Dist_FromZero(c, i) == i   \* slip: every search begins at slot 0

\* steps around the table from slot c to slot i; c itself comes last
Dist(c, i) == IF i > c THEN i - c ELSE i - c + NR_TASKS

\* slip: nothing is saved of the coroutine that is left
Saved_None(t) == esp

\* what switch_to leaves in the esp of current: the stack the thread is on
Saved(t) == [esp EXCEPT ![Env(t)][current[Env(t)]] = stack[t]]

co_switch_to(t, next) ==
  IF next = current[Env(t)] THEN UNCHANGED <<esp, stack>>
  ELSE esp' = Saved(t) /\ stack' = [stack EXCEPT ![t] = esp[Env(t)][next]]

\* slip: current is set behind switch_to, where a new coroutine never comes
SetCurrent_Behind(t, next) == UNCHANGED current

SetCurrent(t, next) == current' = [current EXCEPT ![Env(t)] = next]

Pick(t, next) ==
  /\ phase[t] = "pick"
  /\ next \in Ready(Env(t))
  /\ \A i \in Ready(Env(t)) : Dist(current[Env(t)], next) <= Dist(current[Env(t)], i)
  /\ co_switch_to(t, next)
  /\ SetCurrent(t, next)
  /\ phase' = [phase EXCEPT ![t] = "run"]
  /\ UNCHANGED <<tid, g_thread_env_arr, task, joining>>

(***************************************************************************)
(* The specification: a program that makes any calls.                       *)
(***************************************************************************)
Thread(t) ==
  \/ co_get_thread_env(t) \/ co_sleep(t) \/ JoinWait(t) \/ JoinReap(t) \/ finish(t)
  \/ \E i \in Slots : co_create(t, i) \/ co_join(t, i) \/ WakeUp(t, i) \/ Pick(t, i)
  \/ thread_returns(t)

TNext ==
  \/ \E t \in Threads : Thread(t)
  \/ \E t \in Threads, id \in Tids : pthread_create(t, id)

TSpec == TInit /\ [][TNext]_tvars

(***************************************************************************)
(* Properties.                                                              *)
(***************************************************************************)

\* The stack of slot i, in the environment that live thread t uses.
StackOf(t, i) == IF i = 0 THEN Own(t) ELSE Block(Env(t), i)

\* A thread executes the coroutine that its environment calls current, on the
\* stack of that coroutine - also in an environment it has inherited, with
\* coroutines left over, from a thread that ended.
RunsCurrent ==
  \A t \in Threads :
    Live(t) /\ g_thread_env_arr[Env(t)] => stack[t] = StackOf(t, current[Env(t)])

\* What pick() may choose next can be gone on with: where its esp points is its
\* own stack, and for slot 0 the stack of this thread, not of an earlier one.
ReadyHasStack ==
  \A t \in Threads :
    Live(t) /\ g_thread_env_arr[Env(t)] =>
      \A i \in Ready(Env(t)) \ {current[Env(t)]} : esp[Env(t)][i] = StackOf(t, i)

\* No two threads ever execute on one stack; it follows from RunsCurrent as long as
\* their environments differ, and is proved only.
StacksDiffer ==
  \A t, u \in Threads : Live(t) /\ Live(u) /\ t # u => stack[t] # stack[u]

(***************************************************************************)
(* Each environment is a package of cooperative threads, whatever happens   *)
(* in the others.                                                           *)
(***************************************************************************)
AbsState(k) ==
  [i \in Slots |-> CASE task[k][i] = "RUNNING" -> "ready"
                     [] task[k][i] = "SLEEP" -> "asleep"
                     [] task[k][i] = "EXIT" -> "done"
                     [] OTHER -> IF i = 0 THEN "ready" ELSE "none"]

Picking(k) == \E t \in Threads : Live(t) /\ Env(t) = k /\ phase[t] = "pick"

AbsCpu(k) == IF Picking(k) THEN {} ELSE {current[k]}

EnvCoop(k) == INSTANCE Coop
              WITH Ids <- Slots, Main <- 0, state <- AbsState(k), cpu <- AbsCpu(k)

EnvsImplementCoop ==
  /\ \A k \in Indices : EnvCoop(k)!CInit
  /\ [][\A k \in Indices : EnvCoop(k)!CNext \/ UNCHANGED <<AbsState(k), AbsCpu(k)>>]_tvars
=============================================================================
