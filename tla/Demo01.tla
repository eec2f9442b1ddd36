------------------------------- MODULE Demo01 -------------------------------
(***************************************************************************)
(* src/examples/demo01.c on the threads and coroutines of module Threads:   *)
(* main() with three coroutines, and a second thread, th_fn(), with two.    *)
(* Beside it a run also has the program that makes any calls.               *)
(***************************************************************************)
EXTENDS Threads, Sequences

CONSTANTS
  second,    \* the thread that runs th_fn
  MaxTurns,  \* bound: turns of a loop (2 to 10 in the code)
  AnySlots   \* bound: slots in use when the program makes any calls

ASSUME Demo01Assumption ==
  /\ second \in Threads \ {first}
  /\ MaxTurns \in Nat /\ AnySlots \in Nat

VARIABLES
  program,  \* "demo01", or "any" for the program of TSpec
  frame     \* stack -> the function on it, its next statement, the cids it has

dvars == <<tvars, program, frame>>

(***************************************************************************)
(* The functions, as sequences of statements; the texts are left out, and   *)
(* so are the arguments of co_sleep, as Threads has no clock.               *)
(***************************************************************************)
Loop(turns) == [k \in 1 .. IF turns < MaxTurns THEN turns ELSE MaxTurns |-> <<"co_sleep", 0>>]

fun1 == Loop(2)
fun2 == Loop(10)
fun3 == Loop(2)
fun4 == Loop(8)
fun5 == Loop(4)

\* slip: th_fn joins its first coroutine twice
th_fn_Twice ==
  <<<<"co_create", "fun4">>, <<"co_create", "fun5">>>> \o Loop(2)
  \o <<<<"co_join", 1>>, <<"co_join", 1>>>>

th_fn ==
  <<<<"co_create", "fun4">>, <<"co_create", "fun5">>>> \o Loop(2)
  \o <<<<"co_join", 1>>, <<"co_join", 2>>>>

main ==
  <<<<"co_create", "fun1">>, <<"co_create", "fun2">>, <<"co_create", "fun3">>,
    <<"pthread_create", "th_fn">>>> \o Loop(2)
  \o <<<<"co_join", 1>>, <<"co_join", 2>>, <<"co_join", 3>>, <<"pthread_join", 0>>>>

\* "none" is on a stack that no function has begun to use
Body == [main |-> main, th_fn |-> th_fn, fun1 |-> fun1, fun2 |-> fun2,
         fun3 |-> fun3, fun4 |-> fun4, fun5 |-> fun5, none |-> <<>>]

Begin(fn) == [fn |-> fn, pc |-> 1, cids |-> <<>>]

DInit ==
  /\ TInit
  /\ program \in {"demo01", "any"}
  /\ frame = [s \in Stacks |->
                Begin(IF program = "demo01" /\ s = Own(first) THEN "main" ELSE "none")]

Length(s) == Len(Body[frame[s].fn])

AtEnd(s) == frame[s].pc = Length(s) + 1

Statement(s) == Body[frame[s].fn][frame[s].pc]

\* thread t is at a statement of the kind op
At(t, op) ==
  /\ program = "demo01" /\ InProgram(t)
  /\ frame[stack[t]].pc <= Length(stack[t]) /\ Statement(stack[t])[1] = op

Arg(t) == Statement(stack[t])[2]

Advanced(t) == [frame EXCEPT ![stack[t]].pc = @ + 1]

(***************************************************************************)
(* The statements.                                                          *)
(***************************************************************************)
create(t) ==
  /\ At(t, "co_create")
  /\ \E id \in Slots :
       /\ co_create(t, id)
       /\ frame' = [Advanced(t) EXCEPT ![stack[t]].cids = Append(@, id),
                                       ![Block(Env(t), id)] = Begin(Arg(t))]

sleep(t) == At(t, "co_sleep") /\ co_sleep(t) /\ frame' = Advanced(t)

join(t) ==
  At(t, "co_join") /\ co_join(t, frame[stack[t]].cids[Arg(t)]) /\ frame' = Advanced(t)

start_thread(t) ==
  /\ At(t, "pthread_create")
  /\ \E id \in Tids : pthread_create(second, id)
  /\ frame' = [Advanced(t) EXCEPT ![Own(second)] = Begin(Arg(t))]

\* the kernel stops this thread, with all its coroutines, until the other ends
join_thread(t) ==
  At(t, "pthread_join") /\ ~Live(second) /\ frame' = Advanced(t) /\ UNCHANGED tvars

\* a function returns: to start(), or it was the function of the thread
return(t) ==
  /\ program = "demo01" /\ Live(t) /\ AtEnd(stack[t])
  /\ finish(t) \/ thread_returns(t)
  /\ frame' = Advanced(t)

\* what goes on inside the calls
Inside(t) ==
  /\ program = "demo01"
  /\ co_get_thread_env(t) \/ JoinWait(t) \/ JoinReap(t) \/ \E i \in Slots : Pick(t, i)
  /\ UNCHANGED frame

Wakes(t) == program = "demo01" /\ (\E i \in Slots : WakeUp(t, i)) /\ UNCHANGED frame

Runs(t) ==
  \/ create(t) \/ sleep(t) \/ join(t) \/ start_thread(t) \/ join_thread(t) \/ return(t)
  \/ Inside(t)

AnyCall ==
  /\ program = "any" /\ TNext /\ UNCHANGED frame
  /\ \A k \in Indices, i \in Slots : i >= AnySlots => task'[k][i] = Free

DNext == (AnyCall \/ \E t \in Threads : Runs(t) \/ Wakes(t)) /\ UNCHANGED program

\* The kernel runs every thread.  Time passes, so of the sleepers that pick()
\* looks at again and again one is found to have slept enough; SleeperWakes of
\* module Sched is the same with a clock.
DSpec ==
  /\ DInit /\ [][DNext]_dvars
  /\ \A t \in {first, second} :
       WF_dvars(Runs(t) /\ UNCHANGED program) /\ SF_dvars(Wakes(t) /\ UNCHANGED program)

(***************************************************************************)
(* Properties.                                                              *)
(***************************************************************************)

Returned(s) == frame[s].fn # "none" => frame[s].pc > Length(s) + 1

\* pthread_join() and the end of a thread stop all coroutines of the thread: by
\* then each of them has returned from its function and been joined.
NothingLeftBehind ==
  \A t \in {first, second} :
    /\ program = "demo01" /\ InProgram(t) /\ stack[t] = Own(t)
    /\ AtEnd(Own(t)) \/ At(t, "pthread_join")
    =>
      \A i \in Slots \ {0} : task[Env(t)][i] = Free /\ Returned(Block(Env(t), i))

\* The guard of co_join never holds demo01 up: when main or th_fn comes to a join,
\* whatever has been created, ended and reaped in either thread by then, it has
\* the cid, the control block is still there and no other co_join waits for it.
JoinsMayBegin ==
  \A t \in Threads :
    At(t, "co_join") =>
      LET cids == frame[stack[t]].cids
      IN  /\ Arg(t) \in 1 .. Len(cids)
          /\ task[Env(t)][cids[Arg(t)]] # Free
          /\ \A s \in Stacks : joining[s] # [env |-> Env(t), cid |-> cids[Arg(t)]]

\* The program comes to its end, whatever the order in which the threads run
\* and the sleepers wake: no join, in either thread, waits for ever.
Over == program = "demo01" ~> AtEnd(Own(first))
=============================================================================
