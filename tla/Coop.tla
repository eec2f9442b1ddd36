-------------------------------- MODULE Coop --------------------------------
(***************************************************************************)
(* What the coroutine library promises, without its tables, clock and loops:*)
(* threads of control of which one at most has the CPU; it loses the CPU    *)
(* only by its own call; a thread without the CPU gets it only while it is  *)
(* ready; a finished thread never runs again and its id is reused only      *)
(* after somebody has reaped it.                                            *)
(***************************************************************************)
EXTENDS Integers

CONSTANTS
  Ids,   \* the ids a thread can have
  Main   \* the thread that exists from the start and never finishes

VARIABLES
  state,  \* id -> "none", "ready", "asleep" or "done"
  cpu     \* the thread that executes, as a set of at most one id

cvars == <<state, cpu>>

CInit ==
  /\ state = [i \in Ids |-> IF i = Main THEN "ready" ELSE "none"]
  /\ cpu = {Main}

\* the running thread i starts thread j
Spawn(i, j) ==
  /\ cpu = {i} /\ state[j] = "none"
  /\ state' = [state EXCEPT ![j] = "ready"]
  /\ UNCHANGED cpu

\* the running thread gives the CPU back and is ready, asleep or done
Release(i, s) ==
  /\ cpu = {i} /\ (s = "done" => i # Main)
  /\ state' = [state EXCEPT ![i] = s]
  /\ cpu' = {}

Wake(i) ==
  /\ state[i] = "asleep"
  /\ state' = [state EXCEPT ![i] = "ready"]
  /\ UNCHANGED cpu

Dispatch(i) ==
  /\ cpu = {} /\ state[i] = "ready"
  /\ cpu' = {i}
  /\ UNCHANGED state

\* the running thread i collects the finished thread j
Reap(i, j) ==
  /\ cpu = {i} /\ state[j] = "done"
  /\ state' = [state EXCEPT ![j] = "none"]
  /\ UNCHANGED cpu

CNext ==
  \/ \E i, j \in Ids : Spawn(i, j) \/ Reap(i, j)
  \/ \E i \in Ids, s \in {"ready", "asleep", "done"} : Release(i, s)
  \/ \E i \in Ids : Wake(i) \/ Dispatch(i)

CSpec == CInit /\ [][CNext]_cvars

\* the CPU is handed out again and again, and to every ready thread
CFairSpec == CSpec /\ \A i \in Ids : SF_cvars(Dispatch(i))
=============================================================================
