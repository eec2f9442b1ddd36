----------------------------- MODULE CoIOProofs -----------------------------
(***************************************************************************)
(* Proofs about CoIO, for any number of slots and descriptors: what the     *)
(* library guarantees to programs in which every descriptor has one         *)
(* coroutine and every coroutine at most one descriptor, whatever else of   *)
(* Habits they, their peers and the system have; and what it guarantees to  *)
(* those that keep more of its contract, each theorem with the Habits it    *)
(* excludes.                                                                *)
(***************************************************************************)
EXTENDS CoIO, SchedProofs


\* What each of the guarantees needs.  Descriptor 0 is left out because its
\* mark in events[fd].fd cannot be told from that of a new descriptor.
OwnDescriptors == "share" \notin Habits /\ "many" \notin Habits /\ 0 \notin Fds

-----------------------------------------------------------------------------
(***************************************************************************)
(* The inductive invariant.                                                 *)
(***************************************************************************)
Alive(i) == status[i] \notin {Free, "EXIT"}

\* Code runs on a control block that has not ended, and never inside a call that
\* is still blocked.
RunsAlive ==
  phase = "run" =>
    Alive(current) /\ (call[current].fd # NoFd => status[current] = "RUNNING")

\* What has ended is in no call and lists no descriptor.
EndedIdle == \A i \in Slots : ~Alive(i) => call[i] = NoCall /\ fds[i] = <<>>

\* One descriptor per coroutine, one coroutine per descriptor, and the mark in
\* events says which.
OneEach ==
  /\ \A i \in Slots : fds[i] = <<>> \/ \E fd \in Fds : fds[i] = <<fd>>
  /\ \A i, j \in Slots : Uses(i) \cap Uses(j) # {} => i = j
  /\ \A i \in Slots : Alive(i) =>
       \A fd \in Fds : events[i][fd].fd = IF fd \in Uses(i) THEN fd ELSE 0

\* A call that waits does so on the descriptor of its coroutine, which is
\* blocked or woken; and its coroutine joins nobody.
CallsOwn ==
  \A i \in Slots :
    /\ call[i].fd # NoFd =>
         /\ call[i].fd \in Uses(i) /\ status[i] \in {"WAIT", "RUNNING"}
         /\ call[i].op = "accept" <=> call[i].fd \in ListenFds
    /\ joining[i] # NoCid => call[i] = NoCall

\* The events that epoll_wait returned are handled before anybody else runs.
BatchHandled ==
  batch # {} => phase = "stopped" \/ (phase = "run" /\ call[current] = HandlingEvents)

\* A queue is empty, or holds the one coroutine that is blocked on its
\* descriptor; and no link survives its queue.
EmptyQueue(fd) ==
  /\ block_queue.ptr[Queue!FirstCell(fd)] = Queue!NIL
  /\ block_queue.last[fd] = Queue!FirstCell(fd)

Holds(fd, i) ==
  /\ block_queue.ptr[Queue!FirstCell(fd)] = i
  /\ block_queue.last[fd] = Queue!NextCell(i)
  /\ block_queue.prev[i] = Queue!FirstCell(fd)
  /\ status[i] = "WAIT" /\ call[i].fd = fd

ShortQueues == \A fd \in Fds : EmptyQueue(fd) \/ \E i \in Slots : Holds(fd, i)

\* A control block has no successor and, if any, the queue of its own descriptor
\* for a predecessor: also when it has left the queue.
OwnLinks ==
  /\ block_queue \in Queue!Queues
  /\ \A i \in Slots :
       /\ block_queue.ptr[Queue!NextCell(i)] = Queue!NIL
       /\ block_queue.prev[i] \in {Queue!NullAddr} \cup {Queue!FirstCell(fd) : fd \in Fds}
       /\ Alive(i) =>
            block_queue.prev[i] \in {Queue!NullAddr} \cup {Queue!FirstCell(fd) : fd \in Uses(i)}

IoInv ==
  /\ IoTypeOK
  /\ RunsAlive /\ EndedIdle /\ OneEach /\ CallsOwn /\ BatchHandled
  /\ ShortQueues /\ OwnLinks

USE DEF Slots, NoCid, Free, Statuses

-----------------------------------------------------------------------------
(***************************************************************************)
(* The pieces of the state.                                                 *)
(***************************************************************************)

\* The descriptors that a list of at most one of them names.
LEMMA UsesOf ==
  ASSUME NEW i \in Slots
  PROVE  /\ fds[i] = <<>> => Uses(i) = {}
         /\ \A fd : fds[i] = <<fd>> => Uses(i) = {fd}
BY DEF Uses

\* Descriptors are numbers; the marks of a call that has none are not.
LEMMA FdIsNat ==
  /\ \A fd \in Fds : fd \in Nat /\ fd # NoFd
  /\ NoCall.fd = NoFd /\ AtEpollWait.fd = NoFd /\ HandlingEvents.fd = NoFd /\ Returning.fd = NoFd
BY CoIOAssumption DEF NoFd, NoCall, AtEpollWait, HandlingEvents, Returning

\* The links of different queues and control blocks are different memory.
LEMMA Links ==
  /\ \A fd \in Fds : Queue!FirstCell(fd) \in Queue!Cells
  /\ \A i \in Slots : Queue!NextCell(i) \in Queue!Cells
  /\ \A fd \in Fds, i \in Slots : Queue!FirstCell(fd) # Queue!NextCell(i)
  /\ \A fd, g \in Fds : Queue!FirstCell(fd) = Queue!FirstCell(g) => fd = g
  /\ \A i, j \in Slots : Queue!NextCell(i) = Queue!NextCell(j) => i = j
  /\ \A fd \in Fds : Queue!FirstCell(fd) # Queue!NullAddr /\ Queue!FirstCell(fd) # Queue!FreedAddr
  /\ \A i \in Slots : Queue!NextCell(i) # Queue!NullAddr /\ Queue!NextCell(i) # Queue!FreedAddr
BY DEF Queue!Cells, Queue!FirstCell, Queue!NextCell, Queue!NullAddr, Queue!FreedAddr

\* NULL and a dangling pointer are no control blocks.
LEMMA NoSlot == Queue!NIL \notin Slots /\ Queue!FREED \notin Slots /\ Queue!NIL # Queue!FREED
BY DEF Queue!NIL, Queue!FREED

\* The initial state: one task, no queue in use.
LEMMA InitIoInv == IoInit => IoInv
<1> SUFFICES ASSUME IoInit PROVE IoInv
  OBVIOUS
<1> USE SchedAssumption, CoIOAssumption
<1>0. \A i \in Slots : Uses(i) = {} /\ fds[i] = <<>> /\ call[i] = NoCall /\ joining[i] = NoCid
  BY UsesOf DEF IoInit, Init
<1>1. TypeOK /\ block_queue \in Queue!Queues
  BY InitTypeOK, Links DEF IoInit, Queue!TAILQ_INIT, Queue!Queues
<1>2. IoTypeOK
  <2>1. Zeroed \in [Fds -> [fd : Fds \cup {0}, events : SUBSET Events]]
    BY DEF Zeroed
  <2>2. ready \in [Fds -> SUBSET Kinds]
    BY DEF IoInit, Fresh, Kinds, Events
  <2> QED
    BY <1>1, <2>1, <2>2 DEF IoInit, IoTypeOK, Calls
<1>3. RunsAlive /\ EndedIdle /\ BatchHandled
  BY <1>0 DEF IoInit, Init, RunsAlive, EndedIdle, BatchHandled, Alive
<1>4. OneEach /\ CallsOwn
  BY <1>0, FdIsNat DEF OneEach, CallsOwn, IoInit, Zeroed
<1>5. ShortQueues /\ OwnLinks
  BY <1>0, <1>1, Links DEF ShortQueues, OwnLinks, EmptyQueue, IoInit, Queue!TAILQ_INIT
<1> QED
  BY <1>2, <1>3, <1>4, <1>5 DEF IoInv

-----------------------------------------------------------------------------
(***************************************************************************)
(* The steps.                                                               *)
(***************************************************************************)

\* When the process has stopped only the clock goes on.
LEMMA StoppedStays ==
  ASSUME phase = "stopped", [IoNext]_allvars
  PROVE  UNCHANGED <<status, current, joining, phase, iovars>>
BY Zenon DEF IoNext, allvars, vars, Scheduler, Waits, Tick, JoinWait, WakeScan, Pick, Repeat,
   create, co_create, InProgram, InUserCode, join, co_join, sleep, co_sleep, reap, JoinReap,
   finish, finish_crash, MayReturn, StartWait, WaitFails, WaitAgain, Resumed, return_read,
   return_write, StartLoop, EpollWait, EpollTimeout, EpollInterrupted, EventsHandled,
   HandleEvent, HandleCrash, close, Arrive, Drain, HangUp

\* Queues that nobody touches stay as they are, while no holder changes.
LEMMA QueuesKept ==
  ASSUME ShortQueues, OwnLinks, block_queue' = block_queue,
         \A fd \in Fds, i \in Slots : Holds(fd, i) => Holds(fd, i)',
         \A i \in Slots : Alive(i)' => Alive(i) /\ Uses(i) \subseteq Uses(i)'
  PROVE  ShortQueues' /\ OwnLinks'
<1>1. \A fd \in Fds : EmptyQueue(fd) => EmptyQueue(fd)'
  BY DEF EmptyQueue
<1>2. ShortQueues'
  BY <1>1 DEF ShortQueues
<1>3. OwnLinks'
  BY DEF OwnLinks
<1> QED
  BY <1>2, <1>3

\* Steps that leave descriptors, calls and queues alone: those of the scheduler,
\* and the calls of a coroutine that give the CPU away.
LEMMA QuietStep ==
  ASSUME IoInv, phase # "stopped", TypeOK', UNCHANGED iovars, RunsAlive',
         \A i \in Slots : status'[i] # status[i] =>
           call[i].fd = NoFd /\ Alive(i) /\ Alive(i)',
         \A i \in Slots : joining'[i] # joining[i] => call[i] = NoCall,
         batch = {} \/ (phase' = phase /\ current' = current)
  PROVE  IoInv'
<1>0. /\ UNCHANGED <<block_queue, events, revents, fds, call, batch, interest, ready>>
      /\ \A i \in Slots : Uses(i)' = Uses(i)
  BY DEF iovars, Uses
<1>1. IoTypeOK'
  BY <1>0 DEF IoInv, IoTypeOK
<1>2. EndedIdle'
  BY <1>0 DEF IoInv, EndedIdle, Alive
<1>3. OneEach'
  BY <1>0 DEF IoInv, OneEach, Alive
<1>4. CallsOwn'
  BY <1>0 DEF IoInv, CallsOwn
<1>5. BatchHandled'
  BY <1>0 DEF IoInv, BatchHandled
<1>6. ShortQueues' /\ OwnLinks'
  <2>1. \A fd \in Fds, i \in Slots : Holds(fd, i) => Holds(fd, i)'
    BY <1>0, FdIsNat DEF Holds
  <2>2. \A i \in Slots : Alive(i)' => Alive(i) /\ Uses(i) \subseteq Uses(i)'
    BY <1>0 DEF Alive
  <2> QED
    BY <1>0, <2>1, <2>2, QueuesKept DEF IoInv
<1> QED
  BY <1>1, <1>2, <1>3, <1>4, <1>5, <1>6 DEF IoInv

\* The scheduler's own steps are quiet ones.
LEMMA SchedulerStep ==
  ASSUME IoInv, phase # "stopped", Scheduler
  PROVE  IoInv'
<1>a. TypeOK
  BY DEF IoInv, IoTypeOK
<1>b. TypeOK' /\ UNCHANGED iovars
  BY <1>a, NextTypeOK DEF Scheduler, Next
<1>c. call' = call
  BY <1>b DEF iovars
<1>1. CASE JoinWait
  <2>1. phase = "run" /\ joining[current] # NoCid /\ phase' = "wake"
        /\ UNCHANGED <<status, joining>>
    BY <1>1 DEF JoinWait, schedule
  <2>2. batch = {}
    BY <1>a, <2>1 DEF IoInv, CallsOwn, BatchHandled, TypeOK, NoCall, HandlingEvents
  <2> QED
    BY <1>b, <2>1, <2>2, QuietStep DEF RunsAlive
<1>2. CASE WakeScan
  <2>1. /\ phase = "wake" /\ phase' = "wake" /\ scan \in Slots /\ UNCHANGED joining
        /\ \A i \in Slots : status'[i] # status[i] => status[i] = "SLEEP" /\ status'[i] = "RUNNING"
    BY <1>a, <1>2, SchedAssumption DEF WakeScan, TypeOK
  <2>2. batch = {}
    BY <2>1 DEF IoInv, BatchHandled
  <2>3. \A i \in Slots : status'[i] # status[i] => call[i].fd = NoFd
    BY <2>1 DEF IoInv, CallsOwn
  <2> QED
    BY <1>b, <2>1, <2>2, <2>3, QuietStep DEF RunsAlive, Alive
<1>3. ASSUME NEW next \in Slots, Pick(next) PROVE IoInv'
  <2>1. /\ phase = "wake" /\ current' = next /\ status[next] = "RUNNING"
        /\ UNCHANGED <<status, joining>>
    BY <1>3 DEF Pick, Nearest, Ready
  <2>2. batch = {}
    BY <2>1 DEF IoInv, BatchHandled
  <2> QED
    BY <1>b, <2>1, <2>2, QuietStep DEF RunsAlive, Alive
<1>4. CASE Repeat
  BY <1>b, <1>c, <1>4, QuietStep DEF Repeat, IoInv, RunsAlive, Alive
<1>5. CASE Tick
  BY <1>b, <1>c, <1>5, QuietStep DEF Tick, IoInv, RunsAlive, Alive
<1> QED
  BY <1>1, <1>2, <1>3, <1>4, <1>5 DEF Scheduler

\* So are co_sleep, co_join, and the schedule() of an idle event loop.
LEMMA SleepStep ==
  ASSUME IoInv, phase # "stopped", NEW s \in Seconds, sleep(s)
  PROVE  IoInv'
<1>1. TypeOK /\ TypeOK'
  BY NextTypeOK DEF IoInv, IoTypeOK, sleep, Next
<1>2. /\ phase = "run" /\ call[current] = NoCall /\ phase' = "wake" /\ UNCHANGED <<joining, iovars>>
      /\ status' = [status EXCEPT ![current] = "SLEEP"] /\ current \in Slots
  BY <1>1 DEF sleep, co_sleep, InProgram, InUserCode, schedule, TypeOK
<1>3. batch = {} /\ Alive(current)
  BY <1>2 DEF IoInv, BatchHandled, RunsAlive, NoCall, HandlingEvents
<1>4. \A i \in Slots : status'[i] # status[i] => call[i].fd = NoFd /\ Alive(i) /\ Alive(i)'
  BY <1>1, <1>2, <1>3, FdIsNat DEF Alive, TypeOK
<1> QED
  BY <1>1, <1>2, <1>3, <1>4, QuietStep DEF RunsAlive

LEMMA JoinStep ==
  ASSUME IoInv, phase # "stopped", NEW cid \in Slots, join(cid)
  PROVE  IoInv'
<1>1. TypeOK /\ TypeOK'
  BY NextTypeOK DEF IoInv, IoTypeOK, join, Next
<1>2. /\ call[current] = NoCall /\ UNCHANGED <<status, phase, current, iovars>>
      /\ joining' = [joining EXCEPT ![current] = cid]
  BY DEF join, co_join, InProgram
<1>3. \A i \in Slots : joining'[i] # joining[i] => call[i] = NoCall
  BY <1>1, <1>2 DEF TypeOK
<1>4. RunsAlive'
  BY <1>2 DEF IoInv, RunsAlive, Alive, iovars
<1> QED
  BY <1>1, <1>2, <1>3, <1>4, QuietStep

LEMMA EpollTimeoutStep ==
  ASSUME IoInv, phase # "stopped", EpollTimeout
  PROVE  IoInv'
<1>1. TypeOK /\ TypeOK'
  BY SchedAssumption DEF IoInv, IoTypeOK, EpollTimeout, TypeOK, schedule
<1>2. phase' = "wake" /\ call[current].op = "epoll_wait" /\ UNCHANGED <<status, joining, iovars>>
  BY DEF EpollTimeout, Resumed, schedule
<1>3. batch = {}
  BY <1>2 DEF IoInv, BatchHandled, HandlingEvents
<1> QED
  BY <1>1, <1>2, <1>3, QuietStep DEF RunsAlive

\* co_create: a control block without calls, descriptors or links.
LEMMA CreateStep ==
  ASSUME IoInv, phase # "stopped", NEW id \in Slots, create(id)
  PROVE  IoInv'
<1>0. TypeOK /\ TypeOK'
  BY NextTypeOK DEF IoInv, IoTypeOK, create, Next
<1>1. /\ phase = "run" /\ phase' = "run" /\ current' = current /\ current \in Slots
      /\ status[id] = Free /\ status' = [status EXCEPT ![id] = "RUNNING"]
      /\ call[id] = NoCall /\ fds[id] = <<>> /\ id # current
      /\ UNCHANGED <<joining, call, batch, interest, ready>>
  BY <1>0 DEF create, co_create, FirstFree, InProgram, InUserCode, IoInv, EndedIdle, Alive,
              RunsAlive, TypeOK
<1>2. /\ fds' = fds
      /\ events' = [events EXCEPT ![id] = Zeroed]
      /\ revents' = [revents EXCEPT ![id] = [fd \in Fds |-> {}]]
      /\ block_queue' = Queue!ZeroElem(block_queue, id)
      /\ \A i \in Slots : Uses(i)' = Uses(i)
  BY <1>1 DEF create, IoInv, IoTypeOK, Uses
<1>3. Uses(id) = {}
  BY <1>1, UsesOf
<1>4. Zeroed \in [Fds -> [fd : Fds \cup {0}, events : SUBSET Events]]
  BY DEF Zeroed
<1>5. block_queue' \in Queue!Queues
  BY Links DEF create, IoInv, OwnLinks, Queue!ZeroElem, Queue!Queues
<1>6. IoTypeOK'
  BY <1>0, <1>1, <1>2, <1>4, <1>5 DEF IoInv, IoTypeOK
<1>7. RunsAlive' /\ EndedIdle'
  BY <1>0, <1>1, <1>2 DEF IoInv, RunsAlive, EndedIdle, Alive, TypeOK
<1>8. OneEach'
  <2>1. \A i \in Slots : Alive(i)' =>
          \A fd \in Fds : events'[i][fd].fd = IF fd \in Uses(i) THEN fd ELSE 0
    BY <1>0, <1>1, <1>2, <1>3 DEF IoInv, IoTypeOK, OneEach, Alive, Zeroed, TypeOK
  <2> QED
    BY <1>2, <2>1 DEF IoInv, OneEach
<1>9. CallsOwn' /\ BatchHandled'
  <2>1. \A i \in Slots : status'[i] = status[i] \/ call[i] = NoCall
    BY <1>0, <1>1 DEF TypeOK
  <2> QED
    BY <1>1, <1>2, <2>1, FdIsNat DEF IoInv, CallsOwn, BatchHandled
<1>10. ShortQueues' /\ OwnLinks'
  <2>1. /\ block_queue'.ptr = [block_queue.ptr EXCEPT ![Queue!NextCell(id)] = Queue!NIL]
        /\ block_queue'.last = block_queue.last
        /\ block_queue'.prev = [block_queue.prev EXCEPT ![id] = Queue!NullAddr]
        /\ block_queue.ptr \in [Queue!Cells -> Slots \cup {Queue!NIL, Queue!FREED}]
        /\ DOMAIN block_queue.prev = Slots
    BY <1>2 DEF IoInv, OwnLinks, Queue!ZeroElem, Queue!Queues
  <2>2. \A fd \in Fds : EmptyQueue(fd) => EmptyQueue(fd)'
    BY <2>1, Links DEF EmptyQueue
  <2>3. \A fd \in Fds, i \in Slots : Holds(fd, i) => Holds(fd, i)'
    BY <1>0, <1>1, <2>1, Links DEF Holds, TypeOK
  <2>4. \A i \in Slots : block_queue'.ptr[Queue!NextCell(i)] = Queue!NIL
    BY <2>1, Links DEF IoInv, OwnLinks
  <2>5. \A i \in Slots : Alive(i)' => Alive(i) \/ i = id
    BY <1>0, <1>1 DEF Alive, TypeOK
  <2> QED
    BY <1>2, <1>5, <2>1, <2>2, <2>3, <2>4, <2>5 DEF IoInv, ShortQueues, OwnLinks
<1> QED
  BY <1>6, <1>7, <1>8, <1>9, <1>10 DEF IoInv

\* Nothing happens, except that time passes or the process stops.
LEMMA FrozenStep ==
  ASSUME IoInv, UNCHANGED <<status, current, joining, iovars>>,
         phase' = "stopped" \/ (phase' = phase /\ TypeOK')
  PROVE  IoInv'
<1>1. /\ UNCHANGED <<block_queue, events, revents, fds, call, batch, interest, ready>>
      /\ \A i \in Slots : Uses(i)' = Uses(i) /\ (Alive(i)' <=> Alive(i))
  BY DEF iovars, Uses, Alive
<1>2. IoTypeOK'
  BY <1>1 DEF IoInv, IoTypeOK
<1>3. RunsAlive' /\ EndedIdle' /\ BatchHandled'
  BY <1>1 DEF IoInv, RunsAlive, EndedIdle, BatchHandled, Alive
<1>4. OneEach' /\ CallsOwn'
  BY <1>1 DEF IoInv, OneEach, CallsOwn
<1>5. ShortQueues' /\ OwnLinks'
  BY <1>1, QueuesKept DEF IoInv, Holds
<1> QED
  BY <1>2, <1>3, <1>4, <1>5 DEF IoInv

LEMMA StopStep ==
  ASSUME IoInv, Stop
  PROVE  IoInv'
BY FrozenStep DEF Stop

\* free() of a control block that has ended leaves no dangling link, because it
\* is in no queue.
LEMMA ReapStep ==
  ASSUME IoInv, phase # "stopped", reap
  PROVE  IoInv'
<1>0. TypeOK /\ TypeOK'
  BY NextTypeOK DEF IoInv, IoTypeOK, reap, Next
<1>a. PICK cid \in Slots : cid = joining[current]
  BY <1>0 DEF reap, JoinReap, TypeOK
<1>1. /\ phase = "run" /\ phase' = "run" /\ current' = current /\ current \in Slots
      /\ status[cid] = "EXIT" /\ status' = [status EXCEPT ![cid] = Free]
      /\ joining' = [joining EXCEPT ![current] = NoCid]
      /\ UNCHANGED <<events, revents, fds, call, batch, interest, ready>>
      /\ \A i \in Slots : Uses(i)' = Uses(i)
  BY <1>0, <1>a DEF reap, JoinReap, Exited, Release, TypeOK, Uses
<1>2. cid # current /\ call[cid] = NoCall /\ fds[cid] = <<>>
  BY <1>1 DEF IoInv, RunsAlive, EndedIdle, Alive
<1>3. block_queue' = block_queue
  <2>1. block_queue' = Queue!FreeElem(block_queue, cid)
    BY <1>a DEF reap
  <2>2. \A c \in Queue!Cells : block_queue.ptr[c] # cid
    <3>1. \A fd \in Fds : block_queue.ptr[Queue!FirstCell(fd)] # cid
      <4> SUFFICES ASSUME NEW fd \in Fds PROVE block_queue.ptr[Queue!FirstCell(fd)] # cid
        OBVIOUS
      <4>1. CASE EmptyQueue(fd)
        BY <4>1, NoSlot DEF EmptyQueue
      <4>2. ASSUME NEW i \in Slots, Holds(fd, i)
            PROVE  block_queue.ptr[Queue!FirstCell(fd)] # cid
        BY <1>1, <4>2 DEF Holds
      <4> QED
        BY <4>1, <4>2 DEF IoInv, ShortQueues
    <3>2. \A i \in Slots : block_queue.ptr[Queue!NextCell(i)] # cid
      BY NoSlot DEF IoInv, OwnLinks
    <3> QED
      BY <3>1, <3>2 DEF Queue!Cells
  <2>3. \A fd \in Fds : block_queue.last[fd] # Queue!NextCell(cid)
    <3> SUFFICES ASSUME NEW fd \in Fds PROVE block_queue.last[fd] # Queue!NextCell(cid)
      OBVIOUS
    <3>1. CASE EmptyQueue(fd)
      BY <3>1, Links DEF EmptyQueue
    <3>2. ASSUME NEW i \in Slots, Holds(fd, i)
          PROVE  block_queue.last[fd] # Queue!NextCell(cid)
      BY <1>1, <3>2, Links DEF Holds
    <3> QED
      BY <3>1, <3>2 DEF IoInv, ShortQueues
  <2>4. \A i \in Slots : block_queue.prev[i] # Queue!NextCell(cid)
    BY Links DEF IoInv, OwnLinks
  <2>5. block_queue \in Queue!Queues
    BY DEF IoInv, OwnLinks
  <2>6. /\ [c \in Queue!Cells |-> IF block_queue.ptr[c] = cid THEN Queue!FREED ELSE block_queue.ptr[c]]
             = block_queue.ptr
        /\ [fd \in Fds |-> IF block_queue.last[fd] = Queue!NextCell(cid) THEN Queue!FreedAddr
                           ELSE block_queue.last[fd]] = block_queue.last
        /\ [i \in Slots |-> IF block_queue.prev[i] = Queue!NextCell(cid) THEN Queue!FreedAddr
                            ELSE block_queue.prev[i]] = block_queue.prev
    BY <2>2, <2>3, <2>4, <2>5 DEF Queue!Queues
  <2> QED
    BY <2>1, <2>5, <2>6 DEF Queue!FreeElem, Queue!Queues
<1>4. IoTypeOK'
  BY <1>0, <1>1, <1>3 DEF IoInv, IoTypeOK
<1>5. RunsAlive' /\ EndedIdle' /\ OneEach' /\ BatchHandled'
  <2>1. RunsAlive'
    BY <1>0, <1>1, <1>2 DEF IoInv, RunsAlive, Alive, TypeOK
  <2>2. EndedIdle' /\ OneEach' /\ BatchHandled'
    BY <1>0, <1>1, <1>2 DEF IoInv, EndedIdle, OneEach, BatchHandled, Alive, TypeOK
  <2> QED
    BY <2>1, <2>2
<1>6. CallsOwn'
  <2>1. \A i \in Slots : status'[i] = status[i] \/ call[i] = NoCall
    BY <1>0, <1>1, <1>2 DEF TypeOK
  <2>2. \A i \in Slots : joining'[i] # NoCid => joining[i] # NoCid
    BY <1>0, <1>1 DEF TypeOK
  <2> QED
    BY <1>1, <2>1, <2>2, FdIsNat DEF IoInv, CallsOwn
<1>7. ShortQueues' /\ OwnLinks'
  <2>1. \A fd \in Fds, i \in Slots : Holds(fd, i) => Holds(fd, i)'
    BY <1>0, <1>1, <1>3 DEF Holds, TypeOK
  <2>2. \A i \in Slots : Alive(i)' => Alive(i) /\ Uses(i) \subseteq Uses(i)'
    BY <1>1, <1>3 DEF Alive
  <2> QED
    BY <1>1, <1>3, <2>1, <2>2, QueuesKept DEF IoInv
<1> QED
  BY <1>4, <1>5, <1>6, <1>7 DEF IoInv

-----------------------------------------------------------------------------
(***************************************************************************)
(* The clean-up in start(), a fold over a list of no or one descriptor.     *)
(***************************************************************************)
LEMMA FoldNone == ASSUME NEW q PROVE FoldRight(Unlink, <<>>, q) = q
<1> DEFINE P(iter) ==
      iter = [s \in SUBSET {} |-> IF s = {} THEN q ELSE Unlink(<<>>[Min(s)], iter[s \ {Min(s)}])]
<1>1. \E iter : P(iter)
  <2>1. P([s \in SUBSET {} |-> q])
    OBVIOUS
  <2> QED
    BY <2>1
<1>2. P(CHOOSE iter : P(iter))
  <2> HIDE DEF P
  <2> QED
    BY <1>1
<1>3. (CHOOSE iter : P(iter))[{}] = q
  <2> DEFINE it == CHOOSE iter : P(iter)
  <2>1. P(it)
    BY <1>2
  <2> HIDE DEF it
  <2>2. it[{}] = q
    BY <2>1
  <2> QED
    BY <2>2 DEF it
<1>4. DOMAIN <<>> = {}
  OBVIOUS
<1>5. FoldRight(Unlink, <<>>, q) = (CHOOSE iter : P(iter))[{}]
  BY <1>4, Zenon DEF FoldRight, MapThenFoldSet
<1> QED
  BY <1>3, <1>5

LEMMA FoldOne == ASSUME NEW q, NEW fd PROVE FoldRight(Unlink, <<fd>>, q) = Unlink(fd, q)
<1> DEFINE P(iter) ==
      iter = [s \in SUBSET {1} |-> IF s = {} THEN q ELSE Unlink(<<fd>>[Min(s)], iter[s \ {Min(s)}])]
<1>0. Min({1}) = 1
  BY DEF Min
<1>1. \E iter : P(iter)
  <2> DEFINE f == [s \in SUBSET {1} |-> IF s = {} THEN q ELSE Unlink(fd, q)]
             G(s) == IF s = {} THEN q ELSE Unlink(<<fd>>[Min(s)], f[s \ {Min(s)}])
  <2>1. f[{}] = q /\ f[{1}] = Unlink(fd, q) /\ f \in [SUBSET {1} -> {q, Unlink(fd, q)}]
    OBVIOUS
  <2>2. <<fd>>[1] = fd /\ {1} \ {1} = {} /\ \A s \in SUBSET {1} : s = {} \/ s = {1}
    OBVIOUS
  <2> HIDE DEF f
  <2>3. G({}) = f[{}]
    BY <2>1
  <2>4. G({1}) = f[{1}]
    BY <1>0, <2>1, <2>2
  <2>5. f = [s \in SUBSET {1} |-> G(s)]
    <3> HIDE DEF G
    <3>1. \A s \in SUBSET {1} : f[s] = G(s)
      BY <2>2, <2>3, <2>4
    <3> QED
      BY <2>1, <3>1
  <2> QED
    BY <2>5
<1>2. P(CHOOSE iter : P(iter))
  <2> HIDE DEF P
  <2> QED
    BY <1>1
<1>3. (CHOOSE iter : P(iter))[{1}] = Unlink(fd, q)
  <2> DEFINE it == CHOOSE iter : P(iter)
  <2>1. P(it)
    BY <1>2
  <2> HIDE DEF it
  <2>2. it[{}] = q
    BY <2>1
  <2>3. it[{1}] = Unlink(<<fd>>[1], it[{1} \ {1}])
    BY <1>0, <2>1
  <2>4. <<fd>>[1] = fd /\ {1} \ {1} = {}
    OBVIOUS
  <2> QED
    BY <2>2, <2>3, <2>4 DEF it
<1>4. DOMAIN <<fd>> = {1}
  OBVIOUS
<1>5. FoldRight(Unlink, <<fd>>, q) = (CHOOSE iter : P(iter))[{1}]
  BY <1>4, Zenon DEF FoldRight, MapThenFoldSet
<1> QED
  BY <1>3, <1>5

\* Unlinking what an empty queue last held is without effect: it is its own
\* first pointer that is overwritten, by NULL again.
LEMMA UnlinkIdle ==
  ASSUME NEW fd \in Fds, NEW i \in Slots, block_queue \in Queue!Queues, EmptyQueue(fd),
         block_queue.prev[i] = Queue!FirstCell(fd), block_queue.ptr[Queue!NextCell(i)] = Queue!NIL
  PROVE  Queue!TAILQ_REMOVE(block_queue, fd, i) = block_queue
<1> DEFINE u == [block_queue EXCEPT !.last[fd] = block_queue.prev[i]]
<1>1. [block_queue.last EXCEPT ![fd] = Queue!FirstCell(fd)] = block_queue.last
  BY DEF EmptyQueue, Queue!Queues
<1>2. [block_queue.ptr EXCEPT ![Queue!FirstCell(fd)] = Queue!NIL] = block_queue.ptr
  BY DEF EmptyQueue, Queue!Queues
<1>3. u = block_queue
  BY <1>1 DEF Queue!Queues
<1>4. [u EXCEPT !.ptr[u.prev[i]] = Queue!NIL] = block_queue
  BY <1>2, <1>3 DEF Queue!Queues
<1> QED
  BY <1>4 DEF Queue!TAILQ_REMOVE

\* start() after co_fn: what its coroutine listed is in no queue any more.
LEMMA FinishLeavesQueues ==
  ASSUME IoInv, phase # "stopped", finish
  PROVE  block_queue' = block_queue
<1>1. /\ current \in Slots /\ Alive(current) /\ call[current].fd = NoFd
      /\ block_queue' = FoldRight(Unlink, fds[current], block_queue)
  BY FdIsNat DEF finish, Finish, MayReturn, InProgram, InUserCode, IoInv, IoTypeOK, TypeOK, RunsAlive
<1>2. CASE fds[current] = <<>>
  BY <1>1, <1>2, FoldNone, Zenon
<1>3. ASSUME NEW fd \in Fds, fds[current] = <<fd>> PROVE block_queue' = block_queue
  <2>1. Uses(current) = {fd}
    BY <1>1, <1>3, UsesOf
  <2>2. block_queue.prev[current] = Queue!FirstCell(fd)
        /\ block_queue.ptr[Queue!NextCell(current)] = Queue!NIL
    <3>1. Queue!RemoveDefined(block_queue, current)
      BY <1>3 DEF finish
    <3> QED
      BY <1>1, <2>1, <3>1, Links DEF IoInv, OwnLinks, Queue!RemoveDefined, Queue!Cells,
         Queue!FirstCell, Queue!NextCell, Queue!NullAddr
  <2>3. EmptyQueue(fd)
    <3> SUFFICES ASSUME NEW i \in Slots, Holds(fd, i) PROVE FALSE
      BY DEF IoInv, ShortQueues
    <3>1. fd \in Uses(i)
      BY FdIsNat DEF Holds, IoInv, CallsOwn
    <3>2. i = current
      BY <1>1, <2>1, <3>1 DEF IoInv, OneEach
    <3> QED
      BY <1>1, <3>2, FdIsNat DEF Holds
  <2>4. Unlink(fd, block_queue) = block_queue
    BY <1>1, <2>2, <2>3, UnlinkIdle DEF IoInv, OwnLinks, Unlink
  <2> QED
    BY <1>1, <1>3, <2>4, FoldOne, Zenon
<1> QED
  BY <1>1, <1>2, <1>3 DEF IoInv, OneEach

\* It lists no descriptor any more, either.
LEMMA FinishStep ==
  ASSUME IoInv, phase # "stopped", finish
  PROVE  IoInv'
<1>0. TypeOK /\ TypeOK'
  BY NextTypeOK DEF IoInv, IoTypeOK, finish, Next
<1>1. /\ phase = "run" /\ phase' = "wake" /\ current' = current /\ current \in Slots
      /\ status' = [status EXCEPT ![current] = "EXIT"] /\ joining[current] = NoCid
      /\ fds' = [fds EXCEPT ![current] = <<>>]
      /\ call[current] \in {NoCall, Returning}
      /\ call' = [call EXCEPT ![current] = NoCall]
      /\ UNCHANGED <<joining, events, revents, batch, ready>>
      /\ interest' \in [Fds -> SUBSET Events]
  BY <1>0 DEF finish, Finish, MayReturn, InProgram, InUserCode, Ended, schedule, TypeOK,
              Deregistered, IoInv, IoTypeOK
<1>2. batch = {} /\ call[current].fd = NoFd
  BY <1>1, FdIsNat DEF IoInv, BatchHandled, NoCall, Returning, HandlingEvents
<1>3. block_queue' = block_queue
  BY FinishLeavesQueues
<1>4. /\ Uses(current)' = {}
      /\ \A i \in Slots : i # current => Uses(i)' = Uses(i)
  BY <1>0, <1>1 DEF IoInv, IoTypeOK, Uses
<1>5. IoTypeOK'
  <2>1. fds' \in [Slots -> Seq(Fds)] /\ call' \in [Slots -> Calls]
    BY <1>1 DEF IoInv, IoTypeOK, Calls
  <2> QED
    BY <1>0, <1>1, <1>3, <2>1 DEF IoInv, IoTypeOK
<1>6. RunsAlive' /\ EndedIdle' /\ BatchHandled'
  BY <1>0, <1>1, <1>2 DEF IoInv, IoTypeOK, RunsAlive, EndedIdle, BatchHandled, Alive, TypeOK
<1>7. OneEach'
  <2>1. \A i \in Slots : fds'[i] = <<>> \/ \E fd \in Fds : fds'[i] = <<fd>>
    BY <1>1 DEF IoInv, IoTypeOK, OneEach
  <2>2. \A i, j \in Slots : Uses(i)' \cap Uses(j)' # {} => i = j
    <3>1. \A i \in Slots : Uses(i)' \subseteq Uses(i)
      BY <1>1, <1>4
    <3> QED
      BY <3>1 DEF IoInv, OneEach
  <2>3. \A i \in Slots : Alive(i)' => Alive(i) /\ i # current
    BY <1>0, <1>1 DEF Alive, TypeOK
  <2>4. \A i \in Slots : Alive(i)' =>
          \A fd \in Fds : events'[i][fd].fd = IF fd \in Uses(i)' THEN fd ELSE 0
    BY <1>1, <1>4, <2>3 DEF IoInv, OneEach
  <2> QED
    BY <2>1, <2>2, <2>4 DEF OneEach
<1>8. CallsOwn'
  BY <1>0, <1>1, <1>4, FdIsNat DEF IoInv, IoTypeOK, CallsOwn, TypeOK
<1>9. ShortQueues' /\ OwnLinks'
  <2>0. \A i \in Slots : Alive(i)' => Alive(i) /\ i # current
    BY <1>0, <1>1 DEF Alive, TypeOK
  <2>1. \A fd \in Fds, i \in Slots : Holds(fd, i) => Holds(fd, i)'
    BY <1>0, <1>1, <1>2, <1>3, FdIsNat DEF IoInv, IoTypeOK, Holds, TypeOK
  <2>2. \A i \in Slots : Alive(i)' => Alive(i) /\ Uses(i) \subseteq Uses(i)'
    BY <1>4, <2>0
  <2> QED
    BY <1>3, <2>1, <2>2, QueuesKept DEF IoInv
<1> QED
  BY <1>5, <1>6, <1>7, <1>8, <1>9 DEF IoInv

-----------------------------------------------------------------------------
\* Steps that leave the scheduler and the queues alone, and at most end the
\* wait of the call that current is in.
LEMMA CallStep ==
  ASSUME IoInv, phase # "stopped", UNCHANGED <<vars, block_queue, fds>>, IoTypeOK',
         \A i \in Slots, fd \in Fds : events'[i][fd].fd = events[i][fd].fd,
         \A i \in Slots : call'[i] # call[i] =>
           phase = "run" /\ i = current /\ joining[i] = NoCid
           /\ call'[i].fd = NoFd /\ call'[i].op # "accept",
         BatchHandled'
  PROVE  IoInv'
<1>0. /\ UNCHANGED <<status, current, joining, phase, block_queue, fds>>
      /\ \A i \in Slots : Uses(i)' = Uses(i)
  BY DEF vars, Uses
<1>1. RunsAlive'
  BY <1>0 DEF IoInv, IoTypeOK, TypeOK, RunsAlive, Alive
<1>2. EndedIdle'
  BY <1>0 DEF IoInv, EndedIdle, RunsAlive, Alive
<1>3. OneEach'
  BY <1>0 DEF IoInv, OneEach, Alive
<1>4. CallsOwn'
  BY <1>0 DEF IoInv, CallsOwn
<1>5. ShortQueues' /\ OwnLinks'
  <2>1. \A fd \in Fds, i \in Slots : Holds(fd, i) => Holds(fd, i)'
    BY <1>0, FdIsNat DEF Holds, IoInv, RunsAlive
  <2>2. \A i \in Slots : Alive(i)' => Alive(i) /\ Uses(i) \subseteq Uses(i)'
    BY <1>0 DEF Alive
  <2> QED
    BY <1>0, <2>1, <2>2, QueuesKept DEF IoInv
<1> QED
  BY <1>1, <1>2, <1>3, <1>4, <1>5 DEF IoInv

\* Another mask in one entry of the registrations, and what it leaves alone.
LEMMA MaskChange ==
  ASSUME NEW regs \in [Slots -> [Fds -> [fd : Fds \cup {0}, events : SUBSET Events]]],
         NEW i \in Slots, NEW fd \in Fds, NEW mask \in SUBSET Events,
         NEW new, new = [regs EXCEPT ![i][fd].events = mask]
  PROVE  /\ new \in [Slots -> [Fds -> [fd : Fds \cup {0}, events : SUBSET Events]]]
         /\ \A j \in Slots, g \in Fds : new[j][g].fd = regs[j][g].fd
         /\ new[i][fd].events = mask
         /\ \A j \in Slots, g \in Fds : j # i \/ g # fd => new[j][g] = regs[j][g]
<1> DEFINE entry == [regs[i][fd] EXCEPT !.events = mask]
<1>1. entry \in [fd : Fds \cup {0}, events : SUBSET Events]
      /\ entry.fd = regs[i][fd].fd /\ entry.events = mask
  OBVIOUS
<1>2. new = [regs EXCEPT ![i] = [regs[i] EXCEPT ![fd] = entry]]
  OBVIOUS
<1> HIDE DEF entry
<1> QED
  BY <1>1, <1>2

\* The ends of co_read, co_accept and co_write.
LEMMA ReturnStep ==
  ASSUME IoInv, phase # "stopped", return_read \/ return_write
  PROVE  IoInv'
<1>0. /\ phase = "run" /\ call[current].op \in {"read", "accept", "write"}
      /\ call' = [call EXCEPT ![current] = NoCall]
      /\ UNCHANGED <<vars, block_queue, fds, batch>>
      /\ current \in Slots
  BY DEF return_read, return_write, Resumed, IoInv, IoTypeOK, TypeOK
<1>1. joining[current] = NoCid /\ batch = {} /\ call[current].fd \in Fds
  BY <1>0 DEF IoInv, CallsOwn, BatchHandled, IoTypeOK, Calls, NoCall, InLoop, AtEpollWait,
              HandlingEvents, Returning
<1>2. CASE return_read
  <2>1. UNCHANGED <<events, revents, interest>> /\ ready' \in [Fds -> SUBSET Kinds]
    BY <1>1, <1>2 DEF return_read, IoInv, IoTypeOK, Kinds, Events
  <2>2. IoTypeOK'
    BY <1>0, <2>1 DEF IoInv, IoTypeOK, Calls, vars, TypeOK
  <2> QED
    BY <1>0, <1>1, <2>1, <2>2, CallStep DEF BatchHandled, IoInv, IoTypeOK, NoCall
<1>3. CASE return_write
  <2> DEFINE fd == call[current].fd
  <2>1. MaskAfter(fd) \in SUBSET Events
    BY <1>0, <1>1 DEF MaskAfter, IoInv, IoTypeOK
  <2>2. events' = [events EXCEPT ![current][fd].events = MaskAfter(fd)]
    BY <1>3 DEF return_write
  <2>3. /\ revents' \in [Slots -> [Fds -> SUBSET Events]]
        /\ interest' \in [Fds -> SUBSET Events] /\ ready' \in [Fds -> SUBSET Kinds]
    <3>1. revents' = [revents EXCEPT ![current] = [revents[current] EXCEPT ![fd] = @ \ {"OUT"}]]
      BY <1>0, <1>3 DEF return_write, IoInv, IoTypeOK
    <3>2. [revents[current] EXCEPT ![fd] = @ \ {"OUT"}] \in [Fds -> SUBSET Events]
      BY <1>0, <1>1 DEF IoInv, IoTypeOK
    <3>3. revents' \in [Slots -> [Fds -> SUBSET Events]]
      BY <1>0, <3>1, <3>2 DEF IoInv, IoTypeOK
    <3>4. interest' \in [Fds -> SUBSET Events] /\ ready' \in [Fds -> SUBSET Kinds]
      BY <1>1, <1>3, <2>1 DEF return_write, IoInv, IoTypeOK
    <3> QED
      BY <3>3, <3>4
  <2>4. /\ events' \in [Slots -> [Fds -> [fd : Fds \cup {0}, events : SUBSET Events]]]
        /\ \A i \in Slots, g \in Fds : events'[i][g].fd = events[i][g].fd
    <3>1. events \in [Slots -> [Fds -> [fd : Fds \cup {0}, events : SUBSET Events]]]
      BY DEF IoInv, IoTypeOK
    <3> HIDE DEF fd
    <3> QED
      BY <1>0, <1>1, <2>1, <2>2, <3>1, MaskChange DEF fd
  <2>5. IoTypeOK'
    BY <1>0, <2>3, <2>4 DEF IoInv, IoTypeOK, Calls, vars, TypeOK
  <2> QED
    BY <1>0, <1>1, <2>4, <2>5, CallStep DEF BatchHandled, IoInv, IoTypeOK, NoCall
<1> QED
  BY <1>2, <1>3

\* The program closes a descriptor, or calls co_eventloop.
LEMMA CloseStep ==
  ASSUME IoInv, phase # "stopped", NEW fd \in Fds, close(fd)
  PROVE  IoInv'
<1>1. /\ phase = "run" /\ joining[current] = NoCid /\ call[current] = NoCall
      /\ UNCHANGED <<vars, block_queue, events, revents, fds, batch>>
      /\ call' = call \/ call' = [call EXCEPT ![current] = Returning]
      /\ interest' \in [Fds -> SUBSET Events] /\ ready' \in [Fds -> SUBSET Kinds]
  BY DEF close, InProgram, InUserCode, IoInv, IoTypeOK, Fresh, Kinds, Events
<1>2. batch = {}
  BY <1>1 DEF IoInv, BatchHandled, NoCall, HandlingEvents
<1>3. IoTypeOK'
  BY <1>1 DEF IoInv, IoTypeOK, TypeOK, vars, Calls
<1> QED
  BY <1>1, <1>2, <1>3, CallStep DEF BatchHandled, IoInv, IoTypeOK, Returning

LEMMA LoopStep ==
  ASSUME IoInv, phase # "stopped", StartLoop
  PROVE  IoInv'
<1>1. /\ phase = "run" /\ joining[current] = NoCid /\ call[current] = NoCall
      /\ UNCHANGED <<vars, block_queue, events, revents, fds, batch, interest, ready>>
      /\ call' = [call EXCEPT ![current] = AtEpollWait]
  BY DEF StartLoop, InProgram, InUserCode
<1>2. batch = {}
  BY <1>1 DEF IoInv, BatchHandled, NoCall, HandlingEvents
<1>3. IoTypeOK'
  BY <1>1 DEF IoInv, IoTypeOK, TypeOK, vars, Calls, InLoop
<1> QED
  BY <1>1, <1>2, <1>3, CallStep DEF BatchHandled, IoInv, IoTypeOK, AtEpollWait

\* What the peers do shows in ready only.
LEMMA PeerStep ==
  ASSUME IoInv, phase # "stopped", NEW fd \in Fds, Arrive(fd) \/ Drain(fd) \/ HangUp(fd)
  PROVE  IoInv'
<1>1. UNCHANGED <<vars, block_queue, events, revents, fds, call, batch, interest>>
      /\ ready' \in [Fds -> SUBSET Kinds]
  BY DEF Arrive, Drain, HangUp, IoInv, IoTypeOK, Kinds, Events
<1>2. IoTypeOK' /\ BatchHandled'
  BY <1>1 DEF IoInv, IoTypeOK, TypeOK, vars, BatchHandled
<1> QED
  BY <1>1, <1>2, CallStep

\* epoll_wait returns what is ready.
LEMMA EpollWaitStep ==
  ASSUME IoInv, phase # "stopped", EpollWait
  PROVE  IoInv'
<1>1. /\ phase = "run" /\ call[current].op = "epoll_wait" /\ current \in Slots
      /\ UNCHANGED <<vars, block_queue, events, revents, fds, interest, ready>>
      /\ call' = [call EXCEPT ![current] = HandlingEvents]
      /\ batch' = {[fd |-> fd, events |-> Reported(fd)] : fd \in Reportable}
  BY DEF EpollWait, Resumed, IoInv, IoTypeOK, TypeOK
<1>2. joining[current] = NoCid
  BY <1>1 DEF IoInv, CallsOwn, NoCall
<1>3. batch' \subseteq [fd : Fds, events : SUBSET Events]
  <2>1. \A fd \in Fds : Reported(fd) \in SUBSET Events
    BY DEF IoInv, IoTypeOK, Reported, Kinds, Events
  <2> QED
    BY <1>1, <2>1 DEF Reportable
<1>4. IoTypeOK' /\ BatchHandled'
  BY <1>1, <1>3 DEF IoInv, IoTypeOK, TypeOK, vars, BatchHandled, Calls, InLoop
<1> QED
  BY <1>1, <1>2, <1>4, CallStep DEF IoInv, IoTypeOK, HandlingEvents

\* The loop goes back to epoll_wait by way of the scheduler.
LEMMA EventsHandledStep ==
  ASSUME IoInv, phase # "stopped", EventsHandled
  PROVE  IoInv'
<1>1. /\ phase = "run" /\ phase' = "wake" /\ scan' = 0 /\ current \in Slots
      /\ call[current].op = "handle" /\ batch = {}
      /\ UNCHANGED <<status, wakeuptime, task_count, current, joining, now,
                     block_queue, events, revents, fds, batch, interest, ready>>
      /\ call' = [call EXCEPT ![current] = AtEpollWait]
      /\ \A i \in Slots : Uses(i)' = Uses(i)
  BY DEF EventsHandled, Resumed, schedule, IoInv, IoTypeOK, TypeOK, Uses
<1>2. call[current].fd = NoFd /\ joining[current] = NoCid /\ Alive(current)
  BY <1>1 DEF IoInv, IoTypeOK, CallsOwn, RunsAlive, Calls, InLoop, NoCall, Returning, AtEpollWait,
              HandlingEvents
<1>3. IoTypeOK'
  <2>1. TypeOK'
    BY <1>1, SchedAssumption DEF IoInv, IoTypeOK, TypeOK
  <2>2. call' \in [Slots -> Calls]
    BY <1>1 DEF IoInv, IoTypeOK, Calls, InLoop
  <2> QED
    BY <1>1, <2>1, <2>2 DEF IoInv, IoTypeOK
<1>4. RunsAlive' /\ EndedIdle' /\ OneEach' /\ BatchHandled'
  BY <1>1, <1>2 DEF IoInv, IoTypeOK, RunsAlive, EndedIdle, OneEach, BatchHandled, Alive
<1>5. CallsOwn'
  BY <1>1, <1>2, FdIsNat DEF IoInv, IoTypeOK, CallsOwn, AtEpollWait
<1>6. ShortQueues' /\ OwnLinks'
  <2>1. \A fd \in Fds, i \in Slots : Holds(fd, i) => Holds(fd, i)'
    BY <1>1, <1>2, FdIsNat DEF Holds, IoInv, IoTypeOK
  <2>2. \A i \in Slots : Alive(i)' => Alive(i) /\ Uses(i) \subseteq Uses(i)'
    BY <1>1 DEF Alive
  <2> QED
    BY <1>1, <2>1, <2>2, QueuesKept DEF IoInv
<1> QED
  BY <1>3, <1>4, <1>5, <1>6 DEF IoInv

\* A call goes back to sleep: an event it does not wait for has woken it.
LEMMA WaitAgainStep ==
  ASSUME IoInv, phase # "stopped", WaitAgain
  PROVE  IoInv'
<1>1. /\ phase = "run" /\ phase' = "wake" /\ scan' = 0 /\ current \in Slots
      /\ call[current].op \in {"read", "accept", "write"}
      /\ UNCHANGED <<wakeuptime, task_count, current, joining, now,
                     block_queue, events, revents, fds, call, batch, interest, ready>>
      /\ status' = [status EXCEPT ![current] = "WAIT"]
      /\ \A i \in Slots : Uses(i)' = Uses(i)
  BY DEF WaitAgain, Resumed, schedule, IoInv, IoTypeOK, TypeOK, Uses, iovars
<1>2. call[current].fd \in Fds /\ call[current].fd # NoFd /\ batch = {}
      /\ status[current] = "RUNNING" /\ status \in [Slots -> Statuses \cup {Free}]
  <2>1. call[current].fd \in Fds /\ call[current].fd # NoFd
    BY <1>1, FdIsNat DEF IoInv, IoTypeOK, Calls, InLoop, NoCall, Returning, AtEpollWait, HandlingEvents
  <2>2. batch = {}
    BY <1>1 DEF IoInv, BatchHandled, HandlingEvents
  <2>3. status[current] = "RUNNING" /\ status \in [Slots -> Statuses \cup {Free}]
    BY <1>1, <2>1 DEF IoInv, RunsAlive, IoTypeOK, TypeOK
  <2> QED
    BY <2>1, <2>2, <2>3
<1>3. IoTypeOK'
  <2>1. TypeOK'
    BY <1>1, <1>2, SchedAssumption DEF IoInv, IoTypeOK, TypeOK
  <2> QED
    BY <1>1, <2>1 DEF IoInv, IoTypeOK
<1>4. RunsAlive' /\ EndedIdle' /\ OneEach' /\ BatchHandled'
  BY <1>1, <1>2 DEF IoInv, RunsAlive, EndedIdle, OneEach, BatchHandled, Alive
<1>5. CallsOwn'
  BY <1>1, <1>2 DEF IoInv, CallsOwn
<1>6. ShortQueues' /\ OwnLinks'
  <2>1. \A fd \in Fds, i \in Slots : Holds(fd, i) => Holds(fd, i)'
    BY <1>1, <1>2 DEF Holds
  <2>2. \A i \in Slots : Alive(i)' => Alive(i) /\ Uses(i) \subseteq Uses(i)'
    BY <1>1, <1>2 DEF Alive
  <2> QED
    BY <1>1, <2>1, <2>2, QueuesKept DEF IoInv
<1> QED
  BY <1>3, <1>4, <1>5, <1>6 DEF IoInv

-----------------------------------------------------------------------------
\* A descriptor's first entry, when it has one, is the coroutine it holds.
LEMMA FirstHeld ==
  ASSUME ShortQueues, NEW fd \in Fds, NEW tsk, tsk = Queue!TAILQ_FIRST(block_queue, fd),
         Queue!RemoveDefined(block_queue, tsk)
  PROVE  tsk \in Slots /\ Holds(fd, tsk)
BY NoSlot DEF ShortQueues, EmptyQueue, Holds, Queue!TAILQ_FIRST, Queue!RemoveDefined

\* Unlinking the only entry empties the queue and touches nothing else.
LEMMA UnlinkOnly ==
  ASSUME OwnLinks, NEW fd \in Fds, NEW i \in Slots, Holds(fd, i),
         NEW q, q = Queue!TAILQ_REMOVE(block_queue, fd, i)
  PROVE  /\ q.ptr = [block_queue.ptr EXCEPT ![Queue!FirstCell(fd)] = Queue!NIL]
         /\ q.last = [block_queue.last EXCEPT ![fd] = Queue!FirstCell(fd)]
         /\ q.prev = block_queue.prev
         /\ q \in Queue!Queues
<1> DEFINE u == [block_queue EXCEPT !.last[fd] = block_queue.prev[i]]
<1>1. block_queue.ptr[Queue!NextCell(i)] = Queue!NIL
      /\ block_queue.prev[i] = Queue!FirstCell(fd) /\ block_queue \in Queue!Queues
  BY DEF OwnLinks, Holds
<1>2. u \in Queue!Queues /\ u.ptr = block_queue.ptr /\ u.prev = block_queue.prev
      /\ u.last = [block_queue.last EXCEPT ![fd] = Queue!FirstCell(fd)]
  BY <1>1, Links DEF Queue!Queues
<1>3. q = [u EXCEPT !.ptr[u.prev[i]] = Queue!NIL]
  BY <1>1 DEF Queue!TAILQ_REMOVE
<1> HIDE DEF u
<1> QED
  BY <1>1, <1>2, <1>3, Links DEF Queue!Queues

\* An event: the coroutine that waits for it leaves the queue.
LEMMA HandleEventStep ==
  ASSUME IoInv, phase # "stopped", NEW ev \in batch, HandleEvent(ev)
  PROVE  IoInv'
<1>a. batch \subseteq [fd : Fds, events : SUBSET Events] /\ ev \in [fd : Fds, events : SUBSET Events]
  BY DEF IoInv, IoTypeOK
<1>b. PICK fd \in Fds : fd = ev.fd
  BY <1>a
<1>c. PICK tsk : tsk = Queue!TAILQ_FIRST(block_queue, fd)
  OBVIOUS
<1>1. /\ phase = "run" /\ call[current].op = "handle" /\ current \in Slots
      /\ Queue!RemoveDefined(block_queue, tsk)
      /\ block_queue' = Queue!TAILQ_REMOVE(block_queue, fd, tsk)
      /\ batch' = batch \ {ev}
      /\ UNCHANGED <<wakeuptime, task_count, current, joining, phase, scan, now,
                     events, fds, call, interest, ready>>
      /\ \/ UNCHANGED <<status, revents>>
         \/ /\ status' = [status EXCEPT ![tsk] = "RUNNING"]
            /\ revents' = [revents EXCEPT ![tsk][fd] = ev.events]
      /\ \A i \in Slots : Uses(i)' = Uses(i)
  BY <1>b, <1>c DEF HandleEvent, Resumed, Dequeued, IoInv, IoTypeOK, TypeOK, Uses
<1>2. tsk \in Slots /\ Holds(fd, tsk)
  BY <1>1, <1>c, FirstHeld DEF IoInv
<1>3. /\ block_queue'.ptr = [block_queue.ptr EXCEPT ![Queue!FirstCell(fd)] = Queue!NIL]
      /\ block_queue'.last = [block_queue.last EXCEPT ![fd] = Queue!FirstCell(fd)]
      /\ block_queue'.prev = block_queue.prev
      /\ block_queue' \in Queue!Queues
  BY <1>1, <1>2, UnlinkOnly DEF IoInv
<1>4. /\ status[tsk] = "WAIT" /\ status'[tsk] \in {"WAIT", "RUNNING"}
      /\ \A i \in Slots : i # tsk => status'[i] = status[i]
      /\ status \in [Slots -> Statuses \cup {Free}] /\ status' \in [Slots -> Statuses \cup {Free}]
  BY <1>1, <1>2 DEF IoInv, IoTypeOK, TypeOK, Holds
<1>5. IoTypeOK'
  <2>1. revents' \in [Slots -> [Fds -> SUBSET Events]]
    <3>1. ev.events \in SUBSET Events /\ revents \in [Slots -> [Fds -> SUBSET Events]]
      BY <1>a DEF IoInv, IoTypeOK
    <3>2. [revents[tsk] EXCEPT ![fd] = ev.events] \in [Fds -> SUBSET Events]
      BY <1>2, <3>1
    <3> QED
      BY <1>1, <1>2, <3>1, <3>2
  <2> QED
    BY <1>1, <1>3, <1>4, <2>1 DEF IoInv, IoTypeOK, TypeOK
<1>6. RunsAlive' /\ EndedIdle' /\ OneEach' /\ BatchHandled' /\ CallsOwn'
  <2>1. RunsAlive'
    BY <1>1, <1>4 DEF IoInv, RunsAlive, Alive
  <2>2. EndedIdle' /\ BatchHandled' /\ CallsOwn'
    BY <1>1, <1>4 DEF IoInv, EndedIdle, BatchHandled, CallsOwn, Alive
  <2>3. OneEach'
    BY <1>1, <1>4 DEF IoInv, OneEach, Alive
  <2> QED
    BY <2>1, <2>2, <2>3
<1>7. ShortQueues' /\ OwnLinks'
  <2>0. block_queue \in Queue!Queues
    BY DEF IoInv, OwnLinks
  <2>1. EmptyQueue(fd)'
    BY <1>3, <2>0, Links DEF EmptyQueue, Queue!Queues
  <2>2. \A g \in Fds : g # fd /\ EmptyQueue(g) => EmptyQueue(g)'
    BY <1>3, <2>0, Links DEF EmptyQueue, Queue!Queues
  <2>3. \A g \in Fds, i \in Slots : g # fd /\ Holds(g, i) => Holds(g, i)'
    BY <1>1, <1>2, <1>3, <1>4, <2>0, Links DEF Holds, Queue!Queues
  <2>4. \A i \in Slots : block_queue'.ptr[Queue!NextCell(i)] = block_queue.ptr[Queue!NextCell(i)]
    BY <1>3, <2>0, Links DEF Queue!Queues
  <2>5. \A i \in Slots : Alive(i)' => Alive(i)
    BY <1>4 DEF Alive
  <2> QED
    BY <1>1, <1>3, <2>1, <2>2, <2>3, <2>4, <2>5 DEF IoInv, ShortQueues, OwnLinks
<1> QED
  BY <1>5, <1>6, <1>7 DEF IoInv

-----------------------------------------------------------------------------
\* add_queue, called by a coroutine for its own descriptor: afterwards it lists
\* this one only, and its mark says so.
LEMMA AddQueue ==
  ASSUME IoInv, OwnDescriptors, phase # "stopped", NEW fd \in Fds, NEW op, NEW ev \in Events,
         InProgram, MayWait(op, fd), add_queue(fd, ev)
  PROVE  /\ fds' = [fds EXCEPT ![current] = <<fd>>]
         /\ Uses(current) \subseteq {fd}
         /\ \A i \in Slots : i # current => fd \notin Uses(i)
         /\ events' \in [Slots -> [Fds -> [fd : Fds \cup {0}, events : SUBSET Events]]]
         /\ revents' \in [Slots -> [Fds -> SUBSET Events]]
         /\ events'[current][fd].fd = fd
         /\ \A i \in Slots, g \in Fds : i # current \/ g # fd => events'[i][g] = events[i][g]
<1>0. /\ current \in Slots /\ phase = "run" /\ Alive(current)
      /\ events \in [Slots -> [Fds -> [fd : Fds \cup {0}, events : SUBSET Events]]]
      /\ revents \in [Slots -> [Fds -> SUBSET Events]]
      /\ fds \in [Slots -> Seq(Fds)]
  BY DEF IoInv, IoTypeOK, TypeOK, RunsAlive, InProgram, InUserCode
<1>1. Uses(current) \subseteq {fd} /\ \A i \in Slots : i # current => fd \notin Uses(i)
  BY DEF MayWait, OwnDescriptors
<1>2. events[current][fd].fd = IF fd \in Uses(current) THEN fd ELSE 0
  BY <1>0 DEF IoInv, OneEach
<1>3. FirstTime(current, fd) <=> fd \notin Uses(current)
  BY <1>2, FdIsNat DEF FirstTime, OwnDescriptors
<1>4. fds' = [fds EXCEPT ![current] = <<fd>>]
  <2>1. CASE fds[current] = <<>>
    <3>1. FirstTime(current, fd)
      BY <1>0, <1>3, <2>1, UsesOf
    <3>2. Append(fds[current], fd) = <<fd>>
      BY <2>1
    <3> QED
      BY <3>1, <3>2 DEF add_queue
  <2>2. ASSUME NEW g \in Fds, fds[current] = <<g>> PROVE fds' = [fds EXCEPT ![current] = <<fd>>]
    <3>1. Uses(current) = {g}
      BY <1>0, <2>2, UsesOf
    <3>2. g = fd /\ ~FirstTime(current, fd)
      BY <1>1, <1>3, <3>1
    <3> QED
      BY <1>0, <2>2, <3>2 DEF add_queue
  <2> QED
    BY <1>0, <2>1, <2>2 DEF IoInv, OneEach
<1>5. Noted(current, fd, ev) \in [fd : Fds \cup {0}, events : SUBSET Events]
      /\ Noted(current, fd, ev).fd = fd
  <2>1. events[current][fd] \in [fd : Fds \cup {0}, events : SUBSET Events]
    BY <1>0
  <2>2. CASE FirstTime(current, fd)
    BY <2>2 DEF Noted, Mark, Events
  <2>3. CASE ~FirstTime(current, fd) /\ NeedsMod(current, fd, ev)
    <3>1. events[current][fd].fd = fd
      BY <1>2, <1>3, <2>3
    <3>2. Noted(current, fd, ev) = [events[current][fd] EXCEPT !.events = @ \cup {ev}]
      BY <2>3 DEF Noted
    <3> HIDE DEF Events
    <3> QED
      BY <2>1, <3>1, <3>2
  <2>4. CASE ~FirstTime(current, fd) /\ ~NeedsMod(current, fd, ev)
    BY <1>2, <1>3, <2>1, <2>4 DEF Noted
  <2> QED
    BY <2>2, <2>3, <2>4
<1>6. events' = [events EXCEPT ![current] = [events[current] EXCEPT ![fd] = Noted(current, fd, ev)]]
  BY DEF add_queue
<1>7. revents' \in [Slots -> [Fds -> SUBSET Events]]
  <2>1. revents' = [revents EXCEPT ![current] = [revents[current] EXCEPT ![fd] = Cleared(fd, ev)]]
    BY DEF add_queue
  <2>2. Cleared(fd, ev) \in SUBSET Events
    BY <1>0 DEF Cleared
  <2> QED
    BY <1>0, <2>1, <2>2
<1> QED
  BY <1>0, <1>1, <1>4, <1>5, <1>6, <1>7

\* What every call of add_queue keeps.
LEMMA AddQueueKeeps ==
  ASSUME IoInv, OwnDescriptors, phase # "stopped", NEW fd \in Fds, NEW op, NEW ev \in Events,
         InProgram, MayWait(op, fd), add_queue(fd, ev)
  PROVE  /\ OneEach'
         /\ \A i \in Slots : i # current => Uses(i)' = Uses(i)
         /\ {fds'[current][k] : k \in 1 .. Len(fds'[current])} = {fd}
         /\ fds' \in [Slots -> Seq(Fds)] /\ status' \in [Slots -> Statuses \cup {Free}]
         /\ status'[current] = "WAIT" /\ \A i \in Slots : i # current => status'[i] = status[i]
<1>1. /\ fds' = [fds EXCEPT ![current] = <<fd>>]
      /\ Uses(current) \subseteq {fd}
      /\ \A i \in Slots : i # current => fd \notin Uses(i)
      /\ events'[current][fd].fd = fd
      /\ \A i \in Slots, g \in Fds : i # current \/ g # fd => events'[i][g] = events[i][g]
  BY AddQueue
<1>2. /\ current \in Slots /\ Alive(current) /\ fds \in [Slots -> Seq(Fds)]
      /\ status \in [Slots -> Statuses \cup {Free}]
      /\ status' = [status EXCEPT ![current] = "WAIT"]
  BY DEF IoInv, IoTypeOK, TypeOK, RunsAlive, InProgram, InUserCode, add_queue
<1>3. \A i \in Slots : i # current => Uses(i)' = Uses(i)
  BY <1>1, <1>2 DEF Uses
<1>4. fds'[current] = <<fd>> /\ fds' \in [Slots -> Seq(Fds)]
  BY <1>1, <1>2
<1>5. {fds'[current][k] : k \in 1 .. Len(fds'[current])} = {fd}
  BY <1>4
<1>6. \A i \in Slots : i = current => Uses(i)' = {fd}
  BY <1>5 DEF Uses
<1>7. OneEach'
  <2>1. \A i \in Slots : fds'[i] = <<>> \/ \E g \in Fds : fds'[i] = <<g>>
    BY <1>1, <1>2, <1>4 DEF IoInv, OneEach
  <2>2. \A i, j \in Slots : Uses(i)' \cap Uses(j)' # {} => i = j
    BY <1>1, <1>3, <1>6 DEF IoInv, OneEach
  <2>3. \A i \in Slots : Alive(i)' =>
          \A g \in Fds : events'[i][g].fd = IF g \in Uses(i)' THEN g ELSE 0
    BY <1>1, <1>2, <1>3, <1>6 DEF IoInv, OneEach, Alive
  <2> QED
    BY <2>1, <2>2, <2>3 DEF OneEach
<1> QED
  BY <1>2, <1>3, <1>4, <1>5, <1>7

\* epoll_ctl fails: the descriptor is listed, and the coroutine runs on as WAIT.
LEMMA WaitFailsStep ==
  ASSUME IoInv, OwnDescriptors, phase # "stopped", NEW fd \in Fds, NEW op, WaitFails(op, fd)
  PROVE  IoInv'
<1>0. EventOf(op) \in Events
  BY DEF EventOf, Events
<1>1. /\ phase = "run" /\ call[current] = NoCall /\ current \in Slots /\ Alive(current)
      /\ UNCHANGED <<wakeuptime, task_count, current, joining, phase, scan, now,
                     block_queue, call, batch, interest, ready>>
      /\ add_queue(fd, EventOf(op)) /\ InProgram /\ MayWait(op, fd)
  BY DEF WaitFails, InProgram, InUserCode, IoInv, IoTypeOK, TypeOK, RunsAlive
<1>2. /\ OneEach'
      /\ \A i \in Slots : i # current => Uses(i)' = Uses(i)
      /\ fds' \in [Slots -> Seq(Fds)] /\ status' \in [Slots -> Statuses \cup {Free}]
      /\ status'[current] = "WAIT" /\ \A i \in Slots : i # current => status'[i] = status[i]
  BY <1>0, <1>1, AddQueueKeeps
<1>3. /\ fds' = [fds EXCEPT ![current] = <<fd>>]
      /\ Uses(current) \subseteq {fd}
      /\ \A i \in Slots : i # current => fd \notin Uses(i)
      /\ events' \in [Slots -> [Fds -> [fd : Fds \cup {0}, events : SUBSET Events]]]
      /\ revents' \in [Slots -> [Fds -> SUBSET Events]]
  BY <1>0, <1>1, AddQueue
<1>4. IoTypeOK'
  BY <1>1, <1>2, <1>3 DEF IoInv, IoTypeOK, TypeOK
<1>5. RunsAlive' /\ EndedIdle' /\ BatchHandled'
  BY <1>1, <1>2, <1>3, FdIsNat DEF IoInv, IoTypeOK, RunsAlive, EndedIdle, BatchHandled, Alive
<1>6. CallsOwn'
  BY <1>1, <1>2, FdIsNat DEF IoInv, CallsOwn
<1>7. ShortQueues' /\ OwnLinks'
  <2>1. \A g \in Fds, i \in Slots : Holds(g, i) => Holds(g, i)'
    BY <1>1, <1>2, FdIsNat DEF Holds
  <2>2. \A i \in Slots : i = current => Uses(i) \subseteq Uses(i)'
    <3>1. {fds'[current][k] : k \in 1 .. Len(fds'[current])} = {fd}
      BY <1>0, <1>1, AddQueueKeeps
    <3> QED
      BY <1>3, <3>1 DEF Uses
  <2>3. \A i \in Slots : Alive(i)' => Alive(i) /\ Uses(i) \subseteq Uses(i)'
    BY <1>1, <1>2, <2>2 DEF Alive
  <2> QED
    BY <1>1, <2>1, <2>3, QueuesKept DEF IoInv
<1> QED
  BY <1>2, <1>4, <1>5, <1>6, <1>7 DEF IoInv

\* A call that waits joins the queue of its descriptor, which is empty.
LEMMA StartWaitStep ==
  ASSUME IoInv, OwnDescriptors, phase # "stopped", NEW fd \in Fds,
         NEW op \in {"read", "write", "accept"}, op = "accept" <=> fd \in ListenFds,
         StartWait(op, fd)
  PROVE  IoInv'
<1>0. EventOf(op) \in Events
  BY DEF EventOf, Events
<1>1. /\ phase = "run" /\ phase' = "wake" /\ scan' = 0
      /\ call[current] = NoCall /\ current \in Slots /\ Alive(current)
      /\ UNCHANGED <<wakeuptime, task_count, current, joining, now, batch, ready>>
      /\ call' = [call EXCEPT ![current] = [op |-> op, fd |-> fd]]
      /\ block_queue' = Queue!TAILQ_INSERT_TAIL(block_queue, fd, current)
      /\ interest' = [interest EXCEPT ![fd] = Watched(current, fd, EventOf(op))]
      /\ add_queue(fd, EventOf(op)) /\ InProgram /\ MayWait(op, fd) /\ joining[current] = NoCid
  BY DEF StartWait, InProgram, InUserCode, IoInv, IoTypeOK, TypeOK, RunsAlive, schedule
<1>2. /\ OneEach'
      /\ \A i \in Slots : i # current => Uses(i)' = Uses(i)
      /\ {fds'[current][k] : k \in 1 .. Len(fds'[current])} = {fd}
      /\ fds' \in [Slots -> Seq(Fds)] /\ status' \in [Slots -> Statuses \cup {Free}]
      /\ status'[current] = "WAIT" /\ \A i \in Slots : i # current => status'[i] = status[i]
  BY <1>0, <1>1, AddQueueKeeps
<1>3. /\ fds' = [fds EXCEPT ![current] = <<fd>>]
      /\ Uses(current) \subseteq {fd}
      /\ \A i \in Slots : i # current => fd \notin Uses(i)
      /\ events' \in [Slots -> [Fds -> [fd : Fds \cup {0}, events : SUBSET Events]]]
      /\ revents' \in [Slots -> [Fds -> SUBSET Events]]
  BY <1>0, <1>1, AddQueue
<1>4. /\ call'[current] = [op |-> op, fd |-> fd]
      /\ \A i \in Slots : i # current => call'[i] = call[i]
      /\ call' \in [Slots -> Calls]
  <2>1. [op |-> op, fd |-> fd] \in Calls
    BY DEF Calls
  <2> QED
    BY <1>1, <2>1 DEF IoInv, IoTypeOK
<1>5. EmptyQueue(fd)
  <2> SUFFICES ASSUME NEW i \in Slots, Holds(fd, i) PROVE FALSE
    BY DEF IoInv, ShortQueues
  <2>1. fd \in Uses(i)
    BY FdIsNat DEF Holds, IoInv, CallsOwn
  <2>2. i = current
    BY <1>3, <2>1
  <2> QED
    BY <1>1, <2>2, FdIsNat DEF Holds
<1>6. /\ block_queue'.ptr = [block_queue.ptr EXCEPT ![Queue!NextCell(current)] = Queue!NIL,
                                                   ![Queue!FirstCell(fd)] = current]
      /\ block_queue'.last = [block_queue.last EXCEPT ![fd] = Queue!NextCell(current)]
      /\ block_queue'.prev = [block_queue.prev EXCEPT ![current] = Queue!FirstCell(fd)]
      /\ block_queue' \in Queue!Queues /\ block_queue \in Queue!Queues
  <2>1. block_queue.last[fd] = Queue!FirstCell(fd) /\ block_queue \in Queue!Queues
    BY <1>5 DEF EmptyQueue, IoInv, OwnLinks
  <2>2. block_queue' =
          [ptr  |-> [block_queue.ptr EXCEPT ![Queue!NextCell(current)] = Queue!NIL,
                                            ![Queue!FirstCell(fd)] = current],
           last |-> [block_queue.last EXCEPT ![fd] = Queue!NextCell(current)],
           prev |-> [block_queue.prev EXCEPT ![current] = Queue!FirstCell(fd)]]
    BY <1>1, <2>1 DEF Queue!TAILQ_INSERT_TAIL
  <2> QED
    BY <1>1, <2>1, <2>2, Links DEF Queue!Queues
<1>7. IoTypeOK'
  <2>1. interest' \in [Fds -> SUBSET Events]
    BY <1>0, <1>1 DEF Watched, IoInv, IoTypeOK
  <2>2. TypeOK'
    BY <1>1, <1>2, SchedAssumption DEF IoInv, IoTypeOK, TypeOK
  <2> QED
    BY <1>1, <1>2, <1>3, <1>4, <1>6, <2>1, <2>2 DEF IoInv, IoTypeOK
<1>8. RunsAlive' /\ EndedIdle' /\ BatchHandled'
  <2>1. batch = {}
    BY <1>1 DEF IoInv, BatchHandled, NoCall, HandlingEvents
  <2>2. \A i \in Slots : i # current => fds'[i] = fds[i]
    BY <1>3 DEF IoInv, IoTypeOK
  <2>3. EndedIdle'
    BY <1>2, <1>4, <2>2 DEF IoInv, EndedIdle, Alive
  <2> QED
    BY <1>1, <2>1, <2>3 DEF RunsAlive, BatchHandled
<1>9. CallsOwn'
  <2>1. \A i \in Slots : i = current => fd \in Uses(i)'
    BY <1>1, <1>2 DEF Uses
  <2> QED
    BY <1>1, <1>2, <1>4, <2>1 DEF IoInv, CallsOwn
<1>10. ShortQueues'
  <2>1. Holds(fd, current)'
    BY <1>1, <1>2, <1>4, <1>6, Links DEF Holds, Queue!Queues
  <2>2. \A g \in Fds : g # fd /\ EmptyQueue(g) => EmptyQueue(g)'
    BY <1>1, <1>6, Links DEF EmptyQueue, Queue!Queues
  <2>3. \A g \in Fds, i \in Slots : g # fd /\ Holds(g, i) => Holds(g, i)'
    <3> SUFFICES ASSUME NEW g \in Fds, NEW i \in Slots, g # fd, Holds(g, i) PROVE Holds(g, i)'
      OBVIOUS
    <3>1. i # current
      BY <1>1, FdIsNat DEF Holds
    <3> QED
      BY <1>1, <1>2, <1>4, <1>6, <3>1, Links DEF Holds, Queue!Queues
  <2> QED
    BY <1>1, <2>1, <2>2, <2>3 DEF IoInv, ShortQueues
<1>11. OwnLinks'
  <2>1. \A i \in Slots : block_queue'.ptr[Queue!NextCell(i)] = Queue!NIL
    BY <1>1, <1>6, Links DEF IoInv, OwnLinks, Queue!Queues
  <2>2. \A i \in Slots : i # current => block_queue'.prev[i] = block_queue.prev[i]
    BY <1>6 DEF Queue!Queues
  <2>3. \A i \in Slots : i = current => block_queue'.prev[i] = Queue!FirstCell(fd) /\ fd \in Uses(i)'
    <3>1. block_queue'.prev[current] = Queue!FirstCell(fd)
      BY <1>1, <1>6 DEF Queue!Queues
    <3> QED
      BY <1>1, <1>2, <3>1 DEF Uses
  <2>4. \A i \in Slots : i # current => (Alive(i)' <=> Alive(i))
    BY <1>2 DEF Alive
  <2> QED
    BY <1>2, <1>6, <2>1, <2>2, <2>3, <2>4 DEF IoInv, OwnLinks
<1> QED
  BY <1>2, <1>7, <1>8, <1>9, <1>10, <1>11 DEF IoInv

-----------------------------------------------------------------------------
\* A step of the program or of the library, while the process runs, by its kind.
LEMMA RunningStep ==
  ASSUME IoInv, OwnDescriptors, phase # "stopped", IoNext
  PROVE  IoInv'
<1>1. ASSUME NEW id \in Slots, create(id) \/ join(id) PROVE IoInv'
  BY <1>1, CreateStep, JoinStep
<1>2. ASSUME NEW s \in Seconds, sleep(s) PROVE IoInv'
  BY <1>2, SleepStep
<1>3. CASE reap
  BY <1>3, ReapStep
<1>4. CASE finish
  BY <1>4, FinishStep
<1>5. CASE finish_crash \/ EpollInterrupted \/ \E ev \in batch : HandleCrash(ev)
  BY <1>5, StopStep DEF finish_crash, EpollInterrupted, HandleCrash
<1>6. CASE Waits(StartWait)
  BY <1>6, StartWaitStep, CoIOAssumption DEF Waits
<1>7. CASE Waits(WaitFails)
  BY <1>7, WaitFailsStep, CoIOAssumption DEF Waits
<1>8. CASE WaitAgain
  BY <1>8, WaitAgainStep
<1>9. CASE return_read \/ return_write
  BY <1>9, ReturnStep
<1>10. CASE StartLoop \/ EpollWait \/ EpollTimeout \/ EventsHandled
  BY <1>10, LoopStep, EpollWaitStep, EpollTimeoutStep, EventsHandledStep
<1>11. ASSUME NEW ev \in batch, HandleEvent(ev) PROVE IoInv'
  BY <1>11, HandleEventStep
<1>12. CASE Scheduler
  BY <1>12, SchedulerStep
<1>13. ASSUME NEW fd \in Fds, close(fd) \/ Arrive(fd) \/ Drain(fd) \/ HangUp(fd) PROVE IoInv'
  BY <1>13, CloseStep, PeerStep
<1> QED
  BY <1>1, <1>2, <1>3, <1>4, <1>5, <1>6, <1>7, <1>8, <1>9, <1>10, <1>11, <1>12, <1>13 DEF IoNext

\* The inductive invariant is kept by every step.
LEMMA NextIoInv == OwnDescriptors /\ IoInv /\ [IoNext]_allvars => IoInv'
<1> SUFFICES ASSUME OwnDescriptors, IoInv, [IoNext]_allvars PROVE IoInv'
  OBVIOUS
<1>1. CASE phase # "stopped" /\ IoNext
  BY <1>1, RunningStep
<1>2. CASE UNCHANGED allvars
  BY <1>2, FrozenStep DEF allvars, vars, IoInv, IoTypeOK, TypeOK
<1>3. CASE phase = "stopped"
  BY <1>3, StoppedStays, FrozenStep
<1> QED
  BY <1>1, <1>2, <1>3

\* The inductive invariant holds throughout.
LEMMA IoInvariance == OwnDescriptors => (IoSpec => []IoInv)
<1> SUFFICES ASSUME OwnDescriptors PROVE IoSpec => []IoInv
  OBVIOUS
<1>1. IoInv /\ [IoNext]_allvars => IoInv'
  BY NextIoInv
<1> QED
  BY <1>1, InitIoInv, PTL DEF IoSpec

-----------------------------------------------------------------------------
(***************************************************************************)
(* What the inductive invariant gives.                                      *)
(***************************************************************************)

\* The variables of the library, the program and the kernel keep their types,
\* until the process stops: events[fd].fd never holds anything but a mark.
THEOREM IoTypeCorrect == OwnDescriptors => (IoSpec => []IoTypeOK)
<1>1. IoInv => IoTypeOK
  BY DEF IoInv
<1> QED
  BY <1>1, IoInvariance, PTL

\* TAILQ_INSERT_TAIL never writes through a tqh_last that points into a control
\* block that was freed, whatever else programs and peers do.
THEOREM QueuesNeverDangle == OwnDescriptors => (IoSpec => []TailNeverDangles)
<1>1. IoInv => TailNeverDangles
  <2> SUFFICES ASSUME IoInv, NEW fd \in Fds PROVE block_queue.last[fd] \in Queue!Cells
    BY DEF TailNeverDangles, Queue!InsertDefined
  <2> QED
    BY Links DEF IoInv, ShortQueues, EmptyQueue, Holds
<1> QED
  BY <1>1, IoInvariance, PTL

\* Only co_join's free() changes the status of a coroutine that has returned.
LEMMA StepKeepsDead ==
  ASSUME IoInv, OwnDescriptors, phase # "stopped", IoNext, NEW i \in Slots, status[i] = "EXIT"
  PROVE  status'[i] \in {"EXIT", Free}
<1>0. /\ status \in [Slots -> Statuses \cup {Free}]
      /\ phase = "run" => current # i
      /\ ~Alive(i)
  BY DEF IoInv, IoTypeOK, TypeOK, RunsAlive, Alive
<1>1. CASE \E id \in Slots : create(id)
  BY <1>0, <1>1 DEF create, co_create, FirstFree
<1>2. CASE \E s \in Seconds : sleep(s)
  BY <1>0, <1>2 DEF sleep, co_sleep, InUserCode
<1>3. CASE reap
  BY <1>0, <1>3 DEF reap, JoinReap, Release
<1>4. CASE finish
  BY <1>0, <1>4 DEF finish, Finish, InUserCode
<1>5. CASE Waits(StartWait) \/ Waits(WaitFails)
  BY <1>0, <1>5 DEF Waits, StartWait, WaitFails, add_queue, InProgram, InUserCode
<1>6. CASE WaitAgain
  BY <1>0, <1>6 DEF WaitAgain, Resumed
<1>7. ASSUME NEW ev \in batch, HandleEvent(ev) PROVE status'[i] \in {"EXIT", Free}
  <2>1. ev.fd \in Fds
    BY DEF IoInv, IoTypeOK
  <2>2. PICK tsk : tsk = Queue!TAILQ_FIRST(block_queue, ev.fd)
    OBVIOUS
  <2>3. status[tsk] = "WAIT"
    BY <1>7, <2>1, <2>2, FirstHeld DEF HandleEvent, IoInv, Holds
  <2>4. status' = status \/ status' = [status EXCEPT ![tsk] = "RUNNING"]
    BY <1>7, <2>2 DEF HandleEvent
  <2> QED
    BY <1>0, <2>3, <2>4
<1>8. CASE WakeScan
  BY <1>0, <1>8 DEF WakeScan
<1>9. ASSUME status' = status PROVE status'[i] \in {"EXIT", Free}
  BY <1>9
<1> QED
  BY <1>1, <1>2, <1>3, <1>4, <1>5, <1>6, <1>7, <1>8, <1>9 DEF IoNext, Scheduler, join, co_join,
     finish_crash, Stop, return_read, return_write, StartLoop, EpollWait, EpollTimeout,
     EpollInterrupted, EventsHandled, HandleCrash, close, Arrive, Drain, HangUp, JoinWait, Pick,
     Repeat, Tick, vars

\* A coroutine that has returned is not resurrected, by whatever event comes late.
THEOREM NoResurrection == OwnDescriptors => (IoSpec => ExitedStaysDead)
<1> DEFINE Dead == \A i \in Slots : status[i] = "EXIT" => status'[i] \in {"EXIT", Free}
<1> SUFFICES ASSUME OwnDescriptors PROVE IoSpec => [][Dead]_allvars
  BY DEF ExitedStaysDead
<1>1. IoInv /\ [IoNext]_allvars => [Dead]_allvars
  <2> SUFFICES ASSUME IoInv, IoNext, NEW i \in Slots, status[i] = "EXIT"
               PROVE  status'[i] \in {"EXIT", Free}
    OBVIOUS
  <2>1. CASE phase = "stopped"
    BY <2>1, StoppedStays
  <2> QED
    BY <2>1, StepKeepsDead
<1> QED
  BY <1>1, IoInvariance, PTL DEF IoSpec

-----------------------------------------------------------------------------
(***************************************************************************)
(* The lists of descriptors, for programs with any of the Habits: a mark    *)
(* different from 0 is all that keeps a descriptor from being listed again. *)
(***************************************************************************)
MarkInv ==
  /\ current \in Slots
  /\ events \in [Slots -> [Fds -> [fd : Fds \cup {0}, events : SUBSET Events]]]
  /\ fds \in [Slots -> Seq(Fds)]
  /\ call \in [Slots -> Calls]
  /\ \A i \in Slots, fd \in Fds : events[i][fd].fd \in {0, fd}
  /\ \A i \in Slots : \A k \in 1 .. Len(fds[i]) : events[i][fds[i][k]].fd # 0
  /\ ListedOnce

\* A step that moves no mark and no list.
LEMMA MarksKept ==
  ASSUME MarkInv, fds' = fds, current' \in Slots, call' \in [Slots -> Calls],
         events' \in [Slots -> [Fds -> [fd : Fds \cup {0}, events : SUBSET Events]]],
         \A i \in Slots, fd \in Fds : events'[i][fd].fd = events[i][fd].fd
  PROVE  MarkInv'
<1>1. \A i \in Slots : \A k \in 1 .. Len(fds[i]) : fds[i][k] \in Fds
  BY DEF MarkInv
<1> QED
  BY <1>1 DEF MarkInv, ListedOnce

\* A list that is emptied.
LEMMA ListDropped ==
  ASSUME MarkInv, NEW i \in Slots, fds' = [fds EXCEPT ![i] = <<>>], current' \in Slots,
         call' \in [Slots -> Calls], events' = events \/ events' = [events EXCEPT ![i] = Zeroed]
  PROVE  MarkInv'
<1>1. Zeroed \in [Fds -> [fd : Fds \cup {0}, events : SUBSET Events]]
      /\ \A fd \in Fds : Zeroed[fd].fd = 0
  BY DEF Zeroed
<1>2. /\ events' \in [Slots -> [Fds -> [fd : Fds \cup {0}, events : SUBSET Events]]]
      /\ fds' \in [Slots -> Seq(Fds)]
  BY <1>1 DEF MarkInv
<1>3. \A j \in Slots, fd \in Fds : events'[j][fd].fd \in {0, fd}
  BY <1>1 DEF MarkInv
<1>4. /\ fds'[i] = <<>>
      /\ \A j \in Slots : j # i => fds'[j] = fds[j] /\ events'[j] = events[j]
  BY DEF MarkInv
<1>5. \A j \in Slots : \A k \in 1 .. Len(fds'[j]) :
        events'[j][fds'[j][k]].fd # 0
  BY <1>4 DEF MarkInv
<1>6. ListedOnce'
  BY <1>4 DEF MarkInv, ListedOnce
<1> QED
  BY <1>2, <1>3, <1>5, <1>6 DEF MarkInv

\* The list of a coroutine that waits grows by a descriptor without a mark.
LEMMA AddQueueMarks ==
  ASSUME MarkInv, 0 \notin Fds, NEW fd \in Fds, NEW ev \in Events, add_queue(fd, ev),
         current' = current, call' \in [Slots -> Calls]
  PROVE  MarkInv'
<1> DEFINE old == events[current][fd]
           new == Noted(current, fd, ev)
<1>0. /\ current \in Slots /\ fds[current] \in Seq(Fds)
      /\ old \in [fd : Fds \cup {0}, events : SUBSET Events] /\ old.fd \in {0, fd}
  BY DEF MarkInv
<1>1. fd \in Nat /\ fd # 0
  BY CoIOAssumption
<1>2. new \in [fd : Fds \cup {0}, events : SUBSET Events] /\ new.fd = fd
  <2>1. CASE FirstTime(current, fd)
    BY <2>1 DEF Noted, Mark, Events
  <2>2. CASE ~FirstTime(current, fd) /\ NeedsMod(current, fd, ev)
    <3>1. old.fd = fd
      BY <1>0, <1>1, <2>2 DEF FirstTime
    <3>2. new = [old EXCEPT !.events = @ \cup {ev}]
      BY <2>2 DEF Noted
    <3> HIDE DEF old, new
    <3> QED
      BY <1>0, <3>1, <3>2
  <2>3. CASE ~FirstTime(current, fd) /\ ~NeedsMod(current, fd, ev)
    BY <1>0, <1>1, <2>3 DEF FirstTime, Noted
  <2> QED
    BY <2>1, <2>2, <2>3
<1>3. /\ events' \in [Slots -> [Fds -> [fd : Fds \cup {0}, events : SUBSET Events]]]
      /\ events'[current][fd] = new
      /\ \A j \in Slots, g \in Fds : j # current \/ g # fd => events'[j][g] = events[j][g]
  <2>1. events' = [events EXCEPT ![current] = [events[current] EXCEPT ![fd] = new]]
    BY DEF add_queue
  <2> HIDE DEF new
  <2> QED
    BY <1>0, <1>2, <2>1 DEF MarkInv
<1> HIDE DEF new
<1>4. \A j \in Slots, g \in Fds : events'[j][g].fd \in {0, g} /\ (events[j][g].fd # 0 => events'[j][g].fd # 0)
  BY <1>0, <1>1, <1>2, <1>3 DEF MarkInv
<1>5. CASE fds' = fds
  <2>1. \A j \in Slots : \A k \in 1 .. Len(fds[j]) : fds[j][k] \in Fds
    BY DEF MarkInv
  <2> QED
    BY <1>0, <1>3, <1>4, <1>5, <2>1 DEF MarkInv, ListedOnce
<1>6. CASE FirstTime(current, fd) /\ fds' = [fds EXCEPT ![current] = Append(@, fd)]
  <2> DEFINE list == fds[current]
  <2>1. \A k \in 1 .. Len(list) : list[k] # fd
    <3>1. old.fd = 0
      BY <1>0, <1>1, <1>6 DEF FirstTime
    <3> QED
      BY <1>0, <3>1 DEF MarkInv
  <2>2. /\ fds' \in [Slots -> Seq(Fds)]
        /\ fds'[current] = Append(list, fd)
        /\ \A j \in Slots : j # current => fds'[j] = fds[j]
    BY <1>0, <1>6 DEF MarkInv
  <2>3. /\ Len(Append(list, fd)) = Len(list) + 1 /\ Len(list) \in Nat
        /\ \A k \in 1 .. Len(list) : Append(list, fd)[k] = list[k]
        /\ Append(list, fd)[Len(list) + 1] = fd
    BY <1>0
  <2>4. \A j \in Slots : \A k \in 1 .. Len(fds'[j]) : events'[j][fds'[j][k]].fd # 0
    <3> SUFFICES ASSUME NEW j \in Slots, NEW k \in 1 .. Len(fds'[j])
                 PROVE  events'[j][fds'[j][k]].fd # 0
      OBVIOUS
    <3>1. CASE j # current \/ k # Len(list) + 1
      <4>1. k \in 1 .. Len(fds[j]) /\ fds'[j][k] = fds[j][k]
        <5>1. CASE j = current
          BY <2>2, <2>3, <3>1, <5>1
        <5>2. CASE j # current
          BY <2>2, <5>2
        <5> QED
          BY <5>1, <5>2
      <4>2. fds[j][k] \in Fds /\ events[j][fds[j][k]].fd # 0
        BY <4>1 DEF MarkInv
      <4> QED
        BY <1>4, <4>1, <4>2
    <3>2. CASE j = current /\ k = Len(list) + 1
      BY <1>0, <1>1, <1>2, <1>3, <2>2, <2>3, <3>2
    <3> QED
      BY <3>1, <3>2
  <2>5. ListedOnce'
    <3> SUFFICES ASSUME NEW j \in Slots, NEW k \in 1 .. Len(fds'[j]), NEW l \in 1 .. Len(fds'[j]),
                        fds'[j][k] = fds'[j][l]
                 PROVE  k = l
      BY DEF ListedOnce
    <3>1. CASE j # current
      BY <2>2, <3>1 DEF MarkInv, ListedOnce
    <3>2. CASE j = current
      <4>1. k \in 1 .. Len(list) + 1 /\ l \in 1 .. Len(list) + 1
            /\ Append(list, fd)[k] = Append(list, fd)[l]
        BY <2>2, <2>3, <3>2
      <4>2. CASE k \in 1 .. Len(list) /\ l \in 1 .. Len(list)
        BY <1>0, <2>3, <4>1, <4>2 DEF MarkInv, ListedOnce
      <4>3. CASE k = Len(list) + 1 \/ l = Len(list) + 1
        BY <2>1, <2>3, <4>1, <4>3
      <4> QED
        BY <2>3, <4>1, <4>2, <4>3
    <3> QED
      BY <3>1, <3>2
  <2> QED
    BY <1>0, <1>3, <1>4, <2>2, <2>4, <2>5 DEF MarkInv
<1> QED
  BY <1>5, <1>6 DEF add_queue

\* The marks and lists are kept by every step, of any program.
LEMMA NextMarkInv == 0 \notin Fds /\ MarkInv /\ [IoNext]_allvars => MarkInv'
<1> SUFFICES ASSUME 0 \notin Fds, MarkInv, [IoNext]_allvars PROVE MarkInv'
  OBVIOUS
<1>a. /\ current \in Slots /\ fds \in [Slots -> Seq(Fds)] /\ call \in [Slots -> Calls]
      /\ events \in [Slots -> [Fds -> [fd : Fds \cup {0}, events : SUBSET Events]]]
  BY DEF MarkInv
<1>b. \A new \in Calls : [call EXCEPT ![current] = new] \in [Slots -> Calls]
  BY <1>a
<1>c. NoCall \in Calls /\ Returning \in Calls /\ InLoop \subseteq Calls
  BY DEF Calls
<1>1. ASSUME NEW id \in Slots, create(id) PROVE MarkInv'
  BY <1>1, <1>a, ListDropped DEF create, co_create
<1>2. CASE finish
  BY <1>2, <1>a, <1>b, <1>c, ListDropped DEF finish, Finish
<1>3. ASSUME NEW fd \in Fds, NEW op \in {"read", "write", "accept"},
             StartWait(op, fd) \/ WaitFails(op, fd)
      PROVE  MarkInv'
  <2>1. EventOf(op) \in Events /\ [op |-> op, fd |-> fd] \in Calls
    BY DEF EventOf, Events, Calls
  <2> QED
    BY <1>3, <1>a, <1>b, <2>1, AddQueueMarks DEF StartWait, WaitFails
<1>4. CASE return_write
  <2>1. /\ call[current].op = "write" /\ fds' = fds /\ current' = current
        /\ call' = [call EXCEPT ![current] = NoCall]
        /\ events' = [events EXCEPT ![current][call[current].fd].events = MaskAfter(call[current].fd)]
    BY <1>4 DEF return_write, Resumed, vars
  <2>2. call[current].fd \in Fds
    BY <1>a, <2>1 DEF Calls, InLoop, NoCall, Returning, AtEpollWait, HandlingEvents
  <2>3. MaskAfter(call[current].fd) \in SUBSET Events
    BY <1>a, <2>2 DEF MaskAfter
  <2>4. /\ events' \in [Slots -> [Fds -> [fd : Fds \cup {0}, events : SUBSET Events]]]
        /\ \A j \in Slots, g \in Fds : events'[j][g].fd = events[j][g].fd
    BY <1>a, <2>1, <2>2, <2>3, MaskChange
  <2> QED
    BY <1>a, <1>b, <1>c, <2>1, <2>4, MarksKept
<1>5. CASE return_read \/ StartLoop \/ EpollWait \/ EventsHandled \/ \E fd \in Fds : close(fd)
  <2>1. UNCHANGED <<events, fds, current>>
    BY <1>5 DEF return_read, StartLoop, EpollWait, EventsHandled, close, vars
  <2>2. call' = call \/ \E new \in InLoop \cup {NoCall, Returning} : call' = [call EXCEPT ![current] = new]
    BY <1>5 DEF return_read, StartLoop, EpollWait, EventsHandled, close, InLoop
  <2>3. call' \in [Slots -> Calls]
    BY <1>a, <1>b, <1>c, <2>2
  <2> QED
    BY <1>a, <2>1, <2>3, MarksKept
<1>6. ASSUME UNCHANGED <<events, fds, call>>, current' \in Slots PROVE MarkInv'
  BY <1>6, <1>a, MarksKept
<1>7. CASE UNCHANGED allvars
  BY <1>7, <1>6, <1>a DEF allvars, vars, iovars
<1>8. CASE \/ Scheduler \/ reap \/ finish_crash \/ WaitAgain \/ EpollTimeout \/ EpollInterrupted
           \/ \E id \in Slots : join(id)
           \/ \E s \in Seconds : sleep(s)
           \/ \E ev \in batch : HandleEvent(ev) \/ HandleCrash(ev)
           \/ \E fd \in Fds : Arrive(fd) \/ Drain(fd) \/ HangUp(fd)
  BY <1>8, <1>6, <1>a DEF Scheduler, JoinWait, WakeScan, Pick, Repeat, Tick, reap, JoinReap,
     finish_crash, Stop, WaitAgain, EpollTimeout, EpollInterrupted, join, co_join, sleep, co_sleep,
     HandleEvent, HandleCrash, Arrive, Drain, HangUp, vars, iovars
<1> QED
  BY <1>1, <1>2, <1>3, <1>4, <1>5, <1>7, <1>8, CoIOAssumption DEF IoNext, Waits

\* `never watched before: added to epoll for the first time': a task lists no
\* descriptor but 0 twice, so that start() unlinks nothing twice; also in
\* programs that share descriptors, use several or close them.
THEOREM ListsDistinct == 0 \notin Fds => (IoSpec => []ListedOnce)
<1> SUFFICES ASSUME 0 \notin Fds PROVE IoSpec => []ListedOnce
  OBVIOUS
<1>1. IoInit => MarkInv
  <2> SUFFICES ASSUME IoInit PROVE MarkInv
    OBVIOUS
  <2>1. Zeroed \in [Fds -> [fd : Fds \cup {0}, events : SUBSET Events]]
        /\ \A fd \in Fds : Zeroed[fd].fd = 0
    BY DEF Zeroed
  <2> QED
    BY <2>1, SchedAssumption DEF IoInit, Init, MarkInv, ListedOnce, Calls
<1>2. MarkInv /\ [IoNext]_allvars => MarkInv'
  BY NextMarkInv
<1>3. MarkInv => ListedOnce
  BY DEF MarkInv
<1> QED
  BY <1>1, <1>2, <1>3, PTL DEF IoSpec

-----------------------------------------------------------------------------
(***************************************************************************)
(* What each kind of step does to the calls and descriptors.                *)
(***************************************************************************)

\* Steps of the scheduler, and calls that have nothing to do with descriptors.
Aside ==
  \/ \E id \in Slots : create(id) \/ join(id)
  \/ \E s \in Seconds : sleep(s)
  \/ reap \/ EpollTimeout \/ Scheduler

\* The process stops.
Stops == finish_crash \/ EpollInterrupted \/ \E ev \in batch : HandleCrash(ev)

Peers == \E fd \in Fds : Arrive(fd) \/ Drain(fd) \/ HangUp(fd)

\* A call on a descriptor, which is a listener's exactly when it is co_accept.
Fits(op, fd) ==
  op \in {"read", "write", "accept"} /\ fd \in Fds /\ (op = "accept" <=> fd \in ListenFds)

First(fd) == block_queue.ptr[Queue!FirstCell(fd)]

\* The steps by their kind.
LEMMA StepKinds ==
  ASSUME IoNext
  PROVE  \/ Aside \/ Stops \/ Peers
         \/ \E op \in {"read", "write", "accept"}, fd \in Fds :
              Fits(op, fd) /\ (StartWait(op, fd) \/ WaitFails(op, fd))
         \/ finish \/ WaitAgain \/ return_read \/ return_write
         \/ StartLoop \/ EpollWait \/ EventsHandled
         \/ \E ev \in batch : HandleEvent(ev)
         \/ \E fd \in Fds : close(fd)
BY CoIOAssumption DEF IoNext, Waits, Aside, Stops, Peers, Fits

\* The first entry of a queue is none but who is blocked on its descriptor.
LEMMA FirstOf ==
  ASSUME ShortQueues, NEW fd \in Fds
  PROVE  First(fd) = Queue!NIL \/ (First(fd) \in Slots /\ Holds(fd, First(fd)))
BY DEF ShortQueues, EmptyQueue, Holds, First

\* Code that is in no waiting call runs while there are no events to handle.
LEMMA NotHandling ==
  ASSUME IoInv, phase # "stopped", phase = "wake" \/ call[current].op # "handle"
  PROVE  batch = {}
BY DEF IoInv, BatchHandled, HandlingEvents

LEMMA AsideEffect ==
  ASSUME IoInv, phase # "stopped", Aside
  PROVE  /\ UNCHANGED <<fds, call, interest, ready, batch>>
         /\ \A i \in Slots : Uses(i)' = Uses(i)
         /\ \A i \in Slots : fds[i] # <<>> => events'[i] = events[i] /\ revents'[i] = revents[i]
         /\ \A i \in Slots : call[i].fd # NoFd => status'[i] = status[i]
         /\ \A i \in Slots : status'[i] = "WAIT" => status[i] = "WAIT"
         /\ \A fd \in Fds : First(fd) # Queue!NIL => First(fd)' = First(fd)
<1> DEFINE Kept == UNCHANGED <<fds, call, interest, ready, batch>>
           Regs == \A i \in Slots : fds[i] # <<>> =>
                     events'[i] = events[i] /\ revents'[i] = revents[i]
           Stat == /\ \A i \in Slots : call[i].fd # NoFd => status'[i] = status[i]
                   /\ \A i \in Slots : status'[i] = "WAIT" => status[i] = "WAIT"
           Heads == \A fd \in Fds : First(fd) # Queue!NIL => First(fd)' = First(fd)
<1>0. /\ status \in [Slots -> Statuses \cup {Free}] /\ current \in Slots
      /\ \A i \in Slots : status[i] = Free => fds[i] = <<>> /\ call[i].fd = NoFd
      /\ \A i \in Slots : call[i].fd # NoFd => status[i] \in {"WAIT", "RUNNING"}
  BY FdIsNat DEF IoInv, IoTypeOK, TypeOK, EndedIdle, CallsOwn, Alive
<1>1. ASSUME NEW id \in Slots, create(id) PROVE Kept /\ Regs /\ Stat /\ Heads
  <2>1. status[id] = Free /\ status' = [status EXCEPT ![id] = "RUNNING"]
    BY <1>1 DEF create, co_create, FirstFree
  <2>2. fds' = fds /\ \A i \in Slots : i # id => events'[i] = events[i] /\ revents'[i] = revents[i]
    BY <1>0, <1>1, <2>1 DEF create, IoInv, IoTypeOK
  <2>3. Heads
    BY <1>1, Links DEF create, Queue!ZeroElem, First, IoInv, OwnLinks, Queue!Queues
  <2>4. Kept
    BY <1>1, <2>2 DEF create
  <2> QED
    BY <1>0, <2>1, <2>2, <2>3, <2>4
<1>2. ASSUME reap PROVE Kept /\ Regs /\ Stat /\ Heads
  <2>1. PICK cid \in Slots : cid = joining[current]
    BY <1>2 DEF reap, JoinReap, IoInv, IoTypeOK, TypeOK
  <2>2. /\ status[cid] = "EXIT" /\ status' = [status EXCEPT ![cid] = Free]
        /\ block_queue' = Queue!FreeElem(block_queue, cid)
        /\ UNCHANGED <<events, revents, fds, call, batch, interest, ready>>
    BY <1>2, <2>1 DEF reap, JoinReap, Exited, Release
  <2>3. Heads
    <3> SUFFICES ASSUME NEW fd \in Fds, First(fd) # Queue!NIL PROVE First(fd)' = First(fd)
      OBVIOUS
    <3>1. First(fd) # cid
      BY <2>2, FirstOf DEF IoInv, Holds
    <3> QED
      BY <2>2, <3>1, Links DEF First, Queue!FreeElem
  <2> QED
    BY <1>0, <2>2, <2>3
<1>3. ASSUME NEW s \in Seconds, sleep(s) PROVE Kept /\ Regs /\ Stat /\ Heads
  <2>1. UNCHANGED iovars /\ status' = [status EXCEPT ![current] = "SLEEP"]
        /\ call[current].fd = NoFd
    BY <1>3, FdIsNat DEF sleep, co_sleep, InProgram
  <2> QED
    BY <1>0, <2>1 DEF iovars, First
<1>4. ASSUME Scheduler \/ EpollTimeout \/ \E id \in Slots : join(id)
      PROVE  Kept /\ Regs /\ Stat /\ Heads
  <2>1. UNCHANGED iovars
    BY <1>4 DEF Scheduler, EpollTimeout, join
  <2>2. \/ status' = status
        \/ status[scan] = "SLEEP" /\ status' = [status EXCEPT ![scan] = "RUNNING"]
    BY <1>4 DEF Scheduler, EpollTimeout, join, co_join, JoinWait, WakeScan, Pick, Repeat, Tick
  <2> QED
    BY <1>0, <2>1, <2>2 DEF iovars, First
<1>5. Kept /\ Regs /\ Stat /\ Heads
  <2> HIDE DEF Kept, Regs, Stat, Heads
  <2> QED
    BY <1>1, <1>2, <1>3, <1>4 DEF Aside
<1> QED
  BY <1>5 DEF Uses

\* Nothing happens but that the process stops, or that time passes for one that has.
Frozen ==
  UNCHANGED <<status, current, joining, iovars>> /\ phase' \in {phase, "stopped"}

LEMMA FrozenOrStep ==
  ASSUME [IoNext]_allvars
  PROVE  Frozen \/ (phase # "stopped" /\ IoNext /\ ~Stops)
<1>1. CASE phase = "stopped"
  BY <1>1, StoppedStays DEF Frozen
<1>2. CASE UNCHANGED allvars
  BY <1>2 DEF allvars, vars, Frozen
<1>3. CASE Stops
  BY <1>3 DEF Stops, finish_crash, EpollInterrupted, HandleCrash, Stop, Frozen
<1> QED
  BY <1>1, <1>2, <1>3

\* co_read, co_write and co_accept up to their schedule(), or up to the failure
\* of epoll_ctl.
LEMMA WaitEffect ==
  ASSUME IoInv, OwnDescriptors, phase # "stopped", NEW fd \in Fds, NEW op, Fits(op, fd),
         StartWait(op, fd) \/ WaitFails(op, fd)
  PROVE  /\ phase = "run" /\ call[current] = NoCall /\ joining[current] = NoCid
         /\ current \in Slots /\ Alive(current) /\ batch = {} /\ call[current].fd = NoFd
         /\ UNCHANGED <<current, joining, batch, ready>>
         /\ \A i \in Slots : Uses(i)' = IF i = current THEN {fd} ELSE Uses(i)
         /\ Uses(current) \subseteq {fd} /\ \A i \in Slots : i # current => fd \notin Uses(i)
         /\ FirstTime(current, fd) <=> fd \notin Uses(current)
         /\ status'[current] = "WAIT"
         /\ \A i \in Slots : i # current =>
              /\ status'[i] = status[i] /\ events'[i] = events[i] /\ revents'[i] = revents[i]
              /\ call'[i] = call[i] /\ fds'[i] = fds[i]
         /\ events'[current][fd].events = Noted(current, fd, EventOf(op)).events
         /\ EventOf(op) \notin revents'[current][fd]
         /\ fds'[current] = <<fd>>
<1>0. EventOf(op) \in Events
  BY DEF EventOf, Events
<1>1. /\ phase = "run" /\ call[current] = NoCall /\ joining[current] = NoCid
      /\ UNCHANGED <<current, joining, batch, ready>>
      /\ InProgram /\ MayWait(op, fd) /\ add_queue(fd, EventOf(op))
      /\ call' = call \/ call' = [call EXCEPT ![current] = [op |-> op, fd |-> fd]]
  BY DEF StartWait, WaitFails, InProgram, InUserCode
<1>2. /\ current \in Slots /\ Alive(current) /\ batch = {} /\ call[current].fd = NoFd
      /\ status \in [Slots -> Statuses \cup {Free}] /\ call \in [Slots -> Calls]
      /\ fds \in [Slots -> Seq(Fds)]
      /\ events \in [Slots -> [Fds -> [fd : Fds \cup {0}, events : SUBSET Events]]]
      /\ revents \in [Slots -> [Fds -> SUBSET Events]]
  <2>1. current \in Slots /\ status \in [Slots -> Statuses \cup {Free}]
    BY <1>1 DEF IoInv, IoTypeOK, TypeOK
  <2>2. call[current].fd = NoFd /\ call[current] # HandlingEvents
    BY <1>1, FdIsNat DEF NoCall, HandlingEvents
  <2>3. Alive(current) /\ batch = {}
    BY <1>1, <2>2 DEF IoInv, RunsAlive, BatchHandled
  <2> QED
    BY <2>1, <2>2, <2>3 DEF IoInv, IoTypeOK
<1>3. /\ Uses(current) \subseteq {fd} /\ \A i \in Slots : i # current => fd \notin Uses(i)
      /\ fds' = [fds EXCEPT ![current] = <<fd>>]
  BY <1>0, <1>1, AddQueue
<1>4. FirstTime(current, fd) <=> fd \notin Uses(current)
  BY <1>2, FdIsNat DEF FirstTime, OwnDescriptors, IoInv, OneEach
<1>5. /\ \A i \in Slots : i # current => Uses(i)' = Uses(i) /\ status'[i] = status[i]
      /\ {fds'[current][k] : k \in 1 .. Len(fds'[current])} = {fd}
      /\ status'[current] = "WAIT"
  BY <1>0, <1>1, AddQueueKeeps
<1>6. \A i \in Slots : Uses(i)' = IF i = current THEN {fd} ELSE Uses(i)
  BY <1>5 DEF Uses
<1>7. /\ events'[current][fd] = Noted(current, fd, EventOf(op))
      /\ \A i \in Slots : i # current => events'[i] = events[i]
  <2>1. events' = [events EXCEPT ![current] =
                     [events[current] EXCEPT ![fd] = Noted(current, fd, EventOf(op))]]
    BY <1>1 DEF add_queue
  <2> QED
    BY <1>2, <2>1
<1>8. /\ EventOf(op) \notin revents'[current][fd]
      /\ \A i \in Slots : i # current => revents'[i] = revents[i]
  <2>1. revents' = [revents EXCEPT ![current] =
                      [revents[current] EXCEPT ![fd] = Cleared(fd, EventOf(op))]]
    BY <1>1 DEF add_queue
  <2> QED
    BY <1>2, <2>1 DEF Cleared
<1>9. \A i \in Slots : i # current => call'[i] = call[i]
  BY <1>1, <1>2
<1>10. fds'[current] = <<fd>> /\ \A i \in Slots : i # current => fds'[i] = fds[i]
  BY <1>2, <1>3
<1> QED
  BY <1>1, <1>2, <1>3, <1>4, <1>5, <1>6, <1>7, <1>8, <1>9, <1>10

\* The call is entered, with the coroutine at the end of its descriptor's queue.
LEMMA StartWaitEffect ==
  ASSUME IoInv, OwnDescriptors, phase # "stopped", NEW fd \in Fds, NEW op, Fits(op, fd),
         StartWait(op, fd)
  PROVE  /\ call'[current].op = op /\ call'[current].fd = fd /\ phase' = "wake"
         /\ interest' = [interest EXCEPT ![fd] = Watched(current, fd, EventOf(op))]
         /\ interest'[fd] = Watched(current, fd, EventOf(op))
         /\ First(fd)' = current
         /\ \A g \in Fds : g # fd => First(g)' = First(g) /\ interest'[g] = interest[g]
<1>1. /\ current \in Slots /\ call[current].fd = NoFd
      /\ \A i \in Slots : i # current => fd \notin Uses(i)
  BY WaitEffect
<1>2. EmptyQueue(fd)
  <2> SUFFICES ASSUME NEW i \in Slots, Holds(fd, i) PROVE FALSE
    BY DEF IoInv, ShortQueues
  <2> QED
    BY <1>1, FdIsNat DEF Holds, IoInv, CallsOwn
<1>3. block_queue'.ptr = [block_queue.ptr EXCEPT ![Queue!NextCell(current)] = Queue!NIL,
                                                 ![Queue!FirstCell(fd)] = current]
  BY <1>2 DEF StartWait, Queue!TAILQ_INSERT_TAIL, EmptyQueue
<1>4. First(fd)' = current /\ \A g \in Fds : g # fd => First(g)' = First(g)
  BY <1>1, <1>3, Links DEF First, IoInv, OwnLinks, Queue!Queues
<1>5. call' = [call EXCEPT ![current] = [op |-> op, fd |-> fd]] /\ phase' = "wake"
      /\ interest' = [interest EXCEPT ![fd] = Watched(current, fd, EventOf(op))]
  BY DEF StartWait, schedule
<1> QED
  BY <1>1, <1>4, <1>5 DEF IoInv, IoTypeOK

\* epoll_ctl fails when the descriptor is a regular file, registered for another
\* coroutine, or was closed while its mark stayed.
LEMMA WaitFailsEffect ==
  ASSUME IoInv, OwnDescriptors, phase # "stopped", NEW fd \in Fds, NEW op, Fits(op, fd),
         WaitFails(op, fd)
  PROVE  /\ UNCHANGED <<phase, block_queue, call, interest>>
         /\ \/ fd \notin Uses(current) /\ (interest[fd] # {} \/ "FILE" \in ready[fd])
            \/ fd \in Uses(current) /\ interest[fd] = {}
<1>1. FirstTime(current, fd) <=> fd \notin Uses(current)
  BY WaitEffect
<1> QED
  BY <1>1 DEF WaitFails, CtlFails

\* start() once co_fn has returned.
LEMMA FinishEffect ==
  ASSUME IoInv, phase # "stopped", finish
  PROVE  /\ phase = "run" /\ phase' = "wake" /\ current \in Slots /\ batch = {}
         /\ joining[current] = NoCid /\ call[current].fd = NoFd /\ call[current] \notin InLoop
         /\ UNCHANGED <<current, joining, events, revents, batch, ready, block_queue>>
         /\ \A i \in Slots : Uses(i)' = IF i = current THEN {} ELSE Uses(i)
         /\ status'[current] = "EXIT" /\ call'[current] = NoCall /\ fds'[current] = <<>>
         /\ \A i \in Slots : i # current =>
              status'[i] = status[i] /\ call'[i] = call[i] /\ fds'[i] = fds[i]
         /\ \A fd \in Fds : interest'[fd] = IF fd \in Uses(current) THEN {} ELSE interest[fd]
<1>1. /\ phase = "run" /\ phase' = "wake" /\ joining[current] = NoCid
      /\ call[current] \in {NoCall, Returning}
      /\ UNCHANGED <<current, joining, events, revents, batch, ready>>
      /\ status' = [status EXCEPT ![current] = "EXIT"]
      /\ call' = [call EXCEPT ![current] = NoCall]
      /\ fds' = [fds EXCEPT ![current] = <<>>]
      /\ interest' = Deregistered(current)
  BY DEF finish, Finish, MayReturn, InProgram, InUserCode, Ended, schedule
<1>2. block_queue' = block_queue
  BY FinishLeavesQueues
<1>3. /\ current \in Slots /\ status \in [Slots -> Statuses \cup {Free}]
      /\ call \in [Slots -> Calls] /\ fds \in [Slots -> Seq(Fds)]
  BY DEF IoInv, IoTypeOK, TypeOK
<1>4. call[current].fd = NoFd /\ call[current] \notin InLoop /\ batch = {}
  BY <1>1, FdIsNat, NotHandling DEF NoCall, Returning, InLoop, AtEpollWait, HandlingEvents
<1>5. \A i \in Slots : Uses(i)' = IF i = current THEN {} ELSE Uses(i)
  BY <1>1, <1>3 DEF Uses
<1>6. /\ status'[current] = "EXIT" /\ call'[current] = NoCall /\ fds'[current] = <<>>
      /\ \A i \in Slots : i # current =>
           status'[i] = status[i] /\ call'[i] = call[i] /\ fds'[i] = fds[i]
  BY <1>1, <1>3
<1> QED
  BY <1>1, <1>2, <1>3, <1>4, <1>5, <1>6 DEF Deregistered

\* A coroutine that runs again inside a call has been woken, and waits on its own
\* descriptor.
LEMMA ResumedEffect ==
  ASSUME IoInv, phase # "stopped", WaitAgain \/ return_read \/ return_write
  PROVE  /\ phase = "run" /\ current \in Slots /\ batch = {} /\ joining[current] = NoCid
         /\ status[current] = "RUNNING"
         /\ call[current].op \in {"read", "write", "accept"}
         /\ call[current].fd \in Fds /\ call[current].fd \in Uses(current)
         /\ call[current].fd # NoFd
         /\ UNCHANGED <<current, joining, fds, batch>>
         /\ \A i \in Slots : Uses(i)' = Uses(i)
         /\ \A i \in Slots : i # current => call[current].fd \notin Uses(i)
<1>1. /\ phase = "run" /\ current \in Slots /\ call[current] \in Calls
      /\ call[current].op \in {"read", "write", "accept"}
      /\ UNCHANGED <<current, joining, fds, batch>>
  BY DEF WaitAgain, return_read, return_write, Resumed, vars, iovars, IoInv, IoTypeOK, TypeOK
<1>2. call[current].fd \in Fds /\ call[current].fd # NoFd
  BY <1>1, FdIsNat DEF Calls, InLoop, AtEpollWait, HandlingEvents, NoCall, Returning
<1>3. batch = {}
  BY <1>1, NotHandling
<1>4. status[current] = "RUNNING" /\ call[current].fd \in Uses(current) /\ joining[current] = NoCid
  BY <1>1, <1>2, FdIsNat DEF IoInv, RunsAlive, CallsOwn, NoCall
<1>5. \A i \in Slots : i # current => call[current].fd \notin Uses(i)
  BY <1>1, <1>4 DEF IoInv, OneEach
<1> QED
  BY <1>1, <1>2, <1>3, <1>4, <1>5 DEF Uses

\* The end of a call: no other coroutine is touched.
LEMMA ReturnEffect ==
  ASSUME IoInv, phase # "stopped", return_read \/ return_write
  PROVE  /\ UNCHANGED <<status, current, joining, phase, block_queue>>
         /\ call'[current] = NoCall
         /\ \A i \in Slots : i # current => /\ call'[i] = call[i] /\ events'[i] = events[i]
                                            /\ revents'[i] = revents[i]
         /\ \A g \in Fds : g # call[current].fd => ready'[g] = ready[g] /\ interest'[g] = interest[g]
<1>0. /\ current \in Slots /\ call \in [Slots -> Calls] /\ call[current].fd \in Fds
      /\ interest \in [Fds -> SUBSET Events] /\ ready \in [Fds -> SUBSET Kinds]
      /\ events \in [Slots -> [Fds -> [fd : Fds \cup {0}, events : SUBSET Events]]]
      /\ revents \in [Slots -> [Fds -> SUBSET Events]]
  BY ResumedEffect DEF IoInv, IoTypeOK
<1>1. UNCHANGED <<status, current, joining, phase, block_queue>>
      /\ call' = [call EXCEPT ![current] = NoCall]
  BY DEF return_read, return_write, vars
<1>2. CASE return_read
  BY <1>0, <1>1, <1>2 DEF return_read
<1>3. CASE return_write
  BY <1>0, <1>1, <1>3 DEF return_write
<1> QED
  BY <1>2, <1>3

LEMMA ReturnReadEffect ==
  ASSUME IoInv, phase # "stopped", return_read
  PROVE  /\ UNCHANGED <<events, revents, interest>>
         /\ call[current].op \in {"read", "accept"}
         /\ \A fd \in Fds : "OUT" \in ready[fd] => "OUT" \in ready'[fd]
         /\ \A fd \in Fds : "FILE" \in ready[fd] <=> "FILE" \in ready'[fd]
         /\ \A fd \in Fds : ready'[fd] \subseteq ready[fd]
<1>1. call[current].fd \in Fds /\ ready \in [Fds -> SUBSET Kinds]
  BY ResumedEffect DEF IoInv, IoTypeOK
<1>2. UNCHANGED <<events, revents, interest>> /\ call[current].op \in {"read", "accept"}
  BY DEF return_read, Resumed
<1>3. PICK rest \in SUBSET {"IN"} :
        ready' = [ready EXCEPT ![call[current].fd] = (@ \ {"IN"}) \cup (@ \cap rest)]
  BY DEF return_read
<1> QED
  BY <1>1, <1>2, <1>3

LEMMA ReturnWriteEffect ==
  ASSUME IoInv, phase # "stopped", return_write, NEW fd, fd = call[current].fd
  PROVE  /\ call[current].op = "write" /\ fd \in Fds
         /\ events'[current][fd].events = events[current][fd].events \ {"OUT"}
         /\ interest'[fd] = IF interest[fd] = {} THEN {} ELSE events[current][fd].events \ {"OUT"}
         /\ ready' = ready \/ ("backpressure" \in Habits /\ interest[fd] # {})
         /\ \A g \in Fds : ready'[g] \subseteq ready[g]
         /\ \A g \in Fds : "FILE" \in ready[g] <=> "FILE" \in ready'[g]
<1>1. /\ call[current].op = "write" /\ fd \in Fds /\ current \in Slots
      /\ events \in [Slots -> [Fds -> [fd : Fds \cup {0}, events : SUBSET Events]]]
      /\ interest \in [Fds -> SUBSET Events] /\ ready \in [Fds -> SUBSET Kinds]
  BY ResumedEffect DEF return_write, Resumed, IoInv, IoTypeOK
<1>2. MaskAfter(fd) \in SUBSET Events /\ MaskAfter(fd) = events[current][fd].events \ {"OUT"}
  BY <1>1 DEF MaskAfter
<1>3. events' = [events EXCEPT ![current][fd].events = MaskAfter(fd)]
  BY DEF return_write
<1>4. events'[current][fd].events = MaskAfter(fd)
  BY <1>1, <1>2, <1>3, MaskChange
<1>5. interest' = [interest EXCEPT ![fd] = IF @ = {} THEN @ ELSE MaskAfter(fd)]
      /\ (ready' = ready \/ ("backpressure" \in Habits /\ interest[fd] # {}
                             /\ ready' = [ready EXCEPT ![fd] = @ \ {"OUT"}]))
  BY DEF return_write
<1>6. interest'[fd] = IF interest[fd] = {} THEN {} ELSE events[current][fd].events \ {"OUT"}
  BY <1>1, <1>2, <1>5
<1>7. /\ ready' = ready \/ ("backpressure" \in Habits /\ interest[fd] # {})
      /\ \A g \in Fds : ready'[g] \subseteq ready[g]
      /\ \A g \in Fds : "FILE" \in ready[g] <=> "FILE" \in ready'[g]
  BY <1>1, <1>5
<1> QED
  BY <1>1, <1>2, <1>4, <1>6, <1>7

\* A call goes back to sleep.
LEMMA WaitAgainEffect ==
  ASSUME IoInv, phase # "stopped", WaitAgain
  PROVE  /\ EventOf(call[current].op) \notin revents[current][call[current].fd]
         /\ UNCHANGED iovars /\ status' = [status EXCEPT ![current] = "WAIT"] /\ phase' = "wake"
BY DEF WaitAgain, Arrived, schedule

\* The program closes a descriptor.
LEMMA CloseEffect ==
  ASSUME IoInv, phase # "stopped", NEW fd \in Fds, close(fd)
  PROVE  /\ phase = "run" /\ current \in Slots /\ batch = {} /\ joining[current] = NoCid
         /\ call[current] = NoCall /\ call[current].fd = NoFd /\ fd \in Uses(current)
         /\ UNCHANGED <<status, current, joining, phase, block_queue, events, revents, fds, batch>>
         /\ \A i \in Slots : Uses(i)' = Uses(i)
         /\ \A i \in Slots : i # current => call'[i] = call[i]
         /\ call'[current] \in {NoCall, Returning}
         /\ "reuse" \notin Habits => call'[current] = Returning
         /\ interest'[fd] = {} /\ ready'[fd] = Fresh(fd)
         /\ \A g \in Fds : g # fd => interest'[g] = interest[g] /\ ready'[g] = ready[g]
<1>1. /\ phase = "run" /\ call[current] = NoCall /\ fd \in Uses(current) /\ joining[current] = NoCid
      /\ UNCHANGED <<status, current, joining, phase, block_queue, events, revents, fds, batch>>
      /\ \/ "reuse" \in Habits /\ call' = call
         \/ call' = [call EXCEPT ![current] = Returning]
      /\ interest' = [interest EXCEPT ![fd] = {}] /\ ready' = [ready EXCEPT ![fd] = Fresh(fd)]
  BY DEF close, InProgram, InUserCode, vars
<1>2. current \in Slots /\ call \in [Slots -> Calls]
      /\ interest \in [Fds -> SUBSET Events] /\ ready \in [Fds -> SUBSET Kinds]
  BY <1>1 DEF IoInv, IoTypeOK, TypeOK
<1>3. call[current].fd = NoFd /\ batch = {}
  BY <1>1, FdIsNat, NotHandling DEF NoCall
<1> QED
  BY <1>1, <1>2, <1>3 DEF Uses

\* The event loop: it is entered, epoll_wait returns, it goes back.
LEMMA LoopEffect ==
  ASSUME IoInv, phase # "stopped", StartLoop \/ EpollWait \/ EventsHandled
  PROVE  /\ phase = "run" /\ current \in Slots /\ joining[current] = NoCid
         /\ call[current].fd = NoFd /\ call'[current] \in InLoop /\ call'[current].fd = NoFd
         /\ call[current].op # "write" /\ call'[current].op # "write" /\ call[current] # Returning
         /\ \A i \in Slots : i # current => call'[i] = call[i]
         /\ UNCHANGED <<status, current, joining, block_queue, events, revents, fds, interest, ready>>
         /\ \A i \in Slots : Uses(i)' = Uses(i)
<1>1. /\ phase = "run"
      /\ UNCHANGED <<status, current, joining, block_queue, events, revents, fds, interest, ready>>
      /\ call[current].op \in {"none", "epoll_wait", "handle"}
      /\ \E new \in InLoop : call' = [call EXCEPT ![current] = new]
  BY DEF StartLoop, EpollWait, EventsHandled, InProgram, InUserCode, Resumed, vars, NoCall, InLoop
<1>2. current \in Slots /\ call \in [Slots -> Calls] /\ call[current] \in Calls
  BY <1>1 DEF IoInv, IoTypeOK, TypeOK
<1>3. call[current].fd = NoFd /\ call[current] # Returning
  BY <1>1, <1>2 DEF Calls, InLoop, AtEpollWait, HandlingEvents, NoCall, Returning
<1>4. joining[current] = NoCid
  <2>1. CASE StartLoop
    BY <2>1 DEF StartLoop, InProgram, InUserCode
  <2>2. CASE EpollWait \/ EventsHandled
    BY <1>2, <2>2 DEF EpollWait, EventsHandled, Resumed, IoInv, CallsOwn, NoCall
  <2> QED
    BY <2>1, <2>2
<1>5. \A c \in InLoop : c.fd = NoFd /\ c.op # "write"
  BY DEF InLoop, AtEpollWait, HandlingEvents
<1> QED
  BY <1>1, <1>2, <1>3, <1>4, <1>5 DEF Uses

\* An event is handled: the one coroutine in its descriptor's queue leaves it, and
\* runs if its mask lets the event through.
LEMMA EventEffect ==
  ASSUME IoInv, phase # "stopped", NEW ev \in batch, HandleEvent(ev)
  PROVE  \E tsk \in Slots :
         /\ Holds(ev.fd, tsk) /\ ev.fd \in Fds /\ First(ev.fd) = tsk
         /\ phase = "run" /\ call[current] = HandlingEvents /\ current \in Slots
         /\ UNCHANGED <<current, joining, phase, events, fds, call, interest, ready>>
         /\ \A i \in Slots : Uses(i)' = Uses(i)
         /\ batch' = batch \ {ev}
         /\ \A g \in Fds : g # ev.fd => First(g)' = First(g)
         /\ \A i \in Slots : i # tsk => status'[i] = status[i] /\ revents'[i] = revents[i]
         /\ IF events[tsk][ev.fd].events \cap ev.events # {}
            THEN status'[tsk] = "RUNNING" /\ revents'[tsk][ev.fd] = ev.events
            ELSE status'[tsk] = status[tsk] /\ revents'[tsk] = revents[tsk]
<1> DEFINE tsk == Queue!TAILQ_FIRST(block_queue, ev.fd)
<1>1. /\ ev.fd \in Fds /\ status \in [Slots -> Statuses \cup {Free}]
      /\ revents \in [Slots -> [Fds -> SUBSET Events]] /\ call \in [Slots -> Calls]
  BY DEF IoInv, IoTypeOK, TypeOK
<1>2. /\ phase = "run" /\ Queue!RemoveDefined(block_queue, tsk)
      /\ block_queue' = Queue!TAILQ_REMOVE(block_queue, ev.fd, tsk)
      /\ batch' = batch \ {ev}
      /\ UNCHANGED <<current, joining, phase, events, fds, call, interest, ready>>
      /\ IF events[tsk][ev.fd].events \cap ev.events # {}
         THEN /\ status' = [status EXCEPT ![tsk] = "RUNNING"]
              /\ revents' = [revents EXCEPT ![tsk][ev.fd] = ev.events]
         ELSE UNCHANGED <<status, revents>>
  BY DEF HandleEvent, Resumed, Dequeued
<1>3. tsk \in Slots /\ Holds(ev.fd, tsk) /\ First(ev.fd) = tsk
  BY <1>1, <1>2, FirstHeld DEF IoInv, First, Queue!TAILQ_FIRST
<1>4. call[current] = HandlingEvents /\ current \in Slots
  BY <1>2 DEF IoInv, BatchHandled, IoTypeOK, TypeOK
<1>5. block_queue'.ptr = [block_queue.ptr EXCEPT ![Queue!FirstCell(ev.fd)] = Queue!NIL]
  BY <1>1, <1>2, <1>3, UnlinkOnly DEF IoInv
<1>6. \A g \in Fds : g # ev.fd => First(g)' = First(g)
  BY <1>1, <1>5, Links DEF First, IoInv, OwnLinks, Queue!Queues
<1> HIDE DEF tsk
<1>7. /\ \A i \in Slots : i # tsk => status'[i] = status[i] /\ revents'[i] = revents[i]
      /\ IF events[tsk][ev.fd].events \cap ev.events # {}
         THEN status'[tsk] = "RUNNING" /\ revents'[tsk][ev.fd] = ev.events
         ELSE status'[tsk] = status[tsk] /\ revents'[tsk] = revents[tsk]
  <2>1. CASE events[tsk][ev.fd].events \cap ev.events # {}
    <3>1. /\ status' = [status EXCEPT ![tsk] = "RUNNING"]
          /\ revents' = [revents EXCEPT ![tsk] = [revents[tsk] EXCEPT ![ev.fd] = ev.events]]
      BY <1>2, <2>1
    <3> QED
      BY <1>1, <1>3, <2>1, <3>1
  <2>2. CASE ~(events[tsk][ev.fd].events \cap ev.events # {})
    BY <1>2, <2>2
  <2> QED
    BY <2>1, <2>2
<1>8. \A i \in Slots : Uses(i)' = Uses(i)
  BY <1>2 DEF Uses
<1> QED
  BY <1>1, <1>2, <1>3, <1>4, <1>6, <1>7, <1>8

\* A call that waits does so on a descriptor its coroutine lists.
LEMMA InCall ==
  ASSUME IoInv, NEW i \in Slots, call[i].fd # NoFd
  PROVE  /\ call[i].fd \in Fds /\ call[i].fd \in Uses(i) /\ fds[i] # <<>>
         /\ call[i].op \in {"read", "write", "accept"} /\ status[i] \in {"WAIT", "RUNNING"}
         /\ Fits(call[i].op, call[i].fd) /\ Uses(i) = {call[i].fd}
<1>1. call[i] \in Calls /\ call[i].fd \in Uses(i) /\ status[i] \in {"WAIT", "RUNNING"}
      /\ (call[i].op = "accept" <=> call[i].fd \in ListenFds)
  BY DEF IoInv, IoTypeOK, CallsOwn
<1>2. call[i].fd \in Fds /\ call[i].op \in {"read", "write", "accept"}
  BY <1>1 DEF Calls, InLoop, AtEpollWait, HandlingEvents, NoCall, Returning
<1>3. fds[i] # <<>>
  BY <1>1, UsesOf
<1>4. Uses(i) = {call[i].fd}
  BY <1>1, <1>3, UsesOf DEF IoInv, OneEach
<1> QED
  BY <1>1, <1>2, <1>3, <1>4 DEF Fits

-----------------------------------------------------------------------------
(***************************************************************************)
(* The system calls that end a wait do not block the thread.                *)
(***************************************************************************)

\* What epoll has reported stays true until the loop has handled it: only the
\* descriptor's own coroutine takes an event away, and it does not run meanwhile.
BatchReady == \A ev \in batch : ev.events \subseteq ready[ev.fd]

\* One coroutine's conjunct of SyscallReady.
ReadyFor(i) ==
  LET ev == EventOf(call[i].op) IN
  call[i].fd # NoFd /\ ev \in revents[i][call[i].fd] => ev \in ready[call[i].fd]

LEMMA StepReady ==
  ASSUME IoInv, OwnDescriptors, "hangup" \notin Habits, phase # "stopped", IoNext, ~Stops,
         SyscallReady, BatchReady
  PROVE  SyscallReady' /\ BatchReady'
<1>0. /\ \A i \in Slots : ReadyFor(i)
      /\ batch \subseteq [fd : Fds, events : SUBSET Events] /\ ready \in [Fds -> SUBSET Kinds]
  BY DEF SyscallReady, ReadyFor, IoInv, IoTypeOK
<1> SUFFICES (\A i \in Slots : ReadyFor(i)') /\ BatchReady'
  BY DEF SyscallReady, ReadyFor
<1>1. CASE Aside
  BY <1>0, <1>1, AsideEffect, InCall DEF ReadyFor, BatchReady
<1>2. CASE Peers
  <2>1. UNCHANGED <<call, revents, batch>> /\ \A fd \in Fds : ready[fd] \subseteq ready'[fd]
    BY <1>0, <1>2 DEF Peers, Arrive, Drain, HangUp
  <2> QED
    BY <1>0, <2>1, InCall DEF ReadyFor, BatchReady
<1>3. ASSUME NEW op, NEW fd \in Fds, Fits(op, fd), StartWait(op, fd) \/ WaitFails(op, fd)
      PROVE  (\A i \in Slots : ReadyFor(i)') /\ BatchReady'
  <2>1. /\ UNCHANGED <<batch, ready>> /\ call[current].fd = NoFd
        /\ EventOf(op) \notin revents'[current][fd]
        /\ \A i \in Slots : i # current => call'[i] = call[i] /\ revents'[i] = revents[i]
    BY <1>3, WaitEffect
  <2>2. call'[current].fd = NoFd \/ (call'[current].fd = fd /\ call'[current].op = op)
    BY <1>3, <2>1, StartWaitEffect, WaitFailsEffect
  <2> QED
    BY <1>0, <2>1, <2>2 DEF ReadyFor, BatchReady
<1>4. CASE finish
  BY <1>0, <1>4, FinishEffect, FdIsNat DEF ReadyFor, BatchReady
<1>5. CASE WaitAgain
  BY <1>0, <1>5, WaitAgainEffect DEF ReadyFor, BatchReady, iovars
<1>6. CASE return_read \/ return_write
  <2>1. \A i \in Slots : i # current /\ call[i].fd # NoFd => call[i].fd # call[current].fd
    BY <1>6, ResumedEffect, InCall
  <2> QED
    BY <1>0, <1>6, <2>1, ResumedEffect, ReturnEffect, InCall, FdIsNat DEF ReadyFor, BatchReady
<1>7. CASE StartLoop \/ EpollWait \/ EventsHandled
  <2>1. \A i \in Slots : ReadyFor(i)'
    BY <1>0, <1>7, LoopEffect DEF ReadyFor
  <2>2. ASSUME EpollWait PROVE BatchReady'
    BY <1>0, <2>2 DEF EpollWait, Reported, BatchReady, Reportable
  <2>3. ASSUME StartLoop \/ EventsHandled PROVE BatchReady'
    BY <2>3 DEF StartLoop, EventsHandled, BatchReady
  <2> QED
    BY <1>7, <2>1, <2>2, <2>3
<1>8. ASSUME NEW ev \in batch, HandleEvent(ev)
      PROVE  (\A i \in Slots : ReadyFor(i)') /\ BatchReady'
  BY <1>0, <1>8, EventEffect DEF Holds, ReadyFor, BatchReady
<1>9. ASSUME NEW fd \in Fds, close(fd)
      PROVE  (\A i \in Slots : ReadyFor(i)') /\ BatchReady'
  <2>1. \A i \in Slots : i # current /\ call[i].fd # NoFd => call[i].fd # fd
    BY <1>9, CloseEffect, InCall DEF IoInv, OneEach
  <2>2. /\ current \in Slots /\ call'[current].fd = NoFd /\ batch' = {} /\ revents' = revents
        /\ \A i \in Slots : i # current => call'[i] = call[i]
        /\ \A g \in Fds : g # fd => ready'[g] = ready[g]
    BY <1>9, CloseEffect, FdIsNat
  <2>3. ASSUME NEW i \in Slots, i # current, call[i].fd # NoFd
        PROVE  call'[i] = call[i] /\ ready'[call[i].fd] = ready[call[i].fd]
    BY <2>1, <2>2, <2>3, InCall
  <2>4. \A i \in Slots : ReadyFor(i)'
    BY <1>0, <2>2, <2>3 DEF ReadyFor
  <2> QED
    BY <2>2, <2>4 DEF BatchReady
<1> QED
  BY <1>1, <1>2, <1>3, <1>4, <1>5, <1>6, <1>7, <1>8, <1>9, StepKinds

LEMMA InitReady == IoInit => SyscallReady /\ BatchReady
BY FdIsNat DEF IoInit, SyscallReady, BatchReady

LEMMA NextReady ==
  /\ OwnDescriptors /\ "hangup" \notin Habits
  /\ IoInv /\ SyscallReady /\ BatchReady /\ [IoNext]_allvars
  => (SyscallReady /\ BatchReady)'
<1> SUFFICES ASSUME OwnDescriptors, "hangup" \notin Habits,
                    IoInv, SyscallReady, BatchReady, [IoNext]_allvars
             PROVE  SyscallReady' /\ BatchReady'
  OBVIOUS
<1>1. CASE Frozen
  BY <1>1 DEF Frozen, iovars, SyscallReady, BatchReady
<1> QED
  BY <1>1, FrozenOrStep, StepReady

\* read(), write() and accept() find what the coroutine was woken for, unless a
\* pipe's writer hangs up: also when the program closes descriptors and reuses
\* them, leaves them alone for a while, runs several event loops or writes first.
THEOREM SystemCallsReady ==
  OwnDescriptors /\ "hangup" \notin Habits => (IoSpec => []SyscallReady)
<1> SUFFICES ASSUME OwnDescriptors, "hangup" \notin Habits PROVE IoSpec => []SyscallReady
  OBVIOUS
<1>1. IoInv /\ SyscallReady /\ BatchReady /\ [IoNext]_allvars => (SyscallReady /\ BatchReady)'
  BY NextReady
<1> QED
  BY <1>1, InitReady, IoInvariance, PTL DEF IoSpec

-----------------------------------------------------------------------------
(***************************************************************************)
(* Blocking calls on coroutines are still cooperative threads.              *)
(***************************************************************************)

\* Where epoll_ctl cannot fail: the program waits on sockets and pipes, and
\* returns once it has closed its own.
CtlSucceeds == OwnDescriptors /\ "files" \notin Habits /\ "reuse" \notin Habits

NoFiles == \A fd \in Fds : "FILE" \notin ready[fd]

\* epoll watches only what a coroutine lists ...
Owned == \A fd \in Fds : interest[fd] # {} => \E i \in Slots : fd \in Uses(i)

\* ... and all of that, until it is closed; the mask never loses EPOLLIN.
Registered ==
  \A i \in Slots : \A fd \in Uses(i) \cap Fds :
    call[i] # Returning => interest[fd] # {} /\ "IN" \in events[i][fd].events

\* A coroutine is blocked inside a call, not on its way out of one.
WaitsInCall == \A i \in Slots : status[i] = "WAIT" => call[i].fd # NoFd

RegInv == NoFiles /\ Owned /\ Registered /\ WaitsInCall

\* So epoll_ctl succeeds.
LEMMA NeverFails ==
  ASSUME IoInv, RegInv, OwnDescriptors, phase # "stopped", NEW fd \in Fds, NEW op, Fits(op, fd),
         WaitFails(op, fd)
  PROVE  FALSE
<1>1. /\ current \in Slots /\ call[current] = NoCall
      /\ \A i \in Slots : i # current => fd \notin Uses(i)
  BY WaitEffect
<1>2. call[current] # Returning
  BY <1>1 DEF NoCall, Returning
<1> QED
  BY <1>1, <1>2, WaitFailsEffect DEF RegInv, NoFiles, Owned, Registered

LEMMA StepNoFiles ==
  ASSUME IoInv, OwnDescriptors, phase # "stopped", IoNext, ~Stops, NoFiles
  PROVE  NoFiles'
<1>1. CASE Peers
  BY <1>1 DEF Peers, Arrive, Drain, HangUp, NoFiles, IoInv, IoTypeOK
<1>2. ASSUME NEW fd \in Fds, close(fd) PROVE NoFiles'
  BY <1>2, CloseEffect DEF NoFiles, Fresh
<1>3. CASE return_read \/ return_write
  BY <1>3, ReturnReadEffect, ReturnWriteEffect DEF NoFiles
<1>4. ASSUME ready' = ready PROVE NoFiles'
  BY <1>4 DEF NoFiles
<1> QED
  BY <1>1, <1>2, <1>3, <1>4, StepKinds, AsideEffect, WaitEffect, FinishEffect, WaitAgainEffect,
     LoopEffect, EventEffect DEF iovars

\* The registrations that nobody touches.
LEMMA RegistrationsKept ==
  ASSUME IoInv, Owned, Registered, interest' = interest,
         \A i \in Slots : Uses(i)' = Uses(i),
         \A i \in Slots : fds[i] # <<>> =>
           events'[i] = events[i] /\ (call'[i] # Returning => call[i] # Returning)
  PROVE  Owned' /\ Registered'
<1>1. \A i \in Slots : \A fd \in Uses(i) : fds[i] # <<>>
  BY UsesOf
<1> QED
  BY <1>1 DEF Owned, Registered

LEMMA StepRegistered ==
  ASSUME IoInv, RegInv, CtlSucceeds, phase # "stopped", IoNext, ~Stops
  PROVE  Owned' /\ Registered'
<1> USE DEF RegInv, CtlSucceeds
<1>1. CASE Aside
  BY <1>1, AsideEffect, RegistrationsKept
<1>2. CASE Peers
  BY <1>2, RegistrationsKept DEF Peers, Arrive, Drain, HangUp, Uses
<1>3. ASSUME NEW op, NEW fd \in Fds, Fits(op, fd), StartWait(op, fd) PROVE Owned' /\ Registered'
  <2>1. /\ call[current] = NoCall /\ current \in Slots /\ current' = current
        /\ \A i \in Slots : Uses(i)' = IF i = current THEN {fd} ELSE Uses(i)
        /\ Uses(current) \subseteq {fd} /\ \A i \in Slots : i # current => fd \notin Uses(i)
        /\ FirstTime(current, fd) <=> fd \notin Uses(current)
        /\ \A i \in Slots : i # current => call'[i] = call[i] /\ events'[i] = events[i]
        /\ events'[current][fd].events = Noted(current, fd, EventOf(op)).events
    BY <1>3, WaitEffect
  <2>2. /\ interest'[fd] = Watched(current, fd, EventOf(op))
        /\ \A g \in Fds : g # fd => interest'[g] = interest[g]
    BY <1>3, StartWaitEffect
  <2>3. call[current] # Returning
    BY <2>1 DEF NoCall, Returning
  <2>4. fd \in Uses(current) => interest[fd] # {} /\ "IN" \in events[current][fd].events
    BY <2>1, <2>3 DEF Registered
  <2>5. interest'[fd] # {}
    BY <2>1, <2>2, <2>4 DEF Watched
  <2>6. "IN" \in Noted(current, fd, EventOf(op)).events
    <3>1. events[current][fd] \in [fd : Fds \cup {0}, events : SUBSET Events]
      BY <2>1 DEF IoInv, IoTypeOK
    <3> QED
      BY <2>1, <2>4, <3>1 DEF Noted
  <2> QED
    BY <2>1, <2>2, <2>5, <2>6 DEF Owned, Registered
<1>4. CASE finish
  <2>1. /\ current \in Slots /\ events' = events
        /\ \A i \in Slots : Uses(i)' = IF i = current THEN {} ELSE Uses(i)
        /\ \A i \in Slots : i # current => call'[i] = call[i]
        /\ \A fd \in Fds : interest'[fd] = IF fd \in Uses(current) THEN {} ELSE interest[fd]
    BY <1>4, FinishEffect
  <2>2. Owned'
    BY <2>1 DEF Owned
  <2>3. \A i \in Slots : i # current => Uses(i) \cap Uses(current) = {}
    BY <2>1 DEF IoInv, OneEach
  <2>4. Registered'
    BY <2>1, <2>3 DEF Registered
  <2> QED
    BY <2>2, <2>4
<1>5. CASE WaitAgain
  BY <1>5, WaitAgainEffect, RegistrationsKept DEF iovars, Uses
<1>6. CASE return_read
  <2>1. call[current] # Returning
    BY <1>6, ReturnReadEffect DEF Returning
  <2> QED
    BY <1>6, <2>1, ReturnReadEffect, ReturnEffect, ResumedEffect, RegistrationsKept
<1>7. CASE return_write
  <2>1. PICK fd : fd = call[current].fd
    OBVIOUS
  <2>2. /\ call[current].op = "write" /\ fd \in Fds
        /\ events'[current][fd].events = events[current][fd].events \ {"OUT"}
        /\ interest'[fd] = IF interest[fd] = {} THEN {} ELSE events[current][fd].events \ {"OUT"}
    BY <1>7, <2>1, ReturnWriteEffect
  <2>3. /\ current \in Slots /\ fd \in Uses(current) /\ current' = current
        /\ \A i \in Slots : Uses(i)' = Uses(i)
        /\ \A i \in Slots : i # current => fd \notin Uses(i)
    BY <1>7, <2>1, ResumedEffect
  <2>4. /\ \A i \in Slots : i # current => call'[i] = call[i] /\ events'[i] = events[i]
        /\ \A g \in Fds : g # fd => interest'[g] = interest[g]
    BY <1>7, <2>1, ReturnEffect
  <2>5. call[current] # Returning /\ Uses(current) = {fd}
    BY <2>1, <2>2, <2>3, InCall, FdIsNat DEF Returning
  <2>6. interest[fd] # {} /\ "IN" \in events[current][fd].events
    BY <2>2, <2>3, <2>5 DEF Registered
  <2>7. interest'[fd] # {} /\ "IN" \in events'[current][fd].events
    BY <2>2, <2>6
  <2>8. Owned'
    BY <2>3, <2>4, <2>6 DEF Owned
  <2>9. ASSUME NEW i \in Slots, NEW g \in Uses(i) \cap Fds, call'[i] # Returning
        PROVE  interest'[g] # {} /\ "IN" \in events'[i][g].events
    <3>1. CASE i = current
      BY <2>5, <2>7, <2>9, <3>1
    <3>2. CASE i # current
      BY <2>3, <2>4, <2>9, <3>2 DEF Registered
    <3> QED
      BY <3>1, <3>2
  <2> QED
    BY <2>3, <2>8, <2>9 DEF Registered
<1>8. CASE StartLoop \/ EpollWait \/ EventsHandled
  BY <1>8, LoopEffect, RegistrationsKept
<1>9. ASSUME NEW ev \in batch, HandleEvent(ev) PROVE Owned' /\ Registered'
  BY <1>9, EventEffect, RegistrationsKept
<1>10. ASSUME NEW fd \in Fds, close(fd) PROVE Owned' /\ Registered'
  <2>1. /\ current \in Slots /\ fd \in Uses(current) /\ call'[current] = Returning
        /\ call[current] # Returning /\ UNCHANGED <<current, events>>
        /\ \A i \in Slots : Uses(i)' = Uses(i)
        /\ \A i \in Slots : i # current => call'[i] = call[i]
        /\ interest'[fd] = {} /\ \A g \in Fds : g # fd => interest'[g] = interest[g]
    BY <1>10, CloseEffect DEF NoCall, Returning
  <2>2. \A i \in Slots : i # current => fd \notin Uses(i)
    BY <2>1 DEF IoInv, OneEach
  <2> QED
    BY <2>1, <2>2 DEF Owned, Registered
<1> QED
  BY <1>1, <1>2, <1>3, <1>4, <1>5, <1>6, <1>7, <1>8, <1>9, <1>10, StepKinds, NeverFails

LEMMA StepWaitsInCall ==
  ASSUME IoInv, RegInv, CtlSucceeds, phase # "stopped", IoNext, ~Stops
  PROVE  WaitsInCall'
<1> USE DEF RegInv, CtlSucceeds
<1>1. CASE Aside
  BY <1>1, AsideEffect DEF WaitsInCall
<1>2. CASE Peers
  BY <1>2 DEF Peers, Arrive, Drain, HangUp, WaitsInCall, vars
<1>3. ASSUME NEW op, NEW fd \in Fds, Fits(op, fd), StartWait(op, fd) PROVE WaitsInCall'
  BY <1>3, WaitEffect, StartWaitEffect, FdIsNat DEF WaitsInCall
<1>4. CASE finish
  BY <1>4, FinishEffect DEF WaitsInCall
<1>5. CASE WaitAgain
  BY <1>5, WaitAgainEffect, ResumedEffect DEF WaitsInCall, iovars, IoInv, IoTypeOK, TypeOK
<1>6. CASE return_read \/ return_write
  BY <1>6, ReturnEffect, ResumedEffect DEF WaitsInCall
<1>7. CASE StartLoop \/ EpollWait \/ EventsHandled
  BY <1>7, LoopEffect DEF WaitsInCall
<1>8. ASSUME NEW ev \in batch, HandleEvent(ev) PROVE WaitsInCall'
  BY <1>8, EventEffect DEF WaitsInCall
<1>9. ASSUME NEW fd \in Fds, close(fd) PROVE WaitsInCall'
  BY <1>9, CloseEffect DEF WaitsInCall
<1> QED
  BY <1>1, <1>2, <1>3, <1>4, <1>5, <1>6, <1>7, <1>8, <1>9, StepKinds, NeverFails

\* The scheduler's own invariant, while the process runs.
SchedInv == phase # "stopped" => IInv

\* The steps that are steps of module Sched.
LEMMA SchedSteps ==
  ASSUME phase # "stopped", (Aside /\ ~EpollTimeout) \/ finish
  PROVE  Next
BY DEF Aside, create, join, sleep, reap, Scheduler, finish, Next

\* The other steps: who joins is in no other call, and stays runnable.
LEMMA OtherSteps ==
  ASSUME IInv, TypeOK', joining' = joining,
         \A i \in Slots : status'[i] # status[i] => joining[i] = NoCid /\ status'[i] # Free,
         phase' = "run" => phase = "run" /\ current' = current /\ status'[current] = "RUNNING"
  PROVE  IInv'
BY DEF IInv, JoinersPoll, JoinersDiffer, RunsOnLiveStack, TypeOK

LEMMA StepSchedInv ==
  ASSUME IoInv, RegInv, CtlSucceeds, IInv, phase # "stopped", IoNext, ~Stops
  PROVE  SchedInv'
<1> SUFFICES ASSUME phase' # "stopped" PROVE IInv'
  BY DEF SchedInv
<1>a. TypeOK' /\ current \in Slots /\ (phase = "run" => status[current] = "RUNNING")
  BY NextIoInv DEF CtlSucceeds, IoInv, IoTypeOK, IInv, RunsOnLiveStack, TypeOK
<1>1. CASE (Aside /\ ~EpollTimeout) \/ finish
  BY <1>1, SchedSteps, NextIInv
<1>2. CASE EpollTimeout
  BY <1>2, <1>a, OtherSteps DEF EpollTimeout, schedule
<1>3. CASE Peers
  BY <1>3, <1>a, OtherSteps DEF Peers, Arrive, Drain, HangUp, vars
<1>4. ASSUME NEW op, NEW fd \in Fds, Fits(op, fd), StartWait(op, fd) PROVE IInv'
  BY <1>4, <1>a, WaitEffect, StartWaitEffect, OtherSteps DEF CtlSucceeds
<1>5. CASE WaitAgain
  <2>1. \A i \in Slots : status'[i] # status[i] => joining[i] = NoCid /\ status'[i] # Free
    BY <1>5, WaitAgainEffect, ResumedEffect DEF IInv, TypeOK
  <2> QED
    BY <1>5, <1>a, <2>1, WaitAgainEffect, ResumedEffect, OtherSteps
<1>6. CASE return_read \/ return_write
  BY <1>6, <1>a, ReturnEffect, OtherSteps
<1>7. CASE StartLoop \/ EpollWait \/ EventsHandled
  <2>1. phase' \in {"run", "wake"} /\ phase = "run" /\ UNCHANGED <<status, current, joining>>
    BY <1>7, <1>a, LoopEffect DEF TypeOK
  <2> QED
    BY <1>a, <2>1, OtherSteps
<1>8. ASSUME NEW ev \in batch, HandleEvent(ev) PROVE IInv'
  <2>1. PICK tsk \in Slots :
          /\ Holds(ev.fd, tsk) /\ ev.fd \in Fds
          /\ UNCHANGED <<current, joining, phase>> /\ phase = "run"
          /\ \A i \in Slots : i # tsk => status'[i] = status[i]
          /\ status'[tsk] \in {"RUNNING", status[tsk]}
    BY <1>8, EventEffect
  <2>2. status[tsk] = "WAIT" /\ joining[tsk] = NoCid
    BY <2>1, FdIsNat DEF Holds, IoInv, CallsOwn, NoCall
  <2>3. \A i \in Slots : status'[i] # status[i] => joining[i] = NoCid /\ status'[i] # Free
    BY <2>1, <2>2
  <2>4. status'[current] = "RUNNING"
    BY <1>a, <2>1, <2>2
  <2> QED
    BY <1>a, <2>1, <2>3, <2>4, OtherSteps
<1>9. ASSUME NEW fd \in Fds, close(fd) PROVE IInv'
  BY <1>9, <1>a, CloseEffect, OtherSteps
<1> QED
  BY <1>1, <1>2, <1>3, <1>4, <1>5, <1>6, <1>7, <1>8, <1>9, StepKinds, NeverFails DEF CtlSucceeds

\* The invariants of programs whose registrations succeed.
LEMMA InitRegInv ==
  ASSUME CtlSucceeds, IoInit
  PROVE  RegInv /\ SchedInv
<1>1. NoFiles
  BY DEF IoInit, NoFiles, CtlSucceeds, Fresh
<1>2. Owned /\ Registered /\ WaitsInCall
  BY UsesOf DEF IoInit, Init, Owned, Registered, WaitsInCall
<1>3. SchedInv
  BY InitIInv DEF IoInit, SchedInv
<1> QED
  BY <1>1, <1>2, <1>3 DEF RegInv

LEMMA NextRegInv ==
  ASSUME CtlSucceeds, IoInv, RegInv, SchedInv, [IoNext]_allvars
  PROVE  RegInv' /\ SchedInv'
<1>0. OwnDescriptors
  BY DEF CtlSucceeds
<1>1. CASE Frozen
  <2>1. RegInv'
    BY <1>1 DEF Frozen, iovars, RegInv, NoFiles, Owned, Registered, WaitsInCall, Uses
  <2>2. SchedInv'
    <3>1. CASE phase' = "stopped"
      BY <3>1 DEF SchedInv
    <3>2. CASE phase' # "stopped" /\ IoNext
      <4>1. TypeOK'
        BY <1>0, <3>2, NextIoInv DEF IoInv, IoTypeOK
      <4> QED
        BY <1>1, <3>2, <4>1, OtherSteps DEF Frozen, SchedInv, IInv, RunsOnLiveStack
    <3>3. CASE UNCHANGED allvars
      BY <3>3 DEF allvars, vars, SchedInv, IInv, TypeOK, JoinersPoll, JoinersDiffer, RunsOnLiveStack
    <3> QED
      BY <3>1, <3>2, <3>3
  <2> QED
    BY <2>1, <2>2
<1>2. CASE phase # "stopped" /\ IoNext /\ ~Stops
  <2>1. NoFiles'
    BY <1>0, <1>2, StepNoFiles DEF RegInv
  <2> QED
    BY <1>2, <2>1, StepRegistered, StepWaitsInCall, StepSchedInv DEF RegInv, SchedInv
<1> QED
  BY <1>1, <1>2, FrozenOrStep

LEMMA RegInvariance == CtlSucceeds => (IoSpec => [](IoInv /\ RegInv /\ SchedInv))
<1> SUFFICES ASSUME CtlSucceeds PROVE IoSpec => [](IoInv /\ RegInv /\ SchedInv)
  OBVIOUS
<1>0. OwnDescriptors
  BY DEF CtlSucceeds
<1>1. IoInit => RegInv /\ SchedInv
  BY InitRegInv
<1>2. IoInv /\ RegInv /\ SchedInv /\ [IoNext]_allvars => (RegInv /\ SchedInv)'
  BY NextRegInv
<1> QED
  BY <1>0, <1>1, <1>2, IoInvariance, PTL DEF IoSpec

\* A step of the library, the program or the kernel is one of Coop, or none.
LEMMA StepCoop ==
  ASSUME IoInv, RegInv, CtlSucceeds, IInv, phase # "stopped", IoNext, ~Stops
  PROVE  [Abstract!CNext]_(Abstract!cvars)
<1>a. /\ current \in Slots /\ status \in [Slots -> Statuses \cup {Free}] /\ OwnDescriptors
      /\ (phase = "run" => status[current] = "RUNNING")
  BY DEF IInv, TypeOK, RunsOnLiveStack, CtlSucceeds
<1>b. AbsState' = [i \in Slots |-> CASE status'[i] = Free -> "none"
                                     [] status'[i] = "RUNNING" -> "ready"
                                     [] status'[i] = "EXIT" -> "done"
                                     [] OTHER -> "asleep"]
  BY DEF AbsState
<1>1. CASE (Aside /\ ~EpollTimeout) \/ finish
  BY <1>1, SchedSteps, NextRefines
<1>2. ASSUME UNCHANGED <<status, phase, current>> PROVE UNCHANGED Abstract!cvars
  BY <1>2 DEF Abstract!cvars, AbsState, AbsCpu
<1>3. ASSUME phase = "run", phase' = "wake", status' = status PROVE Abstract!CNext
  <2>1. AbsState' = [AbsState EXCEPT ![current] = "ready"]
    BY <1>3, <1>a DEF AbsState
  <2>2. Abstract!Release(current, "ready")
    BY <1>3, <2>1 DEF Abstract!Release, AbsCpu
  <2> QED
    BY <1>a, <2>2 DEF Abstract!CNext
<1>4. ASSUME phase = "run", phase' = "wake", status'[current] = "WAIT",
             \A i \in Slots : i # current => status'[i] = status[i]
      PROVE  Abstract!CNext
  <2>1. AbsState' = [AbsState EXCEPT ![current] = "asleep"]
    BY <1>4, <1>a, <1>b DEF AbsState
  <2>2. Abstract!Release(current, "asleep")
    BY <1>4, <2>1 DEF Abstract!Release, AbsCpu
  <2> QED
    BY <1>a, <2>2 DEF Abstract!CNext
<1>5. ASSUME NEW op, NEW fd \in Fds, Fits(op, fd), StartWait(op, fd) PROVE Abstract!CNext
  BY <1>5, <1>4, <1>a, WaitEffect, StartWaitEffect
<1>6. CASE WaitAgain
  <2>1. status' = [status EXCEPT ![current] = "WAIT"] /\ phase = "run" /\ phase' = "wake"
    BY <1>6, WaitAgainEffect, ResumedEffect
  <2> QED
    BY <1>4, <1>a, <2>1
<1>7. CASE EpollTimeout \/ EventsHandled
  BY <1>7, <1>3 DEF EpollTimeout, EventsHandled, Resumed, schedule
<1>8. CASE Peers \/ return_read \/ return_write \/ StartLoop \/ EpollWait \/ \E fd \in Fds : close(fd)
  BY <1>8, <1>2 DEF Peers, Arrive, Drain, HangUp, return_read, return_write, StartLoop, EpollWait,
     close, vars
<1>9. ASSUME NEW ev \in batch, HandleEvent(ev) PROVE [Abstract!CNext]_(Abstract!cvars)
  <2>1. PICK tsk \in Slots :
          /\ status[tsk] = "WAIT" /\ UNCHANGED <<current, phase>>
          /\ \A i \in Slots : i # tsk => status'[i] = status[i]
          /\ status'[tsk] \in {"RUNNING", status[tsk]}
    BY <1>9, EventEffect DEF Holds
  <2>2. CASE status'[tsk] = status[tsk]
    <3>1. AbsState' = AbsState
      BY <1>b, <2>1, <2>2 DEF AbsState
    <3> QED
      BY <2>1, <3>1 DEF Abstract!cvars, AbsCpu
  <2>3. CASE status'[tsk] = "RUNNING"
    <3>1. AbsState[tsk] = "asleep" /\ AbsState' = [AbsState EXCEPT ![tsk] = "ready"]
      BY <1>b, <2>1, <2>3 DEF AbsState
    <3>2. Abstract!Wake(tsk)
      BY <2>1, <3>1 DEF Abstract!Wake, AbsCpu
    <3> QED
      BY <3>2 DEF Abstract!CNext
  <2> QED
    BY <2>1, <2>2, <2>3
<1> QED
  BY <1>1, <1>5, <1>6, <1>7, <1>8, <1>9, <1>a, StepKinds, NeverFails

\* co_read, co_write, co_accept and the event loop, with any number of peers and
\* also when the process exits or is stopped by a bad pointer, implement the
\* cooperative threads of Coop: a blocked coroutine is one that sleeps.
THEOREM BlockingRefinement == CtlSucceeds => (IoSpec => ImplementsCoop)
<1> SUFFICES ASSUME CtlSucceeds PROVE IoSpec => ImplementsCoop
  OBVIOUS
<1>1. IoInit => Abstract!CInit
  BY InitRefines DEF IoInit
<1>2. IoInv /\ RegInv /\ SchedInv /\ [IoNext]_allvars => [Abstract!CNext]_(Abstract!cvars)
  <2> SUFFICES ASSUME IoInv, RegInv, SchedInv, [IoNext]_allvars
               PROVE  [Abstract!CNext]_(Abstract!cvars)
    OBVIOUS
  <2>1. CASE Frozen
    <3>1. AbsState' = AbsState
      BY <2>1 DEF Frozen, AbsState
    <3>2. CASE phase' = phase \/ phase # "run"
      BY <2>1, <3>1, <3>2 DEF Frozen, AbsCpu, Abstract!cvars
    <3>3. CASE phase = "run" /\ phase' = "stopped"
      <4>1. current \in Slots /\ status[current] = "RUNNING"
        BY <3>3 DEF SchedInv, IInv, TypeOK, RunsOnLiveStack
      <4>2. AbsState' = [AbsState EXCEPT ![current] = "ready"]
        BY <3>1, <4>1 DEF AbsState
      <4>3. Abstract!Release(current, "ready")
        BY <3>3, <4>2 DEF Abstract!Release, AbsCpu
      <4> QED
        BY <4>1, <4>3 DEF Abstract!CNext
    <3> QED
      BY <2>1, <3>2, <3>3 DEF Frozen
  <2>2. CASE phase # "stopped" /\ IoNext /\ ~Stops
    BY <2>2, StepCoop DEF SchedInv
  <2> QED
    BY <2>1, <2>2, FrozenOrStep
<1> QED
  BY <1>1, <1>2, RegInvariance, PTL DEF IoSpec, ImplementsCoop, Abstract!CSpec

-----------------------------------------------------------------------------
(***************************************************************************)
(* The registrations: epoll and the task's own mask agree.                  *)
(***************************************************************************)

\* A coroutine that reads before it writes waits for input, and for output only
\* inside co_write.
Mask(i) == IF call[i].op = "write" THEN {"IN", "OUT"} ELSE {"IN"}

\* What epoll watches, somebody lists, with the same mask in its events.
Masks ==
  \A i \in Slots : \A fd \in Uses(i) \cap Fds :
    interest[fd] # {} => interest[fd] = Mask(i) /\ events[i][fd].events = Mask(i)

Watching == Owned /\ Masks

\* The masks that nobody touches.
LEMMA MasksKept ==
  ASSUME IoInv, Watching, interest' = interest,
         \A i \in Slots : Uses(i)' = Uses(i),
         \A i \in Slots : fds[i] # <<>> =>
           events'[i] = events[i] /\ (call'[i].op = "write" <=> call[i].op = "write")
  PROVE  Watching'
<1>1. \A i \in Slots : \A fd \in Uses(i) : fds[i] # <<>>
  BY UsesOf
<1>2. \A i \in Slots : fds[i] # <<>> => Mask(i)' = Mask(i)
  BY DEF Mask
<1> QED
  BY <1>1, <1>2 DEF Watching, Owned, Masks

\* A step of current for its descriptor fd, which no other coroutine lists.
LEMMA MasksOfOne ==
  ASSUME IoInv, Watching, current \in Slots, NEW fd \in Fds,
         \A i \in Slots : Uses(i)' = IF i = current THEN {fd} ELSE Uses(i),
         Uses(current) \subseteq {fd}, \A i \in Slots : i # current => fd \notin Uses(i),
         \A i \in Slots : i # current => events'[i] = events[i] /\ call'[i] = call[i],
         \A g \in Fds : g # fd => interest'[g] = interest[g],
         NEW mask, mask = IF call'[current].op = "write" THEN {"IN", "OUT"} ELSE {"IN"},
         interest'[fd] # {} => interest'[fd] = mask /\ events'[current][fd].events = mask
  PROVE  Watching'
<1>1. Owned'
  BY DEF Watching, Owned
<1>2. ASSUME NEW i \in Slots, NEW g \in Uses(i)' \cap Fds, interest'[g] # {}
      PROVE  interest'[g] = Mask(i)' /\ events'[i][g].events = Mask(i)'
  <2>1. CASE i = current
    BY <1>2, <2>1 DEF Mask
  <2>2. CASE i # current
    BY <1>2, <2>2 DEF Mask, Watching, Masks
  <2> QED
    BY <2>1, <2>2
<1> QED
  BY <1>1, <1>2 DEF Watching, Masks

LEMMA StepWatching ==
  ASSUME IoInv, OwnDescriptors, "write_first" \notin Habits, Watching,
         phase # "stopped", IoNext, ~Stops
  PROVE  Watching'
<1>1. CASE Aside
  BY <1>1, AsideEffect, MasksKept
<1>2. CASE Peers
  BY <1>2, MasksKept DEF Peers, Arrive, Drain, HangUp, Uses
<1>3. ASSUME NEW op, NEW fd \in Fds, Fits(op, fd), StartWait(op, fd) \/ WaitFails(op, fd)
      PROVE  Watching'
  <2>1. /\ call[current] = NoCall /\ current \in Slots
        /\ \A i \in Slots : Uses(i)' = IF i = current THEN {fd} ELSE Uses(i)
        /\ Uses(current) \subseteq {fd} /\ \A i \in Slots : i # current => fd \notin Uses(i)
        /\ FirstTime(current, fd) <=> fd \notin Uses(current)
        /\ \A i \in Slots : i # current => call'[i] = call[i] /\ events'[i] = events[i]
        /\ events'[current][fd].events = Noted(current, fd, EventOf(op)).events
    BY <1>3, WaitEffect
  <2>2. op = "write" => fd \in Uses(current)
    BY <1>3 DEF StartWait, WaitFails, MayWait
  <2>3. fd \notin Uses(current) => interest[fd] = {}
    BY <2>1 DEF Watching, Owned
  <2>4. fd \in Uses(current) /\ interest[fd] # {} =>
          interest[fd] = {"IN"} /\ events[current][fd].events = {"IN"}
    BY <2>1 DEF Watching, Masks, Mask, NoCall
  <2>5. CASE StartWait(op, fd)
    <3>1. /\ call'[current].op = op
          /\ interest'[fd] = Watched(current, fd, EventOf(op))
          /\ \A g \in Fds : g # fd => interest'[g] = interest[g]
      BY <1>3, <2>5, StartWaitEffect
    <3>2. ~CtlFails(current, fd, EventOf(op))
      BY <2>5 DEF StartWait
    <3>3. events[current][fd] \in [fd : Fds \cup {0}, events : SUBSET Events]
      BY <2>1 DEF IoInv, IoTypeOK
    <3> DEFINE mask == IF op = "write" THEN {"IN", "OUT"} ELSE {"IN"}
    <3>4. CASE fd \notin Uses(current)
      <4>1. Watched(current, fd, EventOf(op)) = {"IN"} /\ Noted(current, fd, EventOf(op)).events = {"IN"}
            /\ mask = {"IN"}
        BY <2>1, <2>2, <3>4 DEF Watched, Noted, EventOf
      <4> QED
        BY <2>1, <3>1, <4>1, MasksOfOne
    <3>5. CASE fd \in Uses(current) /\ interest[fd] # {}
      <4>1. CASE op = "write"
        <5>1. NeedsMod(current, fd, "OUT") /\ ~FirstTime(current, fd) /\ EventOf(op) = "OUT"
          BY <2>1, <2>4, <3>5, <4>1 DEF NeedsMod, EventOf
        <5>2. Watched(current, fd, "OUT") = {"IN", "OUT"}
          BY <2>4, <3>5, <5>1 DEF Watched
        <5>3. Noted(current, fd, "OUT").events = {"IN", "OUT"}
          BY <2>4, <3>3, <3>5, <5>1 DEF Noted
        <5>4. /\ mask = {"IN", "OUT"} /\ call'[current].op = "write"
              /\ interest'[fd] = mask /\ events'[current][fd].events = mask
          BY <2>1, <3>1, <4>1, <5>1, <5>2, <5>3
        <5> QED
          BY <2>1, <3>1, <5>4, MasksOfOne
      <4>2. CASE op # "write"
        <5>1. ~NeedsMod(current, fd, "IN") /\ ~FirstTime(current, fd) /\ EventOf(op) = "IN"
          BY <2>1, <2>4, <3>5, <4>2 DEF NeedsMod, EventOf
        <5>2. Watched(current, fd, "IN") = {"IN"} /\ Noted(current, fd, "IN").events = {"IN"}
          BY <2>4, <3>5, <5>1 DEF Watched, Noted
        <5>3. /\ mask = {"IN"} /\ call'[current].op # "write"
              /\ interest'[fd] = mask /\ events'[current][fd].events = mask
          BY <2>1, <3>1, <4>2, <5>1, <5>2
        <5> QED
          BY <2>1, <3>1, <5>3, MasksOfOne
      <4> QED
        BY <4>1, <4>2
    <3>6. CASE fd \in Uses(current) /\ interest[fd] = {}
      <4>1. Watched(current, fd, EventOf(op)) = {}
        BY <2>1, <3>2, <3>6 DEF CtlFails, Watched
      <4> QED
        BY <2>1, <3>1, <4>1, MasksOfOne
    <3> QED
      BY <3>4, <3>5, <3>6
  <2>6. CASE WaitFails(op, fd)
    <3>1. interest' = interest
      BY <2>6 DEF WaitFails
    <3>2. interest[fd] = {}
      BY <1>3, <2>3, <2>6, WaitFailsEffect
    <3> QED
      BY <2>1, <3>1, <3>2, MasksOfOne
  <2> QED
    BY <1>3, <2>5, <2>6
<1>4. CASE finish
  <2>1. /\ current \in Slots /\ events' = events
        /\ \A i \in Slots : Uses(i)' = IF i = current THEN {} ELSE Uses(i)
        /\ \A i \in Slots : i # current => call'[i] = call[i]
        /\ \A fd \in Fds : interest'[fd] = IF fd \in Uses(current) THEN {} ELSE interest[fd]
    BY <1>4, FinishEffect
  <2>2. Owned'
    BY <2>1 DEF Watching, Owned
  <2>3. Masks'
    BY <2>1 DEF Watching, Masks, Mask
  <2> QED
    BY <2>2, <2>3 DEF Watching
<1>5. CASE WaitAgain
  BY <1>5, WaitAgainEffect, MasksKept DEF iovars, Uses
<1>6. CASE return_read
  <2>1. call[current].op # "write" /\ NoCall.op # "write"
    BY <1>6, ReturnReadEffect DEF NoCall
  <2> QED
    BY <1>6, <2>1, ReturnReadEffect, ReturnEffect, ResumedEffect, MasksKept
<1>7. CASE return_write
  <2>1. PICK fd : fd = call[current].fd
    OBVIOUS
  <2>2. /\ call[current].op = "write" /\ fd \in Fds
        /\ events'[current][fd].events = events[current][fd].events \ {"OUT"}
        /\ interest'[fd] = IF interest[fd] = {} THEN {} ELSE events[current][fd].events \ {"OUT"}
    BY <1>7, <2>1, ReturnWriteEffect
  <2>3. /\ current \in Slots /\ fd \in Uses(current) /\ fd # NoFd
        /\ \A i \in Slots : Uses(i)' = Uses(i)
        /\ \A i \in Slots : i # current => fd \notin Uses(i)
    BY <1>7, <2>1, ResumedEffect
  <2>4. Uses(current) = {fd}
    BY <2>1, <2>3, InCall
  <2>5. /\ \A i \in Slots : i # current => call'[i] = call[i] /\ events'[i] = events[i]
        /\ \A g \in Fds : g # fd => interest'[g] = interest[g]
        /\ call'[current].op # "write"
    BY <1>7, <2>1, ReturnEffect DEF NoCall
  <2>6. interest[fd] # {} => events[current][fd].events = {"IN", "OUT"}
    BY <2>2, <2>3 DEF Watching, Masks, Mask
  <2>7. interest'[fd] # {} => interest'[fd] = {"IN"} /\ events'[current][fd].events = {"IN"}
    BY <2>2, <2>6
  <2> QED
    BY <2>2, <2>3, <2>4, <2>5, <2>7, MasksOfOne
<1>8. CASE StartLoop \/ EpollWait \/ EventsHandled
  BY <1>8, LoopEffect, MasksKept
<1>9. ASSUME NEW ev \in batch, HandleEvent(ev) PROVE Watching'
  BY <1>9, EventEffect, MasksKept
<1>10. ASSUME NEW fd \in Fds, close(fd) PROVE Watching'
  <2>1. /\ current \in Slots /\ fd \in Uses(current) /\ call[current] = NoCall
        /\ \A i \in Slots : Uses(i)' = Uses(i)
        /\ \A i \in Slots : i # current => call'[i] = call[i]
        /\ events' = events /\ fds' = fds
        /\ interest'[fd] = {} /\ \A g \in Fds : g # fd => interest'[g] = interest[g]
    BY <1>10, CloseEffect
  <2>2. Uses(current) \subseteq {fd} /\ \A i \in Slots : i # current => fd \notin Uses(i)
    BY <2>1, UsesOf DEF IoInv, OneEach
  <2> QED
    BY <2>1, <2>2, MasksOfOne
<1> QED
  BY <1>1, <1>2, <1>3, <1>4, <1>5, <1>6, <1>7, <1>8, <1>9, <1>10, StepKinds

LEMMA WatchingInvariance ==
  OwnDescriptors /\ "write_first" \notin Habits => (IoSpec => []Watching)
<1> SUFFICES ASSUME OwnDescriptors, "write_first" \notin Habits PROVE IoSpec => []Watching
  OBVIOUS
<1>1. IoInit => Watching
  BY DEF IoInit, Watching, Owned, Masks
<1>2. IoInv /\ Watching /\ [IoNext]_allvars => Watching'
  <2> SUFFICES ASSUME IoInv, Watching, [IoNext]_allvars PROVE Watching'
    OBVIOUS
  <2>1. CASE Frozen
    BY <2>1 DEF Frozen, iovars, Watching, Owned, Masks, Mask, Uses
  <2> QED
    BY <2>1, FrozenOrStep, StepWatching
<1> QED
  BY <1>1, <1>2, IoInvariance, PTL DEF IoSpec

\* No wake-up is lost: as long as a coroutine is blocked, epoll watches what it
\* waits for and its own mask lets the event through; also while coroutines
\* leave their descriptors alone, peers hang up or are slow, and several event
\* loops run.
THEOREM NoLostWakeup ==
  CtlSucceeds /\ "write_first" \notin Habits => (IoSpec => []RegisteredWhileBlocked)
<1> SUFFICES ASSUME CtlSucceeds, "write_first" \notin Habits
             PROVE  IoSpec => []RegisteredWhileBlocked
  OBVIOUS
<1>1. IoInv /\ RegInv /\ Watching => RegisteredWhileBlocked
  <2> SUFFICES ASSUME IoInv, RegInv, Watching, NEW i \in Slots, status[i] = "WAIT"
               PROVE  /\ EventOf(call[i].op) \in interest[call[i].fd]
                      /\ EventOf(call[i].op) \in events[i][call[i].fd].events
    BY DEF RegisteredWhileBlocked
  <2>1. /\ call[i].fd \in Uses(i) \cap Fds /\ call[i].op \in {"read", "write", "accept"}
        /\ call[i] # Returning
    BY InCall DEF RegInv, WaitsInCall, Returning
  <2>2. interest[call[i].fd] # {}
    BY <2>1 DEF RegInv, Registered
  <2>3. EventOf(call[i].op) \in Mask(i)
    BY <2>1 DEF Mask, EventOf
  <2> QED
    BY <2>1, <2>2, <2>3 DEF Watching, Masks
<1>2. OwnDescriptors
  BY DEF CtlSucceeds
<1> QED
  BY <1>1, <1>2, RegInvariance, WatchingInvariance, PTL

-----------------------------------------------------------------------------
(***************************************************************************)
(* The queues hold who is blocked.                                          *)
(***************************************************************************)

\* Programs that read first, and peers that read what is written to them and
\* do not close a pipe that is empty.
FastPeers ==
  /\ OwnDescriptors
  /\ "write_first" \notin Habits /\ "backpressure" \notin Habits /\ "hangup" \notin Habits

\* A connection can always be written to; a regular file is never registered.
PeersReady ==
  \A fd \in Fds :
    /\ "HUP" \notin ready[fd]
    /\ fd \notin ListenFds => "OUT" \in ready[fd] \/ "FILE" \in ready[fd]
    /\ "FILE" \in ready[fd] => interest[fd] = {}

\* The events of the batch are watched for, and a writer's is among them.
EventsWatched ==
  \A ev \in batch :
    /\ ev.events # {} /\ ev.events \subseteq interest[ev.fd]
    /\ "OUT" \in interest[ev.fd] => "OUT" \in ev.events

\* A coroutine that was woken inside a call was woken by what it waits for, so that
\* it does not wait again: it would, but in no queue.
WokenByIts ==
  \A i \in Slots : call[i].fd # NoFd /\ status[i] = "RUNNING" =>
    EventOf(call[i].op) \in revents[i][call[i].fd]

BlockedQueued ==
  \A i \in Slots : call[i].fd # NoFd /\ status[i] = "WAIT" => First(call[i].fd) = i

FastInv == Watching /\ PeersReady /\ EventsWatched /\ WokenByIts /\ BlockedQueued

\* The event that is handled is the one its coroutine waits for.
LEMMA EventFits ==
  ASSUME IoInv, Watching, EventsWatched, NEW ev \in batch, NEW tsk \in Slots, ev.fd \in Fds,
         Holds(ev.fd, tsk)
  PROVE  /\ EventOf(call[tsk].op) \in ev.events
         /\ events[tsk][ev.fd].events \cap ev.events # {}
<1>1. /\ ev.fd \in Uses(tsk) /\ call[tsk].op \in {"read", "write", "accept"}
  BY InCall, FdIsNat DEF Holds
<1>2. /\ ev.events # {} /\ ev.events \subseteq interest[ev.fd]
      /\ "OUT" \in interest[ev.fd] => "OUT" \in ev.events
  BY DEF EventsWatched
<1>3. interest[ev.fd] = Mask(tsk) /\ events[tsk][ev.fd].events = Mask(tsk)
  BY <1>1, <1>2 DEF Watching, Masks
<1>4. EventOf(call[tsk].op) \in ev.events
  BY <1>1, <1>2, <1>3 DEF Mask, EventOf
<1> QED
  BY <1>2, <1>3, <1>4

LEMMA NeverWaitsAgain ==
  ASSUME IoInv, WokenByIts, phase # "stopped", WaitAgain
  PROVE  FALSE
BY WaitAgainEffect, ResumedEffect DEF WokenByIts

LEMMA StepPeersReady ==
  ASSUME IoInv, FastPeers, PeersReady, phase # "stopped", IoNext, ~Stops
  PROVE  PeersReady'
<1> USE DEF FastPeers
<1>0. ready \in [Fds -> SUBSET Kinds] /\ interest \in [Fds -> SUBSET Events]
  BY DEF IoInv, IoTypeOK
<1>1. ASSUME ready' = ready, \A fd \in Fds : interest[fd] = {} => interest'[fd] = {}
      PROVE  PeersReady'
  BY <1>1 DEF PeersReady
<1>2. CASE Peers
  BY <1>0, <1>2 DEF Peers, Arrive, Drain, HangUp, PeersReady
<1>3. ASSUME NEW op, NEW fd \in Fds, Fits(op, fd), StartWait(op, fd) PROVE PeersReady'
  <2>1. /\ ready' = ready /\ interest'[fd] = Watched(current, fd, EventOf(op))
        /\ \A g \in Fds : g # fd => interest'[g] = interest[g]
    BY <1>3, WaitEffect, StartWaitEffect
  <2>2. "FILE" \in ready[fd] => Watched(current, fd, EventOf(op)) = {}
    BY <1>3 DEF StartWait, CtlFails, Watched, PeersReady
  <2> QED
    BY <2>1, <2>2 DEF PeersReady
<1>4. CASE finish
  BY <1>1, <1>4, FinishEffect
<1>5. CASE return_read
  BY <1>5, ReturnReadEffect DEF PeersReady
<1>6. CASE return_write
  <2>1. ready' = ready
    BY <1>6, ReturnWriteEffect
  <2>2. \A fd \in Fds : interest[fd] = {} => interest'[fd] = {}
    BY <1>6, ReturnWriteEffect, ReturnEffect
  <2> QED
    BY <1>1, <2>1, <2>2
<1>7. ASSUME NEW fd \in Fds, close(fd) PROVE PeersReady'
  BY <1>7, CloseEffect DEF PeersReady, Fresh
<1>8. ASSUME UNCHANGED <<ready, interest>> PROVE PeersReady'
  BY <1>1, <1>8
<1> QED
  BY <1>2, <1>3, <1>4, <1>5, <1>6, <1>7, <1>8, StepKinds, AsideEffect, WaitEffect, WaitFailsEffect,
     WaitAgainEffect, LoopEffect, EventEffect DEF iovars

\* Only epoll_wait fills the batch; otherwise it is empty, or its events stay.
LEMMA BatchSteps ==
  ASSUME IoInv, OwnDescriptors, phase # "stopped", IoNext, ~Stops
  PROVE  \/ batch' = {}
         \/ UNCHANGED <<batch, interest>> /\ (Aside \/ Peers)
         \/ EpollWait
         \/ \E ev \in batch : HandleEvent(ev)
<1>1. CASE \/ finish \/ WaitAgain \/ return_read \/ return_write
           \/ \E fd \in Fds : close(fd)
           \/ \E op \in {"read", "write", "accept"}, fd \in Fds :
                Fits(op, fd) /\ (StartWait(op, fd) \/ WaitFails(op, fd))
  BY <1>1, FinishEffect, ResumedEffect, CloseEffect, WaitEffect
<1>2. CASE StartLoop
  BY <1>2, NotHandling DEF StartLoop, InProgram, NoCall
<1>3. CASE EventsHandled
  BY <1>3 DEF EventsHandled
<1>4. CASE Aside
  BY <1>4, AsideEffect
<1>5. CASE Peers
  BY <1>5 DEF Peers, Arrive, Drain, HangUp
<1> QED
  BY <1>1, <1>2, <1>3, <1>4, <1>5, StepKinds

LEMMA StepEventsWatched ==
  ASSUME IoInv, FastPeers, Watching, PeersReady, EventsWatched, phase # "stopped", IoNext, ~Stops
  PROVE  EventsWatched'
<1>1. CASE EpollWait
  <2>1. interest' = interest /\ batch' = {[fd |-> fd, events |-> Reported(fd)] : fd \in Reportable}
    BY <1>1 DEF EpollWait
  <2>2. ASSUME NEW fd \in Reportable
        PROVE  /\ Reported(fd) # {} /\ Reported(fd) \subseteq interest[fd]
               /\ "OUT" \in interest[fd] => "OUT" \in Reported(fd)
    <3>1. /\ fd \in Fds /\ Reported(fd) # {} /\ interest[fd] # {}
          /\ Reported(fd) = ready[fd] \cap (interest[fd] \cup {"HUP"})
      BY DEF Reportable, Reported
    <3>2. "HUP" \notin ready[fd] /\ "FILE" \notin ready[fd]
      BY <3>1 DEF PeersReady
    <3>3. ASSUME "OUT" \in interest[fd] PROVE "OUT" \in ready[fd]
      <4>1. PICK i \in Slots : fd \in Uses(i)
        BY <3>1 DEF Watching, Owned
      <4>2. call[i].op = "write"
        BY <3>1, <3>3, <4>1 DEF Watching, Masks, Mask
      <4>3. call[i] \in Calls
        BY DEF IoInv, IoTypeOK
      <4>4. call[i].fd # NoFd
        BY <4>2, <4>3, FdIsNat DEF Calls, InLoop, AtEpollWait, HandlingEvents, NoCall, Returning
      <4>5. call[i].fd = fd /\ fd \notin ListenFds
        BY <4>1, <4>2, <4>4, InCall DEF Fits
      <4> QED
        BY <3>1, <3>2, <4>5 DEF PeersReady
    <3> QED
      BY <3>1, <3>2, <3>3
  <2> QED
    BY <2>1, <2>2 DEF EventsWatched
<1>2. ASSUME NEW ev \in batch, HandleEvent(ev) PROVE EventsWatched'
  BY <1>2, EventEffect DEF EventsWatched
<1> QED
  BY <1>1, <1>2, BatchSteps DEF EventsWatched, FastPeers

LEMMA StepWokenByIts ==
  ASSUME IoInv, FastPeers, FastInv, phase # "stopped", IoNext, ~Stops
  PROVE  WokenByIts'
<1> USE DEF FastPeers, FastInv
<1>1. CASE Aside
  BY <1>1, AsideEffect, InCall DEF WokenByIts
<1>2. CASE Peers
  BY <1>2 DEF Peers, Arrive, Drain, HangUp, WokenByIts, vars
<1>3. ASSUME NEW op, NEW fd \in Fds, Fits(op, fd), StartWait(op, fd) \/ WaitFails(op, fd)
      PROVE  WokenByIts'
  BY <1>3, WaitEffect DEF WokenByIts
<1>4. CASE finish
  BY <1>4, FinishEffect DEF WokenByIts
<1>5. CASE WaitAgain
  BY <1>5, NeverWaitsAgain
<1>6. CASE return_read \/ return_write
  BY <1>6, ReturnEffect, ResumedEffect, FdIsNat DEF WokenByIts
<1>7. CASE StartLoop \/ EpollWait \/ EventsHandled
  BY <1>7, LoopEffect DEF WokenByIts
<1>8. ASSUME NEW ev \in batch, HandleEvent(ev) PROVE WokenByIts'
  <2>1. PICK tsk \in Slots :
          /\ Holds(ev.fd, tsk) /\ ev.fd \in Fds /\ call' = call
          /\ \A i \in Slots : i # tsk => status'[i] = status[i] /\ revents'[i] = revents[i]
          /\ IF events[tsk][ev.fd].events \cap ev.events # {}
             THEN status'[tsk] = "RUNNING" /\ revents'[tsk][ev.fd] = ev.events
             ELSE status'[tsk] = status[tsk] /\ revents'[tsk] = revents[tsk]
    BY <1>8, EventEffect
  <2>2. EventOf(call[tsk].op) \in revents'[tsk][call[tsk].fd]
    BY <2>1, EventFits DEF Holds
  <2> QED
    BY <2>1, <2>2 DEF WokenByIts
<1>9. ASSUME NEW fd \in Fds, close(fd) PROVE WokenByIts'
  BY <1>9, CloseEffect, FdIsNat DEF WokenByIts
<1> QED
  BY <1>1, <1>2, <1>3, <1>4, <1>5, <1>6, <1>7, <1>8, <1>9, StepKinds

LEMMA StepBlockedQueued ==
  ASSUME IoInv, FastPeers, FastInv, phase # "stopped", IoNext, ~Stops
  PROVE  BlockedQueued'
<1> USE DEF FastPeers, FastInv
<1>1. CASE Aside
  BY <1>1, AsideEffect, InCall, NoSlot DEF BlockedQueued
<1>2. CASE Peers
  BY <1>2 DEF Peers, Arrive, Drain, HangUp, BlockedQueued, vars, First
<1>3. ASSUME NEW op, NEW fd \in Fds, Fits(op, fd), StartWait(op, fd) PROVE BlockedQueued'
  <2>1. /\ current \in Slots /\ \A i \in Slots : i # current => fd \notin Uses(i)
        /\ \A i \in Slots : i # current => call'[i] = call[i] /\ status'[i] = status[i]
    BY <1>3, WaitEffect
  <2>2. /\ call'[current].fd = fd /\ First(fd)' = current
        /\ \A g \in Fds : g # fd => First(g)' = First(g)
    BY <1>3, StartWaitEffect
  <2> QED
    BY <2>1, <2>2, InCall DEF BlockedQueued
<1>4. ASSUME NEW op, NEW fd \in Fds, Fits(op, fd), WaitFails(op, fd) PROVE BlockedQueued'
  BY <1>4, WaitEffect, WaitFailsEffect DEF BlockedQueued, First
<1>5. CASE finish
  BY <1>5, FinishEffect DEF BlockedQueued, First
<1>6. CASE WaitAgain
  BY <1>6, NeverWaitsAgain
<1>7. CASE return_read \/ return_write
  BY <1>7, ReturnEffect, ResumedEffect, FdIsNat DEF BlockedQueued, First
<1>8. CASE StartLoop \/ EpollWait \/ EventsHandled
  BY <1>8, LoopEffect DEF BlockedQueued, First
<1>9. ASSUME NEW ev \in batch, HandleEvent(ev) PROVE BlockedQueued'
  <2>1. PICK tsk \in Slots :
          /\ Holds(ev.fd, tsk) /\ ev.fd \in Fds /\ call' = call
          /\ \A g \in Fds : g # ev.fd => First(g)' = First(g)
          /\ \A i \in Slots : i # tsk => status'[i] = status[i]
          /\ events[tsk][ev.fd].events \cap ev.events # {} => status'[tsk] = "RUNNING"
    BY <1>9, EventEffect
  <2>2. status'[tsk] = "RUNNING"
    BY <2>1, EventFits
  <2>3. \A i \in Slots : i # tsk /\ call[i].fd # NoFd => call[i].fd # ev.fd
    BY <2>1, InCall, FdIsNat DEF Holds, IoInv, OneEach
  <2> QED
    BY <2>1, <2>2, <2>3, InCall DEF BlockedQueued
<1>10. ASSUME NEW fd \in Fds, close(fd) PROVE BlockedQueued'
  BY <1>10, CloseEffect, FdIsNat DEF BlockedQueued, First
<1> QED
  BY <1>1, <1>2, <1>3, <1>4, <1>5, <1>6, <1>7, <1>8, <1>9, <1>10, StepKinds

LEMMA FastInvariance == FastPeers => (IoSpec => [](IoInv /\ FastInv))
<1> SUFFICES ASSUME FastPeers PROVE IoSpec => [](IoInv /\ FastInv)
  OBVIOUS
<1>0. OwnDescriptors /\ "write_first" \notin Habits
  BY DEF FastPeers
<1> DEFINE J == PeersReady /\ EventsWatched /\ WokenByIts /\ BlockedQueued
<1>1. IoInit => J
  BY FdIsNat DEF IoInit, PeersReady, EventsWatched, WokenByIts, BlockedQueued, Fresh
<1>2. IoInv /\ Watching /\ J /\ [IoNext]_allvars => J'
  <2> SUFFICES ASSUME IoInv, Watching, J, [IoNext]_allvars PROVE J'
    OBVIOUS
  <2>1. CASE Frozen
    BY <2>1 DEF Frozen, iovars, PeersReady, EventsWatched, WokenByIts, BlockedQueued, First
  <2>2. CASE phase # "stopped" /\ IoNext /\ ~Stops
    BY <2>2, StepPeersReady, StepEventsWatched, StepWokenByIts, StepBlockedQueued DEF FastInv
  <2> QED
    BY <2>1, <2>2, FrozenOrStep
<1>3. IoInv /\ Watching /\ J => IoInv /\ FastInv
  BY DEF FastInv
<1> QED
  BY <1>0, <1>1, <1>2, <1>3, IoInvariance, WatchingInvariance, PTL DEF IoSpec

\* `the tasks blocked on each descriptor' (coroutine.h): a queue has a first entry
\* as soon as a coroutine is blocked on its descriptor, and that is one; also
\* when descriptors are closed and reused, files are waited on, and coroutines
\* with a descriptor sleep or join.
THEOREM QueueHoldsBlocked == FastPeers => (IoSpec => []BlockQueueHoldsBlocked)
<1> SUFFICES ASSUME FastPeers PROVE IoSpec => []BlockQueueHoldsBlocked
  OBVIOUS
<1>1. IoInv /\ FastInv => BlockQueueHoldsBlocked
  <2> SUFFICES ASSUME IoInv, FastInv, NEW fd \in Fds
               PROVE  IF Blocked(fd) = {} THEN First(fd) = Queue!NIL ELSE First(fd) \in Blocked(fd)
    BY DEF BlockQueueHoldsBlocked, First, Queue!TAILQ_FIRST
  <2>1. First(fd) = Queue!NIL \/ First(fd) \in Blocked(fd)
    BY FirstOf DEF IoInv, Holds, Blocked
  <2>2. \A i \in Blocked(fd) : First(fd) = i
    BY FdIsNat DEF FastInv, BlockedQueued, Blocked
  <2> QED
    BY <2>1, <2>2
<1> QED
  BY <1>1, FastInvariance, PTL

-----------------------------------------------------------------------------
(***************************************************************************)
(* Every event finds who waits for it.                                      *)
(***************************************************************************)

\* The whole contract, but for what is not needed here: files, the reuse of
\* descriptors and signals.
OneLoopOnly == FastPeers /\ "detour" \notin Habits /\ "loops" \notin Habits

\* Once it has a descriptor a coroutine waits on it, unless it runs.
WaitsOrRuns ==
  /\ \A i \in Slots : fds[i] # <<>> =>
       call[i].fd # NoFd \/ (phase = "run" /\ current = i) \/ phase = "stopped"
  /\ \A i \in Slots : joining[i] # NoCid => fds[i] = <<>>

\* One coroutine runs the event loop, and does nothing else.
OneLoop ==
  /\ \A i, j \in Slots : call[i] \in InLoop /\ call[j] \in InLoop => i = j
  /\ \A i \in Slots : call[i] \in InLoop => fds[i] = <<>>

\* i was woken by the loop and has not run yet.
Pending(i) ==
  /\ i \in Slots /\ call[i].fd # NoFd /\ status[i] = "RUNNING"
  /\ ~(phase = "run" /\ current = i)

\* The round robin comes to all of these before it comes back to the loop ...
PendingFirst ==
  phase # "stopped" =>
    \A i \in Slots : Pending(i) =>
      \E l \in Slots : call[l] \in InLoop /\ Dist(current, i) < Dist(current, l)

\* ... so that at the next epoll_wait they have all read what they were woken for:
\* epoll does not report it again to a coroutine that has left its queue.
NonePending ==
  phase = "run" /\ call[current] = AtEpollWait => \A i \in Slots : ~Pending(i)

\* Somebody is blocked on every descriptor of the batch, which names it once.
EventsAwaited ==
  \A ev \in batch : Blocked(ev.fd) # {} /\ \A other \in batch : other.fd = ev.fd => other = ev

LoopInv == WaitsOrRuns /\ OneLoop /\ PendingFirst /\ NonePending /\ EventsAwaited

\* Distances around the table.
LEMMA DistOrder ==
  ASSUME NEW c \in Slots, NEW n \in Slots, NEW i \in Slots, NEW l \in Slots, i # n,
         Dist(c, n) <= Dist(c, i), Dist(c, i) < Dist(c, l)
  PROVE  Dist(n, i) < Dist(n, l)
BY SchedAssumption DEF Dist

LEMMA DistLast ==
  ASSUME NEW c \in Slots, NEW i \in Slots, i # c
  PROVE  Dist(c, i) < Dist(c, c)
BY SchedAssumption DEF Dist

\* The calls that have nothing to do with descriptors leave who waits on one alone.
LEMMA AsideCpu ==
  ASSUME IoInv, "detour" \notin Habits, WaitsOrRuns, OneLoop, phase # "stopped", Aside
  PROVE  /\ \A i \in Slots : joining'[i] # NoCid => joining[i] # NoCid \/ fds[i] = <<>>
         /\ \/ current' = current /\ phase' = phase
            \/ /\ current' = current /\ phase = "run" /\ phase' = "wake"
               /\ call[current].fd = NoFd /\ fds[current] = <<>>
            \/ \E next \in Slots : Pick(next) /\ phase = "wake"
<1>0. current \in Slots /\ joining \in [Slots -> Slots \cup {NoCid}]
  BY DEF IoInv, IoTypeOK, TypeOK
<1>1. CASE \E id \in Slots : create(id)
  BY <1>1 DEF create, co_create
<1>2. CASE \E id \in Slots : join(id)
  BY <1>0, <1>2 DEF join, co_join, MayLeave
<1>3. CASE \E s \in Seconds : sleep(s)
  BY <1>3, FdIsNat DEF sleep, co_sleep, MayLeave, InProgram, InUserCode, schedule
<1>4. CASE reap
  BY <1>0, <1>4 DEF reap, JoinReap
<1>5. CASE EpollTimeout
  <2>1. call[current] = AtEpollWait
    BY <1>0, <1>5 DEF EpollTimeout, Resumed, IoInv, IoTypeOK, Calls, InLoop, AtEpollWait,
                      HandlingEvents, NoCall, Returning
  <2> QED
    BY <1>0, <1>5, <2>1, FdIsNat DEF EpollTimeout, Resumed, schedule, OneLoop, InLoop
<1>6. CASE Scheduler
  <2>1. CASE JoinWait
    <3>1. phase = "run" /\ phase' = "wake" /\ UNCHANGED <<current, joining>> /\ joining[current] # NoCid
      BY <2>1 DEF JoinWait, schedule
    <3> QED
      BY <1>0, <3>1, FdIsNat DEF WaitsOrRuns, IoInv, CallsOwn
  <2>2. CASE WakeScan \/ Repeat \/ Tick
    BY <2>2 DEF WakeScan, Repeat, Tick
  <2>3. CASE \E next \in Slots : Pick(next)
    BY <2>3 DEF Pick
  <2> QED
    BY <1>6, <2>1, <2>2, <2>3 DEF Scheduler
<1> QED
  BY <1>1, <1>2, <1>3, <1>4, <1>5, <1>6 DEF Aside

LEMMA StepWaitsOrRuns ==
  ASSUME IoInv, OneLoopOnly, WokenByIts, WaitsOrRuns, OneLoop, phase # "stopped", IoNext, ~Stops
  PROVE  WaitsOrRuns'
<1> USE DEF OneLoopOnly, FastPeers
<1>1. CASE Aside
  BY <1>1, AsideEffect, AsideCpu DEF WaitsOrRuns
<1>2. CASE Peers
  BY <1>2 DEF Peers, Arrive, Drain, HangUp, WaitsOrRuns, vars
<1>3. ASSUME NEW op, NEW fd \in Fds, Fits(op, fd), StartWait(op, fd) PROVE WaitsOrRuns'
  BY <1>3, WaitEffect, StartWaitEffect, FdIsNat DEF WaitsOrRuns
<1>4. ASSUME NEW op, NEW fd \in Fds, Fits(op, fd), WaitFails(op, fd) PROVE WaitsOrRuns'
  BY <1>4, WaitEffect, WaitFailsEffect, FdIsNat DEF WaitsOrRuns
<1>5. CASE finish
  BY <1>5, FinishEffect DEF WaitsOrRuns
<1>6. CASE WaitAgain
  BY <1>6, NeverWaitsAgain
<1>7. CASE return_read \/ return_write
  BY <1>7, ReturnEffect, ResumedEffect DEF WaitsOrRuns
<1>8. CASE StartLoop \/ EpollWait \/ EventsHandled
  <2>1. fds[current] = <<>>
    <3>1. CASE StartLoop
      BY <3>1 DEF StartLoop, MayLeave
    <3>2. CASE EpollWait \/ EventsHandled
      <4>1. current \in Slots /\ call[current] \in Calls /\ call[current].op \in {"epoll_wait", "handle"}
        BY <3>2 DEF EpollWait, EventsHandled, Resumed, IoInv, IoTypeOK, TypeOK
      <4>2. call[current] \in InLoop
        BY <4>1 DEF Calls, NoCall, Returning
      <4> QED
        BY <4>1, <4>2 DEF OneLoop
    <3> QED
      BY <1>8, <3>1, <3>2
  <2> QED
    BY <1>8, <2>1, LoopEffect DEF WaitsOrRuns
<1>9. ASSUME NEW ev \in batch, HandleEvent(ev) PROVE WaitsOrRuns'
  BY <1>9, EventEffect DEF WaitsOrRuns
<1>10. ASSUME NEW fd \in Fds, close(fd) PROVE WaitsOrRuns'
  BY <1>10, CloseEffect DEF WaitsOrRuns
<1> QED
  BY <1>1, <1>2, <1>3, <1>4, <1>5, <1>6, <1>7, <1>8, <1>9, <1>10, StepKinds

\* Which calls are those of the loop.
LEMMA LoopCalls ==
  /\ NoCall \notin InLoop /\ Returning \notin InLoop /\ AtEpollWait # HandlingEvents
  /\ \A c \in InLoop : c.fd = NoFd
  /\ NoCall # AtEpollWait /\ Returning # AtEpollWait
BY DEF NoCall, Returning, InLoop, AtEpollWait, HandlingEvents

\* Nobody leaves the loop, and nobody else gets pending, when no event is handled
\* and nobody gets the CPU.
LEMMA PendingKept ==
  ASSUME IoInv, OneLoopOnly, WokenByIts, WaitsOrRuns, OneLoop, phase # "stopped", IoNext, ~Stops,
         ~\E ev \in batch : HandleEvent(ev), ~\E next \in Slots : Pick(next)
  PROVE  /\ current' = current
         /\ \A i \in Slots : Pending(i)' => Pending(i)
         /\ \A l \in Slots : call[l] \in InLoop => call'[l] \in InLoop
<1> USE DEF OneLoopOnly, FastPeers
<1> DEFINE Goal == /\ current' = current
                   /\ \A i \in Slots : Pending(i)' => Pending(i)
                   /\ \A l \in Slots : call[l] \in InLoop => call'[l] \in InLoop
<1>1. ASSUME Aside PROVE Goal
  BY <1>1, AsideEffect, AsideCpu DEF Pending
<1>2. ASSUME Peers PROVE Goal
  BY <1>2 DEF Peers, Arrive, Drain, HangUp, Pending, vars
<1>3. ASSUME NEW op, NEW fd \in Fds, Fits(op, fd), StartWait(op, fd) \/ WaitFails(op, fd) PROVE Goal
  BY <1>3, WaitEffect, LoopCalls DEF Pending
<1>4. ASSUME finish PROVE Goal
  BY <1>4, FinishEffect DEF Pending
<1>5. ASSUME WaitAgain PROVE Goal
  BY <1>5, NeverWaitsAgain
<1>6. ASSUME return_read \/ return_write PROVE Goal
  BY <1>6, ReturnEffect, ResumedEffect, FdIsNat, LoopCalls DEF Pending
<1>7. ASSUME StartLoop \/ EpollWait \/ EventsHandled PROVE Goal
  BY <1>7, LoopEffect DEF Pending
<1>8. ASSUME NEW fd \in Fds, close(fd) PROVE Goal
  BY <1>8, CloseEffect, FdIsNat, LoopCalls DEF Pending
<1> HIDE DEF Goal
<1>9. Goal
  BY <1>1, <1>2, <1>3, <1>4, <1>5, <1>6, <1>7, <1>8, StepKinds
<1> QED
  BY <1>9 DEF Goal

LEMMA StepOneLoop ==
  ASSUME IoInv, OneLoopOnly, WokenByIts, OneLoop, phase # "stopped", IoNext, ~Stops
  PROVE  OneLoop'
<1> USE DEF OneLoopOnly, FastPeers
<1>1. CASE Aside
  BY <1>1, AsideEffect DEF OneLoop
<1>2. CASE Peers
  BY <1>2 DEF Peers, Arrive, Drain, HangUp, OneLoop
<1>3. ASSUME NEW op, NEW fd \in Fds, Fits(op, fd), StartWait(op, fd) \/ WaitFails(op, fd)
      PROVE  OneLoop'
  <2>1. call'[current] \notin InLoop
    BY <1>3, WaitEffect, StartWaitEffect, WaitFailsEffect, LoopCalls, FdIsNat
  <2> QED
    BY <1>3, <2>1, WaitEffect DEF OneLoop
<1>4. CASE finish
  BY <1>4, FinishEffect, LoopCalls DEF OneLoop
<1>5. CASE WaitAgain
  BY <1>5, NeverWaitsAgain
<1>6. CASE return_read \/ return_write
  BY <1>6, ReturnEffect, ResumedEffect, LoopCalls DEF OneLoop
<1>7. CASE StartLoop
  BY <1>7, LoopEffect DEF StartLoop, MayLeave, OneLoop
<1>8. CASE EpollWait \/ EventsHandled
  <2>1. current \in Slots /\ call[current] \in Calls /\ call[current].op \in {"epoll_wait", "handle"}
    BY <1>8 DEF EpollWait, EventsHandled, Resumed, IoInv, IoTypeOK, TypeOK
  <2>2. call[current] \in InLoop
    BY <2>1 DEF Calls, NoCall, Returning
  <2> QED
    BY <1>8, <2>2, LoopEffect DEF OneLoop
<1>9. ASSUME NEW ev \in batch, HandleEvent(ev) PROVE OneLoop'
  BY <1>9, EventEffect DEF OneLoop
<1>10. ASSUME NEW fd \in Fds, close(fd) PROVE OneLoop'
  BY <1>10, CloseEffect, LoopCalls DEF OneLoop
<1> QED
  BY <1>1, <1>2, <1>3, <1>4, <1>5, <1>6, <1>7, <1>8, <1>9, <1>10, StepKinds

LEMMA StepPendingFirst ==
  ASSUME IoInv, OneLoopOnly, WokenByIts, WaitsOrRuns, OneLoop, PendingFirst,
         phase # "stopped", IoNext, ~Stops
  PROVE  PendingFirst'
<1>0. current \in Slots
  BY DEF IoInv, IoTypeOK, TypeOK
<1> SUFFICES ASSUME NEW i \in Slots, Pending(i)'
             PROVE  \E l \in Slots : call'[l] \in InLoop /\ Dist(current, i)' < Dist(current, l)'
  BY DEF PendingFirst
<1>1. ASSUME NEW ev \in batch, HandleEvent(ev)
      PROVE  \E l \in Slots : call'[l] \in InLoop /\ Dist(current, i)' < Dist(current, l)'
  <2>1. /\ call[current] = HandlingEvents /\ current \in Slots
        /\ UNCHANGED <<current, phase, call>> /\ phase = "run"
    BY <1>1, EventEffect
  <2>2. i # current
    BY <2>1, LoopCalls DEF Pending, InLoop
  <2>3. Dist(current, i) < Dist(current, current)
    BY <2>1, <2>2, DistLast
  <2> QED
    BY <2>1, <2>3 DEF InLoop, Dist
<1>2. ASSUME NEW next \in Slots, Pick(next), Scheduler
      PROVE  \E l \in Slots : call'[l] \in InLoop /\ Dist(current, i)' < Dist(current, l)'
  <2>1. /\ phase = "wake" /\ phase' = "run" /\ current' = next /\ status' = status /\ call' = call
        /\ Nearest(next)
    BY <1>2 DEF Pick, Scheduler, iovars
  <2>2. Pending(i) /\ i # next /\ i \in Ready
    BY <2>1 DEF Pending, Ready
  <2>3. PICK l \in Slots : call[l] \in InLoop /\ Dist(current, i) < Dist(current, l)
    BY <2>1, <2>2 DEF PendingFirst
  <2>4. Dist(current, next) <= Dist(current, i)
    BY <2>1, <2>2 DEF Nearest
  <2>5. Dist(next, i) < Dist(next, l)
    BY <1>0, <2>2, <2>3, <2>4, DistOrder
  <2> QED
    BY <2>1, <2>3, <2>5 DEF Dist
<1>3. CASE ~(\E ev \in batch : HandleEvent(ev)) /\ ~\E next \in Slots : Pick(next)
  <2>1. /\ current' = current /\ Pending(i)
        /\ \A l \in Slots : call[l] \in InLoop => call'[l] \in InLoop
    BY <1>3, PendingKept
  <2> QED
    BY <2>1 DEF PendingFirst, Dist
<1>4. (\E next \in Slots : Pick(next)) => Scheduler \/ \E ev \in batch : HandleEvent(ev)
  <2> SUFFICES ASSUME NEW next \in Slots, Pick(next) PROVE Scheduler
    OBVIOUS
  <2>1. phase = "wake" /\ phase' = "run" /\ status' = status
    BY DEF Pick
  <2>2. CASE Aside
    BY <2>1, <2>2 DEF Aside, create, co_create, join, co_join, sleep, co_sleep, InUserCode, reap,
       JoinReap, EpollTimeout, Resumed
  <2>3. CASE ~Aside
    BY <2>1, <2>3, StepKinds, FinishEffect, ResumedEffect, LoopEffect, EventEffect, CloseEffect,
       WaitEffect DEF Peers, Arrive, Drain, HangUp, vars, OneLoopOnly, FastPeers
  <2> QED
    BY <2>2, <2>3
<1> QED
  BY <1>1, <1>2, <1>3, <1>4

LEMMA StepNonePending ==
  ASSUME IoInv, OneLoopOnly, WokenByIts, WaitsOrRuns, OneLoop, PendingFirst, NonePending,
         phase # "stopped", IoNext, ~Stops
  PROVE  NonePending'
<1> USE DEF OneLoopOnly, FastPeers
<1>0. current \in Slots
  BY DEF IoInv, IoTypeOK, TypeOK
<1> SUFFICES ASSUME phase' = "run", call'[current'] = AtEpollWait, NEW i \in Slots, Pending(i)'
             PROVE  FALSE
  BY DEF NonePending
<1>1. ASSUME NEW next \in Slots, Pick(next), call' = call, status' = status PROVE FALSE
  <2>1. phase = "wake" /\ current' = next /\ Nearest(next)
    BY <1>1 DEF Pick
  <2>2. Pending(i) /\ i \in Ready
    BY <1>1, <2>1 DEF Pending, Ready
  <2>3. PICK l \in Slots : call[l] \in InLoop /\ Dist(current, i) < Dist(current, l)
    BY <2>1, <2>2 DEF PendingFirst
  <2>4. l = next
    BY <1>1, <2>1, <2>3 DEF OneLoop, InLoop
  <2>5. Dist(current, next) <= Dist(current, i)
    BY <2>1, <2>2 DEF Nearest
  <2>6. Dist(current, next) \in Int /\ Dist(current, i) \in Int
    BY <1>0, SchedAssumption DEF Dist
  <2> QED
    BY <2>3, <2>4, <2>5, <2>6
<1>2. ASSUME NEW ev \in batch, HandleEvent(ev) PROVE FALSE
  BY <1>2, EventEffect, LoopCalls
<1>3. CASE ~(\E ev \in batch : HandleEvent(ev)) /\ ~\E next \in Slots : Pick(next)
  <2>1. current' = current /\ Pending(i)
    BY <1>3, PendingKept
  <2>2. CASE StartLoop
    <3>1. \A l \in Slots : call[l] \notin InLoop
      BY <2>2 DEF StartLoop
    <3> QED
      BY <2>1, <3>1 DEF PendingFirst
  <2>3. CASE EpollWait
    BY <1>0, <2>1, <2>3, LoopCalls DEF EpollWait, IoInv, IoTypeOK
  <2>4. CASE EventsHandled
    BY <2>4 DEF EventsHandled, schedule
  <2>5. CASE return_read \/ return_write
    BY <2>1, <2>5, ReturnEffect, LoopCalls
  <2>6. CASE finish
    BY <2>6, FinishEffect
  <2>7. ASSUME NEW fd \in Fds, close(fd) PROVE FALSE
    BY <2>1, <2>7, CloseEffect, LoopCalls
  <2>8. ASSUME NEW op, NEW fd \in Fds, Fits(op, fd), StartWait(op, fd) \/ WaitFails(op, fd)
        PROVE  FALSE
    BY <2>1, <2>8, WaitEffect, StartWaitEffect, WaitFailsEffect, LoopCalls
  <2>9. CASE WaitAgain
    BY <2>9, NeverWaitsAgain
  <2>10. CASE Peers
    BY <2>1, <2>10 DEF Peers, Arrive, Drain, HangUp, vars, NonePending
  <2>11. CASE Aside
    <3>1. call' = call /\ phase = "run"
      BY <1>3, <2>11, AsideEffect, AsideCpu
    <3> QED
      BY <2>1, <3>1 DEF NonePending
  <2> QED
    BY <2>2, <2>3, <2>4, <2>5, <2>6, <2>7, <2>8, <2>9, <2>10, <2>11, <1>3, StepKinds
<1>4. ASSUME NEW next \in Slots, Pick(next) PROVE call' = call /\ status' = status
  <2>1. phase = "wake" /\ status' = status
    BY <1>4 DEF Pick
  <2>2. CASE Aside
    BY <2>1, <2>2, AsideEffect
  <2>3. CASE ~Aside
    BY <2>1, <2>3, StepKinds, FinishEffect, ResumedEffect, LoopEffect, EventEffect, CloseEffect,
       WaitEffect DEF Peers, Arrive, Drain, HangUp
  <2> QED
    BY <2>1, <2>2, <2>3
<1> QED
  BY <1>1, <1>2, <1>3, <1>4

LEMMA StepEventsAwaited ==
  ASSUME IoInv, OneLoopOnly, FastInv, WaitsOrRuns, OneLoop, NonePending, EventsAwaited,
         phase # "stopped", IoNext, ~Stops
  PROVE  EventsAwaited'
<1> USE DEF OneLoopOnly, FastPeers
<1>0. batch \subseteq [fd : Fds, events : SUBSET Events] /\ \A fd \in Fds : fd # NoFd
  BY FdIsNat DEF IoInv, IoTypeOK
<1>1. ASSUME batch' = batch, Aside PROVE EventsAwaited'
  <2>1. call' = call /\ \A i \in Slots : call[i].fd # NoFd => status'[i] = status[i]
    BY <1>1, AsideEffect
  <2>2. \A fd \in Fds : Blocked(fd) \subseteq Blocked(fd)'
    BY <1>0, <2>1 DEF Blocked
  <2> QED
    BY <1>0, <1>1, <2>2 DEF EventsAwaited
<1>2. ASSUME batch' = batch, Peers PROVE EventsAwaited'
  BY <1>2 DEF Peers, Arrive, Drain, HangUp, EventsAwaited, Blocked, vars
<1>3. CASE EpollWait
  <2>1. /\ batch' = {[fd |-> fd, events |-> Reported(fd)] : fd \in Reportable}
        /\ phase = "run" /\ current \in Slots /\ call[current].op = "epoll_wait"
        /\ call' = [call EXCEPT ![current] = HandlingEvents] /\ status' = status
    BY <1>3 DEF EpollWait, Resumed, vars, IoInv, IoTypeOK, TypeOK
  <2>2. call[current] = AtEpollWait /\ fds[current] = <<>> /\ call[current].fd = NoFd
    <3>1. call[current] \in Calls
      BY <2>1 DEF IoInv, IoTypeOK
    <3>2. call[current] = AtEpollWait
      BY <2>1, <3>1 DEF Calls, InLoop, HandlingEvents, NoCall, Returning
    <3> QED
      BY <2>1, <3>2, LoopCalls DEF OneLoop, InLoop
  <2>3. \A i \in Slots : i # current => call'[i] = call[i]
    BY <2>1 DEF IoInv, IoTypeOK
  <2>4. ASSUME NEW fd \in Reportable PROVE Blocked(fd)' # {}
    <3>1. fd \in Fds /\ interest[fd] # {}
      BY DEF Reportable, Reported
    <3>2. PICK i \in Slots : fd \in Uses(i)
      BY <3>1 DEF FastInv, Watching, Owned
    <3>3. fds[i] # <<>> /\ i # current
      BY <2>2, <3>2, UsesOf
    <3>4. call[i].fd # NoFd
      BY <2>1, <3>3 DEF WaitsOrRuns
    <3>5. call[i].fd = fd /\ status[i] \in {"WAIT", "RUNNING"}
      BY <3>2, <3>4, InCall
    <3>6. ~Pending(i)
      BY <2>1, <2>2 DEF NonePending
    <3>7. status[i] = "WAIT"
      BY <3>3, <3>4, <3>5, <3>6 DEF Pending
    <3> QED
      BY <2>1, <2>3, <3>3, <3>5, <3>7 DEF Blocked
  <2> QED
    BY <2>1, <2>4 DEF EventsAwaited
<1>4. ASSUME NEW ev \in batch, HandleEvent(ev) PROVE EventsAwaited'
  <2>1. PICK tsk \in Slots :
          /\ Holds(ev.fd, tsk) /\ call' = call /\ batch' = batch \ {ev}
          /\ \A i \in Slots : i # tsk => status'[i] = status[i]
    BY <1>4, EventEffect
  <2>2. ASSUME NEW other \in batch' PROVE Blocked(other.fd)' # {}
    <3>1. other \in batch /\ other.fd # ev.fd
      BY <2>1, <2>2 DEF EventsAwaited
    <3>2. PICK i \in Blocked(other.fd) : TRUE
      BY <3>1 DEF EventsAwaited
    <3>3. i # tsk
      BY <2>1, <3>1, <3>2 DEF Holds, Blocked
    <3> QED
      BY <2>1, <3>2, <3>3 DEF Blocked
  <2> QED
    BY <2>1, <2>2 DEF EventsAwaited
<1> QED
  BY <1>1, <1>2, <1>3, <1>4, BatchSteps DEF EventsAwaited

\* The event loop never dereferences a NULL TAILQ_FIRST: every event that epoll
\* reports finds, until it is handled, a coroutine that waits for it.  A
\* coroutine that waits on its own descriptor only, beside one event loop, also
\* survives that it closes its descriptor and goes on with the next of that
\* number, waits on files, or is ended by a signal.
THEOREM EventsFindWaiters == OneLoopOnly => (IoSpec => []EventHasWaiter)
<1> SUFFICES ASSUME OneLoopOnly PROVE IoSpec => []EventHasWaiter
  OBVIOUS
<1>0. FastPeers
  BY DEF OneLoopOnly
<1>1. IoInit => LoopInv
  <2> SUFFICES ASSUME IoInit PROVE LoopInv
    OBVIOUS
  <2>1. \A i \in Slots : call[i] = NoCall /\ fds[i] = <<>> /\ joining[i] = NoCid
    BY DEF IoInit, Init
  <2> QED
    BY <2>1, FdIsNat, LoopCalls DEF IoInit, LoopInv, WaitsOrRuns, OneLoop, PendingFirst, NonePending,
       Pending, EventsAwaited
<1>2. IoInv /\ FastInv /\ LoopInv /\ [IoNext]_allvars => LoopInv'
  <2> SUFFICES ASSUME IoInv, FastInv, LoopInv, [IoNext]_allvars PROVE LoopInv'
    OBVIOUS
  <2>1. CASE Frozen
    <3>1. /\ UNCHANGED <<status, current, joining, fds, call, batch>>
          /\ phase' = phase \/ phase' = "stopped"
      BY <2>1 DEF Frozen, iovars
    <3>2. WaitsOrRuns' /\ OneLoop' /\ EventsAwaited'
      BY <3>1 DEF LoopInv, WaitsOrRuns, OneLoop, EventsAwaited, Blocked
    <3>3. PendingFirst' /\ NonePending'
      BY <3>1 DEF LoopInv, PendingFirst, NonePending, Pending, Dist
    <3> QED
      BY <3>2, <3>3 DEF LoopInv
  <2>2. CASE phase # "stopped" /\ IoNext /\ ~Stops
    BY <2>2, StepWaitsOrRuns, StepOneLoop, StepPendingFirst, StepNonePending, StepEventsAwaited
       DEF LoopInv, FastInv
  <2> QED
    BY <2>1, <2>2, FrozenOrStep DEF OneLoopOnly, FastPeers
<1>3. IoInv /\ FastInv /\ LoopInv => EventHasWaiter
  <2> SUFFICES ASSUME IoInv, FastInv, LoopInv, NEW ev \in batch
               PROVE  /\ First(ev.fd) \in Blocked(ev.fd)
                      /\ events[First(ev.fd)][ev.fd].events \cap ev.events # {}
    BY DEF EventHasWaiter, First, Queue!TAILQ_FIRST
  <2>1. ev.fd \in Fds
    BY DEF IoInv, IoTypeOK
  <2>2. PICK i \in Slots : status[i] = "WAIT" /\ call[i].fd = ev.fd
    BY DEF LoopInv, EventsAwaited, Blocked
  <2>3. First(ev.fd) = i
    BY <2>1, <2>2, FdIsNat DEF FastInv, BlockedQueued
  <2>4. Holds(ev.fd, i)
    BY <2>1, <2>3, FirstOf, NoSlot DEF IoInv
  <2>5. events[i][ev.fd].events \cap ev.events # {}
    BY <2>1, <2>4, EventFits DEF FastInv
  <2> QED
    BY <2>2, <2>3, <2>5 DEF Blocked
<1> QED
  BY <1>0, <1>1, <1>2, <1>3, FastInvariance, PTL DEF IoSpec

-----------------------------------------------------------------------------
(***************************************************************************)
(* No pointer that is NULL or dangles is followed.                          *)
(***************************************************************************)

\* A task that lists a descriptor was in a queue once, so its tqe_prev is set.
Linked == \A i \in Slots : fds[i] # <<>> => block_queue.prev[i] # Queue!NullAddr

LEMMA StepLinked ==
  ASSUME IoInv, RegInv, OwnDescriptors, phase # "stopped", IoNext, ~Stops, Linked
  PROVE  Linked'
<1>0. block_queue \in Queue!Queues
  BY DEF IoInv, OwnLinks
<1>1. ASSUME NEW id \in Slots, create(id) PROVE Linked'
  <2>1. /\ \A i \in Slots : fds'[i] = IF i = id THEN <<>> ELSE fds[i]
        /\ \A i \in Slots : i # id => block_queue'.prev[i] = block_queue.prev[i]
    BY <1>0, <1>1 DEF create, Queue!ZeroElem, Queue!Queues, IoInv, IoTypeOK
  <2> QED
    BY <2>1 DEF Linked
<1>2. ASSUME reap PROVE Linked'
  <2>1. /\ fds' = fds
        /\ \A i \in Slots : block_queue'.prev[i] \in {block_queue.prev[i], Queue!FreedAddr}
    BY <1>2 DEF reap, Queue!FreeElem
  <2> QED
    BY <2>1 DEF Linked, Queue!FreedAddr, Queue!NullAddr
<1>3. ASSUME NEW op, NEW fd \in Fds, Fits(op, fd), StartWait(op, fd) PROVE Linked'
  <2>1. current \in Slots /\ \A i \in Slots : i # current => fds'[i] = fds[i]
    BY <1>3, WaitEffect
  <2>2. block_queue'.prev = [block_queue.prev EXCEPT ![current] = block_queue.last[fd]]
    BY <1>3 DEF StartWait, Queue!TAILQ_INSERT_TAIL
  <2>3. block_queue.last[fd] # Queue!NullAddr
    BY Links DEF IoInv, ShortQueues, EmptyQueue, Holds
  <2> QED
    BY <1>0, <2>1, <2>2, <2>3 DEF Linked, Queue!Queues
<1>4. ASSUME NEW op, NEW fd \in Fds, Fits(op, fd), WaitFails(op, fd) PROVE FALSE
  BY <1>4, NeverFails
<1>5. ASSUME finish PROVE Linked'
  <2>1. block_queue' = block_queue /\ \A i \in Slots : fds'[i] \in {fds[i], <<>>}
    BY <1>5, FinishEffect
  <2> QED
    BY <2>1 DEF Linked
<1>6. ASSUME NEW ev \in batch, HandleEvent(ev) PROVE Linked'
  <2>1. PICK tsk \in Slots : Holds(ev.fd, tsk) /\ ev.fd \in Fds /\ First(ev.fd) = tsk /\ fds' = fds
    BY <1>6, EventEffect
  <2>2. block_queue' = Queue!TAILQ_REMOVE(block_queue, ev.fd, tsk)
    BY <1>6, <2>1 DEF HandleEvent, Dequeued, First, Queue!TAILQ_FIRST
  <2>3. block_queue'.prev = block_queue.prev
    BY <2>1, <2>2, UnlinkOnly DEF IoInv
  <2> QED
    BY <2>1, <2>3 DEF Linked
<1>7. ASSUME \/ \E id \in Slots : join(id)
             \/ \E s \in Seconds : sleep(s)
             \/ EpollTimeout \/ Scheduler \/ Peers \/ WaitAgain \/ return_read \/ return_write
             \/ StartLoop \/ EpollWait \/ EventsHandled \/ \E fd \in Fds : close(fd)
      PROVE  Linked'
  <2>1. UNCHANGED <<block_queue, fds>>
    BY <1>7 DEF join, sleep, EpollTimeout, Scheduler, Peers, Arrive, Drain, HangUp, WaitAgain, return_read,
       return_write, StartLoop, EpollWait, EventsHandled, close, iovars
  <2> QED
    BY <2>1 DEF Linked
<1> QED
  BY <1>1, <1>2, <1>3, <1>4, <1>5, <1>6, <1>7, StepKinds DEF Aside

\* So start() and the event loop only unlink what is or was linked.
LEMMA NoStops ==
  ASSUME IoInv, EventHasWaiter, Linked, "signals" \notin Habits, phase # "stopped", Stops
  PROVE  FALSE
<1>1. ASSUME finish_crash PROVE FALSE
  <2>1. /\ phase = "run" /\ current \in Slots /\ fds[current] # <<>>
        /\ ~Queue!RemoveDefined(block_queue, current)
    BY <1>1 DEF finish_crash, MayReturn, InProgram, InUserCode, IoInv, IoTypeOK, TypeOK
  <2>2. /\ block_queue.ptr[Queue!NextCell(current)] = Queue!NIL
        /\ block_queue.prev[current] \in {Queue!NullAddr} \cup {Queue!FirstCell(fd) : fd \in Fds}
    BY <2>1 DEF IoInv, OwnLinks
  <2> QED
    BY <2>1, <2>2, NoSlot, Links DEF Linked, Queue!RemoveDefined
<1>2. ASSUME NEW ev \in batch, HandleCrash(ev) PROVE FALSE
  <2>1. ev.fd \in Fds /\ First(ev.fd) \in Slots
    BY <1>2 DEF EventHasWaiter, Blocked, First, Queue!TAILQ_FIRST, IoInv, IoTypeOK
  <2>2. Holds(ev.fd, First(ev.fd))
    BY <2>1, FirstOf, NoSlot DEF IoInv
  <2>3. block_queue.ptr[Queue!NextCell(First(ev.fd))] = Queue!NIL
    BY <2>1 DEF IoInv, OwnLinks
  <2> QED
    BY <1>2, <2>1, <2>2, <2>3, NoSlot, Links
       DEF HandleCrash, Holds, First, Queue!TAILQ_FIRST, Queue!RemoveDefined
<1> QED
  BY <1>1, <1>2 DEF Stops, EpollInterrupted

LEMMA GoesOn ==
  ASSUME IoInv, phase # "stopped", IoNext, ~Stops
  PROVE  phase' # "stopped"
<1>1. ASSUME Aside \/ finish \/ WaitAgain \/ Peers PROVE phase' # "stopped"
  BY <1>1 DEF Aside, create, co_create, join, co_join, sleep, co_sleep, reap, JoinReap, EpollTimeout, Scheduler,
     JoinWait, WakeScan, Pick, Repeat, Tick, schedule, finish, Finish, WaitAgain, Peers, Arrive, Drain, HangUp, vars
<1>2. ASSUME \/ \E op \in {"read", "write", "accept"}, fd \in Fds : StartWait(op, fd) \/ WaitFails(op, fd)
             \/ \E ev \in batch : HandleEvent(ev)
             \/ return_read \/ return_write \/ StartLoop \/ EpollWait \/ EventsHandled
             \/ \E fd \in Fds : close(fd)
      PROVE  phase' # "stopped"
  BY <1>2 DEF StartWait, WaitFails, HandleEvent, return_read, return_write, StartLoop, EpollWait, EventsHandled,
     close, schedule, vars
<1> QED
  BY <1>1, <1>2, StepKinds

\* The process does not crash: no event meets an empty queue, and no coroutine
\* returns with a descriptor whose queue it was never in.  The second is why
\* epoll_ctl must not fail either: after a co_read that returned -1 the clean-up
\* of start() dereferences a NULL tqe_prev.
THEOREM ProcessGoesOn ==
  OneLoopOnly /\ CtlSucceeds /\ "signals" \notin Habits => (IoSpec => []NeverCrashes)
<1> SUFFICES ASSUME OneLoopOnly, CtlSucceeds, "signals" \notin Habits
             PROVE  IoSpec => []NeverCrashes
  OBVIOUS
<1>1. IoInit => Linked /\ NeverCrashes
  BY DEF IoInit, Init, Linked, NeverCrashes
<1>2. IoInv /\ RegInv /\ EventHasWaiter /\ Linked /\ NeverCrashes /\ [IoNext]_allvars
        => (Linked /\ NeverCrashes)'
  <2> SUFFICES ASSUME IoInv, RegInv, EventHasWaiter, Linked, NeverCrashes, [IoNext]_allvars
               PROVE  Linked' /\ NeverCrashes'
    OBVIOUS
  <2>1. CASE UNCHANGED allvars
    BY <2>1 DEF allvars, vars, iovars, Linked, NeverCrashes
  <2>2. CASE IoNext
    <3>1. ~Stops
      BY NoStops DEF NeverCrashes
    <3> QED
      BY <2>2, <3>1, StepLinked, GoesOn DEF NeverCrashes, CtlSucceeds
  <2> QED
    BY <2>1, <2>2
<1> QED
  BY <1>1, <1>2, RegInvariance, EventsFindWaiters, PTL DEF IoSpec
=============================================================================
