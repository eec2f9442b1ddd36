-------------------------------- MODULE CoIO --------------------------------
(***************************************************************************)
(* Blocking I/O on coroutines: co_accept, co_read and co_write with         *)
(* add_queue (src/src/cosyscall.c), co_eventloop (src/src/coeventloop.c),   *)
(* the clean-up in start() and the kernel's epoll instance, composed with   *)
(* the scheduler of module Sched and the queues of module TailQ.            *)
(*                                                                         *)
(* Habits says what the program and its peers do beyond what the library    *)
(* copes with; with Habits = {} a run shows what the library guarantees to  *)
(* a program such as examples/demo03.c.                                     *)
(***************************************************************************)
EXTENDS Sched, SequencesExt

CONSTANTS
  Fds,         \* the open descriptors, numbered as the kernel numbers them
  ListenFds,   \* those that co_accept is used on
  MAX_FD,      \* size of a task's array fds (1024); it is not overrun here
  Habits       \* what else the program, its peers and the system do

ASSUME CoIOAssumption ==
  /\ Fds \subseteq Nat
  /\ ListenFds \subseteq Fds
  /\ MAX_FD \in Nat
  /\ Habits \subseteq {"share", "many", "write_first", "detour", "reuse",
                       "loops", "files", "backpressure", "hangup", "signals"}

Queue == INSTANCE TailQ WITH Heads <- Fds, Elems <- Slots

NoFd   == -1
NoCall == [op |-> "none", fd |-> NoFd]
AtEpollWait    == [op |-> "epoll_wait", fd |-> NoFd]   \* in co_eventloop
HandlingEvents == [op |-> "handle", fd |-> NoFd]       \* in its for loop
InLoop == {AtEpollWait, HandlingEvents}
Returning      == [op |-> "return", fd |-> NoFd]       \* has closed its descriptor
Calls == [op : {"read", "write", "accept"}, fd : Fds] \cup InLoop \cup {NoCall, Returning}

\* What a call waits for.
EventOf(op) == IF op = "write" THEN "OUT" ELSE "IN"
Events == {"IN", "OUT", "HUP"}
Kinds  == Events \cup {"FILE"}   \* "FILE" marks a regular file

VARIABLES
  block_queue,  \* the TAILQs of thread_env->epoll, with the tasks' block_entry
  events,       \* slot -> fd -> task[slot]->events[fd]: data.fd and the mask
  revents,      \* slot -> fd -> task[slot]->revents[fd]
  fds,          \* slot -> task[slot]->fds[0 .. fds_idx - 1]
  call,         \* slot -> the library call of its stack that may schedule
  batch,        \* the events epoll_wait returned and the loop has yet to handle
  interest,     \* fd -> the events epoll watches; {} when fd is not registered
  ready         \* fd -> the events the descriptor is ready for, in the kernel

iovars == <<block_queue, events, revents, fds, call, batch, interest, ready>>
allvars == <<vars, iovars>>

IoTypeOK ==
  /\ TypeOK \/ phase = "stopped"
  /\ block_queue \in Queue!Queues
  /\ events \in [Slots -> [Fds -> [fd : Fds \cup {0}, events : SUBSET Events]]]
  /\ revents \in [Slots -> [Fds -> SUBSET Events]]
  /\ fds \in [Slots -> Seq(Fds)]
  /\ call \in [Slots -> Calls]
  /\ batch \subseteq [fd : Fds, events : SUBSET Events]
  /\ interest \in [Fds -> SUBSET Events]
  /\ ready \in [Fds -> SUBSET Kinds]

Zeroed == [fd \in Fds |-> [fd |-> 0, events |-> {}]]

\* a connection can be written to from the start; nothing has arrived yet
Fresh(fd) == IF fd \in ListenFds THEN {} ELSE {"OUT"}

IoInit ==
  /\ Init
  /\ block_queue = Queue!TAILQ_INIT
  /\ events = [i \in Slots |-> Zeroed]
  /\ revents = [i \in Slots |-> [fd \in Fds |-> {}]]
  /\ fds = [i \in Slots |-> <<>>]
  /\ call = [i \in Slots |-> NoCall]
  /\ batch = {}
  /\ interest = [fd \in Fds |-> {}]
  /\ \E files \in SUBSET Fds :
       /\ files = {} \/ "files" \in Habits
       /\ ready = [fd \in Fds |-> IF fd \in files THEN {"FILE"} ELSE Fresh(fd)]

\* The process exits, or a NULL or dangling pointer is followed: nothing is
\* said of what comes next.
Stop ==
  /\ phase' = "stopped"
  /\ UNCHANGED <<status, wakeuptime, task_count, current, joining, scan, now, iovars>>

(***************************************************************************)
(* The contract of the program.                                             *)
(***************************************************************************)
InProgram == InUserCode /\ call[current] = NoCall

Uses(i) == {fds[i][k] : k \in 1 .. Len(fds[i])}

\* data.fd is the mark of a descriptor that was waited on before
FirstTime(i, fd) == events[i][fd].fd <= 0

\* Every descriptor has one coroutine, which has no other and reads first.
MayWait(op, fd) ==
  /\ Len(fds[current]) < MAX_FD \/ ~FirstTime(current, fd)
  /\ "share" \in Habits \/ \A i \in Slots \ {current} : fd \notin Uses(i)
  /\ "many" \in Habits \/ Uses(current) \subseteq {fd}
  /\ "write_first" \in Habits \/ op # "write" \/ fd \in Uses(current)

\* Once it has a descriptor a coroutine gives the CPU away only to wait on it.
MayLeave == "detour" \in Habits \/ fds[current] = <<>>

(***************************************************************************)
(* The calls of Sched, with their effect on the I/O state.                  *)
(***************************************************************************)

\* calloc() zeroes the control block, its link and its descriptor tables
create(id) ==
  /\ InProgram /\ co_create(id)
  /\ block_queue' = Queue!ZeroElem(block_queue, id)
  /\ events' = [events EXCEPT ![id] = Zeroed]
  /\ revents' = [revents EXCEPT ![id] = [fd \in Fds |-> {}]]
  /\ fds' = [fds EXCEPT ![id] = <<>>]
  /\ UNCHANGED <<call, batch, interest, ready>>

sleep(seconds) ==
  InProgram /\ MayLeave /\ co_sleep(seconds) /\ UNCHANGED iovars

join(cid) ==
  InProgram /\ MayLeave /\ co_join(cid) /\ UNCHANGED iovars

reap ==
  /\ JoinReap
  /\ block_queue' = Queue!FreeElem(block_queue, joining[current])
  /\ UNCHANGED <<events, revents, fds, call, batch, interest, ready>>

\* one turn of start()'s clean-up: TAILQ_REMOVE from the queue of fd
Unlink(fd, q) == Queue!TAILQ_REMOVE(q, fd, current)

Deregistered_None(i) == interest   \* slip: the descriptors stay registered

\* EPOLL_CTL_DEL of all that i lists; the error for a closed one is ignored
Deregistered(i) == [fd \in Fds |-> IF fd \in Uses(i) THEN {} ELSE interest[fd]]

MayReturn == InProgram \/ (phase = "run" /\ call[current] = Returning)

\* start() once co_fn has returned: the descriptors are released, last first
finish ==
  /\ MayReturn
  /\ fds[current] = <<>> \/ Queue!RemoveDefined(block_queue, current)
  /\ Finish
  /\ block_queue' = FoldRight(Unlink, fds[current], block_queue)
  /\ interest' = Deregistered(current)
  /\ fds' = [fds EXCEPT ![current] = <<>>]
  /\ call' = [call EXCEPT ![current] = NoCall]
  /\ UNCHANGED <<events, revents, batch, ready>>

finish_crash ==
  /\ MayReturn /\ current # 0
  /\ fds[current] # <<>> /\ ~Queue!RemoveDefined(block_queue, current)
  /\ Stop

(***************************************************************************)
(* add_queue and the calls that wait.                                       *)
(***************************************************************************)

\* slip: a registered descriptor is never modified
NeedsMod_Never(i, fd, ev) == FALSE

\* `events[fd].events & events != events[fd].events`: != binds tighter than &,
\* so bit 0, which is EPOLLIN, decides whether the masks differ
NeedsMod(i, fd, ev) ==
  "IN" \in events[i][fd].events /\ events[i][fd].events # {ev}

Mark_None(fd) == 0   \* slip: the descriptor's number is not stored

Mark(fd) == fd

\* the registration a call for event ev leaves behind in events[fd]
Noted(i, fd, ev) ==
  IF FirstTime(i, fd) THEN [fd |-> Mark(fd), events |-> {"IN"}]
  ELSE IF NeedsMod(i, fd, ev)
       THEN [events[i][fd] EXCEPT !.events = @ \cup {ev}]
       ELSE events[i][fd]

\* what is handed to epoll_ctl: ADD passes ev alone, MOD ev and the mask
Watched(i, fd, ev) ==
  IF FirstTime(i, fd) THEN {ev}
  ELSE IF NeedsMod(i, fd, ev) THEN events[i][fd].events \cup {ev}
       ELSE interest[fd]

\* ADD of a registered descriptor is EEXIST, of a regular file EPERM; MOD of an
\* unregistered one ENOENT
CtlFails(i, fd, ev) ==
  \/ FirstTime(i, fd) /\ (interest[fd] # {} \/ "FILE" \in ready[fd])
  \/ ~FirstTime(i, fd) /\ NeedsMod(i, fd, ev) /\ interest[fd] = {}

\* slip: the bit of an earlier event is not cleared
Cleared_Stale(fd, ev) == revents[current][fd]

Cleared(fd, ev) == revents[current][fd] \ {ev}

\* the head of add_queue, and its attempt to register the descriptor
add_queue(fd, ev) ==
  /\ status' = [status EXCEPT ![current] = "WAIT"]
  /\ revents' = [revents EXCEPT ![current][fd] = Cleared(fd, ev)]
  /\ fds' = IF FirstTime(current, fd)
            THEN [fds EXCEPT ![current] = Append(@, fd)] ELSE fds
  /\ events' = [events EXCEPT ![current][fd] = Noted(current, fd, ev)]

\* co_read, co_write or co_accept up to its schedule(): revents[fd] was just
\* cleared of ev, so the loop that waits for ev is entered
StartWait(op, fd) ==
  LET ev == EventOf(op) IN
  /\ InProgram /\ MayWait(op, fd)
  /\ ~CtlFails(current, fd, ev)
  /\ add_queue(fd, ev)
  /\ interest' = [interest EXCEPT ![fd] = Watched(current, fd, ev)]
  /\ block_queue' = Queue!TAILQ_INSERT_TAIL(block_queue, fd, current)
  /\ call' = [call EXCEPT ![current] = [op |-> op, fd |-> fd]]
  /\ schedule
  /\ UNCHANGED <<wakeuptime, task_count, current, joining, now, batch, ready>>

\* epoll_ctl failed: the call returns -1 and the program goes on, as WAIT
WaitFails(op, fd) ==
  LET ev == EventOf(op) IN
  /\ InProgram /\ MayWait(op, fd)
  /\ CtlFails(current, fd, ev)
  /\ add_queue(fd, ev)
  /\ UNCHANGED <<wakeuptime, task_count, current, joining, phase, scan, now,
                 block_queue, call, batch, interest, ready>>

\* current runs again inside a call that waits
Resumed(op) == phase = "run" /\ call[current].op = op

Arrived == EventOf(call[current].op) \in revents[current][call[current].fd]

\* while (!(current->revents[fd] & ...)) { status = COROUTINE_WAIT; schedule(); }
WaitAgain ==
  /\ Resumed("read") \/ Resumed("accept") \/ Resumed("write")
  /\ ~Arrived
  /\ status' = [status EXCEPT ![current] = "WAIT"]
  /\ schedule
  /\ UNCHANGED <<wakeuptime, task_count, current, joining, now, iovars>>

\* read() takes all that arrived or leaves something; accept() one connection
return_read ==
  /\ Resumed("read") \/ Resumed("accept")
  /\ Arrived
  /\ call' = [call EXCEPT ![current] = NoCall]
  /\ \E rest \in SUBSET {"IN"} :
       ready' = [ready EXCEPT ![call[current].fd] = (@ \ {"IN"}) \cup (@ \cap rest)]
  /\ UNCHANGED <<vars, block_queue, events, revents, fds, batch, interest>>

MaskAfter_Empty(fd) == {}   \* slip: the mask loses EPOLLIN as well

MaskAfter(fd) == events[current][fd].events \ {"OUT"}

\* the mask loses EPOLLOUT again; then write(), which may fill the socket's
\* buffer when the peer is slow
return_write ==
  /\ Resumed("write") /\ Arrived
  /\ LET fd == call[current].fd
     IN  /\ events' = [events EXCEPT ![current][fd].events = MaskAfter(fd)]
         /\ revents' = [revents EXCEPT ![current][fd] = @ \ {"OUT"}]
         /\ interest' = [interest EXCEPT ![fd] = IF @ = {} THEN @ ELSE MaskAfter(fd)]
         /\ \/ UNCHANGED ready
            \/ /\ "backpressure" \in Habits /\ interest[fd] # {}
               /\ ready' = [ready EXCEPT ![fd] = @ \ {"OUT"}]
  /\ call' = [call EXCEPT ![current] = NoCall]
  /\ UNCHANGED <<vars, block_queue, fds, batch>>

\* The program closes a descriptor that it has waited on: the kernel forgets the
\* registration and gives the number to the next connection; the library is not
\* told.  Under the contract the coroutine then returns.
close(fd) ==
  /\ InProgram /\ fd \in Uses(current)
  /\ IF "reuse" \in Habits THEN UNCHANGED call
     ELSE current # 0 /\ call' = [call EXCEPT ![current] = Returning]
  /\ interest' = [interest EXCEPT ![fd] = {}]
  /\ ready' = [ready EXCEPT ![fd] = Fresh(fd)]
  /\ UNCHANGED <<vars, block_queue, events, revents, fds, batch>>

(***************************************************************************)
(* co_eventloop.                                                            *)
(***************************************************************************)
StartLoop ==
  /\ InProgram /\ MayLeave
  /\ "loops" \in Habits \/ \A i \in Slots : call[i] \notin InLoop
  /\ call' = [call EXCEPT ![current] = AtEpollWait]
  /\ UNCHANGED <<vars, block_queue, events, revents, fds, batch, interest, ready>>

\* what epoll has to report of a descriptor: a hang-up is always watched
Reported(fd) == IF interest[fd] = {} THEN {} ELSE ready[fd] \cap (interest[fd] \cup {"HUP"})

Reportable == {fd \in Fds : Reported(fd) # {}}

\* level-triggered: every registered descriptor that is ready is reported
EpollWait ==
  /\ Resumed("epoll_wait") /\ Reportable # {}
  /\ batch' = {[fd |-> fd, events |-> Reported(fd)] : fd \in Reportable}
  /\ call' = [call EXCEPT ![current] = HandlingEvents]
  /\ UNCHANGED <<vars, block_queue, events, revents, fds, interest, ready>>

\* nready == 0 after a second
EpollTimeout ==
  /\ Resumed("epoll_wait") /\ Reportable = {}
  /\ schedule
  /\ UNCHANGED <<status, wakeuptime, task_count, current, joining, now, iovars>>

\* a signal ends the wait with EINTR: perror() and exit()
EpollInterrupted == "signals" \in Habits /\ Resumed("epoll_wait") /\ Stop

Dequeued_Not(fd, tsk) == block_queue   \* slip: the task stays in the queue

Dequeued(fd, tsk) == Queue!TAILQ_REMOVE(block_queue, fd, tsk)

\* one turn of the loop over the events
HandleEvent(ev) ==
  LET tsk == Queue!TAILQ_FIRST(block_queue, ev.fd) IN
  /\ Resumed("handle") /\ ev \in batch
  /\ Queue!RemoveDefined(block_queue, tsk)
  /\ block_queue' = Dequeued(ev.fd, tsk)
  /\ IF events[tsk][ev.fd].events \cap ev.events # {}
     THEN /\ status' = [status EXCEPT ![tsk] = "RUNNING"]
          /\ revents' = [revents EXCEPT ![tsk][ev.fd] = ev.events]
     ELSE UNCHANGED <<status, revents>>
  /\ batch' = batch \ {ev}
  /\ UNCHANGED <<wakeuptime, task_count, current, joining, phase, scan, now,
                 events, fds, call, interest, ready>>

\* the queue is empty, or its first entry cannot be unlinked
HandleCrash(ev) ==
  /\ Resumed("handle") /\ ev \in batch
  /\ ~Queue!RemoveDefined(block_queue, Queue!TAILQ_FIRST(block_queue, ev.fd))
  /\ Stop

\* the schedule() behind the loop over the events
EventsHandled ==
  /\ Resumed("handle") /\ batch = {}
  /\ call' = [call EXCEPT ![current] = AtEpollWait]
  /\ schedule
  /\ UNCHANGED <<status, wakeuptime, task_count, current, joining, now,
                 block_queue, events, revents, fds, batch, interest, ready>>

(***************************************************************************)
(* The descriptors, and the specification.                                  *)
(***************************************************************************)

\* data, a connection request or the end of the stream arrives
Arrive(fd) ==
  /\ phase # "stopped" /\ ready[fd] \cap {"IN", "HUP", "FILE"} = {}
  /\ ready' = [ready EXCEPT ![fd] = @ \cup {"IN"}]
  /\ UNCHANGED <<vars, block_queue, events, revents, fds, call, batch, interest>>

\* the peer has read some of what fills the buffer
Drain(fd) ==
  /\ phase # "stopped" /\ fd \notin ListenFds /\ ready[fd] \cap {"OUT", "HUP", "FILE"} = {}
  /\ ready' = [ready EXCEPT ![fd] = @ \cup {"OUT"}]
  /\ UNCHANGED <<vars, block_queue, events, revents, fds, call, batch, interest>>

\* the writer of a pipe closes it and nothing is left to read: no EPOLLIN
HangUp(fd) ==
  /\ "hangup" \in Habits
  /\ phase # "stopped" /\ fd \notin ListenFds /\ ready[fd] \cap {"IN", "HUP", "FILE"} = {}
  /\ ready' = [ready EXCEPT ![fd] = {"HUP"}]
  /\ UNCHANGED <<vars, block_queue, events, revents, fds, call, batch, interest>>

Waits(Act(_, _)) ==
  \/ \E fd \in ListenFds : Act("accept", fd)
  \/ \E fd \in Fds \ ListenFds, op \in {"read", "write"} : Act(op, fd)

Scheduler ==
  /\ JoinWait \/ WakeScan \/ (\E next \in Slots : Pick(next)) \/ Repeat \/ Tick
  /\ UNCHANGED iovars

IoNext ==
  \/ \E id \in Slots : create(id) \/ join(id)
  \/ \E s \in Seconds : sleep(s)
  \/ reap
  \/ finish \/ finish_crash
  \/ Waits(StartWait) \/ Waits(WaitFails)
  \/ WaitAgain \/ return_read \/ return_write
  \/ StartLoop \/ EpollWait \/ EpollTimeout \/ EpollInterrupted \/ EventsHandled
  \/ \E ev \in batch : HandleEvent(ev) \/ HandleCrash(ev)
  \/ Scheduler
  \/ \E fd \in Fds : close(fd) \/ Arrive(fd) \/ Drain(fd) \/ HangUp(fd)

IoSpec == IoInit /\ [][IoNext]_allvars

\* As in Sched, code that runs makes progress and a coroutine that has the CPU
\* gives it back, by a wait now as well as by sleeping or returning.  Nothing
\* is assumed of the peers.
IoFairness ==
  /\ WF_allvars((\E s \in Seconds : sleep(s)) \/ finish \/ Waits(StartWait))
  /\ WF_allvars(reap)
  /\ WF_allvars(WaitAgain \/ return_read \/ return_write)
  /\ WF_allvars(EpollWait \/ EpollTimeout \/ EventsHandled
                 \/ \E ev \in batch : HandleEvent(ev))
  /\ WF_allvars(JoinWait /\ UNCHANGED iovars)
  /\ WF_allvars((WakeScan \/ (\E next \in Slots : Pick(next)) \/ Repeat) /\ UNCHANGED iovars)
  /\ WF_allvars(Tick /\ UNCHANGED iovars)

IoFairSpec == IoSpec /\ IoFairness

(***************************************************************************)
(* Safety.                                                                  *)
(***************************************************************************)
Blocked(fd) == {i \in Slots : status[i] = "WAIT" /\ call[i].fd = fd}

\* The event loop never dereferences a NULL TAILQ_FIRST: when epoll reports a
\* descriptor, and until that event is handled, somebody waits on it whose
\* mask lets the event through.
EventHasWaiter ==
  \A ev \in batch :
    LET tsk == Queue!TAILQ_FIRST(block_queue, ev.fd)
    IN  /\ tsk \in Blocked(ev.fd)
        /\ events[tsk][ev.fd].events \cap ev.events # {}

\* `the tasks blocked on each descriptor' (coroutine.h): the first entry of a
\* block_queue is a coroutine blocked in a call on its descriptor, and it has
\* one as soon as there is such a coroutine.
BlockQueueHoldsBlocked ==
  \A fd \in Fds :
    LET first == Queue!TAILQ_FIRST(block_queue, fd)
    IN  IF Blocked(fd) = {} THEN first = Queue!NIL ELSE first \in Blocked(fd)

\* No wake-up is lost: whoever is blocked is registered with epoll for what it
\* waits for, and its own mask, which the event loop consults, agrees.  The
\* two are changed at four places, by three calls of epoll_ctl.
RegisteredWhileBlocked ==
  \A i \in Slots :
    status[i] = "WAIT" =>
      LET ev == EventOf(call[i].op) IN
      /\ ev \in interest[call[i].fd]
      /\ ev \in events[i][call[i].fd].events

\* The read(), write() or accept() at the end of a call does not block the
\* thread, which would stop all its coroutines: the event that ended the wait
\* is no stale one, although time passes between it and the system call.
SyscallReady ==
  \A i \in Slots :
    LET ev == EventOf(call[i].op) IN
    call[i].fd # NoFd /\ ev \in revents[i][call[i].fd] => ev \in ready[call[i].fd]

\* No NULL or dangling pointer is followed, be it that the event loop looks for
\* the first entry of a queue or that start() unlinks a task that is in none.
NeverCrashes == phase # "stopped"

\* tqh_last never dangles, so that TAILQ_INSERT_TAIL writes to live memory: no
\* control block is freed while it ends a queue, as long as each descriptor has one
\* coroutine and each coroutine one descriptor.  (TAILQ_REMOVE leaves its element
\* the old links, and start() unlinks by them once more: in longer queues they can
\* lead into the block of a coroutine that has left since.)
TailNeverDangles == \A fd \in Fds : Queue!InsertDefined(block_queue, fd)

\* `never watched before: added to epoll for the first time' (cosyscall.c): a
\* task lists a descriptor once in fds, which is what its clean-up walks.
ListedOnce ==
  \A i \in Slots : \A k, l \in 1 .. Len(fds[i]) : fds[i][k] = fds[i][l] => k = l

\* `clean up all descriptors of the task' (coroutine.c): a queue that start()
\* leaves empty can be inserted into, its tqh_last points to its own tqh_first.
EmptyQueueUsable ==
  \A fd \in Fds :
    Queue!TAILQ_FIRST(block_queue, fd) = Queue!NIL
      => block_queue.last[fd] = Queue!FirstCell(fd)

\* `once an event occurs on the descriptor, the task is activated'
\* (cosyscall.c): a blocked coroutine leaves the head of a queue to run.
EventWakesWaiter ==
  [][\A fd \in Fds :
       LET first == Queue!TAILQ_FIRST(block_queue, fd)
       IN  first \in Blocked(fd) /\ Queue!TAILQ_FIRST(block_queue', fd) # first
             => status'[first] = "RUNNING"]_allvars

\* `once scheduled away it can never come back' (coroutine.c): no event resurrects
\* a coroutine that has returned, as long as each descriptor has one coroutine and
\* each coroutine one descriptor; for the same reason as TailNeverDangles.
ExitedStaysDead ==
  [][\A i \in Slots : status[i] = "EXIT" => status'[i] \in {"EXIT", Free}]_allvars

(***************************************************************************)
(* Liveness, of IoFairSpec.                                                 *)
(***************************************************************************)

\* A co_read or co_accept whose data has arrived returns, once some coroutine
\* runs the event loop; whatever other coroutines do on their descriptors.
ReadReturns ==
  \A i \in Slots, fd \in Fds :
    (call[i].fd = fd /\ call[i].op # "write" /\ "IN" \in ready[fd]
       /\ \E j \in Slots : call[j] \in InLoop)
      ~> call[i] = NoCall
=============================================================================
