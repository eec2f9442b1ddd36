--------------------------- MODULE EchoServerProofs ---------------------------
(***************************************************************************)
(* Proofs about EchoServer, for any number of slots, connections and        *)
(* messages: examples/demo03.c keeps the contract, so that what is proved   *)
(* in CoIOProofs holds of it, and it echoes everything.                     *)
(***************************************************************************)
EXTENDS EchoServer, FiniteSetTheorems, WellFoundedInduction, TLAPS

\* The guarantees to programs that keep the contract.
Given == INSTANCE CoIOProofs WITH Habits <- {}

\* What the peers and the kernel do is not up to the program: connections are
\* no regular files and take what is written to them.  Numbers 0 to 2 are the
\* standard streams.
Kernel == 0 \notin Fds /\ "files" \notin Habits /\ "backpressure" \notin Habits

-----------------------------------------------------------------------------
(***************************************************************************)
(* The inductive invariant.                                                 *)
(***************************************************************************)
EchoTypes ==
  /\ pc \in [Slots -> {"none"} \cup Mains \cup Accepting \cup Serving]
  /\ clifd \in [Slots -> Conns \cup {NoFd}]
  /\ n \in [Slots -> Nat]
  /\ accepted \subseteq Conns
  /\ backlog \in 0 .. Cardinality(Conns \ accepted) + 1
  /\ sent \in [Conns -> 0 .. MaxSent]
  /\ taken \in [Conns -> Nat]
  /\ echoed \in [Conns -> Nat]
  /\ shut \subseteq Conns /\ resets \subseteq Conns

\* Slot 0 is main, there is one my_accept, and one do_client for a connection.
Roles ==
  /\ \A i \in Slots : pc[i] \in Mains => i = 0
  /\ \A i, j \in Slots : pc[i] \in Accepting /\ pc[j] \in Accepting => i = j
  /\ pc[0] = "co_create" => \A i \in Slots : pc[i] \notin Accepting
  /\ \A i, j \in Slots : pc[i] \in Serving /\ pc[j] \in Serving /\ clifd[i] = clifd[j] => i = j
  /\ \A i \in Slots : pc[i] \in Serving \cup {"co_create_client"} => clifd[i] \in accepted
  /\ \A i, j \in Slots : pc[i] = "co_create_client" /\ pc[j] \in Serving => clifd[i] # clifd[j]
  /\ \A i \in Slots : status[i] = Free => pc[i] = "none"

\* A call is the one of the statement that its coroutine is at.
Calling ==
  \A i \in Slots :
    /\ call[i] # Returning
    /\ call[i] \in InLoop => pc[i] = "loops"
    /\ call[i].op = "accept" => pc[i] = "co_accept" /\ call[i].fd = listenfd
    /\ call[i].op = "read" => pc[i] = "co_read" /\ call[i].fd = clifd[i]
    /\ call[i].op = "write" => pc[i] = "co_write" /\ call[i].fd = clifd[i]

\* A coroutine waits on its own descriptor only, and do_client reads first.
OwnUses ==
  \A i \in Slots :
    /\ Uses(i) \subseteq IF pc[i] \in Accepting THEN {listenfd}
                         ELSE IF pc[i] \in Serving THEN {clifd[i]} ELSE {}
    /\ pc[i] = "co_write" => clifd[i] \in Uses(i)

\* A descriptor is readable only if there is something to accept or to read.
Readable ==
  /\ "IN" \in ready[listenfd] => backlog > 0
  /\ \A fd \in Conns : "IN" \in ready[fd] => taken[fd] < sent[fd] \/ fd \in shut \cup resets

Served(fd) == \E i \in Slots : pc[i] \in Serving /\ clifd[i] = fd

\* Where the messages are.
Traffic ==
  /\ \A fd \in Conns : echoed[fd] <= taken[fd] /\ taken[fd] <= sent[fd]
  /\ \A fd \in Conns : ~Served(fd) =>
       taken[fd] = echoed[fd] /\ (taken[fd] > 0 => fd \in shut /\ echoed[fd] = sent[fd])
  /\ \A i \in Slots :
       /\ pc[i] \notin {"co_write", "exit_client"} => n[i] = 0
       /\ pc[i] \in Serving => taken[clifd[i]] = echoed[clifd[i]] + n[i]
       /\ pc[i] = "break" => clifd[i] \in shut /\ taken[clifd[i]] = sent[clifd[i]]

\* What the calls failed for that made the server exit.
ExitCauses ==
  \A i \in Slots :
    /\ pc[i] = "exit_client" => resets # {}
    /\ pc[i] = "exit_accept" => Faulted

EchoInv ==
  /\ EchoTypes /\ Roles /\ Readable /\ Traffic /\ ExitCauses
  /\ phase # "stopped" => Calling /\ OwnUses

-----------------------------------------------------------------------------
(***************************************************************************)
(* A definition of CoIO that does not mention Habits is the same in the     *)
(* instances of CoIO without Habits.                                        *)
(***************************************************************************)

\* What the contract asks of a call that waits.
Abides(op, fd) ==
  /\ \A i \in Slots \ {current} : fd \notin Uses(i)
  /\ Uses(current) \subseteq {fd}
  /\ op = "write" => fd \in Uses(current)

\* The steps of CoIO that a server takes under the contract.
AbidingStep ==
  \/ \E id \in Slots : create(id)
  \/ StartLoop /\ fds[current] = <<>> /\ \A i \in Slots : call[i] \notin InLoop
  \/ \E fd \in ListenFds : StartWait("accept", fd) /\ Abides("accept", fd)
  \/ \E fd \in Fds \ ListenFds, op \in {"read", "write"} : StartWait(op, fd) /\ Abides(op, fd)
  \/ return_read \/ return_write \/ finish \/ finish_crash
  \/ WaitAgain \/ EpollWait \/ EpollTimeout \/ EventsHandled
  \/ \E ev \in batch : HandleEvent(ev) \/ HandleCrash(ev)
  \/ Scheduler
  \/ \E fd \in Fds : Arrive(fd)

LEMMA GivenValues ==
  /\ Given!Slots = Slots /\ Given!NoCid = NoCid /\ Given!Free = Free /\ Given!NoFd = NoFd
  /\ Given!NoCall = NoCall /\ Given!AtEpollWait = AtEpollWait /\ Given!HandlingEvents = HandlingEvents
  /\ Given!InLoop = InLoop /\ Given!Returning = Returning /\ Given!Zeroed = Zeroed
  /\ \A i : Given!Uses(i) = Uses(i)
  /\ \A op : Given!EventOf(op) = EventOf(op)
BY DEF Given!Slots, Slots, Given!NoCid, NoCid, Given!Free, Free, Given!NoFd, NoFd, Given!NoCall, NoCall,
   Given!AtEpollWait, AtEpollWait, Given!HandlingEvents, HandlingEvents, Given!InLoop, InLoop,
   Given!Returning, Returning, Given!Zeroed, Zeroed, Given!Uses, Uses, Given!EventOf, EventOf

LEMMA GivenQueues ==
  /\ Given!Queue!NIL = Queue!NIL /\ Given!Queue!FREED = Queue!FREED
  /\ Given!Queue!NullAddr = Queue!NullAddr /\ Given!Queue!Cells = Queue!Cells
  /\ \A x : Given!Queue!FirstCell(x) = Queue!FirstCell(x) /\ Given!Queue!NextCell(x) = Queue!NextCell(x)
  /\ Given!Queue!TAILQ_INIT = Queue!TAILQ_INIT
  /\ \A q, fd : Given!Queue!TAILQ_FIRST(q, fd) = Queue!TAILQ_FIRST(q, fd)
  /\ \A q, i : Given!Queue!ZeroElem(q, i) = Queue!ZeroElem(q, i)
  /\ \A q, i : Given!Queue!RemoveDefined(q, i) <=> Queue!RemoveDefined(q, i)
  /\ \A q, fd, i : Given!Queue!TAILQ_INSERT_TAIL(q, fd, i) = Queue!TAILQ_INSERT_TAIL(q, fd, i)
  /\ \A q, fd, i : Given!Queue!TAILQ_REMOVE(q, fd, i) = Queue!TAILQ_REMOVE(q, fd, i)
<1>1. /\ Given!Queue!NIL = Queue!NIL /\ Given!Queue!FREED = Queue!FREED
      /\ Given!Queue!NullAddr = Queue!NullAddr /\ Given!Queue!Cells = Queue!Cells
      /\ \A x : Given!Queue!FirstCell(x) = Queue!FirstCell(x) /\ Given!Queue!NextCell(x) = Queue!NextCell(x)
  BY GivenValues DEF Given!Queue!NIL, Queue!NIL, Given!Queue!FREED, Queue!FREED,
     Given!Queue!NullAddr, Queue!NullAddr,
     Given!Queue!FirstCell, Queue!FirstCell, Given!Queue!NextCell, Queue!NextCell,
     Given!Queue!Cells, Queue!Cells
<1>2. \A q, fd, i : Given!Queue!TAILQ_REMOVE(q, fd, i) = Queue!TAILQ_REMOVE(q, fd, i)
  BY <1>1 DEF Given!Queue!TAILQ_REMOVE, Queue!TAILQ_REMOVE
<1>3. \A q, fd, i : Given!Queue!TAILQ_INSERT_TAIL(q, fd, i) = Queue!TAILQ_INSERT_TAIL(q, fd, i)
  BY <1>1 DEF Given!Queue!TAILQ_INSERT_TAIL, Queue!TAILQ_INSERT_TAIL
<1>4. /\ Given!Queue!TAILQ_INIT = Queue!TAILQ_INIT
      /\ \A q, fd : Given!Queue!TAILQ_FIRST(q, fd) = Queue!TAILQ_FIRST(q, fd)
      /\ \A q, i : Given!Queue!ZeroElem(q, i) = Queue!ZeroElem(q, i)
      /\ \A q, i : Given!Queue!RemoveDefined(q, i) <=> Queue!RemoveDefined(q, i)
  BY <1>1, GivenValues DEF Given!Queue!TAILQ_INIT, Queue!TAILQ_INIT, Given!Queue!TAILQ_FIRST,
     Queue!TAILQ_FIRST,
     Given!Queue!ZeroElem, Queue!ZeroElem, Given!Queue!RemoveDefined, Queue!RemoveDefined
<1> QED
  BY <1>1, <1>2, <1>3, <1>4

LEMMA GivenFrames ==
  /\ UNCHANGED Given!vars <=> UNCHANGED vars
  /\ UNCHANGED Given!iovars <=> UNCHANGED iovars
  /\ UNCHANGED Given!allvars <=> UNCHANGED allvars
  /\ Given!schedule <=> schedule
  /\ Given!Stop <=> Stop
  /\ Given!InProgram <=> InProgram
  /\ Given!MayReturn <=> MayReturn
  /\ \A op : Given!Resumed(op) <=> Resumed(op)
  /\ Given!Arrived <=> Arrived
BY GivenValues DEF Given!vars, vars, Given!iovars, iovars, Given!allvars, allvars,
   Given!schedule, schedule, Given!Stop, Stop,
   Given!InUserCode, InUserCode, Given!InProgram, InProgram, Given!MayReturn, MayReturn,
   Given!Resumed, Resumed,
   Given!Arrived, Arrived

LEMMA GivenInit == Given!Init <=> Init
BY GivenValues DEF Given!Init, Init

LEMMA GivenCreate == \A id : Given!create(id) <=> create(id)
<1>1. \A id : Given!FirstFree(id) <=> FirstFree(id)
  BY GivenValues DEF Given!FirstFree, FirstFree
<1>2. \A id : Given!co_create(id) <=> co_create(id)
  BY <1>1, GivenValues DEF Given!co_create, co_create, Given!InUserCode, InUserCode
<1> QED
  BY <1>2, GivenValues, GivenQueues, GivenFrames DEF Given!create, create

LEMMA GivenFinish == (Given!finish <=> finish) /\ (Given!finish_crash <=> finish_crash)
<1>1. Given!Finish <=> Finish
  BY GivenValues DEF Given!Finish, Finish, Given!InUserCode, InUserCode, Given!Ended, Ended,
     Given!schedule, schedule
<1>2. Given!Deregistered(current) = Deregistered(current)
  BY GivenValues DEF Given!Deregistered, Deregistered
<1> DEFINE Rest ==
      /\ MayReturn
      /\ fds[current] = <<>> \/ Queue!RemoveDefined(block_queue, current)
      /\ Finish
      /\ interest' = Deregistered(current)
      /\ fds' = [fds EXCEPT ![current] = <<>>]
      /\ call' = [call EXCEPT ![current] = NoCall]
      /\ UNCHANGED <<events, revents, batch, ready>>
<1> DEFINE SameRest ==
      /\ Given!MayReturn
      /\ fds[current] = <<>> \/ Given!Queue!RemoveDefined(block_queue, current)
      /\ Given!Finish
      /\ interest' = Given!Deregistered(current)
      /\ fds' = [fds EXCEPT ![current] = <<>>]
      /\ call' = [call EXCEPT ![current] = Given!NoCall]
      /\ UNCHANGED <<events, revents, batch, ready>>
<1>3. /\ finish <=> Rest /\ block_queue' = FoldRight(Unlink, fds[current], block_queue)
      /\ Given!finish <=> Rest /\ block_queue' = Given!FoldRight(Given!Unlink, fds[current], block_queue)
  <2>1. finish <=> Rest /\ block_queue' = FoldRight(Unlink, fds[current], block_queue)
    BY Zenon DEF finish
  <2>2. Given!finish <=> SameRest /\ block_queue' = Given!FoldRight(Given!Unlink, fds[current], block_queue)
    BY Zenon DEF Given!finish
  <2>3. SameRest <=> Rest
    BY <1>1, <1>2, GivenValues, GivenQueues, GivenFrames
  <2> HIDE DEF Rest, SameRest
  <2> QED
    BY <2>1, <2>2, <2>3, Zenon
<1>4. Given!finish <=> finish
  <2> HIDE DEF Rest
  <2>1. (block_queue' = Given!FoldRight(Given!Unlink, fds[current], block_queue))
          <=> (block_queue' = FoldRight(Unlink, fds[current], block_queue))
    BY Zenon DEF Given!FoldRight, FoldRight, Given!MapThenFoldSet, MapThenFoldSet, Given!Min, Min,
       Given!Unlink, Unlink, Given!Queue!TAILQ_REMOVE, Queue!TAILQ_REMOVE,
       Given!Queue!NIL, Queue!NIL, Given!Queue!NextCell, Queue!NextCell
  <2> QED
    BY <1>3, <2>1, Zenon
<1>5. Given!finish_crash <=> finish_crash
  BY GivenQueues, GivenFrames DEF Given!finish_crash, finish_crash
<1> QED
  BY <1>4, <1>5

LEMMA GivenCall ==
  \A op, fd : StartWait(op, fd) /\ Given!MayWait(op, fd) => Given!StartWait(op, fd)
<1> SUFFICES ASSUME NEW op, NEW fd, StartWait(op, fd), Given!MayWait(op, fd) PROVE Given!StartWait(op, fd)
  OBVIOUS
<1>1. \A i, ev : /\ Given!FirstTime(i, fd) <=> FirstTime(i, fd)
                 /\ Given!NeedsMod(i, fd, ev) <=> NeedsMod(i, fd, ev)
  BY DEF Given!FirstTime, FirstTime, Given!NeedsMod, NeedsMod
<1>2. \A i, ev : /\ Given!Noted(i, fd, ev) = Noted(i, fd, ev)
                 /\ Given!Watched(i, fd, ev) = Watched(i, fd, ev)
                 /\ Given!CtlFails(i, fd, ev) <=> CtlFails(i, fd, ev)
  BY <1>1 DEF Given!Noted, Noted, Given!Watched, Watched, Given!CtlFails, CtlFails, Given!Mark, Mark
<1>3. \A ev : Given!add_queue(fd, ev) <=> add_queue(fd, ev)
  BY <1>1, <1>2 DEF Given!add_queue, add_queue, Given!Cleared, Cleared
<1> QED
  BY <1>2, <1>3, GivenValues, GivenQueues, GivenFrames DEF Given!StartWait, StartWait

LEMMA GivenReturn ==
  /\ Given!return_read <=> return_read
  /\ return_write /\ "backpressure" \notin Habits => Given!return_write
<1>1. Given!return_read <=> return_read
  BY GivenValues, GivenFrames DEF Given!return_read, return_read
<1>2. return_write /\ "backpressure" \notin Habits => Given!return_write
  BY GivenValues, GivenFrames DEF Given!return_write, return_write, Given!MaskAfter, MaskAfter
<1> QED
  BY <1>1, <1>2

LEMMA GivenLoop ==
  /\ Given!WaitAgain <=> WaitAgain
  /\ Given!EpollWait <=> EpollWait
  /\ Given!EpollTimeout <=> EpollTimeout
  /\ Given!EventsHandled <=> EventsHandled
  /\ \A ev : (Given!HandleEvent(ev) <=> HandleEvent(ev)) /\ (Given!HandleCrash(ev) <=> HandleCrash(ev))
  /\ StartLoop /\ fds[current] = <<>> /\ (\A i \in Slots : call[i] \notin InLoop) => Given!StartLoop
<1>1. Given!Reportable = Reportable /\ \A fd : Given!Reported(fd) = Reported(fd)
  BY DEF Given!Reportable, Reportable, Given!Reported, Reported
<1>2. Given!WaitAgain <=> WaitAgain
  BY GivenFrames DEF Given!WaitAgain, WaitAgain
<1>3. (Given!EpollWait <=> EpollWait) /\ (Given!EpollTimeout <=> EpollTimeout)
  BY <1>1, GivenValues, GivenFrames DEF Given!EpollWait, EpollWait, Given!EpollTimeout, EpollTimeout
<1>4. Given!EventsHandled <=> EventsHandled
  BY GivenValues, GivenFrames DEF Given!EventsHandled, EventsHandled
<1>5. \A ev : Given!HandleEvent(ev) <=> HandleEvent(ev)
  BY GivenQueues, GivenFrames DEF Given!HandleEvent, HandleEvent, Given!Dequeued, Dequeued
<1>6. \A ev : Given!HandleCrash(ev) <=> HandleCrash(ev)
  BY GivenQueues, GivenFrames DEF Given!HandleCrash, HandleCrash
<1>7. StartLoop /\ fds[current] = <<>> /\ (\A i \in Slots : call[i] \notin InLoop) => Given!StartLoop
  BY GivenValues, GivenFrames DEF Given!StartLoop, StartLoop, Given!MayLeave
<1> QED
  BY <1>2, <1>3, <1>4, <1>5, <1>6, <1>7

LEMMA GivenOthers ==
  /\ Given!Scheduler <=> Scheduler
  /\ \A fd : Given!Arrive(fd) <=> Arrive(fd)
<1>1. (Given!JoinWait <=> JoinWait) /\ (Given!WakeScan <=> WakeScan) /\ (Given!Repeat <=> Repeat) /\ (Given!Tick <=> Tick)
  BY GivenValues, GivenFrames DEF Given!JoinWait, JoinWait, Given!WakeScan, WakeScan,
     Given!Expired, Expired,
     Given!getmstime, getmstime, Given!Repeat, Repeat, Given!Ready, Ready, Given!Tick, Tick
<1>2. \A next : Given!Pick(next) <=> Pick(next)
  BY GivenValues DEF Given!Pick, Pick, Given!Nearest, Nearest, Given!Ready, Ready, Given!Dist, Dist
<1>3. Given!Scheduler <=> Scheduler
  BY <1>1, <1>2, GivenValues, GivenFrames DEF Given!Scheduler, Scheduler
<1>4. \A fd : Given!Arrive(fd) <=> Arrive(fd)
  BY GivenFrames DEF Given!Arrive, Arrive
<1> QED
  BY <1>3, <1>4

LEMMA GivenIoInit == IoInit /\ "files" \notin Habits => Given!IoInit
BY GivenValues, GivenQueues, GivenInit DEF Given!IoInit, IoInit, Given!Fresh, Fresh

\* A step of a program under the contract is one of CoIO with no Habits.
LEMMA GivenStep == "backpressure" \notin Habits /\ AbidingStep => Given!IoNext
<1> SUFFICES ASSUME "backpressure" \notin Habits, AbidingStep PROVE Given!IoNext
  OBVIOUS
<1>1. ASSUME NEW op, NEW fd, StartWait(op, fd), Abides(op, fd) PROVE Given!StartWait(op, fd)
  <2>1. Given!MayWait(op, fd)
    BY <1>1, GivenValues DEF StartWait, MayWait, Given!MayWait, Abides, Given!FirstTime, FirstTime
  <2> QED
    BY <1>1, <2>1, GivenCall
<1>2. CASE \E fd \in ListenFds : StartWait("accept", fd) /\ Abides("accept", fd)
  BY <1>1, <1>2 DEF Given!IoNext, Given!Waits
<1>3. CASE \E fd \in Fds \ ListenFds, op \in {"read", "write"} : StartWait(op, fd) /\ Abides(op, fd)
  BY <1>1, <1>3 DEF Given!IoNext, Given!Waits
<1>4. CASE (\E id \in Slots : create(id)) \/ finish \/ finish_crash \/ return_read \/ return_write
  BY <1>4, GivenValues, GivenCreate, GivenFinish, GivenReturn DEF Given!IoNext
<1>5. CASE \/ StartLoop /\ fds[current] = <<>> /\ \A i \in Slots : call[i] \notin InLoop
           \/ WaitAgain \/ EpollWait \/ EpollTimeout \/ EventsHandled
           \/ \E ev \in batch : HandleEvent(ev) \/ HandleCrash(ev)
  BY <1>5, GivenLoop DEF Given!IoNext
<1>6. CASE Scheduler \/ \E fd \in Fds : Arrive(fd)
  BY <1>6, GivenOthers DEF Given!IoNext
<1> QED
  BY <1>2, <1>3, <1>4, <1>5, <1>6 DEF AbidingStep

\* The same lemmas for the instance by which EchoServer states its contract.
LEMMA ContractValues ==
  /\ Contract!Slots = Slots /\ Contract!NoCid = NoCid /\ Contract!Free = Free /\ Contract!NoFd = NoFd
  /\ Contract!NoCall = NoCall /\ Contract!AtEpollWait = AtEpollWait /\ Contract!HandlingEvents = HandlingEvents
  /\ Contract!InLoop = InLoop /\ Contract!Returning = Returning /\ Contract!Zeroed = Zeroed
  /\ \A i : Contract!Uses(i) = Uses(i)
  /\ \A op : Contract!EventOf(op) = EventOf(op)
BY DEF Contract!Slots, Slots, Contract!NoCid, NoCid, Contract!Free, Free, Contract!NoFd, NoFd,
   Contract!NoCall, NoCall,
   Contract!AtEpollWait, AtEpollWait, Contract!HandlingEvents, HandlingEvents, Contract!InLoop, InLoop,
   Contract!Returning, Returning, Contract!Zeroed, Zeroed, Contract!Uses, Uses, Contract!EventOf,
   EventOf

LEMMA ContractQueues ==
  /\ Contract!Queue!NIL = Queue!NIL /\ Contract!Queue!FREED = Queue!FREED
  /\ Contract!Queue!NullAddr = Queue!NullAddr /\ Contract!Queue!Cells = Queue!Cells
  /\ \A x : Contract!Queue!FirstCell(x) = Queue!FirstCell(x) /\ Contract!Queue!NextCell(x) = Queue!NextCell(x)
  /\ Contract!Queue!TAILQ_INIT = Queue!TAILQ_INIT
  /\ \A q, fd : Contract!Queue!TAILQ_FIRST(q, fd) = Queue!TAILQ_FIRST(q, fd)
  /\ \A q, i : Contract!Queue!ZeroElem(q, i) = Queue!ZeroElem(q, i)
  /\ \A q, i : Contract!Queue!RemoveDefined(q, i) <=> Queue!RemoveDefined(q, i)
  /\ \A q, fd, i : Contract!Queue!TAILQ_INSERT_TAIL(q, fd, i) = Queue!TAILQ_INSERT_TAIL(q, fd, i)
  /\ \A q, fd, i : Contract!Queue!TAILQ_REMOVE(q, fd, i) = Queue!TAILQ_REMOVE(q, fd, i)
<1>1. /\ Contract!Queue!NIL = Queue!NIL /\ Contract!Queue!FREED = Queue!FREED
      /\ Contract!Queue!NullAddr = Queue!NullAddr /\ Contract!Queue!Cells = Queue!Cells
      /\ \A x : Contract!Queue!FirstCell(x) = Queue!FirstCell(x) /\ Contract!Queue!NextCell(x) = Queue!NextCell(x)
  BY ContractValues DEF Contract!Queue!NIL, Queue!NIL, Contract!Queue!FREED, Queue!FREED,
     Contract!Queue!NullAddr, Queue!NullAddr,
     Contract!Queue!FirstCell, Queue!FirstCell, Contract!Queue!NextCell, Queue!NextCell,
     Contract!Queue!Cells, Queue!Cells
<1>2. \A q, fd, i : Contract!Queue!TAILQ_REMOVE(q, fd, i) = Queue!TAILQ_REMOVE(q, fd, i)
  BY <1>1 DEF Contract!Queue!TAILQ_REMOVE, Queue!TAILQ_REMOVE
<1>3. \A q, fd, i : Contract!Queue!TAILQ_INSERT_TAIL(q, fd, i) = Queue!TAILQ_INSERT_TAIL(q, fd, i)
  BY <1>1 DEF Contract!Queue!TAILQ_INSERT_TAIL, Queue!TAILQ_INSERT_TAIL
<1>4. /\ Contract!Queue!TAILQ_INIT = Queue!TAILQ_INIT
      /\ \A q, fd : Contract!Queue!TAILQ_FIRST(q, fd) = Queue!TAILQ_FIRST(q, fd)
      /\ \A q, i : Contract!Queue!ZeroElem(q, i) = Queue!ZeroElem(q, i)
      /\ \A q, i : Contract!Queue!RemoveDefined(q, i) <=> Queue!RemoveDefined(q, i)
  BY <1>1, ContractValues DEF Contract!Queue!TAILQ_INIT, Queue!TAILQ_INIT,
     Contract!Queue!TAILQ_FIRST, Queue!TAILQ_FIRST,
     Contract!Queue!ZeroElem, Queue!ZeroElem, Contract!Queue!RemoveDefined, Queue!RemoveDefined
<1> QED
  BY <1>1, <1>2, <1>3, <1>4

LEMMA ContractFrames ==
  /\ UNCHANGED Contract!vars <=> UNCHANGED vars
  /\ UNCHANGED Contract!iovars <=> UNCHANGED iovars
  /\ UNCHANGED Contract!allvars <=> UNCHANGED allvars
  /\ Contract!schedule <=> schedule
  /\ Contract!Stop <=> Stop
  /\ Contract!InProgram <=> InProgram
  /\ Contract!MayReturn <=> MayReturn
  /\ \A op : Contract!Resumed(op) <=> Resumed(op)
  /\ Contract!Arrived <=> Arrived
BY ContractValues DEF Contract!vars, vars, Contract!iovars, iovars, Contract!allvars, allvars,
   Contract!schedule, schedule, Contract!Stop, Stop,
   Contract!InUserCode, InUserCode, Contract!InProgram, InProgram, Contract!MayReturn, MayReturn,
   Contract!Resumed, Resumed,
   Contract!Arrived, Arrived

LEMMA ContractInit == Contract!Init <=> Init
BY ContractValues DEF Contract!Init, Init

LEMMA ContractCreate == \A id : Contract!create(id) <=> create(id)
<1>1. \A id : Contract!FirstFree(id) <=> FirstFree(id)
  BY ContractValues DEF Contract!FirstFree, FirstFree
<1>2. \A id : Contract!co_create(id) <=> co_create(id)
  BY <1>1, ContractValues DEF Contract!co_create, co_create, Contract!InUserCode, InUserCode
<1> QED
  BY <1>2, ContractValues, ContractQueues, ContractFrames DEF Contract!create, create

LEMMA ContractFinish == (Contract!finish <=> finish) /\ (Contract!finish_crash <=> finish_crash)
<1>1. Contract!Finish <=> Finish
  BY ContractValues DEF Contract!Finish, Finish, Contract!InUserCode, InUserCode, Contract!Ended,
     Ended, Contract!schedule, schedule
<1>2. Contract!Deregistered(current) = Deregistered(current)
  BY ContractValues DEF Contract!Deregistered, Deregistered
<1> DEFINE Rest ==
      /\ MayReturn
      /\ fds[current] = <<>> \/ Queue!RemoveDefined(block_queue, current)
      /\ Finish
      /\ interest' = Deregistered(current)
      /\ fds' = [fds EXCEPT ![current] = <<>>]
      /\ call' = [call EXCEPT ![current] = NoCall]
      /\ UNCHANGED <<events, revents, batch, ready>>
<1> DEFINE SameRest ==
      /\ Contract!MayReturn
      /\ fds[current] = <<>> \/ Contract!Queue!RemoveDefined(block_queue, current)
      /\ Contract!Finish
      /\ interest' = Contract!Deregistered(current)
      /\ fds' = [fds EXCEPT ![current] = <<>>]
      /\ call' = [call EXCEPT ![current] = Contract!NoCall]
      /\ UNCHANGED <<events, revents, batch, ready>>
<1>3. /\ finish <=> Rest /\ block_queue' = FoldRight(Unlink, fds[current], block_queue)
      /\ Contract!finish <=> Rest /\ block_queue' = Contract!FoldRight(Contract!Unlink, fds[current], block_queue)
  <2>1. finish <=> Rest /\ block_queue' = FoldRight(Unlink, fds[current], block_queue)
    BY Zenon DEF finish
  <2>2. Contract!finish <=> SameRest /\ block_queue' = Contract!FoldRight(Contract!Unlink, fds[current], block_queue)
    BY Zenon DEF Contract!finish
  <2>3. SameRest <=> Rest
    BY <1>1, <1>2, ContractValues, ContractQueues, ContractFrames
  <2> HIDE DEF Rest, SameRest
  <2> QED
    BY <2>1, <2>2, <2>3, Zenon
<1>4. Contract!finish <=> finish
  <2> HIDE DEF Rest
  <2>1. (block_queue' = Contract!FoldRight(Contract!Unlink, fds[current], block_queue))
          <=> (block_queue' = FoldRight(Unlink, fds[current], block_queue))
    BY Zenon DEF Contract!FoldRight, FoldRight, Contract!MapThenFoldSet, MapThenFoldSet,
       Contract!Min, Min,
       Contract!Unlink, Unlink, Contract!Queue!TAILQ_REMOVE, Queue!TAILQ_REMOVE,
       Contract!Queue!NIL, Queue!NIL, Contract!Queue!NextCell, Queue!NextCell
  <2> QED
    BY <1>3, <2>1, Zenon
<1>5. Contract!finish_crash <=> finish_crash
  BY ContractQueues, ContractFrames DEF Contract!finish_crash, finish_crash
<1> QED
  BY <1>4, <1>5

LEMMA ContractCall ==
  \A op, fd : StartWait(op, fd) /\ Contract!MayWait(op, fd) => Contract!StartWait(op, fd)
<1> SUFFICES ASSUME NEW op, NEW fd, StartWait(op, fd), Contract!MayWait(op, fd) PROVE Contract!StartWait(op, fd)
  OBVIOUS
<1>1. \A i, ev : /\ Contract!FirstTime(i, fd) <=> FirstTime(i, fd)
                 /\ Contract!NeedsMod(i, fd, ev) <=> NeedsMod(i, fd, ev)
  BY DEF Contract!FirstTime, FirstTime, Contract!NeedsMod, NeedsMod
<1>2. \A i, ev : /\ Contract!Noted(i, fd, ev) = Noted(i, fd, ev)
                 /\ Contract!Watched(i, fd, ev) = Watched(i, fd, ev)
                 /\ Contract!CtlFails(i, fd, ev) <=> CtlFails(i, fd, ev)
  BY <1>1 DEF Contract!Noted, Noted, Contract!Watched, Watched, Contract!CtlFails, CtlFails,
     Contract!Mark, Mark
<1>3. \A ev : Contract!add_queue(fd, ev) <=> add_queue(fd, ev)
  BY <1>1, <1>2 DEF Contract!add_queue, add_queue, Contract!Cleared, Cleared
<1> QED
  BY <1>2, <1>3, ContractValues, ContractQueues, ContractFrames DEF Contract!StartWait, StartWait

LEMMA ContractReturn ==
  /\ Contract!return_read <=> return_read
  /\ return_write /\ "backpressure" \notin Habits => Contract!return_write
<1>1. Contract!return_read <=> return_read
  BY ContractValues, ContractFrames DEF Contract!return_read, return_read
<1>2. return_write /\ "backpressure" \notin Habits => Contract!return_write
  BY ContractValues, ContractFrames DEF Contract!return_write, return_write, Contract!MaskAfter,
     MaskAfter
<1> QED
  BY <1>1, <1>2

LEMMA ContractLoop ==
  /\ Contract!WaitAgain <=> WaitAgain
  /\ Contract!EpollWait <=> EpollWait
  /\ Contract!EpollTimeout <=> EpollTimeout
  /\ Contract!EventsHandled <=> EventsHandled
  /\ \A ev : (Contract!HandleEvent(ev) <=> HandleEvent(ev)) /\ (Contract!HandleCrash(ev) <=> HandleCrash(ev))
  /\ StartLoop /\ fds[current] = <<>> /\ (\A i \in Slots : call[i] \notin InLoop) => Contract!StartLoop
<1>1. Contract!Reportable = Reportable /\ \A fd : Contract!Reported(fd) = Reported(fd)
  BY DEF Contract!Reportable, Reportable, Contract!Reported, Reported
<1>2. Contract!WaitAgain <=> WaitAgain
  BY ContractFrames DEF Contract!WaitAgain, WaitAgain
<1>3. (Contract!EpollWait <=> EpollWait) /\ (Contract!EpollTimeout <=> EpollTimeout)
  BY <1>1, ContractValues, ContractFrames DEF Contract!EpollWait, EpollWait,
     Contract!EpollTimeout, EpollTimeout
<1>4. Contract!EventsHandled <=> EventsHandled
  BY ContractValues, ContractFrames DEF Contract!EventsHandled, EventsHandled
<1>5. \A ev : Contract!HandleEvent(ev) <=> HandleEvent(ev)
  BY ContractQueues, ContractFrames DEF Contract!HandleEvent, HandleEvent, Contract!Dequeued, Dequeued
<1>6. \A ev : Contract!HandleCrash(ev) <=> HandleCrash(ev)
  BY ContractQueues, ContractFrames DEF Contract!HandleCrash, HandleCrash
<1>7. StartLoop /\ fds[current] = <<>> /\ (\A i \in Slots : call[i] \notin InLoop) => Contract!StartLoop
  BY ContractValues, ContractFrames DEF Contract!StartLoop, StartLoop, Contract!MayLeave
<1> QED
  BY <1>2, <1>3, <1>4, <1>5, <1>6, <1>7

LEMMA ContractOthers ==
  /\ Contract!Scheduler <=> Scheduler
  /\ \A fd : Contract!Arrive(fd) <=> Arrive(fd)
<1>1. (Contract!JoinWait <=> JoinWait) /\ (Contract!WakeScan <=> WakeScan) /\ (Contract!Repeat <=> Repeat) /\ (Contract!Tick <=> Tick)
  BY ContractValues, ContractFrames DEF Contract!JoinWait, JoinWait, Contract!WakeScan, WakeScan,
     Contract!Expired, Expired,
     Contract!getmstime, getmstime, Contract!Repeat, Repeat, Contract!Ready, Ready, Contract!Tick, Tick
<1>2. \A next : Contract!Pick(next) <=> Pick(next)
  BY ContractValues DEF Contract!Pick, Pick, Contract!Nearest, Nearest, Contract!Ready, Ready,
     Contract!Dist, Dist
<1>3. Contract!Scheduler <=> Scheduler
  BY <1>1, <1>2, ContractValues, ContractFrames DEF Contract!Scheduler, Scheduler
<1>4. \A fd : Contract!Arrive(fd) <=> Arrive(fd)
  BY ContractFrames DEF Contract!Arrive, Arrive
<1> QED
  BY <1>3, <1>4

LEMMA ContractIoInit == IoInit /\ "files" \notin Habits => Contract!IoInit
BY ContractValues, ContractQueues, ContractInit DEF Contract!IoInit, IoInit, Contract!Fresh, Fresh

\* A step of a program under the contract is one of CoIO with no Habits.
LEMMA ContractStep == "backpressure" \notin Habits /\ AbidingStep => Contract!IoNext
<1> SUFFICES ASSUME "backpressure" \notin Habits, AbidingStep PROVE Contract!IoNext
  OBVIOUS
<1>1. ASSUME NEW op, NEW fd, StartWait(op, fd), Abides(op, fd) PROVE Contract!StartWait(op, fd)
  <2>1. Contract!MayWait(op, fd)
    BY <1>1, ContractValues DEF StartWait, MayWait, Contract!MayWait, Abides, Contract!FirstTime,
       FirstTime
  <2> QED
    BY <1>1, <2>1, ContractCall
<1>2. CASE \E fd \in ListenFds : StartWait("accept", fd) /\ Abides("accept", fd)
  BY <1>1, <1>2 DEF Contract!IoNext, Contract!Waits
<1>3. CASE \E fd \in Fds \ ListenFds, op \in {"read", "write"} : StartWait(op, fd) /\ Abides(op, fd)
  BY <1>1, <1>3 DEF Contract!IoNext, Contract!Waits
<1>4. CASE (\E id \in Slots : create(id)) \/ finish \/ finish_crash \/ return_read \/ return_write
  BY <1>4, ContractValues, ContractCreate, ContractFinish, ContractReturn DEF Contract!IoNext
<1>5. CASE \/ StartLoop /\ fds[current] = <<>> /\ \A i \in Slots : call[i] \notin InLoop
           \/ WaitAgain \/ EpollWait \/ EpollTimeout \/ EventsHandled
           \/ \E ev \in batch : HandleEvent(ev) \/ HandleCrash(ev)
  BY <1>5, ContractLoop DEF Contract!IoNext
<1>6. CASE Scheduler \/ \E fd \in Fds : Arrive(fd)
  BY <1>6, ContractOthers DEF Contract!IoNext
<1> QED
  BY <1>2, <1>3, <1>4, <1>5, <1>6 DEF AbidingStep

-----------------------------------------------------------------------------
(***************************************************************************)
(* Every step abides by the contract.                                       *)
(***************************************************************************)

\* What CoIO's invariant says of the state that EchoServer reads.
LEMMA GivenFacts ==
  ASSUME Given!IoInv
  PROVE  /\ fds \in [Slots -> Seq(Fds)] /\ call \in [Slots -> Calls] /\ ready \in [Fds -> SUBSET Kinds]
         /\ batch \subseteq [fd : Fds, events : SUBSET Events]
         /\ phase # "stopped" => current \in Slots /\ status \in [Slots -> Statuses \cup {Free}]
         /\ \A i \in Slots : call[i].fd # NoFd => call[i].fd \in Uses(i)
<1>1. Given!IoTypeOK /\ Given!CallsOwn
  BY DEF Given!IoInv
<1>2. /\ fds \in [Slots -> Seq(Fds)] /\ ready \in [Fds -> SUBSET Kinds]
      /\ batch \subseteq [fd : Fds, events : SUBSET Events]
  BY <1>1, GivenValues DEF Given!IoTypeOK, Given!Kinds, Kinds, Given!Events, Events
<1>3. call \in [Slots -> Calls]
  BY <1>1, GivenValues DEF Given!IoTypeOK, Given!Calls, Calls
<1>4. phase # "stopped" => current \in Slots /\ status \in [Slots -> Statuses \cup {Free}]
  BY <1>1, GivenValues DEF Given!IoTypeOK, Given!TypeOK, Given!Statuses, Statuses
<1>5. \A i \in Slots : call[i].fd # NoFd => call[i].fd \in Uses(i)
  BY <1>1, GivenValues DEF Given!CallsOwn
<1> QED
  BY <1>2, <1>3, <1>4, <1>5

LEMMA Descriptors ==
  /\ 0 \in Slots /\ listenfd \in Fds /\ listenfd \notin Conns /\ listenfd # NoFd
  /\ Conns \subseteq Fds /\ Fds \ ListenFds = Conns /\ IsFiniteSet(Conns)
  /\ \A fd \in Fds : fd \in Nat /\ fd # NoFd
<1>1. Conns \subseteq Fds /\ Fds \ ListenFds = Conns
  BY DEF Conns
<1>2. IsFiniteSet(Conns)
  BY <1>1, EchoAssumption, FS_Subset
<1> QED
  BY <1>1, <1>2, EchoAssumption, CoIOAssumption, SchedAssumption DEF Conns, Slots, NoFd

\* What a coroutine that runs inside a call is at.
LEMMA AtCall ==
  ASSUME EchoInv, Given!IoInv, phase # "stopped"
  PROVE  /\ Resumed("accept") => pc[current] = "co_accept" /\ call[current].fd = listenfd
         /\ Resumed("read") => pc[current] = "co_read" /\ call[current].fd = Conn /\ Conn \in Uses(current)
         /\ Resumed("write") => pc[current] = "co_write" /\ call[current].fd = Conn
         /\ pc[current] \in Serving => Conn \in accepted /\ Conn \in Conns
<1>1. current \in Slots
  BY GivenFacts
<1>2. pc[current] \in Serving => Conn \in accepted /\ Conn \in Conns
  BY <1>1 DEF EchoInv, Roles, EchoTypes, Conn
<1>3. /\ Resumed("accept") => pc[current] = "co_accept" /\ call[current].fd = listenfd
      /\ Resumed("read") => pc[current] = "co_read" /\ call[current].fd = Conn
      /\ Resumed("write") => pc[current] = "co_write" /\ call[current].fd = Conn
  BY <1>1 DEF EchoInv, Calling, Resumed, Conn
<1>4. Resumed("read") => Conn \in Uses(current)
  BY <1>1, <1>2, <1>3, GivenFacts, Descriptors DEF Serving
<1> QED
  BY <1>2, <1>3, <1>4

\* No coroutine has the descriptor of another.
LEMMA OthersUse ==
  ASSUME EchoInv, phase # "stopped", current \in Slots
  PROVE  /\ pc[current] = "co_accept" => \A i \in Slots \ {current} : listenfd \notin Uses(i)
         /\ pc[current] \in Serving => \A i \in Slots \ {current} : Conn \notin Uses(i)
<1>1. /\ \A i, j \in Slots : pc[i] \in Accepting /\ pc[j] \in Accepting => i = j
      /\ \A i, j \in Slots : pc[i] \in Serving /\ pc[j] \in Serving /\ clifd[i] = clifd[j] => i = j
      /\ \A i \in Slots : pc[i] \in Serving => clifd[i] \in Conns
  BY DEF EchoInv, Roles, EchoTypes
<1>2. \A i \in Slots : Uses(i) \subseteq IF pc[i] \in Accepting THEN {listenfd}
                                         ELSE IF pc[i] \in Serving THEN {clifd[i]} ELSE {}
  BY DEF EchoInv, OwnUses
<1> QED
  BY <1>1, <1>2, Descriptors DEF Conn, Accepting

\* epoll_ctl takes the registration of the next call on a descriptor.
LEMMA CtlTakes ==
  ASSUME Given!IoInv, Given!RegInv, Kernel, InProgram, NEW fd \in Fds, NEW ev,
         \A i \in Slots \ {current} : fd \notin Uses(i)
  PROVE  ~CtlFails(current, fd, ev)
<1>1. /\ phase = "run" /\ phase # "stopped" /\ call[current] = NoCall
      /\ call[current] # Returning
  BY DEF InProgram, InUserCode, NoCall, Returning
<1>2. current \in Slots
  BY <1>1, GivenFacts
<1>3. status[current] \notin {Free, "EXIT"}
  BY <1>1, GivenValues DEF Given!IoInv, Given!RunsAlive, Given!Alive
<1>4. events[current][fd].fd = IF fd \in Uses(current) THEN fd ELSE 0
  BY <1>2, <1>3, GivenValues DEF Given!IoInv, Given!OneEach, Given!Alive
<1>5. FirstTime(current, fd) <=> fd \notin Uses(current)
  BY <1>4, Descriptors DEF FirstTime, Kernel
<1>6. /\ "FILE" \notin ready[fd]
      /\ interest[fd] # {} => \E i \in Slots : fd \in Uses(i)
      /\ fd \in Uses(current) => interest[fd] # {}
  BY <1>1, <1>2, GivenValues DEF Given!RegInv, Given!NoFiles, Given!Owned, Given!Registered
<1> QED
  BY <1>5, <1>6 DEF CtlFails

\* So every call waits; none makes the server exit before its schedule().
LEMMA WaitStarts ==
  ASSUME EchoInv, Given!IoInv, Given!RegInv, Kernel, accept_waits \/ client_reads \/ client_writes
  PROVE  /\ phase = "run" /\ current \in Slots /\ UNCHANGED echovars
         /\ \/ pc[current] = "co_accept" /\ StartWait("accept", listenfd)
            \/ pc[current] = "co_read" /\ StartWait("read", Conn)
            \/ pc[current] = "co_write" /\ StartWait("write", Conn)
<1>1. InProgram /\ phase = "run"
  BY DEF accept_waits, client_reads, client_writes, At, InProgram, InUserCode
<1>2. current \in Slots
  BY <1>1, GivenFacts
<1>3. CASE accept_waits
  <2>1. pc[current] = "co_accept" /\ UNCHANGED <<clifd, n, accepted, backlog, sent, taken, echoed, shut, resets>>
    BY <1>3 DEF accept_waits, At
  <2>2. ~CtlFails(current, listenfd, EventOf("accept"))
    BY <1>1, <1>2, <2>1, OthersUse, CtlTakes, Descriptors
  <2>3. StartWait("accept", listenfd) /\ pc' = pc
    BY <1>3, <2>2 DEF accept_waits, WaitOrExit
  <2> QED
    BY <1>1, <1>2, <2>1, <2>3 DEF echovars
<1>4. ASSUME NEW op, \/ op = "read" /\ pc[current] = "co_read"
                     \/ op = "write" /\ pc[current] = "co_write",
             WaitOrExit(op, Conn, "exit_client"),
             UNCHANGED <<clifd, n, accepted, backlog, sent, taken, echoed, shut, resets>>
      PROVE  StartWait(op, Conn) /\ UNCHANGED echovars
  <2>1. pc[current] \in Serving /\ Conn \in Fds
    BY <1>1, <1>4, AtCall, Descriptors DEF Serving
  <2>2. ~CtlFails(current, Conn, EventOf(op))
    BY <1>1, <1>2, <2>1, OthersUse, CtlTakes
  <2>3. StartWait(op, Conn) /\ pc' = pc
    BY <1>4, <2>2 DEF WaitOrExit
  <2> QED
    BY <1>4, <2>3 DEF echovars
<1>5. CASE client_reads
  BY <1>1, <1>2, <1>4, <1>5 DEF client_reads, At
<1>6. CASE client_writes
  BY <1>1, <1>2, <1>4, <1>6 DEF client_writes, At
<1> QED
  BY <1>3, <1>5, <1>6

LEMMA StepAbides ==
  ASSUME EchoInv, Given!IoInv, Given!RegInv, Kernel, [EchoNext]_evars
  PROVE  AbidingStep \/ UNCHANGED allvars
<1>1. CASE main_create
  BY <1>1 DEF main_create, AbidingStep
<1>2. CASE main_eventloop
  <2>1. phase # "stopped" /\ pc[current] = "co_eventloop" /\ StartLoop
    BY <1>2 DEF main_eventloop, At, InProgram, InUserCode
  <2>2. \A i \in Slots : call[i] \notin InLoop
    BY <2>1, GivenFacts DEF EchoInv, Roles, Mains, Calling
  <2>3. fds[current] = <<>>
    <3>1. fds[current] \in Seq(Fds) /\ Uses(current) = {}
      BY <2>1, GivenFacts DEF EchoInv, OwnUses, Accepting, Serving
    <3>2. ASSUME NEW s \in Seq(Fds), {s[k] : k \in 1 .. Len(s)} = {} PROVE s = <<>>
      <4>1. 1 \notin 1 .. Len(s)
        BY <3>2
      <4> QED
        BY <4>1
    <3> QED
      BY <3>1, <3>2 DEF Uses
  <2> QED
    BY <2>1, <2>2, <2>3 DEF AbidingStep
<1>3. CASE accept_waits
  <2>1. phase # "stopped" /\ pc[current] = "co_accept" /\ StartWait("accept", listenfd)
    BY <1>3, WaitStarts DEF accept_waits, At
  <2>2. Abides("accept", listenfd)
    BY <2>1, OthersUse, GivenFacts DEF Abides, EchoInv, OwnUses, Accepting
  <2> QED
    BY <2>1, <2>2, EchoAssumption DEF AbidingStep
<1>4. CASE client_reads \/ client_writes
  <2>1. PICK op \in {"read", "write"} :
           phase # "stopped" /\ pc[current] \in {"co_read", "co_write"} /\ StartWait(op, Conn)
             /\ (op = "write" => pc[current] = "co_write")
    BY <1>4, WaitStarts DEF client_reads, client_writes, At
  <2>2. current \in Slots /\ Conn \in Conns
    BY <2>1, GivenFacts, AtCall DEF Serving
  <2>3. Abides(op, Conn)
    BY <2>1, <2>2, OthersUse DEF Abides, EchoInv, OwnUses, Conn, Serving, Accepting
  <2> QED
    BY <2>1, <2>2, <2>3, Descriptors DEF AbidingStep
<1>5. CASE accept_returns \/ accept_fails \/ read_returns \/ write_returns
  BY <1>5 DEF accept_returns, accept_fails, read_returns, write_returns, AbidingStep
<1>6. CASE create_client \/ create_client_fails
  BY <1>6 DEF create_client, create_client_fails, AbidingStep
<1>7. CASE client_ends
  BY <1>7 DEF client_ends, AbidingStep
<1>8. CASE Library
  BY <1>8 DEF Library, AbidingStep
<1>9. CASE Peers
  BY <1>9, Descriptors DEF Peers, Connect, Send, Shutdown, Reset, Arrives, AbidingStep
<1>10. CASE UNCHANGED evars
  BY <1>10 DEF evars
<1> QED
  BY <1>1, <1>2, <1>3, <1>4, <1>5, <1>6, <1>7, <1>8, <1>9, <1>10 DEF EchoNext, Process, Terminating

-----------------------------------------------------------------------------
(***************************************************************************)
(* Every step keeps the invariant.                                          *)
(***************************************************************************)

\* No coroutine is reaped: demo03 joins none.
LEMMA NoneFreed ==
  ASSUME Given!IoInv, AbidingStep \/ UNCHANGED allvars
  PROVE  \A i \in Slots : status'[i] = Free => status[i] = Free
<1>0. phase # "stopped" => current \in Slots /\ status \in [Slots -> Statuses \cup {Free}]
  BY GivenFacts
<1>1. ASSUME NEW id \in Slots, create(id) PROVE \A i \in Slots : status'[i] = Free => status[i] = Free
  BY <1>0, <1>1 DEF create, co_create, InProgram, InUserCode, Free
<1>2. ASSUME NEW op, NEW fd, StartWait(op, fd) PROVE \A i \in Slots : status'[i] = Free => status[i] = Free
  BY <1>0, <1>2 DEF StartWait, add_queue, InProgram, InUserCode, Free
<1>3. ASSUME finish \/ WaitAgain PROVE \A i \in Slots : status'[i] = Free => status[i] = Free
  BY <1>0, <1>3 DEF finish, Finish, WaitAgain, Resumed, InUserCode, Ended, Free
<1>4. ASSUME NEW ev, HandleEvent(ev) PROVE \A i \in Slots : status'[i] = Free => status[i] = Free
  BY <1>0, <1>4 DEF HandleEvent, Resumed, Free
<1>5. ASSUME Scheduler PROVE \A i \in Slots : status'[i] = Free => status[i] = Free
  BY <1>0, <1>5 DEF Scheduler, JoinWait, WakeScan, Pick, Repeat, Tick, Free
<1>6. ASSUME \/ StartLoop \/ return_read \/ return_write \/ EpollWait \/ EpollTimeout \/ EventsHandled
             \/ finish_crash \/ (\E ev \in batch : HandleCrash(ev)) \/ (\E fd \in Fds : Arrive(fd))
             \/ UNCHANGED allvars
      PROVE  status' = status
  BY <1>6 DEF StartLoop, return_read, return_write, EpollWait, EpollTimeout, EventsHandled,
     finish_crash,
     HandleCrash, Stop, Arrive, allvars, vars
<1> QED
  BY <1>1, <1>2, <1>3, <1>4, <1>5, <1>6 DEF AbidingStep

\* Steps that leave the program's own variables alone.
LEMMA LibraryStep ==
  ASSUME EchoInv, Given!IoInv, Library \/ UNCHANGED evars
  PROVE  EchoInv'
<1>0. \A i \in Slots : status'[i] = Free => status[i] = Free
  BY NoneFreed DEF Library, AbidingStep, evars
<1>1. UNCHANGED echovars /\ ready' = ready /\ fds' = fds
  BY DEF Library, WaitAgain, EpollWait, EpollTimeout, EventsHandled, HandleEvent, HandleCrash, Stop,
     Scheduler, evars, allvars, iovars
<1>2. EchoTypes' /\ Roles' /\ Readable' /\ Traffic' /\ ExitCauses'
  <2>1. EchoTypes' /\ Roles' /\ Readable' /\ Traffic'
    BY <1>0, <1>1 DEF EchoInv, echovars, EchoTypes, Roles, Readable, Traffic, Served
  <2>2. ExitCauses'
    BY <1>1 DEF EchoInv, echovars, ExitCauses, Faulted
  <2> QED
    BY <2>1, <2>2
<1>3. phase' # "stopped" => phase # "stopped"
  BY DEF Library, WaitAgain, EpollWait, EpollTimeout, EventsHandled, HandleEvent, HandleCrash, Stop,
     Scheduler, JoinWait, WakeScan, Pick, Repeat, Tick, Resumed, evars, allvars, vars
<1>4. ASSUME phase' # "stopped" PROVE Calling' /\ OwnUses'
  <2>1. Calling /\ OwnUses /\ current \in Slots /\ call \in [Slots -> Calls]
    BY <1>3, <1>4, GivenFacts DEF EchoInv
  <2>2. \/ call' = call
        \/ /\ call[current] \in InLoop
           /\ \E c \in InLoop : call' = [call EXCEPT ![current] = c]
    <3>1. ASSUME EpollWait \/ EventsHandled PROVE call[current].op \in {"epoll_wait", "handle"}
      BY <3>1 DEF EpollWait, EventsHandled, Resumed
    <3>2. \A c \in Calls : c.op \in {"epoll_wait", "handle"} => c \in InLoop
      BY DEF Calls, InLoop, NoCall, Returning
    <3>3. ASSUME EpollWait \/ EventsHandled
          PROVE  \E c \in InLoop : call' = [call EXCEPT ![current] = c]
      BY <3>3 DEF EpollWait, EventsHandled, InLoop
    <3>4. ASSUME ~(EpollWait \/ EventsHandled) PROVE call' = call
      BY <3>4 DEF Library, WaitAgain, EpollTimeout, HandleEvent, HandleCrash, Stop, Scheduler, evars,
         allvars, iovars
    <3> QED
      BY <2>1, <3>1, <3>2, <3>3, <3>4
  <2>3. Calling'
    BY <1>1, <2>1, <2>2 DEF Calling, echovars, InLoop, AtEpollWait, HandlingEvents, Returning
  <2>4. OwnUses'
    <3>1. \A i \in Slots : Uses(i)' = Uses(i)
      BY <1>1 DEF Uses
    <3> QED
      BY <1>1, <2>1, <3>1 DEF OwnUses, echovars
  <2> QED
    BY <2>3, <2>4
<1> QED
  BY <1>2, <1>4 DEF EchoInv

\* What a list names once something is appended to it.
LEMMA AppendNames ==
  ASSUME NEW s \in Seq(Fds), NEW fd \in Fds
  PROVE  {Append(s, fd)[k] : k \in 1 .. Len(Append(s, fd))} = {s[k] : k \in 1 .. Len(s)} \cup {fd}
<1> DEFINE t == Append(s, fd)
<1>1. /\ Len(t) = Len(s) + 1 /\ Len(s) \in Nat
      /\ t[Len(s) + 1] = fd /\ \A k \in 1 .. Len(s) : t[k] = s[k]
  OBVIOUS
<1>2. \A k : k \in 1 .. Len(t) <=> k \in 1 .. Len(s) \/ k = Len(s) + 1
  BY <1>1
<1> HIDE DEF t
<1>3. {t[k] : k \in 1 .. Len(t)} = {s[k] : k \in 1 .. Len(s)} \cup {fd}
  BY <1>1, <1>2
<1> QED
  BY <1>3 DEF t

\* co_accept, co_read and co_write up to their schedule().
LEMMA WaitStep ==
  ASSUME EchoInv, Given!IoInv, Given!RegInv, Kernel, accept_waits \/ client_reads \/ client_writes
  PROVE  EchoInv'
<1>1. PICK op \in {"accept", "read", "write"}, fd \in Fds :
        /\ phase = "run" /\ StartWait(op, fd) /\ UNCHANGED echovars
        /\ op = "accept" => pc[current] = "co_accept" /\ fd = listenfd
        /\ op = "read" => pc[current] = "co_read" /\ fd = Conn
        /\ op = "write" => pc[current] = "co_write" /\ fd = Conn
  <2>1. phase = "run" /\ (pc[current] \in {"co_read", "co_write"} => Conn \in Fds)
    BY WaitStarts, AtCall, Descriptors DEF Serving
  <2> QED
    BY <2>1, WaitStarts, Descriptors
<1>2. /\ current \in Slots /\ Calling /\ OwnUses
      /\ fds \in [Slots -> Seq(Fds)] /\ call \in [Slots -> Calls]
  BY <1>1, GivenFacts DEF EchoInv
<1>3. \A i \in Slots : status'[i] = Free => status[i] = Free
  <2>1. status \in [Slots -> Statuses \cup {Free}]
    BY <1>1, GivenFacts
  <2> QED
    BY <1>1, <2>1 DEF StartWait, add_queue, Free
<1>4. EchoTypes' /\ Roles' /\ Readable' /\ Traffic' /\ ExitCauses'
  <2>1. ready' = ready
    BY <1>1 DEF StartWait
  <2>2. EchoTypes' /\ Roles' /\ Readable' /\ Traffic'
    BY <1>1, <1>3, <2>1 DEF EchoInv, echovars, EchoTypes, Roles, Readable, Traffic, Served
  <2>3. ExitCauses'
    BY <1>1 DEF EchoInv, echovars, ExitCauses, Faulted
  <2> QED
    BY <2>2, <2>3
<1>5. call' = [call EXCEPT ![current] = [op |-> op, fd |-> fd]]
  BY <1>1 DEF StartWait
<1>6. Calling'
  <2>1. [op |-> op, fd |-> fd] \notin InLoop /\ [op |-> op, fd |-> fd] # Returning
    BY DEF InLoop, AtEpollWait, HandlingEvents, Returning
  <2> QED
    BY <1>1, <1>2, <1>5, <2>1 DEF Calling, echovars, Conn
<1>7. \A i \in Slots : Uses(i) \subseteq Uses(i)' /\ Uses(i)' \subseteq Uses(i) \cup (IF i = current THEN {fd} ELSE {})
  <2>1. fds' = fds \/ fds' = [fds EXCEPT ![current] = Append(@, fd)]
    BY <1>1 DEF StartWait, add_queue
  <2>2. CASE fds' = fds
    BY <2>2 DEF Uses
  <2>3. CASE fds' = [fds EXCEPT ![current] = Append(@, fd)]
    <3>1. \A i \in Slots : i # current => Uses(i)' = Uses(i)
      BY <1>2, <2>3 DEF Uses
    <3>2. fds[current] \in Seq(Fds) /\ fds'[current] = Append(fds[current], fd)
      BY <1>2, <2>3
    <3>3. ASSUME NEW i \in Slots, i = current PROVE Uses(i)' = Uses(i) \cup {fd}
      <4>1. fds[i] \in Seq(Fds) /\ fds'[i] = Append(fds[i], fd)
        BY <3>2, <3>3
      <4>2. {Append(fds[i], fd)[k] : k \in 1 .. Len(Append(fds[i], fd))} = Uses(i) \cup {fd}
        BY <4>1, AppendNames DEF Uses
      <4> QED
        BY <4>1, <4>2 DEF Uses
    <3>4. \A i \in Slots : Uses(i)' = IF i = current THEN Uses(i) \cup {fd} ELSE Uses(i)
      BY <3>1, <3>3
    <3> QED
      BY <3>4
  <2> QED
    BY <2>1, <2>2, <2>3
<1>8. OwnUses'
  <2> SUFFICES ASSUME NEW i \in Slots
               PROVE  /\ Uses(i)' \subseteq IF pc[i] \in Accepting THEN {listenfd}
                                            ELSE IF pc[i] \in Serving THEN {clifd[i]} ELSE {}
                      /\ pc[i] = "co_write" => clifd[i] \in Uses(i)'
    BY <1>1 DEF OwnUses, echovars
  <2>1. i = current => (pc[i] \in Accepting /\ fd = listenfd)
                         \/ (pc[i] \notin Accepting /\ pc[i] \in Serving /\ fd = clifd[i])
    BY <1>1 DEF Accepting, Serving, Conn
  <2> QED
    BY <1>2, <1>7, <2>1 DEF OwnUses
<1> QED
  BY <1>4, <1>6, <1>8 DEF EchoInv

\* co_create: main's and my_accept's.
LEMMA CreateEffect ==
  ASSUME EchoInv, Given!IoInv, InProgram, NEW id \in Slots, create(id)
  PROVE  /\ current \in Slots /\ Calling /\ OwnUses
         /\ pc[id] = "none" /\ call[current] = NoCall
         /\ UNCHANGED <<call, ready>>
         /\ \A i \in Slots : status'[i] = Free => status[i] = Free /\ i # id
         /\ \A i \in Slots : Uses(i)' = IF i = id THEN {} ELSE Uses(i)
<1>1. /\ phase # "stopped" /\ call[current] = NoCall /\ UNCHANGED <<call, ready>>
      /\ status[id] = Free /\ status' = [status EXCEPT ![id] = "RUNNING"]
      /\ fds' = [fds EXCEPT ![id] = <<>>]
  BY DEF InProgram, InUserCode, create, co_create, FirstFree
<1>2. /\ current \in Slots /\ status \in [Slots -> Statuses \cup {Free}] /\ fds \in [Slots -> Seq(Fds)]
      /\ Calling /\ OwnUses
  BY <1>1, GivenFacts DEF EchoInv
<1>3. pc[id] = "none"
  BY <1>1 DEF EchoInv, Roles
<1>4. \A i \in Slots : status'[i] = Free => status[i] = Free /\ i # id
  BY <1>1, <1>2 DEF Free
<1>5. \A i \in Slots : Uses(i)' = IF i = id THEN {} ELSE Uses(i)
  BY <1>1, <1>2 DEF Uses
<1> QED
  BY <1>1, <1>2, <1>3, <1>4, <1>5

LEMMA MainCreates ==
  ASSUME EchoInv, Given!IoInv, main_create
  PROVE  EchoInv'
<1>1. PICK id \in Slots :
        create(id) /\ pc' = [pc EXCEPT ![0] = "co_eventloop", ![id] = "co_accept"]
  BY DEF main_create
<1>2. InProgram /\ pc[current] = "co_create"
      /\ UNCHANGED <<clifd, n, accepted, backlog, sent, taken, echoed, shut, resets>>
  BY DEF main_create, At
<1>3. /\ current \in Slots /\ Calling /\ OwnUses
      /\ pc[id] = "none" /\ call[current] = NoCall
      /\ UNCHANGED <<call, ready>>
      /\ \A i \in Slots : status'[i] = Free => status[i] = Free /\ i # id
      /\ \A i \in Slots : Uses(i)' = IF i = id THEN {} ELSE Uses(i)
  BY <1>1, <1>2, CreateEffect
<1>4. current = 0 /\ id # 0 /\ pc \in [Slots -> {"none"} \cup Mains \cup Accepting \cup Serving]
      /\ \A i \in Slots : pc[i] \notin Accepting
  BY <1>2, <1>3 DEF EchoInv, EchoTypes, Roles, Mains
<1>5. \A i \in Slots : pc'[i] = IF i = 0 THEN "co_eventloop" ELSE IF i = id THEN "co_accept" ELSE pc[i]
  BY <1>1, <1>4
<1>6. EchoTypes'
  BY <1>1, <1>2, <1>4, Descriptors DEF EchoInv, EchoTypes, Mains, Accepting
<1>7. Roles'
  BY <1>2, <1>3, <1>4, <1>5, Descriptors DEF EchoInv, Roles, Mains, Accepting, Serving
<1>8. \A i \in Slots : pc'[i] \in Serving <=> pc[i] \in Serving
  BY <1>2, <1>3, <1>4, <1>5 DEF Serving
<1>9. Readable' /\ Traffic'
  BY <1>2, <1>3, <1>4, <1>5, <1>8 DEF EchoInv, Readable, Traffic, Served
<1>10. Calling'
  BY <1>2, <1>3, <1>4, <1>5 DEF Calling, NoCall, InLoop, AtEpollWait, HandlingEvents
<1>11. OwnUses'
  BY <1>2, <1>3, <1>4, <1>5 DEF OwnUses, Accepting, Serving
<1>12. ExitCauses'
  BY <1>2, <1>5 DEF EchoInv, ExitCauses, Faulted
<1> QED
  BY <1>6, <1>7, <1>9, <1>10, <1>11, <1>12 DEF EchoInv

LEMMA AcceptCreates ==
  ASSUME EchoInv, Given!IoInv, create_client
  PROVE  EchoInv'
<1>1. PICK id \in Slots :
        /\ create(id) /\ pc' = [pc EXCEPT ![current] = "co_accept", ![id] = "co_read"]
        /\ clifd' = [clifd EXCEPT ![id] = clifd[current]]
  BY DEF create_client, FirstCall
<1>2. InProgram /\ pc[current] = "co_create_client"
      /\ UNCHANGED <<n, accepted, backlog, sent, taken, echoed, shut, resets>>
  BY DEF create_client, At
<1>3. /\ current \in Slots /\ Calling /\ OwnUses
      /\ pc[id] = "none" /\ call[current] = NoCall
      /\ UNCHANGED <<call, ready>>
      /\ \A i \in Slots : status'[i] = Free => status[i] = Free /\ i # id
      /\ \A i \in Slots : Uses(i)' = IF i = id THEN {} ELSE Uses(i)
  BY <1>1, <1>2, CreateEffect
<1>4. current # id /\ pc \in [Slots -> {"none"} \cup Mains \cup Accepting \cup Serving]
      /\ clifd \in [Slots -> Conns \cup {NoFd}]
      /\ clifd[current] \in accepted /\ accepted \subseteq Conns
      /\ \A j \in Slots : pc[j] \in Serving => clifd[j] # clifd[current]
  BY <1>2, <1>3 DEF EchoInv, EchoTypes, Roles
<1>5. /\ \A i \in Slots : pc'[i] = IF i = current THEN "co_accept" ELSE IF i = id THEN "co_read" ELSE pc[i]
      /\ \A i \in Slots : clifd'[i] = IF i = id THEN clifd[current] ELSE clifd[i]
  BY <1>1, <1>3, <1>4
<1>6. EchoTypes'
  BY <1>1, <1>2, <1>3, <1>4 DEF EchoInv, EchoTypes, Accepting, Serving
<1>7. Roles'
  BY <1>2, <1>3, <1>4, <1>5, Descriptors DEF EchoInv, Roles, Mains, Accepting, Serving
<1>8. \A i \in Slots : pc'[i] \in Serving <=> pc[i] \in Serving \/ i = id
  BY <1>2, <1>3, <1>4, <1>5 DEF Serving
<1>9. Readable'
  BY <1>2, <1>3 DEF EchoInv, Readable
<1>10. \A fd \in Conns : Served(fd)' <=> Served(fd) \/ fd = clifd[current]
  BY <1>3, <1>5, <1>8, <1>4 DEF Served, Serving
<1>11. ~Served(clifd[current]) /\ clifd[current] \in Conns
  BY <1>4 DEF Served
<1>12. Traffic'
  <2>1. Traffic /\ taken[clifd[current]] = echoed[clifd[current]] /\ n[id] = 0
        /\ taken \in [Conns -> Nat] /\ echoed \in [Conns -> Nat]
    BY <1>3, <1>11 DEF EchoInv, Traffic, EchoTypes
  <2>2. \A fd \in Conns : ~Served(fd)' =>
          taken[fd] = echoed[fd] /\ (taken[fd] > 0 => fd \in shut /\ echoed[fd] = sent[fd])
    BY <1>10, <2>1 DEF Traffic
  <2>3. \A i \in Slots :
          /\ pc'[i] \notin {"co_write", "exit_client"} => n[i] = 0
          /\ pc'[i] \in Serving => taken[clifd'[i]] = echoed[clifd'[i]] + n[i]
          /\ pc'[i] = "break" => clifd'[i] \in shut /\ taken[clifd'[i]] = sent[clifd'[i]]
    BY <1>2, <1>4, <1>5, <1>8, <1>11, <2>1 DEF Traffic
  <2> QED
    BY <1>2, <2>1, <2>2, <2>3 DEF Traffic
<1>13. Calling'
  BY <1>2, <1>3, <1>4, <1>5 DEF Calling, NoCall, InLoop, AtEpollWait, HandlingEvents
<1>14. OwnUses'
  BY <1>2, <1>3, <1>4, <1>5 DEF OwnUses, Accepting, Serving
<1>15. ExitCauses'
  BY <1>2, <1>5 DEF EchoInv, ExitCauses, Faulted
<1> QED
  BY <1>6, <1>7, <1>9, <1>12, <1>13, <1>14, <1>15 DEF EchoInv

\* Two moves to another statement that serves nobody.
LEMMA MainOrFull ==
  ASSUME EchoInv, Given!IoInv, main_eventloop \/ create_client_fails
  PROVE  EchoInv'
<1>1. /\ InProgram /\ phase # "stopped" /\ current \in Slots /\ Calling /\ OwnUses
      /\ pc \in [Slots -> {"none"} \cup Mains \cup Accepting \cup Serving] /\ call \in [Slots -> Calls]
  <2>1. InProgram /\ phase # "stopped"
    BY DEF main_eventloop, create_client_fails, At, InProgram, InUserCode
  <2> QED
    BY <2>1, GivenFacts DEF EchoInv, EchoTypes
<1>2. PICK to \in {"loops", "co_accept"} :
        /\ pc' = [pc EXCEPT ![current] = to]
        /\ IF to = "loops" THEN pc[current] = "co_eventloop" /\ call' = [call EXCEPT ![current] = AtEpollWait]
           ELSE pc[current] = "co_create_client" /\ call' = call
        /\ UNCHANGED <<status, fds, ready, clifd, n, accepted, backlog, sent, taken, echoed, shut, resets>>
  BY DEF main_eventloop, create_client_fails, StartLoop, At, Goto, allvars, vars, iovars
<1>3. \A i \in Slots : pc'[i] = IF i = current THEN to ELSE pc[i]
  BY <1>1, <1>2
<1>4. EchoTypes' /\ Roles'
  BY <1>1, <1>2, <1>3, Descriptors DEF EchoInv, EchoTypes, Roles, Mains, Accepting, Serving
<1>5. \A i \in Slots : pc'[i] \in Serving <=> pc[i] \in Serving
  BY <1>1, <1>2, <1>3 DEF Serving
<1>6. Readable' /\ Traffic'
  BY <1>1, <1>2, <1>3, <1>5 DEF EchoInv, Readable, Traffic, Served
<1>7. Calling'
  BY <1>1, <1>2, <1>3 DEF Calling, InProgram, NoCall, InLoop, AtEpollWait, HandlingEvents, Returning
<1>8. OwnUses'
  <2>1. \A i \in Slots : Uses(i)' = Uses(i)
    BY <1>2 DEF Uses
  <2>2. /\ \A i \in Slots : pc'[i] = "co_write" <=> pc[i] = "co_write"
        /\ \A i \in Slots : i # current => pc'[i] = pc[i]
        /\ pc'[current] \in Accepting => pc[current] \in Accepting
        /\ pc[current] \notin Serving /\ pc'[current] \notin Serving
        /\ pc[current] \in Accepting => pc'[current] \in Accepting
    BY <1>1, <1>2, <1>3 DEF Accepting, Serving
  <2>3. \A i \in Slots : Uses(i) \subseteq IF pc'[i] \in Accepting THEN {listenfd}
                         ELSE IF pc'[i] \in Serving THEN {clifd[i]} ELSE {}
    BY <1>1, <1>5, <2>2 DEF OwnUses
  <2> QED
    BY <1>1, <1>2, <2>1, <2>2, <2>3 DEF OwnUses
<1>9. ExitCauses'
  BY <1>2, <1>3 DEF EchoInv, ExitCauses, Faulted
<1> QED
  BY <1>4, <1>6, <1>7, <1>8, <1>9 DEF EchoInv

\* do_client returns.
LEMMA ClientEnds ==
  ASSUME EchoInv, Given!IoInv, client_ends
  PROVE  EchoInv'
<1>1. /\ phase = "run" /\ call[current] = NoCall /\ pc[current] = "break"
      /\ finish \/ finish_crash
      /\ pc' = [pc EXCEPT ![current] = "none"]
      /\ UNCHANGED <<clifd, n, accepted, backlog, sent, taken, echoed, shut, resets>>
  BY DEF client_ends, At, Goto, InProgram, InUserCode
<1>2. /\ current \in Slots /\ fds \in [Slots -> Seq(Fds)] /\ call \in [Slots -> Calls]
      /\ status \in [Slots -> Statuses \cup {Free}]
      /\ pc \in [Slots -> {"none"} \cup Mains \cup Accepting \cup Serving]
      /\ Calling /\ OwnUses
  BY <1>1, GivenFacts DEF EchoInv, EchoTypes
<1>3. \A i \in Slots : pc'[i] = IF i = current THEN "none" ELSE pc[i]
  BY <1>1, <1>2
<1>4. \A i \in Slots : status'[i] = Free => status[i] = Free
  BY <1>1, <1>2 DEF finish, finish_crash, Finish, Stop, Ended, Free
<1>5. ready' = ready
  BY <1>1 DEF finish, finish_crash, Stop, iovars
<1>6. EchoTypes' /\ Roles'
  BY <1>1, <1>2, <1>3, <1>4 DEF EchoInv, EchoTypes, Roles, Mains, Accepting, Serving
<1>7. Readable'
  BY <1>1, <1>5 DEF EchoInv, Readable
<1>8. Traffic'
  <2>1. Traffic /\ clifd[current] \in shut /\ taken[clifd[current]] = sent[clifd[current]]
        /\ taken[clifd[current]] = echoed[clifd[current]] + n[current] /\ n[current] = 0
    BY <1>1, <1>2 DEF EchoInv, Traffic, Serving
  <2>2. \A fd \in Conns : ~Served(fd)' => fd = clifd[current] \/ ~Served(fd)
    BY <1>1, <1>2, <1>3 DEF Served, Serving
  <2>3. /\ taken \in [Conns -> Nat] /\ echoed \in [Conns -> Nat] /\ sent \in [Conns -> 0 .. MaxSent]
        /\ clifd[current] \in Conns
    BY <2>1 DEF EchoInv, EchoTypes
  <2>4. taken[clifd[current]] = echoed[clifd[current]]
    BY <2>1, <2>3
  <2>5. \A fd \in Conns : ~Served(fd)' =>
          taken[fd] = echoed[fd] /\ (taken[fd] > 0 => fd \in shut /\ echoed[fd] = sent[fd])
    BY <2>1, <2>2, <2>4 DEF Traffic
  <2> QED
    BY <1>1, <1>2, <1>3, <2>1, <2>5 DEF Traffic, Serving
<1>9. ExitCauses'
  BY <1>1, <1>3 DEF EchoInv, ExitCauses, Faulted
<1>10. CASE finish_crash
  <2>1. phase' = "stopped"
    BY <1>10 DEF finish_crash, Stop
  <2> QED
    BY <1>6, <1>7, <1>8, <1>9, <2>1 DEF EchoInv
<1>11. CASE finish
  <2>1. call' = [call EXCEPT ![current] = NoCall] /\ fds' = [fds EXCEPT ![current] = <<>>]
    BY <1>11 DEF finish
  <2>2. Calling'
    BY <1>1, <1>2, <1>3, <2>1 DEF Calling, NoCall, InLoop, AtEpollWait, HandlingEvents, Returning
  <2>3. \A i \in Slots : Uses(i)' = IF i = current THEN {} ELSE Uses(i)
    BY <1>2, <2>1 DEF Uses
  <2>4. OwnUses'
    BY <1>1, <1>2, <1>3, <2>3 DEF OwnUses, Accepting, Serving
  <2> QED
    BY <1>6, <1>7, <1>8, <1>9, <2>2, <2>4 DEF EchoInv
<1> QED
  BY <1>1, <1>10, <1>11

\* The end of a call: the coroutine is in no call, and still has its descriptor.
LEMMA ReturnsEffect ==
  ASSUME EchoInv, Given!IoInv, return_read \/ return_write, pc[current] \in {"co_accept", "co_read", "co_write"}
  PROVE  /\ phase # "stopped" /\ current \in Slots /\ Calling /\ OwnUses
         /\ \A i \in Slots : call'[i] = IF i = current THEN NoCall ELSE call[i]
         /\ \A i \in Slots : Uses(i)' = Uses(i)
         /\ status' = status
         /\ \A fd \in Fds : fd # call[current].fd => ready'[fd] = ready[fd]
         /\ \A fd \in Fds : ready'[fd] \subseteq ready[fd]
<1>1. /\ phase # "stopped" /\ status' = status /\ fds' = fds
      /\ call' = [call EXCEPT ![current] = NoCall]
  BY DEF return_read, return_write, Resumed, vars
<1>2. /\ current \in Slots /\ call \in [Slots -> Calls] /\ ready \in [Fds -> SUBSET Kinds]
      /\ Calling /\ OwnUses
  BY <1>1, GivenFacts DEF EchoInv
<1>3. /\ \A fd \in Fds : fd # call[current].fd => ready'[fd] = ready[fd]
      /\ \A fd \in Fds : ready'[fd] \subseteq ready[fd]
  BY <1>2 DEF return_read, return_write
<1> QED
  BY <1>1, <1>2, <1>3 DEF Uses

\* What a call was woken for is still there.
LEMMA WokenReady ==
  ASSUME Given!IoInv, SyscallReady, phase # "stopped", Arrived, Resumed("accept") \/ Resumed("read"),
         call[current].fd \in Fds
  PROVE  "IN" \in ready[call[current].fd]
<1>1. current \in Slots
  BY GivenFacts
<1>2. EventOf(call[current].op) = "IN"
  BY DEF EventOf, Resumed
<1> QED
  BY <1>1, <1>2, Descriptors DEF SyscallReady, Arrived

\* A set of numbers has a least one.
LEMMA Least ==
  ASSUME NEW S \in SUBSET Nat, S # {}
  PROVE  \E m \in S : \A other \in S : m <= other
<1> DEFINE Less == OpToRel(<, Nat)
<1>1. Less = {ss \in Nat \X Nat : ss[1] < ss[2]}
  BY Zenon DEF OpToRel
<1>2. IsWellFoundedOn(Less, Nat)
  BY NatLessThanWellFounded, Zenon
<1> HIDE DEF Less
<1>3. PICK m \in S : \A other \in S : ~(<<other, m>> \in Less)
  BY <1>2, WFMin
<1>4. \A a, b \in Nat : <<a, b>> \in Nat \X Nat /\ <<a, b>>[1] = a /\ <<a, b>>[2] = b
  OBVIOUS
<1>5. \A a, b \in Nat : <<a, b>> \in Less <=> a < b
  BY <1>1, <1>4, Zenon
<1>6. \A other \in S : ~(other < m)
  BY <1>3, <1>5, Zenon
<1>7. \A other \in S : m <= other
  BY <1>6
<1> QED
  BY <1>7

\* accept() has a number to give out.
LEMMA NewFdOf ==
  ASSUME EchoInv, backlog > 0, accepted # Conns
  PROVE  /\ NewFd \in Conns \ accepted
         /\ backlog - 1 \in 0 .. Cardinality(Conns \ (accepted \cup {NewFd})) + 1
<1> DEFINE Left == Conns \ accepted
<1>1. IsFiniteSet(Left) /\ Left \subseteq Nat
  BY Descriptors, FS_Subset
<1>2. backlog \in Nat /\ backlog <= Cardinality(Left) + 1 /\ Cardinality(Left) \in Nat
  BY <1>1, FS_CardinalityType DEF EchoInv, EchoTypes
<1>3. Left # {}
  BY DEF EchoInv, EchoTypes
<1>4. \E fd \in Left : \A other \in Left : fd <= other
  BY <1>1, <1>3, Least
<1>5. NewFd \in Left
  BY <1>4 DEF NewFd
<1>6. Conns \ (accepted \cup {NewFd}) = Left \ {NewFd}
  OBVIOUS
<1>7. Cardinality(Left \ {NewFd}) = Cardinality(Left) - 1
  BY <1>1, <1>5, FS_RemoveElement
<1>8. Cardinality(Conns \ (accepted \cup {NewFd})) = Cardinality(Left) - 1
  BY <1>6, <1>7
<1> HIDE DEF Left
<1>9. backlog - 1 \in 0 .. Cardinality(Conns \ (accepted \cup {NewFd})) + 1
  BY <1>2, <1>8
<1> QED
  BY <1>5, <1>9 DEF Left

LEMMA AcceptReturns ==
  ASSUME EchoInv, Given!IoInv, SyscallReady, accept_returns
  PROVE  EchoInv'
<1>1. /\ Resumed("accept") /\ return_read /\ Arrived /\ phase # "stopped" /\ accepted # Conns
      /\ ready'[listenfd] = IF backlog > 1 THEN {"IN"} ELSE {}
      /\ accepted' = accepted \cup {NewFd} /\ backlog' = backlog - 1
      /\ clifd' = [clifd EXCEPT ![current] = NewFd]
      /\ pc' = [pc EXCEPT ![current] = "co_create_client"]
      /\ UNCHANGED <<n, sent, taken, echoed, shut, resets>>
  BY DEF accept_returns, Goto, return_read, Resumed
<1>2. pc[current] = "co_accept" /\ call[current].fd = listenfd
  BY <1>1, AtCall
<1>3. /\ current \in Slots /\ Calling /\ OwnUses /\ status' = status
      /\ \A i \in Slots : call'[i] = IF i = current THEN NoCall ELSE call[i]
      /\ \A i \in Slots : Uses(i)' = Uses(i)
      /\ \A fd \in Fds : fd # listenfd => ready'[fd] = ready[fd]
  BY <1>1, <1>2, ReturnsEffect
<1>4. backlog > 0
  BY <1>1, <1>2, WokenReady, Descriptors DEF EchoInv, Readable
<1>5. NewFd \in Conns \ accepted /\ backlog - 1 \in 0 .. Cardinality(Conns \ (accepted \cup {NewFd})) + 1
  BY <1>1, <1>4, NewFdOf
<1>6. /\ pc \in [Slots -> {"none"} \cup Mains \cup Accepting \cup Serving]
      /\ clifd \in [Slots -> Conns \cup {NoFd}] /\ accepted \subseteq Conns /\ backlog \in Int
  BY DEF EchoInv, EchoTypes
<1>7. /\ \A i \in Slots : pc'[i] = IF i = current THEN "co_create_client" ELSE pc[i]
      /\ \A i \in Slots : clifd'[i] = IF i = current THEN NewFd ELSE clifd[i]
  BY <1>1, <1>3, <1>6
<1>8. EchoTypes'
  BY <1>1, <1>3, <1>5, <1>6 DEF EchoInv, EchoTypes, Accepting
<1>9. Roles'
  BY <1>1, <1>2, <1>3, <1>5, <1>7 DEF EchoInv, Roles, Mains, Accepting, Serving
<1>10. Readable'
  BY <1>1, <1>3, <1>6, Descriptors DEF EchoInv, Readable
<1>11. \A i \in Slots : (pc'[i] \in Serving <=> pc[i] \in Serving) /\ (pc[i] \in Serving => i # current)
  BY <1>2, <1>7 DEF Serving
<1>12. Traffic'
  <2>1. \A fd \in Conns : Served(fd)' <=> Served(fd)
    BY <1>7, <1>11 DEF Served
  <2>2. \A i \in Slots : pc'[i] \in Serving => clifd'[i] = clifd[i] /\ pc'[i] = pc[i]
    BY <1>7, <1>11
  <2> QED
    BY <1>1, <1>2, <1>7, <2>1, <2>2 DEF EchoInv, Traffic, Serving
<1>13. Calling'
  BY <1>2, <1>3, <1>7 DEF Calling, NoCall, InLoop, AtEpollWait, HandlingEvents, Returning
<1>14. OwnUses'
  BY <1>2, <1>3, <1>7 DEF OwnUses, Accepting, Serving
<1>15. ExitCauses'
  <2>1. \A i \in Slots : pc[i] # "exit_accept"
    BY <1>2, <1>3 DEF EchoInv, Roles, Accepting
  <2> QED
    BY <1>1, <1>7, <2>1 DEF EchoInv, ExitCauses
<1> QED
  BY <1>8, <1>9, <1>10, <1>12, <1>13, <1>14, <1>15 DEF EchoInv

\* accept() fails, and my_accept exits.
LEMMA AcceptFailsStep ==
  ASSUME EchoInv, Given!IoInv, SyscallReady, accept_fails
  PROVE  EchoInv'
<1>1. /\ Resumed("accept") /\ return_read /\ Arrived /\ phase # "stopped" /\ AcceptFails
      /\ pc' = [pc EXCEPT ![current] = "exit_accept"]
      /\ UNCHANGED <<ready, clifd, n, accepted, backlog, sent, taken, echoed, shut, resets>>
  BY DEF accept_fails, Goto, return_read, Resumed
<1>2. pc[current] = "co_accept" /\ call[current].fd = listenfd
  BY <1>1, AtCall
<1>3. /\ current \in Slots /\ Calling /\ OwnUses /\ status' = status
      /\ \A i \in Slots : call'[i] = IF i = current THEN NoCall ELSE call[i]
      /\ \A i \in Slots : Uses(i)' = Uses(i)
  BY <1>1, <1>2, ReturnsEffect
<1>4. pc \in [Slots -> {"none"} \cup Mains \cup Accepting \cup Serving]
  BY DEF EchoInv, EchoTypes
<1>5. \A i \in Slots : pc'[i] = IF i = current THEN "exit_accept" ELSE pc[i]
  BY <1>1, <1>3, <1>4
<1>6. EchoTypes'
  BY <1>1, <1>3, <1>4 DEF EchoInv, EchoTypes, Accepting
<1>7. Roles'
  BY <1>1, <1>2, <1>3, <1>5 DEF EchoInv, Roles, Mains, Accepting, Serving
<1>8. \A i \in Slots : pc'[i] \in Serving => pc[i] \in Serving /\ pc'[i] = pc[i]
  BY <1>5 DEF Serving
<1>9. \A fd \in Conns : Served(fd)' <=> Served(fd)
  BY <1>1, <1>2, <1>5 DEF Served, Serving
<1>10. Readable' /\ Traffic'
  BY <1>1, <1>2, <1>5, <1>8, <1>9 DEF EchoInv, Readable, Traffic
<1>11. Calling'
  BY <1>1, <1>2, <1>3, <1>5 DEF Calling, NoCall, InLoop, AtEpollWait, HandlingEvents, Returning
<1>12. OwnUses'
  BY <1>1, <1>2, <1>3, <1>5 DEF OwnUses, Accepting, Serving
<1>13. Faulted'
  <2>1. CASE accepted = Conns
    <3>1. backlog > 0
      BY <1>1, <1>2, WokenReady, Descriptors DEF EchoInv, Readable
    <3>2. Conns \ accepted = {} /\ Cardinality({}) = 0
      BY <2>1, FS_EmptySet
    <3> QED
      BY <1>1, <3>1, <3>2 DEF Faulted
  <2>2. CASE accepted # Conns
    BY <1>1, <2>2 DEF AcceptFails, Faulted
  <2> QED
    BY <2>1, <2>2
<1>14. ExitCauses'
  BY <1>1, <1>5, <1>13 DEF EchoInv, ExitCauses
<1> QED
  BY <1>6, <1>7, <1>10, <1>11, <1>12, <1>14 DEF EchoInv

\* do_client goes from one of its statements to another.
LEMMA ServeStep ==
  ASSUME EchoInv, current \in Slots, phase # "stopped", pc[current] \in Serving,
         NEW to \in Serving, pc' = [pc EXCEPT ![current] = to],
         UNCHANGED <<clifd, accepted, backlog, sent, shut, resets>>,
         to = "exit_client" => resets # {},
         to = "co_write" => Conn \in Uses(current),
         \A i \in Slots : call'[i] = IF i = current THEN NoCall ELSE call[i],
         \A i \in Slots : Uses(i)' = Uses(i),
         status' = status
  PROVE  /\ Roles' /\ Calling' /\ OwnUses' /\ ExitCauses'
         /\ pc' \in [Slots -> {"none"} \cup Mains \cup Accepting \cup Serving]
         /\ \A i \in Slots : pc'[i] = IF i = current THEN to ELSE pc[i]
         /\ \A fd \in Conns : Served(fd)' <=> Served(fd)
<1>1. /\ pc \in [Slots -> {"none"} \cup Mains \cup Accepting \cup Serving]
      /\ Calling /\ OwnUses /\ Roles
  BY DEF EchoInv, EchoTypes
<1>2. \A i \in Slots : pc'[i] = IF i = current THEN to ELSE pc[i]
  BY <1>1
<1>3. \A i \in Slots :
        /\ pc'[i] \in Serving <=> pc[i] \in Serving
        /\ pc'[i] \in Accepting <=> pc[i] \in Accepting
        /\ pc'[i] \in Mains <=> pc[i] \in Mains
        /\ pc'[i] = "none" <=> pc[i] = "none"
        /\ pc'[i] = "co_create_client" <=> pc[i] = "co_create_client"
        /\ pc'[i] = "co_create" <=> pc[i] = "co_create"
  BY <1>2 DEF Serving, Accepting, Mains
<1>4. Roles'
  BY <1>1, <1>3, Descriptors DEF Roles
<1>5. Calling'
  BY <1>1, <1>2 DEF Calling, NoCall, InLoop, AtEpollWait, HandlingEvents, Returning
<1>6. OwnUses'
  BY <1>1, <1>2, <1>3 DEF OwnUses, Conn
<1>7. \A fd \in Conns : Served(fd)' <=> Served(fd)
  BY <1>3 DEF Served
<1>8. ExitCauses'
  BY <1>2 DEF EchoInv, ExitCauses, Faulted, Serving
<1> QED
  BY <1>1, <1>2, <1>4, <1>5, <1>6, <1>7, <1>8

LEMMA ReadReturnsStep ==
  ASSUME EchoInv, Given!IoInv, read_returns
  PROVE  EchoInv'
<1>1. /\ Resumed("read") /\ return_read /\ Arrived /\ phase # "stopped"
      /\ UNCHANGED <<clifd, accepted, backlog, sent, echoed, shut, resets>>
  BY DEF read_returns, return_read, Resumed
<1>2. /\ pc[current] = "co_read" /\ call[current].fd = Conn /\ Conn \in Uses(current)
      /\ Conn \in Conns /\ Conn \in Fds /\ pc[current] \in Serving
  BY <1>1, AtCall, Descriptors DEF Serving
<1>3. /\ current \in Slots /\ status' = status
      /\ \A i \in Slots : call'[i] = IF i = current THEN NoCall ELSE call[i]
      /\ \A i \in Slots : Uses(i)' = Uses(i)
      /\ \A fd \in Fds : fd # Conn => ready'[fd] = ready[fd]
      /\ \A fd \in Fds : ready'[fd] \subseteq ready[fd]
  BY <1>1, <1>2, ReturnsEffect
<1>4. /\ n \in [Slots -> Nat] /\ sent \in [Conns -> 0 .. MaxSent] /\ taken \in [Conns -> Nat]
      /\ echoed \in [Conns -> Nat] /\ Traffic /\ Readable /\ EchoTypes
      /\ \A i, j \in Slots : pc[i] \in Serving /\ pc[j] \in Serving /\ clifd[i] = clifd[j] => i = j
  BY DEF EchoInv, EchoTypes, Roles
<1>5. n[current] = 0 /\ taken[Conn] = echoed[Conn] /\ taken[Conn] <= sent[Conn] /\ Served(Conn)
  <2>1. n[current] = 0 /\ taken[Conn] = echoed[Conn] + n[current] /\ taken[Conn] <= sent[Conn]
    BY <1>2, <1>3, <1>4 DEF Traffic, Conn
  <2> QED
    BY <1>2, <1>3, <1>4, <2>1 DEF Served, Conn
<1>6. CASE \E k \in 1 .. sent[Conn] - taken[Conn] :
             /\ taken' = [taken EXCEPT ![Conn] = @ + k]
             /\ n' = [n EXCEPT ![current] = k]
             /\ ("IN" \in ready'[Conn]) <=> (taken'[Conn] < sent[Conn] \/ Conn \in shut \cup resets)
             /\ Goto("co_write")
  <2>1. PICK k \in 1 .. sent[Conn] - taken[Conn] :
          /\ taken' = [taken EXCEPT ![Conn] = @ + k]
          /\ n' = [n EXCEPT ![current] = k]
          /\ ("IN" \in ready'[Conn]) <=> (taken'[Conn] < sent[Conn] \/ Conn \in shut \cup resets)
          /\ pc' = [pc EXCEPT ![current] = "co_write"]
    BY <1>6 DEF Goto
  <2>2. k \in Nat /\ k > 0 /\ taken[Conn] + k <= sent[Conn]
    BY <1>2, <1>4, <2>1
  <2>3. /\ Roles' /\ Calling' /\ OwnUses' /\ ExitCauses'
        /\ pc' \in [Slots -> {"none"} \cup Mains \cup Accepting \cup Serving]
        /\ \A i \in Slots : pc'[i] = IF i = current THEN "co_write" ELSE pc[i]
        /\ \A fd \in Conns : Served(fd)' <=> Served(fd)
    BY <1>1, <1>2, <1>3, <2>1, ServeStep DEF Serving
  <2>4. /\ \A fd \in Conns : taken'[fd] = IF fd = Conn THEN taken[fd] + k ELSE taken[fd]
        /\ \A i \in Slots : n'[i] = IF i = current THEN k ELSE n[i]
    BY <1>3, <1>4, <2>1
  <2>5. EchoTypes'
    <3>1. taken' \in [Conns -> Nat] /\ n' \in [Slots -> Nat]
      BY <1>2, <1>3, <1>4, <2>1, <2>2
    <3> QED
      BY <1>1, <1>4, <2>3, <3>1 DEF EchoTypes
  <2>6. Readable'
    BY <1>1, <1>2, <1>3, <1>4, <2>1, <2>4, Descriptors DEF Readable
  <2>7. \A fd \in Conns : echoed[fd] <= taken'[fd] /\ taken'[fd] <= sent[fd]
    BY <1>2, <1>4, <1>5, <2>2, <2>4 DEF Traffic
  <2>8. \A fd \in Conns : ~Served(fd)' => fd # Conn /\ taken'[fd] = taken[fd] /\ ~Served(fd)
    BY <1>5, <2>3, <2>4
  <2>9. ASSUME NEW i \in Slots
        PROVE  /\ pc'[i] \notin {"co_write", "exit_client"} => n'[i] = 0
               /\ pc'[i] \in Serving => taken'[clifd[i]] = echoed[clifd[i]] + n'[i]
               /\ pc'[i] = "break" => clifd[i] \in shut /\ taken'[clifd[i]] = sent[clifd[i]]
    <3>1. CASE i = current
      BY <1>2, <1>4, <1>5, <2>2, <2>3, <2>4, <3>1 DEF Conn
    <3>2. CASE i # current /\ pc[i] \in Serving
      <4>1. clifd[i] # Conn /\ clifd[i] \in Conns
        BY <1>2, <1>3, <1>4, <3>2 DEF Conn, EchoInv, Roles, EchoTypes
      <4> QED
        BY <1>4, <2>3, <2>4, <3>2, <4>1 DEF Traffic
    <3>3. CASE i # current /\ pc[i] \notin Serving
      BY <1>4, <2>3, <2>4, <3>3 DEF Traffic, Serving
    <3> QED
      BY <3>1, <3>2, <3>3
  <2>10. Traffic'
    BY <1>1, <1>4, <2>7, <2>8, <2>9 DEF Traffic
  <2> QED
    BY <2>3, <2>5, <2>6, <2>10 DEF EchoInv
<1>7. CASE /\ \/ EndOfStream /\ Goto("break")
              \/ Conn \in resets /\ Goto("exit_client")
           /\ ready' = ready
           /\ UNCHANGED <<n, taken>>
  <2>1. PICK to \in {"break", "exit_client"} :
          /\ pc' = [pc EXCEPT ![current] = to]
          /\ IF to = "break" THEN Conn \in shut /\ taken[Conn] = sent[Conn] ELSE Conn \in resets
    BY <1>7 DEF Goto, EndOfStream
  <2>2. to \in Serving /\ to # "co_write" /\ (to = "exit_client" => resets # {})
    BY <2>1 DEF Serving
  <2>3. /\ Roles' /\ Calling' /\ OwnUses' /\ ExitCauses'
        /\ pc' \in [Slots -> {"none"} \cup Mains \cup Accepting \cup Serving]
        /\ \A i \in Slots : pc'[i] = IF i = current THEN to ELSE pc[i]
        /\ \A fd \in Conns : Served(fd)' <=> Served(fd)
    BY <1>1, <1>2, <1>3, <2>1, <2>2, ServeStep
  <2>4. EchoTypes' /\ Readable'
    BY <1>1, <1>4, <1>7, <2>3 DEF EchoTypes, Readable
  <2>5. \A i \in Slots :
          /\ pc'[i] \notin {"co_write", "exit_client"} => n[i] = 0
          /\ pc'[i] \in Serving => taken[clifd[i]] = echoed[clifd[i]] + n[i]
          /\ pc'[i] = "break" => clifd[i] \in shut /\ taken[clifd[i]] = sent[clifd[i]]
    BY <1>2, <1>4, <1>5, <1>7, <2>1, <2>3 DEF Traffic, Conn
  <2>6. Traffic'
    BY <1>1, <1>4, <1>7, <2>3, <2>5 DEF Traffic
  <2> QED
    BY <2>3, <2>4, <2>6 DEF EchoInv
<1> QED
  BY <1>6, <1>7 DEF read_returns

\* write() takes all of buf.
LEMMA WriteReturnsStep ==
  ASSUME EchoInv, Given!IoInv, write_returns, ~WriteFails
  PROVE  EchoInv'
<1>1. /\ Resumed("write") /\ return_write /\ phase # "stopped"
      /\ echoed' = [echoed EXCEPT ![Conn] = @ + n[current]]
      /\ n' = [n EXCEPT ![current] = 0]
      /\ pc' = [pc EXCEPT ![current] = "co_read"]
      /\ UNCHANGED <<clifd, accepted, backlog, sent, taken, shut, resets>>
  BY DEF write_returns, return_write, Resumed, Written, Goto
<1>2. pc[current] = "co_write" /\ Conn \in Conns /\ pc[current] \in Serving
  BY <1>1, AtCall DEF Serving
<1>3. /\ current \in Slots /\ status' = status
      /\ \A i \in Slots : call'[i] = IF i = current THEN NoCall ELSE call[i]
      /\ \A i \in Slots : Uses(i)' = Uses(i)
      /\ \A fd \in Fds : ready'[fd] \subseteq ready[fd]
  BY <1>1, <1>2, ReturnsEffect
<1>4. /\ n \in [Slots -> Nat] /\ sent \in [Conns -> 0 .. MaxSent] /\ taken \in [Conns -> Nat]
      /\ echoed \in [Conns -> Nat] /\ Traffic /\ Readable /\ EchoTypes
      /\ \A i, j \in Slots : pc[i] \in Serving /\ pc[j] \in Serving /\ clifd[i] = clifd[j] => i = j
  BY DEF EchoInv, EchoTypes, Roles
<1>5. taken[Conn] = echoed[Conn] + n[current] /\ Served(Conn)
  BY <1>2, <1>3, <1>4 DEF Traffic, Served, Conn
<1>6. /\ Roles' /\ Calling' /\ OwnUses' /\ ExitCauses'
      /\ pc' \in [Slots -> {"none"} \cup Mains \cup Accepting \cup Serving]
      /\ \A i \in Slots : pc'[i] = IF i = current THEN "co_read" ELSE pc[i]
      /\ \A fd \in Conns : Served(fd)' <=> Served(fd)
  BY <1>1, <1>2, <1>3, ServeStep DEF Serving
<1>7. /\ \A fd \in Conns : echoed'[fd] = IF fd = Conn THEN taken[fd] ELSE echoed[fd]
      /\ \A i \in Slots : n'[i] = IF i = current THEN 0 ELSE n[i]
  BY <1>1, <1>2, <1>3, <1>4, <1>5
<1>8. EchoTypes'
  BY <1>1, <1>2, <1>3, <1>4, <1>6 DEF EchoTypes
<1>9. Readable'
  BY <1>1, <1>3, <1>4, Descriptors DEF Readable
<1>10. \A fd \in Conns : echoed'[fd] <= taken[fd] /\ taken[fd] <= sent[fd]
  BY <1>4, <1>7 DEF Traffic
<1>11. \A fd \in Conns : ~Served(fd)' => echoed'[fd] = echoed[fd] /\ ~Served(fd)
  BY <1>5, <1>6, <1>7
<1>12. ASSUME NEW i \in Slots
       PROVE  /\ pc'[i] \notin {"co_write", "exit_client"} => n'[i] = 0
              /\ pc'[i] \in Serving => taken[clifd[i]] = echoed'[clifd[i]] + n'[i]
              /\ pc'[i] = "break" => clifd[i] \in shut /\ taken[clifd[i]] = sent[clifd[i]]
  <2>1. CASE i = current
    BY <1>2, <1>4, <1>6, <1>7, <2>1 DEF Conn
  <2>2. CASE i # current /\ pc[i] \in Serving
    <3>1. clifd[i] # Conn /\ clifd[i] \in Conns
      BY <1>2, <1>3, <1>4, <2>2 DEF Conn, EchoInv, Roles, EchoTypes
    <3> QED
      BY <1>4, <1>6, <1>7, <2>2, <3>1 DEF Traffic
  <2>3. CASE i # current /\ pc[i] \notin Serving
    BY <1>4, <1>6, <1>7, <2>3 DEF Traffic, Serving
  <2> QED
    BY <2>1, <2>2, <2>3
<1>13. Traffic'
  BY <1>1, <1>4, <1>10, <1>11, <1>12 DEF Traffic
<1> QED
  BY <1>6, <1>8, <1>9, <1>13 DEF EchoInv

\* co_write fails: since its descriptor is registered, the connection was reset.
LEMMA WriteFailsStep ==
  ASSUME EchoInv, Given!IoInv, Given!RegInv, write_returns, WriteFails
  PROVE  EchoInv'
<1>1. /\ Resumed("write") /\ return_write /\ phase # "stopped"
      /\ pc' = [pc EXCEPT ![current] = "exit_client"]
      /\ UNCHANGED <<n, echoed, clifd, accepted, backlog, sent, taken, shut, resets>>
  BY DEF write_returns, return_write, Resumed, Goto
<1>2. pc[current] = "co_write" /\ call[current].fd = Conn /\ Conn \in Conns /\ pc[current] \in Serving
  BY <1>1, AtCall DEF Serving
<1>3. /\ current \in Slots /\ status' = status /\ Calling /\ OwnUses
      /\ \A i \in Slots : call'[i] = IF i = current THEN NoCall ELSE call[i]
      /\ \A i \in Slots : Uses(i)' = Uses(i)
      /\ \A fd \in Fds : ready'[fd] \subseteq ready[fd]
  BY <1>1, <1>2, ReturnsEffect
<1>4. resets # {}
  <2>1. Conn \in Uses(current) /\ Conn \in Fds /\ call[current] # Returning
    BY <1>2, <1>3, Descriptors DEF OwnUses, Calling, Conn
  <2>2. interest[Conn] # {}
    BY <1>3, <2>1, GivenValues DEF Given!RegInv, Given!Registered
  <2> QED
    BY <2>2 DEF WriteFails
<1>5. /\ Roles' /\ Calling' /\ OwnUses' /\ ExitCauses'
      /\ pc' \in [Slots -> {"none"} \cup Mains \cup Accepting \cup Serving]
      /\ \A i \in Slots : pc'[i] = IF i = current THEN "exit_client" ELSE pc[i]
      /\ \A fd \in Conns : Served(fd)' <=> Served(fd)
  BY <1>1, <1>2, <1>3, <1>4, ServeStep DEF Serving
<1>6. EchoTypes'
  BY <1>1, <1>5 DEF EchoInv, EchoTypes
<1>7. Readable'
  BY <1>1, <1>3, Descriptors DEF EchoInv, Readable
<1>8. Traffic'
  BY <1>1, <1>2, <1>5 DEF EchoInv, Traffic, Serving
<1> QED
  BY <1>5, <1>6, <1>7, <1>8 DEF EchoInv

\* The peers do not run out of numbers: the bound is on what all of them send.
LEMMA SentBelow ==
  ASSUME EchoTypes, NEW fd \in Conns, Cardinality(AllSent) < MaxSent
  PROVE  sent[fd] < MaxSent
<1>1. sent \in [Conns -> 0 .. MaxSent] /\ MaxSent \in Nat /\ sent[fd] \in Nat
  BY EchoAssumption DEF EchoTypes
<1>2. IsFiniteSet(1 .. MaxSent) /\ IsFiniteSet(1 .. sent[fd]) /\ Cardinality(1 .. sent[fd]) = sent[fd]
  BY <1>1, FS_Interval
<1>3. IsFiniteSet(AllSent)
  <2>1. IsFiniteSet(Conns \X (1 .. MaxSent))
    BY <1>2, Descriptors, FS_Product
  <2> QED
    BY <2>1, FS_Subset DEF AllSent
<1>4. Cardinality({fd} \X (1 .. sent[fd])) = sent[fd]
  <2>1. IsFiniteSet({fd}) /\ Cardinality({fd}) = 1
    BY FS_Singleton
  <2>2. Cardinality({fd} \X (1 .. sent[fd])) = Cardinality({fd}) * Cardinality(1 .. sent[fd])
    BY <1>2, <2>1, FS_Product
  <2> QED
    BY <1>1, <1>2, <2>1, <2>2
<1>5. {fd} \X (1 .. sent[fd]) \subseteq AllSent
  <2> SUFFICES ASSUME NEW k \in 1 .. sent[fd] PROVE <<fd, k>> \in AllSent
    OBVIOUS
  <2>1. k \in 1 .. MaxSent /\ k <= sent[fd]
    BY <1>1
  <2> QED
    BY <2>1 DEF AllSent
<1>6. Cardinality({fd} \X (1 .. sent[fd])) <= Cardinality(AllSent) /\ Cardinality(AllSent) \in Nat
  BY <1>3, <1>5, FS_Subset, FS_CardinalityType
<1> QED
  BY <1>1, <1>4, <1>6

LEMMA PeerStep ==
  ASSUME EchoInv, Given!IoInv, Peers
  PROVE  EchoInv'
<1>1. PICK to \in Fds :
        /\ Arrives(to) /\ UNCHANGED <<pc, clifd, n, accepted, taken, echoed>>
        /\ \/ /\ to = listenfd /\ UNCHANGED <<sent, shut, resets>>
              /\ backlog <= Cardinality(Conns \ accepted) /\ backlog' = backlog + 1
           \/ /\ to \in Conns /\ to \notin shut /\ UNCHANGED <<backlog, shut, resets>>
              /\ Cardinality(AllSent) < MaxSent /\ sent' = [sent EXCEPT ![to] = @ + 1]
           \/ to \in Conns /\ UNCHANGED <<backlog, sent, resets>> /\ shut' = shut \cup {to}
           \/ to \in Conns /\ UNCHANGED <<backlog, sent, shut>> /\ resets' = resets \cup {to}
  BY Descriptors DEF Peers, Connect, Send, Shutdown, Reset
<1>2. ready \in [Fds -> SUBSET Kinds]
  BY GivenFacts
<1>3. /\ UNCHANGED <<status, phase, fds, call>>
      /\ \A fd \in Fds : fd # to => ready'[fd] = ready[fd]
  BY <1>1, <1>2 DEF Arrives, Arrive, allvars, vars, iovars
<1>4. Roles' /\ (phase' # "stopped" => Calling' /\ OwnUses')
  <2>1. Roles'
    BY <1>1, <1>3 DEF EchoInv, Roles
  <2>2. ASSUME phase' # "stopped" PROVE Calling' /\ OwnUses'
    <3>1. Calling /\ OwnUses
      BY <1>3, <2>2 DEF EchoInv
    <3>2. Calling'
      BY <1>1, <1>3, <3>1 DEF Calling
    <3>3. \A i \in Slots : Uses(i)' = Uses(i)
      BY <1>3 DEF Uses
    <3>4. OwnUses'
      BY <1>1, <3>1, <3>3 DEF OwnUses
    <3> QED
      BY <3>2, <3>4
  <2> QED
    BY <2>1, <2>2
<1>5. /\ EchoTypes /\ Readable /\ Traffic
      /\ taken \in [Conns -> Nat] /\ echoed \in [Conns -> Nat] /\ sent \in [Conns -> 0 .. MaxSent]
      /\ backlog \in Int /\ shut \subseteq Conns /\ resets \subseteq Conns /\ MaxSent \in Nat
      /\ pc \in [Slots -> {"none"} \cup Mains \cup Accepting \cup Serving]
      /\ \A i \in Slots : pc[i] \in Serving => clifd[i] \in Conns
  BY EchoAssumption DEF EchoInv, EchoTypes, Roles
<1>6. ExitCauses'
  <2>1. Cardinality(Conns \ accepted) \in Nat /\ backlog \in Int
    BY <1>5, Descriptors, FS_Subset, FS_CardinalityType
  <2>2. resets \subseteq resets' /\ accepted' = accepted /\ backlog' >= backlog
    <3>1. accepted' = accepted /\ (backlog' = backlog \/ backlog' = backlog + 1)
          /\ (resets' = resets \/ resets' = resets \cup {to})
      BY <1>1
    <3>2. backlog' >= backlog
      BY <2>1, <3>1
    <3>3. resets \subseteq resets'
      BY <3>1
    <3> QED
      BY <3>1, <3>2, <3>3
  <2>3. pc' = pc
    BY <1>1
  <2>4. resets # {} => resets' # {}
    BY <2>2
  <2>5. Faulted => Faulted'
    <3>1. Cardinality(Conns \ accepted') = Cardinality(Conns \ accepted) /\ backlog' \in Int
      BY <1>1, <2>1, <2>2
    <3>2. backlog > Cardinality(Conns \ accepted) => backlog' > Cardinality(Conns \ accepted')
      BY <2>1, <2>2, <3>1
    <3> QED
      BY <2>4, <3>2 DEF Faulted
  <2>6. ExitCauses
    BY DEF EchoInv
  <2> QED
    BY <2>5, <2>3, <2>4, <2>6 DEF ExitCauses
<1>7. CASE /\ to = listenfd /\ UNCHANGED <<sent, shut, resets>>
           /\ backlog <= Cardinality(Conns \ accepted) /\ backlog' = backlog + 1
  <2>1. Cardinality(Conns \ accepted) \in Nat
    BY Descriptors, FS_Subset, FS_CardinalityType
  <2>2. EchoTypes' /\ Traffic'
    BY <1>1, <1>5, <1>7, <2>1 DEF EchoTypes, Traffic, Served
  <2>3. Readable'
    BY <1>1, <1>3, <1>5, <1>7, Descriptors, <2>1 DEF Readable, EchoTypes
  <2> QED
    BY <1>4, <1>6, <2>2, <2>3 DEF EchoInv
<1>8. CASE /\ to \in Conns /\ to \notin shut /\ UNCHANGED <<backlog, shut, resets>>
           /\ Cardinality(AllSent) < MaxSent /\ sent' = [sent EXCEPT ![to] = @ + 1]
  <2>1. sent[to] < MaxSent
    BY <1>5, <1>8, SentBelow
  <2>2. sent' \in [Conns -> 0 .. MaxSent]
        /\ \A fd \in Conns : sent'[fd] = IF fd = to THEN sent[fd] + 1 ELSE sent[fd]
    BY <1>5, <1>8, <2>1
  <2>3. EchoTypes'
    BY <1>1, <1>5, <1>8, <2>2 DEF EchoTypes
  <2>4. Readable'
    BY <1>1, <1>3, <1>5, <1>8, <2>2, Descriptors DEF Readable, Traffic
  <2>5. \A fd \in Conns : echoed[fd] <= taken[fd] /\ taken[fd] <= sent'[fd]
    BY <1>5, <2>2 DEF Traffic
  <2>6. \A fd \in Conns : ~Served(fd) =>
          taken[fd] = echoed[fd] /\ (taken[fd] > 0 => fd \in shut /\ echoed[fd] = sent'[fd])
    BY <1>5, <1>8, <2>2 DEF Traffic
  <2>7. \A i \in Slots : pc[i] = "break" => clifd[i] \in shut /\ taken[clifd[i]] = sent'[clifd[i]]
    BY <1>5, <1>8, <2>2 DEF Traffic, Serving
  <2>8. Traffic'
    BY <1>1, <1>5, <1>8, <2>5, <2>6, <2>7 DEF Traffic, Served
  <2> QED
    BY <1>4, <1>6, <2>3, <2>4, <2>8 DEF EchoInv
<1>9. CASE to \in Conns /\ UNCHANGED <<backlog, sent, resets>> /\ shut' = shut \cup {to}
  <2>1. EchoTypes'
    BY <1>1, <1>5, <1>9 DEF EchoTypes
  <2>2. Readable'
    BY <1>1, <1>3, <1>5, <1>9, Descriptors DEF Readable
  <2>3. Traffic'
    BY <1>1, <1>5, <1>9 DEF Traffic, Served
  <2> QED
    BY <1>4, <1>6, <2>1, <2>2, <2>3 DEF EchoInv
<1>10. CASE to \in Conns /\ UNCHANGED <<backlog, sent, shut>> /\ resets' = resets \cup {to}
  <2>1. EchoTypes'
    BY <1>1, <1>5, <1>10 DEF EchoTypes
  <2>2. Readable'
    BY <1>1, <1>3, <1>5, <1>10, Descriptors DEF Readable
  <2>3. Traffic'
    BY <1>1, <1>5, <1>10 DEF Traffic, Served
  <2> QED
    BY <1>4, <1>6, <2>1, <2>2, <2>3 DEF EchoInv
<1> QED
  BY <1>1, <1>7, <1>8, <1>9, <1>10

LEMMA InitEchoInv == "files" \notin Habits /\ EchoInit => EchoInv
<1> SUFFICES ASSUME "files" \notin Habits, EchoInit PROVE EchoInv
  OBVIOUS
<1>1. /\ pc = [i \in Slots |-> IF i = 0 THEN "co_create" ELSE "none"]
      /\ status = [i \in Slots |-> IF i = 0 THEN "RUNNING" ELSE Free]
      /\ call = [i \in Slots |-> NoCall] /\ fds = [i \in Slots |-> <<>>]
      /\ ready = [fd \in Fds |-> IF fd \in ListenFds THEN {} ELSE {"OUT"}]
  BY DEF EchoInit, IoInit, Init, Fresh
<1>2. EchoTypes
  <2>1. Cardinality(Conns \ {}) \in Nat
    BY Descriptors, FS_CardinalityType
  <2> QED
    BY <1>1, <2>1, EchoAssumption DEF EchoInit, EchoTypes, Mains
<1>3. Roles
  BY <1>1 DEF Roles, Mains, Accepting, Serving, Free
<1>4. Calling
  BY <1>1 DEF Calling, NoCall, InLoop, AtEpollWait, HandlingEvents, Returning
<1>5. \A i \in Slots : Uses(i) = {}
  BY <1>1 DEF Uses
<1>6. OwnUses
  BY <1>1, <1>5 DEF OwnUses
<1>7. Readable
  BY <1>1, Descriptors DEF Readable
<1>8. Traffic
  BY <1>1, EchoAssumption DEF Traffic, EchoInit, Serving
<1>9. ExitCauses
  BY <1>1 DEF ExitCauses
<1> QED
  BY <1>2, <1>3, <1>4, <1>6, <1>7, <1>8, <1>9 DEF EchoInv

LEMMA NextEchoInv ==
  ASSUME EchoInv, Given!IoInv, Given!RegInv, Kernel, SyscallReady, [EchoNext]_evars
  PROVE  EchoInv'
BY MainCreates, MainOrFull, WaitStep, AcceptReturns, AcceptFailsStep, AcceptCreates, ReadReturnsStep,
   WriteReturnsStep, WriteFailsStep, ClientEnds, LibraryStep, PeerStep
   DEF EchoNext, Process, Terminating

-----------------------------------------------------------------------------
(***************************************************************************)
(* The theorems.                                                            *)
(***************************************************************************)

\* What EchoServer adds to CoIO's invariant needs it, and the other way round:
\* accept() does not block and epoll_ctl does not fail because every step so far
\* kept the contract, and the next one does because nobody waits in vain.
Joint ==
  /\ EchoInv
  /\ Given!IoInv /\ Given!SyscallReady /\ Given!BatchReady
  /\ Given!RegInv /\ Given!SchedInv

LEMMA OwnGiven == Kernel => Given!OwnDescriptors /\ Given!CtlSucceeds
BY DEF Kernel, Given!OwnDescriptors, Given!CtlSucceeds

LEMMA SameReady == Given!SyscallReady <=> SyscallReady
BY GivenValues DEF Given!SyscallReady, SyscallReady

LEMMA InitJoint == Kernel /\ EchoInit => Joint
<1> SUFFICES ASSUME Kernel, EchoInit PROVE Joint
  OBVIOUS
<1>1. Given!IoInit
  BY GivenIoInit DEF Kernel, EchoInit
<1>2. Given!IoInv
  BY <1>1, CoIOAssumption, SchedAssumption, Given!InitIoInv
<1>3. Given!SyscallReady /\ Given!BatchReady
  BY <1>1, CoIOAssumption, SchedAssumption, Given!InitReady
<1>4. EchoInv
  BY InitEchoInv DEF Kernel
<1>5. Given!RegInv /\ Given!SchedInv
  BY <1>1, OwnGiven, CoIOAssumption, SchedAssumption, Given!InitRegInv
<1> QED
  BY <1>2, <1>3, <1>4, <1>5 DEF Joint

LEMMA NextJoint == Kernel /\ Joint /\ [EchoNext]_evars => Joint'
<1> SUFFICES ASSUME Kernel, Joint, [EchoNext]_evars PROVE Joint'
  OBVIOUS
<1>1. /\ EchoInv /\ Given!IoInv /\ Given!SyscallReady /\ Given!BatchReady
      /\ Given!RegInv /\ Given!SchedInv
  BY DEF Joint
<1>2. [Given!IoNext]_(Given!allvars)
  BY <1>1, StepAbides, GivenStep, GivenFrames DEF Kernel
<1>3. Given!IoInv'
  BY <1>1, <1>2, OwnGiven, CoIOAssumption, SchedAssumption, Given!NextIoInv
<1>4. Given!SyscallReady' /\ Given!BatchReady'
  BY <1>1, <1>2, OwnGiven, CoIOAssumption, SchedAssumption, Given!NextReady
<1>5. EchoInv'
  BY <1>1, SameReady, NextEchoInv
<1>6. Given!RegInv' /\ Given!SchedInv'
  BY <1>1, <1>2, OwnGiven, CoIOAssumption, SchedAssumption, Given!NextRegInv
<1> QED
  BY <1>3, <1>4, <1>5, <1>6 DEF Joint

LEMMA JointInvariance == Kernel => (EchoSpec => []Joint)
<1> SUFFICES ASSUME Kernel PROVE EchoSpec => []Joint
  OBVIOUS
<1>1. EchoInit => Joint
  BY InitJoint
<1>2. Joint /\ [EchoNext]_evars => Joint'
  BY NextJoint
<1> QED
  BY <1>1, <1>2, PTL DEF EchoSpec

LEMMA JointAbides == Kernel /\ Joint /\ [EchoNext]_evars => AbidingStep \/ UNCHANGED allvars
BY StepAbides DEF Joint

\* examples/demo03.c keeps the contract: its coroutines share no descriptor and
\* have one each, do_client reads before it writes, nobody sleeps or joins
\* while it has a descriptor, and one coroutine runs the event loop.
THEOREM ContractKept == Kernel => (EchoSpec => KeepsContract)
<1> SUFFICES ASSUME Kernel PROVE EchoSpec => KeepsContract
  OBVIOUS
<1>1. EchoInit => Contract!IoInit
  BY ContractIoInit DEF EchoInit, Kernel
<1>2. Joint /\ [EchoNext]_evars => [Contract!IoNext]_(Contract!allvars)
  BY JointAbides, ContractStep, ContractFrames DEF Kernel
<1> QED
  BY <1>1, <1>2, JointInvariance, PTL DEF EchoSpec, KeepsContract, Contract!IoSpec

\* So it is a program that CoIOProofs is about.
LEMMA IsGiven == Kernel => (EchoSpec => Given!IoSpec)
<1> SUFFICES ASSUME Kernel PROVE EchoSpec => Given!IoSpec
  OBVIOUS
<1>1. EchoInit => Given!IoInit
  BY GivenIoInit DEF EchoInit, Kernel
<1>2. Joint /\ [EchoNext]_evars => [Given!IoNext]_(Given!allvars)
  BY JointAbides, GivenStep, GivenFrames DEF Kernel
<1> QED
  BY <1>1, <1>2, JointInvariance, PTL DEF EchoSpec, Given!IoSpec

\* The server's variables keep their types; a buffer holds no more than was sent.
THEOREM EchoTypeCorrect == Kernel => (EchoSpec => []EchoTypeOK)
<1>1. EchoInv => EchoTypeOK
  <2> SUFFICES ASSUME EchoInv PROVE EchoTypeOK
    OBVIOUS
  <2>1. EchoTypes /\ Traffic /\ \A i \in Slots : pc[i] \in Serving => clifd[i] \in Conns
    BY DEF EchoInv, Roles, EchoTypes
  <2>3. \A i \in Slots : n[i] \in 0 .. MaxSent
    <3> SUFFICES ASSUME NEW i \in Slots PROVE n[i] \in 0 .. MaxSent
      OBVIOUS
    <3>1. n[i] \in Nat /\ MaxSent \in Nat
      BY <2>1, EchoAssumption DEF EchoTypes
    <3>2. CASE pc[i] \notin {"co_write", "exit_client"}
      BY <2>1, <3>1, <3>2 DEF Traffic
    <3>3. CASE pc[i] \in {"co_write", "exit_client"}
      <4>1. clifd[i] \in Conns /\ taken[clifd[i]] = echoed[clifd[i]] + n[i]
            /\ taken[clifd[i]] <= sent[clifd[i]]
        BY <2>1, <3>3 DEF Traffic, Serving
      <4>2. /\ taken[clifd[i]] \in Nat /\ echoed[clifd[i]] \in Nat
            /\ sent[clifd[i]] \in 0 .. MaxSent
        BY <2>1, <4>1 DEF EchoTypes
      <4> QED
        BY <3>1, <4>1, <4>2
    <3> QED
      BY <3>2, <3>3
  <2>4. n \in [Slots -> 0 .. MaxSent]
    BY <2>1, <2>3 DEF EchoTypes
  <2> QED
    BY <2>1, <2>4 DEF EchoTypeOK, EchoTypes, Traffic
<1> QED
  BY <1>1, JointInvariance, PTL DEF Joint

\* No message is lost, made up or written back twice: what was taken from a
\* connection and not yet written back is in the buffer of the one do_client
\* that serves it, and once that has returned all that was sent is back.
THEOREM EchoesAll == Kernel => (EchoSpec => []EchoComplete)
<1>1. EchoInv => EchoComplete
  <2> SUFFICES ASSUME EchoInv, NEW fd \in Conns,
                      NEW mine, mine = {i \in Slots : clifd[i] = fd /\ pc[i] \in Serving}
               PROVE  /\ Cardinality(mine) <= 1
                      /\ \A i \in mine : taken[fd] = echoed[fd] + n[i]
                      /\ mine = {} => taken[fd] = echoed[fd]
                      /\ mine = {} /\ taken[fd] > 0 => fd \in shut /\ echoed[fd] = sent[fd]
    BY DEF EchoComplete, Serving
  <2>1. mine = {} <=> ~Served(fd)
    BY DEF Served
  <2>2. mine = {} \/ \E i : mine = {i}
    BY DEF EchoInv, Roles
  <2>3. Cardinality(mine) <= 1
    <3>1. mine = {} => Cardinality(mine) = 0
      BY FS_EmptySet
    <3>2. (\E i : mine = {i}) => Cardinality(mine) = 1
      BY FS_Singleton
    <3> QED
      BY <2>2, <3>1, <3>2
  <2> QED
    BY <2>1, <2>3 DEF EchoInv, Traffic
<1> QED
  BY <1>1, JointInvariance, PTL DEF Joint

\* The server exits only for what its peers did: a connection was reset, or
\* there are more than it has descriptors for.  No co_accept, co_read or co_write
\* returns -1 for the library's own part in it: each descriptor is new to epoll
\* or registered for the caller when add_queue and co_write call epoll_ctl, and
\* accept() is called only when a connection is there.
THEOREM ExitsForPeersOnly == Kernel => (EchoSpec => []ExitsOnFaultOnly)
<1>1. EchoInv => ExitsOnFaultOnly
  BY DEF EchoInv, ExitCauses, ExitsOnFaultOnly, Gone, Faulted
<1> QED
  BY <1>1, JointInvariance, PTL DEF Joint

\* What CoIOProofs says of programs under the contract, the server has:
\* it never follows a NULL pointer, its event loop finds a waiter for every
\* event, none of its wake-ups is lost, none of its read(), write() and accept()
\* blocks the process, and no coroutine of it runs again once it has returned.
THEOREM ServerGuarantees ==
  Kernel => (EchoSpec => /\ []EventHasWaiter /\ []BlockQueueHoldsBlocked
                         /\ []RegisteredWhileBlocked /\ []SyscallReady
                         /\ []NeverCrashes /\ ExitedStaysDead)
<1> SUFFICES ASSUME Kernel
             PROVE  EchoSpec => /\ []EventHasWaiter /\ []BlockQueueHoldsBlocked
                                /\ []RegisteredWhileBlocked /\ []SyscallReady
                                /\ []NeverCrashes /\ ExitedStaysDead
  OBVIOUS
<1>1. Given!OwnDescriptors /\ Given!CtlSucceeds /\ Given!FastPeers /\ Given!OneLoopOnly
  BY OwnGiven DEF Given!FastPeers, Given!OneLoopOnly
<1>2. Given!IoSpec => []Given!EventHasWaiter
  BY <1>1, CoIOAssumption, SchedAssumption, Given!EventsFindWaiters
<1>3. Given!IoSpec => []Given!BlockQueueHoldsBlocked
  BY <1>1, CoIOAssumption, SchedAssumption, Given!QueueHoldsBlocked
<1>4. Given!IoSpec => []Given!RegisteredWhileBlocked
  BY <1>1, CoIOAssumption, SchedAssumption, Given!NoLostWakeup
<1>5. Given!IoSpec => Given!ExitedStaysDead
  BY <1>1, CoIOAssumption, SchedAssumption, Given!NoResurrection
<1>6. Given!IoSpec => []Given!NeverCrashes
  BY <1>1, CoIOAssumption, SchedAssumption, Given!ProcessGoesOn
<1>7. \A fd : Given!Blocked(fd) = Blocked(fd)
  BY GivenValues DEF Given!Blocked, Blocked
<1>8. /\ Given!EventHasWaiter => EventHasWaiter
      /\ Given!BlockQueueHoldsBlocked => BlockQueueHoldsBlocked
      /\ Given!RegisteredWhileBlocked => RegisteredWhileBlocked
      /\ Given!NeverCrashes => NeverCrashes
  BY <1>7, GivenValues, GivenQueues DEF Given!EventHasWaiter, EventHasWaiter,
     Given!BlockQueueHoldsBlocked,
     BlockQueueHoldsBlocked, Given!RegisteredWhileBlocked, RegisteredWhileBlocked,
     Given!NeverCrashes, NeverCrashes
<1>9. Given!ExitedStaysDead => ExitedStaysDead
  <2>1. [\A i \in Given!Slots : status[i] = "EXIT" => status'[i] \in {"EXIT", Given!Free}]_(Given!allvars)
        => [\A i \in Slots : status[i] = "EXIT" => status'[i] \in {"EXIT", Free}]_allvars
    BY GivenFrames, GivenValues
  <2> QED
    BY <2>1, PTL DEF Given!ExitedStaysDead, ExitedStaysDead
<1> QED
  BY <1>2, <1>3, <1>4, <1>5, <1>6, <1>8, <1>9, IsGiven, JointInvariance, SameReady, PTL DEF Joint

=============================================================================
