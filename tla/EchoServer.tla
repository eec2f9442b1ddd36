----------------------------- MODULE EchoServer -----------------------------
(***************************************************************************)
(* The echo server of examples/demo03.c on top of CoIO: main() creates      *)
(* my_accept and runs the event loop, my_accept creates a do_client for     *)
(* every connection, do_client reads and writes back until the end of the   *)
(* stream.  CoIO's program does anything its Habits admit; here the program *)
(* is this one, and whether it keeps the contract is a question.            *)
(*                                                                         *)
(* Data is counted in messages.  Peers connect, send, shut down their side  *)
(* or reset the connection; they read what they are sent.  A call that      *)
(* returns -1 has the program exit: the process ends at that statement.     *)
(***************************************************************************)
EXTENDS CoIO

CONSTANTS
  listenfd,  \* the descriptor main() listens on
  MaxSent,   \* bound: messages the peers send altogether
  MaxActs    \* bound: messages, shutdowns and resets altogether

ASSUME EchoAssumption ==
  /\ ListenFds = {listenfd}
  /\ IsFiniteSet(Fds)
  /\ MaxSent \in Nat /\ MaxActs \in Nat

Conns == Fds \ ListenFds   \* accept() hands them out in ascending order

\* the statements of each function
Mains     == {"co_create", "co_eventloop", "loops"}
Accepting == {"co_accept", "co_create_client", "exit_accept"}
Serving   == {"co_read", "co_write", "break", "exit_client"}

VARIABLES
  pc,        \* slot -> the statement of its function that is next
  clifd,     \* slot -> the argument of do_client; for my_accept, the new one
  n,         \* slot -> messages in do_client's buf
  accepted,  \* the connections accept() has returned
  backlog,   \* how many more are established, with a descriptor left or not
  sent,      \* conn -> messages its peer has sent
  taken,     \* conn -> those of them that co_read has returned
  echoed,    \* conn -> messages co_write has written back
  shut,      \* the connections whose peer will send no more
  resets     \* those whose peer has reset them

echovars == <<pc, clifd, n, accepted, backlog, sent, taken, echoed, shut, resets>>
evars == <<allvars, echovars>>

EchoTypeOK ==
  /\ pc \in [Slots -> {"none"} \cup Mains \cup Accepting \cup Serving]
  /\ clifd \in [Slots -> Conns \cup {NoFd}]
  /\ n \in [Slots -> 0 .. MaxSent]
  /\ accepted \subseteq Conns
  /\ backlog \in 0 .. Cardinality(Conns \ accepted) + 1
  /\ \A fd \in Conns : echoed[fd] <= taken[fd] /\ taken[fd] <= sent[fd]
  /\ shut \subseteq Conns /\ resets \subseteq Conns

EchoInit ==
  /\ IoInit
  /\ pc = [i \in Slots |-> IF i = 0 THEN "co_create" ELSE "none"]
  /\ clifd = [i \in Slots |-> NoFd]
  /\ n = [i \in Slots |-> 0]
  /\ accepted = {}
  /\ backlog = 0
  /\ sent = [fd \in Conns |-> 0]
  /\ taken = [fd \in Conns |-> 0]
  /\ echoed = [fd \in Conns |-> 0]
  /\ shut = {}
  /\ resets = {}

\* the statement that current executes, while no library call is on its stack
At(statement) == InProgram /\ pc[current] = statement
Goto(statement) == pc' = [pc EXCEPT ![current] = statement]

\* a call waits for fd; when its epoll_ctl fails it returns -1 and the caller exits
WaitOrExit(op, fd, exit) ==
  IF CtlFails(current, fd, EventOf(op)) THEN WaitFails(op, fd) /\ Goto(exit)
  ELSE StartWait(op, fd) /\ UNCHANGED pc

(***************************************************************************)
(* main.                                                                    *)
(***************************************************************************)
main_create ==
  /\ At("co_create")
  /\ \E id \in Slots :
       /\ create(id)
       /\ pc' = [pc EXCEPT ![0] = "co_eventloop", ![id] = "co_accept"]
  /\ UNCHANGED <<clifd, n, accepted, backlog, sent, taken, echoed, shut, resets>>

main_eventloop ==
  /\ At("co_eventloop")
  /\ StartLoop
  /\ Goto("loops")
  /\ UNCHANGED <<clifd, n, accepted, backlog, sent, taken, echoed, shut, resets>>

(***************************************************************************)
(* my_accept.                                                               *)
(***************************************************************************)
accept_waits ==
  /\ At("co_accept")
  /\ WaitOrExit("accept", listenfd, "exit_accept")
  /\ UNCHANGED <<clifd, n, accepted, backlog, sent, taken, echoed, shut, resets>>

\* the lowest number that is not in use; demo03 closes none
NewFd == CHOOSE fd \in Conns \ accepted : \A other \in Conns \ accepted : fd <= other

accept_returns ==
  /\ Resumed("accept")
  /\ accepted # Conns
  /\ return_read
  /\ ready'[listenfd] = IF backlog > 1 THEN {"IN"} ELSE {}
  /\ accepted' = accepted \cup {NewFd}
  /\ backlog' = backlog - 1
  /\ clifd' = [clifd EXCEPT ![current] = NewFd]
  /\ Goto("co_create_client")
  /\ UNCHANGED <<n, sent, taken, echoed, shut, resets>>

\* accept() < 0: no descriptor is left, as none is ever closed (EMFILE), or the
\* connection was reset before it was accepted, which a kernel may report here
AcceptFails == accepted # Conns => NewFd \in resets

accept_fails ==
  /\ Resumed("accept")
  /\ return_read /\ ready' = ready
  /\ AcceptFails
  /\ Goto("exit_accept")
  /\ UNCHANGED <<clifd, n, accepted, backlog, sent, taken, echoed, shut, resets>>

FirstCall_Greeting == "co_write"   \* slip: do_client greets its peer before it reads

FirstCall == "co_read"

create_client ==
  /\ At("co_create_client")
  /\ \E id \in Slots :
       /\ create(id)
       /\ pc' = [pc EXCEPT ![current] = "co_accept", ![id] = FirstCall]
       /\ clifd' = [clifd EXCEPT ![id] = clifd[current]]
  /\ UNCHANGED <<n, accepted, backlog, sent, taken, echoed, shut, resets>>

\* co_create returns -1 and nobody looks: the connection stays without a
\* coroutine.  No do_client is ever joined, so this is for good.
create_client_fails ==
  /\ At("co_create_client")
  /\ \A id \in Slots : status[id] # Free
  /\ Goto("co_accept")
  /\ UNCHANGED <<allvars, clifd, n, accepted, backlog, sent, taken, echoed, shut, resets>>

(***************************************************************************)
(* do_client.                                                               *)
(***************************************************************************)
Conn == clifd[current]

client_reads ==
  /\ At("co_read")
  /\ WaitOrExit("read", Conn, "exit_client")
  /\ UNCHANGED <<clifd, n, accepted, backlog, sent, taken, echoed, shut, resets>>

EndOfStream_Hasty == Conn \in shut   \* slip: unread data is not waited for

EndOfStream == Conn \in shut /\ taken[Conn] = sent[Conn]

\* n > 0: some of what has arrived; n = 0: the end of the stream; n < 0: a reset,
\* which Linux reports behind the data that arrived before it, others at once
read_returns ==
  /\ Resumed("read")
  /\ return_read
  /\ \/ \E k \in 1 .. sent[Conn] - taken[Conn] :
          /\ taken' = [taken EXCEPT ![Conn] = @ + k]
          /\ n' = [n EXCEPT ![current] = k]
          /\ ("IN" \in ready'[Conn]) <=>
               (taken'[Conn] < sent[Conn] \/ Conn \in shut \cup resets)
          /\ Goto("co_write")
     \/ /\ \/ EndOfStream /\ Goto("break")
           \/ Conn \in resets /\ Goto("exit_client")
        /\ ready' = ready
        /\ UNCHANGED <<n, taken>>
  /\ UNCHANGED <<clifd, accepted, backlog, sent, echoed, shut, resets>>

client_writes ==
  /\ At("co_write")
  /\ WaitOrExit("write", Conn, "exit_client")
  /\ UNCHANGED <<clifd, n, accepted, backlog, sent, taken, echoed, shut, resets>>

\* co_write's epoll_ctl of a descriptor that is not registered, or its write()
\* to a connection that was reset (which may be SIGPIPE: as final as exit)
WriteFails == interest[Conn] = {} \/ Conn \in resets

Written_Whole == MaxSent   \* slip: the whole of buf is written, not the n that were read

Written == n[current]

write_returns ==
  /\ Resumed("write")
  /\ return_write
  /\ IF WriteFails
     THEN Goto("exit_client") /\ UNCHANGED <<n, echoed>>
     ELSE /\ echoed' = [echoed EXCEPT ![Conn] = @ + Written]
          /\ n' = [n EXCEPT ![current] = 0]
          /\ Goto("co_read")
  /\ UNCHANGED <<clifd, accepted, backlog, sent, taken, shut, resets>>

\* do_client has returned: the rest of start(); its connection is not closed
client_ends ==
  /\ At("break")
  /\ finish \/ finish_crash
  /\ Goto("none")
  /\ UNCHANGED <<clifd, n, accepted, backlog, sent, taken, echoed, shut, resets>>

(***************************************************************************)
(* The peers.                                                               *)
(***************************************************************************)
Arrives(fd) == IF "IN" \in ready[fd] THEN UNCHANGED allvars ELSE Arrive(fd)

\* The last one finds all descriptors in use; what is behind it would as well.
Connect ==
  /\ backlog <= Cardinality(Conns \ accepted)
  /\ Arrives(listenfd)
  /\ backlog' = backlog + 1
  /\ UNCHANGED <<pc, clifd, n, accepted, sent, taken, echoed, shut, resets>>

Established(fd) ==
  Cardinality({other \in Conns : other < fd}) < Cardinality(accepted) + backlog

\* the messages sent, by connection and number
AllSent == {m \in Conns \X (1 .. MaxSent) : m[2] <= sent[m[1]]}

MayAct == Cardinality(AllSent) + Cardinality(shut) + Cardinality(resets) < MaxActs

Send(fd) ==
  /\ Established(fd) /\ fd \notin shut \cup resets
  /\ MayAct
  /\ Cardinality(AllSent) < MaxSent
  /\ Arrives(fd)
  /\ sent' = [sent EXCEPT ![fd] = @ + 1]
  /\ UNCHANGED <<pc, clifd, n, accepted, backlog, taken, echoed, shut, resets>>

Shutdown(fd) ==
  /\ Established(fd) /\ fd \notin shut \cup resets
  /\ MayAct
  /\ Arrives(fd)
  /\ shut' = shut \cup {fd}
  /\ UNCHANGED <<pc, clifd, n, accepted, backlog, sent, taken, echoed, resets>>

\* EPOLLERR and EPOLLHUP come with EPOLLIN, and tell co_read no more than it does
Reset(fd) ==
  /\ Established(fd) /\ fd \notin resets
  /\ MayAct
  /\ Arrives(fd)
  /\ resets' = resets \cup {fd}
  /\ UNCHANGED <<pc, clifd, n, accepted, backlog, sent, taken, echoed, shut>>

(***************************************************************************)
(* The specification.                                                       *)
(***************************************************************************)
Library ==
  /\ \/ WaitAgain \/ EpollWait \/ EpollTimeout \/ EventsHandled
     \/ \E ev \in batch : HandleEvent(ev) \/ HandleCrash(ev)
     \/ Scheduler
  /\ UNCHANGED echovars

\* everything that the one thread of the process does
Process ==
  \/ main_create \/ main_eventloop
  \/ accept_waits \/ accept_returns \/ accept_fails \/ create_client \/ create_client_fails
  \/ client_reads \/ read_returns \/ client_writes \/ write_returns \/ client_ends
  \/ Library

Peers == Connect \/ \E fd \in Conns : Send(fd) \/ Shutdown(fd) \/ Reset(fd)

\* The process is gone, and its descriptors with it.
Gone == \E i \in Slots : pc[i] \in {"exit_accept", "exit_client"}

Terminating == Gone /\ UNCHANGED evars

EchoNext == Process \/ (~Gone /\ Peers) \/ Terminating

\* The thread runs; nothing is assumed of the peers.
EchoSpec == EchoInit /\ [][EchoNext]_evars /\ WF_evars(Process)

(***************************************************************************)
(* Properties.                                                              *)
(***************************************************************************)

\* demo03 keeps the contract CoIO's guarantees need: its steps are steps of a
\* program without any of the Habits, although none of them is forbidden here.
Contract == INSTANCE CoIO WITH Habits <- {}
KeepsContract == Contract!IoSpec

\* What the server cannot do anything about: a peer resets its connection, or
\* more connections are made than there are descriptors for.
Faulted == resets # {} \/ backlog > Cardinality(Conns \ accepted)

\* The server exits, in the middle of what it does for others, only upon such a
\* fault: no call returns -1 because the library mishandles its registrations,
\* be it add_queue's epoll_ctl or the one that co_write makes before write().
ExitsOnFaultOnly == Gone => Faulted

\* Nothing is lost or made up: when do_client has ended everything its peer
\* sent has been written back, and at any time what was taken but not yet
\* written back is in the buffer of one coroutine.
EchoComplete ==
  \A fd \in Conns :
    LET mine == {i \in Slots : clifd[i] = fd /\ pc[i] \in Serving}
    IN  /\ Cardinality(mine) <= 1
        /\ \A i \in mine : taken[fd] = echoed[fd] + n[i]
        /\ mine = {} => taken[fd] = echoed[fd]
        /\ mine = {} /\ taken[fd] > 0 => fd \in shut /\ echoed[fd] = sent[fd]

\* Every message on a connection that has a coroutine is written back, however
\* many other connections there are, unless the server exits in between: a reset
\* of a connection that nobody reads keeps it from nothing.
EveryMessageEchoed ==
  \A fd \in Conns :
    (taken[fd] < sent[fd] /\ \E i \in Slots : clifd[i] = fd /\ pc[i] = "co_read")
      ~> (echoed[fd] = sent[fd] \/ Gone)
=============================================================================
