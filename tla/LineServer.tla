----------------------------- MODULE LineServer -----------------------------
(***************************************************************************)
(* The test servers upper.c and reverse.c of tools/server with clients      *)
(* cli.c.  They use epoll without the library: one thread, blocking reads   *)
(* in the middle of the event loop.                                         *)
(*                                                                         *)
(* The two servers differ in what they do to a line; their loops are the    *)
(* same, and so is that of examples/demo02.c, which only prints what comes. *)
(* TCP may hand a write over in pieces, and reset a connection.             *)
(***************************************************************************)
EXTENDS Integers, Sequences, FiniteSets, SequencesExt

CONSTANTS
  Clients,
  Lines,      \* what users type, without the newline
  MaxLines    \* bound: lines typed altogether

nl == "nl"
Lower == {"a", "b"}
Letters == Lower \cup {"A", "B"}
Cap(ch) == CASE ch = "a" -> "A" [] ch = "b" -> "B" [] OTHER -> ch

Listen == "listen"   \* names the listening socket in a batch

ASSUME LineAssumption ==
  /\ Lines \subseteq Seq(Letters)
  /\ MaxLines \in Nat
  /\ Clients \cap {Listen, "epoll_wait", "events", "killed"} = {}

VARIABLES
  program,   \* "upper", "reverse" or "demo02", the server that was started
  pieces,    \* whether TCP splits what is written
  conn,      \* client -> "none", "backlog", "open" or "closed"
  gone,      \* the clients that have ended
  resets,    \* those whose connection was reset
  up,        \* client -> the bytes written by it and not yet read
  down,      \* client -> the bytes written to it and not yet read
  pc,        \* "epoll_wait", "events", the client get_line() reads from, or "killed"
  batch,     \* the events still to be handled
  buf,       \* handle()'s buf, its first curr bytes
  asks,      \* client -> the line it waits for, or None
  typed,     \* lines typed so far
  shown,     \* client -> what it printed last
  written,   \* history: client -> all it wrote
  answered   \* history: client -> all that was written to it, or printed of it

lvars == <<program, pieces, conn, gone, resets, up, down, pc, batch, buf, asks, typed,
           shown, written, answered>>

None == <<"none">>
Bytes == Letters \cup {nl}

LTypeOK ==
  /\ program \in {"upper", "reverse", "demo02"} /\ pieces \in BOOLEAN
  /\ conn \in [Clients -> {"none", "backlog", "open", "closed"}]
  /\ gone \subseteq Clients /\ resets \subseteq gone
  /\ up \in [Clients -> Seq(Bytes)] /\ down \in [Clients -> Seq(Bytes)]
  /\ pc \in {"epoll_wait", "events", "killed"} \cup {c \in Clients : conn[c] = "open"}
  /\ batch \subseteq {c \in Clients : conn[c] = "open"} \cup {Listen}
  /\ buf \in Seq(Bytes) /\ (pc \notin Clients => buf = <<>>)
  /\ asks \in [Clients -> Lines \cup {None}] /\ typed \in 0 .. MaxLines
  /\ shown \in [Clients -> Seq(Bytes)] /\ written \in [Clients -> Seq(Bytes)]
  /\ answered \in [Clients -> Seq(Bytes)]

LInit ==
  /\ program \in {"upper", "reverse", "demo02"}
  /\ pieces \in BOOLEAN
  /\ conn = [c \in Clients |-> "none"] /\ gone = {} /\ resets = {}
  /\ up = [c \in Clients |-> <<>>] /\ down = [c \in Clients |-> <<>>]
  /\ pc = "epoll_wait"
  /\ batch = {}
  /\ buf = <<>>
  /\ asks = [c \in Clients |-> None]
  /\ typed = 0
  /\ shown = [c \in Clients |-> <<>>]
  /\ written = [c \in Clients |-> <<>>] /\ answered = [c \in Clients |-> <<>>]

(***************************************************************************)
(* What the servers do to buf.                                              *)
(***************************************************************************)

\* the loop ends at the first newline
upper(s) ==
  [i \in 1 .. Len(s) |->
     IF s[i] \in Lower /\ \A j \in 1 .. i : s[j] # nl THEN Cap(s[i]) ELSE s[i]]

Right_KeepsLast(n, left) == n - left   \* slip: the newline at the end stays where it is

Right(n, left) == n + 1 - left

\* left and right move towards each other and exchange what they point to
reverse(s) ==
  LET n == Len(s)
      swapped[left \in 0 .. n] ==
        LET before == swapped[left - 1]
            right  == Right(n, left)
        IN  IF left = 0 THEN s
            ELSE IF left < right
                 THEN [before EXCEPT ![left] = before[right], ![right] = before[left]]
                 ELSE before
  IN  swapped[n]

Answer(s) == IF program = "upper" THEN upper(s) ELSE reverse(s)

(***************************************************************************)
(* The server.                                                              *)
(***************************************************************************)

\* how many bytes a read() of stream may return
Portions(stream) == IF pieces THEN 1 .. Len(stream) ELSE {Len(stream)} \ {0}

Readable_Closed(c) == up[c] # <<>> \/ c \in gone   \* slip: a closed client stays watched

Readable(c) == conn[c] = "open" /\ (up[c] # <<>> \/ c \in gone)

\* level-triggered, without a timeout
EpollWait ==
  /\ pc = "epoll_wait"
  /\ batch' = {c \in Clients : Readable(c)}
               \cup (IF \E c \in Clients : conn[c] = "backlog" THEN {Listen} ELSE {})
  /\ batch' # {}
  /\ pc' = "events"
  /\ UNCHANGED <<program, pieces, conn, gone, resets, up, down, buf, asks, typed, shown,
                 written, answered>>

\* the listening socket: one connection is accepted and watched
Accept(c) ==
  /\ pc = "events" /\ Listen \in batch
  /\ conn[c] = "backlog"
  /\ conn' = [conn EXCEPT ![c] = "open"]
  /\ batch' = batch \ {Listen}
  /\ UNCHANGED <<program, pieces, gone, resets, up, down, pc, buf, asks, typed, shown,
                 written, answered>>

\* a client: handle() enters get_line()
Handle(c) ==
  /\ program # "demo02" /\ pc = "events" /\ c \in batch
  /\ pc' = c
  /\ batch' = batch \ {c}
  /\ UNCHANGED <<program, pieces, conn, gone, resets, up, down, buf, asks, typed, shown,
                 written, answered>>

\* slip: the test looks at the byte behind the last
LineDone_Behind == FALSE

LineDone == buf # <<>> /\ Last(buf) = nl

Joined_AtStart(bytes) == bytes   \* slip: every read starts at the beginning of buf

Joined(bytes) == buf \o bytes

\* one turn of get_line()'s loop; without data the read blocks, and with it
\* the server
Read(c) ==
  /\ pc = c /\ ~LineDone
  /\ \E k \in Portions(up[c]) :
       /\ buf' = Joined(SubSeq(up[c], 1, k))
       /\ up' = [up EXCEPT ![c] = SubSeq(@, k + 1, Len(@))]
  /\ UNCHANGED <<program, pieces, conn, gone, resets, down, pc, batch, asks, typed, shown,
                 written, answered>>

\* read() returns -1, as it may once a reset connection is drained: curr goes back by
\* one.  (When buf is empty that is outside of it, where get_line() then looks for a
\* newline: found or not, HangUp follows.)
ReadFails(c) ==
  /\ pc = c /\ ~LineDone
  /\ up[c] = <<>> /\ c \in resets
  /\ buf # <<>> /\ buf' = Front(buf)
  /\ UNCHANGED <<program, pieces, conn, gone, resets, up, down, pc, batch, asks, typed,
                 shown, written, answered>>

\* get_line() returns the length: the rest of handle(), which does not look at what
\* write() returns
Reply(c) ==
  /\ pc = c /\ LineDone
  /\ down' = [down EXCEPT ![c] = @ \o Answer(buf)]
  /\ answered' = [answered EXCEPT ![c] = @ \o Answer(buf)]
  /\ buf' = <<>>
  /\ pc' = "events"
  /\ UNCHANGED <<program, pieces, conn, gone, resets, up, batch, asks, typed, shown,
                 written>>

\* write() to a connection that was reset may raise SIGPIPE, which ends the server
Killed(c) ==
  /\ pc = c /\ LineDone /\ c \in resets
  /\ pc' = "killed" /\ buf' = <<>>
  /\ UNCHANGED <<program, pieces, conn, gone, resets, up, down, batch, asks, typed,
                 shown, written, answered>>

\* get_line() returns -1: as a size_t it is not 0, but the loops of upper() and
\* reverse() do nothing with it, write() refuses that many bytes, and handle()
\* returns -1 in the end: the connection is closed.  (The newline that goes to
\* buf[-1] is taken to hit no live variable.)
HangUp(c) ==
  /\ pc = c /\ ~LineDone
  /\ up[c] = <<>> /\ c \in gone
  /\ conn' = [conn EXCEPT ![c] = "closed"]
  /\ buf' = <<>>
  /\ pc' = "events"
  /\ UNCHANGED <<program, pieces, gone, resets, up, down, batch, asks, typed, shown,
                 written, answered>>

\* demo02 prints what one read() returns, or, when that is -1, nothing new; at the end
\* of the stream it only stops watching the descriptor, which stays open
ReadAndShow(c) ==
  /\ program = "demo02" /\ pc = "events" /\ c \in batch
  /\ \/ \E k \in Portions(up[c]) :
          /\ answered' = [answered EXCEPT ![c] = @ \o SubSeq(up[c], 1, k)]
          /\ up' = [up EXCEPT ![c] = SubSeq(@, k + 1, Len(@))]
          /\ UNCHANGED conn
     \/ /\ up[c] = <<>>
        /\ \/ conn' = [conn EXCEPT ![c] = "closed"]
           \/ c \in resets /\ UNCHANGED conn
        /\ UNCHANGED <<up, answered>>
  /\ batch' = batch \ {c}
  /\ UNCHANGED <<program, pieces, gone, resets, down, pc, buf, asks, typed, shown,
                 written>>

EventsDone ==
  /\ pc = "events" /\ batch = {}
  /\ pc' = "epoll_wait"
  /\ UNCHANGED <<program, pieces, conn, gone, resets, up, down, batch, buf, asks, typed,
                 shown, written, answered>>

(***************************************************************************)
(* The client.                                                              *)
(***************************************************************************)
Connect(c) ==
  /\ conn[c] = "none"
  /\ conn' = [conn EXCEPT ![c] = "backlog"]
  /\ UNCHANGED <<program, pieces, gone, resets, up, down, pc, batch, buf, asks, typed,
                 shown, written, answered>>

\* fgets() keeps the newline of the line, str_cli adds another one
Sent(l) == l \o <<nl, nl>>

Type(c, l) ==
  /\ conn[c] \in {"backlog", "open"} /\ c \notin gone
  /\ asks[c] = None /\ typed < MaxLines
  /\ up' = [up EXCEPT ![c] = @ \o Sent(l)]
  /\ written' = [written EXCEPT ![c] = @ \o Sent(l)]
  /\ asks' = [asks EXCEPT ![c] = l]
  /\ typed' = typed + 1
  /\ UNCHANGED <<program, pieces, conn, gone, resets, down, pc, batch, buf, shown,
                 answered>>

\* a single read() is taken for the answer; it is printed with what it does not
\* overwrite of the line in the same buffer
Show(c) ==
  /\ asks[c] # None /\ c \notin gone
  /\ \E k \in Portions(down[c]) :
       /\ shown' = [shown EXCEPT ![c] = SubSeq(down[c], 1, k)
                                           \o SubSeq(Sent(asks[c]), k + 1, Len(asks[c]) + 2)]
       /\ down' = [down EXCEPT ![c] = SubSeq(@, k + 1, Len(@))]
  /\ asks' = [asks EXCEPT ![c] = None]
  /\ UNCHANGED <<program, pieces, conn, gone, resets, up, pc, batch, buf, typed, written,
                 answered>>

\* the user interrupts the client while it waits for a line, or for an answer that
\* demo02 will not give, and nothing is on its way
Interrupt(c) ==
  /\ conn[c] \in {"backlog", "open"} /\ c \notin gone
  /\ asks[c] = None \/ program = "demo02"
  /\ pc # c
  /\ up[c] = <<>> /\ down[c] = <<>>
  /\ gone' = gone \cup {c}
  /\ UNCHANGED <<program, pieces, conn, resets, up, down, pc, batch, buf, asks, typed,
                 shown, written, answered>>

\* a client ends while something is on its way, or its connection fails: what has
\* arrived by then can still be read, the rest is lost
Reset(c) ==
  /\ conn[c] \in {"backlog", "open"} /\ c \notin gone
  /\ gone' = gone \cup {c} /\ resets' = resets \cup {c}
  /\ \E k \in {0} \cup Portions(up[c]) : up' = [up EXCEPT ![c] = SubSeq(@, 1, k)]
  /\ UNCHANGED <<program, pieces, conn, down, pc, batch, buf, asks, typed, shown,
                 written, answered>>

Server ==
  \/ EpollWait \/ EventsDone
  \/ \E c \in Clients : Accept(c) \/ Handle(c) \/ Read(c) \/ ReadFails(c) \/ Reply(c)
                          \/ Killed(c) \/ HangUp(c) \/ ReadAndShow(c)

LNext ==
  \/ Server
  \/ \E c \in Clients : Connect(c) \/ Show(c) \/ Interrupt(c) \/ Reset(c)
  \/ \E c \in Clients, l \in Lines : Type(c, l)

\* The server runs, and so does a client that has something to read; users may
\* stop typing.
LSpec ==
  /\ LInit /\ [][LNext]_lvars
  /\ WF_lvars(Server) /\ \A c \in Clients : WF_lvars(Show(c))

-----------------------------------------------------------------------------
\* What the answer to a line is meant to be.
UpperCase(l) == [i \in 1 .. Len(l) |-> Cap(l[i])]
Meant(l) == IF program = "upper" THEN Sent(UpperCase(l)) ELSE Reverse(Sent(l))

\* As long as TCP keeps writes together, what a client prints is the answer to
\* the line it has just sent.  (In pieces a line is answered in two parts, the
\* second of which is taken for the answer to the next line.)
InStep ==
  [][\A c \in Clients :
       ~pieces /\ asks[c] # None /\ asks'[c] = None => shown'[c] = Meant(asks[c])]_lvars

Count(s, ch) == Cardinality({k \in 1 .. Len(s) : Cap(s[k]) = Cap(ch)})

\* However TCP splits the lines and the server interleaves its clients, no byte
\* is lost, doubled or given to another client: what a client wrote has been
\* answered, is in the buffer of handle() for it, or is still to be read.  Only
\* clients whose own connection is reset lose any.
NothingLost ==
  \A c \in Clients \ resets :
    LET rest == (IF pc = c THEN buf ELSE <<>>) \o up[c]
    IN  \A ch \in Bytes : Count(written[c], ch) = Count(answered[c], ch) + Count(rest, ch)

\* A client that waits is answered - by demo02, its line is printed - whatever the
\* others' connections are reset in the middle of, unless the server's answer to
\* one of them kills it.
Answered ==
  \A c \in Clients :
    asks[c] # None ~> IF program = "demo02" THEN up[c] = <<>>
                      ELSE asks[c] = None \/ c \in resets \/ pc = "killed"
=============================================================================
