# Verification of libco-lite

libco-lite is a coroutine library for Linux: cooperative threads with their own
stacks, `co_create`/`co_join`/`co_sleep` in the style of pthreads, and blocking
I/O (`co_accept`, `co_read`, `co_write`) on top of epoll. This directory holds
TLA+ models of it, what TLC checks about them, and proofs that TLAPS checks.
Paths below are relative to the repository.

## 1. The system

| part | code | state it keeps | operations |
|---|---|---|---|
| coroutine lifecycle | `src/coroutine.c` | `thread_env_t`: table `task[]`, `task_count`, `current`; `task_struct_t`: `status`, `wakeuptime` | `co_get_thread_env`, `co_create`, `co_join`, `start` (entry and exit of a coroutine) |
| scheduler | `src/sched.c` | none of its own; reads the clock | `schedule`, `pick`, `co_switch_to`, `co_sleep` |
| context switch | `src/switch.S`, frame in `co_create` | stacks, `esp` | `switch_to` |
| blocking calls | `src/cosyscall.c` | per task: `events[]`, `revents[]`, `fds[]`; per thread: `block_queue[]`, the epoll instance | `add_queue`, `co_accept`, `co_read`, `co_write` |
| event loop | `src/coeventloop.c` | the events of the last `epoll_wait` | `co_eventloop` |
| tail queue | `include/queue.h` | head and link pointers | `TAILQ_INIT/FIRST/INSERT_TAIL/REMOVE` |
| thread environments | `src/coroutine.c`, `gettid` in `src/cosyscall.c` | `g_thread_env_arr[tid % 10240]`, never emptied | `co_get_thread_env`, `gettid` |
| examples | `examples/demo01.c` (two threads with coroutines), `demo03.c` (echo server); `demo02.c` (an epoll server) does not use the library | locals on coroutine stacks | `main`, `fun1` to `fun5`, `th_fn`; `my_accept`, `do_client` |
| test servers | `tools/server/*.c` | a line buffer | `get_line`, `upper`, `reverse`; the client `cli` |

How the parts interact. All coroutines of a thread share one `thread_env_t` and
one flow of control: a coroutine runs until it calls `schedule()`, directly or
through a library call. `schedule()` calls `pick()`, which first readies expired
sleepers slot by slot, then takes the next runnable slot behind the current one
and otherwise begins again; `co_switch_to()` moves `current` and the stack. The
blocking calls mark the task `WAIT`, register the descriptor with epoll, link
the task into `block_queue[fd]` and schedule. `co_eventloop()`, itself run by
some coroutine, takes the first task of the queue of every reported descriptor
and marks it `RUNNING`.

What is hard about it:

* the order of the steps of several coroutines: a target that exits, is freed
  and whose slot is reused while others poll it; an exit that must never return;
* state that is checked, then used after others have run: `revents`, the mask in
  `events`, the registration in the kernel, the place in `block_queue`;
* level-triggered events for descriptors nobody waits on at the moment;
* the 32-bit millisecond clock;
* links between queue entries that outlive the membership;
* numbers of descriptors and of threads that are used again, while tables still
  hold what was noted for their former owner;
* liveness on top of two nested busy loops.

What makes each part correct:

* *lifecycle*: a slot is in use exactly from create to join; `task_count` counts
  them; a join sees its own target; no code runs on a finished or freed stack.
* *scheduler*: only runnable coroutines run; every runnable one does, after a
  bounded number of others; sleepers are readied after their time, and are.
* *queues*: the pointers represent first-in first-out sequences at all times.
* *blocking I/O*: the event loop finds a waiter for every event; every waiter is
  registered for what it waits for, so that no wake-up is lost; the system call
  at the end of a wait does not block the thread; the call returns in the end.
* *context switch*: a coroutine goes on exactly as it left, whatever the others
  did; a new one starts in `start()` with its own control block.
* *test servers*: bytes are neither lost nor given to the wrong client, however
  TCP cuts the stream; every line is answered, and the answer is the line in
  upper case, or reversed.
* *thread environments*: a thread executes the coroutine that its environment
  calls current, on that coroutine's own stack, and two threads never share a
  stack, also when an environment is inherited from a thread that has ended.
* *examples*: `demo01` ends, without a coroutine left behind; `demo03` echoes all.

PROJECT.json lists the hazards line by line, with the property that covers each.

## 2. Modules

| module | models | composed with |
|---|---|---|
| `Coop` | abstract specification: threads of control, one CPU, release, wake, dispatch, reap | |
| `Sched` | lifecycle and scheduler of one thread | implements `Coop` |
| `SchedHistory` | `Sched` with history variables: the time a sleep asked for, turns given to others | extends `Sched` |
| `TailQ` | the queue macros as operators on pointers | |
| `TailQueue` | elements linked into and out of queues, against the sequences they stand for | extends `TailQ` |
| `CoIO` | blocking calls, event loop, exit clean-up, epoll | extends `Sched`, instance of `TailQ`, implements `Coop` |
| `EchoServer` | `examples/demo03.c`: the program itself | extends `CoIO`; implements its contract |
| `Switch` | `switch_to` by instructions, the first frame of `co_create` | stands on its own, below the atomic switch of `Sched` |
| `Threads` | several threads: `g_thread_env_arr`, `gettid`, the stacks that `schedule()` moves between | every environment implements `Coop` |
| `Demo01` | `examples/demo01.c`, and beside it a program that makes any calls | extends `Threads` |
| `LineServer`, `MCLineServer` | `tools/server`: `upper`, `reverse`, clients `cli`; `examples/demo02.c` | stands on its own: they do not use the library |
| `SchedProofs`, `SchedHistoryProofs`, `SwitchProofs`, `TailQueueProofs`, `LineServerProofs` | theorems about the module of the name | each extends its module |
| `ThreadsProofs` | theorems about `Threads` and `Demo01` | extends `Demo01` |
| `CoIOProofs` | theorems about `CoIO` | extends `CoIO` and `SchedProofs` |
| `EchoServerProofs` | theorems about `EchoServer` | extends `EchoServer`; an instance of `CoIOProofs` without `Habits` |

### Sched

State: `status`, `wakeuptime` and the table are functions on the slots, with
status `Free` for a NULL entry; a coroutine is named by its slot, as its `id`
is. `phase`, `scan` are the program counter of the one flow of control: `"run"`
while `current` executes, `"wake"` inside `pick()` at slot `scan`; `joining` is
the argument of a `co_join` on a coroutine's stack. `now` is the wall clock in
milliseconds, which nobody sets back; the code only sees `getmstime`, its remainder
modulo `ClockMod`.

| action | code |
|---|---|
| `co_create(id)` | `co_create` with the first free slot; a full table only returns -1, no step |
| `co_sleep(s)` | `co_sleep` up to its `schedule()` |
| `co_join(cid)`, `JoinWait`, `JoinReap` | entry, one turn of the loop, the rest of `co_join` |
| `Finish` | `start()` after the coroutine function has returned |
| `WakeScan` | one turn of `pick()`'s first loop; the clock is read there and may move between turns |
| `Pick(next)` | `pick()`'s search and `co_switch_to`; `Nearest` is the round-robin order |
| `Repeat` | `goto repeat` |
| `Tick` | the wall clock |

The program is any sequence of these calls by any coroutine, under the contract
of a pthread-style interface that a cid is joined once and before its coroutine
has been reaped (`Joinable`). The switch itself is atomic here; `Switch` opens it up.

### CoIO

Adds the queues with the pointers of `TailQ`, the tables `events`, `revents`,
`fds`, and the part of epoll the code relies on: `interest`, what a descriptor
is registered for, and `ready`, what it is ready for (level-triggered). `call`
is the blocking call on a coroutine's stack, `batch` the events of `epoll_wait`
not yet handled.

| action | code |
|---|---|
| `StartWait`, `WaitFails` | `co_read`, `co_write`, `co_accept` with `add_queue` up to `schedule()`; the return of -1 when `epoll_ctl` fails |
| `WaitAgain` | one more turn of the wait loop |
| `return_read`, `return_write` | the rest of the call with `read`, `accept` or `write` |
| `finish`, `finish_crash` | `start()` with its clean-up of `fds` |
| `close` | the program closes a descriptor it has waited on: epoll forgets it, the library is not told, the number belongs to the next connection |
| `StartLoop`, `EpollWait`, `EpollTimeout`, `EpollInterrupted`, `HandleEvent`, `HandleCrash`, `EventsHandled` | `co_eventloop` |
| `Arrive`, `Drain`, `HangUp` | the peers, through the kernel |
| `create`, `sleep`, `join`, `reap`, `Scheduler` | the actions of `Sched` |

Following a NULL or freed pointer, and an `exit()`, lead to phase `"stopped"`, in
which nothing more is said. `Habits` names what the program, its peers and the
system may do beyond the library's contract, which is what `examples/demo03.c`
does: each descriptor has one coroutine and each coroutine one descriptor, a
coroutine reads before it writes, gives the CPU away only to wait on its
descriptor, returns once it has closed it, and can always write; one coroutine
runs an event loop.

| habit | what happens |
|---|---|
| `share`, `many` | two coroutines on a descriptor; one coroutine on several |
| `write_first` | the first call on a descriptor is `co_write` |
| `detour` | a coroutine sleeps or joins between two waits |
| `reuse` | it closes its descriptor and goes on, with the same number for another connection |
| `loops` | several event loops in the thread |
| `files` | descriptors are regular files, which `EPOLL_CTL_ADD` refuses |
| `backpressure`, `hangup` | the send buffer is full; the writer of a pipe closes it (EPOLLHUP alone) |
| `signals` | `epoll_wait` is interrupted, and the process exits |

Descriptor 0 is an ordinary member of `Fds`. The runs of the contract are without it,
`io_own` has it.

### EchoServer

The program of `demo03.c` in place of `CoIO`'s arbitrary one: `pc` is the next
statement of each coroutine's function, `clifd` and `n` their variables, and the
actions are named after the statements (`accept_waits`, `accept_returns`,
`create_client`, `create_client_fails`, `client_reads`, `read_returns`,
`client_writes`, `write_returns`, `client_ends`), each of them an action
of `CoIO` with the effect on the program's variables; `Library` is what goes on
inside the calls. `Connect`, `Send`, `Shutdown` and `Reset` are the peers; data is
counted in messages. `main()` never gets past `co_eventloop()`.

Each call can return -1, upon which its coroutine exits and with it the process
(`pc` is `"exit_accept"` or `"exit_client"`, `Gone`): in `WaitOrExit` when the
`epoll_ctl` of `add_queue` fails, in `read_returns` and `write_returns` when the peer
has reset the connection, in `write_returns` when `co_write`'s own `epoll_ctl` finds
the descriptor not registered, and in `accept_fails` when no descriptor is left
(`demo03` closes none) or the connection was reset before. `ExitsOnFaultOnly`
says that the exits are the peers' doing (`Faulted`) and not the library's.

### Switch

State: the registers `reg`, the words of every `stack`, `esp` of every control
block, `current`, and `ip`, the instruction of `switch_to` that is next (0 while
C code runs). `switch_to` is the sequence of instructions on x86-64;
`Instruction` executes one of them by `push`, `pop`, `enter` (the frame
pointer), `mov` (a parameter into the accumulator), `save` and `load`
(the stack pointer to and from a control block) and `ret`. `co_create` writes
`FirstFrame`. `co_switch_to` stands for the C code between two switches: any
register contents, any depth in use, then `current` is set and the call made.
A word is its meaning (an address in a stack, a control block, a return address,
a value of some coroutine); a popped word is dead, as a signal handler may
overwrite it. `saved` remembers what a coroutine had when it left.
The i386 code is not modelled. It reads `next` from `16(%ebp)` (switch.S:48),
where cdecl has a word of the caller's frame; the parameter is at `12(%ebp)`.

### Threads and Demo01

An environment is named by its index in `g_thread_env_arr`, a stack by its owner:
`Own(t)`, that of a thread, or `Block(k, i)`, in the control block of slot `i` of
environment `k`. `task`, `current` and `esp` are the environments' contents,
`stack` is where each thread executes, `phase` whether it is inside `schedule()`.
`co_get_thread_env` is the first call of a thread, `Env(t)` the index that every
call computes; `finish` names the block by the stack, as `start()` gets it as its
argument, while `co_sleep` goes through `current`, as the code does. `pick()`'s
loops and the clock are those of `Sched` and are left out; a sleeper that `pick()`
comes across is readied sooner or later (`WakeUp`), and `Pick` takes the next
runnable slot. `pthread_create` and `thread_returns` are the kernel's; nothing in
the library is told when a thread ends, so its environment stays for the next
thread with the same index, with whatever coroutines are left in it.

`Apart` is what the table asks of the kernel: live threads have ids that differ
modulo its size. Linux gives out ids nearly in sequence, so this fails only when
many threads or processes come between two of the program's; then two
threads run each other's coroutines, and none of the properties holds.

`gettid()` has no `return`. Compiled without optimisation, as by the Makefiles,
it leaves the result of `syscall()` in the return register; `Env` relies on that.

`Demo01` has the functions of `demo01.c` as sequences of statements and a `frame`
for every stack: the function on it, its next statement, the cids it has got. Each
statement (`create`, `sleep`, `join`, `start_thread`, `join_thread`, `return`) is
the action of `Threads` with the step of the program. As `co_join` of `Threads` has its
contract as a guard, a program that broke it would stop there unnoticed;
`JoinsMayBegin` says that this guard holds whenever `demo01` comes to a join.
`AnyCall` is the other program of the run: three threads, any calls.

### LineServer

Three servers, of which `program` is the one that was started. `upper` and
`reverse` have the same loop; `demo02` prints what it reads (`ReadAndShow`) and
does not answer. `pc` is
where its single thread is: in `epoll_wait`, among the `events` of the last one,
or in `get_line` for a client, which may block it there. `up` and `down` are the
two directions of each TCP connection as sequences of bytes; `pieces` lets a
`read` take any part of what has been written. `EpollWait`, `Accept`, `Handle`,
`Read` (a turn of `get_line`'s loop), `Reply`, `HangUp` and `EventsDone` are the
server, `Connect`, `Type`, `Show` and `Interrupt` a client and its user. A client may
also go while something is on its way, or lose its connection (`Reset`). What has
arrived by then can still be read, the rest of a line is lost; a `read` behind it may return -1, which `get_line`
adds to `curr` (`ReadFails`), and a `write` may raise SIGPIPE (`Killed`). `upper`
and `reverse` are the two loops over the buffer, the second as a recursive
function; `InStep` compares them with what they are meant to compute.

`cli` sends its line with two newlines and takes one `read` for the answer. In
pieces a line can therefore be answered in two parts, the second of which is
shown for the next line, and `upper`, which ends at the first newline, leaves a
line that follows another one in the same buffer as it is. `InStep` is about
writes that TCP keeps together; `NothingLost` and `Answered` hold either way, the first
for clients whose own connection is not reset, the second until the server is killed.

### Mutants

Definitions with a suffix and the comment "slip" (`Expired_Others`,
`TAILQ_REMOVE_OneWay`, ...) are faulty variants of the definition that follows
them. They are part of no specification; PROJECT.json pairs each property with
one that breaks it.

## 3. Runs

| run | bounds | shows |
|---|---|---|
| `sched_fair` | 3 slots with history, clock of 4 values to time 3, sleeps of 2 | types, exact `task_count`, join targets, live stacks; fewer than `NR_TASKS` bypasses, no early and no missed wake-up short of a wrap; under fairness every runnable coroutine runs, sleeps end, joins end, the fair `Coop` |
| `demo01` | 2 environments of 4 slots, 3 threads with 3 ids; any calls on 2 of the slots, or `demo01` with loops of one turn | right coroutine, right stack, every environment a `Coop`; `demo01` joins only what it may, ends and leaves nothing behind |
| `tailq` | 2 queues, 4 elements | the pointers represent the sequences |
| `io_contract` | 3 slots, a listener and a connection, sleepers | no crash, no event without a waiter, no lost wake-up, no system call that blocks, refinement of `Coop`; under fairness `co_read` and `co_accept` return |
| `io_own` | 3 slots, descriptors 0 and 3, all habits but `share` and `many` | no dangling queue tail, no resurrected coroutine |
| `echo` | 4 slots, 3 descriptors for connections, 2 messages, 4 acts of the peers | `demo03` keeps the contract, exits upon its peers' faults only, every message is written back once |
| `switch` | 3 coroutines, stacks of 22 words, 2 values, 2 depths | every switch ends in the coroutine it was asked for, with its registers, stack pointer and stack restored |
| `switch_entry` | the same | **violated**: `EntersAligned` |
| `lines` | three programs, 2 clients, 3 lines, with and without splitting and resets | no byte lost, whole lines answered in step, everybody who waits is answered |
| `io_backpressure`, `io_many`, `io_write_first` | 2 slots, 1 or 2 descriptors, one habit each | **violated**, see below |

Why the bounds are enough. The library treats slots and descriptors alike; three
slots are the smallest table in which two coroutines interact while a third one
(the initial task, or the event loop) is involved, and in which slots are reused
in an order other than that of creation: with the initial task in slot 0 the
table fills up, and a join empties a slot while the other one is in use. A queue
of four elements has a first, a last and two inner ones. The clock has 4 values
instead of 2^32: the comparisons only see order and remainder, and the sum of
clock and sleep time wraps; the proofs do without a bound. `MaxTime` bounds
`now`, `MAX_FD` the entries of `fds`; `MsPerSec` is 1 where the code has 1000, the
proofs keep it a parameter.

`demo01` needs four slots (three coroutines beside `main`), and two environments.
Of its ids 5, 6 and 7 two are congruent, so that a third thread can only begin
when one has ended, in the environment that it left. `MaxTurns` cuts the loops of
the functions to one turn: further turns are further sleeps in the same state.
`AnySlots` bounds the slots that the program of any calls uses; the proofs have
no bound.

`io_own` is about coroutines that do not meet on a descriptor, so that a queue has one
entry at most, which is what its proofs rest on as well; three slots have two of
them, one for each descriptor, beside the event loop. With `share` both of its
properties are false in a table that is large enough, and a run with few slots would
show nothing. Five slots do for `ExitedStaysDead`. A, B and C queue on a listener in
this order (B and C at their second attempt, as `EPOLL_CTL_ADD` fails at the first).
A is dequeued, with `tqe_next` still B, and sleeps. B is dequeued, returns and has
exited. A returns: the clean-up in `start()` unlinks it once more, by its old links,
and writes B to `tqh_first`. D calls `co_accept`, which registers the listener
again, and the next event finds B there and sets it RUNNING. In longer queues a
stale `tqe_prev` lets `tqh_last` point into a freed block in the same way, which is
what `TailNeverDangles` is about.

`CHECK_DEADLOCK FALSE` stands where the process can stop, or the program ends.

A stack of 22 words holds the longest frame (17 words), a local variable and the
call; three coroutines let two others run between a departure and the return.

The peers of `echo` send two messages altogether, to one connection or to two, and
`MaxActs` lets two connections be shut down or reset beside them, or three or four with
fewer messages. Two slots are left for `do_client`: the third connection stays
unserved, for good, since nobody joins a `do_client`, and the fourth `accept` finds no
descriptor left.

Two clients of `lines` are one that is served and one that waits meanwhile; the
third line lets one client send a second time, behind an answer that arrived in
parts. A line is one letter, so three bytes with the newlines: enough to be cut in
several ways, within `get_line` and between two lines, and to tell the two servers'
answers apart. What `upper()` and `reverse()` do to longer lines is left to the proofs,
which are for any. Deadlock is not checked: the server waits when the users are done.

`EchoServer` allows the habits `share`, `many`, `write_first` and `detour`, so
that `KeepsContract` is a statement about the program: a guard that forbids them
would have made it hold by itself.

The violated properties are statements of the repository's comments:

* `BlockQueueHoldsBlocked` (`coroutine.h`, "the tasks blocked on each
  descriptor"): `co_write` woken by incoming data while it cannot write waits
  again without being queued.
* `EmptyQueueUsable` (`coroutine.c`, "clean up all descriptors of the task"):
  the clean-up of a second descriptor redirects a tail pointer.
* `EventWakesWaiter` (`cosyscall.c`, "once an event occurs, the task is
  activated"): the mask of a first `co_write` is `EPOLLIN`.
* `EntersAligned` (`coroutine.c`, "start's frame, as it looks just on entry"):
  on x86-64 every coroutine runs on a stack that is 8 bytes off the alignment
  compiled code relies on. One word more or less in the frame's offset settles it.

`ListedOnce` holds under the contract. Descriptor 0 is outside it: `data.fd` = 0
means "never watched", so a second `co_read` of standard input is added to
epoll again, fails and returns -1 with the caller marked `WAIT`.

The clock: `NoEarlyWake` and `NoOversleep` carry the exception of a wrap between
two times, which the code has. A sleeper whose window before the wrap is missed
sleeps another epoch, and one with `wakeuptime` 2^32 - 1 is readied by no value
of the clock; this is why `SleeperWakes` is checked on a clock that does not wrap.

The same habits, and `detour`, `reuse`, `loops` and `hangup`, also lead to a NULL
`TAILQ_FIRST` in the event loop or to a waiter that is dropped; `EventHasWaiter`
and `RegisteredWhileBlocked` state their absence under the contract. A coroutine
that closes its descriptor has to return before it gives up the CPU: its mark
for the number stays, so that it would never be registered again, and the
`EPOLL_CTL_DEL` of its clean-up would hit whoever has the number by then.

## 4. Fairness

`Fairness` and `IoFairness` are weak fairness of the code that runs: there is one
flow of control and it does not stop. For the program's own code it is the
contract of cooperative scheduling that a coroutine with the CPU gives it back
(sleeps, waits on a descriptor or returns); all of `examples/` do. The clock
advances. Nothing is assumed of peers: `ReadReturns` is conditional on data.
`LSpec` has the server go on, a client read what has arrived for it, and nothing
of the users and their connections: they may stop typing, interrupt a client that
has its answer, and be cut off. `EchoSpec` has the one thread of the process run.
`DSpec` has the kernel run both threads of `demo01` (weak fairness of `Runs`), and
sleepers wake: `Wakes` is strongly fair, as it is enabled only while a thread is
inside `schedule()`. That is the abstraction of the clock that `Sched` has and
`Threads` has not; `SleeperWakes`, checked there, is its justification.
The abstract `CFairSpec` has strong fairness of `Dispatch`, which the round
robin implements: between two dispatches of others a thread's turn comes closer.

## 5. Proofs

TLAPS checks, for every number of slots, every clock width, every set of sleep
times and every bound `MaxTime` (`SchedAssumption`):

* `TypeCorrect`, `JoinSafe`, `LiveStack`, `TaskCountCorrect` in `SchedProofs`.
  The inductive invariant `IInv` adds to `RunsOnLiveStack` what keeps it true:
  `JoinersPoll`, a coroutine in `co_join` is RUNNING the whole time and its
  target is allocated, and `JoinersDiffer`, no two of them wait for one target.
  Without the second a reap could empty the slot another joiner looks at;
  without the first a joiner could be an exited coroutine.
* `TaskCountCorrect` needs finite cardinalities: a create adds a free slot, a
  reap removes an allocated one, nothing else changes the set.
* `Refinement`: every step of `Sched` is a step of `Coop` or changes nothing
  there; it uses `IInv` for the reaped target and for the dispatched thread.
* `BoundedWaiting` in `SchedHistoryProofs`: bypasses plus the distance from
  `current` to a runnable slot never exceed the size of the table, because each
  dispatch of another slot shortens the distance.
* `NoEarlyWakeup`, `WakeLoopComplete`: the stored time is the asked time modulo
  the clock width, and within an epoch remainders compare like the times.

TLAPS checks as well, for any number of threads, slots and environments
(`ThreadsAssumption`; that live ids differ is the guard `Apart`):

* `RightCurrent`, `RightStack`, `OwnStacks`, `ThreadsTypeCorrect` in
  `ThreadsProofs`. `RunsCurrent` is not inductive: a switch depends on what was
  saved, so `TInv` adds that coroutines without the CPU are saved on their own
  blocks (`BlocksSaved`), the initial task on its thread's stack
  (`InitialSaved`), and, for inheritance, that slot 0 is current whenever no thread
  uses an environment (`IdleAtZero`): a thread returns on the stack it began on.
  Even the types need it: a saved stack pointer is a stack only in slots in use.
  `OwnStacks`, that no two threads execute on one stack, follows and has no run.
* `EnvironmentsRefine`, in the same module: a step of a thread is a step of
  `Coop` in its own environment and none in the others. `RInv` adds that the
  coroutine that executes is runnable (`Alive`), also while its environment waits
  for a thread, and that a join stays in the environment it began in (`JoinsHome`).

About `Demo01`, in the same module, for a table of any size and any
`MaxTurns` (with 10 or more the loops are those of the code), the threads' interleavings
included:

* `JoinsBegin`: `JoinsMayBegin`. `Listed` has a `cid` in the list of its function for
  each `co_create` that has gone before the join. The inductive part is `Due`: a
  `cid` whose join is still to come is that of a slot in use (`StillThere`), no two in a
  list are the same (`CidsDiffer`), and a join that is going on waits for the one at its
  place (`Begun`). A slot is emptied only by a join, so by the one for it, and the
  slots of the two threads are in different environments.
* `NoneLeftBehind`: `NothingLeftBehind`. `StillJoined` says that the slot of every
  coroutine is in the list of the thread's own function, at a place whose `co_join`
  is still to come or is going on; behind the last of them no slot can be in use.
  `EndedReturned` has a coroutine's function return before its slot is freed, and
  `NotStarted` that until `pthread_create` there is only one environment, so that the
  second thread, whose index differs by `Apart`, begins with nothing to join. `Scripts`
  says where in its text a function is at each kind of statement.

About the context switch, in `SwitchProofs`, for any number of coroutines, any size
of their stacks (from 20 words, `SwitchAssumption`), and any use the C code makes of
registers and stack between two switches:

* `SwitchRestores`: `Restores`. It is about two steps, the call and the return, which
  may have any number of other coroutines' steps between them, so `SwInv` has
  to say what is on every stack at every instruction. `Leaving` holds before the
  change of stacks: how many words are pushed, that they are the registers at the
  call, in the order `Kept`, and which registers still hold what they held. `Parked`
  is what remains of it once the stack pointer is saved: behind `esp` lies a `Frame`,
  the words to pop and above them the coroutine's own stack, or the frame that
  `co_create` wrote. `Entering` is the same frame with the first words gone and in
  their registers. `Leaving` becomes `Parked` at `load`, `Parked` becomes `Entering`
  there for the other coroutine (`PushedIsFrame`: the orders of pushing and popping
  mirror each other, lemma `Names`), and `ret` reads the return address.
  A slot that is no coroutine, and a coroutine before its first run, have
  nothing in `saved`, which `Departures` says.
* `SwitchInvariant`: `SwInv` itself; its types exclude `ip = -1`, where a jump
  to any other word would lead.

About the queue, in `TailQueueProofs`, for any number of queues and elements:

* `TailQueueCorrect`: the pointers spell the sequences. The invariant adds to
  `Represents` that an element is in one queue once; then the cells of two entries
  differ, and a call that writes a cell leaves the links of all others alone.

About `CoIO` (`CoIOAssumption`), for any number of slots and descriptors, each
theorem with the `Habits` under which it holds. `OwnDescriptors` excludes `share`,
`many` and descriptor 0, whose mark cannot be told from that of a new one.

| theorem | property | excluded beyond `OwnDescriptors` |
|---|---|---|
| `IoTypeCorrect`, `QueuesNeverDangle`, `NoResurrection` | `IoTypeOK`, `TailNeverDangles`, `ExitedStaysDead` | nothing |
| `ListsDistinct` | `ListedOnce` | nothing, and `share` and `many` are allowed |
| `SystemCallsReady` | `SyscallReady` | `hangup` |
| `BlockingRefinement` | `ImplementsCoop` | `files`, `reuse`: `epoll_ctl` succeeds |
| `NoLostWakeup` | `RegisteredWhileBlocked` | `files`, `reuse`, `write_first` |
| `QueueHoldsBlocked` | `BlockQueueHoldsBlocked` | `write_first`, `backpressure`, `hangup` |
| `EventsFindWaiters` | `EventHasWaiter` | the same, `detour`, `loops` |
| `ProcessGoesOn` | `NeverCrashes` | the same, `files`, `reuse`, `signals` |

* `IoInv` is the inductive invariant under all of these except `ListsDistinct`. That
  no queue dangles depends on who may be in it: a queue is empty or holds the one
  coroutine blocked on its descriptor (`ShortQueues`), so an exit finds its
  own queue empty. The unlink of the clean-up is then still executed, through a
  stale `prev`: `OwnLinks` says that this is the first cell of the descriptor's own
  queue. `OneEach` gives each descriptor one user, known by its mark in `events`;
  `CallsOwn`, `EndedIdle`, `RunsAlive` and `BatchHandled` say which code can run
  meanwhile, so that a batch is handled before anybody else exits or waits.
  The types come from it too: an unlink through a dangling pointer has no result
  to type.
* `ListsDistinct` needs only `MarkInv`: whatever `fds` lists bears its mark in
  `events`, and the mark is what `add_queue` looks at before it appends.
* `SystemCallsReady`: a call goes on after its wake-up with what the event said;
  `BatchReady` has each event in the batch still ready when it is handled.
* `BlockingRefinement` needs that a call cannot fail half way, with its caller
  marked `WAIT` while it runs (`RegInv`): `Registered`, `events` mirrors what epoll
  knows, and `Owned`, a registration has a user, so `EPOLL_CTL_ADD` finds no old one.
  `SchedInv` carries `IInv` of `SchedProofs` over, as every step of `CoIO`
  is a step of the scheduler, or a block or wake-up that joins do not notice.
* `NoLostWakeup`: `Masks`, the registered mask covers what the call waits for.
  `write_first` breaks it at the first `co_write`, run `io_write_first`.
* `QueueHoldsBlocked`: what fails in general is a second turn of the wait loop,
  which does not queue again (run `io_backpressure`). `PeersReady`, `EventsWatched`
  and `WokenByIts` show that the event of a wake-up is one that the call waited
  for, so there is no second turn.
* `EventsFindWaiters` is the deepest: the event loop must find a waiter for an
  event although nothing in the code checks for one. A coroutine that was
  woken and has not run yet has no entry in the queue, while its descriptor, being
  level-triggered, is still ready; an `epoll_wait` before it runs would
  report an event for nobody. That it does run first is the round robin:
  `PendingFirst` says that who is woken is nearer to `current`, in the
  order of `pick()`, than the event loop is, and `NonePending` that the loop
  therefore calls `epoll_wait` only when all have waited again or have left.
  This is why a second loop or a detour breaks it.
* `ProcessGoesOn`: an event finds its waiter, and an exit unlinks only what was in
  a queue once (`Linked`). A coroutine whose `EPOLL_CTL_ADD` failed was in none,
  but has the descriptor in its `fds`, so `start()` follows a NULL `tqe_prev`.

About `EchoServer`, in `EchoServerProofs`, for any number of slots, connections and
messages and for any `Habits`, as far as the program has a say in them: `Kernel`
excludes what it has not, descriptors that epoll refuses or that cannot take what
is written (`files`, `backpressure`), and descriptor 0 for a connection.

* `ContractKept`: `KeepsContract`, every step of `demo03` is a step of `CoIO` without
  `Habits`. `EchoInv` says who is who (`Roles`: slot 0 is `main`, there is one
  `my_accept` and one `do_client` for a connection), that the call on a stack is the
  one its function is at (`Calling`), and that a coroutine uses its own descriptor
  only (`OwnUses`).
* `ServerGuarantees`: `NeverCrashes` and the other guarantees of `CoIO` hold of the
  server. `Given` is `CoIOProofs` without `Habits`, and its theorems are used
  as they stand; the lemmas named after it say that an action which does not mention
  `Habits` is the same there.
* `EchoesAll`, `EchoTypeCorrect`: `EchoComplete`, `EchoTypeOK`. `Traffic` follows the
  messages; `Readable` has a readable descriptor with something to accept or read,
  which with `SyscallReady` is why `read` and `accept` return what the model lets
  them return.
* `ExitsForPeersOnly`: `ExitsOnFaultOnly`. `ExitCauses` has a reset behind an exit of
  `do_client`, and a reset or a lack of descriptors behind one of `my_accept`. A failing
  `epoll_ctl` is none of the ways there, by `Registered` and `Owned` of the proofs
  about `CoIO`: what is waited on the first time is not registered, and what is written
  to is.

The contract is kept because the library does what it promises to those who keep it
(a `co_read` comes back with data), and the promise is made to those who keep it; so
the two are one induction. `Joint` is `EchoInv` with what it takes of `Given`: `IoInv`,
`RegInv`, `SchedInv`, `SyscallReady` and `BatchReady`. A step from a state with `Joint` is an
`AbidingStep`, that is a step of `Given`, and lemmas of `Given` about single steps
carry its part over.

About the test servers, in `LineServerProofs`, for any number of clients and any
lines, of any length (`LineAssumption`):

* `LineTypes`, `LinesWhole`: `LTypeOK` and `NothingLost`. `LineInv` counts the bytes
  of each client where they can be (`Balanced`: what it wrote is answered, in the
  hands of `handle()`, or unread), but for those that are reset. It needs `GoneSilent`:
  `get_line()` drops its buffer when it returns -1, and that is nothing only because a
  client that hung up, other than by a reset, has left nothing to read; and that the
  client being read from is not in the batch any more, so that a closed descriptor is
  never handled again.
* `AnswersInStep`: `InStep`. `TurnInv` says that without pieces a line is wholly
  written, wholly in `handle()`, or wholly answered (`UnderWay`), whatever the server
  does for others meanwhile; `TakesAll` that one read then takes all of it.
* Below both is what the loops compute. `reverse()` is a recursive function over
  data of any length: `Mirrored(s, left)` is what the buffer holds after `left`
  exchanges, `TurnMirrors` that one turn leads from each to the next, middle
  included, and `ReverseIs` takes the least turn that would differ (`LeastOf`) in place of
  an induction theorem, which the provers cannot instantiate. `UpperSent` is
  that `upper()`, which stops at the first newline, still reaches every letter.

TLC checked `IoInv`, `RegInv`, `SchedInv`, `Watching`, `FastInv`, `LoopInv` and `MarkInv`
on the constants of `io_contract` and with the habits that each allows,
`EchoInv` on those of `echo`, `SwInv` on those of `switch`, `LineInv` and `TurnInv` on
those of `lines` and `Demo01Inv` on those of `demo01`, before they were proved.

Model-checked only:

* liveness (`ReadReturns`, `EveryMessageEchoed`, `SleeperWakes`, ...) and `ImplementsFairCoop`: fairness is
  beyond the prover;
* `TailNeverDangles` and `ExitedStaysDead` with descriptor 0 (run `io_own`), which is
  listed anew at each call. (With shared descriptors they are false, see section 3.)

## 6. Plan

1. Done: all modules of section 2, with proofs about `Sched`, `SchedHistory`,
   `Threads`, `Demo01`, `Switch`, `TailQueue`, `CoIO`, `EchoServer` and `LineServer`.
   Every safety property that a passing run checks is stated by a theorem, for
   descriptors other than 0.

Not modelled, and not planned:

* memory exhaustion: a `calloc` that fails is followed by a NULL dereference,
  there is no path to model;
* the formatting of log lines and of the time stamp (`logger.h`, `util.c`): no state
  that the rest depends on;
* the i386 code of `switch.S` and of `co_create`, see `Switch`;
* the lists, singly-linked and circular queues of `queue.h`, and the TAILQ macros
  without a user: nothing in the repository calls them;
* overruns of the fixed arrays (more than `MAX_FD` descriptors in `fds`, lines
  longer than the servers' buffers): the models stay within the bounds.
