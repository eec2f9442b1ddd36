-------------------------- MODULE SchedHistoryProofs --------------------------
(***************************************************************************)
(* Proofs about SchedHistory: bounded waiting of the round robin, and what  *)
(* the truncated clock does to the sleepers.                                *)
(***************************************************************************)
EXTENDS SchedHistory, SchedProofs

USE DEF Slots, NoCid, Free, Statuses

-----------------------------------------------------------------------------
(***************************************************************************)
(* Arithmetic of the truncated clock.                                       *)
(***************************************************************************)
LEMMA DivMod ==
  ASSUME NEW M \in Nat \ {0}, NEW a \in Nat
  PROVE  a \div M \in Nat /\ a % M \in 0 .. M - 1 /\ a = M * (a \div M) + (a % M)
OBVIOUS

LEMMA ModUnique ==
  ASSUME NEW M \in Nat \ {0}, NEW q \in Nat, NEW r \in 0 .. M - 1
  PROVE  (M * q + r) % M = r
OBVIOUS

\* Truncating the clock before a sum that is truncated itself changes nothing.
LEMMA ModAdd ==
  ASSUME NEW M \in Nat \ {0}, NEW a \in Nat, NEW x \in Nat
  PROVE  ((a % M) + x) % M = (a + x) % M
<1> DEFINE q == a \div M
           r == a % M
           p == (r + x) \div M
           s == (r + x) % M
<1>1. q \in Nat /\ r \in 0 .. M - 1 /\ a = M * q + r
  BY DivMod
<1>2. p \in Nat /\ s \in 0 .. M - 1 /\ r + x = M * p + s
  <2> HIDE DEF q, r
  <2>1. r + x \in Nat
    BY <1>1
  <2> QED
    BY <2>1, DivMod
<1>3. a + x = M * (q + p) + s /\ q + p \in Nat
  <2> HIDE DEF q, r, p, s
  <2> QED
    BY <1>1, <1>2
<1>4. (M * (q + p) + s) % M = s
  <2> HIDE DEF q, r, p, s
  <2> QED
    BY <1>2, <1>3, ModUnique
<1> QED
  BY <1>3, <1>4

\* Within an epoch the truncated clock compares like the clock.
LEMMA SameEpoch ==
  ASSUME NEW M \in Nat \ {0}, NEW a \in Nat, NEW b \in Nat,
         a \div M = b \div M, a % M > b % M
  PROVE  a > b
OBVIOUS

LEMMA EpochMonotone ==
  ASSUME NEW M \in Nat \ {0}, NEW a \in Nat, NEW b \in Nat, a <= b
  PROVE  a \div M <= b \div M
OBVIOUS

-----------------------------------------------------------------------------
(***************************************************************************)
(* SchedHistory only adds variables to Sched.                               *)
(***************************************************************************)
LEMMA HNextIsNext == [HNext]_hvars => [Next]_vars
BY DEF HNext, Next, Enter, hvars

\* Every behaviour with history variables is one of the scheduler.
LEMMA HSpecIsSpec == HSpec => Spec
BY HNextIsNext, PTL DEF HSpec, HInit, Spec

\* The history variables keep their types; passStart is never in the future.
THEOREM HTypeCorrect == HSpec => []HTypeOK
<1>1. HInit => HTypeOK
  BY InitTypeOK, SchedAssumption DEF HInit, Init, HTypeOK
<1>2. HTypeOK /\ [HNext]_hvars => HTypeOK'
  <2> SUFFICES ASSUME HTypeOK, [HNext]_hvars PROVE HTypeOK'
    OBVIOUS
  <2>0. TypeOK'
    BY NextTypeOK, HNextIsNext DEF HTypeOK
  <2>1. due' \in [Slots -> Nat]
    <3>1. ASSUME NEW s \in Seconds, due' = [due EXCEPT ![current] = now + MsPerSec * s]
          PROVE  due' \in [Slots -> Nat]
      <4>1. MsPerSec * s \in Nat
        BY SchedAssumption
      <4>2. now + MsPerSec * s \in Nat
        <5>1. \A a, b \in Nat : a + b \in Nat
          OBVIOUS
        <5>2. now \in Nat
          BY SchedAssumption DEF HTypeOK, TypeOK
        <5> QED
          BY <4>1, <5>1, <5>2, Zenon
      <4> QED
        BY <3>1, <4>2 DEF HTypeOK
    <3> QED
      BY <3>1 DEF HTypeOK, HNext, Enter, hvars, history
  <2>2. bypass' \in [Slots -> Nat]
    <3>1. \A k \in Nat : Count(k) \in Nat
      BY DEF Count
    <3>2. \A i \in Slots : bypass[i] \in Nat
      BY DEF HTypeOK
    <3>3. ASSUME NEW next \in Slots,
                 bypass' = [i \in Slots |->
                              IF i \in Ready \ {next} THEN Count(bypass[i]) ELSE 0]
          PROVE  bypass' \in [Slots -> Nat]
      BY <3>1, <3>2, <3>3
    <3>4. CASE bypass' = bypass
      BY <3>4 DEF HTypeOK
    <3> QED
      BY <3>3, <3>4 DEF HNext, Enter, hvars, history
  <2>3. passStart' \in 0 .. now'
    <3>1. now' \in Nat /\ now \in Nat /\ now' >= now
      <4>1. now \in Nat
        BY SchedAssumption DEF HTypeOK, TypeOK
      <4>2. now' = now \/ now' = now + 1
        <5>1. [Next]_vars
          BY HNextIsNext
        <5> QED
          BY <5>1, Zenon DEF Next, vars, co_create, co_sleep, WakeAt, co_join, JoinWait,
                 JoinReap, Exited, Release, Finish, Ended, WakeScan, Pick, Repeat, Tick
      <4> QED
        BY <4>1, <4>2
    <3>2. passStart' = passStart \/ passStart' = now
      BY DEF HNext, Enter, hvars, history
    <3> QED
      BY <3>1, <3>2 DEF HTypeOK
  <2> QED
    BY <2>0, <2>1, <2>2, <2>3 DEF HTypeOK
<1> QED
  BY <1>1, <1>2, PTL DEF HSpec

-----------------------------------------------------------------------------
(***************************************************************************)
(* Bounded waiting.  Whenever somebody else is picked, the distance from    *)
(* the new current to a waiting coroutine shrinks by at least one: the sum  *)
(* of the distance and of the times it was passed over cannot exceed the    *)
(* size of the table.                                                       *)
(***************************************************************************)
LEMMA DistRange ==
  ASSUME NEW c \in Slots, NEW i \in Slots
  PROVE  Dist(c, i) \in 1 .. NR_TASKS
<1>1. c \in Int /\ i \in Int /\ 0 <= c /\ c < NR_TASKS /\ 0 <= i /\ i < NR_TASKS
  BY SchedAssumption
<1>2. CASE i > c
  BY <1>1, <1>2, SchedAssumption DEF Dist
<1>3. CASE ~(i > c)
  BY <1>1, <1>3, SchedAssumption DEF Dist
<1> QED
  BY <1>2, <1>3

LEMMA DistShrinks ==
  ASSUME NEW c \in Slots, NEW n \in Slots, NEW i \in Slots,
         n # i, Dist(c, n) <= Dist(c, i)
  PROVE  Dist(n, i) <= Dist(c, i) - 1
<1>1. /\ c \in Int /\ n \in Int /\ i \in Int /\ NR_TASKS \in Int
      /\ 0 <= c /\ c < NR_TASKS /\ 0 <= n /\ n < NR_TASKS /\ 0 <= i /\ i < NR_TASKS
  BY SchedAssumption
<1>2. CASE i > c /\ n > c
  BY <1>1, <1>2 DEF Dist
<1>3. CASE i > c /\ ~(n > c)
  BY <1>1, <1>3 DEF Dist
<1>4. CASE ~(i > c) /\ n > c
  BY <1>1, <1>4 DEF Dist
<1>5. CASE ~(i > c) /\ ~(n > c)
  BY <1>1, <1>5 DEF Dist
<1> QED
  BY <1>2, <1>3, <1>4, <1>5

BypassInv == \A i \in Slots : bypass[i] + Dist(current, i) <= NR_TASKS

LEMMA NextBypassInv ==
  HTypeOK /\ BypassInv /\ [HNext]_hvars => BypassInv'
<1> SUFFICES ASSUME HTypeOK, BypassInv, [HNext]_hvars PROVE BypassInv'
  OBVIOUS
<1> USE SchedAssumption DEF HTypeOK, TypeOK, BypassInv
<1>1. ASSUME NEW next \in Slots, Pick(next),
             bypass' = [i \in Slots |-> IF i \in Ready \ {next} THEN Count(bypass[i]) ELSE 0]
      PROVE  BypassInv'
  <2> SUFFICES ASSUME NEW i \in Slots
               PROVE  bypass'[i] + Dist(next, i) <= NR_TASKS
    BY <1>1 DEF Pick
  <2>1. CASE i \in Ready \ {next}
    <3>1. Dist(current, next) <= Dist(current, i)
      BY <1>1, <2>1 DEF Pick, Nearest
    <3>2. Dist(next, i) <= Dist(current, i) - 1
      BY <2>1, <3>1, DistShrinks DEF Ready
    <3>3. bypass'[i] = Count(bypass[i]) /\ bypass[i] + Dist(current, i) <= NR_TASKS
      BY <1>1, <2>1
    <3>4. bypass[i] \in Nat /\ Dist(current, i) \in Int /\ Dist(next, i) \in Int
      <4>1. Dist(current, i) \in 1 .. NR_TASKS /\ Dist(next, i) \in 1 .. NR_TASKS
        BY DistRange
      <4>2. bypass[i] \in Nat
        OBVIOUS
      <4> QED
        BY <4>1, <4>2
    <3>5. \A b \in Nat, d, e \in Int :
            e <= d - 1 /\ b + d <= NR_TASKS => Count(b) + e <= NR_TASKS
      BY DEF Count
    <3> QED
      BY <3>2, <3>3, <3>4, <3>5, Zenon
  <2>2. CASE i \notin Ready \ {next}
    <3>1. bypass'[i] = 0
      BY <1>1, <2>2
    <3> QED
      BY <3>1, DistRange
  <2> QED
    BY <2>1, <2>2
<1>2. ASSUME UNCHANGED <<current, bypass>> PROVE BypassInv'
  BY <1>2 DEF Dist
<1> QED
  BY <1>1, <1>2 DEF HNext, Enter, hvars, history, vars, co_create, co_sleep, WakeAt,
       co_join, JoinWait, JoinReap, Exited, Release, Finish, Ended, WakeScan, Repeat, Tick

\* A runnable coroutine waits for at most NR_TASKS - 1 others.
THEOREM BoundedWaiting == HSpec => []BoundedBypass
<1>1. HInit => BypassInv
  <2> SUFFICES ASSUME HInit, NEW i \in Slots PROVE 0 + Dist(0, i) <= NR_TASKS
    BY DEF HInit, Init, BypassInv
  <2> QED
    BY SchedAssumption, DistRange
<1>2. HTypeOK /\ BypassInv => BoundedBypass
  <2> SUFFICES ASSUME HTypeOK, BypassInv, NEW i \in Slots PROVE bypass[i] < NR_TASKS
    BY DEF BoundedBypass
  <2>1. bypass[i] \in Nat /\ current \in Slots
    BY DEF HTypeOK, TypeOK
  <2>2. Dist(current, i) \in 1 .. NR_TASKS /\ bypass[i] + Dist(current, i) <= NR_TASKS
    BY <2>1, DistRange DEF BypassInv
  <2> QED
    BY <2>1, <2>2, SchedAssumption
<1> QED
  BY <1>1, <1>2, NextBypassInv, HTypeCorrect, PTL DEF HSpec

-----------------------------------------------------------------------------
(***************************************************************************)
(* Sleepers.                                                                *)
(***************************************************************************)

\* What the code keeps of the time a sleeper asked for.
DueInv == \A i \in Slots : status[i] = "SLEEP" => wakeuptime[i] = due[i] % ClockMod

LEMMA NextDueInv == HTypeOK /\ DueInv /\ [HNext]_hvars => DueInv'
<1> SUFFICES ASSUME HTypeOK, DueInv, [HNext]_hvars PROVE DueInv'
  OBVIOUS
<1> USE SchedAssumption DEF HTypeOK, TypeOK, DueInv
<1>1. ASSUME NEW s \in Seconds, co_sleep(s),
             due' = [due EXCEPT ![current] = now + MsPerSec * s]
      PROVE  DueInv'
  <2>1. (getmstime + MsPerSec * s) % ClockMod = (now + MsPerSec * s) % ClockMod
    <3>1. MsPerSec * s \in Nat /\ now \in Nat
      OBVIOUS
    <3> QED
      BY <3>1, ModAdd DEF getmstime
  <2>2. wakeuptime'[current] = due'[current] % ClockMod
    BY <1>1, <2>1 DEF co_sleep, WakeAt
  <2>3. \A i \in Slots \ {current} :
          status'[i] = status[i] /\ wakeuptime'[i] = wakeuptime[i] /\ due'[i] = due[i]
    BY <1>1 DEF co_sleep, WakeAt
  <2> QED
    BY <2>2, <2>3
<1>2. ASSUME UNCHANGED <<wakeuptime, due>>,
             \A i \in Slots : status'[i] = "SLEEP" => status[i] = "SLEEP"
      PROVE  DueInv'
  BY <1>2
<1>3. ASSUME NEW id \in Slots, co_create(id), UNCHANGED history PROVE DueInv'
  <2> SUFFICES ASSUME NEW i \in Slots, status'[i] = "SLEEP"
               PROVE  wakeuptime'[i] = due'[i] % ClockMod
    OBVIOUS
  <2>1. /\ status' = [status EXCEPT ![id] = "RUNNING"]
        /\ wakeuptime' = [wakeuptime EXCEPT ![id] = 0]
    BY <1>3 DEF co_create
  <2>2. i # id /\ status[i] = "SLEEP" /\ wakeuptime'[i] = wakeuptime[i]
    BY <2>1
  <2> QED
    BY <1>3, <2>2 DEF history
<1>4. CASE (\E cid \in Slots : co_join(cid)) /\ UNCHANGED history
  BY <1>2, <1>4 DEF co_join, history
<1>5. CASE JoinReap /\ UNCHANGED history
  BY <1>2, <1>5 DEF JoinReap, Exited, Release, history
<1>6. CASE WakeScan /\ UNCHANGED history
  BY <1>2, <1>6 DEF WakeScan, history
<1>7. CASE Tick /\ UNCHANGED history
  BY <1>2, <1>7 DEF Tick, history
<1>8. CASE (JoinWait \/ Finish \/ Repeat) /\ Enter
  BY <1>2, <1>8 DEF JoinWait, Finish, Ended, Repeat, Enter
<1>9. ASSUME NEW next \in Slots, Pick(next), UNCHANGED due PROVE DueInv'
  BY <1>2, <1>9 DEF Pick
<1>10. CASE UNCHANGED hvars
  BY <1>2, <1>10 DEF hvars, vars, history
<1> QED
  BY <1>1, <1>3, <1>4, <1>5, <1>6, <1>7, <1>8, <1>9, <1>10 DEF HNext

LEMMA DueCorrect == HSpec => []DueInv
<1>1. HInit => DueInv
  <2> SUFFICES ASSUME HInit, NEW i \in Slots PROVE status[i] # "SLEEP"
    BY DEF DueInv
  <2> QED
    BY DEF HInit, Init
<1> QED
  BY <1>1, NextDueInv, HTypeCorrect, PTL DEF HSpec

\* A sleeper is readied by WakeScan only, when its wakeuptime is past.
LEMMA WakersExpired ==
  ASSUME HTypeOK, [HNext]_hvars, NEW i \in Slots,
         status[i] = "SLEEP", status'[i] = "RUNNING"
  PROVE  getmstime > wakeuptime[i]
<1> USE SchedAssumption DEF HTypeOK, TypeOK
<1>1. CASE \E id \in Slots : co_create(id)
  BY <1>1 DEF co_create, FirstFree
<1>2. CASE \E s \in Seconds : co_sleep(s)
  BY <1>2 DEF co_sleep, WakeAt
<1>3. CASE JoinReap \/ Finish
  BY <1>3 DEF JoinReap, Exited, Release, Finish, Ended
<1>4. CASE WakeScan
  BY <1>4 DEF WakeScan, Expired
<1>5. ASSUME status' = status PROVE FALSE
  BY <1>5
<1> QED
  BY <1>1, <1>2, <1>3, <1>4, <1>5
     DEF HNext, hvars, vars, co_join, JoinWait, Pick, Repeat, Tick

\* co_sleep returns early only when the clock wrapped on the way.
THEOREM NoEarlyWakeup == HSpec => NoEarlyWake
<1> DEFINE Step ==
      \A i \in Slots :
        status[i] = "SLEEP" /\ status'[i] = "RUNNING" =>
          now > due[i] \/ Epoch(now) # Epoch(due[i])
<1>1. HTypeOK /\ DueInv /\ [HNext]_hvars => [Step]_hvars
  <2> SUFFICES ASSUME HTypeOK, DueInv, [HNext]_hvars, NEW i \in Slots,
                      status[i] = "SLEEP", status'[i] = "RUNNING",
                      Epoch(now) = Epoch(due[i])
               PROVE  now > due[i]
    OBVIOUS
  <2>1. now % ClockMod > due[i] % ClockMod
    BY WakersExpired DEF DueInv, getmstime
  <2>2. now \in Nat /\ due[i] \in Nat
    BY SchedAssumption DEF HTypeOK, TypeOK
  <2> QED
    BY <2>1, <2>2, SameEpoch, SchedAssumption DEF Epoch
<1> QED
  BY <1>1, HTypeCorrect, DueCorrect, PTL DEF HSpec, NoEarlyWake

\* The wake-up loop leaves no sleeper behind that had expired when it began.
LEMMA NextNoOversleep ==
  HTypeOK /\ NoOversleep /\ [HNext]_hvars => NoOversleep'
<1> SUFFICES ASSUME HTypeOK, NoOversleep, [HNext]_hvars PROVE NoOversleep'
  OBVIOUS
<1> USE SchedAssumption DEF HTypeOK, TypeOK
<1>a. ASSUME phase' = "wake" => scan' = 0 PROVE NoOversleep'
  BY <1>a DEF NoOversleep
<1>1. CASE JoinReap \/ (\E id \in Slots : co_create(id)) \/ \E cid \in Slots : co_join(cid)
  BY <1>1, <1>a DEF co_create, JoinReap, Exited, Release, co_join, InUserCode
<1>2. CASE JoinWait \/ Finish \/ Repeat \/ \E s \in Seconds : co_sleep(s)
  BY <1>2, <1>a DEF JoinWait, Finish, Ended, Repeat, co_sleep, WakeAt, schedule
<1>3. CASE \E next \in Slots : Pick(next)
  BY <1>3, <1>a DEF Pick
<1>4. CASE WakeScan /\ UNCHANGED history
  <2> SUFFICES ASSUME NEW i \in 0 .. scan, status'[i] = "SLEEP",
                      Epoch(passStart) = Epoch(now)
               PROVE  passStart % ClockMod <= wakeuptime[i]
    BY <1>4 DEF WakeScan, NoOversleep, history
  <2>1. i \in Slots /\ status[i] = "SLEEP"
    BY <1>4 DEF WakeScan
  <2>2. CASE i \in 0 .. scan - 1
    BY <1>4, <2>1, <2>2 DEF WakeScan, NoOversleep
  <2>3. CASE i = scan
    <3>1. now % ClockMod <= wakeuptime[i]
      <4>1. ~Expired(scan)
        BY <1>4, <2>1, <2>3 DEF WakeScan
      <4>2. now % ClockMod \in Nat /\ wakeuptime[i] \in Nat
        BY <2>1, Truncated
      <4> QED
        BY <2>3, <4>1, <4>2 DEF Expired, getmstime
    <3>2. passStart \in Nat /\ now \in Nat /\ passStart <= now
      OBVIOUS
    <3>3. passStart % ClockMod <= now % ClockMod
      <4>1. ~(passStart % ClockMod > now % ClockMod)
        <5> SUFFICES ASSUME passStart % ClockMod > now % ClockMod PROVE FALSE
          OBVIOUS
        <5>1. passStart > now
          BY <3>2, SameEpoch DEF Epoch
        <5> QED
          BY <3>2, <5>1
      <4>2. passStart % ClockMod \in Nat /\ now % ClockMod \in Nat
        BY <3>2, Truncated
      <4> QED
        BY <4>1, <4>2
    <3>4. /\ passStart % ClockMod \in Nat /\ now % ClockMod \in Nat
          /\ wakeuptime[i] \in Nat
      BY <2>1, <3>2, Truncated
    <3> QED
      BY <3>1, <3>3, <3>4
  <2> QED
    BY <2>2, <2>3
<1>5. CASE Tick /\ UNCHANGED history
  <2>1. UNCHANGED <<phase, scan, status, wakeuptime, passStart>> /\ now' = now + 1
    BY <1>5 DEF Tick, history
  <2>2. Epoch(passStart) = Epoch(now') => Epoch(passStart) = Epoch(now)
    <3>1. passStart \in Nat /\ now \in Nat /\ now' \in Nat /\ passStart <= now /\ now <= now'
      BY <2>1
    <3>2. Epoch(passStart) <= Epoch(now) /\ Epoch(now) <= Epoch(now')
      BY <3>1, EpochMonotone DEF Epoch
    <3>3. Epoch(passStart) \in Nat /\ Epoch(now) \in Nat /\ Epoch(now') \in Nat
      BY <3>1, DivMod DEF Epoch
    <3> QED
      BY <3>2, <3>3
  <2> QED
    BY <2>1, <2>2 DEF NoOversleep, Epoch
<1>6. CASE UNCHANGED hvars
  BY <1>6 DEF hvars, vars, history, NoOversleep, Epoch
<1> QED
  BY <1>1, <1>2, <1>3, <1>4, <1>5, <1>6 DEF HNext

THEOREM WakeLoopComplete == HSpec => []NoOversleep
<1>1. HInit => NoOversleep
  BY DEF HInit, Init, NoOversleep
<1> QED
  BY <1>1, NextNoOversleep, HTypeCorrect, PTL DEF HSpec
=============================================================================
