-------------------------- MODULE LineServerProofs --------------------------
(***************************************************************************)
(* Proofs about LineServer, for any set of clients and lines: what upper()  *)
(* and reverse() make of a line, that no byte is lost, and that what a      *)
(* client prints is the answer to the line it sent.                         *)
(***************************************************************************)
EXTENDS LineServer, FiniteSetTheorems, FunctionTheorems, SequenceTheorems,
        WellFoundedInduction, TLAPS

(***************************************************************************)
(* Sequences of bytes.                                                      *)
(***************************************************************************)

Glued(u, s, t) == u = s \o t

\* A concatenation, by its elements.
LEMMA ConcatIs ==
  ASSUME NEW S, NEW s \in Seq(S), NEW t \in Seq(S), NEW u, Glued(u, s, t)
  PROVE  /\ u \in Seq(S) /\ Len(u) = Len(s) + Len(t)
         /\ \A i \in 1 .. Len(s) + Len(t) : u[i] = IF i <= Len(s) THEN s[i] ELSE t[i - Len(s)]
<1>1. /\ s \o t \in Seq(S)
      /\ Len(s \o t) = Len(s) + Len(t)
      /\ \A i \in 1 .. Len(s) + Len(t) :
           (s \o t)[i] = IF i <= Len(s) THEN s[i] ELSE t[i - Len(s)]
  BY ConcatProperties, Zenon
<1> QED
  BY <1>1, Zenon DEF Glued

\* A set of numbers has a least one.
LEMMA LeastOf ==
  ASSUME NEW S \in SUBSET Nat, S # {}
  PROVE  \E m \in S : \A other \in S : m <= other
<1> DEFINE Less == OpToRel(<, Nat)
<1>1. Less = {ss \in Nat \X Nat : ss[1] < ss[2]}
  BY Zenon DEF OpToRel
<1>2. IsWellFoundedOn(Less, Nat)
  BY NatLessThanWellFounded, Zenon
<1> HIDE DEF Less
<1>3. PICK m \in S : \A other \in S : ~(<<other, m>> \in Less)
  BY <1>2, WFMin
<1>4. \A a, b \in Nat : <<a, b>> \in Nat \X Nat /\ <<a, b>>[1] = a /\ <<a, b>>[2] = b
  OBVIOUS
<1>5. \A a, b \in Nat : <<a, b>> \in Less <=> a < b
  BY <1>1, <1>4, Zenon
<1>6. \A other \in S : ~(other < m)
  BY <1>3, <1>5, Zenon
<1>7. \A other \in S : m <= other
  BY <1>6
<1> QED
  BY <1>7

(***************************************************************************)
(* reverse(): after `left' exchanges the first and the last `left' bytes    *)
(* have changed places.                                                     *)
(***************************************************************************)

\* what the buffer holds after `left' exchanges
Mirrored(s, left) ==
  [i \in 1 .. Len(s) |->
     IF i <= left \/ Len(s) + 1 - i <= left THEN s[Len(s) + 1 - i] ELSE s[i]]

\* the body of the loop of reverse()
Turn(s, before, left) ==
  IF left = 0 THEN s
  ELSE IF left < Right(Len(s), left)
       THEN [before EXCEPT ![left] = before[Right(Len(s), left)],
                           ![Right(Len(s), left)] = before[left]]
       ELSE before

LEMMA TurnMirrors ==
  ASSUME NEW S, NEW s \in Seq(S), NEW left \in 0 .. Len(s)
  PROVE  Mirrored(s, left) = Turn(s, Mirrored(s, left - 1), left)
<1> DEFINE n == Len(s)
           right == n + 1 - left
           before == Mirrored(s, left - 1)
           after == Mirrored(s, left)
<1>1. n \in Nat /\ s = [i \in 1 .. n |-> s[i]] /\ Right(n, left) = right
  BY DEF Right
<1>2. /\ DOMAIN after = 1 .. n /\ DOMAIN before = 1 .. n
      /\ \A i \in 1 .. n :
           /\ after[i] = IF i <= left \/ n + 1 - i <= left THEN s[n + 1 - i] ELSE s[i]
           /\ before[i] = IF i <= left - 1 \/ n + 1 - i <= left - 1 THEN s[n + 1 - i] ELSE s[i]
      /\ after = [i \in 1 .. n |-> after[i]] /\ before = [i \in 1 .. n |-> before[i]]
  BY DEF Mirrored
<1>3. CASE left = 0
  <2>1. \A i \in 1 .. n : after[i] = s[i]
    BY <1>1, <1>2, <1>3
  <2>2. after = s
    BY <1>1, <1>2, <2>1, Zenon
  <2> QED
    BY <1>3, <2>2 DEF Turn
<1>4. CASE left # 0 /\ left < right
  <2> DEFINE swap == [before EXCEPT ![left] = before[right], ![right] = before[left]]
  <2>1. left \in 1 .. n /\ right \in 1 .. n
    BY <1>1, <1>4
  <2>2. before[right] = s[right] /\ before[left] = s[left]
    <3>1. /\ ~(left <= left - 1) /\ ~(n + 1 - left <= left - 1)
          /\ ~(right <= left - 1) /\ ~(n + 1 - right <= left - 1)
      BY <1>1, <1>4
    <3> HIDE DEF before
    <3> QED BY <1>2, <2>1, <3>1
  <2>3. /\ swap = [i \in 1 .. n |-> swap[i]]
        /\ \A i \in 1 .. n :
             swap[i] = IF i = right THEN before[left] ELSE IF i = left THEN before[right] ELSE before[i]
    <3> HIDE DEF before
    <3> QED BY <1>2, <2>1
  <2>4. n + 1 - right = left /\ n + 1 - left = right
    BY <1>1
  <2>5. ASSUME NEW i \in 1 .. n PROVE swap[i] = after[i]
    <3> HIDE DEF swap, before, after
    <3>1. CASE i = left
      BY <1>1, <1>2, <2>1, <2>2, <2>3, <2>4, <3>1, <1>4
    <3>2. CASE i = right
      BY <1>1, <1>2, <2>1, <2>2, <2>3, <2>4, <3>2, <1>4
    <3>3. CASE i # left /\ i # right
      <4>1. swap[i] = before[i]
        BY <2>3, <3>3
      <4>2. (i <= left - 1 <=> i <= left) /\ (n + 1 - i <= left - 1 <=> n + 1 - i <= left)
        BY <1>1, <3>3
      <4> QED
        BY <1>2, <4>1, <4>2
    <3> QED
      BY <3>1, <3>2, <3>3
  <2>6. swap = after
    <3> HIDE DEF swap, after
    <3> QED BY <1>2, <2>3, <2>5, Zenon
  <2>7. left # 0 /\ left < Right(Len(s), left)
    BY <1>1, <1>4
  <2> QED
    BY <1>1, <2>6, <2>7 DEF Turn
<1>5. CASE left # 0 /\ ~(left < right)
  <2>1. ASSUME NEW i \in 1 .. n PROVE before[i] = after[i]
    <3> HIDE DEF before, after
    <3>1. CASE i <= left - 1 \/ n + 1 - i <= left - 1
      BY <1>1, <1>2, <3>1
    <3>2. CASE ~(i <= left - 1 \/ n + 1 - i <= left - 1)
      <4>1. i >= left /\ n + 1 - i >= left /\ left >= n + 1 - left
        BY <1>1, <1>5, <3>2
      <4>2. i = left /\ n + 1 - i = i
        BY <1>1, <4>1
      <4> QED
        BY <1>2, <3>2, <4>2
    <3> QED
      BY <3>1, <3>2
  <2>2. before = after
    <3> HIDE DEF before, after
    <3> QED BY <1>2, <2>1, Zenon
  <2>3. left # 0 /\ ~(left < Right(Len(s), left))
    BY <1>1, <1>5
  <2> QED
    BY <2>2, <2>3 DEF Turn
<1> QED
  BY <1>3, <1>4, <1>5

\* The loop of reverse(): n exchanges, one behind the other.
LEMMA ReverseLoop ==
  ASSUME NEW S, NEW s \in Seq(S)
  PROVE  \E f : /\ f = [left \in 0 .. Len(s) |-> Turn(s, f[left - 1], left)]
                /\ reverse(s) = f[Len(s)]
<1> DEFINE Loop(f) == [left \in 0 .. Len(s) |-> Turn(s, f[left - 1], left)]
           h == [left \in 0 .. Len(s) |-> Mirrored(s, left)]
           f == CHOOSE g : g = Loop(g)
<1>1. h = Loop(h)
  <2>1. Len(s) \in Nat
    OBVIOUS
  <2>2. ASSUME NEW left \in 0 .. Len(s) PROVE Mirrored(s, left) = Turn(s, h[left - 1], left)
    <3>1. CASE left = 0
      BY <3>1, TurnMirrors DEF Turn
    <3>2. CASE left # 0
      <4>1. left - 1 \in 0 .. Len(s)
        BY <2>1, <3>2
      <4>2. h[left - 1] = Mirrored(s, left - 1)
        BY <4>1
      <4> QED
        BY <4>2, TurnMirrors
    <3> QED
      BY <3>1, <3>2
  <2> QED
    BY <2>2
<1>2. f = Loop(f)
  <2> HIDE DEF Loop, h
  <2> QED
    BY <1>1, Zenon
<1>3. reverse(s) = f[Len(s)]
  BY DEF reverse, Turn
<1> QED
  BY <1>2, <1>3

\* reverse() does what it is called.
LEMMA ReverseIs ==
  ASSUME NEW S, NEW s \in Seq(S)
  PROVE  reverse(s) = Reverse(s)
<1>1. PICK f : /\ f = [left \in 0 .. Len(s) |-> Turn(s, f[left - 1], left)]
               /\ reverse(s) = f[Len(s)]
  BY ReverseLoop
<1>2. Len(s) \in Nat
  OBVIOUS
<1>3. \A left \in 0 .. Len(s) : f[left] = Turn(s, f[left - 1], left)
  BY <1>1, Zenon
<1> DEFINE Wrong == {left \in 0 .. Len(s) : f[left] # Mirrored(s, left)}
<1>4. Wrong = {}
  <2> SUFFICES ASSUME Wrong # {} PROVE FALSE
    OBVIOUS
  <2>1. Wrong \in SUBSET Nat
    BY <1>2
  <2>2. PICK m \in Wrong : \A other \in Wrong : m <= other
    <3> HIDE DEF Wrong
    <3> QED BY <2>1, LeastOf
  <2>3. m \in 0 .. Len(s) /\ f[m] # Mirrored(s, m) /\ m - 1 \notin Wrong
    BY <1>2, <2>2
  <2>4. CASE m = 0
    <3>1. f[m] = s /\ Turn(s, Mirrored(s, m - 1), m) = s
      BY <1>3, <2>3, <2>4 DEF Turn
    <3> QED
      BY <2>3, <3>1, TurnMirrors
  <2>5. CASE m # 0
    <3>1. m - 1 \in 0 .. Len(s)
      BY <1>2, <2>3, <2>5
    <3>2. f[m - 1] = Mirrored(s, m - 1)
      BY <2>3, <3>1
    <3> QED
      BY <1>3, <2>3, <3>2, TurnMirrors
  <2> QED
    BY <2>4, <2>5
<1>5. reverse(s) = Mirrored(s, Len(s))
  <2>1. Len(s) \in 0 .. Len(s)
    BY <1>2
  <2>2. f[Len(s)] = Mirrored(s, Len(s))
    BY <1>4, <2>1, Zenon
  <2> QED
    BY <1>1, <2>2
<1>6. Mirrored(s, Len(s)) = [i \in 1 .. Len(s) |-> s[Len(s) + 1 - i]]
  BY <1>2 DEF Mirrored
<1>7. \A i \in 1 .. Len(s) : Len(s) + 1 - i = (Len(s) - i) + 1
  BY <1>2
<1>8. Reverse(s) = [i \in 1 .. Len(s) |-> s[(Len(s) - i) + 1]]
  BY DEF Reverse
<1> QED
  BY <1>5, <1>6, <1>7, <1>8

(***************************************************************************)
(* Counting bytes.                                                          *)
(***************************************************************************)

\* the places of ch in s, capital or not
Where(s, ch) == {k \in 1 .. Len(s) : Cap(s[k]) = Cap(ch)}

LEMMA CountNat ==
  ASSUME NEW S, NEW s \in Seq(S), NEW ch
  PROVE  IsFiniteSet(Where(s, ch)) /\ Count(s, ch) = Cardinality(Where(s, ch)) /\ Count(s, ch) \in Nat
<1>1. Len(s) \in Nat /\ Where(s, ch) \in SUBSET (1 .. Len(s))
  BY DEF Where
<1>2. IsFiniteSet(1 .. Len(s))
  BY <1>1, FS_Interval
<1>3. IsFiniteSet(Where(s, ch))
  BY <1>1, <1>2, FS_Subset
<1>4. Count(s, ch) = Cardinality(Where(s, ch))
  BY Zenon DEF Count, Where
<1> QED
  BY <1>3, <1>4, FS_CardinalityType

LEMMA CountNone == ASSUME NEW ch PROVE Count(<<>>, ch) = 0
<1>1. Where(<<>>, ch) = {}
  BY DEF Where
<1>2. Count(<<>>, ch) = Cardinality(Where(<<>>, ch))
  BY Zenon DEF Count, Where
<1> QED
  BY <1>1, <1>2, FS_EmptySet

LEMMA SameSize ==
  ASSUME NEW A, IsFiniteSet(A), NEW B, NEW f \in [A -> B],
         \A a, b \in A : f[a] = f[b] => a = b, \A b \in B : \E a \in A : f[a] = b
  PROVE  IsFiniteSet(B) /\ Cardinality(B) = Cardinality(A)
<1>1. f \in Bijection(A, B)
  BY Fun_IsBij, Zenon
<1>2. ExistsBijection(A, B)
  BY <1>1 DEF ExistsBijection
<1> QED
  BY <1>2, FS_Bijection, Zenon

\* The bytes of a concatenation.
LEMMA CountConcat ==
  ASSUME NEW S, NEW s \in Seq(S), NEW t \in Seq(S), NEW u, Glued(u, s, t), NEW ch
  PROVE  Count(u, ch) = Count(s, ch) + Count(t, ch)
<1> DEFINE m == Len(s)
           n == Len(t)
           Behind == {k \in m + 1 .. m + n : Cap(t[k - m]) = Cap(ch)}
           shift == [k \in Where(t, ch) |-> k + m]
<1>1. /\ u \in Seq(S) /\ Len(u) = m + n /\ m \in Nat /\ n \in Nat
      /\ \A i \in 1 .. m + n : u[i] = IF i <= m THEN s[i] ELSE t[i - m]
  BY ConcatIs
<1>2. /\ Where(u, ch) = {k \in 1 .. m + n : Cap(u[k]) = Cap(ch)}
      /\ Where(s, ch) = {k \in 1 .. m : Cap(s[k]) = Cap(ch)}
      /\ Where(t, ch) = {k \in 1 .. n : Cap(t[k]) = Cap(ch)}
  BY <1>1, Zenon DEF Where
<1>3. /\ \A i \in 1 .. m : i \in 1 .. m + n /\ u[i] = s[i] /\ i \notin m + 1 .. m + n
      /\ \A i \in m + 1 .. m + n : i \in 1 .. m + n /\ u[i] = t[i - m]
      /\ \A i \in 1 .. m + n : i \in 1 .. m \/ i \in m + 1 .. m + n
  <2> HIDE DEF m, n
  <2> QED BY <1>1
<1>4. Where(u, ch) = Where(s, ch) \cup Behind /\ Where(s, ch) \cap Behind = {}
  <2>1. \A i \in m + 1 .. m + n : Cap(u[i]) = Cap(t[i - m])
    BY <1>3, Zenon
  <2>2. \A i \in 1 .. m : Cap(u[i]) = Cap(s[i])
    BY <1>3, Zenon
  <2> QED
    BY <1>2, <1>3, <2>1, <2>2, Zenon
<1>5. IsFiniteSet(Behind) /\ Cardinality(Behind) = Cardinality(Where(t, ch))
  <2>1. IsFiniteSet(Where(t, ch))
    BY CountNat
  <2>2. ASSUME NEW k \in Where(t, ch) PROVE shift[k] = k + m /\ k \in Int /\ k + m \in Behind
    <3>1. k \in 1 .. n /\ Cap(t[k]) = Cap(ch)
      BY <1>2
    <3>2. k + m \in m + 1 .. m + n /\ (k + m) - m = k
      BY <1>1, <3>1
    <3>3. t[(k + m) - m] = t[k]
      BY <3>2, Zenon
    <3>4. k + m \in Behind
      BY <3>1, <3>2, <3>3
    <3> QED
      BY <3>1, <3>4
  <2>3. ASSUME NEW b \in Behind PROVE b - m \in Where(t, ch) /\ (b - m) + m = b
    <3>1. b \in m + 1 .. m + n /\ Cap(t[b - m]) = Cap(ch)
      OBVIOUS
    <3>2. b - m \in 1 .. n /\ (b - m) + m = b
      BY <1>1, <3>1
    <3> QED
      BY <1>2, <3>1, <3>2, Zenon
  <2>4. shift \in [Where(t, ch) -> Behind]
    <3> HIDE DEF Behind
    <3> QED BY <2>2, Zenon
  <2>5. \A a, b \in Where(t, ch) : shift[a] = shift[b] => a = b
    <3> HIDE DEF Behind, shift, m
    <3>1. m \in Nat
      BY <1>1
    <3> QED BY <2>2, <3>1
  <2>6. \A b \in Behind : \E a \in Where(t, ch) : shift[a] = b
    <3> HIDE DEF Behind, shift, m
    <3> QED BY <2>2, <2>3, Zenon
  <2> HIDE DEF Behind, shift
  <2> QED
    BY <2>1, <2>4, <2>5, <2>6, SameSize, Zenon
<1>6. IsFiniteSet(Where(s, ch)) /\ Count(s, ch) = Cardinality(Where(s, ch)) /\ Count(s, ch) \in Nat
  BY CountNat
<1>7. Count(t, ch) = Cardinality(Where(t, ch)) /\ Count(t, ch) \in Nat
  BY CountNat
<1>8. Count(u, ch) = Cardinality(Where(u, ch))
  BY <1>1, CountNat
<1> HIDE DEF Behind
<1>9. Cardinality(Where(s, ch) \cup Behind)
        = Cardinality(Where(s, ch)) + Cardinality(Behind) - Cardinality(Where(s, ch) \cap Behind)
  BY <1>5, <1>6, FS_Union, Zenon
<1>10. Cardinality(Where(s, ch) \cap Behind) = 0
  BY <1>4, FS_EmptySet
<1> QED
  BY <1>4, <1>5, <1>6, <1>7, <1>8, <1>9, <1>10

\* reverse() keeps every byte.
LEMMA CountReverse ==
  ASSUME NEW S, NEW s \in Seq(S), NEW ch
  PROVE  Count(Reverse(s), ch) = Count(s, ch)
<1> DEFINE n == Len(s)
           r == Reverse(s)
           f == [k \in Where(s, ch) |-> n + 1 - k]
<1>1. n \in Nat /\ r \in Seq(S) /\ Len(r) = n /\ \A i \in 1 .. n : r[i] = s[(n - i) + 1]
  BY DEF Reverse
<1>2. /\ Where(s, ch) = {k \in 1 .. n : Cap(s[k]) = Cap(ch)}
      /\ Where(r, ch) = {k \in 1 .. n : Cap(r[k]) = Cap(ch)}
  BY <1>1, Zenon DEF Where
<1> HIDE DEF n, r
<1>3. \A i \in 1 .. n : n + 1 - i \in 1 .. n /\ n + 1 - (n + 1 - i) = i
                           /\ (n - i) + 1 = n + 1 - i
  BY <1>1
<1>4. \A i \in 1 .. n : r[i] = s[n + 1 - i] /\ r[n + 1 - i] = s[i]
  <2> SUFFICES ASSUME NEW i \in 1 .. n PROVE r[i] = s[n + 1 - i] /\ r[n + 1 - i] = s[i]
    OBVIOUS
  <2>1. r[i] = s[(n - i) + 1] /\ r[n + 1 - i] = s[(n - (n + 1 - i)) + 1]
    BY <1>1, <1>3, Zenon
  <2>2. (n - i) + 1 = n + 1 - i /\ (n - (n + 1 - i)) + 1 = i
    BY <1>1
  <2> QED
    BY <2>1, <2>2, Zenon
<1>5. \A k \in Where(s, ch) : f[k] = n + 1 - k /\ n + 1 - k \in Where(r, ch)
  BY <1>2, <1>3, <1>4, Zenon
<1>6. \A k \in Where(r, ch) : n + 1 - k \in Where(s, ch) /\ f[n + 1 - k] = k
  BY <1>2, <1>3, <1>4, Zenon
<1>7. f \in [Where(s, ch) -> Where(r, ch)]
  BY <1>5, Zenon
<1>8. \A a, b \in Where(s, ch) : f[a] = f[b] => a = b
  <2> HIDE DEF f
  <2>1. \A a \in Where(s, ch) : n + 1 - f[a] = a
    BY <1>2, <1>3, <1>5, Zenon
  <2> QED BY <2>1, Zenon
<1>9. IsFiniteSet(Where(s, ch)) /\ Count(s, ch) = Cardinality(Where(s, ch))
  BY CountNat
<1>10. Count(r, ch) = Cardinality(Where(r, ch))
  BY <1>1, CountNat
<1>11. Cardinality(Where(r, ch)) = Cardinality(Where(s, ch))
  <2> HIDE DEF f
  <2>1. \A k \in Where(r, ch) : \E a \in Where(s, ch) : f[a] = k
    BY <1>6, Zenon
  <2> QED
    BY <1>7, <1>8, <1>9, <2>1, SameSize, Zenon
<1>12. Count(r, ch) = Count(s, ch)
  BY <1>9, <1>10, <1>11, Zenon
<1> QED
  BY <1>12 DEF r

LEMMA CapTwice == ASSUME NEW ch PROVE Cap(Cap(ch)) = Cap(ch)
BY DEF Cap

LEMMA CapByte == ASSUME NEW ch \in Bytes PROVE Cap(ch) \in Bytes
BY DEF Cap, Bytes, Letters, Lower, nl

\* upper() changes the size of letters only.
LEMMA UpperIs ==
  ASSUME NEW s \in Seq(Bytes)
  PROVE  upper(s) \in Seq(Bytes) /\ Len(upper(s)) = Len(s)
         /\ \A i \in 1 .. Len(s) : Cap(upper(s)[i]) = Cap(s[i])
<1>1. Len(s) \in Nat /\ \A i \in 1 .. Len(s) : s[i] \in Bytes
  OBVIOUS
<1>2. /\ DOMAIN upper(s) = 1 .. Len(s) /\ upper(s) = [i \in 1 .. Len(s) |-> upper(s)[i]]
      /\ \A i \in 1 .. Len(s) : upper(s)[i] = s[i] \/ upper(s)[i] = Cap(s[i])
  BY DEF upper
<1>3. \A i \in 1 .. Len(s) : upper(s)[i] \in Bytes
  BY <1>1, <1>2, CapByte, Zenon
<1>4. upper(s) \in [1 .. Len(s) -> Bytes]
  BY <1>2, <1>3, Zenon
<1>5. upper(s) \in Seq(Bytes) /\ Len(upper(s)) = Len(s)
  BY <1>1, <1>4
<1>6. \A i \in 1 .. Len(s) : Cap(upper(s)[i]) = Cap(s[i])
  BY <1>2, CapTwice, Zenon
<1> QED
  BY <1>5, <1>6

LEMMA CountUpper ==
  ASSUME NEW s \in Seq(Bytes), NEW ch
  PROVE  Count(upper(s), ch) = Count(s, ch)
<1>1. Len(upper(s)) = Len(s) /\ \A i \in 1 .. Len(s) : Cap(upper(s)[i]) = Cap(s[i])
  BY UpperIs
<1>2. Where(upper(s), ch) = Where(s, ch)
  BY <1>1, Zenon DEF Where
<1>3. \A t : Count(t, ch) = Cardinality(Where(t, ch))
  BY Zenon DEF Count, Where
<1> QED
  BY <1>2, <1>3, Zenon

\* An answer has the bytes of the line.
LEMMA AnswerKeeps ==
  ASSUME NEW s \in Seq(Bytes)
  PROVE  Answer(s) \in Seq(Bytes) /\ \A ch : Count(Answer(s), ch) = Count(s, ch)
<1>1. CASE program = "upper"
  <2>1. Answer(s) = upper(s)
    BY <1>1 DEF Answer
  <2> QED
    BY <2>1, UpperIs, CountUpper
<1>2. CASE program # "upper"
  <2>1. Answer(s) = Reverse(s)
    BY <1>2, ReverseIs DEF Answer
  <2>2. Reverse(s) \in Seq(Bytes)
    BY DEF Reverse
  <2>3. \A ch : Count(Reverse(s), ch) = Count(s, ch)
    BY CountReverse
  <2> QED
    BY <2>1, <2>2, <2>3, Zenon
<1> QED
  BY <1>1, <1>2

-----------------------------------------------------------------------------
(***************************************************************************)
(* The inductive invariant: the types, and that a client the server reads   *)
(* from is not in its batch any more and one that is gone has left nothing  *)
(* to be read, unless its connection was reset.                             *)
(***************************************************************************)
GoneSilent == \A c \in gone \ resets : up[c] = <<>> /\ (pc = c => buf = <<>>)

\* what get_line() has read of c's line
InHand(c) == IF pc = c THEN buf ELSE <<>>

\* NothingLost, by its terms.
Even(c) ==
  \A ch \in Bytes :
    Count(written[c], ch) = Count(answered[c], ch) + Count(InHand(c), ch) + Count(up[c], ch)

Balanced == \A c \in Clients \ resets : Even(c)

LineInv == LTypeOK /\ pc \notin batch /\ GoneSilent /\ Balanced

LEMMA NoClients ==
  /\ Listen \notin Clients /\ "epoll_wait" \notin Clients
  /\ "events" \notin Clients /\ "killed" \notin Clients
BY LineAssumption

LEMMA EmptyIs == <<>> \in Seq(Bytes)
OBVIOUS

LEMMA PortionOf ==
  ASSUME NEW S, NEW s \in Seq(S), NEW k \in Portions(s)
  PROVE  k \in 1 .. Len(s) /\ (~pieces => k = Len(s))
BY DEF Portions

\* A read takes the front of a stream and leaves the rest.
LEMMA SplitIs ==
  ASSUME NEW S, NEW s \in Seq(S), NEW k \in 1 .. Len(s)
  PROVE  /\ SubSeq(s, 1, k) \in Seq(S) /\ SubSeq(s, k + 1, Len(s)) \in Seq(S)
         /\ Glued(s, SubSeq(s, 1, k), SubSeq(s, k + 1, Len(s)))
<1>1. Len(s) \in Nat /\ 1 \in 1 .. Len(s) + 1 /\ k \in 1 - 1 .. Len(s) /\ Len(s) \in k .. Len(s)
  OBVIOUS
<1>2. SubSeq(s, 1, k) \o SubSeq(s, k + 1, Len(s)) = SubSeq(s, 1, Len(s))
  BY <1>1, ConcatAdjacentSubSeq, Zenon
<1>3. SubSeq(s, 1, Len(s)) = s
  OBVIOUS
<1>4. SubSeq(s, 1, k) \in Seq(S) /\ SubSeq(s, k + 1, Len(s)) \in Seq(S)
  OBVIOUS
<1> QED
  BY <1>2, <1>3, <1>4, Zenon DEF Glued

LEMMA CountSplit ==
  ASSUME NEW S, NEW s \in Seq(S), NEW k \in 1 .. Len(s), NEW ch
  PROVE  Count(s, ch) = Count(SubSeq(s, 1, k), ch) + Count(SubSeq(s, k + 1, Len(s)), ch)
<1> DEFINE a == SubSeq(s, 1, k)
           b == SubSeq(s, k + 1, Len(s))
<1>1. a \in Seq(S) /\ b \in Seq(S) /\ Glued(s, a, b)
  BY SplitIs
<1> HIDE DEF a, b
<1>2. Count(s, ch) = Count(a, ch) + Count(b, ch)
  BY <1>1, CountConcat
<1> QED
  BY <1>2, Zenon DEF a, b

\* What is left of the buffer when a read fails.
LEMMA FrontIs == ASSUME NEW S, NEW s \in Seq(S), s # <<>> PROVE Front(s) \in Seq(S)
BY DEF Front

\* A line with its newlines.
LEMMA SentIs ==
  ASSUME NEW l \in Seq(Letters)
  PROVE  /\ Sent(l) \in Seq(Bytes) /\ Len(Sent(l)) = Len(l) + 2 /\ Len(l) \in Nat
         /\ \A i \in 1 .. Len(l) : Sent(l)[i] = l[i] /\ l[i] \in Letters
         /\ Sent(l)[Len(l) + 1] = nl /\ Sent(l)[Len(l) + 2] = nl
<1>1. l \in Seq(Letters) /\ l \in Seq(Bytes) /\ <<nl, nl>> \in Seq(Bytes)
      /\ Len(<<nl, nl>>) = 2 /\ <<nl, nl>>[1] = nl /\ <<nl, nl>>[2] = nl
  <2>1. Letters \subseteq Bytes /\ nl \in Bytes
    BY DEF Bytes
  <2> QED
    BY <2>1
<1> DEFINE t == <<nl, nl>>
           u == Sent(l)
<1>2. Glued(u, l, t)
  BY Zenon DEF Sent, Glued
<1>3. /\ t \in Seq(Bytes) /\ Len(t) = 2 /\ t[1] = nl /\ t[2] = nl
  BY <1>1
<1> HIDE DEF t, u
<1>4. /\ u \in Seq(Bytes) /\ Len(u) = Len(l) + Len(t)
      /\ \A i \in 1 .. Len(l) + Len(t) : u[i] = IF i <= Len(l) THEN l[i] ELSE t[i - Len(l)]
  <2>1. l \in Seq(Bytes) /\ t \in Seq(Bytes)
    BY <1>1, <1>3, Zenon
  <2> QED
    BY <1>2, <2>1, ConcatIs
<1>5. Len(l) \in Nat /\ \A i \in 1 .. Len(l) : l[i] \in Letters
  BY <1>1
<1>6. \A i \in 1 .. Len(l) : u[i] = l[i]
  BY <1>3, <1>4, <1>5
<1>7. u[Len(l) + 1] = nl /\ u[Len(l) + 2] = nl
  <2>1. u[Len(l) + 1] = t[(Len(l) + 1) - Len(l)] /\ u[Len(l) + 2] = t[(Len(l) + 2) - Len(l)]
    BY <1>3, <1>4, <1>5
  <2>2. (Len(l) + 1) - Len(l) = 1 /\ (Len(l) + 2) - Len(l) = 2
    BY <1>5
  <2> QED
    BY <1>3, <2>1, <2>2
<1> QED
  BY <1>3, <1>4, <1>5, <1>6, <1>7 DEF u

\* What the bytes are: sequences that can be counted.
LEMMA Streams ==
  ASSUME LTypeOK, NEW c \in Clients
  PROVE  /\ up[c] \in Seq(Bytes) /\ down[c] \in Seq(Bytes) /\ InHand(c) \in Seq(Bytes)
         /\ written[c] \in Seq(Bytes) /\ answered[c] \in Seq(Bytes) /\ shown[c] \in Seq(Bytes)
         /\ \A ch : /\ Count(up[c], ch) \in Nat /\ Count(InHand(c), ch) \in Nat
                    /\ Count(written[c], ch) \in Nat /\ Count(answered[c], ch) \in Nat
<1>1. /\ up[c] \in Seq(Bytes) /\ down[c] \in Seq(Bytes) /\ buf \in Seq(Bytes)
      /\ written[c] \in Seq(Bytes) /\ answered[c] \in Seq(Bytes) /\ shown[c] \in Seq(Bytes)
  BY DEF LTypeOK
<1>2. InHand(c) \in Seq(Bytes)
  BY <1>1, EmptyIs, Zenon DEF InHand
<1> QED
  BY <1>1, <1>2, CountNat, Zenon

LEMMA EvenKept ==
  ASSUME NEW c, Even(c), up'[c] = up[c], written'[c] = written[c],
         answered'[c] = answered[c], InHand(c)' = InHand(c)
  PROVE  Even(c)'
<1>1. \A ch \in Bytes :
        /\ Count(written'[c], ch) = Count(written[c], ch)
        /\ Count(answered'[c], ch) = Count(answered[c], ch)
        /\ Count(InHand(c)', ch) = Count(InHand(c), ch)
        /\ Count(up'[c], ch) = Count(up[c], ch)
  BY Zenon
<1>2. \A ch \in Bytes : Count(written'[c], ch)
        = Count(answered'[c], ch) + Count(InHand(c)', ch) + Count(up'[c], ch)
  BY <1>1, Zenon DEF Even
<1> QED
  BY <1>2, Zenon DEF Even, Count

\* Nothing is written, read or answered.
LEMMA BytesKept ==
  ASSUME Balanced, resets' = resets, up' = up, written' = written, answered' = answered,
         \A c \in Clients \ resets : InHand(c)' = InHand(c)
  PROVE  Balanced'
BY EvenKept, Zenon DEF Balanced

(***************************************************************************)
(* One lemma for every action.                                              *)
(***************************************************************************)
LEMMA StepEpollWait == ASSUME LineInv, EpollWait PROVE LineInv'
<1>1. /\ LTypeOK /\ GoneSilent /\ Balanced
      /\ pc = "epoll_wait" /\ pc' = "events" /\ buf' = buf /\ up' = up /\ gone' = gone
      /\ resets' = resets
      /\ written' = written /\ answered' = answered
  BY DEF LineInv, EpollWait
<1>2. LTypeOK'
  <2>1. batch' \subseteq {c \in Clients : conn[c] = "open"} \cup {Listen}
    BY DEF EpollWait, Readable
  <2>2. /\ program' = program /\ pieces' = pieces /\ conn' = conn /\ down' = down
        /\ asks' = asks /\ typed' = typed /\ shown' = shown
    BY DEF EpollWait
  <2> QED
    BY <1>1, <2>1, <2>2, NoClients DEF LTypeOK
<1>3. "events" \notin batch'
  <2>1. batch' \subseteq Clients \cup {Listen}
    BY Zenon DEF EpollWait
  <2>2. "events" # Listen
    BY DEF Listen
  <2> QED
    BY <2>1, <2>2, NoClients, Zenon
<1>4. GoneSilent'
  BY <1>1, NoClients DEF GoneSilent, LTypeOK
<1>5. \A c \in Clients : InHand(c)' = InHand(c)
  BY <1>1, NoClients DEF InHand
<1>6. Balanced'
  BY <1>1, <1>5, BytesKept
<1> QED
  BY <1>1, <1>2, <1>3, <1>4, <1>6 DEF LineInv

LEMMA StepEventsDone == ASSUME LineInv, EventsDone PROVE LineInv'
<1>1. /\ LTypeOK /\ GoneSilent /\ Balanced
      /\ pc = "events" /\ pc' = "epoll_wait" /\ buf' = buf /\ up' = up /\ gone' = gone
      /\ resets' = resets
      /\ written' = written /\ answered' = answered /\ batch = {} /\ batch' = {}
  BY DEF LineInv, EventsDone
<1>2. LTypeOK'
  BY <1>1, NoClients DEF LTypeOK, EventsDone
<1>3. pc' \notin batch'
  BY <1>1
<1>4. GoneSilent'
  BY <1>1, NoClients DEF GoneSilent, LTypeOK
<1>5. \A c \in Clients : InHand(c)' = InHand(c)
  BY <1>1, NoClients DEF InHand
<1>6. Balanced'
  BY <1>1, <1>5, BytesKept
<1> QED
  BY <1>2, <1>3, <1>4, <1>6 DEF LineInv

LEMMA StepAccept == ASSUME LineInv, NEW c \in Clients, Accept(c) PROVE LineInv'
<1>1. /\ LTypeOK /\ pc \notin batch /\ GoneSilent /\ Balanced
      /\ pc' = pc /\ buf' = buf /\ up' = up /\ gone' = gone
      /\ resets' = resets
      /\ written' = written /\ answered' = answered /\ batch' = batch \ {Listen}
  BY DEF LineInv, Accept
<1>2. LTypeOK'
  <2>1. \A d \in Clients : conn[d] = "open" => conn'[d] = "open"
    BY <1>1 DEF Accept, LTypeOK
  <2>2. conn' \in [Clients -> {"none", "backlog", "open", "closed"}]
    BY <1>1 DEF Accept, LTypeOK
  <2> QED
    BY <1>1, <2>1, <2>2 DEF LTypeOK, Accept
<1>3. pc' \notin batch'
  BY <1>1
<1>4. GoneSilent'
  BY <1>1 DEF GoneSilent
<1>5. \A d \in Clients : InHand(d)' = InHand(d)
  BY <1>1 DEF InHand
<1>6. Balanced'
  BY <1>1, <1>5, BytesKept
<1> QED
  BY <1>2, <1>3, <1>4, <1>6 DEF LineInv

LEMMA StepHandle == ASSUME LineInv, NEW c \in Clients, Handle(c) PROVE LineInv'
<1>1. /\ LTypeOK /\ GoneSilent /\ Balanced
      /\ pc = "events" /\ pc' = c /\ buf' = buf /\ up' = up /\ gone' = gone /\ conn' = conn
      /\ resets' = resets
      /\ written' = written /\ answered' = answered /\ c \in batch /\ batch' = batch \ {c}
  BY DEF LineInv, Handle
<1>2. buf = <<>> /\ conn[c] = "open"
  BY <1>1, NoClients DEF LTypeOK
<1>3. LTypeOK'
  BY <1>1, <1>2 DEF LTypeOK, Handle
<1>4. pc' \notin batch'
  BY <1>1
<1>5. GoneSilent'
  BY <1>1, <1>2 DEF GoneSilent
<1>6. \A d \in Clients : InHand(d)' = InHand(d)
  BY <1>1, <1>2, NoClients DEF InHand
<1>7. Balanced'
  BY <1>1, <1>6, BytesKept
<1> QED
  BY <1>3, <1>4, <1>5, <1>7 DEF LineInv

LEMMA StepRead == ASSUME LineInv, NEW c \in Clients, Read(c) PROVE LineInv'
<1>1. /\ LTypeOK /\ pc \notin batch /\ GoneSilent /\ Balanced
      /\ pc = c /\ pc' = c /\ gone' = gone /\ batch' = batch
      /\ resets' = resets
      /\ written' = written /\ answered' = answered
  BY DEF LineInv, Read
<1>2. PICK k \in Portions(up[c]) :
        /\ buf' = Joined(SubSeq(up[c], 1, k))
        /\ up' = [up EXCEPT ![c] = SubSeq(@, k + 1, Len(@))]
  BY DEF Read
<1> DEFINE a == SubSeq(up[c], 1, k)
           b == SubSeq(up[c], k + 1, Len(up[c]))
<1>3. up[c] \in Seq(Bytes) /\ buf \in Seq(Bytes) /\ up \in [Clients -> Seq(Bytes)]
  BY <1>1 DEF LTypeOK
<1>4. k \in 1 .. Len(up[c])
  BY <1>3, PortionOf
<1>5. a \in Seq(Bytes) /\ b \in Seq(Bytes)
  BY <1>3, <1>4, SplitIs
<1>6. Glued(buf', buf, a) /\ up' = [up EXCEPT ![c] = b]
  BY <1>2, Zenon DEF Joined, Glued
<1>7. \A ch : Count(up[c], ch) = Count(a, ch) + Count(b, ch)
  BY <1>3, <1>4, CountSplit
<1> HIDE DEF a, b
<1>8. buf' \in Seq(Bytes) /\ \A ch : Count(buf', ch) = Count(buf, ch) + Count(a, ch)
  <2>1. buf' \in Seq(Bytes)
    BY <1>3, <1>5, <1>6, ConcatIs
  <2>2. \A ch : Count(buf', ch) = Count(buf, ch) + Count(a, ch)
    BY <1>3, <1>5, <1>6, CountConcat
  <2> QED
    BY <2>1, <2>2
<1>9. /\ up' \in [Clients -> Seq(Bytes)] /\ up'[c] = b
      /\ \A d \in Clients : d # c => up'[d] = up[d]
  BY <1>3, <1>5, <1>6
<1>10. LTypeOK'
  BY <1>1, <1>8, <1>9 DEF LTypeOK, Read
<1>11. up[c] # <<>>
  BY <1>3, <1>4
<1>12. GoneSilent'
  <2>1. c \notin gone \ resets /\ gone \subseteq Clients
    BY <1>1, <1>11 DEF GoneSilent, LTypeOK
  <2> QED
    BY <1>1, <1>9, <2>1 DEF GoneSilent
<1>13. ASSUME NEW d \in Clients \ resets PROVE Even(d)'
  <2>1. Even(d)
    BY <1>1 DEF Balanced
  <2>2. CASE d # c
    <3>1. InHand(d)' = InHand(d) /\ up'[d] = up[d]
      BY <1>1, <1>9, <2>2 DEF InHand
    <3> QED
      BY <1>1, <2>1, <3>1, EvenKept
  <2>3. CASE d = c
    <3>1. InHand(c)' = buf' /\ InHand(c) = buf
      BY <1>1 DEF InHand
    <3>2. \A ch : /\ Count(buf, ch) \in Nat /\ Count(a, ch) \in Nat /\ Count(b, ch) \in Nat
                   /\ Count(answered[c], ch) \in Nat
      BY <1>1, <1>3, <1>5, CountNat, Streams
    <3>3. \A ch \in Bytes :
            Count(written[c], ch) = Count(answered[c], ch) + Count(buf, ch) + Count(up[c], ch)
      BY <2>1, <2>3, <3>1 DEF Even
    <3>4. \A ch \in Bytes :
            Count(written[c], ch) = Count(answered[c], ch) + Count(buf', ch) + Count(b, ch)
      BY <1>7, <1>8, <3>2, <3>3
    <3>5. \A ch \in Bytes :
            Count(written'[c], ch) = Count(answered'[c], ch) + Count(InHand(c)', ch) + Count(up'[c], ch)
      BY <1>1, <1>9, <3>1, <3>4
    <3> QED
      BY <2>3, <3>5, Zenon DEF Even, Count
  <2> QED
    BY <2>2, <2>3
<1> QED
  BY <1>1, <1>10, <1>12, <1>13 DEF LineInv, Balanced

LEMMA StepReply == ASSUME LineInv, NEW c \in Clients, Reply(c) PROVE LineInv'
<1>1. /\ LTypeOK /\ pc \notin batch /\ GoneSilent /\ Balanced
      /\ pc = c /\ pc' = "events" /\ gone' = gone /\ batch' = batch /\ up' = up /\ buf' = <<>>
      /\ resets' = resets
      /\ written' = written
  BY DEF LineInv, Reply
<1> DEFINE a == Answer(buf)
           x == answered[c] \o a
           y == down[c] \o a
<1>2. /\ answered \in [Clients -> Seq(Bytes)] /\ down \in [Clients -> Seq(Bytes)]
      /\ answered[c] \in Seq(Bytes) /\ down[c] \in Seq(Bytes) /\ buf \in Seq(Bytes)
  BY <1>1 DEF LTypeOK
<1>3. a \in Seq(Bytes) /\ \A ch : Count(a, ch) = Count(buf, ch)
  BY <1>2, AnswerKeeps
<1>4. Glued(x, answered[c], a) /\ Glued(y, down[c], a)
  BY Zenon DEF Glued
<1>5. answered' = [answered EXCEPT ![c] = x] /\ down' = [down EXCEPT ![c] = y]
  BY Zenon DEF Reply
<1> HIDE DEF a, x, y
<1>6. x \in Seq(Bytes) /\ y \in Seq(Bytes)
  BY <1>2, <1>3, <1>4, ConcatIs
<1>7. \A ch : Count(x, ch) = Count(answered[c], ch) + Count(buf, ch)
  <2>1. \A ch : Count(x, ch) = Count(answered[c], ch) + Count(a, ch)
    BY <1>2, <1>3, <1>4, CountConcat
  <2> QED
    BY <1>3, <2>1, Zenon
<1>8. /\ answered' \in [Clients -> Seq(Bytes)] /\ answered'[c] = x
      /\ down' \in [Clients -> Seq(Bytes)]
      /\ \A d \in Clients : d # c => answered'[d] = answered[d]
  BY <1>2, <1>5, <1>6
<1>9. LTypeOK'
  BY <1>1, <1>8, EmptyIs DEF LTypeOK, Reply
<1>10. pc' \notin batch'
  <2>1. "events" \notin Clients \cup {Listen} /\ batch \subseteq Clients \cup {Listen}
    BY <1>1, NoClients DEF Listen, LTypeOK
  <2> QED
    BY <1>1, <2>1
<1>11. GoneSilent'
  BY <1>1 DEF GoneSilent
<1>12. ASSUME NEW d \in Clients \ resets PROVE Even(d)'
  <2>1. Even(d)
    BY <1>1 DEF Balanced
  <2>2. CASE d # c
    <3>1. InHand(d)' = InHand(d) /\ answered'[d] = answered[d]
      BY <1>1, <1>8, <2>2, NoClients DEF InHand
    <3> QED
      BY <1>1, <2>1, <3>1, EvenKept
  <2>3. CASE d = c
    <3>1. InHand(c)' = <<>> /\ InHand(c) = buf
      BY <1>1, NoClients DEF InHand
    <3>2. \A ch : /\ Count(buf, ch) \in Nat /\ Count(up[c], ch) \in Nat
                   /\ Count(answered[c], ch) \in Nat /\ Count(<<>>, ch) = 0
      BY <1>1, <1>2, CountNat, CountNone, Streams
    <3>3. \A ch \in Bytes :
            Count(written[c], ch) = Count(answered[c], ch) + Count(buf, ch) + Count(up[c], ch)
      BY <2>1, <2>3, <3>1 DEF Even
    <3>4. \A ch \in Bytes :
            Count(written[c], ch) = Count(x, ch) + Count(<<>>, ch) + Count(up[c], ch)
      BY <1>7, <3>2, <3>3
    <3>5. \A ch \in Bytes :
            Count(written'[c], ch) = Count(answered'[c], ch) + Count(InHand(c)', ch) + Count(up'[c], ch)
      BY <1>1, <1>8, <3>1, <3>4
    <3> QED
      BY <2>3, <3>5, Zenon DEF Even, Count
  <2> QED
    BY <2>2, <2>3
<1> QED
  BY <1>1, <1>9, <1>10, <1>11, <1>12 DEF LineInv, Balanced

LEMMA StepReadFails == ASSUME LineInv, NEW c \in Clients, ReadFails(c) PROVE LineInv'
<1>1. /\ LTypeOK /\ pc \notin batch /\ GoneSilent /\ Balanced
      /\ pc = c /\ pc' = c /\ gone' = gone /\ resets' = resets /\ c \in resets
      /\ batch' = batch /\ up' = up /\ written' = written /\ answered' = answered
      /\ buf # <<>> /\ buf' = Front(buf)
  BY DEF LineInv, ReadFails
<1>2. buf' \in Seq(Bytes)
  <2>1. buf \in Seq(Bytes)
    BY <1>1 DEF LTypeOK
  <2> QED
    BY <1>1, <2>1, FrontIs
<1>3. LTypeOK'
  BY <1>1, <1>2 DEF LTypeOK, ReadFails
<1>4. GoneSilent'
  BY <1>1 DEF GoneSilent
<1>5. \A d \in Clients \ resets : InHand(d)' = InHand(d)
  BY <1>1 DEF InHand
<1>6. Balanced'
  BY <1>1, <1>5, BytesKept
<1> QED
  BY <1>1, <1>3, <1>4, <1>6 DEF LineInv

LEMMA StepKilled == ASSUME LineInv, NEW c \in Clients, Killed(c) PROVE LineInv'
<1>1. /\ LTypeOK /\ pc \notin batch /\ GoneSilent /\ Balanced
      /\ pc = c /\ pc' = "killed" /\ gone' = gone /\ resets' = resets /\ c \in resets
      /\ batch' = batch /\ up' = up /\ written' = written /\ answered' = answered
      /\ buf' = <<>>
  BY DEF LineInv, Killed
<1>2. LTypeOK'
  BY <1>1, EmptyIs DEF LTypeOK, Killed
<1>3. pc' \notin batch'
  <2>1. "killed" \notin Clients \cup {Listen} /\ batch \subseteq Clients \cup {Listen}
    BY <1>1, NoClients DEF Listen, LTypeOK
  <2> QED
    BY <1>1, <2>1
<1>4. GoneSilent'
  BY <1>1, NoClients DEF GoneSilent, LTypeOK
<1>5. \A d \in Clients \ resets : InHand(d)' = InHand(d)
  BY <1>1, NoClients DEF InHand
<1>6. Balanced'
  BY <1>1, <1>5, BytesKept
<1> QED
  BY <1>2, <1>3, <1>4, <1>6 DEF LineInv

LEMMA StepHangUp == ASSUME LineInv, NEW c \in Clients, HangUp(c) PROVE LineInv'
<1>1. /\ LTypeOK /\ pc \notin batch /\ GoneSilent /\ Balanced
      /\ pc = c /\ pc' = "events" /\ c \in gone /\ gone' = gone /\ batch' = batch
      /\ resets' = resets
      /\ up' = up /\ buf' = <<>> /\ written' = written /\ answered' = answered
      /\ conn' = [conn EXCEPT ![c] = "closed"]
  BY DEF LineInv, HangUp
<1>2. c \notin resets => buf = <<>>
  BY <1>1 DEF GoneSilent
<1>3. batch \subseteq {d \in Clients : conn[d] = "open"} \cup {Listen} /\ c \notin batch
      /\ conn \in [Clients -> {"none", "backlog", "open", "closed"}]
  BY <1>1 DEF LTypeOK
<1>4. batch' \subseteq {d \in Clients : conn'[d] = "open"} \cup {Listen}
      /\ conn' \in [Clients -> {"none", "backlog", "open", "closed"}]
  BY <1>1, <1>3
<1>5. LTypeOK'
  BY <1>1, <1>4, EmptyIs DEF LTypeOK, HangUp
<1>6. pc' \notin batch'
  <2>1. "events" \notin Clients \cup {Listen}
    BY NoClients DEF Listen
  <2> QED
    BY <1>1, <1>3, <2>1
<1>7. GoneSilent'
  BY <1>1 DEF GoneSilent
<1>8. \A d \in Clients \ resets : InHand(d)' = InHand(d)
  BY <1>1, <1>2, NoClients DEF InHand
<1>9. Balanced'
  BY <1>1, <1>8, BytesKept
<1> QED
  BY <1>5, <1>6, <1>7, <1>9 DEF LineInv

LEMMA StepReadAndShow == ASSUME LineInv, NEW c \in Clients, ReadAndShow(c) PROVE LineInv'
<1>1. /\ LTypeOK /\ pc \notin batch /\ GoneSilent /\ Balanced
      /\ pc = "events" /\ pc' = pc /\ gone' = gone /\ batch' = batch \ {c} /\ buf' = buf
      /\ resets' = resets
      /\ written' = written
  BY DEF LineInv, ReadAndShow
<1>2. pc' \notin batch'
  BY <1>1
<1>3. CASE /\ up[c] = <<>> /\ up' = up /\ answered' = answered
           /\ conn' = [conn EXCEPT ![c] = "closed"] \/ conn' = conn
  <2>1. batch \subseteq {d \in Clients : conn[d] = "open"} \cup {Listen}
        /\ conn \in [Clients -> {"none", "backlog", "open", "closed"}] /\ pc \notin Clients
    BY <1>1, NoClients DEF LTypeOK
  <2>2. batch' \subseteq {d \in Clients : conn'[d] = "open"} \cup {Listen}
        /\ conn' \in [Clients -> {"none", "backlog", "open", "closed"}]
    BY <1>1, <1>3, <2>1
  <2>3. LTypeOK'
    BY <1>1, <1>3, <2>1, <2>2 DEF LTypeOK, ReadAndShow
  <2>4. GoneSilent'
    BY <1>1, <1>3 DEF GoneSilent
  <2>5. \A d \in Clients : InHand(d)' = InHand(d)
    BY <1>1 DEF InHand
  <2>6. Balanced'
    BY <1>1, <1>3, <2>5, BytesKept
  <2> QED
    BY <1>2, <2>3, <2>4, <2>6 DEF LineInv
<1>4. CASE \E k \in Portions(up[c]) :
             /\ answered' = [answered EXCEPT ![c] = @ \o SubSeq(up[c], 1, k)]
             /\ up' = [up EXCEPT ![c] = SubSeq(@, k + 1, Len(@))]
             /\ UNCHANGED conn
  <2>1. PICK k \in Portions(up[c]) :
          /\ answered' = [answered EXCEPT ![c] = @ \o SubSeq(up[c], 1, k)]
          /\ up' = [up EXCEPT ![c] = SubSeq(@, k + 1, Len(@))]
          /\ conn' = conn
    BY <1>4
  <2> DEFINE a == SubSeq(up[c], 1, k)
             b == SubSeq(up[c], k + 1, Len(up[c]))
             x == answered[c] \o a
  <2>2. /\ up[c] \in Seq(Bytes) /\ answered[c] \in Seq(Bytes)
        /\ up \in [Clients -> Seq(Bytes)] /\ answered \in [Clients -> Seq(Bytes)]
    BY <1>1 DEF LTypeOK
  <2>3. k \in 1 .. Len(up[c])
    BY <2>2, PortionOf
  <2>4. a \in Seq(Bytes) /\ b \in Seq(Bytes)
    BY <2>2, <2>3, SplitIs
  <2>5. \A ch : Count(up[c], ch) = Count(a, ch) + Count(b, ch)
    BY <2>2, <2>3, CountSplit
  <2>6. /\ Glued(x, answered[c], a)
        /\ answered' = [answered EXCEPT ![c] = x] /\ up' = [up EXCEPT ![c] = b]
    BY <2>1, Zenon DEF Glued
  <2> HIDE DEF a, b, x
  <2>7. x \in Seq(Bytes)
    BY <2>2, <2>4, <2>6, ConcatIs
  <2>8. \A ch : Count(x, ch) = Count(answered[c], ch) + Count(a, ch)
    BY <2>2, <2>4, <2>6, CountConcat
  <2>9. /\ up' \in [Clients -> Seq(Bytes)] /\ up'[c] = b
        /\ answered' \in [Clients -> Seq(Bytes)] /\ answered'[c] = x
        /\ \A d \in Clients : d # c => up'[d] = up[d] /\ answered'[d] = answered[d]
    BY <2>2, <2>4, <2>6, <2>7
  <2>10. LTypeOK'
    BY <1>1, <2>1, <2>9 DEF LTypeOK, ReadAndShow
  <2>11. up[c] # <<>>
    BY <2>2, <2>3
  <2>12. GoneSilent'
    <3>1. c \notin gone \ resets /\ gone \subseteq Clients
      BY <1>1, <2>11 DEF GoneSilent, LTypeOK
    <3> QED
      BY <1>1, <2>9, <3>1 DEF GoneSilent
  <2>13. ASSUME NEW d \in Clients \ resets PROVE Even(d)'
    <3>1. Even(d) /\ InHand(d)' = InHand(d)
      BY <1>1 DEF Balanced, InHand
    <3>2. CASE d # c
      <4>1. answered'[d] = answered[d] /\ up'[d] = up[d]
        BY <2>9, <3>2
      <4> QED
        BY <1>1, <3>1, <4>1, EvenKept
    <3>3. CASE d = c
      <4>1. \A ch : /\ Count(InHand(c), ch) \in Nat /\ Count(a, ch) \in Nat /\ Count(b, ch) \in Nat
                     /\ Count(answered[c], ch) \in Nat
        BY <1>1, <2>4, CountNat, Streams
      <4>2. \A ch \in Bytes :
              Count(written[c], ch) = Count(answered[c], ch) + Count(InHand(c), ch) + Count(up[c], ch)
        BY <3>1, <3>3 DEF Even
      <4>3. \A ch \in Bytes :
              Count(written[c], ch) = Count(x, ch) + Count(InHand(c), ch) + Count(b, ch)
        BY <2>5, <2>8, <4>1, <4>2
      <4>4. \A ch \in Bytes :
              Count(written'[c], ch) = Count(answered'[c], ch) + Count(InHand(c)', ch) + Count(up'[c], ch)
        BY <1>1, <2>9, <3>1, <3>3, <4>3
      <4> QED
        BY <3>3, <4>4, Zenon DEF Even, Count
    <3> QED
      BY <3>2, <3>3
  <2> QED
    BY <1>1, <1>2, <2>10, <2>12, <2>13 DEF LineInv, Balanced
<1> QED
  BY <1>3, <1>4 DEF ReadAndShow

LEMMA StepConnect == ASSUME LineInv, NEW c \in Clients, Connect(c) PROVE LineInv'
<1>1. /\ LTypeOK /\ pc \notin batch /\ GoneSilent /\ Balanced
      /\ pc' = pc /\ buf' = buf /\ up' = up /\ gone' = gone
      /\ resets' = resets
      /\ written' = written /\ answered' = answered /\ batch' = batch
  BY DEF LineInv, Connect
<1>2. LTypeOK'
  <2>1. \A d \in Clients : conn[d] = "open" => conn'[d] = "open"
    BY <1>1 DEF Connect, LTypeOK
  <2>2. conn' \in [Clients -> {"none", "backlog", "open", "closed"}]
    BY <1>1 DEF Connect, LTypeOK
  <2> QED
    BY <1>1, <2>1, <2>2 DEF LTypeOK, Connect
<1>3. \A d \in Clients : InHand(d)' = InHand(d)
  BY <1>1 DEF InHand
<1>4. Balanced'
  BY <1>1, <1>3, BytesKept
<1> QED
  BY <1>1, <1>2, <1>4 DEF LineInv, GoneSilent

LEMMA StepInterrupt == ASSUME LineInv, NEW c \in Clients, Interrupt(c) PROVE LineInv'
<1>1. /\ LTypeOK /\ pc \notin batch /\ GoneSilent /\ Balanced
      /\ pc' = pc /\ buf' = buf /\ up' = up /\ gone' = gone \cup {c} /\ resets' = resets
      /\ written' = written /\ answered' = answered /\ batch' = batch
      /\ pc # c /\ up[c] = <<>>
  BY DEF LineInv, Interrupt
<1>2. LTypeOK'
  BY <1>1 DEF LTypeOK, Interrupt
<1>3. GoneSilent'
  BY <1>1 DEF GoneSilent
<1>4. \A d \in Clients : InHand(d)' = InHand(d)
  BY <1>1 DEF InHand
<1>5. Balanced'
  BY <1>1, <1>4, BytesKept
<1> QED
  BY <1>1, <1>2, <1>3, <1>5 DEF LineInv

\* What a reset leaves of the streams.
LEMMA ResetStream ==
  ASSUME up \in [Clients -> Seq(Bytes)], NEW c \in Clients, Reset(c)
  PROVE  up' \in [Clients -> Seq(Bytes)] /\ \A d \in Clients \ {c} : up'[d] = up[d]
<1>1. PICK k \in {0} \cup Portions(up[c]) : up' = [up EXCEPT ![c] = SubSeq(up[c], 1, k)]
  BY DEF Reset
<1>2. SubSeq(up[c], 1, k) \in Seq(Bytes)
  <2>1. CASE k = 0
    <3>1. SubSeq(up[c], 1, 0) = <<>>
      BY SubSeqEmpty
    <3> QED
      BY <2>1, <3>1
  <2>2. CASE k \in Portions(up[c])
    BY <2>2, PortionOf, SplitIs
  <2> QED
    BY <2>1, <2>2
<1> QED
  BY <1>1, <1>2

LEMMA StepReset == ASSUME LineInv, NEW c \in Clients, Reset(c) PROVE LineInv'
<1>1. /\ LTypeOK /\ pc \notin batch /\ GoneSilent /\ Balanced
      /\ pc' = pc /\ buf' = buf
      /\ gone' = gone \cup {c} /\ resets' = resets \cup {c}
      /\ written' = written /\ answered' = answered /\ batch' = batch
  BY DEF LineInv, Reset
<1>2. up' \in [Clients -> Seq(Bytes)] /\ \A d \in Clients \ {c} : up'[d] = up[d]
  BY <1>1, ResetStream DEF LTypeOK
<1>3. LTypeOK'
  BY <1>1, <1>2 DEF LTypeOK, Reset
<1>4. GoneSilent'
  BY <1>1, <1>2 DEF GoneSilent, LTypeOK
<1>5. \A d \in Clients : InHand(d)' = InHand(d)
  BY <1>1 DEF InHand
<1>6. \A d \in Clients \ resets' : Even(d)'
  <2> SUFFICES ASSUME NEW d \in Clients \ resets' PROVE Even(d)'
    OBVIOUS
  <2>1. d \in Clients \ resets /\ up'[d] = up[d] /\ Even(d)
    BY <1>1, <1>2 DEF Balanced
  <2> QED
    BY <1>1, <1>5, <2>1, EvenKept, Zenon
<1> QED
  BY <1>1, <1>3, <1>4, <1>6 DEF LineInv, Balanced

LEMMA StepShow == ASSUME LineInv, NEW c \in Clients, Show(c) PROVE LineInv'
<1>1. /\ LTypeOK /\ pc \notin batch /\ GoneSilent /\ Balanced
      /\ pc' = pc /\ buf' = buf /\ up' = up /\ gone' = gone /\ conn' = conn
      /\ resets' = resets
      /\ written' = written /\ answered' = answered /\ batch' = batch
      /\ asks[c] # None /\ asks' = [asks EXCEPT ![c] = None]
      /\ program' = program /\ pieces' = pieces /\ typed' = typed
  BY DEF LineInv, Show
<1>2. PICK k \in Portions(down[c]) :
        /\ shown' = [shown EXCEPT ![c] = SubSeq(down[c], 1, k)
                                            \o SubSeq(Sent(asks[c]), k + 1, Len(asks[c]) + 2)]
        /\ down' = [down EXCEPT ![c] = SubSeq(@, k + 1, Len(@))]
  BY DEF Show
<1>3. /\ down[c] \in Seq(Bytes) /\ down \in [Clients -> Seq(Bytes)]
      /\ shown \in [Clients -> Seq(Bytes)] /\ asks \in [Clients -> Lines \cup {None}]
      /\ asks[c] \in Lines
  BY <1>1 DEF LTypeOK
<1>4. k \in 1 .. Len(down[c])
  BY <1>3, PortionOf
<1> DEFINE a == SubSeq(down[c], 1, k)
           b == SubSeq(down[c], k + 1, Len(down[c]))
           t == Sent(asks[c])
           e == SubSeq(t, k + 1, Len(asks[c]) + 2)
           x == a \o e
<1>5. a \in Seq(Bytes) /\ b \in Seq(Bytes)
  BY <1>3, <1>4, SplitIs
<1>6. e \in Seq(Bytes)
  <2>1. t \in Seq(Bytes) /\ Len(t) = Len(asks[c]) + 2 /\ Len(asks[c]) \in Nat
    BY <1>3, LineAssumption, SentIs
  <2> HIDE DEF t
  <2>2. \A i \in k + 1 .. Len(asks[c]) + 2 : t[i] \in Bytes
    BY <1>3, <1>4, <2>1
  <2>3. k + 1 \in Int /\ Len(asks[c]) + 2 \in Int
    BY <1>4, <2>1
  <2> QED
    BY <2>2, <2>3, SubSeqProperties, Zenon
<1>7. Glued(x, a, e) /\ shown' = [shown EXCEPT ![c] = x] /\ down' = [down EXCEPT ![c] = b]
  BY <1>2, Zenon DEF Glued
<1> HIDE DEF a, b, t, e, x
<1>8. x \in Seq(Bytes)
  BY <1>5, <1>6, <1>7, ConcatIs
<1>9. shown' \in [Clients -> Seq(Bytes)] /\ down' \in [Clients -> Seq(Bytes)]
      /\ asks' \in [Clients -> Lines \cup {None}]
  BY <1>1, <1>3, <1>5, <1>7, <1>8
<1>10. LTypeOK'
  BY <1>1, <1>9 DEF LTypeOK
<1>11. \A d \in Clients : InHand(d)' = InHand(d)
  BY <1>1 DEF InHand
<1>12. Balanced'
  BY <1>1, <1>11, BytesKept
<1> QED
  BY <1>1, <1>10, <1>12 DEF LineInv, GoneSilent

LEMMA StepType ==
  ASSUME LineInv, NEW c \in Clients, NEW l \in Lines, Type(c, l) PROVE LineInv'
<1>1. /\ LTypeOK /\ pc \notin batch /\ GoneSilent /\ Balanced
      /\ pc' = pc /\ buf' = buf /\ gone' = gone /\ conn' = conn /\ down' = down /\ shown' = shown
      /\ resets' = resets
      /\ answered' = answered /\ batch' = batch /\ program' = program /\ pieces' = pieces
      /\ c \notin gone /\ asks' = [asks EXCEPT ![c] = l] /\ typed < MaxLines /\ typed' = typed + 1
  BY DEF LineInv, Type
<1> DEFINE t == Sent(l)
           x == up[c] \o t
           y == written[c] \o t
<1>2. /\ up \in [Clients -> Seq(Bytes)] /\ written \in [Clients -> Seq(Bytes)]
      /\ up[c] \in Seq(Bytes) /\ written[c] \in Seq(Bytes)
      /\ asks \in [Clients -> Lines \cup {None}]
  BY <1>1 DEF LTypeOK
<1>3. t \in Seq(Bytes)
  BY LineAssumption, SentIs
<1>4. /\ Glued(x, up[c], t) /\ Glued(y, written[c], t)
      /\ up' = [up EXCEPT ![c] = x] /\ written' = [written EXCEPT ![c] = y]
  BY Zenon DEF Glued, Type
<1> HIDE DEF t, x, y
<1>5. x \in Seq(Bytes) /\ y \in Seq(Bytes)
  BY <1>2, <1>3, <1>4, ConcatIs
<1>6. \A ch : /\ Count(x, ch) = Count(up[c], ch) + Count(t, ch)
              /\ Count(y, ch) = Count(written[c], ch) + Count(t, ch)
  BY <1>2, <1>3, <1>4, CountConcat
<1>7. /\ up' \in [Clients -> Seq(Bytes)] /\ written' \in [Clients -> Seq(Bytes)]
      /\ up'[c] = x /\ written'[c] = y
      /\ \A d \in Clients : d # c => up'[d] = up[d] /\ written'[d] = written[d]
      /\ asks' \in [Clients -> Lines \cup {None}]
  BY <1>1, <1>2, <1>4, <1>5
<1>8. typed' \in 0 .. MaxLines
  BY <1>1, LineAssumption DEF LTypeOK
<1>9. LTypeOK'
  BY <1>1, <1>7, <1>8 DEF LTypeOK
<1>10. GoneSilent'
  <2>1. gone \subseteq Clients
    BY <1>1 DEF LTypeOK
  <2> QED
    BY <1>1, <1>7, <2>1 DEF GoneSilent
<1>11. ASSUME NEW d \in Clients \ resets PROVE Even(d)'
  <2>1. Even(d) /\ InHand(d)' = InHand(d)
    BY <1>1 DEF Balanced, InHand
  <2>2. CASE d # c
    <3>1. up'[d] = up[d] /\ written'[d] = written[d]
      BY <1>7, <2>2
    <3> QED
      BY <1>1, <2>1, <3>1, EvenKept
  <2>3. CASE d = c
    <3>1. \A ch : /\ Count(InHand(c), ch) \in Nat /\ Count(t, ch) \in Nat /\ Count(up[c], ch) \in Nat
                   /\ Count(answered[c], ch) \in Nat
      BY <1>1, <1>3, CountNat, Streams
    <3>2. \A ch \in Bytes :
            Count(written[c], ch) = Count(answered[c], ch) + Count(InHand(c), ch) + Count(up[c], ch)
      BY <2>1, <2>3 DEF Even
    <3>3. \A ch \in Bytes :
            Count(y, ch) = Count(answered[c], ch) + Count(InHand(c), ch) + Count(x, ch)
      BY <1>6, <3>1, <3>2
    <3>4. \A ch \in Bytes :
            Count(written'[c], ch) = Count(answered'[c], ch) + Count(InHand(c)', ch) + Count(up'[c], ch)
      BY <1>1, <1>7, <2>1, <2>3, <3>3
    <3> QED
      BY <2>3, <3>4, Zenon DEF Even, Count
  <2> QED
    BY <2>2, <2>3
<1> QED
  BY <1>1, <1>9, <1>10, <1>11 DEF LineInv, Balanced

LEMMA InitLineInv == LInit => LineInv
<1> SUFFICES ASSUME LInit PROVE LineInv
  OBVIOUS
<1>1. LTypeOK
  BY LineAssumption DEF LInit, LTypeOK
<1>2. pc \notin batch /\ GoneSilent
  BY DEF LInit, GoneSilent
<1>3. ASSUME NEW c \in Clients \ resets PROVE Even(c)
  <2>1. written[c] = <<>> /\ answered[c] = <<>> /\ InHand(c) = <<>> /\ up[c] = <<>>
    BY DEF LInit, InHand
  <2>2. \A ch \in Bytes : Count(<<>>, ch) = 0
    BY CountNone
  <2>3. \A ch \in Bytes : Count(<<>>, ch) = Count(<<>>, ch) + Count(<<>>, ch) + Count(<<>>, ch)
    BY <2>2
  <2> QED
    BY <2>1, <2>3, Zenon DEF Even
<1> QED
  BY <1>1, <1>2, <1>3 DEF LineInv, Balanced

LEMMA NextLineInv == LineInv /\ [LNext]_lvars => LineInv'
<1> SUFFICES ASSUME LineInv, [LNext]_lvars PROVE LineInv'
  OBVIOUS
<1>1. CASE UNCHANGED lvars
  <2>1. LTypeOK' /\ pc' \notin batch' /\ GoneSilent'
    BY <1>1 DEF lvars, LineInv, LTypeOK, GoneSilent
  <2>2. \A c \in Clients : InHand(c)' = InHand(c)
    BY <1>1 DEF lvars, InHand
  <2>3. Balanced'
    BY <1>1, <2>2, BytesKept DEF lvars, LineInv
  <2> QED
    BY <2>1, <2>3 DEF LineInv
<1>2. CASE Server
  BY <1>2, StepEpollWait, StepEventsDone, StepAccept, StepHandle, StepRead, StepReadFails,
     StepReply, StepKilled, StepHangUp, StepReadAndShow DEF Server
<1>3. CASE \E c \in Clients : Connect(c) \/ Show(c) \/ Interrupt(c) \/ Reset(c)
  BY <1>3, StepConnect, StepShow, StepInterrupt, StepReset
<1>4. CASE \E c \in Clients, l \in Lines : Type(c, l)
  BY <1>4, StepType
<1> QED
  BY <1>1, <1>2, <1>3, <1>4, Zenon DEF LNext

LEMMA LineInvariance == LSpec => []LineInv
BY InitLineInv, NextLineInv, PTL DEF LSpec

\* The servers' and clients' variables keep their types; in particular what the
\* server reads from, or has still to handle, is an open connection.
THEOREM LineTypes == LSpec => []LTypeOK
<1>1. LineInv => LTypeOK
  BY DEF LineInv
<1> QED
  BY <1>1, LineInvariance, PTL

LEMMA BalanceIs == LTypeOK /\ Balanced => NothingLost
<1> SUFFICES ASSUME LTypeOK, Balanced, NEW c \in Clients \ resets, NEW ch \in Bytes
             PROVE  Count(written[c], ch)
                      = Count(answered[c], ch) + Count((IF pc = c THEN buf ELSE <<>>) \o up[c], ch)
  BY Zenon DEF NothingLost
<1> DEFINE rest == (IF pc = c THEN buf ELSE <<>>) \o up[c]
<1>1. Glued(rest, InHand(c), up[c])
  BY Zenon DEF Glued, InHand
<1> HIDE DEF rest
<1>2. InHand(c) \in Seq(Bytes) /\ up[c] \in Seq(Bytes)
  BY Streams
<1>3. Count(rest, ch) = Count(InHand(c), ch) + Count(up[c], ch)
  BY <1>1, <1>2, CountConcat
<1>4. /\ Count(InHand(c), ch) \in Nat /\ Count(up[c], ch) \in Nat /\ Count(answered[c], ch) \in Nat
      /\ Count(written[c], ch) = Count(answered[c], ch) + Count(InHand(c), ch) + Count(up[c], ch)
  BY Streams DEF Balanced, Even
<1>5. Count(written[c], ch) = Count(answered[c], ch) + Count(rest, ch)
  BY <1>3, <1>4
<1> QED
  BY <1>5, Zenon DEF rest

\* However TCP splits the lines and handle() and get_line() serve the clients,
\* no byte is lost, doubled or given to another client, but of clients whose
\* connection is reset.
THEOREM LinesWhole == LSpec => []NothingLost
<1>1. LineInv => NothingLost
  BY BalanceIs DEF LineInv
<1> QED
  BY <1>1, LineInvariance, PTL

-----------------------------------------------------------------------------
(***************************************************************************)
(* Without pieces the client and the server take turns.                     *)
(***************************************************************************)

LEMMA LettersOnly ==
  /\ nl \notin Letters /\ Lower \subseteq Letters /\ nl \notin Lower
  /\ \A ch \in Letters : Cap(ch) \in Letters /\ (ch \notin Lower => Cap(ch) = ch)
BY DEF nl, Letters, Lower, Cap

LEMMA NoneIs == None \notin Lines
<1>1. None[1] \notin Letters /\ Len(None) = 1
  BY DEF None, Letters, Lower
<1>2. ASSUME None \in Seq(Letters) PROVE FALSE
  BY <1>1, <1>2
<1> QED
  BY <1>2, LineAssumption

\* upper() answers with the line in capitals.
LEMMA UpperSent ==
  ASSUME NEW l \in Seq(Letters)
  PROVE  upper(Sent(l)) = Sent(UpperCase(l))
<1> DEFINE n == Len(l)
           s == Sent(l)
           m == UpperCase(l)
           t == Sent(m)
           r == upper(s)
<1>1. n \in Nat /\ \A i \in 1 .. n : l[i] \in Letters
  OBVIOUS
<1>2. m \in Seq(Letters) /\ Len(m) = n /\ \A i \in 1 .. n : m[i] = Cap(l[i])
  <2>1. \A i \in 1 .. n : Cap(l[i]) \in Letters
    BY <1>1, LettersOnly, Zenon
  <2>2. m = [i \in 1 .. n |-> Cap(l[i])]
    BY Zenon DEF UpperCase
  <2>3. m \in [1 .. n -> Letters] /\ \A i \in 1 .. n : m[i] = Cap(l[i])
    BY <2>1, <2>2, Zenon
  <2> HIDE DEF m
  <2> QED
    BY <1>1, <2>3
<1> HIDE DEF m
<1>3. /\ s \in Seq(Bytes) /\ Len(s) = n + 2
      /\ \A i \in 1 .. n : s[i] = l[i] /\ l[i] \in Letters
      /\ s[n + 1] = nl /\ s[n + 2] = nl
  BY SentIs
<1>4. /\ t \in Seq(Bytes) /\ Len(t) = n + 2
      /\ \A i \in 1 .. n : t[i] = m[i]
      /\ t[n + 1] = nl /\ t[n + 2] = nl
  <2> HIDE DEF n
  <2>1. /\ t \in Seq(Bytes) /\ Len(t) = Len(m) + 2
        /\ \A i \in 1 .. Len(m) : t[i] = m[i] /\ m[i] \in Letters
        /\ t[Len(m) + 1] = nl /\ t[Len(m) + 2] = nl
    BY <1>2, SentIs
  <2> QED
    BY <1>2, <2>1, Zenon
<1> HIDE DEF s, t, n
<1>5. r = [i \in 1 .. n + 2 |->
             IF s[i] \in Lower /\ \A j \in 1 .. i : s[j] # nl THEN Cap(s[i]) ELSE s[i]]
  BY <1>3, Zenon DEF upper
<1>6. \A i \in 1 .. n + 2 :
        r[i] = IF s[i] \in Lower /\ \A j \in 1 .. i : s[j] # nl THEN Cap(s[i]) ELSE s[i]
  BY <1>5, Zenon
<1>7. ASSUME NEW i \in 1 .. n + 2 PROVE r[i] = t[i]
  <2> HIDE DEF r
  <2>1. i \in 1 .. n \/ i = n + 1 \/ i = n + 2
    BY <1>1
  <2>2. CASE i \in 1 .. n
    <3>1. \A j \in 1 .. i : j \in 1 .. n
      BY <1>1, <2>2
    <3>2. \A j \in 1 .. i : s[j] # nl
      BY <1>3, <3>1, LettersOnly, Zenon
    <3>3. s[i] = l[i] /\ l[i] \in Letters /\ t[i] = Cap(l[i])
      BY <1>2, <1>3, <1>4, <2>2, Zenon
    <3> QED
      BY <1>6, <3>2, <3>3, LettersOnly, Zenon
  <2>3. CASE i = n + 1 \/ i = n + 2
    <3>1. s[i] = nl /\ t[i] = nl
      BY <1>3, <1>4, <2>3, Zenon
    <3> QED
      BY <1>6, <3>1, LettersOnly, Zenon
  <2> QED
    BY <2>1, <2>2, <2>3
<1>8. t = [i \in 1 .. n + 2 |-> t[i]]
  BY <1>4
<1>9. r = [i \in 1 .. n + 2 |-> r[i]]
  BY <1>5, <1>6, Zenon
<1>10. r = t
  <2> HIDE DEF r
  <2> QED BY <1>7, <1>8, <1>9, Zenon
<1> QED
  BY <1>10, Zenon DEF s, t, m

\* The answer to a line is the one that is meant, and as long as the line.
LEMMA AnswerMeant ==
  ASSUME NEW l \in Lines
  PROVE  /\ Answer(Sent(l)) = Meant(l) /\ Answer(Sent(l)) \in Seq(Bytes)
         /\ Len(Answer(Sent(l))) = Len(l) + 2
<1>1. l \in Seq(Letters)
  BY LineAssumption
<1>2. Sent(l) \in Seq(Bytes) /\ Len(Sent(l)) = Len(l) + 2 /\ Len(l) \in Nat
  BY <1>1, SentIs
<1>3. CASE program = "upper"
  <2>1. Answer(Sent(l)) = upper(Sent(l)) /\ Meant(l) = Sent(UpperCase(l))
    BY <1>3 DEF Answer, Meant
  <2>2. upper(Sent(l)) \in Seq(Bytes) /\ Len(upper(Sent(l))) = Len(Sent(l))
    BY <1>2, UpperIs
  <2> QED
    BY <1>1, <1>2, <2>1, <2>2, UpperSent
<1>4. CASE program # "upper"
  <2>1. Answer(Sent(l)) = Reverse(Sent(l)) /\ Meant(l) = Reverse(Sent(l))
    BY <1>2, <1>4, ReverseIs DEF Answer, Meant
  <2> DEFINE s == Sent(l)
  <2>2. s \in Seq(Bytes)
    BY <1>2
  <2> HIDE DEF s
  <2>3. Reverse(s) \in Seq(Bytes) /\ Len(Reverse(s)) = Len(s)
    BY <2>2 DEF Reverse
  <2> QED
    BY <1>2, <2>1, <2>3 DEF s
<1> QED
  BY <1>3, <1>4

\* nothing is under way between c and the server
Resting(c) == up[c] = <<>> /\ down[c] = <<>> /\ InHand(c) = <<>>

\* A line is written, in the hands of handle() or answered; demo02 leaves it at
\* reading it.
UnderWay(c) ==
  \/ up[c] = Sent(asks[c]) /\ down[c] = <<>> /\ InHand(c) = <<>>
  \/ up[c] = <<>> /\ down[c] = <<>> /\ InHand(c) = Sent(asks[c])
  \/ /\ up[c] = <<>> /\ down[c] = Answer(Sent(asks[c])) /\ InHand(c) = <<>>
     /\ program # "demo02"
  \/ Resting(c) /\ program = "demo02"

TakesTurns(c) == IF asks[c] = None THEN Resting(c) ELSE UnderWay(c)

TurnInv ==
  /\ program = "demo02" => pc \notin Clients
  /\ ~pieces => \A c \in Clients \ resets : TakesTurns(c)

LEMMA AnswerSame ==
  ASSUME NEW c, asks'[c] = asks[c], program' = program
  PROVE  Answer(Sent(asks[c]))' = Answer(Sent(asks[c]))
<1>1. Answer(Sent(asks[c]))'
        = IF program' = "upper" THEN upper(Sent(asks'[c])) ELSE reverse(Sent(asks'[c]))
  BY Zenon DEF Answer, upper, Sent, reverse, Right
<1>2. Answer(Sent(asks[c]))
        = IF program = "upper" THEN upper(Sent(asks[c])) ELSE reverse(Sent(asks[c]))
  BY Zenon DEF Answer
<1>3. Sent(asks'[c]) = Sent(asks[c])
  BY Zenon
<1> QED
  BY <1>1, <1>2, <1>3, Zenon

LEMMA TurnsKept ==
  ASSUME NEW c, TakesTurns(c), up'[c] = up[c], down'[c] = down[c], asks'[c] = asks[c],
         InHand(c)' = InHand(c), program' = program
  PROVE  TakesTurns(c)'
<1>1. /\ Resting(c)' <=> Resting(c)
      /\ Answer(Sent(asks[c]))' = Answer(Sent(asks[c]))
  <2>1. Resting(c)' <=> up'[c] = <<>> /\ down'[c] = <<>> /\ InHand(c)' = <<>>
    BY DEF Resting
  <2>2. Answer(Sent(asks[c]))' = Answer(Sent(asks[c]))
    BY AnswerSame
  <2> QED
    BY <2>1, <2>2, Zenon DEF Resting
<1>2. CASE asks[c] = None
  BY <1>1, <1>2, Zenon DEF TakesTurns
<1>3. CASE asks[c] # None
  <2>1. UnderWay(c)'
    <3>1. UnderWay(c)
      BY <1>3, Zenon DEF TakesTurns
    <3>2. Sent(asks[c])' = Sent(asks[c])
      BY Zenon DEF Sent
    <3> QED
      BY <1>1, <3>1, <3>2, Zenon DEF UnderWay
  <2> QED
    BY <1>3, <2>1, Zenon DEF TakesTurns
<1> QED
  BY <1>2, <1>3

\* Steps that concern c leave the others where they are.
LEMMA OnlyOne ==
  ASSUME \A d \in Clients \ resets : TakesTurns(d), NEW c \in Clients,
         c \notin resets => TakesTurns(c)', program' = program,
         \A d \in Clients : d # c =>
            up'[d] = up[d] /\ down'[d] = down[d] /\ asks'[d] = asks[d] /\ InHand(d)' = InHand(d)
  PROVE  \A d \in Clients \ resets : TakesTurns(d)'
<1> SUFFICES ASSUME NEW d \in Clients \ resets PROVE TakesTurns(d)'
  OBVIOUS
<1>1. CASE d = c
  BY <1>1, Zenon
<1>2. CASE d # c
  BY <1>2, TurnsKept
<1> QED
  BY <1>1, <1>2

\* Nobody moves.
LEMMA NoneMoves ==
  ASSUME TurnInv, pieces' = pieces, program' = program, program = "demo02" => pc' \notin Clients,
         up' = up, down' = down, asks' = asks, resets \subseteq resets',
         \A c \in Clients \ resets : InHand(c)' = InHand(c)
  PROVE  TurnInv'
<1>1. ~pieces => \A c \in Clients \ resets' : TakesTurns(c)'
  BY TurnsKept, Zenon DEF TurnInv
<1> QED
  BY <1>1, Zenon DEF TurnInv

\* The steps that move no bytes of clients whose connections are whole: get_line()
\* has read nothing of such a one when it hangs up.
LEMMA TurnIdle ==
  ASSUME LineInv, TurnInv, NEW c \in Clients,
         \/ Accept(c) \/ Handle(c) \/ ReadFails(c) \/ Killed(c) \/ HangUp(c)
         \/ Connect(c) \/ Interrupt(c) \/ Reset(c)
  PROVE  TurnInv'
<1>1. LTypeOK /\ GoneSilent
  BY DEF LineInv
<1>2. CASE Accept(c) \/ Connect(c) \/ Interrupt(c)
  <2>1. /\ pieces' = pieces /\ program' = program /\ up' = up /\ down' = down /\ asks' = asks
        /\ pc' = pc /\ buf' = buf /\ resets' = resets
    BY <1>2 DEF Accept, Connect, Interrupt
  <2>2. \A d \in Clients : InHand(d)' = InHand(d)
    BY <2>1 DEF InHand
  <2>3. program = "demo02" => pc' \notin Clients
    BY <2>1 DEF TurnInv
  <2> QED
    BY <2>1, <2>2, <2>3, NoneMoves, Zenon
<1>3. CASE Handle(c)
  <2>1. /\ pieces' = pieces /\ program' = program /\ up' = up /\ down' = down /\ asks' = asks
        /\ pc = "events" /\ pc' = c /\ buf' = buf /\ program # "demo02" /\ resets' = resets
    BY <1>3 DEF Handle
  <2>2. \A d \in Clients : InHand(d)' = InHand(d)
    BY <1>1, <2>1, NoClients DEF InHand, LTypeOK
  <2> QED
    BY <2>1, <2>2, NoneMoves, Zenon
<1>4. CASE HangUp(c)
  <2>1. /\ pieces' = pieces /\ program' = program /\ up' = up /\ down' = down /\ asks' = asks
        /\ pc = c /\ pc' = "events" /\ buf' = <<>> /\ c \in gone /\ resets' = resets
    BY <1>4 DEF HangUp
  <2>2. pc' \notin Clients /\ \A d \in Clients \ resets : InHand(d)' = InHand(d)
    BY <1>1, <2>1, NoClients DEF InHand, GoneSilent
  <2> QED
    BY <2>1, <2>2, NoneMoves, Zenon
<1>5. CASE ReadFails(c) \/ Killed(c)
  <2>1. /\ pieces' = pieces /\ program' = program /\ up' = up /\ down' = down /\ asks' = asks
        /\ pc = c /\ pc' \in {c, "killed"} /\ c \in resets /\ resets' = resets
    BY <1>5 DEF ReadFails, Killed
  <2>2. program # "demo02" /\ \A d \in Clients \ resets : InHand(d)' = InHand(d)
    BY <2>1, NoClients DEF InHand, TurnInv
  <2> QED
    BY <2>1, <2>2, NoneMoves, Zenon
<1>6. CASE Reset(c)
  <2>1. /\ pieces' = pieces /\ program' = program /\ down' = down /\ asks' = asks
        /\ pc' = pc /\ buf' = buf /\ resets' = resets \cup {c}
    BY <1>6 DEF Reset
  <2>2. \A d \in Clients : InHand(d)' = InHand(d)
    BY <2>1 DEF InHand
  <2>3. \A d \in Clients \ {c} : up'[d] = up[d]
    BY <1>1, <1>6, ResetStream DEF LTypeOK
  <2>4. ASSUME ~pieces, NEW d \in Clients \ resets' PROVE TakesTurns(d)'
    <3>1. d \in Clients \ {c} /\ TakesTurns(d)
      BY <2>1, <2>4 DEF TurnInv
    <3> QED
      BY <2>1, <2>2, <2>3, <3>1, TurnsKept, Zenon
  <2>5. program' = "demo02" => pc' \notin Clients
    BY <2>1 DEF TurnInv
  <2> QED
    BY <2>1, <2>4, <2>5, Zenon DEF TurnInv
<1> QED
  BY <1>2, <1>3, <1>4, <1>5, <1>6

\* A read that is not in pieces takes everything.
LEMMA TakesAll ==
  ASSUME ~pieces, NEW s \in Seq(Bytes), NEW k \in Portions(s)
  PROVE  /\ k = Len(s) /\ s # <<>> /\ SubSeq(s, 1, k) = s /\ SubSeq(s, k + 1, Len(s)) = <<>>
<1>1. k \in 1 .. Len(s) /\ k = Len(s) /\ Len(s) \in Nat
  BY PortionOf
<1>2. SubSeq(s, 1, Len(s)) = s /\ s # <<>>
  BY <1>1
<1>3. SubSeq(s, k + 1, Len(s)) = <<>>
  <2>1. k + 1 \in Int /\ Len(s) \in Int /\ Len(s) < k + 1
    BY <1>1
  <2> QED
    BY <2>1, SubSeqEmpty, Zenon
<1> QED
  BY <1>1, <1>2, <1>3

LEMMA EmptyFront == ASSUME NEW s \in Seq(Bytes) PROVE <<>> \o s = s
BY ConcatEmptySeq, Zenon

LEMMA TurnRead == ASSUME LineInv, TurnInv, NEW c \in Clients, Read(c) PROVE TurnInv'
<1>1. /\ LTypeOK /\ pc = c /\ pc' = c /\ program' = program /\ pieces' = pieces /\ asks' = asks
      /\ down' = down /\ program # "demo02" /\ resets' = resets
  BY DEF LineInv, Read, TurnInv
<1> SUFFICES ASSUME ~pieces PROVE \A d \in Clients \ resets : TakesTurns(d)'
  BY <1>1, Zenon DEF TurnInv
<1>2. \A d \in Clients \ resets : TakesTurns(d)
  BY Zenon DEF TurnInv
<1>3. PICK k \in Portions(up[c]) :
        /\ buf' = Joined(SubSeq(up[c], 1, k))
        /\ up' = [up EXCEPT ![c] = SubSeq(@, k + 1, Len(@))]
  BY DEF Read
<1>4. up[c] \in Seq(Bytes) /\ up \in [Clients -> Seq(Bytes)]
  BY <1>1 DEF LTypeOK
<1>5. /\ up[c] # <<>> /\ SubSeq(up[c], 1, k) = up[c]
      /\ SubSeq(up[c], k + 1, Len(up[c])) = <<>>
  BY <1>4, TakesAll, Zenon
<1>6. up' = [up EXCEPT ![c] = <<>>]
  BY <1>3, <1>5, Zenon
<1>7. ASSUME c \notin resets PROVE TakesTurns(c)'
  <2>1. /\ asks[c] # None /\ up[c] = Sent(asks[c]) /\ down[c] = <<>> /\ InHand(c) = <<>>
    BY <1>1, <1>2, <1>5, <1>7 DEF TakesTurns, UnderWay, Resting
  <2>2. buf' = Sent(asks[c])
    <3>1. buf = <<>>
      BY <1>1, <2>1 DEF InHand
    <3>2. buf' = <<>> \o up[c]
      BY <1>3, <1>5, <3>1, Zenon DEF Joined
    <3> QED
      BY <1>4, <2>1, <3>2, EmptyFront, Zenon
  <2>3. up'[c] = <<>> /\ down'[c] = <<>> /\ InHand(c)' = Sent(asks'[c]) /\ asks'[c] # None
    BY <1>1, <1>4, <1>6, <2>1, <2>2 DEF InHand
  <2>4. UnderWay(c)'
    BY <2>3, Zenon DEF UnderWay, Sent
  <2> QED
    BY <2>3, <2>4, Zenon DEF TakesTurns
<1>8. \A d \in Clients : d # c => up'[d] = up[d] /\ InHand(d)' = InHand(d)
  BY <1>1, <1>4, <1>6 DEF InHand
<1> QED
  BY <1>1, <1>2, <1>7, <1>8, OnlyOne

LEMMA TurnReply == ASSUME LineInv, TurnInv, NEW c \in Clients, Reply(c) PROVE TurnInv'
<1>1. /\ LTypeOK /\ pc = c /\ pc' = "events" /\ program' = program /\ pieces' = pieces
      /\ asks' = asks /\ up' = up /\ program # "demo02" /\ buf # <<>> /\ buf' = <<>>
      /\ down' = [down EXCEPT ![c] = @ \o Answer(buf)] /\ resets' = resets
  BY DEF LineInv, Reply, TurnInv, LineDone
<1> SUFFICES ASSUME ~pieces PROVE \A d \in Clients \ resets : TakesTurns(d)'
  BY <1>1, Zenon DEF TurnInv
<1>2. \A d \in Clients \ resets : TakesTurns(d)
  BY Zenon DEF TurnInv
<1>3. down \in [Clients -> Seq(Bytes)]
  BY <1>1 DEF LTypeOK
<1>4. ASSUME c \notin resets PROVE TakesTurns(c)'
  <2>1. /\ asks[c] # None /\ up[c] = <<>> /\ down[c] = <<>> /\ buf = Sent(asks[c])
    BY <1>1, <1>2, <1>4 DEF TakesTurns, UnderWay, Resting, InHand
  <2>2. asks[c] \in Lines
    BY <1>1, <2>1 DEF LTypeOK
  <2>3. down' = [down EXCEPT ![c] = Answer(Sent(asks[c]))]
    <3>1. Answer(Sent(asks[c])) \in Seq(Bytes)
      BY <2>2, AnswerMeant
    <3>2. down[c] \o Answer(buf) = Answer(Sent(asks[c]))
      BY <2>1, <3>1, EmptyFront, Zenon
    <3> QED
      BY <1>1, <3>2, Zenon
  <2>4. /\ up'[c] = <<>> /\ down'[c] = Answer(Sent(asks[c])) /\ InHand(c)' = <<>>
        /\ asks'[c] # None /\ program' # "demo02"
    BY <1>1, <1>3, <2>1, <2>3, NoClients DEF InHand
  <2>5. Answer(Sent(asks[c]))' = Answer(Sent(asks[c]))
    BY <1>1, AnswerSame
  <2>6. UnderWay(c)'
    BY <2>4, <2>5, Zenon DEF UnderWay
  <2> QED
    BY <2>4, <2>6, Zenon DEF TakesTurns
<1>5. \A d \in Clients : d # c => down'[d] = down[d] /\ InHand(d)' = InHand(d)
  <2> DEFINE x == down[c] \o Answer(buf)
  <2>1. down' = [down EXCEPT ![c] = x]
    BY <1>1
  <2> HIDE DEF x
  <2> QED
    BY <1>1, <1>3, <2>1, NoClients DEF InHand
<1> QED
  BY <1>1, <1>2, <1>4, <1>5, OnlyOne

LEMMA TurnReadAndShow ==
  ASSUME LineInv, TurnInv, NEW c \in Clients, ReadAndShow(c) PROVE TurnInv'
<1>1. /\ LTypeOK /\ pc = "events" /\ pc' = pc /\ program' = program /\ pieces' = pieces
      /\ asks' = asks /\ down' = down /\ program = "demo02" /\ buf' = buf
      /\ resets' = resets
  BY DEF LineInv, ReadAndShow
<1>2. pc' \notin Clients /\ \A d \in Clients : InHand(d)' = InHand(d) /\ InHand(d) = <<>>
  BY <1>1, NoClients DEF InHand
<1>3. CASE up[c] = <<>> /\ up' = up
  BY <1>1, <1>2, <1>3, NoneMoves, Zenon
<1>4. CASE \E k \in Portions(up[c]) : up' = [up EXCEPT ![c] = SubSeq(@, k + 1, Len(@))]
  <2> SUFFICES ASSUME ~pieces PROVE \A d \in Clients \ resets : TakesTurns(d)'
    BY <1>1, <1>2, Zenon DEF TurnInv
  <2>1. \A d \in Clients \ resets : TakesTurns(d)
    BY Zenon DEF TurnInv
  <2>2. PICK k \in Portions(up[c]) : up' = [up EXCEPT ![c] = SubSeq(@, k + 1, Len(@))]
    BY <1>4
  <2>3. up[c] \in Seq(Bytes) /\ up \in [Clients -> Seq(Bytes)]
    BY <1>1 DEF LTypeOK
  <2>4. up[c] # <<>> /\ SubSeq(up[c], k + 1, Len(up[c])) = <<>>
    BY <2>3, TakesAll, Zenon
  <2>5. up' = [up EXCEPT ![c] = <<>>]
    BY <2>2, <2>4, Zenon
  <2>6. ASSUME c \notin resets PROVE TakesTurns(c)'
    <3>1. asks[c] # None /\ down[c] = <<>>
      BY <2>1, <2>4, <2>6 DEF TakesTurns, UnderWay, Resting
    <3>2. up'[c] = <<>> /\ down'[c] = <<>> /\ InHand(c)' = <<>> /\ asks'[c] # None
      BY <1>1, <1>2, <2>3, <2>5, <3>1
    <3>3. UnderWay(c)'
      BY <1>1, <3>2, Zenon DEF UnderWay, Resting
    <3> QED
      BY <3>2, <3>3, Zenon DEF TakesTurns
  <2>7. \A d \in Clients : d # c => up'[d] = up[d]
    BY <2>3, <2>5
  <2> QED
    BY <1>1, <1>2, <2>1, <2>6, <2>7, OnlyOne
<1>5. \/ up[c] = <<>> /\ up' = up
      \/ \E k \in Portions(up[c]) : up' = [up EXCEPT ![c] = SubSeq(@, k + 1, Len(@))]
  BY Zenon DEF ReadAndShow
<1> QED
  BY <1>3, <1>4, <1>5, Zenon

LEMMA TurnType ==
  ASSUME LineInv, TurnInv, NEW c \in Clients, NEW l \in Lines, Type(c, l) PROVE TurnInv'
<1>1. /\ LTypeOK /\ pc' = pc /\ program' = program /\ pieces' = pieces /\ down' = down
      /\ buf' = buf /\ asks[c] = None /\ asks' = [asks EXCEPT ![c] = l]
      /\ up' = [up EXCEPT ![c] = @ \o Sent(l)] /\ resets' = resets /\ c \notin resets
  BY DEF LineInv, Type, LTypeOK
<1>2. \A d \in Clients : InHand(d)' = InHand(d)
  BY <1>1 DEF InHand
<1> SUFFICES ASSUME ~pieces PROVE \A d \in Clients \ resets : TakesTurns(d)'
  BY <1>1, Zenon DEF TurnInv
<1>3. \A d \in Clients \ resets : TakesTurns(d)
  BY Zenon DEF TurnInv
<1>4. up \in [Clients -> Seq(Bytes)] /\ asks \in [Clients -> Lines \cup {None}]
  BY <1>1 DEF LTypeOK
<1>5. up[c] = <<>> /\ down[c] = <<>> /\ InHand(c) = <<>>
  BY <1>1, <1>3 DEF TakesTurns, Resting
<1>6. up' = [up EXCEPT ![c] = Sent(l)]
  <2>1. Sent(l) \in Seq(Bytes)
    BY LineAssumption, SentIs
  <2>2. up[c] \o Sent(l) = Sent(l)
    BY <1>5, <2>1, EmptyFront, Zenon
  <2> QED
    BY <1>1, <2>2, Zenon
<1> DEFINE t == Sent(l)
<1>7. up' = [up EXCEPT ![c] = t]
  BY <1>6
<1> HIDE DEF t
<1>8. TakesTurns(c)'
  <2>1. /\ up'[c] = t /\ down'[c] = <<>> /\ InHand(c)' = <<>>
        /\ asks'[c] = l /\ asks'[c] # None
    BY <1>1, <1>2, <1>4, <1>5, <1>7, NoneIs
  <2>2. UnderWay(c)'
    BY <2>1, Zenon DEF UnderWay, Sent, t
  <2> QED
    BY <2>1, <2>2, Zenon DEF TakesTurns
<1>9. \A d \in Clients : d # c => up'[d] = up[d] /\ asks'[d] = asks[d]
  BY <1>1, <1>4, <1>7
<1> QED
  BY <1>1, <1>2, <1>3, <1>8, <1>9, OnlyOne

\* What Show finds, and what it prints.
LEMMA ShowIs ==
  ASSUME LineInv, TurnInv, ~pieces, NEW c \in Clients, Show(c)
  PROVE  /\ asks[c] \in Lines /\ up[c] = <<>> /\ InHand(c) = <<>>
         /\ down' = [down EXCEPT ![c] = <<>>] /\ shown'[c] = Meant(asks[c])
<1>1. LTypeOK /\ TakesTurns(c) /\ asks[c] # None
  <2>1. LTypeOK /\ asks[c] # None /\ c \notin resets
    BY DEF LineInv, LTypeOK, Show
  <2> QED
    BY <2>1, Zenon DEF TurnInv
<1>2. PICK k \in Portions(down[c]) :
        /\ shown' = [shown EXCEPT ![c] = SubSeq(down[c], 1, k)
                                            \o SubSeq(Sent(asks[c]), k + 1, Len(asks[c]) + 2)]
        /\ down' = [down EXCEPT ![c] = SubSeq(@, k + 1, Len(@))]
  BY DEF Show
<1>3. /\ down[c] \in Seq(Bytes) /\ asks[c] \in Lines /\ DOMAIN shown = Clients
  BY <1>1 DEF LTypeOK
<1>4. /\ k = Len(down[c]) /\ down[c] # <<>> /\ SubSeq(down[c], 1, k) = down[c]
      /\ SubSeq(down[c], k + 1, Len(down[c])) = <<>>
  BY <1>3, TakesAll, Zenon
<1>5. down[c] = Answer(Sent(asks[c])) /\ up[c] = <<>> /\ InHand(c) = <<>>
  BY <1>1, <1>4, Zenon DEF TakesTurns, UnderWay, Resting
<1>6. down[c] = Meant(asks[c]) /\ k = Len(asks[c]) + 2 /\ k \in Nat
  <2>1. /\ Answer(Sent(asks[c])) = Meant(asks[c])
        /\ Len(Answer(Sent(asks[c]))) = Len(asks[c]) + 2
    BY <1>3, AnswerMeant
  <2>2. Len(down[c]) \in Nat
    BY <1>3
  <2> QED
    BY <1>4, <1>5, <2>1, <2>2, Zenon
<1>7. SubSeq(Sent(asks[c]), k + 1, Len(asks[c]) + 2) = <<>>
  <2>1. k + 1 \in Int /\ Len(asks[c]) + 2 \in Int /\ Len(asks[c]) + 2 < k + 1
    <3> DEFINE n == Len(asks[c]) + 2
    <3>1. k = n /\ k \in Nat
      BY <1>6
    <3> HIDE DEF n
    <3>2. k + 1 \in Int /\ n \in Int /\ n < k + 1
      BY <3>1
    <3> QED BY <3>2 DEF n
  <2> QED
    BY <2>1, SubSeqEmpty, Zenon
<1>8. down[c] \o <<>> = down[c]
  BY <1>3, ConcatEmptySeq, Zenon
<1>9. shown' = [shown EXCEPT ![c] = Meant(asks[c])]
  BY <1>2, <1>4, <1>6, <1>7, <1>8, Zenon
<1>10. shown'[c] = Meant(asks[c])
  BY <1>3, <1>9, Zenon
<1>11. down' = [down EXCEPT ![c] = <<>>]
  BY <1>2, <1>4, Zenon
<1> QED
  BY <1>3, <1>5, <1>10, <1>11

LEMMA TurnShow == ASSUME LineInv, TurnInv, NEW c \in Clients, Show(c) PROVE TurnInv'
<1>1. /\ LTypeOK /\ pc' = pc /\ program' = program /\ pieces' = pieces /\ up' = up
      /\ buf' = buf /\ asks' = [asks EXCEPT ![c] = None] /\ resets' = resets
  BY DEF LineInv, Show
<1>2. \A d \in Clients : InHand(d)' = InHand(d)
  BY <1>1 DEF InHand
<1> SUFFICES ASSUME ~pieces PROVE \A d \in Clients \ resets : TakesTurns(d)'
  BY <1>1, Zenon DEF TurnInv
<1>3. \A d \in Clients \ resets : TakesTurns(d)
  BY Zenon DEF TurnInv
<1>4. down \in [Clients -> Seq(Bytes)] /\ asks \in [Clients -> Lines \cup {None}]
  BY <1>1 DEF LTypeOK
<1>5. up[c] = <<>> /\ InHand(c) = <<>> /\ down' = [down EXCEPT ![c] = <<>>]
  BY ShowIs
<1>6. TakesTurns(c)'
  <2>1. /\ up'[c] = <<>> /\ down'[c] = <<>> /\ InHand(c)' = <<>> /\ asks'[c] = None
    BY <1>1, <1>2, <1>4, <1>5
  <2>2. Resting(c)'
    BY <2>1, Zenon DEF Resting
  <2> QED
    BY <2>1, <2>2, Zenon DEF TakesTurns
<1>7. \A d \in Clients : d # c => down'[d] = down[d] /\ asks'[d] = asks[d]
  BY <1>1, <1>4, <1>5
<1> QED
  BY <1>1, <1>2, <1>3, <1>6, <1>7, OnlyOne

LEMMA InitTurnInv == LInit => TurnInv
<1> SUFFICES ASSUME LInit PROVE TurnInv
  OBVIOUS
<1>1. pc \notin Clients
  BY NoClients DEF LInit
<1>2. ASSUME NEW c \in Clients PROVE TakesTurns(c)
  <2>1. asks[c] = None /\ up[c] = <<>> /\ down[c] = <<>> /\ InHand(c) = <<>>
    BY DEF LInit, InHand
  <2> QED
    BY <2>1, Zenon DEF TakesTurns, Resting
<1> QED
  BY <1>1, <1>2, Zenon DEF TurnInv

LEMMA NextTurnInv == LineInv /\ TurnInv /\ [LNext]_lvars => TurnInv'
<1> SUFFICES ASSUME LineInv, TurnInv, [LNext]_lvars PROVE TurnInv'
  OBVIOUS
<1>1. CASE UNCHANGED lvars
  <2>1. /\ pieces' = pieces /\ program' = program /\ up' = up /\ down' = down /\ asks' = asks
        /\ pc' = pc /\ buf' = buf /\ resets' = resets
    BY <1>1 DEF lvars
  <2>2. (program = "demo02" => pc' \notin Clients) /\ \A d \in Clients : InHand(d)' = InHand(d)
    BY <2>1 DEF InHand, TurnInv
  <2> QED
    BY <2>1, <2>2, NoneMoves, Zenon
<1>2. CASE EpollWait \/ EventsDone
  <2>1. /\ pieces' = pieces /\ program' = program /\ up' = up /\ down' = down /\ asks' = asks
        /\ pc \in {"epoll_wait", "events"} /\ pc' \in {"epoll_wait", "events"} /\ buf' = buf
        /\ resets' = resets
    BY <1>2 DEF EpollWait, EventsDone
  <2>2. pc' \notin Clients /\ \A d \in Clients : InHand(d)' = InHand(d)
    BY <2>1, NoClients DEF InHand
  <2> QED
    BY <2>1, <2>2, NoneMoves, Zenon
<1>3. CASE \E c \in Clients :
             \/ Accept(c) \/ Handle(c) \/ ReadFails(c) \/ Killed(c) \/ HangUp(c)
             \/ Connect(c) \/ Interrupt(c) \/ Reset(c)
  BY <1>3, TurnIdle
<1>4. CASE \E c \in Clients : Read(c) \/ Reply(c) \/ ReadAndShow(c) \/ Show(c)
  BY <1>4, TurnRead, TurnReply, TurnReadAndShow, TurnShow
<1>5. CASE \E c \in Clients, l \in Lines : Type(c, l)
  BY <1>5, TurnType
<1> QED
  BY <1>1, <1>2, <1>3, <1>4, <1>5, Zenon DEF LNext, Server

\* As long as TCP keeps writes together, what a client prints is the answer to
\* the line it has just sent, for any number of clients that the server serves
\* between its reads.
THEOREM AnswersInStep == LSpec => InStep
<1>1. LInit => TurnInv
  BY InitTurnInv
<1>2. LineInv /\ TurnInv /\ [LNext]_lvars => TurnInv'
  BY NextTurnInv
<1> DEFINE Right_ == \A c \in Clients :
             ~pieces /\ asks[c] # None /\ asks'[c] = None => shown'[c] = Meant(asks[c])
<1>3. LineInv /\ TurnInv /\ [LNext]_lvars => [Right_]_lvars
  <2> SUFFICES ASSUME LineInv, TurnInv, LNext, NEW c \in Clients, ~pieces, asks[c] # None,
                      asks'[c] = None
               PROVE  shown'[c] = Meant(asks[c])
    BY Zenon
  <2>1. asks \in [Clients -> Lines \cup {None}]
    BY DEF LineInv, LTypeOK
  <2>2. CASE Server
    <3>1. asks' = asks
      BY <2>2 DEF Server, EpollWait, EventsDone, Accept, Handle, Read, ReadFails, Reply, Killed,
                  HangUp, ReadAndShow
    <3> QED
      BY <3>1
  <2>3. CASE \E d \in Clients : Connect(d) \/ Interrupt(d) \/ Reset(d)
    <3>1. asks' = asks
      BY <2>3 DEF Connect, Interrupt, Reset
    <3> QED
      BY <3>1
  <2>4. CASE \E d \in Clients : Show(d)
    <3>1. PICK d \in Clients : Show(d)
      BY <2>4
    <3>2. asks' = [asks EXCEPT ![d] = None]
      BY <3>1 DEF Show
    <3>3. d = c
      BY <2>1, <3>2
    <3> QED
      BY <3>1, <3>3, ShowIs
  <2>5. CASE \E d \in Clients, l \in Lines : Type(d, l)
    <3>1. PICK d \in Clients, l \in Lines : Type(d, l)
      BY <2>5
    <3>2. asks' = [asks EXCEPT ![d] = l] /\ l # None
      BY <3>1, NoneIs DEF Type
    <3> QED
      BY <2>1, <3>2
  <2> QED
    BY <2>2, <2>3, <2>4, <2>5, Zenon DEF LNext
<1> QED
  BY <1>1, <1>2, <1>3, LineInvariance, PTL DEF LSpec, InStep

=============================================================================
