---------------------------- MODULE SharedLemmas ----------------------------
(***************************************************************************)
(* Lemmas that the proofs of several components rest on: sequences that    *)
(* lose one element, the operators on a channel, and induction over the    *)
(* natural numbers as a statement about sets.                              *)
(***************************************************************************)
EXTENDS PermitGate, ChannelOps, FiniteSetTheorems, SequenceTheorems, TLAPS

\* Splicing one element out keeps a sequence of the same elements.
LEMMA SpliceOutProperties ==
  ASSUME NEW S, NEW s \in Seq(S), NEW k \in 1..Len(s)
  PROVE  /\ SpliceOut(s, k) \in Seq(S)
         /\ Len(SpliceOut(s, k)) = Len(s) - 1
         /\ \A i \in 1..(Len(s) - 1) :
              SpliceOut(s, k)[i] = IF i < k THEN s[i] ELSE s[i + 1]
  BY DEF SpliceOut

\* Out of a sequence without repetitions exactly one element goes, and the
\* rest stays without repetitions.
LEMMA SpliceOutElements ==
  ASSUME NEW S, NEW s \in Seq(S), NEW k \in 1..Len(s),
         \A i, j \in 1..Len(s) : s[i] = s[j] => i = j
  PROVE  LET v == SpliceOut(s, k)
         IN  /\ \A b : (\E i \in 1..Len(v) : v[i] = b)
                       <=> b # s[k] /\ \E i \in 1..Len(s) : s[i] = b
             /\ \A i, j \in 1..Len(v) : v[i] = v[j] => i = j
<1> DEFINE v == SpliceOut(s, k)
<1>1. /\ Len(v) = Len(s) - 1
      /\ \A i \in 1..(Len(s) - 1) : v[i] = IF i < k THEN s[i] ELSE s[i + 1]
  BY SpliceOutProperties
<1>2. Len(s) \in Nat
  OBVIOUS
<1> HIDE DEF v
<1>3. ASSUME NEW b, NEW i \in 1..Len(v), v[i] = b
      PROVE  b # s[k] /\ \E j \in 1..Len(s) : s[j] = b
  <2>1. CASE i < k
    <3>1. i \in 1..Len(s) /\ s[i] = b /\ i # k
      BY <1>1, <1>2, <1>3, <2>1
    <3> QED
      BY <3>1
  <2>2. CASE ~(i < k)
    <3>1. i + 1 \in 1..Len(s) /\ s[i + 1] = b /\ i + 1 # k
      BY <1>1, <1>2, <1>3, <2>2
    <3> QED
      BY <3>1
  <2> QED
    BY <2>1, <2>2
<1>4. ASSUME NEW b, b # s[k], NEW j \in 1..Len(s), s[j] = b
      PROVE  \E i \in 1..Len(v) : v[i] = b
  <2>1. CASE j < k
    <3>1. j \in 1..Len(v) /\ v[j] = b
      BY <1>1, <1>2, <1>4, <2>1
    <3> QED
      BY <3>1
  <2>2. CASE ~(j < k)
    <3>1. j - 1 \in 1..Len(v) /\ v[j - 1] = b
      BY <1>1, <1>2, <1>4, <2>2
    <3> QED
      BY <3>1
  <2> QED
    BY <2>1, <2>2
<1>5. ASSUME NEW i \in 1..Len(v), NEW j \in 1..Len(v), v[i] = v[j]
      PROVE  i = j
  BY <1>1, <1>2, <1>5
<1> QED
  BY <1>3, <1>4, <1>5 DEF v

\* Shifting the head off is splicing out the first place.
LEMMA TailIsSpliceOut ==
  ASSUME NEW S, NEW s \in Seq(S), s # <<>>
  PROVE  Tail(s) = SpliceOut(s, 1) /\ Head(s) = s[1] /\ 1 \in 1..Len(s)
<1>1. Len(s) \in Nat /\ 1 \in 1..Len(s) /\ Head(s) = s[1]
  OBVIOUS
<1>2. /\ Tail(s) \in Seq(S)
      /\ Len(Tail(s)) = Len(s) - 1
      /\ \A i \in 1..Len(Tail(s)) : Tail(s)[i] = s[i + 1]
  BY HeadTailProperties
<1>3. /\ SpliceOut(s, 1) \in Seq(S)
      /\ Len(SpliceOut(s, 1)) = Len(s) - 1
      /\ \A i \in 1..(Len(s) - 1) : SpliceOut(s, 1)[i] = s[i + 1]
  BY <1>1, SpliceOutProperties
<1>4. Tail(s) = SpliceOut(s, 1)
  BY <1>2, <1>3, SeqEqual
<1> QED
  BY <1>1, <1>4

\* The splice of the event channel removes the same element.
LEMMA RemoveAtIsSpliceOut ==
  ASSUME NEW S, NEW s \in Seq(S), NEW k \in 1..Len(s)
  PROVE  RemoveAt(s, k) = SpliceOut(s, k)
<1> DEFINE front == SubSeq(s, 1, k - 1)
           back == SubSeq(s, k + 1, Len(s))
           r == front \o back
<1>1. Len(s) \in Nat
  OBVIOUS
<1>2. /\ front \in Seq(S) /\ Len(front) = k - 1
      /\ \A i \in 1..(k - 1) : front[i] = s[i]
  BY <1>1, SubSeqProperties
<1>3. /\ back \in Seq(S) /\ Len(back) = Len(s) - k
      /\ \A i \in 1..(Len(s) - k) : back[i] = s[k + i]
  BY <1>1, SubSeqProperties
<1> HIDE DEF front, back
<1>4. /\ r \in Seq(S) /\ Len(r) = Len(front) + Len(back)
      /\ \A i \in 1..(Len(front) + Len(back)) :
           r[i] = IF i <= Len(front) THEN front[i] ELSE back[i - Len(front)]
  BY <1>2, <1>3, ConcatProperties
<1> HIDE DEF r
<1>5. Len(r) = Len(s) - 1
  BY <1>1, <1>2, <1>3, <1>4
<1>6. ASSUME NEW i \in 1..(Len(s) - 1)
      PROVE  r[i] = SpliceOut(s, k)[i]
  <2>1. SpliceOut(s, k)[i] = IF i < k THEN s[i] ELSE s[i + 1]
    BY SpliceOutProperties
  <2>2. CASE i < k
    <3>1. i \in 1..(k - 1) /\ i <= Len(front) /\ i \in 1..(Len(front) + Len(back))
      BY <1>1, <1>2, <1>3, <2>2
    <3> QED
      BY <2>1, <2>2, <3>1, <1>2, <1>4
  <2>3. CASE ~(i < k)
    <3>1. /\ ~(i <= Len(front)) /\ i \in 1..(Len(front) + Len(back))
          /\ i - Len(front) \in 1..(Len(s) - k) /\ k + (i - Len(front)) = i + 1
      BY <1>1, <1>2, <1>3, <2>3
    <3> QED
      BY <2>1, <2>3, <3>1, <1>3, <1>4
  <2> QED
    BY <2>2, <2>3
<1>7. r = SpliceOut(s, k)
  <2>1. SpliceOut(s, k) \in Seq(S) /\ Len(SpliceOut(s, k)) = Len(s) - 1
    BY SpliceOutProperties
  <2> QED
    BY <1>4, <1>5, <1>6, <2>1, SeqEqual
<1> QED
  BY <1>7 DEF RemoveAt, r, front, back

-----------------------------------------------------------------------------
(* A channel is a record of five fields, and what an operation makes of    *)
(* each of them.  Put is the map of resolved receivers with one more.      *)
Channel(ch) ==
  ch = [buffer |-> ch.buffer, waiters |-> ch.waiters, resolved |-> ch.resolved,
        closed |-> ch.closed, dropped |-> ch.dropped]

Put(f, c, v) == [d \in DOMAIN f \cup {c} |-> IF d \in {c} THEN v ELSE f[d]]

\* push(): closed, handed over, or buffered with the oldest item making room.
LEMMA PushParts ==
  ASSUME NEW ch, Channel(ch), NEW x, NEW capacity
  PROVE  LET p == Push(ch, x, capacity)
             over == Len(ch.buffer) >= capacity
         IN  /\ Channel(p)
             /\ p.closed = ch.closed
             /\ ch.closed => p = ch
             /\ ~ch.closed /\ ch.waiters # <<>> =>
                  /\ p.buffer = ch.buffer /\ p.dropped = ch.dropped
                  /\ p.waiters = Tail(ch.waiters)
                  /\ p.resolved = Put(ch.resolved, Head(ch.waiters), Item(x))
             /\ ~ch.closed /\ ch.waiters = <<>> =>
                  /\ p.waiters = ch.waiters /\ p.resolved = ch.resolved
                  /\ p.buffer = Append(IF over THEN Tail(ch.buffer) ELSE ch.buffer, x)
                  /\ p.dropped = IF over THEN ch.dropped + 1 ELSE ch.dropped
  BY DEF Channel, Push, Serve, Resolve, ResolveAll, Put

\* receive(): the head of the buffer, the closed marker, or the receiver parks.
LEMMA ReceiveParts ==
  ASSUME NEW ch, Channel(ch), NEW c
  PROVE  LET p == Receive(ch, c)
         IN  /\ Channel(p)
             /\ p.closed = ch.closed /\ p.dropped = ch.dropped
             /\ ch.buffer # <<>> =>
                  /\ p.buffer = Tail(ch.buffer) /\ p.waiters = ch.waiters
                  /\ p.resolved = Put(ch.resolved, c, Item(Head(ch.buffer)))
             /\ ch.buffer = <<>> /\ ch.closed =>
                  /\ p.buffer = ch.buffer /\ p.waiters = ch.waiters
                  /\ p.resolved = Put(ch.resolved, c, Closed)
             /\ ch.buffer = <<>> /\ ~ch.closed =>
                  /\ p.buffer = ch.buffer /\ p.resolved = ch.resolved
                  /\ p.waiters = Append(ch.waiters, c)
  BY DEF Channel, Receive, Resolve, ResolveAll, Put

\* Resolving promises touches nothing but the resolved receivers.
LEMMA ResolveAllParts ==
  ASSUME NEW ch, Channel(ch), NEW who, NEW result
  PROVE  LET r == ResolveAll(ch, who, result)
         IN  /\ Channel(r) /\ r.buffer = ch.buffer /\ r.dropped = ch.dropped
             /\ r.closed = ch.closed /\ r.waiters = ch.waiters
             /\ r.resolved = [d \in DOMAIN ch.resolved \cup who |->
                                IF d \in who THEN result ELSE ch.resolved[d]]
  BY DEF Channel, ResolveAll

\* close(): every parked receiver learns it, and the buffer stays.
LEMMA CloseParts ==
  ASSUME NEW ch, Channel(ch)
  PROVE  /\ Channel(Close(ch))
         /\ Close(ch).closed = TRUE /\ Close(ch).waiters = <<>>
         /\ Close(ch).buffer = ch.buffer /\ Close(ch).dropped = ch.dropped
         /\ Close(ch).resolved = [d \in DOMAIN ch.resolved \cup ToSet(ch.waiters) |->
                                    IF d \in ToSet(ch.waiters) THEN Closed ELSE ch.resolved[d]]
<1> DEFINE r == ResolveAll(ch, ToSet(ch.waiters), Closed)
<1>1. /\ Channel(r) /\ r.buffer = ch.buffer /\ r.dropped = ch.dropped
      /\ r.resolved = [d \in DOMAIN ch.resolved \cup ToSet(ch.waiters) |->
                         IF d \in ToSet(ch.waiters) THEN Closed ELSE ch.resolved[d]]
  BY ResolveAllParts
<1>2. Close(ch) = [r EXCEPT !.closed = TRUE, !.waiters = <<>>]
  BY DEF Close
<1> HIDE DEF r
<1> QED
  BY <1>1, <1>2 DEF Channel

\* A result that is picked up is gone, and nothing else is.
LEMMA PickUpParts ==
  ASSUME NEW ch, Channel(ch), NEW c
  PROVE  /\ Channel(PickUp(ch, c))
         /\ PickUp(ch, c).closed = ch.closed /\ PickUp(ch, c).waiters = ch.waiters
         /\ PickUp(ch, c).buffer = ch.buffer /\ PickUp(ch, c).dropped = ch.dropped
         /\ PickUp(ch, c).resolved = [d \in DOMAIN ch.resolved \ {c} |-> ch.resolved[d]]
  BY DEF Channel, PickUp

\* The timer of a receiver takes its waiter out of the queue and resolves it.
LEMMA ElapseParts ==
  ASSUME NEW ch, Channel(ch), NEW c
  PROVE  LET p == Elapse(ch, c)
         IN  /\ Channel(p)
             /\ p.closed = ch.closed
             /\ p.buffer = ch.buffer /\ p.dropped = ch.dropped
             /\ p.waiters = RemoveAt(ch.waiters, CHOOSE i \in 1..Len(ch.waiters) : ch.waiters[i] = c)
             /\ p.resolved = Put(ch.resolved, c, Timeout)
<1> DEFINE r == ResolveAll(ch, {c}, Timeout)
           k == CHOOSE i \in 1..Len(ch.waiters) : ch.waiters[i] = c
<1>1. /\ Channel(r) /\ r.buffer = ch.buffer /\ r.dropped = ch.dropped
      /\ r.closed = ch.closed /\ r.waiters = ch.waiters
      /\ r.resolved = Put(ch.resolved, c, Timeout)
  BY ResolveAllParts DEF Put
<1>2. Elapse(ch, c) = [r EXCEPT !.waiters = RemoveAt(@, k)]
  BY DEF Elapse, Resolve
<1> HIDE DEF r, k
<1>3. Elapse(ch, c) = [r EXCEPT !.waiters = RemoveAt(ch.waiters, k)]
  BY <1>1, <1>2
<1> QED
  BY <1>1, <1>3 DEF Channel, k
-----------------------------------------------------------------------------

\* A set of natural numbers that is not empty has a least element.
LEMMA LeastElement ==
  ASSUME NEW T \in SUBSET Nat, T # {}
  PROVE  \E x \in T : \A y \in T : x <= y
<1>1. \A x, y \in Nat : <<y, x>> \in OpToRel(<, Nat) <=> y < x
  BY DEF OpToRel
<1>2. PICK less : /\ IsWellFoundedOn(less, Nat)
                  /\ \A x, y \in Nat : <<y, x>> \in less <=> y < x
  BY <1>1, NatLessThanWellFounded
<1>3. PICK x \in T : \A y \in T : ~ (<<y, x>> \in less)
  BY <1>2, WFMin
<1>4. ASSUME NEW y \in T PROVE x <= y
  <2>1. x \in Nat /\ y \in Nat /\ ~ (<<y, x>> \in less)
    BY <1>3
  <2>2. ~ (y < x)
    BY <1>2, <2>1
  <2> QED
    BY <2>1, <2>2
<1> QED
  BY <1>4

\* Induction: a set that holds 0 and the successors of its natural numbers holds them all.
LEMMA SetInduction ==
  ASSUME NEW S, 0 \in S, \A n \in Nat : n \in S => n + 1 \in S
  PROVE  \A n \in Nat : n \in S
<1> SUFFICES ASSUME Nat \ S # {} PROVE FALSE
  OBVIOUS
<1>1. PICK x \in Nat \ S : \A y \in Nat \ S : x <= y
  BY LeastElement
<1>2. x # 0
  BY <1>1
<1>3. x - 1 \in Nat /\ x - 1 \in S
  BY <1>1, <1>2
<1> QED
  BY <1>1, <1>3

\* PushAll pushes one item after the other.
LEMMA PushAllSteps ==
  ASSUME NEW ch, NEW items, Len(items) \in Nat, NEW capacity
  PROVE  \E f : /\ f[0] = ch
                /\ \A n \in 1..Len(items) : f[n] = Push(f[n - 1], items[n], capacity)
                /\ PushAll(ch, items, capacity) = f[Len(items)]
<1> DEFINE len == Len(items)
           Reached(n, f) == f = [m \in 0..n |-> IF m = 0 THEN ch
                                                ELSE Push(f[m - 1], items[m], capacity)]
           Reach == {n \in Nat : \E f : Reached(n, f)}
<1>1. 0 \in Reach
  <2>1. Reached(0, [m \in 0..0 |-> ch])
    OBVIOUS
  <2> QED
    BY <2>1
<1>2. ASSUME NEW n \in Nat, n \in Reach PROVE n + 1 \in Reach
  <2>1. PICK f : Reached(n, f)
    BY <1>2
  <2> DEFINE v == Push(f[n], items[n + 1], capacity)
             g == [m \in 0..n + 1 |-> IF m = n + 1 THEN v ELSE f[m]]
  <2>2. \A m \in 0..n : g[m] = IF m = 0 THEN ch ELSE Push(f[m - 1], items[m], capacity)
    BY <2>1
  <2>3. \A m \in 1..n : g[m - 1] = f[m - 1]
    OBVIOUS
  <2>4. g[n + 1] = Push(g[n], items[n + 1], capacity)
    OBVIOUS
  <2>5. ASSUME NEW m \in 0..n + 1
        PROVE  g[m] = IF m = 0 THEN ch ELSE Push(g[m - 1], items[m], capacity)
    <3>1. CASE m = 0
      <4>1. 0 \in 0..n
        OBVIOUS
      <4> HIDE DEF g
      <4> QED
        BY <2>2, <3>1, <4>1
    <3>2. CASE m \in 1..n
      <4>1. m \in 0..n /\ m # 0
        BY <3>2
      <4> HIDE DEF g
      <4>2. g[m] = Push(f[m - 1], items[m], capacity)
        BY <2>2, <4>1
      <4>3. g[m - 1] = f[m - 1]
        BY <2>3, <3>2
      <4> QED
        BY <4>1, <4>2, <4>3
    <3>3. CASE m = n + 1
      <4>1. m - 1 = n /\ m # 0
        BY <3>3
      <4> HIDE DEF g
      <4> QED
        BY <2>4, <3>3, <4>1
    <3> QED
      BY <3>1, <3>2, <3>3
  <2>6. DOMAIN g = 0..n + 1 /\ g = [m \in DOMAIN g |-> g[m]]
    OBVIOUS
  <2> HIDE DEF g
  <2>7. Reached(n + 1, g)
    BY <2>5, <2>6
  <2> QED
    BY <2>7
<1> HIDE DEF Reach
<1>3. len \in Reach
  BY <1>1, <1>2, SetInduction
<1>4. \E f : Reached(len, f)
  BY <1>3 DEF Reach
<1> DEFINE after == CHOOSE f : Reached(len, f)
<1>5. Reached(len, after)
  BY <1>4
<1>6. PushAll(ch, items, capacity) = after[len]
  BY DEF PushAll
<1> HIDE DEF after
<1>7. after[0] = ch /\ \A n \in 1..len : after[n] = Push(after[n - 1], items[n], capacity)
  BY <1>5
<1> QED
  BY <1>6, <1>7
-----------------------------------------------------------------------------
(* A channel with one receiver r, over items of a set T and capacity k.    *)
Stream(ch, r, T, k) ==
  /\ Channel(ch) /\ ch.closed \in BOOLEAN
  /\ ch.buffer \in Seq(T) /\ Len(ch.buffer) <= k
  /\ ch.waiters = <<>> \/ (ch.waiters = <<r>> /\ ch.buffer = <<>> /\ ~ch.closed)
  /\ DOMAIN ch.resolved \in {{}, {r}}
  /\ \A d \in DOMAIN ch.resolved : \E x \in T : ch.resolved[d] = Item(x)
  /\ ch.waiters # <<>> => DOMAIN ch.resolved = {}

\* The receiver waits for an item or has one it has not picked up; or it does neither.
Awaited(ch) == ch.waiters # <<>> \/ DOMAIN ch.resolved # {}

\* The places of the item e in a sequence, and how many of them a channel holds for its
\* receiver, in the buffer or in hand.
PlacesOf(s, e) == {i \in 1..Len(s) : s[i] = e}
InHand(ch, r, e) == r \in DOMAIN ch.resolved /\ ch.resolved[r] = Item(e)
Pending(ch, r, e) == Cardinality(PlacesOf(ch.buffer, e)) + (IF InHand(ch, r, e) THEN 1 ELSE 0)

\* The places are finitely many, and none exactly if e does not occur.
LEMMA PlacesFinite ==
  ASSUME NEW T, NEW s \in Seq(T), NEW e
  PROVE  /\ IsFiniteSet(PlacesOf(s, e)) /\ Cardinality(PlacesOf(s, e)) \in Nat
         /\ Cardinality(PlacesOf(s, e)) = 0 <=> \A i \in 1..Len(s) : s[i] # e
<1>1. Len(s) \in Nat
  OBVIOUS
<1>2. IsFiniteSet(1..Len(s))
  BY <1>1, FS_Interval
<1>3. PlacesOf(s, e) \subseteq 1..Len(s)
  BY DEF PlacesOf
<1>4. IsFiniteSet(PlacesOf(s, e))
  BY <1>2, <1>3, FS_Subset
<1>5. PlacesOf(s, e) = {} <=> \A i \in 1..Len(s) : s[i] # e
  BY DEF PlacesOf
<1> QED
  BY <1>4, <1>5, FS_CardinalityType, FS_EmptySet

\* Appending e adds a place, appending another item none.
LEMMA PlacesAppend ==
  ASSUME NEW T, NEW s \in Seq(T), NEW x \in T, NEW e
  PROVE  /\ x = e => Cardinality(PlacesOf(Append(s, x), e)) = Cardinality(PlacesOf(s, e)) + 1
         /\ x # e => Cardinality(PlacesOf(Append(s, x), e)) = Cardinality(PlacesOf(s, e))
<1> DEFINE a == Append(s, x)
           n == Len(s)
<1>1. n \in Nat /\ Len(a) = n + 1 /\ a[n + 1] = x /\ \A i \in 1..n : a[i] = s[i]
  BY AppendProperties
<1> HIDE DEF a, n
<1>2. ASSUME x = e PROVE PlacesOf(a, e) = PlacesOf(s, e) \cup {n + 1}
  BY <1>1, <1>2 DEF PlacesOf, n
<1>3. ASSUME x # e PROVE PlacesOf(a, e) = PlacesOf(s, e)
  BY <1>1, <1>3 DEF PlacesOf, n
<1>4. n + 1 \notin PlacesOf(s, e)
  BY <1>1 DEF PlacesOf, n
<1>5. IsFiniteSet(PlacesOf(s, e))
  BY PlacesFinite
<1>6. Cardinality(PlacesOf(s, e) \cup {n + 1}) = Cardinality(PlacesOf(s, e)) + 1
  BY <1>4, <1>5, FS_AddElement
<1> QED
  BY <1>2, <1>3, <1>6 DEF a

\* Shifting the head off takes its place away, if it is e.
LEMMA PlacesTail ==
  ASSUME NEW T, NEW s \in Seq(T), s # <<>>, NEW e
  PROVE  /\ Cardinality(PlacesOf(Tail(s), e)) <= Cardinality(PlacesOf(s, e))
         /\ s[1] = e => Cardinality(PlacesOf(Tail(s), e)) + 1 <= Cardinality(PlacesOf(s, e))
<1> DEFINE t == Tail(s)
           n == Len(s)
           A == PlacesOf(t, e)
           B == PlacesOf(s, e)
           later == {i \in B : i # 1}
           f == [i \in A |-> i + 1]
<1>1. n \in Nat /\ n >= 1
  OBVIOUS
<1>2. Len(t) = n - 1 /\ \A i \in 1..Len(t) : t[i] = s[i + 1]
  BY HeadTailProperties
<1> HIDE DEF t, n
<1>3. \A i \in A : i \in Nat /\ i + 1 \in later
  BY <1>1, <1>2 DEF PlacesOf, n
<1>4. f \in Injection(A, later)
  <2>1. f \in [A -> later]
    BY <1>3
  <2>2. ASSUME NEW a \in A, NEW b \in A, f[a] = f[b] PROVE a = b
    <3>1. a + 1 = b + 1
      BY <2>2
    <3> QED
      BY <3>1, <1>3
  <2> HIDE DEF f
  <2> QED
    BY <2>1, <2>2 DEF Injection, IsInjective
<1>5. IsFiniteSet(B) /\ Cardinality(B) \in Nat
  BY PlacesFinite
<1>6. IsFiniteSet(later) /\ Cardinality(later) <= Cardinality(B)
  BY <1>5, FS_Subset
<1> HIDE DEF f
<1>7. Cardinality(A) <= Cardinality(later) /\ IsFiniteSet(A)
  BY <1>4, <1>6, FS_Injection
<1>8. Cardinality(A) \in Nat /\ Cardinality(later) \in Nat
  BY <1>6, <1>7, FS_CardinalityType
<1>9. ASSUME s[1] = e PROVE Cardinality(B) = Cardinality(later) + 1
  <2>1. B = later \cup {1} /\ 1 \notin later
    BY <1>1, <1>9 DEF PlacesOf, n
  <2> HIDE DEF later, B
  <2> QED
    BY <2>1, <1>6, FS_AddElement
<1> HIDE DEF A, B, later
<1>10. Cardinality(A) <= Cardinality(B)
  BY <1>5, <1>6, <1>7, <1>8
<1>11. ASSUME s[1] = e PROVE Cardinality(A) + 1 <= Cardinality(B)
  BY <1>5, <1>6, <1>7, <1>8, <1>9, <1>11
<1> QED
  BY <1>10, <1>11 DEF A, B, t

\* What a channel holds for its receiver is a number; it is 0 exactly if e is nowhere.
LEMMA PendingFacts ==
  ASSUME NEW T, NEW r, NEW k \in Nat, NEW ch, Stream(ch, r, T, k), NEW e
  PROVE  /\ Pending(ch, r, e) \in Nat
         /\ Pending(ch, r, e) = 0 <=> /\ ~InHand(ch, r, e)
                                      /\ \A i \in 1..Len(ch.buffer) : ch.buffer[i] # e
<1> DEFINE n == Cardinality(PlacesOf(ch.buffer, e))
<1>1. n \in Nat /\ (n = 0 <=> \A i \in 1..Len(ch.buffer) : ch.buffer[i] # e)
  BY PlacesFinite DEF Stream
<1>2. Pending(ch, r, e) = n + (IF InHand(ch, r, e) THEN 1 ELSE 0)
  BY DEF Pending
<1> HIDE DEF n
<1>3. CASE InHand(ch, r, e)
  <2>1. Pending(ch, r, e) = n + 1
    BY <1>2, <1>3
  <2> QED
    BY <1>1, <1>3, <2>1
<1>4. CASE ~InHand(ch, r, e)
  <2>1. Pending(ch, r, e) = n
    BY <1>1, <1>2, <1>4
  <2> QED
    BY <1>1, <1>4, <2>1
<1> QED
  BY <1>3, <1>4

\* A push keeps the channel a stream of its receiver and adds at most the item; the
\* item comes last.
LEMMA PushParticulars ==
  ASSUME NEW T, NEW r, NEW k \in Nat \ {0}, NEW ch, Stream(ch, r, T, k), NEW x \in T, NEW e
  PROVE  LET p == Push(ch, x, k)
         IN  /\ Stream(p, r, T, k) /\ p.closed = ch.closed
             /\ Awaited(p) <=> Awaited(ch)
             /\ x # e => Pending(p, r, e) <= Pending(ch, r, e)
             /\ Pending(p, r, e) <= Pending(ch, r, e) + 1
             /\ ~ch.closed => p.buffer = <<>> \/ p.buffer[Len(p.buffer)] = x
<1> DEFINE p == Push(ch, x, k)
           b == ch.buffer
           over == Len(b) >= k
<1>a. k \in Nat
  OBVIOUS
<1>b. Pending(ch, r, e) \in Nat
  BY <1>a, PendingFacts
<1>0. /\ Channel(ch) /\ ch.closed \in BOOLEAN /\ b \in Seq(T) /\ Len(b) <= k /\ Len(b) \in Nat
      /\ Pending(ch, r, e) \in Nat
  BY <1>b DEF Stream
<1>1. CASE ch.closed
  <2>1. p = ch
    BY <1>0, <1>1, PushParts
  <2> HIDE DEF p, b
  <2>2. Pending(p, r, e) <= Pending(ch, r, e) /\ Pending(p, r, e) <= Pending(ch, r, e) + 1
    BY <1>0, <2>1
  <2>3. Stream(p, r, T, k) /\ p.closed = ch.closed /\ (Awaited(p) <=> Awaited(ch))
    BY <2>1
  <2> QED
    BY <1>1, <2>2, <2>3 DEF p
<1>2. CASE ~ch.closed /\ ch.waiters # <<>>
  <2>1. ch.waiters = <<r>> /\ b = <<>> /\ DOMAIN ch.resolved = {}
    BY <1>2 DEF Stream
  <2>2. /\ Channel(p) /\ p.closed = ch.closed /\ p.buffer = <<>>
        /\ p.waiters = Tail(ch.waiters)
        /\ p.resolved = Put(ch.resolved, Head(ch.waiters), Item(x))
    <3>1. Channel(p) /\ p.closed = ch.closed /\ p.buffer = ch.buffer
      BY <1>0, <1>2, PushParts
    <3>2. p.waiters = Tail(ch.waiters) /\ p.resolved = Put(ch.resolved, Head(ch.waiters), Item(x))
      BY <1>0, <1>2, PushParts
    <3> QED
      BY <2>1, <3>1, <3>2
  <2>3. p.waiters = <<>> /\ p.resolved = Put(ch.resolved, r, Item(x))
    BY <2>1, <2>2
  <2>4. DOMAIN p.resolved = {r} /\ p.resolved[r] = Item(x)
    BY <2>1, <2>3 DEF Put
  <2> HIDE DEF p, b
  <2>5. <<>> \in Seq(T) /\ Len(<<>>) = 0 /\ 0 <= k
    OBVIOUS
  <2>6. Stream(p, r, T, k)
    BY <1>0, <2>2, <2>3, <2>4, <2>5 DEF Stream
  <2>7. Awaited(p) /\ Awaited(ch)
    BY <1>2, <2>4 DEF Awaited
  <2>8. Item(x) = Item(e) <=> x = e
    BY DEF Item
  <2>9. InHand(p, r, e) <=> x = e
    BY <2>4, <2>8 DEF InHand
  <2>10. ~InHand(ch, r, e)
    BY <2>1 DEF InHand
  <2>11. Pending(ch, r, e) = Cardinality(PlacesOf(b, e)) + 0
    BY <2>10 DEF Pending, b
  <2>12. PlacesOf(<<>>, e) = {}
    BY <2>5 DEF PlacesOf
  <2>13. Cardinality(PlacesOf(<<>>, e)) = 0
    BY <2>12, FS_EmptySet
  <2>14. Pending(ch, r, e) = 0
    BY <2>1, <2>11, <2>13
  <2>15. ASSUME x = e PROVE Pending(p, r, e) = 1
    BY <2>2, <2>9, <2>13, <2>15 DEF Pending
  <2>16. ASSUME x # e PROVE Pending(p, r, e) = 0
    BY <2>2, <2>9, <2>13, <2>16 DEF Pending
  <2> QED
    BY <2>2, <2>6, <2>7, <2>14, <2>15, <2>16 DEF p
<1>3. CASE ~ch.closed /\ ch.waiters = <<>>
  <2> DEFINE c == IF over THEN Tail(b) ELSE b
  <2>1. /\ Channel(p) /\ p.closed = ch.closed /\ p.waiters = <<>> /\ p.resolved = ch.resolved
        /\ p.buffer = Append(c, x)
    BY <1>0, <1>3, PushParts
  <2>2. c \in Seq(T) /\ Len(c) + 1 <= k /\ Len(c) \in Nat
    <3>1. CASE over
      <4>1. b # <<>>
        BY <1>0, <3>1
      <4>2. Tail(b) \in Seq(T) /\ Len(Tail(b)) = Len(b) - 1
        BY <1>0, <4>1, HeadTailProperties
      <4> QED
        BY <1>0, <3>1, <4>2
    <3>2. CASE ~over
      BY <1>0, <3>2
    <3> QED
      BY <3>1, <3>2
  <2>3. Cardinality(PlacesOf(c, e)) <= Cardinality(PlacesOf(b, e))
    <3>1. CASE over
      <4>1. b # <<>>
        BY <1>0, <3>1
      <4> QED
        BY <1>0, <3>1, <4>1, PlacesTail
    <3>2. CASE ~over
      BY <1>0, <3>2, PlacesFinite
    <3> QED
      BY <3>1, <3>2
  <2> HIDE DEF c, p, b
  <2>4. /\ Append(c, x) \in Seq(T) /\ Len(Append(c, x)) = Len(c) + 1
        /\ Append(c, x)[Len(c) + 1] = x
    BY <2>2, AppendProperties
  <2>5. Stream(p, r, T, k)
    <3>1. Len(p.buffer) <= k /\ p.buffer \in Seq(T)
      BY <2>1, <2>2, <2>4
    <3> QED
      BY <1>0, <2>1, <3>1 DEF Stream
  <2>6. Awaited(p) <=> Awaited(ch)
    BY <1>3, <2>1 DEF Awaited
  <2>7. p.buffer[Len(p.buffer)] = x
    BY <2>1, <2>4
  <2> DEFINE new == Cardinality(PlacesOf(p.buffer, e))
             old == Cardinality(PlacesOf(b, e))
             h == IF InHand(ch, r, e) THEN 1 ELSE 0
             mid == Cardinality(PlacesOf(c, e))
  <2>8. InHand(p, r, e) <=> InHand(ch, r, e)
    BY <2>1 DEF InHand
  <2>9. Pending(p, r, e) = new + h /\ Pending(ch, r, e) = old + h
    BY <2>8 DEF Pending, b
  <2>10. /\ x = e => new = mid + 1
         /\ x # e => new = mid
    BY <2>1, <2>2, PlacesAppend
  <2>11. new \in Nat /\ old \in Nat /\ mid \in Nat /\ mid <= old
    BY <1>0, <2>1, <2>2, <2>3, <2>4, PlacesFinite
  <2>12. h \in {0, 1}
    OBVIOUS
  <2> HIDE DEF new, old, mid, h
  <2>13. x # e => Pending(p, r, e) <= Pending(ch, r, e)
    BY <2>9, <2>10, <2>11, <2>12
  <2>14. Pending(p, r, e) <= Pending(ch, r, e) + 1
    BY <2>9, <2>10, <2>11, <2>12
  <2> QED
    BY <2>1, <2>5, <2>6, <2>7, <2>13, <2>14 DEF p
<1> QED
  BY <1>0, <1>1, <1>2, <1>3

\* The same, one by one, for a channel p that is known to be the outcome.
LEMMA PushStream ==
  ASSUME NEW T, NEW r, NEW k \in Nat \ {0}, NEW ch, Stream(ch, r, T, k), NEW x \in T,
         NEW p, p = Push(ch, x, k)
  PROVE  Stream(p, r, T, k) /\ p.closed = ch.closed
<1>1. Stream(p, r, T, k)
  BY PushParticulars, Zenon
<1>2. p.closed = ch.closed
  BY PushParts DEF Stream
<1> QED
  BY <1>1, <1>2

\* A push leaves a receiver that waits or has its item in that state, ...
LEMMA PushAwaited ==
  ASSUME NEW T, NEW r, NEW k \in Nat \ {0}, NEW ch, Stream(ch, r, T, k), NEW x \in T,
         NEW p, p = Push(ch, x, k),
         Awaited(ch)
  PROVE  Awaited(p)
  BY PushParticulars, Zenon

\* ... and nobody waits after a push who did not wait before it.
LEMMA PushUnawaited ==
  ASSUME NEW T, NEW r, NEW k \in Nat \ {0}, NEW ch, Stream(ch, r, T, k), NEW x \in T,
         NEW p, p = Push(ch, x, k),
         ~Awaited(ch)
  PROVE  ~Awaited(p)
  BY PushParticulars, Zenon

\* What is pushed to an open channel is the last of its buffer, unless it was handed over.
LEMMA PushIsLast ==
  ASSUME NEW T, NEW r, NEW k \in Nat \ {0}, NEW ch, Stream(ch, r, T, k), NEW x \in T,
         NEW p, p = Push(ch, x, k),
         ~ch.closed
  PROVE  p.buffer = <<>> \/ p.buffer[Len(p.buffer)] = x
<1> DEFINE q == Push(ch, x, k)
<1>1. q.buffer = <<>> \/ q.buffer[Len(q.buffer)] = x
  BY PushParticulars, ZenonT(60)
<1> QED
  BY <1>1

\* What is pending of e grows with e only, and by one.
LEMMA PushPending ==
  ASSUME NEW T, NEW r, NEW k \in Nat \ {0}, NEW ch, Stream(ch, r, T, k), NEW x \in T,
         NEW p, p = Push(ch, x, k), NEW e
  PROVE  /\ x # e => Pending(p, r, e) <= Pending(ch, r, e)
         /\ Pending(p, r, e) <= Pending(ch, r, e) + 1
  BY PushParticulars, Zenon

\* The receiver asks an open channel: it gets the head of the buffer or waits.
LEMMA ReceiveParticulars ==
  ASSUME NEW T, NEW r, NEW k \in Nat \ {0}, NEW ch, Stream(ch, r, T, k), ~Awaited(ch), ~ch.closed,
         NEW e
  PROVE  LET p == Receive(ch, r)
         IN  /\ Stream(p, r, T, k) /\ p.closed = ch.closed
             /\ Awaited(p)
             /\ Pending(p, r, e) <= Pending(ch, r, e)
             /\ ch.buffer = <<>> => p.buffer = <<>>
             /\ \/ p.buffer = <<>>
                \/ ch.buffer # <<>> /\ p.buffer[Len(p.buffer)] = ch.buffer[Len(ch.buffer)]
<1> DEFINE p == Receive(ch, r)
           b == ch.buffer
<1>0. /\ Channel(ch) /\ b \in Seq(T) /\ Len(b) <= k /\ Len(b) \in Nat
      /\ ch.waiters = <<>> /\ DOMAIN ch.resolved = {} /\ Pending(ch, r, e) \in Nat
  <2>1. k \in Nat
    OBVIOUS
  <2>2. Pending(ch, r, e) \in Nat
    BY <2>1, PendingFacts
  <2> QED
    BY <2>2 DEF Stream, Awaited
<1>1. ~InHand(ch, r, e)
  BY <1>0 DEF InHand
<1>2. Pending(ch, r, e) = Cardinality(PlacesOf(b, e))
  BY <1>0, <1>1, PlacesFinite DEF Pending
<1>3. CASE b = <<>>
  <2>1. /\ Channel(p) /\ p.closed = ch.closed /\ p.buffer = <<>> /\ p.resolved = ch.resolved
        /\ p.waiters = Append(ch.waiters, r)
    BY <1>0, <1>3, ReceiveParts
  <2>2. p.waiters = <<r>>
    BY <1>0, <2>1
  <2> HIDE DEF p
  <2>3. Stream(p, r, T, k)
    BY <1>0, <1>3, <2>1, <2>2 DEF Stream
  <2>4. Awaited(p)
    BY <2>2 DEF Awaited
  <2>5. Pending(p, r, e) = Pending(ch, r, e)
    BY <1>3, <2>1 DEF Pending, InHand
  <2> QED
    BY <1>0, <2>1, <2>3, <2>4, <2>5 DEF p
<1>4. CASE b # <<>>
  <2> DEFINE t == Tail(b)
  <2>1. /\ Channel(p) /\ p.closed = ch.closed /\ p.buffer = t /\ p.waiters = <<>>
        /\ p.resolved = Put(ch.resolved, r, Item(Head(b)))
    BY <1>0, <1>4, ReceiveParts
  <2>2. /\ t \in Seq(T) /\ Len(t) = Len(b) - 1 /\ Head(b) = b[1] /\ b[1] \in T
        /\ \A i \in 1..Len(t) : t[i] = b[i + 1]
    BY <1>0, <1>4, HeadTailProperties
  <2>3. DOMAIN p.resolved = {r} /\ p.resolved[r] = Item(b[1])
    BY <1>0, <2>1, <2>2 DEF Put
  <2>4. Item(b[1]) = Item(e) <=> b[1] = e
    BY DEF Item
  <2>5. InHand(p, r, e) <=> b[1] = e
    BY <2>3, <2>4 DEF InHand
  <2>6. /\ Cardinality(PlacesOf(t, e)) <= Cardinality(PlacesOf(b, e))
        /\ b[1] = e => Cardinality(PlacesOf(t, e)) + 1 <= Cardinality(PlacesOf(b, e))
    BY <1>0, <1>4, PlacesTail
  <2>7. Cardinality(PlacesOf(t, e)) \in Nat
    BY <2>2, PlacesFinite
  <2>8. t = <<>> \/ t[Len(t)] = b[Len(b)]
    <3>1. CASE Len(t) = 0
      BY <2>2, <3>1, EmptySeq
    <3>2. CASE Len(t) # 0
      <4> DEFINE m == Len(t)
                 n == Len(b)
      <4>1. n \in Nat /\ m = n - 1 /\ m # 0 /\ m \in Nat
        BY <1>0, <2>2, <3>2
      <4> HIDE DEF m, n
      <4>2. m \in 1..m /\ m + 1 = n
        BY <4>1
      <4>3. Len(t) \in 1..Len(t) /\ Len(t) + 1 = Len(b)
        BY <4>2 DEF m, n
      <4> HIDE DEF t
      <4> QED
        BY <2>2, <4>3
    <3> QED
      BY <3>1, <3>2
  <2> HIDE DEF p, t, b
  <2>9. Stream(p, r, T, k)
    <3>1. Len(t) <= k
      BY <1>0, <2>2
    <3> QED
      BY <1>0, <2>1, <2>2, <2>3, <3>1 DEF Stream
  <2>10. Awaited(p)
    BY <2>3 DEF Awaited
  <2> DEFINE new == Cardinality(PlacesOf(t, e))
             old == Cardinality(PlacesOf(b, e))
  <2>11. Pending(p, r, e) = new + (IF b[1] = e THEN 1 ELSE 0)
    BY <2>1, <2>5 DEF Pending
  <2>12. old \in Nat
    BY <1>0, <1>2
  <2> HIDE DEF new, old
  <2>13. Pending(p, r, e) <= Pending(ch, r, e)
    <3>1. CASE b[1] = e
      <4>1. Pending(p, r, e) = new + 1
        BY <2>11, <3>1
      <4> QED
        BY <1>2, <2>6, <3>1, <4>1 DEF new, old
    <3>2. CASE b[1] # e
      <4>1. Pending(p, r, e) = new + 0 /\ new \in Nat
        BY <2>7, <2>11, <3>2 DEF new
      <4>2. Pending(p, r, e) = new
        BY <4>1
      <4> QED
        BY <1>2, <2>6, <4>2 DEF new, old
    <3> QED
      BY <3>1, <3>2
  <2> QED
    BY <1>4, <2>1, <2>8, <2>9, <2>10, <2>13 DEF p, b
<1> QED
  BY <1>3, <1>4

\* The receiver picks its item up.
LEMMA PickUpParticulars ==
  ASSUME NEW T, NEW r, NEW k \in Nat \ {0}, NEW ch, Stream(ch, r, T, k), r \in DOMAIN ch.resolved,
         NEW e
  PROVE  LET p == PickUp(ch, r)
         IN  /\ Stream(p, r, T, k) /\ p.closed = ch.closed /\ p.buffer = ch.buffer
             /\ ~Awaited(p)
             /\ ch.resolved[r] = Item(e) => Pending(p, r, e) + 1 = Pending(ch, r, e)
             /\ ch.resolved[r] # Item(e) => Pending(p, r, e) = Pending(ch, r, e)
<1> DEFINE p == PickUp(ch, r)
           n == Cardinality(PlacesOf(ch.buffer, e))
<1>1. Channel(ch) /\ DOMAIN ch.resolved = {r} /\ ch.waiters = <<>>
  BY DEF Stream
<1>2. /\ Channel(p) /\ p.closed = ch.closed /\ p.waiters = <<>> /\ p.buffer = ch.buffer
      /\ p.resolved = [d \in DOMAIN ch.resolved \ {r} |-> ch.resolved[d]]
  BY <1>1, PickUpParts
<1>3. DOMAIN p.resolved = {}
  BY <1>1, <1>2
<1>4. n \in Nat
  BY PlacesFinite DEF Stream
<1> HIDE DEF p
<1>5. Stream(p, r, T, k) /\ ~Awaited(p)
  BY <1>2, <1>3 DEF Stream, Awaited
<1>6. Pending(p, r, e) = n + 0
  BY <1>2, <1>3 DEF Pending, InHand
<1>7. ASSUME ch.resolved[r] = Item(e) PROVE Pending(ch, r, e) = n + 1
  BY <1>1, <1>7 DEF Pending, InHand
<1>8. ASSUME ch.resolved[r] # Item(e) PROVE Pending(ch, r, e) = n + 0
  BY <1>1, <1>8 DEF Pending, InHand
<1> HIDE DEF n
<1> QED
  BY <1>2, <1>4, <1>5, <1>6, <1>7, <1>8 DEF p

\* Nobody waits when the channel is closed.
LEMMA CloseStream ==
  ASSUME NEW T, NEW r, NEW k \in Nat \ {0}, NEW ch, Stream(ch, r, T, k), ~Awaited(ch)
  PROVE  Stream(Close(ch), r, T, k) /\ ~Awaited(Close(ch)) /\ Close(ch).buffer = ch.buffer
<1>1. Channel(ch) /\ ch.waiters = <<>> /\ DOMAIN ch.resolved = {}
  BY DEF Stream, Awaited
<1>2. /\ Channel(Close(ch))
      /\ Close(ch).closed = TRUE /\ Close(ch).waiters = <<>>
      /\ Close(ch).buffer = ch.buffer
      /\ Close(ch).resolved = [d \in DOMAIN ch.resolved \cup ToSet(ch.waiters) |->
                                    IF d \in ToSet(ch.waiters) THEN Closed ELSE ch.resolved[d]]
  BY <1>1, CloseParts
<1>3. DOMAIN Close(ch).resolved = {}
  BY <1>1, <1>2 DEF ToSet
<1>4. Stream(Close(ch), r, T, k) /\ ~Awaited(Close(ch))
  BY <1>2, <1>3 DEF Stream, Awaited
<1> QED
  BY <1>2, <1>4

\* A new channel is open, empty and not waited for.
LEMMA NewStream ==
  ASSUME NEW T, NEW r, NEW k \in Nat \ {0}, NEW e
  PROVE  /\ Stream(NewChannel, r, T, k) /\ ~Awaited(NewChannel)
         /\ ~NewChannel.closed /\ NewChannel.buffer = <<>> /\ Pending(NewChannel, r, e) = 0
<1>1. /\ Channel(NewChannel) /\ NewChannel.closed = FALSE /\ NewChannel.buffer = <<>>
      /\ NewChannel.waiters = <<>> /\ DOMAIN NewChannel.resolved = {}
  <2>1. DOMAIN <<>> = {}
    OBVIOUS
  <2> QED
    BY <2>1 DEF Channel, NewChannel
<1>a. <<>> \in Seq(T) /\ Len(<<>>) = 0 /\ 0 <= k /\ k \in Nat
  OBVIOUS
<1>2. Stream(NewChannel, r, T, k) /\ ~Awaited(NewChannel)
  BY <1>1, <1>a DEF Stream, Awaited
<1>3. ~InHand(NewChannel, r, e)
  BY <1>1 DEF InHand
<1> QED
  <2>1. \A i \in 1..Len(NewChannel.buffer) : NewChannel.buffer[i] # e
    BY <1>1, <1>a
  <2>2. Pending(NewChannel, r, e) = 0
    BY <1>a, <1>2, <1>3, <2>1, PendingFacts
  <2> QED
    BY <1>1, <1>2, <2>2

\* What several pushes make of a channel: a stream of its receiver with the items at most.
AllPushed(ch, p, r, T, k, items, e) ==
  /\ Stream(p, r, T, k) /\ p.closed = ch.closed
  /\ Awaited(p) <=> Awaited(ch)
  /\ Pending(p, r, e) <= Pending(ch, r, e) + Cardinality(PlacesOf(items, e))
  /\ ~ch.closed /\ items # <<>> =>
       p.buffer = <<>> \/ p.buffer[Len(p.buffer)] = items[Len(items)]

\* Several pushes keep the channel a stream of its receiver and add at most the items.
LEMMA PushAllParticulars ==
  ASSUME NEW T, NEW r, NEW k \in Nat \ {0}, NEW ch, Stream(ch, r, T, k),
         NEW items \in Seq(T), NEW e
  PROVE  AllPushed(ch, PushAll(ch, items, k), r, T, k, items, e)
<1>a. Len(items) \in Nat
  OBVIOUS
<1>b. PICK f : /\ f[0] = ch
               /\ \A n \in 1..Len(items) : f[n] = Push(f[n - 1], items[n], k)
               /\ PushAll(ch, items, k) = f[Len(items)]
  BY <1>a, PushAllSteps
<1> DEFINE len == Len(items)
           Upto(n) == {i \in 1..n : items[i] = e}
<1>0. len \in Nat /\ k \in Nat /\ \A i \in 1..len : items[i] \in T
  BY ElementOfSeq
<1>1. /\ f[0] = ch
      /\ \A n \in 1..len : f[n] = Push(f[n - 1], items[n], k)
      /\ PushAll(ch, items, k) = f[len]
  BY <1>b
<1> HIDE DEF len
<1> DEFINE Kept(n) == /\ Stream(f[n], r, T, k) /\ f[n].closed = ch.closed
                      /\ Awaited(f[n]) <=> Awaited(ch)
                      /\ Pending(f[n], r, e) <= Pending(ch, r, e) + Cardinality(Upto(n))
           S == {n \in Nat : n <= len => Kept(n)}
<1>2. ASSUME NEW n \in Nat
      PROVE  IsFiniteSet(Upto(n)) /\ Cardinality(Upto(n)) \in Nat
  <2>1. IsFiniteSet(1..n)
    BY FS_Interval
  <2>2. Upto(n) \subseteq 1..n
    OBVIOUS
  <2> QED
    BY <2>1, <2>2, FS_Subset, FS_CardinalityType
<1>3. Pending(ch, r, e) \in Nat
  BY <1>0, PendingFacts
<1>4. 0 \in S
  <2>1. Upto(0) = {}
    OBVIOUS
  <2>2. Cardinality(Upto(0)) = 0
    BY <2>1, FS_EmptySet
  <2>3. Pending(f[0], r, e) <= Pending(ch, r, e) + Cardinality(Upto(0))
    BY <1>1, <1>3, <2>2
  <2> QED
    BY <1>1, <2>3
<1>5. ASSUME NEW n \in Nat, n \in S PROVE n + 1 \in S
  <2> SUFFICES ASSUME n + 1 <= len PROVE Kept(n + 1)
    OBVIOUS
  <2>1. n + 1 \in 1..len /\ n <= len /\ (n + 1) - 1 = n
    BY <1>0
  <2>2. Kept(n)
    BY <1>5, <2>1
  <2>3. f[n + 1] = Push(f[n], items[n + 1], k) /\ items[n + 1] \in T
    BY <1>0, <1>1, <2>1
  <2> DEFINE p == f[n + 1]
             x == items[n + 1]
  <2>4. /\ Stream(p, r, T, k) /\ p.closed = f[n].closed
        /\ Awaited(p) <=> Awaited(f[n])
        /\ x # e => Pending(p, r, e) <= Pending(f[n], r, e)
        /\ Pending(p, r, e) <= Pending(f[n], r, e) + 1
    <3>1. Stream(f[n], r, T, k)
      BY <2>2
    <3> HIDE DEF Kept, Upto, S
    <3>2. x \in T /\ p = Push(f[n], x, k)
      BY <2>3
    <3> HIDE DEF p, x, S, Upto
    <3>3. Stream(p, r, T, k) /\ p.closed = f[n].closed
      BY <3>1, <3>2, PushStream
    <3>4. Awaited(p) <=> Awaited(f[n])
      BY <3>1, <3>2, PushAwaited, PushUnawaited
    <3>5. /\ x # e => Pending(p, r, e) <= Pending(f[n], r, e)
          /\ Pending(p, r, e) <= Pending(f[n], r, e) + 1
      BY <3>1, <3>2, PushPending
    <3> QED
      BY <3>3, <3>4, <3>5
  <2>5. Pending(f[n], r, e) \in Nat /\ Pending(p, r, e) \in Nat
    <3>1. Stream(f[n], r, T, k) /\ Stream(p, r, T, k)
      BY <2>2, <2>4
    <3> HIDE DEF Kept, p
    <3> QED
      BY <1>0, <3>1, PendingFacts
  <2>6. Cardinality(Upto(n)) \in Nat /\ Cardinality(Upto(n + 1)) \in Nat
    <3>1. n + 1 \in Nat
      OBVIOUS
    <3> HIDE DEF Upto
    <3> QED
      BY <1>2, <3>1
  <2>7. CASE x = e
    <3>1. Upto(n + 1) = Upto(n) \cup {n + 1} /\ n + 1 \notin Upto(n)
      BY <2>7
    <3> HIDE DEF Upto
    <3>2. Cardinality(Upto(n + 1)) = Cardinality(Upto(n)) + 1
      BY <1>2, <3>1, FS_AddElement
    <3> HIDE DEF p
    <3>3. Pending(p, r, e) <= Pending(ch, r, e) + Cardinality(Upto(n + 1))
      BY <1>3, <2>2, <2>4, <2>5, <2>6, <3>2
    <3> QED
      BY <2>2, <2>4, <3>3 DEF p
  <2>8. CASE x # e
    <3>1. Upto(n + 1) = Upto(n)
      BY <2>8
    <3> HIDE DEF Upto, p
    <3>2. Pending(p, r, e) <= Pending(ch, r, e) + Cardinality(Upto(n + 1))
      BY <1>3, <2>2, <2>4, <2>5, <2>6, <2>8, <3>1
    <3> QED
      BY <2>2, <2>4, <3>2 DEF p
  <2> QED
    BY <2>7, <2>8
<1> HIDE DEF S
<1>6. len \in S
  BY <1>0, <1>4, <1>5, SetInduction
<1>7. Kept(len)
  BY <1>0, <1>6 DEF S
<1>8. Upto(len) = PlacesOf(items, e)
  BY DEF PlacesOf, len
<1>9. ASSUME ~ch.closed, items # <<>>
      PROVE  f[len].buffer = <<>> \/ f[len].buffer[Len(f[len].buffer)] = items[len]
  <2>1. len \in 1..len /\ len - 1 \in Nat /\ len - 1 <= len
    BY <1>0, <1>9 DEF len
  <2>2. \A n \in Nat : n \in S
    BY <1>4, <1>5, SetInduction
  <2>3. Kept(len - 1)
    BY <2>1, <2>2 DEF S
  <2>4. f[len] = Push(f[len - 1], items[len], k) /\ items[len] \in T
    BY <1>0, <1>1, <2>1
  <2>5. Stream(f[len - 1], r, T, k) /\ ~f[len - 1].closed
    BY <1>9, <2>3
  <2> HIDE DEF Kept, S, Upto
  <2> QED
    BY <2>4, <2>5, PushIsLast
<1> HIDE DEF Kept
<1>10. /\ Stream(f[len], r, T, k) /\ f[len].closed = ch.closed
       /\ Awaited(f[len]) <=> Awaited(ch)
       /\ Pending(f[len], r, e) <= Pending(ch, r, e) + Cardinality(PlacesOf(items, e))
  BY <1>7, <1>8 DEF Kept
<1> QED
  BY <1>1, <1>9, <1>10 DEF len, AllPushed

\* The same, one by one.
LEMMA PushAllStream ==
  ASSUME NEW T, NEW r, NEW k \in Nat \ {0}, NEW ch, Stream(ch, r, T, k), NEW items \in Seq(T),
         NEW p, p = PushAll(ch, items, k)
  PROVE  Stream(p, r, T, k) /\ p.closed = ch.closed
<1>1. AllPushed(ch, p, r, T, k, items, r)
  BY PushAllParticulars, Zenon
<1> QED
  BY <1>1 DEF AllPushed

\* Several pushes leave a receiver that waits or has its item in that state, ...
LEMMA PushAllAwaited ==
  ASSUME NEW T, NEW r, NEW k \in Nat \ {0}, NEW ch, Stream(ch, r, T, k), NEW items \in Seq(T),
         NEW p, p = PushAll(ch, items, k), Awaited(ch)
  PROVE  Awaited(p)
<1>1. AllPushed(ch, p, r, T, k, items, r)
  BY PushAllParticulars, Zenon
<1> QED
  BY <1>1 DEF AllPushed

\* ... and nobody waits after them who did not wait before them.
LEMMA PushAllUnawaited ==
  ASSUME NEW T, NEW r, NEW k \in Nat \ {0}, NEW ch, Stream(ch, r, T, k), NEW items \in Seq(T),
         NEW p, p = PushAll(ch, items, k), ~Awaited(ch)
  PROVE  ~Awaited(p)
<1>1. AllPushed(ch, p, r, T, k, items, r)
  BY PushAllParticulars, Zenon
<1> QED
  BY <1>1 DEF AllPushed

\* They leave the last item at the end of the buffer.
LEMMA PushAllIsLast ==
  ASSUME NEW T, NEW r, NEW k \in Nat \ {0}, NEW ch, Stream(ch, r, T, k), NEW items \in Seq(T),
         NEW p, p = PushAll(ch, items, k), ~ch.closed, items # <<>>
  PROVE  p.buffer = <<>> \/ p.buffer[Len(p.buffer)] = items[Len(items)]
<1>1. AllPushed(ch, p, r, T, k, items, r)
  BY PushAllParticulars, Zenon
<1> QED
  BY <1>1 DEF AllPushed

\* What is pending of e grows by the places of e among the items at most.
LEMMA PushAllPending ==
  ASSUME NEW T, NEW r, NEW k \in Nat \ {0}, NEW ch, Stream(ch, r, T, k), NEW items \in Seq(T),
         NEW p, p = PushAll(ch, items, k), NEW e
  PROVE  Pending(p, r, e) <= Pending(ch, r, e) + Cardinality(PlacesOf(items, e))
<1>1. AllPushed(ch, p, r, T, k, items, e)
  BY PushAllParticulars, Zenon
<1> QED
  BY <1>1 DEF AllPushed

\* The same, one by one, for the outcome p.
LEMMA ReceiveStream ==
  ASSUME NEW T, NEW r, NEW k \in Nat \ {0}, NEW ch, Stream(ch, r, T, k), ~Awaited(ch), ~ch.closed,
         NEW p, p = Receive(ch, r)
  PROVE  Stream(p, r, T, k)
  BY ReceiveParticulars, Zenon

\* A call of receive leaves the channel open ...
LEMMA ReceiveOpen ==
  ASSUME NEW T, NEW r, NEW k \in Nat \ {0}, NEW ch, Stream(ch, r, T, k), ~Awaited(ch), ~ch.closed,
         NEW p, p = Receive(ch, r)
  PROVE  ~p.closed
  BY ReceiveParticulars, Zenon

\* ... and the receiver waits or has an item.
LEMMA ReceiveAwaited ==
  ASSUME NEW T, NEW r, NEW k \in Nat \ {0}, NEW ch, Stream(ch, r, T, k), ~Awaited(ch), ~ch.closed,
         NEW p, p = Receive(ch, r)
  PROVE  Awaited(p)
  BY ReceiveParticulars, Zenon

\* Nothing comes to be pending.
LEMMA ReceivePending ==
  ASSUME NEW T, NEW r, NEW k \in Nat \ {0}, NEW ch, Stream(ch, r, T, k), ~Awaited(ch), ~ch.closed,
         NEW p, p = Receive(ch, r), NEW e
  PROVE  Pending(p, r, e) <= Pending(ch, r, e)
  BY ReceiveParticulars, Zenon

\* The end of the buffer stays its end.
LEMMA ReceiveLast ==
  ASSUME NEW T, NEW r, NEW k \in Nat \ {0}, NEW ch, Stream(ch, r, T, k), ~Awaited(ch), ~ch.closed,
         NEW p, p = Receive(ch, r)
  PROVE  p.buffer = <<>> \/ (ch.buffer # <<>> /\ p.buffer[Len(p.buffer)] = ch.buffer[Len(ch.buffer)])
  BY ReceiveParticulars, Zenon

\* The same, one by one, for the outcome p.
LEMMA PickUpStream ==
  ASSUME NEW T, NEW r, NEW k \in Nat \ {0}, NEW ch, Stream(ch, r, T, k), r \in DOMAIN ch.resolved,
         NEW p, p = PickUp(ch, r)
  PROVE  Stream(p, r, T, k)
  BY PickUpParticulars, Zenon

\* The receiver has picked its item up and waits for nothing.
LEMMA PickUpUnawaited ==
  ASSUME NEW T, NEW r, NEW k \in Nat \ {0}, NEW ch, Stream(ch, r, T, k), r \in DOMAIN ch.resolved,
         NEW p, p = PickUp(ch, r)
  PROVE  ~Awaited(p)
  BY PickUpParticulars, Zenon

\* The item in hand is no longer pending, and the buffer stays.
LEMMA PickUpPending ==
  ASSUME NEW T, NEW r, NEW k \in Nat \ {0}, NEW ch, Stream(ch, r, T, k), r \in DOMAIN ch.resolved,
         NEW p, p = PickUp(ch, r), NEW e
  PROVE  /\ ch.resolved[r] = Item(e) => Pending(p, r, e) + 1 = Pending(ch, r, e)
         /\ ch.resolved[r] # Item(e) => Pending(p, r, e) = Pending(ch, r, e)
  BY PickUpParticulars

\* The buffer stays, and the channel is as open as it was.
LEMMA PickUpRest ==
  ASSUME NEW T, NEW r, NEW k \in Nat \ {0}, NEW ch, Stream(ch, r, T, k), r \in DOMAIN ch.resolved,
         NEW p, p = PickUp(ch, r)
  PROVE  p.buffer = ch.buffer /\ p.closed = ch.closed
  BY PickUpParts DEF Stream

-----------------------------------------------------------------------------
(* What comes after what in a channel.                                     *)

\* The receiver has e in hand or e is buffered, and b comes behind a.
Pends(ch, r, e) == InHand(ch, r, e) \/ \E i \in 1..Len(ch.buffer) : ch.buffer[i] = e
Precedes(ch, r, a, b) ==
  \/ InHand(ch, r, a) /\ \E j \in 1..Len(ch.buffer) : ch.buffer[j] = b
  \/ \E i, j \in 1..Len(ch.buffer) : i < j /\ ch.buffer[i] = a /\ ch.buffer[j] = b

\* p is what the first n of the items make of ch: they come behind what was there, in their
\* order, and only a channel that drops loses one.
PushedInOrder(ch, p, r, items, n) ==
  /\ p.dropped \in Nat
  /\ \A e : Pends(p, r, e) => Pends(ch, r, e) \/ \E i \in 1..n : items[i] = e
  /\ \A a, b : Precedes(p, r, a, b) =>
       \/ Precedes(ch, r, a, b)
       \/ Pends(ch, r, a) /\ \E j \in 1..n : items[j] = b
       \/ \E i, j \in 1..n : i < j /\ items[i] = a /\ items[j] = b
  /\ p.dropped = 0 => /\ ch.dropped = 0
                      /\ \A e : Pends(ch, r, e) \/ (\E i \in 1..n : items[i] = e) => Pends(p, r, e)

\* The same for one item.
PushedBehind(ch, p, r, x) ==
  /\ p.dropped \in Nat
  /\ \A e : Pends(p, r, e) => Pends(ch, r, e) \/ e = x
  /\ \A a, b : Precedes(p, r, a, b) => Precedes(ch, r, a, b) \/ (Pends(ch, r, a) /\ b = x)
  /\ p.dropped = 0 => /\ ch.dropped = 0
                      /\ \A e : Pends(ch, r, e) \/ e = x => Pends(p, r, e)

\* One push.
LEMMA PushOrder ==
  ASSUME NEW T, NEW r, NEW k \in Nat \ {0}, NEW ch, Stream(ch, r, T, k), ~ch.closed,
         ch.dropped \in Nat, NEW x \in T, NEW p, p = Push(ch, x, k)
  PROVE  PushedBehind(ch, p, r, x)
<1>0. /\ Channel(ch) /\ ch.buffer \in Seq(T) /\ Len(ch.buffer) \in Nat
      /\ Len(ch.buffer) <= k
  BY DEF Stream
<1>1. CASE ch.waiters # <<>>
  <2>1. ch.waiters = <<r>> /\ ch.buffer = <<>> /\ DOMAIN ch.resolved = {}
    BY <1>1 DEF Stream
  <2>2. /\ p.buffer = ch.buffer /\ p.dropped = ch.dropped
        /\ p.resolved = Put(ch.resolved, Head(ch.waiters), Item(x))
    BY <1>0, <1>1, PushParts
  <2>3. p.resolved = Put(ch.resolved, r, Item(x)) /\ Len(p.buffer) = 0 /\ Len(ch.buffer) = 0
    BY <2>1, <2>2
  <2>4. DOMAIN p.resolved = {r} /\ p.resolved[r] = Item(x)
    BY <2>1, <2>3 DEF Put
  <2>5. \A e : Item(x) = Item(e) <=> x = e
    BY DEF Item
  <2>6. \A e : InHand(p, r, e) <=> x = e
    BY <2>4, <2>5 DEF InHand
  <2>7. \A e : ~InHand(ch, r, e)
    BY <2>1 DEF InHand
  <2>8. \A e : (Pends(p, r, e) <=> x = e) /\ ~Pends(ch, r, e)
    BY <2>3, <2>6, <2>7 DEF Pends
  <2>9. \A a, b : ~Precedes(p, r, a, b)
    BY <2>3 DEF Precedes
  <2> QED
    BY <2>2, <2>8, <2>9 DEF PushedBehind
<1>2. CASE ch.waiters = <<>>
  <2> DEFINE over == Len(ch.buffer) >= k
             c == IF over THEN Tail(ch.buffer) ELSE ch.buffer
             d == IF over THEN 1 ELSE 0
             m == Len(c)
             n == Len(ch.buffer)
             u == ch.buffer
             v == p.buffer
  <2>1. /\ p.resolved = ch.resolved /\ v = Append(c, x)
        /\ p.dropped = IF over THEN ch.dropped + 1 ELSE ch.dropped
    BY <1>0, <1>2, PushParts
  <2>2. /\ c \in Seq(T) /\ m \in Nat /\ n \in Nat /\ d \in {0, 1} /\ n = m + d
        /\ \A i \in 1..m : c[i] = u[i + d]
    <3>1. CASE over
      <4>1. u # <<>>
        BY <1>0, <3>1
      <4>2. Tail(u) \in Seq(T) /\ Len(Tail(u)) = Len(u) - 1 /\ \A i \in 1..Len(Tail(u)) : Tail(u)[i] = u[i + 1]
        BY <1>0, <4>1, HeadTailProperties
      <4> QED
        BY <1>0, <3>1, <4>2
    <3>2. CASE ~over
      BY <1>0, <3>2
    <3> QED
      BY <3>1, <3>2
  <2>3. p.dropped = ch.dropped + d
    BY <2>1
  <2> HIDE DEF c, d
  <2>4. Len(v) = m + 1 /\ v[m + 1] = x /\ \A i \in 1..m : v[i] = c[i]
    BY <2>1, <2>2, AppendProperties
  <2> HIDE DEF m, n, u, v
  <2>5. \A i \in 1..m : v[i] = u[i + d] /\ i + d \in 1..n
    BY <2>2, <2>4
  <2>6. \A e : InHand(p, r, e) <=> InHand(ch, r, e)
    BY <2>1 DEF InHand
  <2>7. \A i \in 1..m + 1 : i \in 1..m \/ i = m + 1
    BY <2>2
  <2>8. ASSUME NEW e, Pends(p, r, e) PROVE Pends(ch, r, e) \/ e = x
    <3>1. CASE InHand(p, r, e)
      BY <2>6, <3>1 DEF Pends
    <3>2. CASE \E i \in 1..m + 1 : v[i] = e
      <4>1. PICK i \in 1..m + 1 : v[i] = e
        BY <3>2
      <4>2. CASE i \in 1..m
        BY <2>5, <4>1, <4>2 DEF Pends, n, u
      <4>3. CASE i = m + 1
        BY <2>4, <4>1, <4>3
      <4> QED
        BY <2>7, <4>2, <4>3
    <3> QED
      BY <2>4, <2>8, <3>1, <3>2 DEF Pends, v
  <2>9. ASSUME NEW a, NEW b, Precedes(p, r, a, b)
        PROVE  Precedes(ch, r, a, b) \/ (Pends(ch, r, a) /\ b = x)
    <3>1. CASE InHand(p, r, a) /\ \E j \in 1..m + 1 : v[j] = b
      <4>1. PICK j \in 1..m + 1 : v[j] = b
        BY <3>1
      <4>2. CASE j \in 1..m
        BY <2>5, <2>6, <3>1, <4>1, <4>2 DEF Precedes, n, u
      <4>3. CASE j = m + 1
        BY <2>4, <2>6, <3>1, <4>1, <4>3 DEF Pends
      <4> QED
        BY <2>7, <4>2, <4>3
    <3>2. CASE \E i, j \in 1..m + 1 : i < j /\ v[i] = a /\ v[j] = b
      <4>1. PICK i \in 1..m + 1, j \in 1..m + 1 : i < j /\ v[i] = a /\ v[j] = b
        BY <3>2
      <4>2. i \in 1..m
        BY <2>2, <4>1
      <4>3. u[i + d] = a /\ i + d \in 1..n
        BY <2>5, <4>1, <4>2
      <4>4. CASE j \in 1..m
        <5>1. u[j + d] = b /\ j + d \in 1..n
          BY <2>5, <4>1, <4>4
        <5>2. i + d < j + d /\ i + d \in Nat /\ j + d \in Nat
          BY <2>2, <4>1
        <5> QED
          BY <4>3, <5>1, <5>2 DEF Precedes, n, u
      <4>5. CASE j = m + 1
        BY <2>4, <4>1, <4>3, <4>5 DEF Pends, n, u
      <4> QED
        BY <2>7, <4>4, <4>5
    <3> QED
      BY <2>4, <2>9, <3>1, <3>2 DEF Precedes, v
  <2>10. ASSUME p.dropped = 0
         PROVE  ch.dropped = 0 /\ \A e : Pends(ch, r, e) \/ e = x => Pends(p, r, e)
    <3>1. d = 0 /\ ch.dropped = 0 /\ m = n
      BY <2>2, <2>3, <2>10
    <3>2. \A i \in 1..m : v[i] = u[i]
      BY <2>2, <2>5, <3>1
    <3>3. ASSUME NEW e, Pends(ch, r, e) \/ e = x PROVE Pends(p, r, e)
      <4>1. CASE InHand(ch, r, e)
        BY <2>6, <4>1 DEF Pends
      <4>2. CASE \E i \in 1..n : u[i] = e
        <5>1. PICK i \in 1..n : u[i] = e
          BY <4>2
        <5>2. v[i] = e /\ i \in 1..m + 1
          BY <2>2, <3>1, <3>2, <5>1
        <5> QED
          BY <2>4, <5>2 DEF Pends, v
      <4>3. CASE e = x
        <5>1. v[m + 1] = e /\ m + 1 \in 1..m + 1
          BY <2>2, <2>4, <4>3
        <5> QED
          BY <2>4, <5>1 DEF Pends, v
      <4> QED
        BY <3>3, <4>1, <4>2, <4>3 DEF Pends, n, u
    <3> QED
      BY <3>1, <3>3
  <2>11. p.dropped \in Nat
    BY <2>2, <2>3
  <2> QED
    BY <2>8, <2>9, <2>10, <2>11 DEF PushedBehind
<1> QED
  BY <1>1, <1>2

\* Several pushes.
LEMMA PushAllOrder ==
  ASSUME NEW T, NEW r, NEW k \in Nat \ {0}, NEW ch, Stream(ch, r, T, k), ~ch.closed,
         ch.dropped \in Nat, NEW items \in Seq(T), NEW p, p = PushAll(ch, items, k)
  PROVE  PushedInOrder(ch, p, r, items, Len(items))
<1>a. Len(items) \in Nat
  OBVIOUS
<1>b. PICK f : /\ f[0] = ch
               /\ \A n \in 1..Len(items) : f[n] = Push(f[n - 1], items[n], k)
               /\ PushAll(ch, items, k) = f[Len(items)]
  BY <1>a, PushAllSteps
<1> DEFINE len == Len(items)
<1>0. len \in Nat /\ \A i \in 1..len : items[i] \in T
  BY ElementOfSeq
<1>1. /\ f[0] = ch
      /\ \A n \in 1..len : f[n] = Push(f[n - 1], items[n], k)
      /\ p = f[len]
  BY <1>b
<1> HIDE DEF len
<1> DEFINE Kept(n) == Stream(f[n], r, T, k) /\ ~f[n].closed /\ PushedInOrder(ch, f[n], r, items, n)
           S == {n \in Nat : n <= len => Kept(n)}
<1>2. 0 \in S
  BY <1>1 DEF PushedInOrder
<1>3. ASSUME NEW n \in Nat, n \in S PROVE n + 1 \in S
  <2> SUFFICES ASSUME n + 1 <= len PROVE Kept(n + 1)
    OBVIOUS
  <2>1. n + 1 \in 1..len /\ n <= len /\ (n + 1) - 1 = n
    BY <1>0
  <2>2. Stream(f[n], r, T, k) /\ ~f[n].closed /\ PushedInOrder(ch, f[n], r, items, n)
    BY <1>3, <2>1
  <2>3. PICK g, h, x : g = f[n] /\ h = f[n + 1] /\ x = items[n + 1]
    OBVIOUS
  <2> HIDE DEF Kept, S
  <2>4. h = Push(g, x, k) /\ x \in T
    BY <1>0, <1>1, <2>1, <2>3
  <2>5. Stream(g, r, T, k) /\ ~g.closed /\ PushedInOrder(ch, g, r, items, n)
    BY <2>2, <2>3
  <2>6. Stream(h, r, T, k) /\ h.closed = g.closed
    BY <2>4, <2>5, PushStream
  <2>7. g.dropped \in Nat
    BY <2>5 DEF PushedInOrder
  <2>8. /\ h.dropped \in Nat
        /\ \A e : Pends(h, r, e) => Pends(g, r, e) \/ e = x
        /\ \A a, b : Precedes(h, r, a, b) => Precedes(g, r, a, b) \/ (Pends(g, r, a) /\ b = x)
        /\ h.dropped = 0 => /\ g.dropped = 0
                            /\ \A e : Pends(g, r, e) \/ e = x => Pends(h, r, e)
    <3>1. PushedBehind(g, h, r, x)
      BY <2>4, <2>5, <2>7, PushOrder
    <3> QED
      BY <3>1 DEF PushedBehind
  <2>9. \A i \in 1..n + 1 : i \in 1..n \/ i = n + 1
    OBVIOUS
  <2>10. n + 1 \in 1..n + 1 /\ \A i \in 1..n : i \in 1..n + 1 /\ i < n + 1
    OBVIOUS
  <2>11. \A e : Pends(h, r, e) => Pends(ch, r, e) \/ \E i \in 1..n + 1 : items[i] = e
    BY <2>3, <2>5, <2>8, <2>10 DEF PushedInOrder
  <2>12. ASSUME NEW a, NEW b, Precedes(h, r, a, b)
         PROVE  \/ Precedes(ch, r, a, b)
                \/ Pends(ch, r, a) /\ \E j \in 1..n + 1 : items[j] = b
                \/ \E i, j \in 1..n + 1 : i < j /\ items[i] = a /\ items[j] = b
    <3>1. CASE Precedes(g, r, a, b)
      BY <2>5, <2>10, <3>1 DEF PushedInOrder
    <3>2. CASE Pends(g, r, a) /\ b = x
      BY <2>3, <2>5, <2>10, <3>2 DEF PushedInOrder
    <3> QED
      BY <2>8, <2>12, <3>1, <3>2
  <2>13. ASSUME h.dropped = 0
         PROVE  /\ ch.dropped = 0
                /\ \A e : Pends(ch, r, e) \/ (\E i \in 1..n + 1 : items[i] = e) => Pends(h, r, e)
    <3>1. g.dropped = 0 /\ \A e : Pends(g, r, e) \/ e = x => Pends(h, r, e)
      BY <2>8, <2>13
    <3>2. ch.dropped = 0 /\ \A e : Pends(ch, r, e) \/ (\E i \in 1..n : items[i] = e) => Pends(g, r, e)
      BY <2>5, <3>1 DEF PushedInOrder
    <3> QED
      BY <2>3, <2>9, <3>1, <3>2
  <2>14. PushedInOrder(ch, h, r, items, n + 1)
    BY <2>8, <2>11, <2>12, <2>13 DEF PushedInOrder
  <2> QED
    BY <2>3, <2>5, <2>6, <2>14 DEF Kept
<1> HIDE DEF S
<1>4. len \in S
  BY <1>0, <1>2, <1>3, SetInduction
<1> QED
  BY <1>0, <1>1, <1>4 DEF S, len

\* The receiver asks: what it gets comes before all that stays.
LEMMA ReceiveOrder ==
  ASSUME NEW T, NEW r, NEW k \in Nat \ {0}, NEW ch, Stream(ch, r, T, k), ~Awaited(ch), ~ch.closed,
         NEW p, p = Receive(ch, r)
  PROVE  /\ p.dropped = ch.dropped
         /\ \A e : Pends(p, r, e) <=> Pends(ch, r, e)
         /\ \A a, b : Precedes(p, r, a, b) => Precedes(ch, r, a, b)
<1>0. /\ Channel(ch) /\ ch.buffer \in Seq(T) /\ ch.waiters = <<>> /\ DOMAIN ch.resolved = {}
      /\ \A e : ~InHand(ch, r, e)
  BY DEF Stream, Awaited, InHand
<1>1. CASE ch.buffer = <<>>
  <2>1. p.buffer = ch.buffer /\ p.resolved = ch.resolved /\ p.dropped = ch.dropped
    BY <1>0, <1>1, ReceiveParts
  <2> QED
    BY <2>1 DEF Pends, Precedes, InHand
<1>2. CASE ch.buffer # <<>>
  <2> DEFINE b == ch.buffer
             t == Tail(b)
             n == Len(t)
  <2>1. /\ p.buffer = t /\ p.dropped = ch.dropped
        /\ p.resolved = Put(ch.resolved, r, Item(Head(b)))
    BY <1>0, <1>2, ReceiveParts
  <2>2. /\ n \in Nat /\ Len(b) = n + 1 /\ Head(b) = b[1]
        /\ \A i \in 1..n : t[i] = b[i + 1]
    BY <1>0, <1>2, HeadTailProperties
  <2>3. DOMAIN p.resolved = {r} /\ p.resolved[r] = Item(b[1])
    BY <1>0, <2>1, <2>2 DEF Put
  <2>4. \A e : Item(b[1]) = Item(e) <=> b[1] = e
    BY DEF Item
  <2>5. \A e : InHand(p, r, e) <=> b[1] = e
    BY <2>3, <2>4 DEF InHand
  <2> HIDE DEF b, t, n
  <2>6. \A i \in 1..n : i + 1 \in 1..n + 1 /\ 1 < i + 1
    BY <2>2
  <2>7. 1 \in 1..n + 1 /\ \A i \in 1..n + 1 : i = 1 \/ (i - 1 \in 1..n /\ (i - 1) + 1 = i)
    BY <2>2
  <2>8. ASSUME NEW e PROVE Pends(p, r, e) <=> \E i \in 1..n + 1 : b[i] = e
    <3>1. Pends(p, r, e) <=> b[1] = e \/ \E i \in 1..n : t[i] = e
      BY <2>1, <2>5 DEF Pends, n
    <3>2. ASSUME NEW i \in 1..n, t[i] = e PROVE \E j \in 1..n + 1 : b[j] = e
      BY <2>2, <2>6, <3>2
    <3>3. ASSUME NEW i \in 1..n + 1, b[i] = e PROVE b[1] = e \/ \E j \in 1..n : t[j] = e
      <4>1. CASE i = 1
        BY <3>3, <4>1
      <4>2. CASE i - 1 \in 1..n /\ (i - 1) + 1 = i
        <5>1. t[i - 1] = b[(i - 1) + 1]
          BY <2>2, <4>2
        <5> QED
          BY <3>3, <4>2, <5>1
      <4> QED
        BY <2>7, <4>1, <4>2
    <3> QED
      BY <2>7, <3>1, <3>2, <3>3
  <2>9. \A e : Pends(ch, r, e) <=> \E i \in 1..n + 1 : b[i] = e
    BY <1>0, <2>2 DEF Pends, b
  <2>10. ASSUME NEW a, NEW c, Precedes(p, r, a, c) PROVE Precedes(ch, r, a, c)
    <3>1. PICK i \in 1..n + 1, j \in 1..n + 1 : i < j /\ b[i] = a /\ b[j] = c
      <4>1. CASE InHand(p, r, a) /\ \E j \in 1..n : t[j] = c
        <5>1. PICK j \in 1..n : t[j] = c
          BY <4>1
        <5>2. b[1] = a /\ b[j + 1] = c /\ j + 1 \in 1..n + 1 /\ 1 < j + 1
          BY <2>2, <2>5, <2>6, <4>1, <5>1
        <5> QED
          BY <2>7, <5>2
      <4>2. CASE \E i, j \in 1..n : i < j /\ t[i] = a /\ t[j] = c
        <5>1. PICK i \in 1..n, j \in 1..n : i < j /\ t[i] = a /\ t[j] = c
          BY <4>2
        <5>2. b[i + 1] = a /\ b[j + 1] = c /\ i + 1 < j + 1
          BY <2>2, <5>1
        <5> QED
          BY <2>6, <5>2
      <4> QED
        BY <2>1, <2>10, <4>1, <4>2 DEF Precedes, n
    <3> QED
      BY <2>2, <3>1 DEF Precedes, b
  <2> QED
    BY <2>1, <2>8, <2>9, <2>10
<1> QED
  BY <1>1, <1>2

\* The receiver picks x up: what is left comes behind it.
LEMMA PickUpOrder ==
  ASSUME NEW T, NEW r, NEW k \in Nat \ {0}, NEW ch, Stream(ch, r, T, k), r \in DOMAIN ch.resolved,
         NEW x, ch.resolved[r] = Item(x), NEW p, p = PickUp(ch, r)
  PROVE  /\ p.dropped = ch.dropped
         /\ Pends(ch, r, x)
         /\ \A e : Pends(ch, r, e) => e = x \/ Pends(p, r, e)
         /\ \A e : Pends(p, r, e) => Pends(ch, r, e) /\ Precedes(ch, r, x, e)
         /\ \A a, b : Precedes(p, r, a, b) => Precedes(ch, r, a, b)
<1>1. /\ p.buffer = ch.buffer /\ p.dropped = ch.dropped
      /\ p.resolved = [d \in DOMAIN ch.resolved \ {r} |-> ch.resolved[d]]
  BY PickUpParts DEF Stream
<1>2. \A e : ~InHand(p, r, e)
  BY <1>1 DEF InHand
<1>3. \A e : Item(x) = Item(e) <=> x = e
  BY DEF Item
<1>4. \A e : InHand(ch, r, e) <=> e = x
  BY <1>3 DEF InHand
<1> QED
  BY <1>1, <1>2, <1>4 DEF Pends, Precedes

\* One push is a sequence of one.
LEMMA OnePush ==
  ASSUME NEW ch, NEW T, NEW s \in Seq(T), Len(s) = 1, NEW k PROVE PushAll(ch, s, k) = Push(ch, s[1], k)
<1>1. Len(s) \in Nat
  OBVIOUS
<1>2. PICK f : /\ f[0] = ch
               /\ \A n \in 1..Len(s) : f[n] = Push(f[n - 1], s[n], k)
               /\ PushAll(ch, s, k) = f[Len(s)]
  BY <1>1, PushAllSteps
<1>3. 1 \in 1..Len(s) /\ 1 - 1 = 0
  OBVIOUS
<1>4. f[1] = Push(f[1 - 1], s[1], k)
  BY <1>2, <1>3
<1> QED
  BY <1>2, <1>3, <1>4
=============================================================================
