--------------------------- MODULE ArenaRunProofs ---------------------------
(***************************************************************************)
(* What an arena run promises, from the slots of the server to the page of *)
(* the browser, for every set of runs and columns, every lineup, slot count *)
(* and capacity, and any number of turns and labels.                       *)
(*                                                                         *)
(* The server (ArenaRun).  Inv says of each gate that its free permits and *)
(* its owners add up, that its queue names exactly those who wait, each    *)
(* once, and that nobody waits while a permit is free (Fits); and of each  *)
(* run that its terminators, counted, in hand and buffered, are no more    *)
(* than its workers that are done, and that the last thing buffered is a   *)
(* terminator once all of them are (RunTold): what the drain loop relies   *)
(* on when it stops by count or by a quiet poll.  AllSpeak says where the  *)
(* complete of a column is and what may stand behind it, AllClose what is  *)
(* left of a run that ended by itself; both together tell the terminals.   *)
(*                                                                         *)
(* The page (ArenaPage).  PageInv says in which turn each run was started, *)
(* what of it is shown there, and that a transcript has each pair once.    *)
(*                                                                         *)
(* The timeline (TraceFlow) has its types here; what it tells is a fold    *)
(* over the events and stays with TLC.                                     *)
(***************************************************************************)
EXTENDS MCArena, SharedLemmas

-----------------------------------------------------------------------------
(* A gate and those around it.                                             *)

\* The gate is at one with the set of those who hold a permit and the set of those who
\* queue for one: permits are conserved, the queue names each of them once, and nobody
\* queues while a permit is free.
Fits(g, S, inside, waiting, permits) ==
  /\ g \in Gate(S, permits)
  /\ g.available + Cardinality(inside) = permits
  /\ ToSet(g.waiters) = waiting
  /\ \A i, j \in 1..Len(g.waiters) : g.waiters[i] = g.waiters[j] => i = j
  /\ g.waiters # <<>> => g.available = 0

\* The elements of a sequence by their places.
LEMMA ToSetPlaces ==
  ASSUME NEW S, NEW s \in Seq(S)
  PROVE  \A b : b \in ToSet(s) <=> \E i \in 1..Len(s) : s[i] = b
  BY DEF ToSet

\* acquire() with a free permit.
LEMMA FitsTake ==
  ASSUME NEW S, NEW permits \in Nat, NEW inside, IsFiniteSet(inside), NEW waiting, NEW g,
         Fits(g, S, inside, waiting, permits), g.available > 0, NEW a, a \notin inside
  PROVE  Fits(Take(g), S, inside \cup {a}, waiting, permits)
<1> DEFINE h == Take(g)
           n == g.available
           m == Cardinality(inside)
<1>1. g = [available |-> n, waiters |-> g.waiters] /\ n \in 0..permits /\ g.waiters \in Seq(S)
  BY DEF Fits, Gate
<1>2. h = [available |-> n - 1, waiters |-> g.waiters]
  BY <1>1 DEF Take
<1>3. Cardinality(inside \cup {a}) = m + 1 /\ m \in Nat
  BY FS_AddElement, FS_CardinalityType
<1>4. n + m = permits /\ n > 0 /\ g.waiters = <<>>
  BY <1>1 DEF Fits
<1> HIDE DEF n, m, h
<1>5. n - 1 \in 0..permits /\ (n - 1) + (m + 1) = permits
  BY <1>1, <1>3, <1>4
<1>6. h.available = n - 1 /\ h.waiters = g.waiters /\ h \in Gate(S, permits)
  BY <1>1, <1>2, <1>5 DEF Gate
<1> QED
  BY <1>3, <1>4, <1>5, <1>6 DEF Fits, h

\* acquire() without one joins the queue.
LEMMA FitsEnqueue ==
  ASSUME NEW S, NEW permits \in Nat, NEW inside, NEW waiting, NEW g,
         Fits(g, S, inside, waiting, permits), g.available = 0, NEW a \in S, a \notin waiting
  PROVE  Fits(Enqueue(g, a), S, inside, waiting \cup {a}, permits)
<1> DEFINE w == g.waiters
           h == Enqueue(g, a)
           v == Append(w, a)
           n == Len(w)
<1>1. g = [available |-> g.available, waiters |-> w] /\ g.available \in 0..permits /\ w \in Seq(S)
  BY DEF Fits, Gate
<1>2. h = [available |-> g.available, waiters |-> v]
  BY <1>1 DEF Enqueue
<1>3. v \in Seq(S) /\ Len(v) = n + 1 /\ n \in Nat
      /\ v[n + 1] = a /\ \A i \in 1..n : v[i] = w[i]
  BY <1>1, AppendProperties
<1>4. \A i \in 1..n : w[i] # a
  BY <1>1, ToSetPlaces DEF Fits
<1>5. \A i, j \in 1..n : w[i] = w[j] => i = j
  BY DEF Fits
<1> HIDE DEF h, v, n
<1>6. \A i, j \in 1..Len(v) : v[i] = v[j] => i = j
  <2> SUFFICES ASSUME NEW i \in 1..n + 1, NEW j \in 1..n + 1, v[i] = v[j] PROVE i = j
    BY <1>3
  <2>1. (i \in 1..n \/ i = n + 1) /\ (j \in 1..n \/ j = n + 1)
    BY <1>3
  <2> QED
    BY <1>3, <1>4, <1>5, <2>1
<1>7. ToSet(v) = waiting \cup {a}
  <2>1. \A b : b \in ToSet(v) <=> \E i \in 1..n + 1 : v[i] = b
    BY <1>3, ToSetPlaces
  <2>2. \A b : b \in waiting <=> \E i \in 1..n : w[i] = b
    BY <1>1, ToSetPlaces DEF Fits, n
  <2>3. \A i \in 1..n + 1 : i \in 1..n \/ i = n + 1
    BY <1>3
  <2>4. n + 1 \in 1..n + 1 /\ \A i \in 1..n : i \in 1..n + 1
    BY <1>3
  <2> QED
    BY <1>3, <2>1, <2>2, <2>3, <2>4
<1> QED
  BY <1>1, <1>2, <1>3, <1>6, <1>7 DEF Fits, Gate, h

\* A queue that loses the place k loses the one who queued there.
LEMMA QueueSplice ==
  ASSUME NEW S, NEW w \in Seq(S), NEW k \in 1..Len(w),
         \A i, j \in 1..Len(w) : w[i] = w[j] => i = j,
         NEW v, v = SpliceOut(w, k)
  PROVE  /\ v \in Seq(S) /\ ToSet(v) = ToSet(w) \ {w[k]}
         /\ \A i, j \in 1..Len(v) : v[i] = v[j] => i = j
<1> DEFINE u == SpliceOut(w, k)
<1>0. /\ \A b : (\E i \in 1..Len(u) : u[i] = b) <=> b # w[k] /\ \E i \in 1..Len(w) : w[i] = b
      /\ \A i, j \in 1..Len(u) : u[i] = u[j] => i = j
  BY SpliceOutElements, Zenon
<1>1. /\ \A b : (\E i \in 1..Len(v) : v[i] = b) <=> b # w[k] /\ \E i \in 1..Len(w) : w[i] = b
      /\ \A i, j \in 1..Len(v) : v[i] = v[j] => i = j
  BY <1>0
<1>2. v \in Seq(S)
  BY SpliceOutProperties
<1>3. \A b : b \in ToSet(v) <=> \E i \in 1..Len(v) : v[i] = b
  BY <1>2, ToSetPlaces
<1>4. \A b : b \in ToSet(w) <=> \E i \in 1..Len(w) : w[i] = b
  BY ToSetPlaces
<1> QED
  BY <1>1, <1>2, <1>3, <1>4

\* The abort of one who queues.
LEMMA FitsWithdraw ==
  ASSUME NEW S, NEW permits \in Nat, NEW inside, NEW waiting, NEW g,
         Fits(g, S, inside, waiting, permits), NEW a \in waiting
  PROVE  Fits(Withdraw(g, a), S, inside, waiting \ {a}, permits)
<1> DEFINE w == g.waiters
           h == Withdraw(g, a)
           k == CHOOSE i \in 1..Len(w) : w[i] = a
           v == SpliceOut(w, k)
<1>1. g = [available |-> g.available, waiters |-> w] /\ g.available \in 0..permits /\ w \in Seq(S)
  BY DEF Fits, Gate
<1>2. \E i \in 1..Len(w) : w[i] = a
  BY <1>1, ToSetPlaces DEF Fits
<1>3. k \in 1..Len(w) /\ w[k] = a
  BY <1>2
<1>4. h = [available |-> g.available, waiters |-> v]
  BY <1>1 DEF Withdraw
<1> HIDE DEF h, k
<1>5. \A i, j \in 1..Len(w) : w[i] = w[j] => i = j
  BY DEF Fits
<1>6. v \in Seq(S) /\ ToSet(v) = waiting \ {a} /\ \A i, j \in 1..Len(v) : v[i] = v[j] => i = j
  <2>1. ToSet(w) = waiting
    BY DEF Fits
  <2> QED
    BY <1>1, <1>3, <1>5, <2>1, QueueSplice
<1>7. g.available = 0
  BY <1>1, <1>3 DEF Fits
<1> HIDE DEF v
<1>8. h \in Gate(S, permits) /\ h.available = g.available /\ h.waiters = v
  BY <1>1, <1>4, <1>6 DEF Gate
<1> QED
  BY <1>6, <1>7, <1>8 DEF Fits, h

\* release(): the permit of a goes to the one who queued first or back to the pool.
LEMMA FitsGiveBack ==
  ASSUME NEW S, NEW permits \in Nat, NEW inside, IsFiniteSet(inside), NEW waiting, NEW g,
         Fits(g, S, inside, waiting, permits), NEW a \in inside, inside \cap waiting = {}
  PROVE  /\ Fits(GiveBack(g), S, (inside \ {a}) \cup Woken(g), waiting \ Woken(g), permits)
         /\ Woken(g) \subseteq waiting
<1> DEFINE w == g.waiters
           h == GiveBack(g)
           n == g.available
           m == Cardinality(inside)
           rest == inside \ {a}
<1>1. g = [available |-> n, waiters |-> w] /\ n \in 0..permits /\ w \in Seq(S)
  BY DEF Fits, Gate
<1>2. n + m = permits /\ m \in Nat
  BY FS_CardinalityType DEF Fits
<1>3. IsFiniteSet(rest) /\ Cardinality(rest) = m - 1 /\ Cardinality(rest) \in Nat
  BY FS_RemoveElement, FS_CardinalityType
<1>4. CASE w # <<>>
  <2> DEFINE b == w[1]
             v == SpliceOut(w, 1)
  <2>1. Tail(w) = v /\ Head(w) = b /\ 1 \in 1..Len(w)
    BY <1>1, <1>4, TailIsSpliceOut
  <2>2. \A i, j \in 1..Len(w) : w[i] = w[j] => i = j
    BY DEF Fits
  <2>3. v \in Seq(S) /\ ToSet(v) = waiting \ {b} /\ \A i, j \in 1..Len(v) : v[i] = v[j] => i = j
    <3>1. ToSet(w) = waiting
      BY DEF Fits
    <3> QED
      BY <1>1, <2>1, <2>2, <3>1, QueueSplice
  <2>4. Woken(g) = {b} /\ h = [available |-> n, waiters |-> v] /\ n = 0
    BY <1>1, <1>4, <2>1 DEF Woken, GiveBack, Fits
  <2>5. b \in waiting
    BY <1>1, <2>1, ToSetPlaces DEF Fits
  <2>6. b \notin rest
    BY <2>5
  <2> HIDE DEF v, h, b, rest, n, m
  <2>7. Cardinality(rest \cup {b}) = (m - 1) + 1
    BY <1>3, <2>6, FS_AddElement
  <2>8. n + Cardinality(rest \cup {b}) = permits
    BY <1>2, <2>7, <2>4
  <2>9. h \in Gate(S, permits) /\ h.available = n /\ h.waiters = v
    BY <1>1, <2>3, <2>4 DEF Gate
  <2>10. Fits(h, S, rest \cup {b}, waiting \ {b}, permits)
    BY <2>3, <2>4, <2>8, <2>9 DEF Fits
  <2> QED
    BY <2>4, <2>5, <2>10 DEF h, rest
<1>5. CASE w = <<>>
  <2>1. Woken(g) = {} /\ h = [available |-> n + 1, waiters |-> w]
    BY <1>1, <1>5 DEF Woken, GiveBack
  <2> HIDE DEF h, rest, n, m
  <2>2. m # 0
    BY FS_EmptySet DEF m
  <2>3. n + 1 \in 0..permits /\ (n + 1) + (m - 1) = permits
    BY <1>1, <1>2, <2>2
  <2>4. h \in Gate(S, permits) /\ h.available = n + 1 /\ h.waiters = w
    BY <1>1, <2>1, <2>3 DEF Gate
  <2>5. Fits(h, S, rest, waiting, permits)
    BY <1>3, <1>5, <2>3, <2>4 DEF Fits
  <2>6. rest \cup Woken(g) = rest /\ waiting \ Woken(g) = waiting /\ Woken(g) \subseteq waiting
    BY <2>1
  <2> QED
    BY <2>5, <2>6 DEF h, rest
<1> QED
  BY <1>4, <1>5

\* The first n elements of a sequence without repetitions are n.
LEMMA FirstElements ==
  ASSUME NEW S, NEW l \in Seq(S), \A i, j \in 1..Len(l) : l[i] = l[j] => i = j,
         NEW n \in 0..Len(l), NEW first, first = {l[i] : i \in 1..n}
  PROVE  IsFiniteSet(first) /\ Cardinality(first) = n
<1> DEFINE f == [i \in 1..n |-> l[i]]
<1>1. \A i \in 1..n : i \in 1..Len(l)
  OBVIOUS
<1>2. f \in Bijection(1..n, first)
  <2>1. f \in [1..n -> first]
    OBVIOUS
  <2>2. \A i, j \in 1..n : f[i] = f[j] => i = j
    BY <1>1
  <2>3. \A b \in first : \E i \in 1..n : f[i] = b
    OBVIOUS
  <2> HIDE DEF f
  <2>4. f \in Injection(1..n, first)
    BY <2>1, <2>2 DEF Injection, IsInjective
  <2>5. f \in Surjection(1..n, first)
    BY <2>1, <2>3 DEF Surjection
  <2> QED
    BY <2>4, <2>5 DEF Bijection
<1>3. n \in Nat /\ IsFiniteSet(1..n) /\ Cardinality(1..n) = n
  <2>1. n \in Nat
    OBVIOUS
  <2>2. IsFiniteSet(1..n) /\ Cardinality(1..n) = IF 1 > n THEN 0 ELSE n - 1 + 1
    BY <2>1, FS_Interval
  <2> QED
    BY <2>1, <2>2
<1> HIDE DEF f
<1>4. ExistsBijection(1..n, first)
  BY <1>2 DEF ExistsBijection
<1>5. IsFiniteSet(first) /\ Cardinality(first) = n
  BY <1>3, <1>4, FS_Bijection
<1> QED
  BY <1>5

\* Disjoint finite sets add up.
LEMMA DisjointUnion ==
  ASSUME NEW A, NEW B, IsFiniteSet(A), IsFiniteSet(B), A \cap B = {}
  PROVE  /\ IsFiniteSet(A \cup B) /\ Cardinality(A \cup B) = Cardinality(A) + Cardinality(B)
         /\ Cardinality(A) \in Nat /\ Cardinality(B) \in Nat
<1>1. Cardinality(A) \in Nat /\ Cardinality(B) \in Nat
  BY FS_CardinalityType
<1>2. IsFiniteSet(A \cup B) /\ Cardinality(A \cup B) = Cardinality(A) + Cardinality(B) - Cardinality(A \cap B)
  BY FS_Union
<1>3. Cardinality(A \cap B) = 0
  BY FS_EmptySet
<1> QED
  BY <1>1, <1>2, <1>3

\* What is left of a sequence behind its first t elements.
LeftOf(rest, S, l, t) ==
  rest \in Seq(S) /\ Len(rest) = Len(l) - t /\ \A i \in 1..(Len(l) - t) : rest[i] = l[t + i]

\* SubSeq gives it.
LEMMA RestProperties ==
  ASSUME NEW S, NEW l \in Seq(S), NEW t \in 0..Len(l)
  PROVE  LeftOf(SubSeq(l, t + 1, Len(l)), S, l, t)
<1> DEFINE n == Len(l)
           m == t + 1
           r == SubSeq(l, m, n)
<1>1. n \in Nat /\ t \in 0..n
  OBVIOUS
<1>2. \A i \in 1..n : l[i] \in S
  BY ElementOfSeq
<1> HIDE DEF n
<1>3. m \in Int /\ n \in Int /\ \A i \in m..n : l[i] \in S
  BY <1>1, <1>2
<1> HIDE DEF m
<1>4. /\ r \in Seq(S) /\ Len(r) = IF m <= n THEN n - m + 1 ELSE 0
      /\ \A i \in 1..n - m + 1 : r[i] = l[m + i - 1]
  BY <1>3, SubSeqProperties
<1>5. m = t + 1
  BY DEF m
<1> HIDE DEF r
<1>6. Len(r) = n - t
  BY <1>1, <1>4, <1>5
<1>7. \A i \in 1..(n - t) : i \in 1..n - m + 1 /\ m + i - 1 = t + i
  BY <1>1, <1>5
<1> QED
  BY <1>4, <1>6, <1>7 DEF r, n, m, LeftOf

\* The places behind k elements, of what is left of n behind the first t.
LEMMA PlacesBehind ==
  ASSUME NEW k \in Nat, NEW n \in Nat, NEW t \in 0..n
  PROVE  /\ \A i \in (k + 1)..(k + (n - t)) :
              /\ i \in 1..k + (n - t) /\ ~ (i <= k) /\ i - k \in 1..(n - t)
              /\ t + (i - k) \in 1..n /\ t + (i - k) \notin 1..t
         /\ \A j \in 1..n : j \notin 1..t =>
              k + (j - t) \in (k + 1)..(k + (n - t)) /\ t + ((k + (j - t)) - k) = j
         /\ \A i, j \in (k + 1)..(k + (n - t)) : t + (i - k) = t + (j - k) => i = j
         /\ \A i \in 1..k + (n - t) : i \in 1..k \/ i \in (k + 1)..(k + (n - t))
         /\ \A i \in 1..k : i \in 1..k + (n - t) /\ i <= k
<1>1. \A i \in (k + 1)..(k + (n - t)) :
              /\ i \in 1..k + (n - t) /\ ~ (i <= k) /\ i - k \in 1..(n - t)
              /\ t + (i - k) \in 1..n /\ t + (i - k) \notin 1..t
  OBVIOUS
<1>2. \A j \in 1..n : j \notin 1..t =>
              k + (j - t) \in (k + 1)..(k + (n - t)) /\ t + ((k + (j - t)) - k) = j
  OBVIOUS
<1>3. \A i, j \in (k + 1)..(k + (n - t)) : t + (i - k) = t + (j - k) => i = j
  OBVIOUS
<1>4. /\ \A i \in 1..k + (n - t) : i \in 1..k \/ i \in (k + 1)..(k + (n - t))
      /\ \A i \in 1..k : i \in 1..k + (n - t) /\ i <= k
  OBVIOUS
<1> QED
  BY <1>1, <1>2, <1>3, <1>4

\* A queue w that is followed by what is left of l behind its first t elements.
JoinsOn(v, S, w, l, t) ==
  /\ v \in Seq(S) /\ Len(v) = Len(w) + (Len(l) - t)
  /\ \A i \in 1..Len(w) : v[i] = w[i]
  /\ \A i \in (Len(w) + 1)..(Len(w) + (Len(l) - t)) : v[i] = l[t + (i - Len(w))]

\* Concatenation gives it.
LEMMA ConcatJoins ==
  ASSUME NEW S, NEW w \in Seq(S), NEW l \in Seq(S), NEW t \in 0..Len(l),
         NEW rest, LeftOf(rest, S, l, t)
  PROVE  JoinsOn(w \o rest, S, w, l, t)
<1> DEFINE n == Len(l)
           k == Len(w)
           v == w \o rest
<1>1. n \in Nat /\ k \in Nat /\ t \in 0..n
  OBVIOUS
<1>2. rest \in Seq(S) /\ Len(rest) = n - t /\ \A i \in 1..(n - t) : rest[i] = l[t + i]
  BY DEF LeftOf
<1>3. /\ v \in Seq(S) /\ Len(v) = k + Len(rest)
      /\ \A i \in 1..k + Len(rest) : v[i] = IF i <= k THEN w[i] ELSE rest[i - k]
  BY <1>2, ConcatProperties
<1> HIDE DEF n, k, v
<1>4. /\ \A i \in (k + 1)..(k + (n - t)) :
           i \in 1..k + (n - t) /\ ~ (i <= k) /\ i - k \in 1..(n - t)
      /\ \A i \in 1..k : i \in 1..k + (n - t) /\ i <= k
  BY <1>1, PlacesBehind
<1>5. ASSUME NEW i \in (k + 1)..(k + (n - t)) PROVE v[i] = l[t + (i - k)]
  BY <1>2, <1>3, <1>4
<1>6. \A i \in 1..k : v[i] = w[i]
  BY <1>2, <1>3, <1>4
<1> QED
  BY <1>2, <1>3, <1>5, <1>6 DEF n, k, v, JoinsOn

\* A sequence that names nobody twice; the first t of a sequence.
OnceEach(s) == \A i, j \in 1..Len(s) : s[i] = s[j] => i = j
FirstOf(first, l, t) == \A b : b \in first <=> \E i \in 1..t : l[i] = b

\* It names those who queued before and the others, each of them once.
LEMMA JoinedQueue ==
  ASSUME NEW S, NEW w \in Seq(S), OnceEach(w), NEW l \in Seq(S), OnceEach(l),
         ToSet(w) \cap ToSet(l) = {}, NEW t \in 0..Len(l),
         NEW v, JoinsOn(v, S, w, l, t), NEW first, FirstOf(first, l, t)
  PROVE  OnceEach(v) /\ ToSet(v) = ToSet(w) \cup (ToSet(l) \ first)
<1> USE DEF OnceEach, FirstOf
<1> DEFINE n == Len(l)
           k == Len(w)
<1>1. n \in Nat /\ k \in Nat /\ t \in 0..n
  OBVIOUS
<1>4. v \in Seq(S) /\ Len(v) = k + (n - t)
  BY DEF JoinsOn
<1>10. \A i \in 1..k : v[i] = w[i]
  BY DEF JoinsOn
<1>11. ASSUME NEW i \in (k + 1)..(k + (n - t)) PROVE v[i] = l[t + (i - k)]
  BY DEF JoinsOn
<1>5. \A i \in 1..n : l[i] \in ToSet(l)
  BY ToSetPlaces
<1>6. \A i \in 1..k : w[i] \in ToSet(w)
  BY ToSetPlaces
<1>7. /\ \A i, j \in 1..k : w[i] = w[j] => i = j
      /\ \A i, j \in 1..n : l[i] = l[j] => i = j
  OBVIOUS
<1>8. /\ \A b : b \in ToSet(w) <=> \E i \in 1..k : w[i] = b
      /\ \A b : b \in ToSet(l) <=> \E i \in 1..n : l[i] = b
      /\ \A b : b \in ToSet(v) <=> \E i \in 1..Len(v) : v[i] = b
  <2>1. \A b : b \in ToSet(w) <=> \E i \in 1..k : w[i] = b
    BY ToSetPlaces
  <2>2. \A b : b \in ToSet(l) <=> \E i \in 1..n : l[i] = b
    BY ToSetPlaces
  <2>3. \A b : b \in ToSet(v) <=> \E i \in 1..Len(v) : v[i] = b
    <3>1. v \in Seq(S)
      BY <1>4
    <3> QED
      BY <3>1 DEF ToSet
  <2> QED
    BY <2>1, <2>2, <2>3
<1> HIDE DEF n, k
<1>9. /\ \A i \in (k + 1)..(k + (n - t)) :
           /\ i \in 1..k + (n - t) /\ ~ (i <= k) /\ i - k \in 1..(n - t)
           /\ t + (i - k) \in 1..n /\ t + (i - k) \notin 1..t
      /\ \A j \in 1..n : j \notin 1..t =>
           k + (j - t) \in (k + 1)..(k + (n - t)) /\ t + ((k + (j - t)) - k) = j
      /\ \A i, j \in (k + 1)..(k + (n - t)) : t + (i - k) = t + (j - k) => i = j
      /\ \A i \in 1..k + (n - t) : i \in 1..k \/ i \in (k + 1)..(k + (n - t))
      /\ \A i \in 1..k : i \in 1..k + (n - t) /\ i <= k
  BY <1>1, PlacesBehind
<1>12. \A i, j \in 1..Len(v) : v[i] = v[j] => i = j
  <2> SUFFICES ASSUME NEW i \in 1..Len(v), NEW j \in 1..Len(v), v[i] = v[j] PROVE i = j
    OBVIOUS
  <2>1. CASE i \in 1..k /\ j \in 1..k
    BY <1>7, <1>10, <2>1
  <2>2. CASE i \in 1..k /\ j \in (k + 1)..(k + (n - t))
    <3>1. v[i] \in ToSet(w) /\ v[j] \in ToSet(l)
      BY <1>5, <1>6, <1>9, <1>10, <1>11, <2>2
    <3> QED
      BY <3>1
  <2>3. CASE i \in (k + 1)..(k + (n - t)) /\ j \in 1..k
    <3>1. v[j] \in ToSet(w) /\ v[i] \in ToSet(l)
      BY <1>5, <1>6, <1>9, <1>10, <1>11, <2>3
    <3> QED
      BY <3>1
  <2>4. CASE i \in (k + 1)..(k + (n - t)) /\ j \in (k + 1)..(k + (n - t))
    <3> DEFINE a == t + (i - k)
               b == t + (j - k)
    <3>2. a \in 1..n /\ b \in 1..n
      BY <1>9, <2>4
    <3>3. v[i] = l[a] /\ v[j] = l[b]
      BY <1>11, <2>4
    <3> HIDE DEF a, b
    <3>4. a = b
      BY <1>7, <3>2, <3>3
    <3>1. t + (i - k) = t + (j - k)
      BY <3>4 DEF a, b
    <3> QED
      BY <1>9, <2>4, <3>1
  <2> QED
    BY <1>4, <1>9, <2>1, <2>2, <2>3, <2>4
<1>13. \A x \in 1..t : x \in 1..n
  BY <1>1
<1>14. ASSUME NEW b \in ToSet(v) PROVE b \in ToSet(w) \cup (ToSet(l) \ first)
  <2>1. PICK i \in 1..Len(v) : v[i] = b
    BY <1>8
  <2>2. CASE i \in 1..k
    BY <1>6, <1>10, <2>1, <2>2
  <2>3. CASE i \in (k + 1)..(k + (n - t))
    <3> DEFINE j == t + (i - k)
    <3>1. b = l[j] /\ j \in 1..n /\ j \notin 1..t
      BY <1>9, <1>11, <2>1, <2>3
    <3> HIDE DEF j
    <3>2. b \notin first
      BY <1>7, <1>13, <3>1
    <3> QED
      BY <1>5, <3>1, <3>2
  <2> QED
    BY <1>4, <1>9, <2>2, <2>3
<1>15. ASSUME NEW b \in ToSet(w) PROVE b \in ToSet(v)
  <2>1. PICK i \in 1..k : w[i] = b
    BY <1>8
  <2>2. i \in 1..Len(v) /\ v[i] = b
    BY <1>4, <1>9, <1>10, <2>1
  <2> QED
    BY <1>8, <2>2
<1>16. ASSUME NEW b \in ToSet(l), b \notin first PROVE b \in ToSet(v)
  <2>1. PICK j \in 1..n : l[j] = b
    BY <1>8
  <2>2. j \notin 1..t
    BY <1>16, <2>1
  <2> DEFINE i == k + (j - t)
  <2>3. i \in (k + 1)..(k + (n - t)) /\ t + (i - k) = j
    BY <1>9, <2>2
  <2> HIDE DEF i
  <2>4. i \in 1..Len(v) /\ v[i] = b
    BY <1>4, <1>9, <1>11, <2>1, <2>3
  <2> QED
    BY <1>8, <2>4
<1>17. ToSet(v) = ToSet(w) \cup (ToSet(l) \ first)
  BY <1>14, <1>15, <1>16
<1> QED
  BY <1>4, <1>12, <1>17

\* All workers of a run are spawned in one stretch: the first take the free permits, and
\* the others queue behind those who wait.
LEMMA FitsStart ==
  ASSUME NEW S, NEW permits \in Nat, NEW inside, IsFiniteSet(inside), NEW waiting, NEW g,
         Fits(g, S, inside, waiting, permits),
         NEW n \in Nat, NEW take \in 0..n, take <= g.available,
         take = n \/ take = g.available,
         NEW granted, IsFiniteSet(granted), Cardinality(granted) = take, inside \cap granted = {},
         NEW v \in Seq(S), Len(v) = Len(g.waiters) + (n - take),
         \A i, j \in 1..Len(v) : v[i] = v[j] => i = j
  PROVE  Fits([available |-> g.available - take, waiters |-> v], S, inside \cup granted,
              ToSet(v), permits)
<1> DEFINE w == g.waiters
           free == g.available
           m == Cardinality(inside)
           h == [available |-> free - take, waiters |-> v]
<1>1. free \in 0..permits /\ w \in Seq(S)
  BY DEF Fits, Gate
<1>2. free + m = permits /\ (w # <<>> => free = 0)
  BY DEF Fits
<1>3. Cardinality(inside \cup granted) = m + take /\ m \in Nat
  BY DisjointUnion
<1>4. Len(v) = Len(w) + (n - take) /\ take <= free /\ (take = n \/ take = free)
  OBVIOUS
<1>5. h.available = free - take /\ h.waiters = v
  OBVIOUS
<1> HIDE DEF w, free, m
<1>6. free - take \in 0..permits /\ (free - take) + (m + take) = permits
  BY <1>1, <1>2, <1>3, <1>4
<1>7. h \in Gate(S, permits)
  BY <1>6 DEF Gate
<1>8. ASSUME v # <<>> PROVE free - take = 0
  <2>1. CASE w # <<>>
    <3>1. free = 0
      BY <1>2, <2>1
    <3> QED
      BY <1>4, <3>1
  <2>2. CASE w = <<>>
    <3>1. Len(w) = 0
      BY <2>2
    <3>2. Len(v) # 0
      BY <1>8, EmptySeq
    <3>3. n - take # 0
      BY <1>4, <3>1, <3>2
    <3> QED
      BY <1>1, <1>4, <3>3
  <2> QED
    BY <2>1, <2>2
<1> HIDE DEF h
<1>9. h.available + Cardinality(inside \cup granted) = permits
  BY <1>3, <1>5, <1>6
<1>10. h.waiters # <<>> => h.available = 0
  BY <1>5, <1>8
<1>11. Fits(h, S, inside \cup granted, ToSet(v), permits)
  BY <1>5, <1>7, <1>9, <1>10 DEF Fits
<1> QED
  BY <1>11 DEF h, free

\* WithdrawAll goes through the sequence, by way of f.
WithdrawnBy(f, g, l, Q) ==
  /\ f[0] = g
  /\ \A n \in 1..Len(l) : f[n] = IF l[n] \in Q THEN Withdraw(f[n - 1], l[n]) ELSE f[n - 1]
  /\ WithdrawAll(g, l, Q) = f[Len(l)]

LEMMA WithdrawSteps ==
  ASSUME NEW g, NEW l, Len(l) \in Nat, NEW Q
  PROVE  \E f : WithdrawnBy(f, g, l, Q)
<1> DEFINE len == Len(l)
           Next1(x, n) == IF l[n] \in Q THEN Withdraw(x, l[n]) ELSE x
           ReachedBy(n, f) == f = [m \in 0..n |-> IF m = 0 THEN g
                                                ELSE IF l[m] \in Q THEN Withdraw(f[m - 1], l[m])
                                                ELSE f[m - 1]]
           Reach == {n \in Nat : \E f : ReachedBy(n, f)}
<1>1. 0 \in Reach
  <2>1. ReachedBy(0, [m \in 0..0 |-> g])
    OBVIOUS
  <2> QED
    BY <2>1
<1>2. ASSUME NEW n \in Nat, n \in Reach PROVE n + 1 \in Reach
  <2>1. PICK f : ReachedBy(n, f)
    BY <1>2
  <2> DEFINE v == Next1(f[n], n + 1)
             h == [m \in 0..n + 1 |-> IF m = n + 1 THEN v ELSE f[m]]
  <2>2. \A m \in 0..n : h[m] = IF m = 0 THEN g ELSE Next1(f[m - 1], m)
    BY <2>1
  <2>3. \A m \in 1..n : h[m - 1] = f[m - 1]
    OBVIOUS
  <2>4. h[n + 1] = Next1(h[n], n + 1)
    OBVIOUS
  <2> HIDE DEF Next1
  <2>5. ASSUME NEW m \in 0..n + 1
        PROVE  h[m] = IF m = 0 THEN g ELSE Next1(h[m - 1], m)
    <3>1. CASE m = 0
      <4>1. 0 \in 0..n
        OBVIOUS
      <4> HIDE DEF h
      <4> QED
        BY <2>2, <3>1, <4>1
    <3>2. CASE m \in 1..n
      <4>1. m \in 0..n /\ m # 0
        BY <3>2
      <4> HIDE DEF h
      <4>2. h[m] = Next1(f[m - 1], m)
        BY <2>2, <4>1
      <4>3. h[m - 1] = f[m - 1]
        BY <2>3, <3>2
      <4> QED
        BY <4>1, <4>2, <4>3
    <3>3. CASE m = n + 1
      <4>1. m - 1 = n /\ m # 0
        BY <3>3
      <4> HIDE DEF h
      <4> QED
        BY <2>4, <3>3, <4>1
    <3> QED
      BY <3>1, <3>2, <3>3
  <2>6. DOMAIN h = 0..n + 1 /\ h = [m \in DOMAIN h |-> h[m]]
    OBVIOUS
  <2> HIDE DEF h
  <2>7. ReachedBy(n + 1, h)
    BY <2>5, <2>6 DEF Next1
  <2> QED
    BY <2>7
<1> HIDE DEF Reach
<1>3. len \in Reach
  BY <1>1, <1>2, SetInduction
<1>4. \E f : ReachedBy(len, f)
  BY <1>3 DEF Reach
<1> DEFINE after == CHOOSE f : ReachedBy(len, f)
<1>5. ReachedBy(len, after)
  BY <1>4
<1>6. WithdrawAll(g, l, Q) = after[len]
  BY DEF WithdrawAll
<1> HIDE DEF after
<1>7. after[0] = g /\ \A n \in 1..len : after[n] = IF l[n] \in Q THEN Withdraw(after[n - 1], l[n])
                                                   ELSE after[n - 1]
  <2>1. after[0] = g
    BY <1>5
  <2>2. ASSUME NEW n \in 1..len
        PROVE  after[n] = IF l[n] \in Q THEN Withdraw(after[n - 1], l[n]) ELSE after[n - 1]
    <3>1. n \in 0..len /\ n # 0
      OBVIOUS
    <3> HIDE DEF len
    <3>2. after[n] = IF n = 0 THEN g ELSE IF l[n] \in Q THEN Withdraw(after[n - 1], l[n])
                                         ELSE after[n - 1]
      BY <1>5, <3>1
    <3> QED
      BY <3>1, <3>2
  <2> QED
    BY <2>1, <2>2
<1> QED
  BY <1>6, <1>7 DEF WithdrawnBy

\* The abort of a run: its columns that queue leave the queue, and nobody else does.
LEMMA FitsAbort ==
  ASSUME NEW S, NEW permits \in Nat, NEW inside, NEW waiting, NEW g,
         Fits(g, S, inside, waiting, permits), NEW l \in Seq(S),
         \A i, j \in 1..Len(l) : l[i] = l[j] => i = j,
         NEW Q \in SUBSET waiting, Q \subseteq ToSet(l)
  PROVE  Fits(WithdrawAll(g, l, Q), S, inside, waiting \ Q, permits)
<1>a. Len(l) \in Nat
  OBVIOUS
<1>b. PICK f : WithdrawnBy(f, g, l, Q)
  BY <1>a, WithdrawSteps
<1> DEFINE len == Len(l)
           gone(n) == {b \in Q : \E i \in 1..n : l[i] = b}
<1>1. len \in Nat /\ \A i, j \in 1..len : l[i] = l[j] => i = j
  OBVIOUS
<1>2. \A b \in Q : \E i \in 1..len : l[i] = b
  BY ToSetPlaces
<1>3. /\ f[0] = g
      /\ \A n \in 1..len : f[n] = IF l[n] \in Q THEN Withdraw(f[n - 1], l[n]) ELSE f[n - 1]
      /\ WithdrawAll(g, l, Q) = f[len]
  BY <1>b DEF WithdrawnBy
<1> HIDE DEF len
<1> DEFINE Good == {n \in Nat : n <= len => Fits(f[n], S, inside, waiting \ gone(n), permits)}
<1>4. 0 \in Good
  <2>1. gone(0) = {}
    OBVIOUS
  <2>2. waiting \ gone(0) = waiting
    BY <2>1
  <2> HIDE DEF gone
  <2> QED
    BY <1>3, <2>2
<1>5. ASSUME NEW n \in Nat, n \in Good PROVE n + 1 \in Good
  <2> SUFFICES ASSUME n + 1 <= len
               PROVE  Fits(f[n + 1], S, inside, waiting \ gone(n + 1), permits)
    OBVIOUS
  <2>1. n + 1 \in 1..len /\ n <= len /\ (n + 1) - 1 = n /\ \A i \in 1..n : i \in 1..len /\ i # n + 1
    BY <1>1
  <2>2. Fits(f[n], S, inside, waiting \ gone(n), permits)
    BY <1>5, <2>1
  <2> DEFINE x == l[n + 1]
  <2>3. f[n + 1] = IF x \in Q THEN Withdraw(f[n], x) ELSE f[n]
    BY <1>3, <2>1
  <2>4. \A i \in 1..n + 1 : i \in 1..n \/ i = n + 1
    OBVIOUS
  <2>5. \A i \in 1..n : i \in 1..n + 1
    OBVIOUS
  <2>6. CASE x \in Q
    <3>1. gone(n + 1) = gone(n) \cup {x}
      BY <2>1, <2>4, <2>5, <2>6
    <3>2. x \notin gone(n)
      BY <1>1, <2>1
    <3> HIDE DEF gone, x
    <3>3. x \in waiting \ gone(n)
      BY <2>6, <3>2
    <3>4. (waiting \ gone(n)) \ {x} = waiting \ gone(n + 1)
      BY <3>1
    <3>5. Fits(Withdraw(f[n], x), S, inside, (waiting \ gone(n)) \ {x}, permits)
      BY <2>2, <3>3, FitsWithdraw
    <3> QED
      BY <2>3, <2>6, <3>4, <3>5
  <2>7. CASE x \notin Q
    <3>1. gone(n + 1) = gone(n)
      BY <2>4, <2>5, <2>7
    <3> HIDE DEF gone
    <3> QED
      BY <2>2, <2>3, <2>7, <3>1
  <2> QED
    BY <2>6, <2>7
<1> HIDE DEF Good
<1>6. len \in Good
  BY <1>1, <1>4, <1>5, SetInduction
<1>7. Fits(f[len], S, inside, waiting \ gone(len), permits)
  BY <1>1, <1>6 DEF Good
<1>8. gone(len) = Q
  BY <1>2
<1> QED
  BY <1>3, <1>7, <1>8

-----------------------------------------------------------------------------
(* A run and its channel.                                                  *)

\* Before the workers are spawned; when the drain loop has ended by itself.
Early == {"idle", "opening", "slot", "admitted"}
Over == {"publishing", "reporting"}

\* The channel is waited for exactly while the drain loop receives; the terminators
\* counted and pending are no more than the workers done; once all of them are done, a
\* terminator ends what is buffered; nothing is buffered before a worker is born; and a
\* loop that has ended left nothing behind.
RunTold(r, g, ch, fin, all, done, born) ==
  /\ Stream(ch, r, Items, Capacity) /\ ~ch.closed
  /\ Awaited(ch) => g = "receiving"
  /\ g = "receiving" => Awaited(ch)
  /\ fin \in Nat /\ fin + Pending(ch, r, End) <= Cardinality(done)
  /\ all \subseteq done /\ ch.buffer # <<>> => ch.buffer[Len(ch.buffer)] = End
  /\ g \in Early => born = {} /\ ch.buffer = <<>>
  /\ g \in Over => all \subseteq done /\ ch.buffer = <<>>

\* The capacity of the channel.
LEMMA CapacityOK == Capacity \in Nat \ {0} /\ Capacity \in Nat
  BY ArenaAssumption DEF ArenaAssumption

\* A sequence of items without a terminator has no place of one.
LEMMA NoEnds ==
  ASSUME NEW items \in Seq(Items), \A i \in 1..Len(items) : items[i] # End
  PROVE  Cardinality(PlacesOf(items, End)) = 0
<1>1. PlacesOf(items, End) = {}
  BY DEF PlacesOf
<1> QED
  BY <1>1, FS_EmptySet

\* The run moves on and its channel rests.
LEMMA ToldMoves ==
  ASSUME NEW r, NEW g, NEW ch, NEW fin, NEW all, NEW done, NEW born,
         RunTold(r, g, ch, fin, all, done, born),
         NEW h, h = "receiving" => g = "receiving", g = "receiving" => h = "receiving",
         h \in Early => g \in Early, h \in Over => g \in Over
  PROVE  RunTold(r, h, ch, fin, all, done, born)
  BY DEF RunTold

\* A worker that lives pushes events.
LEMMA ToldPushAll ==
  ASSUME NEW r, NEW g, NEW ch, NEW fin, NEW all, NEW done, NEW born,
         RunTold(r, g, ch, fin, all, done, born), IsFiniteSet(done),
         NEW c \in all, c \notin done, c \in born,
         NEW items \in Seq(Items), \A i \in 1..Len(items) : items[i] # End,
         NEW p, p = PushAll(ch, items, Capacity)
  PROVE  RunTold(r, g, p, fin, all, done, born)
<1>1. Stream(ch, r, Items, Capacity) /\ ~ch.closed
  BY DEF RunTold
<1>2. Stream(p, r, Items, Capacity) /\ p.closed = ch.closed
  BY <1>1, CapacityOK, PushAllStream
<1>3. Awaited(p) => Awaited(ch)
  BY <1>1, CapacityOK, PushAllUnawaited
<1>4. Awaited(ch) => Awaited(p)
  BY <1>1, CapacityOK, PushAllAwaited
<1>5. Pending(p, r, End) <= Pending(ch, r, End) + Cardinality(PlacesOf(items, End))
  BY <1>1, CapacityOK, PushAllPending
<1>6. Pending(p, r, End) \in Nat /\ Pending(ch, r, End) \in Nat /\ Cardinality(done) \in Nat
  BY <1>1, <1>2, CapacityOK, PendingFacts, FS_CardinalityType
<1>7. fin \in Nat /\ fin + Pending(ch, r, End) <= Cardinality(done)
  BY DEF RunTold
<1>8. fin + Pending(p, r, End) <= Cardinality(done)
  BY <1>5, <1>6, <1>7, NoEnds
<1>9. g \notin Early /\ g \notin Over
  BY DEF RunTold
<1> QED
  BY <1>1, <1>2, <1>3, <1>4, <1>7, <1>8, <1>9 DEF RunTold

\* A worker that lives pushes one event.
LEMMA ToldPush ==
  ASSUME NEW r, NEW g, NEW ch, NEW fin, NEW all, NEW done, NEW born,
         RunTold(r, g, ch, fin, all, done, born), IsFiniteSet(done),
         NEW c \in all, c \notin done, c \in born,
         NEW x \in Items, x # End, NEW p, p = Push(ch, x, Capacity)
  PROVE  RunTold(r, g, p, fin, all, done, born)
<1>1. Stream(ch, r, Items, Capacity) /\ ~ch.closed
  BY DEF RunTold
<1>2. Stream(p, r, Items, Capacity) /\ p.closed = ch.closed
  BY <1>1, CapacityOK, PushStream
<1>3. Awaited(p) => Awaited(ch)
  BY <1>1, CapacityOK, PushUnawaited
<1>4. Awaited(ch) => Awaited(p)
  BY <1>1, CapacityOK, PushAwaited
<1>5. Pending(p, r, End) <= Pending(ch, r, End)
  BY <1>1, CapacityOK, PushPending
<1>6. Pending(p, r, End) \in Nat /\ Pending(ch, r, End) \in Nat /\ Cardinality(done) \in Nat
  BY <1>1, <1>2, CapacityOK, PendingFacts, FS_CardinalityType
<1>7. fin \in Nat /\ fin + Pending(ch, r, End) <= Cardinality(done)
  BY DEF RunTold
<1>8. fin + Pending(p, r, End) <= Cardinality(done)
  BY <1>5, <1>6, <1>7
<1>9. g \notin Early /\ g \notin Over
  BY DEF RunTold
<1> QED
  BY <1>1, <1>2, <1>3, <1>4, <1>7, <1>8, <1>9 DEF RunTold

\* A worker is done: its terminator follows what it pushed.
LEMMA ToldFinish ==
  ASSUME NEW r, NEW g, NEW ch, NEW fin, NEW all, NEW done, NEW born,
         RunTold(r, g, ch, fin, all, done, born), IsFiniteSet(done),
         NEW c \in all, c \notin done, c \in born,
         NEW items \in Seq(Items), \A i \in 1..Len(items) : items[i] # End,
         NEW p, p = PushAll(ch, Append(items, End), Capacity)
  PROVE  RunTold(r, g, p, fin, all, done \cup {c}, born)
<1> DEFINE s == Append(items, End)
           n == Cardinality(done)
<1>1. Stream(ch, r, Items, Capacity) /\ ~ch.closed
  BY DEF RunTold
<1>2. s \in Seq(Items) /\ Len(s) = Len(items) + 1 /\ s[Len(items) + 1] = End /\ End \in Items
  <2>1. End \in Items
    BY DEF Items
  <2> QED
    BY <2>1, AppendProperties
<1>3. s # <<>> /\ s[Len(s)] = End
  BY <1>2, EmptySeq
<1>4. Cardinality(PlacesOf(s, End)) = 1
  <2>1. Cardinality(PlacesOf(s, End)) = Cardinality(PlacesOf(items, End)) + 1
    BY <1>2, PlacesAppend
  <2> QED
    BY <2>1, NoEnds
<1>5. p = PushAll(ch, s, Capacity)
  OBVIOUS
<1> HIDE DEF s
<1>6. Stream(p, r, Items, Capacity) /\ p.closed = ch.closed
  BY <1>1, <1>2, <1>5, CapacityOK, PushAllStream
<1>7. Awaited(p) => Awaited(ch)
  BY <1>1, <1>2, <1>5, CapacityOK, PushAllUnawaited
<1>8. Awaited(ch) => Awaited(p)
  BY <1>1, <1>2, <1>5, CapacityOK, PushAllAwaited
<1>9. Pending(p, r, End) <= Pending(ch, r, End) + Cardinality(PlacesOf(s, End))
  BY <1>1, <1>2, <1>5, CapacityOK, PushAllPending
<1>10. p.buffer = <<>> \/ p.buffer[Len(p.buffer)] = s[Len(s)]
  BY <1>1, <1>2, <1>3, <1>5, CapacityOK, PushAllIsLast
<1>11. Pending(p, r, End) \in Nat /\ Pending(ch, r, End) \in Nat /\ n \in Nat
  BY <1>1, <1>6, CapacityOK, PendingFacts, FS_CardinalityType
<1>12. fin \in Nat /\ fin + Pending(ch, r, End) <= n
  BY DEF RunTold
<1>13. Cardinality(done \cup {c}) = n + 1
  BY FS_AddElement
<1> HIDE DEF n
<1>14. fin + Pending(p, r, End) <= Cardinality(done \cup {c})
  BY <1>4, <1>9, <1>11, <1>12, <1>13
<1>15. g \notin Early /\ g \notin Over
  BY DEF RunTold
<1> QED
  BY <1>1, <1>3, <1>6, <1>7, <1>8, <1>10, <1>12, <1>14, <1>15 DEF RunTold

\* Nothing is pushed.
LEMMA PushNothing ==
  ASSUME NEW ch, NEW s, Len(s) = 0 PROVE PushAll(ch, s, Capacity) = ch
<1>1. Len(s) \in Nat
  OBVIOUS
<1>2. PICK f : f[0] = ch /\ PushAll(ch, s, Capacity) = f[Len(s)]
  BY <1>1, PushAllSteps
<1> QED
  BY <1>2

\* The abort of a run: a terminator for each column that queued.
LEMMA ToldAbort ==
  ASSUME NEW r, NEW g, NEW ch, NEW fin, NEW all, NEW done, NEW born,
         RunTold(r, g, ch, fin, all, done, born), IsFiniteSet(done),
         NEW Q \in SUBSET all, IsFiniteSet(Q), Q \cap done = {}, Q \subseteq born,
         NEW p, p = PushAll(ch, [i \in 1..Cardinality(Q) |-> End], Capacity)
  PROVE  RunTold(r, g, p, fin, all, done \cup Q, born)
<1> DEFINE m == Cardinality(Q)
           s == [i \in 1..m |-> End]
           n == Cardinality(done)
<1>1. Stream(ch, r, Items, Capacity) /\ ~ch.closed
  BY DEF RunTold
<1>2. m \in Nat /\ (m = 0 <=> Q = {})
  BY FS_CardinalityType, FS_EmptySet
<1>a. p = PushAll(ch, s, Capacity)
  OBVIOUS
<1> HIDE DEF m
<1>3. s \in Seq(Items) /\ Len(s) = m /\ \A i \in 1..m : s[i] = End
  BY <1>2 DEF Items
<1> HIDE DEF s
<1>4. CASE Q = {}
  <2>1. p = ch
    BY <1>2, <1>3, <1>4, <1>a, PushNothing
  <2>2. done \cup Q = done
    BY <1>4
  <2> QED
    BY <2>1, <2>2
<1>5. CASE Q # {}
  <2>1. g \notin Early /\ g \notin Over
    BY <1>5 DEF RunTold
  <2>2. Cardinality(PlacesOf(s, End)) = m
    <3>1. PlacesOf(s, End) = 1..m
      BY <1>3 DEF PlacesOf
    <3>2. Cardinality(1..m) = IF 1 > m THEN 0 ELSE m - 1 + 1
      BY <1>2, FS_Interval
    <3> QED
      BY <1>2, <3>1, <3>2
  <2>3. s # <<>> /\ s[Len(s)] = End
    BY <1>2, <1>3, <1>5, EmptySeq
  <2>6. Stream(p, r, Items, Capacity) /\ p.closed = ch.closed
    BY <1>1, <1>3, <1>a, CapacityOK, PushAllStream
  <2>7. Awaited(p) => Awaited(ch)
    BY <1>1, <1>3, <1>a, CapacityOK, PushAllUnawaited
  <2>8. Awaited(ch) => Awaited(p)
    BY <1>1, <1>3, <1>a, CapacityOK, PushAllAwaited
  <2>9. Pending(p, r, End) <= Pending(ch, r, End) + Cardinality(PlacesOf(s, End))
    BY <1>1, <1>3, <1>a, CapacityOK, PushAllPending
  <2>10. p.buffer = <<>> \/ p.buffer[Len(p.buffer)] = s[Len(s)]
    BY <1>1, <1>3, <2>3, <1>a, CapacityOK, PushAllIsLast
  <2>11. Pending(p, r, End) \in Nat /\ Pending(ch, r, End) \in Nat /\ n \in Nat
    BY <1>1, <2>6, CapacityOK, PendingFacts, FS_CardinalityType
  <2>12. fin \in Nat /\ fin + Pending(ch, r, End) <= n
    BY DEF RunTold
  <2>13. Cardinality(done \cup Q) = n + m
    BY DisjointUnion DEF m
  <2> HIDE DEF n
  <2>14. fin + Pending(p, r, End) <= Cardinality(done \cup Q)
    BY <1>2, <2>2, <2>9, <2>11, <2>12, <2>13
  <2> QED
    BY <1>1, <2>1, <2>3, <2>6, <2>7, <2>8, <2>10, <2>12, <2>14 DEF RunTold
<1> QED
  BY <1>4, <1>5

\* The drain loop asks for the next item.
LEMMA ToldReceive ==
  ASSUME NEW r, NEW g, NEW ch, NEW fin, NEW all, NEW done, NEW born,
         RunTold(r, g, ch, fin, all, done, born), IsFiniteSet(done), g # "receiving",
         NEW p, p = Receive(ch, r), NEW now
  PROVE  RunTold(r, "receiving", p, fin, all, done, now)
<1>1. Stream(ch, r, Items, Capacity) /\ ~ch.closed /\ ~Awaited(ch)
  BY DEF RunTold
<1>2. Stream(p, r, Items, Capacity)
  BY <1>1, CapacityOK, ReceiveStream
<1>3. ~p.closed
  BY <1>1, CapacityOK, ReceiveOpen
<1>4. Awaited(p)
  BY <1>1, CapacityOK, ReceiveAwaited
<1>5. Pending(p, r, End) <= Pending(ch, r, End)
  BY <1>1, CapacityOK, ReceivePending
<1>6. Pending(p, r, End) \in Nat /\ Pending(ch, r, End) \in Nat /\ Cardinality(done) \in Nat
  BY <1>1, <1>2, CapacityOK, PendingFacts, FS_CardinalityType
<1>7. fin \in Nat /\ fin + Pending(ch, r, End) <= Cardinality(done)
  BY DEF RunTold
<1>8. fin + Pending(p, r, End) <= Cardinality(done)
  BY <1>5, <1>6, <1>7
<1>9. p.buffer = <<>> \/ (ch.buffer # <<>> /\ p.buffer[Len(p.buffer)] = ch.buffer[Len(ch.buffer)])
  BY <1>1, CapacityOK, ReceiveLast
<1>10. all \subseteq done /\ ch.buffer # <<>> => ch.buffer[Len(ch.buffer)] = End
  BY DEF RunTold
<1>11. "receiving" \notin Early /\ "receiving" \notin Over
  BY DEF Early, Over
<1> QED
  BY <1>2, <1>3, <1>4, <1>7, <1>8, <1>9, <1>10, <1>11 DEF RunTold

\* An event is picked up.
LEMMA ToldEvent ==
  ASSUME NEW r, NEW ch, NEW fin, NEW all, NEW done, NEW born,
         RunTold(r, "receiving", ch, fin, all, done, born), IsFiniteSet(done),
         r \in DOMAIN ch.resolved, ch.resolved[r] # Item(End),
         NEW p, p = PickUp(ch, r), NEW h \in {"writing", "teardown"}
  PROVE  RunTold(r, h, p, fin, all, done, born)
<1>1. Stream(ch, r, Items, Capacity) /\ ~ch.closed
  BY DEF RunTold
<1>2. Stream(p, r, Items, Capacity)
  BY <1>1, CapacityOK, PickUpStream
<1>3. p.buffer = ch.buffer /\ p.closed = ch.closed
  BY <1>1, CapacityOK, PickUpRest
<1>4. ~Awaited(p)
  BY <1>1, CapacityOK, PickUpUnawaited
<1>5. Pending(p, r, End) = Pending(ch, r, End)
  BY <1>1, CapacityOK, PickUpPending
<1>6. h # "receiving" /\ h \notin Early /\ h \notin Over
  BY DEF Early, Over
<1> QED
  BY <1>1, <1>2, <1>3, <1>4, <1>5, <1>6 DEF RunTold

\* A terminator is picked up and counted, and the loop goes on.
LEMMA ToldEnd ==
  ASSUME NEW r, NEW ch, NEW fin, NEW all, NEW done, NEW born,
         RunTold(r, "receiving", ch, fin, all, done, born), IsFiniteSet(done),
         r \in DOMAIN ch.resolved, ch.resolved[r] = Item(End),
         NEW p, p = PickUp(ch, r)
  PROVE  RunTold(r, "writing", p, fin + 1, all, done, born)
<1>1. Stream(ch, r, Items, Capacity) /\ ~ch.closed
  BY DEF RunTold
<1>2. Stream(p, r, Items, Capacity)
  BY <1>1, CapacityOK, PickUpStream
<1>3. p.buffer = ch.buffer /\ p.closed = ch.closed
  BY <1>1, CapacityOK, PickUpRest
<1>4. ~Awaited(p)
  BY <1>1, CapacityOK, PickUpUnawaited
<1>5. Pending(p, r, End) + 1 = Pending(ch, r, End)
  BY <1>1, CapacityOK, PickUpPending
<1>6. "writing" # "receiving" /\ "writing" \notin Early /\ "writing" \notin Over
  BY DEF Early, Over
<1>7. Pending(p, r, End) \in Nat /\ Pending(ch, r, End) \in Nat /\ Cardinality(done) \in Nat
  BY <1>1, <1>2, CapacityOK, PendingFacts, FS_CardinalityType
<1>8. fin \in Nat /\ fin + Pending(ch, r, End) <= Cardinality(done)
  BY DEF RunTold
<1>9. fin + 1 \in Nat /\ (fin + 1) + Pending(p, r, End) <= Cardinality(done)
  BY <1>5, <1>7, <1>8
<1> QED
  BY <1>1, <1>2, <1>3, <1>4, <1>6, <1>9 DEF RunTold

\* The last terminator is counted: all workers are done and nothing is buffered.
LEMMA ToldLast ==
  ASSUME NEW r, NEW ch, NEW fin, NEW all, NEW done, NEW born,
         RunTold(r, "writing", ch, fin, all, done, born), IsFiniteSet(all), done \subseteq all,
         fin = Cardinality(all)
  PROVE  RunTold(r, "publishing", ch, fin, all, done, born)
<1>1. Stream(ch, r, Items, Capacity) /\ ~Awaited(ch)
  BY DEF RunTold
<1>2. IsFiniteSet(done) /\ Cardinality(done) <= Cardinality(all)
      /\ (Cardinality(all) = Cardinality(done) => all = done)
  BY FS_Subset
<1>3. Cardinality(done) \in Nat /\ Cardinality(all) \in Nat /\ Pending(ch, r, End) \in Nat
  BY <1>1, <1>2, CapacityOK, PendingFacts, FS_CardinalityType
<1>4. fin \in Nat /\ fin + Pending(ch, r, End) <= Cardinality(done)
  BY DEF RunTold
<1>5. Cardinality(all) = Cardinality(done) /\ Pending(ch, r, End) = 0
  BY <1>2, <1>3, <1>4
<1>6. all \subseteq done
  BY <1>2, <1>5
<1>7. \A i \in 1..Len(ch.buffer) : ch.buffer[i] # End
  BY <1>1, <1>5, CapacityOK, PendingFacts
<1>8. ch.buffer = <<>>
  <2> SUFFICES ASSUME ch.buffer # <<>> PROVE FALSE
    OBVIOUS
  <2>1. ch.buffer[Len(ch.buffer)] = End
    BY <1>6 DEF RunTold
  <2>2. ch.buffer \in Seq(Items)
    BY <1>1 DEF Stream
  <2>3. Len(ch.buffer) \in 1..Len(ch.buffer)
    BY <2>2, EmptySeq
  <2> QED
    BY <1>7, <2>1, <2>3
<1>9. "publishing" # "receiving" /\ "publishing" \notin Early
  BY DEF Early
<1> QED
  BY <1>1, <1>4, <1>6, <1>8, <1>9 DEF RunTold

\* The quiet poll finds every worker done.
LEMMA ToldTimeout ==
  ASSUME NEW r, NEW ch, NEW fin, NEW all, NEW done, NEW born,
         RunTold(r, "receiving", ch, fin, all, done, born), ch.waiters # <<>>, all \subseteq done,
         NEW p, p = [ch EXCEPT !.waiters = <<>>]
  PROVE  RunTold(r, "publishing", p, fin, all, done, born)
<1>1. Stream(ch, r, Items, Capacity) /\ ~ch.closed
  BY DEF RunTold
<1>2. Channel(ch) /\ ch.buffer = <<>> /\ DOMAIN ch.resolved = {}
  BY <1>1 DEF Stream
<1>3. /\ Channel(p) /\ p.buffer = ch.buffer /\ p.resolved = ch.resolved
      /\ p.closed = ch.closed /\ p.waiters = <<>>
  BY <1>2 DEF Channel
<1>4. Stream(p, r, Items, Capacity)
  BY <1>1, <1>3 DEF Stream
<1>5. ~Awaited(p)
  BY <1>2, <1>3 DEF Awaited
<1>6. Pending(p, r, End) = Pending(ch, r, End)
  BY <1>3 DEF Pending, InHand
<1>7. "publishing" # "receiving" /\ "publishing" \notin Early
  BY DEF Early
<1> QED
  BY <1>1, <1>2, <1>3, <1>4, <1>5, <1>6, <1>7 DEF RunTold

-----------------------------------------------------------------------------
(* The invariant.                                                          *)

RunIn == Streaming \cup {"admitted", "rejecting", "teardown"}
ColIn == Live \cup {"granted"}
RunWaiters == {r \in Runs : gen[r] = "slot"}
ColWaiters == {c \in Columns : col[c] = "queued"}
DoneOf(r) == {c \in ColumnsOf(r) : col[c] = "done"}
BornOf(r) == {c \in ColumnsOf(r) : col[c] # "unborn"}

Basic ==
  /\ lineup \in Lineups
  /\ client \in [Runs -> {"connected", "gone"}]
  /\ gen \in [Runs -> GenState]
  /\ exit \in [Runs -> {"none", "normal", "returned"}]
  /\ ledger \in [Runs -> {"none", "active", "completed", "cancelled", "failed"}]
  /\ internal \in [Runs -> BOOLEAN]
  /\ col \in [Columns -> ColState]
  /\ steps \in [Columns -> 0..MaxSteps]
  /\ held \in [Columns -> BOOLEAN] /\ stopped \in [Columns -> BOOLEAN]
  /\ verdict \in [Columns -> {"none", "finished", "stopped", "failed"}]

RunFits == Fits(runGate, Runs, RunOwners, RunWaiters, RunSlots)
ColFits == Fits(colGate, Columns, ColOwners, ColWaiters, ColumnSlots)
ToldOf(r) == RunTold(r, gen[r], channel[r], finished[r], ColumnsOf(r), DoneOf(r), BornOf(r))
AllTold == /\ channel = [r \in Runs |-> channel[r]] /\ finished = [r \in Runs |-> finished[r]]
           /\ \A r \in Runs : ToldOf(r)
Inv == Basic /\ RunFits /\ ColFits /\ AllTold

\* What a request asks for: columns of its own, each of them once.
LEMMA LineupParts ==
  ASSUME lineup \in Lineups, NEW r \in Runs
  PROVE  /\ lineup[r] \in Seq(Columns)
         /\ \A i, j \in 1..Len(lineup[r]) : lineup[r][i] = lineup[r][j] => i = j
         /\ IsFiniteSet(ColumnsOf(r)) /\ ColumnsOf(r) \subseteq Columns
         /\ Cardinality(ColumnsOf(r)) = Len(lineup[r])
<1> DEFINE l == lineup[r]
           n == Len(l)
<1>1. l \in Seq(Columns) /\ IsInjective(l)
  BY ArenaAssumption DEF ArenaAssumption
<1>2. \A i, j \in 1..n : l[i] = l[j] => i = j
  BY <1>1 DEF IsInjective
<1>3. n \in Nat /\ n \in 0..n
  BY <1>1
<1>4. ColumnsOf(r) = {l[i] : i \in 1..n}
  BY <1>1 DEF ColumnsOf, ToSet
<1>5. IsFiniteSet(ColumnsOf(r)) /\ Cardinality(ColumnsOf(r)) = n
  BY <1>1, <1>2, <1>3, <1>4, FirstElements
<1>6. ColumnsOf(r) \subseteq Columns
  BY <1>1, <1>4, ElementOfSeq
<1> QED
  BY <1>1, <1>2, <1>5, <1>6

\* A column belongs to one run.
LEMMA RunOfIs ==
  ASSUME lineup \in Lineups, NEW c \in Columns
  PROVE  /\ RunOf(c) \in Runs /\ c \in ColumnsOf(RunOf(c))
         /\ \A r \in Runs : c \in ColumnsOf(r) => r = RunOf(c)
<1> DEFINE R == {r \in Runs : c \in ToSet(lineup[r])}
<1>1. Cardinality(R) = 1
  BY ArenaAssumption DEF ArenaAssumption
<1>2. IsFiniteSet(R)
  BY ArenaAssumption, FS_Subset DEF ArenaAssumption
<1>3. PICK x : R = {x}
  BY <1>1, <1>2, FS_Singleton
<1> QED
  BY <1>3 DEF RunOf, ColumnsOf

\* The owners of permits and the workers done are finitely many.
LEMMA OwnersFinite ==
  /\ IsFiniteSet(RunOwners) /\ IsFiniteSet(ColOwners)
  /\ lineup \in Lineups => \A r \in Runs : IsFiniteSet(DoneOf(r)) /\ DoneOf(r) \subseteq ColumnsOf(r)
<1>1. IsFiniteSet(Runs) /\ IsFiniteSet(Columns)
  BY ArenaAssumption DEF ArenaAssumption
<1>2. RunOwners \subseteq Runs /\ ColOwners \subseteq Columns
  BY DEF RunOwners, ColOwners
<1>3. ASSUME lineup \in Lineups, NEW r \in Runs
      PROVE  IsFiniteSet(DoneOf(r)) /\ DoneOf(r) \subseteq ColumnsOf(r)
  BY <1>3, LineupParts, FS_Subset DEF DoneOf
<1> QED
  BY <1>1, <1>2, <1>3, FS_Subset

\* The slots are numbers.
LEMMA SlotsOK == RunSlots \in Nat /\ ColumnSlots \in Nat
  BY ArenaAssumption DEF ArenaAssumption

\* The invariant says what the run checks.
LEMMA InvTells == Inv => TypeOK /\ SlotsConserved /\ NothingLeftBehind
<1> SUFFICES ASSUME Inv PROVE TypeOK /\ SlotsConserved /\ NothingLeftBehind
  OBVIOUS
<1>1. runGate \in Gate(Runs, RunSlots) /\ colGate \in Gate(Columns, ColumnSlots)
  BY DEF Inv, RunFits, ColFits, Fits
<1>2. ASSUME NEW r \in Runs
      PROVE  /\ channel[r].buffer \in Seq(Items) /\ Len(channel[r].buffer) <= Capacity
             /\ channel[r].waiters \in {<<>>, <<r>>}
             /\ finished[r] \in 0..Len(lineup[r])
  <2>1. ToldOf(r) /\ lineup \in Lineups
    BY DEF Inv, AllTold, Basic
  <2>2. Stream(channel[r], r, Items, Capacity)
    BY <2>1 DEF ToldOf, RunTold
  <2> DEFINE f == finished[r]
             p == Pending(channel[r], r, End)
             d == Cardinality(DoneOf(r))
             n == Len(lineup[r])
  <2>3. f \in Nat /\ f + p <= d
    BY <2>1 DEF ToldOf, RunTold
  <2>4. p \in Nat
    BY <2>2, CapacityOK, PendingFacts
  <2>5. d \in Nat /\ d <= n /\ n \in Nat
    <3>1. IsFiniteSet(ColumnsOf(r)) /\ Cardinality(ColumnsOf(r)) = n
      BY <2>1, LineupParts
    <3>2. DoneOf(r) \subseteq ColumnsOf(r)
      BY DEF DoneOf
    <3> QED
      BY <3>1, <3>2, FS_Subset, FS_CardinalityType
  <2> HIDE DEF f, p, d, n
  <2>6. f \in 0..n
    BY <2>3, <2>4, <2>5
  <2> QED
    BY <2>2, <2>6 DEF Stream, f, n
<1>3. TypeOK
  BY <1>1, <1>2 DEF Inv, Basic, TypeOK
<1>4. SlotsConserved
  BY DEF Inv, RunFits, ColFits, Fits, SlotsConserved, RunWaiters, ColWaiters
<1>5. NothingLeftBehind
  <2> SUFFICES ASSUME NEW r \in Runs, gen[r] \in Over
               PROVE  channel[r].buffer = <<>> /\ \A c \in ColumnsOf(r) : col[c] = "done"
    BY DEF NothingLeftBehind, Over
  <2>1. ToldOf(r)
    BY DEF Inv, AllTold
  <2> QED
    BY <2>1 DEF ToldOf, RunTold, DoneOf
<1> QED
  BY <1>3, <1>4, <1>5

\* No run has begun.
LEMMA InitInv == Init => Inv
<1> SUFFICES ASSUME Init PROVE Inv
  OBVIOUS
<1>1. Basic
  BY ArenaAssumption DEF Init, Basic, ArenaAssumption, GenState, ColState
<1>2. RunOwners = {} /\ ColOwners = {} /\ RunWaiters = {} /\ ColWaiters = {}
  BY DEF Init, RunOwners, ColOwners, RunWaiters, ColWaiters, Streaming, Live
<1>3. ASSUME NEW S, NEW k \in Nat PROVE Fits(NewGate(k), S, {}, {}, k)
  <2>1. Cardinality({}) = 0
    BY FS_EmptySet
  <2>2. NewGate(k) \in Gate(S, k) /\ NewGate(k).available = k /\ NewGate(k).waiters = <<>>
    BY DEF NewGate, Gate
  <2>3. ToSet(<<>>) = {} /\ Len(<<>>) = 0
    BY DEF ToSet
  <2> QED
    BY <2>1, <2>2, <2>3 DEF Fits
<1>4. RunFits /\ ColFits
  BY <1>2, <1>3, SlotsOK DEF Init, RunFits, ColFits
<1>5. ASSUME NEW r \in Runs PROVE ToldOf(r)
  <2>1. channel[r] = NewChannel /\ finished[r] = 0 /\ gen[r] = "idle"
    BY DEF Init
  <2>2. DoneOf(r) = {} /\ BornOf(r) = {}
    <3>1. ColumnsOf(r) \subseteq Columns
      BY LineupParts DEF Init
    <3> QED
      BY <3>1 DEF Init, DoneOf, BornOf
  <2>3. /\ Stream(NewChannel, r, Items, Capacity) /\ ~Awaited(NewChannel)
        /\ ~NewChannel.closed /\ NewChannel.buffer = <<>> /\ Pending(NewChannel, r, End) = 0
    BY CapacityOK, NewStream
  <2>4. Cardinality({}) = 0
    BY FS_EmptySet
  <2> QED
    BY <2>1, <2>2, <2>3, <2>4 DEF ToldOf, RunTold, Over
<1>6. AllTold
  BY <1>5 DEF AllTold, Init
<1> QED
  BY <1>1, <1>4, <1>6 DEF Inv
-----------------------------------------------------------------------------
(* What rests in a step.                                                   *)

\* Nobody enters or leaves the run slots.
LEMMA RunsRest ==
  ASSUME Inv, runGate' = runGate,
         \A q \in Runs : /\ (gen'[q] \in RunIn <=> gen[q] \in RunIn)
                         /\ (gen'[q] = "slot" <=> gen[q] = "slot")
  PROVE  RunFits'
<1>1. RunOwners' = RunOwners /\ RunWaiters' = RunWaiters
  BY DEF RunOwners, RunWaiters, RunIn
<1> QED
  BY <1>1 DEF RunFits, Inv, Fits, Gate

\* Nobody enters or leaves the column slots.
LEMMA ColumnsRest ==
  ASSUME Inv, colGate' = colGate,
         \A d \in Columns : /\ (col'[d] \in ColIn <=> col[d] \in ColIn)
                            /\ (col'[d] = "queued" <=> col[d] = "queued")
  PROVE  ColFits'
<1>1. ColOwners' = ColOwners /\ ColWaiters' = ColWaiters
  BY DEF ColOwners, ColWaiters, ColIn
<1> QED
  BY <1>1 DEF ColFits, Inv, Fits, Gate

\* A run is left alone.
LEMMA RunRests ==
  ASSUME Inv, lineup' = lineup, NEW q \in Runs,
         gen'[q] = gen[q], channel'[q] = channel[q], finished'[q] = finished[q],
         \A d \in ColumnsOf(q) : /\ (col'[d] = "done" <=> col[d] = "done")
                                 /\ (col'[d] = "unborn" <=> col[d] = "unborn")
  PROVE  ToldOf(q)'
<1>1. ColumnsOf(q)' = ColumnsOf(q)
  BY DEF ColumnsOf
<1>2. DoneOf(q)' = DoneOf(q) /\ BornOf(q)' = BornOf(q)
  BY <1>1 DEF DoneOf, BornOf
<1>3. ToldOf(q)
  BY DEF Inv, AllTold
<1> QED
  BY <1>1, <1>2, <1>3 DEF ToldOf

\* Every step leaves each variable in its set.
LEMMA BasicStep == Inv /\ Next => Basic'
<1> SUFFICES ASSUME Inv, Next PROVE Basic'
  OBVIOUS
<1>0. Basic /\ lineup' = lineup
  BY DEF Inv, Next
<1> USE <1>0 DEF Basic
<1>1. ASSUME NEW r \in Runs, Request(r) \/ OpenWithoutRunner(r) \/ Throw(r) \/ StartRejected(r) \/ Settle(r)
      PROVE  Basic'
  <2>1. CASE Request(r) \/ StartRejected(r)
    BY <2>1 DEF Request, StartRejected, runVars, columnVars, GenState
  <2>2. CASE Throw(r)
    BY <2>2 DEF Throw, columnVars, GenState
  <2>3. CASE Settle(r)
    BY <2>3 DEF Settle, columnVars, GenState
  <2>4. CASE OpenWithoutRunner(r)
    BY <2>4 DEF OpenWithoutRunner, columnVars, GenState
  <2> QED
    BY <1>1, <2>1, <2>2, <2>3, <2>4
<1>a. ASSUME NEW r \in Runs, Open(r) PROVE Basic'
  <2>1. gen' \in [Runs -> GenState] /\ ledger' \in [Runs -> {"none", "active", "completed", "cancelled", "failed"}]
    BY <1>a DEF Open, GenState
  <2> QED
    BY <1>a, <2>1 DEF Open, columnVars
<1>2. ASSUME NEW r \in Runs, RejectionWritten(r) \/ LeaveTeardown(r) PROVE Basic'
  BY <1>2 DEF RejectionWritten, LeaveTeardown, ReleaseRun, columnVars, GenState
<1>3. ASSUME NEW r \in Runs, Start(r) PROVE Basic'
  BY <1>3 DEF Start, runVars, columnVars, GenState, ColState, Streaming
<1>4. ASSUME NEW r \in Runs, HandleTimeout(r) \/ HandleEnd(r) \/ EventWritten(r) PROVE Basic'
  BY <1>4 DEF HandleTimeout, HandleEnd, EventWritten, runVars, columnVars, GenState, Streaming
<1>b. ASSUME NEW r \in Runs, NEW ch, AbortColumns(r, ch)
      PROVE  internal' \in [Runs -> BOOLEAN] /\ col' \in [Columns -> ColState]
  BY <1>b DEF AbortColumns, ColState
<1>c. ASSUME NEW r \in Runs, NEW how \in {"normal", "returned"}, NEW ch, Teardown(r, how, ch)
      PROVE  /\ internal' \in [Runs -> BOOLEAN] /\ col' \in [Columns -> ColState]
             /\ gen' \in [Runs -> GenState] /\ exit' \in [Runs -> {"none", "normal", "returned"}]
  <2>1. AbortColumns(r, ch)
    BY <1>c DEF Teardown
  <2> QED
    BY <1>b, <1>c, <2>1 DEF Teardown, GenState
<1>5. ASSUME NEW r \in Runs, HandleEvent(r) \/ Publish(r) \/ ReportWritten(r) PROVE Basic'
  <2>1. /\ internal' \in [Runs -> BOOLEAN] /\ col' \in [Columns -> ColState]
        /\ gen' \in [Runs -> GenState] /\ exit' \in [Runs -> {"none", "normal", "returned"}]
    <3>1. CASE HandleEvent(r)
      <4>1. CASE client[r] = "gone"
        <5>1. Teardown(r, "returned", PickUp(channel[r], r))
          BY <3>1, <4>1 DEF HandleEvent
        <5> QED
          BY <1>c, <5>1
      <4>2. CASE client[r] # "gone"
        BY <3>1, <4>2 DEF HandleEvent, GenState, Streaming
      <4> QED
        BY <4>1, <4>2
    <3>2. CASE Publish(r)
      <4>1. CASE Teardown(r, "normal", channel[r])
        BY <1>c, <4>1
      <4>2. CASE Teardown(r, "returned", channel[r])
        BY <1>c, <4>2
      <4>3. CASE gen' = [gen EXCEPT ![r] = "reporting"] /\ UNCHANGED <<exit, internal, colGate, col, channel>>
        BY <4>3 DEF GenState, Streaming
      <4> QED
        BY <3>2, <4>1, <4>2, <4>3 DEF Publish
    <3>3. CASE ReportWritten(r)
      BY <3>3, <1>c DEF ReportWritten
    <3> QED
      BY <1>5, <3>1, <3>2, <3>3
  <2>2. UNCHANGED <<client, ledger, steps, held, stopped, verdict>>
    BY <1>5 DEF HandleEvent, Publish, ReportWritten, columnVars
  <2> QED
    BY <2>1, <2>2
<1>d. ASSUME NEW r \in Runs, Disconnect(r) PROVE Basic'
  <2>1. gen' \in [Runs -> GenState] /\ internal' \in [Runs -> BOOLEAN] /\ col' \in [Columns -> ColState]
    BY <1>b, <1>d DEF Disconnect, GenState
  <2>2. client' \in [Runs -> {"connected", "gone"}] /\ UNCHANGED <<exit, ledger, steps, held, stopped, verdict>>
    BY <1>d DEF Disconnect, columnVars
  <2> QED
    BY <2>1, <2>2
<1>6. ASSUME NEW c \in Columns, StartDriver(c) \/ DriverFinishes(c) \/ DriverThrows(c) \/ StopColumn(c)
      PROVE  Basic'
  <2>1. col' \in [Columns -> ColState] /\ held' \in [Columns -> BOOLEAN] /\ stopped' \in [Columns -> BOOLEAN]
    BY <1>6 DEF StartDriver, DriverFinishes, DriverThrows, StopColumn, columnVars, ColState, Live
  <2>2. UNCHANGED <<gen, runVars, steps, verdict>>
    BY <1>6 DEF StartDriver, DriverFinishes, DriverThrows, StopColumn, columnVars
  <2> QED
    BY <2>1, <2>2 DEF runVars
<1>e. ASSUME NEW c \in Columns, Emit(c) PROVE Basic'
  <2>1. MaxSteps \in Nat
    BY ArenaAssumption DEF ArenaAssumption
  <2>2. steps' \in [Columns -> 0..MaxSteps]
    BY <1>e, <2>1 DEF Emit
  <2> QED
    BY <1>e, <2>2 DEF Emit, runVars
<1>7. ASSUME NEW c \in Columns, Finalize(c) PROVE Basic'
  <2>1. MaxSteps \in Nat
    BY ArenaAssumption DEF ArenaAssumption
  <2>2. steps' \in [Columns -> 0..MaxSteps]
    BY <1>7, <2>1 DEF Finalize
  <2> QED
    BY <1>7, <2>2 DEF Finalize, runVars, ColState, Live
<1>8. ASSUME NEW c \in Columns, RefuseColumn(c) \/ DriverAborts(c) \/ Record(c) \/ ReportFailure(c)
      PROVE  Basic'
  <2>1. col' \in [Columns -> ColState]
    BY <1>8 DEF RefuseColumn, DriverAborts, Rethrow, Record, ReportFailure, FinishColumn, ColState
  <2>2. UNCHANGED <<gen, runVars, steps, held, stopped, seen>>
    BY <1>8 DEF RefuseColumn, DriverAborts, Rethrow, Record, ReportFailure
  <2>3. verdict' \in [Columns -> {"none", "finished", "stopped", "failed"}]
    BY <1>8 DEF RefuseColumn, DriverAborts, Rethrow, Record, ReportFailure
  <2> QED
    BY <2>1, <2>2, <2>3 DEF runVars
<1> QED
  BY <1>1, <1>2, <1>3, <1>4, <1>5, <1>6, <1>7, <1>8, <1>a, <1>d, <1>e
  DEF Next, Generator, Driver, Worker

-----------------------------------------------------------------------------
(* Steps of the generator chain that leave the columns and channels alone. *)

\* A run moves on, neither to nor from the queue, the gate or the drain loop.
LEMMA GenMoves ==
  ASSUME Inv, Basic', lineup' = lineup, NEW r \in Runs, NEW h,
         gen' = [gen EXCEPT ![r] = h],
         runGate' = runGate, colGate' = colGate, col' = col, channel' = channel, finished' = finished,
         gen[r] \in RunIn <=> h \in RunIn, gen[r] # "slot", h # "slot",
         gen[r] # "receiving", h # "receiving",
         h \in Early => gen[r] \in Early, h \in Over => gen[r] \in Over
  PROVE  Inv'
<1>1. gen \in [Runs -> GenState] /\ gen'[r] = h /\ \A q \in Runs : q # r => gen'[q] = gen[q]
  BY DEF Inv, Basic
<1>2. RunFits'
  BY <1>1, RunsRest
<1>3. ColFits'
  BY ColumnsRest
<1>4. ASSUME NEW q \in Runs PROVE ToldOf(q)'
  <2>1. CASE q # r
    BY <1>1, <2>1, RunRests
  <2>2. CASE q = r
    <3>1. ColumnsOf(r)' = ColumnsOf(r)
      BY DEF ColumnsOf
    <3>2. DoneOf(r)' = DoneOf(r) /\ BornOf(r)' = BornOf(r)
      BY <3>1 DEF DoneOf, BornOf
    <3>3. RunTold(r, gen[r], channel[r], finished[r], ColumnsOf(r), DoneOf(r), BornOf(r))
      BY DEF Inv, AllTold, ToldOf
    <3>4. RunTold(r, h, channel[r], finished[r], ColumnsOf(r), DoneOf(r), BornOf(r))
      BY <3>3, ToldMoves
    <3> QED
      BY <1>1, <2>2, <3>1, <3>2, <3>4 DEF ToldOf
  <2> QED
    BY <2>1, <2>2
<1>5. AllTold'
  BY <1>4 DEF AllTold, Inv
<1> QED
  BY <1>2, <1>3, <1>5 DEF Inv

\* The steps before, between and behind the stream.
LEMMA QuietSteps ==
  ASSUME Inv, Basic', lineup' = lineup, NEW r \in Runs,
         Request(r) \/ OpenWithoutRunner(r) \/ Throw(r) \/ StartRejected(r) \/ Settle(r)
  PROVE  Inv'
<1> USE DEF RunIn, Early, Over, Streaming
<1>1. CASE Request(r)
  BY <1>1, GenMoves DEF Request, runVars
<1>2. CASE OpenWithoutRunner(r)
  BY <1>2, GenMoves DEF OpenWithoutRunner
<1>3. CASE Throw(r)
  BY <1>3, GenMoves DEF Throw
<1>4. CASE StartRejected(r)
  BY <1>4, GenMoves DEF StartRejected, runVars
<1>5. CASE Settle(r)
  BY <1>5, GenMoves DEF Settle
<1> QED
  BY <1>1, <1>2, <1>3, <1>4, <1>5

\* A run asks for its slot.
LEMMA OpenStep ==
  ASSUME Inv, Basic', lineup' = lineup, NEW r \in Runs, Open(r)
  PROVE  Inv'
<1>1. gen \in [Runs -> GenState] /\ gen[r] = "opening"
  BY DEF Inv, Basic, Open
<1>2. CASE client[r] = "gone" /\ gen' = [gen EXCEPT ![r] = "throwing"] /\ UNCHANGED runGate
  BY <1>2, <1>1, GenMoves DEF Open, RunIn, Early, Over, Streaming
<1>3. ASSUME NEW h \in {"admitted", "slot"}, gen' = [gen EXCEPT ![r] = h], RunFits'
      PROVE  Inv'
  <2>1. gen'[r] = h /\ \A q \in Runs : q # r => gen'[q] = gen[q]
    BY <1>1, <1>3
  <2>2. ColFits'
    BY ColumnsRest DEF Open
  <2>3. ASSUME NEW q \in Runs PROVE ToldOf(q)'
    <3>1. CASE q # r
      BY <2>1, <3>1, RunRests DEF Open
    <3>2. CASE q = r
      <4>1. ColumnsOf(r)' = ColumnsOf(r)
        BY DEF ColumnsOf
      <4>2. DoneOf(r)' = DoneOf(r) /\ BornOf(r)' = BornOf(r)
        BY <4>1 DEF DoneOf, BornOf, Open
      <4>3. RunTold(r, gen[r], channel[r], finished[r], ColumnsOf(r), DoneOf(r), BornOf(r))
        BY DEF Inv, AllTold, ToldOf
      <4>4. RunTold(r, h, channel[r], finished[r], ColumnsOf(r), DoneOf(r), BornOf(r))
        BY <1>1, <4>3, ToldMoves DEF Early, Over
      <4> QED
        BY <2>1, <3>2, <4>1, <4>2, <4>4 DEF ToldOf, Open
    <3> QED
      BY <3>1, <3>2
  <2>4. AllTold'
    BY <2>3 DEF AllTold, Inv, Open
  <2> QED
    BY <1>3, <2>2, <2>4 DEF Inv
<1>4. CASE runGate.available > 0 /\ gen' = [gen EXCEPT ![r] = "admitted"] /\ runGate' = Take(runGate)
  <2>1. RunOwners' = RunOwners \cup {r} /\ RunWaiters' = RunWaiters /\ r \notin RunOwners
    BY <1>1, <1>4 DEF RunOwners, RunWaiters, Streaming
  <2>2. Fits(runGate, Runs, RunOwners, RunWaiters, RunSlots) /\ IsFiniteSet(RunOwners)
    BY OwnersFinite DEF Inv, RunFits
  <2>3. Fits(Take(runGate), Runs, RunOwners \cup {r}, RunWaiters, RunSlots)
    BY <1>4, <2>1, <2>2, FitsTake, SlotsOK
  <2>4. RunFits'
    BY <1>4, <2>1, <2>3 DEF RunFits, Fits
  <2> QED
    BY <1>3, <1>4, <2>4
<1>5. CASE runGate.available = 0 /\ gen' = [gen EXCEPT ![r] = "slot"] /\ runGate' = Enqueue(runGate, r)
  <2>1. RunOwners' = RunOwners /\ RunWaiters' = RunWaiters \cup {r} /\ r \notin RunWaiters
    BY <1>1, <1>5 DEF RunOwners, RunWaiters, Streaming
  <2>2. Fits(runGate, Runs, RunOwners, RunWaiters, RunSlots)
    BY DEF Inv, RunFits
  <2>3. Fits(Enqueue(runGate, r), Runs, RunOwners, RunWaiters \cup {r}, RunSlots)
    BY <1>5, <2>1, <2>2, FitsEnqueue, SlotsOK
  <2>4. RunFits'
    BY <1>5, <2>1, <2>3 DEF RunFits, Fits
  <2> QED
    BY <1>3, <1>5, <2>4
<1> QED
  BY <1>2, <1>4, <1>5 DEF Open

\* A run gives its slot back.
LEMMA ReleaseStep ==
  ASSUME Inv, Basic', lineup' = lineup, NEW r \in Runs, gen[r] \in {"rejecting", "teardown"},
         NEW h \in {"settling", "closed"}, ReleaseRun(r, h),
         finished' = finished, channel' = channel, colGate' = colGate, col' = col
  PROVE  Inv'
<1> DEFINE woken == Woken(runGate)
<1>1. /\ gen'[r] = h /\ runGate' = GiveBack(runGate)
      /\ \A q \in Runs \ {r} : gen'[q] = IF q \in woken THEN "admitted" ELSE gen[q]
  BY DEF ReleaseRun
<1>2. Fits(runGate, Runs, RunOwners, RunWaiters, RunSlots) /\ IsFiniteSet(RunOwners)
  BY OwnersFinite DEF Inv, RunFits
<1>3. r \in RunOwners /\ RunOwners \cap RunWaiters = {}
  BY DEF RunOwners, RunWaiters, Streaming
<1>4. /\ Fits(GiveBack(runGate), Runs, (RunOwners \ {r}) \cup woken, RunWaiters \ woken, RunSlots)
      /\ woken \subseteq RunWaiters
  BY <1>2, <1>3, FitsGiveBack, SlotsOK
<1> HIDE DEF woken
<1>5. RunOwners' = (RunOwners \ {r}) \cup woken /\ RunWaiters' = RunWaiters \ woken
  BY <1>1, <1>4 DEF RunOwners, RunWaiters, Streaming
<1>6. RunFits'
  BY <1>1, <1>4, <1>5 DEF RunFits, Fits
<1>7. ColFits'
  BY ColumnsRest
<1>8. ASSUME NEW q \in Runs PROVE ToldOf(q)'
  <2>1. ColumnsOf(q)' = ColumnsOf(q)
    BY DEF ColumnsOf
  <2>2. DoneOf(q)' = DoneOf(q) /\ BornOf(q)' = BornOf(q)
    BY <2>1 DEF DoneOf, BornOf
  <2>3. RunTold(q, gen[q], channel[q], finished[q], ColumnsOf(q), DoneOf(q), BornOf(q))
    BY DEF Inv, AllTold, ToldOf
  <2>4. /\ gen'[q] = "receiving" => gen[q] = "receiving"
        /\ gen[q] = "receiving" => gen'[q] = "receiving"
        /\ gen'[q] \in Early => gen[q] \in Early
        /\ gen'[q] \in Over => gen[q] \in Over
    BY <1>1, <1>4 DEF Early, Over, RunWaiters
  <2>5. RunTold(q, gen'[q], channel[q], finished[q], ColumnsOf(q), DoneOf(q), BornOf(q))
    BY <2>3, <2>4, ToldMoves
  <2> QED
    BY <2>1, <2>2, <2>5 DEF ToldOf
<1>9. AllTold'
  BY <1>8 DEF AllTold, Inv
<1> QED
  BY <1>6, <1>7, <1>9 DEF Inv

\* The rejected run and the run whose workers have been waited for.
LEMMA ReleaseSteps ==
  ASSUME Inv, Basic', lineup' = lineup, NEW r \in Runs, RejectionWritten(r) \/ LeaveTeardown(r)
  PROVE  Inv'
<1>1. CASE RejectionWritten(r)
  BY <1>1, ReleaseStep DEF RejectionWritten
<1>2. CASE LeaveTeardown(r)
  BY <1>2, ReleaseStep DEF LeaveTeardown
<1> QED
  BY <1>1, <1>2

-----------------------------------------------------------------------------
(* Steps of a worker.                                                      *)

\* A column's own events are items and no terminators.
LEMMA Events ==
  ASSUME NEW c \in Columns, NEW k \in {"step", "error", "stopped", "complete"}
  PROVE  Event(c, k) \in Items /\ Event(c, k) # End
<1>1. Event(c, k) \in Items
  BY DEF Event, Items
<1>2. "col" \in DOMAIN Event(c, k) /\ "col" \notin DOMAIN End
  BY DEF Event, End
<1> QED
  BY <1>1, <1>2

\* What a failed worker pushes.
LEMMA FailureItems ==
  ASSUME NEW c \in Columns, NEW k \in {"error", "stopped"}
  PROVE  Failure(c, k) \in Seq(Items) /\ \A i \in 1..Len(Failure(c, k)) : Failure(c, k)[i] # End
<1>1. Event(c, k) \in Items /\ Event(c, k) # End /\ Event(c, "complete") \in Items /\ Event(c, "complete") # End
  BY Events
<1> DEFINE a == Event(c, k)
           b == Event(c, "complete")
<1>2. Failure(c, k) = <<a, b>>
  BY DEF Failure
<1> HIDE DEF a, b
<1>3. a \in Items /\ a # End /\ b \in Items /\ b # End
  BY <1>1 DEF a, b
<1> QED
  BY <1>2, <1>3

\* One column moves on inside the gate.
LEMMA ColumnMoves ==
  ASSUME Inv, Basic', lineup' = lineup, NEW c \in Columns, NEW k \in Live, col[c] \in ColIn,
         col' = [col EXCEPT ![c] = k],
         gen' = gen, runGate' = runGate, finished' = finished, channel' = channel, colGate' = colGate
  PROVE  Inv'
<1>1. col'[c] = k /\ \A d \in Columns \ {c} : col'[d] = col[d]
  BY DEF Inv, Basic
<1>2. RunFits'
  BY RunsRest
<1>3. ColFits'
  BY <1>1, ColumnsRest DEF ColIn, Live
<1>4. ASSUME NEW q \in Runs PROVE ToldOf(q)'
  <2>1. ColumnsOf(q) \subseteq Columns
    BY LineupParts DEF Inv, Basic
  <2>2. \A d \in ColumnsOf(q) : /\ (col'[d] = "done" <=> col[d] = "done")
                                /\ (col'[d] = "unborn" <=> col[d] = "unborn")
    BY <1>1, <2>1 DEF ColIn, Live
  <2> QED
    BY <2>2, RunRests
<1>5. AllTold'
  BY <1>4 DEF AllTold, Inv
<1> QED
  BY <1>2, <1>3, <1>5 DEF Inv

\* The driver starts, ends, throws, and the column is told to stop.
LEMMA ColumnSteps ==
  ASSUME Inv, Basic', lineup' = lineup, NEW c \in Columns,
         StartDriver(c) \/ DriverFinishes(c) \/ DriverThrows(c) \/ StopColumn(c)
  PROVE  Inv'
<1> USE DEF ColIn, Live, runVars
<1>1. CASE StartDriver(c)
  BY <1>1, ColumnMoves DEF StartDriver
<1>2. CASE DriverFinishes(c)
  BY <1>2, ColumnMoves DEF DriverFinishes
<1>3. CASE DriverThrows(c)
  BY <1>3, ColumnMoves DEF DriverThrows
<1>4. CASE StopColumn(c)
  <2>1. UNCHANGED <<gen, runGate, finished, channel, colGate, col>>
    BY <1>4 DEF StopColumn
  <2>2. RunFits'
    BY <2>1, RunsRest
  <2>3. ColFits'
    BY <2>1, ColumnsRest
  <2>4. ASSUME NEW q \in Runs PROVE ToldOf(q)'
    BY <2>1, RunRests
  <2>5. AllTold'
    BY <2>1, <2>4 DEF AllTold, Inv
  <2> QED
    BY <2>2, <2>3, <2>5 DEF Inv
<1> QED
  BY <1>1, <1>2, <1>3, <1>4

\* A worker that lives pushes to the channel of its run and lives on.
LEMMA PushMoves ==
  ASSUME Inv, Basic', lineup' = lineup, NEW c \in Columns, col[c] \in Live, NEW k \in Live,
         col' = [col EXCEPT ![c] = k],
         NEW p, channel' = [channel EXCEPT ![RunOf(c)] = p],
         \A g, fin, all, done, born :
           /\ RunTold(RunOf(c), g, channel[RunOf(c)], fin, all, done, born)
           /\ IsFiniteSet(done) /\ c \in all /\ c \notin done /\ c \in born
           => RunTold(RunOf(c), g, p, fin, all, done, born),
         gen' = gen, runGate' = runGate, finished' = finished, colGate' = colGate
  PROVE  Inv'
<1> DEFINE r == RunOf(c)
<1>1. col'[c] = k /\ \A d \in Columns \ {c} : col'[d] = col[d]
  BY DEF Inv, Basic
<1>2. r \in Runs /\ c \in ColumnsOf(r)
  BY RunOfIs DEF Inv, Basic
<1>3. channel'[r] = p /\ \A q \in Runs \ {r} : channel'[q] = channel[q]
  BY <1>2 DEF Inv, AllTold
<1>4. RunFits'
  BY RunsRest
<1>5. ColFits'
  BY <1>1, ColumnsRest DEF ColIn, Live
<1>6. ASSUME NEW q \in Runs PROVE ToldOf(q)'
  <2>1. ColumnsOf(q) \subseteq Columns /\ ColumnsOf(q)' = ColumnsOf(q)
    BY LineupParts DEF Inv, Basic, ColumnsOf
  <2>2. \A d \in ColumnsOf(q) : /\ (col'[d] = "done" <=> col[d] = "done")
                                /\ (col'[d] = "unborn" <=> col[d] = "unborn")
    BY <1>1, <2>1 DEF Live
  <2>3. CASE q # r
    BY <1>3, <2>2, <2>3, RunRests
  <2>4. CASE q = r
    <3>1. DoneOf(q)' = DoneOf(q) /\ BornOf(q)' = BornOf(q)
      BY <2>1, <2>2 DEF DoneOf, BornOf
    <3>2. RunTold(q, gen[q], channel[q], finished[q], ColumnsOf(q), DoneOf(q), BornOf(q))
      BY DEF Inv, AllTold, ToldOf
    <3>3. IsFiniteSet(DoneOf(q))
      BY OwnersFinite DEF Inv, Basic
    <3>4. c \in ColumnsOf(q) /\ c \notin DoneOf(q) /\ c \in BornOf(q)
      BY <1>2, <2>4 DEF DoneOf, BornOf, Live
    <3>5. RunTold(q, gen[q], p, finished[q], ColumnsOf(q), DoneOf(q), BornOf(q))
      BY <2>4, <3>2, <3>3, <3>4
    <3> QED
      BY <1>3, <2>1, <2>4, <3>1, <3>5 DEF ToldOf
  <2> QED
    BY <2>3, <2>4
<1>7. channel' = [q \in Runs |-> channel'[q]]
  BY DEF Inv, AllTold
<1>8. AllTold'
  BY <1>6, <1>7 DEF AllTold, Inv
<1> QED
  BY <1>4, <1>5, <1>8 DEF Inv

\* The driver yields an event.
LEMMA EmitStep ==
  ASSUME Inv, Basic', lineup' = lineup, NEW c \in Columns, Emit(c)
  PROVE  Inv'
<1> DEFINE r == RunOf(c)
           p == Push(channel[r], Event(c, "step"), Capacity)
<1>1. Event(c, "step") \in Items /\ Event(c, "step") # End
  BY Events
<1>2. ASSUME NEW g, NEW fin, NEW all, NEW done, NEW born,
             RunTold(r, g, channel[r], fin, all, done, born),
             IsFiniteSet(done), c \in all, c \notin done, c \in born
      PROVE  RunTold(r, g, p, fin, all, done, born)
  BY <1>1, <1>2, ToldPush
<1>3. channel' = [channel EXCEPT ![r] = p] /\ col[c] = "driving" /\ col' = col
  BY DEF Emit
<1>4. col' = [col EXCEPT ![c] = "driving"]
  BY <1>3 DEF Inv, Basic
<1>5. gen' = gen /\ runGate' = runGate /\ finished' = finished /\ colGate' = colGate
  BY DEF Emit, runVars
<1>6. col[c] \in Live /\ "driving" \in Live
  BY <1>3 DEF Live
<1> HIDE DEF p
<1> QED
  BY <1>2, <1>3, <1>4, <1>5, <1>6, PushMoves

\* The normalized answer and the held complete go out.
LEMMA FinalizeStep ==
  ASSUME Inv, Basic', lineup' = lineup, NEW c \in Columns, Finalize(c)
  PROVE  Inv'
<1> DEFINE r == RunOf(c)
<1>1. PICK n \in 0..(IF steps[c] > 0 THEN 1 ELSE 0) :
        channel' = [channel EXCEPT ![r] =
            PushAll(@, [i \in 1..n |-> Event(c, "step")]
                         \o (IF held[c] THEN <<Event(c, "complete")>> ELSE <<>>), Capacity)]
  BY DEF Finalize
<1> DEFINE x == Event(c, "step")
           y == Event(c, "complete")
           s == [i \in 1..n |-> x]
           t == IF held[c] THEN <<y>> ELSE <<>>
           items == s \o t
           p == PushAll(channel[r], items, Capacity)
<1>2. x \in Items /\ x # End /\ y \in Items /\ y # End
  BY Events
<1>3. channel' = [channel EXCEPT ![r] = p]
  BY <1>1
<1> HIDE DEF x, y
<1>4. n \in Nat
  OBVIOUS
<1>5. s \in Seq(Items) /\ Len(s) = n /\ \A i \in 1..n : s[i] = x
  BY <1>2, <1>4
<1>6. t \in Seq(Items) /\ \A i \in 1..Len(t) : t[i] = y
  BY <1>2
<1> HIDE DEF s, t
<1>7. items \in Seq(Items) /\ Len(items) = n + Len(t)
      /\ \A i \in 1..Len(items) : items[i] = IF i <= n THEN s[i] ELSE t[i - n]
  BY <1>4, <1>5, <1>6
<1>8. \A i \in 1..Len(items) : items[i] # End
  BY <1>2, <1>4, <1>5, <1>6, <1>7
<1> HIDE DEF items
<1>9. ASSUME NEW g, NEW fin, NEW all, NEW done, NEW born,
             RunTold(r, g, channel[r], fin, all, done, born),
             IsFiniteSet(done), c \in all, c \notin done, c \in born
      PROVE  RunTold(r, g, p, fin, all, done, born)
  BY <1>7, <1>8, <1>9, ToldPushAll
<1>10. col[c] = "finalizing" /\ col' = [col EXCEPT ![c] = "recording"]
  BY DEF Finalize
<1>11. gen' = gen /\ runGate' = runGate /\ finished' = finished /\ colGate' = colGate
  BY DEF Finalize, runVars
<1>12. col[c] \in Live /\ "recording" \in Live
  BY <1>10 DEF Live
<1> HIDE DEF p
<1> QED
  BY <1>3, <1>9, <1>10, <1>11, <1>12, PushMoves

\* A worker is done: its slot moves on and its terminator follows its events.
LEMMA FinishMoves ==
  ASSUME Inv, Basic', lineup' = lineup, NEW c \in Columns, col[c] \in ColIn,
         NEW items \in Seq(Items), \A i \in 1..Len(items) : items[i] # End,
         FinishColumn(c, items), gen' = gen, runGate' = runGate, finished' = finished
  PROVE  Inv'
<1> DEFINE woken == Woken(colGate)
           p == PushAll(channel[RunOf(c)], Append(items, End), Capacity)
<1>1. /\ col'[c] = "done" /\ colGate' = GiveBack(colGate)
      /\ \A d \in Columns \ {c} : col'[d] = IF d \in woken THEN "granted" ELSE col[d]
      /\ channel' = [channel EXCEPT ![RunOf(c)] = p]
  BY DEF FinishColumn
<1>2. Fits(colGate, Columns, ColOwners, ColWaiters, ColumnSlots) /\ IsFiniteSet(ColOwners)
  BY OwnersFinite DEF Inv, ColFits
<1>3. c \in ColOwners /\ ColOwners \cap ColWaiters = {}
  BY DEF ColOwners, ColWaiters, Live, ColIn
<1>4. /\ Fits(GiveBack(colGate), Columns, (ColOwners \ {c}) \cup woken, ColWaiters \ woken, ColumnSlots)
      /\ woken \subseteq ColWaiters
  BY <1>2, <1>3, FitsGiveBack, SlotsOK
<1>5. RunOf(c) \in Runs /\ c \in ColumnsOf(RunOf(c)) /\ \A q \in Runs : c \in ColumnsOf(q) => q = RunOf(c)
  BY RunOfIs DEF Inv, Basic
<1> HIDE DEF woken
<1>6. channel'[RunOf(c)] = p /\ \A q \in Runs \ {RunOf(c)} : channel'[q] = channel[q]
  BY <1>1, <1>5 DEF Inv, AllTold
<1>7. ColOwners' = (ColOwners \ {c}) \cup woken /\ ColWaiters' = ColWaiters \ woken
  BY <1>1, <1>4 DEF ColOwners, ColWaiters, Live, ColIn
<1>8. ColFits'
  BY <1>1, <1>4, <1>7 DEF ColFits, Fits
<1>9. RunFits'
  BY RunsRest
<1>10. \A d \in Columns \ {c} : /\ (col'[d] = "done" <=> col[d] = "done")
                                /\ (col'[d] = "unborn" <=> col[d] = "unborn")
  BY <1>1, <1>4 DEF ColWaiters
<1>11. ASSUME NEW q \in Runs PROVE ToldOf(q)'
  <2>1. ColumnsOf(q) \subseteq Columns /\ ColumnsOf(q)' = ColumnsOf(q)
    BY LineupParts DEF Inv, Basic, ColumnsOf
  <2>2. CASE q # RunOf(c)
    <3>1. \A d \in ColumnsOf(q) : d \in Columns \ {c}
      BY <1>5, <2>1, <2>2
    <3> QED
      BY <1>6, <1>10, <2>2, <3>1, RunRests
  <2>3. CASE q = RunOf(c)
    <3>1. DoneOf(q)' = DoneOf(q) \cup {c} /\ BornOf(q)' = BornOf(q)
      BY <1>1, <1>5, <1>10, <2>1, <2>3 DEF DoneOf, BornOf, ColIn, Live
    <3>2. RunTold(q, gen[q], channel[q], finished[q], ColumnsOf(q), DoneOf(q), BornOf(q))
      BY DEF Inv, AllTold, ToldOf
    <3>3. IsFiniteSet(DoneOf(q))
      BY OwnersFinite DEF Inv, Basic
    <3>4. c \in ColumnsOf(q) /\ c \notin DoneOf(q) /\ c \in BornOf(q)
      BY <1>5, <2>3 DEF DoneOf, BornOf, ColIn, Live
    <3>5. p = PushAll(channel[q], Append(items, End), Capacity)
      BY <2>3
    <3> HIDE DEF p
    <3>6. RunTold(q, gen[q], p, finished[q], ColumnsOf(q), DoneOf(q) \cup {c}, BornOf(q))
      BY <3>2, <3>3, <3>4, <3>5, ToldFinish
    <3> QED
      BY <1>6, <2>1, <2>3, <3>1, <3>6 DEF ToldOf
  <2> QED
    BY <2>2, <2>3
<1>12. channel' = [q \in Runs |-> channel'[q]]
  BY <1>1 DEF Inv, AllTold
<1>13. AllTold'
  BY <1>11, <1>12 DEF AllTold, Inv
<1> QED
  BY <1>8, <1>9, <1>13 DEF Inv

\* The ways a worker ends.
LEMMA FinishSteps ==
  ASSUME Inv, Basic', lineup' = lineup, NEW c \in Columns,
         RefuseColumn(c) \/ DriverAborts(c) \/ Record(c) \/ ReportFailure(c)
  PROVE  Inv'
<1>1. \A k \in {"error", "stopped"} :
        Failure(c, k) \in Seq(Items) /\ \A i \in 1..Len(Failure(c, k)) : Failure(c, k)[i] # End
  BY FailureItems
<1>2. CASE RefuseColumn(c)
  BY <1>1, <1>2, FinishMoves DEF RefuseColumn, ColIn, runVars
<1>3. CASE ReportFailure(c)
  BY <1>1, <1>3, FinishMoves DEF ReportFailure, ColIn, Live, runVars
<1>4. CASE DriverAborts(c)
  <2> DEFINE kind == IF stopped[c] /\ ~internal[RunOf(c)] THEN "stopped" ELSE "error"
  <2>1. FinishColumn(c, Failure(c, kind)) /\ col[c] = "driving" /\ gen' = gen /\ runGate' = runGate /\ finished' = finished
    BY <1>4 DEF DriverAborts, Rethrow, runVars
  <2>2. kind \in {"error", "stopped"}
    OBVIOUS
  <2> HIDE DEF kind
  <2> QED
    BY <1>1, <2>1, <2>2, FinishMoves DEF ColIn, Live
<1>5. CASE Record(c)
  <2> DEFINE y == Event(c, "complete")
             items == IF held[c] THEN <<>> ELSE <<y>>
  <2>1. FinishColumn(c, items) /\ col[c] = "recording" /\ gen' = gen /\ runGate' = runGate /\ finished' = finished
    BY <1>5 DEF Record, runVars
  <2>2. y \in Items /\ y # End
    BY Events
  <2> HIDE DEF y
  <2>3. items \in Seq(Items) /\ \A i \in 1..Len(items) : items[i] # End
    BY <2>2
  <2> HIDE DEF items
  <2> QED
    BY <2>1, <2>3, FinishMoves DEF ColIn, Live
<1> QED
  BY <1>2, <1>3, <1>4, <1>5

-----------------------------------------------------------------------------
(* The stream.                                                             *)

\* The columns of a run are aborted, with the run where it was or moved on.
LEMMA AbortMoves ==
  ASSUME Inv, Basic', lineup' = lineup, NEW r \in Runs, NEW h, NEW ch, AbortColumns(r, ch),
         gen' = [gen EXCEPT ![r] = h], gen[r] \in Streaming, h \in Streaming \cup {"teardown"},
         RunTold(r, h, ch, finished[r], ColumnsOf(r), DoneOf(r), BornOf(r)),
         runGate' = runGate, finished' = finished
  PROVE  Inv'
<1> DEFINE queued == {c \in ColumnsOf(r) : col[c] = "queued"}
           p == PushAll(ch, [i \in 1..Cardinality(queued) |-> End], Capacity)
<1>1. /\ colGate' = WithdrawAll(colGate, lineup[r], queued)
      /\ col' = [c \in Columns |-> IF c \in queued THEN "done" ELSE col[c]]
      /\ channel' = [channel EXCEPT ![r] = p]
  BY DEF AbortColumns
<1>2. gen'[r] = h /\ \A q \in Runs : q # r => gen'[q] = gen[q]
  BY DEF Inv, Basic
<1>3. RunFits'
  BY <1>2, RunsRest DEF RunIn, Streaming
<1>4. /\ lineup[r] \in Seq(Columns)
      /\ \A i, j \in 1..Len(lineup[r]) : lineup[r][i] = lineup[r][j] => i = j
      /\ IsFiniteSet(ColumnsOf(r)) /\ ColumnsOf(r) \subseteq Columns
  BY LineupParts DEF Inv, Basic
<1>5. queued \in SUBSET ColWaiters /\ queued \subseteq ToSet(lineup[r])
  BY <1>4 DEF ColWaiters, ColumnsOf
<1>6. IsFiniteSet(queued) /\ queued \in SUBSET ColumnsOf(r)
  BY <1>4, FS_Subset
<1>7. queued \cap DoneOf(r) = {} /\ queued \subseteq BornOf(r)
  BY DEF DoneOf, BornOf
<1>8. \A q \in Runs : q # r => queued \cap ColumnsOf(q) = {}
  <2> SUFFICES ASSUME NEW q \in Runs, NEW d \in queued, d \in ColumnsOf(q) PROVE q = r
    OBVIOUS
  <2>1. d \in Columns /\ d \in ColumnsOf(r)
    BY <1>4
  <2> QED
    BY <2>1, RunOfIs DEF Inv, Basic
<1>a. \A d \in queued : col[d] = "queued"
  OBVIOUS
<1>b. p = PushAll(ch, [i \in 1..Cardinality(queued) |-> End], Capacity)
  OBVIOUS
<1> HIDE DEF queued, p
<1>9. ColOwners' = ColOwners /\ ColWaiters' = ColWaiters \ queued
  BY <1>1, <1>a DEF ColOwners, ColWaiters, Live
<1>10. Fits(colGate, Columns, ColOwners, ColWaiters, ColumnSlots)
  BY DEF Inv, ColFits
<1>11. Fits(WithdrawAll(colGate, lineup[r], queued), Columns, ColOwners, ColWaiters \ queued, ColumnSlots)
  BY <1>4, <1>5, <1>10, FitsAbort, SlotsOK
<1>12. ColFits'
  BY <1>1, <1>9, <1>11 DEF ColFits, Fits
<1>13. channel'[r] = p /\ \A q \in Runs : q # r => channel'[q] = channel[q]
  BY <1>1 DEF Inv, AllTold
<1>14. ASSUME NEW q \in Runs PROVE ToldOf(q)'
  <2>1. ColumnsOf(q) \subseteq Columns /\ ColumnsOf(q)' = ColumnsOf(q)
    BY LineupParts DEF Inv, Basic, ColumnsOf
  <2>2. CASE q # r
    <3>1. \A d \in ColumnsOf(q) : col'[d] = col[d]
      BY <1>1, <1>8, <2>1, <2>2
    <3> QED
      BY <1>2, <1>13, <2>2, <3>1, RunRests
  <2>3. CASE q = r
    <3>1. DoneOf(r)' = DoneOf(r) \cup queued /\ BornOf(r)' = BornOf(r)
      BY <1>1, <1>6, <1>a, <2>1, <2>3 DEF DoneOf, BornOf
    <3>2. IsFiniteSet(DoneOf(r))
      BY OwnersFinite DEF Inv, Basic
    <3>3. RunTold(r, h, p, finished[r], ColumnsOf(r), DoneOf(r) \cup queued, BornOf(r))
      BY <1>6, <1>7, <1>b, <3>2, ToldAbort
    <3> QED
      BY <1>2, <1>13, <2>1, <2>3, <3>1, <3>3 DEF ToldOf
  <2> QED
    BY <2>2, <2>3
<1>15. channel' = [q \in Runs |-> channel'[q]]
  BY <1>1 DEF Inv, AllTold
<1>16. AllTold'
  BY <1>14, <1>15 DEF AllTold, Inv
<1> QED
  BY <1>3, <1>12, <1>16 DEF Inv

\* The drain loop of a run moves on; the columns and the gates rest.
LEMMA LoopMoves ==
  ASSUME Inv, Basic', lineup' = lineup, NEW r \in Runs, NEW h \in Streaming, gen[r] \in Streaming,
         gen' = [gen EXCEPT ![r] = h],
         NEW p, channel' = [channel EXCEPT ![r] = p],
         NEW n, finished' = [finished EXCEPT ![r] = n],
         RunTold(r, h, p, n, ColumnsOf(r), DoneOf(r), BornOf(r)),
         runGate' = runGate, colGate' = colGate, col' = col
  PROVE  Inv'
<1>1. gen'[r] = h /\ \A q \in Runs : q # r => gen'[q] = gen[q]
  BY DEF Inv, Basic
<1>2. channel'[r] = p /\ \A q \in Runs : q # r => channel'[q] = channel[q]
  BY DEF Inv, AllTold
<1>3. finished'[r] = n /\ \A q \in Runs : q # r => finished'[q] = finished[q]
  BY DEF Inv, AllTold
<1>4. RunFits'
  BY <1>1, RunsRest DEF RunIn, Streaming
<1>5. ColFits'
  BY ColumnsRest
<1>6. ASSUME NEW q \in Runs PROVE ToldOf(q)'
  <2>1. CASE q # r
    BY <1>1, <1>2, <1>3, <2>1, RunRests
  <2>2. CASE q = r
    <3>1. ColumnsOf(r)' = ColumnsOf(r)
      BY DEF ColumnsOf
    <3>2. DoneOf(r)' = DoneOf(r) /\ BornOf(r)' = BornOf(r)
      BY <3>1 DEF DoneOf, BornOf
    <3> QED
      BY <1>1, <1>2, <1>3, <2>2, <3>1, <3>2 DEF ToldOf
  <2> QED
    BY <2>1, <2>2
<1>7. channel' = [q \in Runs |-> channel'[q]] /\ finished' = [q \in Runs |-> finished'[q]]
  BY DEF Inv, AllTold
<1>8. AllTold'
  BY <1>6, <1>7 DEF AllTold
<1> QED
  BY <1>4, <1>5, <1>8 DEF Inv

\* What the invariant says of a run, for the lemmas about RunTold.
LEMMA ToldFacts ==
  ASSUME Inv, NEW r \in Runs
  PROVE  /\ RunTold(r, gen[r], channel[r], finished[r], ColumnsOf(r), DoneOf(r), BornOf(r))
         /\ IsFiniteSet(DoneOf(r)) /\ DoneOf(r) \subseteq ColumnsOf(r) /\ IsFiniteSet(ColumnsOf(r))
         /\ Cardinality(ColumnsOf(r)) = Len(lineup[r])
         /\ finished = [finished EXCEPT ![r] = finished[r]]
<1>1. RunTold(r, gen[r], channel[r], finished[r], ColumnsOf(r), DoneOf(r), BornOf(r))
      /\ finished = [finished EXCEPT ![r] = finished[r]]
  BY DEF Inv, AllTold, ToldOf
<1> QED
  BY <1>1, OwnersFinite, LineupParts DEF Inv, Basic

\* The quiet poll ends the loop.
LEMMA TimeoutStep ==
  ASSUME Inv, Basic', lineup' = lineup, NEW r \in Runs, HandleTimeout(r)
  PROVE  Inv'
<1> DEFINE p == [channel[r] EXCEPT !.waiters = <<>>]
<1>1. /\ gen[r] = "receiving" /\ channel[r].waiters # <<>>
      /\ \A c \in ColumnsOf(r) : col[c] = "done"
      /\ gen' = [gen EXCEPT ![r] = "publishing"]
      /\ UNCHANGED <<runGate, finished, colGate, col>>
  BY DEF HandleTimeout, Parked, runVars
<1>2. channel' = [channel EXCEPT ![r] = p]
  BY DEF HandleTimeout, Inv, AllTold
<1>3. ColumnsOf(r) \subseteq DoneOf(r)
  BY <1>1 DEF DoneOf
<1>4. /\ RunTold(r, "receiving", channel[r], finished[r], ColumnsOf(r), DoneOf(r), BornOf(r))
      /\ finished' = [finished EXCEPT ![r] = finished[r]]
  BY <1>1, ToldFacts
<1>5. RunTold(r, "publishing", p, finished[r], ColumnsOf(r), DoneOf(r), BornOf(r))
  BY <1>1, <1>3, <1>4, ToldTimeout
<1>6. gen[r] \in Streaming /\ "publishing" \in Streaming
  BY <1>1 DEF Streaming
<1> HIDE DEF p
<1> QED
  BY <1>1, <1>2, <1>4, <1>5, <1>6, LoopMoves

\* A terminator is counted.
LEMMA EndStep ==
  ASSUME Inv, Basic', lineup' = lineup, NEW r \in Runs, HandleEnd(r)
  PROVE  Inv'
<1> DEFINE q == PickUp(channel[r], r)
           n == finished[r] + 1
<1>1. /\ gen[r] = "receiving" /\ r \in DOMAIN channel[r].resolved
      /\ channel[r].resolved[r].value = End
      /\ UNCHANGED <<runGate, colGate, col>>
  BY DEF HandleEnd, Got
<1>2. /\ RunTold(r, "receiving", channel[r], finished[r], ColumnsOf(r), DoneOf(r), BornOf(r))
      /\ IsFiniteSet(DoneOf(r)) /\ DoneOf(r) \subseteq ColumnsOf(r) /\ IsFiniteSet(ColumnsOf(r))
      /\ Cardinality(ColumnsOf(r)) = Len(lineup[r])
  BY <1>1, ToldFacts
<1>3. channel[r].resolved[r] = Item(End)
  <2>1. PICK x \in Items : channel[r].resolved[r] = Item(x)
    BY <1>1, <1>2 DEF RunTold, Stream
  <2>2. Item(x).value = x
    BY DEF Item
  <2> QED
    BY <1>1, <2>1, <2>2
<1>4. RunTold(r, "writing", q, n, ColumnsOf(r), DoneOf(r), BornOf(r))
  BY <1>1, <1>2, <1>3, ToldEnd
<1>5. finished' = [finished EXCEPT ![r] = n]
  BY DEF HandleEnd
<1>6. gen[r] \in Streaming /\ "publishing" \in Streaming /\ "receiving" \in Streaming
  BY <1>1 DEF Streaming
<1> HIDE DEF q
<1>7. CASE n = Len(lineup[r])
  <2>1. gen' = [gen EXCEPT ![r] = "publishing"] /\ channel' = [channel EXCEPT ![r] = q]
    BY <1>7 DEF HandleEnd, q
  <2>2. RunTold(r, "publishing", q, n, ColumnsOf(r), DoneOf(r), BornOf(r))
    BY <1>2, <1>4, <1>7, ToldLast
  <2> HIDE DEF n
  <2> QED
    BY <1>1, <1>5, <1>6, <2>1, <2>2, LoopMoves
<1>8. CASE n # Len(lineup[r])
  <2> DEFINE p == Receive(q, r)
  <2>1. gen' = gen /\ channel' = [channel EXCEPT ![r] = p]
    BY <1>8 DEF HandleEnd, AskAgain, q
  <2>2. gen' = [gen EXCEPT ![r] = "receiving"]
    BY <1>1, <2>1 DEF Inv, Basic
  <2>3. RunTold(r, "receiving", p, n, ColumnsOf(r), DoneOf(r), BornOf(r))
    BY <1>2, <1>4, ToldReceive
  <2> HIDE DEF n, p
  <2> QED
    BY <1>1, <1>5, <1>6, <2>1, <2>2, <2>3, LoopMoves
<1> QED
  BY <1>7, <1>8

\* The route has written an event and pulls the next.
LEMMA WrittenStep ==
  ASSUME Inv, Basic', lineup' = lineup, NEW r \in Runs, EventWritten(r)
  PROVE  Inv'
<1> DEFINE p == Receive(channel[r], r)
<1>1. /\ gen[r] = "writing" /\ gen' = [gen EXCEPT ![r] = "receiving"]
      /\ channel' = [channel EXCEPT ![r] = p]
      /\ UNCHANGED <<runGate, finished, colGate, col>>
  BY DEF EventWritten, Ask, runVars
<1>2. /\ RunTold(r, "writing", channel[r], finished[r], ColumnsOf(r), DoneOf(r), BornOf(r))
      /\ IsFiniteSet(DoneOf(r)) /\ finished' = [finished EXCEPT ![r] = finished[r]]
  BY <1>1, ToldFacts
<1>3. RunTold(r, "receiving", p, finished[r], ColumnsOf(r), DoneOf(r), BornOf(r))
  BY <1>2, ToldReceive
<1>4. gen[r] \in Streaming /\ "receiving" \in Streaming
  BY <1>1 DEF Streaming
<1> HIDE DEF p
<1> QED
  BY <1>1, <1>2, <1>3, <1>4, LoopMoves

\* An event is yielded, written, or turned away with its run.
LEMMA EventStep ==
  ASSUME Inv, Basic', lineup' = lineup, NEW r \in Runs, HandleEvent(r)
  PROVE  Inv'
<1> DEFINE p == PickUp(channel[r], r)
<1>1. /\ gen[r] = "receiving" /\ r \in DOMAIN channel[r].resolved
      /\ channel[r].resolved[r].value # End
      /\ UNCHANGED <<runGate, finished>>
  BY DEF HandleEvent, Got
<1>2. /\ RunTold(r, "receiving", channel[r], finished[r], ColumnsOf(r), DoneOf(r), BornOf(r))
      /\ IsFiniteSet(DoneOf(r)) /\ finished' = [finished EXCEPT ![r] = finished[r]]
  BY <1>1, ToldFacts
<1>3. channel[r].resolved[r] # Item(End)
  BY <1>1 DEF Item
<1>4. ASSUME NEW h \in {"writing", "teardown"}
      PROVE  RunTold(r, h, p, finished[r], ColumnsOf(r), DoneOf(r), BornOf(r))
  BY <1>1, <1>2, <1>3, ToldEvent
<1>5. gen[r] \in Streaming /\ "writing" \in Streaming
  BY <1>1 DEF Streaming
<1>6. CASE client[r] = "gone"
  <2>1. AbortColumns(r, p) /\ gen' = [gen EXCEPT ![r] = "teardown"]
    BY <1>6 DEF HandleEvent, Teardown
  <2> HIDE DEF p
  <2>2. "teardown" \in Streaming \cup {"teardown"}
    OBVIOUS
  <2> QED
    BY <1>1, <1>4, <1>5, <2>1, <2>2, AbortMoves
<1>7. CASE client[r] # "gone"
  <2>1. /\ gen' = [gen EXCEPT ![r] = "writing"] /\ channel' = [channel EXCEPT ![r] = p]
        /\ UNCHANGED <<colGate, col>>
    BY <1>7 DEF HandleEvent
  <2> HIDE DEF p
  <2> QED
    BY <1>1, <1>2, <1>4, <1>5, <2>1, LoopMoves
<1> QED
  BY <1>6, <1>7

\* The loop has ended: the report, and the end of the stream.
LEMMA EndingSteps ==
  ASSUME Inv, Basic', lineup' = lineup, NEW r \in Runs, Publish(r) \/ ReportWritten(r)
  PROVE  Inv'
<1>1. /\ gen[r] \in {"publishing", "reporting"} /\ UNCHANGED <<runGate, finished>>
  BY DEF Publish, ReportWritten
<1>2. CASE AbortColumns(r, channel[r]) /\ gen' = [gen EXCEPT ![r] = "teardown"]
  <2>1. RunTold(r, gen[r], channel[r], finished[r], ColumnsOf(r), DoneOf(r), BornOf(r))
    BY ToldFacts
  <2>2. RunTold(r, "teardown", channel[r], finished[r], ColumnsOf(r), DoneOf(r), BornOf(r))
    BY <1>1, <2>1, ToldMoves DEF Early, Over
  <2>3. gen[r] \in Streaming /\ "teardown" \in Streaming \cup {"teardown"}
    BY <1>1 DEF Streaming
  <2> QED
    BY <1>1, <1>2, <2>2, <2>3, AbortMoves
<1>3. CASE gen[r] = "publishing" /\ gen' = [gen EXCEPT ![r] = "reporting"] /\ UNCHANGED <<colGate, col, channel>>
  BY <1>1, <1>3, GenMoves DEF RunIn, Streaming, Early, Over
<1> QED
  BY <1>2, <1>3 DEF Publish, ReportWritten, Teardown

\* The client goes.
LEMMA DisconnectStep ==
  ASSUME Inv, Basic', lineup' = lineup, NEW r \in Runs, Disconnect(r)
  PROVE  Inv'
<1>1. gen \in [Runs -> GenState] /\ finished' = finished
  BY DEF Inv, Basic, Disconnect
<1>2. CASE /\ gen[r] = "slot" /\ runGate' = Withdraw(runGate, r)
           /\ gen' = [gen EXCEPT ![r] = "throwing"] /\ UNCHANGED <<colGate, col, channel>>
  <2>1. gen'[r] = "throwing" /\ \A q \in Runs : q # r => gen'[q] = gen[q]
    BY <1>1, <1>2
  <2>2. r \in RunWaiters
    BY <1>2 DEF RunWaiters
  <2>3. Fits(runGate, Runs, RunOwners, RunWaiters, RunSlots)
    BY DEF Inv, RunFits
  <2>4. Fits(Withdraw(runGate, r), Runs, RunOwners, RunWaiters \ {r}, RunSlots)
    BY <2>2, <2>3, FitsWithdraw, SlotsOK
  <2>5. RunOwners' = RunOwners /\ RunWaiters' = RunWaiters \ {r}
    BY <1>2, <2>1 DEF RunOwners, RunWaiters, Streaming
  <2>6. RunFits'
    BY <1>2, <2>4, <2>5 DEF RunFits, Fits
  <2>7. ColFits'
    BY <1>2, ColumnsRest
  <2>8. ASSUME NEW q \in Runs PROVE ToldOf(q)'
    <3>1. CASE q # r
      BY <1>1, <1>2, <2>1, <3>1, RunRests
    <3>2. CASE q = r
      <4>1. ColumnsOf(r)' = ColumnsOf(r)
        BY DEF ColumnsOf
      <4>2. DoneOf(r)' = DoneOf(r) /\ BornOf(r)' = BornOf(r)
        BY <1>2, <4>1 DEF DoneOf, BornOf
      <4>3. RunTold(r, gen[r], channel[r], finished[r], ColumnsOf(r), DoneOf(r), BornOf(r))
        BY ToldFacts
      <4>4. RunTold(r, "throwing", channel[r], finished[r], ColumnsOf(r), DoneOf(r), BornOf(r))
        BY <1>2, <4>3, ToldMoves DEF Early, Over
      <4> QED
        BY <1>1, <1>2, <2>1, <3>2, <4>1, <4>2, <4>4 DEF ToldOf
    <3> QED
      BY <3>1, <3>2
  <2>9. AllTold'
    BY <1>1, <1>2, <2>8 DEF AllTold, Inv
  <2> QED
    BY <2>6, <2>7, <2>9 DEF Inv
<1>3. CASE gen[r] \in Streaming /\ AbortColumns(r, channel[r]) /\ UNCHANGED <<gen, runGate>>
  <2> DEFINE h == gen[r]
  <2>1. gen' = [gen EXCEPT ![r] = h]
    BY <1>1, <1>3
  <2>2. RunTold(r, h, channel[r], finished[r], ColumnsOf(r), DoneOf(r), BornOf(r))
    BY ToldFacts
  <2>3. h \in Streaming /\ h \in Streaming \cup {"teardown"}
    BY <1>3
  <2> QED
    BY <1>1, <1>3, <2>1, <2>2, <2>3, AbortMoves
<1>4. CASE UNCHANGED <<gen, runGate, colGate, col, channel>>
  <2>1. RunFits'
    BY <1>4, RunsRest
  <2>2. ColFits'
    BY <1>4, ColumnsRest
  <2>3. ASSUME NEW q \in Runs PROVE ToldOf(q)'
    BY <1>1, <1>4, RunRests
  <2>4. AllTold'
    BY <1>1, <1>4, <2>3 DEF AllTold, Inv
  <2> QED
    BY <2>1, <2>2, <2>4 DEF Inv
<1> QED
  BY <1>2, <1>3, <1>4 DEF Disconnect

\* The gate when the workers of a run have been spawned.
LEMMA GateStart ==
  ASSUME NEW S, NEW permits \in Nat, NEW inside, IsFiniteSet(inside), NEW waiting, NEW g,
         Fits(g, S, inside, waiting, permits),
         NEW l \in Seq(S), \A i, j \in 1..Len(l) : l[i] = l[j] => i = j,
         ToSet(l) \cap waiting = {}, ToSet(l) \cap inside = {},
         NEW take \in 0..Len(l), take <= g.available, take = Len(l) \/ take = g.available,
         NEW granted, IsFiniteSet(granted), Cardinality(granted) = take,
         \A b : b \in granted <=> \E i \in 1..take : l[i] = b,
         NEW v, JoinsOn(v, S, g.waiters, l, take)
  PROVE  /\ Fits([available |-> g.available - take, waiters |-> v], S, inside \cup granted,
                 waiting \cup (ToSet(l) \ granted), permits)
         /\ granted \subseteq ToSet(l)
<1> DEFINE w == g.waiters
           n == Len(l)
<1>1. w \in Seq(S) /\ ToSet(w) = waiting /\ (\A i, j \in 1..Len(w) : w[i] = w[j] => i = j)
  BY DEF Fits, Gate
<1>2. granted \subseteq ToSet(l)
  <2>1. \A i \in 1..take : i \in 1..n
    OBVIOUS
  <2> QED
    BY <2>1, ToSetPlaces
<1>3. v \in Seq(S) /\ Len(v) = Len(w) + (n - take)
  BY DEF JoinsOn
<1>4. ToSet(w) \cap ToSet(l) = {} /\ JoinsOn(v, S, w, l, take)
  BY <1>1
<1>5. Len(v) = Len(g.waiters) + (n - take)
  BY <1>3
<1> HIDE DEF w
<1>a. OnceEach(w) /\ OnceEach(l) /\ FirstOf(granted, l, take)
  BY <1>1 DEF OnceEach, FirstOf
<1>b. OnceEach(v) /\ ToSet(v) = ToSet(w) \cup (ToSet(l) \ granted)
  BY <1>1, <1>4, <1>a, JoinedQueue
<1>6. \A i, j \in 1..Len(v) : v[i] = v[j] => i = j
  BY <1>b DEF OnceEach
<1>7. ToSet(v) = ToSet(w) \cup (ToSet(l) \ granted)
  BY <1>b
<1>8. inside \cap granted = {}
  BY <1>2
<1>9. n \in Nat /\ take \in 0..n /\ (take = n \/ take = g.available)
  OBVIOUS
<1> HIDE DEF n
<1>10. Fits([available |-> g.available - take, waiters |-> v], S, inside \cup granted, ToSet(v), permits)
  BY <1>3, <1>5, <1>6, <1>8, <1>9, FitsStart
<1>11. ToSet(v) = waiting \cup (ToSet(l) \ granted)
  BY <1>1, <1>7
<1> QED
  BY <1>2, <1>10, <1>11

\* All workers of a run are spawned and the drain loop asks for the first item.
LEMMA StartStep ==
  ASSUME Inv, Basic', lineup' = lineup, NEW r \in Runs, Start(r)
  PROVE  Inv'
<1> DEFINE l == lineup[r]
           n == Len(l)
           take == IF colGate.available < n THEN colGate.available ELSE n
           granted == {l[i] : i \in 1..take}
           v == colGate.waiters \o SubSeq(l, take + 1, n)
           h == [available |-> colGate.available - take, waiters |-> v]
           p == Receive(channel[r], r)
<1>1. /\ gen[r] = "admitted" /\ gen' = [gen EXCEPT ![r] = "receiving"]
      /\ channel' = [channel EXCEPT ![r] = p]
      /\ UNCHANGED <<runGate, finished>>
  BY DEF Start, Ask, runVars
<1>2. colGate' = h
  BY DEF Start
<1>3. col' = [c \in Columns |-> IF c \in granted THEN "granted"
                               ELSE IF c \in ColumnsOf(r) THEN "queued" ELSE col[c]]
  BY DEF Start
<1>4. /\ l \in Seq(Columns) /\ n \in Nat
      /\ \A i, j \in 1..n : l[i] = l[j] => i = j
      /\ ColumnsOf(r) \subseteq Columns /\ ToSet(l) = ColumnsOf(r)
  BY LineupParts DEF Inv, Basic, ColumnsOf
<1>5. \A c \in ColumnsOf(r) : col[c] = "unborn"
  <2>1. RunTold(r, gen[r], channel[r], finished[r], ColumnsOf(r), DoneOf(r), BornOf(r))
    BY ToldFacts
  <2>2. BornOf(r) = {}
    BY <1>1, <2>1 DEF RunTold, Early
  <2> QED
    BY <2>2 DEF BornOf
<1>6. Fits(colGate, Columns, ColOwners, ColWaiters, ColumnSlots) /\ IsFiniteSet(ColOwners)
  BY OwnersFinite DEF Inv, ColFits
<1>7. ToSet(l) \cap ColOwners = {} /\ ToSet(l) \cap ColWaiters = {}
  BY <1>4, <1>5 DEF ColOwners, ColWaiters, Live
<1>8. colGate.available \in Nat
  BY <1>6, SlotsOK DEF Fits, Gate
<1>9. take \in 0..n /\ take <= colGate.available /\ (take = n \/ take = colGate.available)
  BY <1>4, <1>8
<1>10. granted = {l[i] : i \in 1..take}
  OBVIOUS
<1>a. h = [available |-> colGate.available - take, waiters |-> v]
  OBVIOUS
<1>b. v = colGate.waiters \o SubSeq(l, take + 1, n)
  OBVIOUS
<1> HIDE DEF take, granted, h, p, l, v
<1>c. IsFiniteSet(granted) /\ Cardinality(granted) = take
  BY <1>4, <1>9, <1>10, FirstElements
<1>d. \A b : b \in granted <=> \E i \in 1..take : l[i] = b
  BY <1>10
<1>e. JoinsOn(v, Columns, colGate.waiters, l, take)
  <2>1. LeftOf(SubSeq(l, take + 1, n), Columns, l, take)
    BY <1>4, <1>9, RestProperties
  <2>2. colGate.waiters \in Seq(Columns)
    BY <1>6 DEF Fits, Gate
  <2> QED
    BY <1>4, <1>9, <1>b, <2>1, <2>2, ConcatJoins
<1>f. Fits([available |-> colGate.available - take, waiters |-> v], Columns, ColOwners \cup granted,
           ColWaiters \cup (ToSet(l) \ granted), ColumnSlots) /\ granted \subseteq ToSet(l)
  BY <1>4, <1>6, <1>7, <1>9, <1>c, <1>d, <1>e, SlotsOK, GateStart
<1>11. /\ Fits(h, Columns, ColOwners \cup granted, ColWaiters \cup (ToSet(l) \ granted), ColumnSlots)
       /\ granted \subseteq ToSet(l)
  BY <1>a, <1>f
<1>12. \A c \in Columns : c \notin ColumnsOf(r) => col'[c] = col[c]
  BY <1>3, <1>4, <1>11
<1>13. \A c \in ColumnsOf(r) : col'[c] = IF c \in granted THEN "granted" ELSE "queued"
  BY <1>3, <1>4
<1>14. ColOwners' = ColOwners \cup granted /\ ColWaiters' = ColWaiters \cup (ToSet(l) \ granted)
  BY <1>4, <1>5, <1>11, <1>12, <1>13 DEF ColOwners, ColWaiters, Live
<1>15. ColFits'
  BY <1>2, <1>11, <1>14 DEF ColFits, Fits
<1>16. gen'[r] = "receiving" /\ \A q \in Runs : q # r => gen'[q] = gen[q]
  BY <1>1 DEF Inv, Basic
<1>17. RunFits'
  BY <1>1, <1>16, RunsRest DEF RunIn, Streaming
<1>18. channel'[r] = p /\ \A q \in Runs : q # r => channel'[q] = channel[q]
  BY <1>1 DEF Inv, AllTold
<1>19. ASSUME NEW q \in Runs PROVE ToldOf(q)'
  <2>1. ColumnsOf(q) \subseteq Columns /\ ColumnsOf(q)' = ColumnsOf(q)
    BY LineupParts DEF Inv, Basic, ColumnsOf
  <2>2. CASE q # r
    <3>1. \A d \in ColumnsOf(q) : d \notin ColumnsOf(r)
      BY <2>1, <2>2, RunOfIs DEF Inv, Basic
    <3> QED
      BY <1>1, <1>12, <1>16, <1>18, <2>1, <2>2, <3>1, RunRests
  <2>3. CASE q = r
    <3>1. DoneOf(r) = {} /\ DoneOf(r)' = {}
      BY <1>5, <1>13, <2>1, <2>3 DEF DoneOf
    <3>2. RunTold(r, "admitted", channel[r], finished[r], ColumnsOf(r), DoneOf(r), BornOf(r)) /\ IsFiniteSet(DoneOf(r))
      BY <1>1, ToldFacts
    <3>3. ASSUME NEW born PROVE RunTold(r, "receiving", p, finished[r], ColumnsOf(r), DoneOf(r), born)
      BY <3>2, ToldReceive DEF p
    <3>4. RunTold(r, "receiving", p, finished[r], ColumnsOf(r), DoneOf(r), BornOf(r)')
      BY <3>3
    <3> QED
      BY <1>1, <1>16, <1>18, <2>1, <2>3, <3>1, <3>4 DEF ToldOf
  <2> QED
    BY <2>2, <2>3
<1>20. channel' = [q \in Runs |-> channel'[q]]
  BY <1>1 DEF Inv, AllTold
<1>21. AllTold'
  BY <1>1, <1>19, <1>20 DEF AllTold, Inv
<1> QED
  BY <1>15, <1>17, <1>21 DEF Inv

-----------------------------------------------------------------------------
\* Every step keeps the invariant.
LEMMA NextInv == Inv /\ Next => Inv'
<1> SUFFICES ASSUME Inv, Next PROVE Inv'
  OBVIOUS
<1>1. Basic' /\ lineup' = lineup
  BY BasicStep DEF Next
<1>2. ASSUME NEW r \in Runs, Request(r) \/ Generator(r) \/ Disconnect(r)
      PROVE  Inv'
  BY <1>1, <1>2, QuietSteps, OpenStep, ReleaseSteps, StartStep, TimeoutStep, EndStep, EventStep,
     WrittenStep, EndingSteps, DisconnectStep DEF Generator
<1>3. ASSUME NEW c \in Columns, Driver(c) \/ Worker(c) \/ StopColumn(c)
      PROVE  Inv'
  BY <1>1, <1>3, ColumnSteps, EmitStep, FinalizeStep, FinishSteps DEF Driver, Worker
<1> QED
  BY <1>2, <1>3 DEF Next

\* Nothing happens.
LEMMA StutterInv == Inv /\ UNCHANGED vars => Inv'
<1> SUFFICES ASSUME Inv, UNCHANGED vars PROVE Inv'
  OBVIOUS
<1> USE DEF vars
<1>1. Basic'
  BY DEF Inv, Basic
<1>2. RunFits' /\ ColFits'
  BY RunsRest, ColumnsRest
<1>3. AllTold'
  BY RunRests DEF AllTold, Inv
<1> QED
  BY <1>1, <1>2, <1>3 DEF Inv

\* The slots of both gates are conserved, whoever refuses, stops, aborts or leaves early, and a
\* drain loop that ended by itself left nothing behind, for every lineup, slot count and capacity.
THEOREM ArenaRunKeepsSlotsAndEvents ==
  Spec => [](TypeOK /\ SlotsConserved /\ NothingLeftBehind)
<1>1. Init => Inv
  BY InitInv
<1>2. Inv /\ [Next]_vars => Inv'
  BY NextInv, StutterInv
<1>3. Inv => TypeOK /\ SlotsConserved /\ NothingLeftBehind
  BY InvTells
<1> QED
  BY <1>1, <1>2, <1>3, PTL DEF Spec

\* Free slots and their owners add up to the configured counts, and nobody queues while
\* one is free.
THEOREM SlotsAreConserved == Spec => []SlotsConserved
BY ArenaRunKeepsSlotsAndEvents, PTL

\* A drain loop that ended by itself left no event and no live column behind.
THEOREM NothingIsLeftBehind == Spec => []NothingLeftBehind
BY ArenaRunKeepsSlotsAndEvents, PTL

-----------------------------------------------------------------------------
(* What a column says (TerminalsTold).                                     *)

Kinds == {"step", "error", "stopped", "complete"}
Of(c) == {Event(c, kind) : kind \in Kinds}
CompleteOf(c) == Event(c, "complete")
HasEnded(said) == \E i \in 1..Len(said) : said[i] = "complete"

\* The complete of a column is the last that its channel holds of it and the last that the
\* route has received of it; it exists once there is a verdict, and it is somewhere unless
\* the channel dropped.
Voice(c, ch, r, said, v) ==
  /\ said \in Seq(Kinds) /\ ch.dropped \in Nat
  /\ \A x \in Of(c) : ~Precedes(ch, r, CompleteOf(c), x)
  /\ v = "none" => ~Pends(ch, r, CompleteOf(c)) /\ ~HasEnded(said)
  /\ \A i \in 1..Len(said) :
       said[i] = "complete" => i = Len(said) /\ \A x \in Of(c) : ~Pends(ch, r, x)
  /\ v # "none" /\ ch.dropped = 0 => Pends(ch, r, CompleteOf(c)) \/ HasEnded(said)

\* The channel holds nothing of the column.
Mute(c, ch, r) == ch.dropped \in Nat /\ \A x \in Of(c) : ~Pends(ch, r, x)

\* The events of a column are told from those of others and from the terminator.
LEMMA OwnEvents ==
  /\ \A c, d, k, l : Event(c, k) = Event(d, l) => c = d /\ k = l
  /\ \A c, d : \A x \in Of(c) : x \in Of(d) => c = d
  /\ \A c : CompleteOf(c) \in Of(c) /\ End \notin Of(c)
  /\ \A c : \A x \in Of(c) : x.col = c /\ x.kind \in Kinds /\ (x.kind = "complete" <=> x = CompleteOf(c))
  /\ \A x \in Items : x # End => x \in Of(x.col) /\ x.col \in Columns /\ x.kind \in Kinds
<1>1. ASSUME NEW c, NEW d, NEW k, NEW l, Event(c, k) = Event(d, l) PROVE c = d /\ k = l
  <2>1. Event(c, k).col = c /\ Event(d, l).col = d /\ Event(c, k).kind = k /\ Event(d, l).kind = l
    BY DEF Event
  <2> QED
    BY <1>1, <2>1
<1>2. ASSUME NEW c, NEW d, NEW x \in Of(c), x \in Of(d) PROVE c = d
  BY <1>1, <1>2 DEF Of
<1>3. ASSUME NEW c PROVE CompleteOf(c) \in Of(c) /\ End \notin Of(c)
  <2>1. \A k : "col" \in DOMAIN Event(c, k) /\ "col" \notin DOMAIN End
    BY DEF Event, End
  <2>2. \A k : Event(c, k) # End
    BY <2>1
  <2> QED
    BY <2>2 DEF CompleteOf, Of, Kinds
<1>4. ASSUME NEW c, NEW x \in Of(c)
      PROVE  x.col = c /\ x.kind \in Kinds /\ (x.kind = "complete" <=> x = CompleteOf(c))
  <2>1. PICK k \in Kinds : x = Event(c, k)
    BY DEF Of
  <2>2. x.col = c /\ x.kind = k
    BY <2>1 DEF Event
  <2> QED
    BY <1>1, <2>1, <2>2 DEF CompleteOf
<1>5. ASSUME NEW x \in Items, x # End PROVE x \in Of(x.col) /\ x.col \in Columns /\ x.kind \in Kinds
  <2>1. x \in [col : Columns, kind : Kinds]
    BY <1>5 DEF Items, Kinds
  <2>2. x = Event(x.col, x.kind) /\ x.col \in Columns /\ x.kind \in Kinds
    BY <2>1 DEF Event
  <2> QED
    BY <2>2 DEF Of
<1> QED
  BY <1>1, <1>2, <1>3, <1>4, <1>5

\* A worker pushes: nothing of a column that has its verdict, and its complete last.
LEMMA VoicePushes ==
  ASSUME NEW c, NEW ch, NEW r, NEW said, NEW v, Voice(c, ch, r, said, v),
         Stream(ch, r, Items, Capacity), ~ch.closed,
         NEW items \in Seq(Items), NEW p, p = PushAll(ch, items, Capacity),
         v # "none" => \A i \in 1..Len(items) : items[i] \notin Of(c),
         \A i, j \in 1..Len(items) : i < j /\ items[i] = CompleteOf(c) => items[j] \notin Of(c),
         NEW w, v # "none" => w # "none",
         v = "none" => (w # "none" <=> \E i \in 1..Len(items) : items[i] = CompleteOf(c))
  PROVE  Voice(c, p, r, said, w)
<1> DEFINE y == CompleteOf(c)
           n == Len(items)
<1>1. PushedInOrder(ch, p, r, items, n)
  BY CapacityOK, PushAllOrder DEF Voice
<1>2. y \in Of(c)
  BY OwnEvents
<1> HIDE DEF n
<1>3. ASSUME NEW x \in Of(c), Precedes(p, r, y, x) PROVE FALSE
  <2>1. ~Precedes(ch, r, y, x)
    BY DEF Voice
  <2>2. CASE Pends(ch, r, y) /\ \E j \in 1..n : items[j] = x
    BY <2>2 DEF Voice, n
  <2>3. CASE \E i, j \in 1..n : i < j /\ items[i] = y /\ items[j] = x
    BY <2>3 DEF n
  <2> QED
    BY <1>1, <1>3, <2>1, <2>2, <2>3 DEF PushedInOrder
<1>4. ASSUME w = "none" PROVE ~Pends(p, r, y) /\ ~HasEnded(said)
  <2>1. v = "none" /\ ~\E i \in 1..n : items[i] = y
    BY <1>4 DEF n
  <2> QED
    BY <1>1, <2>1 DEF PushedInOrder, Voice
<1>5. ASSUME NEW i \in 1..Len(said), said[i] = "complete"
      PROVE  i = Len(said) /\ \A x \in Of(c) : ~Pends(p, r, x)
  <2>1. v # "none"
    BY <1>5 DEF Voice, HasEnded
  <2> QED
    BY <1>1, <1>5, <2>1 DEF PushedInOrder, Voice, n
<1>6. ASSUME w # "none", p.dropped = 0 PROVE Pends(p, r, y) \/ HasEnded(said)
  <2>1. ch.dropped = 0 /\ \A e : Pends(ch, r, e) \/ (\E i \in 1..n : items[i] = e) => Pends(p, r, e)
    BY <1>1, <1>6 DEF PushedInOrder
  <2>2. CASE v = "none"
    BY <1>6, <2>1, <2>2 DEF n
  <2>3. CASE v # "none"
    BY <2>1, <2>3 DEF Voice
  <2> QED
    BY <2>2, <2>3
<1>7. said \in Seq(Kinds) /\ p.dropped \in Nat
  BY <1>1 DEF PushedInOrder, Voice
<1> QED
  BY <1>3, <1>4, <1>5, <1>6, <1>7 DEF Voice

\* The receiver asks.
LEMMA VoiceReceive ==
  ASSUME NEW c, NEW ch, NEW r, NEW said, NEW v, Voice(c, ch, r, said, v),
         Stream(ch, r, Items, Capacity), ~Awaited(ch), ~ch.closed, NEW p, p = Receive(ch, r)
  PROVE  Voice(c, p, r, said, v)
<1>1. /\ p.dropped = ch.dropped
      /\ \A e : Pends(p, r, e) <=> Pends(ch, r, e)
      /\ \A a, b : Precedes(p, r, a, b) => Precedes(ch, r, a, b)
  BY CapacityOK, ReceiveOrder
<1> QED
  BY <1>1 DEF Voice

\* The channel holds what it held.
LEMMA VoiceRests ==
  ASSUME NEW c, NEW ch, NEW r, NEW said, NEW v, Voice(c, ch, r, said, v), NEW p,
         p.buffer = ch.buffer, p.resolved = ch.resolved, p.dropped = ch.dropped
  PROVE  Voice(c, p, r, said, v)
  BY DEF Voice, Pends, Precedes, InHand

\* The receiver picks up what is not of the column, ...
LEMMA VoicePicksOther ==
  ASSUME NEW c, NEW ch, NEW r, NEW said, NEW v, Voice(c, ch, r, said, v),
         Stream(ch, r, Items, Capacity), r \in DOMAIN ch.resolved,
         NEW x, ch.resolved[r] = Item(x), x \notin Of(c), NEW p, p = PickUp(ch, r)
  PROVE  Voice(c, p, r, said, v)
<1>1. /\ p.dropped = ch.dropped
      /\ \A e : Pends(ch, r, e) => e = x \/ Pends(p, r, e)
      /\ \A e : Pends(p, r, e) => Pends(ch, r, e)
      /\ \A a, b : Precedes(p, r, a, b) => Precedes(ch, r, a, b)
  BY CapacityOK, PickUpOrder
<1>2. CompleteOf(c) # x
  BY OwnEvents
<1> QED
  BY <1>1, <1>2 DEF Voice

\* ... or an event of the column, and the route has received it.
LEMMA VoicePicksOwn ==
  ASSUME NEW c, NEW ch, NEW r, NEW said, NEW v, Voice(c, ch, r, said, v),
         Stream(ch, r, Items, Capacity), r \in DOMAIN ch.resolved,
         NEW x, ch.resolved[r] = Item(x), x \in Of(c), NEW p, p = PickUp(ch, r)
  PROVE  Voice(c, p, r, Append(said, x.kind), v)
<1> DEFINE y == CompleteOf(c)
           m == Len(said)
           now == Append(said, x.kind)
<1>1. /\ p.dropped = ch.dropped /\ Pends(ch, r, x)
      /\ \A e : Pends(ch, r, e) => e = x \/ Pends(p, r, e)
      /\ \A e : Pends(p, r, e) => Pends(ch, r, e) /\ Precedes(ch, r, x, e)
      /\ \A a, b : Precedes(p, r, a, b) => Precedes(ch, r, a, b)
  BY CapacityOK, PickUpOrder
<1>2. x.kind \in Kinds /\ (x.kind = "complete" <=> x = y) /\ y \in Of(c)
  BY OwnEvents
<1>3. said \in Seq(Kinds) /\ m \in Nat
  BY DEF Voice
<1>4. ~HasEnded(said)
  BY <1>1 DEF Voice, HasEnded
<1>5. /\ now \in Seq(Kinds) /\ Len(now) = m + 1 /\ now[m + 1] = x.kind
      /\ \A i \in 1..m : now[i] = said[i]
  BY <1>2, <1>3, AppendProperties
<1> HIDE DEF now, m
<1>6. \A i \in 1..m + 1 : i \in 1..m \/ i = m + 1
  BY <1>3
<1>7. \A i \in 1..m + 1 : now[i] = "complete" => i = m + 1 /\ x = y
  BY <1>2, <1>4, <1>5, <1>6 DEF HasEnded, m
<1>8. HasEnded(now) <=> x = y
  <2>1. m + 1 \in 1..m + 1
    BY <1>3
  <2> QED
    BY <1>2, <1>5, <1>7, <2>1 DEF HasEnded
<1>9. ASSUME x = y PROVE \A e \in Of(c) : ~Pends(p, r, e)
  BY <1>1, <1>9 DEF Voice
<1>10. v = "none" => ~Pends(p, r, y) /\ ~HasEnded(now)
  BY <1>1, <1>8 DEF Voice
<1>11. v # "none" /\ p.dropped = 0 => Pends(p, r, y) \/ HasEnded(now)
  BY <1>1, <1>4, <1>8 DEF Voice
<1>12. \A e \in Of(c) : ~Precedes(p, r, y, e)
  BY <1>1 DEF Voice
<1>13. p.dropped \in Nat
  BY <1>1 DEF Voice
<1>14. \A i \in 1..Len(now) : now[i] = "complete" => i = Len(now) /\ \A e \in Of(c) : ~Pends(p, r, e)
  BY <1>5, <1>7, <1>9
<1> QED
  BY <1>5, <1>10, <1>11, <1>12, <1>13, <1>14 DEF Voice, now

\* A channel of another run stays without events of the column, whatever its own workers
\* push, when its receiver asks, and when it picks up.
LEMMA MutePushes ==
  ASSUME NEW c, NEW ch, NEW r, Mute(c, ch, r), Stream(ch, r, Items, Capacity), ~ch.closed,
         NEW items \in Seq(Items), NEW p, p = PushAll(ch, items, Capacity),
         \A i \in 1..Len(items) : items[i] \notin Of(c)
  PROVE  Mute(c, p, r)
<1>1. PushedInOrder(ch, p, r, items, Len(items))
  BY CapacityOK, PushAllOrder DEF Mute
<1> QED
  BY <1>1 DEF PushedInOrder, Mute

LEMMA MuteReceive ==
  ASSUME NEW c, NEW ch, NEW r, Mute(c, ch, r),
         Stream(ch, r, Items, Capacity), ~Awaited(ch), ~ch.closed, NEW p, p = Receive(ch, r)
  PROVE  Mute(c, p, r)
<1>1. p.dropped = ch.dropped /\ \A e : Pends(p, r, e) <=> Pends(ch, r, e)
  BY CapacityOK, ReceiveOrder
<1> QED
  BY <1>1 DEF Mute

LEMMA MutePicks ==
  ASSUME NEW c, NEW ch, NEW r, Mute(c, ch, r),
         Stream(ch, r, Items, Capacity), r \in DOMAIN ch.resolved,
         NEW x, ch.resolved[r] = Item(x), NEW p, p = PickUp(ch, r)
  PROVE  Mute(c, p, r) /\ x \notin Of(c)
<1>1. p.dropped = ch.dropped /\ Pends(ch, r, x) /\ \A e : Pends(p, r, e) => Pends(ch, r, e)
  BY CapacityOK, PickUpOrder
<1> QED
  BY <1>1 DEF Mute

LEMMA MuteRests ==
  ASSUME NEW c, NEW ch, NEW r, Mute(c, ch, r), NEW p,
         p.buffer = ch.buffer, p.resolved = ch.resolved, p.dropped = ch.dropped
  PROVE  Mute(c, p, r)
  BY DEF Mute, Pends, InHand

\* A column that has its verdict is done, or waits for its episode with its own complete out.
Judged(c, v, at, own) ==
  /\ v # "none" => at = "done" \/ (at = "recording" /\ own)
  /\ at = "recording" /\ own => v # "none"
Speaks(c) ==
  /\ Voice(c, channel[RunOf(c)], RunOf(c), seen[c], verdict[c])
  /\ Judged(c, verdict[c], col[c], held[c])
AllSpeak ==
  /\ seen = [c \in Columns |-> seen[c]]
  /\ \A c \in Columns : Speaks(c)
  /\ \A r \in Runs : \A c \in Columns \ ColumnsOf(r) : Mute(c, channel[r], r)

\* The heads of the queues wait.
LEMMA WokenWait ==
  ASSUME Inv PROVE Woken(colGate) \subseteq ColWaiters /\ Woken(runGate) \subseteq RunWaiters
<1>1. ASSUME NEW S, NEW g, NEW permits, NEW inside, NEW waiting, Fits(g, S, inside, waiting, permits)
      PROVE  Woken(g) \subseteq waiting
  <2>1. CASE g.waiters # <<>>
    <3>1. g.waiters \in Seq(S) /\ ToSet(g.waiters) = waiting
      BY <1>1 DEF Fits, Gate
    <3>2. 1 \in 1..Len(g.waiters) /\ Head(g.waiters) = g.waiters[1]
      BY <2>1, <3>1
    <3>3. Head(g.waiters) \in waiting
      BY <3>1, <3>2, ToSetPlaces
    <3> QED
      BY <2>1, <3>3 DEF Woken
  <2>2. CASE g.waiters = <<>>
    BY <2>2 DEF Woken
  <2> QED
    BY <2>1, <2>2
<1> QED
  BY <1>1 DEF Inv, RunFits, ColFits

\* What a column says after a step of its run r, whose channel becomes p.
LEMMA SpeaksMoves ==
  ASSUME Inv, AllSpeak, lineup' = lineup, NEW r \in Runs,
         NEW p, channel' = [channel EXCEPT ![r] = p],
         \A c \in ColumnsOf(r) :
           Voice(c, channel[r], r, seen[c], verdict[c]) => Voice(c, p, r, seen'[c], verdict'[c]),
         \A c \in Columns \ ColumnsOf(r) :
           /\ seen'[c] = seen[c] /\ verdict'[c] = verdict[c]
           /\ Mute(c, channel[r], r) => Mute(c, p, r),
         \A c \in Columns : Judged(c, verdict'[c], col'[c], held'[c]),
         seen' = [c \in Columns |-> seen'[c]]
  PROVE  AllSpeak'
<1>1. channel'[r] = p /\ \A q \in Runs : q # r => channel'[q] = channel[q]
  BY DEF Inv, AllTold
<1>2. ASSUME NEW c \in Columns PROVE Speaks(c)'
  <2>1. RunOf(c) \in Runs /\ c \in ColumnsOf(RunOf(c)) /\ (c \in ColumnsOf(r) => r = RunOf(c))
    BY RunOfIs DEF Inv, Basic
  <2>2. RunOf(c)' = RunOf(c)
    BY DEF RunOf, ColumnsOf
  <2>3. Voice(c, channel[RunOf(c)], RunOf(c), seen[c], verdict[c])
    BY DEF AllSpeak, Speaks
  <2>4. PICK d, said, v : d = channel'[RunOf(c)] /\ said = seen'[c] /\ v = verdict'[c]
    OBVIOUS
  <2>5. Voice(c, d, RunOf(c), said, v)
    <3>1. CASE r = RunOf(c)
      BY <1>1, <2>1, <2>3, <2>4, <3>1
    <3>2. CASE r # RunOf(c)
      BY <1>1, <2>1, <2>3, <2>4, <3>2
    <3> QED
      BY <3>1, <3>2
  <2> QED
    BY <2>2, <2>4, <2>5 DEF Speaks
<1>3. ASSUME NEW q \in Runs, NEW c \in Columns \ ColumnsOf(q) PROVE Mute(c, channel'[q], q)
  <2>1. Mute(c, channel[q], q)
    BY DEF AllSpeak
  <2>2. CASE q # r
    BY <1>1, <2>1, <2>2
  <2>3. CASE q = r
    BY <1>1, <2>1, <2>3
  <2> QED
    BY <2>2, <2>3
<1>4. \A q \in Runs : ColumnsOf(q)' = ColumnsOf(q)
  BY DEF ColumnsOf
<1> QED
  BY <1>2, <1>3, <1>4 DEF AllSpeak

\* The channels, what was received and the verdicts stay.
LEMMA SpeaksRests ==
  ASSUME Inv, AllSpeak, lineup' = lineup, channel' = channel, seen' = seen, verdict' = verdict,
         \A c \in Columns : \/ col'[c] = col[c] /\ held'[c] = held[c]
                            \/ col[c] \notin {"done", "recording"} /\ col'[c] # "recording"
  PROVE  AllSpeak'
<1>1. ASSUME NEW c \in Columns PROVE Speaks(c)'
  <2>1. RunOf(c)' = RunOf(c)
    BY DEF RunOf, ColumnsOf
  <2>2. Voice(c, channel[RunOf(c)], RunOf(c), seen[c], verdict[c]) /\ Judged(c, verdict[c], col[c], held[c])
    BY DEF AllSpeak, Speaks
  <2>3. Judged(c, verdict[c], col'[c], held'[c])
    BY <2>2 DEF Judged
  <2> QED
    BY <2>1, <2>2, <2>3 DEF Speaks
<1>2. \A q \in Runs : ColumnsOf(q)' = ColumnsOf(q)
  BY DEF ColumnsOf
<1> QED
  BY <1>1, <1>2 DEF AllSpeak

\* A column moves on, and its worker pushes its own events and the terminator.
LEMMA SpeaksPushes ==
  ASSUME Inv, AllSpeak, lineup' = lineup, NEW c \in Columns,
         NEW items \in Seq(Items), \A i \in 1..Len(items) : items[i] \in Of(c) \/ items[i] = End,
         channel' = [channel EXCEPT ![RunOf(c)] = PushAll(@, items, Capacity)],
         verdict[c] # "none" => \A i \in 1..Len(items) : items[i] = End,
         \A i, j \in 1..Len(items) : i < j /\ items[i] = CompleteOf(c) => items[j] = End,
         NEW w, verdict' = [verdict EXCEPT ![c] = w], verdict[c] # "none" => w # "none",
         verdict[c] = "none" => (w # "none" <=> \E i \in 1..Len(items) : items[i] = CompleteOf(c)),
         seen' = seen, Judged(c, w, col'[c], held'[c]),
         \A d \in Columns \ {c} : \/ col'[d] = col[d] /\ held'[d] = held[d]
                                  \/ col[d] = "queued" /\ col'[d] = "granted"
  PROVE  AllSpeak'
<1> DEFINE r == RunOf(c)
           p == PushAll(channel[r], items, Capacity)
<1>1. r \in Runs /\ c \in ColumnsOf(r)
  BY RunOfIs DEF Inv, Basic
<1>2. channel' = [channel EXCEPT ![r] = p]
  OBVIOUS
<1>3. Stream(channel[r], r, Items, Capacity) /\ ~channel[r].closed
  BY <1>1 DEF Inv, AllTold, ToldOf, RunTold
<1>4. verdict'[c] = w /\ \A d \in Columns \ {c} : verdict'[d] = verdict[d]
  BY DEF Inv, Basic
<1>5. ColumnsOf(r) \subseteq Columns
  BY <1>1, LineupParts DEF Inv, Basic
<1>6. PICK q : q = p
  OBVIOUS
<1>7. ASSUME NEW d \in ColumnsOf(r), Voice(d, channel[r], r, seen[d], verdict[d])
      PROVE  Voice(d, q, r, seen'[d], verdict'[d])
  <2>1. CASE d = c
    <3>1. \A i \in 1..Len(items) : items[i] = End => items[i] \notin Of(c)
      BY OwnEvents
    <3>2. /\ verdict[c] # "none" => \A i \in 1..Len(items) : items[i] \notin Of(c)
          /\ \A i, j \in 1..Len(items) : i < j /\ items[i] = CompleteOf(c) => items[j] \notin Of(c)
      BY <3>1
    <3>3. Voice(c, channel[r], r, seen[c], verdict[c])
      BY <1>7, <2>1
    <3>a. PICK ch, said, v : ch = channel[r] /\ said = seen[c] /\ v = verdict[c]
      OBVIOUS
    <3>b. Voice(c, ch, r, said, v) /\ Stream(ch, r, Items, Capacity) /\ ~ch.closed
      BY <1>3, <3>3, <3>a
    <3>c. v # "none" => \A i \in 1..Len(items) : items[i] \notin Of(c)
      BY <3>2, <3>a
    <3>d. v # "none" => w # "none"
      BY <3>a
    <3>e. v = "none" => (w # "none" <=> \E i \in 1..Len(items) : items[i] = CompleteOf(c))
      BY <3>a
    <3>f. q = PushAll(ch, items, Capacity)
      BY <1>6, <3>a
    <3> HIDE DEF r, p
    <3>g. Voice(c, q, r, said, w)
      BY <3>2, <3>b, <3>c, <3>d, <3>e, <3>f, VoicePushes
    <3>4. Voice(c, q, r, seen[c], w)
      BY <3>a, <3>g
    <3> QED
      BY <1>4, <2>1, <3>4
  <2>2. CASE d # c
    <3>1. \A i \in 1..Len(items) : items[i] \notin Of(d)
      BY <2>2, OwnEvents
    <3>2. CompleteOf(d) \in Of(d)
      BY OwnEvents
    <3>3. ~\E i \in 1..Len(items) : items[i] = CompleteOf(d)
      BY <3>1, <3>2
    <3> HIDE DEF r
    <3>4. Voice(d, q, r, seen[d], verdict[d])
      BY <1>3, <1>6, <1>7, <3>1, <3>3, VoicePushes
    <3> QED
      BY <1>4, <1>5, <2>2, <3>4
  <2> QED
    BY <2>1, <2>2
<1>8. ASSUME NEW d \in Columns PROVE Judged(d, verdict'[d], col'[d], held'[d])
  <2>1. CASE d = c
    BY <1>4, <2>1
  <2>2. CASE d # c
    <3>1. Judged(d, verdict[d], col[d], held[d])
      BY DEF AllSpeak, Speaks
    <3> QED
      BY <1>4, <2>2, <3>1 DEF Judged
  <2> QED
    BY <2>1, <2>2
<1>9. ASSUME NEW d \in Columns \ ColumnsOf(r)
      PROVE  /\ seen'[d] = seen[d] /\ verdict'[d] = verdict[d]
             /\ Mute(d, channel[r], r) => Mute(d, q, r)
  <2>1. d # c
    BY <1>1
  <2>2. \A i \in 1..Len(items) : items[i] \notin Of(d)
    BY <2>1, OwnEvents
  <2>3. PICK ch : ch = channel[r]
    OBVIOUS
  <2>4. Stream(ch, r, Items, Capacity) /\ ~ch.closed /\ q = PushAll(ch, items, Capacity)
    BY <1>3, <1>6, <2>3
  <2> HIDE DEF r, p
  <2>5. Mute(d, ch, r) => Mute(d, q, r)
    BY <2>2, <2>4, MutePushes
  <2> QED
    BY <1>4, <2>1, <2>3, <2>5
<1>10. channel' = [channel EXCEPT ![r] = q]
  BY <1>2, <1>6
<1>11. seen' = [d \in Columns |-> seen'[d]]
  BY DEF AllSpeak
<1> HIDE DEF r, p
<1> QED
  BY <1>1, <1>7, <1>8, <1>9, <1>10, <1>11, SpeaksMoves

\* One push is a sequence of one.
LEMMA PushIsPushAll ==
  ASSUME NEW ch, NEW x PROVE PushAll(ch, <<x>>, Capacity) = Push(ch, x, Capacity)
<1>1. <<x>> \in Seq({x}) /\ Len(<<x>>) = 1 /\ <<x>>[1] = x
  OBVIOUS
<1>2. PushAll(ch, <<x>>, Capacity) = Push(ch, <<x>>[1], Capacity)
  BY <1>1, OnePush
<1> QED
  BY <1>1, <1>2

\* The driver yields an event, and the answer goes out.
LEMMA EmitSpeaks ==
  ASSUME Inv, AllSpeak, lineup' = lineup, NEW c \in Columns, Emit(c) PROVE AllSpeak'
<1> DEFINE x == Event(c, "step")
<1>1. x \in Items /\ x \in Of(c) /\ x # CompleteOf(c)
  <2>1. x.kind = "step"
    BY DEF Event
  <2> QED
    BY <2>1, Events, OwnEvents DEF Of, Kinds
<1>2. /\ col[c] = "driving" /\ col' = col /\ held' = held /\ seen' = seen /\ verdict' = verdict
      /\ channel' = [channel EXCEPT ![RunOf(c)] = Push(@, x, Capacity)]
  BY DEF Emit
<1>3. verdict[c] = "none"
  BY <1>2 DEF AllSpeak, Speaks, Judged
<1>4. channel' = [channel EXCEPT ![RunOf(c)] = PushAll(@, <<x>>, Capacity)]
  BY <1>2, PushIsPushAll
<1> HIDE DEF x
<1>5. PICK items : items = <<x>>
  OBVIOUS
<1>6. items \in Seq(Items) /\ Len(items) = 1 /\ \A i \in 1..Len(items) : items[i] = x
  BY <1>1, <1>5
<1>7. \A i, j \in 1..Len(items) : ~(i < j)
  BY <1>6
<1>8. verdict' = [verdict EXCEPT ![c] = verdict[c]]
  BY <1>2 DEF Inv, Basic
<1>9. Judged(c, verdict[c], col'[c], held'[c])
  BY <1>2 DEF AllSpeak, Speaks
<1>10. PICK w : w = verdict[c]
  OBVIOUS
<1>11. verdict' = [verdict EXCEPT ![c] = w] /\ Judged(c, w, col'[c], held'[c]) /\ w = "none"
  BY <1>3, <1>8, <1>9, <1>10
<1>12. channel' = [channel EXCEPT ![RunOf(c)] = PushAll(@, items, Capacity)]
  BY <1>4, <1>5
<1>13. ~\E i \in 1..Len(items) : items[i] = CompleteOf(c)
  BY <1>1, <1>6
<1>14. \A i \in 1..Len(items) : items[i] \in Of(c) \/ items[i] = End
  BY <1>1, <1>6
<1>15. \A i, j \in 1..Len(items) : i < j /\ items[i] = CompleteOf(c) => items[j] = End
  BY <1>7
<1>16. \A d \in Columns \ {c} : col'[d] = col[d] /\ held'[d] = held[d]
  BY <1>2
<1>17. verdict[c] = "none" /\ w = "none" /\ seen' = seen
  BY <1>2, <1>3, <1>11
<1> QED
  BY <1>6, <1>11, <1>12, <1>13, <1>14, <1>15, <1>16, <1>17, SpeaksPushes

LEMMA FinalizeSpeaks ==
  ASSUME Inv, AllSpeak, lineup' = lineup, NEW c \in Columns, Finalize(c) PROVE AllSpeak'
<1> DEFINE x == Event(c, "step")
           y == Event(c, "complete")
<1>1. x \in Items /\ x \in Of(c) /\ x # CompleteOf(c) /\ y \in Items /\ y \in Of(c) /\ y = CompleteOf(c)
  <2>1. x.kind = "step"
    BY DEF Event
  <2> QED
    BY <2>1, Events, OwnEvents DEF Of, Kinds, CompleteOf
<1>2. PICK n \in 0..(IF steps[c] > 0 THEN 1 ELSE 0) :
        channel' = [channel EXCEPT ![RunOf(c)] =
            PushAll(@, [i \in 1..n |-> x] \o (IF held[c] THEN <<y>> ELSE <<>>), Capacity)]
  BY DEF Finalize
<1>3. /\ col[c] = "finalizing" /\ col' = [col EXCEPT ![c] = "recording"] /\ held' = held /\ seen' = seen
      /\ verdict' = [verdict EXCEPT ![c] = IF held[c] THEN "finished" ELSE @]
  BY DEF Finalize
<1>4. verdict[c] = "none"
  BY <1>3 DEF AllSpeak, Speaks, Judged
<1> HIDE DEF x, y
<1> DEFINE s == [i \in 1..n |-> x]
           t == IF held[c] THEN <<y>> ELSE <<>>
<1>5. PICK items : items = s \o t
  OBVIOUS
<1>6. n \in Nat /\ s \in Seq(Items) /\ Len(s) = n /\ \A i \in 1..n : s[i] = x
  BY <1>1
<1>7. /\ t \in Seq(Items) /\ \A i \in 1..Len(t) : t[i] = y
      /\ Len(t) = IF held[c] THEN 1 ELSE 0
  BY <1>1
<1> HIDE DEF s, t
<1>8. /\ items \in Seq(Items) /\ Len(items) = n + Len(t)
      /\ \A i \in 1..Len(items) : items[i] = IF i <= n THEN s[i] ELSE t[i - n]
  BY <1>5, <1>6, <1>7
<1>9. \A i \in 1..Len(items) : (i <= n => items[i] = x) /\ (i > n => items[i] = y /\ i = n + 1)
  BY <1>6, <1>7, <1>8
<1>10. \A i \in 1..Len(items) : items[i] \in Of(c)
  BY <1>1, <1>6, <1>9
<1>11. \A i, j \in 1..Len(items) : i < j /\ items[i] = CompleteOf(c) => items[j] = End
  BY <1>1, <1>6, <1>9
<1>12. held[c] <=> \E i \in 1..Len(items) : items[i] = CompleteOf(c)
  <2>1. CASE held[c]
    <3>1. n + 1 \in 1..Len(items) /\ n + 1 > n
      BY <1>6, <1>7, <1>8, <2>1
    <3> QED
      BY <1>1, <1>9, <2>1, <3>1
  <2>2. CASE ~held[c]
    <3>1. \A i \in 1..Len(items) : i <= n
      BY <1>6, <1>7, <1>8, <2>2
    <3> QED
      BY <1>1, <1>9, <2>2, <3>1
  <2> QED
    BY <2>1, <2>2
<1>13. channel' = [channel EXCEPT ![RunOf(c)] = PushAll(@, items, Capacity)]
  BY <1>2, <1>5 DEF s, t
<1>14. PICK w : w = IF held[c] THEN "finished" ELSE "none"
  OBVIOUS
<1>15. verdict' = [verdict EXCEPT ![c] = w] /\ (w # "none" <=> held[c])
  BY <1>3, <1>4, <1>14
<1>16. col'[c] = "recording" /\ held'[c] = held[c] /\ \A d \in Columns \ {c} : col'[d] = col[d]
  BY <1>3 DEF Inv, Basic
<1>17. Judged(c, w, col'[c], held'[c])
  BY <1>15, <1>16 DEF Judged
<1>18. items \in Seq(Items) /\ verdict' = [verdict EXCEPT ![c] = w] /\ seen' = seen /\ verdict[c] = "none"
  BY <1>3, <1>4, <1>8, <1>15
<1>19. w # "none" <=> \E i \in 1..Len(items) : items[i] = CompleteOf(c)
  BY <1>12, <1>15
<1>20. \A d \in Columns \ {c} : col'[d] = col[d] /\ held'[d] = held[d]
  BY <1>3, <1>16
<1>21. \A i \in 1..Len(items) : items[i] \in Of(c) \/ items[i] = End
  BY <1>10
<1> QED
  BY <1>11, <1>13, <1>17, <1>18, <1>19, <1>20, <1>21, SpeaksPushes

\* A worker ends with its items and the terminator.
LEMMA FinishSpeaks ==
  ASSUME Inv, AllSpeak, lineup' = lineup, NEW c \in Columns,
         NEW items \in Seq(Items), \A i \in 1..Len(items) : items[i] \in Of(c),
         FinishColumn(c, items),
         verdict[c] # "none" => Len(items) = 0,
         verdict[c] = "none" => Len(items) > 0 /\ items[Len(items)] = CompleteOf(c),
         \A i \in 1..Len(items) : items[i] = CompleteOf(c) => i = Len(items),
         NEW w, w # "none", verdict' = [verdict EXCEPT ![c] = w], seen' = seen, held' = held
  PROVE  AllSpeak'
<1> DEFINE m == Len(items)
<1>1. PICK s : s = Append(items, End)
  OBVIOUS
<1>2. m \in Nat /\ End \in Items
  BY DEF Items
<1>3. /\ s \in Seq(Items) /\ Len(s) = m + 1 /\ s[m + 1] = End
      /\ \A i \in 1..m : s[i] = items[i]
  BY <1>1, <1>2, AppendProperties
<1> HIDE DEF m
<1>4. \A i \in 1..m + 1 : i \in 1..m \/ i = m + 1
  BY <1>2
<1>5. CompleteOf(c) \in Of(c) /\ End \notin Of(c)
  BY OwnEvents
<1>6. \A i \in 1..Len(s) : s[i] \in Of(c) \/ s[i] = End
  BY <1>3, <1>4 DEF m
<1>7. verdict[c] # "none" => \A i \in 1..Len(s) : s[i] = End
  BY <1>2, <1>3, <1>4 DEF m
<1>8. ASSUME NEW i \in 1..Len(s), NEW j \in 1..Len(s), i < j, s[i] = CompleteOf(c) PROVE s[j] = End
  <2>1. i \in 1..m
    BY <1>3, <1>4, <1>5, <1>8
  <2>2. i = m
    BY <1>3, <1>8, <2>1 DEF m
  <2> QED
    BY <1>2, <1>3, <1>8, <2>2
<1>9. verdict[c] = "none" => (w # "none" <=> \E i \in 1..Len(s) : s[i] = CompleteOf(c))
  <2> SUFFICES ASSUME verdict[c] = "none" PROVE \E i \in 1..Len(s) : s[i] = CompleteOf(c)
    OBVIOUS
  <2>1. m > 0 /\ items[m] = CompleteOf(c)
    BY DEF m
  <2>2. m \in 1..m /\ m \in 1..m + 1
    BY <1>2, <2>1
  <2> QED
    BY <1>3, <2>1, <2>2
<1>10. channel' = [channel EXCEPT ![RunOf(c)] = PushAll(@, s, Capacity)]
  BY <1>1 DEF FinishColumn
<1>11. col'[c] = "done" /\ \A d \in Columns \ {c} : col'[d] = IF d \in Woken(colGate) THEN "granted" ELSE col[d]
  BY DEF FinishColumn
<1>12. \A d \in Woken(colGate) : col[d] = "queued"
  BY WokenWait DEF ColWaiters
<1>13. \A d \in Columns \ {c} : \/ col'[d] = col[d] /\ held'[d] = held[d]
                                \/ col[d] = "queued" /\ col'[d] = "granted"
  BY <1>11, <1>12
<1>14. Judged(c, w, col'[c], held'[c])
  BY <1>11 DEF Judged
<1> QED
  BY <1>3, <1>6, <1>7, <1>8, <1>9, <1>10, <1>13, <1>14, SpeaksPushes

\* The ways a worker ends.
LEMMA FinishesSpeak ==
  ASSUME Inv, AllSpeak, lineup' = lineup, NEW c \in Columns,
         RefuseColumn(c) \/ DriverAborts(c) \/ Record(c) \/ ReportFailure(c)
  PROVE  AllSpeak'
<1>1. seen' = seen /\ held' = held
  BY DEF RefuseColumn, DriverAborts, Rethrow, Record, ReportFailure
<1>2. Judged(c, verdict[c], col[c], held[c])
  BY DEF AllSpeak, Speaks
<1>3. ASSUME NEW k \in {"error", "stopped"}, NEW w, w # "none", FinishColumn(c, Failure(c, k)),
             verdict' = [verdict EXCEPT ![c] = w], verdict[c] = "none"
      PROVE  AllSpeak'
  <2> DEFINE x == Event(c, k)
             y == CompleteOf(c)
  <2>1. x \in Items /\ x \in Of(c) /\ x # y /\ y \in Items /\ y \in Of(c)
    <3>1. x.kind = k /\ k # "complete" /\ k \in Kinds
      BY DEF Event, Kinds
    <3>2. x \in Of(c)
      BY <3>1 DEF Of
    <3> QED
      BY <3>1, <3>2, Events, OwnEvents DEF CompleteOf
  <2>2. Failure(c, k) = <<x, y>>
    BY DEF Failure, CompleteOf
  <2> HIDE DEF x, y
  <2>3. PICK items : items = <<x, y>>
    OBVIOUS
  <2>4. items \in Seq(Items) /\ Len(items) = 2 /\ items[1] = x /\ items[2] = y
    BY <2>1, <2>3
  <2>5. \A i \in 1..2 : i = 1 \/ i = 2
    OBVIOUS
  <2>6. \A i \in 1..Len(items) : items[i] \in Of(c) /\ (items[i] = CompleteOf(c) => i = Len(items))
    BY <2>1, <2>4, <2>5 DEF y
  <2>7. FinishColumn(c, items)
    BY <1>3, <2>2, <2>3
  <2>8. Len(items) > 0 /\ items[Len(items)] = CompleteOf(c)
    BY <2>4 DEF y
  <2> QED
    BY <1>1, <1>3, <2>4, <2>6, <2>7, <2>8, FinishSpeaks
<1>4. CASE RefuseColumn(c) \/ ReportFailure(c)
  <2>1. /\ FinishColumn(c, Failure(c, "error")) /\ verdict' = [verdict EXCEPT ![c] = "failed"]
        /\ col[c] \notin {"done", "recording"}
    BY <1>4 DEF RefuseColumn, ReportFailure
  <2>2. verdict[c] = "none"
    BY <1>2, <2>1 DEF Judged
  <2> QED
    BY <1>3, <2>1, <2>2
<1>5. CASE DriverAborts(c)
  <2>1. PICK k : k = IF stopped[c] /\ ~internal[RunOf(c)] THEN "stopped" ELSE "error"
    OBVIOUS
  <2>2. PICK w : w = IF k = "stopped" THEN k ELSE "failed"
    OBVIOUS
  <2>3. /\ FinishColumn(c, Failure(c, k)) /\ verdict' = [verdict EXCEPT ![c] = w]
        /\ col[c] = "driving"
    BY <1>5, <2>1, <2>2 DEF DriverAborts, Rethrow
  <2>4. k \in {"error", "stopped"} /\ w # "none"
    BY <2>1, <2>2
  <2>5. verdict[c] = "none"
    BY <1>2, <2>3 DEF Judged
  <2> QED
    BY <1>3, <2>3, <2>4, <2>5
<1>6. CASE Record(c)
  <2> DEFINE y == CompleteOf(c)
  <2>1. PICK items : items = IF held[c] THEN <<>> ELSE <<y>>
    OBVIOUS
  <2>2. /\ FinishColumn(c, items) /\ verdict' = [verdict EXCEPT ![c] = "finished"]
        /\ col[c] = "recording"
    BY <1>6, <2>1 DEF Record, CompleteOf
  <2>3. y \in Items /\ y \in Of(c)
    BY Events, OwnEvents DEF CompleteOf
  <2> HIDE DEF y
  <2>4. /\ items \in Seq(Items) /\ Len(items) = (IF held[c] THEN 0 ELSE 1)
        /\ \A i \in 1..Len(items) : items[i] = y /\ i = Len(items)
    BY <2>1, <2>3
  <2>5. held[c] <=> verdict[c] # "none"
    BY <1>2, <2>2 DEF Judged
  <2>6. /\ verdict[c] # "none" => Len(items) = 0
        /\ verdict[c] = "none" => Len(items) > 0 /\ items[Len(items)] = CompleteOf(c)
    <3>1. CASE held[c]
      BY <2>4, <2>5, <3>1
    <3>2. CASE ~held[c]
      <4>1. Len(items) = 1
        BY <2>4, <3>2
      <4>a. 1 \in 1..Len(items)
        BY <4>1
      <4>2. items[1] = y
        BY <2>4, <4>1, <4>a
      <4> QED
        BY <2>5, <3>2, <4>1, <4>2 DEF y
    <3> QED
      BY <3>1, <3>2
  <2>7. \A i \in 1..Len(items) : items[i] \in Of(c) /\ (items[i] = CompleteOf(c) => i = Len(items))
    BY <2>3, <2>4
  <2> QED
    BY <1>1, <2>2, <2>4, <2>6, <2>7, FinishSpeaks
<1> QED
  BY <1>4, <1>5, <1>6

\* Whatever a column has said and whichever verdict it has, it says the same after the
\* channel of run r became p.
Keeps(ch, p, r) ==
  \A c \in Columns : /\ \A said, v : Voice(c, ch, r, said, v) => Voice(c, p, r, said, v)
                     /\ Mute(c, ch, r) => Mute(c, p, r)

\* The worker stays where it is, or it has no verdict and gets nowhere near one.
Stays(c, at, own, now, ownNow) ==
  (now = at /\ ownNow = own) \/ (at \notin {"done", "recording"} /\ now # "recording")

LEMMA KeepsReceive ==
  ASSUME NEW ch, NEW r, Stream(ch, r, Items, Capacity), ~Awaited(ch), ~ch.closed,
         NEW p, p = Receive(ch, r)
  PROVE  Keeps(ch, p, r)
<1>1. ASSUME NEW c \in Columns, NEW said, NEW v, Voice(c, ch, r, said, v) PROVE Voice(c, p, r, said, v)
  BY <1>1, VoiceReceive
<1>2. ASSUME NEW c \in Columns, Mute(c, ch, r) PROVE Mute(c, p, r)
  BY <1>2, MuteReceive
<1> QED
  BY <1>1, <1>2 DEF Keeps

LEMMA KeepsEnds ==
  ASSUME NEW ch, NEW r, Stream(ch, r, Items, Capacity), ~ch.closed, NEW n \in Nat,
         NEW p, p = PushAll(ch, [i \in 1..n |-> End], Capacity)
  PROVE  Keeps(ch, p, r)
<1>1. PICK items : items = [i \in 1..n |-> End]
  OBVIOUS
<1>2. items \in Seq(Items) /\ Len(items) = n /\ \A i \in 1..n : items[i] = End
  BY <1>1 DEF Items
<1>3. p = PushAll(ch, items, Capacity)
  BY <1>1
<1>4. ASSUME NEW c \in Columns
      PROVE  /\ \A i \in 1..Len(items) : items[i] \notin Of(c) /\ items[i] # CompleteOf(c)
             /\ \A i, j \in 1..Len(items) : i < j /\ items[i] = CompleteOf(c) => items[j] \notin Of(c)
  BY <1>2, OwnEvents
<1>5. ASSUME NEW c \in Columns, NEW said, NEW v, Voice(c, ch, r, said, v) PROVE Voice(c, p, r, said, v)
  <2>1. v = "none" => (v # "none" <=> \E i \in 1..Len(items) : items[i] = CompleteOf(c))
    BY <1>4
  <2>2. PICK w : w = v
    OBVIOUS
  <2>3. v # "none" => w # "none"
    BY <2>2
  <2>4. v = "none" => (w # "none" <=> \E i \in 1..Len(items) : items[i] = CompleteOf(c))
    BY <2>1, <2>2
  <2>5. Voice(c, p, r, said, w)
    BY <1>2, <1>3, <1>4, <1>5, <2>3, <2>4, VoicePushes
  <2> QED
    BY <2>2, <2>5
<1>6. ASSUME NEW c \in Columns, Mute(c, ch, r) PROVE Mute(c, p, r)
  BY <1>2, <1>3, <1>4, <1>6, MutePushes
<1> QED
  BY <1>5, <1>6 DEF Keeps

LEMMA KeepsPickedEnd ==
  ASSUME NEW ch, NEW r, Stream(ch, r, Items, Capacity), r \in DOMAIN ch.resolved,
         ch.resolved[r] = Item(End), NEW p, p = PickUp(ch, r)
  PROVE  Keeps(ch, p, r)
<1>1. ASSUME NEW c \in Columns, NEW said, NEW v, Voice(c, ch, r, said, v) PROVE Voice(c, p, r, said, v)
  BY <1>1, OwnEvents, VoicePicksOther
<1>2. ASSUME NEW c \in Columns, Mute(c, ch, r) PROVE Mute(c, p, r)
  BY <1>2, MutePicks
<1> QED
  BY <1>1, <1>2 DEF Keeps

LEMMA KeepsRest ==
  ASSUME NEW ch, NEW r, NEW p,
         p.buffer = ch.buffer, p.resolved = ch.resolved, p.dropped = ch.dropped
  PROVE  Keeps(ch, p, r)
<1>1. ASSUME NEW c \in Columns, NEW said, NEW v, Voice(c, ch, r, said, v) PROVE Voice(c, p, r, said, v)
  BY <1>1, VoiceRests
<1>2. ASSUME NEW c \in Columns, Mute(c, ch, r) PROVE Mute(c, p, r)
  BY <1>2, MuteRests
<1> QED
  BY <1>1, <1>2 DEF Keeps

LEMMA KeepsTwice ==
  ASSUME NEW ch, NEW r, NEW p, NEW q, Keeps(ch, p, r), Keeps(p, q, r) PROVE Keeps(ch, q, r)
<1>1. ASSUME NEW c \in Columns, NEW said, NEW v, Voice(c, ch, r, said, v) PROVE Voice(c, q, r, said, v)
  BY <1>1 DEF Keeps
<1>2. ASSUME NEW c \in Columns, Mute(c, ch, r) PROVE Mute(c, q, r)
  BY <1>2 DEF Keeps
<1> QED
  BY <1>1, <1>2 DEF Keeps

\* The channel of a run moves and keeps what it says; no verdict falls.
LEMMA SpeaksOver ==
  ASSUME Inv, AllSpeak, lineup' = lineup, NEW r \in Runs,
         NEW p, channel' = [channel EXCEPT ![r] = p], Keeps(channel[r], p, r),
         seen' = seen, verdict' = verdict,
         \A c \in Columns : Stays(c, col[c], held[c], col'[c], held'[c])
  PROVE  AllSpeak'
<1>1. ColumnsOf(r) \subseteq Columns
  BY LineupParts DEF Inv, Basic
<1>2. \A c \in ColumnsOf(r) :
        Voice(c, channel[r], r, seen[c], verdict[c]) => Voice(c, p, r, seen'[c], verdict'[c])
  BY <1>1 DEF Keeps
<1>3. \A c \in Columns \ ColumnsOf(r) :
        /\ seen'[c] = seen[c] /\ verdict'[c] = verdict[c]
        /\ Mute(c, channel[r], r) => Mute(c, p, r)
  BY DEF Keeps
<1>4. ASSUME NEW c \in Columns PROVE Judged(c, verdict'[c], col'[c], held'[c])
  <2>1. Judged(c, verdict[c], col[c], held[c])
    BY DEF AllSpeak, Speaks
  <2> QED
    BY <2>1 DEF Judged, Stays
<1>5. seen' = [c \in Columns |-> seen'[c]]
  BY DEF AllSpeak
<1> QED
  BY <1>2, <1>3, <1>4, <1>5, SpeaksMoves

\* What the invariant says of the channel of a run.
LEMMA StreamOf ==
  ASSUME Inv, NEW r \in Runs
  PROVE  /\ Stream(channel[r], r, Items, Capacity) /\ ~channel[r].closed
         /\ Awaited(channel[r]) <=> gen[r] = "receiving"
  BY ToldFacts DEF RunTold

\* The steps that leave channels and verdicts alone.
LEMMA QuietSpeaks ==
  ASSUME Inv, AllSpeak, lineup' = lineup, NEW r \in Runs,
         \/ Request(r) \/ Open(r) \/ OpenWithoutRunner(r) \/ Throw(r) \/ StartRejected(r)
         \/ RejectionWritten(r) \/ LeaveTeardown(r) \/ Settle(r)
  PROVE  AllSpeak'
<1>1. channel' = channel /\ seen' = seen /\ verdict' = verdict /\ col' = col /\ held' = held
  BY DEF Request, Open, OpenWithoutRunner, Throw, StartRejected, RejectionWritten, LeaveTeardown,
         Settle, columnVars
<1> QED
  BY <1>1, SpeaksRests

LEMMA QuietColumnSpeaks ==
  ASSUME Inv, AllSpeak, lineup' = lineup, NEW c \in Columns,
         StartDriver(c) \/ DriverFinishes(c) \/ DriverThrows(c) \/ StopColumn(c)
  PROVE  AllSpeak'
<1>1. channel' = channel /\ seen' = seen /\ verdict' = verdict
  BY DEF StartDriver, DriverFinishes, DriverThrows, StopColumn, columnVars
<1>2. ASSUME NEW d \in Columns
      PROVE  \/ col'[d] = col[d] /\ held'[d] = held[d]
             \/ col[d] \notin {"done", "recording"} /\ col'[d] # "recording"
  <2>1. CASE StopColumn(c)
    BY <2>1 DEF StopColumn
  <2>2. CASE StartDriver(c) \/ DriverFinishes(c) \/ DriverThrows(c)
    <3>1. /\ col[c] \in {"granted", "driving"} /\ \E at \in {"driving", "finalizing", "failing"} : col' = [col EXCEPT ![c] = at]
          /\ held' = held \/ \E own \in BOOLEAN : held' = [held EXCEPT ![c] = own]
      BY <2>2 DEF StartDriver, DriverFinishes, DriverThrows, columnVars
    <3> QED
      BY <3>1 DEF Inv, Basic
  <2> QED
    BY <2>1, <2>2
<1> QED
  BY <1>1, <1>2, SpeaksRests

\* The drain loop asks, polls and counts.
LEMMA LoopSpeaks ==
  ASSUME Inv, AllSpeak, lineup' = lineup, NEW r \in Runs,
         EventWritten(r) \/ HandleTimeout(r) \/ HandleEnd(r)
  PROVE  AllSpeak'
<1> DEFINE ch == channel[r]
<1>1. Stream(ch, r, Items, Capacity) /\ ~ch.closed /\ (Awaited(ch) <=> gen[r] = "receiving")
  BY StreamOf
<1>2. col' = col /\ held' = held /\ seen' = seen /\ verdict' = verdict
  BY DEF EventWritten, HandleTimeout, HandleEnd, columnVars
<1>3. \A c \in Columns : Stays(c, col[c], held[c], col'[c], held'[c])
  BY <1>2 DEF Stays
<1>4. CASE EventWritten(r)
  <2>1. PICK p : p = Receive(ch, r)
    OBVIOUS
  <2>2. channel' = [channel EXCEPT ![r] = p] /\ ~Awaited(ch)
    BY <1>1, <1>4, <2>1 DEF EventWritten, Ask
  <2>3. Keeps(ch, p, r)
    BY <1>1, <2>1, <2>2, KeepsReceive
  <2> QED
    BY <1>2, <1>3, <2>2, <2>3, SpeaksOver
<1>5. CASE HandleTimeout(r)
  <2>1. PICK p : p = [ch EXCEPT !.waiters = <<>>]
    OBVIOUS
  <2>2. channel' = [channel EXCEPT ![r] = p]
    BY <1>5, <2>1 DEF HandleTimeout, Inv, AllTold
  <2>3. Channel(ch)
    BY <1>1 DEF Stream
  <2>4. p.buffer = ch.buffer /\ p.resolved = ch.resolved /\ p.dropped = ch.dropped
    BY <2>1, <2>3 DEF Channel
  <2>5. Keeps(ch, p, r)
    BY <2>4, KeepsRest
  <2> QED
    BY <1>2, <1>3, <2>2, <2>5, SpeaksOver
<1>6. CASE HandleEnd(r)
  <2>1. r \in DOMAIN ch.resolved /\ ch.resolved[r].value = End
    BY <1>6 DEF HandleEnd, Got
  <2>2. ch.resolved[r] = Item(End)
    <3>1. PICK x \in Items : ch.resolved[r] = Item(x)
      BY <1>1, <2>1 DEF Stream
    <3>2. Item(x).value = x
      BY DEF Item
    <3> QED
      BY <2>1, <3>1, <3>2
  <2>3. PICK q : q = PickUp(ch, r)
    OBVIOUS
  <2>4. Keeps(ch, q, r)
    BY <1>1, <2>1, <2>2, <2>3, KeepsPickedEnd
  <2>5. Stream(q, r, Items, Capacity) /\ ~q.closed /\ ~Awaited(q)
    <3>1. Stream(q, r, Items, Capacity)
      BY <1>1, <2>3, <2>1, CapacityOK, PickUpStream
    <3>2. q.closed = ch.closed
      BY <1>1, <2>3, <2>1, CapacityOK, PickUpRest
    <3>3. ~Awaited(q)
      BY <1>1, <2>3, <2>1, CapacityOK, PickUpUnawaited
    <3> QED
      BY <1>1, <3>1, <3>2, <3>3
  <2>6. CASE channel' = [channel EXCEPT ![r] = q]
    BY <1>2, <1>3, <2>4, <2>6, SpeaksOver
  <2>7. CASE channel' = [channel EXCEPT ![r] = Receive(q, r)]
    <3>1. PICK p : p = Receive(q, r)
      OBVIOUS
    <3>2. Keeps(q, p, r)
      BY <2>5, <3>1, KeepsReceive
    <3>3. Keeps(ch, p, r)
      BY <2>4, <3>2, KeepsTwice
    <3>4. channel' = [channel EXCEPT ![r] = p]
      BY <2>7, <3>1
    <3> QED
      BY <1>2, <1>3, <3>3, <3>4, SpeaksOver
  <2> QED
    BY <1>6, <2>3, <2>6, <2>7 DEF HandleEnd, AskAgain
<1> QED
  BY <1>4, <1>5, <1>6

\* The workers are spawned.
LEMMA StartSpeaks ==
  ASSUME Inv, AllSpeak, lineup' = lineup, NEW r \in Runs, Start(r) PROVE AllSpeak'
<1> DEFINE ch == channel[r]
<1>1. Stream(ch, r, Items, Capacity) /\ ~ch.closed /\ ~Awaited(ch) /\ gen[r] = "admitted"
  BY StreamOf DEF Start
<1>2. seen' = seen /\ verdict' = verdict /\ held' = held
  BY DEF Start, columnVars
<1>3. PICK p : p = Receive(ch, r)
  OBVIOUS
<1>4. channel' = [channel EXCEPT ![r] = p]
  BY <1>3 DEF Start, Ask
<1>5. Keeps(ch, p, r)
  BY <1>1, <1>3, KeepsReceive
<1>6. \A c \in ColumnsOf(r) : col[c] = "unborn"
  BY <1>1, ToldFacts DEF RunTold, Early, BornOf
<1>7. ASSUME NEW c \in Columns PROVE Stays(c, col[c], held[c], col'[c], held'[c])
  <2>1. PICK granted : /\ granted \subseteq ColumnsOf(r)
                       /\ col' = [d \in Columns |-> IF d \in granted THEN "granted"
                                                    ELSE IF d \in ColumnsOf(r) THEN "queued" ELSE col[d]]
    <3> DEFINE n == Len(lineup[r])
               take == IF colGate.available < n THEN colGate.available ELSE n
               granted == {lineup[r][i] : i \in 1..take}
    <3>1. col' = [d \in Columns |-> IF d \in granted THEN "granted"
                                    ELSE IF d \in ColumnsOf(r) THEN "queued" ELSE col[d]]
      BY DEF Start
    <3>2. take \in 0..n /\ n \in Nat
      <4>1. colGate.available \in Nat /\ lineup[r] \in Seq(Columns)
        BY SlotsOK, LineupParts DEF Inv, Basic, ColFits, Fits, Gate
      <4> QED
        BY <4>1
    <3>3. granted \subseteq ColumnsOf(r)
      <4>1. \A i \in 1..take : i \in 1..n
        BY <3>2
      <4>2. lineup[r] \in Seq(Columns)
        BY LineupParts DEF Inv, Basic
      <4> QED
        BY <4>1, <4>2 DEF ColumnsOf, ToSet
    <3> QED
      BY <3>1, <3>3
  <2>2. CASE c \in ColumnsOf(r)
    BY <1>6, <2>1, <2>2 DEF Stays
  <2>3. CASE c \notin ColumnsOf(r)
    BY <1>2, <2>1, <2>3 DEF Stays
  <2> QED
    BY <2>2, <2>3
<1> QED
  BY <1>2, <1>4, <1>5, <1>7, SpeaksOver

\* The columns of a run are aborted.
LEMMA AbortParts ==
  ASSUME Inv, NEW r \in Runs, NEW ch, AbortColumns(r, ch), held' = held,
         Stream(ch, r, Items, Capacity), ~ch.closed
  PROVE  /\ \A c \in Columns : Stays(c, col[c], held[c], col'[c], held'[c])
         /\ \E p : channel' = [channel EXCEPT ![r] = p] /\ Keeps(ch, p, r)
<1> DEFINE queued == {c \in ColumnsOf(r) : col[c] = "queued"}
           n == Cardinality(queued)
<1>1. PICK p : p = PushAll(ch, [i \in 1..n |-> End], Capacity)
  OBVIOUS
<1>2. /\ col' = [c \in Columns |-> IF c \in queued THEN "done" ELSE col[c]]
      /\ channel' = [channel EXCEPT ![r] = p]
  BY <1>1 DEF AbortColumns
<1>3. IsFiniteSet(ColumnsOf(r)) /\ queued \subseteq ColumnsOf(r)
  BY LineupParts DEF Inv, Basic
<1>4. n \in Nat
  BY <1>3, FS_Subset, FS_CardinalityType
<1>5. Keeps(ch, p, r)
  <2> HIDE DEF n
  <2> QED
    BY <1>1, <1>4, KeepsEnds
<1>6. \A c \in queued : col[c] = "queued"
  OBVIOUS
<1> HIDE DEF queued
<1>7. \A c \in Columns : Stays(c, col[c], held[c], col'[c], held'[c])
  BY <1>2, <1>6 DEF Stays
<1> QED
  BY <1>2, <1>5, <1>7

LEMMA EndingSpeaks ==
  ASSUME Inv, AllSpeak, lineup' = lineup, NEW r \in Runs, Publish(r) \/ ReportWritten(r) \/ Disconnect(r)
  PROVE  AllSpeak'
<1>1. seen' = seen /\ verdict' = verdict /\ held' = held
  BY DEF Publish, ReportWritten, Disconnect, columnVars
<1>2. CASE AbortColumns(r, channel[r])
  <2>1. Stream(channel[r], r, Items, Capacity) /\ ~channel[r].closed
    BY StreamOf
  <2>2. \A c \in Columns : Stays(c, col[c], held[c], col'[c], held'[c])
    BY <1>1, <1>2, <2>1, AbortParts
  <2>3. PICK p : channel' = [channel EXCEPT ![r] = p] /\ Keeps(channel[r], p, r)
    BY <1>1, <1>2, <2>1, AbortParts
  <2> QED
    BY <1>1, <2>2, <2>3, SpeaksOver
<1>3. CASE UNCHANGED <<col, channel>>
  BY <1>1, <1>3, SpeaksRests
<1> QED
  BY <1>2, <1>3 DEF Publish, ReportWritten, Disconnect, Teardown

\* An event is received.
LEMMA EventSpeaks ==
  ASSUME Inv, AllSpeak, lineup' = lineup, NEW r \in Runs, HandleEvent(r) PROVE AllSpeak'
<1> DEFINE ch == channel[r]
<1>1. Stream(ch, r, Items, Capacity) /\ ~ch.closed
  BY StreamOf
<1>2. r \in DOMAIN ch.resolved /\ ch.resolved[r].value # End /\ verdict' = verdict /\ held' = held
  BY DEF HandleEvent, Got
<1>3. PICK x \in Items : ch.resolved[r] = Item(x)
  BY <1>1, <1>2 DEF Stream
<1>4. ch.resolved[r].value = x
  BY <1>3 DEF Item
<1>5. x # End /\ seen' = [seen EXCEPT ![x.col] = Append(@, x.kind)]
  BY <1>2, <1>4 DEF HandleEvent
<1>6. x \in Of(x.col) /\ x.col \in Columns
  BY <1>5, OwnEvents
<1>7. PICK q : q = PickUp(ch, r)
  OBVIOUS
<1>8. ASSUME NEW c \in Columns \ ColumnsOf(r) PROVE Mute(c, q, r) /\ x \notin Of(c)
  <2>1. Mute(c, ch, r)
    BY DEF AllSpeak
  <2> QED
    BY <1>1, <1>2, <1>3, <1>7, <2>1, MutePicks
<1>9. ColumnsOf(r) \subseteq Columns
  BY LineupParts DEF Inv, Basic
<1>10. /\ seen'[x.col] = Append(seen[x.col], x.kind)
       /\ \A c \in Columns : c # x.col => seen'[c] = seen[c]
       /\ seen' = [c \in Columns |-> seen'[c]]
  <2>1. PICK d, k : d = x.col /\ k = x.kind
    OBVIOUS
  <2>2. seen' = [seen EXCEPT ![d] = Append(@, k)] /\ d \in Columns
    BY <1>5, <1>6, <2>1
  <2>3. seen = [c \in Columns |-> seen[c]]
    BY DEF AllSpeak
  <2> QED
    BY <2>1, <2>2, <2>3
<1>11. ASSUME NEW c \in ColumnsOf(r), Voice(c, ch, r, seen[c], verdict[c])
       PROVE  Voice(c, q, r, seen'[c], verdict'[c])
  <2>1. PICK said, v : said = seen[c] /\ v = verdict[c]
    OBVIOUS
  <2>2. Voice(c, ch, r, said, v)
    BY <1>11, <2>1
  <2>3. CASE c = x.col
    <3>1. Voice(c, q, r, Append(said, x.kind), v)
      BY <1>1, <1>2, <1>3, <1>6, <1>7, <2>2, <2>3, VoicePicksOwn
    <3> QED
      BY <1>2, <1>10, <2>1, <2>3, <3>1
  <2>4. CASE c # x.col
    <3>1. x \notin Of(c)
      BY <1>6, <2>4, OwnEvents
    <3>2. Voice(c, q, r, said, v)
      BY <1>1, <1>2, <1>3, <1>7, <2>2, <3>1, VoicePicksOther
    <3> QED
      BY <1>2, <1>9, <1>10, <2>1, <2>4, <3>2
  <2> QED
    BY <2>3, <2>4
<1>12. Stream(q, r, Items, Capacity) /\ ~q.closed
  <2>1. Stream(q, r, Items, Capacity)
    BY <1>1, <1>2, <1>7, CapacityOK, PickUpStream
  <2>2. q.closed = ch.closed
    BY <1>1, <1>2, <1>7, CapacityOK, PickUpRest
  <2> QED
    BY <1>1, <2>1, <2>2
<1>13. /\ \A c \in Columns : Stays(c, col[c], held[c], col'[c], held'[c])
       /\ \E p : channel' = [channel EXCEPT ![r] = p] /\ Keeps(q, p, r)
  <2>1. CASE AbortColumns(r, q)
    BY <1>2, <1>12, <2>1, AbortParts
  <2>2. CASE channel' = [channel EXCEPT ![r] = q] /\ col' = col
    <3>1. Keeps(q, q, r)
      BY DEF Keeps
    <3>2. \A c \in Columns : Stays(c, col[c], held[c], col'[c], held'[c])
      BY <1>2, <2>2 DEF Stays
    <3> QED
      BY <2>2, <3>1, <3>2
  <2> QED
    BY <1>7, <2>1, <2>2 DEF HandleEvent, Teardown
<1>14. PICK p : channel' = [channel EXCEPT ![r] = p] /\ Keeps(q, p, r)
  BY <1>13
<1>15. \A c \in ColumnsOf(r) : Voice(c, ch, r, seen[c], verdict[c]) => Voice(c, p, r, seen'[c], verdict'[c])
  <2> SUFFICES ASSUME NEW c \in ColumnsOf(r), Voice(c, ch, r, seen[c], verdict[c])
               PROVE  Voice(c, p, r, seen'[c], verdict'[c])
    OBVIOUS
  <2>1. PICK said, v : said = seen'[c] /\ v = verdict'[c]
    OBVIOUS
  <2>2. Voice(c, q, r, said, v)
    BY <1>11, <2>1
  <2>3. Voice(c, p, r, said, v)
    BY <1>9, <1>14, <2>2 DEF Keeps
  <2> QED
    BY <2>1, <2>3
<1>16. ASSUME NEW c \in Columns \ ColumnsOf(r)
       PROVE  /\ seen'[c] = seen[c] /\ verdict'[c] = verdict[c]
              /\ Mute(c, ch, r) => Mute(c, p, r)
  BY <1>2, <1>6, <1>8, <1>10, <1>14 DEF Keeps
<1>17. ASSUME NEW c \in Columns PROVE Judged(c, verdict'[c], col'[c], held'[c])
  <2>1. Judged(c, verdict[c], col[c], held[c])
    BY DEF AllSpeak, Speaks
  <2> QED
    BY <1>2, <1>13, <2>1 DEF Judged, Stays
<1> QED
  BY <1>10, <1>14, <1>15, <1>16, <1>17, SpeaksMoves

\* Every step, the first state and a stutter.
LEMMA NextSpeaks == ASSUME Inv, AllSpeak, Next PROVE AllSpeak'
<1>1. lineup' = lineup
  BY DEF Next
<1>2. ASSUME NEW r \in Runs, Request(r) \/ Generator(r) \/ Disconnect(r) PROVE AllSpeak'
  BY <1>1, <1>2, QuietSpeaks, LoopSpeaks, StartSpeaks, EndingSpeaks, EventSpeaks DEF Generator
<1>3. ASSUME NEW c \in Columns, Driver(c) \/ Worker(c) \/ StopColumn(c) PROVE AllSpeak'
  BY <1>1, <1>3, QuietColumnSpeaks, EmitSpeaks, FinalizeSpeaks, FinishesSpeak DEF Driver, Worker
<1> QED
  BY <1>2, <1>3 DEF Next

LEMMA StutterSpeaks == ASSUME Inv, AllSpeak, UNCHANGED vars PROVE AllSpeak'
  BY SpeaksRests DEF vars

LEMMA InitSpeaks == ASSUME Init PROVE AllSpeak
<1>1. \A r \in Runs : channel[r] = NewChannel
  BY DEF Init
<1>2. \A r, e : ~Pends(NewChannel, r, e)
  BY DEF Pends, InHand, NewChannel
<1>3. \A r, a, b : ~Precedes(NewChannel, r, a, b)
  BY DEF Precedes, InHand, NewChannel
<1>4. NewChannel.dropped = 0
  BY DEF NewChannel
<1>5. ASSUME NEW c \in Columns, NEW r PROVE Voice(c, NewChannel, r, <<>>, "none") /\ Mute(c, NewChannel, r)
  <2>1. <<>> \in Seq(Kinds) /\ Len(<<>>) = 0 /\ ~HasEnded(<<>>)
    BY DEF HasEnded
  <2> QED
    BY <1>2, <1>3, <1>4, <2>1 DEF Voice, Mute
<1>6. ASSUME NEW c \in Columns PROVE Speaks(c)
  <2>1. seen[c] = <<>> /\ verdict[c] = "none" /\ col[c] = "unborn"
    BY DEF Init
  <2>2. RunOf(c) \in Runs
    BY RunOfIs DEF Init
  <2>3. channel[RunOf(c)] = NewChannel
    BY <1>1, <2>2
  <2>4. Judged(c, "none", "unborn", held[c])
    BY DEF Judged
  <2>5. Voice(c, NewChannel, RunOf(c), <<>>, "none")
    BY <1>5
  <2> QED
    BY <2>1, <2>3, <2>4, <2>5 DEF Speaks
<1>7. seen = [c \in Columns |-> seen[c]]
  BY DEF Init
<1> QED
  BY <1>1, <1>5, <1>6, <1>7 DEF AllSpeak

-----------------------------------------------------------------------------
(* How a run ends (CompletedMeansReported).                                *)

\* A stream that ended by itself has nothing in its channel and no live worker; what is
\* settled ended by itself or was rejected before a worker was born.
Closes(g, x, led, ch, all, done, born) ==
  /\ x = "normal" => g \in {"teardown", "settling", "closed"} /\ ch.buffer = <<>> /\ all \subseteq done
  /\ g = "teardown" => x # "none"
  /\ g = "rejecting" => born = {}
  /\ g = "settling" \/ led = "completed" => x = "normal" \/ born = {}
  /\ led = "completed" => g = "closed"
ClosesOf(r) == Closes(gen[r], exit[r], ledger[r], channel[r], ColumnsOf(r), DoneOf(r), BornOf(r))
AllClose == \A r \in Runs : ClosesOf(r)

\* The columns of a run from one state to the next: who is done stays done, and nobody
\* is born behind the run's back.
LEMMA ColumnsGoOn ==
  ASSUME Inv, lineup' = lineup, NEW q \in Runs,
         \A d \in ColumnsOf(q) : (col[d] = "done" => col'[d] = "done") /\ (col[d] = "unborn" => col'[d] = "unborn")
  PROVE  ColumnsOf(q)' = ColumnsOf(q) /\ DoneOf(q) \subseteq DoneOf(q)' /\ BornOf(q)' \subseteq BornOf(q)
<1>1. ColumnsOf(q)' = ColumnsOf(q)
  BY DEF ColumnsOf
<1> QED
  BY <1>1 DEF DoneOf, BornOf

\* A run is left alone, or gets its slot.
LEMMA ClosesRests ==
  ASSUME Inv, AllClose, lineup' = lineup, NEW q \in Runs,
         gen'[q] = gen[q] \/ (gen[q] = "slot" /\ gen'[q] = "admitted"),
         exit'[q] = exit[q], ledger'[q] = ledger[q],
         exit[q] = "normal" => channel'[q] = channel[q],
         \A d \in ColumnsOf(q) : (col[d] = "done" => col'[d] = "done") /\ (col[d] = "unborn" => col'[d] = "unborn")
  PROVE  ClosesOf(q)'
<1>1. ColumnsOf(q)' = ColumnsOf(q) /\ DoneOf(q) \subseteq DoneOf(q)' /\ BornOf(q)' \subseteq BornOf(q)
  BY ColumnsGoOn
<1>2. Closes(gen[q], exit[q], ledger[q], channel[q], ColumnsOf(q), DoneOf(q), BornOf(q))
  BY DEF AllClose, ClosesOf
<1>3. PICK all, done, born, ch, p : /\ all = ColumnsOf(q)' /\ done = DoneOf(q)' /\ born = BornOf(q)'
                                    /\ ch = channel[q] /\ p = channel'[q]
  OBVIOUS
<1>4. Closes(gen'[q], exit'[q], ledger'[q], p, all, done, born)
  BY <1>1, <1>2, <1>3 DEF Closes
<1> QED
  BY <1>3, <1>4 DEF ClosesOf

\* A step of a worker.
LEMMA WorkerCloses ==
  ASSUME Inv, AllClose, lineup' = lineup, NEW c \in Columns, Driver(c) \/ Worker(c) \/ StopColumn(c)
  PROVE  AllClose'
<1>1. gen' = gen /\ exit' = exit /\ ledger' = ledger
  BY DEF Driver, Worker, StopColumn, Emit, DriverAborts, Rethrow, DriverFinishes, DriverThrows,
         RefuseColumn, StartDriver, Finalize, Record, ReportFailure, runVars
<1>2. col[c] \notin {"done", "unborn"}
  BY DEF Driver, Worker, StopColumn, Emit, DriverAborts, DriverFinishes, DriverThrows,
         RefuseColumn, StartDriver, Finalize, Record, ReportFailure, Live
<1>3. \A d \in Columns : (col[d] = "done" => col'[d] = "done") /\ (col[d] = "unborn" => col'[d] = "unborn")
  <2>1. CASE \E items : FinishColumn(c, items)
    <3>1. \A d \in Woken(colGate) : col[d] = "queued"
      BY WokenWait DEF ColWaiters
    <3>2. col' = [d \in Columns |-> IF d = c THEN "done"
                                    ELSE IF d \in Woken(colGate) THEN "granted" ELSE col[d]]
      BY <2>1 DEF FinishColumn
    <3> QED
      BY <1>2, <3>1, <3>2
  <2>2. CASE \E at : col' = [col EXCEPT ![c] = at]
    BY <1>2, <2>2 DEF Inv, Basic
  <2>3. CASE col' = col
    BY <2>3
  <2> QED
    BY <2>1, <2>2, <2>3 DEF Driver, Worker, StopColumn, Emit, DriverAborts, Rethrow, DriverFinishes,
       DriverThrows, RefuseColumn, StartDriver, Finalize, Record, ReportFailure
<1>4. channel' = channel \/ \E p : channel' = [channel EXCEPT ![RunOf(c)] = p]
  BY DEF Driver, Worker, StopColumn, Emit, DriverAborts, Rethrow, DriverFinishes, DriverThrows,
         RefuseColumn, StartDriver, Finalize, Record, ReportFailure, FinishColumn
<1>5. RunOf(c) \in Runs /\ c \in ColumnsOf(RunOf(c))
  BY RunOfIs DEF Inv, Basic
<1>6. exit[RunOf(c)] # "normal"
  <2>1. PICK r : r = RunOf(c)
    OBVIOUS
  <2>2. r \in Runs /\ c \in ColumnsOf(r) /\ c \notin DoneOf(r)
    BY <1>2, <1>5, <2>1 DEF DoneOf
  <2>3. Closes(gen[r], exit[r], ledger[r], channel[r], ColumnsOf(r), DoneOf(r), BornOf(r))
    BY <2>2 DEF AllClose, ClosesOf
  <2> QED
    BY <2>1, <2>2, <2>3 DEF Closes
<1>7. ASSUME NEW q \in Runs PROVE ClosesOf(q)'
  <2>1. exit[q] = "normal" => channel'[q] = channel[q]
    BY <1>4, <1>6 DEF Inv, AllTold
  <2>2. ColumnsOf(q) \subseteq Columns
    BY LineupParts DEF Inv, Basic
  <2> QED
    BY <1>1, <1>3, <2>1, <2>2, ClosesRests
<1> QED
  BY <1>7 DEF AllClose

\* A run moves; the others are left alone or get its slot.
LEMMA RunCloses ==
  ASSUME Inv, AllClose, lineup' = lineup, NEW r \in Runs,
         \A q \in Runs \ {r} : /\ gen'[q] = gen[q] \/ (gen[q] = "slot" /\ gen'[q] = "admitted")
                               /\ exit'[q] = exit[q] /\ ledger'[q] = ledger[q] /\ channel'[q] = channel[q],
         \A d \in Columns \ ColumnsOf(r) : col'[d] = col[d],
         NEW g, g = gen'[r], NEW x, x = exit'[r], NEW led, led = ledger'[r], NEW p, p = channel'[r],
         NEW done, done = DoneOf(r)', NEW born, born = BornOf(r)',
         Closes(g, x, led, p, ColumnsOf(r), done, born)
  PROVE  AllClose'
<1>1. ASSUME NEW q \in Runs PROVE ClosesOf(q)'
  <2>1. CASE q = r
    <3>1. ColumnsOf(r)' = ColumnsOf(r)
      BY DEF ColumnsOf
    <3> QED
      BY <2>1, <3>1 DEF ClosesOf
  <2>2. CASE q # r
    <3>1. \A d \in ColumnsOf(q) : d \in Columns \ ColumnsOf(r)
      BY <2>2, RunOfIs, LineupParts DEF Inv, Basic
    <3> QED
      BY <2>2, <3>1, ClosesRests
  <2> QED
    BY <2>1, <2>2
<1> QED
  BY <1>1 DEF AllClose

\* What the invariants say of a run.
LEMMA ClosesFacts ==
  ASSUME Inv, AllClose, NEW r \in Runs
  PROVE  /\ Closes(gen[r], exit[r], ledger[r], channel[r], ColumnsOf(r), DoneOf(r), BornOf(r))
         /\ gen[r] \in Early => BornOf(r) = {}
         /\ gen[r] \in Over => ColumnsOf(r) \subseteq DoneOf(r) /\ channel[r].buffer = <<>>
         /\ gen[r] \notin {"teardown", "settling", "closed"} => exit[r] # "normal" /\ ledger[r] # "completed"
<1>1. Closes(gen[r], exit[r], ledger[r], channel[r], ColumnsOf(r), DoneOf(r), BornOf(r))
  BY DEF AllClose, ClosesOf
<1>2. gen[r] \notin {"teardown", "settling", "closed"} => exit[r] # "normal" /\ ledger[r] # "completed"
  BY <1>1 DEF Closes
<1> QED
  BY <1>1, <1>2, ToldFacts DEF RunTold

\* The steps before, between and behind the stream.
LEMMA QuietCloses ==
  ASSUME Inv, AllClose, lineup' = lineup, NEW r \in Runs,
         \/ Request(r) \/ Open(r) \/ OpenWithoutRunner(r) \/ Throw(r) \/ StartRejected(r)
         \/ RejectionWritten(r) \/ LeaveTeardown(r) \/ Settle(r)
  PROVE  AllClose'
<1>1. channel' = channel /\ col' = col /\ exit' = exit
  BY DEF Request, Open, OpenWithoutRunner, Throw, StartRejected, RejectionWritten, LeaveTeardown,
         Settle, runVars
<1>2. \A q \in Runs \ {r} : /\ gen'[q] = gen[q] \/ (gen[q] = "slot" /\ gen'[q] = "admitted")
                            /\ ledger'[q] = ledger[q]
  <2>1. CASE RejectionWritten(r) \/ LeaveTeardown(r)
    <3>1. \A q \in Woken(runGate) : gen[q] = "slot"
      BY WokenWait DEF RunWaiters
    <3>2. ledger' = ledger /\ \A q \in Runs \ {r} : gen'[q] = IF q \in Woken(runGate) THEN "admitted" ELSE gen[q]
      BY <2>1 DEF RejectionWritten, LeaveTeardown, ReleaseRun
    <3> QED
      BY <3>1, <3>2
  <2>2. CASE (\E h : gen' = [gen EXCEPT ![r] = h]) /\ (ledger' = ledger \/ \E row : ledger' = [ledger EXCEPT ![r] = row])
    BY <2>2 DEF Inv, Basic
  <2> QED
    BY <2>1, <2>2 DEF Request, Open, OpenWithoutRunner, Throw, StartRejected, Settle, runVars
<1>3. DoneOf(r)' = DoneOf(r) /\ BornOf(r)' = BornOf(r)
  BY <1>1 DEF DoneOf, BornOf, ColumnsOf
<1>4. gen \in [Runs -> GenState] /\ ledger \in [Runs -> {"none", "active", "completed", "cancelled", "failed"}]
      /\ exit \in [Runs -> {"none", "normal", "returned"}]
  BY DEF Inv, Basic
<1>5. /\ Closes(gen[r], exit[r], ledger[r], channel[r], ColumnsOf(r), DoneOf(r), BornOf(r))
      /\ gen[r] \in Early => BornOf(r) = {}
      /\ gen[r] \notin {"teardown", "settling", "closed"} => exit[r] # "normal" /\ ledger[r] # "completed"
  BY ClosesFacts
<1>6. Closes(gen'[r], exit[r], ledger'[r], channel[r], ColumnsOf(r), DoneOf(r), BornOf(r))
  <2>1. CASE Request(r)
    <3>1. gen[r] = "idle" /\ gen'[r] = "opening" /\ ledger' = ledger
      BY <1>4, <2>1 DEF Request, runVars
    <3> QED
      BY <1>5, <3>1 DEF Closes
  <2>2. CASE Open(r) \/ OpenWithoutRunner(r)
    <3>1. gen[r] = "opening" /\ gen'[r] \in {"throwing", "admitted", "slot"} /\ ledger'[r] \in {"active", "none"}
      BY <1>4, <2>2 DEF Open, OpenWithoutRunner
    <3> QED
      BY <1>5, <3>1 DEF Closes
  <2>3. CASE Throw(r)
    <3>1. gen[r] = "throwing" /\ gen'[r] = "closed" /\ ledger'[r] \in {"none", "cancelled", "failed"}
      BY <1>4, <2>3 DEF Throw
    <3> QED
      BY <1>5, <3>1 DEF Closes
  <2>4. CASE StartRejected(r)
    <3>1. gen[r] = "admitted" /\ gen'[r] = "rejecting" /\ ledger' = ledger /\ BornOf(r) = {}
      BY <1>4, <1>5, <2>4 DEF StartRejected, runVars, Early
    <3> QED
      BY <1>5, <3>1 DEF Closes
  <2>5. CASE RejectionWritten(r)
    <3>1. gen[r] = "rejecting" /\ gen'[r] = "settling" /\ ledger' = ledger
      BY <2>5 DEF RejectionWritten, ReleaseRun
    <3> QED
      BY <1>5, <3>1 DEF Closes
  <2>6. CASE LeaveTeardown(r)
    <3>1. /\ gen[r] = "teardown" /\ ledger' = ledger
          /\ gen'[r] = IF exit[r] = "returned" THEN "closed" ELSE "settling"
      BY <2>6 DEF LeaveTeardown, ReleaseRun
    <3>2. exit[r] \in {"normal", "returned"} /\ ledger[r] # "completed"
      BY <1>4, <1>5, <3>1 DEF Closes
    <3> QED
      BY <1>5, <3>1, <3>2 DEF Closes
  <2>7. CASE Settle(r)
    <3>1. gen[r] = "settling" /\ gen'[r] = "closed"
      BY <1>4, <2>7 DEF Settle
    <3> QED
      BY <1>5, <3>1 DEF Closes
  <2> QED
    BY <2>1, <2>2, <2>3, <2>4, <2>5, <2>6, <2>7
<1>7. PICK g, led, ch, done, born : /\ g = gen'[r] /\ led = ledger'[r] /\ ch = channel[r]
                                    /\ done = DoneOf(r)' /\ born = BornOf(r)'
  OBVIOUS
<1>8. Closes(g, exit'[r], led, ch, ColumnsOf(r), done, born)
  BY <1>1, <1>3, <1>6, <1>7
<1>9. ch = channel'[r]
  BY <1>1, <1>7
<1>10. \A q \in Runs \ {r} : /\ gen'[q] = gen[q] \/ (gen[q] = "slot" /\ gen'[q] = "admitted")
                             /\ exit'[q] = exit[q] /\ ledger'[q] = ledger[q] /\ channel'[q] = channel[q]
  BY <1>1, <1>2
<1>11. \A d \in Columns \ ColumnsOf(r) : col'[d] = col[d]
  BY <1>1
<1> QED
  BY <1>7, <1>8, <1>9, <1>10, <1>11, RunCloses

\* The stream of a run, before its end.
LEMMA StreamCloses ==
  ASSUME Inv, AllClose, lineup' = lineup, NEW r \in Runs,
         exit' = exit, ledger' = ledger,
         gen[r] \notin {"rejecting", "teardown", "settling", "closed"},
         gen'[r] \notin {"rejecting", "teardown", "settling", "closed"},
         \A q \in Runs \ {r} : gen'[q] = gen[q] /\ channel'[q] = channel[q],
         \A d \in Columns \ ColumnsOf(r) : col'[d] = col[d]
  PROVE  AllClose'
<1>1. exit[r] # "normal" /\ ledger[r] # "completed"
  BY ClosesFacts
<1>2. PICK g, p, done, born : g = gen'[r] /\ p = channel'[r] /\ done = DoneOf(r)' /\ born = BornOf(r)'
  OBVIOUS
<1>3. Closes(g, exit'[r], ledger'[r], p, ColumnsOf(r), done, born)
  BY <1>1, <1>2 DEF Closes
<1>4. \A q \in Runs \ {r} : /\ gen'[q] = gen[q] \/ (gen[q] = "slot" /\ gen'[q] = "admitted")
                            /\ exit'[q] = exit[q] /\ ledger'[q] = ledger[q] /\ channel'[q] = channel[q]
  OBVIOUS
<1> QED
  BY <1>2, <1>3, <1>4, RunCloses

\* The columns of a run are aborted: other columns are left alone.
LEMMA AbortLeaves ==
  ASSUME Inv, NEW r \in Runs, NEW ch, AbortColumns(r, ch)
  PROVE  /\ \A d \in Columns \ ColumnsOf(r) : col'[d] = col[d]
         /\ \A q \in Runs \ {r} : channel'[q] = channel[q]
  BY DEF AbortColumns, Inv, AllTold

LEMMA LoopCloses ==
  ASSUME Inv, AllClose, lineup' = lineup, NEW r \in Runs,
         EventWritten(r) \/ HandleTimeout(r) \/ HandleEnd(r) \/ Start(r)
  PROVE  AllClose'
<1>1. /\ exit' = exit /\ ledger' = ledger /\ gen[r] \in {"writing", "receiving", "admitted"}
      /\ gen' = gen \/ \E h \in {"receiving", "publishing"} : gen' = [gen EXCEPT ![r] = h]
  BY DEF EventWritten, HandleTimeout, Parked, HandleEnd, Got, Start, runVars
<1>2. gen \in [Runs -> GenState] /\ channel = [q \in Runs |-> channel[q]]
  BY DEF Inv, Basic, AllTold
<1>3. \A q \in Runs \ {r} : gen'[q] = gen[q] /\ channel'[q] = channel[q]
  <2>1. \E p : channel' = [channel EXCEPT ![r] = p]
    BY <1>2 DEF EventWritten, HandleTimeout, HandleEnd, Start
  <2> QED
    BY <1>1, <1>2, <2>1
<1>4. gen'[r] \notin {"rejecting", "teardown", "settling", "closed"}
  BY <1>1, <1>2
<1>5. \A d \in Columns \ ColumnsOf(r) : col'[d] = col[d]
  <2>1. CASE Start(r)
    <3> DEFINE n == Len(lineup[r])
               take == IF colGate.available < n THEN colGate.available ELSE n
               granted == {lineup[r][i] : i \in 1..take}
    <3>1. col' = [d \in Columns |-> IF d \in granted THEN "granted"
                                    ELSE IF d \in ColumnsOf(r) THEN "queued" ELSE col[d]]
      BY <2>1 DEF Start
    <3>2. take \in 0..n /\ n \in Nat
      <4>1. colGate.available \in Nat /\ lineup[r] \in Seq(Columns)
        BY SlotsOK, LineupParts DEF Inv, Basic, ColFits, Fits, Gate
      <4> QED
        BY <4>1
    <3>3. granted \subseteq ColumnsOf(r)
      <4>1. \A i \in 1..take : i \in 1..n
        BY <3>2
      <4>2. lineup[r] \in Seq(Columns)
        BY LineupParts DEF Inv, Basic
      <4> QED
        BY <4>1, <4>2 DEF ColumnsOf, ToSet
    <3> HIDE DEF granted
    <3> QED
      BY <3>1, <3>3
  <2>2. CASE col' = col
    BY <2>2
  <2> QED
    BY <2>1, <2>2 DEF EventWritten, HandleTimeout, HandleEnd
<1> QED
  BY <1>1, <1>3, <1>4, <1>5, StreamCloses

\* The stream ends.
LEMMA TeardownCloses ==
  ASSUME Inv, AllClose, lineup' = lineup, NEW r \in Runs, ledger' = ledger, NEW ch,
         Teardown(r, "returned", ch) \/ (Teardown(r, "normal", ch) /\ gen[r] \in Over /\ ch = channel[r]),
         gen[r] \in Streaming
  PROVE  AllClose'
<1>1. PICK x \in {"returned", "normal"} :
        /\ gen' = [gen EXCEPT ![r] = "teardown"] /\ exit' = [exit EXCEPT ![r] = x] /\ AbortColumns(r, ch)
        /\ x = "normal" => gen[r] \in Over /\ ch = channel[r]
  BY DEF Teardown
<1>2. /\ gen'[r] = "teardown" /\ exit'[r] = x
      /\ \A q \in Runs \ {r} : gen'[q] = gen[q] /\ exit'[q] = exit[q]
  BY <1>1 DEF Inv, Basic
<1>3. /\ \A d \in Columns \ ColumnsOf(r) : col'[d] = col[d]
      /\ \A q \in Runs \ {r} : channel'[q] = channel[q]
  BY <1>1, AbortLeaves
<1>4. ledger[r] # "completed"
  BY ClosesFacts DEF Streaming
<1>5. ASSUME x = "normal" PROVE channel'[r].buffer = <<>> /\ ColumnsOf(r) \subseteq DoneOf(r)'
  <2> DEFINE queued == {c \in ColumnsOf(r) : col[c] = "queued"}
             s == [i \in 1..Cardinality(queued) |-> End]
  <2>1. ColumnsOf(r) \subseteq DoneOf(r) /\ channel[r].buffer = <<>>
    BY <1>1, <1>5, ClosesFacts
  <2>2. queued = {}
    BY <2>1 DEF DoneOf
  <2>3. Len(s) = 0
    BY <2>2, FS_EmptySet
  <2>4. /\ channel' = [channel EXCEPT ![r] = PushAll(ch, s, Capacity)]
        /\ col' = [c \in Columns |-> IF c \in queued THEN "done" ELSE col[c]]
    BY <1>1 DEF AbortColumns
  <2> HIDE DEF s
  <2>5. PushAll(ch, s, Capacity) = ch
    BY <2>3, PushNothing
  <2>6. channel'[r] = channel[r]
    BY <1>1, <1>5, <2>4, <2>5 DEF Inv, AllTold
  <2>7. \A c \in ColumnsOf(r) : c \in Columns /\ col'[c] = col[c]
    BY <2>2, <2>4, LineupParts DEF Inv, Basic
  <2>8. ColumnsOf(r)' = ColumnsOf(r)
    BY DEF ColumnsOf
  <2> QED
    BY <2>1, <2>6, <2>7, <2>8 DEF DoneOf
<1>6. PICK p, done, born : p = channel'[r] /\ done = DoneOf(r)' /\ born = BornOf(r)'
  OBVIOUS
<1>7. Closes(gen'[r], exit'[r], ledger'[r], p, ColumnsOf(r), done, born)
  BY <1>1, <1>2, <1>4, <1>5, <1>6 DEF Closes
<1>8. \A q \in Runs \ {r} : /\ gen'[q] = gen[q] \/ (gen[q] = "slot" /\ gen'[q] = "admitted")
                            /\ exit'[q] = exit[q] /\ ledger'[q] = ledger[q] /\ channel'[q] = channel[q]
  BY <1>2, <1>3
<1> QED
  BY <1>3, <1>6, <1>7, <1>8, RunCloses

\* The event that is received, the report, and the disconnect.
LEMMA EndingCloses ==
  ASSUME Inv, AllClose, lineup' = lineup, NEW r \in Runs,
         HandleEvent(r) \/ Publish(r) \/ ReportWritten(r) \/ Disconnect(r)
  PROVE  AllClose'
<1>1. ledger' = ledger /\ gen \in [Runs -> GenState] /\ channel = [q \in Runs |-> channel[q]]
  BY DEF HandleEvent, Publish, ReportWritten, Disconnect, Inv, Basic, AllTold
<1>2. CASE gen[r] \in Streaming /\ \E ch : Teardown(r, "returned", ch)
  BY <1>1, <1>2, TeardownCloses
<1>3. CASE gen[r] \in Over /\ Teardown(r, "normal", channel[r])
  <2>1. gen[r] \in Streaming
    BY <1>3 DEF Over, Streaming
  <2> QED
    BY <1>1, <1>3, <2>1, TeardownCloses
<1>4. CASE /\ exit' = exit /\ col' = col /\ gen[r] \in {"receiving", "publishing", "slot"}
           /\ channel' = channel \/ \E p : channel' = [channel EXCEPT ![r] = p]
           /\ \E h \in {"writing", "reporting", "throwing"} : gen' = [gen EXCEPT ![r] = h]
  <2>1. gen'[r] \in {"writing", "reporting", "throwing"}
    BY <1>1, <1>4
  <2>2. \A q \in Runs \ {r} : gen'[q] = gen[q] /\ channel'[q] = channel[q]
    BY <1>1, <1>4
  <2> QED
    BY <1>1, <1>4, <2>1, <2>2, StreamCloses
<1>5. CASE exit' = exit /\ gen' = gen /\ gen[r] \in Streaming /\ AbortColumns(r, channel[r])
  BY <1>1, <1>5, AbortLeaves, StreamCloses DEF Streaming
<1>6. CASE exit' = exit /\ UNCHANGED <<gen, col, channel>>
  <2>1. \A q \in Runs : ClosesOf(q)'
    BY <1>1, <1>6, ClosesRests
  <2> QED
    BY <2>1 DEF AllClose
<1>7. CASE HandleEvent(r)
  <2>1. gen[r] = "receiving" /\ gen[r] \in Streaming
    BY <1>7 DEF HandleEvent, Got, Streaming
  <2> QED
    BY <1>2, <1>4, <1>7, <2>1 DEF HandleEvent
<1>8. CASE Publish(r)
  <2>1. gen[r] = "publishing" /\ gen[r] \in Streaming /\ gen[r] \in Over
    BY <1>8 DEF Publish, Streaming, Over
  <2> QED
    BY <1>2, <1>3, <1>4, <1>8, <2>1 DEF Publish
<1>9. CASE ReportWritten(r)
  BY <1>3, <1>9 DEF ReportWritten, Over
<1>10. CASE Disconnect(r)
  BY <1>4, <1>5, <1>6, <1>10 DEF Disconnect
<1> QED
  BY <1>7, <1>8, <1>9, <1>10

LEMMA NextCloses == ASSUME Inv, AllClose, Next PROVE AllClose'
<1>1. lineup' = lineup
  BY DEF Next
<1>2. ASSUME NEW r \in Runs, Request(r) \/ Generator(r) \/ Disconnect(r) PROVE AllClose'
  BY <1>1, <1>2, QuietCloses, LoopCloses, EndingCloses DEF Generator
<1>3. ASSUME NEW c \in Columns, Driver(c) \/ Worker(c) \/ StopColumn(c) PROVE AllClose'
  BY <1>1, <1>3, WorkerCloses
<1> QED
  BY <1>2, <1>3 DEF Next

LEMMA StutterCloses == ASSUME Inv, AllClose, UNCHANGED vars PROVE AllClose'
<1>1. \A q \in Runs : ClosesOf(q)'
  BY ClosesRests DEF vars
<1> QED
  BY <1>1 DEF AllClose

LEMMA InitCloses == ASSUME Init PROVE AllClose
  BY DEF Init, AllClose, ClosesOf, Closes

-----------------------------------------------------------------------------
\* What a column says and how a run ends is what the browser may conclude.
LEMMA TerminalsFollow == ASSUME Inv, AllSpeak, AllClose PROVE TerminalsTold
<1>1. CompleteIsLast
  <2> SUFFICES ASSUME NEW c \in Columns, NEW i \in 1..Len(seen[c]), seen[c][i] = "complete"
               PROVE  i = Len(seen[c])
    BY DEF CompleteIsLast
  <2>1. Voice(c, channel[RunOf(c)], RunOf(c), seen[c], verdict[c])
    BY DEF AllSpeak, Speaks
  <2> QED
    BY <2>1 DEF Voice
<1>2. ASSUME NEW r \in Runs, ledger[r] = "completed", channel[r].dropped = 0,
             NEW c \in ColumnsOf(r), verdict[c] # "none"
      PROVE  seen[c] # <<>> /\ Last(seen[c]) = "complete"
  <2>1. c \in Columns /\ r = RunOf(c)
    BY RunOfIs, LineupParts DEF Inv, Basic
  <2>2. /\ Voice(c, channel[r], r, seen[c], verdict[c])
        /\ Judged(c, verdict[c], col[c], held[c])
    BY <2>1 DEF AllSpeak, Speaks
  <2>3. col[c] # "unborn"
    BY <1>2, <2>2 DEF Judged
  <2>4. c \in BornOf(r)
    BY <2>3 DEF BornOf
  <2>5. Closes(gen[r], exit[r], ledger[r], channel[r], ColumnsOf(r), DoneOf(r), BornOf(r))
    BY DEF AllClose, ClosesOf
  <2>6. channel[r].buffer = <<>> /\ gen[r] = "closed"
    BY <1>2, <2>4, <2>5 DEF Closes
  <2>7. ~Awaited(channel[r])
    BY <2>6, StreamOf
  <2>8. ~Pends(channel[r], r, CompleteOf(c))
    BY <2>6, <2>7 DEF Pends, InHand, Awaited
  <2>9. HasEnded(seen[c])
    BY <1>2, <2>2, <2>8 DEF Voice
  <2>10. PICK i \in 1..Len(seen[c]) : seen[c][i] = "complete"
    BY <2>9 DEF HasEnded
  <2>11. i = Len(seen[c]) /\ seen[c] \in Seq(Kinds)
    BY <2>2, <2>10 DEF Voice
  <2> QED
    BY <2>10, <2>11 DEF Last
<1>3. CompletedMeansReported
  BY <1>2 DEF CompletedMeansReported
<1> QED
  BY <1>1, <1>3 DEF TerminalsTold

\* The route receives at most one complete of a column and nothing of it afterwards, and a
\* run whose session is completed has shown its route the complete of every column that
\* ran, for every lineup, slot count and capacity.
THEOREM TerminalsAreTold == Spec => []TerminalsTold
<1>1. Init => Inv /\ AllSpeak /\ AllClose
  BY InitInv, InitSpeaks, InitCloses
<1>2. Inv /\ AllSpeak /\ AllClose /\ [Next]_vars => (Inv /\ AllSpeak /\ AllClose)'
  BY NextInv, StutterInv, NextSpeaks, StutterSpeaks, NextCloses, StutterCloses
<1>3. Inv /\ AllSpeak /\ AllClose => TerminalsTold
  BY TerminalsFollow
<1> QED
  BY <1>1, <1>2, <1>3, PTL DEF Spec

-----------------------------------------------------------------------------
(* The page of the browser (ArenaPage), for any columns, selections, number *)
(* of turns and length of a transcript.                                      *)

EventRecord == [kind : {"banner", "text", "error"}, run : 0..MaxRuns, turn : 1..MaxPairs + 1]
ShownRecord == [there : BOOLEAN, events : SUBSET EventRecord,
                metrics : {"none", "ok", "failed"}, error : 0..MaxRuns]
Fates == {"open", "clean", "failed", "stopped"}
PairRecord == [run : 1..MaxRuns, answer : 0..MaxRuns]

PageShape ==
  /\ running \in BOOLEAN /\ streaming \in BOOLEAN
  /\ pendingTurn \in 0..MaxRuns /\ newest \in 0..MaxRuns /\ report \in 0..MaxRuns
  /\ torn \subseteq 1..MaxRuns
  /\ settled \subseteq begun /\ begun \subseteq expected /\ expected \subseteq Labels
  /\ asks \subseteq Labels
  /\ turnOf \in [Labels -> 1..MaxPairs + 1]
  /\ column \in [Labels -> ShownRecord]
  /\ transcript \in [Labels -> Seq(PairRecord)]
  /\ \A l \in Labels : Len(transcript[l]) <= MaxPairs
  /\ fate \in [1..MaxRuns -> Fates]

\* The newest run is the only one that runs, is pending or has a report; it is
\* clean once it is settled, unless it was forgotten; a stream that was aborted
\* is not the one that is open.
RunsInTurn ==
  /\ pendingTurn \in {0, newest} /\ report \in {0, newest}
  /\ running <=> streaming /\ settled # expected
  /\ streaming => newest # 0 /\ newest \notin torn
  /\ pendingTurn # 0 /\ settled = expected => fate[newest] = "clean"
  /\ pendingTurn # 0 /\ ~running => settled = expected
  /\ newest \notin torn => asks \subseteq expected \ settled

\* What a column shows under its current turn is of the newest run, and it shows
\* something there as long as the turn is to be committed.
ShowsTurn(l) ==
  /\ column[l].there => l \in expected
  /\ column[l].error \in {0, newest}
  /\ \A e \in column[l].events : e.turn <= turnOf[l] /\ (e.turn = turnOf[l] => e.run = newest)
  /\ \A d, e \in column[l].events : d.turn = e.turn => d.run = e.run
  /\ pendingTurn # 0 /\ l \in begun => \E e \in column[l].events : e.turn = turnOf[l]

\* A pair is of a clean run with its answer, after those of earlier runs.
PairsAreTold(l) ==
  \A i \in 1..Len(transcript[l]) :
    /\ transcript[l][i].run <= newest
    /\ transcript[l][i].answer \in {0, transcript[l][i].run}
    /\ fate[transcript[l][i].run] = "clean"
    /\ i > 1 => transcript[l][i - 1].run < transcript[l][i].run
    /\ transcript[l][i].run = newest => settled = expected /\ pendingTurn = 0

PageInv ==
  /\ PageShape /\ RunsInTurn
  /\ \A l \in Labels : ShowsTurn(l) /\ PairsAreTold(l)

LEMMA PageInitInv == PageInit => PageInv
<1> SUFFICES ASSUME PageInit PROVE PageInv
  OBVIOUS
<1> USE PageAssumption
<1>1. /\ Absent \in ShownRecord /\ ~Absent.there /\ Absent.events = {} /\ Absent.error = 0
      /\ <<>> \in Seq(PairRecord) /\ Len(<<>>) = 0
  BY DEF Absent, ShownRecord
<1>2. PageShape
  <2>1. /\ turnOf \in [Labels -> 1..MaxPairs + 1] /\ column \in [Labels -> ShownRecord]
        /\ transcript \in [Labels -> Seq(PairRecord)]
        /\ \A l \in Labels : Len(transcript[l]) <= MaxPairs
        /\ fate \in [1..MaxRuns -> Fates]
    BY <1>1 DEF PageInit, Fates
  <2>2. 0 \in 0..MaxRuns
    OBVIOUS
  <2> QED
    BY <2>1, <2>2 DEF PageInit, PageShape
<1>3. RunsInTurn
  BY DEF PageInit, RunsInTurn
<1>4. \A l \in Labels : ShowsTurn(l) /\ PairsAreTold(l)
  BY <1>1 DEF PageInit, ShowsTurn, PairsAreTold
<1> QED
  BY <1>2, <1>3, <1>4 DEF PageInv

\* What the page shows and what it wrote down stay as they are.
LEMMA ShownStays ==
  ASSUME PageInv, UNCHANGED <<column, newest, expected, turnOf, begun>>,
         pendingTurn' # 0 => pendingTurn # 0
  PROVE  \A l \in Labels : ShowsTurn(l)'
  BY DEF PageInv, ShowsTurn

LEMMA PairsStay ==
  ASSUME PageInv, UNCHANGED <<transcript, newest, expected, settled>>,
         pendingTurn' # 0 => pendingTurn # 0,
         \/ fate' = fate
         \/ /\ newest \in 1..MaxRuns /\ ~(settled = expected /\ pendingTurn = 0)
            /\ \E v : fate' = [fate EXCEPT ![newest] = v]
  PROVE  \A l \in Labels : PairsAreTold(l)'
<1> SUFFICES ASSUME NEW l \in Labels, NEW i \in 1..Len(transcript[l])
             PROVE  /\ transcript[l][i].run <= newest
                    /\ transcript[l][i].answer \in {0, transcript[l][i].run}
                    /\ fate'[transcript[l][i].run] = "clean"
                    /\ i > 1 => transcript[l][i - 1].run < transcript[l][i].run
                    /\ transcript[l][i].run = newest => settled = expected /\ pendingTurn' = 0
  BY DEF PairsAreTold
<1>1. /\ transcript[l][i].run <= newest
      /\ transcript[l][i].answer \in {0, transcript[l][i].run}
      /\ fate[transcript[l][i].run] = "clean"
      /\ i > 1 => transcript[l][i - 1].run < transcript[l][i].run
      /\ transcript[l][i].run = newest => settled = expected /\ pendingTurn = 0
  BY DEF PageInv, PairsAreTold
<1>2. fate'[transcript[l][i].run] = "clean"
  <2>1. transcript[l][i] \in PairRecord /\ fate \in [1..MaxRuns -> Fates]
    BY DEF PageInv, PageShape
  <2>2. transcript[l][i].run \in 1..MaxRuns
    BY <2>1 DEF PairRecord
  <2>3. ASSUME NEW v, fate' = [fate EXCEPT ![newest] = v], ~(settled = expected /\ pendingTurn = 0)
        PROVE  fate'[transcript[l][i].run] = "clean"
    BY <1>1, <2>1, <2>2, <2>3
  <2> QED
    BY <1>1, <2>3
<1> QED
  BY <1>1, <1>2

\* What one stripped column shows.
LEMMA StrippedFacts ==
  ASSUME NEW shown \in ShownRecord, NEW turn \in Nat
  PROVE  /\ Stripped(shown, turn) \in ShownRecord
         /\ Stripped(shown, turn).there = shown.there /\ Stripped(shown, turn).error = 0
         /\ Stripped(shown, turn).events = {e \in shown.events : e.turn < turn}
<1> DEFINE some == {e \in shown.events : e.turn < turn}
<1>1. some \in SUBSET EventRecord
  BY DEF ShownRecord
<1> HIDE DEF some
<1>2. Stripped(shown, turn) = [shown EXCEPT !.events = some, !.metrics = "none", !.error = 0]
  BY DEF Stripped, some
<1>3. 0 \in 0..MaxRuns
  BY PageAssumption
<1>4. Stripped(shown, turn) = [there |-> shown.there, events |-> some, metrics |-> "none", error |-> 0]
  BY <1>2 DEF ShownRecord
<1>5. Stripped(shown, turn).events = some
  BY <1>4
<1> QED
  BY <1>1, <1>3, <1>4, <1>5 DEF ShownRecord, some

LEMMA StripAllShows ==
  ASSUME PageInv, StripAll, UNCHANGED <<newest, expected, turnOf, begun>>, pendingTurn' = 0
  PROVE  column' \in [Labels -> ShownRecord] /\ \A l \in Labels : ShowsTurn(l)'
<1>1. column \in [Labels -> ShownRecord] /\ turnOf \in [Labels -> 1..MaxPairs + 1]
  BY DEF PageInv, PageShape
<1>2. ASSUME NEW l \in Labels
      PROVE  /\ column'[l] \in ShownRecord
             /\ column'[l].there = column[l].there /\ column'[l].error = 0
             /\ column'[l].events = {e \in column[l].events : e.turn < turnOf[l]}
  <2>1. column[l] \in ShownRecord /\ turnOf[l] \in Nat
    BY <1>1
  <2>2. column'[l] = Stripped(column[l], turnOf[l])
    BY DEF StripAll
  <2> QED
    BY <2>1, <2>2, StrippedFacts
<1>3. column' \in [Labels -> ShownRecord]
  BY <1>2 DEF StripAll
<1>4. ASSUME NEW l \in Labels PROVE ShowsTurn(l)'
  <2>1. ShowsTurn(l)
    BY DEF PageInv
  <2>2. turnOf[l] \in Nat /\ column[l] \in ShownRecord
    BY <1>1
  <2>3. \A e \in column[l].events : e.turn \in Nat
    BY <2>2 DEF ShownRecord, EventRecord
  <2> QED
    BY <1>2, <2>1, <2>2, <2>3 DEF ShowsTurn
<1> QED
  BY <1>3, <1>4
\* A step is of the invariant when it is of its four parts.
LEMMA PageParts ==
  ASSUME PageShape', RunsInTurn', \A l \in Labels : ShowsTurn(l)', \A l \in Labels : PairsAreTold(l)'
  PROVE  PageInv'
  BY DEF PageInv

LEMMA ReturnInv == ASSUME PageInv, NEW r \in 1..MaxRuns, Return(r) PROVE PageInv'
<1>1. /\ r \in torn /\ torn' = torn \ {r} /\ pendingTurn' = 0
      /\ UNCHANGED <<newest, expected, turnOf, settled, begun, streaming, column, transcript, report, fate>>
      /\ \/ r = newest /\ running' = FALSE /\ asks' = {}
         \/ r # newest /\ running' = running /\ asks' = asks
  BY DEF Return, streamVars, StillMine
<1>2. PageShape /\ RunsInTurn
  BY DEF PageInv
<1>3. PageShape'
  <2>1. 0 \in 0..MaxRuns /\ torn' \subseteq 1..MaxRuns
    BY <1>1, <1>2, PageAssumption DEF PageShape
  <2>2. running' \in BOOLEAN
    BY <1>1, <1>2, Zenon DEF PageShape
  <2>3. asks' \subseteq Labels
    BY <1>1, <1>2, Zenon DEF PageShape
  <2> QED
    BY <1>1, <1>2, <2>1, <2>2, <2>3 DEF PageShape
<1>4. RunsInTurn'
  BY <1>1, <1>2 DEF RunsInTurn, PageShape
<1> QED
  BY <1>1, <1>3, <1>4, ShownStays, PairsStay, PageParts

LEMMA AskHumanInv == ASSUME PageInv, NEW l \in Labels, AskHuman(l) PROVE PageInv'
<1>1. /\ torn = {} /\ streaming /\ l \in expected \ settled /\ asks' = asks \cup {l}
      /\ UNCHANGED <<running, pendingTurn, newest, expected, turnOf, settled, begun, streaming, torn,
                     column, transcript, report, fate>>
  BY DEF AskHuman, streamVars, Told, AtRest
<1>2. PageShape /\ RunsInTurn
  BY DEF PageInv
<1>3. PageShape'
  BY <1>1, <1>2 DEF PageShape
<1>4. RunsInTurn'
  BY <1>1, <1>2 DEF RunsInTurn
<1> QED
  BY <1>1, <1>3, <1>4, ShownStays, PairsStay, PageParts

LEMMA AnsweredInv == ASSUME PageInv, NEW l \in Labels, Answered(l) PROVE PageInv'
<1>1. /\ asks' = asks \ {l}
      /\ UNCHANGED <<running, pendingTurn, newest, expected, turnOf, settled, begun, streaming, torn,
                     column, transcript, report, fate>>
  BY DEF Answered, streamVars
<1>2. PageShape /\ RunsInTurn
  BY DEF PageInv
<1>3. PageShape'
  BY <1>1, <1>2 DEF PageShape
<1>4. RunsInTurn'
  BY <1>1, <1>2 DEF RunsInTurn
<1> QED
  BY <1>1, <1>3, <1>4, ShownStays, PairsStay, PageParts

LEMMA ReportInv == ASSUME PageInv, Report PROVE PageInv'
<1>1. /\ report' = newest
      /\ UNCHANGED <<running, pendingTurn, newest, expected, turnOf, settled, begun, streaming, torn,
                     column, transcript, asks, fate>>
  BY DEF Report, streamVars
<1>2. PageShape /\ RunsInTurn
  BY DEF PageInv
<1>3. PageShape'
  BY <1>1, <1>2 DEF PageShape
<1>4. RunsInTurn'
  BY <1>1, <1>2 DEF RunsInTurn
<1> QED
  BY <1>1, <1>3, <1>4, ShownStays, PairsStay, PageParts

\* A fate is given to the newest run.
LEMMA FateGiven ==
  ASSUME PageShape, newest # 0, NEW v \in Fates, fate' = [fate EXCEPT ![newest] = v]
  PROVE  fate' \in [1..MaxRuns -> Fates] /\ newest \in 1..MaxRuns /\ fate'[newest] = v
  BY DEF PageShape

LEMMA StreamEndsInv == ASSUME PageInv, NEW thrown \in BOOLEAN, StreamEnds(thrown) PROVE PageInv'
<1>1. /\ torn = {} /\ streaming /\ streaming' = FALSE /\ running' = FALSE /\ asks' = {}
      /\ UNCHANGED <<newest, expected, turnOf, settled, begun, torn, column, transcript, report>>
      /\ \/ /\ pendingTurn' = 0
            /\ fate' = IF pendingTurn = newest THEN [fate EXCEPT ![newest] = "failed"] ELSE fate
         \/ settled = expected /\ pendingTurn' = pendingTurn /\ fate' = fate
  BY DEF StreamEnds, streamVars, AtRest
<1>2. PageShape /\ RunsInTurn
  BY DEF PageInv
<1>3. newest # 0
  BY <1>1, <1>2 DEF RunsInTurn
<1>4. "failed" \in Fates
  BY DEF Fates
<1>5. \/ fate' = fate
      \/ /\ newest \in 1..MaxRuns /\ ~(settled = expected /\ pendingTurn = 0)
         /\ \E v : fate' = [fate EXCEPT ![newest] = v]
  BY <1>1, <1>2, <1>3, <1>4, FateGiven
<1>6. fate' \in [1..MaxRuns -> Fates]
  <2>1. fate \in [1..MaxRuns -> Fates]
    BY <1>2 DEF PageShape
  <2> QED
    BY <1>1, <1>2, <1>3, <1>4, <2>1, FateGiven
<1>7. PageShape'
  <2>1. 0 \in 0..MaxRuns
    BY PageAssumption
  <2> QED
    BY <1>1, <1>2, <1>6, <2>1 DEF PageShape
<1>8. RunsInTurn'
  BY <1>1, <1>2 DEF RunsInTurn
<1> QED
  BY <1>1, <1>5, <1>7, <1>8, ShownStays, PairsStay, PageParts

LEMMA SystemErrorInv == ASSUME PageInv, SystemError PROVE PageInv'
<1>1. /\ torn = {} /\ streaming /\ settled # expected
      /\ fate' = [fate EXCEPT ![newest] = "failed"]
      /\ pendingTurn' = 0 /\ running' = FALSE /\ streaming' = FALSE /\ torn' = torn \cup {newest}
      /\ StripAll
      /\ UNCHANGED <<newest, expected, turnOf, settled, begun, transcript, asks, report>>
  BY DEF SystemError, streamVars, AtRest
<1>2. PageShape /\ RunsInTurn
  BY DEF PageInv
<1>3. newest # 0 /\ "failed" \in Fates
  BY <1>1, <1>2 DEF RunsInTurn, Fates
<1>4. fate' \in [1..MaxRuns -> Fates] /\ newest \in 1..MaxRuns /\ \E v : fate' = [fate EXCEPT ![newest] = v]
  BY <1>1, <1>2, <1>3, FateGiven
<1>5. column' \in [Labels -> ShownRecord] /\ \A l \in Labels : ShowsTurn(l)'
  BY <1>1, StripAllShows
<1>6. PageShape'
  <2>1. 0 \in 0..MaxRuns /\ torn' \subseteq 1..MaxRuns
    BY <1>1, <1>4, PageAssumption
  <2> QED
    BY <1>1, <1>2, <1>4, <1>5, <2>1 DEF PageShape
<1>7. RunsInTurn'
  BY <1>1, <1>2 DEF RunsInTurn
<1> QED
  BY <1>1, <1>4, <1>5, <1>6, <1>7, PairsStay, PageParts

LEMMA StopInv == ASSUME PageInv, Stop PROVE PageInv'
<1>1. /\ torn = {} /\ (running \/ (pendingTurn # 0 /\ ~running))
      /\ fate' = [fate EXCEPT ![newest] = "stopped"]
      /\ pendingTurn' = 0 /\ running' = FALSE /\ asks' = {} /\ report' = 0
      /\ streaming' = FALSE /\ torn' = IF streaming THEN {newest} ELSE {}
      /\ StripAll
      /\ UNCHANGED <<newest, expected, turnOf, settled, begun, transcript>>
  BY DEF Stop, streamVars, AtRest, CommitDue, CancelTurn
<1>2. PageShape /\ RunsInTurn
  BY DEF PageInv
<1>3. newest # 0 /\ "stopped" \in Fates /\ ~(settled = expected /\ pendingTurn = 0)
  BY <1>1, <1>2 DEF RunsInTurn, Fates
<1>4. fate' \in [1..MaxRuns -> Fates] /\ newest \in 1..MaxRuns /\ \E v : fate' = [fate EXCEPT ![newest] = v]
  BY <1>1, <1>2, <1>3, FateGiven
<1>5. column' \in [Labels -> ShownRecord] /\ \A l \in Labels : ShowsTurn(l)'
  BY <1>1, StripAllShows
<1>6. PageShape'
  <2>1. 0 \in 0..MaxRuns /\ torn' \subseteq 1..MaxRuns
    BY <1>1, <1>4, PageAssumption
  <2> QED
    BY <1>1, <1>2, <1>4, <1>5, <2>1 DEF PageShape
<1>7. RunsInTurn'
  BY <1>1, <1>2 DEF RunsInTurn
<1> QED
  BY <1>1, <1>3, <1>4, <1>5, <1>6, <1>7, PairsStay, PageParts
\* A column shows one thing more of the turn it is in, or the same and another end.
LEMMA ShownOnce ==
  ASSUME PageInv, NEW l \in Labels, l \in expected,
         NEW v \in ShownRecord, column' = [column EXCEPT ![l] = v],
         v.error \in {0, newest},
         \/ /\ \E e \in EventRecord : /\ e.run = newest /\ e.turn = turnOf[l]
                                      /\ v.events = column[l].events \cup {e}
            /\ begun' = begun \cup {l}
         \/ v.events = column[l].events /\ begun' = begun,
         UNCHANGED <<newest, expected, turnOf, pendingTurn>>
  PROVE  column' \in [Labels -> ShownRecord] /\ \A k \in Labels : ShowsTurn(k)'
<1>1. column \in [Labels -> ShownRecord] /\ turnOf \in [Labels -> 1..MaxPairs + 1]
  BY DEF PageInv, PageShape
<1>2. column' \in [Labels -> ShownRecord] /\ column'[l] = v /\ \A k \in Labels \ {l} : column'[k] = column[k]
  BY <1>1
<1>3. \A k \in Labels : ShowsTurn(k)
  BY DEF PageInv
<1>4. ASSUME NEW k \in Labels \ {l} PROVE ShowsTurn(k)'
  <2>1. k \in begun' => k \in begun
    OBVIOUS
  <2> QED
    BY <1>2, <1>3, <2>1 DEF ShowsTurn
<1>5. ShowsTurn(l)'
  <2>1. CASE v.events = column[l].events /\ begun' = begun
    BY <1>2, <1>3, <2>1 DEF ShowsTurn
  <2>2. CASE \E e \in EventRecord : /\ e.run = newest /\ e.turn = turnOf[l]
                                    /\ v.events = column[l].events \cup {e}
    <3>1. PICK e \in EventRecord : /\ e.run = newest /\ e.turn = turnOf[l]
                                   /\ v.events = column[l].events \cup {e}
      BY <2>2
    <3>2. e.turn <= turnOf[l]
      BY <1>1, <3>1 DEF EventRecord
    <3>3. \A f \in column[l].events : f.turn <= turnOf[l] /\ (f.turn = turnOf[l] => f.run = newest)
      BY <1>3 DEF ShowsTurn
    <3>4. \A d, f \in v.events : d.turn = f.turn => d.run = f.run
      BY <1>3, <3>1, <3>3 DEF ShowsTurn
    <3> QED
      BY <1>2, <3>1, <3>2, <3>3, <3>4 DEF ShowsTurn
  <2> QED
    BY <2>1, <2>2
<1> QED
  BY <1>2, <1>4, <1>5

LEMMA TextInv ==
  ASSUME PageInv, NEW l \in Labels, NEW kind \in {"banner", "text"}, Text(l, kind)
  PROVE  PageInv'
<1> DEFINE e == [kind |-> kind, run |-> newest, turn |-> turnOf[l]]
           v == [column[l] EXCEPT !.there = TRUE, !.events = @ \cup {e}]
<1>1. /\ streaming /\ l \in expected \ settled /\ begun' = begun \cup {l}
      /\ column' = [column EXCEPT ![l] = v]
      /\ UNCHANGED <<running, pendingTurn, newest, expected, turnOf, streaming, torn, settled,
                     transcript, asks, report, fate>>
  BY DEF Text, Told, Shown
<1>2. PageShape /\ RunsInTurn /\ ShowsTurn(l)
  BY DEF PageInv
<1>3. e \in EventRecord /\ e.run = newest /\ e.turn = turnOf[l] /\ column[l] \in ShownRecord
  BY <1>2 DEF PageShape, EventRecord
<1> HIDE DEF e
<1>4. v \in ShownRecord /\ v.events = column[l].events \cup {e} /\ v.error = column[l].error
  BY <1>3 DEF ShownRecord
<1> HIDE DEF v
<1>5. column' \in [Labels -> ShownRecord] /\ \A k \in Labels : ShowsTurn(k)'
  BY <1>1, <1>2, <1>3, <1>4, ShownOnce DEF ShowsTurn
<1>6. PageShape'
  BY <1>1, <1>2, <1>5 DEF PageShape
<1>7. RunsInTurn'
  BY <1>1, <1>2 DEF RunsInTurn
<1> QED
  BY <1>1, <1>5, <1>6, <1>7, PairsStay, PageParts

LEMMA ColumnErrorInv ==
  ASSUME PageInv, NEW l \in Labels, ColumnError(l)
  PROVE  PageInv'
<1> DEFINE e == [kind |-> "error", run |-> newest, turn |-> turnOf[l]]
           v == [column[l] EXCEPT !.there = TRUE, !.error = newest, !.events = @ \cup {e}]
<1>1. /\ streaming /\ l \in expected \ settled /\ begun' = begun \cup {l} /\ asks' = asks \ {l}
      /\ column' = [column EXCEPT ![l] = v]
      /\ UNCHANGED <<running, pendingTurn, newest, expected, turnOf, streaming, torn, settled,
                     transcript, report, fate>>
  BY DEF ColumnError, Told, Shown
<1>2. PageShape /\ RunsInTurn /\ ShowsTurn(l)
  BY DEF PageInv
<1>3. e \in EventRecord /\ e.run = newest /\ e.turn = turnOf[l] /\ column[l] \in ShownRecord
      /\ newest \in 0..MaxRuns
  BY <1>2 DEF PageShape, EventRecord
<1> HIDE DEF e
<1>4. v \in ShownRecord /\ v.events = column[l].events \cup {e} /\ v.error = newest
  BY <1>3 DEF ShownRecord
<1> HIDE DEF v
<1>5. column' \in [Labels -> ShownRecord] /\ \A k \in Labels : ShowsTurn(k)'
  BY <1>1, <1>2, <1>3, <1>4, ShownOnce
<1>6. PageShape'
  BY <1>1, <1>2, <1>5 DEF PageShape
<1>7. RunsInTurn'
  BY <1>1, <1>2 DEF RunsInTurn
<1> QED
  BY <1>1, <1>5, <1>6, <1>7, PairsStay, PageParts

LEMMA CompleteInv ==
  ASSUME PageInv, NEW l \in Labels, NEW ok \in BOOLEAN, Complete(l, ok)
  PROVE  PageInv'
<1> DEFINE v == [column[l] EXCEPT !.there = TRUE, !.metrics = IF ok THEN "ok" ELSE "failed",
                                  !.error = IF ok THEN 0 ELSE @]
<1>1. /\ torn = {} /\ streaming /\ l \in expected \ settled /\ l \in begun
      /\ settled' = settled \cup {l} /\ asks' = asks \ {l}
      /\ running' = IF settled' = expected THEN FALSE ELSE running
      /\ fate' = IF settled' = expected THEN [fate EXCEPT ![newest] = "clean"] ELSE fate
      /\ column' = [column EXCEPT ![l] = v]
      /\ UNCHANGED <<pendingTurn, newest, expected, turnOf, streaming, torn, transcript, report, begun>>
  BY DEF Complete, Told, AtRest
<1>2. PageShape /\ RunsInTurn /\ ShowsTurn(l)
  BY DEF PageInv
<1>3. column[l] \in ShownRecord /\ 0 \in 0..MaxRuns
  BY <1>2, PageAssumption DEF PageShape
<1>4. v \in ShownRecord /\ v.events = column[l].events /\ v.error \in {0, column[l].error}
  BY <1>3 DEF ShownRecord
<1> HIDE DEF v
<1>5. column' \in [Labels -> ShownRecord] /\ \A k \in Labels : ShowsTurn(k)'
  BY <1>1, <1>2, <1>4, ShownOnce DEF ShowsTurn
<1>6. newest # 0 /\ "clean" \in Fates /\ fate \in [1..MaxRuns -> Fates]
  BY <1>1, <1>2 DEF RunsInTurn, Fates, PageShape
<1>7. fate' \in [1..MaxRuns -> Fates] /\ (settled' = expected => fate'[newest] = "clean")
  BY <1>1, <1>2, <1>6, FateGiven
<1>8. PageShape'
  BY <1>1, <1>2, <1>5, <1>7 DEF PageShape
<1>9. RunsInTurn'
  BY <1>1, <1>2, <1>7 DEF RunsInTurn
<1>10. ASSUME NEW k \in Labels PROVE PairsAreTold(k)'
  <2> SUFFICES ASSUME NEW i \in 1..Len(transcript[k])
               PROVE  /\ transcript[k][i].run <= newest
                      /\ transcript[k][i].answer \in {0, transcript[k][i].run}
                      /\ fate'[transcript[k][i].run] = "clean"
                      /\ i > 1 => transcript[k][i - 1].run < transcript[k][i].run
                      /\ transcript[k][i].run = newest => settled' = expected /\ pendingTurn = 0
    BY <1>1 DEF PairsAreTold
  <2>1. /\ transcript[k][i].run <= newest
        /\ transcript[k][i].answer \in {0, transcript[k][i].run}
        /\ fate[transcript[k][i].run] = "clean"
        /\ i > 1 => transcript[k][i - 1].run < transcript[k][i].run
        /\ transcript[k][i].run = newest => settled = expected
    BY DEF PageInv, PairsAreTold
  <2>2. transcript[k][i].run # newest
    BY <1>1, <2>1
  <2>3. fate'[transcript[k][i].run] = "clean"
    <3>1. transcript[k][i] \in PairRecord
      BY <1>2 DEF PageShape
    <3>2. transcript[k][i].run \in 1..MaxRuns
      BY <3>1 DEF PairRecord
    <3> QED
      BY <1>1, <1>6, <2>1, <2>2, <3>2
  <2> QED
    BY <2>1, <2>2, <2>3
<1> QED
  BY <1>5, <1>8, <1>9, <1>10, PageParts

LEMMA ClearInv == ASSUME PageInv, Clear PROVE PageInv'
<1>1. /\ column' = [l \in Labels |-> Absent] /\ transcript' = [l \in Labels |-> <<>>]
      /\ pendingTurn' = 0 /\ report' = 0
      /\ UNCHANGED <<running, newest, expected, turnOf, settled, begun, streaming, torn, asks, fate>>
  BY DEF Clear, streamVars
<1>2. PageShape /\ RunsInTurn
  BY DEF PageInv
<1>3. /\ Absent \in ShownRecord /\ ~Absent.there /\ Absent.events = {} /\ Absent.error = 0
      /\ <<>> \in Seq(PairRecord) /\ Len(<<>>) = 0 /\ 0 \in 0..MaxRuns /\ 0 <= MaxPairs
  BY PageAssumption DEF Absent, ShownRecord
<1>4. PageShape'
  BY <1>1, <1>2, <1>3 DEF PageShape
<1>5. RunsInTurn'
  BY <1>1, <1>2 DEF RunsInTurn
<1>6. \A l \in Labels : ShowsTurn(l)'
  BY <1>1, <1>3 DEF ShowsTurn
<1>7. \A l \in Labels : PairsAreTold(l)'
  BY <1>1, <1>3 DEF PairsAreTold
<1> QED
  BY <1>4, <1>5, <1>6, <1>7, PageParts

LEMMA CopyTranscriptInv == ASSUME PageInv, NEW l \in Labels, CopyTranscript(l) PROVE PageInv'
<1>1. /\ transcript' = [k \in Labels |-> IF column[k].there THEN transcript[l] ELSE transcript[k]]
      /\ UNCHANGED <<running, pendingTurn, newest, expected, turnOf, settled, begun, streaming, torn,
                     column, asks, report, fate>>
  BY DEF CopyTranscript, streamVars
<1>2. PageShape /\ RunsInTurn /\ \A k \in Labels : PairsAreTold(k)
  BY DEF PageInv
<1>3. \A k \in Labels : transcript'[k] = transcript[l] \/ transcript'[k] = transcript[k]
  BY <1>1
<1>4. PageShape'
  BY <1>1, <1>2, <1>3 DEF PageShape
<1>5. RunsInTurn'
  BY <1>1, <1>2 DEF RunsInTurn
<1>6. \A k \in Labels : PairsAreTold(k)'
  <2> SUFFICES ASSUME NEW k \in Labels PROVE PairsAreTold(k)'
    OBVIOUS
  <2>1. CASE transcript'[k] = transcript[l]
    BY <1>1, <1>2, <2>1 DEF PairsAreTold
  <2>2. CASE transcript'[k] = transcript[k]
    BY <1>1, <1>2, <2>2 DEF PairsAreTold
  <2> QED
    BY <1>3, <2>1, <2>2
<1> QED
  BY <1>1, <1>4, <1>5, <1>6, ShownStays, PageParts
\* A new turn: nothing is shown of its number, and no pair is of its run.
LEMMA AskTurnInv ==
  ASSUME PageInv, NEW labels \in Selections, AskTurn(labels)
  PROVE  PageInv'
<1>1. /\ torn = {} /\ newest < MaxRuns /\ newest' = newest + 1 /\ pendingTurn' = newest + 1
      /\ running' = TRUE /\ streaming' = TRUE /\ report' = 0 /\ asks' = {}
      /\ expected' = labels /\ settled' = {} /\ begun' = {}
      /\ turnOf' = [l \in Labels |-> IF l \in labels THEN TurnAfter(transcript[l]) ELSE 1]
      /\ column' = [l \in Labels |-> IF l \notin labels THEN Absent
                                     ELSE [Stripped(column[l], turnOf'[l]) EXCEPT !.there = TRUE]]
      /\ torn' = IF streaming THEN {newest} ELSE {}
      /\ UNCHANGED <<transcript, fate>>
  BY DEF AskTurn, UserIsFree, AtRest
<1>2. PageShape /\ RunsInTurn
  BY DEF PageInv
<1>3. labels \subseteq Labels /\ labels # {}
  BY PageAssumption
<1>4. newest \in Nat /\ newest + 1 \in 1..MaxRuns /\ 0 \in 0..MaxRuns /\ newest + 1 # newest /\ newest + 1 # 0
  BY <1>1, <1>2, PageAssumption DEF PageShape
<1>5. turnOf' \in [Labels -> 1..MaxPairs + 1]
  <2>1. ASSUME NEW l \in Labels PROVE TurnAfter(transcript[l]) \in 1..MaxPairs + 1 /\ 1 \in 1..MaxPairs + 1
    <3>1. transcript[l] \in Seq(PairRecord) /\ Len(transcript[l]) <= MaxPairs
      BY <1>2 DEF PageShape
    <3> QED
      BY <3>1, PageAssumption DEF TurnAfter
  <2> QED
    BY <1>1, <2>1
<1>6. ASSUME NEW l \in Labels
      PROVE  /\ column'[l] \in ShownRecord /\ column'[l].error = 0
             /\ column'[l].there => l \in labels
             /\ column'[l].events \subseteq {e \in column[l].events : e.turn < turnOf'[l]}
  <2> DEFINE turn == turnOf'[l]
  <2>1. column[l] \in ShownRecord /\ turn \in Nat
    BY <1>2, <1>5 DEF PageShape
  <2> HIDE DEF turn
  <2>2. CASE l \notin labels
    <3>1. Absent \in ShownRecord /\ ~Absent.there /\ Absent.events = {} /\ Absent.error = 0
      BY PageAssumption DEF Absent, ShownRecord
    <3> QED
      BY <1>1, <2>2, <3>1
  <2>3. CASE l \in labels
    <3> DEFINE s == Stripped(column[l], turn)
    <3>1. /\ s \in ShownRecord /\ s.error = 0
          /\ s.events = {e \in column[l].events : e.turn < turn}
      BY <2>1, StrippedFacts
    <3> HIDE DEF s
    <3>2. /\ [s EXCEPT !.there = TRUE] \in ShownRecord
          /\ [s EXCEPT !.there = TRUE].error = s.error
          /\ [s EXCEPT !.there = TRUE].events = s.events
      BY <3>1 DEF ShownRecord
    <3>3. column'[l] = [s EXCEPT !.there = TRUE]
      BY <1>1, <2>3 DEF s, turn
    <3> QED
      BY <2>3, <3>1, <3>2, <3>3 DEF turn
  <2> QED
    BY <2>2, <2>3
<1>7. PageShape'
  <2>1. column' \in [Labels -> ShownRecord]
    BY <1>1, <1>6
  <2>2. torn' \subseteq 1..MaxRuns
    <3>1. streaming => newest \in 1..MaxRuns
      BY <1>2, <1>4 DEF RunsInTurn, PageShape
    <3> QED
      BY <1>1, <3>1
  <2>3. /\ running' \in BOOLEAN /\ streaming' \in BOOLEAN
        /\ pendingTurn' \in 0..MaxRuns /\ newest' \in 0..MaxRuns /\ report' \in 0..MaxRuns
    BY <1>1, <1>4
  <2>4. /\ settled' \subseteq begun' /\ begun' \subseteq expected' /\ expected' \subseteq Labels
        /\ asks' \subseteq Labels
    BY <1>1, <1>3
  <2> QED
    BY <1>1, <1>2, <1>5, <2>1, <2>2, <2>3, <2>4 DEF PageShape
<1>8. RunsInTurn'
  <2>1. newest' \notin torn' /\ settled' # expected'
    BY <1>1, <1>3, <1>4
  <2> QED
    BY <1>1, <1>4, <2>1 DEF RunsInTurn
<1>9. ASSUME NEW l \in Labels PROVE ShowsTurn(l)'
  <2>1. ShowsTurn(l) /\ column[l] \in ShownRecord /\ turnOf'[l] \in Nat
    BY <1>2, <1>5 DEF PageInv, PageShape
  <2>2. \A e \in column[l].events : e.turn \in Nat
    BY <2>1 DEF ShownRecord, EventRecord
  <2>3. \A e \in column'[l].events : e \in column[l].events /\ e.turn < turnOf'[l]
    BY <1>6
  <2>4. \A e \in column'[l].events : e.turn <= turnOf'[l] /\ e.turn # turnOf'[l]
    BY <2>1, <2>2, <2>3
  <2>5. \A d, e \in column'[l].events : d.turn = e.turn => d.run = e.run
    BY <2>1, <2>3 DEF ShowsTurn
  <2> QED
    BY <1>1, <1>6, <2>4, <2>5 DEF ShowsTurn
<1>10. ASSUME NEW l \in Labels PROVE PairsAreTold(l)'
  <2>1. PairsAreTold(l) /\ transcript[l] \in Seq(PairRecord)
    BY <1>2 DEF PageInv, PageShape
  <2>2. ASSUME NEW i \in 1..Len(transcript[l])
        PROVE  transcript[l][i].run <= newest' /\ transcript[l][i].run # newest'
    <3>1. transcript[l][i] \in PairRecord /\ transcript[l][i].run <= newest
      BY <2>1 DEF PairsAreTold
    <3> QED
      BY <1>1, <1>4, <3>1 DEF PairRecord
  <2> QED
    BY <1>1, <2>1, <2>2 DEF PairsAreTold
<1> QED
  BY <1>7, <1>8, <1>9, <1>10, PageParts

\* The answer of a column that has something of the turn to be committed is of that turn.
LEMMA AnswerIsOfTurn ==
  ASSUME PageInv, NEW l \in Labels, pendingTurn # 0, l \in begun
  PROVE  AnswerShown(column[l]) \in {0, newest}
<1> DEFINE shown == column[l]
           turn == turnOf[l]
           turns == {e.turn : e \in shown.events}
           texts == {e \in shown.events : e.kind = "text" /\ e.turn = LastTurn(shown)}
<1>1. /\ ShowsTurn(l) /\ turn \in Nat /\ shown \in ShownRecord
  BY DEF PageInv, PageShape
<1>2. /\ \A e \in shown.events : e.turn <= turn /\ (e.turn = turn => e.run = newest)
      /\ \E e \in shown.events : e.turn = turn
      /\ shown.error \in {0, newest}
  BY <1>1 DEF ShowsTurn
<1>3. \A e \in shown.events : e.turn \in Nat
  BY <1>1 DEF ShownRecord, EventRecord
<1> HIDE DEF shown, turn
<1>4. LastTurn(shown) = turn
  <2>1. turn \in turns /\ \A e \in shown.events : e.turn <= turn
    BY <1>2
  <2>2. ASSUME NEW n \in turns, \A e \in shown.events : e.turn <= n PROVE n = turn
    BY <1>1, <1>2, <1>3, <2>2
  <2>3. LastTurn(shown) \in turns /\ \A e \in shown.events : e.turn <= LastTurn(shown)
    BY <2>1 DEF LastTurn
  <2> QED
    BY <2>2, <2>3
<1>5. \A e \in texts : e.run = newest
  BY <1>2, <1>4
<1>6. texts # {} => (CHOOSE e \in texts : TRUE) \in texts
  OBVIOUS
<1> QED
  BY <1>2, <1>5, <1>6 DEF AnswerShown, shown

LEMMA CommitTurnInv == ASSUME PageInv, CommitTurn PROVE PageInv'
<1>1. /\ pendingTurn # 0 /\ ~running /\ pendingTurn' = 0
      /\ transcript' = [l \in Labels |-> Committed(l)]
      /\ UNCHANGED <<running, newest, expected, turnOf, settled, begun, streaming, torn, column, asks,
                     report, fate>>
  BY DEF CommitTurn, CommitDue, streamVars
<1>2. PageShape /\ RunsInTurn
  BY DEF PageInv
<1>3. pendingTurn = newest /\ settled = expected /\ fate[newest] = "clean"
  BY <1>1, <1>2 DEF RunsInTurn
<1>4. newest \in 1..MaxRuns
  BY <1>1, <1>2, <1>3, PageAssumption DEF PageShape
<1>5. RunsInTurn'
  BY <1>1, <1>2 DEF RunsInTurn
<1>6. ASSUME NEW l \in Labels
      PROVE  /\ transcript'[l] \in Seq(PairRecord) /\ Len(transcript'[l]) <= MaxPairs
             /\ PairsAreTold(l)'
  <2> DEFINE old == transcript[l]
             n == Len(old)
             pair == [run |-> newest, answer |-> AnswerShown(column[l])]
             more == Append(old, pair)
  <2>1. /\ old \in Seq(PairRecord) /\ n \in Nat /\ n <= MaxPairs /\ PairsAreTold(l) /\ ShowsTurn(l)
    BY <1>2 DEF PageInv, PageShape
  <2>2. \A i \in 1..n :
          /\ old[i].run \in 1..MaxRuns /\ old[i].run < newest
          /\ old[i].answer \in {0, old[i].run} /\ fate[old[i].run] = "clean"
          /\ i > 1 => old[i - 1].run < old[i].run
    <3> SUFFICES ASSUME NEW i \in 1..n
                 PROVE  /\ old[i].run \in 1..MaxRuns /\ old[i].run < newest
                        /\ old[i].answer \in {0, old[i].run} /\ fate[old[i].run] = "clean"
                        /\ i > 1 => old[i - 1].run < old[i].run
      OBVIOUS
    <3>1. old[i] \in PairRecord
      BY <2>1
    <3>2. /\ old[i].run <= newest /\ old[i].run # newest
          /\ old[i].answer \in {0, old[i].run} /\ fate[old[i].run] = "clean"
          /\ i > 1 => old[i - 1].run < old[i].run
      BY <1>1, <2>1 DEF PairsAreTold
    <3> QED
      BY <1>4, <3>1, <3>2 DEF PairRecord
  <2>3. transcript'[l] = IF column[l].there THEN Budgeted(more) ELSE old
    BY <1>1, <1>3 DEF Committed
  <2>4. CASE ~column[l].there
    <3>1. transcript'[l] = old
      BY <2>3, <2>4
    <3> QED
      BY <1>1, <1>3, <2>1, <3>1 DEF PairsAreTold
  <2>5. CASE column[l].there
    <3>1. l \in begun
      BY <1>2, <1>3, <2>1, <2>5 DEF ShowsTurn, PageShape
    <3>2. AnswerShown(column[l]) \in {0, newest}
      BY <1>1, <3>1, AnswerIsOfTurn
    <3>3. pair \in PairRecord /\ pair.run = newest /\ pair.answer \in {0, newest}
      BY <1>4, <3>2, PageAssumption DEF PairRecord
    <3> HIDE DEF old, n, pair
    <3>4. /\ more \in Seq(PairRecord) /\ Len(more) = n + 1
          /\ more[n + 1] = pair /\ \A i \in 1..n : more[i] = old[i]
      BY <2>1, <3>3, AppendProperties DEF n
    <3> HIDE DEF more
    <3>5. \A i \in 1..n + 1 :
            /\ more[i].run <= newest /\ more[i].answer \in {0, more[i].run}
            /\ fate[more[i].run] = "clean"
            /\ i > 1 => more[i - 1].run < more[i].run
      <4> SUFFICES ASSUME NEW i \in 1..n + 1
                   PROVE  /\ more[i].run <= newest /\ more[i].answer \in {0, more[i].run}
                          /\ fate[more[i].run] = "clean"
                          /\ i > 1 => more[i - 1].run < more[i].run
        OBVIOUS
      <4>1. CASE i \in 1..n
        <5>1. more[i] = old[i] /\ (i > 1 => i - 1 \in 1..n /\ more[i - 1] = old[i - 1])
          BY <2>1, <3>4, <4>1
        <5> QED
          BY <1>4, <2>2, <4>1, <5>1
      <4>2. CASE i = n + 1
        <5>1. i > 1 => i - 1 \in 1..n /\ i - 1 = n /\ more[i - 1] = old[i - 1]
          BY <2>1, <3>4, <4>2
        <5> QED
          BY <1>3, <1>4, <2>2, <3>3, <3>4, <4>2, <5>1
      <4> QED
        BY <2>1, <4>1, <4>2
    <3>6. CASE n + 1 <= MaxPairs
      <4>1. transcript'[l] = more
        BY <2>1, <2>3, <2>5, <3>4, <3>6, PageAssumption DEF Budgeted
      <4> QED
        BY <1>1, <1>3, <3>4, <3>5, <3>6, <4>1 DEF PairsAreTold
    <3>7. CASE n = MaxPairs
      <4>1. transcript'[l] = Tail(more)
        BY <2>1, <2>3, <2>5, <3>4, <3>7, PageAssumption DEF Budgeted
      <4>2. /\ Tail(more) \in Seq(PairRecord) /\ Len(Tail(more)) = n
            /\ \A i \in 1..n : Tail(more)[i] = more[i + 1]
        <5>1. more # <<>>
          BY <2>1, <3>4
        <5> QED
          BY <2>1, <3>4, <5>1, HeadTailProperties
      <4>3. \A i \in 1..n :
              /\ Tail(more)[i].run <= newest /\ Tail(more)[i].answer \in {0, Tail(more)[i].run}
              /\ fate[Tail(more)[i].run] = "clean"
              /\ i > 1 => Tail(more)[i - 1].run < Tail(more)[i].run
        <5> SUFFICES ASSUME NEW i \in 1..n
                     PROVE  /\ Tail(more)[i].run <= newest /\ Tail(more)[i].answer \in {0, Tail(more)[i].run}
                            /\ fate[Tail(more)[i].run] = "clean"
                            /\ i > 1 => Tail(more)[i - 1].run < Tail(more)[i].run
          OBVIOUS
        <5>1. /\ i + 1 \in 1..n + 1 /\ i + 1 > 1 /\ (i + 1) - 1 = i
              /\ (i > 1 => i - 1 \in 1..n /\ (i - 1) + 1 = i)
          BY <2>1
        <5>2. Tail(more)[i] = more[i + 1] /\ (i > 1 => Tail(more)[i - 1] = more[i])
          BY <4>2, <5>1
        <5> QED
          BY <3>5, <5>1, <5>2
      <4> QED
        BY <1>1, <1>3, <2>1, <3>7, <4>1, <4>2, <4>3 DEF PairsAreTold
    <3> QED
      BY <2>1, <3>6, <3>7, PageAssumption
  <2> QED
    BY <2>4, <2>5
<1>7. PageShape'
  <2>1. transcript' \in [Labels -> Seq(PairRecord)] /\ \A l \in Labels : Len(transcript'[l]) <= MaxPairs
    BY <1>1, <1>6
  <2>2. 0 \in 0..MaxRuns
    BY PageAssumption
  <2> QED
    BY <1>1, <1>2, <2>1, <2>2 DEF PageShape
<1> QED
  BY <1>1, <1>5, <1>6, <1>7, ShownStays, PageParts
LEMMA PageNextInv == PageInv /\ [PageNext]_pageVars => PageInv'
<1> SUFFICES ASSUME PageInv, [PageNext]_pageVars PROVE PageInv'
  OBVIOUS
<1>1. ASSUME NEW labels \in Selections, AskTurn(labels) PROVE PageInv'
  BY <1>1, AskTurnInv
<1>2. ASSUME NEW r \in 1..MaxRuns, Return(r) PROVE PageInv'
  BY <1>2, ReturnInv
<1>3. ASSUME NEW l \in Labels, NEW kind \in {"banner", "text"}, Text(l, kind) PROVE PageInv'
  BY <1>3, TextInv
<1>4. ASSUME NEW l \in Labels, AskHuman(l) \/ Answered(l) \/ ColumnError(l) \/ CopyTranscript(l)
      PROVE  PageInv'
  BY <1>4, AskHumanInv, AnsweredInv, ColumnErrorInv, CopyTranscriptInv
<1>5. ASSUME NEW l \in Labels, NEW ok \in BOOLEAN, Complete(l, ok) PROVE PageInv'
  BY <1>5, CompleteInv
<1>6. ASSUME NEW thrown \in BOOLEAN, StreamEnds(thrown) PROVE PageInv'
  BY <1>6, StreamEndsInv
<1>7. CASE SystemError \/ Report \/ Stop \/ CommitTurn \/ Clear
  BY <1>7, SystemErrorInv, ReportInv, StopInv, CommitTurnInv, ClearInv
<1>8. CASE UNCHANGED pageVars
  <2>1. UNCHANGED <<running, pendingTurn, newest, expected, turnOf, streaming, torn, settled,
                    column, transcript, asks, report, begun, fate>>
    BY <1>8 DEF pageVars
  <2>2. PageShape' /\ RunsInTurn'
    BY <2>1 DEF PageInv, PageShape, RunsInTurn
  <2> QED
    BY <2>1, <2>2, ShownStays, PairsStay, PageParts
<1> QED
  BY <1>1, <1>2, <1>3, <1>4, <1>5, <1>6, <1>7, <1>8 DEF PageNext

LEMMA PageInvTells == PageInv => PageTypeOK /\ PageTellsHistory
<1> SUFFICES ASSUME PageInv PROVE PageTypeOK /\ PageTellsHistory
  OBVIOUS
<1>1. PageShape /\ RunsInTurn /\ \A l \in Labels : ShowsTurn(l) /\ PairsAreTold(l)
  BY DEF PageInv
<1>2. PageTypeOK
  <2>1. {running, streaming} \subseteq BOOLEAN
    BY <1>1, Zenon DEF PageShape
  <2>2. /\ {pendingTurn, newest, report} \subseteq 0..MaxRuns /\ torn \subseteq 1..MaxRuns
        /\ {settled, begun} \subseteq SUBSET expected /\ {expected, asks} \subseteq SUBSET Labels
        /\ turnOf \in [Labels -> 1..MaxPairs + 1]
    BY <1>1 DEF PageShape
  <2>3. ASSUME NEW l \in Labels
        PROVE  /\ Len(transcript[l]) <= MaxPairs /\ column[l].metrics \in {"none", "ok", "failed"}
               /\ column[l].error \in 0..MaxRuns
    <3>1. column[l] \in ShownRecord /\ Len(transcript[l]) <= MaxPairs
      BY <1>1 DEF PageShape
    <3> QED
      BY <3>1 DEF ShownRecord
  <2>4. fate \in [1..MaxRuns -> {"open", "clean", "failed", "stopped"}]
    BY <1>1 DEF PageShape, Fates
  <2> QED
    BY <2>1, <2>2, <2>3, <2>4 DEF PageTypeOK
<1>3. TranscriptTellsTurns
  BY <1>1 DEF TranscriptTellsTurns, PairsAreTold
<1>4. TraceIsOfOneRun
  BY <1>1 DEF TraceIsOfOneRun, ShowsTurn
<1>5. PageShowsNewestRun
  <2>1. running = (streaming /\ settled # expected)
    BY <1>1, Zenon DEF RunsInTurn, PageShape
  <2> QED
    BY <1>1, <2>1 DEF PageShowsNewestRun, RunsInTurn, AtRest
<1> QED
  BY <1>2, <1>3, <1>4, <1>5 DEF PageTellsHistory

\* Through stops, failures, torn streams, copied and cleared transcripts, the page
\* commits each turn once, in order, under its own answer and only if it ran to its
\* end; shows one run under one turn number; and shows as running what runs: for any
\* columns, selections and length of a transcript.
THEOREM PageKeepsHistory == PageSpec => [](PageTypeOK /\ PageTellsHistory)
<1> QED
  BY PageInitInv, PageNextInv, PageInvTells, PTL DEF PageSpec

-----------------------------------------------------------------------------
(* The timeline of a column (TraceFlow), for any bounds.                     *)

\* A tool node has a tool left to run, and a driver that translates has an event.
GraphRecord == [at : {"idle", "model", "tools", "done"}, call : 0..MaxCalls, thought : BOOLEAN,
                chunks : 0..MaxChunks, streams : BOOLEAN, tools : 0..MaxTools, running : BOOLEAN]
DriverRecord == [step : Nat, streaming : Nat, thinking : Nat, pending : Nat,
                 at : {"pulls", "translates"}]
ModelEvent == [type : {"start", "thinking", "text", "end"}, step : {0}, text : Seq(Nat \X Nat)]

GraphFits == /\ graph \in GraphRecord /\ (graph.running => graph.at = "tools")
             /\ (graph.at = "tools" => graph.tools > 0)
InStep(d) == d \in DriverRecord /\ d.streaming <= d.step /\ d.thinking <= d.step /\ d.pending <= d.step
TraceInv ==
  /\ GraphFits /\ InStep(driver) /\ stream \in Seq(ModelEvent)
  /\ driver.at = "translates" => stream # <<>>
  /\ over \in {"no", "finished", "failed", "aborted"} /\ overtaken \in BOOLEAN

LEMMA TraceInvTells == TraceInv => TraceTypeOK
  BY DEF TraceInv, GraphFits, GraphRecord, InStep, DriverRecord, TraceTypeOK

LEMMA TraceInitInv == TraceInit => TraceInv
<1> SUFFICES ASSUME TraceInit PROVE TraceInv
  OBVIOUS
<1>1. GraphFits
  <2>1. 0 \in 0..MaxCalls /\ 0 \in 0..MaxChunks /\ 0 \in 0..MaxTools
    BY TraceAssumption
  <2> QED
    BY <2>1 DEF TraceInit, GraphFits, GraphRecord
<1>2. InStep(driver) /\ driver.at = "pulls"
  BY DEF TraceInit, InStep, DriverRecord
<1>3. stream \in Seq(ModelEvent) /\ over = "no"
  BY DEF TraceInit
<1>4. overtaken \in BOOLEAN
  BY Zenon DEF TraceInit
<1> QED
  BY <1>1, <1>2, <1>3, <1>4 DEF TraceInv

\* Two records by their fields.
LEMMA DriverOf ==
  ASSUME NEW s \in Nat, NEW a \in 0..s, NEW b \in 0..s, NEW c \in 0..s,
         NEW at, at = "pulls" \/ at = "translates"
  PROVE  InStep([step |-> s, streaming |-> a, thinking |-> b, pending |-> c, at |-> at])
  BY DEF InStep, DriverRecord

LEMMA DriverFields ==
  ASSUME NEW d, InStep(d)
  PROVE  /\ d = [step |-> d.step, streaming |-> d.streaming, thinking |-> d.thinking,
                 pending |-> d.pending, at |-> d.at]
         /\ d.step \in Nat /\ d.streaming \in 0..d.step /\ d.thinking \in 0..d.step
         /\ d.pending \in 0..d.step /\ (d.at = "pulls" \/ d.at = "translates")
  BY DEF InStep, DriverRecord

\* The events that the graph writes.
LEMMA WritesEvents ==
  ASSUME TraceInv
  PROVE  /\ TraceEvent("start", 0, <<>>) \in ModelEvent
         /\ \A k \in Nat : TraceEvent("text", 0, <<Chunk(graph.call, k)>>) \in ModelEvent
         /\ TraceEvent("thinking", 0, <<Chunk(graph.call, 0)>>) \in ModelEvent
         /\ TraceEvent("end", 0, Output(graph)) \in ModelEvent
<1>1. graph.call \in Nat /\ graph.chunks \in Nat
  BY TraceAssumption DEF TraceInv, GraphFits, GraphRecord
<1>2. <<>> \in Seq(Nat \X Nat)
  OBVIOUS
<1>3. ASSUME NEW k \in Nat PROVE <<Chunk(graph.call, k)>> \in Seq(Nat \X Nat)
  <2>1. Chunk(graph.call, k) \in Nat \X Nat
    BY <1>1 DEF Chunk
  <2> HIDE DEF Chunk
  <2> QED
    BY <2>1
<1>4. Output(graph) \in Seq(Nat \X Nat)
  <2>1. \A k \in 1..graph.chunks : Chunk(graph.call, k) \in Nat \X Nat
    BY <1>1 DEF Chunk
  <2>2. Output(graph) \in [1..graph.chunks -> Nat \X Nat]
    BY <2>1 DEF Output
  <2> QED
    BY <1>1, <2>2, SeqDef
<1> QED
  BY <1>2, <1>3, <1>4 DEF TraceEvent, ModelEvent

LEMMA WritesFits ==
  ASSUME TraceInv, NEW e \in ModelEvent, Writes(e)
  PROVE  stream' \in Seq(ModelEvent) /\ stream' # <<>>
  BY DEF Writes, TraceInv

\* The graph writes and leaves the driver alone.
LEMMA ModelSteps ==
  ASSUME TraceInv,
         \/ \E streams \in BOOLEAN : ModelStarts(streams)
         \/ ModelSays \/ ModelThinks
         \/ \E tools \in 0..MaxTools : ModelEnds(tools)
  PROVE  TraceInv'
<1>1. /\ driver' = driver /\ over' = over /\ overtaken' = overtaken
  BY DEF ModelStarts, ModelSays, ModelThinks, ModelEnds
<1>2. stream' \in Seq(ModelEvent) /\ (stream # <<>> => stream' # <<>>)
  <2>1. CASE \E streams \in BOOLEAN : ModelStarts(streams)
    BY <2>1, WritesEvents, WritesFits DEF ModelStarts
  <2>2. CASE ModelSays
    <3>1. graph.chunks + 1 \in Nat
      BY TraceAssumption DEF TraceInv, GraphFits, GraphRecord
    <3> QED
      BY <2>2, <3>1, WritesEvents, WritesFits DEF ModelSays, TraceInv
  <2>3. CASE ModelThinks
    BY <2>3, WritesEvents, WritesFits DEF ModelThinks
  <2>4. CASE \E tools \in 0..MaxTools : ModelEnds(tools)
    BY <2>4, WritesEvents, WritesFits DEF ModelEnds
  <2> QED
    BY <2>1, <2>2, <2>3, <2>4
<1>3. GraphFits'
  <2> USE TraceAssumption DEF TraceInv, GraphFits, GraphRecord
  <2>1. CASE \E streams \in BOOLEAN : ModelStarts(streams)
    <3>1. PICK streams \in BOOLEAN : ModelStarts(streams)
      BY <2>1
    <3>2. /\ graph' = [at |-> "model", call |-> graph.call + 1, thought |-> FALSE, chunks |-> 0,
                       streams |-> streams, tools |-> graph.tools, running |-> graph.running]
          /\ graph.at = "idle" /\ graph.call < MaxCalls
      BY <3>1 DEF ModelStarts
    <3>3. graph.call + 1 \in 0..MaxCalls /\ 0 \in 0..MaxChunks
      BY <3>2
    <3> QED
      BY <3>2, <3>3
  <2>2. CASE ModelSays
    BY <2>2 DEF ModelSays
  <2>3. CASE ModelThinks
    BY <2>3 DEF ModelThinks
  <2>4. CASE \E tools \in 0..MaxTools : ModelEnds(tools)
    <3>1. PICK tools \in 0..MaxTools : ModelEnds(tools)
      BY <2>4
    <3>2. PICK at \in IF tools > 0 THEN {"tools"} ELSE {"idle", "done"} :
            graph' = [graph EXCEPT !.at = at, !.tools = tools]
      BY <3>1 DEF ModelEnds
    <3>3. graph' = [at |-> at, call |-> graph.call, thought |-> graph.thought,
                    chunks |-> graph.chunks, streams |-> graph.streams, tools |-> tools,
                    running |-> graph.running]
      BY <3>2
    <3>4. at \in {"idle", "tools", "done"} /\ (at = "tools" => tools > 0)
      BY <3>2
    <3>5. ~graph.running
      BY <3>1 DEF ModelEnds
    <3> QED
      BY <3>3, <3>4, <3>5
  <2> QED
    BY <2>1, <2>2, <2>3, <2>4
<1>4. InStep(driver)'
  BY <1>1 DEF TraceInv, InStep
<1> QED
  BY <1>1, <1>2, <1>3, <1>4 DEF TraceInv

\* A tool of the graph starts, ends or is refused.
LEMMA ToolSteps ==
  ASSUME TraceInv, ToolStarts \/ (\E progress \in BOOLEAN : ToolEnds(progress)) \/ ToolIsRefused
  PROVE  TraceInv'
<1>1. stream' = stream /\ over' = over /\ overtaken' \in BOOLEAN
  BY DEF ToolStarts, ToolEnds, ToolIsRefused, TraceInv
<1>2. GraphFits'
  <2> USE TraceAssumption DEF TraceInv, GraphFits, GraphRecord
  <2>1. CASE ToolStarts
    BY <2>1 DEF ToolStarts
  <2>2. CASE (\E progress \in BOOLEAN : ToolEnds(progress)) \/ ToolIsRefused
    <3>1. PICK running1 \in BOOLEAN :
            graph' = [at |-> IF graph.tools = 1 THEN "idle" ELSE "tools", call |-> graph.call,
                      thought |-> graph.thought, chunks |-> graph.chunks,
                      streams |-> graph.streams, tools |-> graph.tools - 1, running |-> running1]
            /\ ~running1
      <4>1. CASE \E progress \in BOOLEAN : ToolEnds(progress)
        BY <4>1 DEF ToolEnds
      <4>2. CASE ToolIsRefused
        BY <4>2 DEF ToolIsRefused
      <4> QED
        BY <2>2, <4>1, <4>2
    <3>2. graph.tools > 0
      BY <2>2 DEF ToolEnds, ToolIsRefused
    <3>3. graph.tools - 1 \in 0..MaxTools /\ (graph.tools # 1 => graph.tools - 1 > 0)
      BY <3>2
    <3> QED
      BY <3>1, <3>2, <3>3
  <2> QED
    BY <2>1, <2>2
<1>3. InStep(driver)' /\ driver'.at = driver.at
  <2>1. CASE driver' = [ThoughtClosed(driver) EXCEPT !.step = @ + 1]
    <3>1. PICK d : d = driver
      OBVIOUS
    <3>2. InStep(d)
      BY <3>1 DEF TraceInv
    <3>3. /\ d = [step |-> d.step, streaming |-> d.streaming, thinking |-> d.thinking,
                  pending |-> d.pending, at |-> d.at]
          /\ d.step \in Nat /\ d.streaming \in 0..d.step /\ d.thinking \in 0..d.step
          /\ d.pending \in 0..d.step /\ (d.at = "pulls" \/ d.at = "translates")
      BY <3>2, DriverFields
    <3>4. /\ d.step + 1 \in Nat /\ d.streaming \in 0..d.step + 1 /\ d.thinking \in 0..d.step + 1
          /\ d.pending \in 0..d.step + 1 /\ 0 \in 0..d.step + 1
      BY <3>3
    <3>5. CASE d.streaming # 0
      <4>1. driver' = [step |-> d.step + 1, streaming |-> 0, thinking |-> 0,
                       pending |-> d.pending, at |-> d.at]
        BY <2>1, <3>1, <3>3, <3>5 DEF ThoughtClosed
      <4>2. PICK h : h = [step |-> d.step + 1, streaming |-> 0, thinking |-> 0,
                          pending |-> d.pending, at |-> d.at]
        OBVIOUS
      <4>3. InStep(h) /\ h.at = d.at
        BY <3>3, <3>4, <4>2, DriverOf
      <4> QED
        BY <3>1, <4>1, <4>2, <4>3 DEF InStep
    <3>6. CASE d.streaming = 0
      <4>1. driver' = [step |-> d.step + 1, streaming |-> d.streaming, thinking |-> d.thinking,
                       pending |-> d.pending, at |-> d.at]
        BY <2>1, <3>1, <3>3, <3>6 DEF ThoughtClosed
      <4>2. PICK h : h = [step |-> d.step + 1, streaming |-> d.streaming, thinking |-> d.thinking,
                          pending |-> d.pending, at |-> d.at]
        OBVIOUS
      <4>3. InStep(h) /\ h.at = d.at
        BY <3>3, <3>4, <4>2, DriverOf
      <4> QED
        BY <3>1, <4>1, <4>2, <4>3 DEF InStep
    <3> QED
      BY <3>5, <3>6
  <2>2. CASE driver' = driver
    BY <2>2 DEF TraceInv, InStep
  <2> QED
    BY <2>1, <2>2 DEF ToolStarts, ToolEnds, ToolIsRefused
<1> QED
  BY <1>1, <1>2, <1>3 DEF TraceInv

\* What a translation leaves of the RunState is in step.
LEMMA AfterInStep ==
  ASSUME NEW d, InStep(d), NEW e \in ModelEvent
  PROVE  InStep(After(d, e))
<1> DEFINE type == e.type
<1>1. type \in {"start", "thinking", "text", "end"}
  BY DEF ModelEvent
<1>2. /\ d = [step |-> d.step, streaming |-> d.streaming, thinking |-> d.thinking,
              pending |-> d.pending, at |-> d.at]
      /\ d.step \in Nat /\ d.streaming \in 0..d.step /\ d.thinking \in 0..d.step
      /\ d.pending \in 0..d.step /\ (d.at = "pulls" \/ d.at = "translates")
  BY DriverFields
<1>3. CASE type = "start"
  <2>1. After(d, e) = [step |-> d.step + 1, streaming |-> 0, thinking |-> 0,
                       pending |-> d.step + 1, at |-> d.at]
    BY <1>2, <1>3 DEF After
  <2>2. d.step + 1 \in Nat /\ 0 \in 0..d.step + 1 /\ d.step + 1 \in 0..d.step + 1
    BY <1>2
  <2> QED
    BY <1>2, <2>1, <2>2, DriverOf
<1>4. CASE type = "thinking"
  <2>1. PICK n : n = ThoughtStep(d)
    OBVIOUS
  <2>2. After(d, e) = [step |-> Reached(d, n), streaming |-> d.streaming, thinking |-> n,
                       pending |-> d.pending, at |-> d.at]
    BY <1>2, <1>4, <2>1 DEF After
  <2>3. n \in Nat
    BY <1>2, <2>1 DEF ThoughtStep, Announced
  <2>4. /\ Reached(d, n) \in Nat /\ n \in 0..Reached(d, n)
        /\ d.streaming \in 0..Reached(d, n) /\ d.pending \in 0..Reached(d, n)
    BY <1>2, <2>3 DEF Reached
  <2> QED
    BY <1>2, <2>2, <2>4, DriverOf
<1>5. CASE type = "text"
  <2>1. PICK n : n = TextStep(d)
    OBVIOUS
  <2>2. After(d, e) = [step |-> Reached(d, n), streaming |-> n, thinking |-> d.thinking,
                       pending |-> d.pending, at |-> d.at]
    BY <1>2, <1>5, <2>1 DEF After
  <2>3. n \in Nat
    BY <1>2, <2>1 DEF TextStep, Announced
  <2>4. /\ Reached(d, n) \in Nat /\ n \in 0..Reached(d, n)
        /\ d.thinking \in 0..Reached(d, n) /\ d.pending \in 0..Reached(d, n)
    BY <1>2, <2>3 DEF Reached
  <2> QED
    BY <1>2, <2>2, <2>4, DriverOf
<1>6. CASE type = "end"
  <2>1. After(d, e) = [step |-> d.step, streaming |-> 0, thinking |-> 0, pending |-> 0, at |-> d.at]
    BY <1>2, <1>6 DEF After
  <2>2. 0 \in 0..d.step
    BY <1>2
  <2> QED
    BY <1>2, <2>1, <2>2, DriverOf
<1> QED
  BY <1>1, <1>3, <1>4, <1>5, <1>6

\* drainGraphStream.
LEMMA DrainSteps ==
  ASSUME TraceInv, Splice \/ Translate \/ Finish \/ Fails \/ Aborts
  PROVE  TraceInv'
<1>1. graph' = graph /\ overtaken' = overtaken /\ over' \in {"no", "finished", "failed", "aborted"}
  BY DEF Splice, Translate, Finish, Fails, Aborts, TraceInv
<1>2. GraphFits'
  BY <1>1 DEF TraceInv, GraphFits
<1>3. CASE Splice
  <2>1. /\ driver' = [driver EXCEPT !.at = IF stream # <<>> THEN "translates" ELSE "pulls"]
        /\ stream' = stream
    BY <1>3 DEF Splice
  <2>2. InStep(driver)' /\ (driver'.at = "translates" => stream # <<>>)
    BY <2>1 DEF TraceInv, InStep, DriverRecord
  <2> QED
    BY <1>1, <1>2, <2>1, <2>2 DEF TraceInv
<1>4. CASE Translate
  <2>1. stream # <<>> /\ stream \in Seq(ModelEvent)
    BY <1>4 DEF Translate, TraceInv
  <2>2. Head(stream) \in ModelEvent /\ Tail(stream) \in Seq(ModelEvent)
    BY <2>1
  <2>3. PICK d : d = After(driver, Head(stream))
    OBVIOUS
  <2>4. InStep(d)
    BY <2>2, <2>3, AfterInStep DEF TraceInv
  <2>5. driver' = [d EXCEPT !.at = "pulls"] /\ stream' = Tail(stream)
    BY <1>4, <2>3 DEF Translate
  <2>6. InStep(driver)' /\ driver'.at = "pulls"
    BY <2>4, <2>5 DEF InStep, DriverRecord
  <2> QED
    BY <1>1, <1>2, <2>2, <2>5, <2>6 DEF TraceInv
<1>5. CASE Finish \/ Fails \/ Aborts
  <2>1. driver' = driver /\ stream' = stream
    BY <1>5 DEF Finish, Fails, Aborts
  <2>2. InStep(driver)'
    BY <2>1 DEF TraceInv, InStep
  <2> QED
    BY <1>1, <1>2, <2>1, <2>2 DEF TraceInv
<1> QED
  BY <1>3, <1>4, <1>5

LEMMA TraceNextInv == TraceInv /\ [TraceNext]_traceVars => TraceInv'
<1> SUFFICES ASSUME TraceInv, [TraceNext]_traceVars PROVE TraceInv'
  OBVIOUS
<1>1. CASE TraceNext
  BY <1>1, ModelSteps, ToolSteps, DrainSteps DEF TraceNext
<1>2. CASE UNCHANGED traceVars
  BY <1>2 DEF traceVars, TraceInv, GraphFits, InStep
<1> QED
  BY <1>1, <1>2

-----------------------------------------------------------------------------
(* The three together.                                                     *)

ArenaInv == /\ subject \in {"run", "page", "timeline"}
            /\ Inv /\ AllSpeak /\ AllClose /\ PageInv /\ TraceInv

\* A step moves one of the three and leaves the others alone.
LEMMA ArenaNextInv == ArenaInv /\ [ArenaNext]_arenaVars => ArenaInv'
<1> SUFFICES ASSUME ArenaInv, [ArenaNext]_arenaVars PROVE ArenaInv'
  OBVIOUS
<1>1. subject' = subject
  BY DEF ArenaNext, RunStep, PageStep, TimelineStep, Run, Page, Timeline, arenaVars
<1>2. [Next]_vars /\ [PageNext]_pageVars /\ [TraceNext]_traceVars
  BY DEF ArenaNext, RunStep, PageStep, TimelineStep, Run, Page, Timeline, arenaVars
<1>3. Inv' /\ AllSpeak' /\ AllClose'
  BY <1>2, NextInv, StutterInv, NextSpeaks, StutterSpeaks, NextCloses, StutterCloses DEF ArenaInv
<1>4. PageInv' /\ TraceInv'
  BY <1>2, PageNextInv, TraceNextInv DEF ArenaInv
<1> QED
  BY <1>1, <1>3, <1>4 DEF ArenaInv

\* Whichever of the three moves: all stay in their types, the slots of the server are
\* conserved and its drain loop leaves nothing behind, and what a column's terminal event
\* and the page's turns, columns and questions say is true, for all their constants.
THEOREM ArenaIsSafe ==
  ArenaSpec => [](/\ ArenaTypeOK /\ SlotsConserved /\ NothingLeftBehind
                  /\ subject # "timeline" => RunsToldAndShown)
<1>1. ArenaInit => ArenaInv
  BY InitInv, InitSpeaks, InitCloses, PageInitInv, TraceInitInv DEF ArenaInit, ArenaInv
<1>2. ArenaInv => /\ ArenaTypeOK /\ SlotsConserved /\ NothingLeftBehind
                  /\ subject # "timeline" => RunsToldAndShown
  <2> SUFFICES ASSUME ArenaInv
               PROVE  /\ ArenaTypeOK /\ SlotsConserved /\ NothingLeftBehind
                      /\ subject # "timeline" => RunsToldAndShown
    OBVIOUS
  <2>1. TypeOK /\ SlotsConserved /\ NothingLeftBehind /\ TerminalsTold
    BY InvTells, TerminalsFollow DEF ArenaInv
  <2>2. PageTypeOK /\ PageTellsHistory /\ TraceTypeOK
    BY PageInvTells, TraceInvTells DEF ArenaInv
  <2> QED
    BY <2>1, <2>2 DEF ArenaInv, ArenaTypeOK, RunsToldAndShown
<1> QED
  BY <1>1, <1>2, ArenaNextInv, PTL DEF ArenaSpec
=============================================================================
