---------------------------- MODULE ContextProofs ----------------------------
(***************************************************************************)
(* The pipeline that cuts a transcript to size: what the drivers put into a *)
(* transcript, and that whatever a strategy leaves of it is a transcript     *)
(* that a provider accepts and that tells of its losses.                     *)
(***************************************************************************)
EXTENDS ContextPipeline, SequenceTheorems, FiniteSetTheorems, TLAPS

Shared == INSTANCE SharedLemmas

-----------------------------------------------------------------------------
(* Recursive functions, the selection of messages and their weight.        *)

\* f answers a recursion up to len: step gives a value from its predecessor.
Solves(f, len, S, base, step) ==
  /\ f \in [0 .. len -> S] /\ f[0] = base
  /\ \A n \in 1 .. len : f[n] = step[<<n, f[n - 1]>>]

\* A recursion over a prefix of the natural numbers, with its step given as a function, has
\* a solution.
LEMMA Recursion ==
  ASSUME NEW len \in Nat, NEW S, NEW base \in S, NEW step \in [(1 .. len) \X S -> S]
  PROVE  \E f : Solves(f, len, S, base, step)
<1> DEFINE Reached(m, f) == Solves(f, m, S, base, step)
           Reach == {m \in Nat : m <= len => \E f : Reached(m, f)}
<1> USE DEF Solves
<1>1. 0 \in Reach
  <2>1. Reached(0, [n \in 0 .. 0 |-> base])
    OBVIOUS
  <2> QED
    BY <2>1
<1>2. ASSUME NEW m \in Nat, m \in Reach PROVE m + 1 \in Reach
  <2> SUFFICES ASSUME m + 1 <= len PROVE \E f : Reached(m + 1, f)
    OBVIOUS
  <2>1. PICK f : Reached(m, f)
    BY <1>2
  <2> DEFINE v == step[<<m + 1, f[m]>>]
             g == [n \in 0 .. m + 1 |-> IF n = m + 1 THEN v ELSE f[n]]
  <2>2. v \in S
    <3>1. m + 1 \in 1 .. len /\ f[m] \in S
      BY <2>1
    <3> QED
      BY <3>1
  <2>3. g \in [0 .. m + 1 -> S] /\ g[0] = base /\ g[m + 1] = v /\ \A n \in 0 .. m : g[n] = f[n]
    BY <2>1, <2>2
  <2> HIDE DEF g
  <2>4. ASSUME NEW n \in 1 .. m + 1 PROVE g[n] = step[<<n, g[n - 1]>>]
    <3>1. CASE n = m + 1
      BY <2>3, <3>1
    <3>2. CASE n # m + 1
      <4>1. n \in 1 .. m /\ n \in 0 .. m /\ n - 1 \in 0 .. m
        BY <3>2
      <4> QED
        BY <2>1, <2>3, <4>1
    <3> QED
      BY <3>1, <3>2
  <2> QED
    BY <2>3, <2>4
<1> HIDE DEF Reach, Solves
<1>3. len \in Reach
  BY <1>1, <1>2, Shared!SetInduction
<1> QED
  BY <1>3 DEF Reach

\* How a selection grows.
LEMMA ChosenSteps ==
  ASSUME NEW S, NEW s \in Seq(S), NEW places
  PROVE  \E u \in [0 .. Len(s) -> Seq(S)] :
           /\ u[0] = <<>> /\ Chosen(s, places) = u[Len(s)]
           /\ \A n \in 1 .. Len(s) :
                u[n] = IF n \in places THEN Append(u[n - 1], s[n]) ELSE u[n - 1]
<1> DEFINE len == Len(s)
           step == [p \in (1 .. len) \X Seq(S) |->
                      IF p[1] \in places THEN Append(p[2], s[p[1]]) ELSE p[2]]
           Is(u) == u = [n \in 0 .. len |->
                           IF n = 0 THEN <<>>
                           ELSE IF n \in places THEN Append(u[n - 1], s[n]) ELSE u[n - 1]]
<1>1. len \in Nat /\ <<>> \in Seq(S) /\ \A n \in 1 .. len : s[n] \in S
  OBVIOUS
<1>2. step \in [(1 .. len) \X Seq(S) -> Seq(S)]
  BY <1>1
<1>3. \A n \in 1 .. len, v \in Seq(S) :
        step[<<n, v>>] = IF n \in places THEN Append(v, s[n]) ELSE v
  OBVIOUS
<1> HIDE DEF step, len
<1>4. PICK f \in [0 .. len -> Seq(S)] :
        f[0] = <<>> /\ \A n \in 1 .. len : f[n] = step[<<n, f[n - 1]>>]
  <2> DEFINE T == Seq(S)
             e == <<>>
  <2>1. e \in T /\ step \in [(1 .. len) \X T -> T]
    BY <1>1, <1>2
  <2> HIDE DEF T, e
  <2>2. \E f : Solves(f, len, T, e, step)
    BY <1>1, <2>1, Recursion
  <2> QED
    BY <2>2 DEF Solves, T, e
<1>5. \A n \in 1 .. len : f[n] = IF n \in places THEN Append(f[n - 1], s[n]) ELSE f[n - 1]
  <2> SUFFICES ASSUME NEW n \in 1 .. len
               PROVE  f[n] = IF n \in places THEN Append(f[n - 1], s[n]) ELSE f[n - 1]
    OBVIOUS
  <2>1. n - 1 \in 0 .. len
    BY <1>1
  <2> QED
    BY <1>3, <1>4, <2>1
<1>6. Is(f)
  <2>1. \A n \in 0 .. len : f[n] = IF n = 0 THEN <<>>
                                 ELSE IF n \in places THEN Append(f[n - 1], s[n]) ELSE f[n - 1]
    <3>1. \A n \in 0 .. len : n = 0 \/ n \in 1 .. len
      BY <1>1
    <3> QED
      BY <1>4, <1>5, <3>1
  <2>2. f = [n \in 0 .. len |-> f[n]]
    OBVIOUS
  <2> QED
    BY <2>1, <2>2
<1> DEFINE u == CHOOSE u : Is(u)
<1>7. Is(u)
  BY <1>6
<1>8. Chosen(s, places) = u[len]
  BY DEF Chosen, len
<1> HIDE DEF u
<1>9. /\ u[0] = <<>> /\ DOMAIN u = 0 .. len
      /\ \A n \in 1 .. len : u[n] = IF n \in places THEN Append(u[n - 1], s[n]) ELSE u[n - 1]
  <2>1. \A n \in 0 .. len : u[n] = IF n = 0 THEN <<>>
                                 ELSE IF n \in places THEN Append(u[n - 1], s[n]) ELSE u[n - 1]
    BY <1>7
  <2>2. DOMAIN u = 0 .. len
    BY <1>7
  <2> HIDE DEF Is
  <2>3. \A n \in 1 .. len : n \in 0 .. len /\ n # 0
    BY <1>1
  <2>4. 0 \in 0 .. len
    BY <1>1
  <2> QED
    BY <2>1, <2>2, <2>3, <2>4
<1>10. u = [n \in 0 .. len |-> u[n]]
  BY <1>7
<1> HIDE DEF Is
<1> DEFINE Typed == {n \in Nat : n <= len => u[n] \in Seq(S)}
<1>11. 0 \in Typed
  BY <1>1, <1>9
<1>12. ASSUME NEW n \in Nat, n \in Typed PROVE n + 1 \in Typed
  <2> SUFFICES ASSUME n + 1 <= len PROVE u[n + 1] \in Seq(S)
    OBVIOUS
  <2>1. n + 1 \in 1 .. len /\ u[n] \in Seq(S) /\ (n + 1) - 1 = n /\ s[n + 1] \in S
    BY <1>1, <1>12
  <2>2. u[n + 1] = IF n + 1 \in places THEN Append(u[n], s[n + 1]) ELSE u[n]
    BY <1>9, <2>1
  <2>3. Append(u[n], s[n + 1]) \in Seq(S)
    BY <2>1
  <2> QED
    BY <2>1, <2>2, <2>3
<1> HIDE DEF Typed
<1>13. \A n \in Nat : n \in Typed
  BY <1>11, <1>12, Shared!SetInduction
<1>14. u \in [0 .. len -> Seq(S)]
  BY <1>1, <1>10, <1>13 DEF Typed
<1> QED
  BY <1>8, <1>9, <1>14 DEF len

\* f says where r, the selection of these places, takes its messages from.
Selects(f, s, places, r) ==
  /\ f \in [1 .. Len(r) -> places]
  /\ \A k \in 1 .. Len(r) : r[k] = s[f[k]]
  /\ \A j, k \in 1 .. Len(r) : j < k => f[j] < f[k]
  /\ \A i \in places : \E k \in 1 .. Len(r) : f[k] = i

\* A selection takes exactly the messages at its places, in their order.
LEMMA ChosenIs ==
  ASSUME NEW S, NEW s \in Seq(S), NEW places \in SUBSET (1 .. Len(s))
  PROVE  /\ Chosen(s, places) \in Seq(S)
         /\ \E f : Selects(f, s, places, Chosen(s, places))
<1> DEFINE len == Len(s)
           Maps(v, n, f) ==
             /\ f \in [1 .. Len(v) -> places \cap (1 .. n)]
             /\ \A k \in 1 .. Len(v) : v[k] = s[f[k]]
             /\ \A j, k \in 1 .. Len(v) : j < k => f[j] < f[k]
             /\ \A i \in places \cap (1 .. n) : \E k \in 1 .. Len(v) : f[k] = i
<1>1. PICK u \in [0 .. len -> Seq(S)] :
        /\ u[0] = <<>> /\ Chosen(s, places) = u[len]
        /\ \A n \in 1 .. len : u[n] = IF n \in places THEN Append(u[n - 1], s[n]) ELSE u[n - 1]
  BY ChosenSteps
<1>2. len \in Nat /\ \A n \in 1 .. len : s[n] \in S
  OBVIOUS
<1> HIDE DEF len
<1> DEFINE Good == {n \in Nat : n <= len => \E f : Maps(u[n], n, f)}
<1>3. 0 \in Good
  <2>1. Len(u[0]) = 0 /\ 1 .. 0 = {}
    BY <1>1
  <2>2. Maps(u[0], 0, [k \in {} |-> 0])
    BY <2>1
  <2> QED
    BY <2>2
<1>4. ASSUME NEW n \in Nat, n \in Good PROVE n + 1 \in Good
  <2> HIDE DEF Maps
  <2> SUFFICES ASSUME n + 1 <= len PROVE \E f : Maps(u[n + 1], n + 1, f)
    BY DEF Good
  <2> USE DEF Maps
  <2>1. PICK f : Maps(u[n], n, f)
    <3>1. n <= len
      BY <1>2
    <3> QED
      BY <1>4, <3>1 DEF Good
  <2>2. /\ n + 1 \in 1 .. len /\ (n + 1) - 1 = n /\ n \in 0 .. len /\ n + 1 \in 0 .. len
        /\ u[n] \in Seq(S) /\ s[n + 1] \in S /\ Len(u[n]) \in Nat
    BY <1>1, <1>2
  <2>3. u[n + 1] = IF n + 1 \in places THEN Append(u[n], s[n + 1]) ELSE u[n]
    BY <1>1, <2>2
  <2> DEFINE v == u[n]
             w == u[n + 1]
             l == Len(v)
  <2>4. CASE n + 1 \notin places
    <3>1. places \cap (1 .. n + 1) = places \cap (1 .. n)
      <4>1. \A i \in 1 .. n + 1 : i \in 1 .. n \/ i = n + 1
        OBVIOUS
      <4> QED
        BY <2>4, <4>1
    <3>2. u[n + 1] = u[n]
      BY <2>3, <2>4
    <3>3. Maps(u[n], n + 1, f)
      BY <2>1, <3>1
    <3> HIDE DEF Maps
    <3> QED
      BY <3>2, <3>3
  <2>5. CASE n + 1 \in places
    <3> DEFINE g == [k \in 1 .. l + 1 |-> IF k = l + 1 THEN n + 1 ELSE f[k]]
    <3>1. /\ Len(w) = l + 1 /\ w[l + 1] = s[n + 1] /\ \A k \in 1 .. l : w[k] = v[k]
      BY <2>2, <2>3, <2>5
    <3>2. l \in Nat
      BY <2>2
    <3> HIDE DEF v, w, l
    <3>3. /\ f \in [1 .. l -> places \cap (1 .. n)]
          /\ \A k \in 1 .. l : v[k] = s[f[k]]
          /\ \A j, k \in 1 .. l : j < k => f[j] < f[k]
          /\ \A i \in places \cap (1 .. n) : \E k \in 1 .. l : f[k] = i
      BY <2>1 DEF l, v
    <3>4. g[l + 1] = n + 1 /\ \A k \in 1 .. l : g[k] = f[k]
      BY <3>2
    <3>5. g \in [1 .. l + 1 -> places \cap (1 .. n + 1)]
      <4>1. \A k \in 1 .. l : f[k] \in places \cap (1 .. n + 1)
        BY <3>3
      <4>2. n + 1 \in places \cap (1 .. n + 1)
        BY <2>5
      <4> QED
        BY <3>2, <4>1, <4>2
    <3> HIDE DEF g
    <3>6. \A k \in 1 .. l + 1 : k \in 1 .. l \/ k = l + 1
      BY <3>2
    <3>7. \A k \in 1 .. l + 1 : w[k] = s[g[k]]
      BY <3>1, <3>3, <3>4, <3>6
    <3>8. ASSUME NEW j \in 1 .. l + 1, NEW k \in 1 .. l + 1, j < k PROVE g[j] < g[k]
      <4>1. j \in 1 .. l /\ g[j] = f[j] /\ f[j] \in 1 .. n
        BY <3>2, <3>3, <3>4, <3>8
      <4> QED
        BY <3>3, <3>4, <3>6, <3>8, <4>1
    <3>9. ASSUME NEW i \in places \cap (1 .. n + 1) PROVE \E k \in 1 .. l + 1 : g[k] = i
      <4>1. CASE i = n + 1
        BY <3>2, <3>4, <4>1
      <4>2. CASE i # n + 1
        <5>1. i \in places \cap (1 .. n)
          BY <4>2
        <5>2. PICK k \in 1 .. l : f[k] = i
          BY <3>3, <5>1
        <5> QED
          BY <3>2, <3>4, <5>2
      <4> QED
        BY <4>1, <4>2
    <3>10. Maps(w, n + 1, g)
      BY <3>1, <3>5, <3>7, <3>8, <3>9
    <3> QED
      BY <3>10 DEF w
  <2> QED
    BY <2>4, <2>5
<1> HIDE DEF Good
<1>5. \A n \in Nat : n \in Good
  BY <1>3, <1>4, Shared!SetInduction
<1>6. PICK f : Maps(u[len], len, f)
  <2>1. len \in Good /\ len <= len
    BY <1>2, <1>5
  <2> HIDE DEF Maps
  <2> QED
    BY <2>1 DEF Good
<1>7. places \cap (1 .. len) = places /\ u[len] \in Seq(S)
  <2>1. len \in 0 .. len /\ places \subseteq 1 .. len
    BY <1>2 DEF len
  <2> QED
    BY <1>1, <2>1
<1>8. Selects(f, s, places, u[len])
  BY <1>6, <1>7 DEF Selects
<1> QED
  BY <1>1, <1>7, <1>8

-----------------------------------------------------------------------------
(* Messages and what they weigh.                                           *)

\* Ids of calls, roles and messages: what a strategy hands on may weigh anything.
CallIds == Nat \X Nat
Roles == {"system", "user", "assistant", "tool"}
Messages == [at : Nat, role : Roles, size : Nat, calls : SUBSET CallIds, answers : CallIds]

\* u adds up the weight of the places, message by message.
Adds(u, s, places) ==
  /\ u \in [0 .. Len(s) -> Nat] /\ u[0] = 0 /\ Weight(s, places) = u[Len(s)]
  /\ \A n \in 1 .. Len(s) : u[n] = u[n - 1] + (IF n \in places THEN s[n].size ELSE 0)

\* How a weight grows.
LEMMA WeightSteps ==
  ASSUME NEW s \in Seq(Messages), NEW places
  PROVE  \E u : Adds(u, s, places)
<1> DEFINE len == Len(s)
           add(n) == IF n \in places THEN s[n].size ELSE 0
           step == [p \in (1 .. len) \X Nat |-> p[2] + add(p[1])]
           Is(u) == u = [n \in 0 .. len |-> IF n = 0 THEN 0 ELSE u[n - 1] + add(n)]
<1>1. len \in Nat
  OBVIOUS
<1>2. \A n \in 1 .. len : add(n) \in Nat
  <2>1. \A n \in 1 .. len : s[n] \in Messages
    OBVIOUS
  <2>2. \A m \in Messages : m.size \in Nat
    BY DEF Messages
  <2> QED
    BY <2>1, <2>2
<1> HIDE DEF add, len
<1>3. step \in [(1 .. len) \X Nat -> Nat]
  BY <1>2
<1>4. \A n \in 1 .. len, v \in Nat : step[<<n, v>>] = v + add(n)
  OBVIOUS
<1> HIDE DEF step
<1>5. PICK f : Solves(f, len, Nat, 0, step)
  BY <1>1, <1>3, Recursion
<1>6. f \in [0 .. len -> Nat] /\ f[0] = 0 /\ \A n \in 1 .. len : f[n] = f[n - 1] + add(n)
  <2>1. \A n \in 1 .. len : n - 1 \in 0 .. len
    BY <1>1
  <2> QED
    BY <1>4, <1>5, <2>1 DEF Solves
<1>7. Is(f)
  <2>1. \A n \in 0 .. len : f[n] = IF n = 0 THEN 0 ELSE f[n - 1] + add(n)
    <3>1. \A n \in 0 .. len : n = 0 \/ n \in 1 .. len
      BY <1>1
    <3> QED
      BY <1>6, <3>1
  <2>2. f = [n \in 0 .. len |-> f[n]]
    BY <1>6
  <2> QED
    BY <2>1, <2>2
<1> DEFINE u == CHOOSE u : Is(u)
<1>8. Is(u)
  BY <1>7
<1>9. Weight(s, places) = u[len]
  BY DEF Weight, len, add
<1> HIDE DEF u
<1>10. u = [n \in 0 .. len |-> u[n]] /\ u[0] = 0 /\ \A n \in 1 .. len : u[n] = u[n - 1] + add(n)
  <2>1. \A n \in 0 .. len : u[n] = IF n = 0 THEN 0 ELSE u[n - 1] + add(n)
    BY <1>8
  <2>2. DOMAIN u = 0 .. len /\ u = [n \in DOMAIN u |-> u[n]]
    BY <1>8
  <2> HIDE DEF Is
  <2>3. \A n \in 1 .. len : n \in 0 .. len /\ n # 0
    BY <1>1
  <2>4. 0 \in 0 .. len
    BY <1>1
  <2> QED
    BY <2>1, <2>2, <2>3, <2>4
<1> HIDE DEF Is
<1> DEFINE Typed == {n \in Nat : n <= len => u[n] \in Nat}
<1>11. 0 \in Typed
  BY <1>10
<1>12. ASSUME NEW n \in Nat, n \in Typed PROVE n + 1 \in Typed
  <2> SUFFICES ASSUME n + 1 <= len PROVE u[n + 1] \in Nat
    OBVIOUS
  <2>1. n + 1 \in 1 .. len /\ u[n] \in Nat /\ (n + 1) - 1 = n
    BY <1>1, <1>12
  <2>2. u[n + 1] = u[n] + add(n + 1) /\ add(n + 1) \in Nat
    BY <1>2, <1>10, <2>1
  <2> QED
    BY <2>1, <2>2
<1> HIDE DEF Typed
<1>13. \A n \in Nat : n \in Typed
  BY <1>11, <1>12, Shared!SetInduction
<1>14. u \in [0 .. len -> Nat]
  BY <1>1, <1>10, <1>13 DEF Typed
<1> QED
  BY <1>9, <1>10, <1>14 DEF len, add, Adds

\* More places weigh more, places apart add up, and a weight is a number.
LEMMA WeightAdds ==
  ASSUME NEW s \in Seq(Messages), NEW A, NEW B
  PROVE  /\ Weight(s, A) \in Nat
         /\ A \cap (1 .. Len(s)) \subseteq B => Weight(s, A) <= Weight(s, B)
         /\ A \cap B = {} => Weight(s, A \cup B) = Weight(s, A) + Weight(s, B)
<1> DEFINE len == Len(s)
           C == A \cup B
<1>1. PICK a \in [0 .. len -> Nat] :
        /\ a[0] = 0 /\ Weight(s, A) = a[len]
        /\ \A n \in 1 .. len : a[n] = a[n - 1] + (IF n \in A THEN s[n].size ELSE 0)
  <2>1. \E a : Adds(a, s, A)
    BY WeightSteps
  <2> QED
    BY <2>1 DEF Adds
<1>2. PICK b \in [0 .. len -> Nat] :
        /\ b[0] = 0 /\ Weight(s, B) = b[len]
        /\ \A n \in 1 .. len : b[n] = b[n - 1] + (IF n \in B THEN s[n].size ELSE 0)
  <2>1. \E b : Adds(b, s, B)
    BY WeightSteps
  <2> QED
    BY <2>1 DEF Adds
<1>3. PICK c \in [0 .. len -> Nat] :
        /\ c[0] = 0 /\ Weight(s, C) = c[len]
        /\ \A n \in 1 .. len : c[n] = c[n - 1] + (IF n \in C THEN s[n].size ELSE 0)
  <2>1. \E c : Adds(c, s, C)
    BY WeightSteps
  <2> QED
    BY <2>1 DEF Adds
<1>4. len \in Nat /\ \A n \in 1 .. len : s[n].size \in Nat
  <2>1. \A n \in 1 .. len : s[n] \in Messages
    OBVIOUS
  <2>2. \A m \in Messages : m.size \in Nat
    BY DEF Messages
  <2> QED
    BY <2>1, <2>2
<1> HIDE DEF len
<1> DEFINE Less == {n \in Nat : n <= len => a[n] <= b[n]}
           Sum == {n \in Nat : n <= len => c[n] = a[n] + b[n]}
<1>5. 0 \in Less /\ 0 \in Sum
  BY <1>1, <1>2, <1>3
<1>6. ASSUME NEW n \in Nat, n + 1 <= len
      PROVE  /\ a[n] \in Nat /\ b[n] \in Nat /\ c[n] \in Nat /\ s[n + 1].size \in Nat
             /\ n + 1 \in 1 .. len
             /\ a[n + 1] = a[n] + (IF n + 1 \in A THEN s[n + 1].size ELSE 0)
             /\ b[n + 1] = b[n] + (IF n + 1 \in B THEN s[n + 1].size ELSE 0)
             /\ c[n + 1] = c[n] + (IF n + 1 \in C THEN s[n + 1].size ELSE 0)
  <2>1. n + 1 \in 1 .. len /\ n \in 0 .. len /\ (n + 1) - 1 = n
    BY <1>4, <1>6
  <2> QED
    BY <1>1, <1>2, <1>3, <1>4, <2>1
<1>7. ASSUME A \cap (1 .. len) \subseteq B, NEW n \in Nat, n \in Less PROVE n + 1 \in Less
  <2> SUFFICES ASSUME n + 1 <= len PROVE a[n + 1] <= b[n + 1]
    OBVIOUS
  <2>1. a[n] <= b[n]
    BY <1>4, <1>7
  <2>2. n + 1 \in A => n + 1 \in B
    BY <1>6, <1>7
  <2> QED
    BY <1>6, <2>1, <2>2
<1>8. ASSUME A \cap B = {}, NEW n \in Nat, n \in Sum PROVE n + 1 \in Sum
  <2> SUFFICES ASSUME n + 1 <= len PROVE c[n + 1] = a[n + 1] + b[n + 1]
    OBVIOUS
  <2>1. c[n] = a[n] + b[n]
    BY <1>4, <1>8
  <2>2. (n + 1 \in C <=> n + 1 \in A \/ n + 1 \in B) /\ ~(n + 1 \in A /\ n + 1 \in B)
    BY <1>8
  <2> HIDE DEF C
  <2>3. CASE n + 1 \in A
    <3> DEFINE x == a[n]
               y == b[n]
               z == s[n + 1].size
    <3>1. c[n + 1] = c[n] + z /\ a[n + 1] = x + z /\ b[n + 1] = y + 0
      BY <1>6, <2>2, <2>3
    <3>2. x \in Nat /\ y \in Nat /\ z \in Nat
      BY <1>6
    <3>3. c[n + 1] = (x + y) + z
      BY <2>1, <3>1
    <3> HIDE DEF x, y, z
    <3>4. (x + y) + z = (x + z) + (y + 0)
      BY <3>2
    <3> QED
      BY <3>1, <3>3, <3>4
  <2>4. CASE n + 1 \in B
    <3> DEFINE x == a[n]
               y == b[n]
               z == s[n + 1].size
    <3>1. c[n + 1] = c[n] + z /\ a[n + 1] = x + 0 /\ b[n + 1] = y + z
      BY <1>6, <2>2, <2>4
    <3>2. x \in Nat /\ y \in Nat /\ z \in Nat
      BY <1>6
    <3>3. c[n + 1] = (x + y) + z
      BY <2>1, <3>1
    <3> HIDE DEF x, y, z
    <3>4. (x + y) + z = (x + 0) + (y + z)
      BY <3>2
    <3> QED
      BY <3>1, <3>3, <3>4
  <2>5. CASE n + 1 \notin A /\ n + 1 \notin B
    BY <1>6, <2>1, <2>2, <2>5
  <2> QED
    BY <2>3, <2>4, <2>5
<1> HIDE DEF Less, Sum, C
<1>9. ASSUME A \cap (1 .. len) \subseteq B PROVE a[len] <= b[len]
  <2>1. \A n \in Nat : n \in Less
    BY <1>5, <1>7, <1>9, Shared!SetInduction
  <2> QED
    BY <1>4, <2>1 DEF Less
<1>10. ASSUME A \cap B = {} PROVE c[len] = a[len] + b[len]
  <2>1. \A n \in Nat : n \in Sum
    BY <1>5, <1>8, <1>10, Shared!SetInduction
  <2> QED
    BY <1>4, <2>1 DEF Sum
<1>11. a[len] \in Nat
  BY <1>1, <1>4
<1> QED
  BY <1>1, <1>2, <1>3, <1>9, <1>10, <1>11 DEF len, C

\* Messages that come from the places of a sequence, in its order, or weigh nothing weigh no
\* more than the places do.
LEMMA WeightOfCopies ==
  ASSUME NEW s \in Seq(Messages), NEW b \in Seq(Messages), NEW places,
         NEW g \in [1 .. Len(s) -> 0 .. Len(b)],
         \A i \in 1 .. Len(s) : IF g[i] = 0 THEN s[i].size = 0
                               ELSE g[i] \in places /\ s[i].size <= b[g[i]].size,
         \A i, j \in 1 .. Len(s) : i < j /\ g[i] # 0 /\ g[j] # 0 => g[i] < g[j]
  PROVE  Volume(s) <= Weight(b, places)
<1> DEFINE len == Len(s)
           max == Len(b)
           all == DOMAIN s
<1>1. PICK u \in [0 .. len -> Nat] :
        /\ u[0] = 0 /\ Weight(s, all) = u[len]
        /\ \A n \in 1 .. len : u[n] = u[n - 1] + (IF n \in all THEN s[n].size ELSE 0)
  <2>1. \E u : Adds(u, s, all)
    BY WeightSteps
  <2> QED
    BY <2>1 DEF Adds
<1>2. PICK w \in [0 .. max -> Nat] :
        /\ w[0] = 0 /\ Weight(b, places) = w[max]
        /\ \A n \in 1 .. max : w[n] = w[n - 1] + (IF n \in places THEN b[n].size ELSE 0)
  <2>1. \E w : Adds(w, b, places)
    BY WeightSteps
  <2> QED
    BY <2>1 DEF Adds
<1>3. /\ len \in Nat /\ max \in Nat /\ all = 1 .. len
      /\ \A n \in 1 .. len : s[n].size \in Nat
      /\ \A n \in 1 .. max : b[n].size \in Nat
  <2>1. (\A n \in 1 .. len : s[n] \in Messages) /\ (\A n \in 1 .. max : b[n] \in Messages)
    OBVIOUS
  <2>2. \A m \in Messages : m.size \in Nat
    BY DEF Messages
  <2> QED
    BY <2>1, <2>2
<1>4. Volume(s) = u[len]
  BY <1>1 DEF Volume
<1> HIDE DEF len, max, all
<1> DEFINE Rises == {n \in Nat : n <= max => \A m \in 0 .. n : w[m] <= w[n]}
<1>5. 0 \in Rises
  BY <1>2, <1>3
<1>6. ASSUME NEW n \in Nat, n \in Rises PROVE n + 1 \in Rises
  <2> SUFFICES ASSUME n + 1 <= max, NEW m \in 0 .. n + 1 PROVE w[m] <= w[n + 1]
    OBVIOUS
  <2>1. /\ n + 1 \in 1 .. max /\ n \in 0 .. max /\ (n + 1) - 1 = n /\ n + 1 \in 0 .. max
        /\ m \in 0 .. max
    BY <1>3
  <2>2. w[n] <= w[n + 1] /\ w[n] \in Nat /\ w[n + 1] \in Nat /\ w[m] \in Nat
    <3>1. w[n + 1] = w[n] + (IF n + 1 \in places THEN b[n + 1].size ELSE 0)
      BY <1>2, <2>1
    <3>2. b[n + 1].size \in Nat /\ w[n] \in Nat /\ w[n + 1] \in Nat /\ w[m] \in Nat
      BY <1>2, <1>3, <2>1
    <3>3. CASE n + 1 \in places
      BY <3>1, <3>2, <3>3
    <3>4. CASE n + 1 \notin places
      BY <3>1, <3>2, <3>4
    <3> QED
      BY <3>2, <3>3, <3>4
  <2>3. m \in 0 .. n => w[m] <= w[n]
    BY <1>3, <1>6
  <2> QED
    BY <2>2, <2>3
<1> HIDE DEF Rises
<1>7. \A n \in 0 .. max : \A m \in 0 .. n : w[m] <= w[n]
  <2>1. \A n \in Nat : n \in Rises
    BY <1>5, <1>6, Shared!SetInduction
  <2> SUFFICES ASSUME NEW n \in 0 .. max PROVE \A m \in 0 .. n : w[m] <= w[n]
    OBVIOUS
  <2>2. n \in Nat /\ n <= max
    BY <1>3
  <2>3. n \in Rises
    BY <2>1, <2>2
  <2> QED
    BY <2>2, <2>3 DEF Rises
<1> DEFINE Under(n) == \A m \in 0 .. max : (\A i \in 1 .. n : g[i] <= m) => u[n] <= w[m]
           Fits == {n \in Nat : n <= len => Under(n)}
<1>8. 0 \in Fits
  <2>1. \A m \in 0 .. max : w[m] \in Nat
    BY <1>2
  <2> QED
    BY <1>1, <2>1
<1>9. ASSUME NEW n \in Nat, n \in Fits PROVE n + 1 \in Fits
  <2> SUFFICES ASSUME n + 1 <= len, NEW m \in 0 .. max, \A i \in 1 .. n + 1 : g[i] <= m
               PROVE  u[n + 1] <= w[m]
    OBVIOUS
  <2>1. n + 1 \in 1 .. len /\ n \in 0 .. len /\ (n + 1) - 1 = n
    BY <1>3
  <2>2. u[n + 1] = u[n] + s[n + 1].size /\ u[n] \in Nat /\ s[n + 1].size \in Nat
    BY <1>1, <1>3, <2>1
  <2>3. Under(n)
    BY <1>3, <1>9
  <2>4. \A i \in 1 .. n : i \in 1 .. len /\ i < n + 1 /\ i \in 1 .. n + 1
    BY <1>3
  <2>5. g[n + 1] \in 0 .. max /\ \A i \in 1 .. n : g[i] \in 0 .. max
    BY <2>1, <2>4 DEF len, max
  <2>6. CASE g[n + 1] = 0
    <3>1. s[n + 1].size = 0
      BY <2>1, <2>6 DEF len
    <3>2. u[n] <= w[m]
      BY <2>3, <2>4
    <3> QED
      BY <2>2, <3>1, <3>2
  <2>7. CASE g[n + 1] # 0
    <3> DEFINE q == g[n + 1]
    <3>1. q \in places /\ s[n + 1].size <= b[q].size /\ q \in 1 .. max /\ q <= m /\ n + 1 \in 1 .. n + 1
      <4>1. q \in places /\ s[n + 1].size <= b[q].size
        BY <2>1, <2>7 DEF len
      <4>2. n + 1 \in 1 .. n + 1
        OBVIOUS
      <4>3. q <= m
        BY <4>2
      <4>4. q \in 0 .. max /\ q # 0
        BY <2>5, <2>7
      <4> HIDE DEF q
      <4> QED
        BY <1>3, <4>1, <4>2, <4>3, <4>4
    <3>2. ASSUME NEW i \in 1 .. n PROVE g[i] <= q - 1
      <4>1. g[i] # 0 => g[i] < q
        BY <2>1, <2>4, <2>7 DEF len
      <4>2. g[i] \in Nat /\ q \in Nat /\ 1 <= q
        <5>1. g[i] \in 0 .. max
          BY <2>5
        <5>2. q \in 1 .. max
          BY <3>1
        <5> HIDE DEF q
        <5> QED
          BY <1>3, <5>1, <5>2
      <4> HIDE DEF q
      <4>3. CASE g[i] = 0
        BY <4>2, <4>3
      <4>4. CASE g[i] # 0
        BY <4>1, <4>2, <4>4
      <4> QED
        BY <4>3, <4>4
    <3> HIDE DEF q
    <3>3. q - 1 \in 0 .. max /\ q \in 0 .. max /\ q \in 0 .. m
      BY <1>3, <3>1
    <3>4. u[n] <= w[q - 1]
      BY <2>3, <3>2, <3>3
    <3>5. w[q] = w[q - 1] + b[q].size
      BY <1>2, <3>1
    <3>6. w[q] <= w[m]
      BY <1>7, <3>3
    <3>7. w[q] \in Nat /\ w[q - 1] \in Nat /\ w[m] \in Nat /\ b[q].size \in Nat
      BY <1>2, <1>3, <3>1, <3>3
    <3>8. u[n] + s[n + 1].size <= w[q]
      <4> DEFINE x == s[n + 1].size
                 y == b[q].size
      <4>1. x <= y /\ x \in Nat /\ y \in Nat
        BY <2>2, <3>1, <3>7
      <4> HIDE DEF x, y
      <4>2. u[n] \in Nat /\ w[q - 1] \in Nat /\ u[n] <= w[q - 1] /\ w[q] = w[q - 1] + y
        BY <2>2, <3>4, <3>5, <3>7 DEF y
      <4>3. u[n] + x <= w[q]
        BY <4>1, <4>2
      <4> QED
        BY <4>3 DEF x
    <3> QED
      BY <2>2, <3>6, <3>7, <3>8
  <2> QED
    BY <2>6, <2>7
<1> HIDE DEF Fits
<1>10. len \in Fits
  BY <1>3, <1>8, <1>9, Shared!SetInduction
<1>11. Under(len)
  BY <1>3, <1>10 DEF Fits
<1>12. max \in 0 .. max /\ \A i \in 1 .. len : g[i] <= max
  <2>1. g \in [1 .. len -> 0 .. max]
    BY DEF len, max
  <2> QED
    BY <1>3, <2>1
<1> QED
  BY <1>2, <1>4, <1>11, <1>12

-----------------------------------------------------------------------------
(* What a transcript is, and what is drawn from it.                        *)

\* Turn a asks for the result at i, and only results stand in between.
Asks(T, a, i) == T[i].answers \in T[a].calls /\ \A k \in a + 1 .. i : IsTool(T[k])

\* A transcript: the system prompt, then messages that know their places; only a model turn
\* calls, no two turns under the same id, and every result stands in the batch of its turn.
Story(T) ==
  /\ T \in Seq(Messages) /\ Len(T) # 0 /\ T[1].role = "system" /\ T[1].size = 0
  /\ \A i \in 1 .. Len(T) :
       T[i].at = i /\ (i # 1 => T[i].role # "system") /\ (T[i].role # "assistant" => T[i].calls = {})
  /\ \A i \in 1 .. Len(T) : IsTool(T[i]) => \E a \in 1 .. i - 1 : Asks(T, a, i)
  /\ \A i, j \in 1 .. Len(T) : T[i].calls \cap T[j].calls # {} => i = j

\* A message of the pipeline, and one of the transcript, of which calls and size may be lost.
Added(m) == ~IsTool(m) /\ m.role # "assistant" /\ m.calls = {} /\ m.size = 0
Copied(T, m) ==
  /\ m.at \in 1 .. Len(T) /\ m.role = T[m.at].role /\ m.answers = T[m.at].answers
  /\ m.calls \subseteq T[m.at].calls /\ m.size <= T[m.at].size

\* Messages drawn from a transcript, in its order, with nothing put into a batch.
Drawn(T, s) ==
  /\ s \in Seq(Messages)
  /\ \A i \in 1 .. Len(s) : IF s[i].at = 0 THEN Added(s[i]) ELSE Copied(T, s[i])
  /\ \A i, j \in 1 .. Len(s) : i < j /\ s[i].at # 0 /\ s[j].at # 0 => s[i].at < s[j].at
  /\ \A i, j, k \in 1 .. Len(s) :
       i < k /\ k < j /\ IsTool(s[j]) /\ s[j].answers \in s[i].calls => s[k].at # 0

\* Every result has its call and every call its result.
Balanced(s) ==
  /\ \A j \in 1 .. Len(s) : IsTool(s[j]) => \E i \in 1 .. Len(s) : s[j].answers \in s[i].calls
  /\ \A i \in 1 .. Len(s) : \A id \in s[i].calls :
       \E j \in 1 .. Len(s) : IsTool(s[j]) /\ s[j].answers = id

\* Of what is drawn, a result stands in the batch of the turn that asks for it.
LEMMA AskedBefore ==
  ASSUME NEW T, NEW s, Story(T), Drawn(T, s), NEW i \in 1 .. Len(s), NEW j \in 1 .. Len(s),
         IsTool(s[j]), s[j].answers \in s[i].calls
  PROVE  i < j /\ s[i].role = "assistant" /\ \A k \in i + 1 .. j : IsTool(s[k])
<1> DEFINE a == s[i].at
           b == s[j].at
<1>1. Len(s) \in Nat /\ s \in Seq(Messages) /\ Len(T) \in Nat
  BY DEF Drawn, Story
<1>2. a # 0 /\ b # 0
  BY DEF Drawn, Added
<1>3. Copied(T, s[i]) /\ Copied(T, s[j])
  BY <1>2 DEF Drawn
<1>4. a \in 1 .. Len(T) /\ b \in 1 .. Len(T)
  BY <1>3 DEF Copied
<1>5. T[b].answers = s[j].answers /\ IsTool(T[b]) /\ s[j].answers \in T[a].calls
  BY <1>3 DEF Copied, IsTool
<1>6. T[a].role = s[i].role /\ T[a].role = "assistant"
  <2>1. T[a].calls # {}
    BY <1>5
  <2>2. T[a].role = s[i].role
    BY <1>3 DEF Copied
  <2> HIDE DEF a
  <2>3. T[a].role = "assistant"
    <3>1. \A i1 \in 1 .. Len(T) : T[i1].role # "assistant" => T[i1].calls = {}
      BY DEF Story
    <3> QED
      BY <1>4, <2>1, <3>1
  <2> QED
    BY <2>2, <2>3
<1> HIDE DEF a, b
<1>7. PICK c \in 1 .. b - 1 : Asks(T, c, b)
  BY <1>4, <1>5 DEF Story
<1>8. c = a
  <2>1. c \in 1 .. Len(T)
    BY <1>1, <1>4
  <2>2. T[c].calls \cap T[a].calls # {}
    BY <1>5, <1>7 DEF Asks
  <2> QED
    BY <1>4, <2>1, <2>2 DEF Story
<1>9. a < b /\ \A k \in a + 1 .. b : IsTool(T[k])
  BY <1>4, <1>7, <1>8 DEF Asks
<1>10. i < j
  <2>1. CASE i = j
    BY <1>4, <1>9, <2>1 DEF a, b
  <2>2. CASE j < i
    <3>1. b < a
      BY <1>2, <2>2 DEF Drawn, a, b
    <3> QED
      BY <1>4, <1>9, <3>1
  <2> QED
    BY <1>1, <2>1, <2>2
<1>11. ASSUME NEW k \in i + 1 .. j PROVE IsTool(s[k])
  <2>1. CASE k = j
    BY <2>1
  <2>2. CASE k # j
    <3>1. k \in 1 .. Len(s) /\ i < k /\ k < j
      BY <1>1, <1>11, <2>2
    <3> DEFINE c1 == s[k].at
    <3>2. c1 # 0
      BY <3>1 DEF Drawn
    <3>3. a < c1 /\ c1 < b
      BY <1>2, <3>1, <3>2 DEF Drawn, a, b
    <3>4. Copied(T, s[k])
      BY <3>1, <3>2 DEF Drawn
    <3>5. c1 \in 1 .. Len(T) /\ T[c1].role = s[k].role
      BY <3>4 DEF Copied
    <3> HIDE DEF c1
    <3>6. c1 \in a + 1 .. b
      BY <1>1, <1>4, <3>3, <3>5
    <3> QED
      BY <1>9, <3>5, <3>6 DEF IsTool
  <2> QED
    BY <2>1, <2>2
<1> QED
  BY <1>6, <1>10, <1>11

\* What is drawn and balanced is what a provider accepts but for system messages.
LEMMA BalancedIsWired ==
  ASSUME NEW T, NEW s, Story(T), Drawn(T, s), Balanced(s)
  PROVE  /\ \A i \in DOMAIN s : s[i].role = "assistant" => Behind(s, i) = s[i].calls
         /\ \A j \in DOMAIN s : IsTool(s[j]) => \E i \in 1 .. j - 1 : s[j].answers \in s[i].calls
<1>1. Len(s) \in Nat /\ s \in Seq(Messages) /\ DOMAIN s = 1 .. Len(s)
  BY DEF Drawn
<1>2. ASSUME NEW j \in 1 .. Len(s), IsTool(s[j])
      PROVE  \E i \in 1 .. Len(s) :
               /\ i < j /\ s[j].answers \in s[i].calls /\ s[i].role = "assistant"
               /\ \A k \in i + 1 .. j : IsTool(s[k])
  <2>1. PICK i \in 1 .. Len(s) : s[j].answers \in s[i].calls
    BY <1>2 DEF Balanced
  <2> QED
    BY <1>2, <2>1, AskedBefore
<1>3. ASSUME NEW i \in 1 .. Len(s), s[i].role = "assistant" PROVE Behind(s, i) = s[i].calls
  <2>1. ASSUME NEW id \in s[i].calls PROVE id \in Behind(s, i)
    <3>1. PICK j \in 1 .. Len(s) : IsTool(s[j]) /\ s[j].answers = id
      BY <2>1 DEF Balanced
    <3>2. i < j /\ \A k \in i + 1 .. j : IsTool(s[k])
      BY <2>1, <3>1, AskedBefore
    <3> QED
      BY <1>1, <3>1, <3>2 DEF Behind
  <2>2. ASSUME NEW id \in Behind(s, i) PROVE id \in s[i].calls
    <3>1. PICK j \in 1 .. Len(s) : j > i /\ (\A n \in i + 1 .. j : IsTool(s[n])) /\ id = s[j].answers
      BY <1>1, <2>2 DEF Behind
    <3>2. IsTool(s[j])
      BY <1>1, <3>1
    <3>3. PICK a \in 1 .. Len(s) :
            /\ a < j /\ s[j].answers \in s[a].calls /\ s[a].role = "assistant"
            /\ \A k \in a + 1 .. j : IsTool(s[k])
      BY <1>2, <3>2
    <3>4. ~IsTool(s[a]) /\ ~IsTool(s[i])
      BY <1>3, <3>3 DEF IsTool
    <3>5. ~(a < i) /\ ~(i < a)
      BY <1>1, <3>1, <3>3, <3>4
    <3>6. a = i
      BY <1>1, <3>5
    <3> QED
      BY <3>1, <3>3, <3>6
  <2> QED
    BY <2>1, <2>2
<1>4. ASSUME NEW j \in 1 .. Len(s), IsTool(s[j]) PROVE \E i \in 1 .. j - 1 : s[j].answers \in s[i].calls
  <2>1. PICK i \in 1 .. Len(s) : i < j /\ s[j].answers \in s[i].calls
    BY <1>2, <1>4
  <2>2. i \in 1 .. j - 1
    BY <1>1, <2>1
  <2> QED
    BY <2>1, <2>2
<1> QED
  BY <1>1, <1>3, <1>4

\* A part of what is drawn is drawn, also when it loses calls or size.
LEMMA PartIsDrawn ==
  ASSUME NEW T, NEW s, Story(T), Drawn(T, s), NEW r \in Seq(Messages),
         NEW f \in [1 .. Len(r) -> 1 .. Len(s)],
         \A j, k \in 1 .. Len(r) : j < k => f[j] < f[k],
         \A k \in 1 .. Len(r) :
           /\ r[k].at = s[f[k]].at /\ r[k].role = s[f[k]].role /\ r[k].answers = s[f[k]].answers
           /\ r[k].calls \subseteq s[f[k]].calls /\ r[k].size <= s[f[k]].size
  PROVE  Drawn(T, r)
<1>1. \A m \in Messages : m.size \in Nat
  BY DEF Messages
<1>2. \A k \in 1 .. Len(r) : f[k] \in 1 .. Len(s) /\ r[k].size \in Nat /\ s[f[k]].size \in Nat
  <2>1. s \in Seq(Messages)
    BY DEF Drawn
  <2>2. \A k \in 1 .. Len(r) : f[k] \in 1 .. Len(s) /\ r[k] \in Messages
    OBVIOUS
  <2>3. \A k \in 1 .. Len(s) : s[k] \in Messages
    BY <2>1
  <2> QED
    BY <1>1, <2>2, <2>3
<1>3. \A k \in 1 .. Len(T) : T[k].size \in Nat
  <2>1. T \in Seq(Messages)
    BY DEF Story
  <2>2. \A k \in 1 .. Len(T) : T[k] \in Messages
    BY <2>1
  <2> QED
    BY <1>1, <2>2
<1>4. ASSUME NEW k \in 1 .. Len(r) PROVE IF r[k].at = 0 THEN Added(r[k]) ELSE Copied(T, r[k])
  <2>1. CASE r[k].at = 0
    <3>1. Added(s[f[k]])
      BY <1>2, <2>1 DEF Drawn
    <3> DEFINE m == r[k]
               o == s[f[k]]
    <3>2. /\ m.at = 0 /\ m.role = o.role /\ m.calls \subseteq o.calls /\ m.size <= o.size
          /\ m.size \in Nat /\ o.size \in Nat /\ Added(o)
      BY <1>2, <2>1, <3>1
    <3> HIDE DEF m, o
    <3>3. Added(m)
      BY <3>2 DEF Added, IsTool
    <3> QED
      BY <2>1, <3>3 DEF m
  <2>2. CASE r[k].at # 0
    <3>1. Copied(T, s[f[k]])
      BY <1>2, <2>2 DEF Drawn
    <3>2. T[r[k].at].size \in Nat
      BY <1>3, <3>1 DEF Copied
    <3> DEFINE m == r[k]
               o == s[f[k]]
    <3>3. /\ m.at = o.at /\ m.role = o.role /\ m.calls \subseteq o.calls /\ m.size <= o.size
          /\ m.answers = o.answers
          /\ m.size \in Nat /\ o.size \in Nat /\ T[m.at].size \in Nat /\ Copied(T, o)
      BY <1>2, <3>1, <3>2
    <3> HIDE DEF m, o
    <3>4. Copied(T, m)
      BY <3>3 DEF Copied
    <3> QED
      BY <2>2, <3>4 DEF m
  <2> QED
    BY <2>1, <2>2
<1>5. ASSUME NEW i \in 1 .. Len(r), NEW j \in 1 .. Len(r), i < j, r[i].at # 0, r[j].at # 0
      PROVE  r[i].at < r[j].at
  BY <1>2, <1>5 DEF Drawn
<1>6. ASSUME NEW i \in 1 .. Len(r), NEW j \in 1 .. Len(r), NEW k \in 1 .. Len(r), i < k, k < j,
             IsTool(r[j]), r[j].answers \in r[i].calls
      PROVE  r[k].at # 0
  <2>1. f[i] < f[k] /\ f[k] < f[j] /\ IsTool(s[f[j]]) /\ s[f[j]].answers \in s[f[i]].calls
    BY <1>6 DEF IsTool
  <2>2. s[f[k]].at # 0
    BY <1>2, <2>1 DEF Drawn
  <2> QED
    BY <2>2
<1> QED
  BY <1>4, <1>5, <1>6 DEF Drawn

\* The calls and the answers of a list of messages.
LEMMA CalledAnswered ==
  ASSUME NEW S, NEW s \in Seq(S), NEW id
  PROVE  /\ id \in Called(s) <=> \E i \in 1 .. Len(s) : id \in s[i].calls
         /\ id \in Answered(s) <=> \E i \in 1 .. Len(s) : IsTool(s[i]) /\ s[i].answers = id
<1>1. DOMAIN s = 1 .. Len(s)
  OBVIOUS
<1>2. \A m : m \in ToSet(s) <=> \E i \in 1 .. Len(s) : s[i] = m
  BY <1>1 DEF ToSet
<1> QED
  BY <1>2 DEF Called, Answered

\* What the repair keeps of a message.
Bare(s, m) == [m EXCEPT !.calls = @ \cap Answered(s)]
Stays(s, m) == /\ m.calls = {} \/ m.calls \cap Answered(s) # {} \/ m.size # 0
               /\ IsTool(m) => m.answers \in Called(s)

\* The repair of the pairs keeps what stays, with the calls that have a result.
LEMMA PairedParts ==
  ASSUME NEW s \in Seq(Messages)
  PROVE  /\ Paired(s) \in Seq(Messages)
         /\ \E f \in [1 .. Len(Paired(s)) -> 1 .. Len(s)] :
              /\ \A k \in 1 .. Len(Paired(s)) : Paired(s)[k] = Bare(s, s[f[k]]) /\ Stays(s, s[f[k]])
              /\ \A j, k \in 1 .. Len(Paired(s)) : j < k => f[j] < f[k]
              /\ \A i \in 1 .. Len(s) : Stays(s, s[i]) => \E k \in 1 .. Len(Paired(s)) : f[k] = i
<1> DEFINE places == {i \in DOMAIN s :
                        /\ ~(s[i].calls # {} /\ s[i].calls \cap Answered(s) = {} /\ s[i].size = 0)
                        /\ IsTool(s[i]) => s[i].answers \in Called(s)}
           kept == Chosen(s, places)
           p == [i \in DOMAIN kept |-> Bare(s, kept[i])]
<1>1. Paired(s) = p
  BY DEF Paired, Bare
<1>2. DOMAIN s = 1 .. Len(s) /\ Len(s) \in Nat
  OBVIOUS
<1>3. \A i \in 1 .. Len(s) : i \in places <=> Stays(s, s[i])
  BY <1>2 DEF Stays
<1>4. places \subseteq 1 .. Len(s)
  BY <1>2
<1> HIDE DEF places
<1>5. kept \in Seq(Messages) /\ \E f : Selects(f, s, places, kept)
  BY <1>4, ChosenIs
<1> HIDE DEF kept
<1>6. PICK f \in [1 .. Len(kept) -> places] :
        /\ \A k \in 1 .. Len(kept) : kept[k] = s[f[k]]
        /\ \A j, k \in 1 .. Len(kept) : j < k => f[j] < f[k]
        /\ \A i \in places : \E k \in 1 .. Len(kept) : f[k] = i
  BY <1>5 DEF Selects
<1>7. DOMAIN kept = 1 .. Len(kept) /\ Len(kept) \in Nat
  BY <1>5
<1>8. \A m \in Messages : Bare(s, m) \in Messages
  BY DEF Messages, Bare
<1>9. p \in Seq(Messages) /\ Len(p) = Len(kept) /\ \A k \in 1 .. Len(kept) : p[k] = Bare(s, kept[k])
  <2>1. \A k \in 1 .. Len(kept) : kept[k] \in Messages
    BY <1>5
  <2>2. \A k \in 1 .. Len(kept) : Bare(s, kept[k]) \in Messages
    BY <1>8, <2>1
  <2>3. p = [k \in 1 .. Len(kept) |-> Bare(s, kept[k])]
    BY <1>7
  <2> HIDE DEF p
  <2> QED
    BY <1>7, <2>2, <2>3
<1> HIDE DEF p
<1>10. f \in [1 .. Len(p) -> 1 .. Len(s)]
  BY <1>4, <1>6, <1>9
<1>11. \A k \in 1 .. Len(p) : p[k] = Bare(s, s[f[k]]) /\ Stays(s, s[f[k]])
  BY <1>3, <1>4, <1>6, <1>9
<1>12. \A i \in 1 .. Len(s) : Stays(s, s[i]) => \E k \in 1 .. Len(p) : f[k] = i
  BY <1>3, <1>6, <1>9
<1> QED
  BY <1>1, <1>6, <1>9, <1>10, <1>11, <1>12

\* The messages of r have the places of messages of s.
ComesFrom(s, r) == \A k \in 1 .. Len(r) : \E i \in 1 .. Len(s) : r[k].at = s[i].at

\* What the repair leaves is drawn and balanced, and of what stays it loses nothing.
LEMMA PairedIsBalanced ==
  ASSUME NEW T, NEW s, Story(T), Drawn(T, s)
  PROVE  /\ Drawn(T, Paired(s)) /\ Balanced(Paired(s))
         /\ ComesFrom(s, Paired(s))
         /\ \A i \in 1 .. Len(s) :
              Stays(s, s[i]) => \E k \in 1 .. Len(Paired(s)) : Paired(s)[k] = Bare(s, s[i])
<1> DEFINE p == Paired(s)
<1>1. s \in Seq(Messages) /\ Len(s) \in Nat
  BY DEF Drawn
<1>2. /\ p \in Seq(Messages)
      /\ \E f \in [1 .. Len(p) -> 1 .. Len(s)] :
           /\ \A k \in 1 .. Len(p) : p[k] = Bare(s, s[f[k]]) /\ Stays(s, s[f[k]])
           /\ \A j, k \in 1 .. Len(p) : j < k => f[j] < f[k]
           /\ \A i \in 1 .. Len(s) : Stays(s, s[i]) => \E k \in 1 .. Len(p) : f[k] = i
  BY <1>1, PairedParts
<1> HIDE DEF p
<1>3. PICK f \in [1 .. Len(p) -> 1 .. Len(s)] :
        /\ \A k \in 1 .. Len(p) : p[k] = Bare(s, s[f[k]]) /\ Stays(s, s[f[k]])
        /\ \A j, k \in 1 .. Len(p) : j < k => f[j] < f[k]
        /\ \A i \in 1 .. Len(s) : Stays(s, s[i]) => \E k \in 1 .. Len(p) : f[k] = i
  BY <1>2
<1>4. ASSUME NEW m \in Messages
      PROVE  /\ Bare(s, m).at = m.at /\ Bare(s, m).role = m.role /\ Bare(s, m).answers = m.answers
             /\ Bare(s, m).size = m.size /\ Bare(s, m).calls = m.calls \cap Answered(s)
  BY DEF Messages, Bare
<1>5. \A k \in 1 .. Len(p) : f[k] \in 1 .. Len(s) /\ s[f[k]] \in Messages /\ s[f[k]].size \in Nat
  <2>1. \A m \in Messages : m.size \in Nat
    BY DEF Messages
  <2>2. \A k \in 1 .. Len(p) : f[k] \in 1 .. Len(s)
    OBVIOUS
  <2>3. \A k \in 1 .. Len(s) : s[k] \in Messages
    BY <1>1
  <2> QED
    BY <2>1, <2>2, <2>3
<1>6. \A k \in 1 .. Len(p) :
        /\ p[k].at = s[f[k]].at /\ p[k].role = s[f[k]].role /\ p[k].answers = s[f[k]].answers
        /\ p[k].size = s[f[k]].size /\ p[k].calls = s[f[k]].calls \cap Answered(s)
  BY <1>3, <1>4, <1>5
<1>7. Drawn(T, p)
  <2>1. \A k \in 1 .. Len(p) :
          /\ p[k].at = s[f[k]].at /\ p[k].role = s[f[k]].role /\ p[k].answers = s[f[k]].answers
          /\ p[k].calls \subseteq s[f[k]].calls /\ p[k].size <= s[f[k]].size
    BY <1>5, <1>6
  <2> QED
    BY <1>2, <1>3, <2>1, PartIsDrawn
<1>8. ASSUME NEW j \in 1 .. Len(p), IsTool(p[j]) PROVE \E i \in 1 .. Len(p) : p[j].answers \in p[i].calls
  <2> DEFINE m == s[f[j]]
  <2>1. f[j] \in 1 .. Len(s) /\ IsTool(m) /\ m.answers = p[j].answers /\ Stays(s, m)
    BY <1>3, <1>5, <1>6, <1>8 DEF IsTool
  <2>2. m.answers \in Called(s)
    BY <2>1 DEF Stays
  <2>3. PICK i \in 1 .. Len(s) : m.answers \in s[i].calls
    BY <1>1, <2>2, CalledAnswered
  <2>4. m.answers \in Answered(s)
    BY <1>1, <2>1, CalledAnswered
  <2>5. s[i].role = "assistant"
    BY <2>1, <2>3, AskedBefore
  <2>6. Stays(s, s[i])
    BY <2>3, <2>4, <2>5 DEF Stays, IsTool
  <2>7. PICK k \in 1 .. Len(p) : f[k] = i
    BY <1>3, <2>6
  <2> QED
    BY <1>6, <2>1, <2>3, <2>4, <2>7
<1>9. ASSUME NEW i \in 1 .. Len(p), NEW id \in p[i].calls
      PROVE  \E j \in 1 .. Len(p) : IsTool(p[j]) /\ p[j].answers = id
  <2>1. id \in s[f[i]].calls /\ id \in Answered(s) /\ f[i] \in 1 .. Len(s)
    BY <1>5, <1>6, <1>9
  <2>2. PICK j \in 1 .. Len(s) : IsTool(s[j]) /\ s[j].answers = id
    BY <1>1, <2>1, CalledAnswered
  <2>3. id \in Called(s)
    BY <1>1, <2>1, CalledAnswered
  <2>4. s[j].calls = {}
    <3>1. s[j].at # 0
      BY <2>2 DEF Drawn, Added
    <3>2. Copied(T, s[j])
      BY <3>1 DEF Drawn
    <3> DEFINE at == s[j].at
    <3>3. at \in 1 .. Len(T) /\ T[at].role = "tool" /\ s[j].calls \subseteq T[at].calls
      BY <2>2, <3>2 DEF Copied, IsTool
    <3> HIDE DEF at
    <3>4. T[at].calls = {}
      BY <3>3 DEF Story
    <3> QED
      BY <3>3, <3>4
  <2>5. Stays(s, s[j])
    BY <2>2, <2>3, <2>4 DEF Stays
  <2>6. PICK k \in 1 .. Len(p) : f[k] = j
    BY <1>3, <2>5
  <2> QED
    BY <1>6, <2>2, <2>6 DEF IsTool
<1>10. Balanced(p)
  BY <1>8, <1>9 DEF Balanced
<1>11. ComesFrom(s, p)
  BY <1>5, <1>6 DEF ComesFrom
<1>12. \A i \in 1 .. Len(s) : Stays(s, s[i]) => \E k \in 1 .. Len(p) : p[k] = Bare(s, s[i])
  BY <1>3
<1> QED
  BY <1>7, <1>10, <1>11, <1>12 DEF p

-----------------------------------------------------------------------------
(* The flattening of the system messages.                                  *)

\* The least number of a set.
LEMMA MinIs ==
  ASSUME NEW S \in SUBSET Nat, S # {}
  PROVE  Min(S) \in S /\ \A x \in S : Min(S) <= x
<1>1. PICK m \in S : \A x \in S : m <= x
  BY Shared!LeastElement
<1> QED
  BY <1>1 DEF Min

\* The greatest number of a bounded set.
LEMMA MaxIs ==
  ASSUME NEW n \in Nat, NEW S \in SUBSET (0 .. n), S # {}
  PROVE  Max(S) \in S /\ \A x \in S : x <= Max(S)
<1> DEFINE R == {n - x : x \in S}
<1>1. R \in SUBSET Nat /\ R # {}
  <2>1. \A x \in S : x \in 0 .. n
    OBVIOUS
  <2>2. \A x \in S : n - x \in Nat
    BY <2>1
  <2> QED
    BY <2>2
<1>2. PICK r \in R : \A x \in R : r <= x
  BY <1>1, Shared!LeastElement
<1>3. PICK m \in S : r = n - m
  BY <1>2
<1>4. ASSUME NEW x \in S PROVE x <= m
  <2>1. n - m <= n - x
    BY <1>2, <1>3
  <2>2. x \in 0 .. n /\ m \in 0 .. n
    OBVIOUS
  <2> QED
    BY <2>1, <2>2
<1>5. \E y \in S : \A x \in S : y >= x
  <2>1. \A x \in S : m >= x
    BY <1>4
  <2> QED
    BY <2>1
<1>6. Max(S) \in S /\ \A x \in S : Max(S) >= x
  BY <1>5 DEF Max
<1>7. \A x \in S : x \in Nat
  OBVIOUS
<1> QED
  BY <1>6, <1>7

\* Messages that are wired but for their system messages.
Wired(s) ==
  /\ \A i \in 1 .. Len(s) : s[i].role = "assistant" => Behind(s, i) = s[i].calls
  /\ \A j \in 1 .. Len(s) : IsTool(s[j]) => \E i \in 1 .. j - 1 : s[j].answers \in s[i].calls
  /\ \A i, j \in 1 .. Len(s) : i < j /\ s[i].at # 0 /\ s[j].at # 0 => s[i].at < s[j].at
  /\ \A i \in 1 .. Len(s) : s[i].role = "system" => s[i].calls = {}

\* The places of the flattened messages: the first, and those behind the n leading ones.
Place(n, i) == IF i = 1 THEN 1 ELSE n + i - 1

\* What the flattened messages are, one by one.
LEMMA FlattenedParts ==
  ASSUME NEW s \in Seq(Messages), Len(s) # 0, s[1].role = "system"
  PROVE  \E n \in 1 .. Len(s) :
           /\ \A i \in 1 .. n : s[i].role = "system"
           /\ Len(Flattened(s)) = Len(s) - n + 1 /\ DOMAIN Flattened(s) = 1 .. Len(s) - n + 1
           /\ Flattened(s) \in Seq(Messages)
           /\ \A i \in 1 .. Len(s) - n + 1 :
                LET m == Flattened(s)[i]
                    o == s[Place(n, i)]
                IN  /\ m.at = o.at /\ m.calls = o.calls /\ m.answers = o.answers
                    /\ m.role = IF i # 1 /\ o.role = "system" THEN "user" ELSE o.role
<1> DEFINE len == Len(s)
           S == {n \in 0 .. len : \A i \in 1 .. n : s[i].role = "system"}
           n == LeadingSystems(s)
           user(m) == [m EXCEPT !.role = "user"]
           g == [i \in 1 .. len - n |-> IF s[n + i].role = "system" THEN user(s[n + i]) ELSE s[n + i]]
           first == SubSeq(s, 1, Min({n, 1}))
           F == first \o g
<1>1. len \in Nat /\ 1 \in 1 .. len /\ s[1] \in Messages /\ \A i \in 1 .. len : s[i] \in Messages
  OBVIOUS
<1>2. S \in SUBSET (0 .. len) /\ 1 \in S
  <2>1. \A i \in 1 .. 1 : i = 1
    OBVIOUS
  <2> QED
    BY <1>1, <2>1
<1>3. n = Max(S)
  BY DEF LeadingSystems
<1>4. Flattened(s) = F
  BY DEF Flattened
<1> HIDE DEF n
<1>5. n \in S /\ 1 <= n
  <2> HIDE DEF S, len
  <2> QED
    BY <1>1, <1>2, <1>3, MaxIs
<1>6. n \in 1 .. len /\ \A i \in 1 .. n : s[i].role = "system"
  BY <1>1, <1>5
<1> HIDE DEF S
<1>7. Min({n, 1}) = 1
  <2>1. {n, 1} \in SUBSET Nat
    BY <1>1, <1>6
  <2>2. Min({n, 1}) \in {n, 1} /\ Min({n, 1}) <= 1
    BY <2>1, MinIs
  <2> QED
    BY <1>1, <1>6, <2>2
<1>8. first = SubSeq(s, 1, 1)
  BY <1>7
<1> HIDE DEF first
<1>9. first \in Seq(Messages) /\ Len(first) = 1 /\ first[1] = s[1]
  BY <1>1, <1>8
<1>10. \A m \in Messages : /\ user(m) \in Messages /\ user(m).role = "user" /\ user(m).at = m.at
                            /\ user(m).calls = m.calls /\ user(m).answers = m.answers
  BY DEF Messages, Roles
<1> HIDE DEF user
<1>11. \A i \in 1 .. len - n : n + i \in 1 .. len /\ s[n + i] \in Messages
  BY <1>1, <1>6
<1>12. /\ g \in Seq(Messages) /\ Len(g) = len - n
       /\ \A i \in 1 .. len - n :
            g[i] = IF s[n + i].role = "system" THEN user(s[n + i]) ELSE s[n + i]
  <2>1. \A i \in 1 .. len - n :
          (IF s[n + i].role = "system" THEN user(s[n + i]) ELSE s[n + i]) \in Messages
    BY <1>10, <1>11
  <2>2. len - n \in Nat
    BY <1>1, <1>6
  <2> HIDE DEF len
  <2> QED
    BY <2>1, <2>2
<1> HIDE DEF g, len
<1>13. /\ F \in Seq(Messages) /\ Len(F) = 1 + (len - n) /\ F[1] = s[1]
       /\ \A i \in 1 .. len - n : F[1 + i] = g[i]
  <2>1. /\ F \in Seq(Messages) /\ Len(F) = Len(first) + Len(g)
        /\ \A i \in 1 .. Len(first) + Len(g) : F[i] = IF i <= Len(first) THEN first[i] ELSE g[i - Len(first)]
    BY <1>9, <1>12, ConcatProperties, Zenon
  <2> HIDE DEF F
  <2>2. 1 \in 1 .. 1 + (len - n) /\ \A i \in 1 .. len - n : 1 + i \in 1 .. 1 + (len - n) /\ ~(1 + i <= 1) /\ (1 + i) - 1 = i
    BY <1>1, <1>6
  <2> QED
    BY <1>9, <1>12, <2>1, <2>2
<1>14. DOMAIN F = 1 .. len - n + 1 /\ Len(F) = len - n + 1
  <2> HIDE DEF F
  <2>1. DOMAIN F = 1 .. Len(F)
    BY <1>13
  <2> QED
    BY <1>1, <1>6, <1>13, <2>1
<1> HIDE DEF F
<1>15. ASSUME NEW i \in 1 .. len - n + 1
       PROVE  LET m == F[i]
                  o == s[Place(n, i)]
              IN  /\ m.at = o.at /\ m.calls = o.calls /\ m.answers = o.answers
                  /\ m.role = IF i # 1 /\ o.role = "system" THEN "user" ELSE o.role
  <2>1. CASE i = 1
    BY <1>13, <2>1 DEF Place
  <2>2. CASE i # 1
    <3> DEFINE j == i - 1
    <3>1. j \in 1 .. len - n /\ i = 1 + j /\ Place(n, i) = n + j
      BY <1>1, <1>6, <2>2 DEF Place
    <3> HIDE DEF j
    <3>2. F[i] = IF s[n + j].role = "system" THEN user(s[n + j]) ELSE s[n + j]
      BY <1>12, <1>13, <3>1
    <3>3. s[n + j] \in Messages
      BY <1>11, <3>1
    <3>4. CASE s[n + j].role = "system"
      BY <1>10, <2>2, <3>1, <3>2, <3>3, <3>4
    <3>5. CASE s[n + j].role # "system"
      BY <2>2, <3>1, <3>2, <3>5
    <3> QED
      BY <3>4, <3>5
  <2> QED
    BY <2>1, <2>2
<1> QED
  BY <1>4, <1>6, <1>13, <1>14, <1>15 DEF len

\* Flattened messages are what a provider accepts, in the order of the transcript.
LEMMA FlattenedIsSound ==
  ASSUME NEW s \in Seq(Messages), Len(s) # 0, s[1].role = "system", Wired(s)
  PROVE  WireShape(Flattened(s)) /\ InOrder(Flattened(s))
<1> DEFINE len == Len(s)
           F == Flattened(s)
<1>1. PICK n \in 1 .. len :
        /\ \A i \in 1 .. n : s[i].role = "system"
        /\ Len(F) = len - n + 1 /\ DOMAIN F = 1 .. len - n + 1 /\ F \in Seq(Messages)
        /\ \A i \in 1 .. len - n + 1 :
             LET m == F[i]
                 o == s[Place(n, i)]
             IN  /\ m.at = o.at /\ m.calls = o.calls /\ m.answers = o.answers
                 /\ m.role = IF i # 1 /\ o.role = "system" THEN "user" ELSE o.role
  BY FlattenedParts
<1> DEFINE max == len - n + 1
<1>2. len \in Nat /\ max \in Nat /\ 1 \in 1 .. max /\ DOMAIN s = 1 .. len
  <2>1. len \in Nat /\ DOMAIN s = 1 .. len
    OBVIOUS
  <2> HIDE DEF len
  <2> QED
    BY <2>1
<1>3. DOMAIN F = 1 .. max /\ Len(F) = max
  BY <1>1
<1> HIDE DEF F
<1>4. \A i \in 1 .. max :
        /\ F[i].at = s[Place(n, i)].at /\ F[i].calls = s[Place(n, i)].calls
        /\ F[i].answers = s[Place(n, i)].answers
        /\ F[i].role = IF i # 1 /\ s[Place(n, i)].role = "system" THEN "user" ELSE s[Place(n, i)].role
  BY <1>1
<1>5. /\ \A i \in 1 .. max : Place(n, i) \in 1 .. len
      /\ \A i, j \in 1 .. max : i < j <=> Place(n, i) < Place(n, j)
      /\ \A k \in 1 .. len : k > n => \E i \in 1 .. max : i # 1 /\ Place(n, i) = k
      /\ \A i \in 1 .. max : i # 1 => Place(n, i) > n
  <2> HIDE DEF len
  <2>1. \A i \in 1 .. max : Place(n, i) \in 1 .. len
    BY <1>2 DEF Place
  <2>2. \A i, j \in 1 .. max : i < j <=> Place(n, i) < Place(n, j)
    BY <1>2 DEF Place
  <2>3. ASSUME NEW k \in 1 .. len, k > n PROVE \E i \in 1 .. max : i # 1 /\ Place(n, i) = k
    <3>1. k - n + 1 \in 1 .. max /\ k - n + 1 # 1 /\ Place(n, k - n + 1) = k
      BY <1>2, <2>3 DEF Place
    <3> QED
      BY <3>1
  <2>4. \A i \in 1 .. max : i # 1 => Place(n, i) > n
    BY <1>2 DEF Place
  <2> QED
    BY <2>1, <2>2, <2>3, <2>4
<1>6. \A i \in 1 .. max :
        /\ IsTool(F[i]) <=> IsTool(s[Place(n, i)])
        /\ F[i].role = "assistant" <=> s[Place(n, i)].role = "assistant"
  BY <1>4 DEF IsTool
<1> HIDE DEF max, len
<1>7. \A i \in 1 .. max : (F[i].role = "system") <=> (i = 1)
  <2>1. Place(n, 1) = 1 /\ s[1].role = "system"
    BY DEF Place
  <2> QED
    BY <1>2, <1>4, <2>1
<1>8. ASSUME NEW j \in 1 .. max, IsTool(F[j])
      PROVE  \E i \in 1 .. max : i < j /\ F[j].answers \in F[i].calls
  <2>1. Place(n, j) \in 1 .. len /\ IsTool(s[Place(n, j)]) /\ s[Place(n, j)].answers = F[j].answers
    BY <1>4, <1>5, <1>6, <1>8
  <2>2. PICK k \in 1 .. Place(n, j) - 1 : s[Place(n, j)].answers \in s[k].calls
    BY <2>1 DEF Wired, len
  <2>3. k \in 1 .. len /\ k < Place(n, j)
    BY <1>2, <2>1
  <2>4. s[k].role # "system"
    BY <2>2, <2>3 DEF Wired, len
  <2>5. k > n
    BY <1>1, <1>2, <2>3, <2>4
  <2>6. PICK i \in 1 .. max : Place(n, i) = k
    BY <1>5, <2>3, <2>5
  <2>7. i < j
    BY <1>5, <2>3, <2>6
  <2> QED
    BY <1>4, <2>1, <2>2, <2>6, <2>7
<1>9. ASSUME NEW i \in 1 .. max, F[i].role = "assistant" PROVE Behind(F, i) = F[i].calls
  <2> DEFINE h == Place(n, i)
  <2>1. h \in 1 .. len /\ s[h].role = "assistant" /\ s[h].calls = F[i].calls /\ i # 1 /\ h > n
    BY <1>2, <1>4, <1>5, <1>6, <1>7, <1>9
  <2>2. Behind(s, h) = F[i].calls
    BY <2>1 DEF Wired, len
  <2> HIDE DEF h
  <2>3. ASSUME NEW id \in Behind(F, i) PROVE id \in Behind(s, h)
    <3>1. PICK j \in 1 .. max : j > i /\ (\A k \in i + 1 .. j : IsTool(F[k])) /\ id = F[j].answers
      BY <1>3, <2>3 DEF Behind
    <3>2. Place(n, j) \in 1 .. len /\ Place(n, j) > h /\ s[Place(n, j)].answers = id
      <4>1. h < Place(n, j)
        BY <1>5, <3>1 DEF h
      <4>2. Place(n, j) \in 1 .. len /\ h \in 1 .. len
        BY <1>5, <2>1
      <4>3. s[Place(n, j)].answers = id
        BY <1>4, <3>1
      <4> QED
        BY <1>2, <4>1, <4>2, <4>3
    <3>3. ASSUME NEW k \in h + 1 .. Place(n, j) PROVE IsTool(s[k])
      <4>1. k \in 1 .. len /\ k > n /\ h < k /\ ~(Place(n, j) < k)
        BY <1>2, <2>1, <3>2
      <4>2. PICK m \in 1 .. max : Place(n, m) = k
        BY <1>5, <4>1
      <4>3. i < m /\ ~(j < m)
        BY <1>5, <4>1, <4>2 DEF h
      <4>4. m \in i + 1 .. j
        BY <1>2, <4>3
      <4> QED
        BY <1>6, <3>1, <4>2, <4>4
    <3> QED
      BY <1>2, <3>2, <3>3 DEF Behind
  <2>4. ASSUME NEW id \in Behind(s, h) PROVE id \in Behind(F, i)
    <3>1. PICK q \in 1 .. len : q > h /\ (\A k \in h + 1 .. q : IsTool(s[k])) /\ id = s[q].answers
      BY <1>2, <2>4 DEF Behind
    <3>2. PICK j \in 1 .. max : Place(n, j) = q
      BY <1>2, <1>5, <2>1, <3>1
    <3>3. i < j
      BY <1>2, <1>5, <2>1, <3>1, <3>2 DEF h
    <3>4. ASSUME NEW m \in i + 1 .. j PROVE IsTool(F[m])
      <4>1. m \in 1 .. max /\ i < m /\ ~(j < m)
        BY <1>2
      <4>2. h < Place(n, m) /\ ~(q < Place(n, m)) /\ Place(n, m) \in 1 .. len
        BY <1>5, <3>2, <4>1 DEF h
      <4>3. Place(n, m) \in h + 1 .. q
        BY <1>2, <2>1, <4>2
      <4> QED
        BY <1>6, <3>1, <4>1, <4>3
    <3>5. F[j].answers = id
      BY <1>4, <3>1, <3>2
    <3> QED
      BY <1>3, <3>3, <3>4, <3>5 DEF Behind
  <2> QED
    BY <2>2, <2>3, <2>4
<1>10. ASSUME NEW j \in 1 .. max, IsTool(F[j]) PROVE F[j].answers \in Called(SubSeq(F, 1, j - 1))
  <2>1. PICK i \in 1 .. max : i < j /\ F[j].answers \in F[i].calls
    BY <1>8, <1>10
  <2> DEFINE r == SubSeq(F, 1, j - 1)
  <2>2. r \in Seq(Messages) /\ Len(r) = j - 1 /\ \A k \in 1 .. j - 1 : r[k] = F[k]
    <3>1. F \in Seq(Messages) /\ Len(F) = max
      BY <1>1, <1>3
    <3>2. j - 1 \in 0 .. Len(F) /\ j - 1 <= Len(F)
      BY <1>2, <3>1
    <3> QED
      BY <3>1, <3>2, SubSeqProperties
  <2> HIDE DEF r
  <2>3. i \in 1 .. Len(r)
    BY <1>2, <2>1, <2>2
  <2> QED
    BY <2>1, <2>2, <2>3, CalledAnswered DEF r
<1>11. WireShape(F)
  BY <1>3, <1>7, <1>9, <1>10 DEF WireShape
<1>12. InOrder(F)
  <2> SUFFICES ASSUME NEW i \in 1 .. max, NEW j \in 1 .. max, i < j, F[i].at # 0, F[j].at # 0
               PROVE  F[i].at < F[j].at
    BY <1>3 DEF InOrder
  <2>1. Place(n, i) < Place(n, j) /\ Place(n, i) \in 1 .. len /\ Place(n, j) \in 1 .. len
    BY <1>5
  <2>2. F[i].at = s[Place(n, i)].at /\ F[j].at = s[Place(n, j)].at
    BY <1>4
  <2> QED
    BY <2>1, <2>2 DEF Wired, len
<1> QED
  BY <1>11, <1>12 DEF F

-----------------------------------------------------------------------------
(* Parts and joins of what is drawn.                                       *)

\* What is drawn from behind the system prompt.
Body(T, s) == Drawn(T, s) /\ \A i \in 1 .. Len(s) : s[i].at # 1

\* Two lists join when the one is older than the other and no batch spans both.
LEMMA JoinIsDrawn ==
  ASSUME NEW T, NEW x, NEW y, Drawn(T, x), Drawn(T, y),
         \A i \in 1 .. Len(x), j \in 1 .. Len(y) :
           /\ x[i].at # 0 /\ y[j].at # 0 => x[i].at < y[j].at
           /\ IsTool(y[j]) => y[j].answers \notin x[i].calls
  PROVE  /\ Drawn(T, x \o y) /\ Len(x \o y) = Len(x) + Len(y)
         /\ \A i \in 1 .. Len(x) : (x \o y)[i] = x[i]
         /\ \A i \in 1 .. Len(y) : (x \o y)[Len(x) + i] = y[i]
<1> DEFINE l == Len(x)
           n == Len(y)
<1>1. x \in Seq(Messages) /\ y \in Seq(Messages) /\ l \in Nat /\ n \in Nat
  BY DEF Drawn
<1>2. PICK z : z = x \o y
  OBVIOUS
<1>3. /\ z \in Seq(Messages) /\ Len(z) = l + n
      /\ \A i \in 1 .. l : z[i] = x[i]
      /\ \A i \in 1 .. n : z[l + i] = y[i]
  <2>1. /\ z \in Seq(Messages) /\ Len(z) = l + n
        /\ \A i \in 1 .. l + n : z[i] = IF i <= l THEN x[i] ELSE y[i - l]
    BY <1>1, <1>2, ConcatProperties
  <2> HIDE DEF l, n
  <2>2. \A i \in 1 .. l : i \in 1 .. l + n /\ i <= l
    BY <1>1
  <2>3. \A i \in 1 .. n : l + i \in 1 .. l + n /\ ~(l + i <= l) /\ (l + i) - l = i
    BY <1>1
  <2> QED
    BY <2>1, <2>2, <2>3
<1> HIDE DEF l, n
<1>4. \A i \in 1 .. l + n : i \in 1 .. l \/ (i - l \in 1 .. n /\ i = l + (i - l))
  BY <1>1
<1>5. /\ \A i \in 1 .. l : IF x[i].at = 0 THEN Added(x[i]) ELSE Copied(T, x[i])
      /\ \A i, j \in 1 .. l : i < j /\ x[i].at # 0 /\ x[j].at # 0 => x[i].at < x[j].at
      /\ \A i, j, k \in 1 .. l :
           i < k /\ k < j /\ IsTool(x[j]) /\ x[j].answers \in x[i].calls => x[k].at # 0
  BY DEF Drawn, l
<1>6. /\ \A i \in 1 .. n : IF y[i].at = 0 THEN Added(y[i]) ELSE Copied(T, y[i])
      /\ \A i, j \in 1 .. n : i < j /\ y[i].at # 0 /\ y[j].at # 0 => y[i].at < y[j].at
      /\ \A i, j, k \in 1 .. n :
           i < k /\ k < j /\ IsTool(y[j]) /\ y[j].answers \in y[i].calls => y[k].at # 0
  BY DEF Drawn, n
<1>7. \A i \in 1 .. l, j \in 1 .. n :
        /\ x[i].at # 0 /\ y[j].at # 0 => x[i].at < y[j].at
        /\ IsTool(y[j]) => y[j].answers \notin x[i].calls
  BY DEF l, n
<1>8. ASSUME NEW i \in 1 .. l + n PROVE IF z[i].at = 0 THEN Added(z[i]) ELSE Copied(T, z[i])
  BY <1>3, <1>4, <1>5, <1>6
<1>9. ASSUME NEW i \in 1 .. l + n, NEW j \in 1 .. l + n, i < j, z[i].at # 0, z[j].at # 0
      PROVE  z[i].at < z[j].at
  <2>1. CASE j \in 1 .. l
    <3>1. i \in 1 .. l
      BY <1>1, <1>9, <2>1
    <3> QED
      BY <1>3, <1>5, <1>9, <2>1, <3>1
  <2>2. CASE i \in 1 .. l /\ j - l \in 1 .. n
    <3> DEFINE q == j - l
    <3>1. q \in 1 .. n /\ j = l + q
      BY <1>1, <2>2
    <3> HIDE DEF q
    <3>2. z[i] = x[i] /\ z[j] = y[q]
      BY <1>3, <2>2, <3>1
    <3> QED
      BY <1>7, <1>9, <2>2, <3>1, <3>2
  <2>3. CASE i - l \in 1 .. n /\ j - l \in 1 .. n
    <3> DEFINE p == i - l
               q == j - l
    <3>1. p \in 1 .. n /\ q \in 1 .. n /\ p < q /\ i = l + p /\ j = l + q
      BY <1>1, <1>9, <2>3
    <3> HIDE DEF p, q
    <3>2. z[i] = y[p] /\ z[j] = y[q]
      BY <1>3, <3>1
    <3> QED
      BY <1>6, <1>9, <3>1, <3>2
  <2> QED
    BY <1>4, <2>1, <2>2, <2>3
<1>10. ASSUME NEW i \in 1 .. l + n, NEW j \in 1 .. l + n, NEW k \in 1 .. l + n,
              i < k, k < j, IsTool(z[j]), z[j].answers \in z[i].calls
       PROVE  z[k].at # 0
  <2>1. CASE j \in 1 .. l
    <3>1. i \in 1 .. l /\ k \in 1 .. l
      BY <1>1, <1>10, <2>1
    <3> QED
      BY <1>3, <1>5, <1>10, <2>1, <3>1
  <2>2. CASE i \in 1 .. l /\ j - l \in 1 .. n
    <3> DEFINE q == j - l
    <3>1. q \in 1 .. n /\ j = l + q
      BY <1>1, <2>2
    <3> HIDE DEF q
    <3>2. z[i] = x[i] /\ z[j] = y[q]
      BY <1>3, <2>2, <3>1
    <3> QED
      BY <1>7, <1>10, <2>2, <3>1, <3>2
  <2>3. CASE i - l \in 1 .. n /\ j - l \in 1 .. n
    <3> DEFINE p == i - l
               q == j - l
               r == k - l
    <3>1. /\ p \in 1 .. n /\ q \in 1 .. n /\ r \in 1 .. n /\ p < r /\ r < q
          /\ i = l + p /\ j = l + q /\ k = l + r
      BY <1>1, <1>10, <2>3
    <3> HIDE DEF p, q, r
    <3>2. z[i] = y[p] /\ z[j] = y[q] /\ z[k] = y[r]
      BY <1>3, <3>1
    <3> QED
      BY <1>6, <1>10, <3>1, <3>2
  <2> QED
    BY <1>4, <2>1, <2>2, <2>3
<1>11. Drawn(T, z)
  BY <1>3, <1>8, <1>9, <1>10 DEF Drawn
<1> QED
  BY <1>2, <1>3, <1>11 DEF l, n

\* One message is a list.
LEMMA OneMessage ==
  ASSUME NEW m \in Messages
  PROVE  <<m>> \in Seq(Messages) /\ Len(<<m>>) = 1 /\ <<m>>[1] = m
  OBVIOUS

\* A message that the pipeline adds is drawn from any transcript.
LEMMA AddedIsDrawn ==
  ASSUME NEW T, NEW m \in Messages, m.at = 0, Added(m)
  PROVE  Body(T, <<m>>)
<1> DEFINE s == <<m>>
<1>1. s \in Seq(Messages) /\ Len(s) = 1 /\ s[1] = m
  BY OneMessage
<1> HIDE DEF s
<1>2. \A i \in 1 .. Len(s) : i = 1 /\ s[i] = m
  BY <1>1
<1>3. Drawn(T, s)
  <2>1. \A i, j \in 1 .. Len(s) : ~(i < j)
    BY <1>1
  <2> QED
    BY <1>1, <1>2, <2>1 DEF Drawn
<1>4. Body(T, s)
  BY <1>2, <1>3 DEF Body
<1> QED
  BY <1>4 DEF s

\* It may stand in front ...
LEMMA AddedFirst ==
  ASSUME NEW T, NEW s, Body(T, s), NEW m \in Messages, m.at = 0, Added(m)
  PROVE  /\ Body(T, <<m>> \o s) /\ Len(<<m>> \o s) = Len(s) + 1 /\ (<<m>> \o s)[1] = m
         /\ \A i \in 1 .. Len(s) : (<<m>> \o s)[1 + i] = s[i]
<1> DEFINE one == <<m>>
           z == one \o s
<1>1. Len(one) = 1 /\ one[1] = m /\ Drawn(T, one) /\ Drawn(T, s) /\ Len(s) \in Nat
      /\ \A i \in 1 .. Len(s) : s[i].at # 1
  BY OneMessage, AddedIsDrawn DEF Body, Drawn
<1> HIDE DEF one
<1>2. \A i \in 1 .. Len(one), j \in 1 .. Len(s) : one[i].at = 0 /\ s[j].answers \notin one[i].calls
  <2>1. \A i \in 1 .. Len(one) : one[i] = m
    BY <1>1
  <2> QED
    BY <2>1 DEF Added
<1>3. /\ Drawn(T, z) /\ Len(z) = Len(one) + Len(s)
      /\ \A i \in 1 .. Len(one) : z[i] = one[i]
      /\ \A i \in 1 .. Len(s) : z[Len(one) + i] = s[i]
  <2>1. \A i \in 1 .. Len(one), j \in 1 .. Len(s) :
          /\ one[i].at # 0 /\ s[j].at # 0 => one[i].at < s[j].at
          /\ IsTool(s[j]) => s[j].answers \notin one[i].calls
    BY <1>2
  <2>2. Drawn(T, one) /\ Drawn(T, s)
    BY <1>1
  <2> QED
    BY <2>1, <2>2, JoinIsDrawn
<1> HIDE DEF z
<1>4. 1 \in 1 .. Len(one)
  BY <1>1
<1>5. Len(z) = Len(s) + 1 /\ z[1] = m /\ \A i \in 1 .. Len(s) : z[1 + i] = s[i]
  BY <1>1, <1>3, <1>4
<1>6. \A i \in 1 .. Len(z) : z[i].at # 1
  <2> SUFFICES ASSUME NEW i \in 1 .. Len(z) PROVE z[i].at # 1
    OBVIOUS
  <2>1. CASE i = 1
    BY <1>5, <2>1
  <2>2. CASE i # 1
    <3>1. i - 1 \in 1 .. Len(s) /\ i = 1 + (i - 1)
      BY <1>1, <1>5, <2>2
    <3>2. z[1 + (i - 1)] = s[i - 1] /\ s[i - 1].at # 1
      BY <1>1, <1>5, <3>1
    <3> QED
      BY <3>1, <3>2
  <2> QED
    BY <2>1, <2>2
<1> QED
  BY <1>3, <1>5, <1>6 DEF Body, z, one

\* ... or at the end.
LEMMA AddedLast ==
  ASSUME NEW T, NEW s, Body(T, s), NEW m \in Messages, m.at = 0, Added(m)
  PROVE  /\ Body(T, Append(s, m)) /\ Len(Append(s, m)) = Len(s) + 1 /\ Append(s, m)[Len(s) + 1] = m
         /\ \A i \in 1 .. Len(s) : Append(s, m)[i] = s[i]
<1> DEFINE one == <<m>>
           z == s \o one
<1>1. Len(one) = 1 /\ one[1] = m /\ Drawn(T, one) /\ Drawn(T, s) /\ Len(s) \in Nat
      /\ s \in Seq(Messages) /\ \A i \in 1 .. Len(s) : s[i].at # 1
  BY OneMessage, AddedIsDrawn DEF Body, Drawn
<1>2. Append(s, m) = z
  BY <1>1
<1> HIDE DEF one
<1>3. \A i \in 1 .. Len(s), j \in 1 .. Len(one) : one[j].at = 0 /\ ~IsTool(one[j])
  <2>1. \A i \in 1 .. Len(one) : one[i] = m
    BY <1>1
  <2> QED
    BY <2>1 DEF Added
<1>4. /\ Drawn(T, z) /\ Len(z) = Len(s) + Len(one)
      /\ \A i \in 1 .. Len(s) : z[i] = s[i]
      /\ \A i \in 1 .. Len(one) : z[Len(s) + i] = one[i]
  <2>1. \A i \in 1 .. Len(s), j \in 1 .. Len(one) :
          /\ s[i].at # 0 /\ one[j].at # 0 => s[i].at < one[j].at
          /\ IsTool(one[j]) => one[j].answers \notin s[i].calls
    BY <1>3
  <2>2. Drawn(T, one) /\ Drawn(T, s)
    BY <1>1
  <2> QED
    BY <2>1, <2>2, JoinIsDrawn
<1> HIDE DEF z
<1>5. 1 \in 1 .. Len(one)
  BY <1>1
<1>6. Len(z) = Len(s) + 1 /\ z[Len(s) + 1] = m /\ \A i \in 1 .. Len(s) : z[i] = s[i]
  BY <1>1, <1>4, <1>5
<1>7. \A i \in 1 .. Len(z) : z[i].at # 1
  <2>1. \A i \in 1 .. Len(z) : i = Len(s) + 1 \/ i \in 1 .. Len(s)
    BY <1>1, <1>6
  <2> QED
    BY <1>1, <1>6, <2>1
<1> QED
  BY <1>2, <1>4, <1>6, <1>7 DEF Body

\* The messages behind the system prompt are a body, and the first is no result.
LEMMA TailIsBody ==
  ASSUME NEW T, Story(T)
  PROVE  /\ Body(T, Tail(T)) /\ Len(Tail(T)) = Len(T) - 1
         /\ \A i \in 1 .. Len(T) - 1 : Tail(T)[i] = T[i + 1]
         /\ Len(T) > 1 => ~IsTool(T[2])
<1> DEFINE t == Tail(T)
<1>1. T \in Seq(Messages) /\ Len(T) \in Nat /\ Len(T) # 0 /\ T # <<>>
  BY DEF Story
<1>2. t \in Seq(Messages) /\ Len(t) = Len(T) - 1 /\ \A i \in 1 .. Len(t) : t[i] = T[i + 1]
  BY <1>1, HeadTailProperties
<1> HIDE DEF t
<1>3. \A i \in 1 .. Len(t) : i + 1 \in 1 .. Len(T) /\ t[i] = T[i + 1] /\ t[i].at = i + 1
  BY <1>1, <1>2 DEF Story
<1>4. \A i \in 1 .. Len(T) : T[i].size \in Nat
  <2>1. \A i \in 1 .. Len(T) : T[i] \in Messages
    BY <1>1
  <2>2. \A m \in Messages : m.size \in Nat
    BY DEF Messages
  <2> QED
    BY <2>1, <2>2
<1>5. Drawn(T, t)
  <2>1. \A i \in 1 .. Len(t) : t[i].at # 0 /\ t[i].at # 1
    BY <1>2, <1>3
  <2>2. \A i \in 1 .. Len(t) : Copied(T, t[i])
    BY <1>3, <1>4 DEF Copied
  <2>3. \A i, j \in 1 .. Len(t) : i < j => t[i].at < t[j].at
    BY <1>3
  <2> QED
    BY <1>2, <2>1, <2>2, <2>3 DEF Drawn
<1>6. Body(T, t)
  <2>1. \A i \in 1 .. Len(t) : t[i].at # 1
    BY <1>2, <1>3
  <2> QED
    BY <1>5, <2>1 DEF Body
<1>7. ASSUME Len(T) > 1, IsTool(T[2]) PROVE FALSE
  <2>1. 2 \in 1 .. Len(T) /\ 1 \in 1 .. Len(T) /\ \A a \in 1 .. 2 - 1 : a = 1
    BY <1>1, <1>7
  <2>2. PICK a \in 1 .. 2 - 1 : Asks(T, a, 2)
    BY <1>7, <2>1 DEF Story
  <2>3. T[1].calls # {}
    BY <2>1, <2>2 DEF Asks
  <2>4. T[1].role = "system" /\ \A i \in 1 .. Len(T) : T[i].role # "assistant" => T[i].calls = {}
    BY DEF Story
  <2> QED
    BY <2>1, <2>3, <2>4
<1> QED
  BY <1>2, <1>6, <1>7 DEF t

\* The system prompt comes before its body.
LEMMA HeadFirst ==
  ASSUME NEW T, NEW s, Story(T), Body(T, s)
  PROVE  LET z == <<Head(T)>> \o s
         IN  /\ Drawn(T, z) /\ Len(z) = Len(s) + 1 /\ z[1] = T[1] /\ T[1] \in Messages
             /\ \A i \in 1 .. Len(s) : z[1 + i] = s[i]
<1> DEFINE m == Head(T)
           one == <<m>>
           z == one \o s
<1>1. T \in Seq(Messages) /\ Len(T) \in Nat /\ Len(T) # 0 /\ 1 \in 1 .. Len(T)
  BY DEF Story
<1>2. m = T[1] /\ T[1] \in Messages
  BY <1>1
<1> HIDE DEF m
<1>3. m.at = 1 /\ m.role = "system" /\ m.size = 0 /\ m.calls = {}
  <2>1. \A i \in 1 .. Len(T) : T[i].at = i /\ (T[i].role # "assistant" => T[i].calls = {})
    BY DEF Story
  <2>2. T[1].role = "system" /\ T[1].size = 0
    BY DEF Story
  <2> QED
    BY <1>1, <1>2, <2>1, <2>2
<1>4. one \in Seq(Messages) /\ Len(one) = 1 /\ one[1] = m
  BY <1>2, OneMessage
<1> HIDE DEF one
<1>5. \A i \in 1 .. Len(one) : i = 1 /\ one[i] = m
  BY <1>4
<1>6. Drawn(T, one)
  <2>1. Copied(T, m)
    BY <1>1, <1>2, <1>3 DEF Copied
  <2>2. \A i, j \in 1 .. Len(one) : ~(i < j)
    BY <1>4
  <2> QED
    BY <1>3, <1>4, <1>5, <2>1, <2>2 DEF Drawn
<1>7. ASSUME NEW i \in 1 .. Len(one), NEW j \in 1 .. Len(s), s[j].at # 0 PROVE one[i].at < s[j].at
  <2>1. Copied(T, s[j]) /\ s[j].at # 1
    BY <1>7 DEF Body, Drawn
  <2>2. s[j].at \in 1 .. Len(T)
    BY <2>1 DEF Copied
  <2> QED
    BY <1>1, <1>3, <1>5, <2>1, <2>2
<1>8. \A i \in 1 .. Len(one), j \in 1 .. Len(s) : s[j].answers \notin one[i].calls
  BY <1>3, <1>5
<1>9. /\ Drawn(T, z) /\ Len(z) = Len(one) + Len(s)
      /\ \A i \in 1 .. Len(one) : z[i] = one[i]
      /\ \A i \in 1 .. Len(s) : z[Len(one) + i] = s[i]
  <2>1. Drawn(T, s)
    BY DEF Body
  <2> HIDE DEF z
  <2> QED
    BY <1>6, <1>7, <1>8, <2>1, JoinIsDrawn DEF z
<1> HIDE DEF z
<1>10. Len(s) \in Nat /\ 1 \in 1 .. Len(one)
  BY <1>4 DEF Body, Drawn
<1>11. Len(z) = Len(s) + 1 /\ z[1] = T[1] /\ \A i \in 1 .. Len(s) : z[1 + i] = s[i]
  BY <1>2, <1>4, <1>9, <1>10
<1> QED
  BY <1>2, <1>9, <1>11 DEF z, one, m

\* A section of a body is a body.
LEMMA SubSeqIsBody ==
  ASSUME NEW T, NEW s, Story(T), Body(T, s), NEW a \in 1 .. Len(s) + 1, NEW b \in 0 .. Len(s), a <= b + 1
  PROVE  /\ Body(T, SubSeq(s, a, b)) /\ Len(SubSeq(s, a, b)) = b - a + 1
         /\ \A i \in 1 .. b - a + 1 : SubSeq(s, a, b)[i] = s[a + i - 1]
<1> DEFINE r == SubSeq(s, a, b)
           n == b - a + 1
<1>1. s \in Seq(Messages) /\ Drawn(T, s) /\ Len(s) \in Nat /\ \A i \in 1 .. Len(s) : s[i].at # 1
  BY DEF Body, Drawn
<1>2. n \in Nat /\ \A i \in 1 .. n : a + i - 1 \in 1 .. Len(s)
  BY <1>1
<1>3. r \in Seq(Messages) /\ Len(r) = n /\ \A i \in 1 .. n : r[i] = s[a + i - 1]
  <2>1. CASE a <= b
    <3>1. /\ SubSeq(s, a, b) \in Seq(Messages)
          /\ Len(SubSeq(s, a, b)) = IF a <= b THEN b - a + 1 ELSE 0
          /\ \A i \in 1 .. b - a + 1 : SubSeq(s, a, b)[i] = s[a + i - 1]
      BY <1>1, SubSeqProperties
    <3> QED
      BY <2>1, <3>1
  <2>2. CASE ~(a <= b)
    <3>1. n = 0
      BY <1>1, <2>2
    <3>2. r = <<>>
      BY <1>1, <2>2
    <3> HIDE DEF r, n
    <3>3. <<>> \in Seq(Messages) /\ Len(<<>>) = 0
      OBVIOUS
    <3> QED
      BY <3>1, <3>2, <3>3
  <2> QED
    BY <2>1, <2>2
<1> HIDE DEF r, n
<1> DEFINE f == [i \in 1 .. n |-> a + i - 1]
<1>4. /\ f \in [1 .. Len(r) -> 1 .. Len(s)]
      /\ (\A j, k \in 1 .. Len(r) : j < k => f[j] < f[k]) /\ \A k \in 1 .. Len(r) : r[k] = s[f[k]]
  BY <1>1, <1>2, <1>3
<1> HIDE DEF f
<1>5. /\ \A k \in 1 .. Len(r) : s[f[k]] \in Messages /\ s[f[k]].at # 1
      /\ \A m \in Messages : m.size \in Nat
  <2>1. \A k \in 1 .. Len(r) : f[k] \in 1 .. Len(s)
    BY <1>4
  <2>2. \A k \in 1 .. Len(s) : s[k] \in Messages
    BY <1>1
  <2> QED
    BY <1>1, <2>1, <2>2 DEF Messages
<1>6. Drawn(T, r)
  <2>1. \A k \in 1 .. Len(r) :
          /\ r[k].at = s[f[k]].at /\ r[k].role = s[f[k]].role /\ r[k].answers = s[f[k]].answers
          /\ r[k].calls \subseteq s[f[k]].calls /\ r[k].size <= s[f[k]].size
    BY <1>4, <1>5
  <2> QED
    BY <1>1, <1>3, <1>4, <2>1, PartIsDrawn
<1>7. Body(T, r)
  BY <1>4, <1>5, <1>6 DEF Body
<1> QED
  BY <1>3, <1>7 DEF r, n

\* A selection of a body is a body.
LEMMA ChosenIsBody ==
  ASSUME NEW T, NEW s, Story(T), Body(T, s), NEW places \in SUBSET (1 .. Len(s))
  PROVE  Body(T, Chosen(s, places)) /\ \E f : Selects(f, s, places, Chosen(s, places))
<1> DEFINE r == Chosen(s, places)
<1>1. s \in Seq(Messages) /\ Drawn(T, s) /\ \A i \in 1 .. Len(s) : s[i].at # 1
  BY DEF Body, Drawn
<1>2. r \in Seq(Messages) /\ \E f : Selects(f, s, places, r)
  BY <1>1, ChosenIs
<1> HIDE DEF r
<1>3. PICK f : Selects(f, s, places, r)
  BY <1>2
<1>4. /\ f \in [1 .. Len(r) -> 1 .. Len(s)]
      /\ (\A j, k \in 1 .. Len(r) : j < k => f[j] < f[k]) /\ \A k \in 1 .. Len(r) : r[k] = s[f[k]]
  BY <1>3 DEF Selects
<1>5. /\ \A k \in 1 .. Len(r) : s[f[k]] \in Messages /\ s[f[k]].at # 1
      /\ \A m \in Messages : m.size \in Nat
  <2>1. \A k \in 1 .. Len(r) : f[k] \in 1 .. Len(s)
    BY <1>4
  <2>2. \A k \in 1 .. Len(s) : s[k] \in Messages
    BY <1>1
  <2> QED
    BY <1>1, <2>1, <2>2 DEF Messages
<1>6. Drawn(T, r)
  <2>1. \A k \in 1 .. Len(r) :
          /\ r[k].at = s[f[k]].at /\ r[k].role = s[f[k]].role /\ r[k].answers = s[f[k]].answers
          /\ r[k].calls \subseteq s[f[k]].calls /\ r[k].size <= s[f[k]].size
    BY <1>4, <1>5
  <2> QED
    BY <1>1, <1>2, <1>4, <2>1, PartIsDrawn
<1>7. Body(T, r)
  BY <1>4, <1>5, <1>6 DEF Body
<1> QED
  BY <1>2, <1>7 DEF r

\* Leading results go.
LEMMA WithoutLeadingToolsIs ==
  ASSUME NEW s \in Seq(Messages)
  PROVE  \/ WithoutLeadingTools(s) = <<>> /\ \A i \in 1 .. Len(s) : IsTool(s[i])
         \/ \E m \in 1 .. Len(s) :
              /\ WithoutLeadingTools(s) = SubSeq(s, m, Len(s))
              /\ ~IsTool(s[m]) /\ \A i \in 1 .. m - 1 : IsTool(s[i])
<1> DEFINE len == Len(s)
           owned == {i \in 1 .. len : ~IsTool(s[i])}
<1>1. DOMAIN s = 1 .. len /\ len \in Nat
  OBVIOUS
<1>2. WithoutLeadingTools(s) = IF owned = {} THEN << >> ELSE SubSeq(s, Min(owned), len)
  BY <1>1 DEF WithoutLeadingTools
<1> HIDE DEF len
<1>3. CASE owned = {}
  BY <1>2, <1>3 DEF len
<1>4. CASE owned # {}
  <2> DEFINE m == Min(owned)
  <2>1. owned \in SUBSET Nat
    BY <1>1
  <2>2. m \in owned /\ \A i \in owned : m <= i
    BY <1>4, <2>1, MinIs
  <2>3. WithoutLeadingTools(s) = SubSeq(s, m, len)
    BY <1>2, <1>4
  <2> HIDE DEF m
  <2>4. m \in 1 .. len /\ ~IsTool(s[m])
    BY <2>2
  <2>5. \A i \in 1 .. m - 1 : i \in 1 .. len /\ ~(m <= i)
    BY <1>1, <2>4
  <2>6. \A i \in 1 .. m - 1 : IsTool(s[i])
    BY <2>2, <2>5
  <2> QED
    BY <2>3, <2>4, <2>6 DEF len
<1> QED
  BY <1>3, <1>4

\* From a on nothing of the transcript is missing, and every message has its calls.
Whole(T, s, a) ==
  /\ \A i \in 1 .. Len(s) : s[i].at # 0 => s[i].at >= a /\ s[i].calls = T[s[i].at].calls
  /\ \A k \in a .. Len(T) : \E i \in 1 .. Len(s) : s[i].at = k

\* A window ends with all the messages that it holds, and starts with no result.
LEMMA WindowedIs ==
  ASSUME NEW T, Story(T)
  PROVE  \E a \in 2 .. Len(T) + 1 :
           /\ Body(T, Windowed(Tail(T))) /\ Whole(T, Windowed(Tail(T)), a)
           /\ a <= Len(T) => ~IsTool(T[a])
           /\ IF Len(Tail(T)) <= Window THEN a = 2 ELSE a <= Len(T) - Window + 1
<1> DEFINE t == Tail(T)
           len == Len(t)
<1>1. /\ Body(T, t) /\ len = Len(T) - 1 /\ (\A i \in 1 .. len : t[i] = T[i + 1])
      /\ Len(T) > 1 => ~IsTool(T[2])
  BY TailIsBody
<1> HIDE DEF t
<1>2. t \in Seq(Messages) /\ len \in Nat /\ Len(T) \in Nat /\ Len(T) = len + 1
  BY <1>1 DEF Body, Drawn, Story
<1>3. Window \in Nat /\ Window # 0
  BY ContextAssumption
<1>4. \A k \in 1 .. Len(T) : T[k].at = k
  BY DEF Story
<1>5. \A i \in 1 .. len : t[i].at = i + 1 /\ t[i].calls = T[i + 1].calls
  BY <1>1, <1>2, <1>4
<1>6. CASE len <= Window
  <2>1. Windowed(t) = t
    BY <1>6 DEF Windowed
  <2>2. Whole(T, t, 2)
    <3>1. \A i \in 1 .. len : t[i].at >= 2 /\ t[i].calls = T[t[i].at].calls
      BY <1>2, <1>5
    <3>2. ASSUME NEW k \in 2 .. Len(T) PROVE \E i \in 1 .. len : t[i].at = k
      <4>1. k - 1 \in 1 .. len /\ (k - 1) + 1 = k
        BY <1>2
      <4> QED
        BY <1>5, <4>1
    <3> QED
      BY <3>1, <3>2 DEF Whole
  <2>3. 2 \in 2 .. Len(T) + 1 /\ (2 <= Len(T) => ~IsTool(T[2]))
    BY <1>1, <1>2, <1>6
  <2>4. Body(T, Windowed(t)) /\ Whole(T, Windowed(t), 2)
    BY <1>1, <2>1, <2>2
  <2> QED
    BY <1>6, <2>3, <2>4 DEF t
<1>7. CASE ~(len <= Window)
  <2> DEFINE S == {i \in 1 .. len - Window + 1 : i = 1 \/ ~IsTool(t[i])}
             cut == Max(S)
             r == SubSeq(t, cut, len)
  <2>1. len - Window + 1 \in Nat /\ 1 \in S /\ S \in SUBSET (0 .. len - Window + 1)
    BY <1>2, <1>3, <1>7
  <2>2. cut \in S
    <3> HIDE DEF S
    <3> QED
      BY <2>1, MaxIs
  <2>3. Windowed(t) = WithoutLeadingTools(r)
    BY <1>7 DEF Windowed
  <2> HIDE DEF cut
  <2>4. cut \in 1 .. len /\ cut <= len - Window + 1 /\ cut + 1 \in 2 .. Len(T) + 1 /\ ~IsTool(T[cut + 1])
        /\ t[cut] = T[cut + 1]
    <3>1. cut \in 1 .. len /\ cut <= len - Window + 1
      BY <1>2, <1>3, <2>2
    <3>2. ~IsTool(T[cut + 1]) /\ t[cut] = T[cut + 1]
      <4>1. CASE cut = 1
        BY <1>1, <1>2, <3>1, <4>1
      <4>2. CASE cut # 1
        BY <1>1, <2>2, <3>1, <4>2
      <4> QED
        BY <4>1, <4>2
    <3> QED
      BY <1>2, <3>1, <3>2
  <2>5. Body(T, r) /\ Len(r) = len - cut + 1 /\ \A i \in 1 .. len - cut + 1 : r[i] = t[cut + i - 1]
    <3>1. cut \in 1 .. Len(t) + 1 /\ len \in 0 .. Len(t) /\ cut <= len + 1
      BY <1>2, <2>4
    <3> HIDE DEF len
    <3> QED
      BY <1>1, <3>1, SubSeqIsBody
  <2> HIDE DEF r, S
  <2>6. r \in Seq(Messages) /\ Len(r) \in Nat /\ 1 \in 1 .. Len(r) /\ r[1] = t[cut]
    <3>1. 1 \in 1 .. len - cut + 1 /\ cut + 1 - 1 = cut
      BY <1>2, <2>4
    <3> QED
      BY <2>5, <3>1 DEF Body, Drawn
  <2>7. Windowed(t) = r
    <3>1. ~IsTool(r[1])
      BY <2>4, <2>6
    <3>2. PICK m \in 1 .. Len(r) : /\ WithoutLeadingTools(r) = SubSeq(r, m, Len(r))
                                   /\ \A i \in 1 .. m - 1 : IsTool(r[i])
      BY <2>6, <3>1, WithoutLeadingToolsIs
    <3>3. m = 1
      <4>1. CASE m > 1
        <5>1. 1 \in 1 .. m - 1
          BY <2>6, <4>1
        <5> QED
          BY <3>1, <3>2, <5>1
      <4> QED
        BY <2>6, <4>1
    <3>4. SubSeq(r, 1, Len(r)) = r
      BY <2>6
    <3> QED
      BY <2>3, <3>2, <3>3, <3>4
  <2>8. \A i \in 1 .. Len(r) : cut + i - 1 \in 1 .. len /\ r[i].at = cut + i /\ r[i].calls = T[cut + i].calls
    <3>1. \A i \in 1 .. Len(r) : cut + i - 1 \in 1 .. len /\ (cut + i - 1) + 1 = cut + i
      BY <1>2, <2>4, <2>5
    <3> QED
      BY <1>5, <2>5, <3>1
  <2>9. Whole(T, r, cut + 1)
    <3>1. ASSUME NEW i \in 1 .. Len(r) PROVE r[i].at >= cut + 1 /\ r[i].calls = T[r[i].at].calls
      <4>1. i >= 1 /\ i \in Nat
        BY <2>6
      <4>2. r[i].at = cut + i /\ r[i].calls = T[cut + i].calls
        BY <2>8
      <4> QED
        BY <1>2, <2>4, <4>1, <4>2
    <3>2. ASSUME NEW k \in cut + 1 .. Len(T) PROVE \E i \in 1 .. Len(r) : r[i].at = k
      <4>1. k - cut \in 1 .. Len(r) /\ cut + (k - cut) = k
        BY <1>2, <2>4, <2>5
      <4> QED
        BY <2>8, <4>1
    <3> QED
      BY <3>1, <3>2 DEF Whole
  <2>10. cut + 1 <= Len(T) - Window + 1
    BY <1>2, <1>3, <2>4
  <2> QED
    BY <1>7, <2>4, <2>5, <2>7, <2>9, <2>10 DEF t
<1> QED
  BY <1>6, <1>7

-----------------------------------------------------------------------------
(* Every strategy leaves a body.                                           *)

\* The notes of the pipeline are its own.
LEMMA NotesAreAdded ==
  /\ Note \in Messages /\ Note.at = 0 /\ Added(Note)
  /\ Retrieved \in Messages /\ Retrieved.at = 0 /\ Added(Retrieved)
<1>1. NoCall \in CallIds /\ {} \in SUBSET CallIds
  BY DEF NoCall, CallIds
<1> QED
  BY <1>1 DEF Note, Retrieved, Entry, Messages, Roles, Added, IsTool

\* Nothing is a body.
LEMMA NothingIsBody == \A T : Body(T, <<>>)
<1> DEFINE e == <<>>
<1>1. e \in Seq(Messages) /\ 1 .. Len(e) = {}
  OBVIOUS
<1> HIDE DEF e
<1>2. \A T : Drawn(T, e)
  BY <1>1 DEF Drawn
<1>3. \A T : Body(T, e)
  BY <1>1, <1>2 DEF Body
<1> QED
  BY <1>3 DEF e

\* A note takes nothing from what is whole.
LEMMA AddedIsWhole ==
  ASSUME NEW T, NEW s, Body(T, s), NEW m \in Messages, m.at = 0, Added(m), NEW a, Whole(T, s, a)
  PROVE  /\ Whole(T, <<m>> \o s, a) /\ m \in ToSet(<<m>> \o s) /\ ToSet(s) \subseteq ToSet(<<m>> \o s)
         /\ Whole(T, Append(s, m), a) /\ m \in ToSet(Append(s, m)) /\ ToSet(s) \subseteq ToSet(Append(s, m))
<1>1. Len(s) \in Nat /\ s \in Seq(Messages)
  BY DEF Body, Drawn
<1>2. \A z : z \in Seq(Messages) => ToSet(z) = {z[i] : i \in 1 .. Len(z)}
  BY DEF ToSet
<1> DEFINE Holds(z, p, o) ==
      /\ Body(T, z) /\ p \in 1 .. Len(z) /\ z[p] = m /\ o \in [1 .. Len(s) -> 1 .. Len(z)]
      /\ \A i \in 1 .. Len(s) : z[o[i]] = s[i]
      /\ \A i \in 1 .. Len(z) : i = p \/ \E j \in 1 .. Len(s) : o[j] = i
<1>3. ASSUME NEW z, NEW p, NEW o, Holds(z, p, o)
      PROVE  Whole(T, z, a) /\ m \in ToSet(z) /\ ToSet(s) \subseteq ToSet(z)
  <2>1. ASSUME NEW i \in 1 .. Len(z) PROVE z[i] = m \/ \E j \in 1 .. Len(s) : z[i] = s[j]
    <3>1. CASE i = p
      BY <1>3, <3>1
    <3>2. CASE i # p
      <4>1. PICK j \in 1 .. Len(s) : o[j] = i
        BY <1>3, <3>2
      <4>2. z[o[j]] = s[j]
        BY <1>3
      <4> QED
        BY <4>1, <4>2
    <3> QED
      BY <3>1, <3>2
  <2>2. \A i \in 1 .. Len(z) : z[i].at # 0 => z[i].at >= a /\ z[i].calls = T[z[i].at].calls
    BY <2>1 DEF Whole
  <2>3. \A k \in a .. Len(T) : \E i \in 1 .. Len(z) : z[i].at = k
    <3> SUFFICES ASSUME NEW k \in a .. Len(T) PROVE \E i \in 1 .. Len(z) : z[i].at = k
      OBVIOUS
    <3>1. PICK i \in 1 .. Len(s) : s[i].at = k
      BY DEF Whole
    <3>2. o[i] \in 1 .. Len(z) /\ z[o[i]] = s[i]
      BY <1>3
    <3> QED
      BY <3>1, <3>2
  <2>4. z \in Seq(Messages)
    BY <1>3 DEF Body, Drawn
  <2>5. ToSet(s) \subseteq ToSet(z) /\ m \in ToSet(z)
    <3>1. \A i \in 1 .. Len(s) : s[i] \in {z[j] : j \in 1 .. Len(z)}
      BY <1>3
    <3>2. m \in {z[j] : j \in 1 .. Len(z)}
      BY <1>3
    <3>3. ToSet(s) = {s[i] : i \in 1 .. Len(s)}
      BY <1>1, <1>2
    <3>4. ToSet(z) = {z[j] : j \in 1 .. Len(z)}
      BY <1>2, <2>4
    <3> DEFINE Z == {z[j] : j \in 1 .. Len(z)}
    <3> HIDE DEF Z
    <3>5. ToSet(z) = Z /\ m \in Z /\ \A i \in 1 .. Len(s) : s[i] \in Z
      BY <3>1, <3>2, <3>4 DEF Z
    <3> QED
      BY <3>3, <3>5
  <2> QED
    BY <2>2, <2>3, <2>5 DEF Whole
<1>4. Whole(T, <<m>> \o s, a) /\ m \in ToSet(<<m>> \o s) /\ ToSet(s) \subseteq ToSet(<<m>> \o s)
  <2> DEFINE z == <<m>> \o s
             o == [i \in 1 .. Len(s) |-> 1 + i]
             p == 1
  <2>1. Body(T, z) /\ Len(z) = Len(s) + 1 /\ z[1] = m /\ \A i \in 1 .. Len(s) : z[1 + i] = s[i]
    BY AddedFirst
  <2> HIDE DEF z
  <2>2. /\ p \in 1 .. Len(z) /\ z[p] = m
        /\ o \in [1 .. Len(s) -> 1 .. Len(z)] /\ \A i \in 1 .. Len(s) : z[o[i]] = s[i]
    BY <1>1, <2>1
  <2>3. ASSUME NEW i \in 1 .. Len(z) PROVE i = p \/ \E j \in 1 .. Len(s) : o[j] = i
    <3>1. i # 1 => i - 1 \in 1 .. Len(s) /\ 1 + (i - 1) = i
      BY <1>1, <2>1
    <3> QED
      BY <3>1
  <2> HIDE DEF o, p
  <2>5. Holds(z, p, o)
    BY <2>1, <2>2, <2>3
  <2> HIDE DEF Holds
  <2>4. Whole(T, z, a) /\ m \in ToSet(z) /\ ToSet(s) \subseteq ToSet(z)
    BY <1>3, <2>5
  <2> QED
    BY <2>4 DEF z
<1>5. Whole(T, Append(s, m), a) /\ m \in ToSet(Append(s, m)) /\ ToSet(s) \subseteq ToSet(Append(s, m))
  <2> DEFINE z == Append(s, m)
             o == [i \in 1 .. Len(s) |-> i]
             p == Len(s) + 1
  <2>1. Body(T, z) /\ Len(z) = Len(s) + 1 /\ z[Len(s) + 1] = m /\ \A i \in 1 .. Len(s) : z[i] = s[i]
    BY AddedLast
  <2> HIDE DEF z
  <2>2. /\ p \in 1 .. Len(z) /\ z[p] = m
        /\ o \in [1 .. Len(s) -> 1 .. Len(z)] /\ \A i \in 1 .. Len(s) : z[o[i]] = s[i]
    BY <1>1, <2>1
  <2>3. ASSUME NEW i \in 1 .. Len(z) PROVE i = p \/ \E j \in 1 .. Len(s) : o[j] = i
    <3>1. i # p => i \in 1 .. Len(s)
      BY <1>1, <2>1
    <3> QED
      BY <3>1
  <2> HIDE DEF o, p
  <2>5. Holds(z, p, o)
    BY <2>1, <2>2, <2>3
  <2> HIDE DEF Holds
  <2>4. Whole(T, z, a) /\ m \in ToSet(z) /\ ToSet(s) \subseteq ToSet(z)
    BY <1>3, <2>5
  <2> QED
    BY <2>4 DEF z
<1> QED
  BY <1>4, <1>5

\* The pruned window keeps its messages.
LEMMA PrunedIs ==
  ASSUME NEW T, Story(T), NEW s, Body(T, s), NEW a, Whole(T, s, a)
  PROVE  LET r == [i \in DOMAIN s |-> Pruned(s[i])] IN Body(T, r) /\ Whole(T, r, a)
<1> DEFINE r == [i \in DOMAIN s |-> Pruned(s[i])]
<1>1. s \in Seq(Messages) /\ Drawn(T, s) /\ (\A i \in 1 .. Len(s) : s[i].at # 1) /\ Len(s) \in Nat
  BY DEF Body, Drawn
<1>2. TailBudget \in Nat
  BY ContextAssumption
<1>3. ASSUME NEW m \in Messages
      PROVE  /\ Pruned(m) \in Messages /\ Pruned(m).at = m.at /\ Pruned(m).role = m.role
             /\ Pruned(m).answers = m.answers /\ Pruned(m).calls = m.calls
             /\ Pruned(m).size <= m.size
  <2>1. m.size \in Nat
    BY DEF Messages
  <2>2. CASE IsTool(m) /\ m.size > TailBudget
    <3>1. Pruned(m) = [m EXCEPT !.size = TailBudget]
      BY <2>2 DEF Pruned
    <3> QED
      BY <1>2, <2>1, <2>2, <3>1 DEF Messages
  <2>3. CASE ~(IsTool(m) /\ m.size > TailBudget)
    <3>1. Pruned(m) = m
      BY <2>3 DEF Pruned
    <3> QED
      BY <2>1, <3>1
  <2> QED
    BY <2>2, <2>3
<1>4. DOMAIN s = 1 .. Len(s) /\ \A i \in 1 .. Len(s) : s[i] \in Messages
  BY <1>1
<1>5. r \in Seq(Messages) /\ Len(r) = Len(s) /\ \A i \in 1 .. Len(s) : r[i] = Pruned(s[i])
  <2>1. r \in [1 .. Len(s) -> Messages]
    BY <1>3, <1>4
  <2> QED
    BY <1>1, <1>4, <2>1
<1> HIDE DEF r
<1>6. \A i \in 1 .. Len(r) :
        /\ r[i].at = s[i].at /\ r[i].role = s[i].role /\ r[i].answers = s[i].answers
        /\ r[i].calls = s[i].calls /\ r[i].size <= s[i].size
  BY <1>3, <1>4, <1>5
<1>7. Drawn(T, r)
  <2> DEFINE f == [i \in 1 .. Len(r) |-> i]
  <2>1. /\ f \in [1 .. Len(r) -> 1 .. Len(s)] /\ \A i \in 1 .. Len(r) : f[i] = i
    BY <1>5
  <2> HIDE DEF f
  <2>2. \A j, k \in 1 .. Len(r) : j < k => f[j] < f[k]
    BY <2>1
  <2>3. \A k \in 1 .. Len(r) :
          /\ r[k].at = s[f[k]].at /\ r[k].role = s[f[k]].role /\ r[k].answers = s[f[k]].answers
          /\ r[k].calls \subseteq s[f[k]].calls /\ r[k].size <= s[f[k]].size
    BY <1>6, <2>1
  <2> QED
    BY <1>1, <1>5, <2>1, <2>2, <2>3, PartIsDrawn
<1>8. Body(T, r)
  BY <1>1, <1>5, <1>6, <1>7 DEF Body
<1>9. Whole(T, r, a)
  BY <1>5, <1>6 DEF Whole
<1> QED
  BY <1>8, <1>9 DEF r

\* The repair of a body is a body.
LEMMA PairedIsBody ==
  ASSUME NEW T, NEW s, Story(T), Body(T, s)
  PROVE  Body(T, Paired(s)) /\ ComesFrom(s, Paired(s))
<1>1. Drawn(T, s) /\ \A i \in 1 .. Len(s) : s[i].at # 1
  BY DEF Body
<1>2. Drawn(T, Paired(s)) /\ ComesFrom(s, Paired(s))
  BY <1>1, PairedIsBalanced
<1> QED
  BY <1>1, <1>2 DEF Body, ComesFrom

\* A body without its leading results is a body, from its places.
LEMMA WithoutLeadingIsBody ==
  ASSUME NEW T, NEW s, Story(T), Body(T, s)
  PROVE  Body(T, WithoutLeadingTools(s)) /\ ComesFrom(s, WithoutLeadingTools(s))
<1> DEFINE r == WithoutLeadingTools(s)
<1>1. s \in Seq(Messages) /\ Len(s) \in Nat
  BY DEF Body, Drawn
<1>2. CASE r = <<>>
  <2>1. Body(T, r) /\ Len(r) = 0
    BY <1>2, NothingIsBody
  <2> HIDE DEF r
  <2>2. Body(T, r) /\ ComesFrom(s, r)
    BY <2>1 DEF ComesFrom
  <2> QED
    BY <2>2 DEF r
<1>3. CASE r # <<>>
  <2>1. PICK m \in 1 .. Len(s) : r = SubSeq(s, m, Len(s))
    BY <1>1, <1>3, WithoutLeadingToolsIs
  <2> DEFINE len == Len(s)
  <2>2. m \in 1 .. Len(s) + 1 /\ len \in 0 .. Len(s) /\ m <= len + 1 /\ len \in Nat /\ m \in 1 .. len
    BY <1>1
  <2> HIDE DEF r
  <2>3. Body(T, r) /\ Len(r) = len - m + 1 /\ \A i \in 1 .. len - m + 1 : r[i] = s[m + i - 1]
    <3> HIDE DEF len
    <3>1. /\ Body(T, SubSeq(s, m, len)) /\ Len(SubSeq(s, m, len)) = len - m + 1
          /\ \A i \in 1 .. len - m + 1 : SubSeq(s, m, len)[i] = s[m + i - 1]
      BY <2>2, SubSeqIsBody
    <3> QED
      BY <2>1, <3>1 DEF len
  <2>4. \A i \in 1 .. len - m + 1 : m + i - 1 \in 1 .. len
    BY <2>2
  <2>5. Len(r) = len - m + 1
    BY <2>3
  <2>6. Body(T, r) /\ ComesFrom(s, r)
    <3> HIDE DEF len
    <3> SUFFICES ASSUME NEW k \in 1 .. Len(r) PROVE \E i \in 1 .. Len(s) : r[k].at = s[i].at
      BY <2>3 DEF ComesFrom
    <3>1. k \in 1 .. len - m + 1
      BY <2>5
    <3>2. r[k] = s[m + k - 1] /\ m + k - 1 \in 1 .. len
      BY <2>3, <2>4, <3>1
    <3> QED
      BY <3>2 DEF len
  <2> QED
    BY <2>6 DEF r
<1> QED
  BY <1>2, <1>3

\* The places of the messages behind the system prompt.
At1(T, places) == {0, 1} \cup {k + 1 : k \in places}

\* A selection of the messages behind the system prompt, repaired.
LEMMA ChosenFromTail ==
  ASSUME NEW T, Story(T), NEW places \in SUBSET (1 .. Len(Tail(T)))
  PROVE  LET r == Chosen(Tail(T), places)
         IN  Body(T, r) /\ \A i \in 1 .. Len(r) : r[i].at \in At1(T, places)
<1> DEFINE t == Tail(T)
           r == Chosen(t, places)
<1>1. Body(T, t) /\ Len(t) = Len(T) - 1 /\ \A i \in 1 .. Len(T) - 1 : t[i] = T[i + 1]
  BY TailIsBody
<1>2. places \in SUBSET (1 .. Len(t)) /\ Len(T) \in Nat /\ Len(T) # 0 /\ \A i \in 1 .. Len(T) : T[i].at = i
  BY DEF Story
<1> HIDE DEF t
<1>3. Body(T, r) /\ \E f : Selects(f, t, places, r)
  BY <1>1, <1>2, ChosenIsBody
<1> HIDE DEF r
<1>4. PICK f : Selects(f, t, places, r)
  BY <1>3
<1>5. \A i \in 1 .. Len(r) : f[i] \in places /\ r[i] = t[f[i]]
  BY <1>4 DEF Selects
<1>6. \A k \in places : k \in 1 .. Len(T) - 1 /\ k + 1 \in 1 .. Len(T)
  BY <1>1, <1>2
<1>7. \A k \in places : t[k].at = k + 1
  BY <1>1, <1>2, <1>6
<1>8. ASSUME NEW i \in 1 .. Len(r) PROVE r[i].at \in At1(T, places)
  <2>1. f[i] \in places /\ r[i].at = f[i] + 1
    BY <1>5, <1>7
  <2> QED
    BY <2>1 DEF At1
<1> QED
  BY <1>3, <1>8 DEF r, t

\* Messages from these places of the transcript weigh no more than the places do.
LEMMA VolumeOfDrawn ==
  ASSUME NEW T, Story(T), NEW s, Drawn(T, s), NEW places \in SUBSET Nat,
         \A i \in 1 .. Len(s) : s[i].at \in At1(T, places)
  PROVE  Volume(s) <= Weight(Tail(T), places)
<1> DEFINE t == Tail(T)
           g == [i \in 1 .. Len(s) |-> IF s[i].at \in {0, 1} THEN 0 ELSE s[i].at - 1]
<1>1. /\ Len(t) = Len(T) - 1 /\ (\A i \in 1 .. Len(T) - 1 : t[i] = T[i + 1]) /\ t \in Seq(Messages)
  BY TailIsBody DEF Body, Drawn
<1> HIDE DEF t
<1>2. Len(T) \in Nat /\ T[1].size = 0 /\ s \in Seq(Messages) /\ Len(s) \in Nat
  BY DEF Story, Drawn
<1>3. \A i \in 1 .. Len(s) : s[i] \in Messages /\ s[i].size \in Nat /\ s[i].at \in Nat
  <2>1. \A m \in Messages : m.size \in Nat /\ m.at \in Nat
    BY DEF Messages
  <2> QED
    BY <1>2, <2>1
<1>4. \A i \in 1 .. Len(s) : s[i].at # 0 => s[i].at \in 1 .. Len(T) /\ s[i].size <= T[s[i].at].size
  BY DEF Drawn, Copied
<1>5. \A i \in 1 .. Len(s) : s[i].at = 0 => s[i].size = 0
  BY DEF Drawn, Added
<1>6. \A i \in 1 .. Len(s) : g[i] = IF s[i].at \in {0, 1} THEN 0 ELSE s[i].at - 1
  OBVIOUS
<1>7. g \in [1 .. Len(s) -> 0 .. Len(t)]
  <2>1. ASSUME NEW i \in 1 .. Len(s)
        PROVE  (IF s[i].at \in {0, 1} THEN 0 ELSE s[i].at - 1) \in 0 .. Len(t)
    <3>1. s[i].at = 0 \/ s[i].at \in 1 .. Len(T)
      BY <1>4
    <3> QED
      BY <1>1, <1>2, <3>1
  <2> QED
    BY <2>1
<1> HIDE DEF g
<1>8. ASSUME NEW i \in 1 .. Len(s)
      PROVE  IF g[i] = 0 THEN s[i].size = 0 ELSE g[i] \in places /\ s[i].size <= t[g[i]].size
  <2>1. CASE s[i].at = 0
    BY <1>5, <1>6, <2>1
  <2>2. CASE s[i].at = 1
    <3>1. g[i] = 0 /\ s[i].size <= T[1].size
      BY <1>4, <1>6, <2>2
    <3> QED
      BY <1>2, <1>3, <3>1
  <2>3. CASE s[i].at \notin {0, 1}
    <3>1. g[i] = s[i].at - 1 /\ s[i].at \in 1 .. Len(T) /\ s[i].size <= T[s[i].at].size
      BY <1>4, <1>6, <2>3
    <3>2. g[i] \in 1 .. Len(T) - 1 /\ g[i] + 1 = s[i].at
      BY <1>2, <2>3, <3>1
    <3>3. t[g[i]] = T[s[i].at]
      BY <1>1, <3>2
    <3>4. PICK k \in places : s[i].at = k + 1
      BY <2>3 DEF At1
    <3>5. g[i] \in places
      <4>1. k \in Nat /\ g[i] \in Nat
        BY <1>2, <3>2
      <4>2. k + 1 = g[i] + 1
        BY <3>2, <3>4
      <4>3. k = g[i]
        BY <4>1, <4>2
      <4> QED
        BY <4>3
    <3>6. g[i] # 0
      BY <3>2
    <3> QED
      BY <3>1, <3>3, <3>5, <3>6
  <2> QED
    BY <2>1, <2>2, <2>3
<1>9. ASSUME NEW i \in 1 .. Len(s), NEW j \in 1 .. Len(s), i < j, g[i] # 0, g[j] # 0
      PROVE  g[i] < g[j]
  <2>1. g[i] = s[i].at - 1 /\ g[j] = s[j].at - 1 /\ s[i].at # 0 /\ s[j].at # 0
    BY <1>6, <1>9
  <2>2. s[i].at < s[j].at
    BY <1>9, <2>1 DEF Drawn
  <2> QED
    BY <1>3, <2>1, <2>2
<1>10. Volume(s) <= Weight(t, places)
  BY <1>1, <1>2, <1>7, <1>8, <1>9, WeightOfCopies
<1> QED
  BY <1>10 DEF t

\* Of some messages, one goes first.
LEMMA OneGoesFirst ==
  ASSUME NEW s, NEW n \in Nat, NEW U \in SUBSET (1 .. n), U # {}
  PROVE  \E i \in U : \A j \in U : ~GoesBefore(s, j, i)
<1> DEFINE P(i) == Priority(s[i])
           R == {3 - P(i) : i \in U}
<1>1. \A i : P(i) \in {1, 2, 3}
  BY DEF Priority
<1> HIDE DEF P
<1>2. R \in SUBSET Nat /\ R # {}
  <2>1. \A i : 3 - P(i) \in Nat
    BY <1>1
  <2> QED
    BY <2>1
<1>3. PICK r \in R : \A x \in R : r <= x
  BY <1>2, Shared!LeastElement
<1> DEFINE V == {i \in U : 3 - P(i) = r}
<1>4. V \in SUBSET Nat /\ V # {}
  <2>1. \E i \in U : r = 3 - P(i)
    BY <1>3
  <2>2. U \subseteq Nat
    OBVIOUS
  <2> QED
    BY <2>1, <2>2
<1>5. PICK i \in V : \A x \in V : i <= x
  BY <1>4, Shared!LeastElement
<1>6. ASSUME NEW j \in U, GoesBefore(s, j, i) PROVE FALSE
  <2>1. P(j) > P(i) \/ (P(j) = P(i) /\ j < i)
    BY <1>6 DEF GoesBefore, P
  <2>2. 3 - P(i) = r /\ r <= 3 - P(j) /\ P(i) \in {1, 2, 3} /\ P(j) \in {1, 2, 3}
    BY <1>1, <1>3, <1>5, <1>6
  <2>3. P(j) <= P(i)
    BY <2>2
  <2>4. P(j) = P(i) /\ j < i
    BY <2>1, <2>2, <2>3
  <2>5. j \in V
    BY <2>2, <2>4, <1>6
  <2>6. i <= j /\ i \in Nat /\ j \in Nat
    BY <1>4, <1>5, <2>5
  <2> QED
    BY <2>4, <2>6
<1>7. i \in U
  BY <1>5
<1> QED
  BY <1>6, <1>7

\* What is not sacrificed keeps the budget, or none of it could have been.
LEMMA SacrificesSuffice ==
  ASSUME NEW s \in Seq(Messages), Volume(s) > CharBudget
  PROVE  LET kept == DOMAIN s \ Sacrificed(s)
         IN  kept \in SUBSET (1 .. Len(s))
             /\ (Weight(s, kept) <= CharBudget \/ \A i \in kept : i > Len(s) - KeepTurns)
<1> DEFINE kept == DOMAIN s \ Sacrificed(s)
           U == Unpinned(s) \ Sacrificed(s)
           V == Volume(s)
<1>1. DOMAIN s = 1 .. Len(s) /\ Len(s) \in Nat /\ KeepTurns \in Nat /\ CharBudget \in Nat
  BY ContextAssumption
<1>2. Unpinned(s) = 1 .. Len(s) - KeepTurns /\ Unpinned(s) \subseteq 1 .. Len(s)
  BY <1>1 DEF Unpinned
<1>3. kept \in SUBSET (1 .. Len(s))
  BY <1>1
<1>4. CASE U = {}
  <2>1. ASSUME NEW i \in kept PROVE i > Len(s) - KeepTurns
    <3>1. i \in 1 .. Len(s) /\ i \notin Unpinned(s)
      BY <1>1, <1>4
    <3> QED
      BY <1>1, <1>2, <3>1
  <2> QED
    BY <1>3, <2>1
<1>5. CASE U # {}
  <2>1. U \in SUBSET (1 .. Len(s))
    BY <1>2
  <2>2. PICK i \in U : \A j \in U : ~GoesBefore(s, j, i)
    <3> HIDE DEF U
    <3> QED
      BY <1>1, <1>5, <2>1, OneGoesFirst
  <2> DEFINE B == {j \in Unpinned(s) : GoesBefore(s, j, i)}
  <2>3. B \subseteq Sacrificed(s)
    BY <2>2
  <2>4. V - Weight(s, B) <= CharBudget
    <3>1. ~(V - Weight(s, B) > CharBudget)
      BY <2>2 DEF Sacrificed
    <3>2. V \in Nat /\ Weight(s, B) \in Nat
      BY WeightAdds DEF Volume
    <3> HIDE DEF V, B
    <3> QED
      BY <1>1, <3>1, <3>2
  <2> HIDE DEF B, U
  <2>5. Weight(s, kept \cup B) = Weight(s, kept) + Weight(s, B)
    <3>1. kept \cap B = {}
      BY <2>3
    <3> HIDE DEF kept
    <3> QED
      BY <3>1, WeightAdds
  <2>6. Weight(s, kept \cup B) <= V
    <3> DEFINE A == kept \cup B
               all == DOMAIN s
    <3>1. A \cap (1 .. Len(s)) \subseteq all
      BY <1>1
    <3> HIDE DEF A, all
    <3>2. Weight(s, A) <= Weight(s, all)
      BY <3>1, WeightAdds
    <3> QED
      BY <3>2 DEF Volume, A, all
  <2>7. Weight(s, kept) \in Nat /\ Weight(s, B) \in Nat /\ V \in Nat
    BY WeightAdds DEF Volume
  <2> HIDE DEF kept, V
  <2>8. Weight(s, kept) <= CharBudget
    BY <1>1, <2>4, <2>5, <2>6, <2>7
  <2> QED
    BY <1>3, <2>8 DEF kept
<1> QED
  BY <1>4, <1>5

\* A message that calls nothing and is no result is untouched by the repair.
LEMMA NoteStays ==
  ASSUME NEW s, NEW m \in Messages, m.calls = {}, ~IsTool(m)
  PROVE  Stays(s, m) /\ Bare(s, m) = m
<1>1. Stays(s, m)
  BY DEF Stays
<1>2. Bare(s, m) = m
  <2>1. m.calls \cap Answered(s) = {}
    OBVIOUS
  <2>2. Bare(s, m) = [m EXCEPT !.calls = {}]
    BY <2>1 DEF Bare
  <2>3. [m EXCEPT !.calls = {}] = m
    BY DEF Messages
  <2> QED
    BY <2>2, <2>3
<1> QED
  BY <1>1, <1>2

\* The token budget leaves a body: all of it, or less of it with a note, and then what it
\* leaves comes from the messages that it did not sacrifice.
LEMMA TokenBudgetedIs ==
  ASSUME NEW T, Story(T)
  PROVE  LET t == Tail(T)
             r == TokenBudgeted(t)
         IN  /\ Body(T, r)
             /\ r = t \/ /\ Volume(t) > CharBudget /\ Note \in ToSet(r)
                         /\ \A i \in 1 .. Len(r) : r[i].at \in At1(T, DOMAIN t \ Sacrificed(t))
<1> DEFINE t == Tail(T)
           r == TokenBudgeted(t)
           K == DOMAIN t \ Sacrificed(t)
<1>1. Body(T, t) /\ t \in Seq(Messages) /\ DOMAIN t = 1 .. Len(t)
  BY TailIsBody DEF Body, Drawn
<1>2. CASE Volume(t) <= CharBudget
  <2>1. r = t
    BY <1>2 DEF TokenBudgeted
  <2> QED
    BY <1>1, <2>1
<1>3. CASE ~(Volume(t) <= CharBudget)
  <2>1. Volume(t) > CharBudget
    <3>1. Volume(t) \in Nat
      BY <1>1, WeightAdds DEF Volume
    <3>2. CharBudget \in Nat
      BY ContextAssumption
    <3> HIDE DEF t
    <3> QED
      BY <1>3, <3>1, <3>2
  <2> DEFINE c == Chosen(t, K)
             w == WithoutLeadingTools(c)
             n == <<Note>> \o w
             p == Paired(n)
  <2>2. r = p
    BY <1>3 DEF TokenBudgeted, Without
  <2>3. K \in SUBSET (1 .. Len(t))
    BY <1>1
  <2>4. Body(T, c) /\ \A i \in 1 .. Len(c) : c[i].at \in At1(T, K)
    <3> HIDE DEF K
    <3> QED
      BY <2>3, ChosenFromTail
  <2> HIDE DEF c, r, K, t
  <2>5. Body(T, w) /\ \A i \in 1 .. Len(w) : w[i].at \in At1(T, K)
    <3>1. Body(T, w) /\ ComesFrom(c, w)
      BY <2>4, WithoutLeadingIsBody
    <3> HIDE DEF w
    <3> QED
      BY <2>4, <3>1 DEF ComesFrom
  <2> HIDE DEF w
  <2>6. Body(T, n) /\ (\A i \in 1 .. Len(n) : n[i].at \in At1(T, K)) /\ Len(n) # 0 /\ n[1] = Note
    <3>1. Body(T, n) /\ Len(n) = Len(w) + 1 /\ n[1] = Note /\ \A i \in 1 .. Len(w) : n[1 + i] = w[i]
      BY <2>5, NotesAreAdded, AddedFirst
    <3>2. Len(w) \in Nat
      BY <2>5 DEF Body, Drawn
    <3>3. ASSUME NEW i \in 1 .. Len(n) PROVE n[i].at \in At1(T, K)
      <4>1. CASE i = 1
        BY <3>1, <4>1, NotesAreAdded DEF At1
      <4>2. CASE i # 1
        <5>1. i - 1 \in 1 .. Len(w) /\ 1 + (i - 1) = i
          BY <3>1, <3>2, <4>2
        <5>2. n[1 + (i - 1)] = w[i - 1]
          BY <3>1, <5>1
        <5> QED
          BY <2>5, <5>1, <5>2
      <4> QED
        BY <4>1, <4>2
    <3>4. Len(n) # 0
      BY <3>1, <3>2
    <3> QED
      BY <3>1, <3>3, <3>4
  <2> HIDE DEF n
  <2>7. Body(T, p) /\ \A i \in 1 .. Len(p) : p[i].at \in At1(T, K)
    <3>1. Body(T, p) /\ ComesFrom(n, p)
      BY <2>6, PairedIsBody
    <3> HIDE DEF p
    <3> QED
      BY <2>6, <3>1 DEF ComesFrom
  <2>8. Note \in ToSet(p)
    <3>1. Stays(n, Note) /\ Bare(n, Note) = Note
      BY NotesAreAdded, NoteStays DEF Added
    <3>2. 1 \in 1 .. Len(n) /\ Drawn(T, n)
      BY <2>6 DEF Body, Drawn
    <3>3. \E k \in 1 .. Len(p) : p[k] = Bare(n, n[1])
      BY <2>6, <3>1, <3>2, PairedIsBalanced
    <3>4. p \in Seq(Messages)
      BY <2>7 DEF Body, Drawn
    <3> HIDE DEF p
    <3> QED
      BY <2>6, <3>1, <3>3, <3>4 DEF ToSet
  <2> QED
    BY <2>1, <2>2, <2>7, <2>8 DEF r, t, K
<1> QED
  BY <1>2, <1>3

\* What one place weighs.
LEMMA WeightOfOne ==
  ASSUME NEW s \in Seq(Messages), NEW i \in 1 .. Len(s)
  PROVE  Weight(s, {i}) = s[i].size
<1>1. PICK u : Adds(u, s, {i})
  BY WeightSteps
<1> DEFINE len == Len(s)
           Is == {n \in Nat : n <= len => u[n] = IF n < i THEN 0 ELSE s[i].size}
<1>2. len \in Nat /\ s[i].size \in Nat
  <2>1. s[i] \in Messages
    OBVIOUS
  <2> QED
    BY <2>1 DEF Messages
<1>3. u[0] = 0 /\ Weight(s, {i}) = u[len]
      /\ \A n \in 1 .. len : u[n] = u[n - 1] + (IF n \in {i} THEN s[n].size ELSE 0)
  BY <1>1 DEF Adds
<1> HIDE DEF len
<1>4. 0 \in Is
  BY <1>3
<1>5. ASSUME NEW n \in Nat, n \in Is PROVE n + 1 \in Is
  <2> SUFFICES ASSUME n + 1 <= len PROVE u[n + 1] = IF n + 1 < i THEN 0 ELSE s[i].size
    OBVIOUS
  <2>1. n + 1 \in 1 .. len /\ n <= len /\ (n + 1) - 1 = n
    BY <1>2
  <2>2. u[n] = IF n < i THEN 0 ELSE s[i].size
    BY <1>5, <2>1
  <2>3. u[n + 1] = u[n] + (IF n + 1 = i THEN s[n + 1].size ELSE 0)
    BY <1>3, <2>1
  <2>4. CASE n + 1 < i
    BY <2>2, <2>3, <2>4
  <2>5. CASE n + 1 = i
    BY <1>2, <2>2, <2>3, <2>5
  <2>6. CASE n + 1 > i
    BY <1>2, <2>2, <2>3, <2>6
  <2> QED
    BY <2>4, <2>5, <2>6
<1> HIDE DEF Is
<1>6. len \in Is
  BY <1>2, <1>4, <1>5, Shared!SetInduction
<1>7. u[len] = IF len < i THEN 0 ELSE s[i].size
  BY <1>2, <1>6 DEF Is
<1> QED
  BY <1>2, <1>3, <1>7 DEF len

\* How the budget per source is spent, from the newest to the oldest.
Spends(f, s) ==
  /\ f \in [0 .. Len(s) -> SUBSET (1 .. Len(s))] /\ f[0] = {} /\ Afforded(s) = Chosen(s, f[Len(s)])
  /\ \A n \in 1 .. Len(s) :
       LET i == Len(s) + 1 - n
           grant == IF IsTool(s[i]) THEN GrantedTools(s) ELSE GrantedHistory(s)
           spent == Weight(s, {j \in f[n - 1] : IsTool(s[j]) = IsTool(s[i])})
       IN f[n] = IF spent + s[i].size <= grant THEN f[n - 1] \cup {i} ELSE f[n - 1]

\* The recursion of Afforded has a solution, from the newest message to the oldest.
LEMMA AffordedSteps ==
  ASSUME NEW S, NEW s \in Seq(S)
  PROVE  \E f : Spends(f, s)
<1> DEFINE len == Len(s)
           at(n) == len + 1 - n
           grant(i) == IF IsTool(s[i]) THEN GrantedTools(s) ELSE GrantedHistory(s)
           spent(kept, i) == Weight(s, {j \in kept : IsTool(s[j]) = IsTool(s[i])})
           pays(kept, i) == spent(kept, i) + s[i].size <= grant(i)
           All == SUBSET (1 .. len)
           step == [p \in (1 .. len) \X All |->
                      IF pays(p[2], at(p[1])) THEN p[2] \cup {at(p[1])} ELSE p[2]]
           none == {}
           next(v, n) == IF pays(v, at(n)) THEN v \cup {at(n)} ELSE v
           Is(u) == u = [n \in 0 .. len |-> IF n = 0 THEN {} ELSE next(u[n - 1], n)]
<1>1. len \in Nat /\ none \in All
  OBVIOUS
<1> HIDE DEF pays
<1>2. \A n \in 1 .. len : at(n) \in 1 .. len
  BY <1>1
<1> HIDE DEF len, at
<1>3. step \in [(1 .. len) \X All -> All] /\ \A n \in 1 .. len, v \in All : step[<<n, v>>] = next(v, n)
  BY <1>2
<1> HIDE DEF step, next, All
<1>4. \E f : Solves(f, len, All, none, step)
  <2> HIDE DEF none
  <2> QED
    BY <1>1, <1>3, Recursion
<1>5. PICK f : Solves(f, len, All, none, step)
  BY <1>4
<1>6. f \in [0 .. len -> All] /\ f[0] = {} /\ \A n \in 1 .. len : f[n] = next(f[n - 1], n)
  <2>1. \A n \in 1 .. len : n - 1 \in 0 .. len
    BY <1>1
  <2> QED
    BY <1>3, <1>5, <2>1 DEF Solves
<1>7. Is(f)
  <2>1. \A n \in 0 .. len : f[n] = IF n = 0 THEN {} ELSE next(f[n - 1], n)
    <3>1. \A n \in 0 .. len : n = 0 \/ n \in 1 .. len
      BY <1>1
    <3> QED
      BY <1>6, <3>1
  <2>2. f = [n \in 0 .. len |-> f[n]]
    BY <1>6
  <2> QED
    BY <2>1, <2>2
<1> DEFINE u == CHOOSE u : Is(u)
<1>8. Is(u)
  BY <1>7
<1>9. Afforded(s) = Chosen(s, u[len])
  BY DEF Afforded, len, next, pays, at
<1> HIDE DEF u
<1>10. u = [n \in 0 .. len |-> u[n]] /\ u[0] = {} /\ \A n \in 1 .. len : u[n] = next(u[n - 1], n)
  <2>1. \A n \in 0 .. len : u[n] = IF n = 0 THEN {} ELSE next(u[n - 1], n)
    BY <1>8
  <2>2. DOMAIN u = 0 .. len /\ u = [n \in DOMAIN u |-> u[n]]
    BY <1>8
  <2> HIDE DEF Is
  <2>3. \A n \in 1 .. len : n \in 0 .. len /\ n # 0
    BY <1>1
  <2>4. 0 \in 0 .. len
    BY <1>1
  <2> QED
    BY <2>1, <2>2, <2>3, <2>4
<1> HIDE DEF Is
<1> DEFINE Typed == {n \in Nat : n <= len => u[n] \in All}
<1>11. 0 \in Typed
  BY <1>1, <1>10
<1>12. ASSUME NEW n \in Nat, n \in Typed PROVE n + 1 \in Typed
  <2> SUFFICES ASSUME n + 1 <= len PROVE u[n + 1] \in All
    OBVIOUS
  <2>1. n + 1 \in 1 .. len /\ u[n] \in All /\ (n + 1) - 1 = n
    BY <1>1, <1>12
  <2>2. u[n + 1] = next(u[n], n + 1) /\ at(n + 1) \in 1 .. len
    BY <1>2, <1>10, <2>1
  <2>3. u[n] \cup {at(n + 1)} \in All
    BY <2>1, <2>2 DEF All
  <2> QED
    BY <2>1, <2>2, <2>3 DEF next
<1> HIDE DEF Typed
<1>13. \A n \in Nat : n \in Typed
  BY <1>11, <1>12, Shared!SetInduction
<1>14. u \in [0 .. len -> All]
  BY <1>1, <1>10, <1>13 DEF Typed
<1> QED
  BY <1>9, <1>10, <1>14 DEF Spends, len, All, next, pays, at

\* A share of a budget, and what the small shares leave of it.
LEMMA ShareOfBudget ==
  ASSUME NEW x \in Nat
  PROVE  x \div 38 \in Nat /\ 38 * (x \div 38) <= x
  OBVIOUS

\* The four smallest shares fit into the budget.
LEMMA SmallSharesFit ==
  ASSUME NEW budget \in Nat, NEW a \in Nat, NEW b \in Nat, NEW c \in Nat, NEW d \in Nat,
         38 * a <= budget * 5, 38 * b <= budget * 4, 38 * c <= budget * 3, 38 * d <= budget * 2
  PROVE  a + b + c + d <= budget
  OBVIOUS

\* The sources share the budget.
LEMMA GrantsFit ==
  ASSUME NEW s \in Seq(Messages)
  PROVE  /\ GrantedTools(s) \in Nat /\ GrantedHistory(s) \in Nat
         /\ GrantedTools(s) + GrantedHistory(s) <= TokenBudget
<1>1. TokenBudget \in Nat
  BY ContextAssumption
<1>2. ASSUME NEW w \in Nat PROVE Share(w) \in Nat /\ 38 * Share(w) <= TokenBudget * w
  <2> DEFINE x == TokenBudget * w
  <2>1. x \in Nat
    BY <1>1
  <2> HIDE DEF x
  <2>2. x \div 38 \in Nat /\ 38 * (x \div 38) <= x
    BY <2>1, ShareOfBudget
  <2> QED
    BY <2>2 DEF Share, x
<1> DEFINE j == Share(10)
           h == Share(8)
           q == Share(6)
           a == Share(5)
           b == Share(4)
           c == Share(3)
           d == Share(2)
<1>3. j \in Nat /\ h \in Nat /\ q \in Nat /\ a \in Nat /\ b \in Nat /\ c \in Nat /\ d \in Nat
  BY <1>2
<1>4. /\ 38 * a <= TokenBudget * 5 /\ 38 * b <= TokenBudget * 4
      /\ 38 * c <= TokenBudget * 3 /\ 38 * d <= TokenBudget * 2
  BY <1>2
<1>9. ForTools = TokenBudget - (j + h + q + a + b + c + d) + j + h + q
  BY DEF ForTools, Residue
<1> HIDE DEF j, h, q, a, b, c, d
<1>5. ForTools \in Nat /\ a + ForTools <= TokenBudget
  <2>1. ForTools = TokenBudget - (a + b + c + d)
    BY <1>1, <1>3, <1>9
  <2>2. a + b + c + d <= TokenBudget
    BY <1>1, <1>3, <1>4, SmallSharesFit
  <2> QED
    BY <1>1, <1>3, <2>1, <2>2
<1>6. Demand(s, TRUE) \in Nat /\ Demand(s, FALSE) \in Nat
  BY WeightAdds DEF Demand
<1> DEFINE all == ForTools
           gt == GrantedTools(s)
           gh == GrantedHistory(s)
<1>7. gt \in Nat /\ gt <= all
  <2> DEFINE S == {Demand(s, TRUE), all}
  <2>1. S \in SUBSET Nat /\ S # {}
    BY <1>5, <1>6
  <2> HIDE DEF S
  <2>2. Min(S) \in S /\ \A x \in S : Min(S) <= x
    BY <2>1, MinIs
  <2>3. gt = Min(S) /\ all \in S
    BY DEF GrantedTools, S
  <2> HIDE DEF gt, all
  <2> QED
    BY <2>1, <2>2, <2>3
<1>8. gh \in Nat /\ gh <= a + all - gt
  <2> DEFINE left == a + all - gt
             S == {Demand(s, FALSE), left}
  <2>6. gh = Min(S)
    BY DEF GrantedHistory, a
  <2>1. left \in Nat
    <3>1. all \in Nat
      BY <1>5
    <3> HIDE DEF all, gt
    <3> QED
      BY <1>3, <1>7, <3>1
  <2> HIDE DEF left, gh
  <2>2. S \in SUBSET Nat /\ S # {}
    BY <1>6, <2>1
  <2>5. left \in S
    OBVIOUS
  <2> HIDE DEF S
  <2>3. Min(S) \in S /\ \A x \in S : Min(S) <= x
    BY <2>2, MinIs
  <2>4. gh \in Nat /\ gh <= left
    BY <2>2, <2>3, <2>5, <2>6
  <2> QED
    BY <2>4 DEF left
<1>10. all \in Nat /\ a + all <= TokenBudget
  BY <1>5
<1> HIDE DEF all, gt, gh
<1>11. gt \in Nat /\ gh \in Nat /\ gt + gh <= TokenBudget
  BY <1>1, <1>3, <1>7, <1>8, <1>10
<1> QED
  BY <1>11 DEF gt, gh

\* What the budget per source pays for keeps the budget.
LEMMA AffordedIs ==
  ASSUME NEW s \in Seq(Messages)
  PROVE  \E places \in SUBSET (1 .. Len(s)) :
           Afforded(s) = Chosen(s, places) /\ Weight(s, places) <= TokenBudget
<1> DEFINE len == Len(s)
           Of(kept, tools) == {j \in kept : IsTool(s[j]) = tools}
           Grant(tools) == IF tools THEN GrantedTools(s) ELSE GrantedHistory(s)
           Fits(kept) == \A tools \in BOOLEAN : Weight(s, Of(kept, tools)) <= Grant(tools)
<1>1. len \in Nat /\ \A i \in 1 .. len : s[i] \in Messages
  OBVIOUS
<1>2. PICK f : Spends(f, s)
  BY AffordedSteps
<1>3. /\ f \in [0 .. len -> SUBSET (1 .. len)] /\ f[0] = {} /\ Afforded(s) = Chosen(s, f[len])
      /\ \A n \in 1 .. len :
           LET i == len + 1 - n
           IN  f[n] = IF Weight(s, Of(f[n - 1], IsTool(s[i]))) + s[i].size <= Grant(IsTool(s[i]))
                      THEN f[n - 1] \cup {i} ELSE f[n - 1]
  BY <1>2 DEF Spends
<1>4. \A tools \in BOOLEAN : Grant(tools) \in Nat
  BY GrantsFit
<1> DEFINE Good == {n \in Nat : n <= len => Fits(f[n]) /\ \A j \in f[n] : j > len - n}
<1>5. 0 \in Good
  <2>1. Weight(s, {}) = 0
    <3> DEFINE e == {}
    <3>1. e \cap e = {} /\ e \cup e = e
      OBVIOUS
    <3> HIDE DEF e
    <3>4. Weight(s, e) \in Nat /\ Weight(s, e \cup e) = Weight(s, e) + Weight(s, e)
      BY <3>1, WeightAdds
    <3>2. Weight(s, e) \in Nat /\ Weight(s, e) = Weight(s, e) + Weight(s, e)
      BY <3>1, <3>4
    <3>3. Weight(s, e) = 0
      BY <3>2
    <3> QED
      BY <3>3 DEF e
  <2>2. \A tools : Of(f[0], tools) = {}
    BY <1>3
  <2> HIDE DEF Of, Grant
  <2>3. Fits(f[0])
    <3> SUFFICES ASSUME NEW tools \in BOOLEAN PROVE Weight(s, Of(f[0], tools)) <= Grant(tools)
      OBVIOUS
    <3>1. Weight(s, Of(f[0], tools)) = 0
      BY <2>1, <2>2
    <3>2. Grant(tools) \in Nat
      BY <1>4
    <3> QED
      BY <3>1, <3>2
  <2> QED
    BY <1>3, <2>3
<1>6. ASSUME NEW n \in Nat, n \in Good PROVE n + 1 \in Good
  <2> SUFFICES ASSUME n + 1 <= len PROVE Fits(f[n + 1]) /\ \A j \in f[n + 1] : j > len - (n + 1)
    OBVIOUS
  <2> DEFINE i == len - n
             k == f[n]
             tools == IsTool(s[i])
  <2>1. i \in 1 .. len /\ n + 1 \in 1 .. len /\ (n + 1) - 1 = n /\ n <= len /\ len + 1 - (n + 1) = i
        /\ n \in 0 .. len
    BY <1>1
  <2>2. Fits(k) /\ \A j \in k : j > i
    BY <1>6, <2>1
  <2>3. k \in SUBSET (1 .. len)
    BY <1>3, <2>1
  <2>4. f[n + 1] = IF Weight(s, Of(k, tools)) + s[i].size <= Grant(tools) THEN k \cup {i} ELSE k
    <3>1. LET j == len + 1 - (n + 1)
          IN  f[n + 1] = IF Weight(s, Of(f[(n + 1) - 1], IsTool(s[j]))) + s[j].size <= Grant(IsTool(s[j]))
                         THEN f[(n + 1) - 1] \cup {j} ELSE f[(n + 1) - 1]
      BY <1>3, <2>1
    <3> HIDE DEF Of, Grant
    <3> QED
      BY <2>1, <3>1
  <2> HIDE DEF i, k, Grant
  <2>5. CASE f[n + 1] = k
    <3>1. \A j \in k : j > len - (n + 1)
      <4> SUFFICES ASSUME NEW j \in k PROVE j > len - (n + 1)
        OBVIOUS
      <4>1. j > i /\ j \in Nat
        BY <2>2, <2>3
      <4>2. i = len - n
        BY DEF i
      <4> QED
        BY <1>1, <4>1, <4>2
    <3> HIDE DEF Fits
    <3> QED
      BY <2>2, <2>5, <3>1
  <2>6. CASE f[n + 1] = k \cup {i} /\ Weight(s, Of(k, tools)) + s[i].size <= Grant(tools)
    <3>1. tools \in BOOLEAN
      BY DEF IsTool
    <3>2. i \notin k
      BY <2>1, <2>2, <2>3
    <3>3. Of(k \cup {i}, tools) = Of(k, tools) \cup {i} /\ Of(k, tools) \cap {i} = {}
      BY <3>2
    <3>4. \A other \in BOOLEAN : other # tools => Of(k \cup {i}, other) = Of(k, other)
      OBVIOUS
    <3> HIDE DEF Of, tools
    <3>5. Weight(s, Of(k, tools) \cup {i}) = Weight(s, Of(k, tools)) + Weight(s, {i})
      BY <3>3, WeightAdds
    <3>6. Weight(s, {i}) = s[i].size
      BY <2>1, WeightOfOne
    <3>7. Weight(s, Of(k \cup {i}, tools)) <= Grant(tools)
      BY <2>6, <3>3, <3>5, <3>6
    <3>8. Fits(k \cup {i})
      BY <2>2, <3>4, <3>7
    <3>9. \A j \in k \cup {i} : j > len - (n + 1)
      <4>1. i > len - (n + 1)
        BY <1>1, <2>1 DEF i
      <4>2. \A j \in k : j > len - (n + 1)
        BY <1>1, <2>1, <2>2, <2>3, <4>1
      <4> QED
        BY <4>1, <4>2
    <3> QED
      BY <2>6, <3>8, <3>9
  <2> QED
    BY <2>4, <2>5, <2>6
<1> HIDE DEF Good
<1>7. len \in Good
  BY <1>1, <1>5, <1>6, Shared!SetInduction
<1> DEFINE K == f[len]
<1>8. K \in SUBSET (1 .. len) /\ Afforded(s) = Chosen(s, K) /\ Fits(K)
  <2>1. len \in 0 .. len /\ len <= len
    BY <1>1
  <2>2. Fits(f[len])
    BY <1>1, <1>7, <2>1 DEF Good
  <2> QED
    BY <1>3, <2>1, <2>2
<1> HIDE DEF K
<1>9. Weight(s, K) <= TokenBudget
  <2> DEFINE A == Of(K, TRUE)
             B == Of(K, FALSE)
  <2>1. K = A \cup B /\ A \cap B = {}
    BY DEF IsTool
  <2>2. Weight(s, A) <= GrantedTools(s) /\ Weight(s, B) <= GrantedHistory(s)
    BY <1>8
  <2> HIDE DEF A, B
  <2>3. Weight(s, A \cup B) = Weight(s, A) + Weight(s, B) /\ Weight(s, A) \in Nat /\ Weight(s, B) \in Nat
    BY <2>1, WeightAdds
  <2>4. /\ GrantedTools(s) \in Nat /\ GrantedHistory(s) \in Nat
        /\ GrantedTools(s) + GrantedHistory(s) <= TokenBudget /\ TokenBudget \in Nat
    BY GrantsFit, ContextAssumption
  <2>5. Weight(s, K) = Weight(s, A) + Weight(s, B)
    BY <2>1, <2>3
  <2> QED
    BY <2>2, <2>3, <2>4, <2>5
<1> QED
  BY <1>8, <1>9 DEF len

\* The budget per source leaves a body: all of it, or what it paid for with a note.
LEMMA SourceBudgetedIs ==
  ASSUME NEW T, Story(T)
  PROVE  LET t == Tail(T)
             r == SourceBudgeted(t)
         IN  /\ Body(T, r)
             /\ r = t \/ /\ Note \in ToSet(r)
                         /\ \E places \in SUBSET Nat :
                              /\ Weight(t, places) <= TokenBudget
                              /\ \A i \in 1 .. Len(r) : r[i].at \in At1(T, places)
<1> DEFINE t == Tail(T)
           r == SourceBudgeted(t)
<1>1. Body(T, t) /\ t \in Seq(Messages)
  BY TailIsBody DEF Body, Drawn
<1>2. CASE ~InDeficit(t)
  <2>1. r = t
    BY <1>2 DEF SourceBudgeted
  <2> QED
    BY <1>1, <2>1
<1>3. CASE InDeficit(t)
  <2> DEFINE c == Afforded(t)
             p == Paired(c)
             n == Append(p, Note)
  <2>1. r = n
    BY <1>3 DEF SourceBudgeted
  <2>2. PICK K \in SUBSET (1 .. Len(t)) : c = Chosen(t, K) /\ Weight(t, K) <= TokenBudget
    <3> HIDE DEF t
    <3> QED
      BY <1>1, AffordedIs
  <2>3. Body(T, c) /\ \A i \in 1 .. Len(c) : c[i].at \in At1(T, K)
    <3>1. LET q == Chosen(Tail(T), K) IN Body(T, q) /\ \A i \in 1 .. Len(q) : q[i].at \in At1(T, K)
      BY <2>2, ChosenFromTail
    <3> QED
      BY <2>2, <3>1
  <2> HIDE DEF c, r, t
  <2>4. Body(T, p) /\ \A i \in 1 .. Len(p) : p[i].at \in At1(T, K)
    <3>1. Body(T, p) /\ ComesFrom(c, p)
      BY <2>3, PairedIsBody
    <3> HIDE DEF p
    <3> QED
      BY <2>3, <3>1 DEF ComesFrom
  <2> HIDE DEF p
  <2>5. /\ Body(T, n) /\ Len(n) = Len(p) + 1 /\ n[Len(p) + 1] = Note
        /\ \A i \in 1 .. Len(p) : n[i] = p[i]
    BY <2>4, NotesAreAdded, AddedLast
  <2> HIDE DEF n
  <2>6. Len(p) \in Nat /\ n \in Seq(Messages)
    BY <2>4, <2>5 DEF Body, Drawn
  <2>7. \A i \in 1 .. Len(n) : n[i].at \in At1(T, K)
    <3>1. \A i \in 1 .. Len(n) : i = Len(p) + 1 \/ i \in 1 .. Len(p)
      BY <2>5, <2>6
    <3>2. Note.at \in At1(T, K)
      BY NotesAreAdded DEF At1
    <3> QED
      BY <2>4, <2>5, <3>1, <3>2
  <2>8. Note \in ToSet(n)
    <3>1. Len(p) + 1 \in DOMAIN n
      BY <2>5, <2>6
    <3> QED
      BY <2>5, <3>1 DEF ToSet
  <2>9. K \in SUBSET Nat
    BY <2>2
  <2> QED
    BY <2>1, <2>2, <2>5, <2>7, <2>8, <2>9 DEF r, t
<1> QED
  BY <1>2, <1>3

\* Of some spans, one is the best.
LEMMA BestIs ==
  ASSUME NEW n \in Nat, NEW spans \in SUBSET ((1 .. n) \X (1 .. n)), spans # {},
         \A x \in spans : x[1] <= x[2]
  PROVE  Best(spans) \in spans
<1> DEFINE R == {Length(x) : x \in spans}
           IsBest(x) == \A y \in spans : \/ Length(x) < Length(y)
                                         \/ Length(x) = Length(y) /\ x[1] <= y[1]
<1>1. \A x \in spans : x[1] \in Nat /\ x[2] \in Nat /\ Length(x) \in Nat
  <2>1. \A x \in spans : x[1] \in 1 .. n /\ x[2] \in 1 .. n /\ x[1] <= x[2]
    OBVIOUS
  <2>2. \A a, b \in 1 .. n : a <= b => b - a \in Nat /\ a \in Nat /\ b \in Nat
    OBVIOUS
  <2> QED
    BY <2>1, <2>2 DEF Length
<1>2. R \in SUBSET Nat /\ R # {}
  BY <1>1
<1>3. PICK r \in R : \A x \in R : r <= x
  BY <1>2, Shared!LeastElement
<1> DEFINE V == {x[1] : x \in {y \in spans : Length(y) = r}}
<1>4. V \in SUBSET Nat /\ V # {}
  BY <1>1, <1>3
<1>5. PICK v \in V : \A x \in V : v <= x
  BY <1>4, Shared!LeastElement
<1>6. PICK x \in spans : Length(x) = r /\ x[1] = v
  BY <1>5
<1>7. ASSUME NEW y \in spans PROVE Length(x) < Length(y) \/ (Length(x) = Length(y) /\ x[1] <= y[1])
  <2>1. Length(x) <= Length(y) /\ Length(x) \in Nat /\ Length(y) \in Nat
    BY <1>1, <1>3, <1>6
  <2>2. Length(y) = r => x[1] <= y[1]
    BY <1>5, <1>6
  <2> QED
    BY <1>6, <2>1, <2>2
<1>8. \E y \in spans : IsBest(y)
  BY <1>7
<1> QED
  BY <1>8 DEF Best

\* A checkpoint leaves a body, with a note where it took something.
LEMMA CheckpointedIs ==
  ASSUME NEW T, Story(T)
  PROVE  LET t == Tail(T)
             r == Checkpointed(t)
         IN  Body(T, r) /\ (r = t \/ Note \in ToSet(r))
<1> DEFINE t == Tail(T)
           len == Len(t)
           r == Checkpointed(t)
           spans == Span(t, Min({Volume(t) - CompactTarget, CompactTarget}))
<1>1. Body(T, t) /\ t \in Seq(Messages) /\ len \in Nat /\ DOMAIN t = 1 .. len
  BY TailIsBody DEF Body, Drawn
<1>2. CASE Volume(t) <= CompactTarget \/ spans = {}
  <2>1. r = t
    BY <1>2 DEF Checkpointed
  <2> QED
    BY <1>1, <2>1
<1>3. CASE ~(Volume(t) <= CompactTarget \/ spans = {})
  <2> DEFINE best == Best(spans)
             a == best[1]
             b == best[2]
             x == SubSeq(t, 1, a - 1)
             y == SubSeq(t, b + 1, len)
             u == Append(x, Note)
  <2>1. r = x \o <<Note>> \o y
    BY <1>3 DEF Checkpointed
  <2>2. spans \in SUBSET ((1 .. len) \X (1 .. len)) /\ \A z \in spans : z[1] <= z[2] /\ ~IsTool(t[z[1]])
    BY <1>1 DEF Span
  <2> HIDE DEF r
  <2>3. best \in spans
    <3> HIDE DEF spans, t, len
    <3> QED
      BY <1>1, <1>3, <2>2, BestIs
  <2>4. a \in 1 .. len /\ b \in 1 .. len /\ a <= b /\ ~IsTool(t[a])
    <3> HIDE DEF spans, best
    <3> QED
      BY <2>2, <2>3
  <2> HIDE DEF best, spans, t
  <2> HIDE DEF a, b
  <2>5. Body(T, x) /\ Len(x) = a - 1 /\ \A i \in 1 .. a - 1 : x[i] = t[i]
    <3> DEFINE o == 1
               e == a - 1
    <3>1. o \in 1 .. Len(t) + 1 /\ e \in 0 .. Len(t) /\ o <= e + 1 /\ e - o + 1 = a - 1
      BY <1>1, <2>4
    <3>2. \A i \in 1 .. a - 1 : o + i - 1 = i
      BY <1>1, <2>4
    <3> HIDE DEF o, e
    <3>3. /\ Body(T, SubSeq(t, o, e)) /\ Len(SubSeq(t, o, e)) = e - o + 1
          /\ \A i \in 1 .. e - o + 1 : SubSeq(t, o, e)[i] = t[o + i - 1]
      BY <1>1, <3>1, SubSeqIsBody
    <3>4. x = SubSeq(t, o, e)
      BY DEF o, e
    <3> HIDE DEF x
    <3> QED
      BY <3>1, <3>2, <3>3, <3>4
  <2>6. Body(T, y) /\ Len(y) = len - b /\ \A i \in 1 .. len - b : y[i] = t[b + i]
    <3> DEFINE o == b + 1
    <3>1. o \in 1 .. Len(t) + 1 /\ len \in 0 .. Len(t) /\ o <= len + 1 /\ len - o + 1 = len - b
      BY <1>1, <2>4
    <3>2. \A i \in 1 .. len - b : o + i - 1 = b + i
      BY <1>1, <2>4
    <3> HIDE DEF o, len
    <3>3. /\ Body(T, SubSeq(t, o, len)) /\ Len(SubSeq(t, o, len)) = len - o + 1
          /\ \A i \in 1 .. len - o + 1 : SubSeq(t, o, len)[i] = t[o + i - 1]
      BY <1>1, <3>1, SubSeqIsBody
    <3>4. y = SubSeq(t, o, len)
      BY DEF o
    <3> HIDE DEF y
    <3> QED
      BY <3>1, <3>2, <3>3, <3>4
  <2>7. x \o <<Note>> = u /\ x \in Seq(Messages)
    <3>1. x \in Seq(Messages)
      BY <2>5 DEF Body, Drawn
    <3> HIDE DEF x
    <3> QED
      BY <3>1, NotesAreAdded
  <2> HIDE DEF x, y, len
  <2>8. Body(T, u) /\ Len(u) = a /\ u[a] = Note /\ \A i \in 1 .. a - 1 : u[i] = t[i]
    <3>1. /\ Body(T, u) /\ Len(u) = Len(x) + 1 /\ u[Len(x) + 1] = Note
          /\ \A i \in 1 .. Len(x) : u[i] = x[i]
      BY <2>5, NotesAreAdded, AddedLast
    <3>2. (a - 1) + 1 = a
      BY <2>4
    <3> HIDE DEF u
    <3> QED
      BY <2>5, <3>1, <3>2
  <2> HIDE DEF u
  <2>9. Drawn(T, t) /\ len = Len(t) /\ Drawn(T, u) /\ Drawn(T, y)
    BY <1>1, <2>6, <2>8 DEF Body, len
  <2>10. ASSUME NEW i \in 1 .. Len(u), NEW j \in 1 .. Len(y)
         PROVE  /\ u[i].at # 0 /\ y[j].at # 0 => u[i].at < y[j].at
                /\ IsTool(y[j]) => y[j].answers \notin u[i].calls
    <3>1. b + j \in 1 .. len /\ y[j] = t[b + j] /\ a < b + j
      BY <1>1, <2>4, <2>6
    <3>2. CASE i = a
      <4>1. u[i].at = 0 /\ u[i].calls = {}
        BY <2>8, <3>2, NotesAreAdded DEF Added
      <4> QED
        BY <4>1
    <3>3. CASE i # a
      <4>1. i \in 1 .. len /\ u[i] = t[i] /\ i < a /\ i < b + j
        BY <1>1, <2>4, <2>8, <3>1, <3>3
      <4>2. u[i].at # 0 /\ y[j].at # 0 => u[i].at < y[j].at
        BY <2>9, <3>1, <4>1 DEF Drawn
      <4>3. ASSUME IsTool(y[j]), y[j].answers \in u[i].calls PROVE FALSE
        <5> DEFINE q == b + j
        <5>1. q \in 1 .. Len(t) /\ i \in 1 .. Len(t) /\ IsTool(t[q]) /\ t[q].answers \in t[i].calls
          BY <2>9, <3>1, <4>1, <4>3
        <5>2. a \in i + 1 .. q
          BY <1>1, <2>4, <3>1, <4>1
        <5> HIDE DEF q
        <5>3. \A k \in i + 1 .. q : IsTool(t[k])
          BY <2>9, <5>1, AskedBefore
        <5> QED
          BY <2>4, <5>2, <5>3
      <4> QED
        BY <4>2, <4>3
    <3> QED
      BY <3>2, <3>3
  <2> DEFINE z == u \o y
  <2>11. /\ Drawn(T, z) /\ Len(z) = Len(u) + Len(y)
         /\ \A i \in 1 .. Len(u) : z[i] = u[i]
         /\ \A i \in 1 .. Len(y) : z[Len(u) + i] = y[i]
    BY <2>9, <2>10, JoinIsDrawn
  <2>12. r = z
    BY <2>1, <2>7
  <2> HIDE DEF z
  <2>13. Len(u) \in Nat /\ Len(y) \in Nat /\ z \in Seq(Messages)
    BY <2>9, <2>11 DEF Drawn
  <2>14. Body(T, z)
    <3>1. \A i \in 1 .. Len(u) : u[i].at # 1
      BY <2>8 DEF Body
    <3>2. \A i \in 1 .. Len(y) : y[i].at # 1
      BY <2>6 DEF Body
    <3>3. ASSUME NEW i \in 1 .. Len(z) PROVE z[i].at # 1
      <4>1. CASE i \in 1 .. Len(u)
        BY <2>11, <3>1, <4>1
      <4>2. CASE i \notin 1 .. Len(u)
        <5>1. i - Len(u) \in 1 .. Len(y) /\ Len(u) + (i - Len(u)) = i
          BY <2>11, <2>13, <4>2
        <5>2. z[Len(u) + (i - Len(u))] = y[i - Len(u)]
          BY <2>11, <5>1
        <5> QED
          BY <3>2, <5>1, <5>2
      <4> QED
        BY <4>1, <4>2
    <3> QED
      BY <2>11, <3>3 DEF Body
  <2>15. Note \in ToSet(z)
    <3>1. a \in 1 .. Len(u) /\ a \in DOMAIN z
      BY <2>4, <2>8, <2>11, <2>13
    <3>2. z[a] = Note
      BY <2>8, <2>11, <3>1
    <3> QED
      BY <3>1, <3>2 DEF ToSet
  <2> QED
    BY <2>12, <2>14, <2>15 DEF r, t
<1> QED
  BY <1>2, <1>3

-----------------------------------------------------------------------------
(* What is sent, and what is lost.                                         *)

\* Every call has its result.
AllAnswered(T) ==
  \A i \in 1 .. Len(T) : \A id \in T[i].calls :
    \E j \in 1 .. Len(T) : IsTool(T[j]) /\ T[j].answers = id

\* The system prompt and a body, repaired and flattened, are what a provider accepts.
LEMMA RepairIsSound ==
  ASSUME NEW T, NEW s, Story(T), Body(T, s)
  PROVE  LET p == Paired(<<Head(T)>> \o s)
         IN  /\ WireShape(Flattened(p)) /\ InOrder(Flattened(p))
             /\ Drawn(T, p)
             /\ \A k \in 1 .. Len(p) : p[k].at = 1 \/ \E i \in 1 .. Len(s) : p[k].at = s[i].at
             /\ 1 \in Sent(p)
             /\ Note \in ToSet(s) => Note \in ToSet(p)
<1> DEFINE z == <<Head(T)>> \o s
           p == Paired(z)
<1>1. /\ Drawn(T, z) /\ Len(z) = Len(s) + 1 /\ z[1] = T[1] /\ T[1] \in Messages
      /\ \A i \in 1 .. Len(s) : z[1 + i] = s[i]
  BY HeadFirst
<1> HIDE DEF z
<1>2. z \in Seq(Messages) /\ Len(s) \in Nat /\ s \in Seq(Messages) /\ Len(z) \in Nat /\ 1 \in 1 .. Len(z)
  BY <1>1 DEF Drawn, Body
<1>3. T[1].at = 1 /\ T[1].role = "system" /\ T[1].calls = {} /\ ~IsTool(T[1])
  <2>1. 1 \in 1 .. Len(T) /\ T[1].role = "system"
    BY DEF Story
  <2>2. \A i \in 1 .. Len(T) : T[i].at = i /\ (T[i].role # "assistant" => T[i].calls = {})
    BY DEF Story
  <2> QED
    BY <2>1, <2>2 DEF IsTool
<1>4. Drawn(T, p) /\ Balanced(p) /\ \A k \in 1 .. Len(p) : \E i \in 1 .. Len(z) : p[k].at = z[i].at
  <2>1. Drawn(T, p) /\ Balanced(p) /\ ComesFrom(z, p)
    BY <1>1, PairedIsBalanced
  <2> HIDE DEF p
  <2> QED
    BY <2>1 DEF ComesFrom
<1>5. PICK f \in [1 .. Len(p) -> 1 .. Len(z)] :
        /\ \A k \in 1 .. Len(p) : p[k] = Bare(z, z[f[k]]) /\ Stays(z, z[f[k]])
        /\ \A j, k \in 1 .. Len(p) : j < k => f[j] < f[k]
        /\ \A i \in 1 .. Len(z) : Stays(z, z[i]) => \E k \in 1 .. Len(p) : f[k] = i
  BY <1>2, PairedParts
<1>6. p \in Seq(Messages) /\ Len(p) \in Nat /\ DOMAIN p = 1 .. Len(p)
  BY <1>4 DEF Drawn
<1> HIDE DEF p
<1>7. Stays(z, z[1]) /\ Bare(z, z[1]) = T[1]
  BY <1>1, <1>3, NoteStays
<1>8. Len(p) # 0 /\ p[1] = T[1]
  <2>1. PICK k \in 1 .. Len(p) : f[k] = 1
    BY <1>2, <1>5, <1>7
  <2>2. 1 \in 1 .. Len(p) /\ k = 1
    <3>1. 1 \in 1 .. Len(p) /\ (k = 1 \/ 1 < k)
      BY <1>6, <2>1
    <3>2. f[1] \in 1 .. Len(z)
      BY <1>5, <3>1
    <3>3. 1 < k => f[1] < f[k]
      BY <1>5, <2>1, <3>1
    <3>4. ~(1 < k)
      BY <1>2, <2>1, <3>2, <3>3
    <3> QED
      BY <3>1, <3>4
  <2>3. p[1] = Bare(z, z[1])
    BY <1>5, <2>1, <2>2
  <2> QED
    BY <1>6, <1>7, <2>2, <2>3
<1>9. Wired(p)
  <2>1. /\ \A i \in DOMAIN p : p[i].role = "assistant" => Behind(p, i) = p[i].calls
        /\ \A j \in DOMAIN p : IsTool(p[j]) => \E i \in 1 .. j - 1 : p[j].answers \in p[i].calls
    BY <1>4, BalancedIsWired
  <2>2. \A i, j \in 1 .. Len(p) : i < j /\ p[i].at # 0 /\ p[j].at # 0 => p[i].at < p[j].at
    BY <1>4 DEF Drawn
  <2>3. ASSUME NEW i \in 1 .. Len(p), p[i].role = "system" PROVE p[i].calls = {}
    <3>1. CASE p[i].at = 0
      BY <1>4, <3>1 DEF Drawn, Added
    <3>2. CASE p[i].at # 0
      <4>1. Copied(T, p[i])
        BY <1>4, <3>2 DEF Drawn
      <4>2. p[i].at \in 1 .. Len(T) /\ T[p[i].at].role = "system" /\ p[i].calls \subseteq T[p[i].at].calls
        BY <2>3, <4>1 DEF Copied
      <4>3. T[p[i].at].calls = {}
        BY <4>2 DEF Story
      <4> QED
        BY <4>2, <4>3
    <3> QED
      BY <3>1, <3>2
  <2> QED
    BY <1>6, <2>1, <2>2, <2>3 DEF Wired
<1>10. WireShape(Flattened(p)) /\ InOrder(Flattened(p))
  <2>1. p[1].role = "system"
    BY <1>3, <1>8
  <2> QED
    BY <1>6, <1>8, <1>9, <2>1, FlattenedIsSound
<1>11. ASSUME NEW k \in 1 .. Len(p) PROVE p[k].at = 1 \/ \E i \in 1 .. Len(s) : p[k].at = s[i].at
  <2>1. PICK i \in 1 .. Len(z) : p[k].at = z[i].at
    BY <1>4
  <2>2. CASE i = 1
    BY <1>1, <1>3, <2>1, <2>2
  <2>3. CASE i # 1
    <3>1. i - 1 \in 1 .. Len(s) /\ 1 + (i - 1) = i
      BY <1>1, <1>2, <2>3
    <3>2. z[1 + (i - 1)] = s[i - 1]
      BY <1>1, <3>1
    <3> QED
      BY <2>1, <3>1, <3>2
  <2> QED
    BY <2>2, <2>3
<1>12. 1 \in Sent(p)
  <2>1. 1 \in DOMAIN p
    BY <1>6, <1>8
  <2> QED
    BY <1>3, <1>8, <2>1 DEF Sent
<1>13. ASSUME Note \in ToSet(s) PROVE Note \in ToSet(p)
  <2>1. PICK i \in 1 .. Len(s) : s[i] = Note
    BY <1>2, <1>13 DEF ToSet
  <2>2. 1 + i \in 1 .. Len(z) /\ z[1 + i] = Note
    BY <1>1, <1>2, <2>1
  <2>3. Stays(z, Note) /\ Bare(z, Note) = Note
    BY NotesAreAdded, NoteStays DEF Added
  <2>4. PICK k \in 1 .. Len(p) : f[k] = 1 + i
    BY <1>5, <2>2, <2>3
  <2>5. p[k] = Note
    BY <1>5, <2>2, <2>3, <2>4
  <2> QED
    BY <1>6, <2>4, <2>5 DEF ToSet
<1> QED
  BY <1>4, <1>10, <1>11, <1>12, <1>13 DEF p, z

\* The repair loses nothing of what is whole.
LEMMA WholeIsKept ==
  ASSUME NEW T, NEW s, Story(T), AllAnswered(T), Body(T, s), NEW a \in 2 .. Len(T) + 1, Whole(T, s, a),
         a <= Len(T) => ~IsTool(T[a])
  PROVE  a .. Len(T) \subseteq Sent(Paired(<<Head(T)>> \o s))
<1> DEFINE z == <<Head(T)>> \o s
           p == Paired(z)
<1>1. Drawn(T, z) /\ Len(z) = Len(s) + 1 /\ \A i \in 1 .. Len(s) : z[1 + i] = s[i]
  BY HeadFirst
<1> HIDE DEF z
<1>2. /\ z \in Seq(Messages) /\ Len(s) \in Nat /\ Len(z) \in Nat /\ Len(T) \in Nat
      /\ \A i \in 1 .. Len(s) : 1 + i \in 1 .. Len(z)
  BY <1>1 DEF Drawn, Body, Story
<1>3. ASSUME NEW k \in a .. Len(T)
      PROVE  k \in 1 .. Len(T) /\ \E i \in 1 .. Len(z) : z[i].at = k /\ Copied(T, z[i]) /\ z[i].calls = T[k].calls
  <2>1. k \in 1 .. Len(T) /\ k # 0
    BY <1>2
  <2>2. PICK i \in 1 .. Len(s) : s[i].at = k
    BY DEF Whole
  <2>3. s[i].calls = T[k].calls
    BY <2>1, <2>2 DEF Whole
  <2>4. Copied(T, s[i])
    BY <2>1, <2>2 DEF Body, Drawn
  <2> QED
    BY <1>1, <1>2, <2>1, <2>2, <2>3, <2>4
<1>4. ASSUME NEW k \in a .. Len(T) PROVE k \in Sent(p)
  <2>1. PICK i \in 1 .. Len(z) : z[i].at = k /\ Copied(T, z[i]) /\ z[i].calls = T[k].calls
    BY <1>3, <1>4
  <2>2. k \in 1 .. Len(T) /\ z[i].role = T[k].role /\ z[i].answers = T[k].answers
    BY <1>3, <1>4, <2>1 DEF Copied
  <2> DEFINE m == z[i]
  <2>3. ASSUME IsTool(m) PROVE m.answers \in Called(z)
    <3>1. IsTool(T[k])
      BY <2>2, <2>3 DEF IsTool
    <3>2. PICK b \in 1 .. k - 1 : Asks(T, b, k)
      BY <2>2, <3>1 DEF Story
    <3>3. b \in a .. Len(T)
      <4>1. CASE b < a
        <5>1. a \in b + 1 .. k /\ a <= Len(T)
          BY <1>2, <1>4, <4>1
        <5> QED
          BY <3>2, <5>1 DEF Asks
      <4>2. CASE ~(b < a)
        BY <1>2, <1>4, <4>2
      <4> QED
        BY <4>1, <4>2
    <3>4. PICK j \in 1 .. Len(z) : z[j].calls = T[b].calls
      BY <1>3, <3>3
    <3>5. m.answers \in z[j].calls
      BY <2>2, <3>2, <3>4 DEF Asks
    <3> QED
      BY <1>2, <3>5, CalledAnswered
  <2>4. ASSUME m.calls # {} PROVE m.calls \cap Answered(z) # {}
    <3>1. PICK id \in T[k].calls : TRUE
      BY <2>1, <2>4
    <3>2. PICK j \in 1 .. Len(T) : IsTool(T[j]) /\ T[j].answers = id
      BY <2>2, <3>1 DEF AllAnswered
    <3>3. PICK b \in 1 .. j - 1 : Asks(T, b, j)
      BY <3>2 DEF Story
    <3>4. b \in 1 .. Len(T)
      BY <1>2
    <3>5. b = k
      <4>1. T[b].calls \cap T[k].calls # {}
        BY <3>1, <3>2, <3>3 DEF Asks
      <4> QED
        BY <2>2, <3>4, <4>1 DEF Story
    <3>6. j \in a .. Len(T)
      BY <1>2, <1>4, <3>5
    <3>7. PICK q \in 1 .. Len(z) : z[q].at = j /\ Copied(T, z[q])
      BY <1>3, <3>6
    <3>8. IsTool(z[q]) /\ z[q].answers = id
      BY <3>2, <3>7 DEF Copied, IsTool
    <3>9. id \in Answered(z)
      BY <1>2, <3>8, CalledAnswered
    <3> QED
      BY <2>1, <3>1, <3>9
  <2>5. Stays(z, z[i])
    BY <2>3, <2>4 DEF Stays
  <2>6. PICK q \in 1 .. Len(p) : p[q] = Bare(z, z[i])
    BY <1>1, <2>5, PairedIsBalanced
  <2>7. p[q].at = k
    <3>1. z[i] \in Messages
      BY <1>2
    <3> HIDE DEF p
    <3> QED
      BY <2>1, <2>6, <3>1 DEF Bare, Messages
  <2>8. p \in Seq(Messages)
    BY <1>2, PairedParts
  <2> HIDE DEF p
  <2> QED
    BY <2>6, <2>7, <2>8 DEF Sent
<1> QED
  BY <1>4 DEF p, z

\* The strategies that only know a window.
Windows == {"sliding", "summary", "vector", "hybrid", "tool_tail"}

\* What a strategy of windows leaves: everything from a place on that is no result.
LEMMA WindowCutIs ==
  ASSUME NEW T, Story(T), NEW strategy \in Windows
  PROVE  LET t == Tail(T)
             c == Cut(t, strategy)
         IN  \E a \in 2 .. Len(T) + 1 :
               /\ Body(T, c) /\ Whole(T, c, a) /\ (a <= Len(T) => ~IsTool(T[a]))
               /\ IF Len(t) <= Window THEN a = 2
                  ELSE /\ a <= Len(T) - Window + 1
                       /\ strategy \in {"summary", "hybrid"} => Note \in ToSet(c)
<1> DEFINE t == Tail(T)
           w == Windowed(t)
           r == Summarized(t)
<1>1. PICK a \in 2 .. Len(T) + 1 :
        /\ Body(T, w) /\ Whole(T, w, a) /\ (a <= Len(T) => ~IsTool(T[a]))
        /\ IF Len(t) <= Window THEN a = 2 ELSE a <= Len(T) - Window + 1
  BY WindowedIs
<1>2. Body(T, t) /\ t \in Seq(Messages) /\ Len(t) \in Nat /\ Window \in Nat
  <2>1. Body(T, t)
    BY TailIsBody
  <2>2. Window \in Nat
    BY ContextAssumption
  <2> HIDE DEF t
  <2>3. t \in Seq(Messages)
    BY <2>1 DEF Body, Drawn
  <2> QED
    BY <2>1, <2>2, <2>3
<1>3. Body(T, r) /\ Whole(T, r, a) /\ (~(Len(t) <= Window) => Note \in ToSet(r))
  <2>1. CASE Len(t) <= Window
    <3>1. r = t /\ w = t
      BY <1>2, <2>1 DEF Summarized, Windowed
    <3> QED
      BY <1>1, <2>1, <3>1
  <2>2. CASE ~(Len(t) <= Window)
    <3>1. r = <<Note>> \o w
      BY <1>2, <2>2 DEF Summarized
    <3> HIDE DEF r, w, t
    <3>2. Body(T, <<Note>> \o w)
      BY <1>1, NotesAreAdded, AddedFirst
    <3>3. Whole(T, <<Note>> \o w, a) /\ Note \in ToSet(<<Note>> \o w)
      BY <1>1, NotesAreAdded, AddedIsWhole
    <3> QED
      BY <3>1, <3>2, <3>3
  <2> QED
    BY <2>1, <2>2
<1> HIDE DEF t, w, r
<1>4. CASE strategy = "sliding"
  <2>1. Cut(t, strategy) = w
    BY <1>4 DEF Cut, w
  <2> QED
    BY <1>1, <1>4, <2>1 DEF t
<1>5. CASE strategy = "summary"
  <2>1. Cut(t, strategy) = r
    BY <1>5 DEF Cut, r
  <2> QED
    BY <1>1, <1>3, <2>1 DEF t
<1>6. CASE strategy = "vector"
  <2>1. Cut(t, strategy) = Append(w, Retrieved)
    BY <1>6 DEF Cut, w, WithSnippets
  <2>2. Body(T, Append(w, Retrieved))
    BY <1>1, NotesAreAdded, AddedLast
  <2>3. Whole(T, Append(w, Retrieved), a)
    BY <1>1, NotesAreAdded, AddedIsWhole
  <2> QED
    BY <1>1, <1>6, <2>1, <2>2, <2>3 DEF t
<1>7. CASE strategy = "hybrid"
  <2>1. Cut(t, strategy) = Append(r, Retrieved)
    BY <1>7 DEF Cut, r, WithSnippets
  <2>2. Body(T, Append(r, Retrieved))
    BY <1>3, NotesAreAdded, AddedLast
  <2>3. Whole(T, Append(r, Retrieved), a) /\ ToSet(r) \subseteq ToSet(Append(r, Retrieved))
    BY <1>3, NotesAreAdded, AddedIsWhole
  <2>4. ~(Len(t) <= Window) => Note \in ToSet(Append(r, Retrieved))
    BY <1>3, <2>3
  <2> QED
    BY <1>1, <2>1, <2>2, <2>3, <2>4 DEF t
<1>8. CASE strategy = "tool_tail"
  <2> DEFINE p == [i \in DOMAIN w |-> Pruned(w[i])]
  <2>1. Cut(t, strategy) = p
    BY <1>8 DEF Cut, w, TailPruned
  <2>2. Body(T, p) /\ Whole(T, p, a)
    BY <1>1, PrunedIs
  <2> HIDE DEF p
  <2> QED
    BY <1>1, <1>8, <2>1, <2>2 DEF t
<1> QED
  BY <1>4, <1>5, <1>6, <1>7, <1>8 DEF Windows

\* All that is behind the system prompt is whole.
LEMMA TailIsWhole ==
  ASSUME NEW T, Story(T)
  PROVE  Whole(T, Tail(T), 2)
<1> DEFINE t == Tail(T)
<1>1. Len(t) = Len(T) - 1 /\ (\A i \in 1 .. Len(T) - 1 : t[i] = T[i + 1]) /\ Len(T) \in Nat
  BY TailIsBody DEF Story
<1> HIDE DEF t
<1>2. \A k \in 1 .. Len(T) : T[k].at = k
  BY DEF Story
<1>3. ASSUME NEW i \in 1 .. Len(t) PROVE t[i].at = i + 1 /\ t[i].calls = T[i + 1].calls /\ i + 1 >= 2
  <2>1. i + 1 \in 1 .. Len(T) /\ i \in 1 .. Len(T) - 1 /\ i + 1 >= 2
    BY <1>1
  <2> QED
    BY <1>1, <1>2, <2>1
<1>4. \A i \in 1 .. Len(t) : t[i].at >= 2 /\ t[i].calls = T[t[i].at].calls
  BY <1>3
<1>5. ASSUME NEW k \in 2 .. Len(T) PROVE \E i \in 1 .. Len(t) : t[i].at = k
  <2>1. k - 1 \in 1 .. Len(t) /\ (k - 1) + 1 = k
    BY <1>1
  <2> QED
    BY <1>3, <2>1
<1> QED
  BY <1>4, <1>5 DEF Whole, t

\* With a transcript that is complete, what every strategy sends is sound.
LEMMA CutsAreSound ==
  ASSUME Story(transcript), AllAnswered(transcript), NEW strategy \in Strategies
  PROVE  /\ WireShape(Prepared(strategy)) /\ InOrder(Prepared(strategy))
         /\ LossIsTold(Repaired(strategy), strategy)
<1> DEFINE T == transcript
           t == Tail(T)
           c == Cut(t, strategy)
           p == Paired(<<Head(T)>> \o c)
           lost == DOMAIN T \ Sent(p)
<1>1. Repaired(strategy) = p /\ Prepared(strategy) = Flattened(p)
  BY DEF Repaired, Prepared
<1>2. /\ Body(T, t) /\ Len(t) = Len(T) - 1 /\ Whole(T, t, 2)
      /\ 2 <= Len(T) => ~IsTool(T[2])
  <2>1. Len(T) \in Nat
    BY DEF Story
  <2> QED
    BY <2>1, TailIsBody, TailIsWhole
<1>3. /\ Len(T) \in Nat /\ Len(T) # 0 /\ DOMAIN T = 1 .. Len(T)
      /\ {Window, KeepTurns, CharBudget, TokenBudget} \subseteq Nat /\ t \in Seq(Messages)
      /\ Len(t) \in Nat
  BY <1>2, ContextAssumption DEF Story, Body, Drawn
<1>4. 2 \in 2 .. Len(T) + 1
  BY <1>3
<1>5. ASSUME Body(T, c)
      PROVE  /\ WireShape(Flattened(p)) /\ InOrder(Flattened(p))
             /\ Drawn(T, p)
             /\ \A k \in 1 .. Len(p) : p[k].at = 1 \/ \E i \in 1 .. Len(c) : p[k].at = c[i].at
             /\ 1 \in Sent(p)
             /\ Note \in ToSet(c) => Note \in ToSet(p)
  <2> HIDE DEF c, T
  <2> QED
    BY <1>5, RepairIsSound DEF T
<1>6. ASSUME Body(T, c), NEW a \in 2 .. Len(T) + 1, Whole(T, c, a), a <= Len(T) => ~IsTool(T[a])
      PROVE  \A i \in lost : 2 <= i /\ i < a
  <2>1. a .. Len(T) \subseteq Sent(p)
    <3> HIDE DEF c, T
    <3> QED
      BY <1>6, WholeIsKept DEF T
  <2>2. 1 \in Sent(p)
    BY <1>5, <1>6
  <2> SUFFICES ASSUME NEW i \in lost PROVE 2 <= i /\ i < a
    OBVIOUS
  <2>3. i \in 1 .. Len(T) /\ i # 1 /\ i \notin a .. Len(T)
    BY <1>3, <2>1, <2>2
  <2> QED
    BY <1>3, <2>3
<1>7. ASSUME c = t PROVE lost = {} /\ WireShape(Flattened(p)) /\ InOrder(Flattened(p))
  <2>1. Body(T, c) /\ Whole(T, c, 2)
    BY <1>2, <1>7
  <2> HIDE DEF c, t
  <2>2. \A i \in lost : 2 <= i /\ i < 2
    BY <1>2, <1>4, <1>6, <2>1
  <2>3. \A i \in lost : i \in Nat
    BY <1>3
  <2>4. lost = {}
    BY <2>2, <2>3
  <2> QED
    BY <1>5, <2>1, <2>4
<1> DEFINE Kept(places) == \A i \in 1 .. Len(c) : c[i].at \in At1(T, places)
<1>8. ASSUME Body(T, c), NEW places \in SUBSET Nat, Kept(places)
      PROVE  Volume(p) <= Weight(t, places) /\ Sent(p) \subseteq At1(T, places)
  <2>1. \A k \in 1 .. Len(p) : p[k].at \in At1(T, places)
    <3>1. 1 \in At1(T, places)
      BY DEF At1
    <3> QED
      BY <1>5, <1>8, <3>1
  <2>4. Drawn(T, p)
    BY <1>5, <1>8
  <2> HIDE DEF p
  <2>5. p \in Seq(Messages)
    BY <2>4 DEF Drawn
  <2>2. Drawn(T, p) /\ DOMAIN p = 1 .. Len(p)
    BY <2>4, <2>5
  <2>3. Volume(p) <= Weight(t, places)
    BY <2>1, <2>2, VolumeOfDrawn
  <2> QED
    BY <2>1, <2>2, <2>3 DEF Sent
<1>9. \A q \in {p} : LossIsTold(q, strategy) <=>
        /\ strategy \in Windows => \A i \in lost : i <= Len(T) - Window
        /\ strategy \notin {"sliding", "vector", "tool_tail"} /\ lost # {} => Note \in ToSet(q)
        /\ strategy = "budget" /\ lost # {} => Volume(q) <= TokenBudget
        /\ strategy = "token_budget" /\ lost # {} =>
             Volume(q) <= CharBudget \/ \A i \in Sent(q) : i > Len(T) - KeepTurns \/ i \in {0, 1}
  BY DEF LossIsTold, Windows
<1> HIDE DEF p, lost
<1>10. CASE strategy \in Windows
  <2>1. PICK a \in 2 .. Len(T) + 1 :
          /\ Body(T, c) /\ Whole(T, c, a) /\ (a <= Len(T) => ~IsTool(T[a]))
          /\ IF Len(t) <= Window THEN a = 2
             ELSE /\ a <= Len(T) - Window + 1
                  /\ strategy \in {"summary", "hybrid"} => Note \in ToSet(c)
    BY <1>10, WindowCutIs
  <2> HIDE DEF c, t
  <2>2. \A i \in lost : 2 <= i /\ i < a /\ i \in Nat
    <3>1. \A i \in lost : i \in Nat
      BY <1>3 DEF lost
    <3> QED
      BY <1>6, <2>1, <3>1
  <2>3. lost # {} => ~(Len(t) <= Window)
    BY <2>1, <2>2
  <2>4. \A i \in lost : i <= Len(T) - Window
    <3> SUFFICES ASSUME NEW i \in lost PROVE i <= Len(T) - Window
      OBVIOUS
    <3>1. a <= Len(T) - Window + 1
      BY <2>1, <2>3
    <3> QED
      BY <1>3, <2>2, <3>1
  <2>5. strategy \notin {"sliding", "vector", "tool_tail"} /\ lost # {} => Note \in ToSet(p)
    <3>1. strategy \notin {"sliding", "vector", "tool_tail"} => strategy \in {"summary", "hybrid"}
      BY <1>10 DEF Windows
    <3> QED
      BY <1>5, <2>1, <2>3, <3>1
  <2>6. strategy \notin {"budget", "token_budget"}
    BY <1>10 DEF Windows
  <2>7. LossIsTold(p, strategy)
    BY <1>9, <2>4, <2>5, <2>6
  <2> QED
    BY <1>1, <1>5, <2>1, <2>7
<1>11. ASSUME c = t PROVE LossIsTold(p, strategy) /\ WireShape(Flattened(p)) /\ InOrder(Flattened(p))
  <2> HIDE DEF c, t
  <2>1. lost = {} /\ WireShape(Flattened(p)) /\ InOrder(Flattened(p))
    BY <1>7, <1>11
  <2> QED
    BY <1>9, <2>1
<1>12. CASE strategy = "token_budget"
  <2> DEFINE K == DOMAIN t \ Sacrificed(t)
  <2>1. c = TokenBudgeted(t)
    BY <1>12 DEF Cut
  <2>2. /\ Body(T, c)
        /\ c = t \/ (Volume(t) > CharBudget /\ Note \in ToSet(c) /\ Kept(K))
    <3> HIDE DEF T
    <3>1. /\ Body(T, TokenBudgeted(t))
          /\ \/ TokenBudgeted(t) = t
             \/ /\ Volume(t) > CharBudget /\ Note \in ToSet(TokenBudgeted(t))
                /\ \A i \in 1 .. Len(TokenBudgeted(t)) : TokenBudgeted(t)[i].at \in At1(T, K)
      BY TokenBudgetedIs DEF T
    <3> HIDE DEF c, t, K
    <3> QED
      BY <2>1, <3>1
  <2> HIDE DEF c, t
  <2>3. CASE c = t
    BY <1>1, <1>11, <2>3
  <2>4. CASE Volume(t) > CharBudget /\ Note \in ToSet(c) /\ Kept(K)
    <3>1. /\ K \in SUBSET (1 .. Len(t))
          /\ (Weight(t, K) <= CharBudget \/ \A i \in K : i > Len(t) - KeepTurns)
      BY <1>3, <2>4, SacrificesSuffice
    <3> HIDE DEF K, Kept
    <3>6. K \in SUBSET Nat
      BY <3>1
    <3>2. Volume(p) <= Weight(t, K) /\ Sent(p) \subseteq At1(T, K) /\ Note \in ToSet(p)
      BY <1>5, <1>8, <2>2, <2>4, <3>6
    <3>3. Volume(p) \in Nat /\ Weight(t, K) \in Nat /\ CharBudget \in Nat
      <4>1. p \in Seq(Messages)
        BY <1>5, <2>2 DEF Drawn
      <4> QED
        BY <1>3, <4>1, WeightAdds DEF Volume
    <3>4. Volume(p) <= CharBudget \/ \A i \in Sent(p) : i > Len(T) - KeepTurns \/ i \in {0, 1}
      <4>1. CASE Weight(t, K) <= CharBudget
        BY <3>2, <3>3, <4>1
      <4>2. CASE \A i \in K : i > Len(t) - KeepTurns
        <5>1. ASSUME NEW i \in Sent(p), i \notin {0, 1} PROVE i > Len(T) - KeepTurns
          <6>1. PICK k \in K : i = k + 1
            BY <3>2, <5>1 DEF At1
          <6>2. k \in Nat /\ k > Len(t) - KeepTurns
            BY <3>1, <4>2
          <6>3. KeepTurns \in Nat
            BY <1>3
          <6> QED
            BY <1>2, <1>3, <6>1, <6>2, <6>3
        <5> QED
          BY <5>1
      <4> QED
        BY <3>1, <4>1, <4>2
    <3>5. LossIsTold(p, strategy)
      BY <1>9, <1>12, <3>2, <3>4 DEF Windows
    <3> QED
      BY <1>1, <1>5, <2>2, <3>5
  <2> QED
    BY <2>2, <2>3, <2>4
<1>13. CASE strategy = "budget"
  <2>1. c = SourceBudgeted(t)
    BY <1>13 DEF Cut
  <2>2. /\ Body(T, c)
        /\ \/ c = t
           \/ /\ Note \in ToSet(c)
              /\ \E places \in SUBSET Nat : Weight(t, places) <= TokenBudget /\ Kept(places)
    <3> HIDE DEF T
    <3>1. /\ Body(T, SourceBudgeted(t))
          /\ \/ SourceBudgeted(t) = t
             \/ /\ Note \in ToSet(SourceBudgeted(t))
                /\ \E places \in SUBSET Nat :
                     /\ Weight(t, places) <= TokenBudget
                     /\ \A i \in 1 .. Len(SourceBudgeted(t)) : SourceBudgeted(t)[i].at \in At1(T, places)
      BY SourceBudgetedIs DEF T
    <3> HIDE DEF c, t
    <3> QED
      BY <2>1, <3>1
  <2> HIDE DEF c, t
  <2>3. CASE c = t
    BY <1>1, <1>11, <2>3
  <2>4. CASE Note \in ToSet(c) /\ \E places \in SUBSET Nat : Weight(t, places) <= TokenBudget /\ Kept(places)
    <3> HIDE DEF Kept
    <3>1. PICK K \in SUBSET Nat : Weight(t, K) <= TokenBudget /\ Kept(K)
      BY <2>4
    <3>2. Volume(p) <= Weight(t, K) /\ Note \in ToSet(p)
      BY <1>5, <1>8, <2>2, <2>4, <3>1
    <3>3. Volume(p) \in Nat /\ Weight(t, K) \in Nat /\ TokenBudget \in Nat
      <4>1. p \in Seq(Messages)
        BY <1>5, <2>2 DEF Drawn
      <4> QED
        BY <1>3, <4>1, WeightAdds DEF Volume
    <3>4. Volume(p) <= TokenBudget
      BY <3>1, <3>2, <3>3
    <3>5. LossIsTold(p, strategy)
      BY <1>9, <1>13, <3>2, <3>4 DEF Windows
    <3> QED
      BY <1>1, <1>5, <2>2, <3>5
  <2> QED
    BY <2>2, <2>3, <2>4
<1>14. CASE strategy = "checkpoint"
  <2>1. c = Checkpointed(t)
    BY <1>14 DEF Cut
  <2>2. Body(T, c) /\ (c = t \/ Note \in ToSet(c))
    <3> HIDE DEF T
    <3>1. Body(T, Checkpointed(t)) /\ (Checkpointed(t) = t \/ Note \in ToSet(Checkpointed(t)))
      BY CheckpointedIs DEF T
    <3> HIDE DEF c, t
    <3> QED
      BY <2>1, <3>1
  <2> HIDE DEF c, t
  <2>3. CASE c = t
    BY <1>1, <1>11, <2>3
  <2>4. CASE Note \in ToSet(c)
    <3>1. Note \in ToSet(p)
      BY <1>5, <2>2, <2>4
    <3>2. LossIsTold(p, strategy)
      BY <1>9, <1>14, <3>1 DEF Windows
    <3> QED
      BY <1>1, <1>5, <2>2, <3>2
  <2> QED
    BY <2>2, <2>3, <2>4
<1> QED
  BY <1>10, <1>12, <1>13, <1>14 DEF Strategies, Windows

-----------------------------------------------------------------------------
(* The transcript of the drivers.                                          *)

\* Sizes and messages.
Weights == Sizes \cup {0}
Entries == [at : Nat, role : Roles, size : Weights, calls : SUBSET CallIds, answers : CallIds]

\* The messages know their places, and an id the place its call was born at.
Born(m, n) == (\A id \in m.calls : id[1] <= n) /\ m.answers[1] <= n
Trail(s) ==
  /\ s \in Seq(Entries)
  /\ \A i \in 1 .. Len(s) : s[i].at = i /\ Born(s[i], Len(s))

\* The results that are owed were turn for, each once, and were not given.
Owing(s, o) ==
  /\ \A k \in 1 .. Len(o) :
       /\ \E i \in 1 .. Len(s) : o[k] \in s[i].calls
       /\ \A i \in 1 .. Len(s) : IsTool(s[i]) => s[i].answers # o[k]
  /\ \A j, k \in 1 .. Len(o) : o[j] = o[k] => j = k

TrailInv ==
  /\ Trail(transcript) /\ owed \in Seq(CallIds) /\ Owing(transcript, owed)
  /\ Len(transcript) + Len(owed) <= MaxLength
  /\ task \in 0 .. Len(transcript) /\ (task = 0 => owed = <<>>)

\* The bounds are numbers.
LEMMA ContextBounds ==
  /\ MaxLength \in Nat /\ MaxLength # 0 /\ MaxBatch \in Nat
  /\ Sizes \subseteq Nat
  BY ContextAssumption

\* What an entry has.
LEMMA EntryFields ==
  ASSUME NEW m \in Entries
  PROVE  m.calls \in SUBSET CallIds /\ m.answers \in CallIds /\ m.size \in Weights
  BY DEF Entries

\* An entry has its fields.
LEMMA EntryParts ==
  ASSUME NEW n \in Nat, NEW role \in Roles, NEW size \in Weights, NEW calls \in SUBSET CallIds,
         NEW answers \in CallIds
  PROVE  /\ Entry(n, role, size, calls, answers) \in Entries
         /\ Entry(n, role, size, calls, answers).at = n
         /\ Entry(n, role, size, calls, answers).role = role
         /\ Entry(n, role, size, calls, answers).calls = calls
         /\ Entry(n, role, size, calls, answers).answers = answers
  BY DEF Entry, Entries

\* A trail grows by entries that know their places.
LEMMA TrailJoins ==
  ASSUME NEW s, Trail(s), NEW t \in Seq(Entries),
         \A i \in 1 .. Len(t) : t[i].at = Len(s) + i /\ Born(t[i], Len(s) + Len(t))
  PROVE  /\ Trail(s \o t) /\ Len(s \o t) = Len(s) + Len(t)
         /\ \A i \in 1 .. Len(s) : (s \o t)[i] = s[i]
         /\ \A i \in 1 .. Len(t) : (s \o t)[Len(s) + i] = t[i]
<1> DEFINE u == s \o t
<1>1. s \in Seq(Entries) /\ \A i \in 1 .. Len(s) : s[i].at = i /\ Born(s[i], Len(s))
  BY DEF Trail
<1>2. /\ u \in Seq(Entries) /\ Len(u) = Len(s) + Len(t) /\ Len(s) \in Nat /\ Len(t) \in Nat
      /\ \A i \in 1 .. Len(s) : u[i] = s[i]
      /\ \A i \in 1 .. Len(t) : u[Len(s) + i] = t[i]
  BY <1>1, ConcatProperties
<1> HIDE DEF u
<1>3. ASSUME NEW i \in 1 .. Len(u) PROVE u[i].at = i /\ Born(u[i], Len(u))
  <2>1. CASE i <= Len(s)
    <3>1. i \in 1 .. Len(s) /\ u[i] = s[i]
      BY <1>2, <2>1
    <3>2. s[i].calls \in SUBSET CallIds /\ s[i].answers \in CallIds
      <4>1. s[i] \in Entries
        BY <1>1, <3>1
      <4> QED
        BY <4>1, EntryFields
    <3>3. Len(s) <= Len(u)
      BY <1>2
    <3>4. \A id \in CallIds : id[1] \in Nat
      BY DEF CallIds
    <3>5. Born(s[i], Len(u))
      BY <1>1, <1>2, <3>1, <3>2, <3>3, <3>4 DEF Born
    <3> QED
      BY <1>1, <3>1, <3>5
  <2>2. CASE i > Len(s)
    <3> DEFINE j == i - Len(s)
    <3>1. j \in 1 .. Len(t) /\ i = Len(s) + j
      BY <1>2, <2>2
    <3> HIDE DEF j
    <3> QED
      BY <1>2, <3>1
  <2> QED
    BY <1>2, <2>1, <2>2
<1> QED
  BY <1>2, <1>3 DEF Trail, u

\* An element is put before a sequence.
LEMMA PutBefore ==
  ASSUME NEW S, NEW m \in S, NEW s \in Seq(S)
  PROVE  /\ <<m>> \o s \in Seq(S) /\ Len(<<m>> \o s) = 1 + Len(s) /\ (<<m>> \o s)[1] = m
         /\ \A i \in 1 .. Len(s) : (<<m>> \o s)[1 + i] = s[i]
<1> DEFINE one == <<m>>
<1>1. one \in Seq(S) /\ Len(one) = 1 /\ one[1] = m /\ 1 \in 1 .. Len(one)
  OBVIOUS
<1> HIDE DEF one
<1>2. PICK t : t = one \o s
  OBVIOUS
<1>3. /\ t \in Seq(S) /\ Len(t) = Len(one) + Len(s)
      /\ \A i \in 1 .. Len(one) : t[i] = one[i]
      /\ \A i \in 1 .. Len(s) : t[Len(one) + i] = s[i]
  <2>1. /\ t \in Seq(S) /\ Len(t) = Len(one) + Len(s)
        /\ \A i \in 1 .. Len(one) + Len(s) : t[i] = IF i <= Len(one) THEN one[i] ELSE s[i - Len(one)]
    BY <1>1, <1>2, ConcatProperties, Zenon
  <2>2. Len(one) \in Nat /\ Len(s) \in Nat
    BY <1>1
  <2> QED
    BY <2>1, <2>2
<1>4. t \in Seq(S) /\ Len(t) = 1 + Len(s) /\ t[1] = m /\ \A i \in 1 .. Len(s) : t[1 + i] = s[i]
  BY <1>1, <1>3
<1> QED
  BY <1>2, <1>4 DEF one

\* The same for one entry.
LEMMA TrailAppends ==
  ASSUME NEW s, Trail(s), NEW m \in Entries, m.at = Len(s) + 1, Born(m, Len(s) + 1)
  PROVE  /\ Trail(Append(s, m)) /\ Len(Append(s, m)) = Len(s) + 1
         /\ \A i \in 1 .. Len(s) : Append(s, m)[i] = s[i]
         /\ Append(s, m)[Len(s) + 1] = m
<1> DEFINE t == <<m>>
<1>1. /\ t \in Seq(Entries) /\ Len(t) = 1 /\ t[1] = m
  OBVIOUS
<1>2. s \in Seq(Entries) /\ Len(s) \in Nat
  BY DEF Trail
<1>3. Append(s, m) = s \o t
  BY <1>2
<1> HIDE DEF t
<1>4. 1 \in 1 .. Len(t) /\ \A i \in 1 .. Len(t) : i = 1
  BY <1>1
<1>6. \A i \in 1 .. Len(t) : t[i].at = Len(s) + i /\ Born(t[i], Len(s) + Len(t))
  BY <1>1, <1>4
<1>5. /\ Trail(s \o t) /\ Len(s \o t) = Len(s) + Len(t)
      /\ \A i \in 1 .. Len(s) : (s \o t)[i] = s[i]
      /\ \A i \in 1 .. Len(t) : (s \o t)[Len(s) + i] = t[i]
  BY <1>1, <1>6, TrailJoins
<1> QED
  BY <1>1, <1>3, <1>4, <1>5

\* The invariant of the transcript holds at the start.
LEMMA TrailInitInv == ContextInit => TrailInv
<1> SUFFICES ASSUME ContextInit PROVE TrailInv
  OBVIOUS
<1> DEFINE m == Entry(1, "system", 0, {}, NoCall)
<1>1. transcript = <<m>> /\ owed = <<>> /\ task = 0
  BY DEF ContextInit
<1>2. NoCall \in CallIds /\ NoCall[1] = 0
  BY DEF NoCall, CallIds
<1>3. m \in Entries /\ m.at = 1 /\ m.calls = {} /\ m.answers = NoCall
  <2>1. "system" \in Roles /\ 0 \in Weights /\ {} \in SUBSET CallIds
    BY DEF Roles, Weights
  <2> QED
    BY <1>2, <2>1, EntryParts
<1> HIDE DEF m
<1>4. transcript \in Seq(Entries) /\ Len(transcript) = 1 /\ transcript[1] = m
  BY <1>1, <1>3
<1>5. Trail(transcript)
  BY <1>2, <1>3, <1>4 DEF Trail, Born
<1>6. owed \in Seq(CallIds) /\ Len(owed) = 0
  BY <1>1
<1>7. Owing(transcript, owed)
  BY <1>6 DEF Owing
<1> QED
  BY <1>1, <1>4, <1>5, <1>6, <1>7, ContextBounds DEF TrailInv

\* The invariant contains the types.
LEMMA TrailInvTypes == TrailInv => ContextTypeOK
<1> SUFFICES ASSUME TrailInv PROVE ContextTypeOK
  OBVIOUS
<1>1. /\ transcript \in Seq(Entries) /\ owed \in Seq(CallIds) /\ Owing(transcript, owed)
      /\ \A i \in 1 .. Len(transcript) : transcript[i].at = i
      /\ Len(transcript) + Len(owed) <= MaxLength
      /\ task \in 0 .. Len(transcript)
  BY DEF TrailInv, Trail
<1>2. DOMAIN transcript = 1 .. Len(transcript) /\ Len(transcript) \in Nat /\ Len(owed) \in Nat
  BY <1>1
<1>3. \A i \in DOMAIN transcript : transcript[i].at = i /\ transcript[i].size \in Sizes \cup {0}
  <2>1. \A i \in 1 .. Len(transcript) : transcript[i].size \in Weights
    BY <1>1, EntryFields
  <2> QED
    BY <1>1, <1>2, <2>1 DEF Weights
<1>4. Len(transcript) <= MaxLength
  BY <1>1, <1>2, ContextBounds
<1>5. ToSet(owed) \subseteq Called(transcript) \ Answered(transcript)
  <2> SUFFICES ASSUME NEW k \in 1 .. Len(owed)
               PROVE  owed[k] \in Called(transcript) /\ owed[k] \notin Answered(transcript)
    BY <1>1 DEF ToSet
  <2>1. PICK i \in 1 .. Len(transcript) : owed[k] \in transcript[i].calls
    BY <1>1 DEF Owing
  <2>2. owed[k] \in Called(transcript)
    BY <1>2, <2>1 DEF Called, ToSet
  <2>3. \A j \in 1 .. Len(transcript) : IsTool(transcript[j]) => transcript[j].answers # owed[k]
    BY <1>1 DEF Owing
  <2>4. owed[k] \notin Answered(transcript)
    BY <1>2, <2>3 DEF Answered, ToSet
  <2> QED
    BY <2>2, <2>4
<1> QED
  BY <1>1, <1>3, <1>4, <1>5 DEF ContextTypeOK

\* A question, a redirect.
LEMMA UserSpeaks ==
  ASSUME TrailInv, owed = <<>>, Len(transcript) < MaxLength, NEW size \in Sizes,
         transcript' = Append(transcript, Entry(At, "user", size, {}, NoCall)),
         owed' = owed, task' \in {At, task}
  PROVE  TrailInv'
<1> DEFINE m == Entry(At, "user", size, {}, NoCall)
<1>1. Trail(transcript) /\ transcript \in Seq(Entries) /\ Len(transcript) \in Nat
      /\ task \in 0 .. Len(transcript) /\ At = Len(transcript) + 1
  BY DEF TrailInv, Trail, At
<1>2. m \in Entries /\ m.at = Len(transcript) + 1 /\ m.calls = {} /\ m.answers = NoCall
  <2>1. "user" \in Roles /\ size \in Weights /\ {} \in SUBSET CallIds /\ NoCall \in CallIds /\ At \in Nat
    BY <1>1 DEF Roles, Weights, NoCall, CallIds
  <2> QED
    BY <1>1, <2>1, EntryParts
<1>3. Born(m, Len(transcript) + 1)
  BY <1>1, <1>2 DEF Born, NoCall
<1>4. transcript' = Append(transcript, m)
  OBVIOUS
<1> HIDE DEF m
<1>5. Trail(transcript') /\ Len(transcript') = Len(transcript) + 1
  BY <1>1, <1>2, <1>3, <1>4, TrailAppends
<1>6. owed' \in Seq(CallIds) /\ Len(owed') = 0 /\ owed' = <<>>
  OBVIOUS
<1>7. Owing(transcript', owed')
  BY <1>6 DEF Owing
<1>8. task' \in 0 .. Len(transcript')
  BY <1>1, <1>5
<1> QED
  BY <1>1, <1>5, <1>6, <1>7, <1>8, ContextBounds DEF TrailInv

\* A model turn owes the results of its calls.
LEMMA ModelTurnKeeps ==
  ASSUME TrailInv, NEW some \in 0 .. MaxBatch, NEW size \in Sizes \cup {0}, ModelTurn(some, size)
  PROVE  TrailInv'
<1> DEFINE calls == {<<At, k>> : k \in 1 .. some}
           m == Entry(At, "assistant", size, calls, NoCall)
           o == [k \in 1 .. some |-> <<At, k>>]
<1>1. /\ owed = <<>> /\ task # 0 /\ task' = task /\ Len(transcript) + some < MaxLength
      /\ transcript' = Append(transcript, m) /\ owed' = o
  BY DEF ModelTurn, Ready
<1>2. /\ Trail(transcript) /\ transcript \in Seq(Entries) /\ Len(transcript) \in Nat /\ some \in Nat
      /\ task \in 0 .. Len(transcript) /\ At = Len(transcript) + 1 /\ At \in Nat
  BY DEF TrailInv, Trail, At
<1>3. /\ \A k \in 1 .. some : <<At, k>> \in CallIds /\ <<At, k>>[1] = At
      /\ calls \in SUBSET CallIds
  BY <1>2 DEF CallIds
<1>4. /\ o \in Seq(CallIds) /\ Len(o) = some /\ (\A k \in 1 .. some : o[k] = <<At, k>>)
  BY <1>2, <1>3
<1>5. m \in Entries /\ m.at = Len(transcript) + 1 /\ m.calls = calls /\ m.answers = NoCall
      /\ m.role = "assistant"
  <2>1. "assistant" \in Roles /\ size \in Weights /\ NoCall \in CallIds
    BY DEF Roles, Weights, NoCall, CallIds
  <2> HIDE DEF calls
  <2> QED
    BY <1>2, <1>3, <2>1, EntryParts
<1>6. Born(m, Len(transcript) + 1)
  <2>1. \A id \in calls : id[1] <= Len(transcript) + 1
    BY <1>2, <1>3
  <2> HIDE DEF calls, m
  <2> QED
    BY <1>2, <1>5, <2>1 DEF Born, NoCall
<1>7. \A k \in 1 .. some : o[k] \in m.calls
  BY <1>4, <1>5
<1> HIDE DEF m, o, calls
<1>8. /\ Trail(transcript') /\ Len(transcript') = Len(transcript) + 1
      /\ \A i \in 1 .. Len(transcript) : transcript'[i] = transcript[i]
      /\ transcript'[Len(transcript) + 1] = m
  BY <1>1, <1>2, <1>5, <1>6, TrailAppends
<1>9. Owing(transcript', o)
  <2>1. ASSUME NEW k \in 1 .. some, NEW i \in 1 .. Len(transcript'), IsTool(transcript'[i])
        PROVE  transcript'[i].answers # o[k]
    <3>1. CASE i = Len(transcript) + 1
      BY <1>5, <1>8, <2>1, <3>1 DEF IsTool
    <3>2. CASE i # Len(transcript) + 1
      <4>1. i \in 1 .. Len(transcript) /\ transcript'[i] = transcript[i]
        BY <1>2, <1>8, <3>2
      <4>2. transcript[i].answers[1] <= Len(transcript)
        BY <1>2, <4>1 DEF Trail, Born
      <4>3. o[k][1] = Len(transcript) + 1
        BY <1>2, <1>3, <1>4
      <4> QED
        BY <1>2, <4>1, <4>2, <4>3
    <3> QED
      BY <3>1, <3>2
  <2>2. Len(transcript) + 1 \in 1 .. Len(transcript')
    BY <1>2, <1>8
  <2>3. \A k \in 1 .. some : \E i \in 1 .. Len(transcript') : o[k] \in transcript'[i].calls
    BY <1>7, <1>8, <2>2
  <2>4. \A j, k \in 1 .. some : o[j] = o[k] => j = k
    BY <1>4
  <2> QED
    BY <1>4, <2>1, <2>3, <2>4 DEF Owing
<1>10. Len(transcript') + Len(o) <= MaxLength /\ task' \in 0 .. Len(transcript')
  BY <1>1, <1>2, <1>4, <1>8, ContextBounds
<1> QED
  BY <1>1, <1>4, <1>8, <1>9, <1>10 DEF TrailInv

\* A result is given for the first call that is owed.
LEMMA ToolResultKeeps ==
  ASSUME TrailInv, NEW size \in Sizes, ToolResult(size)
  PROVE  TrailInv'
<1> DEFINE id == owed[1]
           m == Entry(At, "tool", size, {}, id)
<1>1. /\ owed # <<>> /\ owed \in Seq(CallIds) /\ task' = task /\ owed' = Tail(owed) /\ task # 0
      /\ transcript' = Append(transcript, m) /\ Owing(transcript, owed)
      /\ Len(transcript) + Len(owed) <= MaxLength
  BY DEF ToolResult, TrailInv
<1>2. /\ Trail(transcript) /\ transcript \in Seq(Entries) /\ Len(transcript) \in Nat
      /\ task \in 0 .. Len(transcript) /\ At = Len(transcript) + 1 /\ At \in Nat
  BY DEF TrailInv, Trail, At
<1>3. /\ id \in CallIds /\ Len(owed) \in Nat /\ 1 \in 1 .. Len(owed)
      /\ owed' \in Seq(CallIds) /\ Len(owed') = Len(owed) - 1
      /\ \A k \in 1 .. Len(owed') : k + 1 \in 1 .. Len(owed) /\ owed'[k] = owed[k + 1]
  BY <1>1
<1>4. m \in Entries /\ m.at = Len(transcript) + 1 /\ m.calls = {} /\ m.answers = id
      /\ m.role = "tool"
  <2>1. "tool" \in Roles /\ size \in Weights /\ {} \in SUBSET CallIds
    BY DEF Roles, Weights
  <2> HIDE DEF id
  <2> QED
    BY <1>2, <1>3, <2>1, EntryParts
<1>5. Born(m, Len(transcript) + 1)
  <2>1. PICK i \in 1 .. Len(transcript) : id \in transcript[i].calls
    BY <1>1, <1>3 DEF Owing
  <2>2. id[1] <= Len(transcript) /\ id[1] \in Nat
    BY <1>2, <1>3, <2>1 DEF Trail, Born, CallIds
  <2> HIDE DEF id, m
  <2> QED
    BY <1>2, <1>4, <2>2 DEF Born
<1> HIDE DEF m
<1>6. /\ Trail(transcript') /\ Len(transcript') = Len(transcript) + 1
      /\ \A i \in 1 .. Len(transcript) : transcript'[i] = transcript[i]
      /\ transcript'[Len(transcript) + 1] = m
  BY <1>1, <1>2, <1>4, <1>5, TrailAppends
<1>7. Owing(transcript', owed')
  <2>1. ASSUME NEW k \in 1 .. Len(owed')
        PROVE  /\ \E i \in 1 .. Len(transcript') : owed'[k] \in transcript'[i].calls
               /\ \A i \in 1 .. Len(transcript') : IsTool(transcript'[i]) => transcript'[i].answers # owed'[k]
    <3>1. k + 1 \in 1 .. Len(owed) /\ owed'[k] = owed[k + 1] /\ k + 1 # 1
      BY <1>3
    <3>2. PICK i \in 1 .. Len(transcript) : owed[k + 1] \in transcript[i].calls
      BY <1>1, <3>1 DEF Owing
    <3>3. i \in 1 .. Len(transcript') /\ transcript'[i] = transcript[i]
      BY <1>2, <1>6
    <3>4. owed[k + 1] # id
      BY <1>1, <1>3, <3>1 DEF Owing
    <3>5. ASSUME NEW j \in 1 .. Len(transcript'), IsTool(transcript'[j])
          PROVE  transcript'[j].answers # owed[k + 1]
      <4>1. CASE j = Len(transcript) + 1
        BY <1>4, <1>6, <3>4, <4>1
      <4>2. CASE j # Len(transcript) + 1
        <5>1. j \in 1 .. Len(transcript) /\ transcript'[j] = transcript[j]
          BY <1>2, <1>6, <4>2
        <5> QED
          BY <1>1, <3>1, <3>5, <5>1 DEF Owing
      <4> QED
        BY <4>1, <4>2
    <3> QED
      BY <3>1, <3>2, <3>3, <3>5
  <2>2. ASSUME NEW j \in 1 .. Len(owed'), NEW k \in 1 .. Len(owed'), owed'[j] = owed'[k]
        PROVE  j = k
    <3>1. owed[j + 1] = owed[k + 1] /\ j + 1 \in 1 .. Len(owed) /\ k + 1 \in 1 .. Len(owed)
      BY <1>3, <2>2
    <3>2. j + 1 = k + 1
      BY <1>1, <3>1 DEF Owing
    <3> QED
      BY <3>2
  <2> QED
    BY <2>1, <2>2 DEF Owing
<1>8. Len(transcript') + Len(owed') <= MaxLength /\ task' \in 0 .. Len(transcript')
  BY <1>1, <1>2, <1>3, <1>6, ContextBounds
<1> QED
  BY <1>1, <1>3, <1>6, <1>7, <1>8 DEF TrailInv

\* A replayed turn puts a question, perhaps a model turn with its results, perhaps an answer
\* behind T.
Replayed(T, z, rounds) ==
  /\ z \in Seq(Entries) /\ Len(T) <= Len(z) /\ \A i \in 1 .. Len(T) : z[i] = T[i]
  /\ \A i \in Len(T) + 1 .. Len(z) :
       \/ z[i].role \in {"user", "assistant"} /\ z[i].calls = {}
       \/ i = Len(T) + 2 /\ rounds # 0
       \/ \E k \in 1 .. rounds : i = Len(T) + 2 + k
  /\ rounds # 0 =>
       /\ Len(T) + 2 \in 1 .. Len(z) /\ z[Len(T) + 2].role = "assistant"
       /\ z[Len(T) + 2].calls = {<<Len(T) + 1, k>> : k \in 1 .. rounds}
  /\ \A k \in 1 .. rounds :
       /\ Len(T) + 2 + k \in 1 .. Len(z) /\ z[Len(T) + 2 + k].role = "tool"
       /\ z[Len(T) + 2 + k].calls = {} /\ z[Len(T) + 2 + k].answers = <<Len(T) + 1, k>>

\* A replayed turn comes with its results.
LEMMA ReplayTurnKeeps ==
  ASSUME TrailInv, NEW rounds \in 0 .. MaxBatch, NEW size \in Sizes, NEW says \in BOOLEAN,
         ReplayTurn(rounds, size, says)
  PROVE  TrailInv' /\ Replayed(transcript, transcript', rounds)
<1> DEFINE calls == {<<At, k>> : k \in 1 .. rounds}
           asks == Entry(At, "user", size, {}, NoCall)
           turn == Entry(At + 1, "assistant", 0, calls, NoCall)
           result(k) == Entry(At + 1 + k, "tool", size, {}, <<At, k>>)
           results == [k \in 1 .. rounds |-> result(k)]
           rest == IF rounds = 0 THEN <<>> ELSE <<turn>> \o results
           opening == <<asks>> \o rest
           closing == Entry(At + Len(opening), "assistant", size, {}, NoCall)
           last == IF says THEN <<closing>> ELSE <<>>
<1>1. /\ task = 0 /\ task' = 0 /\ owed' = owed /\ transcript' = transcript \o opening \o last
      /\ Len(transcript') <= MaxLength - 1
  BY DEF ReplayTurn
<1>2. /\ Trail(transcript) /\ transcript \in Seq(Entries) /\ Len(transcript) \in Nat
      /\ rounds \in Nat /\ At = Len(transcript) + 1 /\ At \in Nat
      /\ owed = <<>> /\ Len(owed) = 0 /\ owed \in Seq(CallIds)
  BY <1>1 DEF TrailInv, Trail, At
<1>3. /\ \A k \in 1 .. rounds : <<At, k>> \in CallIds /\ <<At, k>>[1] = At
      /\ calls \in SUBSET CallIds /\ NoCall \in CallIds /\ NoCall[1] = 0
      /\ \A id \in calls : id[1] = At
  BY <1>2 DEF CallIds, NoCall
<1>4. /\ {"user", "assistant", "tool"} \subseteq Roles /\ size \in Weights /\ 0 \in Weights
      /\ {} \in SUBSET CallIds
  BY DEF Roles, Weights
<1>5. asks \in Entries /\ asks.at = At /\ asks.calls = {} /\ asks.answers = NoCall /\ asks.role = "user"
  BY <1>2, <1>3, <1>4, EntryParts
<1>6. turn \in Entries /\ turn.at = At + 1 /\ turn.calls = calls /\ turn.answers = NoCall
      /\ turn.role = "assistant"
  <2> HIDE DEF calls
  <2>1. At + 1 \in Nat
    BY <1>2
  <2> QED
    BY <1>3, <1>4, <2>1, EntryParts
<1>7. ASSUME NEW k \in 1 .. rounds
      PROVE  /\ result(k) \in Entries /\ result(k).at = At + 1 + k /\ result(k).calls = {}
             /\ result(k).answers = <<At, k>> /\ result(k).role = "tool"
  <2>1. At + 1 + k \in Nat
    BY <1>2
  <2>2. <<At, k>> \in CallIds
    BY <1>3
  <2> DEFINE id == <<At, k>>
  <2> HIDE DEF id
  <2>3. id \in CallIds
    BY <2>2 DEF id
  <2>4. LET m == Entry(At + 1 + k, "tool", size, {}, id)
        IN  m \in Entries /\ m.at = At + 1 + k /\ m.calls = {} /\ m.answers = id /\ m.role = "tool"
    BY <1>4, <2>1, <2>3, EntryParts
  <2> QED
    BY <2>4 DEF id
<1> HIDE DEF asks, turn, result, calls
<1>8. results \in Seq(Entries) /\ Len(results) = rounds /\ \A k \in 1 .. rounds : results[k] = result(k)
  BY <1>2, <1>7
<1> HIDE DEF results
<1> DEFINE size2 == IF rounds = 0 THEN 0 ELSE rounds + 1
<1>9. /\ rest \in Seq(Entries) /\ Len(rest) = size2
      /\ \A i \in 1 .. size2 : rest[i] = IF i = 1 THEN turn ELSE result(i - 1)
  <2>1. CASE rounds = 0
    BY <2>1
  <2>2. CASE rounds # 0
    <3>2. rest = <<turn>> \o results
      BY <2>2
    <3> HIDE DEF rest
    <3>3. /\ rest \in Seq(Entries) /\ Len(rest) = 1 + rounds /\ rest[1] = turn
          /\ \A k \in 1 .. rounds : rest[1 + k] = results[k]
      BY <1>6, <1>8, <3>2, PutBefore
    <3>4. ASSUME NEW i \in 1 .. size2, i # 1 PROVE rest[i] = result(i - 1)
      <4>1. i - 1 \in 1 .. rounds /\ 1 + (i - 1) = i
        BY <1>2, <2>2, <3>4
      <4>2. rest[1 + (i - 1)] = results[i - 1]
        BY <3>3, <4>1
      <4> QED
        BY <1>8, <4>1, <4>2
    <3>5. size2 = rounds + 1
      BY <2>2
    <3>6. ASSUME NEW i \in 1 .. size2 PROVE rest[i] = IF i = 1 THEN turn ELSE result(i - 1)
      BY <3>3, <3>4
    <3> HIDE DEF size2
    <3> QED
      BY <1>2, <3>3, <3>5, <3>6
  <2> QED
    BY <2>1, <2>2
<1> HIDE DEF rest
<1>10. /\ size2 \in Nat /\ (size2 = 0 <=> rounds = 0) /\ (size2 # 0 => size2 = rounds + 1)
  BY <1>2
<1> HIDE DEF size2
<1>11. /\ opening \in Seq(Entries) /\ Len(opening) = 1 + size2
       /\ opening[1] = asks /\ \A i \in 1 .. size2 : opening[1 + i] = rest[i]
  <2> HIDE DEF size2
  <2>1. /\ opening \in Seq(Entries) /\ Len(opening) = 1 + Len(rest) /\ opening[1] = asks
        /\ \A i \in 1 .. Len(rest) : opening[1 + i] = rest[i]
    BY <1>5, <1>9, PutBefore
  <2> HIDE DEF opening
  <2> QED
    BY <1>9, <2>1
<1> HIDE DEF opening
<1>12. ASSUME NEW i \in 1 .. Len(opening)
       PROVE  opening[i].at = Len(transcript) + i /\ Born(opening[i], Len(transcript) + Len(opening))
  <2> DEFINE n == Len(transcript) + Len(opening)
  <2>1. n \in Nat /\ At <= n
    BY <1>2, <1>10, <1>11
  <2> HIDE DEF n
  <2>2. CASE i = 1
    <3>1. Born(asks, n)
      BY <1>3, <1>5, <2>1 DEF Born
    <3>2. opening[i] = asks /\ asks.at = Len(transcript) + i
      BY <1>2, <1>5, <1>11, <2>2
    <3> QED
      BY <3>1, <3>2 DEF n
  <2>3. CASE i = 2
    <3>1. 1 \in 1 .. size2
      BY <1>10, <1>11, <2>3
    <3>2. opening[1 + 1] = turn
      BY <1>9, <1>11, <3>1
    <3>3. Born(turn, n)
      BY <1>2, <1>3, <1>6, <2>1 DEF Born
    <3>4. opening[i] = turn /\ turn.at = Len(transcript) + i
      BY <1>2, <1>6, <2>3, <3>2
    <3> QED
      BY <3>3, <3>4 DEF n
  <2>4. CASE i > 2
    <3> DEFINE k == i - 2
    <3>1. k \in 1 .. rounds /\ k + 1 \in 1 .. size2 /\ k + 1 # 1 /\ i = 1 + (k + 1)
          /\ (k + 1) - 1 = k /\ k \in Nat
      BY <1>2, <1>10, <1>11, <2>4
    <3> HIDE DEF k
    <3>2. opening[1 + (k + 1)] = rest[k + 1] /\ rest[k + 1] = result((k + 1) - 1)
      BY <1>9, <1>11, <3>1
    <3>3. opening[i] = result(k)
      BY <3>1, <3>2
    <3>4. result(k).at = At + 1 + k /\ result(k).calls = {} /\ result(k).answers[1] = At
      BY <1>3, <1>7, <3>1
    <3>5. Born(result(k), n)
      BY <1>2, <2>1, <3>4 DEF Born
    <3>6. result(k).at = Len(transcript) + i
      BY <1>2, <3>1, <3>4
    <3> QED
      BY <3>3, <3>5, <3>6 DEF n
  <2> QED
    BY <1>10, <1>11, <2>2, <2>3, <2>4
<1> DEFINE grown == transcript \o opening
<1>13. /\ Trail(grown) /\ Len(grown) = Len(transcript) + Len(opening)
       /\ \A i \in 1 .. Len(transcript) : grown[i] = transcript[i]
       /\ \A i \in 1 .. Len(opening) : grown[Len(transcript) + i] = opening[i]
  BY <1>2, <1>11, <1>12, TrailJoins
<1>14. transcript' = grown \o last
  BY <1>1
<1> HIDE DEF grown
<1>15. Len(grown) \in Nat /\ At + Len(opening) = Len(grown) + 1 /\ At + Len(opening) \in Nat
  BY <1>2, <1>10, <1>11, <1>13
<1>16. closing \in Entries /\ closing.at = Len(grown) + 1 /\ closing.calls = {} /\ closing.answers = NoCall
       /\ closing.role = "assistant"
  <2> DEFINE n == At + Len(opening)
  <2> HIDE DEF n
  <2>1. n \in Nat
    BY <1>15 DEF n
  <2>2. LET m == Entry(n, "assistant", size, {}, NoCall)
        IN  m \in Entries /\ m.at = n /\ m.calls = {} /\ m.answers = NoCall /\ m.role = "assistant"
    BY <1>3, <1>4, <2>1, EntryParts
  <2> QED
    BY <1>15, <2>2 DEF n
<1> HIDE DEF closing
<1>17. /\ Trail(transcript') /\ Len(grown) <= Len(transcript')
       /\ \A i \in 1 .. Len(grown) : transcript'[i] = grown[i]
       /\ \A i \in Len(grown) + 1 .. Len(transcript') : transcript'[i] = closing
  <2>1. CASE says
    <3>1. grown \in Seq(Entries)
      BY <1>13 DEF Trail
    <3>2. transcript' = Append(grown, closing)
      BY <1>14, <2>1, <3>1
    <3>3. Born(closing, Len(grown) + 1)
      BY <1>3, <1>15, <1>16 DEF Born
    <3>4. /\ Trail(transcript') /\ Len(transcript') = Len(grown) + 1
          /\ \A i \in 1 .. Len(grown) : transcript'[i] = grown[i]
          /\ transcript'[Len(grown) + 1] = closing
      BY <1>13, <1>16, <3>2, <3>3, TrailAppends
    <3>5. \A i \in Len(grown) + 1 .. Len(transcript') : i = Len(grown) + 1
      BY <1>15, <3>4
    <3> QED
      BY <1>15, <3>4, <3>5
  <2>2. CASE ~says
    <3>1. grown \in Seq(Entries)
      BY <1>13 DEF Trail
    <3>2. transcript' = grown
      BY <1>14, <2>2, <3>1
    <3>3. \A i \in Len(grown) + 1 .. Len(transcript') : FALSE
      BY <1>15, <3>2
    <3> QED
      BY <1>13, <1>15, <3>2, <3>3
  <2> QED
    BY <2>1, <2>2
<1>18. Owing(transcript', owed')
  BY <1>1, <1>2 DEF Owing
<1>19. Len(transcript') \in Nat
  BY <1>17 DEF Trail
<1>20. Len(transcript') + Len(owed') <= MaxLength /\ task' \in 0 .. Len(transcript')
  BY <1>1, <1>2, <1>19, ContextBounds
<1>21. TrailInv'
  BY <1>1, <1>2, <1>17, <1>18, <1>20 DEF TrailInv
<1> DEFINE n == Len(transcript)
           z == transcript'
<1>22. Len(opening) = 1 + size2 /\ Len(grown) = n + 1 + size2 /\ n \in Nat /\ At = n + 1
  BY <1>2, <1>11, <1>13, <1>10
<1>23. /\ z \in Seq(Entries) /\ n <= Len(z) /\ Len(z) \in Nat /\ Len(grown) <= Len(z)
       /\ \A i \in 1 .. n : z[i] = transcript[i]
  <2>1. z \in Seq(Entries)
    BY <1>17 DEF Trail
  <2>2. \A i \in 1 .. n : i \in 1 .. Len(grown)
    BY <1>10, <1>22
  <2> QED
    BY <1>10, <1>13, <1>17, <1>19, <1>22, <2>1, <2>2
<1>24. \A i \in 1 .. 1 + size2 : z[n + i] = opening[i] /\ n + i \in 1 .. Len(z)
  <2>1. \A i \in 1 .. 1 + size2 : n + i \in 1 .. Len(grown) /\ i \in 1 .. Len(opening)
    BY <1>10, <1>22
  <2>2. \A i \in 1 .. Len(grown) : i \in 1 .. Len(z)
    BY <1>15, <1>23
  <2> QED
    BY <1>13, <1>17, <2>1, <2>2
<1>25. z[n + 1] = asks
  <2>1. 1 \in 1 .. 1 + size2
    BY <1>10
  <2> QED
    BY <1>11, <1>24, <2>1
<1>26. rounds # 0 => z[n + 2] = turn /\ n + 2 \in 1 .. Len(z)
  <2> SUFFICES ASSUME rounds # 0 PROVE z[n + 2] = turn /\ n + 2 \in 1 .. Len(z)
    OBVIOUS
  <2>1. 2 \in 1 .. 1 + size2 /\ 1 \in 1 .. size2 /\ 1 + 1 = 2
    BY <1>2, <1>10
  <2>2. opening[1 + 1] = rest[1] /\ rest[1] = turn
    BY <1>9, <1>11, <2>1
  <2> QED
    BY <1>24, <2>1, <2>2
<1>27. ASSUME NEW k \in 1 .. rounds PROVE z[n + 2 + k] = result(k) /\ n + 2 + k \in 1 .. Len(z)
  <2>1. /\ k + 2 \in 1 .. 1 + size2 /\ k + 1 \in 1 .. size2 /\ 1 + (k + 1) = k + 2 /\ k + 1 # 1
        /\ (k + 1) - 1 = k /\ n + (k + 2) = n + 2 + k
    BY <1>2, <1>10, <1>22
  <2>2. opening[1 + (k + 1)] = rest[k + 1] /\ rest[k + 1] = result((k + 1) - 1)
    BY <1>9, <1>11, <2>1
  <2>3. z[n + (k + 2)] = opening[k + 2] /\ n + (k + 2) \in 1 .. Len(z)
    BY <1>24, <2>1
  <2> QED
    BY <2>1, <2>2, <2>3
<1>28. ASSUME NEW i \in n + 1 .. Len(z)
       PROVE  \/ z[i].role \in {"user", "assistant"} /\ z[i].calls = {}
              \/ i = n + 2 /\ rounds # 0
              \/ \E k \in 1 .. rounds : i = n + 2 + k
  <2>1. CASE i = n + 1
    BY <1>5, <1>25, <2>1
  <2>2. CASE i = n + 2 /\ rounds # 0
    BY <2>2
  <2>3. CASE i > n + 2 /\ i <= Len(grown)
    <3>1. rounds # 0 /\ Len(grown) = n + 1 + (rounds + 1)
      BY <1>10, <1>22, <2>3
    <3>2. i - (n + 2) \in 1 .. rounds /\ i = n + 2 + (i - (n + 2))
      BY <1>2, <1>22, <2>3, <3>1
    <3> QED
      BY <3>2
  <2>4. CASE i > Len(grown)
    <3>1. i \in Len(grown) + 1 .. Len(z)
      BY <1>15, <1>22, <1>23, <2>4
    <3>2. z[i] = closing
      BY <1>17, <3>1
    <3> QED
      BY <1>16, <3>2
  <2>5. i = n + 1 \/ (i = n + 2 /\ rounds # 0) \/ (i > n + 2 /\ i <= Len(grown)) \/ i > Len(grown)
    BY <1>10, <1>22, <1>23
  <2> QED
    BY <2>1, <2>2, <2>3, <2>4, <2>5
<1>29. rounds # 0 =>
         /\ n + 2 \in 1 .. Len(z) /\ z[n + 2].role = "assistant"
         /\ z[n + 2].calls = {<<n + 1, k>> : k \in 1 .. rounds}
  BY <1>6, <1>22, <1>26 DEF calls
<1>30. \A k \in 1 .. rounds :
         /\ n + 2 + k \in 1 .. Len(z) /\ z[n + 2 + k].role = "tool"
         /\ z[n + 2 + k].calls = {} /\ z[n + 2 + k].answers = <<n + 1, k>>
  BY <1>7, <1>22, <1>27
<1>31. Replayed(transcript, z, rounds)
  BY <1>23, <1>28, <1>29, <1>30 DEF Replayed
<1> QED
  BY <1>21, <1>31

-----------------------------------------------------------------------------
(* The transcript tells a story that is complete once the model's turn is.  *)

\* Every call has its result or is owed it.
AnsweredOrOwed(T, o) ==
  \A i \in 1 .. Len(T) : \A id \in T[i].calls :
    \/ \E k \in 1 .. Len(o) : o[k] = id
    \/ \E j \in 1 .. Len(T) : IsTool(T[j]) /\ T[j].answers = id

\* What is owed was called by the last turn, behind which there are only results.
Current(T, o) ==
  o # <<>> => \E a \in 1 .. Len(T) :
                /\ \A k \in a + 1 .. Len(T) : IsTool(T[k])
                /\ \A k \in 1 .. Len(o) : o[k] \in T[a].calls

TaleInv == Story(transcript) /\ AnsweredOrOwed(transcript, owed) /\ Current(transcript, owed)

ContextInv == TrailInv /\ TaleInv

\* A story goes on with messages that know their places, with results of a turn before them,
\* and with new calls.
LEMMA StoryGrows ==
  ASSUME NEW T, Story(T), NEW z \in Seq(Messages), Len(T) <= Len(z), \A i \in 1 .. Len(T) : z[i] = T[i],
         \A i \in Len(T) + 1 .. Len(z) :
           /\ z[i].at = i /\ z[i].role # "system" /\ (z[i].role # "assistant" => z[i].calls = {})
           /\ IsTool(z[i]) => \E a \in 1 .. i - 1 : Asks(z, a, i),
         \A i \in 1 .. Len(z), j \in Len(T) + 1 .. Len(z) : z[i].calls \cap z[j].calls # {} => i = j
  PROVE  Story(z)
<1>1. Len(T) \in Nat /\ Len(z) \in Nat /\ Len(T) # 0
  BY DEF Story
<1>2. \A i \in 1 .. Len(z) : i \in 1 .. Len(T) \/ i \in Len(T) + 1 .. Len(z)
  BY <1>1
<1>3. 1 \in 1 .. Len(T) /\ Len(z) # 0
  BY <1>1
<1>4. z[1].role = "system" /\ z[1].size = 0
  BY <1>3 DEF Story
<1>5. ASSUME NEW i \in 1 .. Len(z)
      PROVE  z[i].at = i /\ (i # 1 => z[i].role # "system") /\ (z[i].role # "assistant" => z[i].calls = {})
  <2>1. CASE i \in 1 .. Len(T)
    BY <2>1 DEF Story
  <2>2. CASE i \in Len(T) + 1 .. Len(z)
    BY <2>2
  <2> QED
    BY <1>2, <2>1, <2>2
<1>6. ASSUME NEW i \in 1 .. Len(z), IsTool(z[i]) PROVE \E a \in 1 .. i - 1 : Asks(z, a, i)
  <2>1. CASE i \in 1 .. Len(T)
    <3>1. IsTool(T[i])
      BY <1>6, <2>1
    <3>2. PICK a \in 1 .. i - 1 : Asks(T, a, i)
      BY <2>1, <3>1 DEF Story
    <3>3. a \in 1 .. Len(T) /\ \A k \in a + 1 .. i : k \in 1 .. Len(T)
      BY <1>1, <2>1
    <3>4. Asks(z, a, i)
      BY <2>1, <3>2, <3>3 DEF Asks
    <3> QED
      BY <3>4
  <2>2. CASE i \in Len(T) + 1 .. Len(z)
    BY <1>6, <2>2
  <2> QED
    BY <1>2, <2>1, <2>2
<1>7. ASSUME NEW i \in 1 .. Len(z), NEW j \in 1 .. Len(z), z[i].calls \cap z[j].calls # {} PROVE i = j
  <2>1. CASE i \in 1 .. Len(T) /\ j \in 1 .. Len(T)
    BY <1>7, <2>1 DEF Story
  <2>2. CASE j \in Len(T) + 1 .. Len(z)
    BY <1>7, <2>2
  <2>3. CASE i \in Len(T) + 1 .. Len(z)
    <3>1. z[j].calls \cap z[i].calls # {}
      BY <1>7
    <3> QED
      BY <2>3, <3>1
  <2> QED
    BY <1>2, <2>1, <2>2, <2>3
<1> QED
  BY <1>3, <1>4, <1>5, <1>6, <1>7 DEF Story

\* An entry is a message.
LEMMA EntriesAreMessages == \A s : s \in Seq(Entries) => s \in Seq(Messages)
<1>1. Entries \subseteq Messages
  <2>1. Weights \subseteq Nat
    BY ContextBounds DEF Weights
  <2> QED
    BY <2>1 DEF Entries, Messages
<1> QED
  BY <1>1

\* One message more.
LEMMA StoryAppends ==
  ASSUME TrailInv, Story(transcript), NEW m \in Entries,
         m.at = Len(transcript) + 1, m.role # "system", m.role # "assistant" => m.calls = {},
         IsTool(m) => \E a \in 1 .. Len(transcript) :
                        /\ m.answers \in transcript[a].calls
                        /\ \A k \in a + 1 .. Len(transcript) : IsTool(transcript[k]),
         \A id \in m.calls : id[1] = Len(transcript) + 1,
         transcript' = Append(transcript, m)
  PROVE  /\ Story(transcript') /\ Len(transcript') = Len(transcript) + 1
         /\ \A i \in 1 .. Len(transcript) : transcript'[i] = transcript[i]
         /\ transcript'[Len(transcript) + 1] = m
<1> DEFINE T == transcript
           n == Len(T)
           z == transcript'
<1>1. T \in Seq(Entries) /\ n \in Nat /\ \A i \in 1 .. n : Born(T[i], n)
  BY DEF TrailInv, Trail
<1>2. /\ z \in Seq(Entries) /\ Len(z) = n + 1 /\ z[n + 1] = m /\ \A i \in 1 .. n : z[i] = T[i]
  BY <1>1
<1>3. z \in Seq(Messages) /\ n <= Len(z) /\ \A i \in n + 1 .. Len(z) : i = n + 1
  <2>1. z \in Seq(Messages)
    BY <1>2, EntriesAreMessages
  <2> HIDE DEF T, z, n
  <2> QED
    BY <1>1, <1>2, <2>1
<1> HIDE DEF T, z, n
<1>4. ASSUME IsTool(m) PROVE \E a \in 1 .. (n + 1) - 1 : Asks(z, a, n + 1)
  <2>1. PICK a \in 1 .. n : m.answers \in T[a].calls /\ \A k \in a + 1 .. n : IsTool(T[k])
    BY <1>4 DEF T, n
  <2>2. a \in 1 .. (n + 1) - 1 /\ \A k \in a + 1 .. n + 1 : k = n + 1 \/ (k \in a + 1 .. n /\ k \in 1 .. n)
    BY <1>1
  <2>3. Asks(z, a, n + 1)
    BY <1>2, <1>4, <2>1, <2>2 DEF Asks
  <2> QED
    BY <2>2, <2>3
<1>5. ASSUME NEW i \in 1 .. Len(z), NEW j \in n + 1 .. Len(z), z[i].calls \cap z[j].calls # {} PROVE i = j
  <2>1. j = n + 1 /\ z[j] = m
    BY <1>2, <1>3
  <2>2. CASE i = n + 1
    BY <2>1, <2>2
  <2>3. CASE i # n + 1
    <3>1. i \in 1 .. n /\ z[i] = T[i]
      BY <1>1, <1>2, <2>3
    <3>2. PICK id \in T[i].calls : id \in m.calls
      BY <1>5, <2>1, <3>1
    <3>3. id[1] <= n /\ id[1] = n + 1
      BY <1>1, <3>1, <3>2 DEF Born, T, n
    <3> QED
      BY <1>1, <3>3
  <2> QED
    BY <2>2, <2>3
<1>6. \A i \in n + 1 .. Len(z) :
        /\ z[i].at = i /\ z[i].role # "system" /\ (z[i].role # "assistant" => z[i].calls = {})
        /\ IsTool(z[i]) => \E a \in 1 .. i - 1 : Asks(z, a, i)
  BY <1>2, <1>3, <1>4 DEF n, T
<1>7. Story(z)
  <2>1. Story(T) /\ n = Len(T)
    BY DEF T, n
  <2> QED
    BY <1>2, <1>3, <1>5, <1>6, <2>1, StoryGrows
<1> QED
  BY <1>2, <1>7 DEF T, z, n

\* A note at the end that calls nothing owes nothing.
LEMMA QuietTells ==
  ASSUME ContextInv, owed = <<>>, NEW m \in Entries, m.at = Len(transcript) + 1, m.role = "user",
         m.calls = {}, transcript' = Append(transcript, m), owed' = owed
  PROVE  TaleInv'
<1> DEFINE n == Len(transcript)
           z == transcript'
<1>1. Story(transcript) /\ AnsweredOrOwed(transcript, owed) /\ n \in Nat
  BY DEF ContextInv, TaleInv, Story
<1>2. /\ Story(z) /\ Len(z) = n + 1 /\ z[n + 1] = m
      /\ \A i \in 1 .. n : z[i] = transcript[i]
  <2>1. m.role # "system" /\ ~IsTool(m)
    BY DEF IsTool
  <2>2. TrailInv
    BY DEF ContextInv
  <2> QED
    BY <1>1, <2>1, <2>2, StoryAppends
<1> HIDE DEF z
<1>3. ASSUME NEW i \in 1 .. Len(z), NEW id \in z[i].calls
      PROVE  \E j \in 1 .. Len(z) : IsTool(z[j]) /\ z[j].answers = id
  <2>1. i # n + 1
    BY <1>2, <1>3
  <2>2. i \in 1 .. n /\ z[i] = transcript[i]
    BY <1>1, <1>2, <2>1
  <2>3. PICK j \in 1 .. n : IsTool(transcript[j]) /\ transcript[j].answers = id
    <3>1. id \in transcript[i].calls /\ \A k \in 1 .. Len(owed) : FALSE
      BY <1>3, <2>2
    <3> QED
      BY <1>1, <2>2, <3>1 DEF AnsweredOrOwed
  <2>4. j \in 1 .. Len(z) /\ z[j] = transcript[j]
    BY <1>1, <1>2
  <2> QED
    BY <2>3, <2>4
<1>4. AnsweredOrOwed(z, owed') /\ Current(z, owed')
  BY <1>3 DEF AnsweredOrOwed, Current
<1> QED
  BY <1>2, <1>4 DEF TaleInv, z

\* What a user says leaves the tale in order.
LEMMA UserTells ==
  ASSUME ContextInv, owed = <<>>, NEW size \in Sizes,
         transcript' = Append(transcript, Entry(At, "user", size, {}, NoCall)), owed' = owed
  PROVE  TaleInv'
<1> DEFINE m == Entry(At, "user", size, {}, NoCall)
<1>1. Len(transcript) \in Nat /\ At = Len(transcript) + 1
  BY DEF ContextInv, TaleInv, Story, At
<1>2. m \in Entries /\ m.at = Len(transcript) + 1 /\ m.calls = {} /\ m.role = "user"
  <2>1. "user" \in Roles /\ size \in Weights /\ {} \in SUBSET CallIds /\ NoCall \in CallIds /\ At \in Nat
    BY <1>1 DEF Roles, Weights, NoCall, CallIds
  <2> QED
    BY <1>1, <2>1, EntryParts
<1>3. transcript' = Append(transcript, m)
  OBVIOUS
<1> HIDE DEF m
<1> QED
  BY <1>2, <1>3, QuietTells

\* So does a model turn, whose calls are owed.
LEMMA ModelTurnTells ==
  ASSUME ContextInv, NEW some \in 0 .. MaxBatch, NEW size \in Sizes \cup {0}, ModelTurn(some, size)
  PROVE  TaleInv'
<1> DEFINE calls == {<<At, k>> : k \in 1 .. some}
           m == Entry(At, "assistant", size, calls, NoCall)
           o == [k \in 1 .. some |-> <<At, k>>]
           n == Len(transcript)
           z == transcript'
<1>1. owed = <<>> /\ z = Append(transcript, m) /\ owed' = o
  BY DEF ModelTurn, Ready
<1>2. /\ Story(transcript) /\ AnsweredOrOwed(transcript, owed) /\ TrailInv /\ n \in Nat /\ some \in Nat
      /\ At = n + 1 /\ At \in Nat
  BY ContextBounds DEF ContextInv, TaleInv, Story, At
<1>3. /\ calls \in SUBSET CallIds /\ \A id \in calls : id[1] = n + 1
      /\ o \in Seq(CallIds) /\ Len(o) = some /\ \A k \in 1 .. some : o[k] = <<At, k>> /\ o[k] \in calls
  BY <1>2 DEF CallIds
<1>4. m \in Entries /\ m.at = n + 1 /\ m.calls = calls /\ m.role = "assistant"
  <2>1. "assistant" \in Roles /\ size \in Weights /\ NoCall \in CallIds
    BY DEF Roles, Weights, NoCall, CallIds
  <2> HIDE DEF calls
  <2> QED
    BY <1>2, <1>3, <2>1, EntryParts
<1>5. \A id \in calls : \E k \in 1 .. some : o[k] = id
  BY <1>3
<1> HIDE DEF m, calls, o
<1>6. /\ Story(z) /\ Len(z) = n + 1 /\ z[n + 1] = m
      /\ \A i \in 1 .. n : z[i] = transcript[i]
  <2>1. m.role # "system" /\ ~IsTool(m)
    BY <1>4 DEF IsTool
  <2> QED
    BY <1>1, <1>2, <1>3, <1>4, <2>1, StoryAppends
<1> HIDE DEF z
<1>7. ASSUME NEW i \in 1 .. Len(z), NEW id \in z[i].calls
      PROVE  \/ \E k \in 1 .. Len(o) : o[k] = id
             \/ \E j \in 1 .. Len(z) : IsTool(z[j]) /\ z[j].answers = id
  <2>1. CASE i = n + 1
    BY <1>3, <1>4, <1>5, <1>6, <1>7, <2>1
  <2>2. CASE i # n + 1
    <3>1. i \in 1 .. n /\ z[i] = transcript[i]
      BY <1>2, <1>6, <2>2
    <3>2. PICK j \in 1 .. n : IsTool(transcript[j]) /\ transcript[j].answers = id
      <4>1. id \in transcript[i].calls /\ \A k \in 1 .. Len(owed) : FALSE
        BY <1>1, <1>7, <3>1
      <4> QED
        BY <1>2, <3>1, <4>1 DEF AnsweredOrOwed
    <3>3. j \in 1 .. Len(z) /\ z[j] = transcript[j]
      BY <1>2, <1>6
    <3> QED
      BY <3>2, <3>3
  <2> QED
    BY <2>1, <2>2
<1>8. AnsweredOrOwed(z, o)
  BY <1>7 DEF AnsweredOrOwed
<1>9. Current(z, o)
  <2>1. n + 1 \in 1 .. Len(z) /\ \A k \in (n + 1) + 1 .. Len(z) : FALSE
    BY <1>2, <1>6
  <2>2. \A k \in 1 .. Len(o) : o[k] \in z[n + 1].calls
    BY <1>3, <1>4, <1>6
  <2> QED
    BY <2>1, <2>2 DEF Current
<1> QED
  BY <1>1, <1>6, <1>8, <1>9 DEF TaleInv, z

\* So does a result, which stands in the batch of its turn.
LEMMA ToolResultTells ==
  ASSUME ContextInv, NEW size \in Sizes, ToolResult(size)
  PROVE  TaleInv'
<1> DEFINE id == owed[1]
           m == Entry(At, "tool", size, {}, id)
           n == Len(transcript)
           z == transcript'
           o == owed'
<1>1. /\ owed # <<>> /\ owed \in Seq(CallIds) /\ o = Tail(owed) /\ z = Append(transcript, m)
      /\ Story(transcript) /\ AnsweredOrOwed(transcript, owed) /\ Current(transcript, owed) /\ TrailInv
  BY DEF ToolResult, ContextInv, TrailInv, TaleInv
<1>2. n \in Nat /\ At = n + 1 /\ At \in Nat
  BY <1>1 DEF Story, At
<1>3. /\ id \in CallIds /\ Len(owed) \in Nat /\ 1 \in 1 .. Len(owed)
      /\ o \in Seq(CallIds) /\ Len(o) = Len(owed) - 1
      /\ \A k \in 1 .. Len(o) : k + 1 \in 1 .. Len(owed) /\ o[k] = owed[k + 1]
  BY <1>1
<1>4. m \in Entries /\ m.at = n + 1 /\ m.calls = {} /\ m.answers = id /\ m.role = "tool"
  <2>1. "tool" \in Roles /\ size \in Weights /\ {} \in SUBSET CallIds
    BY DEF Roles, Weights
  <2> HIDE DEF id
  <2> QED
    BY <1>2, <1>3, <2>1, EntryParts
<1> HIDE DEF m
<1>5. PICK a \in 1 .. n : /\ \A k \in a + 1 .. n : IsTool(transcript[k])
                          /\ \A k \in 1 .. Len(owed) : owed[k] \in transcript[a].calls
  BY <1>1 DEF Current
<1>6. /\ Story(z) /\ Len(z) = n + 1 /\ z[n + 1] = m
      /\ \A i \in 1 .. n : z[i] = transcript[i]
  <2>1. /\ m.role # "system" /\ (\A x \in m.calls : x[1] = n + 1)
        /\ m.answers \in transcript[a].calls /\ \A k \in a + 1 .. n : IsTool(transcript[k])
    BY <1>3, <1>4, <1>5
  <2> HIDE DEF id
  <2> QED
    BY <1>1, <1>4, <2>1, StoryAppends
<1> HIDE DEF z, o
<1>7. IsTool(m) /\ n + 1 \in 1 .. Len(z)
  BY <1>2, <1>4, <1>6 DEF IsTool
<1>8. ASSUME NEW i \in 1 .. Len(z), NEW x \in z[i].calls
      PROVE  \/ \E k \in 1 .. Len(o) : o[k] = x
             \/ \E j \in 1 .. Len(z) : IsTool(z[j]) /\ z[j].answers = x
  <2>1. i \in 1 .. n /\ z[i] = transcript[i]
    <3>1. i # n + 1
      BY <1>4, <1>6, <1>8
    <3> QED
      BY <1>2, <1>6, <3>1
  <2>2. \/ \E k \in 1 .. Len(owed) : owed[k] = x
        \/ \E j \in 1 .. n : IsTool(transcript[j]) /\ transcript[j].answers = x
    BY <1>1, <1>8, <2>1 DEF AnsweredOrOwed
  <2>3. ASSUME NEW k \in 1 .. Len(owed), owed[k] = x
        PROVE  \/ \E q \in 1 .. Len(o) : o[q] = x
               \/ \E j \in 1 .. Len(z) : IsTool(z[j]) /\ z[j].answers = x
    <3>1. CASE k = 1
      BY <1>4, <1>6, <1>7, <2>3, <3>1
    <3>2. CASE k # 1
      <4>1. k - 1 \in 1 .. Len(o) /\ (k - 1) + 1 = k
        BY <1>3, <3>2
      <4>2. o[k - 1] = x
        BY <1>3, <2>3, <4>1
      <4> QED
        BY <4>1, <4>2
    <3> QED
      BY <3>1, <3>2
  <2>4. ASSUME NEW j \in 1 .. n, IsTool(transcript[j]), transcript[j].answers = x
        PROVE  \E q \in 1 .. Len(z) : IsTool(z[q]) /\ z[q].answers = x
    <3>1. j \in 1 .. Len(z) /\ z[j] = transcript[j]
      BY <1>2, <1>6
    <3> QED
      BY <2>4, <3>1
  <2> QED
    BY <2>2, <2>3, <2>4
<1>9. AnsweredOrOwed(z, o)
  BY <1>8 DEF AnsweredOrOwed
<1>10. Current(z, o)
  <2>1. a \in 1 .. Len(z) /\ z[a] = transcript[a]
    BY <1>2, <1>6
  <2>2. \A k \in a + 1 .. Len(z) : IsTool(z[k])
    <3> SUFFICES ASSUME NEW k \in a + 1 .. Len(z) PROVE IsTool(z[k])
      OBVIOUS
    <3>1. k = n + 1 \/ (k \in a + 1 .. n /\ k \in 1 .. n)
      BY <1>2, <1>6
    <3> QED
      BY <1>5, <1>6, <1>7, <3>1
  <2>3. \A k \in 1 .. Len(o) : o[k] \in z[a].calls
    BY <1>3, <1>5, <2>1
  <2> QED
    BY <2>1, <2>2, <2>3 DEF Current
<1> QED
  BY <1>6, <1>9, <1>10 DEF TaleInv, z, o

\* So does a replayed turn, whose calls are answered.
LEMMA ReplayTurnTells ==
  ASSUME ContextInv, NEW rounds \in 0 .. MaxBatch, NEW size \in Sizes, NEW says \in BOOLEAN,
         ReplayTurn(rounds, size, says)
  PROVE  TaleInv'
<1> DEFINE n == Len(transcript)
           z == transcript'
           calls == {<<n + 1, k>> : k \in 1 .. rounds}
<1>1. /\ TrailInv /\ Story(transcript) /\ AnsweredOrOwed(transcript, owed) /\ Trail(transcript)
      /\ owed = <<>> /\ owed' = <<>> /\ rounds \in Nat /\ n \in Nat
  BY ContextBounds DEF ReplayTurn, ContextInv, TrailInv, TaleInv, Story
<1>2. TrailInv' /\ Replayed(transcript, z, rounds)
  BY <1>1, ReplayTurnKeeps
<1>3. /\ z \in Seq(Entries) /\ n <= Len(z) /\ \A i \in 1 .. n : z[i] = transcript[i]
      /\ \A i \in n + 1 .. Len(z) :
           \/ z[i].role \in {"user", "assistant"} /\ z[i].calls = {}
           \/ i = n + 2 /\ rounds # 0
           \/ \E k \in 1 .. rounds : i = n + 2 + k
      /\ rounds # 0 => n + 2 \in 1 .. Len(z) /\ z[n + 2].role = "assistant" /\ z[n + 2].calls = calls
      /\ \A k \in 1 .. rounds :
           /\ n + 2 + k \in 1 .. Len(z) /\ z[n + 2 + k].role = "tool"
           /\ z[n + 2 + k].calls = {} /\ z[n + 2 + k].answers = <<n + 1, k>>
  BY <1>2 DEF Replayed
<1>4. Len(z) \in Nat /\ z \in Seq(Messages) /\ \A i \in 1 .. Len(z) : z[i].at = i
  <2>1. \A i \in 1 .. Len(z) : z[i].at = i
    BY <1>2 DEF TrailInv, Trail
  <2> HIDE DEF z
  <2> QED
    BY <1>3, <2>1, EntriesAreMessages
<1>5. \A id \in calls : id[1] = n + 1
  OBVIOUS
<1>6. \A k \in 1 .. rounds : <<n + 1, k>> \in calls
  OBVIOUS
<1>7. \A id \in calls : \E k \in 1 .. rounds : id = <<n + 1, k>>
  OBVIOUS
<1> HIDE DEF z, calls
<1>8. ASSUME NEW i \in n + 1 .. Len(z)
      PROVE  /\ z[i].at = i /\ z[i].role # "system" /\ (z[i].role # "assistant" => z[i].calls = {})
             /\ IsTool(z[i]) => \E a \in 1 .. i - 1 : Asks(z, a, i)
             /\ z[i].calls # {} => i = n + 2 /\ z[i].calls = calls
  <2>1. z[i].at = i
    BY <1>1, <1>4
  <2>2. CASE z[i].role \in {"user", "assistant"} /\ z[i].calls = {}
    BY <2>1, <2>2 DEF IsTool
  <2>3. CASE i = n + 2 /\ rounds # 0
    BY <1>3, <2>1, <2>3 DEF IsTool
  <2>4. CASE \E k \in 1 .. rounds : i = n + 2 + k
    <3>1. PICK k \in 1 .. rounds : i = n + 2 + k
      BY <2>4
    <3>2. z[i].role = "tool" /\ z[i].calls = {} /\ z[i].answers = <<n + 1, k>> /\ rounds # 0
      BY <1>1, <1>3, <3>1
    <3>3. n + 2 \in 1 .. i - 1 /\ z[i].answers \in z[n + 2].calls
      BY <1>1, <1>3, <1>6, <3>1, <3>2
    <3>4. ASSUME NEW q \in (n + 2) + 1 .. i PROVE IsTool(z[q])
      <4>1. q - (n + 2) \in 1 .. rounds /\ q = n + 2 + (q - (n + 2))
        BY <1>1, <3>1, <3>4
      <4> DEFINE p == q - (n + 2)
      <4> HIDE DEF p
      <4>2. p \in 1 .. rounds /\ q = n + 2 + p
        BY <4>1 DEF p
      <4> QED
        BY <1>3, <4>2 DEF IsTool
    <3>5. Asks(z, n + 2, i)
      BY <3>3, <3>4 DEF Asks
    <3> QED
      BY <2>1, <3>2, <3>3, <3>5
  <2> QED
    BY <1>3, <2>2, <2>3, <2>4
<1>9. ASSUME NEW i \in 1 .. Len(z), NEW j \in n + 1 .. Len(z), z[i].calls \cap z[j].calls # {} PROVE i = j
  <2>1. j = n + 2 /\ z[j].calls = calls
    BY <1>8, <1>9
  <2>2. CASE i \in n + 1 .. Len(z)
    BY <1>8, <1>9, <2>1, <2>2
  <2>3. CASE i \notin n + 1 .. Len(z)
    <3>1. i \in 1 .. n /\ z[i] = transcript[i]
      BY <1>1, <1>3, <2>3
    <3>2. PICK id \in transcript[i].calls : id \in calls
      BY <1>9, <2>1, <3>1
    <3>3. id[1] <= n
      BY <1>1, <3>1, <3>2 DEF Trail, Born
    <3> QED
      BY <1>1, <1>5, <3>2, <3>3
  <2> QED
    BY <2>2, <2>3
<1>10. Story(z)
  BY <1>1, <1>3, <1>4, <1>8, <1>9, StoryGrows
<1>11. ASSUME NEW i \in 1 .. Len(z), NEW id \in z[i].calls
       PROVE  \E j \in 1 .. Len(z) : IsTool(z[j]) /\ z[j].answers = id
  <2>1. CASE i \in n + 1 .. Len(z)
    <3>1. id \in calls
      BY <1>8, <1>11, <2>1
    <3>2. PICK k \in 1 .. rounds : id = <<n + 1, k>>
      BY <1>7, <3>1
    <3>3. n + 2 + k \in 1 .. Len(z) /\ IsTool(z[n + 2 + k]) /\ z[n + 2 + k].answers = id
      BY <1>3, <3>2 DEF IsTool
    <3> QED
      BY <3>3
  <2>2. CASE i \notin n + 1 .. Len(z)
    <3>1. i \in 1 .. n /\ z[i] = transcript[i]
      BY <1>1, <1>3, <2>2
    <3>2. PICK j \in 1 .. n : IsTool(transcript[j]) /\ transcript[j].answers = id
      <4>1. id \in transcript[i].calls /\ \A k \in 1 .. Len(owed) : FALSE
        BY <1>1, <1>11, <3>1
      <4> QED
        BY <1>1, <3>1, <4>1 DEF AnsweredOrOwed
    <3>3. j \in 1 .. Len(z) /\ z[j] = transcript[j]
      BY <1>1, <1>3, <1>4
    <3> QED
      BY <3>2, <3>3
  <2> QED
    BY <2>1, <2>2
<1>12. AnsweredOrOwed(z, owed') /\ Current(z, owed')
  BY <1>1, <1>11 DEF AnsweredOrOwed, Current
<1> QED
  BY <1>10, <1>12 DEF TaleInv, z

\* The invariant holds at the start.
LEMMA ContextInitInv == ContextInit => ContextInv
<1> SUFFICES ASSUME ContextInit PROVE ContextInv
  OBVIOUS
<1> DEFINE m == Entry(1, "system", 0, {}, NoCall)
<1>1. transcript = <<m>> /\ owed = <<>> /\ TrailInv
  BY TrailInitInv DEF ContextInit
<1>2. m \in Entries /\ m.at = 1 /\ m.calls = {} /\ m.role = "system" /\ m.size = 0
  <2>1. "system" \in Roles /\ 0 \in Weights /\ {} \in SUBSET CallIds /\ NoCall \in CallIds
    BY DEF Roles, Weights, NoCall, CallIds
  <2>2. m.size = 0
    BY DEF Entry
  <2> QED
    BY <2>1, <2>2, EntryParts
<1> HIDE DEF m
<1> DEFINE T == transcript
<1>3. T \in Seq(Entries) /\ Len(T) = 1 /\ T[1] = m
  BY <1>1, <1>2
<1> HIDE DEF T
<1>4. \A i \in 1 .. Len(T) : i = 1
  BY <1>3
<1>5. ~IsTool(T[1]) /\ T \in Seq(Messages)
  BY <1>2, <1>3, EntriesAreMessages DEF IsTool
<1>6. Story(T)
  BY <1>2, <1>3, <1>4, <1>5 DEF Story
<1>7. AnsweredOrOwed(T, owed) /\ Current(T, owed)
  BY <1>1, <1>2, <1>3, <1>4 DEF AnsweredOrOwed, Current
<1> QED
  BY <1>1, <1>6, <1>7 DEF ContextInv, TaleInv, T

\* Every step keeps it.
LEMMA ContextNextInv == ContextInv /\ [ContextNext]_contextVars => ContextInv'
<1> SUFFICES ASSUME ContextInv, [ContextNext]_contextVars PROVE ContextInv'
  OBVIOUS
<1>1. TrailInv
  BY DEF ContextInv
<1>2. CASE UNCHANGED contextVars
  BY <1>2 DEF contextVars, ContextInv, TrailInv, TaleInv
<1>3. ASSUME NEW size \in Sizes, AskTask(size) PROVE ContextInv'
  <2>1. TrailInv'
    BY <1>1, <1>3, UserSpeaks DEF AskTask, TrailInv
  <2>2. TaleInv'
    BY <1>1, <1>3, UserTells DEF AskTask, TrailInv
  <2> QED
    BY <2>1, <2>2 DEF ContextInv
<1>4. ASSUME NEW size \in Sizes, Nudge(size) PROVE ContextInv'
  <2>1. TrailInv'
    BY <1>1, <1>4, UserSpeaks DEF Nudge, Ready
  <2>2. TaleInv'
    BY <1>4, UserTells DEF Nudge, Ready
  <2> QED
    BY <2>1, <2>2 DEF ContextInv
<1>5. ASSUME NEW batch \in 0 .. MaxBatch, NEW size \in Sizes \cup {0}, ModelTurn(batch, size)
      PROVE  ContextInv'
  BY <1>1, <1>5, ModelTurnKeeps, ModelTurnTells DEF ContextInv
<1>6. ASSUME NEW batch \in 0 .. MaxBatch, NEW size \in Sizes, NEW says \in BOOLEAN,
             ReplayTurn(batch, size, says)
      PROVE  ContextInv'
  BY <1>1, <1>6, ReplayTurnKeeps, ReplayTurnTells DEF ContextInv
<1>7. ASSUME NEW size \in Sizes, ToolResult(size) PROVE ContextInv'
  BY <1>1, <1>7, ToolResultKeeps, ToolResultTells DEF ContextInv
<1> QED
  BY <1>2, <1>3, <1>4, <1>5, <1>6, <1>7 DEF ContextNext

\* The invariant contains the types.
LEMMA ContextInvTypes == ContextInv => ContextTypeOK
  BY TrailInvTypes DEF ContextInv

\* A transcript that is sent is complete, and so every cut of it is sound.
LEMMA ContextInvSound == ContextInv => PreparedIsSound
<1> SUFFICES ASSUME ContextInv, Ready, NEW strategy \in Strategies
             PROVE  /\ WireShape(Prepared(strategy)) /\ InOrder(Prepared(strategy))
                    /\ LossIsTold(Repaired(strategy), strategy)
  BY DEF PreparedIsSound
<1>1. Story(transcript) /\ AnsweredOrOwed(transcript, owed) /\ owed = <<>>
  BY DEF ContextInv, TaleInv, Ready
<1>2. AllAnswered(transcript)
  <2>1. \A k \in 1 .. Len(owed) : FALSE
    BY <1>1
  <2> QED
    BY <1>1, <2>1 DEF AnsweredOrOwed, AllAnswered
<1> QED
  BY <1>1, <1>2, CutsAreSound

\* Whatever a strategy, a budget or a repair leaves of a transcript, each call the model is
\* sent has its result behind it and each result its call, in the order of the transcript,
\* and the losses are told: for any window, any budgets, any batches and any sizes.
THEOREM EveryCutIsSound == ContextSpec => [](ContextTypeOK /\ PreparedIsSound)
<1>1. ContextSpec => []ContextInv
  BY ContextInitInv, ContextNextInv, PTL DEF ContextSpec
<1> QED
  BY <1>1, ContextInvTypes, ContextInvSound, PTL
=============================================================================
