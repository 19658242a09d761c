----------------------- MODULE ThreadWorkspacesProofs -----------------------
(***************************************************************************)
(* Proofs about ThreadWorkspaces, for every finite set of threads and of   *)
(* turns, every quota and any number of restarts: protection is counted    *)
(* exactly, the busy flag of a thread tells the truth, nobody works in a   *)
(* tree that is being copied, and the registry keeps its quota without     *)
(* taking a tree that is worked in or a directory that is pinned. And      *)
(* about BuilderPage, for any number of agents, messages and reads: the    *)
(* chat is the story of the agent in view.                                 *)
(***************************************************************************)
EXTENDS MCConversations, FiniteSetTheorems, SequenceTheorems, TLAPS

Shared == INSTANCE SharedLemmas

-----------------------------------------------------------------------------
(* Names in their order of access: what is left when some have gone.         *)

\* Without takes the names one after the other.
LEMMA WithoutSteps ==
  ASSUME NEW names, Len(names) \in Nat, NEW gone
  PROVE  \E f : /\ f[0] = <<>>
                /\ \A n \in 1..Len(names) :
                     f[n] = IF names[n] \in gone THEN f[n - 1] ELSE Append(f[n - 1], names[n])
                /\ Without(names, gone) = f[Len(names)]
<1> DEFINE len == Len(names)
           Left(before, n) == IF names[n] \in gone THEN before ELSE Append(before, names[n])
           Reached(n, f) == f = [m \in 0..n |-> IF m = 0 THEN <<>> ELSE Left(f[m - 1], m)]
           Reach == {n \in Nat : \E f : Reached(n, f)}
<1>1. 0 \in Reach
  <2>1. Reached(0, [m \in 0..0 |-> <<>>])
    OBVIOUS
  <2> QED
    BY <2>1
<1>2. ASSUME NEW n \in Nat, n \in Reach PROVE n + 1 \in Reach
  <2>1. PICK f : Reached(n, f)
    BY <1>2
  <2> DEFINE v == Left(f[n], n + 1)
             g == [m \in 0..n + 1 |-> IF m = n + 1 THEN v ELSE f[m]]
  <2> HIDE DEF Left
  <2>2. \A m \in 0..n : g[m] = IF m = 0 THEN <<>> ELSE Left(f[m - 1], m)
    BY <2>1
  <2>3. \A m \in 1..n : g[m - 1] = f[m - 1]
    OBVIOUS
  <2>4. g[n + 1] = Left(g[n], n + 1)
    OBVIOUS
  <2>5. ASSUME NEW m \in 0..n + 1
        PROVE  g[m] = IF m = 0 THEN <<>> ELSE Left(g[m - 1], m)
    <3>1. CASE m = 0
      <4>1. 0 \in 0..n
        OBVIOUS
      <4> HIDE DEF g
      <4> QED
        BY <2>2, <3>1, <4>1
    <3>2. CASE m \in 1..n
      <4>1. m \in 0..n /\ m # 0
        BY <3>2
      <4> HIDE DEF g
      <4>2. g[m] = Left(f[m - 1], m)
        BY <2>2, <4>1
      <4>3. g[m - 1] = f[m - 1]
        BY <2>3, <3>2
      <4> QED
        BY <4>1, <4>2, <4>3
    <3>3. CASE m = n + 1
      <4>1. m - 1 = n /\ m # 0
        BY <3>3
      <4> HIDE DEF g
      <4> QED
        BY <2>4, <3>3, <4>1
    <3> QED
      BY <3>1, <3>2, <3>3
  <2>6. DOMAIN g = 0..n + 1 /\ g = [m \in DOMAIN g |-> g[m]]
    OBVIOUS
  <2> HIDE DEF g
  <2>7. Reached(n + 1, g)
    BY <2>5, <2>6
  <2> QED
    BY <2>7
<1> HIDE DEF Reach
<1>3. len \in Reach
  BY <1>1, <1>2, Shared!SetInduction
<1>4. \E f : Reached(len, f)
  BY <1>3 DEF Reach
<1> DEFINE upTo == CHOOSE f : Reached(len, f)
<1>5. Reached(len, upTo)
  <2> HIDE DEF Reached
  <2> QED
    BY <1>4
<1>6. Without(names, gone) = upTo[len]
  BY DEF Without
<1> HIDE DEF upTo, Left
<1>7. upTo[0] = <<>> /\ \A n \in 1..len : upTo[n] = Left(upTo[n - 1], n)
  BY <1>5
<1> QED
  BY <1>6, <1>7 DEF Left

\* x is one of the first n names of s.
Among(s, n, x) == \E i \in 1..n : s[i] = x

\* What is left is shorter if anything went, and has the other names.
LEMMA WithoutProperties ==
  ASSUME NEW T, NEW s \in Seq(T), NEW gone
  PROVE  LET w == Without(s, gone)
         IN  /\ w \in Seq(T)
             /\ Len(w) <= Len(s)
             /\ \A x \in gone : Among(s, Len(s), x) => Len(w) < Len(s)
             /\ \A x : Among(w, Len(w), x) <=> Among(s, Len(s), x) /\ x \notin gone
<1>1. Len(s) \in Nat
  OBVIOUS
<1>2. PICK f : /\ f[0] = <<>>
               /\ \A n \in 1..Len(s) :
                    f[n] = IF s[n] \in gone THEN f[n - 1] ELSE Append(f[n - 1], s[n])
               /\ Without(s, gone) = f[Len(s)]
  BY <1>1, WithoutSteps
<1> DEFINE Good(n, w) == /\ w \in Seq(T)
                         /\ Len(w) <= n
                         /\ \A x \in gone : Among(s, n, x) => Len(w) < n
                         /\ \A x : Among(w, Len(w), x) <=> Among(s, n, x) /\ x \notin gone
           Done == {n \in Nat : n <= Len(s) => Good(n, f[n])}
<1>3. 0 \in Done
  <2>1. Good(0, <<>>)
    BY DEF Among
  <2> QED
    BY <1>2, <2>1
<1>4. ASSUME NEW n \in Nat, n \in Done PROVE n + 1 \in Done
  <2> DEFINE m == n + 1
             v == f[n]
  <2> SUFFICES ASSUME m <= Len(s) PROVE Good(m, f[m])
    <3> HIDE DEF Good
    <3> QED
      OBVIOUS
  <2>1. Good(n, v) /\ m \in 1..Len(s) /\ m - 1 = n /\ s[m] \in T
    BY <1>1, <1>4
  <2>2. f[m] = IF s[m] \in gone THEN v ELSE Append(v, s[m])
    BY <1>2, <2>1
  <2>3. \A x : Among(s, m, x) <=> Among(s, n, x) \/ x = s[m]
    BY DEF Among
  <2>4. CASE s[m] \in gone
    <3>1. \A x : Among(v, Len(v), x) <=> Among(s, m, x) /\ x \notin gone
      BY <2>1, <2>3, <2>4
    <3>2. Len(v) < m /\ Len(v) <= m
      BY <2>1
    <3> HIDE DEF v, m
    <3>3. f[m] = v
      BY <2>2, <2>4
    <3> QED
      BY <2>1, <3>1, <3>2, <3>3
  <2>5. CASE s[m] \notin gone
    <3> DEFINE a == Append(v, s[m])
    <3> HIDE DEF v, m
    <3>1. /\ v \in Seq(T) /\ s[m] \in T
      BY <2>1
    <3>2. /\ a \in Seq(T) /\ Len(a) = Len(v) + 1 /\ a[Len(v) + 1] = s[m]
          /\ \A i \in 1..Len(v) : a[i] = v[i]
      BY <3>1, AppendProperties
    <3>3. Len(v) \in Nat
      BY <3>1
    <3> HIDE DEF a
    <3>4. ASSUME NEW x PROVE Among(a, Len(a), x) <=> Among(v, Len(v), x) \/ x = s[m]
      <4>1. \A i \in 1..Len(a) : i \in 1..Len(v) \/ i = Len(v) + 1
        BY <3>2, <3>3
      <4>2. Len(v) + 1 \in 1..Len(a) /\ \A i \in 1..Len(v) : i \in 1..Len(a)
        BY <3>2, <3>3
      <4> QED
        BY <3>2, <4>1, <4>2 DEF Among
    <3>5. \A x : Among(a, Len(a), x) <=> Among(s, m, x) /\ x \notin gone
      BY <2>1, <2>3, <2>5, <3>4
    <3>6. Len(a) <= m /\ \A x \in gone : Among(s, m, x) => Len(a) < m
      BY <2>1, <2>3, <2>5, <3>2, <3>3 DEF m
    <3>7. f[m] = a
      BY <2>2, <2>5 DEF a
    <3> QED
      BY <3>2, <3>5, <3>6, <3>7
  <2> QED
    BY <2>4, <2>5
<1> HIDE DEF Good
<1>5. \A n \in Nat : n \in Done
  <2> HIDE DEF Done
  <2> QED
    BY <1>3, <1>4, Shared!SetInduction
<1>6. Good(Len(s), f[Len(s)])
  BY <1>1, <1>5
<1> QED
  BY <1>2, <1>6 DEF Good

-----------------------------------------------------------------------------
(* The registry.  What may go has no hold, so eviction, registration and     *)
(* pins leave the counts alone; only Protect and Unprotect move them.        *)

WellFormed(r) ==
  r \in [resident : {r.resident}, dirs : {r.dirs}, holds : [Names -> Nat], pins : {r.pins}]

\* s is a registry with the counts of r.
SameHolds(r, s) == WellFormed(s) /\ s.holds = r.holds

\* Removing names without a hold leaves every count as it was.
LEMMA DropKeepsHolds ==
  ASSUME NEW r, WellFormed(r), NEW gone, \A n \in gone : r.holds[n] = 0
  PROVE  SameHolds(r, Drop(r, gone))
<1>1. [n \in DOMAIN r.holds |-> IF n \in gone THEN 0 ELSE r.holds[n]] = r.holds
  BY DEF WellFormed
<1> QED
  BY <1>1 DEF WellFormed, SameHolds, Drop

\* Pinning, unpinning and registering a name move no count.
LEMMA PinsKeepHolds ==
  ASSUME NEW r, WellFormed(r), NEW n
  PROVE  SameHolds(r, Pin(r, n)) /\ SameHolds(r, Unpin(r, n)) /\ SameHolds(r, Register(r, n))
BY DEF WellFormed, SameHolds, Pin, Unpin, Register

\* The TTL only takes names without a hold.
LEMMA SweepKeepsHolds ==
  ASSUME NEW r, WellFormed(r), NEW old
  PROVE  SameHolds(r, Sweep(r, old))
BY DropKeepsHolds DEF Sweep, Evictable

\* So does the LRU.
LEMMA MakeRoomKeepsHolds ==
  ASSUME NEW r, WellFormed(r)
  PROVE  SameHolds(r, MakeRoom(r))
<1>1. \A n \in Oldest(r) : r.holds[n] = 0
  BY DEF Oldest, Evictable
<1>2. SameHolds(r, Drop(r, Oldest(r)))
  BY <1>1, DropKeepsHolds
<1> QED
  BY <1>2 DEF MakeRoom, SameHolds

\* And so does a lookup, resident or rehydrated.
LEMMA FetchKeepsHolds ==
  ASSUME NEW r, WellFormed(r), NEW n
  PROVE  SameHolds(r, Fetch(r, n))
<1>1. SameHolds(r, Register(r, n))
  BY PinsKeepHolds
<1>2. SameHolds(r, Register(MakeRoom(r), n))
  BY MakeRoomKeepsHolds, PinsKeepHolds DEF SameHolds
<1> QED
  BY <1>1, <1>2 DEF Fetch, SameHolds

\* The two that count.
LEMMA ProtectCounts ==
  ASSUME NEW r, WellFormed(r), NEW n \in Names
  PROVE  /\ WellFormed(Protect(r, n)) /\ WellFormed(Unprotect(r, n))
         /\ Protect(r, n).holds = [r.holds EXCEPT ![n] = @ + 1]
         /\ r.holds[n] # 0 => Unprotect(r, n).holds = [r.holds EXCEPT ![n] = @ - 1]
<1>1. r.holds[n] \in Nat
  BY DEF WellFormed
<1>2. (IF r.holds[n] <= 1 THEN 0 ELSE r.holds[n] - 1) \in Nat
  BY <1>1
<1>3. r.holds[n] # 0 => (IF r.holds[n] <= 1 THEN 0 ELSE r.holds[n] - 1) = r.holds[n] - 1
  BY <1>1
<1> QED
  BY <1>1, <1>2, <1>3 DEF WellFormed, Protect, Unprotect

\* Every registry of Swept has the counts of reg.
LEMMA SweptKeepsHolds ==
  ASSUME WellFormed(reg), NEW swept \in Swept
  PROVE  SameHolds(reg, swept)
BY SweepKeepsHolds DEF Swept

-----------------------------------------------------------------------------
(* What the registry's operators spare.  s has the holds and pins of r, is   *)
(* within the quota if r is, and keeps every name that may not be evicted.   *)

Fits(r) == r \in Registries(Names)

Spares(r, s) ==
  /\ Fits(s) /\ s.holds = r.holds /\ s.pins = r.pins
  /\ Len(r.resident) <= MaxWorkspaces => Len(s.resident) <= MaxWorkspaces
  /\ \A n \in Names : ~Evictable(r, n) =>
       (n \in Resident(r) => n \in Resident(s)) /\ (n \in r.dirs => n \in s.dirs)

\* n is in memory and has its directory.
Kept(r, n) == n \in Resident(r) /\ n \in r.dirs

\* A registry of the right type is well formed, and its resident names are names.
LEMMA FitsFacts ==
  ASSUME NEW r, Fits(r)
  PROVE  /\ WellFormed(r) /\ r.resident \in Seq(Names) /\ Len(r.resident) \in Nat
         /\ \A x : x \in Resident(r) <=> Among(r.resident, Len(r.resident), x)
<1>1. /\ r.resident \in Seq(Names) /\ Len(r.resident) \in Nat
      /\ DOMAIN r.resident = 1..Len(r.resident)
  BY DEF Fits, Registries
<1>2. WellFormed(r)
  BY DEF Fits, Registries, WellFormed
<1> QED
  BY <1>1, <1>2 DEF Resident, Among

\* Sparing is transitive: what may be evicted depends on holds and pins only.
LEMMA SparesTwice ==
  ASSUME NEW r, NEW s, NEW t, Spares(r, s), Spares(s, t)
  PROVE  Spares(r, t)
BY DEF Spares, Evictable

\* Removing what may be evicted spares the rest.
LEMMA DropSpares ==
  ASSUME NEW r, Fits(r), NEW gone, \A n \in gone : Evictable(r, n)
  PROVE  Spares(r, Drop(r, gone))
<1> DEFINE d == Drop(r, gone)
           w == Without(r.resident, gone)
<1>1. /\ w \in Seq(Names) /\ Len(w) <= Len(r.resident)
      /\ \A x : Among(w, Len(w), x) <=> Among(r.resident, Len(r.resident), x) /\ x \notin gone
  BY FitsFacts, WithoutProperties
<1>2. WellFormed(d) /\ d.holds = r.holds
  BY FitsFacts, DropKeepsHolds DEF SameHolds, Evictable
<1>3. d.resident = w /\ d.dirs = r.dirs \ gone /\ d.pins = r.pins
  BY DEF Drop, Fits, Registries
<1> HIDE DEF d, w
<1>4. r.dirs \in SUBSET Names /\ r.pins \in SUBSET Names
  BY DEF Fits, Registries
<1>5. Fits(d)
  BY <1>1, <1>2, <1>3, <1>4 DEF Fits, Registries, WellFormed
<1>6. \A x : x \in Resident(d) <=> x \in Resident(r) /\ x \notin gone
  BY <1>1, <1>3, <1>5, FitsFacts
<1>7. Len(r.resident) <= MaxWorkspaces => Len(d.resident) <= MaxWorkspaces
  BY <1>1, <1>3, FitsFacts, RegistryAssumption
<1> QED
  BY <1>2, <1>3, <1>5, <1>6, <1>7 DEF Spares, d

\* Both evictions spare what is held or pinned.
LEMMA SweepSpares ==
  ASSUME NEW r, Fits(r), NEW old
  PROVE  Spares(r, Sweep(r, old))
BY DropSpares DEF Sweep

\* The LRU gives up one name, or finds room or nothing to give up.
LEMMA MakeRoomSpares ==
  ASSUME NEW r, Fits(r)
  PROVE  Spares(r, MakeRoom(r))
<1>1. \A n \in Oldest(r) : Evictable(r, n)
  BY DEF Oldest
<1>2. Spares(r, Drop(r, Oldest(r)))
  BY <1>1, DropSpares
<1> QED
  BY <1>2 DEF MakeRoom, Spares

\* Every registry of Swept is one.
LEMMA SweptSpares ==
  ASSUME Fits(reg), NEW swept \in Swept
  PROVE  Spares(reg, swept)
BY SweepSpares DEF Swept

\* A name that is resident, or has room, is registered and nothing else goes.
LEMMA RegisterSpares ==
  ASSUME NEW r, Fits(r), NEW n \in Names, n \in Resident(r) \/ HasRoom(r)
  PROVE  Spares(r, Register(r, n)) /\ Kept(Register(r, n), n)
<1> DEFINE g == Register(r, n)
           w == Without(r.resident, {n})
           a == Append(w, n)
<1>0. Len(r.resident) \in Nat /\ MaxWorkspaces \in Nat
  BY FitsFacts, RegistryAssumption
<1>1. /\ w \in Seq(Names) /\ Len(w) <= Len(r.resident)
      /\ n \in Resident(r) => Len(w) < Len(r.resident)
      /\ \A x : Among(w, Len(w), x) <=> Among(r.resident, Len(r.resident), x) /\ x # n
  BY FitsFacts, WithoutProperties
<1>2. /\ g.resident = a /\ g.dirs = r.dirs \cup {n}
      /\ g.holds = r.holds /\ g.pins = r.pins
  BY DEF Register, Fits, Registries
<1>3. WellFormed(g)
  BY FitsFacts, PinsKeepHolds DEF SameHolds
<1> HIDE DEF g, w
<1>4. /\ a \in Seq(Names) /\ Len(a) = Len(w) + 1 /\ a[Len(w) + 1] = n
      /\ \A i \in 1..Len(w) : a[i] = w[i]
  BY <1>1, AppendProperties
<1>5. Len(w) \in Nat
  BY <1>1
<1> HIDE DEF a
<1>6. ASSUME NEW x PROVE Among(a, Len(a), x) <=> Among(w, Len(w), x) \/ x = n
  <2>1. \A i \in 1..Len(a) : i \in 1..Len(w) \/ i = Len(w) + 1
    BY <1>4, <1>5
  <2>2. Len(w) + 1 \in 1..Len(a) /\ \A i \in 1..Len(w) : i \in 1..Len(a)
    BY <1>4, <1>5
  <2> QED
    BY <1>4, <2>1, <2>2 DEF Among
<1>7. r.dirs \in SUBSET Names /\ r.pins \in SUBSET Names
  BY DEF Fits, Registries
<1>8. Fits(g)
  BY <1>2, <1>3, <1>4, <1>7 DEF Fits, Registries, WellFormed
<1>9. \A x : x \in Resident(g) <=> x \in Resident(r) \/ x = n
  BY <1>1, <1>2, <1>6, <1>8, FitsFacts
<1>10. Len(r.resident) <= MaxWorkspaces => Len(g.resident) <= MaxWorkspaces
  BY <1>0, <1>1, <1>2, <1>4, <1>5 DEF HasRoom
<1>11. Spares(r, g)
  BY <1>2, <1>8, <1>9, <1>10 DEF Spares
<1>12. Kept(g, n)
  BY <1>2, <1>9 DEF Kept
<1> QED
  BY <1>11, <1>12 DEF g

\* Where a name can be admitted, making room and registering it spares the rest.
LEMMA AdmitSpares ==
  ASSUME NEW r, Fits(r), NEW n \in Names, CanAdmit(r)
  PROVE  Spares(r, Register(MakeRoom(r), n)) /\ Kept(Register(MakeRoom(r), n), n)
<1>1. Spares(r, MakeRoom(r)) /\ Fits(MakeRoom(r)) /\ HasRoom(MakeRoom(r))
  BY MakeRoomSpares DEF Spares, CanAdmit
<1> QED
  BY <1>1, RegisterSpares, SparesTwice

\* A lookup spares the rest, and what it finds is there behind it.
LEMMA FetchSpares ==
  ASSUME NEW r, Fits(r), NEW n \in Names
  PROVE  Spares(r, Fetch(r, n)) /\ (Found(r, n) => Kept(Fetch(r, n), n))
<1>1. Spares(r, r)
  BY DEF Spares
<1> QED
  BY <1>1, RegisterSpares, AdmitSpares DEF Fetch, Found

\* Holds and pins come and go without a name or a directory.
SameTrees(r, s) == Fits(s) /\ s.resident = r.resident /\ s.dirs = r.dirs

LEMMA CountingKeepsTrees ==
  ASSUME NEW r, Fits(r), NEW n \in Names
  PROVE  /\ SameTrees(r, Protect(r, n)) /\ Protect(r, n).pins = r.pins
         /\ SameTrees(r, Unprotect(r, n)) /\ Unprotect(r, n).pins = r.pins
         /\ SameTrees(r, Pin(r, n)) /\ SameTrees(r, Unpin(r, n))
         /\ Pin(r, n).holds = r.holds /\ Unpin(r, n).holds = r.holds
<1>1. r.holds \in [Names -> Nat] /\ r.holds[n] \in Nat
  BY DEF Fits, Registries
<1>2. (IF r.holds[n] <= 1 THEN 0 ELSE r.holds[n] - 1) \in Nat
  BY <1>1
<1>3. SameTrees(r, Protect(r, n)) /\ Protect(r, n).pins = r.pins
  <2>1. [r.holds EXCEPT ![n] = @ + 1] \in [Names -> Nat]
    BY <1>1
  <2> QED
    BY <2>1 DEF SameTrees, Fits, Registries, Protect
<1>4. SameTrees(r, Unprotect(r, n)) /\ Unprotect(r, n).pins = r.pins
  BY <1>1, <1>2 DEF SameTrees, Fits, Registries, Unprotect
<1> QED
  BY <1>3, <1>4 DEF SameTrees, Fits, Registries, Pin, Unpin

-----------------------------------------------------------------------------
(* The inductive invariant, part by part. *)

TurnInOrder(q) ==
  /\ turns[q].worker = "working" => turns[q].ws \in Names
  /\ turns[q].reply = "success" => turns[q].ws \in Names
  /\ turns[q].nested = 1 => turns[q].worker = "working"
  /\ turns[q].worker = "queued" => turns[q].stream = "open" /\ turns[q].reply = "none"
  /\ turns[q].stream = "idle" =>
       /\ turns[q].worker = "idle" /\ turns[q].reply = "none"
       /\ turns[q].ws = None

CopyInOrder(c) ==
  copies[c] # NoCopy =>
    /\ copies[c].parent \in Threads /\ copies[c].source \in Names
    /\ threads[c].state # "unborn"

\* Types, and what the fields of one record say about each other.
Shape ==
  /\ WellFormed(reg)
  /\ threads \in [Threads -> Thread]
  /\ turns \in [Turns -> Turn]
  /\ copies \in [Threads -> Copy]
  /\ used \subseteq Scratch
  /\ \A q \in Turns : TurnInOrder(q)
  /\ \A c \in Threads : CopyInOrder(c)

\* A registry, a store and turns that were never used are in shape.
LEMMA ShapeInit == ASSUME Init PROVE Shape
BY NamesAssumption
   DEF Init, Shape, WellFormed, EmptyRegistry, Thread, Turn, Copy, NoCopy, TurnInOrder, CopyInOrder

\* A step that only moves turns and thread flags keeps Shape if it keeps the
\* types and the order of the turns.
LEMMA ShapeFrame ==
  ASSUME Shape, WellFormed(reg)', turns' \in [Turns -> Turn], \A q \in Turns : TurnInOrder(q)',
         threads' \in [Threads -> Thread], copies' = copies, used' \subseteq Scratch,
         \A c \in Threads : threads[c].state # "unborn" => threads'[c].state # "unborn"
  PROVE  Shape'
BY DEF Shape, CopyInOrder

\* The fields of a turn that gets its workspace.
LEMMA WorkingFields ==
  ASSUME turns \in [Turns -> Turn], NEW q \in Turns, NEW n \in Names,
         turns' = [turns EXCEPT ![q].worker = "working", ![q].ws = n]
  PROVE  /\ turns' \in [Turns -> Turn]
         /\ turns'[q].worker = "working" /\ turns'[q].ws = n
         /\ turns'[q].thread = turns[q].thread /\ turns'[q].asked = turns[q].asked
         /\ turns'[q].stream = turns[q].stream /\ turns'[q].nested = turns[q].nested
         /\ \A r \in Turns : r # q => turns'[r] = turns[r]
<1>1. [turns[q] EXCEPT !.worker = "working"] \in Turn
  BY DEF Turn
<1>2. \A u \in Turn : [u EXCEPT !.ws = n] \in Turn
  BY DEF Turn
<1>3. turns'[q] = [[turns[q] EXCEPT !.worker = "working"] EXCEPT !.ws = n]
  BY DEF Turn
<1>4. turns' \in [Turns -> Turn] /\ \A r \in Turns : r # q => turns'[r] = turns[r]
  BY <1>1, <1>2, <1>3
<1>5. turns[q] \in Turn
  OBVIOUS
<1>6. /\ turns'[q].worker = "working" /\ turns'[q].ws = n
      /\ turns'[q].thread = turns[q].thread /\ turns'[q].asked = turns[q].asked
      /\ turns'[q].stream = turns[q].stream /\ turns'[q].nested = turns[q].nested
  BY <1>3, <1>5 DEF Turn
<1> QED BY <1>4, <1>6

\* A stream that is left, with the state its worker is left in.
LEMMA LeftFields ==
  ASSUME turns \in [Turns -> Turn], NEW q \in Turns, NEW w \in {"idle", "working", "over"},
         turns' = [turns EXCEPT ![q].stream = "closed", ![q].worker = w]
  PROVE  /\ turns' \in [Turns -> Turn]
         /\ turns'[q].stream = "closed" /\ turns'[q].worker = w
         /\ turns'[q].thread = turns[q].thread /\ turns'[q].asked = turns[q].asked
         /\ turns'[q].ws = turns[q].ws /\ turns'[q].nested = turns[q].nested
         /\ \A r \in Turns : r # q => turns'[r] = turns[r]
<1>1. [turns[q] EXCEPT !.stream = "closed"] \in Turn
  BY DEF Turn
<1>2. \A u \in Turn : [u EXCEPT !.worker = w] \in Turn
  BY DEF Turn
<1>3. turns'[q] = [[turns[q] EXCEPT !.stream = "closed"] EXCEPT !.worker = w]
  BY DEF Turn
<1>4. turns' \in [Turns -> Turn] /\ \A r \in Turns : r # q => turns'[r] = turns[r]
  BY <1>1, <1>2, <1>3
<1>5. turns[q] \in Turn
  OBVIOUS
<1>6. /\ turns'[q].stream = "closed" /\ turns'[q].worker = w
      /\ turns'[q].thread = turns[q].thread /\ turns'[q].asked = turns[q].asked
      /\ turns'[q].ws = turns[q].ws /\ turns'[q].nested = turns[q].nested
  BY <1>3, <1>5 DEF Turn
<1> QED BY <1>4, <1>6

\* A restart leaves every turn idle as it is, or over.
LEMMA RestartedTurn ==
  ASSUME NEW u \in Turn
  PROVE  [u EXCEPT !.stream = "closed", !.worker = "over", !.nested = 0] \in Turn
<1>1. \A v \in Turn : [v EXCEPT !.stream = "closed"] \in Turn
  BY DEF Turn
<1>2. \A v \in Turn : [v EXCEPT !.worker = "over"] \in Turn
  BY DEF Turn
<1>3. \A v \in Turn : [v EXCEPT !.nested = 0] \in Turn
  BY DEF Turn
<1> QED BY <1>1, <1>2, <1>3

\* The store's fork and the flag of the parent, kept idle or held busy.
LEMMA BornIdleFields ==
  ASSUME threads \in [Threads -> Thread], NEW p \in Threads, NEW c \in Threads,
         threads' = [threads EXCEPT ![c].state = "live", ![p].running = FALSE]
  PROVE  /\ threads' \in [Threads -> Thread]
         /\ threads'[c].state = "live" /\ threads'[p].running = FALSE
         /\ \A d \in Threads :
              /\ threads'[d].workspace = threads[d].workspace
              /\ d # p => threads'[d].running = threads[d].running
              /\ d # c => threads'[d].state = threads[d].state
<1>1. threads' \in [Threads -> Thread]
  BY DEF Thread
<1>2. threads'[c].state = "live" /\ threads'[p].running = FALSE
  BY DEF Thread
<1>3. \A d \in Threads :
        /\ threads'[d].workspace = threads[d].workspace
        /\ d # p => threads'[d].running = threads[d].running
        /\ d # c => threads'[d].state = threads[d].state
  BY DEF Thread
<1> QED BY <1>1, <1>2, <1>3

\* The same fork behind which the parent is held busy.
LEMMA BornBusyFields ==
  ASSUME threads \in [Threads -> Thread], NEW p \in Threads, NEW c \in Threads,
         threads' = [threads EXCEPT ![c].state = "live", ![p].running = TRUE]
  PROVE  /\ threads' \in [Threads -> Thread]
         /\ threads'[c].state = "live" /\ threads'[p].running = TRUE
         /\ \A d \in Threads :
              /\ threads'[d].workspace = threads[d].workspace
              /\ d # p => threads'[d].running = threads[d].running
              /\ d # c => threads'[d].state = threads[d].state
<1>1. threads' \in [Threads -> Thread]
  BY DEF Thread
<1>2. threads'[c].state = "live" /\ threads'[p].running = TRUE
  BY DEF Thread
<1>3. \A d \in Threads :
        /\ threads'[d].workspace = threads[d].workspace
        /\ d # p => threads'[d].running = threads[d].running
        /\ d # c => threads'[d].state = threads[d].state
  BY DEF Thread
<1> QED BY <1>1, <1>2, <1>3

\* The end of a copy: the parent's flag, then one field of the fork's record.
LEMMA CopyEndFields ==
  ASSUME threads \in [Threads -> Thread], NEW p \in Threads, NEW c \in Threads,
         NEW w \in Names \cup {None}, threads' = [threads EXCEPT ![p].running = FALSE, ![c].workspace = w]
  PROVE  /\ threads' \in [Threads -> Thread]
         /\ threads'[p].running = FALSE /\ threads'[c].workspace = w
         /\ \A d \in Threads :
              /\ threads'[d].state = threads[d].state
              /\ d # p => threads'[d].running = threads[d].running
              /\ d # c => threads'[d].workspace = threads[d].workspace
<1>1. threads' \in [Threads -> Thread]
  BY DEF Thread
<1>2. threads'[p].running = FALSE /\ threads'[c].workspace = w
  BY DEF Thread
<1>3. \A d \in Threads :
        /\ threads'[d].state = threads[d].state
        /\ d # p => threads'[d].running = threads[d].running
        /\ d # c => threads'[d].workspace = threads[d].workspace
  BY DEF Thread
<1> QED BY <1>1, <1>2, <1>3

\* And the one of a copy that fails.
LEMMA CopyFailFields ==
  ASSUME threads \in [Threads -> Thread], NEW p \in Threads, NEW c \in Threads,
         NEW v \in {"unborn", "live", "gone"}, threads' = [threads EXCEPT ![p].running = FALSE, ![c].state = v]
  PROVE  /\ threads' \in [Threads -> Thread]
         /\ threads'[p].running = FALSE /\ threads'[c].state = v
         /\ \A d \in Threads :
              /\ threads'[d].workspace = threads[d].workspace
              /\ d # p => threads'[d].running = threads[d].running
              /\ d # c => threads'[d].state = threads[d].state
<1>1. threads' \in [Threads -> Thread]
  BY DEF Thread
<1>2. threads'[p].running = FALSE /\ threads'[c].state = v
  BY DEF Thread
<1>3. \A d \in Threads :
        /\ threads'[d].workspace = threads[d].workspace
        /\ d # p => threads'[d].running = threads[d].running
        /\ d # c => threads'[d].state = threads[d].state
  BY DEF Thread
<1> QED BY <1>1, <1>2, <1>3

\* The end of a copy in detail, whichever of its outcomes.
LEMMA CopyEndsEffect ==
  ASSUME Shape, NEW c \in Threads, CopyEnds(c)
  PROVE  LET p == copies[c].parent IN
         /\ p \in Threads /\ copies[c].source \in Names
         /\ threads' \in [Threads -> Thread]
         /\ threads'[p].running = FALSE
         /\ threads'[c].workspace \in {c, threads[c].workspace}
         /\ \A d \in Threads :
              /\ threads'[d].state = threads[d].state
              /\ d # p => threads'[d].running = threads[d].running
              /\ d # c => threads'[d].workspace = threads[d].workspace
         /\ copies' = [copies EXCEPT ![c] = NoCopy]
         /\ UNCHANGED <<turns, used>>
<1> DEFINE p == copies[c].parent
<1>1. p \in Threads /\ copies[c].source \in Names
  BY DEF CopyEnds, Shape, CopyInOrder
<1>2. /\ threads' = [threads EXCEPT ![p].running = FALSE,
                                    ![c].workspace = IF Live(c) THEN c ELSE @]
      /\ copies' = [copies EXCEPT ![c] = NoCopy]
      /\ UNCHANGED <<turns, used>>
  BY DEF CopyEnds
<1>3. threads \in [Threads -> Thread] /\ threads[c].workspace \in Names \cup {None} /\ c \in Names
  BY DEF Shape, Thread, Names
<1>4. ASSUME NEW w, w \in Names \cup {None}, w \in {c, threads[c].workspace},
             threads' = [threads EXCEPT ![p].running = FALSE, ![c].workspace = w]
      PROVE  /\ threads' \in [Threads -> Thread]
             /\ threads'[p].running = FALSE
             /\ threads'[c].workspace = w
             /\ \A d \in Threads :
                  /\ threads'[d].state = threads[d].state
                  /\ d # p => threads'[d].running = threads[d].running
                  /\ d # c => threads'[d].workspace = threads[d].workspace
  <2>1. p \in Threads /\ threads \in [Threads -> Thread]
    BY <1>1, <1>3
  <2> HIDE DEF p
  <2> QED BY <1>4, <2>1, CopyEndFields
<1>5. \E w \in {c, threads[c].workspace} :
        threads' = [threads EXCEPT ![p].running = FALSE, ![c].workspace = w]
  <2>1. CASE Live(c)
    BY <1>2, <2>1
  <2>2. CASE ~Live(c)
    <3> DEFINE mid == [threads EXCEPT ![p].running = FALSE]
    <3>1. mid[c].workspace = threads[c].workspace
      BY <1>1, <1>3 DEF Thread
    <3> QED BY <1>2, <2>2, <3>1
  <2> QED BY <2>1, <2>2
<1> QED
  BY <1>1, <1>2, <1>3, <1>4, <1>5

\* A copy that fails, in detail.
LEMMA CopyFailsEffect ==
  ASSUME Shape, NEW c \in Threads, CopyFails(c)
  PROVE  LET p == copies[c].parent IN
         /\ p \in Threads /\ copies[c].source \in Names
         /\ threads' \in [Threads -> Thread]
         /\ threads'[p].running = FALSE
         /\ threads'[c].state \in {"gone", threads[c].state}
         /\ \A d \in Threads :
              /\ threads'[d].workspace = threads[d].workspace
              /\ d # p => threads'[d].running = threads[d].running
              /\ d # c => threads'[d].state = threads[d].state
         /\ copies' = [copies EXCEPT ![c] = NoCopy]
         /\ UNCHANGED <<turns, used>>
<1> DEFINE p == copies[c].parent
<1>1. p \in Threads /\ copies[c].source \in Names
  BY DEF CopyFails, Shape, CopyInOrder
<1>2. /\ threads' = [threads EXCEPT ![p].running = FALSE,
                                    ![c].state = IF Idle(c) THEN "gone" ELSE @]
      /\ copies' = [copies EXCEPT ![c] = NoCopy]
      /\ UNCHANGED <<turns, used>>
  BY DEF CopyFails
<1>3. threads \in [Threads -> Thread] /\ threads[c].state \in {"unborn", "live", "gone"}
  BY DEF Shape, Thread
<1>4. ASSUME NEW v, v \in {"unborn", "live", "gone"}, v \in {"gone", threads[c].state},
             threads' = [threads EXCEPT ![p].running = FALSE, ![c].state = v]
      PROVE  /\ threads' \in [Threads -> Thread]
             /\ threads'[p].running = FALSE
             /\ threads'[c].state = v
             /\ \A d \in Threads :
                  /\ threads'[d].workspace = threads[d].workspace
                  /\ d # p => threads'[d].running = threads[d].running
                  /\ d # c => threads'[d].state = threads[d].state
  BY <1>1, <1>3, <1>4, CopyFailFields
<1>5. \E v \in {"gone", threads[c].state} :
        threads' = [threads EXCEPT ![p].running = FALSE, ![c].state = v]
  <2>1. CASE Idle(c)
    BY <1>2, <2>1
  <2>2. CASE ~Idle(c)
    <3> DEFINE mid == [threads EXCEPT ![p].running = FALSE]
    <3>1. mid[c].state = threads[c].state
      BY <1>1, <1>3 DEF Thread
    <3> QED BY <1>2, <2>2, <3>1
  <2> QED BY <2>1, <2>2
<1> QED
  BY <1>1, <1>2, <1>3, <1>4, <1>5

\* Nothing in Shape is disturbed by any action.
LEMMA ShapeStep ==
  ASSUME Shape, [Next]_vars
  PROVE  Shape'
<1> USE NamesAssumption
<1>0. /\ WellFormed(reg) /\ threads \in [Threads -> Thread] /\ turns \in [Turns -> Turn]
      /\ copies \in [Threads -> Copy] /\ used \subseteq Scratch
      /\ \A q \in Turns : TurnInOrder(q)
  BY DEF Shape
<1>1. ASSUME NEW t \in Threads, CreateThread(t) \/ DeleteThread(t) \/ GetDetail(t) PROVE Shape'
  <2> USE DEF Shape, Thread, TurnInOrder, CopyInOrder
  <2>1. CASE CreateThread(t)
    BY <2>1 DEF CreateThread
  <2>2. CASE DeleteThread(t)
    BY <2>2, PinsKeepHolds DEF DeleteThread, Idle, Live, SameHolds
  <2>3. CASE GetDetail(t)
    BY <2>3, PinsKeepHolds DEF GetDetail, SameHolds
  <2> QED BY <1>1, <2>1, <2>2, <2>3
<1>2. ASSUME NEW n \in Names, ReadFiles(n) PROVE Shape'
  <2>1. WellFormed(reg)'
    BY <1>0, <1>2, SweptKeepsHolds, FetchKeepsHolds DEF ReadFiles, SameHolds
  <2> QED
    BY <1>2, <2>1 DEF ReadFiles, Shape, TurnInOrder, CopyInOrder
<1>3. ASSUME NEW q \in Turns, NEW t \in Threads, StartTurn(q, t) PROVE Shape'
  BY <1>3 DEF StartTurn, Open, Shape, Thread, Turn, TurnInOrder, CopyInOrder
<1>4. ASSUME NEW q \in Turns, StartColumn(q) PROVE Shape'
  BY <1>4 DEF StartColumn, Open, Shape, Turn, TurnInOrder, CopyInOrder
<1>5. ASSUME NEW q \in Turns, ReuseWorkspace(q) PROVE Shape'
  <2> PICK swept \in Swept :
        /\ Reuses(q, swept)
        /\ reg' = Protect(Fetch(swept, turns[q].asked), turns[q].asked)
    BY <1>5 DEF ReuseWorkspace
  <2>1. turns[q].asked \in Names
    BY <1>0 DEF Reuses, Turn
  <2>2. WellFormed(reg)'
    BY <1>0, <2>1, SweptKeepsHolds, FetchKeepsHolds, ProtectCounts DEF SameHolds
  <2>3. PICK n :
          /\ n \in Names /\ turns[q].worker = "queued"
          /\ turns' = [turns EXCEPT ![q].worker = "working", ![q].ws = n]
          /\ UNCHANGED <<threads, copies, used>>
    BY <1>5, <2>1 DEF ReuseWorkspace
  <2>4. turns' \in [Turns -> Turn]
    BY <1>0, <2>3, WorkingFields
  <2>5. \A r \in Turns : TurnInOrder(r)'
    BY <1>0, <2>1, <2>3 DEF Turn, TurnInOrder
  <2> QED
    BY <1>0, <2>2, <2>3, <2>4, <2>5, ShapeFrame
<1>6. ASSUME NEW q \in Turns, NewWorkspace(q) PROVE Shape'
  <2> PICK swept \in Swept, n \in Scratch \ used :
        LET held == Protect(swept, n) IN
        /\ used' = used \cup {n}
        /\ IF CanAdmit(held)
           THEN /\ reg' = Register(MakeRoom(held), n)
                /\ turns' = [turns EXCEPT ![q].worker = "working", ![q].ws = n]
           ELSE /\ reg' = Unprotect(held, n)
                /\ turns' = [turns EXCEPT ![q].worker = "over", ![q].reply = "failure"]
    BY <1>6 DEF NewWorkspace
  <2>1. n \in Names
    BY DEF Names
  <2>2. WellFormed(Protect(swept, n))
    BY <1>0, <2>1, SweptKeepsHolds, ProtectCounts DEF SameHolds
  <2>3. WellFormed(Unprotect(Protect(swept, n), n))
    BY <2>1, <2>2, ProtectCounts
  <2>4. WellFormed(Register(MakeRoom(Protect(swept, n)), n))
    BY <2>1, <2>2, MakeRoomKeepsHolds, PinsKeepHolds DEF SameHolds
  <2>5. WellFormed(reg)'
    BY <2>3, <2>4
  <2>6. turns[q].worker = "queued" /\ UNCHANGED <<threads, copies>>
    BY <1>6 DEF NewWorkspace
  <2>7. turns' \in [Turns -> Turn] /\ \A r \in Turns : TurnInOrder(r)'
    <3>1. CASE turns' = [turns EXCEPT ![q].worker = "working", ![q].ws = n]
      BY <1>0, <2>1, <2>6, <3>1 DEF Turn, TurnInOrder
    <3>2. CASE turns' = [turns EXCEPT ![q].worker = "over", ![q].reply = "failure"]
      BY <1>0, <2>6, <3>2 DEF Turn, TurnInOrder
    <3> QED BY <3>1, <3>2
  <2> QED
    BY <1>0, <2>5, <2>6, <2>7, ShapeFrame
<1>7. ASSUME NEW q \in Turns, Delegate(q) PROVE Shape'
  <2>1. turns[q].ws \in Names
    BY <1>0, <1>7 DEF Delegate, TurnInOrder
  <2>2. PICK swept \in Swept : reg' = Protect(Fetch(swept, turns[q].ws), turns[q].ws)
    BY <1>7 DEF Delegate
  <2>3. WellFormed(reg)'
    BY <1>0, <2>1, <2>2, SweptKeepsHolds, FetchKeepsHolds, ProtectCounts DEF SameHolds
  <2> QED
    BY <1>7, <2>3 DEF Delegate, Shape, Turn, TurnInOrder, CopyInOrder
<1>8. ASSUME NEW q \in Turns, DelegateReturns(q) PROVE Shape'
  <2>1. WellFormed(reg)'
    BY <1>0, <1>8, ProtectCounts DEF DelegateReturns, TurnInOrder
  <2> QED
    BY <1>8, <2>1 DEF DelegateReturns, Shape, Turn, TurnInOrder, CopyInOrder
<1>9. ASSUME NEW q \in Turns, Answer(q) PROVE Shape'
  BY <1>9 DEF Answer, Shape, Turn, TurnInOrder, CopyInOrder
<1>10. ASSUME NEW q \in Turns, ReleaseWorkspace(q) PROVE Shape'
  <2>1. WellFormed(reg)'
    BY <1>0, <1>10, ProtectCounts DEF ReleaseWorkspace, TurnInOrder
  <2> QED
    BY <1>10, <2>1 DEF ReleaseWorkspace, Shape, Turn, TurnInOrder, CopyInOrder
<1>11. ASSUME NEW q \in Turns, Commit(q) PROVE Shape'
  <2> DEFINE t == turns[q].thread
             success == t # None /\ turns[q].reply = "success"
  <2>1. /\ turns[q].reply # "none" /\ UNCHANGED <<copies, used>>
        /\ turns' = [turns EXCEPT ![q].stream = "answered"]
        /\ threads' = IF success THEN [threads EXCEPT ![t].workspace = turns[q].ws] ELSE threads
    BY <1>11 DEF Commit
  <2>2. WellFormed(reg)'
    BY <1>0, <1>11, PinsKeepHolds DEF Commit, SameHolds
  <2>3. turns' \in [Turns -> Turn] /\ \A r \in Turns : TurnInOrder(r)'
    BY <1>0, <2>1 DEF Turn, TurnInOrder
  <2>4. success => t \in Threads /\ turns[q].ws \in Names
    BY <1>0 DEF Turn, TurnInOrder
  <2>5. /\ threads' \in [Threads -> Thread]
        /\ \A c \in Threads : threads'[c].state = threads[c].state
    BY <1>0, <2>1, <2>4 DEF Thread
  <2> QED
    BY <1>0, <2>1, <2>2, <2>3, <2>5, ShapeFrame
<1>12. ASSUME NEW q \in Turns, EndStream(q) \/ LeaveStream(q) PROVE Shape'
  <2>1. threads' = Release(turns[q].thread) /\ UNCHANGED <<reg, copies, used>>
    BY <1>12 DEF EndStream, LeaveStream
  <2>2. /\ threads' \in [Threads -> Thread]
        /\ \A c \in Threads : threads'[c].state = threads[c].state
    <3>1. turns[q].thread \in Threads \cup {None}
      BY <1>0 DEF Turn
    <3>2. CASE turns[q].thread = None
      BY <1>0, <2>1, <3>2 DEF Release
    <3>3. CASE turns[q].thread \in Threads
      BY <1>0, <2>1, <3>3, NamesAssumption DEF Release, Thread
    <3> QED BY <3>1, <3>2, <3>3
  <2>3. turns' \in [Turns -> Turn] /\ \A r \in Turns : TurnInOrder(r)'
    <3>1. CASE EndStream(q)
      <4>1. turns' = [turns EXCEPT ![q].stream = "closed"] /\ turns[q].worker = "over"
        BY <3>1 DEF EndStream
      <4> QED BY <1>0, <4>1 DEF Turn, TurnInOrder
    <3>2. CASE LeaveStream(q)
      <4>1. PICK w :
              /\ w \in {"idle", "working", "over"}
              /\ turns' = [turns EXCEPT ![q].stream = "closed", ![q].worker = w]
              /\ w = turns[q].worker \/ (turns[q].worker = "queued" /\ w = "over")
        <5>1. turns' = [turns EXCEPT ![q].stream = "closed",
                ![q].worker = IF turns[q].worker = "queued" THEN "over" ELSE turns[q].worker]
          BY <1>0, <3>2 DEF LeaveStream
        <5>2. turns[q].worker \in {"idle", "queued", "working", "over"}
          BY <1>0 DEF Turn
        <5> QED BY <5>1, <5>2
      <4>2. turns' \in [Turns -> Turn]
        BY <1>0, <4>1, LeftFields
      <4>3. \A r \in Turns : TurnInOrder(r)'
        BY <1>0, <4>1 DEF Turn, TurnInOrder
      <4> QED BY <4>2, <4>3
    <3> QED BY <1>12, <3>1, <3>2
  <2>4. WellFormed(reg)'
    BY <1>0, <2>1 DEF WellFormed
  <2> QED
    BY <1>0, <2>1, <2>2, <2>3, <2>4, ShapeFrame
<1>13. ASSUME NEW p \in Threads, NEW c \in Threads, ForkWithoutWorkspace(p, c) PROVE Shape'
  <2>1. threads' = Born(p, c, FALSE) /\ UNCHANGED <<reg, turns, copies, used>>
    BY <1>13 DEF ForkWithoutWorkspace
  <2> QED
    <3>1. /\ threads' \in [Threads -> Thread]
          /\ \A d \in Threads : threads[d].state # "unborn" => threads'[d].state # "unborn"
      <4>0. threads' = [threads EXCEPT ![c].state = "live", ![p].running = FALSE]
        BY <2>1 DEF Born
      <4>1. /\ threads' \in [Threads -> Thread] /\ threads'[c].state = "live"
            /\ \A d \in Threads : d # c => threads'[d].state = threads[d].state
        BY <1>0, <4>0, BornIdleFields
      <4> QED BY <4>1
    <3>2. WellFormed(reg)' /\ turns' \in [Turns -> Turn] /\ \A r \in Turns : TurnInOrder(r)'
      BY <1>0, <2>1 DEF WellFormed, TurnInOrder
    <3> QED BY <1>0, <2>1, <3>1, <3>2, ShapeFrame
<1>14. ASSUME NEW p \in Threads, NEW c \in Threads, ForkWithWorkspace(p, c) PROVE Shape'
  <2> DEFINE source == threads[p].workspace
  <2> PICK swept \in Swept :
        IF Found(swept, source) /\ CanAdmit(Fetch(swept, source))
        THEN /\ reg' = Protect(MakeRoom(Fetch(swept, source)), source)
             /\ copies' = [copies EXCEPT ![c] = [parent |-> p, source |-> source]]
             /\ threads' = Born(p, c, TRUE)
        ELSE /\ reg' = Fetch(swept, source)
             /\ threads' = [threads EXCEPT ![c].state = "gone"]
             /\ UNCHANGED copies
    BY <1>14 DEF ForkWithWorkspace
  <2>1. source \in Names /\ UNCHANGED <<turns, used>>
    BY <1>0, <1>14 DEF ForkWithWorkspace, Thread
  <2>2. WellFormed(Fetch(swept, source))
    BY <1>0, SweptKeepsHolds, FetchKeepsHolds DEF SameHolds
  <2>3. WellFormed(Protect(MakeRoom(Fetch(swept, source)), source))
    BY <2>1, <2>2, MakeRoomKeepsHolds, ProtectCounts DEF SameHolds
  <2>4. WellFormed(reg)'
    BY <2>2, <2>3
  <2>5. CASE UNCHANGED copies /\ threads' = [threads EXCEPT ![c].state = "gone"]
    BY <2>1, <2>4, <2>5 DEF Shape, Thread, TurnInOrder, CopyInOrder
  <2>6. CASE /\ copies' = [copies EXCEPT ![c] = [parent |-> p, source |-> source]]
             /\ threads' = Born(p, c, TRUE)
    <3>1. copies' \in [Threads -> Copy]
      BY <1>0, <2>1, <2>6 DEF Copy
    <3>3. threads' \in [Threads -> Thread]
      <4>1. threads' = [threads EXCEPT ![c].state = "live", ![p].running = TRUE]
        BY <2>6 DEF Born
      <4> QED BY <1>0, <4>1, BornBusyFields
    <3>2. \A d \in Threads : CopyInOrder(d)'
      BY <1>0, <2>1, <2>6 DEF Born, Thread, Copy, CopyInOrder, Shape, NoCopy
    <3> QED
      BY <2>1, <2>4, <3>1, <3>2, <3>3 DEF Shape, TurnInOrder
  <2> QED BY <2>5, <2>6
<1>15. ASSUME NEW c \in Threads, CopyEnds(c) PROVE Shape'
  <2> DEFINE freed == Unprotect(reg, copies[c].source)
  <2>1. copies[c].source \in Names
    BY <1>15, CopyEndsEffect
  <2>2. PICK old \in 0..Len(reg.resident) :
          reg' = LET cloned == Register(MakeRoom(Sweep(freed, old)), c)
                 IN  IF Live(c) THEN Pin(cloned, c) ELSE cloned
    BY <1>15 DEF CopyEnds
  <2>3. WellFormed(freed)
    BY <1>0, <2>1, ProtectCounts
  <2>4. WellFormed(Register(MakeRoom(Sweep(freed, old)), c))
    BY <2>3, SweepKeepsHolds, MakeRoomKeepsHolds, PinsKeepHolds DEF SameHolds
  <2>5. WellFormed(reg)'
    BY <2>2, <2>4, PinsKeepHolds DEF SameHolds
  <2>6. /\ threads' \in [Threads -> Thread]
        /\ \A d \in Threads : threads'[d].state = threads[d].state
        /\ copies' = [copies EXCEPT ![c] = NoCopy]
        /\ UNCHANGED <<turns, used>>
    BY <1>15, CopyEndsEffect
  <2>7. copies' \in [Threads -> Copy]
    BY <1>0, <2>6 DEF Copy, NoCopy
  <2>8. \A d \in Threads : copies'[d] # NoCopy => copies'[d] = copies[d]
    BY <1>0, <2>6
  <2>9. \A d \in Threads : CopyInOrder(d)'
    BY <2>6, <2>8 DEF Shape, CopyInOrder
  <2> QED BY <1>0, <2>5, <2>6, <2>7, <2>9 DEF Shape, TurnInOrder
<1>16. ASSUME NEW c \in Threads, CopyFails(c) PROVE Shape'
  <2>1. copies[c].source \in Names
    BY <1>16, CopyFailsEffect
  <2>2. WellFormed(Unprotect(reg, copies[c].source))
    BY <1>0, <2>1, ProtectCounts
  <2>3. WellFormed(reg)'
    BY <1>16, <2>2, SweepKeepsHolds DEF CopyFails, SameHolds
  <2>4. /\ threads' \in [Threads -> Thread]
        /\ threads'[c].state \in {"gone", threads[c].state}
        /\ \A d \in Threads : d # c => threads'[d].state = threads[d].state
        /\ copies' = [copies EXCEPT ![c] = NoCopy]
        /\ UNCHANGED <<turns, used>>
    BY <1>16, CopyFailsEffect
  <2>5. copies' \in [Threads -> Copy]
    BY <1>0, <2>4 DEF Copy, NoCopy
  <2>6. \A d \in Threads : copies'[d] # NoCopy => d # c /\ copies'[d] = copies[d]
    BY <1>0, <2>4
  <2>7. \A d \in Threads : CopyInOrder(d)'
    BY <2>4, <2>6 DEF Shape, CopyInOrder
  <2> QED BY <1>0, <2>3, <2>4, <2>5, <2>7 DEF Shape, TurnInOrder
<1>17. ASSUME Restart PROVE Shape'
  <2>1. reg' = [EmptyRegistry(DOMAIN reg.holds) EXCEPT !.dirs = reg.dirs]
    BY <1>17 DEF Restart, Reopen
  <2>2. DOMAIN reg.holds = Names
    BY <1>0 DEF WellFormed
  <2>3. WellFormed(reg)'
    BY <2>1, <2>2 DEF EmptyRegistry, WellFormed
  <2>4. threads' \in [Threads -> Thread] /\ copies' = [t \in Threads |-> NoCopy]
    BY <1>0, <1>17 DEF Restart, Thread
  <2>5. ASSUME NEW q \in Turns
        PROVE  /\ turns'[q] \in Turn
               /\ \/ turns[q].stream = "idle" /\ turns'[q] = turns[q]
                  \/ /\ turns'[q].worker = "over" /\ turns'[q].stream = "closed"
                     /\ turns'[q].nested = 0
                     /\ turns'[q].ws = turns[q].ws /\ turns'[q].reply = turns[q].reply
    <3>1. CASE turns[q].stream = "idle"
      BY <1>0, <1>17, <3>1 DEF Restart
    <3>2. CASE turns[q].stream # "idle"
      <4>1. turns'[q] = [turns[q] EXCEPT !.stream = "closed", !.worker = "over", !.nested = 0]
        BY <1>17, <3>2 DEF Restart
      <4>2. turns'[q] \in Turn
        BY <1>0, <4>1, RestartedTurn
      <4>3. turns[q] \in Turn
        BY <1>0
      <4> QED BY <4>1, <4>2, <4>3 DEF Turn
    <3> QED BY <3>1, <3>2
  <2>6. turns' \in [Turns -> Turn] /\ \A r \in Turns : TurnInOrder(r)'
    <3>1. turns' \in [Turns -> Turn]
      BY <1>17, <2>5 DEF Restart
    <3>2. \A r \in Turns : TurnInOrder(r)'
      BY <1>0, <2>5 DEF TurnInOrder
    <3> QED BY <3>1, <3>2
  <2>7. copies' \in [Threads -> Copy] /\ \A c \in Threads : CopyInOrder(c)'
    BY <2>4 DEF Copy, NoCopy, CopyInOrder
  <2>8. used' = used
    BY <1>17 DEF Restart
  <2> QED
    BY <1>0, <2>3, <2>4, <2>5, <2>6, <2>7, <2>8 DEF Shape
<1>18. CASE UNCHANGED vars
  BY <1>0, <1>18 DEF vars, Shape, WellFormed, TurnInOrder, CopyInOrder
<1> QED
  BY <1>1, <1>2, <1>3, <1>4, <1>5, <1>6, <1>7, <1>8, <1>9, <1>10, <1>11, <1>12, <1>13,
     <1>14, <1>15, <1>16, <1>17, <1>18 DEF Next

-----------------------------------------------------------------------------
(* What an action does to the fields of the records it touches.              *)

\* A turn or column that opens was never used before.
LEMMA OpenEffect ==
  ASSUME Shape, NEW q \in Turns, NEW t \in Threads \cup {None},
         NEW asked \in Names \cup {None}, Open(q, t, asked)
  PROVE  /\ turns[q].stream = "idle" /\ turns'[q].stream = "open"
         /\ turns'[q].thread = t /\ turns'[q].asked = asked /\ turns'[q].ws = None
         /\ turns[q].worker = "idle" /\ turns'[q].worker = "queued"
         /\ \A r \in Turns : r # q => turns'[r] = turns[r]
BY DEF Open, Shape, Turn, TurnInOrder

\* The end of a stream: its worker stays as it is, its thread is free.
LEMMA StreamEndsEffect ==
  ASSUME Shape, NEW q \in Turns, EndStream(q) \/ LeaveStream(q)
  PROVE  /\ turns[q].stream \in {"open", "answered"} /\ turns'[q].stream = "closed"
         /\ turns'[q].thread = turns[q].thread /\ turns'[q].asked = turns[q].asked
         /\ turns'[q].ws = turns[q].ws /\ turns'[q].nested = turns[q].nested
         /\ turns'[q].worker = "working" <=> turns[q].worker = "working"
         /\ \A r \in Turns : r # q => turns'[r] = turns[r]
         /\ \A t \in Threads :
              /\ threads'[t].workspace = threads[t].workspace
              /\ threads'[t].running = (t # turns[q].thread /\ threads[t].running)
         /\ UNCHANGED <<reg, copies, used>>
<1>1. turns \in [Turns -> Turn] /\ threads \in [Threads -> Thread]
  BY DEF Shape
<1>2. /\ turns[q].stream \in {"open", "answered"} /\ turns'[q].stream = "closed"
      /\ turns'[q].thread = turns[q].thread /\ turns'[q].asked = turns[q].asked
      /\ turns'[q].ws = turns[q].ws /\ turns'[q].nested = turns[q].nested
      /\ turns'[q].worker = "working" <=> turns[q].worker = "working"
      /\ \A r \in Turns : r # q => turns'[r] = turns[r]
  <2>1. CASE EndStream(q)
    BY <1>1, <2>1 DEF EndStream, Turn
  <2>2. CASE LeaveStream(q)
    <3>1. turns' = [turns EXCEPT ![q].stream = "closed",
            ![q].worker = IF turns[q].worker = "queued" THEN "over" ELSE turns[q].worker]
      BY <1>1, <2>2 DEF LeaveStream
    <3>2. turns[q].worker \in {"idle", "queued", "working", "over"}
      BY <1>1 DEF Turn
    <3>3. PICK w \in {"idle", "working", "over"} :
            /\ turns' = [turns EXCEPT ![q].stream = "closed", ![q].worker = w]
            /\ w = "working" <=> turns[q].worker = "working"
      BY <3>1, <3>2
    <3>4. turns[q].stream \in {"open", "answered"}
      BY <2>2 DEF LeaveStream
    <3> QED BY <1>1, <3>3, <3>4, LeftFields
  <2> QED BY <2>1, <2>2
<1>3. threads' = Release(turns[q].thread) /\ UNCHANGED <<reg, copies, used>>
  BY DEF EndStream, LeaveStream
<1>4. \A t \in Threads :
        /\ threads'[t].workspace = threads[t].workspace
        /\ threads'[t].running = (t # turns[q].thread /\ threads[t].running)
  <2>0. turns[q].thread \in Threads \cup {None} /\ None \notin Threads
    BY <1>1, NamesAssumption DEF Turn
  <2>1. CASE turns[q].thread = None
    BY <1>1, <1>3, <2>0, <2>1 DEF Release, Thread
  <2>2. CASE turns[q].thread # None
    BY <1>1, <1>3, <2>0, <2>2 DEF Release, Thread
  <2> QED BY <2>1, <2>2
<1> QED BY <1>2, <1>3, <1>4

\* A fork finds its parent idle and its source without a hold.
LEMMA ForkEffect ==
  ASSUME Shape, NEW p \in Threads, NEW c \in Threads, ForkWithWorkspace(p, c)
  PROVE  LET source == threads[p].workspace IN
         /\ p # c /\ Idle(p) /\ copies[c] = NoCopy
         /\ source \in Names /\ reg.holds[source] = 0
         /\ \A t \in Threads : threads'[t].workspace = threads[t].workspace
         /\ \A t \in Threads : t # p => threads'[t].running = threads[t].running
         /\ UNCHANGED <<turns, used>>
         /\ \/ /\ copies' = [copies EXCEPT ![c] = [parent |-> p, source |-> source]]
               /\ threads'[p].running = TRUE
               /\ reg'.holds = [reg.holds EXCEPT ![source] = @ + 1]
            \/ /\ copies' = copies /\ threads'[p].running = threads[p].running
               /\ reg'.holds = reg.holds
<1> DEFINE source == threads[p].workspace
<1>1. WellFormed(reg) /\ threads \in [Threads -> Thread]
  BY DEF Shape
<1>2. p # c /\ Idle(p) /\ copies[c] = NoCopy
  BY DEF ForkWithWorkspace, Forkable, Idle, Live, Shape, CopyInOrder
<1>3. source \in Names /\ reg.holds[source] = 0 /\ UNCHANGED <<turns, used>>
  BY <1>1 DEF ForkWithWorkspace, Forkable, Thread
<1> PICK swept \in Swept :
      IF Found(swept, source) /\ CanAdmit(Fetch(swept, source))
      THEN /\ reg' = Protect(MakeRoom(Fetch(swept, source)), source)
           /\ copies' = [copies EXCEPT ![c] = [parent |-> p, source |-> source]]
           /\ threads' = Born(p, c, TRUE)
      ELSE /\ reg' = Fetch(swept, source)
           /\ threads' = [threads EXCEPT ![c].state = "gone"]
           /\ UNCHANGED copies
  BY DEF ForkWithWorkspace
<1>4. SameHolds(reg, Fetch(swept, source))
  BY <1>1, SweptKeepsHolds, FetchKeepsHolds DEF SameHolds
<1>5. SameHolds(reg, MakeRoom(Fetch(swept, source)))
  BY <1>4, MakeRoomKeepsHolds DEF SameHolds
<1>6. Protect(MakeRoom(Fetch(swept, source)), source).holds = [reg.holds EXCEPT ![source] = @ + 1]
  <2>1. \A r : WellFormed(r) => Protect(r, source).holds = [r.holds EXCEPT ![source] = @ + 1]
    BY <1>3, ProtectCounts
  <2> QED BY <1>5, <2>1 DEF SameHolds
<1>7. CASE /\ reg' = Protect(MakeRoom(Fetch(swept, source)), source)
           /\ copies' = [copies EXCEPT ![c] = [parent |-> p, source |-> source]]
           /\ threads' = Born(p, c, TRUE)
  <2>1. threads' = [threads EXCEPT ![c].state = "live", ![p].running = TRUE]
    BY <1>7 DEF Born
  <2>2. /\ threads'[p].running = TRUE
        /\ \A t \in Threads : threads'[t].workspace = threads[t].workspace
        /\ \A t \in Threads : t # p => threads'[t].running = threads[t].running
    BY <1>1, <2>1, BornBusyFields
  <2> QED BY <1>2, <1>3, <1>6, <1>7, <2>2
<1>8. CASE /\ reg' = Fetch(swept, source)
           /\ threads' = [threads EXCEPT ![c].state = "gone"]
           /\ UNCHANGED copies
  <2>1. \A t \in Threads : /\ threads'[t].workspace = threads[t].workspace
                           /\ threads'[t].running = threads[t].running
    BY <1>1, <1>8 DEF Thread
  <2> QED BY <1>2, <1>3, <1>4, <1>8, <2>1 DEF SameHolds
<1> QED BY <1>7, <1>8

\* A restart: memory is empty, nobody works, streams or copies.
LEMMA RestartEffect ==
  ASSUME Shape, Restart
  PROVE  /\ reg'.holds = [n \in Names |-> 0]
         /\ \A t \in Threads : /\ threads'[t].running = FALSE
                               /\ threads'[t].workspace = threads[t].workspace
         /\ \A q \in Turns : /\ turns'[q].stream \in {"idle", "closed"}
                             /\ turns'[q].worker # "working"
                             /\ turns'[q].thread = turns[q].thread
                             /\ turns'[q].asked = turns[q].asked
                             /\ turns'[q].ws = turns[q].ws
         /\ copies' = [t \in Threads |-> NoCopy]
         /\ UNCHANGED used
<1>1. reg'.holds = [n \in Names |-> 0]
  BY DEF Restart, Reopen, EmptyRegistry, Shape, WellFormed
<1>2. /\ copies' = [t \in Threads |-> NoCopy] /\ UNCHANGED used
      /\ \A t \in Threads : /\ threads'[t].running = FALSE
                            /\ threads'[t].workspace = threads[t].workspace
  BY DEF Restart, Shape, Thread
<1>3. ASSUME NEW q \in Turns
      PROVE  /\ turns'[q].stream \in {"idle", "closed"} /\ turns'[q].worker # "working"
             /\ turns'[q].thread = turns[q].thread /\ turns'[q].asked = turns[q].asked
             /\ turns'[q].ws = turns[q].ws
  <2>1. turns[q] \in Turn /\ TurnInOrder(q)
    BY DEF Shape
  <2>2. CASE turns[q].stream = "idle"
    BY <2>1, <2>2 DEF Restart, TurnInOrder
  <2>3. CASE turns[q].stream # "idle"
    <3>1. turns'[q] = [turns[q] EXCEPT !.stream = "closed", !.worker = "over", !.nested = 0]
      BY <2>3 DEF Restart
    <3> QED BY <2>1, <3>1 DEF Turn
  <2> QED BY <2>2, <2>3
<1> QED BY <1>1, <1>2, <1>3

-----------------------------------------------------------------------------
(* A thread is busy with one thing at a time: the stream of a single turn,   *)
(* or a single fork that copies from it.                                     *)

Drives(q, t) == turns[q].thread = t /\ turns[q].stream \in {"open", "answered"}

BusyWith(t) ==
  /\ threads[t].running <=> \/ \E q \in Turns : Drives(q, t)
                            \/ \E c \in Threads : copies[c].parent = t
  /\ \A q, r \in Turns : Drives(q, t) /\ Drives(r, t) => q = r
  /\ \A c, d \in Threads : copies[c].parent = t /\ copies[d].parent = t => c = d
  /\ \A q \in Turns, c \in Threads : ~(Drives(q, t) /\ copies[c].parent = t)

Busy == \A t \in Threads : BusyWith(t)

\* No thread is busy at first.
LEMMA BusyInit == ASSUME Init PROVE Busy
BY NamesAssumption DEF Init, Busy, BusyWith, Drives, NoCopy

\* Steps that move neither a flag nor what it stands for.
LEMMA BusyFrame ==
  ASSUME Busy, \A t \in Threads : threads'[t].running = threads[t].running,
         \A q \in Turns, t \in Threads : Drives(q, t)' <=> Drives(q, t),
         copies' = copies
  PROVE  Busy'
BY DEF Busy, BusyWith

\* What raises a flag finds it down; what takes it down has raised it.
LEMMA BusyStep ==
  ASSUME Shape, Busy, [Next]_vars
  PROVE  Busy'
<1> USE NamesAssumption
<1>0. /\ threads \in [Threads -> Thread] /\ turns \in [Turns -> Turn]
      /\ copies \in [Threads -> Copy]
  BY DEF Shape
<1>1. ASSUME NEW t \in Threads, CreateThread(t) \/ DeleteThread(t) \/ GetDetail(t) PROVE Busy'
  <2>1. turns' = turns /\ copies' = copies
    BY <1>1 DEF CreateThread, DeleteThread, GetDetail
  <2>2. \A u \in Threads : threads'[u].running = threads[u].running
    BY <1>0, <1>1 DEF CreateThread, DeleteThread, GetDetail, Thread
  <2> QED BY <2>1, <2>2, BusyFrame DEF Drives
<1>2. ASSUME NEW n \in Names, ReadFiles(n) PROVE Busy'
  BY <1>2, BusyFrame DEF ReadFiles, Drives
<1>3. ASSUME NEW q \in Turns, NEW t \in Threads, StartTurn(q, t) PROVE Busy'
  <2>1. ~threads[t].running /\ copies' = copies
    BY <1>3 DEF StartTurn, Idle
  <2>2. /\ threads'[t].running = TRUE
        /\ \A u \in Threads : u # t => threads'[u].running = threads[u].running
    BY <1>0, <1>3 DEF StartTurn, Thread
  <2>3. threads[t].workspace \in Names \cup {None}
    BY <1>0 DEF Thread
  <2>4. /\ turns[q].stream = "idle" /\ turns'[q].stream = "open" /\ turns'[q].thread = t
        /\ \A r \in Turns : r # q => turns'[r] = turns[r]
    BY <1>3, <2>3, OpenEffect DEF StartTurn
  <2>5. \A u \in Threads : ~Drives(q, u)
    BY <2>4 DEF Drives
  <2>6. \A r \in Turns, u \in Threads : Drives(r, u)' <=> Drives(r, u) \/ (r = q /\ u = t)
    BY <2>4, <2>5 DEF Drives
  <2> QED BY <2>1, <2>2, <2>6 DEF Busy, BusyWith
<1>4. ASSUME NEW q \in Turns, StartColumn(q) PROVE Busy'
  <2>1. /\ turns[q].stream = "idle" /\ turns'[q].thread = None
        /\ \A r \in Turns : r # q => turns'[r] = turns[r]
    BY <1>4, OpenEffect DEF StartColumn
  <2>2. \A r \in Turns, u \in Threads : Drives(r, u)' <=> Drives(r, u)
    BY <2>1 DEF Drives
  <2> QED BY <1>4, <2>2, BusyFrame DEF StartColumn
<1>5. ASSUME NEW q \in Turns,
             \/ ReuseWorkspace(q) \/ NewWorkspace(q) \/ Delegate(q) \/ DelegateReturns(q)
             \/ Answer(q) \/ ReleaseWorkspace(q) \/ Commit(q)
      PROVE  Busy'
  <2>1. \A r \in Turns, u \in Threads : Drives(r, u)' <=> Drives(r, u)
    <3>1. CASE ReuseWorkspace(q) \/ NewWorkspace(q)
      BY <1>0, <3>1 DEF ReuseWorkspace, NewWorkspace, Turn, Drives
    <3>2. CASE Delegate(q) \/ DelegateReturns(q)
      BY <1>0, <3>2 DEF Delegate, DelegateReturns, Turn, Drives
    <3>3. CASE Answer(q) \/ ReleaseWorkspace(q)
      BY <1>0, <3>3 DEF Answer, ReleaseWorkspace, Turn, Drives
    <3>4. CASE Commit(q)
      BY <1>0, <3>4 DEF Commit, Turn, Drives
    <3> QED BY <1>5, <3>1, <3>2, <3>3, <3>4
  <2>2. copies' = copies
    BY <1>5 DEF ReuseWorkspace, NewWorkspace, Delegate, DelegateReturns, Answer,
                ReleaseWorkspace, Commit
  <2>3. \A u \in Threads : threads'[u].running = threads[u].running
    BY <1>0, <1>5 DEF ReuseWorkspace, NewWorkspace, Delegate, DelegateReturns, Answer,
                      ReleaseWorkspace, Commit, Thread
  <2> QED BY <2>1, <2>2, <2>3, BusyFrame
<1>6. ASSUME NEW q \in Turns, EndStream(q) \/ LeaveStream(q) PROVE Busy'
  <2>1. /\ turns[q].stream \in {"open", "answered"} /\ turns'[q].stream = "closed"
        /\ \A r \in Turns : r # q => turns'[r] = turns[r]
        /\ \A t \in Threads : threads'[t].running = (t # turns[q].thread /\ threads[t].running)
        /\ copies' = copies
    BY <1>6, StreamEndsEffect
  <2>2. \A r \in Turns, u \in Threads : Drives(r, u)' <=> Drives(r, u) /\ r # q
    BY <2>1 DEF Drives
  <2>3. \A u \in Threads : Drives(q, u) <=> u = turns[q].thread
    BY <2>1 DEF Drives
  <2>4. ASSUME NEW t \in Threads, t = turns[q].thread PROVE BusyWith(t)'
    <3>1. threads'[t].running = FALSE /\ Drives(q, t)
      BY <2>1, <2>3, <2>4
    <3>2. \A r \in Turns : ~Drives(r, t)'
      BY <2>2, <3>1 DEF Busy, BusyWith
    <3>3. \A c \in Threads : copies'[c].parent # t
      BY <2>1, <3>1 DEF Busy, BusyWith
    <3> QED BY <3>1, <3>2, <3>3 DEF BusyWith
  <2>5. ASSUME NEW t \in Threads, t # turns[q].thread PROVE BusyWith(t)'
    <3>1. threads[t].running \in BOOLEAN
      BY <1>0 DEF Thread
    <3>2. threads'[t].running = threads[t].running
      BY <2>1, <2>5, <3>1
    <3>3. \A r \in Turns : Drives(r, t)' <=> Drives(r, t)
      BY <2>2, <2>3, <2>5
    <3>4. BusyWith(t) /\ copies' = copies
      BY <2>1 DEF Busy
    <3> QED BY <3>2, <3>3, <3>4 DEF BusyWith
  <2>6. \A t \in Threads : BusyWith(t)'
    BY <2>4, <2>5
  <2> QED BY <2>6 DEF Busy
<1>7. ASSUME NEW p \in Threads, NEW c \in Threads, ForkWithoutWorkspace(p, c) PROVE Busy'
  <2>1. /\ threads' = [threads EXCEPT ![c].state = "live", ![p].running = FALSE]
        /\ UNCHANGED <<turns, copies>> /\ ~threads[p].running
    BY <1>7 DEF ForkWithoutWorkspace, Forkable, Idle, Born
  <2>2. /\ threads'[p].running = FALSE
        /\ \A t \in Threads : t # p => threads'[t].running = threads[t].running
    BY <1>0, <2>1, BornIdleFields
  <2>3. \A t \in Threads : threads'[t].running = threads[t].running
    BY <1>0, <2>1, <2>2 DEF Thread
  <2> QED BY <2>1, <2>3, BusyFrame DEF Drives
<1>8. ASSUME NEW p \in Threads, NEW c \in Threads, ForkWithWorkspace(p, c) PROVE Busy'
  <2>1. /\ copies[c] = NoCopy /\ ~threads[p].running
        /\ turns' = turns
        /\ \A t \in Threads : t # p => threads'[t].running = threads[t].running
    BY <1>8, ForkEffect DEF Idle
  <2>2. CASE copies' = copies /\ threads'[p].running = threads[p].running
    BY <2>1, <2>2, BusyFrame DEF Drives
  <2>3. CASE /\ copies' = [copies EXCEPT ![c] = [parent |-> p, source |-> threads[p].workspace]]
             /\ threads'[p].running = TRUE
    <3>1. /\ copies'[c].parent = p
          /\ \A d \in Threads : d # c => copies'[d] = copies[d]
          /\ \A t \in Threads : copies[c].parent # t
      BY <1>0, <2>1, <2>3 DEF NoCopy
    <3>2. \A r \in Turns, u \in Threads : Drives(r, u)' <=> Drives(r, u)
      BY <2>1 DEF Drives
    <3> QED BY <2>1, <2>3, <3>1, <3>2 DEF Busy, BusyWith
  <2> QED BY <1>8, <2>2, <2>3, ForkEffect
<1>9. ASSUME NEW c \in Threads, CopyEnds(c) \/ CopyFails(c) PROVE Busy'
  <2> DEFINE p == copies[c].parent
  <2>1. /\ p \in Threads /\ threads'[p].running = FALSE
        /\ \A t \in Threads : t # p => threads'[t].running = threads[t].running
        /\ copies' = [copies EXCEPT ![c] = NoCopy] /\ turns' = turns
    BY <1>9, CopyEndsEffect, CopyFailsEffect
  <2>2. /\ \A t \in Threads : copies'[c].parent # t
        /\ \A d \in Threads : d # c => copies'[d] = copies[d]
    BY <1>0, <2>1 DEF NoCopy
  <2>3. \A r \in Turns, u \in Threads : Drives(r, u)' <=> Drives(r, u)
    BY <2>1 DEF Drives
  <2>4. \A q \in Turns : ~Drives(q, p)
    BY <2>1 DEF Busy, BusyWith
  <2>5. \A d \in Threads, t \in Threads :
          copies'[d].parent = t <=> copies[d].parent = t /\ t # p
    BY <2>1, <2>2 DEF Busy, BusyWith
  <2> HIDE DEF p
  <2> QED BY <2>1, <2>3, <2>4, <2>5 DEF Busy, BusyWith
<1>10. ASSUME Restart PROVE Busy'
  <2>1. /\ \A t \in Threads : threads'[t].running = FALSE
        /\ \A q \in Turns : turns'[q].stream \in {"idle", "closed"}
        /\ copies' = [t \in Threads |-> NoCopy]
    BY <1>10, RestartEffect
  <2> QED BY <2>1 DEF Busy, BusyWith, Drives, NoCopy
<1>11. CASE UNCHANGED vars
  BY <1>11, BusyFrame DEF vars, Drives
<1> QED
  BY <1>1, <1>2, <1>3, <1>4, <1>5, <1>6, <1>7, <1>8, <1>9, <1>10, <1>11 DEF Next

-----------------------------------------------------------------------------
(* A name belongs to one thread (or to one column, without a thread): the    *)
(* name of a clone to the fork, every other name to whom it was minted for.  *)

Owners == Threads \cup {None}

Owns(t, n) ==
  \/ t \in Threads /\ threads[t].workspace = n
  \/ \E q \in Turns : turns[q].thread = t /\ n \in {turns[q].ws, turns[q].asked}
  \/ \E c \in Threads : copies[c].parent = t /\ copies[c].source = n

Owned ==
  \A n \in Names, t \in Owners : Owns(t, n) =>
    /\ n \in Threads => t = n
    /\ n \in Scratch => n \in used
    /\ \A u \in Owners : Owns(u, n) => u = t

\* Nobody owns a name at first.
LEMMA OwnedInit == ASSUME Init PROVE Owned
BY NamesAssumption DEF Init, Owned, Owns, NoCopy, Names, Owners

\* Most steps only pass names on between records of one owner.
LEMMA OwnedFrame ==
  ASSUME Owned, used \subseteq used',
         \A n \in Names, t \in Owners : Owns(t, n)' => Owns(t, n)
  PROVE  Owned'
BY DEF Owned

\* Names reach a record only from another of the same owner, or new.
LEMMA OwnedStep ==
  ASSUME Shape, Owned, [Next]_vars
  PROVE  Owned'
<1> USE NamesAssumption
<1>0. /\ threads \in [Threads -> Thread] /\ turns \in [Turns -> Turn]
      /\ copies \in [Threads -> Copy]
  BY DEF Shape
<1>n. None \notin Names /\ Names \cap Owners = Threads
  BY DEF Names, Owners
<1>1. ASSUME NEW t \in Threads, CreateThread(t) \/ DeleteThread(t) \/ GetDetail(t) PROVE Owned'
  <2>1. UNCHANGED <<turns, copies, used>>
    BY <1>1 DEF CreateThread, DeleteThread, GetDetail
  <2>2. \A u \in Threads : threads'[u].workspace = threads[u].workspace
    BY <1>0, <1>1 DEF CreateThread, DeleteThread, GetDetail, Thread
  <2> QED BY <2>1, <2>2, OwnedFrame DEF Owns
<1>2. ASSUME NEW n \in Names, ReadFiles(n) PROVE Owned'
  BY <1>2, OwnedFrame DEF ReadFiles, Owns
<1>3. ASSUME NEW q \in Turns, NEW t \in Threads, StartTurn(q, t) PROVE Owned'
  <2>1. /\ turns'[q].thread = t /\ turns'[q].asked = threads[t].workspace /\ turns'[q].ws = None
        /\ \A r \in Turns : r # q => turns'[r] = turns[r]
    <3>1. threads[t].workspace \in Names \cup {None}
      BY <1>0 DEF Thread
    <3> QED BY <1>3, <3>1, OpenEffect DEF StartTurn
  <2>2. \A u \in Threads : threads'[u].workspace = threads[u].workspace
    BY <1>0, <1>3 DEF StartTurn, Thread
  <2>3. UNCHANGED <<copies, used>>
    BY <1>3 DEF StartTurn
  <2> QED BY <1>n, <2>1, <2>2, <2>3, OwnedFrame DEF Owns
<1>4. ASSUME NEW q \in Turns, StartColumn(q) PROVE Owned'
  <2>1. /\ turns'[q].thread = None /\ turns'[q].asked = None /\ turns'[q].ws = None
        /\ \A r \in Turns : r # q => turns'[r] = turns[r]
    BY <1>4, OpenEffect DEF StartColumn
  <2> QED BY <1>4, <1>n, <2>1, OwnedFrame DEF StartColumn, Owns
<1>5. ASSUME NEW q \in Turns, ReuseWorkspace(q) PROVE Owned'
  <2>1. turns[q].asked \in Names
    BY <1>0, <1>5 DEF ReuseWorkspace, Reuses, Turn
  <2>2. /\ turns'[q].thread = turns[q].thread /\ turns'[q].asked = turns[q].asked
        /\ turns'[q].ws = turns[q].asked
        /\ \A r \in Turns : r # q => turns'[r] = turns[r]
    BY <1>0, <1>5, <2>1, WorkingFields DEF ReuseWorkspace
  <2>3. UNCHANGED <<threads, copies, used>>
    BY <1>5 DEF ReuseWorkspace
  <2>4. \A r \in Turns : /\ turns'[r].thread = turns[r].thread
                         /\ turns'[r].asked = turns[r].asked
                         /\ turns'[r].ws \in {turns[r].ws, turns[r].asked}
    BY <2>2
  <2>5. \A n \in Names, t \in Owners : Owns(t, n)' => Owns(t, n)
    BY <2>3, <2>4 DEF Owns
  <2> QED BY <2>3, <2>5, OwnedFrame
<1>6. ASSUME NEW q \in Turns, NewWorkspace(q) PROVE Owned'
  <2>0. PICK n \in Scratch \ used :
          /\ used' = used \cup {n}
          /\ \/ turns' = [turns EXCEPT ![q].worker = "working", ![q].ws = n]
             \/ turns' = [turns EXCEPT ![q].worker = "over", ![q].reply = "failure"]
    BY <1>6 DEF NewWorkspace
  <2>1. UNCHANGED <<threads, copies>>
    BY <1>6 DEF NewWorkspace
  <2>2. CASE turns' = [turns EXCEPT ![q].worker = "over", ![q].reply = "failure"]
    <3>1. \A r \in Turns : /\ turns'[r].thread = turns[r].thread
                           /\ turns'[r].ws = turns[r].ws /\ turns'[r].asked = turns[r].asked
      BY <1>0, <2>2 DEF Turn
    <3> QED BY <2>0, <2>1, <3>1, OwnedFrame DEF Owns
  <2>3. CASE turns' = [turns EXCEPT ![q].worker = "working", ![q].ws = n]
    <3>1. n \in Names /\ n \notin Threads /\ \A t \in Owners : ~Owns(t, n)
      BY DEF Owned, Names
    <3>2. /\ turns'[q].thread = turns[q].thread /\ turns'[q].asked = turns[q].asked
          /\ turns'[q].ws = n
          /\ \A r \in Turns : r # q => turns'[r] = turns[r]
      BY <1>0, <2>3, <3>1, WorkingFields
    <3>3. \A m \in Names, t \in Owners :
            Owns(t, m)' => Owns(t, m) \/ (m = n /\ t = turns[q].thread)
      BY <2>1, <3>2 DEF Owns
    <3> QED BY <2>0, <3>1, <3>3 DEF Owned
  <2> QED BY <2>0, <2>2, <2>3
<1>7. ASSUME NEW q \in Turns,
             Delegate(q) \/ DelegateReturns(q) \/ Answer(q) \/ ReleaseWorkspace(q)
      PROVE  Owned'
  <2>1. UNCHANGED <<threads, copies, used>>
    BY <1>7 DEF Delegate, DelegateReturns, Answer, ReleaseWorkspace
  <2>2. \A r \in Turns : /\ turns'[r].thread = turns[r].thread
                         /\ turns'[r].ws = turns[r].ws /\ turns'[r].asked = turns[r].asked
    BY <1>0, <1>7 DEF Delegate, DelegateReturns, Answer, ReleaseWorkspace, Turn
  <2> QED BY <2>1, <2>2, OwnedFrame DEF Owns
<1>8. ASSUME NEW q \in Turns, Commit(q) PROVE Owned'
  <2>1. UNCHANGED <<copies, used>>
    BY <1>8 DEF Commit
  <2>2. \A r \in Turns : /\ turns'[r].thread = turns[r].thread
                         /\ turns'[r].ws = turns[r].ws /\ turns'[r].asked = turns[r].asked
    BY <1>0, <1>8 DEF Commit, Turn
  <2>3. \A u \in Threads : \/ threads'[u].workspace = threads[u].workspace
                           \/ u = turns[q].thread /\ threads'[u].workspace = turns[q].ws
    <3>1. \/ threads' = threads
          \/ /\ turns[q].thread # None
             /\ threads' = [threads EXCEPT ![turns[q].thread].workspace = turns[q].ws]
      BY <1>8 DEF Commit
    <3>2. turns[q].thread \in Threads \cup {None}
      BY <1>0 DEF Turn
    <3> QED BY <1>0, <3>1, <3>2 DEF Thread
  <2>4. \A n \in Names, t \in Owners : Owns(t, n)' => Owns(t, n)
    BY <2>1, <2>2, <2>3 DEF Owns
  <2> QED BY <2>1, <2>4, OwnedFrame
<1>9. ASSUME NEW q \in Turns, EndStream(q) \/ LeaveStream(q) PROVE Owned'
  <2>1. \A r \in Turns : /\ turns'[r].thread = turns[r].thread
                         /\ turns'[r].ws = turns[r].ws /\ turns'[r].asked = turns[r].asked
    BY <1>9, StreamEndsEffect
  <2>2. /\ \A t \in Threads : threads'[t].workspace = threads[t].workspace
        /\ UNCHANGED <<copies, used>>
    BY <1>9, StreamEndsEffect
  <2> QED BY <2>1, <2>2, OwnedFrame DEF Owns
<1>10. ASSUME NEW p \in Threads, NEW c \in Threads, ForkWithoutWorkspace(p, c) PROVE Owned'
  <2>1. /\ threads' = [threads EXCEPT ![c].state = "live", ![p].running = FALSE]
        /\ UNCHANGED <<turns, copies, used>>
    BY <1>10 DEF ForkWithoutWorkspace, Born
  <2>2. \A t \in Threads : threads'[t].workspace = threads[t].workspace
    BY <1>0, <2>1, BornIdleFields
  <2> QED BY <2>1, <2>2, OwnedFrame DEF Owns
<1>11. ASSUME NEW p \in Threads, NEW c \in Threads, ForkWithWorkspace(p, c) PROVE Owned'
  <2>1. /\ \A t \in Threads : threads'[t].workspace = threads[t].workspace
        /\ UNCHANGED <<turns, used>>
        /\ \/ copies' = copies
           \/ copies' = [copies EXCEPT ![c] = [parent |-> p, source |-> threads[p].workspace]]
    BY <1>11, ForkEffect
  <2>2. \A d \in Threads : \/ copies'[d] = copies[d]
                           \/ copies'[d].parent = p /\ copies'[d].source = threads[p].workspace
    <3>1. CASE copies' = copies
      BY <3>1
    <3>2. CASE copies' = [copies EXCEPT ![c] = [parent |-> p, source |-> threads[p].workspace]]
      <4>1. copies'[c] = [parent |-> p, source |-> threads[p].workspace]
        BY <1>0, <3>2
      <4>2. \A d \in Threads : d # c => copies'[d] = copies[d]
        BY <1>0, <3>2
      <4> QED BY <4>1, <4>2
    <3> QED BY <2>1, <3>1, <3>2
  <2> QED BY <2>1, <2>2, OwnedFrame DEF Owns
<1>12. ASSUME NEW c \in Threads, CopyEnds(c) \/ CopyFails(c) PROVE Owned'
  <2>1. copies' = [copies EXCEPT ![c] = NoCopy] /\ UNCHANGED <<turns, used>>
    BY <1>12, CopyEndsEffect, CopyFailsEffect
  <2>2. \A t \in Threads : \/ threads'[t].workspace = threads[t].workspace
                           \/ t = c /\ threads'[t].workspace = c
    <3>1. CASE CopyEnds(c)
      <4>1. /\ threads'[c].workspace \in {c, threads[c].workspace}
            /\ \A t \in Threads : t # c => threads'[t].workspace = threads[t].workspace
        BY <3>1, CopyEndsEffect
      <4> QED BY <4>1
    <3>2. CASE CopyFails(c)
      BY <3>2, CopyFailsEffect
    <3> QED BY <1>12, <3>1, <3>2
  <2>3. \A d \in Threads : copies'[d] = copies[d] \/ copies'[d].source = None
    BY <1>0, <2>1 DEF NoCopy
  <2>4. \A n \in Names, t \in Owners : Owns(t, n)' => Owns(t, n) \/ (t = c /\ n = c)
    BY <1>n, <2>1, <2>2, <2>3 DEF Owns
  <2>5. \A t \in Owners : Owns(t, c) => t = c
    BY DEF Owned, Names
  <2>6. c \in Names /\ c \in Owners /\ c \notin Scratch
    BY DEF Names, Owners
  <2> QED BY <2>1, <2>4, <2>5, <2>6 DEF Owned
<1>13. ASSUME Restart PROVE Owned'
  <2>1. /\ \A t \in Threads : threads'[t].workspace = threads[t].workspace
        /\ \A r \in Turns : /\ turns'[r].thread = turns[r].thread
                            /\ turns'[r].ws = turns[r].ws /\ turns'[r].asked = turns[r].asked
        /\ \A c \in Threads : copies'[c] = NoCopy
        /\ used' = used
    BY <1>13, RestartEffect
  <2> QED BY <1>n, <2>1, OwnedFrame DEF Owns, NoCopy
<1>14. CASE UNCHANGED vars
  BY <1>14, OwnedFrame DEF vars, Owns
<1> QED
  BY <1>1, <1>2, <1>3, <1>4, <1>5, <1>6, <1>7, <1>8, <1>9, <1>10, <1>11, <1>12, <1>13, <1>14
  DEF Next

-----------------------------------------------------------------------------
(* Protection counts who is at work.                                         *)

\* The sets that are counted are finite.
LEMMA CountsAreNumbers ==
  ASSUME NEW n
  PROVE  /\ IsFiniteSet(Working(n)) /\ IsFiniteSet(Nested(n)) /\ IsFiniteSet(CopiesOf(n))
         /\ Cardinality(Working(n)) \in Nat /\ Cardinality(Nested(n)) \in Nat
         /\ Cardinality(CopiesOf(n)) \in Nat
<1>1. Working(n) \subseteq Turns /\ Nested(n) \subseteq Turns /\ CopiesOf(n) \subseteq Threads
  BY DEF Working, Nested, CopiesOf
<1>2. IsFiniteSet(Working(n)) /\ IsFiniteSet(Nested(n)) /\ IsFiniteSet(CopiesOf(n))
  BY <1>1, NamesAssumption, FS_Subset
<1> QED BY <1>2, FS_CardinalityType

\* A hold more for one name, and somebody more at work in it.
LEMMA OneMore ==
  ASSUME WellFormed(reg), HoldsMatchHolders, NEW n \in Names,
         reg'.holds = [reg.holds EXCEPT ![n] = @ + 1],
         \A m \in Names \ {n} : /\ Working(m)' = Working(m) /\ Nested(m)' = Nested(m)
                                /\ CopiesOf(m)' = CopiesOf(m),
         Cardinality(Working(n)') + Cardinality(Nested(n)') + Cardinality(CopiesOf(n)')
           = Cardinality(Working(n)) + Cardinality(Nested(n)) + Cardinality(CopiesOf(n)) + 1
  PROVE  HoldsMatchHolders'
<1>1. reg'.holds[n] = reg.holds[n] + 1 /\ \A m \in Names \ {n} : reg'.holds[m] = reg.holds[m]
  BY DEF WellFormed
<1> QED BY <1>1 DEF HoldsMatchHolders

\* A hold less for one name, and somebody less at work in it.
LEMMA OneLess ==
  ASSUME WellFormed(reg), HoldsMatchHolders, NEW n \in Names,
         reg.holds[n] # 0 => reg'.holds = [reg.holds EXCEPT ![n] = @ - 1],
         \A m \in Names \ {n} : /\ Working(m)' = Working(m) /\ Nested(m)' = Nested(m)
                                /\ CopiesOf(m)' = CopiesOf(m),
         Cardinality(Working(n)') \in Nat, Cardinality(Nested(n)') \in Nat,
         Cardinality(CopiesOf(n)') \in Nat,
         Cardinality(Working(n)) + Cardinality(Nested(n)) + Cardinality(CopiesOf(n))
           = Cardinality(Working(n)') + Cardinality(Nested(n)') + Cardinality(CopiesOf(n)') + 1
  PROVE  HoldsMatchHolders'
<1>1. reg.holds[n] \in Nat /\ reg.holds[n] # 0
  BY CountsAreNumbers DEF HoldsMatchHolders, WellFormed
<1>2. reg'.holds[n] = reg.holds[n] - 1 /\ \A m \in Names \ {n} : reg'.holds[m] = reg.holds[m]
  BY <1>1 DEF WellFormed
<1> QED BY <1>1, <1>2 DEF HoldsMatchHolders

\* Steps behind which the same agents are at work in the same places.
LEMMA WorkFrame ==
  ASSUME \A r \in Turns :
           /\ turns'[r].worker = "working" <=> turns[r].worker = "working"
           /\ turns[r].worker = "working" =>
                turns'[r].ws = turns[r].ws /\ turns'[r].nested = turns[r].nested
  PROVE  \A n : Working(n)' = Working(n) /\ Nested(n)' = Nested(n)
BY DEF Working, Nested

\* The counts still match behind such a step that moves no hold.
LEMMA CountFrame ==
  ASSUME HoldsMatchHolders, reg'.holds = reg.holds, copies' = copies,
         \A r \in Turns :
           /\ turns'[r].worker = "working" <=> turns[r].worker = "working"
           /\ turns[r].worker = "working" =>
                turns'[r].ws = turns[r].ws /\ turns'[r].nested = turns[r].nested
  PROVE  HoldsMatchHolders'
<1>1. \A n : Working(n)' = Working(n) /\ Nested(n)' = Nested(n)
  BY WorkFrame
<1>2. \A n : CopiesOf(n)' = CopiesOf(n)
  BY DEF CopiesOf
<1> QED BY <1>1, <1>2 DEF HoldsMatchHolders

\* Nobody is at work at first, and nothing is held.
LEMMA CountedInit == ASSUME Init PROVE HoldsMatchHolders
<1>1. \A n \in Names : Working(n) = {} /\ Nested(n) = {} /\ CopiesOf(n) = {}
  BY NamesAssumption DEF Init, Working, Nested, CopiesOf, NoCopy, Names
<1>2. \A n \in Names : reg.holds[n] = 0
  BY DEF Init, EmptyRegistry
<1> QED BY <1>1, <1>2, FS_EmptySet DEF HoldsMatchHolders

\* A turn goes to work.
LEMMA CountedWork ==
  ASSUME Shape, HoldsMatchHolders, NEW q \in Turns, NEW n \in Names,
         turns[q].worker = "queued",
         turns' = [turns EXCEPT ![q].worker = "working", ![q].ws = n],
         reg'.holds = [reg.holds EXCEPT ![n] = @ + 1], copies' = copies
  PROVE  HoldsMatchHolders'
<1>1. turns \in [Turns -> Turn] /\ WellFormed(reg) /\ turns[q].nested # 1
  BY DEF Shape, TurnInOrder
<1>2. /\ turns'[q].worker = "working" /\ turns'[q].ws = n /\ turns'[q].nested = turns[q].nested
      /\ \A r \in Turns : r # q => turns'[r] = turns[r]
  BY <1>1, WorkingFields
<1>3. \A m : Nested(m)' = Nested(m) /\ CopiesOf(m)' = CopiesOf(m)
  BY <1>1, <1>2 DEF Working, Nested, CopiesOf
<1>4. \A m \in Names \ {n} : Working(m)' = Working(m)
  BY <1>2 DEF Working
<1>5. Working(n)' = Working(n) \cup {q} /\ q \notin Working(n)
  BY <1>2 DEF Working
<1>6. Cardinality(Working(n) \cup {q}) = Cardinality(Working(n)) + 1
  BY <1>5, CountsAreNumbers, FS_AddElement
<1>7. Cardinality(Working(n)') + Cardinality(Nested(n)') + Cardinality(CopiesOf(n)')
        = Cardinality(Working(n)) + Cardinality(Nested(n)) + Cardinality(CopiesOf(n)) + 1
  BY <1>3, <1>5, <1>6, CountsAreNumbers
<1> QED BY <1>1, <1>3, <1>4, <1>7, OneMore

\* Every action moves the count of a name with who is at work in it.
LEMMA CountedStep ==
  ASSUME Shape, HoldsMatchHolders, [Next]_vars
  PROVE  HoldsMatchHolders'
<1> USE NamesAssumption
<1>0. /\ WellFormed(reg) /\ threads \in [Threads -> Thread] /\ turns \in [Turns -> Turn]
      /\ copies \in [Threads -> Copy] /\ \A r \in Turns : TurnInOrder(r)
  BY DEF Shape
<1>n. None \notin Names
  BY DEF Names
<1>1. ASSUME NEW t \in Threads, CreateThread(t) \/ DeleteThread(t) \/ GetDetail(t)
      PROVE  HoldsMatchHolders'
  <2>1. reg'.holds = reg.holds
    BY <1>0, <1>1, PinsKeepHolds DEF CreateThread, DeleteThread, GetDetail, SameHolds
  <2>2. turns' = turns /\ copies' = copies
    BY <1>1 DEF CreateThread, DeleteThread, GetDetail
  <2> QED BY <2>1, <2>2, CountFrame
<1>2. ASSUME NEW n \in Names, ReadFiles(n) PROVE HoldsMatchHolders'
  <2>1. reg'.holds = reg.holds
    BY <1>0, <1>2, SweptKeepsHolds, FetchKeepsHolds DEF ReadFiles, SameHolds
  <2> QED BY <1>2, <2>1, CountFrame DEF ReadFiles
<1>3. ASSUME NEW q \in Turns, StartColumn(q) \/ \E t \in Threads : StartTurn(q, t)
      PROVE  HoldsMatchHolders'
  <2>1. \A t \in Threads : threads[t].workspace \in Names \cup {None}
    BY <1>0 DEF Thread
  <2>2. /\ turns[q].worker = "idle" /\ turns'[q].worker = "queued"
        /\ \A r \in Turns : r # q => turns'[r] = turns[r]
    BY <1>3, <2>1, OpenEffect DEF StartColumn, StartTurn
  <2>3. reg' = reg /\ copies' = copies
    BY <1>3 DEF StartColumn, StartTurn
  <2> QED BY <2>2, <2>3, CountFrame
<1>4. ASSUME NEW q \in Turns, ReuseWorkspace(q) PROVE HoldsMatchHolders'
  <2>1. PICK swept \in Swept :
          /\ Reuses(q, swept)
          /\ reg' = Protect(Fetch(swept, turns[q].asked), turns[q].asked)
    BY <1>4 DEF ReuseWorkspace
  <2>2. PICK n \in Names :
          /\ n = turns[q].asked /\ turns[q].worker = "queued" /\ copies' = copies
          /\ turns' = [turns EXCEPT ![q].worker = "working", ![q].ws = n]
    BY <1>0, <1>4, <2>1 DEF Reuses, Turn, ReuseWorkspace
  <2>3. SameHolds(reg, Fetch(swept, n))
    BY <1>0, SweptKeepsHolds, FetchKeepsHolds DEF SameHolds
  <2>4. \A r : WellFormed(r) => Protect(r, n).holds = [r.holds EXCEPT ![n] = @ + 1]
    BY ProtectCounts
  <2>5. reg'.holds = [reg.holds EXCEPT ![n] = @ + 1]
    BY <2>1, <2>2, <2>3, <2>4 DEF SameHolds
  <2> QED BY <2>2, <2>5, CountedWork
<1>5. ASSUME NEW q \in Turns, NewWorkspace(q) PROVE HoldsMatchHolders'
  <2>1. PICK swept \in Swept, n \in Scratch \ used :
          LET held == Protect(swept, n) IN
          IF CanAdmit(held)
          THEN /\ reg' = Register(MakeRoom(held), n)
               /\ turns' = [turns EXCEPT ![q].worker = "working", ![q].ws = n]
          ELSE /\ reg' = Unprotect(held, n)
               /\ turns' = [turns EXCEPT ![q].worker = "over", ![q].reply = "failure"]
    BY <1>5 DEF NewWorkspace
  <2>2. turns[q].worker = "queued" /\ copies' = copies /\ n \in Names
    BY <1>5 DEF NewWorkspace, Names
  <2>3. SameHolds(reg, swept)
    BY <1>0, SweptKeepsHolds
  <2>4. /\ WellFormed(Protect(swept, n))
        /\ Protect(swept, n).holds = [reg.holds EXCEPT ![n] = @ + 1]
    <3>1. \A r : WellFormed(r) => /\ WellFormed(Protect(r, n))
                                 /\ Protect(r, n).holds = [r.holds EXCEPT ![n] = @ + 1]
      BY <2>2, ProtectCounts
    <3> QED BY <2>3, <3>1 DEF SameHolds
  <2>5. CASE /\ reg' = Register(MakeRoom(Protect(swept, n)), n)
             /\ turns' = [turns EXCEPT ![q].worker = "working", ![q].ws = n]
    <3>1. reg'.holds = [reg.holds EXCEPT ![n] = @ + 1]
      BY <2>4, <2>5, MakeRoomKeepsHolds, PinsKeepHolds DEF SameHolds
    <3> QED BY <2>2, <2>5, <3>1, CountedWork
  <2>6. CASE /\ reg' = Unprotect(Protect(swept, n), n)
             /\ turns' = [turns EXCEPT ![q].worker = "over", ![q].reply = "failure"]
    <3>1. Protect(swept, n).holds[n] = reg.holds[n] + 1 /\ reg.holds[n] \in Nat
      BY <1>0, <2>2, <2>4 DEF WellFormed
    <3>2. reg'.holds = [Protect(swept, n).holds EXCEPT ![n] = @ - 1]
      <4>1. \A r : WellFormed(r) /\ r.holds[n] # 0 =>
                     Unprotect(r, n).holds = [r.holds EXCEPT ![n] = @ - 1]
        BY <2>2, ProtectCounts
      <4> QED BY <2>4, <2>6, <3>1, <4>1
    <3>3. reg'.holds = reg.holds
      BY <1>0, <2>2, <2>4, <3>1, <3>2 DEF WellFormed
    <3>4. /\ turns'[q].worker = "over"
          /\ \A r \in Turns : r # q => turns'[r] = turns[r]
      BY <1>0, <2>6 DEF Turn
    <3> QED BY <2>2, <3>3, <3>4, CountFrame
  <2> QED BY <2>1, <2>5, <2>6
<1>6. ASSUME NEW q \in Turns, Delegate(q) PROVE HoldsMatchHolders'
  <2>1. PICK n \in Names :
          /\ n = turns[q].ws /\ turns[q].worker = "working" /\ turns[q].nested = 0
          /\ copies' = copies /\ turns' = [turns EXCEPT ![q].nested = 1]
    BY <1>0, <1>6 DEF Delegate, TurnInOrder
  <2>2. PICK swept \in Swept : reg' = Protect(Fetch(swept, n), n)
    BY <1>6, <2>1 DEF Delegate
  <2>3. SameHolds(reg, Fetch(swept, n))
    BY <1>0, SweptKeepsHolds, FetchKeepsHolds DEF SameHolds
  <2>4. reg'.holds = [reg.holds EXCEPT ![n] = @ + 1]
    <3>1. \A r : WellFormed(r) => Protect(r, n).holds = [r.holds EXCEPT ![n] = @ + 1]
      BY ProtectCounts
    <3> QED BY <2>2, <2>3, <3>1 DEF SameHolds
  <2>5. /\ turns'[q].nested = 1 /\ turns'[q].worker = "working" /\ turns'[q].ws = n
        /\ \A r \in Turns : r # q => turns'[r] = turns[r]
    BY <1>0, <2>1 DEF Turn
  <2>6. \A m : Working(m)' = Working(m) /\ CopiesOf(m)' = CopiesOf(m)
    BY <2>1, <2>5 DEF Working, CopiesOf
  <2>7. \A m \in Names \ {n} : Nested(m)' = Nested(m)
    BY <2>1, <2>5 DEF Working, Nested
  <2>8. Nested(n)' = Nested(n) \cup {q} /\ q \notin Nested(n)
    BY <2>1, <2>5 DEF Working, Nested
  <2>9. Cardinality(Nested(n) \cup {q}) = Cardinality(Nested(n)) + 1
    BY <2>8, CountsAreNumbers, FS_AddElement
  <2>10. Cardinality(Working(n)') + Cardinality(Nested(n)') + Cardinality(CopiesOf(n)')
           = Cardinality(Working(n)) + Cardinality(Nested(n)) + Cardinality(CopiesOf(n)) + 1
    BY <2>6, <2>8, <2>9, CountsAreNumbers
  <2> QED BY <1>0, <2>4, <2>6, <2>7, <2>10, OneMore
<1>7. ASSUME NEW q \in Turns, DelegateReturns(q) PROVE HoldsMatchHolders'
  <2>1. PICK n \in Names :
          /\ n = turns[q].ws /\ turns[q].worker = "working" /\ turns[q].nested = 1
          /\ copies' = copies /\ turns' = [turns EXCEPT ![q].nested = 0]
          /\ reg' = Unprotect(reg, n)
    BY <1>0, <1>7 DEF DelegateReturns, TurnInOrder
  <2>2. reg.holds[n] # 0 => reg'.holds = [reg.holds EXCEPT ![n] = @ - 1]
    BY <1>0, <2>1, ProtectCounts
  <2>3. /\ turns'[q].nested = 0 /\ turns'[q].worker = "working" /\ turns'[q].ws = n
        /\ \A r \in Turns : r # q => turns'[r] = turns[r]
    BY <1>0, <2>1 DEF Turn
  <2>4. \A m : Working(m)' = Working(m) /\ CopiesOf(m)' = CopiesOf(m)
    BY <2>1, <2>3 DEF Working, CopiesOf
  <2>5. \A m \in Names \ {n} : Nested(m)' = Nested(m)
    BY <2>1, <2>3 DEF Working, Nested
  <2>6. Nested(n)' = Nested(n) \ {q} /\ q \in Nested(n)
    BY <2>1, <2>3 DEF Working, Nested
  <2>7. /\ IsFiniteSet(Nested(n) \ {q})
        /\ Cardinality(Nested(n) \ {q}) = Cardinality(Nested(n)) - 1
    BY <2>6, CountsAreNumbers, FS_RemoveElement
  <2>8. Cardinality(Nested(n)') \in Nat
    BY <2>6, <2>7, FS_CardinalityType
  <2>9. Cardinality(Working(n)') \in Nat /\ Cardinality(CopiesOf(n)') \in Nat
    BY <2>4, CountsAreNumbers
  <2>10. Cardinality(Working(n)) + Cardinality(Nested(n)) + Cardinality(CopiesOf(n))
           = Cardinality(Working(n)') + Cardinality(Nested(n)') + Cardinality(CopiesOf(n)') + 1
    BY <2>4, <2>6, <2>7, CountsAreNumbers
  <2> QED BY <1>0, <2>2, <2>4, <2>5, <2>8, <2>9, <2>10, OneLess
<1>8. ASSUME NEW q \in Turns, ReleaseWorkspace(q) PROVE HoldsMatchHolders'
  <2>1. PICK n \in Names :
          /\ n = turns[q].ws /\ turns[q].worker = "working" /\ turns[q].nested = 0
          /\ copies' = copies /\ turns' = [turns EXCEPT ![q].worker = "over"]
          /\ reg' = Unprotect(reg, n)
    BY <1>0, <1>8 DEF ReleaseWorkspace, TurnInOrder
  <2>2. reg.holds[n] # 0 => reg'.holds = [reg.holds EXCEPT ![n] = @ - 1]
    <3>1. \A r : WellFormed(r) /\ r.holds[n] # 0 =>
                   Unprotect(r, n).holds = [r.holds EXCEPT ![n] = @ - 1]
      BY <2>1, ProtectCounts
    <3> QED BY <1>0, <2>1, <3>1
  <2>3. /\ turns'[q].nested = 0 /\ turns'[q].worker = "over"
        /\ \A r \in Turns : r # q => turns'[r] = turns[r]
    BY <1>0, <2>1 DEF Turn
  <2>4. \A m : Nested(m)' = Nested(m) /\ CopiesOf(m)' = CopiesOf(m)
    BY <2>1, <2>3 DEF Working, Nested, CopiesOf
  <2>5. \A m \in Names \ {n} : Working(m)' = Working(m)
    BY <2>1, <2>3 DEF Working
  <2>6. Working(n)' = Working(n) \ {q} /\ q \in Working(n)
    BY <2>1, <2>3 DEF Working
  <2>7. /\ IsFiniteSet(Working(n) \ {q})
        /\ Cardinality(Working(n) \ {q}) = Cardinality(Working(n)) - 1
    BY <2>6, CountsAreNumbers, FS_RemoveElement
  <2>8. Cardinality(Working(n)') \in Nat
    BY <2>6, <2>7, FS_CardinalityType
  <2>9. Cardinality(Nested(n)') \in Nat /\ Cardinality(CopiesOf(n)') \in Nat
    BY <2>4, CountsAreNumbers
  <2>10. Cardinality(Working(n)) + Cardinality(Nested(n)) + Cardinality(CopiesOf(n))
           = Cardinality(Working(n)') + Cardinality(Nested(n)') + Cardinality(CopiesOf(n)') + 1
    BY <2>4, <2>6, <2>7, CountsAreNumbers
  <2> QED BY <1>0, <2>2, <2>4, <2>5, <2>8, <2>9, <2>10, OneLess
<1>9. ASSUME NEW q \in Turns, Answer(q) PROVE HoldsMatchHolders'
  <2>1. \A r \in Turns :
          /\ turns'[r].worker = turns[r].worker /\ turns'[r].ws = turns[r].ws
          /\ turns'[r].nested = turns[r].nested
    BY <1>0, <1>9 DEF Answer, Turn
  <2>2. reg' = reg /\ copies' = copies
    BY <1>9 DEF Answer
  <2> QED BY <2>1, <2>2, CountFrame
<1>10. ASSUME NEW q \in Turns, Commit(q) PROVE HoldsMatchHolders'
  <2>1. \A r \in Turns :
          /\ turns'[r].worker = turns[r].worker /\ turns'[r].ws = turns[r].ws
          /\ turns'[r].nested = turns[r].nested
    BY <1>0, <1>10 DEF Commit, Turn
  <2>2. reg'.holds = reg.holds /\ copies' = copies
    BY <1>0, <1>10, PinsKeepHolds DEF Commit, SameHolds
  <2> QED BY <2>1, <2>2, CountFrame
<1>11. ASSUME NEW q \in Turns, EndStream(q) \/ LeaveStream(q) PROVE HoldsMatchHolders'
  <2>1. /\ turns'[q].ws = turns[q].ws /\ turns'[q].nested = turns[q].nested
        /\ turns'[q].worker = "working" <=> turns[q].worker = "working"
        /\ \A r \in Turns : r # q => turns'[r] = turns[r]
        /\ UNCHANGED <<reg, copies>>
    BY <1>11, StreamEndsEffect
  <2> QED BY <2>1, CountFrame
<1>12. ASSUME NEW p \in Threads, NEW c \in Threads, ForkWithoutWorkspace(p, c)
       PROVE  HoldsMatchHolders'
  BY <1>12, CountFrame DEF ForkWithoutWorkspace
<1>13. ASSUME NEW p \in Threads, NEW c \in Threads, ForkWithWorkspace(p, c)
       PROVE  HoldsMatchHolders'
  <2>1. PICK n \in Names :
          /\ n = threads[p].workspace /\ copies[c] = NoCopy /\ turns' = turns
          /\ \/ /\ copies' = [copies EXCEPT ![c] = [parent |-> p, source |-> n]]
                /\ reg'.holds = [reg.holds EXCEPT ![n] = @ + 1]
             \/ copies' = copies /\ reg'.holds = reg.holds
    BY <1>13, ForkEffect
  <2>2. CASE copies' = copies /\ reg'.holds = reg.holds
    BY <2>1, <2>2, CountFrame
  <2>3. CASE /\ copies' = [copies EXCEPT ![c] = [parent |-> p, source |-> n]]
             /\ reg'.holds = [reg.holds EXCEPT ![n] = @ + 1]
    <3>1. copies'[c].source = n /\ \A d \in Threads : d # c => copies'[d] = copies[d]
      BY <1>0, <2>3
    <3>2. \A m \in Names \ {n} : CopiesOf(m)' = CopiesOf(m)
      BY <1>n, <2>1, <3>1 DEF CopiesOf, NoCopy
    <3>3. CopiesOf(n)' = CopiesOf(n) \cup {c} /\ c \notin CopiesOf(n)
      BY <1>n, <2>1, <3>1 DEF CopiesOf, NoCopy
    <3>4. \A m : Working(m)' = Working(m) /\ Nested(m)' = Nested(m)
      BY <2>1, WorkFrame
    <3>5. Cardinality(CopiesOf(n) \cup {c}) = Cardinality(CopiesOf(n)) + 1
      BY <3>3, CountsAreNumbers, FS_AddElement
    <3>6. Cardinality(Working(n)') + Cardinality(Nested(n)') + Cardinality(CopiesOf(n)')
            = Cardinality(Working(n)) + Cardinality(Nested(n)) + Cardinality(CopiesOf(n)) + 1
      BY <3>3, <3>4, <3>5, CountsAreNumbers
    <3> QED BY <1>0, <2>3, <3>2, <3>4, <3>6, OneMore
  <2> QED BY <2>1, <2>2, <2>3
<1>14. ASSUME NEW c \in Threads, CopyEnds(c) \/ CopyFails(c) PROVE HoldsMatchHolders'
  <2>1. PICK n \in Names :
          /\ n = copies[c].source /\ turns' = turns
          /\ copies' = [copies EXCEPT ![c] = NoCopy]
    BY <1>14, CopyEndsEffect, CopyFailsEffect
  <2>2. WellFormed(Unprotect(reg, n))
    BY <1>0, ProtectCounts
  <2>3. reg'.holds = Unprotect(reg, n).holds
    <3>1. CASE CopyEnds(c)
      <4>1. PICK old \in 0..Len(reg.resident) :
              reg' = LET cloned == Register(MakeRoom(Sweep(Unprotect(reg, n), old)), c)
                     IN  IF Live(c) THEN Pin(cloned, c) ELSE cloned
        BY <2>1, <3>1 DEF CopyEnds
      <4>2. SameHolds(Unprotect(reg, n), Register(MakeRoom(Sweep(Unprotect(reg, n), old)), c))
        BY <2>2, SweepKeepsHolds, MakeRoomKeepsHolds, PinsKeepHolds DEF SameHolds
      <4> QED BY <4>1, <4>2, PinsKeepHolds DEF SameHolds
    <3>2. CASE CopyFails(c)
      BY <2>1, <2>2, <3>2, SweepKeepsHolds DEF CopyFails, SameHolds
    <3> QED BY <1>14, <3>1, <3>2
  <2>4. reg.holds[n] # 0 => reg'.holds = [reg.holds EXCEPT ![n] = @ - 1]
    BY <1>0, <2>3, ProtectCounts
  <2>5. copies'[c] = NoCopy /\ \A d \in Threads : d # c => copies'[d] = copies[d]
    BY <1>0, <2>1
  <2>6. \A m \in Names \ {n} : CopiesOf(m)' = CopiesOf(m)
    BY <1>n, <2>1, <2>5 DEF CopiesOf, NoCopy
  <2>7. CopiesOf(n)' = CopiesOf(n) \ {c} /\ c \in CopiesOf(n)
    BY <1>n, <2>1, <2>5 DEF CopiesOf, NoCopy
  <2>8. \A m : Working(m)' = Working(m) /\ Nested(m)' = Nested(m)
    BY <2>1, WorkFrame
  <2>9. /\ IsFiniteSet(CopiesOf(n) \ {c})
        /\ Cardinality(CopiesOf(n) \ {c}) = Cardinality(CopiesOf(n)) - 1
    BY <2>7, CountsAreNumbers, FS_RemoveElement
  <2>10. Cardinality(CopiesOf(n)') \in Nat
    BY <2>7, <2>9, FS_CardinalityType
  <2>11. Cardinality(Working(n)') \in Nat /\ Cardinality(Nested(n)') \in Nat
    BY <2>8, CountsAreNumbers
  <2>12. Cardinality(Working(n)) + Cardinality(Nested(n)) + Cardinality(CopiesOf(n))
           = Cardinality(Working(n)') + Cardinality(Nested(n)') + Cardinality(CopiesOf(n)') + 1
    BY <2>7, <2>8, <2>9, CountsAreNumbers
  <2> QED BY <1>0, <2>4, <2>6, <2>8, <2>10, <2>11, <2>12, OneLess
<1>15. ASSUME Restart PROVE HoldsMatchHolders'
  <2>1. \A n \in Names : Working(n)' = {} /\ Nested(n)' = {} /\ CopiesOf(n)' = {}
    BY <1>15, <1>n, RestartEffect DEF Working, Nested, CopiesOf, NoCopy
  <2>2. \A n \in Names : reg'.holds[n] = 0
    BY <1>15, RestartEffect
  <2>3. Cardinality({}) = 0
    BY FS_EmptySet
  <2> QED BY <2>1, <2>2, <2>3 DEF HoldsMatchHolders
<1>16. CASE UNCHANGED vars
  BY <1>16, CountFrame DEF vars
<1> QED
  BY <1>1, <1>2, <1>3, <1>4, <1>5, <1>6, <1>7, <1>8, <1>9, <1>10, <1>11, <1>12, <1>13,
     <1>14, <1>15, <1>16 DEF Next

-----------------------------------------------------------------------------
(* A copied tree is still: the fork found no hold on it, and whoever could   *)
(* begin to work in it is the thread the fork keeps busy.                    *)

\* Nothing is copied at first.
LEMMA StillInit == ASSUME Init PROVE CopiedTreeIsStill
BY NamesAssumption DEF Init, CopiedTreeIsStill, CopiesOf, NoCopy, Names

\* Nobody begins to work and nobody begins to copy.
LEMMA StillFrame ==
  ASSUME CopiedTreeIsStill,
         \A n \in Names : Working(n)' \subseteq Working(n) /\ CopiesOf(n)' \subseteq CopiesOf(n)
  PROVE  CopiedTreeIsStill'
BY DEF CopiedTreeIsStill

\* A turn that goes to work in a workspace nobody copies disturbs nothing.
LEMMA StillWork ==
  ASSUME Shape, CopiedTreeIsStill, NEW q \in Turns, NEW n \in Names,
         turns' = [turns EXCEPT ![q].worker = "working", ![q].ws = n],
         copies' = copies, CopiesOf(n) = {}
  PROVE  CopiedTreeIsStill'
<1>0. turns \in [Turns -> Turn]
  BY DEF Shape
<1>1. turns'[q].ws = n /\ \A r \in Turns : r # q => turns'[r] = turns[r]
  BY <1>0 DEF Turn
<1>2. \A m \in Names : m # n => Working(m)' \subseteq Working(m)
  BY <1>1 DEF Working
<1>3. \A m \in Names : CopiesOf(m)' = CopiesOf(m)
  BY DEF CopiesOf
<1> QED BY <1>2, <1>3 DEF CopiedTreeIsStill

\* Nobody goes to work in a copied tree, no worked-in tree is copied.
LEMMA StillStep ==
  ASSUME Shape, Busy, Owned, HoldsMatchHolders, CopiedTreeIsStill, [Next]_vars
  PROVE  CopiedTreeIsStill'
<1> USE NamesAssumption
<1>0. /\ turns \in [Turns -> Turn] /\ copies \in [Threads -> Copy]
      /\ \A r \in Turns : TurnInOrder(r)
  BY DEF Shape
<1>n. None \notin Names
  BY DEF Names
<1>p. \A n \in Names : \A c \in CopiesOf(n) : copies[c].parent \in Threads
  BY <1>n DEF Shape, CopiesOf, CopyInOrder, NoCopy
<1>1. ASSUME NEW q \in Turns, ReuseWorkspace(q) PROVE CopiedTreeIsStill'
  <2>1. PICK n \in Names :
          /\ n = turns[q].asked /\ turns[q].worker = "queued" /\ copies' = copies
          /\ turns' = [turns EXCEPT ![q].worker = "working", ![q].ws = n]
    <3>1. turns[q].asked \in Names
      BY <1>0, <1>1 DEF ReuseWorkspace, Reuses, Turn
    <3> QED BY <1>1, <3>1 DEF ReuseWorkspace
  <2>2. ASSUME NEW c \in CopiesOf(n) PROVE FALSE
    <3>1. /\ c \in Threads /\ copies[c].source = n /\ copies[c].parent \in Threads
          /\ turns[q].thread \in Owners
      BY <1>0, <1>p DEF CopiesOf, Turn, Owners
    <3>2. Owns(copies[c].parent, n) /\ Owns(turns[q].thread, n)
      BY <2>1, <3>1 DEF Owns
    <3>3. turns[q].thread = copies[c].parent
      BY <3>1, <3>2 DEF Owned, Owners
    <3>4. Drives(q, copies[c].parent)
      BY <1>0, <2>1, <3>3 DEF TurnInOrder, Drives
    <3> QED BY <3>1, <3>4 DEF Busy, BusyWith
  <2> QED BY <2>1, <2>2, StillWork
<1>2. ASSUME NEW q \in Turns, NewWorkspace(q) PROVE CopiedTreeIsStill'
  <2>1. PICK n \in Scratch \ used :
          \/ turns' = [turns EXCEPT ![q].worker = "working", ![q].ws = n]
          \/ turns' = [turns EXCEPT ![q].worker = "over", ![q].reply = "failure"]
    BY <1>2 DEF NewWorkspace
  <2>2. copies' = copies /\ n \in Names
    BY <1>2 DEF NewWorkspace, Names
  <2>3. CASE turns' = [turns EXCEPT ![q].worker = "over", ![q].reply = "failure"]
    <3>1. turns'[q].worker = "over" /\ \A r \in Turns : r # q => turns'[r] = turns[r]
      BY <1>0, <2>3 DEF Turn
    <3> QED BY <2>2, <3>1, StillFrame DEF Working, CopiesOf
  <2>4. CASE turns' = [turns EXCEPT ![q].worker = "working", ![q].ws = n]
    <3>1. ASSUME NEW c \in CopiesOf(n) PROVE FALSE
      <4>1. copies[c].parent \in Owners /\ Owns(copies[c].parent, n)
        BY <1>p, <2>2 DEF CopiesOf, Owns, Owners
      <4> QED BY <2>2, <4>1 DEF Owned
    <3> QED BY <2>2, <2>4, <3>1, StillWork
  <2> QED BY <2>1, <2>3, <2>4
<1>3. ASSUME NEW p \in Threads, NEW c \in Threads, ForkWithWorkspace(p, c)
      PROVE  CopiedTreeIsStill'
  <2>1. PICK n \in Names :
          /\ n = threads[p].workspace /\ reg.holds[n] = 0 /\ turns' = turns
          /\ \/ copies' = [copies EXCEPT ![c] = [parent |-> p, source |-> n]]
             \/ copies' = copies
    BY <1>3, ForkEffect
  <2>2. Working(n) = {}
    <3>1. Cardinality(Working(n)) = 0
      BY <2>1, CountsAreNumbers DEF HoldsMatchHolders
    <3> QED BY <3>1, CountsAreNumbers, FS_EmptySet
  <2>3. \A m : Working(m)' = Working(m)
    BY <2>1, WorkFrame
  <2>4. \A m \in Names : m # n => CopiesOf(m)' \subseteq CopiesOf(m)
    <3>1. CASE copies' = copies
      BY <3>1 DEF CopiesOf
    <3>2. CASE copies' = [copies EXCEPT ![c] = [parent |-> p, source |-> n]]
      <4>1. copies'[c].source = n /\ \A d \in Threads : d # c => copies'[d] = copies[d]
        BY <1>0, <3>2
      <4> QED BY <4>1 DEF CopiesOf
    <3> QED BY <2>1, <3>1, <3>2
  <2> QED BY <2>2, <2>3, <2>4 DEF CopiedTreeIsStill
<1>4. ASSUME NEW c \in Threads, CopyEnds(c) \/ CopyFails(c) PROVE CopiedTreeIsStill'
  <2>1. turns' = turns /\ copies' = [copies EXCEPT ![c] = NoCopy]
    BY <1>4, CopyEndsEffect, CopyFailsEffect
  <2>2. copies'[c].source = None /\ \A d \in Threads : d # c => copies'[d] = copies[d]
    BY <1>0, <2>1 DEF NoCopy
  <2> QED BY <1>n, <2>1, <2>2, StillFrame DEF Working, CopiesOf
<1>5. ASSUME NEW q \in Turns, EndStream(q) \/ LeaveStream(q) PROVE CopiedTreeIsStill'
  <2>1. /\ turns'[q].ws = turns[q].ws
        /\ turns'[q].worker = "working" <=> turns[q].worker = "working"
        /\ \A r \in Turns : r # q => turns'[r] = turns[r]
        /\ copies' = copies
    BY <1>5, StreamEndsEffect
  <2> QED BY <2>1, StillFrame DEF Working, CopiesOf
<1>6. ASSUME NEW q \in Turns, StartColumn(q) \/ \E t \in Threads : StartTurn(q, t)
      PROVE  CopiedTreeIsStill'
  <2>1. \A t \in Threads : threads[t].workspace \in Names \cup {None}
    BY DEF Shape, Thread
  <2>2. turns'[q].worker = "queued" /\ \A r \in Turns : r # q => turns'[r] = turns[r]
    BY <1>6, <2>1, OpenEffect DEF StartColumn, StartTurn
  <2>3. copies' = copies
    BY <1>6 DEF StartColumn, StartTurn
  <2> QED BY <2>2, <2>3, StillFrame DEF Working, CopiesOf
<1>7. ASSUME NEW q \in Turns,
             \/ Delegate(q) \/ DelegateReturns(q) \/ Answer(q)
             \/ ReleaseWorkspace(q) \/ Commit(q)
      PROVE  CopiedTreeIsStill'
  <2>1. \A r \in Turns :
          /\ turns'[r].ws = turns[r].ws
          /\ turns'[r].worker = "working" => turns[r].worker = "working"
    <3>1. CASE Delegate(q) \/ DelegateReturns(q)
      BY <1>0, <3>1 DEF Delegate, DelegateReturns, Turn
    <3>2. CASE Answer(q) \/ ReleaseWorkspace(q)
      BY <1>0, <3>2 DEF Answer, ReleaseWorkspace, Turn
    <3>3. CASE Commit(q)
      BY <1>0, <3>3 DEF Commit, Turn
    <3> QED BY <1>7, <3>1, <3>2, <3>3
  <2>2. copies' = copies
    BY <1>7 DEF Delegate, DelegateReturns, Answer, ReleaseWorkspace, Commit
  <2> QED BY <2>1, <2>2, StillFrame DEF Working, CopiesOf
<1>8. CASE UNCHANGED <<turns, copies>>
  BY <1>8, StillFrame DEF Working, CopiesOf
<1>9. ASSUME Restart PROVE CopiedTreeIsStill'
  <2>1. \A n \in Names : CopiesOf(n)' = {}
    BY <1>9, <1>n, RestartEffect DEF CopiesOf, NoCopy
  <2> QED BY <2>1 DEF CopiedTreeIsStill
<1>10. ASSUME \/ \E t \in Threads : CreateThread(t) \/ DeleteThread(t) \/ GetDetail(t)
              \/ \E n \in Names : ReadFiles(n)
              \/ \E p, c \in Threads : ForkWithoutWorkspace(p, c)
              \/ UNCHANGED vars
       PROVE  UNCHANGED <<turns, copies>>
  BY <1>10 DEF CreateThread, DeleteThread, GetDetail, ReadFiles, ForkWithoutWorkspace, vars
<1> QED
  BY <1>1, <1>2, <1>3, <1>4, <1>5, <1>6, <1>7, <1>8, <1>9, <1>10 DEF Next

-----------------------------------------------------------------------------
(* Room is made fairly.  A registry covers the workers if each has its tree  *)
(* and a hold on it, and it covers what is pinned; every stage of a step     *)
(* does, up to the last release of a hold or a pin.                          *)

Covers(r) ==
  /\ Fits(r) /\ Len(r.resident) <= MaxWorkspaces /\ r.pins = reg.pins
  /\ \A q \in Turns : turns[q].worker = "working" =>
       Kept(r, turns[q].ws) /\ r.holds[turns[q].ws] # 0
  /\ \A n \in reg.pins : n \in reg.dirs => n \in r.dirs

\* The registry is of its type and within its quota, every worker has its tree.
Room == Fits(reg) /\ QuotaKept /\ WorkersKeepTheirTree

\* A directory pinned on both sides of a step is there behind it.
PinsHold == \A n \in reg.pins \cap reg'.pins : n \in reg.dirs => n \in reg'.dirs

\* What a step leaves to those who were at work before it.
Tended ==
  /\ PinsHold /\ Fits(reg') /\ QuotaKept'
  /\ \A q \in Turns : turns[q].worker = "working" => Kept(reg', turns[q].ws)

\* The registry counts a worker.
LEMMA WorkIsHeld ==
  ASSUME Shape, HoldsMatchHolders, NEW q \in Turns, turns[q].worker = "working"
  PROVE  turns[q].ws \in Names /\ reg.holds[turns[q].ws] # 0
<1> DEFINE n == turns[q].ws
<1>1. n \in Names /\ q \in Working(n)
  BY DEF Shape, TurnInOrder, Working
<1>2. IsFiniteSet(Working(n)) /\ Cardinality(Working(n)) # 0
  BY <1>1, CountsAreNumbers, FS_EmptySet
<1>3. reg.holds[n] = Cardinality(Working(n)) + Cardinality(Nested(n)) + Cardinality(CopiesOf(n))
  BY <1>1 DEF HoldsMatchHolders
<1> HIDE DEF n
<1>4. reg.holds[n] # 0
  BY <1>2, <1>3, CountsAreNumbers
<1> QED
  BY <1>1, <1>4 DEF n

\* Between steps the registry covers everybody.
LEMMA RoomCovers ==
  ASSUME Shape, HoldsMatchHolders, Room
  PROVE  Covers(reg)
BY WorkIsHeld DEF Room, Covers, QuotaKept, WorkersKeepTheirTree, Kept

\* What spares a registry that covers them covers them.
LEMMA CoversSpared ==
  ASSUME Shape, NEW r, Covers(r), NEW s, Spares(r, s)
  PROVE  Covers(s)
<1>1. \A q \in Turns : turns[q].worker = "working" => turns[q].ws \in Names
  BY DEF Shape, TurnInOrder
<1>2. r.pins \subseteq Names
  BY DEF Covers, Fits, Registries
<1>3. /\ \A n \in Names : r.holds[n] # 0 => ~Evictable(r, n)
      /\ \A n \in r.pins : ~Evictable(r, n)
  BY DEF Evictable
<1> QED
  BY <1>1, <1>2, <1>3 DEF Covers, Spares, Kept

\* So does one more hold, and one hold less on what nobody works in.
LEMMA CoversProtected ==
  ASSUME Shape, NEW r, Covers(r), NEW n \in Names
  PROVE  Covers(Protect(r, n))
<1>1. SameTrees(r, Protect(r, n)) /\ Protect(r, n).pins = r.pins
  BY CountingKeepsTrees DEF Covers
<1>2. r.holds \in [Names -> Nat] /\ Protect(r, n).holds = [r.holds EXCEPT ![n] = @ + 1]
  <2>1. WellFormed(r)
    BY FitsFacts DEF Covers
  <2> QED
    BY <2>1, ProtectCounts DEF WellFormed
<1>3. \A m \in Names : r.holds[m] # 0 => Protect(r, n).holds[m] # 0
  BY <1>2
<1>4. \A q \in Turns : turns[q].worker = "working" => turns[q].ws \in Names
  BY DEF Shape, TurnInOrder
<1> QED
  BY <1>1, <1>3, <1>4 DEF Covers, SameTrees, Kept, Resident

LEMMA CoversFreed ==
  ASSUME Shape, NEW r, Covers(r), NEW n \in Names, Working(n) = {}
  PROVE  Covers(Unprotect(r, n))
<1>1. SameTrees(r, Unprotect(r, n)) /\ Unprotect(r, n).pins = r.pins
  BY CountingKeepsTrees DEF Covers
<1>2. \A m \in Names : m # n => Unprotect(r, n).holds[m] = r.holds[m]
  BY FitsFacts DEF Covers, WellFormed, Unprotect
<1>3. \A q \in Turns : turns[q].worker = "working" => turns[q].ws \in Names /\ turns[q].ws # n
  BY DEF Shape, TurnInOrder, Working
<1> QED
  BY <1>1, <1>2, <1>3 DEF Covers, SameTrees, Kept, Resident

\* The last stage may move holds and pins.
LEMMA TreesTended ==
  ASSUME NEW r, Covers(r), SameTrees(r, reg')
  PROVE  Tended
BY DEF Covers, SameTrees, Kept, Resident, Tended, PinsHold, QuotaKept

\* Nobody begins to work: what is tended has room.
LEMMA RoomFrame ==
  ASSUME Tended,
         \A q \in Turns : turns'[q].worker = "working" =>
                            turns[q].worker = "working" /\ turns'[q].ws = turns[q].ws
  PROVE  Room' /\ PinsHold
BY DEF Tended, Room, WorkersKeepTheirTree, Kept, Resident

\* Somebody does, in a workspace that is there.
LEMMA RoomWork ==
  ASSUME Shape, Tended, NEW q \in Turns, NEW n \in Names, Kept(reg', n),
         turns' = [turns EXCEPT ![q].worker = "working", ![q].ws = n]
  PROVE  Room' /\ PinsHold
<1>1. turns'[q].ws = n /\ \A r \in Turns : r # q => turns'[r] = turns[r]
  BY DEF Shape, Turn
<1> QED
  BY <1>1 DEF Tended, Room, WorkersKeepTheirTree, Kept, Resident

\* A lookup in a swept registry covers everybody.
LEMMA FetchCovers ==
  ASSUME Shape, Covers(reg), NEW swept \in Swept, NEW n \in Names
  PROVE  /\ Covers(swept) /\ Fits(swept)
         /\ Covers(Fetch(swept, n)) /\ Fits(Fetch(swept, n))
         /\ Found(swept, n) => Kept(Fetch(swept, n), n)
<1>1. Spares(reg, swept) /\ Fits(reg)
  BY SweptSpares DEF Covers
<1>2. Covers(swept) /\ Fits(swept)
  BY <1>1, CoversSpared DEF Spares
<1>3. Spares(swept, Fetch(swept, n)) /\ (Found(swept, n) => Kept(Fetch(swept, n), n))
  BY <1>2, FetchSpares
<1>4. Covers(Fetch(swept, n))
  BY <1>2, <1>3, CoversSpared
<1> QED
  BY <1>2, <1>3, <1>4 DEF Covers

\* Room is kept by every action, and the pinned directories stay.
LEMMA RoomStep ==
  ASSUME Shape, HoldsMatchHolders, CopiedTreeIsStill, Room, [Next]_vars
  PROVE  Room' /\ PinsHold
<1> USE NamesAssumption
<1>0. /\ turns \in [Turns -> Turn] /\ threads \in [Threads -> Thread]
      /\ copies \in [Threads -> Copy] /\ Covers(reg) /\ Fits(reg)
      /\ \A q \in Turns : TurnInOrder(q)
  BY RoomCovers DEF Shape, Room
<1>s. \A r : Fits(r) => SameTrees(r, r)
  BY DEF SameTrees
<1>t. \A t \in Threads : threads[t].workspace \in Names \cup {None}
  BY <1>0 DEF Thread
<1>n. None \notin Names
  BY DEF Names
<1>1. ASSUME SameTrees(reg, reg'),
             \A q \in Turns : turns'[q].worker = "working" =>
                                turns[q].worker = "working" /\ turns'[q].ws = turns[q].ws
      PROVE  Room' /\ PinsHold
  BY <1>0, <1>1, TreesTended, RoomFrame
<1>2. ASSUME NEW t \in Threads, CreateThread(t) \/ DeleteThread(t) \/ GetDetail(t)
      PROVE  Room' /\ PinsHold
  <2>1. turns' = turns
    BY <1>2 DEF CreateThread, DeleteThread, GetDetail
  <2>2. SameTrees(reg, reg')
    <3>1. CASE CreateThread(t)
      BY <1>0, <1>s, <3>1 DEF CreateThread
    <3>2. CASE DeleteThread(t)
      BY <1>0, <1>s, <1>t, <3>2, CountingKeepsTrees DEF DeleteThread
    <3>3. CASE GetDetail(t)
      BY <1>0, <1>t, <3>3, CountingKeepsTrees DEF GetDetail
    <3> QED BY <1>2, <3>1, <3>2, <3>3
  <2> QED BY <1>1, <2>1, <2>2
<1>3. ASSUME NEW n \in Names, ReadFiles(n) PROVE Room' /\ PinsHold
  <2>1. PICK swept \in Swept : reg' = Fetch(swept, n)
    BY <1>3 DEF ReadFiles
  <2>2. Covers(Fetch(swept, n)) /\ SameTrees(Fetch(swept, n), reg')
    BY <1>0, <1>s, <2>1, FetchCovers
  <2>3. Tended
    BY <2>2, TreesTended
  <2> QED BY <1>3, <2>3, RoomFrame DEF ReadFiles
<1>4. ASSUME NEW q \in Turns, StartColumn(q) \/ \E t \in Threads : StartTurn(q, t)
      PROVE  Room' /\ PinsHold
  <2>1. turns'[q].worker = "queued" /\ \A r \in Turns : r # q => turns'[r] = turns[r]
    BY <1>4, <1>t, OpenEffect DEF StartColumn, StartTurn
  <2>2. reg' = reg
    BY <1>4 DEF StartColumn, StartTurn
  <2> QED BY <1>0, <1>1, <1>s, <2>1, <2>2
<1>5. ASSUME NEW q \in Turns, ReuseWorkspace(q) PROVE Room' /\ PinsHold
  <2> DEFINE n == turns[q].asked
  <2>1. /\ turns' = [turns EXCEPT ![q].worker = "working", ![q].ws = n]
        /\ \E swept \in Swept : Reuses(q, swept) /\ reg' = Protect(Fetch(swept, n), n)
    BY <1>5 DEF ReuseWorkspace
  <2>2. PICK swept \in Swept : Reuses(q, swept) /\ reg' = Protect(Fetch(swept, n), n)
    BY <2>1
  <2>3. n \in Names /\ Found(swept, n)
    BY <1>0, <2>2 DEF Reuses, Turn
  <2> HIDE DEF n
  <2>4. /\ Covers(Fetch(swept, n)) /\ Fits(Fetch(swept, n))
        /\ Kept(Fetch(swept, n), n)
    BY <1>0, <2>3, FetchCovers
  <2>5. SameTrees(Fetch(swept, n), reg')
    BY <2>2, <2>3, <2>4, CountingKeepsTrees
  <2>6. Tended
    BY <2>4, <2>5, TreesTended
  <2>7. Kept(reg', n)
    BY <2>4, <2>5 DEF Kept, SameTrees, Resident
  <2> QED BY <2>1, <2>3, <2>6, <2>7, RoomWork
<1>6. ASSUME NEW q \in Turns, NewWorkspace(q) PROVE Room' /\ PinsHold
  <2> PICK swept \in Swept, n \in Scratch \ used :
        LET held == Protect(swept, n) IN
        IF CanAdmit(held)
        THEN /\ reg' = Register(MakeRoom(held), n)
             /\ turns' = [turns EXCEPT ![q].worker = "working", ![q].ws = n]
        ELSE /\ reg' = Unprotect(held, n)
             /\ turns' = [turns EXCEPT ![q].worker = "over", ![q].reply = "failure"]
    BY <1>6 DEF NewWorkspace
  <2> DEFINE held == Protect(swept, n)
  <2>1. n \in Names
    BY DEF Names
  <2>2. Covers(held) /\ Fits(held)
    BY <1>0, <2>1, FetchCovers, CoversProtected DEF Covers
  <2>3. CASE CanAdmit(held)
    <3>1. /\ reg' = Register(MakeRoom(held), n)
          /\ turns' = [turns EXCEPT ![q].worker = "working", ![q].ws = n]
      BY <2>3
    <3> HIDE DEF held
    <3>2. Spares(held, reg') /\ Kept(reg', n)
      BY <2>1, <2>2, <2>3, <3>1, AdmitSpares
    <3>3. Covers(reg') /\ SameTrees(reg', reg')
      BY <1>s, <2>2, <3>2, CoversSpared DEF Covers
    <3>4. Tended
      BY <3>3, TreesTended
    <3> QED BY <2>1, <3>1, <3>2, <3>4, RoomWork
  <2>4. CASE ~CanAdmit(held)
    <3>1. /\ reg' = Unprotect(held, n)
          /\ turns' = [turns EXCEPT ![q].worker = "over", ![q].reply = "failure"]
      BY <2>4
    <3>2. turns'[q].worker = "over" /\ \A r \in Turns : r # q => turns'[r] = turns[r]
      BY <1>0, <3>1 DEF Turn
    <3> HIDE DEF held
    <3>3. SameTrees(held, reg')
      BY <2>1, <2>2, <3>1, CountingKeepsTrees
    <3>4. Tended
      BY <2>2, <3>3, TreesTended
    <3> QED BY <3>2, <3>4, RoomFrame
  <2> QED BY <2>3, <2>4
<1>7. ASSUME NEW q \in Turns, Delegate(q) PROVE Room' /\ PinsHold
  <2> DEFINE n == turns[q].ws
  <2>1. /\ turns[q].worker = "working" /\ turns' = [turns EXCEPT ![q].nested = 1]
        /\ \E swept \in Swept : reg' = Protect(Fetch(swept, n), n)
    BY <1>7 DEF Delegate
  <2>2. PICK swept \in Swept : reg' = Protect(Fetch(swept, n), n)
    BY <2>1
  <2>3. n \in Names
    BY <1>0, <2>1 DEF TurnInOrder
  <2>4. \A r \in Turns : turns'[r].worker = turns[r].worker /\ turns'[r].ws = turns[r].ws
    BY <1>0, <2>1 DEF Turn
  <2> HIDE DEF n
  <2>5. Covers(Fetch(swept, n)) /\ Fits(Fetch(swept, n))
    BY <1>0, <2>3, FetchCovers
  <2>6. SameTrees(Fetch(swept, n), reg')
    BY <2>2, <2>3, <2>5, CountingKeepsTrees
  <2>7. Tended
    BY <2>5, <2>6, TreesTended
  <2> QED BY <2>4, <2>7, RoomFrame
<1>8. ASSUME NEW q \in Turns, DelegateReturns(q) \/ ReleaseWorkspace(q)
      PROVE  Room' /\ PinsHold
  <2>1. turns[q].ws \in Names /\ reg' = Unprotect(reg, turns[q].ws)
    BY <1>0, <1>8 DEF DelegateReturns, ReleaseWorkspace, TurnInOrder
  <2>2. SameTrees(reg, reg')
    BY <1>0, <2>1, CountingKeepsTrees
  <2>3. \A r \in Turns :
          /\ turns'[r].ws = turns[r].ws
          /\ turns'[r].worker = "working" => turns[r].worker = "working"
    BY <1>0, <1>8 DEF DelegateReturns, ReleaseWorkspace, Turn
  <2> QED BY <1>1, <2>2, <2>3
<1>9. ASSUME NEW q \in Turns, Answer(q) \/ Commit(q) PROVE Room' /\ PinsHold
  <2>1. \A r \in Turns : turns'[r].worker = turns[r].worker /\ turns'[r].ws = turns[r].ws
    BY <1>0, <1>9 DEF Answer, Commit, Turn
  <2>2. SameTrees(reg, reg')
    <3>1. CASE Answer(q)
      BY <1>0, <1>s, <3>1 DEF Answer
    <3>2. CASE Commit(q)
      <4>1. reg' = reg \/ (turns[q].reply = "success" /\ reg' = Pin(reg, turns[q].ws))
        BY <3>2 DEF Commit
      <4>2. turns[q].reply = "success" => turns[q].ws \in Names
        BY <1>0 DEF TurnInOrder
      <4> QED BY <1>0, <1>s, <4>1, <4>2, CountingKeepsTrees
    <3> QED BY <1>9, <3>1, <3>2
  <2> QED BY <1>1, <2>1, <2>2
<1>10. ASSUME NEW q \in Turns, EndStream(q) \/ LeaveStream(q) PROVE Room' /\ PinsHold
  <2>1. /\ turns'[q].ws = turns[q].ws
        /\ turns'[q].worker = "working" <=> turns[q].worker = "working"
        /\ \A r \in Turns : r # q => turns'[r] = turns[r]
        /\ reg' = reg
    BY <1>10, StreamEndsEffect
  <2> QED BY <1>0, <1>1, <1>s, <2>1
<1>11. ASSUME NEW p \in Threads, NEW c \in Threads, ForkWithoutWorkspace(p, c)
       PROVE  Room' /\ PinsHold
  BY <1>0, <1>1, <1>s, <1>11 DEF ForkWithoutWorkspace
<1>12. ASSUME NEW p \in Threads, NEW c \in Threads, ForkWithWorkspace(p, c)
       PROVE  Room' /\ PinsHold
  <2> DEFINE n == threads[p].workspace
  <2>1. PICK swept \in Swept :
          \/ reg' = Protect(MakeRoom(Fetch(swept, n)), n)
          \/ reg' = Fetch(swept, n)
    BY <1>12 DEF ForkWithWorkspace
  <2>2. n \in Names /\ turns' = turns
    BY <1>12, <1>t DEF ForkWithWorkspace
  <2> DEFINE fetched == Fetch(swept, n)
  <2> HIDE DEF n
  <2>3. Covers(fetched) /\ Fits(fetched)
    BY <1>0, <2>2, FetchCovers
  <2> HIDE DEF fetched
  <2>4. Covers(MakeRoom(fetched)) /\ Fits(MakeRoom(fetched))
    BY <2>3, MakeRoomSpares, CoversSpared DEF Covers
  <2>5. SameTrees(MakeRoom(fetched), reg') \/ SameTrees(fetched, reg')
    BY <1>s, <2>1, <2>2, <2>3, <2>4, CountingKeepsTrees DEF fetched
  <2>6. Tended
    BY <2>3, <2>4, <2>5, TreesTended
  <2> QED BY <2>2, <2>6, RoomFrame
<1>13. ASSUME NEW c \in Threads, CopyEnds(c) \/ CopyFails(c) PROVE Room' /\ PinsHold
  <2> DEFINE n == copies[c].source
             freed == Unprotect(reg, n)
  <2>1. n \in Names /\ turns' = turns
    BY <1>13, CopyEndsEffect, CopyFailsEffect
  <2>2. Working(n) = {}
    BY <2>1 DEF CopiedTreeIsStill, CopiesOf
  <2>3. Covers(freed) /\ Fits(freed)
    <3> HIDE DEF n
    <3> QED BY <1>0, <2>1, <2>2, CoversFreed DEF Covers
  <2>4. \A old : Covers(Sweep(freed, old)) /\ Fits(Sweep(freed, old))
    <3> HIDE DEF freed
    <3> QED BY <2>3, SweepSpares, CoversSpared DEF Covers
  <2>5. CASE CopyEnds(c)
    <3> PICK old \in 0..Len(reg.resident) :
          /\ CanAdmit(Sweep(freed, old))
          /\ reg' = LET cloned == Register(MakeRoom(Sweep(freed, old)), c)
                    IN  IF Live(c) THEN Pin(cloned, c) ELSE cloned
      BY <2>5 DEF CopyEnds
    <3> DEFINE swept == Sweep(freed, old)
               cloned == Register(MakeRoom(swept), c)
    <3>1. CanAdmit(swept) /\ (reg' = cloned \/ reg' = Pin(cloned, c)) /\ c \in Names
      BY DEF Names
    <3>2. Covers(swept) /\ Fits(swept)
      BY <2>4
    <3> HIDE DEF swept
    <3>3. Covers(cloned) /\ Fits(cloned)
      BY <3>1, <3>2, AdmitSpares, CoversSpared DEF Covers
    <3> HIDE DEF cloned
    <3>4. SameTrees(cloned, reg')
      BY <1>s, <3>1, <3>3, CountingKeepsTrees
    <3>5. Tended
      BY <3>3, <3>4, TreesTended
    <3> QED BY <2>1, <3>5, RoomFrame
  <2>6. CASE CopyFails(c)
    <3>1. reg' = freed \/ \E old \in 0..Len(reg.resident) : reg' = Sweep(freed, old)
      BY <2>6 DEF CopyFails
    <3> HIDE DEF freed
    <3>2. Covers(reg') /\ SameTrees(reg', reg')
      BY <1>s, <2>3, <2>4, <3>1
    <3>3. Tended
      BY <3>2, TreesTended
    <3> QED BY <2>1, <3>3, RoomFrame
  <2> QED BY <1>13, <2>5, <2>6
<1>14. ASSUME Restart PROVE Room' /\ PinsHold
  <2>1. reg' = Reopen(reg)
    BY <1>14, Zenon DEF Restart
  <2>2. \A q \in Turns : turns'[q].worker # "working"
    BY <1>14, RestartEffect
  <2>3. DOMAIN reg.holds = Names /\ reg.dirs \in SUBSET Names
    BY <1>0 DEF Fits, Registries
  <2>4. /\ reg'.resident = <<>> /\ reg'.dirs = reg.dirs /\ reg'.pins = {}
        /\ Fits(reg')
    <3>1. reg' = [resident |-> <<>>, dirs |-> reg.dirs,
                  holds |-> [n \in Names |-> 0], pins |-> {}]
      BY <2>1, <2>3 DEF Reopen, EmptyRegistry
    <3>2. [n \in Names |-> 0] \in [Names -> Nat] /\ <<>> \in Seq(Names)
      OBVIOUS
    <3> QED BY <2>3, <3>1, <3>2 DEF Fits, Registries
  <2>5. Len(reg'.resident) <= MaxWorkspaces
    BY <2>4, RegistryAssumption
  <2> QED BY <2>2, <2>4, <2>5 DEF Room, PinsHold, QuotaKept, WorkersKeepTheirTree, Fits
<1>15. CASE UNCHANGED vars
  BY <1>0, <1>1, <1>s, <1>15 DEF vars
<1> QED
  BY <1>2, <1>3, <1>4, <1>5, <1>6, <1>7, <1>8, <1>9, <1>10, <1>11, <1>12, <1>13, <1>14, <1>15
     DEF Next

-----------------------------------------------------------------------------
(* The inductive invariant and the theorems.                                 *)

IInv ==
  /\ Shape /\ restarts \in 0..MaxRestarts
  /\ Busy /\ Owned /\ HoldsMatchHolders /\ CopiedTreeIsStill /\ Room

\* An empty registry has room.
LEMMA RoomInit == ASSUME Init PROVE Room
<1>1. [n \in Names |-> 0] \in [Names -> Nat] /\ <<>> \in Seq(Names) /\ Len(<<>>) <= MaxWorkspaces
  BY RegistryAssumption
<1>2. Fits(reg) /\ QuotaKept
  BY <1>1 DEF Init, Fits, Registries, EmptyRegistry, QuotaKept
<1> QED
  BY <1>2 DEF Init, Room, WorkersKeepTheirTree

\* The process restarts as often as it may.
LEMMA RestartsStep ==
  ASSUME restarts \in 0..MaxRestarts, [Next]_vars
  PROVE  restarts' \in 0..MaxRestarts
<1>1. restarts' = restarts \/ (restarts < MaxRestarts /\ restarts' = restarts + 1)
  BY Zenon DEF Next, vars, CreateThread, DeleteThread, GetDetail, ReadFiles, StartTurn, StartColumn,
     ReuseWorkspace, NewWorkspace, Delegate, DelegateReturns, Answer, ReleaseWorkspace, Commit,
     EndStream, LeaveStream, ForkWithoutWorkspace, ForkWithWorkspace, CopyEnds, CopyFails, Restart
<1> QED
  BY <1>1, RestartsAssumption

\* All parts hold at the start, and together they are inductive.
LEMMA IInvInit == Init => IInv
<1> SUFFICES ASSUME Init PROVE IInv
  OBVIOUS
<1>1. restarts \in 0..MaxRestarts
  BY RestartsAssumption DEF Init
<1> QED BY <1>1, ShapeInit, BusyInit, OwnedInit, CountedInit, StillInit, RoomInit DEF IInv

LEMMA IInvNext == IInv /\ [Next]_vars => IInv'
<1> SUFFICES ASSUME IInv, [Next]_vars PROVE IInv'
  OBVIOUS
<1>1. Shape' /\ Busy' /\ Owned'
  BY ShapeStep, BusyStep, OwnedStep DEF IInv
<1>2. HoldsMatchHolders' /\ CopiedTreeIsStill'
  BY CountedStep, StillStep DEF IInv
<1>3. Room' /\ restarts' \in 0..MaxRestarts
  BY RoomStep, RestartsStep DEF IInv
<1> QED BY <1>1, <1>2, <1>3 DEF IInv

LEMMA IInvInvariant == Spec => []IInv
  BY IInvInit, IInvNext, PTL DEF Spec

\* Every variable keeps its type: the counts of the registry are never
\* negative, and it orders names only.
THEOREM ThreadsAreTyped == Spec => []TypeOK
<1>1. IInv => TypeOK
  BY DEF IInv, Shape, Room, Fits, TypeOK
<1> QED BY <1>1, IInvInvariant, PTL

\* However many threads, turns and forks share workspaces, the registry's
\* protection counts are exactly the agents and copies at work in them.
THEOREM HoldsAreCounted == Spec => []HoldsMatchHolders
BY IInvInvariant, PTL DEF IInv

\* The busy flag of a thread is up exactly while its one turn streams or its
\* one fork copies.
THEOREM FlagTellsTruth == Spec => []RunningTellsTruth
<1>1. IInv => RunningTellsTruth
  BY DEF IInv, Busy, BusyWith, Drives, RunningTellsTruth
<1> QED BY <1>1, IInvInvariant, PTL

\* No agent works in a directory that a fork is copying.
THEOREM CopiesAreStill == Spec => []CopiedTreeIsStill
BY IInvInvariant, PTL DEF IInv

\* Whoever creates, looks up or clones a workspace, and however full the
\* registry is: nobody who is at work loses the tree, and the quota holds.
THEOREM EvictionIsFair == Spec => []RoomIsMadeFairly
<1>1. IInv => RoomIsMadeFairly
  BY DEF IInv, Room, RoomIsMadeFairly
<1> QED BY <1>1, IInvInvariant, PTL

\* No step takes a directory that is pinned before and after it.
THEOREM PinsAreKept == Spec => PinnedStays
<1>1. IInv /\ [Next]_vars => [PinsHold]_vars
  BY RoomStep DEF IInv
<1>2. PinsHold <=> \A n \in reg.pins \cap reg'.pins : n \in reg.dirs => n \in reg'.dirs
  BY DEF PinsHold
<1> QED BY <1>1, <1>2, IInvInvariant, PTL DEF Spec, PinnedStays

-----------------------------------------------------------------------------
(* The builder page.                                                       *)

Sides == {"user", "assistant"}
BubbleSet == [who : Sides, message : Messages]
Ats == {"closed", "open", "refused", "answered", "failed", "received", "unheard"}
Streams == [message : Messages \cup {NoMessage}, agent : Agents \cup {NoAgent}, at : Ats]
ReadSet == [agent : Agents, why : {"load", "compact", "final"}, resync : BOOLEAN, pure : BOOLEAN,
            at : {"asked", "here"}, got : Seq(Messages)]

\* A history is told by two bubbles for each message; what was settled late may be missing.
Pairs(s) == {Said(m) : m \in ToSet(s)} \cup {Replied(m) : m \in ToSet(s)}
Left(S, gone) == {b \in S : b.message \notin gone}
Ascending(s) == \A i, j \in 1 .. Len(s) : i < j => s[i] < s[j]
UpTo(s, n) == \A i \in 1 .. Len(s) : s[i] <= n

PageTypes ==
  /\ agents \subseteq Agents /\ kept \in [Agents -> Seq(Messages)]
  /\ serving \in [Agents -> Messages \cup {NoMessage}]
  /\ listing \in [Agents -> {"absent", "idle", "running", "deleted"}]
  /\ chat \in Seq(BubbleSet) /\ tail \subseteq Messages /\ late \subseteq Messages
  /\ mine \in Streams /\ reads \subseteq ReadSet /\ drafted \in BOOLEAN /\ blurred \in BOOLEAN
  /\ sent \in [count : 0 .. MaxSent, compact : SUBSET Messages]

\* Whatever is kept, run or shown was sent.
PageKnown ==
  /\ \A a \in Agents : UpTo(kept[a], sent.count) /\ serving[a] <= sent.count
  /\ \A i \in 1 .. Len(chat) : chat[i].message <= sent.count
  /\ mine.message <= sent.count

\* The page shows an agent there is, or none and then nothing.
PageSelects ==
  /\ active \in agents \cup {NoAgent}
  /\ active = NoAgent /\ ~blurred => chat = <<>>
  /\ \A a \in Agents : a \in agents <=> listing[a] \in {"idle", "running"}
  /\ \A r \in reads : listing[r.agent] # "absent"
  /\ mine.agent # NoAgent => listing[mine.agent] # "absent"

\* Histories are numbered in the order of the messages, the turn that runs comes last, and
\* the stream of the page is of the agent that runs its message.
PageNumbers ==
  \A a \in Agents :
    /\ Ascending(kept[a])
    /\ serving[a] # NoMessage =>
         /\ \A i \in 1 .. Len(kept[a]) : kept[a][i] < serving[a]
         /\ serving[a] = mine.message => a = mine.agent

PageStreams ==
  IF mine.message = NoMessage THEN mine = NoStream ELSE mine.at # "closed" /\ mine.agent # NoAgent

\* A pure read of an agent that is there has got what its history still tells, and no turn
\* of that agent is being told.
ReadTells(r, there, histories, stream, gone, n) ==
  /\ UpTo(r.got, n) /\ Ascending(r.got)
  /\ r.pure /\ r.agent \in there =>
       /\ r.at = "here" => Left(Pairs(r.got), gone) = Left(Pairs(histories[r.agent]), gone)
       /\ r.agent = stream.agent => stream.at \notin {"open", "answered"}
PageReads == \A r \in reads : ReadTells(r, agents, kept, mine, late, sent.count)

\* The chat will be filled again.
Refills(r) == r.agent = active /\ (r.why = "load" \/ (r.why = "final" /\ r.resync))
Awaiting == \E r \in reads : Refills(r)

\* Otherwise it is the history of the agent, with the message of the stream behind it while
\* the answer is on its way. What a stream leaves that failed, was refused, was not heard or
\* compacts is open until the settled turn is read.
Tells(c, gone, history, S, T) ==
  InOrder(c) /\ Left(ToSet(c) \cup S, gone) = Left(Pairs(history) \cup T, gone)
EndsWith(c, m) == c # <<>> /\ c[Len(c)] = Said(m)
ChatFits(c, gone, history, stream, a, compacts) ==
  LET m == stream.message IN
  /\ stream.agent # a \/ (stream.at = "received" /\ m \notin compacts) =>
       Tells(c, gone, history, {}, {})
  /\ stream.agent = a /\ m \notin compacts =>
       /\ stream.at = "open" => EndsWith(c, m) /\ Tells(c, gone, history, {}, {Said(m)})
       /\ stream.at = "answered" => EndsWith(c, m) /\ Tells(c, gone, history, {Replied(m)}, {})
PageChat ==
  active # NoAgent /\ ~blurred /\ ~Awaiting =>
    ChatFits(chat, late, kept[active], mine, active, sent.compact)

PageInv ==
  /\ PageTypes /\ PageKnown /\ PageSelects /\ PageNumbers /\ PageStreams /\ PageReads /\ PageChat
  /\ TailIsOfAgent /\ WindowIsOfStream

LEMMA PageBounds == MaxAgents \in Nat /\ MaxAgents # 0 /\ MaxSent \in Nat /\ MaxReads \in Nat
  BY BuilderPageAssumption

\* The bubbles of a history are its pairs.
LEMMA BubblesArePairs ==
  ASSUME NEW s \in Seq(Messages)
  PROVE  /\ Bubbles(s) \in Seq(BubbleSet) /\ ToSet(Bubbles(s)) = Pairs(s)
         /\ Ascending(s) => InOrder(Bubbles(s))
         /\ \A n \in Nat : UpTo(s, n) => \A i \in 1 .. Len(Bubbles(s)) : Bubbles(s)[i].message <= n
<1> DEFINE t == Bubbles(s)
           at(i) == IF i % 2 = 1 THEN (i + 1) \div 2 ELSE i \div 2
<1>1. /\ Len(s) \in Nat /\ DOMAIN s = 1 .. Len(s) /\ (\A k \in 1 .. Len(s) : s[k] \in Messages)
      /\ DOMAIN t = 1 .. 2 * Len(s)
  BY DEF Bubbles
<1>2. ASSUME NEW i \in 1 .. 2 * Len(s)
      PROVE  /\ at(i) \in 1 .. Len(s) /\ i % 2 \in {0, 1}
             /\ i = IF i % 2 = 1 THEN 2 * at(i) - 1 ELSE 2 * at(i)
  BY <1>1
<1>3. ASSUME NEW i \in 1 .. 2 * Len(s)
      PROVE  t[i] = IF i % 2 = 1 THEN Said(s[at(i)]) ELSE Replied(s[at(i)])
  BY DEF Bubbles
<1> HIDE DEF t
<1>4. ASSUME NEW m \in Messages
      PROVE  /\ Said(m) \in BubbleSet /\ Said(m).message = m /\ Said(m).who = "user"
             /\ Replied(m) \in BubbleSet /\ Replied(m).message = m /\ Replied(m).who = "assistant"
  BY DEF Said, Replied, BubbleSet, Sides
<1>5. \A i \in 1 .. 2 * Len(s) : t[i] \in BubbleSet /\ t[i].message = s[at(i)]
  BY <1>1, <1>2, <1>3, <1>4
<1>6. t \in Seq(BubbleSet) /\ Len(t) = 2 * Len(s)
  <2>1. t = [i \in 1 .. 2 * Len(s) |-> t[i]]
    BY <1>1 DEF t, Bubbles
  <2>2. 2 * Len(s) \in Nat
    BY <1>1
  <2> QED
    BY <1>5, <2>1, <2>2
<1>7. ToSet(t) \subseteq Pairs(s)
  <2> SUFFICES ASSUME NEW i \in 1 .. 2 * Len(s) PROVE t[i] \in Pairs(s)
    BY <1>6 DEF ToSet
  <2>1. s[at(i)] \in ToSet(s)
    BY <1>1, <1>2 DEF ToSet
  <2> QED
    BY <1>3, <2>1 DEF Pairs
<1>8. Pairs(s) \subseteq ToSet(t)
  <2> SUFFICES ASSUME NEW k \in 1 .. Len(s) PROVE Said(s[k]) \in ToSet(t) /\ Replied(s[k]) \in ToSet(t)
    BY <1>1 DEF Pairs, ToSet
  <2>1. /\ 2 * k - 1 \in 1 .. 2 * Len(s) /\ 2 * k \in 1 .. 2 * Len(s)
        /\ (2 * k - 1) % 2 = 1 /\ (2 * k) % 2 = 0 /\ at(2 * k - 1) = k /\ at(2 * k) = k
    BY <1>1
  <2> HIDE DEF at
  <2>2. t[2 * k - 1] = Said(s[k]) /\ t[2 * k] = Replied(s[k])
    BY <1>3, <2>1
  <2> QED
    BY <1>6, <2>1, <2>2 DEF ToSet
<1>9. ASSUME Ascending(s) PROVE InOrder(t)
  <2> SUFFICES ASSUME NEW i \in 1 .. 2 * Len(s), NEW j \in 1 .. 2 * Len(s), i < j
               PROVE  Follows(t[i], t[j])
    BY <1>1 DEF InOrder
  <2>1. t[i].message = s[at(i)] /\ t[j].message = s[at(j)]
    BY <1>5
  <2>2. CASE at(i) < at(j)
    <3>1. s[at(i)] < s[at(j)]
      BY <1>2, <1>9, <2>2 DEF Ascending
    <3> QED
      BY <2>1, <3>1 DEF Follows
  <2>3. CASE ~ (at(i) < at(j))
    <3>1. at(i) = at(j) /\ i % 2 = 1 /\ j % 2 # 1
      BY <1>2, <2>3
    <3> HIDE DEF at
    <3>2. s[at(i)] \in Messages /\ s[at(j)] = s[at(i)]
      BY <1>1, <1>2, <3>1
    <3>3. t[i] = Said(s[at(i)]) /\ t[j] = Replied(s[at(i)])
      BY <1>3, <3>1, <3>2
    <3>4. t[i].who = "user" /\ t[j].who = "assistant" /\ t[i].message = t[j].message
      BY <1>4, <3>2, <3>3
    <3> QED
      BY <3>4 DEF Follows
  <2> QED
    BY <2>2, <2>3
<1>10. ASSUME NEW n \in Nat, UpTo(s, n) PROVE \A i \in 1 .. Len(t) : t[i].message <= n
  BY <1>2, <1>5, <1>6, <1>10 DEF UpTo
<1> QED
  BY <1>6, <1>7, <1>8, <1>9, <1>10 DEF t

\* The elements of a sequence, and one more.
LEMMA ToSetGrows ==
  ASSUME NEW S, NEW s \in Seq(S), NEW x \in S
  PROVE  ToSet(Append(s, x)) = ToSet(s) \cup {x}
<1> DEFINE t == Append(s, x)
<1>1. /\ Len(t) = Len(s) + 1 /\ Len(s) \in Nat /\ t[Len(s) + 1] = x /\ t \in Seq(S)
      /\ \A i \in 1 .. Len(s) : t[i] = s[i]
  OBVIOUS
<1> HIDE DEF t
<1>2. DOMAIN s = 1 .. Len(s) /\ DOMAIN t = 1 .. Len(s) + 1
  BY <1>1
<1>3. ToSet(t) \subseteq ToSet(s) \cup {x}
  <2> SUFFICES ASSUME NEW i \in 1 .. Len(s) + 1 PROVE t[i] \in ToSet(s) \cup {x}
    BY <1>2 DEF ToSet
  <2> QED
    BY <1>1, <1>2 DEF ToSet
<1>4. x \in ToSet(t)
  BY <1>1, <1>2 DEF ToSet
<1>5. ToSet(s) \subseteq ToSet(t)
  <2> SUFFICES ASSUME NEW i \in 1 .. Len(s) PROVE s[i] \in ToSet(t)
    BY <1>2 DEF ToSet
  <2>1. i \in 1 .. Len(s) + 1 /\ t[i] = s[i]
    BY <1>1
  <2> QED
    BY <1>2, <2>1 DEF ToSet
<1> QED
  BY <1>3, <1>4, <1>5 DEF t

\* A history grows by a pair.
LEMMA PairsAppend ==
  ASSUME NEW s \in Seq(Messages), NEW m \in Messages
  PROVE  Pairs(Append(s, m)) = Pairs(s) \cup {Said(m), Replied(m)}
<1>1. ToSet(Append(s, m)) = ToSet(s) \cup {m}
  BY ToSetGrows
<1> QED
  BY <1>1 DEF Pairs

\* What is left of two equal stories is equal when more is gone.
LEMMA LeftOfMore ==
  ASSUME NEW S, NEW T, NEW gone, NEW more, gone \subseteq more, Left(S, gone) = Left(T, gone)
  PROVE  Left(S, more) = Left(T, more)
<1>1. \A b : b \in S /\ b.message \notin gone <=> b \in T /\ b.message \notin gone
  BY DEF Left
<1>2. \A b : b \in Left(S, more) <=> b \in Left(T, more)
  BY <1>1 DEF Left
<1> QED
  BY <1>2

\* A bubble and its parts.
LEMMA BubbleParts ==
  ASSUME NEW m \in Messages
  PROVE  /\ Said(m) \in BubbleSet /\ Said(m).message = m /\ Said(m).who = "user"
         /\ Replied(m) \in BubbleSet /\ Replied(m).message = m /\ Replied(m).who = "assistant"
         /\ m \in Nat
  BY DEF Said, Replied, BubbleSet, Sides, Messages

\* The chat fits as well when more is gone.
LEMMA FitsLater ==
  ASSUME NEW c, NEW gone, NEW h, NEW stream, NEW a, NEW compacts, NEW more, NEW h2,
         ChatFits(c, gone, h, stream, a, compacts), gone \subseteq more,
         Left(Pairs(h), more) = Left(Pairs(h2), more)
  PROVE  ChatFits(c, more, h2, stream, a, compacts)
<1>1. ASSUME NEW S, NEW T, Tells(c, gone, h, S, T) PROVE Tells(c, more, h2, S, T)
  <2>1. Left(ToSet(c) \cup S, more) = Left(Pairs(h) \cup T, more)
    BY <1>1, LeftOfMore DEF Tells
  <2>2. \A U : Left(U \cup T, more) = Left(U, more) \cup Left(T, more)
    BY DEF Left
  <2>3. Left(Pairs(h) \cup T, more) = Left(Pairs(h2) \cup T, more)
    BY <2>2
  <2> QED
    BY <1>1, <2>1, <2>3 DEF Tells
<1> DEFINE m == stream.message
<1>2. stream.agent # a \/ (stream.at = "received" /\ m \notin compacts) => Tells(c, more, h2, {}, {})
  BY <1>1 DEF ChatFits
<1>3. stream.agent = a /\ m \notin compacts /\ stream.at = "open" =>
        EndsWith(c, m) /\ Tells(c, more, h2, {}, {Said(m)})
  BY <1>1 DEF ChatFits
<1>4. stream.agent = a /\ m \notin compacts /\ stream.at = "answered" =>
        EndsWith(c, m) /\ Tells(c, more, h2, {Replied(m)}, {})
  BY <1>1 DEF ChatFits
<1> QED
  BY <1>2, <1>3, <1>4 DEF ChatFits

\* A chat filled from what a pure read got fits.
LEMMA FitsFilled ==
  ASSUME NEW got \in Seq(Messages), Ascending(got), NEW gone, NEW h, NEW stream, NEW a, NEW compacts,
         Left(Pairs(got), gone) = Left(Pairs(h), gone),
         stream.agent = a => stream.at \notin {"open", "answered"}
  PROVE  ChatFits(Bubbles(got), gone, h, stream, a, compacts)
<1>1. Tells(Bubbles(got), gone, h, {}, {})
  <2>1. ToSet(Bubbles(got)) = Pairs(got) /\ InOrder(Bubbles(got))
    BY BubblesArePairs
  <2> QED
    BY <2>1 DEF Tells
<1> QED
  BY <1>1 DEF ChatFits

\* A bubble goes behind those it follows.
LEMMA OrderAppends ==
  ASSUME NEW c \in Seq(BubbleSet), NEW b \in BubbleSet, InOrder(c),
         \A i \in 1 .. Len(c) : Follows(c[i], b)
  PROVE  InOrder(Append(c, b))
<1> DEFINE d == Append(c, b)
<1>1. /\ Len(d) = Len(c) + 1 /\ Len(c) \in Nat /\ d[Len(c) + 1] = b /\ d \in Seq(BubbleSet)
      /\ \A i \in 1 .. Len(c) : d[i] = c[i]
  OBVIOUS
<1> HIDE DEF d
<1>2. DOMAIN c = 1 .. Len(c) /\ DOMAIN d = 1 .. Len(c) + 1
  BY <1>1
<1>3. ASSUME NEW i \in 1 .. Len(c) + 1, NEW j \in 1 .. Len(c) + 1, i < j PROVE Follows(d[i], d[j])
  <2>1. i \in 1 .. Len(c) /\ d[i] = c[i]
    BY <1>1, <1>3
  <2>2. CASE j = Len(c) + 1
    BY <1>1, <2>1, <2>2
  <2>3. CASE j # Len(c) + 1
    <3>1. j \in 1 .. Len(c) /\ d[j] = c[j]
      BY <1>1, <2>3
    <3> QED
      BY <1>2, <1>3, <2>1, <3>1 DEF InOrder
  <2> QED
    BY <2>2, <2>3
<1> QED
  BY <1>2, <1>3 DEF InOrder, d

\* What is left of two stories together.
LEMMA LeftOfBoth ==
  ASSUME NEW S, NEW T, NEW gone
  PROVE  Left(S \cup T, gone) = Left(S, gone) \cup Left(T, gone) /\ S \cup {} = S
  BY DEF Left

\* The bubble at the end of a chat.
LEMMA EndsWithIt ==
  ASSUME NEW c \in Seq(BubbleSet), NEW m, Said(m) \in BubbleSet
  PROVE  EndsWith(Append(c, Said(m)), m)
<1>1. Append(c, Said(m))[Len(c) + 1] = Said(m) /\ Len(Append(c, Said(m))) = Len(c) + 1 /\ Len(c) \in Nat
  OBVIOUS
<1>2. Len(c) + 1 # 0 /\ Len(<<>>) = 0
  BY <1>1
<1> QED
  BY <1>1, <1>2 DEF EndsWith

\* The last of a chat in order follows the others.
LEMMA LastFollows ==
  ASSUME NEW S, NEW c \in Seq(S), InOrder(c), NEW i \in 1 .. Len(c), i # Len(c)
  PROVE  Follows(c[i], c[Len(c)])
<1>1. DOMAIN c = 1 .. Len(c) /\ Len(c) \in 1 .. Len(c) /\ i < Len(c)
  OBVIOUS
<1> QED
  BY <1>1 DEF InOrder

\* The message that is sent goes behind the history.
LEMMA FitsSent ==
  ASSUME NEW c \in Seq(BubbleSet), NEW n \in Nat, n + 1 \in Messages,
         \A i \in 1 .. Len(c) : c[i].message <= n, NEW gone, NEW h, Tells(c, gone, h, {}, {})
  PROVE  LET d == Append(c, Said(n + 1))
         IN  EndsWith(d, n + 1) /\ Tells(d, gone, h, {}, {Said(n + 1)})
<1> DEFINE m == n + 1
           d == Append(c, Said(m))
<1>1. Said(m) \in BubbleSet /\ Said(m).message = m
  BY BubbleParts
<1>2. \A i \in 1 .. Len(c) : Follows(c[i], Said(m))
  <2>1. ASSUME NEW i \in 1 .. Len(c) PROVE Follows(c[i], Said(m))
    <3>0. c[i] \in BubbleSet /\ c[i].message <= n
      OBVIOUS
    <3>1. c[i].message <= n /\ c[i].message \in Nat
      BY <3>0 DEF BubbleSet, Messages
    <3>2. c[i].message < m
      BY <3>1
    <3> QED
      BY <1>1, <3>2 DEF Follows
  <2> QED
    BY <2>1
<1>3. InOrder(c) /\ Left(ToSet(c), gone) = Left(Pairs(h), gone)
  <2>1. ToSet(c) \cup {} = ToSet(c) /\ Pairs(h) \cup {} = Pairs(h)
    OBVIOUS
  <2> QED
    BY <2>1 DEF Tells
<1>4. EndsWith(d, m)
  BY <1>1, EndsWithIt
<1> HIDE DEF m
<1>5. InOrder(d) /\ ToSet(d) = ToSet(c) \cup {Said(m)}
  BY <1>1, <1>2, <1>3, OrderAppends, ToSetGrows
<1> HIDE DEF d
<1>6. /\ Left(ToSet(c) \cup {Said(m)}, gone) = Left(ToSet(c), gone) \cup Left({Said(m)}, gone)
      /\ Left(Pairs(h) \cup {Said(m)}, gone) = Left(Pairs(h), gone) \cup Left({Said(m)}, gone)
      /\ ToSet(d) \cup {} = ToSet(d)
  BY LeftOfBoth
<1>7. Left(ToSet(d) \cup {}, gone) = Left(Pairs(h) \cup {Said(m)}, gone)
  BY <1>3, <1>5, <1>6
<1> QED
  BY <1>4, <1>5, <1>7 DEF Tells, d, m

\* The turn is kept, and its answer still to come.
LEMMA FitsSettled ==
  ASSUME NEW c, NEW gone, NEW h \in Seq(Messages), NEW m \in Messages,
         Tells(c, gone, h, {}, {Said(m)})
  PROVE  Tells(c, gone, Append(h, m), {Replied(m)}, {})
<1>1. Pairs(Append(h, m)) = Pairs(h) \cup {Said(m), Replied(m)}
  BY PairsAppend
<1>2. Left(ToSet(c), gone) = Left(Pairs(h) \cup {Said(m)}, gone) /\ InOrder(c)
  <2>1. ToSet(c) \cup {} = ToSet(c)
    OBVIOUS
  <2> QED
    BY <2>1 DEF Tells
<1> DEFINE S == ToSet(c)
           T == Pairs(h) \cup {Said(m)}
<1>3. /\ Left(S \cup {Replied(m)}, gone) = Left(S, gone) \cup Left({Replied(m)}, gone)
      /\ Left(T \cup {Replied(m)}, gone) = Left(T, gone) \cup Left({Replied(m)}, gone)
  BY LeftOfBoth
<1>4. Pairs(Append(h, m)) \cup {} = T \cup {Replied(m)}
  BY <1>1
<1>5. Left(S \cup {Replied(m)}, gone) = Left(T \cup {Replied(m)}, gone)
  BY <1>2, <1>3
<1> QED
  BY <1>2, <1>4, <1>5 DEF Tells

\* The answer comes.
LEMMA FitsAnswered ==
  ASSUME NEW c \in Seq(BubbleSet), NEW gone, NEW h, NEW m \in Messages, EndsWith(c, m),
         Tells(c, gone, h, {Replied(m)}, {})
  PROVE  Tells(Append(c, Replied(m)), gone, h, {}, {})
<1>1. InOrder(c) /\ Left(ToSet(c) \cup {Replied(m)}, gone) = Left(Pairs(h), gone)
  <2>1. Pairs(h) \cup {} = Pairs(h)
    OBVIOUS
  <2> QED
    BY <2>1 DEF Tells
<1>2. /\ Said(m).message = m /\ Said(m).who = "user" /\ Replied(m).message = m
      /\ Replied(m).who = "assistant" /\ Replied(m) \in BubbleSet /\ m \in Nat
  BY BubbleParts
<1>3. Len(c) \in Nat /\ Len(c) # 0 /\ c[Len(c)] = Said(m) /\ DOMAIN c = 1 .. Len(c)
  BY DEF EndsWith
<1>4. ASSUME NEW i \in 1 .. Len(c) PROVE Follows(c[i], Replied(m))
  <2>1. CASE i = Len(c)
    BY <1>2, <1>3, <2>1 DEF Follows
  <2>2. CASE i # Len(c)
    <3>1. Follows(c[i], c[Len(c)])
      BY <1>1, <2>2, LastFollows
    <3>2. Follows(c[i], Said(m))
      BY <1>3, <3>1
    <3>3. c[i].message < m
      BY <1>2, <3>2 DEF Follows
    <3> QED
      BY <1>2, <3>3 DEF Follows
  <2> QED
    BY <2>1, <2>2
<1>5. InOrder(Append(c, Replied(m))) /\ ToSet(Append(c, Replied(m))) = ToSet(c) \cup {Replied(m)}
  BY <1>1, <1>2, <1>4, OrderAppends, ToSetGrows
<1>6. ToSet(Append(c, Replied(m))) \cup {} = ToSet(c) \cup {Replied(m)} /\ Pairs(h) \cup {} = Pairs(h)
  BY <1>5
<1> QED
  BY <1>1, <1>5, <1>6 DEF Tells

\* Nothing was sent yet.
LEMMA PageInitInv == BuilderPageInit => PageInv
<1> SUFFICES ASSUME BuilderPageInit PROVE PageInv
  OBVIOUS
<1>1. /\ agents = {1} /\ kept = [a \in Agents |-> <<>>] /\ serving = [a \in Agents |-> NoMessage]
      /\ listing = [a \in Agents |-> IF a = 1 THEN "idle" ELSE "absent"]
      /\ active = NoAgent /\ drafted = FALSE /\ chat = <<>> /\ tail = {} /\ window = NoMessage
      /\ mine = NoStream /\ sent = [count |-> 0, compact |-> {}]
      /\ reads = {} /\ blurred = FALSE /\ late = {}
  BY DEF BuilderPageInit
<1>2. <<>> \in Seq(Messages) /\ <<>> \in Seq(BubbleSet) /\ Len(<<>>) = 0
  OBVIOUS
<1>3. 1 \in Agents
  BY PageBounds DEF Agents
<1>4. mine.message = 0 /\ mine.agent = 0 /\ mine.at = "closed" /\ sent.count = 0 /\ sent.compact = {}
  BY <1>1 DEF NoStream, NoMessage, NoAgent
<1>5. PageTypes
  <2>1. mine \in Streams /\ sent \in [count : 0 .. MaxSent, compact : SUBSET Messages]
    BY <1>1, PageBounds DEF NoStream, Streams, Ats
  <2>2. drafted \in BOOLEAN /\ blurred \in BOOLEAN
    BY <1>1, Zenon
  <2>3. listing \in [Agents -> {"absent", "idle", "running", "deleted"}]
    BY <1>1
  <2>4. kept \in [Agents -> Seq(Messages)] /\ serving \in [Agents -> Messages \cup {NoMessage}]
    BY <1>1, <1>2
  <2> QED
    BY <1>1, <1>2, <1>3, <2>1, <2>2, <2>3, <2>4 DEF PageTypes
<1>6. \A a \in Agents : kept[a] = <<>> /\ serving[a] = 0
  BY <1>1 DEF NoMessage
<1>7. PageKnown
  <2>1. \A i \in 1 .. Len(chat) : FALSE
    BY <1>1, <1>2
  <2>2. \A a \in Agents : UpTo(kept[a], sent.count) /\ serving[a] <= sent.count
    BY <1>2, <1>4, <1>6 DEF UpTo
  <2> QED
    BY <1>4, <2>1, <2>2 DEF PageKnown
<1>8. PageSelects
  BY <1>1, <1>3, <1>4 DEF PageSelects, NoAgent
<1>9. PageNumbers
  BY <1>2, <1>6 DEF PageNumbers, Ascending, NoMessage
<1>10. PageStreams /\ PageReads /\ PageChat
  BY <1>1, <1>4 DEF PageStreams, PageReads, PageChat, NoMessage
<1>11. TailIsOfAgent /\ WindowIsOfStream
  BY <1>1 DEF TailIsOfAgent, WindowIsOfStream
<1> QED
  BY <1>5, <1>7, <1>8, <1>9, <1>10, <1>11 DEF PageInv

\* No agent is none, and no message either.
LEMMA NoneIsNone == NoAgent \notin Agents /\ NoMessage \notin Messages
  BY DEF NoAgent, NoMessage, Agents, Messages

\* A read that is asked for has got nothing yet.
LEMMA NewRead ==
  ASSUME NEW a \in Agents, NEW why \in {"load", "compact", "final"}, NEW resync \in BOOLEAN,
         NEW pure \in BOOLEAN
  PROVE  LET r == Reading(a, why, resync, pure)
         IN  /\ r \in ReadSet /\ r.agent = a /\ r.why = why /\ r.resync = resync /\ r.pure = pure
             /\ r.at = "asked" /\ r.got = <<>>
<1>1. <<>> \in Seq(Messages)
  OBVIOUS
<1> QED
  BY <1>1 DEF Reading, ReadSet

LEMMA NewReadTells ==
  ASSUME NEW r, r.at = "asked", r.got = <<>>, NEW there, NEW h, NEW stream, NEW gone, NEW n,
         r.pure /\ r.agent = stream.agent => stream.at \notin {"open", "answered"}
  PROVE  ReadTells(r, there, h, stream, gone, n)
<1>1. UpTo(<<>>, n) /\ Ascending(<<>>)
  BY DEF UpTo, Ascending
<1> QED
  BY <1>1 DEF ReadTells

\* The view moves: what it shows is asked for, or it is empty.
LEMMA ViewMoves ==
  ASSUME PageInv, NEW a \in Agents \cup {NoAgent}, SwitchedTo(a), mine' = mine
  PROVE  /\ chat' \in Seq(BubbleSet) /\ tail' \subseteq Messages /\ drafted' \in BOOLEAN
         /\ blurred' \in BOOLEAN /\ reads' \subseteq ReadSet /\ chat' \in {chat, <<>>}
         /\ active' = a /\ (active' = NoAgent /\ ~blurred' => chat' = <<>>)
         /\ \A r \in reads' : r \in reads \/ (r = Reading(a, "load", FALSE, NoTurnToTell(a)) /\ a # NoAgent)
         /\ PageChat' /\ TailIsOfAgent'
<1>1. /\ PageTypes /\ PageSelects /\ PageStreams /\ TailIsOfAgent
  BY DEF PageInv
<1>2. /\ chat \in Seq(BubbleSet) /\ tail \subseteq Messages /\ drafted \in BOOLEAN
      /\ blurred \in BOOLEAN /\ reads \subseteq ReadSet
  BY <1>1 DEF PageTypes
<1>3. CASE a = NoAgent
  <2>1. Deselected /\ reads' = reads
    BY <1>3 DEF SwitchedTo
  <2>2. CASE active = NoAgent
    <3>1. /\ active' = active /\ drafted' = drafted /\ chat' = chat /\ tail' = tail
          /\ blurred' = blurred
      BY <2>1, <2>2 DEF Deselected
    <3>2. PageChat'
      BY <2>2, <3>1 DEF PageChat
    <3>3. TailIsOfAgent'
      BY <1>1, <2>1, <3>1 DEF TailIsOfAgent
    <3>4. active' = NoAgent /\ ~blurred' => chat' = <<>>
      BY <1>1, <2>2, <3>1 DEF PageSelects
    <3>5. drafted' \in BOOLEAN /\ blurred' \in BOOLEAN
      BY <1>2, <3>1, Zenon
    <3>6. active' = a
      BY <1>3, <2>2, <3>1
    <3> HIDE DEF PageChat, TailIsOfAgent
    <3> QED
      BY <1>2, <2>1, <3>1, <3>2, <3>3, <3>4, <3>5, <3>6
  <2>3. CASE active # NoAgent
    <3>1. active' = NoAgent /\ drafted' = FALSE /\ chat' = <<>> /\ tail' = {} /\ blurred' = FALSE
      BY <2>1, <2>3 DEF Deselected
    <3>2. PageChat' /\ TailIsOfAgent'
      BY <3>1 DEF PageChat, TailIsOfAgent
    <3>3. drafted' \in BOOLEAN /\ blurred' \in BOOLEAN
      BY <3>1, Zenon
    <3>4. <<>> \in Seq(BubbleSet)
      OBVIOUS
    <3>5. chat' \in Seq(BubbleSet) /\ tail' \subseteq Messages /\ active' = a
      BY <1>3, <3>1, <3>4
    <3> QED
      BY <1>2, <2>1, <3>1, <3>2, <3>3, <3>5
  <2> QED
    BY <2>2, <2>3
<1>4. CASE a # NoAgent
  <2> DEFINE q == Reading(a, "load", FALSE, NoTurnToTell(a))
  <2>1. /\ active' = a /\ reads' = reads \cup {q} /\ drafted' = drafted /\ chat' = chat
        /\ tail' = tail /\ blurred' = blurred
    BY <1>4 DEF SwitchedTo
  <2>2. a \in Agents /\ NoTurnToTell(a) \in BOOLEAN
    BY <1>4 DEF NoTurnToTell
  <2>3. q \in ReadSet /\ q.agent = a /\ q.why = "load"
    <3>1. <<>> \in Seq(Messages)
      OBVIOUS
    <3> QED
      BY <2>2, <3>1 DEF Reading, ReadSet
  <2> HIDE DEF q
  <2>4. Awaiting'
    BY <2>1, <2>3 DEF Awaiting, Refills
  <2>5. PageChat'
    BY <2>4 DEF PageChat
  <2>6. TailIsOfAgent'
    BY <2>1, <2>3 DEF TailIsOfAgent
  <2> QED
    BY <1>2, <1>4, <2>1, <2>3, <2>5, <2>6 DEF q
<1> QED
  BY <1>3, <1>4

\* The read of an agent the view moves to.
LEMMA LoadTells ==
  ASSUME NEW a, NEW there, NEW h, NEW gone, NEW n
  PROVE  LET r == Reading(a, "load", FALSE, NoTurnToTell(a))
         IN  ReadTells(r, there, h, mine, gone, n) /\ r.agent = a
<1> DEFINE r == Reading(a, "load", FALSE, NoTurnToTell(a))
<1>1. r.at = "asked" /\ r.got = <<>> /\ r.agent = a /\ r.pure = NoTurnToTell(a)
  BY DEF Reading
<1>2. r.pure /\ r.agent = mine.agent => mine.at \notin {"open", "answered"}
  BY <1>1 DEF NoTurnToTell
<1> HIDE DEF r
<1>3. ReadTells(r, there, h, mine, gone, n)
  BY <1>1, <1>2, NewReadTells
<1> QED
  BY <1>1, <1>3 DEF r

\* The parts of the invariant that only look at the server and the stream.
LEMMA PagePartsStay ==
  ASSUME PageInv
  PROVE  /\ UNCHANGED <<kept, serving, mine>> => PageNumbers'
         /\ UNCHANGED mine => PageStreams'
         /\ UNCHANGED <<kept, serving, mine, sent>> /\ chat' \in {chat, <<>>} => PageKnown'
         /\ UNCHANGED <<mine, window>> => WindowIsOfStream'
         /\ UNCHANGED <<kept, active, late, chat, blurred, reads, mine, sent>> => PageChat'
         /\ UNCHANGED <<mine, active, tail, reads>> => TailIsOfAgent'
<1>1. PageNumbers /\ PageStreams /\ PageKnown /\ WindowIsOfStream /\ PageChat /\ TailIsOfAgent
  BY DEF PageInv
<1>2. UNCHANGED <<kept, serving, mine>> => PageNumbers'
  BY <1>1 DEF PageNumbers
<1>3. UNCHANGED mine => PageStreams'
  BY <1>1 DEF PageStreams
<1>4. ASSUME UNCHANGED <<kept, serving, mine, sent>>, chat' \in {chat, <<>>} PROVE PageKnown'
  <2>1. \A i \in 1 .. Len(chat') : chat'[i].message <= sent.count
    <3>1. CASE chat' = chat
      BY <1>1, <3>1 DEF PageKnown
    <3>2. CASE chat' = <<>>
      BY <3>2
    <3> QED
      BY <1>4, <3>1, <3>2
  <2> QED
    BY <1>1, <1>4, <2>1 DEF PageKnown
<1>5. UNCHANGED <<mine, window>> => WindowIsOfStream'
  BY <1>1 DEF WindowIsOfStream
<1>6. UNCHANGED <<kept, active, late, chat, blurred, reads, mine, sent>> => PageChat'
  BY <1>1 DEF PageChat, Awaiting, Refills
<1>7. UNCHANGED <<mine, active, tail, reads>> => TailIsOfAgent'
  BY <1>1 DEF TailIsOfAgent
<1> QED
  BY <1>2, <1>3, <1>4, <1>5, <1>6, <1>7

\* The reads under way still tell, and so does one more that just begins.
LEMMA ReadsStay ==
  ASSUME PageInv, UNCHANGED <<mine, late, sent>>, NEW a \in Agents \cup {NoAgent},
         \A r \in reads' : r \in reads \/ (r = Reading(a, "load", FALSE, NoTurnToTell(a)) /\ a # NoAgent),
         \A r \in reads : r.agent \in agents' => r.agent \in agents /\ kept'[r.agent] = kept[r.agent]
  PROVE  PageReads'
<1> SUFFICES ASSUME NEW r \in reads' PROVE ReadTells(r, agents', kept', mine, late, sent.count)
  BY DEF PageReads
<1>1. CASE r \in reads
  <2>1. ReadTells(r, agents, kept, mine, late, sent.count)
    BY <1>1 DEF PageInv, PageReads
  <2>2. r.agent \in agents' => r.agent \in agents /\ kept'[r.agent] = kept[r.agent]
    BY <1>1
  <2> QED
    BY <2>1, <2>2 DEF ReadTells
<1>2. CASE r \notin reads
  BY <1>2, LoadTells
<1> QED
  BY <1>1, <1>2

\* The selection, when the view moves.
LEMMA SelectionMoves ==
  ASSUME PageInv, UNCHANGED mine, agents' \subseteq Agents, NEW a \in agents' \cup {NoAgent}, active' = a,
         active' = NoAgent /\ ~blurred' => chat' = <<>>,
         \A r \in reads' : r \in reads \/ (r = Reading(a, "load", FALSE, NoTurnToTell(a)) /\ a # NoAgent),
         \A b \in Agents : b \in agents' <=> listing'[b] \in {"idle", "running"},
         \A b : listing[b] # "absent" => listing'[b] # "absent"
  PROVE  PageSelects'
<1>1. PageSelects
  BY DEF PageInv
<1>2. \A r \in reads' : listing'[r.agent] # "absent"
  <2> SUFFICES ASSUME NEW r \in reads' PROVE listing'[r.agent] # "absent"
    OBVIOUS
  <2>1. CASE r \in reads
    BY <1>1, <2>1 DEF PageSelects
  <2>2. CASE r \notin reads
    <3>1. r.agent = a /\ a \in agents' /\ a \in Agents
      BY <2>2 DEF Reading
    <3>2. listing'[a] \in {"idle", "running"}
      BY <3>1
    <3> QED
      BY <3>1, <3>2
  <2> QED
    BY <2>1, <2>2
<1>3. mine.agent # NoAgent => listing'[mine.agent] # "absent"
  BY <1>1 DEF PageSelects
<1>4. mine'.agent # NoAgent => listing'[mine'.agent] # "absent"
  BY <1>3
<1> QED
  BY <1>2, <1>4 DEF PageSelects

LEMMA SwitchAgentInv == ASSUME PageInv, NEW a \in Agents, SwitchAgent(a) PROVE PageInv'
<1>1. /\ listing[a] \in {"idle", "running"} /\ SwitchedTo(a) /\ agents' = agents /\ kept' = kept
      /\ serving' = serving /\ listing' = listing /\ window' = window /\ mine' = mine
      /\ sent' = sent /\ late' = late
  BY DEF SwitchAgent, serverVars
<1>2. PageTypes /\ PageSelects
  BY DEF PageInv
<1>3. a \in agents
  BY <1>1, <1>2 DEF PageSelects
<1>4. /\ chat' \in Seq(BubbleSet) /\ tail' \subseteq Messages /\ drafted' \in BOOLEAN
      /\ blurred' \in BOOLEAN /\ reads' \subseteq ReadSet /\ chat' \in {chat, <<>>}
      /\ active' = a /\ (active' = NoAgent /\ ~blurred' => chat' = <<>>)
      /\ \A r \in reads' : r \in reads \/ (r = Reading(a, "load", FALSE, NoTurnToTell(a)) /\ a # NoAgent)
      /\ PageChat' /\ TailIsOfAgent'
  BY <1>1, ViewMoves
<1>5. PageTypes'
  BY <1>1, <1>2, <1>4 DEF PageTypes
<1>6. PageReads'
  BY <1>1, <1>4, ReadsStay
<1>7. PageSelects'
  <2>1. \A b \in Agents : b \in agents' <=> listing'[b] \in {"idle", "running"}
    BY <1>1, <1>2 DEF PageSelects
  <2>2. a \in agents' \cup {NoAgent} /\ \A b : listing[b] # "absent" => listing'[b] # "absent"
    BY <1>1, <1>3
  <2>3. agents' \subseteq Agents
    BY <1>1, <1>2 DEF PageTypes
  <2> QED
    BY <1>1, <1>4, <2>1, <2>2, <2>3, SelectionMoves
<1>8. PageKnown' /\ PageNumbers' /\ PageStreams' /\ WindowIsOfStream'
  BY <1>1, <1>4, PagePartsStay
<1> QED
  BY <1>4, <1>5, <1>6, <1>7, <1>8 DEF PageInv

LEMMA CreateAgentInv == ASSUME PageInv, NEW a \in Agents, CreateAgent(a) PROVE PageInv'
<1>1. /\ a \notin agents /\ listing[a] = "absent" /\ agents' = agents \cup {a}
      /\ listing' = [listing EXCEPT ![a] = "idle"] /\ SwitchedTo(a) /\ kept' = kept
      /\ serving' = serving /\ window' = window /\ mine' = mine /\ sent' = sent /\ late' = late
  BY DEF CreateAgent
<1>2. PageTypes /\ PageSelects
  BY DEF PageInv
<1>3. /\ listing \in [Agents -> {"absent", "idle", "running", "deleted"}] /\ listing'[a] = "idle"
      /\ \A b \in Agents \ {a} : listing'[b] = listing[b]
      /\ listing' \in [Agents -> {"absent", "idle", "running", "deleted"}]
  BY <1>1, <1>2 DEF PageTypes
<1>4. /\ chat' \in Seq(BubbleSet) /\ tail' \subseteq Messages /\ drafted' \in BOOLEAN
      /\ blurred' \in BOOLEAN /\ reads' \subseteq ReadSet /\ chat' \in {chat, <<>>}
      /\ active' = a /\ (active' = NoAgent /\ ~blurred' => chat' = <<>>)
      /\ \A r \in reads' : r \in reads \/ (r = Reading(a, "load", FALSE, NoTurnToTell(a)) /\ a # NoAgent)
      /\ PageChat' /\ TailIsOfAgent'
  BY <1>1, ViewMoves
<1>5. PageTypes'
  BY <1>1, <1>2, <1>3, <1>4 DEF PageTypes
<1>6. PageReads'
  <2>1. \A r \in reads : r.agent # a
    BY <1>1, <1>2 DEF PageSelects
  <2>2. \A r \in reads : r.agent \in agents' => r.agent \in agents /\ kept'[r.agent] = kept[r.agent]
    BY <1>1, <2>1
  <2> QED
    BY <1>1, <1>4, <2>2, ReadsStay
<1>7. PageSelects'
  <2>1. \A b \in Agents : b \in agents' <=> listing'[b] \in {"idle", "running"}
    BY <1>1, <1>2, <1>3 DEF PageSelects
  <2>2. a \in agents' \cup {NoAgent} /\ \A b : listing[b] # "absent" => listing'[b] # "absent"
    <3>1. \A b : b # a => listing'[b] = listing[b]
      BY <1>1, <1>3
    <3> QED
      BY <1>1, <1>3, <3>1
  <2>3. agents' \subseteq Agents
    BY <1>1, <1>2 DEF PageTypes
  <2> QED
    BY <1>1, <1>4, <2>1, <2>2, <2>3, SelectionMoves
<1>8. PageKnown' /\ PageNumbers' /\ PageStreams' /\ WindowIsOfStream'
  BY <1>1, <1>4, PagePartsStay
<1> QED
  BY <1>4, <1>5, <1>6, <1>7, <1>8 DEF PageInv

\* An agent that is deleted has no turn; the view moves if it showed it.
LEMMA DeleteAgentInv == ASSUME PageInv, NEW a \in Agents, DeleteAgent(a) PROVE PageInv'
<1>1. /\ a \in agents /\ serving[a] = NoMessage /\ agents' = agents \ {a}
      /\ kept' = [kept EXCEPT ![a] = <<>>] /\ listing' = [listing EXCEPT ![a] = "deleted"]
      /\ serving' = serving /\ window' = window /\ mine' = mine /\ sent' = sent /\ late' = late
  BY DEF DeleteAgent
<1>2. PageTypes /\ PageSelects /\ PageKnown /\ PageNumbers /\ PageChat
  BY DEF PageInv
<1>3. /\ kept' \in [Agents -> Seq(Messages)] /\ kept'[a] = <<>>
      /\ \A b \in Agents : b # a => kept'[b] = kept[b]
  <2>1. <<>> \in Seq(Messages)
    OBVIOUS
  <2> QED
    BY <1>1, <1>2, <2>1 DEF PageTypes
<1>4. /\ listing' \in [Agents -> {"absent", "idle", "running", "deleted"}] /\ listing'[a] = "deleted"
      /\ \A b : b # a => listing'[b] = listing[b]
  BY <1>1, <1>2 DEF PageTypes
<1>5. PICK b \in agents' \cup {NoAgent} :
        IF active = a THEN SwitchedTo(b)
        ELSE b = active /\ UNCHANGED <<active, drafted, chat, tail, blurred, reads>>
  <2>1. CASE active = a
    <3>1. \E b \in agents' \cup {NoAgent} : SwitchedTo(b)
      BY <1>1, <2>1 DEF DeleteAgent
    <3> QED
      BY <2>1, <3>1
  <2>2. CASE active # a
    <3>1. UNCHANGED <<active, drafted, chat, tail, blurred, reads>>
      BY <1>1, <2>2 DEF DeleteAgent
    <3>2. active \in agents' \cup {NoAgent}
      BY <1>1, <1>2, <2>2 DEF PageSelects
    <3> QED
      BY <2>2, <3>1, <3>2
  <2> QED
    BY <2>1, <2>2
<1>6. agents' \subseteq Agents /\ b \in Agents \cup {NoAgent}
  BY <1>1, <1>2 DEF PageTypes
<1>7. /\ chat' \in Seq(BubbleSet) /\ tail' \subseteq Messages /\ drafted' \in BOOLEAN
      /\ blurred' \in BOOLEAN /\ reads' \subseteq ReadSet /\ chat' \in {chat, <<>>}
      /\ active' = b /\ (active' = NoAgent /\ ~blurred' => chat' = <<>>)
      /\ \A r \in reads' : r \in reads \/ (r = Reading(b, "load", FALSE, NoTurnToTell(b)) /\ b # NoAgent)
      /\ PageChat' /\ TailIsOfAgent'
  <2>1. CASE active = a
    <3>1. SwitchedTo(b)
      BY <1>5, <2>1
    <3> QED
      BY <1>1, <1>6, <3>1, ViewMoves
  <2>2. CASE active # a
    <3>1. /\ b = active /\ active' = active /\ drafted' = drafted /\ chat' = chat /\ tail' = tail
          /\ blurred' = blurred /\ reads' = reads
      BY <1>5, <2>2
    <3>2. TailIsOfAgent'
      BY <1>1, <3>1, PagePartsStay
    <3>3. PageChat'
      <4>1. active # NoAgent => kept'[active] = kept[active]
        BY <1>3, <1>6, <2>2, <3>1
      <4> QED
        BY <1>1, <1>2, <3>1, <4>1 DEF PageChat, Awaiting, Refills
    <3>4. active' = NoAgent /\ ~blurred' => chat' = <<>>
      BY <1>2, <3>1 DEF PageSelects
    <3>5. /\ chat' \in Seq(BubbleSet) /\ tail' \subseteq Messages /\ drafted' \in BOOLEAN
          /\ blurred' \in BOOLEAN /\ reads' \subseteq ReadSet
      BY <1>2, <3>1 DEF PageTypes
    <3> QED
      BY <3>1, <3>2, <3>3, <3>4, <3>5
  <2> QED
    BY <2>1, <2>2
<1>8. PageTypes'
  BY <1>1, <1>2, <1>3, <1>4, <1>6, <1>7 DEF PageTypes
<1>9. PageReads'
  <2>1. \A r \in reads : r.agent \in Agents
    BY <1>2 DEF PageTypes, ReadSet
  <2>2. \A r \in reads : r.agent \in agents' => r.agent \in agents /\ kept'[r.agent] = kept[r.agent]
    BY <1>1, <1>3, <2>1
  <2> QED
    BY <1>1, <1>6, <1>7, <2>2, ReadsStay
<1>10. PageSelects'
  <2>1. \A c \in Agents : c \in agents' <=> listing'[c] \in {"idle", "running"}
    BY <1>1, <1>2, <1>4 DEF PageSelects
  <2>2. \A c : listing[c] # "absent" => listing'[c] # "absent"
    BY <1>4
  <2> QED
    BY <1>1, <1>6, <1>7, <2>1, <2>2, SelectionMoves
<1>11. PageStreams' /\ WindowIsOfStream'
  BY <1>1, PagePartsStay
<1>12. UpTo(<<>>, sent.count) /\ Ascending(<<>>)
  BY DEF UpTo, Ascending
<1>13. PageKnown'
  <2>1. \A c \in Agents : UpTo(kept'[c], sent.count) /\ serving[c] <= sent.count
    BY <1>2, <1>3, <1>12 DEF PageKnown
  <2>2. \A i \in 1 .. Len(chat') : chat'[i].message <= sent.count
    <3>1. CASE chat' = chat
      BY <1>2, <3>1 DEF PageKnown
    <3>2. CASE chat' = <<>>
      BY <3>2
    <3> QED
      BY <1>7, <3>1, <3>2
  <2> QED
    BY <1>1, <1>2, <2>1, <2>2 DEF PageKnown
<1>14. PageNumbers'
  <2> SUFFICES ASSUME NEW c \in Agents
               PROVE  /\ Ascending(kept'[c])
                      /\ serving[c] # NoMessage =>
                           /\ \A i \in 1 .. Len(kept'[c]) : kept'[c][i] < serving[c]
                           /\ serving[c] = mine.message => c = mine.agent
    BY <1>1 DEF PageNumbers
  <2>1. CASE c = a
    BY <1>1, <1>3, <1>12, <2>1
  <2>2. CASE c # a
    BY <1>2, <1>3, <2>2 DEF PageNumbers
  <2> QED
    BY <2>1, <2>2
<1> QED
  BY <1>7, <1>8, <1>9, <1>10, <1>11, <1>13, <1>14 DEF PageInv

\* A list that is asked for again shows the agents there are.
LEMMA RefreshListInv == ASSUME PageInv, RefreshList PROVE PageInv'
<1>1. /\ listing' = [a \in Agents |-> IF a \notin agents THEN listing[a]
                                   ELSE IF serving[a] # NoMessage THEN "running" ELSE "idle"]
      /\ UNCHANGED <<agents, kept, serving, active, drafted, chat, tail, window, mine, sent, reads,
                    blurred, late>>
  BY DEF RefreshList, serverVars
<1>2. PageTypes /\ PageSelects /\ PageReads
  BY DEF PageInv
<1>3. /\ listing' \in [Agents -> {"absent", "idle", "running", "deleted"}]
      /\ \A a \in Agents : a \notin agents => listing'[a] = listing[a]
      /\ \A a \in agents : listing'[a] \in {"idle", "running"}
  BY <1>1, <1>2 DEF PageTypes
<1>4. PageTypes'
  BY <1>1, <1>2, <1>3 DEF PageTypes
<1>5. PageSelects'
  <2>1. ASSUME NEW b \in Agents, listing[b] # "absent" PROVE listing'[b] # "absent"
    BY <1>3, <2>1
  <2>2. \A r \in reads : r.agent \in Agents
    BY <1>2 DEF PageTypes, ReadSet
  <2>3. mine.agent \in Agents \cup {NoAgent}
    BY <1>2 DEF PageTypes, Streams
  <2>4. (\A r \in reads : listing'[r.agent] # "absent")
        /\ (mine.agent # NoAgent => listing'[mine.agent] # "absent")
    BY <1>2, <2>1, <2>2, <2>3 DEF PageSelects
  <2>5. \A a \in Agents : a \in agents <=> listing'[a] \in {"idle", "running"}
    BY <1>2, <1>3 DEF PageSelects
  <2> QED
    BY <1>1, <1>2, <2>4, <2>5 DEF PageSelects
<1>6. PageReads'
  BY <1>1, <1>2 DEF PageReads
<1>7. PageKnown' /\ PageNumbers' /\ PageStreams' /\ WindowIsOfStream' /\ PageChat' /\ TailIsOfAgent'
  BY <1>1, PagePartsStay
<1> QED
  BY <1>4, <1>5, <1>6, <1>7 DEF PageInv

\* Live events are those of the agent in view.
LEMMA LiveEventInv == ASSUME PageInv, NEW what, LiveEvent(what) PROVE PageInv'
<1>1. /\ mine.at \in {"open", "answered", "failed"} /\ mine.agent = active
      /\ tail' = tail \cup {mine.message} /\ window' \in {mine.message, NoMessage, window}
      /\ UNCHANGED <<agents, kept, serving, listing, active, drafted, chat, mine, sent, reads, blurred, late>>
  BY DEF LiveEvent, serverVars, InView
<1>2. PageTypes /\ PageSelects /\ PageReads /\ PageStreams /\ WindowIsOfStream
  BY DEF PageInv
<1>3. mine.message \in Messages
  <2>1. mine.message # NoMessage
    BY <1>1, <1>2 DEF PageStreams, NoStream
  <2> QED
    BY <1>2, <2>1 DEF PageTypes, Streams
<1>4. PageTypes'
  BY <1>1, <1>2, <1>3 DEF PageTypes
<1>5. PageSelects' /\ PageReads'
  BY <1>1, <1>2 DEF PageSelects, PageReads
<1>6. PageKnown' /\ PageNumbers' /\ PageStreams' /\ PageChat'
  BY <1>1, PagePartsStay
<1>7. TailIsOfAgent'
  BY <1>1 DEF TailIsOfAgent
<1>8. WindowIsOfStream'
  BY <1>1, <1>2 DEF WindowIsOfStream
<1> QED
  BY <1>4, <1>5, <1>6, <1>7, <1>8 DEF PageInv

\* What is known stays known when more is sent.
LEMMA UpToMore ==
  ASSUME NEW s \in Seq(Messages), NEW n \in Nat, NEW k \in Nat, n <= k, UpTo(s, n)
  PROVE  UpTo(s, k)
<1> SUFFICES ASSUME NEW i \in 1 .. Len(s) PROVE s[i] <= k
  BY DEF UpTo
<1>1. s[i] \in Messages /\ s[i] <= n
  BY DEF UpTo
<1>2. s[i] \in Nat
  BY <1>1 DEF Messages
<1> QED
  BY <1>1, <1>2
LEMMA AtMostMore == ASSUME NEW i \in Nat, NEW n \in Nat, i <= n PROVE i <= n + 1 /\ i # n + 1
  OBVIOUS
LEMMA NextMessage ==
  ASSUME NEW n \in 0 .. MaxSent, n < MaxSent
  PROVE  /\ n \in Nat /\ n + 1 \in Nat /\ n <= n + 1 /\ n + 1 \in Messages /\ n + 1 \in 0 .. MaxSent
         /\ n + 1 # NoMessage
  BY PageBounds DEF Messages, NoMessage
LEMMA BelowNext ==
  ASSUME NEW s \in Seq(Messages), NEW n \in Nat, UpTo(s, n)
  PROVE  \A i \in 1 .. Len(s) : s[i] < n + 1
<1> SUFFICES ASSUME NEW i \in 1 .. Len(s) PROVE s[i] < n + 1
  OBVIOUS
<1>1. s[i] \in Messages /\ s[i] <= n
  BY DEF UpTo
<1>2. s[i] \in Nat
  BY <1>1 DEF Messages
<1> QED
  BY <1>1, <1>2
LEMMA GrowsUpTo ==
  ASSUME NEW c \in Seq(BubbleSet), NEW n \in Nat, NEW k \in Nat, NEW b \in BubbleSet, n <= k,
         b.message <= k, \A i \in 1 .. Len(c) : c[i].message <= n
  PROVE  \A i \in 1 .. Len(Append(c, b)) : Append(c, b)[i].message <= k
<1> DEFINE d == Append(c, b)
<1>1. /\ Len(d) = Len(c) + 1 /\ Len(c) \in Nat /\ d[Len(c) + 1] = b
      /\ \A i \in 1 .. Len(c) : d[i] = c[i]
  OBVIOUS
<1> HIDE DEF d
<1>2. ASSUME NEW i \in 1 .. Len(c) PROVE c[i].message <= k
  <2>1. c[i] \in BubbleSet /\ c[i].message <= n
    OBVIOUS
  <2>2. c[i].message \in Nat
    BY <2>1 DEF BubbleSet, Messages
  <2> QED
    BY <2>1, <2>2
<1>3. \A i \in 1 .. Len(d) : i \in 1 .. Len(c) \/ i = Len(c) + 1
  BY <1>1
<1> QED
  BY <1>1, <1>2, <1>3 DEF d

\* A message is sent to the agent in view.
LEMMA SendMessageInv == ASSUME PageInv, NEW compact \in BOOLEAN, SendMessage(compact) PROVE PageInv'
<1>1. /\ PageTypes /\ PageKnown /\ PageSelects /\ PageNumbers /\ PageStreams /\ PageReads /\ PageChat
      /\ TailIsOfAgent /\ WindowIsOfStream
  BY DEF PageInv
<1> DEFINE n == sent.count
           refused == serving[active] # NoMessage \/ (compact /\ kept[active] = <<>>)
<1>2. /\ active \in agents /\ mine.message = NoMessage /\ n < MaxSent
      /\ sent' = [count |-> n + 1,
                   compact |-> IF compact THEN sent.compact \cup {n + 1} ELSE sent.compact]
      /\ chat' = Append(chat, Said(n + 1)) /\ tail' = {} /\ window' = NoMessage
      /\ mine' = [message |-> n + 1, agent |-> active, at |-> IF refused THEN "refused" ELSE "open"]
      /\ serving' = IF refused THEN serving ELSE [serving EXCEPT ![active] = n + 1]
      /\ reads' = {[r EXCEPT !.pure = @ /\ r.agent # active] : r \in reads}
      /\ agents' = agents /\ kept' = kept /\ listing' = listing /\ active' = active
      /\ drafted' = drafted /\ blurred' = blurred /\ late' = late
  BY DEF SendMessage, ChatBusy, serverVars
<1>3. /\ n \in 0 .. MaxSent /\ n \in Nat /\ n + 1 \in Nat /\ n <= n + 1 /\ n + 1 \in Messages
      /\ n + 1 \in 0 .. MaxSent /\ n + 1 # NoMessage
  <2>1. n \in 0 .. MaxSent
    BY <1>1 DEF PageTypes
  <2> QED
    BY <1>2, <2>1, NextMessage
<1> HIDE DEF n, refused
<1>4. PICK m : m = n + 1
  OBVIOUS
<1>5. /\ sent'.count = m /\ sent'.compact = (IF compact THEN sent.compact \cup {m} ELSE sent.compact)
      /\ chat' = Append(chat, Said(m)) /\ mine'.message = m /\ mine'.agent = active
      /\ mine'.at = IF refused THEN "refused" ELSE "open"
  BY <1>2, <1>4
<1>6. /\ active \in Agents /\ active # NoAgent /\ m \in Messages /\ m \in Nat /\ m # NoMessage
      /\ chat \in Seq(BubbleSet) /\ Said(m) \in BubbleSet /\ Said(m).message = m
      /\ mine = NoStream /\ mine.agent = NoAgent
  <2>1. active \in Agents /\ chat \in Seq(BubbleSet) /\ mine = NoStream
    BY <1>1, <1>2 DEF PageTypes, PageStreams
  <2>2. active # NoAgent /\ mine.agent = NoAgent
    BY <2>1, NoneIsNone DEF NoStream
  <2> QED
    BY <1>3, <1>4, <2>1, <2>2, BubbleParts
<1>7. \A r \in reads' : \E q \in reads :
        /\ r.agent = q.agent /\ r.why = q.why /\ r.resync = q.resync /\ r.at = q.at /\ r.got = q.got
        /\ r \in ReadSet /\ (r.pure => q.pure /\ q.agent # active)
  <2> TAKE r \in reads'
  <2>1. PICK q \in reads : r = [q EXCEPT !.pure = @ /\ q.agent # active]
    BY <1>2
  <2>2. q \in ReadSet /\ (q.pure /\ q.agent # active) \in BOOLEAN
    BY <1>1 DEF PageTypes
  <2>3. /\ r.agent = q.agent /\ r.why = q.why /\ r.resync = q.resync /\ r.at = q.at
        /\ r.got = q.got /\ r \in ReadSet /\ (r.pure => q.pure /\ q.agent # active)
    BY <2>1, <2>2 DEF ReadSet
  <2> QED
    BY <2>3
<1>8. \A q \in reads : \E r \in reads' : r.agent = q.agent /\ r.why = q.why /\ r.resync = q.resync
  <2> SUFFICES ASSUME NEW q \in reads
               PROVE  \E r \in reads' : r.agent = q.agent /\ r.why = q.why /\ r.resync = q.resync
    OBVIOUS
  <2>1. [q EXCEPT !.pure = @ /\ q.agent # active] \in reads'
    BY <1>2
  <2>2. q \in ReadSet
    BY <1>1 DEF PageTypes
  <2> QED
    BY <2>1, <2>2 DEF ReadSet
<1>9. PageTypes'
  <2>1. mine' \in Streams
    BY <1>2, <1>4, <1>6 DEF Streams, Ats
  <2>2. sent' \in [count : 0 .. MaxSent, compact : SUBSET Messages]
    <3>1. sent.compact \in SUBSET Messages
      BY <1>1 DEF PageTypes
    <3>2. sent'.compact \in SUBSET Messages
      BY <1>5, <1>6, <3>1
    <3>3. sent' = [count |-> n + 1, compact |-> sent'.compact]
      BY <1>2
    <3> QED
      BY <1>3, <3>2, <3>3
  <2>3. serving' \in [Agents -> Messages \cup {NoMessage}]
    BY <1>1, <1>2, <1>4, <1>6 DEF PageTypes
  <2>4. chat' \in Seq(BubbleSet)
    BY <1>5, <1>6
  <2>5. reads' \subseteq ReadSet
    BY <1>7
  <2> QED
    BY <1>1, <1>2, <2>1, <2>2, <2>3, <2>4, <2>5 DEF PageTypes
<1>10. \A a \in Agents : /\ kept[a] \in Seq(Messages) /\ UpTo(kept[a], n) /\ serving[a] \in Nat
                          /\ serving[a] <= n
  <2>1. \A a \in Agents : kept[a] \in Seq(Messages) /\ serving[a] \in Messages \cup {NoMessage}
    BY <1>1 DEF PageTypes
  <2>2. Messages \cup {NoMessage} \subseteq Nat
    BY DEF Messages, NoMessage
  <2> QED
    BY <1>1, <2>1, <2>2 DEF PageKnown, n
<1>11. \A a \in Agents : serving'[a] = serving[a] \/ (serving'[a] = m /\ a = active /\ ~refused)
  BY <1>1, <1>2, <1>4 DEF PageTypes
<1>12. PageKnown'
  <2>1. ASSUME NEW a \in Agents PROVE UpTo(kept[a], m) /\ serving'[a] <= m
    <3>1. UpTo(kept[a], m)
      BY <1>3, <1>4, <1>10, UpToMore
    <3>2. serving[a] <= m /\ m <= m
      BY <1>4, <1>3, <1>10, AtMostMore
    <3> QED
      BY <1>11, <3>1, <3>2
  <2>2. \A i \in 1 .. Len(chat) : chat[i].message <= n
    BY <1>1 DEF PageKnown, n
  <2>3. m <= m /\ n <= m
    BY <1>3, <1>4
  <2>4. \A i \in 1 .. Len(Append(chat, Said(m))) : Append(chat, Said(m))[i].message <= m
    BY <1>3, <1>6, <2>2, <2>3, GrowsUpTo
  <2>5. \A i \in 1 .. Len(chat') : chat'[i].message <= m
    BY <1>5, <2>4
  <2> QED
    BY <1>2, <1>5, <2>1, <2>3, <2>5 DEF PageKnown
<1>13. PageSelects'
  <2>1. \A r \in reads' : listing[r.agent] # "absent"
    BY <1>1, <1>7 DEF PageSelects
  <2>2. listing[active] # "absent"
    <3>1. listing[active] \in {"idle", "running"}
      BY <1>1, <1>2, <1>6 DEF PageSelects
    <3> QED
      BY <3>1
  <2> QED
    BY <1>1, <1>2, <1>5, <1>6, <2>1, <2>2 DEF PageSelects
<1>14. PageNumbers'
  <2> SUFFICES ASSUME NEW a \in Agents
               PROVE  /\ Ascending(kept[a])
                      /\ serving'[a] # NoMessage =>
                           /\ \A i \in 1 .. Len(kept[a]) : kept[a][i] < serving'[a]
                           /\ serving'[a] = m => a = active
    BY <1>2, <1>5 DEF PageNumbers
  <2>1. /\ Ascending(kept[a])
        /\ serving[a] # NoMessage => \A i \in 1 .. Len(kept[a]) : kept[a][i] < serving[a]
    BY <1>1 DEF PageNumbers
  <2>2. serving[a] # m
    BY <1>3, <1>4, <1>10, AtMostMore
  <2>3. \A i \in 1 .. Len(kept[a]) : kept[a][i] < m
    BY <1>3, <1>4, <1>10, BelowNext
  <2>4. CASE serving'[a] = serving[a]
    BY <2>1, <2>2, <2>4
  <2>5. CASE serving'[a] = m /\ a = active
    BY <2>1, <2>3, <2>5
  <2> QED
    BY <1>11, <2>4, <2>5
<1>15. PageStreams'
  <2>1. mine'.at # "closed"
    BY <1>5
  <2> QED
    BY <1>5, <1>6, <2>1 DEF PageStreams
<1>16. PageReads'
  <2> SUFFICES ASSUME NEW r \in reads' PROVE ReadTells(r, agents, kept, mine', late, m)
    BY <1>2, <1>5 DEF PageReads
  <2>1. PICK q \in reads :
          /\ r.agent = q.agent /\ r.at = q.at /\ r.got = q.got /\ (r.pure => q.pure /\ q.agent # active)
    BY <1>7
  <2>2. ReadTells(q, agents, kept, mine, late, n) /\ q.got \in Seq(Messages)
    BY <1>1 DEF PageReads, n, PageTypes, ReadSet
  <2>3. UpTo(q.got, n) /\ Ascending(q.got)
    BY <2>2 DEF ReadTells
  <2>4. UpTo(q.got, m)
    BY <1>3, <1>4, <2>2, <2>3, UpToMore
  <2>5. r.pure => r.agent # mine'.agent
    BY <1>5, <2>1
  <2> QED
    BY <2>1, <2>2, <2>3, <2>4, <2>5 DEF ReadTells
<1>17. PageChat'
  <2> SUFFICES ASSUME ~blurred, ~Awaiting'
               PROVE  ChatFits(chat', late, kept[active], mine', active, sent'.compact)
    BY <1>2 DEF PageChat
  <2>1. ~Awaiting
    <3> SUFFICES ASSUME NEW q \in reads, Refills(q) PROVE FALSE
      BY DEF Awaiting
    <3>1. PICK r \in reads' : r.agent = q.agent /\ r.why = q.why /\ r.resync = q.resync
      BY <1>8
    <3>2. Refills(r)'
      BY <1>2, <3>1 DEF Refills
    <3> QED
      BY <3>2 DEF Awaiting
  <2>2. Tells(chat, late, kept[active], {}, {})
    BY <1>1, <1>6, <2>1 DEF PageChat, ChatFits
  <2>3. \A i \in 1 .. Len(chat) : chat[i].message <= n
    BY <1>1 DEF PageKnown, n
  <2>4. EndsWith(chat', m) /\ Tells(chat', late, kept[active], {}, {Said(m)})
    BY <1>3, <1>4, <1>5, <1>6, <2>2, <2>3, FitsSent
  <2>5. mine'.at \in {"refused", "open"}
    BY <1>5
  <2> QED
    BY <1>5, <2>4, <2>5 DEF ChatFits
<1>18. TailIsOfAgent' /\ WindowIsOfStream'
  BY <1>2 DEF TailIsOfAgent, WindowIsOfStream
<1> QED
  BY <1>9, <1>12, <1>13, <1>14, <1>15, <1>16, <1>17, <1>18 DEF PageInv

\* The turn is told; its answer counts if it is in view.
LEMMA TurnChunkInv == ASSUME PageInv, TurnChunk PROVE PageInv'
<1>1. /\ PageTypes /\ PageKnown /\ PageSelects /\ PageNumbers /\ PageStreams /\ PageReads /\ PageChat
      /\ TailIsOfAgent /\ WindowIsOfStream
  BY DEF PageInv
<1> DEFINE m == mine.message
           received == InView /\ mine.at = "answered"
           q == Reading(mine.agent, "compact", TRUE, TRUE)
<1>2. /\ mine.at \in {"answered", "failed"}
      /\ mine' = [mine EXCEPT !.at = IF received THEN "received" ELSE "unheard"]
      /\ window' = (IF InView THEN NoMessage ELSE window)
      /\ IF ~received THEN chat' = chat /\ reads' = reads
         ELSE IF IsCompact(m) THEN reads' = reads \cup {q} /\ chat' = chat
         ELSE chat' = Append(chat, Replied(m)) /\ reads' = reads
      /\ agents' = agents /\ kept' = kept /\ serving' = serving /\ listing' = listing
      /\ active' = active /\ drafted' = drafted /\ tail' = tail /\ sent' = sent
      /\ blurred' = blurred /\ late' = late
  BY DEF TurnChunk, serverVars
<1>3. /\ mine \in Streams /\ mine.message \in Messages \cup {NoMessage} /\ chat \in Seq(BubbleSet)
      /\ mine.agent \in Agents /\ m \in Messages
  <2>1. mine \in Streams /\ chat \in Seq(BubbleSet)
    BY <1>1 DEF PageTypes
  <2>2. mine.message # NoMessage
    BY <1>1, <1>2 DEF PageStreams, NoStream
  <2>3. mine.agent # NoAgent
    BY <1>1, <2>2 DEF PageStreams
  <2> QED
    BY <2>1, <2>2, <2>3 DEF Streams
<1>4. /\ mine'.message = m /\ mine'.agent = mine.agent
      /\ mine'.at = (IF received THEN "received" ELSE "unheard") /\ mine' \in Streams
  BY <1>2, <1>3 DEF Streams, Ats
<1>5. /\ q \in ReadSet /\ q.agent = mine.agent /\ q.why = "compact" /\ q.at = "asked" /\ q.got = <<>>
  <2>1. <<>> \in Seq(Messages)
    OBVIOUS
  <2> QED
    BY <1>3, <2>1 DEF Reading, ReadSet
<1> HIDE DEF m, q
<1>6. /\ \A r \in reads' : r \in reads \/ (r = q /\ received)
      /\ reads \subseteq reads'
      /\ (chat' = chat \/ (chat' = Append(chat, Replied(m)) /\ received /\ ~IsCompact(m)))
  BY <1>2 DEF m
<1>7. Replied(m) \in BubbleSet /\ Replied(m).message = m /\ m \in Nat
  BY <1>3, BubbleParts
<1> HIDE DEF received
<1>8. PageTypes'
  <2>0. reads \subseteq ReadSet /\ Append(chat, Replied(m)) \in Seq(BubbleSet)
    BY <1>1, <1>3, <1>7 DEF PageTypes
  <2>1. chat' \in Seq(BubbleSet) /\ reads' \subseteq ReadSet
    BY <1>3, <1>5, <1>6, <2>0
  <2> QED
    BY <1>1, <1>2, <1>4, <2>1 DEF PageTypes
<1>9. PageKnown'
  <2>1. sent.count \in 0 .. MaxSent /\ m <= sent.count
    BY <1>1 DEF PageTypes, PageKnown, m
  <2>2. sent.count \in Nat /\ sent.count <= sent.count
    BY <2>1, PageBounds
  <2>3. \A i \in 1 .. Len(chat) : chat[i].message <= sent.count
    BY <1>1 DEF PageKnown
  <2>4. \A i \in 1 .. Len(Append(chat, Replied(m))) : Append(chat, Replied(m))[i].message <= sent.count
    BY <1>3, <1>7, <2>1, <2>2, <2>3, GrowsUpTo
  <2>5. \A i \in 1 .. Len(chat') : chat'[i].message <= sent.count
    BY <1>6, <2>3, <2>4
  <2> QED
    BY <1>1, <1>2, <1>4, <2>1, <2>5 DEF PageKnown
<1>10. PageSelects'
  <2>1. \A r \in reads' : listing[r.agent] # "absent"
    <3>1. mine.agent # NoAgent
      BY <1>3, NoneIsNone
    <3> QED
      BY <1>1, <1>5, <1>6, <3>1 DEF PageSelects
  <2>2. active = NoAgent /\ ~blurred => chat' = <<>>
    <3>1. received => active # NoAgent
      BY <1>3, NoneIsNone DEF received, InView
    <3> QED
      BY <1>1, <1>6, <3>1 DEF PageSelects
  <2> QED
    BY <1>1, <1>2, <1>4, <2>1, <2>2 DEF PageSelects
<1>11. PageNumbers'
  BY <1>1, <1>2, <1>4 DEF PageNumbers, m
<1>12. PageStreams'
  <2>1. m # NoMessage /\ mine.agent # NoAgent /\ mine'.at # "closed"
    BY <1>3, <1>4, NoneIsNone
  <2> QED
    BY <1>4, <2>1 DEF PageStreams
<1>13. PageReads'
  <2> SUFFICES ASSUME NEW r \in reads' PROVE ReadTells(r, agents, kept, mine', late, sent.count)
    BY <1>2 DEF PageReads
  <2>1. mine'.at \notin {"open", "answered"}
    BY <1>4
  <2>2. CASE r \in reads
    <3>1. ReadTells(r, agents, kept, mine, late, sent.count)
      BY <1>1, <2>2 DEF PageReads
    <3> QED
      BY <2>1, <3>1 DEF ReadTells
  <2>3. CASE r \notin reads
    <3>1. r.at = "asked" /\ r.got = <<>>
      BY <1>5, <1>6, <2>3
    <3> QED
      BY <2>1, <3>1, NewReadTells
  <2> QED
    BY <2>2, <2>3
<1>14. PageChat'
  <2> SUFFICES ASSUME active # NoAgent, ~blurred, ~Awaiting'
               PROVE  ChatFits(chat', late, kept[active], mine', active, sent.compact)
    BY <1>2 DEF PageChat
  <2>1. ~Awaiting
    BY <1>2, <1>6 DEF Awaiting, Refills
  <2>2. ChatFits(chat, late, kept[active], mine, active, sent.compact)
    BY <1>1, <2>1 DEF PageChat
  <2>3. mine'.at \notin {"open", "answered"}
    BY <1>4
  <2>4. CASE mine.agent # active
    <3>1. chat' = chat
      BY <1>6, <2>4 DEF received, InView
    <3>2. Tells(chat, late, kept[active], {}, {})
      BY <2>2, <2>4 DEF ChatFits
    <3> QED
      BY <1>4, <2>4, <3>1, <3>2 DEF ChatFits
  <2>5. CASE mine.agent = active /\ received /\ m \notin sent.compact
    <3>1. chat' = Append(chat, Replied(m))
      BY <1>2, <2>5 DEF IsCompact
    <3>2. EndsWith(chat, m) /\ Tells(chat, late, kept[active], {Replied(m)}, {})
      BY <2>2, <2>5 DEF ChatFits, received, m
    <3>3. Tells(chat', late, kept[active], {}, {})
      BY <1>3, <3>1, <3>2, FitsAnswered
    <3> QED
      BY <2>3, <3>3 DEF ChatFits
  <2>6. CASE mine.agent = active /\ ~(received /\ m \notin sent.compact)
    <3>1. ~(mine'.at = "received" /\ mine'.message \notin sent.compact) /\ mine'.agent = active
      BY <1>4, <2>6
    <3> QED
      BY <2>3, <3>1 DEF ChatFits
  <2> QED
    BY <2>4, <2>5, <2>6
<1>15. TailIsOfAgent'
  BY <1>1, <1>2, <1>4, <1>6 DEF TailIsOfAgent, m
<1>16. WindowIsOfStream'
  BY <1>1, <1>2, <1>4 DEF WindowIsOfStream, m
<1> QED
  BY <1>8, <1>9, <1>10, <1>11, <1>12, <1>13, <1>14, <1>15, <1>16 DEF PageInv

\* The stream is gone, and the settled turn is read.
LEMMA StreamClosesInv == ASSUME PageInv, StreamCloses PROVE PageInv'
<1>1. /\ PageTypes /\ PageKnown /\ PageSelects /\ PageNumbers /\ PageStreams /\ PageReads /\ PageChat
      /\ TailIsOfAgent /\ WindowIsOfStream
  BY DEF PageInv
<1> DEFINE q == FinalRead
           resync == mine.at # "received" \/ IsCompact(mine.message)
<1>2. /\ mine.message # NoMessage /\ mine' = NoStream /\ window' = NoMessage /\ reads' = reads \cup {q}
      /\ agents' = agents /\ kept' = kept /\ serving' = serving /\ listing' = listing
      /\ active' = active /\ drafted' = drafted /\ chat' = chat /\ tail' = tail /\ sent' = sent
      /\ blurred' = blurred /\ late' = late
  BY DEF StreamCloses, serverVars
<1>3. mine'.message = NoMessage /\ mine'.agent = NoAgent /\ mine'.at = "closed" /\ mine' \in Streams
  BY <1>2 DEF NoStream, Streams, Ats
<1>4. mine.agent \in Agents /\ mine.agent # NoAgent
  BY <1>1, <1>2 DEF PageTypes, PageStreams, Streams
<1>5. /\ q \in ReadSet /\ q.agent = mine.agent /\ q.why = "final" /\ q.at = "asked" /\ q.got = <<>>
      /\ q.resync = resync
  <2>1. <<>> \in Seq(Messages) /\ resync \in BOOLEAN
    OBVIOUS
  <2> HIDE DEF resync
  <2>2. q = [agent |-> mine.agent, why |-> "final", resync |-> resync, pure |-> TRUE, at |-> "asked",
             got |-> <<>>]
    BY DEF FinalRead, Reading, resync
  <2> QED
    BY <1>4, <2>1, <2>2 DEF ReadSet
<1> HIDE DEF q
<1>6. PageTypes'
  BY <1>1, <1>2, <1>3, <1>5 DEF PageTypes
<1>7. PageKnown'
  <2>1. NoMessage <= sent.count
    <3>1. sent.count \in 0 .. MaxSent
      BY <1>1 DEF PageTypes
    <3> QED
      BY <3>1, PageBounds DEF NoMessage
  <2> QED
    BY <1>1, <1>2, <1>3, <2>1 DEF PageKnown
<1>8. PageSelects'
  BY <1>1, <1>2, <1>3, <1>4, <1>5 DEF PageSelects
<1>9. PageNumbers'
  BY <1>1, <1>2, <1>3 DEF PageNumbers
<1>10. PageStreams'
  BY <1>2, <1>3 DEF PageStreams
<1>11. PageReads'
  <2> SUFFICES ASSUME NEW r \in reads' PROVE ReadTells(r, agents, kept, mine', late, sent.count)
    BY <1>2 DEF PageReads
  <2>1. mine'.at \notin {"open", "answered"}
    BY <1>3
  <2>2. CASE r \in reads
    <3>1. ReadTells(r, agents, kept, mine, late, sent.count)
      BY <1>1, <2>2 DEF PageReads
    <3> QED
      BY <2>1, <3>1 DEF ReadTells
  <2>3. CASE r \notin reads
    <3>1. r.at = "asked" /\ r.got = <<>>
      BY <1>2, <1>5, <2>3
    <3> QED
      BY <2>1, <3>1, NewReadTells
  <2> QED
    BY <2>2, <2>3
<1>12. PageChat'
  <2> SUFFICES ASSUME active # NoAgent, ~blurred, ~Awaiting'
               PROVE  ChatFits(chat, late, kept[active], mine', active, sent.compact)
    BY <1>2 DEF PageChat
  <2>1. ~Awaiting /\ ~(mine.agent = active /\ resync)
    BY <1>2, <1>5 DEF Awaiting, Refills
  <2>2. ChatFits(chat, late, kept[active], mine, active, sent.compact)
    BY <1>1, <2>1 DEF PageChat
  <2>3. Tells(chat, late, kept[active], {}, {})
    BY <2>1, <2>2 DEF ChatFits, IsCompact
  <2> QED
    BY <1>3, <2>3 DEF ChatFits
<1>13. TailIsOfAgent'
  <2>1. NoMessage \notin tail
    BY <1>1, NoneIsNone DEF PageTypes
  <2> QED
    BY <1>2, <1>3, <2>1 DEF TailIsOfAgent
<1>14. WindowIsOfStream'
  BY <1>2 DEF WindowIsOfStream
<1> QED
  BY <1>6, <1>7, <1>8, <1>9, <1>10, <1>11, <1>12, <1>13, <1>14 DEF PageInv

\* The server answers a read with what it keeps.
LEMMA AnswerReadInv == ASSUME PageInv, NEW r \in reads, AnswerRead(r) PROVE PageInv'
<1>1. /\ PageTypes /\ PageKnown /\ PageSelects /\ PageNumbers /\ PageReads /\ PageChat /\ TailIsOfAgent
  BY DEF PageInv
<1> DEFINE q == [r EXCEPT !.at = "here", !.got = kept[r.agent]]
<1>2. /\ r.agent \in agents /\ reads' = (reads \ {r}) \cup {q}
      /\ agents' = agents /\ kept' = kept /\ serving' = serving /\ listing' = listing
      /\ active' = active /\ drafted' = drafted /\ chat' = chat /\ tail' = tail /\ window' = window
      /\ mine' = mine /\ sent' = sent /\ blurred' = blurred /\ late' = late
  BY DEF AnswerRead, serverVars
<1>3. r \in ReadSet /\ r.agent \in Agents /\ kept[r.agent] \in Seq(Messages)
  BY <1>1 DEF PageTypes, ReadSet
<1>4. /\ q \in ReadSet /\ q.agent = r.agent /\ q.why = r.why /\ q.resync = r.resync /\ q.pure = r.pure
      /\ q.got = kept[r.agent]
  BY <1>3 DEF ReadSet
<1> HIDE DEF q
<1>5. PageTypes'
  BY <1>1, <1>2, <1>4 DEF PageTypes
<1>6. PageSelects'
  BY <1>1, <1>2, <1>4 DEF PageSelects
<1>7. PageKnown' /\ PageNumbers' /\ PageStreams' /\ WindowIsOfStream'
  BY <1>2, PagePartsStay
<1>8. PageReads'
  <2> SUFFICES ASSUME NEW s \in reads' PROVE ReadTells(s, agents, kept, mine, late, sent.count)
    BY <1>2 DEF PageReads
  <2>1. CASE s \in reads
    BY <1>1, <2>1 DEF PageReads
  <2>2. CASE s \notin reads
    <3>1. s = q
      BY <1>2, <2>2
    <3>2. UpTo(q.got, sent.count) /\ Ascending(q.got)
      BY <1>1, <1>3, <1>4 DEF PageKnown, PageNumbers
    <3>3. ReadTells(r, agents, kept, mine, late, sent.count)
      BY <1>1 DEF PageReads
    <3> QED
      BY <1>4, <3>1, <3>2, <3>3 DEF ReadTells
  <2> QED
    BY <2>1, <2>2
<1>9. Awaiting => Awaiting'
  <2> SUFFICES ASSUME NEW s \in reads, Refills(s) PROVE Awaiting'
    BY DEF Awaiting
  <2>1. CASE s = r
    BY <1>2, <1>4, <2>1 DEF Awaiting, Refills
  <2>2. CASE s # r
    BY <1>2, <2>2 DEF Awaiting, Refills
  <2> QED
    BY <2>1, <2>2
<1>10. PageChat'
  BY <1>1, <1>2, <1>9 DEF PageChat
<1>11. TailIsOfAgent'
  <2> SUFFICES ASSUME NEW s \in reads, s.agent = active, s.why = "load"
               PROVE  \E t \in reads' : t.agent = active /\ t.why = "load"
    BY <1>1, <1>2 DEF TailIsOfAgent
  <2>1. CASE s = r
    BY <1>2, <1>4, <2>1
  <2>2. CASE s # r
    BY <1>2, <2>2
  <2> QED
    BY <2>1, <2>2
<1> QED
  BY <1>5, <1>6, <1>7, <1>8, <1>10, <1>11 DEF PageInv

\* What a read that was not overtaken got fits the agent in view.
LEMMA FilledFits ==
  ASSUME PageInv, NEW r \in reads, r.at = "here", chat' = Bubbles(r.got)
  PROVE  /\ chat' \in Seq(BubbleSet) /\ \A i \in 1 .. Len(chat') : chat'[i].message <= sent.count
         /\ r.pure /\ r.agent = active /\ active # NoAgent =>
              ChatFits(chat', late, kept[active], mine, active, sent.compact)
<1>1. PageTypes /\ PageReads /\ PageSelects
  BY DEF PageInv
<1>2. r.got \in Seq(Messages) /\ ReadTells(r, agents, kept, mine, late, sent.count)
  BY <1>1 DEF PageTypes, PageReads, ReadSet
<1>3. UpTo(r.got, sent.count) /\ Ascending(r.got)
  BY <1>2 DEF ReadTells
<1>4. sent.count \in Nat
  <2>1. sent.count \in 0 .. MaxSent
    BY <1>1 DEF PageTypes
  <2> QED
    BY <2>1, PageBounds
<1>5. chat' \in Seq(BubbleSet) /\ \A i \in 1 .. Len(chat') : chat'[i].message <= sent.count
  BY <1>2, <1>3, <1>4, BubblesArePairs
<1>6. ASSUME r.pure, r.agent = active, active # NoAgent
      PROVE  ChatFits(chat', late, kept[active], mine, active, sent.compact)
  <2>1. active \in agents
    BY <1>1, <1>6 DEF PageSelects
  <2>2. /\ Left(Pairs(r.got), late) = Left(Pairs(kept[active]), late)
        /\ mine.agent = active => mine.at \notin {"open", "answered"}
    BY <1>2, <1>6, <2>1 DEF ReadTells
  <2> QED
    BY <1>2, <1>3, <2>2, FitsFilled
<1> QED
  BY <1>5, <1>6

\* A read comes back, or fails.
LEMMA ReadReturnsInv == ASSUME PageInv, NEW r \in reads, NEW fails \in BOOLEAN, ReadReturns(r, fails) PROVE PageInv'
<1>1. /\ PageTypes /\ PageKnown /\ PageSelects /\ PageStreams /\ PageReads /\ PageChat /\ TailIsOfAgent
  BY DEF PageInv
<1>2. /\ reads' = reads \ {r} /\ agents' = agents /\ kept' = kept /\ serving' = serving
      /\ listing' = listing /\ window' = window /\ mine' = mine /\ sent' = sent /\ late' = late
      /\ (fails \/ r.at = "here")
      /\ IF fails THEN ReadFailed(r) ELSE IF r.why = "load" THEN Loaded(r) ELSE Resynced(r)
  BY DEF ReadReturns, serverVars
<1>3. /\ r \in ReadSet /\ r.agent # NoAgent /\ r.pure \in BOOLEAN /\ chat \in Seq(BubbleSet)
      /\ tail \subseteq Messages /\ drafted \in BOOLEAN /\ blurred \in BOOLEAN
      /\ \A i \in 1 .. Len(chat) : chat[i].message <= sent.count
  BY <1>1, NoneIsNone DEF PageTypes, ReadSet, PageKnown
<1> DEFINE Comes ==
      /\ chat' \in Seq(BubbleSet) /\ tail' \subseteq Messages /\ drafted' \in BOOLEAN
      /\ blurred' \in BOOLEAN /\ active' \in {active, NoAgent}
      /\ \A i \in 1 .. Len(chat') : chat'[i].message <= sent.count
      /\ (active' = NoAgent /\ ~blurred' => chat' = <<>>) /\ PageChat' /\ TailIsOfAgent'
<1>4. ASSUME ~Refills(r), ~blurred', chat' = chat, active' = active, blurred' = blurred \/ blurred = FALSE
      PROVE  PageChat'
  <2>1. Awaiting => Awaiting'
    BY <1>2, <1>4 DEF Awaiting, Refills
  <2>2. ~blurred
    BY <1>4
  <2> QED
    BY <1>1, <1>2, <1>4, <2>1, <2>2 DEF PageChat
<1>5. ASSUME blurred' PROVE PageChat'
  BY <1>5 DEF PageChat
<1>6. ASSUME r.why # "load", active' = active, tail' \subseteq tail PROVE TailIsOfAgent'
  BY <1>1, <1>2, <1>6 DEF TailIsOfAgent
<1>7. ASSUME fails /\ r.why = "load" PROVE Comes
  <2>1. Deselected
    BY <1>2, <1>7 DEF ReadFailed
  <2>2. CASE active = NoAgent
    <3>1. /\ active' = active /\ drafted' = drafted /\ chat' = chat /\ tail' = tail
          /\ blurred' = blurred
      BY <2>1, <2>2 DEF Deselected
    <3>2. PageChat'
      BY <2>2, <3>1 DEF PageChat
    <3>3. TailIsOfAgent'
      <4>1. \A q \in reads : q.agent # active
        BY <1>1, <2>2, NoneIsNone DEF PageTypes, ReadSet
      <4> QED
        BY <1>1, <1>2, <3>1, <4>1 DEF TailIsOfAgent
    <3>4. active' = NoAgent /\ ~blurred' => chat' = <<>>
      BY <1>1, <3>1 DEF PageSelects
    <3>5. drafted' \in BOOLEAN /\ blurred' \in BOOLEAN
      BY <1>3, <3>1, Zenon
    <3> HIDE DEF PageChat, TailIsOfAgent
    <3> QED
      BY <1>3, <3>1, <3>2, <3>3, <3>4, <3>5
  <2>3. CASE active # NoAgent
    <3>1. active' = NoAgent /\ drafted' = FALSE /\ chat' = <<>> /\ tail' = {} /\ blurred' = FALSE
      BY <2>1, <2>3 DEF Deselected
    <3>2. PageChat' /\ TailIsOfAgent'
      BY <3>1 DEF PageChat, TailIsOfAgent
    <3>3. drafted' \in BOOLEAN /\ blurred' \in BOOLEAN
      BY <3>1, Zenon
    <3>4. chat' \in Seq(BubbleSet) /\ Len(chat') = 0
      BY <3>1
    <3> QED
      BY <3>1, <3>2, <3>3, <3>4
  <2> QED
    BY <2>2, <2>3
<1>8. ASSUME fails /\ r.why # "load" PROVE Comes
  <2>1. /\ blurred' = (blurred \/ (r.agent = active /\ r.why = "final" /\ r.resync))
        /\ active' = active /\ drafted' = drafted /\ chat' = chat /\ tail' = tail
    BY <1>2, <1>8 DEF ReadFailed
  <2>2. drafted' \in BOOLEAN /\ blurred' \in BOOLEAN
    BY <1>3, <2>1, Zenon
  <2>3. PageChat'
    <3>1. CASE blurred'
      BY <1>5, <3>1
    <3>2. CASE ~blurred'
      <4>1. ~Refills(r)
        BY <1>8, <2>1, <3>2 DEF Refills
      <4>2. blurred = FALSE
        BY <1>3, <2>1, <3>2
      <4> QED
        BY <1>4, <2>1, <3>2, <4>1, <4>2
    <3> QED
      BY <3>1, <3>2
  <2>4. TailIsOfAgent'
    BY <1>6, <1>8, <2>1
  <2>5. active' = NoAgent /\ ~blurred' => chat' = <<>>
    BY <1>1, <2>1 DEF PageSelects
  <2> HIDE DEF PageChat, TailIsOfAgent
  <2> QED
    BY <1>3, <2>1, <2>2, <2>3, <2>4, <2>5
<1>9. ASSUME ~fails /\ r.why = "load" PROVE Comes
  <2>1. /\ chat' = Bubbles(r.got) /\ blurred' = (~r.pure \/ r.agent # active)
        /\ tail' = {} /\ drafted' = TRUE /\ active' = active /\ r.at = "here"
    BY <1>2, <1>9 DEF Loaded, Filled
  <2>2. drafted' \in BOOLEAN /\ blurred' \in BOOLEAN
    BY <2>1, Zenon
  <2>3. /\ chat' \in Seq(BubbleSet) /\ \A i \in 1 .. Len(chat') : chat'[i].message <= sent.count
        /\ r.pure /\ r.agent = active /\ active # NoAgent =>
             ChatFits(chat', late, kept[active], mine, active, sent.compact)
    BY <2>1, FilledFits
  <2>4. PageChat'
    BY <1>2, <2>1, <2>3 DEF PageChat
  <2>5. TailIsOfAgent'
    BY <2>1 DEF TailIsOfAgent
  <2>6. active' = NoAgent => blurred'
    BY <1>3, <2>1
  <2> HIDE DEF PageChat, TailIsOfAgent
  <2> QED
    BY <2>1, <2>2, <2>3, <2>4, <2>5, <2>6
<1>10. ASSUME ~fails /\ r.why # "load" /\ r.agent = active /\ r.resync PROVE Comes
  <2>1. /\ chat' = Bubbles(r.got) /\ blurred' = ~r.pure /\ tail' \subseteq tail /\ drafted' = drafted
        /\ active' = active /\ r.at = "here"
    BY <1>2, <1>10 DEF Resynced, Filled
  <2>2. drafted' \in BOOLEAN /\ blurred' \in BOOLEAN
    BY <1>3, <2>1, Zenon
  <2>3. /\ chat' \in Seq(BubbleSet) /\ \A i \in 1 .. Len(chat') : chat'[i].message <= sent.count
        /\ r.pure /\ r.agent = active /\ active # NoAgent =>
             ChatFits(chat', late, kept[active], mine, active, sent.compact)
    BY <2>1, FilledFits
  <2>4. PageChat'
    BY <1>2, <1>10, <2>1, <2>3 DEF PageChat
  <2>5. TailIsOfAgent'
    BY <1>6, <1>10, <2>1
  <2>6. active' # NoAgent /\ tail' \subseteq Messages
    BY <1>3, <1>10, <2>1
  <2> HIDE DEF PageChat, TailIsOfAgent
  <2> QED
    BY <2>1, <2>2, <2>3, <2>4, <2>5, <2>6
<1>11. ASSUME ~fails /\ r.why # "load" /\ ~(r.agent = active /\ r.resync) PROVE Comes
  <2>1. /\ chat' = chat /\ blurred' = blurred /\ tail' \subseteq tail /\ drafted' = drafted
        /\ active' = active
    BY <1>2, <1>11 DEF Resynced
  <2>2. drafted' \in BOOLEAN /\ blurred' \in BOOLEAN
    BY <1>3, <2>1, Zenon
  <2>3. ~Refills(r)
    BY <1>11 DEF Refills
  <2>4. PageChat'
    <3>1. CASE blurred'
      BY <1>5, <3>1
    <3>2. CASE ~blurred'
      BY <1>4, <2>1, <2>3, <3>2
    <3> QED
      BY <3>1, <3>2
  <2>5. TailIsOfAgent'
    BY <1>6, <1>11, <2>1
  <2>6. active' = NoAgent /\ ~blurred' => chat' = <<>>
    BY <1>1, <2>1 DEF PageSelects
  <2> HIDE DEF PageChat, TailIsOfAgent
  <2> QED
    BY <1>3, <2>1, <2>2, <2>4, <2>5, <2>6
<1>12. Comes
  <2> HIDE DEF Comes
  <2> QED
    BY <1>7, <1>8, <1>9, <1>10, <1>11
<1>13. /\ chat' \in Seq(BubbleSet) /\ tail' \subseteq Messages /\ drafted' \in BOOLEAN
       /\ blurred' \in BOOLEAN /\ active' \in {active, NoAgent}
       /\ \A i \in 1 .. Len(chat') : chat'[i].message <= sent.count
       /\ (active' = NoAgent /\ ~blurred' => chat' = <<>>) /\ PageChat' /\ TailIsOfAgent'
  BY <1>12
<1> HIDE DEF Comes
<1>14. PageTypes'
  BY <1>1, <1>2, <1>13 DEF PageTypes
<1>15. PageKnown'
  BY <1>1, <1>2, <1>13 DEF PageKnown
<1>16. PageSelects'
  BY <1>1, <1>2, <1>13 DEF PageSelects
<1>17. PageReads'
  BY <1>1, <1>2 DEF PageReads
<1>18. PageNumbers' /\ PageStreams' /\ WindowIsOfStream'
  BY <1>2, PagePartsStay
<1> QED
  BY <1>13, <1>14, <1>15, <1>16, <1>17, <1>18 DEF PageInv

\* Of two histories the same is left if what only one of them tells is gone.
LEMMA PairsGone ==
  ASSUME NEW s, NEW t, NEW gone, \A m : m \notin gone => (m \in ToSet(s) <=> m \in ToSet(t))
  PROVE  Left(Pairs(s), gone) = Left(Pairs(t), gone)
<1>1. \A m : Said(m).message = m /\ Replied(m).message = m
  BY DEF Said, Replied
<1>2. ASSUME NEW u, NEW v, \A m : m \notin gone => (m \in ToSet(u) => m \in ToSet(v))
      PROVE  Left(Pairs(u), gone) \subseteq Left(Pairs(v), gone)
  BY <1>1, <1>2 DEF Left, Pairs
<1>3. Left(Pairs(s), gone) \subseteq Left(Pairs(t), gone)
  BY <1>2
<1>4. Left(Pairs(t), gone) \subseteq Left(Pairs(s), gone)
  BY <1>2
<1> QED
  BY <1>3, <1>4

\* A history grows in order.
LEMMA HistoryGrows ==
  ASSUME NEW h \in Seq(Messages), NEW m \in Messages, NEW n \in Nat, m <= n, UpTo(h, n), Ascending(h),
         \A i \in 1 .. Len(h) : h[i] < m
  PROVE  LET t == Append(h, m) IN t \in Seq(Messages) /\ UpTo(t, n) /\ Ascending(t)
<1> DEFINE t == Append(h, m)
<1>1. /\ Len(t) = Len(h) + 1 /\ Len(h) \in Nat /\ t[Len(h) + 1] = m /\ t \in Seq(Messages)
      /\ \A i \in 1 .. Len(h) : t[i] = h[i]
  OBVIOUS
<1> HIDE DEF t
<1>2. \A i \in 1 .. Len(t) : i \in 1 .. Len(h) \/ i = Len(h) + 1
  BY <1>1
<1>3. UpTo(t, n)
  BY <1>1, <1>2 DEF UpTo
<1>4. ASSUME NEW i \in 1 .. Len(t), NEW j \in 1 .. Len(t), i < j PROVE t[i] < t[j]
  <2>1. i \in 1 .. Len(h) /\ t[i] = h[i]
    BY <1>1, <1>4
  <2>2. CASE j = Len(h) + 1
    BY <1>1, <2>1, <2>2
  <2>3. CASE j # Len(h) + 1
    <3>1. j \in 1 .. Len(h) /\ t[j] = h[j]
      BY <1>1, <1>2, <2>3
    <3> QED
      BY <1>4, <2>1, <3>1 DEF Ascending
  <2> QED
    BY <2>2, <2>3
<1>5. Ascending(t)
  BY <1>4 DEF Ascending
<1> QED
  BY <1>1, <1>3, <1>5 DEF t
LEMMA HistoryOfOne ==
  ASSUME NEW m \in Messages, NEW n \in Nat, m <= n
  PROVE  /\ <<m>> \in Seq(Messages) /\ UpTo(<<m>>, n) /\ Ascending(<<m>>) /\ ToSet(<<m>>) = {m}
<1>1. Len(<<m>>) = 1 /\ <<m>>[1] = m /\ <<m>> \in Seq(Messages) /\ DOMAIN <<m>> = {1}
  OBVIOUS
<1>2. UpTo(<<m>>, n) /\ Ascending(<<m>>)
  BY <1>1 DEF UpTo, Ascending
<1>3. ToSet(<<m>>) = {m}
  BY <1>1 DEF ToSet
<1> QED
  BY <1>1, <1>2, <1>3

LEMMA ReadTellsLater ==
  ASSUME NEW r, NEW there, NEW h, NEW h2, NEW stream, NEW gone, NEW more, NEW n,
         ReadTells(r, there, h, stream, gone, n), gone \subseteq more,
         Left(Pairs(h[r.agent]), more) = Left(Pairs(h2[r.agent]), more)
  PROVE  ReadTells(r, there, h2, stream, more, n)
<1>1. ASSUME Left(Pairs(r.got), gone) = Left(Pairs(h[r.agent]), gone)
      PROVE  Left(Pairs(r.got), more) = Left(Pairs(h2[r.agent]), more)
  BY <1>1, LeftOfMore
<1> QED
  BY <1>1 DEF ReadTells
LEMMA ElementsAreIn == ASSUME NEW S, NEW s \in Seq(S) PROVE ToSet(s) \subseteq S
  BY DEF ToSet
LEMMA SentIsNatural == ASSUME NEW n \in 0 .. MaxSent PROVE n \in Nat /\ NoMessage <= n
  BY PageBounds DEF NoMessage

\* A turn is settled, and told if its stream is open.
LEMMA SettleTurnInv ==
  ASSUME PageInv, NEW a \in Agents, NEW outcome \in {"kept", "failed", "no summary"}, SettleTurn(a, outcome)
  PROVE  PageInv'
<1>1. /\ PageTypes /\ PageKnown /\ PageSelects /\ PageNumbers /\ PageStreams /\ PageReads /\ PageChat
      /\ TailIsOfAgent /\ WindowIsOfStream
  BY DEF PageInv
<1> DEFINE m == serving[a]
           n == sent.count
           told == mine.message = m /\ mine.at = "open"
           next == IF outcome # "kept" THEN kept[a] ELSE IF IsCompact(m) THEN <<m>> ELSE Append(kept[a], m)
<1>2. /\ m # NoMessage /\ (outcome = "no summary" => IsCompact(m))
      /\ serving' = [serving EXCEPT ![a] = NoMessage]
      /\ kept' = (IF outcome # "kept" THEN kept
                  ELSE [kept EXCEPT ![a] = IF IsCompact(m) THEN <<m>> ELSE Append(@, m)])
      /\ late' = (IF told \/ outcome # "kept" THEN late
                  ELSE late \cup {m} \cup (IF IsCompact(m) THEN ToSet(kept[a]) ELSE {}))
      /\ mine' = (IF told THEN [mine EXCEPT !.at = IF outcome = "failed" THEN "failed" ELSE "answered"]
                  ELSE mine)
      /\ agents' = agents /\ listing' = listing /\ active' = active /\ drafted' = drafted
      /\ chat' = chat /\ tail' = tail /\ window' = window /\ sent' = sent /\ reads' = reads
      /\ blurred' = blurred
  BY DEF SettleTurn
<1>3. /\ kept \in [Agents -> Seq(Messages)] /\ serving \in [Agents -> Messages \cup {NoMessage}]
      /\ late \subseteq Messages /\ mine \in Streams /\ n \in 0 .. MaxSent
  BY <1>1 DEF PageTypes
<1>4. /\ m \in Messages /\ kept[a] \in Seq(Messages) /\ n \in Nat
  <2> HIDE DEF n, told
  <2>1. n \in Nat
    BY <1>3, SentIsNatural
  <2> QED
    BY <1>2, <1>3, <2>1
<1>5. /\ UpTo(kept[a], n) /\ m <= n /\ Ascending(kept[a]) /\ (\A i \in 1 .. Len(kept[a]) : kept[a][i] < m)
      /\ (told => mine.agent = a)
  BY <1>1, <1>2 DEF PageKnown, PageNumbers
<1>6. /\ kept'[a] = next /\ serving'[a] = NoMessage
      /\ \A b \in Agents : b # a => kept'[b] = kept[b] /\ serving'[b] = serving[b]
  BY <1>2, <1>3
<1>7. /\ mine'.message = mine.message /\ mine'.agent = mine.agent /\ mine' \in Streams
      /\ mine'.at = (IF told THEN IF outcome = "failed" THEN "failed" ELSE "answered" ELSE mine.at)
  BY <1>2, <1>3 DEF Streams, Ats
<1> HIDE DEF m, n, told
<1>8. next \in Seq(Messages) /\ UpTo(next, n) /\ Ascending(next)
  <2>1. CASE outcome # "kept"
    BY <1>4, <1>5, <2>1
  <2>2. CASE outcome = "kept" /\ IsCompact(m)
    BY <1>4, <1>5, <2>2, HistoryOfOne
  <2>3. CASE outcome = "kept" /\ ~IsCompact(m)
    <3>1. Append(kept[a], m) \in Seq(Messages) /\ UpTo(Append(kept[a], m), n) /\ Ascending(Append(kept[a], m))
      BY <1>4, <1>5, HistoryGrows
    <3> QED
      BY <2>3, <3>1
  <2> QED
    BY <2>1, <2>2, <2>3
<1>9. late \subseteq late' /\ late' \subseteq Messages
  <2>1. ToSet(kept[a]) \subseteq Messages
    BY <1>4, ElementsAreIn
  <2> QED
    BY <1>2, <1>3, <1>4, <2>1
<1>10. ~told => \A b \in Agents : Left(Pairs(kept'[b]), late') = Left(Pairs(kept[b]), late')
  <2> SUFFICES ASSUME ~told, NEW b \in Agents, b = a, outcome = "kept"
               PROVE  Left(Pairs(next), late') = Left(Pairs(kept[a]), late')
    BY <1>2, <1>6
  <2>1. CASE IsCompact(m)
    <3>1. ToSet(next) = {m} /\ m \in late' /\ ToSet(kept[a]) \subseteq late'
      BY <1>2, <1>4, <1>5, <2>1, HistoryOfOne
    <3> HIDE DEF next
    <3> QED
      BY <3>1, PairsGone
  <2>2. CASE ~IsCompact(m)
    <3>1. ToSet(next) = ToSet(kept[a]) \cup {m} /\ m \in late'
      BY <1>2, <1>4, <2>2, ToSetGrows
    <3> HIDE DEF next
    <3> QED
      BY <3>1, PairsGone
  <2> QED
    BY <2>1, <2>2
<1>11. told => late' = late /\ mine.agent = a /\ mine.at = "open" /\ mine.message = m
  BY <1>2, <1>5 DEF told
<1>12. PageTypes'
  <2>1. kept' \in [Agents -> Seq(Messages)]
    <3>1. \A b \in Agents : kept'[b] \in Seq(Messages)
      BY <1>3, <1>6, <1>8
    <3>2. DOMAIN kept' = Agents /\ kept' = [b \in Agents |-> kept'[b]]
      BY <1>2, <1>3
    <3> QED
      BY <3>1, <3>2
  <2>2. serving' \in [Agents -> Messages \cup {NoMessage}]
    BY <1>2, <1>3
  <2> QED
    BY <1>1, <1>2, <1>7, <1>9, <2>1, <2>2 DEF PageTypes
<1>13. \A b \in Agents : UpTo(kept'[b], n) /\ Ascending(kept'[b]) /\ (serving'[b] = serving[b] \/ serving'[b] = NoMessage)
  <2> SUFFICES ASSUME NEW b \in Agents
               PROVE  UpTo(kept'[b], n) /\ Ascending(kept'[b]) /\ (serving'[b] = serving[b] \/ serving'[b] = NoMessage)
    OBVIOUS
  <2>1. CASE b = a
    BY <1>6, <1>8, <2>1
  <2>2. CASE b # a
    BY <1>1, <1>6, <2>2 DEF PageKnown, PageNumbers, n
  <2> QED
    BY <2>1, <2>2
<1>14. PageKnown'
  <2>1. NoMessage <= n
    BY <1>3, SentIsNatural
  <2> QED
    BY <1>1, <1>2, <1>7, <1>13, <2>1 DEF PageKnown, n
<1>15. PageSelects'
  BY <1>1, <1>2, <1>7 DEF PageSelects
<1>16. PageNumbers'
  <2> SUFFICES ASSUME NEW b \in Agents
               PROVE  /\ Ascending(kept'[b])
                      /\ serving'[b] # NoMessage =>
                           /\ \A i \in 1 .. Len(kept'[b]) : kept'[b][i] < serving'[b]
                           /\ serving'[b] = mine'.message => b = mine'.agent
    BY DEF PageNumbers
  <2>1. CASE b = a
    BY <1>6, <1>13, <2>1
  <2>2. CASE b # a
    BY <1>1, <1>6, <1>7, <2>2 DEF PageNumbers
  <2> QED
    BY <2>1, <2>2
<1>17. PageStreams'
  <2>1. CASE told
    <3>0. m # NoMessage /\ mine.message = m
      BY <1>2, <1>11, <2>1
    <3>1. mine.message # NoMessage /\ mine'.at # "closed"
      BY <1>7, <2>1, <3>0
    <3> QED
      BY <1>1, <1>7, <3>1 DEF PageStreams
  <2>2. CASE ~told
    BY <1>1, <1>2, <2>2 DEF PageStreams
  <2> QED
    BY <2>1, <2>2
<1>18. PageReads'
  <2> SUFFICES ASSUME NEW r \in reads PROVE ReadTells(r, agents, kept', mine', late', n)
    BY <1>2 DEF PageReads, n
  <2>1. ReadTells(r, agents, kept, mine, late, n) /\ r.agent \in Agents
    BY <1>1 DEF PageReads, n, PageTypes, ReadSet
  <2>2. CASE told
    <3>1. r.pure /\ r.agent \in agents => r.agent # a
      BY <1>11, <2>1, <2>2 DEF ReadTells
    <3>2. r.pure /\ r.agent \in agents => kept'[r.agent] = kept[r.agent] /\ r.agent # mine'.agent
      BY <1>6, <1>7, <1>11, <2>1, <2>2, <3>1
    <3> QED
      BY <1>11, <2>1, <2>2, <3>2 DEF ReadTells
  <2>3. CASE ~told
    <3>1. /\ Left(Pairs(kept[r.agent]), late') = Left(Pairs(kept'[r.agent]), late')
          /\ late \subseteq late'
      BY <1>9, <1>10, <2>1, <2>3
    <3>2. mine' = mine
      BY <1>2, <2>3
    <3>3. ReadTells(r, agents, kept', mine, late', n)
      BY <2>1, <3>1, ReadTellsLater
    <3> QED
      BY <3>2, <3>3
  <2> QED
    BY <2>2, <2>3
<1>19. PageChat'
  <2> SUFFICES ASSUME active # NoAgent, ~blurred, ~Awaiting'
               PROVE  ChatFits(chat, late', kept'[active], mine', active, sent.compact)
    BY <1>2 DEF PageChat
  <2>1. ~Awaiting
    BY <1>2 DEF Awaiting, Refills
  <2>2. ChatFits(chat, late, kept[active], mine, active, sent.compact) /\ active \in Agents
    BY <1>1, <2>1 DEF PageChat, PageSelects, PageTypes
  <2>3. CASE ~told
    <3>1. mine' = mine
      BY <1>2, <2>3
    <3>2. Left(Pairs(kept[active]), late') = Left(Pairs(kept'[active]), late')
      BY <1>10, <2>2, <2>3
    <3> QED
      BY <1>9, <2>2, <3>1, <3>2, FitsLater
  <2>4. CASE told /\ active # a
    <3>1. mine.agent # active /\ mine'.agent # active /\ kept'[active] = kept[active] /\ late' = late
      BY <1>6, <1>7, <1>11, <2>2, <2>4
    <3> QED
      BY <2>2, <3>1 DEF ChatFits
  <2>5. CASE told /\ active = a
    <3>1. mine'.agent = active /\ mine'.message = m /\ late' = late /\ mine.at = "open"
      BY <1>7, <1>11, <2>5
    <3>2. CASE outcome = "failed" \/ IsCompact(m)
      <4>1. mine'.at \in {"failed", "answered"} /\ (mine'.at = "failed" \/ m \in sent.compact)
        BY <1>7, <2>5, <3>2 DEF IsCompact
      <4> QED
        BY <3>1, <4>1 DEF ChatFits
    <3>3. CASE outcome = "kept" /\ ~IsCompact(m)
      <4>1. mine'.at = "answered" /\ m \notin sent.compact /\ kept'[active] = Append(kept[a], m)
        BY <1>6, <1>7, <2>5, <3>3 DEF IsCompact
      <4>2. EndsWith(chat, m) /\ Tells(chat, late, kept[a], {}, {Said(m)})
        BY <1>11, <2>2, <2>5, <4>1 DEF ChatFits
      <4>3. Tells(chat, late, Append(kept[a], m), {Replied(m)}, {})
        BY <1>4, <4>2, FitsSettled
      <4> QED
        BY <3>1, <4>1, <4>2, <4>3 DEF ChatFits
    <3> QED
      BY <1>2, <3>2, <3>3
  <2> QED
    BY <2>3, <2>4, <2>5
<1>20. TailIsOfAgent'
  <2>1. active' = active /\ tail' = tail /\ reads' = reads
    BY <1>2
  <2> QED
    BY <1>1, <1>7, <2>1 DEF TailIsOfAgent
<1>21. WindowIsOfStream'
  BY <1>1, <1>2, <1>7 DEF WindowIsOfStream
<1> QED
  BY <1>12, <1>14, <1>15, <1>16, <1>17, <1>18, <1>19, <1>20, <1>21 DEF PageInv

\* Every step keeps the page's invariant.
LEMMA PageNextInv == PageInv /\ [BuilderPageNext]_builderPageVars => PageInv'
<1> SUFFICES ASSUME PageInv, [BuilderPageNext]_builderPageVars PROVE PageInv'
  OBVIOUS
<1>1. CASE UNCHANGED builderPageVars
  <2>1. /\ agents' = agents /\ kept' = kept /\ serving' = serving /\ listing' = listing
        /\ active' = active /\ drafted' = drafted /\ chat' = chat /\ tail' = tail /\ window' = window
        /\ mine' = mine /\ sent' = sent /\ reads' = reads /\ blurred' = blurred /\ late' = late
    BY <1>1 DEF builderPageVars, serverVars
  <2>2. PageTypes /\ PageSelects /\ PageReads
    BY DEF PageInv
  <2>3. PageTypes' /\ PageSelects' /\ PageReads'
    BY <2>1, <2>2 DEF PageTypes, PageSelects, PageReads
  <2>4. /\ PageKnown' /\ PageNumbers' /\ PageStreams' /\ PageChat' /\ TailIsOfAgent' /\ WindowIsOfStream'
    BY <2>1, PagePartsStay
  <2> QED
    BY <2>3, <2>4 DEF PageInv
<1>2. CASE BuilderPageNext
  BY <1>2, SwitchAgentInv, CreateAgentInv, DeleteAgentInv, SettleTurnInv, SendMessageInv, LiveEventInv,
     AnswerReadInv, ReadReturnsInv, RefreshListInv, TurnChunkInv, StreamClosesInv DEF BuilderPageNext
<1> QED
  BY <1>1, <1>2

\* What the invariant tells.
LEMMA PageInvTells == PageInv => BuilderPageTypeOK /\ BuilderPageTellsTruth
<1> SUFFICES ASSUME PageInv PROVE BuilderPageTypeOK /\ BuilderPageTellsTruth
  OBVIOUS
<1>1. /\ PageTypes /\ PageSelects /\ PageNumbers /\ PageStreams /\ PageChat /\ TailIsOfAgent
      /\ WindowIsOfStream
  BY DEF PageInv
<1>2. active \in Agents \cup {NoAgent}
  BY <1>1 DEF PageTypes, PageSelects
<1>3. BuilderPageTypeOK
  <2>1. \A b \in ToSet(chat) : b.who \in {"user", "assistant"} /\ b.message \in Messages
    <3>1. chat \in Seq(BubbleSet)
      BY <1>1 DEF PageTypes
    <3>2. \A i \in DOMAIN chat : chat[i] \in BubbleSet
      BY <3>1
    <3> QED
      BY <3>2 DEF ToSet, BubbleSet, Sides
  <2>2. window \in Messages \cup {NoMessage} /\ mine.at \in Ats
    BY <1>1 DEF PageTypes, WindowIsOfStream, Streams
  <2>3. \A r \in reads : r.why \in {"load", "compact", "final"} /\ r.agent \in Agents
    BY <1>1 DEF PageTypes, ReadSet
  <2>4. {drafted, blurred} \subseteq BOOLEAN
    BY <1>1, Zenon DEF PageTypes
  <2> QED
    BY <1>1, <1>2, <2>1, <2>2, <2>3, <2>4 DEF BuilderPageTypeOK, PageTypes, Ats
<1>4. ChatIsOfAgent
  <2> SUFFICES ASSUME ~blurred, mine.message = NoMessage, \A r \in reads : r.agent # active
               PROVE  LET story == IF active = NoAgent THEN <<>> ELSE Bubbles(kept[active])
                      IN StillTold(chat) = StillTold(story) /\ InOrder(chat) /\ InOrder(story)
    BY DEF ChatIsOfAgent
  <2>1. CASE active = NoAgent
    <3>1. chat = <<>>
      BY <1>1, <2>1 DEF PageSelects
    <3>2. InOrder(<<>>)
      BY DEF InOrder
    <3> QED
      BY <2>1, <3>1, <3>2
  <2>2. CASE active # NoAgent
    <3>1. mine.agent = NoAgent
      BY <1>1 DEF PageStreams, NoStream
    <3>2. ~Awaiting
      BY DEF Awaiting, Refills
    <3>3. Tells(chat, late, kept[active], {}, {})
      BY <1>1, <2>2, <3>1, <3>2 DEF PageChat, ChatFits
    <3>4. active \in Agents /\ kept[active] \in Seq(Messages)
      BY <1>1, <1>2, <2>2 DEF PageTypes
    <3>5. Ascending(kept[active])
      BY <1>1, <3>4 DEF PageNumbers
    <3>6. ToSet(Bubbles(kept[active])) = Pairs(kept[active]) /\ InOrder(Bubbles(kept[active]))
      BY <3>4, <3>5, BubblesArePairs
    <3>7. Left(ToSet(chat), late) = Left(ToSet(Bubbles(kept[active])), late) /\ InOrder(chat)
      BY <3>3, <3>6 DEF Tells
    <3> QED
      BY <2>2, <3>6, <3>7 DEF StillTold, Left
  <2> QED
    BY <2>1, <2>2
<1> QED
  BY <1>1, <1>3, <1>4 DEF BuilderPageTellsTruth

\* When the stream and the reads of the agent in view are done, the chat is what the server
\* keeps of that agent, live events of another are shown only until it is loaded, and no
\* question outlives its stream.
THEOREM BuilderPageTells == BuilderPageSpec => [](BuilderPageTypeOK /\ BuilderPageTellsTruth)
<1>1. PageInv => BuilderPageTypeOK /\ BuilderPageTellsTruth
  BY PageInvTells
<1> QED
  BY <1>1, PageInitInv, PageNextInv, PTL DEF BuilderPageSpec

-----------------------------------------------------------------------------
(* The instance: the threads move or the page, the other rests.            *)

ConversationsInv == subject \in {"threads", "page"} /\ IInv /\ PageInv

LEMMA ConversationsNextInv ==
  ConversationsInv /\ [ConversationsNext]_conversationsVars => ConversationsInv'
<1> SUFFICES ASSUME ConversationsInv, [ConversationsNext]_conversationsVars PROVE ConversationsInv'
  OBVIOUS
<1>1. [Next]_vars /\ [BuilderPageNext]_builderPageVars /\ subject' = subject
  BY DEF ConversationsNext, ThreadStep, PageStep, conversationsVars
<1> QED
  BY <1>1, IInvNext, PageNextInv DEF ConversationsInv

\* The variables of the threads and of the page stay within their types, and the page tells
\* of a conversation what the server keeps, whichever of the two moves.
THEOREM ConversationsAreTold == ConversationsSpec => [](ConversationsTypeOK /\ BuilderPageTellsTruth)
<1>1. ConversationsInit => ConversationsInv
  BY IInvInit, PageInitInv DEF ConversationsInit, ConversationsInv
<1>2. ConversationsInv => ConversationsTypeOK /\ BuilderPageTellsTruth
  <2>1. IInv => TypeOK
    BY DEF IInv, Shape, Room, Fits, TypeOK
  <2> QED
    BY <2>1, PageInvTells DEF ConversationsInv, ConversationsTypeOK
<1> QED
  BY <1>1, <1>2, ConversationsNextInv, PTL DEF ConversationsSpec
=============================================================================
