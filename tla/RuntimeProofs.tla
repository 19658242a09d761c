---------------------------- MODULE RuntimeProofs ----------------------------
(***************************************************************************)
(* Theorems about the primitives of the runtime package, for every set of  *)
(* callers, capacity, permit count and bound: the semaphore, the event     *)
(* channel, the ask_user channel and the circuit breakers.                 *)
(***************************************************************************)
EXTENDS MCRuntime, SharedLemmas

-----------------------------------------------------------------------------
(* The semaphore. TypeOK, PermitsConserved and NoLostWakeup hold only      *)
(* together: a hand-over keeps the count because the woken call was        *)
(* queued, and the queue names exactly the queued calls because grants     *)
(* empty it in order.                                                      *)

\* The inductive invariant.
Inv == TypeOK /\ PermitsConserved /\ NoLostWakeup

\* The owners form a finite set, so their number is a natural number.
LEMMA OwnersFinite ==
  /\ IsFiniteSet(Owners)
  /\ Cardinality(Owners) \in Nat
<1>1. Owners \subseteq Acquirers
  BY DEF Owners
<1>2. IsFiniteSet(Owners)
  BY <1>1, FS_Subset, SemaphoreAssumption DEF SemaphoreAssumption
<1> QED
  BY <1>2, FS_CardinalityType

\* A queued call has one place in the queue, and splicing it out there
\* removes that call and no other.
LEMMA WithdrawProperties ==
  ASSUME TypeOK, NoLostWakeup, NEW a \in Acquirers, phase[a] = "queued"
  PROVE  LET w == gate.waiters
             v == Withdraw(gate, a).waiters
         IN  /\ Withdraw(gate, a) \in Gate(Acquirers, Permits)
             /\ Withdraw(gate, a).available = gate.available
             /\ Len(w) > 0
             /\ \E k \in 1..Len(w) :
                  /\ w[k] = a
                  /\ v = SpliceOut(w, k)
<1> DEFINE w == gate.waiters
           k == CHOOSE i \in 1..Len(w) : w[i] = a
<1>1. w \in Seq(Acquirers)
  BY DEF TypeOK, Gate
<1>2. \E i \in 1..Len(w) : w[i] = a
  BY DEF NoLostWakeup
<1>3. k \in 1..Len(w) /\ w[k] = a
  BY <1>2
<1>4. SpliceOut(w, k) \in Seq(Acquirers)
  BY <1>1, <1>3, SpliceOutProperties
<1>5. Withdraw(gate, a) = [gate EXCEPT !.waiters = SpliceOut(w, k)]
  BY DEF Withdraw
<1>6. Len(w) > 0
  BY <1>1, <1>3
<1> HIDE DEF k
<1> QED
  BY <1>3, <1>4, <1>5, <1>6 DEF TypeOK, Gate

-----------------------------------------------------------------------------
\* Every permit is free and nobody is queued.
LEMMA InitInv == Init => Inv
<1> SUFFICES ASSUME Init PROVE Inv
  OBVIOUS
<1>1. TypeOK
  BY SemaphoreAssumption DEF Init, TypeOK, SemaphoreAssumption, NewGate, Gate, Phase
<1>2. Owners = {}
  BY DEF Init, Owners
<1>3. PermitsConserved
  BY <1>2, FS_EmptySet, SemaphoreAssumption
  DEF Init, PermitsConserved, NewGate, SemaphoreAssumption
<1>4. NoLostWakeup
  BY DEF Init, NoLostWakeup, NewGate
<1> QED
  BY <1>1, <1>3, <1>4 DEF Inv

-----------------------------------------------------------------------------
\* Steps that move no permit: the owners and the gate stay as they are.
LEMMA QuietStep ==
  ASSUME Inv, NEW a \in Acquirers,
         \/ AcquireCancelled(a) \/ AcquireOverflow(a)
         \/ Resume(a) \/ ReleaseAgain(a)
  PROVE  Inv' /\ Owners' = Owners
<1> USE DEF Inv, AcquireCancelled, AcquireOverflow, Resume, ReleaseAgain
<1>1. gate' = gate
  BY DEF vars
<1>2. TypeOK'
  BY DEF TypeOK, Phase, vars
<1>3. Owners' = Owners
  BY DEF Owners, TypeOK, Phase, vars
<1>4. PermitsConserved'
  BY <1>1, <1>3 DEF PermitsConserved
<1>5. \A b \in Acquirers : phase'[b] = "queued" <=> phase[b] = "queued"
  BY DEF TypeOK, Phase, vars
<1>6. NoLostWakeup'
  BY <1>1, <1>5 DEF NoLostWakeup
<1> QED
  BY <1>2, <1>3, <1>4, <1>6

\* A call that finds a permit takes it.
LEMMA AcquireFreeStep ==
  ASSUME Inv, NEW a \in Acquirers, AcquireFree(a)
  PROVE  Inv' /\ Owners' = Owners \cup {a} /\ a \notin Owners
<1> USE DEF Inv, AcquireFree
<1>1. /\ gate.available \in Nat /\ gate.available > 0
      /\ gate'.available = gate.available - 1
      /\ gate'.waiters = gate.waiters
      /\ gate' \in Gate(Acquirers, Permits)
  BY SemaphoreAssumption DEF TypeOK, Gate, Take, SemaphoreAssumption
<1>2. TypeOK'
  BY <1>1 DEF TypeOK, Phase
<1>3. Owners' = Owners \cup {a} /\ a \notin Owners
  BY DEF Owners, TypeOK, Phase
<1>4. Cardinality(Owners') = Cardinality(Owners) + 1
  BY <1>3, OwnersFinite, FS_AddElement
<1>5. PermitsConserved'
  BY <1>1, <1>4, OwnersFinite, SemaphoreAssumption
  DEF PermitsConserved, SemaphoreAssumption
<1>6. gate.waiters = <<>>
  BY <1>1 DEF NoLostWakeup
<1>7. \A b \in Acquirers : phase'[b] = "queued" <=> phase[b] = "queued"
  BY DEF TypeOK, Phase
<1>8. NoLostWakeup'
  BY <1>1, <1>6, <1>7 DEF NoLostWakeup
<1> QED
  BY <1>2, <1>3, <1>5, <1>8

\* A call that finds none joins the queue.
LEMMA AcquireQueuedStep ==
  ASSUME Inv, NEW a \in Acquirers, AcquireQueued(a)
  PROVE  Inv' /\ Owners' = Owners
<1> USE DEF Inv, AcquireQueued
<1> DEFINE w == gate.waiters
<1>1. w \in Seq(Acquirers) /\ gate'.waiters = Append(w, a)
      /\ gate'.available = gate.available
      /\ gate' \in Gate(Acquirers, Permits)
  <2>1. w \in Seq(Acquirers) /\ gate.available \in 0..Permits
    BY DEF TypeOK, Gate
  <2>2. gate' = [available |-> gate.available, waiters |-> Append(w, a)]
    BY DEF TypeOK, Gate, Enqueue
  <2>3. Append(w, a) \in Seq(Acquirers)
    BY <2>1
  <2> QED
    BY <2>1, <2>2, <2>3 DEF Gate
<1>2. TypeOK'
  BY <1>1 DEF TypeOK, Phase
<1>3. Owners' = Owners
  BY DEF Owners, TypeOK, Phase
<1>4. PermitsConserved'
  BY <1>1, <1>3 DEF PermitsConserved
<1>5. \A i \in 1..Len(w) : w[i] # a
  BY DEF NoLostWakeup
<1>6. /\ Len(Append(w, a)) = Len(w) + 1
      /\ \A i \in 1..Len(w) : Append(w, a)[i] = w[i]
      /\ Append(w, a)[Len(w) + 1] = a
      /\ Len(w) \in Nat
  BY <1>1
<1>7. \A b \in Acquirers :
        phase'[b] = "queued" <=> \E i \in 1..(Len(w) + 1) : Append(w, a)[i] = b
  <2> SUFFICES ASSUME NEW b \in Acquirers
               PROVE  phase'[b] = "queued"
                        <=> \E i \in 1..(Len(w) + 1) : Append(w, a)[i] = b
    OBVIOUS
  <2>1. CASE b = a
    <3>1. phase'[a] = "queued"
      BY DEF TypeOK
    <3> QED
      BY <2>1, <3>1, <1>6
  <2>2. CASE b # a
    <3>1. phase'[b] = phase[b]
      BY <2>2 DEF TypeOK
    <3>2. phase[b] = "queued" <=> \E i \in 1..Len(w) : w[i] = b
      BY DEF NoLostWakeup
    <3> QED
      BY <2>2, <3>1, <3>2, <1>6
  <2> QED
    BY <2>1, <2>2
<1>8. \A i, j \in 1..(Len(w) + 1) : Append(w, a)[i] = Append(w, a)[j] => i = j
  <2>1. \A i, j \in 1..Len(w) : w[i] = w[j] => i = j
    BY DEF NoLostWakeup
  <2> QED
    BY <2>1, <1>5, <1>6
<1>9. NoLostWakeup'
  BY <1>1, <1>6, <1>7, <1>8 DEF NoLostWakeup
<1> QED
  BY <1>2, <1>3, <1>4, <1>9

\* A queued call that is aborted leaves the queue and no permit moves.
LEMMA AbortStep ==
  ASSUME Inv, NEW a \in Acquirers, Abort(a)
  PROVE  Inv' /\ Owners' = Owners
<1> USE DEF Inv, Abort
<1>1. CASE phase[a] # "queued"
  <2>1. gate' = gate /\ phase' = phase /\ aborted' = aborted \cup {a}
    BY <1>1
  <2> QED
    BY <2>1 DEF TypeOK, PermitsConserved, NoLostWakeup, Owners
<1>2. CASE phase[a] = "queued"
  <2> DEFINE w == gate.waiters
  <2>1. PICK k \in 1..Len(w) : /\ w[k] = a
                               /\ gate'.waiters = SpliceOut(w, k)
    BY <1>2, WithdrawProperties
  <2>2. /\ w \in Seq(Acquirers)
        /\ gate' \in Gate(Acquirers, Permits)
        /\ gate'.available = gate.available
        /\ phase' = [phase EXCEPT ![a] = "rejected"]
        /\ aborted' = aborted \cup {a}
    BY <1>2, WithdrawProperties DEF TypeOK, Gate
  <2>3. TypeOK'
    BY <2>2 DEF TypeOK, Phase
  <2>4. Owners' = Owners
    BY <1>2, <2>2 DEF Owners, TypeOK, Phase
  <2>5. PermitsConserved'
    BY <2>2, <2>4 DEF PermitsConserved
  <2>6. \A i, j \in 1..Len(w) : w[i] = w[j] => i = j
    BY DEF NoLostWakeup
  <2>7. /\ \A b : (\E i \in 1..Len(gate'.waiters) : gate'.waiters[i] = b)
                   <=> b # a /\ \E i \in 1..Len(w) : w[i] = b
        /\ \A i, j \in 1..Len(gate'.waiters) :
             gate'.waiters[i] = gate'.waiters[j] => i = j
    <3> DEFINE v == SpliceOut(w, k)
    <3>1. /\ \A b : (\E i \in 1..Len(v) : v[i] = b)
                    <=> b # w[k] /\ \E i \in 1..Len(w) : w[i] = b
          /\ \A i, j \in 1..Len(v) : v[i] = v[j] => i = j
      BY <2>2, <2>6, SpliceOutElements
    <3>2. gate'.waiters = v /\ w[k] = a
      BY <2>1
    <3> HIDE DEF v
    <3> QED
      BY <3>1, <3>2
  <2>8. \A b \in Acquirers :
           phase'[b] = "queued" <=> b # a /\ phase[b] = "queued"
    BY <2>2 DEF TypeOK, Phase
  <2>9. gate'.available = 0
    BY <2>1, <2>2 DEF NoLostWakeup
  <2> QED
    BY <2>3, <2>4, <2>5, <2>7, <2>8, <2>9 DEF NoLostWakeup
<1> QED
  BY <1>1, <1>2

\* A release either frees its permit or hands it to the head of the queue.
LEMMA ReleaseStep ==
  ASSUME Inv, NEW a \in Acquirers, Release(a)
  PROVE  /\ Inv'
         /\ a \in Owners
         /\ gate.waiters = <<>> =>
              Owners' = Owners \ {a} /\ gate'.waiters = <<>>
         /\ gate.waiters # <<>> =>
              /\ Owners' = (Owners \ {a}) \cup {Head(gate.waiters)}
              /\ gate'.waiters = Tail(gate.waiters)
<1> USE DEF Inv, Release
<1> DEFINE w == gate.waiters
           h == Head(w)
<1>1. w \in Seq(Acquirers) /\ gate.available \in 0..Permits
  BY DEF TypeOK, Gate
<1>2. a \in Owners /\ IsFiniteSet(Owners) /\ Cardinality(Owners) \in Nat
  BY OwnersFinite DEF Owners
<1>3. /\ IsFiniteSet(Owners \ {a})
      /\ Cardinality(Owners \ {a}) = Cardinality(Owners) - 1
      /\ Cardinality(Owners \ {a}) \in Nat
  BY <1>2, FS_RemoveElement, FS_CardinalityType
<1>4. Permits \in Nat /\ gate.available + Cardinality(Owners) = Permits
  BY SemaphoreAssumption DEF SemaphoreAssumption, PermitsConserved
<1>5. aborted' \in SUBSET Acquirers
  BY DEF TypeOK
<1>6. CASE w = <<>>
  <2>1. gate' = [available |-> gate.available + 1, waiters |-> <<>>]
    BY <1>6 DEF GiveBack, TypeOK, Gate
  <2>2. phase' = [phase EXCEPT ![a] = "released"]
    BY <1>6 DEF Woken, TypeOK
  <2>3. Owners' = Owners \ {a}
    BY <2>2 DEF Owners, TypeOK, Phase
  <2>4. gate.available + 1 \in 0..Permits
    BY <1>1, <1>2, <1>3, <1>4
  <2>5. TypeOK'
    BY <1>5, <2>1, <2>2, <2>4 DEF TypeOK, Gate, Phase
  <2>6. PermitsConserved'
    BY <1>1, <1>2, <1>3, <1>4, <2>1, <2>3 DEF PermitsConserved
  <2>7. \A b \in Acquirers : phase'[b] = "queued" <=> phase[b] = "queued"
    BY <2>2 DEF TypeOK, Phase
  <2>8. NoLostWakeup'
    BY <1>6, <2>1, <2>7 DEF NoLostWakeup
  <2> QED
    BY <1>2, <1>6, <2>1, <2>3, <2>5, <2>6, <2>8
<1>7. CASE w # <<>>
  <2>1. Tail(w) = SpliceOut(w, 1) /\ h = w[1] /\ 1 \in 1..Len(w)
    BY <1>1, <1>7, TailIsSpliceOut
  <2>2. h \in Acquirers /\ phase[h] = "queued" /\ h # a
    <3>1. h \in Acquirers
      BY <1>1, <2>1
    <3> QED
      BY <2>1, <3>1 DEF NoLostWakeup
  <2>3. gate' = [available |-> gate.available, waiters |-> Tail(w)]
    BY <1>7 DEF GiveBack, TypeOK, Gate
  <2>4. Tail(w) \in Seq(Acquirers)
    BY <1>1, <2>1, SpliceOutProperties
  <2>5. phase' = [phase EXCEPT ![a] = "released", ![h] = "granted"]
    BY <1>7, <2>2 DEF Woken, TypeOK
  <2>6. Owners' = (Owners \ {a}) \cup {h}
    BY <2>2, <2>5 DEF Owners, TypeOK, Phase
  <2>7. h \notin Owners \ {a}
    BY <2>2 DEF Owners
  <2>8. Cardinality(Owners') = Cardinality(Owners)
    <3>1. Cardinality((Owners \ {a}) \cup {h}) = Cardinality(Owners \ {a}) + 1
      BY <1>3, <2>7, FS_AddElement
    <3> QED
      BY <1>2, <1>3, <2>6, <3>1
  <2>9. TypeOK'
    BY <1>1, <1>5, <2>2, <2>3, <2>4, <2>5 DEF TypeOK, Gate, Phase
  <2>10. PermitsConserved'
    BY <2>3, <2>8 DEF PermitsConserved
  <2>11. \A i, j \in 1..Len(w) : w[i] = w[j] => i = j
    BY DEF NoLostWakeup
  <2>12. /\ \A b : (\E i \in 1..Len(Tail(w)) : Tail(w)[i] = b)
                    <=> b # h /\ \E i \in 1..Len(w) : w[i] = b
         /\ \A i, j \in 1..Len(Tail(w)) : Tail(w)[i] = Tail(w)[j] => i = j
    <3> DEFINE v == SpliceOut(w, 1)
    <3>1. /\ \A b : (\E i \in 1..Len(v) : v[i] = b)
                    <=> b # w[1] /\ \E i \in 1..Len(w) : w[i] = b
          /\ \A i, j \in 1..Len(v) : v[i] = v[j] => i = j
      BY <1>1, <2>1, <2>11, SpliceOutElements
    <3>2. Tail(w) = v /\ w[1] = h
      BY <2>1
    <3> HIDE DEF v, h
    <3> QED
      BY <3>1, <3>2
  <2>13. \A b \in Acquirers :
           phase'[b] = "queued" <=> b # h /\ phase[b] = "queued"
    BY <2>2, <2>5 DEF TypeOK, Phase
  <2>14. gate.available = 0
    BY <1>7 DEF NoLostWakeup
  <2>15. NoLostWakeup'
    BY <2>3, <2>12, <2>13, <2>14 DEF NoLostWakeup
  <2> QED
    BY <1>2, <1>7, <2>3, <2>6, <2>9, <2>10, <2>15
<1> QED
  BY <1>6, <1>7

-----------------------------------------------------------------------------
\* Every step keeps the invariant.
LEMMA NextInv == Inv /\ [Next]_vars => Inv'
<1> SUFFICES ASSUME Inv, [Next]_vars PROVE Inv'
  OBVIOUS
<1>1. CASE UNCHANGED vars
  BY <1>1 DEF Inv, vars, TypeOK, PermitsConserved, NoLostWakeup, Owners
<1>2. ASSUME NEW a \in Acquirers, Step(a) PROVE Inv'
  BY <1>2, QuietStep, AcquireFreeStep, AcquireQueuedStep, AbortStep, ReleaseStep
  DEF Step
<1> QED
  BY <1>1, <1>2 DEF Next

\* In every reachable state the variables have their types, the permits are
\* conserved and no wake-up is lost.
THEOREM SafetyInvariant == Spec => [](TypeOK /\ PermitsConserved /\ NoLostWakeup)
<1>1. Inv = (TypeOK /\ PermitsConserved /\ NoLostWakeup)
  BY DEF Inv
<1> QED
  BY <1>1, InitInv, NextInv, PTL DEF Spec, Inv

\* Free permits plus owners is the configured count in every reachable state.
THEOREM PermitsAlwaysConserved == Spec => []PermitsConserved
  BY SafetyInvariant, PTL

\* Nobody is queued while a permit is free, and the queue is the queued calls.
THEOREM WakeupNeverLost == Spec => []NoLostWakeup
  BY SafetyInvariant, PTL

-----------------------------------------------------------------------------
\* What the invariant says of the refinement mapping: a call that has not
\* begun is outside, and the room is full exactly when no permit is free.
LEMMA MappingFacts ==
  ASSUME Inv
  PROVE  /\ \A a \in Acquirers : phase[a] = "new" => a \in Bounded!Outside
         /\ Bounded!Full <=> gate.available = 0
         /\ gate.waiters \in Seq(Acquirers)
         /\ gate.available \in 0..Permits
<1> USE DEF Inv
<1>1. gate.waiters \in Seq(Acquirers) /\ gate.available \in 0..Permits
  BY DEF TypeOK, Gate
<1>2. Bounded!Full <=> gate.available = 0
  <2>1. Bounded!Cardinality(Owners) = Cardinality(Owners)
    BY DEF Bounded!Cardinality, Cardinality
  <2> QED
    BY <1>1, <2>1, OwnersFinite, SemaphoreAssumption
    DEF Bounded!Full, PermitsConserved, SemaphoreAssumption
<1>3. ASSUME NEW a \in Acquirers, phase[a] = "new"
      PROVE  a \in Bounded!Outside
  <2>1. a \notin Bounded!Waiting
    BY <1>3 DEF Bounded!Waiting, NoLostWakeup
  <2> QED
    BY <1>3, <2>1 DEF Bounded!Outside, Owners
<1> QED
  BY <1>1, <1>2, <1>3

\* Every step is a step of the abstract admission or changes nothing of it.
LEMMA StepImplements ==
  ASSUME Inv, NEW a \in Acquirers, Step(a)
  PROVE  Bounded!Next \/ UNCHANGED Bounded!vars
<1> DEFINE gone == {b \in Acquirers : phase[b] \in {"released", "rejected"}}
           w == gate.waiters
<1> USE DEF Inv
<1>1. CASE AcquireCancelled(a) \/ AcquireOverflow(a)
  <2>1. Owners' = Owners /\ gate' = gate
    BY <1>1, QuietStep DEF AcquireCancelled, AcquireOverflow
  <2>2. gone' = gone \cup {a} /\ phase[a] = "new"
    BY <1>1 DEF AcquireCancelled, AcquireOverflow, TypeOK, Phase
  <2>3. Bounded!Refuse(a)
    BY <2>1, <2>2, MappingFacts DEF Bounded!Refuse
  <2> QED
    BY <2>3 DEF Bounded!Next
<1>2. CASE AcquireFree(a)
  <2>1. Owners' = Owners \cup {a} /\ gate'.waiters = w
    BY <1>2, AcquireFreeStep DEF AcquireFree, Take, TypeOK, Gate
  <2>2. gone' = gone /\ phase[a] = "new"
    BY <1>2 DEF AcquireFree, TypeOK, Phase
  <2>3. w = <<>> /\ ~Bounded!Full
    BY <1>2, MappingFacts DEF AcquireFree, NoLostWakeup
  <2>4. Bounded!Enter(a)
    BY <2>1, <2>2, <2>3, MappingFacts DEF Bounded!Enter
  <2> QED
    BY <2>4 DEF Bounded!Next
<1>3. CASE AcquireQueued(a)
  <2>1. Owners' = Owners /\ gate'.waiters = Append(w, a)
    BY <1>3, AcquireQueuedStep DEF AcquireQueued, Enqueue, TypeOK, Gate
  <2>2. gone' = gone /\ phase[a] = "new"
    BY <1>3 DEF AcquireQueued, TypeOK, Phase
  <2>3. Bounded!Full
    BY <1>3, MappingFacts DEF AcquireQueued
  <2>4. Bounded!Join(a)
    BY <2>1, <2>2, <2>3, MappingFacts DEF Bounded!Join
  <2> QED
    BY <2>4 DEF Bounded!Next
<1>4. CASE Abort(a)
  <2>1. Owners' = Owners
    BY <1>4, AbortStep
  <2>2. CASE phase[a] # "queued"
    <3>1. gate' = gate /\ phase' = phase
      BY <1>4, <2>2 DEF Abort
    <3> QED
      BY <2>1, <3>1 DEF Bounded!vars
  <2>3. CASE phase[a] = "queued"
    <3>1. PICK k \in 1..Len(w) : w[k] = a /\ gate'.waiters = SpliceOut(w, k)
      BY <1>4, <2>3, WithdrawProperties DEF Abort
    <3>2. gone' = gone \cup {a}
      BY <1>4, <2>3 DEF Abort, TypeOK, Phase
    <3>3. a \in Bounded!Waiting
      BY <3>1 DEF Bounded!Waiting
    <3>4. Bounded!GiveUp(a)
      BY <2>1, <3>1, <3>2, <3>3 DEF Bounded!GiveUp, SpliceOut
    <3> QED
      BY <3>4 DEF Bounded!Next
  <2> QED
    BY <2>2, <2>3
<1>5. CASE Resume(a) \/ ReleaseAgain(a)
  <2>1. Owners' = Owners /\ gate' = gate
    BY <1>5, QuietStep DEF Resume, ReleaseAgain, vars
  <2>2. gone' = gone
    BY <1>5 DEF Resume, ReleaseAgain, vars, TypeOK, Phase
  <2> QED
    BY <2>1, <2>2 DEF Bounded!vars
<1>6. CASE Release(a)
  <2>1. /\ a \in Owners
        /\ w = <<>> => Owners' = Owners \ {a} /\ gate'.waiters = <<>>
        /\ w # <<>> => /\ Owners' = (Owners \ {a}) \cup {Head(w)}
                       /\ gate'.waiters = Tail(w)
    BY <1>6, ReleaseStep
  <2>2. gone' = gone \cup {a}
    <3>1. \A b \in Woken(gate) : b \in Acquirers /\ phase[b] = "queued"
      <4>1. CASE w # <<>>
        <5>1. Head(w) = w[1] /\ 1 \in 1..Len(w) /\ w[1] \in Acquirers
          BY <4>1, MappingFacts, TailIsSpliceOut
        <5> QED
          BY <4>1, <5>1 DEF Woken, NoLostWakeup
      <4> QED
        BY <4>1 DEF Woken
    <3> QED
      BY <1>6, <3>1 DEF Release, TypeOK, Phase
  <2>3. Bounded!Leave(a)
    BY <2>1, <2>2 DEF Bounded!Leave
  <2> QED
    BY <2>3 DEF Bounded!Next
<1> QED
  BY <1>1, <1>2, <1>3, <1>4, <1>5, <1>6 DEF Step

\* The semaphore implements bounded first-come admission, for any number of
\* calls, permits and queue places.
THEOREM ImplementsAdmission == Spec => AdmissionSpec
<1>1. Init => Bounded!Init
  BY DEF Init, NewGate, Bounded!Init, Owners
<1>2. Inv /\ [Next]_vars => [Bounded!Next]_(Bounded!vars)
  <2> SUFFICES ASSUME Inv, [Next]_vars
               PROVE  Bounded!Next \/ UNCHANGED Bounded!vars
    OBVIOUS
  <2>1. CASE UNCHANGED vars
    BY <2>1 DEF vars, Bounded!vars, Owners
  <2> QED
    BY <2>1, StepImplements DEF Next
<1> QED
  BY <1>1, <1>2, InitInv, NextInv, PTL DEF Spec, AdmissionSpec, Bounded!Spec

-----------------------------------------------------------------------------
(* The event channel.                                                      *)

\* Numbers g were delivered and d were dropped, and these are the first k.
Increasing(g) == \A i, j \in 1..Len(g) : i < j => g[i] < g[j]
Delivered(g, d, k) ==
  /\ g \in Seq(1..k) /\ d \in Nat /\ k \in Nat
  /\ Len(g) + d = k
  /\ Increasing(g)

\* The next number is delivered or dropped, and the account is kept.
LEMMA DeliveredNext ==
  ASSUME NEW g, NEW d, NEW k, Delivered(g, d, k)
  PROVE  Delivered(Append(g, k + 1), d, k + 1) /\ Delivered(g, d + 1, k + 1)
<1> DEFINE h == Append(g, k + 1)
<1>1. g \in Seq(1..k) /\ k \in Nat /\ d \in Nat /\ Len(g) + d = k
  BY DEF Delivered
<1>10. Len(g) \in Nat
  BY <1>1
<1>2. \A i \in 1..Len(g) : g[i] \in 1..k
  BY <1>1
<1>3. g \in Seq(1..k + 1)
  BY <1>1, <1>2
<1>4. h \in Seq(1..k + 1) /\ Len(h) = Len(g) + 1
  BY <1>1, <1>3
<1>11. Len(h) = Len(g) + 1
  BY <1>4
<1>5. \A i \in 1..Len(g) : h[i] = g[i]
  BY <1>1, <1>3
<1>6. h[Len(g) + 1] = k + 1
  BY <1>1, <1>3
<1> HIDE DEF h
<1>7. Increasing(h)
  <2> SUFFICES ASSUME NEW i \in 1..Len(h), NEW j \in 1..Len(h), i < j
               PROVE  h[i] < h[j]
    BY DEF Increasing
  <2>1. i \in 1..Len(g) /\ (j \in 1..Len(g) \/ j = Len(g) + 1)
    BY <1>10, <1>11
  <2>2. h[i] = g[i] /\ g[i] \in 1..k
    BY <2>1, <1>2, <1>5
  <2>3. CASE j \in 1..Len(g)
    BY <2>1, <2>2, <2>3, <1>5 DEF Delivered, Increasing
  <2>4. CASE j = Len(g) + 1
    BY <2>2, <2>4, <1>6, <1>1
  <2> QED BY <2>1, <2>3, <2>4
<1>8. Delivered(h, d, k + 1)
  BY <1>1, <1>10, <1>4, <1>7 DEF Delivered
<1>9. Delivered(g, d + 1, k + 1)
  <2>1. Increasing(g)
    BY DEF Delivered
  <2> QED BY <1>1, <1>10, <1>3, <2>1 DEF Delivered
<1> QED BY <1>8, <1>9 DEF h

Rest(b, k) == b \in Seq(Nat) /\ k \in Nat /\ \A i \in 1..Len(b) : b[i] = k + i
\* A buffer of consecutive numbers goes on with the next one.
LEMMA RestNext ==
  ASSUME NEW b, NEW k, NEW x, Rest(b, k), x = k + Len(b) + 1
  PROVE  Rest(Append(b, x), k) /\ Len(Append(b, x)) = Len(b) + 1
<1> DEFINE h == Append(b, x)
<1>1. x \in Nat /\ Len(b) \in Nat /\ k \in Nat /\ b \in Seq(Nat)
  BY DEF Rest
<1>2. h \in Seq(Nat) /\ Len(h) = Len(b) + 1
  BY <1>1
<1>3. \A i \in 1..Len(b) : h[i] = b[i]
  BY <1>1
<1>4. h[Len(b) + 1] = x
  BY <1>1
<1> HIDE DEF h
<1>5. ASSUME NEW i \in 1..Len(h) PROVE h[i] = k + i
  <2>1. i \in 1..Len(b) \/ i = Len(b) + 1
    BY <1>1, <1>2
  <2>2. CASE i \in 1..Len(b)
    BY <2>2, <1>3 DEF Rest
  <2>3. CASE i = Len(b) + 1
    BY <2>3, <1>4, <1>1
  <2> QED
    BY <2>1, <2>2, <2>3
<1>6. Rest(h, k)
  BY <1>1, <1>2, <1>5 DEF Rest
<1> QED
  BY <1>2, <1>6 DEF h

\* Without its head it begins one later.
LEMMA RestTail ==
  ASSUME NEW b, NEW k, Rest(b, k), b # << >>
  PROVE  Rest(Tail(b), k + 1) /\ Head(b) = k + 1 /\ Len(Tail(b)) = Len(b) - 1 /\ Len(b) \in Nat \ {0}
<1> DEFINE t == Tail(b)
<1>1. t \in Seq(Nat) /\ Len(t) = Len(b) - 1 /\ Len(b) >= 1 /\ Head(b) = b[1] /\ Len(b) \in Nat /\ k \in Nat
      /\ \A i \in 1..Len(t) : t[i] = b[i + 1]
  BY DEF Rest
<1> HIDE DEF t
<1>3. b[1] = k + 1 BY <1>1 DEF Rest
<1>2. Rest(t, k + 1) 
  <2>1. ASSUME NEW i \in 1..Len(t) PROVE t[i] = k + 1 + i
    <3>1. i + 1 \in 1..Len(b) /\ b[i + 1] = k + (i + 1)
      BY <1>1 DEF Rest
    <3> QED BY <3>1, <1>1
  <2> QED BY <1>1, <2>1 DEF Rest
<1> QED BY <1>1, <1>2, <1>3 DEF t

\* How many items are past: delivered or dropped.
Past == pushed - Len(channel.buffer)

\* The inductive invariant of the channel: its type, a receiver is parked
\* once and not resolved meanwhile, and what is past comes before what is
\* buffered.
ChannelParts ==
  /\ Channel(channel)
  /\ channel.waiters \in Seq(Receivers)
  /\ DOMAIN channel.resolved \subseteq Receivers
  /\ channel.closed \in BOOLEAN
  /\ pushed \in 0..MaxPush
  /\ Len(channel.buffer) <= Capacity

ParkedOnce ==
  /\ \A i, j \in 1..Len(channel.waiters) : channel.waiters[i] = channel.waiters[j] => i = j
  /\ \A i \in 1..Len(channel.waiters) : channel.waiters[i] \notin DOMAIN channel.resolved

ItemsInOrder ==
  /\ Delivered(got, channel.dropped, Past)
  /\ Rest(channel.buffer, Past)

ChannelInv == ChannelParts /\ ParkedOnce /\ NobodyParkedInVain /\ ItemsInOrder

\* Nothing is pushed and nobody waits.
LEMMA ChannelInitInv == ChannelInit => ChannelInv
<1> SUFFICES ASSUME ChannelInit PROVE ChannelInv
  OBVIOUS
<1>1. /\ channel.buffer = <<>> /\ channel.waiters = <<>> /\ channel.resolved = <<>>
      /\ channel.closed = FALSE /\ channel.dropped = 0 /\ Channel(channel)
  BY DEF ChannelInit, NewChannel, Channel
<1>2. pushed = 0 /\ got = <<>> /\ Past = 0
  <2>1. Len(channel.buffer) = 0
    BY <1>1
  <2> QED
    BY <2>1 DEF ChannelInit, Past
<1>3. ChannelParts
  <2>1. DOMAIN channel.resolved = {} /\ Len(channel.buffer) = 0
    BY <1>1
  <2>2. 0 <= Capacity /\ 0 \in 0..MaxPush
    BY ChannelAssumption DEF ChannelAssumption
  <2>3. channel.waiters \in Seq(Receivers)
    BY <1>1
  <2>4. pushed \in 0..MaxPush /\ Len(channel.buffer) <= Capacity
    BY <1>2, <2>1, <2>2
  <2>5. DOMAIN channel.resolved \subseteq Receivers /\ channel.closed \in BOOLEAN
    BY <1>1, <2>1
  <2> QED
    BY <1>1, <2>3, <2>4, <2>5 DEF ChannelParts
<1>4. ParkedOnce /\ NobodyParkedInVain
  <2>1. 1..Len(channel.waiters) = {}
    BY <1>1
  <2> QED
    BY <1>1, <2>1 DEF ParkedOnce, NobodyParkedInVain
<1>5. ItemsInOrder
  <2>1. Delivered(<<>>, 0, 0)
    BY DEF Delivered, Increasing
  <2>2. Rest(<<>>, 0)
    BY DEF Rest
  <2> QED
    BY <1>1, <1>2, <2>1, <2>2 DEF ItemsInOrder
<1> QED
  BY <1>3, <1>4, <1>5 DEF ChannelInv

\* Arithmetic of the counters, away from the sequences.
LEMMA PastIsNat ==
  ASSUME ChannelInv
  PROVE  /\ Past \in Nat /\ pushed \in Nat /\ Len(channel.buffer) \in Nat
         /\ pushed = Past + Len(channel.buffer) /\ pushed <= MaxPush
         /\ channel.buffer \in Seq(Nat) /\ channel.dropped \in Nat
         /\ MaxPush \in Nat /\ Capacity \in Nat /\ Capacity > 0
<1>1. channel.buffer \in Seq(Nat) /\ Past \in Nat
  BY DEF ChannelInv, ItemsInOrder, Rest
<1>2. Len(channel.buffer) \in Nat
  BY <1>1
<1>3. channel.dropped \in Nat
  BY DEF ChannelInv, ItemsInOrder, Delivered
<1>4. MaxPush \in Nat /\ Capacity \in Nat /\ Capacity > 0 /\ pushed \in Nat /\ pushed <= MaxPush
  BY ChannelAssumption DEF ChannelAssumption, ChannelInv, ChannelParts
<1> QED
  BY <1>1, <1>2, <1>3, <1>4 DEF Past

\* What a parked receiver leaves behind when it is taken out of the queue at k.
LEMMA ParkedOnceLeaves ==
  ASSUME ParkedOnce, channel.waiters \in Seq(Receivers), NEW k \in 1..Len(channel.waiters),
         NEW result,
         channel'.waiters = SpliceOut(channel.waiters, k),
         channel'.resolved = Put(channel.resolved, channel.waiters[k], result)
  PROVE  ParkedOnce'
<1> DEFINE w == channel.waiters
           v == SpliceOut(w, k)
<1>1. /\ \A b : (\E i \in 1..Len(v) : v[i] = b) <=> b # w[k] /\ \E i \in 1..Len(w) : w[i] = b
      /\ \A i, j \in 1..Len(v) : v[i] = v[j] => i = j
  BY SpliceOutElements DEF ParkedOnce
<1>2. DOMAIN channel'.resolved = DOMAIN channel.resolved \cup {w[k]}
  BY DEF Put
<1>3. ASSUME NEW i \in 1..Len(v)
      PROVE  v[i] \notin DOMAIN channel'.resolved
  <2>1. v[i] # w[k] /\ \E j \in 1..Len(w) : w[j] = v[i]
    BY <1>1
  <2> QED
    BY <1>2, <2>1 DEF ParkedOnce
<1> HIDE DEF v
<1>4. channel'.waiters = v
  BY DEF v
<1> QED
  BY <1>1, <1>3, <1>4 DEF ParkedOnce

\* push() closes no gap in the order: the item goes to the head of the waiters or behind the
\* buffer, and only the oldest makes room.
LEMMA PushItemInv == ASSUME ChannelInv, PushItem PROVE ChannelInv'
<1> DEFINE ch == channel
           x == pushed + 1
           n == Len(ch.buffer)
           over == n >= Capacity
<1>1. /\ pushed < MaxPush /\ channel' = Push(ch, x, Capacity)
      /\ pushed' = IF ch.closed THEN pushed ELSE x
  BY DEF PushItem
<1>2. /\ Past \in Nat /\ pushed \in Nat /\ n \in Nat
      /\ pushed = Past + n /\ MaxPush \in Nat /\ Capacity \in Nat /\ Capacity > 0
  BY PastIsNat
<1>3. Channel(ch)
  BY DEF ChannelInv, ChannelParts
<1>4. /\ Channel(channel') /\ channel'.closed = ch.closed
      /\ ch.closed => channel' = ch
      /\ ~ch.closed /\ ch.waiters # <<>> =>
           /\ channel'.buffer = ch.buffer /\ channel'.dropped = ch.dropped
           /\ channel'.waiters = Tail(ch.waiters)
           /\ channel'.resolved = Put(ch.resolved, Head(ch.waiters), Item(x))
      /\ ~ch.closed /\ ch.waiters = <<>> =>
           /\ channel'.waiters = ch.waiters /\ channel'.resolved = ch.resolved
           /\ channel'.buffer = Append(IF over THEN Tail(ch.buffer) ELSE ch.buffer, x)
           /\ channel'.dropped = IF over THEN ch.dropped + 1 ELSE ch.dropped
  BY <1>1, <1>3, PushParts
<1> HIDE DEF over, n
<1>5. x \in 0..MaxPush /\ pushed \in 0..MaxPush
  BY <1>1, <1>2
<1>6. CASE ch.closed
  <2>1. channel' = channel /\ pushed' = pushed
    BY <1>1, <1>4, <1>6
  <2>2. got' = got
    BY <2>1 DEF PushItem
  <2> QED
    BY <2>1, <2>2 DEF ChannelInv, ChannelParts, ParkedOnce, NobodyParkedInVain, ItemsInOrder, Past
<1>7. CASE ~ch.closed /\ ch.waiters # <<>>
  <2> DEFINE c == Head(ch.waiters)
  <2>1. ch.waiters \in Seq(Receivers)
    BY DEF ChannelInv, ChannelParts
  <2>2. Tail(ch.waiters) = SpliceOut(ch.waiters, 1) /\ c = ch.waiters[1] /\ 1 \in 1..Len(ch.waiters)
    BY <1>7, <2>1, TailIsSpliceOut
  <2>3. c \in Receivers /\ Tail(ch.waiters) \in Seq(Receivers)
    BY <2>1, <2>2, <1>7
  <2>4. c \notin DOMAIN ch.resolved
    BY <2>2 DEF ChannelInv, ParkedOnce
  <2>5. /\ channel'.buffer = ch.buffer /\ channel'.dropped = ch.dropped
        /\ channel'.waiters = Tail(ch.waiters)
        /\ channel'.resolved = Put(ch.resolved, c, Item(x)) /\ pushed' = x
    BY <1>1, <1>4, <1>7
  <2> HIDE DEF c
  <2>6. /\ DOMAIN channel'.resolved = DOMAIN ch.resolved \cup {c}
        /\ channel'.resolved[c] = Item(x)
    BY <2>5 DEF Put
  <2>7. got' = Append(got, x)
    BY <2>4, <2>6 DEF PushItem
  <2>8. ch.buffer = <<>> /\ ~ch.closed
    BY <1>7 DEF ChannelInv, NobodyParkedInVain
  <2>9. n = 0
    BY <2>8 DEF n
  <2>10. Past = pushed /\ Past' = Past + 1 /\ x = Past + 1
    <3>1. Past' = x - n
      BY <2>5 DEF Past, n
    <3> QED
      BY <1>2, <2>9, <3>1
  <2>11. ChannelParts'
    BY <1>4, <1>5, <2>3, <2>5, <2>6 DEF ChannelInv, ChannelParts
  <2>12. ParkedOnce'
    BY <2>1, <2>2, <2>5, ParkedOnceLeaves DEF ChannelInv
  <2>13. NobodyParkedInVain'
    BY <1>4, <2>5, <2>8 DEF NobodyParkedInVain
  <2>14. Delivered(got', channel'.dropped, Past + 1)
    BY <2>5, <2>7, <2>10, DeliveredNext DEF ChannelInv, ItemsInOrder
  <2>15. Rest(<<>>, Past + 1)
    BY <1>2 DEF Rest
  <2> QED
    BY <2>5, <2>8, <2>10, <2>11, <2>12, <2>13, <2>14, <2>15 DEF ChannelInv, ItemsInOrder
<1>8. CASE ~ch.closed /\ ch.waiters = <<>>
  <2>1. /\ channel'.waiters = <<>> /\ channel'.resolved = ch.resolved
        /\ channel'.buffer = Append(IF over THEN Tail(ch.buffer) ELSE ch.buffer, x)
        /\ channel'.dropped = IF over THEN ch.dropped + 1 ELSE ch.dropped
        /\ pushed' = x
    BY <1>1, <1>4, <1>8
  <2>2. got' = got
    BY <2>1 DEF PushItem
  <2>3. Rest(ch.buffer, Past)
    BY DEF ChannelInv, ItemsInOrder
  <2>7. x = Past + n + 1
    BY <1>2
  <2>4. ParkedOnce' /\ NobodyParkedInVain'
    <3>1. 1..Len(channel'.waiters) = {}
      BY <2>1
    <3> QED
      BY <2>1, <3>1 DEF ParkedOnce, NobodyParkedInVain
  <2>5. CASE ~over
    <3>1. channel'.buffer = Append(ch.buffer, x) /\ channel'.dropped = ch.dropped
      BY <2>1, <2>5
    <3>2. Rest(channel'.buffer, Past) /\ Len(channel'.buffer) = n + 1
      BY <2>3, <2>7, <3>1, RestNext DEF n
    <3>3. Past' = Past /\ Len(channel'.buffer) <= Capacity
      <4>1. Past' = x - (n + 1)
        BY <2>1, <3>2 DEF Past
      <4>2. n + 1 <= Capacity
        BY <1>2, <2>5 DEF over
      <4> QED
        BY <1>2, <3>2, <4>1, <4>2
    <3>4. ItemsInOrder'
      BY <2>2, <3>1, <3>2, <3>3 DEF ChannelInv, ItemsInOrder
    <3> QED
      BY <1>4, <1>5, <2>1, <2>4, <3>3, <3>4 DEF ChannelInv, ChannelParts
  <2>6. CASE over
    <3> DEFINE t == Tail(ch.buffer)
    <3>1. channel'.buffer = Append(t, x) /\ channel'.dropped = ch.dropped + 1
      BY <2>1, <2>6
    <3>2. ch.buffer # <<>>
      <4>1. n > 0
        BY <1>2, <2>6 DEF over
      <4> QED
        BY <4>1 DEF n
    <3>3. Rest(t, Past + 1) /\ Len(t) = n - 1 /\ n > 0
      BY <2>3, <3>2, RestTail DEF n
    <3> HIDE DEF t
    <3>4. x = Past + 1 + Len(t) + 1
      BY <1>2, <3>3
    <3>5. Rest(channel'.buffer, Past + 1) /\ Len(channel'.buffer) = Len(t) + 1
      BY <3>1, <3>3, <3>4, RestNext
    <3>6. Past' = Past + 1
      <4>1. Past' = x - (Len(t) + 1)
        BY <2>1, <3>5 DEF Past
      <4> QED
        BY <1>2, <3>3, <4>1
    <3>7. Len(channel'.buffer) <= Capacity
      <4>1. n <= Capacity
        BY DEF n, ChannelInv, ChannelParts
      <4> QED
        BY <1>2, <3>3, <3>5, <4>1
    <3>8. Delivered(got', channel'.dropped, Past + 1)
      BY <2>2, <3>1, DeliveredNext DEF ChannelInv, ItemsInOrder
    <3>9. ItemsInOrder'
      BY <3>5, <3>6, <3>8 DEF ItemsInOrder
    <3> QED
      BY <1>4, <1>5, <2>1, <2>4, <3>7, <3>9 DEF ChannelInv, ChannelParts
  <2> QED
    BY <2>5, <2>6
<1> QED
  BY <1>6, <1>7, <1>8

\* A call of receive takes the oldest item, or parks its caller behind those who wait.
LEMMA CallReceiveInv ==
  ASSUME ChannelInv, NEW c \in Receivers, CallReceive(c) PROVE ChannelInv'
<1> DEFINE ch == channel
           n == Len(ch.buffer)
<1>1. c \notin DOMAIN ch.resolved /\ \A i \in 1..Len(ch.waiters) : ch.waiters[i] # c
  BY DEF CallReceive, Calling, Parked
<1>2. /\ Past \in Nat /\ pushed \in Nat /\ n \in Nat /\ pushed = Past + n
  BY PastIsNat
<1> HIDE DEF n
<1>3. Channel(ch) /\ channel' = Receive(ch, c) /\ pushed' = pushed
  BY DEF ChannelInv, ChannelParts, CallReceive
<1>4. /\ Channel(channel')
      /\ channel'.closed = ch.closed /\ channel'.dropped = ch.dropped
      /\ ch.buffer # <<>> =>
           /\ channel'.buffer = Tail(ch.buffer) /\ channel'.waiters = ch.waiters
           /\ channel'.resolved = Put(ch.resolved, c, Item(Head(ch.buffer)))
      /\ ch.buffer = <<>> /\ ch.closed =>
           /\ channel'.buffer = ch.buffer /\ channel'.waiters = ch.waiters
           /\ channel'.resolved = Put(ch.resolved, c, Closed)
      /\ ch.buffer = <<>> /\ ~ch.closed =>
           /\ channel'.buffer = ch.buffer /\ channel'.resolved = ch.resolved
           /\ channel'.waiters = Append(ch.waiters, c)
  BY <1>3, ReceiveParts
<1>5. CASE ch.buffer # <<>>
  <2> DEFINE x == Head(ch.buffer)
  <2>1. /\ channel'.buffer = Tail(ch.buffer) /\ channel'.waiters = ch.waiters
        /\ channel'.resolved = Put(ch.resolved, c, Item(x))
    BY <1>4, <1>5
  <2>2. Rest(Tail(ch.buffer), Past + 1) /\ x = Past + 1 /\ Len(Tail(ch.buffer)) = n - 1
    BY <1>5, RestTail DEF ChannelInv, ItemsInOrder, n
  <2> HIDE DEF x
  <2>3. ch.waiters = <<>>
    BY <1>5 DEF ChannelInv, NobodyParkedInVain
  <2>4. /\ DOMAIN channel'.resolved = DOMAIN ch.resolved \cup {c}
        /\ channel'.resolved[c] = Item(x)
    BY <2>1 DEF Put
  <2>5. Item(x) # Closed /\ Item(x).value = x
    BY DEF Item, Closed
  <2>6. got' = Append(got, Past + 1)
    BY <2>2, <2>4, <2>5 DEF CallReceive
  <2>7. Past' = Past + 1
    <3>1. Len(channel'.buffer) = n - 1
      BY <2>1, <2>2
    <3>2. Past' = pushed - (n - 1)
      BY <1>3, <3>1 DEF Past
    <3> QED
      BY <1>2, <3>2
  <2>8. Len(channel'.buffer) <= Capacity
    <3>1. n <= Capacity /\ Capacity \in Nat
      BY PastIsNat DEF n, ChannelInv, ChannelParts
    <3> QED
      BY <1>2, <2>1, <2>2, <3>1
  <2>9. Delivered(got', channel'.dropped, Past + 1)
    BY <1>4, <2>6, DeliveredNext DEF ChannelInv, ItemsInOrder
  <2>10. ItemsInOrder'
    BY <2>1, <2>2, <2>7, <2>9 DEF ItemsInOrder
  <2>11. ChannelParts'
    BY <1>3, <1>4, <2>1, <2>4, <2>8 DEF ChannelInv, ChannelParts
  <2>12. ParkedOnce' /\ NobodyParkedInVain'
    <3>1. channel'.waiters = <<>> /\ 1..Len(channel'.waiters) = {}
      BY <2>1, <2>3
    <3> QED
      BY <3>1 DEF ParkedOnce, NobodyParkedInVain
  <2> QED
    BY <2>10, <2>11, <2>12 DEF ChannelInv
<1>6. CASE ch.buffer = <<>> /\ ch.closed
  <2>1. /\ channel'.buffer = ch.buffer /\ channel'.waiters = ch.waiters
        /\ channel'.resolved = Put(ch.resolved, c, Closed)
    BY <1>4, <1>6
  <2>2. channel'.resolved[c] = Closed /\ DOMAIN channel'.resolved = DOMAIN ch.resolved \cup {c}
    BY <2>1 DEF Put
  <2>3. got' = got /\ Past' = Past
    BY <1>3, <2>1, <2>2 DEF CallReceive, Past
  <2>4. ch.waiters = <<>>
    BY <1>6 DEF ChannelInv, NobodyParkedInVain
  <2>5. ItemsInOrder' /\ ChannelParts'
    BY <1>3, <1>4, <2>1, <2>2, <2>3 DEF ChannelInv, ItemsInOrder, ChannelParts
  <2>6. ParkedOnce' /\ NobodyParkedInVain'
    <3>1. channel'.waiters = <<>> /\ 1..Len(channel'.waiters) = {}
      BY <2>1, <2>4
    <3> QED
      BY <3>1 DEF ParkedOnce, NobodyParkedInVain
  <2> QED
    BY <2>5, <2>6 DEF ChannelInv
<1>7. CASE ch.buffer = <<>> /\ ~ch.closed
  <2> DEFINE w == Append(ch.waiters, c)
  <2>1. /\ channel'.buffer = ch.buffer /\ channel'.resolved = ch.resolved
        /\ channel'.waiters = w
    BY <1>4, <1>7
  <2>2. got' = got /\ Past' = Past
    BY <1>1, <1>3, <2>1 DEF CallReceive, Past
  <2>3. ch.waiters \in Seq(Receivers)
    BY DEF ChannelInv, ChannelParts
  <2>4. /\ w \in Seq(Receivers) /\ Len(w) = Len(ch.waiters) + 1 /\ Len(ch.waiters) \in Nat
        /\ \A i \in 1..Len(ch.waiters) : w[i] = ch.waiters[i]
        /\ w[Len(ch.waiters) + 1] = c
    BY <2>3
  <2> HIDE DEF w
  <2>5. ItemsInOrder' /\ ChannelParts' /\ NobodyParkedInVain'
    BY <1>3, <1>4, <1>7, <2>1, <2>2, <2>4 DEF ChannelInv, ItemsInOrder, ChannelParts, NobodyParkedInVain
  <2>6. \A i \in 1..Len(w) : i \in 1..Len(ch.waiters) \/ i = Len(ch.waiters) + 1
    BY <2>4
  <2>7. ParkedOnce'
    <3>1. \A i, j \in 1..Len(w) : w[i] = w[j] => i = j
      BY <1>1, <2>4, <2>6 DEF ChannelInv, ParkedOnce
    <3>2. \A i \in 1..Len(w) : w[i] \notin DOMAIN ch.resolved
      BY <1>1, <2>4, <2>6 DEF ChannelInv, ParkedOnce
    <3> QED
      BY <2>1, <3>1, <3>2 DEF ParkedOnce
  <2> QED
    BY <2>5, <2>7 DEF ChannelInv
<1> QED
  BY <1>5, <1>6, <1>7

\* Every step keeps the invariant.
LEMMA ChannelNextInv == ChannelInv /\ [ChannelNext]_channelVars => ChannelInv'
<1> SUFFICES ASSUME ChannelInv, [ChannelNext]_channelVars PROVE ChannelInv'
  OBVIOUS
<1> USE DEF ChannelInv
<1>1. CASE UNCHANGED channelVars
  BY <1>1 DEF channelVars, ChannelParts, ParkedOnce, NobodyParkedInVain, ItemsInOrder, Past
<1>2. CASE PushItem
  BY <1>2, PushItemInv
<1>3. CASE CloseChannel
  <2>1. /\ Channel(channel') /\ channel'.closed = TRUE /\ channel'.waiters = <<>>
        /\ channel'.buffer = channel.buffer /\ channel'.dropped = channel.dropped
        /\ DOMAIN channel'.resolved = DOMAIN channel.resolved \cup ToSet(channel.waiters)
    <3>1. channel' = Close(channel) /\ Channel(channel)
      BY <1>3 DEF CloseChannel, ChannelParts
    <3>2. channel'.resolved = [d \in DOMAIN channel.resolved \cup ToSet(channel.waiters) |->
                                 IF d \in ToSet(channel.waiters) THEN Closed ELSE channel.resolved[d]]
      BY <3>1, CloseParts
    <3> QED
      <4>1. DOMAIN channel'.resolved = DOMAIN channel.resolved \cup ToSet(channel.waiters)
        BY <3>2
      <4> QED
        BY <3>1, <4>1, CloseParts
  <2>2. ToSet(channel.waiters) \subseteq Receivers
    BY DEF ToSet, ChannelParts
  <2>3. pushed' = pushed /\ got' = got /\ Past' = Past
    BY <1>3, <2>1 DEF CloseChannel, Past
  <2>4. ParkedOnce' /\ NobodyParkedInVain' /\ channel'.waiters \in Seq(Receivers)
    <3>1. 1..Len(channel'.waiters) = {}
      BY <2>1
    <3> QED
      BY <2>1, <3>1 DEF ParkedOnce, NobodyParkedInVain
  <2> QED
    BY <2>1, <2>2, <2>3, <2>4 DEF ChannelParts, ItemsInOrder
<1>4. ASSUME NEW c \in Receivers, CallReceive(c) PROVE ChannelInv'
  BY <1>4, CallReceiveInv
<1>5. ASSUME NEW c \in Receivers, Expire(c) PROVE ChannelInv'
  <2> DEFINE k == CHOOSE i \in 1..Len(channel.waiters) : channel.waiters[i] = c
  <2>1. k \in 1..Len(channel.waiters) /\ channel.waiters[k] = c
    BY <1>5 DEF Expire, Parked
  <2>2. /\ Channel(channel') /\ channel'.closed = channel.closed
        /\ channel'.buffer = channel.buffer /\ channel'.dropped = channel.dropped
        /\ channel'.waiters = RemoveAt(channel.waiters, k)
        /\ channel'.resolved = Put(channel.resolved, c, Timeout)
    BY <1>5, ElapseParts DEF Expire, ChannelParts
  <2> HIDE DEF k
  <2>3. channel.waiters \in Seq(Receivers)
    BY DEF ChannelParts
  <2>4. channel'.waiters = SpliceOut(channel.waiters, k) /\ channel'.waiters \in Seq(Receivers)
    BY <2>1, <2>2, <2>3, RemoveAtIsSpliceOut, SpliceOutProperties
  <2>5. ParkedOnce'
    BY <2>1, <2>2, <2>3, <2>4, ParkedOnceLeaves
  <2>6. DOMAIN channel'.resolved = DOMAIN channel.resolved \cup {c}
    BY <2>2 DEF Put
  <2>7. pushed' = pushed /\ got' = got /\ Past' = Past
    BY <1>5, <2>2 DEF Expire, Past
  <2>8. channel.waiters # <<>>
    BY <2>1
  <2>9. NobodyParkedInVain'
    BY <2>2, <2>8 DEF NobodyParkedInVain
  <2> QED
    BY <2>2, <2>4, <2>5, <2>6, <2>7, <2>9 DEF ChannelParts, ItemsInOrder
<1>6. ASSUME NEW c \in Receivers, Return(c) PROVE ChannelInv'
  <2>1. /\ Channel(channel') /\ channel'.closed = channel.closed
        /\ channel'.waiters = channel.waiters
        /\ channel'.buffer = channel.buffer /\ channel'.dropped = channel.dropped
        /\ DOMAIN channel'.resolved = DOMAIN channel.resolved \ {c}
    <3>1. channel' = PickUp(channel, c) /\ Channel(channel)
      BY <1>6 DEF Return, ChannelParts
    <3>2. channel'.resolved = [d \in DOMAIN channel.resolved \ {c} |-> channel.resolved[d]]
      BY <3>1, PickUpParts
    <3>3. DOMAIN channel'.resolved = DOMAIN channel.resolved \ {c}
      BY <3>2
    <3> QED
      BY <3>1, <3>3, PickUpParts
  <2>2. pushed' = pushed /\ got' = got /\ Past' = Past
    BY <1>6, <2>1 DEF Return, Past
  <2> QED
    BY <2>1, <2>2 DEF ChannelParts, ParkedOnce, NobodyParkedInVain, ItemsInOrder
<1> QED
  BY <1>1, <1>2, <1>3, <1>4, <1>5, <1>6 DEF ChannelNext

\* A sequence is one over any set its elements are in.
LEMMA ElementsOfSeq ==
  ASSUME NEW S, NEW T, NEW s \in Seq(S), \A i \in 1..Len(s) : s[i] \in T
  PROVE  s \in Seq(T)
  OBVIOUS

\* Concatenation, of sequences over different sets.
LEMMA ConcatSeqs ==
  ASSUME NEW S, NEW T, NEW s \in Seq(S), NEW t \in Seq(T)
  PROVE  /\ Len(s \o t) = Len(s) + Len(t)
         /\ \A n \in 1..(Len(s) + Len(t)) :
              (s \o t)[n] = IF n <= Len(s) THEN s[n] ELSE t[n - Len(s)]
<1>1. s \in Seq(S \cup T) /\ t \in Seq(S \cup T)
  BY SeqMonotonic
<1> QED
  BY <1>1, ConcatProperties

\* What the invariant says of the items: accounted for, in order, oldest dropped.
LEMMA ChannelInvTells == ChannelInv => ChannelTypeOK /\ StreamIntact
<1> SUFFICES ASSUME ChannelInv PROVE ChannelTypeOK /\ StreamIntact
  OBVIOUS
<1> DEFINE b == channel.buffer
           k == Past
           all == got \o b
<1>1. /\ k \in Nat /\ pushed \in Nat /\ Len(b) \in Nat /\ pushed = k + Len(b) /\ pushed <= MaxPush
      /\ MaxPush \in Nat /\ channel.dropped \in Nat
  BY PastIsNat
<1>2. Delivered(got, channel.dropped, k) /\ Rest(b, k)
  BY DEF ChannelInv, ItemsInOrder
<1> HIDE DEF k
<1>3. got \in Seq(1..k) /\ b \in Seq(Nat)
  BY <1>2 DEF Delivered, Rest
<1>4. Len(got) \in Nat /\ Len(got) + channel.dropped = k
  <2>1. Len(got) + channel.dropped = k
    BY <1>2 DEF Delivered
  <2> QED
    BY <1>3, <2>1
<1>5. \A i \in 1..Len(got) : got[i] \in 1..k
  BY <1>3, ElementOfSeq
<1>6. \A i \in 1..Len(b) : b[i] = k + i
  BY <1>2 DEF Rest
<1>7. ChannelTypeOK
  <2>1. \A i \in 1..Len(got) : got[i] \in 1..MaxPush
    BY <1>1, <1>5
  <2>2. \A i \in 1..Len(b) : b[i] \in 1..MaxPush
    BY <1>1, <1>6
  <2>3. got \in Seq(1..MaxPush)
    BY <1>3, <2>1, ElementsOfSeq
  <2>4. b \in Seq(1..MaxPush)
    BY <1>3, <2>2, ElementsOfSeq
  <2>5. channel.dropped \in 0..MaxPush
    BY <1>1, <1>4
  <2> QED
    BY <2>3, <2>4, <2>5 DEF ChannelTypeOK, ChannelInv, ChannelParts
<1>8. k = pushed - Len(b)
  BY <1>1
<1>9. DropsOldestOnly
  BY <1>6, <1>8 DEF DropsOldestOnly
<1>10. Len(got) + Len(b) + channel.dropped = pushed
  BY <1>1, <1>4
<1>11. ASSUME NEW i \in 1..Len(all), NEW j \in 1..Len(all), i < j
       PROVE  all[i] < all[j]
  <2>1. /\ Len(all) = Len(got) + Len(b)
        /\ \A n \in 1..(Len(got) + Len(b)) :
             all[n] = IF n <= Len(got) THEN got[n] ELSE b[n - Len(got)]
    BY <1>3, ConcatSeqs
  <2> HIDE DEF all
  <2>2. CASE j <= Len(got)
    <3>1. i \in 1..Len(got) /\ j \in 1..Len(got) /\ all[i] = got[i] /\ all[j] = got[j]
      BY <1>1, <1>4, <1>11, <2>1, <2>2
    <3> QED
      BY <1>2, <1>11, <3>1 DEF Delivered, Increasing
  <2>3. CASE i <= Len(got) /\ ~(j <= Len(got))
    <3>1. i \in 1..Len(got) /\ all[i] = got[i] /\ j - Len(got) \in 1..Len(b)
          /\ all[j] = b[j - Len(got)]
      BY <1>1, <1>4, <1>11, <2>1, <2>3
    <3>2. got[i] \in 1..k /\ b[j - Len(got)] = k + (j - Len(got))
      BY <1>5, <1>6, <3>1
    <3> QED
      BY <1>1, <1>4, <3>1, <3>2
  <2>4. CASE ~(i <= Len(got)) /\ ~(j <= Len(got))
    <3>1. /\ i - Len(got) \in 1..Len(b) /\ all[i] = b[i - Len(got)]
          /\ j - Len(got) \in 1..Len(b) /\ all[j] = b[j - Len(got)]
      BY <1>1, <1>4, <1>11, <2>1, <2>4
    <3>2. all[i] = k + (i - Len(got)) /\ all[j] = k + (j - Len(got))
      BY <1>6, <3>1
    <3> QED
      BY <1>1, <1>4, <1>11, <2>1, <3>2
  <2>5. j <= Len(got) \/ (i <= Len(got) /\ ~(j <= Len(got))) \/ (~(i <= Len(got)) /\ ~(j <= Len(got)))
    BY <1>4, <1>11
  <2> QED
    BY <2>2, <2>3, <2>4, <2>5
<1>12. NothingUnaccounted
  BY <1>10, <1>11 DEF NothingUnaccounted
<1> QED
  BY <1>7, <1>9, <1>12 DEF StreamIntact, ChannelInv

\* The event channel keeps its promise to the consumer, whatever the capacity:
\* what it gets is in order, what it misses is counted and older than the rest,
\* and nobody is parked while there is something to take.
THEOREM ChannelKeepsStream == ChannelSpec => [](ChannelTypeOK /\ StreamIntact)
<1>1. ChannelInit => ChannelInv
  BY ChannelInitInv
<1>2. ChannelInv /\ [ChannelNext]_channelVars => ChannelInv'
  BY ChannelNextInv
<1> QED
  BY <1>1, <1>2, ChannelInvTells, PTL DEF ChannelSpec

-----------------------------------------------------------------------------
(* The ask_user channel.                                                   *)

BatchRecord ==
  [asked : BOOLEAN, key : Keys, questions : SUBSET Questions,
   answers : SUBSET Questions, settled : BOOLEAN,
   reply : {"none", "answered", "deferred"}, timer : BOOLEAN]
IsLive(r) == r.asked /\ ~r.settled

\* One batch: its reply agrees with its answers, and a timer runs for a live batch only.
BatchOK(r) ==
  /\ r \in BatchRecord
  /\ r.answers \subseteq r.questions
  /\ r.timer => IsLive(r)
  /\ r.asked => /\ r.settled <=> r.reply # "none"
                /\ r.reply = "answered" <=> r.answers = r.questions

\* The inductive invariant: each batch, each stopped key, and for each key the batch that
\* was asked last, which is the one that answers reach.
BatchesOK ==
  /\ DOMAIN batch = 1..Batches /\ batch = [b \in 1..Batches |-> batch[b]]
  /\ \A b \in 1..Batches : BatchOK(batch[b])
  /\ \A b \in 1..Batches : IsLive(batch[b]) => batch[b].key \notin stopped
KeysOK ==
  /\ waitsOn \in [Keys -> 0..Batches] /\ newest \in [Keys -> 0..Batches]
  /\ stopped \subseteq Keys
  /\ \A k \in Keys : newest[k] # 0 => batch[newest[k]].asked /\ batch[newest[k]].key = k
  /\ \A k \in Keys :
       waitsOn[k] = IF newest[k] # 0 /\ IsLive(batch[newest[k]]) THEN newest[k] ELSE 0
AskInv == BatchesOK /\ KeysOK

\* The invariant says what the run checks.
LEMMA AskInvTells == AskInv => AskTypeOK /\ AnswersArrive
<1> SUFFICES ASSUME AskInv PROVE AskTypeOK /\ AnswersArrive
  OBVIOUS
<1>1. AskTypeOK
  BY DEF AskInv, BatchesOK, KeysOK, AskTypeOK, BatchOK, BatchRecord
<1>2. RepliesComplete
  BY DEF AskInv, BatchesOK, RepliesComplete, BatchOK, IsLive, Live
<1>3. NewestIsReachable
  BY DEF AskInv, KeysOK, NewestIsReachable, IsLive, Live, NoBatch
<1> QED
  BY <1>1, <1>2, <1>3 DEF AnswersArrive

\* Nobody has asked.
LEMMA AskInitInv == AskInit => AskInv
<1> SUFFICES ASSUME AskInit PROVE AskInv
  OBVIOUS
<1>1. BatchOK(NotAsked) /\ ~IsLive(NotAsked)
  BY AskAssumption DEF AskAssumption, NotAsked, BatchRecord, BatchOK, IsLive
<1>2. \A b \in 1..Batches : batch[b] = NotAsked
  BY DEF AskInit
<1>3. BatchesOK
  BY <1>1, <1>2 DEF AskInit, BatchesOK
<1>4. \A k \in Keys : newest[k] = 0 /\ waitsOn[k] = 0
  BY DEF AskInit, NoBatch
<1>5. KeysOK
  BY <1>4, AskAssumption DEF AskAssumption, AskInit, KeysOK, NoBatch
<1> QED
  BY <1>3, <1>5 DEF AskInv

\* What settle does to the batches: those it reaches first get the reply and are over.
LEMMA SettledBatches ==
  ASSUME NEW table, NEW waiting, NEW who, NEW reply \in {"answered", "deferred"},
         Settled(table, waiting, who, reply),
         \A b \in 1..Batches : /\ table[b] \in BatchRecord
                               /\ table[b].answers \subseteq table[b].questions,
         \A b \in 1..Batches : b \notin who \/ table[b].settled => BatchOK(table[b]),
         \A b \in 1..Batches :
           b \in who /\ ~table[b].settled =>
             (reply = "answered" <=> table[b].answers = table[b].questions)
  PROVE  /\ DOMAIN batch' = 1..Batches /\ batch' = [b \in 1..Batches |-> batch'[b]]
         /\ \A b \in 1..Batches :
              /\ BatchOK(batch'[b])
              /\ batch'[b].asked = table[b].asked /\ batch'[b].key = table[b].key
              /\ IsLive(batch'[b]) <=> IsLive(table[b]) /\ b \notin who
<1> DEFINE over(r) == [r EXCEPT !.settled = TRUE, !.timer = FALSE, !.reply = reply]
<1>1. batch' = [b \in 1..Batches |-> IF b \in who /\ ~table[b].settled THEN over(table[b]) ELSE table[b]]
  BY DEF Settled
<1>2. ASSUME NEW r \in BatchRecord
      PROVE  /\ over(r) \in BatchRecord /\ over(r).asked = r.asked /\ over(r).key = r.key
             /\ over(r).answers = r.answers /\ over(r).questions = r.questions
             /\ over(r).settled = TRUE /\ over(r).timer = FALSE /\ over(r).reply = reply
  BY DEF BatchRecord
<1> HIDE DEF over
<1>3. ASSUME NEW b \in 1..Batches
      PROVE  /\ BatchOK(batch'[b])
             /\ batch'[b].asked = table[b].asked /\ batch'[b].key = table[b].key
             /\ IsLive(batch'[b]) <=> IsLive(table[b]) /\ b \notin who
  <2>1. CASE b \in who /\ ~table[b].settled
    <3>1. batch'[b] = over(table[b])
      BY <1>1, <2>1
    <3>2. table[b] \in BatchRecord /\ table[b].answers \subseteq table[b].questions
          /\ (reply = "answered" <=> table[b].answers = table[b].questions)
      BY <2>1
    <3>3. /\ batch'[b] \in BatchRecord /\ batch'[b].asked = table[b].asked
          /\ batch'[b].key = table[b].key
          /\ batch'[b].answers = table[b].answers /\ batch'[b].questions = table[b].questions
          /\ batch'[b].settled = TRUE /\ batch'[b].timer = FALSE /\ batch'[b].reply = reply
      <4>1. /\ over(table[b]) \in BatchRecord /\ over(table[b]).asked = table[b].asked
            /\ over(table[b]).key = table[b].key
            /\ over(table[b]).answers = table[b].answers
            /\ over(table[b]).questions = table[b].questions
            /\ over(table[b]).settled = TRUE /\ over(table[b]).timer = FALSE
            /\ over(table[b]).reply = reply
        BY <1>2, <3>2
      <4> QED
        BY <3>1, <4>1
    <3>4. BatchOK(batch'[b])
      BY <3>2, <3>3 DEF BatchOK
    <3>5. ~IsLive(batch'[b])
      BY <3>3 DEF IsLive
    <3> QED
      BY <2>1, <3>3, <3>4, <3>5
  <2>2. CASE ~(b \in who /\ ~table[b].settled)
    <3>1. batch'[b] = table[b]
      BY <1>1, <2>2
    <3> QED
      BY <2>2, <3>1 DEF IsLive
  <2> QED
    BY <2>1, <2>2
<1> QED
  BY <1>1, <1>3

\* A batch of questions is asked: the one that waited under its key before is superseded.
LEMMA AskStepInv ==
  ASSUME AskInv, NEW b \in 1..Batches, NEW k \in Keys, NEW questions \in (SUBSET Questions) \ {{}},
         Ask(b, k, questions)
  PROVE  AskInv'
<1> DEFINE table == Registered(b, k, questions)
<1>1. ~batch[b].asked /\ newest' = [newest EXCEPT ![k] = b] /\ stopped' = stopped
  BY DEF Ask
<1>2. /\ \A d \in 1..Batches \ {b} : table[d] = batch[d]
      /\ table[b] \in BatchRecord /\ table[b].asked /\ ~table[b].settled /\ table[b].key = k
      /\ table[b].answers = {} /\ table[b].questions = questions /\ table[b].reply = "none"
      /\ table = [d \in 1..Batches |-> table[d]]
  BY AskAssumption DEF AskInv, BatchesOK, Registered, NotAsked, BatchRecord, AskAssumption
<1>3. questions # {}
  OBVIOUS
<1> HIDE DEF table
<1>4. \A d \in 1..Batches : BatchOK(table[d])
  BY <1>2, <1>3 DEF AskInv, BatchesOK, BatchOK, IsLive
<1>5. \A d \in 1..Batches : IsLive(table[d]) => d = b \/ table[d].key \notin stopped
  BY <1>2 DEF AskInv, BatchesOK
<1>6. \A j \in Keys : newest[j] # b
  BY <1>1, AskAssumption DEF AskInv, KeysOK, AskAssumption
<1>7. newest' \in [Keys -> 0..Batches] /\ \A j \in Keys : newest'[j] = IF j = k THEN b ELSE newest[j]
  BY <1>1, AskAssumption DEF AskInv, KeysOK, AskAssumption
<1>8. CASE AbortedFirst(k)
  <2>1. Settled(table, [waitsOn EXCEPT ![k] = b], {b}, "deferred")
    BY <1>8 DEF Ask, table
  <2>2. /\ DOMAIN batch' = 1..Batches /\ batch' = [d \in 1..Batches |-> batch'[d]]
        /\ \A d \in 1..Batches :
              /\ BatchOK(batch'[d])
              /\ batch'[d].asked = table[d].asked /\ batch'[d].key = table[d].key
              /\ IsLive(batch'[d]) <=> IsLive(table[d]) /\ d # b
    <3>1. \A d \in 1..Batches : /\ table[d] \in BatchRecord
                                /\ table[d].answers \subseteq table[d].questions
      BY <1>4 DEF BatchOK
    <3>2. table[b].answers # table[b].questions
      BY <1>2, <1>3
    <3> QED
      BY <1>4, <2>1, <3>1, <3>2, SettledBatches
  <2>3. waitsOn' = [j \in Keys |-> IF j = k \/ waitsOn[j] = b THEN 0 ELSE waitsOn[j]]
    BY <2>1 DEF Settled, NoBatch, AskInv, KeysOK
  <2>4. waitsOn' \in [Keys -> 0..Batches]
    BY <2>3, AskAssumption DEF AskInv, KeysOK, AskAssumption
  <2>5. BatchesOK'
    BY <1>1, <1>5, <2>2 DEF BatchesOK
  <2>6. KeysOK'
    <3>1. ASSUME NEW j \in Keys
          PROVE  /\ newest'[j] # 0 => batch'[newest'[j]].asked /\ batch'[newest'[j]].key = j
                 /\ waitsOn'[j] = IF newest'[j] # 0 /\ IsLive(batch'[newest'[j]]) THEN newest'[j] ELSE 0
      <4>1. CASE j = k
        <5>1. newest'[j] = b /\ waitsOn'[j] = 0
          BY <1>7, <2>3, <4>1
        <5> QED
          BY <1>2, <2>2, <4>1, <5>1
      <4>2. CASE j # k
        <5>1. newest'[j] = newest[j] /\ newest[j] # b /\ newest[j] \in 0..Batches
          BY <1>6, <1>7, <4>2 DEF AskInv, KeysOK
        <5>2. newest[j] # 0 => newest[j] \in 1..Batches
          BY <5>1, AskAssumption DEF AskAssumption
        <5>3. newest[j] # 0 => /\ batch'[newest[j]].asked = batch[newest[j]].asked
                               /\ batch'[newest[j]].key = batch[newest[j]].key
                               /\ IsLive(batch'[newest[j]]) <=> IsLive(batch[newest[j]])
          BY <1>2, <2>2, <5>1, <5>2
        <5>4. waitsOn[j] # b /\ waitsOn'[j] = waitsOn[j]
          BY <2>3, <4>2, <5>1, AskAssumption DEF AskInv, KeysOK, AskAssumption
        <5> QED
          BY <5>1, <5>3, <5>4 DEF AskInv, KeysOK
      <4> QED
        BY <4>1, <4>2
    <3> QED
      BY <1>1, <1>7, <2>4, <3>1 DEF KeysOK, AskInv
  <2> QED
    BY <2>5, <2>6 DEF AskInv
<1>9. CASE ~AbortedFirst(k)
  <2>1. batch' = table /\ waitsOn' = [waitsOn EXCEPT ![k] = b]
    BY <1>9 DEF Ask, table
  <2>2. BatchesOK'
    BY <1>1, <1>2, <1>4, <1>5, <1>9, <2>1 DEF BatchesOK, AbortedFirst
  <2>3. waitsOn' \in [Keys -> 0..Batches] /\ \A j \in Keys : waitsOn'[j] = IF j = k THEN b ELSE waitsOn[j]
    BY <2>1, AskAssumption DEF AskInv, KeysOK, AskAssumption
  <2>4. KeysOK'
    <3>1. ASSUME NEW j \in Keys
          PROVE  /\ newest'[j] # 0 => batch'[newest'[j]].asked /\ batch'[newest'[j]].key = j
                 /\ waitsOn'[j] = IF newest'[j] # 0 /\ IsLive(batch'[newest'[j]]) THEN newest'[j] ELSE 0
      <4>1. CASE j = k
        <5>1. newest'[j] = b /\ waitsOn'[j] = b /\ b # 0
          BY <1>7, <2>3, <4>1, AskAssumption DEF AskAssumption
        <5> QED
          BY <1>2, <2>1, <4>1, <5>1 DEF IsLive
      <4>2. CASE j # k
        <5>1. newest'[j] = newest[j] /\ newest[j] # b /\ newest[j] \in 0..Batches
          BY <1>6, <1>7, <4>2 DEF AskInv, KeysOK
        <5>2. newest[j] # 0 => newest[j] \in 1..Batches
          BY <5>1, AskAssumption DEF AskAssumption
        <5>3. newest[j] # 0 => batch'[newest[j]] = batch[newest[j]]
          BY <1>2, <2>1, <5>1, <5>2
        <5>4. waitsOn'[j] = waitsOn[j]
          BY <2>3, <4>2
        <5> QED
          BY <5>1, <5>3, <5>4 DEF AskInv, KeysOK
      <4> QED
        BY <4>1, <4>2
    <3> QED
      BY <1>1, <1>7, <2>3, <3>1 DEF KeysOK, AskInv
  <2> QED
    BY <2>2, <2>4 DEF AskInv
<1> QED
  BY <1>8, <1>9

\* The other ways to settle: nothing but the settled batches and their keys move.
LEMMA SettleInv ==
  ASSUME AskInv, NEW table, NEW who, NEW reply \in {"answered", "deferred"},
         Settled(table, waitsOn, who, reply), newest' = newest, stopped' \subseteq Keys,
         \A b \in 1..Batches :
           /\ table[b] \in BatchRecord /\ table[b].answers \subseteq table[b].questions
           /\ table[b].asked = batch[b].asked /\ table[b].key = batch[b].key
           /\ table[b].settled = batch[b].settled,
         \A b \in 1..Batches : b \notin who \/ table[b].settled => BatchOK(table[b]),
         \A b \in 1..Batches :
           b \in who /\ ~table[b].settled =>
             (reply = "answered" <=> table[b].answers = table[b].questions),
         \A b \in 1..Batches : IsLive(batch[b]) /\ b \notin who => batch[b].key \notin stopped',
         0 \notin who
  PROVE  AskInv'
<1>1. /\ DOMAIN batch' = 1..Batches /\ batch' = [d \in 1..Batches |-> batch'[d]]
      /\ \A d \in 1..Batches :
            /\ BatchOK(batch'[d])
            /\ batch'[d].asked = batch[d].asked /\ batch'[d].key = batch[d].key
            /\ IsLive(batch'[d]) <=> IsLive(batch[d]) /\ d \notin who
  BY SettledBatches DEF IsLive
<1>2. waitsOn' = [k \in Keys |-> IF waitsOn[k] \in who THEN 0 ELSE waitsOn[k]]
  BY DEF Settled, NoBatch
<1>3. BatchesOK'
  BY <1>1 DEF BatchesOK
<1>4. waitsOn' \in [Keys -> 0..Batches]
  BY <1>2, AskAssumption DEF AskInv, KeysOK, AskAssumption
<1>5. \A k \in Keys : newest[k] # 0 => newest[k] \in 1..Batches
  BY AskAssumption DEF AskInv, KeysOK, AskAssumption
<1>6. KeysOK'
  BY <1>1, <1>2, <1>4, <1>5 DEF AskInv, KeysOK
<1> QED
  BY <1>3, <1>6 DEF AskInv

\* An answer reaches the question that is asked under its key and waits.
LEMMA AnswerInv ==
  ASSUME AskInv, NEW k \in Keys, NEW q \in Questions, Answer(k, q) PROVE AskInv'
<1> DEFINE b == waitsOn[k]
           table == [batch EXCEPT ![b].answers = @ \cup {q}]
<1>1. b # 0 /\ q \in batch[b].questions /\ stopped' = stopped /\ newest' = newest
  BY DEF Answer, NoBatch
<1>2. b \in 1..Batches /\ b = newest[k] /\ IsLive(batch[b])
  BY <1>1, AskAssumption DEF AskAssumption, AskInv, KeysOK
<1>3. \A d \in 1..Batches : BatchOK(batch[d]) /\ batch[d] \in BatchRecord
  BY DEF AskInv, BatchesOK, BatchOK
<1> HIDE DEF b
<1>4. /\ table[b] = [batch[b] EXCEPT !.answers = @ \cup {q}]
      /\ \A d \in 1..Batches \ {b} : table[d] = batch[d]
      /\ table = [d \in 1..Batches |-> table[d]]
  BY <1>2 DEF AskInv, BatchesOK
<1>5. /\ table[b] \in BatchRecord
      /\ table[b].answers = batch[b].answers \cup {q} /\ table[b].questions = batch[b].questions
      /\ table[b].settled = batch[b].settled /\ table[b].asked = batch[b].asked
      /\ table[b].key = batch[b].key /\ table[b].timer = batch[b].timer /\ table[b].reply = batch[b].reply
  BY <1>2, <1>3, <1>4 DEF BatchRecord
<1>6. table[b].answers \subseteq table[b].questions
  BY <1>1, <1>2, <1>3, <1>5 DEF BatchOK
<1>7. IsFiniteSet(table[b].questions)
  BY <1>5, AskAssumption, FS_Subset DEF AskAssumption, BatchRecord
<1>8. /\ IsFiniteSet(table[b].answers)
      /\ Cardinality(table[b].answers) \in Nat /\ Cardinality(table[b].questions) \in Nat
      /\ Cardinality(table[b].answers) <= Cardinality(table[b].questions)
      /\ Cardinality(table[b].answers) = Cardinality(table[b].questions)
           => table[b].answers = table[b].questions
  BY <1>6, <1>7, FS_Subset, FS_CardinalityType
<1>9. CASE Cardinality(table[b].answers) >= Cardinality(table[b].questions)
  <2>1. Settled(table, waitsOn, {b}, "answered")
    BY <1>9 DEF Answer, Complete, b
  <2> HIDE DEF table
  <2>2. table[b].answers = table[b].questions
    BY <1>8, <1>9
  <2> QED
    <3>1. \A d \in 1..Batches :
           /\ table[d] \in BatchRecord /\ table[d].answers \subseteq table[d].questions
           /\ table[d].asked = batch[d].asked /\ table[d].key = batch[d].key
           /\ table[d].settled = batch[d].settled
      BY <1>3, <1>4, <1>5, <1>6 DEF BatchOK
    <3>2. \A d \in 1..Batches : d \notin {b} \/ table[d].settled => BatchOK(table[d])
      BY <1>2, <1>3, <1>4, <1>5 DEF IsLive
    <3>3. \A d \in 1..Batches : IsLive(batch[d]) => batch[d].key \notin stopped'
      BY <1>1 DEF AskInv, BatchesOK
    <3>4. stopped' \subseteq Keys
      BY <1>1 DEF AskInv, KeysOK
    <3> QED
      BY <1>1, <1>2, <2>1, <2>2, <3>1, <3>2, <3>3, <3>4, SettleInv
<1>10. CASE ~(Cardinality(table[b].answers) >= Cardinality(table[b].questions))
  <2>1. batch' = table /\ waitsOn' = waitsOn
    BY <1>10 DEF Answer, b
  <2> HIDE DEF table
  <2>2. table[b].answers # table[b].questions
    BY <1>8, <1>10
  <2>3. BatchOK(table[b]) /\ IsLive(table[b])
    BY <1>2, <1>3, <1>5, <1>6, <2>2 DEF BatchOK, IsLive
  <2>4. BatchesOK'
    BY <1>1, <1>2, <1>3, <1>4, <1>5, <2>1, <2>3 DEF BatchesOK, AskInv
  <2>5. KeysOK'
    <3>1. \A d \in 1..Batches : IsLive(table[d]) <=> IsLive(batch[d])
      BY <1>2, <1>4, <2>3
    <3>2. \A d \in 1..Batches : table[d].asked = batch[d].asked /\ table[d].key = batch[d].key
      BY <1>4, <1>5
    <3>3. \A j \in Keys : newest[j] # 0 => newest[j] \in 1..Batches
      BY AskAssumption DEF AskInv, KeysOK, AskAssumption
    <3> QED
      BY <1>1, <2>1, <3>1, <3>2, <3>3 DEF AskInv, KeysOK
  <2> QED
    BY <2>4, <2>5 DEF AskInv
<1> QED
  BY <1>9, <1>10

\* Every step keeps the invariant.
LEMMA AskNextInv == AskInv /\ [AskNext]_askVars => AskInv'
<1> SUFFICES ASSUME AskInv, [AskNext]_askVars PROVE AskInv'
  OBVIOUS
<1>1. CASE UNCHANGED askVars
  BY <1>1 DEF askVars, AskInv, BatchesOK, KeysOK
<1>2. ASSUME NEW b \in 1..Batches, NEW k \in Keys, NEW questions \in (SUBSET Questions) \ {{}},
             Ask(b, k, questions)
      PROVE  AskInv'
  BY <1>2, AskStepInv
<1>3. ASSUME NEW k \in Keys, NEW q \in Questions, Answer(k, q) PROVE AskInv'
  BY <1>3, AnswerInv
<1>4. \A d \in 1..Batches :
        /\ BatchOK(batch[d]) /\ batch[d] \in BatchRecord /\ batch[d].answers \subseteq batch[d].questions
        /\ IsLive(batch[d]) => batch[d].answers # batch[d].questions
  BY DEF AskInv, BatchesOK, BatchOK, IsLive
<1>5. \A d \in 1..Batches : IsLive(batch[d]) => batch[d].key \notin stopped
  BY DEF AskInv, BatchesOK
<1>6. stopped \subseteq Keys
  BY DEF AskInv, KeysOK
<1>7. ASSUME NEW b \in 1..Batches, Deadline(b) PROVE AskInv'
  <2>1. /\ Settled(batch, waitsOn, {b}, "deferred") /\ stopped' = stopped /\ newest' = newest
        /\ batch[b].timer
    BY <1>7 DEF Deadline
  <2>2. IsLive(batch[b])
    BY <1>4, <2>1 DEF BatchOK
  <2>3. 0 \notin {b}
    BY AskAssumption DEF AskAssumption
  <2> QED
    BY <1>4, <1>5, <1>6, <2>1, <2>2, <2>3, SettleInv
<1>8. ASSUME NEW k \in Keys, AbortKey(k) PROVE AskInv'
  <2> DEFINE who == {b \in 1..Batches : Live(b) /\ batch[b].key = k}
  <2>1. /\ Settled(batch, waitsOn, who, "deferred") /\ stopped' = stopped \cup {k} /\ newest' = newest
    BY <1>8 DEF AbortKey
  <2>2. \A d \in 1..Batches : d \in who <=> IsLive(batch[d]) /\ batch[d].key = k
    BY DEF Live, IsLive
  <2>3. 0 \notin who
    BY AskAssumption DEF AskAssumption
  <2> HIDE DEF who
  <2>4. stopped' \subseteq Keys
    BY <1>6, <2>1
  <2>5. \A b \in 1..Batches : IsLive(batch[b]) /\ b \notin who => batch[b].key \notin stopped'
    BY <1>5, <2>1, <2>2
  <2> QED
    BY <1>4, <2>1, <2>2, <2>3, <2>4, <2>5, SettleInv
<1> QED
  BY <1>1, <1>2, <1>3, <1>7, <1>8 DEF AskNext

\* A tool gets a human's answers if and only if each of its questions has one, the batch
\* asked last under a key is the one answers reach, and a stopped run waits for no human:
\* for any number of batches, keys and questions.
THEOREM AskChannelKeepsAnswers == AskSpec => [](AskTypeOK /\ AnswersArrive)
<1> QED
  BY AskInitInv, AskNextInv, AskInvTells, PTL DEF AskSpec


-----------------------------------------------------------------------------
(* Breakers and their registry (Breaker), for any number of columns,        *)
(* endpoints and reports, any threshold, cooldown and cap.                   *)

MapEntry == [endpoint : 1..Endpoints, id : Nat]
BreakerRecord == [failures : Nat, openedAt : Nat]
ColumnRecord == [at : {"new", "running", "ended"}, endpoint : 1..Endpoints, breaker : Nat]
ReportRecord == [id : Nat, endpoint : 1..Endpoints, ok : BOOLEAN, at : Nat]

Asked(e) == \E j \in 1..Len(requests) : requests[j] = e
IsRunning(c) == column[c].at = "running"

BreakerShape ==
  /\ registry \in Seq(MapEntry) /\ Len(registry) <= MaxSize
  /\ breakers \in Seq(BreakerRecord)
  /\ column \in [1..Columns -> ColumnRecord]
  /\ requests \in Seq(1..Endpoints)
  /\ reports \in Seq(ReportRecord)
  /\ now \in Nat

\* Whatever names a breaker names one that was made, for an endpoint that was
\* asked for, and no two entries name the same one.
NamesBreakers ==
  /\ \A i \in 1..Len(registry) : registry[i].id \in 1..Len(breakers)
  /\ \A i, j \in 1..Len(registry) : registry[i].id = registry[j].id => i = j
  /\ \A c \in 1..Columns : IsRunning(c) =>
       column[c].breaker \in 1..Len(breakers) /\ Asked(column[c].endpoint)
  /\ \A k \in 1..Len(reports) :
       reports[k].id \in 1..Len(breakers) /\ Asked(reports[k].endpoint)

\* A breaker counts the failures since its last success and is timed by its last report.
LastOf(p, k) == k \in p /\ \A i \in p : i <= k
CountsReports(id) ==
  /\ breakers[id].openedAt <= now
  /\ IsFiniteSet(Failing(ReportsTo(id)))
  /\ breakers[id].failures = Cardinality(Failing(ReportsTo(id)))
  /\ breakers[id].failures >= Threshold =>
       \E k \in ReportsTo(id) : LastOf(ReportsTo(id), k) /\ breakers[id].openedAt = reports[k].at
AllCount == \A id \in 1..Len(breakers) : CountsReports(id)

\* The registry is in the order of the last requests, and what it has lost was
\* asked for before everything it has.
KeepsOrder ==
  /\ \A i \in 1..Len(registry) : Asked(registry[i].endpoint)
  /\ \A i, j \in 1..Len(registry) :
       i < j => LastAsked(registry[i].endpoint) < LastAsked(registry[j].endpoint)
  /\ \A e \in 1..Endpoints : Asked(e) /\ ~Known(e) =>
       /\ Len(registry) = MaxSize
       /\ \A i \in 1..Len(registry) : LastAsked(e) < LastAsked(registry[i].endpoint)

\* As long as nothing had to go, endpoint and breaker are one and the same.
Few == Cardinality(Range(requests)) <= MaxSize
SharedBreakers ==
  Few => \A i \in 1..Len(registry) :
           /\ \A k \in 1..Len(reports) :
                reports[k].endpoint = registry[i].endpoint <=> reports[k].id = registry[i].id
           /\ \A c \in 1..Columns : IsRunning(c) =>
                (column[c].endpoint = registry[i].endpoint <=> column[c].breaker = registry[i].id)

BreakerInv == BreakerShape /\ NamesBreakers /\ AllCount /\ KeepsOrder /\ SharedBreakers

\* The last place of e in a sequence that has it.
LastIn(s, e) == CHOOSE i \in DOMAIN s : s[i] = e /\ \A j \in i + 1..Len(s) : s[j] # e
LastPlace(s, e, i) ==
  i \in 1..Len(s) /\ s[i] = e /\ \A j \in 1..Len(s) : s[j] = e => j <= i

LEMMA LastInFacts ==
  ASSUME NEW T, NEW s \in Seq(T), NEW e, NEW h \in 1..Len(s), s[h] = e
  PROVE  LastPlace(s, e, LastIn(s, e))
<1> DEFINE len == Len(s)
           IsLast(i) == s[i] = e /\ \A j \in i + 1..len : s[j] # e
           T0 == {k \in Nat : k < len /\ s[len - k] = e}
<1>1. len \in Nat /\ DOMAIN s = 1..len
  OBVIOUS
<1>2. len - h \in T0
  BY <1>1
<1>3. PICK k \in T0 : \A y \in T0 : k <= y
  BY <1>2, LeastElement
<1>4. ASSUME NEW i \in len - k + 1..len, s[i] = e PROVE FALSE
  <2>1. len - i \in Nat /\ len - i < k /\ len - (len - i) = i /\ len - i < len
    BY <1>1, <1>4
  <2>2. len - i \in T0
    BY <1>4, <2>1
  <2> QED
    BY <1>3, <2>1, <2>2
<1>5. len - k \in DOMAIN s /\ IsLast(len - k)
  BY <1>1, <1>3, <1>4
<1>6. LastIn(s, e) = CHOOSE i \in DOMAIN s : IsLast(i)
  BY DEF LastIn
<1>7. LastIn(s, e) \in DOMAIN s /\ IsLast(LastIn(s, e))
  <2> HIDE DEF IsLast
  <2> QED
    BY <1>5, <1>6
<1> QED
  BY <1>1, <1>7 DEF LastPlace

LEMMA LastAskedFacts ==
  ASSUME requests \in Seq(1..Endpoints), NEW e, Asked(e)
  PROVE  LastPlace(requests, e, LastAsked(e))
<1>1. LastAsked(e) = LastIn(requests, e)
  BY DEF LastAsked, LastIn
<1> QED
  BY <1>1, LastInFacts DEF Asked

\* Another request changes the last request of its endpoint only.
LEMMA LastAskedNext ==
  ASSUME requests \in Seq(1..Endpoints), NEW e \in 1..Endpoints, requests' = Append(requests, e)
  PROVE  /\ LastAsked(e)' = Len(requests) + 1
         /\ \A d : Asked(d)' <=> Asked(d) \/ d = e
         /\ \A d : Asked(d) /\ d # e => LastAsked(d)' = LastAsked(d)
<1> DEFINE len == Len(requests)
<1>1. /\ len \in Nat /\ requests' \in Seq(1..Endpoints) /\ Len(requests') = len + 1
      /\ requests'[len + 1] = e /\ \A i \in 1..len : requests'[i] = requests[i]
  BY AppendProperties
<1>2. ASSUME NEW d PROVE Asked(d)' <=> Asked(d) \/ d = e
  <2>1. \A i \in 1..len + 1 : i \in 1..len \/ i = len + 1
    BY <1>1
  <2>2. len + 1 \in 1..len + 1 /\ \A i \in 1..len : i \in 1..len + 1
    BY <1>1
  <2> QED
    BY <1>1, <2>1, <2>2 DEF Asked
<1>3. \A d : Asked(d) => LastPlace(requests, d, LastAsked(d))
  BY LastAskedFacts
<1>4. ASSUME NEW d, Asked(d)' PROVE LastPlace(requests', d, LastAsked(d)')
  <2>1. LastAsked(d)' = LastIn(requests', d)
    BY DEF LastAsked, LastIn
  <2> QED
    BY <1>1, <1>4, <2>1, LastInFacts DEF Asked
<1>5. LastAsked(e)' = len + 1
  <2>1. len + 1 \in 1..Len(requests') /\ LastPlace(requests', e, LastAsked(e)')
    BY <1>1, <1>2, <1>4
  <2>2. len + 1 <= LastAsked(e)' /\ LastAsked(e)' \in 1..len + 1
    BY <1>1, <2>1 DEF LastPlace
  <2> QED
    BY <1>1, <2>2
<1>6. ASSUME NEW d, Asked(d), d # e PROVE LastAsked(d)' = LastAsked(d)
  <2>1. LastPlace(requests, d, LastAsked(d)) /\ LastPlace(requests', d, LastAsked(d)')
    BY <1>2, <1>3, <1>4, <1>6
  <2> DEFINE a == LastAsked(d)
             b == LastAsked(d)'
  <2> HIDE DEF a, b
  <2>2. a \in 1..len /\ requests[a] = d /\ \A j \in 1..len : requests[j] = d => j <= a
    BY <2>1 DEF LastPlace, a
  <2>3. b \in 1..len + 1 /\ requests'[b] = d /\ \A j \in 1..len + 1 : requests'[j] = d => j <= b
    BY <1>1, <2>1 DEF LastPlace, b
  <2>4. b # len + 1
    BY <1>1, <1>6, <2>3
  <2>5. b \in 1..len /\ requests[b] = d
    BY <1>1, <2>3, <2>4
  <2>6. a \in 1..len + 1 /\ requests'[a] = d
    BY <1>1, <2>2
  <2>7. a <= b /\ b <= a
    BY <2>2, <2>3, <2>5, <2>6
  <2>8. a = b
    BY <1>1, <2>2, <2>5, <2>7
  <2> QED
    BY <2>8 DEF a, b
<1> QED
  BY <1>2, <1>5, <1>6
\* No request, no breaker.
LEMMA BreakerInitInv == BreakerInit => BreakerInv
<1> SUFFICES ASSUME BreakerInit PROVE BreakerInv
  OBVIOUS
<1> USE BreakerAssumption
<1>1. /\ registry = <<>> /\ breakers = <<>> /\ now = 0 /\ requests = <<>> /\ reports = <<>>
      /\ column = [c \in 1..Columns |-> HoldsNone("new")]
  BY DEF BreakerInit
<1>2. /\ Len(registry) = 0 /\ Len(breakers) = 0 /\ Len(requests) = 0 /\ Len(reports) = 0
      /\ registry \in Seq(MapEntry) /\ breakers \in Seq(BreakerRecord)
      /\ requests \in Seq(1..Endpoints) /\ reports \in Seq(ReportRecord)
  BY <1>1
<1>3. HoldsNone("new") \in ColumnRecord /\ HoldsNone("new").at = "new"
  BY DEF HoldsNone, ColumnRecord
<1>4. column \in [1..Columns -> ColumnRecord] /\ \A c \in 1..Columns : ~IsRunning(c)
  BY <1>1, <1>3 DEF IsRunning
<1>5. BreakerShape
  BY <1>1, <1>2, <1>4 DEF BreakerShape
<1>6. \A i \in 1..0 : FALSE
  OBVIOUS
<1>7. NamesBreakers /\ AllCount /\ KeepsOrder /\ SharedBreakers
  BY <1>2, <1>4, <1>6 DEF NamesBreakers, AllCount, KeepsOrder, SharedBreakers, Asked
<1> QED
  BY <1>5, <1>7 DEF BreakerInv

\* The clock leaves everything, and a column that ends holds nothing.
LEMMA BreakerQuiet ==
  ASSUME BreakerInv, UNCHANGED <<registry, breakers, requests, reports>>,
         now' \in Nat, now <= now', column' \in [1..Columns -> ColumnRecord],
         \A c \in 1..Columns : IsRunning(c)' => IsRunning(c) /\ column'[c] = column[c]
  PROVE  BreakerInv'
<1>1. BreakerShape'
  BY DEF BreakerInv, BreakerShape
<1>2. NamesBreakers'
  BY DEF BreakerInv, NamesBreakers, Asked
<1>3. AllCount'
  <2> SUFFICES ASSUME NEW id \in 1..Len(breakers) PROVE CountsReports(id)'
    BY DEF AllCount
  <2>1. CountsReports(id)
    BY DEF BreakerInv, AllCount
  <2>2. breakers[id] \in BreakerRecord /\ now \in Nat
    BY DEF BreakerInv, BreakerShape
  <2>3. breakers[id].openedAt <= now'
    BY <2>1, <2>2 DEF CountsReports, BreakerRecord
  <2>4. ReportsTo(id)' = ReportsTo(id) /\ Failing(ReportsTo(id))' = Failing(ReportsTo(id))
    BY DEF ReportsTo, Failing
  <2> QED
    BY <2>1, <2>3, <2>4 DEF CountsReports
<1>4. KeepsOrder'
  <2>1. \A e : LastAsked(e)' = LastAsked(e)
    BY DEF LastAsked
  <2>2. \A e : (Asked(e)' <=> Asked(e)) /\ (Known(e)' <=> Known(e))
    BY DEF Asked, Known, Places
  <2> QED
    BY <2>1, <2>2 DEF BreakerInv, KeepsOrder
<1>5. SharedBreakers'
  BY DEF BreakerInv, SharedBreakers, Few
<1> QED
  BY <1>1, <1>2, <1>3, <1>4, <1>5 DEF BreakerInv

LEMMA BreakerTickInv == ASSUME BreakerInv, Tick PROVE BreakerInv'
<1>1. now' = now + 1 /\ UNCHANGED <<registry, breakers, column, requests, reports>>
  BY DEF Tick
<1>2. now \in Nat /\ column \in [1..Columns -> ColumnRecord]
  BY DEF BreakerInv, BreakerShape
<1> QED
  BY <1>1, <1>2, BreakerQuiet DEF IsRunning

LEMMA EndColumnInv ==
  ASSUME BreakerInv, NEW c \in 1..Columns, EndColumn(c)
  PROVE  BreakerInv'
<1>1. /\ column' = [column EXCEPT ![c] = HoldsNone("ended")]
      /\ UNCHANGED <<registry, breakers, now, requests, reports>>
  BY DEF EndColumn
<1>2. now \in Nat /\ column \in [1..Columns -> ColumnRecord]
  BY DEF BreakerInv, BreakerShape
<1>3. HoldsNone("ended") \in ColumnRecord /\ HoldsNone("ended").at # "running"
  BY BreakerAssumption DEF HoldsNone, ColumnRecord
<1>4. /\ column' \in [1..Columns -> ColumnRecord]
      /\ \A d \in 1..Columns : IsRunning(d)' => IsRunning(d) /\ column'[d] = column[d]
  BY <1>1, <1>2, <1>3 DEF IsRunning
<1> QED
  BY <1>1, <1>2, <1>4, BreakerQuiet

\* One more report: the breaker it goes to counts it, the others do not.
LEMMA ReportCounts ==
  ASSUME BreakerInv, NEW r \in ReportRecord, r.id \in 1..Len(breakers), r.at = now,
         reports' = Append(reports, r), now' = now,
         breakers' = [breakers EXCEPT ![r.id] = IF r.ok THEN Success(@) ELSE Failure(@)]
  PROVE  AllCount' /\ breakers' \in Seq(BreakerRecord) /\ Len(breakers') = Len(breakers)
<1> USE BreakerAssumption
<1> DEFINE n == Len(reports)
           b == breakers[r.id]
           v == IF r.ok THEN Success(b) ELSE Failure(b)
<1>1. /\ reports \in Seq(ReportRecord) /\ n \in Nat /\ now \in Nat
      /\ breakers \in Seq(BreakerRecord) /\ b \in BreakerRecord
      /\ DOMAIN reports = 1..n
  BY DEF BreakerInv, BreakerShape
<1>2. /\ reports' \in Seq(ReportRecord) /\ Len(reports') = n + 1 /\ DOMAIN reports' = 1..n + 1
      /\ reports'[n + 1] = r /\ \A i \in 1..n : reports'[i] = reports[i]
  BY <1>1, AppendProperties
<1>3. v \in BreakerRecord
  BY <1>1 DEF Success, Failure, Fresh, BreakerRecord
<1> HIDE DEF v
<1>4. breakers' = [breakers EXCEPT ![r.id] = v]
  BY DEF v
<1>5. /\ breakers' \in Seq(BreakerRecord) /\ Len(breakers') = Len(breakers)
      /\ breakers'[r.id] = v /\ \A d \in 1..Len(breakers) : d # r.id => breakers'[d] = breakers[d]
  BY <1>1, <1>3, <1>4
<1> HIDE DEF n
<1>6. ASSUME NEW d \in 1..Len(breakers), d # r.id PROVE CountsReports(d)'
  <2>1. ReportsTo(d)' = ReportsTo(d)
    BY <1>1, <1>2, <1>6 DEF ReportsTo
  <2>2. Failing(ReportsTo(d))' = Failing(ReportsTo(d))
    <3>1. ReportsTo(d) \subseteq 1..n
      BY <1>1 DEF ReportsTo
    <3> QED
      BY <1>2, <2>1, <3>1 DEF Failing
  <2>3. \A k \in ReportsTo(d) : reports'[k] = reports[k]
    BY <1>1, <1>2 DEF ReportsTo
  <2>4. CountsReports(d)
    BY DEF BreakerInv, AllCount
  <2> QED
    BY <1>5, <1>6, <2>1, <2>2, <2>3, <2>4 DEF CountsReports, LastOf
<1>7. CountsReports(r.id)'
  <2> DEFINE p == ReportsTo(r.id)
             q == p \cup {n + 1}
  <2>1. p \subseteq 1..n
    BY <1>1 DEF ReportsTo
  <2>2. ReportsTo(r.id)' = q
    BY <1>1, <1>2 DEF ReportsTo
  <2>3. LastOf(q, n + 1) /\ reports'[n + 1].at = now
    BY <1>1, <1>2, <2>1 DEF LastOf
  <2>4. CountsReports(r.id)
    BY DEF BreakerInv, AllCount
  <2>5. IsFiniteSet(Failing(p)) /\ b.failures = Cardinality(Failing(p)) /\ b.openedAt <= now
    BY <2>4 DEF CountsReports
  <2>6. Failing(ReportsTo(r.id))' = {i \in q : \A j \in q : j >= i => ~reports'[j].ok}
    BY <2>2 DEF Failing
  <2>7. CASE r.ok
    <3>1. Failing(ReportsTo(r.id))' = {}
      BY <1>1, <1>2, <2>1, <2>6, <2>7
    <3>2. v = [failures |-> 0, openedAt |-> 0]
      BY <2>7 DEF v, Success, Fresh
    <3>3. v.failures = 0 /\ ~(v.failures >= Threshold) /\ v.openedAt <= now
      BY <1>1, <3>2
    <3>4. IsFiniteSet({}) /\ Cardinality({}) = 0
      BY FS_EmptySet
    <3> QED
      BY <1>5, <3>1, <3>3, <3>4 DEF CountsReports
  <2>8. CASE ~r.ok
    <3>1. Failing(ReportsTo(r.id))' = Failing(p) \cup {n + 1}
      <4>1. \A j \in p : j \in 1..n /\ reports'[j] = reports[j] /\ j # n + 1 /\ ~(j >= n + 1)
        BY <1>1, <1>2, <2>1
      <4>2. ~reports'[n + 1].ok
        BY <1>2, <2>8
      <4>3. ASSUME NEW i \in p
            PROVE  (\A j \in q : j >= i => ~reports'[j].ok) <=> (\A j \in p : j >= i => ~reports[j].ok)
        BY <4>1, <4>2
      <4>4. \A j \in q : j >= n + 1 => ~reports'[j].ok
        BY <4>1, <4>2
      <4> QED
        BY <2>6, <4>3, <4>4 DEF Failing
    <3>2. n + 1 \notin Failing(p)
      BY <1>1, <2>1 DEF Failing
    <3>3. /\ IsFiniteSet(Failing(ReportsTo(r.id))')
          /\ Cardinality(Failing(ReportsTo(r.id))') = b.failures + 1
      BY <2>5, <3>1, <3>2, FS_AddElement
    <3>4. /\ v.failures = b.failures + 1
          /\ v.openedAt = IF b.failures + 1 >= Threshold THEN now ELSE b.openedAt
      BY <2>8 DEF v, Failure
    <3>5. v.openedAt <= now
      BY <1>1, <2>5, <3>4
    <3>6. v.failures >= Threshold => v.openedAt = now
      BY <3>4
    <3> QED
      BY <1>5, <2>2, <2>3, <3>3, <3>4, <3>5, <3>6 DEF CountsReports, LastOf
  <2> QED
    BY <2>7, <2>8
<1> QED
  BY <1>5, <1>6, <1>7 DEF AllCount
\* A column reports to its breaker.
LEMMA ReportInv ==
  ASSUME BreakerInv, NEW c \in 1..Columns, NEW ok \in BOOLEAN, Report(c, ok)
  PROVE  BreakerInv'
<1> DEFINE id == column[c].breaker
           r == [id |-> id, endpoint |-> column[c].endpoint, ok |-> ok, at |-> now]
           n == Len(reports)
<1>1. /\ IsRunning(c) /\ reports' = Append(reports, r)
      /\ breakers' = [breakers EXCEPT ![id] = IF ok THEN Success(@) ELSE Failure(@)]
      /\ UNCHANGED <<registry, column, now, requests>>
  BY DEF Report, IsRunning
<1>2. /\ id \in 1..Len(breakers) /\ Asked(column[c].endpoint)
      /\ column[c] \in ColumnRecord /\ now \in Nat /\ n \in Nat
      /\ reports \in Seq(ReportRecord)
  <2>1. id \in 1..Len(breakers) /\ Asked(column[c].endpoint)
    BY <1>1 DEF BreakerInv, NamesBreakers
  <2>2. column[c] \in ColumnRecord /\ now \in Nat /\ reports \in Seq(ReportRecord)
    BY DEF BreakerInv, BreakerShape
  <2> QED
    BY <2>1, <2>2
<1>3. r \in ReportRecord /\ r.id = id /\ r.ok = ok /\ r.at = now
  BY <1>2 DEF ReportRecord, ColumnRecord
<1>4. AllCount' /\ breakers' \in Seq(BreakerRecord) /\ Len(breakers') = Len(breakers)
  <2> HIDE DEF r
  <2> QED
    BY <1>1, <1>2, <1>3, ReportCounts
<1>5. /\ reports' \in Seq(ReportRecord) /\ Len(reports') = n + 1
      /\ reports'[n + 1] = r /\ \A i \in 1..n : reports'[i] = reports[i]
  <2> HIDE DEF r
  <2> QED
    BY <1>1, <1>2, <1>3, AppendProperties
<1>6. \A k \in 1..Len(reports') : k \in 1..n \/ k = n + 1
  BY <1>2, <1>5
<1>7. r.endpoint = column[c].endpoint
  OBVIOUS
<1>8. BreakerShape'
  BY <1>1, <1>4, <1>5 DEF BreakerInv, BreakerShape
<1> HIDE DEF r, n, id
<1>9. NamesBreakers'
  BY <1>1, <1>2, <1>3, <1>4, <1>5, <1>6, <1>7 DEF BreakerInv, NamesBreakers, IsRunning, Asked
<1>10. KeepsOrder'
  <2>1. \A e : LastAsked(e)' = LastAsked(e)
    BY <1>1 DEF LastAsked
  <2>2. \A e : (Asked(e)' <=> Asked(e)) /\ (Known(e)' <=> Known(e))
    BY <1>1 DEF Asked, Known, Places
  <2> QED
    BY <1>1, <2>1, <2>2 DEF BreakerInv, KeepsOrder
<1>11. SharedBreakers'
  <2> SUFFICES ASSUME Few', NEW i \in 1..Len(registry)
               PROVE  /\ \A k \in 1..Len(reports') :
                           reports'[k].endpoint = registry[i].endpoint <=> reports'[k].id = registry[i].id
                      /\ \A d \in 1..Columns : IsRunning(d) =>
                           (column[d].endpoint = registry[i].endpoint <=> column[d].breaker = registry[i].id)
    BY <1>1 DEF SharedBreakers, IsRunning
  <2>1. Few
    BY <1>1 DEF Few
  <2>2. /\ \A k \in 1..n :
             reports[k].endpoint = registry[i].endpoint <=> reports[k].id = registry[i].id
        /\ \A d \in 1..Columns : IsRunning(d) =>
             (column[d].endpoint = registry[i].endpoint <=> column[d].breaker = registry[i].id)
    BY <2>1 DEF BreakerInv, SharedBreakers, n
  <2>3. r.endpoint = registry[i].endpoint <=> r.id = registry[i].id
    BY <1>1, <1>3, <1>7, <2>2 DEF id
  <2> QED
    BY <1>5, <1>6, <2>2, <2>3
<1> QED
  BY <1>4, <1>8, <1>9, <1>10, <1>11 DEF BreakerInv

-----------------------------------------------------------------------------
\* What the order of the registry says about its endpoints.
LEMMA OrderFacts ==
  ASSUME BreakerShape, KeepsOrder
  PROVE  /\ \A e : Asked(e) => LastAsked(e) \in 1..Len(requests)
         /\ \A i, j \in 1..Len(registry) :
              /\ i < j <=> LastAsked(registry[i].endpoint) < LastAsked(registry[j].endpoint)
              /\ registry[i].endpoint = registry[j].endpoint => i = j
         /\ Len(registry) \in Nat /\ Len(requests) \in Nat /\ DOMAIN registry = 1..Len(registry)
<1>1. \A e : Asked(e) => LastAsked(e) \in 1..Len(requests)
  BY LastAskedFacts DEF BreakerShape, LastPlace
<1>2. Len(registry) \in Nat /\ Len(requests) \in Nat /\ DOMAIN registry = 1..Len(registry)
  BY DEF BreakerShape
<1>3. ASSUME NEW i \in 1..Len(registry), NEW j \in 1..Len(registry)
      PROVE  /\ i < j <=> LastAsked(registry[i].endpoint) < LastAsked(registry[j].endpoint)
             /\ registry[i].endpoint = registry[j].endpoint => i = j
  <2> DEFINE a == LastAsked(registry[i].endpoint)
             b == LastAsked(registry[j].endpoint)
  <2>1. a \in Nat /\ b \in Nat
    BY <1>1, <1>2 DEF KeepsOrder
  <2>2. (i < j => a < b) /\ (j < i => b < a)
    BY DEF KeepsOrder
  <2>3. i = j => a = b
    OBVIOUS
  <2>4. registry[i].endpoint = registry[j].endpoint => a = b
    OBVIOUS
  <2> HIDE DEF a, b
  <2>5. i \in Nat /\ j \in Nat
    BY <1>2
  <2>6. i < j <=> a < b
    BY <2>1, <2>2, <2>3, <2>5
  <2>7. registry[i].endpoint = registry[j].endpoint => i = j
    BY <2>1, <2>2, <2>4, <2>5
  <2> QED
    BY <2>6, <2>7 DEF a, b
<1> QED
  BY <1>1, <1>2, <1>3

\* The endpoints at places lo to hi are as many as the places.
Held(lo, hi) == {registry[i].endpoint : i \in lo..hi}

LEMMA HeldCount ==
  ASSUME BreakerShape, KeepsOrder, NEW lo \in Nat \ {0}, NEW hi \in Nat, hi <= Len(registry)
  PROVE  IsFiniteSet(Held(lo, hi)) /\ Cardinality(Held(lo, hi)) = IF lo > hi THEN 0 ELSE hi - lo + 1
<1> DEFINE f == [i \in lo..hi |-> registry[i].endpoint]
<1>1. lo..hi \subseteq 1..Len(registry)
  BY OrderFacts
<1>2. f \in Injection(lo..hi, Held(lo, hi))
  BY <1>1, OrderFacts DEF Held, Injection, IsInjective
<1>3. f \in Surjection(lo..hi, Held(lo, hi))
  BY <1>2 DEF Held, Surjection, Injection
<1>4. ExistsBijection(lo..hi, Held(lo, hi))
  BY <1>2, <1>3 DEF ExistsBijection, Bijection
<1>5. IsFiniteSet(lo..hi) /\ Cardinality(lo..hi) = IF lo > hi THEN 0 ELSE hi - lo + 1
  BY FS_Interval
<1> QED
  BY <1>4, <1>5, FS_Bijection

LEMMA EachIsIn ==
  ASSUME NEW T, NEW s \in Seq(T) PROVE \A j \in 1..Len(s) : s[j] \in T
  OBVIOUS

\* What was asked for are some of the endpoints.
LEMMA EndpointsIn ==
  ASSUME NEW s \in Seq(1..Endpoints)
  PROVE  /\ IsFiniteSet(Range(s)) /\ Range(s) \subseteq 1..Endpoints
         /\ \A e : e \in Range(s) <=> \E j \in 1..Len(s) : s[j] = e
<1>1. \A e : e \in Range(s) <=> \E j \in 1..Len(s) : s[j] = e
  BY DEF Range
<1>2. \A j \in 1..Len(s) : s[j] \in 1..Endpoints
  BY EachIsIn
<1>3. Range(s) \subseteq 1..Endpoints
  BY <1>1, <1>2
<1>4. IsFiniteSet(1..Endpoints)
  BY FS_Interval, BreakerAssumption
<1> QED
  BY <1>1, <1>3, <1>4, FS_Subset

LEMMA AskedEndpoints ==
  ASSUME BreakerShape
  PROVE  /\ IsFiniteSet(Range(requests)) /\ IsFiniteSet(1..Endpoints)
         /\ \A e : e \in Range(requests) <=> Asked(e)
         /\ Range(requests) \subseteq 1..Endpoints
<1>1. requests \in Seq(1..Endpoints)
  BY DEF BreakerShape
<1>2. IsFiniteSet(1..Endpoints)
  BY FS_Interval, BreakerAssumption
<1> QED
  BY <1>1, <1>2, EndpointsIn DEF Asked

\* While few endpoints were asked for, none had to go.
LEMMA FewAreKnown ==
  ASSUME BreakerShape, KeepsOrder, Few, NEW e, Asked(e)
  PROVE  Known(e)
<1> SUFFICES ASSUME ~Known(e) PROVE FALSE
  OBVIOUS
<1> USE BreakerAssumption
<1>0. e \in 1..Endpoints
  BY AskedEndpoints
<1>1. Len(registry) = MaxSize /\ \A i \in 1..MaxSize : Asked(registry[i].endpoint)
  BY <1>0 DEF KeepsOrder
<1>2. IsFiniteSet(Held(1, MaxSize)) /\ Cardinality(Held(1, MaxSize)) = MaxSize
  BY <1>1, HeldCount
<1>3. e \notin Held(1, MaxSize)
  BY <1>1, OrderFacts DEF Held, Known, Places
<1>4. Held(1, MaxSize) \cup {e} \in SUBSET Range(requests)
  BY <1>1, AskedEndpoints DEF Held
<1>5. Cardinality(Held(1, MaxSize) \cup {e}) = MaxSize + 1
  BY <1>2, <1>3, FS_AddElement
<1>6. Cardinality(Held(1, MaxSize) \cup {e}) <= Cardinality(Range(requests))
  BY <1>4, AskedEndpoints, FS_Subset
<1>7. Cardinality(Range(requests)) \in Nat
  BY AskedEndpoints, FS_CardinalityType
<1> QED
  BY <1>5, <1>6, <1>7 DEF Few
-----------------------------------------------------------------------------
\* A registry that served endpoint e: the entry of e is last, the others keep
\* their order, and only the first of them may be missing, when it is full.
Follows(map, src, e, id) ==
  /\ map \in Seq(MapEntry) /\ Len(map) \in 1..MaxSize /\ Len(registry) <= Len(map)
  /\ map[Len(map)] = [endpoint |-> e, id |-> id]
  /\ \A i \in 1..Len(map) - 1 :
       /\ src[i] \in 1..Len(registry) /\ map[i] = registry[src[i]] /\ map[i].endpoint # e
       /\ \A j \in 1..Len(map) - 1 : i < j => src[i] < src[j]
  /\ \A k \in 1..Len(registry) :
       \/ registry[k].endpoint = e
       \/ \E i \in 1..Len(map) - 1 : src[i] = k
       \/ Len(map) = MaxSize /\ \A i \in 1..Len(map) - 1 : k < src[i]

\* A hit.
LEMMA HitFollows ==
  ASSUME BreakerShape, KeepsOrder, NEW k \in 1..Len(registry)
  PROVE  \E src : Follows(Hit(k), src, registry[k].endpoint, registry[k].id)
<1> DEFINE len == Len(registry)
           r == registry[k]
           rest == RemoveAt(registry, k)
           map == Append(rest, r)
           src == [i \in 1..len - 1 |-> IF i < k THEN i ELSE i + 1]
<1>1. registry \in Seq(MapEntry) /\ len \in Nat /\ len <= MaxSize /\ r \in MapEntry
  BY DEF BreakerShape
<1>2. /\ rest \in Seq(MapEntry) /\ Len(rest) = len - 1
      /\ \A i \in 1..len - 1 : rest[i] = IF i < k THEN registry[i] ELSE registry[i + 1]
  BY <1>1, RemoveAtIsSpliceOut, SpliceOutProperties
<1> HIDE DEF rest
<1>3. /\ map \in Seq(MapEntry) /\ Len(map) = len
      /\ map[len] = r /\ \A i \in 1..len - 1 : map[i] = rest[i]
  <2> HIDE DEF r
  <2> QED
    BY <1>1, <1>2, AppendProperties
<1>4. r = [endpoint |-> r.endpoint, id |-> r.id]
  BY <1>1 DEF MapEntry
<1>5. \A i, j \in 1..len : registry[i].endpoint = registry[j].endpoint => i = j
  BY OrderFacts
<1> HIDE DEF map
<1>6. ASSUME NEW i \in 1..len - 1
      PROVE  src[i] \in 1..len /\ map[i] = registry[src[i]] /\ src[i] # k
  BY <1>1, <1>2, <1>3
<1>7. \A i, j \in 1..len - 1 : i < j => src[i] < src[j]
  BY <1>1
<1>8. ASSUME NEW p \in 1..len, p # k PROVE \E i \in 1..len - 1 : src[i] = p
  <2>1. CASE p < k
    <3>1. p \in 1..len - 1 /\ src[p] = p
      BY <1>1, <2>1
    <3> QED
      BY <3>1
  <2>2. CASE p > k
    <3>1. p - 1 \in 1..len - 1 /\ src[p - 1] = p
      BY <1>1, <2>2
    <3> QED
      BY <3>1
  <2> QED
    BY <1>1, <1>8, <2>1, <2>2
<1> HIDE DEF src
<1>9. \A i \in 1..len - 1 : map[i].endpoint # r.endpoint
  BY <1>5, <1>6
<1>10. \A p \in 1..len : registry[p].endpoint = r.endpoint \/ \E i \in 1..len - 1 : src[i] = p
  BY <1>8
<1>11. Len(map) \in 1..MaxSize /\ len <= Len(map)
  BY <1>1, <1>3, BreakerAssumption
<1> HIDE DEF r
<1>12. Follows(map, src, r.endpoint, r.id)
  BY <1>3, <1>4, <1>6, <1>7, <1>9, <1>10, <1>11 DEF Follows
<1> QED
  BY <1>12 DEF Hit, map, rest, r

\* A miss, with room and without.
LEMMA MissFollows ==
  ASSUME BreakerShape, NEW e \in 1..Endpoints, NEW id \in Nat, ~Known(e)
  PROVE  \E src : Follows(Capped(Append(registry, [endpoint |-> e, id |-> id])), src, e, id)
<1> DEFINE len == Len(registry)
           r == [endpoint |-> e, id |-> id]
           more == Append(registry, r)
<1>1. registry \in Seq(MapEntry) /\ len \in Nat /\ len <= MaxSize /\ r \in MapEntry
  BY DEF BreakerShape, MapEntry
<1>2. \A i \in 1..len : registry[i].endpoint # e
  BY <1>1 DEF Known, Places
<1> HIDE DEF r
<1>3. /\ more \in Seq(MapEntry) /\ Len(more) = len + 1
      /\ more[len + 1] = r /\ \A i \in 1..len : more[i] = registry[i]
  BY <1>1, AppendProperties
<1> HIDE DEF more
<1>4. CASE len < MaxSize
  <2> DEFINE src == [i \in 1..len |-> i]
  <2>1. Capped(more) = more
    BY <1>1, <1>3, <1>4, BreakerAssumption DEF Capped
  <2>2. Len(more) \in 1..MaxSize /\ len <= Len(more) /\ Len(more) - 1 = len
    BY <1>1, <1>3, <1>4, BreakerAssumption
  <2>3. \A i \in 1..len : src[i] = i
    OBVIOUS
  <2> HIDE DEF src
  <2>4. Follows(more, src, e, id)
    BY <1>1, <1>2, <1>3, <2>2, <2>3 DEF Follows, r
  <2> QED
    BY <2>1, <2>4 DEF more, r
<1>5. CASE len = MaxSize
  <2> DEFINE src == [i \in 1..len - 1 |-> i + 1]
             map == Tail(more)
  <2>1. Capped(more) = map
    BY <1>1, <1>3, <1>5, BreakerAssumption DEF Capped
  <2>2. /\ map \in Seq(MapEntry) /\ Len(map) = len
        /\ \A i \in 1..len : map[i] = more[i + 1]
    <3>1. more # <<>>
      BY <1>1, <1>3
    <3> QED
      BY <1>1, <1>3, <3>1, HeadTailProperties
  <2> HIDE DEF map
  <2>3. \A i \in 1..len - 1 : src[i] = i + 1 /\ src[i] \in 1..len /\ i \in 1..len
    BY <1>1
  <2> HIDE DEF src
  <2>4. map[len] = r
    BY <1>1, <1>3, <1>5, <2>2, BreakerAssumption
  <2>5. \A i \in 1..len - 1 : map[i] = registry[src[i]] /\ map[i].endpoint # e
    BY <1>1, <1>2, <1>3, <2>2, <2>3
  <2>6. \A p \in 1..len : (p - 1 \in 1..len - 1 /\ src[p - 1] = p) \/ \A i \in 1..len - 1 : p < src[i]
    BY <1>1, <2>3
  <2>7. len \in 1..MaxSize
    BY <1>1, <1>5, BreakerAssumption
  <2>8. Follows(map, src, e, id)
    BY <1>1, <1>5, <2>2, <2>3, <2>4, <2>5, <2>6, <2>7 DEF Follows, r
  <2> QED
    BY <2>1, <2>8 DEF more, r
<1> QED
  BY <1>1, <1>4, <1>5, BreakerAssumption
\* What get() answers: the breaker of an endpoint that is known, or a new one.
Answers(e, id) ==
  \/ /\ breakers' = breakers
     /\ \E k \in 1..Len(registry) : registry[k].endpoint = e /\ registry[k].id = id
  \/ /\ ~Known(e) /\ id = Len(breakers) + 1
     /\ breakers' = Append(breakers, Fresh)

LEMMA StartColumnParts ==
  ASSUME BreakerInv, NEW c \in 1..Columns, NEW e \in 1..Endpoints, StartColumn(c, e)
  PROVE  \E id \in Nat : \E src :
           /\ Follows(registry', src, e, id) /\ Answers(e, id)
           /\ \/ column' = [column EXCEPT ![c] = HoldsNone("ended")]
              \/ column' = [column EXCEPT ![c] = [at |-> "running", endpoint |-> e, breaker |-> id]]
<1> DEFINE found == Lookup(e)
           some == [at |-> "running", endpoint |-> e, breaker |-> found.id]
<1>1. /\ registry' = found.map /\ breakers' = found.all
      /\ \/ column' = [column EXCEPT ![c] = HoldsNone("ended")]
         \/ column' = [column EXCEPT ![c] = some]
  BY DEF StartColumn
<1>2. registry \in Seq(MapEntry) /\ breakers \in Seq(BreakerRecord) /\ Len(breakers) \in Nat
  BY DEF BreakerInv, BreakerShape
<1>3. CASE Known(e)
  <2> DEFINE k == PlaceOf(e)
  <2>1. k \in Places(e)
    BY <1>3 DEF Known, PlaceOf
  <2>2. k \in 1..Len(registry) /\ registry[k].endpoint = e
    BY <1>2, <2>1 DEF Places
  <2>3. registry[k] \in MapEntry
    BY <1>2, <2>2
  <2>4. found.map = Hit(k) /\ found.id = registry[k].id /\ found.all = breakers
    BY <1>3 DEF Lookup, BreakerOf
  <2> HIDE DEF k, found
  <2>5. \E src : Follows(Hit(k), src, registry[k].endpoint, registry[k].id)
    BY <2>2, HitFollows DEF BreakerInv
  <2>6. \E src : Follows(registry', src, e, found.id)
    BY <1>1, <2>2, <2>4, <2>5
  <2>7. found.id \in Nat
    BY <2>3, <2>4 DEF MapEntry
  <2>8. Answers(e, found.id)
    BY <1>1, <2>2, <2>4 DEF Answers
  <2> QED
    BY <1>1, <2>6, <2>7, <2>8
<1>4. CASE ~Known(e)
  <2> DEFINE id == Len(breakers) + 1
  <2>1. /\ found.map = Capped(Append(registry, [endpoint |-> e, id |-> id]))
        /\ found.id = id /\ found.all = Append(breakers, Fresh)
    BY <1>4 DEF Lookup
  <2>2. id \in Nat
    BY <1>2
  <2>3. Answers(e, id)
    BY <1>1, <1>4, <2>1 DEF Answers
  <2> HIDE DEF id, found
  <2>4. \E src : Follows(registry', src, e, id)
    BY <1>1, <1>4, <2>1, <2>2, MissFollows DEF BreakerInv
  <2>5. found.id = id
    BY <2>1
  <2> QED
    BY <1>1, <2>2, <2>3, <2>4, <2>5
<1> QED
  BY <1>3, <1>4

\* The breakers that were there are left alone, and a new one is not yet told of.
LEMMA AnswersCount ==
  ASSUME BreakerInv, NEW e, NEW id \in Nat, Answers(e, id), UNCHANGED <<now, reports>>
  PROVE  /\ AllCount' /\ breakers' \in Seq(BreakerRecord)
         /\ Len(breakers) \in Nat /\ Len(breakers') \in Nat
         /\ Len(breakers) <= Len(breakers') /\ id \in 1..Len(breakers')
<1> USE BreakerAssumption
<1> DEFINE len == Len(breakers)
<1>1. /\ breakers \in Seq(BreakerRecord) /\ len \in Nat /\ Fresh \in BreakerRecord
      /\ now \in Nat /\ DOMAIN reports = 1..Len(reports)
  BY DEF BreakerInv, BreakerShape, Fresh, BreakerRecord
<1>2. \A d \in 1..len : CountsReports(d)
  BY DEF BreakerInv, AllCount
<1>3. \A d : ReportsTo(d)' = ReportsTo(d) /\ Failing(ReportsTo(d))' = Failing(ReportsTo(d))
  BY DEF ReportsTo, Failing
<1>4. ASSUME NEW d \in 1..len, breakers'[d] = breakers[d] PROVE CountsReports(d)'
  BY <1>2, <1>3, <1>4 DEF CountsReports
<1>5. CASE breakers' = breakers /\ \E k \in 1..Len(registry) : registry[k].endpoint = e /\ registry[k].id = id
  <2>1. id \in 1..len
    BY <1>5 DEF BreakerInv, NamesBreakers
  <2>2. AllCount'
    BY <1>4, <1>5 DEF AllCount
  <2> QED
    BY <1>1, <1>5, <2>1, <2>2
<1>6. CASE id = len + 1 /\ breakers' = Append(breakers, Fresh)
  <2>1. /\ breakers' \in Seq(BreakerRecord) /\ Len(breakers') = id
        /\ breakers'[id] = Fresh /\ \A d \in 1..len : breakers'[d] = breakers[d]
    BY <1>1, <1>6, AppendProperties
  <2>2. ReportsTo(id) = {}
    <3>1. \A k \in 1..Len(reports) : reports[k].id \in 1..len
      BY DEF BreakerInv, NamesBreakers
    <3> QED
      BY <1>1, <1>6, <3>1 DEF ReportsTo
  <2>3. Failing(ReportsTo(id)) = {}
    BY <2>2 DEF Failing
  <2>4. CountsReports(id)'
    <3>1. Fresh.failures = 0 /\ Fresh.openedAt = 0 /\ ~(0 >= Threshold)
      BY DEF Fresh
    <3>2. IsFiniteSet({}) /\ Cardinality({}) = 0
      BY FS_EmptySet
    <3>3. /\ breakers'[id].failures = 0 /\ breakers'[id].openedAt = 0 /\ now' = now
          /\ Failing(ReportsTo(id))' = {}
      BY <1>3, <2>1, <2>3, <3>1
    <3>4. breakers'[id].openedAt <= now'
      BY <1>1, <3>3
    <3> QED
      BY <3>1, <3>2, <3>3, <3>4 DEF CountsReports
  <2>5. AllCount'
    <3>1. \A d \in 1..Len(breakers') : d \in 1..len \/ d = id
      BY <1>1, <1>6, <2>1
    <3> QED
      BY <1>4, <2>1, <2>4, <3>1 DEF AllCount
  <2> QED
    BY <1>1, <1>6, <2>1, <2>5
<1> QED
  BY <1>5, <1>6 DEF Answers
\* A column gets the breaker of its endpoint.
LEMMA StartColumnInv ==
  ASSUME BreakerInv, NEW c \in 1..Columns, NEW e \in 1..Endpoints, StartColumn(c, e)
  PROVE  BreakerInv'
<1>1. requests' = Append(requests, e) /\ UNCHANGED <<now, reports>>
  BY DEF StartColumn
<1>0. PICK id \in Nat :
        \E src : /\ Follows(registry', src, e, id) /\ Answers(e, id)
                 /\ \/ column' = [column EXCEPT ![c] = HoldsNone("ended")]
                    \/ column' = [column EXCEPT ![c] = [at |-> "running", endpoint |-> e, breaker |-> id]]
  BY StartColumnParts
<1>2. PICK src :
        /\ Follows(registry', src, e, id) /\ Answers(e, id)
        /\ \/ column' = [column EXCEPT ![c] = HoldsNone("ended")]
           \/ column' = [column EXCEPT ![c] = [at |-> "running", endpoint |-> e, breaker |-> id]]
  BY <1>0
<1> DEFINE n == Len(registry')
           len == Len(registry)
           last == Len(requests) + 1
<1>3. BreakerShape /\ NamesBreakers /\ KeepsOrder /\ SharedBreakers
  BY DEF BreakerInv
<1>4. /\ AllCount' /\ breakers' \in Seq(BreakerRecord)
      /\ Len(breakers) \in Nat /\ Len(breakers') \in Nat
      /\ Len(breakers) <= Len(breakers') /\ id \in 1..Len(breakers')
  BY <1>1, <1>2, AnswersCount
<1>5. /\ registry' \in Seq(MapEntry) /\ n \in 1..MaxSize /\ n \in Nat /\ len <= n
      /\ registry'[n] = [endpoint |-> e, id |-> id]
  BY <1>2 DEF Follows
<1>6. \A i \in 1..n - 1 :
        /\ src[i] \in 1..len /\ registry'[i] = registry[src[i]] /\ registry'[i].endpoint # e
        /\ \A j \in 1..n - 1 : i < j => src[i] < src[j]
  BY <1>2 DEF Follows
<1>7. \A k \in 1..len :
       \/ registry[k].endpoint = e
       \/ \E i \in 1..n - 1 : src[i] = k
       \/ n = MaxSize /\ \A i \in 1..n - 1 : k < src[i]
  BY <1>2 DEF Follows
<1>8. /\ LastAsked(e)' = last
      /\ \A d : Asked(d)' <=> Asked(d) \/ d = e
      /\ \A d : Asked(d) /\ d # e => LastAsked(d)' = LastAsked(d)
  BY <1>1, <1>3, LastAskedNext DEF BreakerShape
<1>9. /\ \A d : Asked(d) => LastAsked(d) \in 1..last - 1
      /\ len \in Nat /\ last \in Nat /\ len <= MaxSize /\ MaxSize \in Nat
  BY <1>3, OrderFacts, BreakerAssumption DEF BreakerShape
<1>10. /\ \A i \in 1..n : i \in 1..n - 1 \/ i = n
       /\ \A i \in 1..n - 1 : i \in 1..n
  BY <1>5
<1>11. \A i \in 1..n - 1 : registry'[i].id # id
  <2> SUFFICES ASSUME NEW i \in 1..n - 1, registry[src[i]].id = id PROVE FALSE
    BY <1>6
  <2>1. src[i] \in 1..len /\ registry[src[i]].endpoint # e
    BY <1>6
  <2>2. registry[src[i]].id \in 1..Len(breakers)
    BY <1>3, <2>1 DEF NamesBreakers
  <2>3. PICK k \in 1..len : registry[k].endpoint = e /\ registry[k].id = id
    BY <1>2, <1>4, <2>2 DEF Answers
  <2>4. src[i] = k
    BY <1>3, <2>1, <2>3 DEF NamesBreakers
  <2> QED
    BY <2>1, <2>3, <2>4
<1>12. /\ column' \in [1..Columns -> ColumnRecord]
       /\ \A d \in 1..Columns : IsRunning(d)' =>
            \/ IsRunning(d) /\ column'[d] = column[d]
            \/ column'[d].endpoint = e /\ column'[d].breaker = id
  <2>1. column \in [1..Columns -> ColumnRecord]
    BY <1>3 DEF BreakerShape
  <2>2. HoldsNone("ended") \in ColumnRecord /\ HoldsNone("ended").at # "running"
    BY BreakerAssumption DEF HoldsNone, ColumnRecord
  <2>3. [at |-> "running", endpoint |-> e, breaker |-> id] \in ColumnRecord
    BY DEF ColumnRecord
  <2>4. CASE column' = [column EXCEPT ![c] = HoldsNone("ended")]
    BY <2>1, <2>2, <2>4 DEF IsRunning
  <2>5. CASE column' = [column EXCEPT ![c] = [at |-> "running", endpoint |-> e, breaker |-> id]]
    BY <2>1, <2>3, <2>5 DEF IsRunning
  <2> QED
    BY <1>2, <2>4, <2>5
<1>13. BreakerShape'
  <2>1. requests' \in Seq(1..Endpoints)
    BY <1>1, <1>3, AppendProperties DEF BreakerShape
  <2> QED
    BY <1>1, <1>3, <1>4, <1>5, <1>12, <2>1 DEF BreakerShape
<1> HIDE DEF n, len, last
<1>14. NamesBreakers'
  <2>1. ASSUME NEW i \in 1..n PROVE registry'[i].id \in 1..Len(breakers')
    <3>1. CASE i \in 1..n - 1
      <4>1. src[i] \in 1..len /\ registry'[i] = registry[src[i]]
        BY <1>6, <3>1
      <4>2. registry'[i].id \in 1..Len(breakers)
        BY <1>3, <4>1 DEF NamesBreakers, len
      <4> QED
        BY <1>4, <4>2
    <3> QED
      BY <1>4, <1>5, <1>10, <3>1
  <2>2. ASSUME NEW i \in 1..n, NEW j \in 1..n, registry'[i].id = registry'[j].id PROVE i = j
    <3>1. CASE i \in 1..n - 1 /\ j \in 1..n - 1
      <4>1. /\ src[i] \in 1..len /\ src[j] \in 1..len
            /\ registry[src[i]].id = registry[src[j]].id
        BY <1>6, <2>2, <3>1
      <4>2. src[i] = src[j]
        BY <1>3, <4>1 DEF NamesBreakers, len
      <4>3. ~(i < j) /\ ~(j < i)
        BY <1>6, <1>9, <3>1, <4>1, <4>2
      <4> QED
        BY <1>5, <4>3
    <3>2. registry'[n].id = id
      BY <1>5
    <3> QED
      BY <1>10, <1>11, <2>2, <3>1, <3>2
  <2>3. \A f : Asked(f) \/ f = e => \E j \in 1..Len(requests') : requests'[j] = f
    BY <1>8 DEF Asked
  <2>4. ASSUME NEW d \in 1..Columns, IsRunning(d)'
        PROVE  /\ column'[d].breaker \in 1..Len(breakers')
               /\ \E j \in 1..Len(requests') : requests'[j] = column'[d].endpoint
    <3>1. IsRunning(d) => column[d].breaker \in 1..Len(breakers) /\ Asked(column[d].endpoint)
      BY <1>3 DEF NamesBreakers
    <3>2. CASE IsRunning(d) /\ column'[d] = column[d]
      BY <1>4, <2>3, <3>1, <3>2
    <3>3. CASE column'[d].endpoint = e /\ column'[d].breaker = id
      BY <1>4, <2>3, <3>3
    <3> QED
      BY <1>12, <2>4, <3>2, <3>3
  <2>5. ASSUME NEW k \in 1..Len(reports)
        PROVE  /\ reports[k].id \in 1..Len(breakers')
               /\ \E j \in 1..Len(requests') : requests'[j] = reports[k].endpoint
    <3>1. reports[k].id \in 1..Len(breakers) /\ Asked(reports[k].endpoint)
      BY <1>3 DEF NamesBreakers
    <3> QED
      BY <1>4, <2>3, <3>1
  <2> QED
    BY <1>1, <2>1, <2>2, <2>4, <2>5 DEF NamesBreakers, Asked, n
<1>15. ASSUME NEW i \in 1..n - 1, NEW d, d = registry'[i].endpoint
       PROVE  /\ Asked(d) /\ LastAsked(d)' = LastAsked(d)
              /\ d = registry[src[i]].endpoint /\ d # e
              /\ LastAsked(d) \in 1..last - 1
  <2>1. d = registry[src[i]].endpoint /\ src[i] \in 1..len /\ d # e
    BY <1>6, <1>15
  <2>2. Asked(d)
    BY <1>3, <2>1 DEF KeepsOrder, len
  <2> QED
    BY <1>8, <1>9, <2>1, <2>2 DEF last
<1>16. KeepsOrder'
  <2>1. ASSUME NEW i \in 1..n, NEW d, d = registry'[i].endpoint PROVE Asked(d)'
    <3>1. CASE i \in 1..n - 1
      BY <1>8, <1>15, <2>1, <3>1
    <3>2. CASE i = n
      BY <1>5, <1>8, <2>1, <3>2
    <3> QED
      BY <1>10, <3>1, <3>2
  <2>2. ASSUME NEW i \in 1..n, NEW j \in 1..n, i < j, NEW d, NEW f,
               d = registry'[i].endpoint, f = registry'[j].endpoint
        PROVE  LastAsked(d)' < LastAsked(f)'
    <3>1. i \in 1..n - 1
      BY <1>5, <1>10, <2>2
    <3>2. /\ LastAsked(d)' = LastAsked(d) /\ LastAsked(d) \in 1..last - 1
          /\ d = registry[src[i]].endpoint
      BY <1>15, <2>2, <3>1
    <3>3. CASE j \in 1..n - 1
      <4>1. LastAsked(f)' = LastAsked(f) /\ f = registry[src[j]].endpoint
        BY <1>15, <2>2, <3>3
      <4>2. src[i] \in 1..len /\ src[j] \in 1..len /\ src[i] < src[j]
        BY <1>6, <2>2, <3>1, <3>3
      <4>3. LastAsked(registry[src[i]].endpoint) < LastAsked(registry[src[j]].endpoint)
        BY <1>3, <4>2 DEF KeepsOrder, len
      <4> QED
        BY <3>2, <4>1, <4>3
    <3>4. CASE j = n
      <4>1. LastAsked(f)' = last
        BY <1>5, <1>8, <2>2, <3>4
      <4> QED
        BY <1>9, <3>2, <4>1
    <3> QED
      BY <1>10, <3>3, <3>4
  <2>3. ASSUME NEW d \in 1..Endpoints, Asked(d)', ~Known(d)'
        PROVE  n = MaxSize /\ \A i \in 1..n : \A f : f = registry'[i].endpoint => LastAsked(d)' < LastAsked(f)'
    <3>1. \A i \in 1..n : registry'[i].endpoint # d
      BY <1>5, <2>3 DEF Known, Places, n
    <3>2. d # e
      BY <1>5, <3>1
    <3>3. Asked(d) /\ LastAsked(d)' = LastAsked(d) /\ LastAsked(d) \in 1..last - 1
      BY <1>8, <1>9, <2>3, <3>2 DEF last
    <3>4. n = MaxSize /\ \A i \in 1..n - 1 : LastAsked(d) < LastAsked(registry[src[i]].endpoint)
      <4>1. CASE Known(d)
        <5>1. PICK k \in 1..len : registry[k].endpoint = d
          <6>1. DOMAIN registry = 1..len
            BY <1>3, OrderFacts DEF len
          <6> QED
            BY <4>1, <6>1 DEF Known, Places
        <5>2. ~\E i \in 1..n - 1 : src[i] = k
          BY <1>6, <1>10, <3>1, <5>1
        <5>3. n = MaxSize /\ \A i \in 1..n - 1 : k < src[i]
          BY <1>7, <3>2, <5>1, <5>2
        <5>4. \A i \in 1..n - 1 : src[i] \in 1..len
          BY <1>6
        <5>5. \A i \in 1..n - 1 : LastAsked(registry[k].endpoint) < LastAsked(registry[src[i]].endpoint)
          BY <1>3, <5>1, <5>3, <5>4 DEF KeepsOrder, len
        <5> QED
          BY <5>1, <5>3, <5>5
      <4>2. CASE ~Known(d)
        <5>1. len = MaxSize /\ \A k \in 1..len : LastAsked(d) < LastAsked(registry[k].endpoint)
          BY <1>3, <3>3, <4>2 DEF KeepsOrder, len
        <5>2. n = MaxSize
          BY <1>5, <1>9, <5>1
        <5> QED
          BY <1>6, <5>1, <5>2
      <4> QED
        BY <4>1, <4>2
    <3>5. ASSUME NEW i \in 1..n, NEW f, f = registry'[i].endpoint PROVE LastAsked(d)' < LastAsked(f)'
      <4>1. CASE i \in 1..n - 1
        <5>1. LastAsked(f)' = LastAsked(f) /\ f = registry[src[i]].endpoint
          BY <1>15, <3>5, <4>1
        <5> QED
          BY <3>3, <3>4, <4>1, <5>1
      <4>2. CASE i = n
        <5>1. LastAsked(f)' = last
          BY <1>5, <1>8, <3>5, <4>2
        <5> QED
          BY <1>9, <3>3, <5>1
      <4> QED
        BY <1>10, <4>1, <4>2
    <3> QED
      BY <3>4, <3>5
  <2> QED
    BY <2>1, <2>2, <2>3 DEF KeepsOrder, n
<1>17. SharedBreakers'
  <2> SUFFICES ASSUME Few', NEW i \in 1..n
               PROVE  /\ \A k \in 1..Len(reports) :
                           reports[k].endpoint = registry'[i].endpoint <=> reports[k].id = registry'[i].id
                      /\ \A d \in 1..Columns : IsRunning(d)' =>
                           (column'[d].endpoint = registry'[i].endpoint <=> column'[d].breaker = registry'[i].id)
    BY <1>1 DEF SharedBreakers, n
  <2>1. Few
    <3>1. requests \in Seq(1..Endpoints) /\ requests' \in Seq(1..Endpoints)
      BY <1>3, <1>13 DEF BreakerShape
    <3>2. IsFiniteSet(Range(requests)) /\ IsFiniteSet(Range(requests'))
      BY <3>1, EndpointsIn
    <3>3. Range(requests) \subseteq Range(requests')
      BY <1>1, <3>1, AppendProperties DEF Range
    <3>4. /\ Cardinality(Range(requests)) <= Cardinality(Range(requests'))
          /\ Cardinality(Range(requests)) \in Nat /\ Cardinality(Range(requests')) \in Nat
      BY <3>2, <3>3, FS_Subset, FS_CardinalityType
    <3> QED
      BY <1>9, <3>4 DEF Few
  <2>2. \A j \in 1..len :
          /\ \A k \in 1..Len(reports) :
               reports[k].endpoint = registry[j].endpoint <=> reports[k].id = registry[j].id
          /\ \A d \in 1..Columns : IsRunning(d) =>
               (column[d].endpoint = registry[j].endpoint <=> column[d].breaker = registry[j].id)
    BY <1>3, <2>1 DEF SharedBreakers, len
  <2>3. CASE i \in 1..n - 1
    <3>1. /\ src[i] \in 1..len /\ registry'[i] = registry[src[i]]
          /\ registry'[i].endpoint # e /\ registry'[i].id # id
      BY <1>6, <1>11, <2>3
    <3> QED
      BY <1>12, <2>2, <3>1
  <2>4. CASE i = n
    <3>1. registry'[i].endpoint = e /\ registry'[i].id = id
      BY <1>5, <2>4
    <3>2. /\ \A k \in 1..Len(reports) : reports[k].endpoint = e <=> reports[k].id = id
          /\ \A d \in 1..Columns : IsRunning(d) => (column[d].endpoint = e <=> column[d].breaker = id)
      <4>1. CASE \E k \in 1..len : registry[k].endpoint = e /\ registry[k].id = id
        BY <2>2, <4>1
      <4>2. CASE ~Known(e) /\ id = Len(breakers) + 1
        <5>1. ~Asked(e)
          BY <1>3, <2>1, <4>2, FewAreKnown
        <5>2. /\ \A k \in 1..Len(reports) :
                   Asked(reports[k].endpoint) /\ reports[k].id \in 1..Len(breakers)
              /\ \A d \in 1..Columns : IsRunning(d) =>
                   Asked(column[d].endpoint) /\ column[d].breaker \in 1..Len(breakers)
          BY <1>3 DEF NamesBreakers
        <5>3. id \notin 1..Len(breakers)
          BY <1>4, <4>2
        <5> QED
          BY <5>1, <5>2, <5>3
      <4> QED
        BY <1>2, <4>1, <4>2 DEF Answers, len
    <3> QED
      BY <1>12, <3>1, <3>2
  <2> QED
    BY <1>10, <2>3, <2>4
<1> QED
  BY <1>4, <1>13, <1>14, <1>16, <1>17 DEF BreakerInv
-----------------------------------------------------------------------------
LEMMA BreakerNextInv == BreakerInv /\ [BreakerNext]_breakerVars => BreakerInv'
<1> SUFFICES ASSUME BreakerInv, [BreakerNext]_breakerVars PROVE BreakerInv'
  OBVIOUS
<1>1. ASSUME NEW c \in 1..Columns, NEW e \in 1..Endpoints, StartColumn(c, e) PROVE BreakerInv'
  BY <1>1, StartColumnInv
<1>2. ASSUME NEW c \in 1..Columns, NEW ok \in BOOLEAN, Report(c, ok) PROVE BreakerInv'
  BY <1>2, ReportInv
<1>3. ASSUME NEW c \in 1..Columns, EndColumn(c) PROVE BreakerInv'
  BY <1>3, EndColumnInv
<1>4. CASE Tick
  BY <1>4, BreakerTickInv
<1>5. CASE UNCHANGED breakerVars
  <2>1. UNCHANGED <<registry, breakers, column, now, requests, reports>>
    BY <1>5 DEF breakerVars
  <2>2. now \in Nat /\ column \in [1..Columns -> ColumnRecord]
    BY DEF BreakerInv, BreakerShape
  <2> QED
    BY <2>1, <2>2, BreakerQuiet DEF IsRunning
<1> QED
  BY <1>1, <1>2, <1>3, <1>4, <1>5 DEF BreakerNext

\* A counter and a stamp say what the reports say.
LEMMA CountedIsTripped ==
  ASSUME BreakerInv, NEW id \in 1..Len(breakers)
  PROVE  IsOpen(breakers[id]) <=> Tripped(ReportsTo(id))
<1> DEFINE p == ReportsTo(id)
           b == breakers[id]
<1>1. /\ b \in BreakerRecord /\ now \in Nat /\ Threshold \in Nat \ {0} /\ Cooldown \in Nat
      /\ p \subseteq Nat
  <2>1. /\ breakers \in Seq(BreakerRecord) /\ now \in Nat /\ reports \in Seq(ReportRecord)
    BY DEF BreakerInv, BreakerShape
  <2> QED
    BY <2>1, BreakerAssumption DEF ReportsTo
<1>2. CountsReports(id)
  BY DEF BreakerInv, AllCount
<1>3. b.failures = Cardinality(Failing(p))
  BY <1>2 DEF CountsReports
<1>4. b.failures >= Threshold => \E k \in p : LastOf(p, k) /\ b.openedAt = reports[k].at
  BY <1>2 DEF CountsReports
<1>5. \A i, j \in p : LastOf(p, i) /\ LastOf(p, j) => i = j
  BY <1>1 DEF LastOf
<1>6. Tripped(p) <=> /\ b.failures >= Threshold
                     /\ \E k \in p : LastOf(p, k) /\ now - reports[k].at < Cooldown
  BY <1>3 DEF Tripped, LastOf
<1> HIDE DEF p, b
<1>7. IsOpen(b) <=> b.failures >= Threshold /\ now - b.openedAt < Cooldown
  BY DEF IsOpen
<1> SUFFICES IsOpen(b) <=> Tripped(p)
  BY DEF b, p
<1>8. CASE b.failures >= Threshold
  <2>1. PICK k \in p : LastOf(p, k) /\ b.openedAt = reports[k].at
    BY <1>4, <1>8
  <2>2. (now - b.openedAt < Cooldown) <=> (\E i \in p : LastOf(p, i) /\ now - reports[i].at < Cooldown)
    BY <1>5, <2>1
  <2> QED
    BY <1>6, <1>7, <1>8, <2>2
<1>9. CASE ~(b.failures >= Threshold)
  BY <1>6, <1>7, <1>9
<1> QED
  BY <1>8, <1>9

\* Known is a place, and the only one.
LEMMA KnownPlace ==
  ASSUME BreakerShape, KeepsOrder, NEW e
  PROVE  /\ Known(e) <=> \E k \in 1..Len(registry) : registry[k].endpoint = e
         /\ Known(e) => /\ PlaceOf(e) \in 1..Len(registry) /\ registry[PlaceOf(e)].endpoint = e
<1>1. DOMAIN registry = 1..Len(registry)
  BY OrderFacts
<1>2. Known(e) <=> \E k \in 1..Len(registry) : registry[k].endpoint = e
  BY <1>1 DEF Known, Places
<1>3. Known(e) => PlaceOf(e) \in Places(e)
  BY DEF Known, PlaceOf
<1> QED
  BY <1>1, <1>2, <1>3 DEF Places

\* The endpoints asked for since e are those the registry has after e.
LEMMA SinceIsAfter ==
  ASSUME BreakerInv, NEW k \in 1..Len(registry)
  PROVE  AskedSince(registry[k].endpoint) = Held(k + 1, Len(registry))
<1> DEFINE e == registry[k].endpoint
           len == Len(registry)
<1>1. BreakerShape /\ KeepsOrder /\ requests \in Seq(1..Endpoints)
  BY DEF BreakerInv, BreakerShape
<1>2. len \in Nat /\ Asked(e) /\ LastAsked(e) \in 1..Len(requests) /\ Len(requests) \in Nat
  BY <1>1, OrderFacts DEF KeepsOrder
<1>3. \A d : Asked(d) => LastPlace(requests, d, LastAsked(d))
  BY <1>1, LastAskedFacts
<1>4. ASSUME NEW d \in AskedSince(e) PROVE d \in Held(k + 1, len)
  <2>1. PICK j \in LastAsked(e) + 1..Len(requests) : requests[j] = d
    BY DEF AskedSince
  <2>2. j \in 1..Len(requests) /\ j > LastAsked(e)
    BY <1>2
  <2>3. Asked(d) /\ d \in 1..Endpoints
    BY <1>1, <2>1, <2>2, EachIsIn DEF Asked
  <2>4. LastAsked(e) < LastAsked(d) /\ LastAsked(d) \in 1..Len(requests)
    BY <1>2, <1>3, <2>1, <2>2, <2>3 DEF LastPlace
  <2>5. Known(d)
    BY <1>1, <1>2, <2>3, <2>4 DEF KeepsOrder
  <2>6. PICK i \in 1..len : registry[i].endpoint = d
    BY <1>1, <2>5, KnownPlace
  <2>7. k < i
    BY <1>1, <2>4, <2>6, OrderFacts
  <2>8. i \in k + 1..len
    BY <1>2, <2>7
  <2> QED
    BY <2>6, <2>8 DEF Held
<1>5. ASSUME NEW d \in Held(k + 1, len) PROVE d \in AskedSince(e)
  <2>1. PICK i \in k + 1..len : registry[i].endpoint = d
    BY DEF Held
  <2>2. i \in 1..len /\ k < i
    BY <1>2
  <2>3. Asked(d) /\ LastAsked(e) < LastAsked(d)
    BY <1>1, <2>1, <2>2 DEF KeepsOrder
  <2>4. LastAsked(d) \in 1..Len(requests) /\ requests[LastAsked(d)] = d
    BY <1>3, <2>3 DEF LastPlace
  <2>5. LastAsked(d) \in LastAsked(e) + 1..Len(requests)
    BY <1>2, <2>3, <2>4
  <2> QED
    BY <2>4, <2>5 DEF AskedSince
<1> QED
  BY <1>4, <1>5

LEMMA RegistryIsLRU == BreakerInv => RegistryKeepsRecent
<1> SUFFICES ASSUME BreakerInv PROVE RegistryKeepsRecent
  OBVIOUS
<1>1. BreakerShape /\ KeepsOrder /\ requests \in Seq(1..Endpoints) /\ MaxSize \in Nat \ {0}
  BY BreakerAssumption DEF BreakerInv, BreakerShape
<1>2. Len(registry) \in Nat /\ Len(registry) <= MaxSize /\ DOMAIN registry = 1..Len(registry)
  BY <1>1, OrderFacts DEF BreakerShape
<1>3. \A d : Asked(d) => LastPlace(requests, d, LastAsked(d))
  BY <1>1, LastAskedFacts
<1>4. ASSUME NEW e \in Range(requests) PROVE Known(e) <=> Cardinality(AskedSince(e)) < MaxSize
  <2>1. Asked(e) /\ e \in 1..Endpoints
    BY <1>1, AskedEndpoints
  <2>2. CASE Known(e)
    <3>1. PICK k \in 1..Len(registry) : registry[k].endpoint = e
      BY <1>1, <2>2, KnownPlace
    <3>2. AskedSince(e) = Held(k + 1, Len(registry))
      BY <3>1, SinceIsAfter
    <3>3. Cardinality(Held(k + 1, Len(registry)))
            = IF k + 1 > Len(registry) THEN 0 ELSE Len(registry) - (k + 1) + 1
      BY <1>1, <1>2, HeldCount
    <3> QED
      BY <1>1, <1>2, <2>2, <3>2, <3>3
  <2>3. CASE ~Known(e)
    <3>1. Len(registry) = MaxSize /\ \A i \in 1..MaxSize : LastAsked(e) < LastAsked(registry[i].endpoint)
      BY <1>1, <2>1, <2>3 DEF KeepsOrder
    <3>2. Held(1, MaxSize) \subseteq AskedSince(e)
      <4> SUFFICES ASSUME NEW i \in 1..MaxSize PROVE registry[i].endpoint \in AskedSince(e)
        BY DEF Held
      <4> DEFINE d == registry[i].endpoint
      <4>1. Asked(d) /\ LastAsked(e) < LastAsked(d)
        BY <1>1, <3>1 DEF KeepsOrder
      <4>2. LastAsked(d) \in 1..Len(requests) /\ requests[LastAsked(d)] = d
        BY <1>3, <4>1 DEF LastPlace
      <4>3. LastAsked(e) \in 1..Len(requests)
        BY <1>3, <2>1 DEF LastPlace
      <4>4. LastAsked(d) \in LastAsked(e) + 1..Len(requests)
        BY <1>1, <4>1, <4>2, <4>3
      <4> QED
        BY <4>2, <4>4 DEF AskedSince
    <3>3. Cardinality(Held(1, MaxSize)) = MaxSize
      BY <1>1, <3>1, HeldCount
    <3>4. IsFiniteSet(AskedSince(e))
      <4>1. \A j \in LastAsked(e) + 1..Len(requests) : j \in 1..Len(requests)
        BY <1>1, <1>3, <2>1 DEF LastPlace
      <4>2. AskedSince(e) \subseteq 1..Endpoints
        BY <1>1, <4>1, EachIsIn DEF AskedSince
      <4> QED
        BY <1>1, <4>2, AskedEndpoints, FS_Subset
    <3>5. MaxSize <= Cardinality(AskedSince(e)) /\ Cardinality(AskedSince(e)) \in Nat
      BY <3>2, <3>3, <3>4, FS_Subset, FS_CardinalityType
    <3> QED
      BY <1>1, <2>3, <3>5
  <2> QED
    BY <2>2, <2>3
<1>5. \A i, j \in 1..Len(registry) : i < j => LastAsked(registry[i].endpoint) < LastAsked(registry[j].endpoint)
  BY <1>1 DEF KeepsOrder
<1> QED
  BY <1>2, <1>4, <1>5 DEF RegistryKeepsRecent

LEMMA BreakerInvTells == BreakerInv => BreakerTypeOK /\ BreakersTellHistory
<1> SUFFICES ASSUME BreakerInv PROVE BreakerTypeOK /\ BreakersTellHistory
  OBVIOUS
<1>1. BreakerShape /\ KeepsOrder /\ NamesBreakers /\ SharedBreakers
  BY DEF BreakerInv
<1>2. /\ registry \in Seq(MapEntry) /\ Len(registry) <= MaxSize /\ breakers \in Seq(BreakerRecord)
      /\ column \in [1..Columns -> ColumnRecord] /\ reports \in Seq(ReportRecord) /\ now \in Nat
  BY <1>1 DEF BreakerShape
<1>3. /\ DOMAIN registry = 1..Len(registry) /\ DOMAIN breakers = 1..Len(breakers)
      /\ DOMAIN reports = 1..Len(reports)
  BY <1>2
<1>4. BreakerTypeOK
  <2>1. \A i \in 1..Len(registry) : registry[i].endpoint \in 1..Endpoints
    <3>1. \A i \in 1..Len(registry) : registry[i] \in MapEntry
      BY <1>2, EachIsIn
    <3> QED
      BY <3>1 DEF MapEntry
  <2>2. \A i \in 1..Len(registry) : registry[i].id \in 1..Len(breakers)
    BY <1>1 DEF NamesBreakers
  <2>3. ASSUME NEW i \in 1..Len(breakers) PROVE breakers[i].failures \in Nat /\ breakers[i].openedAt \in 0..now
    <3>1. breakers[i] \in BreakerRecord
      BY <1>2
    <3>2. breakers[i].openedAt <= now
      BY DEF BreakerInv, AllCount, CountsReports
    <3> QED
      BY <1>2, <3>1, <3>2 DEF BreakerRecord
  <2>4. \A c \in 1..Columns : column[c].at \in {"new", "running", "ended"}
    BY <1>2 DEF ColumnRecord
  <2> QED
    BY <1>2, <1>3, <2>1, <2>2, <2>3, <2>4 DEF BreakerTypeOK
<1>5. OpenAfterFailures
  BY <1>3, CountedIsTripped DEF OpenAfterFailures
<1>6. ASSUME Few, NEW e \in Range(requests)
      PROVE  Known(e) /\ (IsOpen(breakers[BreakerOf(e)]) <=> Tripped(ReportsOn(e)))
  <2>1. Known(e)
    BY <1>1, <1>6, AskedEndpoints, FewAreKnown
  <2>2. PlaceOf(e) \in 1..Len(registry) /\ registry[PlaceOf(e)].endpoint = e
    BY <1>1, <2>1, KnownPlace
  <2>3. BreakerOf(e) \in 1..Len(breakers)
    BY <1>1, <2>2 DEF NamesBreakers, BreakerOf
  <2>4. \A k \in 1..Len(reports) : reports[k].endpoint = e <=> reports[k].id = BreakerOf(e)
    BY <1>1, <1>6, <2>2 DEF SharedBreakers, BreakerOf
  <2>5. ReportsOn(e) = ReportsTo(BreakerOf(e))
    BY <1>3, <2>4 DEF ReportsOn, ReportsTo
  <2> QED
    BY <2>1, <2>3, <2>5, CountedIsTripped
<1>7. EndpointHealthShared
  BY <1>5, <1>6 DEF EndpointHealthShared, Few
<1> QED
  BY <1>4, <1>7, RegistryIsLRU DEF BreakersTellHistory

\* Every breaker ever made is open exactly when its own reports say so, a column is
\* refused exactly when the reports of all columns of its endpoint say so while no more
\* endpoints were asked for than the registry holds, and the registry holds the
\* endpoints asked for last: for any number of columns, endpoints and reports, any
\* threshold, cooldown and cap.
THEOREM BreakersKeepHistory == BreakerSpec => [](BreakerTypeOK /\ BreakersTellHistory)
<1>1. BreakerInit => BreakerInv
  BY BreakerInitInv
<1>2. BreakerInv /\ [BreakerNext]_breakerVars => BreakerInv'
  BY BreakerNextInv
<1>3. BreakerInv => BreakerTypeOK /\ BreakersTellHistory
  BY BreakerInvTells
<1> QED
  BY <1>1, <1>2, <1>3, PTL DEF BreakerSpec

-----------------------------------------------------------------------------
(* The four primitives side by side (MCRuntime).                            *)

\* Whichever of the four moves, every promise of every one of them is kept.
THEOREM RuntimeIsSafe ==
  RuntimeSpec => [](RuntimeTypeOK /\ PermitsConserved /\ NoLostWakeup
                    /\ StreamIntact /\ AnswersArrive /\ BreakersTellHistory)
<1> DEFINE All == Inv /\ ChannelInv /\ AskInv /\ BreakerInv
<1>1. RuntimeInit => All
  BY InitInv, ChannelInitInv, AskInitInv, BreakerInitInv DEF RuntimeInit
<1>2. All /\ [RuntimeNext]_runtimeVars => All'
  <2> SUFFICES ASSUME All, [RuntimeNext]_runtimeVars PROVE All'
    OBVIOUS
  <2>1. /\ [Next]_vars /\ [ChannelNext]_channelVars
        /\ [AskNext]_askVars /\ [BreakerNext]_breakerVars
    BY DEF RuntimeNext, SemaphoreStep, ChannelStep, AskStep, BreakerStep, runtimeVars
  <2> QED
    BY <2>1, NextInv, ChannelNextInv, AskNextInv, BreakerNextInv
<1>3. All => /\ RuntimeTypeOK /\ PermitsConserved /\ NoLostWakeup
             /\ StreamIntact /\ AnswersArrive /\ BreakersTellHistory
  BY ChannelInvTells, AskInvTells, BreakerInvTells DEF Inv, RuntimeTypeOK
<1> QED
  BY <1>1, <1>2, <1>3, PTL DEF RuntimeSpec
=============================================================================
