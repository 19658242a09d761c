------------------------------ MODULE Semaphore ------------------------------
(***************************************************************************)
(* runtime/semaphore.ts: a counting semaphore with a first-come queue,     *)
(* abortable waits, an optional bound on the queue and one-shot release    *)
(* callbacks.  Every element of Acquirers is one call of acquire().        *)
(*                                                                         *)
(*   gate      free permits and the queue of waiters                       *)
(*   phase     where each call stands: "new", "queued", "granted" (its     *)
(*             promise is resolved, its continuation has not run),         *)
(*             "holding", "released", "rejected"                           *)
(*   aborted   the calls whose AbortSignal has fired                       *)
(*                                                                         *)
(* Node runs one callback at a time, so each action is one synchronous     *)
(* stretch of code; the await in a caller separates "granted" from         *)
(* "holding".                                                              *)
(***************************************************************************)
EXTENDS PermitGate, FiniteSets

CONSTANTS Acquirers,   \* calls of acquire()
          Permits,     \* normalised permit count
          MaxQueued    \* bound on queued calls; no bound when it is at least
                       \* the number of calls

\* The constructor normalises permits to an integer >= 1 and the bound to >= 0.
ASSUME SemaphoreAssumption ==
  /\ IsFiniteSet(Acquirers)
  /\ Permits \in Nat \ {0}
  /\ MaxQueued \in Nat

VARIABLES gate, phase, aborted
vars == <<gate, phase, aborted>>

Phase == {"new", "queued", "granted", "holding", "released", "rejected"}

\* Calls that own a permit, whether or not their continuation has run yet.
Owners == {a \in Acquirers : phase[a] \in {"granted", "holding"}}

TypeOK ==
  /\ gate \in Gate(Acquirers, Permits)
  /\ phase \in [Acquirers -> Phase]
  /\ aborted \in SUBSET Acquirers

Init ==
  /\ gate = NewGate(Permits)
  /\ phase = [a \in Acquirers |-> "new"]
  /\ aborted = {}
-----------------------------------------------------------------------------
\* acquire() with a signal that has already fired throws before it looks at
\* the permits.
AcquireCancelled(a) ==
  /\ phase[a] = "new" /\ a \in aborted
  /\ phase' = [phase EXCEPT ![a] = "rejected"]
  /\ UNCHANGED <<gate, aborted>>

\* A free permit is taken synchronously.
AcquireFree(a) ==
  /\ phase[a] = "new" /\ a \notin aborted
  /\ gate.available > 0
  /\ gate' = Take(gate)
  /\ phase' = [phase EXCEPT ![a] = "granted"]
  /\ UNCHANGED aborted

\* No permit and a full queue: fail fast, nothing is consumed.
AcquireOverflow(a) ==
  /\ phase[a] = "new" /\ a \notin aborted
  /\ gate.available = 0 /\ Len(gate.waiters) >= MaxQueued
  /\ phase' = [phase EXCEPT ![a] = "rejected"]
  /\ UNCHANGED <<gate, aborted>>

\* No permit: wait at the tail of the queue.
AcquireQueued(a) ==
  /\ phase[a] = "new" /\ a \notin aborted
  /\ gate.available = 0 /\ Len(gate.waiters) < MaxQueued
  /\ gate' = Enqueue(gate, a)
  /\ phase' = [phase EXCEPT ![a] = "queued"]
  /\ UNCHANGED aborted

\* The caller's signal fires. A queued call leaves the queue and rejects; a
\* call whose promise is already resolved has no listener any more and keeps
\* its permit.
Abort(a) ==
  /\ a \notin aborted
  /\ aborted' = aborted \cup {a}
  /\ IF phase[a] = "queued"
       THEN /\ gate' = Withdraw(gate, a)
            /\ phase' = [phase EXCEPT ![a] = "rejected"]
       ELSE UNCHANGED <<gate, phase>>

\* The continuation of the caller's await runs.
Resume(a) ==
  /\ phase[a] = "granted"
  /\ phase' = [phase EXCEPT ![a] = "holding"]
  /\ UNCHANGED <<gate, aborted>>

\* Slip: nobody is woken.
Release_WakesNobody(a) ==
  /\ phase[a] = "holding"
  /\ gate' = [gate EXCEPT !.available = @ + 1]
  /\ phase' = [phase EXCEPT ![a] = "released"]
  /\ UNCHANGED aborted

\* First call of the release callback: hand the permit over or free it.
Release(a) ==
  /\ phase[a] = "holding"
  /\ gate' = GiveBack(gate)
  /\ phase' = [b \in Acquirers |-> IF b = a THEN "released"
                                   ELSE IF b \in Woken(gate) THEN "granted"
                                   ELSE phase[b]]
  /\ UNCHANGED aborted

\* Slip: a second call of release gives back another permit.
ReleaseAgain_Counts(a) ==
  /\ phase[a] = "released"
  /\ gate' = GiveBack(gate)
  /\ UNCHANGED <<phase, aborted>>

\* The release callback again: the closure's flag makes it a no-op.
ReleaseAgain(a) ==
  /\ phase[a] = "released"
  /\ UNCHANGED vars

Step(a) ==
  \/ AcquireCancelled(a) \/ AcquireFree(a)
  \/ AcquireOverflow(a)  \/ AcquireQueued(a)
  \/ Abort(a) \/ Resume(a)
  \/ Release(a) \/ ReleaseAgain(a)

Next == \E a \in Acquirers : Step(a)

\* Callers release in finally, and a resolved promise always runs its
\* continuation.
Fairness == \A a \in Acquirers : WF_vars(Resume(a)) /\ WF_vars(Release(a))

Spec == Init /\ [][Next]_vars /\ Fairness
-----------------------------------------------------------------------------
\* Permits are neither minted nor lost: through hand-overs, aborts of queued
\* calls and repeated release callbacks, the free permits and the calls that
\* own one always add up to the configured count.
PermitsConserved == gate.available + Cardinality(Owners) = Permits

\* No lost wake-up: while somebody is queued no permit is free, and the queue
\* holds exactly the queued calls, each once.
NoLostWakeup ==
  /\ gate.waiters # <<>> => gate.available = 0
  /\ \A a \in Acquirers :
       phase[a] = "queued" <=> \E i \in 1..Len(gate.waiters) : gate.waiters[i] = a
  /\ \A i, j \in 1..Len(gate.waiters) :
       gate.waiters[i] = gate.waiters[j] => i = j

\* The counter and its hand-overs implement admission by a set of insiders
\* and one line: bounded, first come first served, no permit idle.
Bounded == INSTANCE Admission WITH
  admitted <- Owners,
  line <- gate.waiters,
  gone <- {a \in Acquirers : phase[a] \in {"released", "rejected"}}
AdmissionSpec == Bounded!Spec

\* Every queued call is eventually granted or rejected. (A call queues once, so that
\* all have settled some day says the same as one formula per call.)
EveryWaiterSettles ==
  (\E a \in Acquirers : phase[a] = "queued") ~> (\A a \in Acquirers : phase[a] # "queued")
=============================================================================
