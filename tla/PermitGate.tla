----------------------------- MODULE PermitGate -----------------------------
(***************************************************************************)
(* The data of runtime/semaphore.ts as pure operators: a gate is a record  *)
(*    available : free permits                                             *)
(*    waiters   : queued acquirers, first come first                       *)
(* Semaphore.tla checks the gate alone; ArenaRun.tla uses the same         *)
(* operators for the run slots and the column slots.                       *)
(***************************************************************************)
EXTENDS Naturals, Sequences

\* The gates an acquirer set can produce.
Gate(acquirers, permits) ==
  [available : 0..permits, waiters : Seq(acquirers)]

\* new Semaphore(permits): every permit free, nobody queued.
NewGate(permits) == [available |-> permits, waiters |-> <<>>]

\* acquire(): the permit is taken on the spot ...
Take(gate) == [gate EXCEPT !.available = @ - 1]

\* ... or the acquirer joins the tail of the queue.
Enqueue(gate, a) == [gate EXCEPT !.waiters = Append(@, a)]

\* onAbort of a queued acquirer: indexOf and splice take its waiter out of the
\* queue, and no permit moves.
SpliceOut(s, k) == [i \in 1..(Len(s) - 1) |-> IF i < k THEN s[i] ELSE s[i + 1]]

\* Slip: an abort leaves the waiter in the queue.
Withdraw_Nothing(gate, a) == gate

\* The abort of a parked acquirer takes it out of the queue.
Withdraw(gate, a) ==
  LET k == CHOOSE i \in 1..Len(gate.waiters) : gate.waiters[i] = a
  IN  [gate EXCEPT !.waiters = SpliceOut(@, k)]

\* One signal aborts several acquirers: those of the sequence who queue leave the
\* queue one by one.
WithdrawAll(gate, acquirers, queued) ==
  LET after[n \in 0..Len(acquirers)] ==
        IF n = 0 THEN gate
        ELSE IF acquirers[n] \in queued THEN Withdraw(after[n - 1], acquirers[n])
        ELSE after[n - 1]
  IN  after[Len(acquirers)]

\* Slip: the permit is counted free even though a waiter gets it.
GiveBack_ToThePool(gate) ==
  [available |-> gate.available + 1,
   waiters |-> IF gate.waiters = <<>> THEN <<>> ELSE Tail(gate.waiters)]

\* release(): the permit goes straight to the head of the queue, and only an
\* empty queue gives it back to the pool.
GiveBack(gate) ==
  IF gate.waiters # <<>>
    THEN [gate EXCEPT !.waiters = Tail(@)]
    ELSE [gate EXCEPT !.available = @ + 1]

\* Slip: the waiter that came last is woken.
Woken_Last(gate) ==
  IF gate.waiters # <<>> THEN {gate.waiters[Len(gate.waiters)]} ELSE {}

\* The acquirers a release wakes: the head of the queue, or nobody.
Woken(gate) == IF gate.waiters # <<>> THEN {Head(gate.waiters)} ELSE {}
=============================================================================
