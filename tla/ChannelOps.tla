----------------------------- MODULE ChannelOps -----------------------------
(***************************************************************************)
(* The data of runtime/event-channel.ts as pure operators: a channel is a  *)
(* record                                                                  *)
(*    buffer   : items pushed and not yet received, oldest first           *)
(*    waiters  : receivers parked in receive(), first come first           *)
(*    resolved : receivers whose promise is resolved, with the result each *)
(*               of them has not picked up yet                             *)
(*    closed, dropped                                                      *)
(* EventChannel.tla checks the channel alone; ArenaRun.tla uses the same   *)
(* operators for the stream that merges the columns of a run.              *)
(***************************************************************************)
EXTENDS Naturals, SequencesExt

Item(x) == [kind |-> "item", value |-> x]
Timeout == [kind |-> "timeout"]
Closed == [kind |-> "closed"]

NewChannel ==
  [buffer |-> <<>>, waiters |-> <<>>, resolved |-> <<>>,
   closed |-> FALSE, dropped |-> 0]

\* Resolves the promises of these receivers with a result.
ResolveAll(ch, who, result) ==
  [ch EXCEPT !.resolved =
     [c \in DOMAIN @ \cup who |-> IF c \in who THEN result ELSE @[c]]]
Resolve(ch, c, result) == ResolveAll(ch, {c}, result)

\* A push takes the first parked receiver out of the queue.
Serve(ch, x) == [Resolve(ch, Head(ch.waiters), Item(x)) EXCEPT !.waiters = Tail(@)]

\* The timer of receiver c: indexOf and splice take its waiter out of the queue.
Elapse(ch, c) ==
  LET k == CHOOSE i \in 1..Len(ch.waiters) : ch.waiters[i] = c
  IN  [Resolve(ch, c, Timeout) EXCEPT !.waiters = RemoveAt(@, k)]

\* Slip: the full buffer refuses the new item.
Push_DropsNewest(ch, x, capacity) ==
  IF ch.closed THEN ch
  ELSE IF ch.waiters # <<>> THEN Serve(ch, x)
  ELSE IF Len(ch.buffer) >= capacity THEN [ch EXCEPT !.dropped = @ + 1]
  ELSE [ch EXCEPT !.buffer = Append(@, x)]

\* push(): a closed channel ignores the item, a parked receiver gets it, and
\* past the capacity the oldest buffered items make room.
Push(ch, x, capacity) ==
  IF ch.closed THEN ch
  ELSE IF ch.waiters # <<>> THEN Serve(ch, x)
  ELSE LET over == Len(ch.buffer) >= capacity
       IN  [ch EXCEPT !.buffer = IF over THEN Append(Tail(@), x) ELSE Append(@, x),
                      !.dropped = IF over THEN @ + 1 ELSE @]

\* Several pushes of one synchronous stretch of code.
PushAll(ch, items, capacity) ==
  LET after[n \in 0..Len(items)] ==
        IF n = 0 THEN ch ELSE Push(after[n - 1], items[n], capacity)
  IN  after[Len(items)]

\* Slip: the item stays in the buffer.
Receive_Peeks(ch, c) ==
  IF ch.buffer # <<>>
    THEN Resolve(ch, c, Item(Head(ch.buffer)))
  ELSE IF ch.closed THEN Resolve(ch, c, Closed)
  ELSE [ch EXCEPT !.waiters = Append(@, c)]

\* receive() of receiver c: the buffer first, then the closed marker, else the
\* receiver parks.
Receive(ch, c) ==
  IF ch.buffer # <<>>
    THEN [Resolve(ch, c, Item(Head(ch.buffer))) EXCEPT !.buffer = Tail(@)]
  ELSE IF ch.closed THEN Resolve(ch, c, Closed)
  ELSE [ch EXCEPT !.waiters = Append(@, c)]

\* close(): every parked receiver learns it; buffered items stay.
Close(ch) ==
  [ResolveAll(ch, ToSet(ch.waiters), Closed) EXCEPT !.closed = TRUE, !.waiters = <<>>]

\* The caller of receive() picks its result up.
PickUp(ch, c) ==
  [ch EXCEPT !.resolved = [d \in DOMAIN @ \ {c} |-> @[d]]]
=============================================================================
