---------------------------- MODULE EventChannel ----------------------------
(***************************************************************************)
(* runtime/event-channel.ts alone: producers push, receivers poll with a   *)
(* timeout, somebody may close.  The items are numbered in push order, so  *)
(* the k-th push carries k.                                                *)
(***************************************************************************)
EXTENDS ChannelOps, FiniteSets

CONSTANTS Receivers,   \* callers of receive(), each with one call in flight
          Capacity,    \* bound of the buffer
          MaxPush      \* bound on the pushes explored

ASSUME ChannelAssumption ==
  /\ IsFiniteSet(Receivers)
  /\ Capacity \in Nat \ {0}
  /\ MaxPush \in Nat

VARIABLES channel,
          pushed,      \* pushes accepted so far (a closed channel ignores them)
          got          \* items handed to receivers, in the order of hand-over
channelVars == <<channel, pushed, got>>

Parked(c) == \E i \in 1..Len(channel.waiters) : channel.waiters[i] = c
Calling(c) == Parked(c) \/ c \in DOMAIN channel.resolved

ChannelTypeOK ==
  /\ pushed \in 0..MaxPush
  /\ channel.buffer \in Seq(1..MaxPush) /\ Len(channel.buffer) <= Capacity
  /\ channel.waiters \in Seq(Receivers)
  /\ DOMAIN channel.resolved \subseteq Receivers
  /\ channel.closed \in BOOLEAN /\ channel.dropped \in 0..MaxPush
  /\ got \in Seq(1..MaxPush)

ChannelInit == channel = NewChannel /\ pushed = 0 /\ got = <<>>
-----------------------------------------------------------------------------
\* push(item). A parked receiver has its promise resolved on the spot.
PushItem ==
  /\ pushed < MaxPush
  /\ channel' = Push(channel, pushed + 1, Capacity)
  /\ pushed' = IF channel.closed THEN pushed ELSE pushed + 1
  /\ got' = IF \E c \in DOMAIN channel'.resolved :
                 /\ c \notin DOMAIN channel.resolved
                 /\ channel'.resolved[c] = Item(pushed + 1)
              THEN Append(got, pushed + 1) ELSE got

\* receive(timeoutMs) is called.
CallReceive(c) ==
  /\ ~Calling(c)
  /\ channel' = Receive(channel, c)
  /\ got' = IF c \in DOMAIN channel'.resolved /\ channel'.resolved[c] # Closed
              THEN Append(got, channel'.resolved[c].value) ELSE got
  /\ UNCHANGED pushed

\* The timer of a parked call fires; a resolved call has cleared its timer.
Expire(c) ==
  /\ Parked(c)
  /\ channel' = Elapse(channel, c)
  /\ UNCHANGED <<pushed, got>>

\* The continuation after the await runs.
Return(c) ==
  /\ c \in DOMAIN channel.resolved
  /\ channel' = PickUp(channel, c)
  /\ UNCHANGED <<pushed, got>>

\* close(), idempotent.
CloseChannel ==
  /\ ~channel.closed
  /\ channel' = Close(channel)
  /\ UNCHANGED <<pushed, got>>

ChannelNext == \/ PushItem \/ CloseChannel
        \/ \E c \in Receivers : CallReceive(c) \/ Expire(c) \/ Return(c)

\* Timers fire and resolved promises continue; nobody has to push or close.
ChannelFairness == \A c \in Receivers : WF_channelVars(Expire(c)) /\ WF_channelVars(Return(c))

ChannelSpec == ChannelInit /\ [][ChannelNext]_channelVars /\ ChannelFairness
-----------------------------------------------------------------------------
\* Every accepted item is delivered, buffered or counted as dropped, and
\* nothing is delivered twice.
NothingUnaccounted ==
  /\ Len(got) + Len(channel.buffer) + channel.dropped = pushed
  /\ LET all == got \o channel.buffer
     IN  \A i, j \in 1..Len(all) : i < j => all[i] < all[j]

\* Whatever the bound dropped is older than everything still buffered: the
\* buffer is the unbroken tail of the pushes.
DropsOldestOnly ==
  \A i \in 1..Len(channel.buffer) :
    channel.buffer[i] = pushed - Len(channel.buffer) + i

\* Nobody is parked while there is something to take, or after close.
NobodyParkedInVain ==
  channel.waiters # <<>> => channel.buffer = <<>> /\ ~channel.closed

\* The promise to a consumer: what it gets is in order, what it misses is counted and
\* older than what it still gets, and it is not left parked.
StreamIntact == NothingUnaccounted /\ DropsOldestOnly /\ NobodyParkedInVain

\* receive() never hangs: the timeout bounds it whatever producers do.
ReceiveReturns ==
  \A c \in Receivers : Calling(c) ~> ~Calling(c)
=============================================================================
