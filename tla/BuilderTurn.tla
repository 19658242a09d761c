----------------------------- MODULE BuilderTurn -----------------------------
(***************************************************************************)
(* One builder session and the requests that act on it: chat turns and     *)
(* compactions streamed over SSE, aborts, hot-swaps and deletion.          *)
(*                                                                         *)
(* Modelled are the SSE route, BuilderService.chatTurn and compactTurn,    *)
(* runBuilderTurn with its pump, and the session record of the store.      *)
(* Sessions share no state, so one of them is modelled.  A request has one *)
(* program counter for its chain of generators and, in a chat turn, the    *)
(* pump that runs the driver beside it.                                    *)
(***************************************************************************)
EXTENDS ChannelOps, FiniteSets

CONSTANTS Requests,      \* SSE requests, each one chat turn or one compaction; numbers in
                         \* the order of their arrival
          Summary,       \* the history entry a compaction leaves
          Capacity,      \* CHANNEL_BACKSTOP
          MaxNotices,    \* MAX_PENDING_NOTICES
          MaxHistory,    \* history cap, in turns
          MaxSwaps,      \* bound on the hot-swaps explored
          MaxSteps       \* bound on the events of a driver

ASSUME BuilderAssumption ==
  /\ IsFiniteSet(Requests) /\ Requests = 1..Cardinality(Requests)
  /\ Summary \notin Nat
  /\ Capacity \in Nat \ {0} /\ MaxNotices \in Nat \ {0} /\ MaxHistory \in Nat \ {0}
  /\ MaxSwaps \in Nat /\ MaxSteps \in Nat

NoRequest == 0  \* no entry in the runs map

VARIABLES
  exists,       \* the session is in the store
  running,      \* record.running
  slot,         \* runs: the request whose handle is registered
  composition,  \* version of record.composition
  history,      \* record.history: turn numbers, or Summary
  turns,        \* record.turnCount
  notices,      \* pendingNotices: the versions a notice announces
  announced,    \* history: the versions some turn was told about
  pc,           \* where the generators of a request stand
  kind,         \* "chat" or "compact"
  client,       \* is the HTTP client of the request connected or gone
  stop,         \* abortTurn has aborted the request's controller
  turn,         \* number and composition the turn read at its start, the
                \* history it gave the driver and the notices it consumed
  pump,         \* the pump of a chat turn
  abandon,      \* internalAbort of runBuilderTurn, fired by its finally
  channel,      \* the chunk channel of the turn
  steps,        \* events the driver may still emit
  output,       \* how the pump, then the turn, has ended
  ledger        \* the turn's row in the execution ledger

record == <<exists, running, composition, history, turns>>
streams == <<pump, abandon, channel, steps, output>>
vars == <<record, slot, notices, announced, pc, kind, client, stop, turn, streams, ledger>>

Outcomes == {"completed", "cancelled", "failed"}
Entries == (1..Cardinality(Requests)) \cup {Summary}
Working == {"receiving", "writing", "leaving"}

TypeOK ==
  /\ exists \in BOOLEAN /\ running \in BOOLEAN
  /\ slot \in Requests \cup {NoRequest}
  /\ composition \in 0..MaxSwaps
  /\ history \in Seq(Entries) /\ Len(history) <= MaxHistory
  /\ turns \in 0..Cardinality(Requests)
  /\ notices \in Seq(1..MaxSwaps) /\ Len(notices) <= MaxNotices
  /\ announced \subseteq 1..MaxSwaps
  /\ pc \in [Requests -> Working \cup {"idle", "opening", "starting", "summarizing",
                                      "settling", "reporting", "throwing", "closed"}]
  /\ kind \in [Requests -> {"chat", "compact"}]
  /\ client \in [Requests -> {"connected", "gone"}]
  /\ stop \in [Requests -> BOOLEAN]
  /\ turn \in [Requests -> [number : 0..Cardinality(Requests), used : 0..MaxSwaps,
                            given : Seq(Entries), told : Seq(1..MaxSwaps)]]
  /\ pump \in [Requests -> {"none", "running", "done"}]
  /\ abandon \in [Requests -> BOOLEAN]
  /\ \A q \in Requests : Len(channel[q].buffer) <= Capacity
  /\ steps \in [Requests -> 0..MaxSteps]
  /\ output \in [Requests -> Outcomes \cup {"none"}]
  /\ ledger \in [Requests -> Outcomes \cup {"none", "active"}]

Init ==
  /\ exists = TRUE /\ running = FALSE /\ slot = NoRequest
  /\ composition = 0 /\ history = <<>> /\ turns = 0
  /\ notices = <<>> /\ announced = {}
  /\ pc = [q \in Requests |-> "idle"]
  /\ kind \in [Requests -> {"chat", "compact"}]
  /\ client = [q \in Requests |-> "connected"]
  /\ stop = [q \in Requests |-> FALSE]
  /\ turn = [q \in Requests |-> [number |-> 0, used |-> 0, given |-> <<>>, told |-> <<>>]]
  /\ pump = [q \in Requests |-> "none"]
  /\ abandon = [q \in Requests |-> FALSE]
  /\ channel = [q \in Requests |-> NewChannel]
  /\ steps = [q \in Requests |-> MaxSteps]
  /\ output = [q \in Requests |-> "none"]
  /\ ledger = [q \in Requests |-> "none"]

\* assertIdle: neither flag says that a turn runs.
Idle == ~running /\ slot = NoRequest

\* The controller of a chat turn follows its client; that of a compaction is
\* reached by abortTurn only.
Aborted(q) == stop[q] \/ (kind[q] = "chat" /\ client[q] = "gone")
\* The signal the driver sees.
Signalled(q) == Aborted(q) \/ abandon[q]

\* Resolved promises continue before the next request or disconnect.
Drained(q) == q \notin DOMAIN channel[q].resolved
AllDrained == \A q \in Requests : Drained(q)
-----------------------------------------------------------------------------
(* The session between turns.                                              *)

\* Slip: the full queue refuses the new notice.
QueueNotice_DropsNewest(queue, version) ==
  IF Len(queue) = MaxNotices THEN queue ELSE Append(queue, version)

\* queueNotice: past the cap the oldest notice makes room.
QueueNotice(queue, version) ==
  LET grown == Append(queue, version)
  IN  IF Len(grown) > MaxNotices THEN Tail(grown) ELSE grown

\* Slip: swapped while a turn runs, too.
Patch_WhileRunning ==
  /\ AllDrained /\ exists /\ composition < MaxSwaps
  /\ composition' = composition + 1
  /\ notices' = QueueNotice(notices, composition + 1)
  /\ UNCHANGED <<exists, running, history, turns, slot, announced, pc, kind,
                 client, stop, turn, streams, ledger>>

\* patchComposition of a session that is idle: the blocks change and a notice
\* announces them to the next turn.
Patch ==
  /\ AllDrained /\ exists /\ Idle /\ composition < MaxSwaps
  /\ composition' = composition + 1
  /\ notices' = QueueNotice(notices, composition + 1)
  /\ UNCHANGED <<exists, running, history, turns, slot, announced, pc, kind,
                 client, stop, turn, streams, ledger>>

Delete ==
  /\ AllDrained /\ exists /\ Idle
  /\ exists' = FALSE
  /\ notices' = <<>>
  /\ UNCHANGED <<running, composition, history, turns, slot, announced, pc, kind,
                 client, stop, turn, streams, ledger>>

\* abortTurn aborts whatever handle is registered.
AbortTurn ==
  /\ AllDrained /\ slot # NoRequest /\ ~stop[slot]
  /\ stop' = [stop EXCEPT ![slot] = TRUE]
  /\ UNCHANGED <<record, slot, notices, announced, pc, kind, client, turn, streams, ledger>>

\* The client of a request disconnects. One that is gone before its request is
\* handled is gone when the ledger has answered, the first time it matters.
Disconnect(q) ==
  /\ AllDrained /\ pc[q] \notin {"idle", "closed"} /\ client[q] = "connected"
  /\ client' = [client EXCEPT ![q] = "gone"]
  /\ UNCHANGED <<record, slot, notices, announced, pc, kind, stop, turn, streams, ledger>>
-----------------------------------------------------------------------------
(* The start of a turn or a compaction.                                    *)

\* The conditions under which chatTurn and compactTurn refuse: 404, 409, 422.
Refused(q) ==
  \/ ~exists
  \/ ~Idle
  \/ kind[q] = "compact" /\ history = <<>>

\* The next request that has not arrived yet.
Arrives(q) == pc[q] = "idle" /\ \A p \in 1..(q - 1) : pc[p] # "idle"

Refuse(q) ==
  /\ Arrives(q) /\ Refused(q)
  /\ pc' = [pc EXCEPT ![q] = "closed"]
  /\ UNCHANGED <<record, slot, notices, announced, kind, client, stop, turn, streams, ledger>>

\* The slot is taken in the same stretch as the guards, and the ledger row is
\* asked for.
Begin(q) ==
  /\ Arrives(q) /\ ~Refused(q)
  /\ slot' = q /\ running' = TRUE
  /\ pc' = [pc EXCEPT ![q] = "opening"]
  /\ UNCHANGED <<exists, composition, history, turns, notices, announced, kind,
                 client, stop, turn, streams, ledger>>

\* takeNotices drains the queue.
TakeNotices == notices' = <<>>

\* The ledger has answered (fail-open: perhaps without a row), the turn reads
\* its number and composition, and the first chunk is yielded. It stands before
\* the try: a route whose client is gone returns the generator, and nothing of
\* its cleanup runs.
Opened(q) ==
  /\ pc[q] = "opening"
  /\ \E row \in {"active", "none"} : ledger' = [ledger EXCEPT ![q] = row]
  /\ IF kind[q] = "chat"
       THEN /\ turn' = [turn EXCEPT ![q].number = turns + 1,
                                    ![q].used = composition,
                                    ![q].told = notices]
            /\ announced' = announced \cup ToSet(notices)
            /\ TakeNotices
       ELSE UNCHANGED <<turn, announced, notices>>
  /\ pc' = [pc EXCEPT ![q] = IF client[q] = "gone" THEN "closed" ELSE "starting"]
  /\ UNCHANGED <<record, slot, kind, client, stop, streams>>
-----------------------------------------------------------------------------
(* The end of a turn: the finally of chatTurn and compactTurn.             *)

FreeSlot == slot' = NoRequest /\ running' = FALSE
Finish(q) == FreeSlot /\ pc' = [pc EXCEPT ![q] = "closed"]

\* An error escapes inside the try: the catch writes the ledger first.
Throw(q) ==
  /\ pc' = [pc EXCEPT ![q] = "throwing"]
  /\ UNCHANGED <<record, slot, notices, announced, kind, client, stop, turn, ledger>>

Thrown(q) ==
  /\ pc[q] = "throwing"
  /\ ledger' = [ledger EXCEPT ![q] =
                  IF @ = "none" THEN "none"
                  ELSE IF Aborted(q) THEN "cancelled" ELSE "failed"]
  /\ Finish(q)
  /\ UNCHANGED <<exists, composition, history, turns, notices, announced, kind,
                 client, stop, turn, streams>>
-----------------------------------------------------------------------------
(* A chat turn.                                                            *)

\* Slip: the history is not trimmed.
Trim_Off(h) == h

\* trimHistoryToCaps keeps the newest turns.
Trim(h) == IF Len(h) > MaxHistory THEN Tail(h) ELSE h

\* The first chunk is written: the history goes to the driver, the pump starts
\* and the consume loop asks for its first chunk.
StartPump(q) ==
  /\ pc[q] = "starting" /\ kind[q] = "chat"
  /\ turn' = [turn EXCEPT ![q].given = history]
  /\ pump' = [pump EXCEPT ![q] = "running"]
  /\ channel' = [channel EXCEPT ![q] = Receive(@, q)]
  /\ pc' = [pc EXCEPT ![q] = "receiving"]
  /\ UNCHANGED <<record, slot, notices, announced, kind, client, stop, abandon,
                 steps, output, ledger>>

\* The endpoint cannot be resolved: the only call in front of the pump that may
\* throw.
StartThrows(q) ==
  /\ pc[q] = "starting" /\ kind[q] = "chat"
  /\ Throw(q)
  /\ UNCHANGED streams

Chunk == [kind |-> "chunk"]
End == [kind |-> "end"]

\* The driver yields an event or a wire record is traced, perhaps after its
\* signal has fired; a closed channel ignores the chunk.
PumpEmits(q) ==
  /\ pump[q] = "running" /\ steps[q] > 0
  /\ steps' = [steps EXCEPT ![q] = @ - 1]
  /\ channel' = [channel EXCEPT ![q] = Push(@, Chunk, Capacity)]
  /\ UNCHANGED <<record, slot, notices, announced, pc, kind, client, stop, turn,
                 pump, abandon, output, ledger>>

\* The agent execution ends or throws: the output is resolved, with the abort
\* read at that moment, and the terminator follows.
PumpEnds(q) ==
  /\ pump[q] = "running"
  /\ \E result \in {"completed", "failed"} : \E notes \in {<<>>, <<Chunk>>} :
       /\ notes # <<>> => result = "failed"
       /\ output' = [output EXCEPT ![q] = IF Signalled(q) THEN "cancelled" ELSE result]
       /\ channel' = [channel EXCEPT ![q] = PushAll(@, Append(notes, End), Capacity)]
  /\ pump' = [pump EXCEPT ![q] = "done"]
  /\ UNCHANGED <<record, slot, notices, announced, pc, kind, client, stop, turn,
                 abandon, steps, ledger>>

Got(q) == pc[q] = "receiving" /\ q \in DOMAIN channel[q].resolved

\* A chunk is yielded through the service to the route. A route whose client is
\* gone returns the chain: the finally of runBuilderTurn aborts the driver and
\* closes the channel.
HandleChunk(q) ==
  /\ Got(q) /\ channel[q].resolved[q] = Item(Chunk)
  /\ IF client[q] = "gone"
       THEN /\ pc' = [pc EXCEPT ![q] = "leaving"]
            /\ abandon' = [abandon EXCEPT ![q] = TRUE]
            /\ channel' = [channel EXCEPT ![q] = Close(PickUp(@, q))]
       ELSE /\ pc' = [pc EXCEPT ![q] = "writing"]
            /\ channel' = [channel EXCEPT ![q] = PickUp(@, q)]
            /\ UNCHANGED abandon
  /\ UNCHANGED <<record, slot, notices, announced, kind, client, stop, turn,
                 pump, steps, output, ledger>>

ChunkWritten(q) ==
  /\ pc[q] = "writing"
  /\ pc' = [pc EXCEPT ![q] = "receiving"]
  /\ channel' = [channel EXCEPT ![q] = Receive(@, q)]
  /\ UNCHANGED <<record, slot, notices, announced, kind, client, stop, turn,
                 pump, abandon, steps, output, ledger>>

\* Slip: the slot is freed while the pump still runs.
Leave_WithoutPump(q) ==
  /\ pc[q] = "leaving"
  /\ Finish(q)
  /\ UNCHANGED <<exists, composition, history, turns, notices, announced, kind,
                 client, stop, turn, streams, ledger>>

\* ... and it waits for the pump before the slot is freed. Neither the settling
\* code nor the catch runs after a return.
Leave(q) ==
  /\ pc[q] = "leaving" /\ pump[q] = "done"
  /\ Finish(q)
  /\ UNCHANGED <<exists, composition, history, turns, notices, announced, kind,
                 client, stop, turn, streams, ledger>>

\* The terminator ends the loop, and only a completed turn is appended. The
\* ledger is asked to close the row.
AppendTurn(q) ==
  /\ history' = Trim(Append(history, turn[q].number))
  /\ turns' = turns + 1

\* Slip: a stopped turn is appended, too.
HandleEnd_AppendsAll(q) ==
  /\ Got(q) /\ channel[q].resolved[q] = Item(End)
  /\ channel' = [channel EXCEPT ![q] = Close(PickUp(@, q))]
  /\ abandon' = [abandon EXCEPT ![q] = TRUE]
  /\ AppendTurn(q)
  /\ pc' = [pc EXCEPT ![q] = "settling"]
  /\ UNCHANGED <<exists, running, composition, slot, notices, announced, kind,
                 client, stop, turn, pump, steps, output, ledger>>

\* The terminator: the channel is closed, and only a completed turn is appended.
HandleEnd(q) ==
  /\ Got(q) /\ channel[q].resolved[q] = Item(End)
  /\ channel' = [channel EXCEPT ![q] = Close(PickUp(@, q))]
  /\ abandon' = [abandon EXCEPT ![q] = TRUE]
  /\ IF output[q] = "completed" THEN AppendTurn(q) ELSE UNCHANGED <<history, turns>>
  /\ pc' = [pc EXCEPT ![q] = "settling"]
  /\ UNCHANGED <<exists, running, composition, slot, notices, announced, kind,
                 client, stop, turn, pump, steps, output, ledger>>
-----------------------------------------------------------------------------
(* A compaction.                                                           *)

\* The transcript of the history is read and the model asked for a summary.
Summarize(q) ==
  /\ pc[q] = "starting" /\ kind[q] = "compact"
  /\ turn' = [turn EXCEPT ![q].given = history]
  /\ pc' = [pc EXCEPT ![q] = "summarizing"]
  /\ UNCHANGED <<record, slot, notices, announced, kind, client, stop, streams, ledger>>

\* The summary replaces the history; an empty one fails the compaction.
Summarized(q) ==
  /\ pc[q] = "summarizing"
  /\ \/ /\ history' = <<Summary>>
        /\ output' = [output EXCEPT ![q] = "completed"]
     \/ /\ output' = [output EXCEPT ![q] = "failed"]
        /\ UNCHANGED history
  /\ pc' = [pc EXCEPT ![q] = "settling"]
  /\ UNCHANGED <<exists, running, composition, turns, slot, notices, announced, kind,
                 client, stop, turn, pump, abandon, channel, steps, ledger>>

\* The model call fails or is aborted.
SummaryThrows(q) ==
  /\ pc[q] = "summarizing"
  /\ Throw(q)
  /\ UNCHANGED streams
-----------------------------------------------------------------------------
(* Both: the ledger has closed the row and the closing chunk is yielded.   *)

Settle(q) ==
  /\ pc[q] = "settling"
  /\ ledger' = [ledger EXCEPT ![q] = IF @ = "none" THEN @ ELSE output[q]]
  /\ IF client[q] = "gone"
       THEN Finish(q)
       ELSE /\ pc' = [pc EXCEPT ![q] = "reporting"]
            /\ UNCHANGED <<slot, running>>
  /\ UNCHANGED <<exists, composition, history, turns, notices, announced, kind,
                 client, stop, turn, streams>>

Reported(q) ==
  /\ pc[q] = "reporting"
  /\ Finish(q)
  /\ UNCHANGED <<exists, composition, history, turns, notices, announced, kind,
                 client, stop, turn, streams, ledger>>
-----------------------------------------------------------------------------
Generator(q) ==
  \/ Opened(q) \/ StartPump(q) \/ StartThrows(q) \/ Thrown(q)
  \/ HandleChunk(q) \/ ChunkWritten(q) \/ HandleEnd(q) \/ Leave(q)
  \/ Summarize(q) \/ Summarized(q) \/ SummaryThrows(q)
  \/ Settle(q) \/ Reported(q)
Pump(q) == PumpEmits(q) \/ PumpEnds(q)

Next == \/ Patch \/ Delete \/ AbortTurn
        \/ \E q \in Requests : \/ Refuse(q) \/ Begin(q) \/ Disconnect(q)
                               \/ Generator(q) \/ Pump(q)

\* Awaited calls settle, and a driver ends: its model calls carry timeouts.
Fairness == \A q \in Requests : WF_vars(Generator(q)) /\ WF_vars(Pump(q))

Spec == Init /\ [][Next]_vars
FairSpec == Spec /\ Fairness
-----------------------------------------------------------------------------
\* No two drivers of a session run at once, and none outlives its turn: the
\* slot is freed only after the pump, however the turn is left.
OneDriver ==
  \A q \in Requests : pump[q] = "running" =>
    /\ pc[q] \in Working /\ slot = q
    /\ \A p \in Requests \ {q} : pump[p] # "running"

\* While a driver works, and until its turn is committed, the session is the
\* one it was given: same blocks, same history; and a summary replaces the
\* history it summarizes.
SnapshotHolds ==
  \A q \in Requests :
    /\ pc[q] \in Working =>
         /\ exists /\ turn[q].given = history
         /\ turn[q].used = composition /\ turn[q].number = turns + 1
    /\ pc[q] = "summarizing" => exists /\ turn[q].given = history

\* The turns in the history are numbered without gaps up to the turn counter,
\* also across compactions, failed and aborted turns.
NumberingDense ==
  /\ \A i \in 1..Len(history) : history[i] = Summary => i = 1
  /\ \A i \in 1..Len(history) :
       history[i] # Summary => history[i] = turns - Len(history) + i

\* The ledger agrees with the history: every turn it calls completed was
\* committed under a number of its own, and nothing was committed for a turn it
\* calls cancelled or failed.
LedgerTellsHistory ==
  LET Chats(rows) == {q \in Requests : kind[q] = "chat" /\ ledger[q] \in rows}
      finished == {q \in Chats({"none", "active", "completed"}) : output[q] = "completed"}
  IN  /\ \A q \in Chats({"completed"}) :
           /\ turn[q].number \in 1..turns
           /\ \A p \in Chats({"completed"}) \ {q} : turn[p].number # turn[q].number
      /\ turns <= Cardinality(finished)

\* What the session remembers: history, turn counter and ledger tell one story.
HistoryTold == NumberingDense /\ LedgerTellsHistory

\* A turn that runs on swapped blocks was told so, or a turn before it was; the
\* cap of the queue never costs the newest notice.
SwapPerceived ==
  \A q \in Requests : turn[q].used > 0 => turn[q].used \in announced

\* A notice is consumed by one turn.
NoticeOnce ==
  \A p, q \in Requests : p # q => ToSet(turn[p].told) \cap ToSet(turn[q].told) = {}

\* Swaps are announced, and once.
SwapsAnnounced == SwapPerceived /\ NoticeOnce

\* A turn whose first chunk was delivered frees its session in the end.
SlotIsFreed == \A q \in Requests : pc[q] = "starting" ~> slot # q
-----------------------------------------------------------------------------
(* A statement of the code that it does not keep.                          *)

\* "A turn is already running for this session": a session that answers 409
\* has a turn that is still alive.
ConflictMeansTurn == slot # NoRequest => pc[slot] # "closed"
=============================================================================
