------------------------------ MODULE ArenaRun ------------------------------
(***************************************************************************)
(* An arena run from the HTTP request to the closed stream: the SSE route, *)
(* ArenaService.run, ArenaRunner.streamParallel, its column workers and    *)
(* the agent execution inside each worker.                                 *)
(*                                                                         *)
(* The route pulls a chain of async generators, so a run has one program   *)
(* counter, gen; every column worker has its own, col.  Runs share the run *)
(* slots, columns of all runs share the column slots, and the workers of a *)
(* run feed one bounded channel.  An action is one synchronous stretch of  *)
(* JavaScript together with the microtasks it resolves.                    *)
(***************************************************************************)
EXTENDS PermitGate, ChannelOps, FiniteSets

CONSTANTS Runs, Columns,
          Lineups,      \* what requests may ask for: the columns of each run in spawn order
          RunSlots,     \* maxConcurrentRuns
          ColumnSlots,  \* maxConcurrentColumns
          Capacity,     \* CHANNEL_BACKSTOP
          MaxSteps      \* bound on a column's events before its terminal ones

ASSUME ArenaAssumption ==
  /\ IsFiniteSet(Runs) /\ IsFiniteSet(Columns)
  /\ Lineups \subseteq [Runs -> Seq(Columns)]
  /\ RunSlots \in Nat \ {0} /\ ColumnSlots \in Nat \ {0}
  /\ Capacity \in Nat \ {0} /\ MaxSteps \in Nat
  /\ \A l \in Lineups : \A c \in Columns : Cardinality({r \in Runs : c \in ToSet(l[r])}) = 1
  /\ \A l \in Lineups : \A r \in Runs : IsInjective(l[r])

VARIABLES
  lineup,     \* what the requests of this behaviour ask for
  client,     \* is the HTTP client of the run connected or gone
  gen,        \* where the generator chain of the run stands
  exit,       \* how streamParallel was left: "normal" or "returned" by the route
  ledger,     \* the run's execution session
  internal,   \* internalAbort of the run has fired
  channel,    \* the merge channel of the run
  finished,   \* null terminators counted by the drain loop
  runGate,    \* runSlots
  colGate,    \* columnSlots
  col,        \* where the worker of a column stands
  steps,      \* driver events the column may still emit
  held,       \* the driver's own complete is held back
  stopped,    \* stopColumn was acknowledged for the column
  verdict,    \* history: how the terminal complete of the column was pushed
  seen        \* history: kinds of the column's events the route has received

vars == <<lineup, client, gen, exit, ledger, internal, channel, finished, runGate,
          colGate, col, steps, held, stopped, verdict, seen>>
runVars == <<client, exit, ledger, internal, finished, runGate>>
columnVars == <<steps, held, stopped, verdict, seen>>

ColumnsOf(r) == ToSet(lineup[r])
RunOf(c) == CHOOSE r \in Runs : c \in ColumnsOf(r)

\* Items of the channel. The terminator is anonymous, like the code's null.
Event(c, kind) == [col |-> c, kind |-> kind]
End == [kind |-> "end"]
Items == [col : Columns, kind : {"step", "error", "stopped", "complete"}]
           \cup {End}

Streaming == {"receiving", "writing", "publishing", "reporting"}
GenState == Streaming \cup {"idle", "opening", "slot", "admitted", "rejecting",
                            "teardown", "settling", "throwing", "closed"}
Live == {"driving", "finalizing", "recording", "failing"}
ColState == Live \cup {"unborn", "queued", "granted", "done"}

\* Who owns a permit of the two gates.
RunOwners == {r \in Runs : gen[r] \in Streaming \cup {"admitted", "rejecting", "teardown"}}
ColOwners == {c \in Columns : col[c] \in Live \cup {"granted"}}

\* The linked signal of a column: the run's abort or its own stop.
Aborted(c) == internal[RunOf(c)] \/ stopped[c]

TypeOK ==
  /\ client \in [Runs -> {"connected", "gone"}]
  /\ gen \in [Runs -> GenState]
  /\ exit \in [Runs -> {"none", "normal", "returned"}]
  /\ ledger \in [Runs -> {"none", "active", "completed", "cancelled", "failed"}]
  /\ internal \in [Runs -> BOOLEAN]
  /\ \A r \in Runs :
       /\ channel[r].buffer \in Seq(Items) /\ Len(channel[r].buffer) <= Capacity
       /\ channel[r].waiters \in {<<>>, <<r>>}
       /\ finished[r] \in 0..Len(lineup[r])
  /\ runGate \in Gate(Runs, RunSlots)
  /\ colGate \in Gate(Columns, ColumnSlots)
  /\ col \in [Columns -> ColState]
  /\ steps \in [Columns -> 0..MaxSteps]
  /\ held \in [Columns -> BOOLEAN] /\ stopped \in [Columns -> BOOLEAN]
  /\ verdict \in [Columns -> {"none", "finished", "stopped", "failed"}]

Init ==
  /\ lineup \in Lineups
  /\ client = [r \in Runs |-> "connected"]
  /\ gen = [r \in Runs |-> "idle"]
  /\ exit = [r \in Runs |-> "none"]
  /\ ledger = [r \in Runs |-> "none"]
  /\ internal = [r \in Runs |-> FALSE]
  /\ channel = [r \in Runs |-> NewChannel]
  /\ finished = [r \in Runs |-> 0]
  /\ runGate = NewGate(RunSlots) /\ colGate = NewGate(ColumnSlots)
  /\ col = [c \in Columns |-> "unborn"]
  /\ steps = [c \in Columns |-> MaxSteps]
  /\ held = [c \in Columns |-> FALSE] /\ stopped = [c \in Columns |-> FALSE]
  /\ verdict = [c \in Columns |-> "none"]
  /\ seen = [c \in Columns |-> <<>>]

\* No continuation of the run is due. Promises that are resolved continue in
\* microtasks, which Node drains before the next request, disconnect or timer;
\* only those events carry this guard.
Drained(r) ==
  /\ gen[r] # "admitted"
  /\ r \notin DOMAIN channel[r].resolved
  /\ \A c \in ColumnsOf(r) : col[c] # "granted"
-----------------------------------------------------------------------------
(* Before the stream: the session row and the run slot.                    *)

Request(r) ==
  /\ gen[r] = "idle" /\ lineup[r] # << >>
  /\ gen' = [gen EXCEPT ![r] = "opening"]
  /\ UNCHANGED <<runVars, channel, colGate, col, columnVars>>

\* startSession and ensureRunner have answered, acquireSlot is called. The
\* session is opened fail-open: a store error leaves the run without a row.
Open(r) ==
  /\ gen[r] = "opening"
  /\ \E row \in {"active", "none"} : ledger' = [ledger EXCEPT ![r] = row]
  /\ \/ /\ client[r] = "gone"
        /\ gen' = [gen EXCEPT ![r] = "throwing"]
        /\ UNCHANGED runGate
     \/ /\ client[r] = "connected" /\ runGate.available > 0
        /\ gen' = [gen EXCEPT ![r] = "admitted"]
        /\ runGate' = Take(runGate)
     \/ /\ client[r] = "connected" /\ runGate.available = 0
        /\ gen' = [gen EXCEPT ![r] = "slot"]
        /\ runGate' = Enqueue(runGate, r)
  /\ UNCHANGED <<client, exit, internal, finished, channel, colGate, col, columnVars>>

\* The runner cannot be built: the error is rethrown through the catch.
OpenWithoutRunner(r) ==
  /\ gen[r] = "opening"
  /\ \E row \in {"active", "none"} : ledger' = [ledger EXCEPT ![r] = row]
  /\ gen' = [gen EXCEPT ![r] = "throwing"]
  /\ UNCHANGED <<client, exit, internal, finished, runGate, channel, colGate, col, columnVars>>

\* The catch of ArenaService.run: abort supersedes failure.
Throw(r) ==
  /\ gen[r] = "throwing"
  /\ ledger' = [ledger EXCEPT ![r] =
                  IF @ = "none" THEN "none"
                  ELSE IF client[r] = "gone" THEN "cancelled" ELSE "failed"]
  /\ gen' = [gen EXCEPT ![r] = "closed"]
  /\ UNCHANGED <<client, exit, internal, finished, runGate, channel, colGate, col, columnVars>>

\* finally { release() } of the run slot; the next queued run is admitted.
ReleaseRun(r, next) ==
  /\ runGate' = GiveBack(runGate)
  /\ gen' = [q \in Runs |-> IF q = r THEN next
                            ELSE IF q \in Woken(runGate) THEN "admitted"
                            ELSE gen[q]]
-----------------------------------------------------------------------------
(* The worker of a column.                                                 *)

\* Slip: the permit is not given back.
FinishColumn_KeepsSlot(c, items) ==
  /\ UNCHANGED colGate
  /\ col' = [col EXCEPT ![c] = "done"]
  /\ channel' = [channel EXCEPT ![RunOf(c)] = PushAll(@, Append(items, End), Capacity)]

\* finally of the worker: the column slot moves on and the terminator follows
\* whatever the worker pushed.
FinishColumn(c, items) ==
  /\ colGate' = GiveBack(colGate)
  /\ col' = [d \in Columns |-> IF d = c THEN "done"
                               ELSE IF d \in Woken(colGate) THEN "granted"
                               ELSE col[d]]
  /\ channel' = [channel EXCEPT ![RunOf(c)] = PushAll(@, Append(items, End), Capacity)]

\* emitFailure: an error and a fabricated failed complete.
Failure(c, kind) == <<Event(c, kind), Event(c, "complete")>>

\* The endpoint's breaker is open, or the framework has no driver.
RefuseColumn(c) ==
  /\ col[c] = "granted"
  /\ FinishColumn(c, Failure(c, "error"))
  /\ verdict' = [verdict EXCEPT ![c] = "failed"]
  /\ UNCHANGED <<gen, runVars, steps, held, stopped, seen>>

\* The column registers its abort controller and the agent execution begins.
StartDriver(c) ==
  /\ col[c] = "granted"
  /\ col' = [col EXCEPT ![c] = "driving"]
  /\ UNCHANGED <<gen, runVars, channel, colGate, columnVars>>

\* The driver yields an event. A driver may do so after its signal has fired.
Emit(c) ==
  /\ col[c] = "driving" /\ steps[c] > 0
  /\ steps' = [steps EXCEPT ![c] = @ - 1]
  /\ channel' = [channel EXCEPT ![RunOf(c)] = Push(@, Event(c, "step"), Capacity)]
  /\ UNCHANGED <<gen, runVars, colGate, col, held, stopped, verdict, seen>>

\* The agent execution rethrows because the signal has fired: the runner
\* reports a stopped column or, when the whole run was aborted, a failed one.
Rethrow(c) ==
  LET kind == IF stopped[c] /\ ~internal[RunOf(c)] THEN "stopped" ELSE "error"
  IN  /\ Aborted(c)
      /\ FinishColumn(c, Failure(c, kind))
      /\ verdict' = [verdict EXCEPT ![c] = IF kind = "stopped" THEN kind ELSE "failed"]
      /\ UNCHANGED <<gen, runVars, steps, held, stopped, seen>>

\* The driver's stream ends or throws after an abort; the checkpoint behind
\* the driver loop turns a normal end into the same rethrow.
DriverAborts(c) == col[c] = "driving" /\ Rethrow(c)

\* The driver's stream ends, with or without a complete of its own (held
\* back), and the structured profile asks for one more model call.
DriverFinishes(c) ==
  /\ col[c] = "driving" /\ ~Aborted(c)
  /\ \E own \in BOOLEAN : held' = [held EXCEPT ![c] = own]
  /\ col' = [col EXCEPT ![c] = "finalizing"]
  /\ UNCHANGED <<gen, runVars, channel, colGate, steps, stopped, verdict, seen>>

\* finalizeStructuredAnswer has answered, failed or was not asked for: the
\* normalized answer and the held complete go out, the episode is recorded.
Finalize(c) ==
  /\ col[c] = "finalizing"
  /\ col' = [col EXCEPT ![c] = "recording"]
  /\ \E n \in 0..(IF steps[c] > 0 THEN 1 ELSE 0) :
       /\ steps' = [steps EXCEPT ![c] = @ - n]
       /\ channel' = [channel EXCEPT ![RunOf(c)] =
            PushAll(@, [i \in 1..n |-> Event(c, "step")]
                         \o (IF held[c] THEN <<Event(c, "complete")>> ELSE <<>>), Capacity)]
  /\ verdict' = [verdict EXCEPT ![c] = IF held[c] THEN "finished" ELSE @]
  /\ UNCHANGED <<gen, runVars, colGate, held, stopped, seen>>

\* Slip: a complete is synthesized even when the driver gave one.
Record_Always(c) ==
  /\ col[c] = "recording"
  /\ FinishColumn(c, <<Event(c, "complete")>>)
  /\ verdict' = [verdict EXCEPT ![c] = "finished"]
  /\ UNCHANGED <<gen, runVars, steps, held, stopped, seen>>

\* recordEpisodicExperience has settled; a run whose driver gave no complete
\* gets a synthesized one.
Record(c) ==
  /\ col[c] = "recording"
  /\ FinishColumn(c, IF held[c] THEN <<>> ELSE <<Event(c, "complete")>>)
  /\ verdict' = [verdict EXCEPT ![c] = "finished"]
  /\ UNCHANGED <<gen, runVars, steps, held, stopped, seen>>

\* The driver throws without an abort: the failed episode is recorded first.
DriverThrows(c) ==
  /\ col[c] = "driving" /\ ~Aborted(c)
  /\ col' = [col EXCEPT ![c] = "failing"]
  /\ UNCHANGED <<gen, runVars, channel, colGate, columnVars>>

ReportFailure(c) ==
  /\ col[c] = "failing"
  /\ FinishColumn(c, Failure(c, "error"))
  /\ verdict' = [verdict EXCEPT ![c] = "failed"]
  /\ UNCHANGED <<gen, runVars, steps, held, stopped, seen>>

\* stopColumn(agentId) returns true: the column is registered and was not
\* stopped before. The client has the agent id from the column's events.
StopColumn(c) ==
  /\ Drained(RunOf(c))
  /\ col[c] \in Live /\ ~stopped[c] /\ seen[c] # <<>>
  /\ stopped' = [stopped EXCEPT ![c] = TRUE]
  /\ UNCHANGED <<gen, runVars, channel, colGate, col, steps, held, verdict, seen>>
-----------------------------------------------------------------------------
(* The stream of a run.                                                    *)

\* internalAbort fires: columns still queued for a slot leave the queue, each by its
\* own listener, and push their terminators; running columns see their signal.
AbortColumns(r, ch) ==
  LET queued == {c \in ColumnsOf(r) : col[c] = "queued"}
  IN  /\ internal' = [internal EXCEPT ![r] = TRUE]
      /\ colGate' = WithdrawAll(colGate, lineup[r], queued)
      /\ col' = [c \in Columns |-> IF c \in queued THEN "done" ELSE col[c]]
      /\ channel' = [channel EXCEPT ![r] =
                       PushAll(ch, [i \in 1..Cardinality(queued) |-> End], Capacity)]

\* The drain loop asks for the next item.
Ask(r) == Receive(channel[r], r)
AskAgain(r) == Receive(PickUp(channel[r], r), r)

\* configsFor throws: one system error is yielded and the generator returns.
StartRejected(r) ==
  /\ gen[r] = "admitted"
  /\ gen' = [gen EXCEPT ![r] = "rejecting"]
  /\ UNCHANGED <<runVars, channel, colGate, col, columnVars>>

RejectionWritten(r) ==
  /\ gen[r] = "rejecting"
  /\ ReleaseRun(r, "settling")
  /\ UNCHANGED <<client, exit, ledger, internal, finished, channel, colGate, col, columnVars>>

\* All workers are spawned in one stretch: each takes a column slot or queues.
\* The client is still connected, since acquireSlot rejects an aborted signal.
Start(r) ==
  LET n == Len(lineup[r])
      take == IF colGate.available < n THEN colGate.available ELSE n
      granted == {lineup[r][i] : i \in 1..take}
  IN  /\ gen[r] = "admitted"
      /\ gen' = [gen EXCEPT ![r] = "receiving"]
      /\ colGate' = [available |-> colGate.available - take,
                     waiters |-> colGate.waiters
                                   \o SubSeq(lineup[r], take + 1, n)]
      /\ col' = [c \in Columns |->
                   IF c \in granted THEN "granted"
                   ELSE IF c \in ColumnsOf(r) THEN "queued" ELSE col[c]]
      /\ channel' = [channel EXCEPT ![r] = Ask(r)]
      /\ UNCHANGED <<runVars, columnVars>>

Got(r, kind) ==
  /\ gen[r] = "receiving"
  /\ r \in DOMAIN channel[r].resolved
  /\ channel[r].resolved[r].kind = kind

\* The 500 ms poll of the parked drain loop expires, and the loop ends when
\* every worker is done (their terminators were dropped); else it parks again,
\* which changes nothing. Timer and continuation are one step: Node drains the
\* microtasks of a timer before it runs anything else.
Parked(r) == gen[r] = "receiving" /\ channel[r].waiters # <<>>

\* Slip: the quiet poll never looks at the rest of the loop.
HandleTimeout_KeepsPolling(r) == Parked(r) /\ UNCHANGED vars

\* Slip: one quiet poll is taken for the end.
HandleTimeout_StopsEarly(r) ==
  /\ Parked(r)
  /\ gen' = [gen EXCEPT ![r] = "publishing"]
  /\ channel' = [channel EXCEPT ![r].waiters = <<>>]
  /\ UNCHANGED <<runVars, colGate, col, columnVars>>

\* A quiet poll ends the loop only when every worker is done.
HandleTimeout(r) ==
  /\ Parked(r)
  /\ \A c \in ColumnsOf(r) : col[c] = "done"
  /\ gen' = [gen EXCEPT ![r] = "publishing"]
  /\ channel' = [channel EXCEPT ![r].waiters = <<>>]
  /\ UNCHANGED <<runVars, colGate, col, columnVars>>

\* A terminator counts one worker; the last one ends the loop.
HandleEnd(r) ==
  /\ Got(r, "item") /\ channel[r].resolved[r].value = End
  /\ finished' = [finished EXCEPT ![r] = @ + 1]
  /\ IF finished[r] + 1 = Len(lineup[r])
       THEN /\ gen' = [gen EXCEPT ![r] = "publishing"]
            /\ channel' = [channel EXCEPT ![r] = PickUp(@, r)]
       ELSE /\ channel' = [channel EXCEPT ![r] = AskAgain(r)]
            /\ UNCHANGED gen
  /\ UNCHANGED <<client, exit, ledger, internal, runGate, colGate, col, columnVars>>

\* finally of streamParallel: the listener goes, internalAbort fires, and the
\* bounded wait for the workers begins.
Teardown(r, how, ch) ==
  /\ gen' = [gen EXCEPT ![r] = "teardown"]
  /\ exit' = [exit EXCEPT ![r] = how]
  /\ AbortColumns(r, ch)

\* An event is yielded through the service to the route, which returns the
\* generators when its client is gone and else writes the event.
HandleEvent(r) ==
  /\ Got(r, "item") /\ channel[r].resolved[r].value # End
  /\ LET e == channel[r].resolved[r].value
     IN  seen' = [seen EXCEPT ![e.col] = Append(@, e.kind)]
  /\ IF client[r] = "gone"
       THEN Teardown(r, "returned", PickUp(channel[r], r))
       ELSE /\ gen' = [gen EXCEPT ![r] = "writing"]
            /\ channel' = [channel EXCEPT ![r] = PickUp(@, r)]
            /\ UNCHANGED <<exit, internal, colGate, col>>
  /\ UNCHANGED <<client, ledger, finished, runGate, steps, held, stopped, verdict>>

\* writeSSE has resolved: the route pulls the next event.
EventWritten(r) ==
  /\ gen[r] = "writing"
  /\ gen' = [gen EXCEPT ![r] = "receiving"]
  /\ channel' = [channel EXCEPT ![r] = Ask(r)]
  /\ UNCHANGED <<runVars, colGate, col, columnVars>>

\* The comparison report is published (fail-open) and yielded if there is one.
Publish(r) ==
  /\ gen[r] = "publishing"
  /\ \/ Teardown(r, "normal", channel[r])
     \/ client[r] = "gone" /\ Teardown(r, "returned", channel[r])
     \/ /\ client[r] = "connected"
        /\ gen' = [gen EXCEPT ![r] = "reporting"]
        /\ UNCHANGED <<exit, internal, colGate, col, channel>>
  /\ UNCHANGED <<client, ledger, finished, runGate, columnVars>>

ReportWritten(r) ==
  /\ gen[r] = "reporting"
  /\ Teardown(r, "normal", channel[r])
  /\ UNCHANGED <<client, ledger, finished, runGate, columnVars>>

\* The workers have finished, or the disconnect grace is over: the generator
\* ends, the run slot is released, and only a stream that ended by itself goes
\* on to settle its session.
LeaveTeardown(r) ==
  /\ gen[r] = "teardown"
  /\ ReleaseRun(r, IF exit[r] = "returned" THEN "closed" ELSE "settling")
  /\ UNCHANGED <<client, exit, ledger, internal, finished, channel, colGate, col, columnVars>>

\* appendEntry and completeSession.
Settle(r) ==
  /\ gen[r] = "settling"
  /\ gen' = [gen EXCEPT ![r] = "closed"]
  /\ ledger' = [ledger EXCEPT ![r] = IF @ = "active" THEN "completed" ELSE @]
  /\ UNCHANGED <<client, exit, internal, finished, runGate, channel, colGate, col, columnVars>>

\* The client disconnects. A run queued for its slot is rejected; a streaming
\* run forwards the abort to its columns; elsewhere the signal is only set.
Disconnect(r) ==
  /\ Drained(r)
  /\ client[r] = "connected" /\ gen[r] \notin {"idle", "closed"}
  /\ client' = [client EXCEPT ![r] = "gone"]
  /\ \/ /\ gen[r] = "slot"
        /\ runGate' = Withdraw(runGate, r)
        /\ gen' = [gen EXCEPT ![r] = "throwing"]
        /\ UNCHANGED <<internal, colGate, col, channel>>
     \/ /\ gen[r] \in Streaming
        /\ AbortColumns(r, channel[r])
        /\ UNCHANGED <<gen, runGate>>
     \/ /\ gen[r] \notin Streaming \cup {"slot"}
        /\ UNCHANGED <<gen, runGate, internal, colGate, col, channel>>
  /\ UNCHANGED <<exit, ledger, finished, columnVars>>
-----------------------------------------------------------------------------
\* What the driver and its model calls decide, and the rest of the worker.
Driver(c) == Emit(c) \/ DriverAborts(c) \/ DriverFinishes(c) \/ DriverThrows(c)
Worker(c) == \/ RefuseColumn(c) \/ StartDriver(c)
             \/ Finalize(c) \/ Record(c) \/ ReportFailure(c)
Generator(r) ==
  \/ Open(r) \/ OpenWithoutRunner(r) \/ Throw(r)
  \/ Start(r) \/ StartRejected(r) \/ RejectionWritten(r)
  \/ HandleTimeout(r) \/ HandleEnd(r) \/ HandleEvent(r)
  \/ EventWritten(r) \/ Publish(r) \/ ReportWritten(r)
  \/ LeaveTeardown(r) \/ Settle(r)

Next == /\ \/ \E r \in Runs : Request(r) \/ Generator(r) \/ Disconnect(r)
           \/ \E c \in Columns : Driver(c) \/ Worker(c) \/ StopColumn(c)
        /\ UNCHANGED lineup

\* Timers fire, promises settle and resolved awaits continue; the grace timer
\* is a disjunct of LeaveTeardown. Requests, disconnects and stops may happen.
PlatformFairness ==
  /\ \A r \in Runs : WF_vars(Generator(r) /\ UNCHANGED lineup)
  /\ \A c \in Columns : WF_vars(Worker(c) /\ UNCHANGED lineup)

\* Drivers bound their model calls by timeouts, so each of them ends.
DriverFairness == \A c \in Columns : WF_vars(Driver(c) /\ UNCHANGED lineup)

Spec == Init /\ [][Next]_vars
FairSpec == Spec /\ PlatformFairness /\ DriverFairness
-----------------------------------------------------------------------------
\* The slots of both gates are conserved through hand-overs, refusals, stops,
\* aborts and early returns, and the column queue holds exactly the columns
\* that wait, in no state while a slot is free.
SlotsConserved ==
  /\ runGate.available + Cardinality(RunOwners) = RunSlots
  /\ colGate.available + Cardinality(ColOwners) = ColumnSlots
  /\ ToSet(runGate.waiters) = {r \in Runs : gen[r] = "slot"}
  /\ ToSet(colGate.waiters) = {c \in Columns : col[c] = "queued"}
  /\ runGate.waiters # <<>> => runGate.available = 0
  /\ colGate.waiters # <<>> => colGate.available = 0

\* The route receives at most one complete per column and nothing of the
\* column after it, whoever ends the column and however the run is left.
CompleteIsLast ==
  \A c \in Columns : \A i \in 1..Len(seen[c]) :
    seen[c][i] = "complete" => i = Len(seen[c])

\* When the drain loop ends by itself, by count or by the timeout that follows
\* lost terminators, all workers are done and nothing is left in the channel.
NothingLeftBehind ==
  \A r \in Runs : gen[r] \in {"publishing", "reporting"} =>
    /\ channel[r].buffer = <<>>
    /\ \A c \in ColumnsOf(r) : col[c] = "done"

\* A run whose session is completed has shown its route the terminal complete
\* of every column that ran, unless the channel dropped events.
CompletedMeansReported ==
  \A r \in Runs : ledger[r] = "completed" /\ channel[r].dropped = 0 =>
    \A c \in ColumnsOf(r) :
      verdict[c] # "none" => seen[c] # <<>> /\ Last(seen[c]) = "complete"

\* What the browser may conclude from a column's terminal event and from its absence.
TerminalsTold == CompleteIsLast /\ CompletedMeansReported

\* Every request's stream is closed in the end and every column that waits for a slot
\* gets it or is cancelled, also when the channel lost terminators and when columns of
\* other runs hold the slots. (There are finitely many requests, so one formula stands
\* for one per run and column.)
Ended == (\A r \in Runs : gen[r] \in {"idle", "closed"}) /\ (\A c \in Columns : col[c] # "queued")
EverythingEnds == ~Ended ~> Ended
-----------------------------------------------------------------------------
(* Statements of the documentation that the code does not keep.            *)

\* "closes it when the stream settles, so runs stay queryable after
\* disconnect" and "aborted runs land cancelled": a stream the route has left
\* early leaves no open session.
ClosedStreamClosesSession ==
  \A r \in Runs : gen[r] = "closed" /\ exit[r] = "returned" => ledger[r] # "active"
=============================================================================
