------------------------- MODULE BuilderTurnProofs -------------------------
(***************************************************************************)
(* What BuilderTurn.tla promises of a session, for every number of         *)
(* requests and swaps and every cap of the channel, the notice queue and   *)
(* the history.                                                            *)
(*                                                                         *)
(* None of its invariants is inductive alone.  Inv adds what they rest on: *)
(* a request that lives holds the slot, so that at most one of them does   *)
(* (Held); the terminator is in the channel only once the pump is done,    *)
(* so that the loop cannot leave it behind (Heard); where pump, output and *)
(* ledger row stand at each stage (Stage); what a turn has read still      *)
(* holds (Read); the turns counted are those of completed chats, one       *)
(* number each (Numbered, Counted); and a notice that waits has been told  *)
(* nobody (Notices).                                                       *)
(***************************************************************************)
EXTENDS BuilderTurn, SharedLemmas

-----------------------------------------------------------------------------
(* The invariant.                                                          *)

Before == {"idle", "opening", "starting"}
Alive == Working \cup {"opening", "starting", "summarizing", "settling", "reporting", "throwing"}
Unsettled == Before \cup Working \cup {"summarizing", "settling", "throwing"}
Stages == Working \cup {"idle", "opening", "starting", "summarizing", "settling", "reporting",
                        "throwing", "closed"}
Parts == {Chunk, End}
N == Cardinality(Requests)

\* Every variable is in its set.
Basic ==
  /\ exists \in BOOLEAN /\ running \in BOOLEAN
  /\ slot \in Requests \cup {NoRequest}
  /\ composition \in 0..MaxSwaps
  /\ pc \in [Requests -> Stages]
  /\ kind \in [Requests -> {"chat", "compact"}]
  /\ client \in [Requests -> {"connected", "gone"}]
  /\ stop \in [Requests -> BOOLEAN]
  /\ pump \in [Requests -> {"none", "running", "done"}]
  /\ abandon \in [Requests -> BOOLEAN]
  /\ channel = [q \in Requests |-> channel[q]]
  /\ steps \in [Requests -> 0..MaxSteps]
  /\ output \in [Requests -> Outcomes \cup {"none"}]
  /\ ledger \in [Requests -> Outcomes \cup {"none", "active"}]

TurnRecord == [number : 0..N, used : 0..MaxSwaps, given : Seq(Entries), told : Seq(1..MaxSwaps)]
Turns == turn \in [Requests -> TurnRecord] /\ turns \in 0..N

\* A request that lives holds the slot of a session that exists.
Held == \A q \in Requests : pc[q] \in Alive => slot = q /\ exists

\* The channel of a request: only its loop waits for it, it is open as long as the loop
\* runs, and it holds no terminator before the pump is done.
Heard(q, at, pumping, ch) ==
  /\ Stream(ch, q, Parts, Capacity)
  /\ Awaited(ch) => at = "receiving"
  /\ at \in Before \cup {"receiving", "writing"} => ~ch.closed
  /\ pumping # "done" => Pending(ch, q, End) = 0
HeardOf(q) == Heard(q, pc[q], pump[q], channel[q])
AllHeard == \A q \in Requests : HeardOf(q)

\* Where pump, output and ledger row stand at each stage of a request.
Stage(at, what, pumping, out, row) ==
  /\ at \in Before => pumping = "none" /\ out = "none"
  /\ at = "throwing" /\ what = "chat" => out = "none"
  /\ pumping = "running" => at \in Working
  /\ at \in Working => what = "chat"
  /\ at = "summarizing" => what = "compact"
  /\ at \in Unsettled => row \in {"none", "active"}
  /\ what = "chat" /\ out = "completed" => row \in {"none", "active", "completed"}
StageOf(q) == Stage(pc[q], kind[q], pump[q], output[q], ledger[q])
AllStaged == \A q \in Requests : StageOf(q)

\* What a turn has read still holds.
Read(at, what, t) ==
  /\ at \in Working \cup {"summarizing"} => t.given = history
  /\ at \in Working \cup {"starting"} /\ what = "chat" =>
       t.used = composition /\ t.number = turns + 1
AllRead == \A q \in Requests : Read(pc[q], kind[q], turn[q])

\* The chat turns that are committed: each has a number of its own up to the counter.
Committed(q) ==
  /\ kind[q] = "chat"
  /\ ledger[q] = "completed" \/ (pc[q] = "settling" /\ output[q] = "completed")
Numbered ==
  /\ \A q \in Requests : Committed(q) => turn[q].number \in 1..turns
  /\ \A p, q \in Requests : Committed(p) /\ Committed(q) /\ turn[p].number = turn[q].number => p = q

\* The turns counted are no more than the completed chats that are past their loop.
Past == {q \in Requests : kind[q] = "chat" /\ output[q] = "completed" /\ pc[q] \notin Working}
Counted == turns <= Cardinality(Past)

\* The history is within its cap and numbered without gaps up to the counter.
Numbers == history \in Seq(Entries) /\ Len(history) <= MaxHistory /\ NumberingDense

\* Swaps: a notice that waits was told nobody, and the newest version is told or waits.
Notices ==
  /\ notices \in Seq(1..MaxSwaps) /\ Len(notices) <= MaxNotices
  /\ announced \subseteq 1..composition /\ ToSet(notices) \subseteq 1..composition
  /\ announced \cap ToSet(notices) = {}
  /\ exists /\ composition > 0 => composition \in announced \cup ToSet(notices)
  /\ \A q \in Requests : ToSet(turn[q].told) \subseteq announced
  /\ SwapsAnnounced

Inv == /\ Basic /\ Turns /\ Held /\ AllHeard /\ AllStaged /\ AllRead
       /\ Numbered /\ Counted /\ Numbers /\ Notices

\* The numbers of the assumption.
LEMMA Constants ==
  /\ IsFiniteSet(Requests) /\ N \in Nat /\ Requests = 1..N /\ NoRequest \notin Requests
  /\ Summary \notin Nat /\ Capacity \in Nat \ {0} /\ MaxNotices \in Nat \ {0}
  /\ MaxHistory \in Nat \ {0} /\ MaxSwaps \in Nat /\ MaxSteps \in Nat
<1>1. IsFiniteSet(Requests) /\ Requests = 1..N
  BY BuilderAssumption DEF BuilderAssumption, N
<1>2. N \in Nat
  BY <1>1, FS_CardinalityType DEF N
<1> QED
  BY <1>1, <1>2, BuilderAssumption DEF BuilderAssumption, NoRequest

\* Few chats are past their loop.
LEMMA PastFinite == IsFiniteSet(Past) /\ Cardinality(Past) \in Nat /\ Cardinality(Past) <= N
<1>1. Past \subseteq Requests
  BY DEF Past
<1> QED
  BY <1>1, Constants, FS_Subset, FS_CardinalityType DEF N

\* The invariant says what the runs check.
LEMMA InvTells == Inv => TypeOK /\ OneDriver /\ SnapshotHolds /\ HistoryTold /\ SwapsAnnounced
<1> SUFFICES ASSUME Inv PROVE TypeOK /\ OneDriver /\ SnapshotHolds /\ HistoryTold /\ SwapsAnnounced
  OBVIOUS
<1>1. TypeOK
  <2>1. \A q \in Requests : Len(channel[q].buffer) <= Capacity
    BY DEF Inv, AllHeard, HeardOf, Heard, Stream
  <2>2. announced \subseteq 1..MaxSwaps
    <3>1. composition \in 0..MaxSwaps /\ announced \subseteq 1..composition
      BY DEF Inv, Basic, Notices
    <3>2. \A i \in 1..composition : i \in 1..MaxSwaps
      BY <3>1, Constants
    <3> QED
      BY <3>1, <3>2
  <2>3. /\ history \in Seq(Entries) /\ Len(history) <= MaxHistory
        /\ notices \in Seq(1..MaxSwaps) /\ Len(notices) <= MaxNotices
    BY DEF Inv, Numbers, Notices
  <2>4. turns \in 0..N /\ turn \in [Requests -> TurnRecord]
    BY DEF Inv, Turns
  <2> QED
    BY <2>1, <2>2, <2>3, <2>4 DEF Inv, Basic, TypeOK, Stages, TurnRecord, N
<1>2. OneDriver
  <2> SUFFICES ASSUME NEW q \in Requests, pump[q] = "running"
               PROVE  /\ pc[q] \in Working /\ slot = q
                      /\ \A p \in Requests \ {q} : pump[p] # "running"
    BY DEF OneDriver
  <2>1. \A p \in Requests : pump[p] = "running" => pc[p] \in Working /\ slot = p
    BY DEF Inv, AllStaged, StageOf, Stage, Held, Alive
  <2> QED
    BY <2>1
<1>3. SnapshotHolds
  BY DEF Inv, AllRead, Read, AllStaged, StageOf, Stage, Held, Alive, SnapshotHolds
<1>4. LedgerTellsHistory
  <2> DEFINE Chats(rows) == {q \in Requests : kind[q] = "chat" /\ ledger[q] \in rows}
             finished == {q \in Chats({"none", "active", "completed"}) : output[q] = "completed"}
  <2>1. \A q \in Chats({"completed"}) : Committed(q)
    BY DEF Committed
  <2>2. \A q \in Chats({"completed"}) : turn[q].number \in 1..turns
    BY <2>1 DEF Inv, Numbered
  <2>3. \A q \in Chats({"completed"}) :
          \A p \in Chats({"completed"}) \ {q} : turn[p].number # turn[q].number
    BY <2>1 DEF Inv, Numbered
  <2>4. Past \subseteq finished /\ finished \subseteq Requests
    BY DEF Past, Inv, AllStaged, StageOf, Stage
  <2>5. Cardinality(Past) <= Cardinality(finished) /\ Cardinality(finished) \in Nat
    BY <2>4, Constants, FS_Subset, FS_CardinalityType
  <2>6. turns <= Cardinality(finished)
    <3>1. turns \in Nat /\ turns <= Cardinality(Past)
      BY Constants DEF Inv, Turns, Counted
    <3> QED
      BY <2>5, <3>1, PastFinite
  <2> QED
    BY <2>2, <2>3, <2>6 DEF LedgerTellsHistory
<1>5. HistoryTold
  BY <1>4 DEF Inv, Numbers, HistoryTold
<1>6. SwapsAnnounced
  BY DEF Inv, Notices
<1> QED
  BY <1>1, <1>2, <1>3, <1>5, <1>6

\* No request has arrived.
LEMMA InitInv == Init => Inv
<1> SUFFICES ASSUME Init PROVE Inv
  OBVIOUS
<1>1. Basic
  <2>1. exists \in BOOLEAN /\ running \in BOOLEAN /\ slot \in Requests \cup {NoRequest}
    BY DEF Init
  <2>2. composition \in 0..MaxSwaps /\ steps \in [Requests -> 0..MaxSteps]
    BY Constants DEF Init
  <2>3. /\ pc \in [Requests -> Stages] /\ client \in [Requests -> {"connected", "gone"}]
        /\ pump \in [Requests -> {"none", "running", "done"}]
        /\ output \in [Requests -> Outcomes \cup {"none"}]
        /\ ledger \in [Requests -> Outcomes \cup {"none", "active"}]
    BY DEF Init, Stages
  <2>4. stop \in [Requests -> BOOLEAN] /\ abandon \in [Requests -> BOOLEAN]
    BY DEF Init
  <2>5. kind \in [Requests -> {"chat", "compact"}] /\ channel = [q \in Requests |-> channel[q]]
    BY DEF Init
  <2> QED
    BY <2>1, <2>2, <2>3, <2>4, <2>5 DEF Basic
<1>2. Turns
  <2>1. [number |-> 0, used |-> 0, given |-> <<>>, told |-> <<>>] \in TurnRecord
    BY Constants DEF TurnRecord
  <2> QED
    BY <2>1, Constants DEF Init, Turns
<1>3. Held /\ AllStaged /\ AllRead
  BY DEF Init, Held, Alive, Working, AllStaged, StageOf, Stage, Before, AllRead, Read
<1>4. AllHeard
  <2> SUFFICES ASSUME NEW q \in Requests PROVE HeardOf(q)
    BY DEF AllHeard
  <2>1. /\ Stream(NewChannel, q, Parts, Capacity) /\ ~Awaited(NewChannel)
        /\ ~NewChannel.closed /\ Pending(NewChannel, q, End) = 0
    BY Constants, NewStream
  <2> QED
    BY <2>1 DEF Init, HeardOf, Heard
<1>5. Numbered
  BY DEF Init, Numbered, Committed
<1>6. Counted
  BY PastFinite DEF Init, Counted
<1>7. Numbers
  BY Constants DEF Init, Numbers, NumberingDense
<1>8. Notices
  <2>1. ToSet(<<>>) = {}
    BY DEF ToSet
  <2>2. \A q \in Requests : turn[q].told = <<>> /\ turn[q].used = 0
    BY DEF Init
  <2>3. SwapsAnnounced
    BY <2>1, <2>2 DEF SwapsAnnounced, SwapPerceived, NoticeOnce
  <2> QED
    BY <2>1, <2>2, <2>3, Constants DEF Init, Notices
<1> QED
  BY <1>1, <1>2, <1>3, <1>4, <1>5, <1>6, <1>7, <1>8 DEF Inv

-----------------------------------------------------------------------------
(* What a step leaves alone.                                               *)

\* A step of one request: nothing of the others moves.
Only(q) ==
  /\ kind' = kind
  /\ \A p \in Requests \ {q} :
       /\ pc'[p] = pc[p] /\ pump'[p] = pump[p] /\ output'[p] = output[p]
       /\ ledger'[p] = ledger[p] /\ channel'[p] = channel[p] /\ turn'[p] = turn[p]

\* The others do not live, and what is said of them stays true.
LEMMA Others ==
  ASSUME Inv, NEW q \in Requests, pc[q] \in Alive, Only(q), NEW p \in Requests \ {q}
  PROVE  /\ HeardOf(p)' /\ StageOf(p)' /\ Read(pc[p], kind[p], turn[p])'
         /\ pc'[p] = pc[p] /\ pc[p] \notin Alive
<1>1. pc[p] \notin Alive
  BY DEF Inv, Held
<1>2. HeardOf(p)'
  BY DEF Inv, AllHeard, HeardOf, Only
<1>3. StageOf(p)'
  BY DEF Inv, AllStaged, StageOf, Only
<1>4. Read(pc[p], kind[p], turn[p])'
  BY <1>1 DEF Read, Only, Alive, Working
<1> QED
  BY <1>1, <1>2, <1>3, <1>4 DEF Only

\* A request that lives moves on.
LEMMA TurnMoves ==
  ASSUME Inv, Basic', NEW q \in Requests, pc[q] \in Alive, Only(q), exists' = exists,
         slot' = slot \/ pc'[q] \notin Alive,
         HeardOf(q)', StageOf(q)', Read(pc[q], kind[q], turn[q])',
         Turns', Numbered', Counted', Numbers', Notices'
  PROVE  Inv'
<1>1. Held'
  <2> SUFFICES ASSUME NEW p \in Requests, pc'[p] \in Alive PROVE slot' = p /\ exists'
    BY DEF Held
  <2>1. p = q
    BY Others
  <2> QED
    BY <2>1 DEF Inv, Held
<1>2. AllHeard' /\ AllStaged' /\ AllRead'
  BY Others DEF AllHeard, AllStaged, AllRead
<1> QED
  BY <1>1, <1>2 DEF Inv

\* No turn is committed.
LEMMA NumberedRests ==
  ASSUME Inv, turns' = turns,
         \A p \in Requests : Committed(p)' => Committed(p) /\ turn'[p].number = turn[p].number
  PROVE  Numbered'
  BY DEF Inv, Numbered

\* No completed chat goes back to its loop.
LEMMA CountedRests ==
  ASSUME Inv, turns' = turns, \A p \in Requests : p \in Past => p \in Past'
  PROVE  Counted'
<1>1. Past \subseteq Past' /\ IsFiniteSet(Past') /\ Cardinality(Past') \in Nat
  <2>1. Past \subseteq Requests /\ Past' \subseteq Requests
    BY DEF Past
  <2> QED
    BY <2>1, Constants, FS_Subset, FS_CardinalityType
<1>2. Cardinality(Past) <= Cardinality(Past')
  BY <1>1, FS_Subset
<1>3. turns \in Nat /\ turns <= Cardinality(Past)
  BY Constants DEF Inv, Turns, Counted
<1> QED
  BY <1>1, <1>2, <1>3, PastFinite DEF Counted

\* The history and the counter rest.
LEMMA NumbersRest ==
  ASSUME Inv, history' = history, turns' = turns
  PROVE  Numbers'
  BY DEF Inv, Numbers, NumberingDense

\* Nothing is swapped and nobody is told.
LEMMA NoticesRest ==
  ASSUME Inv, composition' = composition, notices' = notices, announced' = announced,
         exists' => exists,
         \A p \in Requests : turn'[p].used = turn[p].used /\ turn'[p].told = turn[p].told
  PROVE  Notices'
<1>1. SwapsAnnounced'
  BY DEF Inv, Notices, SwapsAnnounced, SwapPerceived, NoticeOnce
<1> QED
  BY <1>1 DEF Inv, Notices

\* A request moves on that commits nothing and is told nothing.
LEMMA QuietMoves ==
  ASSUME Inv, Basic', NEW q \in Requests, pc[q] \in Alive, Only(q), exists' = exists,
         slot' = slot \/ pc'[q] \notin Alive,
         HeardOf(q)', StageOf(q)', Read(pc[q], kind[q], turn[q])',
         turn' \in [Requests -> TurnRecord], turn'[q].number = turn[q].number,
         turn'[q].used = turn[q].used, turn'[q].told = turn[q].told,
         history' = history, turns' = turns,
         composition' = composition, notices' = notices, announced' = announced,
         Committed(q)' => Committed(q), q \in Past => q \in Past'
  PROVE  Inv'
<1>1. Turns' /\ Numbers'
  BY NumbersRest DEF Inv, Turns
<1>2. \A p \in Requests : turn'[p].number = turn[p].number /\ turn'[p].used = turn[p].used
                          /\ turn'[p].told = turn[p].told
  BY DEF Only
<1>3. Notices'
  BY <1>2, NoticesRest
<1>4. \A p \in Requests : Committed(p)' => Committed(p)
  BY DEF Only, Committed
<1>5. Numbered'
  BY <1>2, <1>4, NumberedRests
<1>6. \A p \in Requests : p \in Past => p \in Past'
  BY DEF Only, Past
<1>7. Counted'
  BY <1>6, CountedRests
<1> QED
  BY <1>1, <1>3, <1>5, <1>7, TurnMoves

-----------------------------------------------------------------------------
(* The types.                                                              *)

\* Every step leaves each variable in its set.
LEMMA BasicStep == Inv /\ Next => Basic'
<1> SUFFICES ASSUME Inv, Next PROVE Basic'
  OBVIOUS
<1>0. Basic
  BY DEF Inv
<1> USE <1>0 DEF Basic, record, streams
<1>1. CASE Patch
  <2>1. composition' \in 0..MaxSwaps
    BY <1>1, Constants DEF Patch
  <2> QED
    BY <1>1, <2>1 DEF Patch
<1>2. CASE Delete \/ AbortTurn
  BY <1>2 DEF Delete, AbortTurn
<1>3. ASSUME NEW q \in Requests, Refuse(q) \/ Begin(q) \/ Disconnect(q) PROVE Basic'
  <2>1. CASE Refuse(q)
    BY <2>1 DEF Refuse, Stages
  <2>2. CASE Begin(q)
    BY <2>2 DEF Begin, Stages
  <2>3. CASE Disconnect(q)
    BY <2>3 DEF Disconnect
  <2> QED
    BY <1>3, <2>1, <2>2, <2>3
<1>4. ASSUME NEW q \in Requests, Opened(q) PROVE Basic'
  <2>1. ledger' \in [Requests -> Outcomes \cup {"none", "active"}] /\ pc' \in [Requests -> Stages]
    BY <1>4 DEF Opened, Stages
  <2> QED
    BY <1>4, <2>1 DEF Opened
<1>5. ASSUME NEW q \in Requests, StartPump(q) \/ StartThrows(q) \/ Summarize(q) \/ SummaryThrows(q)
      PROVE  Basic'
  BY <1>5 DEF StartPump, StartThrows, Summarize, SummaryThrows, Throw, Stages, Working
<1>6. ASSUME NEW q \in Requests, Thrown(q) PROVE Basic'
  <2>1. ledger' \in [Requests -> Outcomes \cup {"none", "active"}] /\ pc' \in [Requests -> Stages]
        /\ slot' = NoRequest /\ running' = FALSE
    BY <1>6 DEF Thrown, Finish, FreeSlot, Stages, Outcomes
  <2> QED
    BY <1>6, <2>1 DEF Thrown
<1>7. ASSUME NEW q \in Requests, HandleChunk(q) \/ ChunkWritten(q) \/ HandleEnd(q) PROVE Basic'
  <2>1. pc' \in [Requests -> Stages] /\ abandon' \in [Requests -> BOOLEAN]
        /\ channel' = [p \in Requests |-> channel'[p]]
    <3>a. ASSUME NEW x, channel' = [channel EXCEPT ![q] = x]
          PROVE  channel' = [p \in Requests |-> channel'[p]]
      BY <3>a
    <3>1. CASE HandleChunk(q)
      <4>1. pc' \in [Requests -> Stages] /\ abandon' \in [Requests -> BOOLEAN]
        <5>1. CASE client[q] = "gone"
          BY <3>1, <5>1 DEF HandleChunk, Stages, Working
        <5>2. CASE client[q] # "gone"
          BY <3>1, <5>2 DEF HandleChunk, Stages, Working
        <5> QED
          BY <5>1, <5>2
      <4>2. \E x : channel' = [channel EXCEPT ![q] = x]
        BY <3>1 DEF HandleChunk
      <4> QED
        BY <3>a, <4>1, <4>2
    <3>2. CASE ChunkWritten(q)
      BY <3>a, <3>2 DEF ChunkWritten, Stages, Working
    <3>3. CASE HandleEnd(q)
      BY <3>a, <3>3 DEF HandleEnd, Stages
    <3> QED
      BY <1>7, <3>1, <3>2, <3>3
  <2> QED
    BY <1>7, <2>1 DEF HandleChunk, ChunkWritten, HandleEnd
<1>8. ASSUME NEW q \in Requests, Leave(q) \/ Reported(q) PROVE Basic'
  BY <1>8 DEF Leave, Reported, Finish, FreeSlot, Stages
<1>9. ASSUME NEW q \in Requests, Summarized(q) PROVE Basic'
  BY <1>9 DEF Summarized, Stages, Outcomes
<1>10. ASSUME NEW q \in Requests, Settle(q) PROVE Basic'
  <2>1. ledger' \in [Requests -> Outcomes \cup {"none", "active"}]
    BY <1>10 DEF Settle
  <2>2. pc' \in [Requests -> Stages] /\ slot' \in Requests \cup {NoRequest} /\ running' \in BOOLEAN
    BY <1>10 DEF Settle, Finish, FreeSlot, Stages
  <2> QED
    BY <1>10, <2>1, <2>2 DEF Settle
<1>11. ASSUME NEW q \in Requests, PumpEmits(q) PROVE Basic'
  <2>1. steps' \in [Requests -> 0..MaxSteps]
    BY <1>11, Constants DEF PumpEmits
  <2> QED
    BY <1>11, <2>1 DEF PumpEmits
<1>12. ASSUME NEW q \in Requests, PumpEnds(q) PROVE Basic'
  <2>2. PICK result \in {"completed", "failed"}, notes \in {<<>>, <<Chunk>>} :
          /\ output' = [output EXCEPT ![q] = IF Signalled(q) THEN "cancelled" ELSE result]
          /\ channel' = [channel EXCEPT ![q] = PushAll(@, Append(notes, End), Capacity)]
    BY <1>12 DEF PumpEnds
  <2>3. output' \in [Requests -> Outcomes \cup {"none"}]
    BY <2>2 DEF Outcomes
  <2>1. output' \in [Requests -> Outcomes \cup {"none"}] /\ channel' = [p \in Requests |-> channel'[p]]
    BY <2>2, <2>3
  <2> QED
    BY <1>12, <2>1 DEF PumpEnds
<1> QED
  BY <1>1, <1>2, <1>3, <1>4, <1>5, <1>6, <1>7, <1>8, <1>9, <1>10, <1>11, <1>12
  DEF Next, Generator, Pump

-----------------------------------------------------------------------------
(* The session between turns.                                              *)

\* Nothing moves in any request.
AllRest == UNCHANGED <<pc, kind, pump, output, ledger, channel, turn, history, turns>>

\* The requests rest.
LEMMA RequestsRest ==
  ASSUME Inv, Basic', AllRest,
         composition' = composition \/ \A q \in Requests : pc[q] \notin Alive,
         Held', Notices'
  PROVE  Inv'
<1>1. Turns' /\ Numbers'
  BY NumbersRest DEF Inv, Turns, AllRest
<1>2. AllHeard' /\ AllStaged'
  BY DEF Inv, AllHeard, HeardOf, AllStaged, StageOf, AllRest
<1>3. AllRead'
  BY DEF Inv, AllRead, Read, AllRest, Alive, Working
<1>4. Numbered'
  BY NumberedRests DEF Committed, AllRest
<1>5. Counted'
  BY CountedRests DEF Past, AllRest
<1> QED
  BY <1>1, <1>2, <1>3, <1>4, <1>5 DEF Inv

\* Nobody lives in an idle session.
LEMMA IdleNobody == Inv /\ Idle => \A q \in Requests : pc[q] \notin Alive
  BY Constants DEF Inv, Held, Idle

\* The queue u behind a new notice v: within the cap, it names v and no other version
\* that w did not name.
Queued(u, S, w, v) ==
  u \in Seq(S) /\ Len(u) <= MaxNotices /\ v \in ToSet(u) /\ ToSet(u) \subseteq ToSet(w) \cup {v}

\* queueNotice keeps the newest notice.
LEMMA QueueProperties ==
  ASSUME NEW S, NEW w \in Seq(S), NEW v \in S, Len(w) <= MaxNotices
  PROVE  Queued(QueueNotice(w, v), S, w, v)
<1> DEFINE u == QueueNotice(w, v)
           g == Append(w, v)
           n == Len(w)
           t == Tail(g)
<1>1. g \in Seq(S) /\ Len(g) = n + 1 /\ g[n + 1] = v /\ (\A i \in 1..n : g[i] = w[i]) /\ n \in Nat
  BY AppendProperties
<1>2. ToSet(w) = {w[i] : i \in 1..n} /\ ToSet(g) = {g[i] : i \in 1..(n + 1)}
  BY <1>1 DEF ToSet
<1>3. v \in ToSet(g) /\ ToSet(g) \subseteq ToSet(w) \cup {v}
  <2>1. n + 1 \in 1..(n + 1) /\ \A i \in 1..(n + 1) : i \in 1..n \/ i = n + 1
    BY <1>1
  <2> QED
    BY <1>1, <1>2, <2>1
<1>4. u = IF Len(g) > MaxNotices THEN t ELSE g
  BY DEF QueueNotice
<1> HIDE DEF u
<1>5. CASE Len(g) > MaxNotices
  <2>1. g # <<>>
    BY <1>1, EmptySeq
  <2> HIDE DEF g
  <2>2. t \in Seq(S) /\ Len(t) = n /\ \A i \in 1..n : t[i] = g[i + 1]
    BY <1>1, <2>1
  <2>3. n \in 1..n
    BY <1>1, <1>5, Constants
  <2>5. n <= MaxNotices
    OBVIOUS
  <2> HIDE DEF t
  <2>4. v \in ToSet(t) /\ ToSet(t) \subseteq ToSet(g)
    <3>1. ToSet(t) = {t[i] : i \in 1..n}
      BY <2>2 DEF ToSet
    <3>2. \A i \in 1..n : i + 1 \in 1..(n + 1)
      BY <1>1
    <3> QED
      BY <1>1, <1>2, <2>2, <2>3, <3>1, <3>2
  <2>6. u = t
    BY <1>4, <1>5
  <2>7. ToSet(t) \subseteq ToSet(w) \cup {v}
    BY <1>3, <2>4
  <2> QED
    BY <2>2, <2>4, <2>5, <2>6, <2>7 DEF Queued, u
<1>6. CASE ~(Len(g) > MaxNotices)
  <2>1. Len(g) <= MaxNotices
    BY <1>1, <1>6, Constants
  <2>2. u = g
    BY <1>4, <1>6
  <2> HIDE DEF g
  <2> QED
    BY <1>1, <1>3, <2>1, <2>2 DEF Queued, u
<1> QED
  BY <1>5, <1>6 DEF Queued, u

\* The blocks are swapped.
LEMMA PatchStep ==
  ASSUME Inv, Basic', Patch
  PROVE  Inv'
<1> DEFINE k == composition + 1
<1>1. /\ exists /\ Idle /\ composition \in 0..MaxSwaps /\ composition < MaxSwaps
      /\ composition' = k /\ notices' = QueueNotice(notices, k)
      /\ UNCHANGED <<exists, announced, turn, slot>> /\ AllRest
  BY DEF Inv, Basic, Patch, AllRest, streams
<1>2. k \in 1..MaxSwaps /\ composition \in Nat /\ k \notin 1..composition /\ k \in 1..k
      /\ \A i \in 1..composition : i \in 1..k
  BY <1>1, Constants
<1>3. /\ notices \in Seq(1..MaxSwaps) /\ Len(notices) <= MaxNotices
      /\ announced \subseteq 1..composition /\ ToSet(notices) \subseteq 1..composition
      /\ announced \cap ToSet(notices) = {}
      /\ \A q \in Requests : ToSet(turn[q].told) \subseteq announced
      /\ SwapsAnnounced
  BY DEF Inv, Notices
<1> HIDE DEF k
<1>4. /\ notices' \in Seq(1..MaxSwaps) /\ Len(notices') <= MaxNotices
      /\ k \in ToSet(notices') /\ ToSet(notices') \subseteq ToSet(notices) \cup {k}
  <2>1. Queued(QueueNotice(notices, k), 1..MaxSwaps, notices, k)
    BY <1>2, <1>3, QueueProperties
  <2> QED
    BY <1>1, <2>1 DEF Queued
<1>5. ToSet(notices)' = ToSet(notices') /\ announced' \subseteq 1..k /\ ToSet(notices') \subseteq 1..k
      /\ announced' \cap ToSet(notices') = {}
  BY <1>1, <1>2, <1>3, <1>4
<1>6. SwapsAnnounced'
  BY <1>1, <1>3 DEF SwapsAnnounced, SwapPerceived, NoticeOnce
<1>7. Notices'
  BY <1>1, <1>3, <1>4, <1>5, <1>6 DEF Notices
<1>8. Held'
  BY <1>1 DEF Inv, Held, AllRest
<1> QED
  BY <1>1, <1>7, <1>8, IdleNobody, RequestsRest

\* The session is deleted with the notices that wait.
LEMMA DeleteStep ==
  ASSUME Inv, Basic', Delete
  PROVE  Inv'
<1>1. /\ Idle /\ exists' = FALSE /\ notices' = <<>>
      /\ UNCHANGED <<composition, announced, turn, slot>> /\ AllRest
  BY DEF Delete, AllRest, streams
<1>2. Held'
  BY <1>1, IdleNobody DEF Held, AllRest
<1>3. ToSet(notices') = {} /\ ToSet(notices)' = {}
  BY <1>1 DEF ToSet
<1>4. SwapsAnnounced'
  BY <1>1 DEF Inv, Notices, SwapsAnnounced, SwapPerceived, NoticeOnce
<1>5. notices' \in Seq(1..MaxSwaps) /\ Len(notices') <= MaxNotices
  BY <1>1, Constants
<1>6. Notices'
  BY <1>1, <1>3, <1>4, <1>5 DEF Inv, Notices
<1> QED
  BY <1>1, <1>2, <1>6, RequestsRest

\* Somebody stops the turn, or a client goes.
LEMMA SignalSteps ==
  ASSUME Inv, Basic', AbortTurn \/ \E q \in Requests : Disconnect(q)
  PROVE  Inv'
<1>1. UNCHANGED <<exists, composition, notices, announced, turn, slot>> /\ AllRest
  BY DEF AbortTurn, Disconnect, AllRest, record, streams
<1>2. Held'
  BY <1>1 DEF Inv, Held, AllRest
<1>3. Notices'
  BY <1>1, NoticesRest
<1> QED
  BY <1>1, <1>2, <1>3, RequestsRest

-----------------------------------------------------------------------------
(* The start of a turn.                                                    *)

\* A request arrives: it is refused, or takes the slot of an idle session.
LEMMA ArrivalSteps ==
  ASSUME Inv, Basic', NEW q \in Requests, Refuse(q) \/ Begin(q)
  PROVE  Inv'
<1>1. /\ pc[q] = "idle" /\ pc' = [pc EXCEPT ![q] = pc'[q]] /\ pc'[q] \in {"closed", "opening"}
      /\ pc'[q] = "opening" => exists /\ Idle /\ slot' = q
      /\ pc'[q] = "closed" => slot' = slot
      /\ UNCHANGED <<exists, composition, history, turns, notices, announced, kind, turn,
                     pump, channel, output, ledger>>
  BY DEF Inv, Basic, Refuse, Begin, Arrives, Refused, record, streams
<1>2. pc'[q] \in {"closed", "opening"} /\ \A p \in Requests \ {q} : pc'[p] = pc[p]
  BY <1>1 DEF Inv, Basic
<1>3. Held'
  <2> SUFFICES ASSUME NEW p \in Requests, pc'[p] \in Alive PROVE slot' = p /\ exists'
    BY DEF Held
  <2>1. CASE p = q
    BY <1>1, <1>2, <2>1 DEF Alive, Working
  <2>2. CASE p # q
    <3>1. pc[p] \in Alive /\ slot = p /\ exists
      BY <1>2, <2>2 DEF Inv, Held
    <3>2. ~Idle
      BY <3>1, IdleNobody
    <3> QED
      BY <1>1, <1>2, <3>1, <3>2
  <2> QED
    BY <2>1, <2>2
<1>4. AllHeard'
  <2> SUFFICES ASSUME NEW p \in Requests PROVE HeardOf(p)'
    BY DEF AllHeard
  <2>1. HeardOf(p)
    BY DEF Inv, AllHeard
  <2>2. CASE p = q
    BY <1>1, <1>2, <2>1, <2>2 DEF HeardOf, Heard, Before
  <2>3. CASE p # q
    BY <1>1, <1>2, <2>1, <2>3 DEF HeardOf
  <2> QED
    BY <2>2, <2>3
<1>5. AllStaged'
  <2> SUFFICES ASSUME NEW p \in Requests PROVE StageOf(p)'
    BY DEF AllStaged
  <2>1. StageOf(p)
    BY DEF Inv, AllStaged
  <2>2. CASE p = q
    BY <1>1, <1>2, <2>1, <2>2 DEF StageOf, Stage, Before, Unsettled, Working
  <2>3. CASE p # q
    BY <1>1, <1>2, <2>1, <2>3 DEF StageOf
  <2> QED
    BY <2>2, <2>3
<1>6. AllRead'
  BY <1>1, <1>2 DEF Inv, AllRead, Read, Working
<1>7. Turns' /\ Numbers'
  BY <1>1, NumbersRest DEF Inv, Turns
<1>8. Notices'
  BY <1>1, NoticesRest
<1>9. Numbered'
  <2>1. \A p \in Requests : Committed(p)' => Committed(p)
    BY <1>1, <1>2 DEF Committed
  <2> QED
    BY <1>1, <2>1, NumberedRests
<1>10. Counted'
  <2>1. \A p \in Requests : p \in Past => p \in Past'
    BY <1>1, <1>2 DEF Past, Working
  <2> QED
    BY <1>1, <2>1, CountedRests
<1> QED
  BY <1>3, <1>4, <1>5, <1>6, <1>7, <1>8, <1>9, <1>10 DEF Inv

\* What the invariant says of one request.
LEMMA Particulars ==
  ASSUME Inv, NEW q \in Requests
  PROVE  /\ Heard(q, pc[q], pump[q], channel[q])
         /\ Stage(pc[q], kind[q], pump[q], output[q], ledger[q])
         /\ Read(pc[q], kind[q], turn[q])
         /\ turn[q] \in TurnRecord /\ pc[q] \in Stages /\ kind[q] \in {"chat", "compact"}
  BY DEF Inv, AllHeard, HeardOf, AllStaged, StageOf, AllRead, Turns, Basic

\* What a turn reads at its start.
LEMMA RecordWith ==
  ASSUME NEW x, NEW n, NEW u, NEW g, NEW t,
         x = [number |-> n, used |-> u, given |-> g, told |-> t],
         NEW a, NEW b, NEW c, NEW y, y = [x EXCEPT !.number = a, !.used = b, !.told = c]
  PROVE  y = [number |-> a, used |-> b, given |-> g, told |-> c]
  OBVIOUS

\* The slot is taken, the turn reads its number, its blocks and its notices.
LEMMA OpenedStep ==
  ASSUME Inv, Basic', NEW q \in Requests, Opened(q)
  PROVE  Inv'
<1>1. /\ pc[q] = "opening" /\ pc' = [pc EXCEPT ![q] = IF client[q] = "gone" THEN "closed" ELSE "starting"]
      /\ ledger'[q] \in {"none", "active"} /\ \A p \in Requests \ {q} : ledger'[p] = ledger[p]
      /\ UNCHANGED <<exists, slot, composition, history, turns, kind, pump, channel, output>>
  BY DEF Opened, record, streams, Inv, Basic
<1>2. /\ pc'[q] \in {"closed", "starting"} /\ pc[q] \in Alive
      /\ \A p \in Requests \ {q} : pc'[p] = pc[p]
  BY <1>1 DEF Inv, Basic, Alive
<1>3. /\ Heard(q, "opening", pump[q], channel[q])
      /\ Stage("opening", kind[q], pump[q], output[q], ledger[q])
      /\ turn[q] \in TurnRecord
  BY <1>1, Particulars
<1>4. exists /\ slot = q /\ turn \in [Requests -> TurnRecord]
  BY <1>2 DEF Inv, Held, Turns
<1>5. HeardOf(q)'
  BY <1>1, <1>2, <1>3 DEF HeardOf, Heard, Before
<1>6. StageOf(q)'
  BY <1>1, <1>2, <1>3 DEF StageOf, Stage, Before, Unsettled, Working
<1>7. Numbers'
  BY <1>1, NumbersRest
<1>8. Counted'
  <2>1. \A p \in Requests : p \in Past => p \in Past'
    BY <1>1, <1>2 DEF Past, Working
  <2> QED
    BY <1>1, <2>1, CountedRests
<1>9. ~Committed(q) /\ ~Committed(q)'
  BY <1>1, <1>2, <1>3 DEF Committed, Stage, Unsettled, Before
<1>10. CASE kind[q] = "compact"
  <2>1. turn' = turn /\ announced' = announced /\ notices' = notices
    BY <1>1, <1>10 DEF Opened
  <2>2. Only(q)
    BY <1>1, <1>2, <2>1 DEF Only
  <2>3. Read(pc[q], kind[q], turn[q])'
    BY <1>1, <1>2, <1>10 DEF Read, Working
  <2>4. Turns' /\ Notices'
    BY <1>1, <2>1, NoticesRest DEF Inv, Turns
  <2>5. Numbered'
    BY <1>1, <1>2, <1>9, <2>1, NumberedRests DEF Committed
  <2> QED
    BY <1>1, <1>2, <1>5, <1>6, <1>7, <1>8, <2>2, <2>3, <2>4, <2>5, TurnMoves
<1>11. CASE kind[q] = "chat"
  <2> DEFINE t == [turn[q] EXCEPT !.number = turns + 1, !.used = composition, !.told = notices]
  <2>1. /\ turn' = [turn EXCEPT ![q].number = turns + 1, ![q].used = composition, ![q].told = notices]
        /\ announced' = announced \cup ToSet(notices) /\ notices' = <<>>
    BY <1>11 DEF Opened, TakeNotices
  <2>2. turn' = [turn EXCEPT ![q] = t]
    BY <1>4, <2>1 DEF TurnRecord
  <2>3. turns + 1 \in 0..N
    <3>1. Past \subseteq Requests \ {q}
      BY <1>1 , <1>3 DEF Past, Stage, Before
    <3>2. IsFiniteSet(Requests \ {q}) /\ Cardinality(Requests \ {q}) = N - 1
      BY Constants, FS_RemoveElement DEF N
    <3>3. Cardinality(Past) <= N - 1
      BY <3>1, <3>2, FS_Subset
    <3>4. turns \in Nat /\ turns <= Cardinality(Past)
      BY Constants DEF Inv, Turns, Counted
    <3> QED
      BY <3>3, <3>4, Constants, PastFinite
  <2>4. /\ t.number = turns + 1 /\ t.used = composition /\ t.told = notices /\ t.given = turn[q].given
        /\ t = [number |-> t.number, used |-> t.used, given |-> t.given, told |-> t.told]
    <3>2. turn[q] = [number |-> turn[q].number, used |-> turn[q].used,
                     given |-> turn[q].given, told |-> turn[q].told]
      BY <1>3 DEF TurnRecord
    <3> DEFINE x == turn[q]
               k == turns + 1
    <3>3. x = [number |-> x.number, used |-> x.used, given |-> x.given, told |-> x.told]
      BY <3>2
    <3>4. t = [x EXCEPT !.number = k, !.used = composition, !.told = notices]
      OBVIOUS
    <3> HIDE DEF t, x, k
    <3>5. t = [number |-> k, used |-> composition, given |-> x.given, told |-> notices]
      BY <3>3, <3>4, RecordWith
    <3>1. t = [number |-> turns + 1, used |-> composition, given |-> turn[q].given, told |-> notices]
      BY <3>5 DEF x, k
    <3> QED
      BY <3>1
  <2>5. t \in TurnRecord
    <3>1. composition \in 0..MaxSwaps /\ notices \in Seq(1..MaxSwaps)
      BY DEF Inv, Basic, Notices
    <3>2. turn[q].given \in Seq(Entries)
      BY <1>3 DEF TurnRecord
    <3> HIDE DEF t
    <3>3. t.number \in 0..N /\ t.used \in 0..MaxSwaps /\ t.told \in Seq(1..MaxSwaps) /\ t.given \in Seq(Entries)
      BY <2>3, <2>4, <3>1, <3>2
    <3> QED
      BY <2>4, <3>3 DEF TurnRecord
  <2> HIDE DEF t
  <2>6. turn'[q] = t /\ \A p \in Requests \ {q} : turn'[p] = turn[p]
    BY <1>4, <2>2
  <2>7. turn' \in [Requests -> TurnRecord]
    BY <1>4, <2>2, <2>5
  <2>8. Only(q)
    BY <1>1, <1>2, <2>6 DEF Only
  <2>9. Read(pc[q], kind[q], turn[q])'
    BY <1>1, <1>2, <2>4, <2>6 DEF Read, Working
  <2>10. Turns'
    BY <1>1, <2>7 DEF Inv, Turns
  <2>11. Numbered'
    <3>1. \A p \in Requests : Committed(p)' => Committed(p) /\ p # q
      BY <1>1, <1>2, <1>9 DEF Committed
    <3> QED
      BY <1>1, <2>6, <3>1, NumberedRests
  <2>12. Notices'
    <3>1. /\ announced \subseteq 1..composition /\ ToSet(notices) \subseteq 1..composition
          /\ announced \cap ToSet(notices) = {}
          /\ composition > 0 => composition \in announced \cup ToSet(notices)
          /\ \A p \in Requests : ToSet(turn[p].told) \subseteq announced
          /\ \A p \in Requests : turn[p].used > 0 => turn[p].used \in announced
          /\ NoticeOnce
      BY <1>4 DEF Inv, Notices, SwapsAnnounced, SwapPerceived
    <3>2. ToSet(notices)' = {} /\ notices' \in Seq(1..MaxSwaps) /\ Len(notices') <= MaxNotices
      BY <2>1, Constants DEF ToSet
    <3>3. \A p \in Requests \ {q} : turn'[p].told = turn[p].told /\ turn'[p].used = turn[p].used
      BY <2>6
    <3>4. turn'[q].told = notices /\ turn'[q].used = composition
      BY <2>4, <2>6
    <3>5. SwapPerceived'
      <4>1. ASSUME NEW p \in Requests \ {q}, turn'[p].used > 0 PROVE turn'[p].used \in announced'
        <5>1. turn'[p].used = turn[p].used
          BY <3>3
        <5>2. turn[p].used > 0 => turn[p].used \in announced
          BY <3>1
        <5> QED
          BY <2>1, <4>1, <5>1, <5>2
      <4>2. ASSUME turn'[q].used > 0 PROVE turn'[q].used \in announced'
        BY <2>1, <3>1, <3>4, <4>2
      <4> QED
        BY <4>1, <4>2 DEF SwapPerceived
    <3>6. \A p \in Requests : ToSet(turn[p].told)' = ToSet(turn'[p].told)
      BY DEF ToSet
    <3>7. NoticeOnce'
      <4> SUFFICES ASSUME NEW p1 \in Requests, NEW p2 \in Requests, p1 # p2
                   PROVE  ToSet(turn'[p1].told) \cap ToSet(turn'[p2].told) = {}
        BY <3>6 DEF NoticeOnce
      <4>1. CASE p1 # q /\ p2 # q
        BY <3>1, <3>3, <4>1 DEF NoticeOnce
      <4>2. CASE p1 = q
        BY <3>1, <3>3, <3>4, <4>2
      <4>3. CASE p2 = q
        BY <3>1, <3>3, <3>4, <4>3
      <4> QED
        BY <4>1, <4>2, <4>3
    <3>8. \A p \in Requests : ToSet(turn'[p].told) \subseteq announced'
      BY <2>1, <3>1, <3>3, <3>4
    <3> QED
      BY <1>1, <2>1, <3>1, <3>2, <3>5, <3>6, <3>7, <3>8 DEF Notices, SwapsAnnounced
  <2> QED
    BY <1>1, <1>2, <1>5, <1>6, <1>7, <1>8, <2>8, <2>9, <2>10, <2>11, <2>12, TurnMoves
<1> QED
  BY <1>10, <1>11, Particulars

-----------------------------------------------------------------------------
(* A channel at work.                                                      *)

\* The loop asks for the next chunk.
LEMMA HeardAsk ==
  ASSUME NEW q, NEW at \in {"starting", "writing"}, NEW pumping, NEW ch, Heard(q, at, pumping, ch),
         NEW now, pumping = "done" => now = "done", NEW p, p = Receive(ch, q)
  PROVE  Heard(q, "receiving", now, p)
<1>1. Stream(ch, q, Parts, Capacity) /\ ~Awaited(ch) /\ ~ch.closed
  BY DEF Heard, Before
<1>2. Stream(p, q, Parts, Capacity)
  BY <1>1, Constants, ReceiveStream
<1>3. ~p.closed
  BY <1>1, Constants, ReceiveOpen
<1>4. Pending(p, q, End) <= Pending(ch, q, End)
  BY <1>1, Constants, ReceivePending
<1>5. Pending(p, q, End) \in Nat /\ Pending(ch, q, End) \in Nat
  BY <1>1, <1>2, Constants, PendingFacts
<1>6. now # "done" => Pending(ch, q, End) = 0
  BY DEF Heard
<1>7. now # "done" => Pending(p, q, End) = 0
  BY <1>4, <1>5, <1>6
<1> QED
  BY <1>2, <1>3, <1>7 DEF Heard

\* A chunk and a terminator are told apart.
LEMMA PartsApart == Chunk \in Parts /\ End \in Parts /\ Chunk # End /\ Item(Chunk) # Item(End)
<1>1. Chunk \in Parts /\ End \in Parts
  BY DEF Parts
<1>2. Chunk.kind = "chunk" /\ End.kind = "end" /\ Item(Chunk).value = Chunk /\ Item(End).value = End
  BY DEF Chunk, End, Item
<1>3. Chunk # End
  BY <1>2
<1> QED
  BY <1>1, <1>2, <1>3

\* The loop picks a chunk up.
LEMMA HeardChunk ==
  ASSUME NEW q, NEW pumping, NEW ch, Heard(q, "receiving", pumping, ch),
         q \in DOMAIN ch.resolved, ch.resolved[q] # Item(End), NEW p, p = PickUp(ch, q)
  PROVE  Heard(q, "writing", pumping, p)
<1>1. Stream(ch, q, Parts, Capacity) /\ ~ch.closed
  BY DEF Heard
<1>2. Stream(p, q, Parts, Capacity)
  BY <1>1, Constants, PickUpStream
<1>3. ~p.closed
  BY <1>1, Constants, PickUpRest
<1>4. ~Awaited(p)
  BY <1>1, Constants, PickUpUnawaited
<1>5. Pending(p, q, End) = Pending(ch, q, End)
  BY <1>1, Constants, PickUpPending
<1> QED
  BY <1>2, <1>3, <1>4, <1>5 DEF Heard

\* The loop picks the terminator up: the pump is done.
LEMMA HeardEnd ==
  ASSUME NEW q, NEW pumping, NEW ch, Heard(q, "receiving", pumping, ch),
         q \in DOMAIN ch.resolved, ch.resolved[q] = Item(End), NEW p, p = PickUp(ch, q)
  PROVE  pumping = "done" /\ Heard(q, "writing", pumping, p)
<1>1. Stream(ch, q, Parts, Capacity) /\ ~ch.closed
  BY DEF Heard
<1>2. Stream(p, q, Parts, Capacity)
  BY <1>1, Constants, PickUpStream
<1>3. ~p.closed
  BY <1>1, Constants, PickUpRest
<1>4. ~Awaited(p)
  BY <1>1, Constants, PickUpUnawaited
<1>5. Pending(ch, q, End) # 0
  <2>1. InHand(ch, q, End)
    BY DEF InHand
  <2> QED
    BY <1>1, <2>1, Constants, PendingFacts
<1>6. pumping = "done"
  BY <1>5 DEF Heard
<1> QED
  BY <1>2, <1>3, <1>4, <1>6 DEF Heard

\* The channel is closed behind the loop.
LEMMA HeardClose ==
  ASSUME NEW q, NEW pumping, NEW ch, Heard(q, "writing", pumping, ch),
         NEW at \in {"leaving", "settling"}, NEW p, p = Close(ch)
  PROVE  Heard(q, at, pumping, p)
<1>1. Stream(ch, q, Parts, Capacity) /\ ~Awaited(ch)
  BY DEF Heard
<1>2. Stream(p, q, Parts, Capacity) /\ ~Awaited(p) /\ p.buffer = ch.buffer
  BY <1>1, Constants, CloseStream
<1>3. ~InHand(ch, q, End) /\ ~InHand(p, q, End)
  BY <1>1, <1>2 DEF InHand, Awaited
<1>4. Pending(p, q, End) = Pending(ch, q, End)
  BY <1>2, <1>3 DEF Pending
<1>5. at \notin Before \cup {"receiving", "writing"}
  BY DEF Before
<1> QED
  BY <1>2, <1>4, <1>5 DEF Heard

\* The driver yields an event, to whoever may listen.
LEMMA HeardPush ==
  ASSUME NEW q, NEW at, NEW pumping, NEW ch, Heard(q, at, pumping, ch),
         NEW p, p = Push(ch, Chunk, Capacity)
  PROVE  Heard(q, at, pumping, p)
<1>1. Stream(ch, q, Parts, Capacity)
  BY DEF Heard
<1>2. Stream(p, q, Parts, Capacity) /\ p.closed = ch.closed
  BY <1>1, PartsApart, Constants, PushStream
<1>3. Awaited(p) => Awaited(ch)
  BY <1>1, PartsApart, Constants, PushUnawaited
<1>4. Pending(p, q, End) <= Pending(ch, q, End)
  BY <1>1, PartsApart, Constants, PushPending
<1>5. Pending(p, q, End) \in Nat /\ Pending(ch, q, End) \in Nat
  BY <1>1, <1>2, Constants, PendingFacts
<1>6. Pending(ch, q, End) = 0 => Pending(p, q, End) = 0
  BY <1>4, <1>5
<1> QED
  BY <1>2, <1>3, <1>6 DEF Heard

\* The pump ends.
LEMMA HeardLast ==
  ASSUME NEW q, NEW at, NEW pumping, NEW ch, Heard(q, at, pumping, ch),
         NEW items \in Seq(Parts), NEW p, p = PushAll(ch, items, Capacity)
  PROVE  Heard(q, at, "done", p)
<1>1. Stream(ch, q, Parts, Capacity)
  BY DEF Heard
<1>2. Stream(p, q, Parts, Capacity) /\ p.closed = ch.closed
  BY <1>1, Constants, PushAllStream
<1>3. Awaited(p) => Awaited(ch)
  BY <1>1, Constants, PushAllUnawaited
<1> QED
  BY <1>2, <1>3 DEF Heard

\* The request moves on and leaves its channel alone.
LEMMA HeardMoves ==
  ASSUME NEW q, NEW at, NEW pumping, NEW ch, Heard(q, at, pumping, ch), at # "receiving",
         NEW h, h \in Before \cup {"receiving", "writing"} => at \in Before
  PROVE  Heard(q, h, pumping, ch)
  BY DEF Heard, Before

-----------------------------------------------------------------------------
(* A chat turn.                                                            *)

\* The pump starts.
LEMMA StartStep ==
  ASSUME Inv, Basic', NEW q \in Requests, StartPump(q)
  PROVE  Inv'
<1>1. /\ pc[q] = "starting" /\ kind[q] = "chat" /\ pump[q] = "none" /\ ledger[q] \in {"none", "active"}
      /\ Heard(q, "starting", pump[q], channel[q]) /\ Read("starting", "chat", turn[q])
      /\ turn \in [Requests -> TurnRecord] /\ output[q] = "none"
  BY Particulars DEF StartPump, Stage, Inv, Turns, Before, Unsettled
<1>2. /\ pc'[q] = "receiving" /\ pump'[q] = "running" /\ channel'[q] = Receive(channel[q], q)
      /\ pc' = [pc EXCEPT ![q] = "receiving"]
      /\ turn' = [turn EXCEPT ![q] = [@ EXCEPT !.given = history]]
      /\ \A p \in Requests \ {q} :
           pc'[p] = pc[p] /\ pump'[p] = pump[p] /\ channel'[p] = channel[p] /\ turn'[p] = turn[p]
      /\ UNCHANGED <<exists, slot, composition, history, turns, notices, announced, kind, output, ledger>>
  BY <1>1 DEF StartPump, record, Inv, Basic
<1>3. /\ turn'[q].given = history /\ turn'[q].number = turn[q].number
      /\ turn'[q].used = turn[q].used /\ turn'[q].told = turn[q].told
      /\ turn' \in [Requests -> TurnRecord]
  <2>1. history \in Seq(Entries)
    BY DEF Inv, Numbers
  <2> QED
    BY <1>1, <1>2, <2>1 DEF TurnRecord
<1>4. Only(q)
  BY <1>2 DEF Only
<1>5. HeardOf(q)'
  <2> DEFINE p == Receive(channel[q], q)
  <2>1. Heard(q, "starting", "none", channel[q])
    BY <1>1
  <2> HIDE DEF p
  <2>2. Heard(q, "receiving", "running", p)
    BY <2>1, HeardAsk DEF p
  <2> QED
    BY <1>2, <2>2 DEF HeardOf, p
<1>6. StageOf(q)'
  BY <1>1, <1>2 DEF StageOf, Stage, Before, Working, Unsettled
<1>7. Read(pc[q], kind[q], turn[q])'
  BY <1>1, <1>2, <1>3 DEF Read, Working
<1>8. ~Committed(q)' /\ q \notin Past
  BY <1>1, <1>2 DEF Committed, Past
<1>9. pc[q] \in Alive
  BY <1>1 DEF Alive
<1> QED
  BY <1>2, <1>3, <1>4, <1>5, <1>6, <1>7, <1>8, <1>9, QuietMoves

\* What a quiet step leaves alone in the session and in the other requests.
Quiet == UNCHANGED <<exists, composition, history, turns, notices, announced, kind>>

\* A living request whose channel and turn rest moves to another stage.
LEMMA StageMoves ==
  ASSUME Inv, Basic', NEW q \in Requests, pc[q] \in Alive, Quiet,
         UNCHANGED <<turn, channel, pump, output>>,
         \A p \in Requests \ {q} : pc'[p] = pc[p] /\ ledger'[p] = ledger[p],
         slot' = slot \/ pc'[q] \notin Alive,
         pc'[q] \in {"throwing", "reporting", "closed"}, 
         pc[q] \notin {"receiving", "starting"} \/ (pc[q] = "starting" /\ pc'[q] = "throwing"),
         StageOf(q)', Committed(q)' => Committed(q)
  PROVE  Inv'
<1>1. Only(q) /\ UNCHANGED <<exists, composition, history, turns, notices, announced, turn, channel>>
  BY DEF Only, Quiet
<1>2. HeardOf(q)'
  BY <1>1, Particulars DEF HeardOf, Heard, Before
<1>3. Read(pc[q], kind[q], turn[q])'
  BY DEF Read, Working
<1>4. turn' \in [Requests -> TurnRecord]
  BY <1>1 DEF Inv, Turns
<1>5. q \in Past => q \in Past'
  BY <1>1 DEF Past, Working, Only
<1>6. turn'[q].number = turn[q].number /\ turn'[q].used = turn[q].used /\ turn'[q].told = turn[q].told
  BY <1>1
<1> QED
  BY <1>1, <1>2, <1>3, <1>4, <1>5, <1>6, QuietMoves

\* The endpoint cannot be resolved, or the model call fails.
LEMMA ThrowSteps ==
  ASSUME Inv, Basic', NEW q \in Requests, StartThrows(q) \/ SummaryThrows(q)
  PROVE  Inv'
<1>1. /\ Quiet /\ UNCHANGED <<turn, channel, pump, output, ledger, slot>>
      /\ pc'[q] = "throwing" /\ pc[q] \in {"starting", "summarizing"}
      /\ \A p \in Requests \ {q} : pc'[p] = pc[p]
  BY DEF StartThrows, SummaryThrows, Throw, Quiet, record, streams, Inv, Basic
<1>2. Stage(pc[q], kind[q], pump[q], output[q], ledger[q])
  BY Particulars
<1>3. StageOf(q)'
  BY <1>1, <1>2 DEF StageOf, Stage, Before, Working, Unsettled, Quiet
<1>4. ~Committed(q)'
  BY <1>1, <1>2 DEF Committed, Stage, Before, Unsettled
<1>5. pc[q] \in Alive /\ pc[q] # "receiving"
  BY <1>1 DEF Alive
<1>6. pc'[q] \in {"throwing", "reporting", "closed"}
  BY <1>1
<1>7. pc[q] \notin {"receiving", "starting"} \/ (pc[q] = "starting" /\ pc'[q] = "throwing")
  BY <1>1
<1> QED
  BY <1>1, <1>3, <1>4, <1>5, <1>6, <1>7, StageMoves

\* A request that ends frees the slot.
LEMMA EndSteps ==
  ASSUME Inv, Basic', NEW q \in Requests, Thrown(q) \/ Leave(q) \/ Reported(q)
  PROVE  Inv'
<1>1. /\ Quiet /\ UNCHANGED <<turn, channel, pump, output>>
      /\ pc'[q] = "closed" /\ pc[q] \in {"throwing", "leaving", "reporting"}
      /\ \A p \in Requests \ {q} : pc'[p] = pc[p] /\ ledger'[p] = ledger[p]
  BY DEF Thrown, Leave, Reported, Finish, FreeSlot, Quiet, streams, Inv, Basic
<1>2. Stage(pc[q], kind[q], pump[q], output[q], ledger[q])
  BY Particulars
<1>3. /\ pc[q] # "throwing" => ledger'[q] = ledger[q]
      /\ pc[q] = "throwing" => ledger'[q] \in {"none", "cancelled", "failed"}
      /\ pc[q] = "leaving" => pump[q] = "done"
  BY DEF Thrown, Leave, Reported, Inv, Basic
<1>4. StageOf(q)'
  BY <1>1, <1>2, <1>3 DEF StageOf, Stage, Before, Working, Unsettled, Quiet
<1>5. Committed(q)' => Committed(q)
  BY <1>1, <1>3 DEF Committed, Quiet
<1>6. pc[q] \in Alive /\ (slot' = slot \/ pc'[q] \notin Alive)
  BY <1>1 DEF Alive, Working
<1>7. /\ pc'[q] \in {"throwing", "reporting", "closed"}
      /\ pc[q] \notin {"receiving", "starting"} \/ (pc[q] = "starting" /\ pc'[q] = "throwing")
  BY <1>1
<1> QED
  BY <1>1, <1>4, <1>5, <1>6, <1>7, StageMoves

\* The row is closed and the closing chunk yielded.
LEMMA SettleStep ==
  ASSUME Inv, Basic', NEW q \in Requests, Settle(q)
  PROVE  Inv'
<1>1. /\ Quiet /\ UNCHANGED <<turn, channel, pump, output>> /\ pc[q] = "settling"
      /\ ledger'[q] = (IF ledger[q] = "none" THEN "none" ELSE output[q])
      /\ \A p \in Requests \ {q} : ledger'[p] = ledger[p]
  BY DEF Settle, Quiet, streams, Inv, Basic
<1>2. /\ pc'[q] \in {"reporting", "closed"}
      /\ slot' = slot \/ pc'[q] = "closed"
      /\ \A p \in Requests \ {q} : pc'[p] = pc[p]
  <2>1. CASE client[q] = "gone"
    BY <2>1 DEF Settle, Finish, FreeSlot, Inv, Basic
  <2>2. CASE client[q] # "gone"
    BY <2>2 DEF Settle, Finish, FreeSlot, Inv, Basic
  <2> QED
    BY <2>1, <2>2
<1>3. Stage(pc[q], kind[q], pump[q], output[q], ledger[q])
  BY Particulars
<1>4. StageOf(q)'
  BY <1>1, <1>2, <1>3 DEF StageOf, Stage, Before, Working, Unsettled, Quiet
<1>5. Committed(q)' => Committed(q)
  BY <1>1, <1>2 DEF Committed, Quiet
<1>6. pc[q] \in Alive /\ (slot' = slot \/ pc'[q] \notin Alive)
  BY <1>1, <1>2 DEF Alive, Working
<1>7. /\ pc'[q] \in {"throwing", "reporting", "closed"}
      /\ pc[q] \notin {"receiving", "starting"} \/ (pc[q] = "starting" /\ pc'[q] = "throwing")
  BY <1>1, <1>2
<1> QED
  BY <1>1, <1>2, <1>4, <1>5, <1>6, <1>7, StageMoves

-----------------------------------------------------------------------------
(* The pump and the loop.                                                  *)

\* The pump or the loop of a chat turn moves; the turn rests.
LEMMA LoopMoves ==
  ASSUME Inv, Basic', NEW q \in Requests, pc[q] \in Working, pc'[q] \in Working, Quiet,
         UNCHANGED <<turn, slot, ledger>>,
         \A p \in Requests \ {q} :
           pc'[p] = pc[p] /\ pump'[p] = pump[p] /\ output'[p] = output[p] /\ channel'[p] = channel[p],
         HeardOf(q)'
  PROVE  Inv'
<1>1. Only(q) /\ UNCHANGED <<exists, slot, composition, history, turns, notices, announced, turn, kind>>
  BY DEF Only, Quiet
<1>2. Stage(pc[q], kind[q], pump[q], output[q], ledger[q])
  BY Particulars
<1>3. StageOf(q)'
  BY <1>1, <1>2 DEF StageOf, Stage, Before, Working, Unsettled
<1>4. Read(pc[q], kind[q], turn[q])'
  BY <1>1, Particulars DEF Read
<1>5. turn' \in [Requests -> TurnRecord]
  BY <1>1 DEF Inv, Turns
<1>6. q \notin Past /\ pc[q] \in Alive
  BY DEF Past, Alive
<1>7. ~Committed(q)'
  <2>1. ledger'[q] # "completed" /\ pc'[q] # "settling"
    BY <1>1, <1>2 DEF Stage, Unsettled, Working
  <2> QED
    BY <2>1 DEF Committed
<1>8. turn'[q].number = turn[q].number /\ turn'[q].used = turn[q].used /\ turn'[q].told = turn[q].told
  BY <1>1
<1> QED
  BY <1>1, <1>3, <1>4, <1>5, <1>6, <1>7, <1>8, QuietMoves

\* The driver yields an event.
LEMMA PumpEmitsStep ==
  ASSUME Inv, Basic', NEW q \in Requests, PumpEmits(q)
  PROVE  Inv'
<1> DEFINE p == Push(channel[q], Chunk, Capacity)
<1>1. /\ Quiet /\ UNCHANGED <<turn, slot, ledger, pc, pump, output>> /\ pump[q] = "running"
      /\ channel'[q] = p /\ \A z \in Requests \ {q} : channel'[z] = channel[z]
  BY DEF PumpEmits, Quiet, record, streams, Inv, Basic
<1> HIDE DEF p
<1>2. Heard(q, pc[q], pump[q], channel[q]) /\ pc[q] \in Working
  BY <1>1, Particulars DEF Stage
<1>3. Heard(q, pc[q], pump[q], p)
  BY <1>2, HeardPush DEF p
<1>4. HeardOf(q)'
  BY <1>1, <1>3 DEF HeardOf
<1> QED
  BY <1>1, <1>2, <1>4, LoopMoves

\* The agent execution ends or throws.
LEMMA PumpEndsStep ==
  ASSUME Inv, Basic', NEW q \in Requests, PumpEnds(q)
  PROVE  Inv'
<1>1. /\ Quiet /\ UNCHANGED <<turn, slot, ledger, pc>> /\ pump[q] = "running"
      /\ pump'[q] = "done" /\ \A z \in Requests \ {q} : pump'[z] = pump[z]
  BY DEF PumpEnds, Quiet, record, streams, Inv, Basic
<1>2. PICK result \in {"completed", "failed"}, notes \in {<<>>, <<Chunk>>} :
        /\ output' = [output EXCEPT ![q] = IF Signalled(q) THEN "cancelled" ELSE result]
        /\ channel' = [channel EXCEPT ![q] = PushAll(@, Append(notes, End), Capacity)]
  BY DEF PumpEnds
<1> DEFINE items == Append(notes, End)
           p == PushAll(channel[q], items, Capacity)
<1>3. items \in Seq(Parts)
  <2>1. <<>> \in Seq(Parts) /\ <<Chunk>> \in Seq(Parts)
    BY PartsApart
  <2>2. notes \in Seq(Parts)
    BY <2>1
  <2> QED
    BY <2>2, PartsApart, AppendProperties
<1>4. channel'[q] = p /\ \A z \in Requests \ {q} : channel'[z] = channel[z] /\ output'[z] = output[z]
  BY <1>2 DEF Inv, Basic
<1> HIDE DEF items
<1>5. Heard(q, pc[q], pump[q], channel[q]) /\ pc[q] \in Working
  BY <1>1, Particulars DEF Stage
<1> HIDE DEF p
<1>6. Heard(q, pc[q], "done", p)
  BY <1>3, <1>5, HeardLast DEF p
<1>7. HeardOf(q)'
  BY <1>1, <1>4, <1>6 DEF HeardOf
<1>8. \A z \in Requests \ {q} :
        pc'[z] = pc[z] /\ pump'[z] = pump[z] /\ output'[z] = output[z] /\ channel'[z] = channel[z]
  BY <1>1, <1>4
<1>9. pc'[q] \in Working
  BY <1>1, <1>5
<1> QED
  BY <1>1, <1>5, <1>7, <1>8, <1>9, LoopMoves

\* A chunk is yielded; if the client is gone, the loop is left behind a closed channel.
LEMMA HandleChunkStep ==
  ASSUME Inv, Basic', NEW q \in Requests, HandleChunk(q)
  PROVE  Inv'
<1> DEFINE p == PickUp(channel[q], q)
           c == Close(p)
<1>1. /\ Quiet /\ UNCHANGED <<turn, slot, ledger, pump, output>> /\ pc[q] = "receiving"
      /\ q \in DOMAIN channel[q].resolved /\ channel[q].resolved[q] = Item(Chunk)
  BY DEF HandleChunk, Got, Quiet, record, Inv, Basic
<1>2. /\ \A z \in Requests \ {q} : pc'[z] = pc[z] /\ channel'[z] = channel[z]
      /\ \/ pc'[q] = "leaving" /\ channel'[q] = c
         \/ pc'[q] = "writing" /\ channel'[q] = p
  <2>1. CASE client[q] = "gone"
    BY <2>1 DEF HandleChunk, Inv, Basic
  <2>2. CASE client[q] # "gone"
    BY <2>2 DEF HandleChunk, Inv, Basic
  <2> QED
    BY <2>1, <2>2
<1>3. Heard(q, "receiving", pump[q], channel[q])
  BY <1>1, Particulars
<1> HIDE DEF c
<1>4. channel[q].resolved[q] # Item(End)
  BY <1>1, PartsApart
<1> HIDE DEF p
<1>5. Heard(q, "writing", pump[q], p)
  BY <1>1, <1>3, <1>4, HeardChunk DEF p
<1>6. Heard(q, "leaving", pump[q], c)
  BY <1>5, HeardClose DEF c
<1>7. HeardOf(q)'
  BY <1>1, <1>2, <1>5, <1>6 DEF HeardOf
<1>8. pc[q] \in Working /\ pc'[q] \in Working
  BY <1>1, <1>2 DEF Working
<1> QED
  BY <1>1, <1>2, <1>7, <1>8, LoopMoves

\* The chunk is written and the loop asks for the next one.
LEMMA ChunkWrittenStep ==
  ASSUME Inv, Basic', NEW q \in Requests, ChunkWritten(q)
  PROVE  Inv'
<1> DEFINE p == Receive(channel[q], q)
<1>1. /\ Quiet /\ UNCHANGED <<turn, slot, ledger, pump, output>> /\ pc[q] = "writing"
      /\ pc'[q] = "receiving" /\ channel'[q] = p
      /\ \A z \in Requests \ {q} : pc'[z] = pc[z] /\ channel'[z] = channel[z]
  BY DEF ChunkWritten, Quiet, record, Inv, Basic
<1>2. Heard(q, "writing", pump[q], channel[q])
  BY <1>1, Particulars
<1> HIDE DEF p
<1>3. Heard(q, "receiving", pump[q], p)
  BY <1>2, HeardAsk DEF p
<1>4. HeardOf(q)'
  BY <1>1, <1>3 DEF HeardOf
<1>5. pc[q] \in Working /\ pc'[q] \in Working
  BY <1>1 DEF Working
<1> QED
  BY <1>1, <1>4, <1>5, LoopMoves

-----------------------------------------------------------------------------
(* A compaction.                                                           *)

\* The transcript is read.
LEMMA SummarizeStep ==
  ASSUME Inv, Basic', NEW q \in Requests, Summarize(q)
  PROVE  Inv'
<1>1. /\ pc[q] = "starting" /\ kind[q] = "compact" /\ pc'[q] = "summarizing"
      /\ turn' = [turn EXCEPT ![q] = [@ EXCEPT !.given = history]]
      /\ Quiet /\ UNCHANGED <<slot, channel, pump, output, ledger>>
      /\ \A p \in Requests \ {q} : pc'[p] = pc[p] /\ turn'[p] = turn[p]
  BY DEF Summarize, record, streams, Quiet, Inv, Basic, Turns
<1>2. /\ Heard(q, pc[q], pump[q], channel[q]) /\ turn \in [Requests -> TurnRecord]
      /\ Stage(pc[q], kind[q], pump[q], output[q], ledger[q])
  BY Particulars DEF Inv, Turns
<1>3. /\ turn'[q].given = history /\ turn'[q].number = turn[q].number
      /\ turn'[q].used = turn[q].used /\ turn'[q].told = turn[q].told
      /\ turn' \in [Requests -> TurnRecord]
  <2>1. history \in Seq(Entries)
    BY DEF Inv, Numbers
  <2> QED
    BY <1>1, <1>2, <2>1 DEF TurnRecord
<1>4. Only(q)
  BY <1>1 DEF Only, Quiet
<1>5. HeardOf(q)'
  BY <1>1, <1>2 DEF HeardOf, Heard, Before
<1>6. StageOf(q)'
  BY <1>1, <1>2 DEF StageOf, Stage, Before, Working, Unsettled, Quiet
<1>7. Read(pc[q], kind[q], turn[q])'
  BY <1>1, <1>3 DEF Read, Working, Quiet
<1>8. ~Committed(q)' /\ q \notin Past /\ pc[q] \in Alive
  BY <1>1 DEF Committed, Past, Quiet, Alive
<1> QED
  BY <1>1, <1>3, <1>4, <1>5, <1>6, <1>7, <1>8, QuietMoves DEF Quiet

\* The summary replaces the history, or is empty.
LEMMA SummarizedStep ==
  ASSUME Inv, Basic', NEW q \in Requests, Summarized(q)
  PROVE  Inv'
<1>1. /\ pc[q] = "summarizing" /\ pc'[q] = "settling"
      /\ history' = <<Summary>> \/ history' = history
      /\ UNCHANGED <<exists, slot, composition, turns, notices, announced, kind, turn,
                     channel, pump, ledger>>
      /\ \A p \in Requests \ {q} : pc'[p] = pc[p] /\ output'[p] = output[p]
  BY DEF Summarized, Inv, Basic
<1>2. /\ Heard(q, pc[q], pump[q], channel[q]) /\ kind[q] = "compact"
      /\ Stage(pc[q], kind[q], pump[q], output[q], ledger[q])
  BY <1>1, Particulars DEF Stage
<1>3. Only(q)
  BY <1>1 DEF Only
<1>4. HeardOf(q)'
  BY <1>1, <1>2 DEF HeardOf, Heard, Before
<1>5. StageOf(q)'
  BY <1>1, <1>2 DEF StageOf, Stage, Before, Working, Unsettled
<1>6. Read(pc[q], kind[q], turn[q])'
  BY <1>1, <1>2 DEF Read, Working
<1>7. \A p \in Requests : Committed(p)' => Committed(p)
  BY <1>1, <1>2 DEF Committed
<1>8. Numbered'
  BY <1>1, <1>7, NumberedRests
<1>9. \A p \in Requests : p \in Past => p \in Past'
  BY <1>1, <1>2 DEF Past
<1>10. Counted'
  BY <1>1, <1>9, CountedRests
<1>11. Turns' /\ Notices'
  BY <1>1, NoticesRest DEF Inv, Turns
<1>12. Numbers'
  <2>1. CASE history' = history
    BY <1>1, <2>1, NumbersRest
  <2>2. CASE history' = <<Summary>>
    <3> DEFINE h == <<Summary>>
    <3>1. h \in Seq(Entries) /\ Len(h) = 1 /\ h[1] = Summary
      BY DEF Entries
    <3>2. Len(h) <= MaxHistory
      BY <3>1, Constants
    <3>3. \A i \in 1..Len(h) : i = 1
      BY <3>1
    <3> HIDE DEF h
    <3>4. history' = h
      BY <2>2 DEF h
    <3>5. NumberingDense'
      BY <3>1, <3>3, <3>4 DEF NumberingDense
    <3> QED
      BY <3>1, <3>2, <3>4, <3>5 DEF Numbers
  <2> QED
    BY <1>1, <2>1, <2>2
<1>13. pc[q] \in Alive
  BY <1>1 DEF Alive
<1> QED
  BY <1>1, <1>3, <1>4, <1>5, <1>6, <1>8, <1>10, <1>11, <1>12, <1>13, TurnMoves

-----------------------------------------------------------------------------
(* The end of a chat turn.                                                 *)

\* A history that is within its cap and numbered without gaps up to k.
Dense(h, k) ==
  /\ h \in Seq(Entries) /\ Len(h) <= MaxHistory
  /\ \A i \in 1..Len(h) : h[i] = Summary => i = 1
  /\ \A i \in 1..Len(h) : h[i] # Summary => h[i] = k - Len(h) + i

\* It stays so when the next turn is appended and the oldest entry makes room.
LEMMA TrimDense ==
  ASSUME NEW k \in Nat, k + 1 \in Entries, NEW h, Dense(h, k),
         NEW g, g = Trim(Append(h, k + 1))
  PROVE  Dense(g, k + 1)
<1> DEFINE a == Append(h, k + 1)
           n == Len(h)
           t == Tail(a)
<1>1. /\ h \in Seq(Entries) /\ n <= MaxHistory /\ n \in Nat
      /\ \A i \in 1..n : h[i] = Summary => i = 1
      /\ \A i \in 1..n : h[i] # Summary => h[i] = k - n + i
  BY DEF Dense
<1>2. a \in Seq(Entries) /\ Len(a) = n + 1 /\ a[n + 1] = k + 1 /\ \A i \in 1..n : a[i] = h[i]
  BY <1>1, AppendProperties
<1>3. k + 1 # Summary
  BY Constants
<1>4. g = IF Len(a) > MaxHistory THEN t ELSE a
  BY DEF Trim
<1>5. a # <<>>
  BY <1>1, <1>2, EmptySeq
<1> HIDE DEF a
<1>6. t \in Seq(Entries) /\ Len(t) = n /\ \A i \in 1..n : t[i] = a[i + 1]
  BY <1>1, <1>2, <1>5
<1> HIDE DEF t, n
<1>7. \A i \in 1..(n + 1) : a[i] = Summary => i = 1
  BY <1>1, <1>2, <1>3
<1>8. \A i \in 1..(n + 1) : a[i] # Summary => a[i] = (k + 1) - (n + 1) + i
  <2> SUFFICES ASSUME NEW i \in 1..(n + 1), a[i] # Summary PROVE a[i] = (k + 1) - (n + 1) + i
    OBVIOUS
  <2>1. CASE i = n + 1
    BY <1>1, <1>2, <2>1
  <2>2. CASE i # n + 1
    <3>1. i \in 1..n /\ i \in Nat
      BY <1>1, <2>2
    <3>2. a[i] = k - n + i
      BY <1>1, <1>2, <3>1
    <3> QED
      BY <1>1, <3>1, <3>2
  <2> QED
    BY <2>1, <2>2
<1>9. CASE Len(a) > MaxHistory
  <2>1. g = t
    BY <1>4, <1>9
  <2>2. \A i \in 1..n : i + 1 \in 1..(n + 1) /\ i + 1 # 1
    BY <1>1
  <2>3. \A i \in 1..n : t[i] # Summary
    BY <1>6, <1>7, <2>2
  <2>4. \A i \in 1..n : t[i] = (k + 1) - n + i
    <3> SUFFICES ASSUME NEW i \in 1..n PROVE t[i] = (k + 1) - n + i
      OBVIOUS
    <3>1. t[i] = (k + 1) - (n + 1) + (i + 1)
      BY <1>6, <1>8, <2>2, <2>3
    <3>2. i \in Nat
      BY <1>1
    <3> QED
      BY <1>1, <3>1, <3>2
  <2> QED
    BY <1>1, <1>6, <2>1, <2>3, <2>4 DEF Dense
<1>10. CASE ~(Len(a) > MaxHistory)
  <2>1. g = a
    BY <1>4, <1>10
  <2>2. Len(a) <= MaxHistory
    BY <1>1, <1>2, <1>10, Constants
  <2> QED
    BY <1>2, <1>7, <1>8, <2>1, <2>2 DEF Dense
<1> QED
  BY <1>9, <1>10

\* The terminator: the turn is settled, and a completed one is committed.
LEMMA HandleEndStep ==
  ASSUME Inv, Basic', NEW q \in Requests, HandleEnd(q)
  PROVE  Inv'
<1> DEFINE p == PickUp(channel[q], q)
           c == Close(p)
<1>1. /\ pc[q] = "receiving" /\ pc'[q] = "settling" /\ channel'[q] = c
      /\ q \in DOMAIN channel[q].resolved /\ channel[q].resolved[q] = Item(End)
      /\ UNCHANGED <<exists, slot, composition, notices, announced, kind, turn, pump, output, ledger>>
      /\ \A z \in Requests \ {q} : pc'[z] = pc[z] /\ channel'[z] = channel[z]
  BY DEF HandleEnd, Got, Inv, Basic
<1>2. Heard(q, "receiving", pump[q], channel[q])
  BY <1>1, Particulars
<1>3. /\ Stage("receiving", kind[q], pump[q], output[q], ledger[q])
      /\ Read("receiving", kind[q], turn[q])
  BY <1>1, Particulars
<1> HIDE DEF c, p
<1>4. pump[q] = "done" /\ Heard(q, "writing", pump[q], p)
  BY <1>1, <1>2, HeardEnd DEF p
<1>5. Heard(q, "settling", pump[q], c)
  BY <1>4, HeardClose DEF c
<1>6. HeardOf(q)'
  BY <1>1, <1>5 DEF HeardOf
<1>7. StageOf(q)'
  BY <1>1, <1>3, <1>4 DEF StageOf, Stage, Before, Working, Unsettled
<1>8. Only(q) /\ Read(pc[q], kind[q], turn[q])'
  BY <1>1 DEF Only, Read, Working
<1>9. pc[q] \in Alive /\ pc[q] \in Working /\ kind[q] = "chat" /\ turn[q].number = turns + 1
  BY <1>1, <1>3 DEF Alive, Working, Stage, Read
<1>10. Notices'
  BY <1>1, NoticesRest
<1>11. q \notin Past
  BY <1>9 DEF Past
<1>12. \A z \in Requests \ {q} : (Committed(z)' <=> Committed(z)) /\ (z \in Past' <=> z \in Past)
  BY <1>1 DEF Committed, Past
<1>13. turn' \in [Requests -> TurnRecord] /\ turns \in 0..N
  BY <1>1 DEF Inv, Turns
<1>14. CASE output[q] = "completed"
  <2>1. history' = Trim(Append(history, turns + 1)) /\ turns' = turns + 1
    BY <1>9, <1>14 DEF HandleEnd, AppendTurn
  <2>2. Past' = Past \cup {q} /\ Past \subseteq Requests
    <3>1. q \in Past'
      BY <1>1, <1>9, <1>14 DEF Past, Working
    <3> QED
      BY <1>12, <3>1 DEF Past
  <2>3. Cardinality(Past') = Cardinality(Past) + 1
    BY <1>11, <2>2, PastFinite, FS_AddElement
  <2>4. Cardinality(Past') <= N /\ IsFiniteSet(Past') /\ Cardinality(Past') \in Nat
    <3>1. Past' \subseteq Requests
      BY <2>2
    <3> QED
      BY <3>1, Constants, FS_Subset, FS_CardinalityType DEF N
  <2>5. turns \in Nat /\ turns <= Cardinality(Past)
    BY Constants, <1>13 DEF Inv, Counted
  <2>6. turns + 1 <= Cardinality(Past') /\ turns + 1 \in 0..N /\ turns + 1 \in 1..N
    BY <2>3, <2>4, <2>5, PastFinite, Constants
  <2>7. Counted'
    BY <2>1, <2>6 DEF Counted
  <2>8. Turns'
    BY <1>13, <2>1, <2>6 DEF Turns
  <2>9. Numbers'
    <3>1. Dense(history, turns)
      BY DEF Inv, Numbers, NumberingDense, Dense
    <3>2. turns + 1 \in Entries
      BY <2>6 DEF Entries, N
    <3> DEFINE g == Trim(Append(history, turns + 1))
    <3> HIDE DEF g
    <3>3. Dense(g, turns + 1)
      BY <2>5, <3>1, <3>2, TrimDense DEF g
    <3>4. history' = g
      BY <2>1 DEF g
    <3>5. Dense(history', turns')
      BY <2>1, <3>3, <3>4
    <3> QED
      BY <3>5 DEF Numbers, NumberingDense, Dense
  <2>10. Numbered'
    <3>1. \A z \in Requests \ {q} : Committed(z)' => turn[z].number \in 1..turns
      BY <1>12 DEF Inv, Numbered
    <3>2. turns + 1 \in 1..(turns + 1) /\ turns + 1 \notin 1..turns
          /\ \A i \in 1..turns : i \in 1..(turns + 1)
      BY <2>5
    <3>3. \A z \in Requests : Committed(z)' => turn'[z].number \in 1..turns'
      BY <1>1, <1>9, <2>1, <3>1, <3>2
    <3>4. ASSUME NEW y \in Requests, NEW z \in Requests, Committed(y)', Committed(z)',
                 turn'[y].number = turn'[z].number
          PROVE  y = z
      <4>1. CASE y # q /\ z # q
        BY <1>1, <1>12, <3>4, <4>1 DEF Inv, Numbered
      <4>2. CASE y = q /\ z # q
        BY <1>1, <1>9, <3>1, <3>2, <3>4, <4>2
      <4>3. CASE y # q /\ z = q
        BY <1>1, <1>9, <3>1, <3>2, <3>4, <4>3
      <4> QED
        BY <4>1, <4>2, <4>3
    <3> QED
      BY <3>3, <3>4 DEF Numbered
  <2> QED
    BY <1>1, <1>6, <1>7, <1>8, <1>9, <1>10, <2>7, <2>8, <2>9, <2>10, TurnMoves
<1>15. CASE output[q] # "completed"
  <2>1. history' = history /\ turns' = turns
    BY <1>15 DEF HandleEnd
  <2>2. ~Committed(q)'
    <3>1. ledger'[q] # "completed" /\ output'[q] # "completed"
      BY <1>1, <1>3, <1>15 DEF Stage, Unsettled, Working
    <3> QED
      BY <3>1 DEF Committed
  <2>3. \A z \in Requests : Committed(z)' => Committed(z) /\ turn'[z].number = turn[z].number
    BY <1>1, <1>12, <2>2
  <2>4. Numbered'
    BY <2>1, <2>3, NumberedRests
  <2>5. \A z \in Requests : z \in Past => z \in Past'
    BY <1>11, <1>12
  <2>6. Counted'
    BY <2>1, <2>5, CountedRests
  <2>7. Turns' /\ Numbers'
    BY <1>13, <2>1, NumbersRest DEF Turns
  <2> QED
    BY <1>1, <1>6, <1>7, <1>8, <1>9, <1>10, <2>4, <2>6, <2>7, TurnMoves
<1> QED
  BY <1>14, <1>15

-----------------------------------------------------------------------------
(* The theorem.                                                            *)

\* Every step keeps the invariant.
LEMMA NextInv == Inv /\ Next => Inv'
<1> SUFFICES ASSUME Inv, Next PROVE Inv'
  OBVIOUS
<1>1. Basic'
  BY BasicStep
<1>2. CASE Patch \/ Delete \/ AbortTurn
  BY <1>1, <1>2, PatchStep, DeleteStep, SignalSteps
<1>3. ASSUME NEW q \in Requests, Refuse(q) \/ Begin(q) \/ Disconnect(q) PROVE Inv'
  BY <1>1, <1>3, ArrivalSteps, SignalSteps
<1>4. ASSUME NEW q \in Requests, Generator(q) PROVE Inv'
  <2>1. CASE Opened(q) \/ StartPump(q) \/ StartThrows(q) \/ Thrown(q)
    BY <1>1, <2>1, OpenedStep, StartStep, ThrowSteps, EndSteps
  <2>2. CASE HandleChunk(q) \/ ChunkWritten(q) \/ HandleEnd(q) \/ Leave(q)
    BY <1>1, <2>2, HandleChunkStep, ChunkWrittenStep, HandleEndStep, EndSteps
  <2>3. CASE Summarize(q) \/ Summarized(q) \/ SummaryThrows(q)
    BY <1>1, <2>3, SummarizeStep, SummarizedStep, ThrowSteps
  <2>4. CASE Settle(q) \/ Reported(q)
    BY <1>1, <2>4, SettleStep, EndSteps
  <2> QED
    BY <1>4, <2>1, <2>2, <2>3, <2>4 DEF Generator
<1>5. ASSUME NEW q \in Requests, Pump(q) PROVE Inv'
  BY <1>1, <1>5, PumpEmitsStep, PumpEndsStep DEF Pump
<1> QED
  BY <1>2, <1>3, <1>4, <1>5 DEF Next

\* A stuttering step keeps it.
LEMMA StutterInv == Inv /\ UNCHANGED vars => Inv'
<1> SUFFICES ASSUME Inv, UNCHANGED vars PROVE Inv'
  OBVIOUS
<1>1. UNCHANGED <<exists, running, composition, history, turns, slot, notices, announced, pc, kind,
                  client, stop, turn, pump, abandon, channel, steps, output, ledger>>
  BY DEF vars, record, streams
<1>2. Basic'
  BY <1>1 DEF Inv, Basic
<1>3. AllRest /\ Held'
  BY <1>1 DEF AllRest, Inv, Held
<1>4. Notices'
  BY <1>1, NoticesRest
<1> QED
  BY <1>1, <1>2, <1>3, <1>4, RequestsRest

\* Whatever its requests, swaps, aborts and disconnects, and whatever the caps, a builder
\* session keeps to one driver, gives every turn the session it commits to, counts in
\* history, turn counter and ledger the same turns, and announces every swap once.
THEOREM BuilderSessionKeepsItsStory ==
  Spec => [](TypeOK /\ OneDriver /\ SnapshotHolds /\ HistoryTold /\ SwapsAnnounced)
<1>1. Init => Inv
  BY InitInv
<1>2. Inv /\ [Next]_vars => Inv'
  BY NextInv, StutterInv
<1>3. Inv => TypeOK /\ OneDriver /\ SnapshotHolds /\ HistoryTold /\ SwapsAnnounced
  BY InvTells
<1> QED
  BY <1>1, <1>2, <1>3, PTL DEF Spec

\* No two drivers of a session run at once, and none outlives its turn.
THEOREM OneDriverRuns == Spec => []OneDriver
BY BuilderSessionKeepsItsStory, PTL

\* A driver and a summary work on the session they are committed to.
THEOREM SnapshotIsKept == Spec => []SnapshotHolds
BY BuilderSessionKeepsItsStory, PTL

\* History, turn counter and ledger tell one story.
THEOREM HistoryIsTold == Spec => []HistoryTold
BY BuilderSessionKeepsItsStory, PTL

\* Swaps are announced to a turn, and once.
THEOREM SwapsAreAnnounced == Spec => []SwapsAnnounced
BY BuilderSessionKeepsItsStory, PTL
=============================================================================
