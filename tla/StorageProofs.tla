----------------------------- MODULE StorageProofs -----------------------------
(***************************************************************************)
(* The proofs about the server's stores: the journal and the session file   *)
(* of a builder session (BuilderStorage), the session ledger with the       *)
(* replay of its log (SessionLedger), a JSON file (JsonFile) and the memory *)
(* at the end of the process (ServerShutdown), of the composed              *)
(* specification that the run checks.                                       *)
(***************************************************************************)
EXTENDS MCStorage, SequenceTheorems, WellFoundedInduction, TLAPS

Shared == INSTANCE SharedLemmas

-----------------------------------------------------------------------------
(* The end of the process.                                                 *)

\* While an orderly stop goes on nobody connects any more; behind a drain that worked no
\* client is left, and what the last flush does not write belongs to turns that were left.
ShutdownInv ==
  /\ turn \in [Turns -> {"none", "runs", "told", "served", "left", "late"}]
  /\ stop \in {"none", "flush", "drain", "compact", "reflush", "over"}
  /\ exit \in {"none", "clean", "failed"}
  /\ dirty \subseteq Turns /\ flushing \subseteq Turns /\ rescuing \subseteq Turns
  /\ crash \in {"none", "flush"} /\ failures \in 0 .. MaxFailures
  /\ stop \in {"drain", "compact", "reflush"} => ~listening
  /\ stop \in {"compact", "reflush"} /\ ~stopFailed => Connected = {}
  /\ stop = "reflush" /\ ~stopFailed => \A t \in dirty \ flushing : turn[t] = "late"
  /\ CleanExitKeepsServed

\* No client has come yet.
LEMMA ShutdownInitInv == ShutdownInit => ShutdownInv
  BY ShutdownAssumption DEF ShutdownInit, ShutdownInv, CleanExitKeepsServed, ShutdownAssumption

\* Every step keeps the invariant.
LEMMA ShutdownNextInv == ShutdownInv /\ [ShutdownNext]_shutdownVars => ShutdownInv'
<1> SUFFICES ASSUME ShutdownInv, [ShutdownNext]_shutdownVars PROVE ShutdownInv'
  OBVIOUS
<1> USE ShutdownAssumption DEF ShutdownInv, CleanExitKeepsServed, stopVars, crashVars, Lives, Connected, Fails, ShutdownAssumption
<1>1. CASE UNCHANGED shutdownVars
  BY <1>1 DEF shutdownVars
<1>2. ASSUME NEW t \in Turns, Accept(t) PROVE ShutdownInv'
  BY <1>2 DEF Accept
<1>3. ASSUME NEW t \in Turns, TurnCommits(t) PROVE ShutdownInv'
  BY <1>3 DEF TurnCommits
<1>4. ASSUME NEW t \in Turns, Hangup(t) PROVE ShutdownInv'
  BY <1>4 DEF Hangup
<1>5. CASE Debounce
  BY <1>5 DEF Debounce
<1>6. CASE Signal
  BY <1>6 DEF Signal
<1>7. CASE Flushed
  BY <1>7 DEF Flushed
<1>8. CASE FlushFails
  BY <1>8 DEF FlushFails
<1>9. CASE Drains
  BY <1>9 DEF Drains
<1>10. CASE Compacted
  BY <1>10 DEF Compacted, TailOf
<1>11. CASE Reflushed
  BY <1>11 DEF Reflushed
<1>12. CASE GraceFires
  BY <1>12 DEF GraceFires
<1>13. CASE Crashes
  BY <1>13 DEF Crashes
<1>14. CASE Rescued
  BY <1>14 DEF Rescued
<1>15. CASE BailFires
  BY <1>15 DEF BailFires
<1> QED
  BY <1>1, <1>2, <1>3, <1>4, <1>5, <1>6, <1>7, <1>8, <1>9, <1>10, <1>11, <1>12, <1>13, <1>14,
     <1>15 DEF ShutdownNext

-----------------------------------------------------------------------------
(* A JSON file.                                                            *)

\* Between the temporary file and the rename the payload is whole, a copy is made of a
\* file that can be read, and a backup that no failure cut off is one of a write that a
\* caller was told of.
JsonShape ==
  /\ main \in 0 .. MaxWrites + 1 /\ bak \in 0 .. MaxWrites + 1 /\ tmp \in 0 .. MaxWrites + 1
  /\ wanted \in 0 .. MaxWrites /\ writing \in 0 .. wanted /\ acked \in 0 .. writing
  /\ stage \in {"idle", "writing", "written", "copying", "copied"}
  /\ harm \in 0 .. MaxFaults
  /\ stage # "idle" => writing # 0
  /\ stage \in {"written", "copying", "copied"} => tmp = writing
JsonTruth ==
  /\ alive \in BOOLEAN /\ spoilt \in BOOLEAN /\ unbacked \in BOOLEAN
  /\ stage # "idle" => alive
  /\ stage = "copying" => Readable(main)
  /\ stage = "copying" => unbacked
  /\ (~unbacked /\ bak # Missing) => (Readable(bak) /\ bak <= acked)
  /\ spoilt => main = Torn
  /\ main = Torn => spoilt
  /\ Readable(main) => main = acked
JsonInv == JsonShape /\ JsonTruth

\* It says what the runs check.
LEMMA JsonInvTells == JsonInv => JsonTypeOK /\ FileSurvives
<1> SUFFICES ASSUME JsonInv PROVE JsonTypeOK /\ FileSurvives
  OBVIOUS
<1>1. JsonTypeOK
  BY DEF JsonInv, JsonShape, JsonTruth, JsonTypeOK
<1>2. main = Torn <=> spoilt
  BY Zenon DEF JsonInv, JsonShape, JsonTruth
<1>3. FileSurvives
  BY <1>2 DEF JsonInv, JsonTruth, FileSurvives, ReadResult
<1> QED
  BY <1>1, <1>3

\* There is no file.
LEMMA JsonInitInv == JsonInit => JsonInv
<1> SUFFICES ASSUME JsonInit PROVE JsonInv
  OBVIOUS
<1>1. JsonShape
  BY JsonAssumption DEF JsonInit, JsonShape, JsonAssumption, Missing
<1>2. main # Torn
  BY JsonAssumption DEF JsonInit, JsonAssumption, Missing, Torn
<1>3. JsonTruth
  BY <1>2, Zenon DEF JsonInit, JsonTruth, Readable
<1> QED
  BY <1>1, <1>3 DEF JsonInv

\* Every step keeps the invariant.
LEMMA JsonNextInv == JsonInv /\ [JsonNext]_jsonVars => JsonInv'
<1> SUFFICES ASSUME JsonInv, [JsonNext]_jsonVars PROVE JsonInv'
  OBVIOUS
<1> USE JsonAssumption DEF JsonAssumption, JsonInv, JsonShape, JsonTruth
<1>1. CASE UNCHANGED jsonVars
  BY <1>1 DEF jsonVars, Readable, Missing, Torn
<1>2. CASE Ask
  BY <1>2 DEF Ask, Readable, Missing, Torn
<1>3. CASE WriteTmp
  BY <1>3 DEF WriteTmp, Readable, Missing, Torn
<1>4. CASE TmpWritten
  BY <1>4 DEF TmpWritten, Readable, Missing, Torn
<1>5. CASE Backup
  <2>1. JsonShape'
    BY <1>5 DEF Backup, Healthy, Missing, Torn
  <2>2. JsonTruth'
    <3>1. CASE Healthy
      BY <1>5, <3>1, Zenon DEF Backup, Healthy, Readable, Missing, Torn
    <3>2. CASE ~Healthy
      BY <1>5, <3>2, Zenon DEF Backup, Healthy, Readable, Missing, Torn
    <3> QED
      BY <3>1, <3>2
  <2> QED
    BY <2>1, <2>2
<1>6. CASE BackupEnds
  <2>1. JsonShape'
    <3>1. /\ stage = "copying" /\ stage' = "copied" /\ bak' \in {bak, main}
          /\ harm' \in {harm, harm + 1} /\ (harm' = harm \/ harm < MaxFaults)
          /\ UNCHANGED <<main, tmp, wanted, writing, acked>>
      BY <1>6, Zenon DEF BackupEnds, Fault
    <3> QED
      BY <3>1
  <2>2. main <= acked
    BY <1>6 DEF BackupEnds
  <2>3. JsonTruth'
    <3>1. CASE bak' = main /\ unbacked' = FALSE /\ UNCHANGED harm
      BY <1>6, <3>1, <2>2, Zenon DEF BackupEnds, Readable, Missing, Torn
    <3>2. CASE UNCHANGED <<bak, unbacked>>
      BY <1>6, <3>2, Zenon DEF BackupEnds, Readable, Missing, Torn
    <3> QED
      BY <1>6, <3>1, <3>2 DEF BackupEnds
  <2> QED
    BY <2>1, <2>3
<1>7. CASE Rename
  <2>1. JsonShape'
    BY <1>7 DEF Rename, Missing
  <2>2. writing # Missing /\ writing # Torn /\ (bak <= acked => bak <= writing)
    BY <1>7 DEF Rename, Missing, Torn
  <2>3. JsonTruth'
    BY <1>7, <2>2, Zenon DEF Rename, Readable, Missing, Torn
  <2> QED
    BY <2>1, <2>3
<1>8. CASE WriteThrows
  BY <1>8 DEF WriteThrows, Readable, Missing, Torn, Fault
<1>9. CASE KillWriter
  <2>1. JsonShape'
    BY <1>9 DEF KillWriter, Fault
  <2>2. JsonTruth'
    BY <1>9, Zenon DEF KillWriter, Readable, Missing, Torn
  <2> QED
    BY <2>1, <2>2
<1>10. CASE StartUp
  <2>0. stage = "idle"
    BY <1>10, Zenon DEF StartUp
  <2>1. JsonShape'
    BY <1>10, <2>0 DEF StartUp, Missing
  <2>2. JsonTruth'
    BY <1>10, Zenon DEF StartUp, Readable, Missing, Torn
  <2> QED
    BY <2>1, <2>2
<1>11. CASE Damage
  <2>1. JsonShape'
    BY <1>11 DEF Damage, Fault, Torn
  <2>2. Torn # Missing
    BY DEF Torn, Missing
  <2>3. JsonTruth'
    BY <1>11, <2>2, Zenon DEF Damage, Readable, Torn, Missing
  <2> QED
    BY <2>1, <2>3
<1> QED
  BY <1>1, <1>2, <1>3, <1>4, <1>5, <1>6, <1>7, <1>8, <1>9, <1>10, <1>11 DEF JsonNext

-----------------------------------------------------------------------------
(* The session file.                                                       *)

Snapshot == [alive : BOOLEAN, turns : 0 .. MaxCommits]

\* One snapshot is not newer than another: no turn less, and no deletion taken back.
Upto(a, b) == b.turns >= a.turns /\ (b.alive => a.alive)

SnapTypes ==
  /\ session \in Snapshot /\ saved \in Snapshot /\ snapWrites \in Seq(Snapshot)
  /\ process \in {"up", "stopping", "exited", "down"} /\ mishaps \in Nat

\* The file, the queue from its head on, and the memory: each is not newer than the next.
SnapOrder ==
  /\ Upto(saved, session)
  /\ \A i \in 1 .. Len(snapWrites) : Upto(saved, snapWrites[i]) /\ Upto(snapWrites[i], session)
  /\ \A i, j \in 1 .. Len(snapWrites) : i < j => Upto(snapWrites[i], snapWrites[j])

\* An orderly stop has asked for a write of what the memory holds, and nothing changes the
\* memory after that; behind the exit nothing is queued.
SnapEnds ==
  /\ process \in {"exited", "down"} => snapWrites = << >> /\ snapArmed = FALSE
  /\ (process \in {"stopping", "exited"} /\ mishaps = 0) =>
       IF snapWrites = << >> THEN saved = session ELSE snapWrites[Len(snapWrites)] = session

SnapInv == SnapTypes /\ SnapOrder /\ SnapEnds

\* The order of snapshots.
LEMMA UptoOrder ==
  ASSUME NEW a \in Snapshot, NEW b \in Snapshot, NEW c \in Snapshot
  PROVE  Upto(a, a) /\ (Upto(a, b) /\ Upto(b, c) => Upto(a, c))
  BY DEF Upto, Snapshot

\* A newer snapshot joins the queue, or the memory moves on.
LEMMA SnapPushed ==
  ASSUME SnapTypes, SnapOrder, NEW s \in Snapshot, Upto(session, s), session' = s,
         saved' = saved, snapWrites' \in {snapWrites, Append(snapWrites, s)}
  PROVE  SnapOrder' /\ snapWrites' \in Seq(Snapshot)
<1> USE DEF SnapTypes
<1>1. Upto(s, s) /\ Upto(saved, s)
  BY UptoOrder DEF SnapOrder
<1>2. \A i \in 1 .. Len(snapWrites) : snapWrites[i] \in Snapshot
  OBVIOUS
<1>3. \A i \in 1 .. Len(snapWrites) : Upto(snapWrites[i], s)
  BY <1>2, UptoOrder DEF SnapOrder
<1>4. CASE snapWrites' = snapWrites
  BY <1>1, <1>3, <1>4 DEF SnapOrder
<1>5. CASE snapWrites' = Append(snapWrites, s)
  <2> DEFINE w == Append(snapWrites, s)
  <2>1. w \in Seq(Snapshot) /\ Len(w) = Len(snapWrites) + 1 /\ Len(snapWrites) \in Nat
    OBVIOUS
  <2>2. \A i \in 1 .. Len(w) : w[i] = IF i = Len(snapWrites) + 1 THEN s ELSE snapWrites[i]
    OBVIOUS
  <2>3. snapWrites' = w
    BY <1>5
  <2> HIDE DEF w
  <2>4. \A i \in 1 .. Len(w) : Upto(saved, w[i]) /\ Upto(w[i], s)
    BY <1>1, <1>3, <2>1, <2>2 DEF SnapOrder
  <2>5. \A i, j \in 1 .. Len(w) : i < j => Upto(w[i], w[j])
    BY <1>3, <2>1, <2>2 DEF SnapOrder
  <2> QED
    BY <1>1, <2>1, <2>3, <2>4, <2>5 DEF SnapOrder
<1> QED
  BY <1>4, <1>5

\* The head of the queue is written or fails.
LEMMA SnapPopped ==
  ASSUME SnapTypes, SnapOrder, snapWrites # << >>, session' = session,
         saved' \in {saved, Head(snapWrites)}, snapWrites' = Tail(snapWrites)
  PROVE  /\ SnapOrder' /\ snapWrites' \in Seq(Snapshot) /\ saved' \in Snapshot
         /\ Upto(saved, saved')
         /\ snapWrites' = << >> => Head(snapWrites) = snapWrites[Len(snapWrites)]
         /\ snapWrites' # << >> => snapWrites'[Len(snapWrites')] = snapWrites[Len(snapWrites)]
<1> USE DEF SnapTypes
<1> DEFINE w == Tail(snapWrites)
<1>1. w \in Seq(Snapshot) /\ Len(w) + 1 = Len(snapWrites) /\ Len(w) \in Nat
  OBVIOUS
<1>2. \A i \in 1 .. Len(w) : w[i] = snapWrites[i + 1]
  OBVIOUS
<1>3. Head(snapWrites) = snapWrites[1] /\ snapWrites[1] \in Snapshot
  OBVIOUS
<1>4. snapWrites' = w /\ (w = << >> <=> Len(w) = 0)
  BY <1>1, EmptySeq
<1> HIDE DEF w
<1>5. \A i \in 1 .. Len(w) : Upto(saved, w[i]) /\ Upto(w[i], session) /\ Upto(snapWrites[1], w[i])
  BY <1>1, <1>2 DEF SnapOrder
<1>6. \A i, j \in 1 .. Len(w) : i < j => Upto(w[i], w[j])
  BY <1>1, <1>2 DEF SnapOrder
<1>7. Upto(saved, saved') /\ Upto(saved', session) /\ saved' \in Snapshot
  BY <1>1, <1>3, UptoOrder DEF SnapOrder
<1>8. \A i \in 1 .. Len(w) : Upto(saved', w[i])
  BY <1>3, <1>5
<1>9. SnapOrder'
  BY <1>4, <1>5, <1>6, <1>7, <1>8 DEF SnapOrder
<1>10. Len(w) # 0 => w[Len(w)] = snapWrites[Len(snapWrites)]
  BY <1>1, <1>2
<1>11. Len(w) = 0 => Head(snapWrites) = snapWrites[Len(snapWrites)]
  BY <1>1, <1>3
<1> QED
  BY <1>1, <1>4, <1>7, <1>9, <1>10, <1>11

\* The queue goes with the process.
LEMMA SnapDropped ==
  ASSUME SnapTypes, SnapOrder, session' \in {session, saved}, saved' = saved, snapWrites' = << >>
  PROVE  SnapOrder' /\ snapWrites' \in Seq(Snapshot)
<1>1. Upto(saved, session')
  BY UptoOrder DEF SnapTypes, SnapOrder
<1>2. Len(<< >>) = 0
  OBVIOUS
<1> QED
  BY <1>1, <1>2 DEF SnapOrder

\* A deletion changes the mark alone.
LEMMA Deleted ==
  ASSUME NEW x \in Snapshot
  PROVE  LET s == [x EXCEPT !.alive = FALSE]
         IN  s \in Snapshot /\ s.turns = x.turns /\ s.alive = FALSE
<1> DEFINE s == [x EXCEPT !.alive = FALSE]
<1>1. DOMAIN x = {"alive", "turns"}
  BY DEF Snapshot
<1>2. s.turns = x.turns
  BY <1>1
<1>3. s.alive = FALSE
  BY <1>1
<1>4. s \in Snapshot
  BY DEF Snapshot
<1> QED
  BY <1>2, <1>3, <1>4

\* The session starts with nothing written and nothing to write.
LEMMA SnapInitInv == StorageInit => SnapInv
<1> SUFFICES ASSUME StorageInit PROVE SnapInv
  OBVIOUS
<1>1. session \in Snapshot /\ saved = session /\ snapWrites = << >> /\ process = "up" /\ mishaps = 0
  BY StorageAssumption DEF StorageInit, Snapshot, StorageAssumption
<1>2. SnapTypes
  BY <1>1 DEF SnapTypes
<1>3. SnapOrder
  BY <1>1, UptoOrder DEF SnapOrder
<1>4. SnapEnds
  BY <1>1 DEF SnapEnds
<1> QED
  BY <1>2, <1>3, <1>4 DEF SnapInv

\* Every step keeps the invariant, and the file only moves forward.
LEMMA SnapNextInv ==
  SnapInv /\ [StorageNext]_storageVars => SnapInv' /\ Upto(saved, saved')
<1> SUFFICES ASSUME SnapInv, [StorageNext]_storageVars PROVE SnapInv' /\ Upto(saved, saved')
  OBVIOUS
<1> USE StorageAssumption DEF StorageAssumption
<1>0. SnapTypes /\ SnapOrder /\ SnapEnds /\ Upto(saved, saved)
  BY UptoOrder DEF SnapInv, SnapTypes
<1>1. ASSUME UNCHANGED <<session, saved, snapWrites, process>>, snapArmed' \in {snapArmed, FALSE}, mishaps' \in Nat,
             mishaps' >= mishaps
      PROVE  SnapInv' /\ Upto(saved, saved')
  <2>1. SnapTypes' /\ SnapOrder'
    BY <1>0, <1>1 DEF SnapTypes, SnapOrder
  <2>2. mishaps' = 0 => mishaps = 0
    BY <1>0, <1>1 DEF SnapTypes
  <2>3. SnapEnds'
    BY <1>0, <1>1, <2>2, Zenon DEF SnapEnds
  <2> QED
    BY <1>0, <1>1, <2>1, <2>3 DEF SnapInv
<1>2. ASSUME NEW s \in Snapshot, session' = s, Upto(session, s), saved' = saved, process' # "down", process' # "exited",
             snapWrites' = Append(snapWrites, s), process' \in {process, "stopping"}, mishaps' = mishaps
      PROVE  SnapInv' /\ Upto(saved, saved')
  <2>1. SnapOrder' /\ snapWrites' \in Seq(Snapshot)
    BY <1>0, <1>2, SnapPushed
  <2>2. SnapTypes'
    BY <1>0, <1>2, <2>1 DEF SnapTypes
  <2>3. snapWrites' # << >> /\ snapWrites'[Len(snapWrites')] = session'
    BY <1>0, <1>2 DEF SnapTypes
  <2>4. SnapEnds'
    BY <1>2, <2>2, <2>3 DEF SnapEnds, SnapTypes
  <2> QED
    BY <1>0, <1>2, <2>1, <2>2, <2>4 DEF SnapInv
<1>3. CASE UNCHANGED storageVars
  BY <1>0, <1>1, <1>3 DEF storageVars, snapshotVars, SnapTypes
<1>4. CASE TimerFires
  BY <1>0, <1>1, <1>4 DEF TimerFires, snapshotVars, SnapTypes
<1>5. CASE JournalWrite
  BY <1>0, <1>1, <1>5 DEF JournalWrite, snapshotVars, SnapTypes
<1>6. CASE SnapTimerFires
  <2>1. process # "exited"
    BY <1>0, <1>6 DEF SnapTimerFires, SnapEnds
  <2>2. session \in Snapshot /\ Upto(session, session)
    BY <1>0, UptoOrder DEF SnapTypes
  <2> QED
    BY <1>0, <1>2, <1>6, <2>1, <2>2 DEF SnapTimerFires, WriteSnapshot
<1>7. CASE SnapshotWrite
  <2>1. /\ SnapOrder' /\ snapWrites' \in Seq(Snapshot) /\ saved' \in Snapshot /\ Upto(saved, saved')
        /\ snapWrites' = << >> => Head(snapWrites) = snapWrites[Len(snapWrites)]
        /\ snapWrites' # << >> => snapWrites'[Len(snapWrites')] = snapWrites[Len(snapWrites)]
    BY <1>0, <1>7, SnapPopped DEF SnapshotWrite
  <2>2. SnapTypes'
    BY <1>0, <1>7, <2>1 DEF SnapTypes, SnapshotWrite
  <2>3. process # "exited" /\ process # "down" /\ process' = process /\ mishaps' = mishaps
        /\ session' = session /\ snapWrites # << >> /\ saved' = Head(snapWrites)
    BY <1>0, <1>7 DEF SnapEnds, SnapshotWrite
  <2>4. SnapEnds'
    BY <1>0, <2>1, <2>3, Zenon DEF SnapEnds
  <2> QED
    BY <2>1, <2>2, <2>4 DEF SnapInv
<1>8. CASE Trace
  BY <1>0, <1>1, <1>8 DEF Trace, snapshotVars, SnapTypes
<1>9. CASE CommitTurn
  <2>1. session' \in Snapshot /\ Upto(session, session')
    BY <1>0, <1>9 DEF CommitTurn, Snapshot, SnapTypes, Upto
  <2>2. SnapOrder' /\ snapWrites' \in Seq(Snapshot)
    BY <1>0, <1>9, <2>1, SnapPushed DEF CommitTurn
  <2>3. SnapTypes'
    BY <1>0, <1>9, <2>1, <2>2 DEF SnapTypes, CommitTurn
  <2>4. process' = "up"
    BY <1>9 DEF CommitTurn
  <2>5. SnapEnds'
    BY <2>4 DEF SnapEnds
  <2> QED
    BY <1>0, <1>9, <2>2, <2>3, <2>5 DEF SnapInv, CommitTurn
<1>10. CASE TurnEnds
  <2>1. session \in Snapshot /\ Upto(session, session)
    BY <1>0, UptoOrder DEF SnapTypes
  <2> QED
    BY <1>0, <1>2, <1>10, <2>1 DEF TurnEnds, FlushBoth, WriteSnapshot
<1>11. CASE DeleteSession
  <2> DEFINE s == [session EXCEPT !.alive = FALSE]
  <2>0. s \in Snapshot /\ s.turns = session.turns /\ s.alive = FALSE
    BY <1>0, Deleted DEF SnapTypes
  <2>1. s \in Snapshot /\ Upto(session, s)
    <3> HIDE DEF s
    <3> QED
      BY <1>0, <2>0 DEF Snapshot, SnapTypes, Upto
  <2>2. session' = s /\ snapWrites' = Append(snapWrites, s)
    BY <1>11 DEF DeleteSession, WriteSnapshot
  <2> HIDE DEF s
  <2> QED
    BY <1>0, <1>2, <1>11, <2>1, <2>2 DEF DeleteSession
<1>12. ASSUME NEW r \in Readers, Read(r) PROVE SnapInv' /\ Upto(saved, saved')
  BY <1>0, <1>1, <1>12 DEF Read, snapshotVars, SnapTypes
<1>13. ASSUME NEW r \in Readers, ReadLines(r) PROVE SnapInv' /\ Upto(saved, saved')
  BY <1>0, <1>1, <1>13 DEF ReadLines, snapshotVars, SnapTypes
<1>14. CASE JournalFails
  BY <1>0, <1>1, <1>14 DEF JournalFails, snapshotVars, SnapTypes
<1>15. CASE SnapshotFails
  <2>1. /\ SnapOrder' /\ snapWrites' \in Seq(Snapshot) /\ saved' \in Snapshot /\ Upto(saved, saved')
    BY <1>0, <1>15, SnapPopped DEF SnapshotFails
  <2>2. SnapTypes' /\ mishaps' # 0
    BY <1>0, <1>15, <2>1 DEF SnapTypes, SnapshotFails
  <2>3. process # "exited" /\ process # "down" /\ process' = process
    BY <1>0, <1>15 DEF SnapEnds, SnapshotFails
  <2>4. SnapEnds'
    BY <2>2, <2>3 DEF SnapEnds
  <2> QED
    BY <2>1, <2>2, <2>4 DEF SnapInv
<1>16. CASE Shutdown
  <2>1. session \in Snapshot /\ Upto(session, session)
    BY <1>0, UptoOrder DEF SnapTypes
  <2> QED
    BY <1>0, <1>2, <1>16, <2>1 DEF Shutdown, FlushBoth, WriteSnapshot
<1>17. ASSUME process' \in {"exited", "down"}, Interrupted, mishaps' \in Nat, mishaps' >= mishaps,
              (process' = "exited" /\ mishaps' = 0) => saved = session
       PROVE  SnapInv' /\ Upto(saved, saved')
  <2>1. session' = session /\ saved' = saved /\ snapWrites' = << >> /\ snapArmed' = FALSE
    BY <1>17 DEF Interrupted
  <2>2. SnapOrder' /\ snapWrites' \in Seq(Snapshot)
    BY <1>0, <2>1, SnapDropped
  <2>3. SnapTypes'
    BY <1>0, <1>17, <2>1, <2>2 DEF SnapTypes
  <2>4. SnapEnds'
    BY <1>17, <2>1 DEF SnapEnds
  <2> QED
    BY <1>0, <2>1, <2>2, <2>3, <2>4 DEF SnapInv
<1>18. CASE Exit
  <2>1. process' = "exited" /\ Interrupted /\ process = "stopping" /\ snapWrites = << >>
    BY <1>18 DEF Exit
  <2>2. mishaps' \in {mishaps, mishaps + 1}
    BY <1>18 DEF Exit
  <2>3. mishaps' \in Nat /\ mishaps' >= mishaps /\ (mishaps' = 0 => mishaps = 0)
    BY <1>0, <2>2 DEF SnapTypes
  <2>4. mishaps = 0 => saved = session
    BY <1>0, <2>1 DEF SnapEnds
  <2> QED
    BY <1>17, <2>1, <2>3, <2>4
<1>19. CASE Kill
  <2>1. process' = "down" /\ Interrupted /\ mishaps' = mishaps + 1
    BY <1>19 DEF Kill
  <2>2. mishaps' \in Nat /\ mishaps' >= mishaps
    BY <1>0, <2>1 DEF SnapTypes
  <2> QED
    BY <1>17, <2>1, <2>2
<1>20. CASE Start
  <2>1. process' = "up" /\ session' = saved /\ saved' = saved /\ snapWrites' = << >> /\ mishaps' = mishaps
    BY <1>0, <1>20 DEF Start, SnapEnds
  <2>2. SnapOrder' /\ snapWrites' \in Seq(Snapshot)
    BY <1>0, <2>1, SnapDropped
  <2>3. SnapTypes'
    BY <1>0, <2>1, <2>2 DEF SnapTypes
  <2>4. SnapEnds'
    BY <2>1 DEF SnapEnds
  <2> QED
    BY <1>0, <2>1, <2>2, <2>3, <2>4 DEF SnapInv
<1> QED
  BY <1>3, <1>4, <1>5, <1>6, <1>7, <1>8, <1>9, <1>10, <1>11, <1>12, <1>13, <1>14, <1>15, <1>16,
     <1>18, <1>19, <1>20 DEF StorageNext, StorageWork

-----------------------------------------------------------------------------
(* The journal.                                                            *)

TraceLines == Seq(Record)
Queue == Seq([batch : Nat, lines : TraceLines])
InQueue(w, x) == \E i \in 1 .. Len(w) : x \in Numbers(w[i].lines)

\* The pieces of the trail are in order, and each precedes the next.
Ordered(p, w, j) ==
  /\ InOrder(j) /\ InOrder(p) /\ Precede(j, p)
  /\ \A i \in 1 .. Len(w) :
       InOrder(w[i].lines) /\ Precede(j, w[i].lines) /\ Precede(w[i].lines, p)
  /\ \A i, k \in 1 .. Len(w) : i < k => Precede(w[i].lines, w[k].lines)

\* What was accepted is in the trail or lost, and nothing is both.
Accounted(p, w, j, a, l) ==
  /\ Numbers(j) \subseteq (1 .. a) \ l /\ Numbers(p) \subseteq (1 .. a) \ l
  /\ \A i \in 1 .. Len(w) : Numbers(w[i].lines) \subseteq (1 .. a) \ l
  /\ \A x \in (1 .. a) \ l : x \in Numbers(j) \/ x \in Numbers(p) \/ InQueue(w, x)

\* The batches in the queue were handed over in their order; a rewrite has no lines.
Batched(w, n) ==
  /\ \A i \in 1 .. Len(w) : w[i].batch <= n /\ (w[i].batch = 0 => w[i].lines = << >>)
  /\ \A i, k \in 1 .. Len(w) : i < k /\ w[k].batch # 0 => w[i].batch < w[k].batch

\* A read that waits for its batch: what is pending or handed over behind the batch came
\* after the read, and when the batch has left the queue, so have those before it.
Waits(b, d, p, w, a, n) ==
  /\ d <= a /\ b <= n
  /\ \A x \in Numbers(p) : d < x
  /\ \A i \in 1 .. Len(w) : b < w[i].batch => \A x \in Numbers(w[i].lines) : d < x
  /\ \/ \E i \in 1 .. Len(w) : w[i].batch = b
     \/ \A i \in 1 .. Len(w) : w[i].batch # 0 => b < w[i].batch

Reading(rd, p, w, a, l, n) ==
  /\ rd.at = "flushing" /\ rd.batch # 0 => Waits(rd.batch, rd.due, p, w, a, n)
  /\ rd.at = "done" /\ rd.batch # 0 => rd.due <= a /\ (1 .. rd.due) \ l \subseteq rd.got

\* The session is deleted and nothing has failed: the rewrite is the last write.
Cleared ==
  /\ process = "down" => mishaps # 0
  /\ ~session.alive /\ mishaps = 0 =>
       /\ pending = << >> /\ ~armed
       /\ writes = << >> => journal = << >>
       /\ writes # << >> => writes[Len(writes)] = Clear

ReadState == [at : {"idle", "flushing", "done"}, batch : Nat, due : Nat, got : SUBSET Nat]

-----------------------------------------------------------------------------
(* The numbers of some lines.                                              *)

\* A number is that of one of the lines.
LEMMA NumberAt ==
  ASSUME NEW s \in TraceLines, NEW x
  PROVE  x \in Numbers(s) <=> \E i \in 1 .. Len(s) : s[i].nr = x
  BY DEF Numbers, TraceLines, Range

\* Numbers are positive, and none without lines.
LEMMA NumbersOf ==
  ASSUME NEW s \in TraceLines
  PROVE  Numbers(s) \subseteq 1 .. MaxRecords /\ (s = << >> => Numbers(s) = {})
<1>1. \A i \in 1 .. Len(s) : s[i].nr \in 1 .. MaxRecords
  <2>1. \A i \in 1 .. Len(s) : s[i] \in Record
    BY DEF TraceLines
  <2> QED
    BY <2>1 DEF Record
<1>2. Numbers(s) \subseteq 1 .. MaxRecords
  BY <1>1, NumberAt
<1>3. ASSUME s = << >> PROVE Numbers(s) = {}
  <2>1. Len(s) = 0
    BY <1>3
  <2> QED
    BY <2>1, NumberAt
<1> QED
  BY <1>2, <1>3

\* One more line behind.
LEMMA NumbersAppend ==
  ASSUME NEW s \in TraceLines, NEW e \in Record, NEW t, t = Append(s, e)
  PROVE  /\ t \in TraceLines
         /\ \A x : x \in Numbers(t) <=> x \in Numbers(s) \/ x = e.nr
         /\ (InOrder(s) /\ \A x \in Numbers(s) : x < e.nr) => InOrder(t)
<1>1. t \in TraceLines /\ Len(t) = Len(s) + 1 /\ Len(s) \in Nat
  BY DEF TraceLines
<1>2. \A i \in 1 .. Len(t) : t[i] = IF i = Len(s) + 1 THEN e ELSE s[i]
  BY DEF TraceLines
<1>3. ASSUME NEW x PROVE x \in Numbers(t) <=> x \in Numbers(s) \/ x = e.nr
  <2>1. ASSUME x \in Numbers(t) PROVE x \in Numbers(s) \/ x = e.nr
    <3>1. PICK i \in 1 .. Len(t) : t[i].nr = x
      BY <1>1, <2>1, NumberAt
    <3>2. CASE i \in 1 .. Len(s)
      BY <1>1, <1>2, <3>1, <3>2, NumberAt
    <3>3. CASE i \notin 1 .. Len(s)
      BY <1>1, <1>2, <3>1, <3>3
    <3> QED
      BY <3>2, <3>3
  <2>2. ASSUME x \in Numbers(s) PROVE x \in Numbers(t)
    <3>1. PICK i \in 1 .. Len(s) : s[i].nr = x
      BY <2>2, NumberAt
    <3>2. i \in 1 .. Len(t) /\ t[i].nr = x
      BY <1>1, <1>2, <3>1
    <3> QED
      BY <1>1, <3>2, NumberAt
  <2>3. ASSUME x = e.nr PROVE x \in Numbers(t)
    <3>1. Len(t) \in 1 .. Len(t) /\ t[Len(t)].nr = x
      BY <1>1, <1>2, <2>3
    <3> QED
      BY <1>1, <3>1, NumberAt
  <2> QED
    BY <2>1, <2>2, <2>3
<1>4. ASSUME InOrder(s), \A x \in Numbers(s) : x < e.nr PROVE InOrder(t)
  <2>1. DOMAIN s = 1 .. Len(s) /\ DOMAIN t = 1 .. Len(t)
    BY <1>1 DEF TraceLines
  <2>2. \A i \in 1 .. Len(s) : s[i].nr < e.nr
    BY <1>4, NumberAt
  <2> QED
    BY <1>1, <1>2, <1>4, <2>1, <2>2 DEF InOrder
<1> QED
  BY <1>1, <1>3, <1>4

\* Lines behind lines.
LEMMA NumbersConcat ==
  ASSUME NEW s \in TraceLines, NEW t \in TraceLines, NEW u, u = s \o t
  PROVE  /\ u \in TraceLines
         /\ \A x : x \in Numbers(u) <=> x \in Numbers(s) \/ x \in Numbers(t)
         /\ (InOrder(s) /\ InOrder(t) /\ Precede(s, t)) => InOrder(u)
<1>1. u \in TraceLines /\ Len(u) = Len(s) + Len(t) /\ Len(s) \in Nat /\ Len(t) \in Nat
  BY DEF TraceLines
<1>2. \A i \in 1 .. Len(u) : u[i] = IF i <= Len(s) THEN s[i] ELSE t[i - Len(s)]
  BY <1>1, ConcatProperties DEF TraceLines
<1>3. ASSUME NEW x PROVE x \in Numbers(u) <=> x \in Numbers(s) \/ x \in Numbers(t)
  <2>1. ASSUME x \in Numbers(u) PROVE x \in Numbers(s) \/ x \in Numbers(t)
    <3>1. PICK i \in 1 .. Len(u) : u[i].nr = x
      BY <1>1, <2>1, NumberAt
    <3>2. CASE i <= Len(s)
      BY <1>1, <1>2, <3>1, <3>2, NumberAt
    <3>3. CASE ~(i <= Len(s))
      <4>1. i - Len(s) \in 1 .. Len(t) /\ t[i - Len(s)].nr = x
        BY <1>1, <1>2, <3>1, <3>3
      <4> QED
        BY <4>1, NumberAt
    <3> QED
      BY <3>2, <3>3
  <2>2. ASSUME x \in Numbers(s) PROVE x \in Numbers(u)
    <3>1. PICK i \in 1 .. Len(s) : s[i].nr = x
      BY <2>2, NumberAt
    <3>2. i \in 1 .. Len(u) /\ u[i].nr = x
      BY <1>1, <1>2, <3>1
    <3> QED
      BY <1>1, <3>2, NumberAt
  <2>3. ASSUME x \in Numbers(t) PROVE x \in Numbers(u)
    <3>1. PICK i \in 1 .. Len(t) : t[i].nr = x
      BY <2>3, NumberAt
    <3>2. Len(s) + i \in 1 .. Len(u) /\ u[Len(s) + i].nr = x
      BY <1>1, <1>2, <3>1
    <3> QED
      BY <1>1, <3>2, NumberAt
  <2> QED
    BY <2>1, <2>2, <2>3
<1>4. ASSUME InOrder(s), InOrder(t), Precede(s, t) PROVE InOrder(u)
  <2>1. DOMAIN s = 1 .. Len(s) /\ DOMAIN t = 1 .. Len(t) /\ DOMAIN u = 1 .. Len(u)
    BY <1>1 DEF TraceLines
  <2>2. \A i \in 1 .. Len(s), k \in 1 .. Len(t) : s[i].nr < t[k].nr
    BY <1>4, NumberAt DEF Precede
  <2>3. SUFFICES ASSUME NEW i \in 1 .. Len(u), NEW k \in 1 .. Len(u), i < k PROVE u[i].nr < u[k].nr
    BY <2>1 DEF InOrder
  <2>4. CASE k <= Len(s)
    BY <1>1, <1>2, <1>4, <2>1, <2>3, <2>4 DEF InOrder
  <2>5. CASE i <= Len(s) /\ ~(k <= Len(s))
    <3>1. k - Len(s) \in 1 .. Len(t) /\ u[k] = t[k - Len(s)] /\ i \in 1 .. Len(s) /\ u[i] = s[i]
      BY <1>1, <1>2, <2>3, <2>5
    <3> QED
      BY <2>2, <3>1
  <2>6. CASE ~(i <= Len(s))
    <3>1. /\ k - Len(s) \in 1 .. Len(t) /\ i - Len(s) \in 1 .. Len(t) /\ i - Len(s) < k - Len(s)
          /\ u[k] = t[k - Len(s)] /\ u[i] = t[i - Len(s)]
      BY <1>1, <1>2, <2>3, <2>6
    <3> QED
      BY <1>4, <2>1, <3>1 DEF InOrder
  <2> QED
    BY <1>1, <2>3, <2>4, <2>5, <2>6
<1> QED
  BY <1>1, <1>3, <1>4

\* Lines without their first.
LEMMA NumbersTail ==
  ASSUME NEW s \in TraceLines, s # << >>, NEW t, t = Tail(s)
  PROVE  /\ t \in TraceLines /\ Head(s).nr \in Numbers(s)
         /\ \A x : x \in Numbers(s) <=> x \in Numbers(t) \/ x = Head(s).nr
         /\ InOrder(s) => InOrder(t) /\ \A x \in Numbers(t) : Head(s).nr < x
<1>1. t \in TraceLines /\ Len(s) = Len(t) + 1 /\ Len(t) \in Nat /\ Head(s) = s[1]
  BY DEF TraceLines
<1>2. \A i \in 1 .. Len(t) : t[i] = s[i + 1]
  BY DEF TraceLines
<1>3. \A x : x \in Numbers(t) => x \in Numbers(s)
  <2> SUFFICES ASSUME NEW x, x \in Numbers(t) PROVE x \in Numbers(s)
    OBVIOUS
  <2>1. PICK i \in 1 .. Len(t) : t[i].nr = x
    BY <1>1, NumberAt
  <2>2. i + 1 \in 1 .. Len(s) /\ s[i + 1].nr = x
    BY <1>1, <1>2, <2>1
  <2> QED
    BY <2>2, NumberAt
<1>4. Head(s).nr \in Numbers(s)
  <2>1. 1 \in 1 .. Len(s) /\ s[1].nr = Head(s).nr
    BY <1>1
  <2> QED
    BY <2>1, NumberAt
<1>5. \A x : x \in Numbers(s) => x \in Numbers(t) \/ x = Head(s).nr
  <2> SUFFICES ASSUME NEW x, x \in Numbers(s) PROVE x \in Numbers(t) \/ x = Head(s).nr
    OBVIOUS
  <2>1. PICK i \in 1 .. Len(s) : s[i].nr = x
    BY NumberAt
  <2>2. CASE i = 1
    BY <1>1, <2>1, <2>2
  <2>3. CASE i # 1
    <3>1. i - 1 \in 1 .. Len(t) /\ t[i - 1].nr = x
      BY <1>1, <1>2, <2>1, <2>3
    <3> QED
      BY <1>1, <3>1, NumberAt
  <2> QED
    BY <2>2, <2>3
<1>6. ASSUME InOrder(s) PROVE InOrder(t) /\ \A x \in Numbers(t) : Head(s).nr < x
  <2>1. DOMAIN s = 1 .. Len(s) /\ DOMAIN t = 1 .. Len(t)
    BY <1>1 DEF TraceLines
  <2>2. \A i, k \in 1 .. Len(t) : i < k => t[i].nr < t[k].nr
    BY <1>1, <1>2, <1>6, <2>1 DEF InOrder
  <2>3. \A i \in 1 .. Len(t) : Head(s).nr < t[i].nr
    BY <1>1, <1>2, <1>6, <2>1 DEF InOrder
  <2>4. \A x \in Numbers(t) : Head(s).nr < x
    BY <1>1, <2>3, NumberAt
  <2> QED
    BY <2>1, <2>2, <2>4 DEF InOrder
<1> QED
  BY <1>1, <1>3, <1>4, <1>5, <1>6

\* The first few lines.
LEMMA NumbersPrefix ==
  ASSUME NEW s \in TraceLines, NEW k \in 0 .. Len(s), NEW t, t = SubSeq(s, 1, k)
  PROVE  /\ t \in TraceLines /\ Numbers(t) \subseteq Numbers(s)
         /\ InOrder(s) => InOrder(t)
<1>1. t \in TraceLines /\ Len(t) = k /\ Len(s) \in Nat
  BY DEF TraceLines
<1>2. \A i \in 1 .. Len(t) : t[i] = s[i]
  BY DEF TraceLines
<1>3. ASSUME NEW x \in Numbers(t) PROVE x \in Numbers(s)
  <2>1. PICK i \in 1 .. Len(t) : t[i].nr = x
    BY <1>1, <1>3, NumberAt
  <2>2. i \in 1 .. Len(s) /\ s[i].nr = x
    BY <1>1, <1>2, <2>1
  <2> QED
    BY <2>2, NumberAt
<1>4. DOMAIN s = 1 .. Len(s) /\ DOMAIN t = 1 .. Len(t)
  BY <1>1 DEF TraceLines
<1> QED
  BY <1>1, <1>2, <1>3, <1>4 DEF InOrder

\* What a write leaves on disk: the old lines and the new ones, but for one that is glued to
\* part of a line.
LEMMA WrittenLines ==
  ASSUME NEW s \in TraceLines, journal \in TraceLines,
         InOrder(journal), InOrder(s), Precede(journal, s)
  PROVE  /\ Written(s) \in TraceLines /\ InOrder(Written(s))
         /\ \A x : x \in Numbers(Written(s)) \/ x \in Glued(s) <=> x \in Numbers(journal) \/ x \in Numbers(s)
         /\ \A x : ~(x \in Numbers(Written(s)) /\ x \in Glued(s))
<1>1. CASE torn /\ s # << >>
  <2> DEFINE t == Tail(s)
             u == journal \o t
  <2>1. Written(s) = u /\ Glued(s) = {Head(s).nr}
    BY <1>1 DEF Written, Glued
  <2>2. /\ t \in TraceLines /\ Head(s).nr \in Numbers(s)
        /\ \A x : x \in Numbers(s) <=> x \in Numbers(t) \/ x = Head(s).nr
        /\ InOrder(t) /\ \A x \in Numbers(t) : Head(s).nr < x
    BY <1>1, NumbersTail
  <2> HIDE DEF t
  <2>3. Precede(journal, t)
    BY <2>2 DEF Precede
  <2>4. u \in TraceLines /\ InOrder(u) /\ \A x : x \in Numbers(u) <=> x \in Numbers(journal) \/ x \in Numbers(t)
    BY <2>2, <2>3, NumbersConcat
  <2> HIDE DEF u
  <2>5. Head(s).nr \in 1 .. MaxRecords
    BY <2>2, NumbersOf
  <2>6. Head(s).nr \notin Numbers(journal) /\ Head(s).nr \notin Numbers(t)
    BY <2>2, <2>5 DEF Precede
  <2> QED
    BY <2>1, <2>2, <2>4, <2>6
<1>2. CASE ~(torn /\ s # << >>)
  <2> DEFINE u == journal \o s
  <2>1. Written(s) = u /\ Glued(s) = {}
    BY <1>2 DEF Written, Glued
  <2>2. u \in TraceLines /\ InOrder(u) /\ \A x : x \in Numbers(u) <=> x \in Numbers(journal) \/ x \in Numbers(s)
    BY NumbersConcat
  <2> HIDE DEF u
  <2> QED
    BY <2>1, <2>2
<1> QED
  BY <1>1, <1>2

-----------------------------------------------------------------------------
(* What a step does to the trail.                                          *)

Trail(p, w, j, a, l, n) ==
  /\ Ordered(p, w, j) /\ Accounted(p, w, j, a, l) /\ Batched(w, n)

\* A write of the queue.
LEMMA QueueAt ==
  ASSUME NEW w \in Queue, NEW i \in 1 .. Len(w)
  PROVE  w[i].batch \in Nat /\ w[i].lines \in TraceLines
<1>1. w[i] \in [batch : Nat, lines : TraceLines]
  BY ElementOfSeq, Zenon DEF Queue
<1> QED
  BY <1>1

Joined(v, w, h) ==
  /\ v \in Queue /\ Len(w) \in Nat /\ Len(v) = Len(w) + 1
  /\ \A i \in 1 .. Len(w) : v[i] = w[i]
  /\ v[Len(w) + 1] = h
  /\ \A x : InQueue(v, x) <=> InQueue(w, x) \/ x \in Numbers(h.lines)

\* One more write behind.
LEMMA QueueAppend ==
  ASSUME NEW w \in Queue, NEW h \in [batch : Nat, lines : TraceLines], NEW v, v = Append(w, h)
  PROVE  Joined(v, w, h)
<1>1. v \in Queue /\ Len(v) = Len(w) + 1 /\ Len(w) \in Nat
  BY DEF Queue
<1>2. \A i \in 1 .. Len(v) : v[i] = IF i = Len(w) + 1 THEN h ELSE w[i]
  BY DEF Queue
<1>3. /\ \A i \in 1 .. Len(w) : v[i] = w[i]
      /\ v[Len(w) + 1] = h
  BY <1>1, <1>2
<1>4. ASSUME NEW x PROVE InQueue(v, x) <=> InQueue(w, x) \/ x \in Numbers(h.lines)
  <2>1. ASSUME InQueue(v, x) PROVE InQueue(w, x) \/ x \in Numbers(h.lines)
    <3>1. PICK i \in 1 .. Len(v) : x \in Numbers(v[i].lines)
      BY <2>1 DEF InQueue
    <3>2. i \in 1 .. Len(w) \/ i = Len(w) + 1
      BY <1>1, <3>1
    <3> QED
      BY <1>3, <3>1, <3>2 DEF InQueue
  <2>2. ASSUME InQueue(w, x) PROVE InQueue(v, x)
    <3>1. PICK i \in 1 .. Len(w) : x \in Numbers(w[i].lines)
      BY <2>2 DEF InQueue
    <3>2. i \in 1 .. Len(v)
      BY <1>1, <3>1
    <3> QED
      BY <1>3, <3>1, <3>2 DEF InQueue
  <2>3. ASSUME x \in Numbers(h.lines) PROVE InQueue(v, x)
    <3>1. Len(w) + 1 \in 1 .. Len(v)
      BY <1>1
    <3> QED
      BY <1>3, <2>3, <3>1 DEF InQueue
  <2> QED
    BY <2>1, <2>2, <2>3
<1> QED
  BY <1>1, <1>3, <1>4 DEF Joined

\* The queue without its head.
LEMMA QueueTail ==
  ASSUME NEW w \in Queue, w # << >>, NEW v, v = Tail(w)
  PROVE  /\ v \in Queue /\ Len(v) \in Nat /\ Len(w) = Len(v) + 1 /\ Head(w) = w[1]
         /\ \A i \in 1 .. Len(v) : v[i] = w[i + 1]
         /\ \A x : InQueue(w, x) <=> InQueue(v, x) \/ x \in Numbers(Head(w).lines)
<1>1. v \in Queue /\ Len(w) = Len(v) + 1 /\ Len(v) \in Nat /\ Head(w) = w[1]
  BY DEF Queue
<1>2. \A i \in 1 .. Len(v) : v[i] = w[i + 1]
  BY DEF Queue
<1>3. ASSUME NEW x PROVE InQueue(w, x) <=> InQueue(v, x) \/ x \in Numbers(Head(w).lines)
  <2>1. ASSUME InQueue(w, x) PROVE InQueue(v, x) \/ x \in Numbers(Head(w).lines)
    <3>1. PICK i \in 1 .. Len(w) : x \in Numbers(w[i].lines)
      BY <2>1 DEF InQueue
    <3>2. CASE i = 1
      BY <1>1, <3>1, <3>2
    <3>3. CASE i # 1
      <4>1. i - 1 \in 1 .. Len(v) /\ v[i - 1] = w[i]
        BY <1>1, <1>2, <3>1, <3>3
      <4> QED
        BY <3>1, <4>1 DEF InQueue
    <3> QED
      BY <3>2, <3>3
  <2>2. ASSUME InQueue(v, x) PROVE InQueue(w, x)
    <3>1. PICK i \in 1 .. Len(v) : x \in Numbers(v[i].lines)
      BY <2>2 DEF InQueue
    <3>2. i + 1 \in 1 .. Len(w)
      BY <1>1, <3>1
    <3> QED
      BY <1>2, <3>1, <3>2 DEF InQueue
  <2>3. ASSUME x \in Numbers(Head(w).lines) PROVE InQueue(w, x)
    <3>1. 1 \in 1 .. Len(w)
      BY <1>1
    <3> QED
      BY <1>1, <2>3, <3>1 DEF InQueue
  <2> QED
    BY <2>1, <2>2, <2>3
<1> QED
  BY <1>1, <1>2, <1>3

Packs(h, p, n, m) ==
  \/ h.batch = n + 1 /\ m = n + 1 /\ h.lines = p
  \/ h.batch = 0 /\ m = n /\ h.lines = << >>

Drops(k, l, p, h) ==
  /\ l \subseteq k /\ \A x \in k : x \in l \/ (x \in Numbers(p) /\ x \notin Numbers(h.lines))
  /\ \A x \in Numbers(p) : x \in Numbers(h.lines) \/ x \in k

\* The pending lines are handed over, or dropped behind a rewrite.
LEMMA TrailPushed ==
  ASSUME NEW p \in TraceLines, NEW w \in Queue, NEW j \in TraceLines, NEW a \in Nat, NEW l,
         NEW n \in Nat, NEW m \in Nat, Trail(p, w, j, a, l, n),
         NEW h \in [batch : Nat, lines : TraceLines],
         Packs(h, p, n, m),
         NEW k, Drops(k, l, p, h), NEW v, Joined(v, w, h)
  PROVE  /\ Trail(<< >>, v, j, a, k, m)
         /\ \A b, d \in Nat : Waits(b, d, p, w, a, n) => Waits(b, d, << >>, v, a, m)
<1> DEFINE g == Numbers(p) \ Numbers(h.lines)
<1> USE DEF Packs
<1>0. << >> \in TraceLines /\ Numbers(<< >>) = {} /\ InOrder(<< >>)
  <2>1. << >> \in TraceLines
    BY DEF TraceLines
  <2> QED
    BY <2>1, NumbersOf DEF InOrder
<1>1. /\ v \in Queue /\ Len(w) \in Nat /\ Len(v) = Len(w) + 1
      /\ \A i \in 1 .. Len(w) : v[i] = w[i]
      /\ v[Len(w) + 1] = h
      /\ \A x : InQueue(v, x) <=> InQueue(w, x) \/ x \in Numbers(h.lines)
  BY DEF Joined
<1>2. InOrder(h.lines) /\ Numbers(h.lines) \subseteq Numbers(p) /\ (h.batch = 0 => h.lines = << >>)
  BY <1>0 DEF Trail, Ordered
<1>3. \A i \in 1 .. Len(v) : i \in 1 .. Len(w) \/ i = Len(w) + 1
  BY <1>1
<1>4. Ordered(<< >>, v, j)
  <2>1. Precede(j, << >>) /\ Precede(j, h.lines) /\ \A i \in 1 .. Len(v) : Precede(v[i].lines, << >>)
    BY <1>0, <1>2 DEF Precede, Trail, Ordered
  <2>2. \A i \in 1 .. Len(v) : InOrder(v[i].lines) /\ Precede(j, v[i].lines)
    BY <1>1, <1>2, <1>3, <2>1 DEF Trail, Ordered
  <2>3. \A i \in 1 .. Len(w) : Precede(w[i].lines, h.lines)
    BY <1>2 DEF Precede, Trail, Ordered
  <2>4. ASSUME NEW i \in 1 .. Len(v), NEW o \in 1 .. Len(v), i < o PROVE Precede(v[i].lines, v[o].lines)
    <3>1. i \in 1 .. Len(w)
      BY <1>1, <2>4
    <3>2. CASE o \in 1 .. Len(w)
      BY <1>1, <2>4, <3>1, <3>2 DEF Trail, Ordered
    <3>3. CASE o = Len(w) + 1
      BY <1>1, <2>3, <3>1, <3>3
    <3> QED
      BY <1>3, <3>2, <3>3
  <2> QED
    BY <1>0, <2>1, <2>2, <2>4 DEF Trail, Ordered
<1>5. Accounted(<< >>, v, j, a, k)
  <2>0. k = l \cup g
    BY DEF Drops
  <2>1. /\ Numbers(j) \subseteq (1 .. a) \ l /\ Numbers(p) \subseteq (1 .. a) \ l
        /\ \A i \in 1 .. Len(w) : Numbers(w[i].lines) \subseteq (1 .. a) \ l
    BY DEF Trail, Accounted
  <2>2. \A x \in g : x \in Numbers(p) /\ x \notin Numbers(h.lines) /\ x \in 1 .. a
    BY <2>1
  <2>3. Numbers(j) \cap g = {} /\ \A i \in 1 .. Len(w) : Numbers(w[i].lines) \cap g = {}
    <3>1. \A x \in 1 .. a : ~(x < x)
      OBVIOUS
    <3>2. \A x \in g : x \notin Numbers(j)
      BY <2>2, <3>1 DEF Trail, Ordered, Precede
    <3>3. \A i \in 1 .. Len(w) : \A x \in g : x \notin Numbers(w[i].lines)
      BY <2>2, <3>1 DEF Trail, Ordered, Precede
    <3> QED
      BY <3>2, <3>3, Zenon
  <2>4. \A i \in 1 .. Len(v) : Numbers(v[i].lines) \subseteq (1 .. a) \ (l \cup g)
    BY <1>1, <1>2, <1>3, <2>1, <2>2, <2>3
  <2>5. \A x \in (1 .. a) \ (l \cup g) : x \in Numbers(j) \/ InQueue(v, x)
    BY <1>1 DEF Trail, Accounted
  <2> QED
    BY <1>0, <2>0, <2>1, <2>3, <2>4, <2>5 DEF Accounted
<1>6. Batched(v, m)
  <2>1. \A i \in 1 .. Len(v) : v[i].batch <= m /\ (v[i].batch = 0 => v[i].lines = << >>)
    BY <1>1, <1>2, <1>3, QueueAt DEF Trail, Batched
  <2>2. ASSUME NEW i \in 1 .. Len(v), NEW o \in 1 .. Len(v), i < o, v[o].batch # 0
        PROVE  v[i].batch < v[o].batch
    <3>1. i \in 1 .. Len(w)
      BY <1>1, <2>2
    <3>2. CASE o \in 1 .. Len(w)
      BY <1>1, <2>2, <3>1, <3>2 DEF Trail, Batched
    <3>3. CASE o = Len(w) + 1
      <4>1. v[o].batch = n + 1 /\ v[i].batch <= n /\ v[i].batch \in Nat
        BY <1>1, <2>2, <3>1, <3>3, QueueAt DEF Trail, Batched
      <4> QED
        BY <4>1
    <3> QED
      BY <1>3, <3>2, <3>3
  <2> QED
    BY <2>1, <2>2 DEF Batched
<1>7. ASSUME NEW b \in Nat, NEW d \in Nat, Waits(b, d, p, w, a, n) PROVE Waits(b, d, << >>, v, a, m)
  <2>1. d <= a /\ b <= n /\ b <= m
    BY <1>7 DEF Waits
  <2>2. \A i \in 1 .. Len(v) : b < v[i].batch => \A x \in Numbers(v[i].lines) : d < x
    BY <1>1, <1>2, <1>3, <1>7 DEF Waits
  <2>3. CASE \E i \in 1 .. Len(w) : w[i].batch = b
    <3>1. \E i \in 1 .. Len(v) : v[i].batch = b
      BY <1>1, <2>3
    <3> QED
      BY <1>0, <2>1, <2>2, <3>1 DEF Waits
  <2>4. CASE \A i \in 1 .. Len(w) : w[i].batch # 0 => b < w[i].batch
    <3>1. \A i \in 1 .. Len(v) : v[i].batch # 0 => b < v[i].batch
      BY <1>1, <1>3, <2>1, <2>4
    <3> QED
      BY <1>0, <2>1, <2>2, <3>1 DEF Waits
  <2> QED
    BY <1>7, <2>3, <2>4 DEF Waits
<1> QED
  BY <1>4, <1>5, <1>6, <1>7 DEF Trail

\* A record is accepted.
LEMMA TrailAccepts ==
  ASSUME NEW p \in TraceLines, NEW w \in Queue, NEW j \in TraceLines, NEW a \in Nat, NEW l,
         NEW n \in Nat, Trail(p, w, j, a, l, n), l \subseteq 1 .. a,
         NEW e \in Record, e.nr = a + 1, NEW q, q = Append(p, e)
  PROVE  /\ q \in TraceLines /\ Trail(q, w, j, a + 1, l, n)
         /\ \A b, d \in Nat : Waits(b, d, p, w, a, n) => Waits(b, d, q, w, a + 1, n)
<1>1. /\ q \in TraceLines
      /\ \A x : x \in Numbers(q) <=> x \in Numbers(p) \/ x = e.nr
      /\ (InOrder(p) /\ \A x \in Numbers(p) : x < e.nr) => InOrder(q)
  BY NumbersAppend
<1>2. /\ Numbers(j) \subseteq (1 .. a) \ l /\ Numbers(p) \subseteq (1 .. a) \ l
      /\ \A i \in 1 .. Len(w) : Numbers(w[i].lines) \subseteq (1 .. a) \ l
  BY DEF Trail, Accounted
<1>3. Ordered(q, w, j)
  <2>1. \A x \in 1 .. a : x < e.nr
    OBVIOUS
  <2>2. InOrder(q)
    BY <1>1, <1>2, <2>1 DEF Trail, Ordered
  <2>3. Precede(j, q) /\ \A i \in 1 .. Len(w) : Precede(w[i].lines, q)
    BY <1>1, <1>2, <2>1 DEF Trail, Ordered, Precede
  <2> QED
    BY <2>2, <2>3 DEF Trail, Ordered
<1>4. Accounted(q, w, j, a + 1, l)
  <2>1. \A x : x \in 1 .. a + 1 <=> x \in 1 .. a \/ x = a + 1
    OBVIOUS
  <2>2. a + 1 \notin l
    OBVIOUS
  <2> QED
    BY <1>1, <1>2, <2>1, <2>2 DEF Trail, Accounted
<1>5. ASSUME NEW b \in Nat, NEW d \in Nat, Waits(b, d, p, w, a, n) PROVE Waits(b, d, q, w, a + 1, n)
  <2>1. d <= a /\ d < e.nr /\ d <= a + 1
    BY <1>5 DEF Waits
  <2> QED
    BY <1>1, <1>5, <2>1 DEF Waits
<1> QED
  BY <1>1, <1>3, <1>4, <1>5 DEF Trail

\* What the head of the queue leaves behind: lines on disk, and lines that are lost.
Settles(c, g, j, h) ==
  /\ InOrder(c)
  /\ \A x : x \in Numbers(c) \/ x \in g <=> x \in Numbers(j) \/ x \in Numbers(h.lines)
  /\ \A x : ~(x \in Numbers(c) /\ x \in g)

\* The head of the queue settles: its lines are on disk or lost.
LEMMA TrailPopped ==
  ASSUME NEW p \in TraceLines, NEW w \in Queue, NEW j \in TraceLines, NEW a \in Nat, NEW l,
         NEW n \in Nat, Trail(p, w, j, a, l, n), w # << >>, NEW v, v = Tail(w),
         NEW c \in TraceLines, NEW g, Settles(c, g, j, Head(w))
  PROVE  /\ v \in Queue /\ Trail(p, v, c, a, l \cup g, n) /\ g \subseteq 1 .. a
         /\ \A b, d \in Nat : Waits(b, d, p, w, a, n) => Waits(b, d, p, v, a, n)
<1> USE DEF Settles
<1>1. /\ v \in Queue /\ Len(v) \in Nat /\ Len(w) = Len(v) + 1 /\ Head(w) = w[1]
      /\ \A i \in 1 .. Len(v) : v[i] = w[i + 1]
      /\ \A x : InQueue(w, x) <=> InQueue(v, x) \/ x \in Numbers(Head(w).lines)
  BY QueueTail
<1>2. 1 \in 1 .. Len(w) /\ \A i \in 1 .. Len(v) : i + 1 \in 1 .. Len(w) /\ 1 < i + 1
  BY <1>1
<1>3. /\ Numbers(j) \subseteq (1 .. a) \ l /\ Numbers(p) \subseteq (1 .. a) \ l
      /\ \A i \in 1 .. Len(w) : Numbers(w[i].lines) \subseteq (1 .. a) \ l
  BY DEF Trail, Accounted
<1>4. \A x : x \in Numbers(c) \/ x \in g => x \in (1 .. a) \ l
  BY <1>1, <1>2, <1>3
<1>5. /\ Precede(j, p) /\ Precede(Head(w).lines, p)
      /\ \A i \in 1 .. Len(v) : Precede(j, v[i].lines) /\ Precede(Head(w).lines, v[i].lines)
  BY <1>1, <1>2 DEF Trail, Ordered
<1>6. /\ \A x, y : (x \in Numbers(c) \/ x \in g) /\ y \in Numbers(p) => x < y
      /\ \A i \in 1 .. Len(v) : \A x, y : (x \in Numbers(c) \/ x \in g) /\ y \in Numbers(v[i].lines) => x < y
  BY <1>5 DEF Precede
<1>7. Ordered(p, v, c)
  <2>1. Precede(c, p) /\ \A i \in 1 .. Len(v) : Precede(c, v[i].lines)
    BY <1>6 DEF Precede
  <2>2. \A i \in 1 .. Len(v) : InOrder(v[i].lines) /\ Precede(v[i].lines, p)
    BY <1>1, <1>2 DEF Trail, Ordered
  <2>3. \A i, k \in 1 .. Len(v) : i < k => Precede(v[i].lines, v[k].lines)
    BY <1>1, <1>2 DEF Trail, Ordered
  <2> QED
    BY <2>1, <2>2, <2>3 DEF Trail, Ordered
<1>8. Accounted(p, v, c, a, l \cup g)
  <2>1. Numbers(c) \subseteq (1 .. a) \ (l \cup g)
    BY <1>4
  <2>2. Numbers(p) \subseteq (1 .. a) \ (l \cup g)
    <3> SUFFICES ASSUME NEW y \in Numbers(p) PROVE y \in 1 .. a /\ y \notin l /\ y \notin g
      BY Zenon
    <3>1. y \in (1 .. a) \ l /\ ~(y < y)
      BY <1>3
    <3>2. y \notin g
      BY <1>6, <3>1, Zenon
    <3> QED
      BY <3>1, <3>2
  <2>3. \A i \in 1 .. Len(v) : Numbers(v[i].lines) \subseteq (1 .. a) \ (l \cup g)
    <3> SUFFICES ASSUME NEW i \in 1 .. Len(v), NEW y \in Numbers(v[i].lines) PROVE y \in 1 .. a /\ y \notin l /\ y \notin g
      OBVIOUS
    <3>1. y \in (1 .. a) \ l /\ ~(y < y)
      BY <1>1, <1>2, <1>3
    <3>2. y \notin g
      BY <1>6, <3>1, Zenon
    <3> QED
      BY <3>1, <3>2
  <2>4. \A x \in (1 .. a) \ (l \cup g) : x \in Numbers(c) \/ x \in Numbers(p) \/ InQueue(v, x)
    BY <1>1 DEF Trail, Accounted
  <2> QED
    BY <2>1, <2>2, <2>3, <2>4 DEF Accounted
<1>9. Batched(v, n)
  BY <1>1, <1>2 DEF Trail, Batched
<1>10. ASSUME NEW b \in Nat, NEW d \in Nat, Waits(b, d, p, w, a, n) PROVE Waits(b, d, p, v, a, n)
  <2>1. \A i \in 1 .. Len(v) : b < v[i].batch => \A x \in Numbers(v[i].lines) : d < x
    BY <1>1, <1>2, <1>10 DEF Waits
  <2>2. CASE w[1].batch = b
    <3>1. \A i \in 1 .. Len(v) : v[i].batch # 0 => b < v[i].batch
      BY <1>1, <1>2, <2>2 DEF Trail, Batched
    <3> QED
      BY <1>10, <2>1, <3>1 DEF Waits
  <2>3. CASE w[1].batch # b /\ \E i \in 1 .. Len(w) : w[i].batch = b
    <3>1. PICK i \in 1 .. Len(w) : w[i].batch = b
      BY <2>3
    <3>2. i - 1 \in 1 .. Len(v) /\ v[i - 1].batch = b
      BY <1>1, <2>3, <3>1
    <3> QED
      BY <1>10, <2>1, <3>2 DEF Waits
  <2>4. CASE \A i \in 1 .. Len(w) : w[i].batch # 0 => b < w[i].batch
    <3>1. \A i \in 1 .. Len(v) : v[i].batch # 0 => b < v[i].batch
      BY <1>1, <1>2, <2>4
    <3> QED
      BY <1>10, <2>1, <3>1 DEF Waits
  <2> QED
    BY <1>10, <2>2, <2>3, <2>4 DEF Waits
<1> QED
  BY <1>1, <1>4, <1>7, <1>8, <1>9, <1>10 DEF Trail

\* The process ends: what is not on disk is lost.
LEMMA TrailStops ==
  ASSUME NEW a \in Nat, NEW n \in Nat, NEW c \in TraceLines, InOrder(c), Numbers(c) \subseteq 1 .. a
  PROVE  Trail(<< >>, << >>, c, a, (1 .. a) \ Numbers(c), n)
<1>1. << >> \in TraceLines /\ Numbers(<< >>) = {} /\ InOrder(<< >>) /\ Len(<< >>) = 0
  <2>1. << >> \in TraceLines
    BY DEF TraceLines
  <2> QED
    BY <2>1, NumbersOf DEF InOrder
<1>2. Ordered(<< >>, << >>, c)
  BY <1>1 DEF Ordered, Precede
<1>3. Accounted(<< >>, << >>, c, a, (1 .. a) \ Numbers(c))
  BY <1>1 DEF Accounted
<1>4. Batched(<< >>, n)
  BY <1>1 DEF Batched
<1> QED
  BY <1>2, <1>3, <1>4 DEF Trail

\* The pending lines become a batch.
LEMMA TrailHanded ==
  ASSUME NEW p \in TraceLines, NEW w \in Queue, NEW j \in TraceLines, NEW a \in Nat, NEW l,
         NEW n \in Nat, NEW m \in Nat, Trail(p, w, j, a, l, n),
         NEW h \in [batch : Nat, lines : TraceLines], Packs(h, p, n, m),
         Numbers(p) \subseteq Numbers(h.lines), NEW v, Joined(v, w, h)
  PROVE  /\ Trail(<< >>, v, j, a, l, m)
         /\ \A b, d \in Nat : Waits(b, d, p, w, a, n) => Waits(b, d, << >>, v, a, m)
<1>1. Drops(l, l, p, h)
  BY DEF Drops
<1> QED
  BY <1>1, TrailPushed

\* The pending lines are dropped, and a rewrite joins the queue.
LEMMA TrailDeleted ==
  ASSUME NEW p \in TraceLines, NEW w \in Queue, NEW j \in TraceLines, NEW a \in Nat, NEW l,
         NEW n \in Nat, Trail(p, w, j, a, l, n), NEW v, Joined(v, w, Clear)
  PROVE  /\ Trail(<< >>, v, j, a, l \cup Numbers(p), n)
         /\ \A b, d \in Nat : Waits(b, d, p, w, a, n) => Waits(b, d, << >>, v, a, n)
<1>1. << >> \in TraceLines /\ Numbers(<< >>) = {}
  <2>1. << >> \in TraceLines
    BY DEF TraceLines
  <2> QED
    BY <2>1, NumbersOf
<1>2. Clear \in [batch : Nat, lines : TraceLines] /\ Clear.batch = 0 /\ Clear.lines = << >>
  BY <1>1 DEF Clear
<1>3. Drops(l \cup Numbers(p), l, p, Clear)
  BY <1>1, <1>2 DEF Drops
<1>4. Packs(Clear, p, n, n)
  BY <1>2 DEF Packs
<1> QED
  BY <1>2, <1>3, <1>4, TrailPushed

-----------------------------------------------------------------------------
(* The invariant of the journal.                                           *)

Kept(p, w, j, a, l, n) ==
  /\ p \in TraceLines /\ w \in Queue /\ j \in TraceLines
  /\ a \in 0 .. MaxRecords /\ n \in Nat /\ l \subseteq 1 .. a
  /\ Trail(p, w, j, a, l, n)

Readings ==
  /\ reader \in [Readers -> ReadState]
  /\ \A r \in Readers : Reading(reader[r], pending, writes, accepted, lost, batches)

JournalInv ==
  /\ Kept(pending, writes, journal, accepted, lost, batches)
  /\ Readings /\ nextSeq \in Nat /\ Cleared

\* What a step may do to those that read: the trail they wait for only goes on.
GoesOn(p, w, a, l, n) ==
  /\ accepted <= a /\ lost \subseteq l
  /\ \A b, d \in Nat : Waits(b, d, pending, writes, accepted, batches) => Waits(b, d, p, w, a, n)

\* A read is not disturbed by such a step.
LEMMA ReadGoesOn ==
  ASSUME Kept(pending, writes, journal, accepted, lost, batches), NEW rd \in ReadState,
         Reading(rd, pending, writes, accepted, lost, batches),
         NEW p, NEW w, NEW a \in Nat, NEW l, NEW n, GoesOn(p, w, a, l, n)
  PROVE  Reading(rd, p, w, a, l, n)
<1>1. rd.batch \in Nat /\ rd.due \in Nat
  BY DEF ReadState
<1>2. rd.at = "flushing" /\ rd.batch # 0 => Waits(rd.batch, rd.due, p, w, a, n)
  BY <1>1 DEF Reading, GoesOn
<1>3. rd.at = "done" /\ rd.batch # 0 => rd.due <= a /\ (1 .. rd.due) \ l \subseteq rd.got
  BY <1>1 DEF Reading, GoesOn, Kept
<1> QED
  BY <1>2, <1>3 DEF Reading

\* Nor are all of them.
LEMMA ReadingsGoOn ==
  ASSUME Kept(pending, writes, journal, accepted, lost, batches), Readings,
         GoesOn(pending', writes', accepted', lost', batches'), accepted' \in Nat, reader' = reader
  PROVE  Readings'
<1>1. \A r \in Readers : reader[r] \in ReadState
  BY DEF Readings
<1>2. ASSUME NEW r \in Readers
      PROVE  Reading(reader[r], pending', writes', accepted', lost', batches')
  <2>1. Reading(reader[r], pending, writes, accepted, lost, batches)
    BY DEF Readings
  <2> QED
    BY <1>1, <2>1, ReadGoesOn
<1> QED
  BY <1>2 DEF Readings

\* A step that leaves the trail alone.
LEMMA StaysOn == accepted \in Nat => GoesOn(pending, writes, accepted, lost, batches)
  BY DEF GoesOn

\* The pending lines become a write.
LEMMA HandsOver ==
  ASSUME Kept(pending, writes, journal, accepted, lost, batches), WritePending,
         UNCHANGED <<journal, accepted, lost>>
  PROVE  /\ Kept(pending', writes', journal', accepted', lost', batches')
         /\ GoesOn(pending', writes', accepted', lost', batches')
         /\ pending' = << >>
         /\ pending # << >> => /\ batches' = batches + 1 /\ Len(writes') \in 1 .. Len(writes')
                               /\ writes'[Len(writes')].batch = batches + 1
<1>1. CASE pending = << >>
  <2>1. UNCHANGED <<pending, writes, batches>>
    BY <1>1 DEF WritePending
  <2> QED
    BY <1>1, <2>1, StaysOn DEF Kept
<1>2. CASE pending # << >>
  <2> DEFINE h == [batch |-> batches + 1, lines |-> pending]
  <2>1. h \in [batch : Nat, lines : TraceLines] /\ h.batch = batches + 1 /\ h.lines = pending
    BY DEF Kept
  <2>2. writes' = Append(writes, h) /\ batches' = batches + 1 /\ pending' = << >>
    BY <1>2 DEF WritePending
  <2> HIDE DEF h
  <2>3. Joined(writes', writes, h)
    BY <2>1, <2>2, QueueAppend DEF Kept
  <2>4. /\ Trail(<< >>, writes', journal, accepted, lost \cup {}, batches + 1)
        /\ \A b, d \in Nat : Waits(b, d, pending, writes, accepted, batches) =>
                             Waits(b, d, << >>, writes', accepted, batches + 1)
    <3>1. accepted \in Nat /\ batches \in Nat /\ batches + 1 \in Nat /\ lost \cup {} = lost
      BY DEF Kept
    <3>2. Packs(h, pending, batches, batches + 1) /\ Numbers(pending) \subseteq Numbers(h.lines)
      BY <2>1 DEF Packs
    <3>3. h \in [batch : Nat, lines : TraceLines]
      BY <2>1
    <3> QED
      BY <2>3, <3>1, <3>2, <3>3, TrailHanded DEF Kept
  <2>5. lost \cup {} = lost /\ << >> \in TraceLines
    BY DEF TraceLines
  <2>6. Kept(pending', writes', journal', accepted', lost', batches')
    BY <2>2, <2>3, <2>4, <2>5 DEF Kept, Joined
  <2>7. GoesOn(pending', writes', accepted', lost', batches')
    BY <2>2, <2>4 DEF Kept, GoesOn
  <2> QED
    BY <2>1, <2>2, <2>3, <2>6, <2>7 DEF Joined
<1> QED
  BY <1>1, <1>2

\* A read that was waiting has all it waited for.
LEMMA WaitIsOver ==
  ASSUME Kept(pending, writes, journal, accepted, lost, batches), NEW b \in Nat, NEW d \in Nat,
         b # 0, Waits(b, d, pending, writes, accepted, batches), BatchDone(b)
  PROVE  d <= accepted /\ (1 .. d) \ lost \subseteq Numbers(journal)
<1>1. d <= accepted /\ accepted \in Nat /\ pending \in TraceLines /\ writes \in Queue
  BY DEF Waits, Kept
<1>2. DOMAIN writes = 1 .. Len(writes)
  BY <1>1 DEF Queue
<1>3. \A i \in 1 .. Len(writes) : writes[i].batch # 0 => b < writes[i].batch
  BY <1>2 DEF BatchDone, Waits
<1>4. ASSUME NEW x \in (1 .. d) \ lost PROVE x \in Numbers(journal)
  <2>1. x \in (1 .. accepted) \ lost /\ ~(d < x)
    BY <1>1
  <2>2. x \in Numbers(journal) \/ x \in Numbers(pending) \/ InQueue(writes, x)
    BY <2>1 DEF Kept, Trail, Accounted
  <2>3. x \notin Numbers(pending)
    BY <2>1 DEF Waits
  <2>4. ASSUME InQueue(writes, x) PROVE FALSE
    <3>1. PICK i \in 1 .. Len(writes) : x \in Numbers(writes[i].lines)
      BY <2>4 DEF InQueue
    <3>2. CASE writes[i].batch = 0
      <4>1. writes[i].lines = << >> /\ writes[i].lines \in TraceLines
        BY <1>1, <3>2, QueueAt DEF Kept, Trail, Batched
      <4> QED
        BY <3>1, <4>1, NumbersOf
    <3>3. CASE writes[i].batch # 0
      BY <1>3, <2>1, <3>1, <3>3 DEF Waits
    <3> QED
      BY <3>2, <3>3
  <2> QED
    BY <2>2, <2>3, <2>4
<1> QED
  BY <1>1, <1>4

\* The same of the session's journal.
LEMMA HeadSettles ==
  ASSUME Kept(pending, writes, journal, accepted, lost, batches), writes # << >>,
         NEW c \in TraceLines, NEW g, Settles(c, g, journal, Head(writes)),
         journal' = c, lost' = lost \cup g, writes' = Tail(writes),
         UNCHANGED <<pending, accepted, batches>>
  PROVE  /\ Kept(pending', writes', journal', accepted', lost', batches')
         /\ GoesOn(pending', writes', accepted', lost', batches')
<1>1. accepted \in Nat
  BY StorageAssumption DEF Kept, StorageAssumption
<1>2. /\ writes' \in Queue /\ Trail(pending, writes', c, accepted, lost \cup g, batches)
      /\ g \subseteq 1 .. accepted
      /\ \A b, d \in Nat : Waits(b, d, pending, writes, accepted, batches) =>
                           Waits(b, d, pending, writes', accepted, batches)
  BY <1>1, TrailPopped DEF Kept
<1>3. lost \cup g \subseteq 1 .. accepted
  BY <1>2 DEF Kept
<1> QED
  BY <1>1, <1>2, <1>3 DEF Kept, GoesOn

\* The head of the queue and the journal it is written to.
LEMMA HeadOf ==
  ASSUME Kept(pending, writes, journal, accepted, lost, batches), writes # << >>
  PROVE  /\ Head(writes).lines \in TraceLines /\ InOrder(Head(writes).lines)
         /\ Precede(journal, Head(writes).lines) /\ InOrder(journal)
         /\ Numbers(Head(writes).lines) \subseteq (1 .. accepted) \ lost
         /\ Numbers(journal) \subseteq (1 .. accepted) \ lost
<1>1. 1 \in 1 .. Len(writes) /\ Head(writes) = writes[1]
  BY DEF Kept, Queue
<1> QED
  BY <1>1, QueueAt DEF Kept, Trail, Ordered, Accounted

\* An interrupted process leaves a prefix of the write under way.
LEMMA KeptInterrupted ==
  ASSUME Kept(pending, writes, journal, accepted, lost, batches), Readings, Interrupted
  PROVE  /\ Kept(pending', writes', journal', accepted', lost', batches') /\ Readings'
         /\ pending' = << >> /\ writes' = << >> /\ armed' = FALSE
         /\ writes = << >> => journal' = journal
<1>1. /\ pending' = << >> /\ writes' = << >> /\ armed' = FALSE
      /\ accepted' = accepted /\ batches' = batches
      /\ lost' = (1 .. accepted) \ Numbers(journal')
      /\ reader' = [r \in Readers |-> IF reader[r].at = "flushing" THEN NoRead ELSE reader[r]]
  BY DEF Interrupted
<1>2. /\ journal' \in TraceLines /\ InOrder(journal')
      /\ Numbers(journal') \subseteq (1 .. accepted) \ lost
      /\ writes = << >> => journal' = journal
  <2>1. CASE UNCHANGED <<journal, torn>>
    BY <2>1 DEF Kept, Trail, Ordered, Accounted
  <2>2. CASE /\ writes # << >> /\ Head(writes) # Clear
             /\ LET lines == Head(writes).lines IN
                \E k \in 0 .. Len(lines) - 1 :
                    /\ journal' = Written(SubSeq(lines, 1, k))
                    /\ torn' = TRUE
    <3> DEFINE s == Head(writes).lines
    <3>1. PICK k \in 0 .. Len(s) - 1 : journal' = Written(SubSeq(s, 1, k))
      BY <2>2
    <3>2. /\ s \in TraceLines /\ InOrder(s) /\ Precede(journal, s) /\ InOrder(journal)
          /\ Numbers(s) \subseteq (1 .. accepted) \ lost
          /\ Numbers(journal) \subseteq (1 .. accepted) \ lost
      BY <2>2, HeadOf
    <3> HIDE DEF s
    <3>3. Len(s) \in Nat
      BY <3>2 DEF TraceLines
    <3>4. k \in 0 .. Len(s)
      BY <3>3
    <3> DEFINE t == SubSeq(s, 1, k)
    <3>5. t \in TraceLines /\ Numbers(t) \subseteq Numbers(s) /\ InOrder(t)
      BY <3>2, <3>4, NumbersPrefix
    <3> HIDE DEF t
    <3>6. Precede(journal, t) /\ journal \in TraceLines
      BY <3>2, <3>5 DEF Precede, Kept
    <3>7. /\ Written(t) \in TraceLines /\ InOrder(Written(t))
          /\ \A x : x \in Numbers(Written(t)) \/ x \in Glued(t) <=> x \in Numbers(journal) \/ x \in Numbers(t)
      BY <3>2, <3>5, <3>6, WrittenLines
    <3>8. journal' = Written(t)
      BY <3>1 DEF t
    <3> QED
      BY <2>2, <3>2, <3>5, <3>7, <3>8
  <2> QED
    BY <2>1, <2>2 DEF Interrupted
<1>3. accepted \in Nat /\ batches \in Nat
  BY StorageAssumption DEF Kept, StorageAssumption
<1>4. Trail(<< >>, << >>, journal', accepted, (1 .. accepted) \ Numbers(journal'), batches)
  <2>1. Numbers(journal') \subseteq 1 .. accepted
    BY <1>2
  <2> QED
    BY <1>2, <1>3, <2>1, TrailStops
<1>5. << >> \in TraceLines /\ << >> \in Queue
  BY DEF TraceLines, Queue
<1>6. Kept(pending', writes', journal', accepted', lost', batches')
  BY <1>1, <1>2, <1>4, <1>5 DEF Kept
<1>7. lost \subseteq lost'
  BY <1>1, <1>2 DEF Kept
<1>8. Readings'
  <2>1. NoRead \in ReadState /\ NoRead.at = "idle"
    BY DEF NoRead, ReadState
  <2>2. \A r \in Readers : reader[r] \in ReadState
    BY DEF Readings
  <2>3. reader' \in [Readers -> ReadState]
    BY <1>1, <2>1, <2>2
  <2>4. ASSUME NEW r \in Readers
        PROVE  Reading(reader'[r], pending', writes', accepted', lost', batches')
    <3>1. CASE reader[r].at = "flushing"
      <4>1. reader'[r] = NoRead
        BY <1>1, <3>1
      <4> QED
        BY <2>1, <4>1 DEF Reading
    <3>2. CASE reader[r].at # "flushing"
      <4>1. reader'[r] = reader[r]
        BY <1>1, <3>2
      <4>2. Reading(reader[r], pending, writes, accepted, lost, batches)
        BY DEF Readings
      <4> QED
        BY <1>1, <1>7, <3>2, <4>1, <4>2 DEF Reading
    <3> QED
      BY <3>1, <3>2
  <2> QED
    BY <2>3, <2>4 DEF Readings
<1> QED
  BY <1>1, <1>2, <1>6, <1>8

\* There is nothing yet.
LEMMA JournalInitInv == StorageInit => JournalInv
<1> SUFFICES ASSUME StorageInit PROVE JournalInv
  OBVIOUS
<1>1. /\ pending = << >> /\ writes = << >> /\ journal = << >> /\ accepted = 0 /\ lost = {} /\ batches = 0
      /\ nextSeq = 0 /\ session.alive /\ process = "up" /\ mishaps = 0
      /\ reader = [r \in Readers |-> NoRead]
  BY DEF StorageInit
<1>2. << >> \in TraceLines /\ << >> \in Queue
  BY DEF TraceLines, Queue
<1>3. Numbers(<< >>) = {} /\ InOrder(<< >>)
  BY <1>2, NumbersOf DEF InOrder
<1>4. Trail(<< >>, << >>, << >>, 0, {}, 0)
  <2>1. (1 .. 0) \ Numbers(<< >>) = {}
    OBVIOUS
  <2>2. Trail(<< >>, << >>, << >>, 0, (1 .. 0) \ Numbers(<< >>), 0)
    BY <1>2, <1>3, TrailStops
  <2> QED
    BY <2>1, <2>2
<1>5. Kept(pending, writes, journal, accepted, lost, batches)
  BY <1>1, <1>2, <1>4, StorageAssumption DEF Kept, StorageAssumption
<1>6. Readings
  <2>1. NoRead \in ReadState /\ NoRead.at = "idle"
    BY DEF NoRead, ReadState
  <2> QED
    BY <1>1, <2>1 DEF Readings, Reading
<1>7. Cleared
  BY <1>1 DEF Cleared
<1> QED
  BY <1>1, <1>5, <1>6, <1>7 DEF JournalInv

\* The part of a deleted session that nothing has failed for.
Gone == ~session.alive /\ mishaps = 0
Emptied ==
  /\ pending = << >> /\ ~armed
  /\ writes = << >> => journal = << >>
  /\ writes # << >> => writes[Len(writes)] = Clear

\* A step that hands lines over without moving the session.
LEMMA ClearedUnless ==
  ASSUME Cleared, process' = "down" => mishaps' # 0, Gone' => Emptied'
  PROVE  Cleared'
  BY Zenon DEF Cleared, Gone, Emptied

\* Every step keeps the invariant.
LEMMA JournalNextInv ==
  SnapInv /\ JournalInv /\ [StorageNext]_storageVars => JournalInv'
<1> SUFFICES ASSUME SnapInv, JournalInv, [StorageNext]_storageVars PROVE JournalInv'
  OBVIOUS
<1>0. /\ Kept(pending, writes, journal, accepted, lost, batches)
      /\ Readings /\ nextSeq \in Nat /\ Cleared
  BY DEF JournalInv
<1>a. accepted \in Nat /\ mishaps \in Nat /\ process \in {"up", "stopping", "exited", "down"}
  BY <1>0, StorageAssumption DEF Kept, StorageAssumption, SnapInv, SnapTypes
<1>b. (Gone => Emptied) /\ (process = "down" => mishaps # 0)
  BY <1>0 DEF Cleared, Gone, Emptied
<1>1. ASSUME Kept(pending', writes', journal', accepted', lost', batches'),
             GoesOn(pending', writes', accepted', lost', batches'), reader' = reader,
             nextSeq' \in Nat, process' = "down" => mishaps' # 0, Gone' => Emptied'
      PROVE  JournalInv'
  <2>1. accepted' \in Nat
    BY <1>1, StorageAssumption DEF Kept, StorageAssumption
  <2>2. Readings'
    BY <1>0, <1>1, <2>1, ReadingsGoOn
  <2>3. Cleared'
    BY <1>0, <1>1, ClearedUnless
  <2> QED
    BY <1>1, <2>2, <2>3 DEF JournalInv
<1>2. ASSUME UNCHANGED <<pending, writes, journal, accepted, lost, batches, reader>>,
             nextSeq' \in Nat, process' = "down" => mishaps' # 0, Gone' => Emptied'
      PROVE  JournalInv'
  <2>1. GoesOn(pending', writes', accepted', lost', batches')
    BY <1>a, <1>2, StaysOn
  <2>2. Kept(pending', writes', journal', accepted', lost', batches')
    BY <1>0, <1>2
  <2> QED
    BY <1>1, <1>2, <2>1, <2>2
<1>3. CASE UNCHANGED storageVars
  <2>1. UNCHANGED <<pending, armed, writes, journal, accepted, lost, batches, reader, nextSeq,
                    session, process, mishaps>>
    BY <1>3 DEF storageVars, journalVars, snapshotVars
  <2>2. Gone' => Emptied'
    BY <1>b, <2>1 DEF Gone, Emptied
  <2> QED
    BY <1>0, <1>b, <1>2, <2>1, <2>2
<1>4. CASE TimerFires
  <2>1. WritePending /\ armed /\ UNCHANGED <<journal, nextSeq, reader, session, process, accepted, lost, mishaps>>
    BY <1>4 DEF TimerFires, snapshotVars
  <2>2. /\ Kept(pending', writes', journal', accepted', lost', batches')
        /\ GoesOn(pending', writes', accepted', lost', batches')
    BY <1>0, <2>1, HandsOver
  <2>3. ~Gone'
    BY <1>b, <2>1, Zenon DEF Gone, Emptied
  <2> QED
    BY <1>0, <1>b, <1>1, <2>1, <2>2, <2>3
<1>5. CASE JournalWrite
  <2>1. /\ writes # << >> /\ torn' = FALSE /\ writes' = Tail(writes)
        /\ UNCHANGED <<pending, armed, nextSeq, reader, batches, session, process, accepted, mishaps>>
    BY <1>5 DEF JournalWrite, snapshotVars
  <2> DEFINE h == Head(writes)
  <2>2. /\ h.lines \in TraceLines /\ InOrder(h.lines) /\ Precede(journal, h.lines) /\ InOrder(journal)
        /\ journal \in TraceLines
    BY <1>0, <2>1, HeadOf DEF Kept
  <2>3. PICK c \in TraceLines, g \in SUBSET Nat :
          Settles(c, g, journal, h) /\ journal' = c /\ lost' = lost \cup g /\ (h = Clear => c = << >>)
    <3>1. CASE h = Clear
      <4>1. journal' = << >> /\ lost' = lost \cup Numbers(journal)
        BY <1>5, <3>1 DEF JournalWrite
      <4>2. << >> \in TraceLines /\ h.lines = << >>
        BY <3>1 DEF TraceLines, Clear
      <4>3. Numbers(<< >>) = {} /\ InOrder(<< >>) /\ Numbers(journal) \in SUBSET Nat
        BY <2>2, <4>2, NumbersOf DEF InOrder
      <4>4. Settles(<< >>, Numbers(journal), journal, h)
        BY <4>2, <4>3 DEF Settles
      <4> QED
        BY <4>1, <4>2, <4>3, <4>4
    <3>2. CASE h # Clear
      <4>1. journal' = Written(h.lines) /\ lost' = lost \cup Glued(h.lines)
        BY <1>5, <3>2 DEF JournalWrite
      <4>2. /\ Written(h.lines) \in TraceLines /\ InOrder(Written(h.lines))
            /\ \A x : x \in Numbers(Written(h.lines)) \/ x \in Glued(h.lines)
                      <=> x \in Numbers(journal) \/ x \in Numbers(h.lines)
            /\ \A x : ~(x \in Numbers(Written(h.lines)) /\ x \in Glued(h.lines))
        <5> HIDE DEF h
        <5> QED
          BY <2>2, WrittenLines
      <4>3. Settles(Written(h.lines), Glued(h.lines), journal, h)
        BY <2>2, <4>2 DEF Settles
      <4>4. Glued(h.lines) \in SUBSET Nat
        <5>1. Numbers(journal) \subseteq Nat /\ Numbers(h.lines) \subseteq Nat
          BY <2>2, NumbersOf
        <5> QED
          BY <4>2, <5>1
      <4> QED
        BY <3>2, <4>1, <4>2, <4>3, <4>4
    <3> QED
      BY <3>1, <3>2
  <2>4. /\ Kept(pending', writes', journal', accepted', lost', batches')
        /\ GoesOn(pending', writes', accepted', lost', batches')
    BY <1>0, <2>1, <2>3, HeadSettles
  <2>5. ASSUME Gone' PROVE Emptied'
    <3>1. Emptied
      BY <1>b, <2>1, <2>5 DEF Gone
    <3>2. pending' = << >> /\ ~armed' /\ writes[Len(writes)] = Clear
      BY <2>1, <3>1 DEF Emptied
    <3>3. writes \in Queue
      BY <1>0 DEF Kept
    <3>4. CASE writes' = << >>
      <4>1. Len(writes) = Len(writes') + 1 /\ h = writes[1]
        BY <2>1, <3>3, QueueTail
      <4>2. h = writes[Len(writes)]
        BY <3>4, <4>1
      <4> QED
        BY <2>3, <3>2, <3>4, <4>2 DEF Emptied
    <3>5. CASE writes' # << >>
      <4>1. writes'[Len(writes')] = writes[Len(writes)]
        BY <2>1, <3>3, <3>5 DEF Queue
      <4> QED
        BY <3>2, <3>5, <4>1 DEF Emptied
    <3> QED
      BY <3>4, <3>5
  <2> QED
    BY <1>0, <1>b, <1>1, <2>1, <2>4, <2>5
<1>6. CASE SnapTimerFires
  <2>1. UNCHANGED <<pending, armed, writes, journal, accepted, lost, batches, reader, nextSeq,
                    session, process, mishaps>>
    BY <1>6 DEF SnapTimerFires, journalVars
  <2>2. Gone' => Emptied'
    BY <1>b, <2>1 DEF Gone, Emptied
  <2> QED
    BY <1>0, <1>b, <1>2, <2>1, <2>2
<1>7. CASE SnapshotWrite
  <2>1. UNCHANGED <<pending, armed, writes, journal, accepted, lost, batches, reader, nextSeq,
                    session, process, mishaps>>
    BY <1>7 DEF SnapshotWrite, journalVars
  <2>2. Gone' => Emptied'
    BY <1>b, <2>1 DEF Gone, Emptied
  <2> QED
    BY <1>0, <1>b, <1>2, <2>1, <2>2
<1>8. CASE Trace
  <2> DEFINE e == [seq |-> nextSeq, nr |-> accepted + 1]
  <2>1. /\ session.alive /\ accepted < MaxRecords /\ accepted' = accepted + 1
        /\ pending' = Append(pending, e) /\ nextSeq' = nextSeq + 1 /\ process = "up"
        /\ UNCHANGED <<writes, journal, reader, batches, session, process, lost, mishaps>>
    BY <1>8 DEF Trace, snapshotVars
  <2>2. e \in Record /\ e.nr = accepted + 1 /\ accepted + 1 \in 0 .. MaxRecords
    BY <1>0, <1>a, <2>1, StorageAssumption DEF Record, StorageAssumption
  <2> HIDE DEF e
  <2>3. /\ pending' \in TraceLines /\ Trail(pending', writes, journal, accepted + 1, lost, batches)
        /\ \A b, d \in Nat : Waits(b, d, pending, writes, accepted, batches) =>
                             Waits(b, d, pending', writes, accepted + 1, batches)
    BY <1>0, <1>a, <2>1, <2>2, TrailAccepts DEF Kept
  <2>4. lost \subseteq 1 .. accepted + 1
    BY <1>0, <1>a DEF Kept
  <2>5. Kept(pending', writes', journal', accepted', lost', batches')
    BY <1>0, <2>1, <2>2, <2>3, <2>4 DEF Kept
  <2>6. GoesOn(pending', writes', accepted', lost', batches')
    BY <1>a, <2>1, <2>3 DEF GoesOn
  <2>7. ~Gone' /\ process' # "down"
    BY <2>1 DEF Gone
  <2> QED
    BY <1>0, <1>1, <2>1, <2>5, <2>6, <2>7
<1>9. CASE CommitTurn
  <2>1. /\ UNCHANGED <<pending, writes, journal, accepted, lost, batches, reader, nextSeq, process, mishaps>>
        /\ process = "up" /\ session.alive /\ session' = [session EXCEPT !.turns = @ + 1]
    BY <1>9 DEF CommitTurn, journalVars
  <2>2. session \in Snapshot
    BY DEF SnapInv, SnapTypes
  <2>3. session'.alive = session.alive
    BY <2>1, <2>2 DEF Snapshot
  <2>4. ~Gone'
    BY <2>1, <2>3 DEF Gone
  <2> QED
    BY <1>0, <1>b, <1>2, <2>1, <2>4
<1>10. CASE TurnEnds
  <2>1. /\ WritePending /\ session.alive /\ process = "up"
        /\ UNCHANGED <<journal, nextSeq, reader, session, process, accepted, lost, mishaps>>
    BY <1>10 DEF TurnEnds, FlushBoth
  <2>2. /\ Kept(pending', writes', journal', accepted', lost', batches')
        /\ GoesOn(pending', writes', accepted', lost', batches')
    BY <1>0, <2>1, HandsOver
  <2>3. ~Gone' /\ process' # "down"
    BY <2>1 DEF Gone
  <2> QED
    BY <1>0, <1>1, <2>1, <2>2, <2>3
<1>11. CASE DeleteSession
  <2>1. /\ pending' = << >> /\ armed' = FALSE /\ lost' = lost \cup Numbers(pending)
        /\ writes' = Append(writes, Clear) /\ process = "up"
        /\ UNCHANGED <<journal, nextSeq, reader, batches, process, accepted, mishaps>>
    BY <1>11 DEF DeleteSession, ClearJournal
  <2>2. Clear \in [batch : Nat, lines : TraceLines] /\ << >> \in TraceLines
    BY DEF Clear, TraceLines
  <2>3. Joined(writes', writes, Clear)
    BY <1>0, <2>1, <2>2, QueueAppend DEF Kept
  <2>4. /\ Trail(<< >>, writes', journal, accepted, lost \cup Numbers(pending), batches)
        /\ \A b, d \in Nat : Waits(b, d, pending, writes, accepted, batches) =>
                             Waits(b, d, << >>, writes', accepted, batches)
    BY <1>0, <1>a, <2>3, TrailDeleted DEF Kept
  <2>5. lost \cup Numbers(pending) \subseteq 1 .. accepted
    BY <1>0 DEF Kept, Trail, Accounted
  <2>6. Kept(pending', writes', journal', accepted', lost', batches')
    BY <1>0, <2>1, <2>2, <2>3, <2>4, <2>5 DEF Kept, Joined
  <2>7. GoesOn(pending', writes', accepted', lost', batches')
    BY <1>a, <2>1, <2>4 DEF GoesOn
  <2>8. writes' # << >> /\ writes'[Len(writes')] = Clear
    BY <2>3 DEF Joined
  <2>9. Emptied' /\ process' # "down"
    BY <2>1, <2>8 DEF Emptied
  <2> QED
    BY <1>0, <1>1, <2>1, <2>6, <2>7, <2>9
<1>12. ASSUME NEW r \in Readers, Read(r) PROVE JournalInv'
  <2> DEFINE rd == [at |-> "flushing", batch |-> IF pending = << >> THEN 0 ELSE batches + 1,
                    due |-> accepted, got |-> {}]
  <2>1. /\ WritePending /\ session.alive /\ process = "up" /\ reader' = [reader EXCEPT ![r] = rd]
        /\ UNCHANGED <<journal, nextSeq, session, process, accepted, lost, mishaps>>
    BY <1>12 DEF Read, snapshotVars
  <2>2. /\ Kept(pending', writes', journal', accepted', lost', batches')
        /\ GoesOn(pending', writes', accepted', lost', batches')
        /\ pending' = << >>
        /\ pending # << >> => /\ batches' = batches + 1 /\ Len(writes') \in 1 .. Len(writes')
                              /\ writes'[Len(writes')].batch = batches + 1
    BY <1>0, <2>1, HandsOver
  <2>3. /\ rd \in ReadState /\ rd.at = "flushing" /\ rd.due = accepted
        /\ rd.batch # 0 => pending # << >> /\ rd.batch = batches + 1
    BY <1>0, <1>a DEF ReadState, Kept
  <2> HIDE DEF rd
  <2>4. reader' \in [Readers -> ReadState] /\ reader'[r] = rd /\ \A q \in Readers : q # r => reader'[q] = reader[q]
    BY <1>0, <2>1, <2>3 DEF Readings
  <2>5. Reading(rd, pending', writes', accepted', lost', batches')
    <3>1. ASSUME rd.batch # 0 PROVE Waits(rd.batch, rd.due, pending', writes', accepted', batches')
      <4>1. /\ rd.batch = batches' /\ Len(writes') \in 1 .. Len(writes') /\ writes'[Len(writes')].batch = rd.batch
            /\ rd.due = accepted' /\ accepted' \in Nat /\ batches' \in Nat /\ writes' \in Queue
        BY <1>a, <2>1, <2>2, <2>3, <3>1 DEF Kept
      <4>2. Numbers(pending') = {}
        BY <2>2, NumbersOf DEF Kept
      <4>3. \A i \in 1 .. Len(writes') : ~(rd.batch < writes'[i].batch)
        <5>1. \A i \in 1 .. Len(writes') : writes'[i].batch <= batches' /\ writes'[i].batch \in Nat
          BY <2>2, <4>1, QueueAt DEF Kept, Trail, Batched
        <5> QED
          BY <4>1, <5>1
      <4> QED
        BY <4>1, <4>2, <4>3 DEF Waits
    <3> QED
      BY <2>3, <3>1 DEF Reading
  <2>6. ASSUME NEW q \in Readers PROVE Reading(reader'[q], pending', writes', accepted', lost', batches')
    <3>1. CASE q = r
      BY <2>4, <2>5, <3>1
    <3>2. CASE q # r
      <4>1. reader[q] \in ReadState /\ Reading(reader[q], pending, writes, accepted, lost, batches)
        BY <1>0 DEF Readings
      <4>2. accepted' \in Nat
        BY <1>a, <2>1
      <4>3. Reading(reader[q], pending', writes', accepted', lost', batches')
        BY <1>0, <2>2, <4>1, <4>2, ReadGoesOn
      <4> QED
        BY <2>4, <3>2, <4>3
    <3> QED
      BY <3>1, <3>2
  <2>7. Readings'
    BY <2>4, <2>6 DEF Readings
  <2>8. ~Gone' /\ process' # "down"
    BY <2>1 DEF Gone
  <2>9. Cleared'
    BY <1>0, <2>8, ClearedUnless
  <2> QED
    BY <1>0, <2>1, <2>2, <2>7, <2>9 DEF JournalInv
<1>13. ASSUME NEW r \in Readers, ReadLines(r) PROVE JournalInv'
  <2>1. /\ reader[r].at = "flushing" /\ BatchDone(reader[r].batch)
        /\ reader' = [reader EXCEPT ![r].at = "done", ![r].got = Numbers(journal)]
        /\ UNCHANGED <<pending, armed, writes, journal, nextSeq, batches, session, process, accepted, lost, mishaps>>
    BY <1>13 DEF ReadLines, snapshotVars, Numbers
  <2>2. Numbers(journal) \in SUBSET Nat
    BY <1>0, NumbersOf DEF Kept
  <2>3. /\ reader' \in [Readers -> ReadState]
        /\ reader'[r].at = "done" /\ reader'[r].batch = reader[r].batch
        /\ reader'[r].due = reader[r].due /\ reader'[r].got = Numbers(journal)
        /\ \A q \in Readers : q # r => reader'[q] = reader[q]
    <3> DEFINE h == [reader EXCEPT ![r].at = "done", ![r].got = Numbers(journal)]
    <3>1. reader \in [Readers -> ReadState]
      BY <1>0 DEF Readings
    <3>2. /\ h \in [Readers -> ReadState]
          /\ h[r].at = "done" /\ h[r].batch = reader[r].batch
          /\ h[r].due = reader[r].due /\ h[r].got = Numbers(journal)
          /\ \A q \in Readers : q # r => h[q] = reader[q]
      BY <2>2, <3>1 DEF ReadState
    <3>3. reader' = h
      BY <2>1
    <3> HIDE DEF h
    <3> QED
      BY <3>2, <3>3
  <2>4. reader[r] \in ReadState /\ Reading(reader[r], pending, writes, accepted, lost, batches)
    BY <1>0 DEF Readings
  <2>5. Reading(reader'[r], pending, writes, accepted, lost, batches)
    <3>1. ASSUME reader[r].batch # 0
          PROVE  reader[r].due <= accepted /\ (1 .. reader[r].due) \ lost \subseteq Numbers(journal)
      <4>1. reader[r].batch \in Nat /\ reader[r].due \in Nat
        BY <2>4 DEF ReadState
      <4>2. Waits(reader[r].batch, reader[r].due, pending, writes, accepted, batches)
        BY <2>1, <2>4, <3>1 DEF Reading
      <4> QED
        BY <1>0, <2>1, <3>1, <4>1, <4>2, WaitIsOver
    <3> QED
      BY <2>3, <3>1 DEF Reading
  <2>6. \A q \in Readers : Reading(reader'[q], pending, writes, accepted, lost, batches)
    BY <1>0, <2>3, <2>5 DEF Readings
  <2>7. Readings'
    BY <2>1, <2>3, <2>6 DEF Readings
  <2>8. Gone' => Emptied'
    BY <1>b, <2>1 DEF Gone, Emptied
  <2>9. Cleared'
    BY <1>0, <1>b, <2>1, <2>8, ClearedUnless
  <2>10. Kept(pending', writes', journal', accepted', lost', batches')
    BY <1>0, <2>1
  <2> QED
    BY <1>0, <2>1, <2>7, <2>9, <2>10 DEF JournalInv
<1>14. CASE JournalFails
  <2>1. /\ writes # << >> /\ writes' = Tail(writes) /\ mishaps' = mishaps + 1
        /\ lost' = lost \cup Numbers(Head(writes).lines)
        /\ UNCHANGED <<pending, armed, journal, nextSeq, reader, batches, session, process, accepted>>
    BY <1>14 DEF JournalFails, snapshotVars
  <2>2. /\ Head(writes).lines \in TraceLines /\ InOrder(Head(writes).lines)
        /\ Precede(journal, Head(writes).lines) /\ InOrder(journal) /\ journal \in TraceLines
        /\ Numbers(journal) \subseteq (1 .. accepted) \ lost
    BY <1>0, <2>1, HeadOf DEF Kept
  <2>3. \A x : ~(x \in Numbers(journal) /\ x \in Numbers(Head(writes).lines))
    <3>1. \A x \in 1 .. accepted : ~(x < x)
      BY <1>a
    <3> QED
      BY <2>2, <3>1 DEF Precede
  <2>4. Settles(journal, Numbers(Head(writes).lines), journal, Head(writes))
    BY <2>2, <2>3 DEF Settles
  <2>5. /\ Kept(pending', writes', journal', accepted', lost', batches')
        /\ GoesOn(pending', writes', accepted', lost', batches')
    BY <1>0, <2>1, <2>2, <2>4, HeadSettles
  <2>6. mishaps' # 0
    BY <1>a, <2>1
  <2>7. ~Gone'
    BY <2>6 DEF Gone
  <2> QED
    BY <1>0, <1>1, <2>1, <2>5, <2>6, <2>7
<1>15. CASE SnapshotFails
  <2>1. /\ UNCHANGED <<pending, writes, journal, accepted, lost, batches, reader, nextSeq, process>>
        /\ mishaps' = mishaps + 1
    BY <1>15 DEF SnapshotFails, journalVars
  <2>2. mishaps' # 0
    BY <1>a, <2>1
  <2>3. ~Gone'
    BY <2>2 DEF Gone
  <2> QED
    BY <1>0, <1>2, <2>1, <2>2, <2>3
<1>16. CASE Shutdown
  <2>1. /\ WritePending /\ process' = "stopping" /\ armed' = FALSE
        /\ UNCHANGED <<journal, nextSeq, reader, session, accepted, lost, mishaps>>
    BY <1>16 DEF Shutdown, FlushBoth
  <2>2. /\ Kept(pending', writes', journal', accepted', lost', batches')
        /\ GoesOn(pending', writes', accepted', lost', batches')
    BY <1>0, <2>1, HandsOver
  <2>3. ASSUME Gone' PROVE Emptied'
    <3>1. Emptied
      BY <1>b, <2>1, <2>3 DEF Gone
    <3>2. UNCHANGED <<pending, writes>>
      BY <2>1, <3>1 DEF Emptied, WritePending
    <3> QED
      BY <2>1, <3>1, <3>2 DEF Emptied
  <2> QED
    BY <1>0, <1>1, <2>1, <2>2, <2>3
<1>17. CASE Exit
  <2>1. /\ Interrupted /\ process' = "exited"
        /\ IF writes = << >> THEN UNCHANGED mishaps ELSE mishaps' = mishaps + 1
    BY <1>17 DEF Exit
  <2>2. /\ Kept(pending', writes', journal', accepted', lost', batches') /\ Readings'
        /\ pending' = << >> /\ writes' = << >> /\ armed' = FALSE
        /\ writes = << >> => journal' = journal
    BY <1>0, <2>1, KeptInterrupted
  <2>3. nextSeq' = nextSeq /\ session' = session
    BY <2>1 DEF Interrupted
  <2>4. ASSUME Gone' PROVE Emptied'
    <3>1. mishaps' = 0
      BY <2>4 DEF Gone
    <3>2. writes = << >> /\ mishaps = 0
      BY <1>a, <2>1, <3>1
    <3>3. Gone
      BY <2>3, <2>4, <3>2 DEF Gone
    <3>4. journal = << >>
      BY <1>b, <3>2, <3>3 DEF Emptied
    <3> QED
      BY <2>2, <3>2, <3>4 DEF Emptied
  <2>5. Cleared'
    BY <1>0, <2>1, <2>4, ClearedUnless
  <2> QED
    BY <1>0, <2>2, <2>3, <2>5 DEF JournalInv
<1>18. CASE Kill
  <2>1. Interrupted /\ process' = "down" /\ mishaps' = mishaps + 1
    BY <1>18 DEF Kill
  <2>2. /\ Kept(pending', writes', journal', accepted', lost', batches') /\ Readings'
    BY <1>0, <2>1, KeptInterrupted
  <2>3. nextSeq' = nextSeq /\ mishaps' # 0
    BY <1>a, <2>1 DEF Interrupted
  <2>4. ~Gone'
    BY <2>3 DEF Gone
  <2>5. Cleared'
    BY <1>0, <2>3, <2>4, ClearedUnless
  <2> QED
    BY <1>0, <2>2, <2>3, <2>5 DEF JournalInv
<1>19. CASE Start
  <2>1. /\ process \in {"down", "exited"} /\ process' = "up" /\ session' = saved /\ nextSeq' = 0
        /\ UNCHANGED <<pending, armed, writes, journal, accepted, lost, batches, reader, mishaps>>
    BY <1>19 DEF Start
  <2>2. ASSUME Gone' PROVE Emptied'
    <3>1. mishaps = 0 /\ ~saved.alive
      BY <2>1, <2>2 DEF Gone
    <3>2. saved = session
      BY <1>b, <2>1, <3>1 DEF SnapInv, SnapEnds
    <3>3. Emptied
      BY <1>b, <3>1, <3>2 DEF Gone
    <3> QED
      BY <2>1, <3>3 DEF Emptied
  <2> QED
    BY <1>0, <1>2, <2>1, <2>2
<1> QED
  BY <1>3, <1>4, <1>5, <1>6, <1>7, <1>8, <1>9, <1>10, <1>11, <1>12, <1>13, <1>14, <1>15, <1>16,
     <1>17, <1>18, <1>19 DEF StorageNext, StorageWork

\* The invariant says what the runs check of the journal.
LEMMA JournalInvTells == JournalInv => JournalKept
<1> SUFFICES ASSUME JournalInv PROVE JournalKept
  OBVIOUS
<1>1. /\ Kept(pending, writes, journal, accepted, lost, batches)
      /\ Readings /\ Cleared /\ Ordered(pending, writes, journal)
  BY DEF JournalInv, Kept, Trail
<1>2. Len(writes) \in Nat
  BY <1>1 DEF Kept, Queue
<1>3. TrailInOrder
  <2>1. SUFFICES ASSUME NEW place \in Places
                 PROVE  /\ InOrder(LinesAt(place))
                        /\ \A later \in Places : place < later => Precede(LinesAt(place), LinesAt(later))
    BY DEF TrailInOrder
  <2>2. \A q \in Places : q = 0 \/ q \in 1 .. Len(writes) \/ q = Len(writes) + 1
    BY <1>2 DEF Places
  <2>3. /\ LinesAt(0) = journal /\ LinesAt(Len(writes) + 1) = pending
        /\ \A i \in 1 .. Len(writes) : LinesAt(i) = writes[i].lines
    BY <1>2 DEF LinesAt
  <2>4. InOrder(LinesAt(place))
    BY <1>1, <2>2, <2>3 DEF Ordered
  <2>5. ASSUME NEW later \in Places, place < later PROVE Precede(LinesAt(place), LinesAt(later))
    <3>1. CASE place = 0
      <4>1. later \in 1 .. Len(writes) \/ later = Len(writes) + 1
        BY <2>2, <2>5, <3>1
      <4> QED
        BY <1>1, <2>3, <3>1, <4>1 DEF Ordered
    <3>2. CASE place \in 1 .. Len(writes)
      <4>1. later \in 1 .. Len(writes) \/ later = Len(writes) + 1
        BY <2>2, <2>5, <3>2
      <4> QED
        BY <1>1, <2>3, <2>5, <3>2, <4>1 DEF Ordered
    <3>3. CASE place = Len(writes) + 1
      BY <1>2, <2>2, <2>5, <3>3
    <3> QED
      BY <2>2, <3>1, <3>2, <3>3
  <2> QED
    BY <2>4, <2>5
<1>4. DeletedJournalIsEmpty
  BY <1>1, Zenon DEF DeletedJournalIsEmpty, Cleared
<1>5. FlushingReadIsComplete
  BY <1>1 DEF FlushingReadIsComplete, Readings, Reading
<1> QED
  BY <1>3, <1>4, <1>5 DEF JournalKept

-----------------------------------------------------------------------------
(* Replay.                                                                 *)

\* f is the sequence of stores that a replay of the first n lines goes through.
IsRun(f, m, lines, n) ==
  f = [k \in 0 .. n |-> IF k = 0 THEN m ELSE Replayed(f[k - 1], lines[k])]

\* The same, one store after the other.
Steps(f, m, lines, n) ==
  f[0] = m /\ \A k \in 1 .. n : f[k] = Replayed(f[k - 1], lines[k])

\* The lines of any length have a run.
LEMMA RunExists ==
  ASSUME NEW m, NEW lines, NEW n \in Nat
  PROVE  \E f : IsRun(f, m, lines, n)
<1> DEFINE S == {k \in Nat : \E f : IsRun(f, m, lines, k)}
<1>1. 0 \in S
  <2>1. IsRun([k \in 0 .. 0 |-> m], m, lines, 0)
    BY DEF IsRun
  <2> QED
    BY <2>1
<1>2. ASSUME NEW k \in Nat, k \in S PROVE k + 1 \in S
  <2>1. PICK f : IsRun(f, m, lines, k)
    BY <1>2
  <2> DEFINE g == [i \in 0 .. k + 1 |-> IF i = k + 1 THEN Replayed(f[k], lines[k + 1]) ELSE f[i]]
  <2>2. \A i \in 0 .. k + 1 : g[i] = IF i = 0 THEN m ELSE Replayed(g[i - 1], lines[i])
    <3>1. \A i \in 0 .. k : f[i] = IF i = 0 THEN m ELSE Replayed(f[i - 1], lines[i])
      BY <2>1 DEF IsRun
    <3> QED
      BY <3>1
  <2>3. g = [i \in 0 .. k + 1 |-> g[i]]
    OBVIOUS
  <2> HIDE DEF g
  <2>4. IsRun(g, m, lines, k + 1)
    BY <2>2, <2>3 DEF IsRun
  <2> QED
    BY <2>4
<1>3. Nat \subseteq S
  BY <1>1, <1>2, Shared!SetInduction
<1> QED
  BY <1>3

\* A replay ends where its run does.
LEMMA ReplayRuns ==
  ASSUME NEW m, NEW lines, Len(lines) \in Nat
  PROVE  \E f : Steps(f, m, lines, Len(lines)) /\ Replay(m, lines) = f[Len(lines)]
<1> DEFINE f == CHOOSE g : IsRun(g, m, lines, Len(lines))
<1>1. IsRun(f, m, lines, Len(lines))
  BY RunExists
<1>2. Replay(m, lines) = f[Len(lines)]
  BY DEF Replay, IsRun
<1> HIDE DEF f
<1>3. \A i \in 0 .. Len(lines) : f[i] = IF i = 0 THEN m ELSE Replayed(f[i - 1], lines[i])
  BY <1>1 DEF IsRun
<1>4. Steps(f, m, lines, Len(lines))
  BY <1>3 DEF Steps
<1> QED
  BY <1>2, <1>4

\* Runs of the same lines are the same.
LEMMA RunsAgree ==
  ASSUME NEW m, NEW lines, NEW n \in Nat, NEW f, NEW g,
         Steps(f, m, lines, n), Steps(g, m, lines, n)
  PROVE  \A k \in 0 .. n : f[k] = g[k]
<1> DEFINE S == {k \in Nat : k <= n => f[k] = g[k]}
<1>1. 0 \in S
  BY DEF Steps
<1>2. ASSUME NEW k \in Nat, k \in S PROVE k + 1 \in S
  <2>1. SUFFICES ASSUME k + 1 <= n PROVE f[k + 1] = g[k + 1]
    OBVIOUS
  <2>2. f[k] = g[k] /\ k + 1 \in 1 .. n /\ k + 1 - 1 = k
    BY <1>2, <2>1
  <2> QED
    BY <2>2 DEF Steps
<1>3. Nat \subseteq S
  BY <1>1, <1>2, Shared!SetInduction
<1> QED
  BY <1>3

\* No lines change nothing.
LEMMA ReplayNothing ==
  ASSUME NEW m
  PROVE  Replay(m, << >>) = m
<1>1. Len(<< >>) = 0
  OBVIOUS
<1>2. PICK f : Steps(f, m, << >>, Len(<< >>)) /\ Replay(m, << >>) = f[Len(<< >>)]
  BY <1>1, ReplayRuns
<1> QED
  BY <1>1, <1>2 DEF Steps

\* The last line is replayed last.
LEMMA ReplayLast ==
  ASSUME NEW m, NEW S, NEW lines \in Seq(S), NEW line \in S
  PROVE  Replay(m, Append(lines, line)) = Replayed(Replay(m, lines), line)
<1> DEFINE more == Append(lines, line)  n == Len(lines)
<1>1. /\ n \in Nat /\ Len(more) = n + 1 /\ more[n + 1] = line
      /\ \A k \in 1 .. n : more[k] = lines[k]
  OBVIOUS
<1> HIDE DEF more, n
<1>2. PICK f : Steps(f, m, lines, n) /\ Replay(m, lines) = f[n]
  BY <1>1, ReplayRuns DEF n
<1>3. PICK g : Steps(g, m, more, n + 1) /\ Replay(m, more) = g[n + 1]
  BY <1>1, ReplayRuns
<1>4. Steps(g, m, lines, n)
  BY <1>1, <1>3 DEF Steps
<1>5. f[n] = g[n]
  BY <1>1, <1>2, <1>4, RunsAgree
<1>6. g[n + 1] = Replayed(g[n], line)
  BY <1>1, <1>3 DEF Steps
<1> QED
  BY <1>2, <1>3, <1>5, <1>6 DEF more

-----------------------------------------------------------------------------
(* The sessions, and what a line does to them.                             *)

Stores == UNION {[D -> Session] : D \in SUBSET Requests}
Line == Operation \cup {Corrupt}
Statuses == Final \cup {"active"}

\* What an operation is made of.
LEMMA OperationIs ==
  ASSUME NEW op \in Operation
  PROVE  /\ op # None /\ op # Corrupt /\ op.id \in Requests
         /\ op.kind \in {"create", "entry", "finish", "delete"}
         /\ op.kind = "entry" => op.entry \in Entry /\ op.seq \in Nat
         /\ op.kind = "finish" => op.status \in Final
<1>1. op # None /\ op # Corrupt
  BY MarkerAssumption
<1>2. CASE \E r \in Requests : op = Create(r)
  BY <1>1, <1>2 DEF Create
<1>3. CASE \E r, id \in Requests : \E seq \in 0 .. MaxEntries - 1 : \E spilled \in BOOLEAN :
             op = Note(r, id, seq, spilled)
  <2>1. PICK r \in Requests, id \in Requests, seq \in 0 .. MaxEntries - 1, spilled \in BOOLEAN :
             op = Note(r, id, seq, spilled)
    BY <1>3
  <2>2. op.entry = [text |-> r, spilled |-> spilled] /\ op.kind = "entry" /\ op.id = id /\ op.seq = seq
    BY <2>1 DEF Note
  <2>3. op.entry \in Entry
    BY <2>2 DEF Entry
  <2> QED
    BY <1>1, <2>2, <2>3
<1>4. CASE \E id \in Requests : \E status \in Outcomes : op = Finish(id, status)
  BY <1>1, <1>4, LedgerAssumption DEF Finish, Final
<1>5. CASE \E id \in Requests : op = Delete(id)
  BY <1>1, <1>5 DEF Delete
<1> QED
  BY <1>2, <1>3, <1>4, <1>5 DEF Operation

\* What a store is.
LEMMA StoreIs ==
  ASSUME NEW m \in Stores
  PROVE  /\ m = [i \in DOMAIN m |-> m[i]] /\ DOMAIN m \subseteq Requests
         /\ \A i \in DOMAIN m : /\ m[i] \in Session /\ m[i].status \in Final \cup {"active"}
                                /\ m[i].entries \in Seq(Entry) /\ Len(m[i].entries) \in Nat
<1>1. PICK D \in SUBSET Requests : m \in [D -> Session]
  BY DEF Stores
<1>2. m = [i \in D |-> m[i]] /\ DOMAIN m = D /\ \A i \in D : m[i] \in Session
  BY <1>1
<1>3. \A s \in Session : s.status \in Final \cup {"active"} /\ s.entries \in Seq(Entry)
  BY DEF Session
<1>4. \A s \in Seq(Entry) : Len(s) \in Nat
  OBVIOUS
<1> QED
  BY <1>2, <1>3, <1>4

\* What makes a store.
LEMMA StoreMade ==
  ASSUME NEW m, NEW D \in SUBSET Requests, m = [i \in D |-> m[i]], \A i \in D : m[i] \in Session
  PROVE  m \in Stores
<1>1. m \in [D -> Session]
  OBVIOUS
<1> QED
  BY <1>1 DEF Stores

\* Stores with the same sessions are the same.
LEMMA SameStore ==
  ASSUME NEW m \in Stores, NEW w \in Stores, DOMAIN m = DOMAIN w,
         \A i \in DOMAIN m : m[i].status = w[i].status /\ m[i].entries = w[i].entries
  PROVE  m = w
<1>1. \A s, t \in Session : s.status = t.status /\ s.entries = t.entries => s = t
  BY DEF Session
<1>2. \A i \in DOMAIN m : m[i] = w[i]
  BY <1>1, StoreIs
<1>3. m = [i \in DOMAIN m |-> m[i]] /\ w = [i \in DOMAIN w |-> w[i]]
  BY StoreIs
<1> QED
  BY <1>2, <1>3

\* A restart finds the same sessions with the same entries, and none active.
LEMMA StaleIs ==
  ASSUME NEW m \in Stores
  PROVE  /\ Stale(m) \in Stores /\ DOMAIN Stale(m) = DOMAIN m
         /\ \A i \in DOMAIN m : /\ Stale(m)[i].entries = m[i].entries
                                /\ Stale(m)[i].status =
                                     (IF m[i].status = "active" THEN "failed" ELSE m[i].status)
<1> DEFINE w == Stale(m)
<1>1. DOMAIN w = DOMAIN m /\ w = [i \in DOMAIN m |-> w[i]]
  BY DEF Stale
<1>2. ASSUME NEW i \in DOMAIN m
      PROVE  /\ w[i].entries = m[i].entries /\ w[i] \in Session
             /\ w[i].status = (IF m[i].status = "active" THEN "failed" ELSE m[i].status)
  <2>1. w[i] = [m[i] EXCEPT !.status = IF @ = "active" THEN "failed" ELSE @]
    BY DEF Stale
  <2> DEFINE s == m[i]
  <2>2. s \in Session /\ s.status \in Final \cup {"active"}
    BY StoreIs
  <2> HIDE DEF s
  <2>3. w[i] = [s EXCEPT !.status = IF s.status = "active" THEN "failed" ELSE s.status]
    BY <2>1 DEF s
  <2>4. w[i].status = IF s.status = "active" THEN "failed" ELSE s.status
    BY <2>2, <2>3 DEF Session
  <2>5. w[i].entries = s.entries
    BY <2>2, <2>3 DEF Session
  <2>6. w[i] \in Session
    BY <2>2, <2>3 DEF Session, Final
  <2> QED
    BY <2>4, <2>5, <2>6 DEF s
<1> HIDE DEF w
<1>3. w \in Stores
  BY <1>1, <1>2, StoreIs, StoreMade
<1> QED
  BY <1>1, <1>2, <1>3 DEF w

\* Twice is once.
LEMMA StaleTwice ==
  ASSUME NEW m \in Stores
  PROVE  Stale(Stale(m)) = Stale(m)
<1>1. \A i \in DOMAIN m : m[i].status \in Final \cup {"active"}
  BY StoreIs
<1>2. Stale(m) \in Stores /\ Stale(Stale(m)) \in Stores
  BY StaleIs
<1>3. DOMAIN Stale(Stale(m)) = DOMAIN Stale(m) /\ DOMAIN Stale(m) = DOMAIN m
  BY <1>2, StaleIs
<1>4. ASSUME NEW i \in DOMAIN m
      PROVE  /\ Stale(Stale(m))[i].status = Stale(m)[i].status
             /\ Stale(Stale(m))[i].entries = Stale(m)[i].entries
  <2>1. /\ Stale(Stale(m))[i].entries = Stale(m)[i].entries
        /\ Stale(Stale(m))[i].status = (IF Stale(m)[i].status = "active" THEN "failed" ELSE Stale(m)[i].status)
    BY <1>2, <1>3, StaleIs
  <2>2. Stale(m)[i].status = (IF m[i].status = "active" THEN "failed" ELSE m[i].status)
    BY StaleIs
  <2> QED
    BY <2>1, <2>2
<1> QED
  BY <1>2, <1>3, <1>4, SameStore

\* A session is opened, with a status.
LEMMA OpenedIs ==
  ASSUME NEW m \in Stores, NEW id \in Requests, NEW status \in Statuses
  PROVE  /\ Opened(m, id, status) \in Stores
         /\ DOMAIN Opened(m, id, status) = DOMAIN m \cup {id}
         /\ Opened(m, id, status)[id].status = status
         /\ Opened(m, id, status)[id].entries = << >>
         /\ \A i \in DOMAIN m : i # id => Opened(m, id, status)[i] = m[i]
<1> DEFINE w == Opened(m, id, status)
<1>1. /\ DOMAIN w = DOMAIN m \cup {id} /\ w = [i \in DOMAIN m \cup {id} |-> w[i]]
      /\ w[id] = [status |-> status, entries |-> << >>]
      /\ \A i \in DOMAIN m : i # id => w[i] = m[i]
  BY DEF Opened
<1> HIDE DEF w
<1>2. << >> \in Seq(Entry)
  OBVIOUS
<1>3. w[id] \in Session /\ w[id].status = status /\ w[id].entries = << >>
  <2>1. w[id].status = status /\ w[id].entries = << >>
    BY <1>1
  <2>2. \A a \in Statuses, b \in Seq(Entry) : [status |-> a, entries |-> b] \in Session
    BY DEF Session, Statuses
  <2>3. w[id] \in Session
    BY <1>1, <1>2, <2>2
  <2> QED
    BY <2>1, <2>3
<1>4. w \in Stores
  BY <1>1, <1>3, StoreIs, StoreMade
<1> QED
  BY <1>1, <1>3, <1>4 DEF w

\* A session is dropped.
LEMMA WithoutIs ==
  ASSUME NEW m \in Stores, NEW id
  PROVE  /\ Without(m, id) \in Stores /\ DOMAIN Without(m, id) = DOMAIN m \ {id}
         /\ \A i \in DOMAIN m : i # id => Without(m, id)[i] = m[i]
<1> DEFINE w == Without(m, id)
<1>1. /\ DOMAIN w = DOMAIN m \ {id} /\ w = [i \in DOMAIN m \ {id} |-> w[i]]
      /\ \A i \in DOMAIN m : i # id => w[i] = m[i]
  BY DEF Without
<1> HIDE DEF w
<1>2. w \in Stores
  BY <1>1, StoreIs, StoreMade
<1> QED
  BY <1>1, <1>2 DEF w

\* A session gets an entry.
LEMMA PushedIs ==
  ASSUME NEW m \in Stores, NEW op, op.id \in DOMAIN m, op.entry \in Entry
  PROVE  /\ Pushed(m, op) \in Stores /\ DOMAIN Pushed(m, op) = DOMAIN m
         /\ Pushed(m, op)[op.id].status = m[op.id].status
         /\ Pushed(m, op)[op.id].entries = Append(m[op.id].entries, op.entry)
         /\ \A i \in DOMAIN m : i # op.id => Pushed(m, op)[i] = m[i]
<1> DEFINE w == Pushed(m, op)  s == m[op.id]
<1>1. m = [i \in DOMAIN m |-> m[i]] /\ s \in Session /\ s.entries \in Seq(Entry)
  BY StoreIs
<1> HIDE DEF s
<1>2. /\ DOMAIN w = DOMAIN m /\ w = [i \in DOMAIN m |-> w[i]]
      /\ w[op.id] = [s EXCEPT !.entries = Append(s.entries, op.entry)]
      /\ \A i \in DOMAIN m : i # op.id => w[i] = m[i]
  BY <1>1 DEF Pushed, s
<1> HIDE DEF w
<1>3. Append(s.entries, op.entry) \in Seq(Entry)
  BY <1>1
<1>4. /\ w[op.id] \in Session /\ w[op.id].status = s.status
      /\ w[op.id].entries = Append(s.entries, op.entry)
  BY <1>1, <1>2, <1>3 DEF Session
<1>5. w \in Stores
  BY <1>2, <1>4, StoreIs, StoreMade
<1> QED
  BY <1>2, <1>4, <1>5 DEF w, s

\* A session gets its final status.
LEMMA ClosedIs ==
  ASSUME NEW m \in Stores, NEW op, op.id \in DOMAIN m, op.status \in Final
  PROVE  /\ Closed(m, op) \in Stores /\ DOMAIN Closed(m, op) = DOMAIN m
         /\ Closed(m, op)[op.id].status = op.status
         /\ Closed(m, op)[op.id].entries = m[op.id].entries
         /\ \A i \in DOMAIN m : i # op.id => Closed(m, op)[i] = m[i]
<1> DEFINE w == Closed(m, op)  s == m[op.id]
<1>1. m = [i \in DOMAIN m |-> m[i]] /\ s \in Session
  BY StoreIs
<1> HIDE DEF s
<1>2. /\ DOMAIN w = DOMAIN m /\ w = [i \in DOMAIN m |-> w[i]]
      /\ w[op.id] = [s EXCEPT !.status = op.status]
      /\ \A i \in DOMAIN m : i # op.id => w[i] = m[i]
  BY <1>1 DEF Closed, s
<1> HIDE DEF w
<1>3. /\ w[op.id] \in Session /\ w[op.id].status = op.status
      /\ w[op.id].entries = s.entries
  BY <1>1, <1>2 DEF Session
<1>4. w \in Stores
  BY <1>2, <1>3, StoreIs, StoreMade
<1> QED
  BY <1>2, <1>3, <1>4 DEF w, s

\* A call leaves a store behind.
LEMMA AppliedStores ==
  ASSUME NEW m \in Stores, NEW op \in Operation, Accepted(m, op)
  PROVE  Applied(m, op) \in Stores
<1>1. CASE op.kind = "create"
  <2>1. Applied(m, op) = Opened(m, op.id, "active")
    BY <1>1 DEF Applied
  <2>2. PICK a \in Statuses : a = "active"
    BY DEF Statuses
  <2>3. op.id \in Requests /\ Applied(m, op) = Opened(m, op.id, a)
    BY <2>1, <2>2, OperationIs
  <2>4. Opened(m, op.id, a) \in Stores
    BY <2>3, OpenedIs, Zenon
  <2> QED
    BY <2>3, <2>4
<1>2. CASE op.kind = "entry"
  <2>1. Applied(m, op) = Pushed(m, op) /\ op.id \in DOMAIN m
    BY <1>2 DEF Applied, Accepted
  <2> QED
    BY <1>2, <2>1, OperationIs, PushedIs
<1>3. CASE op.kind = "finish"
  <2>1. Applied(m, op) = Closed(m, op) /\ op.id \in DOMAIN m
    BY <1>3 DEF Applied, Accepted
  <2> QED
    BY <1>3, <2>1, OperationIs, ClosedIs
<1>4. CASE op.kind = "delete"
  <2>1. Applied(m, op) = Without(m, op.id)
    BY <1>4 DEF Applied
  <2> QED
    BY <2>1, WithoutIs
<1> QED
  BY <1>1, <1>2, <1>3, <1>4, OperationIs

\* A line leaves a store behind.
LEMMA ReplayedStores ==
  ASSUME NEW m \in Stores, NEW line \in Line
  PROVE  Replayed(m, line) \in Stores
<1>1. CASE line = Corrupt
  BY <1>1 DEF Replayed
<1>2. CASE line # Corrupt
  <2>1. line \in Operation
    BY <1>2 DEF Line
  <2>2. CASE line.kind = "create"
    <3>1. Replayed(m, line) = m \/ Replayed(m, line) = Opened(m, line.id, "failed")
      BY <1>2, <2>2 DEF Replayed
    <3>2. PICK a \in Statuses : a = "failed"
      BY DEF Final, Statuses
    <3>3. line.id \in Requests /\ (Replayed(m, line) = m \/ Replayed(m, line) = Opened(m, line.id, a))
      BY <2>1, <3>1, <3>2, OperationIs
    <3>4. Opened(m, line.id, a) \in Stores
      BY <3>3, OpenedIs, Zenon
    <3> QED
      BY <3>3, <3>4
  <2>3. CASE line.kind = "entry"
    <3>1. Replayed(m, line) = m \/ (Replayed(m, line) = Pushed(m, line) /\ line.id \in DOMAIN m)
      BY <1>2, <2>3 DEF Replayed, Accepted
    <3> QED
      BY <2>1, <2>3, <3>1, OperationIs, PushedIs
  <2>4. CASE line.kind = "finish"
    <3>1. Replayed(m, line) = m \/ (Replayed(m, line) = Closed(m, line) /\ line.id \in DOMAIN m)
      BY <1>2, <2>4 DEF Replayed, Accepted
    <3> QED
      BY <2>1, <2>4, <3>1, OperationIs, ClosedIs
  <2>5. CASE line.kind = "delete"
    <3>1. Replayed(m, line) = Without(m, line.id)
      BY <1>2, <2>5 DEF Replayed
    <3> QED
      BY <3>1, WithoutIs
  <2> QED
    BY <2>1, <2>2, <2>3, <2>4, <2>5, OperationIs
<1> QED
  BY <1>1, <1>2

\* So does a replay of any log.
LEMMA ReplayStores ==
  ASSUME NEW m \in Stores, NEW lines \in Seq(Line)
  PROVE  Replay(m, lines) \in Stores
<1>1. Len(lines) \in Nat /\ \A k \in 1 .. Len(lines) : lines[k] \in Line
  OBVIOUS
<1>2. PICK f : Steps(f, m, lines, Len(lines)) /\ Replay(m, lines) = f[Len(lines)]
  BY <1>1, ReplayRuns
<1> DEFINE S == {k \in Nat : k <= Len(lines) => f[k] \in Stores}
<1>3. 0 \in S
  BY <1>2 DEF Steps
<1>4. ASSUME NEW k \in Nat, k \in S PROVE k + 1 \in S
  <2>1. SUFFICES ASSUME k + 1 <= Len(lines) PROVE f[k + 1] \in Stores
    OBVIOUS
  <2>2. f[k] \in Stores /\ lines[k + 1] \in Line /\ k + 1 \in 1 .. Len(lines) /\ k + 1 - 1 = k
    BY <1>1, <1>4, <2>1
  <2>3. f[k + 1] = Replayed(f[k], lines[k + 1])
    BY <1>2, <2>2 DEF Steps
  <2> QED
    BY <2>2, <2>3, ReplayedStores
<1>5. Nat \subseteq S
  BY <1>3, <1>4, Shared!SetInduction
<1> QED
  BY <1>1, <1>2, <1>5

\* To replay the line of a call over what a restart would have found is to find what the call
\* has left: for a new session, and an entry with the next number.
LEMMA ReplayedApplied ==
  ASSUME NEW m \in Stores, NEW op \in Operation, Accepted(m, op),
         op.kind = "create" => op.id \notin DOMAIN m,
         op.kind = "entry" => op.seq = Len(m[op.id].entries)
  PROVE  Replayed(Stale(m), op) = Stale(Applied(m, op))
<1> DEFINE s == Stale(m)  w == Applied(m, op)  z == Stale(w)  v == Replayed(s, op)
<1>1. op # Corrupt /\ op.id \in Requests /\ op \in Line
  BY OperationIs DEF Line
<1>0. s \in Stores /\ DOMAIN s = DOMAIN m
  BY StaleIs
<1>2. /\ s \in Stores /\ DOMAIN s = DOMAIN m
      /\ \A i \in DOMAIN m : /\ s[i].entries = m[i].entries
                             /\ s[i].status = (IF m[i].status = "active" THEN "failed" ELSE m[i].status)
  BY StaleIs
<1>3. w \in Stores
  BY AppliedStores
<1>4. /\ z \in Stores /\ DOMAIN z = DOMAIN w
      /\ \A i \in DOMAIN w : /\ z[i].entries = w[i].entries
                             /\ z[i].status = (IF w[i].status = "active" THEN "failed" ELSE w[i].status)
  BY <1>3, StaleIs
<1>5. v \in Stores
  BY <1>1, <1>2, ReplayedStores
<1>6. \A st \in Final : st # "active"
  BY DEF Final
<1>7. PICK a \in Statuses, b \in Statuses : a = "active" /\ b = "failed"
  BY DEF Final, Statuses
<1>8. DOMAIN v = DOMAIN z /\ \A i \in DOMAIN v : v[i].status = z[i].status /\ v[i].entries = z[i].entries
  <2>1. CASE op.kind = "create"
    <3>1. w = Opened(m, op.id, a)
      BY <1>7, <2>1 DEF Applied
    <3>2. Cardinality(DOMAIN s) < MaxSessions /\ op.id \notin DOMAIN s
      BY <1>2, <2>1 DEF Accepted
    <3>3. v = Opened(s, op.id, b)
      BY <1>1, <1>7, <2>1, <3>2 DEF Replayed, Accepted
    <3> HIDE DEF s, w, z, v
    <3>4. /\ DOMAIN w = DOMAIN m \cup {op.id} /\ w[op.id].status = a /\ w[op.id].entries = << >>
          /\ \A i \in DOMAIN m : i # op.id => w[i] = m[i]
      <4>1. /\ Opened(m, op.id, a) \in Stores
            /\ DOMAIN Opened(m, op.id, a) = DOMAIN m \cup {op.id}
            /\ Opened(m, op.id, a)[op.id].status = a
            /\ Opened(m, op.id, a)[op.id].entries = << >>
            /\ \A i \in DOMAIN m : i # op.id => Opened(m, op.id, a)[i] = m[i]
        BY <1>1, OpenedIs
      <4> QED
        BY <3>1, <4>1, Zenon
    <3>5. /\ DOMAIN v = DOMAIN s \cup {op.id} /\ v[op.id].status = b /\ v[op.id].entries = << >>
          /\ \A i \in DOMAIN s : i # op.id => v[i] = s[i]
      <4>1. /\ Opened(s, op.id, b) \in Stores
            /\ DOMAIN Opened(s, op.id, b) = DOMAIN s \cup {op.id}
            /\ Opened(s, op.id, b)[op.id].status = b
            /\ Opened(s, op.id, b)[op.id].entries = << >>
            /\ \A i \in DOMAIN s : i # op.id => Opened(s, op.id, b)[i] = s[i]
        BY <1>0, <1>1, OpenedIs
      <4> QED
        BY <3>3, <4>1, Zenon
    <3> QED
      BY <1>2, <1>4, <1>7, <3>2, <3>4, <3>5
  <2>2. CASE op.kind = "entry"
    <3>1. w = Pushed(m, op) /\ op.id \in DOMAIN m
      BY <2>2 DEF Applied, Accepted
    <3>2. op.id \in DOMAIN s /\ Len(s[op.id].entries) < MaxEntries /\ op.seq = Len(s[op.id].entries)
      BY <1>2, <2>2, <3>1 DEF Accepted
    <3>3. Len(s[op.id].entries) \in Nat
      BY <1>2, <3>2, StoreIs
    <3>4. v = Pushed(s, op)
      <4>1. Accepted(s, op) /\ ~AlreadyThere(s, op)
        BY <2>2, <3>2, <3>3 DEF Accepted, AlreadyThere
      <4> QED
        BY <1>1, <2>2, <4>1 DEF Replayed
    <3>5. op.entry \in Entry
      BY <2>2, OperationIs
    <3> HIDE DEF s, w, z, v
    <3>6. /\ DOMAIN w = DOMAIN m /\ w[op.id].status = m[op.id].status
          /\ w[op.id].entries = Append(m[op.id].entries, op.entry)
          /\ \A i \in DOMAIN m : i # op.id => w[i] = m[i]
      BY <3>1, <3>5, PushedIs
    <3>7. /\ DOMAIN v = DOMAIN s /\ v[op.id].status = s[op.id].status
          /\ v[op.id].entries = Append(s[op.id].entries, op.entry)
          /\ \A i \in DOMAIN s : i # op.id => v[i] = s[i]
      BY <1>2, <3>2, <3>4, <3>5, PushedIs
    <3>8. s[op.id].entries = m[op.id].entries
      BY <1>2, <3>1
    <3>9. v[op.id].entries = z[op.id].entries /\ v[op.id].status = z[op.id].status
      BY <1>2, <1>4, <3>1, <3>6, <3>7, <3>8
    <3>10. \A i \in DOMAIN m : i # op.id => v[i].entries = z[i].entries /\ v[i].status = z[i].status
      BY <1>2, <1>4, <3>6, <3>7
    <3> QED
      BY <1>0, <1>4, <3>6, <3>7, <3>9, <3>10
  <2>3. CASE op.kind = "finish"
    <3>1. w = Closed(m, op) /\ op.id \in DOMAIN m
      BY <2>3 DEF Applied, Accepted
    <3>2. op.id \in DOMAIN s
      BY <1>2, <3>1
    <3>3. v = Closed(s, op)
      BY <1>1, <2>3, <3>2 DEF Replayed, Accepted
    <3>4. op.status \in Final
      BY <2>3, OperationIs
    <3> HIDE DEF s, w, z, v
    <3>5. /\ DOMAIN w = DOMAIN m /\ w[op.id].status = op.status
          /\ w[op.id].entries = m[op.id].entries
          /\ \A i \in DOMAIN m : i # op.id => w[i] = m[i]
      BY <3>1, <3>4, ClosedIs
    <3>6. /\ DOMAIN v = DOMAIN s /\ v[op.id].status = op.status
          /\ v[op.id].entries = s[op.id].entries
          /\ \A i \in DOMAIN s : i # op.id => v[i] = s[i]
      BY <1>2, <3>2, <3>3, <3>4, ClosedIs
    <3>7. op.status # "active"
      BY <1>6, <3>4
    <3> QED
      BY <1>2, <1>4, <3>1, <3>5, <3>6, <3>7
  <2>4. CASE op.kind = "delete"
    <3>1. w = Without(m, op.id)
      BY <2>4 DEF Applied
    <3>2. v = Without(s, op.id)
      BY <1>1, <2>4 DEF Replayed
    <3> HIDE DEF s, w, z, v
    <3>3. DOMAIN w = DOMAIN m \ {op.id} /\ \A i \in DOMAIN m : i # op.id => w[i] = m[i]
      BY <3>1, WithoutIs
    <3>4. DOMAIN v = DOMAIN s \ {op.id} /\ \A i \in DOMAIN s : i # op.id => v[i] = s[i]
      BY <1>0, <3>2, WithoutIs
    <3> QED
      BY <1>2, <1>4, <3>3, <3>4
  <2> QED
    BY <2>1, <2>2, <2>3, <2>4, OperationIs
<1> HIDE DEF s, w, z, v
<1>9. v = z
  BY <1>4, <1>5, <1>8, SameStore
<1> QED
  BY <1>9 DEF v, z, s, w

-----------------------------------------------------------------------------
(* What lines that a snapshot already holds say.                           *)

DeletedBehind(lines, j, id) ==
  \E l \in j + 1 .. Len(lines) : lines[l] # Corrupt /\ lines[l].kind = "delete" /\ lines[l].id = id
FinishedBehind(lines, j, id) ==
  \E l \in j + 1 .. Len(lines) : lines[l] # Corrupt /\ lines[l].kind = "finish" /\ lines[l].id = id

\* Nothing the lines say goes beyond m: what they create is there or deleted further on, what
\* they add is there, the last finish has the say, and what they delete is gone.
Agrees(lines, m) ==
  \A j \in 1 .. Len(lines) : lines[j] # Corrupt =>
    /\ lines[j].kind = "create" =>
         lines[j].id \in DOMAIN m \/ DeletedBehind(lines, j, lines[j].id)
    /\ lines[j].kind = "entry" =>
         (lines[j].id \in DOMAIN m => lines[j].seq < Len(m[lines[j].id].entries))
    /\ lines[j].kind = "finish" =>
         (lines[j].id \in DOMAIN m =>
            (m[lines[j].id].status = lines[j].status \/ FinishedBehind(lines, j, lines[j].id)))
    /\ lines[j].kind = "delete" => lines[j].id \notin DOMAIN m

\* Where a replay of such lines over m is after k of them: m, but for a status that a finish
\* behind will set, and sessions that a delete behind will remove.
Amid(lines, k, m, v) ==
  /\ v \in Stores /\ DOMAIN m \subseteq DOMAIN v
  /\ \A id \in DOMAIN m : v[id].entries = m[id].entries
  /\ \A id \in DOMAIN m : v[id].status = Stale(m)[id].status \/ FinishedBehind(lines, k, id)
  /\ \A id \in DOMAIN v : id \in DOMAIN m \/ DeletedBehind(lines, k, id)

\* The line after the k lines leaves that true.
LEMMA AmidStep ==
  ASSUME NEW m \in Stores, NEW lines \in Seq(Line), Agrees(lines, m),
         NEW k \in Nat, k + 1 <= Len(lines), NEW v, Amid(lines, k, m, v)
  PROVE  Amid(lines, k + 1, m, Replayed(v, lines[k + 1]))
<1> DEFINE j == k + 1  line == lines[j]  w == Replayed(v, line)  id == line.id
<1>1. Len(lines) \in Nat /\ j \in 1 .. Len(lines) /\ line \in Line
  OBVIOUS
<1>2. /\ v \in Stores /\ DOMAIN m \subseteq DOMAIN v
      /\ \A i \in DOMAIN m : v[i].entries = m[i].entries
      /\ \A i \in DOMAIN m : v[i].status = Stale(m)[i].status \/ FinishedBehind(lines, k, i)
      /\ \A i \in DOMAIN v : i \in DOMAIN m \/ DeletedBehind(lines, k, i)
  BY DEF Amid
<1>3. w \in Stores
  BY <1>1, <1>2, ReplayedStores
<1>4. \A l \in k + 1 .. Len(lines) : l = j \/ l \in j + 1 .. Len(lines)
  BY <1>1
\* What is further on is still so, but for this line.
<1>5. \A i : FinishedBehind(lines, k, i) =>
               (FinishedBehind(lines, j, i) \/ (line # Corrupt /\ line.kind = "finish" /\ id = i))
  BY <1>4 DEF FinishedBehind
<1>6. \A i : DeletedBehind(lines, k, i) =>
               (DeletedBehind(lines, j, i) \/ (line # Corrupt /\ line.kind = "delete" /\ id = i))
  BY <1>4 DEF DeletedBehind
\* What this line says.
<1>7. line # Corrupt =>
        /\ line.kind = "create" => id \in DOMAIN m \/ DeletedBehind(lines, j, id)
        /\ line.kind = "entry" => (id \in DOMAIN m => line.seq < Len(m[id].entries))
        /\ line.kind = "finish" =>
             (id \in DOMAIN m => (m[id].status = line.status \/ FinishedBehind(lines, j, id)))
        /\ line.kind = "delete" => id \notin DOMAIN m
  BY <1>1 DEF Agrees
<1>8. line # Corrupt => line \in Operation /\ id \in Requests
  BY <1>1, OperationIs DEF Line
<1>9. \A i \in DOMAIN m : Stale(m)[i].status = IF m[i].status = "active" THEN "failed" ELSE m[i].status
  BY StaleIs
<1>10. SUFFICES
        /\ DOMAIN m \subseteq DOMAIN w
        /\ \A i \in DOMAIN m : w[i].entries = m[i].entries
        /\ \A i \in DOMAIN m : w[i].status = Stale(m)[i].status \/ FinishedBehind(lines, j, i)
        /\ \A i \in DOMAIN w : i \in DOMAIN m \/ DeletedBehind(lines, j, i)
  BY <1>3 DEF Amid
<1>11. CASE line = Corrupt
  <2>1. w = v
    BY <1>11 DEF Replayed
  <2> HIDE DEF w, line, id, j
  <2> QED
    BY <1>2, <1>5, <1>6, <1>11, <2>1
<1>12. CASE line # Corrupt /\ line.kind = "create"
  <2>0. \A i : FinishedBehind(lines, k, i) => FinishedBehind(lines, j, i)
    BY <1>5, <1>12
  <2>01. \A i : DeletedBehind(lines, k, i) => DeletedBehind(lines, j, i)
    BY <1>6, <1>12
  <2>1. CASE w = v
    <3> HIDE DEF w, line, id, j
    <3> QED
      BY <1>2, <2>0, <2>01, <2>1
  <2>2. CASE w # v
    <3>1. PICK a \in Statuses : a = "failed"
      BY DEF Statuses, Final
    <3>2. w = Opened(v, id, a) /\ id \notin DOMAIN v
      BY <1>12, <2>2, <3>1 DEF Replayed
    <3>3. id \in Requests
      BY <1>8, <1>12
    <3>4. /\ Opened(v, id, a) \in Stores
          /\ DOMAIN Opened(v, id, a) = DOMAIN v \cup {id}
          /\ Opened(v, id, a)[id].status = a
          /\ Opened(v, id, a)[id].entries = << >>
          /\ \A i \in DOMAIN v : i # id => Opened(v, id, a)[i] = v[i]
      BY <1>2, <3>3, OpenedIs
    <3> HIDE DEF w, line, id, j
    <3>5. DOMAIN w = DOMAIN v \cup {id} /\ \A i \in DOMAIN v : w[i] = v[i]
      BY <3>2, <3>4, Zenon
    <3>6. id \notin DOMAIN m
      BY <1>2, <3>2
    <3>7. DeletedBehind(lines, j, id)
      BY <1>7, <1>12, <3>6
    <3> QED
      BY <1>2, <2>0, <2>01, <3>5, <3>7
  <2> QED
    BY <2>1, <2>2
<1>13. CASE line # Corrupt /\ line.kind = "entry"
  <2>0. \A i : FinishedBehind(lines, k, i) => FinishedBehind(lines, j, i)
    BY <1>5, <1>13
  <2>01. \A i : DeletedBehind(lines, k, i) => DeletedBehind(lines, j, i)
    BY <1>6, <1>13
  <2>1. CASE w = v
    <3> HIDE DEF w, line, id, j
    <3> QED
      BY <1>2, <2>0, <2>01, <2>1
  <2>2. CASE w # v
    <3>1. w = Pushed(v, line) /\ id \in DOMAIN v /\ ~(line.seq < Len(v[id].entries))
      BY <1>13, <2>2 DEF Replayed, Accepted, AlreadyThere
    <3>2. id \notin DOMAIN m
      BY <1>2, <1>7, <1>13, <3>1
    <3>3. line.entry \in Entry
      BY <1>8, <1>13, OperationIs
    <3>4. DOMAIN w = DOMAIN v /\ \A i \in DOMAIN v : i # id => w[i] = v[i]
      BY <1>2, <3>1, <3>3, PushedIs
    <3> HIDE DEF w, line, id, j
    <3> QED
      BY <1>2, <2>0, <2>01, <3>2, <3>4
  <2> QED
    BY <2>1, <2>2
<1>14. CASE line # Corrupt /\ line.kind = "finish"
  <2>01. \A i : DeletedBehind(lines, k, i) => DeletedBehind(lines, j, i)
    BY <1>6, <1>14
  <2>1. CASE id \notin DOMAIN v
    <3>1. w = v
      BY <1>14, <2>1 DEF Replayed, Accepted
    <3> HIDE DEF w, line, id, j
    <3> QED
      BY <1>2, <1>5, <2>01, <2>1, <3>1
  <2>2. CASE id \in DOMAIN v
    <3>1. w = Closed(v, line)
      BY <1>14, <2>2 DEF Replayed, Accepted
    <3>2. line.status \in Final
      BY <1>8, <1>14, OperationIs
    <3>3. /\ DOMAIN w = DOMAIN v /\ w[id].status = line.status /\ w[id].entries = v[id].entries
          /\ \A i \in DOMAIN v : i # id => w[i] = v[i]
      BY <1>2, <2>2, <3>1, <3>2, ClosedIs
    <3>4. line.status # "active"
      BY <3>2 DEF Final
    <3> HIDE DEF w, line, id, j
    <3>5. ASSUME NEW i \in DOMAIN m
          PROVE  /\ w[i].entries = m[i].entries
                 /\ w[i].status = Stale(m)[i].status \/ FinishedBehind(lines, j, i)
      <4>1. CASE i # id
        BY <1>2, <1>5, <3>3, <3>5, <4>1
      <4>2. CASE i = id
        <5>1. m[id].status = line.status \/ FinishedBehind(lines, j, id)
          BY <1>7, <1>14, <3>5, <4>2
        <5>2. m[id].status = line.status => Stale(m)[id].status = line.status
          BY <1>9, <3>4, <3>5, <4>2
        <5> QED
          BY <1>2, <3>3, <3>5, <4>2, <5>1, <5>2
      <4> QED
        BY <4>1, <4>2
    <3> QED
      BY <1>2, <2>01, <3>3, <3>5
  <2> QED
    BY <2>1, <2>2
<1>15. CASE line # Corrupt /\ line.kind = "delete"
  <2>0. \A i : FinishedBehind(lines, k, i) => FinishedBehind(lines, j, i)
    BY <1>5, <1>15
  <2>1. w = Without(v, id) /\ id \notin DOMAIN m
    BY <1>7, <1>15 DEF Replayed
  <2>2. DOMAIN w = DOMAIN v \ {id} /\ \A i \in DOMAIN v : i # id => w[i] = v[i]
    <3>1. v \in Stores
      BY <1>2
    <3> HIDE DEF w, line, id, j
    <3>2. /\ Without(v, id) \in Stores /\ DOMAIN Without(v, id) = DOMAIN v \ {id}
          /\ \A i \in DOMAIN v : i # id => Without(v, id)[i] = v[i]
      BY <3>1, WithoutIs
    <3> QED
      BY <2>1, <3>2
  <2> HIDE DEF w, line, id, j
  <2> QED
    BY <1>2, <1>6, <2>0, <2>1, <2>2
<1> QED
  BY <1>8, <1>11, <1>12, <1>13, <1>14, <1>15, OperationIs

\* "Replay is idempotent": a log that says nothing more than the snapshot changes nothing.
LEMMA ReplayAgain ==
  ASSUME NEW m \in Stores, NEW lines \in Seq(Line), Agrees(lines, m)
  PROVE  Replay(Stale(m), lines) = Stale(m)
<1> DEFINE n == Len(lines)
<1>1. n \in Nat
  OBVIOUS
<1>2. PICK f : Steps(f, Stale(m), lines, n) /\ Replay(Stale(m), lines) = f[n]
  BY <1>1, ReplayRuns
<1>3. Stale(m) \in Stores /\ DOMAIN Stale(m) = DOMAIN m /\ \A i \in DOMAIN m : Stale(m)[i].entries = m[i].entries
  BY StaleIs
<1> DEFINE S == {k \in Nat : k <= n => Amid(lines, k, m, f[k])}
<1>4. 0 \in S
  BY <1>2, <1>3 DEF Steps, Amid
<1>5. ASSUME NEW k \in Nat, k \in S PROVE k + 1 \in S
  <2>1. SUFFICES ASSUME k + 1 <= n PROVE Amid(lines, k + 1, m, f[k + 1])
    OBVIOUS
  <2>2. Amid(lines, k, m, f[k]) /\ k + 1 \in 1 .. n /\ k + 1 - 1 = k
    BY <1>1, <1>5, <2>1
  <2>3. f[k + 1] = Replayed(f[k], lines[k + 1])
    BY <1>2, <2>2 DEF Steps
  <2> QED
    BY <2>1, <2>2, <2>3, AmidStep
<1>6. Nat \subseteq S
  BY <1>4, <1>5, Shared!SetInduction
<1>7. Amid(lines, n, m, f[n])
  BY <1>1, <1>6
<1>8. \A i : ~FinishedBehind(lines, n, i) /\ ~DeletedBehind(lines, n, i)
  BY <1>1 DEF FinishedBehind, DeletedBehind
<1>9. /\ f[n] \in Stores /\ DOMAIN f[n] = DOMAIN Stale(m)
      /\ \A i \in DOMAIN f[n] : /\ f[n][i].status = Stale(m)[i].status
                                /\ f[n][i].entries = Stale(m)[i].entries
  BY <1>3, <1>7, <1>8 DEF Amid
<1> QED
  BY <1>2, <1>3, <1>9, SameStore

\* A restart does not change what the lines say.
LEMMA AgreesStale ==
  ASSUME NEW m \in Stores, NEW lines \in Seq(Line), Agrees(lines, m)
  PROVE  Agrees(lines, Stale(m))
<1>1. /\ DOMAIN Stale(m) = DOMAIN m
      /\ \A i \in DOMAIN m : /\ Stale(m)[i].entries = m[i].entries
                             /\ m[i].status # "active" => Stale(m)[i].status = m[i].status
  BY StaleIs
<1>2. \A j \in 1 .. Len(lines) : lines[j] # Corrupt /\ lines[j].kind = "finish" => lines[j].status # "active"
  <2>1. \A j \in 1 .. Len(lines) : lines[j] # Corrupt => lines[j] \in Operation
    BY DEF Line
  <2> QED
    BY <2>1, OperationIs DEF Final
<1> QED
  BY <1>1, <1>2 DEF Agrees

\* A line that does not parse says nothing.
LEMMA AgreesCorrupt ==
  ASSUME NEW m, NEW lines \in Seq(Line), Agrees(lines, m)
  PROVE  Agrees(Append(lines, Corrupt), m)
<1> DEFINE more == Append(lines, Corrupt)  n == Len(lines)
<1>1. /\ n \in Nat /\ Len(more) = n + 1 /\ more[n + 1] = Corrupt
      /\ \A j \in 1 .. n : more[j] = lines[j]
  BY DEF Line
<1> HIDE DEF more
<1>2. \A j \in 1 .. n : \A i : /\ DeletedBehind(lines, j, i) => DeletedBehind(more, j, i)
                               /\ FinishedBehind(lines, j, i) => FinishedBehind(more, j, i)
  BY <1>1 DEF DeletedBehind, FinishedBehind
<1>3. \A j \in 1 .. n + 1 : j \in 1 .. n \/ j = n + 1
  BY <1>1
<1> QED
  BY <1>1, <1>2, <1>3 DEF Agrees, more

\* The line of a call agrees with what the call leaves, if no line names a session before
\* it is created.
LEMMA AgreesMore ==
  ASSUME NEW m \in Stores, NEW lines \in Seq(Line), Agrees(lines, m),
         NEW op \in Operation, Accepted(m, op),
         op.kind = "create" =>
           \A j \in 1 .. Len(lines) : lines[j] # Corrupt => lines[j].id # op.id,
         op.kind = "entry" => op.seq = Len(m[op.id].entries)
  PROVE  Agrees(Append(lines, op), Applied(m, op))
<1> DEFINE more == Append(lines, op)  n == Len(lines)  w == Applied(m, op)
<1>1. op \in Line /\ op # Corrupt /\ op.id \in Requests
  BY OperationIs DEF Line
<1>2. /\ n \in Nat /\ Len(more) = n + 1 /\ more[n + 1] = op
      /\ \A j \in 1 .. n : more[j] = lines[j]
  BY <1>1
<1> HIDE DEF more
<1>3. \A j \in 1 .. n : \A i : /\ DeletedBehind(lines, j, i) => DeletedBehind(more, j, i)
                               /\ FinishedBehind(lines, j, i) => FinishedBehind(more, j, i)
  BY <1>2 DEF DeletedBehind, FinishedBehind
<1>4. \A j \in 1 .. n : /\ op.kind = "delete" => DeletedBehind(more, j, op.id)
                        /\ op.kind = "finish" => FinishedBehind(more, j, op.id)
  BY <1>1, <1>2 DEF DeletedBehind, FinishedBehind
<1>5. \A j \in 1 .. n + 1 : j \in 1 .. n \/ j = n + 1
  BY <1>2
<1>6. \A j \in 1 .. n : lines[j] # Corrupt => lines[j] \in Operation
  BY DEF Line
<1> DEFINE Says(line, v, j) ==
      /\ line.kind = "create" => line.id \in DOMAIN v \/ DeletedBehind(more, j, line.id)
      /\ line.kind = "entry" => (line.id \in DOMAIN v => line.seq < Len(v[line.id].entries))
      /\ line.kind = "finish" =>
           (line.id \in DOMAIN v =>
              (v[line.id].status = line.status \/ FinishedBehind(more, j, line.id)))
      /\ line.kind = "delete" => line.id \notin DOMAIN v
<1>7. \A j \in 1 .. n : lines[j] # Corrupt => Says(lines[j], m, j)
  BY <1>3 DEF Agrees
<1>8. \A i \in DOMAIN m : Len(m[i].entries) \in Nat
  BY StoreIs
<1>9. (\A j \in 1 .. n : lines[j] # Corrupt => Says(lines[j], w, j)) /\ Says(op, w, n + 1)
  <2>1. CASE op.kind = "create"
    <3>1. w = Opened(m, op.id, "active")
      BY <2>1 DEF Applied
    <3>2. PICK a \in Statuses : a = "active"
      BY DEF Statuses
    <3>3. /\ Opened(m, op.id, a) \in Stores
          /\ DOMAIN Opened(m, op.id, a) = DOMAIN m \cup {op.id}
          /\ Opened(m, op.id, a)[op.id].status = a
          /\ Opened(m, op.id, a)[op.id].entries = << >>
          /\ \A i \in DOMAIN m : i # op.id => Opened(m, op.id, a)[i] = m[i]
      BY <1>1, OpenedIs
    <3> HIDE DEF w
    <3>4. DOMAIN w = DOMAIN m \cup {op.id} /\ \A i \in DOMAIN m : i # op.id => w[i] = m[i]
      BY <3>1, <3>2, <3>3, Zenon
    <3>5. Says(op, w, n + 1)
      BY <2>1, <3>4
    <3>6. ASSUME NEW j \in 1 .. n, lines[j] # Corrupt PROVE Says(lines[j], w, j)
      <4>1. lines[j].id # op.id /\ Says(lines[j], m, j)
        BY <1>7, <2>1, <3>6
      <4> QED
        BY <3>4, <4>1
    <3> QED
      BY <3>5, <3>6
  <2>2. CASE op.kind = "entry"
    <3>1. w = Pushed(m, op) /\ op.id \in DOMAIN m /\ op.entry \in Entry
      BY <2>2, OperationIs DEF Applied, Accepted
    <3> HIDE DEF w
    <3>2. /\ DOMAIN w = DOMAIN m /\ w[op.id].status = m[op.id].status
          /\ w[op.id].entries = Append(m[op.id].entries, op.entry)
          /\ \A i \in DOMAIN m : i # op.id => w[i] = m[i]
      BY <3>1, PushedIs
    <3>3. m[op.id].entries \in Seq(Entry)
      BY <3>1, StoreIs
    <3>4. Len(w[op.id].entries) = Len(m[op.id].entries) + 1 /\ Len(m[op.id].entries) \in Nat
      BY <3>1, <3>2, <3>3
    <3>5. Says(op, w, n + 1)
      BY <2>2, <3>4
    <3>6. ASSUME NEW j \in 1 .. n, lines[j] # Corrupt PROVE Says(lines[j], w, j)
      <4>1. Says(lines[j], m, j)
        BY <1>7, <3>6
      <4>2. CASE lines[j].id # op.id
        BY <3>2, <4>1, <4>2
      <4>3. CASE lines[j].id = op.id
        <5>1. lines[j].kind = "entry" => lines[j].seq \in Nat
          BY <1>6, <3>6, OperationIs
        <5> QED
          BY <3>1, <3>2, <3>4, <4>1, <4>3, <5>1
      <4> QED
        BY <4>2, <4>3
    <3> QED
      BY <3>5, <3>6
  <2>3. CASE op.kind = "finish"
    <3>1. w = Closed(m, op) /\ op.id \in DOMAIN m /\ op.status \in Final
      BY <2>3, OperationIs DEF Applied, Accepted
    <3> HIDE DEF w
    <3>2. /\ DOMAIN w = DOMAIN m /\ w[op.id].status = op.status
          /\ w[op.id].entries = m[op.id].entries
          /\ \A i \in DOMAIN m : i # op.id => w[i] = m[i]
      BY <3>1, ClosedIs
    <3>3. Says(op, w, n + 1)
      BY <2>3, <3>2
    <3>4. ASSUME NEW j \in 1 .. n, lines[j] # Corrupt PROVE Says(lines[j], w, j)
      <4>1. Says(lines[j], m, j)
        BY <1>7, <3>4
      <4>2. CASE lines[j].id # op.id
        BY <3>2, <4>1, <4>2
      <4>3. CASE lines[j].id = op.id
        BY <1>4, <2>3, <3>2, <4>1, <4>3
      <4> QED
        BY <4>2, <4>3
    <3> QED
      BY <3>3, <3>4
  <2>4. CASE op.kind = "delete"
    <3>1. w = Without(m, op.id)
      BY <2>4 DEF Applied
    <3> HIDE DEF w
    <3>2. DOMAIN w = DOMAIN m \ {op.id} /\ \A i \in DOMAIN m : i # op.id => w[i] = m[i]
      BY <3>1, WithoutIs
    <3>3. Says(op, w, n + 1)
      BY <2>4, <3>2
    <3>4. ASSUME NEW j \in 1 .. n, lines[j] # Corrupt PROVE Says(lines[j], w, j)
      <4>1. Says(lines[j], m, j)
        BY <1>7, <3>4
      <4>2. CASE lines[j].id # op.id
        BY <3>2, <4>1, <4>2
      <4>3. CASE lines[j].id = op.id
        BY <1>4, <2>4, <3>2, <4>3
      <4> QED
        BY <4>2, <4>3
    <3> QED
      BY <3>3, <3>4
  <2> QED
    BY <2>1, <2>2, <2>3, <2>4, OperationIs
<1>10. \A j \in 1 .. Len(more) : more[j] # Corrupt => Says(more[j], w, j)
  <2> HIDE DEF w, Says
  <2> QED
    BY <1>2, <1>5, <1>9
<1> HIDE DEF w
<1>11. Agrees(more, w)
  BY <1>10 DEF Agrees
<1> QED
  BY <1>11 DEF more, w

-----------------------------------------------------------------------------
(* The inductive invariant.                                                *)

States == {"idle", "queued", "done", "refused", "rejected", "lost"}

\* The process that got the call has answered it, or died with it.
Settled(r) == call[r].state = "done" \/ call[r].state = "lost"

Shapes ==
  /\ snapshot \in Stores /\ memory \in Stores
  /\ log \in Seq(Line) /\ tail \in Line \cup {None}
  /\ up \in BOOLEAN /\ glued \in BOOLEAN
  /\ appended \in 0 .. Budget - 1 /\ carried \in Nat /\ faults \in Nat

\* A create mints its own session; any other call names one that was created before.
Requested ==
  /\ call \in [Requests -> [state : States, op : Operation \cup {None}]]
  /\ \A r \in Requests : call[r].state # "idle" =>
       /\ call[r].op \in Operation
       /\ call[r].op.kind = "create" => call[r].op.id = r
       /\ call[r].op.kind # "create" => call[call[r].op.id].state = "done"

\* A call is in the queue once, until it is answered.
InTurn(q, c) ==
  /\ q \in Seq(Requests \cup {Checkpoint})
  /\ \A i \in 1 .. Len(q) : q[i] \in Requests => c[q[i]].state = "queued"
  /\ \A i, j \in 1 .. Len(q) : q[i] = q[j] /\ q[i] \in Requests => i = j

\* A body that has begun is that of the call at the head.
Queued ==
  /\ InTurn(tasks, call)
  /\ ~up => tasks = << >> /\ step = "ready" /\ appended = 0
  /\ step \in {"ready", "writing", "written", "purging", "saved"}
  /\ step = "writing" \/ step = "written" \/ step = "purging" =>
       tasks # << >> /\ Head(tasks) \in Requests

\* The operation whose line is written is the head's, still possible, with the next number.
Doing ==
  /\ doing # None =>
       /\ doing \in Operation /\ Accepted(memory, doing)
       /\ doing.kind = "entry" => doing.seq = Len(memory[doing.id].entries)
  /\ up => (doing # None <=> (step = "writing" \/ step = "written"))
  /\ up /\ doing # None =>
       doing.kind = call[Head(tasks)].op.kind /\ doing.id = call[Head(tasks)].op.id
  /\ ~up /\ doing # None => Settled(doing.id)
  /\ step = "saved" => snapshot = memory
  /\ step = "purging" => call[Head(tasks)].op.id \notin DOMAIN memory

\* A session whose create is still in the queue is in no store and no line.
Fresh ==
  ~glued =>
    /\ \A id \in DOMAIN memory : Settled(id)
    /\ \A j \in 1 .. Len(Lines) : Lines[j] # Corrupt =>
         Settled(Lines[j].id) \/ (up /\ step = "written" /\ Lines[j].id = doing.id)

\* The disk tells of m: a restart finds it, and would find it over m's own snapshot too.
Tells(m) == Recovered = Stale(m) /\ Agrees(Lines, m)

\* The disk tells of the memory, and of the line being written once it is there.
Told ==
  ~glued =>
    /\ up /\ step = "written" => Tells(Applied(memory, doing))
    /\ up /\ step # "written" => Tells(memory)
    /\ ~up => Tells(memory) \/ (doing # None /\ Tells(Applied(memory, doing)))

\* Every entry of m that was spilled has its body in a sidecar b.
Bodies(m, b) ==
  \A id \in DOMAIN m : \A i \in DOMAIN m[id].entries :
    m[id].entries[i].spilled =>
      [id |-> id, seq |-> i - 1, text |-> m[id].entries[i].text] \in b

Spilled ==
  ~glued =>
    /\ Bodies(memory, blobs)
    /\ doing # None /\ doing.kind = "entry" /\ doing.entry.spilled =>
         [id |-> doing.id, seq |-> doing.seq, text |-> doing.entry.text] \in blobs

\* The count is not behind what this process has added to the log.
Counting ==
  up /\ faults = 0 /\ (\A i \in 1 .. Len(tasks) : tasks[i] # Checkpoint) =>
    Len(log) - carried - (IF step = "written" THEN 1 ELSE 0) <= appended

LedgerInv ==
  Shapes /\ Requested /\ Queued /\ Doing /\ Fresh /\ Told /\ Spilled /\ Counting

-----------------------------------------------------------------------------
(* The invariant holds at the start.                                       *)

\* The lines of a log l, with what follows the last newline t.
LEMMA LinesOf ==
  ASSUME NEW l \in Seq(Line), NEW t \in Line \cup {None},
         NEW ls, ls = l \o (IF t = None THEN << >> ELSE <<t>>)
  PROVE  /\ ls \in Seq(Line) /\ Len(ls) \in Nat
         /\ t = None => ls = l
         /\ t # None => ls = Append(l, t)
<1>1. CASE t = None
  BY <1>1
<1>2. CASE t # None
  <2>1. ls = l \o <<t>> /\ t \in Line
    BY <1>2
  <2>2. ls = Append(l, t)
    BY <2>1, AppendIsConcat
  <2> QED
    BY <1>2, <2>1, <2>2
<1> QED
  BY <1>1, <1>2

\* The lines of the log as it is.
LEMMA LinesIs ==
  ASSUME Shapes
  PROVE  /\ Lines \in Seq(Line) /\ Len(Lines) \in Nat
         /\ tail = None => Lines = log
         /\ tail # None => Lines = Append(log, tail)
  BY LinesOf DEF Shapes, Lines

\* No call was made and nothing is on disk.
LEMMA LedgerInitInv == LedgerInit => LedgerInv
<1> SUFFICES ASSUME LedgerInit PROVE LedgerInv
  OBVIOUS
<1>1. /\ snapshot = << >> /\ log = << >> /\ tail = None /\ blobs = {}
      /\ memory = << >> /\ up = TRUE /\ tasks = << >> /\ doing = None /\ step = "ready"
      /\ appended = 0 /\ faults = 0 /\ carried = 0 /\ glued = FALSE
  BY DEF LedgerInit
<1>2. call = [r \in Requests |-> Idle]
  BY DEF LedgerInit
<1>3. memory \in Stores /\ snapshot \in Stores /\ DOMAIN memory = {}
  <2>1. DOMAIN << >> = {} /\ << >> = [i \in {} |-> << >>[i]]
    OBVIOUS
  <2>2. << >> \in Stores
    BY <2>1, StoreMade
  <2> QED
    BY <1>1, <2>1, <2>2
<1>4. Shapes
  <2>1. << >> \in Seq(Line) /\ 0 \in 0 .. Budget - 1 /\ 0 \in Nat
    BY LedgerAssumption
  <2> QED
    BY <1>1, <1>3, <2>1 DEF Shapes
<1>5. Requested
  <2>1. \A r \in Requests : call[r].state = "idle"
    BY <1>2 DEF Idle
  <2>2. Idle \in [state : States, op : Operation \cup {None}]
    BY DEF Idle, States
  <2> QED
    BY <1>2, <2>1, <2>2 DEF Requested
<1>6. Queued
  <2>1. << >> \in Seq(Requests \cup {Checkpoint}) /\ Len(<< >>) = 0
    OBVIOUS
  <2> QED
    BY <1>1, <2>1 DEF Queued, InTurn
<1>7. Doing
  BY <1>1 DEF Doing
<1>8. Lines = << >> /\ Len(Lines) = 0
  BY <1>1, <1>4, LinesIs
<1>9. Fresh
  BY <1>3, <1>8 DEF Fresh
<1>10. Told
  <2>1. DOMAIN Stale(memory) = {}
    BY <1>3, StaleIs
  <2>2. Recovered = Stale(memory)
    BY <1>1, <1>8, ReplayNothing DEF Recovered
  <2>3. Agrees(Lines, memory)
    BY <1>8 DEF Agrees
  <2> QED
    BY <1>1, <2>2, <2>3 DEF Told, Tells
<1>11. Spilled
  BY <1>1, <1>3 DEF Spilled, Bodies
<1>12. Counting
  <2>1. Len(<< >>) = 0
    OBVIOUS
  <2> QED
    BY <1>1, <2>1 DEF Counting
<1> QED
  BY <1>4, <1>5, <1>6, <1>7, <1>9, <1>10, <1>11, <1>12 DEF LedgerInv

-----------------------------------------------------------------------------
(* The calls and the queue.                                                *)

\* The head of the queue, when it is a call's body.
LEMMA HeadIs ==
  ASSUME Queued, tasks # << >>
  PROVE  /\ Len(tasks) \in Nat \ {0} /\ Head(tasks) = tasks[1]
         /\ Head(tasks) \in Requests \cup {Checkpoint}
         /\ Head(tasks) \in Requests => call[Head(tasks)].state = "queued"
<1>1. tasks \in Seq(Requests \cup {Checkpoint})
  BY DEF Queued, InTurn
<1>2. Len(tasks) \in Nat \ {0} /\ Head(tasks) = tasks[1] /\ tasks[1] \in Requests \cup {Checkpoint}
  BY <1>1
<1> QED
  BY <1>2 DEF Queued, InTurn

\* A call is answered.
LEMMA Answered ==
  ASSUME Requested, NEW r \in Requests, call[r].state = "queued",
         NEW st, st \in States, st # "idle", Ended(r, st)
  PROVE  /\ Requested' /\ call'[r].state = st /\ call'[r].op = call[r].op
         /\ \A q \in Requests : q # r => call'[q] = call[q]
<1> DEFINE Rec == [state : States, op : Operation \cup {None}]  c == call[r]
<1>1. call \in [Requests -> Rec] /\ c \in Rec
  BY DEF Requested
<1>2. call' = [call EXCEPT ![r] = [c EXCEPT !.state = st]]
  BY DEF Ended
<1> HIDE DEF c
<1>3. [c EXCEPT !.state = st] \in Rec /\ [c EXCEPT !.state = st].state = st
      /\ [c EXCEPT !.state = st].op = c.op
  BY <1>1
<1>4. /\ call' \in [Requests -> Rec] /\ call'[r].state = st /\ call'[r].op = c.op
      /\ \A q \in Requests : q # r => call'[q] = call[q]
  BY <1>1, <1>2, <1>3
<1>5. c.state = "queued"
  BY DEF c
<1>6. ASSUME NEW q \in Requests, call'[q].state # "idle"
      PROVE  /\ call'[q].op \in Operation
             /\ call'[q].op.kind = "create" => call'[q].op.id = q
             /\ call'[q].op.kind # "create" => call'[call'[q].op.id].state = "done"
  <2>1. call'[q].op = call[q].op /\ call[q].state # "idle"
    BY <1>4, <1>5, <1>6 DEF c
  <2>2. /\ call[q].op \in Operation
        /\ call[q].op.kind = "create" => call[q].op.id = q
        /\ call[q].op.kind # "create" => call[call[q].op.id].state = "done"
    BY <2>1 DEF Requested
  <2>3. call[q].op.id \in Requests
    BY <2>2, OperationIs
  <2>4. call[call[q].op.id].state = "done" => call'[call[q].op.id].state = "done"
    BY <1>4, <1>5, <2>3 DEF c
  <2> QED
    BY <2>1, <2>2, <2>4
<1> QED
  BY <1>4, <1>6 DEF Requested, c

\* What a caller may ask for is an operation.
LEMMA OperationsAre ==
  ASSUME NEW r \in Requests, NEW op \in Operations(r)
  PROVE  /\ op \in Operation
         /\ op.kind = "create" => op.id = r
         /\ op.kind # "create" => call[op.id].state = "done"
<1>1. \A id \in Known : id \in Requests /\ call[id].state = "done"
  BY DEF Known
<1>2. 0 \in 0 .. MaxEntries - 1
  BY LedgerAssumption
<1>3. CASE op = Create(r)
  BY <1>3 DEF Create, Operation
<1>4. CASE \E id \in Known, spilled \in BOOLEAN : op = Note(r, id, 0, spilled)
  <2>1. PICK id \in Known, spilled \in BOOLEAN : op = Note(r, id, 0, spilled)
    BY <1>4
  <2>2. op \in Operation
    BY <1>1, <1>2, <2>1 DEF Operation
  <2>3. op.kind = "entry" /\ op.id = id
    BY <2>1 DEF Note
  <2> QED
    BY <1>1, <2>2, <2>3
<1>5. CASE \E id \in Known, status \in Outcomes : op = Finish(id, status)
  <2>1. PICK id \in Known, status \in Outcomes : op = Finish(id, status)
    BY <1>5
  <2>2. op \in Operation
    BY <1>1, <2>1 DEF Operation
  <2>3. op.kind = "finish" /\ op.id = id
    BY <2>1 DEF Finish
  <2> QED
    BY <1>1, <2>2, <2>3
<1>6. CASE \E id \in Known : op = Delete(id)
  <2>1. PICK id \in Known : op = Delete(id)
    BY <1>6
  <2>2. op \in Operation
    BY <1>1, <2>1 DEF Operation
  <2>3. op.kind = "delete" /\ op.id = id
    BY <2>1 DEF Delete
  <2> QED
    BY <1>1, <2>2, <2>3
<1> QED
  BY <1>3, <1>4, <1>5, <1>6 DEF Operations

\* What a step may do to the calls: it keeps what was asked, and every answer.
CallsKept ==
  \A q \in Requests :
    /\ call[q].state # "idle" => call'[q].op = call[q].op /\ call'[q].state # "idle"
    /\ Settled(q) => call'[q].state = call[q].state

\* A step keeps the calls in order.
LEMMA RequestedNext ==
  ASSUME LedgerInv, [LedgerNext]_ledgerVars
  PROVE  Requested' /\ CallsKept
<1> USE DEF LedgerInv
<1>1. CASE call' = call
  BY <1>1 DEF Requested, CallsKept
<1>2. ASSUME NEW r \in Requests, NEW st, st \in States, st # "idle", Ended(r, st),
             tasks # << >>, Head(tasks) = r
      PROVE  Requested' /\ CallsKept
  <2>1. call[r].state = "queued"
    BY <1>2, HeadIs
  <2>2. /\ Requested' /\ call'[r].state = st /\ call'[r].op = call[r].op
        /\ \A q \in Requests : q # r => call'[q] = call[q]
    BY <1>2, <2>1, Answered
  <2> QED
    BY <1>2, <2>1, <2>2 DEF CallsKept, Settled
<1>3. ASSUME NEW r \in Requests, Submit(r) PROVE Requested' /\ CallsKept
  <2>1. PICK op \in Operations(r) : call' = [call EXCEPT ![r] = [state |-> "queued", op |-> op]]
    BY <1>3 DEF Submit
  <2>2. call[r].state = "idle"
    BY <1>3 DEF Submit, Idle
  <2>3. /\ op \in Operation
        /\ op.kind = "create" => op.id = r
        /\ op.kind # "create" => call[op.id].state = "done"
    BY OperationsAre
  <2>4. [state |-> "queued", op |-> op] \in [state : States, op : Operation \cup {None}]
    BY <2>3 DEF States
  <2>5. call \in [Requests -> [state : States, op : Operation \cup {None}]]
    BY DEF Requested
  <2>6. /\ call' \in [Requests -> [state : States, op : Operation \cup {None}]]
        /\ call'[r].state = "queued" /\ call'[r].op = op
        /\ \A q \in Requests : q # r => call'[q] = call[q]
    BY <2>1, <2>4, <2>5
  <2>7. ASSUME NEW q \in Requests, call'[q].state # "idle"
        PROVE  /\ call'[q].op \in Operation
               /\ call'[q].op.kind = "create" => call'[q].op.id = q
               /\ call'[q].op.kind # "create" => call'[call'[q].op.id].state = "done"
    <3>1. CASE q = r
      <4>1. op.id \in Requests
        BY <2>3, OperationIs
      <4>2. op.kind # "create" => op.id # r
        BY <2>2, <2>3
      <4> QED
        BY <2>3, <2>6, <3>1, <4>1, <4>2
    <3>2. CASE q # r
      <4>1. /\ call[q].op \in Operation
            /\ call[q].op.kind = "create" => call[q].op.id = q
            /\ call[q].op.kind # "create" => call[call[q].op.id].state = "done"
        BY <2>6, <2>7, <3>2 DEF Requested
      <4>2. call[q].op.id \in Requests
        BY <4>1, OperationIs
      <4>3. call[call[q].op.id].state = "done" => call[q].op.id # r
        BY <2>2
      <4> QED
        BY <2>6, <3>2, <4>1, <4>2, <4>3
    <3> QED
      BY <3>1, <3>2
  <2>8. Requested'
    BY <2>6, <2>7 DEF Requested
  <2> QED
    BY <2>2, <2>6, <2>8 DEF CallsKept, Settled
<1>4. CASE Crash
  <2>1. call' = [r \in Requests |->
           IF call[r].state = "queued" THEN [call[r] EXCEPT !.state = "lost"] ELSE call[r]]
    BY <1>4 DEF Crash
  <2> DEFINE Rec == [state : States, op : Operation \cup {None}]
  <2>2. "lost" \in States
    BY DEF States
  <2>3. \A c \in Rec : /\ [c EXCEPT !.state = "lost"] \in Rec
                       /\ [c EXCEPT !.state = "lost"].state = "lost"
                       /\ [c EXCEPT !.state = "lost"].op = c.op
    BY <2>2
  <2>4. \A q \in Requests : call[q] \in Rec
    BY DEF Requested
  <2>5. ASSUME NEW q \in Requests
        PROVE  /\ call'[q] \in Rec /\ call'[q].op = call[q].op
               /\ call[q].state # "queued" => call'[q].state = call[q].state
               /\ call[q].state = "queued" => call'[q].state = "lost"
    <3>1. CASE call[q].state = "queued"
      <4>1. call'[q] = [call[q] EXCEPT !.state = "lost"]
        BY <2>1, <3>1
      <4> QED
        BY <2>3, <2>4, <3>1, <4>1
    <3>2. CASE call[q].state # "queued"
      <4>1. call'[q] = call[q]
        BY <2>1, <3>2
      <4> QED
        BY <2>4, <3>2, <4>1
    <3> QED
      BY <3>1, <3>2
  <2>6. call' \in [Requests -> Rec]
    BY <2>1, <2>5
  <2>7. ASSUME NEW q \in Requests, call'[q].state # "idle"
        PROVE  /\ call'[q].op \in Operation
               /\ call'[q].op.kind = "create" => call'[q].op.id = q
               /\ call'[q].op.kind # "create" => call'[call'[q].op.id].state = "done"
    <3>1. call[q].state # "idle"
      BY <2>5, <2>7
    <3>2. /\ call[q].op \in Operation
          /\ call[q].op.kind = "create" => call[q].op.id = q
          /\ call[q].op.kind # "create" => call[call[q].op.id].state = "done"
      BY <3>1 DEF Requested
    <3>3. call[q].op.id \in Requests
      BY <3>2, OperationIs
    <3> QED
      BY <2>5, <3>2, <3>3
  <2>8. Requested'
    BY <2>6, <2>7 DEF Requested
  <2> QED
    BY <2>5, <2>8 DEF CallsKept, Settled
<1>5. "done" \in States /\ "refused" \in States /\ "rejected" \in States
  BY DEF States
<1>6. ASSUME NEW r \in Requests, Refuse(r) \/ Begin(r) \/ Write(r) \/ Commit(r) \/ Purge(r) \/ WriteFails(r)
      PROVE  Requested' /\ CallsKept
  <2>1. tasks # << >> /\ Head(tasks) = r
    BY <1>6 DEF Refuse, Begin, Write, Commit, Purge, WriteFails, Running
  <2>2. call' = call \/ Ended(r, "done") \/ Ended(r, "refused") \/ Ended(r, "rejected")
    BY <1>6 DEF Refuse, Begin, Write, Commit, Purge, WriteFails
  <2> QED
    BY <1>1, <1>2, <1>5, <2>1, <2>2
<1>7. CASE SaveSnapshot \/ TruncateLog \/ AskCheckpoint \/ CheckpointFails \/ Restart
          \/ UNCHANGED ledgerVars
  <2>1. call' = call
    BY <1>7 DEF SaveSnapshot, TruncateLog, AskCheckpoint, CheckpointFails, Restart, ledgerVars
  <2> QED
    BY <1>1, <2>1
<1> QED
  BY <1>3, <1>4, <1>6, <1>7 DEF LedgerNext, Work

\* The queue moves on when its head is done.
LEMMA InTurnTail ==
  ASSUME NEW q, NEW c, NEW d, InTurn(q, c), q # << >>,
         \A r \in Requests : r # Head(q) => d[r].state = c[r].state
  PROVE  InTurn(Tail(q), d)
<1>1. /\ q \in Seq(Requests \cup {Checkpoint})
      /\ \A i \in 1 .. Len(q) : q[i] \in Requests => c[q[i]].state = "queued"
      /\ \A i, j \in 1 .. Len(q) : q[i] = q[j] /\ q[i] \in Requests => i = j
  BY DEF InTurn
<1> DEFINE t == Tail(q)
<1>2. /\ Len(q) \in Nat \ {0} /\ Head(q) = q[1] /\ t \in Seq(Requests \cup {Checkpoint})
      /\ Len(t) = Len(q) - 1 /\ \A i \in 1 .. Len(t) : t[i] = q[i + 1]
  BY <1>1
<1> HIDE DEF t
<1>3. ASSUME NEW i \in 1 .. Len(t), t[i] \in Requests PROVE d[t[i]].state = "queued"
  <2>1. i + 1 \in 1 .. Len(q) /\ 1 \in 1 .. Len(q) /\ t[i] = q[i + 1] /\ i + 1 # 1
    BY <1>2, <1>3
  <2>2. t[i] # Head(q)
    BY <1>1, <1>2, <1>3, <2>1
  <2> QED
    BY <1>1, <1>3, <2>1, <2>2
<1>4. ASSUME NEW i \in 1 .. Len(t), NEW j \in 1 .. Len(t), t[i] = t[j], t[i] \in Requests
      PROVE  i = j
  <2>0. /\ i + 1 \in 1 .. Len(q) /\ j + 1 \in 1 .. Len(q)
        /\ t[i] = q[i + 1] /\ t[j] = q[j + 1]
    BY <1>2
  <2>1. i + 1 \in 1 .. Len(q) /\ j + 1 \in 1 .. Len(q) /\ q[i + 1] = q[j + 1] /\ q[i + 1] \in Requests
    BY <1>4, <2>0
  <2>2. i + 1 = j + 1
    BY <1>1, <2>1
  <2> QED
    BY <2>2
<1> QED
  BY <1>2, <1>3, <1>4 DEF InTurn, t

\* A task is put behind the others.
LEMMA InTurnMore ==
  ASSUME NEW q, NEW c, InTurn(q, c), NEW x \in Requests \cup {Checkpoint},
         x \in Requests => c[x].state = "queued" /\ \A i \in 1 .. Len(q) : q[i] # x
  PROVE  InTurn(Append(q, x), c)
<1>1. /\ q \in Seq(Requests \cup {Checkpoint})
      /\ \A i \in 1 .. Len(q) : q[i] \in Requests => c[q[i]].state = "queued"
      /\ \A i, j \in 1 .. Len(q) : q[i] = q[j] /\ q[i] \in Requests => i = j
  BY DEF InTurn
<1> DEFINE t == Append(q, x)
<1>2. /\ Len(q) \in Nat /\ t \in Seq(Requests \cup {Checkpoint}) /\ Len(t) = Len(q) + 1
      /\ t[Len(q) + 1] = x /\ \A i \in 1 .. Len(q) : t[i] = q[i]
  BY <1>1
<1> HIDE DEF t
<1>3. \A i \in 1 .. Len(t) : i \in 1 .. Len(q) \/ i = Len(q) + 1
  BY <1>2
<1>4. \A i \in 1 .. Len(t) : t[i] \in Requests => c[t[i]].state = "queued"
  BY <1>1, <1>2, <1>3
<1>5. \A i, j \in 1 .. Len(t) : t[i] = t[j] /\ t[i] \in Requests => i = j
  BY <1>1, <1>2, <1>3
<1> QED
  BY <1>2, <1>4, <1>5 DEF InTurn, t

\* A queue of calls whose states stay is still in order.
LEMMA InTurnStays ==
  ASSUME NEW q, NEW c, NEW d, InTurn(q, c),
         \A i \in 1 .. Len(q) : q[i] \in Requests => d[q[i]].state = c[q[i]].state
  PROVE  InTurn(q, d)
  BY DEF InTurn

\* What an answer does to the other calls.
LEMMA EndedIs ==
  ASSUME Requested, NEW r \in Requests, NEW st, Ended(r, st)
  PROVE  \A q \in Requests : q # r => call'[q] = call[q]
<1>1. call' = [call EXCEPT ![r].state = st] /\ DOMAIN call = Requests
  BY DEF Ended, Requested
<1> QED
  BY <1>1

\* A step keeps the queue in order.
LEMMA QueuedNext ==
  ASSUME LedgerInv, [LedgerNext]_ledgerVars
  PROVE  Queued'
<1> USE DEF LedgerInv
<1>1. InTurn(tasks, call)
  BY DEF Queued
<1> DEFINE AtHead(s, q) ==
      s = "writing" \/ s = "written" \/ s = "purging" => q # << >> /\ Head(q) \in Requests
<1>2. ASSUME UNCHANGED <<tasks, call>>, up', AtHead(step', tasks),
             step' \in {"ready", "writing", "written", "purging", "saved"}
      PROVE  Queued'
  BY <1>1, <1>2 DEF Queued
<1>3. ASSUME InTurn(tasks', call'), step' = "ready", up' PROVE Queued'
  BY <1>3 DEF Queued
<1>4. ASSUME NEW r \in Requests, NEW st, Ended(r, st), tasks # << >>, Head(tasks) = r
      PROVE  InTurn(Tail(tasks), call')
  <2>1. \A q \in Requests : q # Head(tasks) => call'[q].state = call[q].state
    BY <1>4, EndedIs
  <2> QED
    BY <1>1, <1>4, <2>1, InTurnTail
<1>5. ASSUME NEW r \in Requests, Submit(r) PROVE Queued'
  <2>1. /\ call[r].state = "idle" /\ tasks' = Append(tasks, r) /\ UNCHANGED <<step, up, appended>> /\ up
    BY <1>5 DEF Submit, Idle
  <2>2. PICK op \in Operations(r) : call' = [call EXCEPT ![r] = [state |-> "queued", op |-> op]]
    BY <1>5 DEF Submit
  <2>3. DOMAIN call = Requests
    BY DEF Requested
  <2>4. call'[r].state = "queued" /\ \A q \in Requests : q # r => call'[q] = call[q]
    BY <2>2, <2>3
  <2>5. \A i \in 1 .. Len(tasks) : tasks[i] # r
    BY <1>1, <2>1 DEF InTurn
  <2>6. \A i \in 1 .. Len(tasks) : tasks[i] \in Requests => call'[tasks[i]].state = call[tasks[i]].state
    BY <2>4, <2>5
  <2>7. InTurn(tasks, call')
    BY <1>1, <2>6, InTurnStays
  <2>8. InTurn(tasks', call')
    BY <2>1, <2>4, <2>5, <2>7, InTurnMore
  <2>9. step = "writing" \/ step = "written" \/ step = "purging" =>
          tasks' # << >> /\ Head(tasks') \in Requests
    <3>1. tasks \in Seq(Requests \cup {Checkpoint})
      BY <1>1 DEF InTurn
    <3>2. tasks # << >> => Append(tasks, r) # << >> /\ Head(Append(tasks, r)) = Head(tasks)
      BY <3>1
    <3> QED
      BY <2>1, <3>2 DEF Queued
  <2> QED
    BY <2>1, <2>8, <2>9 DEF Queued
<1>6. CASE AskCheckpoint
  <2>1. tasks' = Append(tasks, Checkpoint) /\ UNCHANGED <<step, up, call>> /\ up
    BY <1>6 DEF AskCheckpoint
  <2>2. InTurn(tasks', call')
    BY <1>1, <2>1, InTurnMore, MarkerAssumption
  <2>3. step = "writing" \/ step = "written" \/ step = "purging" =>
          tasks' # << >> /\ Head(tasks') \in Requests
    <3>1. tasks \in Seq(Requests \cup {Checkpoint})
      BY <1>1 DEF InTurn
    <3>2. tasks # << >> => Append(tasks, Checkpoint) # << >> /\ Head(Append(tasks, Checkpoint)) = Head(tasks)
      BY <3>1
    <3> QED
      BY <2>1, <3>2 DEF Queued
  <2> QED
    BY <2>1, <2>2, <2>3 DEF Queued
<1>7. ASSUME NEW r \in Requests, Refuse(r) \/ Purge(r) \/ WriteFails(r) PROVE Queued'
  <2>1. tasks # << >> /\ Head(tasks) = r /\ up /\ up' = up
    BY <1>7 DEF Refuse, Purge, WriteFails, Running
  <2>2. tasks' = Tail(tasks) /\ step' = "ready"
    BY <1>7 DEF Refuse, Purge, WriteFails, Running, Rejected
  <2>3. Ended(r, "refused") \/ Ended(r, "done") \/ Ended(r, "rejected")
    BY <1>7 DEF Refuse, Purge, WriteFails
  <2> QED
    BY <1>3, <1>4, <2>1, <2>2, <2>3
<1>8. ASSUME NEW r \in Requests, Begin(r) \/ Write(r) PROVE Queued'
  <2>1. tasks # << >> /\ Head(tasks) = r /\ up /\ UNCHANGED <<up, tasks, call>>
    BY <1>8 DEF Begin, Write, Running
  <2>2. step' = "writing" \/ step' = "written"
    BY <1>8 DEF Begin, Write
  <2> QED
    BY <1>2, <2>1, <2>2
<1>9. ASSUME NEW r \in Requests, Commit(r) PROVE Queued'
  <2>1. tasks # << >> /\ Head(tasks) = r /\ up /\ up' = up
    BY <1>9 DEF Commit, Running
  <2>2. CASE doing.kind = "delete"
    <3>1. /\ step' = "purging" /\ call' = call
          /\ tasks' = tasks \/ tasks' = Append(tasks, Checkpoint)
      BY <1>9, <2>2 DEF Commit
    <3>2. InTurn(tasks', call')
      BY <1>1, <3>1, InTurnMore, MarkerAssumption
    <3>3. tasks' # << >> /\ Head(tasks') = r
      <4>1. tasks \in Seq(Requests \cup {Checkpoint})
        BY <1>1 DEF InTurn
      <4>2. Append(tasks, Checkpoint) # << >> /\ Head(Append(tasks, Checkpoint)) = Head(tasks)
        BY <2>1, <4>1
      <4> QED
        BY <2>1, <3>1, <4>2
    <3> QED
      BY <2>1, <3>1, <3>2, <3>3 DEF Queued
  <2>3. CASE doing.kind # "delete"
    <3>1. /\ step' = "ready" /\ Ended(r, "done")
          /\ tasks' = Tail(tasks) \/ tasks' = Append(Tail(tasks), Checkpoint)
      BY <1>9, <2>3 DEF Commit
    <3>2. InTurn(Tail(tasks), call')
      BY <1>4, <2>1, <3>1
    <3>3. InTurn(tasks', call')
      BY <3>1, <3>2, InTurnMore, MarkerAssumption
    <3> QED
      BY <1>3, <2>1, <3>1, <3>3
  <2> QED
    BY <2>2, <2>3
<1>10. CASE SaveSnapshot
  BY <1>2, <1>10 DEF SaveSnapshot, Running
<1>11. CASE TruncateLog \/ CheckpointFails
  <2>1. /\ tasks # << >> /\ Head(tasks) = Checkpoint /\ up /\ UNCHANGED <<up, call>>
        /\ tasks' = Tail(tasks) /\ step' = "ready"
    BY <1>11 DEF TruncateLog, CheckpointFails, Running, Rejected
  <2>2. InTurn(Tail(tasks), call)
    BY <1>1, <2>1, InTurnTail
  <2> QED
    BY <1>3, <2>1, <2>2
<1>12. CASE Crash
  <2>1. tasks' = << >> /\ step' = "ready" /\ appended' = 0
    BY <1>12 DEF Crash
  <2>2. << >> \in Seq(Requests \cup {Checkpoint}) /\ Len(<< >>) = 0
    OBVIOUS
  <2> QED
    BY <2>1, <2>2 DEF Queued, InTurn
<1>13. CASE Restart
  BY <1>2, <1>13 DEF Restart, Queued
<1>14. CASE UNCHANGED ledgerVars
  BY <1>14 DEF ledgerVars, Queued
<1> QED
  BY <1>5, <1>6, <1>7, <1>8, <1>9, <1>10, <1>11, <1>12, <1>13, <1>14 DEF LedgerNext, Work

-----------------------------------------------------------------------------
(* The operation being written, and the shapes of the data.                *)

\* An entry gets its number, and keeps a cut text when its body is not saved.
LEMMA Numbered ==
  ASSUME NEW op \in Operation, op.kind = "entry", NEW seq \in 0 .. MaxEntries - 1
  PROVE  /\ [op EXCEPT !.seq = seq] \in Operation
         /\ [op EXCEPT !.seq = seq].kind = "entry" /\ [op EXCEPT !.seq = seq].id = op.id
         /\ [op EXCEPT !.seq = seq].seq = seq /\ [op EXCEPT !.seq = seq].entry = op.entry
         /\ [op EXCEPT !.seq = seq, !.entry.spilled = FALSE] \in Operation
         /\ [op EXCEPT !.seq = seq, !.entry.spilled = FALSE].kind = "entry"
         /\ [op EXCEPT !.seq = seq, !.entry.spilled = FALSE].id = op.id
         /\ [op EXCEPT !.seq = seq, !.entry.spilled = FALSE].seq = seq
         /\ ~[op EXCEPT !.seq = seq, !.entry.spilled = FALSE].entry.spilled
<1>1. PICK r \in Requests, id \in Requests, s \in 0 .. MaxEntries - 1, spilled \in BOOLEAN :
           op = Note(r, id, s, spilled)
  <2>1. /\ \A r : op = Create(r) => op.kind = "create"
        /\ \A id, st : op = Finish(id, st) => op.kind = "finish"
        /\ \A id : op = Delete(id) => op.kind = "delete"
    BY DEF Create, Finish, Delete
  <2> QED
    BY <2>1 DEF Operation
<1>2. op = [kind |-> "entry", id |-> id, seq |-> s, entry |-> [text |-> r, spilled |-> spilled]]
  BY <1>1 DEF Note
<1>3. [op EXCEPT !.seq = seq] = Note(r, id, seq, spilled)
  BY <1>2 DEF Note
<1>4. [op EXCEPT !.seq = seq, !.entry.spilled = FALSE] = Note(r, id, seq, FALSE)
  <2> DEFINE a == [op EXCEPT !.seq = seq]  b == [op EXCEPT !.seq = seq, !.entry.spilled = FALSE]
  <2>1. b = [a EXCEPT !.entry = [a.entry EXCEPT !.spilled = FALSE]]
    BY <1>2
  <2>2. a = [kind |-> "entry", id |-> id, seq |-> seq, entry |-> [text |-> r, spilled |-> spilled]]
    BY <1>2
  <2> HIDE DEF a, b
  <2>3. [a.entry EXCEPT !.spilled = FALSE] = [text |-> r, spilled |-> FALSE]
    <3>1. a.entry = [text |-> r, spilled |-> spilled]
      BY <2>2
    <3>2. a.entry \in Entry /\ a.entry.text = r
      BY <3>1 DEF Entry
    <3>3. \A p : \A e \in Entry : [e EXCEPT !.spilled = p] = [text |-> e.text, spilled |-> p]
      BY DEF Entry
    <3>4. [a.entry EXCEPT !.spilled = FALSE] = [text |-> a.entry.text, spilled |-> FALSE]
      BY <3>2, <3>3, Zenon
    <3> QED
      BY <3>2, <3>4
  <2>4. b = [kind |-> "entry", id |-> id, seq |-> seq, entry |-> [text |-> r, spilled |-> FALSE]]
    BY <2>1, <2>2, <2>3
  <2> QED
    BY <2>4 DEF b, Note
<1>5. Note(r, id, seq, spilled) \in Operation /\ Note(r, id, seq, FALSE) \in Operation
  <2>1. ASSUME NEW p \in BOOLEAN, NEW o, o = Note(r, id, seq, p) PROVE o \in Operation
    BY <2>1 DEF Operation
  <2>2. FALSE \in BOOLEAN
    OBVIOUS
  <2> QED
    BY <2>1, <2>2
<1>6. /\ Note(r, id, seq, spilled).kind = "entry" /\ Note(r, id, seq, spilled).id = id
      /\ Note(r, id, seq, spilled).seq = seq
      /\ Note(r, id, seq, spilled).entry = [text |-> r, spilled |-> spilled]
  BY DEF Note
<1>7. /\ Note(r, id, seq, FALSE).kind = "entry" /\ Note(r, id, seq, FALSE).id = id
      /\ Note(r, id, seq, FALSE).seq = seq /\ ~Note(r, id, seq, FALSE).entry.spilled
  BY DEF Note
<1> QED
  BY <1>2, <1>3, <1>4, <1>5, <1>6, <1>7

\* What a body has begun to write.
LEMMA BegunIs ==
  ASSUME LedgerInv, NEW r \in Requests, Begin(r)
  PROVE  /\ doing' \in Operation /\ Accepted(memory, doing')
         /\ doing'.kind = call[r].op.kind /\ doing'.id = call[r].op.id
         /\ doing'.kind = "entry" => doing'.seq = Len(memory[doing'.id].entries)
         /\ doing'.kind = "entry" /\ doing'.entry.spilled =>
              doing'.entry = call[r].op.entry /\ blobs' = Saved(call[r].op, doing'.seq)
         /\ ~(doing'.kind = "entry" /\ doing'.entry.spilled) => blobs' = blobs
<1> DEFINE op == call[r].op  seq == Len(memory[op.id].entries)
<1>1. tasks # << >> /\ Head(tasks) = r /\ Accepted(memory, op)
  BY DEF Begin, Running
<1>2. call[r].state = "queued"
  BY <1>1, HeadIs DEF LedgerInv
<1>3. op \in Operation
  BY <1>2 DEF LedgerInv, Requested
<1>4. CASE op.kind # "entry"
  <2>1. doing' = op /\ blobs' = blobs
    BY <1>4 DEF Begin
  <2> QED
    BY <1>1, <1>3, <1>4, <2>1
<1>5. CASE op.kind = "entry"
  <2>1. op.id \in DOMAIN memory /\ seq < MaxEntries
    BY <1>1, <1>5 DEF Accepted
  <2>2. seq \in 0 .. MaxEntries - 1
    <3>1. memory \in Stores
      BY DEF LedgerInv, Shapes
    <3>2. seq \in Nat
      BY <2>1, <3>1, StoreIs
    <3> QED
      BY <2>1, <3>2, LedgerAssumption
  <2>3. \/ doing' = [op EXCEPT !.seq = seq] /\ blobs' = (IF op.entry.spilled THEN Saved(op, seq) ELSE blobs)
        \/ doing' = [op EXCEPT !.seq = seq, !.entry.spilled = FALSE] /\ blobs' = blobs
    BY <1>5 DEF Begin
  <2> HIDE DEF op, seq
  <2>4. CASE doing' = [op EXCEPT !.seq = seq] /\ blobs' = (IF op.entry.spilled THEN Saved(op, seq) ELSE blobs)
    <3>1. /\ doing' \in Operation /\ doing'.kind = "entry" /\ doing'.id = op.id
          /\ doing'.seq = seq /\ doing'.entry = op.entry
      BY <1>3, <1>5, <2>2, <2>4, Numbered
    <3>2. Accepted(memory, doing')
      BY <2>1, <3>1 DEF Accepted, seq
    <3> QED
      BY <1>5, <2>4, <3>1, <3>2 DEF op, seq
  <2>5. CASE doing' = [op EXCEPT !.seq = seq, !.entry.spilled = FALSE] /\ blobs' = blobs
    <3>1. /\ doing' \in Operation /\ doing'.kind = "entry" /\ doing'.id = op.id
          /\ doing'.seq = seq /\ ~doing'.entry.spilled
      BY <1>3, <1>5, <2>2, <2>5, Numbered
    <3>2. Accepted(memory, doing')
      BY <2>1, <3>1 DEF Accepted, seq
    <3> QED
      BY <1>5, <2>5, <3>1, <3>2 DEF op, seq
  <2> QED
    BY <2>3, <2>4, <2>5
<1> QED
  BY <1>4, <1>5

\* A step leaves the operation being written possible.
LEMMA DoingNext ==
  ASSUME LedgerInv, [LedgerNext]_ledgerVars
  PROVE  Doing'
<1> USE DEF LedgerInv
<1> DEFINE Possible(m, d) ==
      /\ d \in Operation /\ Accepted(m, d)
      /\ d.kind = "entry" => d.seq = Len(m[d.id].entries)
<1>1. /\ doing # None => Possible(memory, doing)
      /\ up => (doing # None <=> (step = "writing" \/ step = "written"))
      /\ up /\ doing # None =>
           doing.kind = call[Head(tasks)].op.kind /\ doing.id = call[Head(tasks)].op.id
      /\ ~up /\ doing # None => Settled(doing.id)
      /\ step = "saved" => snapshot = memory
      /\ step = "purging" => call[Head(tasks)].op.id \notin DOMAIN memory
  BY DEF Doing
<1>2. Requested' /\ CallsKept
  BY RequestedNext
\* Steps in which the head of the queue, memory and snapshot stay.
<1>3. ASSUME UNCHANGED <<memory, snapshot, doing, up, step>>,
             tasks # << >> => Head(tasks') = Head(tasks)
      PROVE  Doing'
  <2>1. ASSUME step = "writing" \/ step = "written" \/ step = "purging"
        PROVE  call'[Head(tasks')].op = call[Head(tasks)].op
    <3>1. tasks # << >> /\ Head(tasks) \in Requests
      BY <2>1 DEF Queued
    <3>2. call[Head(tasks)].state = "queued"
      BY <3>1, HeadIs
    <3> QED
      BY <1>2, <1>3, <3>1, <3>2 DEF CallsKept
  <2>2. ~up /\ doing # None => Settled(doing.id)'
    <3>1. ~up /\ doing # None => Settled(doing.id) /\ doing.id \in Requests
      BY <1>1, OperationIs
    <3> QED
      BY <1>2, <1>3, <3>1 DEF CallsKept, Settled
  <2> HIDE DEF Possible
  <2>3. doing' # None => Possible(memory', doing')
    BY <1>1, <1>3
  <2>4. /\ up' => (doing' # None <=> (step' = "writing" \/ step' = "written"))
        /\ up' /\ doing' # None =>
             doing'.kind = call'[Head(tasks')].op.kind /\ doing'.id = call'[Head(tasks')].op.id
        /\ ~up' /\ doing' # None => Settled(doing.id)'
        /\ step' = "saved" => snapshot' = memory'
        /\ step' = "purging" => call'[Head(tasks')].op.id \notin DOMAIN memory'
    BY <1>1, <1>3, <2>1, <2>2
  <2> QED
    BY <2>3, <2>4 DEF Doing, Possible
\* Steps after which no operation is being written.
<1>4. ASSUME doing' = None, up', step' # "writing", step' # "written", step' # "saved", step' # "purging"
      PROVE  Doing'
  BY <1>4 DEF Doing
<1>5. ASSUME NEW r \in Requests, Submit(r) PROVE Doing'
  <2>1. /\ UNCHANGED <<memory, snapshot, doing, up, step>> /\ tasks' = Append(tasks, r)
    BY <1>5 DEF Submit, disk
  <2>2. tasks \in Seq(Requests \cup {Checkpoint})
    BY DEF Queued, InTurn
  <2>3. tasks # << >> => Head(Append(tasks, r)) = Head(tasks)
    BY <2>2
  <2> QED
    BY <1>3, <2>1, <2>3
<1>6. CASE AskCheckpoint
  <2>1. /\ UNCHANGED <<memory, snapshot, doing, up, step>> /\ tasks' = Append(tasks, Checkpoint)
    BY <1>6 DEF AskCheckpoint, disk
  <2>2. tasks \in Seq(Requests \cup {Checkpoint})
    BY DEF Queued, InTurn
  <2>3. tasks # << >> => Head(Append(tasks, Checkpoint)) = Head(tasks)
    BY <2>2
  <2> QED
    BY <1>3, <2>1, <2>3
<1>7. ASSUME NEW r \in Requests, Refuse(r) \/ Purge(r) PROVE Doing'
  <2>1. doing' = doing /\ up /\ up' = up /\ step' = "ready" /\ (step = "ready" \/ step = "purging")
    BY <1>7 DEF Refuse, Purge, Running
  <2> QED
    BY <1>1, <1>4, <2>1
<1>8. ASSUME NEW r \in Requests, WriteFails(r) PROVE Doing'
  BY <1>4, <1>8 DEF WriteFails, Running, Rejected
<1>9. ASSUME NEW r \in Requests, Begin(r) PROVE Doing'
  <2>1. /\ UNCHANGED <<memory, tasks, call, up>> /\ up /\ step' = "writing" /\ Head(tasks) = r
    BY <1>9 DEF Begin, Running
  <2>2. /\ Possible(memory, doing')
        /\ doing'.kind = call[r].op.kind /\ doing'.id = call[r].op.id
    BY <1>9, BegunIs
  <2>3. doing' # None
    BY <2>2, MarkerAssumption
  <2> HIDE DEF Possible
  <2>4. Possible(memory', doing')
    BY <2>1, <2>2
  <2> QED
    BY <2>1, <2>2, <2>3, <2>4 DEF Doing, Possible
<1>10. ASSUME NEW r \in Requests, Write(r) PROVE Doing'
  <2>1. /\ UNCHANGED <<memory, tasks, call, up, doing>> /\ up /\ step = "writing" /\ step' = "written"
    BY <1>10 DEF Write, Running
  <2> HIDE DEF Possible
  <2>2. doing' # None /\ Possible(memory', doing')
    BY <1>1, <2>1
  <2> QED
    BY <1>1, <2>1, <2>2 DEF Doing, Possible
<1>11. ASSUME NEW r \in Requests, Commit(r) PROVE Doing'
  <2>1. /\ doing' = None /\ up /\ up' = up /\ memory' = Applied(memory, doing) /\ step = "written"
        /\ (step' = "purging" \/ step' = "ready") /\ tasks # << >> /\ Head(tasks) = r
    BY <1>11 DEF Commit, Running
  <2>2. CASE doing.kind # "delete"
    <3>1. step' = "ready"
      BY <1>11, <2>2 DEF Commit
    <3> QED
      BY <1>4, <2>1, <3>1
  <2>3. CASE doing.kind = "delete"
    <3>1. memory' = Without(memory, doing.id) /\ memory \in Stores
      BY <2>1, <2>3 DEF Applied, Shapes
    <3>2. DOMAIN memory' = DOMAIN memory \ {doing.id}
      BY <3>1, WithoutIs
    <3>3. tasks # << >> /\ step' = "purging" /\ call' = call
          /\ (tasks' = tasks \/ tasks' = Append(tasks, Checkpoint))
      BY <1>11, <2>3 DEF Commit, Running
    <3>4. tasks \in Seq(Requests \cup {Checkpoint})
      BY DEF Queued, InTurn
    <3>5. Head(tasks') = Head(tasks)
      BY <3>3, <3>4
    <3>6. doing.id = call[Head(tasks)].op.id
      BY <1>1, <2>1
    <3> QED
      BY <2>1, <3>2, <3>3, <3>5, <3>6 DEF Doing
  <2> QED
    BY <2>2, <2>3
<1>12. CASE SaveSnapshot
  <2>1. /\ UNCHANGED <<memory, doing, up>> /\ up /\ step = "ready" /\ step' = "saved" /\ snapshot' = memory
    BY <1>12 DEF SaveSnapshot, Running
  <2> QED
    BY <1>1, <2>1 DEF Doing
<1>13. CASE TruncateLog \/ CheckpointFails
  <2>1. /\ UNCHANGED <<doing, up>> /\ up /\ step' = "ready" /\ tasks # << >> /\ Head(tasks) = Checkpoint
    BY <1>13 DEF TruncateLog, CheckpointFails, Running, Rejected
  <2>2. step # "writing" /\ step # "written"
    BY <2>1, MarkerAssumption DEF Queued
  <2> QED
    BY <1>1, <1>4, <2>1, <2>2
<1>14. CASE Crash
  <2>1. UNCHANGED <<doing, memory>> /\ up /\ up' = FALSE /\ step' = "ready"
        /\ call' = [r \in Requests |->
             IF call[r].state = "queued" THEN [call[r] EXCEPT !.state = "lost"] ELSE call[r]]
    BY <1>14 DEF Crash
  <2>2. ASSUME doing # None PROVE Settled(doing.id)'
    <3>1. step = "writing" \/ step = "written"
      BY <1>1, <2>1, <2>2
    <3>2. PICK h \in Requests : h = Head(tasks)
      BY <3>1 DEF Queued
    <3>3. PICK op \in Operation : op = call[h].op
      BY <3>1, <3>2, HeadIs DEF Queued, Requested
    <3>4. call[h].state = "queued" /\ doing.id = op.id
      BY <1>1, <2>1, <2>2, <3>1, <3>2, <3>3, HeadIs DEF Queued
    <3>5. PICK i \in Requests : i = op.id
      BY OperationIs
    <3>6. (op.kind = "create" => i = h) /\ (op.kind # "create" => call[i].state = "done")
      BY <3>3, <3>4, <3>5 DEF Requested
    <3>7. call \in [Requests -> [state : States, op : Operation \cup {None}]]
      BY DEF Requested
    <3>8. call'[h].state = "lost"
      BY <2>1, <3>4, <3>7
    <3>9. call[i].state = "done" => call'[i].state = "done"
      BY <1>2 DEF CallsKept, Settled
    <3>10. Settled(i)'
      BY <3>6, <3>8, <3>9 DEF Settled
    <3> QED
      BY <2>1, <3>4, <3>5, <3>10 DEF Settled
  <2> HIDE DEF Possible
  <2>3. doing' # None => Possible(memory', doing')
    BY <1>1, <2>1
  <2> QED
    BY <2>1, <2>2, <2>3 DEF Doing, Possible
<1>15. CASE Restart
  BY <1>4, <1>15 DEF Restart, Queued
<1>16. CASE UNCHANGED ledgerVars
  BY <1>3, <1>16 DEF ledgerVars, disk
<1> QED
  BY <1>5, <1>6, <1>7, <1>8, <1>9, <1>10, <1>11, <1>12, <1>13, <1>14, <1>15, <1>16 DEF LedgerNext, Work

\* A step keeps the shapes.
LEMMA ShapesNext ==
  ASSUME LedgerInv, [LedgerNext]_ledgerVars
  PROVE  Shapes'
<1> USE DEF LedgerInv
<1>1. /\ snapshot \in Stores /\ memory \in Stores
      /\ log \in Seq(Line) /\ tail \in Line \cup {None}
      /\ up \in BOOLEAN /\ glued \in BOOLEAN
      /\ appended \in 0 .. Budget - 1 /\ carried \in Nat /\ faults \in Nat
  BY DEF Shapes
<1>2. up /\ (step = "writing" \/ step = "written") => doing \in Line /\ doing \in Operation /\ Accepted(memory, doing)
  BY DEF Doing, Line
<1>3. Corrupt \in Line /\ Len(log) \in Nat /\ Budget \in Nat \ {0}
  BY <1>1, LedgerAssumption DEF Line
<1>4. ASSUME NEW r \in Requests, Submit(r) \/ Refuse(r) \/ Begin(r) \/ Purge(r) PROVE Shapes'
  <2>1. UNCHANGED <<snapshot, memory, log, tail, up, glued, appended, carried>> /\ faults' \in Nat
    BY <1>1, <1>4 DEF Submit, Refuse, Begin, Purge, disk
  <2> QED
    BY <1>1, <2>1 DEF Shapes
<1>5. ASSUME NEW r \in Requests, Write(r) PROVE Shapes'
  <2>1. UNCHANGED <<snapshot, memory, up, appended, carried, faults>> /\ tail' = None
        /\ log' = Append(log, IF tail = None THEN doing ELSE Corrupt) /\ glued' \in BOOLEAN
    BY <1>1, <1>5 DEF Write, AppendLine
  <2>2. doing \in Line
    BY <1>2, <1>5 DEF Write, Running
  <2>3. log' \in Seq(Line)
    BY <1>1, <1>3, <2>1, <2>2
  <2> QED
    BY <1>1, <2>1, <2>3 DEF Shapes
<1>6. ASSUME NEW r \in Requests, WriteFails(r) PROVE Shapes'
  <2>1. UNCHANGED <<snapshot, memory, log, up, appended, carried>> /\ faults' = faults + 1
        /\ tail' \in Line \cup {None} /\ glued' \in BOOLEAN
    BY <1>1, <1>3, <1>6 DEF WriteFails, TearLine
  <2> QED
    BY <1>1, <2>1 DEF Shapes
<1>7. ASSUME NEW r \in Requests, Commit(r) PROVE Shapes'
  <2>1. UNCHANGED <<snapshot, log, tail, up, glued, carried, faults>>
        /\ memory' = Applied(memory, doing) /\ appended' = Counted(appended + 1)
    BY <1>7 DEF Commit, disk
  <2>2. memory' \in Stores
    BY <1>1, <1>2, <1>7, <2>1, AppliedStores DEF Commit, Running
  <2>3. appended' \in 0 .. Budget - 1
    BY <1>1, <1>3, <2>1 DEF Counted, Due
  <2> QED
    BY <1>1, <2>1, <2>2, <2>3 DEF Shapes
<1>8. CASE SaveSnapshot \/ AskCheckpoint \/ CheckpointFails
  <2>1. UNCHANGED <<log, tail, memory, up, appended, carried, glued>> /\ (snapshot' = memory \/ snapshot' = snapshot)
        /\ (faults' = faults \/ faults' = faults + 1)
    BY <1>8 DEF SaveSnapshot, AskCheckpoint, CheckpointFails, disk
  <2> QED
    BY <1>1, <2>1 DEF Shapes
<1>9. CASE TruncateLog
  <2>1. UNCHANGED <<snapshot, memory, up, appended, faults, glued>> /\ log' = << >> /\ tail' = None /\ carried' = 0
    BY <1>9 DEF TruncateLog
  <2>2. << >> \in Seq(Line)
    OBVIOUS
  <2> QED
    BY <1>1, <2>1, <2>2 DEF Shapes
<1>10. CASE Crash
  <2>1. UNCHANGED <<snapshot, memory, log, carried, faults>> /\ up' = FALSE /\ appended' = 0
    BY <1>10 DEF Crash
  <2>2. tail' \in Line \cup {None} /\ glued' \in BOOLEAN
    BY <1>1, <1>2, <1>3, <1>10 DEF Crash, TearLine
  <2>3. 0 \in 0 .. Budget - 1
    BY <1>3
  <2> QED
    BY <1>1, <2>1, <2>2, <2>3 DEF Shapes
<1>11. CASE Restart
  <2>1. UNCHANGED <<snapshot, log, tail, appended, faults, glued>> /\ up' = TRUE
        /\ memory' = Recovered /\ carried' = Len(log)
    BY <1>11 DEF Restart, disk
  <2>2. Recovered \in Stores
    BY <1>1, LinesIs, StaleIs, ReplayStores DEF Recovered
  <2> QED
    BY <1>1, <1>3, <2>1, <2>2 DEF Shapes
<1>12. CASE UNCHANGED ledgerVars
  BY <1>12 DEF ledgerVars, disk, Shapes
<1> QED
  BY <1>4, <1>5, <1>6, <1>7, <1>8, <1>9, <1>10, <1>11, <1>12 DEF LedgerNext, Work

-----------------------------------------------------------------------------
(* What the disk tells.                                                    *)

\* Once a line is glued to another, the log stays that way.
LEMMA GluedStays == Shapes /\ [LedgerNext]_ledgerVars => (glued => glued')
  BY DEF Shapes, LedgerNext, Work, ledgerVars, Submit, Refuse, Begin, Write, Commit, Purge, WriteFails,
         SaveSnapshot, TruncateLog, AskCheckpoint, CheckpointFails, Crash, Restart, AppendLine, TearLine

\* A create whose line is not written yet is in no store and no line.
LEMMA StillFresh ==
  ASSUME LedgerInv, ~glued, up, step = "writing", doing.kind = "create"
  PROVE  /\ doing.id \notin DOMAIN memory
         /\ \A j \in 1 .. Len(Lines) : Lines[j] # Corrupt => Lines[j].id # doing.id
<1> USE DEF LedgerInv
<1>1. doing # None /\ doing \in Operation
  BY DEF Doing
<1>2. PICK h \in Requests : h = Head(tasks) /\ tasks # << >>
  BY DEF Queued
<1>3. call[h].state = "queued" /\ doing.kind = call[h].op.kind /\ doing.id = call[h].op.id
  BY <1>1, <1>2, HeadIs DEF Doing
<1>4. doing.id = h
  BY <1>3 DEF Requested
<1>5. ~Settled(doing.id)
  BY <1>3, <1>4 DEF Settled
<1>6. DOMAIN memory \subseteq Requests
  BY StoreIs DEF Shapes
<1> QED
  BY <1>5, <1>6 DEF Fresh

\* With the line of the operation behind it, the disk tells of the operation.
LEMMA WrittenTells ==
  ASSUME LedgerInv, ~glued, up, step = "writing"
  PROVE  /\ doing \in Operation /\ doing \in Line
         /\ Replay(Stale(snapshot), Append(Lines, doing)) = Stale(Applied(memory, doing))
         /\ Agrees(Append(Lines, doing), Applied(memory, doing))
<1> USE DEF LedgerInv
<1>1. /\ doing \in Operation /\ doing \in Line /\ Accepted(memory, doing)
      /\ doing.kind = "entry" => doing.seq = Len(memory[doing.id].entries)
  BY DEF Doing, Line
<1>2. Recovered = Stale(memory) /\ Agrees(Lines, memory)
  BY DEF Told, Tells
<1>3. memory \in Stores /\ Lines \in Seq(Line)
  BY LinesIs DEF Shapes
<1>4. doing.kind = "create" =>
        /\ doing.id \notin DOMAIN memory
        /\ \A j \in 1 .. Len(Lines) : Lines[j] # Corrupt => Lines[j].id # doing.id
  BY StillFresh
<1>5. Replay(Stale(snapshot), Append(Lines, doing)) = Replayed(Stale(memory), doing)
  BY <1>1, <1>2, <1>3, ReplayLast DEF Recovered
<1>6. Replayed(Stale(memory), doing) = Stale(Applied(memory, doing))
  BY <1>1, <1>3, <1>4, ReplayedApplied
<1>7. Agrees(Append(Lines, doing), Applied(memory, doing))
  BY <1>1, <1>2, <1>3, <1>4, AgreesMore
<1> QED
  BY <1>1, <1>5, <1>6, <1>7

\* A fragment tells nothing.
LEMMA NoiseTells ==
  ASSUME Shapes, NEW m, Tells(m)
  PROVE  Replay(Stale(snapshot), Append(Lines, Corrupt)) = Stale(m) /\ Agrees(Append(Lines, Corrupt), m)
<1>1. Lines \in Seq(Line) /\ Corrupt \in Line
  BY LinesIs DEF Line
<1>2. Recovered = Stale(m) /\ Agrees(Lines, m)
  BY DEF Tells
<1>3. Replay(Stale(snapshot), Append(Lines, Corrupt)) = Replayed(Recovered, Corrupt)
  BY <1>1, ReplayLast DEF Recovered
<1>4. Replayed(Recovered, Corrupt) = Recovered
  BY DEF Replayed
<1> QED
  BY <1>1, <1>2, <1>3, <1>4, AgreesCorrupt

\* What a written line does to the lines, when it is glued to nothing.
LEMMA LinesGrow ==
  ASSUME LedgerInv, NEW r \in Requests, Write(r), ~glued'
  PROVE  Lines' = Append(Lines, doing) /\ ~glued
<1>1. tail = None /\ log' = Append(log, doing) /\ tail' = None /\ ~glued
  BY DEF Write, AppendLine
<1>2. Lines = log /\ log \in Seq(Line)
  BY <1>1, LinesIs DEF LedgerInv, Shapes
<1>3. doing \in Line
  BY DEF LedgerInv, Doing, Write, Running, Line
<1>4. log' \in Seq(Line)
  BY <1>1, <1>2, <1>3
<1>5. Lines' = log'
  BY <1>1, <1>4, LinesOf DEF Lines
<1> QED
  BY <1>1, <1>2, <1>5

\* What a torn line does to them.
LEMMA LinesTear ==
  ASSUME LedgerInv, NEW F, TearLine(F), log' = log, ~glued', F \subseteq Line
  PROVE  /\ Lines' = Lines \/ \E x \in F : Lines' = Append(Lines, x)
         /\ ~glued
<1>1. log \in Seq(Line) /\ tail \in Line \cup {None}
  BY DEF LedgerInv, Shapes
<1>2. CASE tail # None
  <2>1. ~glued /\ (tail' = tail \/ tail' = Corrupt) /\ (tail = Corrupt \/ tail = tail')
    BY <1>2 DEF TearLine
  <2>2. tail' = tail
    BY <2>1
  <2> QED
    BY <2>1, <2>2 DEF Lines
<1>3. CASE tail = None
  <2>1. ~glued /\ tail' \in {None} \cup F
    BY <1>3 DEF TearLine
  <2>2. Lines = log
    BY <1>1, <1>3, LinesOf DEF Lines
  <2>3. CASE tail' = None
    BY <1>3, <2>1, <2>3 DEF Lines
  <2>4. CASE tail' # None
    <3>1. tail' \in F /\ tail' \in Line
      BY <2>1, <2>4
    <3>2. Lines' = Append(log, tail')
      BY <1>1, <2>4, <3>1, LinesOf DEF Lines
    <3> QED
      BY <2>1, <2>2, <3>1, <3>2
  <2> QED
    BY <2>3, <2>4
<1> QED
  BY <1>2, <1>3

\* What a restart finds is the memory, or the memory with the operation being written.
LEMMA RestartFinds ==
  ASSUME LedgerInv, ~glued, ~up
  PROVE  \E m \in Stores :
           /\ Tells(m)
           /\ m = memory \/ (doing # None /\ m = Applied(memory, doing))
<1> USE DEF LedgerInv
<1>1. memory \in Stores
  BY DEF Shapes
<1>2. doing # None => Applied(memory, doing) \in Stores
  BY <1>1, AppliedStores DEF Doing
<1> QED
  BY <1>1, <1>2 DEF Told

\* An operation touches no session but its own.
LEMMA AppliedDomain ==
  ASSUME NEW m \in Stores, NEW op \in Operation, Accepted(m, op)
  PROVE  DOMAIN Applied(m, op) \subseteq DOMAIN m \cup {op.id}
<1>1. op.kind \in {"create", "entry", "finish", "delete"}
  BY OperationIs
<1> QED
  BY <1>1 DEF Applied, Opened, Pushed, Closed, Without

\* A step leaves sessions that are still to be created alone.
LEMMA FreshNext ==
  ASSUME LedgerInv, [LedgerNext]_ledgerVars
  PROVE  Fresh'
<1> USE DEF LedgerInv
<1>1. SUFFICES ASSUME ~glued'
               PROVE  /\ \A id \in DOMAIN memory' : Settled(id)'
                      /\ \A j \in 1 .. Len(Lines') : Lines'[j] # Corrupt =>
                           Settled(Lines[j].id)' \/ (up' /\ step' = "written" /\ Lines'[j].id = doing'.id)
  BY DEF Fresh
<1>2. ~glued
  BY <1>1, GluedStays
<1> DEFINE Old(id) == id \in Requests /\ Settled(id)
           New(id) == call'[id].state = "done" \/ call'[id].state = "lost"
<1>3. \A id : Old(id) => New(id)
  BY RequestedNext DEF CallsKept, Settled, Old, New
<1>4. memory \in Stores /\ Lines \in Seq(Line) /\ Len(Lines) \in Nat
  BY LinesIs DEF Shapes
<1>5. \A id \in DOMAIN memory : Old(id)
  BY <1>2, <1>4, StoreIs DEF Fresh
<1>6. \A j \in 1 .. Len(Lines) : Lines[j] # Corrupt => Lines[j].id \in Requests
  BY <1>4, OperationIs DEF Line
<1>7. \A j \in 1 .. Len(Lines) : Lines[j] # Corrupt =>
        Old(Lines[j].id) \/ (up /\ step = "written" /\ Lines[j].id = doing.id)
  BY <1>2, <1>6 DEF Fresh
<1>8. \A id \in DOMAIN memory : New(id)
  BY <1>3, <1>5
<1> DEFINE Clean == \A j \in 1 .. Len(Lines') : Lines'[j] # Corrupt =>
                      New(Lines'[j].id) \/ (up' /\ step' = "written" /\ Lines'[j].id = doing'.id)
<1>9. SUFFICES (\A id \in DOMAIN memory' : New(id)) /\ Clean
  BY DEF Settled
<1> HIDE DEF Old, New
<1>10. ASSUME Lines' = Lines, ~(up /\ step = "written") PROVE Clean
  BY <1>3, <1>7, <1>10
<1>11. ASSUME UNCHANGED <<log, tail, memory>>, ~(up /\ step = "written")
       PROVE  (\A id \in DOMAIN memory' : New(id)) /\ Clean
  <2>1. Lines' = Lines
    BY <1>11 DEF Lines
  <2> HIDE DEF Clean
  <2> QED
    BY <1>8, <1>10, <1>11, <2>1
<1>12. ASSUME UNCHANGED <<log, tail, memory, up, step, doing>>
       PROVE  (\A id \in DOMAIN memory' : New(id)) /\ Clean
  <2>1. Lines' = Lines
    BY <1>12 DEF Lines
  <2> QED
    BY <1>3, <1>7, <1>8, <1>12, <2>1
<1>13. ASSUME NEW r \in Requests, Submit(r) PROVE (\A id \in DOMAIN memory' : New(id)) /\ Clean
  <2>1. UNCHANGED <<log, tail, memory, up, step, doing>>
    BY <1>13 DEF Submit, disk
  <2> HIDE DEF Clean
  <2> QED
    BY <1>12, <2>1
<1>14. ASSUME NEW r \in Requests, Refuse(r) \/ Begin(r) \/ Purge(r)
       PROVE  (\A id \in DOMAIN memory' : New(id)) /\ Clean
  <2>1. UNCHANGED <<log, tail, memory>> /\ step # "written"
    BY <1>14 DEF Refuse, Begin, Purge, Running, disk
  <2> HIDE DEF Clean
  <2> QED
    BY <1>11, <2>1
<1>15. CASE SaveSnapshot
  <2>1. UNCHANGED <<log, tail, memory>> /\ step # "written"
    BY <1>15 DEF SaveSnapshot, Running
  <2> HIDE DEF Clean
  <2> QED
    BY <1>11, <2>1
<1>16. CASE CheckpointFails
  <2>1. UNCHANGED <<log, tail, memory>> /\ tasks # << >> /\ Head(tasks) = Checkpoint
    BY <1>16 DEF CheckpointFails, Running, disk
  <2>2. step # "written"
    BY <2>1, MarkerAssumption DEF Queued
  <2> HIDE DEF Clean
  <2> QED
    BY <1>11, <2>1, <2>2
<1>17. CASE AskCheckpoint \/ UNCHANGED ledgerVars
  <2>1. UNCHANGED <<log, tail, memory, up, step, doing>>
    BY <1>17 DEF AskCheckpoint, ledgerVars, disk
  <2> HIDE DEF Clean
  <2> QED
    BY <1>12, <2>1
<1>18. ASSUME NEW r \in Requests, Write(r) PROVE (\A id \in DOMAIN memory' : New(id)) /\ Clean
  <2>1. UNCHANGED <<memory, up, doing>> /\ up /\ step = "writing" /\ step' = "written"
    BY <1>18 DEF Write, Running
  <2>2. Lines' = Append(Lines, doing)
    BY <1>1, <1>18, LinesGrow
  <2>3. doing \in Line
    BY <2>1 DEF Doing, Line
  <2>4. /\ Len(Lines') = Len(Lines) + 1 /\ Lines'[Len(Lines) + 1] = doing
        /\ \A j \in 1 .. Len(Lines) : Lines'[j] = Lines[j]
    BY <1>4, <2>2, <2>3
  <2>5. \A j \in 1 .. Len(Lines') : j \in 1 .. Len(Lines) \/ j = Len(Lines) + 1
    BY <1>4, <2>4
  <2>6. Clean
    BY <1>3, <1>7, <2>1, <2>4, <2>5
  <2> HIDE DEF Clean
  <2> QED
    BY <1>8, <2>1, <2>6
<1>19. ASSUME NEW r \in Requests, WriteFails(r) PROVE (\A id \in DOMAIN memory' : New(id)) /\ Clean
  <2>1. memory' = memory /\ log' = log /\ step = "writing" /\ TearLine({Corrupt})
    BY <1>19 DEF WriteFails, Running
  <2>2. Corrupt \in Line
    BY DEF Line
  <2>3. Lines' = Lines \/ Lines' = Append(Lines, Corrupt)
    BY <1>1, <2>1, <2>2, LinesTear
  <2>4. CASE Lines' = Lines
    <3> HIDE DEF Clean
    <3> QED
      BY <1>8, <1>10, <2>1, <2>4
  <2>5. CASE Lines' = Append(Lines, Corrupt)
    <3>1. /\ Len(Lines') = Len(Lines) + 1 /\ Lines'[Len(Lines) + 1] = Corrupt
          /\ \A j \in 1 .. Len(Lines) : Lines'[j] = Lines[j]
      BY <1>4, <2>2, <2>5
    <3>2. \A j \in 1 .. Len(Lines') : j \in 1 .. Len(Lines) \/ j = Len(Lines) + 1
      BY <1>4, <3>1
    <3>3. Clean
      BY <1>3, <1>7, <2>1, <3>1, <3>2
    <3> HIDE DEF Clean
    <3> QED
      BY <1>8, <2>1, <3>3
  <2> QED
    BY <2>3, <2>4, <2>5
<1>20. ASSUME NEW r \in Requests, Commit(r) PROVE (\A id \in DOMAIN memory' : New(id)) /\ Clean
  <2>1. /\ memory' = Applied(memory, doing) /\ UNCHANGED <<log, tail>>
        /\ up /\ step = "written" /\ tasks # << >> /\ Head(tasks) = r
    BY <1>20 DEF Commit, Running, disk
  <2>2. doing # None /\ doing \in Operation /\ Accepted(memory, doing)
        /\ doing.kind = call[r].op.kind /\ doing.id = call[r].op.id
    BY <2>1 DEF Doing
  <2>3. call[r].state = "queued"
    BY <2>1, HeadIs
  <2>4. New(doing.id)
    <3>1. PICK i \in Requests : i = doing.id
      BY <2>2, OperationIs
    <3>2. CASE doing.kind # "create"
      <4>1. call[i].state = "done"
        BY <2>2, <2>3, <3>1, <3>2 DEF Requested
      <4>2. Old(i)
        BY <4>1 DEF Old, Settled
      <4> QED
        BY <1>3, <3>1, <4>2
    <3>3. CASE doing.kind = "create"
      <4>1. i = r
        BY <2>2, <2>3, <3>1, <3>3 DEF Requested
      <4>2. Ended(r, "done")
        BY <1>20, <3>3 DEF Commit
      <4>3. "done" \in States
        BY DEF States
      <4>4. call'[r].state = "done"
        BY <2>3, <4>2, <4>3, Answered
      <4>5. New(r)
        BY <4>4 DEF New, Settled
      <4> QED
        BY <3>1, <4>1, <4>5
    <3> QED
      BY <3>2, <3>3
  <2>5. DOMAIN memory' \subseteq DOMAIN memory \cup {doing.id}
    BY <1>4, <2>1, <2>2, AppliedDomain
  <2>6. Lines' = Lines
    BY <2>1 DEF Lines
  <2>7. Clean
    BY <1>3, <1>7, <2>4, <2>6
  <2> HIDE DEF Clean
  <2> QED
    BY <1>8, <2>4, <2>5, <2>7
<1>21. CASE TruncateLog
  <2>1. memory' = memory /\ log' = << >> /\ tail' = None
    BY <1>21 DEF TruncateLog
  <2>2. << >> \in Seq(Line) /\ Len(<< >>) = 0
    OBVIOUS
  <2>3. Lines' = << >>
    BY <2>1, <2>2, LinesOf DEF Lines
  <2>4. \A j : j \notin 1 .. Len(<< >>)
    OBVIOUS
  <2>5. Clean
    BY <2>3, <2>4, Zenon
  <2> HIDE DEF Clean
  <2> QED
    BY <1>8, <2>1, <2>5
<1>22. CASE Crash
  <2>1. memory' = memory /\ log' = log /\ up /\ ~up' /\ doing' = doing /\ step' = "ready"
    BY <1>22 DEF Crash
  <2>2. doing # None => New(doing.id)
    BY <2>1, DoingNext DEF Doing, New, Settled
  <2>3. Lines' = Lines \/ Lines' = Append(Lines, Corrupt) \/ (step = "writing" /\ Lines' = Append(Lines, doing))
    <3>1. CASE step = "writing"
      <4>1. {Corrupt, doing} \subseteq Line
        BY <2>1, <3>1 DEF Doing, Line
      <4>2. TearLine({Corrupt, doing})
        BY <1>22, <3>1 DEF Crash
      <4> QED
        BY <1>1, <2>1, <3>1, <4>1, <4>2, LinesTear
    <3>2. CASE step # "writing"
      BY <1>22, <2>1, <3>2 DEF Crash, Lines
    <3> QED
      BY <3>1, <3>2
  <2>4. step = "writing" \/ step = "written" => doing # None /\ doing \in Line
    BY <2>1 DEF Doing, Line
  <2>5. \A j \in 1 .. Len(Lines) : Lines[j] # Corrupt => New(Lines[j].id)
    BY <1>3, <1>7, <2>2, <2>4
  <2>6. Corrupt \in Line
    BY DEF Line
  <2>7. ASSUME NEW x \in Line, Lines' = Append(Lines, x), x # Corrupt => New(x.id) PROVE Clean
    <3>1. /\ Len(Lines') = Len(Lines) + 1 /\ Lines'[Len(Lines) + 1] = x
          /\ \A j \in 1 .. Len(Lines) : Lines'[j] = Lines[j]
      BY <1>4, <2>7
    <3>2. \A j \in 1 .. Len(Lines') : j \in 1 .. Len(Lines) \/ j = Len(Lines) + 1
      BY <1>4, <3>1
    <3> QED
      BY <2>5, <2>7, <3>1, <3>2
  <2>8. CASE Lines' = Lines
    <3>1. Clean
      BY <2>5, <2>8
    <3> HIDE DEF Clean
    <3> QED
      BY <1>8, <2>1, <3>1
  <2>9. CASE Lines' # Lines
    <3> HIDE DEF Clean
    <3> QED
      BY <1>8, <2>1, <2>2, <2>3, <2>4, <2>6, <2>7, <2>9
  <2> QED
    BY <2>8, <2>9
<1>23. CASE Restart
  <2>1. ~up /\ memory' = Recovered /\ UNCHANGED <<log, tail>>
    BY <1>23 DEF Restart, disk
  <2>2. PICK m \in Stores : Tells(m) /\ (m = memory \/ (doing # None /\ m = Applied(memory, doing)))
    BY <1>2, <2>1, RestartFinds
  <2>3. doing # None => /\ doing \in Operation /\ Accepted(memory, doing) /\ Old(doing.id)
    BY <2>1, OperationIs DEF Doing, Old
  <2>4. DOMAIN memory' = DOMAIN m
    BY <2>1, <2>2, StaleIs DEF Tells
  <2>5. \A id \in DOMAIN m : New(id)
    <3>1. CASE m = memory
      BY <1>8, <3>1
    <3>2. CASE doing # None /\ m = Applied(memory, doing)
      BY <1>3, <1>4, <1>8, <2>3, <3>2, AppliedDomain
    <3> QED
      BY <2>2, <3>1, <3>2
  <2>6. Lines' = Lines
    BY <2>1 DEF Lines
  <2>7. Clean
    BY <1>3, <1>7, <2>1, <2>6
  <2> HIDE DEF Clean
  <2> QED
    BY <2>4, <2>5, <2>7
<1> HIDE DEF Clean
<1> QED
  BY <1>13, <1>14, <1>15, <1>16, <1>17, <1>18, <1>19, <1>20, <1>21, <1>22, <1>23 DEF LedgerNext, Work

\* A step keeps the disk telling of the memory.
LEMMA ToldNext ==
  ASSUME LedgerInv, [LedgerNext]_ledgerVars
  PROVE  Told'
<1> USE DEF LedgerInv
<1>1. SUFFICES ASSUME ~glued' PROVE Told'
  BY DEF Told
<1>2. ~glued
  BY <1>1, GluedStays
<1> DEFINE W == Applied(memory, doing)
           Now(m) == Replay(Stale(snapshot'), Lines') = Stale(m) /\ Agrees(Lines', m)
<1>3. /\ up /\ step = "written" => Tells(W)
      /\ up /\ step # "written" => Tells(memory)
      /\ ~up => Tells(memory) \/ (doing # None /\ Tells(W))
  BY <1>2 DEF Told
<1>4. memory \in Stores /\ Lines \in Seq(Line) /\ Len(Lines) \in Nat
  BY LinesIs DEF Shapes
<1>5. ASSUME UNCHANGED <<snapshot, log, tail>>, NEW m, Tells(m) PROVE Now(m)
  <2>1. Lines' = Lines
    BY <1>5 DEF Lines
  <2> QED
    BY <1>5, <2>1 DEF Tells, Recovered
\* Whatever the step, the disk then tells of what memory is or is about to be.
<1>6. ASSUME up', step' # "written", Now(memory') PROVE Told'
  BY <1>6 DEF Told, Tells, Recovered
<1>7. ASSUME NEW r \in Requests, Refuse(r) \/ Begin(r) \/ Purge(r) PROVE Told'
  <2>1. UNCHANGED <<snapshot, log, tail, memory, up>> /\ up /\ step # "written" /\ step' # "written"
    BY <1>7 DEF Refuse, Begin, Purge, Running, disk
  <2>2. Now(memory)
    BY <1>3, <1>5, <2>1
  <2> HIDE DEF Now
  <2> QED
    BY <1>6, <2>1, <2>2
<1>8. ASSUME UNCHANGED <<snapshot, log, tail, memory, up, step, doing>> PROVE Told'
  <2>1. Lines' = Lines /\ Recovered' = Recovered
    BY <1>8 DEF Lines, Recovered
  <2> QED
    BY <1>3, <1>8, <2>1 DEF Told, Tells
<1>9. ASSUME NEW r \in Requests, Submit(r) PROVE Told'
  <2>1. UNCHANGED <<snapshot, log, tail, memory, up, step, doing>>
    BY <1>9 DEF Submit, disk
  <2> QED
    BY <1>8, <2>1
<1>10. CASE AskCheckpoint \/ UNCHANGED ledgerVars
  <2>1. UNCHANGED <<snapshot, log, tail, memory, up, step, doing>>
    BY <1>10 DEF AskCheckpoint, ledgerVars, disk
  <2> QED
    BY <1>8, <2>1
<1>11. CASE CheckpointFails
  <2>1. /\ UNCHANGED <<snapshot, log, tail, memory, up>> /\ up /\ step' = "ready"
        /\ tasks # << >> /\ Head(tasks) = Checkpoint
    BY <1>11 DEF CheckpointFails, Running, Rejected, disk
  <2>2. step # "written"
    BY <2>1, MarkerAssumption DEF Queued
  <2>3. Now(memory)
    BY <1>3, <1>5, <2>1, <2>2
  <2> HIDE DEF Now
  <2> QED
    BY <1>6, <2>1, <2>3
<1>12. ASSUME NEW r \in Requests, Write(r) PROVE Told'
  <2>1. UNCHANGED <<snapshot, memory, up, doing>> /\ up /\ step = "writing" /\ step' = "written"
    BY <1>12 DEF Write, Running
  <2>2. Lines' = Append(Lines, doing)
    BY <1>1, <1>12, LinesGrow
  <2>3. /\ Replay(Stale(snapshot), Append(Lines, doing)) = Stale(W)
        /\ Agrees(Append(Lines, doing), W)
    BY <1>2, <2>1, WrittenTells
  <2> HIDE DEF W
  <2>4. Now(W) /\ W' = W
    BY <2>1, <2>2, <2>3 DEF W
  <2> QED
    BY <2>1, <2>4 DEF Told, Tells, Recovered, W
<1>13. ASSUME NEW r \in Requests, WriteFails(r) PROVE Told'
  <2>1. /\ UNCHANGED <<snapshot, memory, log, up>> /\ up /\ step = "writing" /\ TearLine({Corrupt})
        /\ step' = "ready"
    BY <1>13 DEF WriteFails, Running, Rejected
  <2>2. {Corrupt} \subseteq Line
    BY DEF Line
  <2>3. Lines' = Lines \/ Lines' = Append(Lines, Corrupt)
    BY <1>1, <2>1, <2>2, LinesTear
  <2>4. Tells(memory)
    BY <1>3, <2>1
  <2>5. Now(memory)
    BY <2>1, <2>3, <2>4, NoiseTells DEF Tells, Recovered
  <2> HIDE DEF Now
  <2> QED
    BY <1>6, <2>1, <2>5
<1>14. ASSUME NEW r \in Requests, Commit(r) PROVE Told'
  <2>1. /\ UNCHANGED <<snapshot, log, tail, up>> /\ up /\ step = "written" /\ memory' = W
        /\ (step' = "purging" \/ step' = "ready")
    BY <1>14 DEF Commit, Running, disk
  <2>2. Now(W)
    BY <1>3, <1>5, <2>1
  <2> HIDE DEF Now, W
  <2> QED
    BY <1>6, <2>1, <2>2
<1>15. CASE SaveSnapshot
  <2>1. /\ UNCHANGED <<log, tail, memory, up>> /\ up /\ step = "ready" /\ step' = "saved" /\ snapshot' = memory
    BY <1>15 DEF SaveSnapshot, Running
  <2>2. Agrees(Lines, memory)
    BY <1>3, <2>1 DEF Tells
  <2>3. Replay(Stale(memory), Lines) = Stale(memory)
    BY <1>4, <2>2, ReplayAgain
  <2>4. Lines' = Lines
    BY <2>1 DEF Lines
  <2>5. Now(memory)
    BY <2>1, <2>2, <2>3, <2>4
  <2> HIDE DEF Now
  <2> QED
    BY <1>6, <2>1, <2>5
<1>16. CASE TruncateLog
  <2>1. /\ UNCHANGED <<snapshot, memory, up>> /\ up /\ step = "saved" /\ step' = "ready"
        /\ log' = << >> /\ tail' = None
    BY <1>16 DEF TruncateLog, Running
  <2>2. snapshot = memory
    BY <2>1 DEF Doing
  <2>3. << >> \in Seq(Line) /\ \A j : j \notin 1 .. Len(<< >>)
    OBVIOUS
  <2>4. Lines' = << >>
    BY <2>1, <2>3, LinesOf DEF Lines
  <2>5. Agrees(<< >>, memory)
    BY <2>3, Zenon DEF Agrees
  <2>6. Replay(Stale(memory), << >>) = Stale(memory)
    BY ReplayNothing
  <2>7. Now(memory)
    BY <2>1, <2>2, <2>4, <2>5, <2>6
  <2> HIDE DEF Now
  <2> QED
    BY <1>6, <2>1, <2>7
<1>17. CASE Crash
  <2>1. UNCHANGED <<snapshot, memory, log, doing>> /\ up /\ ~up'
    BY <1>17 DEF Crash
  <2>2. SUFFICES Now(memory) \/ (doing # None /\ Now(W))
    <3>1. W' = W
      BY <2>1
    <3> HIDE DEF W
    <3> QED
      BY <2>1, <3>1 DEF Told, Tells, Recovered, W
  <2>3. CASE step # "writing"
    <3>1. tail' = tail
      BY <1>17, <2>3 DEF Crash
    <3>2. step = "written" => doing # None
      BY <2>1 DEF Doing
    <3> HIDE DEF Now, W
    <3> QED
      BY <1>3, <1>5, <2>1, <3>1, <3>2
  <2>4. CASE step = "writing"
    <3>1. doing # None /\ {Corrupt, doing} \subseteq Line
      BY <2>1, <2>4 DEF Doing, Line
    <3>2. TearLine({Corrupt, doing})
      BY <1>17, <2>4 DEF Crash
    <3>3. Lines' = Lines \/ Lines' = Append(Lines, Corrupt) \/ Lines' = Append(Lines, doing)
      BY <1>1, <2>1, <3>1, <3>2, LinesTear
    <3>4. Tells(memory)
      BY <1>3, <2>1, <2>4
    <3>5. CASE Lines' = Lines
      BY <2>1, <3>4, <3>5 DEF Tells, Recovered
    <3>6. CASE Lines' = Append(Lines, Corrupt)
      BY <2>1, <3>4, <3>6, NoiseTells
    <3>7. CASE Lines' = Append(Lines, doing)
      BY <1>2, <2>1, <2>4, <3>1, <3>7, WrittenTells
    <3> QED
      BY <3>3, <3>5, <3>6, <3>7
  <2> QED
    BY <2>3, <2>4
<1>18. CASE Restart
  <2>1. ~up /\ up' /\ memory' = Recovered /\ UNCHANGED <<snapshot, log, tail, step>>
    BY <1>18 DEF Restart, disk
  <2>2. PICK m \in Stores : Tells(m) /\ (m = memory \/ (doing # None /\ m = W))
    BY <1>2, <2>1, RestartFinds
  <2>3. Recovered = Stale(m) /\ Agrees(Lines, m)
    BY <2>2 DEF Tells
  <2>4. Stale(Stale(m)) = Stale(m) /\ Agrees(Lines, Stale(m))
    BY <1>4, <2>3, StaleTwice, AgreesStale
  <2>5. Tells(Stale(m))
    BY <2>3, <2>4 DEF Tells
  <2>6. Now(Stale(m))
    BY <1>5, <2>1, <2>5
  <2>7. step' # "written"
    BY <2>1 DEF Queued
  <2>8. memory' = Stale(m)
    BY <2>1, <2>3
  <2> HIDE DEF Now
  <2> QED
    BY <1>6, <2>1, <2>6, <2>7, <2>8
<1> QED
  BY <1>7, <1>9, <1>10, <1>11, <1>12, <1>13, <1>14, <1>15, <1>16, <1>17, <1>18 DEF LedgerNext, Work

-----------------------------------------------------------------------------
(* The sidecar and the count.                                              *)

\* A restart keeps the entries.
LEMMA BodiesStale ==
  ASSUME NEW m \in Stores, NEW b, Bodies(m, b)
  PROVE  Bodies(Stale(m), b)
<1>1. DOMAIN Stale(m) = DOMAIN m /\ \A id \in DOMAIN m : Stale(m)[id].entries = m[id].entries
  BY StaleIs
<1> QED
  BY <1>1 DEF Bodies

\* An operation keeps the entries, and adds one whose body is saved.
LEMMA BodiesApplied ==
  ASSUME NEW m \in Stores, NEW b, Bodies(m, b), NEW op \in Operation, Accepted(m, op),
         op.kind = "entry" => op.seq = Len(m[op.id].entries),
         op.kind = "entry" /\ op.entry.spilled =>
           [id |-> op.id, seq |-> op.seq, text |-> op.entry.text] \in b
  PROVE  Bodies(Applied(m, op), b)
<1> DEFINE w == Applied(m, op)
<1>1. CASE op.kind = "create"
  <2>1. w = Opened(m, op.id, "active")
    BY <1>1 DEF Applied
  <2>2. /\ DOMAIN w = DOMAIN m \cup {op.id} /\ w[op.id] = [status |-> "active", entries |-> << >>]
        /\ \A i \in DOMAIN m : i # op.id => w[i] = m[i]
    BY <2>1 DEF Opened
  <2>3. w[op.id].entries = << >>
    BY <2>2
  <2>4. DOMAIN << >> = {}
    OBVIOUS
  <2> HIDE DEF w
  <2> QED
    BY <2>2, <2>3, <2>4 DEF Bodies, w
<1>2. CASE op.kind = "entry"
  <2>1. w = Pushed(m, op) /\ op.id \in DOMAIN m /\ op.entry \in Entry
    BY <1>2, OperationIs DEF Applied, Accepted
  <2>2. /\ DOMAIN w = DOMAIN m /\ w[op.id].entries = Append(m[op.id].entries, op.entry)
        /\ \A i \in DOMAIN m : i # op.id => w[i] = m[i]
    BY <2>1, PushedIs
  <2>3. m[op.id].entries \in Seq(Entry)
    BY <2>1, StoreIs
  <2> DEFINE e == m[op.id].entries  f == w[op.id].entries
  <2>4. /\ DOMAIN e = 1 .. Len(e) /\ Len(e) \in Nat /\ DOMAIN f = 1 .. Len(e) + 1
        /\ f[Len(e) + 1] = op.entry /\ \A i \in 1 .. Len(e) : f[i] = e[i]
    BY <2>1, <2>2, <2>3
  <2> HIDE DEF w
  <2>5. ASSUME NEW i \in DOMAIN f, f[i].spilled
        PROVE  [id |-> op.id, seq |-> i - 1, text |-> f[i].text] \in b
    <3>1. CASE i \in 1 .. Len(e)
      <4>1. i \in DOMAIN e /\ f[i] = e[i]
        BY <2>4, <3>1
      <4> QED
        BY <2>1, <2>5, <4>1 DEF Bodies
    <3>2. CASE i = Len(e) + 1
      <4>1. f[i] = op.entry /\ i - 1 = op.seq
        BY <1>2, <2>4, <3>2
      <4> QED
        BY <1>2, <2>5, <4>1
    <3>3. i \in 1 .. Len(e) \/ i = Len(e) + 1
      <4> HIDE DEF e, f
      <4> QED
        BY <2>4
    <3> QED
      BY <3>1, <3>2, <3>3
  <2>6. ASSUME NEW id \in DOMAIN w, id # op.id, NEW i \in DOMAIN w[id].entries, w[id].entries[i].spilled
        PROVE  [id |-> id, seq |-> i - 1, text |-> w[id].entries[i].text] \in b
    BY <2>2, <2>6 DEF Bodies
  <2> QED
    BY <2>5, <2>6 DEF Bodies, w
<1>3. CASE op.kind = "finish"
  <2>1. w = Closed(m, op) /\ op.id \in DOMAIN m /\ op.status \in Final
    BY <1>3, OperationIs DEF Applied, Accepted
  <2>2. DOMAIN w = DOMAIN m /\ \A i \in DOMAIN m : w[i].entries = m[i].entries
    BY <2>1, ClosedIs
  <2> HIDE DEF w
  <2> QED
    BY <2>2 DEF Bodies, w
<1>4. CASE op.kind = "delete"
  <2>1. w = Without(m, op.id)
    BY <1>4 DEF Applied
  <2>2. DOMAIN w = DOMAIN m \ {op.id} /\ \A i \in DOMAIN m : i # op.id => w[i] = m[i]
    BY <2>1 DEF Without
  <2> HIDE DEF w
  <2> QED
    BY <2>2 DEF Bodies, w
<1> QED
  BY <1>1, <1>2, <1>3, <1>4, OperationIs

\* A step keeps every body behind its locator.
LEMMA SpilledNext ==
  ASSUME LedgerInv, [LedgerNext]_ledgerVars
  PROVE  Spilled'
<1> USE DEF LedgerInv
<1>1. SUFFICES ASSUME ~glued' PROVE Spilled'
  BY DEF Spilled
<1>2. ~glued
  BY <1>1, GluedStays
<1> DEFINE Held(d, b) == d # None /\ d.kind = "entry" /\ d.entry.spilled =>
                           [id |-> d.id, seq |-> d.seq, text |-> d.entry.text] \in b
<1>3. Bodies(memory, blobs) /\ Held(doing, blobs) /\ memory \in Stores
  BY <1>2 DEF Spilled, Shapes
<1>4. ASSUME Bodies(memory', blobs'), Held(doing', blobs') PROVE Spilled'
  BY <1>4 DEF Spilled
<1>5. ASSUME NEW r \in Requests, Submit(r) \/ Refuse(r) \/ Write(r) PROVE Spilled'
  <2>1. UNCHANGED <<memory, blobs, doing>>
    BY <1>5 DEF Submit, Refuse, Write, disk
  <2> HIDE DEF Held
  <2> QED
    BY <1>3, <1>4, <2>1
<1>6. CASE SaveSnapshot \/ TruncateLog \/ AskCheckpoint \/ CheckpointFails \/ Crash \/ UNCHANGED ledgerVars
  <2>1. UNCHANGED <<memory, blobs, doing>>
    BY <1>6 DEF SaveSnapshot, TruncateLog, AskCheckpoint, CheckpointFails, Crash, ledgerVars, disk
  <2> HIDE DEF Held
  <2> QED
    BY <1>3, <1>4, <2>1
<1>7. ASSUME NEW r \in Requests, WriteFails(r) PROVE Spilled'
  BY <1>3, <1>4, <1>7 DEF WriteFails
<1>8. ASSUME NEW r \in Requests, Begin(r) PROVE Spilled'
  <2>1. memory' = memory
    BY <1>8 DEF Begin
  <2> DEFINE d == doing'  op == call[r].op
  <2>2. /\ d \in Operation /\ d.id = op.id
        /\ d.kind = "entry" => d.seq = Len(memory[d.id].entries)
        /\ d.kind = "entry" /\ d.entry.spilled => d.entry = op.entry /\ blobs' = Saved(op, d.seq)
        /\ ~(d.kind = "entry" /\ d.entry.spilled) => blobs' = blobs
        /\ d.kind = "entry" => d.id \in DOMAIN memory
    BY <1>8, BegunIs DEF Accepted
  <2> HIDE DEF d, op
  <2>3. CASE ~(d.kind = "entry" /\ d.entry.spilled)
    BY <1>3, <1>4, <2>1, <2>2, <2>3 DEF d
  <2>4. CASE d.kind = "entry" /\ d.entry.spilled
    <3>1. blobs' = {b \in blobs : b.id # d.id \/ b.seq # d.seq}
                     \cup {[id |-> d.id, seq |-> d.seq, text |-> d.entry.text]}
      BY <2>2, <2>4 DEF Saved
    <3>2. Held(d, blobs')
      BY <3>1
    <3>3. ASSUME NEW id \in DOMAIN memory, NEW i \in DOMAIN memory[id].entries,
                 memory[id].entries[i].spilled
          PROVE  [id |-> id, seq |-> i - 1, text |-> memory[id].entries[i].text] \in blobs'
      <4>1. [id |-> id, seq |-> i - 1, text |-> memory[id].entries[i].text] \in blobs
        BY <1>3, <3>3 DEF Bodies
      <4>2. memory[id].entries \in Seq(Entry)
        BY <1>3, StoreIs
      <4>3. i \in 1 .. Len(memory[id].entries) /\ Len(memory[id].entries) \in Nat
        BY <4>2
      <4>4. id = d.id => i - 1 # d.seq
        BY <2>2, <2>4, <4>3
      <4> QED
        BY <3>1, <4>1, <4>4
    <3>4. Bodies(memory, blobs')
      BY <3>3 DEF Bodies
    <3> HIDE DEF Kept
    <3> QED
      BY <1>4, <2>1, <3>2, <3>4 DEF d
  <2> QED
    BY <2>3, <2>4
<1>9. ASSUME NEW r \in Requests, Commit(r) PROVE Spilled'
  <2>1. blobs' = blobs /\ doing' = None /\ memory' = Applied(memory, doing) /\ up /\ step = "written"
    BY <1>9 DEF Commit, Running, disk
  <2>2. /\ doing # None /\ doing \in Operation /\ Accepted(memory, doing)
        /\ doing.kind = "entry" => doing.seq = Len(memory[doing.id].entries)
    BY <2>1 DEF Doing
  <2>3. Bodies(Applied(memory, doing), blobs)
    BY <1>3, <2>2, BodiesApplied
  <2> QED
    BY <1>4, <2>1, <2>3
<1>10. ASSUME NEW r \in Requests, Purge(r) PROVE Spilled'
  <2>1. /\ memory' = memory /\ doing' = doing /\ up /\ step = "purging" /\ Head(tasks) = r
        /\ (blobs' = blobs \/ blobs' = {b \in blobs : b.id # call[r].op.id})
    BY <1>10 DEF Purge, Running
  <2>2. doing = None /\ call[r].op.id \notin DOMAIN memory
    BY <2>1 DEF Doing
  <2>3. Bodies(memory, blobs')
    BY <1>3, <2>1, <2>2 DEF Bodies
  <2> QED
    BY <1>4, <2>1, <2>2, <2>3
<1>11. CASE Restart
  <2>1. ~up /\ memory' = Recovered /\ blobs' = blobs /\ doing' = None
    BY <1>11 DEF Restart, disk
  <2>2. PICK m \in Stores : Tells(m) /\ (m = memory \/ (doing # None /\ m = Applied(memory, doing)))
    BY <1>2, <2>1, RestartFinds
  <2>3. doing # None => /\ doing \in Operation /\ Accepted(memory, doing)
                        /\ doing.kind = "entry" => doing.seq = Len(memory[doing.id].entries)
    BY DEF Doing
  <2>4. doing # None => Bodies(Applied(memory, doing), blobs)
    BY <1>3, <2>3, BodiesApplied
  <2>5. Bodies(m, blobs)
    BY <1>3, <2>2, <2>4
  <2>6. Bodies(memory', blobs)
    BY <2>1, <2>2, <2>5, BodiesStale DEF Tells
  <2> QED
    BY <1>4, <2>1, <2>6
<1> QED
  BY <1>5, <1>6, <1>7, <1>8, <1>9, <1>10, <1>11 DEF LedgerNext, Work

\* A step keeps the count up with the log.
LEMMA CountingNext ==
  ASSUME LedgerInv, [LedgerNext]_ledgerVars
  PROVE  Counting'
<1> USE DEF LedgerInv
<1> DEFINE NoneQueued == \A i \in 1 .. Len(tasks) : tasks[i] # Checkpoint
           Ahead == IF step = "written" THEN 1 ELSE 0
<1>1. up /\ faults = 0 /\ NoneQueued => Len(log) - carried - Ahead <= appended
  BY DEF Counting
<1>2. /\ Len(log) \in Nat /\ carried \in Nat /\ faults \in Nat /\ appended \in Nat /\ Ahead \in {0, 1}
      /\ log \in Seq(Line) /\ Budget \in Nat
  <2>1. appended \in Nat
    BY LedgerAssumption DEF Shapes
  <2> QED
    BY <2>1, LedgerAssumption DEF Shapes
<1>3. tasks \in Seq(Requests \cup {Checkpoint})
  BY DEF Queued, InTurn
<1>4. SUFFICES ASSUME up', faults' = 0, NoneQueued'
               PROVE  Len(log') - carried' - (IF step' = "written" THEN 1 ELSE 0) <= appended'
  BY DEF Counting
\* No checkpoint behind a head that is none, and none in front of a new task.
<1>5. ASSUME tasks # << >>, Head(tasks) # Checkpoint, tasks' = Tail(tasks) PROVE NoneQueued
  <2> DEFINE t == Tail(tasks)
  <2>1. /\ Len(tasks) \in Nat \ {0} /\ Head(tasks) = tasks[1] /\ Len(t) = Len(tasks) - 1
        /\ \A i \in 1 .. Len(t) : t[i] = tasks[i + 1]
    BY <1>3, <1>5
  <2>2. \A i \in 1 .. Len(t) : t[i] # Checkpoint
    BY <1>4, <1>5
  <2> HIDE DEF t
  <2>3. ASSUME NEW i \in 1 .. Len(tasks) PROVE tasks[i] # Checkpoint
    <3>1. CASE i = 1
      BY <1>5, <2>1, <3>1
    <3>2. CASE i # 1
      <4>1. i - 1 \in 1 .. Len(t) /\ i - 1 + 1 = i
        BY <2>1, <3>2
      <4>2. t[i - 1] = tasks[i - 1 + 1]
        BY <2>1, <4>1
      <4> QED
        BY <2>2, <4>1, <4>2
    <3> QED
      BY <3>1, <3>2
  <2> QED
    BY <2>3
<1>6. ASSUME NEW q \in Seq(Requests \cup {Checkpoint}), tasks' = Append(q, Checkpoint) PROVE FALSE
  <2> DEFINE t == Append(q, Checkpoint)
  <2>1. Len(t) = Len(q) + 1 /\ t[Len(q) + 1] = Checkpoint /\ Len(q) \in Nat
    BY <1>6
  <2>2. Len(q) + 1 \in 1 .. Len(t)
    BY <2>1
  <2>3. \A i \in 1 .. Len(t) : t[i] # Checkpoint
    BY <1>4, <1>6
  <2> QED
    BY <2>1, <2>2, <2>3
<1>7. ASSUME NEW x, x \in Requests, tasks' = Append(tasks, x) PROVE NoneQueued
  <2> DEFINE t == Append(tasks, x)
  <2>1. Len(t) = Len(tasks) + 1 /\ (\A i \in 1 .. Len(tasks) : t[i] = tasks[i]) /\ Len(tasks) \in Nat
    BY <1>3, <1>7
  <2>2. \A i \in 1 .. Len(t) : t[i] # Checkpoint
    BY <1>4, <1>7
  <2> HIDE DEF t
  <2> QED
    BY <2>1, <2>2
\* Steps that leave the log and the count.
<1>8. ASSUME UNCHANGED <<log, carried, appended, up>>, faults = 0, NoneQueued,
             step = "written" => step' = "written"
      PROVE  Len(log') - carried' - (IF step' = "written" THEN 1 ELSE 0) <= appended'
  <2>1. Len(log) - carried - Ahead <= appended
    BY <1>1, <1>4, <1>8
  <2> QED
    BY <1>2, <1>8, <2>1
<1> DEFINE Goal == Len(log') - carried' - (IF step' = "written" THEN 1 ELSE 0) <= appended'
<1> HIDE DEF NoneQueued, Ahead
<1>9. ASSUME NEW r \in Requests, Submit(r) PROVE Goal
  <2>1. UNCHANGED <<log, carried, appended, up, faults, step>> /\ tasks' = Append(tasks, r)
    BY <1>9 DEF Submit, disk
  <2> QED
    BY <1>4, <1>7, <1>8, <2>1
<1>10. ASSUME NEW r \in Requests, Refuse(r) \/ Purge(r) PROVE Goal
  <2>1. /\ UNCHANGED <<log, carried, appended, up>> /\ (faults' = faults \/ faults' = faults + 1)
        /\ tasks' = Tail(tasks) /\ tasks # << >> /\ Head(tasks) = r /\ step # "written"
    BY <1>10 DEF Refuse, Purge, Running, disk
  <2>2. faults = 0
    BY <1>2, <1>4, <2>1
  <2>3. NoneQueued
    BY <1>5, <2>1, MarkerAssumption
  <2> QED
    BY <1>8, <2>1, <2>2, <2>3
<1>11. ASSUME NEW r \in Requests, Begin(r) PROVE Goal
  <2>1. /\ UNCHANGED <<log, carried, appended, up, tasks>> /\ (faults' = faults \/ faults' = faults + 1)
        /\ step = "ready"
    BY <1>11 DEF Begin, Running
  <2>2. faults = 0
    BY <1>2, <1>4, <2>1
  <2>3. NoneQueued
    BY <1>4, <2>1 DEF NoneQueued
  <2> QED
    BY <1>8, <2>1, <2>2, <2>3
<1>12. ASSUME NEW r \in Requests, Write(r) PROVE Goal
  <2>1. /\ UNCHANGED <<carried, appended, up, tasks, faults>> /\ step = "writing" /\ step' = "written"
        /\ log' = Append(log, IF tail = None THEN doing ELSE Corrupt) /\ up
    BY <1>12 DEF Write, Running, AppendLine
  <2>2. doing \in Line /\ Corrupt \in Line
    BY <2>1 DEF Doing, Line
  <2>3. Len(log') = Len(log) + 1
    BY <1>2, <2>1, <2>2
  <2>4. NoneQueued /\ Ahead = 0
    BY <1>4, <2>1 DEF NoneQueued, Ahead
  <2>5. Len(log) - carried - 0 <= appended
    BY <1>1, <1>4, <2>1, <2>4
  <2> QED
    BY <1>2, <2>1, <2>3, <2>5
<1>13. ASSUME NEW r \in Requests, WriteFails(r) PROVE Goal
  <2>1. faults' = faults + 1
    BY <1>13 DEF WriteFails
  <2> QED
    BY <1>2, <1>4, <2>1
<1>14. ASSUME NEW r \in Requests, Commit(r) PROVE Goal
  <2> DEFINE rest == IF doing.kind = "delete" THEN tasks ELSE Tail(tasks)
  <2>1. /\ UNCHANGED <<log, carried, up, faults>> /\ up /\ step = "written"
        /\ step' = "purging" \/ step' = "ready"
    BY <1>14 DEF Commit, Running, disk
  <2>2. /\ tasks # << >> /\ Head(tasks) = r /\ appended' = Counted(appended + 1)
        /\ tasks' = IF Due(appended + 1) THEN Append(rest, Checkpoint) ELSE rest
    BY <1>14 DEF Commit, Running
  <2>3. rest \in Seq(Requests \cup {Checkpoint})
    BY <1>3, <2>2
  <2> HIDE DEF rest
  <2>4. ~Due(appended + 1) /\ tasks' = rest
    BY <1>6, <2>2, <2>3
  <2>5. appended' = appended + 1
    BY <2>2, <2>4 DEF Counted
  <2>6. NoneQueued
    <3>1. CASE doing.kind = "delete"
      BY <1>4, <2>4, <3>1 DEF NoneQueued, rest
    <3>2. CASE doing.kind # "delete"
      BY <1>5, <2>2, <2>4, <3>2, MarkerAssumption DEF rest
    <3> QED
      BY <3>1, <3>2
  <2>7. Ahead = 1
    BY <2>1 DEF Ahead
  <2>8. Len(log) - carried - 1 <= appended
    BY <1>1, <1>4, <2>1, <2>6, <2>7
  <2>9. step' # "written"
    BY <1>14 DEF Commit
  <2> QED
    BY <1>2, <2>1, <2>5, <2>8, <2>9
<1>15. CASE SaveSnapshot
  <2>1. UNCHANGED <<log, carried, appended, up, tasks, faults>> /\ step = "ready"
    BY <1>15 DEF SaveSnapshot, Running
  <2>2. NoneQueued
    BY <1>4, <2>1 DEF NoneQueued
  <2> QED
    BY <1>4, <1>8, <2>1, <2>2
<1>16. CASE TruncateLog
  <2>1. log' = << >> /\ carried' = 0 /\ appended' = appended /\ step' = "ready"
    BY <1>16 DEF TruncateLog
  <2>2. Len(log') = 0
    BY <2>1
  <2> QED
    BY <1>2, <2>1, <2>2
<1>17. CASE CheckpointFails
  <2>1. faults' = faults + 1
    BY <1>17 DEF CheckpointFails
  <2> QED
    BY <1>2, <1>4, <2>1
<1>18. CASE AskCheckpoint
  BY <1>3, <1>6, <1>18 DEF AskCheckpoint
<1>19. CASE Crash
  BY <1>4, <1>19 DEF Crash
<1>20. CASE Restart
  <2>1. log' = log /\ carried' = Len(log) /\ appended' = appended /\ step' = step /\ step = "ready"
    BY <1>20 DEF Restart, disk, Queued
  <2> QED
    BY <1>2, <2>1
<1>21. CASE UNCHANGED ledgerVars
  <2>1. UNCHANGED <<log, carried, appended, up, tasks, faults, step>>
    BY <1>21 DEF ledgerVars, disk
  <2>2. NoneQueued
    BY <1>4, <2>1 DEF NoneQueued
  <2> QED
    BY <1>4, <1>8, <2>1, <2>2
<1> QED
  BY <1>9, <1>10, <1>11, <1>12, <1>13, <1>14, <1>15, <1>16, <1>17, <1>18, <1>19, <1>20, <1>21
     DEF LedgerNext, Work

\* A step keeps the whole invariant.
LEMMA LedgerNextInv == LedgerInv /\ [LedgerNext]_ledgerVars => LedgerInv'
<1> SUFFICES ASSUME LedgerInv, [LedgerNext]_ledgerVars PROVE LedgerInv'
  OBVIOUS
<1>1. Shapes' /\ Requested' /\ Queued' /\ Doing'
  BY ShapesNext, RequestedNext, QueuedNext, DoingNext
<1>2. Fresh' /\ Told' /\ Spilled' /\ Counting'
  BY FreshNext, ToldNext, SpilledNext, CountingNext
<1> QED
  BY <1>1, <1>2 DEF LedgerInv

\* The invariant says what the runs check.
LEMMA LedgerInvTells == LedgerInv => LedgerTypeOK /\ CrashKeepsCommitted /\ LedgerFilesAgree
<1> SUFFICES ASSUME LedgerInv PROVE LedgerTypeOK /\ CrashKeepsCommitted /\ LedgerFilesAgree
  OBVIOUS
<1> USE DEF LedgerInv
<1>1. LedgerTypeOK
  <2>1. \A m \in {snapshot, memory} : \A id \in DOMAIN m : id \in Requests /\ m[id] \in Session
    <3>1. snapshot \in Stores /\ memory \in Stores
      BY DEF Shapes
    <3> QED
      BY <3>1, StoreIs
  <2>2. appended \in 0 .. Budget - 1 /\ up \in BOOLEAN /\ glued \in BOOLEAN
    BY DEF Shapes
  <2>3. step \in {"ready", "writing", "written", "purging", "saved"}
    BY DEF Queued
  <2>4. \A r \in Requests : call[r].state \in States
    <3>1. call \in [Requests -> [state : States, op : Operation \cup {None}]]
      BY DEF Requested
    <3> QED
      BY <3>1
  <2> QED
    BY <2>1, <2>2, <2>3, <2>4 DEF LedgerTypeOK, States
<1>2. ASSUME ~glued
      PROVE  \E m \in Stores : /\ Recovered = Stale(m) /\ Bodies(m, blobs)
                               /\ m = memory \/ (doing # None /\ Accepted(memory, doing) /\ m = Applied(memory, doing))
  <2>1. memory \in Stores
    BY DEF Shapes
  <2>2. doing # None => /\ doing \in Operation /\ Accepted(memory, doing)
                        /\ doing.kind = "entry" => doing.seq = Len(memory[doing.id].entries)
    BY DEF Doing
  <2>3. Bodies(memory, blobs)
    BY <1>2 DEF Spilled
  <2>4. doing # None => Applied(memory, doing) \in Stores /\ Bodies(Applied(memory, doing), blobs)
    BY <1>2, <2>1, <2>2, <2>3, AppliedStores, BodiesApplied DEF Spilled
  <2>5. up /\ step = "written" => doing # None
    BY DEF Doing
  <2>6. up \in BOOLEAN
    BY DEF Shapes
  <2>7. Tells(memory) \/ (doing # None /\ Tells(Applied(memory, doing)))
    BY <1>2, <2>5, <2>6 DEF Told
  <2> QED
    BY <2>1, <2>2, <2>3, <2>4, <2>7 DEF Tells
<1>3. CrashKeepsCommitted
  BY <1>2 DEF CrashKeepsCommitted, Expected
<1>4. BodyBehindLocator
  <2>1. SUFFICES ASSUME ~glued, NEW m \in {memory, Recovered} PROVE Bodies(m, blobs)
    BY DEF BodyBehindLocator, Bodies
  <2>2. Bodies(memory, blobs)
    BY <2>1 DEF Spilled
  <2>3. PICK w \in Stores : Recovered = Stale(w) /\ Bodies(w, blobs)
    BY <1>2, <2>1
  <2>4. Bodies(Recovered, blobs)
    BY <2>3, BodiesStale
  <2> QED
    BY <2>2, <2>4
<1>5. LogWithinBudget
  <2>1. SUFFICES ASSUME up, faults = 0, Checkpoint \notin Range(tasks)
                 PROVE  Len(log) - carried - (IF step = "written" THEN 1 ELSE 0) < Budget
    BY DEF LogWithinBudget
  <2>2. tasks \in Seq(Requests \cup {Checkpoint})
    BY DEF Queued, InTurn
  <2>3. \A i \in 1 .. Len(tasks) : tasks[i] # Checkpoint
    BY <2>1, <2>2 DEF Range
  <2>4. Len(log) - carried - (IF step = "written" THEN 1 ELSE 0) <= appended
    BY <2>1, <2>3 DEF Counting
  <2>5. appended \in 0 .. Budget - 1 /\ Len(log) \in Nat /\ carried \in Nat /\ Budget \in Nat
    BY LedgerAssumption DEF Shapes
  <2> QED
    BY <2>4, <2>5
<1> QED
  BY <1>1, <1>3, <1>4, <1>5 DEF LedgerFilesAgree

-----------------------------------------------------------------------------
(* The server's stores.                                                    *)

Inv == SnapInv /\ JournalInv /\ JsonInv /\ ShutdownInv /\ LedgerInv

\* Nothing has been written yet.
LEMMA InvInit == Init => Inv
  BY SnapInitInv, JournalInitInv, JsonInitInv, ShutdownInitInv, LedgerInitInv DEF Init, Inv

\* A step is one of a single store, and the snapshot on disk only moves forward.
LEMMA InvNext == Inv /\ [Next]_vars => Inv' /\ [Upto(saved, saved')]_saved
<1> SUFFICES ASSUME Inv, [Next]_vars PROVE Inv' /\ [Upto(saved, saved')]_saved
  OBVIOUS
<1>1. /\ [StorageNext]_storageVars /\ [JsonNext]_jsonVars /\ [ShutdownNext]_shutdownVars
      /\ [LedgerNext]_ledgerVars
  BY DEF Next, vars, LedgerStep, BuilderStep, JsonStep, EndStep, Ledger, Builder, Json, End
<1>2. SnapInv' /\ Upto(saved, saved')
  BY <1>1, SnapNextInv DEF Inv
<1>3. JournalInv'
  BY <1>1, JournalNextInv DEF Inv
<1>4. JsonInv'
  BY <1>1, JsonNextInv DEF Inv
<1>5. ShutdownInv'
  BY <1>1, ShutdownNextInv DEF Inv
<1>6. LedgerInv'
  BY <1>1, LedgerNextInv DEF Inv
<1> QED
  BY <1>2, <1>3, <1>4, <1>5, <1>6 DEF Inv

\* The invariant says what the runs check.
LEMMA InvTells ==
  Inv => JournalKept /\ ExitKeepsTurns /\ StoresSurvive /\ LedgerFilesAgree /\ StoresTypeOK
<1> SUFFICES ASSUME Inv
             PROVE  JournalKept /\ ExitKeepsTurns /\ StoresSurvive /\ LedgerFilesAgree /\ StoresTypeOK
  OBVIOUS
<1>1. JournalKept
  BY JournalInvTells DEF Inv
<1>2. OrderlyExitKeepsTurns
  BY DEF Inv, SnapInv, SnapEnds, OrderlyExitKeepsTurns
<1>3. CleanExitKeepsServed
  BY Zenon DEF Inv, ShutdownInv
<1>4. FileSurvives /\ JsonTypeOK
  BY JsonInvTells DEF Inv
<1>5. LedgerTypeOK /\ CrashKeepsCommitted /\ LedgerFilesAgree
  BY LedgerInvTells DEF Inv
<1>6. ShutdownTypeOK
  BY Zenon DEF Inv, ShutdownInv, ShutdownTypeOK
<1>7. StorageTypeOK
  <2>1. saved \in Snapshot /\ session \in Snapshot /\ process \in {"up", "stopping", "exited", "down"}
    BY DEF Inv, SnapInv, SnapTypes
  <2>2. pending \in TraceLines /\ journal \in TraceLines /\ reader \in [Readers -> ReadState]
    BY DEF Inv, JournalInv, Kept, Readings
  <2>3. \A r \in Readers : reader[r].at \in {"idle", "flushing", "done"}
    BY <2>2 DEF ReadState
  <2> QED
    BY <2>1, <2>2, <2>3, Zenon DEF StorageTypeOK, Snapshot, TraceLines
<1> QED
  BY <1>1, <1>2, <1>3, <1>4, <1>5, <1>6, <1>7 DEF ExitKeepsTurns, StoresSurvive, StoresTypeOK

\* The stores keep what they were given: the ledger, the builder's journal and session file,
\* any JSON file, and the memory at the end, whatever call, timer, turn end, deletion, failed
\* or torn write, kill or restart comes when.
THEOREM StoresKeepTheirWord ==
  Spec => [](JournalKept /\ ExitKeepsTurns /\ StoresSurvive /\ LedgerFilesAgree /\ StoresTypeOK)
<1>1. Inv => JournalKept /\ ExitKeepsTurns /\ StoresSurvive /\ LedgerFilesAgree /\ StoresTypeOK
  BY InvTells
<1>2. Inv /\ [Next]_vars => Inv'
  BY InvNext
<1> QED
  BY <1>1, <1>2, InvInit, PTL DEF Spec, Safety

\* Whatever is replayed, torn or cut off: every store, file, queue and watchdog holds values of
\* its type, and the lines counted towards the next checkpoint stay under the budget.
COROLLARY StoresAreTyped == Spec => []StoresTypeOK
  BY StoresKeepTheirWord, PTL

\* "Coalescing bursts through a debounced flush": the journal of a session is in order, complete
\* for whoever flushes, and gone with its session.
COROLLARY JournalIsKept == Spec => []JournalKept
  BY StoresKeepTheirWord, PTL

\* "Awaited on shutdown so the last committed turn survives": an orderly exit leaves nothing of
\* a served turn in memory alone.
COROLLARY ExitIsOrderly == Spec => []ExitKeepsTurns
  BY StoresKeepTheirWord, PTL

\* A restart at any instant finds in the ledger what was acknowledged, each entry once, unless a
\* line went behind a torn one; and "replace files atomically", with a backup to fall back to.
COROLLARY WhatIsAckedSurvives == Spec => []StoresSurvive
  BY StoresKeepTheirWord, PTL

\* The ledger's files agree: a spilled body is in the sidecar under the number of its entry, in
\* the running store and in the one a restart would load, and the log stays within its budget.
COROLLARY LedgerAgrees == Spec => []LedgerFilesAgree
  BY StoresKeepTheirWord, PTL

\* "A crash in the next 300ms cannot resurrect a session the user just deleted": no snapshot
\* overtakes a newer one, whatever fails, is killed or restarts.
THEOREM SavedMovesForward == Spec => SavedOnlyMovesForward
<1>1. Inv /\ [Next]_vars => Inv'
  BY InvNext
<1>2. Inv /\ [Next]_vars => [saved'.turns >= saved.turns /\ (saved'.alive => saved.alive)]_saved
  BY InvNext DEF Upto
<1> QED
  BY <1>1, <1>2, InvInit, PTL DEF Spec, Safety, SavedOnlyMovesForward
=============================================================================
