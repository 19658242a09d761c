--------------------------- MODULE BuilderStorage ---------------------------
(***************************************************************************)
(* The two files behind one builder session: its journal (SessionTraceStore *)
(* over an append-only file) and its record in the session file             *)
(* (BuilderSessionStore, whole-file snapshots). Both collect changes in      *)
(* memory for a debounce window and write through a queue per file; a turn    *)
(* end, a read, a deletion and a shutdown flush early. The process can be     *)
(* killed at any instant.                                                     *)
(***************************************************************************)
EXTENDS Naturals, Sequences, SequencesExt, FiniteSets

CONSTANTS Readers,     \* requests of the session's detail
          MaxRecords,  \* bound: trace records a session produces
          MaxCommits,  \* bound: turns it commits
          MaxMishaps   \* bound: failed writes and kills

ASSUME StorageAssumption == MaxRecords \in Nat /\ MaxCommits \in Nat /\ MaxMishaps \in Nat

VARIABLES
    pending,    \* accepted lines that are not yet handed to the file
    armed,      \* the debounce timer of the journal runs
    writes,     \* the queue of the journal file; its head is being written
    journal,    \* disk: the lines of the journal
    torn,       \* disk: the journal ends in part of a line
    nextSeq,    \* SessionTraceLog.seq
    reader,     \* per read: what it waits for and what it returned
    session,    \* memory: the session record
    snapArmed,  \* the debounce timer of the session file runs
    snapWrites, \* the queue of the session file
    saved,      \* disk: the record in the session file
    process,    \* "up", "stopping", "exited" or "down"
    awaited,    \* the batch a shutdown waits for, 0 for none
    accepted,   \* history: records accepted so far
    batches,    \* history: batches handed to the journal file so far
    lost,       \* history: records that a deletion, a failure or a kill dropped
    mishaps     \* failed writes and kills so far

journalVars == <<pending, armed, writes, journal, torn, nextSeq, reader, batches>>
snapshotVars == <<session, snapArmed, snapWrites, saved>>
storageVars == <<journalVars, snapshotVars, process, awaited, accepted, lost, mishaps>>

\* A trace entry: its sequence number, and the order in which it was accepted.
Record == [seq : Nat, nr : 1 .. MaxRecords]
Clear == [batch |-> 0, lines |-> << >>]
NoRead == [at |-> "idle", batch |-> 0, due |-> 0, got |-> {}]

-----------------------------------------------------------------------------
(* The journal.                                                             *)

\* append: the entry gets its number and joins the pending lines; the first arms
\* the timer.
Trace ==
    /\ process = "up" /\ session.alive /\ accepted < MaxRecords
    /\ accepted' = accepted + 1
    /\ pending' = Append(pending, [seq |-> nextSeq, nr |-> accepted + 1])
    /\ nextSeq' = nextSeq + 1
    /\ armed' = TRUE
    /\ UNCHANGED <<writes, journal, torn, reader, batches, snapshotVars, process, awaited, lost, mishaps>>

\* Slip: the lines stay pending, and the next flush writes them again.
WritePending_Keeps ==
    IF pending = << >> THEN UNCHANGED <<pending, writes, batches>>
    ELSE /\ batches' = batches + 1
         /\ writes' = Append(writes, [batch |-> batches + 1, lines |-> pending])
         /\ UNCHANGED pending

\* writePending: the pending lines become one write of the file's queue.
WritePending ==
    IF pending = << >> THEN UNCHANGED <<pending, writes, batches>>
    ELSE /\ batches' = batches + 1
         /\ writes' = Append(writes, [batch |-> batches + 1, lines |-> pending])
         /\ pending' = << >>

\* The debounce timer hands the pending lines over and is disarmed.
TimerFires ==
    /\ process # "down" /\ armed
    /\ armed' = FALSE
    /\ WritePending
    /\ UNCHANGED <<journal, torn, nextSeq, reader, snapshotVars, process, awaited, accepted, lost, mishaps>>

\* read: flush, which waits for the batch it hands over itself ...
Read(r) ==
    /\ process = "up" /\ session.alive /\ reader[r].at = "idle"
    /\ armed' = FALSE
    /\ WritePending
    /\ reader' = [reader EXCEPT ![r] =
         [at |-> "flushing", batch |-> IF pending = << >> THEN 0 ELSE batches + 1,
          due |-> accepted, got |-> {}]]
    /\ UNCHANGED <<journal, torn, nextSeq, snapshotVars, process, awaited, accepted, lost, mishaps>>

\* The append of this batch has settled; there is none to wait for if batch is 0.
BatchDone(batch) == batch = 0 \/ \A i \in DOMAIN writes : writes[i].batch # batch

\* ... and then readLines, which does not go through the queue.
ReadLines(r) ==
    /\ process = "up" /\ reader[r].at = "flushing"
    /\ BatchDone(reader[r].batch)
    /\ reader' = [reader EXCEPT ![r].at = "done", ![r].got = {line.nr : line \in Range(journal)}]
    /\ UNCHANGED <<pending, armed, writes, journal, torn, nextSeq, batches,
                   snapshotVars, process, awaited, accepted, lost, mishaps>>

Numbers(lines) == {line.nr : line \in Range(lines)}

\* Lines behind part of a line: the first of them is lost with it.
Glued(lines) == IF torn /\ lines # << >> THEN {Head(lines).nr} ELSE {}
Written(lines) == journal \o (IF torn /\ lines # << >> THEN Tail(lines) ELSE lines)

\* The head of the queue is on disk: an append, or the rewrite of a deletion.
JournalWrite ==
    /\ process # "down" /\ writes # << >>
    /\ LET head == Head(writes) IN
       /\ journal' = IF head = Clear THEN << >> ELSE Written(head.lines)
       /\ lost' = lost \cup (IF head = Clear THEN Numbers(journal) ELSE Glued(head.lines))
    /\ torn' = FALSE
    /\ writes' = Tail(writes)
    /\ UNCHANGED <<pending, armed, nextSeq, reader, batches, snapshotVars, process, awaited, accepted, mishaps>>

\* A failed write is logged: its lines are gone, the queue goes on.
JournalFails ==
    /\ process # "down" /\ writes # << >> /\ mishaps < MaxMishaps
    /\ mishaps' = mishaps + 1
    /\ lost' = lost \cup Numbers(Head(writes).lines)
    /\ writes' = Tail(writes)
    /\ UNCHANGED <<pending, armed, journal, torn, nextSeq, reader, batches, snapshotVars, process, awaited, accepted>>

-----------------------------------------------------------------------------
(* The session file.                                                        *)

\* writeSnapshot: the payload is built now and written in its turn.
WriteSnapshot == snapWrites' = Append(snapWrites, session')

\* appendTurn: the history changes in memory and arms the timer.
CommitTurn ==
    /\ process = "up" /\ session.alive /\ session.turns < MaxCommits
    /\ session' = [session EXCEPT !.turns = @ + 1]
    /\ snapArmed' = TRUE
    /\ UNCHANGED <<journalVars, snapWrites, saved, process, awaited, accepted, lost, mishaps>>

SnapTimerFires ==
    /\ process # "down" /\ snapArmed
    /\ snapArmed' = FALSE
    /\ UNCHANGED session
    /\ WriteSnapshot
    /\ UNCHANGED <<journalVars, saved, process, awaited, accepted, lost, mishaps>>

\* The flushes of both stores, as far as they run before their first await.
FlushBoth ==
    /\ armed' = FALSE /\ snapArmed' = FALSE
    /\ WritePending
    /\ UNCHANGED session
    /\ WriteSnapshot

\* The finally of a turn flushes both stores and waits for neither. (Only a turn with
\* something to flush is worth a step: this bounds the queued snapshots.)
TurnEnds ==
    /\ process = "up" /\ session.alive /\ (snapArmed \/ armed)
    /\ FlushBoth
    /\ UNCHANGED <<journal, torn, nextSeq, reader, saved, process, awaited, accepted, lost, mishaps>>

\* Slip: writes of the session file are not queued, any of them can finish first.
SnapshotWrite_AnyOrder ==
    /\ process # "down" /\ snapWrites # << >>
    /\ \E i \in DOMAIN snapWrites : saved' = snapWrites[i] /\ snapWrites' = RemoveAt(snapWrites, i)
    /\ UNCHANGED <<journalVars, session, snapArmed, process, awaited, accepted, lost, mishaps>>

\* The head of the queue replaces the session file, atomically.
SnapshotWrite ==
    /\ process # "down" /\ snapWrites # << >>
    /\ saved' = Head(snapWrites)
    /\ snapWrites' = Tail(snapWrites)
    /\ UNCHANGED <<journalVars, session, snapArmed, process, awaited, accepted, lost, mishaps>>

SnapshotFails ==
    /\ process # "down" /\ snapWrites # << >> /\ mishaps < MaxMishaps
    /\ mishaps' = mishaps + 1
    /\ snapWrites' = Tail(snapWrites)
    /\ UNCHANGED <<journalVars, session, snapArmed, saved, process, awaited, accepted, lost>>

-----------------------------------------------------------------------------
(* The session's life, and the process'.                                    *)

\* clear: pending lines are dropped, and the journal is rewritten to nothing behind
\* what is being written.
ClearJournal ==
    /\ pending' = << >> /\ armed' = FALSE
    /\ lost' = lost \cup Numbers(pending)
    /\ writes' = Append(writes, Clear)

\* deleteSession: out of the store, the session file flushed at once, the journal
\* cleared.
DeleteSession ==
    /\ process = "up" /\ session.alive
    /\ session' = [session EXCEPT !.alive = FALSE]
    /\ snapArmed' = FALSE
    /\ WriteSnapshot
    /\ ClearJournal
    /\ UNCHANGED <<journal, torn, nextSeq, reader, batches, saved, process, awaited, accepted, mishaps>>

\* flushDurableStores at shutdown: both stores are flushed, and each flush waits for
\* the write it adds.
Shutdown ==
    /\ process = "up"
    /\ process' = "stopping"
    /\ awaited' = IF pending = << >> THEN 0 ELSE batches + 1
    /\ FlushBoth
    /\ UNCHANGED <<journal, torn, nextSeq, reader, saved, accepted, lost, mishaps>>

\* The end of a process in the middle of a write: of the journal's any number of lines
\* and part of one more can be on disk, of a snapshot all or nothing.
Interrupted ==
    /\ \/ UNCHANGED <<journal, torn>>
       \/ /\ writes # << >> /\ Head(writes) # Clear
          /\ LET lines == Head(writes).lines IN
             \E k \in 0 .. Len(lines) - 1 :
                 /\ journal' = Written(SubSeq(lines, 1, k))
                 /\ torn' = TRUE
    /\ lost' = (1 .. accepted) \ Numbers(journal')
    /\ pending' = << >> /\ armed' = FALSE /\ writes' = << >>
    /\ snapArmed' = FALSE /\ snapWrites' = << >>
    /\ reader' = [r \in Readers |-> IF reader[r].at = "flushing" THEN NoRead ELSE reader[r]]
    /\ UNCHANGED <<nextSeq, batches, session, saved, awaited, accepted>>

\* An orderly shutdown exits when its flushes are done; a kill can come at any time.
Exit ==
    /\ process = "stopping" /\ snapWrites = << >>
    /\ BatchDone(awaited)
    /\ process' = "exited"
    /\ IF writes = << >> THEN UNCHANGED mishaps
       ELSE mishaps < MaxMishaps /\ mishaps' = mishaps + 1
    /\ Interrupted

Kill ==
    /\ process \in {"up", "stopping"} /\ mishaps < MaxMishaps
    /\ mishaps' = mishaps + 1
    /\ process' = "down"
    /\ Interrupted

\* The next process: the session as the file has it, a trace log that counts from 0.
Start ==
    /\ process \in {"down", "exited"}
    /\ process' = "up"
    /\ session' = saved
    /\ nextSeq' = 0
    /\ UNCHANGED <<pending, armed, writes, journal, torn, reader, batches,
                   snapArmed, snapWrites, saved, awaited, accepted, lost, mishaps>>

StorageInit ==
    /\ pending = << >> /\ armed = FALSE /\ writes = << >>
    /\ journal = << >> /\ torn = FALSE /\ nextSeq = 0
    /\ reader = [r \in Readers |-> NoRead]
    /\ session = [alive |-> TRUE, turns |-> 0] /\ saved = session
    /\ snapArmed = FALSE /\ snapWrites = << >>
    /\ process = "up" /\ awaited = 0 /\ accepted = 0 /\ batches = 0
    /\ lost = {} /\ mishaps = 0

\* Timers fire and writes settle.
StorageWork == TimerFires \/ JournalWrite \/ SnapTimerFires \/ SnapshotWrite

StorageNext ==
    \/ StorageWork
    \/ Trace \/ CommitTurn \/ TurnEnds \/ DeleteSession
    \/ \E r \in Readers : Read(r) \/ ReadLines(r)
    \/ JournalFails \/ SnapshotFails
    \/ Shutdown \/ Exit \/ Kill \/ Start

StorageSpec ==
    /\ StorageInit /\ [][StorageNext]_storageVars
    /\ WF_storageVars(TimerFires) /\ WF_storageVars(JournalWrite)
    /\ WF_storageVars(SnapTimerFires) /\ WF_storageVars(SnapshotWrite)

-----------------------------------------------------------------------------
(* Properties.                                                              *)

StorageTypeOK ==
    /\ pending \in Seq(Record) /\ journal \in Seq(Record)
    /\ saved \in [alive : BOOLEAN, turns : 0 .. MaxCommits]
    /\ session \in [alive : BOOLEAN, turns : 0 .. MaxCommits]
    /\ \A r \in Readers : reader[r].at \in {"idle", "flushing", "done"}
    /\ process \in {"up", "stopping", "exited", "down"}

\* Where the lines of a session are: on disk, being written in turn, and pending.
Places == 0 .. Len(writes) + 1
LinesAt(place) ==
    IF place = 0 THEN journal ELSE IF place > Len(writes) THEN pending ELSE writes[place].lines

InOrder(lines) == \A i, j \in DOMAIN lines : i < j => lines[i].nr < lines[j].nr
Precede(early, late) == \A x \in Numbers(early), y \in Numbers(late) : x < y

\* "Coalescing bursts through a debounced flush": the trail of a session, on disk,
\* being written and pending, keeps the order of acceptance and holds nothing twice,
\* whatever timer, read, turn end, deletion or restart handed the lines over.
TrailInOrder ==
    \A place \in Places :
        /\ InOrder(LinesAt(place))
        /\ \A later \in Places : place < later => Precede(LinesAt(place), LinesAt(later))

\* "Clears the journal with its session": a deletion during a flush leaves no line of
\* the session behind, since the rewrite is queued behind the append.
DeletedJournalIsEmpty ==
    ~session.alive /\ mishaps = 0 => /\ writes = << >> => journal = << >>
                                     /\ pending = << >> /\ ~armed

\* A read that hands lines over itself returns everything accepted before it that
\* was not dropped, earlier batches in flight included.
FlushingReadIsComplete ==
    \A r \in Readers :
        reader[r].at = "done" /\ reader[r].batch # 0 =>
            (1 .. reader[r].due) \ lost \subseteq reader[r].got

\* The journal of a session: in order, complete for whoever flushes, and gone with it.
JournalKept == TrailInOrder /\ DeletedJournalIsEmpty /\ FlushingReadIsComplete

\* "A crash in the next 300ms cannot resurrect a session the user just deleted": a
\* snapshot never overtakes a newer one, so a turn that is on disk stays there and a
\* deletion that is on disk is final, across kills and restarts.
SavedOnlyMovesForward ==
    [][saved'.turns >= saved.turns /\ (saved'.alive => saved.alive)]_saved

\* "Awaited on shutdown so the last committed turn survives": after an orderly exit
\* without a failed write the session file holds what memory held.
OrderlyExitKeepsTurns ==
    process = "exited" /\ mishaps = 0 => saved = session

\* A committed turn reaches the session file and an accepted record the journal,
\* unless something drops it: no timer stays disarmed over pending work.
CommitsReachDisk ==
    (saved # session) ~> (saved = session \/ mishaps > 0)
RecordsReachDisk ==
    (accepted > 0) ~> (1 .. accepted \subseteq Numbers(journal) \cup lost)
=============================================================================
