--------------------------- MODULE SessionLedger ---------------------------
(***************************************************************************)
(* The execution ledger of the server: JsonlSessionStore over its op log,   *)
(* its snapshot file and its blob sidecar. Calls run one at a time through  *)
(* a SerialQueue; a call writes its line first and changes memory second; a *)
(* checkpoint writes the snapshot and then empties the log. The process can *)
(* crash at any instant, in the middle of a line too, and a restart loads   *)
(* the snapshot and replays the log over it.                                *)
(*                                                                          *)
(* Calls are numbered in the order they are made. The session a create mints *)
(* is named after the call, and so is the text of an entry.                 *)
(***************************************************************************)
EXTENDS Naturals, FiniteSets, Sequences, SequencesExt

CONSTANTS Calls,          \* how many calls the store gets
          None,           \* no operation, no unterminated line
          Corrupt,        \* a line that does not parse
          Checkpoint,     \* the task of checkpoint() in the queue
          MaxSessions,    \* MAX_SESSIONS_PER_STORE
          MaxEntries,     \* MAX_ENTRIES_PER_SESSION
          Budget,         \* checkpointBytes, counted in lines
          Outcomes,       \* the final states that callers ask for
          MaxUpsets       \* bound: host checkpoints, failed writes and crashes

ASSUME LedgerAssumption ==
    /\ Calls \in Nat /\ Outcomes \subseteq {"completed", "failed", "cancelled"}
    /\ MaxSessions \in Nat \ {0} /\ MaxEntries \in Nat \ {0} /\ Budget \in Nat \ {0}

VARIABLES
    snapshot,  \* disk: the sessions of the snapshot file
    log,       \* disk: the complete lines of the op log
    tail,      \* disk: what follows the last newline: None, Corrupt or an operation
    blobs,     \* disk: the spilled bodies, each with its session and sequence number
    memory,    \* the store of the process; of the last process, while none is up
    up,        \* the process runs and has loaded
    tasks,     \* the serial queue; its head is running
    doing,     \* the operation whose line is being written, or None
    step,      \* where the head of the queue is
    appended,  \* lines since the budget was reset: appendedSinceCheckpoint
    call,      \* what each call asked for and how it ended
    asked, faults, crashes,  \* host checkpoints, failed writes, crashes so far
    carried,   \* history: lines the log held when it was loaded, if still there
    glued      \* history: has something been written behind an unterminated line?

Requests == 1 .. Calls
disk == <<snapshot, log, tail, blobs>>
ledgerVars == <<disk, memory, up, tasks, doing, step, appended, call,
                asked, faults, crashes, carried, glued>>

-----------------------------------------------------------------------------
(* The data: sessions, operations, replay.                                  *)

Final == {"completed", "failed", "cancelled"}
Entry == [text : Requests, spilled : BOOLEAN]
Session == [status : Final \cup {"active"}, entries : Seq(Entry)]

Create(r) == [kind |-> "create", id |-> r]
Note(r, id, seq, spilled) ==
    [kind |-> "entry", id |-> id, seq |-> seq, entry |-> [text |-> r, spilled |-> spilled]]
Finish(id, status) == [kind |-> "finish", id |-> id, status |-> status]
Delete(id) == [kind |-> "delete", id |-> id]

\* SessionOp: what a line of the log can say.
Operation ==
    {Create(r) : r \in Requests}
    \cup {Note(r, id, seq, spilled) : r \in Requests, id \in Requests,
                                     seq \in 0 .. MaxEntries - 1, spilled \in BOOLEAN}
    \cup {Finish(id, status) : id \in Requests, status \in Outcomes}
    \cup {Delete(id) : id \in Requests}

ASSUME MarkerAssumption ==
    /\ None # Corrupt /\ None \notin Operation /\ Corrupt \notin Operation
    /\ Checkpoint \notin Requests

Opened(m, id, status) ==
    [i \in DOMAIN m \cup {id} |-> IF i = id THEN [status |-> status, entries |-> <<>>] ELSE m[i]]
Without(m, id) == [i \in DOMAIN m \ {id} |-> m[i]]
Pushed(m, op) == [m EXCEPT ![op.id].entries = Append(@, op.entry)]
Closed(m, op) == [m EXCEPT ![op.id].status = op.status]

\* What a live call does to the maps, once its line is on disk.
Applied(m, op) ==
    CASE op.kind = "create" -> Opened(m, op.id, "active")
      [] op.kind = "entry"  -> Pushed(m, op)
      [] op.kind = "finish" -> Closed(m, op)
      [] op.kind = "delete" -> Without(m, op.id)

\* The conditions under which a call goes on: room for a session or an entry, a known
\* session. Any other call rejects without a trace on disk.
Accepted(m, op) ==
    CASE op.kind = "create" -> Cardinality(DOMAIN m) < MaxSessions
      [] op.kind = "entry"  -> op.id \in DOMAIN m /\ Len(m[op.id].entries) < MaxEntries
      [] OTHER              -> op.id \in DOMAIN m

\* loadItems: sessions of a process that is gone cannot be active.
Stale(m) == [i \in DOMAIN m |->
    [m[i] EXCEPT !.status = IF @ = "active" THEN "failed" ELSE @]]

\* Slip: replay does not compare the line's number with the session.
AlreadyThere_Unchecked(m, line) == FALSE

\* The snapshot already holds the entry of this line: the crash came between the
\* snapshot and the log of a checkpoint.
AlreadyThere(m, line) == line.seq < Len(m[line.id].entries)

\* applyOp: one line of the log, replayed. What the snapshot already holds, an
\* unknown session, a full store and a line that does not parse change nothing.
Replayed(m, line) ==
    IF line = Corrupt THEN m
    ELSE CASE line.kind = "create" ->
                IF line.id \in DOMAIN m \/ ~Accepted(m, line) THEN m
                ELSE Opened(m, line.id, "failed")
           [] line.kind = "entry" ->
                IF Accepted(m, line) /\ ~AlreadyThere(m, line) THEN Pushed(m, line) ELSE m
           [] line.kind = "finish" -> IF Accepted(m, line) THEN Closed(m, line) ELSE m
           [] line.kind = "delete" -> Without(m, line.id)

\* readLines keeps a last line without its newline.
Lines == log \o (IF tail = None THEN <<>> ELSE <<tail>>)

\* The lines are applied in turn.
Replay(m, lines) ==
    LET after[k \in 0 .. Len(lines)] ==
          IF k = 0 THEN m ELSE Replayed(after[k - 1], lines[k])
    IN  after[Len(lines)]

\* load: the store a restart would find on this disk.
Recovered == Replay(Stale(snapshot), Lines)

\* NodeAppendFile.append adds its line to whatever the file ends with.
AppendLine(line) ==
    /\ log' = Append(log, IF tail = None THEN line ELSE Corrupt)
    /\ tail' = None
    /\ glued' = (glued \/ tail # None)

\* The write of a line that did not finish leaves the end of the file as it was or
\* with one of the given fragments; a fragment behind a fragment does not parse.
TearLine(fragments) ==
    /\ tail' \in IF tail = None THEN {None} \cup fragments ELSE {tail, Corrupt}
    /\ glued' = (glued \/ tail \notin {None, Corrupt, tail'})

-----------------------------------------------------------------------------
(* Calls and the queue.                                                     *)

MayUpset == asked + faults + crashes < MaxUpsets
Known == {r \in Requests : call[r].state = "done" /\ call[r].op.kind = "create"}
Idle == [state |-> "idle", op |-> None]
Ended(r, state) == call' = [call EXCEPT ![r].state = state]

\* The session, the entry's size and the status a caller may pass.
Operations(r) ==
    {Create(r)}
    \cup {Note(r, id, 0, spilled) : id \in Known, spilled \in BOOLEAN}
    \cup {Finish(id, status) : id \in Known, status \in Outcomes}
    \cup {Delete(id) : id \in Known}

\* create, complete, fail, cancel, appendEntry or delete puts its body in the queue.
Submit(r) ==
    /\ up /\ call[r] = Idle /\ \A earlier \in 1 .. r - 1 : call[earlier] # Idle
    /\ \E op \in Operations(r) : call' = [call EXCEPT ![r] = [state |-> "queued", op |-> op]]
    /\ tasks' = Append(tasks, r)
    /\ UNCHANGED <<disk, memory, up, doing, step, appended, asked, faults, crashes, carried, glued>>

\* The host's cadence, and its shutdown, ask for a checkpoint.
AskCheckpoint ==
    /\ up /\ MayUpset
    /\ asked' = asked + 1
    /\ tasks' = Append(tasks, Checkpoint)
    /\ UNCHANGED <<disk, memory, up, doing, step, appended, call, faults, crashes, carried, glued>>

Running(r, at) == up /\ step = at /\ tasks # <<>> /\ Head(tasks) = r

Refuse(r) ==
    /\ Running(r, "ready") /\ ~Accepted(memory, call[r].op)
    /\ Ended(r, "refused")
    /\ tasks' = Tail(tasks)
    /\ UNCHANGED <<disk, memory, up, doing, step, appended, asked, faults, crashes, carried, glued>>

\* FileBlobStore.put: the body of this session's entry seq, replaced if there is one.
Saved(op, seq) ==
    {b \in blobs : b.id # op.id \/ b.seq # seq}
        \cup {[id |-> op.id, seq |-> seq, text |-> op.entry.text]}

\* The body begins: an entry takes the next number, and a long text is saved in
\* the sidecar under that number. A failed save keeps a cut text in the entry.
Begin(r) ==
    /\ Running(r, "ready") /\ Accepted(memory, call[r].op)
    /\ LET op == call[r].op IN
       IF op.kind = "entry"
       THEN LET seq == Len(memory[op.id].entries) IN
            \/ /\ doing' = [op EXCEPT !.seq = seq]
               /\ blobs' = IF op.entry.spilled THEN Saved(op, seq) ELSE blobs
               /\ UNCHANGED faults
            \/ /\ op.entry.spilled /\ MayUpset
               /\ doing' = [op EXCEPT !.seq = seq, !.entry.spilled = FALSE]
               /\ faults' = faults + 1
               /\ UNCHANGED blobs
       ELSE doing' = op /\ UNCHANGED <<blobs, faults>>
    /\ step' = "writing"
    /\ UNCHANGED <<snapshot, log, tail, memory, up, tasks, appended, call, asked, crashes, carried, glued>>

\* The line reaches the disk.
Write(r) ==
    /\ Running(r, "writing")
    /\ AppendLine(doing)
    /\ step' = "written"
    /\ UNCHANGED <<snapshot, blobs, memory, up, tasks, doing, appended, call, asked, faults, crashes, carried>>

\* Slip: the chain keeps the rejection, and nothing queued behind it runs.
Rejected_Stranding == tasks' = << >> /\ step' = "ready"

\* SerialQueue.run: a task that rejects leaves the queue like any other.
Rejected == tasks' = Tail(tasks) /\ step' = "ready"

\* The append rejects, perhaps with part of the line written: the caller sees it,
\* memory is unchanged, and the queue goes on.
WriteFails(r) ==
    /\ Running(r, "writing") /\ MayUpset
    /\ faults' = faults + 1
    /\ TearLine({Corrupt})
    /\ Ended(r, "rejected")
    /\ Rejected
    /\ doing' = None
    /\ UNCHANGED <<snapshot, log, blobs, memory, up, appended, asked, crashes, carried>>

\* Slip: the budget is compared before this line is counted.
Due_Late(lines) == lines > Budget

\* The appended lines reach the budget: a checkpoint is queued.
Due(lines) == lines >= Budget

\* Slip: queueing a checkpoint does not start the count again.
Counted_Kept(lines) == lines

Counted(lines) == IF Due(lines) THEN 0 ELSE lines

\* The append resolves. The budget may put a checkpoint behind what is queued;
\* memory changes; the caller is answered, after the purge if it is a delete.
Commit(r) ==
    /\ Running(r, "written")
    /\ memory' = Applied(memory, doing)
    /\ LET purge == doing.kind = "delete"
           rest == IF purge THEN tasks ELSE Tail(tasks) IN
       /\ appended' = Counted(appended + 1)
       /\ tasks' = IF Due(appended + 1) THEN Append(rest, Checkpoint) ELSE rest
       /\ step' = IF purge THEN "purging" ELSE "ready"
       /\ IF purge THEN UNCHANGED call ELSE Ended(r, "done")
    /\ doing' = None
    /\ UNCHANGED <<disk, up, asked, faults, crashes, carried, glued>>

\* deleteSessionBlobs, after the line of the delete; its failure is only logged.
Purge(r) ==
    /\ Running(r, "purging")
    /\ \/ blobs' = {b \in blobs : b.id # call[r].op.id} /\ UNCHANGED faults
       \/ MayUpset /\ faults' = faults + 1 /\ UNCHANGED blobs
    /\ Ended(r, "done")
    /\ tasks' = Tail(tasks) /\ step' = "ready"
    /\ UNCHANGED <<snapshot, log, tail, memory, up, doing, appended, asked, crashes, carried, glued>>

\* checkpoint: the snapshot file is replaced atomically ...
SaveSnapshot ==
    /\ Running(Checkpoint, "ready")
    /\ snapshot' = memory
    /\ step' = "saved"
    /\ UNCHANGED <<log, tail, blobs, memory, up, tasks, doing, appended, call, asked, faults, crashes, carried, glued>>

\* ... and then the log.
TruncateLog ==
    /\ Running(Checkpoint, "saved")
    /\ log' = <<>> /\ tail' = None
    /\ carried' = 0
    /\ tasks' = Tail(tasks) /\ step' = "ready"
    /\ UNCHANGED <<snapshot, blobs, memory, up, doing, appended, call, asked, faults, crashes, glued>>

\* Either write can fail: the checkpoint rejects, and the queue goes on.
CheckpointFails ==
    /\ Running(Checkpoint, step) /\ MayUpset
    /\ faults' = faults + 1
    /\ Rejected
    /\ UNCHANGED <<disk, memory, up, doing, appended, call, asked, crashes, carried, glued>>

\* The process dies, perhaps in the middle of a line, or just before its newline.
Crash ==
    /\ up /\ MayUpset
    /\ crashes' = crashes + 1
    /\ up' = FALSE
    /\ IF step = "writing" THEN TearLine({Corrupt, doing}) ELSE UNCHANGED <<tail, glued>>
    /\ tasks' = <<>> /\ step' = "ready" /\ appended' = 0
    /\ call' = [r \in Requests |->
         IF call[r].state = "queued" THEN [call[r] EXCEPT !.state = "lost"] ELSE call[r]]
    /\ UNCHANGED <<snapshot, log, blobs, memory, doing, asked, faults, carried>>

\* The next process loads snapshot and log on its first call.
Restart ==
    /\ ~up
    /\ up' = TRUE
    /\ memory' = Recovered
    /\ doing' = None
    /\ carried' = Len(log)
    /\ UNCHANGED <<disk, tasks, step, appended, call, asked, faults, crashes, glued>>

LedgerInit ==
    /\ snapshot = << >> /\ log = << >> /\ tail = None /\ blobs = {}
    /\ memory = << >> /\ up = TRUE
    /\ tasks = << >> /\ doing = None /\ step = "ready" /\ appended = 0
    /\ call = [r \in Requests |-> Idle]
    /\ asked = 0 /\ faults = 0 /\ crashes = 0
    /\ carried = 0 /\ glued = FALSE

\* What the queue does once a task is in it.
Work ==
    \/ \E r \in Requests : Refuse(r) \/ Begin(r) \/ Write(r) \/ Commit(r) \/ Purge(r)
    \/ SaveSnapshot \/ TruncateLog

LedgerNext ==
    \/ \E r \in Requests : Submit(r) \/ WriteFails(r)
    \/ Work
    \/ AskCheckpoint \/ CheckpointFails \/ Crash \/ Restart

\* File operations settle, so the queue moves. Nobody has to call, crash or restart.
LedgerSpec == LedgerInit /\ [][LedgerNext]_ledgerVars /\ WF_ledgerVars(Work)

-----------------------------------------------------------------------------
(* Properties.                                                              *)

LedgerTypeOK ==
    /\ \A m \in {snapshot, memory} : \A id \in DOMAIN m : id \in Requests /\ m[id] \in Session
    /\ step \in {"ready", "writing", "written", "purging", "saved"}
    /\ appended \in 0 .. Budget - 1
    /\ up \in BOOLEAN /\ glued \in BOOLEAN
    /\ \A r \in Requests :
         call[r].state \in {"idle", "queued", "done", "refused", "rejected", "lost"}

\* What a restart may find: what the callers were told, with active sessions failed,
\* without or with the operation whose line was being written.
Expected == {Stale(memory)} \cup
    (IF doing # None /\ Accepted(memory, doing) THEN {Stale(Applied(memory, doing))} ELSE {})

\* "Log first: a failed append leaves memory unchanged, and a crash after the line
\* lands is recovered by replay" (create), "Crash-safe order: snapshot first, log
\* second (replay is idempotent ...)" (checkpoint). At every instant, whatever write
\* failed, a restart finds exactly the sessions the callers were told about, active
\* ones as failed, with or without the one operation being written; nothing deleted comes
\* back and nothing is there twice. The exception is a log with a line glued to a
\* fragment, see TornTailLosesInFlightOnly.
CrashKeepsCommitted ==
    ~glued => Recovered \in Expected

\* What the class comment says of crashes: "a torn tail loses at most the in-flight
\* mutation". While no mutation is in flight a crash then loses nothing.
TornTailLosesInFlightOnly ==
    up /\ step = "ready" => Recovered = Stale(memory)

\* An entry that points to a spilled body finds that body under its own number, in
\* the running store and in the one a restart would load: the body is saved before
\* the line, the numbers are dense, and replay numbers entries as the live store did.
BodyBehindLocator ==
    ~glued =>
        \A m \in {memory, Recovered} : \A id \in DOMAIN m : \A i \in DOMAIN m[id].entries :
            LET entry == m[id].entries[i] IN
            entry.spilled => [id |-> id, seq |-> i - 1, text |-> entry.text] \in blobs

\* "Appended-bytes budget between automatic checkpoints": what a process has added
\* to the log stays under the budget unless a checkpoint is already queued, through
\* calls that queue while it waits and checkpoints the host asks for.
LogWithinBudget ==
    up /\ faults = 0 =>
        \/ Len(log) - carried - (IF step = "written" THEN 1 ELSE 0) < Budget
        \/ Checkpoint \in Range(tasks)

\* The files behind the memory: bodies where locators point, and a log within bounds.
LedgerFilesAgree == BodyBehindLocator /\ LogWithinBudget

\* "A failed task rejects its own caller without stranding the ones queued behind
\* it": every call is answered, whatever fails in front of it, or dies with the process.
\* (There are finitely many calls, so one formula stands for one per call.)
EveryCallSettles ==
    (\E r \in Requests : call[r].state = "queued")
        ~> (\A r \in Requests : call[r].state # "queued")
=============================================================================
