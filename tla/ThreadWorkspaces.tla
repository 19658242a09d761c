-------------------------- MODULE ThreadWorkspaces --------------------------
(***************************************************************************)
(* Durable threads over the workspace registry: turns of threads, columns  *)
(* of plain arena runs, nested agents, forks that copy a directory while   *)
(* everything else goes on, readers, eviction and restarts.                *)
(*                                                                         *)
(* A turn has two sides: `worker`, the agent execution that holds the      *)
(* workspace, and `stream`, the generator of ThreadService.run that        *)
(* commits the transcript.  The event channel between them lets either     *)
(* side be ahead.  A workspace name is fresh for every run (Scratch), and  *)
(* the name of a clone is derived from the id of the fork, so a thread     *)
(* stands for the name of its clone as well.                               *)
(***************************************************************************)
EXTENDS WorkspaceOps, FiniteSets

CONSTANTS Threads, Scratch, Turns, None,
          MaxRestarts       \* bound: restarts of the process

Names == Threads \cup Scratch

\* A clone is named t-<id>, a run's own workspace <label>_<time>_<random>.
ASSUME NamesAssumption ==
  /\ IsFiniteSet(Threads) /\ IsFiniteSet(Turns)
  /\ Threads \cap Scratch = {}
  /\ None \notin Threads \cup Scratch

ASSUME RestartsAssumption == MaxRestarts \in Nat

VARIABLES reg,        \* the registry, a record of WorkspaceOps
          threads,    \* the thread store
          turns,      \* turns of threads and columns of arena runs
          copies,     \* forks whose directory copy is under way, by child
          used,       \* run workspace names handed out
          restarts

vars == <<reg, threads, turns, copies, used, restarts>>

Thread == [state : {"unborn", "live", "gone"}, running : BOOLEAN, workspace : Names \cup {None}]
Turn == [thread : Threads \cup {None}, asked : Names \cup {None}, ws : Names \cup {None},
         worker : {"idle", "queued", "working", "over"}, nested : 0..1,
         reply : {"none", "success", "failure"},
         stream : {"idle", "open", "answered", "closed"}]
Copy == [parent : Threads \cup {None}, source : Names \cup {None}]

NoCopy == [parent |-> None, source |-> None]

TypeOK ==
  /\ reg \in Registries(Names)
  /\ threads \in [Threads -> Thread]
  /\ turns \in [Turns -> Turn]
  /\ copies \in [Threads -> Copy]
  /\ used \subseteq Scratch
  /\ restarts \in 0..MaxRestarts

Init ==
  /\ reg = EmptyRegistry(Names)
  /\ threads = [t \in Threads |-> [state |-> "unborn", running |-> FALSE, workspace |-> None]]
  /\ turns = [q \in Turns |-> [thread |-> None, asked |-> None, ws |-> None, worker |-> "idle",
                               nested |-> 0, reply |-> "none", stream |-> "idle"]]
  /\ copies = [t \in Threads |-> NoCopy]
  /\ used = {}
  /\ restarts = 0

Live(t) == threads[t].state = "live"
Idle(t) == Live(t) /\ ~threads[t].running

\* The registry after the evictExpired that opens create, get and clone.
Swept == {Sweep(reg, old) : old \in 0..Len(reg.resident)}

-----------------------------------------------------------------------------
(* The thread store and its readers. *)

CreateThread(t) ==
  /\ threads[t].state = "unborn"
  /\ threads' = [threads EXCEPT ![t].state = "live"]
  /\ UNCHANGED <<reg, turns, copies, used, restarts>>

\* The store refuses a running thread; only a deleted one gives up its pin.
DeleteThread(t) ==
  /\ Idle(t)
  /\ threads' = [threads EXCEPT ![t].state = "gone"]
  /\ reg' = IF threads[t].workspace = None THEN reg ELSE Unpin(reg, threads[t].workspace)
  /\ UNCHANGED <<turns, copies, used, restarts>>

\* getDetail: pins die with a process, reading a thread renews its pin.
GetDetail(t) ==
  /\ Live(t) /\ threads[t].workspace # None
  /\ reg' = Pin(reg, threads[t].workspace)
  /\ UNCHANGED <<threads, turns, copies, used, restarts>>

\* A file listing, a report or a project reads a workspace.
ReadFiles(n) ==
  /\ n \in reg.dirs
  /\ \E swept \in Swept : reg' = Fetch(swept, n)
  /\ UNCHANGED <<threads, turns, copies, used, restarts>>

-----------------------------------------------------------------------------
(* Turns. *)

Open(q, t, asked) ==
  /\ turns[q].stream = "idle"
  /\ turns' = [turns EXCEPT ![q].thread = t, ![q].asked = asked,
                            ![q].worker = "queued", ![q].stream = "open"]

\* ThreadService.run marks the thread; the request keeps the workspace of now.
StartTurn(q, t) ==
  /\ Idle(t)
  /\ Open(q, t, threads[t].workspace)
  /\ threads' = [threads EXCEPT ![t].running = TRUE]
  /\ UNCHANGED <<reg, copies, used, restarts>>

\* A column of an arena run competes for the same registry.
StartColumn(q) ==
  /\ Open(q, None, None)
  /\ UNCHANGED <<reg, threads, copies, used, restarts>>

Reuses(q, swept) == turns[q].asked # None /\ Found(swept, turns[q].asked)

\* resolveRunWorkspace: the asked workspace if it can be found ...
ReuseWorkspace(q) ==
  /\ turns[q].worker = "queued"
  /\ \E swept \in Swept :
       /\ Reuses(q, swept)
       /\ reg' = Protect(Fetch(swept, turns[q].asked), turns[q].asked)
  /\ turns' = [turns EXCEPT ![q].worker = "working", ![q].ws = turns[q].asked]
  /\ UNCHANGED <<threads, copies, used, restarts>>

\* ... and else a new one, protected before it exists and given up with the
\* run when the quota is full of workspaces nobody may evict.
NewWorkspace(q) ==
  /\ turns[q].worker = "queued"
  /\ \E swept \in Swept, n \in Scratch \ used :
       LET held == Protect(swept, n) IN
       /\ ~Reuses(q, swept)
       /\ used' = used \cup {n}
       /\ IF CanAdmit(held)
          THEN /\ reg' = Register(MakeRoom(held), n)
               /\ turns' = [turns EXCEPT ![q].worker = "working", ![q].ws = n]
          ELSE /\ reg' = Unprotect(held, n)
               /\ turns' = [turns EXCEPT ![q].worker = "over", ![q].reply = "failure"]
  /\ UNCHANGED <<threads, copies, restarts>>

\* Slip: the delegation depth is not checked.
Delegate_Recurses(q) ==
  /\ turns[q].worker = "working" /\ turns[q].nested < 2 /\ turns[q].reply = "none"
  /\ reg' = Protect(reg, turns[q].ws)
  /\ turns' = [turns EXCEPT ![q].nested = @ + 1]
  /\ UNCHANGED <<threads, copies, used, restarts>>

\* A subagent runs in the workspace of its parent with a hold of its own.
Delegate(q) ==
  /\ turns[q].worker = "working" /\ turns[q].nested = 0 /\ turns[q].reply = "none"
  /\ \E swept \in Swept : reg' = Protect(Fetch(swept, turns[q].ws), turns[q].ws)
  /\ turns' = [turns EXCEPT ![q].nested = 1]
  /\ UNCHANGED <<threads, copies, used, restarts>>

DelegateReturns(q) ==
  /\ turns[q].nested = 1
  /\ reg' = Unprotect(reg, turns[q].ws)
  /\ turns' = [turns EXCEPT ![q].nested = 0]
  /\ UNCHANGED <<threads, copies, used, restarts>>

\* The terminal `complete` goes into the channel; the execution goes on.
Answer(q) ==
  /\ turns[q].worker = "working" /\ turns[q].nested = 0 /\ turns[q].reply = "none"
  /\ \E outcome \in {"success", "failure"} : turns' = [turns EXCEPT ![q].reply = outcome]
  /\ UNCHANGED <<reg, threads, copies, used, restarts>>

\* The finally of the execution, behind its terminal or behind an abort.
ReleaseWorkspace(q) ==
  /\ turns[q].worker = "working" /\ turns[q].nested = 0
  /\ turns[q].reply # "none" \/ turns[q].stream = "closed"
  /\ reg' = Unprotect(reg, turns[q].ws)
  /\ turns' = [turns EXCEPT ![q].worker = "over"]
  /\ UNCHANGED <<threads, copies, used, restarts>>

\* streamTurn sees the terminal: a success commits the turn and pins.
Commit(q) ==
  LET t == turns[q].thread
      success == t # None /\ turns[q].reply = "success"
  IN
  /\ turns[q].stream = "open" /\ turns[q].reply # "none"
  /\ threads' = IF success THEN [threads EXCEPT ![t].workspace = turns[q].ws] ELSE threads
  /\ reg' = IF success THEN Pin(reg, turns[q].ws) ELSE reg
  /\ turns' = [turns EXCEPT ![q].stream = "answered"]
  /\ UNCHANGED <<copies, used, restarts>>

Release(t) == IF t = None THEN threads ELSE [threads EXCEPT ![t].running = FALSE]

EndStream(q) ==
  /\ turns[q].stream = "answered" /\ turns[q].worker = "over"
  /\ turns' = [turns EXCEPT ![q].stream = "closed"]
  /\ threads' = Release(turns[q].thread)
  /\ UNCHANGED <<reg, copies, used, restarts>>

\* Slip: the flag is cleared behind the loop and not in the finally.
LeaveStream_KeepsFlag(q) ==
  /\ turns[q].stream \in {"open", "answered"}
  /\ turns' = [turns EXCEPT ![q].stream = "closed",
                            ![q].worker = IF @ = "queued" THEN "over" ELSE @]
  /\ UNCHANGED <<reg, threads, copies, used, restarts>>

\* The client is gone.  The runner waits a bounded time for its columns: a
\* queued one leaves with its aborted signal, a working one may outlive it.
LeaveStream(q) ==
  /\ turns[q].stream \in {"open", "answered"}
  /\ turns' = [turns EXCEPT ![q].stream = "closed",
                            ![q].worker = IF @ = "queued" THEN "over" ELSE @]
  /\ threads' = Release(turns[q].thread)
  /\ UNCHANGED <<reg, copies, used, restarts>>

-----------------------------------------------------------------------------
(* Forks. *)

Forkable(p, c) ==
  /\ Idle(p) /\ threads[c].state = "unborn"
  /\ threads[p].workspace # None => reg.holds[threads[p].workspace] = 0

\* Slip: the parent is checked once and not held busy.
Born_ParentIdle(p, c, busy) == [threads EXCEPT ![c].state = "live"]

Born(p, c, busy) == [threads EXCEPT ![c].state = "live", ![p].running = busy]

ForkWithoutWorkspace(p, c) ==
  /\ Forkable(p, c) /\ threads[p].workspace = None
  /\ threads' = Born(p, c, FALSE)
  /\ UNCHANGED <<reg, turns, copies, used, restarts>>

\* fork and clone up to the await of the copy.  clone makes room before it
\* protects the source.  A clone that is refused takes the record with it.
ForkWithWorkspace(p, c) ==
  LET source == threads[p].workspace IN
  /\ Forkable(p, c) /\ source # None
  /\ \E swept \in Swept :
       LET fetched == Fetch(swept, source) IN
       IF Found(swept, source) /\ CanAdmit(fetched)
       THEN /\ reg' = Protect(MakeRoom(fetched), source)
            /\ copies' = [copies EXCEPT ![c] = [parent |-> p, source |-> source]]
            /\ threads' = Born(p, c, TRUE)
       ELSE /\ reg' = fetched
            /\ threads' = [threads EXCEPT ![c].state = "gone"]
            /\ UNCHANGED copies
  /\ UNCHANGED <<turns, used, restarts>>

\* setWorkspace throws when the fork was deleted during the copy; the clone
\* is registered by then.
CopyEnds(c) ==
  LET source == copies[c].source
      freed == Unprotect(reg, source)
  IN
  /\ copies[c] # NoCopy /\ source \in reg.dirs
  /\ \E old \in 0..Len(reg.resident) :
       LET swept == Sweep(freed, old) IN
       /\ CanAdmit(swept)
       /\ reg' = LET cloned == Register(MakeRoom(swept), c)
                 IN  IF Live(c) THEN Pin(cloned, c) ELSE cloned
  /\ threads' = [threads EXCEPT ![copies[c].parent].running = FALSE,
                                ![c].workspace = IF Live(c) THEN c ELSE @]
  /\ copies' = [copies EXCEPT ![c] = NoCopy]
  /\ UNCHANGED <<turns, used, restarts>>

\* Slip: only a copy that succeeds gives the source back.
CopyFails_KeepsHold(c) ==
  /\ copies[c] # NoCopy
  /\ threads' = [threads EXCEPT ![copies[c].parent].running = FALSE,
                                ![c].state = IF Idle(c) THEN "gone" ELSE @]
  /\ copies' = [copies EXCEPT ![c] = NoCopy]
  /\ UNCHANGED <<reg, turns, used, restarts>>

\* The copy fails, because of the disk or because the source is gone, or the
\* quota is full behind it.  The store refuses to delete a fork that runs.
CopyFails(c) ==
  LET freed == Unprotect(reg, copies[c].source) IN
  /\ copies[c] # NoCopy
  /\ \/ reg' = freed
     \/ \E old \in 0..Len(reg.resident) :
          /\ ~CanAdmit(Sweep(freed, old))
          /\ reg' = Sweep(freed, old)
  /\ threads' = [threads EXCEPT ![copies[c].parent].running = FALSE,
                                ![c].state = IF Idle(c) THEN "gone" ELSE @]
  /\ copies' = [copies EXCEPT ![c] = NoCopy]
  /\ UNCHANGED <<turns, used, restarts>>

\* A restart in order: the thread file is flushed, everything else is memory.
Restart ==
  /\ restarts < MaxRestarts
  /\ restarts' = restarts + 1
  /\ reg' = Reopen(reg)
  /\ threads' = [t \in Threads |-> [threads[t] EXCEPT !.running = FALSE]]
  /\ turns' = [q \in Turns |->
                 IF turns[q].stream = "idle" THEN turns[q]
                 ELSE [turns[q] EXCEPT !.stream = "closed", !.worker = "over", !.nested = 0]]
  /\ copies' = [t \in Threads |-> NoCopy]
  /\ UNCHANGED used

-----------------------------------------------------------------------------
Next ==
  \/ \E t \in Threads : CreateThread(t) \/ DeleteThread(t) \/ GetDetail(t)
  \/ \E n \in Names : ReadFiles(n)
  \/ \E q \in Turns, t \in Threads : StartTurn(q, t)
  \/ \E q \in Turns : StartColumn(q) \/ ReuseWorkspace(q) \/ NewWorkspace(q)
  \/ \E q \in Turns : Delegate(q) \/ DelegateReturns(q) \/ Answer(q) \/ ReleaseWorkspace(q)
  \/ \E q \in Turns : Commit(q) \/ EndStream(q) \/ LeaveStream(q)
  \/ \E p, c \in Threads : ForkWithoutWorkspace(p, c) \/ ForkWithWorkspace(p, c)
  \/ \E c \in Threads : CopyEnds(c) \/ CopyFails(c)
  \/ Restart

Spec == Init /\ [][Next]_vars

-----------------------------------------------------------------------------
(* Properties. *)

Working(n) == {q \in Turns : turns[q].worker = "working" /\ turns[q].ws = n}
Nested(n) == {q \in Working(n) : turns[q].nested = 1}
CopiesOf(n) == {c \in Threads : copies[c].source = n}

(* Protection is counted, not flagged: however turns, nested agents and      *)
(* copies that share a workspace come and go, by return, failure or abort,   *)
(* the registry counts exactly those that are still at work in it.           *)
HoldsMatchHolders ==
  \A n \in Names :
    reg.holds[n] = Cardinality(Working(n)) + Cardinality(Nested(n)) + Cardinality(CopiesOf(n))

(* Neither the TTL nor the LRU of anybody's create, get or clone takes the   *)
(* directory from under an agent that is working in it.                      *)
WorkersKeepTheirTree ==
  \A q \in Turns : turns[q].worker = "working" =>
    turns[q].ws \in Resident(reg) \cap reg.dirs

(* The registry never grows past its quota, although a clone awaits its copy *)
(* between the check and the registration.                                   *)
QuotaKept == Len(reg.resident) <= MaxWorkspaces

(* Room is made by eviction without taking anything that is in use.          *)
RoomIsMadeFairly == WorkersKeepTheirTree /\ QuotaKept

(* A directory that is pinned before and after a step survives the step.     *)
PinnedStays ==
  [][\A n \in reg.pins \cap reg'.pins : n \in reg.dirs => n \in reg'.dirs]_vars

(* Nobody works in a tree that a fork is copying: not a turn that was left   *)
(* early and is still running, nor one that starts in the middle.            *)
CopiedTreeIsStill == \A n \in Names : CopiesOf(n) # {} => Working(n) = {}

(* The flag that refuses turns, forks and deletions is up exactly while a    *)
(* turn's stream is open on the thread or a fork copies from it.             *)
RunningTellsTruth ==
  \A t \in Threads :
    threads[t].running <=>
      \/ \E q \in Turns : turns[q].thread = t /\ turns[q].stream \in {"open", "answered"}
      \/ \E c \in Threads : copies[c].parent = t

(* The workspace of a thread is exempt from eviction for the thread's        *)
(* lifetime (threads.md): a live thread's workspace has its directory.       *)
ThreadKeepsWorkspace ==
  \A t \in Threads : Live(t) /\ threads[t].workspace # None =>
    threads[t].workspace \in reg.dirs
=============================================================================
