----------------------------- MODULE BashSession -----------------------------
(***************************************************************************)
(* tools/definitions/bash-session.ts over spawnPersistentShell: one shell    *)
(* per workspace that outlives calls. A send writes its command and a marker *)
(* line and reads the shell's output up to the marker; the output buffer     *)
(* drops its head at a cap. Output is a sequence of pieces, and the absolute *)
(* offsets of the code are positions in it.                                  *)
(***************************************************************************)
EXTENDS Naturals, Sequences, SequencesExt, FiniteSetsExt

CONSTANTS Shells,    \* how many shells are started
          Sends,     \* how many send calls there are
          Pieces,    \* how many pieces of output a command writes at most
          BufferCap  \* MAX_OUTPUT_CHARS, in pieces

ASSUME ShellAssumption == {Shells, Sends, Pieces} \subseteq Nat /\ BufferCap \in Nat \ {0}

NoShell == 0

VARIABLES
    current,  \* SHELLS.get(root)
    shell,    \* the shells: process, buffer and record
    send      \* the send calls

shellVars == <<current, shell, send>>

NotStarted == [started |-> FALSE, alive |-> FALSE, closed |-> FALSE, stdin |-> << >>,
               out |-> << >>, cursor |-> 0, queue |-> << >>]
NotSent == [state |-> "none", on |-> NoShell, aborted |-> FALSE, reply |-> "none",
            from |-> 1, to |-> 0, lost |-> 0]

\* outputStart: how much the cap has taken from the head of the buffer.
Trimmed(g) == Max({0, Len(shell[g].out) - BufferCap})
Reply(s, reply) == [send[s] EXCEPT !.state = "done",
                                   !.reply = IF send[s].aborted THEN "aborted" ELSE reply]
Dequeued(g) == [shell EXCEPT ![g].queue = Tail(@)]

-----------------------------------------------------------------------------
\* start: refused while the shell lives; a dead one is replaced.
StartShell(g) ==
    /\ ~shell[g].started /\ \A earlier \in 1 .. g - 1 : shell[earlier].started
    /\ current # NoShell => ~shell[current].alive
    /\ current' = g
    /\ shell' = [shell EXCEPT ![g] = [NotStarted EXCEPT !.started = TRUE, !.alive = TRUE]]
    /\ UNCHANGED send

\* close and the release of the workspace: kill the shell and forget it. The process
\* takes its time to die.
CloseShell ==
    /\ current # NoShell
    /\ shell' = [shell EXCEPT ![current].closed = TRUE]
    /\ current' = NoShell
    /\ UNCHANGED send

\* send: a live shell takes the call in its queue, a dead one is forgotten.
Send(s) ==
    /\ send[s].state = "none" /\ \A earlier \in 1 .. s - 1 : send[earlier].state # "none"
    /\ current # NoShell
    /\ IF shell[current].alive
       THEN /\ shell' = [shell EXCEPT ![current].queue = Append(@, s)]
            /\ send' = [send EXCEPT ![s] = [NotSent EXCEPT !.state = "queued", !.on = current]]
            /\ UNCHANGED current
       ELSE /\ send' = [send EXCEPT ![s] = [NotSent EXCEPT !.state = "done", !.reply = "no shell"]]
            /\ current' = NoShell
            /\ UNCHANGED shell

\* The caller is rejected at once; its task stays in the queue.
AbortSend(s) ==
    /\ send[s].state \in {"queued", "polling"} /\ ~send[s].aborted
    /\ send' = [send EXCEPT ![s].aborted = TRUE, ![s].reply = "aborted"]
    /\ UNCHANGED <<current, shell>>

\* Slip: sends of one shell need not wait for each other.
IsNext_Any(s) == TRUE

\* The send queue: the tail of the record's promise chain.
IsNext(s) == Head(shell[send[s].on].queue) = s

\* The task of a send begins: aborted, on a replaced shell, or on one that refuses the
\* write it ends at once. A shell that has died may still swallow the write.
Begin(s) ==
    LET g == send[s].on
        writes == [shell EXCEPT ![g].stdin = IF shell[g].alive THEN Append(@, s) ELSE @] IN
    /\ send[s].state = "queued" /\ IsNext(s)
    /\ \/ /\ send[s].aborted \/ current # g \/ ~shell[g].alive
          /\ send' = [send EXCEPT ![s] = Reply(s, "no shell")]
          /\ shell' = Dequeued(g)
       \/ /\ ~send[s].aborted /\ current = g
          /\ send' = [send EXCEPT ![s].state = "polling"]
          /\ shell' = writes
    /\ UNCHANGED current

\* Where the marker of a send stands in the unread part of the buffer.
MarkerAt(s) ==
    LET g == send[s].on IN
    {p \in Max({shell[g].cursor, Trimmed(g)}) + 1 .. Len(shell[g].out) :
       shell[g].out[p] = [by |-> s, mark |-> TRUE]}

\* The marker is there: everything unread before it is the command's output, and the
\* cursor goes behind it.
Found(s) ==
    LET g == send[s].on IN
    /\ send[s].state = "polling"
    /\ \E p \in MarkerAt(s) :
         /\ send' = [send EXCEPT ![s] =
              [Reply(s, "shown") EXCEPT !.from = Max({shell[g].cursor, Trimmed(g)}) + 1,
                                        !.to = p - 1, !.lost = Trimmed(g)]]
         /\ shell' = [Dequeued(g) EXCEPT ![g].cursor = p]
    /\ UNCHANGED current

\* "Remove only our own record: a close+start during this send installs a fresh shell."
Forgotten(g) == IF current = g THEN NoShell ELSE current

\* The poll ends without a marker: the shell is dead, the run is aborted, or the time is
\* up. The cursor stays, so the next send shows what this one leaves behind.
GiveUp(s) ==
    LET g == send[s].on IN
    /\ send[s].state = "polling"
    /\ send' = [send EXCEPT ![s] = Reply(s, IF shell[g].alive THEN "late" ELSE "exited")]
    /\ shell' = Dequeued(g)
    /\ current' = IF shell[g].alive THEN current ELSE Forgotten(g)

-----------------------------------------------------------------------------
\* The shell: it runs its input in order and writes a command's output and its marker.
Writes(g) ==
    LET s == Head(shell[g].stdin)
        mine == {p \in 1 .. Len(shell[g].out) : shell[g].out[p].by = s} IN
    /\ shell[g].alive /\ shell[g].stdin # << >>
    /\ \/ /\ Cardinality(mine) < Pieces
          /\ shell' = [shell EXCEPT ![g].out = Append(@, [by |-> s, mark |-> FALSE])]
       \/ shell' = [shell EXCEPT ![g].out = Append(@, [by |-> s, mark |-> TRUE]),
                                 ![g].stdin = Tail(@)]
    /\ UNCHANGED <<current, send>>

\* It dies: killed, by the command exit, or from outside.
Dies(g) ==
    /\ shell[g].alive
    /\ shell' = [shell EXCEPT ![g].alive = FALSE, ![g].stdin = << >>]
    /\ UNCHANGED <<current, send>>

ShellInit ==
    /\ current = NoShell
    /\ shell = [g \in 1 .. Shells |-> NotStarted]
    /\ send = [s \in 1 .. Sends |-> NotSent]

ShellNext ==
    \/ \E g \in 1 .. Shells : StartShell(g) \/ Writes(g) \/ Dies(g)
    \/ \E s \in 1 .. Sends : Send(s) \/ AbortSend(s) \/ Begin(s) \/ Found(s) \/ GiveUp(s)
    \/ CloseShell

\* The promise chain and the poll's own timer move on. No command has to finish.
ShellRuns == \E s \in 1 .. Sends : Begin(s) \/ Found(s) \/ GiveUp(s)
ShellSpec == ShellInit /\ [][ShellNext]_shellVars /\ WF_shellVars(ShellRuns)

-----------------------------------------------------------------------------
ShellTypeOK ==
    /\ current \in 0 .. Shells
    /\ \A g \in 1 .. Shells :
         /\ shell[g].cursor \in 0 .. Len(shell[g].out)
         /\ ToSet(shell[g].queue) \cup ToSet(shell[g].stdin) \subseteq 1 .. Sends
    /\ \A s \in 1 .. Sends :
         /\ send[s].state \in {"none", "queued", "polling", "done"}
         /\ send[s].reply \in {"none", "shown", "late", "exited", "no shell", "aborted"}
         /\ send[s].on \in 0 .. Shells

GivenUp(s) == send[s].reply \in {"late", "aborted"}
ShownBy(s) == send[s].from .. send[s].to

\* "Concurrent sends queue per shell; interleaved polling would misattribute output
\* regions": a send that reports an exit code shows its own output, all that the cap has
\* left of it, and besides only what earlier sends that were given up left behind; and no
\* output is reported as finished twice.
OutputHasItsOwner ==
    \A s \in 1 .. Sends : send[s].reply = "shown" =>
        LET out == shell[send[s].on].out IN
        /\ \A p \in ShownBy(s) : out[p].by = s \/ (out[p].by < s /\ GivenUp(out[p].by))
        /\ \A p \in 1 .. send[s].to :
             out[p].by = s => p \in ShownBy(s) \/ p <= send[s].lost
        /\ \A other \in 1 .. s - 1 :
             send[other].reply = "shown" /\ send[other].on = send[s].on =>
                 ShownBy(other) \cap ShownBy(s) = {}

\* A shell that lives and was not closed is the workspace's shell: whatever a stale send
\* of an earlier shell cleans up, the next send reaches it and the next close kills it.
\* So a workspace never has two.
LiveShellIsReachable ==
    \A g \in 1 .. Shells : shell[g].alive /\ ~shell[g].closed => current = g

\* What the model asks of its persistent shell.
SessionsStayApart == OutputHasItsOwner /\ LiveShellIsReachable

\* A call of the model that waits for its shell.
Busy(s) == send[s].state \in {"queued", "polling"}
=============================================================================
