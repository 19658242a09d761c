---------------------------- MODULE ProcessRunner ----------------------------
(***************************************************************************)
(* environment/process-runner.ts, runProcess: one external command. A        *)
(* timeout, an abort, the command's own end and a signal from outside race   *)
(* for the outcome; a grandchild may hold the pipes open after the exit.     *)
(***************************************************************************)
EXTENDS Naturals

VARIABLES
    child,      \* "none", "runs", "exited" (the pipes are open) or "closed"
    endedBy,    \* how the process ended: "code" or "signal"
    killReason, \* the code's variable: "none", "timeout" or "abort"
    aborted,    \* the signal of the caller
    timer,      \* the timeout has not fired
    hardKill,   \* the escalation after the timeout has not fired
    abortKill,  \* the escalation after the abort is armed
    flush,      \* the grace timer after the exit is armed
    destroyed,  \* the streams are destroyed, so that the pipes count as closed
    pipesHeld,  \* the command or a grandchild has the pipes open
    outcome,    \* what the promise resolved to, "none" so far
    settles,    \* history: how often it was resolved
    first       \* history: what came first to the running command

processVars == <<child, endedBy, killReason, aborted, timer, hardKill, abortKill,
                 flush, destroyed, pipesHeld, outcome, settles, first>>

Settled == outcome # "none"
\* History: this is the first thing that happens to a command that runs.
Notes(what) == first' = IF child = "runs" /\ first = "none" THEN what ELSE first

\* resolve, with every timer cleared and the listener removed.
Resolve(result) ==
    /\ outcome' = result /\ settles' = settles + 1
    /\ timer' = FALSE /\ hardKill' = FALSE /\ abortKill' = FALSE /\ flush' = FALSE

NoResolve == UNCHANGED <<outcome, settles, timer, hardKill, abortKill, flush>>

-----------------------------------------------------------------------------
\* An aborted call does not start; a spawn may throw, and a child without a stdin is
\* killed at once.
Start ==
    /\ child = "none" /\ ~Settled
    /\ \/ /\ aborted /\ Resolve("aborted") /\ UNCHANGED <<child, pipesHeld>>
       \/ /\ ~aborted /\ Resolve("error") /\ UNCHANGED <<child, pipesHeld>>
       \/ /\ ~aborted /\ Resolve("error")
          /\ child' = "runs" /\ pipesHeld' = TRUE
       \/ /\ ~aborted /\ child' = "runs" /\ pipesHeld' = TRUE
          /\ timer' = TRUE /\ hardKill' = TRUE
          /\ UNCHANGED <<abortKill, flush, outcome, settles>>
    /\ UNCHANGED <<endedBy, killReason, aborted, destroyed, first>>

\* "The child already exited: claiming abort would misreport a finished run."
AbortCounts == ~Settled /\ killReason = "none" /\ child = "runs"

\* onAbort. The listener is there from the start of the child to the outcome.
Abort ==
    /\ ~aborted /\ aborted' = TRUE
    /\ IF child # "none" /\ AbortCounts
       THEN killReason' = "abort" /\ abortKill' = TRUE
       ELSE UNCHANGED <<killReason, abortKill>>
    /\ Notes("abort")
    /\ UNCHANGED <<child, endedBy, timer, hardKill, flush, destroyed, pipesHeld, outcome, settles>>

\* "First killer wins."
TimeoutCounts == ~Settled /\ killReason = "none"

\* The timeout. It does not ask whether the child has exited.
TimeoutFires ==
    /\ timer /\ timer' = FALSE
    /\ IF TimeoutCounts
       THEN killReason' = "timeout" ELSE UNCHANGED killReason
    /\ Notes("timeout")
    /\ UNCHANGED <<child, endedBy, aborted, hardKill, abortKill, flush, destroyed, pipesHeld,
                   outcome, settles>>

\* SIGKILL after the timeout, or after the abort: nobody ignores it.
HardKill ==
    /\ \/ hardKill /\ ~timer /\ hardKill' = FALSE /\ UNCHANGED abortKill
       \/ abortKill /\ abortKill' = FALSE /\ UNCHANGED hardKill
    /\ IF child = "runs"
       THEN child' = "exited" /\ endedBy' = "signal" /\ flush' = ~Settled
       ELSE UNCHANGED <<child, endedBy, flush>>
    /\ UNCHANGED <<killReason, aborted, timer, destroyed, pipesHeld, outcome, settles, first>>

\* The process ends: by its own exit, at a signal it got from here or from outside. The
\* exit event arms the grace timer.
ChildExits ==
    /\ child = "runs" /\ child' = "exited"
    /\ endedBy' \in {"code", "signal"}
    /\ flush' = ~Settled
    /\ Notes(endedBy')
    /\ UNCHANGED <<killReason, aborted, timer, hardKill, abortKill, destroyed,
                   pipesHeld, outcome, settles>>

\* Slip: the streams are left to whoever holds them.
FlushFires_Waits ==
    /\ flush /\ flush' = FALSE
    /\ UNCHANGED <<child, endedBy, killReason, aborted, timer, hardKill, abortKill, destroyed,
                   pipesHeld, outcome, settles, first>>

\* The grace period is over: destroy the streams, whoever holds the other end.
FlushFires ==
    /\ flush /\ flush' = FALSE /\ destroyed' = TRUE
    /\ UNCHANGED <<child, endedBy, killReason, aborted, timer, hardKill, abortKill,
                   pipesHeld, outcome, settles, first>>

\* The last holder of the pipes lets go.
PipesEnd ==
    /\ child = "exited" /\ pipesHeld /\ pipesHeld' = FALSE
    /\ UNCHANGED <<child, endedBy, killReason, aborted, timer, hardKill, abortKill,
                   flush, destroyed, outcome, settles, first>>

\* What close reports: an abort whatever the exit was, a signal that is not ours, a
\* timeout, or the exit code. A sandbox helper that failed is an error, too.
Verdict ==
    IF killReason = "abort" THEN "aborted"
    ELSE IF endedBy = "code" THEN "ok"
    ELSE IF killReason = "timeout" THEN "timeout" ELSE "error"

\* The close event.
ChildCloses ==
    /\ child = "exited" /\ (destroyed \/ ~pipesHeld)
    /\ child' = "closed"
    /\ IF Settled THEN NoResolve
       ELSE \/ Resolve(Verdict)
            \/ Verdict = "ok" /\ Resolve("error")
    /\ UNCHANGED <<endedBy, killReason, aborted, destroyed, pipesHeld, first>>

\* The error event: there is no such binary.
ChildFails ==
    /\ child = "runs" /\ ~Settled
    /\ Resolve("error") /\ child' = "exited" /\ endedBy' = "code"
    /\ UNCHANGED <<killReason, aborted, destroyed, pipesHeld, first>>

ProcessInit ==
    /\ child = "none" /\ endedBy = "none" /\ killReason = "none"
    /\ aborted = FALSE /\ timer = FALSE /\ hardKill = FALSE /\ abortKill = FALSE
    /\ flush = FALSE /\ destroyed = FALSE /\ pipesHeld = FALSE
    /\ outcome = "none" /\ settles = 0 /\ first = "none"

ProcessNext ==
    \/ Start \/ Abort \/ TimeoutFires \/ HardKill \/ ChildExits \/ FlushFires
    \/ PipesEnd \/ ChildCloses \/ ChildFails

\* Timers fire and events are delivered. The command need not end, nor let the pipes go.
ProcessRuns == TimeoutFires \/ HardKill \/ FlushFires \/ ChildCloses
ProcessSpec == ProcessInit /\ [][ProcessNext]_processVars /\ WF_processVars(ProcessRuns)

-----------------------------------------------------------------------------
ProcessTypeOK ==
    /\ child \in {"none", "runs", "exited", "closed"} /\ endedBy \in {"none", "code", "signal"}
    /\ killReason \in {"none", "timeout", "abort"}
    /\ {aborted, timer, hardKill, abortKill, flush, destroyed, pipesHeld} \subseteq BOOLEAN
    /\ outcome \in {"none", "ok", "timeout", "error", "aborted"} /\ settles \in Nat
    /\ first \in {"none", "abort", "timeout", "code", "signal"}

\* "First killer wins", and "let close() report its real outcome": a command is reported
\* aborted if and only if the abort was the first thing that came to it, whatever fires
\* before the pipes close; an exit code is only reported of a command that exited by
\* itself; a timeout only after the time was up; and the promise settles once, with
\* nothing armed behind it.
OutcomeTellsTruth ==
    /\ outcome = "aborted" => first = "abort" \/ child = "none"
    /\ first = "abort" => outcome \in {"none", "aborted", "error"}
    /\ outcome = "ok" => endedBy = "code"
    /\ outcome = "timeout" => endedBy = "signal" /\ killReason = "timeout"
    /\ settles <= 1
    /\ Settled => ~timer /\ ~hardKill /\ ~abortKill /\ ~flush
=============================================================================
