---------------------------- MODULE ServerShutdown ----------------------------
(***************************************************************************)
(* The end of the server process: the signal and crash handlers of            *)
(* apps/server/lifecycle.ts with the stop that main.ts gives them. Turns go   *)
(* on while it stops; what they commit sits in memory until a flush. The      *)
(* files behind a flush are BuilderStorage's and SessionLedger's matter:      *)
(* here a flush writes what was in memory when it was called.                 *)
(***************************************************************************)
EXTENDS Naturals

CONSTANTS Turns,      \* turns that clients start
          MaxFailures \* bound: flushes, stops and checkpoints that fail

ASSUME ShutdownAssumption == MaxFailures \in Nat

VARIABLES
    turn,      \* "none", "runs", "told" once committed, "served" when its client has gone
               \* then, "left" when it went before, and "late" if that turn still commits
    dirty,     \* turns committed in memory only
    listening, \* the server accepts connections
    stop,      \* the shutdown: "none", "flush", "drain", "compact", "reflush" or "over"
    stopFailed,\* server.close() reported an error
    flushing,  \* what the shutdown's flush writes
    grace,     \* the watchdog of the shutdown is armed
    crash,     \* "none" or "flush"
    rescuing,  \* what the emergency flush writes
    bail,      \* the watchdog of the emergency flush is armed
    exit,      \* "none", "clean" for code 0 or "failed" for code 1
    failures   \* failures so far

stopVars == <<stop, stopFailed, flushing, grace>>
crashVars == <<crash, rescuing, bail>>
shutdownVars == <<turn, dirty, listening, stopVars, crashVars, exit, failures>>

Lives == exit = "none"
Fails == failures < MaxFailures /\ failures' = failures + 1
Connected == {t \in Turns : turn[t] \in {"runs", "told"}}

-----------------------------------------------------------------------------
(* Turns.                                                                   *)

Accept(t) ==
    /\ Lives /\ listening /\ turn[t] = "none" /\ turn' = [turn EXCEPT ![t] = "runs"]
    /\ UNCHANGED <<dirty, listening, stopVars, crashVars, exit, failures>>

\* The commit changes the memory; a turn whose client has left may still commit.
TurnCommits(t) ==
    /\ Lives /\ turn[t] \in {"runs", "left"}
    /\ turn' = [turn EXCEPT ![t] = IF turn[t] = "runs" THEN "told" ELSE "late"]
    /\ dirty' = dirty \cup {t}
    /\ UNCHANGED <<listening, stopVars, crashVars, exit, failures>>

Hangup(t) ==
    /\ Lives /\ t \in Connected
    /\ turn' = [turn EXCEPT ![t] = IF turn[t] = "told" THEN "served" ELSE "left"]
    /\ UNCHANGED <<dirty, listening, stopVars, crashVars, exit, failures>>

\* The debounce timers, and the flush at the end of a turn that nobody awaits.
Debounce ==
    /\ Lives /\ dirty # {} /\ dirty' = {}
    /\ UNCHANGED <<turn, listening, stopVars, crashVars, exit, failures>>

-----------------------------------------------------------------------------
(* The signal.                                                              *)

\* A second signal is ignored.
Signal ==
    /\ Lives /\ stop = "none"
    /\ stop' = "flush" /\ flushing' = dirty /\ grace' = TRUE
    /\ UNCHANGED <<turn, dirty, listening, stopFailed, crashVars, exit, failures>>

\* A rejection of the first flush skips the rest.
FlushFails ==
    /\ Lives /\ stop \in {"flush", "reflush"} /\ Fails
    /\ stop' = "over" /\ grace' = FALSE /\ exit' = "failed"
    /\ UNCHANGED <<turn, dirty, listening, stopFailed, flushing, crashVars>>

Flushed ==
    /\ Lives /\ stop = "flush"
    /\ dirty' = dirty \ flushing /\ flushing' = {}
    /\ stop' = "drain" /\ listening' = FALSE
    /\ UNCHANGED <<turn, stopFailed, grace, crashVars, exit, failures>>

\* server.close() is done when no connection is left, or fails.
Drains ==
    /\ Lives /\ stop = "drain" /\ stop' = "compact"
    /\ \/ Connected = {} /\ UNCHANGED <<stopFailed, failures>>
       \/ Fails /\ stopFailed' = TRUE
    /\ UNCHANGED <<turn, dirty, listening, flushing, grace, crashVars, exit>>

\* Slip: the tail is left to the compaction.
TailOf_None == {}

\* "A turn that commits while stop() waits for connections would otherwise be lost": the
\* second flush writes what came in since the first.
TailOf == dirty

\* The checkpoint ends; its failure is only logged.
Compacted ==
    /\ Lives /\ stop = "compact" /\ stop' = "reflush" /\ flushing' = TailOf
    /\ UNCHANGED <<turn, dirty, listening, stopFailed, grace, crashVars, exit, failures>>

Reflushed ==
    /\ Lives /\ stop = "reflush" /\ stop' = "over" /\ grace' = FALSE
    /\ dirty' = dirty \ flushing /\ flushing' = {}
    /\ exit' = IF stopFailed THEN "failed" ELSE "clean"
    /\ UNCHANGED <<turn, listening, stopFailed, crashVars, failures>>

\* Whatever hangs, the watchdog forces the exit.
GraceFires ==
    /\ Lives /\ grace /\ grace' = FALSE /\ exit' = "failed"
    /\ UNCHANGED <<turn, dirty, listening, stop, stopFailed, flushing, crashVars, failures>>

-----------------------------------------------------------------------------
(* The crash.                                                               *)

\* A second fault is ignored; a shutdown that is under way goes on.
Crashes ==
    /\ Lives /\ crash = "none"
    /\ crash' = "flush" /\ rescuing' = dirty /\ bail' = TRUE
    /\ UNCHANGED <<turn, dirty, listening, stopVars, exit, failures>>

\* The emergency flush settles, and the process ends with code 1 either way.
Rescued ==
    /\ Lives /\ crash = "flush" /\ bail' = FALSE /\ exit' = "failed"
    /\ \/ dirty' = dirty \ rescuing /\ UNCHANGED failures
       \/ Fails /\ UNCHANGED dirty
    /\ UNCHANGED <<turn, listening, stopVars, crash, rescuing>>

BailFires ==
    /\ Lives /\ bail /\ bail' = FALSE /\ exit' = "failed"
    /\ UNCHANGED <<turn, dirty, listening, stopVars, crash, rescuing, failures>>

-----------------------------------------------------------------------------
ShutdownInit ==
    /\ turn = [t \in Turns |-> "none"] /\ dirty = {} /\ listening = TRUE
    /\ stop = "none" /\ stopFailed = FALSE /\ flushing = {} /\ grace = FALSE
    /\ crash = "none" /\ rescuing = {} /\ bail = FALSE /\ exit = "none" /\ failures = 0

ShutdownNext ==
    \/ \E t \in Turns : Accept(t) \/ TurnCommits(t) \/ Hangup(t)
    \/ Debounce \/ Signal \/ Flushed \/ FlushFails \/ Drains \/ Compacted \/ Reflushed
    \/ GraceFires \/ Crashes \/ Rescued \/ BailFires

\* Only the watchdogs are certain to act: a flush or a connection may hang.
Watchdogs == GraceFires \/ BailFires
ShutdownSpec == ShutdownInit /\ [][ShutdownNext]_shutdownVars /\ WF_shutdownVars(Watchdogs)

ShutdownTypeOK ==
    /\ turn \in [Turns -> {"none", "runs", "told", "served", "left", "late"}] /\ dirty \subseteq Turns
    /\ stop \in {"none", "flush", "drain", "compact", "reflush", "over"}
    /\ flushing \subseteq Turns /\ rescuing \subseteq Turns /\ crash \in {"none", "flush"}
    /\ exit \in {"none", "clean", "failed"} /\ failures \in 0 .. MaxFailures

\* "Flush before and after draining": a clean exit comes when no client is served any
\* more, and what was committed for one that stayed to the end is on disk. Only a turn
\* that its client had left may be in memory alone.
CleanExitKeepsServed ==
    exit = "clean" =>
        /\ Connected = {} /\ ~listening
        /\ \A t \in dirty : turn[t] = "late"

\* A signal or a crash ends the process, whatever hangs.
ProcessEnds == (stop # "none" \/ crash # "none") ~> exit # "none"
=============================================================================
