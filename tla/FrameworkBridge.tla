--------------------------- MODULE FrameworkBridge ---------------------------
(***************************************************************************)
(* driver-run-support/child-bridge.ts and the bridges of driver-crewai and   *)
(* driver-autogen, which share its shape: a framework runs in a child        *)
(* process, the host answers its llm and tool requests, and a generator      *)
(* tells the events of the session and its end. The child's lines are        *)
(* modelled where the host reads them: what a killed child has written may   *)
(* still be read.                                                            *)
(***************************************************************************)
EXTENDS Naturals

CONSTANTS Requests,  \* bound: llm and tool requests of one session
          TurnCap,   \* stepBudgetFor(max_steps): completions that are paid for
          MaxEvents  \* bound: events pushed in one session

ASSUME BridgeAssumption == Requests \in Nat /\ TurnCap \in Nat /\ MaxEvents \in Nat

VARIABLES
    script,     \* the child: "up", "dying" after kill(), or "down" when it has closed
    signal,     \* the caller's signal: "clear", "late" when it aborted during the session,
                \* or "early" when it had aborted before, which fires no listener
    final,      \* finalAnswer is set
    failure,    \* errorMessage: "none" or who wrote it last
    verdict,    \* how the promise settled: "none", "ok" or "failed"
    watched,    \* an idle budget is given
    idleTimer,  \* the idle watchdog is armed
    forceKill,  \* the SIGKILL after a kill: "off", "armed" or "fired"
    request,    \* the child's requests: "none", "llm", "tool", "answered" or "lost"
    turns,      \* stats.turns
    paid,       \* history: completions the model was asked for
    pushed,     \* Len(queue)
    yielded,    \* index
    stage,      \* the generator: "drain", "tail" (awaits done) or "done"
    reported,   \* the success the complete event carries: "none", "ok" or "failed"
    pushedThen, \* history: pushed when the promise settled
    cutShort    \* history: the listener ran before the promise settled

bridgeVars == <<script, signal, final, failure, verdict, watched, idleTimer, forceKill,
                request, turns, paid, pushed, yielded, stage, reported, pushedThen, cutShort>>
hostVars == <<signal, watched, yielded, stage, reported>>   \* no line of the child touches these

Open == {r \in 1 .. Requests : request[r] \in {"llm", "tool"}}
\* kill(), and scheduleForceKill; a SIGKILL that has been sent stays sent.
ArmForceKill == forceKill' = IF forceKill = "fired" THEN "fired" ELSE "armed"
Kills == script' = "dying" /\ ArmForceKill

\* finish: the first outcome counts.
Finish(result) ==
    IF verdict = "none" THEN verdict' = result /\ pushedThen' = pushed
    ELSE UNCHANGED <<verdict, pushedThen>>

-----------------------------------------------------------------------------
\* A line of the child: it re-arms the watchdog, after an abort too.
Line ==
    /\ script # "down" /\ idleTimer' = watched
    /\ UNCHANGED <<script, forceKill, verdict, pushedThen, cutShort, hostVars>>

\* onEvent translates and pushes.
EventLine ==
    /\ Line /\ pushed < MaxEvents /\ pushed' = pushed + 1
    /\ UNCHANGED <<final, failure, request, turns, paid>>

\* Past the budget the host answers with a note and no longer asks the model.
WithinBudget == turns + 1 <= TurnCap

LlmLine(r) ==
    /\ Line /\ request[r] = "none" /\ turns' = turns + 1
    /\ IF WithinBudget
       THEN request' = [request EXCEPT ![r] = "llm"] /\ paid' = paid + 1
       ELSE request' = [request EXCEPT ![r] = "answered"] /\ UNCHANGED paid
    /\ UNCHANGED <<final, failure, pushed>>

ToolLine(r) ==
    /\ Line /\ request[r] = "none" /\ request' = [request EXCEPT ![r] = "tool"]
    /\ UNCHANGED <<final, failure, turns, paid, pushed>>

FinalLine ==
    /\ Line /\ final' = TRUE
    /\ UNCHANGED <<failure, request, turns, paid, pushed>>
ErrorLine ==
    /\ Line /\ failure' = "child"
    /\ UNCHANGED <<final, request, turns, paid, pushed>>

\* A tool under way pushes its action, its output and its observation, also when the
\* child that asked for it is gone.
ToolSays(r) ==
    /\ request[r] = "tool" /\ pushed < MaxEvents /\ pushed' = pushed + 1
    /\ UNCHANGED <<script, final, failure, verdict, idleTimer, forceKill, request, turns, paid,
                   pushedThen, cutShort, hostVars>>

\* A handler returns or throws: either way the child is answered, if its stdin is there.
Answer(r) ==
    /\ r \in Open
    /\ request' = [request EXCEPT ![r] = IF script = "down" THEN "lost" ELSE "answered"]
    /\ UNCHANGED <<script, final, failure, verdict, idleTimer, forceKill, turns, paid, pushed,
                   pushedThen, cutShort, hostVars>>

-----------------------------------------------------------------------------
IdleFires ==
    /\ idleTimer /\ idleTimer' = FALSE /\ failure' = "idle" /\ Kills
    /\ UNCHANGED <<final, verdict, request, turns, paid, pushed, pushedThen, cutShort, hostVars>>

\* The abort listener stays registered when the session is over.
AbortBridge ==
    /\ signal = "clear" /\ signal' = "late"
    /\ failure' = "abort" /\ idleTimer' = FALSE /\ ArmForceKill
    /\ script' = IF script = "up" THEN "dying" ELSE script
    /\ cutShort' = (cutShort \/ verdict = "none")
    /\ UNCHANGED <<final, verdict, watched, request, turns, paid, pushed, yielded, stage, reported,
                   pushedThen>>

ForceKill ==
    /\ forceKill = "armed" /\ forceKill' = "fired"
    /\ UNCHANGED <<script, final, failure, verdict, idleTimer, request, turns, paid, pushed,
                   pushedThen, cutShort, hostVars>>

\* Slip: a final that has arrived wins over an abort.
ClosesWell_Final == final

\* "An abort wins over a concurrently-arrived final"; an early signal only does so when
\* something else has failed as well.
ClosesWell == final /\ ~(signal # "clear" /\ failure # "none")

\* 'close', of a child that ended by itself or was killed.
BridgeCloses ==
    /\ script # "down" /\ script' = "down"
    /\ idleTimer' = FALSE /\ forceKill' = "off"
    /\ Finish(IF ClosesWell THEN "ok" ELSE "failed")
    /\ UNCHANGED <<final, failure, request, turns, paid, pushed, cutShort, hostVars>>

\* 'error': the interpreter could not be spawned, so there was no line.
SpawnFails ==
    /\ script # "down" /\ ~final /\ failure # "child" /\ pushed = 0
    /\ \A r \in 1 .. Requests : request[r] = "none"
    /\ script' = "down" /\ failure' = "spawn" /\ idleTimer' = FALSE /\ forceKill' = "off"
    /\ Finish("failed")
    /\ UNCHANGED <<final, request, turns, paid, pushed, cutShort, hostVars>>

-----------------------------------------------------------------------------
\* The generator yields the queue in the order of arrival.
Yield ==
    /\ stage = "drain" /\ yielded < pushed /\ yielded' = yielded + 1
    /\ UNCHANGED <<script, signal, final, failure, verdict, watched, idleTimer, forceKill, request,
                   turns, paid, pushed, stage, reported, pushedThen, cutShort>>

\* The loop ends when the session has settled and the queue is empty, in this order.
Drained == yielded = pushed /\ verdict # "none"

Leave ==
    /\ stage = "drain" /\ Drained /\ stage' = "tail"
    /\ UNCHANGED <<script, signal, final, failure, verdict, watched, idleTimer, forceKill, request,
                   turns, paid, pushed, yielded, reported, pushedThen, cutShort>>

\* The error or the closing thought, and the complete.
Complete ==
    /\ stage = "tail" /\ stage' = "done" /\ reported' = verdict
    /\ UNCHANGED <<script, signal, final, failure, verdict, watched, idleTimer, forceKill, request,
                   turns, paid, pushed, yielded, pushedThen, cutShort>>

BridgeInit ==
    /\ script = "up" /\ signal \in {"clear", "early"} /\ final = FALSE /\ failure = "none"
    /\ verdict = "none" /\ watched \in BOOLEAN /\ idleTimer = watched /\ forceKill = "off"
    /\ request = [r \in 1 .. Requests |-> "none"] /\ turns = 0 /\ paid = 0
    /\ pushed = 0 /\ yielded = 0 /\ stage = "drain" /\ reported = "none"
    /\ pushedThen = 0 /\ cutShort = FALSE

BridgeNext ==
    \/ EventLine \/ FinalLine \/ ErrorLine
    \/ \E r \in 1 .. Requests : LlmLine(r) \/ ToolLine(r) \/ ToolSays(r) \/ Answer(r)
    \/ IdleFires \/ AbortBridge \/ ForceKill \/ BridgeCloses \/ SpawnFails
    \/ Yield \/ Leave \/ Complete

\* The consumer goes on reading, and nobody survives a SIGKILL. The timer of the SIGKILL
\* fires: a watchdog starts it anew, but with a budget of its 3 s or more it comes first.
BridgeReads == Yield \/ Leave \/ Complete
KilledCloses == forceKill = "fired" /\ BridgeCloses
BridgeSpec ==
    /\ BridgeInit /\ [][BridgeNext]_bridgeVars
    /\ WF_bridgeVars(BridgeReads) /\ WF_bridgeVars(ForceKill) /\ WF_bridgeVars(KilledCloses)

-----------------------------------------------------------------------------
BridgeTypeOK ==
    /\ script \in {"up", "dying", "down"} /\ signal \in {"clear", "late", "early"}
    /\ final \in BOOLEAN /\ failure \in {"none", "abort", "idle", "child", "spawn"}
    /\ verdict \in {"none", "ok", "failed"} /\ watched \in BOOLEAN /\ idleTimer \in BOOLEAN
    /\ forceKill \in {"off", "armed", "fired"}
    /\ request \in [1 .. Requests -> {"none", "llm", "tool", "answered", "lost"}]
    /\ turns \in 0 .. Requests /\ paid \in 0 .. Requests
    /\ pushed \in 0 .. MaxEvents /\ yielded \in 0 .. pushed
    /\ stage \in {"drain", "tail", "done"} /\ reported \in {"none", "ok", "failed"}
    /\ pushedThen \in 0 .. pushed /\ cutShort \in BOOLEAN

\* A session the caller aborted while it ran is never told as a success, one that nobody
\* aborted is a success exactly if the child gave its answer, and whatever was pushed
\* before the session settled is told before its end. The child is gone by then, nothing
\* but a later abort leaves a timer, and the model was asked at most TurnCap times.
BridgeTellsTheRun ==
    /\ cutShort => reported # "ok"
    /\ stage = "done" /\ ~cutShort /\ signal # "early" => (reported = "ok") = final
    /\ stage = "done" => reported = verdict /\ yielded >= pushedThen
    /\ stage # "drain" => script = "down" /\ (signal # "late" => ~idleTimer /\ forceKill = "off")
    /\ script = "down" => ~idleTimer
    /\ paid <= TurnCap

\* A session that was killed, or has settled, has not been told yet.
BridgeIsDue == stage # "done" /\ script # "up"
=============================================================================
