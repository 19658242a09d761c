------------------------------ MODULE MCArena ------------------------------
(***************************************************************************)
(* One instance for an arena run from end to end: the server from the        *)
(* request to the closed stream, the page of the browser, and the timeline   *)
(* that a column's events become. The page and the timeline have what they   *)
(* read of the run in their own terms, so the three share no state: a        *)
(* behaviour moves one of them, the subject, and leaves the others at their  *)
(* initial state.                                                            *)
(***************************************************************************)
EXTENDS MCArenaRun, ArenaPage, TraceFlow

VARIABLE subject  \* "run", "page" or "timeline"

arenaVars == <<subject, vars, pageVars, traceVars>>

ArenaInit ==
    /\ subject \in {"run", "page", "timeline"} /\ Init /\ PageInit /\ TraceInit
    /\ subject # "run" => lineup = Together

\* A step of this subject; the others are left alone.
Run(Act) == subject = "run" /\ Act /\ UNCHANGED <<subject, pageVars, traceVars>>
Page(Act) == subject = "page" /\ Act /\ UNCHANGED <<subject, vars, traceVars>>
Timeline(Act) == subject = "timeline" /\ Act /\ UNCHANGED <<subject, vars, pageVars>>

RunStep == Run(Next)
PageStep == Page(PageNext)
TimelineStep == Timeline(TraceNext)
ArenaNext == RunStep \/ PageStep \/ TimelineStep

\* The run has the fairness of its own specification.
ArenaSpec ==
    /\ ArenaInit /\ [][ArenaNext]_arenaVars
    /\ \A r \in Runs : WF_arenaVars(Run(Generator(r) /\ UNCHANGED lineup))
    /\ \A c \in Columns : /\ WF_arenaVars(Run(Worker(c) /\ UNCHANGED lineup))
                          /\ WF_arenaVars(Run(Driver(c) /\ UNCHANGED lineup))

ArenaTypeOK ==
    CASE subject = "run" -> TypeOK
      [] subject = "page" -> PageTypeOK
      [] OTHER -> TraceTypeOK

\* What a column's terminal event says is true; what the page shows of turns, columns and
\* questions is what has happened to them; and a timeline tells the texts and the results
\* of its run.
RunsToldAndShown ==
    CASE subject = "run" -> TerminalsTold
      [] subject = "page" -> PageTellsHistory
      [] OTHER -> TimelineTellsTheRun
=============================================================================
