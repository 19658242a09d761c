---------------------------- MODULE BackgroundJobs ----------------------------
(***************************************************************************)
(* tools/definitions/run-job.ts over spawnBackground: the jobs of one        *)
(* workspace. Output has absolute offsets 1, 2, ...; the buffer holds the    *)
(* last JobBuffer of them. A poll shows what came since the last one, and    *)
(* when more than Threshold is not on disk it writes that to a spill file.   *)
(***************************************************************************)
EXTENDS Naturals, FiniteSets, FiniteSetsExt

CONSTANTS Jobs,        \* how many jobs are started
          MaxJobs,     \* MAX_JOBS_PER_WORKSPACE
          JobBuffer,   \* MAX_OUTPUT_CHARS
          Threshold,   \* SPILL_THRESHOLD_CHARS, which is also what a poll displays at most
          MaxOutput    \* bound: how much a job writes

ASSUME JobsAssumption ==
    /\ {Jobs, MaxOutput} \subseteq Nat /\ {MaxJobs, JobBuffer, Threshold} \subseteq Nat \ {0}

VARIABLE job  \* the jobs: process, buffer, record and what polls have told of them

jobVars == <<job>>

NoJob == [started |-> FALSE, listed |-> FALSE, running |-> FALSE, exited |-> FALSE,
          killed |-> FALSE, escalates |-> FALSE, total |-> 0, sent |-> 0, spilled |-> 0,
          shownTo |-> 0, silent |-> {}, repeated |-> {}]

\* outputStart: the offset behind which the buffer begins.
Base(j) == Max({0, job[j].total - JobBuffer})
\* alive(): neither closed nor reaped by the operating system.
Alive(j) == job[j].running /\ ~job[j].exited
Listed == {j \in 1 .. Jobs : job[j].listed}

-----------------------------------------------------------------------------
\* reapExited: a start drops the records of the jobs that have ended.
Reaped(j) == ~Alive(j)

\* start: reap, then refuse at the limit. A refused start has reaped too.
StartJob(j) ==
    LET kept == {k \in Listed : ~Reaped(k)}
        table == [k \in 1 .. Jobs |-> [job[k] EXCEPT !.listed = k \in kept]] IN
    /\ ~job[j].started /\ \A earlier \in 1 .. j - 1 : job[earlier].started
    /\ job' = IF Cardinality(kept) < MaxJobs
              THEN [table EXCEPT ![j] = [NoJob EXCEPT !.started = TRUE, !.listed = TRUE, !.running = TRUE]]
              ELSE table

\* What one poll tells: the delta, in full or without its middle, and the gap it names.
Delta(j) == Max({job[j].sent, Base(j)}) + 1 .. job[j].total
Unspilled(j) == Max({job[j].spilled, Base(j)}) + 1 .. job[j].total
Dropped(j) == Max({0, Base(j) - Min({job[j].sent, job[j].spilled})})
\* truncate: a long delta keeps its ends only. The model keeps the last character.
Displayed(j) == IF Cardinality(Delta(j)) <= Threshold THEN Delta(j) ELSE {job[j].total}

\* Slip: the cursor moves by the length of the delta, and the head that was trimmed is
\* not counted.
NextSent_Lags(j) == job[j].sent + Cardinality(Delta(j))

\* The cursor after a poll: behind all there is.
NextSent(j) == job[j].total

\* The record after a poll that names what it found elsewhere. History: how far output
\* was passed over, what was passed over without a word, what was shown again as new.
Polled(j, elsewhere) ==
    LET named == Base(j) - Dropped(j) + 1 .. Base(j)
        passed == job[j].shownTo + 1 .. job[j].total IN
    [job[j] EXCEPT !.sent = NextSent(j), !.shownTo = job[j].total,
       !.silent = @ \cup (passed \ (Displayed(j) \cup named \cup elsewhere)),
       !.repeated = @ \cup (Displayed(j) \ passed)]

\* renderPoll, of a listed job that may have ended. What the cap of a spill file cuts off
\* is named in the file. The write may fail; the note says so and the cursor stays.
Poll(j) ==
    /\ job[j].listed
    /\ IF Delta(j) # {} /\ Cardinality(Unspilled(j)) > Threshold
       THEN \/ job' = [job EXCEPT ![j] = [Polled(j, Unspilled(j)) EXCEPT !.spilled = job[j].total]]
            \/ job' = [job EXCEPT ![j] = Polled(j, Unspilled(j))]
       ELSE job' = [job EXCEPT ![j] = Polled(j, {})]

\* kill: a signal now and a harder one later, while the pipes are open.
Kill(j) ==
    /\ job[j].listed
    /\ job' = [job EXCEPT ![j].killed = TRUE, ![j].escalates = job[j].running]

\* The release of the workspace: every listed job is killed, and the records go.
Dispose ==
    /\ Listed # {}
    /\ job' = [j \in 1 .. Jobs |-> [job[j] EXCEPT !.listed = FALSE,
                                      !.escalates = @ \/ (j \in Listed /\ job[j].running)]]

-----------------------------------------------------------------------------
\* The process: it writes, it exits, and its pipes close later, when nobody holds them.
Output(j) ==
    /\ job[j].running /\ job[j].total < MaxOutput
    /\ \E n \in 1 .. MaxOutput - job[j].total : job' = [job EXCEPT ![j].total = @ + n]

Exits(j) ==
    /\ Alive(j)
    /\ job' = [job EXCEPT ![j].exited = TRUE]

Closes(j) ==
    /\ job[j].running /\ job[j].exited
    /\ job' = [job EXCEPT ![j].running = FALSE, ![j].escalates = FALSE]

JobsInit == job = [j \in 1 .. Jobs |-> NoJob]

JobsNext ==
    \/ \E j \in 1 .. Jobs :
         StartJob(j) \/ Poll(j) \/ Kill(j) \/ Output(j) \/ Exits(j) \/ Closes(j)
    \/ Dispose

\* A job under a SIGKILL ends. What holds its pipes is not the job's to decide.
JobEnds == \E j \in 1 .. Jobs : job[j].escalates /\ Exits(j)
JobsSpec == JobsInit /\ [][JobsNext]_jobVars /\ WF_jobVars(JobEnds)

-----------------------------------------------------------------------------
JobsTypeOK ==
    \A j \in 1 .. Jobs :
        /\ {job[j].sent, job[j].shownTo} \subseteq 0 .. job[j].total /\ job[j].spilled \in 0 .. job[j].total
        /\ job[j].listed => job[j].started

\* "A cursor behind the buffer head means the cap already dropped output; report the gap
\* loudly", and "polls return the delta": whatever a poll passes over is displayed, put
\* into a spill file or named as missing, whichever of buffer cap, display cap and failed
\* write hit; and nothing is displayed as new a second time.
PollsAreHonest == \A j \in 1 .. Jobs : job[j].silent = {} /\ job[j].repeated = {}

\* "Jobs die with their workspace; per-workspace live-job ceiling": no more than the
\* ceiling live in the registry, and one that is in no registry any more is dying.
JobsAreBounded ==
    /\ Cardinality({j \in Listed : Alive(j)}) <= MaxJobs
    /\ \A j \in 1 .. Jobs : Alive(j) /\ ~job[j].listed => job[j].escalates

\* What a model and an operator rely on.
JobsTellAndEnd == PollsAreHonest /\ JobsAreBounded
=============================================================================
