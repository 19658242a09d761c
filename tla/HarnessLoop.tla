----------------------------- MODULE HarnessLoop -----------------------------
(***************************************************************************)
(* harness/verification/loop.ts inside agent-execution.ts: attempts of one   *)
(* driver, judged and repeated, in one stream of events. The judge reads the *)
(* answer of the attempt, the reader of the stream the answer of the whole   *)
(* stream; both use the projection of contracts/answer-from-events.ts. A     *)
(* text is the set of attempts whose words it holds.                         *)
(***************************************************************************)
EXTENDS Naturals, Sequences

CONSTANTS MaxRetries,  \* HARNESS_MAX_RETRIES or its override
          MaxSaid      \* bound: answer events of one attempt

ASSUME HarnessAssumption == MaxRetries \in Nat \ {0} /\ MaxSaid \in Nat

VARIABLES
    level,     \* the harness level, other than bare
    phase,     \* where the execution stands
    attempt,   \* attempts so far
    feedback,  \* the attempt whose rejection the feedback tells of, 0 for none
    own,       \* the projection over the attempt's events
    told,      \* the projection over all events, as the reader has it
    held,      \* heldComplete: verdict "none", "ok" or "failed", and whose it is
    out,       \* the errors and completes that went out
    cancelled,   \* the signal of the run
    heeded,    \* history: the feedback each attempt has read
    said,      \* bound: answer events of this attempt
    accepted   \* history: what the judge let pass, {} for nothing

harnessVars == <<level, phase, attempt, feedback, own, told, held, out, cancelled, heeded, said, accepted>>

Silent == [thought |-> {}, streaming |-> {}, obs |-> {}]

\* AnswerProjection.push. An end without text keeps what was streamed.
Push(p, event, n) ==
    CASE event = "thought" -> [p EXCEPT !.thought = {n}, !.streaming = {n}]
      [] event = "delta"   -> [p EXCEPT !.thought = p.streaming \cup {n}, !.streaming = @ \cup {n}]
      [] event = "end"     -> [p EXCEPT !.thought = {n}, !.streaming = {}]
      [] event = "empty end" -> [p EXCEPT !.thought = IF p.streaming # {} THEN p.streaming ELSE @,
                                          !.streaming = {}]
      [] event = "observation" -> [p EXCEPT !.obs = {n}]

\* answer(): the last thought, else the last observation.
AnswerOf(p) == IF p.thought # {} THEN p.thought ELSE p.obs

IsLast == attempt >= MaxRetries

-----------------------------------------------------------------------------
\* The loop starts an attempt, the first one without feedback, and the driver reads it.
NextAttempt ==
    /\ phase = "looping" /\ phase' = "driving"
    /\ attempt' = attempt + 1 /\ said' = 0 /\ own' = Silent
    /\ feedback' = IF attempt = 0 THEN 0 ELSE feedback
    /\ heeded' = [heeded EXCEPT ![attempt + 1] = feedback']
    /\ UNCHANGED <<level, told, held, out, cancelled, accepted>>

\* An event of the driver that the answer depends on.
Says(event) ==
    /\ phase = "driving" /\ said < MaxSaid
    /\ said' = said + 1
    /\ own' = Push(own, event, attempt) /\ told' = Push(told, event, attempt)
    /\ UNCHANGED <<level, phase, attempt, feedback, held, out, cancelled, heeded, accepted>>

\* An error event, which is forwarded whether the attempt is the last or not.
Errs ==
    /\ phase = "driving" /\ said < MaxSaid
    /\ said' = said + 1
    /\ out' = Append(out, [kind |-> "error", by |-> attempt])
    /\ UNCHANGED <<level, phase, attempt, feedback, own, told, held, cancelled, heeded, accepted>>

\* The complete of an attempt that may be repeated is suppressed; the last one's is held
\* back by the execution.
Kept(verdict) == IF IsLast THEN [verdict |-> verdict, by |-> attempt] ELSE held

\* The attempt's stream ends, with or without a complete of its own.
AttemptEnds ==
    /\ phase = "driving" /\ phase' = "judging"
    /\ \E verdict \in {"none", "ok", "failed"} : held' = Kept(verdict)
    /\ UNCHANGED <<level, attempt, feedback, own, told, out, cancelled, heeded, said, accepted>>

\* The judge's verdict; without an answer there is nothing to judge. A rejected attempt
\* is repeated, at level verify without feedback.
Judge ==
    /\ phase = "judging" /\ ~cancelled
    /\ \E passed \in BOOLEAN :
         /\ passed => AnswerOf(own) # {}
         /\ accepted' = IF passed THEN AnswerOf(own) ELSE accepted
         /\ phase' = IF passed \/ IsLast THEN "settling"
                     ELSE IF level = "verify" THEN "looping" ELSE "reflecting"
         /\ feedback' = IF phase' = "looping" THEN 0 ELSE feedback
    /\ UNCHANGED <<level, attempt, own, told, held, out, cancelled, heeded, said>>

\* Reflection on the failure, and at self_evolve an edit besides. What the sanitizer
\* leaves of it, possibly nothing, is the feedback.
Reflect ==
    /\ phase = "reflecting" /\ ~cancelled /\ phase' = "looping"
    /\ feedback' \in {0, attempt}
    /\ UNCHANGED <<level, attempt, own, told, held, out, cancelled, heeded, said, accepted>>

\* The loop is over: the structured profile may restate the answer, unless the run's own
\* verdict is failed, and the held or a synthesized complete goes out.
Settle ==
    /\ phase = "settling" /\ ~cancelled /\ phase' = "done"
    /\ told' = [told EXCEPT !.thought = IF held.verdict = "failed" THEN @ ELSE AnswerOf(told)]
    /\ out' = Append(out, IF held.verdict = "none" THEN [kind |-> "ok", by |-> 0]
                             ELSE [kind |-> held.verdict, by |-> held.by])
    /\ UNCHANGED <<level, attempt, feedback, own, held, cancelled, heeded, said, accepted>>

\* The driver, the judge or the reflection throws: an abort leaves the execution, any
\* other failure is an error and a failed complete.
Throws ==
    /\ phase \in {"driving", "judging", "reflecting", "settling"}
    /\ phase \in {"judging", "settling"} => cancelled
    /\ phase' = IF cancelled THEN "left" ELSE "done"
    /\ out' = IF cancelled THEN out
              ELSE out \o <<[kind |-> "error", by |-> attempt], [kind |-> "failed", by |-> attempt]>>
    /\ UNCHANGED <<level, attempt, feedback, own, told, held, cancelled, heeded, said, accepted>>

AbortRun ==
    /\ ~cancelled /\ phase \notin {"done", "left"} /\ cancelled' = TRUE
    /\ UNCHANGED <<level, phase, attempt, feedback, own, told, held, out, heeded, said, accepted>>

HarnessInit ==
    /\ level \in {"verify", "reflect", "self_evolve"}
    /\ phase = "looping" /\ attempt = 0 /\ feedback = 0
    /\ own = Silent /\ told = Silent /\ held = [verdict |-> "none", by |-> 0] /\ out = << >>
    /\ cancelled = FALSE /\ heeded = [n \in 1 .. MaxRetries |-> 0]
    /\ said = 0 /\ accepted = {}

HarnessNext ==
    \/ NextAttempt \/ Errs \/ AttemptEnds \/ Judge \/ Reflect \/ Settle \/ Throws \/ AbortRun
    \/ \E event \in {"thought", "delta", "end", "empty end", "observation"} : Says(event)

HarnessSpec == HarnessInit /\ [][HarnessNext]_harnessVars

-----------------------------------------------------------------------------
HarnessTypeOK ==
    /\ level \in {"verify", "reflect", "self_evolve"}
    /\ phase \in {"looping", "driving", "judging", "reflecting", "settling", "done", "left"}
    /\ attempt \in 0 .. MaxRetries /\ feedback \in 0 .. MaxRetries
    /\ held.verdict \in {"none", "ok", "failed"} /\ said \in 0 .. MaxSaid
    /\ heeded \in [1 .. MaxRetries -> 0 .. MaxRetries]

IsComplete(i) == out[i].kind # "error"

\* "Suppress intermediate completes so consumers see one column completion": one complete
\* at the very end and none before it, that of the last attempt or a synthesized one; an
\* error on the way is no end, and a run that was aborted completes nothing.
OneCompletion ==
    /\ \A i \in 1 .. Len(out) : IsComplete(i) =>
         i = Len(out) /\ phase = "done" /\ out[i].by \in {0, attempt}
    /\ phase = "done" => out # << >> /\ IsComplete(Len(out))

\* Each attempt reads what was learnt of the attempt before it and of no other, and at
\* level verify nothing.
FeedbackIsFresh ==
    \A n \in 1 .. MaxRetries :
        heeded[n] # 0 => heeded[n] = n - 1 /\ level # "verify"

\* What the reader takes for the answer holds words of the last attempt, if that attempt
\* has any, and a rejected attempt never speaks after it.
LastAttemptIsHeard ==
    own.thought # {} => attempt \in AnswerOf(told)

\* What a column's reader relies on when attempts are repeated.
AttemptsTellOneStory == OneCompletion /\ FeedbackIsFresh /\ LastAttemptIsHeard
=============================================================================
