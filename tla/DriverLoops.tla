----------------------------- MODULE DriverLoops -----------------------------
(***************************************************************************)
(* The drivers that run their own loop: native with its reasoning modes,      *)
(* plan_execute and self_critique. Each calls the model, runs the tools that   *)
(* the answer asks for and decides whether to call it again. The model may     *)
(* say anything, call tools in a phase that offers none, or say nothing; which *)
(* tools exist and what they do is left open. A text is one of a few words.    *)
(* Steps, tokens, usage and the texts of prompts are left out.                *)
(***************************************************************************)
EXTENDS Naturals, Sequences, FiniteSets

CONSTANTS Words,        \* what an answer may say
          Scores,       \* scores of a plan; one that cannot be read is 0
          Budgets,      \* values of max_steps, 0 for unlimited
          Width,        \* totWidth
          Attempts,     \* selfConsistencyAttempts
          MaxReflexion, \* maxReflexion
          MaxRedirects, \* CRITIC_MAX_REDIRECTS
          MaxBusy,      \* bound: turns that ask for tools
          MaxAsked      \* bound: calls of one turn

ASSUME DriverAssumption ==
    /\ {Width, Attempts, MaxReflexion, MaxRedirects, MaxAsked} \subseteq Nat \ {0}
    /\ MaxBusy \in Nat /\ Budgets \subseteq Nat /\ Scores \subseteq Nat
    /\ "nothing" \notin Words

Drivers == {"native", "plan_execute", "self_critique"}
Modes == {"react", "cot_tool", "tot", "reflexion", "self_consistency"}

VARIABLES
    profile,  \* driver, mode and budget of the column
    doing,    \* "plans", "turn", "tools", "batch critic", "critic", "replan", "voted", ...
    loop,     \* turns of this attempt, quiet turns in a row, replans left, redirects
    reasons,  \* ReasoningState: phase, plans and scores of the branches, rounds
    batch,    \* calls of the last turn that were not looked at
    answer,   \* the answer projection of the attempt: of a "thought" or an "observation"
    samples,  \* answers of the attempts so far
    attempts, \* attempts that have begun
    plan,     \* the plan that was mounted, 0 for none, and the scores it was chosen by
    idle,     \* history: model turns without a tool since the last tool
    busy      \* bound: turns that asked for tools

driverVars == <<profile, doing, loop, reasons, batch, answer, samples, attempts, plan, idle, busy>>

Unsaid == [from |-> "nothing", word |-> "nothing"]

-----------------------------------------------------------------------------
(* Choices.                                                                 *)

\* The place of the largest weight, the first one of several: what the loops of both
\* choices below are left with.
Leading(weights) ==
    LET best[i \in 1 .. Len(weights)] ==
          IF i = 1 THEN 1 ELSE IF weights[i] > weights[best[i - 1]] THEN i ELSE best[i - 1]
    IN best[Len(weights)]

\* selectBestPlan, and the same loop in plannerPass.
BestPlan(scores) == Leading(scores)

\* majorityVote: the groups in the order of their first answers; a later one must be larger.
Votes(answers, i) == Cardinality({j \in DOMAIN answers : answers[j] = answers[i]})
Winner(answers) == Leading([i \in DOMAIN answers |-> Votes(answers, i)])

\* replanBudgetFor and criticBudgetFor.
ReplanBudget == IF profile.mode = "reflexion" THEN 2 ELSE 1
CriticBudget == IF profile.mode = "reflexion" THEN MaxRedirects + 1 ELSE MaxRedirects

\* stepBudgetFor.
InBudget == profile.budget = 0 \/ loop.turns < profile.budget

-----------------------------------------------------------------------------
(* reasoning-state.                                                         *)

Native == profile.driver = "native"
Consistent == Native /\ profile.mode = "self_consistency"

\* createReasoningState; every attempt of self_consistency is react.
Fresh(mode) ==
    [phase |-> IF mode \in {"cot_tool", "tot"} THEN "think" ELSE "act",
     plans |-> 0, scores |-> << >>, selected |-> 0, rounds |-> 0]

\* afterLlm for a turn without tools, by mode; a turn with tools changes nothing. The
\* reply carries the score and whether it holds a word that asks for a retry.
AfterTot(r, reply) ==
    LET scores == Append(r.scores, reply.score)
    IN IF r.phase = "think" THEN [r EXCEPT !.plans = @ + 1, !.phase = "evaluate"]
       ELSE IF Len(scores) < Width THEN [r EXCEPT !.scores = scores, !.phase = "think"]
       ELSE [r EXCEPT !.scores = scores, !.selected = BestPlan(scores), !.phase = "act"]

AfterReflexion(r, reply) ==
    IF r.phase = "reflect"
    THEN IF reply.retry /\ r.rounds < MaxReflexion
         THEN [r EXCEPT !.rounds = @ + 1, !.phase = "act"] ELSE [r EXCEPT !.phase = "done"]
    ELSE [r EXCEPT !.phase = IF r.rounds < MaxReflexion THEN "reflect" ELSE "done"]

AfterLlm(r, reply) ==
    CASE profile.mode = "cot_tool" /\ r.phase = "think" -> [r EXCEPT !.phase = "act"]
      [] profile.mode = "tot" /\ r.phase \in {"think", "evaluate"} -> AfterTot(r, reply)
      [] profile.mode = "reflexion" -> AfterReflexion(r, reply)
      [] OTHER -> [r EXCEPT !.phase = "done"]

-----------------------------------------------------------------------------
\* plannerPass: branches without a text are no candidates; a planner that fails or says
\* nothing leaves no plan. Only tot scores.
Planned(scores) ==
    /\ doing = "plans" /\ doing' = "turn"
    /\ Len(scores) <= IF profile.mode = "tot" THEN Width ELSE 1
    /\ plan' = IF scores = << >> THEN plan ELSE [of |-> BestPlan(scores), scores |-> scores]
    /\ UNCHANGED <<profile, loop, reasons, batch, answer, samples, attempts, idle, busy>>

-----------------------------------------------------------------------------
(* A turn of the model: streamLlmTurn, streamExecutorTurn and the loop around. *)

LoopEnds == doing = "turn" /\ (~InBudget \/ reasons.phase = "done")
MayTurn == doing = "turn" /\ ~LoopEnds

\* thought_delta and thought_end: a turn without a text leaves the last one.
Spoken(word) == IF word = "nothing" THEN answer ELSE [from |-> "thought", word |-> word]

\* Tools run in every phase, offered or not, and leave the phase as it is.
TurnWithTools(asked, word) ==
    /\ MayTurn /\ busy < MaxBusy /\ doing' = "tools"
    /\ loop' = [loop EXCEPT !.turns = @ + 1, !.quiet = 0]
    /\ batch' = asked /\ answer' = Spoken(word) /\ idle' = 0 /\ busy' = busy + 1
    /\ UNCHANGED <<profile, reasons, samples, attempts, plan>>

\* native: the phase decides.
QuietNative(reply) ==
    /\ Native /\ doing' = "turn"
    /\ reasons' = AfterLlm(reasons, reply) /\ loop' = [loop EXCEPT !.turns = @ + 1]

\* plan_execute: the second quiet turn in a row asks for a new plan while replans are
\* left, the third ends the run.
QuietPlanned ==
    /\ profile.driver = "plan_execute"
    /\ loop' = [loop EXCEPT !.turns = @ + 1, !.quiet = @ + 1]
    /\ doing' = IF loop'.quiet >= 2 /\ loop.replans > 0 THEN "replan"
                ELSE IF loop'.quiet >= 3 THEN "leaving" ELSE "turn"
    /\ UNCHANGED reasons

\* self_critique: the critic says whether this was all.
QuietCritic ==
    /\ profile.driver = "self_critique" /\ doing' = "critic"
    /\ loop' = [loop EXCEPT !.turns = @ + 1] /\ UNCHANGED reasons

QuietTurn(word, reply) ==
    /\ MayTurn /\ (QuietNative(reply) \/ QuietPlanned \/ QuietCritic)
    /\ answer' = Spoken(word) /\ idle' = idle + 1
    /\ UNCHANGED <<profile, batch, samples, attempts, plan, busy>>

\* executeToolCalls: one call after the other; a call that is refused has no observation.
ToolAnswers(seen, word) ==
    /\ doing = "tools" /\ batch' = batch - 1
    /\ doing' = IF batch > 1 THEN "tools"
                ELSE IF profile.driver = "self_critique" THEN "batch critic" ELSE "turn"
    /\ answer' = IF ~seen \/ answer.from = "thought" THEN answer
                 ELSE IF word = "nothing" THEN Unsaid ELSE [from |-> "observation", word |-> word]
    /\ UNCHANGED <<profile, loop, reasons, samples, attempts, plan, idle, busy>>

-----------------------------------------------------------------------------
(* Second thoughts.                                                          *)

\* Slip: a replan that brings no plan costs nothing.
Replanned_ForFree(revised) ==
    /\ doing = "replan" /\ doing' = "turn"
    /\ loop' = [loop EXCEPT !.quiet = 0, !.replans = IF revised THEN @ - 1 ELSE @]
    /\ plan' = IF revised THEN [of |-> 1, scores |-> << >>] ELSE plan
    /\ UNCHANGED <<profile, reasons, batch, answer, samples, attempts, idle, busy>>

\* A replan that fails or says nothing is spent too.
Replanned(revised) ==
    /\ doing = "replan" /\ doing' = "turn"
    /\ loop' = [loop EXCEPT !.quiet = 0, !.replans = @ - 1]
    /\ plan' = IF revised THEN [of |-> 1, scores |-> << >>] ELSE plan
    /\ UNCHANGED <<profile, reasons, batch, answer, samples, attempts, idle, busy>>

\* The opinion of the critic: one that cannot be read, done or good enough, or low. After a
\* quiet turn only a redirect keeps the run going, after a batch it goes on anyway.
Critic(low) ==
    /\ doing \in {"critic", "batch critic"}
    /\ LET redirects == low /\ loop.redirects < CriticBudget
       IN /\ loop' = IF redirects THEN [loop EXCEPT !.redirects = @ + 1] ELSE loop
          /\ doing' = IF redirects \/ doing = "batch critic" THEN "turn" ELSE "leaving"
    /\ UNCHANGED <<profile, reasons, batch, answer, samples, attempts, plan, idle, busy>>

-----------------------------------------------------------------------------
(* Attempts, the vote and the end.                                           *)

\* runSelfConsistencyLoop: an attempt that has an answer is a sample, and the next one
\* starts from nothing but the steps of the run.
Sampled == IF answer = Unsaid THEN samples ELSE Append(samples, answer.word)
AttemptOver ==
    /\ LoopEnds /\ Consistent /\ attempts < Attempts
    /\ samples' = Sampled /\ attempts' = attempts + 1
    /\ answer' = Unsaid /\ reasons' = Fresh("react") /\ loop' = [loop EXCEPT !.turns = 0]
    /\ idle' = 0
    /\ UNCHANGED <<profile, doing, batch, plan, busy>>

\* selfConsistencyOutcomeEvents: the winner is the last thought of the run.
Vote ==
    /\ LoopEnds /\ Consistent /\ attempts = Attempts
    /\ doing' = "voted" /\ samples' = Sampled
    /\ answer' = IF samples' = << >> THEN answer
                 ELSE [from |-> "thought", word |-> samples'[Winner(samples')]]
    /\ UNCHANGED <<profile, loop, reasons, batch, attempts, plan, idle, busy>>

\* The loop is left and the complete goes out.
Completes ==
    /\ doing \in {"voted", "leaving"} \/ (LoopEnds /\ ~Consistent)
    /\ doing' = "completed"
    /\ UNCHANGED <<profile, loop, reasons, batch, answer, samples, attempts, plan, idle, busy>>

\* The model throws: an error, and a complete without success.
TurnFails ==
    /\ MayTurn /\ doing' = "failed"
    /\ UNCHANGED <<profile, loop, reasons, batch, answer, samples, attempts, plan, idle, busy>>

\* An AbortError, from the model or a tool, leaves the driver without a word.
DriverAborts ==
    /\ doing \in {"plans", "tools", "batch critic", "critic", "replan"} \/ MayTurn
    /\ doing' = "aborted"
    /\ UNCHANGED <<profile, loop, reasons, batch, answer, samples, attempts, plan, idle, busy>>

DriverInit ==
    /\ profile \in [driver : Drivers, mode : Modes, budget : Budgets]
    /\ doing = IF profile.driver = "plan_execute" THEN "plans" ELSE "turn"
    /\ loop = [turns |-> 0, quiet |-> 0, replans |-> ReplanBudget, redirects |-> 0]
    /\ reasons = Fresh(IF Native THEN profile.mode ELSE "react")
    /\ batch = 0 /\ answer = Unsaid /\ samples = << >> /\ attempts = 1
    /\ plan = [of |-> 0, scores |-> << >>] /\ idle = 0 /\ busy = 0

DriverNext ==
    \/ \E n \in 0 .. Width : \E scores \in [1 .. n -> Scores] : Planned(scores)
    \/ \E asked \in 1 .. MaxAsked, word \in Words \cup {"nothing"} : TurnWithTools(asked, word)
    \/ \E word \in Words \cup {"nothing"}, reply \in [score : Scores, retry : BOOLEAN] :
           QuietTurn(word, reply)
    \/ \E seen \in BOOLEAN, word \in Words \cup {"nothing"} : ToolAnswers(seen, word)
    \/ \E revised \in BOOLEAN : Replanned(revised)
    \/ \E low \in BOOLEAN : Critic(low)
    \/ AttemptOver \/ Vote \/ Completes \/ TurnFails \/ DriverAborts

DriverSpec == DriverInit /\ [][DriverNext]_driverVars

-----------------------------------------------------------------------------
DriverTypeOK ==
    /\ profile \in [driver : Drivers, mode : Modes, budget : Budgets]
    /\ doing \in {"plans", "turn", "tools", "batch critic", "critic", "replan", "voted", "leaving",
                  "completed", "failed", "aborted"}
    /\ loop.redirects \in 0 .. CriticBudget /\ loop.replans \in 0 .. ReplanBudget
    /\ batch \in 0 .. MaxAsked /\ busy \in 0 .. MaxBusy /\ attempts \in 1 .. Attempts
    /\ answer.from \in {"nothing", "thought", "observation"}
    /\ answer.word \in Words \cup {"nothing"} /\ samples \in Seq(Words)
    /\ reasons.selected \in 0 .. Width /\ plan.of \in 0 .. Width

\* How often a model that asks for no tool is called again: once per phase of the native
\* modes, three times per plan, once per redirect and for the answer.
QuietLimit ==
    CASE profile.driver = "plan_execute" -> 2 * ReplanBudget + 3
      [] profile.driver = "self_critique" -> CriticBudget + 1
      [] Native /\ profile.mode = "cot_tool" -> 2
      [] Native /\ profile.mode = "tot" -> 2 * Width + 1
      [] Native /\ profile.mode = "reflexion" -> 2 * MaxReflexion + 1
      [] OTHER -> 1

\* "An unlimited budget keeps the loop running until the model stops calling tools"
\* (native-driver.ts:118): however plans, critics and reflections answer, no driver keeps
\* calling a model that asks for no tool any more.
QuietModelsEnd == idle <= QuietLimit

\* "Selects the argmax-scored candidate index (ties break to the earliest)": whichever
\* branches stayed empty or called tools, the plan that is mounted has the best score of
\* all, no earlier one has the same, and every plan has its own score.
IsBest(choice, scores) ==
    /\ choice \in DOMAIN scores
    /\ \A i \in DOMAIN scores : scores[i] <= scores[choice]
    /\ \A i \in 1 .. choice - 1 : scores[i] < scores[choice]
BestIsMounted ==
    /\ plan.scores # << >> => IsBest(plan.of, plan.scores)
    /\ reasons.selected # 0 => IsBest(reasons.selected, reasons.scores)
    /\ reasons.plans = Len(reasons.scores) + (IF reasons.phase = "evaluate" THEN 1 ELSE 0)

\* The vote of self_consistency: the answer of the run is one of the attempts' answers, no
\* other has more votes, and one that has as many was given later.
MajorityAnswers ==
    doing = "voted" /\ samples # << >> =>
        \E i \in DOMAIN samples :
            /\ samples[i] = answer.word
            /\ \A j \in DOMAIN samples : Votes(samples, j) <= Votes(samples, i)
            /\ \A j \in 1 .. i - 1 : Votes(samples, j) < Votes(samples, i)

\* What a column relies on when its driver runs a loop of its own.
LoopsEndWell == QuietModelsEnd /\ BestIsMounted /\ MajorityAnswers
=============================================================================
