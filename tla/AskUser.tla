------------------------------- MODULE AskUser -------------------------------
(***************************************************************************)
(* runtime/ask-user-channel.ts: the ask_user batches that wait for a human.  *)
(* A column or a builder session has one key, and the batch asked last under *)
(* a key is the one that answers reach; an earlier one that still waits is   *)
(* superseded, and keeps its timer and its abort listener.                   *)
(***************************************************************************)
EXTENDS Naturals, FiniteSets

CONSTANTS Batches,    \* how many calls of awaitAnswers, numbered in their order
          Keys,       \* agent ids and session ids
          Questions   \* question ids; tools number them, so batches share ids

ASSUME AskAssumption == Batches \in Nat /\ Keys # {} /\ IsFiniteSet(Questions)

NoBatch == 0

VARIABLES
    batch,    \* what each call asked and what became of it
    waitsOn,  \* the map "pending": the batch that answers of a key reach
    stopped,  \* keys whose run has been aborted
    newest    \* history: the batch asked last under each key

askVars == <<batch, waitsOn, stopped, newest>>

NotAsked == [asked |-> FALSE, key |-> CHOOSE k \in Keys : TRUE, questions |-> {},
             answers |-> {}, settled |-> FALSE, reply |-> "none", timer |-> FALSE]
Live(b) == batch[b].asked /\ ~batch[b].settled

\* Slip: whoever settles takes the key's entry along, its successor's too.
Settled_Evicts(table, waiting, who, reply) ==
    /\ batch' = [b \in 1 .. Batches |-> IF b \in who /\ ~table[b].settled
         THEN [table[b] EXCEPT !.settled = TRUE, !.timer = FALSE, !.reply = reply] ELSE table[b]]
    /\ waitsOn' = [k \in Keys |-> IF \E b \in who : table[b].key = k THEN NoBatch ELSE waiting[k]]

\* settle, for each of these batches: the first call wins, clears the timer, leaves
\* the map if the entry is still its own, and resolves the tool's promise.
Settled(table, waiting, who, reply) ==
    /\ batch' = [b \in 1 .. Batches |-> IF b \in who /\ ~table[b].settled
         THEN [table[b] EXCEPT !.settled = TRUE, !.timer = FALSE, !.reply = reply] ELSE table[b]]
    /\ waitsOn' = [k \in Keys |-> IF waiting[k] \in who THEN NoBatch ELSE waiting[k]]

-----------------------------------------------------------------------------
\* The batches once b is registered; the predecessor only leaves the map.
Registered(b, k, questions) ==
    [batch EXCEPT ![b] =
       [NotAsked EXCEPT !.asked = TRUE, !.key = k, !.questions = questions, !.timer = TRUE]]

\* The signal fired before the listener was there: settled on the spot.
AbortedFirst(k) == k \in stopped

\* awaitAnswers: register, and settle at once under a signal that has fired.
Ask(b, k, questions) ==
    /\ ~batch[b].asked /\ \A earlier \in 1 .. b - 1 : batch[earlier].asked
    /\ newest' = [newest EXCEPT ![k] = b]
    /\ IF AbortedFirst(k)
       THEN Settled(Registered(b, k, questions), [waitsOn EXCEPT ![k] = b], {b}, "deferred")
       ELSE batch' = Registered(b, k, questions) /\ waitsOn' = [waitsOn EXCEPT ![k] = b]
    /\ UNCHANGED stopped

\* Every question of the batch has its answer.
Complete(table, b) == Settled(table, waitsOn, {b}, "answered")

\* answer: refused without a live batch that holds the question; the last answer
\* settles. An answer may be given again before that.
Answer(k, q) ==
    LET b == waitsOn[k] IN
    /\ b # NoBatch /\ q \in batch[b].questions
    /\ LET table == [batch EXCEPT ![b].answers = @ \cup {q}] IN
       IF Cardinality(table[b].answers) >= Cardinality(table[b].questions)
       THEN Complete(table, b)
       ELSE batch' = table /\ UNCHANGED waitsOn
    /\ UNCHANGED <<stopped, newest>>

\* The wait is over.
Deadline(b) ==
    /\ batch[b].timer
    /\ Settled(batch, waitsOn, {b}, "deferred")
    /\ UNCHANGED <<stopped, newest>>

\* The run of a key is aborted: every batch that listens is settled, superseded or not.
AbortKey(k) ==
    /\ k \notin stopped
    /\ stopped' = stopped \cup {k}
    /\ Settled(batch, waitsOn, {b \in 1 .. Batches : Live(b) /\ batch[b].key = k}, "deferred")
    /\ UNCHANGED newest

AskInit ==
    /\ batch = [b \in 1 .. Batches |-> NotAsked]
    /\ waitsOn = [k \in Keys |-> NoBatch] /\ newest = waitsOn
    /\ stopped = {}

AskNext ==
    \/ \E b \in 1 .. Batches, k \in Keys, questions \in (SUBSET Questions) \ {{}} : Ask(b, k, questions)
    \/ \E k \in Keys : AbortKey(k) \/ \E q \in Questions : Answer(k, q)
    \/ \E b \in 1 .. Batches : Deadline(b)

\* Timers fire. Nobody has to answer or abort.
Deadlines == \E b \in 1 .. Batches : Deadline(b)
AskSpec == AskInit /\ [][AskNext]_askVars /\ WF_askVars(Deadlines)

-----------------------------------------------------------------------------
AskTypeOK ==
    /\ batch \in [1 .. Batches -> [asked : BOOLEAN, key : Keys, questions : SUBSET Questions,
                              answers : SUBSET Questions, settled : BOOLEAN,
                              reply : {"none", "answered", "deferred"}, timer : BOOLEAN]]
    /\ waitsOn \in [Keys -> 0 .. Batches] /\ newest \in [Keys -> 0 .. Batches]
    /\ stopped \subseteq Keys

\* "Settle the batch once every question has one": a tool gets the human's answers if
\* and only if each of its own questions has one, although batches share ids and replace
\* each other; a settled batch has its reply, so no tool waits for a settled one; and a
\* stopped run waits for no human, in batches asked before and after the abort.
RepliesComplete ==
    \A b \in 1 .. Batches : batch[b].asked =>
        /\ batch[b].settled <=> batch[b].reply # "none"
        /\ batch[b].reply = "answered" <=> batch[b].answers = batch[b].questions
        /\ Live(b) => batch[b].key \notin stopped

\* "A superseded batch must not evict its successor": the batch asked last under a key
\* can be answered until it is settled, whatever deadline or abort ends an earlier one.
NewestIsReachable ==
    \A k \in Keys :
        waitsOn[k] = IF newest[k] # NoBatch /\ Live(newest[k]) THEN newest[k] ELSE NoBatch

\* What a tool that asks relies on, and what a human who answers relies on.
AnswersArrive == RepliesComplete /\ NewestIsReachable

\* "Waits for every answer (or the deadline / abort), and always settles": a superseded
\* batch too, which no answer can reach any more.
EveryAskEnds ==
    (\E b \in 1 .. Batches : Live(b)) ~> (\A b \in 1 .. Batches : ~Live(b))
=============================================================================
