------------------------------ MODULE ArenaPage ------------------------------
(***************************************************************************)
(* The arena page of the browser: useArenaStream (one event stream at a      *)
(* time into the columns), useHistoryCommit (a settled turn into the         *)
(* transcripts), useColumnSessions and the handlers of ArenaClient. A stream *)
(* outlives the turn: it stays open for the report while the next turn may   *)
(* already be asked for. Runs are numbered in the order they are asked for.  *)
(***************************************************************************)
EXTENDS Naturals, Sequences, FiniteSets

CONSTANTS Labels,    \* column labels
          Selections,   \* the sets of columns a user may ask for
          Eventful,  \* bound: the columns that may tell errors and ask the user
          MaxRuns,   \* bound: turns asked for
          MaxPairs   \* pairs of messages a transcript keeps

ASSUME PageAssumption ==
    /\ Selections \subseteq (SUBSET Labels) \ {{}} /\ Eventful \subseteq Labels
    /\ MaxRuns \in Nat /\ MaxPairs \in Nat \ {0}

VARIABLES
    running,      \* the page shows a running turn
    pendingTurn,  \* the run whose turn is to be committed, 0 for none
    newest,       \* runSeqRef
    expected,       \* the columns the newest run asked for
    turnOf,       \* currentTurnsRef: the number of the turn in each column
    streaming,    \* the newest run's stream is open
    torn,         \* runs whose stream has been aborted and has not returned yet
    settled,      \* columns the newest stream has completed
    column,       \* what the page shows of each column
    transcript,   \* the committed pairs of each column
    asks,         \* columns with an open question window
    report,       \* the run whose comparison is shown, 0 for none
    begun,        \* the server: columns of the newest run that have told anything
    fate          \* history: what became of each run

pageVars == <<running, pendingTurn, newest, expected, turnOf, streaming, torn, settled,
              column, transcript, asks, report, begun, fate>>
streamVars == <<newest, expected, turnOf, settled, begun>>

Absent == [there |-> FALSE, events |-> {}, metrics |-> "none", error |-> 0]
Shown(kind, l) == [kind |-> kind, run |-> newest, turn |-> turnOf[l]]

\* deriveTurn: the user messages of the transcript, plus one; the server counts the same.
TurnAfter(pairs) == Len(pairs) + 1

\* trimToBudget.
Budgeted(pairs) == IF Len(pairs) > MaxPairs THEN Tail(pairs) ELSE pairs

\* stripColumnFromTurn: earlier turns stay, this one and what it led to goes.
Stripped(shown, turn) ==
    [shown EXCEPT !.events = {e \in shown.events : e.turn < turn}, !.metrics = "none", !.error = 0]

StripAll == column' = [l \in Labels |-> Stripped(column[l], turnOf[l])]

\* extractFinalAnswer, or the error, or no reply: the run it stems from. A later text of
\* the same turn replaces an earlier one, which is of the same run.
LastTurn(shown) == CHOOSE n \in {e.turn : e \in shown.events} : \A e \in shown.events : e.turn <= n
AnswerShown(shown) ==
    LET texts == {e \in shown.events : e.kind = "text" /\ e.turn = LastTurn(shown)} IN
    IF shown.events # {} /\ texts # {} THEN (CHOOSE e \in texts : TRUE).run ELSE shown.error

\* An aborted stream returns in the microtasks of the abort, before anything else.
AtRest == torn = {}
AllSettled ==
    /\ \E l \in Labels : column[l].there
    /\ \A l \in Labels : column[l].there => column[l].metrics # "none" \/ column[l].error # 0
\* The commit effect runs after a render; before that the page still shows the old state.
CommitDue == pendingTurn # 0 /\ ~running /\ AllSettled
UserIsFree == AtRest /\ ~running /\ ~CommitDue

-----------------------------------------------------------------------------
\* runArena and the start of run: the previous stream is aborted, wherever it is.
AskTurn(labels) ==
    /\ UserIsFree /\ newest < MaxRuns
    /\ newest' = newest + 1 /\ pendingTurn' = newest + 1
    /\ running' = TRUE /\ streaming' = TRUE /\ report' = 0 /\ asks' = {}
    /\ expected' = labels /\ settled' = {} /\ begun' = {}
    /\ turnOf' = [l \in Labels |-> IF l \in labels THEN TurnAfter(transcript[l]) ELSE 1]
    /\ column' = [l \in Labels |-> IF l \notin labels THEN Absent
                                   ELSE [Stripped(column[l], turnOf'[l]) EXCEPT !.there = TRUE]]
    /\ torn' = IF streaming THEN {newest} ELSE {}
    /\ UNCHANGED <<transcript, fate>>

\* "Sequence guard."
StillMine(r) == r = newest

\* An aborted stream returns: its teardown, and then its runArena, which forgets the
\* turn that is pending, its own or not.
Return(r) ==
    /\ r \in torn /\ torn' = torn \ {r}
    /\ IF StillMine(r) THEN running' = FALSE /\ asks' = {} ELSE UNCHANGED <<running, asks>>
    /\ pendingTurn' = 0
    /\ UNCHANGED <<streamVars, streaming, column, transcript, report, fate>>

\* A message of the newest stream reaches applyEvent.
Told(l) == AtRest /\ streaming /\ l \in expected \ settled

\* The banner of a column, or a text of it: an answer, a call or an output.
Text(l, kind) ==
    /\ Told(l) /\ (kind = "banner" \/ l \in begun)
    /\ begun' = begun \cup {l}
    /\ column' = [column EXCEPT ![l].there = TRUE, ![l].events = @ \cup {Shown(kind, l)}]
    /\ UNCHANGED <<running, pendingTurn, newest, expected, turnOf, streaming, torn, settled,
                   transcript, asks, report, fate>>

\* ask_user opens the column's window; an observation closes it, and so does the user.
AskHuman(l) ==
    /\ Told(l) /\ l \in begun \cap Eventful
    /\ asks' = asks \cup {l}
    /\ UNCHANGED <<running, pendingTurn, streamVars, streaming, torn, column, transcript, report, fate>>

Answered(l) ==
    /\ AtRest /\ l \in asks /\ asks' = asks \ {l}
    /\ UNCHANGED <<running, pendingTurn, streamVars, streaming, torn, column, transcript, report, fate>>

\* An error of a column. An attempt that is repeated tells one, too.
ColumnError(l) ==
    /\ Told(l) /\ l \in Eventful
    /\ begun' = begun \cup {l} /\ asks' = asks \ {l}
    /\ column' = [column EXCEPT ![l].there = TRUE, ![l].error = newest,
                                ![l].events = @ \cup {Shown("error", l)}]
    /\ UNCHANGED <<running, pendingTurn, newest, expected, turnOf, streaming, torn, settled,
                   transcript, report, fate>>

\* The complete of a column; the last one ends the turn, whatever the stream still does.
Complete(l, ok) ==
    /\ Told(l) /\ l \in begun
    /\ settled' = settled \cup {l} /\ asks' = asks \ {l}
    /\ running' = IF settled' = expected THEN FALSE ELSE running
    /\ fate' = IF settled' = expected THEN [fate EXCEPT ![newest] = "clean"] ELSE fate
    /\ column' = [column EXCEPT ![l].there = TRUE,
                                ![l].metrics = IF ok THEN "ok" ELSE "failed",
                                ![l].error = IF ok THEN 0 ELSE @]
    /\ UNCHANGED <<pendingTurn, newest, expected, turnOf, streaming, torn, transcript, report, begun>>

\* An error of the whole run: the turn is forgotten and stripped, the stream aborted.
SystemError ==
    /\ AtRest /\ streaming /\ settled # expected
    /\ fate' = [fate EXCEPT ![newest] = "failed"]
    /\ pendingTurn' = 0 /\ running' = FALSE
    /\ streaming' = FALSE /\ torn' = torn \cup {newest}
    /\ StripAll
    /\ UNCHANGED <<streamVars, transcript, asks, report>>

\* The comparison follows when every column is done.
Report ==
    /\ AtRest /\ streaming /\ settled = expected
    /\ report' = newest
    /\ UNCHANGED <<running, pendingTurn, streamVars, streaming, torn, column, transcript, asks, fate>>

\* The stream ends. Without every column it was a disconnect; a thrown failure counts as
\* one at any time. Only then the pending turn is forgotten.
StreamEnds(thrown) ==
    /\ AtRest /\ streaming /\ streaming' = FALSE
    /\ running' = FALSE /\ asks' = {}
    /\ IF thrown \/ settled # expected
       THEN /\ pendingTurn' = 0
            /\ fate' = IF pendingTurn = newest THEN [fate EXCEPT ![newest] = "failed"] ELSE fate
       ELSE UNCHANGED <<pendingTurn, fate>>
    /\ UNCHANGED <<streamVars, torn, column, transcript, report>>

\* cancelTurn.
CancelTurn == 0

\* handleStop: cancelRun and cancelTurn. The button is there while the page shows the
\* turn running.
Stop ==
    /\ AtRest /\ (running \/ CommitDue)
    /\ fate' = [fate EXCEPT ![newest] = "stopped"]
    /\ pendingTurn' = CancelTurn /\ running' = FALSE /\ asks' = {} /\ report' = 0
    /\ streaming' = FALSE /\ torn' = IF streaming THEN {newest} ELSE {}
    /\ StripAll
    /\ UNCHANGED <<streamVars, transcript>>

\* pushColumnTurn of a column that has settled.
Committed(l) ==
    IF column[l].there
    THEN Budgeted(Append(transcript[l], [run |-> pendingTurn, answer |-> AnswerShown(column[l])]))
    ELSE transcript[l]

\* The commit effect of useHistoryCommit.
CommitTurn ==
    /\ AtRest /\ CommitDue
    /\ pendingTurn' = 0
    /\ transcript' = [l \in Labels |-> Committed(l)]
    /\ UNCHANGED <<running, streamVars, streaming, torn, column, asks, report, fate>>

\* copyTranscriptToAll, onto the columns shown.
CopyTranscript(l) ==
    /\ UserIsFree /\ transcript[l] # << >>
    /\ transcript' = [k \in Labels |-> IF column[k].there THEN transcript[l] ELSE transcript[k]]
    /\ UNCHANGED <<running, pendingTurn, streamVars, streaming, torn, column, asks, report, fate>>

\* clearConversation or another dimension: columns and transcripts go. The stream, if it
\* is still open for its report, is left alone.
Clear ==
    /\ UserIsFree /\ (\E l \in Labels : column[l].there)
    /\ column' = [l \in Labels |-> Absent] /\ transcript' = [l \in Labels |-> << >>]
    /\ pendingTurn' = 0 /\ report' = 0
    /\ UNCHANGED <<running, streamVars, streaming, torn, asks, fate>>

PageInit ==
    /\ running = FALSE /\ pendingTurn = 0 /\ newest = 0 /\ expected = {} /\ settled = {}
    /\ turnOf = [l \in Labels |-> 1] /\ streaming = FALSE /\ torn = {}
    /\ column = [l \in Labels |-> Absent] /\ transcript = [l \in Labels |-> << >>]
    /\ asks = {} /\ report = 0 /\ begun = {}
    /\ fate = [r \in 1 .. MaxRuns |-> "open"]

PageNext ==
    \/ \E labels \in Selections : AskTurn(labels)
    \/ \E r \in 1 .. MaxRuns : Return(r)
    \/ \E l \in Labels :
         \/ \E kind \in {"banner", "text"} : Text(l, kind)
         \/ AskHuman(l) \/ Answered(l) \/ ColumnError(l) \/ CopyTranscript(l)
         \/ \E ok \in BOOLEAN : Complete(l, ok)
    \/ \E thrown \in BOOLEAN : StreamEnds(thrown)
    \/ SystemError \/ Report \/ Stop \/ CommitTurn \/ Clear

PageSpec == PageInit /\ [][PageNext]_pageVars

-----------------------------------------------------------------------------
PageTypeOK ==
    /\ {running, streaming} \subseteq BOOLEAN
    /\ {pendingTurn, newest, report} \subseteq 0 .. MaxRuns /\ torn \subseteq 1 .. MaxRuns
    /\ {settled, begun} \subseteq SUBSET expected /\ {expected, asks} \subseteq SUBSET Labels
    /\ turnOf \in [Labels -> 1 .. MaxPairs + 1]
    /\ \A l \in Labels : /\ Len(transcript[l]) <= MaxPairs
                         /\ column[l].metrics \in {"none", "ok", "failed"}
                         /\ column[l].error \in 0 .. MaxRuns
    /\ fate \in [1 .. MaxRuns -> {"open", "clean", "failed", "stopped"}]

\* A transcript tells the turns in their order, each once, with the answer of that turn
\* and never that of an earlier one whose trace the column still shows; and none that was
\* stopped or failed: "this turn is not committed".
TranscriptTellsTurns ==
    \A l \in Labels : \A i \in 1 .. Len(transcript[l]) :
        LET pair == transcript[l][i] IN
        /\ pair.answer \in {0, pair.run} /\ fate[pair.run] = "clean"
        /\ i > 1 => transcript[l][i - 1].run < pair.run

\* "Multi-turn: keep earlier turns; strip this turn and later": what a column shows under
\* one turn number is of one run, though failed, stopped and copied turns let the
\* numbers recur.
TraceIsOfOneRun ==
    \A l \in Labels : \A d, e \in column[l].events : d.turn = e.turn => d.run = e.run

\* "A superseded stream's teardown must not flip a newer run's state", and nothing else
\* does: the page shows a running turn exactly while the newest run's columns are open,
\* its questions are those of such columns, and its report is of the run it shows.
PageShowsNewestRun ==
    /\ AtRest => running = (streaming /\ settled # expected)
    /\ AtRest => asks \subseteq expected \ settled
    /\ report \in {0, newest}

PageTellsHistory == TranscriptTellsTurns /\ TraceIsOfOneRun /\ PageShowsNewestRun

\* "Stale stream teardowns (report tail) must not clobber a newer run's state": while the
\* page shows a running turn, that turn is the one to be committed when it settles.
RunningTurnIsPending == AtRest /\ running => pendingTurn = newest
=============================================================================
