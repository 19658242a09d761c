----------------------------- MODULE BuilderPage -----------------------------
(***************************************************************************)
(* The builder page of the browser, the component BuilderClient: one chat      *)
(* column that shows the selected agent, at most one turn streamed into it,    *)
(* and detail reads that fill it. Agents can be created and deleted while a   *)
(* turn streams, and a read may be answered when the page has moved on.       *)
(* The server is here as far as the page reads it: the turns it keeps and     *)
(* the turn it runs, for each agent. Messages are numbered as they are sent. *)
(* Of the draft there is only whether there is one; its edits, the journal,  *)
(* renaming and the layout are left out. Two equal reads count as one.       *)
(***************************************************************************)
EXTENDS Naturals, Sequences, FiniteSets, SequencesExt

CONSTANTS MaxAgents,  \* bound: agents, numbered
          MaxSent,    \* bound: messages
          MaxReads    \* bound: detail reads under way when the user acts

ASSUME BuilderPageAssumption == {MaxAgents, MaxSent, MaxReads} \subseteq Nat \ {0}

Agents == 1 .. MaxAgents
Messages == 1 .. MaxSent
NoAgent == 0    \* activeId is null
NoMessage == 0

VARIABLES
    agents,    \* the server: the agents there are
    kept,      \* the messages of each agent's history; a compaction stands for what it cut
    serving,   \* the message whose turn runs
    listing,   \* the page: how the list shows each agent
    active,    \* activeIdRef
    drafted,   \* composition # null
    chat,      \* history: the bubbles shown
    tail,      \* events: the messages whose live events are shown
    window,    \* pendingAsk: the message whose turn asks
    mine,      \* the stream abortRef refers to: its message and agent, and how far it is
    sent,      \* messages sent, and which of them are compactions
    reads,     \* fetchBuilderSessionDetail calls under way
    blurred,   \* history: the chat was filled by a read that a turn or a switch overtook
    late       \* history: messages the server settled when no stream was left to tell

serverVars == <<agents, kept, serving>>
builderPageVars ==
    <<serverVars, listing, active, drafted, chat, tail, window, mine, sent, reads, blurred, late>>

NoStream == [message |-> NoMessage, agent |-> NoAgent, at |-> "closed"]
Said(m) == [who |-> "user", message |-> m]
Replied(m) == [who |-> "assistant", message |-> m]

\* attachTurnSegments of a history: of each turn the message and its answer.
Bubbles(messages) ==
    [i \in 1 .. 2 * Len(messages) |-> IF i % 2 = 1 THEN Said(messages[(i + 1) \div 2])
                                      ELSE Replied(messages[i \div 2])]

IsCompact(m) == m \in sent.compact

\* chatBusy: this page's own stream, or what the list says.
ChatBusy ==
    \/ mine.message # NoMessage
    \/ active # NoAgent /\ listing[active] = "running"

\* Slip: a chunk is shown whatever is selected when it arrives.
InView_Always == TRUE

\* "A turn is bound to the session it started on."
InView == mine.agent = active

\* A read is pure if no turn of its agent is told, or begins, while it is under way.
Reading(a, why, resync, pure) ==
    [agent |-> a, why |-> why, resync |-> resync, pure |-> pure, at |-> "asked", got |-> << >>]
NoTurnToTell(a) == mine.agent # a \/ mine.at \notin {"open", "answered"}
MayRead == Cardinality(reads) < MaxReads

-----------------------------------------------------------------------------
\* The load effect with nothing selected.
Deselected ==
    IF active = NoAgent THEN UNCHANGED <<active, drafted, chat, tail, blurred>>
    ELSE active' = NoAgent /\ drafted' = FALSE /\ chat' = << >> /\ tail' = {} /\ blurred' = FALSE

\* switchSession to another agent, or to none, and the load effect it triggers.
SwitchedTo(a) ==
    IF a # NoAgent
    THEN /\ active' = a /\ reads' = reads \cup {Reading(a, "load", FALSE, NoTurnToTell(a))}
         /\ UNCHANGED <<drafted, chat, tail, blurred>>
    ELSE Deselected /\ UNCHANGED reads

SwitchAgent(a) ==
    /\ ~ChatBusy /\ MayRead /\ a # active /\ listing[a] \in {"idle", "running"}
    /\ SwitchedTo(a)
    /\ UNCHANGED <<serverVars, listing, window, mine, sent, late>>

\* handleCreateSession, which nothing keeps from a running turn.
CreateAgent(a) ==
    /\ MayRead /\ a \notin agents /\ listing[a] = "absent"
    /\ agents' = agents \cup {a} /\ listing' = [listing EXCEPT ![a] = "idle"]
    /\ SwitchedTo(a)
    /\ UNCHANGED <<kept, serving, window, mine, sent, late>>

\* handleDeleteSession; the row of a running agent has no such button, and the server
\* refuses to delete one. The view moves to the first agent of the list.
DeleteAgent(a) ==
    /\ MayRead /\ listing[a] = "idle" /\ a \in agents /\ serving[a] = NoMessage
    /\ agents' = agents \ {a} /\ kept' = [kept EXCEPT ![a] = << >>]
    /\ listing' = [listing EXCEPT ![a] = "deleted"]
    /\ IF active # a THEN UNCHANGED <<active, drafted, chat, tail, blurred, reads>>
       ELSE IF agents' = {} THEN SwitchedTo(NoAgent)
       ELSE \E b \in agents' : SwitchedTo(b)
    /\ UNCHANGED <<serving, window, mine, sent, late>>

\* refreshSessions, asked for at many places.
RefreshList ==
    /\ listing' = [a \in Agents |-> IF a \notin agents THEN listing[a]
                                   ELSE IF serving[a] # NoMessage THEN "running" ELSE "idle"]
    /\ listing' # listing
    /\ UNCHANGED <<serverVars, active, drafted, chat, tail, window, mine, sent, reads,
                   blurred, late>>

\* handleSend. The server refuses a second turn of an agent, and a compaction of nothing.
SendMessage(compact) ==
    LET m == sent.count + 1
        refused == serving[active] # NoMessage \/ (compact /\ kept[active] = << >>) IN
    /\ active \in agents /\ drafted /\ ~ChatBusy /\ MayRead /\ sent.count < MaxSent
    /\ sent' = [count |-> m, compact |-> IF compact THEN sent.compact \cup {m} ELSE sent.compact]
    /\ chat' = Append(chat, Said(m)) /\ tail' = {} /\ window' = NoMessage
    /\ mine' = [message |-> m, agent |-> active, at |-> IF refused THEN "refused" ELSE "open"]
    /\ serving' = IF refused THEN serving ELSE [serving EXCEPT ![active] = m]
    /\ reads' = {[r EXCEPT !.pure = @ /\ r.agent # active] : r \in reads}
    /\ UNCHANGED <<agents, kept, listing, active, drafted, blurred, late>>

-----------------------------------------------------------------------------
\* An event of the turn; a question opens the window, and an observation closes it.
LiveEvent(what) ==
    /\ mine.at \in {"open", "answered", "failed"} /\ InView
    /\ tail' = tail \cup {mine.message}
    /\ window' = CASE what = "ask" -> mine.message
                   [] what = "observation" -> NoMessage
                   [] OTHER -> window
    /\ UNCHANGED <<serverVars, listing, active, drafted, chat, mine, sent, reads, blurred, late>>

\* The server settles a turn: it is kept, or aborted or failed. A compaction replaces the
\* history; one that found no summary is told as an answer and changes nothing.
SettleTurn(a, outcome) ==
    LET m == serving[a]
        told == mine.message = m /\ mine.at = "open" IN
    /\ m # NoMessage /\ (outcome = "no summary" => IsCompact(m))
    /\ serving' = [serving EXCEPT ![a] = NoMessage]
    /\ kept' = IF outcome # "kept" THEN kept
               ELSE [kept EXCEPT ![a] = IF IsCompact(m) THEN <<m>> ELSE Append(@, m)]
    /\ late' = IF told \/ outcome # "kept" THEN late
               ELSE late \cup {m} \cup (IF IsCompact(m) THEN ToSet(kept[a]) ELSE {})
    /\ mine' = IF told THEN [mine EXCEPT !.at = IF outcome = "failed" THEN "failed" ELSE "answered"]
                       ELSE mine
    /\ UNCHANGED <<agents, listing, active, drafted, chat, tail, window, sent, reads, blurred>>

\* The turn chunk. Out of view it is dropped, and its answer counts as not received.
TurnChunk ==
    LET received == InView /\ mine.at = "answered" IN
    /\ mine.at \in {"answered", "failed"}
    /\ mine' = [mine EXCEPT !.at = IF received THEN "received" ELSE "unheard"]
    /\ window' = IF InView THEN NoMessage ELSE window
    /\ IF ~received THEN UNCHANGED <<chat, reads>>
       ELSE IF IsCompact(mine.message)
       THEN reads' = reads \cup {Reading(mine.agent, "compact", TRUE, TRUE)} /\ UNCHANGED chat
       ELSE chat' = Append(chat, Replied(mine.message)) /\ UNCHANGED reads
    /\ UNCHANGED <<serverVars, listing, active, drafted, tail, sent, blurred, late>>

\* The finally of handleSend: the stream is forgotten, and the settled turn is read. The
\* chat is filled again unless the answer has come.
FinalRead ==
    Reading(mine.agent, "final", mine.at # "received" \/ IsCompact(mine.message), TRUE)

\* The stream ends by itself, is lost or refused, or is aborted by handleStop or
\* handleAbortSession; the abort the server is sent shows in SettleTurn.
StreamCloses ==
    /\ mine.message # NoMessage
    /\ mine' = NoStream /\ window' = NoMessage
    /\ reads' = reads \cup {FinalRead}
    /\ UNCHANGED <<serverVars, listing, active, drafted, chat, tail, sent, blurred, late>>

-----------------------------------------------------------------------------
\* The server answers a detail read.
AnswerRead(r) ==
    /\ r.at = "asked" /\ r.agent \in agents
    /\ reads' = (reads \ {r}) \cup {[r EXCEPT !.at = "here", !.got = kept[r.agent]]}
    /\ UNCHANGED <<serverVars, listing, active, drafted, chat, tail, window, mine, sent,
                   blurred, late>>

Filled(r) == chat' = Bubbles(r.got)

\* The load of a selected agent: whoever is selected when it is answered, it is shown.
Loaded(r) ==
    /\ Filled(r) /\ blurred' = (~r.pure \/ r.agent # active)
    /\ tail' = {} /\ drafted' = TRUE
    /\ UNCHANGED active

\* The read of a compaction, or of a settled turn, which also drops the live tail.
Resynced(r) ==
    /\ IF r.agent = active
       THEN /\ IF r.resync THEN Filled(r) /\ blurred' = ~r.pure ELSE UNCHANGED <<chat, blurred>>
            /\ tail' = IF r.why = "final" THEN {} ELSE tail
       ELSE UNCHANGED <<chat, blurred, tail>>
    /\ UNCHANGED <<active, drafted>>

\* A load that fails deselects; after a turn the live view stays as it is.
ReadFailed(r) ==
    IF r.why = "load" THEN Deselected
    ELSE /\ blurred' = (blurred \/ (r.agent = active /\ r.why = "final" /\ r.resync))
         /\ UNCHANGED <<active, drafted, chat, tail>>

ReadReturns(r, fails) ==
    /\ fails \/ r.at = "here"
    /\ reads' = reads \ {r}
    /\ IF fails THEN ReadFailed(r)
       ELSE IF r.why = "load" THEN Loaded(r) ELSE Resynced(r)
    /\ UNCHANGED <<serverVars, listing, window, mine, sent, late>>

BuilderPageInit ==
    /\ agents = {1} /\ kept = [a \in Agents |-> << >>] /\ serving = [a \in Agents |-> NoMessage]
    /\ listing = [a \in Agents |-> IF a = 1 THEN "idle" ELSE "absent"]
    /\ active = NoAgent /\ drafted = FALSE /\ chat = << >> /\ tail = {} /\ window = NoMessage
    /\ mine = NoStream /\ sent = [count |-> 0, compact |-> {}]
    /\ reads = {} /\ blurred = FALSE /\ late = {}

BuilderPageNext ==
    \/ \E a \in Agents :
         \/ SwitchAgent(a) \/ CreateAgent(a) \/ DeleteAgent(a)
         \/ \E outcome \in {"kept", "failed", "no summary"} : SettleTurn(a, outcome)
    \/ \E compact \in BOOLEAN : SendMessage(compact)
    \/ \E what \in {"ask", "observation"} : LiveEvent(what)
    \/ \E r \in reads : AnswerRead(r) \/ \E fails \in BOOLEAN : ReadReturns(r, fails)
    \/ RefreshList \/ TurnChunk \/ StreamCloses

BuilderPageSpec == BuilderPageInit /\ [][BuilderPageNext]_builderPageVars

-----------------------------------------------------------------------------
BuilderPageTypeOK ==
    /\ agents \subseteq Agents /\ kept \in [Agents -> Seq(Messages)]
    /\ serving \in [Agents -> Messages \cup {NoMessage}]
    /\ listing \in [Agents -> {"absent", "idle", "running", "deleted"}]
    /\ active \in Agents \cup {NoAgent}
    /\ \A b \in ToSet(chat) : b.who \in {"user", "assistant"} /\ b.message \in Messages
    /\ tail \subseteq Messages /\ late \subseteq Messages /\ window \in Messages \cup {NoMessage}
    /\ mine.at \in {"closed", "open", "refused", "answered", "failed", "received", "unheard"}
    /\ \A r \in reads : r.why \in {"load", "compact", "final"} /\ r.agent \in Agents
    /\ {drafted, blurred} \subseteq BOOLEAN

\* "A turn is bound to the session it started on": when its stream and the reads of the
\* selected agent are done, the chat is what the server keeps for that agent, each message
\* once and in order, whatever was created, deleted, stopped or compacted meanwhile. Turns
\* the server settled after their stream was gone may be missing, and a chat that was
\* filled by an overtaken read is excepted.
StillTold(bubbles) == {b \in ToSet(bubbles) : b.message \notin late}
Follows(b, c) ==
    \/ b.message < c.message
    \/ b.message = c.message /\ b.who = "user" /\ c.who = "assistant"
InOrder(bubbles) == \A i, j \in DOMAIN bubbles : i < j => Follows(bubbles[i], bubbles[j])
ChatIsOfAgent ==
    ~blurred /\ mine.message = NoMessage /\ (\A r \in reads : r.agent # active) =>
        LET story == IF active = NoAgent THEN << >> ELSE Bubbles(kept[active])
        IN StillTold(chat) = StillTold(story) /\ InOrder(chat) /\ InOrder(story)

\* "Chunks arriving after a session switch must not leak into the newly selected session's
\* view": live events of another agent are shown only until the selected one is loaded.
TailIsOfAgent ==
    mine.agent # active /\ mine.message \in tail =>
        \E r \in reads : r.agent = active /\ r.why = "load"

\* The question window never outlives the stream that opened it.
WindowIsOfStream == window \in {NoMessage, mine.message}

BuilderPageTellsTruth == ChatIsOfAgent /\ TailIsOfAgent /\ WindowIsOfStream
=============================================================================
