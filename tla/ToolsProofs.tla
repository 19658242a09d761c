----------------------------- MODULE ToolsProofs -----------------------------
(***************************************************************************)
(* Theorems about what a column's agent works with, for every number of    *)
(* calls, requests, jobs, shells, attempts, plans and messages: the MCP     *)
(* client, the one-shot process, the bridge to a framework, the             *)
(* verification loop, the background jobs, the persistent shell and the     *)
(* drivers with a loop of their own; the transcript and its cuts are those  *)
(* of ContextProofs.                                                        *)
(***************************************************************************)
EXTENDS MCTools, ContextProofs

-----------------------------------------------------------------------------
(* The MCP client.                                                         *)

\* What the server can have written: a request under an id of its own, or the reply it
\* gave to a call.
Sound == {m \in [kind : {"request", "result", "error", "empty"}, id : (1 .. Calls) \cup ServerIds] :
            IF m.kind = "request" THEN m.id \in ServerIds
            ELSE m.id \in 1 .. Calls /\ replied[m.id] = m.kind}

McpInv == /\ McpTypeOK /\ CallsGetTheirReplies
          /\ pipe \in Seq(Sound) /\ queue \in Seq(Sound)

\* No call is made yet.
LEMMA McpInitInv == McpInit => McpInv
<1> SUFFICES ASSUME McpInit PROVE McpInv
  OBVIOUS
<1>1. pipe \in Seq(Sound) /\ queue \in Seq(Sound) /\ Len(queue) = 0
  BY DEF McpInit
<1>2. McpTypeOK
  <2>1. call \in [1 .. Calls -> {"none", "waiting"} \cup Ends]
    BY DEF McpInit
  <2>2. replied \in [1 .. Calls -> {"none", "empty", "result", "error"}]
    BY DEF McpInit
  <2>3. \A i \in 1 .. Len(queue) : FALSE
    BY <1>1
  <2> QED
    BY <2>1, <2>2, <2>3 DEF McpInit, McpTypeOK
<1>3. CallsGetTheirReplies
  BY DEF McpInit, CallsGetTheirReplies
<1> QED
  BY <1>1, <1>2, <1>3 DEF McpInv

\* The ids in a queue of sound messages.
LEMMA QueueTyped ==
  ASSUME NEW q \in Seq(Sound)
  PROVE  \A i \in 1 .. Len(q) : q[i].id \in 1 .. Calls \cup ServerIds
  BY ElementOfSeq DEF Sound

\* Rejecting requests that wait keeps the table, the timers and the calls in step.
LEMMA RejectedKeeps ==
  ASSUME McpInv, NEW who \in SUBSET pending, Rejected(who)
  PROVE  /\ call' \in [1 .. Calls -> {"none", "waiting"} \cup Ends]
         /\ \A c \in 1 .. Calls : call'[c] = IF c \in who THEN "failed" ELSE call[c]
         /\ pending' = {c \in 1 .. Calls : call'[c] = "waiting"} /\ armed' = pending'
         /\ pending' = pending \ who
<1>1. call \in [1 .. Calls -> {"none", "waiting"} \cup Ends]
  BY DEF McpInv, McpTypeOK
<1>2. pending = {c \in 1 .. Calls : call[c] = "waiting"} /\ armed = pending
  BY DEF McpInv, CallsGetTheirReplies
<1>3. /\ call' \in [1 .. Calls -> {"none", "waiting"} \cup Ends]
      /\ \A c \in 1 .. Calls : call'[c] = IF c \in who THEN "failed" ELSE call[c]
  BY <1>1 DEF Rejected, Ends
<1>4. pending' = pending \ who /\ armed' = pending'
  BY <1>2 DEF Rejected
<1>5. pending' = {c \in 1 .. Calls : call'[c] = "waiting"}
  BY <1>2, <1>3, <1>4
<1> QED
  BY <1>3, <1>4, <1>5

\* The pump breaks, the process exits or close() is called: everyone who waits is told.
LEMMA RejectInv ==
  ASSUME McpInv, NEW who \in SUBSET pending, Rejected(who),
         pump' \in {"none", "reading"}, pump' = pump \/ who = pending,
         ended' \in BOOLEAN, closed' \in BOOLEAN,
         UNCHANGED <<pipe, queue, served, replied, asked>>
  PROVE  McpInv'
<1>1. /\ call' \in [1 .. Calls -> {"none", "waiting"} \cup Ends]
      /\ \A c \in 1 .. Calls : call'[c] = IF c \in who THEN "failed" ELSE call[c]
      /\ pending' = {c \in 1 .. Calls : call'[c] = "waiting"} /\ armed' = pending'
      /\ pending' = pending \ who
  BY RejectedKeeps
<1>2. pipe' \in Seq(Sound') /\ queue' \in Seq(Sound')
  BY DEF McpInv, Sound
<1>3. McpTypeOK'
  BY <1>1 DEF McpInv, McpTypeOK
<1>4. CallsGetTheirReplies'
  <2>1. \A c \in 1 .. Calls : call'[c] \in {"result", "error"} => call'[c] = replied'[c]
    BY <1>1 DEF McpInv, CallsGetTheirReplies
  <2>2. pending' # {} => pump' = "reading"
    BY <1>1 DEF McpInv, CallsGetTheirReplies
  <2> QED
    BY <1>1, <2>1, <2>2 DEF CallsGetTheirReplies
<1> QED
  BY <1>2, <1>3, <1>4 DEF McpInv

\* A call writes its request and waits, or fails at once.
LEMMA RequestInv ==
  ASSUME McpInv, NEW c \in 1 .. Calls, Request(c) PROVE McpInv'
<1>1. /\ call \in [1 .. Calls -> {"none", "waiting"} \cup Ends] /\ call[c] = "none"
      /\ UNCHANGED <<ended, pipe, queue, closed, served, replied, asked>>
      /\ pump' = "reading"
  BY DEF Request, serverVars, McpInv, McpTypeOK
<1>2. pending = {d \in 1 .. Calls : call[d] = "waiting"} /\ armed = pending
  BY DEF McpInv, CallsGetTheirReplies
<1>3. /\ call' \in [1 .. Calls -> {"none", "waiting"} \cup Ends]
      /\ \A d \in 1 .. Calls : d # c => call'[d] = call[d]
      /\ call'[c] \in {"waiting", "failed"}
      /\ IF call'[c] = "waiting" THEN pending' = pending \cup {c} ELSE pending' = pending
      /\ armed' = pending'
  BY <1>1, <1>2 DEF Request, Ends
<1>4. pending' = {d \in 1 .. Calls : call'[d] = "waiting"}
  BY <1>1, <1>2, <1>3
<1>5. pipe' \in Seq(Sound') /\ queue' \in Seq(Sound')
  BY <1>1 DEF McpInv, Sound
<1>6. McpTypeOK'
  BY <1>1, <1>3, <1>4 DEF McpInv, McpTypeOK
<1>7. CallsGetTheirReplies'
  BY <1>1, <1>3, <1>4 DEF McpInv, CallsGetTheirReplies
<1> QED
  BY <1>5, <1>6, <1>7 DEF McpInv

\* The pump handles the head of the queue: a reply settles the call it names, if it waits.
LEMMA PumpInv == ASSUME McpInv, Pump PROVE McpInv'
<1> DEFINE m == Head(queue)
<1>1. /\ pump = "reading" /\ queue # << >> /\ queue' = Tail(queue) /\ Handle(m)
      /\ UNCHANGED <<pump, ended, pipe, closed, replied, asked>>
  BY DEF Pump, serverVars
<1>2. queue \in Seq(Sound)
  BY DEF McpInv
<1>3. m \in Sound /\ Tail(queue) \in Seq(Sound)
  BY <1>1, <1>2, HeadTailProperties
<1>4. Sound' = Sound
  BY <1>1 DEF Sound
<1>5. pipe' \in Seq(Sound') /\ queue' \in Seq(Sound')
  BY <1>1, <1>3, <1>4 DEF McpInv
<1>6. \A i \in 1 .. Len(queue') : queue'[i].id \in 1 .. Calls \cup ServerIds
  BY <1>1, <1>3, QueueTyped
<1> HIDE DEF m
<1>7. pending = {d \in 1 .. Calls : call[d] = "waiting"} /\ armed = pending
      /\ call \in [1 .. Calls -> {"none", "waiting"} \cup Ends]
  BY DEF McpInv, CallsGetTheirReplies, McpTypeOK
<1>8. CASE m.id \in pending
  <2>1. /\ call' = [call EXCEPT ![m.id] = IF m.kind \in {"result", "error"} THEN m.kind ELSE "failed"]
        /\ pending' = pending \ {m.id} /\ armed' = armed \ {m.id} /\ served' = served
    BY <1>1, <1>8 DEF Handle
  <2>2. m.id \in 1 .. Calls /\ (m.kind \in {"result", "error"} => replied[m.id] = m.kind)
    BY <1>3, <1>7, <1>8 DEF Sound
  <2>3. /\ call' \in [1 .. Calls -> {"none", "waiting"} \cup Ends]
        /\ \A d \in 1 .. Calls : d # m.id => call'[d] = call[d]
        /\ call'[m.id] = IF m.kind \in {"result", "error"} THEN m.kind ELSE "failed"
    BY <1>7, <2>1, <2>2 DEF Ends
  <2>4. pending' = {d \in 1 .. Calls : call'[d] = "waiting"} /\ armed' = pending'
    BY <1>7, <2>1, <2>2, <2>3
  <2>5. McpTypeOK'
    BY <1>1, <1>6, <2>1, <2>3, <2>4 DEF McpInv, McpTypeOK
  <2>6. CallsGetTheirReplies'
    <3>1. \A d \in 1 .. Calls : call'[d] \in {"result", "error"} => call'[d] = replied'[d]
      BY <1>1, <2>2, <2>3 DEF McpInv, CallsGetTheirReplies
    <3> QED
      BY <1>1, <2>4, <3>1 DEF CallsGetTheirReplies
  <2> QED
    BY <1>5, <2>5, <2>6 DEF McpInv
<1>9. CASE m.id \notin pending
  <2>1. /\ served' = IF m.kind = "request" THEN served \cup {m.id} ELSE served
        /\ UNCHANGED <<call, pending, armed>>
    BY <1>1, <1>9 DEF Handle
  <2>2. served' \subseteq ServerIds
    BY <1>3, <2>1 DEF Sound, McpInv, McpTypeOK
  <2>3. McpTypeOK' /\ CallsGetTheirReplies'
    BY <1>1, <1>6, <2>1, <2>2 DEF McpInv, McpTypeOK, CallsGetTheirReplies
  <2> QED
    BY <1>5, <2>3 DEF McpInv
<1> QED
  BY <1>8, <1>9

\* Every step keeps the invariant.
LEMMA McpNextInv == McpInv /\ [McpNext]_mcpVars => McpInv'
<1> SUFFICES ASSUME McpInv, [McpNext]_mcpVars PROVE McpInv'
  OBVIOUS
<1>1. CASE UNCHANGED mcpVars
  BY <1>1 DEF mcpVars, McpInv, McpTypeOK, CallsGetTheirReplies, Sound
<1>2. ASSUME NEW c \in 1 .. Calls, Request(c) PROVE McpInv'
  BY <1>2, RequestInv
<1>3. ASSUME NEW c \in 1 .. Calls, Timeout(c) PROVE McpInv'
  <2>1. {c} \in SUBSET pending
    BY <1>3 DEF Timeout, McpInv, CallsGetTheirReplies
  <2>2. /\ Rejected({c}) /\ pump' \in {"none", "reading"} /\ pump' = pump
        /\ ended' \in BOOLEAN /\ closed' \in BOOLEAN
        /\ UNCHANGED <<pipe, queue, served, replied, asked>>
    BY <1>3 DEF Timeout, McpInv, McpTypeOK, serverVars
  <2> QED
    BY <2>1, <2>2, RejectInv
<1>4. CASE Close
  <2>1. /\ Rejected(pending) /\ pump' \in {"none", "reading"} /\ pump' = pump
        /\ ended' \in BOOLEAN /\ closed' \in BOOLEAN
        /\ UNCHANGED <<pipe, queue, served, replied, asked>>
    BY <1>4 DEF Close, McpInv, McpTypeOK, serverVars
  <2> QED
    BY <2>1, RejectInv
<1>5. CASE PumpEnds
  <2>1. /\ Rejected(pending) /\ pump' \in {"none", "reading"}
        /\ ended' \in BOOLEAN /\ closed' \in BOOLEAN
        /\ UNCHANGED <<pipe, queue, served, replied, asked>>
    BY <1>5 DEF PumpEnds, McpInv, McpTypeOK, serverVars
  <2> QED
    BY <2>1, RejectInv
<1>6. CASE Pump
  BY <1>6, PumpInv
<1>7. CASE Data
  <2>1. PICK n \in 1 .. Len(pipe) :
          queue' = queue \o SubSeq(pipe, 1, n) /\ pipe' = SubSeq(pipe, n + 1, Len(pipe))
    BY <1>7 DEF Data
  <2>2. pipe \in Seq(Sound) /\ queue \in Seq(Sound) /\ Len(pipe) \in Nat
    BY DEF McpInv
  <2>3. \A i \in 1 .. Len(pipe) : pipe[i] \in Sound
    BY <2>2, ElementOfSeq
  <2>4. SubSeq(pipe, 1, n) \in Seq(Sound)
    BY <2>2, <2>3, SubSeqProperties
  <2>5. SubSeq(pipe, n + 1, Len(pipe)) \in Seq(Sound)
    BY <2>2, <2>3, SubSeqProperties
  <2>6. queue' \in Seq(Sound) /\ pipe' \in Seq(Sound)
    BY <2>1, <2>2, <2>4, <2>5, ConcatProperties
  <2>7. \A i \in 1 .. Len(queue') : queue'[i].id \in 1 .. Calls \cup ServerIds
    BY <2>6, QueueTyped
  <2>8. UNCHANGED <<call, pending, armed, pump, ended, closed, served, replied, asked>>
    BY <1>7 DEF Data, serverVars
  <2>9. Sound' = Sound
    BY <2>8 DEF Sound
  <2> QED
    BY <2>6, <2>7, <2>8, <2>9 DEF McpInv, McpTypeOK, CallsGetTheirReplies
<1>8. CASE Exit
  BY <1>8 DEF Exit, serverVars, McpInv, McpTypeOK, CallsGetTheirReplies, Sound
<1>9. ASSUME NEW c \in 1 .. Calls, NEW kind \in {"result", "error", "empty"},
             ServerReplies(c, kind)
      PROVE  McpInv'
  <2>1. /\ replied[c] = "none" /\ call[c] # "none" /\ replied' = [replied EXCEPT ![c] = kind]
        /\ pipe' = Append(pipe, Message(kind, c))
        /\ UNCHANGED <<call, pending, armed, pump, ended, queue, closed, served, asked>>
    BY <1>9 DEF ServerReplies
  <2>2. replied \in [1 .. Calls -> {"none", "empty", "result", "error"}]
    BY DEF McpInv, McpTypeOK
  <2>3. /\ replied' \in [1 .. Calls -> {"none", "empty", "result", "error"}]
        /\ replied'[c] = kind /\ \A d \in 1 .. Calls : d # c => replied'[d] = replied[d]
    BY <2>1, <2>2
  <2>4. Sound \subseteq Sound' /\ Message(kind, c) \in Sound'
    BY <2>1, <2>3 DEF Sound, Message
  <2>5. pipe \in Seq(Sound') /\ queue \in Seq(Sound')
    BY <2>4, SeqMonotonic DEF McpInv
  <2>6. pipe' \in Seq(Sound') /\ queue' \in Seq(Sound')
    BY <2>1, <2>4, <2>5, AppendProperties
  <2>7. \A d \in 1 .. Calls : call'[d] \in {"result", "error"} => call'[d] = replied'[d]
    BY <2>1, <2>3 DEF McpInv, CallsGetTheirReplies
  <2> QED
    BY <2>1, <2>3, <2>6, <2>7 DEF McpInv, McpTypeOK, CallsGetTheirReplies
<1>10. ASSUME NEW i \in ServerIds, ServerAsks(i) PROVE McpInv'
  <2>1. /\ asked' = asked \cup {i} /\ pipe' = Append(pipe, Message("request", i))
        /\ UNCHANGED <<call, pending, armed, pump, ended, queue, closed, served, replied>>
    BY <1>10 DEF ServerAsks
  <2>2. Sound' = Sound
    BY <2>1 DEF Sound
  <2>3. Message("request", i) \in Sound
    BY DEF Sound, Message
  <2>4. pipe' \in Seq(Sound') /\ queue' \in Seq(Sound')
    BY <2>1, <2>2, <2>3, AppendProperties DEF McpInv
  <2> QED
    BY <2>1, <2>4 DEF McpInv, McpTypeOK, CallsGetTheirReplies
<1> QED
  BY <1>1, <1>2, <1>3, <1>4, <1>5, <1>6, <1>7, <1>8, <1>9, <1>10 DEF McpNext

\* A tool call gets the server's reply to that call and to no other, and whoever waits has
\* a timer and a reader: for any number of calls and any ids the server gives its own
\* requests, the ids of calls included.
THEOREM McpCallsGetTheirReplies == McpSpec => [](McpTypeOK /\ CallsGetTheirReplies)
<1>1. McpInv => McpTypeOK /\ CallsGetTheirReplies
  BY DEF McpInv
<1> QED
  BY <1>1, McpInitInv, McpNextInv, PTL DEF McpSpec

-----------------------------------------------------------------------------
(* The one-shot process.                                                   *)

\* Before the outcome, the first thing that came to the command is why it is killed; after
\* it, only a command whose start had failed still runs; and the promise settled once.
KillsInOrder ==
  /\ child = "none" => first = "none" /\ killReason = "none" /\ ~timer
  /\ ~Settled => (first = "abort" <=> killReason = "abort")
  /\ ~Settled /\ child = "runs" => first = killReason
  /\ Settled /\ child = "runs" => outcome = "error"
  /\ outcome = "aborted" => child \in {"none", "closed"}
  /\ child \in {"exited", "closed"} => endedBy \in {"code", "signal"}
  /\ settles \in {0, 1} /\ (settles = 1 <=> Settled)
ProcessInv == ProcessTypeOK /\ OutcomeTellsTruth /\ KillsInOrder

\* Nothing is spawned yet.
LEMMA ProcessInitInv == ProcessInit => ProcessInv
<1> SUFFICES ASSUME ProcessInit PROVE ProcessInv
  OBVIOUS
<1>1. ProcessTypeOK
  BY DEF ProcessInit, ProcessTypeOK
<1>2. OutcomeTellsTruth /\ KillsInOrder
  BY DEF ProcessInit, OutcomeTellsTruth, KillsInOrder, Settled
<1> QED
  BY <1>1, <1>2 DEF ProcessInv

\* The promise resolves: it had not, so that it has been resolved once, and no timer is left.
LEMMA ResolveParts == ASSUME NEW result, ProcessInv, ~Settled, Resolve(result)
                      PROVE /\ outcome' = result /\ settles' = 1
                            /\ timer' = FALSE /\ hardKill' = FALSE
                            /\ abortKill' = FALSE /\ flush' = FALSE
<1>1. settles = 0
  BY DEF ProcessInv, KillsInOrder
<1> QED
  BY <1>1 DEF Resolve

\* Every step of the command, its timers and its pipes keeps the story of its end.
LEMMA ProcessNextInv == ProcessInv /\ [ProcessNext]_processVars => ProcessInv'
<1> SUFFICES ASSUME ProcessInv, [ProcessNext]_processVars PROVE ProcessInv'
  OBVIOUS
<1>0. ProcessTypeOK /\ OutcomeTellsTruth /\ KillsInOrder
  BY DEF ProcessInv
<1>1. CASE UNCHANGED processVars
  BY <1>0, <1>1 DEF processVars, ProcessInv, ProcessTypeOK, OutcomeTellsTruth, KillsInOrder, Settled
<1>2. CASE Start
  <2>1. /\ ~Settled /\ child = "none"
        /\ UNCHANGED <<endedBy, killReason, aborted, destroyed, first>>
    BY <1>2 DEF Start
  <2>2. ASSUME NEW result \in {"aborted", "error"}, Resolve(result), UNCHANGED <<child, pipesHeld>>
        PROVE ProcessInv'
    <3>1. /\ outcome' = result /\ settles' = 1 /\ timer' = FALSE /\ hardKill' = FALSE
          /\ abortKill' = FALSE /\ flush' = FALSE
      BY <2>1, <2>2, ResolveParts
    <3>2. ProcessTypeOK'
      BY <1>0, <2>1, <2>2, <3>1 DEF ProcessTypeOK
    <3>3. OutcomeTellsTruth'
      BY <1>0, <2>1, <2>2, <3>1 DEF OutcomeTellsTruth, Settled, KillsInOrder
    <3>4. KillsInOrder'
      BY <1>0, <2>1, <2>2, <3>1 DEF KillsInOrder, Settled
    <3> QED
      BY <3>2, <3>3, <3>4 DEF ProcessInv
  <2>3. ASSUME Resolve("error"), child' = "runs", pipesHeld' = TRUE
        PROVE ProcessInv'
    <3>1. /\ outcome' = "error" /\ settles' = 1 /\ timer' = FALSE /\ hardKill' = FALSE
          /\ abortKill' = FALSE /\ flush' = FALSE
      BY <2>1, <2>3, ResolveParts
    <3>2. ProcessTypeOK'
      BY <1>0, <2>1, <2>3, <3>1 DEF ProcessTypeOK
    <3>3. OutcomeTellsTruth'
      BY <1>0, <2>1, <2>3, <3>1 DEF OutcomeTellsTruth, Settled, KillsInOrder
    <3>4. KillsInOrder'
      BY <1>0, <2>1, <2>3, <3>1 DEF KillsInOrder, Settled
    <3> QED
      BY <3>2, <3>3, <3>4 DEF ProcessInv
  <2>4. ASSUME ~aborted, child' = "runs", pipesHeld' = TRUE, timer' = TRUE, hardKill' = TRUE,
               UNCHANGED <<abortKill, flush, outcome, settles>>
        PROVE ProcessInv'
    <3>2. ProcessTypeOK'
      BY <1>0, <2>1, <2>4 DEF ProcessTypeOK
    <3>3. OutcomeTellsTruth'
      BY <1>0, <2>1, <2>4 DEF OutcomeTellsTruth, Settled, KillsInOrder
    <3>4. KillsInOrder'
      BY <1>0, <2>1, <2>4 DEF KillsInOrder, Settled
    <3> QED
      BY <3>2, <3>3, <3>4 DEF ProcessInv
  <2> QED
    BY <1>2, <2>2, <2>3, <2>4 DEF Start
<1>3. CASE Abort
  BY <1>0, <1>3 DEF Abort, AbortCounts, Notes, ProcessInv, ProcessTypeOK, OutcomeTellsTruth,
                    KillsInOrder, Settled
<1>4. CASE TimeoutFires
  BY <1>0, <1>4 DEF TimeoutFires, TimeoutCounts, Notes, ProcessInv, ProcessTypeOK,
                    OutcomeTellsTruth, KillsInOrder, Settled
<1>5. CASE HardKill
  BY <1>0, <1>5 DEF HardKill, ProcessInv, ProcessTypeOK, OutcomeTellsTruth, KillsInOrder, Settled
<1>6. CASE ChildExits
  BY <1>0, <1>6 DEF ChildExits, Notes, ProcessInv, ProcessTypeOK, OutcomeTellsTruth,
                    KillsInOrder, Settled
<1>7. CASE FlushFires
  BY <1>0, <1>7 DEF FlushFires, ProcessInv, ProcessTypeOK, OutcomeTellsTruth, KillsInOrder, Settled
<1>8. CASE PipesEnd
  BY <1>0, <1>8 DEF PipesEnd, ProcessInv, ProcessTypeOK, OutcomeTellsTruth, KillsInOrder, Settled
<1>9. CASE ChildCloses
  <2>1. /\ child = "exited" /\ child' = "closed"
        /\ UNCHANGED <<endedBy, killReason, aborted, destroyed, pipesHeld, first>>
    BY <1>9 DEF ChildCloses
  <2>2. ASSUME Settled, NoResolve
        PROVE ProcessInv'
    <3>2. ProcessTypeOK'
      BY <1>0, <2>1, <2>2 DEF ProcessTypeOK, NoResolve
    <3>3. OutcomeTellsTruth'
      BY <1>0, <2>1, <2>2 DEF OutcomeTellsTruth, Settled, NoResolve
    <3>4. KillsInOrder'
      BY <1>0, <2>1, <2>2 DEF KillsInOrder, Settled, NoResolve
    <3> QED
      BY <3>2, <3>3, <3>4 DEF ProcessInv
  <2>3. ASSUME NEW result, ~Settled, Resolve(result),
               result = Verdict \/ (Verdict = "ok" /\ result = "error")
        PROVE ProcessInv'
    <3>1. /\ outcome' = result /\ settles' = 1 /\ timer' = FALSE /\ hardKill' = FALSE
          /\ abortKill' = FALSE /\ flush' = FALSE
      BY <2>3, ResolveParts
    <3>2. /\ result \in {"ok", "timeout", "error", "aborted"}
          /\ result = "aborted" <=> killReason = "abort"
          /\ result = "ok" => endedBy = "code"
          /\ result = "timeout" => killReason = "timeout" /\ endedBy # "code"
      BY <1>0, <2>3 DEF Verdict, ProcessTypeOK
    <3>3. ProcessTypeOK'
      BY <1>0, <2>1, <3>1, <3>2 DEF ProcessTypeOK
    <3>4. OutcomeTellsTruth'
      BY <1>0, <2>1, <2>3, <3>1, <3>2 DEF OutcomeTellsTruth, Settled, KillsInOrder
    <3>5. KillsInOrder'
      BY <1>0, <2>1, <2>3, <3>1, <3>2 DEF KillsInOrder, Settled
    <3> QED
      BY <3>3, <3>4, <3>5 DEF ProcessInv
  <2> QED
    BY <1>9, <2>2, <2>3 DEF ChildCloses
<1>10. CASE ChildFails
  <2>1. /\ ~Settled /\ child' = "exited" /\ endedBy' = "code"
        /\ UNCHANGED <<killReason, aborted, destroyed, pipesHeld, first>>
    BY <1>10 DEF ChildFails
  <2>2. /\ outcome' = "error" /\ settles' = 1 /\ timer' = FALSE /\ hardKill' = FALSE
        /\ abortKill' = FALSE /\ flush' = FALSE
    BY <1>10, ResolveParts DEF ChildFails
  <2>3. ProcessTypeOK'
    BY <1>0, <2>1, <2>2 DEF ProcessTypeOK
  <2>4. OutcomeTellsTruth'
    BY <1>0, <2>1, <2>2 DEF OutcomeTellsTruth, Settled
  <2>5. KillsInOrder'
    BY <1>0, <2>1, <2>2 DEF KillsInOrder, Settled
  <2> QED
    BY <2>3, <2>4, <2>5 DEF ProcessInv
<1> QED
  BY <1>1, <1>2, <1>3, <1>4, <1>5, <1>6, <1>7, <1>8, <1>9, <1>10 DEF ProcessNext

\* First killer wins, and the promise of a command settles once with what happened to it,
\* whatever timers, signals and pipes do.
THEOREM ProcessTellsTruth == ProcessSpec => [](ProcessTypeOK /\ OutcomeTellsTruth)
<1>1. ProcessInv => ProcessTypeOK /\ OutcomeTellsTruth
  BY DEF ProcessInv
<1> QED
  BY <1>1, ProcessInitInv, ProcessNextInv, PTL DEF ProcessSpec

-----------------------------------------------------------------------------
(* The bridge to a framework.                                              *)

\* The requests the child has made.
Made == {r \in 1 .. Requests : request[r] # "none"}

\* The promise settles when the child is gone; a signal that came before it leaves a
\* failure and the mark, and so never a success; without one the outcome is whether there
\* was a final answer. What the generator has told is the outcome and all that was pushed
\* before it. A paid completion is a turn, and a turn a request.
SettledByTheEnd ==
  /\ verdict # "none" <=> script = "down"
  /\ signal = "late" => failure # "none"
  /\ cutShort => signal = "late" /\ verdict # "ok"
  /\ signal = "late" /\ verdict = "none" => cutShort
  /\ verdict # "none" /\ ~cutShort /\ signal # "early" => (verdict = "ok" <=> final = TRUE)
  /\ stage # "drain" => verdict # "none"
  /\ reported = IF stage = "done" THEN verdict ELSE "none"
  /\ script = "down" => ~idleTimer /\ (signal # "late" => forceKill = "off")
ToldAndPaid ==
  /\ stage # "drain" => pushedThen <= yielded
  /\ paid <= turns /\ paid <= TurnCap
  /\ turns <= Cardinality(Made)
BridgeInv == BridgeTypeOK /\ SettledByTheEnd /\ ToldAndPaid

\* There are at most Requests of them, and a request that is made for the first time is
\* one more.
LEMMA MadeIsFinite == BridgeTypeOK => IsFiniteSet(Made) /\ Cardinality(Made) <= Requests
                                      /\ Cardinality(Made) \in Nat
<1> SUFFICES ASSUME BridgeTypeOK PROVE IsFiniteSet(Made) /\ Cardinality(Made) <= Requests
                                      /\ Cardinality(Made) \in Nat
  OBVIOUS
<1>1. IsFiniteSet(1 .. Requests) /\ Cardinality(1 .. Requests) = Requests
  BY BridgeAssumption, FS_Interval
<1>2. Made \subseteq 1 .. Requests
  BY DEF Made
<1>3. IsFiniteSet(Made) /\ Cardinality(Made) <= Cardinality(1 .. Requests)
  BY <1>1, <1>2, FS_Subset
<1> QED
  BY <1>1, <1>3, FS_CardinalityType

\* A request that is made for the first time is one more.
LEMMA MadeGrows == ASSUME BridgeTypeOK, NEW r \in 1 .. Requests, request[r] = "none",
                          NEW v, v # "none", request' = [request EXCEPT ![r] = v]
                   PROVE Cardinality(Made') = Cardinality(Made) + 1
<1>1. Made' = Made \cup {r} /\ r \notin Made
  BY DEF Made, BridgeTypeOK
<1> QED
  BY <1>1, MadeIsFinite, FS_AddElement

\* A request that was made before is none more.
LEMMA MadeStays == ASSUME BridgeTypeOK, NEW r \in 1 .. Requests, request[r] # "none",
                          NEW v, v # "none", request' = [request EXCEPT ![r] = v]
                   PROVE Made' = Made
  BY DEF Made, BridgeTypeOK

\* No request is made, nothing is told.
LEMMA BridgeInitInv == BridgeInit => BridgeInv
<1> SUFFICES ASSUME BridgeInit PROVE BridgeInv
  OBVIOUS
<1>0. 0 \in 0 .. Requests /\ 0 \in 0 .. MaxEvents /\ 0 \in 0 .. 0
  BY BridgeAssumption
<1>1. BridgeTypeOK
  <2>1. /\ turns \in 0 .. Requests /\ paid \in 0 .. Requests
        /\ pushed \in 0 .. MaxEvents /\ yielded \in 0 .. pushed /\ pushedThen \in 0 .. pushed
    BY <1>0 DEF BridgeInit
  <2>2. request \in [1 .. Requests -> {"none", "llm", "tool", "answered", "lost"}]
    BY DEF BridgeInit
  <2>3. /\ watched \in BOOLEAN /\ idleTimer \in BOOLEAN /\ final \in BOOLEAN /\ cutShort \in BOOLEAN
    BY Zenon DEF BridgeInit
  <2> QED
    BY <2>1, <2>2, <2>3 DEF BridgeInit, BridgeTypeOK
<1>2. SettledByTheEnd
  BY DEF BridgeInit, SettledByTheEnd
<1>3. Made = {}
  BY DEF Made, BridgeInit
<1>4. Cardinality(Made) = 0
  BY <1>3, FS_EmptySet
<1>5. ToldAndPaid
  BY <1>4, BridgeAssumption DEF BridgeInit, ToldAndPaid
<1> QED
  BY <1>1, <1>2, <1>5 DEF BridgeInv

\* Every step keeps the invariant.
LEMMA BridgeNextInv == BridgeInv /\ [BridgeNext]_bridgeVars => BridgeInv'
<1> SUFFICES ASSUME BridgeInv, [BridgeNext]_bridgeVars PROVE BridgeInv'
  OBVIOUS
<1>0. BridgeTypeOK /\ SettledByTheEnd /\ ToldAndPaid
  BY DEF BridgeInv
<1> USE BridgeAssumption
<1>a. ASSUME request' = request PROVE Made' = Made
  BY <1>a DEF Made
<1>b. Cardinality(Made) \in Nat /\ Cardinality(Made) <= Requests
  BY <1>0, MadeIsFinite
<1>c. turns \in Nat /\ paid \in Nat /\ pushed \in Nat /\ yielded \in Nat /\ pushedThen \in Nat
      /\ yielded <= pushed /\ pushedThen <= pushed
  BY <1>0 DEF BridgeTypeOK
<1>1. CASE UNCHANGED bridgeVars
  BY <1>0, <1>1 DEF bridgeVars, BridgeInv, BridgeTypeOK, SettledByTheEnd, ToldAndPaid, Made
<1>2. CASE EventLine
  <2>1. BridgeTypeOK'
    BY <1>0, <1>2 DEF EventLine, Line, hostVars, BridgeTypeOK
  <2>2. SettledByTheEnd'
    BY <1>0, <1>2 DEF EventLine, Line, hostVars, SettledByTheEnd
  <2>3. ToldAndPaid'
    BY <1>0, <1>2, <1>a DEF EventLine, Line, hostVars, ToldAndPaid
  <2> QED
    BY <2>1, <2>2, <2>3 DEF BridgeInv
<1>3. CASE FinalLine
  <2>1. BridgeTypeOK'
    BY <1>0, <1>3 DEF FinalLine, Line, hostVars, BridgeTypeOK
  <2>2. SettledByTheEnd'
    BY <1>0, <1>3 DEF FinalLine, Line, hostVars, SettledByTheEnd
  <2>3. ToldAndPaid'
    BY <1>0, <1>3, <1>a DEF FinalLine, Line, hostVars, ToldAndPaid
  <2> QED
    BY <2>1, <2>2, <2>3 DEF BridgeInv
<1>4. CASE ErrorLine
  <2>1. BridgeTypeOK'
    BY <1>0, <1>4 DEF ErrorLine, Line, hostVars, BridgeTypeOK
  <2>2. SettledByTheEnd'
    BY <1>0, <1>4 DEF ErrorLine, Line, hostVars, SettledByTheEnd
  <2>3. ToldAndPaid'
    BY <1>0, <1>4, <1>a DEF ErrorLine, Line, hostVars, ToldAndPaid
  <2> QED
    BY <2>1, <2>2, <2>3 DEF BridgeInv
<1>5. ASSUME NEW r \in 1 .. Requests, LlmLine(r) PROVE BridgeInv'
  <2>1. SettledByTheEnd'
    BY <1>0, <1>5 DEF LlmLine, Line, hostVars, SettledByTheEnd
  <2>2. turns' = turns + 1
    BY <1>5 DEF LlmLine
  <2>3. PICK v \in {"llm", "answered"} : request' = [request EXCEPT ![r] = v]
    BY <1>5 DEF LlmLine
  <2>4. Cardinality(Made') = Cardinality(Made) + 1
    BY <1>0, <1>5, <2>3, MadeGrows DEF LlmLine
  <2>5. turns' <= Cardinality(Made')
    BY <1>b, <1>c, <1>0, <2>2, <2>4 DEF ToldAndPaid
  <2>6. paid' = paid \/ (paid' = paid + 1 /\ turns + 1 <= TurnCap)
    BY <1>5 DEF LlmLine, WithinBudget
  <2>7. paid' <= turns' /\ paid' <= TurnCap /\ paid' \in Nat
    BY <1>0, <1>c, <2>2, <2>6 DEF ToldAndPaid
  <2>8. request' \in [1 .. Requests -> {"none", "llm", "tool", "answered", "lost"}]
    BY <1>0, <2>3 DEF BridgeTypeOK
  <2>9. Cardinality(Made') <= Requests
    <3>1. Made' \subseteq 1 .. Requests
      BY DEF Made
    <3>2. IsFiniteSet(1 .. Requests) /\ Cardinality(1 .. Requests) = Requests
      BY FS_Interval
    <3> QED
      BY <3>1, <3>2, FS_Subset
  <2>10. turns' \in 0 .. Requests /\ paid' \in 0 .. Requests
    BY <1>b, <1>c, <2>2, <2>4, <2>5, <2>7, <2>9
  <2>11. BridgeTypeOK'
    BY <1>0, <1>5, <2>8, <2>10 DEF LlmLine, Line, hostVars, BridgeTypeOK
  <2>12. ToldAndPaid'
    BY <1>0, <1>5, <2>5, <2>7 DEF LlmLine, Line, hostVars, ToldAndPaid
  <2> QED
    BY <2>1, <2>11, <2>12 DEF BridgeInv
<1>6. ASSUME NEW r \in 1 .. Requests, ToolLine(r) PROVE BridgeInv'
  <2>1. BridgeTypeOK'
    BY <1>0, <1>6 DEF ToolLine, Line, hostVars, BridgeTypeOK
  <2>2. SettledByTheEnd'
    BY <1>0, <1>6 DEF ToolLine, Line, hostVars, SettledByTheEnd
  <2>3. Cardinality(Made') = Cardinality(Made) + 1
    BY <1>0, <1>6, MadeGrows DEF ToolLine
  <2>4. turns' <= Cardinality(Made')
    BY <1>0, <1>b, <1>c, <1>6, <2>3 DEF ToolLine, ToldAndPaid
  <2>5. ToldAndPaid'
    BY <1>0, <1>6, <2>4 DEF ToolLine, Line, hostVars, ToldAndPaid
  <2> QED
    BY <2>1, <2>2, <2>5 DEF BridgeInv
<1>7. ASSUME NEW r \in 1 .. Requests, ToolSays(r) PROVE BridgeInv'
  <2>1. BridgeTypeOK'
    BY <1>0, <1>7 DEF ToolSays, hostVars, BridgeTypeOK
  <2>2. SettledByTheEnd'
    BY <1>0, <1>7 DEF ToolSays, hostVars, SettledByTheEnd
  <2>3. ToldAndPaid'
    BY <1>0, <1>7, <1>a DEF ToolSays, hostVars, ToldAndPaid
  <2> QED
    BY <2>1, <2>2, <2>3 DEF BridgeInv
<1>8. ASSUME NEW r \in 1 .. Requests, Answer(r) PROVE BridgeInv'
  <2>1. BridgeTypeOK'
    BY <1>0, <1>8 DEF Answer, hostVars, BridgeTypeOK
  <2>2. SettledByTheEnd'
    BY <1>0, <1>8 DEF Answer, hostVars, SettledByTheEnd
  <2>3. PICK v : v # "none" /\ request' = [request EXCEPT ![r] = v]
    <3> DEFINE v == IF script = "down" THEN "lost" ELSE "answered"
    <3>1. request' = [request EXCEPT ![r] = v] /\ v # "none"
      BY <1>8 DEF Answer
    <3> HIDE DEF v
    <3> QED
      BY <3>1
  <2>4. Made' = Made
    BY <1>0, <1>8, <2>3, MadeStays DEF Answer, Open
  <2>5. ToldAndPaid'
    BY <1>0, <1>8, <2>4 DEF Answer, hostVars, ToldAndPaid
  <2> QED
    BY <2>1, <2>2, <2>5 DEF BridgeInv
<1>9. CASE IdleFires
  <2>1. BridgeTypeOK'
    BY <1>0, <1>9 DEF IdleFires, Kills, ArmForceKill, hostVars, BridgeTypeOK
  <2>2. SettledByTheEnd'
    BY <1>0, <1>9 DEF IdleFires, Kills, ArmForceKill, hostVars, SettledByTheEnd
  <2>3. ToldAndPaid'
    BY <1>0, <1>9, <1>a DEF IdleFires, Kills, ArmForceKill, hostVars, ToldAndPaid
  <2> QED
    BY <2>1, <2>2, <2>3 DEF BridgeInv
<1>10. CASE AbortBridge
  <2>1. BridgeTypeOK'
    BY <1>0, <1>10 DEF AbortBridge, ArmForceKill, BridgeTypeOK
  <2>2. SettledByTheEnd'
    BY <1>0, <1>10 DEF AbortBridge, ArmForceKill, SettledByTheEnd
  <2>3. ToldAndPaid'
    BY <1>0, <1>10, <1>a DEF AbortBridge, ToldAndPaid
  <2> QED
    BY <2>1, <2>2, <2>3 DEF BridgeInv
<1>11. CASE ForceKill
  <2>1. BridgeTypeOK'
    BY <1>0, <1>11 DEF ForceKill, hostVars, BridgeTypeOK
  <2>2. SettledByTheEnd'
    BY <1>0, <1>11 DEF ForceKill, hostVars, SettledByTheEnd
  <2>3. ToldAndPaid'
    BY <1>0, <1>11, <1>a DEF ForceKill, hostVars, ToldAndPaid
  <2> QED
    BY <2>1, <2>2, <2>3 DEF BridgeInv
<1>12. CASE BridgeCloses
  <2>0. verdict = "none" /\ stage = "drain"
    BY <1>0, <1>12 DEF BridgeCloses, SettledByTheEnd
  <2>1. /\ script' = "down" /\ idleTimer' = FALSE /\ forceKill' = "off"
        /\ verdict' = (IF ClosesWell THEN "ok" ELSE "failed") /\ pushedThen' = pushed
        /\ UNCHANGED <<final, failure, request, turns, paid, pushed, cutShort>>
        /\ UNCHANGED <<signal, watched, yielded, stage, reported>>
    BY <1>12, <2>0 DEF BridgeCloses, Finish, hostVars
  <2>2. BridgeTypeOK'
    <3>1. verdict' \in {"none", "ok", "failed"}
      BY <2>1
    <3>2. pushedThen' \in 0 .. pushed' /\ yielded' \in 0 .. pushed'
      BY <1>c, <2>1
    <3>3. idleTimer' \in BOOLEAN /\ forceKill' \in {"off", "armed", "fired"}
      BY <2>1
    <3> QED
      BY <1>0, <2>1, <3>1, <3>2, <3>3 DEF BridgeTypeOK
  <2>3. SettledByTheEnd'
    BY <1>0, <2>0, <2>1 DEF ClosesWell, SettledByTheEnd, BridgeTypeOK
  <2>4. ToldAndPaid'
    BY <1>0, <2>0, <2>1, <1>a DEF ToldAndPaid
  <2> QED
    BY <2>2, <2>3, <2>4 DEF BridgeInv
<1>13. CASE SpawnFails
  <2>0. verdict = "none" /\ stage = "drain" /\ ~final
    BY <1>0, <1>13 DEF SpawnFails, SettledByTheEnd
  <2>1. /\ script' = "down" /\ idleTimer' = FALSE /\ forceKill' = "off" /\ failure' = "spawn"
        /\ verdict' = "failed" /\ pushedThen' = pushed
        /\ UNCHANGED <<final, request, turns, paid, pushed, cutShort>>
        /\ UNCHANGED <<signal, watched, yielded, stage, reported>>
    BY <1>13, <2>0 DEF SpawnFails, Finish, hostVars
  <2>2. BridgeTypeOK'
    <3>1. verdict' \in {"none", "ok", "failed"}
      BY <2>1
    <3>2. pushedThen' \in 0 .. pushed' /\ yielded' \in 0 .. pushed'
      BY <1>c, <2>1
    <3>3. idleTimer' \in BOOLEAN /\ forceKill' \in {"off", "armed", "fired"}
      BY <2>1
    <3> QED
      BY <1>0, <2>1, <3>1, <3>2, <3>3 DEF BridgeTypeOK
  <2>3. SettledByTheEnd'
    BY <1>0, <2>0, <2>1 DEF SettledByTheEnd, BridgeTypeOK
  <2>4. ToldAndPaid'
    BY <1>0, <2>0, <2>1, <1>a DEF ToldAndPaid
  <2> QED
    BY <2>2, <2>3, <2>4 DEF BridgeInv
<1>14. CASE Yield
  <2>1. BridgeTypeOK'
    BY <1>0, <1>14 DEF Yield, BridgeTypeOK
  <2>2. SettledByTheEnd'
    BY <1>0, <1>14 DEF Yield, SettledByTheEnd
  <2>3. ToldAndPaid'
    BY <1>0, <1>14, <1>a DEF Yield, ToldAndPaid
  <2> QED
    BY <2>1, <2>2, <2>3 DEF BridgeInv
<1>15. CASE Leave
  <2>1. BridgeTypeOK'
    BY <1>0, <1>15 DEF Leave, BridgeTypeOK
  <2>2. SettledByTheEnd'
    BY <1>0, <1>15 DEF Leave, Drained, SettledByTheEnd
  <2>3. ToldAndPaid'
    BY <1>0, <1>c, <1>15, <1>a DEF Leave, Drained, ToldAndPaid
  <2> QED
    BY <2>1, <2>2, <2>3 DEF BridgeInv
<1>16. CASE Complete
  <2>1. BridgeTypeOK'
    BY <1>0, <1>16 DEF Complete, BridgeTypeOK
  <2>2. SettledByTheEnd'
    BY <1>0, <1>16 DEF Complete, SettledByTheEnd
  <2>3. ToldAndPaid'
    BY <1>0, <1>16, <1>a DEF Complete, ToldAndPaid
  <2> QED
    BY <2>1, <2>2, <2>3 DEF BridgeInv
<1> QED
  BY <1>1, <1>2, <1>3, <1>4, <1>5, <1>6, <1>7, <1>8, <1>9, <1>10, <1>11, <1>12, <1>13, <1>14,
     <1>15, <1>16 DEF BridgeNext

\* The invariant says what the column is told of its framework.
LEMMA BridgeInvTells == BridgeInv => BridgeTellsTheRun
<1> SUFFICES ASSUME BridgeInv PROVE BridgeTellsTheRun
  OBVIOUS
<1>1. yielded \in Nat /\ pushedThen \in Nat /\ final \in BOOLEAN
  BY BridgeAssumption DEF BridgeInv, BridgeTypeOK
<1> QED
  BY <1>1 DEF BridgeInv, SettledByTheEnd, ToldAndPaid, BridgeTellsTheRun

\* What the column is told of its framework is what happened to it: the invariant says so.
THEOREM BridgeTellsTruth == BridgeSpec => [](BridgeTypeOK /\ BridgeTellsTheRun)
<1>1. BridgeInv => BridgeTypeOK /\ BridgeTellsTheRun
  BY BridgeInvTells DEF BridgeInv
<1> QED
  BY <1>1, BridgeInitInv, BridgeNextInv, PTL DEF BridgeSpec

-----------------------------------------------------------------------------
(* The verification loop.                                                  *)

\* The values the projections, the held complete and the stream range over.
HarnessShape ==
    /\ own \in [thought : SUBSET Nat, streaming : SUBSET Nat, obs : SUBSET Nat]
    /\ told \in [thought : SUBSET Nat, streaming : SUBSET Nat, obs : SUBSET Nat]
    /\ held \in [verdict : {"none", "ok", "failed"}, by : Nat]
    /\ out \in Seq([kind : {"error", "ok", "failed"}, by : Nat])

\* Another attempt is still to come, so that no complete is held.
MayRepeat ==
    /\ phase \in {"looping", "reflecting"} => attempt < MaxRetries
    /\ held.verdict # "none" => held.by = attempt /\ attempt = MaxRetries
    /\ phase = "reflecting" => level # "verify"

\* Until the execution is done only errors are out, then one complete at the end.
EndsOnce ==
    /\ phase # "done" => \A i \in 1 .. Len(out) : out[i].kind = "error"
    /\ OneCompletion

\* The feedback in hand tells of the attempt that was just rejected.
HandsOn ==
    /\ phase = "looping" => feedback \in {0, attempt} /\ (level = "verify" => feedback = 0)
    /\ FeedbackIsFresh

\* Whatever of the attempt is in its own projection is in the reader's too, and what the
\* reader still has of an earlier attempt's stream is not taken for its end.
HeardToo ==
    /\ own.streaming # {} => own.thought # {}
    /\ own.thought # {} => /\ attempt \in told.thought
                           /\ told.streaming = {} \/ attempt \in told.streaming

\* The invariant of the loop.
HarnessInv == HarnessTypeOK /\ HarnessShape /\ MayRepeat /\ EndsOnce /\ HandsOn /\ HeardToo

\* It holds at the start.
LEMMA HarnessInitInv == HarnessInit => HarnessInv
<1> SUFFICES ASSUME HarnessInit PROVE HarnessInv
  OBVIOUS
<1> USE HarnessAssumption
<1>1. HarnessTypeOK
  BY DEF HarnessInit, HarnessTypeOK
<1>2. HarnessShape
  BY DEF HarnessInit, HarnessShape, Silent
<1>3. MayRepeat /\ EndsOnce /\ HandsOn /\ HeardToo
  BY DEF HarnessInit, MayRepeat, EndsOnce, OneCompletion, HandsOn, FeedbackIsFresh, HeardToo, Silent,
         IsComplete
<1> QED
  BY <1>1, <1>2, <1>3 DEF HarnessInv

\* A projection stays one, whichever event it takes in.
LEMMA PushKeepsShape ==
    ASSUME NEW p \in [thought : SUBSET Nat, streaming : SUBSET Nat, obs : SUBSET Nat], NEW n \in Nat,
           NEW event \in {"thought", "delta", "end", "empty end", "observation"}
    PROVE  Push(p, event, n) \in [thought : SUBSET Nat, streaming : SUBSET Nat, obs : SUBSET Nat]
<1>1. CASE event = "thought"
  BY <1>1 DEF Push
<1>2. CASE event = "delta"
  BY <1>2 DEF Push
<1>3. CASE event = "end"
  BY <1>3 DEF Push
<1>4. CASE event = "empty end"
  BY <1>4 DEF Push
<1>5. CASE event = "observation"
  BY <1>5 DEF Push
<1> QED
  BY <1>1, <1>2, <1>3, <1>4, <1>5

\* Every step of the loop keeps it.
LEMMA HarnessNextInv == HarnessInv /\ [HarnessNext]_harnessVars => HarnessInv'
<1> SUFFICES ASSUME HarnessInv, [HarnessNext]_harnessVars PROVE HarnessInv'
  OBVIOUS
<1> USE HarnessAssumption
<1>0. HarnessTypeOK /\ HarnessShape /\ MayRepeat /\ EndsOnce /\ HandsOn /\ HeardToo
  BY DEF HarnessInv
<1>a. attempt \in Nat
  BY <1>0 DEF HarnessTypeOK
<1>b. said < MaxSaid /\ said' = said + 1 /\ UNCHANGED <<level, phase, attempt, feedback, held, heeded>>
        => HarnessTypeOK'
  BY <1>0 DEF HarnessTypeOK
<1>1. CASE NextAttempt
  <2>0. attempt < MaxRetries /\ attempt + 1 \in 1 .. MaxRetries /\ held.verdict = "none"
    BY <1>0, <1>1 DEF NextAttempt, MayRepeat, HarnessTypeOK
  <2>1. feedback' \in {0, attempt} /\ (level = "verify" => feedback' = 0)
    BY <1>0, <1>1 DEF NextAttempt, HandsOn
  <2>2. HarnessTypeOK'
    BY <1>0, <1>1, <2>0, <2>1 DEF NextAttempt, HarnessTypeOK
  <2>3. HarnessShape'
    BY <1>0, <1>1 DEF NextAttempt, HarnessShape, Silent
  <2>4. MayRepeat'
    BY <1>0, <1>1, <2>0 DEF NextAttempt, MayRepeat
  <2>5. EndsOnce'
    BY <1>0, <1>1 DEF NextAttempt, EndsOnce, OneCompletion, IsComplete
  <2>6. HandsOn'
    BY <1>0, <1>1, <2>0, <2>1 DEF NextAttempt, HandsOn, FeedbackIsFresh, HarnessTypeOK
  <2>7. HeardToo'
    BY <1>1 DEF NextAttempt, HeardToo, Silent
  <2> QED
    BY <2>2, <2>3, <2>4, <2>5, <2>6, <2>7 DEF HarnessInv
<1>2. ASSUME NEW event \in {"thought", "delta", "end", "empty end", "observation"}, Says(event)
      PROVE  HarnessInv'
  <2>0. /\ said < MaxSaid /\ said' = said + 1
        /\ UNCHANGED <<level, phase, attempt, feedback, held, out, cancelled, heeded, accepted>>
    BY <1>2 DEF Says
  <2>1. HarnessTypeOK'
    BY <2>0, <1>b
  <2>2. HarnessShape'
    <3>1. attempt \in Nat
      BY <1>a
    <3>2. own' = Push(own, event, attempt) /\ told' = Push(told, event, attempt)
      BY <1>2 DEF Says
    <3>3. /\ own' \in [thought : SUBSET Nat, streaming : SUBSET Nat, obs : SUBSET Nat]
          /\ told' \in [thought : SUBSET Nat, streaming : SUBSET Nat, obs : SUBSET Nat]
      BY <1>0, <3>1, <3>2, PushKeepsShape DEF HarnessShape
    <3> QED
      BY <1>0, <2>0, <3>3 DEF HarnessShape
  <2>3. MayRepeat' /\ EndsOnce' /\ HandsOn'
    BY <1>0, <1>2 DEF Says, MayRepeat, EndsOnce, OneCompletion, IsComplete, HandsOn, FeedbackIsFresh
  <2>4. HeardToo'
    BY <1>0, <1>2 DEF Says, HarnessShape, HeardToo, Push
  <2> QED
    BY <2>1, <2>2, <2>3, <2>4 DEF HarnessInv
<1>3. CASE Errs
  <2>1. HarnessTypeOK' /\ HarnessShape'
    BY <1>0, <1>3 DEF Errs, HarnessTypeOK, HarnessShape
  <2>2. MayRepeat' /\ HandsOn' /\ HeardToo'
    BY <1>0, <1>3 DEF Errs, MayRepeat, HandsOn, FeedbackIsFresh, HeardToo
  <2>3. EndsOnce'
    BY <1>0, <1>3 DEF Errs, HarnessShape, EndsOnce, OneCompletion, IsComplete
  <2> QED
    BY <2>1, <2>2, <2>3 DEF HarnessInv
<1>4. CASE AttemptEnds
  <2>1. HarnessTypeOK' /\ HarnessShape'
    BY <1>0, <1>4 DEF AttemptEnds, Kept, HarnessTypeOK, HarnessShape
  <2>2. MayRepeat'
    BY <1>0, <1>4 DEF AttemptEnds, Kept, IsLast, MayRepeat, HarnessTypeOK
  <2>3. EndsOnce' /\ HandsOn' /\ HeardToo'
    BY <1>0, <1>4 DEF AttemptEnds, EndsOnce, OneCompletion, IsComplete, HandsOn, FeedbackIsFresh, HeardToo
  <2> QED
    BY <2>1, <2>2, <2>3 DEF HarnessInv
<1>5. CASE Judge
  <2>1. /\ phase' \in {"settling", "looping", "reflecting"}
        /\ phase' # "settling" => attempt < MaxRetries
        /\ phase' = "reflecting" => level # "verify"
        /\ feedback' = IF phase' = "looping" THEN 0 ELSE feedback
        /\ phase = "judging"
        /\ UNCHANGED <<level, attempt, own, told, held, out, cancelled, heeded, said>>
    BY <1>0, <1>5 DEF Judge, IsLast, HarnessTypeOK
  <2>2. HarnessTypeOK' /\ HarnessShape' /\ MayRepeat'
    BY <1>0, <2>1 DEF HarnessTypeOK, HarnessShape, MayRepeat
  <2>3. EndsOnce' /\ HandsOn' /\ HeardToo'
    BY <1>0, <2>1 DEF EndsOnce, OneCompletion, IsComplete, HandsOn, FeedbackIsFresh, HeardToo
  <2> QED
    BY <2>2, <2>3 DEF HarnessInv
<1>6. CASE Reflect
  <2>1. HarnessTypeOK' /\ HarnessShape' /\ MayRepeat'
    BY <1>0, <1>6 DEF Reflect, HarnessTypeOK, HarnessShape, MayRepeat
  <2>2. EndsOnce' /\ HandsOn' /\ HeardToo'
    BY <1>0, <1>6 DEF Reflect, EndsOnce, OneCompletion, IsComplete, HandsOn, MayRepeat, FeedbackIsFresh, HeardToo
  <2> QED
    BY <2>1, <2>2 DEF HarnessInv
<1>7. CASE Settle
  <2>0. \E last \in [kind : {"ok", "failed"}, by : {0, attempt}] : out' = Append(out, last)
    BY <1>0, <1>7 DEF Settle, HarnessShape, MayRepeat
  <2>1. HarnessTypeOK' /\ HarnessShape'
    <3>1. AnswerOf(told) \in SUBSET Nat /\ attempt \in Nat
      BY <1>0 DEF HarnessShape, AnswerOf, HarnessTypeOK
    <3>2. told' \in [thought : SUBSET Nat, streaming : SUBSET Nat, obs : SUBSET Nat]
      BY <1>0, <1>7, <3>1 DEF Settle, HarnessShape
    <3>3. out' \in Seq([kind : {"error", "ok", "failed"}, by : Nat])
      BY <1>0, <2>0, <3>1 DEF HarnessShape
    <3> QED
      BY <1>0, <1>7, <3>2, <3>3 DEF Settle, HarnessTypeOK, HarnessShape
  <2>2. MayRepeat' /\ HandsOn'
    BY <1>0, <1>7 DEF Settle, MayRepeat, HandsOn, FeedbackIsFresh
  <2>3. HeardToo'
    BY <1>0, <1>7 DEF Settle, HarnessShape, HeardToo, AnswerOf
  <2>4. EndsOnce'
    BY <1>0, <1>7, <2>0 DEF Settle, HarnessShape, EndsOnce, OneCompletion, IsComplete
  <2> QED
    BY <2>1, <2>2, <2>3, <2>4 DEF HarnessInv
<1>8. CASE Throws
  <2>1. HarnessTypeOK' /\ HarnessShape'
    <3>1. attempt \in Nat
      BY <1>0 DEF HarnessTypeOK
    <3>2. <<[kind |-> "error", by |-> attempt], [kind |-> "failed", by |-> attempt]>>
            \in Seq([kind : {"error", "ok", "failed"}, by : Nat])
      BY <3>1
    <3>3. out' \in Seq([kind : {"error", "ok", "failed"}, by : Nat])
      BY <1>0, <1>8, <3>2, ConcatProperties DEF Throws, HarnessShape
    <3> QED
      BY <1>0, <1>8, <3>3 DEF Throws, HarnessTypeOK, HarnessShape
  <2>2. MayRepeat' /\ HandsOn' /\ HeardToo'
    BY <1>0, <1>8 DEF Throws, MayRepeat, HandsOn, FeedbackIsFresh, HeardToo
  <2>3. EndsOnce'
    BY <1>0, <1>8 DEF Throws, HarnessShape, EndsOnce, OneCompletion, IsComplete
  <2> QED
    BY <2>1, <2>2, <2>3 DEF HarnessInv
<1>9. CASE AbortRun
  BY <1>0, <1>9 DEF AbortRun, HarnessInv, HarnessTypeOK, HarnessShape, MayRepeat, EndsOnce, OneCompletion,
                    IsComplete, HandsOn, FeedbackIsFresh, HeardToo
<1>10. CASE UNCHANGED harnessVars
  BY <1>0, <1>10 DEF harnessVars, HarnessInv, HarnessTypeOK, HarnessShape, MayRepeat, EndsOnce, OneCompletion,
                     IsComplete, HandsOn, FeedbackIsFresh, HeardToo
<1> QED
  BY <1>1, <1>2, <1>3, <1>4, <1>5, <1>6, <1>7, <1>8, <1>9, <1>10 DEF HarnessNext

\* The invariant says what a column's reader relies on.
LEMMA HarnessInvTells == HarnessInv => HarnessTypeOK /\ AttemptsTellOneStory
  BY DEF HarnessInv, EndsOnce, HandsOn, HeardToo, AttemptsTellOneStory, LastAttemptIsHeard, AnswerOf

\* Attempts that are judged and repeated come out as one run: one complete at the end,
\* each attempt with the feedback of the one before it, and the last one's words heard.
THEOREM AttemptsAreOneRun == HarnessSpec => [](HarnessTypeOK /\ AttemptsTellOneStory)
  BY HarnessInitInv, HarnessNextInv, HarnessInvTells, PTL DEF HarnessSpec

-----------------------------------------------------------------------------
(* The background jobs.                                                    *)

\* The larger of two numbers.
LEMMA LargerOf ==
    ASSUME NEW a \in Int, NEW b \in Int
    PROVE  Max({a, b}) = IF a >= b THEN a ELSE b
<1> DEFINE m == IF a >= b THEN a ELSE b
<1>1. m \in {a, b} /\ \A y \in {a, b} : m >= y
  OBVIOUS
<1>2. \A x \in {a, b} : (\A y \in {a, b} : x >= y) => x = m
  OBVIOUS
<1> HIDE DEF m
<1>3. Max({a, b}) \in {a, b} /\ \A y \in {a, b} : Max({a, b}) >= y
  BY <1>1, Zenon DEF Max
<1>4. Max({a, b}) = m
  BY <1>2, <1>3
<1> QED
  BY <1>4 DEF m

\* The smaller of two numbers.
LEMMA SmallerOf ==
    ASSUME NEW a \in Int, NEW b \in Int
    PROVE  Min({a, b}) = IF a <= b THEN a ELSE b
<1> DEFINE m == IF a <= b THEN a ELSE b
<1>1. m \in {a, b} /\ \A y \in {a, b} : m =< y
  OBVIOUS
<1>2. \A x \in {a, b} : (\A y \in {a, b} : x =< y) => x = m
  OBVIOUS
<1> HIDE DEF m
<1>3. Min({a, b}) \in {a, b} /\ \A y \in {a, b} : Min({a, b}) =< y
  BY <1>1, Zenon DEF Min
<1>4. Min({a, b}) = m
  BY <1>2, <1>3
<1> QED
  BY <1>4 DEF m

\* The records of jobs.
JobRecord ==
    [started : BOOLEAN, listed : BOOLEAN, running : BOOLEAN, exited : BOOLEAN, killed : BOOLEAN,
     escalates : BOOLEAN, total : Nat, sent : Nat, spilled : Nat, shownTo : Nat,
     silent : SUBSET Nat, repeated : SUBSET Nat]
JobsShape == job \in [1 .. Jobs -> JobRecord]

\* The cursor stands where the polls have told up to, and no spill file reaches behind it:
\* what a poll has to display is then part of what it has to spill.
CursorInStep(j) ==
    /\ job[j].shownTo = job[j].sent
    /\ job[j].spilled <= job[j].sent /\ job[j].sent <= job[j].total
    /\ job[j].silent = {} /\ job[j].repeated = {}

\* A listed job has been started, and a live one that no registry lists is dying.
InHand(j) ==
    /\ job[j].listed => job[j].started
    /\ job[j].running /\ ~job[j].exited /\ ~job[j].listed => job[j].escalates

Living == {j \in Listed : Alive(j)}

\* The invariant of the registry.
JobsInv ==
    /\ JobsShape
    /\ \A j \in 1 .. Jobs : CursorInStep(j)
    /\ \A j \in 1 .. Jobs : InHand(j)
    /\ Cardinality(Living) <= MaxJobs

\* It holds at the start.
LEMMA JobsInitInv == JobsInit => JobsInv
<1> SUFFICES ASSUME JobsInit PROVE JobsInv
  OBVIOUS
<1>1. JobsShape
  BY DEF JobsInit, JobsShape, JobRecord, NoJob
<1>2. \A j \in 1 .. Jobs : CursorInStep(j)
  BY DEF JobsInit, CursorInStep, NoJob
<1>3. \A j \in 1 .. Jobs : InHand(j)
  BY DEF JobsInit, InHand, NoJob
<1>4. Living = {}
  BY DEF JobsInit, Living, Listed, Alive, NoJob
<1>5. Cardinality(Living) <= MaxJobs
  BY <1>4, FS_EmptySet, JobsAssumption
<1> QED
  BY <1>1, <1>2, <1>3, <1>5 DEF JobsInv

\* Registries are finite, and one that loses members stays within the ceiling.
LEMMA FewerLive ==
    ASSUME JobsInv, Living' \subseteq Living
    PROVE  Cardinality(Living') <= MaxJobs
<1>1. IsFiniteSet(1 .. Jobs) /\ Living \subseteq 1 .. Jobs
  BY FS_Interval, JobsAssumption DEF Living, Listed
<1>2. IsFiniteSet(Living)
  BY <1>1, FS_Subset
<1>3. Cardinality(Living') <= Cardinality(Living) /\ IsFiniteSet(Living')
  BY <1>2, FS_Subset
<1>4. Cardinality(Living') \in Nat /\ Cardinality(Living) \in Nat
  BY <1>2, <1>3, FS_CardinalityType
<1> QED
  BY <1>3, <1>4, JobsAssumption DEF JobsInv

\* Whichever cap hits, a poll displays nothing it has told of, and all it passes over is
\* displayed, named as missing or in the spill file it has tried to write.
LEMMA PollTellsAll ==
    ASSUME JobsInv, NEW j \in 1 .. Jobs
    PROVE  LET named == Base(j) - Dropped(j) + 1 .. Base(j)
               passed == job[j].shownTo + 1 .. job[j].total
               spills == Delta(j) # {} /\ Cardinality(Unspilled(j)) > Threshold IN
           /\ Displayed(j) \subseteq passed
           /\ spills => passed \subseteq Displayed(j) \cup named \cup Unspilled(j)
           /\ ~spills => passed \subseteq Displayed(j) \cup named
<1> DEFINE rec == job[j]
           total == rec.total
           sent == rec.sent
           spilled == rec.spilled
           base == IF total >= JobBuffer THEN total - JobBuffer ELSE 0
           from == IF sent >= base THEN sent ELSE base
           spillFrom == IF spilled >= base THEN spilled ELSE base
           least == IF sent <= spilled THEN sent ELSE spilled
           dropped == IF base >= least THEN base - least ELSE 0
<1>1. /\ total \in Nat /\ sent \in Nat /\ spilled \in Nat
      /\ rec.shownTo = sent /\ spilled <= sent /\ sent <= total
  BY DEF JobsInv, JobsShape, JobRecord, CursorInStep
<1>2. JobBuffer \in Nat /\ Threshold \in Nat /\ Threshold >= 1
  BY JobsAssumption
<1> HIDE DEF rec
<1>3. Base(j) = base
  <2>1. Base(j) = Max({0, total - JobBuffer})
    BY DEF Base, rec
  <2>2. Max({0, total - JobBuffer}) = IF 0 >= total - JobBuffer THEN 0 ELSE total - JobBuffer
    BY <1>1, <1>2, LargerOf
  <2> QED
    BY <2>1, <2>2, <1>1, <1>2
<1>a. base \in Nat /\ base <= total
  BY <1>1, <1>2
<1>4. Delta(j) = from + 1 .. total
  <2>1. Max({sent, base}) = from
    BY <1>1, <1>a, LargerOf
  <2> QED
    BY <2>1, <1>3 DEF Delta, rec
<1>5. Unspilled(j) = spillFrom + 1 .. total
  <2>1. Max({spilled, base}) = spillFrom
    BY <1>1, <1>a, LargerOf
  <2> QED
    BY <2>1, <1>3 DEF Unspilled, rec
<1>6. Dropped(j) = dropped
  <2>1. Min({sent, spilled}) = least
    BY <1>1, SmallerOf
  <2>2. Max({0, base - least}) = IF 0 >= base - least THEN 0 ELSE base - least
    BY <1>1, <1>a, LargerOf
  <2>3. Dropped(j) = Max({0, base - least})
    BY <1>3, <2>1 DEF Dropped, rec
  <2> QED
    BY <2>2, <2>3, <1>1, <1>a
<1>7. from \in Nat /\ spillFrom \in Nat /\ from <= total /\ spillFrom <= from /\ sent <= from
  BY <1>1, <1>a
<1>8. /\ Cardinality(Delta(j)) = total - from
      /\ Cardinality(Unspilled(j)) = total - spillFrom
  <2> HIDE DEF total, from, spillFrom
  <2>0. from + 1 \in Int /\ spillFrom + 1 \in Int /\ total \in Int
    BY <1>1, <1>7
  <2>1. Cardinality(from + 1 .. total) = IF from + 1 > total THEN 0 ELSE total - (from + 1) + 1
    BY <2>0, FS_Interval
  <2>2. Cardinality(spillFrom + 1 .. total) =
          IF spillFrom + 1 > total THEN 0 ELSE total - (spillFrom + 1) + 1
    BY <2>0, FS_Interval
  <2>3. from <= total /\ spillFrom <= total
    BY <1>1, <1>7
  <2> QED
    BY <2>1, <2>2, <2>3, <1>1, <1>4, <1>5, <1>7
<1>9. Displayed(j) \subseteq sent + 1 .. total
  <2>1. CASE total - from <= Threshold
    BY <2>1, <1>1, <1>4, <1>7, <1>8 DEF Displayed
  <2>2. CASE ~(total - from <= Threshold)
    <3>1. Displayed(j) = {total}
      BY <2>2, <1>8 DEF Displayed, rec
    <3> QED
      BY <3>1, <2>2, <1>1, <1>2, <1>7
  <2> QED
    BY <2>1, <2>2
<1>10. sent + 1 .. base \subseteq Base(j) - Dropped(j) + 1 .. Base(j)
  <2>1. base - dropped + 1 <= sent + 1
    BY <1>1, <1>a
  <2>2. dropped \in Nat
    BY <1>1, <1>a
  <2> QED
    BY <2>1, <2>2, <1>1, <1>a, <1>3, <1>6
<1>11. sent + 1 .. total \subseteq (sent + 1 .. base) \cup Delta(j)
  BY <1>1, <1>a, <1>4
<1>12. ASSUME ~(Delta(j) # {} /\ Cardinality(Unspilled(j)) > Threshold)
       PROVE  Displayed(j) = Delta(j)
  <2>1. CASE Delta(j) = {}
    <3>1. total - from <= Threshold
      BY <2>1, <1>1, <1>2, <1>4, <1>7
    <3> QED
      BY <3>1, <1>8 DEF Displayed
  <2>2. CASE ~(total - spillFrom > Threshold)
    <3>1. total - from <= Threshold
      BY <2>2, <1>1, <1>2, <1>7
    <3> QED
      BY <3>1, <1>8 DEF Displayed
  <2> QED
    BY <1>12, <1>8, <2>1, <2>2
<1>13. Delta(j) \subseteq Unspilled(j)
  BY <1>1, <1>4, <1>5, <1>7
<1>14. job[j].shownTo = sent /\ job[j].total = total
  BY <1>1 DEF rec
<1> HIDE DEF total, sent, spilled, base
<1> QED
  BY <1>9, <1>10, <1>11, <1>12, <1>13, <1>14

\* A step that writes, exits, closes, kills or releases tells nothing: whatever it does to
\* the numbers, it only adds output.
LEMMA QuietStep ==
    ASSUME JobsInv, NEW k \in 1 .. Jobs, job'[k].total \in Nat, job'[k].total >= job[k].total,
           job'[k].sent = job[k].sent, job'[k].shownTo = job[k].shownTo,
           job'[k].spilled = job[k].spilled,
           job'[k].silent = job[k].silent, job'[k].repeated = job[k].repeated
    PROVE  CursorInStep(k)'
<1>1. job[k].total \in Nat /\ job[k].sent \in Nat /\ job[k].spilled \in Nat
  BY DEF JobsInv, JobsShape, JobRecord
<1>2. CursorInStep(k)
  BY DEF JobsInv
<1> QED
  BY <1>1, <1>2 DEF CursorInStep

\* A start lists a job beside those that live, if there is room.
LEMMA StartKeeps ==
    ASSUME JobsInv, NEW j \in 1 .. Jobs, StartJob(j)
    PROVE  JobsInv'
<1> DEFINE kept == {k \in Listed : ~Reaped(k)}
           table == [k \in 1 .. Jobs |-> [job[k] EXCEPT !.listed = k \in kept]]
           fresh == [NoJob EXCEPT !.started = TRUE, !.listed = TRUE, !.running = TRUE]
<1>1. kept = Living /\ kept \subseteq 1 .. Jobs
  BY DEF Living, Listed, Reaped
<1>2. job' = IF Cardinality(kept) < MaxJobs THEN [table EXCEPT ![j] = fresh] ELSE table
  BY DEF StartJob
<1>3. ASSUME NEW k \in 1 .. Jobs PROVE table[k] \in JobRecord
  <2>1. job[k] \in JobRecord
    BY DEF JobsInv, JobsShape
  <2>2. \A r \in JobRecord, b \in BOOLEAN : [r EXCEPT !.listed = b] \in JobRecord
    BY DEF JobRecord
  <2>3. (k \in kept) \in BOOLEAN
    OBVIOUS
  <2> HIDE DEF kept
  <2>4. table[k] = [job[k] EXCEPT !.listed = k \in kept]
    OBVIOUS
  <2> QED
    BY <2>1, <2>2, <2>3, <2>4, Zenon
<1>4. fresh \in JobRecord
  BY DEF NoJob, JobRecord
<1>5. \A k \in 1 .. Jobs : job[k] \in JobRecord /\ CursorInStep(k) /\ InHand(k)
  BY DEF JobsInv, JobsShape
<1>6. ASSUME NEW k \in 1 .. Jobs
      PROVE  /\ table[k].listed = (k \in kept)
             /\ table[k].started = job[k].started /\ table[k].running = job[k].running
             /\ table[k].exited = job[k].exited /\ table[k].escalates = job[k].escalates
             /\ table[k].total = job[k].total /\ table[k].sent = job[k].sent
             /\ table[k].shownTo = job[k].shownTo /\ table[k].spilled = job[k].spilled
             /\ table[k].silent = job[k].silent /\ table[k].repeated = job[k].repeated
  BY <1>5 DEF JobRecord
<1>7. ASSUME NEW k \in 1 .. Jobs
      PROVE  job'[k] = table[k] \/ (k = j /\ Cardinality(kept) < MaxJobs /\ job'[k] = fresh)
  BY <1>2
<1>8. JobsShape'
  BY <1>2, <1>3, <1>4 DEF JobsShape
<1>a. /\ fresh.started /\ fresh.listed /\ fresh.running /\ ~fresh.exited
      /\ fresh.total = 0 /\ fresh.sent = 0 /\ fresh.shownTo = 0 /\ fresh.spilled = 0
      /\ fresh.silent = {} /\ fresh.repeated = {}
  BY DEF NoJob
<1> HIDE DEF kept, table, fresh
<1>9. ASSUME NEW k \in 1 .. Jobs PROVE CursorInStep(k)'
  <2>1. CASE job'[k] = table[k]
    BY <2>1, <1>5, <1>6 DEF CursorInStep
  <2>2. CASE job'[k] = fresh
    BY <2>2, <1>a DEF CursorInStep
  <2> QED
    BY <2>1, <2>2, <1>7
<1>10. ASSUME NEW k \in 1 .. Jobs PROVE InHand(k)'
  <2>1. CASE job'[k] = table[k]
    <3>1. k \in kept <=> job[k].listed /\ job[k].running /\ ~job[k].exited
      BY <1>1 DEF Living, Listed, Alive
    <3>2. /\ job'[k].listed = (k \in kept) /\ job'[k].started = job[k].started
          /\ job'[k].running = job[k].running /\ job'[k].exited = job[k].exited
          /\ job'[k].escalates = job[k].escalates
      BY <2>1, <1>6, Zenon
    <3>3. InHand(k)
      BY <1>5
    <3>4. job'[k].listed => job'[k].started
      BY <3>1, <3>2, <3>3, Zenon DEF InHand
    <3>5. job'[k].running /\ ~job'[k].exited /\ ~job'[k].listed => job'[k].escalates
      BY <3>1, <3>2, <3>3, Zenon DEF InHand
    <3> QED
      BY <3>4, <3>5, Zenon DEF InHand
  <2>2. CASE job'[k] = fresh
    BY <2>2, <1>a DEF InHand
  <2> QED
    BY <2>1, <2>2, <1>7
<1>11. Cardinality(Living') <= MaxJobs
  <2>0. IsFiniteSet(1 .. Jobs)
    BY FS_Interval, JobsAssumption
  <2>1. IsFiniteSet(kept) /\ Cardinality(kept) \in Nat
    BY <2>0, <1>1, FS_Subset, FS_CardinalityType
  <2>2. CASE Cardinality(kept) < MaxJobs
    <3>1. Living' \subseteq kept \cup {j}
      <4>1. ASSUME NEW k \in Living', k # j PROVE k \in kept
        <5>1. k \in 1 .. Jobs /\ job'[k].listed
          BY <4>1, Zenon DEF Living, Listed
        <5>2. job'[k] = table[k]
          BY <4>1, <5>1, <1>7
        <5>3. table[k].listed = (k \in kept)
          BY <5>1, <1>6, Zenon
        <5>4. table[k].listed
          BY <5>1, <5>2
        <5> QED
          BY <5>3, <5>4, Zenon
      <4> QED
        BY <4>1
    <3>2. IsFiniteSet(kept \cup {j}) /\ Cardinality(kept \cup {j}) <= Cardinality(kept) + 1
      BY <2>1, FS_AddElement
    <3>3. Cardinality(Living') <= Cardinality(kept \cup {j}) /\ IsFiniteSet(Living')
      BY <3>1, <3>2, FS_Subset
    <3>4. Cardinality(Living') \in Nat /\ Cardinality(kept \cup {j}) \in Nat
      BY <3>2, <3>3, FS_CardinalityType
    <3>5. MaxJobs \in Nat
      BY JobsAssumption
    <3> QED
      BY <2>1, <2>2, <3>2, <3>3, <3>4, <3>5
  <2>3. CASE ~(Cardinality(kept) < MaxJobs)
    <3>1. Living' \subseteq Living
      <4>1. ASSUME NEW k \in Living' PROVE k \in kept
        <5>1. k \in 1 .. Jobs /\ job'[k].listed
          BY <4>1, Zenon DEF Living, Listed
        <5>2. job'[k] = table[k]
          BY <2>3, <5>1, <1>7
        <5>3. table[k].listed = (k \in kept)
          BY <5>1, <1>6, Zenon
        <5>4. table[k].listed
          BY <5>1, <5>2
        <5> QED
          BY <5>3, <5>4, Zenon
      <4> QED
        BY <4>1, <1>1
    <3> QED
      BY <3>1, FewerLive
  <2> QED
    BY <2>2, <2>3
<1> QED
  BY <1>8, <1>9, <1>10, <1>11 DEF JobsInv

\* A poll moves the cursor to the end of what it has told.
LEMMA PollKeeps ==
    ASSUME JobsInv, NEW j \in 1 .. Jobs, Poll(j)
    PROVE  JobsInv'
<1> DEFINE spills == Delta(j) # {} /\ Cardinality(Unspilled(j)) > Threshold
           named == Base(j) - Dropped(j) + 1 .. Base(j)
           passed == job[j].shownTo + 1 .. job[j].total
           telling(elsewhere) ==
             [job[j] EXCEPT !.sent = job[j].total, !.shownTo = job[j].total,
                !.silent = @ \cup (passed \ (Displayed(j) \cup named \cup elsewhere)),
                !.repeated = @ \cup (Displayed(j) \ passed)]
<1>1. \A k \in 1 .. Jobs : job[k] \in JobRecord /\ CursorInStep(k) /\ InHand(k)
  BY DEF JobsInv, JobsShape
<1>2. \E elsewhere \in SUBSET Nat, s \in {job[j].spilled, job[j].total} :
        /\ passed \subseteq Displayed(j) \cup named \cup elsewhere
        /\ job' = [job EXCEPT ![j] = [telling(elsewhere) EXCEPT !.spilled = s]]
  <2>1. CASE spills
    <3>1. Unspilled(j) \in SUBSET Nat
      <4>1. Base(j) \in Int /\ job[j].spilled \in Nat
        BY <1>1, JobsAssumption, LargerOf DEF Base, JobRecord
      <4>2. Max({job[j].spilled, Base(j)}) \in Int /\ Max({job[j].spilled, Base(j)}) >= job[j].spilled
        BY <4>1, LargerOf
      <4> QED
        BY <4>1, <4>2 DEF Unspilled
    <3>2. passed \subseteq Displayed(j) \cup named \cup Unspilled(j)
      BY <2>1, PollTellsAll
    <3>3. telling(Unspilled(j)) = [telling(Unspilled(j)) EXCEPT !.spilled = job[j].spilled]
      BY <1>1 DEF JobRecord
    <3>4. Polled(j, Unspilled(j)) = telling(Unspilled(j))
      BY DEF Polled, NextSent
    <3> HIDE DEF telling
    <3>5. \E s \in {job[j].spilled, job[j].total} :
            job' = [job EXCEPT ![j] = [telling(Unspilled(j)) EXCEPT !.spilled = s]]
      BY <2>1, <3>3, <3>4 DEF Poll
    <3> QED
      BY <3>1, <3>2, <3>5
  <2>2. CASE ~spills
    <3>2. passed \subseteq Displayed(j) \cup named \cup {}
      BY <2>2, PollTellsAll
    <3>3. telling({}) = [telling({}) EXCEPT !.spilled = job[j].spilled]
      BY <1>1 DEF JobRecord
    <3>4. Polled(j, {}) = telling({})
      BY DEF Polled, NextSent
    <3> HIDE DEF telling
    <3>5. job' = [job EXCEPT ![j] = [telling({}) EXCEPT !.spilled = job[j].spilled]]
      BY <2>2, <3>3, <3>4 DEF Poll
    <3> QED
      BY <3>2, <3>5
  <2> QED
    BY <2>1, <2>2
<1>3. PICK elsewhere \in SUBSET Nat, s \in {job[j].spilled, job[j].total} :
        /\ passed \subseteq Displayed(j) \cup named \cup elsewhere
        /\ job' = [job EXCEPT ![j] = [telling(elsewhere) EXCEPT !.spilled = s]]
  BY <1>2
<1>4. Displayed(j) \subseteq passed
  BY PollTellsAll
<1>5. [telling(elsewhere) EXCEPT !.spilled = s] =
        [job[j] EXCEPT !.sent = job[j].total, !.shownTo = job[j].total, !.spilled = s]
  <2>1. job[j].silent \cup (passed \ (Displayed(j) \cup named \cup elsewhere)) = job[j].silent
    BY <1>3
  <2>2. job[j].repeated \cup (Displayed(j) \ passed) = job[j].repeated
    BY <1>4
  <2> HIDE DEF passed, named
  <2> QED
    BY <2>1, <2>2, <1>1 DEF JobRecord
<1>6. job' = [job EXCEPT ![j] = [job[j] EXCEPT !.sent = job[j].total, !.shownTo = job[j].total,
                                               !.spilled = s]]
  BY <1>3, <1>5
<1> HIDE DEF telling, passed, named, spills
<1>7. job[j].total \in Nat /\ s \in Nat /\ s <= job[j].total
  BY <1>1 DEF JobRecord, CursorInStep
<1>8. JobsShape'
  <2>1. [job[j] EXCEPT !.sent = job[j].total, !.shownTo = job[j].total, !.spilled = s] \in JobRecord
    BY <1>1, <1>7 DEF JobRecord
  <2> QED
    BY <2>1, <1>6 DEF JobsInv, JobsShape
<1>9. ASSUME NEW k \in 1 .. Jobs PROVE CursorInStep(k)'
  BY <1>1, <1>6, <1>7 DEF JobsInv, JobsShape, JobRecord, CursorInStep
<1>10. ASSUME NEW k \in 1 .. Jobs
       PROVE  /\ job'[k].listed = job[k].listed /\ job'[k].started = job[k].started
              /\ job'[k].running = job[k].running /\ job'[k].exited = job[k].exited
              /\ job'[k].escalates = job[k].escalates
  BY <1>1, <1>6 DEF JobsInv, JobsShape, JobRecord
<1>11. ASSUME NEW k \in 1 .. Jobs PROVE InHand(k)'
  BY <1>1, <1>10, Zenon DEF InHand
<1>12. Living' = Living
  BY <1>10, Zenon DEF Living, Listed, Alive
<1> QED
  BY <1>8, <1>9, <1>11, <1>12, FewerLive DEF JobsInv

\* Kill, output, exit and close change one record, and never add a live job.
LEMMA OneRecordKeeps ==
    ASSUME JobsInv, NEW j \in 1 .. Jobs, NEW r \in JobRecord, job' = [job EXCEPT ![j] = r],
           r.total >= job[j].total, r.sent = job[j].sent, r.shownTo = job[j].shownTo,
           r.spilled = job[j].spilled, r.silent = job[j].silent, r.repeated = job[j].repeated,
           r.listed = job[j].listed, r.started = job[j].started,
           r.running /\ ~r.exited => job[j].running /\ ~job[j].exited,
           r.running /\ ~r.exited /\ job[j].escalates => r.escalates
    PROVE  JobsInv'
<1>1. \A k \in 1 .. Jobs : job[k] \in JobRecord /\ CursorInStep(k) /\ InHand(k)
  BY DEF JobsInv, JobsShape
<1>2. \A k \in 1 .. Jobs : job'[k] = IF k = j THEN r ELSE job[k]
  BY DEF JobsInv, JobsShape
<1>3. JobsShape'
  BY DEF JobsInv, JobsShape
<1>4. ASSUME NEW k \in 1 .. Jobs PROVE CursorInStep(k)'
  <2>1. CASE k = j
    BY <2>1, <1>1, <1>2, QuietStep DEF JobRecord
  <2>2. CASE k # j
    BY <2>2, <1>1, <1>2 DEF CursorInStep
  <2> QED
    BY <2>1, <2>2
<1>5. ASSUME NEW k \in 1 .. Jobs PROVE InHand(k)'
  <2>1. CASE k = j
    <3>1. job'[k] = r /\ InHand(j)
      BY <2>1, <1>1, <1>2
    <3> QED
      BY <2>1, <3>1, Zenon DEF InHand
  <2>2. CASE k # j
    <3>1. job'[k] = job[k] /\ InHand(k)
      BY <2>2, <1>1, <1>2
    <3> QED
      BY <3>1, Zenon DEF InHand
  <2> QED
    BY <2>1, <2>2
<1>6. Living' \subseteq Living
  <2>1. ASSUME NEW k \in Living' PROVE k \in Living
    <3>1. k \in 1 .. Jobs /\ job'[k].listed /\ job'[k].running /\ ~job'[k].exited
      BY <2>1, Zenon DEF Living, Listed, Alive
    <3>2. job[k].listed /\ job[k].running /\ ~job[k].exited
      <4>1. CASE k = j
        <5>1. job'[k] = r
          BY <3>1, <4>1, <1>2
        <5> QED
          BY <3>1, <4>1, <5>1, Zenon
      <4>2. CASE k # j
        <5>1. job'[k] = job[k]
          BY <3>1, <4>2, <1>2
        <5> QED
          BY <3>1, <5>1, Zenon
      <4> QED
        BY <4>1, <4>2
    <3> QED
      BY <3>1, <3>2, Zenon DEF Living, Listed, Alive
  <2> QED
    BY <2>1
<1> QED
  BY <1>3, <1>4, <1>5, <1>6, FewerLive DEF JobsInv

\* The release of the workspace drops every record and leaves no live job without a
\* signal that ends it.
LEMMA DisposeKeeps ==
    ASSUME JobsInv, Dispose
    PROVE  JobsInv'
<1> DEFINE dying(k) == job[k].escalates \/ (k \in Listed /\ job[k].running)
           r(k) == [job[k] EXCEPT !.listed = FALSE, !.escalates = dying(k)]
<1>1. \A k \in 1 .. Jobs : job[k] \in JobRecord /\ CursorInStep(k) /\ InHand(k)
  BY DEF JobsInv, JobsShape
<1>2. job' = [k \in 1 .. Jobs |-> r(k)]
  BY <1>1 DEF Dispose, JobRecord
<1>3. ASSUME NEW k \in 1 .. Jobs
      PROVE  /\ r(k) \in JobRecord
             /\ ~r(k).listed /\ r(k).running = job[k].running /\ r(k).exited = job[k].exited
             /\ r(k).escalates = dying(k)
             /\ r(k).total = job[k].total /\ r(k).sent = job[k].sent
             /\ r(k).shownTo = job[k].shownTo /\ r(k).spilled = job[k].spilled
             /\ r(k).silent = job[k].silent /\ r(k).repeated = job[k].repeated
  <2>1. \A rec \in JobRecord, b \in BOOLEAN :
          LET s == [rec EXCEPT !.listed = FALSE, !.escalates = b] IN
          /\ s \in JobRecord
          /\ ~s.listed /\ s.running = rec.running /\ s.exited = rec.exited /\ s.escalates = b
          /\ s.total = rec.total /\ s.sent = rec.sent /\ s.shownTo = rec.shownTo
          /\ s.spilled = rec.spilled /\ s.silent = rec.silent /\ s.repeated = rec.repeated
    BY DEF JobRecord
  <2>2. job[k] \in JobRecord /\ dying(k) \in BOOLEAN
    BY <1>1
  <2> HIDE DEF dying
  <2> QED
    BY <2>1, <2>2, Zenon
<1>4. ASSUME NEW k \in 1 .. Jobs PROVE job'[k] = r(k)
  BY <1>2
<1> HIDE DEF r
<1>5. JobsShape'
  BY <1>2, <1>3 DEF JobsShape
<1>6. ASSUME NEW k \in 1 .. Jobs PROVE CursorInStep(k)'
  <2>1. CursorInStep(k)
    BY <1>1
  <2>2. /\ job'[k].total = job[k].total /\ job'[k].sent = job[k].sent
        /\ job'[k].shownTo = job[k].shownTo /\ job'[k].spilled = job[k].spilled
        /\ job'[k].silent = job[k].silent /\ job'[k].repeated = job[k].repeated
    BY <1>3, <1>4, Zenon
  <2> QED
    BY <2>1, <2>2, Zenon DEF CursorInStep
<1>7. ASSUME NEW k \in 1 .. Jobs PROVE InHand(k)'
  <2>1. InHand(k)
    BY <1>1
  <2>2. /\ ~job'[k].listed /\ job'[k].running = job[k].running /\ job'[k].exited = job[k].exited
        /\ job'[k].escalates = dying(k)
    BY <1>3, <1>4, Zenon
  <2>3. job[k].listed => k \in Listed
    BY DEF Listed
  <2>4. job[k].running /\ ~job[k].exited => dying(k)
    BY <2>1, <2>3, Zenon DEF InHand
  <2> QED
    BY <2>2, <2>4, Zenon DEF InHand
<1>8. Living' \subseteq Living
  <2>1. ASSUME NEW k \in Living' PROVE FALSE
    <3>1. k \in 1 .. Jobs /\ job'[k].listed
      BY <2>1, Zenon DEF Living, Listed
    <3> QED
      BY <3>1, <1>3, <1>4, Zenon
  <2> QED
    BY <2>1
<1> QED
  BY <1>5, <1>6, <1>7, <1>8, FewerLive DEF JobsInv

\* Every step of the registry and of the jobs keeps the invariant.
LEMMA JobsNextInv == JobsInv /\ [JobsNext]_jobVars => JobsInv'
<1> SUFFICES ASSUME JobsInv, [JobsNext]_jobVars PROVE JobsInv'
  OBVIOUS
<1>0. ASSUME NEW j \in 1 .. Jobs
      PROVE  job[j] \in JobRecord /\ job[j].total \in Nat /\ job \in [1 .. Jobs -> JobRecord]
  BY DEF JobsInv, JobsShape, JobRecord
<1>1. ASSUME NEW j \in 1 .. Jobs, StartJob(j) PROVE JobsInv'
  BY <1>1, StartKeeps
<1>2. ASSUME NEW j \in 1 .. Jobs, Poll(j) PROVE JobsInv'
  BY <1>2, PollKeeps
<1>3. ASSUME NEW j \in 1 .. Jobs, Kill(j) PROVE JobsInv'
  <2> DEFINE r == [job[j] EXCEPT !.killed = TRUE, !.escalates = job[j].running]
  <2>1. job' = [job EXCEPT ![j] = r]
    BY <1>3, <1>0 DEF Kill, JobRecord
  <2>2. /\ r \in JobRecord /\ r.running = job[j].running /\ r.exited = job[j].exited
        /\ r.escalates = job[j].running /\ r.listed = job[j].listed /\ r.started = job[j].started
        /\ r.silent = job[j].silent /\ r.repeated = job[j].repeated
    BY <1>0 DEF JobRecord
  <2>3. /\ r.total >= job[j].total /\ r.sent = job[j].sent /\ r.shownTo = job[j].shownTo
        /\ r.spilled = job[j].spilled
    BY <1>0 DEF JobRecord
  <2>4. /\ r.running /\ ~r.exited => job[j].running /\ ~job[j].exited
        /\ r.running /\ ~r.exited /\ job[j].escalates => r.escalates
    BY <2>2, Zenon
  <2> HIDE DEF r
  <2> QED
    BY <2>1, <2>2, <2>3, <2>4, OneRecordKeeps
<1>4. ASSUME NEW j \in 1 .. Jobs, Output(j) PROVE JobsInv'
  <2>1. PICK n \in 1 .. MaxOutput - job[j].total : job' = [job EXCEPT ![j].total = @ + n]
    BY <1>4 DEF Output
  <2> DEFINE r == [job[j] EXCEPT !.total = job[j].total + n]
  <2>2. job' = [job EXCEPT ![j] = r]
    BY <2>1, <1>0 DEF JobRecord
  <2>3. job[j].total + n \in Nat /\ job[j].total + n >= job[j].total
    BY <1>0, JobsAssumption
  <2>4. /\ r \in JobRecord /\ r.running = job[j].running /\ r.exited = job[j].exited
        /\ r.escalates = job[j].escalates /\ r.listed = job[j].listed /\ r.started = job[j].started
        /\ r.silent = job[j].silent /\ r.repeated = job[j].repeated
    BY <1>0, <2>3 DEF JobRecord
  <2>5. /\ r.total >= job[j].total /\ r.sent = job[j].sent /\ r.shownTo = job[j].shownTo
        /\ r.spilled = job[j].spilled
    BY <1>0, <2>3 DEF JobRecord
  <2>6. /\ r.running /\ ~r.exited => job[j].running /\ ~job[j].exited
        /\ r.running /\ ~r.exited /\ job[j].escalates => r.escalates
    BY <2>4, Zenon
  <2> HIDE DEF r
  <2> QED
    BY <2>2, <2>4, <2>5, <2>6, OneRecordKeeps
<1>5. ASSUME NEW j \in 1 .. Jobs, Exits(j) PROVE JobsInv'
  <2> DEFINE r == [job[j] EXCEPT !.exited = TRUE]
  <2>1. job' = [job EXCEPT ![j] = r]
    BY <1>5, <1>0 DEF Exits, JobRecord
  <2>2. /\ r \in JobRecord /\ r.exited
        /\ r.listed = job[j].listed /\ r.started = job[j].started
        /\ r.silent = job[j].silent /\ r.repeated = job[j].repeated
    BY <1>0 DEF JobRecord
  <2>3. /\ r.total >= job[j].total /\ r.sent = job[j].sent /\ r.shownTo = job[j].shownTo
        /\ r.spilled = job[j].spilled
    BY <1>0 DEF JobRecord
  <2> HIDE DEF r
  <2> QED
    BY <2>1, <2>2, <2>3, OneRecordKeeps
<1>6. ASSUME NEW j \in 1 .. Jobs, Closes(j) PROVE JobsInv'
  <2> DEFINE r == [job[j] EXCEPT !.running = FALSE, !.escalates = FALSE]
  <2>1. job' = [job EXCEPT ![j] = r]
    BY <1>6, <1>0 DEF Closes, JobRecord
  <2>2. /\ r \in JobRecord /\ ~r.running
        /\ r.listed = job[j].listed /\ r.started = job[j].started
        /\ r.silent = job[j].silent /\ r.repeated = job[j].repeated
    BY <1>0 DEF JobRecord
  <2>3. /\ r.total >= job[j].total /\ r.sent = job[j].sent /\ r.shownTo = job[j].shownTo
        /\ r.spilled = job[j].spilled
    BY <1>0 DEF JobRecord
  <2> HIDE DEF r
  <2> QED
    BY <2>1, <2>2, <2>3, OneRecordKeeps
<1>7. CASE Dispose
  BY <1>7, DisposeKeeps
<1>8. CASE UNCHANGED jobVars
  BY <1>8 DEF jobVars, JobsInv, JobsShape, CursorInStep, InHand, Living, Listed, Alive
<1> QED
  BY <1>1, <1>2, <1>3, <1>4, <1>5, <1>6, <1>7, <1>8 DEF JobsNext

\* The invariant says what a model and an operator rely on.
LEMMA JobsInvTells == JobsInv => JobsTypeOK /\ JobsTellAndEnd
<1> SUFFICES ASSUME JobsInv PROVE JobsTypeOK /\ JobsTellAndEnd
  OBVIOUS
<1>1. ASSUME NEW j \in 1 .. Jobs
      PROVE  /\ job[j].total \in Nat /\ job[j].sent \in Nat /\ job[j].spilled \in Nat
             /\ CursorInStep(j) /\ InHand(j)
  BY DEF JobsInv, JobsShape, JobRecord
<1>2. ASSUME NEW j \in 1 .. Jobs
      PROVE  {job[j].sent, job[j].shownTo} \subseteq 0 .. job[j].total /\ job[j].spilled \in 0 .. job[j].total
  BY <1>1 DEF CursorInStep
<1>3. ASSUME NEW j \in 1 .. Jobs PROVE job[j].listed => job[j].started
  BY <1>1, Zenon DEF InHand
<1>4. PollsAreHonest
  BY <1>1, Zenon DEF PollsAreHonest, CursorInStep
<1>5. JobsAreBounded
  BY <1>1, Zenon DEF JobsAreBounded, JobsInv, Living, InHand, Alive
<1> QED
  BY <1>2, <1>3, <1>4, <1>5 DEF JobsTypeOK, JobsTellAndEnd

\* A poll passes over nothing in silence and tells nothing twice, and the workspace never
\* has more live jobs than its ceiling, nor one that nobody will end.
THEOREM JobsAreHonestAndBounded == JobsSpec => [](JobsTypeOK /\ JobsTellAndEnd)
  BY JobsInitInv, JobsNextInv, JobsInvTells, PTL DEF JobsSpec

-----------------------------------------------------------------------------
(* The persistent shell.                                                   *)

Piece == [by : 1 .. Sends, mark : BOOLEAN]
ShellRecord ==
    [started : BOOLEAN, alive : BOOLEAN, closed : BOOLEAN, stdin : Seq(1 .. Sends),
     out : Seq(Piece), cursor : Nat, queue : Seq(1 .. Sends)]
SendRecord ==
    [state : {"none", "queued", "polling", "done"}, on : 0 .. Shells, aborted : BOOLEAN,
     reply : {"none", "shown", "late", "exited", "no shell", "aborted"},
     from : Nat \ {0}, to : Nat, lost : Nat]
ShellShape ==
    /\ current \in 0 .. Shells
    /\ shell \in [1 .. Shells -> ShellRecord]
    /\ send \in [1 .. Sends -> SendRecord]

\* Where the markers stand in an output.
Marks(o) == {p \in 1 .. Len(o) : o[p].mark}

\* The commands run in the order of their sends: the output o of earlier ones stands before
\* that of later ones, nothing of a command comes after its marker, and the input w that is
\* left is later still.
InTurn(o, w) ==
    /\ \A p \in 1 .. Len(o), q \in 1 .. Len(o) :
         p < q => o[p].by <= o[q].by /\ (p \in Marks(o) => o[p].by < o[q].by)
    /\ \A i \in 1 .. Len(w), k \in 1 .. Len(w) : i < k => w[i] < w[k]
    /\ \A p \in 1 .. Len(o), i \in 1 .. Len(w) :
         o[p].by <= w[i] /\ (p \in Marks(o) => o[p].by < w[i])

\* What shell g has been given to run.
Given(g) ==
    {s \in 1 .. Sends : \/ \E i \in 1 .. Len(shell[g].stdin) : shell[g].stdin[i] = s
                        \/ \E p \in 1 .. Len(shell[g].out) : shell[g].out[p].by = s}

\* The sends are called one after the other.
CalledInTurn ==
    \A s, t \in 1 .. Sends : s < t /\ send[t].state # "none" => send[s].state # "none"

\* A queue holds waiting sends of its shell in the order they were called, and only its
\* head can have been given to the shell.
QueueInTurn(g) ==
    LET line == shell[g].queue IN
    /\ \A i, k \in 1 .. Len(line) : i < k => line[i] < line[k]
    /\ \A i \in 1 .. Len(line) :
         /\ send[line[i]].on = g
         /\ send[line[i]].state = "queued" \/ (i = 1 /\ send[line[i]].state = "polling")
    /\ \A s \in Given(g), i \in 1 .. Len(line) : s <= line[i]

\* What was given to a shell belongs to it, and is polling or has ended in a way that says
\* what became of its output.
GivenIsKnown(g) ==
    \A s \in Given(g) :
        /\ send[s].on = g
        /\ \/ send[s].state = "polling"
           \/ send[s].state = "done" /\ send[s].reply \in {"shown", "late", "exited", "aborted"}

\* The cursor stands behind the marker of a send that is done.
CursorOnMark(g) ==
    LET h == shell[g] IN
    /\ h.cursor \in 0 .. Len(h.out)
    /\ h.cursor # 0 => h.cursor \in Marks(h.out) /\ send[h.out[h.cursor].by].state = "done"

\* A send that waits stands in the queue of a shell, at the head when it polls.
WaitsInQueue(s) ==
    send[s].state \in {"queued", "polling"} =>
        /\ send[s].on \in 1 .. Shells
        /\ \E i \in 1 .. Len(shell[send[s].on].queue) :
             shell[send[s].on].queue[i] = s /\ (send[s].state = "polling" => i = 1)

\* What a send that found its marker has shown, and all of its output, is behind the cursor.
ShownIsBehind(s) ==
    send[s].reply = "shown" =>
        LET h == shell[send[s].on] IN
        /\ send[s].state = "done" /\ send[s].on \in 1 .. Shells
        /\ send[s].to + 1 <= h.cursor
        /\ send[s].to + 1 \in Marks(h.out) /\ h.out[send[s].to + 1].by = s

\* Whoever finds its shell dead leaves it forgotten, and nobody polls there any more.
ExitedIsForgotten(s) ==
    send[s].reply = "exited" =>
        /\ current # send[s].on /\ send[s].on \in 1 .. Shells
        /\ \A t \in 1 .. Sends : send[t].on = send[s].on => send[t].state # "polling"

\* An aborted send says so for good; one that has not been called says nothing.
RepliesStand(s) ==
    /\ send[s].aborted <=> send[s].reply = "aborted"
    /\ send[s].reply \in {"late", "exited", "no shell"} => send[s].state = "done"
    /\ send[s].state = "none" => send[s].reply = "none"

\* Only a shell that was started is anybody's.
OnStarted ==
    /\ \A g \in 1 .. Shells : shell[g].started \/ shell[g] = NotStarted
    /\ current # NoShell => shell[current].started
    /\ \A s \in 1 .. Sends : send[s].on # NoShell => shell[send[s].on].started

\* A send that found its marker shows its own output, all of it that the buffer still had,
\* and no more than that of earlier sends that were given up.
ShowsItsOwn(s) ==
    send[s].reply = "shown" =>
        LET written == shell[send[s].on].out IN
        /\ \A p \in ShownBy(s) : written[p].by = s \/ (written[p].by < s /\ GivenUp(written[p].by))
        /\ \A p \in 1 .. send[s].to :
             written[p].by = s => p \in ShownBy(s) \/ p <= send[s].lost

\* Two sends show different parts of their shell's output.
ShowApart(s, t) ==
    send[s].reply = "shown" /\ send[t].reply = "shown" /\ send[s].on = send[t].on /\ s # t =>
        ShownBy(s) \cap ShownBy(t) = {}

\* The invariant of the shells.
ShellInv ==
    /\ ShellShape /\ OnStarted /\ LiveShellIsReachable /\ CalledInTurn
    /\ \A g \in 1 .. Shells : /\ InTurn(shell[g].out, shell[g].stdin)
                              /\ QueueInTurn(g) /\ GivenIsKnown(g) /\ CursorOnMark(g)
    /\ \A s \in 1 .. Sends : /\ WaitsInQueue(s) /\ ShownIsBehind(s)
                             /\ ExitedIsForgotten(s) /\ RepliesStand(s) /\ ShowsItsOwn(s)
    /\ \A s, t \in 1 .. Sends : ShowApart(s, t)

-----------------------------------------------------------------------------
\* Facts about outputs and inputs.

\* The markers of an output that is one piece longer.
LEMMA MarksAppend ==
    ASSUME NEW o \in Seq(Piece), NEW x \in Piece
    PROVE  Marks(Append(o, x)) = IF x.mark THEN Marks(o) \cup {Len(o) + 1} ELSE Marks(o)
<1>1. /\ Len(Append(o, x)) = Len(o) + 1 /\ Len(o) \in Nat
      /\ \A p \in 1 .. Len(o) : Append(o, x)[p] = o[p]
      /\ Append(o, x)[Len(o) + 1] = x
  OBVIOUS
<1>2. \A p : p \in Marks(Append(o, x)) <=> p \in 1 .. Len(o) + 1 /\ Append(o, x)[p].mark
  BY <1>1 DEF Marks
<1>3. \A p : p \in 1 .. Len(o) + 1 <=> p \in 1 .. Len(o) \/ p = Len(o) + 1
  BY <1>1
<1>4. \A p : p \in Marks(o) <=> p \in 1 .. Len(o) /\ o[p].mark
  BY DEF Marks
<1>5. CASE x.mark
  BY <1>1, <1>2, <1>3, <1>4, <1>5, Zenon
<1>6. CASE ~x.mark
  BY <1>1, <1>2, <1>3, <1>4, <1>6, Zenon
<1> QED
  BY <1>5, <1>6

\* What the command at the head of the input writes stands in turn.
LEMMA HeadWrites ==
    ASSUME NEW o \in Seq(Piece), NEW w \in Seq(1 .. Sends), w # << >>, InTurn(o, w),
           NEW v \in Piece, v.by = w[1]
    PROVE  LET longer == Append(o, v) IN
           /\ \A p \in 1 .. Len(o) + 1, q \in 1 .. Len(o) + 1 :
                p < q => /\ longer[p].by <= longer[q].by
                         /\ p \in Marks(o) => longer[p].by < longer[q].by
           /\ \A p \in 1 .. Len(o) + 1, i \in 1 .. Len(w) :
                /\ longer[p].by <= w[i]
                /\ p \in Marks(o) => longer[p].by < w[i]
<1> DEFINE longer == Append(o, v)
<1>a. \A p \in 1 .. Len(o) : o[p] \in Piece
  BY ElementOfSeq
<1>b. Len(o) \in Nat /\ \A p \in 1 .. Len(o) : o[p].by \in 1 .. Sends
  BY <1>a DEF Piece
<1>c. Len(w) \in Nat /\ Len(w) # 0
  BY EmptySeq
<1>d. \A i \in 1 .. Len(w) : w[i] \in 1 .. Sends
  BY ElementOfSeq
<1>1. /\ Len(longer) = Len(o) + 1 /\ longer[Len(o) + 1] = v
      /\ \A p \in 1 .. Len(o) : longer[p] = o[p]
  OBVIOUS
<1>2. Marks(o) \subseteq 1 .. Len(o)
  BY DEF Marks
<1>3. \A p \in 1 .. Len(o) + 1 : p \in 1 .. Len(o) \/ p = Len(o) + 1
  BY <1>b
<1> HIDE DEF longer
<1>4. ASSUME NEW p \in 1 .. Len(o) + 1, NEW q \in 1 .. Len(o) + 1, p < q
      PROVE  /\ longer[p].by <= longer[q].by
             /\ p \in Marks(o) => longer[p].by < longer[q].by
  <2>1. p \in 1 .. Len(o) /\ longer[p] = o[p]
    BY <1>b, <1>1, <1>4
  <2>2. CASE q \in 1 .. Len(o)
    BY <1>1, <1>4, <2>1, <2>2 DEF InTurn
  <2>3. CASE q = Len(o) + 1
    <3>1. longer[q].by = w[1] /\ 1 \in 1 .. Len(w)
      BY <1>1, <1>c, <2>3
    <3> QED
      BY <2>1, <3>1 DEF InTurn
  <2> QED
    BY <1>3, <2>2, <2>3
<1>5. ASSUME NEW p \in 1 .. Len(o) + 1, NEW i \in 1 .. Len(w)
      PROVE  /\ longer[p].by <= w[i]
             /\ p \in Marks(o) => longer[p].by < w[i]
  <2>1. CASE p \in 1 .. Len(o)
    BY <1>1, <2>1 DEF InTurn
  <2>2. CASE p = Len(o) + 1
    <3>1. longer[p].by = w[1] /\ p \notin Marks(o)
      BY <1>b, <1>1, <1>2, <2>2
    <3>2. w[1] <= w[i]
      <4>1. CASE i = 1
        BY <4>1, <1>d
      <4>2. CASE i # 1
        <5>1. 1 \in 1 .. Len(w) /\ 1 < i
          BY <1>c, <4>2
        <5>2. w[1] < w[i]
          BY <5>1 DEF InTurn
        <5>3. w[1] \in Nat /\ w[i] \in Nat
          BY <1>d, <5>1
        <5> QED
          BY <5>2, <5>3
      <4> QED
        BY <4>1, <4>2
    <3> QED
      BY <3>1, <3>2
  <2> QED
    BY <1>3, <2>1, <2>2
<1> QED
  BY <1>4, <1>5 DEF longer

\* A command writes in its turn, and after its marker the next one is at the head.
LEMMA WritesInTurn ==
    ASSUME NEW o \in Seq(Piece), NEW w \in Seq(1 .. Sends), w # << >>, InTurn(o, w),
           NEW v \in Piece, v.by = Head(w)
    PROVE  /\ ~v.mark => InTurn(Append(o, v), w)
           /\ InTurn(Append(o, v), Tail(w))
<1> DEFINE longer == Append(o, v)
<1>1. Len(w) \in Nat /\ Len(w) # 0 /\ Len(o) \in Nat
  BY EmptySeq
<1>2. Head(w) = w[1] /\ Len(Tail(w)) = Len(w) - 1
  BY <1>1, HeadTailProperties
<1>3. \A i \in 1 .. Len(w) - 1 : Tail(w)[i] = w[i + 1] /\ i + 1 \in 1 .. Len(w)
  BY <1>1, <1>2, HeadTailProperties
<1>4. Len(longer) = Len(o) + 1 /\ longer[Len(o) + 1] = v
  OBVIOUS
<1>5. /\ ~v.mark => Marks(longer) = Marks(o)
      /\ Marks(longer) \subseteq Marks(o) \cup {Len(o) + 1}
  BY MarksAppend
<1> HIDE DEF longer
<1>6. ASSUME NEW p \in 1 .. Len(o) + 1, NEW q \in 1 .. Len(o) + 1, p < q
      PROVE  /\ longer[p].by <= longer[q].by
             /\ p \in Marks(o) => longer[p].by < longer[q].by
  BY <1>2, <1>6, HeadWrites DEF longer
<1>7. ASSUME NEW p \in 1 .. Len(o) + 1, NEW i \in 1 .. Len(w)
      PROVE  /\ longer[p].by <= w[i]
             /\ p \in Marks(o) => longer[p].by < w[i]
  BY <1>2, HeadWrites DEF longer
<1>8. \A i \in 1 .. Len(w), k \in 1 .. Len(w) : i < k => w[i] < w[k]
  BY DEF InTurn
<1>9. ~v.mark => InTurn(longer, w)
  BY <1>4, <1>5, <1>6, <1>7, <1>8, Zenon DEF InTurn
<1>10. InTurn(longer, Tail(w))
  <2>1. ASSUME NEW i \in 1 .. Len(Tail(w)), NEW k \in 1 .. Len(Tail(w)), i < k
        PROVE  Tail(w)[i] < Tail(w)[k]
    <3>1. i + 1 < k + 1
      BY <1>1, <1>2, <2>1
    <3>2. /\ Tail(w)[i] = w[i + 1] /\ Tail(w)[k] = w[k + 1]
          /\ i + 1 \in 1 .. Len(w) /\ k + 1 \in 1 .. Len(w)
      BY <1>2, <1>3
    <3> QED
      BY <3>1, <3>2, <1>8
  <2>2. ASSUME NEW p \in 1 .. Len(o) + 1, NEW q \in 1 .. Len(o) + 1, p < q
        PROVE  /\ longer[p].by <= longer[q].by
               /\ p \in Marks(longer) => longer[p].by < longer[q].by
    <3>1. p # Len(o) + 1
      BY <1>1, <2>2
    <3>2. p \in Marks(longer) => p \in Marks(o)
      BY <3>1, <1>5
    <3> QED
      BY <2>2, <3>2, <1>6
  <2>3. ASSUME NEW p \in 1 .. Len(o) + 1, NEW i \in 1 .. Len(Tail(w))
        PROVE  /\ longer[p].by <= Tail(w)[i]
               /\ p \in Marks(longer) => longer[p].by < Tail(w)[i]
    <3> DEFINE k == i + 1
    <3>1. k \in 1 .. Len(w) /\ Tail(w)[i] = w[k] /\ 1 \in 1 .. Len(w) /\ 1 < k
      BY <1>1, <1>2, <1>3
    <3> HIDE DEF k
    <3>2. w[1] < w[k]
      BY <3>1, <1>8
    <3>3. longer[p].by <= w[k] /\ (p \in Marks(o) => longer[p].by < w[k])
      BY <3>1, <1>7
    <3>4. CASE p = Len(o) + 1
      BY <3>1, <3>2, <3>3, <3>4, <1>2, <1>4
    <3>5. CASE p # Len(o) + 1
      BY <3>1, <3>3, <3>5, <1>5
    <3> QED
      BY <3>4, <3>5
  <2> QED
    BY <1>4, <2>1, <2>2, <2>3, Zenon DEF InTurn
<1> QED
  BY <1>9, <1>10 DEF longer

\* A later send takes its turn at the end of the input.
LEMMA GivesInTurn ==
    ASSUME NEW o \in Seq(Piece), NEW w \in Seq(1 .. Sends), NEW s \in 1 .. Sends, InTurn(o, w),
           \A p \in 1 .. Len(o) : o[p].by < s, \A i \in 1 .. Len(w) : w[i] < s
    PROVE  InTurn(o, Append(w, s))
<1>1. /\ Len(Append(w, s)) = Len(w) + 1 /\ Len(w) \in Nat
      /\ \A i \in 1 .. Len(w) : Append(w, s)[i] = w[i]
      /\ Append(w, s)[Len(w) + 1] = s
  OBVIOUS
<1>a. \A p \in 1 .. Len(o) : o[p] \in Piece
  BY ElementOfSeq
<1>2. \A p \in 1 .. Len(o) : o[p].by \in 1 .. Sends
  BY <1>a DEF Piece
<1>3. \A i \in 1 .. Len(w) + 1 : i \in 1 .. Len(w) \/ i = Len(w) + 1
  BY <1>1
<1>4. ASSUME NEW i \in 1 .. Len(w) + 1, NEW k \in 1 .. Len(w) + 1, i < k
      PROVE  Append(w, s)[i] < Append(w, s)[k]
  <2>1. i \in 1 .. Len(w)
    BY <1>1, <1>4
  <2>2. CASE k \in 1 .. Len(w)
    BY <1>1, <1>4, <2>1, <2>2 DEF InTurn
  <2>3. CASE k = Len(w) + 1
    BY <1>1, <2>1, <2>3
  <2> QED
    BY <1>3, <2>2, <2>3
<1>5. ASSUME NEW p \in 1 .. Len(o), NEW i \in 1 .. Len(w) + 1
      PROVE  o[p].by <= Append(w, s)[i] /\ (p \in Marks(o) => o[p].by < Append(w, s)[i])
  <2>1. CASE i \in 1 .. Len(w)
    BY <1>1, <2>1 DEF InTurn
  <2>2. CASE i = Len(w) + 1
    BY <1>1, <1>2, <2>2
  <2> QED
    BY <1>3, <2>1, <2>2
<1> QED
  BY <1>1, <1>4, <1>5, Zenon DEF InTurn

-----------------------------------------------------------------------------
\* What a step leaves standing.

\* No output is lost and no cursor goes back.
OutputStays ==
    \A g \in 1 .. Shells :
        /\ shell[g].cursor <= shell'[g].cursor
        /\ Len(shell[g].out) <= Len(shell'[g].out)
        /\ \A p \in 1 .. Len(shell[g].out) : shell'[g].out[p] = shell[g].out[p]

\* Whoever was given up stays so.
LossStays == \A s \in 1 .. Sends : GivenUp(s) => GivenUp(s)'

\* Send s is not shown in this step, and what it has shown it keeps.
ReportStays(s) ==
    send'[s].reply = "shown" =>
        /\ send[s].reply = "shown" /\ send'[s].state = "done"
        /\ send'[s].on = send[s].on /\ send'[s].from = send[s].from
        /\ send'[s].to = send[s].to /\ send'[s].lost = send[s].lost

\* What the parts of the state range over.
LEMMA ShellFields ==
    ASSUME ShellShape, NEW g \in 1 .. Shells
    PROVE  /\ shell[g] \in ShellRecord
           /\ shell[g].out \in Seq(Piece) /\ shell[g].stdin \in Seq(1 .. Sends)
           /\ shell[g].queue \in Seq(1 .. Sends) /\ shell[g].cursor \in Nat
           /\ Len(shell[g].out) \in Nat /\ Len(shell[g].stdin) \in Nat /\ Len(shell[g].queue) \in Nat
           /\ \A p \in 1 .. Len(shell[g].out) : /\ shell[g].out[p] \in Piece
                                                /\ shell[g].out[p].by \in 1 .. Sends
           /\ \A i \in 1 .. Len(shell[g].stdin) : shell[g].stdin[i] \in 1 .. Sends
           /\ \A i \in 1 .. Len(shell[g].queue) : shell[g].queue[i] \in 1 .. Sends
<1>1. shell[g] \in ShellRecord
  BY DEF ShellShape
<1>2. /\ shell[g].out \in Seq(Piece) /\ shell[g].stdin \in Seq(1 .. Sends)
      /\ shell[g].queue \in Seq(1 .. Sends) /\ shell[g].cursor \in Nat
  BY <1>1 DEF ShellRecord
<1>3. \A p \in 1 .. Len(shell[g].out) : shell[g].out[p] \in Piece
  BY <1>2, ElementOfSeq
<1>4. \A p \in 1 .. Len(shell[g].out) : shell[g].out[p].by \in 1 .. Sends
  BY <1>3 DEF Piece
<1>5. /\ \A i \in 1 .. Len(shell[g].stdin) : shell[g].stdin[i] \in 1 .. Sends
      /\ \A i \in 1 .. Len(shell[g].queue) : shell[g].queue[i] \in 1 .. Sends
  BY <1>2, ElementOfSeq
<1> QED
  BY <1>1, <1>2, <1>3, <1>4, <1>5

\* The fields of a send.
LEMMA SendFields ==
    ASSUME ShellShape, NEW s \in 1 .. Sends
    PROVE  /\ send[s] \in SendRecord
           /\ send[s].on \in 0 .. Shells /\ send[s].from \in Nat \ {0} /\ send[s].to \in Nat
           /\ send[s].lost \in Nat
  BY DEF ShellShape, SendRecord

\* A marker stays where it is.
LEMMA MarksStay ==
    ASSUME ShellShape, OutputStays, NEW g \in 1 .. Shells, NEW p \in Marks(shell[g].out)
    PROVE  /\ p \in 1 .. Len(shell[g].out) /\ p \in Marks(shell'[g].out)
           /\ shell'[g].out[p] = shell[g].out[p]
<1>1. p \in 1 .. Len(shell[g].out) /\ shell[g].out[p].mark
  BY DEF Marks
<1>2. shell'[g].out[p] = shell[g].out[p] /\ Len(shell[g].out) <= Len(shell'[g].out)
  BY <1>1 DEF OutputStays
<1>3. Len(shell[g].out) \in Nat
  BY ShellFields
<1>4. p \in 1 .. Len(shell'[g].out)
  BY <1>1, <1>2, <1>3
<1> QED
  BY <1>1, <1>2, <1>4 DEF Marks

\* What a send has shown stays behind the cursor and its own, whatever is written later.
LEMMA ShownStays ==
    ASSUME ShellShape, OutputStays, LossStays, NEW s \in 1 .. Sends, ReportStays(s),
           ShownIsBehind(s), ShowsItsOwn(s), shell' \in [1 .. Shells -> ShellRecord]
    PROVE  ShownIsBehind(s)' /\ ShowsItsOwn(s)'
<1> SUFFICES ASSUME send'[s].reply = "shown"
             PROVE  ShownIsBehind(s)' /\ ShowsItsOwn(s)'
  BY DEF ShownIsBehind, ShowsItsOwn
<1> DEFINE g == send[s].on
           last == send[s].to + 1
<1>1. /\ send[s].reply = "shown" /\ send'[s].state = "done"
      /\ send'[s].on = g /\ send'[s].from = send[s].from
      /\ send'[s].to = send[s].to /\ send'[s].lost = send[s].lost
  BY DEF ReportStays
<1>2. /\ g \in 1 .. Shells /\ last <= shell[g].cursor
      /\ last \in Marks(shell[g].out) /\ shell[g].out[last].by = s
  BY <1>1 DEF ShownIsBehind
<1>3. /\ send[s].from \in Nat \ {0} /\ send[s].to \in Nat
  BY SendFields
<1> HIDE DEF g
<1>4. /\ Len(shell[g].out) \in Nat /\ shell[g].cursor \in Nat
      /\ \A p \in 1 .. Len(shell[g].out) : shell[g].out[p].by \in 1 .. Sends
  BY <1>2, ShellFields
<1>5. shell[g].cursor <= shell'[g].cursor /\ shell'[g].cursor \in Nat
  BY <1>2 DEF OutputStays, ShellRecord
<1>6. /\ last \in 1 .. Len(shell[g].out) /\ last \in Marks(shell'[g].out)
      /\ shell'[g].out[last] = shell[g].out[last]
  BY <1>2, MarksStay
<1>7. ShownIsBehind(s)'
  <2>1. last <= shell'[g].cursor
    BY <1>2, <1>3, <1>4, <1>5
  <2> QED
    BY <1>1, <1>2, <1>6, <2>1 DEF ShownIsBehind
<1>8. \A p \in 1 .. send[s].to : p \in 1 .. Len(shell[g].out)
  BY <1>3, <1>4, <1>6
<1>9. \A p \in 1 .. send[s].to : shell'[g].out[p] = shell[g].out[p]
  BY <1>2, <1>8 DEF OutputStays
<1>10. ShownBy(s)' = ShownBy(s) /\ ShownBy(s) \subseteq 1 .. send[s].to
  BY <1>1, <1>3 DEF ShownBy
<1>11. ASSUME NEW p \in ShownBy(s)
       PROVE  \/ shell'[g].out[p].by = s
              \/ /\ shell'[g].out[p].by < s
                 /\ send'[shell'[g].out[p].by].reply \in {"late", "aborted"}
  <2>1. p \in 1 .. send[s].to /\ shell'[g].out[p] = shell[g].out[p]
    BY <1>9, <1>10
  <2>2. shell[g].out[p].by = s \/ (shell[g].out[p].by < s /\ GivenUp(shell[g].out[p].by))
    BY <1>1, <1>11 DEF ShowsItsOwn, g
  <2>3. shell[g].out[p].by \in 1 .. Sends
    BY <1>4, <1>8, <2>1
  <2>4. PICK t \in 1 .. Sends : t = shell[g].out[p].by
    BY <2>3
  <2>5. send[t].reply \in {"late", "aborted"} => send'[t].reply \in {"late", "aborted"}
    BY DEF LossStays, GivenUp
  <2>6. t = s \/ (t < s /\ send[t].reply \in {"late", "aborted"})
    BY <2>2, <2>4 DEF GivenUp
  <2>7. shell'[g].out[p].by = t
    BY <2>1, <2>4
  <2> QED
    BY <2>5, <2>6, <2>7
<1>12. ASSUME NEW p \in 1 .. send[s].to, shell'[g].out[p].by = s
       PROVE  p \in ShownBy(s) \/ p <= send[s].lost
  BY <1>1, <1>9, <1>12 DEF ShowsItsOwn, g
<1>13. ShowsItsOwn(s)'
  BY <1>1, <1>10, <1>11, <1>12 DEF ShowsItsOwn, GivenUp
<1> QED
  BY <1>7, <1>13

\* Parts that were apart stay so.
LEMMA ApartStays ==
    ASSUME NEW s \in 1 .. Sends, NEW t \in 1 .. Sends, ReportStays(s), ReportStays(t), ShowApart(s, t)
    PROVE  ShowApart(s, t)'
  BY DEF ReportStays, ShowApart, ShownBy

-----------------------------------------------------------------------------
\* The steps of the shells themselves.

\* Shell g goes on as r: the same queue and cursor, no output lost, the rest in turn, and
\* nothing to run that it was not given.
GoesOn(g, r) ==
    /\ r.queue = shell[g].queue /\ r.cursor = shell[g].cursor /\ r.started
    /\ Len(shell[g].out) <= Len(r.out)
    /\ \A p \in 1 .. Len(shell[g].out) : r.out[p] = shell[g].out[p]
    /\ InTurn(r.out, r.stdin)
    /\ \A i \in 1 .. Len(r.stdin) : r.stdin[i] \in Given(g)
    /\ \A p \in 1 .. Len(r.out) : r.out[p].by \in Given(g)

\* The workspace's shell is one that was started and that nobody has found dead.
CurrentIsSound ==
    /\ current \in 0 .. Shells
    /\ current # NoShell => shell[current].started
    /\ \A s \in 1 .. Sends : send[s].reply = "exited" => current # send[s].on

\* Neither the sends nor what they rely on notice such a step.
LEMMA ShellGoesOn ==
    ASSUME ShellInv, send' = send, NEW g \in 1 .. Shells, NEW r \in ShellRecord,
           shell' = [shell EXCEPT ![g] = r], GoesOn(g, r), CurrentIsSound', LiveShellIsReachable'
    PROVE  ShellInv'
<1>0. /\ ShellShape /\ OnStarted /\ CalledInTurn
      /\ \A h \in 1 .. Shells : /\ InTurn(shell[h].out, shell[h].stdin)
                                /\ QueueInTurn(h) /\ GivenIsKnown(h) /\ CursorOnMark(h)
      /\ \A s \in 1 .. Sends : /\ WaitsInQueue(s) /\ ShownIsBehind(s)
                               /\ ExitedIsForgotten(s) /\ RepliesStand(s) /\ ShowsItsOwn(s)
      /\ \A s, t \in 1 .. Sends : ShowApart(s, t)
  BY DEF ShellInv
<1>1. shell' \in [1 .. Shells -> ShellRecord] /\ shell'[g] = r
  BY <1>0 DEF ShellShape
<1>2. ShellShape'
  BY <1>0, <1>1 DEF ShellShape, CurrentIsSound
<1>3. \A h \in 1 .. Shells : h # g => shell'[h] = shell[h]
  BY <1>0 DEF ShellShape
<1>4. \A h \in 1 .. Shells : shell'[h].queue = shell[h].queue /\ shell'[h].cursor = shell[h].cursor
  BY <1>1, <1>3 DEF GoesOn
<1>5. \A h \in 1 .. Shells : shell[h].started => shell'[h].started
  BY <1>1, <1>3, Zenon DEF GoesOn
<1>6. OutputStays
  <2>1. ASSUME NEW h \in 1 .. Shells
        PROVE  /\ shell[h].cursor <= shell'[h].cursor
               /\ Len(shell[h].out) <= Len(shell'[h].out)
               /\ \A p \in 1 .. Len(shell[h].out) : shell'[h].out[p] = shell[h].out[p]
    <3>1. shell[h].cursor \in Nat /\ Len(shell[h].out) \in Nat
      BY <1>0, ShellFields
    <3>2. CASE h = g
      BY <3>1, <3>2, <1>1, <1>4 DEF GoesOn
    <3>3. CASE h # g
      BY <3>1, <3>3, <1>3
    <3> QED
      BY <3>2, <3>3
  <2> QED
    BY <2>1 DEF OutputStays
<1>7. LossStays
  BY DEF LossStays, GivenUp
<1>8. ASSUME NEW s \in 1 .. Sends PROVE ReportStays(s)
  BY <1>0 DEF ReportStays, ShownIsBehind
<1>9. ASSUME NEW s \in 1 .. Sends PROVE ShownIsBehind(s)' /\ ShowsItsOwn(s)'
  BY <1>0, <1>1, <1>6, <1>7, <1>8, ShownStays
<1>10. ASSUME NEW s \in 1 .. Sends, NEW t \in 1 .. Sends PROVE ShowApart(s, t)'
  BY <1>0, <1>8, ApartStays
<1>11. OnStarted'
  <2>1. ASSUME NEW h \in 1 .. Shells PROVE (shell[h].started \/ shell[h] = NotStarted)'
    BY <1>0, <1>1, <1>3 DEF OnStarted, GoesOn
  <2>2. ASSUME NEW s \in 1 .. Sends, send[s].on # NoShell PROVE shell'[send[s].on].started
    <3>1. send[s].on \in 1 .. Shells
      BY <1>0, <2>2, SendFields, ShellAssumption DEF NoShell
    <3> QED
      BY <1>0, <1>5, <2>2, <3>1, Zenon DEF OnStarted
  <2> QED
    BY <2>1, <2>2 DEF OnStarted, CurrentIsSound
<1>12. CalledInTurn'
  BY <1>0 DEF CalledInTurn
<1>13. ASSUME NEW h \in 1 .. Shells PROVE InTurn(shell[h].out, shell[h].stdin)'
  BY <1>0, <1>1, <1>3 DEF GoesOn
<1>14. ASSUME NEW h \in 1 .. Shells PROVE Given(h)' \subseteq Given(h)
  <2>1. CASE h = g
    <3>1. ASSUME NEW s \in Given(h)' PROVE s \in Given(g)
      <4>1. \/ \E i \in 1 .. Len(r.stdin) : r.stdin[i] = s
            \/ \E p \in 1 .. Len(r.out) : r.out[p].by = s
        BY <1>1, <2>1, <3>1 DEF Given
      <4> QED
        BY <4>1, Zenon DEF GoesOn
    <3> QED
      BY <2>1, <3>1
  <2>2. CASE h # g
    BY <1>3, <2>2 DEF Given
  <2> QED
    BY <2>1, <2>2
<1>15. ASSUME NEW h \in 1 .. Shells PROVE QueueInTurn(h)' /\ GivenIsKnown(h)'
  <2>1. shell'[h].queue = shell[h].queue /\ Given(h)' \subseteq Given(h)
    BY <1>4, <1>14
  <2>2. QueueInTurn(h) /\ GivenIsKnown(h)
    BY <1>0
  <2> QED
    BY <2>1, <2>2, Zenon DEF QueueInTurn, GivenIsKnown
<1>16. ASSUME NEW h \in 1 .. Shells PROVE CursorOnMark(h)'
  <2>1. CursorOnMark(h)
    BY <1>0
  <2>2. Len(shell[h].out) \in Nat /\ Len(shell'[h].out) \in Nat /\ Len(shell[h].out) <= Len(shell'[h].out)
    BY <1>0, <1>1, <1>6, ShellFields DEF OutputStays, ShellRecord
  <2>3. shell'[h].cursor \in 0 .. Len(shell'[h].out)
    BY <1>4, <2>1, <2>2 DEF CursorOnMark
  <2>4. shell'[h].cursor # 0 => /\ shell'[h].cursor \in Marks(shell'[h].out)
                                /\ send[shell'[h].out[shell'[h].cursor].by].state = "done"
    <3> SUFFICES ASSUME shell'[h].cursor # 0
                 PROVE  /\ shell'[h].cursor \in Marks(shell'[h].out)
                        /\ send[shell'[h].out[shell'[h].cursor].by].state = "done"
      OBVIOUS
    <3>1. PICK p \in Marks(shell[h].out) : p = shell[h].cursor /\ send[shell[h].out[p].by].state = "done"
      BY <1>4, <2>1 DEF CursorOnMark
    <3>2. p \in Marks(shell'[h].out) /\ shell'[h].out[p] = shell[h].out[p]
      BY <1>0, <1>6, MarksStay
    <3> QED
      BY <1>4, <3>1, <3>2
  <2> QED
    BY <2>3, <2>4 DEF CursorOnMark
<1>17. ASSUME NEW s \in 1 .. Sends PROVE WaitsInQueue(s)' /\ ExitedIsForgotten(s)' /\ RepliesStand(s)'
  <2>1. WaitsInQueue(s)'
    <3>1. WaitsInQueue(s)
      BY <1>0
    <3>2. send[s].on \in 1 .. Shells => shell'[send[s].on].queue = shell[send[s].on].queue
      BY <1>4
    <3> QED
      BY <3>1, <3>2, Zenon DEF WaitsInQueue
  <2>2. ExitedIsForgotten(s)'
    BY <1>0, Zenon DEF ExitedIsForgotten, CurrentIsSound
  <2>3. RepliesStand(s)'
    BY <1>0 DEF RepliesStand
  <2> QED
    BY <2>1, <2>2, <2>3
<1> QED
  BY <1>2, <1>9, <1>10, <1>11, <1>12, <1>13, <1>15, <1>16, <1>17 DEF ShellInv

\* A start replaces nothing but a shell that is dead, so the new one is the only one.
LEMMA StartShellKeeps ==
    ASSUME ShellInv, NEW g \in 1 .. Shells, StartShell(g)
    PROVE  ShellInv'
<1> DEFINE r == [NotStarted EXCEPT !.started = TRUE, !.alive = TRUE]
<1>1. /\ ~shell[g].started /\ (current # NoShell => ~shell[current].alive)
      /\ current' = g /\ shell' = [shell EXCEPT ![g] = r] /\ send' = send
  BY DEF StartShell
<1>2. shell[g] = NotStarted
  BY <1>1 DEF ShellInv, OnStarted
<1>3. r \in ShellRecord
  <2>1. << >> \in Seq(Piece) /\ << >> \in Seq(1 .. Sends)
    OBVIOUS
  <2> QED
    BY <2>1 DEF NotStarted, ShellRecord
<1>4. GoesOn(g, r)
  BY <1>2 DEF NotStarted, GoesOn, InTurn
<1>5. shell \in [1 .. Shells -> ShellRecord] /\ current \in 0 .. Shells
  BY DEF ShellInv, ShellShape
<1>6. CurrentIsSound'
  <2>1. shell'[g].started
    BY <1>1, <1>5 DEF NotStarted
  <2>2. ASSUME NEW s \in 1 .. Sends, send[s].reply = "exited" PROVE g # send[s].on
    <3>1. send[s].on \in 1 .. Shells
      BY <2>2 DEF ShellInv, ExitedIsForgotten
    <3>2. shell[send[s].on].started
      BY <3>1, ShellAssumption DEF ShellInv, OnStarted, NoShell
    <3> QED
      BY <3>2, <1>1
  <2> QED
    BY <1>1, <2>1, <2>2, ShellAssumption DEF CurrentIsSound, NoShell
<1>7. LiveShellIsReachable'
  <2>1. ASSUME NEW h \in 1 .. Shells, shell'[h].alive, ~shell'[h].closed, h # g PROVE FALSE
    <3>1. shell[h].alive /\ ~shell[h].closed
      BY <1>1, <1>5, <2>1
    <3>2. current = h
      BY <3>1 DEF ShellInv, LiveShellIsReachable
    <3> QED
      BY <1>1, <3>1, <3>2, ShellAssumption DEF NoShell
  <2> QED
    BY <1>1, <2>1 DEF LiveShellIsReachable
<1> HIDE DEF r
<1> QED
  BY <1>1, <1>3, <1>4, <1>6, <1>7, ShellGoesOn

\* A shell that changes neither its input nor its output goes on.
LEMMA SameGoesOn ==
    ASSUME ShellInv, NEW g \in 1 .. Shells, NEW r \in ShellRecord, r.started,
           r.queue = shell[g].queue, r.cursor = shell[g].cursor, r.out = shell[g].out,
           r.stdin = shell[g].stdin \/ r.stdin = << >>
    PROVE  GoesOn(g, r)
<1>1. /\ InTurn(shell[g].out, shell[g].stdin) /\ Len(shell[g].out) \in Nat
      /\ \A i \in 1 .. Len(shell[g].stdin) : shell[g].stdin[i] \in 1 .. Sends
      /\ \A p \in 1 .. Len(shell[g].out) : shell[g].out[p].by \in 1 .. Sends
  BY ShellFields DEF ShellInv
<1>2. /\ \A i \in 1 .. Len(shell[g].stdin) : shell[g].stdin[i] \in Given(g)
      /\ \A p \in 1 .. Len(shell[g].out) : shell[g].out[p].by \in Given(g)
  BY <1>1, Zenon DEF Given
<1>3. InTurn(shell[g].out, << >>)
  <2>1. \A i : i \notin 1 .. Len(<< >>)
    OBVIOUS
  <2> QED
    BY <1>1, <2>1, Zenon DEF InTurn
<1>4. \A i \in 1 .. Len(<< >>) : <<>>[i] \in Given(g)
  OBVIOUS
<1>5. CASE r.stdin = shell[g].stdin
  BY <1>1, <1>2, <1>5 DEF GoesOn
<1>6. CASE r.stdin = << >>
  <2>1. \A i \in 1 .. Len(r.stdin) : r.stdin[i] \in Given(g)
    BY <1>6
  <2>2. InTurn(r.out, r.stdin)
    BY <1>3, <1>6
  <2> QED
    BY <1>1, <1>2, <2>1, <2>2 DEF GoesOn
<1> QED
  BY <1>5, <1>6

\* A close forgets the shell it kills.
LEMMA CloseShellKeeps ==
    ASSUME ShellInv, CloseShell
    PROVE  ShellInv'
<1> DEFINE g == current
           r == [shell[g] EXCEPT !.closed = TRUE]
<1>0. shell \in [1 .. Shells -> ShellRecord] /\ current \in 0 .. Shells
  BY DEF ShellInv, ShellShape
<1>1. /\ g \in 1 .. Shells /\ shell' = [shell EXCEPT ![g] = r] /\ current' = NoShell /\ send' = send
  BY <1>0, ShellAssumption DEF CloseShell, NoShell
<1>2. shell[g] \in ShellRecord /\ shell[g].started
  BY <1>0, <1>1, ShellAssumption DEF ShellInv, OnStarted, NoShell
<1>3. /\ r \in ShellRecord /\ r.started /\ r.queue = shell[g].queue /\ r.cursor = shell[g].cursor
      /\ r.out = shell[g].out /\ r.stdin = shell[g].stdin /\ r.closed
  BY <1>2 DEF ShellRecord
<1>4. PICK c \in 1 .. Shells : c = g
  BY <1>1
<1>5. PICK q \in ShellRecord : q = r
  BY <1>3
<1>6. shell' = [shell EXCEPT ![c] = q]
  BY <1>1, <1>4, <1>5
<1>7. GoesOn(c, q)
  BY <1>3, <1>4, <1>5, SameGoesOn
<1>8. CurrentIsSound'
  <2>1. ASSUME NEW s \in 1 .. Sends, send[s].reply = "exited" PROVE NoShell # send[s].on
    BY <2>1, ShellAssumption DEF ShellInv, ExitedIsForgotten, NoShell
  <2> QED
    BY <1>1, <2>1, ShellAssumption DEF CurrentIsSound, NoShell
<1>9. LiveShellIsReachable'
  <2>1. ASSUME NEW h \in 1 .. Shells, shell'[h].alive, ~shell'[h].closed PROVE FALSE
    <3>1. CASE h = c
      BY <1>0, <1>3, <1>5, <1>6, <2>1, <3>1
    <3>2. CASE h # c
      <4>1. shell[h].alive /\ ~shell[h].closed
        BY <1>0, <1>6, <2>1, <3>2
      <4> QED
        BY <1>4, <3>2, <4>1 DEF ShellInv, LiveShellIsReachable
    <3> QED
      BY <3>1, <3>2
  <2> QED
    BY <2>1 DEF LiveShellIsReachable
<1> HIDE DEF r, g
<1> QED
  BY <1>1, <1>6, <1>7, <1>8, <1>9, ShellGoesOn

\* A shell that dies drops its input and no output.
LEMMA DiesKeeps ==
    ASSUME ShellInv, NEW g \in 1 .. Shells, Dies(g)
    PROVE  ShellInv'
<1> DEFINE r == [shell[g] EXCEPT !.alive = FALSE, !.stdin = << >>]
<1>0. shell \in [1 .. Shells -> ShellRecord] /\ current \in 0 .. Shells
  BY DEF ShellInv, ShellShape
<1>1. shell' = [shell EXCEPT ![g] = r] /\ current' = current /\ send' = send /\ shell[g].alive
  BY <1>0 DEF Dies, ShellRecord
<1>2. shell[g] \in ShellRecord /\ shell[g].started
  <2>1. shell[g] # NotStarted
    BY <1>1 DEF NotStarted
  <2> QED
    BY <1>0, <2>1 DEF ShellInv, OnStarted
<1>3. /\ r \in ShellRecord /\ r.started /\ r.queue = shell[g].queue /\ r.cursor = shell[g].cursor
      /\ r.out = shell[g].out /\ r.stdin = << >> /\ ~r.alive
  <2>1. << >> \in Seq(1 .. Sends)
    OBVIOUS
  <2> QED
    BY <1>2, <2>1 DEF ShellRecord
<1> HIDE DEF r
<1>4. GoesOn(g, r)
  BY <1>3, SameGoesOn
<1>5. \A h \in 1 .. Shells : h # g => shell'[h] = shell[h]
  BY <1>0, <1>1
<1>6. shell'[g] = r
  BY <1>0, <1>1
<1>7. CurrentIsSound'
  <2>1. current # NoShell => shell'[current].started
    BY <1>0, <1>3, <1>5, <1>6, ShellAssumption DEF ShellInv, OnStarted, NoShell
  <2> QED
    BY <1>0, <1>1, <2>1 DEF ShellInv, ExitedIsForgotten, CurrentIsSound
<1>8. LiveShellIsReachable'
  BY <1>1, <1>3, <1>5, <1>6 DEF ShellInv, LiveShellIsReachable
<1> QED
  BY <1>1, <1>3, <1>4, <1>7, <1>8, ShellGoesOn

\* A shell writes for the command at the head of its input.
LEMMA WritesKeeps ==
    ASSUME ShellInv, NEW g \in 1 .. Shells, Writes(g)
    PROVE  ShellInv'
<1>0. shell \in [1 .. Shells -> ShellRecord] /\ current \in 0 .. Shells
  BY DEF ShellInv, ShellShape
<1> DEFINE o == shell[g].out
           w == shell[g].stdin
           v(b) == [by |-> Head(w), mark |-> b]
<1>1. w # << >> /\ current' = current /\ send' = send /\ shell[g].alive
  BY DEF Writes
<1>2. /\ shell[g] \in ShellRecord /\ o \in Seq(Piece) /\ w \in Seq(1 .. Sends) /\ InTurn(o, w)
      /\ Len(o) \in Nat /\ Len(w) \in Nat
      /\ \A p \in 1 .. Len(o) : o[p].by \in 1 .. Sends
      /\ \A i \in 1 .. Len(w) : w[i] \in 1 .. Sends
  BY ShellFields DEF ShellInv
<1>3. Head(w) = w[1] /\ Len(w) # 0 /\ Head(w) \in 1 .. Sends
  BY <1>1, <1>2, EmptySeq, HeadTailProperties
<1>4. shell[g].started
  <2>1. shell[g] # NotStarted
    BY <1>1 DEF NotStarted
  <2> QED
    BY <2>1 DEF ShellInv, OnStarted
<1>5. /\ \A i \in 1 .. Len(w) : w[i] \in Given(g)
      /\ \A p \in 1 .. Len(o) : o[p].by \in Given(g)
  BY <1>2, Zenon DEF Given
<1>6. \E b \in BOOLEAN, rest \in {w, Tail(w)} :
        /\ shell' = [shell EXCEPT ![g] = [shell[g] EXCEPT !.out = Append(o, v(b)), !.stdin = rest]]
        /\ rest = w => ~b
  <2>1. CASE shell' = [shell EXCEPT ![g].out = Append(@, [by |-> Head(w), mark |-> FALSE])]
    <3>1. [shell[g] EXCEPT !.out = Append(o, v(FALSE))] =
            [shell[g] EXCEPT !.out = Append(o, v(FALSE)), !.stdin = w]
      BY <1>2 DEF ShellRecord
    <3> QED
      BY <2>1, <3>1
  <2>2. CASE shell' = [shell EXCEPT ![g].out = Append(@, [by |-> Head(w), mark |-> TRUE]),
                                    ![g].stdin = Tail(@)]
    <3>1. Tail(w) # w
      <4>1. Len(Tail(w)) = Len(w) - 1
        BY <1>1, <1>2, HeadTailProperties
      <4>2. Len(w) # Len(w) - 1
        BY <1>2
      <4> HIDE DEF w
      <4> QED
        BY <4>1, <4>2
    <3>2. shell' = [shell EXCEPT ![g] = [shell[g] EXCEPT !.out = Append(o, v(TRUE)), !.stdin = Tail(w)]]
      BY <2>2, <1>0 DEF ShellRecord
    <3> QED
      BY <3>1, <3>2
  <2> QED
    BY <2>1, <2>2 DEF Writes
<1>7. PICK b \in BOOLEAN, rest \in {w, Tail(w)} :
        /\ shell' = [shell EXCEPT ![g] = [shell[g] EXCEPT !.out = Append(o, v(b)), !.stdin = rest]]
        /\ rest = w => ~b
  BY <1>6
<1> DEFINE r == [shell[g] EXCEPT !.out = Append(o, v(b)), !.stdin = rest]
<1>8. v(b) \in Piece /\ v(b).by = Head(w) /\ (v(b).mark <=> b)
  BY <1>3 DEF Piece
<1>9. Tail(w) \in Seq(1 .. Sends) /\ Len(Tail(w)) = Len(w) - 1
      /\ \A i \in 1 .. Len(Tail(w)) : Tail(w)[i] = w[i + 1] /\ i + 1 \in 1 .. Len(w)
  <2> HIDE DEF w
  <2>1. Tail(w) \in Seq(1 .. Sends) /\ Len(Tail(w)) = Len(w) - 1
    BY <1>1, <1>2, HeadTailProperties
  <2>2. \A i \in 1 .. Len(Tail(w)) : Tail(w)[i] = w[i + 1]
    BY <1>1, <1>2, HeadTailProperties
  <2>3. \A i \in 1 .. Len(Tail(w)) : i + 1 \in 1 .. Len(w)
    BY <1>2, <2>1
  <2> QED
    BY <2>1, <2>2, <2>3
<1>10. InTurn(Append(o, v(b)), rest)
  <2>1. /\ ~v(b).mark => InTurn(Append(o, v(b)), w)
        /\ InTurn(Append(o, v(b)), Tail(w))
    <3> HIDE DEF v, o, w
    <3> QED
      BY <1>1, <1>2, <1>8, WritesInTurn
  <2> QED
    BY <2>1, <1>7, <1>8
<1>11. /\ Append(o, v(b)) \in Seq(Piece) /\ Len(Append(o, v(b))) = Len(o) + 1
       /\ Append(o, v(b))[Len(o) + 1] = v(b)
       /\ \A p \in 1 .. Len(o) : Append(o, v(b))[p] = o[p]
  <2> HIDE DEF v, o
  <2> QED
    BY <1>2, <1>8
<1>12. /\ r \in ShellRecord /\ r.out = Append(o, v(b)) /\ r.stdin = rest /\ r.started /\ r.alive
       /\ r.queue = shell[g].queue /\ r.cursor = shell[g].cursor /\ r.closed = shell[g].closed
  BY <1>1, <1>2, <1>4, <1>9, <1>11 DEF ShellRecord
<1>13. shell' = [shell EXCEPT ![g] = r]
  BY <1>7
<1> HIDE DEF r
<1>14. GoesOn(g, r)
  <2>1. \A i \in 1 .. Len(rest) : rest[i] \in Given(g)
    BY <1>5, <1>7, <1>9
  <2>2. ASSUME NEW p \in 1 .. Len(o) + 1 PROVE Append(o, v(b))[p].by \in Given(g)
    <3>1. CASE p \in 1 .. Len(o)
      BY <1>5, <1>11, <3>1
    <3>2. CASE p = Len(o) + 1
      BY <1>2, <1>3, <1>5, <1>8, <1>11, <3>2
    <3> QED
      BY <1>2, <3>1, <3>2
  <2> HIDE DEF v, o
  <2>3. Len(o) <= Len(o) + 1
    BY <1>2
  <2> QED
    BY <1>10, <1>11, <1>12, <2>1, <2>2, <2>3 DEF GoesOn, o
<1>15. \A h \in 1 .. Shells : h # g => shell'[h] = shell[h]
  BY <1>0, <1>13
<1>16. shell'[g] = r
  BY <1>0, <1>13
<1>17. CurrentIsSound'
  <2>1. current # NoShell => shell'[current].started
    BY <1>0, <1>12, <1>15, <1>16, ShellAssumption DEF ShellInv, OnStarted, NoShell
  <2> QED
    BY <1>0, <1>1, <2>1 DEF ShellInv, ExitedIsForgotten, CurrentIsSound
<1>18. LiveShellIsReachable'
  BY <1>1, <1>12, <1>15, <1>16, Zenon DEF ShellInv, LiveShellIsReachable
<1> HIDE DEF v, o, w
<1> QED
  BY <1>1, <1>12, <1>13, <1>14, <1>17, <1>18, ShellGoesOn

-----------------------------------------------------------------------------
\* The steps of the sends.

\* The parts of the invariant, by name.
LEMMA ShellParts ==
    ShellInv =>
      /\ ShellShape /\ OnStarted /\ LiveShellIsReachable /\ CalledInTurn
      /\ shell \in [1 .. Shells -> ShellRecord] /\ send \in [1 .. Sends -> SendRecord]
      /\ current \in 0 .. Shells
      /\ \A g \in 1 .. Shells : InTurn(shell[g].out, shell[g].stdin)
      /\ \A g \in 1 .. Shells : QueueInTurn(g)
      /\ \A g \in 1 .. Shells : GivenIsKnown(g)
      /\ \A g \in 1 .. Shells : CursorOnMark(g)
      /\ \A s \in 1 .. Sends : WaitsInQueue(s)
      /\ \A s \in 1 .. Sends : ShownIsBehind(s) /\ ShowsItsOwn(s)
      /\ \A s \in 1 .. Sends : ExitedIsForgotten(s)
      /\ \A s \in 1 .. Sends : RepliesStand(s)
      /\ \A s, t \in 1 .. Sends : ShowApart(s, t)
  BY DEF ShellInv, ShellShape

\* What the sends have shown stands when one of them changes without being shown.
LEMMA ReportsStand ==
    ASSUME ShellInv, shell' \in [1 .. Shells -> ShellRecord], OutputStays,
           NEW s \in 1 .. Sends, NEW r \in SendRecord, send' = [send EXCEPT ![s] = r],
           send[s].reply \in {"late", "aborted"} => r.reply \in {"late", "aborted"}
    PROVE  /\ LossStays
           /\ \A t \in 1 .. Sends : t # s \/ r.reply # "shown" =>
                ReportStays(t) /\ ShownIsBehind(t)' /\ ShowsItsOwn(t)'
<1>1. \A t \in 1 .. Sends : send'[t] = IF t = s THEN r ELSE send[t]
  BY ShellParts
<1>2. LossStays
  BY <1>1 DEF LossStays, GivenUp
<1>3. ASSUME NEW t \in 1 .. Sends, t # s \/ r.reply # "shown"
      PROVE  ReportStays(t) /\ ShownIsBehind(t)' /\ ShowsItsOwn(t)'
  <2>1. ShownIsBehind(t) /\ ShowsItsOwn(t) /\ ShellShape
    BY ShellParts
  <2>2. ReportStays(t)
    BY <1>1, <1>3, <2>1 DEF ReportStays, ShownIsBehind
  <2> QED
    BY <1>2, <2>1, <2>2, ShownStays
<1> QED
  BY <1>2, <1>3

\* The cursors stand on their marks when no shell's output changes and no send is undone.
LEMMA CursorStands ==
    ASSUME ShellInv, OutputStays, shell' \in [1 .. Shells -> ShellRecord], NEW g \in 1 .. Shells,
           shell'[g].cursor = shell[g].cursor,
           \A t \in 1 .. Sends : send[t].state = "done" => send'[t].state = "done"
    PROVE  CursorOnMark(g)'
<1>1. CursorOnMark(g) /\ ShellShape
  BY ShellParts
<1>2. /\ Len(shell[g].out) \in Nat /\ Len(shell'[g].out) \in Nat
      /\ Len(shell[g].out) <= Len(shell'[g].out)
  BY <1>1, ShellFields DEF OutputStays, ShellRecord
<1>3. shell'[g].cursor \in 0 .. Len(shell'[g].out)
  BY <1>1, <1>2 DEF CursorOnMark
<1>4. ASSUME shell'[g].cursor # 0
      PROVE  /\ shell'[g].cursor \in Marks(shell'[g].out)
             /\ send'[shell'[g].out[shell'[g].cursor].by].state = "done"
  <2>1. PICK p \in Marks(shell[g].out) : p = shell[g].cursor /\ send[shell[g].out[p].by].state = "done"
    BY <1>1, <1>4 DEF CursorOnMark
  <2>2. /\ p \in 1 .. Len(shell[g].out) /\ p \in Marks(shell'[g].out)
        /\ shell'[g].out[p] = shell[g].out[p]
    BY <1>1, MarksStay
  <2>3. shell[g].out[p].by \in 1 .. Sends
    BY <1>1, <2>2, ShellFields
  <2> QED
    BY <2>1, <2>2, <2>3
<1> QED
  BY <1>3, <1>4 DEF CursorOnMark

\* The conditions under which send s leaves the queue of shell g as r, with the cursor at c.
Leaves(s, g, r, c) ==
    /\ send[s].state \in {"queued", "polling"} /\ send[s].on = g /\ Head(shell[g].queue) = s
    /\ r.state = "done" /\ r.on = g
    /\ r.aborted <=> r.reply = "aborted"
    /\ send[s].state = "polling" => r.reply \in {"shown", "late", "exited", "aborted"}
    /\ send[s].reply \in {"late", "aborted"} => r.reply \in {"late", "aborted"}
    /\ shell[g].cursor <= c
    /\ send' = [send EXCEPT ![s] = r]
    /\ shell' = [shell EXCEPT ![g] = [shell[g] EXCEPT !.queue = Tail(@), !.cursor = c]]

\* Whoever leaves a queue is done, and the next one is not polling yet.
LEMMA LeavesKeeps ==
    ASSUME ShellInv, NEW s \in 1 .. Sends, NEW g \in 1 .. Shells, NEW r \in SendRecord, NEW c \in Nat,
           Leaves(s, g, r, c), CursorOnMark(g)', CurrentIsSound', LiveShellIsReachable',
           ShownIsBehind(s)', ShowsItsOwn(s)',
           \A t \in 1 .. Sends : ShowApart(s, t)' /\ ShowApart(t, s)'
    PROVE  ShellInv'
<1> DEFINE line == shell[g].queue
<1>0. ShellShape
  BY ShellParts
<1>1. /\ shell[g] \in ShellRecord /\ line \in Seq(1 .. Sends) /\ Len(line) \in Nat
      /\ \A i \in 1 .. Len(line) : line[i] \in 1 .. Sends
  BY <1>0, ShellFields
<1>2. /\ QueueInTurn(g) /\ WaitsInQueue(s)
  BY ShellParts
<1>3. Len(line) # 0 /\ line[1] = s
  <2>1. PICK i \in 1 .. Len(line) : line[i] = s
    BY <1>2 DEF WaitsInQueue, Leaves
  <2>2. line # << >>
    BY <1>1, <2>1
  <2> QED
    BY <1>1, <2>1, <2>2, HeadTailProperties DEF Leaves
<1>4. /\ Tail(line) \in Seq(1 .. Sends) /\ Len(Tail(line)) = Len(line) - 1
      /\ \A i \in 1 .. Len(Tail(line)) : Tail(line)[i] = line[i + 1]
  <2> HIDE DEF line
  <2>1. line # << >>
    BY <1>1, <1>3
  <2>2. Tail(line) \in Seq(1 .. Sends) /\ Len(Tail(line)) = Len(line) - 1
    BY <1>1, <2>1, HeadTailProperties
  <2>3. \A i \in 1 .. Len(Tail(line)) : Tail(line)[i] = line[i + 1]
    BY <1>1, <2>1, HeadTailProperties
  <2> QED
    BY <2>2, <2>3
<1>5. \A t \in 1 .. Sends : send'[t] = IF t = s THEN r ELSE send[t]
  BY ShellParts DEF Leaves
<1>6. /\ shell'[g].queue = Tail(line) /\ shell'[g].cursor = c /\ shell'[g] \in ShellRecord
      /\ shell'[g].out = shell[g].out /\ shell'[g].stdin = shell[g].stdin
      /\ shell'[g].started = shell[g].started
  BY <1>1, <1>4, ShellParts DEF Leaves, ShellRecord
<1>7. \A h \in 1 .. Shells : h # g => shell'[h] = shell[h]
  BY ShellParts DEF Leaves
<1>8. shell' \in [1 .. Shells -> ShellRecord]
  <2>1. [shell[g] EXCEPT !.queue = Tail(@), !.cursor = c] \in ShellRecord
    BY <1>1, <1>4 DEF ShellRecord
  <2> QED
    BY <2>1, ShellParts DEF Leaves
<1>9. ShellShape'
  BY <1>8, ShellParts DEF Leaves, ShellShape, CurrentIsSound
<1>10. \A h \in 1 .. Shells : /\ shell'[h].out = shell[h].out /\ shell'[h].stdin = shell[h].stdin
                             /\ shell'[h].started = shell[h].started
  BY <1>6, <1>7
<1>11. OutputStays
  <2>1. ASSUME NEW h \in 1 .. Shells
        PROVE  /\ shell[h].cursor <= shell'[h].cursor
               /\ Len(shell[h].out) <= Len(shell'[h].out)
               /\ \A p \in 1 .. Len(shell[h].out) : shell'[h].out[p] = shell[h].out[p]
    <3>1. shell[h].cursor \in Nat /\ Len(shell[h].out) \in Nat /\ shell'[h].out = shell[h].out
      BY <1>0, <1>10, ShellFields
    <3>2. CASE h = g
      BY <3>1, <3>2, <1>6 DEF Leaves
    <3>3. CASE h # g
      BY <3>1, <3>3, <1>7
    <3> QED
      BY <3>2, <3>3
  <2> QED
    BY <2>1 DEF OutputStays
<1>12. /\ r.reply # "shown" \/ r.reply = "shown"
       /\ \A t \in 1 .. Sends : t # s => ReportStays(t) /\ ShownIsBehind(t)' /\ ShowsItsOwn(t)'
  BY <1>8, <1>11, ReportsStand DEF Leaves
<1>13. ASSUME NEW t \in 1 .. Sends PROVE ShownIsBehind(t)' /\ ShowsItsOwn(t)'
  BY <1>12
<1>14. ASSUME NEW t \in 1 .. Sends, NEW u \in 1 .. Sends PROVE ShowApart(t, u)'
  <2>1. CASE t = s \/ u = s
    BY <2>1
  <2>2. CASE t # s /\ u # s
    BY <2>2, <1>12, ShellParts, ApartStays
  <2> QED
    BY <2>1, <2>2
<1>15. OnStarted'
  <2>1. ASSUME NEW h \in 1 .. Shells PROVE (shell[h].started \/ shell[h] = NotStarted)'
    <3>1. shell[h].started \/ shell[h] = NotStarted
      BY ShellParts DEF OnStarted
    <3>2. CASE h = g
      <4>1. shell[g] # NotStarted
        <5>1. shell[g].queue # << >>
          BY <1>1, <1>3
        <5> QED
          BY <5>1 DEF NotStarted
      <4> QED
        BY <3>1, <3>2, <4>1, <1>6
    <3>3. CASE h # g
      BY <3>1, <3>3, <1>7
    <3> QED
      BY <3>2, <3>3
  <2>2. ASSUME NEW t \in 1 .. Sends, send'[t].on # NoShell PROVE shell'[send'[t].on].started
    <3>1. send'[t].on = send[t].on
      BY <1>5 DEF Leaves
    <3>2. send[t].on \in 1 .. Shells
      BY <1>0, <2>2, <3>1, SendFields, ShellAssumption DEF NoShell
    <3>3. shell[send[t].on].started
      BY <2>2, <3>1, ShellParts DEF OnStarted
    <3> QED
      BY <3>1, <3>2, <3>3, <1>10
  <2> QED
    BY <2>1, <2>2 DEF OnStarted, CurrentIsSound
<1>16. CalledInTurn'
  BY <1>5, ShellParts DEF CalledInTurn, Leaves
<1>17. ASSUME NEW h \in 1 .. Shells PROVE InTurn(shell[h].out, shell[h].stdin)' /\ Given(h)' = Given(h)
  BY <1>10, ShellParts DEF Given
<1>18. ASSUME NEW i \in 1 .. Len(Tail(line))
       PROVE  /\ i + 1 \in 1 .. Len(line) /\ Tail(line)[i] = line[i + 1]
              /\ line[i + 1] # s /\ line[i + 1] \in 1 .. Sends
              /\ send[line[i + 1]].on = g /\ send[line[i + 1]].state = "queued"
  <2> DEFINE k == i + 1
  <2>1. k \in 1 .. Len(line) /\ Tail(line)[i] = line[k] /\ 1 \in 1 .. Len(line) /\ 1 < k /\ k # 1
    BY <1>1, <1>4
  <2> HIDE DEF k
  <2>2. line[k] \in 1 .. Sends
    BY <1>1, <2>1
  <2>3. send[line[k]].on = g /\ send[line[k]].state = "queued"
    BY <1>2, <2>1 DEF QueueInTurn
  <2>4. line[1] < line[k]
    BY <1>2, <2>1 DEF QueueInTurn
  <2>5. line[k] # s
    BY <1>3, <2>2, <2>4
  <2> QED
    BY <2>1, <2>2, <2>3, <2>5 DEF k
<1>19. QueueInTurn(g)'
  <2>1. ASSUME NEW i \in 1 .. Len(Tail(line)), NEW k \in 1 .. Len(Tail(line)), i < k
        PROVE  Tail(line)[i] < Tail(line)[k]
    <3>1. i + 1 < k + 1 /\ i + 1 \in 1 .. Len(line) /\ k + 1 \in 1 .. Len(line)
      BY <1>1, <1>4, <2>1
    <3>2. line[i + 1] < line[k + 1]
      BY <3>1, <1>2 DEF QueueInTurn
    <3> QED
      BY <3>2, <1>4
  <2>2. ASSUME NEW i \in 1 .. Len(Tail(line))
        PROVE  send'[Tail(line)[i]].on = g /\ send'[Tail(line)[i]].state = "queued"
    BY <1>5, <1>18
  <2>3. ASSUME NEW t \in Given(g), NEW i \in 1 .. Len(Tail(line)) PROVE t <= Tail(line)[i]
    BY <1>2, <1>18 DEF QueueInTurn
  <2> HIDE DEF line
  <2> QED
    BY <1>6, <1>17, <2>1, <2>2, <2>3, Zenon DEF QueueInTurn
<1>20. ASSUME NEW h \in 1 .. Shells, h # g PROVE QueueInTurn(h)'
  <2>1. QueueInTurn(h) /\ shell'[h].queue = shell[h].queue
    BY <1>7, <1>20, ShellParts
  <2>2. ASSUME NEW i \in 1 .. Len(shell[h].queue) PROVE send'[shell[h].queue[i]] = send[shell[h].queue[i]]
    <3>1. shell[h].queue[i] \in 1 .. Sends /\ send[shell[h].queue[i]].on = h
      BY <1>0, <2>1, ShellFields DEF QueueInTurn
    <3> QED
      BY <3>1, <1>5, <1>20 DEF Leaves
  <2> QED
    BY <1>17, <2>1, <2>2, Zenon DEF QueueInTurn
<1>21. ASSUME NEW h \in 1 .. Shells PROVE GivenIsKnown(h)'
  <2>1. ASSUME NEW t \in Given(h)
        PROVE  /\ send'[t].on = h
               /\ \/ send'[t].state = "polling"
                  \/ send'[t].state = "done" /\ send'[t].reply \in {"shown", "late", "exited", "aborted"}
    <3>1. /\ send[t].on = h
          /\ \/ send[t].state = "polling"
             \/ send[t].state = "done" /\ send[t].reply \in {"shown", "late", "exited", "aborted"}
      BY ShellParts DEF GivenIsKnown
    <3>2. t \in 1 .. Sends
      BY DEF Given
    <3> QED
      BY <3>1, <3>2, <1>5 DEF Leaves
  <2> QED
    BY <1>17, <2>1, Zenon DEF GivenIsKnown
<1>22. ASSUME NEW h \in 1 .. Shells PROVE CursorOnMark(h)'
  <2>1. CASE h = g
    BY <2>1
  <2>2. CASE h # g
    <3>1. \A t \in 1 .. Sends : send[t].state = "done" => send'[t].state = "done"
      BY <1>5 DEF Leaves
    <3> QED
      BY <2>2, <3>1, <1>7, <1>8, <1>11, CursorStands
  <2> QED
    BY <2>1, <2>2
<1>23. ASSUME NEW t \in 1 .. Sends PROVE WaitsInQueue(t)'
  <2> SUFFICES ASSUME send'[t].state \in {"queued", "polling"}
               PROVE  /\ send'[t].on \in 1 .. Shells
                      /\ \E i \in 1 .. Len(shell'[send'[t].on].queue) :
                           /\ shell'[send'[t].on].queue[i] = t
                           /\ send'[t].state = "polling" => i = 1
    BY DEF WaitsInQueue
  <2>1. t # s /\ send'[t] = send[t]
    BY <1>5 DEF Leaves
  <2>2. PICK h \in 1 .. Shells : h = send[t].on
    BY <2>1, ShellParts DEF WaitsInQueue
  <2>3. PICK i \in 1 .. Len(shell[h].queue) :
          shell[h].queue[i] = t /\ (send[t].state = "polling" => i = 1)
    BY <2>1, <2>2, ShellParts DEF WaitsInQueue
  <2>4. CASE h = g
    <3>1. i # 1 /\ i - 1 \in 1 .. Len(Tail(line))
      BY <1>1, <1>3, <1>4, <2>1, <2>3, <2>4
    <3>2. Tail(line)[i - 1] = t
      <4>1. Tail(line)[i - 1] = line[i - 1 + 1] /\ i - 1 + 1 = i
        BY <1>1, <1>4, <3>1
      <4> QED
        BY <4>1, <2>3, <2>4
    <3>3. send[t].state # "polling"
      BY <2>3, <3>1
    <3> QED
      BY <1>6, <2>1, <2>2, <2>4, <3>1, <3>2, <3>3
  <2>5. CASE h # g
    BY <1>7, <2>1, <2>2, <2>3, <2>5
  <2> QED
    BY <2>4, <2>5
<1>24. ASSUME NEW t \in 1 .. Sends, send[t].on = g, t # s PROVE send[t].state # "polling"
  BY <1>3, <1>24, ShellParts DEF WaitsInQueue
<1>25. ASSUME NEW t \in 1 .. Sends PROVE ExitedIsForgotten(t)'
  <2> SUFFICES ASSUME send'[t].reply = "exited"
               PROVE  /\ current' # send'[t].on /\ send'[t].on \in 1 .. Shells
                      /\ \A u \in 1 .. Sends : send'[u].on = send'[t].on => send'[u].state # "polling"
    BY DEF ExitedIsForgotten
  <2>1. current' # send'[t].on
    BY DEF CurrentIsSound
  <2>2. send'[t].on = send[t].on /\ send[s].on = g /\ r.state = "done"
    BY <1>5 DEF Leaves
  <2>3. CASE send[t].on = g
    BY <1>5, <1>24, <2>1, <2>2, <2>3 DEF Leaves
  <2>4. CASE send[t].on # g
    <3>1. t # s
      BY <2>2, <2>4
    <3>2. send[t].reply = "exited"
      BY <1>5, <3>1
    <3>3. /\ send[t].on \in 1 .. Shells
          /\ \A u \in 1 .. Sends : send[u].on = send[t].on => send[u].state # "polling"
      BY <3>2, ShellParts DEF ExitedIsForgotten
    <3> QED
      BY <1>5, <2>1, <2>2, <3>3 DEF Leaves
  <2> QED
    BY <2>3, <2>4
<1>26. ASSUME NEW t \in 1 .. Sends PROVE RepliesStand(t)'
  <2>1. CASE t = s
    BY <1>5, <2>1, Zenon DEF RepliesStand, Leaves
  <2>2. CASE t # s
    <3>1. send'[t] = send[t] /\ RepliesStand(t)
      BY <1>5, <2>2, ShellParts
    <3> QED
      BY <3>1, Zenon DEF RepliesStand
  <2> QED
    BY <2>1, <2>2
<1> QED
  BY <1>9, <1>13, <1>14, <1>15, <1>16, <1>17, <1>19, <1>20, <1>21, <1>22, <1>23, <1>25, <1>26 DEF ShellInv

\* Whoever waits does so in the queue of a shell.
LEMMA WaitsSomewhere ==
    ASSUME ShellInv, NEW s \in 1 .. Sends, send[s].state \in {"queued", "polling"}
    PROVE  /\ send[s] \in SendRecord /\ send[s].on \in 1 .. Shells
           /\ send[s].aborted <=> send[s].reply = "aborted"
           /\ send[s].reply \notin {"shown", "late", "exited", "no shell"}
<1>1. send[s] \in SendRecord /\ WaitsInQueue(s) /\ ShownIsBehind(s) /\ ExitedIsForgotten(s) /\ RepliesStand(s)
  BY ShellParts
<1>2. send[s].state # "done"
  OBVIOUS
<1>3. send[s].on \in 1 .. Shells
  BY <1>1, Zenon DEF WaitsInQueue
<1>4. send[s].aborted <=> send[s].reply = "aborted"
  BY <1>1, Zenon DEF RepliesStand
<1>5. send[s].reply # "shown"
  BY <1>1, <1>2 DEF ShownIsBehind
<1>6. send[s].reply \notin {"late", "exited", "no shell"}
  BY <1>1, <1>2 DEF RepliesStand
<1> QED
  BY <1>1, <1>3, <1>4, <1>5, <1>6, Zenon

\* The record of a send that ends with this reply.
LEMMA ReplyFields ==
    ASSUME ShellInv, NEW s \in 1 .. Sends, send[s].state \in {"queued", "polling"},
           NEW reply \in {"shown", "late", "exited", "no shell"}
    PROVE  /\ Reply(s, reply) \in SendRecord
           /\ Reply(s, reply).state = "done" /\ Reply(s, reply).on = send[s].on
           /\ Reply(s, reply).aborted = send[s].aborted
           /\ send[s].aborted => Reply(s, reply).reply = "aborted"
           /\ ~send[s].aborted => Reply(s, reply).reply = reply
           /\ Reply(s, reply).aborted <=> Reply(s, reply).reply = "aborted"
           /\ send[s].reply \in {"late", "aborted"} => Reply(s, reply).reply \in {"late", "aborted"}
<1>1. /\ send[s] \in SendRecord
      /\ send[s].aborted <=> send[s].reply = "aborted"
      /\ send[s].reply # "late"
  BY WaitsSomewhere
<1>2. CASE send[s].aborted
  BY <1>1, <1>2 DEF Reply, SendRecord
<1>3. CASE ~send[s].aborted
  BY <1>1, <1>3 DEF Reply, SendRecord
<1> QED
  BY <1>2, <1>3

\* A send leaves with this reply and without having shown anything; the shell is forgotten
\* at most when it is the one found dead, and always when it is said to have exited.
Unshown(s, reply) ==
    /\ reply \in {"late", "exited", "no shell"}
    /\ send[s].state = "polling" => reply # "no shell"
    /\ IsNext(s) /\ send' = [send EXCEPT ![s] = Reply(s, reply)] /\ shell' = Dequeued(send[s].on)
    /\ current' = current \/ (current' = NoShell /\ ~shell[send[s].on].alive /\ current = send[s].on)
    /\ reply = "exited" => current' # send[s].on

\* Whether the poll ends without a marker or never begins, the invariant is kept.
LEMMA LeavesUnshown ==
    ASSUME ShellInv, NEW s \in 1 .. Sends, send[s].state \in {"queued", "polling"},
           NEW reply, Unshown(s, reply)
    PROVE  ShellInv'
<1>0. send[s].on \in 1 .. Shells
  BY WaitsSomewhere
<1>1. PICK g \in 1 .. Shells : g = send[s].on
  BY <1>0
<1>2. PICK r \in SendRecord : r = Reply(s, reply)
  BY ReplyFields DEF Unshown
<1>3. /\ r.state = "done" /\ r.on = g
      /\ send[s].aborted => r.reply = "aborted"
      /\ ~send[s].aborted => r.reply = reply
      /\ r.aborted <=> r.reply = "aborted"
      /\ send[s].reply \in {"late", "aborted"} => r.reply \in {"late", "aborted"}
  <2>1. reply \in {"shown", "late", "exited", "no shell"}
    BY DEF Unshown
  <2>2. /\ Reply(s, reply).state = "done" /\ Reply(s, reply).on = send[s].on
        /\ send[s].aborted => Reply(s, reply).reply = "aborted"
        /\ ~send[s].aborted => Reply(s, reply).reply = reply
        /\ Reply(s, reply).aborted <=> Reply(s, reply).reply = "aborted"
        /\ send[s].reply \in {"late", "aborted"} => Reply(s, reply).reply \in {"late", "aborted"}
    BY <2>1, ReplyFields
  <2> QED
    BY <1>1, <1>2, <2>2
<1>4. shell[g] \in ShellRecord /\ ShellShape /\ shell[g].cursor \in Nat
  BY ShellParts, ShellFields
<1>5. PICK c \in Nat : c = shell[g].cursor
  BY <1>4
<1>6. shell' = [shell EXCEPT ![g] = [shell[g] EXCEPT !.queue = Tail(@), !.cursor = c]]
  <2>1. [shell[g] EXCEPT !.queue = Tail(@), !.cursor = c] = [shell[g] EXCEPT !.queue = Tail(@)]
    BY <1>4, <1>5 DEF ShellRecord
  <2> QED
    BY <1>1, <2>1 DEF Dequeued, Unshown
<1>7. Leaves(s, g, r, c)
  <2>1. Head(shell[g].queue) = s
    BY <1>1 DEF IsNext, Unshown
  <2>2. send[s].state = "polling" => r.reply \in {"shown", "late", "exited", "aborted"}
    BY <1>3 DEF Unshown
  <2>3. shell[g].cursor <= c
    BY <1>4, <1>5
  <2>4. send' = [send EXCEPT ![s] = r]
    BY <1>2 DEF Unshown
  <2> QED
    BY <1>1, <1>3, <1>6, <2>1, <2>2, <2>3, <2>4, Zenon DEF Leaves
<1>8. \A t \in 1 .. Sends : send'[t] = IF t = s THEN r ELSE send[t]
  BY <1>2, ShellParts DEF Unshown
<1>9. /\ shell'[g].cursor = shell[g].cursor /\ shell'[g].out = shell[g].out
      /\ shell'[g].alive = shell[g].alive /\ shell'[g].closed = shell[g].closed
      /\ shell'[g].started = shell[g].started /\ shell'[g].stdin = shell[g].stdin
  BY <1>4, <1>5, <1>6, ShellParts DEF ShellRecord
<1>10. \A h \in 1 .. Shells : h # g => shell'[h] = shell[h]
  BY <1>6, ShellParts
<1>11. OutputStays
  <2>1. ASSUME NEW h \in 1 .. Shells
        PROVE  /\ shell[h].cursor <= shell'[h].cursor
               /\ Len(shell[h].out) <= Len(shell'[h].out)
               /\ \A p \in 1 .. Len(shell[h].out) : shell'[h].out[p] = shell[h].out[p]
    <3>1. /\ shell[h].cursor \in Nat /\ Len(shell[h].out) \in Nat
          /\ shell'[h].out = shell[h].out /\ shell'[h].cursor = shell[h].cursor
      BY <1>4, <1>9, <1>10, ShellFields
    <3> QED
      BY <3>1
  <2> QED
    BY <2>1 DEF OutputStays
<1>12. shell' \in [1 .. Shells -> ShellRecord]
  <2>1. shell[g].queue \in Seq(1 .. Sends) /\ shell[g].queue # << >>
    <3>1. WaitsInQueue(s) /\ shell[g].queue \in Seq(1 .. Sends)
      BY <1>4, ShellParts, ShellFields
    <3>2. PICK i \in 1 .. Len(shell[g].queue) : shell[g].queue[i] = s
      BY <1>1, <3>1 DEF WaitsInQueue
    <3> QED
      BY <3>1, <3>2
  <2>2. Tail(shell[g].queue) \in Seq(1 .. Sends)
    BY <2>1, HeadTailProperties
  <2>3. [shell[g] EXCEPT !.queue = Tail(@), !.cursor = c] \in ShellRecord
    BY <1>4, <2>2 DEF ShellRecord
  <2> QED
    BY <1>6, <2>3, ShellParts
<1>13. CursorOnMark(g)'
  <2>1. \A t \in 1 .. Sends : send[t].state = "done" => send'[t].state = "done"
    BY <1>3, <1>8
  <2> QED
    BY <1>9, <1>11, <1>12, <2>1, CursorStands
<1>14. \A h \in 1 .. Shells : /\ shell'[h].alive = shell[h].alive /\ shell'[h].closed = shell[h].closed
                             /\ shell'[h].started = shell[h].started
  BY <1>9, <1>10
<1>15. CurrentIsSound'
  <2>1. current' \in 0 .. Shells /\ (current' # NoShell => current' = current)
    <3>1. current' = current \/ current' = NoShell
      BY DEF Unshown
    <3> QED
      BY <3>1, ShellAssumption, ShellParts DEF NoShell
  <2>2. current' # NoShell => shell'[current'].started
    BY <1>14, <2>1, ShellAssumption, ShellParts DEF OnStarted, NoShell
  <2>3. ASSUME NEW t \in 1 .. Sends, send'[t].reply = "exited" PROVE current' # send'[t].on
    <3>1. CASE t = s
      <4>1. send'[t].on = g /\ reply = "exited"
        BY <1>3, <1>8, <2>3, <3>1
      <4> QED
        BY <1>1, <4>1 DEF Unshown
    <3>2. CASE t # s
      <4>1. send'[t] = send[t] /\ send[t].reply = "exited"
        BY <1>8, <2>3, <3>2
      <4>2. current # send[t].on /\ send[t].on \in 1 .. Shells
        BY <4>1, ShellParts DEF ExitedIsForgotten
      <4> QED
        BY <2>1, <4>1, <4>2, ShellAssumption DEF NoShell
    <3> QED
      BY <3>1, <3>2
  <2> QED
    BY <2>1, <2>2, <2>3 DEF CurrentIsSound
<1>16. LiveShellIsReachable'
  <2>1. ASSUME NEW h \in 1 .. Shells, shell'[h].alive, ~shell'[h].closed PROVE current' = h
    <3>1. current = h /\ shell[h].alive
      BY <1>14, <2>1, ShellParts DEF LiveShellIsReachable
    <3> QED
      BY <1>1, <3>1 DEF Unshown
  <2> QED
    BY <2>1 DEF LiveShellIsReachable
<1>17. r.reply # "shown"
  BY <1>3 DEF Unshown
<1>18. /\ ReportStays(s) /\ ShownIsBehind(s)' /\ ShowsItsOwn(s)'
       /\ \A t \in 1 .. Sends : ReportStays(t)
  <2>1. send' = [send EXCEPT ![s] = r]
    BY <1>2 DEF Unshown
  <2> QED
    BY <2>1, <1>3, <1>11, <1>12, <1>17, ReportsStand
<1>19. \A t \in 1 .. Sends : ShowApart(s, t)' /\ ShowApart(t, s)'
  BY <1>18, ShellParts, ApartStays
<1> QED
  BY <1>7, <1>13, <1>15, <1>16, <1>18, <1>19, LeavesKeeps

\* Whoever polls is at the head of the queue.
LEMMA PollingIsNext ==
    ASSUME ShellInv, NEW s \in 1 .. Sends, send[s].state = "polling"
    PROVE  IsNext(s)
<1>1. send[s].on \in 1 .. Shells /\ WaitsInQueue(s)
  BY WaitsSomewhere, ShellParts
<1>2. PICK g \in 1 .. Shells : g = send[s].on
  BY <1>1
<1>3. shell[g].queue \in Seq(1 .. Sends)
  BY ShellParts, ShellFields
<1>4. PICK i \in 1 .. Len(shell[g].queue) : shell[g].queue[i] = s /\ i = 1
  BY <1>1, <1>2 DEF WaitsInQueue
<1>5. shell[g].queue # << >>
  BY <1>3, <1>4
<1>6. Head(shell[g].queue) = s
  BY <1>3, <1>4, <1>5, HeadTailProperties
<1> QED
  BY <1>2, <1>6 DEF IsNext

\* Nobody else polls on the shell of a send that does.
LEMMA PollsAlone ==
    ASSUME ShellInv, NEW s \in 1 .. Sends, send[s].state = "polling",
           NEW t \in 1 .. Sends, send[t].state = "polling", send[t].on = send[s].on
    PROVE  t = s
<1>1. WaitsInQueue(s) /\ WaitsInQueue(t)
  BY ShellParts
<1>2. shell[send[s].on].queue[1] = s
  BY <1>1 DEF WaitsInQueue
<1>3. shell[send[s].on].queue[1] = t
  BY <1>1 DEF WaitsInQueue
<1> QED
  BY <1>2, <1>3

\* The poll of a send ends without its marker.
LEMMA GiveUpKeeps ==
    ASSUME ShellInv, NEW s \in 1 .. Sends, GiveUp(s)
    PROVE  ShellInv'
<1>1. send[s].state = "polling" /\ send[s].state \in {"queued", "polling"}
  BY DEF GiveUp
<1>2. IsNext(s)
  BY <1>1, PollingIsNext
<1>3. send[s].on \in 1 .. Shells
  BY <1>1, WaitsSomewhere
<1>4. CASE shell[send[s].on].alive
  <2>1. Unshown(s, "late")
    BY <1>2, <1>4 DEF GiveUp, Unshown
  <2> QED
    BY <1>1, <2>1, LeavesUnshown
<1>5. CASE ~shell[send[s].on].alive
  <2>1. current' = Forgotten(send[s].on) /\ send' = [send EXCEPT ![s] = Reply(s, "exited")]
        /\ shell' = Dequeued(send[s].on)
    BY <1>5 DEF GiveUp
  <2>2. /\ current' = current \/ (current' = NoShell /\ current = send[s].on)
        /\ current' # send[s].on
    BY <1>3, <2>1, ShellAssumption DEF Forgotten, NoShell
  <2>3. Unshown(s, "exited")
    BY <1>2, <1>5, <2>1, <2>2 DEF Unshown
  <2> QED
    BY <1>1, <2>3, LeavesUnshown
<1> QED
  BY <1>4, <1>5

\* The values a send that has found its marker reports.
LEMMA FloorFields ==
    ASSUME ShellInv, NEW g \in 1 .. Shells
    PROVE  /\ Trimmed(g) \in Nat
           /\ Max({shell[g].cursor, Trimmed(g)}) \in Nat
           /\ Max({shell[g].cursor, Trimmed(g)}) =
                IF shell[g].cursor >= Trimmed(g) THEN shell[g].cursor ELSE Trimmed(g)
<1>1. shell[g].cursor \in Nat /\ Len(shell[g].out) \in Nat /\ BufferCap \in Nat
  BY ShellParts, ShellFields, ShellAssumption
<1>2. Len(shell[g].out) - BufferCap \in Int
  BY <1>1
<1>3. Trimmed(g) = IF 0 >= Len(shell[g].out) - BufferCap THEN 0 ELSE Len(shell[g].out) - BufferCap
  BY <1>2, LargerOf DEF Trimmed
<1>4. Trimmed(g) \in Nat
  BY <1>1, <1>3
<1>5. Max({shell[g].cursor, Trimmed(g)}) =
        IF shell[g].cursor >= Trimmed(g) THEN shell[g].cursor ELSE Trimmed(g)
  BY <1>1, <1>4, LargerOf
<1> QED
  BY <1>1, <1>4, <1>5

\* What stands unread before the marker of a send is its own or was left behind by sends
\* that were given up, and none of its own stands before the cursor.
LEMMA UnreadIsOwn ==
    ASSUME ShellInv, NEW s \in 1 .. Sends, send[s].state = "polling",
           NEW g \in 1 .. Shells, g = send[s].on, NEW p \in Marks(shell[g].out),
           shell[g].out[p].by = s, p > shell[g].cursor
    PROVE  /\ \A q \in shell[g].cursor + 1 .. p - 1 : \E t \in 1 .. Sends :
                t = shell[g].out[q].by /\ (t # s => t < s /\ GivenUp(t))
           /\ \A q \in 1 .. shell[g].cursor : shell[g].out[q].by # s
<1> DEFINE o == shell[g].out
           c == shell[g].cursor
<1>1. /\ Len(o) \in Nat /\ c \in Nat
      /\ \A q \in 1 .. Len(o) : o[q].by \in 1 .. Sends
  BY ShellParts, ShellFields
<1>2. p \in 1 .. Len(o)
  BY DEF Marks
<1>3. InTurn(o, shell[g].stdin) /\ CursorOnMark(g) /\ GivenIsKnown(g)
  BY ShellParts
<1>4. ASSUME NEW q \in c + 1 .. p - 1
      PROVE  \E t \in 1 .. Sends : t = o[q].by /\ (t # s => t < s /\ GivenUp(t))
  <2>1. q \in 1 .. Len(o) /\ q < p /\ c < q
    BY <1>1, <1>2
  <2>2. PICK t \in 1 .. Sends : t = o[q].by
    BY <1>1, <2>1
  <2>3. t <= s
    <3> HIDE DEF o
    <3>1. o[q].by <= o[p].by
      BY <1>2, <1>3, <2>1 DEF InTurn
    <3> QED
      BY <2>2, <3>1 DEF o
  <2>4. ASSUME t # s PROVE GivenUp(t)
    <3>1. t \in Given(g)
      BY <2>1, <2>2 DEF Given
    <3>2. /\ send[t].on = g
          /\ \/ send[t].state = "polling"
             \/ send[t].state = "done" /\ send[t].reply \in {"shown", "late", "exited", "aborted"}
      BY <1>3, <3>1 DEF GivenIsKnown
    <3>3. send[t].state # "polling"
      BY <2>4, <3>2, PollsAlone
    <3>4. send[t].reply # "exited"
      <4>1. ExitedIsForgotten(t)
        BY ShellParts
      <4> QED
        BY <3>2, <4>1 DEF ExitedIsForgotten
    <3>5. ASSUME send[t].reply = "shown" PROVE FALSE
      <4> DEFINE last == send[t].to + 1
      <4>1. /\ last <= c /\ last \in Marks(o) /\ o[last].by = t
        BY <3>2, <3>5, ShellParts DEF ShownIsBehind
      <4>2. last \in 1 .. Len(o)
        BY <4>1 DEF Marks
      <4>3. last < q
        BY <1>1, <2>1, <4>1, <4>2
      <4> HIDE DEF o, last
      <4>4. o[last].by < o[q].by
        BY <1>3, <2>1, <4>1, <4>2, <4>3 DEF InTurn
      <4>5. ~(t < t)
        OBVIOUS
      <4> QED
        BY <2>2, <4>1, <4>4, <4>5
    <3> QED
      BY <3>2, <3>3, <3>4, <3>5 DEF GivenUp
  <2> QED
    BY <2>2, <2>3, <2>4
<1>5. ASSUME NEW q \in 1 .. c, o[q].by = s PROVE FALSE
  <2>0. c # 0
    BY <1>1
  <2>1. c \in Marks(o) /\ send[o[c].by].state = "done" /\ c \in 1 .. Len(o)
    <3>1. c \in Marks(o) /\ send[o[c].by].state = "done"
      BY <1>3, <2>0 DEF CursorOnMark
    <3> QED
      BY <3>1 DEF Marks
  <2>2. q \in 1 .. Len(o) /\ (q < c \/ q = c) /\ c < p
    BY <1>1, <1>5, <2>1
  <2>3. PICK t \in 1 .. Sends : t = o[c].by
    BY <1>1, <2>1
  <2>4. t # s
    BY <2>1, <2>3
  <2> HIDE DEF o, c
  <2>5. q < c
    BY <1>5, <2>2, <2>3, <2>4
  <2>6. o[c].by < o[p].by
    BY <1>2, <1>3, <2>1, <2>2 DEF InTurn
  <2>7. o[q].by <= o[c].by
    BY <1>3, <2>1, <2>2, <2>5 DEF InTurn
  <2>8. t < s /\ s <= t
    BY <1>5, <2>3, <2>6, <2>7 DEF o
  <2> QED
    BY <2>8
<1> QED
  BY <1>4, <1>5

\* The record that reports where the output of a send stands.
Reported(rep, a, b, c) == [rep EXCEPT !.from = a, !.to = b, !.lost = c]

\* It is a record like any other.
LEMMA ReportFields ==
    ASSUME NEW rep \in SendRecord, NEW a \in Nat \ {0}, NEW b \in Nat, NEW c \in Nat
    PROVE  /\ Reported(rep, a, b, c) \in SendRecord
           /\ Reported(rep, a, b, c).state = rep.state /\ Reported(rep, a, b, c).on = rep.on
           /\ Reported(rep, a, b, c).from = a /\ Reported(rep, a, b, c).to = b
           /\ Reported(rep, a, b, c).lost = c /\ Reported(rep, a, b, c).reply = rep.reply
           /\ Reported(rep, a, b, c).aborted = rep.aborted
<1> DEFINE new == [rep EXCEPT !.from = a, !.to = b, !.lost = c]
<1>1. new.from = a /\ new.to = b /\ new.lost = c
  BY DEF SendRecord
<1>2. new.state = rep.state /\ new.on = rep.on /\ new.reply = rep.reply
  BY DEF SendRecord
<1>3. new.aborted = rep.aborted
  BY DEF SendRecord
<1>4. new \in SendRecord
  BY DEF SendRecord
<1>5. Reported(rep, a, b, c) = new
  BY DEF Reported
<1> HIDE DEF new
<1> QED
  BY <1>1, <1>2, <1>3, <1>4, <1>5, Zenon

\* The poll of a send finds its marker.
LEMMA FoundKeeps ==
    ASSUME ShellInv, NEW s \in 1 .. Sends, Found(s)
    PROVE  ShellInv'
<1>1. send[s].state = "polling" /\ send[s].state \in {"queued", "polling"} /\ current' = current
  BY DEF Found
<1>2. send[s].on \in 1 .. Shells /\ send[s] \in SendRecord
  BY <1>1, WaitsSomewhere
<1>3. PICK g \in 1 .. Shells : g = send[s].on
  BY <1>2
<1>4. ShellShape /\ shell[g] \in ShellRecord /\ shell[g].cursor \in Nat /\ Len(shell[g].out) \in Nat
  BY ShellParts, ShellFields
<1>5. PICK floor \in Nat : floor = Max({shell[g].cursor, Trimmed(g)})
  BY FloorFields
<1>6. Trimmed(g) \in Nat /\ floor = IF shell[g].cursor >= Trimmed(g) THEN shell[g].cursor ELSE Trimmed(g)
  BY <1>5, FloorFields
<1>f. \A n \in Nat : n + 1 <= shell[g].cursor => n < floor + 1
  BY <1>4, <1>6
<1>7. PICK p \in floor + 1 .. Len(shell[g].out) :
        /\ shell[g].out[p] = [by |-> s, mark |-> TRUE]
        /\ send' = [send EXCEPT ![s] = [Reply(s, "shown") EXCEPT !.from = floor + 1,
                                                               !.to = p - 1, !.lost = Trimmed(g)]]
        /\ shell' = [Dequeued(g) EXCEPT ![g].cursor = p]
  BY <1>3, <1>5 DEF Found, MarkerAt
<1> DEFINE rr == [Reply(s, "shown") EXCEPT !.from = floor + 1, !.to = p - 1, !.lost = Trimmed(g)]
<1>8. /\ p \in Marks(shell[g].out) /\ shell[g].out[p].by = s /\ p \in Nat /\ p > floor
      /\ p > shell[g].cursor
  BY <1>4, <1>6, <1>7 DEF Marks
<1>9. /\ rr \in SendRecord /\ rr.state = "done" /\ rr.on = g
      /\ rr.from = floor + 1 /\ rr.to = p - 1 /\ rr.lost = Trimmed(g)
      /\ rr.aborted <=> rr.reply = "aborted"
      /\ rr.reply \in {"shown", "aborted"}
      /\ send[s].reply \in {"late", "aborted"} => rr.reply \in {"late", "aborted"}
  <2>1. /\ Reply(s, "shown") \in SendRecord
        /\ Reply(s, "shown").state = "done" /\ Reply(s, "shown").on = g
        /\ Reply(s, "shown").aborted <=> Reply(s, "shown").reply = "aborted"
        /\ Reply(s, "shown").reply \in {"shown", "aborted"}
        /\ send[s].reply \in {"late", "aborted"} => Reply(s, "shown").reply \in {"late", "aborted"}
    BY <1>1, <1>3, ReplyFields
  <2>2. floor + 1 \in Nat \ {0} /\ p - 1 \in Nat /\ Trimmed(g) \in Nat
    BY <1>6, <1>8
  <2>4. /\ rr \in SendRecord /\ rr.state = Reply(s, "shown").state /\ rr.on = Reply(s, "shown").on
        /\ rr.from = floor + 1 /\ rr.to = p - 1 /\ rr.lost = Trimmed(g)
        /\ rr.aborted = Reply(s, "shown").aborted /\ rr.reply = Reply(s, "shown").reply
    <3>1. PICK rep \in SendRecord : rep = Reply(s, "shown")
      BY <2>1
    <3>2. PICK a \in Nat \ {0}, b \in Nat, c \in Nat : a = floor + 1 /\ b = p - 1 /\ c = Trimmed(g)
      BY <2>2
    <3> DEFINE new == Reported(rep, a, b, c)
    <3>3. /\ new \in SendRecord /\ new.state = rep.state /\ new.on = rep.on
          /\ new.from = a /\ new.to = b /\ new.lost = c
          /\ new.aborted = rep.aborted /\ new.reply = rep.reply
      <4>1. Reported(rep, a, b, c) \in SendRecord
        BY ReportFields
      <4>2. Reported(rep, a, b, c).state = rep.state
        BY ReportFields
      <4>3. Reported(rep, a, b, c).on = rep.on
        BY ReportFields
      <4>4. Reported(rep, a, b, c).aborted = rep.aborted
        BY ReportFields
      <4>5. Reported(rep, a, b, c).reply = rep.reply
        BY ReportFields
      <4>6. Reported(rep, a, b, c).from = a
        BY ReportFields
      <4>7. Reported(rep, a, b, c).to = b
        BY ReportFields
      <4>8. Reported(rep, a, b, c).lost = c
        BY ReportFields
      <4> QED
        BY <4>1, <4>2, <4>3, <4>4, <4>5, <4>6, <4>7, <4>8, Zenon
    <3>4. rr = new
      BY <3>1, <3>2 DEF Reported
    <3> HIDE DEF rr, new
    <3> QED
      BY <3>1, <3>2, <3>3, <3>4, Zenon
  <2> HIDE DEF rr
  <2> QED
    BY <2>1, <2>4, Zenon
<1>10. PICK r \in SendRecord : r = rr
  BY <1>9
<1>11. /\ r.state = "done" /\ r.on = g
       /\ r.from = floor + 1 /\ r.to = p - 1 /\ r.lost = Trimmed(g)
       /\ r.aborted <=> r.reply = "aborted"
       /\ r.reply \in {"shown", "aborted"}
       /\ send[s].reply \in {"late", "aborted"} => r.reply \in {"late", "aborted"}
       /\ send' = [send EXCEPT ![s] = r]
  <2> HIDE DEF rr
  <2>1. send' = [send EXCEPT ![s] = r]
    BY <1>7, <1>10 DEF rr
  <2> QED
    BY <1>9, <1>10, <2>1, Zenon
<1> HIDE DEF rr
<1>12. shell' = [shell EXCEPT ![g] = [shell[g] EXCEPT !.queue = Tail(@), !.cursor = p]]
  BY <1>4, <1>7, ShellParts DEF Dequeued, ShellRecord
<1>13. Leaves(s, g, r, p)
  <2>1. Head(shell[g].queue) = s
    BY <1>1, <1>3, PollingIsNext DEF IsNext
  <2>2. shell[g].cursor <= p
    BY <1>4, <1>8
  <2>3. r.reply \in {"shown", "late", "exited", "aborted"}
    BY <1>11
  <2> QED
    BY <1>1, <1>3, <1>11, <1>12, <2>1, <2>2, <2>3, Zenon DEF Leaves
<1>14. \A t \in 1 .. Sends : send'[t] = IF t = s THEN r ELSE send[t]
  BY <1>11, ShellParts
<1>15. /\ shell'[g].cursor = p /\ shell'[g].out = shell[g].out
       /\ shell'[g].alive = shell[g].alive /\ shell'[g].closed = shell[g].closed
       /\ shell'[g].started = shell[g].started
  BY <1>4, <1>12, ShellParts DEF ShellRecord
<1>16. \A h \in 1 .. Shells : h # g => shell'[h] = shell[h]
  BY <1>12, ShellParts
<1>17. \A h \in 1 .. Shells : /\ shell'[h].alive = shell[h].alive /\ shell'[h].closed = shell[h].closed
                             /\ shell'[h].started = shell[h].started
  BY <1>15, <1>16
<1>18. CursorOnMark(g)'
  <2>1. p \in 0 .. Len(shell[g].out)
    BY <1>4, <1>7
  <2>2. send'[shell'[g].out[p].by].state = "done"
    BY <1>8, <1>11, <1>14, <1>15
  <2> QED
    BY <1>8, <1>15, <2>1, <2>2 DEF CursorOnMark
<1>19. CurrentIsSound'
  <2>1. current \in 0 .. Shells /\ (current # NoShell => shell[current].started)
    BY ShellParts DEF OnStarted
  <2>2. current # NoShell => shell'[current].started
    BY <1>17, <2>1, ShellAssumption DEF NoShell
  <2>3. ASSUME NEW t \in 1 .. Sends, send'[t].reply = "exited" PROVE current # send'[t].on
    BY <1>11, <1>14, <2>3, ShellParts DEF ExitedIsForgotten
  <2> QED
    BY <1>1, <2>1, <2>2, <2>3 DEF CurrentIsSound
<1>20. LiveShellIsReachable'
  BY <1>1, <1>17, ShellParts, Zenon DEF LiveShellIsReachable
<1>21. ASSUME r.reply = "shown" PROVE ShownIsBehind(s)'
  <2>1. send'[s] = r /\ r.to + 1 = p /\ p <= p
    BY <1>8, <1>11, <1>14
  <2> QED
    BY <1>8, <1>11, <1>15, <2>1 DEF ShownIsBehind
<1>22. /\ \A q \in shell[g].cursor + 1 .. p - 1 : \E t \in 1 .. Sends :
             t = shell[g].out[q].by /\ (t # s => t < s /\ GivenUp(t))
       /\ \A q \in 1 .. shell[g].cursor : shell[g].out[q].by # s
  BY <1>1, <1>3, <1>8, UnreadIsOwn
<1>23. ASSUME r.reply = "shown" PROVE ShowsItsOwn(s)'
  <2>1. send'[s] = r /\ send'[s].on = g /\ shell'[g].out = shell[g].out
    BY <1>11, <1>14, <1>15
  <2>2. ASSUME NEW q \in floor + 1 .. p - 1
        PROVE  \/ shell[g].out[q].by = s
               \/ shell[g].out[q].by < s /\ send'[shell[g].out[q].by].reply \in {"late", "aborted"}
    <3>1. q \in shell[g].cursor + 1 .. p - 1
      BY <1>4, <1>6, <1>8
    <3>2. PICK t \in 1 .. Sends : t = shell[g].out[q].by /\ (t # s => t < s /\ GivenUp(t))
      BY <1>22, <3>1
    <3> QED
      BY <1>14, <3>2 DEF GivenUp
  <2>3. ASSUME NEW q \in 1 .. p - 1, shell[g].out[q].by = s
        PROVE  q \in floor + 1 .. p - 1 \/ q <= Trimmed(g)
    <3>1. ~(q \in 1 .. shell[g].cursor)
      BY <1>22, <2>3
    <3> QED
      BY <1>4, <1>6, <1>8, <3>1
  <2> QED
    BY <1>11, <2>1, <2>2, <2>3 DEF ShowsItsOwn, ShownBy, GivenUp
<1>24. ASSUME NEW t \in 1 .. Sends PROVE ShowApart(s, t)' /\ ShowApart(t, s)'
  <2> SUFFICES ASSUME send'[s].reply = "shown", send'[t].reply = "shown", send'[s].on = send'[t].on, s # t
               PROVE  ShownBy(s)' \cap ShownBy(t)' = {}
    BY DEF ShowApart
  <2>1. send'[t] = send[t] /\ send'[s] = r /\ send[t].on = g /\ send[t].reply = "shown"
    BY <1>11, <1>14
  <2>2. send[t].to + 1 <= shell[g].cursor /\ send[t].to \in Nat /\ send[t].from \in Nat
    BY <1>4, <2>1, SendFields, ShellParts DEF ShownIsBehind
  <2>3. send[t].to < floor + 1
    BY <1>f, <2>2
  <2> QED
    BY <1>8, <1>11, <2>1, <2>2, <2>3 DEF ShownBy
<1>25. ShownIsBehind(s)' /\ ShowsItsOwn(s)'
  <2>1. CASE r.reply = "shown"
    BY <1>21, <1>23, <2>1
  <2>2. CASE r.reply # "shown"
    BY <1>14, <2>2 DEF ShownIsBehind, ShowsItsOwn
  <2> QED
    BY <2>1, <2>2
<1> QED
  BY <1>8, <1>13, <1>18, <1>19, <1>20, <1>24, <1>25, LeavesKeeps

\* An aborted send says so at once and stays where it is.
LEMMA AbortSendKeeps ==
    ASSUME ShellInv, NEW s \in 1 .. Sends, AbortSend(s)
    PROVE  ShellInv'
<1> DEFINE rr == [send[s] EXCEPT !.aborted = TRUE, !.reply = "aborted"]
<1>1. /\ send[s].state \in {"queued", "polling"} /\ current' = current /\ shell' = shell
      /\ send[s] \in SendRecord
  BY ShellParts DEF AbortSend
<1>2. rr \in SendRecord /\ rr.state = send[s].state /\ rr.on = send[s].on /\ rr.aborted /\ rr.reply = "aborted"
  BY <1>1 DEF SendRecord
<1>3. PICK r \in SendRecord :
        /\ send' = [send EXCEPT ![s] = r]
        /\ r.state = send[s].state /\ r.on = send[s].on /\ r.aborted /\ r.reply = "aborted"
  <2>1. send' = [send EXCEPT ![s] = rr]
    BY <1>1, ShellParts DEF AbortSend, SendRecord
  <2> QED
    BY <1>2, <2>1
<1> HIDE DEF rr
<1>4. \A t \in 1 .. Sends : send'[t] = IF t = s THEN r ELSE send[t]
  BY <1>3, ShellParts
<1>5. \A t \in 1 .. Sends : send'[t].state = send[t].state /\ send'[t].on = send[t].on
  BY <1>3, <1>4
<1>6. OutputStays /\ shell' \in [1 .. Shells -> ShellRecord]
  <2>1. \A h \in 1 .. Shells : shell[h].cursor \in Nat /\ Len(shell[h].out) \in Nat
    BY ShellParts, ShellFields
  <2> QED
    BY <1>1, <2>1, ShellParts DEF OutputStays
<1>7. ASSUME NEW t \in 1 .. Sends PROVE ReportStays(t) /\ ShownIsBehind(t)' /\ ShowsItsOwn(t)'
  <2>1. r.reply # "shown" /\ r.reply \in {"late", "aborted"}
    BY <1>3
  <2> QED
    BY <1>3, <1>6, <2>1, ReportsStand
<1>8. ShellShape' /\ CalledInTurn' /\ OnStarted' /\ LiveShellIsReachable'
  <2>1. ShellShape'
    BY <1>1, <1>3, ShellParts DEF ShellShape
  <2>2. CalledInTurn'
    BY <1>5, ShellParts DEF CalledInTurn
  <2>3. OnStarted'
    BY <1>1, <1>5, ShellParts, Zenon DEF OnStarted
  <2>4. LiveShellIsReachable'
    BY <1>1, ShellParts, Zenon DEF LiveShellIsReachable
  <2> QED
    BY <2>1, <2>2, <2>3, <2>4
<1>9. ASSUME NEW h \in 1 .. Shells
      PROVE  InTurn(shell[h].out, shell[h].stdin)' /\ QueueInTurn(h)' /\ GivenIsKnown(h)' /\ CursorOnMark(h)'
  <2>1. InTurn(shell[h].out, shell[h].stdin)' /\ Given(h)' = Given(h)
    BY <1>1, ShellParts DEF Given
  <2>2. QueueInTurn(h)'
    <3>1. QueueInTurn(h) /\ \A i \in 1 .. Len(shell[h].queue) : shell[h].queue[i] \in 1 .. Sends
      BY ShellParts, ShellFields
    <3> QED
      BY <1>1, <1>5, <2>1, <3>1, Zenon DEF QueueInTurn
  <2>3. GivenIsKnown(h)'
    <3>1. ASSUME NEW t \in Given(h)
          PROVE  /\ send'[t].on = h
                 /\ \/ send'[t].state = "polling"
                    \/ send'[t].state = "done" /\ send'[t].reply \in {"shown", "late", "exited", "aborted"}
      <4>1. /\ t \in 1 .. Sends /\ send[t].on = h
            /\ \/ send[t].state = "polling"
               \/ send[t].state = "done" /\ send[t].reply \in {"shown", "late", "exited", "aborted"}
        BY ShellParts DEF GivenIsKnown, Given
      <4> QED
        BY <1>3, <1>4, <4>1
    <3> QED
      BY <2>1, <3>1, Zenon DEF GivenIsKnown
  <2>4. CursorOnMark(h)'
    <3>1. \A t \in 1 .. Sends : send[t].state = "done" => send'[t].state = "done"
      BY <1>5
    <3> QED
      BY <1>1, <1>6, <3>1, CursorStands
  <2> QED
    BY <2>1, <2>2, <2>3, <2>4
<1>10. ASSUME NEW t \in 1 .. Sends PROVE WaitsInQueue(t)' /\ ExitedIsForgotten(t)' /\ RepliesStand(t)'
  <2>1. WaitsInQueue(t)'
    BY <1>1, <1>5, ShellParts, Zenon DEF WaitsInQueue
  <2>2. ExitedIsForgotten(t)'
    <3>1. send'[t].reply = "exited" => send[t].reply = "exited"
      BY <1>3, <1>4
    <3> QED
      BY <1>1, <1>5, <3>1, ShellParts, Zenon DEF ExitedIsForgotten
  <2>3. RepliesStand(t)'
    <3>1. CASE t = s
      <4>1. send'[t] = r /\ r.state # "none" /\ r.reply \notin {"late", "exited", "no shell"}
        BY <1>1, <1>3, <1>4, <3>1
      <4> QED
        BY <1>3, <4>1, Zenon DEF RepliesStand
    <3>2. CASE t # s
      <4>1. send'[t] = send[t] /\ RepliesStand(t)
        BY <1>4, <3>2, ShellParts
      <4> QED
        BY <4>1, Zenon DEF RepliesStand
    <3> QED
      BY <3>1, <3>2
  <2> QED
    BY <2>1, <2>2, <2>3
<1>11. \A t, u \in 1 .. Sends : ShowApart(t, u)'
  BY <1>7, ShellParts, ApartStays
<1> QED
  BY <1>7, <1>8, <1>9, <1>10, <1>11 DEF ShellInv

\* Nobody who was called after a send that is still to be called.
LEMMA CalledBefore ==
    ASSUME ShellInv, NEW s \in 1 .. Sends, send[s].state = "none",
           NEW t \in 1 .. Sends, send[t].state # "none"
    PROVE  t < s
<1>1. CASE s < t
  BY <1>1, ShellParts DEF CalledInTurn
<1>2. CASE s = t
  BY <1>2
<1> QED
  BY <1>1, <1>2

\* A new send takes its place behind all that were called before it.
LEMMA QueuedKeeps ==
    ASSUME ShellInv, NEW s \in 1 .. Sends, Send(s), shell[current].alive
    PROVE  ShellInv'
<1> DEFINE r == [NotSent EXCEPT !.state = "queued", !.on = current]
<1>1. /\ send[s].state = "none" /\ current # NoShell /\ current' = current
      /\ shell' = [shell EXCEPT ![current].queue = Append(@, s)]
      /\ send' = [send EXCEPT ![s] = r]
      /\ \A earlier \in 1 .. s - 1 : send[earlier].state # "none"
  BY DEF Send
<1>2. PICK g \in 1 .. Shells : g = current
  BY <1>1, ShellParts, ShellAssumption DEF NoShell
<1> DEFINE line == shell[g].queue
<1>3. /\ ShellShape /\ shell[g] \in ShellRecord /\ line \in Seq(1 .. Sends) /\ Len(line) \in Nat
      /\ \A i \in 1 .. Len(line) : line[i] \in 1 .. Sends
  BY ShellParts, ShellFields
<1>4. /\ r \in SendRecord /\ r.state = "queued" /\ r.on = g /\ ~r.aborted /\ r.reply = "none"
  <2>1. r = [state |-> "queued", on |-> g, aborted |-> FALSE, reply |-> "none",
             from |-> 1, to |-> 0, lost |-> 0]
    <3>1. r = [NotSent EXCEPT !.state = "queued", !.on = g]
      BY <1>2
    <3> HIDE DEF r
    <3> QED
      BY <3>1 DEF NotSent
  <2>2. g \in 0 .. Shells /\ 1 \in Nat \ {0} /\ 0 \in Nat
    OBVIOUS
  <2> HIDE DEF r
  <2> QED
    BY <2>1, <2>2 DEF SendRecord
<1>5. Append(line, s) \in Seq(1 .. Sends) /\ Len(Append(line, s)) = Len(line) + 1
      /\ Append(line, s)[Len(line) + 1] = s /\ \A i \in 1 .. Len(line) : Append(line, s)[i] = line[i]
  <2> HIDE DEF line
  <2> QED
    BY <1>3
<1>6. shell' = [shell EXCEPT ![g] = [shell[g] EXCEPT !.queue = Append(@, s)]]
  BY <1>1, <1>2
<1>7. /\ shell'[g].queue = Append(line, s) /\ shell'[g].cursor = shell[g].cursor
      /\ shell'[g].out = shell[g].out /\ shell'[g].stdin = shell[g].stdin
      /\ shell'[g].started = shell[g].started /\ shell'[g].alive = shell[g].alive
      /\ shell'[g].closed = shell[g].closed
  BY <1>3, <1>6, ShellParts DEF ShellRecord
<1>8. shell' \in [1 .. Shells -> ShellRecord]
  <2>1. [shell[g] EXCEPT !.queue = Append(@, s)] \in ShellRecord
    BY <1>3, <1>5 DEF ShellRecord
  <2> QED
    BY <1>6, <2>1, ShellParts
<1>9. \A h \in 1 .. Shells : h # g => shell'[h] = shell[h]
  BY <1>6, ShellParts
<1>10. \A h \in 1 .. Shells : /\ shell'[h].out = shell[h].out /\ shell'[h].stdin = shell[h].stdin
                             /\ shell'[h].started = shell[h].started /\ shell'[h].alive = shell[h].alive
                             /\ shell'[h].closed = shell[h].closed /\ shell'[h].cursor = shell[h].cursor
  BY <1>7, <1>9
<1> HIDE DEF r
<1>11. \A t \in 1 .. Sends : send'[t] = IF t = s THEN r ELSE send[t]
  BY <1>1, ShellParts
<1>12. OutputStays
  <2>1. \A h \in 1 .. Shells : shell[h].cursor \in Nat /\ Len(shell[h].out) \in Nat
    BY <1>3, ShellFields
  <2> QED
    BY <1>10, <2>1 DEF OutputStays
<1>13. send[s].reply = "none"
  BY <1>1, ShellParts DEF RepliesStand
<1>14. ASSUME NEW t \in 1 .. Sends PROVE ReportStays(t) /\ ShownIsBehind(t)' /\ ShowsItsOwn(t)'
  BY <1>1, <1>4, <1>8, <1>12, <1>13, ReportsStand
<1>15. ShellShape'
  BY <1>1, <1>4, <1>8, ShellParts DEF ShellShape
<1>16. CalledInTurn'
  <2>1. ASSUME NEW t \in 1 .. Sends, NEW u \in 1 .. Sends, t < u, send'[u].state # "none"
        PROVE  send'[t].state # "none"
    <3>1. CASE t = s
      BY <1>4, <1>11, <3>1
    <3>2. CASE u = s /\ t # s
      BY <1>1, <1>11, <2>1, <3>2
    <3>3. CASE u # s /\ t # s
      BY <1>11, <2>1, <3>3, ShellParts DEF CalledInTurn
    <3> QED
      BY <3>1, <3>2, <3>3
  <2> QED
    BY <2>1 DEF CalledInTurn
<1>17. OnStarted'
  <2>0. /\ \A h \in 1 .. Shells : shell[h].started \/ shell[h] = NotStarted
        /\ shell[g].started
    BY <1>1, <1>2, ShellParts DEF OnStarted
  <2>1. ASSUME NEW h \in 1 .. Shells PROVE shell'[h].started \/ shell'[h] = NotStarted
    BY <1>7, <1>9, <2>0
  <2>2. ASSUME NEW t \in 1 .. Sends, send'[t].on # NoShell PROVE shell'[send'[t].on].started
    <3>1. CASE t = s
      BY <1>4, <1>7, <1>11, <2>0, <3>1
    <3>2. CASE t # s
      <4>1. send'[t] = send[t] /\ send[t].on \in 1 .. Shells
        BY <1>3, <1>11, <2>2, <3>2, SendFields, ShellAssumption DEF NoShell
      <4>2. shell[send[t].on].started
        BY <2>2, <4>1, ShellParts DEF OnStarted
      <4> QED
        BY <1>10, <4>1, <4>2
    <3> QED
      BY <3>1, <3>2
  <2> QED
    BY <1>1, <1>2, <1>7, <2>0, <2>1, <2>2, Zenon DEF OnStarted
<1>18. LiveShellIsReachable'
  BY <1>1, <1>10, ShellParts, Zenon DEF LiveShellIsReachable
<1>19. ASSUME NEW h \in 1 .. Shells
       PROVE  InTurn(shell[h].out, shell[h].stdin)' /\ Given(h)' = Given(h) /\ CursorOnMark(h)'
  <2>1. \A t \in 1 .. Sends : send[t].state = "done" => send'[t].state = "done"
    BY <1>1, <1>11
  <2>2. CursorOnMark(h)'
    BY <1>8, <1>10, <1>12, <2>1, CursorStands
  <2> QED
    BY <1>10, <2>2, ShellParts DEF Given
<1>20. ASSUME NEW h \in 1 .. Shells, NEW t \in Given(h)
       PROVE  t \in 1 .. Sends /\ t # s /\ t < s /\ send'[t] = send[t]
  <2>1. t \in 1 .. Sends /\ send[t].state # "none"
    BY ShellParts DEF Given, GivenIsKnown
  <2>2. t < s /\ t # s
    BY <1>1, <2>1, CalledBefore
  <2> QED
    BY <1>11, <2>1, <2>2
<1>21. ASSUME NEW h \in 1 .. Shells PROVE GivenIsKnown(h)'
  <2>1. GivenIsKnown(h)
    BY ShellParts
  <2> QED
    BY <1>19, <1>20, <2>1, Zenon DEF GivenIsKnown
<1>22. ASSUME NEW h \in 1 .. Shells, NEW i \in 1 .. Len(shell[h].queue)
       PROVE  /\ shell[h].queue[i] \in 1 .. Sends /\ shell[h].queue[i] < s /\ shell[h].queue[i] # s
              /\ send'[shell[h].queue[i]] = send[shell[h].queue[i]]
  <2>1. shell[h].queue[i] \in 1 .. Sends
    BY <1>3, ShellFields
  <2>2. send[shell[h].queue[i]].state # "none"
    BY ShellParts DEF QueueInTurn
  <2>3. PICK t \in 1 .. Sends : t = shell[h].queue[i]
    BY <2>1
  <2>4. t < s /\ t # s
    BY <1>1, <2>2, <2>3, CalledBefore
  <2> QED
    BY <1>11, <2>3, <2>4
<1>23. ASSUME NEW h \in 1 .. Shells, h # g PROVE QueueInTurn(h)'
  <2>1. QueueInTurn(h) /\ shell'[h].queue = shell[h].queue /\ Given(h)' = Given(h)
    BY <1>9, <1>19, <1>23, ShellParts
  <2>2. ASSUME NEW i \in 1 .. Len(shell[h].queue)
        PROVE  /\ send'[shell[h].queue[i]].on = h
               /\ \/ send'[shell[h].queue[i]].state = "queued"
                  \/ i = 1 /\ send'[shell[h].queue[i]].state = "polling"
    <3>1. /\ send[shell[h].queue[i]].on = h
          /\ \/ send[shell[h].queue[i]].state = "queued"
             \/ i = 1 /\ send[shell[h].queue[i]].state = "polling"
      BY <2>1 DEF QueueInTurn
    <3> QED
      BY <1>22, <3>1, Zenon
  <2>3. /\ \A i, k \in 1 .. Len(shell[h].queue) : i < k => shell[h].queue[i] < shell[h].queue[k]
        /\ \A t \in Given(h), i \in 1 .. Len(shell[h].queue) : t <= shell[h].queue[i]
    BY <2>1, Zenon DEF QueueInTurn
  <2> QED
    BY <2>1, <2>2, <2>3 DEF QueueInTurn
<1>24. QueueInTurn(g)'
  <2>0. QueueInTurn(g) /\ Given(g)' = Given(g)
    BY <1>19, ShellParts
  <2>1. \A i \in 1 .. Len(line) + 1 : i \in 1 .. Len(line) \/ i = Len(line) + 1
    BY <1>3
  <2>2. ASSUME NEW i \in 1 .. Len(line) + 1, NEW k \in 1 .. Len(line) + 1, i < k
        PROVE  Append(line, s)[i] < Append(line, s)[k]
    <3>1. i \in 1 .. Len(line) /\ Append(line, s)[i] = line[i]
      BY <1>3, <1>5, <2>2
    <3>2. CASE k \in 1 .. Len(line)
      <4>1. line[i] < line[k]
        BY <2>0, <2>2, <3>1, <3>2 DEF QueueInTurn
      <4> QED
        BY <1>5, <3>1, <3>2, <4>1
    <3>3. CASE k = Len(line) + 1
      <4>1. line[i] < s
        BY <1>22, <3>1
      <4> QED
        BY <1>5, <3>1, <3>3, <4>1
    <3> QED
      BY <2>1, <3>2, <3>3
  <2>3. ASSUME NEW i \in 1 .. Len(line) + 1
        PROVE  /\ send'[Append(line, s)[i]].on = g
               /\ \/ send'[Append(line, s)[i]].state = "queued"
                  \/ i = 1 /\ send'[Append(line, s)[i]].state = "polling"
    <3>1. CASE i \in 1 .. Len(line)
      <4>1. Append(line, s)[i] = line[i] /\ send'[line[i]] = send[line[i]]
        BY <1>5, <1>22, <3>1
      <4>2. send[line[i]].on = g /\ (send[line[i]].state = "queued" \/ (i = 1 /\ send[line[i]].state = "polling"))
        BY <2>0, <3>1 DEF QueueInTurn
      <4> QED
        BY <4>1, <4>2, Zenon
    <3>2. CASE i = Len(line) + 1
      BY <1>4, <1>5, <1>11, <3>2
    <3> QED
      BY <2>1, <3>1, <3>2
  <2>4. ASSUME NEW t \in Given(g), NEW i \in 1 .. Len(line) + 1 PROVE t <= Append(line, s)[i]
    <3>1. CASE i \in 1 .. Len(line)
      <4>1. t <= line[i]
        BY <2>0, <3>1 DEF QueueInTurn
      <4> QED
        BY <1>5, <3>1, <4>1
    <3>2. CASE i = Len(line) + 1
      BY <1>5, <1>20, <3>2
    <3> QED
      BY <2>1, <3>1, <3>2
  <2>5. shell'[g].queue = Append(line, s) /\ Len(Append(line, s)) = Len(line) + 1
    BY <1>5, <1>7
  <2> HIDE DEF line
  <2> QED
    BY <2>0, <2>2, <2>3, <2>4, <2>5 DEF QueueInTurn
<1>25. ASSUME NEW t \in 1 .. Sends PROVE WaitsInQueue(t)'
  <2>1. CASE t = s
    <3>1. Len(line) + 1 \in 1 .. Len(shell'[g].queue) /\ shell'[g].queue[Len(line) + 1] = s
      BY <1>3, <1>5, <1>7
    <3>2. send'[t].on = g /\ send'[t].state # "polling"
      BY <1>4, <1>11, <2>1
    <3> QED
      BY <2>1, <3>1, <3>2 DEF WaitsInQueue
  <2>2. CASE t # s
    <3> SUFFICES ASSUME send[t].state \in {"queued", "polling"}
                 PROVE  /\ send[t].on \in 1 .. Shells
                        /\ \E i \in 1 .. Len(shell'[send[t].on].queue) :
                             /\ shell'[send[t].on].queue[i] = t
                             /\ send[t].state = "polling" => i = 1
      BY <1>11, <2>2 DEF WaitsInQueue
    <3>1. PICK h \in 1 .. Shells : h = send[t].on
      BY WaitsSomewhere
    <3>2. PICK i \in 1 .. Len(shell[h].queue) :
            shell[h].queue[i] = t /\ (send[t].state = "polling" => i = 1)
      BY <3>1, ShellParts DEF WaitsInQueue
    <3>3. i \in 1 .. Len(shell'[h].queue) /\ shell'[h].queue[i] = t
      <4>1. CASE h = g
        <5>1. i \in 1 .. Len(line) /\ line[i] = t
          BY <3>2, <4>1
        <5>2. i \in 1 .. Len(line) + 1 /\ Append(line, s)[i] = t
          BY <1>3, <1>5, <5>1
        <5> QED
          BY <1>5, <1>7, <4>1, <5>2, Zenon
      <4>2. CASE h # g
        BY <1>9, <3>2, <4>2
      <4> QED
        BY <4>1, <4>2
    <3> QED
      BY <3>1, <3>2, <3>3
  <2> QED
    BY <2>1, <2>2
<1>26. ASSUME NEW t \in 1 .. Sends PROVE ExitedIsForgotten(t)' /\ RepliesStand(t)'
  <2>1. CASE t = s
    <3>1. send'[t] = r
      BY <1>11, <2>1
    <3>2. r.reply \notin {"exited", "late", "no shell", "aborted"} /\ r.state # "none"
      BY <1>4
    <3> QED
      BY <1>4, <3>1, <3>2, Zenon DEF ExitedIsForgotten, RepliesStand
  <2>2. CASE t # s
    <3>1. send'[t] = send[t] /\ RepliesStand(t) /\ ExitedIsForgotten(t)
      BY <1>11, <2>2, ShellParts
    <3>2. RepliesStand(t)'
      BY <3>1, Zenon DEF RepliesStand
    <3>3. ASSUME send[t].reply = "exited", NEW u \in 1 .. Sends, send'[u].on = send[t].on
          PROVE  send'[u].state # "polling"
      BY <1>4, <1>11, <3>1, <3>3 DEF ExitedIsForgotten
    <3>4. ExitedIsForgotten(t)'
      BY <1>1, <3>1, <3>3, Zenon DEF ExitedIsForgotten
    <3> QED
      BY <3>2, <3>4
  <2> QED
    BY <2>1, <2>2
<1>27. \A t, u \in 1 .. Sends : ShowApart(t, u)'
  BY <1>14, ShellParts, ApartStays
<1> QED
  BY <1>14, <1>15, <1>16, <1>17, <1>18, <1>19, <1>21, <1>23, <1>24, <1>25, <1>26, <1>27 DEF ShellInv
\* A send that finds its shell dead ends at once, and the shell is forgotten.
LEMMA DeadSendKeeps ==
    ASSUME ShellInv, NEW s \in 1 .. Sends, Send(s), ~shell[current].alive
    PROVE  ShellInv'
<1> DEFINE r == [NotSent EXCEPT !.state = "done", !.reply = "no shell"]
<1>1. /\ send[s].state = "none" /\ current # NoShell /\ current' = NoShell /\ shell' = shell
      /\ send' = [send EXCEPT ![s] = r]
      /\ \A earlier \in 1 .. s - 1 : send[earlier].state # "none"
  BY DEF Send
<1>2. ShellShape /\ NoShell \in 0 .. Shells
  BY ShellParts, ShellAssumption DEF NoShell
<1>3. r \in SendRecord /\ r.state = "done" /\ r.on = NoShell /\ ~r.aborted /\ r.reply = "no shell"
  <2>1. r = [state |-> "done", on |-> NoShell, aborted |-> FALSE, reply |-> "no shell",
             from |-> 1, to |-> 0, lost |-> 0]
    <3>1. r = [NotSent EXCEPT !.state = "done", !.reply = "no shell"]
      OBVIOUS
    <3> HIDE DEF r
    <3> QED
      BY <3>1 DEF NotSent
  <2>2. 1 \in Nat \ {0} /\ 0 \in Nat
    OBVIOUS
  <2> HIDE DEF r
  <2> QED
    BY <1>2, <2>1, <2>2 DEF SendRecord
<1> HIDE DEF r
<1>4. \A t \in 1 .. Sends : send'[t] = IF t = s THEN r ELSE send[t]
  BY <1>1, ShellParts
<1>5. OutputStays /\ shell' \in [1 .. Shells -> ShellRecord]
  <2>1. \A h \in 1 .. Shells : shell[h].cursor \in Nat /\ Len(shell[h].out) \in Nat
    BY ShellParts, ShellFields
  <2> QED
    BY <1>1, <2>1, ShellParts DEF OutputStays
<1>6. send[s].reply = "none"
  BY <1>1, ShellParts DEF RepliesStand
<1>7. ASSUME NEW t \in 1 .. Sends PROVE ReportStays(t) /\ ShownIsBehind(t)' /\ ShowsItsOwn(t)'
  BY <1>1, <1>3, <1>5, <1>6, ReportsStand
<1>8. ShellShape'
  BY <1>1, <1>2, <1>3, ShellParts DEF ShellShape
<1>9. CalledInTurn'
  <2>1. ASSUME NEW t \in 1 .. Sends, NEW u \in 1 .. Sends, t < u, send'[u].state # "none"
        PROVE  send'[t].state # "none"
    <3>1. CASE t = s
      BY <1>3, <1>4, <3>1
    <3>2. CASE u = s /\ t # s
      BY <1>1, <1>4, <2>1, <3>2
    <3>3. CASE u # s /\ t # s
      BY <1>4, <2>1, <3>3, ShellParts DEF CalledInTurn
    <3> QED
      BY <3>1, <3>2, <3>3
  <2> QED
    BY <2>1 DEF CalledInTurn
<1>10. OnStarted'
  <2>1. ASSUME NEW t \in 1 .. Sends, send'[t].on # NoShell PROVE shell'[send'[t].on].started
    BY <1>1, <1>3, <1>4, <2>1, ShellParts DEF OnStarted
  <2>2. \A h \in 1 .. Shells : shell[h].started \/ shell[h] = NotStarted
    BY ShellParts DEF OnStarted
  <2> QED
    BY <1>1, <2>1, <2>2, Zenon DEF OnStarted
<1>11. LiveShellIsReachable'
  <2>1. ASSUME NEW h \in 1 .. Shells, shell[h].alive, ~shell[h].closed PROVE FALSE
    BY <2>1, ShellParts DEF LiveShellIsReachable
  <2> QED
    BY <1>1, <2>1, Zenon DEF LiveShellIsReachable
<1>12. ASSUME NEW h \in 1 .. Shells
       PROVE  InTurn(shell[h].out, shell[h].stdin)' /\ Given(h)' = Given(h) /\ CursorOnMark(h)'
  <2>1. \A t \in 1 .. Sends : send[t].state = "done" => send'[t].state = "done"
    BY <1>1, <1>4
  <2>2. CursorOnMark(h)'
    BY <1>1, <1>5, <2>1, CursorStands
  <2> QED
    BY <1>1, <2>2, ShellParts DEF Given
<1>13. ASSUME NEW h \in 1 .. Shells PROVE GivenIsKnown(h)'
  <2>1. GivenIsKnown(h)
    BY ShellParts
  <2>2. ASSUME NEW t \in Given(h) PROVE send'[t] = send[t]
    <3>1. t \in 1 .. Sends /\ send[t].state # "none"
      BY <2>1 DEF Given, GivenIsKnown
    <3> QED
      BY <1>1, <1>4, <3>1
  <2> QED
    BY <1>12, <2>1, <2>2, Zenon DEF GivenIsKnown
<1>14. ASSUME NEW h \in 1 .. Shells PROVE QueueInTurn(h)'
  <2>1. QueueInTurn(h)
    BY ShellParts
  <2>2. ASSUME NEW i \in 1 .. Len(shell[h].queue)
        PROVE  /\ send'[shell[h].queue[i]].on = h
               /\ \/ send'[shell[h].queue[i]].state = "queued"
                  \/ i = 1 /\ send'[shell[h].queue[i]].state = "polling"
    <3>1. /\ send[shell[h].queue[i]].on = h
          /\ \/ send[shell[h].queue[i]].state = "queued"
             \/ i = 1 /\ send[shell[h].queue[i]].state = "polling"
      BY <2>1 DEF QueueInTurn
    <3>2. shell[h].queue[i] \in 1 .. Sends
      BY <1>2, ShellFields
    <3>3. PICK t \in 1 .. Sends : t = shell[h].queue[i]
      BY <3>2
    <3>4. t # s
      BY <1>1, <3>1, <3>3
    <3>5. send'[t] = send[t]
      BY <1>4, <3>4
    <3> QED
      BY <3>1, <3>3, <3>5, Zenon
  <2>3. /\ \A i, k \in 1 .. Len(shell[h].queue) : i < k => shell[h].queue[i] < shell[h].queue[k]
        /\ \A t \in Given(h), i \in 1 .. Len(shell[h].queue) : t <= shell[h].queue[i]
    BY <2>1, Zenon DEF QueueInTurn
  <2> QED
    BY <1>1, <1>12, <2>1, <2>2, <2>3 DEF QueueInTurn
<1>15. ASSUME NEW t \in 1 .. Sends
       PROVE  WaitsInQueue(t)' /\ ExitedIsForgotten(t)' /\ RepliesStand(t)'
  <2>1. CASE t = s
    <3>1. send'[t] = r
      BY <1>4, <2>1
    <3>2. r.state \notin {"queued", "polling", "none"} /\ r.reply \notin {"exited", "aborted"}
      BY <1>3
    <3>3. r.state = "done" /\ ~r.aborted
      BY <1>3
    <3>4. RepliesStand(t)'
      BY <3>1, <3>2, <3>3, Zenon DEF RepliesStand
    <3> QED
      BY <3>1, <3>2, <3>4, Zenon DEF ExitedIsForgotten, WaitsInQueue
  <2>2. CASE t # s
    <3>1. send'[t] = send[t] /\ RepliesStand(t) /\ ExitedIsForgotten(t) /\ WaitsInQueue(t)
      BY <1>4, <2>2, ShellParts
    <3>2. RepliesStand(t)'
      BY <3>1, Zenon DEF RepliesStand
    <3>3. WaitsInQueue(t)'
      BY <1>1, <3>1, Zenon DEF WaitsInQueue
    <3>4. ExitedIsForgotten(t)'
      <4>1. ASSUME send[t].reply = "exited"
            PROVE  /\ NoShell # send[t].on /\ send[t].on \in 1 .. Shells
                   /\ \A u \in 1 .. Sends : send'[u].on = send[t].on => send'[u].state # "polling"
        <5>1. /\ send[t].on \in 1 .. Shells
              /\ \A u \in 1 .. Sends : send[u].on = send[t].on => send[u].state # "polling"
          BY <3>1, <4>1 DEF ExitedIsForgotten
        <5>2. NoShell # send[t].on
          BY <5>1 DEF NoShell
        <5>3. ASSUME NEW u \in 1 .. Sends, send'[u].on = send[t].on PROVE send'[u].state # "polling"
          <6>1. CASE u = s
            BY <1>3, <1>4, <6>1
          <6>2. CASE u # s
            BY <1>4, <5>1, <5>3, <6>2
          <6> QED
            BY <6>1, <6>2
        <5> QED
          BY <5>1, <5>2, <5>3
      <4> QED
        BY <1>1, <3>1, <4>1, Zenon DEF ExitedIsForgotten
    <3> QED
      BY <3>2, <3>3, <3>4
  <2> QED
    BY <2>1, <2>2
<1>16. \A t, u \in 1 .. Sends : ShowApart(t, u)'
  BY <1>7, ShellParts, ApartStays
<1> QED
  BY <1>7, <1>8, <1>9, <1>10, <1>11, <1>12, <1>13, <1>14, <1>15, <1>16 DEF ShellInv
\* The head of the queue of shell g starts to poll, and the shell goes on as q: it has the
\* command as the last of its input, or swallowed it.
Polls(s, g, q) ==
    /\ send[s].state = "queued" /\ IsNext(s) /\ send[s].on = g
    /\ current = g /\ current' = current
    /\ send' = [send EXCEPT ![s].state = "polling"]
    /\ shell' = [shell EXCEPT ![g] = q]
    /\ q.stdin = shell[g].stdin \/ q.stdin = Append(shell[g].stdin, s)
    /\ q.out = shell[g].out /\ q.cursor = shell[g].cursor /\ q.queue = shell[g].queue
    /\ q.started = shell[g].started /\ q.alive = shell[g].alive /\ q.closed = shell[g].closed

\* Whoever is next and waits is the first of the queue, and later than all that the shell
\* has been given.
LEMMA NextIsLatest ==
    ASSUME ShellInv, NEW s \in 1 .. Sends, NEW g \in 1 .. Shells,
           send[s].state = "queued", IsNext(s), send[s].on = g
    PROVE  /\ 1 \in 1 .. Len(shell[g].queue) /\ shell[g].queue[1] = s
           /\ \A t \in Given(g) : t < s
<1>1. shell[g].queue \in Seq(1 .. Sends) /\ WaitsInQueue(s) /\ QueueInTurn(g) /\ GivenIsKnown(g)
  BY ShellParts, ShellFields
<1>2. PICK i \in 1 .. Len(shell[g].queue) : shell[g].queue[i] = s
  BY <1>1 DEF WaitsInQueue
<1>3. shell[g].queue # << >> /\ 1 \in 1 .. Len(shell[g].queue)
  BY <1>1, <1>2
<1>4. shell[g].queue[1] = s
  BY <1>1, <1>3, HeadTailProperties DEF IsNext
<1>5. ASSUME NEW t \in Given(g) PROVE t < s
  <2>1. t \in 1 .. Sends /\ t <= s
    BY <1>1, <1>3, <1>4 DEF QueueInTurn, Given
  <2>2. t # s
    BY <1>1 DEF GivenIsKnown
  <2> QED
    BY <2>1, <2>2
<1> QED
  BY <1>3, <1>4, <1>5

\* A send that starts to poll is in turn.
LEMMA PollsKeeps ==
    ASSUME ShellInv, NEW s \in 1 .. Sends, NEW g \in 1 .. Shells, NEW q \in ShellRecord, Polls(s, g, q)
    PROVE  ShellInv'
<1> DEFINE rr == [send[s] EXCEPT !.state = "polling"]
<1>1. /\ send[s].state = "queued" /\ send[s].on = g /\ current = g /\ current' = current
      /\ shell' = [shell EXCEPT ![g] = q] /\ send[s] \in SendRecord /\ ShellShape
  BY ShellParts DEF Polls
<1>2. /\ rr \in SendRecord /\ rr.state = "polling" /\ rr.on = g /\ rr.aborted = send[s].aborted
      /\ rr.reply = send[s].reply
  BY <1>1 DEF SendRecord
<1>3. PICK r \in SendRecord :
        /\ send' = [send EXCEPT ![s] = r]
        /\ r.state = "polling" /\ r.on = g /\ r.aborted = send[s].aborted /\ r.reply = send[s].reply
  <2>1. send' = [send EXCEPT ![s] = rr]
    BY <1>1, ShellParts DEF Polls, SendRecord
  <2> QED
    BY <1>2, <2>1
<1> HIDE DEF rr
<1>4. \A t \in 1 .. Sends : send'[t] = IF t = s THEN r ELSE send[t]
  BY <1>3, ShellParts
<1>5. \A t \in 1 .. Sends : send'[t].on = send[t].on
  BY <1>1, <1>3, <1>4
<1>6. /\ shell'[g] = q
      /\ \A h \in 1 .. Shells : h # g => shell'[h] = shell[h]
      /\ shell' \in [1 .. Shells -> ShellRecord]
  BY <1>1, ShellParts
<1>7. \A h \in 1 .. Shells : /\ shell'[h].out = shell[h].out /\ shell'[h].cursor = shell[h].cursor
                            /\ shell'[h].queue = shell[h].queue
                            /\ shell'[h].started = shell[h].started
                            /\ shell'[h].alive = shell[h].alive /\ shell'[h].closed = shell[h].closed
  BY <1>6 DEF Polls
<1>8. OutputStays
  <2>1. \A h \in 1 .. Shells : shell[h].cursor \in Nat /\ Len(shell[h].out) \in Nat
    BY <1>1, ShellFields
  <2> QED
    BY <1>7, <2>1 DEF OutputStays
<1>9. ASSUME NEW t \in 1 .. Sends PROVE ReportStays(t) /\ ShownIsBehind(t)' /\ ShowsItsOwn(t)'
  <2>1. send[s].reply # "shown"
    BY <1>1, WaitsSomewhere
  <2>2. r.reply # "shown" /\ (send[s].reply \in {"late", "aborted"} => r.reply \in {"late", "aborted"})
    BY <1>3, <2>1
  <2> QED
    BY <1>3, <1>6, <1>8, <2>2, ReportsStand
<1>10. ShellShape' /\ CalledInTurn' /\ OnStarted' /\ LiveShellIsReachable'
  <2>1. ShellShape'
    BY <1>1, <1>3, <1>6, ShellParts DEF ShellShape
  <2>2. CalledInTurn'
    <3>1. \A t \in 1 .. Sends : send'[t].state # "none" <=> send[t].state # "none"
      BY <1>1, <1>3, <1>4
    <3> QED
      BY <3>1, ShellParts DEF CalledInTurn
  <2>3. OnStarted'
    <3>1. ASSUME NEW h \in 1 .. Shells PROVE shell'[h].started \/ shell'[h] = NotStarted
      <4>1. CASE h = g
        BY <1>1, <1>7, <4>1, ShellParts, ShellAssumption DEF OnStarted, NoShell
      <4>2. CASE h # g
        BY <1>6, <4>2, ShellParts DEF OnStarted
      <4> QED
        BY <4>1, <4>2
    <3>2. current' # NoShell => shell'[current'].started
      BY <1>1, <1>7, ShellParts DEF OnStarted
    <3>3. ASSUME NEW t \in 1 .. Sends, send[t].on # NoShell PROVE shell'[send[t].on].started
      <4>1. send[t].on \in 1 .. Shells
        BY <1>1, <3>3, SendFields, ShellAssumption DEF NoShell
      <4>2. shell[send[t].on].started
        BY <3>3, ShellParts DEF OnStarted
      <4> QED
        BY <1>7, <4>1, <4>2
    <3> QED
      BY <1>5, <3>1, <3>2, <3>3, Zenon DEF OnStarted
  <2>4. LiveShellIsReachable'
    BY <1>1, <1>7, ShellParts, Zenon DEF LiveShellIsReachable
  <2> QED
    BY <2>1, <2>2, <2>3, <2>4
<1>11. /\ 1 \in 1 .. Len(shell[g].queue) /\ shell[g].queue[1] = s
       /\ \A t \in Given(g) : t < s
  BY NextIsLatest DEF Polls
<1>12. /\ shell[g].out \in Seq(Piece) /\ shell[g].stdin \in Seq(1 .. Sends) /\ shell[g].queue \in Seq(1 .. Sends)
       /\ InTurn(shell[g].out, shell[g].stdin)
       /\ \A p \in 1 .. Len(shell[g].out) : shell[g].out[p].by \in Given(g)
       /\ \A i \in 1 .. Len(shell[g].stdin) : shell[g].stdin[i] \in Given(g)
  <2>1. /\ \A p \in 1 .. Len(shell[g].out) : shell[g].out[p].by \in 1 .. Sends
        /\ \A i \in 1 .. Len(shell[g].stdin) : shell[g].stdin[i] \in 1 .. Sends
    BY <1>1, ShellFields
  <2>2. /\ \A p \in 1 .. Len(shell[g].out) : shell[g].out[p].by \in Given(g)
        /\ \A i \in 1 .. Len(shell[g].stdin) : shell[g].stdin[i] \in Given(g)
    BY <2>1, Zenon DEF Given
  <2> QED
    BY <1>1, <2>2, ShellFields, ShellParts
<1>13. InTurn(shell'[g].out, shell'[g].stdin)
  <2>1. shell'[g].out = shell[g].out
    BY <1>7
  <2>2. CASE q.stdin = shell[g].stdin
    BY <1>6, <1>12, <2>1, <2>2
  <2>3. CASE q.stdin = Append(shell[g].stdin, s)
    <3>1. InTurn(shell[g].out, Append(shell[g].stdin, s))
      BY <1>11, <1>12, GivesInTurn
    <3> QED
      BY <1>6, <2>1, <2>3, <3>1
  <2> QED
    BY <2>2, <2>3 DEF Polls
<1>14. ASSUME NEW h \in 1 .. Shells PROVE Given(h)' \subseteq Given(h) \cup (IF h = g THEN {s} ELSE {})
  <2>1. CASE h # g
    BY <1>6, <2>1 DEF Given
  <2>2. CASE h = g
    <3>1. ASSUME NEW t \in 1 .. Sends, NEW i \in 1 .. Len(q.stdin), q.stdin[i] = t
          PROVE  t \in Given(g) \cup {s}
      <4>1. CASE q.stdin = shell[g].stdin
        BY <1>12, <3>1, <4>1
      <4>2. CASE q.stdin = Append(shell[g].stdin, s)
        <5>1. i \in 1 .. Len(shell[g].stdin) \/ i = Len(shell[g].stdin) + 1
          BY <1>12, <4>2
        <5>2. i \in 1 .. Len(shell[g].stdin) => q.stdin[i] = shell[g].stdin[i]
          BY <1>12, <4>2
        <5>3. i = Len(shell[g].stdin) + 1 => q.stdin[i] = s
          BY <1>12, <4>2
        <5> QED
          BY <1>12, <3>1, <5>1, <5>2, <5>3
      <4> QED
        BY <4>1, <4>2 DEF Polls
    <3>2. ASSUME NEW t \in 1 .. Sends, NEW p \in 1 .. Len(shell[g].out), shell[g].out[p].by = t
          PROVE  t \in Given(g)
      BY <1>12, <3>2
    <3>3. ASSUME NEW t \in Given(g)' PROVE t \in Given(g) \cup {s}
      <4>1. t \in 1 .. Sends /\ (\/ \E i \in 1 .. Len(q.stdin) : q.stdin[i] = t
                                 \/ \E p \in 1 .. Len(shell[g].out) : shell[g].out[p].by = t)
        BY <1>6, <1>7, <3>3 DEF Given
      <4> QED
        BY <3>1, <3>2, <4>1
    <3> QED
      BY <2>2, <3>3
  <2> QED
    BY <2>1, <2>2
<1>15. ASSUME NEW h \in 1 .. Shells PROVE InTurn(shell[h].out, shell[h].stdin)' /\ CursorOnMark(h)'
  <2>1. \A t \in 1 .. Sends : send[t].state = "done" => send'[t].state = "done"
    BY <1>1, <1>4
  <2>2. CursorOnMark(h)'
    BY <1>6, <1>7, <1>8, <2>1, CursorStands
  <2>3. InTurn(shell[h].out, shell[h].stdin)'
    <3>1. CASE h = g
      BY <1>13, <3>1
    <3>2. CASE h # g
      BY <1>6, <3>2, ShellParts
    <3> QED
      BY <3>1, <3>2
  <2> QED
    BY <2>2, <2>3
<1>16. ASSUME NEW h \in 1 .. Shells PROVE GivenIsKnown(h)'
  <2>1. ASSUME NEW t \in Given(h)'
        PROVE  /\ send'[t].on = h
               /\ \/ send'[t].state = "polling"
                  \/ send'[t].state = "done" /\ send'[t].reply \in {"shown", "late", "exited", "aborted"}
    <3>1. CASE t = s
      <4>1. h = g
        BY <1>1, <1>14, <2>1, <3>1, ShellParts DEF GivenIsKnown
      <4> QED
        BY <1>3, <1>4, <3>1, <4>1
    <3>2. CASE t # s
      <4>1. t \in Given(h)
        BY <1>14, <2>1, <3>2
      <4>2. t \in 1 .. Sends /\ GivenIsKnown(h)
        BY <4>1, ShellParts DEF Given
      <4>3. send'[t] = send[t]
        BY <1>4, <3>2, <4>2
      <4> QED
        BY <4>1, <4>2, <4>3, Zenon DEF GivenIsKnown
    <3> QED
      BY <3>1, <3>2
  <2> QED
    BY <2>1, Zenon DEF GivenIsKnown
<1>17. ASSUME NEW h \in 1 .. Shells PROVE QueueInTurn(h)'
  <2>0. /\ QueueInTurn(h) /\ shell'[h].queue = shell[h].queue
        /\ \A i \in 1 .. Len(shell[h].queue) : shell[h].queue[i] \in 1 .. Sends
    BY <1>1, <1>7, ShellFields, ShellParts
  <2>1. \A i, k \in 1 .. Len(shell[h].queue) : i < k => shell[h].queue[i] < shell[h].queue[k]
    BY <2>0, Zenon DEF QueueInTurn
  <2>2. ASSUME NEW i \in 1 .. Len(shell[h].queue)
        PROVE  /\ send'[shell[h].queue[i]].on = h
               /\ \/ send'[shell[h].queue[i]].state = "queued"
                  \/ i = 1 /\ send'[shell[h].queue[i]].state = "polling"
    <3>1. PICK t \in 1 .. Sends : t = shell[h].queue[i]
      BY <2>0
    <3>2. /\ send[t].on = h
          /\ \/ send[t].state = "queued"
             \/ i = 1 /\ send[t].state = "polling"
      BY <2>0, <3>1 DEF QueueInTurn
    <3>3. CASE t # s
      <4>1. send'[t] = send[t]
        BY <1>4, <3>3
      <4> QED
        BY <3>1, <3>2, <4>1, Zenon
    <3>4. CASE t = s
      <4>1. h = g
        BY <1>1, <3>2, <3>4
      <4>2. i = 1
        <5>1. CASE i # 1
          <6>1. 1 < i
            BY <5>1
          <6>2. shell[g].queue[1] < shell[g].queue[i]
            BY <1>11, <2>1, <4>1, <6>1
          <6>3. s < s
            BY <1>11, <3>1, <3>4, <4>1, <6>2
          <6> QED
            BY <6>3
        <5> QED
          BY <5>1
      <4>3. send'[t].on = g /\ send'[t].state = "polling"
        BY <1>3, <1>4, <3>4
      <4> QED
        BY <3>1, <4>1, <4>2, <4>3
    <3> QED
      BY <3>3, <3>4
  <2>3. ASSUME NEW t \in Given(h)', NEW i \in 1 .. Len(shell[h].queue) PROVE t <= shell[h].queue[i]
    <3>1. CASE t \in Given(h)
      BY <2>0, <3>1 DEF QueueInTurn
    <3>2. CASE t \notin Given(h)
      <4>1. h = g /\ t = s
        BY <1>14, <2>3, <3>2
      <4>2. CASE i = 1
        BY <1>11, <4>1, <4>2
      <4>3. CASE i # 1
        <5>1. 1 < i /\ shell[g].queue[i] \in 1 .. Sends
          BY <2>0, <4>1, <4>3
        <5>2. s < shell[g].queue[i]
          BY <1>11, <2>1, <4>1, <5>1
        <5> QED
          BY <4>1, <5>1, <5>2
      <4> QED
        BY <4>2, <4>3
    <3> QED
      BY <3>1, <3>2
  <2> QED
    BY <2>0, <2>1, <2>2, <2>3 DEF QueueInTurn
<1>18. ASSUME NEW t \in 1 .. Sends
       PROVE  WaitsInQueue(t)' /\ ExitedIsForgotten(t)' /\ RepliesStand(t)'
  <2>1. WaitsInQueue(t)'
    <3>1. CASE t = s
      <4>1. send'[t].on = g /\ shell'[g].queue = shell[g].queue
        BY <1>3, <1>4, <1>7, <3>1
      <4> QED
        BY <1>11, <3>1, <4>1, Zenon DEF WaitsInQueue
    <3>2. CASE t # s
      <4>1. send'[t] = send[t] /\ WaitsInQueue(t)
        BY <1>4, <3>2, ShellParts
      <4> QED
        BY <1>7, <4>1, Zenon DEF WaitsInQueue
    <3> QED
      BY <3>1, <3>2
  <2>2. RepliesStand(t)'
    <3>0. RepliesStand(t)
      BY ShellParts
    <3>1. CASE t = s
      <4>1. send'[t] = r /\ r.state # "none"
        BY <1>3, <1>4, <3>1
      <4>2. r.reply \notin {"late", "exited", "no shell"}
        BY <1>1, <1>3, WaitsSomewhere
      <4> QED
        BY <1>3, <3>0, <3>1, <4>1, <4>2, Zenon DEF RepliesStand
    <3>2. CASE t # s
      <4>1. send'[t] = send[t]
        BY <1>4, <3>2
      <4> QED
        BY <3>0, <4>1, Zenon DEF RepliesStand
    <3> QED
      BY <3>1, <3>2
  <2>3. ExitedIsForgotten(t)'
    <3>1. ASSUME send'[t].reply = "exited"
          PROVE  /\ current # send[t].on /\ send[t].on \in 1 .. Shells
                 /\ \A u \in 1 .. Sends : send'[u].on = send[t].on => send'[u].state # "polling"
      <4>1. send[t].reply = "exited"
        BY <1>3, <1>4, <3>1
      <4>2. /\ current # send[t].on /\ send[t].on \in 1 .. Shells
            /\ \A u \in 1 .. Sends : send[u].on = send[t].on => send[u].state # "polling"
        BY <4>1, ShellParts DEF ExitedIsForgotten
      <4>3. ASSUME NEW u \in 1 .. Sends, send'[u].on = send[t].on PROVE send'[u].state # "polling"
        <5>1. CASE u = s
          BY <1>1, <1>5, <4>2, <4>3, <5>1
        <5>2. CASE u # s
          BY <1>4, <4>2, <4>3, <5>2
        <5> QED
          BY <5>1, <5>2
      <4> QED
        BY <4>2, <4>3
    <3> QED
      BY <1>1, <1>5, <3>1, Zenon DEF ExitedIsForgotten
  <2> QED
    BY <2>1, <2>2, <2>3
<1>19. \A t, u \in 1 .. Sends : ShowApart(t, u)'
  BY <1>9, ShellParts, ApartStays
<1> QED
  BY <1>9, <1>10, <1>15, <1>16, <1>17, <1>18, <1>19 DEF ShellInv

\* The task of a send begins.
LEMMA BeginKeeps ==
    ASSUME ShellInv, NEW s \in 1 .. Sends, Begin(s)
    PROVE  ShellInv'
<1>1. send[s].state = "queued" /\ IsNext(s) /\ current' = current
  BY DEF Begin
<1>2. send[s].on \in 1 .. Shells
  BY <1>1, WaitsSomewhere
<1>3. PICK g \in 1 .. Shells : g = send[s].on
  BY <1>2
<1>4. /\ shell[g] \in ShellRecord /\ shell[g].stdin \in Seq(1 .. Sends)
      /\ shell \in [1 .. Shells -> ShellRecord]
  BY ShellParts, ShellFields
<1>5. CASE send' = [send EXCEPT ![s] = Reply(s, "no shell")] /\ shell' = Dequeued(send[s].on)
  <2>1. Unshown(s, "no shell")
    BY <1>1, <1>5 DEF Unshown
  <2>2. send[s].state \in {"queued", "polling"}
    BY <1>1
  <2> QED
    BY <2>1, <2>2, LeavesUnshown
<1>6. CASE /\ current = g /\ send' = [send EXCEPT ![s].state = "polling"]
           /\ shell' = [shell EXCEPT ![g].stdin = IF shell[g].alive THEN Append(@, s) ELSE @]
  <2> DEFINE w == IF shell[g].alive THEN Append(shell[g].stdin, s) ELSE shell[g].stdin
             qq == [shell[g] EXCEPT !.stdin = w]
  <2>1. w \in Seq(1 .. Sends) /\ (w = shell[g].stdin \/ w = Append(shell[g].stdin, s))
    <3>1. Append(shell[g].stdin, s) \in Seq(1 .. Sends)
      BY <1>4, AppendProperties
    <3>2. CASE shell[g].alive
      BY <3>1, <3>2
    <3>3. CASE ~shell[g].alive
      BY <1>4, <3>3
    <3> QED
      BY <3>2, <3>3
  <2>2. shell' = [shell EXCEPT ![g] = qq]
    BY <1>4, <1>6
  <2> HIDE DEF w
  <2>3. /\ qq \in ShellRecord /\ qq.stdin = w /\ qq.out = shell[g].out /\ qq.cursor = shell[g].cursor
        /\ qq.queue = shell[g].queue /\ qq.started = shell[g].started
        /\ qq.alive = shell[g].alive /\ qq.closed = shell[g].closed
    BY <1>4, <2>1 DEF ShellRecord
  <2> HIDE DEF qq
  <2>4. PICK q \in ShellRecord : q = qq
    BY <2>3
  <2>5. Polls(s, g, q)
    BY <1>1, <1>3, <1>6, <2>1, <2>2, <2>3, <2>4 DEF Polls
  <2> QED
    BY <2>5, PollsKeeps
<1>7. \/ send' = [send EXCEPT ![s] = Reply(s, "no shell")] /\ shell' = Dequeued(send[s].on)
      \/ /\ current = g /\ send' = [send EXCEPT ![s].state = "polling"]
         /\ shell' = [shell EXCEPT ![g].stdin = IF shell[g].alive THEN Append(@, s) ELSE @]
  BY <1>3 DEF Begin
<1> QED
  BY <1>5, <1>6, <1>7

-----------------------------------------------------------------------------
\* Nothing has been sent to begin with.
LEMMA ShellInitInv == ShellInit => ShellInv
<1> SUFFICES ASSUME ShellInit PROVE ShellInv
  OBVIOUS
<1>1. /\ current = NoShell /\ NoShell \in 0 .. Shells /\ Shells \in Nat /\ Sends \in Nat
      /\ \A g \in 1 .. Shells : shell[g] = NotStarted
      /\ \A s \in 1 .. Sends : send[s] = NotSent
  BY ShellAssumption DEF ShellInit, NoShell
<1>2. NotStarted \in ShellRecord
  <2>1. << >> \in Seq(Piece) /\ << >> \in Seq(1 .. Sends)
    OBVIOUS
  <2> QED
    BY <2>1 DEF NotStarted, ShellRecord
<1>3. NotSent \in SendRecord
  BY <1>1 DEF NotSent, SendRecord
<1>4. ShellShape
  BY <1>1, <1>2, <1>3 DEF ShellInit, ShellShape
<1>5. /\ NotStarted.out = << >> /\ NotStarted.stdin = << >> /\ NotStarted.queue = << >>
      /\ NotStarted.cursor = 0 /\ ~NotStarted.alive
      /\ NotSent.state = "none" /\ NotSent.reply = "none" /\ ~NotSent.aborted /\ NotSent.on = NoShell
  BY DEF NotStarted, NotSent
<1>6. OnStarted /\ LiveShellIsReachable /\ CalledInTurn
  BY <1>1, <1>5 DEF OnStarted, LiveShellIsReachable, CalledInTurn
<1>7. ASSUME NEW g \in 1 .. Shells
      PROVE  InTurn(shell[g].out, shell[g].stdin) /\ QueueInTurn(g) /\ GivenIsKnown(g) /\ CursorOnMark(g)
  <2>1. shell[g].out = << >> /\ shell[g].stdin = << >> /\ shell[g].queue = << >> /\ shell[g].cursor = 0
    BY <1>1, <1>5
  <2>2. \A i : i \notin 1 .. Len(<< >>)
    OBVIOUS
  <2>3. InTurn(shell[g].out, shell[g].stdin)
    BY <2>1, <2>2, Zenon DEF InTurn
  <2>4. Given(g) = {}
    BY <2>1, <2>2 DEF Given
  <2>5. QueueInTurn(g) /\ GivenIsKnown(g)
    BY <2>1, <2>2, <2>4, Zenon DEF QueueInTurn, GivenIsKnown
  <2>6. CursorOnMark(g)
    BY <2>1 DEF CursorOnMark
  <2> QED
    BY <2>3, <2>5, <2>6
<1>8. ASSUME NEW s \in 1 .. Sends
      PROVE  /\ WaitsInQueue(s) /\ ShownIsBehind(s) /\ ExitedIsForgotten(s) /\ RepliesStand(s)
             /\ ShowsItsOwn(s)
  <2>1. send[s].state = "none" /\ send[s].reply = "none" /\ ~send[s].aborted
    BY <1>1, <1>5
  <2>2. WaitsInQueue(s) /\ ShownIsBehind(s) /\ ExitedIsForgotten(s) /\ ShowsItsOwn(s)
    BY <2>1 DEF WaitsInQueue, ShownIsBehind, ExitedIsForgotten, ShowsItsOwn
  <2>3. RepliesStand(s)
    BY <2>1 DEF RepliesStand
  <2> QED
    BY <2>2, <2>3
<1>9. \A s, t \in 1 .. Sends : ShowApart(s, t)
  BY <1>1, <1>5 DEF ShowApart
<1> QED
  BY <1>4, <1>6, <1>7, <1>8, <1>9 DEF ShellInv

\* Every step of the shells and of their sends keeps the invariant.
LEMMA ShellNextInv == ShellInv /\ [ShellNext]_shellVars => ShellInv'
<1> SUFFICES ASSUME ShellInv, [ShellNext]_shellVars PROVE ShellInv'
  OBVIOUS
<1>1. ASSUME NEW g \in 1 .. Shells, StartShell(g) PROVE ShellInv'
  BY <1>1, StartShellKeeps
<1>2. ASSUME NEW g \in 1 .. Shells, Writes(g) PROVE ShellInv'
  BY <1>2, WritesKeeps
<1>3. ASSUME NEW g \in 1 .. Shells, Dies(g) PROVE ShellInv'
  BY <1>3, DiesKeeps
<1>4. ASSUME NEW s \in 1 .. Sends, Send(s) PROVE ShellInv'
  BY <1>4, QueuedKeeps, DeadSendKeeps
<1>5. ASSUME NEW s \in 1 .. Sends, AbortSend(s) PROVE ShellInv'
  BY <1>5, AbortSendKeeps
<1>6. ASSUME NEW s \in 1 .. Sends, Begin(s) PROVE ShellInv'
  BY <1>6, BeginKeeps
<1>7. ASSUME NEW s \in 1 .. Sends, Found(s) PROVE ShellInv'
  BY <1>7, FoundKeeps
<1>8. ASSUME NEW s \in 1 .. Sends, GiveUp(s) PROVE ShellInv'
  BY <1>8, GiveUpKeeps
<1>9. CASE CloseShell
  BY <1>9, CloseShellKeeps
<1>10. CASE UNCHANGED shellVars
  <2>1. current' = current /\ shell' = shell /\ send' = send
    BY <1>10 DEF shellVars
  <2>2. /\ ShellShape' = ShellShape /\ OnStarted' = OnStarted
        /\ LiveShellIsReachable' = LiveShellIsReachable /\ CalledInTurn' = CalledInTurn
    BY <2>1 DEF ShellShape, OnStarted, LiveShellIsReachable, CalledInTurn
  <2>3. ASSUME NEW g \in 1 .. Shells
        PROVE  /\ InTurn(shell[g].out, shell[g].stdin)' /\ QueueInTurn(g)'
               /\ GivenIsKnown(g)' /\ CursorOnMark(g)'
    <3>1. Given(g)' = Given(g)
      BY <2>1 DEF Given
    <3>2. InTurn(shell[g].out, shell[g].stdin)'
      BY <2>1, ShellParts
    <3>3. QueueInTurn(g)' /\ GivenIsKnown(g)' /\ CursorOnMark(g)'
      <4>1. QueueInTurn(g)'
        BY <2>1, <3>1, ShellParts DEF QueueInTurn
      <4>2. GivenIsKnown(g)'
        BY <2>1, <3>1, ShellParts DEF GivenIsKnown
      <4>3. CursorOnMark(g)'
        BY <2>1, ShellParts DEF CursorOnMark, Marks
      <4> QED
        BY <4>1, <4>2, <4>3
    <3> QED
      BY <3>2, <3>3
  <2>4. ASSUME NEW s \in 1 .. Sends
        PROVE  /\ WaitsInQueue(s)' /\ ShownIsBehind(s)' /\ ExitedIsForgotten(s)'
               /\ RepliesStand(s)' /\ ShowsItsOwn(s)'
    <3>1. WaitsInQueue(s)'
      BY <2>1, ShellParts DEF WaitsInQueue
    <3>2. ShownIsBehind(s)'
      BY <2>1, ShellParts DEF ShownIsBehind, Marks
    <3>3. ExitedIsForgotten(s)'
      BY <2>1, ShellParts DEF ExitedIsForgotten
    <3>4. RepliesStand(s)'
      BY <2>1, ShellParts DEF RepliesStand
    <3>5. ShowsItsOwn(s)'
      BY <2>1, ShellParts DEF ShowsItsOwn, ShownBy, GivenUp
    <3> QED
      BY <3>1, <3>2, <3>3, <3>4, <3>5
  <2>5. \A s, t \in 1 .. Sends : ShowApart(s, t)'
    BY <2>1, ShellParts, Zenon DEF ShowApart, ShownBy
  <2> QED
    BY <2>2, <2>3, <2>4, <2>5, ShellParts DEF ShellInv
<1> QED
  BY <1>1, <1>2, <1>3, <1>4, <1>5, <1>6, <1>7, <1>8, <1>9, <1>10 DEF ShellNext

\* The invariant implies what the run checks.
LEMMA ShellInvTells == ShellInv => ShellTypeOK /\ SessionsStayApart
<1> SUFFICES ASSUME ShellInv PROVE ShellTypeOK /\ SessionsStayApart
  OBVIOUS
<1>1. ASSUME NEW g \in 1 .. Shells
      PROVE  /\ shell[g].cursor \in 0 .. Len(shell[g].out)
             /\ ToSet(shell[g].queue) \cup ToSet(shell[g].stdin) \subseteq 1 .. Sends
  <2>1. CursorOnMark(g) /\ ShellShape
    BY ShellParts
  <2>2. /\ \A i \in 1 .. Len(shell[g].queue) : shell[g].queue[i] \in 1 .. Sends
        /\ \A i \in 1 .. Len(shell[g].stdin) : shell[g].stdin[i] \in 1 .. Sends
        /\ shell[g].queue \in Seq(1 .. Sends) /\ shell[g].stdin \in Seq(1 .. Sends)
    BY <2>1, ShellFields
  <2>3. /\ DOMAIN shell[g].queue = 1 .. Len(shell[g].queue)
        /\ DOMAIN shell[g].stdin = 1 .. Len(shell[g].stdin)
    BY <2>2
  <2> QED
    BY <2>1, <2>2, <2>3 DEF CursorOnMark, ToSet
<1>2. ASSUME NEW s \in 1 .. Sends
      PROVE  /\ send[s].state \in {"none", "queued", "polling", "done"}
             /\ send[s].reply \in {"none", "shown", "late", "exited", "no shell", "aborted"}
             /\ send[s].on \in 0 .. Shells
  BY ShellParts DEF SendRecord
<1>3. ShellTypeOK
  BY <1>1, <1>2, ShellParts DEF ShellTypeOK
<1>4. OutputHasItsOwner
  <2>1. ASSUME NEW s \in 1 .. Sends, send[s].reply = "shown"
        PROVE  LET written == shell[send[s].on].out IN
               /\ \A p \in ShownBy(s) : written[p].by = s \/ (written[p].by < s /\ GivenUp(written[p].by))
               /\ \A p \in 1 .. send[s].to :
                    written[p].by = s => p \in ShownBy(s) \/ p <= send[s].lost
    BY <2>1, ShellParts DEF ShowsItsOwn
  <2>2. ASSUME NEW s \in 1 .. Sends, send[s].reply = "shown", NEW other \in 1 .. s - 1,
               send[other].reply = "shown", send[other].on = send[s].on
        PROVE  ShownBy(other) \cap ShownBy(s) = {}
    <3>1. other \in 1 .. Sends /\ other # s
      BY ShellAssumption
    <3> QED
      BY <2>2, <3>1, ShellParts DEF ShowApart
  <2> QED
    BY <2>1, <2>2, Zenon DEF OutputHasItsOwner
<1>5. LiveShellIsReachable
  BY ShellParts
<1> QED
  BY <1>3, <1>4, <1>5 DEF SessionsStayApart

\* bash-session.ts: a send that reports an exit code shows its own output and all of it that
\* is left, with at most what given-up sends left before it, no output is shown twice, and
\* the workspace's live shell is always the one its record names.
THEOREM SessionsAreKeptApart == ShellSpec => [](ShellTypeOK /\ SessionsStayApart)
<1>1. ShellSpec => []ShellInv
  BY ShellInitInv, ShellNextInv, PTL DEF ShellSpec
<1> QED
  BY <1>1, ShellInvTells, PTL

-----------------------------------------------------------------------------
(* The drivers with a loop of their own.                                   *)

\* A sequence of weights has its largest at the place that leads, and no earlier one is
\* as large.
LEMMA LeadingIsFirst ==
  ASSUME NEW w, Len(w) \in Nat, Len(w) # 0, \A i \in 1 .. Len(w) : w[i] \in Nat
  PROVE  /\ Leading(w) \in 1 .. Len(w)
         /\ \A i \in 1 .. Len(w) : w[i] <= w[Leading(w)]
         /\ \A i \in 1 .. Leading(w) - 1 : w[i] < w[Leading(w)]
<1> DEFINE len == Len(w)
           Next1(f, i) == IF i = 1 THEN 1 ELSE IF w[i] > w[f[i - 1]] THEN i ELSE f[i - 1]
           Reached(n, f) == f = [i \in 1 .. n |-> Next1(f, i)]
           Leads(n, k) == /\ k \in 1 .. n
                          /\ \A i \in 1 .. n : w[i] <= w[k]
                          /\ \A i \in 1 .. k - 1 : w[i] < w[k]
           Reach == {n \in Nat : n <= len => \E f : Reached(n, f)}
<1>1. 0 \in Reach
  <2>1. Reached(0, [i \in 1 .. 0 |-> 1])
    OBVIOUS
  <2> QED
    BY <2>1
<1>2. ASSUME NEW n \in Nat, n \in Reach PROVE n + 1 \in Reach
  <2> SUFFICES ASSUME n + 1 <= len PROVE \E f : Reached(n + 1, f)
    OBVIOUS
  <2>1. PICK f : Reached(n, f)
    BY <1>2
  <2> DEFINE v == Next1(f, n + 1)
             g == [i \in 1 .. n + 1 |-> IF i = n + 1 THEN v ELSE f[i]]
  <2>2. \A i \in 1 .. n : g[i] = f[i]
    OBVIOUS
  <2>3. ASSUME NEW i \in 1 .. n + 1 PROVE g[i] = Next1(g, i)
    <3>1. CASE i = 1
      <4>1. n # 0 => 1 \in 1 .. n /\ f[1] = 1
        BY <2>1
      <4> QED
        BY <3>1, <4>1
    <3>2. CASE i \in 2 .. n
      <4>1. i \in 1 .. n /\ i - 1 \in 1 .. n /\ i # 1
        BY <3>2
      <4>2. g[i] = f[i] /\ g[i - 1] = f[i - 1]
        BY <2>2, <4>1
      <4>3. f[i] = Next1(f, i)
        BY <2>1, <4>1
      <4> HIDE DEF g
      <4> QED
        BY <4>2, <4>3
    <3>3. CASE i = n + 1 /\ i # 1
      <4>1. i - 1 \in 1 .. n
        BY <3>3
      <4>2. g[i - 1] = f[i - 1] /\ g[i] = v
        BY <2>2, <3>3, <4>1
      <4> HIDE DEF g
      <4> QED
        BY <3>3, <4>2
    <3> QED
      BY <3>1, <3>2, <3>3
  <2>4. DOMAIN g = 1 .. n + 1 /\ g = [i \in DOMAIN g |-> g[i]]
    OBVIOUS
  <2> HIDE DEF g
  <2>5. Reached(n + 1, g)
    BY <2>3, <2>4
  <2> QED
    BY <2>5
<1> HIDE DEF Reach
<1>3. len \in Reach
  BY <1>1, <1>2, Shared!SetInduction
<1>4. \E f : Reached(len, f)
  BY <1>3 DEF Reach
<1> DEFINE best == CHOOSE f : Reached(len, f)
<1>5. Reached(len, best)
  BY <1>4
<1>6. Leading(w) = best[len]
  BY DEF Leading
<1> HIDE DEF best
<1>7. \A i \in 1 .. len : best[i] = Next1(best, i)
  BY <1>5
<1> DEFINE Led == {n \in Nat : n # 0 /\ n <= len => Leads(n, best[n])}
<1>8. 0 \in Led
  OBVIOUS
<1>9. ASSUME NEW n \in Nat, n \in Led PROVE n + 1 \in Led
  <2> SUFFICES ASSUME n + 1 <= len PROVE Leads(n + 1, best[n + 1])
    OBVIOUS
  <2>1. n + 1 \in 1 .. len /\ w[n + 1] \in Nat
    OBVIOUS
  <2>2. CASE n = 0
    <3>1. best[1] = 1
      BY <1>7, <2>1, <2>2
    <3> QED
      BY <2>1, <2>2, <3>1
  <2>3. CASE n # 0
    <3>1. Leads(n, best[n])
      BY <1>9, <2>1, <2>3
    <3> DEFINE k == best[n]
    <3>2. best[n + 1] = IF w[n + 1] > w[k] THEN n + 1 ELSE k
      BY <1>7, <2>1, <2>3
    <3> HIDE DEF k
    <3>3. k \in 1 .. n /\ (\A i \in 1 .. n : w[i] <= w[k]) /\ (\A i \in 1 .. k - 1 : w[i] < w[k])
      BY <3>1 DEF k
    <3>4. w[k] \in Nat /\ \A i \in 1 .. n : w[i] \in Nat
      BY <2>1, <3>3
    <3>5. CASE w[n + 1] > w[k]
      <4>1. \A i \in 1 .. n : w[i] < w[n + 1]
        BY <2>1, <3>3, <3>4, <3>5
      <4>2. \A i \in 1 .. n + 1 : w[i] <= w[n + 1]
        BY <2>1, <4>1, <3>4
      <4> QED
        BY <3>2, <3>5, <4>1, <4>2
    <3>6. CASE ~ (w[n + 1] > w[k])
      <4>1. w[n + 1] <= w[k]
        BY <2>1, <3>4, <3>6
      <4>2. \A i \in 1 .. n + 1 : w[i] <= w[k]
        BY <3>3, <4>1
      <4> QED
        BY <3>2, <3>3, <3>6, <4>2
    <3> QED
      BY <3>5, <3>6
  <2> QED
    BY <2>2, <2>3
<1> HIDE DEF Led
<1>10. len \in Led
  BY <1>8, <1>9, Shared!SetInduction
<1>11. Leads(len, best[len])
  BY <1>10 DEF Led
<1> QED
  BY <1>6, <1>11

-----------------------------------------------------------------------------
Profiles == [driver : Drivers, mode : Modes, budget : Budgets]
Doings == {"plans", "turn", "tools", "batch critic", "critic", "replan", "voted", "leaving",
           "completed", "failed", "aborted"}
Phases == {"think", "evaluate", "act", "reflect", "done"}
Reasonings == [phase : Phases, plans : Nat, scores : Seq(Scores), selected : Nat, rounds : Nat]
Loops == [turns : Nat, quiet : Nat, replans : Nat, redirects : Nat]
Answers == {Unsaid} \cup [from : {"thought", "observation"}, word : Words]

DriverShape ==
  /\ profile \in Profiles /\ doing \in Doings /\ loop \in Loops
  /\ loop.redirects <= CriticBudget /\ loop.replans <= ReplanBudget
  /\ batch \in 0 .. MaxAsked /\ busy \in 0 .. MaxBusy /\ attempts \in 1 .. Attempts
  /\ answer \in Answers /\ samples \in Seq(Words) /\ idle \in Nat
  /\ plan \in [of : 0 .. Width, scores : Seq(Scores)]
  /\ doing = "tools" => batch # 0

\* Which driver is where.
DriverPlace ==
  /\ doing \in {"plans", "replan"} => profile.driver = "plan_execute"
  /\ doing \in {"critic", "batch critic"} => profile.driver = "self_critique"

\* The phases of a mode, and what the reasoning of an attempt holds: it thinks while a
\* branch lacks its score, and selects when none does.
PhasesOf(mode) ==
  CASE mode = "cot_tool" -> {"think", "act", "done"}
    [] mode = "tot" -> {"think", "evaluate", "act", "done"}
    [] mode = "reflexion" -> {"act", "reflect", "done"}
    [] OTHER -> {"act", "done"}
Reasoned(r, mode) ==
  /\ r \in Reasonings /\ r.phase \in PhasesOf(mode)
  /\ Len(r.scores) <= Width /\ r.selected <= Width
  /\ r.phase \in {"think", "evaluate"} => Len(r.scores) < Width /\ r.selected = 0
  /\ r.selected # 0 => IsBest(r.selected, r.scores)
  /\ r.plans = Len(r.scores) + (IF r.phase = "evaluate" THEN 1 ELSE 0)
  /\ r.rounds <= MaxReflexion /\ (r.phase = "reflect" => r.rounds < MaxReflexion)

\* The turns without a tool that are left to a reasoning of a mode.
TurnsLeft(r, mode) ==
  IF r.phase = "done" THEN 0
  ELSE CASE mode = "cot_tool" -> IF r.phase = "think" THEN 2 ELSE 1
         [] mode = "tot" -> IF r.phase = "act" THEN 1
                            ELSE 2 * (Width - Len(r.scores)) + (IF r.phase = "think" THEN 1 ELSE 0)
         [] mode = "reflexion" -> 2 * (MaxReflexion - r.rounds) + (IF r.phase = "act" THEN 1 ELSE 0)
         [] OTHER -> 1

\* The turns without a tool so far, against what is left: of the phases of native, of the
\* replans and quiet turns of a plan, of the redirects of a critic.
DriverQuiet ==
  /\ Native => idle + TurnsLeft(reasons, profile.mode) <= QuietLimit
  /\ profile.driver = "plan_execute" =>
       /\ loop.quiet <= 3 /\ idle + 2 * loop.replans <= 2 * ReplanBudget + loop.quiet
       /\ doing = "turn" => loop.quiet <= 2 /\ (loop.replans # 0 => loop.quiet <= 1)
       /\ doing \in {"plans", "tools"} => loop.quiet = 0
       /\ doing = "replan" => loop.quiet <= 2 /\ loop.replans # 0
  /\ profile.driver = "self_critique" =>
       /\ idle <= loop.redirects + 1
       /\ doing \in {"turn", "tools", "batch critic"} => idle <= loop.redirects

DriverInv ==
  /\ DriverShape /\ DriverPlace /\ DriverQuiet /\ Reasoned(reasons, profile.mode)
  /\ ~Native => reasons.phase = "act"
  /\ plan.scores # <<>> => IsBest(plan.of, plan.scores)
  /\ MajorityAnswers

\* The budgets are natural numbers.
LEMMA DriverBudgets ==
  /\ ReplanBudget \in Nat /\ CriticBudget \in Nat
  /\ Width \in Nat /\ Width # 0 /\ MaxReflexion \in Nat /\ MaxReflexion # 0
  /\ Attempts \in Nat /\ Attempts # 0 /\ MaxAsked \in Nat /\ MaxAsked # 0 /\ MaxBusy \in Nat
  /\ Scores \subseteq Nat /\ "nothing" \notin Words
  BY DriverAssumption DEF ReplanBudget, CriticBudget

\* A fresh reasoning has all its turns before it.
LEMMA FreshIsReasoned ==
  ASSUME NEW mode \in Modes
  PROVE  /\ Reasoned(Fresh(mode), mode)
         /\ TurnsLeft(Fresh(mode), mode) =
              CASE mode = "cot_tool" -> 2 [] mode = "tot" -> 2 * Width + 1
                [] mode = "reflexion" -> 2 * MaxReflexion + 1 [] OTHER -> 1
         /\ mode \notin {"cot_tool", "tot"} => Fresh(mode).phase = "act"
<1> DEFINE ph == IF mode \in {"cot_tool", "tot"} THEN "think" ELSE "act"
           r == Fresh(mode)
<1>1. r = [phase |-> ph, plans |-> 0, scores |-> <<>>, selected |-> 0, rounds |-> 0]
  BY DEF Fresh
<1>2. ph \in Phases /\ ph \in PhasesOf(mode) /\ ph # "evaluate" /\ ph # "reflect" /\ ph # "done"
  BY DEF Phases, PhasesOf
<1>3. <<>> \in Seq(Scores) /\ Len(<<>>) = 0
  OBVIOUS
<1> HIDE DEF r
<1>4. /\ r.phase = ph /\ r.plans = 0 /\ r.scores = <<>> /\ r.selected = 0 /\ r.rounds = 0
      /\ r \in Reasonings
  <2> HIDE DEF ph
  <2> QED
    BY <1>1, <1>2, <1>3 DEF Reasonings
<1>5. Reasoned(r, mode)
  <2> HIDE DEF ph
  <2> QED
    BY <1>2, <1>3, <1>4, DriverBudgets DEF Reasoned
<1>6. TurnsLeft(r, mode) =
        CASE mode = "cot_tool" -> 2 [] mode = "tot" -> 2 * Width + 1
          [] mode = "reflexion" -> 2 * MaxReflexion + 1 [] OTHER -> 1
  BY <1>3, <1>4, DriverBudgets DEF TurnsLeft
<1>7. mode \notin {"cot_tool", "tot"} => r.phase = "act"
  BY <1>4
<1> QED
  BY <1>5, <1>6, <1>7 DEF r

\* Two turns for each branch, and one of them is used up.
LEMMA HalfTurns ==
  ASSUME NEW w \in Nat, NEW n \in Nat, n < w
  PROVE  /\ 2 * (w - n) \in Nat /\ 2 * (w - n) < 2 * (w - n) + 1 /\ 2 * (w - n) + 1 \in Nat
         /\ 2 * (w - (n + 1)) + 1 < 2 * (w - n) /\ 2 * (w - (n + 1)) + 1 \in Nat
  OBVIOUS

\* A turn without a tool keeps the reasoning in order and uses one of its turns up.
LEMMA ScoredIsReasoned ==
  ASSUME NEW r, Reasoned(r, "tot"), r.phase \in {"think", "evaluate"}, NEW reply,
         reply.score \in Scores
  PROVE  /\ Reasoned(AfterTot(r, reply), "tot")
         /\ TurnsLeft(AfterTot(r, reply), "tot") < TurnsLeft(r, "tot")
         /\ TurnsLeft(r, "tot") \in Nat /\ TurnsLeft(AfterTot(r, reply), "tot") \in Nat
<1> DEFINE scores == Append(r.scores, reply.score)
           after == AfterTot(r, reply)
<1>1. /\ r \in Reasonings /\ r.phase \in PhasesOf("tot") /\ Len(r.scores) < Width
      /\ r.selected = 0 /\ r.plans = Len(r.scores) + (IF r.phase = "evaluate" THEN 1 ELSE 0)
      /\ r.rounds <= MaxReflexion
  BY DEF Reasoned
<1>2. /\ r.scores \in Seq(Scores) /\ r.plans \in Nat /\ r.rounds \in Nat /\ Len(r.scores) \in Nat
      /\ r = [phase |-> r.phase, plans |-> r.plans, scores |-> r.scores, selected |-> r.selected,
              rounds |-> r.rounds]
  BY <1>1 DEF Reasonings
<1>3. /\ scores \in Seq(Scores) /\ Len(scores) = Len(r.scores) + 1
      /\ \A i \in 1 .. Len(scores) : scores[i] \in Nat
  <2>1. scores \in Seq(Scores) /\ Len(scores) = Len(r.scores) + 1
    BY <1>2
  <2>2. \A i \in 1 .. Len(scores) : scores[i] \in Scores
    BY <2>1
  <2> QED
    BY <2>1, <2>2, DriverBudgets
<1> DEFINE best == BestPlan(scores)
<1>4. best \in 1 .. Len(scores) /\ IsBest(best, scores)
  <2>1. /\ best \in 1 .. Len(scores) /\ \A i \in 1 .. Len(scores) : scores[i] <= scores[best]
        /\ \A i \in 1 .. best - 1 : scores[i] < scores[best]
    <3> HIDE DEF scores
    <3>1. Len(scores) \in Nat /\ Len(scores) # 0
      BY <1>2, <1>3
    <3> QED
      BY <1>3, <3>1, LeadingIsFirst DEF BestPlan
  <2>2. DOMAIN scores = 1 .. Len(scores)
    BY <1>3
  <2> HIDE DEF scores, best
  <2> QED
    BY <2>1, <2>2 DEF IsBest
<1> HIDE DEF scores, best
<1>5. CASE r.phase = "think"
  <2>1. after = [phase |-> "evaluate", plans |-> r.plans + 1, scores |-> r.scores,
                 selected |-> r.selected, rounds |-> r.rounds]
    BY <1>2, <1>5 DEF AfterTot
  <2> HIDE DEF after
  <2>2. /\ after.phase = "evaluate" /\ after.plans = r.plans + 1 /\ after.scores = r.scores
        /\ after.selected = 0 /\ after.rounds = r.rounds
    BY <1>1, <2>1
  <2>3. after \in Reasonings
    BY <1>1, <1>2, <2>1 DEF Reasonings, Phases
  <2>4. Reasoned(after, "tot")
    BY <1>1, <1>2, <1>5, <2>2, <2>3, DriverBudgets DEF Reasoned, PhasesOf
  <2>5. TurnsLeft(after, "tot") = 2 * (Width - Len(r.scores))
    BY <2>2, <1>2, DriverBudgets DEF TurnsLeft
  <2>6. TurnsLeft(r, "tot") = 2 * (Width - Len(r.scores)) + 1
    BY <1>5 DEF TurnsLeft
  <2>7. /\ 2 * (Width - Len(r.scores)) < 2 * (Width - Len(r.scores)) + 1
        /\ 2 * (Width - Len(r.scores)) \in Nat /\ 2 * (Width - Len(r.scores)) + 1 \in Nat
    BY <1>1, <1>2, DriverBudgets, HalfTurns
  <2> QED
    BY <2>4, <2>5, <2>6, <2>7 DEF after
<1>6. CASE r.phase = "evaluate"
  <2>1. TurnsLeft(r, "tot") = 2 * (Width - Len(r.scores))
    BY <1>2, <1>6, DriverBudgets DEF TurnsLeft
  <2>2. CASE Len(scores) < Width
    <3>1. after = [phase |-> "think", plans |-> r.plans, scores |-> scores,
                   selected |-> r.selected, rounds |-> r.rounds]
      BY <1>2, <1>6, <2>2 DEF AfterTot, scores
    <3> HIDE DEF after
    <3>2. /\ after.phase = "think" /\ after.plans = r.plans /\ after.scores = scores
          /\ after.selected = 0 /\ after.rounds = r.rounds
      BY <1>1, <3>1
    <3>3. after \in Reasonings
      BY <1>1, <1>2, <1>3, <3>1 DEF Reasonings, Phases
    <3>4. Reasoned(after, "tot")
      BY <1>1, <1>2, <1>3, <1>6, <2>2, <3>2, <3>3, DriverBudgets DEF Reasoned, PhasesOf
    <3>5. TurnsLeft(after, "tot") = 2 * (Width - Len(scores)) + 1
      BY <3>2 DEF TurnsLeft
    <3>6. /\ 2 * (Width - Len(scores)) + 1 < 2 * (Width - Len(r.scores))
          /\ 2 * (Width - Len(r.scores)) \in Nat /\ 2 * (Width - Len(scores)) + 1 \in Nat
      <4> DEFINE m == Len(r.scores)
      <4>1. m \in Nat /\ m < Width /\ Len(scores) = m + 1
        BY <1>1, <1>2, <1>3
      <4> HIDE DEF m
      <4>2. /\ 2 * (Width - (m + 1)) + 1 < 2 * (Width - m)
            /\ 2 * (Width - m) \in Nat /\ 2 * (Width - (m + 1)) + 1 \in Nat
        BY <4>1, DriverBudgets, HalfTurns
      <4> QED
        BY <4>1, <4>2 DEF m
    <3> QED
      BY <2>1, <3>4, <3>5, <3>6 DEF after
  <2>3. CASE ~ (Len(scores) < Width)
    <3>1. after = [phase |-> "act", plans |-> r.plans, scores |-> scores,
                   selected |-> best, rounds |-> r.rounds]
      BY <1>2, <1>6, <2>3 DEF AfterTot, scores, best
    <3> HIDE DEF after
    <3>2. /\ after.phase = "act" /\ after.plans = r.plans /\ after.scores = scores
          /\ after.selected = best /\ after.rounds = r.rounds
      BY <3>1
    <3>3. Len(scores) = Width /\ best \in Nat /\ best <= Width
      BY <1>1, <1>2, <1>3, <1>4, <2>3, DriverBudgets
    <3>4. after \in Reasonings
      BY <1>1, <1>2, <1>3, <3>1, <3>3 DEF Reasonings, Phases
    <3>5. Reasoned(after, "tot")
      BY <1>1, <1>2, <1>3, <1>4, <1>6, <3>2, <3>3, <3>4, DriverBudgets DEF Reasoned, PhasesOf
    <3>6. TurnsLeft(after, "tot") = 1
      BY <3>2 DEF TurnsLeft
    <3> QED
      BY <1>1, <1>2, <1>3, <2>1, <3>5, <3>6, DriverBudgets DEF after
  <2> QED
    BY <2>2, <2>3
<1> QED
  BY <1>5, <1>6

LEMMA ReflectedIsReasoned ==
  ASSUME NEW r, Reasoned(r, "reflexion"), r.phase # "done", NEW reply, reply.retry \in BOOLEAN
  PROVE  /\ Reasoned(AfterReflexion(r, reply), "reflexion")
         /\ TurnsLeft(AfterReflexion(r, reply), "reflexion") < TurnsLeft(r, "reflexion")
         /\ TurnsLeft(r, "reflexion") \in Nat
         /\ TurnsLeft(AfterReflexion(r, reply), "reflexion") \in Nat
<1> DEFINE after == AfterReflexion(r, reply)
           again == r.phase = "reflect" /\ reply.retry /\ r.rounds < MaxReflexion
           ph == IF again THEN "act"
                 ELSE IF r.phase = "act" /\ r.rounds < MaxReflexion THEN "reflect" ELSE "done"
           n == IF again THEN r.rounds + 1 ELSE r.rounds
<1>1. /\ r \in Reasonings /\ r.phase \in {"act", "reflect"}
      /\ Len(r.scores) <= Width /\ r.selected <= Width
      /\ r.selected # 0 => IsBest(r.selected, r.scores)
      /\ r.plans = Len(r.scores) /\ r.rounds <= MaxReflexion
      /\ r.phase = "reflect" => r.rounds < MaxReflexion
  <2>1. r.phase \in {"act", "reflect"}
    BY DEF Reasoned, PhasesOf
  <2> QED
    BY <2>1 DEF Reasoned, Reasonings
<1>2. /\ r.scores \in Seq(Scores) /\ r.plans \in Nat /\ r.rounds \in Nat /\ r.selected \in Nat
      /\ r = [phase |-> r.phase, plans |-> r.plans, scores |-> r.scores, selected |-> r.selected,
              rounds |-> r.rounds]
  BY <1>1 DEF Reasonings
<1>3. after = [phase |-> ph, plans |-> r.plans, scores |-> r.scores, selected |-> r.selected,
               rounds |-> n]
  <2>1. CASE again
    BY <1>2, <2>1 DEF AfterReflexion
  <2>2. CASE ~again /\ r.phase = "reflect"
    BY <1>2, <2>2 DEF AfterReflexion
  <2>3. CASE r.phase = "act"
    BY <1>2, <2>3 DEF AfterReflexion
  <2> QED
    BY <1>1, <2>1, <2>2, <2>3
<1>4. /\ n \in Nat /\ n <= MaxReflexion /\ (ph = "reflect" => n < MaxReflexion)
      /\ ph \in {"act", "reflect", "done"}
  BY <1>1, <1>2, DriverBudgets
<1>5. 2 * (MaxReflexion - n) + (IF ph = "act" THEN 1 ELSE 0) <
        2 * (MaxReflexion - r.rounds) + (IF r.phase = "act" THEN 1 ELSE 0) \/ ph = "done"
  BY <1>1, <1>2, DriverBudgets
<1> HIDE DEF after, again, ph, n
<1>6. /\ after.phase = ph /\ after.plans = r.plans /\ after.scores = r.scores
      /\ after.selected = r.selected /\ after.rounds = n /\ after \in Reasonings
  BY <1>1, <1>2, <1>3, <1>4 DEF Reasonings, Phases
<1>7. Reasoned(after, "reflexion")
  <2>1. ph # "think" /\ ph # "evaluate"
    BY <1>4
  <2>2. after.phase \in PhasesOf("reflexion")
    BY <1>4, <1>6 DEF PhasesOf
  <2> QED
    BY <1>1, <1>4, <1>6, <2>1, <2>2 DEF Reasoned
<1>8. TurnsLeft(r, "reflexion") = 2 * (MaxReflexion - r.rounds) + (IF r.phase = "act" THEN 1 ELSE 0)
  BY <1>1 DEF TurnsLeft
<1>9. TurnsLeft(after, "reflexion") =
        IF ph = "done" THEN 0 ELSE 2 * (MaxReflexion - n) + (IF ph = "act" THEN 1 ELSE 0)
  BY <1>6 DEF TurnsLeft
<1>10. TurnsLeft(r, "reflexion") \in Nat /\ TurnsLeft(r, "reflexion") # 0
  BY <1>1, <1>2, <1>8, DriverBudgets
<1>11. TurnsLeft(after, "reflexion") \in Nat
  BY <1>4, <1>9, DriverBudgets
<1> QED
  BY <1>5, <1>7, <1>8, <1>9, <1>10, <1>11 DEF after

LEMMA AnsweredIsReasoned ==
  ASSUME Reasoned(reasons, profile.mode), reasons.phase # "done", NEW reply,
         reply.score \in Scores, reply.retry \in BOOLEAN
  PROVE  /\ Reasoned(AfterLlm(reasons, reply), profile.mode)
         /\ TurnsLeft(AfterLlm(reasons, reply), profile.mode) < TurnsLeft(reasons, profile.mode)
         /\ TurnsLeft(reasons, profile.mode) \in Nat
         /\ TurnsLeft(AfterLlm(reasons, reply), profile.mode) \in Nat
<1>1. CASE profile.mode = "tot" /\ reasons.phase \in {"think", "evaluate"}
  <2>1. AfterLlm(reasons, reply) = AfterTot(reasons, reply)
    BY <1>1 DEF AfterLlm
  <2> QED
    BY <1>1, <2>1, ScoredIsReasoned
<1>2. CASE profile.mode = "reflexion"
  <2>1. AfterLlm(reasons, reply) = AfterReflexion(reasons, reply)
    BY <1>2 DEF AfterLlm
  <2> QED
    BY <1>2, <2>1, ReflectedIsReasoned
<1>3. CASE /\ profile.mode # "reflexion"
           /\ ~ (profile.mode = "tot" /\ reasons.phase \in {"think", "evaluate"})
  <2> DEFINE thought == profile.mode = "cot_tool" /\ reasons.phase = "think"
             ph == IF thought THEN "act" ELSE "done"
             after == AfterLlm(reasons, reply)
  <2>1. /\ reasons \in Reasonings /\ Len(reasons.scores) <= Width
        /\ reasons.selected <= Width
        /\ reasons.selected # 0 => IsBest(reasons.selected, reasons.scores)
        /\ reasons.plans = Len(reasons.scores) + (IF reasons.phase = "evaluate" THEN 1 ELSE 0)
        /\ reasons.rounds <= MaxReflexion
    BY DEF Reasoned
  <2>2. /\ reasons.phase # "evaluate"
        /\ IF thought THEN reasons.phase = "think" ELSE reasons.phase = "act"
    BY <1>3 DEF Reasoned, PhasesOf
  <2>3. /\ reasons.scores \in Seq(Scores) /\ reasons.plans \in Nat /\ reasons.rounds \in Nat
        /\ reasons.selected \in Nat
        /\ reasons = [phase |-> reasons.phase, plans |-> reasons.plans, scores |-> reasons.scores,
                      selected |-> reasons.selected, rounds |-> reasons.rounds]
    BY <2>1 DEF Reasonings
  <2>4. after = [phase |-> ph, plans |-> reasons.plans, scores |-> reasons.scores,
                 selected |-> reasons.selected, rounds |-> reasons.rounds]
    BY <1>3, <2>3 DEF AfterLlm
  <2>5. ph \in {"act", "done"} /\ ph \in Phases
    BY DEF Phases
  <2>6. TurnsLeft(reasons, profile.mode) = IF thought THEN 2 ELSE 1
    BY <1>3, <2>2 DEF TurnsLeft
  <2>7. after.phase = ph
    BY <2>4
  <2>8. TurnsLeft(after, profile.mode) = IF thought THEN 1 ELSE 0
    BY <1>3, <2>7 DEF TurnsLeft
  <2> HIDE DEF after, ph, thought
  <2>9. /\ after.plans = reasons.plans /\ after.scores = reasons.scores
        /\ after.selected = reasons.selected /\ after.rounds = reasons.rounds /\ after \in Reasonings
    BY <2>3, <2>4, <2>5 DEF Reasonings
  <2>10. after.phase \in PhasesOf(profile.mode)
    BY <1>3, <2>5, <2>7 DEF PhasesOf
  <2>11. ph # "think" /\ ph # "evaluate" /\ ph # "reflect"
    BY <2>5
  <2>12. Reasoned(after, profile.mode)
    BY <2>1, <2>2, <2>7, <2>9, <2>10, <2>11 DEF Reasoned
  <2> QED
    BY <2>6, <2>8, <2>12 DEF after
<1> QED
  BY <1>1, <1>2, <1>3

\* What is left is a number of turns.
LEMMA TurnsAreNumbers ==
  ASSUME NEW r, NEW mode, Reasoned(r, mode)
  PROVE  TurnsLeft(r, mode) \in Nat
<1>1. /\ Len(r.scores) \in Nat /\ Len(r.scores) <= Width
      /\ r.rounds \in Nat /\ r.rounds <= MaxReflexion
  BY DEF Reasoned, Reasonings
<1>2. 2 * (Width - Len(r.scores)) \in Nat /\ 2 * (MaxReflexion - r.rounds) \in Nat
  BY <1>1, DriverBudgets
<1> QED
  BY <1>2 DEF TurnsLeft

\* A driver starts with all its turns before it.
LEMMA DriverInitInv == DriverInit => DriverInv
<1> SUFFICES ASSUME DriverInit PROVE DriverInv
  OBVIOUS
<1>1. /\ profile \in Profiles /\ profile.driver \in Drivers /\ profile.mode \in Modes
      /\ loop = [turns |-> 0, quiet |-> 0, replans |-> ReplanBudget, redirects |-> 0]
      /\ reasons = Fresh(IF Native THEN profile.mode ELSE "react")
      /\ batch = 0 /\ answer = Unsaid /\ samples = <<>> /\ attempts = 1
      /\ plan = [of |-> 0, scores |-> <<>>] /\ idle = 0 /\ busy = 0
      /\ doing = IF profile.driver = "plan_execute" THEN "plans" ELSE "turn"
  BY DEF DriverInit, Profiles
<1>2. doing \in Doings /\ doing \notin {"tools", "replan", "critic", "batch critic", "voted"}
      /\ (doing = "plans" => profile.driver = "plan_execute")
      /\ (doing = "turn" => profile.driver # "plan_execute")
  BY <1>1 DEF Doings
<1>3. /\ loop.turns = 0 /\ loop.quiet = 0 /\ loop.replans = ReplanBudget /\ loop.redirects = 0
      /\ loop \in Loops
  BY <1>1, DriverBudgets DEF Loops
<1>4. /\ plan.of = 0 /\ plan.scores = <<>> /\ plan \in [of : 0 .. Width, scores : Seq(Scores)]
  BY <1>1, DriverBudgets
<1>5. DriverShape
  BY <1>1, <1>2, <1>3, <1>4, DriverBudgets DEF DriverShape, Answers
<1>6. DriverPlace
  BY <1>2 DEF DriverPlace
<1>7. \A mode \in Modes : Reasoned(Fresh("react"), mode) /\ Fresh("react").phase = "act"
  <2>1. "react" \in Modes
    BY DEF Modes
  <2>2. Reasoned(Fresh("react"), "react") /\ Fresh("react").phase = "act"
    BY <2>1, FreshIsReasoned
  <2>3. \A mode \in Modes : "act" \in PhasesOf(mode)
    BY DEF PhasesOf
  <2> QED
    BY <2>2, <2>3 DEF Reasoned
<1>8. Reasoned(reasons, profile.mode) /\ (~Native => reasons.phase = "act")
  <2>1. CASE Native
    BY <1>1, <2>1, FreshIsReasoned
  <2>2. CASE ~Native
    BY <1>1, <1>7, <2>2
  <2> QED
    BY <2>1, <2>2
<1>9. Native => idle + TurnsLeft(reasons, profile.mode) <= QuietLimit
  <2> SUFFICES ASSUME Native PROVE idle + TurnsLeft(reasons, profile.mode) <= QuietLimit
    OBVIOUS
  <2>1. TurnsLeft(reasons, profile.mode) =
          CASE profile.mode = "cot_tool" -> 2 [] profile.mode = "tot" -> 2 * Width + 1
            [] profile.mode = "reflexion" -> 2 * MaxReflexion + 1 [] OTHER -> 1
    BY <1>1, FreshIsReasoned
  <2>2. QuietLimit = TurnsLeft(reasons, profile.mode)
    BY <2>1 DEF QuietLimit, Native
  <2>3. QuietLimit \in Nat
    BY <2>1, <2>2, DriverBudgets
  <2> QED
    BY <1>1, <2>2, <2>3
<1>10. DriverQuiet
  BY <1>1, <1>2, <1>3, <1>9, DriverBudgets DEF DriverQuiet
<1>11. MajorityAnswers
  BY <1>2 DEF MajorityAnswers
<1> QED
  BY <1>4, <1>5, <1>6, <1>8, <1>10, <1>11 DEF DriverInv

\* What the invariant promises.
LEMMA DriverInvTells == DriverInv => DriverTypeOK /\ LoopsEndWell
<1> SUFFICES ASSUME DriverInv PROVE DriverTypeOK /\ LoopsEndWell
  OBVIOUS
<1>1. DriverShape /\ DriverQuiet /\ Reasoned(reasons, profile.mode)
  BY DEF DriverInv
<1>2. /\ loop.redirects \in Nat /\ loop.replans \in Nat /\ loop.quiet \in Nat
      /\ loop.redirects <= CriticBudget /\ loop.replans <= ReplanBudget /\ idle \in Nat
      /\ reasons.selected \in Nat /\ reasons.selected <= Width
      /\ plan.of \in 0 .. Width
  BY <1>1 DEF DriverShape, Loops, Reasoned, Reasonings
<1>3. answer.from \in {"nothing", "thought", "observation"} /\ answer.word \in Words \cup {"nothing"}
  BY <1>1 DEF DriverShape, Answers, Unsaid
<1>4. DriverTypeOK
  <2>1. loop.redirects \in 0 .. CriticBudget /\ loop.replans \in 0 .. ReplanBudget
        /\ reasons.selected \in 0 .. Width
    BY <1>2, DriverBudgets
  <2> QED
    BY <1>1, <1>2, <1>3, <2>1 DEF DriverTypeOK, DriverShape, Profiles, Doings
<1>5. QuietModelsEnd
  <2>1. profile.driver \in Drivers /\ profile.mode \in Modes
    BY <1>1 DEF DriverShape, Profiles
  <2>2. CASE profile.driver = "native"
    <3>1. idle + TurnsLeft(reasons, profile.mode) <= QuietLimit
      BY <1>1, <2>2 DEF DriverQuiet, Native
    <3>2. QuietLimit \in Nat
      BY <2>2, DriverBudgets DEF QuietLimit
    <3>3. TurnsLeft(reasons, profile.mode) \in Nat
      BY <1>1, TurnsAreNumbers
    <3> QED
      BY <1>2, <3>1, <3>2, <3>3 DEF QuietModelsEnd
  <2>3. CASE profile.driver = "plan_execute"
    <3>1. loop.quiet <= 3 /\ idle + 2 * loop.replans <= 2 * ReplanBudget + loop.quiet
      BY <1>1, <2>3 DEF DriverQuiet
    <3>2. QuietLimit = 2 * ReplanBudget + 3
      BY <2>3 DEF QuietLimit, Native
    <3> QED
      BY <1>2, <3>1, <3>2, DriverBudgets DEF QuietModelsEnd
  <2>4. CASE profile.driver = "self_critique"
    <3>1. idle <= loop.redirects + 1
      BY <1>1, <2>4 DEF DriverQuiet
    <3>2. QuietLimit = CriticBudget + 1
      BY <2>4 DEF QuietLimit, Native
    <3> QED
      BY <1>2, <3>1, <3>2, DriverBudgets DEF QuietModelsEnd
  <2> QED
    BY <2>1, <2>2, <2>3, <2>4 DEF Drivers
<1>6. BestIsMounted
  BY <1>1 DEF BestIsMounted, DriverInv, Reasoned
<1> QED
  BY <1>4, <1>5, <1>6 DEF LoopsEndWell, DriverInv

\* The invariant says nothing more of a run that has come to an end.
LEMMA DriverStops ==
  ASSUME DriverInv, doing' \in {"completed", "failed", "aborted", "leaving"},
         UNCHANGED <<profile, loop, reasons, batch, answer, samples, attempts, plan, idle, busy>>
  PROVE  DriverInv'
<1>1. DriverShape'
  <2>1. doing' \in Doings /\ doing' # "tools"
    BY DEF Doings
  <2> QED
    BY <2>1 DEF DriverInv, DriverShape, CriticBudget, ReplanBudget
<1>2. DriverPlace' /\ MajorityAnswers'
  BY DEF DriverPlace, MajorityAnswers
<1>3. DriverQuiet'
  <2>1. doing' \notin {"turn", "plans", "tools", "replan", "batch critic"}
    OBVIOUS
  <2>2. QuietLimit' = QuietLimit /\ ReplanBudget' = ReplanBudget
    BY DEF QuietLimit, Native, ReplanBudget, CriticBudget
  <2> QED
    BY <2>1, <2>2 DEF DriverInv, DriverQuiet, Native
<1> QED
  BY <1>1, <1>2, <1>3 DEF DriverInv, Native

\* A step that leaves the profile alone leaves the budgets alone.
LEMMA BudgetsStay ==
  ASSUME profile' = profile
  PROVE  /\ ReplanBudget' = ReplanBudget /\ CriticBudget' = CriticBudget
         /\ QuietLimit' = QuietLimit /\ Native' = Native
  BY DEF QuietLimit, Native, ReplanBudget, CriticBudget

\* What the invariant says of the counters.
LEMMA DriverNumbers ==
  ASSUME DriverInv
  PROVE  /\ loop.turns \in Nat /\ loop.quiet \in Nat /\ loop.replans \in Nat /\ loop.redirects \in Nat
         /\ loop = [turns |-> loop.turns, quiet |-> loop.quiet, replans |-> loop.replans,
                    redirects |-> loop.redirects]
         /\ loop.redirects <= CriticBudget /\ loop.replans <= ReplanBudget
         /\ batch \in Nat /\ busy \in Nat /\ attempts \in Nat /\ idle \in Nat
         /\ TurnsLeft(reasons, profile.mode) \in Nat /\ QuietLimit \in Nat
<1>1. DriverShape /\ Reasoned(reasons, profile.mode)
  BY DEF DriverInv
<1>2. QuietLimit \in Nat
  BY DriverBudgets DEF QuietLimit
<1> QED
  BY <1>1, <1>2, TurnsAreNumbers, DriverBudgets DEF DriverShape, Loops

LEMMA PlannedKeeps ==
  ASSUME DriverInv, NEW n \in 0 .. Width, NEW scores \in [1 .. n -> Scores], Planned(scores)
  PROVE  DriverInv'
<1>1. /\ doing = "plans" /\ doing' = "turn"
      /\ plan' = IF scores = <<>> THEN plan ELSE [of |-> BestPlan(scores), scores |-> scores]
      /\ UNCHANGED <<profile, loop, reasons, batch, answer, samples, attempts, idle, busy>>
  BY DEF Planned
<1>2. profile.driver = "plan_execute" /\ loop.quiet = 0
  BY <1>1 DEF DriverInv, DriverPlace, DriverQuiet
<1>3. /\ plan' \in [of : 0 .. Width, scores : Seq(Scores)]
      /\ plan'.scores # <<>> => IsBest(plan'.of, plan'.scores)
  <2>1. CASE scores = <<>>
    BY <1>1, <2>1 DEF DriverInv, DriverShape
  <2>2. CASE scores # <<>>
    <3>1. n \in Nat /\ n <= Width /\ Width \in Nat
      BY DriverBudgets
    <3>2. scores \in Seq(Scores) /\ Len(scores) = n /\ DOMAIN scores = 1 .. n
      BY <3>1
    <3>3. \A i \in 1 .. Len(scores) : scores[i] \in Nat
      BY <3>2, DriverBudgets
    <3>4. Len(scores) \in Nat /\ Len(scores) # 0
      BY <2>2, <3>1, <3>2
    <3>5. /\ BestPlan(scores) \in 1 .. Len(scores) /\ IsBest(BestPlan(scores), scores)
      BY <3>2, <3>3, <3>4, LeadingIsFirst DEF BestPlan, IsBest
    <3>6. plan' = [of |-> BestPlan(scores), scores |-> scores]
      BY <1>1, <2>2
    <3>7. BestPlan(scores) \in 0 .. Width
      BY <3>1, <3>2, <3>5
    <3> QED
      BY <3>2, <3>5, <3>6, <3>7
  <2> QED
    BY <2>1, <2>2
<1>4. DriverShape'
  <2>1. doing' \in Doings
    BY <1>1 DEF Doings
  <2> QED
    BY <1>1, <1>3, <2>1, BudgetsStay DEF DriverInv, DriverShape
<1>5. DriverPlace' /\ MajorityAnswers'
  BY <1>1 DEF DriverPlace, MajorityAnswers
<1>6. DriverQuiet'
  <2>1. loop.quiet <= 2 /\ loop.quiet <= 1
    BY <1>2
  <2> QED
    BY <1>1, <1>2, <2>1, BudgetsStay DEF DriverInv, DriverQuiet, Native
<1> QED
  BY <1>1, <1>3, <1>4, <1>5, <1>6, BudgetsStay DEF DriverInv

LEMMA SpokenIsAnswer ==
  ASSUME DriverInv, NEW word \in Words \cup {"nothing"}
  PROVE  Spoken(word) \in Answers
<1>1. answer \in Answers
  BY DEF DriverInv, DriverShape
<1> QED
  BY <1>1 DEF Spoken, Answers

LEMMA TurnWithToolsKeeps ==
  ASSUME DriverInv, NEW some \in 1 .. MaxAsked, NEW word \in Words \cup {"nothing"},
         TurnWithTools(some, word)
  PROVE  DriverInv'
<1>1. /\ busy < MaxBusy /\ doing' = "tools"
      /\ loop' = [loop EXCEPT !.turns = @ + 1, !.quiet = 0]
      /\ batch' = some /\ answer' = Spoken(word) /\ idle' = 0 /\ busy' = busy + 1
      /\ UNCHANGED <<profile, reasons, samples, attempts, plan>>
  BY DEF TurnWithTools
<1>2. loop' = [turns |-> loop.turns + 1, quiet |-> 0, replans |-> loop.replans,
               redirects |-> loop.redirects]
  BY <1>1, DriverNumbers
<1>3. /\ loop'.quiet = 0 /\ loop'.replans = loop.replans /\ loop'.redirects = loop.redirects
      /\ loop' \in Loops
  BY <1>2, DriverNumbers DEF Loops
<1>4. some \in 0 .. MaxAsked /\ some # 0 /\ busy + 1 \in 0 .. MaxBusy
  BY <1>1, DriverNumbers, DriverBudgets
<1>5. DriverShape'
  <2>1. doing' \in Doings
    BY <1>1 DEF Doings
  <2>2. idle' \in Nat /\ answer' \in Answers /\ batch' \in 0 .. MaxAsked /\ batch' # 0
        /\ busy' \in 0 .. MaxBusy
    BY <1>1, <1>4, SpokenIsAnswer
  <2>3. loop'.redirects <= CriticBudget' /\ loop'.replans <= ReplanBudget'
    BY <1>1, <1>3, BudgetsStay, DriverNumbers
  <2> QED
    BY <1>1, <1>3, <2>1, <2>2, <2>3 DEF DriverInv, DriverShape
<1>6. DriverPlace' /\ MajorityAnswers'
  BY <1>1 DEF DriverPlace, MajorityAnswers
<1>7. DriverQuiet'
  <2>1. Native => idle' + TurnsLeft(reasons, profile.mode) <= QuietLimit
    <3>1. Native => idle + TurnsLeft(reasons, profile.mode) <= QuietLimit
      BY DEF DriverInv, DriverQuiet
    <3> QED
      BY <1>1, <3>1, DriverNumbers
  <2>2. idle' + 2 * loop'.replans <= 2 * ReplanBudget + loop'.quiet
    BY <1>1, <1>3, DriverNumbers, DriverBudgets
  <2>3. idle' <= loop'.redirects /\ idle' <= loop'.redirects + 1 /\ loop'.quiet <= 3
    BY <1>1, <1>3, DriverNumbers
  <2> QED
    BY <1>1, <1>3, <2>1, <2>2, <2>3, BudgetsStay DEF DriverQuiet
<1> QED
  BY <1>1, <1>5, <1>6, <1>7, BudgetsStay DEF DriverInv

\* What a turn without a tool leaves alone.
LEMMA QuietTurnShape ==
  ASSUME DriverInv, doing' \in Doings \ {"tools"}, NEW word \in Words \cup {"nothing"},
         answer' = Spoken(word), idle' = idle + 1, loop' \in Loops,
         loop'.replans = loop.replans, loop'.redirects = loop.redirects,
         UNCHANGED <<profile, batch, samples, attempts, plan, busy>>
  PROVE  DriverShape'
<1>1. idle' \in Nat /\ answer' \in Answers
  BY DriverNumbers, SpokenIsAnswer
<1>2. loop'.redirects <= CriticBudget' /\ loop'.replans <= ReplanBudget'
  BY BudgetsStay, DriverNumbers
<1>3. doing' # "tools" /\ doing' \in Doings
  OBVIOUS
<1> QED
  BY <1>1, <1>2, <1>3 DEF DriverInv, DriverShape

LEMMA QuietNativeKeeps ==
  ASSUME DriverInv, NEW word \in Words \cup {"nothing"},
         NEW reply \in [score : Scores, retry : BOOLEAN],
         QuietTurn(word, reply), QuietNative(reply)
  PROVE  DriverInv'
<1>1. /\ doing = "turn" /\ reasons.phase # "done" /\ Native /\ doing' = "turn"
      /\ reasons' = AfterLlm(reasons, reply) /\ loop' = [loop EXCEPT !.turns = @ + 1]
      /\ answer' = Spoken(word) /\ idle' = idle + 1
      /\ UNCHANGED <<profile, batch, samples, attempts, plan, busy>>
  BY DEF QuietTurn, QuietNative, MayTurn, LoopEnds
<1>2. loop' = [turns |-> loop.turns + 1, quiet |-> loop.quiet, replans |-> loop.replans,
               redirects |-> loop.redirects]
  BY <1>1, DriverNumbers
<1>3. /\ loop'.replans = loop.replans /\ loop'.redirects = loop.redirects /\ loop' \in Loops
  BY <1>2, DriverNumbers DEF Loops
<1>4. DriverShape'
  <2>1. doing' \in Doings \ {"tools"}
    BY <1>1 DEF Doings
  <2> QED
    BY <1>1, <1>3, <2>1, QuietTurnShape
<1>5. DriverPlace' /\ MajorityAnswers'
  BY <1>1 DEF DriverPlace, MajorityAnswers
<1> DEFINE after == AfterLlm(reasons, reply)
<1>6. /\ Reasoned(after, profile.mode)
      /\ TurnsLeft(after, profile.mode) < TurnsLeft(reasons, profile.mode)
      /\ TurnsLeft(after, profile.mode) \in Nat
  <2>1. reply.score \in Scores /\ reply.retry \in BOOLEAN
    OBVIOUS
  <2> QED
    BY <1>1, <2>1, AnsweredIsReasoned DEF DriverInv
<1> HIDE DEF after
<1>7. reasons' = after
  BY <1>1 DEF after
<1>8. idle + 1 + TurnsLeft(after, profile.mode) <= QuietLimit
  <2>1. idle + TurnsLeft(reasons, profile.mode) <= QuietLimit
    BY <1>1 DEF DriverInv, DriverQuiet
  <2> QED
    BY <1>6, <2>1, DriverNumbers
<1>9. DriverQuiet'
  <2>1. profile.driver # "plan_execute" /\ profile.driver # "self_critique"
    BY <1>1 DEF Native
  <2>2. idle' + TurnsLeft(reasons', profile'.mode) <= QuietLimit'
    BY <1>1, <1>7, <1>8, BudgetsStay
  <2> QED
    BY <1>1, <2>1, <2>2 DEF DriverQuiet
<1>10. Reasoned(reasons', profile'.mode)
  BY <1>1, <1>6, <1>7
<1>11. Native'
  BY <1>1, BudgetsStay
<1> QED
  BY <1>1, <1>4, <1>5, <1>9, <1>10, <1>11 DEF DriverInv

LEMMA QuietPlannedKeeps ==
  ASSUME DriverInv, NEW word \in Words \cup {"nothing"}, NEW reply,
         QuietTurn(word, reply), QuietPlanned
  PROVE  DriverInv'
<1>1. /\ doing = "turn" /\ profile.driver = "plan_execute"
      /\ loop' = [loop EXCEPT !.turns = @ + 1, !.quiet = @ + 1]
      /\ doing' = IF loop'.quiet >= 2 /\ loop.replans > 0 THEN "replan"
                  ELSE IF loop'.quiet >= 3 THEN "leaving" ELSE "turn"
      /\ answer' = Spoken(word) /\ idle' = idle + 1
      /\ UNCHANGED <<profile, reasons, batch, samples, attempts, plan, busy>>
  BY DEF QuietTurn, QuietPlanned, MayTurn, LoopEnds
<1>2. loop' = [turns |-> loop.turns + 1, quiet |-> loop.quiet + 1, replans |-> loop.replans,
               redirects |-> loop.redirects]
  BY <1>1, DriverNumbers
<1>3. /\ loop'.quiet = loop.quiet + 1 /\ loop'.replans = loop.replans
      /\ loop'.redirects = loop.redirects /\ loop' \in Loops
  BY <1>2, DriverNumbers DEF Loops
<1>4. DriverShape'
  <2>1. doing' \in Doings \ {"tools"}
    BY <1>1 DEF Doings
  <2> QED
    BY <1>1, <1>3, <2>1, QuietTurnShape
<1>5. DriverPlace' /\ MajorityAnswers'
  BY <1>1 DEF DriverPlace, MajorityAnswers
<1>6. DriverQuiet'
  <2>1. /\ loop.quiet <= 2 /\ (loop.replans # 0 => loop.quiet <= 1)
        /\ idle + 2 * loop.replans <= 2 * ReplanBudget + loop.quiet
    BY <1>1 DEF DriverInv, DriverQuiet
  <2>2. loop'.quiet <= 3 /\ idle' + 2 * loop'.replans <= 2 * ReplanBudget + loop'.quiet
    BY <1>1, <1>3, <2>1, DriverNumbers, DriverBudgets
  <2>3. doing' = "turn" => loop'.quiet <= 2 /\ (loop'.replans # 0 => loop'.quiet <= 1)
    <3>1. CASE loop.quiet + 1 >= 3
      <4>1. doing' # "turn"
        BY <1>1, <1>3, <3>1
      <4> QED
        BY <4>1
    <3>2. CASE loop.replans > 0 /\ loop.quiet + 1 >= 2
      <4>1. doing' # "turn"
        BY <1>1, <1>3, <3>2
      <4> QED
        BY <4>1
    <3>3. CASE ~ (loop.quiet + 1 >= 3) /\ ~ (loop.replans > 0 /\ loop.quiet + 1 >= 2)
      BY <1>3, <3>3, DriverNumbers
    <3> QED
      BY <3>1, <3>2, <3>3
  <2>4. doing' = "replan" => loop'.quiet <= 2 /\ loop'.replans # 0
    <3>1. CASE loop.replans = 0
      <4>1. doing' # "replan"
        BY <1>1, <3>1
      <4> QED
        BY <4>1
    <3>2. CASE loop.replans # 0
      BY <1>3, <2>1, <3>2, DriverNumbers
    <3> QED
      BY <3>1, <3>2
  <2>5. doing' # "plans" /\ doing' # "tools"
    BY <1>1
  <2>6. ~Native' /\ profile'.driver = "plan_execute"
    BY <1>1, BudgetsStay DEF Native
  <2> QED
    BY <2>2, <2>3, <2>4, <2>5, <2>6, <1>1, BudgetsStay DEF DriverQuiet
<1> QED
  BY <1>1, <1>4, <1>5, <1>6, BudgetsStay DEF DriverInv

LEMMA QuietCriticKeeps ==
  ASSUME DriverInv, NEW word \in Words \cup {"nothing"}, NEW reply,
         QuietTurn(word, reply), QuietCritic
  PROVE  DriverInv'
<1>1. /\ doing = "turn" /\ profile.driver = "self_critique" /\ doing' = "critic"
      /\ loop' = [loop EXCEPT !.turns = @ + 1] /\ answer' = Spoken(word) /\ idle' = idle + 1
      /\ UNCHANGED <<profile, reasons, batch, samples, attempts, plan, busy>>
  BY DEF QuietTurn, QuietCritic, MayTurn, LoopEnds
<1>2. loop' = [turns |-> loop.turns + 1, quiet |-> loop.quiet, replans |-> loop.replans,
               redirects |-> loop.redirects]
  BY <1>1, DriverNumbers
<1>3. /\ loop'.replans = loop.replans /\ loop'.redirects = loop.redirects /\ loop' \in Loops
  BY <1>2, DriverNumbers DEF Loops
<1>4. DriverShape'
  <2>1. doing' \in Doings \ {"tools"}
    BY <1>1 DEF Doings
  <2> QED
    BY <1>1, <1>3, <2>1, QuietTurnShape
<1>5. DriverPlace' /\ MajorityAnswers'
  BY <1>1 DEF DriverPlace, MajorityAnswers
<1>6. DriverQuiet'
  <2>1. idle <= loop.redirects
    BY <1>1 DEF DriverInv, DriverQuiet
  <2>2. idle' <= loop'.redirects + 1
    BY <1>1, <1>3, <2>1, DriverNumbers
  <2>3. ~Native' /\ profile'.driver = "self_critique"
    BY <1>1, BudgetsStay DEF Native
  <2> QED
    BY <1>1, <2>2, <2>3 DEF DriverQuiet
<1> QED
  BY <1>1, <1>4, <1>5, <1>6, BudgetsStay DEF DriverInv

LEMMA QuietTurnKeeps ==
  ASSUME DriverInv, NEW word \in Words \cup {"nothing"},
         NEW reply \in [score : Scores, retry : BOOLEAN], QuietTurn(word, reply)
  PROVE  DriverInv'
  BY QuietNativeKeeps, QuietPlannedKeeps, QuietCriticKeeps DEF QuietTurn

\* One call of a batch less.
LEMMA OneCallLess ==
  ASSUME NEW n \in Nat, NEW k \in 0 .. n, k # 0
  PROVE  k - 1 \in 0 .. n /\ (k > 1 => k - 1 # 0)
  OBVIOUS

LEMMA ToolAnswersKeeps ==
  ASSUME DriverInv, NEW seen \in BOOLEAN, NEW word \in Words \cup {"nothing"},
         ToolAnswers(seen, word)
  PROVE  DriverInv'
<1>1. /\ doing = "tools" /\ batch' = batch - 1
      /\ doing' = IF batch > 1 THEN "tools"
                  ELSE IF profile.driver = "self_critique" THEN "batch critic" ELSE "turn"
      /\ answer' = IF ~seen \/ answer.from = "thought" THEN answer
                   ELSE IF word = "nothing" THEN Unsaid
                   ELSE [from |-> "observation", word |-> word]
      /\ UNCHANGED <<profile, loop, reasons, samples, attempts, plan, idle, busy>>
  BY DEF ToolAnswers
<1>2. answer' \in Answers
  <2>1. answer \in Answers
    BY DEF DriverInv, DriverShape
  <2> QED
    BY <1>1, <2>1 DEF Answers
<1>3. batch # 0 /\ batch \in 0 .. MaxAsked
  BY <1>1 DEF DriverInv, DriverShape
<1>4. batch' \in 0 .. MaxAsked /\ (batch > 1 => batch' # 0)
  <2>1. MaxAsked \in Nat
    BY DriverBudgets
  <2>2. batch - 1 \in 0 .. MaxAsked /\ (batch > 1 => batch - 1 # 0)
    BY <1>3, <2>1, OneCallLess
  <2> QED
    BY <1>1, <2>2
<1>5. DriverShape'
  <2>1. doing' \in Doings /\ (doing' = "tools" => batch > 1)
    BY <1>1 DEF Doings
  <2> QED
    BY <1>1, <1>2, <1>4, <2>1, BudgetsStay DEF DriverInv, DriverShape
<1>6. DriverPlace' /\ MajorityAnswers'
  BY <1>1 DEF DriverPlace, MajorityAnswers
<1>7. DriverQuiet'
  <2>1. /\ doing' \notin {"plans", "replan"} /\ doing' \in {"turn", "tools", "batch critic"}
    BY <1>1
  <2>2. profile.driver = "plan_execute" => loop.quiet = 0 /\ loop.quiet <= 2 /\ loop.quiet <= 1
    BY <1>1 DEF DriverInv, DriverQuiet
  <2>3. Native' => idle' + TurnsLeft(reasons', profile'.mode) <= QuietLimit'
    BY <1>1, BudgetsStay DEF DriverInv, DriverQuiet
  <2>4. profile.driver = "self_critique" => idle <= loop.redirects /\ idle <= loop.redirects + 1
    BY <1>1 DEF DriverInv, DriverQuiet
  <2>5. profile.driver = "plan_execute" =>
          loop.quiet <= 3 /\ idle + 2 * loop.replans <= 2 * ReplanBudget + loop.quiet
    BY DEF DriverInv, DriverQuiet
  <2> QED
    BY <1>1, <2>1, <2>2, <2>3, <2>4, <2>5, BudgetsStay DEF DriverQuiet
<1> QED
  BY <1>1, <1>5, <1>6, <1>7, BudgetsStay DEF DriverInv

LEMMA ReplannedKeeps ==
  ASSUME DriverInv, NEW revised \in BOOLEAN, Replanned(revised)
  PROVE  DriverInv'
<1>1. /\ doing = "replan" /\ doing' = "turn"
      /\ loop' = [loop EXCEPT !.quiet = 0, !.replans = @ - 1]
      /\ plan' = IF revised THEN [of |-> 1, scores |-> <<>>] ELSE plan
      /\ UNCHANGED <<profile, reasons, batch, answer, samples, attempts, idle, busy>>
  BY DEF Replanned
<1>2. /\ profile.driver = "plan_execute" /\ loop.quiet <= 2 /\ loop.replans # 0
      /\ idle + 2 * loop.replans <= 2 * ReplanBudget + loop.quiet
  BY <1>1 DEF DriverInv, DriverPlace, DriverQuiet
<1>3. loop' = [turns |-> loop.turns, quiet |-> 0, replans |-> loop.replans - 1,
               redirects |-> loop.redirects]
  BY <1>1, DriverNumbers
<1>4. /\ loop'.quiet = 0 /\ loop'.replans = loop.replans - 1 /\ loop'.redirects = loop.redirects
      /\ loop' \in Loops
  BY <1>2, <1>3, DriverNumbers DEF Loops
<1>5. /\ plan' \in [of : 0 .. Width, scores : Seq(Scores)]
      /\ plan'.scores # <<>> => IsBest(plan'.of, plan'.scores)
  <2>1. CASE revised
    <3>1. plan' = [of |-> 1, scores |-> <<>>]
      BY <1>1, <2>1
    <3>2. 1 \in 0 .. Width
      BY DriverBudgets
    <3> QED
      BY <3>1, <3>2
  <2>2. CASE ~revised
    BY <1>1, <2>2 DEF DriverInv, DriverShape
  <2> QED
    BY <2>1, <2>2
<1>6. DriverShape'
  <2>1. doing' \in Doings /\ doing' # "tools"
    BY <1>1 DEF Doings
  <2>2. loop'.redirects <= CriticBudget' /\ loop'.replans <= ReplanBudget'
    BY <1>1, <1>2, <1>4, BudgetsStay, DriverNumbers, DriverBudgets
  <2> QED
    BY <1>1, <1>4, <1>5, <2>1, <2>2 DEF DriverInv, DriverShape
<1>7. DriverPlace' /\ MajorityAnswers'
  BY <1>1 DEF DriverPlace, MajorityAnswers
<1>8. DriverQuiet'
  <2>1. /\ loop'.quiet <= 3 /\ loop'.quiet <= 2 /\ loop'.quiet <= 1
        /\ idle + 2 * loop'.replans <= 2 * ReplanBudget + loop'.quiet
    BY <1>2, <1>4, DriverNumbers, DriverBudgets
  <2>2. ~Native' /\ profile'.driver = "plan_execute"
    BY <1>1, <1>2, BudgetsStay DEF Native
  <2> QED
    BY <1>1, <2>1, <2>2, BudgetsStay DEF DriverQuiet
<1> QED
  BY <1>1, <1>5, <1>6, <1>7, <1>8, BudgetsStay DEF DriverInv

LEMMA CriticKeeps ==
  ASSUME DriverInv, NEW low \in BOOLEAN, Critic(low)
  PROVE  DriverInv'
<1> DEFINE redirects == low /\ loop.redirects < CriticBudget
<1>1. /\ doing \in {"critic", "batch critic"}
      /\ loop' = IF redirects THEN [loop EXCEPT !.redirects = @ + 1] ELSE loop
      /\ doing' = IF redirects \/ doing = "batch critic" THEN "turn" ELSE "leaving"
      /\ UNCHANGED <<profile, reasons, batch, answer, samples, attempts, plan, idle, busy>>
  BY DEF Critic
<1>2. /\ profile.driver = "self_critique" /\ idle <= loop.redirects + 1
      /\ doing = "batch critic" => idle <= loop.redirects
  BY <1>1 DEF DriverInv, DriverPlace, DriverQuiet
<1>3. /\ loop' \in Loops /\ loop'.replans = loop.replans
      /\ loop'.redirects = IF redirects THEN loop.redirects + 1 ELSE loop.redirects
  <2>1. CASE redirects
    <3>1. loop' = [turns |-> loop.turns, quiet |-> loop.quiet, replans |-> loop.replans,
                   redirects |-> loop.redirects + 1]
      BY <1>1, <2>1, DriverNumbers
    <3> QED
      BY <2>1, <3>1, DriverNumbers DEF Loops
  <2>2. CASE ~redirects
    BY <1>1, <2>2 DEF DriverInv, DriverShape
  <2> QED
    BY <2>1, <2>2
<1>4. loop'.redirects <= CriticBudget /\ loop'.redirects \in Nat
  <2>1. CASE redirects
    BY <1>3, <2>1, DriverNumbers, DriverBudgets
  <2>2. CASE ~redirects
    BY <1>3, <2>2, DriverNumbers
  <2> QED
    BY <2>1, <2>2
<1>5. DriverShape'
  <2>1. doing' \in Doings /\ doing' # "tools"
    BY <1>1 DEF Doings
  <2>2. loop'.redirects <= CriticBudget' /\ loop'.replans <= ReplanBudget'
    BY <1>1, <1>3, <1>4, BudgetsStay, DriverNumbers
  <2> QED
    BY <1>1, <1>3, <2>1, <2>2 DEF DriverInv, DriverShape
<1>6. DriverPlace' /\ MajorityAnswers'
  BY <1>1 DEF DriverPlace, MajorityAnswers
<1>7. DriverQuiet'
  <2>1. idle <= loop'.redirects + 1 /\ (doing' = "turn" => idle <= loop'.redirects)
    <3>1. CASE redirects
      <4>1. loop'.redirects = loop.redirects + 1
        BY <1>3, <3>1
      <4>2. loop.redirects \in Nat /\ idle \in Nat /\ idle <= loop.redirects + 1
        BY <1>2, DriverNumbers
      <4> HIDE DEF redirects
      <4>3. idle <= loop'.redirects /\ idle <= loop'.redirects + 1
        BY <4>1, <4>2
      <4> QED
        BY <4>3
    <3>2. CASE ~redirects
      <4>1. loop'.redirects = loop.redirects /\ (doing' = "turn" => doing = "batch critic")
        BY <1>1, <1>3, <3>2
      <4> QED
        BY <1>2, <4>1
    <3> QED
      BY <3>1, <3>2
  <2>2. ~Native' /\ profile'.driver = "self_critique" /\ doing' \notin {"tools", "batch critic"}
    BY <1>1, <1>2, BudgetsStay DEF Native
  <2> QED
    BY <1>1, <2>1, <2>2 DEF DriverQuiet
<1> QED
  BY <1>1, <1>5, <1>6, <1>7, BudgetsStay DEF DriverInv

LEMMA SampledIsAnswered ==
  ASSUME DriverInv
  PROVE  Sampled \in Seq(Words)
<1>1. answer \in Answers /\ samples \in Seq(Words)
  BY DEF DriverInv, DriverShape
<1>2. answer # Unsaid => answer.word \in Words
  BY <1>1 DEF Answers
<1> QED
  BY <1>1, <1>2 DEF Sampled

\* An attempt of self_consistency has one turn without a tool.
LEMMA FreshAttempt ==
  /\ Reasoned(Fresh("react"), "self_consistency") /\ Fresh("react").phase = "act"
  /\ TurnsLeft(Fresh("react"), "self_consistency") = 1
<1>1. "react" \in Modes
  BY DEF Modes
<1>2. Reasoned(Fresh("react"), "react") /\ Fresh("react").phase = "act"
  BY <1>1, FreshIsReasoned
<1>3. Reasoned(Fresh("react"), "self_consistency")
  BY <1>2 DEF Reasoned, PhasesOf
<1>4. TurnsLeft(Fresh("react"), "self_consistency") = 1
  BY <1>2 DEF TurnsLeft
<1> QED
  BY <1>2, <1>3, <1>4

LEMMA AttemptOverKeeps ==
  ASSUME DriverInv, AttemptOver
  PROVE  DriverInv'
<1>1. /\ doing = "turn" /\ Native /\ profile.mode = "self_consistency" /\ attempts < Attempts
      /\ samples' = Sampled /\ attempts' = attempts + 1
      /\ answer' = Unsaid /\ reasons' = Fresh("react") /\ loop' = [loop EXCEPT !.turns = 0]
      /\ idle' = 0 /\ UNCHANGED <<profile, doing, batch, plan, busy>>
  BY DEF AttemptOver, LoopEnds, Consistent
<1>2. loop' = [turns |-> 0, quiet |-> loop.quiet, replans |-> loop.replans,
               redirects |-> loop.redirects]
  BY <1>1, DriverNumbers
<1>3. /\ loop' \in Loops /\ loop'.replans = loop.replans /\ loop'.redirects = loop.redirects
  BY <1>2, DriverNumbers DEF Loops
<1>4. DriverShape'
  <2>1. attempts' \in 1 .. Attempts
    BY <1>1, DriverBudgets DEF DriverInv, DriverShape
  <2>2. loop'.redirects <= CriticBudget' /\ loop'.replans <= ReplanBudget'
    BY <1>1, <1>3, BudgetsStay, DriverNumbers
  <2>3. answer' \in Answers /\ samples' \in Seq(Words) /\ idle' \in Nat
    BY <1>1, SampledIsAnswered DEF Answers
  <2> QED
    BY <1>1, <1>3, <2>1, <2>2, <2>3 DEF DriverInv, DriverShape
<1>5. DriverPlace' /\ MajorityAnswers'
  BY <1>1 DEF DriverPlace, MajorityAnswers
<1>6. Reasoned(reasons', profile'.mode) /\ reasons'.phase = "act"
  BY <1>1, FreshAttempt
<1>7. DriverQuiet'
  <2>1. TurnsLeft(reasons', profile'.mode) = 1
    BY <1>1, FreshAttempt
  <2>2. QuietLimit' = 1
    <3>1. QuietLimit = 1
      BY <1>1 DEF QuietLimit, Native
    <3> QED
      BY <1>1, <3>1, BudgetsStay
  <2>3. profile'.driver # "plan_execute" /\ profile'.driver # "self_critique"
    BY <1>1 DEF Native
  <2>4. idle' + 1 <= 1
    BY <1>1
  <2> QED
    BY <2>1, <2>2, <2>3, <2>4 DEF DriverQuiet
<1> QED
  BY <1>1, <1>4, <1>5, <1>6, <1>7 DEF DriverInv

\* The winner of a vote.
LEMMA WinnerHasMost ==
  ASSUME NEW s \in Seq(Words), s # <<>>
  PROVE  /\ Winner(s) \in DOMAIN s
         /\ \A j \in DOMAIN s : Votes(s, j) <= Votes(s, Winner(s))
         /\ \A j \in 1 .. Winner(s) - 1 : Votes(s, j) < Votes(s, Winner(s))
<1> DEFINE w == [i \in DOMAIN s |-> Votes(s, i)]
<1>1. DOMAIN s = 1 .. Len(s) /\ Len(s) \in Nat /\ Len(s) # 0
  OBVIOUS
<1>2. ASSUME NEW i \in DOMAIN s PROVE Votes(s, i) \in Nat
  <2> DEFINE S == {j \in DOMAIN s : s[j] = s[i]}
  <2>1. IsFiniteSet(1 .. Len(s))
    BY <1>1, FS_Interval
  <2>2. S \subseteq 1 .. Len(s)
    BY <1>1
  <2>3. IsFiniteSet(S)
    BY <2>1, <2>2, FS_Subset
  <2>4. Cardinality(S) \in Nat
    BY <2>3, FS_CardinalityType
  <2> QED
    BY <2>4 DEF Votes
<1>3. w \in Seq(Nat) /\ Len(w) = Len(s)
  BY <1>1, <1>2
<1>4. \A i \in 1 .. Len(w) : w[i] \in Nat /\ w[i] = Votes(s, i)
  BY <1>1, <1>2, <1>3
<1>5. Winner(s) = Leading(w)
  BY DEF Winner
<1> HIDE DEF w
<1>6. /\ Leading(w) \in 1 .. Len(w)
      /\ \A i \in 1 .. Len(w) : w[i] <= w[Leading(w)]
      /\ \A i \in 1 .. Leading(w) - 1 : w[i] < w[Leading(w)]
  BY <1>1, <1>3, <1>4, LeadingIsFirst
<1>7. \A i \in 1 .. Leading(w) - 1 : i \in 1 .. Len(w)
  BY <1>1, <1>3, <1>6
<1> QED
  BY <1>1, <1>3, <1>4, <1>5, <1>6, <1>7

LEMMA VoteKeeps ==
  ASSUME DriverInv, Vote
  PROVE  DriverInv'
<1> DEFINE s == Sampled
<1>1. /\ Native /\ doing' = "voted" /\ samples' = s
      /\ answer' = IF s = <<>> THEN answer ELSE [from |-> "thought", word |-> s[Winner(s)]]
      /\ UNCHANGED <<profile, loop, reasons, batch, attempts, plan, idle, busy>>
  BY DEF Vote, Consistent
<1>2. s \in Seq(Words)
  BY SampledIsAnswered
<1> HIDE DEF s
<1>3. s # <<>> => s[Winner(s)] \in Words
  BY <1>2, WinnerHasMost
<1>4. answer' \in Answers
  BY <1>1, <1>3 DEF DriverInv, DriverShape, Answers
<1>5. DriverShape'
  <2>1. doing' \in Doings /\ doing' # "tools"
    BY <1>1 DEF Doings
  <2> QED
    BY <1>1, <1>2, <1>4, <2>1, BudgetsStay DEF DriverInv, DriverShape
<1>6. DriverPlace'
  BY <1>1 DEF DriverPlace
<1>7. MajorityAnswers'
  <2> SUFFICES ASSUME s # <<>>
               PROVE  \E i \in DOMAIN s :
                        /\ s[i] = answer'.word
                        /\ \A j \in DOMAIN s : Votes(s, j) <= Votes(s, i)
                        /\ \A j \in 1 .. i - 1 : Votes(s, j) < Votes(s, i)
    BY <1>1 DEF MajorityAnswers
  <2>1. answer'.word = s[Winner(s)]
    BY <1>1
  <2> QED
    BY <1>2, <2>1, WinnerHasMost
<1>8. DriverQuiet'
  <2>1. profile'.driver # "plan_execute" /\ profile'.driver # "self_critique"
    BY <1>1 DEF Native
  <2> QED
    BY <1>1, <2>1, BudgetsStay DEF DriverInv, DriverQuiet
<1> QED
  BY <1>1, <1>5, <1>6, <1>7, <1>8, BudgetsStay DEF DriverInv

\* Every step keeps the invariant.
LEMMA DriverNextInv == DriverInv /\ [DriverNext]_driverVars => DriverInv'
<1> SUFFICES ASSUME DriverInv, [DriverNext]_driverVars PROVE DriverInv'
  OBVIOUS
<1>1. CASE UNCHANGED driverVars
  BY <1>1 DEF driverVars, DriverInv, DriverShape, DriverPlace, DriverQuiet, MajorityAnswers, Native,
              QuietLimit, ReplanBudget, CriticBudget
<1>2. CASE Completes
  BY <1>2, DriverStops DEF Completes
<1>3. CASE TurnFails
  BY <1>3, DriverStops DEF TurnFails
<1>4. CASE DriverAborts
  BY <1>4, DriverStops DEF DriverAborts
<1> QED
  BY <1>1, <1>2, <1>3, <1>4, PlannedKeeps, TurnWithToolsKeeps, QuietTurnKeeps, ToolAnswersKeeps,
     ReplannedKeeps, CriticKeeps, AttemptOverKeeps, VoteKeeps DEF DriverNext

\* However the model answers, a driver with a loop of its own stops calling one that asks
\* for no tool, mounts the best of its plans and tells the answer of the majority, for any
\* budgets, widths, attempts and scores.
THEOREM DriversEndWell == DriverSpec => [](DriverTypeOK /\ LoopsEndWell)
  BY DriverInitInv, DriverNextInv, DriverInvTells, PTL DEF DriverSpec

-----------------------------------------------------------------------------
(* The instance: one of the components moves, the others rest.             *)

Subjects == {"mcp", "shell", "jobs", "process", "harness", "bridge", "context", "loop"}

\* The invariants of the components.
ToolsInv ==
  /\ subject \in Subjects
  /\ McpInv /\ ProcessInv /\ BridgeInv /\ HarnessInv /\ JobsInv /\ ShellInv
  /\ ContextInv /\ DriverInv

\* They hold at the start.
LEMMA ToolsInitInv == ToolsInit => ToolsInv
  BY McpInitInv, ProcessInitInv, BridgeInitInv, HarnessInitInv, JobsInitInv, ShellInitInv,
     ContextInitInv, DriverInitInv DEF ToolsInit, ToolsInv, Subjects

\* A step of one component keeps its invariant, and the others keep theirs at rest.
LEMMA ToolsNextInv == ToolsInv /\ [ToolsNext]_toolsVars => ToolsInv'
<1> SUFFICES ASSUME ToolsInv, [ToolsNext]_toolsVars PROVE ToolsInv'
  OBVIOUS
<1>1. [McpNext]_mcpVars
  BY DEF ToolsNext, toolsVars, McpStep, ShellStep, JobStep, ProcessStep, HarnessStep, BridgeStep,
         ContextStep, LoopStep, Mcp, Shell, Job, Process, Harness, Bridge, Context, Loop
<1>2. [ProcessNext]_processVars
  BY DEF ToolsNext, toolsVars, McpStep, ShellStep, JobStep, ProcessStep, HarnessStep, BridgeStep,
         ContextStep, LoopStep, Mcp, Shell, Job, Process, Harness, Bridge, Context, Loop
<1>3. [BridgeNext]_bridgeVars
  BY DEF ToolsNext, toolsVars, McpStep, ShellStep, JobStep, ProcessStep, HarnessStep, BridgeStep,
         ContextStep, LoopStep, Mcp, Shell, Job, Process, Harness, Bridge, Context, Loop
<1>4. [HarnessNext]_harnessVars
  BY DEF ToolsNext, toolsVars, McpStep, ShellStep, JobStep, ProcessStep, HarnessStep, BridgeStep,
         ContextStep, LoopStep, Mcp, Shell, Job, Process, Harness, Bridge, Context, Loop
<1>5. [JobsNext]_jobVars
  BY DEF ToolsNext, toolsVars, McpStep, ShellStep, JobStep, ProcessStep, HarnessStep, BridgeStep,
         ContextStep, LoopStep, Mcp, Shell, Job, Process, Harness, Bridge, Context, Loop
<1>6. [ShellNext]_shellVars
  BY DEF ToolsNext, toolsVars, McpStep, ShellStep, JobStep, ProcessStep, HarnessStep, BridgeStep,
         ContextStep, LoopStep, Mcp, Shell, Job, Process, Harness, Bridge, Context, Loop
<1>7. [ContextNext]_contextVars
  BY DEF ToolsNext, toolsVars, McpStep, ShellStep, JobStep, ProcessStep, HarnessStep, BridgeStep,
         ContextStep, LoopStep, Mcp, Shell, Job, Process, Harness, Bridge, Context, Loop
<1>8. [DriverNext]_driverVars
  BY DEF ToolsNext, toolsVars, McpStep, ShellStep, JobStep, ProcessStep, HarnessStep, BridgeStep,
         ContextStep, LoopStep, Mcp, Shell, Job, Process, Harness, Bridge, Context, Loop
<1>9. subject' = subject
  BY DEF ToolsNext, toolsVars, McpStep, ShellStep, JobStep, ProcessStep, HarnessStep, BridgeStep,
         ContextStep, LoopStep, Mcp, Shell, Job, Process, Harness, Bridge, Context, Loop
<1> QED
  BY <1>1, <1>2, <1>3, <1>4, <1>5, <1>6, <1>7, <1>8, <1>9, McpNextInv, ProcessNextInv, BridgeNextInv,
     HarnessNextInv, JobsNextInv, ShellNextInv, ContextNextInv, DriverNextInv DEF ToolsInv

\* It holds of every behaviour of the instance.
LEMMA ToolsKeepInv == ToolsSpec => []ToolsInv
  BY ToolsInitInv, ToolsNextInv, PTL DEF ToolsSpec

\* The calls of an MCP server get their replies, and what a column is told of a command or
\* a framework that ran outside the server is what happened to it, whichever of the
\* components moves.
THEOREM ToolsTellTruth == ToolsSpec => [](CallsGetTheirReplies /\ ChildrenTellTruth)
<1>1. ToolsInv => CallsGetTheirReplies /\ ChildrenTellTruth
  BY BridgeInvTells DEF ToolsInv, McpInv, ProcessInv, ChildrenTellTruth
<1> QED
  BY <1>1, ToolsKeepInv, PTL

\* The output of a shell or a job is told to the one who asked for it, in order and once,
\* whichever moves.
THEOREM ToolOutputIsTold == ToolsSpec => []OutputIsToldOnce
<1>1. ToolsInv => OutputIsToldOnce
  BY ShellInvTells, JobsInvTells DEF ToolsInv, OutputIsToldOnce
<1> QED
  BY <1>1, ToolsKeepInv, PTL

\* A driver stops by itself, mounts the best plan and tells the answer of the majority, and
\* the attempts of the verification loop come out as one run, whichever moves.
THEOREM ColumnsComeToTheirEnd == ToolsSpec => []ColumnsEndWell
<1>1. ToolsInv => ColumnsEndWell
  BY HarnessInvTells, DriverInvTells DEF ToolsInv, ColumnsEndWell
<1> QED
  BY <1>1, ToolsKeepInv, PTL

\* The variables of all tools stay within their types, the counters and buffers within their
\* bounds.
THEOREM ToolsAreTyped == ToolsSpec => []ToolsTypeOK
<1>1. ToolsInv => ToolsTypeOK
  <2> SUFFICES ASSUME ToolsInv PROVE ToolsTypeOK
    OBVIOUS
  <2>1. /\ McpTypeOK /\ ShellTypeOK /\ JobsTypeOK /\ ProcessTypeOK /\ HarnessTypeOK /\ BridgeTypeOK
        /\ ContextTypeOK /\ DriverTypeOK
    BY ShellInvTells, JobsInvTells, HarnessInvTells, ContextInvTypes, DriverInvTells
       DEF ToolsInv, McpInv, ProcessInv, BridgeInv
  <2>2. subject \in Subjects
    BY DEF ToolsInv
  <2> QED
    BY <2>1, <2>2 DEF ToolsTypeOK, Subjects
<1> QED
  BY <1>1, ToolsKeepInv, PTL

\* Whatever a strategy, a budget or a repair leaves of a transcript is a transcript that the
\* provider accepts and that says what it dropped, whichever moves.
THEOREM CutsComeOutSound == ToolsSpec => []CutsStaySound
<1>1. ToolsInv => CutsStaySound
  BY ContextInvSound DEF ToolsInv, CutsStaySound
<1> QED
  BY <1>1, ToolsKeepInv, PTL
=============================================================================
