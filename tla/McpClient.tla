------------------------------ MODULE McpClient ------------------------------
(***************************************************************************)
(* tools/tool-mcp: the client of one MCP server process. client.ts keeps the *)
(* request table, a timer per request and the pump that reads messages;      *)
(* transport.ts keeps the pipe, the queue of decoded messages and the end of *)
(* the stream. Call c carries the id c, and call 1 is the handshake.          *)
(***************************************************************************)
EXTENDS Naturals, Sequences, SequencesExt

CONSTANTS Calls,      \* how many requests the client makes, the handshake included
          ServerIds   \* ids the server gives to its own requests; it counts for itself

ASSUME McpAssumption == Calls \in Nat \ {0} /\ ServerIds \subseteq Nat

VARIABLES
    call,     \* what became of each request: "none", "waiting" or how it ended
    pending,  \* the keys of the request table
    armed,    \* the requests whose timer runs
    pump,     \* "none" or "reading"
    ended,    \* finish has run: the transport takes the stream for ended
    pipe,     \* what the server wrote and the decoder has not seen
    queue,    \* decoded messages
    closed,   \* close has run
    replied,     \* the server: what it replied to each request it got, "none" so far
    asked,    \* ids of the requests the server has made
    served    \* ids of those the client has answered

mcpVars == <<call, pending, armed, pump, ended, pipe, queue, closed, replied, asked, served>>
serverVars == <<replied, asked>>

Ends == {"result", "error", "failed"}
Message(kind, id) == [kind |-> kind, id |-> id]

\* The pump runs in microtasks: no timer fires and no chunk arrives before it has
\* read what is queued. A caller that goes on in between may make its next request.
PumpIsIdle == pump = "reading" => queue = << >> /\ ~ended

\* Slip: the request is rejected and stays in the table.
Rejected_Kept(who) ==
    /\ call' = [c \in 1 .. Calls |-> IF c \in who THEN "failed" ELSE call[c]]
    /\ armed' = armed \ who
    /\ UNCHANGED pending

\* Reject these requests: their promises settle and their timers are cleared.
Rejected(who) ==
    /\ call' = [c \in 1 .. Calls |-> IF c \in who THEN "failed" ELSE call[c]]
    /\ armed' = armed \ who
    /\ pending' = pending \ who

-----------------------------------------------------------------------------
\* request: start the pump, take the next id, arm the timer, enter the table and write.
\* A write that throws takes the entry out again.
Request(c) ==
    /\ call[c] = "none" /\ \A earlier \in 1 .. c - 1 : call[earlier] # "none"
    /\ c > 1 => call[1] = "result"
    /\ pump' = IF pump = "none" THEN "reading" ELSE pump
    /\ \/ /\ call' = [call EXCEPT ![c] = "waiting"]
          /\ pending' = pending \cup {c} /\ armed' = armed \cup {c}
       \/ call' = [call EXCEPT ![c] = "failed"] /\ UNCHANGED <<pending, armed>>
    /\ UNCHANGED <<ended, pipe, queue, closed, served, serverVars>>

\* The timer of a request.
Timeout(c) ==
    /\ c \in armed /\ PumpIsIdle
    /\ Rejected({c})
    /\ UNCHANGED <<pump, ended, pipe, queue, closed, served, serverVars>>

\* close, by the owner of the client or by connect after a handshake that failed.
Close ==
    /\ call[1] \in Ends /\ ~closed
    /\ closed' = TRUE
    /\ Rejected(pending)
    /\ UNCHANGED <<pump, ended, pipe, queue, served, serverVars>>

\* A message with the id of a pending request settles it; another one that names a
\* method is answered, and a late reply is dropped. So is what has no numeric id or does
\* not parse: those messages are left out.
Handle(m) ==
    \/ /\ m.id \in pending
       /\ call' = [call EXCEPT ![m.id] = IF m.kind \in {"result", "error"} THEN m.kind ELSE "failed"]
       /\ pending' = pending \ {m.id} /\ armed' = armed \ {m.id}
       /\ UNCHANGED served
    \/ /\ m.id \notin pending
       /\ served' = IF m.kind = "request" THEN served \cup {m.id} ELSE served
       /\ UNCHANGED <<call, pending, armed>>

\* The pump takes the next message.
Pump ==
    /\ pump = "reading" /\ queue # << >>
    /\ queue' = Tail(queue)
    /\ Handle(Head(queue))
    /\ UNCHANGED <<pump, ended, pipe, closed, serverVars>>

\* Slip: the ended pump stays, so that later requests have no reader.
PumpEnds_Stays ==
    /\ pump = "reading" /\ queue = << >> /\ ended
    /\ pump' = "over"
    /\ Rejected(pending)
    /\ UNCHANGED <<ended, pipe, queue, closed, served, serverVars>>

\* The stream has ended and everything queued is read: reject the rest, and let a later
\* request start a pump of its own.
PumpEnds ==
    /\ pump = "reading" /\ queue = << >> /\ ended
    /\ pump' = "none"
    /\ Rejected(pending)
    /\ UNCHANGED <<ended, pipe, queue, closed, served, serverVars>>

-----------------------------------------------------------------------------
\* The child process, as transport.ts uses it: chunks arrive, before or after the exit.
Data ==
    /\ pipe # << >> /\ PumpIsIdle
    /\ \E n \in 1 .. Len(pipe) :
         /\ queue' = queue \o SubSeq(pipe, 1, n)
         /\ pipe' = SubSeq(pipe, n + 1, Len(pipe))
    /\ UNCHANGED <<call, pending, armed, pump, ended, closed, served, serverVars>>

\* finish: the child is gone, killed by close, by an overflow or on its own.
Exit ==
    /\ ~ended /\ PumpIsIdle
    /\ ended' = TRUE
    /\ UNCHANGED <<call, pending, armed, pump, pipe, queue, closed, served, serverVars>>

\* The server replies to a request it got, when it likes; a timed-out one too.
ServerReplies(c, kind) ==
    /\ call[c] # "none" /\ replied[c] = "none" /\ ~ended
    /\ replied' = [replied EXCEPT ![c] = kind]
    /\ pipe' = Append(pipe, Message(kind, c))
    /\ UNCHANGED <<call, pending, armed, pump, ended, queue, closed, served, asked>>

\* The server asks for the roots, or for something the client does not know.
ServerAsks(i) ==
    /\ i \notin asked /\ call[1] # "none" /\ ~ended
    /\ asked' = asked \cup {i}
    /\ pipe' = Append(pipe, Message("request", i))
    /\ UNCHANGED <<call, pending, armed, pump, ended, queue, closed, served, replied>>

McpInit ==
    /\ call = [c \in 1 .. Calls |-> "none"] /\ replied = call
    /\ pending = {} /\ armed = {} /\ pump = "none" /\ ended = FALSE
    /\ pipe = << >> /\ queue = << >> /\ closed = FALSE
    /\ asked = {} /\ served = {}

McpNext ==
    \/ \E c \in 1 .. Calls : Request(c) \/ Timeout(c)
    \/ \E c \in 1 .. Calls, kind \in {"result", "error", "empty"} : ServerReplies(c, kind)
    \/ \E i \in ServerIds : ServerAsks(i)
    \/ Close \/ Pump \/ PumpEnds \/ Data \/ Exit

\* The event loop runs the pump and the timers. The server need not do anything.
McpRuns == Pump \/ PumpEnds \/ \E c \in 1 .. Calls : Timeout(c)
McpSpec == McpInit /\ [][McpNext]_mcpVars /\ WF_mcpVars(McpRuns)

-----------------------------------------------------------------------------
McpTypeOK ==
    /\ call \in [1 .. Calls -> {"none", "waiting"} \cup Ends]
    /\ pending \subseteq 1 .. Calls /\ armed \subseteq 1 .. Calls
    /\ pump \in {"none", "reading"} /\ ended \in BOOLEAN /\ closed \in BOOLEAN
    /\ replied \in [1 .. Calls -> {"none", "empty", "result", "error"}]
    /\ asked \subseteq ServerIds /\ served \subseteq ServerIds
    /\ \A i \in 1 .. Len(queue) : queue[i].id \in 1 .. Calls \cup ServerIds

\* A tool call gets what the server replied to that call and to no other, although calls
\* overlap, time out and are answered late; and whoever waits is in the table, has a
\* timer and has a reader, so that a dead stream fails it at once, a request made after
\* the end of the stream included.
CallsGetTheirReplies ==
    /\ \A c \in 1 .. Calls : call[c] \in {"result", "error"} => call[c] = replied[c]
    /\ pending = {c \in 1 .. Calls : call[c] = "waiting"} /\ armed = pending
    /\ pending # {} => pump = "reading"

\* "Server-initiated request (no matching client call): serve roots/list from the
\* advertised roots, reject the rest loudly": what the server asked and the client has
\* read is answered.
ServerRequestsAnswered ==
    asked \subseteq served \cup {m.id : m \in {x \in ToSet(pipe \o queue) : x.kind = "request"}}

=============================================================================
