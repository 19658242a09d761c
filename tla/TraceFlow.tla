------------------------------ MODULE TraceFlow ------------------------------
(***************************************************************************)
(* A LangGraph column from the graph to the timeline. The graph reports over  *)
(* two ways: model events through a stream of its own, tool calls through     *)
(* callbacks that write into a queue of the driver at once. drainGraphStream   *)
(* merges the two and translates with one RunState, and mergeEvents folds     *)
(* what came out into the segments a reader sees. A text is the sequence of    *)
(* its chunks; phase notes, banners, file diffs and times are left out.       *)
(***************************************************************************)
EXTENDS Naturals, Sequences, SequencesExt, FiniteSetsExt

CONSTANTS MaxCalls,  \* bound: model calls of a run
          MaxChunks, \* bound: chunks of one call
          MaxTools,  \* bound: tools that one call asks for
          MaxWaiting \* bound: model events that wait in the stream

ASSUME TraceAssumption == {MaxCalls, MaxChunks, MaxTools, MaxWaiting} \subseteq Nat \ {0}

VARIABLES
    graph,    \* "idle", "model", "tools" or "done"; the model call, whether it thought, its
              \* chunks, whether it streams, the tools it waits for and whether one runs
    stream,   \* model events that the driver has not pulled
    extra,    \* events of the tool callbacks that it has not yielded
    driver,   \* RunState, and where the drain loop stands: "pulls" or "translates"
    spoken,   \* the last output of the model
    out,      \* the events of the column
    over,     \* "no", "finished", "failed" or "aborted"
    overtaken \* history: a tool started while model events were still in the stream

traceVars == <<graph, stream, extra, driver, spoken, out, over, overtaken>>

TraceEvent(type, step, text) == [type |-> type, step |-> step, text |-> text]
Chunk(call, k) == <<call, k>>
Output(g) == [k \in 1 .. g.chunks |-> Chunk(g.call, k)]

-----------------------------------------------------------------------------
(* The graph.                                                               *)

Writes(event) == Len(stream) < MaxWaiting /\ stream' = Append(stream, event)

ModelStarts(streams) ==
    /\ over = "no" /\ graph.at = "idle" /\ graph.call < MaxCalls
    /\ graph' = [graph EXCEPT !.at = "model", !.call = @ + 1, !.chunks = 0,
                                !.thought = FALSE, !.streams = streams]
    /\ Writes(TraceEvent("start", 0, << >>))
    /\ UNCHANGED <<extra, driver, spoken, out, over, overtaken>>

\* Not every provider streams.
ModelSays ==
    /\ over = "no" /\ graph.at = "model" /\ graph.chunks < MaxChunks
    /\ graph' = [graph EXCEPT !.chunks = @ + 1]
    /\ IF graph.streams THEN Writes(TraceEvent("text", 0, <<Chunk(graph.call, graph.chunks + 1)>>))
                        ELSE UNCHANGED stream
    /\ UNCHANGED <<extra, driver, spoken, out, over, overtaken>>

ModelThinks ==
    /\ over = "no" /\ graph.at = "model" /\ graph.streams /\ ~graph.thought
    /\ graph' = [graph EXCEPT !.thought = TRUE]
    /\ Writes(TraceEvent("thinking", 0, <<Chunk(graph.call, 0)>>))
    /\ UNCHANGED <<extra, driver, spoken, out, over, overtaken>>

\* A call without tools ends the graph or leads to its next node.
ModelEnds(tools) ==
    /\ over = "no" /\ graph.at = "model"
    /\ \E at \in IF tools > 0 THEN {"tools"} ELSE {"idle", "done"} :
           graph' = [graph EXCEPT !.at = at, !.tools = tools]
    /\ Writes(TraceEvent("end", 0, Output(graph)))
    /\ UNCHANGED <<extra, driver, spoken, out, over, overtaken>>

-----------------------------------------------------------------------------
(* The callbacks of the tool node. They share the RunState with the drain.  *)

\* closeStreamingThought.
Closing(d) == IF d.streaming # 0 THEN <<TraceEvent("thought_end", d.streaming, << >>)>> ELSE << >>
ThoughtClosed(d) == IF d.streaming # 0 THEN [d EXCEPT !.streaming = 0, !.thinking = 0] ELSE d

\* handleToolStart. A tool is known by the call that asked for it and its place there.
Tool == Chunk(graph.call, graph.tools)
ToolStarts ==
    /\ over = "no" /\ graph.at = "tools" /\ graph.tools > 0 /\ ~graph.running
    /\ graph' = [graph EXCEPT !.running = TRUE]
    /\ driver' = [ThoughtClosed(driver) EXCEPT !.step = @ + 1]
    /\ extra' = extra \o Closing(driver) \o <<TraceEvent("action", driver.step + 1, <<Tool>>)>>
    /\ overtaken' = (overtaken \/ stream # << >> \/ driver.at = "translates")
    /\ UNCHANGED <<stream, spoken, out, over>>

\* recordTool; bash repeats its result as progress.
ToolEnds(progress) ==
    /\ over = "no" /\ graph.running
    /\ graph' = [graph EXCEPT !.running = FALSE, !.tools = @ - 1,
                              !.at = IF graph.tools = 1 THEN "idle" ELSE "tools"]
    /\ driver' = [ThoughtClosed(driver) EXCEPT !.step = @ + 1]
    /\ extra' = extra \o Closing(driver)
                \o (IF progress THEN <<TraceEvent("tool_progress", driver.step, <<Tool>>)>>
                                ELSE << >>)
                \o <<TraceEvent("observation", driver.step + 1, <<Tool>>)>>
    /\ UNCHANGED <<stream, spoken, out, over, overtaken>>

\* A tool that a rule blocks or nobody knows is answered in the graph alone.
ToolIsRefused ==
    /\ over = "no" /\ graph.at = "tools" /\ ~graph.running
    /\ graph' = [graph EXCEPT !.tools = @ - 1, !.at = IF graph.tools = 1 THEN "idle" ELSE "tools"]
    /\ UNCHANGED <<stream, extra, driver, spoken, out, over, overtaken>>

-----------------------------------------------------------------------------
(* drainGraphStream.                                                        *)

\* A pull is answered, or a tick passes: the queue of the callbacks goes out first.
Splice ==
    /\ over = "no" /\ driver.at = "pulls" /\ (stream # << >> \/ extra # << >>)
    /\ out' = out \o extra /\ extra' = << >>
    /\ driver' = [driver EXCEPT !.at = IF stream # << >> THEN "translates" ELSE "pulls"]
    /\ UNCHANGED <<graph, stream, spoken, over, overtaken>>

\* onChatModelStart, onChatModelStream and onChatModelEnd: what goes out and the RunState
\* behind it. A chunk belongs to the step that its call announced, or to a new one.
Announced(d) == IF d.pending # 0 THEN d.pending ELSE d.step + 1
Reached(d, step) == IF step > d.step THEN step ELSE d.step
TextStep(d) == IF d.streaming # 0 THEN d.streaming ELSE Announced(d)
ThoughtStep(d) == IF d.thinking # 0 THEN d.thinking ELSE Announced(d)

Translated(d, e) ==
    CASE e.type = "start" -> Closing(d) \o <<TraceEvent("step_start", d.step + 1, << >>)>>
      [] e.type = "thinking" -> <<TraceEvent("thinking", ThoughtStep(d), e.text)>>
      [] e.type = "text" -> <<TraceEvent("thought_delta", TextStep(d), e.text)>>
      [] e.type = "end" -> Closing(d)
After(d, e) ==
    CASE e.type = "start" ->
            [d EXCEPT !.streaming = 0, !.thinking = 0, !.step = @ + 1, !.pending = d.step + 1]
      [] e.type = "thinking" ->
            [d EXCEPT !.thinking = ThoughtStep(d), !.step = Reached(d, ThoughtStep(d))]
      [] e.type = "text" ->
            [d EXCEPT !.streaming = TextStep(d), !.step = Reached(d, TextStep(d))]
      [] e.type = "end" -> [d EXCEPT !.streaming = 0, !.thinking = 0, !.pending = 0]

Translate ==
    /\ over = "no" /\ driver.at = "translates"
    /\ out' = out \o Translated(driver, Head(stream))
    /\ driver' = [After(driver, Head(stream)) EXCEPT !.at = "pulls"]
    /\ stream' = Tail(stream)
    /\ spoken' = IF Head(stream).type = "end" /\ Head(stream).text # << >>
                 THEN Head(stream).text ELSE spoken
    /\ UNCHANGED <<graph, extra, over, overtaken>>

\* The stream is at its end. An output that never went out as chunks goes out whole.
Joined(events) == FoldLeft(LAMBDA text, e : text \o e.text, << >>, events)
TextOf(events, type) == Joined(SelectSeq(events, LAMBDA e : e.type = type))
Finish ==
    /\ over = "no" /\ graph.at = "done" /\ driver.at = "pulls" /\ stream = << >>
    /\ LET missing == ~(ToSet(spoken) \subseteq ToSet(TextOf(out, "thought_delta")))
           step == IF driver.streaming # 0 THEN driver.streaming ELSE driver.step
       IN out' = out \o extra \o
                 (IF missing THEN <<TraceEvent("thought_delta", step, spoken),
                                    TraceEvent("thought_end", step, << >>)>>
                             ELSE << >>)
    /\ extra' = << >> /\ over' = "finished"
    /\ UNCHANGED <<graph, stream, driver, spoken, overtaken>>

\* The signal is looked at when a tick passes without an event.
Aborts ==
    /\ over = "no" /\ driver.at = "pulls" /\ stream = << >>
    /\ out' = out \o extra /\ extra' = << >> /\ over' = "aborted"
    /\ UNCHANGED <<graph, stream, driver, spoken, overtaken>>

\* The graph throws: the pull is rejected before the queue of the callbacks is looked at.
Fails ==
    /\ over = "no" /\ driver.at = "pulls" /\ stream = << >> /\ graph.at \in {"idle", "model"}
    /\ out' = Append(out, TraceEvent("error", 0, << >>)) /\ extra' = << >> /\ over' = "failed"
    /\ UNCHANGED <<graph, stream, driver, spoken, overtaken>>

TraceInit ==
    /\ graph = [at |-> "idle", call |-> 0, thought |-> FALSE, chunks |-> 0, streams |-> TRUE,
                tools |-> 0, running |-> FALSE]
    /\ stream = << >> /\ extra = << >> /\ spoken = << >> /\ out = << >>
    /\ driver = [step |-> 0, streaming |-> 0, thinking |-> 0, pending |-> 0, at |-> "pulls"]
    /\ over = "no" /\ overtaken = FALSE

TraceNext ==
    \/ \E streams \in BOOLEAN : ModelStarts(streams)
    \/ ModelSays \/ ModelThinks
    \/ \E tools \in 0 .. MaxTools : ModelEnds(tools)
    \/ ToolStarts \/ \E progress \in BOOLEAN : ToolEnds(progress)
    \/ ToolIsRefused \/ Splice \/ Translate \/ Finish \/ Fails \/ Aborts

TraceSpec == TraceInit /\ [][TraceNext]_traceVars

-----------------------------------------------------------------------------
(* mergeEvents: one row per thought, thinking, call and stray result.       *)

Segment(kind, step, text, done) ==
    [kind |-> kind, step |-> step, text |-> text, result |-> << >>, done |-> done]
Latest(rows, kind, step) ==
    Max({0} \cup {i \in DOMAIN rows : rows[i].kind = kind /\ rows[i].step = step})

\* settlePendingStep.
SettledRows(rows, step) ==
    [i \in DOMAIN rows |-> IF rows[i].kind = "step" /\ rows[i].step = step
                           THEN [rows[i] EXCEPT !.done = TRUE] ELSE rows[i]]

StillOpen(rows, i) == i # 0 /\ ~rows[i].done

\* The timeline after one more event; open is the row of the call that waits for its result.
Merged(line, e) ==
    LET rows == line.rows
        settled == SettledRows(rows, e.step)
        thought == Latest(rows, "thought", e.step)
        thinking == Latest(rows, "thinking", e.step)
    IN CASE e.type = "step_start" ->
              [open |-> 0,
               rows |-> IF Latest(rows, "step", e.step) # 0 THEN rows
                        ELSE Append(rows, Segment("step", e.step, << >>, FALSE))]
         [] e.type = "thought_delta" ->
              [open |-> 0,
               rows |-> IF StillOpen(rows, thought)
                        THEN [settled EXCEPT ![thought].text = @ \o e.text]
                        ELSE Append(settled, Segment("thought", e.step, e.text, FALSE))]
         [] e.type = "thought_end" ->
              [line EXCEPT !.rows = IF StillOpen(rows, thought)
                                    THEN [rows EXCEPT ![thought].done = TRUE] ELSE rows]
         [] e.type = "thinking" ->
              [open |-> 0,
               rows |-> IF thinking # 0 THEN [settled EXCEPT ![thinking].text = @ \o e.text]
                        ELSE Append(settled, Segment("thinking", e.step, e.text, TRUE))]
         [] e.type = "action" ->
              [open |-> Len(rows) + 1,
               rows |-> Append(settled, Segment("action", e.step, e.text, TRUE))]
         [] e.type = "tool_progress" ->
              IF line.open # 0
              THEN [line EXCEPT !.rows[line.open].result = @ \o e.text]
              ELSE [line EXCEPT !.rows = Append(rows, Segment("progress", e.step, e.text, FALSE))]
         [] e.type = "observation" ->
              IF line.open # 0
              THEN [open |-> 0,
                    rows |-> [rows EXCEPT ![line.open].result =
                                 IF ToSet(e.text) \subseteq ToSet(@) THEN @ ELSE @ \o e.text]]
              ELSE [line EXCEPT !.rows = Append(rows, Segment("observation", e.step, e.text, TRUE))]
         [] e.type = "error" ->
              [open |-> 0, rows |-> Append(settled, Segment("error", e.step, << >>, TRUE))]

Rows == FoldLeft(Merged, [rows |-> << >>, open |-> 0], out).rows

\* markFinalAnswerSegments: the last settled thought, if any.
Thoughts(rows) == SelectSeq(rows, LAMBDA row : row.kind = "thought")
Settled(rows) == SelectSeq(Thoughts(rows), LAMBDA row : row.done)

-----------------------------------------------------------------------------
TraceTypeOK ==
    /\ graph.at \in {"idle", "model", "tools", "done"} /\ graph.call \in 0 .. MaxCalls
    /\ graph.chunks \in 0 .. MaxChunks /\ graph.tools \in 0 .. MaxTools
    /\ graph.running => graph.at = "tools"
    /\ driver.at \in {"pulls", "translates"} /\ (driver.at = "translates" => stream # << >>)
    /\ {driver.streaming, driver.thinking, driver.pending} \subseteq 0 .. driver.step
    /\ over \in {"no", "finished", "failed", "aborted"} /\ overtaken \in BOOLEAN

\* What the model streamed is shown once, in its order, and no row mixes two calls,
\* wherever the callbacks of the tools fall in between.
TextIsShownOnce(rows) ==
    \A said \in {TextOf(out, "thought_delta")}, shown \in {Joined(Thoughts(rows))} :
    /\ shown = said
    /\ \A i, j \in DOMAIN said : i < j =>
           said[i][1] < said[j][1] \/ (said[i][1] = said[j][1] /\ said[i][2] < said[j][2])
    /\ \A i \in DOMAIN rows : rows[i].kind \in {"thought", "thinking"} =>
           \A c, d \in ToSet(rows[i].text) : c[1] = d[1]

\* "folding into their action": a result is never shown as that of another call, and it
\* is lost to its own only when model events came late and it stands alone.
ResultsReachTheirCall(rows) ==
    /\ \A i \in DOMAIN rows : rows[i].kind = "action" => rows[i].result \in {<< >>, rows[i].text}
    /\ \A t \in ToSet(TextOf(out, "observation")) :
           \E i \in DOMAIN rows :
               \/ rows[i].kind = "action" /\ rows[i].result = <<t>>
               \/ overtaken /\ rows[i].kind = "observation" /\ rows[i].text = <<t>>

\* The reply that the last settled thought stands for is what the model said last; with
\* late events it may be the rest of it only.
FinalIsTheAnswer(rows) ==
    over = "finished" /\ spoken # << >> =>
        \A settled \in {Settled(rows)} :
        /\ settled # << >> /\ IsSuffix(Last(settled).text, spoken)
        /\ ~overtaken => Last(settled).text = spoken

\* The timeline tells what the graph did.
TimelineTellsTheRun ==
    \A rows \in {Rows} :
        TextIsShownOnce(rows) /\ ResultsReachTheirCall(rows) /\ FinalIsTheAnswer(rows)
=============================================================================
