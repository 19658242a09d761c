--------------------------- MODULE ContextPipeline ---------------------------
(***************************************************************************)
(* harness/src/context: what the model is sent of a transcript. A strategy    *)
(* cuts the transcript to size, and the tail that all strategies share        *)
(* repairs the pairs of tool calls and results, flattens system messages and  *)
(* anchors the task. The transcript is the one the drivers build: the system  *)
(* prompt, replayed turns, the question, then model turns with tool results   *)
(* and, in some drivers, redirects in between.                               *)
(* A message is known by its position; a text is its size.                    *)
(***************************************************************************)
EXTENDS Integers, Sequences, SequencesExt, FiniteSetsExt

CONSTANTS MaxLength,    \* bound: messages of a transcript
          MaxBatch,     \* bound: tool calls of one model turn
          Sizes,        \* sizes of a message
          Window,       \* windowSize
          KeepTurns,    \* tokenBudgetKeepTurns
          TailBudget,   \* toolTailBudgetChars
          CharBudget,   \* tokenBudgetChars
          TokenBudget,  \* budgetTokens
          CompactTarget \* compactTargetTokens

ASSUME ContextAssumption ==
    /\ {MaxLength, MaxBatch, Window, KeepTurns, TailBudget, CompactTarget} \subseteq Nat \ {0}
    /\ Sizes \subseteq Nat \ {0} /\ {CharBudget, TokenBudget} \subseteq Nat

VARIABLES
    transcript, \* the messages so far
    owed,       \* the calls of the last model turn that have no result yet
    task        \* the position of the question of this run, 0 before it

contextVars == <<transcript, owed, task>>

\* A message: where it stands in the transcript, or 0 for one the pipeline adds; the ids
\* it calls; the id it answers.
NoCall == <<0, 0>>
Entry(at, role, size, calls, answers) ==
    [at |-> at, role |-> role, size |-> size, calls |-> calls, answers |-> answers]
Note == Entry(0, "system", 0, {}, NoCall)         \* a summary, a ledger or a checkpoint
Retrieved == Entry(0, "user", 0, {}, NoCall)      \* the fenced snippets

IsTool(m) == m.role = "tool"

\* The messages at these places, in their order, and what they add up to.
Chosen(s, places) ==
    LET upTo[n \in 0 .. Len(s)] ==
          IF n = 0 THEN << >>
          ELSE IF n \in places THEN Append(upTo[n - 1], s[n]) ELSE upTo[n - 1]
    IN upTo[Len(s)]
Weight(s, places) ==
    LET upTo[n \in 0 .. Len(s)] ==
          IF n = 0 THEN 0 ELSE upTo[n - 1] + (IF n \in places THEN s[n].size ELSE 0)
    IN upTo[Len(s)]
Volume(s) == Weight(s, DOMAIN s)

Strategies == {"sliding", "summary", "vector", "hybrid", "tool_tail", "token_budget", "budget",
               "checkpoint"}

-----------------------------------------------------------------------------
(* Strategies, over the messages behind the leading system messages.        *)

\* The result of a tool is never the first message: its call has gone.
WithoutLeadingTools(s) ==
    LET owned == {i \in DOMAIN s : ~IsTool(s[i])} IN
    IF owned = {} THEN << >> ELSE SubSeq(s, Min(owned), Len(s))

\* trimPreservingToolPairs and trimWindow: the last messages, and before them the rest of
\* a batch that the cut would tear.
Windowed(s) ==
    IF Len(s) <= Window THEN s
    ELSE LET cut == Max({i \in 1 .. Len(s) - Window + 1 : i = 1 \/ ~IsTool(s[i])})
         IN WithoutLeadingTools(SubSeq(s, cut, Len(s)))

\* The snippets that the last user message retrieves, behind everything else.
WithSnippets(s) == Append(s, Retrieved)

Summarized(s) == IF Len(s) > Window THEN <<Note>> \o Windowed(s) ELSE s

Pruned(m) == IF IsTool(m) /\ m.size > TailBudget THEN [m EXCEPT !.size = TailBudget] ELSE m
TailPruned(s) == LET kept == Windowed(s) IN [i \in DOMAIN kept |-> Pruned(kept[i])]

\* The calls of a list of messages, and those that have their result there.
Answered(s) == {m.answers : m \in {n \in ToSet(s) : IsTool(n)}}
Called(s) == UNION {m.calls : m \in ToSet(s)}
\* Slip: only the results that nobody asked for go.
Paired_OneWay(s) == Chosen(s, {i \in DOMAIN s : IsTool(s[i]) => s[i].answers \in Called(s)})

\* stripUnpairedToolTurns: calls without a result and results without a call go, and with
\* its calls a model turn that says nothing else.
Paired(s) ==
    LET shell(m) == m.calls # {} /\ m.calls \cap Answered(s) = {} /\ m.size = 0
        owned(m) == IsTool(m) => m.answers \in Called(s)
        kept == Chosen(s, {i \in DOMAIN s : ~shell(s[i]) /\ owned(s[i])})
    IN [i \in DOMAIN kept |-> [kept[i] EXCEPT !.calls = @ \cap Answered(s)]]

\* applyTokenBudget: of the messages that are not pinned, tool results go first, then model
\* turns, then user turns, the oldest first, while the budget is exceeded.
Priority(m) == CASE IsTool(m) -> 3 [] m.role = "assistant" -> 2 [] OTHER -> 1
GoesBefore(s, i, j) ==
    Priority(s[i]) > Priority(s[j]) \/ (Priority(s[i]) = Priority(s[j]) /\ i < j)
Unpinned(s) == 1 .. Len(s) - KeepTurns
Sacrificed(s) ==
    {i \in Unpinned(s) :
        Volume(s) - Weight(s, {j \in Unpinned(s) : GoesBefore(s, j, i)}) > CharBudget}
Without(s, gone) == Chosen(s, DOMAIN s \ gone)
TokenBudgeted(s) ==
    IF Volume(s) <= CharBudget THEN s
    ELSE Paired(<<Note>> \o WithoutLeadingTools(Without(s, Sacrificed(s))))

\* allocateBudget for the two sources with a demand. What sources of a higher priority do
\* not use cascades down to tools (6 of 38 shares), and then to history (5).
Share(weight) == (TokenBudget * weight) \div 38
Residue == TokenBudget - (Share(10) + Share(8) + Share(6) + Share(5) + Share(4) + Share(3) + Share(2))
Demand(s, tools) == Weight(s, {i \in DOMAIN s : IsTool(s[i]) = tools})
ForTools == Residue + Share(10) + Share(8) + Share(6)
GrantedTools(s) == Min({Demand(s, TRUE), ForTools})
GrantedHistory(s) == Min({Demand(s, FALSE), Share(5) + ForTools - GrantedTools(s)})

\* applySourceBudget: from the newest to the oldest, what its source can still pay for.
Afforded(s) ==
    LET grant(i) == IF IsTool(s[i]) THEN GrantedTools(s) ELSE GrantedHistory(s)
        spent(kept, i) == Weight(s, {j \in kept : IsTool(s[j]) = IsTool(s[i])})
        newest[n \in 0 .. Len(s)] ==
          IF n = 0 THEN {}
          ELSE LET kept == newest[n - 1]
                   i == Len(s) + 1 - n
               IN IF spent(kept, i) + s[i].size <= grant(i) THEN kept \cup {i} ELSE kept
    IN Chosen(s, newest[Len(s)])
InDeficit(s) == GrantedTools(s) < Demand(s, TRUE) \/ GrantedHistory(s) < Demand(s, FALSE)
SourceBudgeted(s) == IF InDeficit(s) THEN Append(Paired(Afforded(s)), Note) ELSE s

\* selectSpan: it holds enough, starts with no tool result and ends before none, and spares
\* a user turn at the very end. All frames weigh the same, so the shortest span is the
\* lightest; of these the oldest is taken.
Span(s, goal) ==
    {span \in (DOMAIN s) \X (DOMAIN s) :
        LET a == span[1]
            b == span[2]
        IN  /\ a <= b /\ ~IsTool(s[a]) /\ (b = Len(s) \/ ~IsTool(s[b + 1]))
            /\ Volume(SubSeq(s, a, b)) >= goal
            /\ b = Len(s) => s[b].role # "user"}
Length(span) == span[2] - span[1]
Best(spans) ==
    CHOOSE x \in spans : \A y \in spans :
        Length(x) < Length(y) \/ (Length(x) = Length(y) /\ x[1] <= y[1])

\* compactWithDetails: the span makes room for the note that tells of it.
Checkpointed(s) ==
    LET spans == Span(s, Min({Volume(s) - CompactTarget, CompactTarget})) IN
    IF Volume(s) <= CompactTarget \/ spans = {} THEN s
    ELSE LET best == Best(spans)
         IN SubSeq(s, 1, best[1] - 1) \o <<Note>> \o SubSeq(s, best[2] + 1, Len(s))

\* prepareMessagesForLlm behind the leading system messages.
Cut(s, strategy) ==
    CASE strategy = "sliding" -> Windowed(s)
      [] strategy = "summary" -> Summarized(s)
      [] strategy = "vector" -> WithSnippets(Windowed(s))
      [] strategy = "hybrid" -> WithSnippets(Summarized(s))
      [] strategy = "tool_tail" -> TailPruned(s)
      [] strategy = "token_budget" -> TokenBudgeted(s)
      [] strategy = "budget" -> SourceBudgeted(s)
      [] strategy = "checkpoint" -> Checkpointed(s)

-----------------------------------------------------------------------------
(* The tail of the pipeline.                                                *)

\* flattenSystemMessagesForProvider: the leading system messages become one, a later one
\* a user message.
LeadingSystems(s) == Max({n \in 0 .. Len(s) : \A i \in 1 .. n : s[i].role = "system"})
Flattened(s) ==
    LET n == LeadingSystems(s) IN
    SubSeq(s, 1, Min({n, 1})) \o
    [i \in 1 .. Len(s) - n |-> IF s[n + i].role = "system" THEN [s[n + i] EXCEPT !.role = "user"]
                               ELSE s[n + i]]

\* The system prompt is the first message and stays it.
Repaired(strategy) == Paired(<<Head(transcript)>> \o Cut(Tail(transcript), strategy))
Prepared(strategy) == Flattened(Repaired(strategy))

-----------------------------------------------------------------------------
(* The transcript.                                                          *)

At == Len(transcript) + 1
Ready == task # 0 /\ owed = << >>

\* renderHistoryForMode in mode full: a replayed turn with its rounds; an empty answer is
\* left out.
ReplayTurn(rounds, size, says) ==
    /\ task = 0
    /\ LET shell == IF rounds = 0 THEN << >>
                    ELSE <<Entry(At + 1, "assistant", 0, {<<At, k>> : k \in 1 .. rounds}, NoCall)>> \o
                         [k \in 1 .. rounds |-> Entry(At + 1 + k, "tool", size, {}, <<At, k>>)]
           said == <<Entry(At, "user", size, {}, NoCall)>> \o shell
       IN transcript' = transcript \o said \o
            (IF says THEN <<Entry(At + Len(said), "assistant", size, {}, NoCall)>> ELSE << >>)
    /\ Len(transcript') <= MaxLength - 1
    /\ UNCHANGED <<owed, task>>

\* buildInitialMessages ends with the question.
AskTask(size) ==
    /\ task = 0 /\ Len(transcript) < MaxLength
    /\ transcript' = Append(transcript, Entry(At, "user", size, {}, NoCall))
    /\ task' = At /\ UNCHANGED owed

\* A model turn with its calls ...
ModelTurn(batch, size) ==
    /\ Ready /\ Len(transcript) + batch < MaxLength
    /\ size = 0 => batch > 0
    /\ transcript' = Append(transcript,
         Entry(At, "assistant", size, {<<At, k>> : k \in 1 .. batch}, NoCall))
    /\ owed' = [k \in 1 .. batch |-> <<At, k>>]
    /\ UNCHANGED task

\* ... and their results, in the order of the calls.
ToolResult(size) ==
    /\ owed # << >>
    /\ transcript' = Append(transcript, Entry(At, "tool", size, {}, Head(owed)))
    /\ owed' = Tail(owed) /\ UNCHANGED task

\* The redirect of a critic or a new plan, put behind a turn and its results.
Nudge(size) ==
    /\ Ready /\ Len(transcript) < MaxLength /\ Last(transcript).role # "user"
    /\ transcript' = Append(transcript, Entry(At, "user", size, {}, NoCall))
    /\ UNCHANGED <<owed, task>>

ContextInit ==
    /\ transcript = <<Entry(1, "system", 0, {}, NoCall)>> /\ owed = << >> /\ task = 0

ContextNext ==
    \/ \E batch \in 0 .. MaxBatch, size \in Sizes \cup {0} : ModelTurn(batch, size)
    \/ \E batch \in 0 .. MaxBatch, size \in Sizes, says \in BOOLEAN : ReplayTurn(batch, size, says)
    \/ \E size \in Sizes : AskTask(size) \/ ToolResult(size) \/ Nudge(size)

ContextSpec == ContextInit /\ [][ContextNext]_contextVars

-----------------------------------------------------------------------------
ContextTypeOK ==
    /\ \A i \in DOMAIN transcript :
           transcript[i].at = i /\ transcript[i].size \in Sizes \cup {0}
    /\ Len(transcript) <= MaxLength /\ task \in 0 .. Len(transcript)
    /\ Ready \/ task = 0 \/ ToSet(owed) \subseteq Called(transcript) \ Answered(transcript)

\* The results that stand right behind a model turn.
Behind(s, i) ==
    {s[j].answers : j \in {k \in DOMAIN s : k > i /\ \A n \in i + 1 .. k : IsTool(s[n])}}

\* What every provider insists on: each call of a model turn has its result right behind
\* that turn and each result stands behind the turn that asked for it, no strategy, no cut
\* and no note notwithstanding; one system message, at the front.
WireShape(s) ==
    /\ \A i \in DOMAIN s : s[i].role = "assistant" => Behind(s, i) = s[i].calls
    /\ \A i \in DOMAIN s : IsTool(s[i]) => s[i].answers \in Called(SubSeq(s, 1, i - 1))
    /\ \A i \in DOMAIN s : (s[i].role = "system") = (i = 1)

Sent(s) == {s[i].at : i \in DOMAIN s}
InOrder(s) ==
    \A i, j \in DOMAIN s :
        i < j /\ s[i].at # 0 /\ s[j].at # 0 => s[i].at < s[j].at

\* The strategies that only know a window cut no message of it; the others add a note to
\* whatever they cut, and cut on until the budget holds or only pinned messages are left.
LossIsTold(s, strategy) ==
    LET cut == DOMAIN transcript \ Sent(s) IN
    /\ strategy \in {"sliding", "summary", "vector", "hybrid", "tool_tail"} =>
           \A i \in cut : i <= Len(transcript) - Window
    /\ strategy \notin {"sliding", "vector", "tool_tail"} /\ cut # {} => Note \in ToSet(s)
    /\ strategy = "budget" /\ cut # {} => Volume(s) <= TokenBudget
    /\ strategy = "token_budget" /\ cut # {} =>
           Volume(s) <= CharBudget \/ \A i \in Sent(s) : i > Len(transcript) - KeepTurns \/ i \in {0, 1}

\* What is sent is a provider's transcript and the caller's, with its losses told.
PreparedIsSound ==
    Ready => \A strategy \in Strategies :
        WireShape(Prepared(strategy)) /\ InOrder(Prepared(strategy))
        /\ LossIsTold(Repaired(strategy), strategy)
=============================================================================
