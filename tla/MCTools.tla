------------------------------- MODULE MCTools -------------------------------
(***************************************************************************)
(* One instance for what a column's agent works with: the MCP client, the    *)
(* persistent shell, the background jobs, the one-shot process, the          *)
(* verification loop around the driver, the bridge to a framework, the       *)
(* pipeline that cuts a transcript to size and the drivers with a loop of    *)
(* their own. They share no state, so a behaviour moves one of them, the     *)
(* subject, and leaves the others at their initial state: the product would  *)
(* only interleave steps that cannot affect each other, and a property is    *)
(* read where its subject moves.                                             *)
(***************************************************************************)
EXTENDS McpClient, BashSession, BackgroundJobs, ProcessRunner, HarnessLoop, FrameworkBridge,
        ContextPipeline, DriverLoops

VARIABLE subject

toolsVars == <<subject, mcpVars, shellVars, jobVars, processVars, harnessVars,
               bridgeVars, contextVars, driverVars>>

ToolsInit ==
    /\ subject \in {"mcp", "shell", "jobs", "process", "harness", "bridge", "context", "loop"}
    /\ McpInit /\ ShellInit /\ JobsInit /\ ProcessInit /\ HarnessInit /\ BridgeInit
    /\ ContextInit /\ DriverInit
    /\ subject # "harness" => level = "verify"
    /\ subject # "bridge" => signal = "clear" /\ ~watched
    /\ subject # "loop" =>
         profile = [driver |-> "native", mode |-> "react", budget |-> 0]

\* A step of this subject; the others are left alone.
Mcp(Act) == subject = "mcp" /\ Act
    /\ UNCHANGED <<subject, shellVars, jobVars, processVars, harnessVars,
                   bridgeVars, contextVars, driverVars>>
Shell(Act) == subject = "shell" /\ Act
    /\ UNCHANGED <<subject, mcpVars, jobVars, processVars, harnessVars,
                   bridgeVars, contextVars, driverVars>>
Job(Act) == subject = "jobs" /\ Act
    /\ UNCHANGED <<subject, mcpVars, shellVars, processVars, harnessVars,
                   bridgeVars, contextVars, driverVars>>
Process(Act) == subject = "process" /\ Act
    /\ UNCHANGED <<subject, mcpVars, shellVars, jobVars, harnessVars,
                   bridgeVars, contextVars, driverVars>>
Harness(Act) == subject = "harness" /\ Act
    /\ UNCHANGED <<subject, mcpVars, shellVars, jobVars, processVars,
                   bridgeVars, contextVars, driverVars>>
Bridge(Act) == subject = "bridge" /\ Act
    /\ UNCHANGED <<subject, mcpVars, shellVars, jobVars, processVars,
                   harnessVars, contextVars, driverVars>>
Context(Act) == subject = "context" /\ Act
    /\ UNCHANGED <<subject, mcpVars, shellVars, jobVars, processVars,
                   harnessVars, bridgeVars, driverVars>>
Loop(Act) == subject = "loop" /\ Act
    /\ UNCHANGED <<subject, mcpVars, shellVars, jobVars, processVars,
                   harnessVars, bridgeVars, contextVars>>

McpStep == Mcp(McpNext)
ShellStep == Shell(ShellNext)
JobStep == Job(JobsNext)
ProcessStep == Process(ProcessNext)
HarnessStep == Harness(HarnessNext)
BridgeStep == Bridge(BridgeNext)
ContextStep == Context(ContextNext)
LoopStep == Loop(DriverNext)
ToolsNext ==
    \/ McpStep \/ ShellStep \/ JobStep \/ ProcessStep
    \/ HarnessStep \/ BridgeStep \/ ContextStep \/ LoopStep

\* Every subject has the fairness of its own specification.
ToolsSpec ==
    /\ ToolsInit /\ [][ToolsNext]_toolsVars
    /\ WF_toolsVars(Mcp(McpRuns))
    /\ WF_toolsVars(Shell(ShellRuns))
    /\ WF_toolsVars(Job(JobEnds))
    /\ WF_toolsVars(Process(ProcessRuns))
    /\ WF_toolsVars(Bridge(BridgeReads)) /\ WF_toolsVars(Bridge(ForceKill))
    /\ WF_toolsVars(Bridge(KilledCloses))

ToolsTypeOK ==
    CASE subject = "mcp" -> McpTypeOK
      [] subject = "shell" -> ShellTypeOK
      [] subject = "jobs" -> JobsTypeOK
      [] subject = "process" -> ProcessTypeOK
      [] subject = "harness" -> HarnessTypeOK
      [] subject = "bridge" -> BridgeTypeOK
      [] subject = "context" -> ContextTypeOK
      [] subject = "loop" -> DriverTypeOK

\* Output of a shell or a job is told to the one who asked for it, in order and at most
\* once, and what is left out is said to be (see BashSession and BackgroundJobs).
OutputIsToldOnce ==
    /\ subject = "shell" => SessionsStayApart
    /\ subject = "jobs" => JobsTellAndEnd

\* What a column is told of what ran outside the server, a command or a framework, is
\* what happened to it (see ProcessRunner and FrameworkBridge).
ChildrenTellTruth ==
    /\ subject = "process" => OutcomeTellsTruth
    /\ subject = "bridge" => BridgeTellsTheRun

\* Whatever a strategy, a budget or a repair leaves of a transcript is a transcript that
\* the provider accepts and that says what it dropped (see ContextPipeline).
CutsStaySound == subject = "context" => PreparedIsSound

\* A driver stops calling a model that asks for nothing, mounts the best plan and tells
\* the answer of the majority, and its attempts under verification come out as one run
\* (see DriverLoops and HarnessLoop).
ColumnsEndWell ==
    /\ subject = "loop" => LoopsEndWell
    /\ subject = "harness" => AttemptsTellOneStory

\* Somebody waits for a tool: a call of the MCP server, a send, a command, the end of
\* a job that no registry lists any more, or a framework session that was killed or ended.
ToolWaits ==
    \/ pending # {}
    \/ \E s \in 1 .. Sends : Busy(s)
    \/ child \in {"runs", "exited"} /\ ~Settled
    \/ \E j \in 1 .. Jobs : Alive(j) /\ ~job[j].listed
    \/ BridgeIsDue

\* No tool call waits for ever, whatever the server, the command or the process does:
\* there are finitely many calls, so it is enough that again and again nobody waits.
EveryToolEnds == []<>~ToolWaits
=============================================================================
