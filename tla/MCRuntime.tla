------------------------------ MODULE MCRuntime ------------------------------
(***************************************************************************)
(* One instance for the primitives of the runtime package: semaphore, event  *)
(* channel, ask_user channel and circuit breakers. They share no state, so a *)
(* behaviour moves one of them, the subject, and leaves the others at their  *)
(* initial state: the product would only interleave steps that cannot affect *)
(* each other.                                                               *)
(***************************************************************************)
EXTENDS Semaphore, EventChannel, AskUser, Breaker

CONSTANTS a1, a2, a3, a4, a5, c1, c2

VARIABLE subject

MCAcquirers == {a1, a2, a3, a4, a5}
MCReceivers == {c1, c2}

runtimeVars == <<subject, vars, channelVars, askVars, breakerVars>>

RuntimeInit ==
    /\ subject \in {"semaphore", "channel", "ask", "breaker"}
    /\ Init /\ ChannelInit /\ AskInit /\ BreakerInit

SemaphoreStep == subject = "semaphore" /\ Next
                 /\ UNCHANGED <<subject, channelVars, askVars, breakerVars>>
ChannelStep == subject = "channel" /\ ChannelNext
               /\ UNCHANGED <<subject, vars, askVars, breakerVars>>
AskStep == subject = "ask" /\ AskNext /\ UNCHANGED <<subject, vars, channelVars, breakerVars>>
BreakerStep == subject = "breaker" /\ BreakerNext /\ UNCHANGED <<subject, vars, channelVars, askVars>>

RuntimeNext == SemaphoreStep \/ ChannelStep \/ AskStep \/ BreakerStep

\* Every subject has the fairness of its own specification. Its steps leave the other
\* subjects alone, so they are also the weakly fair steps of the whole.
RuntimeSpec ==
    /\ RuntimeInit /\ [][RuntimeNext]_runtimeVars
    /\ \A a \in Acquirers : WF_runtimeVars(Resume(a) /\ SemaphoreStep)
                           /\ WF_runtimeVars(Release(a) /\ SemaphoreStep)
    /\ \A c \in Receivers : WF_runtimeVars(Expire(c) /\ ChannelStep)
                           /\ WF_runtimeVars(Return(c) /\ ChannelStep)
    /\ WF_runtimeVars(Deadlines /\ AskStep)

RuntimeTypeOK == TypeOK /\ ChannelTypeOK /\ AskTypeOK /\ BreakerTypeOK

\* Whoever waits, for a permit, an item or an answer, is let go.
EveryWaitEnds == EveryWaiterSettles /\ ReceiveReturns /\ EveryAskEnds
=============================================================================
