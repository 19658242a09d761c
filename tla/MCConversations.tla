---------------------------- MODULE MCConversations ----------------------------
(***************************************************************************)
(* One instance for what keeps a conversation and what shows it: the durable *)
(* threads of the server with the workspaces they pin, and the builder page  *)
(* with its chat. They share no state, so a behaviour moves one of them, the *)
(* subject, and leaves the other at its initial state.                       *)
(***************************************************************************)
EXTENDS MCThreadWorkspaces, BuilderPage

VARIABLE subject  \* "threads" or "page"

conversationsVars == <<subject, vars, builderPageVars>>

ConversationsInit == subject \in {"threads", "page"} /\ Init /\ BuilderPageInit

ThreadStep == subject = "threads" /\ Next /\ UNCHANGED <<subject, builderPageVars>>
PageStep == subject = "page" /\ BuilderPageNext /\ UNCHANGED <<subject, vars>>
ConversationsNext == ThreadStep \/ PageStep

ConversationsSpec == ConversationsInit /\ [][ConversationsNext]_conversationsVars

ConversationsTypeOK == IF subject = "threads" THEN TypeOK ELSE BuilderPageTypeOK
=============================================================================
