---------------------------- MODULE MCBuilderTurn ----------------------------
(***************************************************************************)
(* Instance of BuilderTurn for TLC, with two scenarios: a long one of three  *)
(* requests whose drivers emit nothing and whose session is not swapped, and *)
(* a varied one of two requests with hot-swaps and streamed events.          *)
(***************************************************************************)
EXTENDS BuilderTurn

VARIABLE scenario
mcVars == <<scenario, vars>>

MCInit ==
    /\ Init /\ scenario \in {"long", "varied"}
    /\ scenario = "varied" => kind[3] = "chat"
MCNext ==
    /\ Next /\ UNCHANGED scenario
    /\ scenario = "long" => composition' = composition /\ steps' = steps
    /\ scenario = "varied" => pc'[3] = "idle"

\* A pump that may emit may also end, so the scenarios keep the fairness.
MCSpec == MCInit /\ [][MCNext]_mcVars /\ Fairness
=============================================================================
