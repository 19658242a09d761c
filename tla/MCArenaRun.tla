----------------------------- MODULE MCArenaRun -----------------------------
(***************************************************************************)
(* Instance of ArenaRun for TLC: two requests of one column each, or one of  *)
(* two columns.                                                              *)
(***************************************************************************)
EXTENDS ArenaRun

CONSTANTS r1, r2, c1, c2

TwoRuns == {r1, r2}
TwoColumns == {c1, c2}
Together == (r1 :> <<c1, c2>>) @@ (r2 :> << >>)
Apart == (r1 :> <<c1>>) @@ (r2 :> <<c2>>)
OnlyTogether == {Together}
Both == {Together, Apart}
=============================================================================
