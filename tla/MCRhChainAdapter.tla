--------------------------- MODULE MCRhChainAdapter ---------------------------
(* Small instance of RhChainAdapter: three bets of nothing (a PnL that       *)
(* rounds to no wei) or two, on a breath that two losses exhaust and a gain  *)
(* of two brings to the cap.                                                 *)
EXTENDS RhChainAdapter

MCAmounts == {0, 2}
=============================================================================
