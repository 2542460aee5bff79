--------------------------- MODULE MCAgentLifecycle ---------------------------
(* Small instance of AgentLifecycle.  The breath readings sit on both sides *)
(* of the 5% and 20% thresholds of initialBreath = 100, and 101 is the first *)
(* reading whose product with 100 overflows the uint.  The foreign log and   *)
(* NFT were deployed for another lifecycle; the vault refuses ERC-721s.      *)
EXTENDS AgentLifecycle

MCBreathValues == {0, 4, 5, 19, 20, 100, 101}
=============================================================================
