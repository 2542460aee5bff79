---------------------------- MODULE MCSandboxLife ----------------------------
(* Small instance of SandboxLife: two bets over four ticks.  A loss costs   *)
(* the whole stake, and two of them kill; a win pays more than one loss.    *)
EXTENDS SandboxLife

MCPnls == {-2, 3}
=============================================================================
