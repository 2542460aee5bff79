---------------------------- MODULE MCLaunchScripts ----------------------------
(* Small instance of LaunchScripts: the operator and the agent he may hand *)
(* the ledger to, one signer, one nonce, two breath amounts, and an agent  *)
(* that asks for Desperate Mode after two ticks, twice if unanswered.      *)
EXTENDS LaunchScripts

MCAmounts == {1, 2}
MCCycles == {1, 2}
=============================================================================
