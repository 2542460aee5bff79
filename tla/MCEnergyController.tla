-------------------------- MODULE MCEnergyController --------------------------
(* Small instance of EnergyController: two owners, two signers (so that the *)
(* signer can be rotated and rotated back), two nonces, one linkable       *)
(* manager, and a three-unit uint.                                          *)
EXTENDS EnergyController

MCAmounts == 0..3
=============================================================================
