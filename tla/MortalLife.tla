------------------------------ MODULE MortalLife ------------------------------
(***************************************************************************)
(* What the lifecycle contract promises to an outside observer: a life     *)
(* that only falls, a death that happens once, and at most one tombstone,  *)
(* cut in the very step of the death or never.                             *)
(***************************************************************************)
EXTENDS Integers

VARIABLES stage, stones

vars == <<stage, stones>>

Dead == 3

Init == stage = 0 /\ stones = 0

\* From one stage short of death to a deeper one; stages may be skipped.
Fall ==
  /\ stage' \in (stage + 1) .. (Dead - 1)
  /\ UNCHANGED stones

Death ==
  /\ stage < Dead
  /\ stage' = Dead
  /\ stones' \in {0, 1}

Next == Fall \/ Death

Spec == Init /\ [][Next]_vars
=============================================================================
