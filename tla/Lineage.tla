-------------------------------- MODULE Lineage --------------------------------
(***************************************************************************)
(* What a lineage of incarnations promises: life n + 1 begins only once    *)
(* life n has died, and no life is skipped.                                *)
(***************************************************************************)
EXTENDS Integers

VARIABLES
  life,  \* the latest life begun, -1 before the first
  dead   \* the lives that have died

Init == life = -1 /\ dead = {}

Begin ==
  /\ life = -1 \/ life \in dead
  /\ life' = life + 1
  /\ UNCHANGED dead

Die ==
  /\ life # -1 /\ life \notin dead
  /\ dead' = dead \cup {life}
  /\ UNCHANGED life

Next == Begin \/ Die

Spec == Init /\ [][Next]_<<life, dead>>
=============================================================================
