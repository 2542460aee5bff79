-------------------------- MODULE MCDeathWatchStream --------------------------
(* Two thresholds, readings below both, between them and above both, so that *)
(* one reading may cross one or both; two frames and one restart of it.      *)
EXTENDS DeathWatchStream

MCThresholds == <<10, 50>>
MCLevels == {5, 30, 60}

=============================================================================
