------------------------ MODULE MCIncarnationSupervisor ------------------------
(* Small instance of IncarnationSupervisor: the plain start and the         *)
(* reincarnating one.                                                       *)
EXTENDS IncarnationSupervisor

MCModes == BOOLEAN
MCReincarnating == {TRUE}
=============================================================================
