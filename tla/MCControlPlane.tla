---------------------------- MODULE MCControlPlane ----------------------------
(* Two runs, one proposal of either kind, and two upsets of any sort.  A       *)
(* second proposal multiplies the states by four and adds no interleaving the  *)
(* properties tell apart.                                                      *)
EXTENDS ControlPlane

================================================================================
