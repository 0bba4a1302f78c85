---------------------------- MODULE MCOltDevice ----------------------------
(* Instances of OltDevice for TLC.                                         *)
EXTENDS OltDevice, TLC
=============================================================================
