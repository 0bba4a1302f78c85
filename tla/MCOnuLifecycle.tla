--------------------------- MODULE MCOnuLifecycle ---------------------------
(* Instances of OnuLifecycle for TLC.                                      *)
EXTENDS OnuLifecycle, TLC
=============================================================================
