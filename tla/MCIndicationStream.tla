------------------------- MODULE MCIndicationStream -------------------------
(* Instances of IndicationStream for TLC.                                  *)
EXTENDS IndicationStream, TLC

Symmetry == Permutations(Streams) \cup Permutations(Raisers)
=============================================================================
