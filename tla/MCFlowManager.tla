--------------------------- MODULE MCFlowManager ---------------------------
(* Instances of FlowManager for TLC.                                       *)
EXTENDS FlowManager, TLC

CONSTANTS u1, d1, h1,  \* subscriber 1: upstream, downstream, trap-to-host
          u2, d2       \* subscriber 2: upstream, downstream

Plain(sub, type, kind, gem, port) ==
  [sub |-> sub, type |-> type, kind |-> kind, replicate |-> FALSE,
   gems |-> <<gem>>, port |-> port]

Replicated(sub, type, gems, port) ==
  [sub |-> sub, type |-> type, kind |-> "datapath", replicate |-> TRUE,
   gems |-> gems, port |-> port]

Requests == [v \in {u1, d1, h1, u2, d2} |->
  CASE v = u1 -> Plain("s1", "upstream",   "datapath", "g1", 1)
    [] v = d1 -> Plain("s1", "downstream", "datapath", "g1", 1)
    [] v = h1 -> Plain("s1", "upstream",   "trap",     "g1", 1)
    [] v = u2 -> Replicated("s2", "upstream",   <<"g2", "g3">>, 2)
    [] v = d2 -> Replicated("s2", "downstream", <<"g2", "g3">>, 2)]

(* The requests of the flows of an instance.                               *)
ReqOf == [v \in Flows |-> Requests[v]]

(* Once three of the four ids were given back in use, little is promised.  *)
FewTainted == Cardinality(tainted) <= 2

ThreadSymmetry == Permutations(Threads)
=============================================================================
