-------------------------- MODULE MCTrafficManager --------------------------
(* Instances of TrafficManager for TLC.                                    *)
EXTENDS TrafficManager, TLC

CONSTANTS s1, s2

(* One GEM port; two, with other QMPs per direction; two, sharing a QMP.   *)
TechProfileQueues == "one" :> <<1>> @@ "two" :> <<0, 1>> @@ "alike" :> <<0, 1>>

Sided(u, d) == "upstream" :> u @@ "downstream" :> d

TechProfileMaps ==
  "one" :> Sided("m1", "m1") @@ "two" :> Sided("m1", "m2") @@ "alike" :> Sided("m1", "m1")

Pair(a, b) == s1 :> {a} @@ s2 :> {b}

(* A queue without and queues with a QMP; equal QMPs; more QMPs than ids.  *)
Mixed    == {Pair("one", "two"), Pair("two", "one")}
Shared   == {Pair("alike", "alike")}
Crowded  == {Pair("two", "alike"), Pair("alike", "two")}
Pairs    == Mixed \cup Shared \cup Crowded
OneQueue == {Pair("one", "one")}

Symmetry == Permutations(Subs)

(* After a race nothing is promised about QMPs.  The crowded pairs are     *)
(* explored without refusals; the shared ones, after a refusal, without    *)
(* making and clearing schedulers, which the mixed ones do.                *)
Bound ==
  /\ ~raced
  /\ service \in Crowded => faults = 0
  /\ service \in Shared /\ faults > 0 =>
       \A s \in Subs : pc[s] \notin {"setSched", "clearSched", "freeSched"}
=============================================================================
