----------------------------- MODULE TrapTable -----------------------------
(***************************************************************************)
(* What the ACL manager promises: the table of the packets that the OLT    *)
(* sends to the host instead of forwarding them.                           *)
(*                                                                         *)
(* A trap-to-host flow wants the packets of one rule.  As long as it is    *)
(* installed they are trapped, whatever happens to other flows that share  *)
(* hardware rules with it.  Adding a flow traps no packet that is foreign  *)
(* to its rule, but may trap packets of its kin (the same protocol in      *)
(* another VLAN, say).  Removing a flow traps nothing new; what it wanted  *)
(* may stay trapped when the hardware does not let go of it.               *)
(***************************************************************************)
CONSTANTS
  Owners,   \* the flows
  Rules,    \* what a flow may want trapped
  Kin,      \* the pairs <<r, s>> such that whoever wants r may trap s
  None      \* not a rule

VARIABLES
  wanted,   \* wanted[o]: the rule that o wants, None if it wants none
  trapped   \* the rules whose packets are trapped

TypeOK == wanted \in [Owners -> Rules \cup {None}] /\ trapped \subseteq Rules

Init == wanted = [o \in Owners |-> None] /\ trapped = {}

Wanted(w) == {w[o] : o \in Owners} \ {None}

Add(o, r) ==
  /\ r = wanted'[o]
  /\ wanted' = [wanted EXCEPT ![o] = r]
  /\ trapped \cup {r} \subseteq trapped'
  /\ trapped' \ trapped \subseteq {s \in Rules : <<r, s>> \in Kin}

Remove(o) ==
  /\ wanted[o] # None /\ wanted'[o] = None
  /\ wanted' = [wanted EXCEPT ![o] = None]
  /\ trapped' \subseteq trapped
  /\ Wanted(wanted') \subseteq trapped'

Next == \E o \in Owners : Remove(o) \/ \E r \in Rules : Add(o, r)

Spec == Init /\ [][Next]_<<wanted, trapped>>
=============================================================================
