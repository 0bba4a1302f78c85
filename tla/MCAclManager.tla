---------------------------- MODULE MCAclManager ----------------------------
(* Instances of AclManager for TLC.                                        *)
EXTENDS AclManager, TLC

CONSTANTS f1, f2, f3

EapOn(vid, pon, gem) ==
  [ether |-> Eap, proto |-> 0, src |-> 0, dst |-> 0, vid |-> vid,
   dir |-> "upstream", intf |-> pon, gem |-> gem]

LldpOnNni ==
  [ether |-> Lldp, proto |-> 0, src |-> 0, dst |-> 0, vid |-> 0,
   dir |-> "downstream", intf |-> 0, gem |-> 0]

(* Two GEM ports and two VLANs of one PON, and the uplink.                 *)
Few == {EapOn(10, 0, 1), EapOn(10, 0, 2), EapOn(20, 0, 1), LldpOnNni}

(* Two PONs.                                                               *)
Ponwise == {EapOn(10, 0, 1), EapOn(10, 1, 1), EapOn(20, 0, 1), LldpOnNni}

FlowSymmetry == Permutations(FlowIds)
=============================================================================
