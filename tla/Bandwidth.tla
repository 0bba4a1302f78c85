----------------------------- MODULE Bandwidth -----------------------------
(***************************************************************************)
(* What CreateSched makes of the bandwidths of an upstream scheduler.      *)
(*                                                                         *)
(* A tech profile gives the maximum (pir), assured (cir) and fixed (gir)   *)
(* rate in kbit/s.  They are converted to bytes per second in 32 bits,     *)
(* rounded down to the granularity of the PON technology, checked against  *)
(* the kind of additional bandwidth, and become the SLA of an alloc object.*)
(* The conversion of a rate and the sum of two may overflow; the sum is    *)
(* rounded as a whole, so that rounding and checking do not commute.       *)
(*                                                                         *)
(* Data abstracted: the fields of the SLA that are constants; which error. *)
(***************************************************************************)
EXTENDS Integers

CONSTANTS
  Factor,       \* bytes/s per kbit/s (125 in the code)
  Granularity,  \* in bytes/s (16000 or 32000 in the code)
  Half,         \* an int is from -Half to Half - 1 (2^31 in the code)
  MaxRate       \* bound: rates in kbit/s

ASSUME BandwidthAssumption ==
  /\ {Factor, Granularity, Half} \subseteq Nat \ {0}
  /\ MaxRate \in Nat

VARIABLES
  request,  \* pir, cir, gir, additional
  sla       \* what BAL is asked for: "none" yet, "refused", or the SLA

vars == <<request, sla>>

Kinds    == {"BestEffort", "NA", "None", "other"}
Requests == [pir : 0 .. MaxRate, cir : 0 .. MaxRate, gir : 0 .. MaxRate, additional : Kinds]

Init ==
  /\ request \in Requests
  /\ sla = [answer |-> "none"]

-----------------------------------------------------------------------------
(* Arithmetic.                                                             *)

(* An unsigned or wrapping value stored in an int.                         *)
AsInt(x) ==
  LET u == x % (2 * Half)
  IN  IF u >= Half THEN u - 2 * Half ELSE u

(* Mutant: to the nearest multiple.                                        *)
Rounded_ToNearest(b) == ((b + Granularity \div 2) \div Granularity) * Granularity

(* b - b % granularity, where % has the sign of b.                         *)
Rounded(b) ==
  IF b >= 0 THEN b - (b % Granularity) ELSE b + ((0 - b) % Granularity)

Bytes(kbps) == AsInt(kbps * Factor)

Guaranteed(cir, gir) == Rounded(AsInt(Bytes(cir) + Bytes(gir)))

-----------------------------------------------------------------------------
(* Mutant: only the assured rate is compared with the maximum.             *)
Accepts_AssuredOnly(r, max, guaranteed) ==
  /\ max # 0 /\ max >= Rounded(Bytes(r.cir))
  /\ \/ r.additional = "BestEffort" /\ max # guaranteed
     \/ r.additional = "NA" /\ guaranteed # 0 /\ max # guaranteed
     \/ r.additional = "None" /\ max >= guaranteed

Accepts(r, max, guaranteed) ==
  /\ max # 0 /\ max >= guaranteed
  /\ \/ r.additional = "BestEffort" /\ max # guaranteed
     \/ r.additional = "NA" /\ guaranteed # 0 /\ max # guaranteed
     \/ r.additional = "None" /\ max = guaranteed

AllocType(max, fixed) == IF max = fixed THEN "NONE" ELSE "NSR"

CreateAlloc ==
  LET max        == Rounded(Bytes(request.pir))
      fixed      == Rounded(Bytes(request.gir))
      guaranteed == Guaranteed(request.cir, request.gir)
  IN  /\ sla.answer = "none"
      /\ sla' = IF Accepts(request, max, guaranteed)
                THEN [answer |-> "set", maximum_bw |-> max, guaranteed_bw |-> guaranteed,
                      cbr_nrt_bw |-> fixed, alloc_type |-> AllocType(max, fixed)]
                ELSE [answer |-> "refused"]
      /\ UNCHANGED request

Next == CreateAlloc

Spec == Init /\ [][Next]_vars

-----------------------------------------------------------------------------
(* Properties.                                                             *)

IsSet == sla.answer = "set"

(***************************************************************************)
(* The rates are within what an int holds, in bytes/s: for 32 bits, up to  *)
(* 17 Gbit/s.                                                              *)
(***************************************************************************)
Fits ==
  /\ request.pir * Factor < Half
  /\ (request.cir + request.gir) * Factor < Half

TypeOK ==
  /\ request \in Requests
  /\ sla.answer \in {"none", "refused", "set"}
  /\ IsSet => \A f \in {"maximum_bw", "guaranteed_bw", "cbr_nrt_bw"} :
              sla[f] \in -Half .. Half - 1

(***************************************************************************)
(* The SLA is in order: fixed within guaranteed within maximum.  Only the  *)
(* comparison of the last two is made, after rounding the sum as a whole.  *)
(***************************************************************************)
SlaIsOrdered ==
  IsSet /\ Fits =>
    /\ 0 <= sla.cbr_nrt_bw /\ sla.cbr_nrt_bw <= sla.guaranteed_bw
    /\ sla.guaranteed_bw <= sla.maximum_bw

(***************************************************************************)
(* No one gets more than was asked for, nor less by a granule or more, and *)
(* every rate is a multiple of the granularity.                            *)
(***************************************************************************)
Grants(asked, got) ==
  got <= asked /\ asked - got < Granularity /\ got % Granularity = 0

SlaIsWhatWasAsked ==
  IsSet /\ Fits =>
    /\ Grants(request.pir * Factor, sla.maximum_bw)
    /\ Grants((request.cir + request.gir) * Factor, sla.guaranteed_bw)
    /\ Grants(request.gir * Factor, sla.cbr_nrt_bw)

=============================================================================
