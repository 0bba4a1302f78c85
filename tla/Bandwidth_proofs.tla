-------------------------- MODULE Bandwidth_proofs --------------------------
(***************************************************************************)
(* Theorems about Bandwidth, for every range of an int, granularity and    *)
(* factor of conversion, from BandwidthAssumption alone.                   *)
(***************************************************************************)
EXTENDS Bandwidth, TLAPS

(* Rounding down to a multiple.                                            *)
LEMMA DivMod ==
  ASSUME NEW g \in Nat \ {0}, NEW a \in Nat
  PROVE  /\ a % g \in 0 .. g - 1 /\ a \div g \in Nat
         /\ a - (a % g) = (a \div g) * g
<1>1. a % g \in 0 .. g - 1 /\ a \div g \in Nat  OBVIOUS
<1>2. a - (a % g) = (a \div g) * g  OBVIOUS
<1> QED  BY <1>1, <1>2

LEMMA MultipleMod ==
  ASSUME NEW g \in Nat \ {0}, NEW q \in Nat
  PROVE  (q * g) % g = 0
OBVIOUS

LEMMA RoundingIsMonotone ==
  ASSUME NEW g \in Nat \ {0}, NEW a \in Nat, NEW b \in Nat, a <= b
  PROVE  a - (a % g) <= b - (b % g)
OBVIOUS

(* Products of natural numbers.                                            *)
LEMMA Products ==
  ASSUME NEW f \in Nat, NEW a \in Nat, NEW b \in Nat
  PROVE  a * f \in Nat /\ b * f \in Nat /\ (a + b) * f = a * f + b * f
OBVIOUS

(* A value that an int holds is stored as it is.                           *)
LEMMA AsIntFits ==
  ASSUME NEW x \in Nat, x < Half
  PROVE  AsInt(x) = x
<1>1. Half \in Nat \ {0}  BY BandwidthAssumption
<1>2. x % (2 * Half) = x  BY <1>1
<1> QED  BY <1>1, <1>2 DEF AsInt

(* What is granted of a rate.                                              *)
LEMMA RoundedGrants ==
  ASSUME NEW x \in Nat
  PROVE  Rounded(x) \in Nat /\ Grants(x, Rounded(x))
<1> DEFINE g == Granularity
<1>1. g \in Nat \ {0}  BY BandwidthAssumption
<1>2. Rounded(x) = x - (x % g)  BY DEF Rounded
<1>3. x % g \in 0 .. g - 1 /\ x \div g \in Nat /\ x - (x % g) = (x \div g) * g
  BY <1>1, DivMod
<1>4. ((x \div g) * g) % g = 0  BY <1>1, <1>3, MultipleMod
<1>5. x \div g \in Nat /\ (x \div g) * g \in Nat  BY <1>1, <1>3, Products
<1>6. Rounded(x) <= x /\ x - Rounded(x) < g  BY <1>1, <1>2, <1>3, <1>5
<1>7. Rounded(x) % g = 0  BY <1>2, <1>3, <1>4
<1> QED  BY <1>2, <1>3, <1>5, <1>6, <1>7 DEF Grants

-----------------------------------------------------------------------------
(***************************************************************************)
(* An SLA is computed from the request as it stands, and was accepted.     *)
(***************************************************************************)
Max        == Rounded(Bytes(request.pir))
Fixed      == Rounded(Bytes(request.gir))
Committed  == Guaranteed(request.cir, request.gir)

SlaInv ==
  /\ request \in Requests
  /\ IsSet => /\ sla.maximum_bw = Max /\ sla.guaranteed_bw = Committed
              /\ sla.cbr_nrt_bw = Fixed
              /\ Accepts(request, Max, Committed)

LEMMA InitSla == Init => SlaInv
BY DEF Init, SlaInv, IsSet

LEMMA NextSla == SlaInv /\ [Next]_vars => SlaInv'
<1> SUFFICES ASSUME SlaInv, [Next]_vars  PROVE SlaInv'
  OBVIOUS
<1>1. CASE CreateAlloc
  <2>1. request' = request  BY <1>1 DEF CreateAlloc
  <2>2. Max' = Max /\ Fixed' = Fixed /\ Committed' = Committed
    BY <2>1 DEF Max, Fixed, Committed
  <2>3. CASE Accepts(request, Max, Committed)
    <3>1. sla' = [answer |-> "set", maximum_bw |-> Max, guaranteed_bw |-> Committed,
                  cbr_nrt_bw |-> Fixed, alloc_type |-> AllocType(Max, Fixed)]
      BY <1>1, <2>3 DEF CreateAlloc, Max, Fixed, Committed
    <3> QED  BY <2>1, <2>2, <2>3, <3>1 DEF SlaInv, IsSet
  <2>4. CASE ~Accepts(request, Max, Committed)
    <3>1. sla' = [answer |-> "refused"]
      BY <1>1, <2>4 DEF CreateAlloc, Max, Fixed, Committed
    <3> QED  BY <2>1, <3>1 DEF SlaInv, IsSet
  <2> QED  BY <2>3, <2>4
<1>2. CASE UNCHANGED vars
  BY <1>2 DEF vars, SlaInv, IsSet, Max, Fixed, Committed
<1> QED  BY <1>1, <1>2 DEF Next

(* When the rates fit, nothing wraps.                                      *)
LEMMA FitsFacts ==
  ASSUME request \in Requests, Fits
  PROVE  /\ {request.pir * Factor, request.gir * Factor,
             (request.cir + request.gir) * Factor} \subseteq Nat
         /\ request.gir * Factor <= (request.cir + request.gir) * Factor
         /\ Max = Rounded(request.pir * Factor)
         /\ Fixed = Rounded(request.gir * Factor)
         /\ Committed = Rounded((request.cir + request.gir) * Factor)
<1> DEFINE p == request.pir  c == request.cir  g == request.gir
<1>1. p \in Nat /\ c \in Nat /\ g \in Nat /\ Factor \in Nat /\ Half \in Nat
  BY BandwidthAssumption DEF Requests
<1>2. p * Factor < Half /\ (c + g) * Factor < Half  BY DEF Fits
<1> HIDE DEF p, c, g
<1>3. p * Factor \in Nat /\ c * Factor \in Nat /\ g * Factor \in Nat
      /\ (c + g) * Factor = c * Factor + g * Factor
  BY <1>1, Products
<1>4. c * Factor < Half /\ g * Factor < Half /\ c * Factor + g * Factor < Half
  BY <1>1, <1>2, <1>3
<1>5. Bytes(p) = p * Factor /\ Bytes(c) = c * Factor /\ Bytes(g) = g * Factor
  BY <1>2, <1>3, <1>4, AsIntFits DEF Bytes
<1>6. AsInt(Bytes(c) + Bytes(g)) = (c + g) * Factor
  BY <1>3, <1>4, <1>5, AsIntFits
<1>7. g * Factor <= (c + g) * Factor /\ (c + g) * Factor \in Nat  BY <1>3
<1> QED  BY <1>3, <1>5, <1>6, <1>7 DEF Max, Fixed, Committed, Guaranteed, p, c, g

(***************************************************************************)
(* An SLA is in order, fixed within guaranteed within maximum, for every   *)
(* request whose rates an int holds: rounding the sum as a whole keeps the *)
(* order that no comparison of CreateSched establishes.                    *)
(***************************************************************************)
THEOREM Ordered == Spec => []SlaIsOrdered
<1>1. SlaInv => SlaIsOrdered
  <2> SUFFICES ASSUME SlaInv, IsSet, Fits
               PROVE  0 <= Fixed /\ Fixed <= Committed /\ Committed <= Max
    BY DEF SlaInv, SlaIsOrdered
  <2> DEFINE a == request.gir * Factor  b == (request.cir + request.gir) * Factor
  <2>1. a \in Nat /\ b \in Nat /\ a <= b /\ Fixed = Rounded(a) /\ Committed = Rounded(b)
    BY FitsFacts DEF SlaInv
  <2> HIDE DEF a, b
  <2>2. Rounded(a) \in Nat  BY <2>1, RoundedGrants
  <2>3. Rounded(a) = a - (a % Granularity) /\ Rounded(b) = b - (b % Granularity)
    BY <2>1 DEF Rounded
  <2>4. Rounded(a) <= Rounded(b)
    BY <2>1, <2>3, RoundingIsMonotone, BandwidthAssumption
  <2>5. Committed <= Max  BY DEF SlaInv, Accepts
  <2> QED  BY <2>1, <2>2, <2>4, <2>5
<1> QED  BY <1>1, InitSla, NextSla, PTL DEF Spec

(***************************************************************************)
(* An SLA grants every rate that was asked for, rounded down by less than  *)
(* one granule, when an int holds the rates.                               *)
(***************************************************************************)
THEOREM AsAsked == Spec => []SlaIsWhatWasAsked
<1>1. SlaInv => SlaIsWhatWasAsked
  <2> SUFFICES ASSUME SlaInv, IsSet, Fits
               PROVE  /\ Grants(request.pir * Factor, Max)
                      /\ Grants((request.cir + request.gir) * Factor, Committed)
                      /\ Grants(request.gir * Factor, Fixed)
    BY DEF SlaInv, SlaIsWhatWasAsked
  <2> QED  BY FitsFacts, RoundedGrants DEF SlaInv
<1> QED  BY <1>1, InitSla, NextSla, PTL DEF Spec
=============================================================================
