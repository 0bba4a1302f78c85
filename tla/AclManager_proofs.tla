------------------------- MODULE AclManager_proofs --------------------------
(***************************************************************************)
(* What AclManager guarantees for any flows, classifiers, limits and       *)
(* numbers of calls and faults.                                            *)
(***************************************************************************)
EXTENDS AclManager, FiniteSetTheorems, TLAPS

-----------------------------------------------------------------------------
(* Keys and sums.                                                          *)

KeyRecord == [ether : Int, proto : Int, src : Int, dst : Int, vid : Nat]

(* The key of a request is well formed; with the VLAN or without it, it    *)
(* has the rule of the request.                                            *)
LEMMA KeyType ==
  ASSUME NEW r \in Requests, NEW full \in BOOLEAN
  PROVE  /\ KeyOf(r, full) \in Keys /\ KeyOf(r, full) \in KeyRecord
         /\ KeyOf(r, full).vid \in 0 .. AnyVlan
         /\ SameRule(KeyOf(r, full), KeyOf(r, FALSE))
         /\ KeyOf(r, full).vid \in {AnyVlan, KeyOf(r, FALSE).vid}
         /\ KeyOf(r, full).vid \in {AnyVlan, r.vid}
         /\ Sum(KeyOf(r, full)) \in Sums
<1>1. /\ r.ether \in Nat /\ r.proto \in Nat /\ r.src \in Nat /\ r.dst \in Nat
      /\ r.vid \in Nat /\ r.vid <= AnyVlan /\ AnyVlan \in Nat
  BY AclAssumption
<1>2. KeyOf(r, full) \in Keys
  BY DEF Keys
<1>3. KeyOf(r, full) \in KeyRecord
  BY <1>1 DEF KeyOf, Field, KeyRecord
<1> QED
  BY <1>1, <1>2, <1>3 DEF KeyOf, SameRule, Sums

LEMMA KeysAreRecords == \A k \in Keys : k \in KeyRecord /\ k.vid \in 0 .. AnyVlan
<1> SUFFICES ASSUME NEW r \in Requests, NEW full \in BOOLEAN
             PROVE  KeyOf(r, full) \in KeyRecord /\ KeyOf(r, full).vid \in 0 .. AnyVlan
  BY DEF Keys
<1> QED
  BY KeyType

LEMMA NoneIsNoEntry == None \notin Requests /\ None \notin Keys /\ None \notin Entries
  BY AclAssumption

-----------------------------------------------------------------------------
(* Counting the holders of an ACL.                                         *)

Weight(e, a)       == IF e # None /\ e.acl = a THEN 1 ELSE 0
WeightOn(e, a, i)  == IF e # None /\ e.acl = a /\ Intf(e.req) = i THEN 1 ELSE 0

(* Replacing one entry of a table moves the counts by the weights of the   *)
(* old and the new entry.                                                  *)
LEMMA Recount ==
  ASSUME NEW D, IsFiniteSet(D), NEW E, NEW T \in [D -> E],
         NEW x \in D, NEW e \in E, NEW U \in [D -> E],
         U[x] = e, \A y \in D \ {x} : U[y] = T[y], NEW a
  PROVE  /\ Cardinality(Holding(U, a)) =
              Cardinality(Holding(T, a)) - Weight(T[x], a) + Weight(e, a)
         /\ \A i : Cardinality(HoldingOn(U, a, i)) =
              Cardinality(HoldingOn(T, a, i)) - WeightOn(T[x], a, i) + WeightOn(e, a, i)
<1>0. U \in [D -> E] /\ DOMAIN U = D /\ DOMAIN T = D /\ U[x] = e
      /\ \A y \in D \ {x} : U[y] = T[y]
  OBVIOUS
<1>1. Cardinality(Holding(U, a)) =
        Cardinality(Holding(T, a)) - Weight(T[x], a) + Weight(e, a)
  <2> DEFINE H == Holding(T, a) \ {x}
  <2>1. IsFiniteSet(Holding(T, a)) /\ IsFiniteSet(H)
    BY <1>0, FS_Subset DEF Holding
  <2>2. Cardinality(H) = Cardinality(Holding(T, a)) - Weight(T[x], a)
    <3>1. /\ Cardinality(H) = IF x \in Holding(T, a) THEN Cardinality(Holding(T, a)) - 1
                              ELSE Cardinality(Holding(T, a))
          /\ Cardinality(Holding(T, a)) \in Nat
      BY <2>1, FS_RemoveElement, FS_CardinalityType
    <3> QED
      BY <1>0, <3>1 DEF Holding, Weight
  <2>3. Holding(U, a) = IF Weight(e, a) = 1 THEN H \cup {x} ELSE H
    BY <1>0 DEF Holding, Weight
  <2>4. Cardinality(Holding(U, a)) = Cardinality(H) + Weight(e, a)
    <3>1. Cardinality(H \cup {x}) = Cardinality(H) + 1 /\ Cardinality(H) \in Nat
      <4>1. x \notin H
        OBVIOUS
      <4> HIDE DEF H
      <4> QED
        BY <2>1, <4>1, FS_AddElement, FS_CardinalityType
    <3> HIDE DEF H
    <3> QED
      BY <2>3, <3>1 DEF Weight
  <2> QED
    BY <2>2, <2>4
<1>2. ASSUME NEW i
      PROVE  Cardinality(HoldingOn(U, a, i)) =
               Cardinality(HoldingOn(T, a, i)) - WeightOn(T[x], a, i) + WeightOn(e, a, i)
  <2> DEFINE H == HoldingOn(T, a, i) \ {x}
  <2>1. IsFiniteSet(HoldingOn(T, a, i)) /\ IsFiniteSet(H)
    BY <1>0, FS_Subset DEF HoldingOn, Holding
  <2>2. Cardinality(H) = Cardinality(HoldingOn(T, a, i)) - WeightOn(T[x], a, i)
    <3>1. /\ Cardinality(H) = IF x \in HoldingOn(T, a, i) THEN Cardinality(HoldingOn(T, a, i)) - 1
                              ELSE Cardinality(HoldingOn(T, a, i))
          /\ Cardinality(HoldingOn(T, a, i)) \in Nat
      BY <2>1, FS_RemoveElement, FS_CardinalityType
    <3> QED
      BY <1>0, <3>1 DEF HoldingOn, Holding, WeightOn
  <2>3. HoldingOn(U, a, i) = IF WeightOn(e, a, i) = 1 THEN H \cup {x} ELSE H
    BY <1>0 DEF HoldingOn, Holding, WeightOn
  <2>4. Cardinality(HoldingOn(U, a, i)) = Cardinality(H) + WeightOn(e, a, i)
    <3>1. Cardinality(H \cup {x}) = Cardinality(H) + 1 /\ Cardinality(H) \in Nat
      <4>1. x \notin H
        OBVIOUS
      <4> HIDE DEF H
      <4> QED
        BY <2>1, <4>1, FS_AddElement, FS_CardinalityType
    <3> HIDE DEF H
    <3> QED
      BY <2>3, <3>1 DEF WeightOn
  <2> QED
    BY <2>2, <2>4
<1> QED
  BY <1>1, <1>2

(* The counts of a table over a finite domain are natural numbers; a       *)
(* holder makes them positive, and a sole holder is the only one.          *)
LEMMA Counts ==
  ASSUME NEW D, IsFiniteSet(D), NEW E, NEW T \in [D -> E], NEW a
  PROVE  /\ Cardinality(Holding(T, a)) \in Nat
         /\ \A x \in Holding(T, a) : /\ Cardinality(Holding(T, a)) >= 1
                                     /\ Cardinality(Holding(T, a)) = 1 => Holding(T, a) = {x}
         /\ Cardinality(Holding(T, a)) = 0 <=> Holding(T, a) = {}
         /\ \A i : /\ Cardinality(HoldingOn(T, a, i)) \in Nat
                   /\ Cardinality(HoldingOn(T, a, i)) <= Cardinality(Holding(T, a))
                   /\ Cardinality(HoldingOn(T, a, i)) = 0 <=> HoldingOn(T, a, i) = {}
                   /\ \A x \in HoldingOn(T, a, i) :
                        /\ Cardinality(HoldingOn(T, a, i)) >= 1
                        /\ Cardinality(HoldingOn(T, a, i)) = 1 => HoldingOn(T, a, i) = {x}
<1>1. ASSUME NEW S, IsFiniteSet(S)
      PROVE  /\ Cardinality(S) \in Nat
             /\ Cardinality(S) = 0 <=> S = {}
             /\ \A x \in S : Cardinality(S) >= 1 /\ (Cardinality(S) = 1 => S = {x})
  BY <1>1, FS_CardinalityType, FS_EmptySet, FS_Singleton
<1>2. IsFiniteSet(Holding(T, a))
  BY FS_Subset DEF Holding
<1>3. \A i : /\ IsFiniteSet(HoldingOn(T, a, i))
             /\ Cardinality(HoldingOn(T, a, i)) <= Cardinality(Holding(T, a))
  BY <1>2, FS_Subset DEF HoldingOn
<1> QED
  BY <1>1, <1>2, <1>3

LEMMA FiniteTables == IsFiniteSet(Flows) /\ IsFiniteSet(Slots)
<1>1. IsFiniteSet(Dirs)
  <2>1. Dirs = {"upstream"} \cup {"downstream"}
    BY DEF Dirs
  <2> QED
    BY <2>1, FS_Singleton, FS_AddElement
<1>2. IsFiniteSet(1 .. MaxFaults)
  <2>1. MaxFaults \in Int
    BY AclAssumption
  <2> QED
    BY <2>1, FS_Interval
<1>3. IsFiniteSet({"lost"})
  BY FS_Singleton
<1> QED
  BY <1>1, <1>2, <1>3, AclAssumption, FS_Product DEF Flows, Slots

-----------------------------------------------------------------------------
(***************************************************************************)
(* The inductive invariant.  Beside the types and the properties           *)
(* themselves:                                                             *)
(* - an ACL that BAL would not remove is no longer referred to;            *)
(* - the classifier map leads to ACLs that are referred to and that cover  *)
(*   every key that compares equal;                                        *)
(* - the ACL of a flow covers the flow's request;                          *)
(* - an interface that is counted is registered;                           *)
(* - the key of a call was formed from its request.                        *)
(***************************************************************************)
LeakInv == \A a \in leaked : refCnt[a] = 0

MapInv ==
  \A s \in Sums : aclOf[s] # NoId =>
    /\ refCnt[aclOf[s]] > 0
    /\ \A k \in Keys : Sum(k) = s => Covers(bal[aclOf[s]], k)

FlowInv ==
  \A fd \in Flows : Live(fd) =>
    /\ flowAcl[fd].req.dir = fd[2]
    /\ Traps(flowAcl[fd].acl, flowAcl[fd].req)

RegInv ==
  \A a \in AclIds, i \in Interfaces :
    /\ reg[<<a, i>>] > 0 => Registered(a, i)
    /\ <<a, i>> \in refused => reg[<<a, i>>] > 0
    /\ <<a, i>> \in balReg => a \in pool

KeyInv == \A c \in pending : \E full \in BOOLEAN : c.key = KeyOf(c.req, full)

(* While the client does nothing odd, flows and calls differ in their ids  *)
(* and in what they ask for, and trapInfo is that of the installed flow.   *)
OddInv ==
  odd = {} =>
    /\ \A fd \in Flows : Live(fd) =>
         /\ trapInfo[fd[1]] = flowAcl[fd].req
         /\ Allowed(flowAcl[fd].req)
         /\ \A gd \in Flows : Live(gd) /\ fd # gd => ~Same(flowAcl[fd].req, flowAcl[gd].req)
         /\ \A c \in pending : c.flow # fd[1] /\ ~Same(flowAcl[fd].req, c.req)
    /\ \A c, d \in pending : c # d => c.flow # d.flow /\ ~Same(c.req, d.req)

IInv ==
  /\ TypeOK /\ IdsMatchBal /\ CountsAreExact
  /\ LeakInv /\ MapInv /\ FlowInv /\ RegInv /\ KeyInv /\ OddInv

LEMMA InitInv == Init => IInv
<1> SUFFICES ASSUME Init PROVE IInv
  OBVIOUS
<1>1. TypeOK
  <2>1. reg \in [AclIds \X Interfaces -> Nat] /\ vlans \in [Infos -> SUBSET (0 .. AnyVlan)]
    BY DEF Init
  <2>2. faults \in 0 .. MaxFaults
    BY AclAssumption DEF Init
  <2> QED
    BY <2>1, <2>2 DEF Init, TypeOK
<1>2. IdsMatchBal /\ LeakInv
  BY DEF Init, IdsMatchBal, LeakInv
<1>3. CountsAreExact
  <2>1. \A a : /\ Holding(flowAcl, a) = {} /\ Holding(lost, a) = {}
              /\ \A i : HoldingOn(flowAcl, a, i) = {} /\ HoldingOn(lost, a, i) = {}
    BY DEF Init, Holding, HoldingOn
  <2>2. \A a \in AclIds : refCnt[a] = 0 /\ \A i \in Interfaces : reg[<<a, i>>] = 0
    BY DEF Init
  <2>3. Cardinality({}) = 0
    BY FS_EmptySet
  <2> QED
    BY <2>1, <2>2, <2>3 DEF CountsAreExact
<1>4. MapInv
  BY DEF Init, MapInv, NoId
<1>5. FlowInv /\ OddInv
  BY DEF Init, FlowInv, OddInv, Live
<1>6. RegInv /\ KeyInv
  BY DEF Init, RegInv, KeyInv
<1> QED
  BY <1>1, <1>2, <1>3, <1>4, <1>5, <1>6 DEF IInv

-----------------------------------------------------------------------------
(* The parts of an addition.                                               *)

LEMMA CallType ==
  ASSUME TypeOK, KeyInv, NEW c \in pending
  PROVE  /\ c \in Calls /\ c.flow \in FlowIds /\ c.req \in Requests /\ c.key \in Keys
         /\ c.key \in KeyRecord /\ c.key.vid \in 0 .. AnyVlan
         /\ c.key.vid \in {AnyVlan, c.req.vid}
         /\ SameRule(c.key, KeyOf(c.req, FALSE))
         /\ c.key.vid \in {AnyVlan, KeyOf(c.req, FALSE).vid}
         /\ Sum(c.key) \in Sums
         /\ Intf(c.req) \in Interfaces /\ Info(c.req) \in Infos
         /\ Flow(c) \in Flows
<1>1. c \in Calls /\ c.flow \in FlowIds /\ c.req \in Requests /\ c.key \in Keys
  BY DEF TypeOK, Calls
<1>2. PICK full \in BOOLEAN : c.key = KeyOf(c.req, full)
  BY DEF KeyInv
<1>3. c.req.dir \in Dirs
  BY <1>1, AclAssumption
<1> QED
  BY <1>1, <1>2, <1>3, KeyType DEF Interfaces, Infos, Flow, Flows

(* The interface is registered, or taken for registered; no other          *)
(* registration changes.                                                   *)
LEMMA RegisterStep ==
  ASSUME TypeOK, RegInv, NEW c, NEW a \in AclIds, Intf(c.req) \in Interfaces,
         NEW answer \in Answers, Register(c, a, answer)
  PROVE  LET i == Intf(c.req) IN
         /\ reg' = [reg EXCEPT ![<<a, i>>] = reg[<<a, i>>] + 1]
         /\ reg' \in [AclIds \X Interfaces -> Nat]
         /\ <<a, i>> \in balReg' \cup refused'
         /\ balReg \subseteq balReg' /\ balReg' \subseteq balReg \cup {<<a, i>>}
         /\ refused \subseteq refused' /\ refused' \subseteq refused \cup {<<a, i>>}
         /\ balReg' \subseteq AclIds \X Interfaces /\ refused' \subseteq AclIds \X Interfaces
         /\ faults' \in 0 .. MaxFaults
<1> DEFINE i == Intf(c.req)
<1>1. reg \in [AclIds \X Interfaces -> Nat] /\ <<a, i>> \in AclIds \X Interfaces
      /\ reg[<<a, i>>] \in Nat
  BY DEF TypeOK
<1>2. /\ reg' = [reg EXCEPT ![<<a, i>>] = reg[<<a, i>>] + 1]
      /\ reg' \in [AclIds \X Interfaces -> Nat]
  BY <1>1 DEF Register, Count
<1>3. reg[<<a, i>>] # 0 => <<a, i>> \in balReg \cup refused
  BY <1>1 DEF RegInv, Registered
<1>4. /\ <<a, i>> \in balReg' \cup refused'
      /\ balReg \subseteq balReg' /\ balReg' \subseteq balReg \cup {<<a, i>>}
      /\ refused \subseteq refused' /\ refused' \subseteq refused \cup {<<a, i>>}
  BY <1>3 DEF Register, Answers
<1>5. faults' \in 0 .. MaxFaults
  BY AclAssumption DEF TypeOK, Register, Fault
<1> QED
  BY <1>1, <1>2, <1>4, <1>5 DEF TypeOK

(* The flow has its entry, and only that entry is new.                     *)
LEMMA LetThroughStep ==
  ASSUME TypeOK, KeyInv, NEW c \in pending, NEW a \in AclIds, Done(c), LetThrough(c, a)
  PROVE  /\ flowAcl' = [flowAcl EXCEPT ![Flow(c)] = [acl |-> a, req |-> c.req]]
         /\ flowAcl' \in [Flows -> Entries \cup {None}]
         /\ trapInfo' \in [FlowIds -> Requests \cup {None}]
         /\ vlans' \in [Infos -> SUBSET (0 .. AnyVlan)]
         /\ pending' \subseteq Calls
         /\ KeyInv'
<1>1. c.flow \in FlowIds /\ c.req \in Requests /\ c.key.vid \in 0 .. AnyVlan
      /\ Flow(c) \in Flows /\ Info(c.req) \in Infos
  BY CallType
<1>2. flowAcl' = [flowAcl EXCEPT ![Flow(c)] = [acl |-> a, req |-> c.req]]
  BY DEF LetThrough
<1>3. flowAcl' \in [Flows -> Entries \cup {None}]
  BY <1>1, <1>2 DEF TypeOK, Entries
<1>4. trapInfo' \in [FlowIds -> Requests \cup {None}]
  BY <1>1 DEF TypeOK, LetThrough
<1>5. vlans' \in [Infos -> SUBSET (0 .. AnyVlan)]
  <2>1. vlans[Info(c.req)] \cup {c.key.vid} \in SUBSET (0 .. AnyVlan)
    BY <1>1 DEF TypeOK
  <2> QED
    BY <1>1, <2>1 DEF TypeOK, LetThrough
<1>6. pending' \subseteq Calls /\ KeyInv'
  BY DEF Done, TypeOK, KeyInv
<1> QED
  BY <1>2, <1>3, <1>4, <1>5, <1>6

LEMMA LetThroughOdd ==
  ASSUME TypeOK, KeyInv, OddInv, NEW c \in pending, NEW a \in AclIds,
         Done(c), LetThrough(c, a), odd' = odd
  PROVE  OddInv'
<1> SUFFICES ASSUME odd = {}
             PROVE  OddInv'
  BY DEF OddInv
<1> DEFINE new == [acl |-> a, req |-> c.req]
<1>1. c.flow \in FlowIds /\ c.req \in Requests /\ Flow(c) \in Flows
      /\ Info(c.req) \in Infos /\ c.key.vid \in {AnyVlan, c.req.vid}
      /\ Flow(c)[1] = c.flow
  BY CallType DEF Flow
<1>2. flowAcl' = [flowAcl EXCEPT ![Flow(c)] = new] /\ new # None /\ new.req = c.req
  <2>1. new \in Entries
    BY <1>1 DEF Entries
  <2> QED
    BY <2>1, NoneIsNoEntry DEF LetThrough
<1>3. flowAcl \in [Flows -> Entries \cup {None}] /\ flowAcl'[Flow(c)] = new
      /\ \A gd \in Flows \ {Flow(c)} : flowAcl'[gd] = flowAcl[gd]
  BY <1>1, <1>2 DEF TypeOK
<1>4. trapInfo \in [FlowIds -> Requests \cup {None}] /\ trapInfo'[c.flow] = c.req
      /\ \A f \in FlowIds \ {c.flow} : trapInfo'[f] = trapInfo[f]
  BY <1>1 DEF TypeOK, LetThrough
<1>5. \A r \in Requests : Allowed(r) => Allowed(r)'
  <2>1. \A i \in Infos : vlans[i] \subseteq vlans'[i]
    BY <1>1 DEF TypeOK, LetThrough
  <2> QED
    BY <2>1 DEF Allowed, Infos
<1>6. Allowed(c.req)'
  <2>1. c.key.vid \in vlans'[Info(c.req)]
    BY <1>1 DEF TypeOK, LetThrough
  <2> QED
    BY <1>1, <2>1 DEF Allowed
<1>7. pending' \subseteq pending /\ c \notin pending'
  BY DEF Done
<1>8. ASSUME NEW fd \in Flows, Live(fd)', fd # Flow(c)
      PROVE  /\ Live(fd) /\ flowAcl'[fd] = flowAcl[fd] /\ flowAcl[fd].req \in Requests
             /\ fd[1] \in FlowIds /\ fd[1] # c.flow
             /\ ~Same(flowAcl[fd].req, c.req)
  BY <1>3, <1>8 DEF OddInv, Live, Entries, Flows
<1>9. ASSUME NEW fd \in Flows, Live(fd)'
      PROVE  /\ trapInfo'[fd[1]] = flowAcl'[fd].req
             /\ Allowed(flowAcl[fd].req)'
             /\ \A gd \in Flows : Live(gd)' /\ fd # gd => ~Same(flowAcl'[fd].req, flowAcl'[gd].req)
             /\ \A d \in pending' : d.flow # fd[1] /\ ~Same(flowAcl'[fd].req, d.req)
  <2>1. CASE fd = Flow(c)
    <3>1. \A gd \in Flows : Live(gd)' /\ fd # gd => ~Same(c.req, flowAcl'[gd].req)
      BY <1>8, <2>1 DEF Same
    <3>2. \A d \in pending' : d.flow # c.flow /\ ~Same(c.req, d.req)
      BY <1>7 DEF OddInv
    <3>3. Allowed(flowAcl[fd].req)'
      BY <1>2, <1>3, <1>6, <2>1 DEF Allowed
    <3> QED
      BY <1>1, <1>2, <1>3, <1>4, <2>1, <3>1, <3>2, <3>3
  <2>2. CASE fd # Flow(c)
    <3>1. Live(fd) /\ flowAcl'[fd] = flowAcl[fd]
      BY <1>8, <1>9, <2>2
    <3>2. trapInfo'[fd[1]] = flowAcl'[fd].req
      BY <1>4, <1>8, <1>9, <2>2 DEF OddInv
    <3>5. Allowed(flowAcl[fd].req)'
      <4>1. Allowed(flowAcl[fd].req) /\ flowAcl[fd].req \in Requests
        BY <1>8, <1>9, <2>2 DEF OddInv
      <4>2. \E v \in vlans'[Info(flowAcl[fd].req)] : v \in {flowAcl[fd].req.vid, AnyVlan}
        BY <1>5, <4>1 DEF Allowed
      <4> QED
        BY <3>1, <4>2 DEF Allowed
    <3>3. \A gd \in Flows : Live(gd)' /\ fd # gd => ~Same(flowAcl'[fd].req, flowAcl'[gd].req)
      BY <1>2, <1>3, <1>8, <1>9, <2>2 DEF OddInv
    <3>4. \A d \in pending' : d.flow # fd[1] /\ ~Same(flowAcl'[fd].req, d.req)
      BY <1>7, <3>1 DEF OddInv
    <3> QED
      BY <3>2, <3>3, <3>4, <3>5
  <2> QED
    BY <2>1, <2>2
<1>10. \A d, e \in pending' : d # e => d.flow # e.flow /\ ~Same(d.req, e.req)
  BY <1>7 DEF OddInv
<1> QED
  BY <1>9, <1>10 DEF OddInv

(* How the counts of the flows move when one entry changes.                *)
LEMMA FlowCounts ==
  ASSUME TypeOK, NEW fd \in Flows, NEW e \in Entries \cup {None},
         flowAcl' = [flowAcl EXCEPT ![fd] = e]
  PROVE  \A a \in AclIds :
           /\ Cardinality(Holding(flowAcl, a)) \in Nat
           /\ Cardinality(Holding(flowAcl', a)) =
                Cardinality(Holding(flowAcl, a)) - Weight(flowAcl[fd], a) + Weight(e, a)
           /\ \A i \in Interfaces :
                /\ Cardinality(HoldingOn(flowAcl, a, i)) \in Nat
                /\ Cardinality(HoldingOn(flowAcl', a, i)) =
                     Cardinality(HoldingOn(flowAcl, a, i))
                     - WeightOn(flowAcl[fd], a, i) + WeightOn(e, a, i)
<1> DEFINE E == Entries \cup {None}
           U == flowAcl'
<1>1. IsFiniteSet(Flows) /\ flowAcl \in [Flows -> E] /\ e \in E /\ fd \in Flows
  BY FiniteTables DEF TypeOK
<1>2. U \in [Flows -> E] /\ U[fd] = e /\ \A gd \in Flows \ {fd} : U[gd] = flowAcl[gd]
  BY <1>1
<1> HIDE DEF E, U
<1>3. ASSUME NEW a \in AclIds
      PROVE  /\ Cardinality(Holding(flowAcl, a)) \in Nat
             /\ \A i \in Interfaces : Cardinality(HoldingOn(flowAcl, a, i)) \in Nat
  BY <1>1, Counts
<1>4. ASSUME NEW a \in AclIds
      PROVE  Cardinality(Holding(U, a)) =
               Cardinality(Holding(flowAcl, a)) - Weight(flowAcl[fd], a) + Weight(e, a)
  BY <1>1, <1>2, Recount
<1>5. ASSUME NEW a \in AclIds
      PROVE  \A i : Cardinality(HoldingOn(U, a, i)) =
               Cardinality(HoldingOn(flowAcl, a, i)) - WeightOn(flowAcl[fd], a, i) + WeightOn(e, a, i)
  BY <1>1, <1>2, Recount
<1> QED
  BY <1>3, <1>4, <1>5 DEF U

LEMMA LostCounts ==
  ASSUME TypeOK
  PROVE  \A a \in AclIds :
           /\ Cardinality(Holding(lost, a)) \in Nat
           /\ \A i \in Interfaces : Cardinality(HoldingOn(lost, a, i)) \in Nat
<1>1. IsFiniteSet(Slots) /\ lost \in [Slots -> Entries \cup {None}]
  BY FiniteTables DEF TypeOK
<1> QED
  BY <1>1, Counts

(* An ACL some entry refers to is counted, and BAL has it.                 *)
LEMMA HeldIsCounted ==
  ASSUME TypeOK, IdsMatchBal, CountsAreExact
  PROVE  /\ \A fd \in Flows : Live(fd) =>
              /\ flowAcl[fd] \in Entries
              /\ refCnt[flowAcl[fd].acl] > 0 /\ flowAcl[fd].acl \in pool
              /\ reg[<<flowAcl[fd].acl, Intf(flowAcl[fd].req)>>] > 0
         /\ \A a \in AclIds, i \in Interfaces : reg[<<a, i>>] <= refCnt[a]
<1>1. /\ IsFiniteSet(Flows) /\ flowAcl \in [Flows -> Entries \cup {None}]
      /\ IsFiniteSet(Slots) /\ lost \in [Slots -> Entries \cup {None}]
  BY FiniteTables DEF TypeOK
<1>2. \A a \in AclIds, i \in Interfaces :
        /\ Cardinality(Holding(flowAcl, a)) \in Nat
        /\ Cardinality(Holding(lost, a)) \in Nat
        /\ Cardinality(HoldingOn(flowAcl, a, i)) \in Nat
        /\ Cardinality(HoldingOn(lost, a, i)) \in Nat
        /\ Cardinality(HoldingOn(flowAcl, a, i)) <= Cardinality(Holding(flowAcl, a))
        /\ Cardinality(HoldingOn(lost, a, i)) <= Cardinality(Holding(lost, a))
  BY <1>1, Counts
<1>3. ASSUME NEW fd \in Flows, Live(fd)
      PROVE  /\ flowAcl[fd] \in Entries
             /\ refCnt[flowAcl[fd].acl] > 0 /\ flowAcl[fd].acl \in pool
             /\ reg[<<flowAcl[fd].acl, Intf(flowAcl[fd].req)>>] > 0
  <2> DEFINE a == flowAcl[fd].acl
             i == Intf(flowAcl[fd].req)
  <2>1. flowAcl[fd] \in Entries /\ a \in AclIds /\ i \in Interfaces
    BY <1>1, <1>3 DEF Live, Entries, Interfaces
  <2>2. fd \in Holding(flowAcl, a) /\ fd \in HoldingOn(flowAcl, a, i)
    BY <1>1, <1>3 DEF Live, Holding, HoldingOn
  <2>3. Cardinality(Holding(flowAcl, a)) >= 1 /\ Cardinality(HoldingOn(flowAcl, a, i)) >= 1
    BY <1>1, <2>2, Counts
  <2>4. refCnt[a] > 0 /\ reg[<<a, i>>] > 0
    BY <1>2, <2>1, <2>3 DEF CountsAreExact
  <2> QED
    BY <2>1, <2>4 DEF IdsMatchBal
<1> QED
  BY <1>2, <1>3 DEF CountsAreExact

-----------------------------------------------------------------------------
(* What Share and Install have in common.                                  *)

(* An entry that is overwritten stays counted.                             *)
LEMMA OverwriteStep ==
  ASSUME TypeOK, NEW fd \in Flows, Overwrite(fd)
  PROVE  /\ lost' \in [Slots -> Entries \cup {None}]
         /\ \A a \in AclIds :
              /\ Cardinality(Holding(lost', a)) =
                   Cardinality(Holding(lost, a)) + Weight(flowAcl[fd], a)
              /\ \A i \in Interfaces :
                   Cardinality(HoldingOn(lost', a, i)) =
                     Cardinality(HoldingOn(lost, a, i)) + WeightOn(flowAcl[fd], a, i)
<1> DEFINE E == Entries \cup {None}
           U == lost'
           old == flowAcl[fd]
<1>1. IsFiniteSet(Slots) /\ lost \in [Slots -> E] /\ old \in E
  BY FiniteTables DEF TypeOK
<1>2. CASE ~Live(fd)
  <2>1. U = lost /\ old = None
    BY <1>2 DEF Overwrite, Live
  <2> HIDE DEF U, old
  <2>2. \A a \in AclIds : Weight(old, a) = 0 /\ \A i \in Interfaces : WeightOn(old, a, i) = 0
    BY <2>1 DEF Weight, WeightOn
  <2>3. \A a \in AclIds : /\ Cardinality(Holding(lost, a)) \in Nat
                           /\ \A i \in Interfaces : Cardinality(HoldingOn(lost, a, i)) \in Nat
    BY LostCounts
  <2> QED
    BY <1>1, <2>1, <2>2, <2>3 DEF U, old
<1>3. CASE Live(fd)
  <2>1. PICK n \in Slots : lost[n] = None /\ U = [lost EXCEPT ![n] = old]
    BY <1>3 DEF Overwrite
  <2>2. /\ n \in Slots /\ U \in [Slots -> E] /\ U[n] = old
        /\ \A m \in Slots \ {n} : U[m] = lost[m]
    BY <1>1, <2>1
  <2> HIDE DEF E, U, old
  <2>3. \A a : Weight(lost[n], a) = 0 /\ \A i : WeightOn(lost[n], a, i) = 0
    BY <2>1 DEF Weight, WeightOn
  <2>4. ASSUME NEW a \in AclIds
        PROVE  Cardinality(Holding(U, a)) =
                 Cardinality(Holding(lost, a)) - Weight(lost[n], a) + Weight(old, a)
    BY <1>1, <2>2, Recount
  <2>5. ASSUME NEW a \in AclIds
        PROVE  \A i : Cardinality(HoldingOn(U, a, i)) =
                 Cardinality(HoldingOn(lost, a, i)) - WeightOn(lost[n], a, i) + WeightOn(old, a, i)
    BY <1>1, <2>2, Recount
  <2>6. \A a \in AclIds : /\ Cardinality(Holding(lost, a)) \in Nat
                           /\ \A i \in Interfaces : Cardinality(HoldingOn(lost, a, i)) \in Nat
    BY LostCounts
  <2> QED
    BY <2>2, <2>3, <2>4, <2>5, <2>6 DEF U, E, old
<1> QED
  BY <1>2, <1>3

(* One more reference, one more entry.                                     *)
LEMMA EntryCounts ==
  ASSUME TypeOK, CountsAreExact, NEW a \in AclIds, NEW r \in Requests, NEW fd \in Flows,
         flowAcl' = [flowAcl EXCEPT ![fd] = [acl |-> a, req |-> r]],
         Overwrite(fd),
         refCnt' = [refCnt EXCEPT ![a] = refCnt[a] + 1],
         reg' = [reg EXCEPT ![<<a, Intf(r)>>] = reg[<<a, Intf(r)>>] + 1]
  PROVE  CountsAreExact'
<1> DEFINE i == Intf(r)
           new == [acl |-> a, req |-> r]
           old == flowAcl[fd]
<1>1. i \in Interfaces /\ new \in Entries /\ new # None /\ new.acl = a /\ new.req = r
  BY NoneIsNoEntry DEF Interfaces, Entries
<1>2. \A b : /\ Weight(new, b) = (IF b = a THEN 1 ELSE 0)
             /\ \A j : WeightOn(new, b, j) = (IF b = a /\ j = i THEN 1 ELSE 0)
             /\ Weight(old, b) \in Nat /\ Weight(new, b) \in Nat
             /\ \A j : WeightOn(old, b, j) \in Nat /\ WeightOn(new, b, j) \in Nat
  BY <1>1 DEF Weight, WeightOn
<1> HIDE DEF new
<1>3. \A b \in AclIds :
        /\ Cardinality(Holding(flowAcl, b)) \in Nat
        /\ Cardinality(Holding(flowAcl', b)) =
             Cardinality(Holding(flowAcl, b)) - Weight(old, b) + Weight(new, b)
        /\ \A j \in Interfaces :
             /\ Cardinality(HoldingOn(flowAcl, b, j)) \in Nat
             /\ Cardinality(HoldingOn(flowAcl', b, j)) = Cardinality(HoldingOn(flowAcl, b, j))
                  - WeightOn(old, b, j) + WeightOn(new, b, j)
  BY <1>1, FlowCounts DEF new
<1> HIDE DEF old, i
<1>4. \A b \in AclIds :
        /\ Cardinality(Holding(lost', b)) = Cardinality(Holding(lost, b)) + Weight(old, b)
        /\ \A j \in Interfaces :
             Cardinality(HoldingOn(lost', b, j)) =
               Cardinality(HoldingOn(lost, b, j)) + WeightOn(old, b, j)
  BY OverwriteStep DEF old
<1>5. \A b \in AclIds : /\ Cardinality(Holding(lost, b)) \in Nat
                         /\ \A j \in Interfaces : Cardinality(HoldingOn(lost, b, j)) \in Nat
  BY LostCounts
<1>6. /\ \A b \in AclIds : refCnt'[b] = refCnt[b] + (IF b = a THEN 1 ELSE 0)
      /\ \A b \in AclIds, j \in Interfaces :
           reg'[<<b, j>>] = reg[<<b, j>>] + (IF b = a /\ j = i THEN 1 ELSE 0)
  BY <1>1 DEF TypeOK, i
<1>7. ASSUME NEW b \in AclIds
      PROVE  refCnt'[b] = Cardinality(Holding(flowAcl', b)) + Cardinality(Holding(lost', b))
  <2>1. refCnt[b] = Cardinality(Holding(flowAcl, b)) + Cardinality(Holding(lost, b))
    BY DEF CountsAreExact
  <2>2. refCnt'[b] = refCnt[b] + Weight(new, b)
    BY <1>2, <1>6
  <2>3. Weight(old, b) \in Nat /\ Weight(new, b) \in Nat
    BY <1>2
  <2>4. /\ Cardinality(Holding(flowAcl, b)) \in Nat /\ Cardinality(Holding(lost, b)) \in Nat
        /\ Cardinality(Holding(flowAcl', b)) =
             Cardinality(Holding(flowAcl, b)) - Weight(old, b) + Weight(new, b)
        /\ Cardinality(Holding(lost', b)) = Cardinality(Holding(lost, b)) + Weight(old, b)
    BY <1>3, <1>4, <1>5
  <2> QED
    BY <2>1, <2>2, <2>3, <2>4
<1>8. ASSUME NEW b \in AclIds, NEW j \in Interfaces
      PROVE  reg'[<<b, j>>] = Cardinality(HoldingOn(flowAcl', b, j))
                               + Cardinality(HoldingOn(lost', b, j))
  <2>1. reg[<<b, j>>] = Cardinality(HoldingOn(flowAcl, b, j)) + Cardinality(HoldingOn(lost, b, j))
    BY DEF CountsAreExact
  <2>2. reg'[<<b, j>>] = reg[<<b, j>>] + WeightOn(new, b, j)
    BY <1>2, <1>6
  <2>3. WeightOn(old, b, j) \in Nat /\ WeightOn(new, b, j) \in Nat
    BY <1>2
  <2>4. /\ Cardinality(HoldingOn(flowAcl, b, j)) \in Nat
        /\ Cardinality(HoldingOn(lost, b, j)) \in Nat
        /\ Cardinality(HoldingOn(flowAcl', b, j)) = Cardinality(HoldingOn(flowAcl, b, j))
             - WeightOn(old, b, j) + WeightOn(new, b, j)
        /\ Cardinality(HoldingOn(lost', b, j)) =
             Cardinality(HoldingOn(lost, b, j)) + WeightOn(old, b, j)
    BY <1>3, <1>4, <1>5
  <2> QED
    BY <2>1, <2>2, <2>3, <2>4
<1> QED
  BY <1>7, <1>8 DEF CountsAreExact

(* The registrations stay those that are counted.                          *)
LEMMA RegisterInv ==
  ASSUME TypeOK, RegInv, NEW c, NEW a \in AclIds, Intf(c.req) \in Interfaces,
         NEW answer \in Answers, Register(c, a, answer),
         pool \subseteq pool', a \in pool'
  PROVE  RegInv'
<1> DEFINE i == Intf(c.req)
<1>1. /\ reg' = [reg EXCEPT ![<<a, i>>] = reg[<<a, i>>] + 1]
      /\ <<a, i>> \in balReg' \cup refused'
      /\ balReg \subseteq balReg' /\ balReg' \subseteq balReg \cup {<<a, i>>}
      /\ refused \subseteq refused' /\ refused' \subseteq refused \cup {<<a, i>>}
  BY RegisterStep
<1>2. ASSUME NEW b \in AclIds, NEW j \in Interfaces
      PROVE  /\ reg'[<<b, j>>] > 0 => Registered(b, j)'
             /\ <<b, j>> \in refused' => reg'[<<b, j>>] > 0
             /\ <<b, j>> \in balReg' => b \in pool'
  <2>1. CASE b = a /\ j = i
    <3>1. reg[<<a, i>>] \in Nat /\ reg'[<<a, i>>] = reg[<<a, i>>] + 1
      BY <1>1 DEF TypeOK
    <3> QED
      BY <1>1, <2>1, <3>1 DEF Registered
  <2>2. CASE <<b, j>> # <<a, i>>
    <3>1. reg'[<<b, j>>] = reg[<<b, j>>]
      BY <1>1, <2>2 DEF TypeOK
    <3> QED
      BY <1>1, <2>2, <3>1 DEF RegInv, Registered
  <2> QED
    BY <2>1, <2>2
<1> QED
  BY <1>2 DEF RegInv, Registered

(* The new entry leads to an ACL that covers its request, the others to    *)
(* the one they had.                                                       *)
LEMMA EntryTraps ==
  ASSUME TypeOK, IdsMatchBal, CountsAreExact, FlowInv, KeyInv,
         NEW c \in pending, NEW a \in AclIds,
         flowAcl' = [flowAcl EXCEPT ![Flow(c)] = [acl |-> a, req |-> c.req]],
         \A b \in pool : bal'[b] = bal[b], Covers(bal'[a], c.key)
  PROVE  FlowInv'
<1> DEFINE new == [acl |-> a, req |-> c.req]
<1>1. /\ c.req \in Requests /\ Flow(c) \in Flows
      /\ SameRule(c.key, KeyOf(c.req, FALSE)) /\ c.key.vid \in {AnyVlan, KeyOf(c.req, FALSE).vid}
  BY CallType
<1>2. Covers(bal'[a], KeyOf(c.req, FALSE))
  BY <1>1 DEF Covers, SameRule
<1>3. ASSUME NEW fd \in Flows, Live(fd)'
      PROVE  flowAcl'[fd].req.dir = fd[2] /\ Traps(flowAcl[fd].acl, flowAcl[fd].req)'
  <2>1. CASE fd = Flow(c)
    <3>1. flowAcl'[fd] = new
      BY <1>1, <2>1 DEF TypeOK
    <3>2. new.acl = a /\ new.req = c.req /\ Flow(c)[2] = c.req.dir
      BY DEF Flow
    <3> HIDE DEF new
    <3> QED
      BY <1>2, <2>1, <3>1, <3>2 DEF Traps
  <2>2. CASE fd # Flow(c)
    <3>1. flowAcl'[fd] = flowAcl[fd] /\ Live(fd)
      BY <1>1, <1>3, <2>2 DEF TypeOK, Live
    <3>2. bal'[flowAcl[fd].acl] = bal[flowAcl[fd].acl]
      BY <3>1, HeldIsCounted
    <3> QED
      BY <3>1, <3>2 DEF FlowInv, Traps
  <2> QED
    BY <2>1, <2>2
<1> QED
  BY <1>3 DEF FlowInv

-----------------------------------------------------------------------------
(* Every action preserves the invariant.                                   *)

LEMMA ShareInv ==
  ASSUME IInv, NEW c \in pending, NEW answer \in Answers, Share(c, answer)
  PROVE  IInv'
<1> DEFINE a == aclOf[Sum(c.key)]
           i == Intf(c.req)
           new == [acl |-> a, req |-> c.req]
<1>1. /\ c.req \in Requests /\ c.key \in Keys /\ i \in Interfaces
      /\ SameRule(c.key, KeyOf(c.req, FALSE)) /\ c.key.vid \in {AnyVlan, KeyOf(c.req, FALSE).vid}
      /\ Sum(c.key) \in Sums /\ Flow(c) \in Flows
  BY CallType DEF IInv
<1>2. a \in AclIds /\ a # NoId /\ refCnt[a] > 0 /\ a \in pool /\ refCnt[a] \in Nat
  BY <1>1 DEF IInv, TypeOK, Share, Known, MapInv, IdsMatchBal
<1>3. refCnt' = [refCnt EXCEPT ![a] = refCnt[a] + 1] /\ refCnt' \in [AclIds -> Nat]
  BY <1>2 DEF IInv, TypeOK, Share, Refer
<1>4. /\ Done(c) /\ LetThrough(c, a) /\ Register(c, a, answer)
      /\ UNCHANGED <<pool, aclOf, hit, bal, leaked, lost, odd>>
      /\ flowAcl[Flow(c)] = None
  BY DEF Share, Live
<1>5. /\ flowAcl' = [flowAcl EXCEPT ![Flow(c)] = new]
      /\ flowAcl' \in [Flows -> Entries \cup {None}]
      /\ trapInfo' \in [FlowIds -> Requests \cup {None}]
      /\ vlans' \in [Infos -> SUBSET (0 .. AnyVlan)]
      /\ pending' \subseteq Calls /\ KeyInv'
  BY <1>2, <1>4, LetThroughStep DEF IInv
<1>6. /\ reg' = [reg EXCEPT ![<<a, i>>] = reg[<<a, i>>] + 1]
      /\ reg' \in [AclIds \X Interfaces -> Nat]
      /\ <<a, i>> \in balReg' \cup refused'
      /\ balReg \subseteq balReg' /\ balReg' \subseteq balReg \cup {<<a, i>>}
      /\ refused \subseteq refused' /\ refused' \subseteq refused \cup {<<a, i>>}
      /\ balReg' \subseteq AclIds \X Interfaces /\ refused' \subseteq AclIds \X Interfaces
      /\ faults' \in 0 .. MaxFaults
  BY <1>1, <1>2, <1>4, RegisterStep DEF IInv
<1>7. TypeOK'
  BY <1>3, <1>4, <1>5, <1>6 DEF IInv, TypeOK
<1>8. IdsMatchBal' /\ LeakInv'
  BY <1>2, <1>3, <1>4 DEF IInv, TypeOK, IdsMatchBal, LeakInv
<1>9. CountsAreExact'
  BY <1>1, <1>2, <1>3, <1>4, <1>5, <1>6, EntryCounts DEF IInv, Overwrite, Live
<1>10. MapInv'
  BY <1>2, <1>3, <1>4 DEF IInv, TypeOK, MapInv
<1>11. FlowInv'
  <2>1. Covers(bal'[a], c.key)
    BY <1>1, <1>2, <1>4 DEF IInv, MapInv
  <2> QED
    BY <1>2, <1>4, <1>5, <2>1, EntryTraps DEF IInv
<1>12. RegInv'
  BY <1>1, <1>2, <1>4, RegisterInv DEF IInv
<1>13. OddInv'
  BY <1>2, <1>4, LetThroughOdd DEF IInv
<1> QED
  BY <1>5, <1>7, <1>8, <1>9, <1>10, <1>11, <1>12, <1>13 DEF IInv

LEMMA InstallInv ==
  ASSUME IInv, NEW c \in pending, NEW a \in AclIds, NEW answer \in Answers,
         Install(c, a, answer)
  PROVE  IInv'
<1> DEFINE i == Intf(c.req)
           k == Programmed(c.key)
           sum == Sum(c.key)
<1>1. /\ c.req \in Requests /\ c.key \in Keys /\ i \in Interfaces
      /\ c.key \in KeyRecord /\ sum \in Sums /\ Flow(c) \in Flows
  BY CallType DEF IInv
<1>2. PICK full \in BOOLEAN : c.key = KeyOf(c.req, full)
  BY DEF IInv, KeyInv
<1>3. k \in Keys /\ k # None /\ Covers(k, c.key)
  <2>1. k \in {c.key, KeyOf(c.req, TRUE)}
    BY <1>2 DEF Programmed, KeyOf
  <2>2. k.vid \in {AnyVlan, c.key.vid} /\ SameRule(k, c.key)
    BY <1>1, <1>2 DEF Programmed, KeyRecord, SameRule
  <2>3. k \in Keys
    BY <1>1, <2>1, KeyType
  <2> QED
    BY <2>2, <2>3, NoneIsNoEntry DEF Covers
<1>4. a \notin pool /\ refCnt[a] = 0 /\ a \notin leaked /\ refCnt \in [AclIds -> Nat]
  BY DEF Install, Free, IInv, TypeOK, IdsMatchBal
<1>5. /\ pool' = pool \cup {a} /\ bal' = [bal EXCEPT ![a] = k]
      /\ aclOf' = [aclOf EXCEPT ![sum] = a]
      /\ refCnt' = [refCnt EXCEPT ![a] = refCnt[a] + 1]
      /\ hit' \in BOOLEAN /\ leaked' = leaked /\ odd' = odd
      /\ Done(c) /\ LetThrough(c, a) /\ Register(c, a, answer) /\ Overwrite(Flow(c))
  BY <1>4 DEF Install, IInv, TypeOK
<1> HIDE DEF k, sum, i
<1>6. /\ flowAcl' = [flowAcl EXCEPT ![Flow(c)] = [acl |-> a, req |-> c.req]]
      /\ flowAcl' \in [Flows -> Entries \cup {None}]
      /\ trapInfo' \in [FlowIds -> Requests \cup {None}]
      /\ vlans' \in [Infos -> SUBSET (0 .. AnyVlan)]
      /\ pending' \subseteq Calls /\ KeyInv'
  BY <1>5, LetThroughStep DEF IInv
<1>7. /\ reg' = [reg EXCEPT ![<<a, i>>] = reg[<<a, i>>] + 1]
      /\ reg' \in [AclIds \X Interfaces -> Nat]
      /\ balReg' \subseteq AclIds \X Interfaces /\ refused' \subseteq AclIds \X Interfaces
      /\ faults' \in 0 .. MaxFaults
  BY <1>1, <1>5, RegisterStep DEF IInv, i
<1>8. \A b \in pool : bal'[b] = bal[b] /\ refCnt'[b] = refCnt[b]
  BY <1>4, <1>5 DEF IInv, TypeOK
<1>9. bal'[a] = k /\ refCnt'[a] = 1 /\ refCnt' \in [AclIds -> Nat]
  BY <1>4, <1>5 DEF IInv, TypeOK
<1>10. TypeOK'
  <2>1. lost' \in [Slots -> Entries \cup {None}]
    BY <1>1, <1>5, OverwriteStep DEF IInv
  <2>2. /\ pool' \subseteq AclIds /\ leaked' \subseteq AclIds
        /\ aclOf' \in [Sums -> AclIds \cup {NoId}]
        /\ bal' \in [AclIds -> Keys \cup {None}] /\ odd' \subseteq {"reuse", "twin"}
    BY <1>1, <1>3, <1>5 DEF IInv, TypeOK
  <2> QED
    BY <1>5, <1>6, <1>7, <1>9, <2>1, <2>2 DEF TypeOK
<1>11. IdsMatchBal'
  <2>1. \A b \in AclIds \ {a} : bal'[b] = bal[b] /\ refCnt'[b] = refCnt[b]
    BY <1>5 DEF IInv, TypeOK
  <2> QED
    BY <1>3, <1>5, <1>9, <2>1 DEF IInv, IdsMatchBal
<1>12. LeakInv'
  BY <1>4, <1>5 DEF IInv, TypeOK, LeakInv
<1>13. CountsAreExact'
  BY <1>1, <1>5, <1>6, <1>7, EntryCounts DEF IInv, i
<1>14. MapInv'
  <2>1. ASSUME NEW s \in Sums, aclOf'[s] # NoId
        PROVE  /\ refCnt'[aclOf'[s]] > 0
               /\ \A l \in Keys : Sum(l) = s => Covers(bal'[aclOf'[s]], l)
    <3>1. CASE s = sum
      <4>1. aclOf'[s] = a
        BY <1>1, <1>5, <3>1 DEF IInv, TypeOK
      <4>2. \A l \in Keys : Sum(l) = s => l = c.key
        BY <1>1, <3>1, NoCollision DEF sum
      <4> QED
        BY <1>3, <1>9, <4>1, <4>2
    <3>2. CASE s # sum
      <4>1. aclOf'[s] = aclOf[s]
        BY <1>1, <1>5, <3>2 DEF IInv, TypeOK
      <4>2. aclOf[s] \in pool
        BY <2>1, <4>1 DEF IInv, TypeOK, MapInv, IdsMatchBal
      <4> QED
        BY <1>8, <2>1, <4>1, <4>2 DEF IInv, MapInv
    <3> QED
      BY <3>1, <3>2
  <2> QED
    BY <2>1 DEF MapInv
<1>15. FlowInv'
  <2>1. Covers(bal'[a], c.key)
    BY <1>3, <1>9
  <2> QED
    BY <1>6, <1>8, <2>1, EntryTraps DEF IInv
<1>16. RegInv'
  BY <1>1, <1>5, RegisterInv DEF IInv, i
<1>17. OddInv'
  BY <1>5, LetThroughOdd DEF IInv
<1> QED
  BY <1>6, <1>10, <1>11, <1>12, <1>13, <1>14, <1>15, <1>16, <1>17 DEF IInv

(* When the last reference of an ACL is taken back, no other flow uses it. *)
LEMMA SoleHolder ==
  ASSUME TypeOK, CountsAreExact, NEW fd \in Flows, Live(fd), refCnt[flowAcl[fd].acl] = 1
  PROVE  \A gd \in Flows \ {fd} : Live(gd) => flowAcl[gd].acl # flowAcl[fd].acl
<1> DEFINE a == flowAcl[fd].acl
<1>1. a \in AclIds /\ fd \in Holding(flowAcl, a)
  BY DEF TypeOK, Live, Entries, Holding
<1>2. IsFiniteSet(Flows) /\ flowAcl \in [Flows -> Entries \cup {None}]
  BY FiniteTables DEF TypeOK
<1>3. /\ Cardinality(Holding(flowAcl, a)) >= 1 /\ Cardinality(Holding(flowAcl, a)) \in Nat
      /\ Cardinality(Holding(flowAcl, a)) = 1 => Holding(flowAcl, a) = {fd}
  BY <1>1, <1>2, Counts
<1>4. Cardinality(Holding(lost, a)) \in Nat
  BY <1>1, LostCounts
<1>5. Holding(flowAcl, a) = {fd}
  BY <1>1, <1>3, <1>4 DEF CountsAreExact
<1> QED
  BY <1>2, <1>5 DEF Holding, Live

LEMMA RemoveInv ==
  ASSUME IInv, NEW fd \in Flows, NEW regAnswer \in Answers, NEW aclAnswer \in Answers,
         Remove(fd, regAnswer, aclAnswer)
  PROVE  IInv'
<1> DEFINE a == flowAcl[fd].acl
           r == flowAcl[fd].req
           i == Intf(r)
           last == refCnt[a] = 1
           gone == last /\ aclAnswer = "ok"
<1>1. /\ Live(fd) /\ flowAcl[fd] \in Entries /\ a \in AclIds /\ r \in Requests
      /\ i \in Interfaces /\ Info(r) \in Infos
      /\ refCnt[a] \in Nat /\ refCnt[a] > 0 /\ a \in pool
      /\ reg[<<a, i>>] \in Nat /\ reg[<<a, i>>] > 0
  <2>1. Live(fd)
    BY DEF Remove
  <2>2. flowAcl[fd] \in Entries /\ refCnt[a] > 0 /\ a \in pool /\ reg[<<a, i>>] > 0
    BY <2>1, HeldIsCounted DEF IInv
  <2> QED
    BY <2>1, <2>2 DEF IInv, TypeOK, Entries, Interfaces, Infos
<1>2. /\ reg' = [reg EXCEPT ![<<a, i>>] = reg[<<a, i>>] - 1]
      /\ refCnt' = [refCnt EXCEPT ![a] = refCnt[a] - 1]
      /\ balReg' = Deregistered(a, i, regAnswer) \ (IF gone THEN {a} \X Interfaces ELSE {})
      /\ refused' = IF reg[<<a, i>>] = 1 THEN refused \ {<<a, i>>} ELSE refused
      /\ bal' = IF gone THEN [bal EXCEPT ![a] = None] ELSE bal
      /\ pool' = IF gone THEN pool \ {a} ELSE pool
      /\ leaked' = IF last /\ ~gone THEN leaked \cup {a} ELSE leaked
      /\ aclOf' = IF last THEN [s \in Sums |-> IF aclOf[s] = a THEN NoId ELSE aclOf[s]]
                  ELSE aclOf
      /\ flowAcl' = [flowAcl EXCEPT ![fd] = None]
      /\ vlans' = VlansAfter(fd[1])
      /\ UNCHANGED <<trapInfo, hit, pending, lost, odd>>
  BY <1>1 DEF Remove, IdsAfter, FlowsAfter, Answers
<1>3. \E n \in Nat : Fault(n)
  <2> DEFINE S == {x \in {1, 2} : (IF x = 1 THEN regAnswer ELSE aclAnswer) = "err"}
  <2>1. IsFiniteSet({1} \cup {2})
    BY FS_Singleton, FS_Union
  <2>2. S \subseteq {1} \cup {2}
    OBVIOUS
  <2> HIDE DEF S
  <2>3. Cardinality(S) \in Nat
    BY <2>1, <2>2, FS_Subset, FS_CardinalityType
  <2>4. Fault(Cardinality(S))
    BY DEF Remove, S
  <2> QED
    BY <2>3, <2>4
<1>4. last => \A gd \in Flows \ {fd} : Live(gd) => flowAcl[gd].acl # a
  BY <1>1, SoleHolder DEF IInv
<1> HIDE DEF a, r, i, last
<1>5. /\ refCnt' \in [AclIds -> Nat] /\ refCnt'[a] = refCnt[a] - 1
      /\ \A b \in AclIds \ {a} : refCnt'[b] = refCnt[b]
      /\ last <=> refCnt'[a] = 0
  BY <1>1, <1>2 DEF IInv, TypeOK, last
<1>6. /\ reg' \in [AclIds \X Interfaces -> Nat] /\ reg'[<<a, i>>] = reg[<<a, i>>] - 1
      /\ \A b \in AclIds, j \in Interfaces : <<b, j>> # <<a, i>> => reg'[<<b, j>>] = reg[<<b, j>>]
  BY <1>1, <1>2 DEF IInv, TypeOK
<1>7. /\ flowAcl' \in [Flows -> Entries \cup {None}] /\ flowAcl'[fd] = None
      /\ \A gd \in Flows \ {fd} : flowAcl'[gd] = flowAcl[gd]
  BY <1>2 DEF IInv, TypeOK
<1>8. /\ bal' \in [AclIds -> Keys \cup {None}] /\ gone => bal'[a] = None
      /\ \A b \in AclIds : b # a \/ ~gone => bal'[b] = bal[b]
  BY <1>1, <1>2 DEF IInv, TypeOK
<1>9. TypeOK'
  <2>1. vlans' \in [Infos -> SUBSET (0 .. AnyVlan)]
    <3>1. CASE trapInfo[fd[1]] = None
      BY <1>2, <3>1 DEF IInv, TypeOK, VlansAfter
    <3>2. CASE trapInfo[fd[1]] # None
      <4>1. trapInfo[fd[1]] \in Requests /\ Info(trapInfo[fd[1]]) \in Infos
        BY <3>2 DEF IInv, TypeOK, Flows, Infos
      <4> QED
        BY <1>2, <3>2, <4>1 DEF IInv, TypeOK, VlansAfter
    <3> QED
      BY <3>1, <3>2
  <2>2. faults' \in 0 .. MaxFaults
    BY <1>3, AclAssumption DEF IInv, TypeOK, Fault
  <2>3. /\ aclOf' \in [Sums -> AclIds \cup {NoId}]
        /\ pool' \subseteq AclIds /\ leaked' \subseteq AclIds
        /\ balReg' \subseteq AclIds \X Interfaces /\ refused' \subseteq AclIds \X Interfaces
    BY <1>1, <1>2 DEF IInv, TypeOK, Deregistered
  <2> QED
    BY <1>2, <1>5, <1>6, <1>7, <1>8, <2>1, <2>2, <2>3 DEF IInv, TypeOK
<1>10. LeakInv' /\ IdsMatchBal'
  <2>1. a \notin leaked
    BY <1>1 DEF IInv, LeakInv
  <2>2. CASE gone
    BY <1>1, <1>2, <1>5, <1>8, <2>1, <2>2, NoneIsNoEntry DEF IInv, LeakInv, IdsMatchBal, TypeOK
  <2>3. CASE last /\ ~gone
    BY <1>1, <1>2, <1>5, <1>8, <2>3 DEF IInv, LeakInv, IdsMatchBal, TypeOK
  <2>4. CASE ~last
    BY <1>1, <1>2, <1>5, <1>8, <2>1, <2>4 DEF IInv, LeakInv, IdsMatchBal, TypeOK
  <2> QED
    BY <2>2, <2>3, <2>4
<1>11. CountsAreExact'
  <2> DEFINE old == flowAcl[fd]
  <2>1. \A b : /\ Weight(old, b) = (IF b = a THEN 1 ELSE 0)
               /\ \A j : WeightOn(old, b, j) = (IF b = a /\ j = i THEN 1 ELSE 0)
               /\ Weight(None, b) = 0 /\ \A j : WeightOn(None, b, j) = 0
    BY <1>1 DEF Weight, WeightOn, Live, a, i, r
  <2> HIDE DEF old
  <2>2. \A b \in AclIds :
          /\ Cardinality(Holding(flowAcl, b)) \in Nat
          /\ Cardinality(Holding(flowAcl', b)) =
               Cardinality(Holding(flowAcl, b)) - Weight(old, b) + Weight(None, b)
          /\ \A j \in Interfaces :
               /\ Cardinality(HoldingOn(flowAcl, b, j)) \in Nat
               /\ Cardinality(HoldingOn(flowAcl', b, j)) = Cardinality(HoldingOn(flowAcl, b, j))
                    - WeightOn(old, b, j) + WeightOn(None, b, j)
    BY <1>2, FlowCounts DEF old, IInv
  <2>3. \A b \in AclIds : /\ Cardinality(Holding(lost, b)) \in Nat
                           /\ \A j \in Interfaces : Cardinality(HoldingOn(lost, b, j)) \in Nat
    BY LostCounts DEF IInv
  <2>4. ASSUME NEW b \in AclIds
        PROVE  refCnt'[b] = Cardinality(Holding(flowAcl', b)) + Cardinality(Holding(lost', b))
    <3>1. refCnt[b] = Cardinality(Holding(flowAcl, b)) + Cardinality(Holding(lost, b))
      BY DEF IInv, CountsAreExact
    <3>2. refCnt'[b] = refCnt[b] - (IF b = a THEN 1 ELSE 0) /\ refCnt[b] \in Nat
      BY <1>5 DEF IInv, TypeOK
    <3>3. /\ Cardinality(Holding(flowAcl, b)) \in Nat /\ Cardinality(Holding(lost, b)) \in Nat
          /\ Cardinality(Holding(flowAcl', b)) =
               Cardinality(Holding(flowAcl, b)) - (IF b = a THEN 1 ELSE 0)
      BY <2>1, <2>2, <2>3
    <3> QED
      BY <1>2, <3>1, <3>2, <3>3
  <2>5. ASSUME NEW b \in AclIds, NEW j \in Interfaces
        PROVE  reg'[<<b, j>>] = Cardinality(HoldingOn(flowAcl', b, j))
                                 + Cardinality(HoldingOn(lost', b, j))
    <3>1. reg[<<b, j>>] = Cardinality(HoldingOn(flowAcl, b, j))
                          + Cardinality(HoldingOn(lost, b, j))
      BY DEF IInv, CountsAreExact
    <3>2. /\ reg'[<<b, j>>] = reg[<<b, j>>] - (IF b = a /\ j = i THEN 1 ELSE 0)
          /\ reg[<<b, j>>] \in Nat
      BY <1>6 DEF IInv, TypeOK
    <3>3. /\ Cardinality(HoldingOn(flowAcl, b, j)) \in Nat
          /\ Cardinality(HoldingOn(lost, b, j)) \in Nat
          /\ Cardinality(HoldingOn(flowAcl', b, j)) =
               Cardinality(HoldingOn(flowAcl, b, j)) - (IF b = a /\ j = i THEN 1 ELSE 0)
      BY <2>1, <2>2, <2>3
    <3> QED
      BY <1>2, <3>1, <3>2, <3>3
  <2> QED
    BY <2>4, <2>5 DEF CountsAreExact
<1>12. MapInv'
  <2>1. ASSUME NEW s \in Sums, aclOf'[s] # NoId
        PROVE  aclOf'[s] = aclOf[s] /\ (last => aclOf[s] # a)
    BY <1>2, <2>1 DEF IInv, TypeOK
  <2>2. ASSUME NEW s \in Sums, aclOf'[s] # NoId
        PROVE  refCnt'[aclOf[s]] > 0 /\ bal'[aclOf[s]] = bal[aclOf[s]] /\ aclOf[s] # NoId
    <3>1. aclOf[s] \in AclIds /\ refCnt[aclOf[s]] > 0 /\ aclOf[s] # NoId
      BY <2>1, <2>2 DEF IInv, TypeOK, MapInv
    <3>2. refCnt'[aclOf[s]] \in Nat /\ (aclOf[s] = a => ~last /\ ~gone)
      BY <1>5, <2>1, <2>2, <3>1
    <3>3. bal'[aclOf[s]] = bal[aclOf[s]]
      BY <1>8, <3>1, <3>2
    <3>4. refCnt'[aclOf[s]] > 0
      <4>1. CASE aclOf[s] = a
        <5>1. refCnt'[a] # 0
          BY <1>5, <3>2, <4>1
        <5> QED
          BY <3>2, <4>1, <5>1
      <4>2. CASE aclOf[s] # a
        BY <1>5, <3>1, <4>2
      <4> QED
        BY <4>1, <4>2
    <3> QED
      BY <3>1, <3>3, <3>4
  <2> QED
    BY <2>1, <2>2 DEF IInv, MapInv
<1>13. FlowInv'
  <2>1. ASSUME NEW gd \in Flows, Live(gd)'
        PROVE  /\ Live(gd) /\ flowAcl'[gd] = flowAcl[gd]
               /\ bal'[flowAcl[gd].acl] = bal[flowAcl[gd].acl]
    <3>1. gd # fd /\ Live(gd) /\ flowAcl'[gd] = flowAcl[gd]
      BY <1>7, <2>1 DEF Live
    <3>2. flowAcl[gd].acl \in AclIds
      BY <3>1 DEF IInv, TypeOK, Live, Entries
    <3> QED
      BY <1>4, <1>8, <3>1, <3>2
  <2> QED
    BY <2>1 DEF IInv, FlowInv, Traps
<1>14. RegInv'
  <2>1. \A j \in Interfaces : reg'[<<a, j>>] <= refCnt'[a]
    <3> DEFINE U == flowAcl'
               V == lost'
    <3>1. /\ IsFiniteSet(Flows) /\ U \in [Flows -> Entries \cup {None}]
          /\ IsFiniteSet(Slots) /\ V \in [Slots -> Entries \cup {None}]
      BY <1>7, <1>9, FiniteTables DEF TypeOK
    <3> HIDE DEF U, V
    <3>2. \A j \in Interfaces :
            /\ Cardinality(Holding(U, a)) \in Nat
            /\ Cardinality(HoldingOn(U, a, j)) \in Nat
            /\ Cardinality(HoldingOn(U, a, j)) <= Cardinality(Holding(U, a))
      BY <3>1, Counts
    <3>3. \A j \in Interfaces :
            /\ Cardinality(Holding(V, a)) \in Nat
            /\ Cardinality(HoldingOn(V, a, j)) \in Nat
            /\ Cardinality(HoldingOn(V, a, j)) <= Cardinality(Holding(V, a))
      BY <3>1, Counts
    <3> QED
      BY <1>1, <1>11, <3>2, <3>3 DEF CountsAreExact, U, V
  <2>2. ASSUME NEW b \in AclIds, NEW j \in Interfaces
        PROVE  /\ reg'[<<b, j>>] > 0 => <<b, j>> \in balReg' \cup refused'
               /\ <<b, j>> \in refused' => reg'[<<b, j>>] > 0
               /\ <<b, j>> \in balReg' => b \in pool'
    <3>1. /\ reg[<<b, j>>] > 0 => <<b, j>> \in balReg \cup refused
          /\ <<b, j>> \in refused => reg[<<b, j>>] > 0
          /\ <<b, j>> \in balReg => b \in pool
          /\ reg[<<b, j>>] \in Nat
      BY DEF IInv, TypeOK, RegInv, Registered
    <3>2. <<b, j>> \in balReg' => b \in pool'
      BY <1>2, <3>1 DEF Deregistered
    <3>3. CASE <<b, j>> = <<a, i>>
      <4>1. reg'[<<a, i>>] > 0 => reg[<<a, i>>] # 1 /\ ~gone
        BY <1>1, <1>5, <1>6, <2>1
      <4> QED
        BY <1>1, <1>2, <1>6, <3>1, <3>2, <3>3, <4>1 DEF Deregistered
    <3>4. CASE <<b, j>> # <<a, i>>
      <4>1. reg'[<<b, j>>] = reg[<<b, j>>]
        BY <1>6, <3>4
      <4>2. b = a /\ gone => reg'[<<b, j>>] = 0
        BY <1>5, <2>1, <3>1, <4>1
      <4> QED
        BY <1>2, <3>1, <3>2, <3>4, <4>1, <4>2 DEF Deregistered
    <3> QED
      BY <3>3, <3>4
  <2> QED
    BY <2>2 DEF RegInv, Registered
<1>15. KeyInv'
  BY <1>2 DEF IInv, KeyInv
<1>16. OddInv'
  <2> SUFFICES ASSUME odd = {}
               PROVE  OddInv'
    BY <1>2 DEF OddInv
  <2>1. trapInfo[fd[1]] = r /\ r # None /\ r.vid # AnyVlan
    BY <1>1, NoneIsNoEntry, AclAssumption DEF IInv, OddInv, r
  <2>2. vlans' = [vlans EXCEPT ![Info(r)] = vlans[Info(r)] \ {r.vid}]
    BY <1>1, <1>2, <2>1 DEF VlansAfter
  <2>3. ASSUME NEW gd \in Flows, Live(gd)'
        PROVE  /\ Live(gd) /\ flowAcl'[gd] = flowAcl[gd] /\ gd # fd
               /\ flowAcl[gd].req \in Requests /\ ~Same(flowAcl[gd].req, r)
    <3>1. gd # fd /\ Live(gd) /\ flowAcl'[gd] = flowAcl[gd]
      BY <1>7, <2>3 DEF Live
    <3> QED
      BY <1>1, <3>1 DEF IInv, TypeOK, OddInv, Live, Entries, r
  <2>4. ASSUME NEW gd \in Flows, Live(gd)'
        PROVE  Allowed(flowAcl[gd].req)'
    <3> DEFINE q == flowAcl[gd].req
    <3>1. q \in Requests /\ Info(q) \in Infos /\ ~Same(q, r) /\ flowAcl'[gd] = flowAcl[gd]
      BY <2>3, <2>4 DEF Infos
    <3>2. PICK v \in vlans[Info(q)] : v \in {q.vid, AnyVlan}
      BY <2>3, <2>4 DEF IInv, OddInv, Allowed
    <3>3. v \in vlans'[Info(q)]
      BY <1>1, <2>1, <2>2, <3>1, <3>2 DEF IInv, TypeOK, Same
    <3> QED
      BY <3>1, <3>2, <3>3 DEF Allowed
  <2>5. ASSUME NEW gd \in Flows, Live(gd)'
        PROVE  /\ trapInfo'[gd[1]] = flowAcl'[gd].req
               /\ \A hd \in Flows : Live(hd)' /\ gd # hd => ~Same(flowAcl'[gd].req, flowAcl'[hd].req)
               /\ \A c \in pending' : c.flow # gd[1] /\ ~Same(flowAcl'[gd].req, c.req)
    BY <1>2, <2>3, <2>5 DEF IInv, OddInv
  <2> QED
    BY <1>2, <2>4, <2>5 DEF IInv, OddInv
<1> QED
  BY <1>9, <1>10, <1>11, <1>12, <1>13, <1>14, <1>15, <1>16 DEF IInv

(* A new call: the flows stay as they are, and a call that shares its id   *)
(* or its trap is an oddity.                                               *)
LEMMA FormulateInv ==
  ASSUME IInv, NEW f \in FlowIds, NEW r \in Requests, Formulate(f, r)
  PROVE  IInv'
<1> DEFINE new == [flow |-> f, req |-> r, key |-> KeyOf(r, hit)]
<1>1. /\ pending' = pending \cup {new} /\ odd' = odd \cup Oddities(f, r)
      /\ UNCHANGED <<agent, device, refused, leaked, lost>>
  BY DEF Formulate
<1>2. new \in Calls /\ new.req = r /\ new.flow = f /\ \E full \in BOOLEAN : new.key = KeyOf(r, full)
  BY KeyType DEF Calls, IInv, TypeOK
<1> HIDE DEF new
<1>3. \E n \in Nat : Fault(n)
  <2>1. Oddities(f, r) \subseteq {"reuse"} \cup {"twin"}
    BY DEF Oddities
  <2>2. IsFiniteSet({"reuse"} \cup {"twin"})
    BY FS_Singleton, FS_Union
  <2>3. Cardinality(Oddities(f, r)) \in Nat
    BY <2>1, <2>2, FS_Subset, FS_CardinalityType
  <2> QED
    BY <2>3 DEF Formulate
<1>4. TypeOK'
  <2>1. faults' \in 0 .. MaxFaults
    BY <1>3, AclAssumption DEF IInv, TypeOK, Fault
  <2>2. odd' \subseteq {"reuse", "twin"} /\ pending' \subseteq Calls
    BY <1>1, <1>2 DEF IInv, TypeOK, Oddities
  <2> QED
    BY <1>1, <2>1, <2>2 DEF IInv, TypeOK, agent, device
<1>5. IdsMatchBal' /\ CountsAreExact' /\ LeakInv' /\ MapInv'
  BY <1>1 DEF IInv, IdsMatchBal, CountsAreExact, LeakInv, MapInv, agent, device
<1>6. FlowInv' /\ RegInv'
  BY <1>1 DEF IInv, FlowInv, Live, Traps, RegInv, Registered, agent, device
<1>7. KeyInv'
  BY <1>1, <1>2 DEF IInv, KeyInv
<1>8. OddInv'
  <2> SUFFICES ASSUME odd' = {}
               PROVE  OddInv'
    BY DEF OddInv
  <2>1. odd = {} /\ ~InUse(f) /\ ~Twin(r)
    BY <1>1 DEF Oddities
  <2>2. ASSUME NEW c \in pending
        PROVE  c.flow # f /\ ~Same(c.req, r) /\ ~Same(r, c.req)
    BY <2>1 DEF InUse, Twin, Same
  <2>3. ASSUME NEW fd \in Flows, Live(fd)
        PROVE  fd[1] # f /\ ~Same(flowAcl[fd].req, r)
    BY <2>1, <2>3 DEF InUse, Twin, Flows
  <2>4. ASSUME NEW fd \in Flows, Live(fd)'
        PROVE  /\ trapInfo'[fd[1]] = flowAcl'[fd].req
               /\ Allowed(flowAcl[fd].req)'
               /\ \A gd \in Flows : Live(gd)' /\ fd # gd => ~Same(flowAcl'[fd].req, flowAcl'[gd].req)
               /\ \A c \in pending' : c.flow # fd[1] /\ ~Same(flowAcl'[fd].req, c.req)
    BY <1>1, <1>2, <2>1, <2>3, <2>4 DEF IInv, OddInv, Live, Allowed, agent
  <2>5. \A c, d \in pending' : c # d => c.flow # d.flow /\ ~Same(c.req, d.req)
    BY <1>1, <1>2, <2>1, <2>2 DEF IInv, OddInv
  <2> QED
    BY <2>4, <2>5 DEF OddInv
<1> QED
  BY <1>4, <1>5, <1>6, <1>7, <1>8 DEF IInv

(* An addition that comes to nothing only leaves the set of calls.         *)
LEMMA FailInv ==
  ASSUME IInv, pending' \subseteq pending, faults' \in 0 .. MaxFaults,
         UNCHANGED <<agent, device, refused, leaked, lost, odd>>
  PROVE  IInv'
<1>1. TypeOK' /\ KeyInv'
  BY DEF IInv, TypeOK, KeyInv, agent, device
<1>2. IdsMatchBal' /\ CountsAreExact' /\ LeakInv' /\ MapInv'
  BY DEF IInv, IdsMatchBal, CountsAreExact, LeakInv, MapInv, agent, device
<1>3. FlowInv' /\ RegInv'
  BY DEF IInv, FlowInv, Live, Traps, RegInv, Registered, agent, device
<1>4. OddInv'
  BY DEF IInv, OddInv, Live, Allowed, agent
<1> QED
  BY <1>1, <1>2, <1>3, <1>4 DEF IInv

LEMMA StepInv ==
  IInv /\ [Next]_vars => IInv'
<1> SUFFICES ASSUME IInv, [Next]_vars
             PROVE  IInv'
  OBVIOUS
<1>1. ASSUME NEW f \in FlowIds, NEW r \in Requests, Formulate(f, r)
      PROVE  IInv'
  BY <1>1, FormulateInv
<1>2. ASSUME NEW c \in pending, Addition(c)
      PROVE  IInv'
  <2>1. CASE Again(c) \/ Exhausted(c)
    BY <2>1, FailInv DEF Again, Exhausted, Done, IInv, TypeOK
  <2>2. CASE InstallFails(c)
    <3>1. faults' \in 0 .. MaxFaults
      BY <2>2, AclAssumption DEF InstallFails, Fault, IInv, TypeOK
    <3> QED
      BY <2>2, <3>1, FailInv DEF InstallFails, Done
  <2>3. ASSUME NEW answer \in Answers, Share(c, answer)
        PROVE  IInv'
    BY <2>3, ShareInv
  <2>4. ASSUME NEW answer \in Answers, NEW a \in AclIds, Install(c, a, answer)
        PROVE  IInv'
    BY <2>4, InstallInv
  <2> QED
    BY <1>2, <2>1, <2>2, <2>3, <2>4 DEF Addition
<1>3. ASSUME NEW fd \in Flows, NEW regAnswer \in Answers, NEW aclAnswer \in Answers,
             Remove(fd, regAnswer, aclAnswer)
      PROVE  IInv'
  BY <1>3, RemoveInv
<1>4. CASE UNCHANGED vars
  BY <1>4, FailInv DEF vars, IInv, TypeOK
<1> QED
  BY <1>1, <1>2, <1>3, <1>4 DEF Next

-----------------------------------------------------------------------------
(* The invariant holds in every reachable state.                           *)
THEOREM Invariance == Spec => []IInv
  BY InitInv, StepInv, PTL DEF Spec

(* acl_id_bitset, the maps and the counts keep their types; no unsigned    *)
(* count of references or registrations goes below zero.                   *)
THEOREM TypeCorrect == Spec => []TypeOK
<1>1. IInv => TypeOK
  BY DEF IInv
<1> QED
  BY <1>1, Invariance, PTL

(* acl_ref_cnt and intf_acl_registration_ref_cnt count exactly the flows   *)
(* that refer to an ACL, and the entries that were overwritten.            *)
THEOREM CountsExact == Spec => []CountsAreExact
<1>1. IInv => CountsAreExact
  BY DEF IInv
<1> QED
  BY <1>1, Invariance, PTL

(* An id is taken exactly as long as BAL has an ACL under it.              *)
THEOREM IdsMatch == Spec => []IdsMatchBal
<1>1. IInv => IdsMatchBal
  BY DEF IInv
<1> QED
  BY <1>1, Invariance, PTL

(* is_packet_allowed lets the packets of every installed flow through.     *)
THEOREM InstalledAllowed == Spec => []InstalledIsAllowed
<1>1. IInv => InstalledIsAllowed
  BY DEF IInv, OddInv, InstalledIsAllowed
<1> QED
  BY <1>1, Invariance, PTL

-----------------------------------------------------------------------------
(* The manager implements TrapTable.                                       *)

WantedIsTrapped == \A fd \in Flows : Live(fd) => flowAcl[fd].req \in trappedBar

(* What an installed flow asks for is trapped: its ACL covers it and its   *)
(* interface is counted, so it is registered.                              *)
LEMMA InvTraps == IInv => WantedIsTrapped
<1> SUFFICES ASSUME IInv, NEW fd \in Flows, Live(fd)
             PROVE  flowAcl[fd].req \in trappedBar
  BY DEF WantedIsTrapped
<1>1. flowAcl[fd] \in Entries /\ reg[<<flowAcl[fd].acl, Intf(flowAcl[fd].req)>>] > 0
  BY HeldIsCounted DEF IInv
<1>2. /\ flowAcl[fd].acl \in AclIds /\ flowAcl[fd].req \in Requests
      /\ Intf(flowAcl[fd].req) \in Interfaces
  BY <1>1 DEF Entries, Interfaces
<1> QED
  BY <1>1, <1>2 DEF IInv, FlowInv, RegInv, trappedBar

LEMMA InvTrapsNext == IInv' => WantedIsTrapped'
  BY InvTraps, PTL

(* A step that installs a flow is an Add: ACL a is the only one that may   *)
(* change, it covers the flow's key, and the flow's interface is the only  *)
(* new registration.                                                       *)
LEMMA AddStep ==
  ASSUME IInv, IInv', NEW c \in pending, NEW a \in AclIds,
         flowAcl' = [flowAcl EXCEPT ![Flow(c)] = [acl |-> a, req |-> c.req]],
         Covers(bal'[a], c.key),
         \A b \in AclIds : bal[b] # None => bal'[b] = bal[b],
         \A b \in AclIds \ {a} : bal'[b] = bal[b],
         balReg \subseteq balReg', balReg' \subseteq balReg \cup {<<a, Intf(c.req)>>},
         refused \subseteq refused', refused' \subseteq refused \cup {<<a, Intf(c.req)>>},
         bal'[a] # bal[a] => \A i \in Interfaces : <<a, i>> \notin balReg \cup refused
  PROVE  Table!Next
<1> DEFINE r == c.req
           new == [acl |-> a, req |-> r]
<1>1. /\ r \in Requests /\ Flow(c) \in Flows /\ SameRule(c.key, KeyOf(r, FALSE))
  BY CallType DEF IInv
<1>2. new \in Entries /\ new # None /\ new.req = r
  BY <1>1, NoneIsNoEntry DEF Entries
<1>3. /\ flowAcl'[Flow(c)] = new
      /\ \A gd \in Flows \ {Flow(c)} : flowAcl'[gd] = flowAcl[gd]
  BY <1>1 DEF IInv, TypeOK
<1> HIDE DEF new, r
<1>4. wantedBar' = [wantedBar EXCEPT ![Flow(c)] = r] /\ r = wantedBar'[Flow(c)]
  <2>1. \A gd \in Flows :
          /\ wantedBar'[gd] = IF gd = Flow(c) THEN r ELSE wantedBar[gd]
          /\ wantedBar[gd] = IF Live(gd) THEN flowAcl[gd].req ELSE None
    BY <1>1, <1>2, <1>3 DEF wantedBar, Live
  <2>2. /\ wantedBar' = [gd \in Flows |-> wantedBar'[gd]]
        /\ wantedBar = [gd \in Flows |-> wantedBar[gd]]
    BY DEF wantedBar
  <2> QED
    BY <1>1, <2>1, <2>2
<1>5. trappedBar \subseteq trappedBar'
  BY DEF trappedBar, Traps, Covers, Registered
<1>6. r \in trappedBar'
  BY <1>1, <1>2, <1>3, InvTrapsNext DEF WantedIsTrapped, Live
<1>7. ASSUME NEW s \in trappedBar', s \notin trappedBar
      PROVE  s \in Requests /\ <<r, s>> \in KinOf
  <2>1. PICK b \in AclIds : Traps(b, s)' /\ Registered(b, Intf(s))'
    BY <1>7 DEF trappedBar
  <2>2. s \in Requests /\ Intf(s) \in Interfaces
    BY <1>7 DEF trappedBar, Interfaces
  <2>3. b = a /\ Intf(s) = Intf(r)
    BY <1>7, <2>1, <2>2 DEF trappedBar, Traps, Registered, r
  <2>4. SameRule(bal'[a], KeyOf(s, FALSE)) /\ SameRule(bal'[a], c.key)
    BY <2>1, <2>3 DEF Traps, Covers
  <2> QED
    BY <1>1, <2>2, <2>3, <2>4 DEF SameRule, KinOf
<1>8. Table!Add(Flow(c), r)
  BY <1>4, <1>5, <1>6, <1>7 DEF Table!Add
<1> QED
  BY <1>1, <1>8 DEF Table!Next

LEMMA RemoveStep ==
  ASSUME IInv, IInv', NEW fd \in Flows, NEW regAnswer \in Answers, NEW aclAnswer \in Answers,
         Remove(fd, regAnswer, aclAnswer)
  PROVE  Table!Next
<1>1. /\ Live(fd) /\ flowAcl[fd] \in Entries /\ flowAcl[fd].req # None
      /\ flowAcl' = [flowAcl EXCEPT ![fd] = None]
  BY NoneIsNoEntry DEF Remove, FlowsAfter, IInv, TypeOK, Live, Entries
<1>2. flowAcl'[fd] = None /\ \A gd \in Flows \ {fd} : flowAcl'[gd] = flowAcl[gd]
  BY <1>1 DEF IInv, TypeOK
<1>3. /\ wantedBar[fd] # None /\ wantedBar'[fd] = None
      /\ wantedBar' = [wantedBar EXCEPT ![fd] = None]
  <2>1. wantedBar[fd] # None
    BY <1>1 DEF wantedBar
  <2>2. \A gd \in Flows : wantedBar'[gd] = IF gd = fd THEN None ELSE wantedBar[gd]
    BY <1>1, <1>2 DEF wantedBar, Live
  <2>3. /\ wantedBar' = [gd \in Flows |-> wantedBar'[gd]]
        /\ wantedBar = [gd \in Flows |-> wantedBar[gd]]
    BY DEF wantedBar
  <2> QED
    BY <2>1, <2>2, <2>3
<1>4. trappedBar' \subseteq trappedBar
  <2>1. \A b \in AclIds : bal'[b] # None => bal'[b] = bal[b]
    BY DEF Remove, IInv, TypeOK
  <2>2. balReg' \subseteq balReg /\ refused' \subseteq refused
    BY DEF Remove, Deregistered
  <2> QED
    BY <2>1, <2>2 DEF trappedBar, Traps, Covers, Registered
<1>5. {wantedBar'[gd] : gd \in Flows} \ {None} \subseteq trappedBar'
  BY InvTrapsNext DEF WantedIsTrapped, wantedBar
<1>6. Table!Remove(fd)
  BY <1>3, <1>4, <1>5 DEF Table!Remove, Table!Wanted
<1> QED
  BY <1>6 DEF Table!Next

LEMMA TableStep ==
  IInv /\ IInv' /\ [Next]_vars => [Table!Next]_<<wantedBar, trappedBar>>
<1> SUFFICES ASSUME IInv, IInv', [Next]_vars
             PROVE  Table!Next \/ UNCHANGED <<wantedBar, trappedBar>>
  OBVIOUS
<1>1. ASSUME UNCHANGED <<flowAcl, bal, balReg, refused>>
      PROVE  UNCHANGED <<wantedBar, trappedBar>>
  BY <1>1 DEF wantedBar, trappedBar, Live, Traps, Registered
<1>2. ASSUME NEW f \in FlowIds, NEW r \in Requests, Formulate(f, r)
      PROVE  UNCHANGED <<wantedBar, trappedBar>>
  BY <1>1, <1>2 DEF Formulate, agent, device
<1>3. ASSUME NEW c \in pending, Again(c) \/ Exhausted(c) \/ InstallFails(c)
      PROVE  UNCHANGED <<wantedBar, trappedBar>>
  BY <1>1, <1>3 DEF Again, Exhausted, InstallFails, agent, device
<1>4. ASSUME NEW c \in pending, NEW answer \in Answers, Share(c, answer)
      PROVE  Table!Next
  <2> DEFINE a == aclOf[Sum(c.key)]
  <2>1. c.key \in Keys /\ Sum(c.key) \in Sums /\ Intf(c.req) \in Interfaces
    BY CallType DEF IInv
  <2>2. a \in AclIds /\ Covers(bal[a], c.key)
    BY <1>4, <2>1 DEF IInv, TypeOK, Share, Known, MapInv
  <2>3. LetThrough(c, a) /\ Register(c, a, answer) /\ bal' = bal
    BY <1>4 DEF Share
  <2> HIDE DEF a
  <2>4. /\ balReg \subseteq balReg' /\ balReg' \subseteq balReg \cup {<<a, Intf(c.req)>>}
        /\ refused \subseteq refused' /\ refused' \subseteq refused \cup {<<a, Intf(c.req)>>}
    BY <2>1, <2>2, <2>3, RegisterStep DEF IInv
  <2> QED
    BY <2>2, <2>3, <2>4, AddStep DEF LetThrough
<1>5. ASSUME NEW c \in pending, NEW answer \in Answers, NEW a \in AclIds, Install(c, a, answer)
      PROVE  Table!Next
  <2>1. c.key \in Keys /\ Intf(c.req) \in Interfaces
    BY CallType DEF IInv
  <2>2. LetThrough(c, a) /\ Register(c, a, answer)
    BY <1>5 DEF Install
  <2>3. a \notin pool /\ refCnt[a] = 0 /\ bal[a] = None
    BY <1>5 DEF Install, Free, IInv, TypeOK, IdsMatchBal
  <2>4. /\ bal' = [bal EXCEPT ![a] = Programmed(c.key)]
        /\ \A b \in AclIds \ {a} : bal'[b] = bal[b]
        /\ bal'[a] = Programmed(c.key)
    BY <1>5 DEF Install, IInv, TypeOK
  <2>5. Covers(bal'[a], c.key)
    <3>1. aclOf'[Sum(c.key)] = a /\ a # NoId /\ Sum(c.key) \in Sums
      BY <1>5, CallType DEF Install, IInv, TypeOK, AclIds, NoId
    <3> QED
      BY <2>1, <3>1 DEF IInv, MapInv
  <2>6. /\ balReg \subseteq balReg' /\ balReg' \subseteq balReg \cup {<<a, Intf(c.req)>>}
        /\ refused \subseteq refused' /\ refused' \subseteq refused \cup {<<a, Intf(c.req)>>}
    BY <2>1, <2>2, RegisterStep DEF IInv
  <2>7. \A i \in Interfaces : <<a, i>> \notin balReg \cup refused
    <3>1. \A i \in Interfaces : reg[<<a, i>>] <= refCnt[a] /\ reg[<<a, i>>] \in Nat
      BY HeldIsCounted DEF IInv, TypeOK
    <3> QED
      BY <2>3, <3>1 DEF IInv, RegInv
  <2>8. \A b \in AclIds : bal[b] # None => bal'[b] = bal[b]
    BY <2>3, <2>4
  <2> QED
    BY <2>2, <2>4, <2>5, <2>6, <2>7, <2>8, AddStep DEF LetThrough
<1>6. ASSUME NEW fd \in Flows, NEW regAnswer \in Answers, NEW aclAnswer \in Answers,
             Remove(fd, regAnswer, aclAnswer)
      PROVE  Table!Next
  BY <1>6, RemoveStep
<1>7. CASE UNCHANGED vars
  BY <1>1, <1>7 DEF vars, agent, device
<1> QED
  BY <1>2, <1>3, <1>4, <1>5, <1>6, <1>7 DEF Next, Addition

(* As long as a trap-to-host flow is installed its packets are trapped,    *)
(* however many flows share its ACL, in whatever order they come and go    *)
(* and wherever BAL refuses; and no flow traps packets foreign to it.      *)
THEOREM Refinement == Spec => ImplementsTrapTable
<1>1. Init => Table!Init
  BY DEF Init, Table!Init, wantedBar, trappedBar, Live, Traps, Covers
<1>2. IInv /\ IInv' /\ [Next]_vars => [Table!Next]_<<wantedBar, trappedBar>>
  BY TableStep
<1> QED
  BY <1>1, <1>2, Invariance, PTL DEF Spec, ImplementsTrapTable, Table!Spec
=============================================================================
