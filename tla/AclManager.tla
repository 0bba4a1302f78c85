----------------------------- MODULE AclManager -----------------------------
(***************************************************************************)
(* The ACLs behind the trap-to-host flows.                                 *)
(*                                                                         *)
(* Flows with the same classifier share one ACL in BAL.  The agent counts  *)
(* the flows that refer to an ACL, and those that refer to it from one     *)
(* interface: the first flow of an ACL installs it and the last removes    *)
(* it, the first flow of an interface registers it and the last            *)
(* deregisters it.  BAL supports few ACLs with a VLAN; once an ACL id      *)
(* reaches a limit, VLANs are left out for good and a filter on the list   *)
(* of VLANs of an interface and GEM port lets the trapped packets through. *)
(*                                                                         *)
(* FlowAdd_ forms the key of a classifier without a lock; the rest of an   *)
(* addition, and a removal, is one critical section of                     *)
(* acl_packet_trap_handler_lock and so one action, BAL's answers included. *)
(*                                                                         *)
(* Data abstracted: the priority, action and counters of an ACL; the       *)
(* parsing of a trapped packet (see Allowed).                              *)
(***************************************************************************)
EXTENDS Integers, FiniteSets

CONSTANTS
  FlowIds,         \* device flow ids
  Requests,        \* the trap-to-host flows VOLTHA may ask for
  MaxAclId,        \* MAX_ACL_ID
  MaxAclWithVlan,  \* MAX_ACL_WITH_VLAN_CLASSIFIER
  AnyVlan,         \* ANY_VLAN
  MaxCalls,        \* additions under way at a time (a bound of the model)
  MaxFaults,       \* refusals by BAL and oddities of the client (a bound)
  None

Dirs   == {"upstream", "downstream"}
AclIds == 0 .. MaxAclId - 1
NoId   == -1
Flows  == FlowIds \X Dirs                 \* flow_id_flow_direction
Intf(r)    == <<r.dir, r.intf>>           \* PON of an upstream flow, NNI of a downstream one
Interfaces == {Intf(r) : r \in Requests}

Eap    == 34958
Lldp   == 35020
Pppoed == 34915
Igmp   == 2

(* get_trap_to_host_packet_type: the first field that tells.               *)
Dhcp(r) == r.src \in {67, 68}

PacketType(r) ==
  CASE r.ether = Eap                                       -> "eap"
    [] r.ether # Eap  /\ Dhcp(r)                           -> "dhcpv4"
    [] r.ether = Lldp /\ ~Dhcp(r)                          -> "lldp"
    [] r.ether \notin {Eap, Lldp} /\ ~Dhcp(r) /\ r.proto = Igmp -> "igmpv4"
    [] r.ether = Pppoed /\ ~Dhcp(r) /\ r.proto # Igmp      -> "pppoed"
    [] OTHER                                               -> "unsupported"

(* trap_to_host_pkt_info                                                   *)
Info(r) == <<Intf(r), PacketType(r), r.gem>>
Infos   == {Info(r) : r \in Requests}

(***************************************************************************)
(* formulate_acl_classifier_key: a field that is absent (0) becomes -1, an *)
(* absent VLAN ANY_VLAN, as every VLAN does once the limit was hit.        *)
(***************************************************************************)
Field(x) == IF x # 0 THEN x ELSE -1

KeyOf(r, full) ==
  [ether |-> Field(r.ether), proto |-> Field(r.proto),
   src |-> Field(r.src), dst |-> Field(r.dst),
   vid |-> IF r.vid # 0 /\ ~full THEN r.vid ELSE AnyVlan]

Keys == {KeyOf(r, full) : r \in Requests, full \in BOOLEAN}

(* What operator< compares: the map takes keys with one sum for one key.   *)
Sum(k) == k.ether + 2 * k.proto + 3 * k.src + 4 * k.dst + 5 * k.vid
Sums   == {Sum(k) : k \in Keys}

(* The entries of flow_to_acl_map: the code's interface is the request's.  *)
Entries == [acl : AclIds, req : Requests]

(***************************************************************************)
(* NoCollision is an assumption about VOLTHA: keys it uses at one time     *)
(* differ in their sums (LLDP and PPPoE discovery 21 VLANs apart do not).  *)
(***************************************************************************)
ASSUME AclAssumption ==
  /\ MaxAclId \in Nat /\ MaxAclWithVlan \in Nat
  /\ AnyVlan \in Nat \ {0}
  /\ MaxCalls \in Nat /\ MaxFaults \in Nat
  /\ IsFiniteSet(FlowIds)
  /\ \A r \in Requests :
       /\ DOMAIN r = {"ether", "proto", "src", "dst", "vid", "dir", "intf", "gem"}
       /\ r.ether \in Nat /\ r.proto \in Nat /\ r.src \in Nat /\ r.dst \in Nat
       /\ r.vid \in 0 .. AnyVlan - 1
       /\ r.dir \in Dirs
  /\ None \notin Requests \cup Keys \cup Entries

ASSUME NoCollision == \A k, l \in Keys : Sum(k) = Sum(l) => k = l

VARIABLES
  pool,      \* acl_id_bitset: the ids whose bit is set
  aclOf,     \* acl_classifier_to_acl_id_map (by sum; NoId: no entry)
  refCnt,    \* acl_ref_cnt (0: no entry)
  reg,       \* intf_acl_registration_ref_cnt (0: no entry)
  flowAcl,   \* flow_to_acl_map, with the flow's request as history
  trapInfo,  \* trap_to_host_pkt_info_with_vlan_for_flow_id
  vlans,     \* trap_to_host_vlan_ids_for_trap_to_host_pkt_info
  hit,       \* max_acls_with_vlan_classifiers_hit
  pending,   \* the additions that have their key and wait for the lock
  bal,       \* BAL's ACLs: the classifier of an id (external)
  balReg,    \* the interfaces BAL has registered with its ACLs (external)
  refused,   \* history: registrations BAL refused that the agent counts
  leaked,    \* history: ACLs BAL refused to remove that the agent forgot
  lost,      \* history: entries of flow_to_acl_map that were overwritten
  odd,       \* history: what the client did that it should not
  faults     \* how many refusals and oddities there were

agent == <<pool, aclOf, refCnt, reg, flowAcl, trapInfo, vlans, hit>>
device == <<bal, balReg>>
vars == <<agent, device, pending, refused, leaked, lost, odd, faults>>

Slots   == (1 .. MaxFaults) \X {"lost"}
Calls   == [flow : FlowIds, req : Requests, key : Keys]

Init ==
  /\ pool = {}
  /\ aclOf = [s \in Sums |-> NoId]
  /\ refCnt = [a \in AclIds |-> 0]
  /\ reg = [ai \in AclIds \X Interfaces |-> 0]
  /\ flowAcl = [fd \in Flows |-> None]
  /\ trapInfo = [f \in FlowIds |-> None]
  /\ vlans = [i \in Infos |-> {}]
  /\ hit = FALSE
  /\ pending = {}
  /\ bal = [a \in AclIds |-> None] /\ balReg = {}
  /\ refused = {} /\ leaked = {} /\ odd = {} /\ faults = 0
  /\ lost = [n \in Slots |-> None]

-----------------------------------------------------------------------------
Live(fd) == flowAcl[fd] # None
Flow(c)  == <<c.flow, c.req.dir>>

(* The keys of a table of entries that refer to an ACL, and from where.    *)
Holding(T, a) == {x \in DOMAIN T : T[x] # None /\ T[x].acl = a}
HoldingOn(T, a, i) == {x \in Holding(T, a) : Intf(T[x].req) = i}

(* The ACL traps at least what the key, or the request, asks for.          *)
SameRule(k, l) == k.ether = l.ether /\ k.proto = l.proto /\ k.src = l.src /\ k.dst = l.dst
Covers(acl, k) == acl # None /\ SameRule(acl, k) /\ acl.vid \in {AnyVlan, k.vid}
Traps(a, r)    == Covers(bal[a], KeyOf(r, FALSE))

(* The end of is_packet_allowed, for a single-tagged packet that r asks    *)
(* for: its VLAN or ANY_VLAN is in the list.                               *)
Allowed(r) == \E v \in vlans[Info(r)] : v \in {r.vid, AnyVlan}

Fault(n) == faults + n <= MaxFaults /\ faults' = faults + n

-----------------------------------------------------------------------------
(* FlowAdd_ with trap_to_host: handle_acl_rule_install                     *)

InUse(f) == (\E d \in Dirs : Live(<<f, d>>)) \/ (\E c \in pending : c.flow = f)

Same(r, s) == Info(r) = Info(s) /\ r.vid = s.vid

Twin(r) ==
  \/ \E fd \in Flows : Live(fd) /\ Same(flowAcl[fd].req, r)
  \/ \E c \in pending : Same(c.req, r)

(***************************************************************************)
(* The key is formed before the lock is taken.  The flow manager should    *)
(* not give an id out that is in use, nor VOLTHA ask for one trap twice:   *)
(* both are possible and remembered.                                       *)
(***************************************************************************)
Oddities(f, r) ==
  {x \in {"reuse", "twin"} : IF x = "reuse" THEN InUse(f) ELSE Twin(r)}

Formulate(f, r) ==
  /\ PacketType(r) # "unsupported"
  /\ Cardinality(pending) < MaxCalls
  /\ pending' = pending \cup {[flow |-> f, req |-> r, key |-> KeyOf(r, hit)]}
  /\ odd' = odd \cup Oddities(f, r)
  /\ Fault(Cardinality(Oddities(f, r)))
  /\ UNCHANGED <<agent, device, refused, leaked, lost>>

Known(c) == aclOf[Sum(c.key)] # NoId

Done(c) == c \in pending /\ pending' = pending \ {c}

(* "could happen if same trap flow is received again"                      *)
Again(c) ==
  /\ Done(c)
  /\ Known(c) /\ Live(Flow(c))
  /\ UNCHANGED <<agent, device, refused, leaked, lost, odd, faults>>

(* The rest of the critical section, once the flow has its ACL a: register *)
(* the interface (a refusal is ignored), and let the packets through.      *)
Count(a, i) == reg' = [reg EXCEPT ![<<a, i>>] = @ + 1]

Register(c, a, balAnswer) ==
  LET i == Intf(c.req)  new == reg[<<a, i>>] = 0 IN
  /\ Count(a, i)
  /\ balAnswer = "err" => new
  /\ balReg' = IF new /\ balAnswer = "ok" THEN balReg \cup {<<a, i>>} ELSE balReg
  /\ refused' = IF balAnswer = "err" THEN refused \cup {<<a, i>>} ELSE refused
  /\ Fault(IF balAnswer = "err" THEN 1 ELSE 0)

LetThrough(c, a) ==
  /\ flowAcl' = [flowAcl EXCEPT ![Flow(c)] = [acl |-> a, req |-> c.req]]
  /\ trapInfo' = [trapInfo EXCEPT ![c.flow] = c.req]
  /\ vlans' = [vlans EXCEPT ![Info(c.req)] = @ \cup {c.key.vid}]

(* The entry of a flow id in use is overwritten and its references stay    *)
(* counted.  Only ids in use are overwritten, so there is a slot left.     *)
Overwrite(fd) ==
  IF ~Live(fd) THEN UNCHANGED lost
  ELSE \E n \in Slots :
         /\ lost[n] = None /\ \A m \in Slots : m[1] < n[1] => lost[m] # None
         /\ lost' = [lost EXCEPT ![n] = flowAcl[fd]]

(* Mutant: the flow is not counted.                                        *)
Refer_Forgets(a) == UNCHANGED refCnt

Refer(a) == refCnt' = [refCnt EXCEPT ![a] = @ + 1]

Share(c, balAnswer) ==
  LET a == aclOf[Sum(c.key)] IN
  /\ Done(c)
  /\ Known(c) /\ ~Live(Flow(c))
  /\ Refer(a)
  /\ Register(c, a, balAnswer)
  /\ LetThrough(c, a)
  /\ UNCHANGED <<pool, aclOf, hit, bal, leaked, lost, odd>>

Free == AclIds \ pool                     \* get_acl_id takes the lowest

(* No id is left.                                                          *)
Exhausted(c) ==
  /\ Done(c)
  /\ ~Known(c) /\ Free = {}
  /\ UNCHANGED <<agent, device, refused, leaked, lost, odd, faults>>

(* BAL refuses the ACL: the id is given back.                              *)
InstallFails(c) ==
  /\ Done(c)
  /\ ~Known(c) /\ Free # {}
  /\ Fault(1)
  /\ UNCHANGED <<agent, device, refused, leaked, lost, odd>>

(* Whether the ACL has the VLAN depends on the flag once more.             *)
Programmed(k) == IF hit THEN [k EXCEPT !.vid = AnyVlan] ELSE k

(* install_acl succeeds; the ACL that reaches the limit still has its VLAN. *)
Install(c, a, balAnswer) ==
  /\ Done(c)
  /\ ~Known(c)
  /\ a \in Free /\ \A b \in Free : a <= b
  /\ pool' = pool \cup {a}
  /\ bal' = [bal EXCEPT ![a] = Programmed(c.key)]
  /\ aclOf' = [aclOf EXCEPT ![Sum(c.key)] = a]
  /\ hit' = (hit \/ (c.key.vid # AnyVlan /\ a >= MaxAclWithVlan))
  /\ refCnt' = [refCnt EXCEPT ![a] = 1]
  /\ Register(c, a, balAnswer)
  /\ Overwrite(Flow(c))
  /\ LetThrough(c, a)
  /\ UNCHANGED <<leaked, odd>>

-----------------------------------------------------------------------------
(* FlowRemove_ of a flow with an ACL: handle_acl_rule_cleanup              *)

(* Mutant: an interface is deregistered with any of its flows.             *)
Deregistered_Early(a, i, balAnswer) ==
  IF balAnswer = "ok" THEN balReg \ {<<a, i>>} ELSE balReg

(* The registrations after the last flow of interface i left the ACL.      *)
Deregistered(a, i, balAnswer) ==
  IF reg[<<a, i>>] = 1 /\ balAnswer = "ok" THEN balReg \ {<<a, i>>} ELSE balReg

(* Mutant: the id is given back although BAL kept the ACL.                 *)
IdsAfter_FreesAnyway(a, balAnswer) == IF refCnt[a] = 1 THEN pool \ {a} ELSE pool

(* remove_acl frees the id when BAL has removed the ACL.                   *)
IdsAfter(a, balAnswer) ==
  IF refCnt[a] = 1 /\ balAnswer = "ok" THEN pool \ {a} ELSE pool

(* Mutant: the whole list of the interface and GEM port goes.              *)
VlansAfter_Clears(f) ==
  IF trapInfo[f] = None THEN vlans ELSE [vlans EXCEPT ![Info(trapInfo[f])] = {}]

(* The VLAN of the classifier leaves the list: not the one of the key.     *)
VlansAfter(f) ==
  IF trapInfo[f] = None THEN vlans
  ELSE [vlans EXCEPT ![Info(trapInfo[f])] = @ \ {trapInfo[f].vid}]

FlowsAfter(fd) == [flowAcl EXCEPT ![fd] = None]

Remove(fd, regAnswer, aclAnswer) ==
  LET a == flowAcl[fd].acl
      i == Intf(flowAcl[fd].req)
      last == refCnt[a] = 1
      gone == last /\ aclAnswer = "ok"
  IN
  /\ Live(fd)
  /\ regAnswer = "err" => reg[<<a, i>>] = 1
  /\ aclAnswer = "err" => last
  /\ Fault(Cardinality({x \in {1, 2} : (IF x = 1 THEN regAnswer ELSE aclAnswer) = "err"}))
  /\ reg' = [reg EXCEPT ![<<a, i>>] = @ - 1]
  /\ refCnt' = [refCnt EXCEPT ![a] = @ - 1]
  /\ balReg' = Deregistered(a, i, regAnswer) \ (IF gone THEN {a} \X Interfaces ELSE {})
  /\ refused' = IF reg[<<a, i>>] = 1 THEN refused \ {<<a, i>>} ELSE refused
  /\ bal' = IF gone THEN [bal EXCEPT ![a] = None] ELSE bal
  /\ pool' = IdsAfter(a, aclAnswer)
  /\ leaked' = IF last /\ aclAnswer = "err" THEN leaked \cup {a} ELSE leaked
  /\ aclOf' = IF last THEN [s \in Sums |-> IF aclOf[s] = a THEN NoId ELSE aclOf[s]]
              ELSE aclOf
  /\ flowAcl' = FlowsAfter(fd)
  /\ vlans' = VlansAfter(fd[1])
  /\ UNCHANGED <<trapInfo, hit, pending, lost, odd>>

Answers == {"ok", "err"}

Addition(c) ==
  \/ Again(c) \/ Exhausted(c) \/ InstallFails(c)
  \/ \E balAnswer \in Answers :
       Share(c, balAnswer) \/ \E a \in AclIds : Install(c, a, balAnswer)

Next ==
  \/ \E f \in FlowIds, r \in Requests : Formulate(f, r)
  \/ \E c \in pending : Addition(c)
  \/ \E fd \in Flows, regAnswer, aclAnswer \in Answers : Remove(fd, regAnswer, aclAnswer)

Spec == Init /\ [][Next]_vars

-----------------------------------------------------------------------------
(* Every variable has its type; the counts, unsigned in the code, never go *)
(* below zero.                                                             *)
TypeOK ==
  /\ pool \subseteq AclIds /\ leaked \subseteq AclIds
  /\ aclOf \in [Sums -> AclIds \cup {NoId}]
  /\ refCnt \in [AclIds -> Nat]
  /\ reg \in [AclIds \X Interfaces -> Nat]
  /\ flowAcl \in [Flows -> Entries \cup {None}]
  /\ trapInfo \in [FlowIds -> Requests \cup {None}]
  /\ vlans \in [Infos -> SUBSET (0 .. AnyVlan)]
  /\ lost \in [Slots -> Entries \cup {None}]
  /\ hit \in BOOLEAN
  /\ pending \subseteq Calls
  /\ bal \in [AclIds -> Keys \cup {None}]
  /\ balReg \subseteq AclIds \X Interfaces /\ refused \subseteq AclIds \X Interfaces
  /\ odd \subseteq {"reuse", "twin"} /\ faults \in 0 .. MaxFaults

(***************************************************************************)
(* acl_ref_cnt and intf_acl_registration_ref_cnt are the number of flows   *)
(* that refer to an ACL, and to an ACL from an interface, as their         *)
(* comments say, and nothing else is counted but the entries that were     *)
(* overwritten because a flow id in use was given out once more.           *)
(***************************************************************************)
CountsAreExact ==
  \A a \in AclIds :
    /\ refCnt[a] = Cardinality(Holding(flowAcl, a)) + Cardinality(Holding(lost, a))
    /\ \A i \in Interfaces :
         reg[<<a, i>>] = Cardinality(HoldingOn(flowAcl, a, i))
                     + Cardinality(HoldingOn(lost, a, i))

(***************************************************************************)
(* The pool of ids says what BAL has: an id is taken exactly as long as    *)
(* BAL has an ACL under it, and that ACL is either referred to or one that *)
(* BAL refused to remove.  No other ACL leaks, and no id is given out over *)
(* an ACL that is still there.                                             *)
(***************************************************************************)
IdsMatchBal ==
  /\ pool = {a \in AclIds : bal[a] # None}
  /\ pool = {a \in AclIds : refCnt[a] > 0} \cup leaked

(***************************************************************************)
(* The filter of is_packet_allowed lets the packets of every installed     *)
(* trap-to-host flow through, although the list of VLANs is shared by the  *)
(* flows of an interface, packet type and GEM port and the VLAN an entry   *)
(* was made with need not be the one it is removed with.                   *)
(***************************************************************************)
InstalledIsAllowed ==
  odd = {} => \A fd \in Flows : Live(fd) => Allowed(flowAcl[fd].req)

(***************************************************************************)
(* The manager implements TrapTable: a packet is trapped when an ACL of    *)
(* BAL covers it on a registered interface; a refused registration counts  *)
(* as made, as the comment in handle_acl_rule_install concedes.            *)
(***************************************************************************)
Registered(a, i) == <<a, i>> \in balReg \cup refused

trappedBar == {r \in Requests : \E a \in AclIds : Traps(a, r) /\ Registered(a, Intf(r))}
wantedBar  == [fd \in Flows |-> IF Live(fd) THEN flowAcl[fd].req ELSE None]

KinOf == {p \in Requests \X Requests :
            /\ Intf(p[1]) = Intf(p[2])
            /\ SameRule(KeyOf(p[1], FALSE), KeyOf(p[2], FALSE))}

Table == INSTANCE TrapTable WITH
  Owners <- Flows, Rules <- Requests, Kin <- KinOf,
  wanted <- wantedBar, trapped <- trappedBar

(* Sharing, counting and the VLAN limit never cost an installed flow its   *)
(* packets, and never trap a packet of another protocol or interface.      *)
ImplementsTrapTable == Table!Spec

(***************************************************************************)
(* "Remove the vlan_id from the list that corresponded to the flow being   *)
(* removed."  (core_api_handler.cc:2453) Every VLAN in a list is there for *)
(* an installed flow.                                                      *)
(***************************************************************************)
VlanLeavesWithFlow ==
  odd = {} => \A i \in Infos : \A v \in vlans[i] :
    \E fd \in Flows : Live(fd) /\ Info(flowAcl[fd].req) = i
                      /\ v \in {flowAcl[fd].req.vid, AnyVlan}
=============================================================================
