---------------------------- MODULE FlowManager ----------------------------
(***************************************************************************)
(* Adding and removing the flows VOLTHA asks for.                          *)
(*                                                                         *)
(* A VOLTHA flow becomes one device flow, or one per GEM port when it is   *)
(* replicated.  A device flow is known to BAL by (flow id, direction); ids *)
(* come from a bitmap.  The upstream and the downstream data path flow of  *)
(* a subscriber are symmetric and share their ids: the second one added    *)
(* takes them from the first one's entry in the cache.                     *)
(*                                                                         *)
(* FlowAdd and FlowRemove run on gRPC threads.  Every map has a lock, held *)
(* for one access only: one action below is one critical section, or one   *)
(* call to BAL.  Pointers into the cache are kept across critical sections.*)
(*                                                                         *)
(* Data abstracted: classifiers, actions and QoS references; (pon, onu,    *)
(* uni, tech profile) is one value, the subscriber; the maintenance of     *)
(* flow_map (BAL's flows once more) and the encryption of the GEM port,    *)
(* whose result FlowAdd_ ignores; the ACLs under a trap-to-host flow.      *)
(***************************************************************************)
EXTENDS Naturals, Sequences, FiniteSets

CONSTANTS
  Threads,        \* gRPC handler threads
  Flows,          \* VOLTHA flow ids
  Req,            \* Req[v]: the request that adds or removes v
  MaxReplicated,  \* MAX_NUMBER_OF_REPLICATED_FLOWS
  MaxFlowId,      \* MAX_FLOW_ID = FLOW_ID_END: the largest value of a uint16_t
  AddOutcomes,    \* how BAL (or the flow checker) may answer an addition
  ClearOutcomes,  \* how BAL may answer a removal
  Serialised,     \* the client has one call per subscriber at a time
  MaxFaults,      \* how often BAL refuses or calls overlap (a bound of the model)
  None

Types   == {"upstream", "downstream", "multicast"}
Kinds   == {"datapath", "trap", "multicast"}
FlowIds == 0 .. MaxFlowId
Gems    == UNION {{Req[v].gems[i] : i \in DOMAIN Req[v].gems} : v \in Flows}
Subs    == {Req[v].sub : v \in Flows}
NoPort  == 0
Ports   == {Req[v].port : v \in Flows} \cup {NoPort}
Params  == [id : FlowIds, gem : Gems]    \* device_flow_params

ASSUME FlowAssumption ==
  /\ MaxFlowId \in Nat \ {0} /\ MaxReplicated \in Nat \ {0}
  /\ AddOutcomes \subseteq {"ok", "already", "err"}
  /\ ClearOutcomes \subseteq {"ok", "err"}
  /\ Serialised \in BOOLEAN
  /\ MaxFaults \in Nat
  /\ None \notin Flows
  /\ \A v \in Flows :
       /\ DOMAIN Req[v] = {"sub", "type", "kind", "replicate", "gems", "port"}
       /\ Req[v].type \in Types /\ Req[v].kind \in Kinds
       /\ Req[v].replicate \in BOOLEAN
       /\ Req[v].gems \in Seq(Gems) /\ Len(Req[v].gems) \in 1 .. MaxReplicated
       /\ ~Req[v].replicate => Len(Req[v].gems) = 1
       /\ Req[v].kind = "datapath" => Req[v].type \in {"upstream", "downstream"}

VARIABLES
  pool,       \* flow_id_bitset: the ids whose bit is set
  cache,      \* voltha_flow_to_device_flow: v -> params, <<>> if v is not in it
  symmap,     \* symmetric_datapath_flow_id_map: (subscriber, direction) -> v
  idPort,     \* flowid_to_port (a missing key reads as port 0)
  portFlows,  \* port_to_flows
  idGem,      \* flowid_to_gemport
  acl,        \* the keys of flow_to_acl_map
  bal,        \* BAL's flows (external)
  pc, me,     \* control point and locals of a thread
  faults,     \* how often BAL has refused or calls have overlapped
  tainted     \* history: ids the agent gave back although still in use

maps == <<idPort, portFlows, idGem>>
vars == <<pool, cache, symmap, maps, acl, bal, faults, pc, me, tainted>>

NoParam == [id |-> 0, gem |-> None]
NoCall  == [op |-> "none", flow |-> None, sym |-> None, ptr |-> None,
            ids |-> <<>>, idx |-> 1, cur |-> NoParam, alone |-> FALSE]

Init ==
  /\ pool = {}
  /\ cache = [v \in Flows |-> <<>>]
  /\ symmap = [k \in Subs \X Types |-> None]
  /\ idPort = [f \in FlowIds |-> NoPort]
  /\ portFlows = [p \in Ports |-> {}]
  /\ idGem = [f \in FlowIds |-> None]
  /\ acl = {} /\ bal = {} /\ faults = 0
  /\ pc = [t \in Threads |-> "idle"]
  /\ me = [t \in Threads |-> NoCall]
  /\ tainted = {}

-----------------------------------------------------------------------------
Busy(t)     == pc[t] # "idle"
Cached(v)   == cache[v] # <<>>                    \* is_voltha_flow_installed
Settled(v)  == \A t \in Threads : Busy(t) => me[t].flow # v   \* no call works on v
R(t)        == Req[me[t].flow]
Key(t, f)   == <<f, R(t).type>>
Symmetric(t) == me[t].ids = <<>>  \* an addition that uses the symmetric flow's ids
InverseFlowType(type) == IF type = "upstream" THEN "downstream" ELSE "upstream"

IdsOf(v)  == {cache[v][i].id : i \in DOMAIN cache[v]}
KeysOf(v) == IdsOf(v) \X {Req[v].type}

Go(t, from, to) == pc[t] = from /\ pc' = [pc EXCEPT ![t] = to]

Return(t) ==
  /\ pc' = [pc EXCEPT ![t] = "idle"]
  /\ me' = [me EXCEPT ![t] = NoCall]

(***************************************************************************)
(* params[i] through the pointer kept by t.  Once the entry was erased, or *)
(* beyond its replicated flows, the memory read is not ours: any value.    *)
(***************************************************************************)
Pointee(t, i) ==
  LET p == me[t].ptr IN
  IF p # None /\ i \in DOMAIN cache[p] THEN {cache[p][i]} ELSE Params

Param(t, i) ==
  IF me[t].op = "add" /\ ~Symmetric(t)
  THEN {[id |-> me[t].ids[i], gem |-> R(t).gems[i]]}
  ELSE Pointee(t, i)

(***************************************************************************)
(* A call arrives.  "alone" is history: no call on the subscriber overlaps *)
(* this one.                                                               *)
(***************************************************************************)
Rivals(t, v) == {u \in Threads \ {t} : Busy(u) /\ R(u).sub = Req[v].sub}

Call(t, v, op) ==
  /\ Go(t, "idle", IF op = "add" /\ Req[v].kind = "datapath" THEN "lookup" ELSE "check")
  /\ IF Rivals(t, v) = {} THEN UNCHANGED faults
     ELSE ~Serialised /\ faults < MaxFaults /\ faults' = faults + 1
  /\ me' = [u \in Threads |->
       IF u = t THEN [NoCall EXCEPT !.op = op, !.flow = v, !.alone = Rivals(t, v) = {}]
       ELSE IF u \in Rivals(t, v) THEN [me[u] EXCEPT !.alone = FALSE]
       ELSE me[u]]
  /\ UNCHANGED <<pool, cache, symmap, maps, acl, bal, tainted>>

-----------------------------------------------------------------------------
(* The pool of flow ids.                                                   *)

(***************************************************************************)
(* get_flow_id and get_flow_ids scan with a uint16_t that is compared with *)
(* its own largest value, so the scan goes 1, 2, ... MAX_FLOW_ID and then  *)
(* wraps to 0.                                                             *)
(***************************************************************************)
FirstFree(n) ==
  LET free == FlowIds \ pool
      Place(f) == IF f = 0 THEN MaxFlowId + 1 ELSE f
      Before(f) == {g \in free : Place(g) < Place(f)}
  IN {f \in free : Cardinality(Before(f)) < n}

InScanOrder(S, seq) ==
  /\ seq \in [1 .. Cardinality(S) -> S]
  /\ \A i, j \in DOMAIN seq : i < j => seq[i] # seq[j] /\ seq[i] # 0
                                       /\ (seq[j] # 0 => seq[i] < seq[j])

(* A scan that cannot end keeps flow_id_bitset_lock for ever.              *)
PoolUnlocked == \A u \in Threads : pc[u] # "spin"

Need(t) == Len(R(t).gems)

(* Mutant: the bits are not set.                                           *)
Alloc_BitsStayClear(t) ==
  /\ Go(t, "alloc", "add")
  /\ PoolUnlocked
  /\ Cardinality(FirstFree(Need(t))) = Need(t)
  /\ R(t).replicate \/ FirstFree(1) # {0}
  /\ \E seq \in [1 .. Need(t) -> FirstFree(Need(t))] :
       /\ InScanOrder(FirstFree(Need(t)), seq)
       /\ me' = [me EXCEPT ![t].ids = seq]
  /\ UNCHANGED <<pool, cache, symmap, maps, acl, bal, faults, tainted>>

Alloc(t) ==
  /\ Go(t, "alloc", "add")
  /\ PoolUnlocked
  /\ Cardinality(FirstFree(Need(t))) = Need(t)
  /\ R(t).replicate \/ FirstFree(1) # {0}
  /\ \E seq \in [1 .. Need(t) -> FirstFree(Need(t))] :
       /\ InScanOrder(FirstFree(Need(t)), seq)
       /\ me' = [me EXCEPT ![t].ids = seq]
  /\ pool' = pool \cup FirstFree(Need(t))
  /\ UNCHANGED <<cache, symmap, maps, acl, bal, faults, tainted>>

(* get_flow_id sets bit 0 and returns 0, that is INVALID_FLOW_ID.          *)
AllocInvalid(t) ==
  /\ pc[t] = "alloc" /\ ~R(t).replicate
  /\ PoolUnlocked
  /\ FirstFree(1) = {0}
  /\ pool' = pool \cup {0}
  /\ Return(t)
  /\ UNCHANGED <<cache, symmap, maps, acl, bal, faults, tainted>>

(* Too few bits are clear: the scan takes them and goes round for ever.    *)
AllocSpins(t) ==
  /\ Go(t, "alloc", "spin")
  /\ PoolUnlocked
  /\ Cardinality(FirstFree(Need(t))) < Need(t)
  /\ pool' = FlowIds
  /\ UNCHANGED <<cache, symmap, maps, acl, bal, faults, me, tainted>>

(***************************************************************************)
(* free_flow_id, on behalf of v.  The history remembers an id that is not  *)
(* v's alone: another cached flow uses it, or BAL has it in the other      *)
(* direction.                                                              *)
(***************************************************************************)
Shared(f, v) ==
  \/ \E w \in Flows \ {v} : Settled(w) /\ f \in IdsOf(w)
  \/ \E type \in Types \ {Req[v].type} : <<f, type>> \in bal \cup acl

Release(f, v) ==
  /\ PoolUnlocked
  /\ pool' = pool \ {f}
  /\ tainted' = IF Shared(f, v) THEN tainted \cup {f} ELSE tainted

-----------------------------------------------------------------------------
(* FlowAdd_                                                                *)

(***************************************************************************)
(* The maps that packet-out uses are filled before BAL is asked, and stay  *)
(* filled when BAL refuses.  Trap-to-host flows only touch the ACLs.       *)
(***************************************************************************)
AddMaps(t) ==
  /\ Go(t, "add", "bal")
  /\ \E p \in Param(t, me[t].idx) :
       /\ me' = [me EXCEPT ![t].cur = p]
       /\ IF R(t).kind # "datapath" THEN UNCHANGED maps
          ELSE IF R(t).type = "downstream"
          THEN /\ portFlows' = [portFlows EXCEPT ![R(t).port] = @ \cup {p.id}]
               /\ idGem' = [idGem EXCEPT ![p.id] = p.gem]
               /\ UNCHANGED idPort
          ELSE /\ idPort' = [idPort EXCEPT ![p.id] = R(t).port]
               /\ UNCHANGED <<portFlows, idGem>>
  /\ UNCHANGED <<pool, cache, symmap, acl, bal, faults, tainted>>

Accepted(t, outcome) == outcome = "ok" \/ (outcome = "already" /\ Symmetric(t))

(* bcmolt_cfg_set, or handle_acl_rule_install for a trap-to-host flow.     *)
AddSucceeds(t) ==
  LET last == me[t].idx = Need(t) IN
  /\ Go(t, "bal", IF last THEN "cache" ELSE "add")
  /\ \E o \in AddOutcomes :
       /\ Accepted(t, o)
       /\ IF o = "ok" /\ R(t).kind # "trap"
          THEN bal' = bal \cup {Key(t, me[t].cur.id)} ELSE UNCHANGED bal
       /\ IF o = "ok" /\ R(t).kind = "trap"
          THEN acl' = acl \cup {Key(t, me[t].cur.id)} ELSE UNCHANGED acl
  /\ me' = IF last THEN me ELSE [me EXCEPT ![t].idx = @ + 1]
  /\ UNCHANGED <<pool, cache, symmap, maps, faults, tainted>>

(* Mutant: a failure does not leave the loop over the GEM ports.           *)
AddFails_GoesOn(t) ==
  /\ Go(t, "bal", IF me[t].idx = Need(t) THEN "cache" ELSE "add")
  /\ \E o \in AddOutcomes : ~Accepted(t, o)
  /\ faults < MaxFaults /\ faults' = faults + 1
  /\ me' = IF me[t].idx = Need(t) THEN me ELSE [me EXCEPT ![t].idx = @ + 1]
  /\ UNCHANGED <<pool, cache, symmap, maps, acl, bal, tainted>>

(***************************************************************************)
(* On failure the device flows added so far are removed again.  The ids    *)
(* are given back, except those of a replicated symmetric flow.            *)
(***************************************************************************)
AddFails(t) ==
  /\ pc[t] = "bal"
  /\ \E o \in AddOutcomes : ~Accepted(t, o)
  /\ faults < MaxFaults /\ faults' = faults + 1
  /\ IF me[t].idx > 1
     THEN /\ pc' = [pc EXCEPT ![t] = "rmaps"]
          /\ me' = [me EXCEPT ![t].idx = @ - 1]
     ELSE IF Symmetric(t) /\ R(t).replicate THEN Return(t)
     ELSE pc' = [pc EXCEPT ![t] = "free"] /\ UNCHANGED me
  /\ UNCHANGED <<pool, cache, symmap, maps, acl, bal, tainted>>

-----------------------------------------------------------------------------
(* FlowRemove_, called by a removal and by the undoing of an addition.     *)

(***************************************************************************)
(* Is there another device flow to remove?  total_replicated_flows is read *)
(* through the pointer each time round: once the entry is gone it may be   *)
(* anything (MaxReplicated bounds the garbage, too).                       *)
(***************************************************************************)
More(t) ==
  IF me[t].ptr # None THEN {me[t].idx < Len(cache[me[t].ptr])}
  ELSE {FALSE, me[t].idx < MaxReplicated}

NextRemoval(t) ==
  \E more \in More(t) :
    /\ pc' = [pc EXCEPT ![t] = IF more THEN "rmaps" ELSE "uncache"]
    /\ me' = IF more THEN [me EXCEPT ![t].idx = @ + 1] ELSE me

(* Mutant: the ids are kept.                                               *)
NextUndo_KeepsIds(t) ==
  IF me[t].idx > 1
  THEN /\ pc' = [pc EXCEPT ![t] = "rmaps"]
       /\ me' = [me EXCEPT ![t].idx = @ - 1]
  ELSE Return(t)

(* Mutant: the loop goes one too far.                                      *)
NextUndo_OneTooFar(t) ==
  IF me[t].idx >= 1
  THEN /\ pc' = [pc EXCEPT ![t] = "rmaps"]
       /\ me' = [me EXCEPT ![t].idx = @ - 1]
  ELSE IF Symmetric(t) THEN Return(t)
  ELSE pc' = [pc EXCEPT ![t] = "free"] /\ UNCHANGED me

NextUndo(t) ==
  IF me[t].idx > 1
  THEN /\ pc' = [pc EXCEPT ![t] = "rmaps"]
       /\ me' = [me EXCEPT ![t].idx = @ - 1]
  ELSE IF Symmetric(t) THEN Return(t)
  ELSE pc' = [pc EXCEPT ![t] = "free"] /\ UNCHANGED me

Removed(t) ==
  IF me[t].op = "remove" THEN pc' = [pc EXCEPT ![t] = "free"] /\ UNCHANGED me
  ELSE NextUndo(t)

(* Mutant: the id of a flow that BAL did not remove is given back too.     *)
NotRemoved_FreesAnyway(t) == Removed(t)

NotRemoved(t) == IF me[t].op = "remove" THEN NextRemoval(t) ELSE NextUndo(t)

(* The flow has an ACL: that is all there is to remove.                    *)
RemoveAcl(t) ==
  /\ pc[t] = "rmaps"
  /\ \E p \in Param(t, me[t].idx) :
       /\ Key(t, p.id) \in acl
       /\ acl' = acl \ {Key(t, p.id)}
  /\ Removed(t)
  /\ UNCHANGED <<pool, cache, symmap, maps, bal, faults, tainted>>

(* Mutant: the GEM port is forgotten with either direction.                *)
RemoveMaps_BothDirections(t) ==
  /\ Go(t, "rmaps", "rbal")
  /\ \E p \in Param(t, me[t].idx) :
       /\ Key(t, p.id) \notin acl
       /\ me' = [me EXCEPT ![t].cur = p]
       /\ idGem' = [idGem EXCEPT ![p.id] = None]
       /\ IF R(t).type = "downstream"
          THEN /\ portFlows' = [portFlows EXCEPT ![idPort[p.id]] = @ \ {p.id}]
               /\ UNCHANGED idPort
          ELSE /\ idPort' = [idPort EXCEPT ![p.id] = NoPort]
               /\ UNCHANGED portFlows
  /\ UNCHANGED <<pool, cache, symmap, acl, bal, faults, tainted>>

(***************************************************************************)
(* The port of a downstream flow is looked up under the id in the map of   *)
(* the UPSTREAM flows.                                                     *)
(***************************************************************************)
RemoveMaps(t) ==
  /\ Go(t, "rmaps", "rbal")
  /\ \E p \in Param(t, me[t].idx) :
       /\ Key(t, p.id) \notin acl
       /\ me' = [me EXCEPT ![t].cur = p]
       /\ IF R(t).type = "downstream"
          THEN /\ idGem' = [idGem EXCEPT ![p.id] = None]
               /\ portFlows' = [portFlows EXCEPT ![idPort[p.id]] = @ \ {p.id}]
               /\ UNCHANGED idPort
          ELSE /\ idPort' = [idPort EXCEPT ![p.id] = NoPort]
               /\ UNCHANGED <<portFlows, idGem>>
  /\ UNCHANGED <<pool, cache, symmap, acl, bal, faults, tainted>>

(* bcmolt_cfg_clear; an ACL recorded for the key meanwhile is forgotten.    *)
BalRemoves(t) ==
  /\ pc[t] = "rbal" /\ "ok" \in ClearOutcomes
  /\ bal' = bal \ {Key(t, me[t].cur.id)}
  /\ acl' = acl \ {Key(t, me[t].cur.id)}
  /\ Removed(t)
  /\ UNCHANGED <<pool, cache, symmap, maps, faults, tainted>>

(* The undoing of an addition ignores that BAL refuses; ids it gives back  *)
(* are then still in use.                                                  *)
BalRefuses(t) ==
  /\ pc[t] = "rbal" /\ "err" \in ClearOutcomes
  /\ faults < MaxFaults /\ faults' = faults + 1
  /\ NotRemoved(t)
  /\ tainted' = IF me[t].op = "add" /\ ~Symmetric(t)
                THEN tainted \cup {me[t].cur.id} ELSE tainted
  /\ UNCHANGED <<pool, cache, symmap, maps, acl, bal>>

-----------------------------------------------------------------------------
(* FlowAddWrapper_                                                         *)

(* The key is made of the subscriber and the inverse direction.            *)
Lookup(t) ==
  /\ Go(t, "lookup", "check")
  /\ me' = [me EXCEPT ![t].sym = symmap[<<R(t).sub, InverseFlowType(R(t).type)>>]]
  /\ UNCHANGED <<pool, cache, symmap, maps, acl, bal, faults, tainted>>

AlreadyInstalled(t) ==
  /\ pc[t] = "check" /\ me[t].op = "add"
  /\ Cached(me[t].flow)
  /\ Return(t)
  /\ UNCHANGED <<pool, cache, symmap, maps, acl, bal, faults, tainted>>

NotInstalled(t) ==
  /\ Go(t, "check", "symm")
  /\ me[t].op = "add"
  /\ ~Cached(me[t].flow)
  /\ UNCHANGED <<pool, cache, symmap, maps, acl, bal, faults, me, tainted>>

SymmetricCached(t) == me[t].sym # None /\ Cached(me[t].sym)

CheckSymmetric(t) ==
  /\ Go(t, "symm", IF SymmetricCached(t) THEN "deref" ELSE "alloc")
  /\ UNCHANGED <<pool, cache, symmap, maps, acl, bal, faults, me, tainted>>

(* get_device_flow_params; the entry may be gone by now (INTERNAL).        *)
Deref(t) ==
  /\ pc[t] = "deref"
  /\ IF Cached(me[t].sym)
     THEN /\ pc' = [pc EXCEPT ![t] = "add"]
          /\ me' = [me EXCEPT ![t].ptr = me[t].sym]
     ELSE Return(t)
  /\ UNCHANGED <<pool, cache, symmap, maps, acl, bal, faults, tainted>>

(* free_flow_id, or free_flow_ids one at a time, after a failed addition.  *)
FreeAfterAdd(t) ==
  LET last == Symmetric(t) \/ me[t].idx = Need(t) IN
  /\ pc[t] = "free" /\ me[t].op = "add"
  /\ Release(IF R(t).replicate THEN me[t].ids[me[t].idx] ELSE me[t].cur.id, me[t].flow)
  /\ IF last THEN Return(t)
     ELSE me' = [me EXCEPT ![t].idx = @ + 1] /\ UNCHANGED pc
  /\ UNCHANGED <<cache, symmap, maps, acl, bal, faults>>

(* update_voltha_flow_to_cache                                             *)
UpdateCache(t) ==
  /\ pc[t] = "cache"
  /\ \E ps \in [1 .. Need(t) -> UNION {Param(t, i) : i \in 1 .. Need(t)}] :
       /\ \A i \in 1 .. Need(t) : ps[i] \in Param(t, i)
       /\ cache' = [cache EXCEPT ![me[t].flow] = ps]
  /\ IF R(t).kind = "datapath" THEN pc' = [pc EXCEPT ![t] = "link"] /\ UNCHANGED me
     ELSE Return(t)
  /\ UNCHANGED <<pool, symmap, maps, acl, bal, faults, tainted>>

Link(t) ==
  /\ pc[t] = "link"
  /\ symmap' = [symmap EXCEPT ![<<R(t).sub, R(t).type>>] = me[t].flow]
  /\ Return(t)
  /\ UNCHANGED <<pool, cache, maps, acl, bal, faults, tainted>>

-----------------------------------------------------------------------------
(* FlowRemoveWrapper_                                                      *)

NotFound(t) ==
  /\ pc[t] = "check" /\ me[t].op = "remove"
  /\ ~Cached(me[t].flow)
  /\ Return(t)
  /\ UNCHANGED <<pool, cache, symmap, maps, acl, bal, faults, tainted>>

Found(t) ==
  /\ Go(t, "check", "get")
  /\ me[t].op = "remove"
  /\ Cached(me[t].flow)
  /\ UNCHANGED <<pool, cache, symmap, maps, acl, bal, faults, me, tainted>>

(* Mutant: the entry is erased first, and used afterwards.                 *)
GetDeviceFlow_Erases(t) ==
  /\ pc[t] = "get"
  /\ IF Cached(me[t].flow)
     THEN /\ pc' = [pc EXCEPT ![t] = "rmaps"]
          /\ me' = [me EXCEPT ![t].ptr = me[t].flow]
          /\ cache' = [cache EXCEPT ![me[t].flow] = <<>>]
     ELSE Return(t) /\ UNCHANGED cache
  /\ UNCHANGED <<pool, symmap, maps, acl, bal, faults, tainted>>

(* get_device_flow; the entry may be gone by now (INTERNAL).               *)
GetDeviceFlow(t) ==
  /\ pc[t] = "get"
  /\ IF Cached(me[t].flow)
     THEN /\ pc' = [pc EXCEPT ![t] = "rmaps"]
          /\ me' = [me EXCEPT ![t].ptr = me[t].flow]
     ELSE Return(t)
  /\ UNCHANGED <<pool, cache, symmap, maps, acl, bal, faults, tainted>>

(* FlowRemove_ succeeded: its id is given back.                            *)
FreeAfterRemove(t) ==
  /\ pc[t] = "free" /\ me[t].op = "remove"
  /\ \E p \in Pointee(t, me[t].idx) : Release(p.id, me[t].flow)
  /\ NextRemoval(t)
  /\ UNCHANGED <<cache, symmap, maps, acl, bal, faults>>

(* remove_voltha_flow_from_cache: whoever points into the entry points to  *)
(* freed memory now.                                                       *)
Uncache(t) ==
  /\ Go(t, "uncache", "unlink")
  /\ cache' = [cache EXCEPT ![me[t].flow] = <<>>]
  /\ me' = [u \in Threads |->
              IF me[u].ptr = me[t].flow THEN [me[u] EXCEPT !.ptr = None] ELSE me[u]]
  /\ UNCHANGED <<pool, symmap, maps, acl, bal, faults, tainted>>

(* The entry of the flow's subscriber and direction goes, whatever the     *)
(* kind of the flow.                                                       *)
Unlink(t) ==
  /\ pc[t] = "unlink"
  /\ symmap' = [symmap EXCEPT ![<<R(t).sub, R(t).type>>] = None]
  /\ Return(t)
  /\ UNCHANGED <<pool, cache, maps, acl, bal, faults, tainted>>

-----------------------------------------------------------------------------
Add(t) ==
  \/ Lookup(t) \/ AlreadyInstalled(t) \/ NotInstalled(t) \/ CheckSymmetric(t) \/ Deref(t)
  \/ Alloc(t) \/ AllocInvalid(t) \/ AllocSpins(t)
  \/ AddMaps(t) \/ AddSucceeds(t) \/ AddFails(t)
  \/ FreeAfterAdd(t) \/ UpdateCache(t) \/ Link(t)

Remove(t) ==
  \/ NotFound(t) \/ Found(t) \/ GetDeviceFlow(t)
  \/ RemoveAcl(t) \/ RemoveMaps(t) \/ BalRemoves(t) \/ BalRefuses(t)
  \/ FreeAfterRemove(t) \/ Uncache(t) \/ Unlink(t)

Next == \E t \in Threads :
  \/ \E v \in Flows, op \in {"add", "remove"} : Call(t, v, op)
  \/ Add(t)
  \/ Remove(t)

Spec == Init /\ [][Next]_vars

-----------------------------------------------------------------------------
(* Properties.                                                             *)

PCs == {"idle", "lookup", "check", "symm", "deref", "alloc", "spin", "add", "bal",
        "rmaps", "rbal", "free", "cache", "link", "get", "uncache", "unlink"}

Keys == FlowIds \X Types

TypeOK ==
  /\ pool \subseteq FlowIds
  /\ cache \in [Flows -> Seq(Params)]
  /\ symmap \in [Subs \X Types -> Flows \cup {None}]
  /\ idPort \in [FlowIds -> Ports]
  /\ portFlows \in [Ports -> SUBSET FlowIds]
  /\ idGem \in [FlowIds -> Gems \cup {None}]
  /\ acl \subseteq Keys /\ bal \subseteq Keys
  /\ pc \in [Threads -> PCs]
  /\ me \in [Threads -> [op : {"none", "add", "remove"}, flow : Flows \cup {None},
                         sym : Flows \cup {None}, ptr : Flows \cup {None},
                         ids : Seq(FlowIds), idx : 1 .. MaxReplicated,
                         cur : Params \cup {NoParam}, alone : BOOLEAN]]
  /\ tainted \subseteq FlowIds

(***************************************************************************)
(* Two VOLTHA flows never claim the same device flow (id and direction),   *)
(* unless the agent itself gave the id back while it was in use.           *)
(***************************************************************************)
KeyExclusive ==
  \A v, w \in Flows :
    v # w /\ Settled(v) /\ Settled(w) =>
      KeysOf(v) \cap KeysOf(w) \subseteq tainted \X Types

(***************************************************************************)
(* The cache tells the truth: what it says is installed, BAL (or the ACL   *)
(* table) has, whatever failed, was undone or was removed since.           *)
(***************************************************************************)
CachedIsInstalled ==
  \A v \in Flows : Cached(v) /\ Settled(v) =>
    KeysOf(v) \ (tainted \X Types) \subseteq IF Req[v].kind = "trap" THEN acl ELSE bal

(***************************************************************************)
(* No id is lost: once no call is running, an id whose bit is set is used  *)
(* by a cached flow or BAL refused to remove its flow.                     *)
(***************************************************************************)
IdsAccounted ==
  (\A t \in Threads : ~Busy(t)) =>
    \A f \in pool \ (tainted \cup {0}) :
      \/ \E v \in Flows : f \in IdsOf(v)
      \/ \E type \in Types : <<f, type>> \in bal

(***************************************************************************)
(* An id whose bit is clear is really free: BAL has no flow with it, so    *)
(* the next flow that gets it cannot collide.                              *)
(***************************************************************************)
ClearIdIsUnused ==
  \A f \in FlowIds \ (pool \cup tainted) : \A type \in Types : <<f, type>> \notin bal \cup acl

(***************************************************************************)
(* Packet-out reaches every subscriber with a downstream flow: the flow is *)
(* among those of its port and its id leads to its GEM port.               *)
(***************************************************************************)
DownstreamIsReachable ==
  \A v \in Flows :
    Cached(v) /\ Settled(v) /\ Req[v].kind = "datapath" /\ Req[v].type = "downstream" =>
      \A i \in DOMAIN cache[v] : cache[v][i].id \notin tainted =>
        /\ cache[v][i].id \in portFlows[Req[v].port]
        /\ idGem[cache[v][i].id] = cache[v][i].gem

(***************************************************************************)
(* A pointer into the cache outlives its entry only if two calls for the   *)
(* subscriber overlap.                                                     *)
(***************************************************************************)
Dereferences(t) ==
  \/ me[t].op = "add" /\ Symmetric(t) /\ pc[t] \in {"add", "bal", "rmaps", "rbal", "cache"}
  \/ me[t].op = "remove" /\ pc[t] \in {"rmaps", "rbal", "free"}

NoUseAfterFree ==
  \A t \in Threads : me[t].alone /\ Dereferences(t) => me[t].ptr # None /\ Cached(me[t].ptr)

(***************************************************************************)
(* What the comments say and the code does not do.                         *)
(***************************************************************************)

(***************************************************************************)
(* OnuPacketOut_: "Map the port_no to one of the flows that owns it to     *)
(* find a gemport_id for that flow."  PickedGem is what it finds.          *)
(***************************************************************************)
PickedGem(port) ==
  LET fs == portFlows[port] IN
  IF fs = {} THEN None ELSE idGem[CHOOSE f \in fs : \A g \in fs : f <= g]

PacketOutOwnsPort ==
  \A port \in Ports : PickedGem(port) # None =>
    \E v \in Flows : Req[v].port = port /\ \E i \in DOMAIN Req[v].gems : Req[v].gems[i] = PickedGem(port)
=============================================================================
