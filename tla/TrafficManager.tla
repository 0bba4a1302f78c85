--------------------------- MODULE TrafficManager ---------------------------
(***************************************************************************)
(* Schedulers, queues and queue mapping profiles (QMPs).                   *)
(*                                                                         *)
(* A subscriber's tech profile has a scheduler in the downstream; its      *)
(* queues hang on it or, upstream, on the NNI's default scheduler, which   *)
(* all subscribers share.  More than one queue calls for a QMP, which says *)
(* what p-bits go to what queue; equal QMPs are shared, by counting the    *)
(* references of schedulers and subscribers to them.  The agent names      *)
(* schedulers and QMPs itself, from two pools of ids.                      *)
(*                                                                         *)
(* A subscriber has one call at a time (the VOLTHA adapter's order); calls *)
(* for different subscribers interleave.  One action is one critical       *)
(* section of the tables the subscribers share, or one request to BAL;     *)
(* what touches only the caller's own entries goes with it.                *)
(*                                                                         *)
(* Data abstracted: shaping, weights and priorities; the p-bit strings,    *)
(* which become the QMP of a tech profile (MapOf); what happens to a GEM   *)
(* port itself (CfgCompletion) and to the flow that uses a queue           *)
(* (FlowManager); the upstream scheduler, an alloc object without an id    *)
(* of the agent's (CfgCompletion).                                         *)
(***************************************************************************)
EXTENDS Integers, Sequences, FiniteSets

CONSTANTS
  Subs,          \* subscribers: (PON, ONU, UNI)
  TechProfiles,
  QueuesOf,      \* the priorities of a tech profile's queues, a GEM port each
  MapOf,         \* the QMP of a tech profile in a direction
  Services,      \* the tech profiles the subscribers may have
  MaxSchedId,    \* MAX_TM_SCHED_ID
  MaxQmpId,      \* MAX_TM_QMP_ID
  PonPorts,      \* PON ports: 16 or 64
  NniPorts,      \* NNI ports: 4 or 10
  KnowsQueues,   \* whether BAL answers ALREADY for a queue it has (external)
  MaxFaults,     \* refusals by BAL (a bound of the model)
  None

Dirs     == {"upstream", "downstream"}
Keys     == Subs \X TechProfiles            \* sched_map_key_tuple, downstream
SchedIds == 0 .. MaxSchedId - 1
QmpIds   == 0 .. MaxQmpId - 1
QmpMaps  == {MapOf[tp][dir] : tp \in TechProfiles, dir \in Dirs}
QosTypes == {"fixed_queue", "priority_to_queue"}
NotUse   == 32768                            \* QSET_NOT_USE

(* get_default_tm_sched_id                                                 *)
UpstreamStart   == MaxSchedId - (NniPorts - 1)
DownstreamStart == UpstreamStart - PonPorts
DefaultSched(dir, intf) ==
  IF dir = "upstream" THEN UpstreamStart + intf ELSE DownstreamStart + intf

NniSched   == DefaultSched("upstream", 0)
Scheds     == SchedIds \cup {NniSched, None}
References == Scheds \X Subs                 \* sched_qmp_id_map_key_tuple

Gems == {g \in Subs \X TechProfiles \X (1 .. 8) : g[3] \in DOMAIN QueuesOf[g[2]]}

ASSUME TmAssumption ==
  /\ MaxSchedId \in Nat \ {0} /\ MaxQmpId \in 1 .. 16
  /\ PonPorts \in Nat \ {0} /\ NniPorts \in Nat \ {0}
  /\ DownstreamStart \in Nat
  /\ KnowsQueues \in BOOLEAN /\ MaxFaults \in Nat
  /\ Services \subseteq [Subs -> SUBSET TechProfiles]
  /\ \A tp \in TechProfiles : QueuesOf[tp] \in Seq(0 .. 7) /\ Len(QueuesOf[tp]) \in 1 .. 8
  /\ None \notin Int \cup Keys \cup QmpMaps \cup QosTypes

VARIABLES
  schedBits,  \* tm_sched_bitset: the ids whose bit is set
  schedMap,   \* sched_map
  qmpBits,    \* tm_qmp_bitset
  qmpMap,     \* qmp_id_to_qmp_map
  schedQmp,   \* sched_qmp_id_map
  qosOf,      \* qos_type_map
  gemOwner,   \* pon_gem_to_onu_uni_map: the GEM ports that have an entry
  balSched,   \* BAL's schedulers: for whom one was configured (external)
  balQmp,     \* BAL's QMPs (external)
  balQueue,   \* BAL's queues: scheduler, queue and queue set ids (external)
  pc, call,   \* where a subscriber's call stands, and its locals
  service,    \* the tech profiles of a subscriber
  ready,      \* the schedulers the client was told it has
  told,       \* what it was told of the queues of a tech profile and direction
  already,    \* history: GEM ports whose upstream queue "exists already"
  unmade,     \* history: QMP ids in the table that BAL has not accepted
  kept,       \* history: QMP ids BAL refused to clear
  stray,      \* history: queues BAL refused to clear
  raced,      \* history: one of the two known races on QMPs happened
  faults      \* how often BAL refused

tables == <<schedBits, schedMap, qmpBits, qmpMap, schedQmp, qosOf, gemOwner>>
device == <<balSched, balQmp, balQueue>>
client == <<service, ready, told>>
history == <<already, unmade, kept, stray, raced>>
vars == <<tables, device, pc, call, client, history, faults>>

PCs == {"idle", "setSched", "clearSched", "freeSched", "findQmp", "newQmp",
        "referOld", "referNew", "setQmp", "setQueues", "clearQueues",
        "freeQmp", "clearQmp"}

NoCall == [tp |-> None, dir |-> None, sched |-> None, qmp |-> None, failed |-> FALSE]
CallTypes == [tp : TechProfiles \cup {None}, dir : Dirs \cup {None}, sched : Scheds,
              qmp : QmpIds \cup {None}, failed : BOOLEAN]
Queues   == Scheds \X (0 .. 7) \X (QmpIds \cup {NotUse, None})

(* CreateDefaultQueue has made the queues of the NNI's default scheduler.  *)
Init ==
  /\ schedBits = {} /\ schedMap = [k \in Keys |-> None]
  /\ qmpBits = {} /\ qmpMap = [q \in QmpIds |-> None]
  /\ schedQmp = [r \in References |-> None]
  /\ qosOf = [s \in Subs |-> None]
  /\ gemOwner = {}
  /\ balSched = [id \in SchedIds |-> None]
  /\ balQmp = [q \in QmpIds |-> None]
  /\ balQueue = {<<NniSched, n, NotUse>> : n \in 0 .. 3}
  /\ pc = [s \in Subs |-> "idle"] /\ call = [s \in Subs |-> NoCall]
  /\ service \in Services
  /\ ready = {} /\ told = [kd \in Keys \X Dirs |-> "gone"]
  /\ already = {} /\ unmade = {} /\ kept = {} /\ stray = {} /\ raced = FALSE /\ faults = 0

-----------------------------------------------------------------------------
Key(s)   == <<s, call[s].tp>>
Side(s)  == <<Key(s), call[s].dir>>
Ref(s)   == <<call[s].sched, s>>
Size(tp) == Len(QueuesOf[tp])
Wanted(s) == MapOf[call[s].tp][call[s].dir]

At(s, l) == pc[s] = l
Goto(s, l) == pc' = [pc EXCEPT ![s] = l]
Return(s)  == Goto(s, "idle") /\ call' = [call EXCEPT ![s] = NoCall]
Refusals(n) == faults + n <= MaxFaults /\ faults' = faults + n
Refused     == Refusals(1)

(* The scan of get_tm_sched_id and get_tm_qmp_id.                          *)
FirstClear(bits, ids, id) ==
  id \in ids \ bits /\ \A j \in ids \ bits : id <= j

(***************************************************************************)
(* get_tm_sched_id, one critical section: the id of the key, a new one if  *)
(* it has none, or -1 (None) when all are taken.                           *)
(***************************************************************************)
GetSched(k, id) ==
  \/ /\ schedMap[k] # None /\ id = schedMap[k]
     /\ UNCHANGED <<schedBits, schedMap>>
  \/ /\ schedMap[k] = None /\ FirstClear(schedBits, SchedIds, id)
     /\ schedBits' = schedBits \cup {id}
     /\ schedMap' = [schedMap EXCEPT ![k] = id]
  \/ /\ schedMap[k] = None /\ SchedIds \subseteq schedBits /\ id = None
     /\ UNCHANGED <<schedBits, schedMap>>

(* The scheduler of the queues in a direction.                             *)
SchedOf(k, dir, id) ==
  IF dir = "upstream"
  THEN id = NniSched /\ UNCHANGED <<schedBits, schedMap>>
  ELSE GetSched(k, id)

(* get_qos_type                                                            *)
Qos(s, size) ==
  IF qosOf[s] # None THEN qosOf[s]
  ELSE IF size > 1 THEN "priority_to_queue" ELSE "fixed_queue"

SetOf(qos, sched, s) == IF qos = "fixed_queue" THEN NotUse ELSE schedQmp[<<sched, s>>]

(* The key of a queue in BAL: CreateQueue and RemoveQueue agree on it.     *)
QueueKey(qos, sched, set, priority) ==
  <<sched, IF qos = "fixed_queue" THEN 0 ELSE priority, set>>

Begin(s, tp, dir, id, l) ==
  /\ call' = [call EXCEPT ![s] = [NoCall EXCEPT !.tp = tp, !.dir = dir, !.sched = id]]
  /\ Goto(s, l)

-----------------------------------------------------------------------------
(* CreateSched, downstream.                                                *)
CreateSched(s, tp, id) ==
  /\ At(s, "idle") /\ <<s, tp>> \notin ready
  /\ GetSched(<<s, tp>>, id)
  /\ Begin(s, tp, "downstream", id, "setSched")
  /\ UNCHANGED <<qmpBits, qmpMap, schedQmp, qosOf, gemOwner, device, client, history, faults>>

BalSetsSched(s) ==
  /\ At(s, "setSched") /\ call[s].sched # None
  /\ balSched' = [balSched EXCEPT ![call[s].sched] = Key(s)]
  /\ ready' = ready \cup {Key(s)}
  /\ Return(s)
  /\ UNCHANGED <<tables, balQmp, balQueue, service, told, history, faults>>

(* The id stays the key's.  BAL has no scheduler (uint16_t) -1.            *)
BalRefusesSched(s) ==
  /\ At(s, "setSched")
  /\ IF call[s].sched = None THEN UNCHANGED faults ELSE Refused
  /\ Return(s)
  /\ UNCHANGED <<tables, device, client, history>>

(* RemoveSched, downstream: is_tm_sched_id_present and get_tm_sched_id.    *)
Releasable(s, tp) ==
  \A dir \in Dirs : told[<<<<s, tp>>, dir>>] = "gone"

RemoveSched(s, tp) ==
  /\ At(s, "idle") /\ Releasable(s, tp)
  /\ schedMap[<<s, tp>>] # None
  /\ ready' = ready \ {<<s, tp>>}
  /\ Begin(s, tp, "downstream", schedMap[<<s, tp>>], "clearSched")
  /\ UNCHANGED <<tables, device, service, told, history, faults>>

BalClearsSched(s) ==
  /\ At(s, "clearSched")
  /\ balSched' = [balSched EXCEPT ![call[s].sched] = None]
  /\ Goto(s, "freeSched")
  /\ UNCHANGED <<tables, balQmp, balQueue, call, client, history, faults>>

(* Mutant: the id is freed whatever BAL says.                              *)
BalKeepsSched_FreesAnyway(s) ==
  /\ At(s, "clearSched")
  /\ Refused /\ Goto(s, "freeSched")
  /\ UNCHANGED <<tables, device, call, client, history>>

BalKeepsSched(s) ==
  /\ At(s, "clearSched")
  /\ Refused /\ Return(s)
  /\ UNCHANGED <<tables, device, client, history>>

(* Mutant: the entry of the key is not erased.                             *)
FreeSched_KeepsEntry(s) ==
  /\ At(s, "freeSched")
  /\ schedBits' = schedBits \ {schedMap[Key(s)]}
  /\ Return(s)
  /\ UNCHANGED <<schedMap, qmpBits, qmpMap, schedQmp, qosOf, gemOwner, device, client, history,
                 faults>>

(* free_tm_sched_id                                                        *)
FreeSched(s) ==
  /\ At(s, "freeSched")
  /\ schedBits' = schedBits \ {schedMap[Key(s)]}
  /\ schedMap' = [schedMap EXCEPT ![Key(s)] = None]
  /\ Return(s)
  /\ UNCHANGED <<qmpBits, qmpMap, schedQmp, qosOf, gemOwner, device, client, history, faults>>

-----------------------------------------------------------------------------
(* CreateTrafficQueues_, for a tech profile that has its scheduler.        *)
CreateQueues(s, tp, dir, id) ==
  /\ At(s, "idle") /\ <<s, tp>> \in ready /\ told[<<<<s, tp>>, dir>>] # "made"
  /\ told' = [told EXCEPT ![<<<<s, tp>>, dir>>] = "unknown"]
  /\ qosOf' = [qosOf EXCEPT ![s] = Qos(s, Size(tp))]
  /\ SchedOf(<<s, tp>>, dir, id)
  /\ Begin(s, tp, dir, id,
           IF Qos(s, Size(tp)) = "priority_to_queue" THEN "findQmp" ELSE "setQueues")
  /\ UNCHANGED <<qmpBits, qmpMap, schedQmp, gemOwner, device, service, ready,
                 history, faults>>

(* get_tm_qmp_id(map) reads the table without its lock.                    *)
FindQmp(s) ==
  LET holders == {q \in QmpIds : qmpMap[q] = Wanted(s)} IN
  /\ At(s, "findQmp")
  /\ \/ holders = {} /\ Goto(s, "newQmp") /\ UNCHANGED call
     \/ \E q \in holders :
          /\ \A r \in holders : q <= r
          /\ schedQmp[Ref(s)] = None
          /\ call' = [call EXCEPT ![s].qmp = q]
          /\ Goto(s, "referOld")
     \/ /\ holders # {} /\ schedQmp[Ref(s)] # None
        /\ Goto(s, "setQueues") /\ UNCHANGED call
  /\ UNCHANGED <<tables, device, client, history, faults>>

(* The critical section of get_tm_qmp_id(sched, .., map).                  *)
BeingCleared(q) == \E t \in Subs : At(t, "clearQmp") /\ call[t].qmp = q

AllocQmp(s, q) ==
  /\ At(s, "newQmp") /\ FirstClear(qmpBits, QmpIds, q)
  /\ qmpBits' = qmpBits \cup {q}
  /\ qmpMap' = [qmpMap EXCEPT ![q] = Wanted(s)]
  /\ call' = [call EXCEPT ![s].qmp = q]
  /\ unmade' = unmade \cup {q}
  /\ raced' = (raced \/ BeingCleared(q))
  /\ Goto(s, "referNew")
  /\ UNCHANGED <<schedBits, schedMap, schedQmp, qosOf, gemOwner, device, client, already, kept,
                 stray, faults>>

NoQmpLeft(s) ==
  /\ At(s, "newQmp") /\ QmpIds \subseteq qmpBits
  /\ Return(s)
  /\ UNCHANGED <<tables, device, client, history, faults>>

(* update_sched_qmp_id_map: insert() leaves an entry alone.                *)
Refer(s) ==
  /\ pc[s] \in {"referOld", "referNew"}
  /\ schedQmp' = [schedQmp EXCEPT ![Ref(s)] = IF @ = None THEN call[s].qmp ELSE @]
  /\ raced' = (raced \/ qmpMap[call[s].qmp] # Wanted(s))
  /\ Goto(s, IF At(s, "referNew") THEN "setQmp" ELSE "setQueues")
  /\ UNCHANGED <<schedBits, schedMap, qmpBits, qmpMap, qosOf, gemOwner, device, call,
                 client, already, unmade, kept, stray, faults>>

BalSetsQmp(s) ==
  /\ At(s, "setQmp")
  /\ balQmp' = [balQmp EXCEPT ![call[s].qmp] = Wanted(s)]
  /\ unmade' = unmade \ {call[s].qmp} /\ kept' = kept \ {call[s].qmp}
  /\ Goto(s, "setQueues")
  /\ UNCHANGED <<tables, balSched, balQueue, call, client, already, stray, raced, faults>>

(* The id, its map and the reference stay: the retry finds them "present". *)
BalRefusesQmp(s) ==
  /\ At(s, "setQmp")
  /\ Refused /\ Return(s)
  /\ UNCHANGED <<tables, device, client, history>>

(***************************************************************************)
(* The CreateQueue calls.  For a queue it has BAL may answer ALREADY, with *)
(* which CreateQueue leaves before it maps the GEM port; any other refusal,*)
(* of the queue or its GEM port, ends the loop.                            *)
(***************************************************************************)
QueuesFor(s) ==
  [i \in DOMAIN QueuesOf[call[s].tp] |->
     QueueKey(qosOf[s], call[s].sched, SetOf(qosOf[s], call[s].sched, s), QueuesOf[call[s].tp][i])]

SetQueues(s) ==
  /\ At(s, "setQueues")
  /\ \E done, made \in 0 .. Size(call[s].tp) :
       LET keys   == QueuesFor(s)
           dup    == {i \in 1 .. done : /\ KnowsQueues
                                       /\ keys[i] \in balQueue \cup {keys[j] : j \in 1 .. i - 1}}
           mapped == {<<s, call[s].tp, i>> : i \in (1 .. done) \ dup}
           same   == {<<s, call[s].tp, i>> : i \in dup}
           up     == call[s].dir = "upstream" IN
       /\ made \in {done, done + 1}
       /\ balQueue' = balQueue \cup {keys[i] : i \in 1 .. made}
       /\ stray' = stray \ {keys[i] : i \in 1 .. made}
       /\ gemOwner' = IF up THEN gemOwner \cup mapped ELSE gemOwner
       /\ already' = IF up THEN (already \ mapped) \cup same ELSE already
       /\ \/ /\ done = Size(call[s].tp)
             /\ told' = [told EXCEPT ![Side(s)] = "made"] /\ UNCHANGED faults
          \/ done < Size(call[s].tp) /\ Refused /\ UNCHANGED told
  /\ Return(s)
  /\ UNCHANGED <<schedBits, schedMap, qmpBits, qmpMap, schedQmp, qosOf, balSched, balQmp,
                 service, ready, unmade, kept, raced>>

-----------------------------------------------------------------------------
(* RemoveTrafficQueues_                                                    *)
RemoveQueues(s, tp, dir) ==
  /\ At(s, "idle") /\ told[<<<<s, tp>>, dir>>] # "gone"
  /\ qosOf' = [qosOf EXCEPT ![s] = Qos(s, Size(tp))]
  /\ told' = [told EXCEPT ![<<<<s, tp>>, dir>>] = "unknown"]
  /\ Begin(s, tp, dir, IF dir = "upstream" THEN NniSched ELSE schedMap[<<s, tp>>], "clearQueues")
  /\ UNCHANGED <<schedBits, schedMap, qmpBits, qmpMap, schedQmp, gemOwner, device,
                 service, ready, history, faults>>

(* Mutants: the entries go with the queues of either direction; only the   *)
(* first one goes.                                                         *)
Unmap_EitherDirection(s) ==
  gemOwner \ {<<s, call[s].tp, i>> : i \in DOMAIN QueuesOf[call[s].tp]}

Unmap_OnlyFirst(s) ==
  IF call[s].dir = "upstream" THEN gemOwner \ {<<s, call[s].tp, 1>>} ELSE gemOwner

(***************************************************************************)
(* The RemoveQueue calls, all of them whatever BAL answers.  Queues of the *)
(* NNI's scheduler stay, those of a scheduler that is gone are not looked  *)
(* for.                                                                    *)
(***************************************************************************)
Unmap(s) ==
  IF call[s].dir = "upstream"
  THEN gemOwner \ {<<s, call[s].tp, i>> : i \in DOMAIN QueuesOf[call[s].tp]}
  ELSE gemOwner

(* clear_qos_type and the return, with the error of a RemoveQueue if any.  *)
ClearQos(s, failed) ==
  /\ qosOf' = [qosOf EXCEPT ![s] = None]
  /\ told' = [told EXCEPT ![Side(s)] = IF failed THEN "unknown" ELSE "gone"]
  /\ Return(s)

ClearQueues(s) ==
  /\ At(s, "clearQueues")
  /\ LET keys == QueuesFor(s)
         here == call[s].dir = "downstream" /\ call[s].sched # None IN
     \E stay \in SUBSET (IF here THEN DOMAIN keys ELSE {}) :
       /\ Refusals(Cardinality(stay))
       /\ LET gone == IF here THEN {keys[i] : i \in DOMAIN keys \ stay} ELSE {} IN
          balQueue' = balQueue \ gone /\ stray' = (stray \ gone) \cup {keys[i] : i \in stay}
       /\ IF qosOf[s] = "priority_to_queue" /\ call[s].sched # None
          THEN /\ call' = [call EXCEPT ![s].qmp = schedQmp[Ref(s)], ![s].failed = stay # {}]
               /\ Goto(s, "freeQmp")
               /\ UNCHANGED <<qosOf, told>>
          ELSE ClearQos(s, stay # {})
  /\ gemOwner' = Unmap(s)
  /\ UNCHANGED <<schedBits, schedMap, qmpBits, qmpMap, schedQmp, balSched, balQmp,
                 service, ready, already, unmade, kept, raced>>

(* Mutants: only the references of subscribers' schedulers count; the      *)
(* references are counted before the caller's is erased.                   *)
Referred_ByOwnScheds(q) ==
  \E s \in Subs, id \in SchedIds : schedQmp'[<<id, s>>] = q /\ q # None

Referred_BeforeErase(q) == \E r \in References : schedQmp[r] = q /\ q # None

(* The reference count, once the caller's reference is erased, is not 0.   *)
Referred(q) == \E r \in References : schedQmp'[r] = q /\ q # None

(***************************************************************************)
(* free_tm_qmp_id, one critical section.  Its result is not initialised if *)
(* nobody refers to an id that is not in the table: either may come out.   *)
(***************************************************************************)
FreeQmp(s) ==
  LET q == call[s].qmp  known == q # None /\ qmpMap[q] # None IN
  /\ At(s, "freeQmp")
  /\ schedQmp' = [schedQmp EXCEPT ![Ref(s)] = None]
  /\ \/ /\ Referred(q) /\ ClearQos(s, call[s].failed)
        /\ UNCHANGED <<qmpBits, qmpMap, unmade>>
     \/ /\ ~Referred(q) /\ known
        /\ qmpBits' = qmpBits \ {q} /\ qmpMap' = [qmpMap EXCEPT ![q] = None]
        /\ unmade' = unmade \ {q}
        /\ Goto(s, "clearQmp") /\ UNCHANGED <<call, qosOf, told>>
     \/ /\ ~Referred(q) /\ ~known
        /\ \/ Goto(s, "clearQmp") /\ UNCHANGED <<call, qosOf, told>>
           \/ ClearQos(s, call[s].failed)
        /\ UNCHANGED <<qmpBits, qmpMap, unmade>>
  /\ UNCHANGED <<schedBits, schedMap, gemOwner, device, service, ready,
                 already, kept, stray, raced, faults>>

BalClearsQmp(s) ==
  /\ At(s, "clearQmp")
  /\ balQmp' = IF call[s].qmp = None THEN balQmp ELSE [balQmp EXCEPT ![call[s].qmp] = None]
  /\ kept' = kept \ {call[s].qmp}
  /\ ClearQos(s, call[s].failed)
  /\ UNCHANGED <<schedBits, schedMap, qmpBits, qmpMap, schedQmp, gemOwner, balSched, balQueue,
                 service, ready, already, unmade, stray, raced, faults>>

(* The return on this error leaves qos_type_map as it is.                  *)
BalKeepsQmp(s) ==
  /\ At(s, "clearQmp")
  /\ kept' = kept \cup ({call[s].qmp} \ {None})
  /\ Refused /\ Return(s)
  /\ UNCHANGED <<tables, device, client, already, unmade, stray, raced>>

-----------------------------------------------------------------------------
(***************************************************************************)
(* What FlowAdd_ looks up for a flow.  With an id and a QoS type in the    *)
(* tables, as they are when the client adds one, it changes nothing.       *)
(***************************************************************************)
Egress(s, tp, dir) ==
  LET qos   == Qos(s, 0)
      sched == IF dir = "upstream" THEN NniSched ELSE schedMap[<<s, tp>>] IN
  [qos |-> qos, sched |-> sched, set |-> SetOf(qos, sched, s)]

-----------------------------------------------------------------------------
Request(s) ==
  \E tp \in service[s] :
    \/ \E id \in SchedIds \cup {None} : CreateSched(s, tp, id)
    \/ RemoveSched(s, tp)
    \/ \E dir \in Dirs :
         \/ \E id \in Scheds : CreateQueues(s, tp, dir, id)
         \/ RemoveQueues(s, tp, dir)

Continue(s) ==
  \/ BalSetsSched(s) \/ BalRefusesSched(s)
  \/ BalClearsSched(s) \/ BalKeepsSched(s) \/ FreeSched(s)
  \/ FindQmp(s) \/ NoQmpLeft(s) \/ Refer(s) \/ BalSetsQmp(s) \/ BalRefusesQmp(s)
  \/ \E q \in QmpIds : AllocQmp(s, q)
  \/ SetQueues(s) \/ ClearQueues(s) \/ FreeQmp(s) \/ BalClearsQmp(s) \/ BalKeepsQmp(s)

Next == \E s \in Subs : Request(s) \/ Continue(s)

Spec == Init /\ [][Next]_vars

-----------------------------------------------------------------------------
(* The types of the state.                                                 *)
TypeOK ==
  /\ schedBits \subseteq SchedIds
  /\ schedMap \in [Keys -> SchedIds \cup {None}]
  /\ qmpBits \subseteq QmpIds
  /\ qmpMap \in [QmpIds -> QmpMaps \cup {None}]
  /\ schedQmp \in [References -> QmpIds \cup {None}]
  /\ qosOf \in [Subs -> QosTypes \cup {None}]
  /\ gemOwner \subseteq Gems /\ already \subseteq Gems
  /\ balSched \in [SchedIds -> Keys \cup {None}]
  /\ balQmp \in [QmpIds -> QmpMaps \cup {None}]
  /\ balQueue \subseteq Queues
  /\ pc \in [Subs -> PCs] /\ call \in [Subs -> CallTypes]
  /\ service \in [Subs -> SUBSET TechProfiles]
  /\ ready \subseteq Keys
  /\ told \in [Keys \X Dirs -> {"made", "gone", "unknown"}]
  /\ unmade \subseteq QmpIds /\ kept \subseteq QmpIds /\ stray \subseteq Queues
  /\ raced \in BOOLEAN
  /\ faults \in 0 .. MaxFaults

(***************************************************************************)
(* A scheduler id is taken exactly as long as it is some key's, and no two *)
(* keys have the same: get_tm_sched_id "gets a unique tm_sched_id".        *)
(***************************************************************************)
SchedIdsExclusive ==
  /\ schedBits = {schedMap[k] : k \in Keys} \ {None}
  /\ \A k, l \in Keys : schedMap[k] = schedMap[l] /\ schedMap[k] # None => k = l

(***************************************************************************)
(* A scheduler in BAL belongs to the key that has its id: it is neither    *)
(* forgotten nor another subscriber's, also when BAL refused to make or to *)
(* clear it; and what the client was told it has is there.                 *)
(***************************************************************************)
SchedulersAreOwned ==
  /\ \A id \in SchedIds : balSched[id] # None => schedMap[balSched[id]] = id
  /\ \A k \in ready : schedMap[k] # None /\ balSched[schedMap[k]] = k

(***************************************************************************)
(* As long as a tech profile has its queues in both directions, which is   *)
(* when it has flows, what FlowAdd_ refers a flow to is in BAL: scheduler, *)
(* queues and the QMP for its p-bits, whatever happens to the subscribers  *)
(* that share the QMP; unless two calls raced for a QMP, or BAL never      *)
(* accepted it.                                                            *)
(***************************************************************************)
Served(s, tp) == \A dir \in Dirs : told[<<<<s, tp>>, dir>>] = "made"

FlowHasItsQueues ==
  \A s \in Subs : \A tp \in service[s], dir \in Dirs :
    LET e == Egress(s, tp, dir) IN
    Served(s, tp) =>
      /\ qosOf[s] # None
      /\ dir = "downstream" => e.sched # None /\ balSched[e.sched] = <<s, tp>>
      /\ \/ raced
         \/ /\ \A i \in DOMAIN QueuesOf[tp] :
                   QueueKey(e.qos, e.sched, e.set, QueuesOf[tp][i]) \in balQueue
            /\ e.qos = "priority_to_queue" =>
                 e.set # None /\ (e.set \in unmade \/ balQmp[e.set] = MapOf[tp][dir])

(***************************************************************************)
(* The few QMP ids do not leak: one is taken exactly as long as the table  *)
(* has it, somebody refers to it or is about to, and a QMP is in BAL under *)
(* it if BAL accepted it; what else BAL has it refused to clear or is about*)
(* to.  Unless two calls raced for a QMP.                                  *)
(***************************************************************************)
QmpIdsAccounted ==
  /\ qmpBits = {q \in QmpIds : qmpMap[q] # None}
  /\ \/ raced
     \/ \A q \in QmpIds :
          /\ q \in qmpBits =>
               \/ \E r \in References : schedQmp[r] = q
               \/ \E s \in Subs : At(s, "referNew") /\ call[s].qmp = q
          /\ q \in qmpBits \ unmade => balQmp[q] = qmpMap[q]
          /\ q \notin qmpBits /\ balQmp[q] # None => q \in kept \/ BeingCleared(q)

(***************************************************************************)
(* After CreateTrafficQueues_ returned OK for the upstream, the GEM ports  *)
(* have their entry in pon_gem_to_onu_uni_map, without which PacketIndica- *)
(* tion drops their packets, until RemoveTrafficQueues_ for the upstream;  *)
(* unless BAL said of the queue that it exists already.                    *)
(***************************************************************************)
GemsAreMapped ==
  \A s \in Subs : \A tp \in service[s] :
    told[<<<<s, tp>>, "upstream">>] = "made" =>
      \A i \in DOMAIN QueuesOf[tp] : <<s, tp, i>> \in gemOwner \cup already

(***************************************************************************)
(* After RemoveTrafficQueues_ returned OK nothing is left: no queue on the *)
(* scheduler but those BAL once refused to clear (a retry no longer finds  *)
(* their queue set), no reference to a QMP, no entry for a GEM port.       *)
(***************************************************************************)
GoneMeansGone ==
  \A s \in Subs : \A tp \in service[s] : \A dir \in Dirs :
    told[<<<<s, tp>>, dir>>] = "gone" =>
      LET sched == IF dir = "upstream" THEN NniSched ELSE schedMap[<<s, tp>>] IN
      /\ schedQmp[<<sched, s>>] = None
      /\ dir = "upstream" => \A i \in DOMAIN QueuesOf[tp] : <<s, tp, i>> \notin gemOwner
      /\ dir = "downstream" => \A b \in balQueue \ stray : sched # None => b[1] # sched

=============================================================================
