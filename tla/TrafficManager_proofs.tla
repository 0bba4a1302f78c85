----------------------- MODULE TrafficManager_proofs ------------------------
(***************************************************************************)
(* What TrafficManager guarantees for any subscribers, tech profiles and   *)
(* numbers of ids and refusals.                                            *)
(***************************************************************************)
EXTENDS TrafficManager, FiniteSetTheorems, TLAPS

-----------------------------------------------------------------------------
(* The inductive invariant.                                                *)

(* A call is for a tech profile and a direction.                           *)
CallInv ==
  \A s \in Subs : pc[s] # "idle" => call[s].tp \in TechProfiles /\ call[s].dir \in Dirs

SchedPcs == {"setSched", "clearSched", "freeSched"}

(* The id a call on a scheduler has read stays its key's: nobody else has  *)
(* calls for that key.  Before the id is freed, BAL's scheduler is gone.   *)
SchedCallInv ==
  \A s \in Subs :
    /\ pc[s] \in SchedPcs => call[s].sched = schedMap[Key(s)]
    /\ pc[s] \in {"clearSched", "freeSched"} =>
         schedMap[Key(s)] # None /\ Key(s) \notin ready
    /\ pc[s] = "freeSched" => balSched[schedMap[Key(s)]] = None

SchedInv == SchedIdsExclusive /\ SchedCallInv /\ SchedulersAreOwned

IInv == TypeOK /\ CallInv /\ SchedInv

-----------------------------------------------------------------------------
(* What the operators return.                                              *)

LEMMA KeyType ==
  ASSUME CallInv, NEW s \in Subs, pc[s] # "idle"
  PROVE  Key(s) \in Keys /\ Side(s) \in Keys \X Dirs /\ Wanted(s) \in QmpMaps
BY DEF CallInv, Key, Side, Wanted, Keys, QmpMaps

LEMMA Distinct == ASSUME NEW s \in Subs, NEW t \in Subs, s # t PROVE Key(s) # Key(t)
BY DEF Key

(* get_tm_sched_id: its result is the key's id afterwards; no other key's  *)
(* id changes, and ids stay exclusive.                                     *)
LEMMA GetSchedResult ==
  ASSUME TypeOK, SchedIdsExclusive, NEW k \in Keys, NEW id, GetSched(k, id)
  PROVE  /\ schedBits' \subseteq SchedIds /\ schedMap' \in [Keys -> SchedIds \cup {None}]
         /\ id = schedMap'[k] /\ id \in SchedIds \cup {None}
         /\ \A l \in Keys : schedMap[l] # None => schedMap'[l] = schedMap[l]
         /\ \A l \in Keys \ {k} : schedMap'[l] = schedMap[l]
         /\ SchedIdsExclusive'
<1>0. /\ schedMap \in [Keys -> SchedIds \cup {None}] /\ schedBits \subseteq SchedIds
      /\ None \notin SchedIds
  BY TmAssumption DEF TypeOK, SchedIds
<1>1. CASE UNCHANGED <<schedBits, schedMap>>
  <2>1. id = schedMap[k]
    BY <1>0, <1>1, SMT DEF GetSched
  <2> QED
    BY <1>0, <1>1, <2>1 DEF SchedIdsExclusive
<1>2. CASE /\ schedMap[k] = None /\ FirstClear(schedBits, SchedIds, id)
           /\ schedBits' = schedBits \cup {id}
           /\ schedMap' = [schedMap EXCEPT ![k] = id]
  <2>1. id \in SchedIds \ schedBits
    BY <1>2 DEF FirstClear
  <2>2. /\ schedMap' \in [Keys -> SchedIds \cup {None}] /\ schedMap'[k] = id
        /\ \A l \in Keys \ {k} : schedMap'[l] = schedMap[l]
    BY <1>0, <1>2, <2>1
  <2>3. \A l \in Keys : schedMap[l] # id
    BY <1>0, <2>1 DEF SchedIdsExclusive
  <2>4. SchedIdsExclusive'
    BY <1>0, <1>2, <2>1, <2>2, <2>3 DEF SchedIdsExclusive
  <2> QED
    BY <1>0, <1>2, <2>1, <2>2, <2>4
<1> QED
  BY <1>1, <1>2 DEF GetSched

(* A queue's key.                                                          *)
LEMMA QueuesForType ==
  ASSUME TypeOK, CallInv, NEW s \in Subs, pc[s] # "idle"
  PROVE  /\ DOMAIN QueuesFor(s) = 1 .. Size(call[s].tp) /\ Size(call[s].tp) \in 1 .. 8
         /\ \A i \in DOMAIN QueuesFor(s) : QueuesFor(s)[i] \in Queues
         /\ \A i \in 1 .. Size(call[s].tp) : <<s, call[s].tp, i>> \in Gems
<1> DEFINE tp == call[s].tp
<1>1. tp \in TechProfiles /\ QueuesOf[tp] \in Seq(0 .. 7) /\ Len(QueuesOf[tp]) \in 1 .. 8
  BY TmAssumption DEF CallInv
<1>2. DOMAIN QueuesOf[tp] = 1 .. Len(QueuesOf[tp])
      /\ \A i \in 1 .. Len(QueuesOf[tp]) : QueuesOf[tp][i] \in 0 .. 7
  BY <1>1
<1>3. call[s].sched \in Scheds /\ schedQmp \in [References -> QmpIds \cup {None}]
  BY DEF TypeOK, CallTypes
<1>4. SetOf(qosOf[s], call[s].sched, s) \in QmpIds \cup {NotUse, None}
  BY <1>3 DEF SetOf, References
<1>5. ASSUME NEW i \in 1 .. Len(QueuesOf[tp]) PROVE QueuesFor(s)[i] \in Queues
  <2>1. QueuesOf[tp][i] \in 0 .. 7
    BY <1>2
  <2>2. QueuesFor(s)[i] = QueueKey(qosOf[s], call[s].sched, SetOf(qosOf[s], call[s].sched, s),
                                   QueuesOf[tp][i])
    BY <1>2 DEF QueuesFor
  <2> QED
    BY <1>3, <1>4, <2>1, <2>2 DEF QueueKey, Queues
<1>6. ASSUME NEW i \in 1 .. Len(QueuesOf[tp]) PROVE <<s, tp, i>> \in Gems
  BY <1>1, <1>2 DEF Gems
<1> QED
  BY <1>1, <1>2, <1>5, <1>6 DEF QueuesFor, Size

-----------------------------------------------------------------------------
(* Type correctness.                                                       *)

Typed == TypeOK /\ CallInv

LEMMA InitTyped == Init => Typed
<1> SUFFICES ASSUME Init PROVE Typed
  OBVIOUS
<1>1. /\ \A n \in 0 .. 3 : <<NniSched, n, NotUse>> \in Queues
      /\ NoCall \in CallTypes
  BY DEF Queues, Scheds, NoCall, CallTypes
<1>2. service \in [Subs -> SUBSET TechProfiles] /\ 0 \in 0 .. MaxFaults
  BY TmAssumption DEF Init
<1> QED
  BY <1>1, <1>2 DEF Init, Typed, TypeOK, CallInv, PCs

(* A call returns; a call goes on.                                         *)
LEMMA ReturnTyped ==
  ASSUME Typed, NEW s \in Subs, Return(s)
  PROVE  pc' \in [Subs -> PCs] /\ call' \in [Subs -> CallTypes] /\ CallInv'
<1>1. NoCall \in CallTypes /\ "idle" \in PCs
  BY DEF NoCall, CallTypes, Scheds, PCs
<1>2. pc' = [pc EXCEPT ![s] = "idle"] /\ call' = [call EXCEPT ![s] = NoCall]
  BY DEF Return, Goto
<1>3. pc' \in [Subs -> PCs] /\ call' \in [Subs -> CallTypes]
  BY <1>1, <1>2 DEF Typed, TypeOK
<1>4. ASSUME NEW t \in Subs, pc'[t] # "idle" PROVE pc[t] # "idle" /\ call'[t] = call[t]
  BY <1>2, <1>4 DEF Typed, TypeOK
<1> QED
  BY <1>3, <1>4 DEF Typed, CallInv

LEMMA GotoTyped ==
  ASSUME Typed, NEW s \in Subs, pc[s] # "idle", NEW l \in PCs, Goto(s, l),
         call' \in [Subs -> CallTypes],
         call'[s].tp = call[s].tp, call'[s].dir = call[s].dir,
         \A t \in Subs \ {s} : call'[t] = call[t]
  PROVE  pc' \in [Subs -> PCs] /\ CallInv'
BY DEF Typed, TypeOK, CallInv, Goto

LEMMA BeginTyped ==
  ASSUME Typed, NEW s \in Subs, NEW tp \in TechProfiles, NEW dir \in Dirs,
         NEW id \in Scheds, NEW l \in PCs, Begin(s, tp, dir, id, l)
  PROVE  pc' \in [Subs -> PCs] /\ call' \in [Subs -> CallTypes] /\ CallInv'
<1>1. [NoCall EXCEPT !.tp = tp, !.dir = dir, !.sched = id] \in CallTypes
  BY DEF NoCall, CallTypes
<1> QED
  BY <1>1 DEF Typed, TypeOK, CallInv, Begin, Goto, NoCall

LEMMA RefusalsTyped ==
  ASSUME Typed, NEW n \in Nat, Refusals(n)
  PROVE  faults' \in 0 .. MaxFaults
BY TmAssumption DEF Typed, TypeOK, Refusals

LEMMA QosTyped ==
  ASSUME Typed, NEW s \in Subs, NEW n
  PROVE  Qos(s, n) \in QosTypes
BY DEF Typed, TypeOK, Qos, QosTypes

LEMMA ClearQosTyped ==
  ASSUME Typed, NEW s \in Subs, NEW failed \in BOOLEAN, ClearQos(s, failed)
  PROVE  /\ qosOf' \in [Subs -> QosTypes \cup {None}]
         /\ told' \in [Keys \X Dirs -> {"made", "gone", "unknown"}]
         /\ pc' \in [Subs -> PCs] /\ call' \in [Subs -> CallTypes] /\ CallInv'
<1>1. Return(s)
  BY DEF ClearQos
<1> QED
  BY <1>1, ReturnTyped DEF Typed, TypeOK, ClearQos

(* The schedulers.                                                         *)
LEMMA SchedulersTyped ==
  ASSUME Typed, SchedIdsExclusive, NEW s \in Subs,
         \/ \E tp \in service[s], id \in SchedIds \cup {None} : CreateSched(s, tp, id)
         \/ \E tp \in service[s] : RemoveSched(s, tp)
         \/ BalSetsSched(s) \/ BalRefusesSched(s)
         \/ BalClearsSched(s) \/ BalKeepsSched(s) \/ FreeSched(s)
  PROVE  Typed'
<1>0. \A tp \in service[s] : tp \in TechProfiles /\ <<s, tp>> \in Keys
  BY DEF Typed, TypeOK, Keys
<1>1. ASSUME NEW tp \in service[s], NEW id \in SchedIds \cup {None}, CreateSched(s, tp, id)
      PROVE  Typed'
  <2>1. schedBits' \subseteq SchedIds /\ schedMap' \in [Keys -> SchedIds \cup {None}]
    BY <1>0, <1>1, GetSchedResult DEF Typed, CreateSched
  <2>2. pc' \in [Subs -> PCs] /\ call' \in [Subs -> CallTypes] /\ CallInv'
    <3>1. "downstream" \in Dirs /\ id \in Scheds /\ "setSched" \in PCs
      BY DEF Dirs, Scheds, PCs
    <3> QED
      BY <1>0, <1>1, <3>1, BeginTyped DEF CreateSched
  <2> QED
    BY <1>1, <2>1, <2>2 DEF Typed, TypeOK, CreateSched, device, client, history
<1>2. ASSUME NEW tp \in service[s], RemoveSched(s, tp)
      PROVE  Typed'
  <2>1. pc' \in [Subs -> PCs] /\ call' \in [Subs -> CallTypes] /\ CallInv'
    <3>1. "downstream" \in Dirs /\ schedMap[<<s, tp>>] \in Scheds /\ "clearSched" \in PCs
      BY <1>0 DEF Dirs, Scheds, PCs, Typed, TypeOK
    <3> QED
      BY <1>0, <1>2, <3>1, BeginTyped DEF RemoveSched
  <2> QED
    BY <1>2, <2>1 DEF Typed, TypeOK, RemoveSched, tables, device, history
<1>3. CASE BalSetsSched(s)
  <2>1. Key(s) \in Keys
    BY <1>3, KeyType DEF Typed, BalSetsSched, At
  <2> QED
    BY <1>3, <2>1, ReturnTyped DEF Typed, TypeOK, BalSetsSched, tables, history
<1>4. CASE BalRefusesSched(s)
  <2>1. faults' \in 0 .. MaxFaults
    BY <1>4, RefusalsTyped DEF BalRefusesSched, Refused, Typed, TypeOK
  <2> QED
    BY <1>4, <2>1, ReturnTyped DEF Typed, TypeOK, BalRefusesSched, tables, device, client, history
<1>5. CASE BalClearsSched(s)
  <2>1. pc' \in [Subs -> PCs] /\ CallInv'
    BY <1>5, GotoTyped DEF BalClearsSched, At, PCs, Typed, TypeOK
  <2> QED
    BY <1>5, <2>1 DEF Typed, TypeOK, BalClearsSched, tables, client, history
<1>6. CASE BalKeepsSched(s)
  <2>1. faults' \in 0 .. MaxFaults
    BY <1>6, RefusalsTyped DEF BalKeepsSched, Refused
  <2> QED
    BY <1>6, <2>1, ReturnTyped DEF Typed, TypeOK, BalKeepsSched, tables, device, client, history
<1>7. CASE FreeSched(s)
  <2>1. schedMap' \in [Keys -> SchedIds \cup {None}] /\ schedBits' \subseteq SchedIds
    BY <1>7 DEF FreeSched, Typed, TypeOK
  <2> QED
    BY <1>7, <2>1, ReturnTyped DEF Typed, TypeOK, FreeSched, device, client, history
<1> QED
  BY <1>1, <1>2, <1>3, <1>4, <1>5, <1>6, <1>7

(* The queue mapping profiles.                                             *)
LEMMA ProfilesTyped ==
  ASSUME Typed, NEW s \in Subs,
         \/ FindQmp(s) \/ NoQmpLeft(s) \/ Refer(s) \/ BalSetsQmp(s) \/ BalRefusesQmp(s)
         \/ \E q \in QmpIds : AllocQmp(s, q)
  PROVE  Typed'
<1>0. pc[s] # "idle"
  BY DEF FindQmp, NoQmpLeft, Refer, BalSetsQmp, BalRefusesQmp, AllocQmp, At
<1>1. /\ Wanted(s) \in QmpMaps /\ call[s] \in CallTypes
      /\ call[s].qmp \in QmpIds \cup {None}
  BY <1>0, KeyType DEF Typed, TypeOK, CallTypes
<1>2. ASSUME NEW q \in QmpIds, call' = [call EXCEPT ![s].qmp = q]
      PROVE  /\ call' \in [Subs -> CallTypes]
             /\ call'[s].tp = call[s].tp /\ call'[s].dir = call[s].dir
             /\ \A t \in Subs \ {s} : call'[t] = call[t]
  BY <1>1, <1>2 DEF Typed, TypeOK, CallTypes
<1>3. CASE FindQmp(s)
  <2>1. \/ \E q \in QmpIds : call' = [call EXCEPT ![s].qmp = q]
        \/ UNCHANGED call
    BY <1>3 DEF FindQmp
  <2>2. \E l \in {"newQmp", "referOld", "setQueues"} : Goto(s, l)
    BY <1>3 DEF FindQmp
  <2>3. pc' \in [Subs -> PCs] /\ call' \in [Subs -> CallTypes] /\ CallInv'
    <3>1. PICK l \in {"newQmp", "referOld", "setQueues"} : Goto(s, l)
      BY <2>2
    <3>2. l \in PCs
      BY <3>1 DEF PCs
    <3>3. /\ call' \in [Subs -> CallTypes]
          /\ call'[s].tp = call[s].tp /\ call'[s].dir = call[s].dir
          /\ \A t \in Subs \ {s} : call'[t] = call[t]
      BY <1>2, <2>1 DEF Typed, TypeOK
    <3> QED
      BY <1>0, <3>1, <3>2, <3>3, GotoTyped
  <2> QED
    BY <1>3, <2>3 DEF Typed, TypeOK, FindQmp, tables, device, client, history
<1>4. CASE NoQmpLeft(s)
  BY <1>4, ReturnTyped DEF Typed, TypeOK, NoQmpLeft, tables, device, client, history
<1>5. CASE Refer(s)
  <2>1. schedQmp' \in [References -> QmpIds \cup {None}]
    BY <1>1, <1>5 DEF Refer, Typed, TypeOK
  <2>2. pc' \in [Subs -> PCs] /\ CallInv'
    <3>1. "setQmp" \in PCs /\ "setQueues" \in PCs /\ UNCHANGED call
      BY <1>5 DEF PCs, Refer
    <3>2. Goto(s, "setQmp") \/ Goto(s, "setQueues")
      BY <1>5 DEF Refer
    <3> QED
      BY <1>0, <3>1, <3>2, GotoTyped DEF Typed, TypeOK
  <2>3. raced' \in BOOLEAN
    BY <1>5 DEF Refer, Typed, TypeOK
  <2> QED
    BY <1>5, <2>1, <2>2, <2>3 DEF Typed, TypeOK, Refer, device, client
<1>6. CASE BalSetsQmp(s)
  <2>1. pc' \in [Subs -> PCs] /\ CallInv'
    BY <1>0, <1>6, GotoTyped DEF BalSetsQmp, PCs, Typed, TypeOK
  <2>2. balQmp' \in [QmpIds -> QmpMaps \cup {None}]
    BY <1>1, <1>6 DEF BalSetsQmp, Typed, TypeOK
  <2> QED
    BY <1>6, <2>1, <2>2 DEF Typed, TypeOK, BalSetsQmp, tables, client
<1>7. CASE BalRefusesQmp(s)
  <2>1. faults' \in 0 .. MaxFaults
    BY <1>7, RefusalsTyped DEF BalRefusesQmp, Refused
  <2> QED
    BY <1>7, <2>1, ReturnTyped DEF Typed, TypeOK, BalRefusesQmp, tables, device, client, history
<1>8. ASSUME NEW q \in QmpIds, AllocQmp(s, q)
      PROVE  Typed'
  <2>1. pc' \in [Subs -> PCs] /\ call' \in [Subs -> CallTypes] /\ CallInv'
    <3>1. "referNew" \in PCs /\ Goto(s, "referNew") /\ call' = [call EXCEPT ![s].qmp = q]
      BY <1>8 DEF PCs, AllocQmp
    <3> QED
      BY <1>0, <1>2, <3>1, GotoTyped
  <2>2. /\ qmpMap' \in [QmpIds -> QmpMaps \cup {None}]
        /\ qmpBits' \subseteq QmpIds /\ unmade' \subseteq QmpIds
    BY <1>1, <1>8 DEF AllocQmp, Typed, TypeOK
  <2>3. raced' \in BOOLEAN
    BY <1>8 DEF AllocQmp, Typed, TypeOK, BeingCleared
  <2> QED
    BY <1>8, <2>1, <2>2, <2>3 DEF Typed, TypeOK, AllocQmp, device, client
<1> QED
  BY <1>3, <1>4, <1>5, <1>6, <1>7, <1>8

(* The queues: creation.                                                   *)
LEMMA CreationTyped ==
  ASSUME Typed, SchedIdsExclusive, NEW s \in Subs,
         \/ \E tp \in service[s], dir \in Dirs, id \in Scheds : CreateQueues(s, tp, dir, id)
         \/ SetQueues(s)
  PROVE  Typed'
<1>0. \A tp \in service[s] : tp \in TechProfiles /\ <<s, tp>> \in Keys
  BY DEF Typed, TypeOK, Keys
<1>1. ASSUME NEW tp \in service[s], NEW dir \in Dirs, NEW id \in Scheds,
             CreateQueues(s, tp, dir, id)
      PROVE  Typed'
  <2>1. schedBits' \subseteq SchedIds /\ schedMap' \in [Keys -> SchedIds \cup {None}]
    <3>1. CASE dir = "upstream"
      BY <1>1, <3>1 DEF CreateQueues, SchedOf, Typed, TypeOK
    <3>2. CASE dir # "upstream"
      BY <1>0, <1>1, <3>2, GetSchedResult DEF CreateQueues, SchedOf, Typed
    <3> QED
      BY <3>1, <3>2
  <2>2. pc' \in [Subs -> PCs] /\ call' \in [Subs -> CallTypes] /\ CallInv'
    <3>1. "findQmp" \in PCs /\ "setQueues" \in PCs
      BY DEF PCs
    <3>2. Begin(s, tp, dir, id, "findQmp") \/ Begin(s, tp, dir, id, "setQueues")
      BY <1>1 DEF CreateQueues
    <3> QED
      BY <1>0, <3>1, <3>2, BeginTyped
  <2>3. qosOf' \in [Subs -> QosTypes \cup {None}]
    BY <1>1, QosTyped DEF CreateQueues, Typed, TypeOK
  <2>4. told' \in [Keys \X Dirs -> {"made", "gone", "unknown"}]
    BY <1>1 DEF CreateQueues, Typed, TypeOK
  <2> QED
    BY <1>1, <2>1, <2>2, <2>3, <2>4 DEF Typed, TypeOK, CreateQueues, device, history
<1>2. CASE SetQueues(s)
  <2>0. pc[s] # "idle"
    BY <1>2 DEF SetQueues, At
  <2> DEFINE keys == QueuesFor(s)
             n    == Size(call[s].tp)
  <2>1. /\ DOMAIN keys = 1 .. n /\ n \in 1 .. 8
        /\ \A i \in 1 .. n : keys[i] \in Queues /\ <<s, call[s].tp, i>> \in Gems
    BY <2>0, QueuesForType DEF Typed
  <2>2. PICK done \in 0 .. n, made \in 0 .. n :
          LET dup    == {i \in 1 .. done : /\ KnowsQueues
                                          /\ keys[i] \in balQueue \cup {keys[j] : j \in 1 .. i - 1}}
              mapped == {<<s, call[s].tp, i>> : i \in (1 .. done) \ dup}
              same   == {<<s, call[s].tp, i>> : i \in dup}
              up     == call[s].dir = "upstream" IN
          /\ balQueue' = balQueue \cup {keys[i] : i \in 1 .. made}
          /\ stray' = stray \ {keys[i] : i \in 1 .. made}
          /\ gemOwner' = IF up THEN gemOwner \cup mapped ELSE gemOwner
          /\ already' = IF up THEN (already \ mapped) \cup same ELSE already
          /\ \/ told' = [told EXCEPT ![Side(s)] = "made"] /\ UNCHANGED faults
             \/ Refused /\ UNCHANGED told
    BY <1>2 DEF SetQueues
  <2>3. 1 .. done \subseteq 1 .. n /\ 1 .. made \subseteq 1 .. n
    BY <2>1
  <2>4. balQueue' \subseteq Queues /\ stray' \subseteq Queues
    BY <2>1, <2>2, <2>3 DEF Typed, TypeOK
  <2>5. gemOwner' \subseteq Gems /\ already' \subseteq Gems
    <3> HIDE DEF keys, n
    <3> QED
      BY <2>1, <2>2, <2>3 DEF Typed, TypeOK
  <2>6. told' \in [Keys \X Dirs -> {"made", "gone", "unknown"}] /\ faults' \in 0 .. MaxFaults
    <3> HIDE DEF keys, n
    <3>1. \/ told' = [told EXCEPT ![Side(s)] = "made"] /\ UNCHANGED faults
          \/ Refused /\ UNCHANGED told
      BY <2>2
    <3> QED
      BY <3>1, RefusalsTyped DEF Refused, Typed, TypeOK
  <2>7. pc' \in [Subs -> PCs] /\ call' \in [Subs -> CallTypes] /\ CallInv'
    BY <1>2, ReturnTyped DEF SetQueues
  <2> HIDE DEF keys, n
  <2> QED
    BY <1>2, <2>4, <2>5, <2>6, <2>7 DEF Typed, TypeOK, SetQueues
<1> QED
  BY <1>1, <1>2

(* The queues: removal.                                                    *)
LEMMA RemovalTyped ==
  ASSUME Typed, NEW s \in Subs,
         \/ \E tp \in service[s], dir \in Dirs : RemoveQueues(s, tp, dir)
         \/ ClearQueues(s) \/ FreeQmp(s)
         \/ BalClearsQmp(s) \/ BalKeepsQmp(s)
  PROVE  Typed'
<1>0. \A tp \in service[s] : tp \in TechProfiles /\ <<s, tp>> \in Keys
  BY DEF Typed, TypeOK, Keys
<1>1. ASSUME NEW tp \in service[s], NEW dir \in Dirs, RemoveQueues(s, tp, dir)
      PROVE  Typed'
  <2>1. pc' \in [Subs -> PCs] /\ call' \in [Subs -> CallTypes] /\ CallInv'
    <3>1. "clearQueues" \in PCs /\ NniSched \in Scheds /\ schedMap[<<s, tp>>] \in Scheds
      BY <1>0 DEF PCs, Scheds, Typed, TypeOK
    <3> QED
      BY <1>0, <1>1, <3>1, BeginTyped DEF RemoveQueues
  <2>2. qosOf' \in [Subs -> QosTypes \cup {None}]
    BY <1>1, QosTyped DEF RemoveQueues, Typed, TypeOK
  <2>3. told' \in [Keys \X Dirs -> {"made", "gone", "unknown"}]
    BY <1>1 DEF RemoveQueues, Typed, TypeOK
  <2> QED
    BY <1>1, <2>1, <2>2, <2>3 DEF Typed, TypeOK, RemoveQueues, device, history
<1>2. ASSUME pc[s] # "idle"
      PROVE  /\ call[s].failed \in BOOLEAN /\ call[s].qmp \in QmpIds \cup {None}
             /\ call[s].sched \in Scheds
  BY DEF Typed, TypeOK, CallTypes
<1>3. CASE ClearQueues(s)
  <2>0. pc[s] # "idle"
    BY <1>3 DEF ClearQueues, At
  <2> DEFINE keys == QueuesFor(s)
             here == call[s].dir = "downstream" /\ call[s].sched # None
  <2>1. PICK stay \in SUBSET (IF here THEN DOMAIN keys ELSE {}) :
          /\ Refusals(Cardinality(stay))
          /\ LET gone == IF here THEN {keys[i] : i \in DOMAIN keys \ stay} ELSE {} IN
             balQueue' = balQueue \ gone /\ stray' = (stray \ gone) \cup {keys[i] : i \in stay}
          /\ \/ /\ call' = [call EXCEPT ![s].qmp = schedQmp[Ref(s)], ![s].failed = stay # {}]
                /\ Goto(s, "freeQmp")
                /\ UNCHANGED <<qosOf, told>>
             \/ ClearQos(s, stay # {})
    BY <1>3 DEF ClearQueues
  <2>2. /\ stay \subseteq DOMAIN keys /\ stay \subseteq 1 .. Size(call[s].tp)
        /\ Size(call[s].tp) \in Nat
        /\ \A i \in DOMAIN keys : keys[i] \in Queues
    BY <2>0, QueuesForType DEF Typed
  <2> HIDE DEF keys, here
  <2>3. balQueue' \subseteq Queues /\ stray' \subseteq Queues
    BY <2>1, <2>2 DEF Typed, TypeOK
  <2>4. faults' \in 0 .. MaxFaults
    <3>1. Cardinality(stay) \in Nat
      <4>1. IsFiniteSet(1 .. Size(call[s].tp))
        BY <2>2, FS_Interval
      <4>2. IsFiniteSet(stay)
        BY <2>2, <4>1, FS_Subset
      <4> QED
        BY <4>2, FS_CardinalityType
    <3> QED
      BY <2>1, <3>1, RefusalsTyped
  <2>5. /\ qosOf' \in [Subs -> QosTypes \cup {None}]
        /\ told' \in [Keys \X Dirs -> {"made", "gone", "unknown"}]
        /\ pc' \in [Subs -> PCs] /\ call' \in [Subs -> CallTypes] /\ CallInv'
    <3>1. CASE ClearQos(s, stay # {})
      <4>1. (stay # {}) \in BOOLEAN
        OBVIOUS
      <4> QED
        BY <3>1, <4>1, ClearQosTyped
    <3>2. CASE /\ call' = [call EXCEPT ![s].qmp = schedQmp[Ref(s)], ![s].failed = stay # {}]
               /\ Goto(s, "freeQmp")
               /\ UNCHANGED <<qosOf, told>>
      <4>1. schedQmp[Ref(s)] \in QmpIds \cup {None} /\ (stay # {}) \in BOOLEAN
        BY <2>0, <1>2 DEF Typed, TypeOK, Ref, References
      <4>2. /\ call' \in [Subs -> CallTypes]
            /\ call'[s].tp = call[s].tp /\ call'[s].dir = call[s].dir
            /\ \A t \in Subs \ {s} : call'[t] = call[t]
        <5>1. /\ call[s] \in CallTypes /\ call \in [Subs -> CallTypes]
              /\ call' = [call EXCEPT ![s] = [call[s] EXCEPT !.qmp = schedQmp[Ref(s)],
                                                           !.failed = stay # {}]]
          BY <3>2 DEF Typed, TypeOK
        <5>2. /\ [call[s] EXCEPT !.qmp = schedQmp[Ref(s)], !.failed = stay # {}] \in CallTypes
              /\ [call[s] EXCEPT !.qmp = schedQmp[Ref(s)], !.failed = stay # {}].tp = call[s].tp
              /\ [call[s] EXCEPT !.qmp = schedQmp[Ref(s)], !.failed = stay # {}].dir = call[s].dir
          BY <4>1, <5>1 DEF CallTypes
        <5> QED
          BY <5>1, <5>2
      <4>3. "freeQmp" \in PCs /\ Goto(s, "freeQmp")
        BY <3>2 DEF PCs
      <4>4. pc' \in [Subs -> PCs] /\ CallInv'
        BY <2>0, <4>2, <4>3, GotoTyped
      <4> QED
        BY <3>2, <4>2, <4>4 DEF Typed, TypeOK
    <3> QED
      BY <2>1, <3>1, <3>2
  <2>6. gemOwner' \subseteq Gems
    BY <1>3 DEF ClearQueues, Unmap, Typed, TypeOK
  <2> QED
    BY <1>3, <2>3, <2>4, <2>5, <2>6 DEF Typed, TypeOK, ClearQueues
<1>4. CASE FreeQmp(s)
  <2>0. pc[s] # "idle"
    BY <1>4 DEF FreeQmp, At
  <2>1. /\ schedQmp' \in [References -> QmpIds \cup {None}]
        /\ qmpBits' \subseteq QmpIds /\ unmade' \subseteq QmpIds
        /\ qmpMap' \in [QmpIds -> QmpMaps \cup {None}]
    BY <1>4 DEF FreeQmp, Typed, TypeOK
  <2>2. /\ qosOf' \in [Subs -> QosTypes \cup {None}]
        /\ told' \in [Keys \X Dirs -> {"made", "gone", "unknown"}]
        /\ pc' \in [Subs -> PCs] /\ call' \in [Subs -> CallTypes] /\ CallInv'
    <3>1. CASE ClearQos(s, call[s].failed)
      BY <1>2, <2>0, <3>1, ClearQosTyped
    <3>2. CASE Goto(s, "clearQmp") /\ UNCHANGED <<call, qosOf, told>>
      <4>1. "clearQmp" \in PCs
        BY DEF PCs
      <4> QED
        BY <2>0, <3>2, <4>1, GotoTyped DEF Typed, TypeOK
    <3> QED
      BY <1>4, <3>1, <3>2 DEF FreeQmp
  <2> QED
    BY <1>4, <2>1, <2>2 DEF Typed, TypeOK, FreeQmp, device
<1>5. CASE BalClearsQmp(s)
  <2>1. pc[s] # "idle" /\ ClearQos(s, call[s].failed)
    BY <1>5 DEF BalClearsQmp, At
  <2>2. /\ qosOf' \in [Subs -> QosTypes \cup {None}]
        /\ told' \in [Keys \X Dirs -> {"made", "gone", "unknown"}]
        /\ pc' \in [Subs -> PCs] /\ call' \in [Subs -> CallTypes] /\ CallInv'
    BY <1>2, <2>1, ClearQosTyped
  <2>3. balQmp' \in [QmpIds -> QmpMaps \cup {None}]
    BY <1>5 DEF BalClearsQmp, Typed, TypeOK
  <2> QED
    BY <1>5, <2>2, <2>3 DEF Typed, TypeOK, BalClearsQmp
<1>6. CASE BalKeepsQmp(s)
  <2>1. pc[s] # "idle"
    BY <1>6 DEF BalKeepsQmp, At
  <2>2. faults' \in 0 .. MaxFaults /\ kept' \subseteq QmpIds
    BY <1>2, <1>6, <2>1, RefusalsTyped DEF BalKeepsQmp, Refused, Typed, TypeOK
  <2> QED
    BY <1>6, <2>2, ReturnTyped DEF Typed, TypeOK, BalKeepsQmp, tables, device, client
<1> QED
  BY <1>1, <1>3, <1>4, <1>5, <1>6

LEMMA TypedStep == ASSUME Typed, SchedIdsExclusive, [Next]_vars PROVE Typed'
<1>1. ASSUME NEW s \in Subs, Request(s)
      PROVE  Typed'
  BY <1>1, SchedulersTyped, CreationTyped, RemovalTyped DEF Request
<1>2. ASSUME NEW s \in Subs, Continue(s)
      PROVE  Typed'
  BY <1>2, SchedulersTyped, ProfilesTyped, CreationTyped, RemovalTyped DEF Continue
<1>3. CASE UNCHANGED vars
  BY <1>3 DEF vars, tables, device, client, history, Typed, TypeOK, CallInv
<1> QED
  BY <1>1, <1>2, <1>3 DEF Next

-----------------------------------------------------------------------------
(* Schedulers.                                                             *)

(* Whatever does not touch schedulers, in a call of s that is not about    *)
(* them, keeps the invariant.                                              *)
LEMMA SchedFrame ==
  ASSUME Typed, SchedInv, NEW s \in Subs,
         UNCHANGED <<schedBits, schedMap, balSched, ready>>,
         pc'[s] \notin SchedPcs,
         \A t \in Subs \ {s} : pc'[t] = pc[t] /\ call'[t] = call[t]
  PROVE  SchedInv'
<1>1. SchedIdsExclusive' /\ SchedulersAreOwned'
  BY DEF SchedInv, SchedIdsExclusive, SchedulersAreOwned
<1>2. SchedCallInv'
  <2> SUFFICES ASSUME NEW t \in Subs, pc'[t] \in SchedPcs
               PROVE  /\ call'[t].sched = schedMap'[Key(t)']
                      /\ pc'[t] \in {"clearSched", "freeSched"} =>
                           schedMap'[Key(t)'] # None /\ Key(t)' \notin ready'
                      /\ pc'[t] = "freeSched" => balSched'[schedMap'[Key(t)']] = None
    BY DEF SchedCallInv, SchedPcs
  <2>1. pc'[t] = pc[t] /\ call'[t] = call[t] /\ Key(t)' = Key(t)
    BY DEF Key
  <2> QED
    BY <2>1 DEF SchedInv, SchedCallInv
<1> QED
  BY <1>1, <1>2 DEF SchedInv

(* The steps of a call on a scheduler.                                     *)
LEMMA SchedulersStep ==
  ASSUME Typed, SchedInv, NEW s \in Subs,
         \/ \E tp \in service[s], id \in SchedIds \cup {None} : CreateSched(s, tp, id)
         \/ \E tp \in service[s] : RemoveSched(s, tp)
         \/ BalSetsSched(s) \/ BalRefusesSched(s)
         \/ BalClearsSched(s) \/ BalKeepsSched(s) \/ FreeSched(s)
  PROVE  SchedInv'
<1>0. /\ \A tp \in service[s] : <<s, tp>> \in Keys
      /\ schedMap \in [Keys -> SchedIds \cup {None}] /\ None \notin SchedIds
      /\ balSched \in [SchedIds -> Keys \cup {None}] /\ None \notin Keys
      /\ pc \in [Subs -> PCs] /\ ready \subseteq Keys
      /\ call \in [Subs -> CallTypes]
  BY TmAssumption DEF Typed, TypeOK, Keys, SchedIds
<1>K. \A t \in Subs : pc[t] # "idle" => Key(t) \in Keys
  BY KeyType DEF Typed
<1>D. \A t \in Subs \ {s} : Key(t) # Key(s)
  BY Distinct
<1>1. ASSUME NEW tp \in service[s], NEW id \in SchedIds \cup {None}, CreateSched(s, tp, id)
      PROVE  SchedInv'
  <2> DEFINE k == <<s, tp>>
  <2>1. /\ k \in Keys /\ id = schedMap'[k] /\ SchedIdsExclusive'
        /\ \A l \in Keys : schedMap[l] # None => schedMap'[l] = schedMap[l]
        /\ \A l \in Keys \ {k} : schedMap'[l] = schedMap[l]
    BY <1>0, <1>1, GetSchedResult DEF CreateSched, Typed, SchedInv
  <2>2. UNCHANGED <<balSched, ready>>
    BY <1>1 DEF CreateSched, device, client
  <2>3. SchedulersAreOwned'
    BY <1>0, <2>1, <2>2 DEF SchedInv, SchedulersAreOwned
  <2>4. /\ pc'[s] = "setSched" /\ Key(s)' = k /\ call'[s].sched = id
        /\ \A t \in Subs \ {s} : pc'[t] = pc[t] /\ call'[t] = call[t] /\ Key(t)' = Key(t)
    BY <1>0, <1>1 DEF CreateSched, Begin, Goto, Key, NoCall
  <2>5. SchedCallInv'
    <3>1. ASSUME NEW t \in Subs \ {s}, pc[t] \in SchedPcs
          PROVE  Key(t) \in Keys \ {k}
      BY <1>K, <3>1 DEF SchedPcs, Key
    <3> QED
      BY <2>1, <2>2, <2>4, <3>1 DEF SchedInv, SchedCallInv, SchedPcs
  <2> QED
    BY <2>1, <2>3, <2>5 DEF SchedInv
<1>2. ASSUME NEW tp \in service[s], RemoveSched(s, tp)
      PROVE  SchedInv'
  <2>1. /\ UNCHANGED <<schedBits, schedMap, balSched>> /\ ready' = ready \ {<<s, tp>>}
        /\ schedMap[<<s, tp>>] # None
    BY <1>2 DEF RemoveSched, tables, device
  <2>2. SchedIdsExclusive' /\ SchedulersAreOwned'
    BY <2>1 DEF SchedInv, SchedIdsExclusive, SchedulersAreOwned
  <2>3. /\ pc'[s] = "clearSched" /\ Key(s)' = <<s, tp>> /\ call'[s].sched = schedMap[<<s, tp>>]
        /\ \A t \in Subs \ {s} : pc'[t] = pc[t] /\ call'[t] = call[t] /\ Key(t)' = Key(t)
    BY <1>0, <1>2 DEF RemoveSched, Begin, Goto, Key, NoCall
  <2>4. SchedCallInv'
    BY <2>1, <2>3 DEF SchedInv, SchedCallInv, SchedPcs
  <2> QED
    BY <2>2, <2>4 DEF SchedInv
<1>3. CASE BalSetsSched(s)
  <2>1. /\ UNCHANGED <<schedBits, schedMap>> /\ ready' = ready \cup {Key(s)}
        /\ balSched' = [balSched EXCEPT ![call[s].sched] = Key(s)]
        /\ pc[s] = "setSched" /\ call[s].sched # None
    BY <1>3 DEF BalSetsSched, tables, At
  <2>2. /\ Key(s) \in Keys /\ call[s].sched = schedMap[Key(s)] /\ schedMap[Key(s)] \in SchedIds
    BY <1>0, <1>K, <2>1 DEF SchedInv, SchedCallInv, SchedPcs
  <2>3. SchedIdsExclusive'
    BY <2>1 DEF SchedInv, SchedIdsExclusive
  <2>4. SchedulersAreOwned'
    <3>1. ASSUME NEW id \in SchedIds, balSched'[id] # None PROVE schedMap'[balSched'[id]] = id
      BY <1>0, <2>1, <2>2, <3>1 DEF SchedInv, SchedulersAreOwned
    <3>2. ASSUME NEW k \in ready' PROVE schedMap'[k] # None /\ balSched'[schedMap'[k]] = k
      BY <1>0, <2>1, <2>2 DEF SchedInv, SchedulersAreOwned, SchedIdsExclusive
    <3> QED
      BY <3>1, <3>2 DEF SchedulersAreOwned
  <2>5. /\ pc'[s] = "idle"
        /\ \A t \in Subs \ {s} : pc'[t] = pc[t] /\ call'[t] = call[t] /\ Key(t)' = Key(t)
    BY <1>0, <1>3 DEF BalSetsSched, Return, Goto, Key
  <2>6. SchedCallInv'
    <3>1. ASSUME NEW t \in Subs \ {s}, pc[t] \in {"clearSched", "freeSched"}
          PROVE  schedMap[Key(t)] # call[s].sched
      BY <1>0, <1>K, <1>D, <2>2, <3>1 DEF SchedInv, SchedIdsExclusive
    <3> QED
      BY <1>0, <1>D, <2>1, <2>5, <3>1 DEF SchedInv, SchedCallInv, SchedPcs
  <2> QED
    BY <2>3, <2>4, <2>6 DEF SchedInv
<1>4. CASE BalRefusesSched(s) \/ BalKeepsSched(s)
  <2>1. /\ UNCHANGED <<schedBits, schedMap, balSched, ready>> /\ pc'[s] = "idle"
        /\ \A t \in Subs \ {s} : pc'[t] = pc[t] /\ call'[t] = call[t]
    BY <1>0, <1>4 DEF BalRefusesSched, BalKeepsSched, tables, device, client, Return, Goto
  <2> QED
    BY <2>1, SchedFrame DEF SchedPcs
<1>5. CASE BalClearsSched(s)
  <2>1. /\ UNCHANGED <<schedBits, schedMap, ready, call>>
        /\ balSched' = [balSched EXCEPT ![call[s].sched] = None]
        /\ pc[s] = "clearSched" /\ pc'[s] = "freeSched"
        /\ \A t \in Subs \ {s} : pc'[t] = pc[t]
    BY <1>0, <1>5 DEF BalClearsSched, tables, client, At, Goto
  <2>2. /\ Key(s) \in Keys /\ call[s].sched = schedMap[Key(s)]
        /\ schedMap[Key(s)] \in SchedIds /\ Key(s) \notin ready
    BY <1>0, <1>K, <2>1 DEF SchedInv, SchedCallInv, SchedPcs
  <2>3. SchedIdsExclusive'
    BY <2>1 DEF SchedInv, SchedIdsExclusive
  <2>4. SchedulersAreOwned'
    <3>1. ASSUME NEW k \in ready PROVE schedMap[k] # schedMap[Key(s)]
      BY <1>0, <2>2 DEF SchedInv, SchedIdsExclusive
    <3> QED
      BY <1>0, <2>1, <2>2, <3>1 DEF SchedInv, SchedulersAreOwned
  <2>5. SchedCallInv'
    <3>1. \A t \in Subs : Key(t)' = Key(t)
      BY <2>1 DEF Key
    <3>2. balSched'[schedMap[Key(s)]] = None
      BY <1>0, <2>1, <2>2
    <3>3. \A id \in SchedIds : balSched[id] = None => balSched'[id] = None
      BY <1>0, <2>1
    <3> QED
      BY <1>0, <1>K, <2>1, <2>2, <3>1, <3>2, <3>3 DEF SchedInv, SchedCallInv, SchedPcs
  <2> QED
    BY <2>3, <2>4, <2>5 DEF SchedInv
<1>6. CASE FreeSched(s)
  <2>1. /\ UNCHANGED <<balSched, ready>> /\ pc[s] = "freeSched"
        /\ schedBits' = schedBits \ {schedMap[Key(s)]}
        /\ schedMap' = [schedMap EXCEPT ![Key(s)] = None]
    BY <1>6 DEF FreeSched, device, client, At
  <2>2. /\ Key(s) \in Keys /\ schedMap[Key(s)] \in SchedIds /\ Key(s) \notin ready
        /\ balSched[schedMap[Key(s)]] = None
    BY <1>0, <1>K, <2>1 DEF SchedInv, SchedCallInv, SchedPcs
  <2>3. schedMap'[Key(s)] = None /\ \A l \in Keys \ {Key(s)} : schedMap'[l] = schedMap[l]
    BY <1>0, <2>1, <2>2
  <2>4. SchedIdsExclusive'
    <3>1. \A k, l \in Keys : schedMap'[k] = schedMap'[l] /\ schedMap'[k] # None => k = l
      BY <2>3 DEF SchedInv, SchedIdsExclusive
    <3>2. schedBits' = {schedMap'[k] : k \in Keys} \ {None}
      BY <1>0, <2>1, <2>2, <2>3 DEF SchedInv, SchedIdsExclusive
    <3> QED
      BY <3>1, <3>2 DEF SchedIdsExclusive
  <2>5. SchedulersAreOwned'
    BY <1>0, <2>1, <2>2, <2>3 DEF SchedInv, SchedulersAreOwned
  <2>6. /\ pc'[s] = "idle"
        /\ \A t \in Subs \ {s} : pc'[t] = pc[t] /\ call'[t] = call[t] /\ Key(t)' = Key(t)
    BY <1>0, <1>6 DEF FreeSched, Return, Goto, Key
  <2>7. SchedCallInv'
    <3>1. ASSUME NEW t \in Subs \ {s}, pc[t] \in SchedPcs
          PROVE  schedMap'[Key(t)] = schedMap[Key(t)]
      BY <1>K, <1>D, <2>3, <3>1 DEF SchedPcs
    <3> QED
      BY <2>1, <2>6, <3>1 DEF SchedInv, SchedCallInv, SchedPcs
  <2> QED
    BY <2>4, <2>5, <2>7 DEF SchedInv
<1> QED
  BY <1>1, <1>2, <1>3, <1>4, <1>5, <1>6

(* CreateTrafficQueues_ asks for a scheduler id too.                       *)
LEMMA QueuesStep ==
  ASSUME Typed, SchedInv, NEW s \in Subs, NEW tp \in service[s], NEW dir \in Dirs,
         NEW id \in Scheds, CreateQueues(s, tp, dir, id)
  PROVE  SchedInv'
<1>0. /\ <<s, tp>> \in Keys /\ schedMap[<<s, tp>>] # None
      /\ pc \in [Subs -> PCs] /\ call \in [Subs -> CallTypes]
  BY DEF CreateQueues, SchedInv, SchedulersAreOwned, Typed, TypeOK, Keys
<1>1. UNCHANGED <<schedBits, schedMap, balSched, ready>>
  BY <1>0 DEF CreateQueues, SchedOf, GetSched, device
<1>2. /\ pc'[s] \notin SchedPcs
      /\ \A t \in Subs \ {s} : pc'[t] = pc[t] /\ call'[t] = call[t]
  BY <1>0 DEF CreateQueues, Begin, Goto, SchedPcs
<1> QED
  BY <1>1, <1>2, SchedFrame

(* The other steps leave schedulers alone.                                 *)
LEMMA OtherStep ==
  ASSUME Typed, SchedInv, NEW s \in Subs,
         \/ \E tp \in service[s], dir \in Dirs : RemoveQueues(s, tp, dir)
         \/ FindQmp(s) \/ NoQmpLeft(s) \/ Refer(s) \/ BalSetsQmp(s) \/ BalRefusesQmp(s)
         \/ \E q \in QmpIds : AllocQmp(s, q)
         \/ SetQueues(s) \/ ClearQueues(s) \/ FreeQmp(s) \/ BalClearsQmp(s) \/ BalKeepsQmp(s)
  PROVE  SchedInv'
<1>0. pc \in [Subs -> PCs] /\ call \in [Subs -> CallTypes]
  BY DEF Typed, TypeOK
<1>1. UNCHANGED <<schedBits, schedMap, balSched, ready>>
  BY DEF RemoveQueues, FindQmp, NoQmpLeft, Refer, BalSetsQmp, BalRefusesQmp, AllocQmp, SetQueues,
         ClearQueues, FreeQmp, BalClearsQmp, BalKeepsQmp, tables, device, client
<1>2. CASE \/ \E tp \in service[s], dir \in Dirs : RemoveQueues(s, tp, dir)
           \/ FindQmp(s) \/ NoQmpLeft(s) \/ Refer(s) \/ BalSetsQmp(s) \/ BalRefusesQmp(s)
           \/ \E q \in QmpIds : AllocQmp(s, q)
  <2>1. /\ pc'[s] \notin SchedPcs
        /\ \A t \in Subs \ {s} : pc'[t] = pc[t] /\ call'[t] = call[t]
    BY <1>0, <1>2 DEF RemoveQueues, FindQmp, NoQmpLeft, Refer, BalSetsQmp, BalRefusesQmp,
         AllocQmp, Begin, Goto, Return, SchedPcs
  <2> QED
    BY <1>1, <2>1, SchedFrame
<1>3. CASE SetQueues(s) \/ ClearQueues(s) \/ FreeQmp(s) \/ BalClearsQmp(s) \/ BalKeepsQmp(s)
  <2>1. /\ pc'[s] \notin SchedPcs
        /\ \A t \in Subs \ {s} : pc'[t] = pc[t] /\ call'[t] = call[t]
    BY <1>0, <1>3 DEF SetQueues, ClearQueues, FreeQmp, BalClearsQmp, BalKeepsQmp,
         ClearQos, Goto, Return, SchedPcs
  <2> QED
    BY <1>1, <2>1, SchedFrame
<1> QED
  BY <1>2, <1>3

LEMMA SchedStep == ASSUME Typed, SchedInv, [Next]_vars PROVE SchedInv'
<1>1. ASSUME NEW s \in Subs, Request(s)
      PROVE  SchedInv'
  BY <1>1, SchedulersStep, QueuesStep, OtherStep DEF Request
<1>2. ASSUME NEW s \in Subs, Continue(s)
      PROVE  SchedInv'
  BY <1>2, SchedulersStep, OtherStep DEF Continue
<1>3. CASE UNCHANGED vars
  BY <1>3 DEF vars, tables, device, client, SchedInv, SchedIdsExclusive, SchedCallInv,
              SchedulersAreOwned, SchedPcs, Key
<1> QED
  BY <1>1, <1>2, <1>3 DEF Next

LEMMA InitSched == Init => SchedInv
<1> SUFFICES ASSUME Init PROVE SchedInv
  OBVIOUS
<1>1. \A k \in Keys : schedMap[k] = None
  BY DEF Init
<1>2. SchedIdsExclusive
  BY <1>1 DEF Init, SchedIdsExclusive
<1> QED
  BY <1>2 DEF Init, SchedInv, SchedCallInv, SchedulersAreOwned, SchedPcs

-----------------------------------------------------------------------------
(* The theorems.                                                           *)

THEOREM Invariance == Spec => []IInv
<1>1. Init => IInv
  BY InitTyped, InitSched DEF IInv, Typed
<1>2. IInv /\ [Next]_vars => IInv'
  BY TypedStep, SchedStep DEF IInv, Typed, SchedInv
<1> QED
  BY <1>1, <1>2, PTL DEF Spec

(* The tables of schedulers, queues and profiles and the calls in progress *)
(* keep their types.                                                       *)
THEOREM TypeCorrect == Spec => []TypeOK
<1>1. IInv => TypeOK
  BY DEF IInv
<1> QED
  BY <1>1, Invariance, PTL

(* get_tm_sched_id gives no two subscribers one id, and free_tm_sched_id   *)
(* loses none, for any number of subscribers and refusals.                 *)
THEOREM IdsExclusive == Spec => []SchedIdsExclusive
<1>1. IInv => SchedIdsExclusive
  BY DEF IInv, SchedInv
<1> QED
  BY <1>1, Invariance, PTL

(* A scheduler in BAL is always some key's and is found under its id; what *)
(* a client was told it has is there.                                      *)
THEOREM Owned == Spec => []SchedulersAreOwned
<1>1. IInv => SchedulersAreOwned
  BY DEF IInv, SchedInv
<1> QED
  BY <1>1, Invariance, PTL

-----------------------------------------------------------------------------
(***************************************************************************)
(* Queues and their profiles.                                              *)
(*                                                                         *)
(* The QoS type and the reference of the NNI's scheduler to a QMP are kept *)
(* per subscriber, not per tech profile: what follows is about subscribers *)
(* with one tech profile (OneProfile).  And it is about fewer schedulers   *)
(* than would make the scan for an id reach the NNI's default scheduler    *)
(* (FewSubs).                                                              *)
(***************************************************************************)
OneProfile ==
  \A given \in Services : \A s \in Subs : \A tp, other \in given[s] : tp = other

FewSubs == IsFiniteSet(Subs) /\ Cardinality(Subs) <= NniSched

QueuePcs == {"findQmp", "newQmp", "referOld", "referNew", "setQmp", "setQueues",
             "clearQueues", "freeQmp", "clearQmp"}

(* What a subscriber was told, the scheduler of its queues in a direction, *)
(* its reference to a QMP, the QoS type its tech profile calls for, the    *)
(* keys of its queues in BAL.                                              *)
Told(s, tp, dir)  == told[<<<<s, tp>>, dir>>]
Sched(s, tp, dir) == IF dir = "upstream" THEN NniSched ELSE schedMap[<<s, tp>>]
Refers(s, id)     == schedQmp[<<id, s>>]
Suited(tp) == IF Size(tp) > 1 THEN "priority_to_queue" ELSE "fixed_queue"
KeyAt(s, tp, dir, i) ==
  QueueKey(Suited(tp), Sched(s, tp, dir), SetOf(Suited(tp), Sched(s, tp, dir), s), QueuesOf[tp][i])
Leaving(s, dir) == pc[s] \in {"freeQmp", "clearQmp"} /\ call[s].dir = dir

(* Who has a scheduler id or queues: a tech profile of the subscriber.     *)
Rooted(s) ==
  /\ pc[s] # "idle" => call[s].tp \in service[s]
  /\ \A tp \in TechProfiles :
       /\ schedMap[<<s, tp>>] # None => tp \in service[s] /\ schedMap[<<s, tp>>] # NniSched
       /\ \A dir \in Dirs : Told(s, tp, dir) # "gone" => <<s, tp>> \in ready

RootInv == service \in Services /\ \A s \in Subs : Rooted(s)

(* Where a call on queues stands.                                          *)
Turn(s) ==
  pc[s] \in QueuePcs =>
    /\ told[Side(s)] = "unknown"
    /\ call[s].sched = Sched(s, call[s].tp, call[s].dir)
    /\ qosOf[s] # None
    /\ pc[s] \notin {"setQueues", "clearQueues"} => qosOf[s] = "priority_to_queue"
    /\ pc[s] \in {"referOld", "referNew", "setQmp"} => call[s].qmp # None
    /\ pc[s] = "referOld" => schedQmp[Ref(s)] = None
    /\ pc[s] \in {"newQmp", "referNew"} => raced \/ schedQmp[Ref(s)] = None
    /\ pc[s] = "setQmp" => schedQmp[Ref(s)] # None /\ (raced \/ schedQmp[Ref(s)] = call[s].qmp)
    /\ pc[s] = "setQueues" /\ qosOf[s] = "priority_to_queue" => schedQmp[Ref(s)] # None
    /\ pc[s] = "freeQmp" => call[s].qmp = schedQmp[Ref(s)]
    /\ pc[s] = "clearQmp" => schedQmp[Ref(s)] = None
    /\ pc[s] \in {"freeQmp", "clearQmp"} /\ call[s].dir = "upstream" =>
         \A i \in DOMAIN QueuesOf[call[s].tp] : <<s, call[s].tp, i>> \notin gemOwner

(* The QoS type is the one of the tech profile, and there while both       *)
(* directions have their queues.                                           *)
Marked(s) ==
  \A tp \in service[s] :
    /\ qosOf[s] # None => qosOf[s] = Suited(tp)
    /\ Served(s, tp) => qosOf[s] # None

(* A reference to a QMP is for queues that are not gone, and, unless two   *)
(* calls raced, the QMP is the one of the tech profile.                    *)
RefersWell(s) ==
  \A id \in Scheds : Refers(s, id) # None =>
    \E tp \in service[s] : \E dir \in Dirs :
      /\ id = Sched(s, tp, dir) /\ Told(s, tp, dir) # "gone"
      /\ Suited(tp) = "priority_to_queue"
      /\ raced \/ qmpMap[Refers(s, id)] = MapOf[tp][dir]

(* A queue of a subscriber's scheduler, but those BAL kept, is one of the  *)
(* keys the removal will go through.                                       *)
QueuesHaveOwners ==
  \A b \in balQueue \ stray : b[1] # NniSched =>
    /\ b[3] # None
    /\ \E s \in Subs : \E tp \in service[s] : \E i \in DOMAIN QueuesOf[tp] :
         /\ b = KeyAt(s, tp, "downstream", i)
         /\ Told(s, tp, "downstream") # "gone" /\ ~Leaving(s, "downstream")

(* What was made is there and has its reference.                           *)
MadeIsThere(s) ==
  \A tp \in service[s] : \A dir \in Dirs : Told(s, tp, dir) = "made" =>
    /\ \A i \in DOMAIN QueuesOf[tp] : KeyAt(s, tp, dir, i) \in balQueue
    /\ Suited(tp) = "priority_to_queue" => Refers(s, Sched(s, tp, dir)) # None

GoneIsUnmapped(s) ==
  \A tp \in service[s] : Told(s, tp, "upstream") = "gone" =>
    \A i \in DOMAIN QueuesOf[tp] : <<s, tp, i>> \notin gemOwner

ClearedIsFree ==
  raced \/ \A t \in Subs : pc[t] = "clearQmp" => call[t].qmp \notin qmpBits

-----------------------------------------------------------------------------
(* A step of a subscriber leaves what is another's alone.                  *)
Alone(s) ==
  /\ service' = service /\ (raced => raced')
  /\ \A t \in Subs \ {s} :
       /\ pc'[t] = pc[t] /\ call'[t] = call[t] /\ qosOf'[t] = qosOf[t]
       /\ \A id \in Scheds : schedQmp'[<<id, t>>] = schedQmp[<<id, t>>]
       /\ \A tp \in TechProfiles :
            /\ schedMap'[<<t, tp>>] = schedMap[<<t, tp>>]
            /\ <<t, tp>> \in ready' <=> <<t, tp>> \in ready
            /\ \A dir \in Dirs : told'[<<<<t, tp>>, dir>>] = told[<<<<t, tp>>, dir>>]
            /\ \A i : <<t, tp, i>> \in gemOwner' <=> <<t, tp, i>> \in gemOwner
            /\ \A i : <<t, tp, i>> \in already' <=> <<t, tp, i>> \in already

(* What the CreateQueue calls have done: made some queues, and mapped the   *)
(* GEM ports of those done but those that exist already.                   *)
Made(s, made) == {QueuesFor(s)[i] : i \in 1 .. made}

Sets(s, done, made, dup) ==
  LET mapped == {<<s, call[s].tp, i>> : i \in (1 .. done) \ dup}
      same   == {<<s, call[s].tp, i>> : i \in dup}
      up     == call[s].dir = "upstream" IN
  /\ made \in {done, done + 1}
  /\ balQueue' = balQueue \cup Made(s, made) /\ stray' = stray \ Made(s, made)
  /\ gemOwner' = IF up THEN gemOwner \cup mapped ELSE gemOwner
  /\ already' = IF up THEN (already \ mapped) \cup same ELSE already
  /\ \/ done = Size(call[s].tp) /\ told' = [told EXCEPT ![Side(s)] = "made"]
     \/ done < Size(call[s].tp) /\ UNCHANGED told

LEMMA SetQueuesFacts ==
  ASSUME NEW s \in Subs, SetQueues(s)
  PROVE  \E done, made \in 0 .. Size(call[s].tp) : \E dup \in SUBSET (1 .. done) :
           Sets(s, done, made, dup)
<1> DEFINE keys == QueuesFor(s)
           dups(done) == {i \in 1 .. done : /\ KnowsQueues
                                            /\ keys[i] \in balQueue \cup {keys[j] : j \in 1 .. i - 1}}
<1>1. PICK done, made \in 0 .. Size(call[s].tp) :
        LET dup    == dups(done)
            mapped == {<<s, call[s].tp, i>> : i \in (1 .. done) \ dup}
            same   == {<<s, call[s].tp, i>> : i \in dup}
            up     == call[s].dir = "upstream" IN
        /\ made \in {done, done + 1}
        /\ balQueue' = balQueue \cup {keys[i] : i \in 1 .. made}
        /\ stray' = stray \ {keys[i] : i \in 1 .. made}
        /\ gemOwner' = IF up THEN gemOwner \cup mapped ELSE gemOwner
        /\ already' = IF up THEN (already \ mapped) \cup same ELSE already
        /\ \/ done = Size(call[s].tp) /\ told' = [told EXCEPT ![Side(s)] = "made"]
           \/ done < Size(call[s].tp) /\ UNCHANGED told
  BY DEF SetQueues
<1>2. dups(done) \in SUBSET (1 .. done)
  OBVIOUS
<1> HIDE DEF dups, keys
<1>3. Sets(s, done, made, dups(done))
  BY <1>1 DEF Sets, Made, keys
<1> QED
  BY <1>2, <1>3

LEMMA AloneStep ==
  ASSUME Typed, SchedInv, NEW s \in Subs, Request(s) \/ Continue(s)
  PROVE  Alone(s)
<1>0. /\ pc \in [Subs -> PCs] /\ call \in [Subs -> CallTypes]
      /\ qosOf \in [Subs -> QosTypes \cup {None}]
      /\ schedQmp \in [References -> QmpIds \cup {None}]
      /\ schedMap \in [Keys -> SchedIds \cup {None}]
      /\ told \in [Keys \X Dirs -> {"made", "gone", "unknown"}]
      /\ service \in [Subs -> SUBSET TechProfiles]
      /\ CallInv
  BY DEF Typed, TypeOK
<1>1. ASSUME NEW tp \in service[s], NEW id \in SchedIds \cup {None}, CreateSched(s, tp, id)
      PROVE  Alone(s)
  <2>1. <<s, tp>> \in Keys /\ \A l \in Keys \ {<<s, tp>>} : schedMap'[l] = schedMap[l]
    BY <1>0, <1>1, GetSchedResult DEF CreateSched, Typed, SchedInv, Keys
  <2>2. \A t \in Subs \ {s} : pc'[t] = pc[t] /\ call'[t] = call[t]
    BY <1>0, <1>1 DEF CreateSched, Begin, Goto
  <2>3. \A t \in Subs \ {s} : \A p \in TechProfiles : <<t, p>> \in Keys \ {<<s, tp>>}
    BY DEF Keys
  <2> QED
    BY <1>1, <2>1, <2>2, <2>3 DEF CreateSched, Alone, device, client, history
<1>2. CASE \/ \E tp \in service[s] : RemoveSched(s, tp)
           \/ BalSetsSched(s) \/ BalRefusesSched(s)
           \/ BalClearsSched(s) \/ BalKeepsSched(s) \/ FreeSched(s)
  <2>1. \A t \in Subs \ {s} : pc'[t] = pc[t] /\ call'[t] = call[t]
    BY <1>0, <1>2 DEF RemoveSched, BalSetsSched, BalRefusesSched, BalClearsSched, BalKeepsSched,
                      FreeSched, Begin, Return, Goto
  <2>2. /\ \A t \in Subs \ {s} : \A tp \in TechProfiles :
             /\ schedMap'[<<t, tp>>] = schedMap[<<t, tp>>]
             /\ <<t, tp>> \in ready' <=> <<t, tp>> \in ready
      /\ UNCHANGED <<service, raced, qosOf, schedQmp, told, gemOwner, already>>
    BY <1>0, <1>2 DEF RemoveSched, BalSetsSched, BalRefusesSched, BalClearsSched, BalKeepsSched,
                      FreeSched, tables, device, client, history, Keys, Key
  <2> QED
    BY <2>1, <2>2 DEF Alone
<1>3. CASE \/ \E tp \in service[s], dir \in Dirs, id \in Scheds : CreateQueues(s, tp, dir, id)
           \/ \E tp \in service[s], dir \in Dirs : RemoveQueues(s, tp, dir)
  <2>1. PICK tp \in service[s], dir \in Dirs, id \in Scheds :
          CreateQueues(s, tp, dir, id) \/ RemoveQueues(s, tp, dir)
    BY <1>3 DEF Scheds
  <2>2. \A t \in Subs \ {s} : pc'[t] = pc[t] /\ call'[t] = call[t] /\ qosOf'[t] = qosOf[t]
    BY <1>0, <2>1 DEF CreateQueues, RemoveQueues, Begin, Goto
  <2>3. \A t \in Subs \ {s} : \A p \in TechProfiles : \A d \in Dirs :
          told'[<<<<t, p>>, d>>] = told[<<<<t, p>>, d>>]
    BY <1>0, <2>1 DEF CreateQueues, RemoveQueues, Keys
  <2>4. UNCHANGED <<service, raced, schedQmp, ready, gemOwner, already>>
    BY <2>1 DEF CreateQueues, RemoveQueues, history
  <2>5. UNCHANGED schedMap
    <3>1. CASE CreateQueues(s, tp, dir, id)
      <4>1. schedMap[<<s, tp>>] # None
        BY <3>1 DEF CreateQueues, SchedInv, SchedulersAreOwned
      <4> QED
        BY <3>1, <4>1 DEF CreateQueues, SchedOf, GetSched
    <3> QED
      BY <2>1, <3>1 DEF RemoveQueues
  <2> QED
    BY <2>2, <2>3, <2>4, <2>5 DEF Alone
<1>4. CASE \/ FindQmp(s) \/ NoQmpLeft(s) \/ Refer(s) \/ BalSetsQmp(s) \/ BalRefusesQmp(s)
           \/ \E q \in QmpIds : AllocQmp(s, q)
  <2>1. \A t \in Subs \ {s} : pc'[t] = pc[t] /\ call'[t] = call[t]
    BY <1>0, <1>4 DEF FindQmp, NoQmpLeft, Refer, BalSetsQmp, BalRefusesQmp, AllocQmp, Return, Goto
  <2>2. \A t \in Subs \ {s} : \A id \in Scheds : schedQmp'[<<id, t>>] = schedQmp[<<id, t>>]
    BY <1>0, <1>4 DEF FindQmp, NoQmpLeft, Refer, BalSetsQmp, BalRefusesQmp, AllocQmp, Ref,
                      References, tables
  <2>3. UNCHANGED <<service, qosOf, schedMap, ready, told, gemOwner, already>>
    BY <1>4 DEF FindQmp, NoQmpLeft, Refer, BalSetsQmp, BalRefusesQmp, AllocQmp, tables, client, history
  <2>4. raced => raced'
    <3>1. CASE FindQmp(s) \/ NoQmpLeft(s) \/ BalSetsQmp(s) \/ BalRefusesQmp(s)
      BY <3>1 DEF FindQmp, NoQmpLeft, BalSetsQmp, BalRefusesQmp, history
    <3>2. CASE Refer(s) \/ \E q \in QmpIds : AllocQmp(s, q)
      BY <3>2, Zenon DEF Refer, AllocQmp
    <3> QED
      BY <1>4, <3>1, <3>2
  <2> QED
    BY <2>1, <2>2, <2>3, <2>4 DEF Alone
<1>5. CASE SetQueues(s) \/ ClearQueues(s) \/ FreeQmp(s) \/ BalClearsQmp(s) \/ BalKeepsQmp(s)
  <2>0. pc[s] # "idle"
    BY <1>5 DEF SetQueues, ClearQueues, FreeQmp, BalClearsQmp, BalKeepsQmp, At
  <2>1. \A t \in Subs \ {s} : pc'[t] = pc[t] /\ call'[t] = call[t] /\ qosOf'[t] = qosOf[t]
    BY <1>0, <1>5 DEF SetQueues, ClearQueues, FreeQmp, BalClearsQmp, BalKeepsQmp, ClearQos,
                      tables, Return, Goto
  <2>2. \A t \in Subs \ {s} : \A p \in TechProfiles : \A d \in Dirs :
          told'[<<<<t, p>>, d>>] = told[<<<<t, p>>, d>>]
    <3>1. \/ UNCHANGED told
          \/ \E v : told' = [told EXCEPT ![Side(s)] = v]
      BY <1>5 DEF SetQueues, ClearQueues, FreeQmp, BalClearsQmp, BalKeepsQmp, ClearQos, client
    <3>2. \A t \in Subs \ {s} : \A p \in TechProfiles : \A d \in Dirs : <<<<t, p>>, d>> # Side(s)
      BY DEF Side, Key
    <3> QED
      BY <1>0, <3>1, <3>2 DEF Keys
  <2>3. \A t \in Subs \ {s} : \A id \in Scheds : schedQmp'[<<id, t>>] = schedQmp[<<id, t>>]
    BY <1>0, <1>5 DEF SetQueues, ClearQueues, FreeQmp, BalClearsQmp, BalKeepsQmp, Ref, References, tables
  <2>4. UNCHANGED <<service, raced, schedMap, ready>>
    BY <1>5 DEF SetQueues, ClearQueues, FreeQmp, BalClearsQmp, BalKeepsQmp, tables, client
  <2>5. \A t \in Subs \ {s} : \A p : \A i :
          /\ <<t, p, i>> \in gemOwner' <=> <<t, p, i>> \in gemOwner
          /\ <<t, p, i>> \in already' <=> <<t, p, i>> \in already
    <3>1. CASE SetQueues(s)
      <4>1. PICK done \in Int : \E made \in Int : \E dup \in SUBSET (1 .. done) :
              Sets(s, done, made, dup)
        BY <3>1, SetQueuesFacts
      <4>2. PICK made \in Int, dup \in SUBSET (1 .. done) : Sets(s, done, made, dup)
        BY <4>1
      <4> QED
        BY <4>2 DEF Sets
    <3>2. CASE ClearQueues(s)
      BY <3>2 DEF ClearQueues, Unmap
    <3> QED
      BY <1>5, <3>1, <3>2 DEF FreeQmp, BalClearsQmp, BalKeepsQmp, tables
  <2> QED
    BY <2>1, <2>2, <2>3, <2>4, <2>5 DEF Alone
<1> QED
  BY <1>1, <1>2, <1>3, <1>4, <1>5 DEF Request, Continue

-----------------------------------------------------------------------------
(* What is another's stays as it is.                                       *)
LEMMA AloneRooted ==
  ASSUME NEW s \in Subs, Alone(s), NEW t \in Subs \ {s}, Rooted(t), service[t] \subseteq TechProfiles
  PROVE  Rooted(t)'
<1>1. /\ pc'[t] = pc[t] /\ call'[t] = call[t] /\ service'[t] = service[t]
      /\ \A tp \in TechProfiles :
           /\ schedMap'[<<t, tp>>] = schedMap[<<t, tp>>]
           /\ <<t, tp>> \in ready' <=> <<t, tp>> \in ready
           /\ \A dir \in Dirs : told'[<<<<t, tp>>, dir>>] = told[<<<<t, tp>>, dir>>]
  BY DEF Alone
<1> QED
  BY <1>1 DEF Rooted, Told

LEMMA AloneTurn ==
  ASSUME Typed, NEW s \in Subs, Alone(s), NEW t \in Subs \ {s}, Turn(t)
  PROVE  Turn(t)'
<1> SUFFICES ASSUME pc'[t] \in QueuePcs PROVE Turn(t)'
  BY DEF Turn
<1>1. /\ pc'[t] = pc[t] /\ call'[t] = call[t] /\ qosOf'[t] = qosOf[t] /\ (raced => raced')
      /\ call[t].sched \in Scheds /\ call[t].tp \in TechProfiles /\ call[t].dir \in Dirs
  BY DEF Alone, Typed, TypeOK, CallTypes, CallInv, QueuePcs
<1>2. /\ Key(t)' = Key(t) /\ Side(t)' = Side(t) /\ Ref(t)' = Ref(t)
      /\ schedQmp'[Ref(t)] = schedQmp[Ref(t)] /\ told'[Side(t)] = told[Side(t)]
      /\ schedMap'[<<t, call[t].tp>>] = schedMap[<<t, call[t].tp>>]
      /\ \A i : <<t, call[t].tp, i>> \in gemOwner' <=> <<t, call[t].tp, i>> \in gemOwner
  BY <1>1 DEF Alone, Key, Side, Ref
<1> QED
  BY <1>1, <1>2 DEF Turn, Sched

LEMMA AloneMarked ==
  ASSUME NEW s \in Subs, Alone(s), NEW t \in Subs \ {s}, Marked(t), service[t] \subseteq TechProfiles
  PROVE  Marked(t)'
<1>1. /\ service'[t] = service[t] /\ qosOf'[t] = qosOf[t]
      /\ \A tp \in TechProfiles : \A dir \in Dirs : told'[<<<<t, tp>>, dir>>] = told[<<<<t, tp>>, dir>>]
  BY DEF Alone
<1> QED
  BY <1>1 DEF Marked, Served, Suited, Size

LEMMA AloneGone ==
  ASSUME NEW s \in Subs, Alone(s), NEW t \in Subs \ {s}, GoneIsUnmapped(t),
         service[t] \subseteq TechProfiles
  PROVE  GoneIsUnmapped(t)'
<1>1. /\ service'[t] = service[t]
      /\ \A tp \in TechProfiles :
           /\ \A dir \in Dirs : told'[<<<<t, tp>>, dir>>] = told[<<<<t, tp>>, dir>>]
           /\ \A i : <<t, tp, i>> \in gemOwner' <=> <<t, tp, i>> \in gemOwner
  BY DEF Alone
<1> QED
  BY <1>1 DEF GoneIsUnmapped, Told, Dirs

-----------------------------------------------------------------------------
(* Who has schedulers.                                                     *)

(* There are n numbers below n.                                           *)
LEMMA CardinalityBelow ==
  ASSUME NEW n \in Nat
  PROVE  IsFiniteSet(0 .. n - 1) /\ Cardinality(0 .. n - 1) = n
<1>1. 0 \in Int /\ n - 1 \in Int
  OBVIOUS
<1>2. IsFiniteSet(0 .. n - 1) /\ Cardinality(0 .. n - 1) = IF 0 > n - 1 THEN 0 ELSE (n - 1) - 0 + 1
  BY <1>1, FS_Interval
<1> QED
  BY <1>2

(* The scan for a clear bit stops below the ids of the default schedulers: *)
(* fewer subscribers have an id.                                           *)
LEMMA FreshBelowDefaults ==
  ASSUME FewSubs, OneProfile, Typed, SchedIdsExclusive, RootInv,
         NEW s \in Subs, NEW tp \in service[s], schedMap[<<s, tp>>] = None,
         NEW id, FirstClear(schedBits, SchedIds, id)
  PROVE  id # NniSched
<1> SUFFICES ASSUME id = NniSched PROVE FALSE
  OBVIOUS
<1>1. /\ service[s] \subseteq TechProfiles /\ tp \in TechProfiles
      /\ schedMap \in [Keys -> SchedIds \cup {None}] /\ None \notin SchedIds /\ MaxSchedId \in Nat
  BY TmAssumption DEF Typed, TypeOK, SchedIds
<1>2. id \in SchedIds /\ \A j \in SchedIds \ schedBits : id <= j
  BY DEF FirstClear
<1>3. NniSched \in Nat /\ NniSched < MaxSchedId
  BY <1>1, <1>2 DEF SchedIds
<1> DEFINE Below == 0 .. NniSched - 1
           Others == Subs \ {s}
           Holder(j) == CHOOSE t \in Others : \E p \in service[t] : schedMap[<<t, p>>] = j
           holder == [j \in Below |-> Holder(j)]
<1>4. ASSUME NEW j \in Below
      PROVE  Holder(j) \in Others /\ \E p \in service[Holder(j)] : schedMap[<<Holder(j), p>>] = j
  <2>1. j \in SchedIds /\ j < id /\ id \in Int /\ j \in Int
    BY <1>1, <1>2, <1>3 DEF SchedIds
  <2>2. j \in schedBits
    BY <1>2, <2>1
  <2>3. PICK k \in Keys : schedMap[k] = j
    BY <2>2 DEF SchedIdsExclusive
  <2>4. PICK t \in Subs, p \in TechProfiles : k = <<t, p>>
    BY <2>3 DEF Keys
  <2>5. schedMap[<<t, p>>] = j /\ j # None
    BY <1>1, <2>1, <2>3, <2>4
  <2>6. p \in service[t]
    BY <2>5 DEF RootInv, Rooted
  <2>7. t # s
    BY <2>5, <2>6 DEF RootInv, OneProfile
  <2> QED
    BY <2>5, <2>6, <2>7
<1> HIDE DEF Holder
<1>5. ASSUME NEW i \in Below, NEW j \in Below, holder[i] = holder[j]  PROVE i = j
  <2>1. holder[i] = Holder(i) /\ holder[j] = Holder(j) /\ Holder(i) \in Subs
    BY <1>4
  <2>2. PICK p \in service[Holder(i)] : schedMap[<<Holder(i), p>>] = i
    BY <1>4
  <2>3. PICK q \in service[Holder(i)] : schedMap[<<Holder(i), q>>] = j
    BY <1>4, <1>5, <2>1
  <2>4. p = q
    BY <2>1 DEF RootInv, OneProfile
  <2> QED
    BY <2>2, <2>3, <2>4
<1>6. holder \in [Below -> Others]
  BY <1>4
<1>7. IsFiniteSet(Below) /\ Cardinality(Below) = NniSched
  BY <1>3, CardinalityBelow
<1>8. /\ IsFiniteSet(Others) /\ Cardinality(Others) = Cardinality(Subs) - 1
      /\ Cardinality(Subs) \in Nat
  BY FS_RemoveElement, FS_CardinalityType DEF FewSubs
<1> HIDE DEF Below, Others, holder
<1>9. Cardinality(Others) < Cardinality(Below)
  BY <1>3, <1>7, <1>8 DEF FewSubs
<1> QED
  BY <1>5, <1>6, <1>7, <1>8, <1>9, FS_PigeonHole

(* The scheduler of a tech profile whose queues are asked for.             *)
LEMMA ReadyHasSched ==
  ASSUME Typed, SchedInv, NEW k \in ready
  PROVE  schedMap[k] \in SchedIds /\ schedMap[k] # None /\ k \in Keys
BY DEF SchedInv, SchedulersAreOwned, Typed, TypeOK

LEMMA CreateQueuesFacts ==
  ASSUME Typed, SchedInv, NEW s \in Subs, NEW tp \in service[s], NEW dir \in Dirs, NEW id,
         CreateQueues(s, tp, dir, id)
  PROVE  /\ UNCHANGED <<schedBits, schedMap, ready, schedQmp>> /\ id = Sched(s, tp, dir)
         /\ <<s, tp>> \in ready /\ tp \in TechProfiles /\ id \in Scheds /\ id # None
<1>1. tp \in TechProfiles /\ <<s, tp>> \in ready
  BY DEF CreateQueues, Typed, TypeOK
<1>2. schedMap[<<s, tp>>] \in SchedIds /\ schedMap[<<s, tp>>] # None
  BY <1>1, ReadyHasSched
<1>3. UNCHANGED <<schedBits, schedMap>> /\ id = Sched(s, tp, dir)
  BY <1>2 DEF CreateQueues, SchedOf, GetSched, Sched
<1>4. NniSched # None
  BY TmAssumption DEF NniSched, DefaultSched, DownstreamStart, UpstreamStart
<1> QED
  BY <1>1, <1>2, <1>3, <1>4 DEF CreateQueues, Sched, Scheds

(* What a call on queues may tell its subscriber.                          *)
LEMMA ToldBySide ==
  ASSUME Typed, NEW s \in Subs, pc[s] # "idle", NEW v, told' = [told EXCEPT ![Side(s)] = v]
  PROVE  /\ told'[Side(s)] = v
         /\ \A k \in Keys : \A dir \in Dirs : <<k, dir>> # Side(s) => told'[<<k, dir>>] = told[<<k, dir>>]
<1>1. Side(s) \in Keys \X Dirs /\ told \in [Keys \X Dirs -> {"made", "gone", "unknown"}]
  BY KeyType DEF Typed, TypeOK
<1> QED
  BY <1>1

LEMMA SchedulersRooted ==
  ASSUME FewSubs, OneProfile, Typed, SchedInv, RootInv, NEW s \in Subs,
         \/ \E tp \in service[s], id \in SchedIds \cup {None} : CreateSched(s, tp, id)
         \/ \E tp \in service[s] : RemoveSched(s, tp)
         \/ BalSetsSched(s) \/ BalRefusesSched(s)
         \/ BalClearsSched(s) \/ BalKeepsSched(s) \/ FreeSched(s)
  PROVE  Rooted(s)'
<1>0. /\ schedMap \in [Keys -> SchedIds \cup {None}] /\ service[s] \subseteq TechProfiles
      /\ pc \in [Subs -> PCs] /\ call \in [Subs -> CallTypes] /\ Rooted(s) /\ ready \subseteq Keys
      /\ \A tp \in TechProfiles : <<s, tp>> \in Keys
  BY DEF Typed, TypeOK, RootInv, Keys
<1>1. ASSUME NEW tp \in service[s], NEW id \in SchedIds \cup {None}, CreateSched(s, tp, id)
      PROVE  Rooted(s)'
  <2>1. UNCHANGED <<service, ready, told>> /\ call'[s].tp = tp
    BY <1>0, <1>1 DEF CreateSched, Begin, NoCall, client
  <2>2. \A p \in TechProfiles : schedMap'[<<s, p>>] = schedMap[<<s, p>>]
                                \/ (p = tp /\ schedMap'[<<s, p>>] # NniSched)
    <3>1. CASE UNCHANGED schedMap
      BY <3>1
    <3>2. CASE /\ schedMap[<<s, tp>>] = None /\ FirstClear(schedBits, SchedIds, id)
               /\ schedMap' = [schedMap EXCEPT ![<<s, tp>>] = id]
      <4>1. id # NniSched
        BY <3>2, FreshBelowDefaults DEF SchedInv
      <4> QED
        BY <1>0, <3>2, <4>1
    <3> QED
      BY <1>1, <3>1, <3>2 DEF CreateSched, GetSched
  <2> QED
    BY <1>0, <2>1, <2>2 DEF Rooted, Told
<1>2. ASSUME NEW tp \in service[s], RemoveSched(s, tp)
      PROVE  Rooted(s)'
  <2>1. /\ UNCHANGED <<service, told, schedMap>> /\ call'[s].tp = tp /\ ready' = ready \ {<<s, tp>>}
        /\ \A dir \in Dirs : Told(s, tp, dir) = "gone"
    BY <1>0, <1>2 DEF RemoveSched, Releasable, Begin, NoCall, tables, Told
  <2> QED
    BY <1>0, <2>1 DEF Rooted, Told
<1>3. CASE BalSetsSched(s) \/ BalRefusesSched(s) \/ BalClearsSched(s) \/ BalKeepsSched(s)
  <2>1. /\ UNCHANGED <<service, told, schedMap>> /\ ready \subseteq ready'
        /\ pc'[s] # "idle" => pc[s] # "idle" /\ call' = call
    BY <1>0, <1>3 DEF BalSetsSched, BalRefusesSched, BalClearsSched, BalKeepsSched, tables, client,
                      At, Goto, Return
  <2> QED
    BY <1>0, <2>1 DEF Rooted, Told
<1>4. CASE FreeSched(s)
  <2>1. /\ UNCHANGED <<service, told, ready>> /\ pc'[s] = "idle"
        /\ schedMap' = [schedMap EXCEPT ![Key(s)] = None]
    BY <1>0, <1>4 DEF FreeSched, client, Goto, Return
  <2>2. \A p \in TechProfiles : schedMap'[<<s, p>>] = schedMap[<<s, p>>] \/ schedMap'[<<s, p>>] = None
    BY <1>0, <2>1
  <2> QED
    BY <1>0, <2>1, <2>2 DEF Rooted, Told
<1> QED
  BY <1>1, <1>2, <1>3, <1>4

(* A call on queues goes on or returns; whom it is for stays.              *)
LEMMA QueueCallKept ==
  ASSUME Typed, NEW s \in Subs,
         \/ FindQmp(s) \/ NoQmpLeft(s) \/ Refer(s) \/ BalSetsQmp(s) \/ BalRefusesQmp(s)
         \/ \E q \in QmpIds : AllocQmp(s, q)
         \/ SetQueues(s) \/ ClearQueues(s) \/ FreeQmp(s) \/ BalClearsQmp(s) \/ BalKeepsQmp(s)
  PROVE  /\ pc[s] \in QueuePcs
         /\ \/ pc'[s] = "idle"
            \/ /\ pc'[s] \in QueuePcs
               /\ call'[s].tp = call[s].tp /\ call'[s].dir = call[s].dir
               /\ call'[s].sched = call[s].sched
<1>0. pc \in [Subs -> PCs] /\ call \in [Subs -> CallTypes]
  BY DEF Typed, TypeOK
<1> DEFINE Same == /\ call'[s].tp = call[s].tp /\ call'[s].dir = call[s].dir
                   /\ call'[s].sched = call[s].sched
<1>1. CASE FindQmp(s)
  <2>1. pc[s] \in QueuePcs /\ pc'[s] \in QueuePcs
    BY <1>0, <1>1 DEF FindQmp, At, Goto, QueuePcs
  <2>2. UNCHANGED call \/ \E q \in QmpIds : call' = [call EXCEPT ![s].qmp = q]
    BY <1>1 DEF FindQmp
  <2>3. Same
    BY <1>0, <2>2 DEF CallTypes
  <2> QED
    BY <2>1, <2>3
<1>2. ASSUME NEW q \in QmpIds, AllocQmp(s, q)
      PROVE  pc[s] \in QueuePcs /\ pc'[s] \in QueuePcs /\ Same
  <2>1. pc[s] \in QueuePcs /\ pc'[s] \in QueuePcs
    BY <1>0, <1>2 DEF AllocQmp, At, Goto, QueuePcs
  <2>2. call' = [call EXCEPT ![s].qmp = q]
    BY <1>2 DEF AllocQmp
  <2> QED
    BY <1>0, <2>1, <2>2 DEF CallTypes
<1>3. CASE ClearQueues(s)
  <2>1. pc[s] \in QueuePcs
    BY <1>3 DEF ClearQueues, At, QueuePcs
  <2>2. \/ pc'[s] = "idle"
        \/ /\ Goto(s, "freeQmp")
           /\ \E v \in BOOLEAN : call' = [call EXCEPT ![s].qmp = schedQmp[Ref(s)], ![s].failed = v]
    <3>1. \E stay : \/ ClearQos(s, stay # {})
                    \/ /\ Goto(s, "freeQmp")
                       /\ call' = [call EXCEPT ![s].qmp = schedQmp[Ref(s)], ![s].failed = (stay # {})]
      BY <1>3 DEF ClearQueues
    <3> QED
      BY <1>0, <3>1 DEF ClearQos, Return, Goto
  <2>3. CASE /\ Goto(s, "freeQmp")
             /\ \E v \in BOOLEAN : call' = [call EXCEPT ![s].qmp = schedQmp[Ref(s)], ![s].failed = v]
    <3>1. pc'[s] \in QueuePcs
      BY <1>0, <2>3 DEF Goto, QueuePcs
    <3>2. Same
      BY <1>0, <2>3 DEF CallTypes
    <3> QED
      BY <2>1, <3>1, <3>2
  <2> QED
    BY <2>1, <2>2, <2>3
<1>4. CASE \/ NoQmpLeft(s) \/ Refer(s) \/ BalSetsQmp(s) \/ BalRefusesQmp(s)
           \/ SetQueues(s) \/ FreeQmp(s) \/ BalClearsQmp(s) \/ BalKeepsQmp(s)
  <2>1. pc[s] \in QueuePcs
    BY <1>4 DEF NoQmpLeft, Refer, BalSetsQmp, BalRefusesQmp, SetQueues, FreeQmp, BalClearsQmp,
                BalKeepsQmp, At, QueuePcs
  <2>2. pc'[s] = "idle" \/ (pc'[s] \in QueuePcs /\ UNCHANGED call)
    BY <1>0, <1>4 DEF NoQmpLeft, Refer, BalSetsQmp, BalRefusesQmp, SetQueues, FreeQmp, BalClearsQmp,
                BalKeepsQmp, ClearQos, Return, Goto, QueuePcs
  <2> QED
    BY <2>1, <2>2
<1> QED
  BY <1>1, <1>2, <1>3, <1>4

LEMMA QueuesRooted ==
  ASSUME Typed, SchedInv, RootInv, NEW s \in Subs, Turn(s),
         \/ \E tp \in service[s], dir \in Dirs, id \in Scheds : CreateQueues(s, tp, dir, id)
         \/ \E tp \in service[s], dir \in Dirs : RemoveQueues(s, tp, dir)
         \/ FindQmp(s) \/ NoQmpLeft(s) \/ Refer(s) \/ BalSetsQmp(s) \/ BalRefusesQmp(s)
         \/ \E q \in QmpIds : AllocQmp(s, q)
         \/ SetQueues(s) \/ ClearQueues(s) \/ FreeQmp(s) \/ BalClearsQmp(s) \/ BalKeepsQmp(s)
  PROVE  Rooted(s)'
<1>0. /\ service[s] \subseteq TechProfiles
      /\ pc \in [Subs -> PCs] /\ call \in [Subs -> CallTypes] /\ Rooted(s)
      /\ \A tp \in TechProfiles : <<s, tp>> \in Keys
      /\ told \in [Keys \X Dirs -> {"made", "gone", "unknown"}]
  BY DEF Typed, TypeOK, RootInv, Keys
<1>1. CASE \/ \E tp \in service[s], dir \in Dirs, id \in Scheds : CreateQueues(s, tp, dir, id)
           \/ \E tp \in service[s], dir \in Dirs : RemoveQueues(s, tp, dir)
  <2>1. PICK tp \in service[s], dir \in Dirs, id \in Scheds :
          CreateQueues(s, tp, dir, id) \/ RemoveQueues(s, tp, dir)
    BY <1>1 DEF Scheds
  <2>2. UNCHANGED <<service, ready, schedMap>>
    BY <2>1, CreateQueuesFacts DEF CreateQueues, RemoveQueues
  <2>3. call'[s].tp = tp /\ told' = [told EXCEPT ![<<<<s, tp>>, dir>>] = "unknown"]
    <3>1. PICK i : /\ told' = [told EXCEPT ![<<<<s, tp>>, dir>>] = "unknown"]
                   /\ call' = [call EXCEPT ![s] = [NoCall EXCEPT !.tp = tp, !.dir = dir, !.sched = i]]
      BY <2>1 DEF CreateQueues, RemoveQueues, Begin
    <3>2. call'[s] = [NoCall EXCEPT !.tp = tp, !.dir = dir, !.sched = i]
      BY <1>0, <3>1
    <3> QED
      BY <3>1, <3>2 DEF NoCall
  <2>4. <<s, tp>> \in ready /\ tp \in TechProfiles
    <3>1. CASE RemoveQueues(s, tp, dir)
      BY <1>0, <3>1 DEF RemoveQueues, Rooted, Told
    <3> QED
      BY <1>0, <2>1, <3>1 DEF CreateQueues
  <2>5. \A p \in TechProfiles : \A d \in Dirs :
          Told(s, p, d)' = Told(s, p, d) \/ (p = tp /\ <<s, p>> \in ready)
    BY <1>0, <2>3, <2>4 DEF Told
  <2> QED
    BY <1>0, <2>2, <2>3, <2>5 DEF Rooted
<1>2. CASE \/ FindQmp(s) \/ NoQmpLeft(s) \/ Refer(s) \/ BalSetsQmp(s) \/ BalRefusesQmp(s)
           \/ \E q \in QmpIds : AllocQmp(s, q)
  <2>1. UNCHANGED <<service, ready, schedMap, told>>
    BY <1>2 DEF FindQmp, NoQmpLeft, Refer, BalSetsQmp, BalRefusesQmp, AllocQmp, tables, client
  <2>2. pc[s] # "idle" /\ (pc'[s] # "idle" => call'[s].tp = call[s].tp)
    BY <1>2, QueueCallKept DEF QueuePcs
  <2> QED
    BY <1>0, <2>1, <2>2 DEF Rooted, Told
<1>3. CASE SetQueues(s) \/ ClearQueues(s) \/ FreeQmp(s) \/ BalClearsQmp(s) \/ BalKeepsQmp(s)
  <2>1. UNCHANGED <<service, ready, schedMap>>
    BY <1>3 DEF SetQueues, ClearQueues, FreeQmp, BalClearsQmp, BalKeepsQmp, tables, client
  <2>2. pc[s] \in QueuePcs /\ (pc'[s] # "idle" => call'[s].tp = call[s].tp)
    BY <1>3, QueueCallKept
  <2>3. \A k \in Keys : \A d \in Dirs : told'[<<k, d>>] = told[<<k, d>>] \/ <<k, d>> = Side(s)
    <3>1. UNCHANGED told \/ \E v : told' = [told EXCEPT ![Side(s)] = v]
      BY <1>3 DEF SetQueues, ClearQueues, FreeQmp, BalClearsQmp, BalKeepsQmp, ClearQos, client
    <3> QED
      BY <2>2, <3>1, ToldBySide DEF QueuePcs
  <2>4. told[Side(s)] = "unknown" /\ call[s].tp \in TechProfiles /\ call[s].dir \in Dirs
    BY <2>2 DEF Turn, Typed, CallInv, QueuePcs
  <2>5. <<s, call[s].tp>> \in ready
    BY <1>0, <2>4 DEF Rooted, Told, Side, Key
  <2>6. \A p \in TechProfiles : \A d \in Dirs :
          Told(s, p, d)' = Told(s, p, d) \/ <<s, p>> \in ready
    BY <1>0, <2>3, <2>5 DEF Told, Side, Key
  <2> QED
    BY <1>0, <2>1, <2>2, <2>6 DEF Rooted, QueuePcs
<1> QED
  BY <1>1, <1>2, <1>3

-----------------------------------------------------------------------------
(* Where a call on queues stands.                                          *)

LEMMA Unique ==
  ASSUME OneProfile, RootInv, NEW s \in Subs, NEW tp \in service[s], NEW other \in service[s]
  PROVE  tp = other
BY DEF OneProfile, RootInv

LEMMA DirsApart ==
  ASSUME NEW s \in Subs, Rooted(s), NEW tp \in TechProfiles, NEW dir \in Dirs, NEW d \in Dirs,
         Sched(s, tp, dir) = Sched(s, tp, d)
  PROVE  dir = d
<1>1. schedMap[<<s, tp>>] # NniSched
  <2>1. NniSched # None
    BY TmAssumption DEF NniSched, DefaultSched, DownstreamStart, UpstreamStart
  <2> QED
    BY <2>1 DEF Rooted
<1> QED
  BY <1>1 DEF Sched, Dirs

(* The reference a call on queues goes by is its own tech profile's.       *)
LEMMA RefIsOwn ==
  ASSUME OneProfile, Typed, RootInv, NEW s \in Subs, Turn(s), RefersWell(s), pc[s] \in QueuePcs,
         schedQmp[Ref(s)] # None
  PROVE  /\ schedQmp[Ref(s)] \in QmpIds /\ Suited(call[s].tp) = "priority_to_queue"
         /\ raced \/ qmpMap[schedQmp[Ref(s)]] = Wanted(s)
<1> DEFINE tp == call[s].tp
           id == call[s].sched
<1>1. /\ tp \in TechProfiles /\ tp \in service[s] /\ call[s].dir \in Dirs /\ id \in Scheds /\ Rooted(s)
      /\ id = Sched(s, tp, call[s].dir)
  BY DEF Typed, TypeOK, CallTypes, CallInv, QueuePcs, RootInv, Rooted, Turn
<1>2. schedQmp[Ref(s)] = Refers(s, id) /\ Ref(s) \in References
  BY <1>1 DEF Ref, Refers, References
<1>3. schedQmp[Ref(s)] \in QmpIds
  BY <1>2 DEF Typed, TypeOK
<1> HIDE DEF tp, id
<1>4. PICK p \in service[s], dir \in Dirs :
        /\ id = Sched(s, p, dir) /\ Suited(p) = "priority_to_queue"
        /\ raced \/ qmpMap[Refers(s, id)] = MapOf[p][dir]
  BY <1>1, <1>2 DEF RefersWell
<1>5. p = tp
  BY <1>1, Unique
<1>6. dir = call[s].dir
  BY <1>1, <1>4, <1>5, DirsApart
<1> QED
  BY <1>2, <1>3, <1>4, <1>5, <1>6 DEF Wanted, tp

(* What a call that goes on keeps.                                         *)
LEMMA TurnKept ==
  ASSUME Typed, NEW s \in Subs, Turn(s), pc'[s] # "idle",
         \/ FindQmp(s) \/ NoQmpLeft(s) \/ Refer(s) \/ BalSetsQmp(s) \/ BalRefusesQmp(s)
         \/ \E q \in QmpIds : AllocQmp(s, q)
         \/ SetQueues(s) \/ ClearQueues(s) \/ FreeQmp(s) \/ BalClearsQmp(s) \/ BalKeepsQmp(s)
  PROVE  /\ pc[s] \in QueuePcs /\ pc'[s] \in QueuePcs
         /\ Key(s)' = Key(s) /\ Side(s)' = Side(s) /\ Ref(s)' = Ref(s)
         /\ call'[s].tp = call[s].tp /\ call'[s].dir = call[s].dir
         /\ told'[Side(s)'] = "unknown"
         /\ call'[s].sched = Sched(s, call[s].tp, call[s].dir)'
         /\ qosOf'[s] = qosOf[s] /\ qosOf[s] # None
<1>0. pc \in [Subs -> PCs] /\ call \in [Subs -> CallTypes]
  BY DEF Typed, TypeOK
<1>1. /\ pc[s] \in QueuePcs /\ pc'[s] \in QueuePcs
      /\ call'[s].tp = call[s].tp /\ call'[s].dir = call[s].dir /\ call'[s].sched = call[s].sched
  BY QueueCallKept
<1>2. UNCHANGED <<told, qosOf, schedMap>>
  BY <1>0, <1>1 DEF FindQmp, NoQmpLeft, Refer, BalSetsQmp, BalRefusesQmp, AllocQmp, SetQueues,
       ClearQueues, FreeQmp, BalClearsQmp, BalKeepsQmp, ClearQos, Return, Goto, tables, client
<1>3. /\ told[Side(s)] = "unknown" /\ call[s].sched = Sched(s, call[s].tp, call[s].dir)
      /\ qosOf[s] # None
  BY <1>1 DEF Turn
<1>4. Key(s)' = Key(s) /\ Side(s)' = Side(s) /\ Ref(s)' = Ref(s)
  BY <1>1 DEF Key, Side, Ref
<1> QED
  BY <1>1, <1>2, <1>3, <1>4 DEF Sched

LEMMA StartTurn ==
  ASSUME Typed, SchedInv, RootInv, NEW s \in Subs,
         \/ \E tp \in service[s], dir \in Dirs, id \in Scheds : CreateQueues(s, tp, dir, id)
         \/ \E tp \in service[s], dir \in Dirs : RemoveQueues(s, tp, dir)
  PROVE  Turn(s)'
<1>0. /\ pc \in [Subs -> PCs] /\ call \in [Subs -> CallTypes] /\ service[s] \subseteq TechProfiles
      /\ told \in [Keys \X Dirs -> {"made", "gone", "unknown"}]
      /\ qosOf \in [Subs -> QosTypes \cup {None}] /\ None \notin QosTypes
  BY TmAssumption DEF Typed, TypeOK
<1>1. PICK tp \in service[s], dir \in Dirs, id \in Scheds :
        \/ CreateQueues(s, tp, dir, id)
        \/ RemoveQueues(s, tp, dir) /\ id = Sched(s, tp, dir)
  <2>1. \A tp \in service[s] : \A dir \in Dirs : Sched(s, tp, dir) \in Scheds
    BY <1>0 DEF Sched, Scheds, Typed, TypeOK, Keys
  <2> QED
    BY <2>1
<1>2. /\ id = Sched(s, tp, dir) /\ UNCHANGED schedMap
  BY <1>1, CreateQueuesFacts DEF RemoveQueues
<1>3. /\ call'[s].tp = tp /\ call'[s].dir = dir /\ call'[s].sched = id
      /\ told' = [told EXCEPT ![<<<<s, tp>>, dir>>] = "unknown"]
      /\ qosOf'[s] \in QosTypes
      /\ pc'[s] \in {"findQmp", "setQueues", "clearQueues"}
      /\ pc'[s] = "findQmp" => qosOf'[s] = "priority_to_queue"
      /\ pc'[s] = "setQueues" => qosOf'[s] # "priority_to_queue"
  <2>1. Qos(s, Size(tp)) \in QosTypes
    BY QosTyped
  <2>2. /\ call' = [call EXCEPT ![s] = [NoCall EXCEPT !.tp = tp, !.dir = dir, !.sched = id]]
        /\ told' = [told EXCEPT ![<<<<s, tp>>, dir>>] = "unknown"]
        /\ qosOf' = [qosOf EXCEPT ![s] = Qos(s, Size(tp))]
        /\ \/ pc' = [pc EXCEPT ![s] = IF Qos(s, Size(tp)) = "priority_to_queue"
                                     THEN "findQmp" ELSE "setQueues"]
           \/ pc' = [pc EXCEPT ![s] = "clearQueues"]
    BY <1>1 DEF CreateQueues, RemoveQueues, Begin, Goto, Sched
  <2>3. call'[s].tp = tp /\ call'[s].dir = dir /\ call'[s].sched = id
    BY <1>0, <2>2 DEF NoCall
  <2> QED
    BY <1>0, <2>1, <2>2, <2>3
<1>4. told'[Side(s)'] = "unknown"
  BY <1>0, <1>3 DEF Side, Key, Keys
<1>5. call'[s].sched = Sched(s, call[s].tp, call[s].dir)'
  BY <1>2, <1>3 DEF Sched
<1> QED
  BY <1>0, <1>3, <1>4, <1>5 DEF Turn

LEMMA ContinueTurn ==
  ASSUME OneProfile, Typed, RootInv, NEW s \in Subs, Turn(s), RefersWell(s),
         \/ FindQmp(s) \/ NoQmpLeft(s) \/ Refer(s) \/ BalSetsQmp(s) \/ BalRefusesQmp(s)
         \/ \E q \in QmpIds : AllocQmp(s, q)
         \/ SetQueues(s) \/ ClearQueues(s) \/ FreeQmp(s) \/ BalClearsQmp(s) \/ BalKeepsQmp(s)
  PROVE  Turn(s)'
<1>0. /\ pc \in [Subs -> PCs] /\ call \in [Subs -> CallTypes] /\ None \notin QmpIds
      /\ schedQmp \in [References -> QmpIds \cup {None}]
  BY TmAssumption DEF Typed, TypeOK, QmpIds
<1> SUFFICES ASSUME pc'[s] # "idle" PROVE Turn(s)'
  BY DEF Turn, QueuePcs
<1>1. /\ pc[s] \in QueuePcs /\ pc'[s] \in QueuePcs
      /\ Key(s)' = Key(s) /\ Side(s)' = Side(s) /\ Ref(s)' = Ref(s)
      /\ call'[s].tp = call[s].tp /\ call'[s].dir = call[s].dir
      /\ told'[Side(s)'] = "unknown"
      /\ call'[s].sched = Sched(s, call[s].tp, call[s].dir)'
      /\ qosOf'[s] = qosOf[s] /\ qosOf[s] # None
  BY TurnKept
<1>3. Ref(s) \in References
  BY <1>1 DEF Ref, References, Typed, TypeOK, CallTypes
<1>4. CASE FindQmp(s)
  <2>1. /\ pc[s] = "findQmp" /\ UNCHANGED <<schedQmp, raced, gemOwner>>
        /\ qosOf[s] = "priority_to_queue"
    BY <1>4 DEF FindQmp, At, tables, history, Turn, QueuePcs
  <2>2. CASE pc'[s] = "newQmp"
    <3>1. {q \in QmpIds : qmpMap[q] = Wanted(s)} = {}
      BY <1>0, <1>4, <2>2 DEF FindQmp, Goto
    <3>2. raced \/ schedQmp[Ref(s)] = None
      BY <1>1, <3>1, RefIsOwn
    <3> QED
      BY <1>1, <2>1, <2>2, <3>2 DEF Turn
  <2>3. CASE pc'[s] = "referOld"
    <3>1. schedQmp[Ref(s)] = None /\ \E q \in QmpIds : call' = [call EXCEPT ![s].qmp = q]
      BY <1>0, <1>4, <2>3 DEF FindQmp, Goto
    <3>2. call'[s].qmp \in QmpIds
      BY <1>0, <3>1 DEF CallTypes
    <3> QED
      BY <1>0, <1>1, <2>1, <2>3, <3>1, <3>2 DEF Turn
  <2>4. CASE pc'[s] = "setQueues"
    <3>1. schedQmp[Ref(s)] # None
      BY <1>0, <1>4, <2>4 DEF FindQmp, Goto
    <3> QED
      BY <1>1, <2>1, <2>4, <3>1 DEF Turn
  <2> QED
    BY <1>0, <1>4, <2>2, <2>3, <2>4 DEF FindQmp, Goto
<1>5. ASSUME NEW q \in QmpIds, AllocQmp(s, q)
      PROVE  Turn(s)'
  <2>1. /\ pc[s] = "newQmp" /\ pc'[s] = "referNew" /\ UNCHANGED schedQmp
        /\ call' = [call EXCEPT ![s].qmp = q]
    BY <1>0, <1>5 DEF AllocQmp, At, Goto
  <2>5. raced => raced'
    BY <1>5, Zenon DEF AllocQmp
  <2>2. call'[s].qmp \in QmpIds
    BY <1>0, <2>1 DEF CallTypes
  <2>3. qosOf[s] = "priority_to_queue" /\ (raced \/ schedQmp[Ref(s)] = None)
    BY <2>1 DEF Turn, QueuePcs
  <2>4. schedQmp'[Ref(s)'] = schedQmp[Ref(s)]
    BY <1>1, <2>1
  <2> QED
    BY <1>0, <1>1, <2>1, <2>2, <2>3, <2>4, <2>5 DEF Turn
<1>6. CASE Refer(s)
  <2>1. /\ pc[s] \in {"referOld", "referNew"} /\ UNCHANGED call
        /\ pc'[s] = (IF pc[s] = "referNew" THEN "setQmp" ELSE "setQueues")
        /\ schedQmp' = [schedQmp EXCEPT ![Ref(s)] = IF @ = None THEN call[s].qmp ELSE @]
    BY <1>0, <1>6 DEF Refer, At, Goto
  <2>2. raced => raced'
    BY <1>6, Zenon DEF Refer
  <2>3. /\ qosOf[s] = "priority_to_queue" /\ call[s].qmp # None
        /\ pc[s] = "referNew" => raced \/ schedQmp[Ref(s)] = None
    BY <2>1 DEF Turn, QueuePcs
  <2>4. /\ schedQmp'[Ref(s)] # None
        /\ pc[s] = "referNew" => raced \/ schedQmp'[Ref(s)] = call[s].qmp
    BY <1>0, <1>3, <2>1, <2>3
  <2>5. schedQmp'[Ref(s)'] = schedQmp'[Ref(s)]
    BY <1>1
  <2> QED
    BY <1>1, <2>1, <2>2, <2>3, <2>4, <2>5 DEF Turn
<1>7. CASE BalSetsQmp(s)
  <2>1. pc[s] = "setQmp" /\ pc'[s] = "setQueues" /\ UNCHANGED schedQmp
    BY <1>0, <1>7 DEF BalSetsQmp, At, Goto, tables
  <2>2. schedQmp'[Ref(s)'] # None
    BY <1>1, <2>1 DEF Turn
  <2> QED
    BY <1>1, <2>1, <2>2 DEF Turn
<1>8. CASE ClearQueues(s)
  <2>1. /\ UNCHANGED schedQmp /\ pc'[s] = "freeQmp" /\ qosOf[s] = "priority_to_queue"
        /\ \E v \in BOOLEAN : call' = [call EXCEPT ![s].qmp = schedQmp[Ref(s)], ![s].failed = v]
    <3>1. \E stay : \/ ClearQos(s, stay # {})
                    \/ /\ Goto(s, "freeQmp") /\ qosOf[s] = "priority_to_queue"
                       /\ call' = [call EXCEPT ![s].qmp = schedQmp[Ref(s)], ![s].failed = (stay # {})]
      BY <1>8 DEF ClearQueues
    <3>2. UNCHANGED schedQmp
      BY <1>8 DEF ClearQueues
    <3> QED
      BY <1>0, <3>1, <3>2 DEF ClearQos, Return, Goto
  <2>2. call'[s].qmp = schedQmp[Ref(s)]
    BY <1>0, <2>1 DEF CallTypes
  <2>3. call[s].dir = "upstream" =>
          \A i \in DOMAIN QueuesOf[call[s].tp] : <<s, call[s].tp, i>> \notin gemOwner'
    BY <1>8 DEF ClearQueues, Unmap
  <2>4. schedQmp'[Ref(s)'] = schedQmp[Ref(s)]
    BY <1>1, <2>1
  <2> QED
    BY <1>1, <2>1, <2>2, <2>3, <2>4 DEF Turn
<1>9. CASE FreeQmp(s)
  <2>1. /\ pc[s] = "freeQmp" /\ pc'[s] = "clearQmp" /\ UNCHANGED <<gemOwner, call>>
        /\ schedQmp' = [schedQmp EXCEPT ![Ref(s)] = None]
    BY <1>0, <1>9 DEF FreeQmp, At, Goto, ClearQos, Return
  <2>2. schedQmp'[Ref(s)'] = None
    BY <1>0, <1>1, <1>3, <2>1
  <2>3. /\ qosOf[s] = "priority_to_queue"
        /\ call[s].dir = "upstream" =>
          \A i \in DOMAIN QueuesOf[call[s].tp] : <<s, call[s].tp, i>> \notin gemOwner
    BY <1>1, <2>1 DEF Turn
  <2> QED
    BY <1>1, <2>1, <2>2, <2>3 DEF Turn
<1>10. CASE \/ NoQmpLeft(s) \/ BalRefusesQmp(s) \/ SetQueues(s) \/ BalClearsQmp(s) \/ BalKeepsQmp(s)
  BY <1>0, <1>10 DEF NoQmpLeft, BalRefusesQmp, SetQueues, BalClearsQmp, BalKeepsQmp, ClearQos,
                     Return, Goto
<1> QED
  BY <1>4, <1>5, <1>6, <1>7, <1>8, <1>9, <1>10

LEMMA SchedulersTurn ==
  ASSUME Typed, NEW s \in Subs,
         \/ \E tp \in service[s], id \in SchedIds \cup {None} : CreateSched(s, tp, id)
         \/ \E tp \in service[s] : RemoveSched(s, tp)
         \/ BalSetsSched(s) \/ BalRefusesSched(s)
         \/ BalClearsSched(s) \/ BalKeepsSched(s) \/ FreeSched(s)
  PROVE  Turn(s)'
<1>1. pc'[s] \notin QueuePcs
  BY DEF CreateSched, RemoveSched, BalSetsSched, BalRefusesSched, BalClearsSched, BalKeepsSched,
         FreeSched, Begin, Return, Goto, QueuePcs, Typed, TypeOK
<1> QED
  BY <1>1 DEF Turn

-----------------------------------------------------------------------------
(* The steps of a call, by what they do.                                   *)

Starts(s) ==
  \/ \E tp \in service[s], dir \in Dirs, id \in Scheds : CreateQueues(s, tp, dir, id)
  \/ \E tp \in service[s], dir \in Dirs : RemoveQueues(s, tp, dir)

OnSchedulers(s) ==
  \/ \E tp \in service[s], id \in SchedIds \cup {None} : CreateSched(s, tp, id)
  \/ \E tp \in service[s] : RemoveSched(s, tp)
  \/ BalSetsSched(s) \/ BalRefusesSched(s)
  \/ BalClearsSched(s) \/ BalKeepsSched(s) \/ FreeSched(s)

OnProfiles(s) ==
  \/ FindQmp(s) \/ NoQmpLeft(s) \/ Refer(s) \/ BalSetsQmp(s) \/ BalRefusesQmp(s)
  \/ \E q \in QmpIds : AllocQmp(s, q)

Leaves(s) == ClearQueues(s) \/ FreeQmp(s) \/ BalClearsQmp(s) \/ BalKeepsQmp(s)

LEMMA Steps ==
  ASSUME NEW s \in Subs, Request(s) \/ Continue(s)
  PROVE  Starts(s) \/ OnSchedulers(s) \/ OnProfiles(s) \/ SetQueues(s) \/ Leaves(s)
BY DEF Request, Continue, Starts, OnSchedulers, OnProfiles, Leaves

(* What the subscriber is told, and the QoS type with it.                  *)
LEMMA StartsFacts ==
  ASSUME Typed, NEW s \in Subs, Starts(s)
  PROVE  /\ UNCHANGED <<qmpBits, qmpMap, schedQmp, gemOwner, already, balQmp, balQueue, unmade, kept,
                       stray, raced, ready>>
         /\ pc[s] = "idle" /\ pc'[s] \in QueuePcs \ {"freeQmp", "clearQmp"}
         /\ \E tp \in service[s] : \E dir \in Dirs :
              /\ call'[s].tp = tp /\ call'[s].dir = dir
              /\ told' = [told EXCEPT ![<<<<s, tp>>, dir>>] = "unknown"]
              /\ qosOf' = [qosOf EXCEPT ![s] = Qos(s, Size(tp))]
<1>0. pc \in [Subs -> PCs] /\ call \in [Subs -> CallTypes]
  BY DEF Typed, TypeOK
<1>1. PICK tp \in service[s], dir \in Dirs :
         (\E id : CreateQueues(s, tp, dir, id)) \/ RemoveQueues(s, tp, dir)
  BY DEF Starts
<1>2. PICK id : \/ CreateQueues(s, tp, dir, id)
                \/ RemoveQueues(s, tp, dir) /\ id = Sched(s, tp, dir)
  BY <1>1
<1>3. /\ pc[s] = "idle"
      /\ call' = [call EXCEPT ![s] = [NoCall EXCEPT !.tp = tp, !.dir = dir, !.sched = id]]
      /\ told' = [told EXCEPT ![<<<<s, tp>>, dir>>] = "unknown"]
      /\ qosOf' = [qosOf EXCEPT ![s] = Qos(s, Size(tp))]
      /\ UNCHANGED <<qmpBits, qmpMap, schedQmp, gemOwner, already, balQmp, balQueue, unmade, kept, stray, raced,
                          ready>>
      /\ pc'[s] \in QueuePcs \ {"freeQmp", "clearQmp"}
  BY <1>0, <1>2 DEF CreateQueues, RemoveQueues, Begin, Goto, Sched, At, QueuePcs, device, history
<1>4. call'[s].tp = tp /\ call'[s].dir = dir
  BY <1>0, <1>3 DEF NoCall
<1> QED
  BY <1>3, <1>4

LEMMA OnSchedulersFacts ==
  ASSUME Typed, NEW s \in Subs, OnSchedulers(s)
  PROVE  /\ UNCHANGED <<told, qosOf, qmpBits, qmpMap, schedQmp, gemOwner, balQmp, balQueue>>
         /\ UNCHANGED <<already, unmade, kept, stray, raced>>
         /\ pc[s] \notin QueuePcs /\ pc'[s] \notin QueuePcs
<1>1. /\ UNCHANGED <<told, qosOf, qmpBits, qmpMap, schedQmp, gemOwner, balQmp, balQueue>>
      /\ UNCHANGED <<already, unmade, kept, stray, raced>>
  BY DEF OnSchedulers, CreateSched, RemoveSched, BalSetsSched, BalRefusesSched, BalClearsSched,
         BalKeepsSched, FreeSched, tables, device, client, history
<1>2. pc[s] \notin QueuePcs /\ pc'[s] \notin QueuePcs
  BY DEF OnSchedulers, CreateSched, RemoveSched, BalSetsSched, BalRefusesSched, BalClearsSched,
         BalKeepsSched, FreeSched, At, Begin, Return, Goto, QueuePcs, Typed, TypeOK
<1> QED
  BY <1>1, <1>2

LEMMA OnProfilesFacts ==
  ASSUME Typed, NEW s \in Subs, OnProfiles(s)
  PROVE  /\ UNCHANGED <<told, qosOf, gemOwner, already, balQueue, stray, schedMap, ready>>
         /\ pc[s] \in QueuePcs \ {"setQueues", "clearQueues", "freeQmp", "clearQmp"}
         /\ pc'[s] \notin {"clearQueues", "freeQmp", "clearQmp"}
<1>1. UNCHANGED <<told, qosOf, gemOwner, already, balQueue, stray, schedMap, ready>>
  BY DEF OnProfiles, FindQmp, NoQmpLeft, Refer, BalSetsQmp, BalRefusesQmp, AllocQmp, tables, device,
         client, history
<1>2. /\ pc[s] \in QueuePcs \ {"setQueues", "clearQueues", "freeQmp", "clearQmp"}
      /\ pc'[s] \notin {"clearQueues", "freeQmp", "clearQmp"}
  BY DEF OnProfiles, FindQmp, NoQmpLeft, Refer, BalSetsQmp, BalRefusesQmp, AllocQmp, At, Return,
         Goto, QueuePcs, Typed, TypeOK
<1> QED
  BY <1>1, <1>2

(* A removal goes on, returns an error of BAL, or has cleared everything.  *)
LEMMA LeavesFacts ==
  ASSUME Typed, NEW s \in Subs, Leaves(s)
  PROVE  /\ pc[s] \in {"clearQueues", "freeQmp", "clearQmp"}
         /\ UNCHANGED <<schedMap, ready, already, raced>>
         /\ \A g \in gemOwner' : g \in gemOwner
         /\ \/ UNCHANGED <<told, qosOf>>
            \/ /\ pc'[s] = "idle" /\ qosOf'[s] = None
               /\ \E v \in {"unknown", "gone"} : told' = [told EXCEPT ![Side(s)] = v]
<1>0. pc \in [Subs -> PCs] /\ call \in [Subs -> CallTypes] /\ qosOf \in [Subs -> QosTypes \cup {None}]
  BY DEF Typed, TypeOK
<1>1. pc[s] \in {"clearQueues", "freeQmp", "clearQmp"}
  BY DEF Leaves, ClearQueues, FreeQmp, BalClearsQmp, BalKeepsQmp, At
<1>2. /\ UNCHANGED <<schedMap, ready, already, raced>>
      /\ \A g \in gemOwner' : g \in gemOwner
  BY DEF Leaves, ClearQueues, FreeQmp, BalClearsQmp, BalKeepsQmp, tables, client, Unmap
<1>3. UNCHANGED <<told, qosOf>> \/ \E v : ClearQos(s, v)
  BY DEF Leaves, ClearQueues, FreeQmp, BalClearsQmp, BalKeepsQmp, tables, client
<1>4. ASSUME NEW v, ClearQos(s, v)
      PROVE  /\ pc'[s] = "idle" /\ qosOf'[s] = None
             /\ \E w \in {"unknown", "gone"} : told' = [told EXCEPT ![Side(s)] = w]
  BY <1>0, <1>4 DEF ClearQos, Return, Goto
<1> QED
  BY <1>1, <1>2, <1>3, <1>4

LEMMA SetQueuesReturns ==
  ASSUME Typed, NEW s \in Subs, SetQueues(s)
  PROVE  /\ pc[s] = "setQueues" /\ pc'[s] = "idle"
         /\ UNCHANGED <<schedMap, qmpBits, qmpMap, schedQmp, qosOf, balQmp, ready, unmade, kept, raced>>
         /\ UNCHANGED told \/ told' = [told EXCEPT ![Side(s)] = "made"]
BY DEF SetQueues, At, Return, Goto, Typed, TypeOK

(* The subscriber was told nothing of the queues a call is about.          *)
Asks(s) == pc[s] \in QueuePcs => told[Side(s)] = "unknown"

LEMMA AsksStep ==
  ASSUME Typed, SchedInv, NEW s \in Subs, Request(s) \/ Continue(s), \A t \in Subs : Asks(t)
  PROVE  \A t \in Subs : Asks(t)'
<1>1. ASSUME NEW t \in Subs \ {s}  PROVE Asks(t)'
  <2>1. pc'[t] = pc[t] /\ call'[t] = call[t] /\ Alone(s)
    BY AloneStep DEF Alone
  <2>2. pc[t] \in QueuePcs => told'[Side(t)'] = told[Side(t)]
    BY <2>1 DEF Alone, Side, Key, QueuePcs, Typed, CallInv
  <2> QED
    BY <2>1, <2>2 DEF Asks
<1>2. Asks(s)'
  <2>1. CASE Starts(s)
    <3>1. PICK tp \in service[s], dir \in Dirs :
            /\ call'[s].tp = tp /\ call'[s].dir = dir
            /\ told' = [told EXCEPT ![<<<<s, tp>>, dir>>] = "unknown"]
      BY <2>1, StartsFacts
    <3>2. <<<<s, tp>>, dir>> \in Keys \X Dirs /\ told \in [Keys \X Dirs -> {"made", "gone", "unknown"}]
      BY DEF Typed, TypeOK, Keys
    <3> QED
      BY <3>1, <3>2 DEF Asks, Side, Key
  <2>2. CASE OnSchedulers(s)
    BY <2>2, OnSchedulersFacts DEF Asks
  <2>3. CASE OnProfiles(s) \/ SetQueues(s) \/ Leaves(s)
    <3> SUFFICES ASSUME pc'[s] # "idle" PROVE told'[Side(s)'] = "unknown"
      BY DEF Asks, QueuePcs
    <3>1. /\ pc[s] \in QueuePcs /\ call'[s].tp = call[s].tp /\ call'[s].dir = call[s].dir
      BY <2>3, QueueCallKept DEF OnProfiles, Leaves
    <3>2. UNCHANGED told
      BY <2>3, OnProfilesFacts, SetQueuesReturns, LeavesFacts
    <3> QED
      BY <3>1, <3>2 DEF Asks, Side, Key
  <2> QED
    BY <2>1, <2>2, <2>3, Steps
<1> QED
  BY <1>1, <1>2

(* The GEM ports of queues that are made are mapped.                       *)
Mapped(s) ==
  \A tp \in service[s] : Told(s, tp, "upstream") = "made" =>
    \A i \in DOMAIN QueuesOf[tp] : <<s, tp, i>> \in gemOwner \cup already

LEMMA MappedStep ==
  ASSUME Typed, SchedInv, NEW s \in Subs, Request(s) \/ Continue(s), \A t \in Subs : Asks(t),
         \A t \in Subs : Mapped(t)
  PROVE  \A t \in Subs : Mapped(t)'
<1>0. /\ Alone(s) /\ \A t \in Subs : service[t] \subseteq TechProfiles
      /\ told \in [Keys \X Dirs -> {"made", "gone", "unknown"}]
      /\ \A t \in Subs : \A tp \in TechProfiles : \A dir \in Dirs : <<<<t, tp>>, dir>> \in Keys \X Dirs
      /\ \A tp \in TechProfiles : DOMAIN QueuesOf[tp] = 1 .. Size(tp) /\ Size(tp) \in Nat
  BY AloneStep, TmAssumption DEF Typed, TypeOK, Keys, Size
<1>1. ASSUME NEW t \in Subs \ {s}  PROVE Mapped(t)'
  <2>1. /\ service'[t] = service[t]
        /\ \A tp \in TechProfiles :
             /\ told'[<<<<t, tp>>, "upstream">>] = told[<<<<t, tp>>, "upstream">>]
             /\ \A i : <<t, tp, i>> \in gemOwner' <=> <<t, tp, i>> \in gemOwner
             /\ \A i : <<t, tp, i>> \in already' <=> <<t, tp, i>> \in already
    BY <1>0 DEF Alone, Dirs
  <2> QED
    BY <1>0, <2>1 DEF Mapped, Told
<1>2. Mapped(s)'
  <2> SUFFICES ASSUME NEW tp \in service[s], told'[<<<<s, tp>>, "upstream">>] = "made",
                      NEW i \in DOMAIN QueuesOf[tp]
               PROVE  <<s, tp, i>> \in gemOwner' \cup already'
    BY <1>0 DEF Alone, Mapped, Told
  <2>1. told[<<<<s, tp>>, "upstream">>] = "made" => <<s, tp, i>> \in gemOwner \cup already
    BY DEF Mapped, Told
  <2>2. CASE Starts(s)
    <3>1. PICK p \in service[s], dir \in Dirs :
            told' = [told EXCEPT ![<<<<s, p>>, dir>>] = "unknown"]
      BY <2>2, StartsFacts
    <3>2. told[<<<<s, tp>>, "upstream">>] = "made"
      BY <1>0, <3>1 DEF Dirs
    <3>3. UNCHANGED <<gemOwner, already>>
      BY <2>2, StartsFacts
    <3> QED
      BY <2>1, <3>2, <3>3
  <2>3. CASE OnSchedulers(s) \/ OnProfiles(s)
    BY <2>1, <2>3, OnSchedulersFacts, OnProfilesFacts
  <2>4. CASE SetQueues(s)
    <3>1. pc[s] = "setQueues" /\ told[Side(s)] = "unknown" /\ Side(s) \in Keys \X Dirs
      BY <2>4, SetQueuesReturns, KeyType DEF Asks, QueuePcs, Typed
    <3>2. PICK done \in Int : \E made \in Int : \E dup \in SUBSET (1 .. done) :
            Sets(s, done, made, dup)
      BY <2>4, SetQueuesFacts
    <3>3. PICK made \in Int, dup \in SUBSET (1 .. done) : Sets(s, done, made, dup)
      BY <3>2
    <3>4. CASE Side(s) = <<<<s, tp>>, "upstream">>
      <4>1. call[s].tp = tp /\ call[s].dir = "upstream"
        BY <3>4 DEF Side, Key
      <4>2. done = Size(tp) /\ i \in 1 .. done
        BY <1>0, <3>1, <3>3, <3>4, <4>1 DEF Sets
      <4> QED
        BY <3>3, <4>1, <4>2 DEF Sets
    <3>5. CASE Side(s) # <<<<s, tp>>, "upstream">>
      <4>1. told[<<<<s, tp>>, "upstream">>] = "made"
        BY <1>0, <3>1, <3>3, <3>5 DEF Sets, Dirs
      <4>2. call[s].tp # tp \/ call[s].dir # "upstream"
        BY <3>5 DEF Side, Key
      <4> QED
        BY <2>1, <3>3, <4>1, <4>2 DEF Sets
    <3> QED
      BY <3>4, <3>5
  <2>5. CASE Leaves(s)
    <3>1. /\ pc[s] \in {"clearQueues", "freeQmp", "clearQmp"} /\ already' = already
          /\ UNCHANGED told \/ \E v \in {"unknown", "gone"} : told' = [told EXCEPT ![Side(s)] = v]
      BY <2>5, LeavesFacts
    <3>2. told[Side(s)] = "unknown" /\ Side(s) \in Keys \X Dirs
      BY <3>1, KeyType DEF Asks, QueuePcs, Typed
    <3>3. told[<<<<s, tp>>, "upstream">>] = "made" /\ Side(s) # <<<<s, tp>>, "upstream">>
      BY <1>0, <3>1, <3>2 DEF Dirs
    <3>4. call[s].tp # tp \/ call[s].dir # "upstream"
      BY <3>3 DEF Side, Key
    <3>5. <<s, tp, i>> \in gemOwner => <<s, tp, i>> \in gemOwner'
      BY <2>5, <3>4 DEF Leaves, ClearQueues, FreeQmp, BalClearsQmp, BalKeepsQmp, Unmap, tables
    <3> QED
      BY <2>1, <3>1, <3>3, <3>5
  <2> QED
    BY <2>2, <2>3, <2>4, <2>5, Steps
<1> QED
  BY <1>1, <1>2

(* After CreateTrafficQueues_ returned OK for the upstream,                *)
(* pon_gem_to_onu_uni_map has an entry for each GEM port, which            *)
(* PacketIndication looks up, until the removal, whatever other calls and  *)
(* refusals there are in between; but for queues BAL said it had already.  *)
THEOREM GemPortsMapped == Spec => []GemsAreMapped
<1> DEFINE I == (\A s \in Subs : Asks(s)) /\ \A s \in Subs : Mapped(s)
<1>1. Init => I
  <2> SUFFICES ASSUME Init PROVE I
    OBVIOUS
  <2>1. /\ \A s \in Subs : pc[s] = "idle" /\ service[s] \subseteq TechProfiles
    BY InitTyped DEF Init, Typed, TypeOK
  <2>2. \A s \in Subs : \A tp \in TechProfiles : told[<<<<s, tp>>, "upstream">>] = "gone"
    BY DEF Init, Keys, Dirs
  <2>3. \A s \in Subs : pc[s] \notin QueuePcs
    BY <2>1 DEF QueuePcs
  <2> QED
    BY <2>1, <2>2, <2>3 DEF Asks, Mapped, Told
<1>2. I /\ IInv /\ [Next]_vars => I'
  <2> SUFFICES ASSUME I, IInv, [Next]_vars PROVE I'
    OBVIOUS
  <2>0. Typed /\ SchedInv
    BY DEF IInv, Typed
  <2>1. CASE UNCHANGED vars
    BY <2>1 DEF vars, tables, client, history, Asks, Mapped, Told, Side, Key
  <2>2. ASSUME NEW s \in Subs, Request(s) \/ Continue(s)  PROVE I'
    BY <2>0, <2>2, AsksStep, MappedStep
  <2> QED
    BY <2>1, <2>2 DEF Next
<1>3. I => GemsAreMapped
  BY DEF Mapped, GemsAreMapped, Told
<1> QED
  BY <1>1, <1>2, <1>3, Invariance, PTL DEF Spec

-----------------------------------------------------------------------------
(* What a step leaves as it is.                                            *)

(* The calls of one subscriber are about one tech profile, in a direction. *)
About(s, t, tp, dir) ==
  t = s /\ pc[s] \in QueuePcs /\ tp = call[s].tp /\ dir = call[s].dir

LEMMA ToldElsewhere ==
  ASSUME Typed, SchedInv, NEW s \in Subs, Request(s) \/ Continue(s),
         NEW t \in Subs, NEW tp \in TechProfiles, NEW dir \in Dirs, ~About(s, t, tp, dir)
  PROVE  \/ Told(t, tp, dir)' = Told(t, tp, dir)
         \/ t = s /\ pc[s] = "idle" /\ Told(t, tp, dir)' = "unknown"
<1>0. /\ <<<<t, tp>>, dir>> \in Keys \X Dirs
      /\ told \in [Keys \X Dirs -> {"made", "gone", "unknown"}]
  BY DEF Typed, TypeOK, Keys
<1>1. CASE t # s
  BY <1>1, AloneStep DEF Alone, Told
<1>2. ASSUME Starts(s), t = s
      PROVE  \/ Told(t, tp, dir)' = Told(t, tp, dir)
             \/ pc[s] = "idle" /\ Told(t, tp, dir)' = "unknown"
  <2>1. pc[s] = "idle" /\ \E p \in service[s] : \E d \in Dirs :
          told' = [told EXCEPT ![<<<<s, p>>, d>>] = "unknown"]
    BY <1>2, StartsFacts
  <2>2. PICK p \in service[s], d \in Dirs : told' = [told EXCEPT ![<<<<s, p>>, d>>] = "unknown"]
    BY <2>1
  <2> QED
    BY <1>0, <2>1, <2>2 DEF Told
<1>3. CASE OnSchedulers(s) \/ OnProfiles(s)
  BY <1>3, OnSchedulersFacts, OnProfilesFacts DEF Told
<1>4. CASE t = s /\ (SetQueues(s) \/ Leaves(s))
  <2>1. pc[s] \in QueuePcs
    BY <1>4, SetQueuesReturns, LeavesFacts DEF QueuePcs
  <2>2. UNCHANGED told \/ \E v \in {"made", "unknown", "gone"} : told' = [told EXCEPT ![Side(s)] = v]
    BY <1>4, SetQueuesReturns, LeavesFacts
  <2>3. Side(s) # <<<<t, tp>>, dir>>
    BY <1>4, <2>1 DEF About, Side, Key
  <2> QED
    BY <1>0, <2>2, <2>3 DEF Told
<1> QED
  BY <1>1, <1>2, <1>3, <1>4, Steps

LEMMA SchedStays ==
  ASSUME Typed, SchedInv, NEW s \in Subs, Request(s) \/ Continue(s),
         NEW t \in Subs, Rooted(t), NEW tp \in TechProfiles, NEW dir \in Dirs,
         Told(t, tp, dir) # "gone"
  PROVE  Sched(t, tp, dir)' = Sched(t, tp, dir)
<1>0. <<t, tp>> \in ready /\ <<t, tp>> \in Keys /\ schedMap[<<t, tp>>] # None
  BY ReadyHasSched DEF Rooted, Keys
<1>1. CASE t # s
  BY <1>1, AloneStep DEF Alone, Sched
<1>2. CASE UNCHANGED schedMap
  BY <1>2 DEF Sched
<1>3. ASSUME NEW p \in service[s], NEW id \in SchedIds \cup {None}, CreateSched(s, p, id)
      PROVE  schedMap'[<<t, tp>>] = schedMap[<<t, tp>>]
  <2>1. <<s, p>> \in Keys
    BY DEF Typed, TypeOK, Keys
  <2> QED
    BY <1>0, <1>3, <2>1, GetSchedResult DEF CreateSched, Typed, SchedInv
<1>4. CASE FreeSched(s)
  <2>1. /\ schedMap' = [schedMap EXCEPT ![Key(s)] = None] /\ pc[s] = "freeSched"
        /\ schedMap \in [Keys -> SchedIds \cup {None}]
    BY <1>4 DEF FreeSched, At, Typed, TypeOK
  <2>2. Key(s) \notin ready
    BY <2>1 DEF SchedInv, SchedCallInv
  <2> QED
    BY <1>0, <2>1, <2>2 DEF Sched
<1>5. ASSUME NEW p \in service[s], NEW d \in Dirs, NEW id \in Scheds, CreateQueues(s, p, d, id)
      PROVE  UNCHANGED schedMap
  BY <1>5, CreateQueuesFacts
<1>6. CASE \/ \E p \in service[s] : RemoveSched(s, p)
           \/ \E p \in service[s], d \in Dirs : RemoveQueues(s, p, d)
           \/ BalSetsSched(s) \/ BalRefusesSched(s)
           \/ BalClearsSched(s) \/ BalKeepsSched(s)
           \/ OnProfiles(s) \/ SetQueues(s) \/ Leaves(s)
  <2>1. UNCHANGED schedMap
    BY <1>6, OnProfilesFacts, SetQueuesReturns, LeavesFacts
       DEF RemoveSched, RemoveQueues, BalSetsSched, BalRefusesSched, BalClearsSched, BalKeepsSched, tables
  <2> QED
    BY <1>2, <2>1
<1>7. CASE \E p \in service[s], id \in SchedIds \cup {None} : CreateSched(s, p, id)
  BY <1>3, <1>7 DEF Sched
<1>8. CASE \E p \in service[s], d \in Dirs, id \in Scheds : CreateQueues(s, p, d, id)
  BY <1>2, <1>5, <1>8
<1> QED
  BY <1>4, <1>6, <1>7, <1>8, Steps DEF Starts, OnSchedulers

(* References change in two steps only.                                    *)
LEMMA ReferenceSteps ==
  ASSUME Typed, NEW s \in Subs, Request(s) \/ Continue(s)
  PROVE  UNCHANGED schedQmp \/ Refer(s) \/ FreeQmp(s)
<1>1. CASE OnProfiles(s)
  BY <1>1 DEF OnProfiles, FindQmp, NoQmpLeft, BalSetsQmp, BalRefusesQmp, AllocQmp, tables
<1>2. CASE Leaves(s)
  BY <1>2 DEF Leaves, ClearQueues, BalClearsQmp, BalKeepsQmp, tables
<1>3. CASE Starts(s) \/ OnSchedulers(s) \/ SetQueues(s)
  BY <1>3, StartsFacts, OnSchedulersFacts, SetQueuesReturns
<1> QED
  BY <1>1, <1>2, <1>3, Steps

LEMMA ReferenceStays ==
  ASSUME OneProfile, Typed, SchedInv, RootInv, NEW s \in Subs, Turn(s), Request(s) \/ Continue(s),
         NEW t \in Subs, NEW tp \in service[t], NEW dir \in Dirs, ~About(s, t, tp, dir)
  PROVE  schedQmp'[<<Sched(t, tp, dir), t>>] = schedQmp[<<Sched(t, tp, dir), t>>]
<1> DEFINE id == Sched(t, tp, dir)
<1>0. /\ tp \in TechProfiles /\ id \in Scheds
  BY DEF Typed, TypeOK, Sched, Scheds, Keys
<1>1. CASE t # s
  <2>1. \A i \in Scheds : schedQmp'[<<i, t>>] = schedQmp[<<i, t>>]
    BY <1>1, AloneStep DEF Alone
  <2> QED
    BY <1>0, <2>1
<1>2. CASE UNCHANGED schedQmp
  BY <1>2
<1>3. CASE t = s /\ (Refer(s) \/ FreeQmp(s))
  <2>1. /\ pc[s] \in QueuePcs /\ schedQmp \in [References -> QmpIds \cup {None}]
    BY <1>3 DEF Refer, FreeQmp, At, QueuePcs, Typed, TypeOK
  <2>2. /\ call[s].tp \in service[s] /\ call[s].tp \in TechProfiles /\ call[s].dir \in Dirs
        /\ call[s].sched = Sched(s, call[s].tp, call[s].dir) /\ Rooted(s)
        /\ call[s].sched \in Scheds
    BY <2>1 DEF RootInv, Rooted, QueuePcs, Turn, Typed, TypeOK, CallTypes, CallInv
  <2>3. tp = call[s].tp
    BY <1>3, <2>2, Unique
  <2>4. id # call[s].sched
    BY <1>3, <2>1, <2>2, <2>3, DirsApart DEF About
  <2>5. ASSUME NEW i \in Scheds, i # call[s].sched
        PROVE  schedQmp'[<<i, s>>] = schedQmp[<<i, s>>]
    BY <1>3, <2>1, <2>2, <2>5 DEF Refer, FreeQmp, Ref, References
  <2> QED
    BY <1>0, <1>3, <2>4, <2>5
<1> QED
  BY <1>1, <1>2, <1>3, ReferenceSteps

-----------------------------------------------------------------------------
(* The QoS type; GEM ports of queues that are gone.                        *)

LEMMA MarkedStep ==
  ASSUME OneProfile, Typed, SchedInv, RootInv, NEW s \in Subs, Request(s) \/ Continue(s),
         Turn(s), Marked(s)
  PROVE  Marked(s)'
<1>0. /\ qosOf \in [Subs -> QosTypes \cup {None}] /\ None \notin QosTypes
      /\ service[s] \subseteq TechProfiles /\ service'[s] = service[s]
      /\ told \in [Keys \X Dirs -> {"made", "gone", "unknown"}]
  BY TmAssumption, AloneStep DEF Typed, TypeOK, Alone
<1> SUFFICES ASSUME NEW tp \in service[s]
             PROVE  /\ qosOf'[s] # None => qosOf'[s] = Suited(tp)
                    /\ (\A dir \in Dirs : Told(s, tp, dir)' = "made") => qosOf'[s] # None
  BY <1>0 DEF Marked, Served, Told, Suited, Size
<1>1. /\ qosOf[s] # None => qosOf[s] = Suited(tp)
      /\ (\A dir \in Dirs : Told(s, tp, dir) = "made") => qosOf[s] # None
  BY DEF Marked, Served, Told
<1>2. CASE Starts(s)
  <2>1. \E p \in service[s] : \E dir \in Dirs : qosOf' = [qosOf EXCEPT ![s] = Qos(s, Size(p))]
    BY <1>2, StartsFacts
  <2>2. PICK p \in service[s] : qosOf' = [qosOf EXCEPT ![s] = Qos(s, Size(p))]
    BY <2>1
  <2>3. p = tp
    BY Unique
  <2>4. qosOf'[s] = Qos(s, Size(tp)) /\ Qos(s, Size(tp)) \in QosTypes
    BY <1>0, <2>2, <2>3, QosTyped
  <2> QED
    BY <1>0, <1>1, <2>4 DEF Qos, Suited
<1>3. CASE OnSchedulers(s) \/ OnProfiles(s)
  BY <1>1, <1>3, OnSchedulersFacts, OnProfilesFacts DEF Told
<1>4. CASE SetQueues(s)
  <2>1. UNCHANGED qosOf /\ qosOf[s] # None
    BY <1>4, SetQueuesReturns DEF Turn, QueuePcs
  <2> QED
    BY <1>1, <2>1
<1>5. CASE Leaves(s)
  <2>1. CASE UNCHANGED <<told, qosOf>>
    BY <1>1, <2>1 DEF Told
  <2>2. CASE qosOf'[s] = None /\ \E v \in {"unknown", "gone"} : told' = [told EXCEPT ![Side(s)] = v]
    <3>1. pc[s] \in {"clearQueues", "freeQmp", "clearQmp"}
      BY <1>5, LeavesFacts
    <3>2. /\ Side(s) \in Keys \X Dirs /\ call[s].tp \in service[s] /\ call[s].dir \in Dirs
      BY <3>1, KeyType DEF Typed, CallInv, RootInv, Rooted
    <3>3. call[s].tp = tp
      BY <3>2, Unique
    <3>4. told'[Side(s)] # "made" /\ Side(s) = <<<<s, tp>>, call[s].dir>>
      BY <1>0, <2>2, <3>2, <3>3 DEF Side, Key
    <3> QED
      BY <2>2, <3>2, <3>4 DEF Told
  <2> QED
    BY <1>5, <2>1, <2>2, LeavesFacts
<1> QED
  BY <1>2, <1>3, <1>4, <1>5, Steps

LEMMA GoneStep ==
  ASSUME OneProfile, Typed, SchedInv, RootInv, NEW s \in Subs, Request(s) \/ Continue(s),
         Turn(s), GoneIsUnmapped(s)
  PROVE  GoneIsUnmapped(s)'
<1>0. /\ service[s] \subseteq TechProfiles /\ service'[s] = service[s] /\ "upstream" \in Dirs
      /\ told \in [Keys \X Dirs -> {"made", "gone", "unknown"}]
  BY AloneStep DEF Typed, TypeOK, Alone, Dirs
<1> SUFFICES ASSUME NEW tp \in service[s], Told(s, tp, "upstream")' = "gone",
                    NEW i \in DOMAIN QueuesOf[tp]
             PROVE  <<s, tp, i>> \notin gemOwner'
  BY <1>0 DEF GoneIsUnmapped, Told
<1>1. Told(s, tp, "upstream") = "gone" => <<s, tp, i>> \notin gemOwner
  BY DEF GoneIsUnmapped
<1>2. CASE ~About(s, s, tp, "upstream")
  <2>1. <<s, tp, i>> \notin gemOwner
    BY <1>0, <1>1, <1>2, ToldElsewhere
  <2>2. CASE SetQueues(s)
    <3>1. PICK done \in Int : \E made \in Int : \E dup \in SUBSET (1 .. done) :
            Sets(s, done, made, dup)
      BY <2>2, SetQueuesFacts
    <3>2. PICK made \in Int, dup \in SUBSET (1 .. done) : Sets(s, done, made, dup)
      BY <3>1
    <3>3. call[s].tp # tp \/ call[s].dir # "upstream"
      BY <1>2, <2>2, SetQueuesReturns DEF About, QueuePcs
    <3> QED
      BY <2>1, <3>2, <3>3 DEF Sets
  <2> QED
    BY <2>1, <2>2, Steps, StartsFacts, OnSchedulersFacts, OnProfilesFacts, LeavesFacts
<1>3. CASE About(s, s, tp, "upstream")
  <2>1. /\ pc[s] \in QueuePcs /\ tp = call[s].tp /\ call[s].dir = "upstream"
        /\ told[Side(s)] = "unknown" /\ Side(s) = <<<<s, tp>>, "upstream">>
    BY <1>3 DEF About, Turn, Side, Key
  <2>2. told'[Side(s)] = "gone"
    BY <2>1 DEF Told
  <2>3. Leaves(s) /\ pc'[s] = "idle"
    <3>1. ~(Starts(s) \/ OnSchedulers(s) \/ OnProfiles(s))
      BY <2>1, <2>2, StartsFacts, OnSchedulersFacts, OnProfilesFacts DEF QueuePcs
    <3>2. ~SetQueues(s)
      <4>1. Side(s) \in Keys \X Dirs
        BY <2>1, KeyType DEF Typed, QueuePcs
      <4> QED
        BY <1>0, <2>1, <2>2, <4>1, SetQueuesReturns
    <3> QED
      BY <2>1, <2>2, <3>1, <3>2, Steps, LeavesFacts
  <2>4. CASE ClearQueues(s)
    BY <2>1, <2>4 DEF ClearQueues, Unmap
  <2>5. CASE FreeQmp(s) \/ BalClearsQmp(s) \/ BalKeepsQmp(s)
    <3>1. pc[s] \in {"freeQmp", "clearQmp"} /\ UNCHANGED gemOwner
      BY <2>5 DEF FreeQmp, BalClearsQmp, BalKeepsQmp, At, tables
    <3> QED
      BY <2>1, <3>1 DEF Turn
  <2> QED
    BY <2>3, <2>4, <2>5 DEF Leaves
<1> QED
  BY <1>2, <1>3

-----------------------------------------------------------------------------
(* References.                                                             *)

(* A bit of the QMP ids is set exactly as long as the table has the QMP.   *)
BitsInv == qmpBits = {q \in QmpIds : qmpMap[q] # None}

(* A QMP somebody refers to stays in the table.                            *)
LEMMA ReferredStays ==
  ASSUME Typed, BitsInv, NEW s \in Subs, Request(s) \/ Continue(s),
         NEW r \in References, NEW q \in QmpIds, schedQmp'[r] = q, qmpMap[q] # None
  PROVE  qmpMap'[q] = qmpMap[q]
<1>0. qmpMap \in [QmpIds -> QmpMaps \cup {None}] /\ None \notin QmpIds
  BY TmAssumption DEF Typed, TypeOK, QmpIds
<1>1. CASE UNCHANGED qmpMap
  BY <1>1
<1>2. ASSUME NEW p \in QmpIds, AllocQmp(s, p)
      PROVE  qmpMap'[q] = qmpMap[q]
  <2>1. p \notin qmpBits /\ qmpMap' = [qmpMap EXCEPT ![p] = Wanted(s)]
    BY <1>2 DEF AllocQmp, FirstClear
  <2> QED
    BY <1>0, <2>1 DEF BitsInv
<1>3. CASE FreeQmp(s)
  <2>1. \/ UNCHANGED qmpMap
        \/ ~Referred(call[s].qmp) /\ qmpMap' = [qmpMap EXCEPT ![call[s].qmp] = None]
    BY <1>3 DEF FreeQmp
  <2>2. CASE ~Referred(call[s].qmp) /\ qmpMap' = [qmpMap EXCEPT ![call[s].qmp] = None]
    <3>1. call[s].qmp # q
      BY <1>0, <2>2 DEF Referred
    <3> QED
      BY <1>0, <2>2, <3>1
  <2> QED
    BY <1>1, <2>1, <2>2
<1>4. \/ UNCHANGED qmpMap \/ FreeQmp(s) \/ \E p \in QmpIds : AllocQmp(s, p)
  <2>1. CASE OnProfiles(s)
    BY <2>1 DEF OnProfiles, FindQmp, NoQmpLeft, Refer, BalSetsQmp, BalRefusesQmp, tables
  <2>2. CASE Leaves(s)
    BY <2>2 DEF Leaves, ClearQueues, BalClearsQmp, BalKeepsQmp, tables
  <2> QED
    BY <2>1, <2>2, Steps, StartsFacts, OnSchedulersFacts, SetQueuesReturns
<1> QED
  BY <1>1, <1>2, <1>3, <1>4

LEMMA RefersStep ==
  ASSUME OneProfile, Typed, SchedInv, RootInv, BitsInv, NEW s \in Subs, Request(s) \/ Continue(s),
         Turn(s), Marked(s), NEW t \in Subs, RefersWell(t)
  PROVE  RefersWell(t)'
<1>0. /\ service[t] \subseteq TechProfiles /\ service'[t] = service[t] /\ Rooted(t) /\ (raced => raced')
      /\ schedQmp \in [References -> QmpIds \cup {None}] /\ None \notin QmpIds
      /\ None \notin QmpMaps
      /\ pc \in [Subs -> PCs]
  BY TmAssumption, AloneStep DEF Typed, TypeOK, Alone, RootInv, QmpIds
<1> SUFFICES ASSUME NEW id \in Scheds, schedQmp'[<<id, t>>] # None
             PROVE  \E tp \in service[t] : \E dir \in Dirs :
                      /\ id = Sched(t, tp, dir)' /\ Told(t, tp, dir)' # "gone"
                      /\ Suited(tp) = "priority_to_queue"
                      /\ raced' \/ qmpMap'[schedQmp'[<<id, t>>]] = MapOf[tp][dir]
  BY <1>0 DEF RefersWell, Refers, Suited, Size
<1>1. <<id, t>> \in References
  BY DEF References
<1>2. CASE schedQmp'[<<id, t>>] = schedQmp[<<id, t>>]
  <2>1. PICK tp \in service[t], dir \in Dirs :
          /\ id = Sched(t, tp, dir) /\ Told(t, tp, dir) # "gone"
          /\ Suited(tp) = "priority_to_queue"
          /\ raced \/ qmpMap[schedQmp[<<id, t>>]] = MapOf[tp][dir]
    BY <1>2 DEF RefersWell, Refers
  <2>2. tp \in TechProfiles /\ MapOf[tp][dir] # None
    BY <1>0 DEF QmpMaps
  <2>3. id = Sched(t, tp, dir)'
    BY <2>1, <2>2, <1>0, SchedStays
  <2>4. raced' \/ qmpMap'[schedQmp'[<<id, t>>]] = MapOf[tp][dir]
    BY <1>0, <1>1, <1>2, <2>1, <2>2, ReferredStays
  <2>5. Told(t, tp, dir)' # "gone"
    <3>1. CASE ~About(s, t, tp, dir)
      BY <2>1, <2>2, <3>1, ToldElsewhere
    <3>2. CASE About(s, t, tp, dir)
      <4>1. /\ t = s /\ pc[s] \in QueuePcs /\ tp = call[s].tp /\ dir = call[s].dir
            /\ told[Side(s)] = "unknown" /\ Side(s) = <<<<s, tp>>, dir>>
            /\ call[s].sched = id /\ Ref(s) = <<id, t>>
        BY <2>1, <3>2 DEF About, Turn, Side, Key, Ref
      <4>2. SUFFICES ASSUME told'[Side(s)] = "gone" PROVE FALSE
        BY <4>1 DEF Told
      <4>3. Leaves(s)
        <5>1. Side(s) \in Keys \X Dirs /\ told \in [Keys \X Dirs -> {"made", "gone", "unknown"}]
          BY <4>1, KeyType DEF Typed, TypeOK, QueuePcs
        <5> QED
          BY <4>1, <4>2, <5>1, Steps, StartsFacts, OnSchedulersFacts, OnProfilesFacts, SetQueuesReturns
             DEF QueuePcs
      <4>4. CASE ClearQueues(s)
        <5>1. /\ qosOf[s] # None /\ qosOf[s] = Suited(tp)
          BY <4>1 DEF Turn, Marked
        <5>2. id # None
          BY <2>1, <2>2, ReadyHasSched, TmAssumption
             DEF Sched, Rooted, RootInv, NniSched, DefaultSched, DownstreamStart, UpstreamStart
        <5>3. UNCHANGED told
          BY <2>1, <4>1, <4>4, <5>1, <5>2 DEF ClearQueues
        <5> QED
          BY <4>1, <4>2, <5>3
      <4>5. CASE FreeQmp(s)
        <5>1. schedQmp' = [schedQmp EXCEPT ![Ref(s)] = None]
          BY <4>5 DEF FreeQmp
        <5> QED
          BY <1>0, <1>1, <4>1, <5>1
      <4>6. CASE BalClearsQmp(s) \/ BalKeepsQmp(s)
        <5>1. pc[s] = "clearQmp"
          BY <4>6 DEF BalClearsQmp, BalKeepsQmp, At
        <5> QED
          BY <1>2, <4>1, <5>1 DEF Turn
      <4> QED
        BY <4>3, <4>4, <4>5, <4>6 DEF Leaves
    <3> QED
      BY <3>1, <3>2
  <2> QED
    BY <2>1, <2>3, <2>4, <2>5
<1>3. CASE schedQmp'[<<id, t>>] # schedQmp[<<id, t>>]
  <2>1. t = s /\ Refer(s)
    <3>1. t = s
      BY <1>3, AloneStep DEF Alone
    <3>2. ~FreeQmp(s)
      <4>1. ASSUME FreeQmp(s) PROVE FALSE
        <5>1. schedQmp' = [schedQmp EXCEPT ![Ref(s)] = None]
          BY <4>1 DEF FreeQmp
        <5> QED
          BY <1>0, <1>1, <1>3, <5>1
      <4> QED
        BY <4>1
    <3> QED
      BY <1>3, <3>1, <3>2, ReferenceSteps
  <2>0. PICK tp, dir : tp = call[s].tp /\ dir = call[s].dir
    OBVIOUS
  <2>2. /\ pc[s] \in {"referOld", "referNew"}
        /\ schedQmp' = [schedQmp EXCEPT ![Ref(s)] = IF @ = None THEN call[s].qmp ELSE @]
        /\ raced' = (raced \/ qmpMap[call[s].qmp] # Wanted(s))
        /\ UNCHANGED <<schedMap, qmpMap, told>>
    BY <2>1 DEF Refer, client
  <2>3. /\ tp \in service[s] /\ dir \in Dirs /\ call[s].sched = Sched(s, tp, dir)
        /\ told[Side(s)] = "unknown" /\ qosOf[s] = "priority_to_queue"
    BY <2>0, <2>2 DEF Turn, QueuePcs, RootInv, Rooted, Typed, CallInv
  <2>4. <<id, t>> = Ref(s) /\ schedQmp'[<<id, t>>] = call[s].qmp
    BY <1>0, <1>1, <1>3, <2>2
  <2>5. id = Sched(t, tp, dir)' /\ Told(t, tp, dir)' # "gone"
    <3>1. id = call[s].sched /\ t = s
      BY <2>1, <2>4 DEF Ref
    <3>2. Sched(t, tp, dir)' = Sched(s, tp, dir)
      BY <2>1, <2>2 DEF Sched
    <3>3. Told(t, tp, dir)' = told[Side(s)]
      BY <2>0, <2>1, <2>2 DEF Told, Side, Key
    <3> QED
      BY <2>3, <3>1, <3>2, <3>3
  <2>6. Suited(tp) = "priority_to_queue" /\ tp \in service[t] /\ dir \in Dirs
    BY <1>0, <2>1, <2>3, TmAssumption DEF Marked, QosTypes
  <2>7. raced' \/ qmpMap'[schedQmp'[<<id, t>>]] = MapOf[tp][dir]
    BY <2>0, <2>2, <2>4, Zenon DEF Wanted
  <2> QED
    BY <2>5, <2>6, <2>7, Zenon
<1> QED
  BY <1>2, <1>3

-----------------------------------------------------------------------------
(* Queues.                                                                 *)

(* The keys a call goes through are those of the tech profile's queues.    *)
LEMMA KeysOfCall ==
  ASSUME Typed, RootInv, NEW s \in Subs, Turn(s), Marked(s), pc[s] \in {"setQueues", "clearQueues"}
  PROVE  /\ call[s].tp \in service[s] /\ call[s].tp \in TechProfiles /\ call[s].dir \in Dirs
         /\ call[s].sched = Sched(s, call[s].tp, call[s].dir)
         /\ \A i \in DOMAIN QueuesOf[call[s].tp] :
              QueuesFor(s)[i] = KeyAt(s, call[s].tp, call[s].dir, i)
<1>1. /\ call[s].tp \in service[s] /\ call[s].tp \in TechProfiles /\ call[s].dir \in Dirs
      /\ call[s].sched = Sched(s, call[s].tp, call[s].dir) /\ qosOf[s] # None
  BY DEF Typed, CallInv, RootInv, Rooted, Turn, QueuePcs
<1>2. qosOf[s] = Suited(call[s].tp)
  BY <1>1 DEF Marked
<1> QED
  BY <1>1, <1>2 DEF QueuesFor, KeyAt

(* The keys of a tech profile's queues change by its own calls only.       *)
LEMMA KeyStays ==
  ASSUME OneProfile, Typed, SchedInv, RootInv, NEW s \in Subs, Turn(s), Request(s) \/ Continue(s),
         NEW t \in Subs, NEW tp \in service[t], NEW dir \in Dirs, ~About(s, t, tp, dir),
         Told(t, tp, dir) # "gone"
  PROVE  /\ Sched(t, tp, dir)' = Sched(t, tp, dir)
         /\ Refers(t, Sched(t, tp, dir))' = Refers(t, Sched(t, tp, dir))
         /\ \A i : KeyAt(t, tp, dir, i)' = KeyAt(t, tp, dir, i)
<1>1. tp \in TechProfiles /\ Rooted(t)
  BY DEF Typed, TypeOK, RootInv
<1>2. Sched(t, tp, dir)' = Sched(t, tp, dir)
  BY <1>1, SchedStays
<1>3. schedQmp'[<<Sched(t, tp, dir), t>>] = schedQmp[<<Sched(t, tp, dir), t>>]
  BY ReferenceStays
<1>4. Refers(t, Sched(t, tp, dir))' = Refers(t, Sched(t, tp, dir))
  BY <1>2, <1>3 DEF Refers
<1>5. ASSUME NEW i PROVE KeyAt(t, tp, dir, i)' = KeyAt(t, tp, dir, i)
  BY <1>2, <1>3 DEF KeyAt, SetOf, Suited, Size, QueueKey
<1> QED
  BY <1>2, <1>4, <1>5

(* BAL loses queues of the caller's scheduler only.                        *)
LEMMA QueuesLost ==
  ASSUME Typed, NEW s \in Subs, Request(s) \/ Continue(s), NEW b \in balQueue \ balQueue'
  PROVE  /\ ClearQueues(s) /\ call[s].dir = "downstream"
         /\ call[s].sched # None /\ b[1] = call[s].sched
<1>1. CASE ClearQueues(s)
  <2> DEFINE keys == QueuesFor(s)
             here == call[s].dir = "downstream" /\ call[s].sched # None
  <2>1. \E stay : balQueue' = balQueue \ (IF here THEN {keys[i] : i \in DOMAIN keys \ stay} ELSE {})
    BY <1>1 DEF ClearQueues
  <2>2. here /\ \E i \in DOMAIN keys : b = keys[i]
    BY <2>1
  <2>3. PICK i \in DOMAIN QueuesOf[call[s].tp] : b = QueuesFor(s)[i]
    BY <2>2 DEF QueuesFor
  <2>4. b[1] = call[s].sched
    BY <2>3 DEF QueuesFor, QueueKey
  <2> QED
    BY <1>1, <2>2, <2>4
<1>2. CASE OnProfiles(s) \/ Starts(s) \/ OnSchedulers(s)
  BY <1>2, OnProfilesFacts, StartsFacts, OnSchedulersFacts
<1>3. CASE SetQueues(s)
  BY <1>3, SetQueuesFacts DEF Sets
<1>4. CASE FreeQmp(s) \/ BalClearsQmp(s) \/ BalKeepsQmp(s)
  BY <1>4 DEF FreeQmp, BalClearsQmp, BalKeepsQmp, device
<1> QED
  BY <1>1, <1>2, <1>3, <1>4, Steps DEF Leaves

(* Schedulers of subscribers are theirs alone.                             *)
LEMMA SchedApart ==
  ASSUME Typed, SchedInv, RootInv, NEW s \in Subs, NEW tp \in TechProfiles, schedMap[<<s, tp>>] # None,
         NEW t \in Subs, NEW p \in TechProfiles, NEW dir \in Dirs,
         Sched(t, p, dir) = schedMap[<<s, tp>>]
  PROVE  t = s /\ p = tp /\ dir = "downstream"
<1>1. schedMap[<<s, tp>>] # NniSched /\ <<s, tp>> \in Keys /\ <<t, p>> \in Keys
  BY DEF RootInv, Rooted, Keys
<1>2. dir = "downstream" /\ schedMap[<<t, p>>] = schedMap[<<s, tp>>]
  BY <1>1 DEF Sched, Dirs
<1>3. <<t, p>> = <<s, tp>>
  BY <1>1, <1>2 DEF SchedInv, SchedIdsExclusive
<1> QED
  BY <1>2, <1>3

LEMMA MadeStep ==
  ASSUME OneProfile, Typed, SchedInv, RootInv, NEW s \in Subs, Request(s) \/ Continue(s),
         Turn(s), Marked(s), NEW t \in Subs, MadeIsThere(t)
  PROVE  MadeIsThere(t)'
<1>0. service'[t] = service[t] /\ service[t] \subseteq TechProfiles
  BY AloneStep DEF Alone, Typed, TypeOK
<1> SUFFICES ASSUME NEW tp \in service[t], NEW dir \in Dirs, Told(t, tp, dir)' = "made"
             PROVE  /\ \A i \in DOMAIN QueuesOf[tp] : KeyAt(t, tp, dir, i)' \in balQueue'
                    /\ Suited(tp) = "priority_to_queue" => Refers(t, Sched(t, tp, dir))' # None
  BY <1>0 DEF MadeIsThere, Suited, Size
<1>1. CASE ~About(s, t, tp, dir)
  <2>1. Told(t, tp, dir) = "made" /\ tp \in TechProfiles
    BY <1>0, <1>1, ToldElsewhere
  <2>2. /\ \A i : KeyAt(t, tp, dir, i)' = KeyAt(t, tp, dir, i)
        /\ Refers(t, Sched(t, tp, dir))' = Refers(t, Sched(t, tp, dir))
    BY <1>1, <2>1, KeyStays
  <2>3. ASSUME NEW i \in DOMAIN QueuesOf[tp], KeyAt(t, tp, dir, i) \notin balQueue'  PROVE FALSE
    <3>1. KeyAt(t, tp, dir, i) \in balQueue
      BY <2>1 DEF MadeIsThere
    <3>2. /\ ClearQueues(s) /\ call[s].dir = "downstream"
          /\ call[s].sched # None /\ KeyAt(t, tp, dir, i)[1] = call[s].sched
      BY <2>3, <3>1, QueuesLost
    <3>3. pc[s] = "clearQueues"
      BY <3>2 DEF ClearQueues, At
    <3>4. /\ call[s].tp \in TechProfiles /\ call[s].sched = schedMap[<<s, call[s].tp>>]
      BY <3>2, <3>3, KeysOfCall DEF Sched
    <3>5. Sched(t, tp, dir) = schedMap[<<s, call[s].tp>>]
      BY <3>2, <3>4 DEF KeyAt, QueueKey
    <3>6. t = s /\ tp = call[s].tp /\ dir = "downstream"
      BY <2>1, <3>2, <3>4, <3>5, SchedApart
    <3> QED
      BY <1>1, <3>2, <3>3, <3>6 DEF About, QueuePcs
  <2> QED
    BY <2>1, <2>2, <2>3 DEF MadeIsThere
<1>2. CASE About(s, t, tp, dir)
  <2>1. /\ t = s /\ pc[s] \in QueuePcs /\ tp = call[s].tp /\ dir = call[s].dir
        /\ told[Side(s)] = "unknown" /\ Side(s) = <<<<s, tp>>, dir>>
        /\ Side(s) \in Keys \X Dirs /\ told \in [Keys \X Dirs -> {"made", "gone", "unknown"}]
    BY <1>2, KeyType DEF About, Turn, Side, Key, QueuePcs, Typed, TypeOK
  <2>2. SetQueues(s)
    BY <2>1, Steps, StartsFacts, OnSchedulersFacts, OnProfilesFacts, LeavesFacts DEF Told, QueuePcs
  <2>3. pc[s] = "setQueues" /\ UNCHANGED <<schedMap, schedQmp>>
    BY <2>2, SetQueuesReturns
  <2>4. \A i : KeyAt(s, tp, dir, i)' = KeyAt(s, tp, dir, i)
    BY <2>3 DEF KeyAt, SetOf, Suited, Size, QueueKey, Sched
  <2>5. PICK done \in 0 .. Size(tp), made \in 0 .. Size(tp) : \E dup \in SUBSET (1 .. done) :
          Sets(s, done, made, dup)
    BY <2>1, <2>2, SetQueuesFacts
  <2>6. done = Size(tp) /\ made \in {done, done + 1} /\ balQueue' = balQueue \cup Made(s, made)
    BY <2>1, <2>5 DEF Sets, Told
  <2>7. Size(tp) \in Nat /\ DOMAIN QueuesOf[tp] = 1 .. Size(tp)
    BY <1>0, TmAssumption DEF Size
  <2>8. ASSUME NEW i \in DOMAIN QueuesOf[tp]  PROVE KeyAt(s, tp, dir, i) \in balQueue'
    <3>1. KeyAt(s, tp, dir, i) = QueuesFor(s)[i]
      BY <2>1, <2>3, KeysOfCall
    <3>2. i \in 1 .. made
      BY <2>6, <2>7
    <3> QED
      BY <2>6, <3>1, <3>2 DEF Made
  <2>9. Suited(tp) = "priority_to_queue" => schedQmp[<<Sched(s, tp, dir), s>>] # None
    <3>1. qosOf[s] = Suited(tp) /\ call[s].sched = Sched(s, tp, dir)
      BY <2>1, <2>3, KeysOfCall DEF Turn, Marked, QueuePcs
    <3> QED
      BY <2>3, <3>1 DEF Turn, QueuePcs, Ref
  <2>10. Refers(s, Sched(s, tp, dir))' = schedQmp[<<Sched(s, tp, dir), s>>]
    BY <2>3 DEF Refers, Sched
  <2> QED
    BY <2>1, <2>4, <2>8, <2>9, <2>10
<1> QED
  BY <1>1, <1>2

(* What a queue counts from: a call of SetQueues.                          *)
LEMMA QueuesGained ==
  ASSUME Typed, NEW s \in Subs, Request(s) \/ Continue(s), NEW b \in balQueue' \ stray',
         b \notin balQueue \ stray
  PROVE  SetQueues(s) /\ \E i \in DOMAIN QueuesOf[call[s].tp] : b = QueuesFor(s)[i]
<1>1. CASE SetQueues(s)
  <2>1. PICK done \in 0 .. Size(call[s].tp), made \in 0 .. Size(call[s].tp) :
          \E dup \in SUBSET (1 .. done) : Sets(s, done, made, dup)
    BY <1>1, SetQueuesFacts
  <2>2. PICK i \in 1 .. made : b = QueuesFor(s)[i]
    BY <2>1 DEF Sets, Made
  <2>3. DOMAIN QueuesOf[call[s].tp] = 1 .. Size(call[s].tp) /\ Size(call[s].tp) \in Nat
    <3>1. pc[s] # "idle"
      BY <1>1 DEF SetQueues, At
    <3> QED
      BY <3>1, TmAssumption DEF Typed, CallInv, Size
  <2>4. i \in DOMAIN QueuesOf[call[s].tp]
    BY <2>1, <2>3
  <2> QED
    BY <1>1, <2>2, <2>4
<1>2. CASE ClearQueues(s)
  <2> DEFINE keys == QueuesFor(s)
             here == call[s].dir = "downstream" /\ call[s].sched # None
  <2>1. \E stay :
          LET gone == IF here THEN {keys[i] : i \in DOMAIN keys \ stay} ELSE {} IN
          balQueue' = balQueue \ gone /\ stray' = (stray \ gone) \cup {keys[i] : i \in stay}
    BY <1>2 DEF ClearQueues
  <2> QED
    BY <2>1
<1>3. CASE OnProfiles(s) \/ Starts(s) \/ OnSchedulers(s)
  BY <1>3, OnProfilesFacts, StartsFacts, OnSchedulersFacts
<1>4. CASE FreeQmp(s) \/ BalClearsQmp(s) \/ BalKeepsQmp(s)
  BY <1>4 DEF FreeQmp, BalClearsQmp, BalKeepsQmp, device, history
<1> QED
  BY <1>1, <1>2, <1>3, <1>4, Steps DEF Leaves

(* A removal that has gone through its queues leaves none that counts.     *)
LEMMA ClearedAll ==
  ASSUME NEW s \in Subs, ClearQueues(s), call[s].dir = "downstream", call[s].sched # None,
         NEW i \in DOMAIN QueuesFor(s)
  PROVE  QueuesFor(s)[i] \notin balQueue' \ stray'
<1> DEFINE keys == QueuesFor(s)
<1>1. \E stay \in SUBSET DOMAIN keys :
        LET gone == {keys[j] : j \in DOMAIN keys \ stay} IN
        balQueue' = balQueue \ gone /\ stray' = (stray \ gone) \cup {keys[j] : j \in stay}
  BY DEF ClearQueues
<1> HIDE DEF keys
<1>2. i \in DOMAIN keys
  BY DEF keys
<1>3. keys[i] \notin balQueue' \ stray'
  BY <1>1, <1>2
<1> QED
  BY <1>3 DEF keys

LEMMA LeavingBegins ==
  ASSUME Typed, NEW s \in Subs, Request(s) \/ Continue(s), pc'[s] \in {"freeQmp", "clearQmp"}
  PROVE  /\ pc[s] \in QueuePcs /\ Leaves(s)
         /\ call'[s].tp = call[s].tp /\ call'[s].dir = call[s].dir
<1>1. Leaves(s)
  BY Steps, StartsFacts, OnSchedulersFacts, OnProfilesFacts, SetQueuesReturns DEF QueuePcs
<1> QED
  BY <1>1, QueueCallKept DEF Leaves

LEMMA OwnersStep ==
  ASSUME OneProfile, Typed, SchedInv, RootInv, NEW s \in Subs, Request(s) \/ Continue(s),
         Turn(s), Marked(s), QueuesHaveOwners
  PROVE  QueuesHaveOwners'
<1> DEFINE down == "downstream"
<1>0. \A t \in Subs : service'[t] = service[t] /\ service[t] \subseteq TechProfiles
  BY AloneStep DEF Alone, Typed, TypeOK
<1> SUFFICES ASSUME NEW b \in balQueue' \ stray', b[1] # NniSched
             PROVE  /\ b[3] # None
                    /\ \E t \in Subs : \E tp \in service[t] : \E i \in DOMAIN QueuesOf[tp] :
                         /\ b = KeyAt(t, tp, down, i)'
                         /\ Told(t, tp, down)' # "gone" /\ ~Leaving(t, down)'
  BY <1>0 DEF QueuesHaveOwners
<1>1. CASE b \in balQueue \ stray
  <2>0. PICK t \in Subs : \E tp \in service[t] : \E i \in DOMAIN QueuesOf[tp] :
          b = KeyAt(t, tp, down, i) /\ Told(t, tp, down) # "gone" /\ ~Leaving(t, down)
    BY <1>1 DEF QueuesHaveOwners
  <2>5. PICK tp \in service[t] : \E i \in DOMAIN QueuesOf[tp] :
          b = KeyAt(t, tp, down, i) /\ Told(t, tp, down) # "gone" /\ ~Leaving(t, down)
    BY <2>0
  <2>1. PICK i \in DOMAIN QueuesOf[tp] :
          b = KeyAt(t, tp, down, i) /\ Told(t, tp, down) # "gone" /\ ~Leaving(t, down)
    BY <2>5
  <2>2. b[3] # None /\ tp \in TechProfiles /\ Rooted(t) /\ down \in Dirs
    BY <1>0, <1>1 DEF QueuesHaveOwners, RootInv, Dirs
  <2>3. CASE ~About(s, t, tp, down)
    <3>1. b = KeyAt(t, tp, down, i)'
      BY <2>1, <2>2, <2>3, KeyStays
    <3>2. Told(t, tp, down)' # "gone"
      BY <2>1, <2>2, <2>3, ToldElsewhere
    <3>3. ~Leaving(t, down)'
      <4>1. CASE t # s
        BY <2>1, <4>1, AloneStep DEF Alone, Leaving
      <4>2. CASE t = s
        <5>1. SUFFICES ASSUME Leaving(s, down)' PROVE FALSE
          BY <4>2
        <5>2. pc[s] \in QueuePcs /\ call[s].dir = down
          BY <5>1, LeavingBegins DEF Leaving
        <5>3. call[s].tp = tp
          BY <2>1, <4>2, <5>2, Unique DEF RootInv, Rooted, QueuePcs
        <5> QED
          BY <2>3, <4>2, <5>2, <5>3 DEF About
      <4> QED
        BY <4>1, <4>2
    <3> QED
      BY <2>2, <3>1, <3>2, <3>3
  <2>4. CASE About(s, t, tp, down)
    <3>1. /\ t = s /\ pc[s] \in QueuePcs \ {"freeQmp", "clearQmp"} /\ tp = call[s].tp
          /\ call[s].dir = down /\ told[Side(s)] = "unknown" /\ Side(s) = <<<<s, tp>>, down>>
          /\ Side(s) \in Keys \X Dirs /\ told \in [Keys \X Dirs -> {"made", "gone", "unknown"}]
          /\ call[s].sched = Sched(s, tp, down) /\ Ref(s) = <<Sched(s, tp, down), s>>
      BY <2>1, <2>4, KeyType DEF About, Leaving, Turn, Side, Key, QueuePcs, Typed, TypeOK, Ref
    <3>2. ~ClearQueues(s)
      <4>1. SUFFICES ASSUME ClearQueues(s) PROVE FALSE
        OBVIOUS
      <4>2. pc[s] = "clearQueues" /\ b = QueuesFor(s)[i] /\ i \in DOMAIN QueuesFor(s)
        BY <2>1, <3>1, <4>1, KeysOfCall DEF ClearQueues, At, QueuesFor
      <4>3. call[s].sched # None
        BY <2>1, <2>2, <3>1, ReadyHasSched DEF Rooted, Sched
      <4> QED
        BY <3>1, <4>1, <4>2, <4>3, ClearedAll
    <3>3. OnProfiles(s) \/ SetQueues(s)
      BY <3>1, <3>2, Steps, StartsFacts, OnSchedulersFacts DEF QueuePcs, Leaves, FreeQmp,
         BalClearsQmp, BalKeepsQmp, At
    <3>4. /\ UNCHANGED told \/ told' = [told EXCEPT ![Side(s)] = "made"]
          /\ pc'[s] \notin {"freeQmp", "clearQmp"} /\ UNCHANGED schedMap
      BY <3>3, OnProfilesFacts, SetQueuesReturns
    <3>5. Told(s, tp, down)' # "gone" /\ ~Leaving(s, down)'
      BY <3>1, <3>4 DEF Told, Leaving
    <3>6. b = KeyAt(s, tp, down, i)'
      <4>1. Sched(s, tp, down)' = Sched(s, tp, down)
        BY <3>4 DEF Sched
      <4>2. CASE UNCHANGED schedQmp
        BY <2>1, <3>1, <4>1, <4>2 DEF KeyAt, SetOf, Suited, Size, QueueKey
      <4>3. CASE Suited(tp) = "fixed_queue"
        BY <2>1, <3>1, <4>1, <4>3 DEF KeyAt, SetOf, Suited, Size, QueueKey
      <4>4. CASE Refer(s) /\ Suited(tp) # "fixed_queue"
        <5>1. b[3] = schedQmp[Ref(s)]
          BY <2>1, <3>1, <4>4 DEF KeyAt, SetOf, QueueKey
        <5>2. schedQmp'[Ref(s)] = schedQmp[Ref(s)]
          BY <2>2, <4>4, <5>1 DEF Refer, Typed, TypeOK
        <5> QED
          BY <2>1, <3>1, <4>1, <5>2 DEF KeyAt, SetOf, Suited, Size, QueueKey
      <4>5. ~FreeQmp(s)
        BY <3>1 DEF FreeQmp, At
      <4> QED
        BY <4>2, <4>3, <4>4, <4>5, ReferenceSteps
    <3> QED
      BY <2>1, <2>2, <3>1, <3>5, <3>6
  <2> QED
    BY <2>3, <2>4
<1>2. CASE b \notin balQueue \ stray
  <2>1. PICK i \in DOMAIN QueuesOf[call[s].tp] : SetQueues(s) /\ b = QueuesFor(s)[i]
    BY <1>2, QueuesGained
  <2>2. PICK tp : tp = call[s].tp
    OBVIOUS
  <2>3. /\ pc[s] = "setQueues" /\ pc'[s] = "idle" /\ UNCHANGED <<schedMap, schedQmp>>
        /\ UNCHANGED told \/ told' = [told EXCEPT ![Side(s)] = "made"]
    BY <2>1, SetQueuesReturns
  <2>4. /\ tp \in service[s] /\ tp \in TechProfiles /\ call[s].sched = Sched(s, tp, call[s].dir)
        /\ call[s].dir \in Dirs /\ b = KeyAt(s, tp, call[s].dir, i)
        /\ qosOf[s] = Suited(tp)
    BY <2>1, <2>2, <2>3, KeysOfCall DEF Marked, Turn, QueuePcs
  <2>5. call[s].dir = down
    BY <2>4 DEF KeyAt, QueueKey, Sched, Dirs
  <2>6. b[3] # None
    <3>1. Suited(tp) = "priority_to_queue" => schedQmp[<<Sched(s, tp, down), s>>] # None
      BY <2>3, <2>4, <2>5 DEF Turn, QueuePcs, Ref
    <3>2. NotUse # None
      BY TmAssumption DEF NotUse
    <3> QED
      BY <2>4, <2>5, <3>1, <3>2 DEF KeyAt, QueueKey, SetOf, Suited
  <2>7. b = KeyAt(s, tp, down, i)'
    BY <2>3, <2>4, <2>5 DEF KeyAt, SetOf, Suited, Size, QueueKey, Sched
  <2>8. Told(s, tp, down)' # "gone" /\ ~Leaving(s, down)'
    <3>1. told[Side(s)] = "unknown" /\ Side(s) = <<<<s, tp>>, down>> /\ Side(s) \in Keys \X Dirs
      BY <2>2, <2>3, <2>5, KeyType DEF Turn, QueuePcs, Side, Key, Typed
    <3> QED
      BY <2>3, <3>1 DEF Told, Leaving, Typed, TypeOK
  <2> QED
    BY <2>1, <2>2, <2>4, <2>6, <2>7, <2>8
<1> QED
  BY <1>1, <1>2

-----------------------------------------------------------------------------
(* QMP ids.                                                                *)

QmpTaken ==
  raced \/ \A q \in qmpBits :
             \/ \E r \in References : schedQmp[r] = q
             \/ \E s \in Subs : pc[s] = "referNew" /\ call[s].qmp = q

QmpAccepted == raced \/ \A q \in qmpBits \ unmade : balQmp[q] = qmpMap[q]

QmpCleared ==
  raced \/ \A q \in QmpIds \ qmpBits : balQmp[q] # None => q \in kept \/ BeingCleared(q)

QmpInv == BitsInv /\ QmpTaken /\ QmpAccepted /\ QmpCleared /\ ClearedIsFree

(* The steps on QMPs.                                                      *)
OnIds(s) ==
  \/ \E q \in QmpIds : AllocQmp(s, q)
  \/ Refer(s) \/ BalSetsQmp(s) \/ FreeQmp(s) \/ BalClearsQmp(s) \/ BalKeepsQmp(s)

LEMMA OtherSteps ==
  ASSUME Typed, NEW s \in Subs, Request(s) \/ Continue(s), ~OnIds(s)
  PROVE  /\ UNCHANGED <<qmpBits, qmpMap, schedQmp, balQmp, unmade, kept, raced>>
         /\ pc[s] \notin {"referNew", "clearQmp"} /\ pc'[s] \notin {"referNew", "clearQmp"}
<1>0. pc \in [Subs -> PCs]
  BY DEF Typed, TypeOK
<1>1. CASE Starts(s)
  <2>1. \E tp, dir, id : CreateQueues(s, tp, dir, id) \/ RemoveQueues(s, tp, dir)
    BY <1>1 DEF Starts
  <2>2. pc[s] = "idle" /\ pc'[s] \in {"findQmp", "setQueues", "clearQueues"}
    BY <1>0, <2>1 DEF CreateQueues, RemoveQueues, At, Begin, Goto
  <2> QED
    BY <1>1, <2>2, StartsFacts
<1>2. CASE OnSchedulers(s)
  BY <1>2, OnSchedulersFacts DEF QueuePcs
<1>3. CASE FindQmp(s) \/ NoQmpLeft(s) \/ BalRefusesQmp(s) \/ SetQueues(s) \/ ClearQueues(s)
  <2>1. UNCHANGED <<qmpBits, qmpMap, schedQmp, balQmp, unmade, kept, raced>>
    BY <1>3 DEF FindQmp, NoQmpLeft, BalRefusesQmp, SetQueues, ClearQueues, tables, device, history
  <2>2. pc[s] \in {"findQmp", "newQmp", "setQmp", "setQueues", "clearQueues"}
    BY <1>3 DEF FindQmp, NoQmpLeft, BalRefusesQmp, SetQueues, ClearQueues, At
  <2>3. pc'[s] \in {"idle", "newQmp", "referOld", "setQueues", "freeQmp"}
    <3>1. CASE ClearQueues(s)
      <4>1. \E v : ClearQos(s, v) \/ Goto(s, "freeQmp")
        BY <3>1 DEF ClearQueues
      <4> QED
        BY <1>0, <4>1 DEF ClearQos, Return, Goto
    <3> QED
      BY <1>0, <1>3, <3>1 DEF FindQmp, NoQmpLeft, BalRefusesQmp, SetQueues, Return, Goto
  <2> QED
    BY <2>1, <2>2, <2>3
<1> QED
  BY <1>1, <1>2, <1>3, Steps DEF OnIds, OnProfiles, Leaves

LEMMA OthersWait ==
  ASSUME Typed, SchedInv, NEW s \in Subs, Request(s) \/ Continue(s), NEW t \in Subs \ {s}
  PROVE  pc'[t] = pc[t] /\ call'[t] = call[t]
BY AloneStep DEF Alone

LEMMA BitsStep ==
  ASSUME Typed, BitsInv, NEW s \in Subs, Request(s) \/ Continue(s)
  PROVE  BitsInv'
<1>0. qmpMap \in [QmpIds -> QmpMaps \cup {None}] /\ None \notin QmpMaps /\ qmpBits \subseteq QmpIds
  BY TmAssumption DEF Typed, TypeOK
<1>1. CASE UNCHANGED <<qmpBits, qmpMap>>
  BY <1>1 DEF BitsInv
<1>2. ASSUME NEW q \in QmpIds, AllocQmp(s, q)
      PROVE  BitsInv'
  <2>1. Wanted(s) \in QmpMaps
    BY <1>2, KeyType DEF AllocQmp, At, Typed
  <2> QED
    BY <1>0, <1>2, <2>1 DEF AllocQmp, BitsInv
<1>3. CASE FreeQmp(s)
  <2>1. \/ UNCHANGED <<qmpBits, qmpMap>>
        \/ /\ qmpMap[call[s].qmp] # None /\ call[s].qmp # None
           /\ qmpBits' = qmpBits \ {call[s].qmp}
           /\ qmpMap' = [qmpMap EXCEPT ![call[s].qmp] = None]
    BY <1>3 DEF FreeQmp
  <2> QED
    BY <1>0, <2>1 DEF BitsInv
<1>4. CASE Refer(s) \/ BalSetsQmp(s) \/ BalClearsQmp(s) \/ BalKeepsQmp(s)
  BY <1>1, <1>4 DEF Refer, BalSetsQmp, BalClearsQmp, BalKeepsQmp, tables
<1> QED
  BY <1>1, <1>2, <1>3, <1>4, OtherSteps DEF OnIds

(* What the step of a call on a QMP id finds.                              *)
LEMMA OwnQmp ==
  ASSUME OneProfile, Typed, RootInv, BitsInv, NEW s \in Subs, Turn(s), RefersWell(s),
         pc[s] = "setQmp", ~raced
  PROVE  /\ call[s].qmp \in qmpBits /\ qmpMap[call[s].qmp] = Wanted(s)
<1>1. /\ pc[s] \in QueuePcs /\ schedQmp[Ref(s)] # None /\ schedQmp[Ref(s)] = call[s].qmp
  BY DEF Turn, QueuePcs
<1>2. call[s].qmp \in QmpIds /\ qmpMap[call[s].qmp] = Wanted(s)
  BY <1>1, RefIsOwn
<1>3. Wanted(s) # None
  BY KeyType, TmAssumption DEF Typed
<1> QED
  BY <1>2, <1>3 DEF BitsInv

LEMMA Unraced ==
  ASSUME Typed, SchedInv, NEW s \in Subs, Request(s) \/ Continue(s), ~raced'
  PROVE  ~raced
BY AloneStep DEF Alone

LEMMA FreeFacts ==
  ASSUME Typed, NEW s \in Subs, Turn(s), FreeQmp(s)
  PROVE  /\ Ref(s) \in References /\ schedQmp[Ref(s)] = call[s].qmp
         /\ schedQmp' = [schedQmp EXCEPT ![Ref(s)] = None]
         /\ UNCHANGED <<balQmp, kept, raced>>
         /\ pc[s] = "freeQmp"
         /\ \/ Referred(call[s].qmp) /\ UNCHANGED <<qmpBits, qmpMap, unmade>>
            \/ /\ call[s].qmp # None /\ qmpMap[call[s].qmp] # None
               /\ qmpBits' = qmpBits \ {call[s].qmp}
               /\ qmpMap' = [qmpMap EXCEPT ![call[s].qmp] = None]
               /\ unmade' = unmade \ {call[s].qmp}
               /\ pc'[s] = "clearQmp" /\ call' = call
            \/ /\ call[s].qmp = None \/ qmpMap[call[s].qmp] = None
               /\ UNCHANGED <<qmpBits, qmpMap, unmade>>
         /\ pc'[s] = "clearQmp" => call'[s] = call[s] /\ ~Referred(call[s].qmp)
<1>0. pc \in [Subs -> PCs] /\ call \in [Subs -> CallTypes]
  BY DEF Typed, TypeOK
<1>1. /\ pc[s] = "freeQmp" /\ schedQmp' = [schedQmp EXCEPT ![Ref(s)] = None]
      /\ UNCHANGED <<balQmp, kept, raced>>
  BY DEF FreeQmp, At, device
<1>2. Ref(s) \in References
  BY <1>0 DEF Ref, References, CallTypes
<1>3. schedQmp[Ref(s)] = call[s].qmp
  BY <1>1 DEF Turn, QueuePcs
<1>4. ASSUME NEW v, ClearQos(s, v)  PROVE pc'[s] = "idle"
  BY <1>0, <1>4 DEF ClearQos, Return, Goto
<1>5. CASE Referred(call[s].qmp) /\ ClearQos(s, call[s].failed) /\ UNCHANGED <<qmpBits, qmpMap, unmade>>
  BY <1>1, <1>2, <1>3, <1>4, <1>5
<1>6. CASE /\ ~Referred(call[s].qmp) /\ call[s].qmp # None /\ qmpMap[call[s].qmp] # None
           /\ qmpBits' = qmpBits \ {call[s].qmp} /\ qmpMap' = [qmpMap EXCEPT ![call[s].qmp] = None]
           /\ unmade' = unmade \ {call[s].qmp}
           /\ Goto(s, "clearQmp") /\ UNCHANGED call
  BY <1>0, <1>1, <1>2, <1>3, <1>6 DEF Goto
<1>7. CASE /\ ~Referred(call[s].qmp) /\ ~(call[s].qmp # None /\ qmpMap[call[s].qmp] # None)
           /\ (Goto(s, "clearQmp") /\ UNCHANGED call) \/ ClearQos(s, call[s].failed)
           /\ UNCHANGED <<qmpBits, qmpMap, unmade>>
  BY <1>0, <1>1, <1>2, <1>3, <1>4, <1>7 DEF Goto
<1> QED
  BY <1>5, <1>6, <1>7 DEF FreeQmp

LEMMA AllocFacts ==
  ASSUME Typed, NEW s \in Subs, NEW q \in QmpIds, AllocQmp(s, q), ~raced'
  PROVE  /\ q \notin qmpBits /\ qmpBits' = qmpBits \cup {q}
         /\ qmpMap' = [qmpMap EXCEPT ![q] = Wanted(s)] /\ unmade' = unmade \cup {q}
         /\ pc[s] = "newQmp" /\ pc'[s] = "referNew" /\ call'[s].qmp = q
         /\ UNCHANGED <<schedQmp, balQmp, kept>> /\ ~BeingCleared(q)
<1>0. pc \in [Subs -> PCs] /\ call \in [Subs -> CallTypes]
  BY DEF Typed, TypeOK
<1>1. ~BeingCleared(q)
  BY Zenon DEF AllocQmp
<1>2. call'[s].qmp = q
  BY <1>0 DEF AllocQmp, CallTypes
<1> QED
  BY <1>0, <1>1, <1>2 DEF AllocQmp, FirstClear, At, Goto, device

LEMMA ReferFacts ==
  ASSUME Typed, NEW s \in Subs, Turn(s), Refer(s), ~raced
  PROVE  /\ UNCHANGED <<qmpBits, qmpMap, balQmp, unmade, kept>>
         /\ pc[s] \in {"referOld", "referNew"} /\ pc'[s] \in {"setQmp", "setQueues"}
         /\ \A r \in References : schedQmp[r] # None => schedQmp'[r] = schedQmp[r]
         /\ Ref(s) \in References
         /\ pc[s] = "referNew" => schedQmp'[Ref(s)] = call[s].qmp
<1>0. /\ pc \in [Subs -> PCs] /\ call \in [Subs -> CallTypes]
      /\ schedQmp \in [References -> QmpIds \cup {None}]
  BY DEF Typed, TypeOK
<1>1. /\ UNCHANGED <<qmpBits, qmpMap, balQmp, unmade, kept>>
      /\ pc[s] \in {"referOld", "referNew"} /\ pc'[s] \in {"setQmp", "setQueues"}
      /\ schedQmp' = [schedQmp EXCEPT ![Ref(s)] = IF @ = None THEN call[s].qmp ELSE @]
  BY <1>0 DEF Refer, Goto, device
<1>2. Ref(s) \in References
  BY <1>0 DEF Ref, References, CallTypes
<1>3. pc[s] = "referNew" => schedQmp[Ref(s)] = None
  BY DEF Turn, QueuePcs
<1> QED
  BY <1>0, <1>1, <1>2, <1>3

LEMMA BalQmpFacts ==
  ASSUME Typed, NEW s \in Subs, BalSetsQmp(s) \/ BalClearsQmp(s) \/ BalKeepsQmp(s)
  PROVE  /\ UNCHANGED <<qmpBits, qmpMap, schedQmp, raced>>
         /\ pc[s] \in {"setQmp", "clearQmp"} /\ pc'[s] \notin {"referNew", "clearQmp"}
         /\ \/ /\ BalSetsQmp(s) /\ pc[s] = "setQmp"
               /\ balQmp' = [balQmp EXCEPT ![call[s].qmp] = Wanted(s)]
               /\ unmade' = unmade \ {call[s].qmp} /\ kept' = kept \ {call[s].qmp}
            \/ /\ BalClearsQmp(s) /\ pc[s] = "clearQmp"
               /\ balQmp' = IF call[s].qmp = None THEN balQmp
                            ELSE [balQmp EXCEPT ![call[s].qmp] = None]
               /\ kept' = kept \ {call[s].qmp} /\ UNCHANGED unmade
            \/ /\ BalKeepsQmp(s) /\ pc[s] = "clearQmp"
               /\ kept' = kept \cup ({call[s].qmp} \ {None}) /\ UNCHANGED <<balQmp, unmade>>
<1>0. pc \in [Subs -> PCs]
  BY DEF Typed, TypeOK
<1>1. CASE BalSetsQmp(s)
  BY <1>0, <1>1 DEF BalSetsQmp, At, Goto, tables
<1>2. CASE BalClearsQmp(s)
  BY <1>0, <1>2 DEF BalClearsQmp, At, ClearQos, Return, Goto
<1>3. CASE BalKeepsQmp(s)
  BY <1>0, <1>3 DEF BalKeepsQmp, At, Return, Goto, tables, device
<1> QED
  BY <1>1, <1>2, <1>3

LEMMA TakenStep ==
  ASSUME Typed, SchedInv, BitsInv, NEW s \in Subs, Request(s) \/ Continue(s), Turn(s), QmpTaken
  PROVE  QmpTaken'
<1> SUFFICES ASSUME ~raced', NEW q \in qmpBits'
             PROVE  \/ \E r \in References : schedQmp'[r] = q
                    \/ \E t \in Subs : pc'[t] = "referNew" /\ call'[t].qmp = q
  BY DEF QmpTaken
<1>0. /\ ~raced /\ schedQmp \in [References -> QmpIds \cup {None}] /\ None \notin QmpIds
      /\ qmpBits \subseteq QmpIds
  BY Unraced, TmAssumption DEF Typed, TypeOK, QmpIds
<1>1. \A t \in Subs \ {s} : pc'[t] = pc[t] /\ call'[t] = call[t]
  BY OthersWait
<1>2. CASE ~OnIds(s)
  <2>1. /\ UNCHANGED <<qmpBits, schedQmp>> /\ pc[s] # "referNew"
    BY <1>2, OtherSteps
  <2> QED
    BY <1>0, <1>1, <2>1 DEF QmpTaken
<1>3. ASSUME NEW p \in QmpIds, AllocQmp(s, p)
      PROVE  \/ \E r \in References : schedQmp'[r] = q
             \/ \E t \in Subs : pc'[t] = "referNew" /\ call'[t].qmp = q
  <2>1. /\ qmpBits' = qmpBits \cup {p} /\ UNCHANGED schedQmp /\ pc[s] = "newQmp"
        /\ pc'[s] = "referNew" /\ call'[s].qmp = p
    BY <1>3, AllocFacts
  <2> QED
    BY <1>0, <1>1, <2>1 DEF QmpTaken
<1>4. CASE Refer(s)
  <2>1. /\ UNCHANGED qmpBits
        /\ \A r \in References : schedQmp[r] # None => schedQmp'[r] = schedQmp[r]
        /\ Ref(s) \in References
        /\ pc[s] = "referNew" => schedQmp'[Ref(s)] = call[s].qmp
    BY <1>0, <1>4, ReferFacts
  <2> QED
    BY <1>0, <1>1, <2>1 DEF QmpTaken
<1>5. CASE FreeQmp(s)
  <2>1. q \in qmpBits /\ pc[s] = "freeQmp" /\ q \in QmpIds
    BY <1>0, <1>5, FreeFacts
  <2>2. CASE q = call[s].qmp
    <3>1. qmpMap[q] # None
      BY <2>1 DEF BitsInv
    <3>2. Referred(q)
      BY <1>0, <1>5, <2>1, <2>2, <3>1, FreeFacts
    <3> QED
      BY <3>2 DEF Referred
  <2>3. CASE q # call[s].qmp
    <3>1. \A r \in References : schedQmp[r] = q => schedQmp'[r] = q
      BY <1>0, <1>5, <2>3, FreeFacts
    <3> QED
      BY <1>0, <1>1, <2>1, <3>1 DEF QmpTaken
  <2> QED
    BY <2>2, <2>3
<1>6. CASE BalSetsQmp(s) \/ BalClearsQmp(s) \/ BalKeepsQmp(s)
  <2>1. UNCHANGED <<qmpBits, schedQmp>> /\ pc[s] # "referNew"
    BY <1>6, BalQmpFacts
  <2> QED
    BY <1>0, <1>1, <2>1 DEF QmpTaken
<1> QED
  BY <1>2, <1>3, <1>4, <1>5, <1>6 DEF OnIds

LEMMA AcceptedStep ==
  ASSUME OneProfile, Typed, SchedInv, RootInv, BitsInv, NEW s \in Subs, Request(s) \/ Continue(s),
         Turn(s), RefersWell(s), ClearedIsFree, QmpAccepted
  PROVE  QmpAccepted'
<1> SUFFICES ASSUME ~raced', NEW q \in qmpBits' \ unmade'
             PROVE  balQmp'[q] = qmpMap'[q]
  BY DEF QmpAccepted
<1>0. /\ ~raced /\ qmpBits \subseteq QmpIds /\ qmpMap \in [QmpIds -> QmpMaps \cup {None}]
      /\ balQmp \in [QmpIds -> QmpMaps \cup {None}]
  BY Unraced DEF Typed, TypeOK
<1>1. q \in qmpBits \ unmade => balQmp[q] = qmpMap[q]
  BY <1>0 DEF QmpAccepted
<1>2. CASE ~OnIds(s)
  BY <1>1, <1>2, OtherSteps
<1>3. ASSUME NEW p \in QmpIds, AllocQmp(s, p)
      PROVE  balQmp'[q] = qmpMap'[q]
  BY <1>0, <1>1, <1>3, AllocFacts
<1>4. CASE Refer(s)
  BY <1>0, <1>1, <1>4, ReferFacts
<1>5. CASE FreeQmp(s)
  BY <1>0, <1>1, <1>5, FreeFacts
<1>6. CASE BalSetsQmp(s) /\ pc[s] = "setQmp"
  <2>1. call[s].qmp \in qmpBits /\ qmpMap[call[s].qmp] = Wanted(s)
    BY <1>0, <1>6, OwnQmp
  <2>2. /\ UNCHANGED <<qmpBits, qmpMap>> /\ balQmp' = [balQmp EXCEPT ![call[s].qmp] = Wanted(s)]
        /\ unmade' = unmade \ {call[s].qmp}
    BY <1>6, BalQmpFacts
  <2> QED
    BY <1>0, <1>1, <2>1, <2>2
<1>7. CASE BalClearsQmp(s) /\ pc[s] = "clearQmp"
  <2>1. call[s].qmp \notin qmpBits
    BY <1>0, <1>7 DEF ClearedIsFree
  <2> QED
    BY <1>0, <1>1, <1>7, <2>1, BalQmpFacts
<1>8. CASE UNCHANGED <<balQmp, unmade, qmpBits, qmpMap>>
  BY <1>1, <1>8
<1> QED
  BY <1>2, <1>3, <1>4, <1>5, <1>6, <1>7, <1>8, BalQmpFacts DEF OnIds

LEMMA FreeStep ==
  ASSUME Typed, SchedInv, BitsInv, NEW s \in Subs, Request(s) \/ Continue(s), Turn(s), ClearedIsFree
  PROVE  ClearedIsFree'
<1> SUFFICES ASSUME ~raced', NEW t \in Subs, pc'[t] = "clearQmp"
             PROVE  call'[t].qmp \notin qmpBits'
  BY DEF ClearedIsFree
<1>0. /\ ~raced /\ qmpBits \subseteq QmpIds /\ None \notin QmpIds
  BY Unraced, TmAssumption DEF Typed, TypeOK, QmpIds
<1>1. t # s => pc[t] = "clearQmp" /\ call'[t] = call[t] /\ call[t].qmp \notin qmpBits
  BY <1>0, OthersWait DEF ClearedIsFree
<1>2. CASE ~OnIds(s)
  BY <1>1, <1>2, OtherSteps
<1>3. ASSUME NEW p \in QmpIds, AllocQmp(s, p)
      PROVE  call'[t].qmp \notin qmpBits'
  <2>1. qmpBits' = qmpBits \cup {p} /\ pc'[s] = "referNew" /\ ~BeingCleared(p)
    BY <1>3, AllocFacts
  <2>2. t # s /\ pc[t] = "clearQmp" /\ call'[t] = call[t] /\ call[t].qmp \notin qmpBits
    BY <1>1, <2>1
  <2> QED
    BY <2>1, <2>2 DEF BeingCleared, At
<1>4. CASE Refer(s)
  BY <1>0, <1>1, <1>4, ReferFacts
<1>5. CASE FreeQmp(s)
  <2>1. CASE t = s
    <3>1. call'[s].qmp = call[s].qmp /\ ~Referred(call[s].qmp)
      BY <1>5, <2>1, FreeFacts
    <3>2. call[s].qmp \in qmpBits => call[s].qmp # None /\ qmpMap[call[s].qmp] # None
      BY <1>0 DEF BitsInv
    <3> QED
      BY <1>5, <2>1, <3>1, <3>2, FreeFacts
  <2>2. CASE t # s
    BY <1>1, <1>5, <2>2, FreeFacts
  <2> QED
    BY <2>1, <2>2
<1>6. CASE BalSetsQmp(s) \/ BalClearsQmp(s) \/ BalKeepsQmp(s)
  BY <1>1, <1>6, BalQmpFacts
<1> QED
  BY <1>2, <1>3, <1>4, <1>5, <1>6 DEF OnIds

LEMMA ClearedStep ==
  ASSUME OneProfile, Typed, SchedInv, RootInv, BitsInv, NEW s \in Subs, Request(s) \/ Continue(s),
         Turn(s), RefersWell(s), QmpCleared
  PROVE  QmpCleared'
<1> SUFFICES ASSUME ~raced', NEW q \in QmpIds \ qmpBits', balQmp'[q] # None, q \notin kept'
             PROVE  \E t \in Subs : pc'[t] = "clearQmp" /\ call'[t].qmp = q
  BY DEF QmpCleared, BeingCleared, At
<1>0. /\ ~raced /\ balQmp \in [QmpIds -> QmpMaps \cup {None}] /\ None \notin QmpIds
  BY Unraced, TmAssumption DEF Typed, TypeOK, QmpIds
<1>1. q \notin qmpBits /\ balQmp[q] # None /\ q \notin kept =>
        \E t \in Subs : pc[t] = "clearQmp" /\ call[t].qmp = q
  BY <1>0 DEF QmpCleared, BeingCleared, At
<1>9. \A t \in Subs \ {s} : pc'[t] = pc[t] /\ call'[t] = call[t]
  BY OthersWait
<1>2. CASE ~OnIds(s)
  BY <1>1, <1>2, <1>9, OtherSteps
<1>3. ASSUME NEW p \in QmpIds, AllocQmp(s, p)
      PROVE  \E t \in Subs : pc'[t] = "clearQmp" /\ call'[t].qmp = q
  BY <1>1, <1>3, <1>9, AllocFacts
<1>4. CASE Refer(s)
  BY <1>0, <1>1, <1>4, <1>9, ReferFacts
<1>5. CASE FreeQmp(s)
  <2>1. CASE q \in qmpBits
    BY <1>5, <2>1, FreeFacts
  <2>2. CASE q \notin qmpBits
    BY <1>1, <1>5, <1>9, <2>2, FreeFacts
  <2> QED
    BY <2>1, <2>2
<1>6. CASE BalSetsQmp(s) /\ pc[s] = "setQmp"
  <2>1. call[s].qmp \in qmpBits
    BY <1>0, <1>6, OwnQmp
  <2>2. q # call[s].qmp /\ balQmp'[q] = balQmp[q] /\ q \notin kept /\ q \notin qmpBits
    BY <1>0, <1>6, <2>1, BalQmpFacts
  <2> QED
    BY <1>1, <1>6, <1>9, <2>2
<1>7. CASE BalClearsQmp(s) /\ pc[s] = "clearQmp"
  <2>1. q # call[s].qmp /\ balQmp'[q] = balQmp[q] /\ q \notin kept /\ q \notin qmpBits
    BY <1>0, <1>7, BalQmpFacts
  <2> QED
    BY <1>1, <1>9, <2>1
<1>8. CASE BalKeepsQmp(s) /\ pc[s] = "clearQmp"
  <2>1. q # call[s].qmp /\ balQmp'[q] = balQmp[q] /\ q \notin kept /\ q \notin qmpBits
    BY <1>0, <1>8, BalQmpFacts
  <2> QED
    BY <1>1, <1>9, <2>1
<1> QED
  BY <1>2, <1>3, <1>4, <1>5, <1>6, <1>7, <1>8, BalQmpFacts DEF OnIds

-----------------------------------------------------------------------------
(* The inductive invariant of queues and profiles.                         *)
QueueInv ==
  /\ RootInv /\ QmpInv /\ QueuesHaveOwners
  /\ \A s \in Subs : /\ Turn(s) /\ Marked(s) /\ RefersWell(s)
                     /\ MadeIsThere(s) /\ GoneIsUnmapped(s)

LEMMA InitQueues == Init => QueueInv
<1> SUFFICES ASSUME Init PROVE QueueInv
  OBVIOUS
<1>0. /\ Typed /\ service \in Services /\ \A s \in Subs : service[s] \subseteq TechProfiles
      /\ \A s \in Subs : pc[s] = "idle" /\ qosOf[s] = None
      /\ \A k \in Keys : schedMap[k] = None
      /\ \A k \in Keys, dir \in Dirs : told[<<k, dir>>] = "gone"
      /\ \A r \in References : schedQmp[r] = None
      /\ \A q \in QmpIds : qmpMap[q] = None /\ balQmp[q] = None
      /\ qmpBits = {} /\ gemOwner = {} /\ balQueue = {<<NniSched, n, NotUse>> : n \in 0 .. 3}
  BY InitTyped DEF Init, Typed, TypeOK
<1>1. \A s \in Subs : \A tp \in TechProfiles :
        schedMap[<<s, tp>>] = None /\ \A dir \in Dirs : Told(s, tp, dir) = "gone"
  BY <1>0 DEF Keys, Told
<1>2. RootInv
  BY <1>0, <1>1 DEF RootInv, Rooted
<1>3. QmpInv
  BY <1>0 DEF QmpInv, BitsInv, QmpTaken, QmpAccepted, QmpCleared, ClearedIsFree
<1>4. QueuesHaveOwners
  BY <1>0 DEF QueuesHaveOwners
<1>5. ASSUME NEW s \in Subs
      PROVE  /\ Turn(s) /\ Marked(s) /\ RefersWell(s) /\ MadeIsThere(s) /\ GoneIsUnmapped(s)
  <2>1. Turn(s)
    BY <1>0 DEF Turn, QueuePcs
  <2>2. Marked(s)
    BY <1>0, <1>1 DEF Marked, Served, Told, Dirs
  <2>3. RefersWell(s)
    BY <1>0 DEF RefersWell, Refers, References
  <2>4. MadeIsThere(s) /\ GoneIsUnmapped(s)
    BY <1>0, <1>1 DEF MadeIsThere, GoneIsUnmapped, Dirs
  <2> QED
    BY <2>1, <2>2, <2>3, <2>4
<1> QED
  BY <1>2, <1>3, <1>4, <1>5 DEF QueueInv

LEMMA RootStep ==
  ASSUME OneProfile, FewSubs, Typed, SchedInv, RootInv, NEW s \in Subs, Request(s) \/ Continue(s), Turn(s)
  PROVE  RootInv'
<1>1. Alone(s) /\ service' = service
  BY AloneStep DEF Alone
<1>2. \A t \in Subs : Rooted(t) /\ service[t] \subseteq TechProfiles
  BY DEF RootInv, Typed, TypeOK
<1>3. \A t \in Subs \ {s} : Rooted(t)'
  BY <1>1, <1>2, AloneRooted
<1>4. Rooted(s)'
  <2>1. CASE OnSchedulers(s)
    BY <2>1, SchedulersRooted DEF OnSchedulers
  <2>2. CASE Starts(s) \/ OnProfiles(s) \/ SetQueues(s) \/ Leaves(s)
    BY <2>2, QueuesRooted DEF Starts, OnProfiles, Leaves
  <2> QED
    BY <2>1, <2>2, Steps
<1> QED
  BY <1>1, <1>3, <1>4 DEF RootInv

LEMMA TurnStep ==
  ASSUME OneProfile, Typed, SchedInv, RootInv, NEW s \in Subs, Request(s) \/ Continue(s),
         Turn(s), RefersWell(s), NEW t \in Subs, Turn(t)
  PROVE  Turn(t)'
<1>1. CASE t # s
  BY <1>1, AloneStep, AloneTurn
<1>2. Turn(s)'
  <2>1. CASE OnSchedulers(s)
    BY <2>1, SchedulersTurn DEF OnSchedulers
  <2>2. CASE Starts(s)
    BY <2>2, StartTurn DEF Starts
  <2>3. CASE OnProfiles(s) \/ SetQueues(s) \/ Leaves(s)
    BY <2>3, ContinueTurn DEF OnProfiles, Leaves
  <2> QED
    BY <2>1, <2>2, <2>3, Steps
<1> QED
  BY <1>1, <1>2

LEMMA QueueStep ==
  ASSUME OneProfile, FewSubs, Typed, SchedInv, QueueInv, [Next]_vars
  PROVE  QueueInv'
<1>1. ASSUME NEW s \in Subs, Request(s) \/ Continue(s)
      PROVE  QueueInv'
  <2>0. /\ RootInv /\ BitsInv /\ QmpTaken /\ QmpAccepted /\ QmpCleared /\ ClearedIsFree
        /\ QueuesHaveOwners /\ Turn(s) /\ Marked(s) /\ RefersWell(s) /\ Alone(s)
        /\ \A t \in Subs : service[t] \subseteq TechProfiles
    BY <1>1, AloneStep DEF QueueInv, QmpInv, Typed, TypeOK
  <2>1. RootInv'
    BY <1>1, <2>0, RootStep
  <2>2. QmpInv'
    BY <1>1, <2>0, BitsStep, TakenStep, AcceptedStep, ClearedStep, FreeStep DEF QmpInv
  <2>3. QueuesHaveOwners'
    BY <1>1, <2>0, OwnersStep
  <2>4. ASSUME NEW t \in Subs
        PROVE  /\ Turn(t)' /\ Marked(t)' /\ RefersWell(t)' /\ MadeIsThere(t)' /\ GoneIsUnmapped(t)'
    <3>0. /\ Turn(t) /\ Marked(t) /\ RefersWell(t) /\ MadeIsThere(t) /\ GoneIsUnmapped(t)
      BY DEF QueueInv
    <3>1. Turn(t)'
      BY <1>1, <2>0, <3>0, TurnStep
    <3>2. Marked(t)' /\ GoneIsUnmapped(t)'
      <4>1. CASE t # s
        BY <2>0, <3>0, <4>1, AloneMarked, AloneGone
      <4>2. Marked(s)'
        BY <1>1, <2>0, MarkedStep
      <4>3. CASE t = s
        BY <1>1, <2>0, <3>0, <4>2, <4>3, GoneStep
      <4> QED
        BY <4>1, <4>3
    <3>3. RefersWell(t)'
      BY <1>1, <2>0, <3>0, RefersStep
    <3>4. MadeIsThere(t)'
      BY <1>1, <2>0, <3>0, MadeStep
    <3> QED
      BY <3>1, <3>2, <3>3, <3>4
  <2> QED
    BY <2>1, <2>2, <2>3, <2>4 DEF QueueInv
<1>2. CASE UNCHANGED vars
  <2>0. /\ UNCHANGED <<schedMap, qmpBits, qmpMap, schedQmp, qosOf, gemOwner, balQmp, balQueue>>
        /\ UNCHANGED <<pc, call, service, ready, told, unmade, kept, stray, raced>>
    BY <1>2 DEF vars, tables, device, client, history
  <2>1. RootInv' /\ QmpInv'
    BY <2>0 DEF QueueInv, RootInv, Rooted, Told, QmpInv, BitsInv, QmpTaken, QmpAccepted, QmpCleared,
       BeingCleared, At, ClearedIsFree
  <2>2. QueuesHaveOwners'
    <3>1. \A s, tp, i : KeyAt(s, tp, "downstream", i)' = KeyAt(s, tp, "downstream", i)
      BY <2>0 DEF KeyAt, QueueKey, SetOf, Suited, Size, Sched
    <3> QED
      BY <2>0, <3>1 DEF QueueInv, QueuesHaveOwners, Told, Leaving
  <2>3. ASSUME NEW s \in Subs
        PROVE  /\ Turn(s)' /\ Marked(s)' /\ RefersWell(s)' /\ MadeIsThere(s)' /\ GoneIsUnmapped(s)'
    <3>1. \A tp, dir : \A i : KeyAt(s, tp, dir, i)' = KeyAt(s, tp, dir, i)
      BY <2>0 DEF KeyAt, QueueKey, SetOf, Suited, Size, Sched
    <3>2. \A tp, dir : Told(s, tp, dir)' = Told(s, tp, dir) /\ Sched(s, tp, dir)' = Sched(s, tp, dir)
      BY <2>0 DEF Told, Sched
    <3>3. \A id : Refers(s, id)' = Refers(s, id)
      BY <2>0 DEF Refers
    <3>4. Turn(s)' /\ Marked(s)'
      BY <2>0, <3>2 DEF QueueInv, Turn, Side, Key, Ref, Marked, Served, Suited, Size
    <3>5. RefersWell(s)'
      BY <2>0, <3>2, <3>3 DEF QueueInv, RefersWell, Suited, Size
    <3>6. MadeIsThere(s)' /\ GoneIsUnmapped(s)'
      <4>1. \A tp, dir : Refers(s, Sched(s, tp, dir))' = Refers(s, Sched(s, tp, dir))
        BY <2>0 DEF Refers, Sched
      <4> QED
        BY <2>0, <3>1, <3>2, <4>1 DEF QueueInv, MadeIsThere, GoneIsUnmapped, Suited, Size
    <3> QED
      BY <3>4, <3>5, <3>6
  <2> QED
    BY <2>1, <2>2, <2>3 DEF QueueInv
<1> QED
  BY <1>1, <1>2 DEF Next

LEMMA QueuesInvariant ==
  ASSUME OneProfile, FewSubs
  PROVE  Spec => [](IInv /\ QueueInv)
<1>1. Init => QueueInv
  BY InitQueues
<1>2. IInv /\ QueueInv /\ [Next]_vars => QueueInv'
  BY QueueStep DEF IInv, Typed
<1> QED
  BY <1>1, <1>2, Invariance, PTL DEF Spec

(* The tables keep the few QMP ids in order through every interleaving of  *)
(* get_tm_qmp_id, update_sched_qmp_id_map and free_tm_qmp_id and every     *)
(* refusal of BAL: none leaks, and BAL has what they say, unless two calls *)
(* raced for a QMP.                                                        *)
THEOREM QmpIdsKept ==
  ASSUME OneProfile, FewSubs
  PROVE  Spec => []QmpIdsAccounted
<1>1. QueueInv => QmpIdsAccounted
  <2> SUFFICES ASSUME QueueInv PROVE QmpIdsAccounted
    OBVIOUS
  <2>1. BitsInv /\ QmpTaken /\ QmpAccepted /\ QmpCleared
    BY DEF QueueInv, QmpInv
  <2>2. qmpBits = {q \in QmpIds : qmpMap[q] # None}
    BY <2>1 DEF BitsInv
  <2>3. CASE raced
    BY <2>2, <2>3, Zenon DEF QmpIdsAccounted
  <2>4. CASE ~raced
    <3>1. \A q \in QmpIds :
            /\ q \in qmpBits =>
                 \/ \E r \in References : schedQmp[r] = q
                 \/ \E s \in Subs : pc[s] = "referNew" /\ call[s].qmp = q
            /\ q \in qmpBits \ unmade => balQmp[q] = qmpMap[q]
            /\ q \notin qmpBits /\ balQmp[q] # None => q \in kept \/ BeingCleared(q)
      BY <2>1, <2>4 DEF QmpTaken, QmpAccepted, QmpCleared
    <3> QED
      BY <2>2, <3>1, Zenon DEF QmpIdsAccounted, At
  <2> QED
    BY <2>3, <2>4
<1> QED
  BY <1>1, QueuesInvariant, PTL

(* After RemoveTrafficQueues_ returned OK no queue is left on the          *)
(* scheduler, but those BAL kept, no reference to a QMP, and no GEM port   *)
(* in pon_gem_to_onu_uni_map, whatever other subscribers do meanwhile.     *)
THEOREM RemovedIsGone ==
  ASSUME OneProfile, FewSubs
  PROVE  Spec => []GoneMeansGone
<1>1. IInv /\ QueueInv => GoneMeansGone
  <2> SUFFICES ASSUME IInv, QueueInv, NEW s \in Subs, NEW tp \in service[s], NEW dir \in Dirs,
                      Told(s, tp, dir) = "gone"
               PROVE  /\ schedQmp[<<Sched(s, tp, dir), s>>] = None
                      /\ dir = "upstream" =>
                           \A i \in DOMAIN QueuesOf[tp] : <<s, tp, i>> \notin gemOwner
                      /\ dir = "downstream" =>
                           \A b \in balQueue \ stray :
                             Sched(s, tp, dir) # None => b[1] # Sched(s, tp, dir)
    BY DEF GoneMeansGone, Told, Sched
  <2>0. /\ Typed /\ SchedInv /\ RootInv /\ Rooted(s) /\ tp \in TechProfiles
        /\ RefersWell(s) /\ GoneIsUnmapped(s) /\ QueuesHaveOwners
        /\ \A t \in Subs : service[t] \subseteq TechProfiles
    BY DEF IInv, Typed, TypeOK, QueueInv, RootInv
  <2>1. ASSUME schedQmp[<<Sched(s, tp, dir), s>>] # None  PROVE FALSE
    <3>1. Sched(s, tp, dir) \in Scheds
      BY <2>0 DEF Typed, TypeOK, Sched, Scheds, Keys
    <3>2. PICK p \in service[s], d \in Dirs :
            Sched(s, tp, dir) = Sched(s, p, d) /\ Told(s, p, d) # "gone"
      BY <2>0, <2>1, <3>1 DEF RefersWell, Refers
    <3>3. p = tp
      BY <2>0, Unique
    <3> QED
      BY <2>0, <3>2, <3>3, DirsApart
  <2>2. dir = "upstream" => \A i \in DOMAIN QueuesOf[tp] : <<s, tp, i>> \notin gemOwner
    BY <2>0 DEF GoneIsUnmapped
  <2>3. ASSUME dir = "downstream", NEW b \in balQueue \ stray, Sched(s, tp, dir) # None,
               b[1] = Sched(s, tp, dir)
        PROVE  FALSE
    <3>1. schedMap[<<s, tp>>] # None /\ b[1] = schedMap[<<s, tp>>] /\ b[1] # NniSched
      BY <2>0, <2>3 DEF Sched, Rooted
    <3>2. PICK t \in Subs : \E p \in service[t] : \E i \in DOMAIN QueuesOf[p] :
            b = KeyAt(t, p, "downstream", i) /\ Told(t, p, "downstream") # "gone"
      BY <2>0, <3>1 DEF QueuesHaveOwners
    <3>3. PICK p \in service[t] : \E i \in DOMAIN QueuesOf[p] :
            b = KeyAt(t, p, "downstream", i) /\ Told(t, p, "downstream") # "gone"
      BY <3>2
    <3>4. p \in TechProfiles /\ Sched(t, p, "downstream") = schedMap[<<s, tp>>]
      BY <2>0, <3>1, <3>3 DEF KeyAt, QueueKey
    <3>5. t = s /\ p = tp
      BY <2>0, <3>1, <3>4, SchedApart DEF Dirs
    <3> QED
      BY <2>3, <3>3, <3>5
  <2> QED
    BY <2>1, <2>2, <2>3
<1> QED
  BY <1>1, QueuesInvariant, PTL

(* What FlowAdd_ refers a flow to is in BAL while the tech profile has its *)
(* queues: the scheduler, the queues and the QMP of its p-bits, whichever  *)
(* other subscribers come, go and share the QMP; unless two calls raced    *)
(* for a QMP or BAL never accepted it.                                     *)
THEOREM FlowIsServed ==
  ASSUME OneProfile, FewSubs
  PROVE  Spec => []FlowHasItsQueues
<1>1. IInv /\ QueueInv => FlowHasItsQueues
  <2> SUFFICES ASSUME IInv, QueueInv, NEW s \in Subs, NEW tp \in service[s], NEW dir \in Dirs,
                      Served(s, tp), NEW e, e = Egress(s, tp, dir)
               PROVE  /\ qosOf[s] # None
                      /\ dir = "downstream" => e.sched # None /\ balSched[e.sched] = <<s, tp>>
                      /\ \/ raced
                         \/ /\ \A i \in DOMAIN QueuesOf[tp] :
                                 QueueKey(e.qos, e.sched, e.set, QueuesOf[tp][i]) \in balQueue
                            /\ e.qos = "priority_to_queue" =>
                                 e.set # None /\ (e.set \in unmade \/ balQmp[e.set] = MapOf[tp][dir])
    BY DEF FlowHasItsQueues
  <2>0. /\ Typed /\ SchedInv /\ RootInv /\ Rooted(s) /\ tp \in TechProfiles /\ Marked(s)
        /\ RefersWell(s) /\ MadeIsThere(s) /\ BitsInv /\ QmpAccepted
        /\ Told(s, tp, dir) = "made"
    BY DEF IInv, Typed, TypeOK, QueueInv, RootInv, QmpInv, Served, Told
  <2>1. qosOf[s] # None /\ qosOf[s] = Suited(tp)
    BY <2>0 DEF Marked
  <2>2. e.qos = Suited(tp) /\ e.sched = Sched(s, tp, dir) /\ e.set = SetOf(e.qos, e.sched, s)
    BY <2>1 DEF Egress, Qos, Sched
  <2>3. dir = "downstream" => e.sched # None /\ balSched[e.sched] = <<s, tp>>
    <3>1. <<s, tp>> \in ready
      BY <2>0 DEF Rooted
    <3> QED
      BY <2>0, <2>2, <3>1 DEF SchedInv, SchedulersAreOwned, Sched
  <2>4. \A i \in DOMAIN QueuesOf[tp] : QueueKey(e.qos, e.sched, e.set, QueuesOf[tp][i]) \in balQueue
    BY <2>0, <2>2 DEF MadeIsThere, KeyAt
  <2>5. ASSUME e.qos = "priority_to_queue", ~raced
        PROVE  e.set # None /\ (e.set \in unmade \/ balQmp[e.set] = MapOf[tp][dir])
    <3>1. e.set = Refers(s, e.sched) /\ e.set # None /\ e.sched \in Scheds
      BY <2>0, <2>2, <2>5 DEF MadeIsThere, SetOf, Refers, Sched, Scheds, Typed, TypeOK, Keys
    <3>2. e.set \in QmpIds
      BY <2>0, <3>1 DEF Refers, References, Typed, TypeOK
    <3>3. PICK p \in service[s], d \in Dirs :
            e.sched = Sched(s, p, d) /\ qmpMap[e.set] = MapOf[p][d]
      BY <2>0, <2>5, <3>1 DEF RefersWell
    <3>4. p = tp
      BY <2>0, Unique
    <3>5. d = dir
      BY <2>0, <2>2, <3>3, <3>4, DirsApart
    <3>6. MapOf[tp][dir] # None
      BY <2>0, TmAssumption DEF QmpMaps
    <3>7. e.set \in qmpBits
      BY <2>0, <3>2, <3>3, <3>4, <3>5, <3>6 DEF BitsInv
    <3> QED
      BY <2>0, <2>5, <3>1, <3>3, <3>4, <3>5, <3>7 DEF QmpAccepted
  <2>6. \/ raced
        \/ /\ \A i \in DOMAIN QueuesOf[tp] : QueueKey(e.qos, e.sched, e.set, QueuesOf[tp][i]) \in balQueue
           /\ e.qos = "priority_to_queue" =>
                e.set # None /\ (e.set \in unmade \/ balQmp[e.set] = MapOf[tp][dir])
    BY <2>4, <2>5, Zenon
  <2> QED
    BY <2>1, <2>2, <2>3, <2>6, Zenon
<1> QED
  BY <1>1, QueuesInvariant, PTL
=============================================================================
