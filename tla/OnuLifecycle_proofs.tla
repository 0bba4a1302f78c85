------------------------- MODULE OnuLifecycle_proofs -------------------------
(***************************************************************************)
(* Theorems about OnuLifecycle, for any number of threads, ONUs, calls,    *)
(* failures and reports under way, from OnuAssumption alone.               *)
(***************************************************************************)
EXTENDS OnuLifecycle, TLAPS

(* One more element, or one less at the front, of a sequence.              *)
LEMMA AppendType ==
  ASSUME NEW S, NEW q \in Seq(S), NEW x \in S
  PROVE  /\ Append(q, x) \in Seq(S)
         /\ \A k \in DOMAIN Append(q, x) : Append(q, x)[k] = x \/ \E l \in DOMAIN q : Append(q, x)[k] = q[l]
OBVIOUS

LEMMA TailType ==
  ASSUME NEW S, NEW q \in Seq(S), q # <<>>
  PROVE  /\ Tail(q) \in Seq(S)
         /\ Head(q) \in S /\ 1 \in DOMAIN q /\ Head(q) = q[1]
         /\ \A k \in DOMAIN Tail(q) : \E l \in DOMAIN q : Tail(q)[k] = q[l]
<1>1. /\ Tail(q) \in Seq(S) /\ Head(q) \in S /\ 1 \in DOMAIN q /\ Head(q) = q[1]
      /\ \A k \in DOMAIN Tail(q) : k + 1 \in DOMAIN q /\ Tail(q)[k] = q[k + 1]
  OBVIOUS
<1> QED  BY <1>1

-----------------------------------------------------------------------------
(* The types.                                                              *)

LEMMA FaultsType ==
  ASSUME TypeOK, Refused \/ Granted
  PROVE  faults' \in 0 .. MaxFaults
BY OnuAssumption DEF TypeOK, Refused, Granted

(* Where a thread goes, within its call.                                   *)
LEMMA GoType ==
  ASSUME TypeOK, NEW t \in Threads, pc[t] # "idle", UNCHANGED call,
         \/ \E p \in PCs \ {"idle", "timedout", "erase", "returned"} : Go(t, p)
         \/ \E r \in {"OK", "ERR"}, p \in PCs \ {"idle"} :
              pc' = [pc EXCEPT ![t] = p] /\ rc' = [rc EXCEPT ![t] = r]
         \/ \E p \in PCs \ {"idle"} :
              pc' = [pc EXCEPT ![t] = p] /\ UNCHANGED rc /\ rc[t] # "none"
  PROVE  /\ pc' \in [Threads -> PCs] /\ rc' \in [Threads -> {"none", "OK", "ERR"}]
         /\ \A u \in Threads : (pc[u] # "idle")' <=> call'[u] # NoCall
         /\ \A u \in Threads : pc'[u] \in {"timedout", "erase", "returned"} => rc'[u] # "none"
<1>0. pc \in [Threads -> PCs] /\ rc \in [Threads -> {"none", "OK", "ERR"}]  BY DEF TypeOK
<1>1. CASE \E p \in PCs \ {"idle", "timedout", "erase", "returned"} : Go(t, p)
  BY <1>0, <1>1 DEF TypeOK, Go, Busy
<1>2. CASE \E r \in {"OK", "ERR"}, p \in PCs \ {"idle"} :
             pc' = [pc EXCEPT ![t] = p] /\ rc' = [rc EXCEPT ![t] = r]
  BY <1>0, <1>2 DEF TypeOK, Busy
<1>3. CASE \E p \in PCs \ {"idle"} :
             pc' = [pc EXCEPT ![t] = p] /\ UNCHANGED rc /\ rc[t] # "none"
  BY <1>0, <1>3 DEF TypeOK, Busy
<1> QED  BY <1>1, <1>2, <1>3

(* A step of an RPC that neither registers nor waits.                      *)
LEMMA AgentType ==
  ASSUME TypeOK, NEW t \in Threads, pc[t] # "idle", Refused \/ Granted, AgentOnly,
         \/ \E p \in PCs \ {"idle", "timedout", "erase", "returned"} : Go(t, p)
         \/ \E r \in {"OK", "ERR"} : Return(t, r),
         onu' \in [Onus -> OnuStates], goal' \in [Onus -> Goals], measuring' \subseteq Onus,
         UNCHANGED reports
  PROVE  TypeOK'
<1>1. "returned" \in PCs \ {"idle"}  BY DEF PCs
<1>2. /\ pc' \in [Threads -> PCs] /\ rc' \in [Threads -> {"none", "OK", "ERR"}]
      /\ \A u \in Threads : (pc[u] # "idle")' <=> call'[u] # NoCall
      /\ \A u \in Threads : pc'[u] \in {"timedout", "erase", "returned"} => rc'[u] # "none"
  BY <1>1, GoType DEF AgentOnly, Return
<1>3. faults' \in 0 .. MaxFaults  BY FaultsType
<1> QED  BY <1>2, <1>3 DEF TypeOK, AgentOnly, maps, Busy

(* A step of a wait.                                                       *)
LEMMA WaitingType ==
  ASSUME TypeOK, NEW t \in Threads, pc[t] # "idle", Waiting,
         \/ \E p \in PCs \ {"idle", "timedout", "erase", "returned"} : Go(t, p)
         \/ \E r \in {"OK", "ERR"}, p \in PCs \ {"idle"} :
              pc' = [pc EXCEPT ![t] = p] /\ rc' = [rc EXCEPT ![t] = r]
         \/ \E p \in PCs \ {"idle"} :
              pc' = [pc EXCEPT ![t] = p] /\ UNCHANGED rc /\ rc[t] # "none",
         onu_deact_compltd_map' \in [Onus -> Entries], onu_rssi_compltd_map' \in [Onus -> Entries],
         queue' \in [Threads -> Seq(Results)]
  PROVE  TypeOK'
<1>1. UNCHANGED call  BY DEF Waiting
<1>2. /\ pc' \in [Threads -> PCs] /\ rc' \in [Threads -> {"none", "OK", "ERR"}]
      /\ \A u \in Threads : (pc[u] # "idle")' <=> call'[u] # NoCall
      /\ \A u \in Threads : pc'[u] \in {"timedout", "erase", "returned"} => rc'[u] # "none"
  BY <1>1, GoType
<1> QED  BY <1>2 DEF TypeOK, Waiting, balVars, histVars, Busy

(* The ONU a call is about.                                                *)
LEMMA CallFacts ==
  ASSUME TypeOK, NEW t \in Threads, pc[t] # "idle"
  PROVE  call[t].op \in Ops /\ call[t].onu \in Onus
BY DEF TypeOK, Busy

(* A change of an ONU's state.                                             *)
LEMMA StateType ==
  ASSUME TypeOK, NEW o \in Onus, NEW s \in OnuStates, NEW g \in Goals, SetOnuState(o, s, g)
  PROVE  onu' \in [Onus -> OnuStates] /\ goal' \in [Onus -> Goals]
         /\ UNCHANGED <<measuring, reports>>
<1>1. "PROCESSING" \in OnuStates  BY DEF OnuStates
<1> QED  BY <1>1 DEF TypeOK, SetOnuState

LEMMA FailsType ==
  ASSUME TypeOK, NEW t \in Threads, NEW op, NEW step \in PCs \ {"idle"}, Fails(t, op, step)
  PROVE  TypeOK'
<1>1. pc[t] # "idle" /\ Refused /\ Return(t, "ERR") /\ AgentOnly  BY DEF Fails, Does
<1>2. onu' \in [Onus -> OnuStates] /\ goal' \in [Onus -> Goals] /\ measuring' \subseteq Onus
      /\ UNCHANGED reports
  BY DEF Fails, balVars, TypeOK
<1> QED  BY <1>1, <1>2, AgentType

LEMMA AllFailsType ==
  ASSUME TypeOK, NEW t \in Threads,
         ActivateFails(t) \/ DeactivateFails(t) \/ CheckFails(t) \/ OtherFails(t)
  PROVE  TypeOK'
<1>1. \E op \in Ops, step \in PCs \ {"idle"} : Fails(t, op, step)
  BY DEF ActivateFails, DeactivateFails, CheckFails, OtherFails, PCs, Ops
<1> QED  BY <1>1, FailsType

(* The requests to BAL that are granted.                                   *)
LEMMA RequestType ==
  ASSUME TypeOK, NEW t \in Threads,
         \/ ActivateState(t) \/ Configure(t) \/ EncryptOmci(t) \/ ActivateSubmit(t)
         \/ DeactivateState(t) \/ DeactivateSubmit(t) \/ CheckInactive(t) \/ Clear(t)
         \/ RssiSubmit(t) \/ SetAdminState(t)
  PROVE  TypeOK'
<1>0. pc[t] # "idle" /\ AgentOnly /\ (Refused \/ Granted) /\ UNCHANGED reports
  BY DEF ActivateState, Configure, EncryptOmci, ActivateSubmit, DeactivateState,
     DeactivateSubmit, CheckInactive, Clear, RssiSubmit, SetAdminState, Does, balVars, SetOnuState
<1>1. \/ \E p \in PCs \ {"idle", "timedout", "erase", "returned"} : Go(t, p)
      \/ \E r \in {"OK", "ERR"} : Return(t, r)
  BY DEF ActivateState, Configure, EncryptOmci, ActivateSubmit, DeactivateState, DeactivateDone,
     DeactivateSubmit, CheckInactive, Clear, RssiSubmit, SetAdminState, PCs
<1>2. call[t].onu \in Onus  BY <1>0, CallFacts
<1>3. onu' \in [Onus -> OnuStates] /\ goal' \in [Onus -> Goals] /\ measuring' \subseteq Onus
  <2>1. CASE UNCHANGED balVars  BY <2>1 DEF balVars, TypeOK
  <2>2. CASE Configure(t)
    <3>1. "INACTIVE" \in OnuStates  BY DEF OnuStates
    <3> QED  BY <2>2, <3>1 DEF Configure, TypeOK
  <2>3. CASE ActivateSubmit(t) \/ DeactivateSubmit(t)
    <3>1. {"INACTIVE", "ACTIVE"} \subseteq OnuStates /\ {"INACTIVE", "ACTIVE"} \subseteq Goals
      BY DEF OnuStates, Goals
    <3>2. \E s \in OnuStates, g \in Goals : SetOnuState(call[t].onu, s, g)
      BY <2>3, <3>1 DEF ActivateSubmit, DeactivateSubmit
    <3> QED  BY <1>2, <3>2, StateType DEF TypeOK
  <2>4. CASE Clear(t)
    <3>1. "NOT_CONFIGURED" \in OnuStates  BY DEF OnuStates
    <3>2. onu' = onu \/ onu' = [onu EXCEPT ![call[t].onu] = "NOT_CONFIGURED"]
      BY <2>4 DEF Clear
    <3>3. UNCHANGED <<goal, measuring>>  BY <2>4 DEF Clear
    <3>4. onu \in [Onus -> OnuStates] /\ goal \in [Onus -> Goals] /\ measuring \subseteq Onus
      BY DEF TypeOK
    <3>5. [onu EXCEPT ![call[t].onu] = "NOT_CONFIGURED"] \in [Onus -> OnuStates]
      BY <3>1, <3>4
    <3> QED  BY <3>2, <3>3, <3>4, <3>5
  <2>5. CASE RssiSubmit(t)
    BY <1>2, <2>5 DEF RssiSubmit, TypeOK
  <2>6. CASE SetAdminState(t)
    <3>1. \A s \in OnuStates, op \in Ops : Moves(op, s) \in OnuStates  BY DEF Moves, OnuStates
    <3>2. call[t].op \in Ops  BY <1>0, CallFacts
    <3>3. Moves(call[t].op, onu[call[t].onu]) \in OnuStates
      BY <1>2, <3>1, <3>2 DEF TypeOK
    <3> QED  BY <2>6, <3>3 DEF SetAdminState, TypeOK
  <2> QED  BY <2>1, <2>2, <2>3, <2>4, <2>5, <2>6
           DEF ActivateState, EncryptOmci, DeactivateState, CheckInactive
<1> QED  BY <1>0, <1>1, <1>3, AgentType

(* An entry is set.                                                        *)
LEMMA EntryType ==
  ASSUME TypeOK, NEW kind, NEW o, NEW e \in Entries, SetEntry(kind, o, e)
  PROVE  onu_deact_compltd_map' \in [Onus -> Entries] /\ onu_rssi_compltd_map' \in [Onus -> Entries]
BY DEF TypeOK, SetEntry

(* The steps of a wait.                                                    *)
LEMMA WaitType ==
  ASSUME TypeOK, NEW t \in Threads,
         \/ DeactInsert(t) \/ DeactRegister(t) \/ RssiRegister(t)
         \/ PopResult(t) \/ PopTimesOut(t) \/ Invalidate(t) \/ Erase(t)
  PROVE  TypeOK'
<1>0. pc[t] # "idle" /\ Waiting
  BY DEF DeactInsert, DeactRegister, RssiRegister, PopResult, PopTimesOut, Invalidate, Erase, Does
<1>1. \/ \E p \in PCs \ {"idle", "timedout", "erase", "returned"} : Go(t, p)
      \/ \E r \in {"OK", "ERR"}, p \in PCs \ {"idle"} :
           pc' = [pc EXCEPT ![t] = p] /\ rc' = [rc EXCEPT ![t] = r]
      \/ \E p \in PCs \ {"idle"} : pc' = [pc EXCEPT ![t] = p] /\ UNCHANGED rc /\ rc[t] # "none"
  <2>1. CASE DeactInsert(t) \/ DeactRegister(t) \/ RssiRegister(t)
    BY <2>1 DEF DeactInsert, DeactRegister, RssiRegister, PCs
  <2>2. CASE PopResult(t) \/ PopTimesOut(t)
    BY <2>2 DEF PopResult, PopTimesOut, PCs
  <2>3. CASE Invalidate(t) \/ Erase(t)
    BY <2>3 DEF Invalidate, Erase, AfterWait, Go, PCs, TypeOK
  <2> QED  BY <2>1, <2>2, <2>3
<1>2. /\ onu_deact_compltd_map' \in [Onus -> Entries]
      /\ onu_rssi_compltd_map' \in [Onus -> Entries]
  <2>1. {t, Null, NoEntry} \subseteq Entries  BY DEF Entries
  <2>2. \/ UNCHANGED maps
        \/ \E kind, o, e : e \in {t, Null, NoEntry} /\ SetEntry(kind, o, e)
    BY DEF DeactInsert, DeactRegister, RssiRegister, PopResult, PopTimesOut, Invalidate, Erase
  <2>3. CASE UNCHANGED maps  BY <2>3 DEF maps, TypeOK
  <2> QED  BY <2>1, <2>2, <2>3, EntryType
<1>3. queue' \in [Threads -> Seq(Results)]
  <2>1. <<>> \in Seq(Results)  OBVIOUS
  <2>2. ASSUME PopResult(t)  PROVE Tail(queue[t]) \in Seq(Results)
    BY <2>2, TailType DEF PopResult, TypeOK
  <2> QED
    BY <2>1, <2>2 DEF DeactInsert, DeactRegister, RssiRegister, PopResult, PopTimesOut,
       Invalidate, Erase, TypeOK
<1> QED  BY <1>0, <1>1, <1>2, <1>3, WaitingType

(* Calls and answers.                                                      *)
LEMMA BeginType ==
  ASSUME TypeOK, NEW t \in Threads, NEW op \in Ops, NEW o \in Onus, Begin(t, op, o),
         calls' \in 0 .. MaxCalls, wanted' \subseteq Onus
  PROVE  TypeOK'
<1>1. FirstStep(op) \in {"submit", "state"}  BY DEF FirstStep, Ops
<1>2. [op |-> op, onu |-> o] \in [op : Ops, onu : Onus] /\ [op |-> op, onu |-> o] # NoCall
  BY DEF NoCall, Ops
<1>3. pc' \in [Threads -> PCs] /\ pc' = [pc EXCEPT ![t] = FirstStep(op)] /\ rc' = rc
  BY <1>1 DEF Begin, Go, TypeOK, PCs
<1>4. call' = [call EXCEPT ![t] = [op |-> op, onu |-> o]] /\ pc[t] = "idle"  BY DEF Begin
<1>5. call' \in [Threads -> [op : Ops, onu : Onus] \cup {NoCall}]  BY <1>2, <1>4 DEF TypeOK
<1>6. \A u \in Threads : pc'[u] # "idle" <=> call'[u] # NoCall
  BY <1>1, <1>2, <1>3, <1>4 DEF TypeOK, Busy
<1>7. \A u \in Threads : pc'[u] \in {"timedout", "erase", "returned"} => rc'[u] # "none"
  BY <1>1, <1>3 DEF TypeOK
<1>8. clean' \subseteq Threads  BY DEF Begin, TypeOK
<1> QED  BY <1>3, <1>5, <1>6, <1>7, <1>8 DEF Begin, TypeOK, Busy, balVars, maps

LEMMA ClientType ==
  ASSUME TypeOK, NEW t \in Threads,
         Answer(t) \/ \E o \in Onus : CallAgain(t, o) \/ \E op \in Ops : Call(t, op, o)
  PROVE  TypeOK'
<1>1. CASE Answer(t)
  <2>1. pc' = [pc EXCEPT ![t] = "idle"] /\ rc' = [rc EXCEPT ![t] = "none"]
        /\ call' = [call EXCEPT ![t] = NoCall]
    BY <1>1 DEF Answer
  <2>2. pc' \in [Threads -> PCs] /\ rc' \in [Threads -> {"none", "OK", "ERR"}]
        /\ call' \in [Threads -> [op : Ops, onu : Onus] \cup {NoCall}]
    BY <2>1 DEF TypeOK, PCs
  <2>3. \A u \in Threads : pc'[u] # "idle" <=> call'[u] # NoCall  BY <2>1 DEF TypeOK, Busy
  <2>4. \A u \in Threads : pc'[u] \in {"timedout", "erase", "returned"} => rc'[u] # "none"
    BY <2>1 DEF TypeOK
  <2> QED  BY <1>1, <2>2, <2>3, <2>4 DEF Answer, TypeOK, Busy, balVars, maps
<1>2. ASSUME NEW o \in Onus, CallAgain(t, o)  PROVE TypeOK'
  BY <1>2, BeginType DEF CallAgain, Ops, TypeOK
<1>3. ASSUME NEW o \in Onus, NEW op \in Ops, Call(t, op, o)  PROVE TypeOK'
  BY <1>3, BeginType, OnuAssumption DEF Call, TypeOK
<1> QED  BY <1>1, <1>2, <1>3

(* BAL and its callbacks.                                                  *)
LEMMA BalType ==
  ASSUME TypeOK, NEW o \in Onus, BalEnds(o) \/ GoesDown(o) \/ MeasurementEnds(o)
  PROVE  TypeOK'
<1>1. Outside /\ UNCHANGED goal
  BY DEF BalEnds, ActivationEnds, DeactivationEnds, GoesDown, MeasurementEnds
<1>2. faults' \in 0 .. MaxFaults
  BY FaultsType DEF BalEnds, ActivationEnds, DeactivationEnds, GoesDown, MeasurementEnds, Granted
<1>3. onu' \in [Onus -> OnuStates] /\ measuring' \subseteq Onus
  <2>1. {"INACTIVE", "ACTIVE"} \subseteq OnuStates  BY DEF OnuStates
  <2>2. onu' = onu \/ \E s \in {"INACTIVE", "ACTIVE"} : onu' = [onu EXCEPT ![o] = s]
    BY DEF BalEnds, ActivationEnds, DeactivationEnds, GoesDown, MeasurementEnds
  <2>3. measuring' \subseteq measuring
    BY DEF BalEnds, ActivationEnds, DeactivationEnds, GoesDown, MeasurementEnds
  <2> QED  BY <2>1, <2>2, <2>3 DEF TypeOK
<1>4. reports' \in Seq(Reports)
  <2>1. UNCHANGED reports \/ \E kind \in {"deact", "rssi"}, r \in Results : Report(kind, o, r)
    <3>1. CASE BalEnds(o)
      BY <3>1 DEF BalEnds, ActivationEnds, DeactivationEnds, Results
    <3>2. CASE GoesDown(o)
      BY <3>2 DEF GoesDown, Results
    <3>3. CASE MeasurementEnds(o)
      BY <3>3 DEF MeasurementEnds
    <3> QED  BY <3>1, <3>2, <3>3
  <2>2. ASSUME NEW kind \in {"deact", "rssi"}, NEW r \in Results, Report(kind, o, r)
        PROVE  reports' \in Seq(Reports)
    BY <2>2, AppendType DEF Report, Reports, TypeOK
  <2> QED  BY <2>1, <2>2 DEF TypeOK
<1> QED  BY <1>1, <1>2, <1>3, <1>4 DEF TypeOK, Outside, maps, Busy

LEMMA CallbackType ==
  ASSUME TypeOK, Callback
  PROVE  TypeOK'
<1>1. \E kind, entries, missed : Handle(kind, entries, missed)
  <2>1. CASE OnuDeactivationCompletedIndication
    BY <2>1, Zenon DEF OnuDeactivationCompletedIndication
  <2>2. CASE OnuRssiMeasurementCompletedIndication
    BY <2>2, Zenon DEF OnuRssiMeasurementCompletedIndication
  <2> QED  BY <2>1, <2>2 DEF Callback
<1> SUFFICES ASSUME NEW kind, NEW entries, NEW missed, Handle(kind, entries, missed)
             PROVE  TypeOK'
  BY <1>1, Zenon
<1>2. reports' \in Seq(Reports) /\ Head(reports).result \in Results
  <2>1. reports # <<>> /\ reports' = Tail(reports) /\ reports \in Seq(Reports)
    BY DEF Handle, TypeOK
  <2>2. Tail(reports) \in Seq(Reports) /\ Head(reports) \in Reports
    BY <2>1, TailType
  <2> QED  BY <2>1, <2>2 DEF Reports
<1>3. queue' \in [Threads -> Seq(Results)]
  <2> DEFINE e == entries[Head(reports).onu]
  <2>1. queue' = queue \/ (e \in Threads /\ queue' = [queue EXCEPT ![e] = Append(@, Head(reports).result)])
    BY DEF Handle
  <2>2. e \in Threads => Append(queue[e], Head(reports).result) \in Seq(Results)
    BY <1>2, AppendType DEF TypeOK
  <2> QED  BY <2>1, <2>2 DEF TypeOK
<1> QED  BY <1>2, <1>3 DEF Handle, TypeOK, maps, histVars, Busy

LEMMA InitType == Init => TypeOK
<1> SUFFICES ASSUME Init  PROVE TypeOK
  OBVIOUS
<1>1. onu \in [Onus -> OnuStates] /\ goal \in [Onus -> Goals]  BY DEF Init, OnuStates, Goals
<1>2. /\ onu_deact_compltd_map \in [Onus -> Entries] /\ onu_rssi_compltd_map \in [Onus -> Entries]
  BY DEF Init, Entries
<1>3. pc \in [Threads -> PCs]  BY DEF Init, PCs
<1>4. reports \in Seq(Reports) /\ queue \in [Threads -> Seq(Results)]  BY DEF Init
<1>5. call \in [Threads -> [op : Ops, onu : Onus] \cup {NoCall}]  BY DEF Init
<1>6. calls \in 0 .. MaxCalls /\ faults \in 0 .. MaxFaults  BY OnuAssumption DEF Init
<1> QED  BY <1>1, <1>2, <1>3, <1>4, <1>5, <1>6 DEF Init, TypeOK, Busy

LEMMA NextType == TypeOK /\ [Next]_vars => TypeOK'
<1> SUFFICES ASSUME TypeOK, [Next]_vars  PROVE TypeOK'
  OBVIOUS
<1>1. ASSUME NEW t \in Threads, Rpc(t)  PROVE TypeOK'
  BY <1>1, AllFailsType, RequestType, WaitType DEF Rpc
<1>2. CASE UNCHANGED vars
  BY <1>2 DEF vars, balVars, maps, histVars, TypeOK, Busy
<1> QED  BY <1>1, <1>2, ClientType, BalType, CallbackType DEF Next

(***************************************************************************)
(* The types of the state are invariant.                                   *)
(***************************************************************************)
THEOREM TypeCorrect == Spec => []TypeOK
BY InitType, NextType, PTL DEF Spec

-----------------------------------------------------------------------------
(* The entries of the two maps.                                            *)

EntryKinds    == {"deact", "rssi"}
EntryOf(k, o) == IF k = "rssi" THEN onu_rssi_compltd_map[o] ELSE onu_deact_compltd_map[o]
OpFor(k)      == IF k = "rssi" THEN "rssi" ELSE "delete"
Waits(t, k, o) == Alive(t) /\ call[t].op = OpFor(k) /\ call[t].onu = o

(***************************************************************************)
(* An entry, of whatever value, is there only while a call that waits for  *)
(* that ONU will still remove it; and nobody is at work on the ONU of a    *)
(* call that has it for itself.  So that call finds no entry to stand in   *)
(* the way of its insertion, and nobody takes the one it makes.            *)
(***************************************************************************)
WaitOps    == \A t \in Threads : /\ Alive(t) => call[t].op \in {"delete", "rssi"}
                                 /\ pc[t] = "clear" => call[t].op = "delete"
Pointers   == \A k \in EntryKinds, o \in Onus :
                EntryOf(k, o) \in Threads => Waits(EntryOf(k, o), k, o)
Registered == \A k \in EntryKinds, o \in Onus :
                EntryOf(k, o) # NoEntry => \E t \in Threads : Waits(t, k, o)
Alone      == \A t \in clean : Busy(t) /\ \A u \in Threads \ {t} : ~On(u, call[t].onu)
Sole       == \A t \in clean : pc[t] = "wait" => t = EntryOf(Kind(t), call[t].onu)

RegInv == WaitOps /\ Pointers /\ Registered /\ Alone /\ Sole

(* An entry is set, the others stay.                                       *)
LEMMA EntryFacts ==
  ASSUME TypeOK, NEW k \in EntryKinds, NEW o \in Onus, NEW e, SetEntry(k, o, e)
  PROVE  \A l \in EntryKinds, p \in Onus :
           EntryOf(l, p)' = IF l = k /\ p = o THEN e ELSE EntryOf(l, p)
<1>1. CASE k = "deact"
  BY <1>1 DEF TypeOK, SetEntry, EntryOf, EntryKinds
<1>2. CASE k = "rssi"
  BY <1>2 DEF TypeOK, SetEntry, EntryOf, EntryKinds
<1> QED  BY <1>1, <1>2 DEF EntryKinds

(* A step of a thread that is not waiting, and does not begin to.          *)
LEMMA RegAgent ==
  ASSUME TypeOK, RegInv, NEW t \in Threads, NEW p,
         pc' = [pc EXCEPT ![t] = p], p \notin {"idle", "wait", "timedout", "erase"},
         p = "clear" => call[t].op = "delete",
         Busy(t), ~Alive(t), UNCHANGED <<maps, call, clean>>
  PROVE  RegInv'
<1>1. \A u \in Threads : /\ Alive(u)' <=> Alive(u)
                         /\ Busy(u)' <=> Busy(u)
                         /\ pc'[u] = "wait" <=> pc[u] = "wait"
  BY DEF TypeOK, Alive, Busy
<1>2. \A k \in EntryKinds, o \in Onus : EntryOf(k, o)' = EntryOf(k, o)
  BY DEF EntryOf, maps
<1>3. \A u \in Threads, k \in EntryKinds, o \in Onus : Waits(u, k, o)' <=> Waits(u, k, o)
  BY <1>1 DEF Waits
<1>4. WaitOps'  BY <1>1 DEF RegInv, WaitOps, TypeOK
<1>5. Pointers' /\ Registered'  BY <1>2, <1>3 DEF RegInv, Pointers, Registered
<1>6. Alone'  BY <1>1 DEF RegInv, Alone, On, TypeOK
<1>7. Sole'   BY <1>1 DEF RegInv, Sole, TypeOK, Kind, EntryOf, maps
<1> QED  BY <1>4, <1>5, <1>6, <1>7 DEF RegInv

(* A wait comes to its end, and has its entry still.                       *)
LEMMA RegEnds ==
  ASSUME TypeOK, RegInv, NEW t \in Threads, PopResult(t) \/ PopTimesOut(t)
  PROVE  RegInv'
<1>0. /\ pc[t] = "wait" /\ UNCHANGED <<maps, call, clean>>
      /\ \E p \in {"erase", "timedout"} : pc' = [pc EXCEPT ![t] = p]
  BY DEF PopResult, PopTimesOut, Waiting, histVars
<1>1. \A u \in Threads : /\ Alive(u)' <=> Alive(u)
                         /\ Busy(u)' <=> Busy(u)
                         /\ pc'[u] = "wait" => pc[u] = "wait"
                         /\ pc'[u] = "clear" => pc[u] = "clear"
  BY <1>0 DEF TypeOK, Alive, Busy
<1>2. \A k \in EntryKinds, o \in Onus : EntryOf(k, o)' = EntryOf(k, o)
  BY <1>0 DEF EntryOf, maps
<1>3. \A u \in Threads, k \in EntryKinds, o \in Onus : Waits(u, k, o)' <=> Waits(u, k, o)
  BY <1>0, <1>1 DEF Waits
<1>4. WaitOps'  BY <1>0, <1>1 DEF RegInv, WaitOps
<1>5. Pointers' /\ Registered'  BY <1>2, <1>3 DEF RegInv, Pointers, Registered
<1>6. Alone'  BY <1>0, <1>1 DEF RegInv, Alone, On, TypeOK
<1>7. Sole'   BY <1>0, <1>1 DEF RegInv, Sole, TypeOK, Kind, EntryOf, maps
<1> QED  BY <1>4, <1>5, <1>6, <1>7 DEF RegInv

(***************************************************************************)
(* A thread sets the entry of the ONU its call is about: to itself when it *)
(* begins to wait, and to NULL or to nothing when it ends.                 *)
(***************************************************************************)
LEMMA RegSets ==
  ASSUME TypeOK, RegInv, NEW t \in Threads, NEW p, NEW e, NEW k \in EntryKinds,
         pc' = [pc EXCEPT ![t] = p], p # "idle", Busy(t), UNCHANGED <<call, clean>>,
         p = "clear" => call[t].op = "delete",
         call[t].op = OpFor(k), SetEntry(k, call[t].onu, e),
         \/ e = t /\ p = "wait"
         \/ e = Null /\ p = "erase"
         \/ e = NoEntry /\ p \notin {"wait", "timedout", "erase"}
  PROVE  RegInv'
<1> DEFINE o == call[t].onu
<1>0. o \in Onus /\ t # NoEntry /\ Null \notin Threads /\ NoEntry \notin Threads /\ Null # NoEntry
  BY CallFacts, OnuAssumption DEF Busy
<1>1. \A l \in EntryKinds, q \in Onus :
        EntryOf(l, q)' = IF l = k /\ q = o THEN e ELSE EntryOf(l, q)
  BY <1>0, EntryFacts
<1>2. /\ \A u \in Threads \ {t} : pc'[u] = pc[u] /\ (Alive(u)' <=> Alive(u)) /\ (Busy(u)' <=> Busy(u))
      /\ pc'[t] = p /\ Busy(t)'
  BY DEF TypeOK, Alive, Busy
<1>3. \A u \in Threads \ {t}, l \in EntryKinds, q \in Onus : Waits(u, l, q)' <=> Waits(u, l, q)
  BY <1>2 DEF Waits
<1>4. \A l \in EntryKinds, q \in Onus : Waits(t, l, q) => l = k /\ q = o
  BY DEF Waits, OpFor, EntryKinds
<1>5. e # NoEntry => Waits(t, k, o)'
  BY <1>0, <1>2 DEF Waits, Alive
<1>6. WaitOps'
  BY <1>2 DEF RegInv, WaitOps, OpFor
<1>7. Pointers'
  <2> SUFFICES ASSUME NEW l \in EntryKinds, NEW q \in Onus, NEW u \in Threads,
                      u = EntryOf(l, q)'
               PROVE  Waits(u, l, q)'
    BY DEF Pointers
  <2>1. CASE l = k /\ q = o
    BY <1>0, <1>1, <1>5, <2>1
  <2>2. CASE ~(l = k /\ q = o)
    <3>1. u = EntryOf(l, q) /\ Waits(u, l, q)
      BY <1>1, <2>2 DEF RegInv, Pointers
    <3>2. u # t  BY <1>4, <2>2, <3>1
    <3> QED  BY <1>3, <3>1, <3>2
  <2> QED  BY <2>1, <2>2
<1>8. Registered'
  <2> SUFFICES ASSUME NEW l \in EntryKinds, NEW q \in Onus, EntryOf(l, q)' # NoEntry
               PROVE  \E u \in Threads : Waits(u, l, q)'
    BY DEF Registered
  <2>1. CASE l = k /\ q = o
    BY <1>1, <1>5, <2>1
  <2>2. CASE ~(l = k /\ q = o)
    <3>1. \E u \in Threads : Waits(u, l, q)  BY <1>1, <2>2 DEF RegInv, Registered
    <3> QED  BY <1>3, <1>4, <2>2, <3>1
  <2> QED  BY <2>1, <2>2
<1>9. Alone'
  BY <1>2 DEF RegInv, Alone, On, TypeOK
<1>10. Sole'
  <2> SUFFICES ASSUME NEW u \in clean, pc'[u] = "wait"
               PROVE  (u = EntryOf(Kind(u), call[u].onu))'
    BY DEF Sole
  <2>1. Kind(u)' = Kind(u) /\ Kind(u) \in EntryKinds /\ u \in Threads
    BY DEF Kind, EntryKinds, TypeOK
  <2>2. CASE u = t
    <3>1. p = "wait" /\ e = t  BY <1>2, <2>2
    <3>2. Kind(t) = k  BY DEF Kind, OpFor, EntryKinds
    <3>3. EntryOf(Kind(u), call[u].onu)' = EntryOf(k, o)'
      BY <2>1, <2>2, <3>2 DEF EntryOf
    <3> QED  BY <1>0, <1>1, <2>2, <3>1, <3>3
  <2>3. CASE u # t
    <3>1. pc[u] = "wait" /\ Busy(u)  BY <1>2, <2>1, <2>3 DEF Busy
    <3>2. call[u].onu # o /\ call[u].onu \in Onus
      BY <2>1, <2>3, <3>1, CallFacts DEF RegInv, Alone, On, Busy
    <3>3. u = EntryOf(Kind(u), call[u].onu)  BY <3>1 DEF RegInv, Sole
    <3>4. EntryOf(Kind(u), call[u].onu)' = EntryOf(Kind(u), call[u].onu)
      BY <1>1, <2>1, <3>2 DEF EntryOf
    <3> QED  BY <3>3, <3>4
  <2> QED  BY <2>2, <2>3
<1> QED  BY <1>6, <1>7, <1>8, <1>9, <1>10 DEF RegInv

(* The steps of an RPC.                                                    *)
LEMMA RegRpc ==
  ASSUME TypeOK, RegInv, NEW t \in Threads, Rpc(t)
  PROVE  RegInv'
<1>1. ASSUME \/ ActivateState(t) \/ Configure(t) \/ EncryptOmci(t) \/ ActivateSubmit(t)
             \/ ActivateFails(t) \/ DeactivateState(t) \/ DeactivateSubmit(t)
             \/ DeactivateFails(t) \/ CheckInactive(t) \/ CheckFails(t) \/ Clear(t)
             \/ RssiSubmit(t) \/ SetAdminState(t) \/ OtherFails(t)
      PROVE  RegInv'
  <2>1. /\ AgentOnly
        /\ Busy(t) /\ ~Alive(t)
        /\ \E p \in {"config", "omci", "submit", "check", "insert", "register", "clear", "returned"} :
             /\ pc' = [pc EXCEPT ![t] = p]
             /\ p = "clear" => call[t].op = "delete"
    <3> USE DEF Fails, Does, Busy, Alive, Go, Return
    <3>1. CASE ActivateState(t)     BY <3>1 DEF ActivateState
    <3>2. CASE Configure(t)         BY <3>2 DEF Configure
    <3>3. CASE EncryptOmci(t)       BY <3>3 DEF EncryptOmci
    <3>4. CASE ActivateSubmit(t)    BY <3>4 DEF ActivateSubmit
    <3>5. CASE ActivateFails(t)     BY <3>5 DEF ActivateFails
    <3>6. CASE DeactivateState(t)   BY <3>6 DEF DeactivateState, DeactivateDone
    <3>7. CASE DeactivateSubmit(t)  BY <3>7 DEF DeactivateSubmit, DeactivateDone
    <3>8. CASE DeactivateFails(t)   BY <3>8 DEF DeactivateFails
    <3>9. CASE CheckInactive(t)     BY <3>9 DEF CheckInactive
    <3>10. CASE CheckFails(t)       BY <3>10 DEF CheckFails
    <3>11. CASE Clear(t)            BY <3>11 DEF Clear
    <3>12. CASE RssiSubmit(t)       BY <3>12 DEF RssiSubmit
    <3>13. CASE SetAdminState(t)    BY <3>13 DEF SetAdminState
    <3>14. CASE OtherFails(t)       BY <3>14 DEF OtherFails
    <3> QED  BY <1>1, <3>1, <3>2, <3>3, <3>4, <3>5, <3>6, <3>7, <3>8, <3>9, <3>10, <3>11,
                <3>12, <3>13, <3>14
  <2> QED  BY <2>1, RegAgent DEF AgentOnly
<1>2. CASE DeactInsert(t)
  BY <1>2, RegAgent DEF DeactInsert, Does, Go, Busy, Alive, Waiting, histVars
<1>3. CASE DeactRegister(t)
  BY <1>3, RegSets DEF DeactRegister, Does, Go, Busy, Waiting, histVars, OpFor, EntryKinds
<1>4. CASE RssiRegister(t)
  <2> DEFINE o == call[t].onu
  <2>1. /\ pc[t] = "register" /\ call[t].op = "rssi" /\ Busy(t) /\ ~Alive(t) /\ t \in Threads
        /\ pc' = [pc EXCEPT ![t] = "wait"] /\ UNCHANGED <<call, clean>>
    BY <1>4 DEF RssiRegister, Does, Go, Busy, Alive, Waiting, histVars
  <2>2. o \in Onus  BY <2>1, CallFacts DEF Busy
  <2>3. CASE onu_rssi_compltd_map[o] = NoEntry
    <3>1. SetEntry("rssi", o, t)  BY <1>4, <2>3 DEF RssiRegister
    <3> QED  BY <2>1, <3>1, RegSets DEF OpFor, EntryKinds
  <2>4. CASE onu_rssi_compltd_map[o] # NoEntry
    <3>1. UNCHANGED maps  BY <1>4, <2>4 DEF RssiRegister
    <3>2. PICK w \in Threads : Waits(w, "rssi", o)
      BY <2>2, <2>4 DEF RegInv, Registered, EntryOf, EntryKinds
    <3>3. w # t /\ On(w, o)  BY <2>1, <3>2 DEF Waits, Alive, On, Busy
    <3>4. t \notin clean  BY <3>3 DEF RegInv, Alone
    <3>5. \A u \in Threads \ {t} : pc'[u] = pc[u] /\ (Alive(u)' <=> Alive(u)) /\ (Busy(u)' <=> Busy(u))
      BY <2>1 DEF TypeOK, Alive, Busy
    <3>6. pc'[t] = "wait" /\ Busy(t)'  BY <2>1 DEF TypeOK, Busy
    <3>7. \A k \in EntryKinds, q \in Onus : EntryOf(k, q)' = EntryOf(k, q)
      BY <3>1 DEF EntryOf, maps
    <3>8. \A u \in Threads, k \in EntryKinds, q \in Onus : Waits(u, k, q) => Waits(u, k, q)'
      BY <2>1, <3>5 DEF Waits
    <3>9. WaitOps'  BY <2>1, <3>5, <3>6 DEF RegInv, WaitOps
    <3>10. Pointers' /\ Registered'
      BY <3>7, <3>8 DEF RegInv, Pointers, Registered
    <3>11. Alone'  BY <2>1, <3>5, <3>6 DEF RegInv, Alone, On, TypeOK
    <3>12. Sole'
      BY <2>1, <3>1, <3>4, <3>5 DEF RegInv, Sole, TypeOK, Kind, EntryOf, maps
    <3> QED  BY <3>9, <3>10, <3>11, <3>12 DEF RegInv
  <2> QED  BY <2>3, <2>4
<1>5. CASE PopResult(t) \/ PopTimesOut(t)
  BY <1>5, RegEnds
<1>6. CASE Invalidate(t)
  <2>1. Alive(t) /\ Busy(t)  BY <1>6 DEF Invalidate, Alive, Busy
  <2>2. call[t].op = OpFor(Kind(t)) /\ Kind(t) \in EntryKinds
    BY <2>1 DEF RegInv, WaitOps, OpFor, Kind, EntryKinds
  <2>3. pc' = [pc EXCEPT ![t] = "erase"] /\ UNCHANGED <<call, clean>>
        /\ SetEntry(Kind(t), call[t].onu, Null)
    BY <1>6 DEF Invalidate, Go, Waiting, histVars
  <2> QED  BY <2>1, <2>2, <2>3, RegSets
<1>7. CASE Erase(t)
  <2>1. Alive(t) /\ Busy(t)  BY <1>7 DEF Erase, Alive, Busy
  <2>2. call[t].op = OpFor(Kind(t)) /\ Kind(t) \in EntryKinds
    BY <2>1 DEF RegInv, WaitOps, OpFor, Kind, EntryKinds
  <2>3. /\ \E p \in {"clear", "returned"} :
             pc' = [pc EXCEPT ![t] = p] /\ (p = "clear" => call[t].op = "delete")
        /\ UNCHANGED <<call, clean>>
        /\ SetEntry(Kind(t), call[t].onu, NoEntry)
    BY <1>7 DEF Erase, AfterWait, Waiting, histVars
  <2> QED  BY <2>1, <2>2, <2>3, RegSets
<1> QED  BY <1>1, <1>2, <1>3, <1>4, <1>5, <1>6, <1>7 DEF Rpc

(* A call that begins, on an ONU of its own or among others.               *)
LEMMA RegBegin ==
  ASSUME TypeOK, RegInv, NEW t \in Threads, NEW op \in Ops, NEW o \in Onus, Begin(t, op, o)
  PROVE  RegInv'
<1>1. /\ pc[t] = "idle" /\ UNCHANGED maps
      /\ call' = [call EXCEPT ![t] = [op |-> op, onu |-> o]]
      /\ pc' = [pc EXCEPT ![t] = FirstStep(op)]
      /\ FirstStep(op) \in {"submit", "state"}
  BY DEF Begin, Go, FirstStep, Ops
<1>2. /\ \A u \in Threads \ {t} : pc'[u] = pc[u] /\ call'[u] = call[u]
      /\ ~Alive(t) /\ ~Alive(t)' /\ ~Busy(t) /\ Busy(t)' /\ call'[t].onu = o
      /\ pc'[t] \in {"submit", "state"}
  BY <1>1 DEF TypeOK, Alive, Busy
<1>3. \A k \in EntryKinds, q \in Onus : EntryOf(k, q)' = EntryOf(k, q)
  BY <1>1 DEF EntryOf, maps
<1>4. \A u \in Threads, k \in EntryKinds, q \in Onus : Waits(u, k, q)' <=> Waits(u, k, q)
  BY <1>2 DEF Waits, Alive
<1>5. t \notin clean  BY <1>2 DEF RegInv, Alone
<1>6. \/ clean' \subseteq clean \cup {t} /\ \A u \in Threads : ~On(u, o)
      \/ clean' \subseteq {u \in clean : ~On(u, o)}
  BY DEF Begin, TypeOK
<1>7. WaitOps'  BY <1>2 DEF RegInv, WaitOps, Alive
<1>8. Pointers' /\ Registered'  BY <1>3, <1>4 DEF RegInv, Pointers, Registered
<1>9. Alone'
  <2> SUFFICES ASSUME NEW v \in clean'
               PROVE  Busy(v)' /\ \A u \in Threads \ {v} : ~On(u, call[v].onu)'
    BY DEF Alone
  <2>1. CASE v = t
    <3>1. \A u \in Threads : ~On(u, o)  BY <1>5, <1>6, <2>1
    <3> QED  BY <1>2, <2>1, <3>1 DEF On, Busy
  <2>2. CASE v # t
    <3>1. v \in clean /\ ~On(v, o) /\ v \in Threads  BY <1>6, <2>2 DEF TypeOK
    <3>2. Busy(v) /\ call[v].onu # o  BY <3>1 DEF RegInv, Alone, On
    <3>3. \A u \in Threads \ {v} : ~On(u, call[v].onu)  BY <3>1 DEF RegInv, Alone
    <3> QED  BY <1>2, <2>2, <3>1, <3>2, <3>3 DEF On, Busy
  <2> QED  BY <2>1, <2>2
<1>10. Sole'
  <2> SUFFICES ASSUME NEW v \in clean', pc'[v] = "wait"
               PROVE  (v = EntryOf(Kind(v), call[v].onu))'
    BY DEF Sole
  <2>1. v # t /\ v \in clean /\ v \in Threads  BY <1>2, <1>6 DEF TypeOK
  <2>2. call'[v] = call[v] /\ pc[v] = "wait"  BY <1>2, <2>1
  <2> QED  BY <1>1, <2>1, <2>2 DEF RegInv, Sole, Kind, EntryOf, maps
<1> QED  BY <1>7, <1>8, <1>9, <1>10 DEF RegInv

(* An answer.                                                              *)
LEMMA RegAnswer ==
  ASSUME TypeOK, RegInv, NEW t \in Threads, Answer(t)
  PROVE  RegInv'
<1>1. /\ pc[t] = "returned" /\ UNCHANGED maps /\ clean' = clean \ {t}
      /\ pc' = [pc EXCEPT ![t] = "idle"] /\ call' = [call EXCEPT ![t] = NoCall]
  BY DEF Answer
<1>2. /\ \A u \in Threads \ {t} : pc'[u] = pc[u] /\ call'[u] = call[u]
      /\ ~Alive(t) /\ ~Alive(t)' /\ ~Busy(t)' /\ pc'[t] = "idle"
  BY <1>1 DEF TypeOK, Alive, Busy
<1>3. \A k \in EntryKinds, q \in Onus : EntryOf(k, q)' = EntryOf(k, q)
  BY <1>1 DEF EntryOf, maps
<1>4. \A u \in Threads, k \in EntryKinds, q \in Onus : Waits(u, k, q)' <=> Waits(u, k, q)
  BY <1>2 DEF Waits, Alive
<1>5. WaitOps'  BY <1>2 DEF RegInv, WaitOps, Alive
<1>6. Pointers' /\ Registered'  BY <1>3, <1>4 DEF RegInv, Pointers, Registered
<1>7. Alone'  BY <1>1, <1>2 DEF RegInv, Alone, On, Busy, TypeOK
<1>8. Sole'   BY <1>1, <1>2 DEF RegInv, Sole, Kind, EntryOf, maps, TypeOK
<1> QED  BY <1>5, <1>6, <1>7, <1>8 DEF RegInv

(* Steps of BAL and of its callback thread.                                *)
LEMMA RegOutside ==
  ASSUME RegInv, UNCHANGED <<maps, pc, call, clean>>
  PROVE  RegInv'
BY DEF RegInv, WaitOps, Pointers, Registered, Alone, Sole, Waits, Alive, Busy, On, Kind, EntryOf, maps

LEMMA OutsideSteps ==
  ASSUME \/ \E o \in Onus : BalEnds(o) \/ GoesDown(o) \/ MeasurementEnds(o)
         \/ Callback \/ UNCHANGED vars
  PROVE  UNCHANGED <<maps, pc, call, rc, clean>>
<1>1. ASSUME NEW o \in Onus, BalEnds(o) \/ GoesDown(o) \/ MeasurementEnds(o)
      PROVE  UNCHANGED <<maps, pc, call, rc, clean>>
  BY <1>1 DEF BalEnds, ActivationEnds, DeactivationEnds, GoesDown, MeasurementEnds, Outside
<1>2. CASE OnuDeactivationCompletedIndication
  BY <1>2 DEF OnuDeactivationCompletedIndication, Handle, histVars
<1>3. CASE OnuRssiMeasurementCompletedIndication
  BY <1>3 DEF OnuRssiMeasurementCompletedIndication, Handle, histVars
<1>4. CASE UNCHANGED vars
  BY <1>4 DEF vars, histVars
<1> QED  BY <1>1, <1>2, <1>3, <1>4 DEF Callback

LEMMA InitReg == Init => RegInv
BY OnuAssumption DEF Init, RegInv, WaitOps, Pointers, Registered, Alone, Sole, Alive, EntryOf

LEMMA NextReg == TypeOK /\ RegInv /\ [Next]_vars => RegInv'
<1> SUFFICES ASSUME TypeOK, RegInv, [Next]_vars  PROVE RegInv'
  OBVIOUS
<1>1. ASSUME NEW t \in Threads, NEW o \in Onus, CallAgain(t, o) \/ \E op \in Ops : Call(t, op, o)
      PROVE  RegInv'
  BY <1>1, RegBegin DEF CallAgain, Call, Ops
<1> QED  BY <1>1, RegAnswer, RegRpc, RegOutside, OutsideSteps DEF Next

(***************************************************************************)
(* The callback thread never pushes on the stack frame of a call that has  *)
(* gone, whatever calls for the same ONU do with each other's entries.     *)
(***************************************************************************)
THEOREM NoDangling == Spec => []NoDanglingQueue
<1>1. TypeOK /\ RegInv => NoDanglingQueue
  <2> SUFFICES ASSUME TypeOK, RegInv, NEW o \in Onus
               PROVE  /\ onu_deact_compltd_map[o] \in Threads =>
                           LET t == onu_deact_compltd_map[o]
                           IN  Alive(t) /\ call[t] = [op |-> "delete", onu |-> o]
                      /\ onu_rssi_compltd_map[o] \in Threads =>
                           LET t == onu_rssi_compltd_map[o]
                           IN  Alive(t) /\ call[t] = [op |-> "rssi", onu |-> o]
    BY DEF NoDanglingQueue
  <2>1. ASSUME NEW k \in EntryKinds, NEW t \in Threads, t = EntryOf(k, o)
        PROVE  Alive(t) /\ call[t] = [op |-> OpFor(k), onu |-> o]
    <3>1. Waits(t, k, o)  BY <2>1 DEF RegInv, Pointers
    <3>2. call[t] \in [op : Ops, onu : Onus]  BY <3>1 DEF Waits, Alive, TypeOK, Busy
    <3> QED  BY <3>1, <3>2 DEF Waits
  <2> QED  BY <2>1 DEF EntryOf, EntryKinds, OpFor
<1> QED  BY <1>1, InitType, NextType, InitReg, NextReg, PTL DEF Spec

(***************************************************************************)
(* A call that has the ONU for itself waits on a registered queue, though  *)
(* GetPonRxPower_ does not replace an entry that is there: the calls before*)
(* it have all removed theirs.                                             *)
(***************************************************************************)
THEOREM SoleWaiter == Spec => []SoleWaiterIsRegistered
<1>1. RegInv => SoleWaiterIsRegistered
  BY DEF RegInv, Sole, SoleWaiterIsRegistered, EntryOf
<1> QED  BY <1>1, InitType, NextType, InitReg, NextReg, PTL DEF Spec

-----------------------------------------------------------------------------
(***************************************************************************)
(* For a call of DeleteOnu_ that has the ONU for itself, every sign that   *)
(* the ONU went down means that it is down: a report under way, a report   *)
(* in the queue, the result of the wait.                                   *)
(***************************************************************************)
IsDown(t)   == onu[call[t].onu] = "INACTIVE"
WentDown(t) == \E i \in DOMAIN reports :
  reports[i].kind = "deact" /\ reports[i].onu = call[t].onu /\ reports[i].result = "SUCCESS"
Told(t) ==
  \/ WentDown(t)
  \/ pc[t] = "wait" /\ \E i \in DOMAIN queue[t] : queue[t][i] = "SUCCESS"
  \/ pc[t] \in {"timedout", "erase"} /\ rc[t] = "OK"
  \/ pc[t] = "clear"

Deletes(t) == Busy(t) /\ call[t].op = "delete" /\ pc[t] # "returned"

DownInv == \A t \in clean : Deletes(t) /\ Told(t) => IsDown(t)

(***************************************************************************)
(* An ONU that is down stays down as long as nobody but that call is at    *)
(* work on it.                                                             *)
(***************************************************************************)
LEMMA AgentDown ==
  ASSUME TypeOK, RegInv, NEW u \in Threads, Rpc(u), NEW t \in clean, Deletes(t), pc'[t] # "returned",
         IsDown(t)
  PROVE  IsDown(t)'
<1>0. t \in Threads  BY DEF TypeOK
<1>1. CASE u = t
  <2>1. call[t].op = "delete"  BY DEF Deletes
  <2>2. UNCHANGED <<onu, call>>
    <3>1. CASE \/ EncryptOmci(t) \/ ActivateState(t) \/ DeactivateState(t) \/ CheckInactive(t)
               \/ ActivateFails(t) \/ DeactivateFails(t) \/ CheckFails(t) \/ OtherFails(t)
               \/ RssiSubmit(t)
      BY <3>1 DEF EncryptOmci, ActivateState, DeactivateState, CheckInactive, ActivateFails,
         DeactivateFails, CheckFails, OtherFails, RssiSubmit, Fails, balVars, AgentOnly
    <3>2. CASE \/ DeactInsert(t) \/ DeactRegister(t) \/ RssiRegister(t) \/ PopResult(t)
               \/ PopTimesOut(t) \/ Invalidate(t) \/ Erase(t)
      BY <3>2 DEF DeactInsert, DeactRegister, RssiRegister, PopResult, PopTimesOut, Invalidate,
         Erase, Waiting, balVars
    <3>3. CASE Configure(t) \/ ActivateSubmit(t) \/ SetAdminState(t)
      BY <2>1, <3>3 DEF Configure, ActivateSubmit, SetAdminState, Does
    <3>4. CASE Clear(t)
      <4>1. pc'[t] = "returned"  BY <1>0, <3>4 DEF Clear, Return, TypeOK
      <4> QED  BY <4>1
    <3>5. CASE DeactivateSubmit(t)
      BY <1>0, <3>5 DEF DeactivateSubmit, SetOnuState, IsDown, AgentOnly, TypeOK
    <3> QED  BY <1>1, <3>1, <3>2, <3>3, <3>4, <3>5 DEF Rpc
  <2> QED  BY <2>2 DEF IsDown
<1>2. CASE u # t
  <2>1. Busy(u)
    BY DEF Rpc, ActivateState, Configure, EncryptOmci, ActivateSubmit, ActivateFails,
       DeactivateState, DeactivateSubmit, DeactivateFails, CheckInactive, CheckFails, Clear,
       DeactInsert, DeactRegister, RssiSubmit, RssiRegister, PopResult, PopTimesOut, Invalidate,
       Erase, SetAdminState, OtherFails, Fails, Does, Busy
  <2>2. call[u].onu # call[t].onu
    BY <1>2, <2>1 DEF RegInv, Alone, On
  <2>3. UNCHANGED call
    BY DEF Rpc, ActivateState, Configure, EncryptOmci, ActivateSubmit, ActivateFails,
       DeactivateState, DeactivateSubmit, DeactivateFails, CheckInactive, CheckFails, Clear,
       DeactInsert, DeactRegister, RssiSubmit, RssiRegister, PopResult, PopTimesOut, Invalidate,
       Erase, SetAdminState, OtherFails, Fails, AgentOnly, Waiting
  <2>4. onu' = onu \/ \E s : onu' = [onu EXCEPT ![call[u].onu] = s]
    <3>1. CASE \/ Configure(u) \/ ActivateSubmit(u) \/ DeactivateSubmit(u) \/ Clear(u)
               \/ SetAdminState(u)
      BY <3>1 DEF Configure, ActivateSubmit, DeactivateSubmit, Clear, SetAdminState, SetOnuState
    <3>2. CASE ~(\/ Configure(u) \/ ActivateSubmit(u) \/ DeactivateSubmit(u) \/ Clear(u)
                 \/ SetAdminState(u))
      BY <3>2 DEF Rpc, ActivateState, EncryptOmci, ActivateFails, DeactivateState,
         DeactivateFails, CheckInactive, CheckFails, DeactInsert, DeactRegister, RssiSubmit,
         RssiRegister, PopResult, PopTimesOut, Invalidate, Erase, OtherFails, Fails, balVars, Waiting
    <3> QED  BY <3>1, <3>2
  <2>5. \A o \in Onus : o # call[u].onu => onu'[o] = onu[o]
    BY <2>4 DEF TypeOK
  <2>6. call[t].onu \in Onus  BY <1>0, CallFacts DEF Deletes, Busy
  <2> QED  BY <2>2, <2>3, <2>5, <2>6 DEF IsDown
<1> QED  BY <1>1, <1>2

(* A step of an RPC learns that the ONU is down only when it is.           *)
LEMMA DownRpc ==
  ASSUME TypeOK, RegInv, DownInv, NEW u \in Threads, Rpc(u)
  PROVE  DownInv'
<1>1. UNCHANGED <<call, clean, reports>>
  BY DEF Rpc, ActivateState, Configure, EncryptOmci, ActivateSubmit, ActivateFails,
     DeactivateState, DeactivateSubmit, DeactivateFails, CheckInactive, CheckFails, Clear,
     DeactInsert, DeactRegister, RssiSubmit, RssiRegister, PopResult, PopTimesOut, Invalidate,
     Erase, SetAdminState, OtherFails, Fails, balVars, AgentOnly, Waiting, SetOnuState, histVars
<1> SUFFICES ASSUME NEW t \in clean, Deletes(t)', Told(t)'
               PROVE  IsDown(t)'
  BY <1>1 DEF DownInv
<1>3. t \in Threads /\ pc'[t] # "returned" /\ Busy(t) /\ call[t].op = "delete"
  BY <1>1 DEF TypeOK, Deletes, RegInv, Alone
<1>4. pc[t] = "returned" => pc'[t] = "returned"
  BY <1>3 DEF Rpc, ActivateState, Configure, EncryptOmci, ActivateSubmit, ActivateFails,
     DeactivateState, DeactivateSubmit, DeactivateFails, DeactivateDone, CheckInactive, CheckFails,
     Clear, DeactInsert, DeactRegister, RssiSubmit, RssiRegister, PopResult, PopTimesOut, Invalidate,
     Erase, AfterWait, SetAdminState, OtherFails, Fails, Does, Go, Return, TypeOK
<1>5. Deletes(t)  BY <1>3, <1>4 DEF Deletes
<1> SUFFICES IsDown(t)
  BY <1>3, <1>5, AgentDown
<1>7. CASE Told(t)
  BY <1>5, <1>7 DEF DownInv
<1>8. CASE ~Told(t)
  <2>1. ~WentDown(t) /\ ~WentDown(t)'
    BY <1>1, <1>8 DEF Told, WentDown
  <2>2. CASE u = t
    <3>1. CASE CheckInactive(t)
      BY <1>3, <2>1, <3>1 DEF CheckInactive, Does, Go, Told, AgentOnly, TypeOK, IsDown
    <3>2. CASE PopResult(t)
      <4>1. Head(queue[t]) = "SUCCESS" /\ queue[t] # <<>> /\ pc[t] = "wait"
        BY <1>3, <2>1, <3>2 DEF PopResult, Told, TypeOK
      <4>2. queue[t] \in Seq(Results)  BY <1>3 DEF TypeOK
      <4>3. 1 \in DOMAIN queue[t] /\ queue[t][1] = "SUCCESS"  BY <4>1, <4>2, TailType
      <4> QED  BY <1>8, <4>1, <4>3 DEF Told
    <3>3. CASE DeactRegister(t) \/ RssiRegister(t)
      BY <1>3, <2>1, <3>3 DEF DeactRegister, RssiRegister, Go, Told, TypeOK
    <3>4. CASE PopTimesOut(t) \/ Invalidate(t) \/ DeactInsert(t)
      <4>1. rc'[t] # "OK" \/ pc'[t] \notin {"timedout", "erase"}
        <5>1. CASE Invalidate(t)
          BY <1>3, <1>8, <3>4, <5>1 DEF Invalidate, Go, Told, TypeOK
        <5>2. CASE PopTimesOut(t) \/ DeactInsert(t)
          BY <1>3, <5>2 DEF PopTimesOut, DeactInsert, Go, TypeOK
        <5> QED  BY <3>4, <5>1, <5>2
      <4> QED
        BY <1>3, <2>1, <3>4, <4>1 DEF PopTimesOut, Invalidate, DeactInsert, Go, Told, TypeOK
    <3>5. CASE Erase(t)
      BY <1>3, <1>8, <2>1, <3>5 DEF Erase, AfterWait, Told, TypeOK
    <3>6. CASE \/ ActivateState(t) \/ Configure(t) \/ EncryptOmci(t) \/ ActivateSubmit(t)
               \/ ActivateFails(t) \/ DeactivateState(t) \/ DeactivateSubmit(t)
               \/ DeactivateFails(t) \/ CheckFails(t) \/ Clear(t) \/ RssiSubmit(t)
               \/ SetAdminState(t) \/ OtherFails(t)
      <4>1. \E p \in {"config", "omci", "submit", "check", "register", "returned"} :
              pc' = [pc EXCEPT ![t] = p]
        BY <3>6 DEF ActivateState, Configure, EncryptOmci, ActivateSubmit, ActivateFails,
           DeactivateState, DeactivateSubmit, DeactivateFails, DeactivateDone, CheckFails, Clear,
           RssiSubmit, SetAdminState, OtherFails, Fails, Go, Return
      <4> QED  BY <1>3, <2>1, <4>1 DEF Told, TypeOK
    <3> QED  BY <2>2, <3>1, <3>2, <3>3, <3>4, <3>5, <3>6 DEF Rpc
  <2>3. CASE u # t
    <3>1. pc'[t] = pc[t] /\ rc'[t] = rc[t] /\ queue'[t] = queue[t]
      BY <1>3, <2>3 DEF Rpc, ActivateState, Configure, EncryptOmci, ActivateSubmit, ActivateFails,
         DeactivateState, DeactivateSubmit, DeactivateFails, DeactivateDone, CheckInactive,
         CheckFails, Clear, DeactInsert, DeactRegister, RssiSubmit, RssiRegister, PopResult,
         PopTimesOut, Invalidate, Erase, AfterWait, SetAdminState, OtherFails, Fails, Go, Return,
         AgentOnly, TypeOK
    <3> QED  BY <1>8, <2>1, <3>1 DEF Told
  <2> QED  BY <2>2, <2>3
<1> QED  BY <1>7, <1>8

(* A call begins: there was no report under way, or it is not alone.       *)
LEMMA DownBegin ==
  ASSUME TypeOK, RegInv, DownInv, NEW u \in Threads, NEW op \in Ops, NEW o \in Onus, Begin(u, op, o)
  PROVE  DownInv'
<1>1. /\ pc[u] = "idle" /\ UNCHANGED <<onu, reports, queue, rc>>
      /\ call' = [call EXCEPT ![u] = [op |-> op, onu |-> o]]
      /\ pc' = [pc EXCEPT ![u] = FirstStep(op)]
      /\ FirstStep(op) \in {"submit", "state"}
  BY DEF Begin, Go, FirstStep, Ops, balVars
<1> DEFINE late == \E i \in DOMAIN reports : reports[i].onu = o
<1>2. \A t \in clean' : t \in clean \/ (t = u /\ ~late)
  <2>1. CASE late   BY <2>1 DEF Begin
  <2>2. CASE ~late  BY <2>2 DEF Begin
  <2> QED  BY <2>1, <2>2
<1> SUFFICES ASSUME NEW t \in clean', Deletes(t)', Told(t)'
             PROVE  IsDown(t)'
  BY DEF DownInv
<1>3. u \notin clean  BY <1>1 DEF RegInv, Alone, Busy
<1>4. CASE t = u
  <2>1. ~WentDown(t)'  BY <1>1, <1>2, <1>3, <1>4 DEF WentDown, TypeOK
  <2> QED  BY <1>1, <1>4, <2>1 DEF Told, TypeOK
<1>5. CASE t # u
  <2>1. t \in clean /\ t \in Threads  BY <1>2, <1>5 DEF TypeOK
  <2>2. pc'[t] = pc[t] /\ call'[t] = call[t]  BY <1>1, <1>5, <2>1 DEF TypeOK
  <2>3. Deletes(t) /\ Told(t)  BY <1>1, <2>2 DEF Deletes, Busy, Told, WentDown
  <2> QED  BY <1>1, <2>1, <2>2, <2>3 DEF DownInv, IsDown
<1> QED  BY <1>4, <1>5

LEMMA DownAnswer ==
  ASSUME TypeOK, DownInv, NEW u \in Threads, Answer(u)
  PROVE  DownInv'
<1>1. /\ UNCHANGED <<onu, reports, queue>> /\ clean' = clean \ {u}
      /\ \A t \in Threads \ {u} : pc'[t] = pc[t] /\ call'[t] = call[t] /\ rc'[t] = rc[t]
  BY DEF Answer, balVars, TypeOK
<1> SUFFICES ASSUME NEW t \in clean', Deletes(t)', Told(t)'
             PROVE  IsDown(t)'
  BY DEF DownInv
<1>2. t \in clean /\ t \in Threads \ {u}  BY <1>1 DEF TypeOK
<1>3. Deletes(t) /\ Told(t)  BY <1>1, <1>2 DEF Deletes, Busy, Told, WentDown
<1> QED  BY <1>1, <1>2, <1>3 DEF DownInv, IsDown

(* BAL reports that an ONU went down when it has.                          *)
LEMMA DownBal ==
  ASSUME TypeOK, RegInv, DownInv, NEW o \in Onus, BalEnds(o) \/ GoesDown(o) \/ MeasurementEnds(o)
  PROVE  DownInv'
<1>1. UNCHANGED <<queue, pc, call, rc, clean>>
  BY DEF BalEnds, ActivationEnds, DeactivationEnds, GoesDown, MeasurementEnds, Outside
<1>2. \A p \in Onus : onu[p] = "INACTIVE" => onu'[p] = "INACTIVE"
  BY DEF BalEnds, ActivationEnds, DeactivationEnds, GoesDown, MeasurementEnds, TypeOK
<1>3. \A i \in DOMAIN reports' :
        /\ reports'[i].kind = "deact" /\ reports'[i].result = "SUCCESS"
        => \/ onu'[reports'[i].onu] = "INACTIVE"
           \/ \E j \in DOMAIN reports : reports'[i] = reports[j]
  <2>1. ASSUME NEW kind, NEW r, Report(kind, o, r), r \in Results, kind \in {"deact", "rssi"},
               kind = "deact" /\ r = "SUCCESS" => onu'[o] = "INACTIVE"
        PROVE  \A i \in DOMAIN reports' :
                 /\ reports'[i].kind = "deact" /\ reports'[i].result = "SUCCESS"
                 => \/ onu'[reports'[i].onu] = "INACTIVE"
                    \/ \E j \in DOMAIN reports : reports'[i] = reports[j]
    <3> DEFINE m == [kind |-> kind, onu |-> o, result |-> r]
    <3>1. m \in Reports /\ reports \in Seq(Reports) /\ reports' = Append(reports, m)
      BY <2>1 DEF Report, Reports, TypeOK
    <3>2. \A k \in DOMAIN reports' : reports'[k] = m \/ \E l \in DOMAIN reports : reports'[k] = reports[l]
      <4> HIDE DEF m
      <4> QED  BY <3>1, AppendType
    <3> QED  BY <2>1, <3>2
  <2>2. CASE ActivationEnds(o)
    BY <2>2 DEF ActivationEnds
  <2>3. CASE DeactivationEnds(o)
    <3>1. \/ Report("deact", o, "SUCCESS") /\ onu' = [onu EXCEPT ![o] = "INACTIVE"]
          \/ Report("deact", o, "FAIL")
      BY <2>3 DEF DeactivationEnds
    <3>2. CASE Report("deact", o, "SUCCESS") /\ onu' = [onu EXCEPT ![o] = "INACTIVE"]
      BY <2>1, <3>2 DEF TypeOK, Results
    <3>3. CASE Report("deact", o, "FAIL")
      BY <2>1, <3>3 DEF Results
    <3> QED  BY <3>1, <3>2, <3>3
  <2>4. CASE GoesDown(o)
    <3>1. Report("deact", o, "SUCCESS") /\ onu' = [onu EXCEPT ![o] = "INACTIVE"]
      BY <2>4 DEF GoesDown
    <3> QED  BY <2>1, <3>1 DEF TypeOK, Results
  <2>5. CASE MeasurementEnds(o)
    <3>1. \E r \in Results : Report("rssi", o, r)  BY <2>5 DEF MeasurementEnds
    <3> QED  BY <2>1, <3>1
  <2> QED  BY <2>2, <2>3, <2>4, <2>5 DEF BalEnds
<1> SUFFICES ASSUME NEW t \in clean', Deletes(t)', Told(t)'
             PROVE  IsDown(t)'
  BY DEF DownInv
<1>4. t \in clean /\ t \in Threads /\ Deletes(t) /\ call[t].onu \in Onus
  <2>1. t \in clean /\ t \in Threads /\ Deletes(t)  BY <1>1 DEF TypeOK, Deletes, Busy
  <2> QED  BY <2>1, CallFacts DEF Deletes, Busy
<1>5. CASE Told(t)
  BY <1>1, <1>2, <1>4, <1>5 DEF DownInv, IsDown
<1>6. CASE ~Told(t)
  <2>1. WentDown(t)' /\ ~WentDown(t)  BY <1>1, <1>6 DEF Told
  <2> QED  BY <1>1, <1>3, <2>1 DEF WentDown, IsDown
<1> QED  BY <1>5, <1>6

(* The callback thread hands a report to the queue of a call for that ONU. *)
LEMMA DownCallback ==
  ASSUME TypeOK, RegInv, DownInv, Callback
  PROVE  DownInv'
<1>1. UNCHANGED <<onu, pc, call, rc, clean>>
  <2>1. CASE OnuDeactivationCompletedIndication
    BY <2>1 DEF OnuDeactivationCompletedIndication, Handle, histVars
  <2>2. CASE OnuRssiMeasurementCompletedIndication
    BY <2>2 DEF OnuRssiMeasurementCompletedIndication, Handle, histVars
  <2> QED  BY <2>1, <2>2 DEF Callback
<1>2. PICK k \in EntryKinds :
        /\ reports # <<>> /\ reports' = Tail(reports) /\ Head(reports).kind = k
        /\ \/ queue' = queue
           \/ LET e == EntryOf(k, Head(reports).onu)
              IN  e \in Threads /\ queue' = [queue EXCEPT ![e] = Append(@, Head(reports).result)]
  <2>1. CASE OnuDeactivationCompletedIndication
    BY <2>1 DEF OnuDeactivationCompletedIndication, Handle, EntryKinds, EntryOf
  <2>2. CASE OnuRssiMeasurementCompletedIndication
    BY <2>2 DEF OnuRssiMeasurementCompletedIndication, Handle, EntryKinds, EntryOf
  <2> QED  BY <2>1, <2>2 DEF Callback
<1> DEFINE m == Head(reports)
<1>3. /\ m \in Reports /\ 1 \in DOMAIN reports /\ m = reports[1]
      /\ \A i \in DOMAIN reports' : \E j \in DOMAIN reports : reports'[i] = reports[j]
  BY <1>2, TailType DEF TypeOK
<1> SUFFICES ASSUME NEW t \in clean', Deletes(t)', Told(t)'
             PROVE  IsDown(t)'
  BY DEF DownInv
<1>4. t \in clean /\ t \in Threads /\ Deletes(t)  BY <1>1 DEF TypeOK, Deletes, Busy
<1>5. CASE Told(t)
  BY <1>1, <1>4, <1>5 DEF DownInv, IsDown
<1>6. CASE ~Told(t)
  <2>1. ~WentDown(t) /\ ~WentDown(t)'  BY <1>1, <1>3, <1>6 DEF Told, WentDown
  <2>2. \E i \in DOMAIN queue'[t] : queue'[t][i] = "SUCCESS"
    BY <1>1, <1>6, <2>1 DEF Told
  <2>3. pc[t] = "wait" /\ ~\E i \in DOMAIN queue[t] : queue[t][i] = "SUCCESS"
    BY <1>1, <1>6, <2>1 DEF Told
  <2>4. t = EntryOf(k, m.onu) /\ queue'[t] = Append(queue[t], m.result)
    BY <1>2, <1>4, <2>2, <2>3 DEF TypeOK
  <2>5. m.result = "SUCCESS"
    <3>1. queue[t] \in Seq(Results) /\ m.result \in Results  BY <1>3, <1>4 DEF TypeOK, Reports
    <3> HIDE DEF m
    <3> QED  BY <2>2, <2>3, <2>4, <3>1, AppendType
  <2>6. Waits(t, k, m.onu)  BY <1>3, <1>4, <2>4 DEF RegInv, Pointers, Reports
  <2>7. k = "deact" /\ call[t].onu = m.onu  BY <1>4, <2>6 DEF Waits, OpFor, EntryKinds, Deletes
  <2> QED  BY <1>2, <1>3, <2>1, <2>5, <2>7 DEF WentDown
<1> QED  BY <1>5, <1>6

LEMMA NextDown == TypeOK /\ RegInv /\ DownInv /\ [Next]_vars => DownInv'
<1> SUFFICES ASSUME TypeOK, RegInv, DownInv, [Next]_vars  PROVE DownInv'
  OBVIOUS
<1>1. ASSUME NEW t \in Threads, NEW o \in Onus, CallAgain(t, o) \/ \E op \in Ops : Call(t, op, o)
      PROVE  DownInv'
  BY <1>1, DownBegin DEF CallAgain, Call, Ops
<1>2. CASE UNCHANGED vars
  BY <1>2 DEF vars, balVars, histVars, DownInv, Deletes, Busy, Told, WentDown, IsDown
<1> QED  BY <1>1, <1>2, DownAnswer, DownRpc, DownBal, DownCallback DEF Next

(***************************************************************************)
(* A call of DeleteOnu_ that has the ONU for itself asks BAL to clear it   *)
(* only when it is down, whether it was, went down by itself, or was       *)
(* waited for.                                                             *)
(***************************************************************************)
THEOREM ClearedInactive == Spec => []ClearedWhenInactive
<1>1. Init => DownInv  BY DEF Init, DownInv
<1>2. TypeOK /\ RegInv /\ DownInv => ClearedWhenInactive
  <2> SUFFICES ASSUME TypeOK, RegInv, DownInv, NEW t \in clean, pc[t] = "clear"
               PROVE  onu[call[t].onu] = "INACTIVE"
    BY DEF ClearedWhenInactive
  <2>1. Deletes(t) /\ Told(t)
    BY DEF Deletes, Told, Busy, RegInv, WaitOps, TypeOK
  <2> QED  BY <2>1 DEF DownInv, IsDown
<1> QED  BY <1>1, <1>2, InitType, NextType, InitReg, NextReg, NextDown, PTL DEF Spec
=============================================================================
