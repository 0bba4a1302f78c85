---------------------------- MODULE OnuLifecycle ----------------------------
(***************************************************************************)
(* Activating, deactivating, deleting and measuring an ONU.                *)
(*                                                                         *)
(* The RPCs run on gRPC threads and read or change the state BAL keeps for *)
(* an ONU, one request after the other, so that the ONU may have changed   *)
(* in between.  A change of state takes its time; DeleteOnu_ and           *)
(* GetPonRxPower_ wait for BAL's report of the end: each puts a pointer to *)
(* a queue ON ITS OWN STACK in a map, AFTER it has made its request, and   *)
(* pops the queue with a timeout.  BAL's callback thread looks the pointer *)
(* up.  A report carries nothing that ties it to a request, and one comes  *)
(* as well when an ONU goes down by itself.                                *)
(*                                                                         *)
(* Data abstracted: serial numbers and profiles; the two requests          *)
(* DisableOnu_ and EnableOnu_ stand for themselves.  A timed pop may give  *)
(* up at any moment.                                                       *)
(***************************************************************************)
EXTENDS Naturals, Sequences, FiniteSets

CONSTANTS
  Threads,    \* gRPC threads
  Onus,       \* (pon interface, ONU id)
  MaxCalls,   \* bound: calls, not counting the repetitions of DeleteOnu_
  MaxFaults,  \* bound: refusals and failures of BAL, ONUs going down
  MaxReports, \* bound: reports BAL has not handed over yet
  NoEntry, Null  \* the key is not in the map; it is, with a NULL pointer

ASSUME OnuAssumption ==
  /\ NoEntry \notin Threads /\ Null \notin Threads /\ NoEntry # Null
  /\ {MaxCalls, MaxFaults, MaxReports} \subseteq Nat

VARIABLES
  \* BAL (external)
  onu,        \* state of an ONU
  goal,       \* the state a PROCESSING ONU is on the way to
  measuring,  \* ONUs whose reception power is being measured
  reports,    \* reports not yet handed to the agent, oldest first
  \* the agent
  onu_deact_compltd_map, onu_rssi_compltd_map,
  queue,      \* the queue on the stack of a waiting thread
  pc, call, rc,
  \* history
  calls, faults,
  wanted,     \* ONUs the client wants gone: it repeats DeleteOnu_ until OK
  clean       \* threads whose call nothing else has interfered with

balVars  == <<onu, goal, measuring, reports>>
maps     == <<onu_deact_compltd_map, onu_rssi_compltd_map>>
histVars == <<calls, faults, wanted, clean>>
vars == <<balVars, maps, queue, pc, call, rc, histVars>>

OnuStates == {"NOT_CONFIGURED", "INACTIVE", "PROCESSING", "ACTIVE", "DISABLED"}
Goals     == {"INACTIVE", "ACTIVE"}
Ops       == {"activate", "deactivate", "delete", "disable", "enable", "rssi"}
Results   == {"SUCCESS", "FAIL"}
Reports   == [kind : {"deact", "rssi"}, onu : Onus, result : Results]

PCs == {"idle", "state", "config", "omci", "submit", "check", "insert", "register",
        "wait", "timedout", "erase", "clear", "returned"}

NoCall == [op |-> "none", onu |-> NoEntry]

Busy(t) == pc[t] # "idle"
On(t, o) == Busy(t) /\ call[t].onu = o

Init ==
  /\ onu = [o \in Onus |-> "NOT_CONFIGURED"]
  /\ goal = [o \in Onus |-> "ACTIVE"]
  /\ measuring = {} /\ reports = <<>>
  /\ onu_deact_compltd_map = [o \in Onus |-> NoEntry]
  /\ onu_rssi_compltd_map = [o \in Onus |-> NoEntry]
  /\ queue = [t \in Threads |-> <<>>]
  /\ pc = [t \in Threads |-> "idle"]
  /\ call = [t \in Threads |-> NoCall]
  /\ rc = [t \in Threads |-> "none"]
  /\ calls = 0 /\ faults = 0 /\ wanted = {} /\ clean = {}

Refused == faults < MaxFaults /\ faults' = faults + 1
Granted == faults' = faults

Go(t, to)     == pc' = [pc EXCEPT ![t] = to] /\ UNCHANGED rc
Return(t, r)  == pc' = [pc EXCEPT ![t] = "returned"] /\ rc' = [rc EXCEPT ![t] = r]
Does(t, op, from) == pc[t] = from /\ call[t].op = op

-----------------------------------------------------------------------------
(* The client (external).                                                  *)

FirstStep(op) == CASE op \in {"disable", "enable", "rssi"} -> "submit" [] OTHER -> "state"

Begin(t, op, o) ==
  /\ pc[t] = "idle"
  /\ Go(t, FirstStep(op))
  /\ call' = [call EXCEPT ![t] = [op |-> op, onu |-> o]]
  /\ clean' = LET others == {u \in Threads : On(u, o)}
                  late   == \E i \in DOMAIN reports : reports[i].onu = o
              IN  IF others = {} /\ ~late THEN clean \cup {t} ELSE clean \ others
  /\ UNCHANGED <<balVars, maps, queue, faults>>

Call(t, op, o) ==
  /\ calls < MaxCalls /\ (o \in wanted => op \in {"delete", "rssi"})
  /\ Begin(t, op, o)
  /\ calls' = calls + 1
  /\ wanted' = IF op = "delete" THEN wanted \cup {o} ELSE wanted

(* DeleteOnu_ did not return OK, and is called again.                      *)
CallAgain(t, o) ==
  /\ o \in wanted /\ \A u \in Threads : ~On(u, o)
  /\ Begin(t, "delete", o)
  /\ UNCHANGED <<calls, wanted>>

(* The client takes the answer.                                            *)
Answer(t) ==
  /\ pc[t] = "returned"
  /\ pc' = [pc EXCEPT ![t] = "idle"]
  /\ rc' = [rc EXCEPT ![t] = "none"]
  /\ call' = [call EXCEPT ![t] = NoCall]
  /\ wanted' = IF call[t].op = "delete" /\ rc[t] = "OK" THEN wanted \ {call[t].onu} ELSE wanted
  /\ clean' = clean \ {t}
  /\ UNCHANGED <<balVars, maps, queue, calls, faults>>

-----------------------------------------------------------------------------
(* ActivateOnu_.                                                           *)

AgentOnly == UNCHANGED <<maps, queue, call, calls, wanted, clean>>

(* A query or a request fails: so does the call.                           *)
Fails(t, op, from) ==
  /\ Does(t, op, from) /\ Refused
  /\ Return(t, "ERR")
  /\ UNCHANGED balVars /\ AgentOnly

ActivateState(t) ==
  LET s == onu[call[t].onu] IN
  /\ Does(t, "activate", "state") /\ Granted
  /\ \/ s = "ACTIVE" /\ Return(t, "OK")
     \/ s = "NOT_CONFIGURED" /\ Go(t, "config")
     \/ s = "INACTIVE" /\ Go(t, "omci")
     \/ s \in {"PROCESSING", "DISABLED"} /\ Return(t, "ERR")
  /\ UNCHANGED balVars /\ AgentOnly

Configure(t) ==
  LET o == call[t].onu IN
  /\ Does(t, "activate", "config") /\ Granted
  /\ Go(t, "omci")
  /\ onu' = [onu EXCEPT ![o] = IF @ = "NOT_CONFIGURED" THEN "INACTIVE" ELSE @]
  /\ UNCHANGED <<goal, measuring, reports>> /\ AgentOnly

(* Encryption of the OMCI channel, when it is asked for.                   *)
EncryptOmci(t) ==
  /\ Does(t, "activate", "omci") /\ Granted
  /\ Go(t, "submit")
  /\ UNCHANGED balVars /\ AgentOnly

(* BAL starts the change if the ONU is in state s, else nothing changes.   *)
SetOnuState(o, s, g) ==
  /\ onu' = [onu EXCEPT ![o] = IF @ = s THEN "PROCESSING" ELSE @]
  /\ goal' = [goal EXCEPT ![o] = IF onu[o] = s THEN g ELSE @]
  /\ UNCHANGED <<measuring, reports>>

ActivateSubmit(t) ==
  /\ Does(t, "activate", "submit") /\ Granted
  /\ SetOnuState(call[t].onu, "INACTIVE", "ACTIVE")
  /\ Return(t, "OK")
  /\ AgentOnly

ActivateFails(t) == \E step \in {"state", "config", "omci", "submit"} : Fails(t, "activate", step)

-----------------------------------------------------------------------------
(* DeactivateOnu_, an RPC of its own and the first part of DeleteOnu_.     *)

Deactivates(t) == call[t].op \in {"deactivate", "delete"}

DeactivateDone(t) ==
  IF call[t].op = "delete" THEN Go(t, "check") ELSE Return(t, "OK")

(* Only an ACTIVE ONU is deactivated.                                      *)
DeactivateState(t) ==
  /\ pc[t] = "state" /\ Deactivates(t) /\ Granted
  /\ IF onu[call[t].onu] = "ACTIVE" THEN Go(t, "submit") ELSE DeactivateDone(t)
  /\ UNCHANGED balVars /\ AgentOnly

DeactivateSubmit(t) ==
  /\ pc[t] = "submit" /\ Deactivates(t) /\ Granted
  /\ SetOnuState(call[t].onu, "ACTIVE", "INACTIVE")
  /\ DeactivateDone(t)
  /\ AgentOnly

DeactivateFails(t) ==
  \E op \in {"deactivate", "delete"}, step \in {"state", "submit"} : Fails(t, op, step)

-----------------------------------------------------------------------------
(* DeleteOnu_ and wait_for_onu_deactivate_complete.                        *)

(* Mutant: the state is not looked at, every deletion waits.               *)
CheckInactive_AlwaysWaits(t) ==
  /\ Does(t, "delete", "check") /\ Granted
  /\ Go(t, "insert")
  /\ UNCHANGED balVars /\ AgentOnly

CheckInactive(t) ==
  /\ Does(t, "delete", "check") /\ Granted
  /\ Go(t, IF onu[call[t].onu] = "INACTIVE" THEN "clear" ELSE "insert")
  /\ UNCHANGED balVars /\ AgentOnly

CheckFails(t) == Fails(t, "delete", "check")

Waiting == UNCHANGED <<balVars, call, histVars>>

Kind(t) == IF call[t].op = "rssi" THEN "rssi" ELSE "deact"

SetEntry(kind, o, e) ==
  IF kind = "deact"
  THEN /\ onu_deact_compltd_map' = [onu_deact_compltd_map EXCEPT ![o] = e]
       /\ UNCHANGED onu_rssi_compltd_map
  ELSE /\ onu_rssi_compltd_map' = [onu_rssi_compltd_map EXCEPT ![o] = e]
       /\ UNCHANGED onu_deact_compltd_map

(* map[k] = &queue, without the lock: a thread is inside the insertion.    *)
DeactInsert(t) ==
  /\ Does(t, "delete", "insert")
  /\ Go(t, "register")
  /\ UNCHANGED <<maps, queue>> /\ Waiting

DeactRegister(t) ==
  /\ Does(t, "delete", "register")
  /\ Go(t, "wait")
  /\ SetEntry("deact", call[t].onu, t)
  /\ queue' = [queue EXCEPT ![t] = <<>>]
  /\ Waiting

(* Mutant: the result of the deactivation is not looked at.                *)
PopResult_AnyResult(t) ==
  /\ pc[t] = "wait" /\ queue[t] # <<>>
  /\ pc' = [pc EXCEPT ![t] = "erase"]
  /\ rc' = [rc EXCEPT ![t] = "OK"]
  /\ queue' = [queue EXCEPT ![t] = Tail(@)]
  /\ UNCHANGED maps /\ Waiting

(* The result of a measurement is data, that of a deactivation is checked. *)
PopResult(t) ==
  /\ pc[t] = "wait" /\ queue[t] # <<>>
  /\ pc' = [pc EXCEPT ![t] = "erase"]
  /\ rc' = [rc EXCEPT ![t] = IF call[t].op = "rssi" \/ Head(queue[t]) = "SUCCESS"
                             THEN "OK" ELSE "ERR"]
  /\ queue' = [queue EXCEPT ![t] = Tail(@)]
  /\ UNCHANGED maps /\ Waiting

(* The pop gives up, whatever has been pushed since it last looked.        *)
PopTimesOut(t) ==
  /\ pc[t] = "wait"
  /\ pc' = [pc EXCEPT ![t] = "timedout"]
  /\ rc' = [rc EXCEPT ![t] = "ERR"]
  /\ UNCHANGED <<maps, queue>> /\ Waiting

(* map[k] = NULL                                                           *)
Invalidate(t) ==
  /\ pc[t] = "timedout"
  /\ Go(t, "erase")
  /\ SetEntry(Kind(t), call[t].onu, Null)
  /\ UNCHANGED queue /\ Waiting

AfterWait(t) ==
  pc' = [pc EXCEPT ![t] = IF call[t].op = "delete" /\ rc[t] = "OK" THEN "clear" ELSE "returned"]

(* Mutant: the entry of a wait that timed out is left, with its NULL.      *)
Erase_OnlyOnSuccess(t) ==
  /\ pc[t] = "erase"
  /\ AfterWait(t) /\ UNCHANGED rc
  /\ IF rc[t] = "OK" THEN SetEntry(Kind(t), call[t].onu, NoEntry) ELSE UNCHANGED maps
  /\ queue' = [queue EXCEPT ![t] = <<>>]
  /\ Waiting

(* Mutant: after a wait that was answered the entry is left.               *)
Erase_OnlyOnTimeout(t) ==
  /\ pc[t] = "erase"
  /\ AfterWait(t) /\ UNCHANGED rc
  /\ IF rc[t] = "ERR" THEN SetEntry(Kind(t), call[t].onu, NoEntry) ELSE UNCHANGED maps
  /\ queue' = [queue EXCEPT ![t] = <<>>]
  /\ Waiting

(* map.erase(k), and the queue is gone.                                    *)
Erase(t) ==
  /\ pc[t] = "erase"
  /\ AfterWait(t) /\ UNCHANGED rc
  /\ SetEntry(Kind(t), call[t].onu, NoEntry)
  /\ queue' = [queue EXCEPT ![t] = <<>>]
  /\ Waiting

(* BAL's rule: only the configuration of an INACTIVE ONU can be cleared.   *)
Clear(t) ==
  LET o == call[t].onu IN
  /\ Does(t, "delete", "clear")
  /\ \/ /\ onu[o] \in {"INACTIVE", "NOT_CONFIGURED"} /\ Granted
        /\ onu' = [onu EXCEPT ![o] = "NOT_CONFIGURED"]
        /\ Return(t, "OK")
     \/ /\ IF onu[o] \in {"INACTIVE", "NOT_CONFIGURED"} THEN Refused ELSE Granted
        /\ Return(t, "ERR") /\ UNCHANGED onu
  /\ UNCHANGED <<goal, measuring, reports>> /\ AgentOnly

-----------------------------------------------------------------------------
(* GetPonRxPower_, DisableOnu_ and EnableOnu_.                             *)

RssiSubmit(t) ==
  /\ Does(t, "rssi", "submit") /\ Granted
  /\ Go(t, "register")
  /\ measuring' = measuring \cup {call[t].onu}
  /\ UNCHANGED <<onu, goal, reports>> /\ AgentOnly

(* map.insert(), which leaves an entry that is there as it is.             *)
RssiRegister(t) ==
  LET o == call[t].onu IN
  /\ Does(t, "rssi", "register")
  /\ Go(t, "wait")
  /\ IF onu_rssi_compltd_map[o] = NoEntry THEN SetEntry("rssi", o, t) ELSE UNCHANGED maps
  /\ queue' = [queue EXCEPT ![t] = <<>>]
  /\ Waiting

Moves(op, s) == CASE op = "disable" /\ s = "ACTIVE" -> "DISABLED"
                  [] op = "enable" /\ s = "DISABLED" -> "INACTIVE"
                  [] OTHER -> s

SetAdminState(t) ==
  /\ \E op \in {"disable", "enable"} : Does(t, op, "submit")
  /\ Granted
  /\ onu' = [onu EXCEPT ![call[t].onu] = Moves(call[t].op, @)]
  /\ Return(t, "OK")
  /\ UNCHANGED <<goal, measuring, reports>> /\ AgentOnly

OtherFails(t) == \E op \in {"rssi", "disable", "enable"} : Fails(t, op, "submit")

-----------------------------------------------------------------------------
(* BAL (external).                                                         *)

Outside == UNCHANGED <<maps, queue, pc, call, rc, calls, wanted, clean>>

Report(kind, o, r) ==
  /\ Len(reports) < MaxReports
  /\ reports' = Append(reports, [kind |-> kind, onu |-> o, result |-> r])

ActivationEnds(o) ==
  /\ onu[o] = "PROCESSING" /\ goal[o] = "ACTIVE"
  /\ \/ Granted /\ onu' = [onu EXCEPT ![o] = "ACTIVE"]
     \/ Refused /\ onu' = [onu EXCEPT ![o] = "INACTIVE"]
  /\ UNCHANGED <<goal, measuring, reports>> /\ Outside

DeactivationEnds(o) ==
  /\ onu[o] = "PROCESSING" /\ goal[o] = "INACTIVE"
  /\ \/ Granted /\ onu' = [onu EXCEPT ![o] = "INACTIVE"] /\ Report("deact", o, "SUCCESS")
     \/ Refused /\ onu' = [onu EXCEPT ![o] = "ACTIVE"] /\ Report("deact", o, "FAIL")
  /\ UNCHANGED <<goal, measuring>> /\ Outside

(* Reboot, fibre pulled: a report nobody asked for.                        *)
GoesDown(o) ==
  /\ onu[o] = "ACTIVE" /\ Refused
  /\ onu' = [onu EXCEPT ![o] = "INACTIVE"]
  /\ Report("deact", o, "SUCCESS")
  /\ UNCHANGED <<goal, measuring>> /\ Outside

MeasurementEnds(o) ==
  /\ o \in measuring
  /\ measuring' = measuring \ {o}
  /\ \E r \in Results : Report("rssi", o, r)
  /\ UNCHANGED <<onu, goal, faults>> /\ Outside

-----------------------------------------------------------------------------
(* BAL's callback thread.                                                  *)

Handle(kind, entries, missed) ==
  LET m == Head(reports)
      e == entries[m.onu]
  IN  /\ reports # <<>> /\ m.kind = kind
      /\ reports' = Tail(reports)
      /\ \/ queue' = IF e \in Threads THEN [queue EXCEPT ![e] = Append(@, m.result)] ELSE queue
         \/ missed /\ UNCHANGED queue
      /\ UNCHANGED <<onu, goal, measuring, maps, pc, call, rc, histVars>>

(* While a thread is inside the unlocked insertion, the search may miss.   *)
OnuDeactivationCompletedIndication ==
  Handle("deact", onu_deact_compltd_map, \E t \in Threads : Does(t, "delete", "register"))

OnuRssiMeasurementCompletedIndication == Handle("rssi", onu_rssi_compltd_map, FALSE)

-----------------------------------------------------------------------------
Rpc(t) ==
  \/ ActivateState(t) \/ Configure(t) \/ EncryptOmci(t) \/ ActivateSubmit(t) \/ ActivateFails(t)
  \/ DeactivateState(t) \/ DeactivateSubmit(t) \/ DeactivateFails(t)
  \/ CheckInactive(t) \/ CheckFails(t) \/ Clear(t)
  \/ DeactInsert(t) \/ DeactRegister(t) \/ RssiSubmit(t) \/ RssiRegister(t)
  \/ PopResult(t) \/ PopTimesOut(t) \/ Invalidate(t) \/ Erase(t)
  \/ SetAdminState(t) \/ OtherFails(t)

Callback == OnuDeactivationCompletedIndication \/ OnuRssiMeasurementCompletedIndication

BalEnds(o) == ActivationEnds(o) \/ DeactivationEnds(o)

Next ==
  \/ \E t \in Threads, o \in Onus : CallAgain(t, o) \/ \E op \in Ops : Call(t, op, o)
  \/ \E t \in Threads : Answer(t) \/ Rpc(t)
  \/ \E o \in Onus : BalEnds(o) \/ GoesDown(o) \/ MeasurementEnds(o)
  \/ Callback

Spec == Init /\ [][Next]_vars

(***************************************************************************)
(* Threads run, BAL ends the changes it has accepted (measurements it may  *)
(* forget), and the client calls DeleteOnu_ again until it returns OK.     *)
(***************************************************************************)
FairSpec ==
  /\ Spec
  /\ \A t \in Threads : WF_vars(Rpc(t)) /\ WF_vars(Answer(t))
  /\ \A o \in Onus : WF_vars(BalEnds(o)) /\ WF_vars(\E t \in Threads : CallAgain(t, o))
  /\ WF_vars(Callback)

-----------------------------------------------------------------------------
(* Properties.                                                             *)

Entries == Threads \cup {NoEntry, Null}

TypeOK ==
  /\ onu \in [Onus -> OnuStates] /\ goal \in [Onus -> Goals]
  /\ measuring \subseteq Onus
  /\ reports \in Seq(Reports)
  /\ onu_deact_compltd_map \in [Onus -> Entries]
  /\ onu_rssi_compltd_map \in [Onus -> Entries]
  /\ queue \in [Threads -> Seq(Results)]
  /\ pc \in [Threads -> PCs]
  /\ call \in [Threads -> [op : Ops, onu : Onus] \cup {NoCall}]
  /\ \A t \in Threads : Busy(t) <=> call[t] # NoCall
  /\ rc \in [Threads -> {"none", "OK", "ERR"}]
  /\ \A t \in Threads : pc[t] \in {"timedout", "erase", "returned"} => rc[t] # "none"
  /\ calls \in 0 .. MaxCalls /\ faults \in 0 .. MaxFaults
  /\ wanted \subseteq Onus /\ clean \subseteq Threads

Alive(t) == pc[t] \in {"wait", "timedout", "erase"}

(***************************************************************************)
(* A pointer in a map points to the queue of a call that is still waiting, *)
(* and for that: the callback thread never pushes on a stack frame that is *)
(* gone, with calls for one ONU overwriting, not overwriting, clearing and *)
(* erasing each other's entries.                                           *)
(***************************************************************************)
NoDanglingQueue ==
  \A o \in Onus :
    /\ onu_deact_compltd_map[o] \in Threads =>
         LET t == onu_deact_compltd_map[o] IN Alive(t) /\ call[t] = [op |-> "delete", onu |-> o]
    /\ onu_rssi_compltd_map[o] \in Threads =>
         LET t == onu_rssi_compltd_map[o] IN Alive(t) /\ call[t] = [op |-> "rssi", onu |-> o]

(***************************************************************************)
(* A call that has the ONU for itself waits on a registered queue, although*)
(* insert() registers it only if no earlier wait left its entry behind.    *)
(***************************************************************************)
SoleWaiterIsRegistered ==
  \A t \in clean : pc[t] = "wait" =>
    t = IF Kind(t) = "rssi" THEN onu_rssi_compltd_map[call[t].onu]
                            ELSE onu_deact_compltd_map[call[t].onu]

(***************************************************************************)
(* "Need to deactivate before removing it (BAL rules)": such a call asks   *)
(* BAL to clear an ONU only when it is down, whether it was already, went  *)
(* down by itself during the call or was waited for.  A report that was    *)
(* under way before the call could deceive it; those calls are not clean.  *)
(***************************************************************************)
ClearedWhenInactive ==
  \A t \in clean : pc[t] = "clear" => onu[call[t].onu] = "INACTIVE"

(***************************************************************************)
(* DeleteOnu_, repeated, returns OK in the end or the ONU is gone anyway,  *)
(* though the report may come before the wait, after it, or be missed; but *)
(* a DISABLED ONU may refuse to go for ever.                               *)
(***************************************************************************)
WantedIsDeleted ==
  \A o \in Onus : o \in wanted ~>
    o \notin wanted \/ onu[o] \in {"NOT_CONFIGURED", "DISABLED"}
=============================================================================
