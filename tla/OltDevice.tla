----------------------------- MODULE OltDevice -----------------------------
(***************************************************************************)
(* Bringing the OLT up, taking it down and up again.                       *)
(*                                                                         *)
(* main() enables the PON MAC devices (Enable_), waits until BAL reports   *)
(* one connected, asks for the topology (ProbeDeviceCapabilities_),        *)
(* enables every PON and NNI, and serves whatever the outcome.  From then  *)
(* on Disable_ and Reenable_ run on gRPC threads, without a lock, over all *)
(* PONs.  BAL is another process: it refuses requests, finishes accepted   *)
(* ones later, and keeps its configuration when the agent dies and is      *)
(* started again.                                                          *)
(*                                                                         *)
(* Data abstracted: all settings of an interface but the discovery of      *)
(* ONUs; a default scheduler and its queues are one object.  A wait that   *)
(* tries again after a sleep counts its trials.                            *)
(***************************************************************************)
EXTENDS Naturals, FiniteSets

CONSTANTS
  NumDevices,   \* BCM_MAX_DEVS_PER_LINE_CARD
  NumPons, NumNnis,
  Admins,       \* gRPC threads that run Disable_ and Reenable_
  MaxTrials,    \* trials of each wait (60, 30 and 300 in the code)
  MaxFaults,    \* bound: requests BAL refuses or fails, ports and devices
                \* lost, deaths of the agent, all together
  MaxCalls      \* bound: calls of Disable_ and Reenable_

ASSUME DeviceAssumption ==
  /\ {NumDevices, NumPons, NumNnis, MaxTrials} \subseteq Nat \ {0}
  /\ {MaxFaults, MaxCalls} \subseteq Nat
  /\ "main" \notin Admins

Devices == 1 .. NumDevices
Pons    == 1 .. NumPons
Ports   == 1 .. NumPons + NumNnis   \* the PONs, then the NNIs
Threads == Admins \cup {"main"}

VARIABLES
  \* BAL (external)
  device,      \* "off", "connecting" or "on"
  intf,        \* state of a port: "INACTIVE", "PROCESSING" or "ACTIVE"
  goal,        \* the state it is in or on the way to
  discovery,   \* PONs on which ONUs are discovered
  scheds,      \* ports with their default scheduler and queues
  \* the agent
  activated,   \* State
  subscribed,  \* SubscribeIndication has run
  pc,          \* where a thread is
  at,          \* the device or port it is at
  trials,      \* trials left to main's present wait
  job, failed, \* what an admin RPC does, and on how many PONs it failed
  rc,          \* what it returns
  \* history
  faults, calls, restarts,
  torn,        \* PONs on which a Disable_ stopped half way or two calls overlapped
  unsched,     \* ports whose scheduler was refused or overtaken by a death
  alone,       \* admin calls that nothing else has interfered with
  before       \* goal when an admin call began

balVars   == <<device, intf, goal, discovery, scheds>>
adminVars == <<job, failed, rc, before>>
histVars  == <<faults, calls, restarts, torn, unsched>>
vars == <<balVars, activated, subscribed, pc, at, trials, adminVars, histVars, alone>>

States == {"INACTIVE", "PROCESSING", "ACTIVE"}
Goals  == {"INACTIVE", "ACTIVE"}

PCs == {"idle", "connection", "subscribe", "ready", "devices", "wait", "probe",
        "status", "cfg", "oper", "sched", "finish", "returned", "serving", "exited"}

NothingUp == [p \in Ports |-> "INACTIVE"]

MainStarts == [t \in Threads |-> IF t = "main" THEN "connection" ELSE "idle"]

Init ==
  /\ device = [d \in Devices |-> "off"]
  /\ intf = NothingUp
  /\ goal = NothingUp
  /\ discovery = {} /\ scheds = {}
  /\ activated = FALSE /\ subscribed = FALSE
  /\ pc = MainStarts
  /\ at = [t \in Threads |-> 1]
  /\ trials = MaxTrials
  /\ job = [t \in Threads |-> "enable"]
  /\ failed = [t \in Threads |-> 0]
  /\ rc = [t \in Admins |-> "none"]
  /\ alone = {}
  /\ before = [t \in Admins |-> NothingUp]
  /\ faults = 0 /\ calls = 0 /\ restarts = 0 /\ torn = {} /\ unsched = {}

Go(t, to) == pc' = [pc EXCEPT ![t] = to]

(* BAL refuses, or answers an error: a fault.                              *)
Refused == faults + restarts < MaxFaults /\ faults' = faults + 1
Granted == faults' = faults

-----------------------------------------------------------------------------
(* main up to the activation.                                              *)

EarlyVars == <<adminVars, calls, restarts, torn, unsched, alone>>

(***************************************************************************)
(* A wait: tries, sleeps, and gives up when its trials are used up.  What  *)
(* it waits for may be there at any trial or never.                        *)
(***************************************************************************)
Succeeds(from, to) ==
  /\ pc["main"] = from
  /\ Go("main", to)
  /\ trials' = MaxTrials
  /\ UNCHANGED <<balVars, activated, subscribed, at, faults, EarlyVars>>

(* Mutant: the trials are not counted.                                     *)
TriesAgain_Forever(from) ==
  /\ pc["main"] = from /\ trials > 1
  /\ UNCHANGED vars

TriesAgain(from) ==
  /\ pc["main"] = from /\ trials > 1
  /\ trials' = trials - 1
  /\ UNCHANGED <<balVars, activated, subscribed, pc, at, faults, EarlyVars>>

GivesUp(from) ==
  /\ pc["main"] = from /\ trials = 1
  /\ Go("main", "exited")
  /\ UNCHANGED <<balVars, activated, subscribed, at, trials, faults, EarlyVars>>

CheckConnection ==
  \/ Succeeds("connection", "subscribe")
  \/ TriesAgain("connection")
  \/ GivesUp("connection")

SubscribeIndication ==
  /\ pc["main"] = "subscribe"
  /\ \/ Granted /\ Go("main", "ready") /\ subscribed' = TRUE
     \/ Refused /\ Go("main", "exited") /\ UNCHANGED subscribed
  /\ UNCHANGED <<balVars, activated, at, trials, EarlyVars>>

CheckBalReady ==
  \/ Succeeds("ready", "devices")
  \/ TriesAgain("ready")
  \/ GivesUp("ready")

NextDevice ==
  IF at["main"] < NumDevices
  THEN at' = [at EXCEPT !["main"] = @ + 1] /\ UNCHANGED pc
  ELSE at' = [at EXCEPT !["main"] = 1] /\ Go("main", "wait")

(* The query says NOT_CONNECTED: the device is reset and connected.        *)
ConnectDevice ==
  LET d == at["main"] IN
  /\ pc["main"] = "devices" /\ device[d] # "on"
  /\ Granted
  /\ device' = [device EXCEPT ![d] = "connecting"]
  /\ NextDevice
  /\ UNCHANGED <<intf, goal, discovery, scheds, activated, subscribed, trials, EarlyVars>>

(* The connect is refused; when it is for every device, Enable_ fails.     *)
ConnectDeviceRefused ==
  LET d == at["main"] IN
  /\ pc["main"] = "devices" /\ device[d] # "on"
  /\ Refused
  /\ device' = [device EXCEPT ![d] = "off"]
  /\ failed' = [failed EXCEPT !["main"] = @ + 1]
  /\ IF failed["main"] + 1 = NumDevices
     THEN Go("main", "exited") /\ UNCHANGED at
     ELSE NextDevice
  /\ UNCHANGED <<intf, goal, discovery, scheds, activated, subscribed, trials,
                 job, rc, before, calls, restarts, torn, unsched, alone>>

(* The system mode of its transceivers cannot be read: it is left reset.   *)
SkipDevice ==
  LET d == at["main"] IN
  /\ pc["main"] = "devices" /\ device[d] # "on"
  /\ Refused
  /\ device' = [device EXCEPT ![d] = "off"]
  /\ NextDevice
  /\ UNCHANGED <<intf, goal, discovery, scheds, activated, subscribed, trials, EarlyVars>>

(***************************************************************************)
(* Any other answer, errors included, is taken for "already connected",    *)
(* as after a death of the agent: the OLT is active without an indication. *)
(***************************************************************************)
AlreadyConnected ==
  /\ pc["main"] = "devices"
  /\ \/ device[at["main"]] = "on" /\ Granted
     \/ device[at["main"]] # "on" /\ Refused
  /\ activated' = TRUE
  /\ NextDevice
  /\ UNCHANGED <<balVars, subscribed, trials, EarlyVars>>

WaitActivated ==
  \/ activated /\ Succeeds("wait", "probe")
  \/ ~activated /\ TriesAgain("wait")
  \/ ~activated /\ GivesUp("wait")

ProbeDeviceCapabilities ==
  /\ pc["main"] = "probe"
  /\ \/ Granted /\ Go("main", "status")
     \/ Refused /\ Go("main", "exited")
  /\ UNCHANGED <<balVars, activated, subscribed, at, trials, EarlyVars>>

-----------------------------------------------------------------------------
(* One port after the other.                                               *)

Last(t) == IF t = "main" THEN NumPons + NumNnis ELSE NumPons

(***************************************************************************)
(* The outcome for a port: main only logs and tells it, an admin RPC       *)
(* counts failures.  Then the next port.                                   *)
(***************************************************************************)
Outcome(t, ok) ==
  /\ failed' = IF ok \/ t = "main" THEN failed ELSE [failed EXCEPT ![t] = @ + 1]
  /\ IF at[t] < Last(t)
     THEN at' = [at EXCEPT ![t] = @ + 1] /\ Go(t, "status")
     ELSE UNCHANGED at /\ Go(t, IF t = "main" THEN "serving" ELSE "finish")

Proceed(t, to) == Go(t, to) /\ UNCHANGED <<failed, at>>

PortVars == <<device, activated, subscribed, trials, job, rc, before, calls, restarts, alone>>

Step(t, j, from) == pc[t] = from /\ job[t] = j /\ UNCHANGED PortVars

IsPon(t) == at[t] \in Pons

OthersBusy(t) == \E u \in Admins \ {t} : pc[u] # "idle"

(* EnablePonIf_ asks for the state first.                                   *)
EnableStatus(t) ==
  /\ Step(t, "enable", "status") /\ IsPon(t)
  /\ \/ intf[at[t]] = "ACTIVE" /\ Granted /\ Outcome(t, TRUE)
     \/ intf[at[t]] # "ACTIVE" /\ Granted /\ Proceed(t, "cfg")
     \/ Refused /\ Proceed(t, "cfg")
  /\ UNCHANGED <<intf, goal, discovery, scheds, torn, unsched>>

(* Mutant: an NNI that is up already is left alone, as a PON is.           *)
EnableNniStatus_NoSched(t) ==
  /\ Step(t, "enable", "status") /\ ~IsPon(t)
  /\ \/ intf[at[t]] = "ACTIVE" /\ Granted /\ Outcome(t, TRUE)
     \/ intf[at[t]] # "ACTIVE" /\ Granted /\ Proceed(t, "oper")
     \/ Refused /\ Proceed(t, "oper")
  /\ UNCHANGED <<intf, goal, discovery, scheds, torn, unsched>>

(* So does SetStateUplinkIf_(true), which makes the scheduler in any case. *)
EnableNniStatus(t) ==
  /\ Step(t, "enable", "status") /\ ~IsPon(t)
  /\ \/ intf[at[t]] = "ACTIVE" /\ Granted /\ Proceed(t, "sched")
     \/ intf[at[t]] # "ACTIVE" /\ Granted /\ Proceed(t, "oper")
     \/ Refused /\ Proceed(t, "oper")
  /\ UNCHANGED <<intf, goal, discovery, scheds, torn, unsched>>

EnableDiscovery(t) ==
  /\ Step(t, "enable", "cfg")
  /\ \/ /\ Granted /\ Proceed(t, "oper")
        /\ discovery' = discovery \cup {at[t]}
        /\ torn' = IF OthersBusy(t) THEN torn ELSE torn \ {at[t]}
     \/ Refused /\ Outcome(t, FALSE) /\ UNCHANGED <<discovery, torn>>
  /\ UNCHANGED <<intf, goal, scheds, unsched>>

(* An accepted change of state takes its time.                             *)
Submit(p, g) ==
  /\ goal' = [goal EXCEPT ![p] = g]
  /\ intf' = [intf EXCEPT ![p] = IF @ = g THEN @ ELSE "PROCESSING"]

(* Mutant: its refusal goes unnoticed.                                     *)
EnableOper_NoError(t) ==
  /\ Step(t, "enable", "oper")
  /\ \/ Granted /\ Proceed(t, "sched") /\ Submit(at[t], "ACTIVE")
     \/ Refused /\ Outcome(t, TRUE) /\ UNCHANGED <<intf, goal>>
  /\ UNCHANGED <<discovery, scheds, torn, unsched>>

EnableOper(t) ==
  /\ Step(t, "enable", "oper")
  /\ \/ Granted /\ Proceed(t, "sched") /\ Submit(at[t], "ACTIVE")
     \/ Refused /\ Outcome(t, FALSE) /\ UNCHANGED <<intf, goal>>
  /\ UNCHANGED <<discovery, scheds, torn, unsched>>

(* CreateDefaultSched and CreateDefaultQueue, whose errors are ignored.    *)
CreateDefaults(t) ==
  /\ Step(t, "enable", "sched")
  /\ Outcome(t, TRUE)
  /\ \/ Granted /\ scheds' = scheds \cup {at[t]} /\ unsched' = unsched \ {at[t]}
     \/ Refused /\ unsched' = unsched \cup {at[t]} /\ UNCHANGED scheds
  /\ UNCHANGED <<intf, goal, discovery, torn>>

-----------------------------------------------------------------------------
(* DisablePonIf_.                                                          *)

DisableStatus(t) ==
  /\ Step(t, "disable", "status")
  /\ \/ Refused /\ Outcome(t, FALSE)
     \/ intf[at[t]] = "INACTIVE" /\ Granted /\ Outcome(t, TRUE)
     \/ intf[at[t]] # "INACTIVE" /\ Granted /\ Proceed(t, "cfg")
  /\ UNCHANGED <<intf, goal, discovery, scheds, torn, unsched>>

DisableDiscovery(t) ==
  /\ Step(t, "disable", "cfg")
  /\ \/ Granted /\ Proceed(t, "oper") /\ discovery' = discovery \ {at[t]}
     \/ Refused /\ Outcome(t, FALSE) /\ UNCHANGED discovery
  /\ UNCHANGED <<intf, goal, scheds, torn, unsched>>

DisableOper(t) ==
  /\ Step(t, "disable", "oper")
  /\ \/ Granted /\ Outcome(t, TRUE) /\ Submit(at[t], "INACTIVE") /\ UNCHANGED torn
     \/ Refused /\ Outcome(t, FALSE) /\ torn' = torn \cup {at[t]} /\ UNCHANGED <<intf, goal>>
  /\ UNCHANGED <<discovery, scheds, unsched>>

-----------------------------------------------------------------------------
(* Disable_ and Reenable_.                                                 *)

AdminCall(t, j) ==
  /\ pc["main"] = "serving" /\ pc[t] = "idle" /\ calls < MaxCalls
  /\ calls' = calls + 1
  /\ Go(t, "status")
  /\ at' = [at EXCEPT ![t] = 1]
  /\ job' = [job EXCEPT ![t] = j]
  /\ failed' = [failed EXCEPT ![t] = 0]
  /\ rc' = [rc EXCEPT ![t] = "none"]
  /\ before' = [before EXCEPT ![t] = goal]
  /\ IF OthersBusy(t) THEN alone' = {} /\ torn' = Pons
                     ELSE alone' = {t} /\ UNCHANGED torn
  /\ UNCHANGED <<balVars, activated, subscribed, trials, faults, restarts, unsched>>

(* Mutant: any failure is answered as the failure of all.                  *)
Finish_AnyFailure(t) ==
  /\ pc[t] = "finish"
  /\ Go(t, "returned")
  /\ rc' = [rc EXCEPT ![t] = CASE failed[t] = 0 -> "OK" [] OTHER -> "INTERNAL"]
  /\ activated' = IF failed[t] = 0 THEN job[t] = "enable" ELSE activated
  /\ UNCHANGED <<balVars, subscribed, at, trials, job, failed, before, histVars, alone>>

(* Mutant: the call succeeds when some PON did as told.                    *)
Finish_SomePon(t) ==
  /\ pc[t] = "finish"
  /\ Go(t, "returned")
  /\ rc' = [rc EXCEPT ![t] = CASE failed[t] < NumPons -> "OK" [] OTHER -> "INTERNAL"]
  /\ activated' = IF failed[t] < NumPons THEN job[t] = "enable" ELSE activated
  /\ UNCHANGED <<balVars, subscribed, at, trials, job, failed, before, histVars, alone>>

Finish(t) ==
  /\ pc[t] = "finish"
  /\ Go(t, "returned")
  /\ rc' = [rc EXCEPT ![t] = CASE failed[t] = 0       -> "OK"
                               [] failed[t] = NumPons -> "INTERNAL"
                               [] OTHER               -> "UNKNOWN"]
  /\ activated' = IF failed[t] = 0 THEN job[t] = "enable" ELSE activated
  /\ UNCHANGED <<balVars, subscribed, at, trials, job, failed, before, histVars, alone>>

(* The variables of the call are gone with it.                             *)
Return(t) ==
  /\ pc[t] = "returned"
  /\ Go(t, "idle")
  /\ at' = [at EXCEPT ![t] = 1]
  /\ job' = [job EXCEPT ![t] = "enable"]
  /\ failed' = [failed EXCEPT ![t] = 0]
  /\ rc' = [rc EXCEPT ![t] = "none"]
  /\ before' = [before EXCEPT ![t] = NothingUp]
  /\ alone' = alone \ {t}
  /\ UNCHANGED <<balVars, activated, subscribed, trials, histVars>>

-----------------------------------------------------------------------------
(* BAL, and the death of the agent.                                        *)

(* OltOperIndication, if it is subscribed.                                 *)
OltOperIndication(up) == activated' = IF subscribed THEN up ELSE activated

DeviceEvent(d, from, to) ==
  /\ device[d] = from
  /\ device' = [device EXCEPT ![d] = to]
  /\ OltOperIndication(to = "on")
  /\ alone' = {}
  /\ UNCHANGED <<intf, goal, discovery, scheds, subscribed, pc, at, trials,
                 adminVars, calls, restarts, torn, unsched>>

DeviceConnects(d) == DeviceEvent(d, "connecting", "on") /\ Granted
DeviceFails(d)    == DeviceEvent(d, "connecting", "off") /\ Refused
DeviceLost(d)     == DeviceEvent(d, "on", "off") /\ Refused

PortReachesGoal(p) ==
  /\ intf[p] = "PROCESSING"
  /\ intf' = [intf EXCEPT ![p] = goal[p]]
  /\ UNCHANGED <<device, goal, discovery, scheds, activated, subscribed, pc, at, trials,
                 adminVars, histVars, alone>>

PortFails(p) ==
  /\ intf[p] # "INACTIVE" /\ Refused
  /\ intf' = [intf EXCEPT ![p] = "INACTIVE"]
  /\ goal' = [goal EXCEPT ![p] = "INACTIVE"]
  /\ alone' = {}
  /\ UNCHANGED <<device, discovery, scheds, activated, subscribed, pc, at, trials,
                 adminVars, calls, restarts, torn, unsched>>

(* A death between the activation of a port and its scheduler is recorded. *)
Restart ==
  /\ faults + restarts < MaxFaults
  /\ restarts' = restarts + 1
  /\ unsched' = unsched \cup {at[t] : t \in {u \in Threads : pc[u] = "sched"}}
  /\ torn' = torn \cup {at[t] : t \in {u \in Threads : pc[u] = "oper" /\ job[u] = "disable"}}
  /\ activated' = FALSE /\ subscribed' = FALSE
  /\ pc' = MainStarts
  /\ at' = [t \in Threads |-> 1]
  /\ trials' = MaxTrials
  /\ job' = [t \in Threads |-> "enable"]
  /\ failed' = [t \in Threads |-> 0]
  /\ rc' = [t \in Admins |-> "none"]
  /\ alone' = {}
  /\ before' = [t \in Admins |-> NothingUp]
  /\ UNCHANGED <<balVars, faults, calls>>

-----------------------------------------------------------------------------
Main ==
  \/ CheckConnection \/ SubscribeIndication \/ CheckBalReady
  \/ ConnectDevice \/ ConnectDeviceRefused \/ SkipDevice \/ AlreadyConnected
  \/ WaitActivated \/ ProbeDeviceCapabilities

EveryPort(t) ==
  \/ EnableStatus(t) \/ EnableNniStatus(t)
  \/ EnableDiscovery(t) \/ EnableOper(t) \/ CreateDefaults(t)
  \/ DisableStatus(t) \/ DisableDiscovery(t) \/ DisableOper(t)

Bal ==
  \/ \E d \in Devices : DeviceConnects(d) \/ DeviceFails(d) \/ DeviceLost(d)
  \/ \E p \in Ports : PortReachesGoal(p) \/ PortFails(p)

Next ==
  \/ Main
  \/ \E t \in Threads : EveryPort(t)
  \/ \E t \in Admins : Finish(t) \/ Return(t) \/ \E j \in {"enable", "disable"} : AdminCall(t, j)
  \/ Bal
  \/ Restart

Spec == Init /\ [][Next]_vars

(***************************************************************************)
(* The agent's threads run.  BAL need not answer what is waited for.       *)
(***************************************************************************)
FairSpec ==
  /\ Spec
  /\ WF_vars(Main)
  /\ \A t \in Threads : WF_vars(EveryPort(t))

-----------------------------------------------------------------------------
(* Properties.                                                             *)

TypeOK ==
  /\ device \in [Devices -> {"off", "connecting", "on"}]
  /\ intf \in [Ports -> States] /\ goal \in [Ports -> Goals]
  /\ discovery \subseteq Pons /\ scheds \subseteq Ports
  /\ activated \in BOOLEAN /\ subscribed \in BOOLEAN
  /\ pc \in [Threads -> PCs]
  /\ at \in [Threads -> Devices \cup Ports]
  /\ trials \in 1 .. MaxTrials
  /\ job \in [Threads -> {"enable", "disable"}]
  /\ failed \in [Threads -> Nat]
  /\ rc \in [Admins -> {"none", "OK", "INTERNAL", "UNKNOWN"}]
  /\ faults \in 0 .. MaxFaults /\ calls \in 0 .. MaxCalls /\ restarts \in 0 .. MaxFaults
  /\ torn \subseteq Ports /\ unsched \subseteq Ports
  /\ alone \subseteq Admins
  /\ before \in [Admins -> [Ports -> Goals]]

Answered(t, j, r) == pc[t] = "returned" /\ job[t] = j /\ rc[t] = r

(***************************************************************************)
(* After a Disable_ that returned OK, and that nothing else interfered     *)
(* with, every PON is down or on its way and the OLT is not active.        *)
(***************************************************************************)
DisableOkMeansDown ==
  \A t \in alone : Answered(t, "disable", "OK") =>
    ~activated /\ \A p \in Pons : goal[p] = "INACTIVE"

(***************************************************************************)
(* After such a Reenable_ the OLT is active, and every PON is up or on its *)
(* way and discovers ONUs, but for PONs on which a Disable_ had stopped    *)
(* half way, after the discovery was off and before the state changed, or  *)
(* on which two calls had overlapped: they may stay without discovery.     *)
(***************************************************************************)
ReenableOkMeansDiscovering ==
  \A t \in alone : Answered(t, "enable", "OK") =>
    activated /\ \A p \in Pons : goal[p] = "ACTIVE" /\ p \in discovery \cup torn

(***************************************************************************)
(* "All (few) PON ports are still in enabled (disabled) state": a PON that *)
(* an admin call counts as failed is in the state it was in, although the  *)
(* call may have got as far as the second of three requests for it.        *)
(***************************************************************************)
FailedMeansUntouched ==
  \A t \in alone : pc[t] = "returned" =>
    /\ Cardinality({p \in Pons : goal[p] # before[t][p]}) + failed[t] <= NumPons
    /\ rc[t] = "INTERNAL" => \A p \in Pons : goal[p] = before[t][p]

(***************************************************************************)
(* An active port has its default scheduler, the parent of the             *)
(* subscribers' schedulers, across deaths of the agent too, unless BAL     *)
(* refused it or the agent died right before making it; the agent that     *)
(* takes over makes up for that on NNIs and not on PONs.                   *)
(***************************************************************************)
ActiveHasScheduler ==
  /\ \A p \in Ports : intf[p] = "ACTIVE" =>
       \/ p \in scheds \cup unsched
       \/ \E t \in Threads : pc[t] = "sched" /\ at[t] = p
  /\ pc["main"] = "serving" /\ faults = 0 => Ports \ Pons \subseteq scheds

(***************************************************************************)
(* main serves or exits, though BAL may never connect, get ready or        *)
(* activate a device: nobody waits for a process that does neither.        *)
(***************************************************************************)
MainDecides == []<>(pc["main"] \in {"serving", "exited"})
=============================================================================
