-------------------------- MODULE OltDevice_proofs --------------------------
(***************************************************************************)
(* Theorems about OltDevice, for any number of devices, PONs, NNIs, admin  *)
(* threads, calls, refusals and deaths, from DeviceAssumption alone.       *)
(***************************************************************************)
EXTENDS OltDevice, FiniteSetTheorems, TLAPS

Early == {"connection", "subscribe", "ready", "devices", "wait", "probe"}
InLoop == {"status", "cfg", "oper", "sched"}

(***************************************************************************)
(* Where threads can be: main comes first and alone, and everybody in the  *)
(* loop over the ports is at a port it is responsible for.                 *)
(***************************************************************************)
Locs ==
  /\ pc["main"] \in Early \cup InLoop \cup {"serving", "exited"}
  /\ job["main"] = "enable"
  /\ pc["main"] \in Early \ {"devices"} => at["main"] = 1
  /\ pc["main"] = "devices" => at["main"] \in Devices
  /\ pc["main"] # "serving" => \A t \in Admins : pc[t] = "idle"
  /\ \A t \in Admins : pc[t] \in InLoop \cup {"idle", "finish", "returned"}
  /\ \A t \in Threads : pc[t] \in InLoop => at[t] \in 1 .. Last(t)
  /\ \A t \in Threads : pc[t] = "cfg" => at[t] \in Pons
  /\ \A t \in Threads : pc[t] = "sched" => job[t] = "enable"

TypeInv == TypeOK /\ Locs

-----------------------------------------------------------------------------
(* Constants and faults.                                                   *)

LEMMA Constants ==
  /\ NumDevices \in Nat \ {0} /\ NumPons \in Nat \ {0} /\ NumNnis \in Nat \ {0}
  /\ MaxTrials \in Nat \ {0} /\ MaxFaults \in Nat /\ MaxCalls \in Nat
  /\ "main" \in Threads /\ "main" \notin Admins /\ Admins \subseteq Threads
  /\ Pons \subseteq Ports /\ 1 \in Pons /\ 1 \in Devices
  /\ \A t \in Threads : Last(t) \in Nat /\ 1 <= Last(t) /\ Last(t) <= NumPons + NumNnis
  /\ \A t \in Admins : Last(t) = NumPons
  /\ Last("main") = NumPons + NumNnis
BY DeviceAssumption DEF Threads, Pons, Ports, Devices, Last

LEMMA FaultsType ==
  ASSUME TypeOK, Refused \/ Granted
  PROVE  faults' \in 0 .. MaxFaults
<1>1. CASE Granted  BY <1>1 DEF Granted, TypeOK
<1>2. CASE Refused
  <2>1. faults \in Nat /\ restarts \in Nat /\ faults' = faults + 1 /\ faults + restarts < MaxFaults
    BY <1>2 DEF Refused, TypeOK
  <2> QED  BY <2>1, Constants
<1> QED  BY <1>1, <1>2

-----------------------------------------------------------------------------
(* The types.                                                              *)

(* main on its way to the ports.                                           *)
LEMMA MainType ==
  ASSUME TypeInv, pc["main"] \in Early,
         NEW p \in Early \cup {"status", "exited"}, pc' = [pc EXCEPT !["main"] = p],
         NEW d \in Devices, at' = [at EXCEPT !["main"] = d],
         p = "devices" \/ d = 1 \/ p = "exited",
         trials' \in 1 .. MaxTrials, device' \in [Devices -> {"off", "connecting", "on"}],
         activated' \in BOOLEAN, subscribed' \in BOOLEAN, failed' \in [Threads -> Nat],
         faults' \in 0 .. MaxFaults,
         UNCHANGED <<intf, goal, discovery, scheds, job, rc, before, calls, restarts, torn, unsched,
                     alone>>
  PROVE  TypeInv'
<1>1. pc' \in [Threads -> PCs] /\ at' \in [Threads -> Devices \cup Ports]
  BY DEF TypeInv, TypeOK, PCs, Early
<1>2. TypeOK'  BY <1>1 DEF TypeInv, TypeOK
<1>3. /\ pc'["main"] = p /\ at'["main"] = d
      /\ \A t \in Admins : pc'[t] = "idle" /\ at'[t] = at[t]
  BY Constants DEF TypeInv, TypeOK, Locs, Early
<1>4. d = 1 => d \in 1 .. Last("main")  BY Constants
<1>5. \A t \in Threads : t = "main" \/ t \in Admins  BY DEF Threads
<1>6. Locs'
  BY <1>3, <1>4, <1>5 DEF TypeInv, Locs, Early, InLoop, Last
<1> QED  BY <1>2, <1>6 DEF TypeInv

LEMMA EarlyType ==
  ASSUME TypeInv, Main
  PROVE  TypeInv'
<1>0. /\ pc \in [Threads -> PCs] /\ at \in [Threads -> Devices \cup Ports]
      /\ trials \in 1 .. MaxTrials /\ failed \in [Threads -> Nat]
      /\ device \in [Devices -> {"off", "connecting", "on"}]
      /\ activated \in BOOLEAN /\ subscribed \in BOOLEAN
  BY DEF TypeInv, TypeOK
<1>1. \A n : pc' = [pc EXCEPT !["main"] = n] <=> Go("main", n)  BY DEF Go
<1>2. /\ pc["main"] \in Early \ {"devices"} => at["main"] = 1
      /\ pc["main"] = "devices" => at["main"] \in Devices
      /\ 1 \in Devices
  BY Constants DEF TypeInv, Locs
<1>3. at = [at EXCEPT !["main"] = at["main"]] /\ pc = [pc EXCEPT !["main"] = pc["main"]]
  BY <1>0
<1>4. faults \in 0 .. MaxFaults  BY DEF TypeInv, TypeOK
<1>5. MaxTrials \in 1 .. MaxTrials /\ (trials > 1 => trials - 1 \in 1 .. MaxTrials)
  BY <1>0, Constants
<1>6. ASSUME NEW from \in Early \ {"devices"}, NEW to \in Early \cup {"status", "exited"},
             Succeeds(from, to) \/ TriesAgain(from) \/ GivesUp(from)
      PROVE  TypeInv'
  <2>1. UNCHANGED <<balVars, activated, subscribed, at, faults, EarlyVars>>
    BY <1>6 DEF Succeeds, TriesAgain, GivesUp
  <2>2. \E n \in Early \cup {"status", "exited"} : pc' = [pc EXCEPT !["main"] = n]
    BY <1>3, <1>6 DEF Succeeds, TriesAgain, GivesUp, Go
  <2>3. trials' \in 1 .. MaxTrials
    BY <1>0, <1>5, <1>6 DEF Succeeds, TriesAgain, GivesUp
  <2>4. pc["main"] = from  BY <1>6 DEF Succeeds, TriesAgain, GivesUp
  <2>5. at' = [at EXCEPT !["main"] = 1]  BY <1>2, <1>3, <2>1, <2>4
  <2> QED
    BY <1>0, <1>2, <1>4, <2>1, <2>2, <2>3, <2>4, <2>5, MainType DEF balVars, EarlyVars, adminVars
<1>7. CASE CheckConnection
  BY <1>6, <1>7 DEF CheckConnection, Early
<1>8. CASE CheckBalReady
  <2>1. Succeeds("ready", "devices") \/ TriesAgain("ready") \/ GivesUp("ready")
    BY <1>8 DEF CheckBalReady
  <2> QED  BY <1>6, <2>1 DEF Early
<1>9. CASE WaitActivated
  BY <1>6, <1>9 DEF WaitActivated, Early
<1>10. CASE SubscribeIndication \/ ProbeDeviceCapabilities
  <2>1. UNCHANGED <<balVars, activated, at, trials, EarlyVars>> /\ subscribed' \in BOOLEAN
        /\ faults' \in 0 .. MaxFaults
    BY <1>0, <1>10, FaultsType DEF SubscribeIndication, ProbeDeviceCapabilities, TypeInv
  <2>2. \E n \in {"ready", "status", "exited"} : pc' = [pc EXCEPT !["main"] = n]
    BY <1>10 DEF SubscribeIndication, ProbeDeviceCapabilities, Go
  <2>3. pc["main"] \in {"subscribe", "probe"}
    BY <1>10 DEF SubscribeIndication, ProbeDeviceCapabilities
  <2>4. at' = [at EXCEPT !["main"] = 1]  BY <1>2, <1>3, <2>1, <2>3 DEF Early
  <2> QED
    BY <1>0, <1>2, <2>1, <2>2, <2>3, <2>4, MainType DEF balVars, EarlyVars, adminVars, Early
<1>11. ASSUME pc["main"] = "devices", NextDevice \/ (Go("main", "exited") /\ UNCHANGED at)
       PROVE  \E n \in {"devices", "wait", "exited"}, d \in Devices :
                /\ pc' = [pc EXCEPT !["main"] = n] /\ at' = [at EXCEPT !["main"] = d]
                /\ n = "devices" \/ d = 1 \/ n = "exited"
  <2>1. at["main"] \in Devices /\ 1 \in Devices  BY <1>2, <1>11
  <2>2. CASE Go("main", "exited") /\ UNCHANGED at
    BY <1>3, <2>1, <2>2 DEF Go
  <2>3. CASE NextDevice /\ at["main"] < NumDevices
    <3>1. at' = [at EXCEPT !["main"] = at["main"] + 1] /\ pc' = [pc EXCEPT !["main"] = "devices"]
      BY <1>3, <1>11, <2>3 DEF NextDevice
    <3>2. at["main"] + 1 \in Devices  BY <2>1, <2>3, Constants DEF Devices
    <3> QED  BY <3>1, <3>2
  <2>4. CASE NextDevice /\ ~(at["main"] < NumDevices)
    BY <2>1, <2>4 DEF NextDevice, Go
  <2> QED  BY <1>11, <2>2, <2>3, <2>4
<1>12. CASE ConnectDevice \/ ConnectDeviceRefused \/ SkipDevice \/ AlreadyConnected
  <2>1. /\ pc["main"] = "devices" /\ (Refused \/ Granted)
        /\ NextDevice \/ (Go("main", "exited") /\ UNCHANGED at)
        /\ UNCHANGED <<intf, goal, discovery, scheds, subscribed, trials, job, rc, before, calls,
                       restarts, torn, unsched, alone>>
    BY <1>12 DEF ConnectDevice, ConnectDeviceRefused, SkipDevice, AlreadyConnected, EarlyVars,
       adminVars, balVars
  <2>2. device' \in [Devices -> {"off", "connecting", "on"}]
    BY <1>0, <1>12 DEF ConnectDevice, ConnectDeviceRefused, SkipDevice, AlreadyConnected, balVars
  <2>3. activated' \in BOOLEAN
    BY <1>0, <1>12 DEF ConnectDevice, ConnectDeviceRefused, SkipDevice, AlreadyConnected
  <2>4. failed' \in [Threads -> Nat]
    BY <1>0, <1>12 DEF ConnectDevice, ConnectDeviceRefused, SkipDevice, AlreadyConnected, EarlyVars,
       adminVars
  <2>5. faults' \in 0 .. MaxFaults  BY <2>1, FaultsType DEF TypeInv
  <2>6. subscribed' \in BOOLEAN /\ trials' \in 1 .. MaxTrials  BY <1>0, <2>1
  <2>7. PICK n \in {"devices", "wait", "exited"}, d \in Devices :
          /\ pc' = [pc EXCEPT !["main"] = n] /\ at' = [at EXCEPT !["main"] = d]
          /\ n = "devices" \/ d = 1 \/ n = "exited"
    BY <1>11, <2>1
  <2>8. n \in Early \cup {"status", "exited"} /\ pc["main"] \in Early  BY <2>1 DEF Early
  <2> QED  BY <2>1, <2>2, <2>3, <2>4, <2>5, <2>6, <2>7, <2>8, MainType
<1> QED  BY <1>7, <1>8, <1>9, <1>10, <1>12 DEF Main

(* Where a thread goes from a port: on with it, to the next, or out.       *)
LEMMA LoopType ==
  ASSUME TypeInv, NEW t \in Threads, pc[t] \in InLoop, UNCHANGED PortVars,
         \/ \E to \in {"cfg", "oper", "sched"} :
              /\ Proceed(t, to)
              /\ to = "cfg" => at[t] \in Pons
              /\ to = "sched" => job[t] = "enable"
         \/ \E ok \in BOOLEAN : Outcome(t, ok),
         intf' \in [Ports -> States], goal' \in [Ports -> Goals], discovery' \subseteq Pons,
         scheds' \subseteq Ports, torn' \subseteq Ports, unsched' \subseteq Ports,
         faults' \in 0 .. MaxFaults
  PROVE  TypeInv'
<1>0. /\ pc \in [Threads -> PCs] /\ at \in [Threads -> Devices \cup Ports]
      /\ failed \in [Threads -> Nat] /\ at[t] \in 1 .. Last(t)
      /\ Last(t) \in Nat /\ Last(t) <= NumPons + NumNnis
      /\ NumPons \in Nat /\ NumNnis \in Nat
  BY Constants DEF TypeInv, TypeOK, Locs
<1>1. \E p \in InLoop \cup {"serving", "finish"}, n \in 1 .. Last(t) :
        /\ pc' = [pc EXCEPT ![t] = p] /\ at' = [at EXCEPT ![t] = n]
        /\ p = "cfg" => n \in Pons
        /\ p = "sched" => job[t] = "enable"
        /\ p = "serving" => t = "main"
        /\ p = "finish" => t # "main"
  <2>1. ASSUME NEW to \in {"cfg", "oper", "sched"}, Proceed(t, to),
               to = "cfg" => at[t] \in Pons, to = "sched" => job[t] = "enable"
        PROVE  \E p \in InLoop \cup {"serving", "finish"}, n \in 1 .. Last(t) :
                 /\ pc' = [pc EXCEPT ![t] = p] /\ at' = [at EXCEPT ![t] = n]
                 /\ p = "cfg" => n \in Pons
                 /\ p = "sched" => job[t] = "enable"
                 /\ p = "serving" => t = "main"
                 /\ p = "finish" => t # "main"
    BY <1>0, <2>1 DEF Proceed, Go, InLoop
  <2>2. ASSUME NEW ok \in BOOLEAN, Outcome(t, ok), at[t] < Last(t)
        PROVE  /\ pc' = [pc EXCEPT ![t] = "status"] /\ at' = [at EXCEPT ![t] = at[t] + 1]
               /\ at[t] + 1 \in 1 .. Last(t)
    BY <1>0, <2>2 DEF Outcome, Go
  <2>3. ASSUME NEW ok \in BOOLEAN, Outcome(t, ok), ~(at[t] < Last(t))
        PROVE  /\ pc' = [pc EXCEPT ![t] = IF t = "main" THEN "serving" ELSE "finish"]
               /\ at' = [at EXCEPT ![t] = at[t]]
    BY <1>0, <2>3 DEF Outcome, Go
  <2> QED  BY <1>0, <2>1, <2>2, <2>3 DEF InLoop
<1>2. failed' \in [Threads -> Nat]
  BY <1>0 DEF Proceed, Outcome
<1>3. PICK p \in InLoop \cup {"serving", "finish"}, n \in 1 .. Last(t) :
        /\ pc' = [pc EXCEPT ![t] = p] /\ at' = [at EXCEPT ![t] = n]
        /\ p = "cfg" => n \in Pons
        /\ p = "sched" => job[t] = "enable"
        /\ p = "serving" => t = "main"
        /\ p = "finish" => t # "main"
  BY <1>1
<1>4. p \in PCs /\ n \in Ports  BY <1>0, <1>3 DEF PCs, InLoop, Ports
<1>5. TypeOK'  BY <1>0, <1>2, <1>3, <1>4 DEF TypeInv, TypeOK, PortVars
<1>6. /\ pc'[t] = p /\ at'[t] = n
      /\ \A u \in Threads : u # t => pc'[u] = pc[u] /\ at'[u] = at[u]
      /\ UNCHANGED job /\ \A u \in Threads : u = "main" \/ u \in Admins
  BY <1>0, <1>3 DEF PortVars, Threads
<1>7. t = "main" => p \in InLoop \cup {"serving"}  BY <1>3
<1>8. t # "main" => pc["main"] = "serving" /\ p \in InLoop \cup {"finish"}
  BY <1>3, <1>6 DEF TypeInv, Locs, InLoop
<1>9. Locs'
  BY <1>3, <1>6, <1>7, <1>8, Constants DEF TypeInv, Locs, InLoop, Early, Last
<1> QED  BY <1>5, <1>9 DEF TypeInv

(* The state of a port after a request for a change.                       *)
LEMMA SubmitType ==
  ASSUME TypeOK, NEW p \in Ports, NEW g \in Goals, Submit(p, g)
  PROVE  /\ intf' \in [Ports -> States] /\ goal' \in [Ports -> Goals]
         /\ goal'[p] = g /\ \A q \in Ports : q # p => goal'[q] = goal[q] /\ intf'[q] = intf[q]
         /\ intf'[p] = IF intf[p] = g THEN g ELSE "PROCESSING"
<1>1. g \in States /\ "PROCESSING" \in States  BY DEF Goals, States
<1> QED  BY <1>1 DEF Submit, TypeOK

LEMMA PortType ==
  ASSUME TypeInv, NEW t \in Threads, EveryPort(t)
  PROVE  TypeInv'
<1>0. /\ intf \in [Ports -> States] /\ goal \in [Ports -> Goals] /\ discovery \subseteq Pons
      /\ scheds \subseteq Ports /\ torn \subseteq Ports /\ unsched \subseteq Ports
      /\ \A u \in Threads : pc[u] \in InLoop => at[u] \in Ports
      /\ \A u \in Threads : pc[u] = "cfg" => at[u] \in Pons
  BY Constants DEF TypeInv, TypeOK, Locs, Ports
<1>1. TRUE \in BOOLEAN /\ FALSE \in BOOLEAN  OBVIOUS
<1>2. pc[t] \in InLoop /\ UNCHANGED PortVars
  BY DEF EveryPort, EnableStatus, EnableNniStatus, EnableDiscovery, EnableOper, CreateDefaults,
     DisableStatus, DisableDiscovery, DisableOper, Step, InLoop
<1>3. faults' \in 0 .. MaxFaults
  BY FaultsType DEF EveryPort, EnableStatus, EnableNniStatus, EnableDiscovery, EnableOper,
     CreateDefaults, DisableStatus, DisableDiscovery, DisableOper, TypeInv
<1> USE <1>0, <1>1, <1>2, <1>3
<1>4. CASE EnableStatus(t)
  <2>1. (\E to \in {"cfg"} : Proceed(t, to)) \/ \E ok \in BOOLEAN : Outcome(t, ok)
    BY <1>4 DEF EnableStatus
  <2>2. at[t] \in Pons /\ UNCHANGED <<intf, goal, discovery, scheds, torn, unsched>>
    BY <1>4 DEF EnableStatus, IsPon
  <2> QED  BY <2>1, <2>2, LoopType
<1>5. CASE EnableNniStatus(t)
  <2>1. \E to \in {"oper", "sched"} : Proceed(t, to)
    BY <1>5 DEF EnableNniStatus
  <2>2. job[t] = "enable" /\ UNCHANGED <<intf, goal, discovery, scheds, torn, unsched>>
    BY <1>5 DEF EnableNniStatus, Step
  <2> QED  BY <2>1, <2>2, LoopType
<1>6. CASE EnableDiscovery(t)
  <2>1. Proceed(t, "oper") \/ \E ok \in BOOLEAN : Outcome(t, ok)
    BY <1>6 DEF EnableDiscovery
  <2>2. /\ UNCHANGED <<intf, goal, scheds, unsched>> /\ torn' \subseteq torn
        /\ discovery' \subseteq discovery \cup {at[t]} /\ at[t] \in Pons
    BY <1>6 DEF EnableDiscovery, Step
  <2> QED  BY <2>1, <2>2, LoopType
<1>7. CASE EnableOper(t)
  <2>1. (Proceed(t, "sched") /\ job[t] = "enable") \/ \E ok \in BOOLEAN : Outcome(t, ok)
    BY <1>7 DEF EnableOper, Step
  <2>2. UNCHANGED <<discovery, scheds, torn, unsched>>  BY <1>7 DEF EnableOper
  <2>3. intf' \in [Ports -> States] /\ goal' \in [Ports -> Goals]
    <3>1. CASE Submit(at[t], "ACTIVE")
      <4>1. "ACTIVE" \in Goals  BY DEF Goals
      <4> QED  BY <3>1, <4>1, SubmitType DEF TypeInv
    <3> QED  BY <1>7, <3>1 DEF EnableOper
  <2> QED  BY <2>1, <2>2, <2>3, LoopType
<1>8. CASE CreateDefaults(t)
  <2>1. Outcome(t, TRUE)  BY <1>8 DEF CreateDefaults
  <2>2. /\ UNCHANGED <<intf, goal, discovery, torn>>
        /\ scheds' \subseteq scheds \cup {at[t]} /\ unsched' \subseteq unsched \cup {at[t]}
    BY <1>8 DEF CreateDefaults
  <2> QED  BY <2>1, <2>2, LoopType
<1>9. CASE DisableStatus(t)
  <2>1. Proceed(t, "cfg") \/ \E ok \in BOOLEAN : Outcome(t, ok)
    BY <1>9 DEF DisableStatus
  <2>2. UNCHANGED <<intf, goal, discovery, scheds, torn, unsched>>
    BY <1>9 DEF DisableStatus
  <2>3. at[t] \in Pons
    <3>1. t \in Admins  BY <1>9 DEF DisableStatus, Step, TypeInv, Locs, Threads
    <3> QED  BY <3>1, Constants DEF TypeInv, Locs, Pons
  <2> QED  BY <2>1, <2>2, <2>3, LoopType
<1>10. CASE DisableDiscovery(t)
  <2>1. Proceed(t, "oper") \/ \E ok \in BOOLEAN : Outcome(t, ok)
    BY <1>10 DEF DisableDiscovery
  <2>2. UNCHANGED <<intf, goal, scheds, torn, unsched>> /\ discovery' \subseteq discovery
    BY <1>10 DEF DisableDiscovery
  <2> QED  BY <2>1, <2>2, LoopType
<1>11. CASE DisableOper(t)
  <2>1. \E ok \in BOOLEAN : Outcome(t, ok)  BY <1>11 DEF DisableOper
  <2>2. UNCHANGED <<discovery, scheds, unsched>> /\ torn' \subseteq torn \cup {at[t]}
    BY <1>11 DEF DisableOper
  <2>3. intf' \in [Ports -> States] /\ goal' \in [Ports -> Goals]
    <3>1. CASE Submit(at[t], "INACTIVE")
      <4>1. "INACTIVE" \in Goals  BY DEF Goals
      <4> QED  BY <3>1, <4>1, SubmitType DEF TypeInv
    <3> QED  BY <1>11, <3>1 DEF DisableOper
  <2> QED  BY <2>1, <2>2, <2>3, LoopType
<1> QED
  BY <1>4, <1>5, <1>6, <1>7, <1>8, <1>9, <1>10, <1>11 DEF EveryPort

(* Calls of the admin RPCs.                                                *)
LEMMA AdminType ==
  ASSUME TypeInv, NEW t \in Admins,
         Finish(t) \/ Return(t) \/ \E j \in {"enable", "disable"} : AdminCall(t, j)
  PROVE  TypeInv'
<1>0. /\ t \in Threads /\ t # "main" /\ Last(t) = NumPons /\ 1 \in 1 .. NumPons
      /\ NothingUp \in [Ports -> Goals] /\ Pons \subseteq Ports
      /\ \A u \in Threads : u = "main" \/ u \in Admins
  BY Constants DEF NothingUp, Goals, Pons, Threads
<1>1. CASE Finish(t)
  <2>1. /\ pc[t] = "finish" /\ pc' = [pc EXCEPT ![t] = "returned"]
        /\ UNCHANGED <<balVars, subscribed, at, trials, job, failed, before, histVars, alone>>
    BY <1>1 DEF Finish, Go
  <2>2. rc' \in [Admins -> {"none", "OK", "INTERNAL", "UNKNOWN"}] /\ activated' \in BOOLEAN
    BY <1>1 DEF Finish, TypeInv, TypeOK
  <2>3. TypeOK'  BY <2>1, <2>2 DEF TypeInv, TypeOK, PCs, balVars, histVars
  <2>4. Locs'  BY <1>0, <2>1 DEF TypeInv, TypeOK, Locs, InLoop, Early, Last
  <2> QED  BY <2>3, <2>4 DEF TypeInv
<1>2. CASE Return(t)
  <2>1. /\ pc[t] = "returned" /\ pc' = [pc EXCEPT ![t] = "idle"]
        /\ at' = [at EXCEPT ![t] = 1] /\ job' = [job EXCEPT ![t] = "enable"]
        /\ failed' = [failed EXCEPT ![t] = 0] /\ rc' = [rc EXCEPT ![t] = "none"]
        /\ before' = [before EXCEPT ![t] = NothingUp] /\ alone' = alone \ {t}
        /\ UNCHANGED <<balVars, activated, subscribed, trials, histVars>>
    BY <1>2 DEF Return, Go
  <2>2. 1 \in Ports  BY Constants
  <2>3. TypeOK'  BY <1>0, <2>1, <2>2 DEF TypeInv, TypeOK, PCs, balVars, histVars
  <2>4. Locs'  BY <1>0, <2>1 DEF TypeInv, TypeOK, Locs, InLoop, Early, Last
  <2> QED  BY <2>3, <2>4 DEF TypeInv
<1>3. ASSUME NEW j \in {"enable", "disable"}, AdminCall(t, j)  PROVE TypeInv'
  <2>1. /\ pc["main"] = "serving" /\ pc[t] = "idle" /\ pc' = [pc EXCEPT ![t] = "status"]
        /\ at' = [at EXCEPT ![t] = 1] /\ job' = [job EXCEPT ![t] = j]
        /\ failed' = [failed EXCEPT ![t] = 0] /\ rc' = [rc EXCEPT ![t] = "none"]
        /\ before' = [before EXCEPT ![t] = goal]
        /\ UNCHANGED <<balVars, activated, subscribed, trials, faults, restarts, unsched>>
    BY <1>3 DEF AdminCall, Go
  <2>2. calls' \in 0 .. MaxCalls  BY <1>3, Constants DEF AdminCall, TypeInv, TypeOK
  <2>3. alone' \subseteq Admins /\ torn' \subseteq Ports
    BY <1>0, <1>3 DEF AdminCall, TypeInv, TypeOK
  <2>4. 1 \in Ports  BY Constants
  <2>5. TypeOK'
    BY <1>0, <2>1, <2>2, <2>3, <2>4 DEF TypeInv, TypeOK, PCs, balVars
  <2>6. Locs'  BY <1>0, <2>1 DEF TypeInv, TypeOK, Locs, InLoop, Early, Last
  <2> QED  BY <2>5, <2>6 DEF TypeInv
<1> QED  BY <1>1, <1>2, <1>3

(* BAL, and the death of the agent.                                        *)
LEMMA OutsideType ==
  ASSUME TypeInv, Bal \/ Restart
  PROVE  TypeInv'
<1>1. CASE \E d \in Devices : DeviceConnects(d) \/ DeviceFails(d) \/ DeviceLost(d)
  <2>1. PICK d \in Devices, from \in {"connecting", "on"}, to \in {"on", "off"} :
          DeviceEvent(d, from, to) /\ (Refused \/ Granted)
    BY <1>1 DEF DeviceConnects, DeviceFails, DeviceLost
  <2>2. device' \in [Devices -> {"off", "connecting", "on"}] /\ activated' \in BOOLEAN
    BY <2>1 DEF DeviceEvent, OltOperIndication, TypeInv, TypeOK
  <2>3. faults' \in 0 .. MaxFaults  BY <2>1, FaultsType DEF TypeInv
  <2>4. TypeOK'
    BY <2>1, <2>2, <2>3 DEF DeviceEvent, adminVars, TypeInv, TypeOK
  <2>5. Locs'  BY <2>1 DEF DeviceEvent, adminVars, TypeInv, Locs
  <2> QED  BY <2>4, <2>5 DEF TypeInv
<1>2. CASE \E p \in Ports : PortReachesGoal(p) \/ PortFails(p)
  <2>1. PICK p \in Ports : PortReachesGoal(p) \/ PortFails(p)  BY <1>2
  <2>2. intf' \in [Ports -> States] /\ goal' \in [Ports -> Goals]
    BY <2>1 DEF PortReachesGoal, PortFails, TypeInv, TypeOK, States, Goals
  <2>3. faults' \in 0 .. MaxFaults
    BY <2>1, FaultsType DEF PortReachesGoal, PortFails, TypeInv, TypeOK, histVars
  <2>4. TypeOK'
    BY <2>1, <2>2, <2>3 DEF PortReachesGoal, PortFails, adminVars, histVars, TypeInv, TypeOK
  <2>5. Locs'
    BY <2>1 DEF PortReachesGoal, PortFails, adminVars, TypeInv, Locs
  <2> QED  BY <2>4, <2>5 DEF TypeInv
<1>3. CASE Restart
  <2>1. /\ pc' = MainStarts /\ at' = [t \in Threads |-> 1] /\ job' = [t \in Threads |-> "enable"]
        /\ failed' = [t \in Threads |-> 0] /\ rc' = [t \in Admins |-> "none"]
        /\ activated' = FALSE /\ subscribed' = FALSE /\ trials' = MaxTrials /\ alone' = {}
        /\ before' = [t \in Admins |-> NothingUp]
        /\ UNCHANGED <<balVars, faults, calls>>
    BY <1>3 DEF Restart
  <2>2. \A t \in Threads : pc[t] \in InLoop => at[t] \in Ports
    BY Constants DEF TypeInv, Locs, Ports
  <2>3. unsched' \subseteq Ports /\ torn' \subseteq Ports
    <3>1. unsched \subseteq Ports /\ torn \subseteq Ports  BY DEF TypeInv, TypeOK
    <3>2. {at[t] : t \in {u \in Threads : pc[u] = "sched"}} \subseteq Ports
      BY <2>2 DEF InLoop
    <3>3. {at[t] : t \in {u \in Threads : pc[u] = "oper" /\ job[u] = "disable"}} \subseteq Ports
      BY <2>2 DEF InLoop
    <3> QED  BY <1>3, <3>1, <3>2, <3>3 DEF Restart
  <2>4. restarts' \in 0 .. MaxFaults
    <3>1. faults \in Nat /\ restarts \in Nat /\ restarts' = restarts + 1
          /\ faults + restarts < MaxFaults
      BY <1>3 DEF Restart, TypeInv, TypeOK
    <3> QED  BY <3>1, Constants
  <2>5. /\ NothingUp \in [Ports -> Goals] /\ 1 \in Ports /\ MaxTrials \in 1 .. MaxTrials
    BY Constants DEF NothingUp, Goals
  <2>6. pc' \in [Threads -> PCs]  BY <2>1 DEF MainStarts, PCs
  <2>7. TypeOK'
    BY <2>1, <2>3, <2>4, <2>5, <2>6 DEF TypeInv, TypeOK, balVars
  <2>8. Locs'
    BY <2>1, Constants DEF MainStarts, Locs, Early, InLoop
  <2> QED  BY <2>7, <2>8 DEF TypeInv
<1> QED  BY <1>1, <1>2, <1>3 DEF Bal

LEMMA InitType == Init => TypeInv
<1> SUFFICES ASSUME Init  PROVE TypeInv
  OBVIOUS
<1>1. NothingUp \in [Ports -> Goals] /\ NothingUp \in [Ports -> States]
  BY DEF NothingUp, Goals, States
<1>2. pc \in [Threads -> PCs]  BY DEF Init, MainStarts, PCs
<1>3. 1 \in Ports /\ trials \in 1 .. MaxTrials /\ calls \in 0 .. MaxCalls
      /\ faults \in 0 .. MaxFaults /\ restarts \in 0 .. MaxFaults
  BY Constants DEF Init
<1>4. TypeOK  BY <1>1, <1>2, <1>3 DEF Init, TypeOK
<1>5. Locs  BY Constants DEF Init, MainStarts, Locs, Early, InLoop
<1> QED  BY <1>4, <1>5 DEF TypeInv

LEMMA NextType == TypeInv /\ [Next]_vars => TypeInv'
<1> SUFFICES ASSUME TypeInv, [Next]_vars  PROVE TypeInv'
  OBVIOUS
<1>1. CASE UNCHANGED vars
  BY <1>1 DEF vars, balVars, adminVars, histVars, TypeInv, TypeOK, Locs
<1> QED  BY <1>1, EarlyType, PortType, AdminType, OutsideType DEF Next

(***************************************************************************)
(* The types of the state are invariant.                                   *)
(***************************************************************************)
THEOREM TypeCorrect == Spec => []TypeOK
<1>1. TypeInv => TypeOK  BY DEF TypeInv
<1> QED  BY <1>1, InitType, NextType, PTL DEF Spec

-----------------------------------------------------------------------------
(* What the steps do to threads.                                           *)

(* main on its way to the ports leaves them alone.                         *)
LEMMA MainFacts ==
  ASSUME TypeInv, Main
  PROVE  /\ UNCHANGED <<intf, goal, discovery, scheds, job, rc, torn, unsched, alone>>
         /\ pc["main"] \in Early /\ pc'["main"] \in Early \cup {"status", "exited"}
         /\ pc'["main"] = "status" => at'["main"] = 1
         /\ \A t \in Admins : pc[t] = "idle" /\ pc'[t] = "idle"
         /\ faults' \in {faults, faults + 1}
<1>0. pc["main"] \in Early
  BY DEF Main, CheckConnection, SubscribeIndication, CheckBalReady, ConnectDevice,
     ConnectDeviceRefused, SkipDevice, AlreadyConnected, WaitActivated, ProbeDeviceCapabilities,
     Succeeds, TriesAgain, GivesUp, Early
<1>1. UNCHANGED <<intf, goal, discovery, scheds, job, rc, torn, unsched, alone>>
  BY DEF Main, CheckConnection, SubscribeIndication, CheckBalReady, ConnectDevice,
     ConnectDeviceRefused, SkipDevice, AlreadyConnected, WaitActivated, ProbeDeviceCapabilities,
     Succeeds, TriesAgain, GivesUp, EarlyVars, adminVars, balVars
<1>2. /\ pc'["main"] \in Early \cup {"status", "exited"}
      /\ \A t \in Admins : pc'[t] = pc[t]
      /\ pc'["main"] = "status" => pc["main"] = "probe" /\ at' = at
  <2> USE Constants
  <2>0. pc \in [Threads -> PCs]  BY DEF TypeInv, TypeOK
  <2>1. CASE CheckConnection \/ CheckBalReady \/ WaitActivated
    BY <2>0, <2>1 DEF CheckConnection, CheckBalReady, WaitActivated, Succeeds, TriesAgain, GivesUp,
       Go, Early
       , TypeInv, Locs
  <2>2. CASE SubscribeIndication
    BY <2>0, <2>2 DEF SubscribeIndication, Go, Early
  <2>3. CASE ProbeDeviceCapabilities
    BY <2>0, <2>3 DEF ProbeDeviceCapabilities, Go, Early
  <2>4. CASE ConnectDevice \/ SkipDevice \/ AlreadyConnected
    BY <2>0, <2>4 DEF ConnectDevice, SkipDevice, AlreadyConnected, NextDevice, Go, Early
  <2>5. CASE ConnectDeviceRefused
    BY <2>0, <2>5 DEF ConnectDeviceRefused, NextDevice, Go, Early
  <2> QED  BY <2>1, <2>2, <2>3, <2>4, <2>5 DEF Main
<1>3. faults' \in {faults, faults + 1}
  BY DEF Main, CheckConnection, SubscribeIndication, CheckBalReady, ConnectDevice,
     ConnectDeviceRefused, SkipDevice, AlreadyConnected, WaitActivated, ProbeDeviceCapabilities,
     Succeeds, TriesAgain, GivesUp, Refused, Granted
<1>4. pc["main"] # "serving" /\ (pc["main"] = "probe" => at["main"] = 1)
  BY <1>0 DEF TypeInv, Locs, Early
<1> QED  BY <1>0, <1>1, <1>2, <1>3, <1>4 DEF TypeInv, Locs

(* A thread goes on with its port, or leaves it with an outcome.           *)
Stays(t, to) == pc'[t] = to /\ at'[t] = at[t] /\ failed'[t] = failed[t]

Leaves(t, ok) ==
  /\ failed'[t] = IF ok \/ t = "main" THEN failed[t] ELSE failed[t] + 1
  /\ \/ at[t] < Last(t) /\ at'[t] = at[t] + 1 /\ pc'[t] = "status"
     \/ at[t] = Last(t) /\ at'[t] = at[t] /\ pc'[t] = IF t = "main" THEN "serving" ELSE "finish"

OthersStay(t) == \A u \in Threads \ {t} :
  pc'[u] = pc[u] /\ at'[u] = at[u] /\ failed'[u] = failed[u]

LEMMA ProceedFacts ==
  ASSUME TypeInv, NEW t \in Threads, NEW to, Proceed(t, to)
  PROVE  Stays(t, to) /\ OthersStay(t)
BY DEF Proceed, Go, Stays, OthersStay, TypeInv, TypeOK

LEMMA OutcomeFacts ==
  ASSUME TypeInv, NEW t \in Threads, pc[t] \in InLoop, NEW ok \in BOOLEAN, Outcome(t, ok)
  PROVE  Leaves(t, ok) /\ OthersStay(t)
<1>0. /\ pc \in [Threads -> PCs] /\ at \in [Threads -> Devices \cup Ports]
      /\ failed \in [Threads -> Nat] /\ at[t] \in 1 .. Last(t) /\ Last(t) \in Nat
  BY Constants DEF TypeInv, TypeOK, Locs
<1>1. failed'[t] = (IF ok \/ t = "main" THEN failed[t] ELSE failed[t] + 1)
      /\ \A u \in Threads \ {t} : failed'[u] = failed[u]
  BY <1>0 DEF Outcome
<1>2. CASE at[t] < Last(t)
  BY <1>0, <1>1, <1>2 DEF Outcome, Go, Leaves, OthersStay
<1>3. CASE ~(at[t] < Last(t))
  BY <1>0, <1>1, <1>3 DEF Outcome, Go, Leaves, OthersStay
<1> QED  BY <1>2, <1>3

(***************************************************************************)
(* The steps at a port, as later proofs need them.                         *)
(***************************************************************************)
Quiet == UNCHANGED <<intf, goal, discovery, scheds, torn, unsched>>

Asks(t) ==   \* the query of the state, when the port is not there yet
  /\ Quiet /\ pc[t] = "status"
  /\ \/ at[t] \in Pons /\ Stays(t, "cfg")
     \/ at[t] \notin Pons /\ job[t] = "enable" /\ Stays(t, "oper")
     \/ at[t] \notin Pons /\ job[t] = "enable" /\ intf[at[t]] = "ACTIVE" /\ Stays(t, "sched")

IsThere(t) ==
  /\ Quiet /\ pc[t] = "status" /\ at[t] \in Pons /\ Leaves(t, TRUE)
  /\ intf[at[t]] = IF job[t] = "enable" THEN "ACTIVE" ELSE "INACTIVE"

Fails(t) ==
  /\ UNCHANGED <<intf, goal, discovery, scheds, unsched>> /\ Leaves(t, FALSE)
  /\ pc[t] # "sched" /\ faults' = faults + 1
  /\ \/ torn' = torn /\ ~(pc[t] = "oper" /\ job[t] = "disable")
     \/ torn' = torn \cup {at[t]}

Discovers(t) ==
  /\ pc[t] = "cfg" /\ job[t] = "enable" /\ at[t] \in Pons /\ Stays(t, "oper")
  /\ discovery' = discovery \cup {at[t]}
  /\ torn' = (IF OthersBusy(t) THEN torn ELSE torn \ {at[t]})
  /\ UNCHANGED <<intf, goal, scheds, unsched>>

Hides(t) ==
  /\ pc[t] = "cfg" /\ job[t] = "disable" /\ at[t] \in Pons /\ Stays(t, "oper")
  /\ discovery' = discovery \ {at[t]}
  /\ UNCHANGED <<intf, goal, scheds, torn, unsched>>

Opens(t) ==
  /\ pc[t] = "oper" /\ job[t] = "enable" /\ Stays(t, "sched") /\ Submit(at[t], "ACTIVE")
  /\ UNCHANGED <<discovery, scheds, torn, unsched>>

Closes(t) ==
  /\ pc[t] = "oper" /\ job[t] = "disable" /\ Leaves(t, TRUE) /\ Submit(at[t], "INACTIVE")
  /\ UNCHANGED <<discovery, scheds, torn, unsched>>

Schedules(t) ==
  /\ pc[t] = "sched" /\ job[t] = "enable" /\ Leaves(t, TRUE)
  /\ UNCHANGED <<intf, goal, discovery, torn>>
  /\ \/ scheds' = scheds \cup {at[t]} /\ unsched' = unsched \ {at[t]}
     \/ scheds' = scheds /\ unsched' = unsched \cup {at[t]} /\ faults' = faults + 1

LEMMA PortSteps ==
  ASSUME TypeInv, NEW t \in Threads, EveryPort(t)
  PROVE  /\ \/ Asks(t) \/ IsThere(t) \/ Fails(t) \/ Discovers(t) \/ Hides(t)
            \/ Opens(t) \/ Closes(t) \/ Schedules(t)
         /\ OthersStay(t) /\ UNCHANGED PortVars /\ pc[t] \in InLoop
         /\ faults' \in {faults, faults + 1}
<1>0. /\ pc[t] \in InLoop /\ UNCHANGED PortVars /\ faults' \in {faults, faults + 1}
  BY DEF EveryPort, EnableStatus, EnableNniStatus, EnableDiscovery, EnableOper, CreateDefaults,
     DisableStatus, DisableDiscovery, DisableOper, Step, InLoop, Refused, Granted
<1>1. /\ \A to \in {"cfg", "oper", "sched"} : Proceed(t, to) => Stays(t, to) /\ OthersStay(t)
      /\ \A ok \in BOOLEAN : Outcome(t, ok) => Leaves(t, ok) /\ OthersStay(t)
      /\ TRUE \in BOOLEAN /\ FALSE \in BOOLEAN
  BY <1>0, ProceedFacts, OutcomeFacts
<1>2. pc[t] = "cfg" => at[t] \in Pons  BY DEF TypeInv, Locs
<1>3. ASSUME job[t] = "disable"  PROVE at[t] \in Pons
  <2>1. t \in Admins  BY <1>3 DEF TypeInv, Locs, Threads
  <2> QED  BY <1>0, <2>1, Constants DEF TypeInv, Locs, Pons
<1>4. CASE EnableStatus(t)
  BY <1>0, <1>1, <1>4 DEF EnableStatus, Step, IsPon, Asks, IsThere, Quiet
<1>5. CASE EnableNniStatus(t)
  BY <1>0, <1>1, <1>5 DEF EnableNniStatus, Step, IsPon, Asks, Quiet
<1>6. CASE EnableDiscovery(t)
  <2>1. pc[t] = "cfg" /\ job[t] = "enable" /\ UNCHANGED <<intf, goal, scheds, unsched>>
    BY <1>6 DEF EnableDiscovery, Step
  <2>2. CASE Refused /\ Outcome(t, FALSE) /\ UNCHANGED <<discovery, torn>>
    BY <1>0, <1>1, <2>1, <2>2 DEF Refused, Fails
  <2>3. CASE /\ Granted /\ Proceed(t, "oper")
             /\ discovery' = discovery \cup {at[t]}
             /\ torn' = IF OthersBusy(t) THEN torn ELSE torn \ {at[t]}
    BY <1>0, <1>1, <1>2, <2>1, <2>3 DEF Discovers
  <2> QED  BY <1>6, <2>2, <2>3 DEF EnableDiscovery
<1>7. CASE EnableOper(t)
  BY <1>0, <1>1, <1>7 DEF EnableOper, Step, Refused, Fails, Opens
<1>8. CASE CreateDefaults(t)
  BY <1>0, <1>1, <1>8 DEF CreateDefaults, Step, Refused, Schedules
<1>9. CASE DisableStatus(t)
  BY <1>0, <1>1, <1>3, <1>9 DEF DisableStatus, Step, Refused, Fails, Asks, IsThere, Quiet
<1>10. CASE DisableDiscovery(t)
  BY <1>0, <1>1, <1>2, <1>10 DEF DisableDiscovery, Step, Refused, Fails, Hides
<1>11. CASE DisableOper(t)
  BY <1>0, <1>1, <1>11 DEF DisableOper, Step, Refused, Fails, Closes
<1> QED
  BY <1>0, <1>4, <1>5, <1>6, <1>7, <1>8, <1>9, <1>10, <1>11 DEF EveryPort

(***************************************************************************)
(* What the steps of the admin RPCs, of BAL and of a restart leave alone.  *)
(***************************************************************************)
PortState == <<intf, goal, discovery, scheds, unsched>>

LEMMA AdminFacts ==
  ASSUME TypeInv, NEW t \in Admins,
         Finish(t) \/ Return(t) \/ \E j \in {"enable", "disable"} : AdminCall(t, j)
  PROVE  /\ UNCHANGED <<intf, goal, discovery, scheds, unsched, faults>>
         /\ \A u \in Threads \ {t} : pc'[u] = pc[u] /\ at'[u] = at[u] /\ job'[u] = job[u]
                                     /\ failed'[u] = failed[u] /\ (u \in Admins => rc'[u] = rc[u])
         /\ \/ /\ pc[t] = "finish" /\ pc'[t] = "returned" /\ UNCHANGED <<at, job, failed, torn, alone>>
               /\ rc'[t] = "OK" => failed[t] = 0
               /\ activated' = IF failed[t] = 0 THEN job[t] = "enable" ELSE activated
            \/ /\ pc[t] = "returned" /\ pc'[t] = "idle" /\ alone' = alone \ {t}
               /\ UNCHANGED <<torn, activated>>
            \/ /\ pc["main"] = "serving" /\ pc[t] = "idle" /\ pc'[t] = "status"
               /\ at'[t] = 1 /\ failed'[t] = 0 /\ UNCHANGED activated
               /\ \/ OthersBusy(t) /\ alone' = {} /\ torn' = Pons
                  \/ ~OthersBusy(t) /\ alone' = {t} /\ torn' = torn
<1>0. t \in Threads /\ Admins \subseteq Threads  BY Constants
<1>1. CASE Finish(t)
  <2>1. /\ pc[t] = "finish" /\ pc' = [pc EXCEPT ![t] = "returned"]
        /\ UNCHANGED <<balVars, subscribed, at, trials, job, failed, before, histVars, alone>>
        /\ activated' = IF failed[t] = 0 THEN job[t] = "enable" ELSE activated
    BY <1>1 DEF Finish, Go
  <2>2. (\A u \in Admins \ {t} : rc'[u] = rc[u]) /\ (rc'[t] = "OK" => failed[t] = 0)
    BY <1>1 DEF Finish, TypeInv, TypeOK
  <2>3. \A u \in Threads \ {t} : pc'[u] = pc[u]  BY <2>1 DEF TypeInv, TypeOK
  <2>4. pc'[t] = "returned"  BY <1>0, <2>1 DEF TypeInv, TypeOK
  <2> QED  BY <1>0, <2>1, <2>2, <2>3, <2>4 DEF balVars, histVars
<1>2. CASE Return(t)
  BY <1>0, <1>2 DEF Return, Go, balVars, histVars, TypeInv, TypeOK
<1>3. ASSUME NEW j \in {"enable", "disable"}, AdminCall(t, j)
      PROVE  /\ UNCHANGED <<intf, goal, discovery, scheds, unsched, faults>>
             /\ \A u \in Threads \ {t} : pc'[u] = pc[u] /\ at'[u] = at[u] /\ job'[u] = job[u]
                                     /\ failed'[u] = failed[u] /\ (u \in Admins => rc'[u] = rc[u])
             /\ pc["main"] = "serving" /\ pc[t] = "idle" /\ pc'[t] = "status"
             /\ at'[t] = 1 /\ failed'[t] = 0 /\ UNCHANGED activated
             /\ \/ OthersBusy(t) /\ alone' = {} /\ torn' = Pons
                \/ ~OthersBusy(t) /\ alone' = {t} /\ torn' = torn
  BY <1>0, <1>3 DEF AdminCall, Go, balVars, TypeInv, TypeOK
<1> QED  BY <1>1, <1>2, <1>3

LEMMA BalFacts ==
  ASSUME TypeInv, Bal
  PROVE  /\ UNCHANGED <<discovery, scheds, pc, at, job, failed, rc, torn, unsched>>
         /\ faults' \in {faults, faults + 1}
         /\ \/ UNCHANGED <<intf, goal>> /\ alone' = {}
            \/ /\ UNCHANGED <<goal, alone, activated, faults>>
               /\ \E p \in Ports : intf' = [intf EXCEPT ![p] = goal[p]]
            \/ /\ alone' = {} /\ UNCHANGED activated
               /\ \E p \in Ports : /\ intf' = [intf EXCEPT ![p] = "INACTIVE"]
                                   /\ goal' = [goal EXCEPT ![p] = "INACTIVE"]
<1>1. CASE \E d \in Devices : DeviceConnects(d) \/ DeviceFails(d) \/ DeviceLost(d)
  BY <1>1 DEF DeviceConnects, DeviceFails, DeviceLost, DeviceEvent, adminVars, Refused, Granted
<1>2. ASSUME NEW p \in Ports, PortReachesGoal(p)  PROVE
         /\ UNCHANGED <<discovery, scheds, pc, at, job, failed, rc, torn, unsched>>
         /\ UNCHANGED <<goal, alone, activated, faults>>
         /\ intf' = [intf EXCEPT ![p] = goal[p]]
  BY <1>2 DEF PortReachesGoal, adminVars, histVars
<1>3. ASSUME NEW p \in Ports, PortFails(p)  PROVE
         /\ UNCHANGED <<discovery, scheds, pc, at, job, failed, rc, torn, unsched>>
         /\ alone' = {} /\ UNCHANGED activated /\ faults' = faults + 1
         /\ intf' = [intf EXCEPT ![p] = "INACTIVE"] /\ goal' = [goal EXCEPT ![p] = "INACTIVE"]
  BY <1>3 DEF PortFails, adminVars, Refused
<1> QED  BY <1>1, <1>2, <1>3 DEF Bal

LEMMA RestartFacts ==
  ASSUME Restart
  PROVE  /\ UNCHANGED <<intf, goal, discovery, scheds, faults>> /\ alone' = {}
         /\ unsched' = unsched \cup {at[t] : t \in {u \in Threads : pc[u] = "sched"}}
         /\ torn' = torn \cup {at[t] : t \in {u \in Threads : pc[u] = "oper" /\ job[u] = "disable"}}
         /\ pc'["main"] = "connection" /\ at'["main"] = 1
         /\ \A t \in Admins : pc'[t] = "idle"
BY Constants DEF Restart, MainStarts, balVars

-----------------------------------------------------------------------------
(***************************************************************************)
(* A call that is alone is the only one; a port is where it should be or on*)
(* the way; PONs on which calls overlap are recorded.                      *)
(***************************************************************************)
AloneInv == \A t \in alone : /\ pc["main"] = "serving" /\ pc[t] # "idle"
                             /\ \A u \in Admins \ {t} : pc[u] = "idle"
Consistent == \A p \in Ports : intf[p] = goal[p] \/ intf[p] = "PROCESSING"
Overlap  == \A t, u \in Admins : t # u /\ pc[t] # "idle" /\ pc[u] # "idle" => Pons \subseteq torn

CallInv == AloneInv /\ Consistent /\ Overlap

(* What a request for a change of state does, at the port of a thread.     *)
LEMMA SubmitFacts ==
  ASSUME TypeInv, NEW t \in Threads, pc[t] \in InLoop, NEW g \in Goals, Submit(at[t], g)
  PROVE  /\ at[t] \in Ports /\ goal'[at[t]] = g
         /\ intf'[at[t]] \in {g, "PROCESSING"}
         /\ \A q \in Ports : q # at[t] => goal'[q] = goal[q] /\ intf'[q] = intf[q]
<1>1. at[t] \in Ports  BY Constants DEF TypeInv, Locs, Ports
<1> QED  BY <1>1, SubmitType DEF TypeInv

LEMMA NextCall == TypeInv /\ CallInv /\ [Next]_vars => CallInv'
<1> SUFFICES ASSUME TypeInv, CallInv, [Next]_vars  PROVE CallInv'
  OBVIOUS
<1> USE DEF CallInv
<1>0. alone \subseteq Admins /\ Admins \subseteq Threads /\ "main" \in Threads /\ "main" \notin Admins
  BY Constants DEF TypeInv, TypeOK
<1>1. CASE UNCHANGED vars
  BY <1>1 DEF vars, balVars, histVars, AloneInv, Consistent, Overlap
<1>2. CASE Main
  <2>1. pc["main"] # "serving"  BY <1>2, MainFacts DEF Early
  <2> QED  BY <1>2, <2>1, MainFacts DEF AloneInv, Consistent, Overlap
<1>3. ASSUME NEW t \in Threads, EveryPort(t)  PROVE CallInv'
  <2>1. /\ OthersStay(t) /\ UNCHANGED <<job, alone>> /\ pc[t] \in InLoop
        /\ \/ Asks(t) \/ IsThere(t) \/ Fails(t) \/ Discovers(t) \/ Hides(t)
           \/ Opens(t) \/ Closes(t) \/ Schedules(t)
    BY <1>3, PortSteps DEF PortVars
  <2>2. pc'[t] \in InLoop \cup {"serving", "finish"}
    BY <2>1 DEF Asks, IsThere, Fails, Discovers, Hides, Opens, Closes, Schedules, Stays, Leaves, InLoop
  <2>3. \A u \in Admins : pc'[u] = "idle" <=> pc[u] = "idle"
    BY <1>0, <2>1, <2>2 DEF OthersStay, InLoop
  <2>4. AloneInv'
    <3>1. SUFFICES ASSUME NEW v \in alone
                   PROVE  pc'["main"] = "serving" /\ pc'[v] # "idle"
                          /\ \A u \in Admins \ {v} : pc'[u] = "idle"
      BY <2>1 DEF AloneInv
    <3>2. pc["main"] = "serving" /\ pc[v] # "idle" /\ \A u \in Admins \ {v} : pc[u] = "idle"
      BY <3>1 DEF AloneInv
    <3>3. t # "main"  BY <2>1, <3>2 DEF InLoop
    <3> QED  BY <1>0, <2>1, <2>3, <3>1, <3>2, <3>3 DEF OthersStay
  <2>5. Consistent'
    <3>1. CASE UNCHANGED <<intf, goal>>  BY <3>1 DEF Consistent
    <3>2. CASE Opens(t)
      <4>1. "ACTIVE" \in Goals  BY DEF Goals
      <4> QED  BY <2>1, <3>2, <4>1, SubmitFacts DEF Opens, Consistent
    <3>3. CASE Closes(t)
      <4>1. "INACTIVE" \in Goals  BY DEF Goals
      <4> QED  BY <2>1, <3>3, <4>1, SubmitFacts DEF Closes, Consistent
    <3> QED
      BY <2>1, <3>1, <3>2, <3>3 DEF Asks, IsThere, Fails, Discovers, Hides, Schedules, Quiet
  <2>6. Overlap'
    <3>1. CASE torn \subseteq torn'  BY <2>3, <3>1 DEF Overlap
    <3>2. CASE Discovers(t) /\ ~OthersBusy(t)
      <4>1. CASE t \in Admins  BY <1>0, <2>3, <3>2, <4>1 DEF OthersBusy, Overlap
      <4>2. CASE t = "main"
        <5>1. \A u \in Admins : pc[u] = "idle"
          BY <2>1, <4>2 DEF TypeInv, Locs, InLoop
        <5> QED  BY <2>3, <5>1 DEF Overlap
      <4> QED  BY <4>1, <4>2 DEF Threads
    <3> QED
      BY <2>1, <3>1, <3>2 DEF Asks, IsThere, Fails, Discovers, Hides, Opens, Closes, Schedules, Quiet
  <2> QED  BY <2>4, <2>5, <2>6
<1>4. ASSUME NEW t \in Admins,
             Finish(t) \/ Return(t) \/ \E j \in {"enable", "disable"} : AdminCall(t, j)
      PROVE  CallInv'
  <2>1. Consistent'  BY <1>4, AdminFacts DEF Consistent
  <2>2. AloneInv' /\ Overlap'
    <3>0. \A u \in Threads \ {t} : pc'[u] = pc[u]  BY <1>4, AdminFacts
    <3>1. CASE pc[t] = "finish" /\ pc'[t] = "returned" /\ UNCHANGED <<torn, alone>>
      BY <1>0, <3>0, <3>1 DEF AloneInv, Overlap
    <3>2. CASE pc[t] = "returned" /\ pc'[t] = "idle" /\ alone' = alone \ {t} /\ UNCHANGED torn
      BY <1>0, <3>0, <3>2 DEF AloneInv, Overlap
    <3>3. CASE /\ pc["main"] = "serving" /\ pc[t] = "idle" /\ pc'[t] = "status"
               /\ OthersBusy(t) /\ alone' = {} /\ torn' = Pons
      BY <3>3 DEF AloneInv, Overlap
    <3>4. CASE /\ pc["main"] = "serving" /\ pc[t] = "idle" /\ pc'[t] = "status"
               /\ ~OthersBusy(t) /\ alone' = {t} /\ torn' = torn
      BY <1>0, <3>0, <3>4 DEF AloneInv, Overlap, OthersBusy
    <3> QED  BY <1>4, <3>1, <3>2, <3>3, <3>4, AdminFacts
  <2> QED  BY <2>1, <2>2
<1>5. CASE Bal
  <2>1. AloneInv' /\ Overlap'  BY <1>5, BalFacts DEF AloneInv, Overlap
  <2>2. Consistent'  BY <1>5, BalFacts DEF Consistent, TypeInv, TypeOK
  <2> QED  BY <2>1, <2>2
<1>6. CASE Restart
  BY <1>6, RestartFacts DEF AloneInv, Consistent, Overlap
<1> QED  BY <1>0, <1>1, <1>2, <1>3, <1>4, <1>5, <1>6 DEF Next

LEMMA InitCall == Init => CallInv
BY DEF Init, CallInv, AloneInv, Consistent, Overlap, MainStarts, NothingUp, Threads

-----------------------------------------------------------------------------
(***************************************************************************)
(* Schedulers.  A port that was told to go up has one, is recorded, or a   *)
(* thread is about to make one; NNIs get theirs in main's loop.            *)
(***************************************************************************)
HasSched(p) ==
  p \in scheds \cup unsched \/ \E t \in Threads : pc[t] = "sched" /\ at[t] = p

GoalSched == \A p \in Ports : goal[p] = "ACTIVE" => HasSched(p)

NniSched ==
  faults = 0 =>
    /\ pc["main"] \in InLoop => \A p \in Ports \ Pons : p < at["main"] => p \in scheds
    /\ pc["main"] = "serving" => Ports \ Pons \subseteq scheds

SchedInv == GoalSched /\ NniSched

LEMMA InitSched == Init => SchedInv
BY DEF Init, SchedInv, GoalSched, NniSched, MainStarts, NothingUp, Threads, InLoop

LEMMA PortSched ==
  ASSUME TypeInv, CallInv, SchedInv, NEW t \in Threads, EveryPort(t)
  PROVE  SchedInv'
<1>0. /\ OthersStay(t) /\ UNCHANGED job /\ pc[t] \in InLoop /\ faults' \in {faults, faults + 1}
      /\ \/ Asks(t) \/ IsThere(t) \/ Fails(t) \/ Discovers(t) \/ Hides(t)
         \/ Opens(t) \/ Closes(t) \/ Schedules(t)
  BY PortSteps DEF PortVars
<1>1. scheds \subseteq scheds'
  BY <1>0 DEF Asks, IsThere, Fails, Discovers, Hides, Opens, Closes, Schedules, Quiet
<1>2. faults \in Nat /\ (faults' = 0 => faults = 0)  BY <1>0 DEF TypeInv, TypeOK
<1>3. "ACTIVE" \in Goals /\ "INACTIVE" \in Goals  BY DEF Goals
<1>4. GoalSched'
  <2>1. SUFFICES ASSUME NEW p \in Ports, goal'[p] = "ACTIVE"  PROVE HasSched(p)'
    BY DEF GoalSched
  <2>2. CASE Opens(t)
    <3>1. pc'[t] = "sched" /\ at'[t] = at[t]  BY <2>2 DEF Opens, Stays
    <3>2. p = at[t] \/ HasSched(p)
      BY <1>0, <1>3, <2>1, <2>2, SubmitFacts DEF Opens, SchedInv, GoalSched
    <3>3. \A u \in Threads : pc[u] = "sched" /\ at[u] = p => pc'[u] = "sched" /\ at'[u] = p
      BY <1>0, <2>2 DEF OthersStay, Opens
    <3> QED  BY <2>2, <3>1, <3>2, <3>3 DEF Opens, HasSched
  <2>3. HasSched(p) \/ Opens(t)
    <3>1. CASE Closes(t)
      BY <1>0, <1>3, <2>1, <3>1, SubmitFacts DEF Closes, SchedInv, GoalSched
    <3> QED
      BY <1>0, <2>1, <3>1 DEF Asks, IsThere, Fails, Discovers, Hides, Schedules, Quiet, SchedInv,
         GoalSched
  <2>4. CASE pc[t] # "sched" /\ ~Opens(t)
    <3>1. unsched' = unsched
      BY <1>0, <2>4 DEF Asks, IsThere, Fails, Discovers, Hides, Closes, Schedules, Quiet
    <3>2. \A u \in Threads : pc[u] = "sched" /\ at[u] = p => pc'[u] = "sched" /\ at'[u] = p
      BY <1>0, <2>4 DEF OthersStay
    <3> QED  BY <1>1, <2>3, <2>4, <3>1, <3>2 DEF HasSched
  <2>5. CASE pc[t] = "sched"
    <3>1. /\ at[t] \in scheds' \cup unsched'
          /\ scheds \cup unsched \subseteq scheds' \cup unsched'
      BY <1>0, <2>5 DEF Asks, IsThere, Fails, Discovers, Hides, Opens, Closes, Schedules
    <3>2. \A u \in Threads \ {t} : pc[u] = "sched" /\ at[u] = p => pc'[u] = "sched" /\ at'[u] = p
      BY <1>0 DEF OthersStay
    <3>3. ~Opens(t)  BY <2>5 DEF Opens
    <3> QED  BY <2>3, <3>1, <3>2, <3>3 DEF HasSched
  <2> QED  BY <2>2, <2>4, <2>5
<1>5. NniSched'
  <2>0. SUFFICES ASSUME faults' = 0
        PROVE  /\ pc'["main"] \in InLoop => \A p \in Ports \ Pons : p < at'["main"] => p \in scheds'
               /\ pc'["main"] = "serving" => Ports \ Pons \subseteq scheds'
    BY DEF NniSched
  <2>1. CASE t # "main"
    <3>1. pc'["main"] = pc["main"] /\ at'["main"] = at["main"]
      BY <1>0, <2>1, Constants DEF OthersStay
    <3> QED  BY <1>1, <1>2, <2>0, <3>1 DEF SchedInv, NniSched
  <2>2. CASE t = "main"
    <3>1. \A p \in Ports \ Pons : p < at["main"] => p \in scheds'
      BY <1>0, <1>1, <1>2, <2>0, <2>2 DEF SchedInv, NniSched
    <3>2. CASE \E to \in InLoop : Stays(t, to)
      BY <2>2, <3>1, <3>2 DEF Stays, InLoop
    <3>3. CASE \E ok \in BOOLEAN : Leaves(t, ok)
      <4>1. at["main"] \in Pons \/ at["main"] \in scheds'
        BY <1>0, <1>2, <2>0, <2>2, <3>3 DEF Asks, IsThere, Fails, Discovers, Hides, Opens, Closes,
           Schedules, TypeInv, Locs, Stays, Leaves
      <4>2. at["main"] \in 1 .. NumPons + NumNnis /\ NumPons \in Nat /\ NumNnis \in Nat \ {0}
        BY <1>0, <2>2, Constants DEF TypeInv, Locs
      <4>3. CASE at'["main"] = at["main"] + 1 /\ pc'["main"] = "status"
        <5>1. \A p \in Ports \ Pons : p < at["main"] + 1 => p \in scheds'
          <6>1. SUFFICES ASSUME NEW p \in Ports \ Pons, p < at["main"] + 1  PROVE p \in scheds'
            OBVIOUS
          <6>2. p \in Nat /\ (p < at["main"] \/ p = at["main"])
            BY <4>2, <6>1 DEF Ports
          <6> QED  BY <3>1, <4>1, <6>1, <6>2
        <5> QED  BY <4>3, <5>1
      <4>4. CASE at["main"] = Last("main") /\ pc'["main"] = "serving"
        <5>1. at["main"] = NumPons + NumNnis /\ at["main"] \notin Pons
          BY <4>2, <4>4, Constants DEF Pons
        <5>2. ASSUME NEW p \in Ports \ Pons  PROVE p \in scheds'
          <6>1. p \in Nat /\ (p < at["main"] \/ p = at["main"])
            BY <4>2, <5>1 DEF Ports
          <6> QED  BY <3>1, <4>1, <5>1, <6>1
        <5> QED  BY <4>4, <5>2 DEF InLoop
      <4> QED  BY <2>2, <3>3, <4>3, <4>4 DEF Leaves
    <3> QED
      BY <1>0, <3>2, <3>3 DEF Asks, IsThere, Fails, Discovers, Hides, Opens, Closes, Schedules, InLoop
  <2> QED  BY <2>1, <2>2
<1> QED  BY <1>4, <1>5 DEF SchedInv

LEMMA NextSched == TypeInv /\ CallInv /\ SchedInv /\ [Next]_vars => SchedInv'
<1> SUFFICES ASSUME TypeInv, CallInv, SchedInv, [Next]_vars  PROVE SchedInv'
  OBVIOUS
<1>0. faults \in Nat /\ "main" \in Threads /\ "main" \notin Admins
  BY Constants DEF TypeInv, TypeOK
<1>1. CASE UNCHANGED vars
  BY <1>1 DEF vars, balVars, histVars, SchedInv, GoalSched, NniSched, HasSched
<1>2. CASE Main
  <2>1. /\ UNCHANGED <<goal, scheds, unsched>> /\ pc["main"] \notin {"sched", "serving"}
        /\ pc'["main"] # "serving" /\ (pc'["main"] \in InLoop => at'["main"] = 1)
        /\ \A t \in Admins : pc[t] = "idle"
    BY <1>2, MainFacts DEF Early, InLoop
  <2>2. GoalSched'
    <3>1. \A t \in Threads : pc[t] # "sched"  BY <2>1 DEF Threads
    <3> QED  BY <2>1, <3>1 DEF SchedInv, GoalSched, HasSched
  <2>3. \A p \in Ports : ~(p < 1)  BY Constants DEF Ports
  <2> QED  BY <2>1, <2>2, <2>3 DEF SchedInv, NniSched
<1>3. ASSUME NEW t \in Admins,
             Finish(t) \/ Return(t) \/ \E j \in {"enable", "disable"} : AdminCall(t, j)
      PROVE  SchedInv'
  <2>1. /\ UNCHANGED <<goal, scheds, unsched, faults>> /\ pc[t] # "sched"
        /\ \A u \in Threads \ {t} : pc'[u] = pc[u] /\ at'[u] = at[u]
    BY <1>3, AdminFacts
  <2>2. pc'["main"] = pc["main"] /\ at'["main"] = at["main"]  BY <1>0, <2>1
  <2> QED  BY <2>1, <2>2 DEF SchedInv, GoalSched, NniSched, HasSched
<1>4. CASE Bal
  <2>1. /\ UNCHANGED <<scheds, pc, at, unsched>> /\ faults' \in {faults, faults + 1}
        /\ \A p \in Ports : goal'[p] = "ACTIVE" => goal[p] = "ACTIVE"
    BY <1>4, BalFacts DEF TypeInv, TypeOK
  <2> QED  BY <1>0, <2>1 DEF SchedInv, GoalSched, NniSched, HasSched
<1>5. CASE Restart
  BY <1>5, RestartFacts DEF SchedInv, GoalSched, NniSched, HasSched, InLoop
<1> QED  BY <1>1, <1>2, <1>3, <1>4, <1>5, PortSched DEF Next

(***************************************************************************)
(* An active port has its scheduler, but for the recorded exceptions, and  *)
(* without a refusal every NNI has one once main serves.                   *)
(***************************************************************************)
THEOREM ActiveScheduled == Spec => []ActiveHasScheduler
<1>1. TypeInv /\ CallInv /\ SchedInv => ActiveHasScheduler
  BY DEF CallInv, Consistent, SchedInv, GoalSched, HasSched, NniSched, ActiveHasScheduler
<1> QED
  BY <1>1, InitType, NextType, InitCall, NextCall, InitSched, NextSched, PTL DEF Spec

-----------------------------------------------------------------------------
(***************************************************************************)
(* Discovery.  A PON that is up or going up discovers ONUs, is recorded,   *)
(* or a Disable_ is between its two requests for it.                       *)
(***************************************************************************)
Closing(p) == \E t \in Admins : pc[t] = "oper" /\ job[t] = "disable" /\ at[t] = p

HasDiscovery == \A p \in Pons : goal[p] = "ACTIVE" => p \in discovery \cup torn \/ Closing(p)

Opening == \A t \in Threads : pc[t] = "oper" /\ job[t] = "enable" /\ at[t] \in Pons
                                => at[t] \in discovery \cup torn

DiscoveryInv == HasDiscovery /\ Opening

LEMMA InitDiscovery == Init => DiscoveryInv
BY Constants DEF Init, DiscoveryInv, HasDiscovery, Opening, MainStarts, NothingUp

LEMMA PortDiscovery ==
  ASSUME TypeInv, CallInv, DiscoveryInv, NEW t \in Threads, EveryPort(t)
  PROVE  DiscoveryInv'
<1>0. /\ OthersStay(t) /\ UNCHANGED job /\ pc[t] \in InLoop
      /\ \/ Asks(t) \/ IsThere(t) \/ Fails(t) \/ Discovers(t) \/ Hides(t)
         \/ Opens(t) \/ Closes(t) \/ Schedules(t)
  BY PortSteps DEF PortVars
<1>1. /\ "ACTIVE" \in Goals /\ "INACTIVE" \in Goals /\ Pons \subseteq Ports
      /\ \A u \in Threads : u = "main" \/ u \in Admins
      /\ "main" \in Threads /\ "main" \notin Admins /\ Admins \subseteq Threads
  BY Constants DEF Goals, Threads
<1>2. \A u \in Threads \ {t} : pc'[u] = pc[u] /\ at'[u] = at[u] /\ job'[u] = job[u]
  BY <1>0 DEF OthersStay
<1>3. job[t] = "disable" => t \in Admins /\ pc["main"] = "serving"
  BY <1>0, <1>1 DEF TypeInv, Locs, InLoop
<1>4. CASE Asks(t) \/ IsThere(t) \/ Schedules(t)
  <2>1. /\ UNCHANGED <<goal, discovery, torn>> /\ pc[t] # "oper"
        /\ pc'[t] = "oper" => at'[t] \notin Pons
    BY <1>4 DEF Asks, IsThere, Schedules, Quiet, Stays, Leaves
  <2>2. HasDiscovery'  BY <1>0, <1>1, <1>2, <2>1 DEF DiscoveryInv, HasDiscovery, Closing
  <2>3. Opening'  BY <1>0, <1>2, <2>1 DEF DiscoveryInv, Opening
  <2> QED  BY <2>2, <2>3 DEF DiscoveryInv
<1>5. CASE Fails(t)
  <2>1. /\ UNCHANGED <<goal, discovery>> /\ torn \subseteq torn' /\ pc'[t] # "oper"
        /\ pc[t] = "oper" /\ job[t] = "disable" => at[t] \in torn'
    BY <1>5 DEF Fails, Leaves
  <2>2. HasDiscovery'  BY <1>0, <1>1, <1>2, <2>1 DEF DiscoveryInv, HasDiscovery, Closing
  <2>3. Opening'  BY <1>0, <1>2, <2>1 DEF DiscoveryInv, Opening
  <2> QED  BY <2>2, <2>3 DEF DiscoveryInv
<1>6. CASE Discovers(t)
  <2>1. /\ UNCHANGED goal /\ discovery \cup torn \subseteq discovery' \cup torn'
        /\ at'[t] \in discovery' /\ pc[t] # "oper"
    BY <1>6 DEF Discovers, Stays
  <2>2. HasDiscovery'  BY <1>0, <1>1, <1>2, <2>1 DEF DiscoveryInv, HasDiscovery, Closing
  <2>3. Opening'  BY <1>0, <1>2, <2>1 DEF DiscoveryInv, Opening
  <2> QED  BY <2>2, <2>3 DEF DiscoveryInv
<1>7. CASE Hides(t)
  <2>1. /\ UNCHANGED <<goal, torn>> /\ discovery' = discovery \ {at[t]} /\ pc[t] = "cfg"
        /\ pc'[t] = "oper" /\ at'[t] = at[t] /\ job[t] = "disable"
    BY <1>7 DEF Hides, Stays
  <2>2. HasDiscovery'
    <3>1. SUFFICES ASSUME NEW p \in Pons, goal'[p] = "ACTIVE"
                   PROVE  p \in discovery' \cup torn' \/ Closing(p)'
      BY DEF HasDiscovery
    <3>2. CASE p = at[t]  BY <1>0, <1>3, <2>1, <3>2 DEF Closing
    <3>3. CASE p # at[t]
      <4>1. p \in discovery \cup torn \/ Closing(p)
        BY <2>1, <3>1 DEF DiscoveryInv, HasDiscovery
      <4>2. Closing(p) => Closing(p)'
        BY <1>0, <1>1, <1>2, <2>1 DEF Closing
      <4> QED  BY <2>1, <3>3, <4>1, <4>2
    <3> QED  BY <3>2, <3>3
  <2>3. Opening'
    <3>1. SUFFICES ASSUME NEW u \in Threads, pc'[u] = "oper", job'[u] = "enable", at'[u] \in Pons
                   PROVE  at'[u] \in discovery' \cup torn'
      BY DEF Opening
    <3>2. u # t  BY <1>0, <2>1, <3>1
    <3>3. pc[u] = "oper" /\ at'[u] \in Pons  BY <1>2, <3>1, <3>2
    <3>4. t \in Admins /\ u \in Admins  BY <1>1, <1>3, <2>1, <3>3
    <3>5. Pons \subseteq torn
      BY <2>1, <3>2, <3>3, <3>4 DEF CallInv, Overlap
    <3> QED  BY <2>1, <3>3, <3>5
  <2> QED  BY <2>2, <2>3 DEF DiscoveryInv
<1>8. CASE Opens(t)
  <2>1. /\ UNCHANGED <<discovery, torn>> /\ pc'[t] = "sched" /\ job[t] = "enable" /\ pc[t] = "oper"
        /\ \A p \in Ports : p # at[t] => goal'[p] = goal[p]
    BY <1>0, <1>1, <1>8, SubmitFacts DEF Opens, Stays
  <2>2. HasDiscovery'
    <3>1. SUFFICES ASSUME NEW p \in Pons, goal'[p] = "ACTIVE"
                   PROVE  p \in discovery' \cup torn' \/ Closing(p)'
      BY DEF HasDiscovery
    <3>2. CASE p = at[t]  BY <2>1, <3>2 DEF DiscoveryInv, Opening
    <3>3. CASE p # at[t]
      <4>1. p \in discovery \cup torn \/ Closing(p)
        BY <1>1, <2>1, <3>1, <3>3 DEF DiscoveryInv, HasDiscovery
      <4>2. Closing(p) => Closing(p)'
        BY <1>0, <1>1, <1>2, <2>1 DEF Closing
      <4> QED  BY <2>1, <4>1, <4>2
    <3> QED  BY <3>2, <3>3
  <2>3. Opening'  BY <1>0, <1>2, <2>1 DEF DiscoveryInv, Opening
  <2> QED  BY <2>2, <2>3 DEF DiscoveryInv
<1>9. CASE Closes(t)
  <2>1. /\ UNCHANGED <<discovery, torn>> /\ pc'[t] # "oper" /\ job[t] = "disable"
        /\ goal'[at[t]] = "INACTIVE" /\ \A p \in Ports : p # at[t] => goal'[p] = goal[p]
    BY <1>0, <1>1, <1>9, SubmitFacts DEF Closes, Leaves
  <2>2. HasDiscovery'
    <3>1. SUFFICES ASSUME NEW p \in Pons, goal'[p] = "ACTIVE"
                   PROVE  p \in discovery' \cup torn' \/ Closing(p)'
      BY DEF HasDiscovery
    <3>2. p # at[t]  BY <2>1, <3>1
    <3>3. p \in discovery \cup torn \/ Closing(p)
      BY <1>1, <2>1, <3>1, <3>2 DEF DiscoveryInv, HasDiscovery
    <3>4. Closing(p) => Closing(p)'
      BY <1>0, <1>1, <1>2, <3>2 DEF Closing
    <3> QED  BY <2>1, <3>3, <3>4
  <2>3. Opening'  BY <1>0, <1>2, <2>1 DEF DiscoveryInv, Opening
  <2> QED  BY <2>2, <2>3 DEF DiscoveryInv
<1> QED  BY <1>0, <1>4, <1>5, <1>6, <1>7, <1>8, <1>9

LEMMA NextDiscovery == TypeInv /\ CallInv /\ DiscoveryInv /\ [Next]_vars => DiscoveryInv'
<1> SUFFICES ASSUME TypeInv, CallInv, DiscoveryInv, [Next]_vars  PROVE DiscoveryInv'
  OBVIOUS
<1>0. "main" \in Threads /\ "main" \notin Admins /\ Admins \subseteq Threads /\ Pons \subseteq Ports
      /\ \A u \in Threads : u = "main" \/ u \in Admins
  BY Constants DEF Threads
<1>1. CASE UNCHANGED vars
  BY <1>1 DEF vars, balVars, adminVars, histVars, DiscoveryInv, HasDiscovery, Opening, Closing
<1>2. CASE Main
  <2>1. /\ UNCHANGED <<goal, discovery, torn, job>> /\ pc'["main"] # "oper"
        /\ \A t \in Admins : pc[t] = "idle" /\ pc'[t] = "idle"
    BY <1>2, MainFacts DEF Early
  <2> QED  BY <1>0, <2>1 DEF DiscoveryInv, HasDiscovery, Opening, Closing
<1>3. ASSUME NEW t \in Admins,
             Finish(t) \/ Return(t) \/ \E j \in {"enable", "disable"} : AdminCall(t, j)
      PROVE  DiscoveryInv'
  <2>1. /\ UNCHANGED <<goal, discovery>> /\ pc[t] # "oper" /\ pc'[t] # "oper"
        /\ torn' = torn \/ torn' = Pons
        /\ \A u \in Threads \ {t} : pc'[u] = pc[u] /\ at'[u] = at[u] /\ job'[u] = job[u]
    BY <1>3, AdminFacts
  <2>2. HasDiscovery'  BY <1>0, <2>1 DEF DiscoveryInv, HasDiscovery, Closing
  <2>3. Opening'  BY <1>0, <2>1 DEF DiscoveryInv, Opening
  <2> QED  BY <2>2, <2>3 DEF DiscoveryInv
<1>4. CASE Bal
  <2>1. /\ UNCHANGED <<discovery, pc, at, job, torn>>
        /\ \A p \in Ports : goal'[p] = "ACTIVE" => goal[p] = "ACTIVE"
    BY <1>4, BalFacts DEF TypeInv, TypeOK
  <2> QED  BY <1>0, <2>1 DEF DiscoveryInv, HasDiscovery, Opening, Closing
<1>5. CASE Restart
  <2>1. \A p \in Pons : Closing(p) => p \in torn'
    BY <1>0, <1>5, RestartFacts DEF Closing
  <2>2. UNCHANGED <<goal, discovery>> /\ torn \subseteq torn' /\ \A t \in Threads : pc'[t] # "oper"
    BY <1>0, <1>5, RestartFacts
  <2> QED  BY <2>1, <2>2 DEF DiscoveryInv, HasDiscovery, Opening
<1> QED  BY <1>1, <1>2, <1>3, <1>4, <1>5, PortDiscovery DEF Next

-----------------------------------------------------------------------------
(***************************************************************************)
(* How far an admin call is that is alone and has had no failure: the PONs *)
(* behind it are as they should be.                                        *)
(***************************************************************************)
Good(j, p) == IF j = "disable" THEN goal[p] = "INACTIVE"
                               ELSE goal[p] = "ACTIVE" /\ p \in discovery \cup torn

AllGood(j) == \A p \in Pons : Good(j, p)

Behind(t) ==
  /\ pc[t] \in InLoop => \A p \in Pons : p < at[t] => Good(job[t], p)
  /\ pc[t] = "sched"  => Good("enable", at[t])
  /\ pc[t] = "finish" => AllGood(job[t])

ProgressInv ==
  \A t \in alone :
    /\ failed[t] = 0 => Behind(t)
    /\ pc[t] = "returned" /\ rc[t] = "OK" => (activated <=> job[t] = "enable") /\ AllGood(job[t])

LEMMA InitProgress == Init => ProgressInv
BY DEF Init, ProgressInv

LEMMA PortProgress ==
  ASSUME TypeInv, CallInv, DiscoveryInv, ProgressInv, NEW u \in Threads, EveryPort(u)
  PROVE  ProgressInv'
<1>0. /\ OthersStay(u) /\ UNCHANGED <<job, rc, alone, activated>> /\ pc[u] \in InLoop
      /\ \/ Asks(u) \/ IsThere(u) \/ Fails(u) \/ Discovers(u) \/ Hides(u)
         \/ Opens(u) \/ Closes(u) \/ Schedules(u)
  BY PortSteps DEF PortVars
<1> SUFFICES ASSUME NEW t \in alone
             PROVE  /\ failed'[t] = 0 => Behind(t)'
                    /\ pc'[t] # "returned"
  BY <1>0 DEF ProgressInv
<1>1. t \in Admins /\ t \in Threads /\ t # "main"  BY Constants DEF TypeInv, TypeOK
<1>2. u = t
  <2>1. u = "main" \/ u \in Admins  BY DEF Threads
  <2> QED  BY <1>0, <1>1, <2>1 DEF CallInv, AloneInv, InLoop
<1>3. pc'[t] # "returned"
  BY <1>0, <1>2 DEF Asks, IsThere, Fails, Discovers, Hides, Opens, Closes, Schedules, Stays, Leaves
<1>4. SUFFICES ASSUME failed'[t] = 0  PROVE Behind(t)'
  BY <1>3
<1>5. failed[t] \in Nat /\ at[t] \in Pons /\ Last(t) = NumPons /\ NumPons \in Nat /\ at[t] \in Ports
  BY <1>0, <1>1, <1>2, Constants DEF TypeInv, TypeOK, Locs, Pons
<1>6. ~Fails(u) /\ failed[t] = 0
  BY <1>0, <1>1, <1>2, <1>4, <1>5 DEF Asks, IsThere, Fails, Discovers, Hides, Opens, Closes,
     Schedules, Stays, Leaves
<1>7. Behind(t)  BY <1>6 DEF ProgressInv
<1>8. job'[t] = job[t] /\ job[t] \in {"enable", "disable"}  BY <1>0, <1>1 DEF TypeInv, TypeOK
<1>9. "ACTIVE" \in Goals /\ "INACTIVE" \in Goals /\ Pons \subseteq Ports
  BY Constants DEF Goals
<1>10. \A p \in Pons : p < at[t] => Good(job[t], p)'
  <2>1. SUFFICES ASSUME NEW p \in Pons, p < at[t]  PROVE Good(job[t], p)'
    OBVIOUS
  <2>2. Good(job[t], p)  BY <1>0, <1>2, <1>7, <2>1 DEF Behind
  <2>3. goal'[p] = goal[p]
    <3>1. p # at[t]  BY <1>5, <2>1 DEF Pons
    <3> QED
      BY <1>0, <1>1, <1>2, <1>6, <1>9, <3>1, SubmitFacts DEF Asks, IsThere, Discovers, Hides,
         Opens, Closes, Schedules, Quiet
  <2>4. job[t] = "enable" => (p \in discovery \cup torn => p \in discovery' \cup torn')
    BY <1>0, <1>2, <1>6 DEF Asks, IsThere, Discovers, Hides, Opens, Closes, Schedules, Quiet
  <2> QED  BY <1>8, <2>2, <2>3, <2>4 DEF Good
<1>11. CASE \E ok \in BOOLEAN : Leaves(t, ok)
  <2>0. PICK q \in Pons : q = at[t]  BY <1>5
  <2>1. Good(job[t], q)'
    <3>1. CASE IsThere(t)
      <4>1. goal[at[t]] = IF job[t] = "enable" THEN "ACTIVE" ELSE "INACTIVE"
        BY <1>5, <3>1 DEF IsThere, CallInv, Consistent
      <4>2. ~Closing(at[t])
        BY <1>1, <3>1 DEF Closing, IsThere, CallInv, AloneInv
      <4>3. goal[at[t]] = "ACTIVE" => at[t] \in discovery \cup torn
        BY <1>5, <4>2 DEF DiscoveryInv, HasDiscovery
      <4> QED  BY <1>8, <2>0, <3>1, <4>1, <4>3 DEF Good, IsThere, Quiet
    <3>2. CASE Closes(t)
      BY <1>0, <1>1, <1>2, <1>8, <1>9, <2>0, <3>2, SubmitFacts DEF Closes, Good
    <3>3. CASE Schedules(t)
      BY <1>7, <1>8, <2>0, <3>3 DEF Schedules, Behind, Good
    <3>4. ~Stays(t, "cfg") /\ ~Stays(t, "oper") /\ ~Stays(t, "sched")
      BY <1>1, <1>11 DEF Leaves, Stays
    <3> QED
      BY <1>0, <1>2, <1>6, <3>1, <3>2, <3>3, <3>4 DEF Asks, Discovers, Hides, Opens
  <2>2. \A p \in Pons : p < at[t] + 1 => Good(job[t], p)'
    <3>1. SUFFICES ASSUME NEW p \in Pons, p < at[t] + 1  PROVE Good(job[t], p)'
      OBVIOUS
    <3>2. p < at[t] \/ p = at[t]  BY <1>5, <3>1 DEF Pons
    <3> QED  BY <1>10, <2>0, <2>1, <3>2
  <2>3. CASE at'[t] = at[t] + 1 /\ pc'[t] = "status"
    BY <1>8, <2>2, <2>3 DEF Behind
  <2>4. CASE at[t] = Last(t) /\ pc'[t] = "finish"
    <3>1. \A p \in Pons : p < at[t] + 1  BY <1>5, <2>4 DEF Pons
    <3> QED  BY <1>8, <2>2, <2>4, <3>1 DEF Behind, AllGood, InLoop
  <2> QED  BY <1>1, <1>11, <2>3, <2>4 DEF Leaves
<1>12. CASE \E to \in {"cfg", "oper", "sched"} : Stays(t, to)
  <2>1. pc'[t] \in {"cfg", "oper", "sched"} /\ at'[t] = at[t]  BY <1>12 DEF Stays
  <2>2. pc'[t] = "sched" => Good("enable", at[t])'
    <3>1. SUFFICES ASSUME pc'[t] = "sched"  PROVE Good("enable", at[t])'
      OBVIOUS
    <3>2. Opens(t)
      BY <1>0, <1>1, <1>2, <1>5, <1>6, <3>1 DEF Asks, IsThere, Discovers, Hides, Closes, Schedules,
         Stays, Leaves
    <3>3. at[t] \in discovery \cup torn
      BY <1>1, <1>5, <3>2 DEF Opens, DiscoveryInv, Opening
    <3> QED
      BY <1>0, <1>1, <1>2, <1>9, <2>1, <3>2, <3>3, SubmitFacts DEF Opens, Good
  <2> QED  BY <1>8, <1>10, <2>1, <2>2 DEF Behind, InLoop
<1> QED
  BY <1>0, <1>2, <1>6, <1>11, <1>12 DEF Asks, IsThere, Discovers, Hides, Opens, Closes, Schedules

LEMMA NextProgress ==
  TypeInv /\ CallInv /\ DiscoveryInv /\ ProgressInv /\ [Next]_vars => ProgressInv'
<1> SUFFICES ASSUME TypeInv, CallInv, DiscoveryInv, ProgressInv, [Next]_vars  PROVE ProgressInv'
  OBVIOUS
<1>0. alone \subseteq Admins /\ Admins \subseteq Threads /\ "main" \notin Admins
  BY Constants DEF TypeInv, TypeOK
<1>1. CASE UNCHANGED vars
  BY <1>1 DEF vars, balVars, adminVars, histVars, ProgressInv, Behind, AllGood, Good
<1>2. CASE Main
  <2>1. alone = {} /\ UNCHANGED alone
    BY <1>2, MainFacts DEF CallInv, AloneInv, Early
  <2> QED  BY <2>1 DEF ProgressInv
<1>3. ASSUME NEW u \in Admins,
             Finish(u) \/ Return(u) \/ \E j \in {"enable", "disable"} : AdminCall(u, j)
      PROVE  ProgressInv'
  <2>1. CASE /\ pc[u] = "finish" /\ pc'[u] = "returned" /\ UNCHANGED <<at, job, failed, torn, alone>>
             /\ rc'[u] = "OK" => failed[u] = 0
             /\ activated' = IF failed[u] = 0 THEN job[u] = "enable" ELSE activated
    <3>1. SUFFICES ASSUME NEW t \in alone
                   PROVE  /\ failed'[t] = 0 => Behind(t)'
                          /\ pc'[t] = "returned" /\ rc'[t] = "OK" =>
                               (activated' <=> job'[t] = "enable") /\ AllGood(job[t])'
      BY <2>1 DEF ProgressInv
    <3>2. t = u  BY <1>0, <2>1 DEF CallInv, AloneInv
    <3>3. failed[t] = 0 => AllGood(job[t])
      BY <2>1, <3>2 DEF ProgressInv, Behind
    <3>4. UNCHANGED <<goal, discovery>>  BY <1>3, AdminFacts
    <3>5. AllGood(job[t]) => AllGood(job[t])'  BY <2>1, <3>4 DEF AllGood, Good
    <3> QED  BY <2>1, <3>2, <3>3, <3>5 DEF Behind, InLoop
  <2>2. CASE pc[u] = "returned" /\ alone' = alone \ {u}
    <3>1. alone' = {}  BY <1>0, <2>2 DEF CallInv, AloneInv
    <3> QED  BY <3>1 DEF ProgressInv
  <2>3. CASE alone' = {}  BY <2>3 DEF ProgressInv
  <2>4. CASE alone' = {u} /\ pc'[u] = "status" /\ at'[u] = 1
    <3>1. \A p \in Pons : ~(p < 1)  BY Constants DEF Pons
    <3> QED  BY <2>4, <3>1 DEF ProgressInv, Behind
  <2> QED  BY <1>3, <2>1, <2>2, <2>3, <2>4, AdminFacts
<1>4. CASE Bal
  <2>1. CASE alone' = {}  BY <2>1 DEF ProgressInv
  <2>2. CASE UNCHANGED <<goal, alone, activated>>
    <3>1. UNCHANGED <<discovery, pc, at, job, failed, rc, torn>>  BY <1>4, BalFacts
    <3> QED  BY <2>2, <3>1 DEF ProgressInv, Behind, AllGood, Good
  <2> QED  BY <1>4, <2>1, <2>2, BalFacts
<1>5. CASE Restart
  BY <1>5, RestartFacts DEF ProgressInv
<1> QED  BY <1>1, <1>2, <1>3, <1>4, <1>5, PortProgress DEF Next

(***************************************************************************)
(* A Disable_ that returned OK undisturbed has every PON down or on its    *)
(* way, and the OLT inactive.                                              *)
(***************************************************************************)
THEOREM DisableOk == Spec => []DisableOkMeansDown
<1>1. ProgressInv => DisableOkMeansDown
  BY DEF ProgressInv, DisableOkMeansDown, Answered, AllGood, Good
<1> QED
  BY <1>1, InitType, NextType, InitCall, NextCall, InitDiscovery, NextDiscovery, InitProgress,
     NextProgress, PTL DEF Spec

(***************************************************************************)
(* A Reenable_ that returned OK undisturbed has the OLT active and every   *)
(* PON up or on its way and, but for the recorded ones, discovering ONUs.  *)
(***************************************************************************)
THEOREM ReenableOk == Spec => []ReenableOkMeansDiscovering
<1>1. ProgressInv => ReenableOkMeansDiscovering
  BY DEF ProgressInv, ReenableOkMeansDiscovering, Answered, AllGood, Good
<1> QED
  BY <1>1, InitType, NextType, InitCall, NextCall, InitDiscovery, NextDiscovery, InitProgress,
     NextProgress, PTL DEF Spec

-----------------------------------------------------------------------------
(***************************************************************************)
(* What an admin call that is alone has changed and how often it has       *)
(* failed: together they are no more than the PONs it is done with, since  *)
(* a PON counts as failed only before its change of state is accepted.     *)
(***************************************************************************)
Changed(t) == {p \in Pons : goal[p] # before[t][p]}

Passed(t) == IF pc[t] \in {"finish", "returned"} THEN NumPons
             ELSE IF pc[t] = "sched" THEN at[t] ELSE at[t] - 1

CountInv ==
  \A t \in alone :
    /\ \A p \in Changed(t) : p <= Passed(t)
    /\ Cardinality(Changed(t)) + failed[t] <= Passed(t)
    /\ pc[t] = "returned" /\ rc[t] = "INTERNAL" => failed[t] = NumPons

LEMMA InitCount == Init => CountInv
BY DEF Init, CountInv

LEMMA ChangedFinite ==
  ASSUME NEW S \in SUBSET Pons
  PROVE  IsFiniteSet(S) /\ Cardinality(S) \in Nat
<1>1. IsFiniteSet(Pons)  BY FS_Interval, Constants DEF Pons
<1>2. IsFiniteSet(S)  BY <1>1, FS_Subset
<1> QED  BY <1>2, FS_CardinalityType

(* The PON a call is at is at most one more.                               *)
LEMMA OneMore ==
  ASSUME NEW S \in SUBSET Pons, NEW T \in SUBSET Pons, NEW p, T \subseteq S \cup {p}
  PROVE  Cardinality(T) <= Cardinality(S) + 1
<1>1. IsFiniteSet(S) /\ Cardinality(S) \in Nat /\ Cardinality(T) \in Nat  BY ChangedFinite
<1>2. IsFiniteSet(S \cup {p}) /\ Cardinality(S \cup {p}) \in {Cardinality(S), Cardinality(S) + 1}
  BY <1>1, FS_AddElement
<1>3. Cardinality(T) <= Cardinality(S \cup {p})  BY <1>2, FS_Subset
<1> QED  BY <1>1, <1>2, <1>3

LEMMA PortCount ==
  ASSUME TypeInv, CallInv, CountInv, NEW u \in Threads, EveryPort(u)
  PROVE  CountInv'
<1>0. /\ OthersStay(u) /\ UNCHANGED <<job, rc, before, alone>> /\ pc[u] \in InLoop
      /\ \/ Asks(u) \/ IsThere(u) \/ Fails(u) \/ Discovers(u) \/ Hides(u)
         \/ Opens(u) \/ Closes(u) \/ Schedules(u)
  BY PortSteps DEF PortVars
<1> SUFFICES ASSUME NEW t \in alone
             PROVE  /\ \A p \in Changed(t)' : p <= Passed(t)'
                    /\ Cardinality(Changed(t)') + failed'[t] <= Passed(t)'
                    /\ pc'[t] # "returned"
  BY <1>0 DEF CountInv
<1>1. t \in Admins /\ t \in Threads /\ t # "main"  BY Constants DEF TypeInv, TypeOK
<1>2. u = t
  <2>1. u = "main" \/ u \in Admins  BY DEF Threads
  <2> QED  BY <1>0, <1>1, <2>1 DEF CallInv, AloneInv, InLoop
<1>3. pc'[t] # "returned"
  BY <1>0, <1>1, <1>2 DEF Asks, IsThere, Fails, Discovers, Hides, Opens, Closes, Schedules, Stays,
     Leaves
<1>4. /\ failed[t] \in Nat /\ at[t] \in Nat /\ at[t] \in Ports /\ Last(t) = NumPons /\ NumPons \in Nat
      /\ Cardinality(Changed(t)) \in Nat /\ Cardinality(Changed(t)') \in Nat
      /\ Changed(t) \in SUBSET Pons /\ Changed(t)' \in SUBSET Pons
      /\ at[t] \in 1 .. NumPons
  <2>1. failed[t] \in Nat /\ at[t] \in 1 .. NumPons /\ Last(t) = NumPons /\ NumPons \in Nat
    BY <1>0, <1>1, <1>2, Constants DEF TypeInv, TypeOK, Locs
  <2>2. at[t] \in Pons /\ at[t] \in Ports  BY <2>1, Constants DEF Pons
  <2>3. Changed(t) \in SUBSET Pons /\ Changed(t)' \in SUBSET Pons  BY DEF Changed
  <2> QED  BY <2>1, <2>2, <2>3, ChangedFinite
<1>5. /\ \A p \in Changed(t) : p <= Passed(t)
      /\ Cardinality(Changed(t)) + failed[t] <= Passed(t)
  BY DEF CountInv
<1>6. Passed(t) = IF pc[t] = "sched" THEN at[t] ELSE at[t] - 1
  BY <1>0, <1>2 DEF Passed, InLoop
<1>7. ASSUME NEW ok \in BOOLEAN, Leaves(t, ok)  PROVE Passed(t)' = at[t]
  BY <1>1, <1>4, <1>7 DEF Leaves, Passed
<1>8. ASSUME NEW to \in {"cfg", "oper", "sched"}, Stays(t, to)
      PROVE  Passed(t)' = (IF to = "sched" THEN at[t] ELSE at[t] - 1) /\ failed'[t] = failed[t]
  BY <1>8 DEF Stays, Passed
<1>9. UNCHANGED goal => Changed(t)' = Changed(t)
  BY <1>0 DEF Changed
<1>10. CASE Asks(t) \/ Discovers(t) \/ Hides(t)
  <2>1. pc[t] # "sched" /\ UNCHANGED goal
        /\ \E to \in {"cfg", "oper", "sched"} : Stays(t, to)
    BY <1>10 DEF Asks, Quiet, Discovers, Hides
  <2>2. Passed(t) = at[t] - 1 /\ failed'[t] = failed[t] /\ Passed(t)' \in {at[t], at[t] - 1}
    BY <1>6, <1>8, <2>1
  <2>3. Passed(t) <= Passed(t)'  BY <1>4, <2>2
  <2>4. Passed(t) \in Int /\ Passed(t)' \in Int  BY <1>4, <2>2
  <2>5. Cardinality(Changed(t)') + failed'[t] <= Passed(t)'
    BY <1>4, <1>5, <1>9, <2>1, <2>2, <2>3, <2>4
  <2>6. \A p \in Changed(t)' : p <= Passed(t)'
    BY <1>4, <1>5, <1>9, <2>1, <2>3, <2>4 DEF Pons
  <2> QED  BY <1>3, <2>5, <2>6
<1>11. CASE IsThere(t) \/ Schedules(t) \/ Fails(t)
  <2>1. UNCHANGED goal /\ \E ok \in BOOLEAN : Leaves(t, ok)
    BY <1>11 DEF IsThere, Quiet, Schedules, Fails
  <2>2. Passed(t)' = at[t]  BY <1>7, <2>1
  <2>3. failed'[t] = failed[t] \/ (pc[t] # "sched" /\ failed'[t] = failed[t] + 1)
    BY <1>1, <1>11 DEF IsThere, Schedules, Fails, Leaves
  <2>4. Cardinality(Changed(t)') + failed'[t] <= Passed(t)'
    BY <1>4, <1>5, <1>6, <1>9, <2>1, <2>2, <2>3
  <2>5. \A p \in Changed(t)' : p <= Passed(t)'
    BY <1>4, <1>5, <1>6, <1>9, <2>1, <2>2 DEF Pons
  <2> QED  BY <1>3, <2>4, <2>5
<1>12. CASE Opens(t) \/ Closes(t)
  <2>1. /\ pc[t] = "oper" /\ failed'[t] = failed[t] /\ Passed(t)' = at[t]
        /\ \E g \in Goals : Submit(at[t], g)
    <3>1. CASE Opens(t)
      BY <1>8, <3>1 DEF Opens, Goals
    <3>2. CASE Closes(t)
      <4>1. Passed(t)' = at[t]  BY <1>7, <3>2 DEF Closes
      <4> QED  BY <1>1, <3>2, <4>1 DEF Closes, Leaves, Goals
    <3> QED  BY <1>12, <3>1, <3>2
  <2>2. \A p \in Ports : p # at[t] => goal'[p] = goal[p]
    BY <1>1, <2>1 DEF Submit, TypeInv, TypeOK
  <2>3. Changed(t)' \subseteq Changed(t) \cup {at[t]}
    BY <1>0, <2>2, Constants DEF Changed
  <2>4. Cardinality(Changed(t)') <= Cardinality(Changed(t)) + 1
    BY <1>4, <2>3, OneMore
  <2>5. Passed(t) = at[t] - 1  BY <1>6, <2>1
  <2>6. Cardinality(Changed(t)') + failed'[t] <= Passed(t)'
    BY <1>4, <1>5, <2>1, <2>4, <2>5
  <2>7. \A p \in Changed(t)' : p <= Passed(t)'
    BY <1>4, <1>5, <2>1, <2>3, <2>5 DEF Pons
  <2> QED  BY <1>3, <2>6, <2>7
<1> QED  BY <1>0, <1>2, <1>10, <1>11, <1>12

LEMMA NextCount == TypeInv /\ CallInv /\ CountInv /\ [Next]_vars => CountInv'
<1> SUFFICES ASSUME TypeInv, CallInv, CountInv, [Next]_vars  PROVE CountInv'
  OBVIOUS
<1>0. alone \subseteq Admins /\ Admins \subseteq Threads /\ "main" \notin Admins
  BY Constants DEF TypeInv, TypeOK
<1>1. CASE UNCHANGED vars
  BY <1>1 DEF vars, balVars, adminVars, histVars, CountInv, Changed, Passed
<1>2. CASE Main
  <2>1. alone = {} /\ UNCHANGED alone
    BY <1>2, MainFacts DEF CallInv, AloneInv, Early
  <2> QED  BY <2>1 DEF CountInv
<1>3. ASSUME NEW u \in Admins, Finish(u)  PROVE CountInv'
  <2>1. /\ UNCHANGED <<goal, at, failed, before, alone>>
        /\ pc[u] = "finish" /\ pc' = [pc EXCEPT ![u] = "returned"]
        /\ rc' = [rc EXCEPT ![u] = CASE failed[u] = 0       -> "OK"
                                     [] failed[u] = NumPons -> "INTERNAL"
                                     [] OTHER               -> "UNKNOWN"]
    BY <1>3 DEF Finish, Go, balVars
  <2>2. SUFFICES ASSUME NEW t \in alone
                 PROVE  /\ \A p \in Changed(t)' : p <= Passed(t)'
                        /\ Cardinality(Changed(t)') + failed'[t] <= Passed(t)'
                        /\ pc'[t] = "returned" /\ rc'[t] = "INTERNAL" => failed'[t] = NumPons
    BY <2>1 DEF CountInv
  <2>3. t = u  BY <1>0, <2>1 DEF CallInv, AloneInv
  <2>4. pc'[t] = "returned" /\ (rc'[t] = "INTERNAL" => failed[t] = NumPons)
    BY <1>0, <2>1, <2>3 DEF TypeInv, TypeOK
  <2>5. Passed(t)' = Passed(t) /\ Changed(t)' = Changed(t)
    BY <2>1, <2>3, <2>4 DEF Passed, Changed
  <2> QED  BY <2>1, <2>4, <2>5 DEF CountInv
<1>4. ASSUME NEW u \in Admins, Return(u)  PROVE CountInv'
  <2>1. pc[u] = "returned" /\ alone' = alone \ {u}  BY <1>4 DEF Return
  <2>2. alone' = {}  BY <1>0, <2>1 DEF CallInv, AloneInv
  <2> QED  BY <2>2 DEF CountInv
<1>5. ASSUME NEW u \in Admins, NEW j \in {"enable", "disable"}, AdminCall(u, j)  PROVE CountInv'
  <2>1. CASE alone' = {}  BY <2>1 DEF CountInv
  <2>2. CASE alone' = {u}
    <3>1. pc'[u] = "status" /\ at'[u] = 1 /\ failed'[u] = 0 /\ before'[u] = goal /\ goal' = goal
      BY <1>0, <1>5 DEF AdminCall, Go, TypeInv, TypeOK, balVars
    <3>2. Changed(u)' = {} /\ Passed(u)' = 0
      BY <3>1 DEF Changed, Passed
    <3>3. Cardinality(Changed(u)') + failed'[u] <= Passed(u)'
      BY <3>1, <3>2, FS_EmptySet
    <3> QED  BY <2>2, <3>1, <3>2, <3>3 DEF CountInv
  <2> QED  BY <1>5, <2>1, <2>2 DEF AdminCall
<1>6. CASE Bal
  <2>1. CASE alone' = {}  BY <2>1 DEF CountInv
  <2>2. CASE UNCHANGED <<goal, alone, activated>>
    <3>1. UNCHANGED <<pc, at, failed, rc, before>>
      BY <1>6 DEF Bal, DeviceConnects, DeviceFails, DeviceLost, DeviceEvent, PortReachesGoal,
         PortFails, adminVars
    <3> QED  BY <2>2, <3>1 DEF CountInv, Changed, Passed
  <2> QED  BY <1>6, <2>1, <2>2, BalFacts
<1>7. CASE Restart
  BY <1>7, RestartFacts DEF CountInv
<1> QED  BY <1>1, <1>2, <1>3, <1>4, <1>5, <1>6, <1>7, PortCount DEF Next

(***************************************************************************)
(* A PON that an undisturbed admin call counts as failed is in the state   *)
(* it was in, and when the call says that all failed, all are.             *)
(***************************************************************************)
THEOREM FailedUntouched == Spec => []FailedMeansUntouched
<1>1. TypeInv /\ CountInv => FailedMeansUntouched
  <2> SUFFICES ASSUME TypeInv, CountInv, NEW t \in alone, pc[t] = "returned"
               PROVE  /\ Cardinality(Changed(t)) + failed[t] <= NumPons
                      /\ rc[t] = "INTERNAL" => Changed(t) = {}
    BY DEF FailedMeansUntouched, Changed
  <2>1. Passed(t) = NumPons  BY DEF Passed
  <2>2. Cardinality(Changed(t)) + failed[t] <= NumPons  BY <2>1 DEF CountInv
  <2>3. IsFiniteSet(Changed(t)) /\ Cardinality(Changed(t)) \in Nat  BY ChangedFinite DEF Changed
  <2>4. ASSUME rc[t] = "INTERNAL"  PROVE Changed(t) = {}
    <3>1. failed[t] = NumPons  BY <2>4 DEF CountInv
    <3>2. Cardinality(Changed(t)) = 0  BY <2>2, <2>3, <3>1, Constants
    <3> QED  BY <2>3, <3>2, FS_EmptySet
  <2> QED  BY <2>2, <2>4
<1> QED
  BY <1>1, InitType, NextType, InitCall, NextCall, InitCount, NextCount, PTL DEF Spec
=============================================================================
