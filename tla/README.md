# A TLA+ verification of the OpenOLT agent

The OpenOLT agent runs on an optical line terminal.  VOLTHA drives it over gRPC
(`agent/common/server.cc` dispatches each RPC to a `..._` handler of
`agent/src/core_api_handler.cc`); it drives the hardware through Broadcom's BAL
library (`bcmolt_cfg_set/clear/get`, `bcmolt_oper_submit`), which reports back
on a callback thread (`agent/src/indications.cc`).  This directory models the
parts of the agent where threads, callbacks, failures and shared maps meet.

## Inventory

| component | state | operations | who else touches the state | what makes it correct |
|---|---|---|---|---|
| configuration completion (`core_utils.cc` 571-718, 1061-1259, `indications.cc` 624-761, `Queue.h`) | `alloc_cfg_compltd_map`, `gem_cfg_compltd_map` (pointers to queues on the waiters' stacks), `gemport_status_map` | submit a request to BAL, register, timed pop, state query after a timeout, unregister; the two indication handlers | several gRPC threads, BAL's callback thread | no pointer to a dead queue; a completion reaches the call it answers; the verdict is the object's state; calls return |
| flow manager (`core_api_handler.cc` 1745-2512, `core_utils.cc` 402-479, 1757-1804) | `flow_id_bitset`, `voltha_flow_to_device_flow`, `symmetric_datapath_flow_id_map`, `flowid_to_port`, `port_to_flows`, `flowid_to_gemport`, `flow_map` | FlowAddWrapper_/FlowAdd_, FlowRemoveWrapper_/FlowRemove_ | several gRPC threads; packet-out reads the port maps | ids exclusive, not leaked and not freed while in use; cache and BAL agree; packet-out finds the right GEM port; no pointer to an erased entry is used |
| ACL manager (`core_utils.cc` 372-400, 1261-1609) | `acl_classifier_to_acl_id_map`, `acl_id_bitset`, `acl_ref_cnt`, `intf_acl_registration_ref_cnt`, `flow_to_acl_map`, vlan lists | install/remove a trap-to-host rule | gRPC threads; packet-in reads the vlan lists | counts are exact, an ACL is in BAL iff a flow refers to it, an interface is registered iff a flow needs it, packets of installed rules pass the VLAN filter |
| traffic manager (`core_api_handler.cc` 2514-3259, `core_utils.cc` 76-368) | `tm_sched_bitset`, `sched_map`, `tm_qmp_bitset`, `sched_qmp_id_map`, `qmp_id_to_qmp_map`, `qos_type_map` | create/remove schedulers, queues and queue mapping profiles | gRPC threads; FlowAdd_ looks ids up | ids exclusive and not leaked, tables and BAL agree after a partial failure |
| ONU life cycle (`core_api_handler.cc` 1231-1308, 1352-1556, 3675-3739, `core_utils.cc` 720-753, `indications.cc` 1165-1281) | `onu_deact_compltd_map`, `onu_rssi_compltd_map` (pointers to queues on the waiters' stacks) | Activate/Deactivate/Delete/Disable/EnableOnu_, GetPonRxPower_ and the two completion handlers | gRPC threads, BAL's callback thread, ONUs that go down by themselves | no pointer to a dead queue; only an ONU that is down is cleared; a repeated deletion succeeds |
| indication stream (`server.cc` 145-193, `state.h`, `Queue.h`, `stats_collection.cc` 760-802, all handlers of `indications.cc`) | `oltIndQ`, `State` | EnableIndication; every handler and admin RPC pushes | gRPC threads (several streams at once after a reconnection), BAL's callback threads | nothing is lost or told twice; order; what was told last is the state |
| OLT device (`main.cc`, `core_api_handler.cc` 311-530, 898-1126, 1310-1350, `core_utils.cc` 1611-1655) | `State`; BAL's devices, ports, discovery and default schedulers | start-up, Enable_, EnablePonIf_, DisablePonIf_, SetStateUplinkIf_, Disable_, Reenable_ | gRPC threads, callback thread, the agent that died before | an answer tells the state of the PONs; an active port has its scheduler; main serves or exits |
| bandwidth (`core_api_handler.cc` 2640-2749) | none | conversion, rounding and checks of a T-CONT | - | what BAL is asked for is ordered and what was asked for |
| packet trap (`core_utils.cc` 1826-1985, `indications.cc` 564-622) | reads the ACL manager's vlan lists | is_packet_allowed | - | exactly the packets of installed rules pass |
| groups, statistics counters, translation, EEPROM reader, scripts, board code | none worth protecting | | | not modelled |

The hard behaviours, each at its line, are listed under `hazards` in
`PROJECT.json`.

## Modules

Seven components are written: `CfgCompletion`, `FlowManager`, `AclManager` (with
its promise `TrapTable`), `TrafficManager`, `IndicationStream` (with its promise
`OnceDelivery`), `OltDevice` and `OnuLifecycle`, and the computation `Bandwidth`.
No module uses another's state: what a component
needs of another is a choice in the model (the result of an ACL request in
`FlowManager`, the moment an operational state changes in `IndicationStream`).

### CfgCompletion

What happens between a gRPC handler that asks BAL to configure an alloc object
or a GEM port and BAL's completion indication.

* `compltd` is the two completion maps (the keys of alloc objects and of GEM
  ports are disjoint); an entry is absent, NULL (`Null`) or the thread whose
  stack holds the queue.  `queue` is that queue, `gems` is `gemport_status_map`.
* `Call` .. `SubmitNotNeeded` are the callers: `CreateSched`, `RemoveSched`,
  `install_gem_port`, `remove_gem_port`, `enable_encryption_for_gem_port`.
* `Register`, `PopResult`, `PopTimesOut`, `Invalidate`, `StateQueryFails`,
  `StateIsRight`, `StateIsWrong`, `Erase` are the critical sections of
  `wait_for_alloc_action` and `wait_for_gem_action`, which are the same program
  apart from names; one action is one critical section or one BAL call.
* `AllocInd` and `GemIndFinds` .. `GemIndPushes` are the two handlers.  The
  GEM handler looks the key up, releases the lock, takes it again and pushes.
* BAL is external: `BalCompletes` completes an accepted request in any of
  `BalOutcomes` and reports it, or the report is lost.
* `seen`, `answer` and `clean` are history: the state a verdict rests on, the
  request whose completion was popped, and the objects whose present call began
  with nothing else going on and has been joined by nobody.

Abstracted: time (a timed pop may give up at any moment, which covers the
duration shared by all queues of a type, `Queue.h:64`), the contents of the
requests, the ONU and UNI part of the key of `gemport_status_map`.  Reading an
iterator to an erased node is a choice between reaching the entry that took its
place and reaching nobody.

### FlowManager

* `pool`, `cache`, `symmap`, `idPort`, `portFlows`, `idGem` and `acl` are the
  maps of the table above; `bal` is the set of flows BAL has.
* A call is a thread that walks through `FlowAddWrapper_` or
  `FlowRemoveWrapper_` (control point `pc`, locals `me`), one action per
  critical section or BAL call; `FlowRemove_` is shared by removal and by the
  undoing of a half-done replicated addition.
* The scan for ids is modelled by what a `uint16_t` that is compared with its
  own largest value does: 1, 2, ..., MaxFlowId, then 0, then for ever.
* A pointer into the cache is remembered as the flow whose entry it points
  into; when the entry is erased the pointer becomes `None` and what is read
  through it is any value.
* `tainted` is history: ids the agent gave back while they were in use, which
  it does (see the findings).  The invariants of `flow_pair` hold for every
  other id, so they say what is right beside the known defect.

Abstracted: classifiers, actions and QoS references; `flow_map` and
`flow_id_counters`, which repeat BAL's flow table; encryption of the GEM port,
whose result FlowAdd_ ignores (it is a call of `CfgCompletion`); everything
under `handle_acl_rule_install/cleanup` but success or failure.

### AclManager and TrapTable

`TrapTable` is the promise: a table of flows that each want the packets of one
rule trapped.  Whoever wants a rule has its packets trapped as long as it is
installed; adding a flow traps nothing foreign to its rule (`Kin`), removing one
traps nothing new.  `AclManager` is how the code keeps it with few ACLs:

* `aclOf`, `refCnt`, `reg`, `flowAcl`, `trapInfo`, `vlans`, `hit` and `pool` are
  the maps of `core_data.cc` 152-199.  The classifier map is indexed by the sum
  that `operator<` compares, so keys with one sum are one key, as in the code;
  the assumption `NoCollision` says that the classifiers in use do not collide.
* `Formulate` is `formulate_acl_classifier_key`, which runs before the lock is
  taken and reads `max_acls_with_vlan_classifiers_hit`; `Again`, `Share`,
  `Exhausted`, `InstallFails` and `Install` are the ways the critical section of
  `handle_acl_rule_install` can go, `Remove` is FlowRemove_'s critical section
  with `handle_acl_rule_cleanup` and `remove_acl`.
* BAL is external: `bal` is the classifier of each ACL, `balReg` the registered
  interfaces; each request may be refused.
* `refused`, `leaked`, `lost` and `odd` are history: registrations BAL refused
  and the agent counts, ACLs BAL would not remove, entries of `flow_to_acl_map`
  that an addition overwrote, and what the client did that it should not (a flow
  id given out while it is in use, the same trap asked for twice).

Abstracted: priorities, actions and logging; the parsing of a trapped packet in
`is_packet_allowed`, which becomes the question whether the VLAN of the request
or ANY_VLAN is in the list.

### TrafficManager

* `schedBits` .. `gemOwner` are the tables of `core_data.cc` 100-123 and 199-219;
  `balSched`, `balQmp` and `balQueue` are what BAL has (external).
* A subscriber's call walks through `CreateSched`, `RemoveSched`,
  `CreateTrafficQueues_` or `RemoveTrafficQueues_` for one direction.  A step is a
  critical section of the tables subscribers share (`GetSched`, `FreeSched`,
  `AllocQmp`, `Refer`, `FreeQmp`), the unlocked look-up `FindQmp`, or requests to
  BAL; what touches only the caller's entries goes with the step.  The loops over
  queues are one step (`SetQueues`, `ClearQueues`) that stops, or goes on, as the
  code does after any number of them: queue keys carry the scheduler, and those of
  the NNI's scheduler are never removed, so no other call can interfere.
* `Egress` is the look-up of `FlowAdd_`; the properties compare it with BAL.
* The client has one call per subscriber at a time, makes the scheduler before
  its queues, removes both directions' queues before the scheduler, and may retry
  whatever failed.
* `already`, `unmade`, `kept`, `stray` and `raced` are history.  They name what
  the code does not survive, so that the properties say what holds beside it:
  a GEM port is not mapped if BAL says ALREADY of its queue; a profile BAL refused
  stays in the table and is taken for made; a profile BAL would not clear; a
  queue BAL would not clear, whose retry no longer knows its queue set; and
  two races (a profile found without the lock is freed before it is referred to;
  an id is reused before BAL cleared the profile that had it).

Abstracted: shaping and priorities of schedulers; p-bit maps, which become one
value per tech profile and direction; GEM ports and the upstream alloc object
(`CfgCompletion`).  A message with several schedulers is a succession of calls.
A `std::map` read without its lock is read before or after the write.

### IndicationStream and OnceDelivery

`OnceDelivery` is the promise: what is raised is owed until it is told, and told
at most once.  `IndicationStream` is how the code keeps it:

* `activated`, `connected_to_voltha`, `connected_once` are `State`; `oltIndQ` is
  the queue; `pc`, `held` and `todo` are the program counter, the popped
  indication and the statistics still to push of a stream, a gRPC thread inside
  `EnableIndication`; `pending` is an indication made and not yet pushed.
* One action is one call of the queue, one access to `State` or one write.
  `Check` and `Recheck` are the two reads of `is_activated()`; `PutBack` pushes
  to the END of the queue; `Disconnect` clears the flag of all streams.
* Handlers are `Make...` followed by `Push`: `OltOperIndication`, `DisableDone` and
  `ReenableDone` change `State` in the first step, without a lock.
* External: a connection (`link`) breaks at any moment of a stream; a client calls
  again while the stream of its old connection still waits in `pop()`.
* `raised`, `told`, `putBack` and `raced` are history.  `raced` records that two
  threads were between changing the state and pushing, that two streams held OLT
  indications, or that a write that failed put one back: there the clients may
  be left with a wrong state.

Abstracted: what an indication says, but for the OLT's operational state; the
conditions on which a handler drops a message.

### OltDevice

* `device`, `intf`, `goal`, `discovery`, `scheds` are BAL's (external) and outlive the
  agent; `activated` is `State`; `pc`, `at` are where a thread is and at which
  device or port.  `main` goes through `CheckConnection`, `SubscribeIndication`,
  `CheckBalReady`, Enable_'s loop over devices, `WaitActivated`,
  `ProbeDeviceCapabilities` and every port; admin threads run `Disable_` or
  `Reenable_` over the PONs, one BAL request per step, with no lock.
* A bounded wait tries (`TriesAgain`), sleeps, and gives up.
* BAL may refuse any request, finishes a change of state later
  (`PortReachesGoal`), and loses devices and ports by itself; `Restart` is the death
  of the agent at any step.  A refusal of the query in `EnablePonIf_` is taken
  for "not active", any error of Enable_'s query but NOT_CONNECTED for "already
  connected", as in the code.
* History: `alone` are the admin calls nothing else interfered with; `before` the
  goals when a call began; `torn` the PONs whose `DisablePonIf_` was refused after
  the discovery was off, or on which two calls overlapped; `unsched` the ports
  whose scheduler BAL refused or a death overtook.

Abstracted: settings other than discovery; a default scheduler with its queues
is one object; sleeping.

### OnuLifecycle

* `onu`, `goal`, `measuring`, `reports` are BAL's (external); the two maps are
  the agent's, with `NoEntry`, `Null` or the thread whose stack holds the queue.
* One action is one BAL request or one critical section.  `DeactInsert` and
  `DeactRegister` are the beginning and the end of the insertion without the lock
  (`core_utils.cc:724`): in between the callback thread's search may miss any entry.
* `RssiRegister` is `insert()`, which leaves an entry that is there;
  `DeactRegister` assigns.
* The client calls at most once at a time per thread and repeats `DeleteOnu_` until
  it returns OK (`CallAgain`); it leaves an ONU it wants gone alone otherwise.
* `clean` (history): calls that had the ONU for themselves and began with no report
  for it under way; `wanted`: ONUs the client wants gone.

Abstracted: serial numbers, burst profiles, what a measurement says.

### Bandwidth

`AsInt`, `Bytes`, `Rounded`, `Guaranteed`, `Accepts` and `AllocType` are
`CreateSched` 2651-2736 with ints from -`Half` to
`Half` - 1 (2^31 in the code); `CreateAlloc` answers one request.
Overflow wraps, which for the sum of two ints is what builds do and not what
the language promises; the properties speak of rates that do not overflow.

## Runs

| run | instance | shows |
|---|---|---|
| `cfg_wait` | 2 threads, 1 alloc object, 1 GEM port, 2 requests in flight, GPON, 2 lookups per GEM indication | `NoDanglingQueue`, `SoleWaiterIsFound`, `AnswersOwnRequest`, `OkMeansReached`, `IteratorValidWhenClean` |
| `cfg_live` | 1 thread, 1 alloc object, 1 GEM port, 3 lookups | `CallReturns`, `IndicationsDrain` under fairness |
| `flow_pair` | 2 threads, a replicated symmetric pair (2 GEM ports) and a trap-to-host flow, ids 0..3, one refusal by BAL | type invariant, `KeyExclusive`, `CachedIsInstalled`, `IdsAccounted`, `ClearIdIsUnused`, `DownstreamIsReachable` |
| `flow_race` | 2 threads, one subscriber's pair, overlapping calls, two faults | `NoUseAfterFree` |
| `flow_packetout` | 1 thread, BAL never fails | finding: `PacketOutOwnsPort` is violated |
| `acl_main` | 3 flow ids, 4 requests (two VLANs of one PON, the same on a second PON, LLDP on the NNI), 2 ACL ids, VLAN limit 1, 2 additions under way, 1 fault | `CountsAreExact`, `IdsMatchBal`, `InstalledIsAllowed`, `ImplementsTrapTable` |
| `acl_vlan` | 1 flow id, no faults | finding: `VlanLeavesWithFlow` is violated |
| `tm_main` | 2 subscribers with one tech profile each (a queue and two queues; twice two queues with the same profile; three profiles for two ids), one refusal | `SchedIdsExclusive`, `SchedulersAreOwned`, `FlowHasItsQueues`, `QmpIdsAccounted`, `GemsAreMapped`, `GoneMeansGone` |
| `ind_main` | 2 streams, 1 raising thread, 1 port, 2 calls of EnableIndication, 2 breaks, 2 indications of handlers beside the extra ones | `InOrderUnlessPutBack`, `ConnectedMeansRead`, `StreamTellsStateUnlessRaced`, `ImplementsOnceDelivery`, `EventuallyTold` |
| `olt_main` | 1 device, 2 PONs, 1 NNI, 2 admin threads, 2 admin calls, 2 trials per wait, 2 refusals, losses or deaths | `DisableOkMeansDown`, `ReenableOkMeansDiscovering`, `FailedMeansUntouched`, `ActiveHasScheduler`, `MainDecides` |
| `onu_main` | 2 threads, 1 ONU, 3 calls (deletions are repeated at will), 2 refusals or ONUs going down, 2 reports under way | `NoDanglingQueue`, `SoleWaiterIsRegistered`, `ClearedWhenInactive`, `WantedIsDeleted` |
| `bw_main` | every request with rates up to 32 kbit/s, 5 bytes per kbit, granules of 20 bytes, 8-bit ints | `SlaIsOrdered`, `SlaIsWhatWasAsked` |

The type invariants of the modules that have a proof are theorems
(`TypeCorrect`) and the runs do not repeat them.

Bounds.  Two threads are what a key of the completion map, an entry of the
cache or the pool lock needs to be contended; the theorems about `CfgCompletion`
remove that bound.  Request names are reused once nothing in flight carries
them, so two of them bound what is outstanding, not how long a run goes on.
Two lookups of the GEM handler contain one retry and one giving up (the code
has 5).  `MaxFlowId = 3` lets a replicated pair leave one id for another flow
and makes the third request wrap to id 0.  `MaxFaults` bounds how often BAL
refuses and how often calls for one subscriber overlap; two faults reach a
failed addition whose undoing fails as well.  `MaxReplicated` is 2 instead of
8, the smallest value with a partial failure.  `flow_pair` stops exploring once three
of the four ids were given back while in use (`FewTainted`).
In `acl_main` two ACL ids make the second ACL the one that reaches the limit of
VLANs, so that later keys have none, share one ACL across VLANs and exhaust the
pool; three flows are what it takes to share, unshare and share again.  The
theorems about `AclManager` remove these bounds.
`tm_main` has the four ways two subscribers meet at the profiles: one without,
one with two; both with the same one in both directions (shared four ways, made
twice by a race); one profile more than ids.  After a race nothing is promised
about profiles and exploration stops (`Bound`); pairs that run out of ids are
explored without refusals, and shared pairs after a refusal keep their
schedulers, which the mixed pairs make and clear in every order.  Scheduler ids
never run out in `tm_main`.  `KnowsQueues = TRUE` gives BAL's ALREADY the benefit
of the doubt: without it the exemption `already` is empty.
In `ind_main` two streams are a connection and its successor, or two clients;
two indications of handlers and one extra indication are what it takes for
one to be put back, to overtake and to be overtaken; two breaks hit both
connections.  In `olt_main` two faults reach a death after a refusal, and a
refusal of each of the two PONs; two calls overlap, or follow each other.  In
`onu_main` three calls let an ONU be activated, and then be deactivated, measured
or deleted by two threads; the repetitions of a deletion are not counted, so
that it may always be tried again.  Two reports under way are one of a request
and one of an ONU that went down by itself.  In `bw_main` 8 bits overflow at
128 bytes/s as 32 bits do at 2^31; a request of 32 kbit/s is beyond, and a
granule is four rates, so that rounding and overflow both happen.

The runs of `FlowManager` disable the deadlock check: when no id is left, the
code itself loops for ever with the pool's lock held (see the findings), and
every other call then stops at that lock.  The four runs of the newer modules
disable it because an instance really stops when its bounded calls,
indications and faults are used up, and when main has exited.
`flow_pair` takes `Serialised = TRUE`: the VOLTHA adapter issues one call per
subscriber at a time.  That is an assumption about the client, not something
the code enforces; `flow_race` drops it.  `flow_pair` leaves out BAL's answer
"already exists" for a symmetric flow (`flow_race` has it): the code takes it
for success, so that the cache would list a flow BAL has under another id.

Fairness.  `FairSpec` assumes that a thread inside a call and BAL's callback
thread take their next step eventually: every wait has a timeout and every lock
is held for a bounded time.  Nothing is assumed of BAL or of the clients in
`CfgCompletion`, `IndicationStream` and `OltDevice`; `EventuallyTold` is about
runs in which, from some point on, one stream is left and its connection stays.
In `OnuLifecycle` BAL ends every change of state it has accepted and the client
repeats its deletion, as VOLTHA does; measurements may never be reported.

## Findings

With a run:

* `flow_packetout`: FlowRemove_ looks the port of a downstream flow up in a map
  of upstream flows; packet-out can end on another subscriber's GEM port.
* `acl_vlan`: an entry of the VLAN list is made with the VLAN of the key, which
  is ANY_VLAN for a flow without VLAN or once the limit was hit, and removed with
  the VLAN of the classifier: ANY_VLAN stays in the list, and the interface and
  GEM port let every VLAN's packets of that type through for good.

Met while modelling, where the properties above say what holds beside them:

* `core_utils.cc:612`: after a timeout the wait queries the object; if it is not in
  the wanted state the verdict comes from a value-initialised result whose state
  reads NOT_CONFIGURED, so a delete returns OK for an object that is still there.
* `core_api_handler.cc:2390`: removing one flow of a symmetric pair frees the shared
  id.  A failed addition of a symmetric flow without replication does so too
  (1831, against the comment at 1867); the key of (subscriber, direction) is erased
  from the symmetric map also for a trap-to-host flow, which never had one (2396).
* `core_utils.cc:409` and 440: a loop over all values of a `uint16_t` never ends
  with no id left, and with one id short hands out the invalid id 0.
* `core_utils.cc:119`: the ids of the default schedulers of PON and NNI ports lie in
  the range `get_tm_sched_id` scans (the comment at 63 puts them far above it) and
  are not reserved.
* Two races between creating, sharing and freeing a queue mapping profile, and a
  profile BAL refused that the retry takes for present (see TrafficManager).
* `core_api_handler.cc:1342` with 908: a PON whose DisablePonIf_ failed half way
  has its discovery off; Reenable_ finds it active, leaves it so and returns OK.
* `core_api_handler.cc:908`: an agent that takes over active PONs does not make
  their default scheduler if its predecessor died before it did; for NNIs it does.
* `core_api_handler.cc:456`: any error of the query but NOT_CONNECTED is taken for
  "already connected" and activates the OLT.
* `server.cc:157-168` and 187: the extra OLT indication may be overtaken by a
  change of the state, and the flag that ends a stream ends every other one.
* `core_utils.cc:724`: the insertion into `onu_deact_compltd_map` takes no lock;
  `onu_rssi_wait_lock` is used and never initialised.
* DeleteOnu_ of an ONU that is not configured, or disabled, waits five seconds for
  a report that cannot come, and fails.
* `core_api_handler.cc:2731` says "the condition cir_bw == 0 is implicitly satistied":
  after rounding, an assured rate below a granule can be there, and is dropped.

## Proofs

`CfgCompletion_proofs` holds for every set of threads, objects and requests, every
subset of BAL's outcomes, both technologies and every number of lookups, from
`CfgAssumption` alone.

* `TypeCorrect`: `TypeOK`, with the fact that a busy thread has a call.
* `NoDangling`: from the inductive `PointerInv` (the pointer of a key belongs to
  a thread inside its wait for that key, and not to one that has already
  invalidated it).  The invariant survives several waiters on one key because a
  thread's entry is either its own or somebody else's, and every exit erases or
  nulls the key before it leaves.
* `SoleWaiter`: `NoDanglingQueue` is not enough; `CleanInv` adds that the
  threads other than the one whose call is clean do nothing on that object,
  so nobody can overwrite, null or erase the key.
* `AnswersOwn`: `OwnInv` adds that everything outstanding for a clean object
  (requests, indications, results in the queue) carries the id of the one call.
* `OkReached`: `VerdictInv` adds that a thread that has no verdict yet has neither
  an answer nor a state it has seen.
* `IteratorValid`: `OnceInv` says that an undisturbed call has at most one of a
  request in BAL, an indication under way, a result in the queue and an answer
  (`OneCopy`); so while the handler works for it (`HandlerInv`), the caller is still
  in its wait and nothing erases the entry the iterator is at.

`AclManager_proofs` holds for every finite set of flows, every set of requests
whose keys do not collide, and all limits, from `AclAssumption` and
`NoCollision`.  One inductive invariant, `IInv`, carries everything:

* The counting part compares the counts in the code with cardinalities.
  `Recount` says how the number of holders of an ACL moves when one entry of a
  table changes; `CountsExact` follows, as each action changes one entry and one
  count.
* A count of one then means a sole holder (`SoleHolder`), which is why removing
  the ACL with its last reference takes it from nobody; `IdsMatch` needs this
  and `LeakInv` (an ACL BAL would not remove is no longer referred to).
* `MapInv`: the classifier map leads only to ACLs that are referred to and that
  cover every key comparing equal; it is what makes sharing right, and where
  `NoCollision` is used.  `FlowInv`, `RegInv` and `KeyInv` say that the ACL of a
  flow covers its request, that what is counted is registered (or was refused),
  and that a waiting call's key is its request's with or without VLAN.
* `InstalledAllowed`: `OddInv` adds that flows and calls differ in what they ask
  for, so that the VLAN one removal strikes from a shared list is nobody else's.
* `Refinement`: `Spec => ImplementsTrapTable`.  Under `wantedBar` and
  `trappedBar`, `Share` and `Install` are `Add`, `Remove` is `Remove`, all
  others stutter; that the wanted packets are trapped (`InvTraps`) is `FlowInv`
  and `RegInv`.

`TrafficManager_proofs` holds for every set of subscribers and tech profiles, all
limits and any number of refusals, from `TmAssumption`; the last three theorems
under two hypotheses, which `tm_main` satisfies:

* `OneProfile`: a subscriber has one tech profile at a time.  The QoS type and the
  NNI's reference to a profile are kept per UNI (`core_utils.cc` 514), and a second
  one would inherit what the first one left.
* `FewSubs`: there are fewer subscribers than would make the scan for a scheduler id
  reach the default schedulers of the ports (the hazard at `core_utils.cc:119`).

The theorems:

* `TypeCorrect`: `TypeOK`, with the fact that a call has a tech profile and a
  direction (`CallInv`); one lemma per operation.
* `IdsExclusive` and `Owned`: `SchedCallInv` is what makes them inductive: the id a
  call read stays its key's although other subscribers' calls come between its
  steps, a key being cleared is no longer one the client counts on, and when its id
  is freed BAL's scheduler is gone.  So the id `free_tm_sched_id` gives back is
  nobody's in BAL.
* `GemPortsMapped`: `Asks` (the client has been told nothing about the queues a call
  is at work on) and `Mapped`, subscriber by subscriber: no other call touches its
  entries.
* `QmpIdsKept`, `RemovedIsGone` and `FlowIsServed`: from `QueueInv`.  `RootInv` keeps
  the NNI's default scheduler out of the ids handed out (`FreshBelowDefaults`, by
  the pigeonhole principle from `FewSubs`).  `QmpInv` follows a profile through
  its life: an id is marked as long as the table has it (`BitsInv`), and then somebody
  refers to it or is about to (`QmpTaken`), BAL has what the table says, if it accepted it
  (`QmpAccepted`), what is being cleared is no longer referred to (`QmpCleared`), and
  a cleared one is free (`ClearedIsFree`).  `QueuesHaveOwners` and, per subscriber,
  `Turn`, `Marked`, `RefersWell`, `MadeIsThere` and `GoneIsUnmapped` tie what the
  client was told to the tables and to BAL.  As in the properties, nothing is said
  of profiles after two calls raced for one (`raced`).

`IndicationStream_proofs` holds for every set of streams, handler threads and ports
and every bound on what is raised and broken, from its assumption alone.

* `TypeCorrect`: `TypeOK`, with the fact that a stream holds an indication exactly
  between its pop and its write or putting back (`HeldInv`).
* `ConnectedRead`: inductive as it stands, given the types: a stream
  leaves its loop only when it finds the flag clear, whoever cleared it, and a
  stream that sets the flag goes on to read.
* `Refinement`: `DataSteps` sorts every action into five kinds of step on the queue
  (push, pop, write, put back, none).  `OwnInv` says that queued and held
  indications are distinct; then a push is `Raise`, a write is
  `Tell`, everything else stutters.
* `InOrder`: `OrderInv` compares ids along the queue, in the hands of the streams
  and in what was told, leaving out what was put back.
* `TellsState`: `StateInv` says that an OLT indication being made, and the latest one
  raised when none is, agree with the state; `SequenceInv` that at most one is in the
  hands of a stream, not older than any that was told, that none was put back and that
  they are told in order; `KeptInv` that every indication is owed or was told.

`OnuLifecycle_proofs` holds for every set of threads and ONUs.

* `NoDangling` and `SoleWaiter`: from `RegInv`.  Its parts say which calls
  wait (`WaitOps`), that a pointer is one of a call inside its wait (`Pointers`), that
  an entry of whatever value is there only while such a call will still remove it
  (`Registered`), and that nobody is at work on the ONU of a call that has it for
  itself (`Alone`), so that it finds no entry in its way and keeps its own (`Sole`).
* `ClearedInactive`: `DownInv`.  For a call that has the ONU for itself, each
  report under way and each result in its queue is about an ONU that is down, so
  the call that was told so, or found it so, clears an ONU that is down.

`Bandwidth_proofs` holds for every width of int, granule and rate.  The rounding
lemmas (`DivMod`, `MultipleMod`, `RoundingIsMonotone`, `RoundedGrants`) are about
integers; `FitsFacts` says that what an int holds is not changed by it, and
`SlaInv` that an SLA is what `CreateAlloc` computes from its request.

`OltDevice_proofs` holds for any number of devices, PONs, NNIs, admin threads, calls,
refusals and deaths.

* `TypeCorrect`: with `Locs`, which says where threads can be: main comes first and
  alone, and a thread in the loop is at a port it is responsible for.
* `PortSteps` sorts the actions at a port by their effect (`Asks`, `IsThere`,
  `Fails`, `Discovers`, `Hides`, `Opens`, `Closes`, `Schedules`); the later proofs
  use these instead of the actions.  `CallInv`: an undisturbed call is the only
  one, and PONs on which two calls overlap are recorded.
* `ActiveScheduled`: `SchedInv` speaks of the state a port is on the way to, which
  is set before its scheduler is made, and of the NNIs main has passed.
* `DisableOk` and `ReenableOk`: `ProgressInv` says that the PONs an undisturbed call
  without a failure has behind it are as they should be.  For a PON
  `EnablePonIf_` finds active and leaves alone this needs `DiscoveryInv`: an active
  PON discovers ONUs unless it is recorded or a Disable_ is between its two
  requests for it.
* `FailedUntouched`: `CountInv`, an inequality of cardinalities: the PONs a call has
  changed and those that failed are together no more than those it is done with.

`FlowManager_proofs` holds for every set of threads, flows and requests, every size
of the pool and any faults, from `FlowAssumption`.  Two theorems allow any overlap
of calls:

* `TypeCorrect`: with `RunsAt`, which says at which points an operation can be and
  how many ids an addition holds there; what is read through a dead pointer is any
  value, so it adds nothing to the types.  `AddSteps` and `RemoveSteps` sort the
  actions by what they do to the thread (`Moves`): it returns, keeps its pointers,
  looks up the symmetric flow, or takes a pointer to an entry that is there.
* `UseAfterFree`: from `AliasInv`.  `LinksOwn` says that the symmetric flow a
  subscriber's key leads to is its own, `PointsToOwn` that the pointers of a call
  are to its subscriber's flows, `Undisturbed` that a call that is alone has no
  rival, and `Live` that the pointer it works with leads to an entry.  Only
  `Uncache` erases an entry, one of its own subscriber.  `Live` is stronger than
  `NoUseAfterFree`: an addition that gives back an id keeps its pointer, too.

The other five, about who has which id, have two hypotheses, which `flow_pair`
satisfies.  `Serialised`: the client has one call per subscriber at a time
(`flow_race` shows what is left without it).  `PairedRequests`: a subscriber has at
most one data path flow per direction, over as many GEM ports in both, because
`symmetric_datapath_flow_id_map` has one entry per subscriber, tech profile and
direction.  The last two also need `"already" \notin AddOutcomes`, since `FlowAdd_`
believes BAL's "already exists".  Ids in `tainted`, which the code gave back while
in use (a finding), are excepted, as in the properties.

* `ShapeInv`: a call that is alone finds the cache as it left it: an addition has
  no entry yet, a removal still has one, and the device flows it works on are as
  many as the GEM ports.
* `View`, `Part` and `Has` cut what a flow has at each point of its life, in the
  cache or in a call, into device flows held, fresh, done and mapped; `PartGains` and
  `PartDrops` say once, for all actions, what a step adds to a part and what it
  takes away.  Each invariant below is about these parts, so that its proof is
  about a handful of kinds of steps.
* `OneClaim`: `UseInv`: an id a flow holds is marked (`Marked`), and two flows that hold
  one are the two directions of a subscriber (`SharedByTwins`).
* `NoCollision`: `KnowInv`: what BAL or the ACL table knows is marked, a fresh id is
  known to neither.
* `PacketOutReaches`: `MapInv`: a downstream flow's mapped device flows are in the
  packet-out maps, and only its own undoing and its removal take them out.
* `CacheTellsTruth`: `InstallInv`: what is done is where it belongs, in BAL or, for a
  trap-to-host flow, in the ACL table.
* `NoIdLost`: `AccountInv`: a marked id is held by a flow, or BAL has kept its flow.

Every safety property that a passing run checks is a theorem, under the hypotheses
named above.  Only model-checked:

* liveness (`CallReturns`, `IndicationsDrain`, `EventuallyTold`, `MainDecides`,
  `WantedIsDeleted`): the prover has no rule for fairness and ENABLED;
* the two violations (`PacketOutOwnsPort`, `VlanLeavesWithFlow`), which are
  counterexamples.

## Plan

Done: `CfgCompletion`, `FlowManager`, `AclManager` with `TrapTable`,
`TrafficManager`, `IndicationStream` with `OnceDelivery`, `OltDevice`, `OnuLifecycle`
and `Bandwidth`, their runs, and proofs of all their safety properties.

Next, in this order:

1. Abstract specifications of what `FlowManager` and `TrafficManager` promise their
   client (a table of flows each with ids of its own; a table of subscribers with
   their queues), and refinements from the inductive invariants that are proved.
2. `PacketTrap`: what `is_packet_allowed` lets through, against the VLAN lists.

## Not modelled

* Multicast groups (`core_api_handler.cc` 3261-3560): each handler is a query and a
  request to BAL and keeps no state; two calls for one group race in BAL, not in
  the agent.
* The contents of statistics (`stats_collection.cc`): counters are read and copied.
  That the collection pushes indications from a callback thread is in
  `IndicationStream`.
* Translation, error texts, the EEPROM reader, board constants: tables and file
  input.
* The parsing in `is_packet_allowed`, and the lock its readers do not take; the
  VLAN lists are in `AclManager`.
* `DisableOnuSerialNumber_` and `EnableOnuSerialNumber_`: one request to BAL each, by
  serial number, with no state of the agent.
* `SetStateUplinkIf_(false)`: only the unit tests call it.
* Several tech profiles per UNI: the QoS type is kept per UNI (`core_utils.cc` 514)
  and a second profile inherits the first one's; instances of `TrafficManager` have
  one tech profile per subscriber.
* Classifiers whose keys collide in the ACL map (`core_data.cc` 156): excluded by
  `NoCollision`.
* The shell and Python scripts of the host system.

