-------------------------- MODULE IndicationStream --------------------------
(***************************************************************************)
(* The stream of indications from the agent to VOLTHA.                     *)
(*                                                                         *)
(* Handlers on BAL's callback threads, Disable_ and Reenable_ on gRPC      *)
(* threads and the streams themselves push indications on the one queue    *)
(* oltIndQ.  A stream is a gRPC thread inside EnableIndication: it pops    *)
(* the queue and writes to its client.  A client that lost its connection  *)
(* calls again while the stream of the old connection is still inside      *)
(* pop(): the agent finds out that a connection is gone only when a write  *)
(* fails.  Several streams then share the queue and the flags of State,    *)
(* which have no lock.                                                     *)
(*                                                                         *)
(* Data abstracted: an indication is the OLT's operational state ("up",    *)
(* "down", "failure") or any other event; it is named by its number in the *)
(* order of the pushes.  pop() may time out at any moment of its wait.      *)
(***************************************************************************)
EXTENDS Naturals, Sequences, FiniteSets

CONSTANTS
  Streams,      \* gRPC threads serving EnableIndication
  Raisers,      \* threads of BAL's callbacks and of the admin RPCs
  NumPorts,     \* NumNniIf_() + NumPonIf_(): one statistics indication each
  MaxRaised,    \* bound: indications of raisers and of stats_collection
  MaxConnects,  \* bound: calls of EnableIndication
  MaxBreaks     \* bound: connections that break

ASSUME StreamAssumption ==
  /\ Streams \cap Raisers = {}
  /\ {NumPorts, MaxRaised, MaxConnects, MaxBreaks} \subseteq Nat

VARIABLES
  \* State
  activated, connected_to_voltha, connected_once,
  \* threads
  pc,        \* where a stream is in EnableIndication
  held,      \* the indication a stream has popped and not disposed of, or 0
  todo,      \* ports for which stats_collection still has to push
  pending,   \* the indication a thread has made and not yet pushed
  oltIndQ,   \* the queue
  \* the connections (external)
  link,      \* the connection of a stream is intact
  connects, breaks,
  \* history
  raised,    \* the indications pushed so far, in order
  told,      \* what was written, and on which stream
  putBack,   \* the indications that a failed write put back
  raced      \* the order of two OLT indications may have been disturbed

stateVars  == <<activated, connected_to_voltha, connected_once>>
netVars    == <<link, connects, breaks>>
threadVars == <<pc, held, todo>>
vars == <<stateVars, threadVars, pending, oltIndQ, netVars, raised, told, putBack, raced>>

OltStates == {"up", "down", "failure"}
Kinds     == OltStates \cup {"event"}
Threads   == Streams \cup Raisers
Ids       == 1 .. MaxRaised + MaxConnects

PCs == {"idle", "check", "recheck", "extra", "connect", "loop", "pop", "wait",
        "write", "putback", "disconnect", "stats"}

Running(s) == pc[s] # "idle"
Looping(s) == pc[s] \in {"loop", "pop", "wait", "write", "putback", "disconnect", "stats"}

Init ==
  /\ activated \in BOOLEAN       \* Enable_ may have found the device connected
  /\ connected_to_voltha = FALSE /\ connected_once = FALSE
  /\ pc = [s \in Streams |-> "idle"]
  /\ held = [s \in Streams |-> 0]
  /\ todo = [s \in Streams |-> 0]
  /\ pending = [t \in Threads |-> "none"]
  /\ oltIndQ = <<>>
  /\ link = [s \in Streams |-> FALSE]
  /\ connects = 0 /\ breaks = 0
  /\ raised = <<>> /\ told = <<>> /\ putBack = {}
  /\ raced = FALSE

-----------------------------------------------------------------------------
(* Raising indications.                                                    *)

Pending == {t \in Threads : pending[t] # "none"}
OltPending == {t \in Threads : pending[t] \in OltStates}

(* A push: the next number, at the end of the queue.                       *)
PushNew(k) ==
  /\ raised' = Append(raised, k)
  /\ oltIndQ' = Append(oltIndQ, Len(raised) + 1)

(* A thread enters a handler that makes an indication.                     *)
Make(t, k) ==
  /\ pending[t] = "none"
  /\ Len(raised) + Cardinality(Pending) < MaxRaised
  /\ pending' = [pending EXCEPT ![t] = k]
  /\ UNCHANGED <<threadVars, oltIndQ, netVars, raised, told, putBack>>

(***************************************************************************)
(* A handler that also changes State does that first and pushes later.     *)
(***************************************************************************)
MakeOlt(t, k) ==
  /\ Make(t, k)
  /\ activated' = (k = "up")
  /\ raced' = (raced \/ OltPending # {})
  /\ UNCHANGED <<connected_to_voltha, connected_once>>

(* Mutant: only a disconnection deactivates, a failure does not.           *)
OltOperIndication_KeepsActive(t, k) ==
  /\ Make(t, k)
  /\ activated' = (k # "down")
  /\ raced' = (raced \/ OltPending # {})
  /\ UNCHANGED <<connected_to_voltha, connected_once>>

OltOperIndication(t, k) == MakeOlt(t, k)

(* The ends of Disable_ and Reenable_ when every PON port did as told.     *)
DisableDone(t)  == MakeOlt(t, "down")
ReenableDone(t) == MakeOlt(t, "up")

Event(t) == Make(t, "event") /\ UNCHANGED <<stateVars, raced>>

(* Handlers that make one indication of the message they are given.        *)
LosIndication(t)                      == Event(t)
IfOperIndication(t)                   == Event(t)
OnuDisableEnableIndication(t)         == Event(t)
OnuAlarmIndications(t)                == Event(t)
OmciIndication(t)                     == Event(t)
PacketIndication(t)                   == Event(t)
OnuDefectIndications(t)               == Event(t)
OnuFailureIndications(t)              == Event(t)
OnuActivationCompletedIndication(t)   == Event(t)
OnuDeactivationCompletedIndication(t) == Event(t)
OnuStatsAlarmIndications(t)           == Event(t)

(* The discovery of an ONU is only told while VOLTHA is connected.         *)
OnuDiscoveryIndication(t) == connected_to_voltha /\ Event(t)

Push(t) ==
  /\ pending[t] # "none"
  /\ PushNew(pending[t])
  /\ pending' = [pending EXCEPT ![t] = "none"]
  /\ UNCHANGED <<stateVars, threadVars, netVars, told, putBack, raced>>

-----------------------------------------------------------------------------
(* EnableIndication.                                                       *)

Go(s, from, to) == pc[s] = from /\ pc' = [pc EXCEPT ![s] = to]

Call(s) ==
  /\ connects < MaxConnects
  /\ Go(s, "idle", "check")
  /\ link' = [link EXCEPT ![s] = TRUE]
  /\ connects' = connects + 1
  /\ UNCHANGED <<stateVars, held, todo, pending, oltIndQ, breaks, raised, told, putBack, raced>>

(* Not the first connection, and the OLT is up: an extra indication.       *)
Check(s) ==
  /\ Go(s, "check", IF connected_once /\ activated THEN "recheck" ELSE "connect")
  /\ UNCHANGED <<stateVars, held, todo, pending, oltIndQ, netVars, raised, told, putBack, raced>>

(* is_activated() is read a second time for the contents.                  *)
Recheck(s) ==
  /\ Go(s, "recheck", "extra")
  /\ pending' = [pending EXCEPT ![s] = IF activated THEN "up" ELSE "down"]
  /\ UNCHANGED <<stateVars, held, todo, oltIndQ, netVars, raised, told, putBack, raced>>

PushExtra(s) ==
  /\ Go(s, "extra", "connect")
  /\ PushNew(pending[s])
  /\ pending' = [pending EXCEPT ![s] = "none"]
  /\ UNCHANGED <<stateVars, held, todo, netVars, told, putBack, raced>>

Connect(s) ==
  /\ Go(s, "connect", "loop")
  /\ connected_to_voltha' = TRUE /\ connected_once' = TRUE
  /\ UNCHANGED <<activated, held, todo, pending, oltIndQ, netVars, raised, told, putBack, raced>>

Loop(s) ==
  /\ Go(s, "loop", IF connected_to_voltha THEN "pop" ELSE "idle")
  /\ UNCHANGED <<stateVars, held, todo, pending, oltIndQ, netVars, raised, told, putBack, raced>>

(* pop() finds the queue empty and begins to wait.                         *)
PopWaits(s) ==
  /\ oltIndQ = <<>>
  /\ Go(s, "pop", "wait")
  /\ UNCHANGED <<stateVars, held, todo, pending, oltIndQ, netVars, raised, told, putBack, raced>>

OltHeld == {s \in Streams : held[s] # 0 /\ raised[held[s]] \in OltStates}

(* Mutant: the newest indication is taken.                                 *)
Pop_Newest(s) ==
  /\ oltIndQ # <<>> /\ pc[s] \in {"pop", "wait"}
  /\ pc' = [pc EXCEPT ![s] = "write"]
  /\ held' = [held EXCEPT ![s] = oltIndQ[Len(oltIndQ)]]
  /\ oltIndQ' = SubSeq(oltIndQ, 1, Len(oltIndQ) - 1)
  /\ UNCHANGED <<stateVars, todo, pending, netVars, raised, told, putBack, raced>>

Pop(s) ==
  /\ oltIndQ # <<>> /\ pc[s] \in {"pop", "wait"}
  /\ pc' = [pc EXCEPT ![s] = "write"]
  /\ held' = [held EXCEPT ![s] = Head(oltIndQ)]
  /\ oltIndQ' = Tail(oltIndQ)
  /\ raced' = (raced \/ (raised[Head(oltIndQ)] \in OltStates /\ OltHeld # {}))
  /\ UNCHANGED <<stateVars, todo, pending, netVars, raised, told, putBack>>

WriteOk(s) ==
  /\ link[s]
  /\ Go(s, "write", "loop")
  /\ told' = Append(told, [id |-> held[s], to |-> s])
  /\ held' = [held EXCEPT ![s] = 0]
  /\ UNCHANGED <<stateVars, todo, pending, oltIndQ, netVars, raised, putBack, raced>>

WriteFails(s) ==
  /\ ~link[s]
  /\ Go(s, "write", "putback")
  /\ UNCHANGED <<stateVars, held, todo, pending, oltIndQ, netVars, raised, told, putBack, raced>>

(* Mutant: the indication whose write failed is dropped.                   *)
PutBack_Drops(s) ==
  /\ Go(s, "putback", "disconnect")
  /\ held' = [held EXCEPT ![s] = 0]
  /\ UNCHANGED <<stateVars, todo, pending, oltIndQ, netVars, raised, told, putBack, raced>>

(* Mutant: it is put back but also kept for the next write.                *)
PutBack_Keeps(s) ==
  /\ Go(s, "putback", "write")
  /\ oltIndQ' = Append(oltIndQ, held[s])
  /\ UNCHANGED <<stateVars, held, todo, pending, netVars, raised, told, putBack, raced>>

(* The indication goes to the end of the queue.                            *)
PutBack(s) ==
  /\ Go(s, "putback", "disconnect")
  /\ oltIndQ' = Append(oltIndQ, held[s])
  /\ putBack' = putBack \cup {held[s]}
  /\ raced' = (raced \/ raised[held[s]] \in OltStates)
  /\ held' = [held EXCEPT ![s] = 0]
  /\ UNCHANGED <<stateVars, todo, pending, netVars, raised, told>>

(* Mutant: the stream ends and leaves the flag as it is.                   *)
Disconnect_Returns(s) ==
  /\ Go(s, "disconnect", "idle")
  /\ UNCHANGED <<stateVars, held, todo, pending, oltIndQ, netVars, raised, told, putBack, raced>>

(* The flag is everybody's: every other stream will leave its loop too.    *)
Disconnect(s) ==
  /\ Go(s, "disconnect", "loop")
  /\ connected_to_voltha' = FALSE
  /\ UNCHANGED <<activated, connected_once, held, todo, pending, oltIndQ, netVars,
                 raised, told, putBack, raced>>

(* pop() gives up, whatever has been pushed while it waited:               *)
(* stats_collection, unless VOLTHA is not connected or the OLT not up.     *)
PopTimesOut(s) ==
  /\ Go(s, "wait", "stats")
  /\ todo' = [todo EXCEPT ![s] = IF connected_to_voltha /\ activated THEN NumPorts ELSE 0]
  /\ UNCHANGED <<stateVars, held, pending, oltIndQ, netVars, raised, told, putBack, raced>>

PushStats(s) ==
  /\ pc[s] = "stats" /\ todo[s] > 0
  /\ Len(raised) + Cardinality(Pending) < MaxRaised
  /\ PushNew("event")
  /\ todo' = [todo EXCEPT ![s] = @ - 1]
  /\ UNCHANGED <<stateVars, pc, held, pending, netVars, told, putBack, raced>>

(* The bound on the indications cuts the collection short.                 *)
StatsDone(s) ==
  /\ todo[s] = 0 \/ Len(raised) + Cardinality(Pending) >= MaxRaised
  /\ Go(s, "stats", "loop")
  /\ todo' = [todo EXCEPT ![s] = 0]
  /\ UNCHANGED <<stateVars, held, pending, oltIndQ, netVars, raised, told, putBack, raced>>

(* A connection breaks; the stream does not notice.                        *)
Break(s) ==
  /\ Running(s) /\ link[s] /\ breaks < MaxBreaks
  /\ link' = [link EXCEPT ![s] = FALSE]
  /\ breaks' = breaks + 1
  /\ UNCHANGED <<stateVars, threadVars, pending, oltIndQ, connects, raised, told, putBack, raced>>

-----------------------------------------------------------------------------
Raiser(t) ==
  \/ \E k \in OltStates : OltOperIndication(t, k)
  \/ DisableDone(t) \/ ReenableDone(t)
  \/ LosIndication(t) \/ IfOperIndication(t) \/ OnuDisableEnableIndication(t)
  \/ OnuAlarmIndications(t) \/ OmciIndication(t) \/ PacketIndication(t)
  \/ OnuDefectIndications(t) \/ OnuFailureIndications(t)
  \/ OnuActivationCompletedIndication(t)
  \/ OnuDeactivationCompletedIndication(t)
  \/ OnuStatsAlarmIndications(t) \/ OnuDiscoveryIndication(t)

EnableIndication(s) ==
  \/ Check(s) \/ Recheck(s) \/ PushExtra(s) \/ Connect(s) \/ Loop(s)
  \/ PopWaits(s) \/ Pop(s) \/ WriteOk(s) \/ WriteFails(s) \/ PutBack(s) \/ Disconnect(s)
  \/ PopTimesOut(s) \/ PushStats(s) \/ StatsDone(s)

Next ==
  \/ \E t \in Raisers : Raiser(t) \/ Push(t)
  \/ \E s \in Streams : Call(s) \/ EnableIndication(s) \/ Break(s)

Spec == Init /\ [][Next]_vars

(***************************************************************************)
(* A thread inside a handler or inside EnableIndication runs.  Clients may *)
(* or may not call, connections may break, BAL may be silent.              *)
(***************************************************************************)
FairSpec ==
  /\ Spec
  /\ \A t \in Raisers : WF_vars(Push(t))
  /\ \A s \in Streams : WF_vars(EnableIndication(s))

-----------------------------------------------------------------------------
(* Properties.                                                             *)

QueuedIds == {oltIndQ[k] : k \in DOMAIN oltIndQ}
HeldIds   == {held[s] : s \in Streams} \ {0}
ToldIds   == {told[k].id : k \in DOMAIN told}

TypeOK ==
  /\ activated \in BOOLEAN /\ connected_to_voltha \in BOOLEAN
  /\ connected_once \in BOOLEAN /\ raced \in BOOLEAN
  /\ pc \in [Streams -> PCs]
  /\ held \in [Streams -> Nat]
  /\ todo \in [Streams -> 0 .. NumPorts]
  /\ pending \in [Threads -> Kinds \cup {"none"}]
  /\ link \in [Streams -> BOOLEAN]
  /\ connects \in 0 .. MaxConnects /\ breaks \in 0 .. MaxBreaks
  /\ raised \in Seq(Kinds)
  /\ oltIndQ \in Seq(1 .. Len(raised))
  /\ told \in Seq([id : 1 .. Len(raised), to : Streams])
  /\ putBack \subseteq 1 .. Len(raised)

(***************************************************************************)
(* No indication is lost and none is told twice, with several streams      *)
(* popping, writes failing at any time, and indications put back while     *)
(* handlers push new ones: the streams implement OnceDelivery.             *)
(***************************************************************************)
Once == INSTANCE OnceDelivery WITH
  owed <- QueuedIds \cup HeldIds, told <- ToldIds

ImplementsOnceDelivery == Once!Spec

(***************************************************************************)
(* On one stream an indication comes after one that was raised later only  *)
(* if a failed write put it back.                                          *)
(***************************************************************************)
InOrderUnlessPutBack ==
  \A k, l \in DOMAIN told :
    k < l /\ told[k].to = told[l].to /\ told[l].id < told[k].id => told[l].id \in putBack

(***************************************************************************)
(* While the agent takes VOLTHA for connected, some stream is reading the  *)
(* queue: discoveries of ONUs are not queued for nobody.  The flag is one  *)
(* for all streams and any of them clears it, at any time after another    *)
(* has set it.                                                             *)
(***************************************************************************)
ConnectedMeansRead == connected_to_voltha => \E s \in Streams : Looping(s)

(***************************************************************************)
(* When everything raised has been told, the last the clients heard of the *)
(* OLT is the state it is in.                                              *)
(***************************************************************************)
Drained == oltIndQ = <<>> /\ HeldIds = {} /\ Pending = {}

OltTold == {k \in DOMAIN told : raised[told[k].id] \in OltStates}

LastTold ==
  LET last == CHOOSE k \in OltTold : \A l \in OltTold : l <= k
  IN  raised[told[last].id]

StreamTellsState == Drained /\ OltTold # {} => (LastTold = "up" <=> activated)

(***************************************************************************)
(* The same, unless the order of two OLT indications was disturbed: two    *)
(* threads between the change of the state and the push, or two streams    *)
(* holding OLT indications, or a failed write putting one back.            *)
(***************************************************************************)
StreamTellsStateUnlessRaced == ~raced => StreamTellsState

(***************************************************************************)
(* Once only one stream is left, and its connection stays, everything that *)
(* was ever raised is told, whatever streams did that had it before.       *)
(***************************************************************************)
Settled == \E s \in Streams :
  /\ Looping(s) /\ link[s]
  /\ \A u \in Streams \ {s} : ~Running(u)

EventuallyTold ==
  <>[]Settled => \A i \in Ids : i \in QueuedIds \cup HeldIds ~> i \in ToldIds
=============================================================================
