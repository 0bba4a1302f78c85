----------------------- MODULE IndicationStream_proofs -----------------------
(***************************************************************************)
(* Theorems about IndicationStream, for any number of streams, connections,*)
(* breaks and indications, from StreamAssumption alone.                    *)
(***************************************************************************)
EXTENDS IndicationStream, TLAPS

(***************************************************************************)
(* A stream holds an indication exactly between its pop and the end of its *)
(* write or put-back, and has made one when it is about to push it.        *)
(***************************************************************************)
HeldInv ==
  /\ \A s \in Streams : held[s] \in 0 .. Len(raised)
  /\ \A s \in Streams : held[s] # 0 <=> pc[s] \in {"write", "putback"}
  /\ \A s \in Streams : pc[s] = "extra" => pending[s] # "none"

TypeInv == TypeOK /\ HeldInv

-----------------------------------------------------------------------------
(* Sequences of numbers.                                                   *)

(* A sequence over a set is one over every larger set.                     *)
LEMMA SeqGrows ==
  ASSUME NEW S, NEW T, S \subseteq T, NEW q \in Seq(S)
  PROVE  q \in Seq(T)
OBVIOUS

(* Its elements.                                                           *)
LEMMA ElementType ==
  ASSUME NEW S, NEW q \in Seq(S)
  PROVE  \A k \in 1 .. Len(q) : q[k] \in S
OBVIOUS

(* One more element.                                                       *)
LEMMA AppendType ==
  ASSUME NEW S, NEW q \in Seq(S), NEW x \in S
  PROVE  /\ Append(q, x) \in Seq(S)
         /\ Len(Append(q, x)) = Len(q) + 1
         /\ DOMAIN q = 1 .. Len(q)
         /\ DOMAIN Append(q, x) = 1 .. Len(q) + 1
         /\ \A k \in DOMAIN q : Append(q, x)[k] = q[k]
         /\ Append(q, x)[Len(q) + 1] = x
OBVIOUS

(* One less at the front.                                                  *)
LEMMA TailType ==
  ASSUME NEW S, NEW q \in Seq(S), q # <<>>
  PROVE  /\ Tail(q) \in Seq(S)
         /\ Head(q) \in S /\ Head(q) = q[1] /\ 1 \in DOMAIN q
         /\ DOMAIN q = 1 .. Len(q)
         /\ DOMAIN Tail(q) = 1 .. Len(q) - 1
         /\ \A k \in DOMAIN Tail(q) : k + 1 \in DOMAIN q /\ Tail(q)[k] = q[k + 1]
OBVIOUS

-----------------------------------------------------------------------------
(* The types.                                                              *)

(* What a push of a new indication does to the types.                      *)
LEMMA PushNewType ==
  ASSUME TypeInv, NEW k \in Kinds, PushNew(k), UNCHANGED <<told, putBack>>
  PROVE  /\ raised' \in Seq(Kinds) /\ Len(raised') = Len(raised) + 1
         /\ oltIndQ' \in Seq(1 .. Len(raised'))
         /\ told' \in Seq([id : 1 .. Len(raised'), to : Streams])
         /\ putBack' \subseteq 1 .. Len(raised')
<1>1. raised' \in Seq(Kinds) /\ Len(raised') = Len(raised) + 1 /\ Len(raised) \in Nat
  BY AppendType DEF TypeInv, TypeOK, PushNew
<1>2. 1 .. Len(raised) \subseteq 1 .. Len(raised') /\ Len(raised) + 1 \in 1 .. Len(raised')
  BY <1>1
<1>3. oltIndQ \in Seq(1 .. Len(raised'))
  BY <1>2, SeqGrows DEF TypeInv, TypeOK
<1>4. oltIndQ' \in Seq(1 .. Len(raised'))
  BY <1>2, <1>3, AppendType DEF PushNew
<1>5. [id : 1 .. Len(raised), to : Streams] \subseteq [id : 1 .. Len(raised'), to : Streams]
  BY <1>2
<1>6. told' \in Seq([id : 1 .. Len(raised'), to : Streams])
  BY <1>5, SeqGrows DEF TypeInv, TypeOK
<1> QED  BY <1>1, <1>2, <1>4, <1>6 DEF TypeInv, TypeOK

(* Handlers and their pushes.                                              *)
LEMMA RaiserType ==
  ASSUME TypeInv, NEW t \in Raisers, Raiser(t) \/ Push(t)
  PROVE  TypeInv'
<1> USE StreamAssumption
<1>1. t \in Threads /\ t \notin Streams  BY DEF Threads
<1>2. ASSUME NEW k \in Kinds, Make(t, k), UNCHANGED <<connected_to_voltha, connected_once>>,
             activated' \in BOOLEAN, raced' \in BOOLEAN
      PROVE  TypeInv'
  BY <1>1, <1>2 DEF TypeInv, TypeOK, HeldInv, Make, threadVars, netVars, Kinds
<1>3. ASSUME NEW k \in OltStates, MakeOlt(t, k)  PROVE TypeInv'
  <2>1. k \in Kinds  BY DEF Kinds
  <2>2. activated' \in BOOLEAN /\ raced' \in BOOLEAN  BY <1>3 DEF MakeOlt
  <2> QED  BY <1>2, <1>3, <2>1, <2>2 DEF MakeOlt
<1>4. ASSUME Event(t)  PROVE TypeInv'
  <2>1. "event" \in Kinds  BY DEF Kinds
  <2>2. activated' \in BOOLEAN /\ raced' \in BOOLEAN  BY <1>4 DEF Event, stateVars, TypeInv, TypeOK
  <2> QED  BY <1>2, <1>4, <2>1, <2>2 DEF Event, stateVars
<1>5. CASE Raiser(t)
  BY <1>3, <1>4, <1>5 DEF Raiser, OltOperIndication, DisableDone, ReenableDone, OltStates,
     LosIndication, IfOperIndication, OnuDisableEnableIndication, OnuAlarmIndications,
     OmciIndication, PacketIndication, OnuDefectIndications, OnuFailureIndications,
     OnuActivationCompletedIndication, OnuDeactivationCompletedIndication,
     OnuStatsAlarmIndications, OnuDiscoveryIndication
<1>6. CASE Push(t)
  <2>1. pending[t] \in Kinds  BY <1>1, <1>6 DEF Push, TypeInv, TypeOK
  <2>2. PushNew(pending[t]) /\ UNCHANGED <<told, putBack>>  BY <1>6 DEF Push
  <2>3. /\ raised' \in Seq(Kinds) /\ Len(raised') = Len(raised) + 1
        /\ oltIndQ' \in Seq(1 .. Len(raised'))
        /\ told' \in Seq([id : 1 .. Len(raised'), to : Streams])
        /\ putBack' \subseteq 1 .. Len(raised')
    BY <2>1, <2>2, PushNewType
  <2>4. TypeOK'
    BY <1>6, <2>3 DEF Push, TypeInv, TypeOK, stateVars, threadVars, netVars
  <2>5. HeldInv'
    BY <1>1, <1>6, <2>3 DEF Push, TypeInv, TypeOK, HeldInv, threadVars
  <2> QED  BY <2>4, <2>5 DEF TypeInv
<1> QED  BY <1>5, <1>6

(***************************************************************************)
(* A step of a stream that neither raises, pops, tells nor puts back.      *)
(***************************************************************************)
LEMMA StreamFrame ==
  ASSUME TypeInv, NEW s \in Streams, NEW p \in PCs, pc' = [pc EXCEPT ![s] = p],
         p \in {"write", "putback"} <=> pc[s] \in {"write", "putback"},
         UNCHANGED <<held, oltIndQ, raised, told, putBack, raced>>,
         activated' \in BOOLEAN, connected_to_voltha' \in BOOLEAN, connected_once' \in BOOLEAN,
         todo' \in [Streams -> 0 .. NumPorts],
         pending' \in [Threads -> Kinds \cup {"none"}],
         p = "extra" => pending'[s] # "none",
         \A u \in Streams \ {s} : pending'[u] = pending[u],
         link' \in [Streams -> BOOLEAN],
         connects' \in 0 .. MaxConnects, breaks' \in 0 .. MaxBreaks
  PROVE  TypeInv'
<1>1. pc' \in [Streams -> PCs]  BY DEF TypeInv, TypeOK
<1>2. TypeOK'  BY <1>1 DEF TypeInv, TypeOK
<1>3. HeldInv'  BY DEF TypeInv, TypeOK, HeldInv
<1> QED  BY <1>2, <1>3 DEF TypeInv

(* The steps of a stream that leave the queue and the history alone.       *)
LEMMA QuietType ==
  ASSUME TypeInv, NEW s \in Streams,
         \/ Call(s) \/ Check(s) \/ Recheck(s) \/ Connect(s) \/ Loop(s) \/ PopWaits(s)
         \/ WriteFails(s) \/ Disconnect(s) \/ PopTimesOut(s) \/ StatsDone(s)
  PROVE  TypeInv'
<1> USE StreamAssumption
<1>0. /\ NumPorts \in Nat /\ MaxConnects \in Nat
      /\ pc \in [Streams -> PCs] /\ connects \in 0 .. MaxConnects /\ breaks \in 0 .. MaxBreaks
      /\ activated \in BOOLEAN /\ connected_to_voltha \in BOOLEAN /\ connected_once \in BOOLEAN
      /\ todo \in [Streams -> 0 .. NumPorts]
      /\ pending \in [Threads -> Kinds \cup {"none"}] /\ s \in Threads
      /\ link \in [Streams -> BOOLEAN]
  BY DEF TypeInv, TypeOK, Threads
<1> USE DEF Go, stateVars, netVars, PCs
<1>1. CASE Call(s)
  <2>1. connects' \in 0 .. MaxConnects /\ link' \in [Streams -> BOOLEAN]
    BY <1>0, <1>1 DEF Call
  <2>2. /\ pc' = [pc EXCEPT ![s] = "check"] /\ pc[s] = "idle"
        /\ UNCHANGED <<stateVars, held, todo, pending, oltIndQ, breaks, raised, told, putBack, raced>>
    BY <1>1 DEF Call
  <2> QED  BY <1>0, <2>1, <2>2, StreamFrame
<1>2. CASE Check(s)
  BY <1>0, <1>2, StreamFrame DEF Check
<1>3. CASE Recheck(s)
  <2>1. {"up", "down"} \subseteq Kinds \cup {"none"}  BY DEF Kinds, OltStates
  <2>2. pending' = [pending EXCEPT ![s] = IF activated THEN "up" ELSE "down"]
    BY <1>3 DEF Recheck
  <2>3. /\ pending' \in [Threads -> Kinds \cup {"none"}]
        /\ pending'[s] # "none" /\ \A u \in Streams \ {s} : pending'[u] = pending[u]
    BY <1>0, <2>1, <2>2 DEF Threads
  <2>4. /\ pc' = [pc EXCEPT ![s] = "extra"] /\ pc[s] = "recheck"
        /\ UNCHANGED <<stateVars, held, todo, oltIndQ, netVars, raised, told, putBack, raced>>
    BY <1>3 DEF Recheck
  <2> QED  BY <1>0, <2>3, <2>4, StreamFrame
<1>4. CASE Connect(s)
  BY <1>0, <1>4, StreamFrame DEF Connect
<1>5. CASE Loop(s)
  BY <1>0, <1>5, StreamFrame DEF Loop
<1>6. CASE PopWaits(s)
  BY <1>0, <1>6, StreamFrame DEF PopWaits
<1>7. CASE WriteFails(s)
  BY <1>0, <1>7, StreamFrame DEF WriteFails
<1>8. CASE Disconnect(s)
  BY <1>0, <1>8, StreamFrame DEF Disconnect
<1>9. CASE PopTimesOut(s)
  <2>1. todo' \in [Streams -> 0 .. NumPorts]
    BY <1>0, <1>9 DEF PopTimesOut
  <2>2. /\ pc' = [pc EXCEPT ![s] = "stats"] /\ pc[s] = "wait"
        /\ UNCHANGED <<stateVars, held, pending, oltIndQ, netVars, raised, told, putBack, raced>>
    BY <1>9 DEF PopTimesOut
  <2> QED  BY <1>0, <2>1, <2>2, StreamFrame
<1>10. CASE StatsDone(s)
  <2>1. todo' \in [Streams -> 0 .. NumPorts]
    BY <1>0, <1>10 DEF StatsDone
  <2>2. /\ pc' = [pc EXCEPT ![s] = "loop"] /\ pc[s] = "stats"
        /\ UNCHANGED <<stateVars, held, pending, oltIndQ, netVars, raised, told, putBack, raced>>
    BY <1>10 DEF StatsDone
  <2> QED  BY <1>0, <2>1, <2>2, StreamFrame
<1> QED  BY <1>1, <1>2, <1>3, <1>4, <1>5, <1>6, <1>7, <1>8, <1>9, <1>10

(* The steps of a stream that change the queue or the history.             *)
LEMMA BusyType ==
  ASSUME TypeInv, NEW s \in Streams,
         \/ PushExtra(s) \/ PushStats(s) \/ Pop(s) \/ WriteOk(s) \/ PutBack(s) \/ Break(s)
  PROVE  TypeInv'
<1> USE StreamAssumption
<1>0. s \in Threads /\ pending[s] \in Kinds \cup {"none"} /\ Len(raised) \in Nat
  BY DEF TypeInv, TypeOK, Threads
<1>1. CASE PushExtra(s)
  <2>1. pending[s] \in Kinds /\ PushNew(pending[s]) /\ UNCHANGED <<told, putBack>>
    BY <1>0, <1>1 DEF PushExtra, Go, TypeInv, HeldInv
  <2>2. /\ raised' \in Seq(Kinds) /\ Len(raised') = Len(raised) + 1
        /\ oltIndQ' \in Seq(1 .. Len(raised'))
        /\ told' \in Seq([id : 1 .. Len(raised'), to : Streams])
        /\ putBack' \subseteq 1 .. Len(raised')
    BY <2>1, PushNewType
  <2>3. pc' = [pc EXCEPT ![s] = "connect"] /\ pc[s] = "extra"
    BY <1>1 DEF PushExtra, Go
  <2>4. TypeOK'
    BY <1>0, <1>1, <2>2, <2>3 DEF PushExtra, TypeInv, TypeOK, stateVars, netVars, PCs
  <2>5. HeldInv'
    BY <1>0, <1>1, <2>2, <2>3 DEF PushExtra, TypeInv, TypeOK, HeldInv, Threads
  <2> QED  BY <2>4, <2>5 DEF TypeInv
<1>2. CASE PushStats(s)
  <2>1. "event" \in Kinds /\ PushNew("event") /\ UNCHANGED <<told, putBack>>
    BY <1>2 DEF PushStats, Kinds
  <2>2. /\ raised' \in Seq(Kinds) /\ Len(raised') = Len(raised) + 1
        /\ oltIndQ' \in Seq(1 .. Len(raised'))
        /\ told' \in Seq([id : 1 .. Len(raised'), to : Streams])
        /\ putBack' \subseteq 1 .. Len(raised')
    BY <2>1, PushNewType
  <2>3. todo' \in [Streams -> 0 .. NumPorts]
    BY <1>2 DEF PushStats, TypeInv, TypeOK
  <2>4. TypeOK'
    BY <1>2, <2>2, <2>3 DEF PushStats, TypeInv, TypeOK, stateVars, netVars
  <2>5. HeldInv'
    BY <1>0, <1>2, <2>2 DEF PushStats, TypeInv, TypeOK, HeldInv
  <2> QED  BY <2>4, <2>5 DEF TypeInv
<1>3. CASE Pop(s)
  <2>1. oltIndQ' \in Seq(1 .. Len(raised)) /\ Head(oltIndQ) \in 1 .. Len(raised)
    BY <1>3, TailType DEF Pop, TypeInv, TypeOK
  <2>2. raced' \in BOOLEAN  BY <1>3 DEF Pop, TypeInv, TypeOK
  <2>3. /\ held' = [held EXCEPT ![s] = Head(oltIndQ)] /\ pc' = [pc EXCEPT ![s] = "write"]
        /\ UNCHANGED <<stateVars, todo, pending, netVars, raised, told, putBack>>
    BY <1>3 DEF Pop
  <2>4. TypeOK'
    BY <1>0, <2>1, <2>2, <2>3 DEF TypeInv, TypeOK, stateVars, netVars, PCs
  <2>5. HeldInv'
    BY <1>0, <2>1, <2>3 DEF TypeInv, TypeOK, HeldInv
  <2> QED  BY <2>4, <2>5 DEF TypeInv
<1>4. CASE WriteOk(s)
  <2>1. /\ held' = [held EXCEPT ![s] = 0] /\ pc' = [pc EXCEPT ![s] = "loop"] /\ pc[s] = "write"
        /\ told' = Append(told, [id |-> held[s], to |-> s])
        /\ UNCHANGED <<stateVars, todo, pending, oltIndQ, netVars, raised, putBack, raced>>
    BY <1>4 DEF WriteOk, Go
  <2>2. held[s] \in 1 .. Len(raised)
    BY <1>0, <2>1 DEF TypeInv, HeldInv
  <2>3. [id |-> held[s], to |-> s] \in [id : 1 .. Len(raised), to : Streams]
    BY <2>2
  <2>4. told' \in Seq([id : 1 .. Len(raised), to : Streams])
    BY <2>1, <2>3, AppendType DEF TypeInv, TypeOK
  <2>5. TypeOK'
    BY <1>0, <2>1, <2>4 DEF TypeInv, TypeOK, stateVars, netVars, PCs
  <2>6. HeldInv'
    BY <1>0, <2>1 DEF TypeInv, TypeOK, HeldInv
  <2> QED  BY <2>5, <2>6 DEF TypeInv
<1>5. CASE PutBack(s)
  <2>1. /\ held' = [held EXCEPT ![s] = 0] /\ pc' = [pc EXCEPT ![s] = "disconnect"]
        /\ pc[s] = "putback"
        /\ oltIndQ' = Append(oltIndQ, held[s]) /\ putBack' = putBack \cup {held[s]}
        /\ UNCHANGED <<stateVars, todo, pending, netVars, raised, told>>
    BY <1>5 DEF PutBack, Go
  <2>2. held[s] \in 1 .. Len(raised)
    BY <1>0, <2>1 DEF TypeInv, HeldInv
  <2>3. oltIndQ' \in Seq(1 .. Len(raised)) /\ putBack' \subseteq 1 .. Len(raised)
    BY <2>1, <2>2, AppendType DEF TypeInv, TypeOK
  <2>4. raced' \in BOOLEAN  BY <1>5 DEF PutBack, TypeInv, TypeOK
  <2>5. TypeOK'
    BY <1>0, <2>1, <2>3, <2>4 DEF TypeInv, TypeOK, stateVars, netVars, PCs
  <2>6. HeldInv'
    BY <1>0, <2>1 DEF TypeInv, TypeOK, HeldInv
  <2> QED  BY <2>5, <2>6 DEF TypeInv
<1>6. CASE Break(s)
  <2>1. TypeOK'
    BY <1>6 DEF Break, TypeInv, TypeOK, stateVars, threadVars
  <2>2. HeldInv'
    BY <1>6 DEF Break, TypeInv, HeldInv, threadVars
  <2> QED  BY <2>1, <2>2 DEF TypeInv
<1> QED  BY <1>1, <1>2, <1>3, <1>4, <1>5, <1>6

LEMMA InitType == Init => TypeInv
<1> SUFFICES ASSUME Init  PROVE TypeInv
  OBVIOUS
<1>1. raised = <<>> /\ told = <<>> /\ oltIndQ = <<>> /\ putBack = {}  BY DEF Init
<1>2. /\ raised \in Seq(Kinds) /\ oltIndQ \in Seq(1 .. Len(raised))
      /\ told \in Seq([id : 1 .. Len(raised), to : Streams])
      /\ putBack \subseteq 1 .. Len(raised) /\ Len(raised) = 0
  BY <1>1
<1>3. /\ activated \in BOOLEAN /\ connected_to_voltha \in BOOLEAN
      /\ connected_once \in BOOLEAN /\ raced \in BOOLEAN
  BY DEF Init
<1>4. pc \in [Streams -> PCs] /\ held \in [Streams -> Nat] /\ link \in [Streams -> BOOLEAN]
  BY DEF Init, PCs
<1>5. todo \in [Streams -> 0 .. NumPorts] /\ pending \in [Threads -> Kinds \cup {"none"}]
  BY StreamAssumption DEF Init
<1>6. connects \in 0 .. MaxConnects /\ breaks \in 0 .. MaxBreaks
  BY StreamAssumption DEF Init
<1>7. TypeOK  BY <1>2, <1>3, <1>4, <1>5, <1>6 DEF TypeOK
<1>8. HeldInv  BY <1>2 DEF Init, HeldInv
<1> QED  BY <1>7, <1>8 DEF TypeInv

LEMMA NextType == TypeInv /\ [Next]_vars => TypeInv'
<1> SUFFICES ASSUME TypeInv, [Next]_vars  PROVE TypeInv'
  OBVIOUS
<1>1. ASSUME NEW t \in Raisers, Raiser(t) \/ Push(t)  PROVE TypeInv'
  BY <1>1, RaiserType
<1>2. ASSUME NEW s \in Streams, Call(s) \/ EnableIndication(s) \/ Break(s)  PROVE TypeInv'
  BY <1>2, QuietType, BusyType DEF EnableIndication
<1>3. CASE UNCHANGED vars
  BY <1>3 DEF vars, stateVars, threadVars, netVars, TypeInv, TypeOK, HeldInv
<1> QED  BY <1>1, <1>2, <1>3 DEF Next

(***************************************************************************)
(* The types of the state are invariant, whatever streams, handlers and    *)
(* connections do.                                                         *)
(***************************************************************************)
THEOREM TypeCorrect == Spec => []TypeOK
<1>1. TypeInv => TypeOK  BY DEF TypeInv
<1> QED  BY <1>1, InitType, NextType, PTL DEF Spec
-----------------------------------------------------------------------------
(* The flag that says VOLTHA is connected.                                 *)

LEMMA NextRead == TypeInv /\ ConnectedMeansRead /\ [Next]_vars => ConnectedMeansRead'
<1> SUFFICES ASSUME TypeInv, ConnectedMeansRead, [Next]_vars  PROVE ConnectedMeansRead'
  OBVIOUS
<1>0. pc \in [Streams -> PCs]  BY DEF TypeInv, TypeOK
<1>1. ASSUME UNCHANGED <<pc, connected_to_voltha>>  PROVE ConnectedMeansRead'
  BY <1>1 DEF ConnectedMeansRead, Looping
<1>2. ASSUME NEW t \in Raisers, Raiser(t) \/ Push(t)  PROVE UNCHANGED <<pc, connected_to_voltha>>
  BY <1>2 DEF Raiser, OltOperIndication, DisableDone, ReenableDone, MakeOlt, Event, Make,
     LosIndication, IfOperIndication, OnuDisableEnableIndication, OnuAlarmIndications,
     OmciIndication, PacketIndication, OnuDefectIndications, OnuFailureIndications,
     OnuActivationCompletedIndication, OnuDeactivationCompletedIndication,
     OnuStatsAlarmIndications, OnuDiscoveryIndication, Push, stateVars, threadVars
<1>3. ASSUME NEW s \in Streams, Connect(s)  PROVE ConnectedMeansRead'
  BY <1>0, <1>3 DEF Connect, Go, ConnectedMeansRead, Looping
<1>4. ASSUME NEW s \in Streams, Disconnect(s)  PROVE ConnectedMeansRead'
  BY <1>4 DEF Disconnect, ConnectedMeansRead
<1>5. ASSUME NEW s \in Streams, Loop(s)  PROVE ConnectedMeansRead'
  BY <1>0, <1>5 DEF Loop, Go, stateVars, ConnectedMeansRead, Looping
<1>6. ASSUME NEW s \in Streams, NEW p, pc' = [pc EXCEPT ![s] = p], UNCHANGED connected_to_voltha,
             Looping(s) => p \in {"loop", "pop", "wait", "write", "putback", "disconnect", "stats"}
      PROVE  ConnectedMeansRead'
  BY <1>0, <1>6 DEF ConnectedMeansRead, Looping
<1>7. ASSUME NEW s \in Streams,
             \/ Call(s) \/ Check(s) \/ Recheck(s) \/ PushExtra(s) \/ PopWaits(s) \/ Pop(s)
             \/ WriteOk(s) \/ WriteFails(s) \/ PutBack(s) \/ PopTimesOut(s) \/ StatsDone(s)
      PROVE  ConnectedMeansRead'
  <2> USE DEF stateVars, Go, Looping
  <2>1. CASE Call(s)         BY <1>6, <2>1 DEF Call
  <2>2. CASE Check(s)        BY <1>6, <2>2 DEF Check
  <2>3. CASE Recheck(s)      BY <1>6, <2>3 DEF Recheck
  <2>4. CASE PushExtra(s)    BY <1>6, <2>4 DEF PushExtra
  <2>5. CASE PopWaits(s)     BY <1>6, <2>5 DEF PopWaits
  <2>6. CASE Pop(s)          BY <1>6, <2>6 DEF Pop
  <2>7. CASE WriteOk(s)      BY <1>6, <2>7 DEF WriteOk
  <2>8. CASE WriteFails(s)   BY <1>6, <2>8 DEF WriteFails
  <2>9. CASE PutBack(s)      BY <1>6, <2>9 DEF PutBack
  <2>10. CASE PopTimesOut(s) BY <1>6, <2>10 DEF PopTimesOut
  <2>11. CASE StatsDone(s)   BY <1>6, <2>11 DEF StatsDone
  <2> QED  BY <1>7, <2>1, <2>2, <2>3, <2>4, <2>5, <2>6, <2>7, <2>8, <2>9, <2>10, <2>11
<1>8. ASSUME NEW s \in Streams, PushStats(s) \/ Break(s)  PROVE ConnectedMeansRead'
  BY <1>1, <1>8 DEF PushStats, Break, stateVars, threadVars
<1>9. CASE UNCHANGED vars
  BY <1>1, <1>9 DEF vars, stateVars, threadVars
<1> QED  BY <1>1, <1>2, <1>3, <1>4, <1>5, <1>7, <1>8, <1>9 DEF Next, EnableIndication

(***************************************************************************)
(* While the agent takes VOLTHA for connected some stream reads the queue, *)
(* for any number of streams that share the flag.                          *)
(***************************************************************************)
THEOREM ConnectedRead == Spec => []ConnectedMeansRead
<1>1. Init => ConnectedMeansRead  BY DEF Init, ConnectedMeansRead
<1> QED  BY <1>1, InitType, NextType, NextRead, PTL DEF Spec

-----------------------------------------------------------------------------
(***************************************************************************)
(* Of all the steps, few touch the indications.                            *)
(***************************************************************************)
data == <<oltIndQ, held, told, raised, putBack>>

Pushes == \E k \in Kinds : PushNew(k) /\ UNCHANGED <<held, told, putBack>>

LEMMA DataSteps ==
  ASSUME TypeInv, [Next]_vars
  PROVE  \/ UNCHANGED data
         \/ Pushes
         \/ \E s \in Streams : Pop(s) \/ WriteOk(s) \/ PutBack(s)
<1>1. ASSUME NEW t \in Raisers, Raiser(t)  PROVE UNCHANGED data
  BY <1>1 DEF data, Raiser, OltOperIndication, DisableDone, ReenableDone, MakeOlt, Event, Make,
     LosIndication, IfOperIndication, OnuDisableEnableIndication, OnuAlarmIndications,
     OmciIndication, PacketIndication, OnuDefectIndications, OnuFailureIndications,
     OnuActivationCompletedIndication, OnuDeactivationCompletedIndication,
     OnuStatsAlarmIndications, OnuDiscoveryIndication, threadVars
<1>2. ASSUME NEW t \in Raisers, Push(t)  PROVE Pushes
  BY <1>2 DEF Push, Pushes, TypeInv, TypeOK, Threads, threadVars
<1>3. ASSUME NEW s \in Streams, PushExtra(s)  PROVE Pushes
  BY <1>3 DEF PushExtra, Go, Pushes, TypeInv, TypeOK, HeldInv, Threads
<1>4. ASSUME NEW s \in Streams, PushStats(s)  PROVE Pushes
  BY <1>4 DEF PushStats, Pushes, Kinds
<1>5. ASSUME NEW s \in Streams,
             \/ Call(s) \/ Check(s) \/ Recheck(s) \/ Connect(s) \/ Loop(s) \/ PopWaits(s)
             \/ WriteFails(s) \/ Disconnect(s) \/ PopTimesOut(s) \/ StatsDone(s) \/ Break(s)
      PROVE  UNCHANGED data
  BY <1>5 DEF data, Call, Check, Recheck, Connect, Loop, PopWaits, WriteFails, Disconnect,
     PopTimesOut, StatsDone, Break, threadVars
<1>6. CASE UNCHANGED vars
  BY <1>6 DEF vars, data, threadVars
<1> QED  BY <1>1, <1>2, <1>3, <1>4, <1>5, <1>6 DEF Next, EnableIndication

-----------------------------------------------------------------------------
(***************************************************************************)
(* Nobody shares an indication: it is at one place in the queue or with    *)
(* one stream.                                                             *)
(***************************************************************************)
OwnInv ==
  /\ \A k, l \in DOMAIN oltIndQ : k # l => oltIndQ[k] # oltIndQ[l]
  /\ \A k \in DOMAIN oltIndQ, s \in Streams : oltIndQ[k] # held[s]
  /\ \A s, u \in Streams : s # u /\ held[s] # 0 => held[s] # held[u]

(* What a push does to the queue.                                          *)
LEMMA PushFacts ==
  ASSUME TypeInv, Pushes
  PROVE  /\ Len(raised) \in Nat
         /\ DOMAIN oltIndQ = 1 .. Len(oltIndQ) /\ DOMAIN oltIndQ' = 1 .. Len(oltIndQ) + 1
         /\ Len(oltIndQ) \in Nat
         /\ \A k \in DOMAIN oltIndQ : oltIndQ'[k] = oltIndQ[k] /\ oltIndQ[k] \in 1 .. Len(raised)
         /\ oltIndQ'[Len(oltIndQ) + 1] = Len(raised) + 1
         /\ UNCHANGED <<held, told, putBack>>
<1>1. oltIndQ \in Seq(1 .. Len(raised)) /\ Len(raised) \in Nat  BY DEF TypeInv, TypeOK
<1>2. oltIndQ \in Seq(Nat) /\ Len(raised) + 1 \in Nat  BY <1>1, SeqGrows
<1>3. oltIndQ' = Append(oltIndQ, Len(raised) + 1) /\ UNCHANGED <<held, told, putBack>>
  BY DEF Pushes, PushNew
<1> QED  BY <1>1, <1>2, <1>3, AppendType

(* What a pop does to it.                                                  *)
LEMMA PopFacts ==
  ASSUME TypeInv, NEW s \in Streams, Pop(s)
  PROVE  /\ Len(oltIndQ) \in Nat /\ 1 \in DOMAIN oltIndQ
         /\ DOMAIN oltIndQ = 1 .. Len(oltIndQ) /\ DOMAIN oltIndQ' = 1 .. Len(oltIndQ) - 1
         /\ \A k \in DOMAIN oltIndQ' : k + 1 \in DOMAIN oltIndQ /\ oltIndQ'[k] = oltIndQ[k + 1]
         /\ \A k \in DOMAIN oltIndQ : oltIndQ[k] \in 1 .. Len(raised)
         /\ held[s] = 0 /\ held' = [held EXCEPT ![s] = oltIndQ[1]]
         /\ held \in [Streams -> Nat]
         /\ UNCHANGED <<told, raised, putBack>>
<1>1. oltIndQ \in Seq(1 .. Len(raised)) /\ held \in [Streams -> Nat] /\ oltIndQ # <<>>
  BY DEF TypeInv, TypeOK, Pop
<1>2. held[s] = 0  BY DEF TypeInv, HeldInv, Pop
<1>3. oltIndQ' = Tail(oltIndQ) /\ held' = [held EXCEPT ![s] = Head(oltIndQ)]
      /\ UNCHANGED <<told, raised, putBack>>
  BY DEF Pop
<1> QED  BY <1>1, <1>2, <1>3, TailType

(* What a failed write does to it.                                         *)
LEMMA PutBackFacts ==
  ASSUME TypeInv, NEW s \in Streams, PutBack(s)
  PROVE  /\ DOMAIN oltIndQ = 1 .. Len(oltIndQ) /\ DOMAIN oltIndQ' = 1 .. Len(oltIndQ) + 1
         /\ Len(oltIndQ) \in Nat
         /\ \A k \in DOMAIN oltIndQ : oltIndQ'[k] = oltIndQ[k] /\ oltIndQ[k] \in 1 .. Len(raised)
         /\ oltIndQ'[Len(oltIndQ) + 1] = held[s]
         /\ held[s] \in Nat /\ held[s] # 0 /\ held' = [held EXCEPT ![s] = 0]
         /\ held \in [Streams -> Nat]
         /\ putBack' = putBack \cup {held[s]} /\ UNCHANGED <<told, raised>>
<1>1. oltIndQ \in Seq(1 .. Len(raised)) /\ held \in [Streams -> Nat] /\ Len(raised) \in Nat
  BY DEF TypeInv, TypeOK
<1>2. held[s] # 0  BY DEF TypeInv, HeldInv, PutBack, Go
<1>3. oltIndQ \in Seq(Nat)  BY <1>1, SeqGrows
<1>4. /\ oltIndQ' = Append(oltIndQ, held[s]) /\ held' = [held EXCEPT ![s] = 0]
      /\ putBack' = putBack \cup {held[s]} /\ UNCHANGED <<told, raised>>
  BY DEF PutBack
<1> QED  BY <1>1, <1>2, <1>3, <1>4, AppendType

(* What a write does to the history.                                       *)
LEMMA WriteFacts ==
  ASSUME TypeInv, NEW s \in Streams, WriteOk(s)
  PROVE  /\ held[s] \in 1 .. Len(raised) /\ held' = [held EXCEPT ![s] = 0]
         /\ held \in [Streams -> Nat]
         /\ DOMAIN told = 1 .. Len(told) /\ DOMAIN told' = 1 .. Len(told) + 1
         /\ Len(told) \in Nat
         /\ \A k \in DOMAIN told : told'[k] = told[k] /\ told[k].id \in 1 .. Len(raised)
         /\ told'[Len(told) + 1].id = held[s] /\ told'[Len(told) + 1].to = s
         /\ UNCHANGED <<oltIndQ, raised, putBack>>
<1>1. /\ told \in Seq([id : 1 .. Len(raised), to : Streams]) /\ held \in [Streams -> Nat]
      /\ Len(raised) \in Nat
  BY DEF TypeInv, TypeOK
<1>2. held[s] \in 1 .. Len(raised)  BY <1>1 DEF TypeInv, HeldInv, WriteOk, Go
<1>3. [id |-> held[s], to |-> s] \in [id : 1 .. Len(raised), to : Streams]  BY <1>2
<1>4. /\ told' = Append(told, [id |-> held[s], to |-> s]) /\ held' = [held EXCEPT ![s] = 0]
      /\ UNCHANGED <<oltIndQ, raised, putBack>>
  BY DEF WriteOk
<1>5. \A k \in 1 .. Len(told) : told[k] \in [id : 1 .. Len(raised), to : Streams]
  BY <1>1, ElementType
<1> QED  BY <1>1, <1>2, <1>3, <1>4, <1>5, AppendType

LEMMA NextOwn == TypeInv /\ OwnInv /\ [Next]_vars => OwnInv'
<1> SUFFICES ASSUME TypeInv, OwnInv, [Next]_vars  PROVE OwnInv'
  OBVIOUS
<1>0. \A s \in Streams : held[s] \in 0 .. Len(raised)  BY DEF TypeInv, HeldInv
<1>1. CASE UNCHANGED data
  BY <1>1 DEF data, OwnInv
<1>2. CASE Pushes
  BY <1>0, <1>2, PushFacts DEF OwnInv
<1>3. ASSUME NEW s \in Streams, Pop(s)  PROVE OwnInv'
  BY <1>3, PopFacts DEF OwnInv
<1>4. ASSUME NEW s \in Streams, WriteOk(s)  PROVE OwnInv'
  <2>1. oltIndQ \in Seq(1 .. Len(raised))  BY DEF TypeInv, TypeOK
  <2>2. \A k \in DOMAIN oltIndQ : oltIndQ[k] # 0  BY <2>1, ElementType
  <2>3. \A u \in Streams : held'[u] = IF u = s THEN 0 ELSE held[u]  BY <1>4, WriteFacts
  <2>4. oltIndQ' = oltIndQ  BY <1>4, WriteFacts
  <2> QED  BY <2>2, <2>3, <2>4 DEF OwnInv
<1>5. ASSUME NEW s \in Streams, PutBack(s)  PROVE OwnInv'
  BY <1>5, PutBackFacts DEF OwnInv
<1> QED  BY <1>1, <1>2, <1>3, <1>4, <1>5, DataSteps

LEMMA InitOwn == Init => OwnInv
BY DEF Init, OwnInv

-----------------------------------------------------------------------------
(* The streams implement OnceDelivery.                                     *)

Owed == QueuedIds \cup HeldIds

(* A push raises the indication that comes next.                           *)
LEMMA PushRaises ==
  ASSUME TypeInv, Pushes
  PROVE  Once!Next
<1> DEFINE i == Len(raised) + 1
<1>1. QueuedIds' = QueuedIds \cup {i}
  BY PushFacts DEF QueuedIds
<1>2. HeldIds' = HeldIds /\ ToldIds' = ToldIds
  BY PushFacts DEF HeldIds, ToldIds
<1>3. \A j \in QueuedIds : j \in 1 .. Len(raised)
  BY PushFacts DEF QueuedIds
<1>4. \A j \in HeldIds : j \in 1 .. Len(raised)
  <2>1. \A s \in Streams : held[s] \in 0 .. Len(raised)  BY DEF TypeInv, HeldInv
  <2> QED  BY <2>1, PushFacts DEF HeldIds
<1>5. \A j \in ToldIds : j \in 1 .. Len(raised)
  <2>1. told \in Seq([id : 1 .. Len(raised), to : Streams])  BY DEF TypeInv, TypeOK
  <2>2. \A k \in 1 .. Len(told) : told[k] \in [id : 1 .. Len(raised), to : Streams]
    BY <2>1, ElementType
  <2>3. DOMAIN told = 1 .. Len(told)  BY <2>1
  <2> QED  BY <2>2, <2>3 DEF ToldIds
<1>6. Len(raised) \in Nat  BY PushFacts
<1>7. \A j \in QueuedIds \cup HeldIds \cup ToldIds : j < i /\ j # i
  BY <1>3, <1>4, <1>5, <1>6
<1>8. i \in (QueuedIds \cup HeldIds)' \ (QueuedIds \cup HeldIds)
  BY <1>1, <1>2, <1>7
<1>9. Once!Raise(i)
  BY <1>1, <1>2, <1>7 DEF Once!Raise
<1> QED  BY <1>8, <1>9 DEF Once!Next

(* A pop hands an indication from the queue to a stream.                   *)
LEMMA PopStutters ==
  ASSUME TypeInv, NEW s \in Streams, Pop(s)
  PROVE  UNCHANGED <<Owed, ToldIds>>
<1> DEFINE h == oltIndQ[1]
<1>1. QueuedIds = QueuedIds' \cup {h}
  <2>1. \A k \in DOMAIN oltIndQ : k # 1 => k - 1 \in DOMAIN oltIndQ' /\ k = (k - 1) + 1
    BY PopFacts
  <2>2. \A k \in DOMAIN oltIndQ : k # 1 => oltIndQ[k] = oltIndQ'[k - 1]
    BY <2>1, PopFacts
  <2>3. QueuedIds \subseteq QueuedIds' \cup {h}
    BY <2>1, <2>2 DEF QueuedIds
  <2>4. QueuedIds' \subseteq QueuedIds /\ h \in QueuedIds
    BY PopFacts DEF QueuedIds
  <2> QED  BY <2>3, <2>4
<1>2. HeldIds' = HeldIds \cup {h}
  <2>1. h # 0  BY PopFacts
  <2>2. \A u \in Streams : held'[u] = IF u = s THEN h ELSE held[u]  BY PopFacts
  <2>3. held[s] = 0  BY PopFacts
  <2> QED  BY <2>1, <2>2, <2>3 DEF HeldIds
<1>3. ToldIds' = ToldIds  BY PopFacts DEF ToldIds
<1> QED  BY <1>1, <1>2, <1>3 DEF Owed

(* A failed write hands it back.                                           *)
LEMMA PutBackStutters ==
  ASSUME TypeInv, OwnInv, NEW s \in Streams, PutBack(s)
  PROVE  UNCHANGED <<Owed, ToldIds>>
<1> DEFINE h == held[s]
<1>1. QueuedIds' = QueuedIds \cup {h}
  BY PutBackFacts DEF QueuedIds
<1>2. HeldIds = HeldIds' \cup {h}
  <2>1. \A u \in Streams : held'[u] = IF u = s THEN 0 ELSE held[u]  BY PutBackFacts
  <2>2. h # 0  BY PutBackFacts
  <2> QED  BY <2>1, <2>2 DEF HeldIds
<1>3. ToldIds' = ToldIds  BY PutBackFacts DEF ToldIds
<1> QED  BY <1>1, <1>2, <1>3 DEF Owed

(* A write tells the indication, which is then nowhere else.               *)
LEMMA WriteTells ==
  ASSUME TypeInv, OwnInv, NEW s \in Streams, WriteOk(s)
  PROVE  Once!Next
<1> DEFINE h == held[s]
<1>0. /\ h \in 1 .. Len(raised) /\ Len(raised) \in Nat /\ UNCHANGED oltIndQ
      /\ Len(told) \in Nat
      /\ DOMAIN told = 1 .. Len(told) /\ DOMAIN told' = 1 .. Len(told) + 1
      /\ \A k \in DOMAIN told : told'[k] = told[k]
      /\ told'[Len(told) + 1].id = h
  BY WriteFacts DEF TypeInv, TypeOK
<1>1. h # 0 /\ h \in HeldIds  BY <1>0 DEF HeldIds
<1>2. QueuedIds' = QueuedIds /\ h \notin QueuedIds
  BY <1>0 DEF QueuedIds, OwnInv
<1>3. HeldIds' = HeldIds \ {h}
  <2>1. \A u \in Streams : held'[u] = IF u = s THEN 0 ELSE held[u]  BY WriteFacts
  <2>2. \A u \in Streams : u # s => held[u] # h  BY <1>1 DEF OwnInv
  <2> QED  BY <1>1, <2>1, <2>2 DEF HeldIds
<1>4. ToldIds' = ToldIds \cup {h}
  <2>1. \A k \in DOMAIN told' : k \in DOMAIN told \/ k = Len(told) + 1  BY <1>0
  <2>2. Len(told) + 1 \in DOMAIN told' /\ told'[Len(told) + 1].id = h  BY <1>0
  <2>3. \A k \in DOMAIN told : k \in DOMAIN told' /\ told'[k] = told[k]  BY <1>0
  <2> QED  BY <2>1, <2>2, <2>3 DEF ToldIds
<1>5. Once!Tell(h)
  BY <1>1, <1>2, <1>3, <1>4 DEF Once!Tell
<1> QED  BY <1>1, <1>5 DEF Once!Next

LEMMA StepImplements ==
  TypeInv /\ OwnInv /\ [Next]_vars => [Once!Next]_<<QueuedIds \cup HeldIds, ToldIds>>
<1> SUFFICES ASSUME TypeInv, OwnInv, [Next]_vars
             PROVE  [Once!Next]_<<QueuedIds \cup HeldIds, ToldIds>>
  OBVIOUS
<1>1. CASE UNCHANGED data
  BY <1>1 DEF data, QueuedIds, HeldIds, ToldIds
<1>2. CASE Pushes
  BY <1>2, PushRaises
<1>3. ASSUME NEW s \in Streams, Pop(s) \/ PutBack(s)
      PROVE  UNCHANGED <<QueuedIds \cup HeldIds, ToldIds>>
  BY <1>3, PopStutters, PutBackStutters DEF Owed
<1>4. ASSUME NEW s \in Streams, WriteOk(s)  PROVE Once!Next
  BY <1>4, WriteTells
<1> QED  BY <1>1, <1>2, <1>3, <1>4, DataSteps

(***************************************************************************)
(* The streams implement OnceDelivery: whatever a handler pushed is owed   *)
(* to the clients until it is written, and is written at most once, for    *)
(* any number of streams, broken connections and indications put back.     *)
(***************************************************************************)
THEOREM Refinement == Spec => ImplementsOnceDelivery
<1>1. Init => Once!Init
  BY DEF Init, Once!Init, QueuedIds, HeldIds, ToldIds
<1> QED  BY <1>1, InitType, NextType, InitOwn, NextOwn, StepImplements, PTL
         DEF Spec, ImplementsOnceDelivery, Once!Spec

-----------------------------------------------------------------------------
(***************************************************************************)
(* What is out of order was put back, wherever it is now: in the queue     *)
(* behind or ahead of another, with a stream while an older one waits, or  *)
(* told before one that is still queued.                                   *)
(***************************************************************************)
QueueOrder == \A k, l \in DOMAIN oltIndQ :
                k < l /\ oltIndQ[l] < oltIndQ[k] => oltIndQ[l] \in putBack
HeldOrder  == \A k \in DOMAIN oltIndQ, s \in Streams :
                oltIndQ[k] < held[s] => oltIndQ[k] \in putBack
ToldOrder  == \A k \in DOMAIN told, s \in Streams :
                told[k].to = s /\ held[s] # 0 /\ held[s] < told[k].id => held[s] \in putBack
LateOrder  == \A k \in DOMAIN oltIndQ, l \in DOMAIN told :
                oltIndQ[k] < told[l].id => oltIndQ[k] \in putBack

OrderInv == QueueOrder /\ HeldOrder /\ ToldOrder /\ LateOrder /\ InOrderUnlessPutBack

LEMMA NextOrder == TypeInv /\ OrderInv /\ [Next]_vars => OrderInv'
<1> SUFFICES ASSUME TypeInv, OrderInv, [Next]_vars  PROVE OrderInv'
  OBVIOUS
<1> USE DEF OrderInv
<1>0. /\ Len(raised) \in Nat
      /\ \A s \in Streams : held[s] \in 0 .. Len(raised)
      /\ \A k \in DOMAIN told : told[k].id \in 1 .. Len(raised) /\ told[k].to \in Streams
      /\ \A k \in DOMAIN oltIndQ : oltIndQ[k] \in 1 .. Len(raised)
  <2>1. /\ told \in Seq([id : 1 .. Len(raised), to : Streams])
        /\ oltIndQ \in Seq(1 .. Len(raised)) /\ raised \in Seq(Kinds)
    BY DEF TypeInv, TypeOK
  <2>2. \A k \in 1 .. Len(told) : told[k] \in [id : 1 .. Len(raised), to : Streams]
    BY <2>1, ElementType
  <2>3. \A k \in 1 .. Len(oltIndQ) : oltIndQ[k] \in 1 .. Len(raised)
    BY <2>1, ElementType
  <2>4. DOMAIN told = 1 .. Len(told) /\ DOMAIN oltIndQ = 1 .. Len(oltIndQ) /\ Len(raised) \in Nat
    BY <2>1
  <2> QED  BY <2>2, <2>3, <2>4 DEF TypeInv, HeldInv
<1>1. CASE UNCHANGED data
  BY <1>1 DEF data, QueueOrder, HeldOrder, ToldOrder, LateOrder, InOrderUnlessPutBack
<1>2. CASE Pushes
  <2>1. \A k \in DOMAIN oltIndQ' :
          \/ k \in DOMAIN oltIndQ /\ oltIndQ'[k] = oltIndQ[k]
          \/ k = Len(oltIndQ) + 1 /\ oltIndQ'[k] = Len(raised) + 1
    BY <1>2, PushFacts
  <2>2. UNCHANGED <<held, told, putBack>>  BY <1>2, PushFacts
  <2>3. DOMAIN oltIndQ = 1 .. Len(oltIndQ) /\ Len(oltIndQ) \in Nat  BY <1>2, PushFacts
  <2>4. QueueOrder'  BY <1>0, <2>1, <2>2, <2>3 DEF QueueOrder
  <2>5. HeldOrder'   BY <1>0, <2>1, <2>2 DEF HeldOrder
  <2>6. LateOrder'   BY <1>0, <2>1, <2>2 DEF LateOrder
  <2>7. ToldOrder' /\ InOrderUnlessPutBack'  BY <2>2 DEF ToldOrder, InOrderUnlessPutBack
  <2> QED  BY <2>4, <2>5, <2>6, <2>7
<1>3. ASSUME NEW s \in Streams, Pop(s)  PROVE OrderInv'
  <2>1. /\ UNCHANGED <<told, putBack>> /\ 1 \in DOMAIN oltIndQ
        /\ \A k \in DOMAIN oltIndQ' :
             k \in Nat \ {0} /\ k + 1 \in DOMAIN oltIndQ /\ oltIndQ'[k] = oltIndQ[k + 1]
    BY <1>3, PopFacts
  <2>2. \A u \in Streams : held'[u] = IF u = s THEN oltIndQ[1] ELSE held[u]
    BY <1>3, PopFacts
  <2>3. QueueOrder'  BY <2>1 DEF QueueOrder
  <2>4. HeldOrder'   BY <2>1, <2>2 DEF QueueOrder, HeldOrder
  <2>5. ToldOrder'   BY <2>1, <2>2 DEF ToldOrder, LateOrder
  <2>6. LateOrder' /\ InOrderUnlessPutBack'  BY <2>1 DEF LateOrder, InOrderUnlessPutBack
  <2> QED  BY <2>3, <2>4, <2>5, <2>6
<1>4. ASSUME NEW s \in Streams, WriteOk(s)  PROVE OrderInv'
  <2>1. UNCHANGED <<oltIndQ, putBack>> /\ held[s] \in 1 .. Len(raised)
    BY <1>4, WriteFacts
  <2>2. \A u \in Streams : held'[u] = IF u = s THEN 0 ELSE held[u]  BY <1>4, WriteFacts
  <2>3. \A k \in DOMAIN told' :
          \/ k \in DOMAIN told /\ told'[k] = told[k]
          \/ k = Len(told) + 1 /\ told'[k].id = held[s] /\ told'[k].to = s
    BY <1>4, WriteFacts
  <2>4. DOMAIN told = 1 .. Len(told) /\ Len(told) \in Nat  BY <1>4, WriteFacts
  <2>5. QueueOrder'  BY <2>1 DEF QueueOrder
  <2>6. HeldOrder'   BY <1>0, <2>1, <2>2 DEF HeldOrder
  <2>7. ToldOrder'   BY <2>1, <2>2, <2>3 DEF ToldOrder
  <2>8. LateOrder'   BY <2>1, <2>3 DEF LateOrder, HeldOrder
  <2>9. InOrderUnlessPutBack'
    <3> SUFFICES ASSUME NEW k \in DOMAIN told', NEW l \in DOMAIN told', k < l,
                        told'[k].to = told'[l].to, told'[l].id < told'[k].id
                 PROVE  told'[l].id \in putBack
      BY <2>1 DEF InOrderUnlessPutBack
    <3>1. CASE l \in DOMAIN told
      <4>1. k \in DOMAIN told  BY <2>3, <2>4, <3>1
      <4>2. told'[k] = told[k] /\ told'[l] = told[l]  BY <2>3, <2>4, <3>1, <4>1
      <4> QED  BY <3>1, <4>1, <4>2 DEF InOrderUnlessPutBack
    <3>2. CASE l = Len(told) + 1
      <4>1. k \in DOMAIN told /\ told'[k] = told[k]  BY <2>3, <2>4, <3>2
      <4>2. told'[l].id = held[s] /\ told'[l].to = s  BY <2>3, <2>4, <3>2
      <4> QED  BY <2>1, <4>1, <4>2 DEF ToldOrder
    <3> QED  BY <2>3, <3>1, <3>2
  <2> QED  BY <2>5, <2>6, <2>7, <2>8, <2>9
<1>5. ASSUME NEW s \in Streams, PutBack(s)  PROVE OrderInv'
  <2>1. \A k \in DOMAIN oltIndQ' :
          \/ k \in DOMAIN oltIndQ /\ oltIndQ'[k] = oltIndQ[k]
          \/ k = Len(oltIndQ) + 1 /\ oltIndQ'[k] = held[s]
    BY <1>5, PutBackFacts
  <2>2. \A u \in Streams : held'[u] = IF u = s THEN 0 ELSE held[u]  BY <1>5, PutBackFacts
  <2>3. putBack' = putBack \cup {held[s]} /\ told' = told  BY <1>5, PutBackFacts
  <2>4. DOMAIN oltIndQ = 1 .. Len(oltIndQ) /\ Len(oltIndQ) \in Nat  BY <1>5, PutBackFacts
  <2>5. QueueOrder'  BY <2>1, <2>3, <2>4 DEF QueueOrder
  <2>6. HeldOrder'   BY <1>0, <2>1, <2>2, <2>3 DEF HeldOrder
  <2>7. ToldOrder'   BY <2>2, <2>3 DEF ToldOrder
  <2>8. LateOrder' /\ InOrderUnlessPutBack'
    BY <2>1, <2>3 DEF LateOrder, InOrderUnlessPutBack
  <2> QED  BY <2>5, <2>6, <2>7, <2>8
<1> QED  BY <1>1, <1>2, <1>3, <1>4, <1>5, DataSteps

(***************************************************************************)
(* On one stream an indication comes after a later one only if a failed    *)
(* write had put it back.                                                  *)
(***************************************************************************)
THEOREM InOrder == Spec => []InOrderUnlessPutBack
<1>1. Init => OrderInv
  BY DEF Init, OrderInv, QueueOrder, HeldOrder, ToldOrder, LateOrder, InOrderUnlessPutBack
<1>2. OrderInv => InOrderUnlessPutBack  BY DEF OrderInv
<1> QED  BY <1>1, <1>2, InitType, NextType, NextOrder, PTL DEF Spec

-----------------------------------------------------------------------------
(***************************************************************************)
(* The state the clients hear.  As long as the order of two indications of *)
(* the OLT was not disturbed, those that were made and not yet pushed      *)
(* agree with the state, and without such the last one pushed does.        *)
(***************************************************************************)
Agrees(k) == k = "up" <=> activated

IsOlt(i) == raised[i] \in OltStates

Latest(i) == i \in DOMAIN raised /\ IsOlt(i) /\ \A j \in DOMAIN raised : IsOlt(j) => j <= i

MadeAgree   == \A t \in Threads : pending[t] \in OltStates => Agrees(pending[t])
LatestAgree == OltPending = {} => \A i \in DOMAIN raised : Latest(i) => Agrees(raised[i])

StateInv == ~raced => MadeAgree /\ LatestAgree

(***************************************************************************)
(* They are told in the order they were pushed: at most one stream holds   *)
(* one, it is not older than what was told on any stream, and none was put *)
(* back.                                                                   *)
(***************************************************************************)
NonePutBack == \A i \in putBack : ~IsOlt(i)
OneHeld     == \A s, u \in OltHeld : s = u
HeldLater   == \A k \in OltTold, s \in OltHeld : told[k].id <= held[s]
ToldInOrder == \A k, l \in OltTold : k < l => told[k].id <= told[l].id

SequenceInv == ~raced => NonePutBack /\ OneHeld /\ HeldLater /\ ToldInOrder

(* Nothing is lost, and something was told last.                           *)
Accounted  == \A i \in DOMAIN raised : i \in Owed \cup ToldIds
LastExists == OltTold # {} => \E k \in OltTold : \A l \in OltTold : l <= k

KeptInv == Accounted /\ LastExists

(* The state, what is made and what is raised: the steps that touch them.  *)
Makes(t) ==
  /\ \E k \in OltStates : pending' = [pending EXCEPT ![t] = k] /\ activated' = (k = "up")
  /\ UNCHANGED raised
  /\ ~raced' => OltPending = {}

MakesOther(t) ==
  \/ UNCHANGED <<raised, activated>> /\ pending[t] = "none" /\ pending' = [pending EXCEPT ![t] = "event"]
  \/ UNCHANGED <<raised, activated>> /\ \E k \in OltStates : Agrees(k) /\ pending' = [pending EXCEPT ![t] = k]

PushesMade(t) ==
  /\ pending[t] \in Kinds /\ pending' = [pending EXCEPT ![t] = "none"]
  /\ raised' = Append(raised, pending[t]) /\ UNCHANGED activated

PushesStats == raised' = Append(raised, "event") /\ UNCHANGED <<pending, activated>>

LEMMA StateSteps ==
  ASSUME TypeInv, [Next]_vars
  PROVE  /\ raced => raced'
         /\ \/ UNCHANGED <<activated, pending, raised>>
            \/ PushesStats
            \/ \E t \in Threads : Makes(t) \/ MakesOther(t) \/ PushesMade(t)
<1>0. /\ pending \in [Threads -> Kinds \cup {"none"}] /\ activated \in BOOLEAN
      /\ Streams \subseteq Threads /\ Raisers \subseteq Threads
  BY DEF TypeInv, TypeOK, Threads
<1>1. ASSUME NEW t \in Raisers, NEW k \in OltStates, MakeOlt(t, k)
      PROVE  (raced => raced') /\ Makes(t)
  BY <1>1 DEF MakeOlt, Make, Makes
<1>2. ASSUME NEW t \in Raisers, Event(t)
      PROVE  (raced => raced') /\ MakesOther(t)
  BY <1>2 DEF Event, Make, MakesOther, stateVars
<1>3. ASSUME NEW t \in Raisers, Raiser(t)
      PROVE  \/ \E k \in OltStates : MakeOlt(t, k)
             \/ Event(t)
  BY <1>3 DEF Raiser, OltOperIndication, DisableDone, ReenableDone, OltStates,
     LosIndication, IfOperIndication, OnuDisableEnableIndication, OnuAlarmIndications,
     OmciIndication, PacketIndication, OnuDefectIndications, OnuFailureIndications,
     OnuActivationCompletedIndication, OnuDeactivationCompletedIndication,
     OnuStatsAlarmIndications, OnuDiscoveryIndication
<1>4. ASSUME NEW t \in Raisers, Push(t)
      PROVE  (raced => raced') /\ PushesMade(t)
  BY <1>0, <1>4 DEF Push, PushNew, PushesMade, stateVars
<1>5. ASSUME NEW s \in Streams, PushExtra(s)
      PROVE  (raced => raced') /\ PushesMade(s)
  BY <1>0, <1>5 DEF PushExtra, Go, PushNew, PushesMade, stateVars, TypeInv, HeldInv
<1>6. ASSUME NEW s \in Streams, Recheck(s)
      PROVE  (raced => raced') /\ MakesOther(s)
  BY <1>0, <1>6 DEF Recheck, MakesOther, Agrees, OltStates, stateVars
<1>7. ASSUME NEW s \in Streams, PushStats(s)
      PROVE  (raced => raced') /\ PushesStats
  BY <1>7 DEF PushStats, PushNew, PushesStats, stateVars
<1>8. ASSUME NEW s \in Streams, Pop(s) \/ PutBack(s)
      PROVE  (raced => raced') /\ UNCHANGED <<activated, pending, raised>>
  BY <1>8 DEF Pop, PutBack, stateVars
<1>9. ASSUME NEW s \in Streams,
             \/ Call(s) \/ Check(s) \/ Connect(s) \/ Loop(s) \/ PopWaits(s) \/ WriteOk(s)
             \/ WriteFails(s) \/ Disconnect(s) \/ PopTimesOut(s) \/ StatsDone(s) \/ Break(s)
      PROVE  (raced => raced') /\ UNCHANGED <<activated, pending, raised>>
  BY <1>9 DEF Call, Check, Connect, Loop, PopWaits, WriteOk, WriteFails, Disconnect, PopTimesOut,
     StatsDone, Break, stateVars
<1>10. CASE UNCHANGED vars
  BY <1>10 DEF vars, stateVars
<1> QED
  BY <1>0, <1>1, <1>2, <1>3, <1>4, <1>5, <1>6, <1>7, <1>8, <1>9, <1>10 DEF Next, EnableIndication

(* What is raised stays raised.                                            *)
LEMMA RaisedGrows ==
  ASSUME TypeInv, NEW k \in Kinds, raised' = Append(raised, k)
  PROVE  /\ Len(raised) \in Nat /\ DOMAIN raised = 1 .. Len(raised)
         /\ DOMAIN raised' = 1 .. Len(raised) + 1
         /\ \A i \in DOMAIN raised : raised'[i] = raised[i]
         /\ raised'[Len(raised) + 1] = k
<1>1. raised \in Seq(Kinds) /\ Len(raised) \in Nat  BY DEF TypeInv, TypeOK
<1> QED  BY <1>1, AppendType

LEMMA NextState == TypeInv /\ StateInv /\ [Next]_vars => StateInv'
<1> SUFFICES ASSUME TypeInv, StateInv, [Next]_vars, ~raced'  PROVE MadeAgree' /\ LatestAgree'
  BY DEF StateInv
<1>0. /\ ~raced /\ MadeAgree /\ LatestAgree
      /\ pending \in [Threads -> Kinds \cup {"none"}] /\ activated \in BOOLEAN
      /\ "none" \notin OltStates /\ "event" \notin OltStates
      /\ OltStates \subseteq Kinds /\ "event" \in Kinds
  BY StateSteps DEF StateInv, TypeInv, TypeOK, OltStates, Kinds
<1>1. CASE UNCHANGED <<activated, pending, raised>>
  BY <1>0, <1>1 DEF MadeAgree, LatestAgree, OltPending, Latest, IsOlt, Agrees
<1>2. ASSUME NEW k \in Kinds \ OltStates, raised' = Append(raised, k), UNCHANGED activated,
             OltPending' = {} => OltPending = {}
      PROVE  LatestAgree'
  <2> SUFFICES ASSUME OltPending' = {}, NEW i \in DOMAIN raised', Latest(i)'
               PROVE  Agrees(raised[i])'
    BY DEF LatestAgree
  <2>1. /\ DOMAIN raised = 1 .. Len(raised) /\ DOMAIN raised' = 1 .. Len(raised) + 1
        /\ \A j \in DOMAIN raised : raised'[j] = raised[j] /\ j \in DOMAIN raised'
        /\ raised'[Len(raised) + 1] = k
    BY <1>2, RaisedGrows
  <2>2. i \in DOMAIN raised  BY <1>2, <2>1 DEF Latest, IsOlt
  <2>3. Latest(i)  BY <2>1, <2>2 DEF Latest, IsOlt
  <2>4. Agrees(raised[i])  BY <1>0, <1>2, <2>2, <2>3 DEF LatestAgree
  <2> QED  BY <1>2, <2>1, <2>2, <2>4 DEF Agrees
<1>3. CASE PushesStats
  <2>1. OltPending' = OltPending  BY <1>3 DEF PushesStats, OltPending
  <2>2. LatestAgree'  BY <1>0, <1>2, <1>3, <2>1 DEF PushesStats
  <2>3. MadeAgree'  BY <1>0, <1>3 DEF PushesStats, MadeAgree, Agrees
  <2> QED  BY <2>2, <2>3
<1>4. ASSUME NEW t \in Threads, Makes(t)  PROVE MadeAgree' /\ LatestAgree'
  <2>1. PICK k \in OltStates : pending' = [pending EXCEPT ![t] = k] /\ activated' = (k = "up")
    BY <1>4 DEF Makes
  <2>2. pending'[t] = k /\ \A u \in Threads \ {t} : pending'[u] = pending[u]
    BY <1>0, <2>1
  <2>3. \A u \in Threads : pending[u] \notin OltStates  BY <1>4 DEF Makes, OltPending
  <2>4. MadeAgree'  BY <2>1, <2>2, <2>3 DEF MadeAgree, Agrees
  <2>5. t \in OltPending'  BY <2>2 DEF OltPending
  <2> QED  BY <2>4, <2>5 DEF LatestAgree
<1>5. ASSUME NEW t \in Threads, MakesOther(t)  PROVE MadeAgree' /\ LatestAgree'
  <2>1. CASE /\ UNCHANGED <<raised, activated>> /\ pending[t] = "none"
             /\ pending' = [pending EXCEPT ![t] = "event"]
    <3>1. \A u \in Threads : pending'[u] \in OltStates <=> pending[u] \in OltStates
      BY <1>0, <2>1
    <3>2. \A u \in Threads : pending'[u] \in OltStates => pending'[u] = pending[u]
      BY <1>0, <2>1
    <3>3. OltPending' = OltPending  BY <3>1 DEF OltPending
    <3>4. MadeAgree'  BY <1>0, <2>1, <3>1, <3>2 DEF MadeAgree, Agrees
    <3> QED  BY <1>0, <2>1, <3>3, <3>4 DEF LatestAgree, Latest, IsOlt, Agrees
  <2>2. ASSUME UNCHANGED <<raised, activated>>, NEW k \in OltStates, Agrees(k),
               pending' = [pending EXCEPT ![t] = k]
        PROVE  MadeAgree' /\ LatestAgree'
    <3>1. pending'[t] = k /\ \A u \in Threads \ {t} : pending'[u] = pending[u]
      BY <1>0, <2>2
    <3>2. MadeAgree'  BY <1>0, <2>2, <3>1 DEF MadeAgree, Agrees
    <3>3. t \in OltPending'  BY <3>1 DEF OltPending
    <3> QED  BY <3>2, <3>3 DEF LatestAgree
  <2> QED  BY <1>5, <2>1, <2>2 DEF MakesOther
<1>6. ASSUME NEW t \in Threads, PushesMade(t)  PROVE MadeAgree' /\ LatestAgree'
  <2>1. pending'[t] = "none" /\ \A u \in Threads \ {t} : pending'[u] = pending[u]
    BY <1>0, <1>6 DEF PushesMade
  <2>2. MadeAgree'  BY <1>0, <1>6, <2>1 DEF PushesMade, MadeAgree, Agrees
  <2>3. CASE pending[t] \notin OltStates
    <3>1. OltPending' = OltPending  BY <1>0, <2>1, <2>3 DEF OltPending
    <3> QED  BY <1>2, <1>6, <2>2, <2>3, <3>1 DEF PushesMade
  <2>4. CASE pending[t] \in OltStates
    <3>1. /\ Len(raised) \in Nat
          /\ DOMAIN raised = 1 .. Len(raised) /\ DOMAIN raised' = 1 .. Len(raised) + 1
          /\ raised'[Len(raised) + 1] = pending[t]
      BY <1>6, RaisedGrows DEF PushesMade
    <3>2. ASSUME NEW i \in DOMAIN raised', Latest(i)'  PROVE i = Len(raised) + 1
      BY <2>4, <3>1, <3>2 DEF Latest, IsOlt
    <3>3. Agrees(pending[t])  BY <1>0, <2>4 DEF MadeAgree
    <3>4. LatestAgree'  BY <1>6, <3>1, <3>2, <3>3 DEF LatestAgree, PushesMade, Agrees
    <3> QED  BY <2>2, <3>4
  <2> QED  BY <2>3, <2>4
<1> QED  BY <1>1, <1>3, <1>4, <1>5, <1>6, StateSteps

LEMMA InitState == Init => StateInv /\ SequenceInv /\ KeptInv
BY DEF Init, StateInv, MadeAgree, LatestAgree, SequenceInv, NonePutBack, OneHeld, HeldLater,
   ToldInOrder, KeptInv, Accounted, LastExists, OltTold, OltHeld, OltStates

-----------------------------------------------------------------------------
(* The order in which OLT indications are told.                            *)

(* Whether an indication that was raised is one of the OLT never changes.  *)
LEMMA KindStays ==
  ASSUME TypeInv, [Next]_vars
  PROVE  /\ Len(raised) \in Nat /\ DOMAIN raised = 1 .. Len(raised)
         /\ \A i \in 1 .. Len(raised) : i \in DOMAIN raised' /\ (IsOlt(i)' <=> IsOlt(i))
         /\ 0 \notin 1 .. Len(raised)
         /\ \A s \in Streams : held[s] \in 0 .. Len(raised)
         /\ \A k \in DOMAIN told : told[k].id \in 1 .. Len(raised)
         /\ \A k \in DOMAIN oltIndQ : oltIndQ[k] \in 1 .. Len(raised)
         /\ \A i \in putBack : i \in 1 .. Len(raised)
         /\ DOMAIN told = 1 .. Len(told) /\ Len(told) \in Nat
<1>1. /\ raised \in Seq(Kinds) /\ told \in Seq([id : 1 .. Len(raised), to : Streams])
      /\ oltIndQ \in Seq(1 .. Len(raised)) /\ putBack \subseteq 1 .. Len(raised)
      /\ pending \in [Threads -> Kinds \cup {"none"}]
  BY DEF TypeInv, TypeOK
<1>2. /\ Len(raised) \in Nat /\ DOMAIN raised = 1 .. Len(raised)
      /\ DOMAIN told = 1 .. Len(told) /\ Len(told) \in Nat
      /\ DOMAIN oltIndQ = 1 .. Len(oltIndQ)
  BY <1>1
<1>3. \A k \in 1 .. Len(told) : told[k] \in [id : 1 .. Len(raised), to : Streams]
  BY <1>1, ElementType
<1>4. \A k \in 1 .. Len(oltIndQ) : oltIndQ[k] \in 1 .. Len(raised)
  BY <1>1, ElementType
<1>5. raised' = raised \/ \E k \in Kinds : raised' = Append(raised, k)
  BY StateSteps DEF PushesStats, Makes, MakesOther, PushesMade, Kinds
<1>6. \A i \in 1 .. Len(raised) : i \in DOMAIN raised' /\ (IsOlt(i)' <=> IsOlt(i))
  BY <1>2, <1>5, RaisedGrows DEF IsOlt
<1> QED  BY <1>1, <1>2, <1>3, <1>4, <1>6 DEF TypeInv, HeldInv

LEMMA NextSequence ==
  TypeInv /\ OrderInv /\ SequenceInv /\ [Next]_vars => SequenceInv'
<1> SUFFICES ASSUME TypeInv, OrderInv, SequenceInv, [Next]_vars, ~raced'
             PROVE  NonePutBack' /\ OneHeld' /\ HeldLater' /\ ToldInOrder'
  BY DEF SequenceInv
<1>0. ~raced /\ NonePutBack /\ OneHeld /\ HeldLater /\ ToldInOrder
  BY StateSteps DEF SequenceInv
<1> USE KindStays
<1>1. /\ \A s \in Streams : s \in OltHeld <=> held[s] # 0 /\ IsOlt(held[s])
      /\ \A s \in Streams : s \in OltHeld' <=> held'[s] # 0 /\ IsOlt(held[s])'
      /\ \A k : k \in OltTold <=> k \in DOMAIN told /\ IsOlt(told[k].id)
      /\ \A k : k \in OltTold' <=> k \in DOMAIN told' /\ IsOlt(told[k].id)'
      /\ OltHeld \subseteq Streams /\ OltHeld' \subseteq Streams
  BY DEF OltHeld, OltTold, IsOlt
<1>2. CASE UNCHANGED <<held, told, putBack>>
  <2>1. OltHeld' = OltHeld
    <3>1. \A s \in Streams : held'[s] = held[s] /\ (held[s] # 0 => held[s] \in 1 .. Len(raised))
      BY <1>2
    <3>2. \A s \in Streams : s \in OltHeld' <=> s \in OltHeld
      BY <1>1, <1>2, <3>1 DEF IsOlt
    <3> QED  BY <1>1, <3>2
  <2>2. OltTold' = OltTold  BY <1>1, <1>2
  <2>3. NonePutBack'  BY <1>0, <1>2 DEF NonePutBack
  <2> QED
    BY <1>0, <1>2, <2>1, <2>2, <2>3 DEF OneHeld, HeldLater, ToldInOrder
<1>3. ASSUME NEW s \in Streams, Pop(s)  PROVE NonePutBack' /\ OneHeld' /\ HeldLater' /\ ToldInOrder'
  <2> DEFINE h == oltIndQ[1]
  <2>1. /\ UNCHANGED <<told, raised, putBack>> /\ 1 \in DOMAIN oltIndQ /\ h \in 1 .. Len(raised)
        /\ \A u \in Streams : held'[u] = IF u = s THEN h ELSE held[u]
    BY <1>3, PopFacts
  <2>2. IsOlt(h) => OltHeld = {}
    <3>1. oltIndQ \in Seq(1 .. Len(raised)) /\ oltIndQ # <<>>  BY <1>3 DEF Pop, TypeInv, TypeOK
    <3>2. Head(oltIndQ) = h  BY <3>1, TailType
    <3>3. ~(raised[Head(oltIndQ)] \in OltStates /\ OltHeld # {})  BY <1>3 DEF Pop
    <3> QED  BY <3>2, <3>3 DEF IsOlt
  <2>3. NonePutBack'  BY <1>0, <2>1 DEF NonePutBack, IsOlt
  <2>4. OltTold' = OltTold  BY <1>1, <2>1 DEF IsOlt
  <2>5. ToldInOrder'  BY <1>0, <2>1, <2>4 DEF ToldInOrder
  <2>6. \A u \in OltHeld' : \/ u = s /\ IsOlt(h) /\ held'[u] = h
                            \/ u # s /\ u \in OltHeld /\ held'[u] = held[u]
    BY <1>1, <2>1 DEF IsOlt
  <2>7. OneHeld'  BY <1>0, <2>2, <2>6 DEF OneHeld
  <2>8. ASSUME IsOlt(h), NEW k \in OltTold  PROVE told[k].id <= h
    <3>1. k \in DOMAIN told /\ told[k].id \in 1 .. Len(raised)  BY <1>1
    <3>2. h < told[k].id => h \in putBack  BY <2>1, <3>1 DEF OrderInv, LateOrder
    <3>3. h \notin putBack  BY <1>0, <2>8 DEF NonePutBack
    <3> QED  BY <2>1, <3>1, <3>2, <3>3
  <2>9. HeldLater'  BY <1>0, <2>1, <2>4, <2>6, <2>8 DEF HeldLater
  <2> QED  BY <2>3, <2>5, <2>7, <2>9
<1>4. ASSUME NEW s \in Streams, WriteOk(s)
      PROVE  NonePutBack' /\ OneHeld' /\ HeldLater' /\ ToldInOrder'
  <2> DEFINE h == held[s]
  <2>1. /\ UNCHANGED <<raised, putBack>> /\ h \in 1 .. Len(raised)
        /\ \A u \in Streams : held'[u] = IF u = s THEN 0 ELSE held[u]
        /\ \A k \in DOMAIN told' :
             \/ k \in DOMAIN told /\ told'[k] = told[k]
             \/ k = Len(told) + 1 /\ told'[k].id = h
    BY <1>4, WriteFacts
  <2>2. NonePutBack'  BY <1>0, <2>1 DEF NonePutBack, IsOlt
  <2>3. \A u \in OltHeld' : u # s /\ u \in OltHeld /\ held'[u] = held[u]
    BY <1>1, <2>1 DEF IsOlt
  <2>4. OneHeld'  BY <1>0, <2>3 DEF OneHeld
  <2>5. \A k \in OltTold' : \/ k \in OltTold /\ told'[k] = told[k]
                            \/ k = Len(told) + 1 /\ told'[k].id = h /\ s \in OltHeld
    BY <1>1, <2>1 DEF IsOlt
  <2>6. HeldLater'
    <3> SUFFICES ASSUME NEW k \in OltTold', NEW u \in OltHeld'  PROVE told'[k].id <= held'[u]
      BY DEF HeldLater
    <3>1. s \notin OltHeld  BY <1>0, <2>3 DEF OneHeld
    <3>2. k \in OltTold /\ told'[k] = told[k]  BY <2>5, <3>1
    <3>3. u \in OltHeld /\ held'[u] = held[u]  BY <2>3
    <3> QED  BY <1>0, <3>2, <3>3 DEF HeldLater
  <2>7. ToldInOrder'
    <3> SUFFICES ASSUME NEW k \in OltTold', NEW l \in OltTold', k < l
                 PROVE  told'[k].id <= told'[l].id
      BY DEF ToldInOrder
    <3>1. \A m \in OltTold : m \in 1 .. Len(told)  BY <1>1
    <3>2. k \in OltTold /\ told'[k] = told[k]
      BY <2>5, <3>1
    <3>3. CASE l \in OltTold /\ told'[l] = told[l]
      BY <1>0, <3>2, <3>3 DEF ToldInOrder
    <3>4. CASE told'[l].id = h /\ s \in OltHeld
      BY <1>0, <3>2, <3>4 DEF HeldLater
    <3> QED  BY <2>5, <3>3, <3>4
  <2> QED  BY <2>2, <2>4, <2>6, <2>7
<1>5. ASSUME NEW s \in Streams, PutBack(s)
      PROVE  NonePutBack' /\ OneHeld' /\ HeldLater' /\ ToldInOrder'
  <2>1. /\ UNCHANGED <<raised, told>> /\ held[s] # 0 /\ putBack' = putBack \cup {held[s]}
        /\ \A u \in Streams : held'[u] = IF u = s THEN 0 ELSE held[u]
    BY <1>5, PutBackFacts
  <2>2. ~IsOlt(held[s])  BY <1>5 DEF PutBack, IsOlt
  <2>3. NonePutBack'  BY <1>0, <2>1, <2>2 DEF NonePutBack, IsOlt
  <2>4. OltTold' = OltTold  BY <1>1, <2>1 DEF IsOlt
  <2>5. \A u \in OltHeld' : u \in OltHeld /\ held'[u] = held[u]
    BY <1>1, <2>1 DEF IsOlt
  <2> QED  BY <1>0, <2>1, <2>3, <2>4, <2>5 DEF OneHeld, HeldLater, ToldInOrder
<1> QED  BY <1>2, <1>3, <1>4, <1>5, DataSteps DEF data, Pushes

LEMMA NextKept == TypeInv /\ OwnInv /\ KeptInv /\ [Next]_vars => KeptInv'
<1> SUFFICES ASSUME TypeInv, OwnInv, KeptInv, [Next]_vars  PROVE Accounted' /\ LastExists'
  BY DEF KeptInv
<1> USE KindStays
<1>0. /\ \A i \in DOMAIN raised : i \in Owed \cup ToldIds
      /\ \A k : k \in OltTold <=> k \in DOMAIN told /\ IsOlt(told[k].id)
      /\ \A k : k \in OltTold' <=> k \in DOMAIN told' /\ IsOlt(told[k].id)'
  BY DEF KeptInv, Accounted, OltTold, IsOlt
<1>1. ASSUME UNCHANGED told  PROVE LastExists'
  <2>1. OltTold' = OltTold  BY <1>0, <1>1
  <2> QED  BY <2>1 DEF KeptInv, LastExists
<1>2. CASE UNCHANGED data
  <2>1. UNCHANGED <<raised, told, Owed, ToldIds>>
    BY <1>2 DEF data, Owed, QueuedIds, HeldIds, ToldIds
  <2> QED  BY <1>0, <1>1, <2>1 DEF Accounted
<1>3. CASE Pushes
  <2>1. QueuedIds' = QueuedIds \cup {Len(raised) + 1} /\ HeldIds' = HeldIds /\ ToldIds' = ToldIds
    BY <1>3, PushFacts DEF QueuedIds, HeldIds, ToldIds
  <2>2. DOMAIN raised' = 1 .. Len(raised) + 1
    BY <1>3, RaisedGrows DEF Pushes, PushNew
  <2>3. Accounted'  BY <1>0, <2>1, <2>2 DEF Accounted, Owed
  <2> QED  BY <1>1, <1>3, <2>3, PushFacts
<1>4. ASSUME NEW s \in Streams, Pop(s) \/ PutBack(s)  PROVE Accounted' /\ LastExists'
  <2>1. UNCHANGED <<raised, told, Owed, ToldIds>>
    BY <1>4, PopFacts, PutBackFacts, PopStutters, PutBackStutters
  <2> QED  BY <1>0, <1>1, <2>1 DEF Accounted
<1>5. ASSUME NEW s \in Streams, WriteOk(s)  PROVE Accounted' /\ LastExists'
  <2> DEFINE n == Len(told) + 1
  <2>1. /\ UNCHANGED <<oltIndQ, raised>> /\ DOMAIN told' = 1 .. n
        /\ \A u \in Streams : held'[u] = IF u = s THEN 0 ELSE held[u]
        /\ \A k \in DOMAIN told : k \in DOMAIN told' /\ told'[k] = told[k]
        /\ n \in DOMAIN told' /\ told'[n].id = held[s]
        /\ \A k \in DOMAIN told' : k \in DOMAIN told \/ k = n
    BY <1>5, WriteFacts
  <2>2. QueuedIds' = QueuedIds /\ HeldIds \subseteq HeldIds' \cup {held[s]}
    BY <2>1 DEF QueuedIds, HeldIds
  <2>3. ToldIds \subseteq ToldIds' /\ held[s] \in ToldIds'
    BY <2>1 DEF ToldIds
  <2>4. Accounted'  BY <1>0, <2>1, <2>2, <2>3 DEF Accounted, Owed
  <2>5. CASE n \in OltTold'
    <3>1. \A k \in OltTold' : k <= n  BY <1>0, <2>1
    <3> QED  BY <2>4, <2>5, <3>1 DEF LastExists
  <2>6. CASE n \notin OltTold'
    <3>1. OltTold' = OltTold  BY <1>0, <2>1, <2>6 DEF IsOlt
    <3> QED  BY <2>4, <3>1 DEF KeptInv, LastExists
  <2> QED  BY <2>5, <2>6
<1> QED  BY <1>2, <1>3, <1>4, <1>5, DataSteps

(***************************************************************************)
(* When everything raised has been told and no two OLT indications were    *)
(* disturbed in their order, the last the clients heard of the OLT is the  *)
(* state it is in, on however many streams they heard it.                  *)
(***************************************************************************)
THEOREM TellsState == Spec => []StreamTellsStateUnlessRaced
<1>1. TypeInv /\ StateInv /\ SequenceInv /\ KeptInv => StreamTellsStateUnlessRaced
  <2> SUFFICES ASSUME TypeInv, StateInv, SequenceInv, KeptInv, ~raced, Drained, OltTold # {}
               PROVE  LastTold = "up" <=> activated
    BY DEF StreamTellsStateUnlessRaced, StreamTellsState
  <2> DEFINE last == CHOOSE k \in OltTold : \A l \in OltTold : l <= k
  <2>1. last \in OltTold /\ \A l \in OltTold : l <= last
    BY DEF KeptInv, LastExists
  <2> HIDE DEF last
  <2>2. /\ raised \in Seq(Kinds) /\ told \in Seq([id : 1 .. Len(raised), to : Streams])
        /\ Len(raised) \in Nat
    BY DEF TypeInv, TypeOK
  <2>3. DOMAIN raised = 1 .. Len(raised) /\ DOMAIN told = 1 .. Len(told) /\ Len(told) \in Nat
    BY <2>2
  <2>4. \A k \in 1 .. Len(told) : told[k] \in [id : 1 .. Len(raised), to : Streams]
    BY <2>2, ElementType
  <2>5. \A k \in DOMAIN told : told[k].id \in DOMAIN raised  BY <2>3, <2>4
  <2>6. \A k \in OltTold : k \in DOMAIN told /\ IsOlt(told[k].id)  BY DEF OltTold, IsOlt
  <2>7. \A l \in OltTold : told[l].id <= told[last].id
    <3> SUFFICES ASSUME NEW l \in OltTold  PROVE told[l].id <= told[last].id
      OBVIOUS
    <3>1. l \in 1 .. Len(told) /\ last \in 1 .. Len(told) /\ l <= last
      BY <2>1, <2>3, <2>6
    <3>2. CASE l < last  BY <2>1, <3>2 DEF SequenceInv, ToldInOrder
    <3>3. CASE l = last
      <4>1. told[last].id \in 1 .. Len(raised)  BY <2>1, <2>3, <2>5, <2>6
      <4> QED  BY <2>2, <3>3, <4>1
    <3> QED  BY <2>3, <3>1, <3>2, <3>3
  <2>8. ASSUME NEW j \in DOMAIN raised, IsOlt(j)  PROVE j <= told[last].id
    <3>1. QueuedIds = {} /\ HeldIds = {}  BY DEF Drained, QueuedIds
    <3>2. j \in ToldIds  BY <3>1 DEF KeptInv, Accounted, Owed
    <3>3. PICK k \in DOMAIN told : told[k].id = j  BY <3>2 DEF ToldIds
    <3>4. k \in OltTold  BY <2>8, <3>3 DEF OltTold, IsOlt
    <3> QED  BY <2>7, <3>3, <3>4
  <2>9. Latest(told[last].id)  BY <2>1, <2>5, <2>6, <2>8 DEF Latest
  <2>10. OltPending = {}
    BY DEF Drained, Pending, OltPending, OltStates
  <2>11. Agrees(raised[told[last].id])
    BY <2>1, <2>5, <2>6, <2>9, <2>10 DEF StateInv, LatestAgree
  <2> QED  BY <2>11 DEF Agrees, LastTold, last
<1>2. Init => OrderInv
  BY DEF Init, OrderInv, QueueOrder, HeldOrder, ToldOrder, LateOrder, InOrderUnlessPutBack
<1> QED
  BY <1>1, <1>2, InitType, NextType, InitOwn, NextOwn, NextOrder, InitState, NextState,
     NextSequence, NextKept, PTL DEF Spec
=============================================================================
