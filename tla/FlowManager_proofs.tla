------------------------ MODULE FlowManager_proofs ------------------------
(***************************************************************************)
(* Theorems about FlowManager, for any number of threads, flows, ids and   *)
(* faults, from FlowAssumption.  TypeCorrect and UseAfterFree allow calls  *)
(* for one subscriber to overlap; the five theorems about who has which id *)
(* take Serialised and PairedRequests as hypotheses.                       *)
(***************************************************************************)
EXTENDS FlowManager, FiniteSetTheorems, TLAPS

Calls == [op : {"none", "add", "remove"}, flow : Flows \cup {None},
          sym : Flows \cup {None}, ptr : Flows \cup {None},
          ids : Seq(FlowIds), idx : 1 .. MaxReplicated,
          cur : Params \cup {NoParam}, alone : BOOLEAN]

Undoing == {"rmaps", "rbal", "free"}
AtFlow  == {"add", "bal", "cache"} \cup Undoing   \* at work on a device flow
OpPCs(op) ==
  IF op = "add"
  THEN Undoing \cup {"lookup", "check", "symm", "deref", "alloc", "spin", "add", "bal", "cache", "link"}
  ELSE Undoing \cup {"check", "get", "uncache", "unlink"}

(***************************************************************************)
(* A call has a flow and is where its operation can be; an addition works  *)
(* on one of the device flows it needs, with as many ids as it needs; a    *)
(* symmetric flow is looked up before it is used, and a replicated one     *)
(* gives no ids back.                                                      *)
(***************************************************************************)
RunsAt(p, c) ==
  p # "idle" =>
    /\ c.flow \in Flows /\ c.op \in {"add", "remove"} /\ p \in OpPCs(c.op)
    /\ c.op = "add" => /\ c.idx <= Len(Req[c.flow].gems)
                       /\ c.ids # <<>> => Len(c.ids) = Len(Req[c.flow].gems)
    /\ p = "deref" => c.sym # None
    /\ p = "free" /\ c.op = "add" /\ Req[c.flow].replicate => c.ids # <<>>

TypeInv ==
  /\ TypeOK
  /\ \A t \in Threads : RunsAt(pc[t], me[t])
  /\ \A v \in Flows : Len(cache[v]) <= MaxReplicated

-----------------------------------------------------------------------------
(* The constants and the locals of a call.                                 *)

LEMMA ReqFacts ==
  ASSUME NEW v \in Flows
  PROVE  /\ Req[v].sub \in Subs /\ Req[v].type \in Types /\ Req[v].port \in Ports
         /\ Req[v].gems \in Seq(Gems) /\ Len(Req[v].gems) \in 1 .. MaxReplicated
         /\ InverseFlowType(Req[v].type) \in Types
         /\ v # None
BY FlowAssumption DEF Subs, Ports, Types, InverseFlowType

LEMMA NoCallType == NoCall \in Calls /\ NoCall.ptr = None /\ NoCall.op = "none"
<1>1. 1 \in 1 .. MaxReplicated  BY FlowAssumption
<1>2. <<>> \in Seq(FlowIds)  OBVIOUS
<1> QED  BY <1>1, <1>2 DEF NoCall, Calls

LEMMA SetIdx ==
  ASSUME NEW c \in Calls, NEW n \in 1 .. MaxReplicated
  PROVE  /\ [c EXCEPT !.idx = n] \in Calls
         /\ [c EXCEPT !.idx = n].idx = n /\ [c EXCEPT !.idx = n].flow = c.flow
         /\ [c EXCEPT !.idx = n].op = c.op /\ [c EXCEPT !.idx = n].ids = c.ids
         /\ [c EXCEPT !.idx = n].ptr = c.ptr /\ [c EXCEPT !.idx = n].sym = c.sym
         /\ [c EXCEPT !.idx = n].alone = c.alone
BY DEF Calls

LEMMA SetCur ==
  ASSUME NEW c \in Calls, NEW p \in Params
  PROVE  /\ [c EXCEPT !.cur = p] \in Calls
         /\ [c EXCEPT !.cur = p].idx = c.idx /\ [c EXCEPT !.cur = p].flow = c.flow
         /\ [c EXCEPT !.cur = p].op = c.op /\ [c EXCEPT !.cur = p].ids = c.ids
         /\ [c EXCEPT !.cur = p].ptr = c.ptr /\ [c EXCEPT !.cur = p].sym = c.sym
         /\ [c EXCEPT !.cur = p].alone = c.alone
BY DEF Calls

LEMMA SetPtr ==
  ASSUME NEW c \in Calls, NEW v \in Flows \cup {None}
  PROVE  /\ [c EXCEPT !.ptr = v] \in Calls
         /\ [c EXCEPT !.ptr = v].idx = c.idx /\ [c EXCEPT !.ptr = v].flow = c.flow
         /\ [c EXCEPT !.ptr = v].op = c.op /\ [c EXCEPT !.ptr = v].ids = c.ids
         /\ [c EXCEPT !.ptr = v].ptr = v /\ [c EXCEPT !.ptr = v].sym = c.sym
         /\ [c EXCEPT !.ptr = v].alone = c.alone
BY DEF Calls

LEMMA SetSym ==
  ASSUME NEW c \in Calls, NEW v \in Flows \cup {None}
  PROVE  /\ [c EXCEPT !.sym = v] \in Calls
         /\ [c EXCEPT !.sym = v].idx = c.idx /\ [c EXCEPT !.sym = v].flow = c.flow
         /\ [c EXCEPT !.sym = v].op = c.op /\ [c EXCEPT !.sym = v].ids = c.ids
         /\ [c EXCEPT !.sym = v].ptr = c.ptr /\ [c EXCEPT !.sym = v].sym = v
         /\ [c EXCEPT !.sym = v].alone = c.alone
BY DEF Calls

LEMMA SetIds ==
  ASSUME NEW c \in Calls, NEW s \in Seq(FlowIds)
  PROVE  /\ [c EXCEPT !.ids = s] \in Calls
         /\ [c EXCEPT !.ids = s].idx = c.idx /\ [c EXCEPT !.ids = s].flow = c.flow
         /\ [c EXCEPT !.ids = s].op = c.op /\ [c EXCEPT !.ids = s].ids = s
         /\ [c EXCEPT !.ids = s].ptr = c.ptr /\ [c EXCEPT !.ids = s].sym = c.sym
         /\ [c EXCEPT !.ids = s].alone = c.alone
BY DEF Calls

(* A call as the state has it.                                             *)
LEMMA LocalFacts ==
  ASSUME TypeInv, NEW t \in Threads
  PROVE  /\ me[t] \in Calls /\ pc[t] \in PCs /\ pc \in [Threads -> PCs]
         /\ me \in [Threads -> Calls]
         /\ me[t].idx \in 1 .. MaxReplicated /\ me[t].ids \in Seq(FlowIds)
         /\ me[t].sym \in Flows \cup {None} /\ me[t].ptr \in Flows \cup {None}
         /\ me[t].cur \in Params \cup {NoParam} /\ me[t].cur.id \in FlowIds
         /\ MaxReplicated \in Nat
<1>1. 0 \in FlowIds  BY FlowAssumption DEF FlowIds
<1>2. me[t] \in Calls /\ pc[t] \in PCs /\ pc \in [Threads -> PCs] /\ me \in [Threads -> Calls]
  BY DEF TypeInv, TypeOK, Calls
<1>3. me[t].cur.id \in FlowIds  BY <1>1, <1>2 DEF Calls, Params, NoParam
<1> QED  BY <1>2, <1>3, FlowAssumption DEF Calls

LEMMA ElementType ==
  ASSUME NEW S, NEW s \in Seq(S), NEW i \in DOMAIN s
  PROVE  s[i] \in S
OBVIOUS

(* What is read through a pointer is at least of the right type.           *)
LEMMA ParamType ==
  ASSUME TypeInv, NEW t \in Threads, Busy(t), NEW i \in 1 .. MaxReplicated,
         me[t].op = "add" => i <= Need(t)
  PROVE  Pointee(t, i) \subseteq Params /\ Param(t, i) \subseteq Params
<1>1. Pointee(t, i) \subseteq Params
  <2>1. CASE me[t].ptr # None /\ i \in DOMAIN cache[me[t].ptr]
    <3>1. cache[me[t].ptr] \in Seq(Params)  BY <2>1, LocalFacts DEF TypeInv, TypeOK
    <3>2. cache[me[t].ptr][i] \in Params  BY <2>1, <3>1, ElementType
    <3> QED  BY <2>1, <3>2 DEF Pointee
  <2>2. CASE ~(me[t].ptr # None /\ i \in DOMAIN cache[me[t].ptr])
    BY <2>2 DEF Pointee
  <2> QED  BY <2>1, <2>2
<1>2. ASSUME me[t].op = "add", ~Symmetric(t)
      PROVE  [id |-> me[t].ids[i], gem |-> R(t).gems[i]] \in Params
  <2>1. me[t].flow \in Flows /\ Len(me[t].ids) = Len(R(t).gems) /\ i <= Len(R(t).gems)
    BY <1>2 DEF TypeInv, RunsAt, Busy, Symmetric, R, Need
  <2>2. R(t).gems \in Seq(Gems) /\ me[t].ids \in Seq(FlowIds)  BY <2>1, ReqFacts, LocalFacts DEF R
  <2>3. i \in 1 .. Len(R(t).gems)  BY <2>1, <2>2
  <2>4. R(t).gems[i] \in Gems /\ me[t].ids[i] \in FlowIds  BY <2>1, <2>2, <2>3
  <2> QED  BY <2>4 DEF Params
<1> QED  BY <1>1, <1>2 DEF Param

-----------------------------------------------------------------------------
(***************************************************************************)
(* How a step of a call moves its thread: the call goes on, perhaps with a *)
(* new pointer, or returns.                                                *)
(***************************************************************************)
Moves(t, p, c) == pc' = [pc EXCEPT ![t] = p] /\ me' = [me EXCEPT ![t] = c]

Same(t, c) == c.flow = me[t].flow /\ c.op = me[t].op /\ c.alone = me[t].alone

KeepsPointers(t, p, c) ==
  /\ c.ptr = me[t].ptr /\ c.sym = me[t].sym
  /\ c.ids = me[t].ids \/ c.ids # <<>>
  /\ p \in AtFlow => pc[t] \in AtFlow \/ (c.op = "add" /\ c.ids # <<>>)

LooksUp(t, c) ==
  /\ c.ptr = me[t].ptr
  /\ c.sym = symmap[<<R(t).sub, InverseFlowType(R(t).type)>>]

Points(t, c) ==
  /\ c.sym = me[t].sym
  /\ c.ptr \in {me[t].sym, me[t].flow} /\ c.ptr \in Flows /\ Cached(c.ptr)

GoesOn(t, p, c) ==
  /\ Same(t, c) /\ p # "idle" /\ RunsAt(p, c)
  /\ \/ KeepsPointers(t, p, c)
     \/ p = "check" /\ LooksUp(t, c)
     \/ Points(t, c)

Step(t) ==
  \E p \in PCs, c \in Calls : Moves(t, p, c) /\ (GoesOn(t, p, c) \/ (p = "idle" /\ c = NoCall))

LEMMA ReturnSteps ==
  ASSUME TypeInv, NEW t \in Threads, Return(t)
  PROVE  Step(t)
BY NoCallType DEF Return, Step, Moves, PCs

(* A step that changes no local.                                           *)
LEMMA PlainSteps ==
  ASSUME TypeInv, NEW t \in Threads, Busy(t), NEW p \in OpPCs(me[t].op),
         pc' = [pc EXCEPT ![t] = p], UNCHANGED me, p = "deref" => me[t].sym # None,
         p = "free" /\ me[t].op = "add" /\ R(t).replicate => ~Symmetric(t),
         p \in AtFlow => pc[t] \in AtFlow
  PROVE  Step(t)
<1>1. me' = [me EXCEPT ![t] = me[t]] /\ me[t] \in Calls  BY LocalFacts
<1>2. p \in PCs /\ p # "idle"  BY DEF OpPCs, PCs, Undoing
<1>3. RunsAt(p, me[t])  BY DEF TypeInv, RunsAt, Busy, R, Symmetric
<1> QED  BY <1>1, <1>2, <1>3 DEF Step, Moves, GoesOn, Same, KeepsPointers

(* A step to another device flow of the call.                              *)
LEMMA IndexSteps ==
  ASSUME TypeInv, NEW t \in Threads, Busy(t), NEW p \in OpPCs(me[t].op),
         NEW n \in 1 .. MaxReplicated, me[t].op = "add" => n <= Need(t),
         p # "deref", p = "free" => pc[t] = "free",
         pc' = [pc EXCEPT ![t] = p], me' = [me EXCEPT ![t].idx = n],
         p \in AtFlow => pc[t] \in AtFlow
  PROVE  Step(t)
<1> DEFINE c == [me[t] EXCEPT !.idx = n]
<1>0. me[t] \in Calls  BY LocalFacts
<1>1. me' = [me EXCEPT ![t] = c] /\ c \in Calls  BY <1>0, LocalFacts, SetIdx
<1>2. p \in PCs /\ p # "idle"  BY DEF OpPCs, PCs, Undoing
<1>3. RunsAt(p, c)  BY <1>0, SetIdx DEF TypeInv, RunsAt, Busy, Need, R
<1>4. Same(t, c) /\ KeepsPointers(t, p, c)  BY <1>0, SetIdx DEF Same, KeepsPointers
<1> QED  BY <1>1, <1>2, <1>3, <1>4 DEF Step, Moves, GoesOn

LEMMA UndoSteps ==
  ASSUME TypeInv, NEW t \in Threads, pc[t] \in {"rmaps", "rbal", "bal"}, me[t].op = "add",
         \/ me[t].idx > 1 /\ pc' = [pc EXCEPT ![t] = "rmaps"] /\ me' = [me EXCEPT ![t].idx = @ - 1]
         \/ Return(t)
         \/ ~(Symmetric(t) /\ R(t).replicate) /\ pc' = [pc EXCEPT ![t] = "free"] /\ UNCHANGED me
  PROVE  Step(t)
<1>0. Busy(t) /\ {"rmaps", "free"} \subseteq OpPCs(me[t].op) /\ pc[t] \in AtFlow
  BY DEF Busy, OpPCs, Undoing, AtFlow
<1>1. CASE me[t].idx > 1 /\ pc' = [pc EXCEPT ![t] = "rmaps"] /\ me' = [me EXCEPT ![t].idx = @ - 1]
  <2>1. me[t].idx - 1 \in 1 .. MaxReplicated /\ me[t].idx - 1 <= Need(t)
    <3>1. me[t].idx <= Len(Req[me[t].flow].gems) /\ me[t].flow \in Flows
      BY <1>0 DEF TypeInv, RunsAt, Busy
    <3>2. Len(Req[me[t].flow].gems) \in Nat  BY <3>1, ReqFacts
    <3> QED  BY <1>1, <3>1, <3>2, LocalFacts DEF Need, R
  <2>2. me' = [me EXCEPT ![t].idx = me[t].idx - 1]  BY <1>1, LocalFacts
  <2> QED  BY <1>0, <1>1, <2>1, <2>2, IndexSteps
<1>2. CASE Return(t)  BY <1>2, ReturnSteps
<1>3. CASE ~(Symmetric(t) /\ R(t).replicate) /\ pc' = [pc EXCEPT ![t] = "free"] /\ UNCHANGED me
  BY <1>0, <1>3, PlainSteps
<1> QED  BY <1>1, <1>2, <1>3

LEMMA RemovalSteps ==
  ASSUME TypeInv, NEW t \in Threads, pc[t] \in {"rbal", "free"}, me[t].op = "remove", NextRemoval(t)
  PROVE  Step(t)
<1>0. Busy(t) /\ {"rmaps", "uncache"} \subseteq OpPCs(me[t].op) /\ pc[t] \in AtFlow
  BY DEF Busy, OpPCs, Undoing, AtFlow
<1>1. PICK more \in More(t) :
        /\ pc' = [pc EXCEPT ![t] = IF more THEN "rmaps" ELSE "uncache"]
        /\ me' = IF more THEN [me EXCEPT ![t].idx = @ + 1] ELSE me
  BY DEF NextRemoval
<1>2. CASE more
  <2>1. me[t].idx < MaxReplicated
    <3>1. CASE me[t].ptr # None
      <4>1. me[t].ptr \in Flows /\ me[t].idx < Len(cache[me[t].ptr])
        BY <1>1, <1>2, <3>1, LocalFacts DEF More
      <4>2. Len(cache[me[t].ptr]) \in Nat /\ Len(cache[me[t].ptr]) <= MaxReplicated
        BY <4>1 DEF TypeInv, TypeOK
      <4> QED  BY <4>1, <4>2, LocalFacts
    <3>2. CASE me[t].ptr = None  BY <1>1, <1>2, <3>2 DEF More
    <3> QED  BY <3>1, <3>2
  <2>2. me[t].idx + 1 \in 1 .. MaxReplicated  BY <2>1, LocalFacts
  <2>3. me' = [me EXCEPT ![t].idx = me[t].idx + 1]  BY <1>1, <1>2, LocalFacts
  <2> QED  BY <1>0, <1>1, <1>2, <2>2, <2>3, IndexSteps
<1>3. CASE ~more
  <2>1. pc' = [pc EXCEPT ![t] = "uncache"] /\ UNCHANGED me  BY <1>1, <1>3
  <2> QED  BY <1>0, <2>1, PlainSteps
<1> QED  BY <1>2, <1>3

-----------------------------------------------------------------------------
(* Every action of a call but the one that erases an entry is such a step. *)

LEMMA AllocSteps ==
  ASSUME TypeInv, NEW t \in Threads, Alloc(t)
  PROVE  Step(t)
<1>0. Busy(t) /\ me[t].op = "add" /\ me[t].flow \in Flows /\ me[t] \in Calls
  BY LocalFacts DEF Alloc, Go, Busy, TypeInv, RunsAt, OpPCs, Undoing
<1>1. PICK seq \in [1 .. Need(t) -> FirstFree(Need(t))] : me' = [me EXCEPT ![t].ids = seq]
  BY DEF Alloc
<1>2. Need(t) \in 1 .. MaxReplicated /\ Need(t) \in Nat  BY <1>0, ReqFacts DEF Need, R
<1>3. seq \in Seq(FlowIds) /\ Len(seq) = Need(t) /\ seq # <<>>
  <2>1. FirstFree(Need(t)) \subseteq FlowIds  BY DEF FirstFree
  <2>2. seq \in [1 .. Need(t) -> FlowIds]  BY <2>1
  <2> QED  BY <1>2, <2>2
<1> DEFINE c == [me[t] EXCEPT !.ids = seq]
<1>4. c \in Calls /\ me' = [me EXCEPT ![t] = c]  BY <1>0, <1>1, <1>3, SetIds, LocalFacts
<1>5. RunsAt("add", c)
  BY <1>0, <1>3, SetIds DEF TypeInv, RunsAt, Busy, Need, R, OpPCs
<1>6. Same(t, c) /\ KeepsPointers(t, "add", c)
  BY <1>0, <1>3, SetIds DEF Same, KeepsPointers
<1>7. pc' = [pc EXCEPT ![t] = "add"] /\ "add" \in PCs  BY DEF Alloc, Go, PCs
<1> QED  BY <1>4, <1>5, <1>6, <1>7 DEF Step, Moves, GoesOn

(* The choice of the device flow whose maps are changed.                   *)
LEMMA CurSteps ==
  ASSUME TypeInv, NEW t \in Threads, Busy(t), NEW p \in OpPCs(me[t].op), NEW q \in Params,
         p \notin {"deref", "free"}, pc' = [pc EXCEPT ![t] = p], me' = [me EXCEPT ![t].cur = q], pc[t] \in AtFlow
  PROVE  Step(t)
<1> DEFINE c == [me[t] EXCEPT !.cur = q]
<1>0. me[t] \in Calls  BY LocalFacts
<1>1. me' = [me EXCEPT ![t] = c] /\ c \in Calls  BY <1>0, LocalFacts, SetCur
<1>2. p \in PCs /\ p # "idle"  BY DEF OpPCs, PCs, Undoing
<1>3. RunsAt(p, c)  BY <1>0, SetCur DEF TypeInv, RunsAt, Busy, Need, R
<1>4. Same(t, c) /\ KeepsPointers(t, p, c)  BY <1>0, SetCur DEF Same, KeepsPointers
<1> QED  BY <1>1, <1>2, <1>3, <1>4 DEF Step, Moves, GoesOn

(* A pointer into the cache is taken.                                      *)
LEMMA PtrSteps ==
  ASSUME TypeInv, NEW t \in Threads, Busy(t), NEW p \in OpPCs(me[t].op),
         NEW v \in Flows, v \in {me[t].sym, me[t].flow}, Cached(v),
         p \notin {"deref", "free"}, pc' = [pc EXCEPT ![t] = p], me' = [me EXCEPT ![t].ptr = v]
  PROVE  Step(t)
<1> DEFINE c == [me[t] EXCEPT !.ptr = v]
<1>0. me[t] \in Calls  BY LocalFacts
<1>1. me' = [me EXCEPT ![t] = c] /\ c \in Calls  BY <1>0, LocalFacts, SetPtr
<1>2. p \in PCs /\ p # "idle"  BY DEF OpPCs, PCs, Undoing
<1>3. RunsAt(p, c)  BY <1>0, SetPtr DEF TypeInv, RunsAt, Busy, Need, R
<1>4. Same(t, c) /\ Points(t, c)  BY <1>0, SetPtr DEF Same, Points
<1> QED  BY <1>1, <1>2, <1>3, <1>4 DEF Step, Moves, GoesOn

LEMMA OpAt ==
  ASSUME TypeInv, NEW t \in Threads
  PROVE  /\ Busy(t) => me[t].flow \in Flows /\ me[t].op \in {"add", "remove"}
         /\ pc[t] \in {"lookup", "symm", "deref", "alloc", "add", "bal", "cache", "link"} =>
              me[t].op = "add"
         /\ pc[t] \in {"get", "uncache", "unlink"} => me[t].op = "remove"
BY DEF TypeInv, RunsAt, Busy, OpPCs, Undoing

LEMMA AddSteps ==
  ASSUME TypeInv, NEW t \in Threads, Add(t)
  PROVE  Step(t)
<1>0. Busy(t) => me[t].flow \in Flows  BY OpAt
<1>1. CASE Lookup(t)
  <2> DEFINE v == symmap[<<R(t).sub, InverseFlowType(R(t).type)>>]
             c == [me[t] EXCEPT !.sym = v]
  <2>1. Busy(t) /\ me[t].op = "add" /\ me[t] \in Calls
    BY <1>1, OpAt, LocalFacts DEF Lookup, Go, Busy
  <2>2. v \in Flows \cup {None}
    <3>1. R(t).sub \in Subs /\ InverseFlowType(R(t).type) \in Types  BY <1>0, <2>1, ReqFacts DEF R
    <3> QED  BY <3>1 DEF TypeInv, TypeOK
  <2>3. pc' = [pc EXCEPT ![t] = "check"] /\ me' = [me EXCEPT ![t] = c] /\ c \in Calls /\ "check" \in PCs
    BY <1>1, <2>1, <2>2, LocalFacts, SetSym DEF Lookup, Go, PCs
  <2>4. RunsAt("check", c) /\ Same(t, c) /\ LooksUp(t, c)
    BY <2>1, <2>2, SetSym DEF TypeInv, RunsAt, Busy, OpPCs, Same, LooksUp
  <2> HIDE DEF c
  <2> QED  BY <2>3, <2>4 DEF Step, Moves, GoesOn
<1>2. CASE AlreadyInstalled(t) \/ AllocInvalid(t)
  BY <1>2, ReturnSteps DEF AlreadyInstalled, AllocInvalid
<1>3. CASE NotInstalled(t)
  BY <1>3, PlainSteps DEF NotInstalled, Go, Busy, OpPCs, AtFlow, Undoing
<1>4. CASE CheckSymmetric(t)
  BY <1>4, PlainSteps, OpAt DEF CheckSymmetric, SymmetricCached, Go, Busy, OpPCs, AtFlow, Undoing
<1>5. CASE Deref(t)
  <2>1. Busy(t) /\ me[t].op = "add" /\ "add" \in OpPCs("add")
    BY <1>5, OpAt DEF Deref, Busy, OpPCs
  <2>2. CASE Cached(me[t].sym)
    <3>1. me[t].sym \in Flows
      BY <1>5, LocalFacts DEF Deref, TypeInv, RunsAt
    <3> QED  BY <1>5, <2>1, <2>2, <3>1, PtrSteps DEF Deref
  <2>3. CASE ~Cached(me[t].sym)  BY <1>5, <2>3, ReturnSteps DEF Deref
  <2> QED  BY <2>2, <2>3
<1>6. CASE Alloc(t)  BY <1>6, AllocSteps
<1>7. CASE AllocSpins(t)
  BY <1>7, PlainSteps, OpAt DEF AllocSpins, Go, Busy, OpPCs, AtFlow, Undoing
<1>8. CASE AddMaps(t)
  <2>1. Busy(t) /\ me[t].op = "add" /\ "bal" \in OpPCs("add") /\ pc[t] \in AtFlow
    BY <1>8, OpAt DEF AddMaps, Go, Busy, OpPCs, AtFlow
  <2>2. me[t].idx \in 1 .. MaxReplicated /\ me[t].idx <= Need(t)
    BY <2>1, LocalFacts DEF TypeInv, RunsAt, Busy, Need, R
  <2>3. PICK q \in Param(t, me[t].idx) : me' = [me EXCEPT ![t].cur = q]
    BY <1>8 DEF AddMaps
  <2>4. q \in Params  BY <2>1, <2>2, <2>3, ParamType
  <2> QED  BY <1>8, <2>1, <2>3, <2>4, CurSteps DEF AddMaps, Go
<1>9. CASE AddSucceeds(t)
  <2>1. Busy(t) /\ me[t].op = "add" /\ {"cache", "add"} \subseteq OpPCs("add") /\ pc[t] \in AtFlow
    BY <1>9, OpAt DEF AddSucceeds, Go, Busy, OpPCs, AtFlow
  <2>2. CASE me[t].idx = Need(t)
    BY <1>9, <2>1, <2>2, PlainSteps DEF AddSucceeds, Go
  <2>3. CASE me[t].idx # Need(t)
    <3>1. Need(t) \in 1 .. MaxReplicated /\ me[t].idx <= Need(t)
      BY <1>0, <2>1, ReqFacts DEF TypeInv, RunsAt, Busy, Need, R
    <3>2. me[t].idx + 1 \in 1 .. MaxReplicated /\ me[t].idx + 1 <= Need(t)
      BY <2>3, <3>1, LocalFacts
    <3>3. me' = [me EXCEPT ![t].idx = me[t].idx + 1] /\ pc' = [pc EXCEPT ![t] = "add"]
      BY <1>9, <2>3, LocalFacts DEF AddSucceeds, Go
    <3> QED  BY <2>1, <3>2, <3>3, IndexSteps
  <2> QED  BY <2>2, <2>3
<1>10. CASE AddFails(t)
  BY <1>10, UndoSteps, OpAt DEF AddFails
<1>11. CASE FreeAfterAdd(t)
  <2>1. Busy(t) /\ me[t].op = "add" /\ pc[t] \in OpPCs(me[t].op) /\ pc[t] = "free" /\ pc[t] \in AtFlow
    BY <1>11 DEF FreeAfterAdd, Busy, OpPCs, AtFlow, Undoing
  <2>2. CASE Return(t)  BY <2>2, ReturnSteps
  <2>3. CASE ~Return(t)
    <3>0. me[t].idx # Need(t)  BY <1>11, <2>3 DEF FreeAfterAdd
    <3>1. /\ me' = [me EXCEPT ![t].idx = me[t].idx + 1]
          /\ pc' = [pc EXCEPT ![t] = pc[t]]
      BY <1>11, <2>3, LocalFacts DEF FreeAfterAdd
    <3>2. Need(t) \in 1 .. MaxReplicated /\ me[t].idx <= Need(t)
      BY <1>0, <2>1, ReqFacts DEF TypeInv, RunsAt, Busy, Need, R
    <3>3. me[t].idx + 1 \in 1 .. MaxReplicated /\ me[t].idx + 1 <= Need(t)
      <4>1. me[t].idx \in 1 .. MaxReplicated /\ MaxReplicated \in Nat  BY LocalFacts
      <4> QED  BY <3>0, <3>2, <4>1
    <3> QED  BY <2>1, <3>1, <3>3, IndexSteps
  <2> QED  BY <2>2, <2>3
<1>12. CASE UpdateCache(t)
  <2>1. Busy(t) /\ me[t].op = "add" /\ "link" \in OpPCs("add") /\ "link" \notin AtFlow
    BY <1>12, OpAt DEF UpdateCache, Busy, OpPCs, AtFlow, Undoing
  <2> QED  BY <1>12, <2>1, PlainSteps, ReturnSteps DEF UpdateCache
<1>13. CASE Link(t)  BY <1>13, ReturnSteps DEF Link
<1> QED
  BY <1>1, <1>2, <1>3, <1>4, <1>5, <1>6, <1>7, <1>8, <1>9, <1>10, <1>11, <1>12, <1>13 DEF Add

LEMMA RemoveSteps ==
  ASSUME TypeInv, NEW t \in Threads, Remove(t), ~Uncache(t)
  PROVE  Step(t)
<1>0. Busy(t) => me[t].flow \in Flows /\ me[t].op \in {"add", "remove"}  BY OpAt
<1>1. CASE NotFound(t)  BY <1>1, ReturnSteps DEF NotFound
<1>2. CASE Found(t)
  BY <1>2, PlainSteps DEF Found, Go, Busy, OpPCs, AtFlow, Undoing
<1>3. CASE GetDeviceFlow(t)
  <2>1. Busy(t) /\ me[t].op = "remove" /\ "rmaps" \in OpPCs("remove")
    BY <1>3, OpAt DEF GetDeviceFlow, Busy, OpPCs, Undoing
  <2>2. CASE Cached(me[t].flow)
    BY <1>0, <1>3, <2>1, <2>2, PtrSteps DEF GetDeviceFlow
  <2> QED  BY <1>3, <2>2, ReturnSteps DEF GetDeviceFlow
<1>4. ASSUME pc[t] \in {"rmaps", "rbal"}, Removed(t)  PROVE Step(t)
  <2>1. Busy(t) /\ {"free"} \subseteq OpPCs(me[t].op) /\ pc[t] \in AtFlow
    BY <1>4 DEF Busy, OpPCs, Undoing, AtFlow
  <2>2. CASE me[t].op = "remove"
    BY <1>4, <2>1, <2>2, PlainSteps DEF Removed
  <2>3. CASE me[t].op = "add"
    BY <1>4, <2>3, UndoSteps DEF Removed, NextUndo
  <2> QED  BY <1>0, <2>1, <2>2, <2>3
<1>5. CASE RemoveAcl(t) \/ BalRemoves(t)
  BY <1>4, <1>5 DEF RemoveAcl, BalRemoves
<1>6. CASE RemoveMaps(t)
  <2>1. Busy(t) /\ "rbal" \in OpPCs(me[t].op) /\ pc[t] \in AtFlow
    BY <1>6 DEF RemoveMaps, Go, Busy, OpPCs, AtFlow, Undoing
  <2>2. me[t].idx \in 1 .. MaxReplicated /\ (me[t].op = "add" => me[t].idx <= Need(t))
    BY <2>1, LocalFacts DEF TypeInv, RunsAt, Busy, Need, R
  <2>3. PICK q \in Param(t, me[t].idx) : me' = [me EXCEPT ![t].cur = q]
    BY <1>6 DEF RemoveMaps
  <2>4. q \in Params  BY <2>1, <2>2, <2>3, ParamType
  <2> QED  BY <1>6, <2>1, <2>3, <2>4, CurSteps DEF RemoveMaps, Go
<1>7. CASE BalRefuses(t)
  <2>1. pc[t] = "rbal" /\ Busy(t)  BY <1>7 DEF BalRefuses, Busy
  <2>2. CASE me[t].op = "remove"
    BY <1>7, <2>1, <2>2, RemovalSteps DEF BalRefuses, NotRemoved
  <2>3. CASE me[t].op = "add"
    BY <1>7, <2>1, <2>3, UndoSteps DEF BalRefuses, NotRemoved, NextUndo
  <2> QED  BY <1>0, <2>1, <2>2, <2>3
<1>8. CASE FreeAfterRemove(t)
  BY <1>8, RemovalSteps DEF FreeAfterRemove
<1>9. CASE Unlink(t)  BY <1>9, ReturnSteps DEF Unlink
<1> QED  BY <1>1, <1>2, <1>3, <1>5, <1>6, <1>7, <1>8, <1>9 DEF Remove

-----------------------------------------------------------------------------
(* The types.                                                              *)

Data ==
  /\ pool \subseteq FlowIds
  /\ cache \in [Flows -> Seq(Params)] /\ \A v \in Flows : Len(cache[v]) <= MaxReplicated
  /\ symmap \in [Subs \X Types -> Flows \cup {None}]
  /\ idPort \in [FlowIds -> Ports]
  /\ portFlows \in [Ports -> SUBSET FlowIds]
  /\ idGem \in [FlowIds -> Gems \cup {None}]
  /\ acl \subseteq Keys /\ bal \subseteq Keys
  /\ tainted \subseteq FlowIds

LEMMA TypeParts == TypeInv <=> /\ Data /\ pc \in [Threads -> PCs] /\ me \in [Threads -> Calls]
                               /\ \A t \in Threads : RunsAt(pc[t], me[t])
BY DEF TypeInv, TypeOK, Data, Calls

LEMMA StepType ==
  ASSUME TypeInv, NEW t \in Threads, Step(t), Data'
  PROVE  TypeInv'
<1>1. PICK p \in PCs, c \in Calls : Moves(t, p, c) /\ (GoesOn(t, p, c) \/ (p = "idle" /\ c = NoCall))
  BY DEF Step
<1>2. RunsAt(p, c)  BY <1>1 DEF GoesOn, RunsAt
<1>3. /\ pc \in [Threads -> PCs] /\ me \in [Threads -> Calls]
      /\ \A u \in Threads : RunsAt(pc[u], me[u])
  BY TypeParts
<1>4. pc' \in [Threads -> PCs] /\ me' \in [Threads -> Calls]  BY <1>1, <1>3 DEF Moves
<1>5. \A u \in Threads : RunsAt(pc'[u], me'[u])
  <2>1. SUFFICES ASSUME NEW u \in Threads  PROVE RunsAt(pc'[u], me'[u])
    OBVIOUS
  <2>2. CASE u = t
    <3>1. pc'[u] = p /\ me'[u] = c  BY <1>1, <1>3, <2>2 DEF Moves
    <3> QED  BY <1>2, <3>1
  <2>3. CASE u # t
    <3>1. pc'[u] = pc[u] /\ me'[u] = me[u]  BY <1>1, <1>3, <2>3 DEF Moves
    <3> QED  BY <1>3, <3>1
  <2> QED  BY <2>2, <2>3
<1>6. \A u \in Threads : RunsAt(pc[u], me[u])'  BY <1>5 DEF RunsAt
<1> QED  BY <1>4, <1>6 DEF TypeInv, TypeOK, Data, Calls

(* The data of a thread's flow.                                            *)
LEMMA FlowFacts ==
  ASSUME TypeInv, NEW t \in Threads, Busy(t)
  PROVE  /\ R(t).type \in Types /\ R(t).sub \in Subs /\ R(t).port \in Ports
         /\ \A f \in FlowIds : Key(t, f) \in Keys
         /\ Key(t, me[t].cur.id) \in Keys
         /\ Need(t) \in 1 .. MaxReplicated /\ Need(t) \in Nat
<1>1. me[t].flow \in Flows  BY OpAt
<1> QED  BY <1>1, ReqFacts, LocalFacts, FlowAssumption DEF R, Key, Keys, Need

LEMMA MapsType ==
  ASSUME TypeInv, NEW t \in Threads, AddMaps(t) \/ RemoveMaps(t)
  PROVE  Data'
<1>0. Busy(t)  BY DEF AddMaps, RemoveMaps, Go, Busy
<1>1. me[t].idx \in 1 .. MaxReplicated /\ (me[t].op = "add" => me[t].idx <= Need(t))
  BY <1>0, LocalFacts DEF TypeInv, RunsAt, Busy, Need, R
<1>2. Param(t, me[t].idx) \subseteq Params  BY <1>0, <1>1, ParamType
<1>3. PICK q \in Param(t, me[t].idx) :
        /\ portFlows' = portFlows \/ (\E w \in Ports : portFlows' = [portFlows EXCEPT ![w] = @ \cup {q.id}])
                                  \/ \E w \in Ports : portFlows' = [portFlows EXCEPT ![w] = @ \ {q.id}]
        /\ idPort' = idPort \/ \E w \in Ports : idPort' = [idPort EXCEPT ![q.id] = w]
        /\ idGem' = idGem \/ \E g \in Gems \cup {None} : idGem' = [idGem EXCEPT ![q.id] = g]
  <2>0. R(t).port \in Ports /\ NoPort \in Ports  BY <1>0, FlowFacts DEF Ports
  <2>1. \A q \in Params : q.id \in FlowIds /\ q.gem \in Gems /\ idPort[q.id] \in Ports
    BY DEF Params, TypeInv, TypeOK
  <2>2. CASE AddMaps(t)
    <3>1. PICK q \in Param(t, me[t].idx) :
            IF R(t).kind # "datapath" THEN UNCHANGED maps
            ELSE IF R(t).type = "downstream"
            THEN /\ portFlows' = [portFlows EXCEPT ![R(t).port] = @ \cup {q.id}]
                 /\ idGem' = [idGem EXCEPT ![q.id] = q.gem]
                 /\ UNCHANGED idPort
            ELSE /\ idPort' = [idPort EXCEPT ![q.id] = R(t).port]
                 /\ UNCHANGED <<portFlows, idGem>>
      BY <2>2 DEF AddMaps
    <3>2. q \in Params  BY <1>2, <3>1
    <3> QED  BY <2>0, <2>1, <3>1, <3>2 DEF maps
  <2>3. CASE RemoveMaps(t)
    <3>1. PICK q \in Param(t, me[t].idx) :
            IF R(t).type = "downstream"
            THEN /\ idGem' = [idGem EXCEPT ![q.id] = None]
                 /\ portFlows' = [portFlows EXCEPT ![idPort[q.id]] = @ \ {q.id}]
                 /\ UNCHANGED idPort
            ELSE /\ idPort' = [idPort EXCEPT ![q.id] = NoPort]
                 /\ UNCHANGED <<portFlows, idGem>>
      BY <2>3 DEF RemoveMaps
    <3>2. q \in Params  BY <1>2, <3>1
    <3> QED  BY <2>0, <2>1, <3>1, <3>2
  <2> QED  BY <2>2, <2>3
<1>4. q.id \in FlowIds  BY <1>2, <1>3 DEF Params
<1>5. UNCHANGED <<pool, cache, symmap, acl, bal, tainted>>  BY DEF AddMaps, RemoveMaps
<1>6. idPort' \in [FlowIds -> Ports]  BY <1>3 DEF TypeInv, TypeOK
<1>7. idGem' \in [FlowIds -> Gems \cup {None}]  BY <1>3 DEF TypeInv, TypeOK
<1>8. portFlows' \in [Ports -> SUBSET FlowIds]
  <2>1. portFlows \in [Ports -> SUBSET FlowIds]  BY DEF TypeInv, TypeOK
  <2>2. ASSUME NEW w \in Ports, portFlows' = [portFlows EXCEPT ![w] = @ \cup {q.id}]
        PROVE  portFlows' \in [Ports -> SUBSET FlowIds]
    BY <1>4, <2>1, <2>2
  <2>3. ASSUME NEW w \in Ports, portFlows' = [portFlows EXCEPT ![w] = @ \ {q.id}]
        PROVE  portFlows' \in [Ports -> SUBSET FlowIds]
    BY <2>1, <2>3
  <2> QED  BY <1>3, <2>1, <2>2, <2>3
<1> QED  BY <1>5, <1>6, <1>7, <1>8 DEF Data, TypeInv, TypeOK

LEMMA CacheType ==
  ASSUME TypeInv, NEW t \in Threads, UpdateCache(t)
  PROVE  Data'
<1>0. Busy(t) /\ me[t].op = "add" /\ me[t].flow \in Flows  BY OpAt DEF UpdateCache, Busy
<1>1. PICK ps \in [1 .. Need(t) -> UNION {Param(t, i) : i \in 1 .. Need(t)}] :
        /\ \A i \in 1 .. Need(t) : ps[i] \in Param(t, i)
        /\ cache' = [cache EXCEPT ![me[t].flow] = ps]
  BY DEF UpdateCache
<1>2. Need(t) \in Nat /\ Need(t) <= MaxReplicated /\ 1 .. Need(t) \subseteq 1 .. MaxReplicated
  BY <1>0, FlowFacts, FlowAssumption
<1>3. \A i \in 1 .. Need(t) : Param(t, i) \subseteq Params
  <2>1. \A i \in 1 .. Need(t) : i \in 1 .. MaxReplicated /\ i <= Need(t)  BY <1>2
  <2> QED  BY <1>0, <2>1, ParamType
<1>4. ps \in [1 .. Need(t) -> Params]  BY <1>1, <1>3
<1>5. ps \in Seq(Params) /\ Len(ps) = Need(t)  BY <1>2, <1>4
<1>6. cache' \in [Flows -> Seq(Params)] /\ \A v \in Flows : Len(cache'[v]) <= MaxReplicated
  BY <1>0, <1>1, <1>2, <1>5 DEF TypeInv, TypeOK
<1>7. UNCHANGED <<pool, symmap, maps, acl, bal, tainted>>  BY DEF UpdateCache
<1> QED  BY <1>6, <1>7 DEF Data, TypeInv, TypeOK, maps

(* A flow id is given back.                                                *)
LEMMA ReleaseType ==
  ASSUME TypeInv, NEW f \in FlowIds, NEW v \in Flows, Release(f, v),
         UNCHANGED <<cache, symmap, maps, acl, bal>>
  PROVE  Data'
BY DEF Release, Data, TypeInv, TypeOK, maps

LEMMA DataType ==
  ASSUME TypeInv, NEW t \in Threads, Add(t) \/ Remove(t)
  PROVE  Data'
<1>0. Data /\ (Busy(t) => me[t].flow \in Flows)  BY TypeParts, OpAt
<1>1. CASE \/ Lookup(t) \/ AlreadyInstalled(t) \/ NotInstalled(t) \/ CheckSymmetric(t) \/ Deref(t)
           \/ NotFound(t) \/ Found(t) \/ GetDeviceFlow(t) \/ AddFails(t)
  BY <1>0, <1>1 DEF Lookup, AlreadyInstalled, NotInstalled, CheckSymmetric, Deref, NotFound, Found,
     GetDeviceFlow, AddFails, Data, maps
<1>2. CASE Alloc(t) \/ AllocInvalid(t) \/ AllocSpins(t)
  <2>1. 0 \in FlowIds  BY FlowAssumption DEF FlowIds
  <2>2. pool' \subseteq FlowIds
    BY <1>0, <1>2, <2>1 DEF Alloc, AllocInvalid, AllocSpins, FirstFree, Data
  <2>3. UNCHANGED <<cache, symmap, maps, acl, bal, tainted>>
    BY <1>2 DEF Alloc, AllocInvalid, AllocSpins
  <2> QED  BY <1>0, <2>2, <2>3 DEF Data, maps
<1>3. CASE AddMaps(t) \/ RemoveMaps(t)  BY <1>3, MapsType
<1>4. CASE AddSucceeds(t) \/ RemoveAcl(t) \/ BalRemoves(t)
  <2>1. Key(t, me[t].cur.id) \in Keys
    BY <1>4, FlowFacts DEF AddSucceeds, RemoveAcl, BalRemoves, Go, Busy
  <2>2. acl' \subseteq acl \cup {Key(t, me[t].cur.id)} /\ bal' \subseteq bal \cup {Key(t, me[t].cur.id)}
    BY <1>4 DEF AddSucceeds, RemoveAcl, BalRemoves
  <2>3. UNCHANGED <<pool, cache, symmap, maps, tainted>>
    BY <1>4 DEF AddSucceeds, RemoveAcl, BalRemoves
  <2> QED  BY <1>0, <2>1, <2>2, <2>3 DEF Data, maps
<1>5. CASE FreeAfterAdd(t)
  <2>1. Busy(t) /\ pc[t] = "free" /\ me[t].op = "add"  BY <1>5 DEF FreeAfterAdd, Busy
  <2>2. (IF R(t).replicate THEN me[t].ids[me[t].idx] ELSE me[t].cur.id) \in FlowIds
    <3>1. CASE R(t).replicate
      <4>1. Len(me[t].ids) = Len(Req[me[t].flow].gems) /\ me[t].idx <= Len(Req[me[t].flow].gems)
        BY <2>1, <3>1 DEF TypeInv, RunsAt, R
      <4>2. me[t].idx \in 1 .. MaxReplicated /\ me[t].ids \in Seq(FlowIds)  BY LocalFacts
      <4>3. me[t].idx \in DOMAIN me[t].ids
        <5>1. me[t].idx \in Nat /\ me[t].idx >= 1  BY <4>2, FlowAssumption
        <5> QED  BY <4>1, <4>2, <5>1
      <4> QED  BY <3>1, <4>2, <4>3, ElementType
    <3> QED  BY <3>1, LocalFacts
  <2>3. UNCHANGED <<cache, symmap, maps, acl, bal>>  BY <1>5 DEF FreeAfterAdd
  <2> QED  BY <1>0, <1>5, <2>1, <2>2, <2>3, ReleaseType DEF FreeAfterAdd
<1>6. CASE FreeAfterRemove(t)
  <2>1. Busy(t) /\ me[t].op = "remove"  BY <1>6 DEF FreeAfterRemove, Busy
  <2>2. PICK q \in Pointee(t, me[t].idx) : Release(q.id, me[t].flow)
    BY <1>6 DEF FreeAfterRemove
  <2>3. q.id \in FlowIds
    <3>1. q \in Params  BY <2>1, <2>2, LocalFacts, ParamType
    <3> QED  BY <3>1 DEF Params
  <2>4. UNCHANGED <<cache, symmap, maps, acl, bal>>  BY <1>6 DEF FreeAfterRemove
  <2> QED  BY <1>0, <2>1, <2>2, <2>3, <2>4, ReleaseType
<1>7. CASE BalRefuses(t)
  <2>1. tainted' \subseteq FlowIds  BY <1>0, <1>7, LocalFacts DEF BalRefuses, Data
  <2> QED  BY <1>0, <1>7, <2>1 DEF BalRefuses, Data, maps
<1>8. CASE UpdateCache(t)  BY <1>8, CacheType
<1>9. CASE Uncache(t)
  <2>1. me[t].flow \in Flows  BY <1>0, <1>9 DEF Uncache, Go, Busy
  <2>2. <<>> \in Seq(Params) /\ Len(<<>>) <= MaxReplicated  BY FlowAssumption
  <2>3. cache' \in [Flows -> Seq(Params)] /\ \A v \in Flows : Len(cache'[v]) <= MaxReplicated
    BY <1>0, <1>9, <2>1, <2>2 DEF Uncache, Data
  <2> QED  BY <1>0, <1>9, <2>3 DEF Uncache, Data, maps
<1>10. CASE Link(t) \/ Unlink(t)
  <2>1. Busy(t)  BY <1>10 DEF Link, Unlink, Busy
  <2>2. symmap' \in [Subs \X Types -> Flows \cup {None}]
    BY <1>0, <1>10, <2>1, FlowFacts DEF Link, Unlink, Data
  <2> QED  BY <1>0, <1>10, <2>2 DEF Link, Unlink, Data, maps
<1> QED
  BY <1>1, <1>2, <1>3, <1>4, <1>5, <1>6, <1>7, <1>8, <1>9, <1>10 DEF Add, Remove

(***************************************************************************)
(* What the arrival of a call does to the locals of all threads, but for   *)
(* the history.                                                            *)
(***************************************************************************)
LEMMA CallFacts ==
  ASSUME TypeInv, NEW t \in Threads, NEW v \in Flows, NEW op \in {"add", "remove"}, Call(t, v, op)
  PROVE  /\ pc[t] = "idle" /\ pc'[t] \in {"lookup", "check"} /\ (pc'[t] = "lookup" => op = "add")
         /\ \A u \in Threads \ {t} : pc'[u] = pc[u]
         /\ pc' \in [Threads -> PCs] /\ me' \in [Threads -> Calls]
         /\ me'[t].op = op /\ me'[t].flow = v /\ me'[t].ids = <<>> /\ me'[t].idx = 1
         /\ me'[t].ptr = None /\ me'[t].sym = None
         /\ \A u \in Threads \ {t} :
              /\ me'[u].op = me[u].op /\ me'[u].flow = me[u].flow /\ me'[u].ids = me[u].ids
              /\ me'[u].idx = me[u].idx /\ me'[u].ptr = me[u].ptr /\ me'[u].sym = me[u].sym
         /\ UNCHANGED <<pool, cache, symmap, maps, acl, bal, tainted>>
<1>0. pc \in [Threads -> PCs] /\ me \in [Threads -> Calls]  BY TypeParts
<1>1. /\ pc[t] = "idle" /\ pc' = [pc EXCEPT ![t] = IF op = "add" /\ Req[v].kind = "datapath"
                                                  THEN "lookup" ELSE "check"]
      /\ UNCHANGED <<pool, cache, symmap, maps, acl, bal, tainted>>
  BY DEF Call, Go
<1>2. /\ pc'[t] \in {"lookup", "check"} /\ (pc'[t] = "lookup" => op = "add")
      /\ \A u \in Threads \ {t} : pc'[u] = pc[u]
      /\ pc' \in [Threads -> PCs]
  BY <1>0, <1>1 DEF PCs
<1> DEFINE a == Rivals(t, v) = {}
           c == [NoCall EXCEPT !.op = op, !.flow = v, !.alone = a]
<1>3. me' = [u \in Threads |-> IF u = t THEN c
                               ELSE IF u \in Rivals(t, v) THEN [me[u] EXCEPT !.alone = FALSE]
                               ELSE me[u]]
  BY DEF Call
<1>4. a \in BOOLEAN  OBVIOUS
<1> HIDE DEF a
<1>5. /\ c \in Calls /\ c.op = op /\ c.flow = v /\ c.ids = <<>> /\ c.idx = 1
      /\ c.ptr = None /\ c.sym = None
  <2>1. 1 \in 1 .. MaxReplicated /\ <<>> \in Seq(FlowIds)  BY FlowAssumption
  <2> QED  BY <1>4, <2>1 DEF NoCall, Calls
<1>6. ASSUME NEW u \in Threads
      PROVE  LET d == [me[u] EXCEPT !.alone = FALSE] IN
             /\ d \in Calls /\ d.op = me[u].op /\ d.flow = me[u].flow /\ d.ids = me[u].ids
             /\ d.idx = me[u].idx /\ d.ptr = me[u].ptr /\ d.sym = me[u].sym
  <2>1. me[u] \in Calls /\ FALSE \in BOOLEAN  BY <1>0
  <2> QED  BY <2>1 DEF Calls
<1> HIDE DEF c
<1>7. /\ me' \in [Threads -> Calls] /\ me'[t] = c
      /\ \A u \in Threads \ {t} :
              /\ me'[u].op = me[u].op /\ me'[u].flow = me[u].flow /\ me'[u].ids = me[u].ids
              /\ me'[u].idx = me[u].idx /\ me'[u].ptr = me[u].ptr /\ me'[u].sym = me[u].sym
  BY <1>0, <1>3, <1>5, <1>6
<1> QED  BY <1>1, <1>2, <1>5, <1>7

LEMMA CallType ==
  ASSUME TypeInv, NEW t \in Threads, NEW v \in Flows, NEW op \in {"add", "remove"}, Call(t, v, op)
  PROVE  TypeInv'
<1>1. Data'  BY TypeParts, CallFacts DEF Data, maps
<1>2. pc' \in [Threads -> PCs]  BY CallFacts
<1>3. \A u \in Threads : RunsAt(pc[u], me[u])'
  <2>1. ASSUME NEW u \in Threads \ {t}  PROVE RunsAt(pc[u], me[u])'
    <3>1. pc'[u] = pc[u]  BY CallFacts
    <3>2. RunsAt(pc[u], me[u])  BY DEF TypeInv
    <3> QED  BY <3>1, <3>2, CallFacts DEF RunsAt
  <2>2. RunsAt(pc[t], me[t])'
    <3>1. 1 <= Len(Req[v].gems)  BY ReqFacts, FlowAssumption
    <3>2. pc'[t] \in OpPCs(op)  BY CallFacts DEF OpPCs
    <3> QED  BY <3>1, <3>2, CallFacts DEF RunsAt
  <2> QED  BY <2>1, <2>2
<1>4. me' \in [Threads -> Calls]  BY CallFacts
<1> QED  BY <1>1, <1>2, <1>3, <1>4 DEF TypeInv, TypeOK, Data, Calls

(* An entry is erased: pointers to it are of no use any more.              *)
LEMMA UncacheFacts ==
  ASSUME TypeInv, NEW t \in Threads, Uncache(t)
  PROVE  /\ pc[t] = "uncache" /\ pc' = [pc EXCEPT ![t] = "unlink"] /\ me' \in [Threads -> Calls]
         /\ me[t].flow \in Flows /\ me[t].op = "remove"
         /\ \A u \in Threads :
              /\ me'[u].op = me[u].op /\ me'[u].flow = me[u].flow /\ me'[u].ids = me[u].ids
              /\ me'[u].idx = me[u].idx /\ me'[u].sym = me[u].sym /\ me'[u].alone = me[u].alone
              /\ me'[u].ptr = IF me[u].ptr = me[t].flow THEN None ELSE me[u].ptr
         /\ cache' = [cache EXCEPT ![me[t].flow] = <<>>]
         /\ UNCHANGED <<pool, symmap, maps, acl, bal, tainted>>
<1>1. pc[t] = "uncache" /\ pc' = [pc EXCEPT ![t] = "unlink"]  BY DEF Uncache, Go
<1>2. /\ me' = [u \in Threads |-> me'[u]]
      /\ \A u \in Threads :
           me'[u] = IF me[u].ptr = me[t].flow THEN [me[u] EXCEPT !.ptr = None] ELSE me[u]
  BY DEF Uncache
<1>3. ASSUME NEW u \in Threads
      PROVE  /\ me'[u] \in Calls
             /\ me'[u].op = me[u].op /\ me'[u].flow = me[u].flow /\ me'[u].ids = me[u].ids
             /\ me'[u].idx = me[u].idx /\ me'[u].sym = me[u].sym /\ me'[u].alone = me[u].alone
             /\ me'[u].ptr = IF me[u].ptr = me[t].flow THEN None ELSE me[u].ptr
  <2> DEFINE d == [me[u] EXCEPT !.ptr = None]
  <2>1. me[u] \in Calls  BY LocalFacts
  <2>2. /\ d \in Calls
        /\ d.op = me[u].op /\ d.flow = me[u].flow /\ d.ids = me[u].ids
        /\ d.idx = me[u].idx /\ d.sym = me[u].sym /\ d.ptr = None
    BY <2>1, SetPtr
  <2>3. d.alone = me[u].alone  BY <2>1 DEF Calls
  <2>4. me'[u] = IF me[u].ptr = me[t].flow THEN d ELSE me[u]  BY <1>2
  <2> HIDE DEF d
  <2>5. CASE me[u].ptr = me[t].flow  BY <2>2, <2>3, <2>4, <2>5, Zenon
  <2>6. CASE me[u].ptr # me[t].flow  BY <2>1, <2>4, <2>6, Zenon
  <2> QED  BY <2>5, <2>6
<1>4. me' \in [Threads -> Calls]  BY <1>2, <1>3
<1>5. me[t].flow \in Flows /\ me[t].op = "remove"  BY <1>1, OpAt DEF Busy
<1>6. cache' = [cache EXCEPT ![me[t].flow] = <<>>] /\ UNCHANGED <<pool, symmap, maps, acl, bal, tainted>>
  BY DEF Uncache
<1> QED  BY <1>1, <1>3, <1>4, <1>5, <1>6

LEMMA UncacheType ==
  ASSUME TypeInv, NEW t \in Threads, Uncache(t)
  PROVE  TypeInv'
<1>1. Data'  BY DataType DEF Remove
<1>2. pc' \in [Threads -> PCs]  BY UncacheFacts, LocalFacts DEF PCs
<1>3. \A u \in Threads : RunsAt(pc[u], me[u])'
  <2>1. ASSUME NEW u \in Threads \ {t}  PROVE RunsAt(pc[u], me[u])'
    <3>1. pc'[u] = pc[u]  BY UncacheFacts, LocalFacts
    <3>2. RunsAt(pc[u], me[u])  BY DEF TypeInv
    <3> QED  BY <3>1, <3>2, UncacheFacts DEF RunsAt
  <2>2. RunsAt(pc[t], me[t])'
    <3>1. pc'[t] = "unlink" /\ pc'[t] \in OpPCs("remove")
      BY UncacheFacts, LocalFacts DEF OpPCs
    <3> QED  BY <3>1, UncacheFacts DEF RunsAt
  <2> QED  BY <2>1, <2>2
<1>4. me' \in [Threads -> Calls]  BY UncacheFacts
<1> QED  BY <1>1, <1>2, <1>3, <1>4 DEF TypeInv, TypeOK, Data, Calls

LEMMA InitType == Init => TypeInv
<1> SUFFICES ASSUME Init  PROVE TypeInv
  OBVIOUS
<1>1. /\ pc = [t \in Threads |-> "idle"] /\ me = [t \in Threads |-> NoCall]
      /\ pc \in [Threads -> PCs] /\ me \in [Threads -> Calls]
  BY NoCallType DEF Init, PCs
<1>2. <<>> \in Seq(Params) /\ Len(<<>>) <= MaxReplicated  BY FlowAssumption
<1>3. Data  BY <1>2 DEF Init, Data, Ports
<1>4. \A t \in Threads : RunsAt(pc[t], me[t])  BY <1>1 DEF RunsAt
<1> QED  BY <1>1, <1>3, <1>4, TypeParts

LEMMA NextType == TypeInv /\ [Next]_vars => TypeInv'
<1> SUFFICES ASSUME TypeInv, [Next]_vars  PROVE TypeInv'
  OBVIOUS
<1>1. CASE UNCHANGED vars
  BY <1>1 DEF vars, maps, TypeInv, TypeOK, RunsAt
<1>2. ASSUME NEW t \in Threads, Add(t) \/ Remove(t)  PROVE TypeInv'
  <2>1. CASE Uncache(t)  BY <2>1, UncacheType
  <2>2. CASE ~Uncache(t)  BY <1>2, <2>2, AddSteps, RemoveSteps, DataType, StepType
  <2> QED  BY <2>1, <2>2
<1> QED  BY <1>1, <1>2, CallType DEF Next

(***************************************************************************)
(* The types of the state are invariant, with garbage read through dead    *)
(* pointers, overlapping calls and an exhausted pool.                      *)
(***************************************************************************)
THEOREM TypeCorrect == Spec => []TypeOK
<1>1. TypeInv => TypeOK  BY DEF TypeInv
<1> QED  BY <1>1, InitType, NextType, PTL DEF Spec

-----------------------------------------------------------------------------
(***************************************************************************)
(* Pointers into the cache.  A subscriber's calls only reach the cache     *)
(* entries of its own flows, so an entry can be erased under a call by     *)
(* another call for the same subscriber only.                              *)
(***************************************************************************)
LinksOwn ==
  \A s \in Subs, type \in Types :
    symmap[<<s, type>>] # None => Req[symmap[<<s, type>>]].sub = s

PointsToOwn(p, c) ==
  p # "idle" => /\ c.sym # None => Req[c.sym].sub = Req[c.flow].sub
                /\ c.ptr # None => Req[c.ptr].sub = Req[c.flow].sub

Undisturbed ==
  \A t, u \in Threads : t # u /\ Busy(t) /\ Busy(u) /\ me[t].alone => R(t).sub # R(u).sub

Dependent(p, c) == c.alone /\ p \in AtFlow /\ (c.op = "remove" \/ c.ids = <<>>)

Live == \A t \in Threads : Dependent(pc[t], me[t]) => me[t].ptr # None /\ Cached(me[t].ptr)

AliasInv ==
  /\ LinksOwn
  /\ \A t \in Threads : PointsToOwn(pc[t], me[t])
  /\ Undisturbed
  /\ Live

LEMMA BusySteps ==
  ASSUME NEW t \in Threads, Add(t) \/ Remove(t)
  PROVE  Busy(t)
BY DEF Add, Remove, Busy, Go, Lookup, AlreadyInstalled, NotInstalled, CheckSymmetric, Deref, Alloc,
       AllocInvalid, AllocSpins, AddMaps, AddSucceeds, AddFails, FreeAfterAdd, UpdateCache, Link,
       NotFound, Found, GetDeviceFlow, RemoveAcl, RemoveMaps, BalRemoves, BalRefuses,
       FreeAfterRemove, Uncache, Unlink

LEMMA NotEmpty ==
  ASSUME NEW S, NEW n \in Nat, n >= 1, NEW s \in [1 .. n -> S]
  PROVE  s # <<>>
<1>1. s \in Seq(S) /\ Len(s) = n  OBVIOUS
<1>2. Len(<<>>) = 0  OBVIOUS
<1> QED  BY <1>1, <1>2

(* Only the end of a removal takes an entry out of the cache.              *)
LEMMA CacheSteps ==
  ASSUME TypeInv, NEW t \in Threads, Add(t) \/ Remove(t), ~Uncache(t), NEW v \in Flows, Cached(v)
  PROVE  Cached(v)'
<1>1. CASE UpdateCache(t)
  <2>0. Busy(t) /\ me[t].flow \in Flows  BY <1>1, OpAt DEF UpdateCache, Busy
  <2>1. PICK ps \in [1 .. Need(t) -> UNION {Param(t, i) : i \in 1 .. Need(t)}] :
          cache' = [cache EXCEPT ![me[t].flow] = ps]
    BY <1>1 DEF UpdateCache
  <2>2. Need(t) \in Nat /\ Need(t) >= 1  BY <2>0, FlowFacts, FlowAssumption
  <2>3. ps # <<>>  BY <2>2, NotEmpty
  <2>4. cache \in [Flows -> Seq(Params)]  BY DEF TypeInv, TypeOK
  <2> QED  BY <2>0, <2>1, <2>3, <2>4 DEF Cached
<1>2. CASE ~UpdateCache(t)
  <2>1. UNCHANGED cache
    BY <1>2 DEF Add, Remove, Lookup, AlreadyInstalled, NotInstalled, CheckSymmetric, Deref, Alloc,
                AllocInvalid, AllocSpins, AddMaps, AddSucceeds, AddFails, FreeAfterAdd, Link,
                NotFound, Found, GetDeviceFlow, RemoveAcl, RemoveMaps, BalRemoves, BalRefuses,
                FreeAfterRemove, Unlink
  <2> QED  BY <2>1 DEF Cached
<1> QED  BY <1>1, <1>2

(* A call records or erases the link of its own subscriber.                *)
LEMMA LinkSteps ==
  ASSUME TypeInv, LinksOwn, NEW t \in Threads, Add(t) \/ Remove(t)
  PROVE  LinksOwn'
<1>1. symmap \in [Subs \X Types -> Flows \cup {None}]  BY DEF TypeInv, TypeOK
<1>2. CASE Link(t)
  <2>1. Busy(t) /\ me[t].flow \in Flows  BY <1>2, OpAt DEF Link, Busy
  <2>2. symmap' = [symmap EXCEPT ![<<R(t).sub, R(t).type>>] = me[t].flow]  BY <1>2 DEF Link
  <2> QED  BY <1>1, <2>1, <2>2 DEF LinksOwn, R
<1>3. CASE Unlink(t)
  <2>1. symmap' = [symmap EXCEPT ![<<R(t).sub, R(t).type>>] = None]  BY <1>3 DEF Unlink
  <2> QED  BY <1>1, <2>1 DEF LinksOwn
<1>4. CASE ~Link(t) /\ ~Unlink(t)
  <2>1. UNCHANGED symmap
    BY <1>4 DEF Add, Remove, Lookup, AlreadyInstalled, NotInstalled, CheckSymmetric, Deref, Alloc,
                AllocInvalid, AllocSpins, AddMaps, AddSucceeds, AddFails, FreeAfterAdd, UpdateCache,
                NotFound, Found, GetDeviceFlow, RemoveAcl, RemoveMaps, BalRemoves, BalRefuses,
                FreeAfterRemove, Uncache
  <2> QED  BY <2>1 DEF LinksOwn
<1> QED  BY <1>2, <1>3, <1>4

(***************************************************************************)
(* A step of a call keeps the invariant: what it looks up is its           *)
(* subscriber's, and what it takes a pointer to is in the cache.           *)
(***************************************************************************)
LEMMA StepAlias ==
  ASSUME TypeInv, AliasInv, NEW t \in Threads, Busy(t), Step(t), LinksOwn',
         \A v \in Flows : Cached(v) => Cached(v)'
  PROVE  AliasInv'
<1>0. /\ pc \in [Threads -> PCs] /\ me \in [Threads -> Calls]
      /\ me[t].flow \in Flows /\ me[t] \in Calls
  BY TypeParts, OpAt
<1>1. PICK p \in PCs, c \in Calls : Moves(t, p, c) /\ (GoesOn(t, p, c) \/ (p = "idle" /\ c = NoCall))
  BY DEF Step
<1>2. /\ pc'[t] = p /\ me'[t] = c
      /\ \A u \in Threads \ {t} : pc'[u] = pc[u] /\ me'[u] = me[u]
  BY <1>0, <1>1 DEF Moves
<1>3. p # "idle" => c.flow = me[t].flow /\ c.op = me[t].op /\ c.alone = me[t].alone
  BY <1>1 DEF GoesOn, Same
<1>4. PointsToOwn(p, c)
  <2> SUFFICES ASSUME p # "idle"  PROVE PointsToOwn(p, c)
    BY DEF PointsToOwn
  <2>1. PointsToOwn(pc[t], me[t]) /\ pc[t] # "idle"  BY DEF AliasInv, Busy
  <2>2. CASE KeepsPointers(t, p, c)
    BY <1>3, <2>1, <2>2 DEF KeepsPointers, PointsToOwn
  <2>3. CASE LooksUp(t, c)
    <3>1. R(t).sub \in Subs /\ InverseFlowType(R(t).type) \in Types  BY <1>0, ReqFacts DEF R
    <3>2. c.sym # None => Req[c.sym].sub = R(t).sub
      BY <2>3, <3>1 DEF LooksUp, AliasInv, LinksOwn
    <3> QED  BY <1>3, <2>1, <2>3, <3>2 DEF LooksUp, PointsToOwn, R
  <2>4. CASE Points(t, c)
    <3>1. c.ptr # None  BY <2>4, FlowAssumption DEF Points
    <3> QED  BY <1>3, <2>1, <2>4, <3>1 DEF Points, PointsToOwn
  <2> QED  BY <1>1, <2>2, <2>3, <2>4 DEF GoesOn
<1>5. Dependent(p, c) => c.ptr # None /\ Cached(c.ptr)'
  <2> SUFFICES ASSUME Dependent(p, c)  PROVE c.ptr # None /\ Cached(c.ptr)'
    OBVIOUS
  <2>0. p # "idle" /\ p \in AtFlow /\ p # "check" /\ c.alone /\ (c.op = "remove" \/ c.ids = <<>>)
    BY DEF Dependent, AtFlow, Undoing
  <2>1. CASE KeepsPointers(t, p, c)
    <3>1. pc[t] \in AtFlow /\ (me[t].op = "remove" \/ me[t].ids = <<>>)
      <4>1. c.op = "add" => c.ids = <<>>  BY <2>0
      <4>2. pc[t] \in AtFlow  BY <2>0, <2>1, <4>1 DEF KeepsPointers
      <4>3. c.ids = <<>> => me[t].ids = <<>>  BY <2>1 DEF KeepsPointers
      <4> QED  BY <1>3, <2>0, <4>2, <4>3
    <3>2. me[t].alone  BY <1>3, <2>0
    <3>3. me[t].ptr # None /\ Cached(me[t].ptr)  BY <3>1, <3>2 DEF AliasInv, Live, Dependent
    <3>4. c.ptr = me[t].ptr /\ me[t].ptr \in Flows  BY <2>1, <3>3, LocalFacts DEF KeepsPointers
    <3> QED  BY <3>3, <3>4
  <2>2. CASE Points(t, c)
    <3>1. c.ptr \in Flows /\ Cached(c.ptr)  BY <2>2 DEF Points
    <3> QED  BY <3>1, FlowAssumption
  <2> QED  BY <1>1, <2>0, <2>1, <2>2 DEF GoesOn
<1>6. \A u \in Threads : PointsToOwn(pc[u], me[u])'
  <2>1. ASSUME NEW u \in Threads  PROVE PointsToOwn(pc'[u], me'[u])
    <3>1. PointsToOwn(pc[u], me[u])  BY DEF AliasInv
    <3> QED  BY <1>2, <1>4, <3>1
  <2> QED  BY <2>1 DEF PointsToOwn
<1>7. Live'
  <2>1. ASSUME NEW u \in Threads, Dependent(pc'[u], me'[u])
        PROVE  me'[u].ptr # None /\ cache'[me'[u].ptr] # <<>>
    <3>1. CASE u = t  BY <1>2, <1>5, <2>1, <3>1 DEF Cached
    <3>2. CASE u # t
      <4>1. Dependent(pc[u], me[u]) /\ me'[u] = me[u]  BY <1>2, <2>1, <3>2
      <4>2. me[u].ptr # None /\ Cached(me[u].ptr)  BY <4>1 DEF AliasInv, Live
      <4>3. me[u].ptr \in Flows  BY <4>2, LocalFacts
      <4> QED  BY <4>1, <4>2, <4>3 DEF Cached
    <3> QED  BY <3>1, <3>2
  <2> QED  BY <2>1 DEF Live, Dependent, Cached
<1>8. Undisturbed'
  <2>1. ASSUME NEW u \in Threads, pc'[u] # "idle"
        PROVE  /\ pc[u] # "idle" /\ me'[u].flow = me[u].flow
               /\ me'[u].alone => me[u].alone
    BY <1>2, <1>3, <2>1 DEF Busy
  <2> QED  BY <2>1 DEF AliasInv, Undisturbed, Busy, R
<1> QED  BY <1>6, <1>7, <1>8 DEF AliasInv

(***************************************************************************)
(* An entry is erased.  A call that depends on a pointer and is alone is   *)
(* for another subscriber, and so is its pointer.                          *)
(***************************************************************************)
LEMMA UncacheAlias ==
  ASSUME TypeInv, AliasInv, NEW t \in Threads, Uncache(t)
  PROVE  AliasInv'
<1>0. /\ pc[t] = "uncache" /\ Busy(t) /\ Remove(t) /\ pc \in [Threads -> PCs]
      /\ cache \in [Flows -> Seq(Params)]
  BY UncacheFacts, TypeParts DEF Busy, Remove, Data
<1>1. LinksOwn'  BY <1>0, LinkSteps DEF AliasInv
<1>2. /\ pc'[t] = "unlink"
      /\ \A u \in Threads \ {t} : pc'[u] = pc[u]
      /\ \A u \in Threads : pc'[u] # "idle" <=> pc[u] # "idle"
  BY <1>0, UncacheFacts
<1>3. \A u \in Threads : PointsToOwn(pc[u], me[u])'
  <2>1. ASSUME NEW u \in Threads  PROVE PointsToOwn(pc'[u], me'[u])
    <3>1. PointsToOwn(pc[u], me[u])  BY DEF AliasInv
    <3>2. me'[u].sym = me[u].sym /\ me'[u].flow = me[u].flow /\ me'[u].ptr \in {None, me[u].ptr}
      BY UncacheFacts
    <3> QED  BY <1>2, <3>1, <3>2 DEF PointsToOwn
  <2> QED  BY <2>1 DEF PointsToOwn
<1>4. Undisturbed'
  <2>1. ASSUME NEW u \in Threads
        PROVE  me'[u].flow = me[u].flow /\ (me'[u].alone => me[u].alone)
    BY UncacheFacts, Zenon
  <2> QED  BY <1>2, <2>1 DEF AliasInv, Undisturbed, Busy, R
<1>5. Live'
  <2>1. ASSUME NEW u \in Threads, Dependent(pc'[u], me'[u])
        PROVE  me'[u].ptr # None /\ cache'[me'[u].ptr] # <<>>
    <3>1. u # t  BY <1>2, <2>1 DEF Dependent, AtFlow, Undoing
    <3>2. pc'[u] = pc[u] /\ pc[u] # "idle"  BY <1>2, <2>1, <3>1 DEF Dependent, AtFlow, Undoing
    <3>3. me[u].alone /\ me'[u].op = me[u].op /\ me'[u].ids = me[u].ids
      BY <2>1, UncacheFacts, Zenon DEF Dependent
    <3>4. Dependent(pc[u], me[u])  BY <2>1, <3>2, <3>3 DEF Dependent
    <3>5. me[u].ptr # None /\ Cached(me[u].ptr) /\ me[u].ptr \in Flows
      BY <3>4, LocalFacts DEF AliasInv, Live
    <3>6. Req[me[u].ptr].sub = R(u).sub  BY <3>2, <3>5 DEF AliasInv, PointsToOwn, R
    <3>7. R(u).sub # R(t).sub  BY <1>0, <3>1, <3>2, <3>3 DEF AliasInv, Undisturbed, Busy
    <3>8. me[u].ptr # me[t].flow  BY <3>6, <3>7 DEF R
    <3>9. me'[u].ptr = me[u].ptr /\ cache'[me[u].ptr] = cache[me[u].ptr]
      BY <1>0, <3>5, <3>8, UncacheFacts
    <3> QED  BY <3>5, <3>9 DEF Cached
  <2> QED  BY <2>1 DEF Live, Dependent, Cached
<1> QED  BY <1>1, <1>3, <1>4, <1>5 DEF AliasInv

(* Who is alone once a call has arrived.                                   *)
LEMMA CallAlone ==
  ASSUME TypeInv, NEW t \in Threads, NEW v \in Flows, NEW op \in {"add", "remove"}, Call(t, v, op)
  PROVE  /\ me'[t].alone => Rivals(t, v) = {}
         /\ \A u \in Threads \ {t} : me'[u].alone => me[u].alone /\ u \notin Rivals(t, v)
<1> DEFINE a == Rivals(t, v) = {}
           c == [NoCall EXCEPT !.op = op, !.flow = v, !.alone = a]
<1>1. me' = [u \in Threads |-> IF u = t THEN c
                               ELSE IF u \in Rivals(t, v) THEN [me[u] EXCEPT !.alone = FALSE]
                               ELSE me[u]]
  BY DEF Call
<1>2. me'[t].alone => a
  <2>1. me'[t] = c  BY <1>1
  <2>2. c.alone = a  BY DEF NoCall
  <2> QED  BY <2>1, <2>2
<1>3. ASSUME NEW u \in Threads \ {t}, me'[u].alone
      PROVE  me[u].alone /\ u \notin Rivals(t, v)
  <2>1. CASE u \in Rivals(t, v)
    <3>1. me'[u] = [me[u] EXCEPT !.alone = FALSE] /\ me[u] \in Calls  BY <1>1, <2>1, LocalFacts
    <3>2. me'[u].alone = FALSE  BY <3>1 DEF Calls
    <3> QED  BY <1>3, <3>2
  <2>2. CASE u \notin Rivals(t, v)
    <3>1. me'[u] = me[u]  BY <1>1, <2>2
    <3> QED  BY <1>3, <2>2, <3>1
  <2> QED  BY <2>1, <2>2
<1> QED  BY <1>2, <1>3

LEMMA CallAlias ==
  ASSUME TypeInv, AliasInv, NEW t \in Threads, NEW v \in Flows, NEW op \in {"add", "remove"},
         Call(t, v, op)
  PROVE  AliasInv'
<1>0. /\ pc'[t] \in {"lookup", "check"} /\ me'[t].flow = v /\ me'[t].sym = None /\ me'[t].ptr = None
      /\ \A u \in Threads \ {t} :
           /\ pc'[u] = pc[u] /\ me'[u].op = me[u].op /\ me'[u].flow = me[u].flow
           /\ me'[u].ids = me[u].ids /\ me'[u].ptr = me[u].ptr /\ me'[u].sym = me[u].sym
      /\ UNCHANGED <<cache, symmap>>
  BY CallFacts
<1>1. LinksOwn'  BY <1>0 DEF AliasInv, LinksOwn
<1>2. \A u \in Threads : PointsToOwn(pc[u], me[u])'
  <2>1. ASSUME NEW u \in Threads \ {t}  PROVE PointsToOwn(pc'[u], me'[u])
    <3>1. PointsToOwn(pc[u], me[u])  BY DEF AliasInv
    <3> QED  BY <1>0, <3>1 DEF PointsToOwn
  <2>2. PointsToOwn(pc'[t], me'[t])  BY <1>0 DEF PointsToOwn
  <2> QED  BY <2>1, <2>2 DEF PointsToOwn
<1>3. Undisturbed'
  <2>1. ASSUME NEW u \in Threads, NEW w \in Threads, u # w, pc'[u] # "idle", pc'[w] # "idle",
               me'[u].alone
        PROVE  Req[me'[u].flow].sub # Req[me'[w].flow].sub
    <3>1. CASE u = t
      <4>1. w \notin Rivals(t, v) /\ pc[w] # "idle"  BY <1>0, <2>1, <3>1, CallAlone
      <4> QED  BY <1>0, <2>1, <3>1, <4>1 DEF Rivals, Busy, R
    <3>2. CASE w = t
      <4>1. u \notin Rivals(t, v) /\ pc[u] # "idle"  BY <1>0, <2>1, <3>2, CallAlone
      <4> QED  BY <1>0, <2>1, <3>2, <4>1 DEF Rivals, Busy, R
    <3>3. CASE u # t /\ w # t
      <4>1. me[u].alone  BY <2>1, <3>3, CallAlone
      <4>2. pc[u] # "idle" /\ pc[w] # "idle"  BY <1>0, <2>1, <3>3
      <4>3. R(u).sub # R(w).sub  BY <2>1, <4>1, <4>2 DEF AliasInv, Undisturbed, Busy
      <4> QED  BY <1>0, <3>3, <4>3 DEF R
    <3> QED  BY <3>1, <3>2, <3>3
  <2> QED  BY <2>1 DEF Undisturbed, Busy, R
<1>4. Live'
  <2>1. ASSUME NEW u \in Threads, Dependent(pc'[u], me'[u])
        PROVE  me'[u].ptr # None /\ cache'[me'[u].ptr] # <<>>
    <3>1. u # t  BY <1>0, <2>1 DEF Dependent, AtFlow, Undoing
    <3>2. me[u].alone  BY <2>1, <3>1, CallAlone DEF Dependent
    <3>3. Dependent(pc[u], me[u])  BY <1>0, <2>1, <3>1, <3>2 DEF Dependent
    <3>4. me[u].ptr # None /\ Cached(me[u].ptr)  BY <3>3 DEF AliasInv, Live
    <3> QED  BY <1>0, <3>1, <3>4 DEF Cached
  <2> QED  BY <2>1 DEF Live, Dependent, Cached
<1> QED  BY <1>1, <1>2, <1>3, <1>4 DEF AliasInv

LEMMA InitAlias == Init => AliasInv
<1> SUFFICES ASSUME Init  PROVE AliasInv
  OBVIOUS
<1>1. \A t \in Threads : pc[t] = "idle"  BY DEF Init
<1>2. LinksOwn  BY DEF Init, LinksOwn
<1>3. \A t \in Threads : PointsToOwn(pc[t], me[t])  BY <1>1 DEF PointsToOwn
<1> QED  BY <1>1, <1>2, <1>3 DEF AliasInv, Undisturbed, Live, Dependent, Busy, AtFlow, Undoing

LEMMA NextAlias == TypeInv /\ AliasInv /\ [Next]_vars => AliasInv'
<1> SUFFICES ASSUME TypeInv, AliasInv, [Next]_vars  PROVE AliasInv'
  OBVIOUS
<1>1. CASE UNCHANGED vars
  BY <1>1 DEF vars, AliasInv, LinksOwn, PointsToOwn, Undisturbed, Live, Dependent, Busy, R, Cached
<1>2. ASSUME NEW t \in Threads, Add(t) \/ Remove(t)  PROVE AliasInv'
  <2>1. CASE Uncache(t)  BY <2>1, UncacheAlias
  <2>2. CASE ~Uncache(t)
    <3>1. Step(t) /\ Busy(t)  BY <1>2, <2>2, AddSteps, RemoveSteps, BusySteps
    <3>2. LinksOwn'  BY <1>2, LinkSteps DEF AliasInv
    <3>3. \A v \in Flows : Cached(v) => Cached(v)'  BY <1>2, <2>2, CacheSteps
    <3> QED  BY <3>1, <3>2, <3>3, StepAlias
  <2> QED  BY <2>1, <2>2
<1> QED  BY <1>1, <1>2, CallAlias DEF Next

(***************************************************************************)
(* No call that was the only one for its subscriber all the time uses a    *)
(* pointer into the cache whose entry is gone, whatever BAL answers and    *)
(* whatever calls for other subscribers do meanwhile.                      *)
(***************************************************************************)
THEOREM UseAfterFree == Spec => []NoUseAfterFree
<1>1. TypeInv /\ AliasInv => NoUseAfterFree
  BY DEF AliasInv, Live, Dependent, NoUseAfterFree, Dereferences, Symmetric, AtFlow, Undoing
<1> QED  BY <1>1, InitAlias, NextAlias, InitType, NextType, PTL DEF Spec


-----------------------------------------------------------------------------
(***************************************************************************)
(* The accounting of flow ids.  It is promised if the client has one call  *)
(* per subscriber at a time and a subscriber has at most one data path     *)
(* flow in each direction, over as many GEM ports in both: the map of      *)
(* symmetric flows has room for no more.                                   *)
(***************************************************************************)
Twin(v, w) ==
  /\ Req[v].kind = "datapath" /\ Req[w].kind = "datapath" /\ Req[v].sub = Req[w].sub
  /\ Req[w].type = InverseFlowType(Req[v].type)

PairedRequests ==
  \A v, w \in Flows :
    Req[v].kind = "datapath" /\ Req[w].kind = "datapath" /\ Req[v].sub = Req[w].sub =>
      /\ Len(Req[v].gems) = Len(Req[w].gems)
      /\ Req[v].type = Req[w].type => v = w

(* The device flows a call works on: those of its own ids, or an entry's.  *)
OwnIds(c) == c.op = "add" /\ c.ids # <<>>
Count(c)  == Len(Req[c.flow].gems)
Devs(c, ca) ==
  IF OwnIds(c)
  THEN [i \in 1 .. Len(c.ids) |-> [id |-> c.ids[i], gem |-> Req[c.flow].gems[i]]]
  ELSE ca[c.ptr]

Distinct(s) == \A i, j \in DOMAIN s : s[i].id = s[j].id => i = j

EntryInv == \A v \in Flows : Cached(v) => Len(cache[v]) = Len(Req[v].gems) /\ Distinct(cache[v])

LinkInv ==
  \A s \in Subs, type \in Types :
    symmap[<<s, type>>] # None =>
      /\ Req[symmap[<<s, type>>]].kind = "datapath" /\ Req[symmap[<<s, type>>]].sub = s
      /\ Req[symmap[<<s, type>>]].type = type

Preparing == {"lookup", "check", "symm", "deref", "alloc", "get"}

(***************************************************************************)
(* A call that is alone finds the cache as it left it: an addition has no  *)
(* entry yet and a removal still has one; what it works on is as long as   *)
(* its GEM ports, and cur is the device flow it is at.                     *)
(***************************************************************************)
BeginsClean(p, c) == p \in Preparing => c.idx = 1 /\ c.ids = <<>>
HasLink(p, c) ==
  /\ p \in {"lookup", "link"} => Req[c.flow].kind = "datapath"
  /\ p \in {"check", "symm", "deref"} /\ c.op = "add" /\ c.sym # None => Twin(c.flow, c.sym)
HasEntry(p, c, ca) ==
  /\ c.op = "add" /\ p \in AtFlow \cup {"symm", "deref", "alloc"} => ca[c.flow] = <<>>
  /\ c.op = "remove" /\ p \in AtFlow \cup {"get", "uncache"} => ca[c.flow] # <<>>
HasPointer(p, c, ca) ==
  p \in AtFlow =>
    /\ c.op = "remove" => c.ptr = c.flow
    /\ c.op = "add" /\ c.ids = <<>> => c.ptr \in Flows /\ ca[c.ptr] # <<>> /\ Twin(c.flow, c.ptr)
HasDevices(p, c, ca) ==
  /\ p \in AtFlow => /\ Len(Devs(c, ca)) = Count(c) /\ Distinct(Devs(c, ca))
                     /\ c.idx <= Count(c)
  /\ p \in {"rmaps", "rbal"} /\ c.op = "add" => c.idx < Count(c)
HasCurrent(p, c, ca) ==
  /\ p \in {"bal", "rbal"} => c.cur = Devs(c, ca)[c.idx]
  /\ p = "free" /\ c.op = "add" /\ ~Req[c.flow].replicate => c.cur = Devs(c, ca)[1]

Shape(p, c, ca) ==
  /\ BeginsClean(p, c) /\ HasLink(p, c) /\ HasEntry(p, c, ca) /\ HasPointer(p, c, ca)
  /\ HasDevices(p, c, ca) /\ HasCurrent(p, c, ca)

OneCallEach == \A t, u \in Threads : t # u /\ Busy(t) /\ Busy(u) => R(t).sub # R(u).sub

ShapeInv ==
  /\ EntryInv /\ LinkInv /\ OneCallEach
  /\ \A t \in Threads : Busy(t) => Shape(pc[t], me[t], cache)

Sound == TypeInv /\ AliasInv /\ ShapeInv

(***************************************************************************)
(* A step of t touches what is O's only: no call for another flow, and no  *)
(* other flow of the cache.                                                *)
(***************************************************************************)
Turn(t, O) ==
  /\ O \in Flows
  /\ Busy(t) => me[t].flow = O
  /\ pc'[t] # "idle" => me'[t].flow = O
  /\ \A u \in Threads \ {t} :
       /\ pc'[u] = pc[u]
       /\ Busy(u) => me'[u] = me[u] /\ R(u).sub # Req[O].sub /\ me[u].flow \in Flows
  /\ \A v \in Flows \ {O} : cache'[v] = cache[v]

LEMMA TurnSteps ==
  ASSUME Sound, NEW t \in Threads, Add(t) \/ Remove(t)
  PROVE  Turn(t, me[t].flow) /\ Busy(t) /\ (pc'[t] # "idle" => me'[t].op = me[t].op)
<1>0. Busy(t) /\ TypeInv  BY BusySteps DEF Sound
<1>1. me[t].flow \in Flows  BY <1>0, OpAt
<1>2. \A u \in Threads \ {t} : Busy(u) => R(u).sub # R(t).sub /\ me[u].flow \in Flows
  BY <1>0, OpAt DEF Sound, ShapeInv, OneCallEach
<1>3. /\ pc'[t] # "idle" => me'[t].flow = me[t].flow /\ me'[t].op = me[t].op
      /\ \A u \in Threads \ {t} : pc'[u] = pc[u] /\ (Busy(u) => me'[u] = me[u])
  <2>0. pc \in [Threads -> PCs] /\ me \in [Threads -> Calls]  BY <1>0, TypeParts
  <2>1. CASE Uncache(t)
    <3>1. ASSUME NEW u \in Threads \ {t}, Busy(u)  PROVE me'[u] = me[u]
      <4>1. me'[u] = IF me[u].ptr = me[t].flow THEN [me[u] EXCEPT !.ptr = None] ELSE me[u]
        BY <2>1 DEF Uncache
      <4>2. me[u].ptr = None \/ Req[me[u].ptr].sub = R(u).sub
        BY <3>1 DEF Sound, AliasInv, PointsToOwn, R, Busy
      <4>3. me[u].ptr # me[t].flow
        BY <1>1, <1>2, <3>1, <4>2, FlowAssumption DEF R
      <4> QED  BY <4>1, <4>3
    <3>2. me'[t].flow = me[t].flow /\ me'[t].op = me[t].op  BY <1>0, <2>1, UncacheFacts, Zenon
    <3>3. \A u \in Threads \ {t} : pc'[u] = pc[u]  BY <1>0, <2>0, <2>1, UncacheFacts
    <3> QED  BY <3>1, <3>2, <3>3
  <2>2. CASE ~Uncache(t)
    <3>1. Step(t)  BY <1>0, <2>2, AddSteps, RemoveSteps
    <3>2. PICK p \in PCs, c \in Calls :
            Moves(t, p, c) /\ (GoesOn(t, p, c) \/ (p = "idle" /\ c = NoCall))
      BY <3>1 DEF Step
    <3>3. pc'[t] = p /\ me'[t] = c /\ \A u \in Threads \ {t} : pc'[u] = pc[u] /\ me'[u] = me[u]
      BY <2>0, <3>2 DEF Moves
    <3> QED  BY <3>2, <3>3 DEF GoesOn, Same
  <2> QED  BY <2>1, <2>2
<1>4. \A v \in Flows \ {me[t].flow} : cache'[v] = cache[v]
  <2>0. cache \in [Flows -> Seq(Params)]  BY <1>0 DEF TypeInv, TypeOK
  <2>1. CASE Uncache(t)
    BY <1>1, <2>0, <2>1 DEF Uncache
  <2>2. CASE UpdateCache(t)
    <3>1. \E ps : cache' = [cache EXCEPT ![me[t].flow] = ps]
      BY <2>2 DEF UpdateCache
    <3> QED  BY <2>0, <3>1
  <2>3. CASE ~Uncache(t) /\ ~UpdateCache(t)
    BY <2>3 DEF Add, Remove, Lookup, AlreadyInstalled, NotInstalled, CheckSymmetric, Deref, Alloc,
                AllocInvalid, AllocSpins, AddMaps, AddSucceeds, AddFails, FreeAfterAdd, Link,
                NotFound, Found, GetDeviceFlow, RemoveAcl, RemoveMaps, BalRemoves, BalRefuses,
                FreeAfterRemove, Unlink
  <2> QED  BY <2>1, <2>2, <2>3
<1> QED  BY <1>0, <1>1, <1>2, <1>3, <1>4 DEF Turn, R

LEMMA TurnCall ==
  ASSUME Sound, Serialised, NEW t \in Threads, NEW v \in Flows, NEW op \in {"add", "remove"},
         Call(t, v, op)
  PROVE  Turn(t, v)
<1>0. TypeInv  BY DEF Sound
<1>1. Rivals(t, v) = {}  BY DEF Call
<1>2. me' = [u \in Threads |-> IF u = t THEN [NoCall EXCEPT !.op = op, !.flow = v, !.alone = TRUE]
                               ELSE me[u]]
  BY <1>1 DEF Call
<1>3. ~Busy(t) /\ me'[t].flow = v /\ UNCHANGED cache /\ \A u \in Threads \ {t} : pc'[u] = pc[u]
  BY <1>0, CallFacts DEF Busy
<1>4. ASSUME NEW u \in Threads \ {t}
      PROVE  me'[u] = me[u] /\ (Busy(u) => R(u).sub # Req[v].sub /\ me[u].flow \in Flows)
  BY <1>0, <1>1, <1>2, OpAt DEF Rivals
<1> QED  BY <1>3, <1>4 DEF Turn

(***************************************************************************)
(* What a call elsewhere works on is not touched.                          *)
(***************************************************************************)
LEMMA Elsewhere ==
  ASSUME Sound, NEW t \in Threads, NEW O \in Flows, Turn(t, O), NEW u \in Threads \ {t}, Busy(u)
  PROVE  /\ pc'[u] = pc[u] /\ me'[u] = me[u] /\ Shape(pc[u], me[u], cache)
         /\ me[u].flow \in Flows /\ me[u].flow # O /\ cache'[me[u].flow] = cache[me[u].flow]
         /\ pc[u] \in AtFlow => Devs(me[u], cache') = Devs(me[u], cache)
<1>1. pc'[u] = pc[u] /\ me'[u] = me[u] /\ R(u).sub # Req[O].sub /\ me[u].flow \in Flows
  BY DEF Turn
<1>2. me[u].flow # O  BY <1>1 DEF R
<1>3. cache'[me[u].flow] = cache[me[u].flow]  BY <1>1, <1>2 DEF Turn
<1>4. Shape(pc[u], me[u], cache)  BY DEF Sound, ShapeInv
<1>5. ASSUME pc[u] \in AtFlow  PROVE Devs(me[u], cache') = Devs(me[u], cache)
  <2>1. CASE OwnIds(me[u])  BY <2>1 DEF Devs
  <2>2. CASE ~OwnIds(me[u])
    <3>0. me[u].op \in {"add", "remove"}  BY OpAt DEF Sound
    <3>1. me[u].ptr \in Flows /\ Req[me[u].ptr].sub = R(u).sub
      BY <1>1, <1>4, <1>5, <2>2, <3>0 DEF Shape, HasPointer, OwnIds, Twin, R
    <3>2. cache'[me[u].ptr] = cache[me[u].ptr]  BY <1>1, <3>1 DEF Turn
    <3> QED  BY <2>2, <3>2 DEF Devs
  <2> QED  BY <2>1, <2>2
<1> QED  BY <1>1, <1>2, <1>3, <1>4, <1>5

(* A call elsewhere keeps its shape.                                       *)
LEMMA ShapeElsewhere ==
  ASSUME Sound, NEW t \in Threads, NEW O \in Flows, Turn(t, O), NEW u \in Threads \ {t}, Busy(u)
  PROVE  Shape(pc'[u], me'[u], cache')
<1> DEFINE p == pc[u]
           c == me[u]
<1>1. /\ pc'[u] = p /\ me'[u] = c /\ Shape(p, c, cache) /\ cache'[c.flow] = cache[c.flow]
      /\ p \in AtFlow => Devs(c, cache') = Devs(c, cache)
      /\ c.op \in {"add", "remove"}
  BY Elsewhere, OpAt DEF Sound
<1>2. ASSUME p \in AtFlow, c.op = "add", c.ids = <<>>  PROVE cache'[c.ptr] # <<>>
  <2>1. Devs(c, cache') = cache'[c.ptr] /\ Devs(c, cache) = cache[c.ptr]
    BY <1>2 DEF Devs, OwnIds
  <2>2. cache[c.ptr] # <<>>  BY <1>1, <1>2 DEF Shape, HasPointer
  <2> QED  BY <1>1, <1>2, <2>1, <2>2
<1> HIDE DEF p, c
<1>3. BeginsClean(p, c) /\ HasLink(p, c)  BY <1>1 DEF Shape
<1>4. HasEntry(p, c, cache')  BY <1>1 DEF Shape, HasEntry
<1>5. HasPointer(p, c, cache')  BY <1>1, <1>2 DEF Shape, HasPointer
<1>6. HasDevices(p, c, cache')
  <2>1. {"rmaps", "rbal"} \subseteq AtFlow  BY DEF AtFlow, Undoing
  <2> QED  BY <1>1, <2>1 DEF Shape, HasDevices
<1>7. HasCurrent(p, c, cache')
  <2>1. {"bal", "rbal", "free"} \subseteq AtFlow  BY DEF AtFlow, Undoing
  <2> QED  BY <1>1, <2>1 DEF Shape, HasCurrent
<1> QED  BY <1>1, <1>3, <1>4, <1>5, <1>6, <1>7 DEF Shape

-----------------------------------------------------------------------------
(* The device flows of a call, and its course through them.                *)

LEMMA DevFacts ==
  ASSUME Sound, NEW t \in Threads, pc[t] \in AtFlow
  PROVE  /\ Devs(me[t], cache) \in Seq(Params) /\ DOMAIN Devs(me[t], cache) = 1 .. Need(t)
         /\ Distinct(Devs(me[t], cache)) /\ me[t].idx \in 1 .. Need(t)
         /\ \A i \in 1 .. Need(t) : Param(t, i) = {Devs(me[t], cache)[i]}
         /\ me[t].op = "remove" =>
              \A i \in 1 .. Need(t) : Pointee(t, i) = {Devs(me[t], cache)[i]}
         /\ Need(t) \in 1 .. MaxReplicated /\ Need(t) \in Nat
         /\ me[t].op \in {"add", "remove"} /\ me[t].flow \in Flows /\ Busy(t)
         /\ me[t].op = "remove" => Devs(me[t], cache) = cache[me[t].flow]
<1> DEFINE c == me[t]
           d == Devs(c, cache)
<1>0. Busy(t) /\ TypeInv /\ Shape(pc[t], c, cache) /\ c \in Calls
  <2>1. Busy(t)  BY DEF Busy, AtFlow, Undoing
  <2> QED  BY <2>1, LocalFacts DEF Sound, ShapeInv
<1>1. c.flow \in Flows /\ c.op \in {"add", "remove"}  BY <1>0, OpAt
<1>2. Need(t) \in 1 .. MaxReplicated /\ Need(t) \in Nat /\ Count(c) = Need(t)
  BY <1>0, FlowFacts DEF Count, Need, R
<1>3. cache \in [Flows -> Seq(Params)] /\ c.ids \in Seq(FlowIds)
  BY <1>0, LocalFacts DEF TypeInv, TypeOK
<1>4. d \in Seq(Params)
  <2>1. CASE OwnIds(c)
    <3>1. Len(c.ids) = Len(Req[c.flow].gems)
      BY <1>0, <2>1 DEF OwnIds, TypeInv, RunsAt, Busy
    <3>2. Req[c.flow].gems \in Seq(Gems)  BY <1>1, ReqFacts
    <3>3. \A i \in 1 .. Len(c.ids) : [id |-> c.ids[i], gem |-> Req[c.flow].gems[i]] \in Params
      BY <1>3, <3>1, <3>2 DEF Params
    <3>4. d = [i \in 1 .. Len(c.ids) |-> [id |-> c.ids[i], gem |-> Req[c.flow].gems[i]]]
      BY <2>1 DEF Devs
    <3>5. Len(c.ids) \in Nat  BY <1>3
    <3> HIDE DEF c, d
    <3> QED  BY <3>3, <3>4, <3>5
  <2>2. CASE ~OwnIds(c)
    <3>1. c.ptr \in Flows
      BY <1>0, <1>1, <2>2 DEF Shape, HasPointer, OwnIds
    <3> QED  BY <1>3, <2>2, <3>1 DEF Devs
  <2> QED  BY <2>1, <2>2
<1>5. Len(d) = Need(t) /\ Distinct(d) /\ c.idx <= Need(t)
  BY <1>0, <1>2 DEF Shape, HasDevices
<1>6. DOMAIN d = 1 .. Need(t)  BY <1>4, <1>5
<1>7. c.idx \in 1 .. Need(t)
  <2>1. c.idx \in 1 .. MaxReplicated /\ MaxReplicated \in Nat  BY <1>0, LocalFacts
  <2> QED  BY <1>2, <1>5, <2>1
<1>8. c.op = "remove" => d = cache[c.ptr] /\ d = cache[c.flow] /\ c.ptr # None
  BY <1>0, <1>1, FlowAssumption DEF Shape, HasPointer, Devs, OwnIds
<1>9. c.op = "remove" => \A i \in 1 .. Need(t) : Pointee(t, i) = {d[i]}
  BY <1>6, <1>8 DEF Pointee
<1>10. ASSUME NEW i \in 1 .. Need(t)  PROVE Param(t, i) = {d[i]}
  <2>1. CASE OwnIds(c)
    <3>1. Len(c.ids) = Len(Req[c.flow].gems) /\ ~Symmetric(t)
      BY <1>0, <2>1 DEF OwnIds, TypeInv, RunsAt, Busy, Symmetric
    <3>2. i \in 1 .. Len(c.ids)  BY <3>1 DEF Need, R
    <3>3. d[i] = [id |-> c.ids[i], gem |-> Req[c.flow].gems[i]]  BY <2>1, <3>2 DEF Devs
    <3> QED  BY <2>1, <3>1, <3>3 DEF Param, OwnIds, R
  <2>2. CASE c.op = "add" /\ c.ids = <<>>
    <3>1. c.ptr # None /\ d = cache[c.ptr]
      BY <1>0, <2>2, FlowAssumption DEF Shape, HasPointer, Devs, OwnIds
    <3> QED  BY <1>6, <2>2, <3>1 DEF Param, Pointee, Symmetric
  <2>3. CASE c.op = "remove"  BY <1>9, <2>3 DEF Param
  <2> QED  BY <1>1, <2>1, <2>2, <2>3 DEF OwnIds
<1> QED  BY <1>0, <1>1, <1>2, <1>4, <1>5, <1>6, <1>7, <1>8, <1>9, <1>10

Keeps(c, d) ==
  /\ d.op = c.op /\ d.flow = c.flow /\ d.sym = c.sym /\ d.ptr = c.ptr /\ d.ids = c.ids

Ends(t) == pc'[t] = "idle" /\ me'[t] = NoCall

LEMMA KeepDevs ==
  ASSUME NEW c, NEW d, NEW ca, Keeps(c, d)
  PROVE  Devs(d, ca) = Devs(c, ca) /\ Count(d) = Count(c) /\ OwnIds(d) = OwnIds(c)
BY DEF Keeps, Devs, Count, OwnIds

LEMMA ReturnFacts ==
  ASSUME TypeInv, NEW t \in Threads, Return(t)
  PROVE  Ends(t)
BY TypeParts DEF Return, Ends

(* The locals after a step that changes one of them.                       *)
LEMMA IdxFacts ==
  ASSUME TypeInv, NEW t \in Threads, NEW p, NEW n \in 1 .. MaxReplicated,
         pc' = [pc EXCEPT ![t] = p], me' = [me EXCEPT ![t].idx = n]
  PROVE  /\ pc'[t] = p /\ Keeps(me[t], me'[t]) /\ me'[t].idx = n /\ me'[t].cur = me[t].cur
<1>1. pc \in [Threads -> PCs] /\ me \in [Threads -> Calls] /\ me[t] \in Calls  BY TypeParts
<1>2. me'[t] = [me[t] EXCEPT !.idx = n]  BY <1>1
<1>3. [me[t] EXCEPT !.idx = n].cur = me[t].cur  BY <1>1 DEF Calls
<1> QED  BY <1>1, <1>2, <1>3, SetIdx DEF Keeps

LEMMA CurFacts ==
  ASSUME TypeInv, NEW t \in Threads, NEW p, NEW q \in Params,
         pc' = [pc EXCEPT ![t] = p], me' = [me EXCEPT ![t].cur = q]
  PROVE  /\ pc'[t] = p /\ Keeps(me[t], me'[t]) /\ me'[t].idx = me[t].idx /\ me'[t].cur = q
<1>1. pc \in [Threads -> PCs] /\ me \in [Threads -> Calls] /\ me[t] \in Calls  BY TypeParts
<1>2. me'[t] = [me[t] EXCEPT !.cur = q]  BY <1>1
<1>3. [me[t] EXCEPT !.cur = q].cur = q  BY <1>1 DEF Calls
<1> QED  BY <1>1, <1>2, <1>3, SetCur DEF Keeps

LEMMA PlainFacts ==
  ASSUME TypeInv, NEW t \in Threads, NEW p, pc' = [pc EXCEPT ![t] = p], UNCHANGED me
  PROVE  pc'[t] = p /\ me'[t] = me[t] /\ Keeps(me[t], me'[t])
BY TypeParts DEF Keeps

(* To the device flow before, or out of the undoing.                       *)
LEMMA UndoFacts ==
  ASSUME Sound, NEW t \in Threads, pc[t] \in {"rmaps", "rbal", "bal"}, me[t].op = "add",
         NEW A, NEW B,
         IF me[t].idx > 1
         THEN /\ pc' = [pc EXCEPT ![t] = "rmaps"]
              /\ me' = [me EXCEPT ![t].idx = @ - 1]
         ELSE IF A THEN Return(t) ELSE pc' = [pc EXCEPT ![t] = "free"] /\ UNCHANGED me
  PROVE  \/ /\ me[t].idx > 1 /\ pc'[t] = "rmaps" /\ Keeps(me[t], me'[t])
            /\ me'[t].idx = me[t].idx - 1 /\ me'[t].idx \in 1 .. Need(t) /\ me'[t].idx < Need(t)
         \/ A /\ Ends(t)
         \/ ~A /\ me[t].idx = 1 /\ pc'[t] = "free" /\ me'[t] = me[t]
<1>0. pc[t] \in AtFlow /\ TypeInv  BY DEF AtFlow, Undoing, Sound
<1>1. /\ me[t].idx \in 1 .. Need(t) /\ Need(t) \in Nat /\ Need(t) <= MaxReplicated
      /\ MaxReplicated \in Nat
  BY <1>0, DevFacts, FlowAssumption
<1>2. CASE me[t].idx > 1
  <2>1. me[t].idx - 1 \in 1 .. MaxReplicated /\ me[t].idx - 1 \in 1 .. Need(t)
        /\ me[t].idx - 1 < Need(t)
    BY <1>1, <1>2
  <2>2. me \in [Threads -> Calls]  BY <1>0, TypeParts
  <2>3. me' = [me EXCEPT ![t].idx = me[t].idx - 1]  BY <1>2, <2>2
  <2>4. pc' = [pc EXCEPT ![t] = "rmaps"]  BY <1>2
  <2>5. pc'[t] = "rmaps" /\ Keeps(me[t], me'[t]) /\ me'[t].idx = me[t].idx - 1
    BY <1>0, <2>1, <2>3, <2>4, IdxFacts
  <2> QED  BY <1>2, <2>1, <2>5
<1>3. CASE ~(me[t].idx > 1)
  <2>1. me[t].idx = 1  BY <1>1, <1>3
  <2> QED  BY <1>0, <1>3, <2>1, ReturnFacts, PlainFacts
<1> QED  BY <1>2, <1>3

(* To the next device flow of a removal, or out of its loop.               *)
LEMMA NextFacts ==
  ASSUME Sound, NEW t \in Threads, pc[t] \in {"rbal", "free"}, me[t].op = "remove", NextRemoval(t)
  PROVE  \/ /\ me[t].idx < Need(t) /\ pc'[t] = "rmaps" /\ Keeps(me[t], me'[t])
            /\ me'[t].idx = me[t].idx + 1 /\ me'[t].idx \in 1 .. Need(t)
         \/ me[t].idx = Need(t) /\ pc'[t] = "uncache" /\ me'[t] = me[t]
<1>0. pc[t] \in AtFlow /\ TypeInv  BY DEF AtFlow, Undoing, Sound
<1>1. /\ me[t].idx \in 1 .. Need(t) /\ Need(t) \in Nat /\ Need(t) <= MaxReplicated
      /\ MaxReplicated \in Nat /\ Devs(me[t], cache) = cache[me[t].flow]
      /\ Devs(me[t], cache) \in Seq(Params) /\ DOMAIN Devs(me[t], cache) = 1 .. Need(t)
  BY <1>0, DevFacts, FlowAssumption
<1>2. me[t].ptr = me[t].flow /\ me[t].ptr # None
  <2>1. Shape(pc[t], me[t], cache) /\ me[t].flow \in Flows
    BY <1>0, DevFacts DEF Sound, ShapeInv
  <2> QED  BY <1>0, <2>1, FlowAssumption DEF Shape, HasPointer
<1>3. Len(cache[me[t].ptr]) = Need(t)  BY <1>1, <1>2
<1>4. PICK more \in More(t) :
        /\ pc' = [pc EXCEPT ![t] = IF more THEN "rmaps" ELSE "uncache"]
        /\ me' = IF more THEN [me EXCEPT ![t].idx = @ + 1] ELSE me
  BY DEF NextRemoval
<1>5. more <=> me[t].idx < Need(t)  BY <1>2, <1>3, <1>4 DEF More
<1>6. CASE more
  <2>1. me[t].idx + 1 \in 1 .. MaxReplicated /\ me[t].idx + 1 \in 1 .. Need(t)
    BY <1>1, <1>5, <1>6
  <2>2. me \in [Threads -> Calls]  BY <1>0, TypeParts
  <2>3. me' = [me EXCEPT ![t].idx = me[t].idx + 1]  BY <1>4, <1>6, <2>2
  <2>4. pc' = [pc EXCEPT ![t] = "rmaps"]  BY <1>4, <1>6
  <2>5. pc'[t] = "rmaps" /\ Keeps(me[t], me'[t]) /\ me'[t].idx = me[t].idx + 1
    BY <1>0, <2>1, <2>3, <2>4, IdxFacts
  <2> QED  BY <1>5, <1>6, <2>1, <2>5
<1>7. CASE ~more
  <2>1. me[t].idx = Need(t)  BY <1>1, <1>5, <1>7
  <2>2. pc' = [pc EXCEPT ![t] = "uncache"] /\ UNCHANGED me  BY <1>4, <1>7
  <2> QED  BY <1>0, <2>1, <2>2, PlainFacts
<1> QED  BY <1>6, <1>7

-----------------------------------------------------------------------------
(* What each action does, in terms of the device flow the call is at.      *)

Here(t) == Devs(me[t], cache)[me[t].idx]    \* the device flow t is at

LEMMA HereFacts ==
  ASSUME Sound, NEW t \in Threads, pc[t] \in AtFlow
  PROVE  /\ Here(t) \in Params /\ Here(t).id \in FlowIds /\ Here(t).gem \in Gems
         /\ Param(t, me[t].idx) = {Here(t)}
         /\ me[t].op = "remove" => Pointee(t, me[t].idx) = {Here(t)}
         /\ pc[t] \in {"bal", "rbal"} => me[t].cur = Here(t)
         /\ R(t).type \in Types /\ Key(t, Here(t).id) \in Keys
<1>1. Here(t) \in Params  BY DevFacts, ElementType DEF Here
<1>2. Here(t).id \in FlowIds /\ Here(t).gem \in Gems  BY <1>1 DEF Params
<1>3. /\ Param(t, me[t].idx) = {Here(t)}
      /\ me[t].op = "remove" => Pointee(t, me[t].idx) = {Here(t)}
  BY DevFacts DEF Here
<1>4. Busy(t) /\ Shape(pc[t], me[t], cache) /\ TypeInv  BY DevFacts DEF Sound, ShapeInv
<1>5. pc[t] \in {"bal", "rbal"} => me[t].cur = Here(t)
  BY <1>4 DEF Shape, HasCurrent, Here
<1>6. R(t).type \in Types /\ Key(t, Here(t).id) \in Keys  BY <1>2, <1>4, FlowFacts
<1> QED  BY <1>1, <1>2, <1>3, <1>5, <1>6

LEMMA AddMapsFacts ==
  ASSUME Sound, NEW t \in Threads, AddMaps(t)
  PROVE  /\ pc[t] = "add" /\ me[t].op = "add"
         /\ pc'[t] = "bal" /\ Keeps(me[t], me'[t]) /\ me'[t].idx = me[t].idx /\ me'[t].cur = Here(t)
         /\ UNCHANGED <<pool, cache, symmap, acl, bal, tainted>>
         /\ IF R(t).kind # "datapath" THEN UNCHANGED maps
            ELSE IF R(t).type = "downstream"
            THEN /\ portFlows' = [portFlows EXCEPT ![R(t).port] = @ \cup {Here(t).id}]
                 /\ idGem' = [idGem EXCEPT ![Here(t).id] = Here(t).gem]
            ELSE UNCHANGED <<portFlows, idGem>>
<1>0. pc[t] = "add" /\ pc[t] \in AtFlow /\ TypeInv /\ me[t].op = "add"
  BY OpAt DEF AddMaps, Go, AtFlow, Sound
<1>1. Param(t, me[t].idx) = {Here(t)} /\ Here(t) \in Params  BY <1>0, HereFacts
<1>2. pc' = [pc EXCEPT ![t] = "bal"] /\ me' = [me EXCEPT ![t].cur = Here(t)]
  BY <1>1 DEF AddMaps, Go
<1>3. pc'[t] = "bal" /\ Keeps(me[t], me'[t]) /\ me'[t].idx = me[t].idx /\ me'[t].cur = Here(t)
  BY <1>0, <1>1, <1>2, CurFacts
<1>4. UNCHANGED <<pool, cache, symmap, acl, bal, tainted>>  BY DEF AddMaps
<1>5. IF R(t).kind # "datapath" THEN UNCHANGED maps
      ELSE IF R(t).type = "downstream"
      THEN /\ portFlows' = [portFlows EXCEPT ![R(t).port] = @ \cup {Here(t).id}]
           /\ idGem' = [idGem EXCEPT ![Here(t).id] = Here(t).gem]
      ELSE UNCHANGED <<portFlows, idGem>>
  BY <1>1 DEF AddMaps
<1> QED  BY <1>0, <1>3, <1>4, <1>5

LEMMA AddSucceedsFacts ==
  ASSUME Sound, NEW t \in Threads, AddSucceeds(t)
  PROVE  /\ pc[t] = "bal" /\ me[t].op = "add"
         /\ \/ me[t].idx = Need(t) /\ pc'[t] = "cache" /\ me'[t] = me[t]
            \/ /\ me[t].idx < Need(t) /\ pc'[t] = "add" /\ Keeps(me[t], me'[t])
               /\ me'[t].idx = me[t].idx + 1 /\ me'[t].idx \in 1 .. Need(t)
         /\ \/ R(t).kind # "trap" /\ bal' = bal \cup {Key(t, Here(t).id)} /\ UNCHANGED acl
            \/ R(t).kind = "trap" /\ acl' = acl \cup {Key(t, Here(t).id)} /\ UNCHANGED bal
            \/ "already" \in AddOutcomes /\ UNCHANGED <<acl, bal>>
         /\ UNCHANGED <<pool, cache, symmap, maps, tainted>>
<1>0. pc[t] = "bal" /\ pc[t] \in AtFlow /\ TypeInv /\ me[t].op = "add"
  BY OpAt DEF AddSucceeds, Go, AtFlow, Sound
<1>1. /\ me[t].idx \in 1 .. Need(t) /\ Need(t) \in Nat /\ Need(t) <= MaxReplicated
      /\ MaxReplicated \in Nat
  BY <1>0, DevFacts, FlowAssumption
<1>2. \/ me[t].idx = Need(t) /\ pc'[t] = "cache" /\ me'[t] = me[t]
      \/ /\ me[t].idx < Need(t) /\ pc'[t] = "add" /\ Keeps(me[t], me'[t])
         /\ me'[t].idx = me[t].idx + 1 /\ me'[t].idx \in 1 .. Need(t)
  <2>1. CASE me[t].idx = Need(t)
    <3>1. pc' = [pc EXCEPT ![t] = "cache"] /\ UNCHANGED me  BY <2>1 DEF AddSucceeds, Go
    <3> QED  BY <1>0, <2>1, <3>1, PlainFacts
  <2>2. CASE me[t].idx # Need(t)
    <3>1. me \in [Threads -> Calls]  BY <1>0, TypeParts
    <3>2. pc' = [pc EXCEPT ![t] = "add"] /\ me' = [me EXCEPT ![t].idx = me[t].idx + 1]
      BY <2>2, <3>1 DEF AddSucceeds, Go
    <3>3. me[t].idx < Need(t) /\ me[t].idx + 1 \in 1 .. Need(t) /\ me[t].idx + 1 \in 1 .. MaxReplicated
      BY <1>1, <2>2
    <3>4. pc'[t] = "add" /\ Keeps(me[t], me'[t]) /\ me'[t].idx = me[t].idx + 1
      BY <1>0, <3>2, <3>3, IdxFacts
    <3> QED  BY <3>3, <3>4
  <2> QED  BY <2>1, <2>2
<1>3. me[t].cur = Here(t)  BY <1>0, HereFacts
<1>4. \/ R(t).kind # "trap" /\ bal' = bal \cup {Key(t, Here(t).id)} /\ UNCHANGED acl
      \/ R(t).kind = "trap" /\ acl' = acl \cup {Key(t, Here(t).id)} /\ UNCHANGED bal
      \/ "already" \in AddOutcomes /\ UNCHANGED <<acl, bal>>
  BY <1>3 DEF AddSucceeds, Accepted
<1>5. UNCHANGED <<pool, cache, symmap, maps, tainted>>  BY DEF AddSucceeds
<1> QED  BY <1>0, <1>2, <1>4, <1>5

(* The ways out of an addition that failed.                                *)
Undoes(t) ==
  /\ me[t].op = "add"
  /\ \/ /\ me[t].idx > 1 /\ pc'[t] = "rmaps" /\ Keeps(me[t], me'[t])
        /\ me'[t].idx = me[t].idx - 1 /\ me'[t].idx \in 1 .. Need(t) /\ me'[t].idx < Need(t)
     \/ Symmetric(t) /\ Ends(t)
     \/ /\ me[t].idx = 1 /\ pc'[t] = "free" /\ me'[t] = me[t]
        /\ Symmetric(t) => pc[t] = "bal" /\ ~R(t).replicate

LEMMA AddFailsFacts ==
  ASSUME Sound, NEW t \in Threads, AddFails(t)
  PROVE  /\ pc[t] = "bal" /\ Undoes(t)
         /\ UNCHANGED <<pool, cache, symmap, maps, acl, bal, tainted>>
<1>0. pc[t] = "bal" /\ TypeInv /\ me[t].op = "add"
  BY OpAt DEF AddFails, Sound
<1>1. IF me[t].idx > 1
      THEN /\ pc' = [pc EXCEPT ![t] = "rmaps"]
           /\ me' = [me EXCEPT ![t].idx = @ - 1]
      ELSE IF Symmetric(t) /\ R(t).replicate THEN Return(t)
      ELSE pc' = [pc EXCEPT ![t] = "free"] /\ UNCHANGED me
  BY DEF AddFails
<1>2. \/ /\ me[t].idx > 1 /\ pc'[t] = "rmaps" /\ Keeps(me[t], me'[t])
         /\ me'[t].idx = me[t].idx - 1 /\ me'[t].idx \in 1 .. Need(t) /\ me'[t].idx < Need(t)
      \/ (Symmetric(t) /\ R(t).replicate) /\ Ends(t)
      \/ ~(Symmetric(t) /\ R(t).replicate) /\ me[t].idx = 1 /\ pc'[t] = "free" /\ me'[t] = me[t]
  BY <1>0, <1>1, UndoFacts
<1> QED  BY <1>0, <1>2 DEF Undoes, AddFails

LEMMA NextUndoFacts ==
  ASSUME Sound, NEW t \in Threads, pc[t] \in {"rmaps", "rbal"}, me[t].op = "add", NextUndo(t)
  PROVE  Undoes(t)
<1>2. \/ /\ me[t].idx > 1 /\ pc'[t] = "rmaps" /\ Keeps(me[t], me'[t])
         /\ me'[t].idx = me[t].idx - 1 /\ me'[t].idx \in 1 .. Need(t) /\ me'[t].idx < Need(t)
      \/ Symmetric(t) /\ Ends(t)
      \/ ~Symmetric(t) /\ me[t].idx = 1 /\ pc'[t] = "free" /\ me'[t] = me[t]
  BY UndoFacts DEF NextUndo
<1> QED  BY <1>2 DEF Undoes

(* A device flow is removed.                                               *)
Clears(t) ==
  \/ me[t].op = "remove" /\ pc'[t] = "free" /\ me'[t] = me[t]
  \/ Undoes(t)

LEMMA RemovedFacts ==
  ASSUME Sound, NEW t \in Threads, pc[t] \in {"rmaps", "rbal"}, Removed(t)
  PROVE  Clears(t)
<1>0. pc[t] \in AtFlow /\ TypeInv  BY DEF AtFlow, Undoing, Sound
<1>1. me[t].op \in {"add", "remove"}  BY <1>0, DevFacts
<1>2. CASE me[t].op = "remove"
  BY <1>0, <1>2, PlainFacts DEF Removed, Clears
<1>3. CASE me[t].op = "add"
  BY <1>3, NextUndoFacts DEF Removed, Clears
<1> QED  BY <1>1, <1>2, <1>3

LEMMA RemoveAclFacts ==
  ASSUME Sound, NEW t \in Threads, RemoveAcl(t)
  PROVE  /\ pc[t] = "rmaps" /\ Clears(t)
         /\ Key(t, Here(t).id) \in acl /\ acl' = acl \ {Key(t, Here(t).id)}
         /\ UNCHANGED <<pool, cache, symmap, maps, bal, tainted>>
<1>0. pc[t] = "rmaps" /\ pc[t] \in AtFlow  BY DEF RemoveAcl, AtFlow, Undoing
<1>1. Param(t, me[t].idx) = {Here(t)}  BY <1>0, HereFacts
<1>2. Clears(t)  BY <1>0, RemovedFacts DEF RemoveAcl
<1> QED  BY <1>0, <1>1, <1>2 DEF RemoveAcl

LEMMA BalRemovesFacts ==
  ASSUME Sound, NEW t \in Threads, BalRemoves(t)
  PROVE  /\ pc[t] = "rbal" /\ Clears(t)
         /\ bal' = bal \ {Key(t, Here(t).id)} /\ acl' = acl \ {Key(t, Here(t).id)}
         /\ UNCHANGED <<pool, cache, symmap, maps, tainted>>
<1>0. pc[t] = "rbal" /\ pc[t] \in AtFlow  BY DEF BalRemoves, AtFlow, Undoing
<1>1. me[t].cur = Here(t)  BY <1>0, HereFacts
<1>2. Clears(t)  BY <1>0, RemovedFacts DEF BalRemoves
<1> QED  BY <1>0, <1>1, <1>2 DEF BalRemoves

LEMMA RemoveMapsFacts ==
  ASSUME Sound, NEW t \in Threads, RemoveMaps(t)
  PROVE  /\ pc[t] = "rmaps" /\ Key(t, Here(t).id) \notin acl
         /\ pc'[t] = "rbal" /\ Keeps(me[t], me'[t]) /\ me'[t].idx = me[t].idx /\ me'[t].cur = Here(t)
         /\ IF R(t).type = "downstream"
            THEN /\ idGem' = [idGem EXCEPT ![Here(t).id] = None]
                 /\ portFlows' = [portFlows EXCEPT ![idPort[Here(t).id]] = @ \ {Here(t).id}]
            ELSE UNCHANGED <<portFlows, idGem>>
         /\ UNCHANGED <<pool, cache, symmap, acl, bal, tainted>>
<1>0. pc[t] = "rmaps" /\ pc[t] \in AtFlow /\ TypeInv  BY DEF RemoveMaps, Go, AtFlow, Undoing, Sound
<1>1. Param(t, me[t].idx) = {Here(t)} /\ Here(t) \in Params  BY <1>0, HereFacts
<1>2. pc' = [pc EXCEPT ![t] = "rbal"] /\ me' = [me EXCEPT ![t].cur = Here(t)]
  BY <1>1 DEF RemoveMaps, Go
<1>3. pc'[t] = "rbal" /\ Keeps(me[t], me'[t]) /\ me'[t].idx = me[t].idx /\ me'[t].cur = Here(t)
  BY <1>0, <1>1, <1>2, CurFacts
<1>4. /\ Key(t, Here(t).id) \notin acl
      /\ UNCHANGED <<pool, cache, symmap, acl, bal, tainted>>
  BY <1>1 DEF RemoveMaps
<1>5. IF R(t).type = "downstream"
      THEN /\ idGem' = [idGem EXCEPT ![Here(t).id] = None]
           /\ portFlows' = [portFlows EXCEPT ![idPort[Here(t).id]] = @ \ {Here(t).id}]
      ELSE UNCHANGED <<portFlows, idGem>>
  BY <1>1 DEF RemoveMaps
<1> QED  BY <1>0, <1>3, <1>4, <1>5

(* On to the next device flow of a removal.                                *)
Continues(t) ==
  /\ me[t].op = "remove"
  /\ \/ /\ me[t].idx < Need(t) /\ pc'[t] = "rmaps" /\ Keeps(me[t], me'[t])
        /\ me'[t].idx = me[t].idx + 1 /\ me'[t].idx \in 1 .. Need(t)
     \/ me[t].idx = Need(t) /\ pc'[t] = "uncache" /\ me'[t] = me[t]

LEMMA BalRefusesFacts ==
  ASSUME Sound, NEW t \in Threads, BalRefuses(t)
  PROVE  /\ pc[t] = "rbal"
         /\ \/ Continues(t) /\ UNCHANGED tainted
            \/ Undoes(t) /\ (~Symmetric(t) => Here(t).id \in tainted') /\ tainted \subseteq tainted'
         /\ UNCHANGED <<pool, cache, symmap, maps, acl, bal>>
<1>0. pc[t] = "rbal" /\ pc[t] \in AtFlow  BY DEF BalRefuses, AtFlow, Undoing
<1>1. me[t].cur = Here(t) /\ me[t].op \in {"add", "remove"}  BY <1>0, HereFacts, DevFacts
<1>2. CASE me[t].op = "remove"
  BY <1>0, <1>2, NextFacts DEF BalRefuses, NotRemoved, Continues
<1>3. CASE me[t].op = "add"
  <2>1. Undoes(t)  BY <1>0, <1>3, NextUndoFacts DEF BalRefuses, NotRemoved
  <2> QED  BY <1>0, <1>1, <1>3, <2>1 DEF BalRefuses
<1> QED  BY <1>0, <1>1, <1>2, <1>3

LEMMA FreeAfterRemoveFacts ==
  ASSUME Sound, NEW t \in Threads, FreeAfterRemove(t)
  PROVE  /\ pc[t] = "free" /\ Continues(t) /\ Release(Here(t).id, me[t].flow)
         /\ UNCHANGED <<cache, symmap, maps, acl, bal>>
<1>0. pc[t] = "free" /\ pc[t] \in AtFlow /\ me[t].op = "remove"
  BY DEF FreeAfterRemove, AtFlow, Undoing
<1>1. Pointee(t, me[t].idx) = {Here(t)}  BY <1>0, HereFacts
<1>2. Continues(t)  BY <1>0, NextFacts DEF FreeAfterRemove, Continues
<1> QED  BY <1>0, <1>1, <1>2 DEF FreeAfterRemove

LEMMA FreeAfterAddFacts ==
  ASSUME Sound, NEW t \in Threads, FreeAfterAdd(t)
  PROVE  /\ pc[t] = "free" /\ me[t].op = "add"
         /\ Symmetric(t) => ~R(t).replicate /\ Need(t) = 1 /\ me[t].idx = 1
         /\ \/ me[t].idx < Need(t) /\ pc'[t] = "free" /\ Keeps(me[t], me'[t])
               /\ me'[t].idx = me[t].idx + 1 /\ me'[t].idx \in 1 .. Need(t) /\ R(t).replicate
            \/ me[t].idx = Need(t) /\ Ends(t)
         /\ Release(Here(t).id, me[t].flow)
         /\ UNCHANGED <<cache, symmap, maps, acl, bal>>
<1>0. /\ pc[t] = "free" /\ pc[t] \in AtFlow /\ me[t].op = "add" /\ Busy(t) /\ TypeInv
      /\ Shape(pc[t], me[t], cache)
  <2>1. pc[t] = "free" /\ pc[t] \in AtFlow /\ me[t].op = "add"
    BY DEF FreeAfterAdd, AtFlow, Undoing
  <2> QED  BY <2>1, DevFacts DEF Sound, ShapeInv
<1>1. /\ me[t].idx \in 1 .. Need(t) /\ Need(t) \in Nat /\ Need(t) <= MaxReplicated
      /\ MaxReplicated \in Nat /\ me[t].flow \in Flows
  BY <1>0, DevFacts, FlowAssumption
<1>2. ~R(t).replicate => Need(t) = 1 /\ me[t].idx = 1
  <2>1. \A v \in Flows : ~Req[v].replicate => Len(Req[v].gems) = 1  BY FlowAssumption
  <2>2. ~R(t).replicate => Need(t) = 1  BY <1>1, <2>1 DEF R, Need
  <2> QED  BY <1>1, <2>2
<1>3. Symmetric(t) => ~R(t).replicate
  BY <1>0 DEF TypeInv, RunsAt, Symmetric, R
<1>4. (IF R(t).replicate THEN me[t].ids[me[t].idx] ELSE me[t].cur.id) = Here(t).id
  <2>1. CASE R(t).replicate
    <3>1. OwnIds(me[t])  BY <1>0, <1>3, <2>1 DEF OwnIds, Symmetric
    <3>2. Len(me[t].ids) = Need(t)
      BY <1>0, <3>1 DEF OwnIds, TypeInv, RunsAt, Need, R
    <3>3. me[t].idx \in 1 .. Len(me[t].ids)  BY <1>1, <3>2
    <3>4. Here(t) = [id |-> me[t].ids[me[t].idx], gem |-> Req[me[t].flow].gems[me[t].idx]]
      BY <3>1, <3>3 DEF Here, Devs
    <3> QED  BY <2>1, <3>4
  <2>2. CASE ~R(t).replicate
    <3>1. me[t].cur = Here(t)
      BY <1>0, <1>2, <2>2 DEF Shape, HasCurrent, Here, R
    <3> QED  BY <2>2, <3>1
  <2> QED  BY <2>1, <2>2
<1>5. Release(Here(t).id, me[t].flow)  BY <1>4 DEF FreeAfterAdd
<1>6. \/ me[t].idx < Need(t) /\ pc'[t] = "free" /\ Keeps(me[t], me'[t])
         /\ me'[t].idx = me[t].idx + 1 /\ me'[t].idx \in 1 .. Need(t) /\ R(t).replicate
      \/ me[t].idx = Need(t) /\ Ends(t)
  <2>1. CASE Symmetric(t) \/ me[t].idx = Need(t)
    <3>1. Return(t) /\ me[t].idx = Need(t)  BY <1>1, <1>2, <1>3, <2>1 DEF FreeAfterAdd
    <3> QED  BY <1>0, <3>1, ReturnFacts
  <2>2. CASE ~Symmetric(t) /\ me[t].idx # Need(t)
    <3>1. me \in [Threads -> Calls] /\ pc \in [Threads -> PCs]  BY <1>0, TypeParts
    <3>2. pc' = [pc EXCEPT ![t] = "free"] /\ me' = [me EXCEPT ![t].idx = me[t].idx + 1]
      BY <1>0, <2>2, <3>1 DEF FreeAfterAdd
    <3>3. me[t].idx < Need(t) /\ me[t].idx + 1 \in 1 .. Need(t) /\ me[t].idx + 1 \in 1 .. MaxReplicated
      BY <1>1, <2>2
    <3>4. pc'[t] = "free" /\ Keeps(me[t], me'[t]) /\ me'[t].idx = me[t].idx + 1
      BY <1>0, <3>2, <3>3, IdxFacts
    <3>5. R(t).replicate  BY <1>2, <2>2
    <3> QED  BY <3>3, <3>4, <3>5
  <2> QED  BY <2>1, <2>2
<1> QED  BY <1>0, <1>2, <1>3, <1>5, <1>6 DEF FreeAfterAdd

(* A scan that takes as many different ids as there are takes them all.     *)
LEMMA Onto ==
  ASSUME NEW S \in SUBSET FlowIds, NEW seq \in [1 .. Cardinality(S) -> S],
         \A i, j \in 1 .. Cardinality(S) : i # j => seq[i] # seq[j], NEW f \in S
  PROVE  \E i \in 1 .. Cardinality(S) : seq[i] = f
<1>1. IsFiniteSet(FlowIds)  BY FlowAssumption, FS_Interval DEF FlowIds
<1>2. IsFiniteSet(S)  BY <1>1, FS_Subset
<1>3. Cardinality(S) \in Nat  BY <1>2, FS_CardinalityType
<1>4. IsFiniteSet(S \ {f}) /\ Cardinality(S \ {f}) = Cardinality(S) - 1
  BY <1>2, FS_RemoveElement
<1>5. IsFiniteSet(1 .. Cardinality(S)) /\ Cardinality(1 .. Cardinality(S)) = Cardinality(S)
  BY <1>3, FS_Interval
<1> SUFFICES ASSUME \A i \in 1 .. Cardinality(S) : seq[i] # f  PROVE FALSE
  OBVIOUS
<1>6. seq \in [1 .. Cardinality(S) -> S \ {f}]  OBVIOUS
<1>7. \E i, j \in 1 .. Cardinality(S) : i # j /\ seq[i] = seq[j]
  <2>1. Cardinality(S \ {f}) < Cardinality(1 .. Cardinality(S))  BY <1>3, <1>4, <1>5
  <2> QED  BY <1>4, <1>5, <1>6, <2>1, FS_PigeonHole
<1> QED  BY <1>7

LEMMA AllocFacts ==
  ASSUME Sound, NEW t \in Threads, Alloc(t)
  PROVE  /\ pc[t] = "alloc" /\ pc'[t] = "add" /\ me'[t].op = "add" /\ me'[t].idx = me[t].idx
         /\ me[t].op = "add" /\ me'[t].flow = me[t].flow /\ OwnIds(me'[t])
         /\ Len(me'[t].ids) = Need(t) /\ me'[t].ids \in Seq(FlowIds) /\ Distinct(Devs(me'[t], cache))
         /\ DOMAIN Devs(me'[t], cache) = 1 .. Need(t) /\ Len(Devs(me'[t], cache)) = Need(t)
         /\ \A i \in 1 .. Need(t) : /\ Devs(me'[t], cache)[i].id \in FlowIds \ pool
                                    /\ Devs(me'[t], cache)[i].id \in pool'
         /\ pool \subseteq pool'
         /\ \A f \in pool' \ pool : \E i \in 1 .. Need(t) : Devs(me'[t], cache)[i].id = f
         /\ UNCHANGED <<cache, symmap, maps, acl, bal, tainted>>
<1>0. pc[t] = "alloc" /\ TypeInv /\ me[t].op = "add" /\ me[t].flow \in Flows /\ Busy(t)
  BY OpAt DEF Alloc, Go, Sound, Busy
<1> DEFINE S == FirstFree(Need(t))
<1>1. PICK seq \in [1 .. Need(t) -> S] :
        InScanOrder(S, seq) /\ me' = [me EXCEPT ![t].ids = seq]
  BY DEF Alloc
<1>2. /\ Cardinality(S) = Need(t) /\ pool' = pool \cup S
      /\ UNCHANGED <<cache, symmap, maps, acl, bal, tainted>>
      /\ pc' = [pc EXCEPT ![t] = "add"]
  BY DEF Alloc, Go
<1>3. S \subseteq FlowIds \ pool  BY DEF FirstFree
<1> HIDE DEF S
<1>4. Need(t) \in Nat /\ Need(t) >= 1  BY <1>0, FlowFacts, FlowAssumption
<1>5. \A i, j \in 1 .. Need(t) : i # j => seq[i] # seq[j]
  <2>1. \A i, j \in DOMAIN seq : i < j => seq[i] # seq[j]  BY <1>1 DEF InScanOrder
  <2>2. DOMAIN seq = 1 .. Need(t)  BY <1>1
  <2> QED  BY <1>4, <2>1, <2>2
<1>6. seq \in Seq(FlowIds) /\ Len(seq) = Need(t) /\ seq # <<>>
  <2>1. seq \in [1 .. Need(t) -> FlowIds]  BY <1>1, <1>3
  <2>2. seq # <<>>  BY <1>4, <2>1, NotEmpty
  <2> QED  BY <1>4, <2>1, <2>2
<1>7. /\ pc'[t] = "add" /\ me'[t] = [me[t] EXCEPT !.ids = seq] /\ me[t] \in Calls
  BY <1>0, <1>1, <1>2, TypeParts
<1>8. /\ me'[t].op = me[t].op /\ me'[t].flow = me[t].flow /\ me'[t].idx = me[t].idx
      /\ me'[t].ids = seq
  BY <1>6, <1>7, SetIds
<1>9. Devs(me'[t], cache) =
        [i \in 1 .. Len(seq) |-> [id |-> seq[i], gem |-> Req[me[t].flow].gems[i]]]
  BY <1>0, <1>6, <1>8 DEF Devs, OwnIds
<1>10. /\ DOMAIN Devs(me'[t], cache) = 1 .. Need(t) /\ Len(Devs(me'[t], cache)) = Need(t)
       /\ \A i \in 1 .. Need(t) : Devs(me'[t], cache)[i].id = seq[i]
  BY <1>4, <1>6, <1>9
<1>11. Distinct(Devs(me'[t], cache))  BY <1>5, <1>10 DEF Distinct
<1>12. \A i \in 1 .. Need(t) : seq[i] \in FlowIds \ pool /\ seq[i] \in pool'
  BY <1>1, <1>2, <1>3
<1>13. ASSUME NEW f \in pool' \ pool  PROVE \E i \in 1 .. Need(t) : seq[i] = f
  <2>1. f \in S  BY <1>2, <1>13
  <2>2. S \in SUBSET FlowIds  BY <1>3
  <2>3. seq \in [1 .. Cardinality(S) -> S]  BY <1>1, <1>2
  <2>4. \A i, j \in 1 .. Cardinality(S) : i # j => seq[i] # seq[j]  BY <1>2, <1>5
  <2>5. \E i \in 1 .. Cardinality(S) : seq[i] = f  BY <2>1, <2>2, <2>3, <2>4, Onto
  <2> QED  BY <1>2, <2>5
<1>14. \A f \in pool' \ pool : \E i \in 1 .. Need(t) : Devs(me'[t], cache)[i].id = f
  BY <1>10, <1>13
<1>15. OwnIds(me'[t])  BY <1>0, <1>6, <1>8 DEF OwnIds
<1>16. \A i \in 1 .. Need(t) : /\ Devs(me'[t], cache)[i].id \in FlowIds \ pool
                               /\ Devs(me'[t], cache)[i].id \in pool'
  BY <1>10, <1>12
<1>17. pool \subseteq pool'  BY <1>2
<1> QED  BY <1>0, <1>2, <1>6, <1>7, <1>8, <1>10, <1>11, <1>14, <1>15, <1>16, <1>17

(* A pointer into the cache is taken.                                      *)
LEMMA PointFacts ==
  ASSUME TypeInv, NEW t \in Threads, NEW p, NEW v \in Flows,
         pc' = [pc EXCEPT ![t] = p], me' = [me EXCEPT ![t].ptr = v]
  PROVE  /\ pc'[t] = p /\ me'[t].op = me[t].op /\ me'[t].flow = me[t].flow /\ me'[t].sym = me[t].sym
         /\ me'[t].ids = me[t].ids /\ me'[t].idx = me[t].idx /\ me'[t].ptr = v
<1>1. pc \in [Threads -> PCs] /\ me \in [Threads -> Calls] /\ me[t] \in Calls  BY TypeParts
<1>2. me'[t] = [me[t] EXCEPT !.ptr = v]  BY <1>1
<1> QED  BY <1>1, <1>2, SetPtr

(* A call begins to work on the device flows of an entry.                  *)
TakesUp(t, v) ==
  /\ v \in Flows /\ Cached(v)
  /\ me'[t].op = me[t].op /\ me'[t].flow = me[t].flow /\ me'[t].ids = <<>>
  /\ me'[t].idx = 1 /\ me'[t].ptr = v
  /\ UNCHANGED <<pool, cache, symmap, maps, acl, bal, tainted>>

LEMMA DerefFacts ==
  ASSUME Sound, NEW t \in Threads, Deref(t), Cached(me[t].sym)
  PROVE  /\ pc[t] = "deref" /\ pc'[t] = "add" /\ me[t].op = "add"
         /\ TakesUp(t, me[t].sym) /\ Twin(me[t].flow, me[t].sym)
<1>0. /\ pc[t] = "deref" /\ TypeInv /\ me[t].op = "add" /\ me[t].flow \in Flows /\ Busy(t)
      /\ Shape(pc[t], me[t], cache) /\ me[t].sym # None /\ me[t].sym \in Flows
  <2>1. pc[t] = "deref" /\ TypeInv /\ Busy(t)  BY DEF Deref, Sound, Busy
  <2>2. me[t].sym # None /\ me[t].sym \in Flows  BY <2>1, LocalFacts DEF TypeInv, RunsAt
  <2> QED  BY <2>1, <2>2, OpAt DEF Sound, ShapeInv
<1>1. pc' = [pc EXCEPT ![t] = "add"] /\ me' = [me EXCEPT ![t].ptr = me[t].sym]  BY DEF Deref
<1>2. me[t].idx = 1 /\ me[t].ids = <<>>  BY <1>0 DEF Shape, BeginsClean, Preparing
<1>3. Twin(me[t].flow, me[t].sym)  BY <1>0 DEF Shape, HasLink
<1>4. UNCHANGED <<pool, cache, symmap, maps, acl, bal, tainted>>  BY DEF Deref
<1>5. /\ pc'[t] = "add" /\ me'[t].op = me[t].op /\ me'[t].flow = me[t].flow
      /\ me'[t].ids = me[t].ids /\ me'[t].idx = me[t].idx /\ me'[t].ptr = me[t].sym
  BY <1>0, <1>1, PointFacts
<1> QED  BY <1>0, <1>2, <1>3, <1>4, <1>5 DEF TakesUp

LEMMA GetFacts ==
  ASSUME Sound, NEW t \in Threads, GetDeviceFlow(t), Cached(me[t].flow)
  PROVE  /\ pc[t] = "get" /\ pc'[t] = "rmaps" /\ me[t].op = "remove" /\ TakesUp(t, me[t].flow)
<1>0. /\ pc[t] = "get" /\ TypeInv /\ me[t].op = "remove" /\ me[t].flow \in Flows /\ Busy(t)
      /\ Shape(pc[t], me[t], cache)
  <2>1. pc[t] = "get" /\ TypeInv /\ Busy(t)  BY DEF GetDeviceFlow, Sound, Busy
  <2> QED  BY <2>1, OpAt DEF Sound, ShapeInv
<1>1. pc' = [pc EXCEPT ![t] = "rmaps"] /\ me' = [me EXCEPT ![t].ptr = me[t].flow]
  BY DEF GetDeviceFlow
<1>2. me[t].idx = 1 /\ me[t].ids = <<>>  BY <1>0 DEF Shape, BeginsClean, Preparing
<1>4. UNCHANGED <<pool, cache, symmap, maps, acl, bal, tainted>>  BY DEF GetDeviceFlow
<1>5. /\ pc'[t] = "rmaps" /\ me'[t].op = me[t].op /\ me'[t].flow = me[t].flow
      /\ me'[t].ids = me[t].ids /\ me'[t].idx = me[t].idx /\ me'[t].ptr = me[t].flow
  BY <1>0, <1>1, PointFacts
<1> QED  BY <1>0, <1>2, <1>4, <1>5 DEF TakesUp

LEMMA UpdateCacheFacts ==
  ASSUME Sound, NEW t \in Threads, UpdateCache(t)
  PROVE  /\ pc[t] = "cache" /\ me[t].op = "add" /\ cache[me[t].flow] = <<>>
         /\ cache' = [cache EXCEPT ![me[t].flow] = Devs(me[t], cache)]
         /\ \/ R(t).kind = "datapath" /\ pc'[t] = "link" /\ me'[t] = me[t]
            \/ R(t).kind # "datapath" /\ Ends(t)
         /\ UNCHANGED <<pool, symmap, maps, acl, bal, tainted>>
<1>0. /\ pc[t] = "cache" /\ pc[t] \in AtFlow /\ TypeInv /\ me[t].op = "add" /\ Busy(t)
      /\ Shape(pc[t], me[t], cache)
  <2>1. pc[t] = "cache" /\ pc[t] \in AtFlow /\ TypeInv /\ Busy(t)
    BY DEF UpdateCache, Sound, Busy, AtFlow
  <2> QED  BY <2>1, OpAt DEF Sound, ShapeInv
<1> DEFINE d == Devs(me[t], cache)
           n == Need(t)
<1>1. PICK ps \in [1 .. n -> UNION {Param(t, i) : i \in 1 .. n}] :
        /\ \A i \in 1 .. n : ps[i] \in Param(t, i)
        /\ cache' = [cache EXCEPT ![me[t].flow] = ps]
  BY DEF UpdateCache
<1>2. /\ d \in Seq(Params) /\ DOMAIN d = 1 .. n /\ \A i \in 1 .. n : Param(t, i) = {d[i]}
      /\ n \in Nat
  BY <1>0, DevFacts
<1>3. \A i \in 1 .. n : ps[i] = d[i]  BY <1>1, <1>2
<1> HIDE DEF d, n
<1>4. ps = d
  <2>1. ps = [i \in 1 .. n |-> ps[i]]  BY <1>1
  <2>2. d = [i \in 1 .. n |-> d[i]]  BY <1>2
  <2> QED  BY <1>3, <2>1, <2>2
<1>5. cache[me[t].flow] = <<>>  BY <1>0 DEF Shape, HasEntry, AtFlow
<1>6. \/ R(t).kind = "datapath" /\ pc'[t] = "link" /\ me'[t] = me[t]
      \/ R(t).kind # "datapath" /\ Ends(t)
  BY <1>0, ReturnFacts, PlainFacts DEF UpdateCache
<1> QED  BY <1>0, <1>1, <1>4, <1>5, <1>6 DEF d, UpdateCache

-----------------------------------------------------------------------------
(* The steps of a call that does not work on device flows.                 *)

Outside(p) == p \notin AtFlow /\ p # "uncache"

QuietAction(t) ==
  \/ Lookup(t) \/ AlreadyInstalled(t) \/ NotInstalled(t) \/ CheckSymmetric(t)
  \/ Deref(t) /\ ~Cached(me[t].sym)
  \/ AllocInvalid(t) \/ AllocSpins(t) \/ Link(t)
  \/ NotFound(t) \/ Found(t) \/ Unlink(t)
  \/ GetDeviceFlow(t) /\ ~Cached(me[t].flow)

Quiet(t) ==
  /\ Outside(pc[t]) /\ Outside(pc'[t])
  /\ pool \subseteq pool' /\ (pool' \subseteq pool \cup {0} \/ pc'[t] = "spin")
  /\ UNCHANGED <<cache, maps, acl, bal, tainted>>

LEMMA ReturnShape ==
  ASSUME NEW t \in Threads, Ends(t)
  PROVE  pc'[t] = "idle" /\ Outside(pc'[t])
BY DEF Ends, Outside, AtFlow, Undoing

LEMMA QuietFacts ==
  ASSUME Sound, NEW t \in Threads, QuietAction(t)
  PROVE  Quiet(t) /\ (pc'[t] # "idle" => Shape(pc'[t], me'[t], cache))
<1>0. TypeInv /\ LinkInv  BY DEF Sound, ShapeInv
<1> DEFINE p == pc'[t]
<1>1. ASSUME NEW q \in {"lookup", "check", "symm", "deref", "alloc", "link", "get", "unlink"},
             pc[t] = q
      PROVE  /\ Outside(pc[t]) /\ Busy(t) /\ me[t].flow \in Flows /\ Shape(pc[t], me[t], cache)
             /\ q \in {"lookup", "check", "symm", "deref", "alloc", "get"} =>
                  me[t].idx = 1 /\ me[t].ids = <<>>
  <2>1. Outside(pc[t]) /\ Busy(t)  BY <1>1 DEF Outside, Busy, AtFlow, Undoing
  <2>2. me[t].flow \in Flows /\ Shape(pc[t], me[t], cache)
    BY <1>0, <2>1, OpAt DEF Sound, ShapeInv
  <2> QED  BY <1>1, <2>1, <2>2 DEF Shape, BeginsClean, Preparing
<1>2. ASSUME Return(t)  PROVE p = "idle" /\ Outside(p)
  BY <1>0, <1>2, ReturnFacts, ReturnShape
<1>3. CASE \/ AlreadyInstalled(t) \/ NotFound(t)
           \/ Deref(t) /\ ~Cached(me[t].sym)
           \/ GetDeviceFlow(t) /\ ~Cached(me[t].flow)
  BY <1>1, <1>2, <1>3 DEF Quiet, AlreadyInstalled, Deref, NotFound, GetDeviceFlow
<1>4. CASE AllocInvalid(t)
  BY <1>1, <1>2, <1>4 DEF Quiet, AllocInvalid
<1>5. CASE Link(t) \/ Unlink(t)
  BY <1>1, <1>2, <1>5 DEF Quiet, Link, Unlink
<1>6. CASE AllocSpins(t)
  <2>1. pc[t] = "alloc" /\ p = "spin" /\ me'[t] = me[t]
    BY <1>0, <1>6, PlainFacts DEF AllocSpins, Go
  <2>2. pool \subseteq pool'  BY <1>0, <1>6 DEF AllocSpins, TypeInv, TypeOK
  <2>3. Shape(p, me'[t], cache)
    BY <2>1 DEF Shape, BeginsClean, HasLink, HasEntry, HasPointer, HasDevices, HasCurrent,
                Preparing, AtFlow, Undoing
  <2>4. Outside(p)  BY <2>1 DEF Outside, AtFlow, Undoing
  <2>5. UNCHANGED <<cache, maps, acl, bal, tainted>>  BY <1>6 DEF AllocSpins
  <2> QED  BY <1>1, <2>1, <2>2, <2>3, <2>4, <2>5 DEF Quiet
<1>7. ASSUME p \in {"check", "symm", "deref", "alloc", "get"},
             me'[t].idx = 1, me'[t].ids = <<>>,
             p \in {"check", "symm", "deref"} /\ me'[t].op = "add" /\ me'[t].sym # None =>
               Twin(me'[t].flow, me'[t].sym),
             p \in {"symm", "deref", "alloc"} => cache[me'[t].flow] = <<>>,
             p = "get" => cache[me'[t].flow] # <<>> /\ me'[t].op = "remove"
      PROVE  Shape(p, me'[t], cache) /\ Outside(p)
  BY <1>7 DEF Shape, BeginsClean, HasLink, HasEntry, HasPointer, HasDevices, HasCurrent,
              Preparing, AtFlow, Undoing, Outside
<1>8. CASE NotInstalled(t) \/ CheckSymmetric(t) \/ Found(t)
  <2>1. pc[t] \in {"check", "symm"} /\ me' = me /\ Shape(pc[t], me[t], cache)
        /\ me[t].idx = 1 /\ me[t].ids = <<>>
    BY <1>1, <1>8 DEF NotInstalled, CheckSymmetric, Found, Go
  <2>2. p \in {"symm", "deref", "alloc", "get"}
    <3>1. \E q \in {"symm", "deref", "alloc", "get"} : pc' = [pc EXCEPT ![t] = q]
      BY <1>8 DEF NotInstalled, CheckSymmetric, Found, Go
    <3> QED  BY <1>0, <3>1, TypeParts
  <2>3. me[t].op = "add" /\ me[t].sym # None => Twin(me[t].flow, me[t].sym)
    BY <2>1 DEF Shape, HasLink
  <2>4. /\ p \in {"symm", "deref", "alloc"} => cache[me[t].flow] = <<>>
        /\ p = "get" => cache[me[t].flow] # <<>> /\ me[t].op = "remove"
    <3>1. pc \in [Threads -> PCs]  BY <1>0, TypeParts
    <3>2. CASE NotInstalled(t)
      <4>1. p = "symm"  BY <3>1, <3>2 DEF NotInstalled, Go
      <4> QED  BY <3>2, <4>1 DEF NotInstalled, Cached
    <3>3. CASE Found(t)
      <4>1. p = "get"  BY <3>1, <3>3 DEF Found, Go
      <4> QED  BY <3>3, <4>1 DEF Found, Cached
    <3>4. CASE CheckSymmetric(t)
      <4>1. p \in {"deref", "alloc"} /\ pc[t] = "symm"  BY <3>1, <3>4 DEF CheckSymmetric, Go
      <4>2. me[t].op = "add"  BY <1>0, <4>1, OpAt
      <4> QED  BY <2>1, <4>1, <4>2 DEF Shape, HasEntry
    <3> QED  BY <1>8, <3>2, <3>3, <3>4
  <2>5. Shape(p, me'[t], cache) /\ Outside(p)  BY <1>7, <2>1, <2>2, <2>3, <2>4
  <2>6. UNCHANGED <<pool, cache, maps, acl, bal, tainted>>
    BY <1>8 DEF NotInstalled, CheckSymmetric, Found
  <2>7. Outside(pc[t])  BY <1>1, <2>1
  <2> QED  BY <2>5, <2>6, <2>7 DEF Quiet
<1>9. CASE Lookup(t)
  <2> DEFINE v == symmap[<<R(t).sub, InverseFlowType(R(t).type)>>]
  <2>1. pc[t] = "lookup" /\ pc' = [pc EXCEPT ![t] = "check"] /\ me' = [me EXCEPT ![t].sym = v]
    BY <1>9 DEF Lookup, Go
  <2>2. /\ Busy(t) /\ me[t].flow \in Flows /\ Shape(pc[t], me[t], cache) /\ Outside(pc[t])
        /\ me[t].idx = 1 /\ me[t].ids = <<>>
    BY <1>1, <2>1
  <2>3. R(t).sub \in Subs /\ InverseFlowType(R(t).type) \in Types  BY <2>2, ReqFacts DEF R
  <2>4. v \in Flows \cup {None}  BY <1>0, <2>3 DEF TypeInv, TypeOK
  <2>5. v # None => Twin(me[t].flow, v)
    <3>1. Req[me[t].flow].kind = "datapath"  BY <2>1, <2>2 DEF Shape, HasLink
    <3>2. v # None => /\ Req[v].kind = "datapath" /\ Req[v].sub = R(t).sub
                      /\ Req[v].type = InverseFlowType(R(t).type)
      BY <1>0, <2>3 DEF LinkInv
    <3> QED  BY <3>1, <3>2 DEF Twin, R
  <2> HIDE DEF v
  <2>6. /\ p = "check" /\ me'[t] = [me[t] EXCEPT !.sym = v] /\ me[t] \in Calls
    BY <1>0, <2>1, TypeParts
  <2>7. me'[t].idx = 1 /\ me'[t].ids = <<>> /\ me'[t].flow = me[t].flow /\ me'[t].sym = v
    BY <2>2, <2>4, <2>6, SetSym
  <2>10. me'[t].sym # None => Twin(me'[t].flow, me'[t].sym)  BY <2>5, <2>7
  <2>11. p = "check"  BY <2>6
  <2>8. Shape(p, me'[t], cache) /\ Outside(p)  BY <1>7, <2>7, <2>10, <2>11
  <2>9. UNCHANGED <<pool, cache, maps, acl, bal, tainted>>  BY <1>9 DEF Lookup
  <2> QED  BY <2>2, <2>8, <2>9 DEF Quiet
<1> HIDE DEF p
<1> QED  BY <1>3, <1>4, <1>5, <1>6, <1>8, <1>9 DEF QuietAction

(* A new call.                                                             *)
LEMMA CallQuiet ==
  ASSUME Sound, NEW t \in Threads, NEW v \in Flows, NEW op \in {"add", "remove"}, Call(t, v, op)
  PROVE  Quiet(t) /\ Shape(pc'[t], me'[t], cache)
<1>0. TypeInv  BY DEF Sound
<1>1. /\ pc[t] = "idle" /\ pc'[t] \in {"lookup", "check"}
      /\ me'[t].op = op /\ me'[t].flow = v /\ me'[t].ids = <<>> /\ me'[t].idx = 1
      /\ me'[t].sym = None
      /\ UNCHANGED <<pool, cache, symmap, maps, acl, bal, tainted>>
  BY <1>0, CallFacts
<1>2. pc'[t] = "lookup" => Req[v].kind = "datapath"
  <2>1. pc' = [pc EXCEPT ![t] = IF op = "add" /\ Req[v].kind = "datapath"
                                THEN "lookup" ELSE "check"]
    BY DEF Call, Go
  <2> QED  BY <1>0, <2>1, TypeParts
<1>3. Outside(pc[t]) /\ Outside(pc'[t])  BY <1>1 DEF Outside, AtFlow, Undoing
<1>4. Shape(pc'[t], me'[t], cache)
  BY <1>1, <1>2 DEF Shape, BeginsClean, HasLink, HasEntry, HasPointer, HasDevices, HasCurrent,
              Preparing, AtFlow, Undoing
<1> QED  BY <1>1, <1>3, <1>4 DEF Quiet

-----------------------------------------------------------------------------
(* Every step keeps the shape.                                             *)

LEMMA ShapeAt ==
  ASSUME Sound, NEW t \in Threads, pc[t] \in AtFlow, NEW p \in AtFlow, NEW d, Keeps(me[t], d),
         d.idx \in 1 .. Need(t),
         p \in {"rmaps", "rbal"} /\ me[t].op = "add" => d.idx < Need(t),
         p \in {"bal", "rbal"} => d.cur = Devs(me[t], cache)[d.idx],
         p = "free" /\ me[t].op = "add" /\ ~R(t).replicate => d.cur = Devs(me[t], cache)[1]
  PROVE  Shape(p, d, cache)
<1>0. Shape(pc[t], me[t], cache) /\ Need(t) \in Nat /\ Count(me[t]) = Need(t)
  BY DevFacts DEF Sound, ShapeInv, Count, Need, R
<1>1. Devs(d, cache) = Devs(me[t], cache) /\ Count(d) = Need(t)  BY <1>0, KeepDevs
<1>2. p \notin Preparing /\ pc[t] \notin Preparing  BY DEF Preparing, AtFlow, Undoing
<1>3. BeginsClean(p, d) /\ HasLink(p, d)  BY <1>2 DEF BeginsClean, HasLink, Preparing, AtFlow, Undoing
<1>4. HasEntry(p, d, cache)
  BY <1>0, <1>2 DEF Shape, HasEntry, Keeps, Preparing, AtFlow, Undoing
<1>5. HasPointer(p, d, cache)  BY <1>0 DEF Shape, HasPointer, Keeps
<1>6. HasDevices(p, d, cache)
  <2>1. Len(Devs(d, cache)) = Count(d) /\ Distinct(Devs(d, cache))
    BY <1>0, <1>1 DEF Shape, HasDevices
  <2>2. d.idx <= Count(d)  BY <1>0, <1>1
  <2>3. p \in {"rmaps", "rbal"} /\ d.op = "add" => d.idx < Count(d)  BY <1>1 DEF Keeps
  <2> QED  BY <2>1, <2>2, <2>3 DEF HasDevices
<1>7. HasCurrent(p, d, cache)  BY <1>1 DEF HasCurrent, Keeps, R
<1> QED  BY <1>3, <1>4, <1>5, <1>6, <1>7 DEF Shape

LEMMA ShapeFree ==
  ASSUME NEW p \in {"link", "unlink", "spin"}, NEW c, NEW ca,
         p = "link" => Req[c.flow].kind = "datapath"
  PROVE  Shape(p, c, ca)
BY DEF Shape, BeginsClean, HasLink, HasEntry, HasPointer, HasDevices, HasCurrent, Preparing,
       AtFlow, Undoing

LEMMA ShapeUndoes ==
  ASSUME Sound, NEW t \in Threads, pc[t] \in {"bal", "rmaps", "rbal"}, Undoes(t), pc'[t] # "idle"
  PROVE  Shape(pc'[t], me'[t], cache)
<1>0. pc[t] \in AtFlow /\ {"rmaps", "free"} \subseteq AtFlow  BY DEF AtFlow, Undoing
<1>1. /\ me[t].idx \in 1 .. Need(t) /\ Need(t) \in Nat /\ Shape(pc[t], me[t], cache)
      /\ Count(me[t]) = Need(t) /\ me[t].flow \in Flows
  BY <1>0, DevFacts DEF Sound, ShapeInv, Count, Need, R
<1>2. CASE /\ me[t].idx > 1 /\ pc'[t] = "rmaps" /\ Keeps(me[t], me'[t])
           /\ me'[t].idx = me[t].idx - 1 /\ me'[t].idx \in 1 .. Need(t) /\ me'[t].idx < Need(t)
  BY <1>0, <1>2, ShapeAt
<1>3. CASE Ends(t)  BY <1>3 DEF Ends
<1>4. CASE me[t].idx = 1 /\ pc'[t] = "free" /\ me'[t] = me[t]
  <2>1. ~R(t).replicate => Need(t) = 1
    <3>1. \A v \in Flows : ~Req[v].replicate => Len(Req[v].gems) = 1  BY FlowAssumption
    <3> QED  BY <1>1, <3>1 DEF Need, R
  <2>2. me[t].op = "add"  BY DEF Undoes
  <2>3. pc[t] \in {"rmaps", "rbal"} => 1 < Need(t)
    BY <1>1, <1>4, <2>2 DEF Shape, HasDevices
  <2>4. ~R(t).replicate => pc[t] = "bal"  BY <1>1, <2>1, <2>3
  <2>5. ~R(t).replicate => me[t].cur = Devs(me[t], cache)[1]
    <3>1. pc[t] = "bal" => me[t].cur = Here(t)  BY <1>0, HereFacts
    <3> QED  BY <1>4, <2>4, <3>1 DEF Here
  <2>6. Keeps(me[t], me'[t]) /\ me'[t].idx \in 1 .. Need(t)  BY <1>1, <1>4 DEF Keeps
  <2> QED  BY <1>0, <1>4, <2>5, <2>6, ShapeAt
<1> QED  BY <1>2, <1>3, <1>4 DEF Undoes

LEMMA ShapeSteps ==
  ASSUME Sound, PairedRequests, NEW t \in Threads, Add(t) \/ Remove(t), pc'[t] # "idle"
  PROVE  Shape(pc'[t], me'[t], cache')
<1> DEFINE c == me[t]
           d == me'[t]
<1>0. TypeInv /\ EntryInv /\ (pc[t] \in AtFlow => Busy(t) /\ Shape(pc[t], me[t], cache))
  BY DevFacts DEF Sound, ShapeInv
<1>1. CASE QuietAction(t)
  <2>1. cache' = cache  BY <1>1, QuietFacts DEF Quiet
  <2>2. Shape(pc'[t], me'[t], cache)  BY <1>1, QuietFacts
  <2> QED  BY <2>1, <2>2
<1>2. CASE Alloc(t)
  <2>1. Count(d) = Need(t) /\ d.op = "add" /\ d.ids # <<>>
    BY <1>2, AllocFacts DEF Count, Need, R, OwnIds
  <2>2. c.idx = 1 /\ cache[c.flow] = <<>> /\ Need(t) \in Nat /\ Need(t) >= 1
    <3>1. pc[t] = "alloc" /\ Busy(t) /\ c.op = "add"  BY <1>2, AllocFacts DEF Busy
    <3>2. Shape(pc[t], c, cache) /\ Need(t) \in Nat /\ Need(t) >= 1
      BY <1>0, <3>1, FlowFacts, FlowAssumption DEF Sound, ShapeInv
    <3> QED  BY <3>1, <3>2 DEF Shape, BeginsClean, HasEntry, Preparing
  <2>3. /\ pc'[t] = "add" /\ d.idx = 1 /\ d.flow = c.flow /\ cache' = cache
        /\ Distinct(Devs(d, cache)) /\ Len(Devs(d, cache)) = Need(t)
    BY <1>2, <2>2, AllocFacts
  <2>4. HasDevices("add", d, cache)
    BY <2>1, <2>2, <2>3 DEF HasDevices
  <2>5. BeginsClean("add", d) /\ HasLink("add", d) /\ HasEntry("add", d, cache)
        /\ HasPointer("add", d, cache) /\ HasCurrent("add", d, cache)
    BY <2>1, <2>2, <2>3 DEF BeginsClean, HasLink, HasEntry, HasPointer, HasCurrent, Preparing
  <2> QED  BY <2>3, <2>4, <2>5 DEF Shape
<1>3. ASSUME NEW v, TakesUp(t, v), Len(Req[v].gems) = Need(t), pc'[t] \in {"add", "rmaps"}
      PROVE  /\ Len(Devs(d, cache)) = Count(d) /\ Distinct(Devs(d, cache)) /\ d.idx <= Count(d)
             /\ Devs(d, cache) = cache[v] /\ cache' = cache /\ me[t].flow \in Flows
  <2>1. Busy(t)  BY BusySteps
  <2>2. me[t].flow \in Flows /\ Need(t) \in Nat /\ Need(t) >= 1
    BY <1>0, <2>1, OpAt, FlowFacts, FlowAssumption
  <2>3. Count(d) = Need(t) /\ d.idx = 1 /\ Devs(d, cache) = cache[v] /\ cache' = cache
    BY <1>3 DEF TakesUp, Count, Need, R, Devs, OwnIds
  <2>4. Len(cache[v]) = Need(t) /\ Distinct(cache[v])
    BY <1>0, <1>3 DEF TakesUp, EntryInv
  <2> QED  BY <2>2, <2>3, <2>4
<1>4. CASE Deref(t) /\ Cached(me[t].sym)
  <2>1. /\ pc[t] = "deref" /\ pc'[t] = "add" /\ c.op = "add" /\ TakesUp(t, c.sym)
        /\ Twin(c.flow, c.sym)
    BY <1>4, DerefFacts
  <2>2. /\ c.flow \in Flows /\ c.sym \in Flows /\ cache[c.flow] = <<>>
    <3>1. Busy(t)  BY <2>1 DEF Busy
    <3>2. c.flow \in Flows /\ Shape(pc[t], c, cache)  BY <1>0, <3>1, OpAt DEF Sound, ShapeInv
    <3> QED  BY <2>1, <3>2 DEF Shape, HasEntry, TakesUp
  <2>3. Len(Req[c.sym].gems) = Need(t)
    BY <2>1, <2>2 DEF PairedRequests, Twin, Need, R
  <2>4. HasDevices("add", d, cache) /\ cache' = cache
    BY <1>3, <2>1, <2>3 DEF HasDevices
  <2>5. HasPointer("add", d, cache)  BY <2>1 DEF HasPointer, TakesUp, Cached
  <2>6. BeginsClean("add", d) /\ HasLink("add", d) /\ HasEntry("add", d, cache)
        /\ HasCurrent("add", d, cache)
    BY <2>1, <2>2 DEF BeginsClean, HasLink, HasEntry, HasCurrent, Preparing, TakesUp
  <2> QED  BY <2>1, <2>4, <2>5, <2>6 DEF Shape
<1>5. CASE GetDeviceFlow(t) /\ Cached(me[t].flow)
  <2>1. pc[t] = "get" /\ pc'[t] = "rmaps" /\ c.op = "remove" /\ TakesUp(t, c.flow)
    BY <1>5, GetFacts
  <2>2. HasDevices("rmaps", d, cache) /\ cache' = cache
    BY <1>3, <2>1 DEF HasDevices, Need, R, TakesUp
  <2>3. HasPointer("rmaps", d, cache) /\ HasEntry("rmaps", d, cache)
    BY <2>1 DEF HasPointer, HasEntry, TakesUp, Cached
  <2>4. BeginsClean("rmaps", d) /\ HasLink("rmaps", d) /\ HasCurrent("rmaps", d, cache)
    BY DEF BeginsClean, HasLink, HasCurrent, Preparing
  <2> QED  BY <2>1, <2>2, <2>3, <2>4 DEF Shape
<1>6. CASE AddMaps(t)
  <2>1. /\ pc[t] \in AtFlow /\ pc'[t] = "bal" /\ "bal" \in AtFlow /\ Keeps(c, d)
        /\ d.idx = c.idx /\ d.cur = Devs(c, cache)[d.idx] /\ cache' = cache
    BY <1>6, AddMapsFacts DEF Here, AtFlow
  <2> QED  BY <2>1, DevFacts, ShapeAt
<1>7. CASE AddSucceeds(t)
  <2>1. /\ pc[t] \in AtFlow /\ pc'[t] \in {"cache", "add"} /\ {"cache", "add"} \subseteq AtFlow
        /\ Keeps(c, d) /\ d.idx \in 1 .. Need(t) /\ cache' = cache
    <3>1. pc[t] = "bal" /\ pc[t] \in AtFlow  BY <1>7, AddSucceedsFacts DEF AtFlow
    <3>2. c.idx \in 1 .. Need(t)  BY <3>1, DevFacts
    <3> QED  BY <1>7, <3>1, <3>2, AddSucceedsFacts DEF AtFlow, Keeps
  <2> QED  BY <2>1, ShapeAt
<1>8. CASE AddFails(t)
  <2>1. pc[t] = "bal" /\ Undoes(t) /\ cache' = cache  BY <1>8, AddFailsFacts
  <2> QED  BY <2>1, ShapeUndoes
<1>9. ASSUME pc[t] \in {"rmaps", "rbal"}, Clears(t)  PROVE Shape(pc'[t], d, cache)
  <2>1. CASE Undoes(t)  BY <1>9, <2>1, ShapeUndoes
  <2>2. CASE c.op = "remove" /\ pc'[t] = "free" /\ d = c
    <3>1. pc[t] \in AtFlow /\ "free" \in AtFlow /\ Keeps(c, d)
      BY <1>9, <2>2 DEF AtFlow, Undoing, Keeps
    <3> QED  BY <2>2, <3>1, DevFacts, ShapeAt
  <2> QED  BY <1>9, <2>1, <2>2 DEF Clears
<1>10. CASE RemoveAcl(t) \/ BalRemoves(t)
  <2>1. pc[t] \in {"rmaps", "rbal"} /\ Clears(t) /\ cache' = cache
    BY <1>10, RemoveAclFacts, BalRemovesFacts
  <2> QED  BY <1>9, <2>1
<1>11. CASE RemoveMaps(t)
  <2>1. /\ pc[t] = "rmaps" /\ pc[t] \in AtFlow /\ pc'[t] = "rbal" /\ "rbal" \in AtFlow /\ Keeps(c, d)
        /\ d.idx = c.idx /\ d.cur = Devs(c, cache)[d.idx] /\ cache' = cache
    BY <1>11, RemoveMapsFacts DEF Here, AtFlow, Undoing
  <2>2. c.op = "add" => c.idx < Need(t)
    BY <1>0, <2>1 DEF Shape, HasDevices, Count, Need, R
  <2> QED  BY <2>1, <2>2, DevFacts, ShapeAt
<1>12. ASSUME pc[t] \in {"rbal", "free"}, Continues(t)  PROVE Shape(pc'[t], d, cache)
  <2>0. pc[t] \in AtFlow /\ "rmaps" \in AtFlow  BY <1>12 DEF AtFlow, Undoing
  <2>1. CASE c.idx = Need(t) /\ pc'[t] = "uncache" /\ d = c
    <3>1. HasEntry("uncache", c, cache)
      BY <1>0, <1>12, <2>0 DEF Shape, HasEntry, Continues
    <3>2. BeginsClean("uncache", c) /\ HasLink("uncache", c) /\ HasPointer("uncache", c, cache)
          /\ HasDevices("uncache", c, cache) /\ HasCurrent("uncache", c, cache)
      BY DEF BeginsClean, HasLink, HasPointer, HasDevices, HasCurrent, Preparing, AtFlow, Undoing
    <3> QED  BY <2>1, <3>1, <3>2 DEF Shape
  <2>2. CASE /\ c.idx < Need(t) /\ pc'[t] = "rmaps" /\ Keeps(c, d)
             /\ d.idx = c.idx + 1 /\ d.idx \in 1 .. Need(t)
    BY <1>12, <2>0, <2>2, ShapeAt DEF Continues
  <2> QED  BY <1>12, <2>1, <2>2 DEF Continues
<1>13. CASE BalRefuses(t)
  <2>1. pc[t] = "rbal" /\ (Continues(t) \/ Undoes(t)) /\ cache' = cache
    BY <1>13, BalRefusesFacts
  <2> QED  BY <1>12, <2>1, ShapeUndoes
<1>14. CASE FreeAfterRemove(t)
  <2>1. pc[t] = "free" /\ Continues(t) /\ cache' = cache  BY <1>14, FreeAfterRemoveFacts
  <2> QED  BY <1>12, <2>1
<1>15. CASE FreeAfterAdd(t)
  <2>1. /\ pc[t] = "free" /\ pc[t] \in AtFlow /\ pc'[t] = "free" /\ Keeps(c, d)
        /\ d.idx \in 1 .. Need(t) /\ R(t).replicate /\ cache' = cache
    BY <1>15, FreeAfterAddFacts DEF AtFlow, Undoing, Ends
  <2> QED  BY <2>1, ShapeAt
<1>16. CASE UpdateCache(t)
  BY <1>16, UpdateCacheFacts, ShapeFree DEF Ends, R
<1>17. CASE Uncache(t)
  <2>1. pc'[t] = "unlink"  BY <1>0, <1>17, UncacheFacts, TypeParts
  <2> QED  BY <2>1, ShapeFree
<1> HIDE DEF c, d
<1> QED
  BY <1>1, <1>2, <1>4, <1>5, <1>6, <1>7, <1>8, <1>10, <1>11, <1>13, <1>14, <1>15, <1>16, <1>17
  DEF Add, Remove, QuietAction

LEMMA EntrySteps ==
  ASSUME Sound, NEW t \in Threads, Add(t) \/ Remove(t)
  PROVE  EntryInv'
<1>0. /\ Turn(t, me[t].flow) /\ Busy(t) /\ TypeInv /\ EntryInv /\ me[t].flow \in Flows
      /\ cache \in [Flows -> Seq(Params)]
  BY TurnSteps, OpAt, BusySteps DEF Sound, ShapeInv, TypeInv, TypeOK
<1>1. ASSUME cache'[me[t].flow] # <<>>
      PROVE  /\ Len(cache'[me[t].flow]) = Len(R(t).gems)
             /\ Distinct(cache'[me[t].flow])
  <2>1. CASE UpdateCache(t)
    <3>1. pc[t] \in AtFlow /\ cache'[me[t].flow] = Devs(me[t], cache)
      BY <1>0, <2>1, UpdateCacheFacts DEF AtFlow
    <3>2. Shape(pc[t], me[t], cache)  BY <1>0 DEF Sound, ShapeInv
    <3> QED  BY <3>1, <3>2 DEF Shape, HasDevices, Count, R
  <2>2. CASE Uncache(t)  BY <1>0, <1>1, <2>2, UncacheFacts
  <2>3. CASE ~UpdateCache(t) /\ ~Uncache(t)
    <3>1. UNCHANGED cache
      BY <2>3 DEF Add, Remove, Lookup, AlreadyInstalled, NotInstalled, CheckSymmetric, Deref, Alloc,
                  AllocInvalid, AllocSpins, AddMaps, AddSucceeds, AddFails, FreeAfterAdd, Link,
                  NotFound, Found, GetDeviceFlow, RemoveAcl, RemoveMaps, BalRemoves, BalRefuses,
                  FreeAfterRemove, Unlink
    <3> QED  BY <1>0, <1>1, <3>1 DEF EntryInv, Cached, R
  <2> QED  BY <2>1, <2>2, <2>3
<1>2. ASSUME NEW v \in Flows, cache'[v] # <<>>
      PROVE  Len(cache'[v]) = Len(Req[v].gems) /\ Distinct(cache'[v])
  <2>1. CASE v = me[t].flow  BY <1>1, <1>2, <2>1 DEF R
  <2>2. CASE v # me[t].flow
    <3>1. cache'[v] = cache[v]  BY <1>0, <2>2 DEF Turn
    <3> QED  BY <1>0, <1>2, <3>1 DEF EntryInv, Cached
  <2> QED  BY <2>1, <2>2
<1> QED  BY <1>2 DEF EntryInv, Cached, Distinct

LEMMA LinkInvSteps ==
  ASSUME Sound, NEW t \in Threads, Add(t) \/ Remove(t)
  PROVE  LinkInv'
<1>0. TypeInv /\ LinkInv /\ Busy(t) /\ me[t].flow \in Flows /\ symmap \in [Subs \X Types -> Flows \cup {None}]
  BY BusySteps, OpAt DEF Sound, ShapeInv, TypeInv, TypeOK
<1>1. ASSUME NEW s \in Subs, NEW type \in Types, symmap'[<<s, type>>] # None
      PROVE  /\ Req[symmap'[<<s, type>>]].kind = "datapath" /\ Req[symmap'[<<s, type>>]].sub = s
             /\ Req[symmap'[<<s, type>>]].type = type
  <2>1. \/ symmap'[<<s, type>>] = symmap[<<s, type>>]
        \/ Link(t) /\ <<s, type>> = <<R(t).sub, R(t).type>> /\ symmap'[<<s, type>>] = me[t].flow
    <3>1. CASE Link(t)
      <4>1. symmap' = [symmap EXCEPT ![<<R(t).sub, R(t).type>>] = me[t].flow]
        BY <3>1 DEF Link
      <4> QED  BY <1>0, <3>1, <4>1
    <3>2. CASE Unlink(t)
      <4>1. symmap' = [symmap EXCEPT ![<<R(t).sub, R(t).type>>] = None]
        BY <3>2 DEF Unlink
      <4> QED  BY <1>0, <1>1, <4>1
    <3>3. CASE ~Link(t) /\ ~Unlink(t)
      BY <3>3 DEF Add, Remove, Lookup, AlreadyInstalled, NotInstalled, CheckSymmetric, Deref, Alloc,
                  AllocInvalid, AllocSpins, AddMaps, AddSucceeds, AddFails, FreeAfterAdd, UpdateCache,
                  NotFound, Found, GetDeviceFlow, RemoveAcl, RemoveMaps, BalRemoves, BalRefuses,
                  FreeAfterRemove, Uncache
    <3> QED  BY <3>1, <3>2, <3>3
  <2>2. CASE symmap'[<<s, type>>] = symmap[<<s, type>>]
    BY <1>0, <1>1, <2>2 DEF LinkInv
  <2>3. CASE Link(t) /\ <<s, type>> = <<R(t).sub, R(t).type>> /\ symmap'[<<s, type>>] = me[t].flow
    <3>1. pc[t] = "link" /\ Shape(pc[t], me[t], cache)
      BY <1>0, <2>3 DEF Link, Sound, ShapeInv
    <3>2. Req[me[t].flow].kind = "datapath"  BY <3>1 DEF Shape, HasLink
    <3> QED  BY <2>3, <3>2 DEF R
  <2> QED  BY <2>1, <2>2, <2>3
<1> QED  BY <1>1 DEF LinkInv

LEMMA InitShape == Init => ShapeInv
<1> SUFFICES ASSUME Init  PROVE ShapeInv
  OBVIOUS
<1>1. \A t \in Threads : ~Busy(t)  BY DEF Init, Busy
<1>2. EntryInv  BY DEF Init, EntryInv, Cached
<1>3. LinkInv  BY DEF Init, LinkInv
<1> QED  BY <1>1, <1>2, <1>3 DEF ShapeInv, OneCallEach

LEMMA TurnShape ==
  ASSUME Sound, NEW t \in Threads, NEW O \in Flows, Turn(t, O), EntryInv', LinkInv',
         pc'[t] # "idle" => Shape(pc'[t], me'[t], cache')
  PROVE  ShapeInv'
<1>1. ASSUME NEW u \in Threads, pc'[u] # "idle"  PROVE Shape(pc'[u], me'[u], cache')
  <2>1. CASE u = t  BY <1>1, <2>1
  <2>2. CASE u # t
    <3>1. Busy(u)  BY <1>1, <2>2 DEF Turn, Busy
    <3> QED  BY <2>2, <3>1, ShapeElsewhere
  <2> QED  BY <2>1, <2>2
<1>2. ASSUME NEW u \in Threads, NEW w \in Threads, u # w, pc'[u] # "idle", pc'[w] # "idle"
      PROVE  Req[me'[u].flow].sub # Req[me'[w].flow].sub
  <2>1. ASSUME NEW x \in Threads \ {t}, pc'[x] # "idle"
        PROVE  Busy(x) /\ me'[x] = me[x] /\ R(x).sub # Req[O].sub
    BY <2>1 DEF Turn, Busy
  <2>2. CASE u = t
    <3>1. me'[u].flow = O  BY <1>2, <2>2 DEF Turn
    <3> QED  BY <1>2, <2>1, <2>2, <3>1 DEF R
  <2>3. CASE w = t
    <3>1. me'[w].flow = O  BY <1>2, <2>3 DEF Turn
    <3> QED  BY <1>2, <2>1, <2>3, <3>1 DEF R
  <2>4. CASE u # t /\ w # t
    BY <1>2, <2>1, <2>4 DEF Sound, ShapeInv, OneCallEach, R
  <2> QED  BY <2>2, <2>3, <2>4
<1>3. OneCallEach'  BY <1>2 DEF OneCallEach, Busy, R
<1>4. (\A u \in Threads : Busy(u) => Shape(pc[u], me[u], cache))'
  BY <1>1 DEF Busy, Shape, BeginsClean, HasLink, HasEntry, HasPointer, HasDevices, HasCurrent
<1> QED  BY <1>3, <1>4 DEF ShapeInv

LEMMA NextSound ==
  ASSUME Serialised, PairedRequests, Sound, [Next]_vars
  PROVE  Sound'
<1>0. TypeInv' /\ AliasInv'  BY NextType, NextAlias DEF Sound
<1>1. CASE UNCHANGED vars
  <2>1. UNCHANGED <<cache, symmap, pc, me>>  BY <1>1 DEF vars
  <2>2. EntryInv' /\ LinkInv' /\ OneCallEach'
    BY <2>1 DEF Sound, ShapeInv, EntryInv, LinkInv, OneCallEach, Cached, Busy, R, Distinct
  <2>3. \A u \in Threads : pc'[u] # "idle" => Shape(pc'[u], me'[u], cache')
    BY <2>1 DEF Sound, ShapeInv, Busy
  <2>4. (\A u \in Threads : Busy(u) => Shape(pc[u], me[u], cache))'
    BY <2>3 DEF Busy, Shape, BeginsClean, HasLink, HasEntry, HasPointer, HasDevices, HasCurrent
  <2> QED  BY <1>0, <2>2, <2>4 DEF Sound, ShapeInv
<1>2. ASSUME NEW t \in Threads, Add(t) \/ Remove(t)  PROVE Sound'
  <2>1. me[t].flow \in Flows /\ Turn(t, me[t].flow)  BY <1>2, TurnSteps DEF Turn
  <2>2. EntryInv' /\ LinkInv'  BY <1>2, EntrySteps, LinkInvSteps
  <2>3. pc'[t] # "idle" => Shape(pc'[t], me'[t], cache')  BY <1>2, ShapeSteps
  <2>4. ShapeInv'  BY <2>1, <2>2, <2>3, TurnShape
  <2> QED  BY <1>0, <2>4 DEF Sound
<1>3. ASSUME NEW t \in Threads, NEW v \in Flows, NEW op \in {"add", "remove"}, Call(t, v, op)
      PROVE  Sound'
  <2>1. Turn(t, v)  BY <1>3, TurnCall
  <2>2. UNCHANGED <<cache, symmap>>  BY <1>3 DEF Call
  <2>3. EntryInv' /\ LinkInv'
    BY <2>2 DEF Sound, ShapeInv, EntryInv, LinkInv, Cached, Distinct
  <2>4. Shape(pc'[t], me'[t], cache')  BY <1>3, <2>2, CallQuiet
  <2>5. ShapeInv'  BY <2>1, <2>3, <2>4, TurnShape
  <2> QED  BY <1>0, <2>5 DEF Sound
<1> QED  BY <1>1, <1>2, <1>3 DEF Next


-----------------------------------------------------------------------------
(***************************************************************************)
(* What becomes of the device flows of a VOLTHA flow v while a call at p   *)
(* with locals c works on it.  View: which they are.  Held: their ids are  *)
(* in use.  Fresh: nobody has been told about them (any more).  Done: they *)
(* are installed.  Mapped: packet-out knows them.                          *)
(***************************************************************************)
View(p, c, ca, v) ==
  IF p \in AtFlow THEN Devs(c, ca) ELSE IF p = "uncache" THEN <<>> ELSE ca[v]

Held(p, c, i) ==
  /\ p = "free" /\ c.op = "add" => c.ids # <<>>
  /\ p = "free" \/ (p \in AtFlow /\ c.op = "remove") => c.idx <= i

Fresh(p, c, i) ==
  \/ OwnIds(c) /\ p \in {"add", "bal", "free"} /\ c.idx <= i
  \/ OwnIds(c) /\ p \in {"rmaps", "rbal"} /\ c.idx < i
  \/ c.op = "remove" /\ p = "free" /\ c.idx = i

Done(p, c, i) ==
  /\ p \in {"add", "bal"} => i < c.idx
  /\ p \in Undoing => c.op = "remove" /\ c.idx <= i
  /\ p = "free" => c.idx # i

Mapped(p, c, i) ==
  p \notin Undoing /\ (p = "add" => i < c.idx) /\ (p = "bal" => i <= c.idx)

Is(what, p, c, i) ==
  \/ what = "held" /\ Held(p, c, i)
  \/ what = "fresh" /\ Fresh(p, c, i)
  \/ what = "done" /\ Done(p, c, i)
  \/ what = "mapped" /\ Mapped(p, c, i)

Part(what, p, c, ca, v) ==
  {View(p, c, ca, v)[i] : i \in {j \in DOMAIN View(p, c, ca, v) : Is(what, p, c, j)}}

Has(what, v, q) ==
  \/ Settled(v) /\ q \in Part(what, "idle", NoCall, cache, v)
  \/ \E t \in Threads : Busy(t) /\ me[t].flow = v /\ q \in Part(what, pc[t], me[t], cache, v)

Uses(v, f) == \E q \in Params : q.id = f /\ Has("held", v, q)

(***************************************************************************)
(* Ids in use are marked, and shared by the two data path flows of a       *)
(* subscriber at most.                                                     *)
(***************************************************************************)
Marked ==
  \A v \in Flows, f \in FlowIds \ tainted : Uses(v, f) => f \in pool

SharedByTwins ==
  \A v, w \in Flows, f \in FlowIds \ tainted :
    v # w /\ Uses(v, f) /\ Uses(w, f) => Twin(v, w)

UseInv == Marked /\ SharedByTwins

(***************************************************************************)
(* What BAL and the ACL table know has a marked id; they do not know what  *)
(* is fresh; they are told about a flow according to its kind.             *)
(***************************************************************************)
Known(f) == \E type \in Types : <<f, type>> \in bal \cup acl

KnownIsMarked == \A f \in FlowIds \ tainted : Known(f) => f \in pool

FreshIsUnknown ==
  \A v \in Flows, q \in Params :
    Has("fresh", v, q) /\ q.id \notin tainted => <<q.id, Req[v].type>> \notin bal \cup acl

ToldByKind ==
  \A v \in Flows, f \in FlowIds \ tainted, type \in Types :
    Uses(v, f) => <<f, type>> \notin IF Req[v].kind = "trap" THEN bal ELSE acl

KnowInv == KnownIsMarked /\ FreshIsUnknown /\ ToldByKind

(* Packet-out knows what it has been told.                                 *)
Leads(q, port) == q.id \in portFlows[port] /\ idGem[q.id] = q.gem

MapInv ==
  \A v \in Flows, q \in Params :
    /\ Req[v].kind = "datapath" /\ Req[v].type = "downstream"
    /\ Has("mapped", v, q) /\ q.id \notin tainted
    => Leads(q, Req[v].port)

(* What is installed is where its kind belongs.                            *)
Table(v) == IF Req[v].kind = "trap" THEN acl ELSE bal

DoneIsKnown ==
  \A v \in Flows, q \in Params :
    Has("done", v, q) /\ q.id \notin tainted => <<q.id, Req[v].type>> \in Table(v)

TrapsSkipBal ==
  \A t \in Threads :
    pc[t] = "rbal" /\ me[t].op = "remove" /\ R(t).kind = "trap" => Here(t).id \in tainted

InstallInv == DoneIsKnown /\ TrapsSkipBal

(* A marked id is in use, or BAL has a flow with it.                       *)
AccountInv ==
  PoolUnlocked =>
    \A f \in pool \ (tainted \cup {0}) :
      (\E v \in Flows : Uses(v, f)) \/ \E type \in Types : <<f, type>> \in bal

-----------------------------------------------------------------------------
(* In the turn of t, what other flows have is not touched.                 *)

LEMMA SameView ==
  ASSUME NEW p, NEW c, NEW ca, NEW cb, NEW v,
         p \in AtFlow => Devs(c, cb) = Devs(c, ca), cb[v] = ca[v]
  PROVE  \A what : Part(what, p, c, cb, v) = Part(what, p, c, ca, v)
<1>1. View(p, c, cb, v) = View(p, c, ca, v)  BY DEF View
<1> QED  BY <1>1 DEF Part

(* A flow at rest is what the cache says.                                  *)
LEMMA AtRest ==
  ASSUME NEW c, NEW d, NEW ca, NEW v, NEW what
  PROVE  Part(what, "idle", c, ca, v) = Part(what, "idle", d, ca, v)
<1>1. "idle" \notin AtFlow /\ "idle" \notin Undoing  BY DEF AtFlow, Undoing
<1>2. View("idle", c, ca, v) = ca[v] /\ View("idle", d, ca, v) = ca[v]  BY <1>1 DEF View
<1>3. \A i : Is(what, "idle", c, i) <=> Is(what, "idle", d, i)
  BY <1>1 DEF Is, Held, Fresh, Done, Mapped, Undoing
<1> QED  BY <1>2, <1>3 DEF Part

LEMMA HasNext ==
  ASSUME NEW what, NEW v, NEW q
  PROVE  Has(what, v, q)' <=>
           \/ /\ \A u \in Threads : pc'[u] # "idle" => me'[u].flow # v
              /\ q \in Part(what, "idle", NoCall, cache', v)
           \/ \E u \in Threads : /\ pc'[u] # "idle" /\ me'[u].flow = v
                                 /\ q \in Part(what, pc'[u], me'[u], cache', v)
BY DEF Has, Settled, Busy, Part, View, Devs, OwnIds, Is, Held, Fresh, Done, Mapped

LEMMA HasTurn ==
  ASSUME Sound, NEW t \in Threads, NEW O \in Flows, Turn(t, O), NEW what, NEW q
  PROVE  /\ \A v \in Flows \ {O} : Has(what, v, q)' <=> Has(what, v, q)
         /\ Has(what, O, q) <=> q \in Part(what, pc[t], me[t], cache, O)
         /\ Has(what, O, q)' <=> q \in Part(what, pc'[t], me'[t], cache', O)
<1>1. ASSUME NEW u \in Threads \ {t}
      PROVE  /\ pc'[u] = pc[u] /\ (Busy(u) => me'[u] = me[u] /\ me[u].flow # O)
             /\ Busy(u) => \A r \in Flows : me[u].flow = r =>
                  Part(what, pc[u], me[u], cache', r) = Part(what, pc[u], me[u], cache, r)
  <2>1. pc'[u] = pc[u]  BY DEF Turn
  <2>2. CASE Busy(u)
    <3>1. /\ me'[u] = me[u] /\ me[u].flow # O /\ cache'[me[u].flow] = cache[me[u].flow]
          /\ pc[u] \in AtFlow => Devs(me[u], cache') = Devs(me[u], cache)
      BY <2>2, Elsewhere
    <3>2. Part(what, pc[u], me[u], cache', me[u].flow) = Part(what, pc[u], me[u], cache, me[u].flow)
      BY <3>1, SameView
    <3> QED  BY <2>1, <3>1, <3>2
  <2> QED  BY <2>1, <2>2
<1>2. ASSUME NEW v \in Flows \ {O}  PROVE Has(what, v, q)' <=> Has(what, v, q)
  <2>1. (Busy(t) => me[t].flow # v) /\ (pc'[t] # "idle" => me'[t].flow # v)
    BY DEF Turn
  <2>2. Part(what, "idle", NoCall, cache', v) = Part(what, "idle", NoCall, cache, v)
    <3>1. cache'[v] = cache[v] /\ "idle" \notin AtFlow  BY DEF Turn, AtFlow, Undoing
    <3> QED  BY <3>1, SameView
  <2>3. \A u \in Threads : (pc'[u] # "idle" /\ me'[u].flow = v) <=> (Busy(u) /\ me[u].flow = v)
    BY <1>1, <2>1 DEF Busy
  <2>4. \A u \in Threads : Busy(u) /\ me[u].flow = v =>
          Part(what, pc'[u], me'[u], cache', v) = Part(what, pc[u], me[u], cache, v)
    BY <1>1, <2>1
  <2>5. Has(what, v, q)' <=>
           \/ /\ \A u \in Threads : ~(pc'[u] # "idle" /\ me'[u].flow = v)
              /\ q \in Part(what, "idle", NoCall, cache', v)
           \/ \E u \in Threads : /\ pc'[u] # "idle" /\ me'[u].flow = v
                                 /\ q \in Part(what, pc'[u], me'[u], cache', v)
    BY HasNext
  <2>6. Has(what, v, q) <=>
           \/ /\ \A u \in Threads : ~(Busy(u) /\ me[u].flow = v)
              /\ q \in Part(what, "idle", NoCall, cache, v)
           \/ \E u \in Threads : /\ Busy(u) /\ me[u].flow = v
                                 /\ q \in Part(what, pc[u], me[u], cache, v)
    BY DEF Has, Settled
  <2> QED  BY <2>2, <2>3, <2>4, <2>5, <2>6
<1>3. Has(what, O, q) <=> q \in Part(what, pc[t], me[t], cache, O)
  <2>1. \A u \in Threads \ {t} : Busy(u) => me[u].flow # O  BY <1>1
  <2>2. CASE Busy(t)
    <3>1. me[t].flow = O  BY <2>2 DEF Turn
    <3> QED  BY <2>1, <2>2, <3>1 DEF Has, Settled
  <2>3. CASE ~Busy(t)
    <3>1. Settled(O) /\ \A u \in Threads : Busy(u) => me[u].flow # O  BY <2>1, <2>3 DEF Settled
    <3>2. pc[t] = "idle"  BY <2>3 DEF Busy
    <3>3. Part(what, "idle", NoCall, cache, O) = Part(what, "idle", me[t], cache, O)  BY AtRest
    <3> QED  BY <3>1, <3>2, <3>3 DEF Has
  <2> QED  BY <2>2, <2>3
<1>4. Has(what, O, q)' <=> q \in Part(what, pc'[t], me'[t], cache', O)
  <2>1. \A u \in Threads \ {t} : pc'[u] # "idle" => me'[u].flow # O
    BY <1>1 DEF Busy
  <2>2. CASE pc'[t] # "idle"
    <3>1. me'[t].flow = O  BY <2>2 DEF Turn
    <3> QED  BY <2>1, <2>2, <3>1, HasNext
  <2>3. CASE pc'[t] = "idle"
    <3>1. \A u \in Threads : pc'[u] # "idle" => me'[u].flow # O  BY <2>1, <2>3
    <3>2. Part(what, "idle", NoCall, cache', O) = Part(what, "idle", me'[t], cache', O)  BY AtRest
    <3> QED  BY <2>3, <3>1, <3>2, HasNext
  <2> QED  BY <2>2, <2>3
<1> QED  BY <1>2, <1>3, <1>4

-----------------------------------------------------------------------------
(* What a step does to the parts of the flow it works on.                  *)

PartNow(what, t)  == Part(what, pc[t], me[t], cache, me[t].flow)
PartThen(what, t) == Part(what, pc'[t], me'[t], cache', me[t].flow)

LEMMA PartAt ==
  ASSUME Sound, NEW t \in Threads, pc[t] \in AtFlow, NEW p \in AtFlow, NEW d, Keeps(me[t], d),
         NEW what, NEW v
  PROVE  \A q : q \in Part(what, p, d, cache, v) <=>
           \E i \in 1 .. Need(t) : Is(what, p, d, i) /\ q = Devs(me[t], cache)[i]
<1>1. View(p, d, cache, v) = Devs(me[t], cache)  BY KeepDevs DEF View
<1>2. DOMAIN Devs(me[t], cache) = 1 .. Need(t)  BY DevFacts
<1> QED  BY <1>1, <1>2 DEF Part

LEMMA PartNowAt ==
  ASSUME Sound, NEW t \in Threads, pc[t] \in AtFlow, NEW what
  PROVE  \A q : q \in PartNow(what, t) <=>
           \E i \in 1 .. Need(t) : Is(what, pc[t], me[t], i) /\ q = Devs(me[t], cache)[i]
<1>1. Keeps(me[t], me[t])  BY DEF Keeps
<1> QED  BY <1>1, PartAt DEF PartNow

LEMMA PartThenAt ==
  ASSUME Sound, NEW t \in Threads, pc[t] \in AtFlow, pc'[t] \in AtFlow, Keeps(me[t], me'[t]),
         cache' = cache, NEW what
  PROVE  \A q : q \in PartThen(what, t) <=>
           \E i \in 1 .. Need(t) : Is(what, pc'[t], me'[t], i) /\ q = Devs(me[t], cache)[i]
BY PartAt DEF PartThen

LEMMA PartOutside ==
  ASSUME NEW p, Outside(p), NEW c, NEW ca, NEW v, NEW what
  PROVE  \A q : q \in Part(what, p, c, ca, v) <=>
           what \in {"held", "done", "mapped"} /\ \E i \in DOMAIN ca[v] : q = ca[v][i]
<1>1. View(p, c, ca, v) = ca[v]  BY DEF View, Outside
<1>2. \A i : Is(what, p, c, i) <=> what \in {"held", "done", "mapped"}
  BY DEF Is, Held, Fresh, Done, Mapped, Outside, AtFlow, Undoing
<1> QED  BY <1>1, <1>2 DEF Part

LEMMA PartUncache ==
  ASSUME NEW c, NEW ca, NEW v, NEW what
  PROVE  Part(what, "uncache", c, ca, v) = {}
<1>1. View("uncache", c, ca, v) = <<>>  BY DEF View, AtFlow, Undoing
<1> QED  BY <1>1 DEF Part

(* A call that returns leaves what the cache says.                         *)
LEMMA PartEnds ==
  ASSUME NEW t \in Threads, Ends(t), cache' = cache, NEW what
  PROVE  \A q : q \in PartThen(what, t) <=>
           what \in {"held", "done", "mapped"} /\ \E i \in DOMAIN cache[me[t].flow] : q = cache[me[t].flow][i]
<1>1. Outside(pc'[t])  BY ReturnShape
<1> QED  BY <1>1, PartOutside DEF PartThen

(* The device flows of a call have different ids.                          *)
LEMMA Apart ==
  ASSUME Sound, NEW t \in Threads, pc[t] \in AtFlow, NEW i \in 1 .. Need(t),
         Devs(me[t], cache)[i].id = Here(t).id
  PROVE  i = me[t].idx
BY DevFacts DEF Here, Distinct

(* The removal of a device flow that the call had added with its own ids.  *)
Retreats(t) == pc[t] # "bal" /\ ~Symmetric(t)

LEMMA UndoParts ==
  ASSUME Sound, NEW t \in Threads, pc[t] \in {"bal", "rmaps", "rbal"}, Undoes(t), cache' = cache,
         NEW what, NEW q
  PROVE  /\ q \in PartThen(what, t) =>
              /\ what \in {"held", "fresh"}
              /\ q \in PartNow(what, t) \/ (what = "fresh" /\ q = Here(t) /\ Retreats(t))
         /\ q \in PartNow("held", t) => q \in PartThen("held", t) \/ Symmetric(t)
<1> DEFINE c == me[t]
           d == me'[t]
           n == Need(t)
           p == pc'[t]
<1>0. /\ pc[t] \in AtFlow /\ {"rmaps", "free"} \subseteq AtFlow /\ n \in Nat /\ c.idx \in 1 .. n
      /\ c.op = "add" /\ Shape(pc[t], c, cache)
  <2>1. pc[t] \in AtFlow /\ {"rmaps", "free"} \subseteq AtFlow  BY DEF AtFlow, Undoing
  <2> QED  BY <2>1, DevFacts DEF Undoes, Sound, ShapeInv
<1>1. CASE Symmetric(t) /\ Ends(t)
  <2>1. cache[c.flow] = <<>>  BY <1>0 DEF Shape, HasEntry
  <2>2. q \notin PartThen(what, t)  BY <1>1, <2>1, PartEnds
  <2> QED  BY <1>1, <2>2
<1>2. ASSUME p \in {"rmaps", "free"}, Keeps(c, d),
             p = "rmaps" => d.idx = c.idx - 1,
             p = "free" => c.idx = 1 /\ d.idx = 1
      PROVE  /\ q \in PartThen(what, t) =>
                  /\ what \in {"held", "fresh"}
                  /\ q \in PartNow(what, t) \/ (what = "fresh" /\ q = Here(t) /\ Retreats(t))
             /\ q \in PartNow("held", t) => q \in PartThen("held", t) \/ Symmetric(t)
  <2>1. ASSUME NEW i \in 1 .. n, Is(what, p, d, i)
        PROVE  /\ what \in {"held", "fresh"}
               /\ Is(what, pc[t], c, i) \/ (what = "fresh" /\ i = c.idx /\ Retreats(t))
    <3>1. d.op = "add" /\ d.ids = c.ids /\ (OwnIds(d) <=> OwnIds(c))  BY <1>0, <1>2, KeepDevs DEF Keeps
    <3>2. what \in {"held", "fresh"}
      BY <1>0, <1>2, <2>1, <3>1 DEF Is, Done, Mapped, Undoing
    <3>3. CASE what = "held"
      BY <1>0, <3>3 DEF Is, Held
    <3>4. CASE what = "fresh"
      <4>1. OwnIds(d)  BY <1>0, <2>1, <3>1, <3>4 DEF Is, Fresh
      <4>2. c.idx <= i
        <5>1. CASE p = "rmaps"
          <6>1. d.idx < i  BY <2>1, <3>1, <3>4, <5>1 DEF Is, Fresh
          <6> QED  BY <1>0, <1>2, <5>1, <6>1
        <5>2. CASE p = "free"
          BY <1>2, <5>2
        <5> QED  BY <1>2, <5>1, <5>2
      <4>3. i = c.idx \/ c.idx < i  BY <1>0, <4>2
      <4>4. ~Symmetric(t)  BY <3>1, <4>1 DEF OwnIds, Symmetric
      <4> QED  BY <1>0, <3>1, <3>4, <4>1, <4>2, <4>3, <4>4 DEF Is, Fresh, Retreats
    <3> QED  BY <3>2, <3>3, <3>4
  <2>2. ASSUME NEW i \in 1 .. n, ~Symmetric(t)  PROVE Is("held", p, d, i)
    BY <1>0, <1>2, <2>2 DEF Is, Held, Symmetric, Keeps
  <2>3. q \in PartThen(what, t) <=> \E i \in 1 .. n : Is(what, p, d, i) /\ q = Devs(c, cache)[i]
    BY <1>0, <1>2, PartThenAt
  <2>4. q \in PartThen("held", t) <=> \E i \in 1 .. n : Is("held", p, d, i) /\ q = Devs(c, cache)[i]
    BY <1>0, <1>2, PartThenAt
  <2>5. q \in PartNow(what, t) <=> \E i \in 1 .. n : Is(what, pc[t], c, i) /\ q = Devs(c, cache)[i]
    BY <1>0, PartNowAt
  <2>6. q \in PartNow("held", t) <=> \E i \in 1 .. n : Is("held", pc[t], c, i) /\ q = Devs(c, cache)[i]
    BY <1>0, PartNowAt
  <2> HIDE DEF c, d, n, p
  <2>7. q \in PartNow("held", t) => q \in PartThen("held", t) \/ Symmetric(t)
    BY <2>2, <2>4, <2>6
  <2>8. ASSUME q \in PartThen(what, t)
        PROVE  /\ what \in {"held", "fresh"}
               /\ q \in PartNow(what, t) \/ (what = "fresh" /\ q = Here(t) /\ Retreats(t))
    <3>1. PICK i \in 1 .. n : Is(what, p, d, i) /\ q = Devs(c, cache)[i]  BY <2>3, <2>8
    <3> QED  BY <2>1, <2>5, <3>1 DEF Here, c
  <2> QED  BY <2>7, <2>8
<1>3. CASE ~(Symmetric(t) /\ Ends(t))
  BY <1>0, <1>2, <1>3 DEF Undoes, Keeps
<1> QED  BY <1>1, <1>3

LEMMA ContinueParts ==
  ASSUME Sound, NEW t \in Threads, pc[t] \in {"rbal", "free"}, Continues(t), cache' = cache,
         NEW what, NEW q
  PROVE  /\ q \in PartThen(what, t) =>
              what \in {"held", "done"} /\ q \in PartNow(what, t) /\ q.id # Here(t).id
         /\ q \in PartNow("held", t) => q \in PartThen("held", t) \/ q = Here(t)
<1> DEFINE c == me[t]
           d == me'[t]
           n == Need(t)
           p == pc'[t]
<1>0. /\ pc[t] \in AtFlow /\ "rmaps" \in AtFlow /\ n \in Nat /\ c.idx \in 1 .. n
      /\ c.op = "remove"
  <2>1. pc[t] \in AtFlow /\ "rmaps" \in AtFlow  BY DEF AtFlow, Undoing
  <2> QED  BY <2>1, DevFacts DEF Continues
<1>1. q \in PartNow("held", t) <=> \E i \in 1 .. n : Is("held", pc[t], c, i) /\ q = Devs(c, cache)[i]
  BY <1>0, PartNowAt
<1>2. \A i \in 1 .. n : Is("held", pc[t], c, i) <=> c.idx <= i
  BY <1>0 DEF Is, Held
<1>3. CASE c.idx = n /\ p = "uncache" /\ d = c
  <2>1. q \notin PartThen(what, t)  BY <1>3, PartUncache DEF PartThen
  <2>2. \A i \in 1 .. n : c.idx <= i => i = c.idx  BY <1>0, <1>3
  <2> HIDE DEF n, p, d
  <2>3. q \in PartNow("held", t) => q = Here(t)  BY <1>1, <1>2, <2>2 DEF Here
  <2> QED  BY <2>1, <2>3
<1>4. CASE c.idx < n /\ p = "rmaps" /\ Keeps(c, d) /\ d.idx = c.idx + 1
  <2>1. q \in PartThen(what, t) <=> \E i \in 1 .. n : Is(what, p, d, i) /\ q = Devs(c, cache)[i]
    BY <1>0, <1>4, PartThenAt
  <2>2. q \in PartThen("held", t) <=> \E i \in 1 .. n : Is("held", p, d, i) /\ q = Devs(c, cache)[i]
    BY <1>0, <1>4, PartThenAt
  <2>3. q \in PartNow(what, t) <=> \E i \in 1 .. n : Is(what, pc[t], c, i) /\ q = Devs(c, cache)[i]
    BY <1>0, PartNowAt
  <2>4. ASSUME NEW i \in 1 .. n, Is(what, p, d, i)
        PROVE  what \in {"held", "done"} /\ Is(what, pc[t], c, i) /\ i # c.idx
    <3>1. d.op = "remove" /\ (OwnIds(d) <=> OwnIds(c)) /\ ~OwnIds(c)
      BY <1>0, <1>4, KeepDevs DEF Keeps, OwnIds
    <3>2. what \in {"held", "done"}
      BY <1>0, <1>4, <2>4, <3>1 DEF Is, Fresh, Mapped, Undoing
    <3>3. d.idx <= i
      BY <1>4, <2>4, <3>1, <3>2 DEF Is, Held, Done, Undoing, AtFlow
    <3>4. c.idx <= i /\ i # c.idx  BY <1>0, <1>4, <3>3
    <3> QED  BY <1>0, <3>2, <3>4 DEF Is, Held, Done, Undoing
  <2>5. ASSUME NEW i \in 1 .. n, c.idx <= i
        PROVE  Is("held", p, d, i) \/ i = c.idx
    <3>1. i = c.idx \/ d.idx <= i  BY <1>0, <1>4, <2>5
    <3> QED  BY <1>0, <1>4, <3>1 DEF Is, Held, Keeps
  <2> HIDE DEF n, p, d
  <2>6. q \in PartNow("held", t) => q \in PartThen("held", t) \/ q = Here(t)
    BY <1>1, <1>2, <2>2, <2>5 DEF Here
  <2>7. ASSUME q \in PartThen(what, t)
        PROVE  what \in {"held", "done"} /\ q \in PartNow(what, t) /\ q.id # Here(t).id
    <3>1. PICK i \in 1 .. n : Is(what, p, d, i) /\ q = Devs(c, cache)[i]  BY <2>1, <2>7
    <3>2. what \in {"held", "done"} /\ Is(what, pc[t], c, i) /\ i # c.idx  BY <2>4, <3>1
    <3>3. q.id # Here(t).id  BY <1>0, <3>1, <3>2, Apart DEF n
    <3> QED  BY <2>3, <3>1, <3>2, <3>3
  <2> QED  BY <2>6, <2>7
<1> QED  BY <1>3, <1>4 DEF Continues

LEMMA ClearParts ==
  ASSUME Sound, NEW t \in Threads, pc[t] \in {"rmaps", "rbal"}, Clears(t), cache' = cache,
         NEW what, NEW q
  PROVE  /\ q \in PartThen(what, t) =>
              /\ q \in PartNow(what, t) \/ (what = "fresh" /\ q = Here(t))
              /\ what # "mapped" /\ (what = "done" => q.id # Here(t).id)
         /\ q \in PartNow("held", t) => q \in PartThen("held", t) \/ (Symmetric(t) /\ me[t].op = "add")
<1>1. CASE Undoes(t)  BY <1>1, UndoParts DEF Undoes
<1>2. CASE me[t].op = "remove" /\ pc'[t] = "free" /\ me'[t] = me[t]
  <2>0. pc[t] \in AtFlow /\ "free" \in AtFlow /\ Keeps(me[t], me'[t])
    BY <1>2 DEF AtFlow, Undoing, Keeps
  <2>1. ASSUME NEW w, NEW i
        PROVE  /\ Is(w, "free", me[t], i) =>
                    /\ Is(w, pc[t], me[t], i) \/ (w = "fresh" /\ i = me[t].idx)
                    /\ w # "mapped" /\ (w = "done" => i # me[t].idx)
               /\ Is("held", pc[t], me[t], i) => Is("held", "free", me[t], i)
    BY <1>2, <2>0 DEF Is, Held, Fresh, Done, Mapped, Undoing, OwnIds
  <2>2. \A w : q \in PartThen(w, t) <=>
          \E i \in 1 .. Need(t) : Is(w, "free", me[t], i) /\ q = Devs(me[t], cache)[i]
    BY <1>2, <2>0, PartThenAt
  <2>3. \A w : q \in PartNow(w, t) <=>
          \E i \in 1 .. Need(t) : Is(w, pc[t], me[t], i) /\ q = Devs(me[t], cache)[i]
    BY <2>0, PartNowAt
  <2>4. q \in PartNow("held", t) => q \in PartThen("held", t)  BY <2>1, <2>2, <2>3
  <2>5. ASSUME q \in PartThen(what, t)
        PROVE  /\ q \in PartNow(what, t) \/ (what = "fresh" /\ q = Here(t))
               /\ what # "mapped" /\ (what = "done" => q.id # Here(t).id)
    <3>1. PICK i \in 1 .. Need(t) : Is(what, "free", me[t], i) /\ q = Devs(me[t], cache)[i]
      BY <2>2, <2>5
    <3>2. what = "done" => q.id # Here(t).id  BY <2>0, <2>1, <3>1, Apart
    <3> QED  BY <2>1, <2>3, <3>1, <3>2 DEF Here
  <2> QED  BY <2>4, <2>5
<1> QED  BY <1>1, <1>2 DEF Clears

(* A step from one device flow to another, or to the next point.           *)
LEMMA AlongParts ==
  ASSUME Sound, NEW t \in Threads, AddMaps(t) \/ AddSucceeds(t) \/ RemoveMaps(t), NEW what, NEW q
  PROVE  /\ q \in PartThen(what, t) =>
              \/ q \in PartNow(what, t)
              \/ what = "mapped" /\ AddMaps(t) /\ q = Here(t)
              \/ what = "done" /\ AddSucceeds(t) /\ q = Here(t)
         /\ RemoveMaps(t) => q \notin PartThen("mapped", t)
         /\ AddSucceeds(t) /\ q \in PartThen("fresh", t) => q.id # Here(t).id
         /\ q \in PartNow("held", t) => q \in PartThen("held", t)
<1> DEFINE c == me[t]
           d == me'[t]
           n == Need(t)
           p == pc'[t]
<1>0. /\ pc[t] \in {"add", "bal", "rmaps"} /\ pc[t] \in AtFlow /\ p \in AtFlow /\ Keeps(c, d) /\ cache' = cache
      /\ d.idx \in Nat
  <2>1. /\ pc[t] \in {"add", "bal", "rmaps"} /\ pc[t] \in AtFlow /\ p \in AtFlow /\ Keeps(c, d)
        /\ cache' = cache
    BY AddMapsFacts, AddSucceedsFacts, RemoveMapsFacts DEF AtFlow, Undoing, Keeps
  <2>2. c.idx \in 1 .. n /\ n \in Nat  BY <2>1, DevFacts
  <2>3. d.idx = c.idx \/ d.idx = c.idx + 1  BY AddMapsFacts, AddSucceedsFacts, RemoveMapsFacts
  <2> QED  BY <2>1, <2>2, <2>3
<1>1. /\ c.idx \in 1 .. n /\ n \in Nat /\ (OwnIds(d) <=> OwnIds(c)) /\ d.op = c.op /\ d.ids = c.ids
  BY <1>0, DevFacts, KeepDevs DEF Keeps
<1>2. \A w : q \in PartThen(w, t) <=> \E i \in 1 .. n : Is(w, p, d, i) /\ q = Devs(c, cache)[i]
  BY <1>0, PartThenAt
<1>3. \A w : q \in PartNow(w, t) <=> \E i \in 1 .. n : Is(w, pc[t], c, i) /\ q = Devs(c, cache)[i]
  BY <1>0, PartNowAt
<1>4. ASSUME NEW i \in 1 .. n, NEW w, Is(w, p, d, i)
      PROVE  /\ \/ Is(w, pc[t], c, i)
                \/ w = "mapped" /\ AddMaps(t) /\ i = c.idx
                \/ w = "done" /\ AddSucceeds(t) /\ i = c.idx
             /\ RemoveMaps(t) => w # "mapped"
             /\ AddSucceeds(t) /\ w = "fresh" => i # c.idx
  <2>1. CASE AddMaps(t)
    <3>1. pc[t] = "add" /\ p = "bal" /\ d.idx = c.idx /\ ~AddSucceeds(t) /\ ~RemoveMaps(t)
      BY <2>1, AddMapsFacts, AddSucceedsFacts, RemoveMapsFacts
    <3>2. i <= c.idx => i < c.idx \/ i = c.idx  BY <1>1
    <3> QED  BY <1>1, <1>4, <2>1, <3>1, <3>2 DEF Is, Held, Fresh, Done, Mapped, AtFlow, Undoing
  <2>2. CASE RemoveMaps(t)
    <3>1. pc[t] = "rmaps" /\ p = "rbal" /\ d.idx = c.idx /\ ~AddSucceeds(t)
      BY <2>2, AddSucceedsFacts, RemoveMapsFacts
    <3> QED  BY <1>1, <1>4, <2>2, <3>1 DEF Is, Held, Fresh, Done, Mapped, AtFlow, Undoing
  <2>3. CASE AddSucceeds(t)
    <3>1. pc[t] = "bal" /\ c.op = "add" /\ ~RemoveMaps(t)  BY <2>3, AddSucceedsFacts, RemoveMapsFacts
    <3>2. CASE c.idx = n /\ p = "cache"
      <4>1. i < c.idx \/ i = c.idx  BY <1>1, <3>2
      <4>2. i <= c.idx  BY <1>1, <3>2
      <4> QED  BY <1>1, <1>4, <2>3, <3>1, <3>2, <4>1, <4>2 DEF Is, Held, Fresh, Done, Mapped, AtFlow, Undoing
    <3>3. CASE c.idx < n /\ p = "add" /\ d.idx = c.idx + 1
      <4>1. /\ i < d.idx => i <= c.idx
            /\ i < d.idx => i < c.idx \/ i = c.idx
            /\ d.idx <= i => c.idx <= i /\ i # c.idx
        BY <1>1, <3>3
      <4> QED  BY <1>1, <1>4, <2>3, <3>1, <3>3, <4>1 DEF Is, Held, Fresh, Done, Mapped, AtFlow, Undoing
    <3> QED  BY <2>3, <3>2, <3>3, AddSucceedsFacts
  <2> QED  BY <2>1, <2>2, <2>3
<1>5. ASSUME NEW i \in 1 .. n, Is("held", pc[t], c, i)  PROVE Is("held", p, d, i)
  <2>1. CASE c.op # "remove"
    <3>1. p # "free"  BY AddMapsFacts, AddSucceedsFacts, RemoveMapsFacts
    <3> QED  BY <1>1, <2>1, <3>1 DEF Is, Held
  <2>2. CASE c.op = "remove"
    <3>1. pc[t] = "rmaps" /\ p = "rbal" /\ d.idx = c.idx
      BY <2>2, AddMapsFacts, AddSucceedsFacts, RemoveMapsFacts
    <3> QED  BY <1>0, <1>1, <1>5, <2>2, <3>1 DEF Is, Held
  <2> QED  BY <2>1, <2>2
<1> HIDE DEF c, d, n, p
<1>6. q \in PartNow("held", t) => q \in PartThen("held", t)  BY <1>2, <1>3, <1>5
<1>7. ASSUME NEW w, q \in PartThen(w, t)
      PROVE  /\ \/ q \in PartNow(w, t)
                \/ w = "mapped" /\ AddMaps(t) /\ q = Here(t)
                \/ w = "done" /\ AddSucceeds(t) /\ q = Here(t)
             /\ RemoveMaps(t) => w # "mapped"
             /\ AddSucceeds(t) /\ w = "fresh" => q.id # Here(t).id
  <2>1. PICK i \in 1 .. n : Is(w, p, d, i) /\ q = Devs(c, cache)[i]  BY <1>2, <1>7
  <2>2. i # c.idx => q.id # Here(t).id  BY <1>0, <2>1, Apart DEF n, c
  <2> QED  BY <1>3, <1>4, <2>1, <2>2 DEF Here, c
<1> QED  BY <1>6, <1>7

LEMMA FreeParts ==
  ASSUME Sound, NEW t \in Threads, FreeAfterAdd(t), NEW what, NEW q
  PROVE  /\ q \in PartThen(what, t) =>
              what \in {"held", "fresh"} /\ q \in PartNow(what, t) /\ (what = "held" => q.id # Here(t).id)
         /\ q \in PartNow("held", t) => q \in PartThen("held", t) \/ q = Here(t)
<1> DEFINE c == me[t]
           d == me'[t]
           n == Need(t)
<1>0. /\ pc[t] = "free" /\ pc[t] \in AtFlow /\ c.op = "add" /\ cache' = cache
      /\ n \in Nat /\ c.idx \in 1 .. n /\ Shape(pc[t], c, cache)
  <2>1. pc[t] = "free" /\ pc[t] \in AtFlow /\ c.op = "add" /\ cache' = cache
    BY FreeAfterAddFacts DEF AtFlow, Undoing
  <2> QED  BY <2>1, DevFacts DEF Sound, ShapeInv
<1>1. \A w : q \in PartNow(w, t) <=> \E i \in 1 .. n : Is(w, "free", c, i) /\ q = Devs(c, cache)[i]
  BY <1>0, PartNowAt
<1>2. CASE c.idx = n /\ Ends(t)
  <2>1. cache[c.flow] = <<>>  BY <1>0 DEF Shape, HasEntry
  <2>2. q \notin PartThen(what, t)  BY <1>0, <1>2, <2>1, PartEnds
  <2>3. \A i \in 1 .. n : Is("held", "free", c, i) => i = c.idx
    BY <1>0, <1>2 DEF Is, Held
  <2> HIDE DEF n
  <2>4. q \in PartNow("held", t) => q = Here(t)  BY <1>1, <2>3 DEF Here
  <2> QED  BY <2>2, <2>4
<1>3. CASE c.idx < n /\ pc'[t] = "free" /\ Keeps(c, d) /\ d.idx = c.idx + 1 /\ R(t).replicate
  <2>1. OwnIds(c) /\ OwnIds(d) /\ d.op = "add"
    BY <1>0, <1>3, FreeAfterAddFacts DEF Symmetric, OwnIds, Keeps
  <2>2. \A w : q \in PartThen(w, t) <=> \E i \in 1 .. n : Is(w, "free", d, i) /\ q = Devs(c, cache)[i]
    BY <1>0, <1>3, PartThenAt
  <2>3. ASSUME NEW i \in 1 .. n, NEW w, Is(w, "free", d, i)
        PROVE  w \in {"held", "fresh"} /\ Is(w, "free", c, i) /\ i # c.idx
    <3>1. w \in {"held", "fresh"} /\ d.idx <= i
      BY <2>1, <2>3 DEF Is, Held, Fresh, Done, Mapped, Undoing
    <3>2. c.idx <= i /\ i # c.idx  BY <1>0, <1>3, <3>1
    <3> QED  BY <2>1, <3>1, <3>2 DEF Is, Held, Fresh, OwnIds
  <2>4. ASSUME NEW i \in 1 .. n, Is("held", "free", c, i)
        PROVE  Is("held", "free", d, i) \/ i = c.idx
    <3>1. c.idx <= i  BY <2>4 DEF Is, Held
    <3>2. d.idx <= i \/ i = c.idx  BY <1>0, <1>3, <3>1
    <3> QED  BY <2>1, <3>2 DEF Is, Held, OwnIds
  <2> HIDE DEF n, d
  <2>5. q \in PartNow("held", t) => q \in PartThen("held", t) \/ q = Here(t)
    BY <1>1, <2>2, <2>4 DEF Here
  <2>6. ASSUME q \in PartThen(what, t)
        PROVE  what \in {"held", "fresh"} /\ q \in PartNow(what, t) /\ q.id # Here(t).id
    <3>1. PICK i \in 1 .. n : Is(what, "free", d, i) /\ q = Devs(c, cache)[i]  BY <2>2, <2>6
    <3>2. q.id # Here(t).id  BY <1>0, <2>3, <3>1, Apart DEF n
    <3> QED  BY <1>1, <2>3, <3>1, <3>2
  <2> QED  BY <2>5, <2>6
<1> QED  BY <1>2, <1>3, FreeAfterAddFacts

(* Steps that neither give nor take device flows.                          *)
LEMMA RestParts ==
  ASSUME Sound, NEW t \in Threads,
         \/ UpdateCache(t) \/ Uncache(t) \/ QuietAction(t)
         \/ GetDeviceFlow(t) /\ Cached(me[t].flow),
         NEW what, NEW q
  PROVE  /\ q \in PartThen(what, t) => q \in PartNow(what, t)
         /\ q \in PartNow("held", t) => q \in PartThen("held", t)
<1> DEFINE v == me[t].flow
<1>0. Busy(t) /\ v \in Flows /\ cache \in [Flows -> Seq(Params)] /\ Shape(pc[t], me[t], cache)
  <2>1. Busy(t) /\ TypeInv  BY BusySteps DEF Sound, QuietAction, Add, Remove
  <2> QED  BY <2>1, OpAt DEF Sound, ShapeInv, TypeInv, TypeOK
<1>1. CASE QuietAction(t)
  <2>1. Outside(pc[t]) /\ Outside(pc'[t]) /\ cache' = cache  BY <1>1, QuietFacts DEF Quiet
  <2> QED  BY <2>1, PartOutside DEF PartNow, PartThen
<1>2. CASE Uncache(t)
  <2>1. pc[t] = "uncache" /\ pc'[t] = "unlink" /\ cache'[v] = <<>>
    <3>1. pc[t] = "uncache" /\ pc' = [pc EXCEPT ![t] = "unlink"] /\ cache' = [cache EXCEPT ![v] = <<>>]
      BY <1>2 DEF Uncache, Go
    <3>2. pc \in [Threads -> PCs]  BY TypeParts DEF Sound
    <3> QED  BY <1>0, <3>1, <3>2
  <2>2. Outside(pc'[t])  BY <2>1 DEF Outside, AtFlow, Undoing
  <2>3. q \notin PartThen(what, t)  BY <2>1, <2>2, PartOutside DEF PartThen
  <2>4. q \notin PartNow("held", t)  BY <2>1, PartUncache DEF PartNow
  <2> QED  BY <2>3, <2>4
<1>3. CASE UpdateCache(t)
  <2>1. /\ pc[t] = "cache" /\ me[t].op = "add" /\ "cache" \in AtFlow
        /\ cache' = [cache EXCEPT ![v] = Devs(me[t], cache)]
    BY <1>3, UpdateCacheFacts DEF AtFlow
  <2>2. Outside(pc'[t])
    <3>1. pc'[t] \in {"link", "idle"}  BY <1>3, UpdateCacheFacts DEF Ends
    <3> QED  BY <3>1 DEF Outside, AtFlow, Undoing
  <2>3. cache'[v] = Devs(me[t], cache)  BY <1>0, <2>1
  <2>4. DOMAIN Devs(me[t], cache) = 1 .. Need(t)  BY <2>1, DevFacts
  <2>5. \A w : q \in PartThen(w, t) <=>
          w \in {"held", "done", "mapped"} /\ \E i \in 1 .. Need(t) : q = Devs(me[t], cache)[i]
    <3>1. \A w : q \in Part(w, pc'[t], me'[t], cache', v) <=>
            w \in {"held", "done", "mapped"} /\ \E i \in DOMAIN cache'[v] : q = cache'[v][i]
      BY <2>2, PartOutside
    <3> QED  BY <2>3, <2>4, <3>1 DEF PartThen
  <2>6. \A w : q \in PartNow(w, t) <=>
          \E i \in 1 .. Need(t) : Is(w, "cache", me[t], i) /\ q = Devs(me[t], cache)[i]
    BY <2>1, PartNowAt
  <2>7. \A w, i : Is(w, "cache", me[t], i) <=> w \in {"held", "done", "mapped"}
    BY <2>1 DEF Is, Held, Fresh, Done, Mapped, Undoing
  <2> QED  BY <2>5, <2>6, <2>7
<1>4. CASE GetDeviceFlow(t) /\ Cached(me[t].flow)
  <2>1. pc[t] = "get" /\ pc'[t] = "rmaps" /\ me[t].op = "remove" /\ TakesUp(t, v)
    BY <1>4, GetFacts
  <2>2. Outside(pc[t]) /\ "rmaps" \in AtFlow  BY <2>1 DEF Outside, AtFlow, Undoing
  <2>3. \A w : q \in PartNow(w, t) <=>
          w \in {"held", "done", "mapped"} /\ \E i \in DOMAIN cache[v] : q = cache[v][i]
    BY <2>2, PartOutside DEF PartNow
  <2>4. View(pc'[t], me'[t], cache', v) = cache[v]
    BY <2>1, <2>2 DEF View, Devs, TakesUp, OwnIds
  <2>5. ASSUME NEW i \in DOMAIN cache[v], NEW w
        PROVE  /\ Is(w, "rmaps", me'[t], i) => w \in {"held", "done", "mapped"}
               /\ Is("held", "rmaps", me'[t], i)
    <3>1. cache[v] \in Seq(Params)  BY <1>0
    <3>2. i \in Nat /\ 1 <= i  BY <2>5, <3>1
    <3>3. me'[t].idx <= i /\ me'[t].op = "remove"  BY <2>1, <3>2 DEF TakesUp
    <3> QED  BY <3>3 DEF Is, Held, Fresh, Done, Mapped, Undoing, OwnIds
  <2>6. \A w : q \in PartThen(w, t) <=>
          \E i \in DOMAIN cache[v] : Is(w, "rmaps", me'[t], i) /\ q = cache[v][i]
    BY <2>1, <2>4 DEF PartThen, Part
  <2> HIDE DEF v
  <2> QED  BY <2>3, <2>5, <2>6
<1> QED  BY <1>1, <1>2, <1>3, <1>4

LEMMA DerefParts ==
  ASSUME Sound, NEW t \in Threads, Deref(t), Cached(me[t].sym), NEW what, NEW q
  PROVE  /\ q \in PartThen(what, t) =>
              what = "held" /\ \E i \in DOMAIN cache[me[t].sym] : q = cache[me[t].sym][i]
         /\ q \notin PartNow("held", t)
<1> DEFINE v == me[t].sym
<1>1. /\ pc[t] = "deref" /\ pc'[t] = "add" /\ "add" \in AtFlow /\ me[t].op = "add" /\ TakesUp(t, v)
      /\ Outside(pc[t]) /\ Busy(t)
  <2>1. pc[t] = "deref" /\ pc'[t] = "add" /\ me[t].op = "add" /\ TakesUp(t, v)  BY DerefFacts
  <2> QED  BY <2>1 DEF Busy, Outside, AtFlow, Undoing
<1>2. Shape(pc[t], me[t], cache) /\ cache \in [Flows -> Seq(Params)] /\ v \in Flows
  BY <1>1 DEF Sound, ShapeInv, TypeInv, TypeOK, TakesUp
<1>3. cache[me[t].flow] = <<>>  BY <1>1, <1>2 DEF Shape, HasEntry
<1>4. q \notin PartNow("held", t)  BY <1>1, <1>3, PartOutside DEF PartNow
<1>5. View(pc'[t], me'[t], cache', me[t].flow) = cache[v]
  BY <1>1 DEF View, Devs, TakesUp, OwnIds
<1>6. ASSUME NEW i \in DOMAIN cache[v], Is(what, "add", me'[t], i)  PROVE what = "held"
  <2>1. cache[v] \in Seq(Params)  BY <1>2
  <2>2. i \in Nat /\ 1 <= i  BY <1>6, <2>1
  <2>3. ~(i < me'[t].idx) /\ me'[t].op = "add" /\ me'[t].ids = <<>>  BY <1>1, <2>2 DEF TakesUp
  <2> QED  BY <1>6, <2>3 DEF Is, Fresh, Done, Mapped, OwnIds
<1> HIDE DEF v
<1>7. q \in PartThen(what, t) => \E i \in DOMAIN cache[v] : Is(what, "add", me'[t], i) /\ q = cache[v][i]
  BY <1>1, <1>5 DEF PartThen, Part
<1> QED  BY <1>4, <1>6, <1>7 DEF v

LEMMA AllocParts ==
  ASSUME Sound, NEW t \in Threads, Alloc(t)
  PROVE  /\ \A what, q : q \in PartThen(what, t) =>
              what \in {"held", "fresh"} /\ q.id \in FlowIds \ pool /\ q.id \in pool'
         /\ \A q : q \notin PartNow("held", t)
         /\ \A f \in pool' \ pool : \E q \in Params : q.id = f /\ q \in PartThen("held", t)
<1> DEFINE d == me'[t]
           n == Need(t)
<1>1. pc[t] = "alloc" /\ pc'[t] = "add" /\ me[t].op = "add" /\ d.op = "add" /\ OwnIds(d)
      /\ Outside(pc[t]) /\ Busy(t) /\ "add" \in AtFlow /\ cache' = cache
  <2>1. pc[t] = "alloc" /\ pc'[t] = "add" /\ me[t].op = "add" /\ d.op = "add" /\ OwnIds(d) /\ cache' = cache
    BY AllocFacts
  <2> QED  BY <2>1 DEF Busy, Outside, AtFlow, Undoing
<1>2. Shape(pc[t], me[t], cache)  BY <1>1 DEF Sound, ShapeInv
<1>3. cache[me[t].flow] = <<>> /\ d.idx = 1
  BY <1>1, <1>2, AllocFacts DEF Shape, HasEntry, BeginsClean, Preparing
<1>4. \A q : q \notin PartNow("held", t)  BY <1>1, <1>3, PartOutside DEF PartNow
<1>5. View(pc'[t], d, cache', me[t].flow) = Devs(d, cache)  BY <1>1 DEF View
<1>6. /\ DOMAIN Devs(d, cache) = 1 .. n
      /\ \A i \in 1 .. n : Devs(d, cache)[i].id \in FlowIds \ pool /\ Devs(d, cache)[i].id \in pool'
      /\ \A f \in pool' \ pool : \E i \in 1 .. n : Devs(d, cache)[i].id = f
      /\ n \in Nat
  <2>1. n \in Nat  BY <1>1, FlowFacts DEF Sound
  <2> QED  BY <2>1, AllocFacts
<1>11. \A i \in 1 .. n : Devs(d, cache)[i] \in Params
  <2>1. me[t].flow \in Flows /\ Req[me[t].flow].gems \in Seq(Gems) /\ n = Len(Req[me[t].flow].gems)
    BY <1>1, OpAt, ReqFacts DEF Sound, Need, R
  <2>2. d.ids \in Seq(FlowIds) /\ Len(d.ids) = n /\ d.flow = me[t].flow  BY AllocFacts
  <2>3. Devs(d, cache) =
          [i \in 1 .. Len(d.ids) |-> [id |-> d.ids[i], gem |-> Req[d.flow].gems[i]]]
    BY <1>1 DEF Devs
  <2> HIDE DEF n, d
  <2>4. \A i \in 1 .. n : d.ids[i] \in FlowIds
    <3> DEFINE ids == d.ids
    <3>1. ids \in Seq(FlowIds) /\ Len(ids) = n  BY <2>2
    <3> HIDE DEF ids
    <3>2. \A i \in 1 .. n : ids[i] \in FlowIds  BY <3>1
    <3> QED  BY <3>2 DEF ids
  <2>6. \A i \in 1 .. n : Req[d.flow].gems[i] \in Gems
    <3> DEFINE gems == Req[d.flow].gems
    <3>1. gems \in Seq(Gems) /\ Len(gems) = n  BY <2>1, <2>2
    <3> HIDE DEF gems
    <3>2. \A i \in 1 .. n : gems[i] \in Gems  BY <3>1
    <3> QED  BY <3>2 DEF gems
  <2>5. \A i \in 1 .. n : Devs(d, cache)[i] = [id |-> d.ids[i], gem |-> Req[d.flow].gems[i]]
    BY <2>2, <2>3
  <2>7. ASSUME NEW i \in 1 .. n  PROVE Devs(d, cache)[i] \in Params
    <3>1. d.ids[i] \in FlowIds /\ Req[d.flow].gems[i] \in Gems  BY <2>4, <2>6
    <3>2. Devs(d, cache)[i] = [id |-> d.ids[i], gem |-> Req[d.flow].gems[i]]  BY <2>5
    <3> QED  BY <3>1, <3>2 DEF Params
  <2> QED  BY <2>7
<1>7. ASSUME NEW i \in 1 .. n, NEW what
      PROVE  (Is(what, "add", d, i) => what \in {"held", "fresh"}) /\ Is("held", "add", d, i)
  <2>1. ~(i < d.idx)  BY <1>3, <1>6
  <2> QED  BY <1>1, <2>1 DEF Is, Held, Done, Mapped
<1> HIDE DEF d, n
<1>8. \A what, q : q \in PartThen(what, t) <=>
        \E i \in 1 .. n : Is(what, "add", d, i) /\ q = Devs(d, cache)[i]
  BY <1>1, <1>5, <1>6 DEF PartThen, Part, d
<1>9. ASSUME NEW what, NEW q, q \in PartThen(what, t)
      PROVE  what \in {"held", "fresh"} /\ q.id \in FlowIds \ pool /\ q.id \in pool'
  BY <1>6, <1>7, <1>8, <1>9
<1>10. ASSUME NEW f \in pool' \ pool  PROVE \E q \in Params : q.id = f /\ q \in PartThen("held", t)
  <2>1. PICK i \in 1 .. n : Devs(d, cache)[i].id = f  BY <1>6, <1>10
  <2>2. Devs(d, cache)[i] \in PartThen("held", t)  BY <1>7, <1>8
  <2> QED  BY <1>11, <2>1, <2>2
<1> QED  BY <1>4, <1>9, <1>10

(* What the flow has after the step and did not have before.               *)
LEMMA PartGains ==
  ASSUME Sound, NEW t \in Threads, Add(t) \/ Remove(t), NEW what, NEW q, q \in PartThen(what, t)
  PROVE  \/ q \in PartNow(what, t)
         \/ what = "held" /\ (Alloc(t) \/ (Deref(t) /\ Cached(me[t].sym)))
         \/ what = "fresh" /\ Alloc(t)
         \/ /\ what = "fresh" /\ q = Here(t)
            /\ RemoveAcl(t) \/ BalRemoves(t) \/ (BalRefuses(t) /\ q.id \in tainted')
         \/ what = "done" /\ AddSucceeds(t) /\ q = Here(t)
         \/ what = "mapped" /\ AddMaps(t) /\ q = Here(t)
<1>1. CASE \/ UpdateCache(t) \/ Uncache(t) \/ QuietAction(t)
           \/ GetDeviceFlow(t) /\ Cached(me[t].flow)
  BY <1>1, RestParts
<1>2. CASE AddMaps(t) \/ AddSucceeds(t) \/ RemoveMaps(t)
  BY <1>2, AlongParts
<1>3. CASE Alloc(t)  BY <1>3, AllocParts
<1>4. CASE Deref(t) /\ Cached(me[t].sym)  BY <1>4, DerefParts
<1>5. CASE AddFails(t)
  <2>1. pc[t] = "bal" /\ Undoes(t) /\ cache' = cache  BY <1>5, AddFailsFacts
  <2> QED  BY <2>1, UndoParts DEF Retreats
<1>6. CASE RemoveAcl(t) \/ BalRemoves(t)
  <2>1. pc[t] \in {"rmaps", "rbal"} /\ Clears(t) /\ cache' = cache
    BY <1>6, RemoveAclFacts, BalRemovesFacts
  <2> QED  BY <1>6, <2>1, ClearParts
<1>7. CASE BalRefuses(t)
  <2>1. CASE Continues(t)
    <3>1. pc[t] = "rbal" /\ cache' = cache  BY <1>7, BalRefusesFacts
    <3> QED  BY <2>1, <3>1, ContinueParts
  <2>2. CASE Undoes(t) /\ (~Symmetric(t) => Here(t).id \in tainted')
    <3>1. pc[t] = "rbal" /\ cache' = cache  BY <1>7, BalRefusesFacts
    <3> QED  BY <1>7, <2>2, <3>1, UndoParts DEF Retreats
  <2> QED  BY <1>7, <2>1, <2>2, BalRefusesFacts
<1>8. CASE FreeAfterRemove(t)
  <2>1. pc[t] = "free" /\ Continues(t) /\ cache' = cache  BY <1>8, FreeAfterRemoveFacts
  <2> QED  BY <2>1, ContinueParts
<1>9. CASE FreeAfterAdd(t)  BY <1>9, FreeParts
<1> QED
  BY <1>1, <1>2, <1>3, <1>4, <1>5, <1>6, <1>7, <1>8, <1>9 DEF Add, Remove, QuietAction

(* What the flow no longer has.                                            *)
LEMMA PartDrops ==
  ASSUME Sound, NEW t \in Threads, Add(t) \/ Remove(t), NEW q
  PROVE  /\ AddSucceeds(t) /\ q \in PartThen("fresh", t) => q.id # Here(t).id
         /\ (RemoveAcl(t) \/ BalRemoves(t)) /\ q \in PartThen("done", t) => q.id # Here(t).id
         /\ RemoveMaps(t) => q \notin PartThen("mapped", t)
         /\ (FreeAfterAdd(t) \/ FreeAfterRemove(t)) /\ q \in PartThen("held", t) => q.id # Here(t).id
         /\ q \in PartNow("held", t) =>
              \/ q \in PartThen("held", t)
              \/ me[t].op = "add" /\ Symmetric(t) /\ pc[t] \in AtFlow
              \/ (FreeAfterAdd(t) \/ FreeAfterRemove(t)) /\ q = Here(t)
              \/ BalRefuses(t) /\ me[t].op = "remove" /\ q = Here(t)
<1>1. AddSucceeds(t) /\ q \in PartThen("fresh", t) => q.id # Here(t).id  BY AlongParts
<1>2. RemoveMaps(t) => q \notin PartThen("mapped", t)  BY AlongParts
<1>3. ASSUME RemoveAcl(t) \/ BalRemoves(t)
      PROVE  /\ q \in PartThen("done", t) => q.id # Here(t).id
             /\ q \in PartNow("held", t) => q \in PartThen("held", t) \/ (Symmetric(t) /\ me[t].op = "add")
             /\ pc[t] \in AtFlow
  <2>1. pc[t] \in {"rmaps", "rbal"} /\ Clears(t) /\ cache' = cache
    BY <1>3, RemoveAclFacts, BalRemovesFacts
  <2> QED  BY <2>1, ClearParts DEF AtFlow, Undoing
<1>4. ASSUME FreeAfterRemove(t)
      PROVE  /\ q \in PartThen("held", t) => q.id # Here(t).id
             /\ q \in PartNow("held", t) => q \in PartThen("held", t) \/ q = Here(t)
  <2>1. pc[t] = "free" /\ Continues(t) /\ cache' = cache  BY <1>4, FreeAfterRemoveFacts
  <2> QED  BY <2>1, ContinueParts
<1>5. FreeAfterAdd(t) => /\ q \in PartThen("held", t) => q.id # Here(t).id
                         /\ q \in PartNow("held", t) => q \in PartThen("held", t) \/ q = Here(t)
  BY FreeParts
<1>6. AddFails(t) => (q \in PartNow("held", t) => q \in PartThen("held", t) \/ Symmetric(t))
                     /\ pc[t] \in AtFlow /\ me[t].op = "add"
  BY AddFailsFacts, UndoParts DEF AtFlow, Undoes
<1>7. ASSUME BalRefuses(t), q \in PartNow("held", t)
      PROVE  \/ q \in PartThen("held", t)
             \/ me[t].op = "add" /\ Symmetric(t) /\ pc[t] \in AtFlow
             \/ me[t].op = "remove" /\ q = Here(t)
  <2>1. pc[t] = "rbal" /\ cache' = cache /\ pc[t] \in AtFlow  BY <1>7, BalRefusesFacts DEF AtFlow, Undoing
  <2>2. CASE Continues(t)  BY <1>7, <2>1, <2>2, ContinueParts DEF Continues
  <2>3. CASE Undoes(t)  BY <1>7, <2>1, <2>3, UndoParts DEF Undoes
  <2> QED  BY <1>7, <2>2, <2>3, BalRefusesFacts
<1>8. ASSUME \/ UpdateCache(t) \/ Uncache(t) \/ QuietAction(t)
             \/ GetDeviceFlow(t) /\ Cached(me[t].flow)
             \/ AddMaps(t) \/ AddSucceeds(t) \/ RemoveMaps(t)
      PROVE  q \in PartNow("held", t) => q \in PartThen("held", t)
  BY <1>8, RestParts, AlongParts
<1>9. Alloc(t) \/ (Deref(t) /\ Cached(me[t].sym)) => q \notin PartNow("held", t)
  BY AllocParts, DerefParts
<1>10. q \in PartNow("held", t) =>
              \/ q \in PartThen("held", t)
              \/ me[t].op = "add" /\ Symmetric(t) /\ pc[t] \in AtFlow
              \/ (FreeAfterAdd(t) \/ FreeAfterRemove(t)) /\ q = Here(t)
              \/ BalRefuses(t) /\ me[t].op = "remove" /\ q = Here(t)
  BY <1>3, <1>4, <1>5, <1>6, <1>7, <1>8, <1>9 DEF Add, Remove, QuietAction
<1> QED  BY <1>1, <1>2, <1>3, <1>4, <1>5, <1>10

(* Which actions touch which of the shared data.                           *)
LEMMA SharedData ==
  ASSUME Sound, NEW t \in Threads, Add(t) \/ Remove(t)
  PROVE  /\ tainted \subseteq tainted'
         /\ AddSucceeds(t) \/ RemoveAcl(t) \/ BalRemoves(t) \/ UNCHANGED <<bal, acl>>
         /\ AddMaps(t) \/ RemoveMaps(t) \/ UNCHANGED <<portFlows, idGem>>
         /\ FreeAfterAdd(t) \/ FreeAfterRemove(t) \/ pool \subseteq pool'
         /\ Alloc(t) \/ pc'[t] = "spin" \/ pool' \subseteq pool \cup {0}
<1>1. CASE QuietAction(t)  BY <1>1, QuietFacts DEF Quiet, maps
<1>2. CASE Alloc(t)  BY <1>2, AllocFacts DEF maps
<1>3. CASE ~QuietAction(t) /\ ~Alloc(t)
  BY <1>3 DEF Add, Remove, QuietAction, Deref, AddMaps, AddSucceeds, AddFails, FreeAfterAdd,
              UpdateCache, GetDeviceFlow, RemoveAcl, RemoveMaps, BalRemoves, BalRefuses,
              FreeAfterRemove, Uncache, Release, maps
<1> QED  BY <1>1, <1>2, <1>3

-----------------------------------------------------------------------------
(* Who uses an id.                                                         *)

LEMMA UsesTurn ==
  ASSUME Sound, NEW t \in Threads, NEW O \in Flows, Turn(t, O), NEW f
  PROVE  /\ \A v \in Flows \ {O} : Uses(v, f)' <=> Uses(v, f)
         /\ Uses(O, f) <=>
              \E q \in Params : q.id = f /\ q \in Part("held", pc[t], me[t], cache, O)
         /\ Uses(O, f)' <=>
              \E q \in Params : q.id = f /\ q \in Part("held", pc'[t], me'[t], cache', O)
<1>1. \A q : /\ \A v \in Flows \ {O} : Has("held", v, q)' <=> Has("held", v, q)
             /\ Has("held", O, q) <=> q \in Part("held", pc[t], me[t], cache, O)
             /\ Has("held", O, q)' <=> q \in Part("held", pc'[t], me'[t], cache', O)
  BY HasTurn
<1>2. \A v : Uses(v, f)' <=> \E q \in Params : q.id = f /\ Has("held", v, q)'
  BY DEF Uses
<1>3. \A v : Uses(v, f) <=> \E q \in Params : q.id = f /\ Has("held", v, q)
  BY DEF Uses
<1>4. ASSUME NEW v \in Flows \ {O}  PROVE Uses(v, f)' <=> Uses(v, f)
  BY <1>1, <1>2, <1>3
<1>5. Uses(O, f) <=> \E q \in Params : q.id = f /\ q \in Part("held", pc[t], me[t], cache, O)
  BY <1>1, <1>3
<1>6. Uses(O, f)' <=> \E q \in Params : q.id = f /\ q \in Part("held", pc'[t], me'[t], cache', O)
  BY <1>1, <1>2
<1> QED  BY <1>4, <1>5, <1>6

(* While a call works on a flow, the symmetric one is at rest.             *)
LEMMA TwinAtRest ==
  ASSUME Sound, NEW t \in Threads, Busy(t), NEW w \in Flows, Twin(me[t].flow, w)
  PROVE  /\ w # me[t].flow /\ Settled(w)
         /\ \A what \in {"held", "done", "mapped"}, i \in DOMAIN cache[w] :
              cache[w][i] \in Params /\ Has(what, w, cache[w][i])
         /\ \A f : Uses(w, f) => f \in IdsOf(w)
<1>0. TypeInv /\ me[t].flow \in Flows /\ cache[w] \in Seq(Params)
  BY OpAt DEF Sound, TypeInv, TypeOK
<1>1. w # me[t].flow
  <2>1. R(t).type \in {"upstream", "downstream"}  BY <1>0, FlowAssumption DEF Twin, R
  <2> QED  BY <2>1 DEF Twin, InverseFlowType, R
<1>2. ASSUME NEW u \in Threads, Busy(u)  PROVE me[u].flow # w
  <2>1. CASE u = t  BY <1>1, <2>1
  <2>2. CASE u # t
    <3>1. R(u).sub # R(t).sub  BY <1>2, <2>2 DEF Sound, ShapeInv, OneCallEach
    <3> QED  BY <3>1 DEF Twin, R
  <2> QED  BY <2>1, <2>2
<1>3. Settled(w)  BY <1>2 DEF Settled
<1>4. \A what, q : Has(what, w, q) <=> q \in Part(what, "idle", NoCall, cache, w)
  BY <1>2, <1>3 DEF Has
<1>5. Outside("idle")  BY DEF Outside, AtFlow, Undoing
<1>6. \A what, q : Has(what, w, q) <=>
        what \in {"held", "done", "mapped"} /\ \E i \in DOMAIN cache[w] : q = cache[w][i]
  BY <1>4, <1>5, PartOutside
<1>7. \A i \in DOMAIN cache[w] : cache[w][i] \in Params  BY <1>0, ElementType
<1>8. \A f : Uses(w, f) => f \in IdsOf(w)
  BY <1>6 DEF Uses, IdsOf
<1> QED  BY <1>1, <1>3, <1>6, <1>7, <1>8

LEMMA ReleaseFacts ==
  ASSUME Sound, NEW t \in Threads, FreeAfterAdd(t) \/ FreeAfterRemove(t)
  PROVE  /\ pc[t] = "free" /\ pc[t] \in AtFlow /\ Busy(t) /\ me[t].flow \in Flows
         /\ Here(t) \in Params /\ pool' = pool \ {Here(t).id}
         /\ Shared(Here(t).id, me[t].flow) => Here(t).id \in tainted'
         /\ \A f \in tainted' \ tainted : f = Here(t).id
         /\ UNCHANGED <<bal, acl>>
<1>1. pc[t] = "free" /\ pc[t] \in AtFlow /\ Release(Here(t).id, me[t].flow) /\ UNCHANGED <<bal, acl>>
  BY FreeAfterAddFacts, FreeAfterRemoveFacts DEF AtFlow, Undoing
<1>2. Busy(t) /\ me[t].flow \in Flows /\ Here(t) \in Params  BY <1>1, DevFacts, HereFacts
<1> QED  BY <1>1, <1>2 DEF Release

(* The device flow a call is at is in use, by the symmetric flow if not by *)
(* the call's own.                                                         *)
LEMMA HereInUse ==
  ASSUME Sound, NEW t \in Threads, pc[t] \in AtFlow
  PROVE  \/ Here(t) \in PartNow("held", t)
         \/ \E w \in Flows : Twin(me[t].flow, w) /\ Here(t).id \in IdsOf(w)
<1>0. Busy(t) /\ Shape(pc[t], me[t], cache) /\ me[t].idx \in 1 .. Need(t) /\ Need(t) \in Nat
  BY DevFacts DEF Sound, ShapeInv
<1>1. CASE pc[t] = "free" /\ me[t].op = "add" /\ me[t].ids = <<>>
  <2>1. me[t].ptr \in Flows /\ Twin(me[t].flow, me[t].ptr)  BY <1>0, <1>1 DEF Shape, HasPointer
  <2>2. Devs(me[t], cache) = cache[me[t].ptr]  BY <1>1 DEF Devs, OwnIds
  <2>3. Here(t).id \in IdsOf(me[t].ptr)
    <3>1. me[t].idx \in DOMAIN cache[me[t].ptr]  BY <1>0, <2>2, DevFacts
    <3> QED  BY <2>2, <3>1 DEF Here, IdsOf
  <2> QED  BY <2>1, <2>3
<1>2. CASE ~(pc[t] = "free" /\ me[t].op = "add" /\ me[t].ids = <<>>)
  <2>1. Is("held", pc[t], me[t], me[t].idx)
    <3>1. me[t].idx <= me[t].idx  BY <1>0
    <3> QED  BY <1>2, <3>1 DEF Is, Held
  <2> QED  BY <1>0, <2>1, PartNowAt DEF Here
<1> QED  BY <1>1, <1>2

(* An id that is given back while another flow uses it is remembered.      *)
LEMMA ReleasedIsUnused ==
  ASSUME Sound, UseInv, NEW t \in Threads, FreeAfterAdd(t) \/ FreeAfterRemove(t),
         NEW v \in Flows \ {me[t].flow}, Uses(v, Here(t).id)
  PROVE  Here(t).id \in tainted'
<1> DEFINE f == Here(t).id
           O == me[t].flow
<1>0. /\ pc[t] \in AtFlow /\ Busy(t) /\ O \in Flows /\ Here(t) \in Params
      /\ Shared(f, O) => f \in tainted' /\ tainted \subseteq tainted'
  BY ReleaseFacts, SharedData DEF Add, Remove
<1>1. Turn(t, O)  BY TurnSteps DEF Add, Remove
<1>2. ASSUME NEW w \in Flows, Twin(O, w), f \in IdsOf(w)  PROVE f \in tainted'
  BY <1>0, <1>2, TwinAtRest DEF Shared
<1>3. CASE Here(t) \in PartNow("held", t)
  <2>1. Uses(O, f)  BY <1>0, <1>1, <1>3, UsesTurn DEF PartNow
  <2>2. CASE f \in tainted
    <3>1. tainted \subseteq tainted'  BY SharedData DEF Add, Remove
    <3> QED  BY <2>2, <3>1
  <2>3. CASE f \notin tainted
    <3>1. f \in FlowIds  BY <1>0 DEF Params
    <3>2. Twin(O, v)  BY <1>0, <2>1, <2>3, <3>1 DEF UseInv, SharedByTwins
    <3>3. f \in IdsOf(v)  BY <1>0, <3>2, TwinAtRest
    <3> QED  BY <1>2, <3>2, <3>3
  <2> QED  BY <2>2, <2>3
<1>4. CASE \E w \in Flows : Twin(O, w) /\ f \in IdsOf(w)  BY <1>2, <1>4
<1> QED  BY <1>0, <1>3, <1>4, HereInUse

LEMMA TwinOf ==
  ASSUME PairedRequests, NEW u \in Flows, NEW v \in Flows, NEW w \in Flows, Twin(u, v), Twin(v, w)
  PROVE  u = w
<1>1. Req[u].type \in {"upstream", "downstream"}  BY FlowAssumption DEF Twin
<1>2. Req[w].type = Req[u].type  BY <1>1 DEF Twin, InverseFlowType
<1> QED  BY <1>2 DEF PairedRequests, Twin

LEMMA TwinSymmetric ==
  ASSUME NEW v \in Flows, NEW w \in Flows, Twin(v, w)
  PROVE  Twin(w, v)
BY FlowAssumption DEF Twin, InverseFlowType

(* Where the ids come from that a flow has come to use.                    *)
LEMMA UseGains ==
  ASSUME Sound, NEW t \in Threads, Add(t) \/ Remove(t), NEW f \in FlowIds,
         NEW O \in Flows, O = me[t].flow, Uses(O, f)'
  PROVE  \/ Uses(O, f)
         \/ f \notin pool /\ f \in pool' /\ UNCHANGED <<bal, acl, tainted>>
         \/ \E w \in Flows : Twin(O, w) /\ Uses(w, f)
<1>0. Turn(t, O) /\ Busy(t) /\ O \in Flows  BY TurnSteps DEF Turn
<1>1. PICK q \in Params : q.id = f /\ q \in PartThen("held", t)
  BY <1>0, UsesTurn DEF PartThen
<1>2. CASE q \in PartNow("held", t)
  <2>1. Uses(O, f)  BY <1>0, <1>1, <1>2, UsesTurn DEF PartNow
  <2> QED  BY <2>1
<1>3. CASE Alloc(t)
  BY <1>1, <1>3, AllocParts, AllocFacts
<1>4. CASE Deref(t) /\ Cached(me[t].sym)
  <2>1. Twin(O, me[t].sym) /\ me[t].sym \in Flows  BY <1>4, DerefFacts DEF TakesUp
  <2>2. PICK i \in DOMAIN cache[me[t].sym] : q = cache[me[t].sym][i]  BY <1>1, <1>4, DerefParts
  <2>3. Has("held", me[t].sym, q)  BY <1>0, <2>1, <2>2, TwinAtRest
  <2>4. Uses(me[t].sym, f)  BY <1>1, <2>3 DEF Uses
  <2> QED  BY <2>1, <2>4
<1> QED  BY <1>1, <1>2, <1>3, <1>4, PartGains

LEMMA UseSteps ==
  ASSUME Sound, PairedRequests, UseInv, NEW t \in Threads, Add(t) \/ Remove(t)
  PROVE  UseInv'
<1>0. PICK O \in Flows : O = me[t].flow /\ Turn(t, O) /\ Busy(t) /\ tainted \subseteq tainted'
  BY TurnSteps, SharedData DEF Turn
<1>1. \A f : \A v \in Flows \ {O} : Uses(v, f)' <=> Uses(v, f)  BY <1>0, UsesTurn
<1>2. ASSUME NEW v \in Flows, NEW f \in FlowIds \ tainted', Uses(v, f)'
      PROVE  f \in pool'
  <2>1. f \in pool \/ f \in pool'
    <3>1. CASE v # O  BY <1>0, <1>1, <1>2, <3>1 DEF UseInv, Marked
    <3>2. CASE v = O
      <4>1. Uses(O, f)'  BY <1>2, <3>2
      <4>2. (\E w \in Flows : Uses(w, f)) \/ f \in pool'  BY <1>0, <4>1, UseGains
      <4> QED  BY <1>0, <4>2 DEF UseInv, Marked
    <3> QED  BY <3>1, <3>2
  <2>2. ASSUME FreeAfterAdd(t) \/ FreeAfterRemove(t)  PROVE f # Here(t).id
    <3>1. CASE v # O
      <4>1. Uses(v, f)  BY <1>1, <1>2, <3>1
      <4> QED  BY <1>0, <1>2, <2>2, <3>1, <4>1, ReleasedIsUnused
    <3>2. CASE v = O
      <4>1. PICK q \in Params : q.id = f /\ q \in PartThen("held", t)
        BY <1>0, <1>2, <3>2, UsesTurn DEF PartThen
      <4> QED  BY <2>2, <4>1, PartDrops
    <3> QED  BY <3>1, <3>2
  <2>3. CASE FreeAfterAdd(t) \/ FreeAfterRemove(t)
    BY <2>1, <2>2, <2>3, ReleaseFacts
  <2>4. CASE ~(FreeAfterAdd(t) \/ FreeAfterRemove(t))
    BY <2>1, <2>4, SharedData
  <2> QED  BY <2>3, <2>4
<1>3. ASSUME NEW w \in Flows \ {O}, NEW f \in FlowIds \ tainted', Uses(O, f)', Uses(w, f)'
      PROVE  Twin(O, w)
  <2>1. Uses(w, f) /\ f \notin tainted  BY <1>0, <1>1, <1>3
  <2>2. CASE Uses(O, f)  BY <1>0, <2>1, <2>2 DEF UseInv, SharedByTwins
  <2>3. CASE f \notin pool  BY <2>1, <2>3 DEF UseInv, Marked
  <2>4. CASE \E x \in Flows : Twin(O, x) /\ Uses(x, f)
    <3>1. PICK x \in Flows : Twin(O, x) /\ Uses(x, f)  BY <2>4
    <3>2. CASE x = w  BY <3>1, <3>2
    <3>3. CASE x # w
      <4>1. Twin(x, w)  BY <2>1, <3>1, <3>3 DEF UseInv, SharedByTwins
      <4>2. O = w  BY <1>0, <3>1, <4>1, TwinOf
      <4> QED  BY <4>2
    <3> QED  BY <3>2, <3>3
  <2> QED  BY <1>0, <1>3, <2>2, <2>3, <2>4, UseGains
<1>4. ASSUME NEW v \in Flows, NEW w \in Flows, NEW f \in FlowIds \ tainted', v # w,
             Uses(v, f)', Uses(w, f)'
      PROVE  Twin(v, w)
  <2>1. CASE v = O  BY <1>3, <1>4, <2>1
  <2>2. CASE w = O
    <3>1. Twin(w, v)  BY <1>3, <1>4, <2>2
    <3> QED  BY <3>1, TwinSymmetric
  <2>3. CASE v # O /\ w # O
    BY <1>0, <1>1, <1>4, <2>3 DEF UseInv, SharedByTwins
  <2> QED  BY <2>1, <2>2, <2>3
<1>5. Marked'  BY <1>2 DEF Marked
<1>6. SharedByTwins'  BY <1>4 DEF SharedByTwins, Twin
<1> QED  BY <1>5, <1>6 DEF UseInv

-----------------------------------------------------------------------------
(* A new call, and a step that changes nothing, leave every flow what it   *)
(* has.                                                                    *)

Arrives == \E t \in Threads, v \in Flows, op \in {"add", "remove"} : Call(t, v, op)

LEMMA Stands ==
  ASSUME Sound, Serialised, Arrives \/ UNCHANGED vars
  PROVE  /\ UNCHANGED <<pool, tainted, bal, acl, portFlows, idGem, cache>>
         /\ \A what, q : \A v \in Flows : Has(what, v, q)' <=> Has(what, v, q)
         /\ \A f : \A v \in Flows : Uses(v, f)' <=> Uses(v, f)
         /\ \A t \in Threads : pc'[t] = "rbal" => pc[t] = "rbal" /\ me'[t] = me[t]
         /\ PoolUnlocked' => PoolUnlocked
<1>1. CASE UNCHANGED vars
  <2>1. UNCHANGED <<pool, tainted, bal, acl, portFlows, idGem, cache, pc, me>>
    BY <1>1 DEF vars, maps
  <2>2. ASSUME NEW what, NEW q, NEW v \in Flows  PROVE Has(what, v, q)' <=> Has(what, v, q)
    <3>1. Has(what, v, q) <=>
            \/ /\ \A u \in Threads : pc[u] # "idle" => me[u].flow # v
               /\ q \in Part(what, "idle", NoCall, cache, v)
            \/ \E u \in Threads : /\ pc[u] # "idle" /\ me[u].flow = v
                                  /\ q \in Part(what, pc[u], me[u], cache, v)
      BY DEF Has, Settled, Busy
    <3> QED  BY <2>1, <3>1, HasNext
  <2>3. \A f : \A v \in Flows : Uses(v, f)' <=> Uses(v, f)  BY <2>2 DEF Uses
  <2> QED  BY <2>1, <2>2, <2>3 DEF PoolUnlocked
<1>2. ASSUME NEW t \in Threads, NEW O \in Flows, NEW op \in {"add", "remove"}, Call(t, O, op)
      PROVE  /\ UNCHANGED <<pool, tainted, bal, acl, portFlows, idGem, cache>>
             /\ \A what, q : \A v \in Flows : Has(what, v, q)' <=> Has(what, v, q)
             /\ \A f : \A v \in Flows : Uses(v, f)' <=> Uses(v, f)
             /\ \A u \in Threads : pc'[u] = "rbal" => pc[u] = "rbal" /\ me'[u] = me[u]
             /\ PoolUnlocked' => PoolUnlocked
  <2>1. Turn(t, O) /\ Outside(pc[t]) /\ Outside(pc'[t]) /\ pc[t] = "idle"
    BY <1>2, TurnCall, CallQuiet DEF Quiet, Call, Go
  <2>2. UNCHANGED <<pool, tainted, bal, acl, portFlows, idGem, cache>>
    BY <1>2 DEF Call, maps
  <2>3. ASSUME NEW what, NEW q, NEW v \in Flows  PROVE Has(what, v, q)' <=> Has(what, v, q)
    <3>1. q \in Part(what, pc'[t], me'[t], cache', O) <=> q \in Part(what, pc[t], me[t], cache, O)
      BY <2>1, <2>2, PartOutside
    <3>2. Has(what, O, q)' <=> Has(what, O, q)  BY <2>1, <3>1, HasTurn
    <3>3. CASE v = O  BY <3>2, <3>3
    <3>4. CASE v # O  BY <2>1, <3>4, HasTurn
    <3> QED  BY <3>3, <3>4
  <2>4. \A f : \A v \in Flows : Uses(v, f)' <=> Uses(v, f)  BY <2>3 DEF Uses
  <2>5. \A u \in Threads : pc'[u] = "rbal" => pc[u] = "rbal" /\ me'[u] = me[u]
    <3>1. pc'[t] # "rbal"  BY <2>1 DEF Outside, AtFlow, Undoing
    <3> QED  BY <2>1, <3>1 DEF Turn, Busy
  <2>6. PoolUnlocked' => PoolUnlocked
    BY <2>1 DEF PoolUnlocked, Turn
  <2> QED  BY <2>2, <2>3, <2>4, <2>5, <2>6
<1> QED  BY <1>1, <1>2 DEF Arrives

LEMMA NextOrStands ==
  ASSUME [Next]_vars
  PROVE  (Arrives \/ UNCHANGED vars) \/ \E t \in Threads : Add(t) \/ Remove(t)
BY DEF Next, Arrives

(* At first nothing is used.                                               *)
LEMMA InitHas ==
  ASSUME Init, NEW v \in Flows, NEW what, NEW q
  PROVE  ~Has(what, v, q)
<1>1. \A t \in Threads : ~Busy(t)  BY DEF Init, Busy
<1>2. cache[v] = <<>> /\ Outside("idle")  BY DEF Init, Outside, AtFlow, Undoing
<1>3. q \notin Part(what, "idle", NoCall, cache, v)  BY <1>2, PartOutside
<1> QED  BY <1>1, <1>3 DEF Has

LEMMA InitSound == Init => Sound
BY InitType, InitAlias, InitShape DEF Sound

LEMMA InitUse == Init => UseInv
BY InitHas DEF Uses, UseInv, Marked, SharedByTwins

LEMMA NextUse ==
  ASSUME Serialised, PairedRequests, Sound, UseInv, [Next]_vars
  PROVE  UseInv'
<1>1. CASE Arrives \/ UNCHANGED vars
  <2>1. /\ UNCHANGED <<pool, tainted>>
        /\ \A f : \A v \in Flows : Uses(v, f)' <=> Uses(v, f)
    BY <1>1, Stands
  <2>2. Marked'  BY <2>1 DEF UseInv, Marked
  <2>3. SharedByTwins'  BY <2>1 DEF UseInv, SharedByTwins, Twin
  <2> QED  BY <2>2, <2>3 DEF UseInv
<1>2. CASE \E t \in Threads : Add(t) \/ Remove(t)  BY <1>2, UseSteps
<1> QED  BY <1>1, <1>2, NextOrStands

(* What a flow at rest has in the cache.                                   *)
LEMMA AtRestHas ==
  ASSUME TypeInv, NEW v \in Flows, Settled(v), NEW i \in DOMAIN cache[v]
  PROVE  /\ cache[v][i] \in Params /\ Uses(v, cache[v][i].id)
         /\ \A what \in {"held", "done", "mapped"} : Has(what, v, cache[v][i])
<1>1. cache[v] \in Seq(Params)  BY DEF TypeInv, TypeOK
<1>2. cache[v][i] \in Params  BY <1>1, ElementType
<1>3. \A what \in {"held", "done", "mapped"} : cache[v][i] \in Part(what, "idle", NoCall, cache, v)
  <2>1. Outside("idle")  BY DEF Outside, AtFlow, Undoing
  <2> QED  BY <2>1, PartOutside
<1>4. \A what \in {"held", "done", "mapped"} : Has(what, v, cache[v][i])  BY <1>3 DEF Has
<1> QED  BY <1>2, <1>4 DEF Uses

(***************************************************************************)
(* Two VOLTHA flows never claim the same device flow, for any number of    *)
(* threads and flows: an id has one user, or the two flows of a subscriber *)
(* that differ in direction.                                               *)
(***************************************************************************)
THEOREM OneClaim ==
  ASSUME Serialised, PairedRequests
  PROVE  Spec => []KeyExclusive
<1>1. Init => Sound /\ UseInv  BY InitSound, InitUse
<1>2. (Sound /\ UseInv) /\ [Next]_vars => (Sound /\ UseInv)'  BY NextSound, NextUse
<1>3. Sound /\ UseInv => KeyExclusive
  <2> SUFFICES ASSUME Sound, UseInv, NEW v \in Flows, NEW w \in Flows,
                      v # w, Settled(v), Settled(w), NEW key \in KeysOf(v) \cap KeysOf(w)
               PROVE  key \in tainted \X Types
    BY DEF KeyExclusive
  <2>1. PICK f \in IdsOf(v) : key = <<f, Req[v].type>>  BY DEF KeysOf
  <2>2. f \in IdsOf(w) /\ Req[v].type = Req[w].type  BY <2>1 DEF KeysOf
  <2>3. PICK i \in DOMAIN cache[v] : f = cache[v][i].id  BY <2>1 DEF IdsOf
  <2>4. PICK j \in DOMAIN cache[w] : f = cache[w][j].id  BY <2>2 DEF IdsOf
  <2>5. Uses(v, f) /\ Uses(w, f) /\ f \in FlowIds
    <3>1. TypeInv  BY DEF Sound
    <3> QED  BY <2>3, <2>4, <3>1, AtRestHas DEF Params
  <2>6. ~Twin(v, w)
    <3>1. Req[v].kind = "datapath" => Req[v].type \in {"upstream", "downstream"}  BY FlowAssumption
    <3> QED  BY <2>2, <3>1 DEF Twin, InverseFlowType
  <2>7. f \in tainted  BY <2>5, <2>6 DEF UseInv, SharedByTwins
  <2> QED  BY <2>1, <2>7, ReqFacts
<1> QED  BY <1>1, <1>2, <1>3, PTL DEF Spec

-----------------------------------------------------------------------------
(* What is known of an id.                                                 *)

LEMMA PartIsHeld ==
  ASSUME Sound, NEW v \in Flows, NEW q, NEW what \in {"fresh", "done", "mapped"}, Has(what, v, q)
  PROVE  Has("held", v, q)
<1>1. CASE Settled(v) /\ q \in Part(what, "idle", NoCall, cache, v)
  <2>1. Outside("idle")  BY DEF Outside, AtFlow, Undoing
  <2>2. q \in Part("held", "idle", NoCall, cache, v)  BY <1>1, <2>1, PartOutside
  <2> QED  BY <1>1, <2>2 DEF Has
<1>2. ASSUME NEW t \in Threads, Busy(t), me[t].flow = v, q \in Part(what, pc[t], me[t], cache, v)
      PROVE  q \in Part("held", pc[t], me[t], cache, v)
  <2>1. CASE pc[t] \in AtFlow
    <3>1. PICK i \in 1 .. Need(t) : Is(what, pc[t], me[t], i) /\ q = Devs(me[t], cache)[i]
      BY <1>2, <2>1, PartNowAt DEF PartNow
    <3>2. me[t].idx \in Nat /\ Need(t) \in Nat  BY <2>1, DevFacts
    <3>3. Is("held", pc[t], me[t], i)
      <4>1. pc[t] \in {"add", "bal", "cache"} => me[t].op = "add"  BY OpAt DEF Sound
      <4>2. me[t].op \in {"add", "remove"}  BY <1>2, OpAt DEF Sound
      <4>3. (me[t].idx < i => me[t].idx <= i) /\ (me[t].idx = i => me[t].idx <= i)  BY <3>2
      <4> QED
        BY <2>1, <3>1, <4>1, <4>2, <4>3 DEF Is, Held, Fresh, Done, Mapped, OwnIds, AtFlow, Undoing
    <3> QED  BY <1>2, <2>1, <3>1, <3>3, PartNowAt DEF PartNow
  <2>2. CASE pc[t] = "uncache"  BY <1>2, <2>2, PartUncache
  <2>3. CASE Outside(pc[t])  BY <1>2, <2>3, PartOutside
  <2> QED  BY <2>1, <2>2, <2>3 DEF Outside
<1>3. CASE ~(Settled(v) /\ q \in Part(what, "idle", NoCall, cache, v))
  <2>1. PICK t \in Threads : Busy(t) /\ me[t].flow = v /\ q \in Part(what, pc[t], me[t], cache, v)
    BY <1>3 DEF Has
  <2> QED  BY <1>2, <2>1 DEF Has
<1> QED  BY <1>1, <1>3

LEMMA HereHeld ==
  ASSUME Sound, NEW t \in Threads, pc[t] \in AtFlow, pc[t] # "free"
  PROVE  Here(t) \in Params /\ Here(t).id \in FlowIds /\ Uses(me[t].flow, Here(t).id)
<1>0. Here(t) \in Params /\ Here(t).id \in FlowIds /\ Busy(t)  BY HereFacts, DevFacts
<1>1. me[t].idx \in 1 .. Need(t) /\ Need(t) \in Nat  BY DevFacts
<1>2. Is("held", pc[t], me[t], me[t].idx)
  <2>1. me[t].idx <= me[t].idx  BY <1>1
  <2> QED  BY <2>1 DEF Is, Held
<1>3. Here(t) \in PartNow("held", t)  BY <1>1, <1>2, PartNowAt DEF Here
<1> QED  BY <1>0, <1>3 DEF Uses, Has, PartNow

LEMMA HereFresh ==
  ASSUME Sound, NEW t \in Threads, pc[t] = "free"
  PROVE  \/ Here(t) \in PartNow("fresh", t)
         \/ \E w \in Flows : Twin(me[t].flow, w) /\ Here(t).id \in IdsOf(w)
<1>0. pc[t] \in AtFlow  BY DEF AtFlow, Undoing
<1>1. me[t].idx \in 1 .. Need(t) /\ Need(t) \in Nat /\ me[t].op \in {"add", "remove"}
  BY <1>0, DevFacts
<1>2. CASE me[t].op = "remove" \/ OwnIds(me[t])
  <2>1. me[t].idx <= me[t].idx  BY <1>1
  <2>2. Is("fresh", pc[t], me[t], me[t].idx)  BY <1>2, <2>1 DEF Is, Fresh
  <2> QED  BY <1>0, <1>1, <2>2, PartNowAt DEF Here
<1>3. CASE me[t].op = "add" /\ me[t].ids = <<>>
  <2>1. Here(t) \notin PartNow("held", t)
    <3>1. \A i : ~Is("held", pc[t], me[t], i)  BY <1>3 DEF Is, Held
    <3> QED  BY <1>0, <3>1, PartNowAt
  <2> QED  BY <1>0, <2>1, HereInUse
<1> QED  BY <1>1, <1>2, <1>3 DEF OwnIds

(* What a step tells BAL or the ACL table.                                 *)
LEMMA TableGains ==
  ASSUME Sound, NEW t \in Threads, Add(t) \/ Remove(t), NEW f, NEW type
  PROVE  /\ <<f, type>> \in bal' => \/ <<f, type>> \in bal
                                    \/ /\ AddSucceeds(t) /\ f = Here(t).id
                                       /\ type = R(t).type /\ R(t).kind # "trap"
         /\ <<f, type>> \in acl' => \/ <<f, type>> \in acl
                                    \/ /\ AddSucceeds(t) /\ f = Here(t).id
                                       /\ type = R(t).type /\ R(t).kind = "trap"
<1>1. CASE UNCHANGED <<bal, acl>>  BY <1>1
<1>2. CASE AddSucceeds(t)
  BY <1>2, AddSucceedsFacts DEF Key
<1>3. CASE RemoveAcl(t) \/ BalRemoves(t)
  BY <1>3, RemoveAclFacts, BalRemovesFacts
<1> QED  BY <1>1, <1>2, <1>3, SharedData

LEMMA KnowSteps ==
  ASSUME Sound, PairedRequests, UseInv, KnowInv, NEW t \in Threads, Add(t) \/ Remove(t)
  PROVE  KnowInv'
<1>0. PICK O \in Flows : O = me[t].flow /\ Turn(t, O) /\ Busy(t) /\ tainted \subseteq tainted'
  BY TurnSteps, SharedData DEF Turn
<1>1. ASSUME AddSucceeds(t)
      PROVE  /\ Here(t).id \in FlowIds /\ Uses(O, Here(t).id)
             /\ \A v \in Flows \ {O} :
                  Uses(v, Here(t).id) /\ Here(t).id \notin tainted => Twin(O, v)
  <2>1. pc[t] = "bal" /\ pc[t] \in AtFlow  BY <1>1, AddSucceedsFacts DEF AtFlow
  <2>2. Here(t).id \in FlowIds /\ Uses(O, Here(t).id)  BY <1>0, <2>1, HereHeld
  <2> QED  BY <2>2 DEF UseInv, SharedByTwins
<1>2. ASSUME NEW f \in FlowIds \ tainted', NEW type \in Types, <<f, type>> \in bal' \cup acl'
      PROVE  f \in pool'
  <2>1. f \in pool
    <3>1. CASE <<f, type>> \in bal \cup acl
      BY <1>0, <3>1 DEF KnowInv, KnownIsMarked, Known
    <3>2. CASE AddSucceeds(t) /\ f = Here(t).id
      BY <1>0, <1>1, <3>2 DEF UseInv, Marked
    <3> QED  BY <1>2, <3>1, <3>2, TableGains
  <2>2. ASSUME FreeAfterAdd(t) \/ FreeAfterRemove(t), f = Here(t).id  PROVE FALSE
    <3>1. /\ pc[t] = "free" /\ Here(t) \in Params /\ ~Shared(f, O) /\ UNCHANGED <<bal, acl>>
      BY <1>0, <1>2, <2>2, ReleaseFacts
    <3>2. type = Req[O].type  BY <1>2, <3>1 DEF Shared
    <3>3. CASE Here(t) \in PartNow("fresh", t)
      <4>1. Has("fresh", O, Here(t))  BY <1>0, <3>3 DEF Has, PartNow
      <4>2. <<f, Req[O].type>> \notin bal \cup acl
        BY <1>0, <1>2, <2>2, <3>1, <4>1 DEF KnowInv, FreshIsUnknown
      <4> QED  BY <1>2, <3>1, <3>2, <4>2
    <3>4. CASE \E w \in Flows : Twin(me[t].flow, w) /\ Here(t).id \in IdsOf(w)
      <4>1. PICK w \in Flows : Twin(me[t].flow, w) /\ Here(t).id \in IdsOf(w)  BY <3>4
      <4>2. w # me[t].flow /\ Settled(w)  BY <1>0, <4>1, TwinAtRest
      <4> QED  BY <1>0, <2>2, <3>1, <4>1, <4>2 DEF Shared
    <3> QED  BY <3>1, <3>3, <3>4, HereFresh
  <2>3. CASE FreeAfterAdd(t) \/ FreeAfterRemove(t)
    BY <2>1, <2>2, <2>3, ReleaseFacts
  <2>4. CASE ~(FreeAfterAdd(t) \/ FreeAfterRemove(t))
    BY <2>1, <2>4, SharedData
  <2> QED  BY <2>3, <2>4
<1>3. ASSUME NEW v \in Flows, NEW q \in Params, Has("fresh", v, q)', q.id \notin tainted'
      PROVE  <<q.id, Req[v].type>> \notin bal' \cup acl'
  <2>0. q.id \in FlowIds \ tainted  BY <1>0, <1>3 DEF Params
  <2>1. CASE v # O
    <3>1. Has("fresh", v, q)  BY <1>0, <1>3, <2>1, HasTurn
    <3>2. <<q.id, Req[v].type>> \notin bal \cup acl
      BY <2>0, <3>1 DEF KnowInv, FreshIsUnknown
    <3>3. Uses(v, q.id)  BY <3>1, PartIsHeld DEF Uses
    <3>4. ASSUME AddSucceeds(t), q.id = Here(t).id, Req[v].type = R(t).type  PROVE FALSE
      <4>1. Twin(O, v)  BY <1>1, <2>0, <2>1, <3>3, <3>4
      <4>2. Req[O].type \in {"upstream", "downstream"}  BY <4>1, FlowAssumption DEF Twin
      <4> QED  BY <1>0, <3>4, <4>1, <4>2 DEF Twin, InverseFlowType, R
    <3> QED  BY <3>2, <3>4, TableGains
  <2>2. CASE v = O
    <3>1. q \in PartThen("fresh", t)
      <4>1. Has("fresh", O, q)'  BY <1>3, <2>2
      <4> QED  BY <1>0, <4>1, HasTurn DEF PartThen
    <3>2. CASE q \in PartNow("fresh", t)
      <4>1. Has("fresh", O, q)  BY <1>0, <3>2 DEF Has, PartNow
      <4>2. <<q.id, Req[O].type>> \notin bal \cup acl
        BY <2>0, <4>1 DEF KnowInv, FreshIsUnknown
      <4>3. AddSucceeds(t) => q.id # Here(t).id  BY <3>1, PartDrops
      <4> QED  BY <2>2, <4>2, <4>3, TableGains
    <3>3. CASE Alloc(t)
      <4>1. q.id \notin pool /\ UNCHANGED <<bal, acl>>  BY <3>1, <3>3, AllocParts, AllocFacts
      <4>2. Req[O].type \in Types  BY ReqFacts
      <4> QED  BY <2>0, <2>2, <4>1, <4>2 DEF KnowInv, KnownIsMarked, Known
    <3>4. CASE q = Here(t) /\ RemoveAcl(t)
      <4>1. /\ pc[t] = "rmaps" /\ Key(t, q.id) \in acl /\ acl' = acl \ {Key(t, q.id)} /\ bal' = bal
        BY <3>4, RemoveAclFacts
      <4>2. pc[t] \in AtFlow  BY <4>1 DEF AtFlow, Undoing
      <4>3. Uses(O, q.id)  BY <1>0, <3>4, <4>1, <4>2, HereHeld
      <4>4. Req[O].type \in Types /\ Key(t, q.id) = <<q.id, Req[O].type>>
        BY <1>0, ReqFacts DEF Key, R
      <4>5. <<q.id, Req[O].type>> \notin bal
        BY <2>0, <4>1, <4>3, <4>4 DEF KnowInv, ToldByKind
      <4> QED  BY <2>2, <4>1, <4>4, <4>5
    <3>5. CASE q = Here(t) /\ BalRemoves(t)
      <4>1. Key(t, q.id) = <<q.id, Req[O].type>>  BY <1>0 DEF Key, R
      <4> QED  BY <2>2, <3>5, <4>1, BalRemovesFacts
    <3> QED  BY <1>3, <3>1, <3>2, <3>3, <3>4, <3>5, PartGains
  <2> QED  BY <2>1, <2>2
<1>4. ASSUME NEW v \in Flows, NEW f \in FlowIds \ tainted', NEW type \in Types, Uses(v, f)'
      PROVE  <<f, type>> \notin IF Req[v].kind = "trap" THEN bal' ELSE acl'
  <2>1. CASE v # O
    <3>1. Uses(v, f)  BY <1>0, <1>4, <2>1, UsesTurn
    <3>2. <<f, type>> \notin IF Req[v].kind = "trap" THEN bal ELSE acl
      BY <1>0, <3>1 DEF KnowInv, ToldByKind
    <3>3. AddSucceeds(t) /\ f = Here(t).id => Req[v].kind = "datapath" /\ R(t).kind = "datapath"
      BY <1>0, <1>1, <2>1, <3>1 DEF Twin, R
    <3> QED  BY <3>2, <3>3, TableGains
  <2>2. CASE v = O
    <3>1. Uses(O, f)'  BY <1>4, <2>2
    <3>2. CASE Uses(O, f)
      <4>1. <<f, type>> \notin IF Req[O].kind = "trap" THEN bal ELSE acl
        BY <1>0, <3>2 DEF KnowInv, ToldByKind
      <4>2. R(t).kind = Req[O].kind  BY <1>0 DEF R
      <4> QED  BY <2>2, <4>1, <4>2, TableGains
    <3>3. CASE f \notin pool /\ UNCHANGED <<bal, acl, tainted>>
      BY <1>0, <3>3 DEF KnowInv, KnownIsMarked, Known
    <3>4. CASE \E w \in Flows : Twin(O, w) /\ Uses(w, f)
      <4>1. PICK w \in Flows : Twin(O, w) /\ Uses(w, f)  BY <3>4
      <4>2. <<f, type>> \notin acl /\ Req[O].kind = "datapath" /\ R(t).kind = "datapath"
        BY <1>0, <4>1 DEF KnowInv, ToldByKind, Twin, R
      <4> QED  BY <2>2, <4>2, TableGains
    <3> QED  BY <1>0, <3>1, <3>2, <3>3, <3>4, UseGains
  <2> QED  BY <2>1, <2>2
<1>5. KnownIsMarked'  BY <1>2 DEF KnownIsMarked, Known
<1>6. FreshIsUnknown'  BY <1>3 DEF FreshIsUnknown
<1>7. ToldByKind'  BY <1>4 DEF ToldByKind
<1> QED  BY <1>5, <1>6, <1>7 DEF KnowInv

LEMMA InitKnow == Init => KnowInv
<1> SUFFICES ASSUME Init  PROVE KnowInv
  OBVIOUS
<1>1. bal = {} /\ acl = {}  BY DEF Init
<1> QED  BY <1>1 DEF KnowInv, KnownIsMarked, Known, FreshIsUnknown, ToldByKind

LEMMA NextKnow ==
  ASSUME Serialised, PairedRequests, Sound, UseInv, KnowInv, [Next]_vars
  PROVE  KnowInv'
<1>1. CASE Arrives \/ UNCHANGED vars
  <2>1. /\ UNCHANGED <<pool, tainted, bal, acl>>
        /\ \A what, q : \A v \in Flows : Has(what, v, q)' <=> Has(what, v, q)
        /\ \A f : \A v \in Flows : Uses(v, f)' <=> Uses(v, f)
    BY <1>1, Stands
  <2>2. KnownIsMarked'  BY <2>1 DEF KnowInv, KnownIsMarked, Known
  <2>3. FreshIsUnknown'  BY <2>1 DEF KnowInv, FreshIsUnknown
  <2>4. ToldByKind'  BY <2>1 DEF KnowInv, ToldByKind
  <2> QED  BY <2>2, <2>3, <2>4 DEF KnowInv
<1>2. CASE \E t \in Threads : Add(t) \/ Remove(t)  BY <1>2, KnowSteps
<1> QED  BY <1>1, <1>2, NextOrStands

(***************************************************************************)
(* An id whose bit is clear is not known to BAL nor to the ACL table, for  *)
(* any number of threads and flows: the next flow that gets it collides    *)
(* with nothing.                                                           *)
(***************************************************************************)
THEOREM NoCollision ==
  ASSUME Serialised, PairedRequests
  PROVE  Spec => []ClearIdIsUnused
<1>1. Init => Sound /\ UseInv /\ KnowInv  BY InitSound, InitUse, InitKnow
<1>2. (Sound /\ UseInv /\ KnowInv) /\ [Next]_vars => (Sound /\ UseInv /\ KnowInv)'
  BY NextSound, NextUse, NextKnow
<1>3. Sound /\ UseInv /\ KnowInv => ClearIdIsUnused
  BY DEF KnowInv, KnownIsMarked, Known, ClearIdIsUnused
<1> QED  BY <1>1, <1>2, <1>3, PTL DEF Spec

-----------------------------------------------------------------------------
(* Packet-out.                                                             *)

LEMMA MapSteps ==
  ASSUME Sound, PairedRequests, UseInv, MapInv, NEW t \in Threads, Add(t) \/ Remove(t)
  PROVE  MapInv'
<1>0. PICK O \in Flows : O = me[t].flow /\ Turn(t, O) /\ Busy(t) /\ tainted \subseteq tainted'
  BY TurnSteps, SharedData DEF Turn
<1>1. portFlows \in [Ports -> SUBSET FlowIds] /\ idGem \in [FlowIds -> Gems \cup {None}]
  BY DEF Sound, TypeInv, TypeOK
<1> SUFFICES ASSUME NEW v \in Flows, NEW q \in Params,
                    Req[v].kind = "datapath", Req[v].type = "downstream",
                    Has("mapped", v, q)', q.id \notin tainted'
             PROVE  q.id \in portFlows'[Req[v].port] /\ idGem'[q.id] = q.gem
  BY DEF MapInv, Leads
<1>2. q.id \in FlowIds \ tainted /\ Req[v].port \in Ports  BY <1>0, ReqFacts DEF Params
<1>3. ASSUME q.id \in portFlows[Req[v].port], idGem[q.id] = q.gem,
             (AddMaps(t) \/ RemoveMaps(t)) /\ R(t).type = "downstream" => q.id # Here(t).id
      PROVE  q.id \in portFlows'[Req[v].port] /\ idGem'[q.id] = q.gem
  <2>1. CASE UNCHANGED <<portFlows, idGem>>  BY <1>3, <2>1
  <2>2. CASE AddMaps(t)
    <3>1. \/ UNCHANGED <<portFlows, idGem>>
          \/ /\ R(t).type = "downstream"
             /\ portFlows' = [portFlows EXCEPT ![R(t).port] = @ \cup {Here(t).id}]
             /\ idGem' = [idGem EXCEPT ![Here(t).id] = Here(t).gem]
      BY <2>2, AddMapsFacts DEF maps
    <3> QED  BY <1>1, <1>2, <1>3, <2>2, <3>1
  <2>3. CASE RemoveMaps(t)
    <3>1. \/ UNCHANGED <<portFlows, idGem>>
          \/ /\ R(t).type = "downstream"
             /\ idGem' = [idGem EXCEPT ![Here(t).id] = None]
             /\ portFlows' = [portFlows EXCEPT ![idPort[Here(t).id]] = @ \ {Here(t).id}]
      BY <2>3, RemoveMapsFacts
    <3> QED  BY <1>1, <1>2, <1>3, <2>3, <3>1
  <2> QED  BY <2>1, <2>2, <2>3, SharedData
<1>4. CASE v # O
  <2>1. Has("mapped", v, q)  BY <1>0, <1>4, HasTurn
  <2>2. q.id \in portFlows[Req[v].port] /\ idGem[q.id] = q.gem
    BY <1>2, <2>1 DEF MapInv, Leads
  <2>3. ASSUME AddMaps(t) \/ RemoveMaps(t), R(t).type = "downstream", q.id = Here(t).id
        PROVE  FALSE
    <3>1. pc[t] \in {"add", "rmaps"}  BY <2>3, AddMapsFacts, RemoveMapsFacts
    <3>2. pc[t] \in AtFlow /\ pc[t] # "free"  BY <3>1 DEF AtFlow, Undoing
    <3>3. Uses(O, q.id)  BY <1>0, <2>3, <3>2, HereHeld
    <3>4. Uses(v, q.id)  BY <2>1, PartIsHeld DEF Uses
    <3>5. Twin(O, v)  BY <1>2, <1>4, <3>3, <3>4 DEF UseInv, SharedByTwins
    <3> QED  BY <1>0, <2>3, <3>5 DEF Twin, InverseFlowType, R
  <2> QED  BY <1>3, <2>2, <2>3
<1>5. CASE v = O
  <2>1. q \in PartThen("mapped", t)
    <3>1. Has("mapped", O, q)'  BY <1>5
    <3> QED  BY <1>0, <3>1, HasTurn DEF PartThen
  <2>2. CASE AddMaps(t) /\ q = Here(t)
    <3>1. R(t) = Req[v]  BY <1>0, <1>5 DEF R
    <3>2. /\ portFlows' = [portFlows EXCEPT ![R(t).port] = @ \cup {Here(t).id}]
          /\ idGem' = [idGem EXCEPT ![Here(t).id] = Here(t).gem]
      BY <2>2, <3>1, AddMapsFacts
    <3> QED  BY <1>1, <1>2, <2>2, <3>1, <3>2
  <2>3. CASE q \in PartNow("mapped", t) /\ ~(AddMaps(t) /\ q = Here(t))
    <3>1. Has("mapped", O, q)  BY <1>0, <2>3 DEF Has, PartNow
    <3>2. q.id \in portFlows[Req[v].port] /\ idGem[q.id] = q.gem
      BY <1>2, <1>5, <3>1 DEF MapInv, Leads
    <3>3. ~RemoveMaps(t)  BY <2>1, PartDrops
    <3>4. AddMaps(t) => q.id # Here(t).id
      <4>1. SUFFICES ASSUME AddMaps(t), q.id = Here(t).id  PROVE q = Here(t)
        BY <2>3
      <4>2. pc[t] \in AtFlow  BY <4>1, AddMapsFacts DEF AtFlow
      <4>3. PICK i \in 1 .. Need(t) : q = Devs(me[t], cache)[i]  BY <2>3, <4>2, PartNowAt
      <4>4. i = me[t].idx  BY <4>1, <4>2, <4>3, Apart
      <4> QED  BY <4>3, <4>4 DEF Here
    <3> QED  BY <1>3, <3>2, <3>3, <3>4
  <2> QED  BY <2>1, <2>2, <2>3, PartGains
<1> QED  BY <1>4, <1>5

LEMMA NextMap ==
  ASSUME Serialised, PairedRequests, Sound, UseInv, MapInv, [Next]_vars
  PROVE  MapInv'
<1>1. CASE Arrives \/ UNCHANGED vars
  <2>1. /\ UNCHANGED <<tainted, portFlows, idGem>>
        /\ \A what, q : \A v \in Flows : Has(what, v, q)' <=> Has(what, v, q)
    BY <1>1, Stands
  <2> QED  BY <2>1 DEF MapInv, Leads
<1>2. CASE \E t \in Threads : Add(t) \/ Remove(t)  BY <1>2, MapSteps
<1> QED  BY <1>1, <1>2, NextOrStands

(***************************************************************************)
(* Packet-out reaches every subscriber with a downstream flow, for any     *)
(* number of threads and flows: what was added and undone since took the   *)
(* maps of no other flow away.                                             *)
(***************************************************************************)
THEOREM PacketOutReaches ==
  ASSUME Serialised, PairedRequests
  PROVE  Spec => []DownstreamIsReachable
<1>1. Init => Sound /\ UseInv /\ MapInv  BY InitSound, InitUse, InitHas DEF MapInv
<1>2. (Sound /\ UseInv /\ MapInv) /\ [Next]_vars => (Sound /\ UseInv /\ MapInv)'
  BY NextSound, NextUse, NextMap
<1>3. Sound /\ MapInv => DownstreamIsReachable
  <2> SUFFICES ASSUME Sound, MapInv, NEW v \in Flows, Settled(v),
                      Req[v].kind = "datapath", Req[v].type = "downstream",
                      NEW i \in DOMAIN cache[v], cache[v][i].id \notin tainted
               PROVE  /\ cache[v][i].id \in portFlows[Req[v].port]
                      /\ idGem[cache[v][i].id] = cache[v][i].gem
    BY DEF DownstreamIsReachable
  <2>1. cache[v][i] \in Params /\ Has("mapped", v, cache[v][i])
    BY AtRestHas DEF Sound
  <2> QED  BY <2>1 DEF MapInv, Leads
<1> QED  BY <1>1, <1>2, <1>3, PTL DEF Spec

-----------------------------------------------------------------------------
(* What the cache says is installed, is.                                   *)

LEMMA InstallSteps ==
  ASSUME "already" \notin AddOutcomes, Sound, PairedRequests, UseInv, KnowInv, InstallInv,
         NEW t \in Threads, Add(t) \/ Remove(t)
  PROVE  InstallInv'
<1>0. PICK O \in Flows : O = me[t].flow /\ Turn(t, O) /\ Busy(t) /\ tainted \subseteq tainted'
  BY TurnSteps, SharedData DEF Turn
<1>1. ASSUME NEW v \in Flows, NEW q \in Params, Has("done", v, q)', q.id \notin tainted'
      PROVE  <<q.id, Req[v].type>> \in IF Req[v].kind = "trap" THEN acl' ELSE bal'
  <2>0. q.id \in FlowIds \ tainted  BY <1>0, <1>1 DEF Params
  <2>1. ASSUME <<q.id, Req[v].type>> \in Table(v),
               RemoveAcl(t) \/ BalRemoves(t) => <<q.id, Req[v].type>> # Key(t, Here(t).id)
        PROVE  <<q.id, Req[v].type>> \in IF Req[v].kind = "trap" THEN acl' ELSE bal'
    <3>1. CASE UNCHANGED <<bal, acl>>  BY <2>1, <3>1 DEF Table
    <3>2. CASE AddSucceeds(t)  BY <2>1, <3>2, AddSucceedsFacts DEF Table
    <3>3. CASE RemoveAcl(t) \/ BalRemoves(t)
      BY <2>1, <3>3, RemoveAclFacts, BalRemovesFacts DEF Table
    <3> QED  BY <3>1, <3>2, <3>3, SharedData
  <2>2. CASE v # O
    <3>1. Has("done", v, q)  BY <1>0, <1>1, <2>2, HasTurn
    <3>2. <<q.id, Req[v].type>> \in Table(v)  BY <2>0, <3>1 DEF InstallInv, DoneIsKnown
    <3>3. ASSUME RemoveAcl(t) \/ BalRemoves(t), <<q.id, Req[v].type>> = Key(t, Here(t).id)
          PROVE  FALSE
      <4>1. pc[t] \in AtFlow /\ pc[t] # "free"
        BY <3>3, RemoveAclFacts, BalRemovesFacts DEF AtFlow, Undoing
      <4>2. q.id = Here(t).id /\ Req[v].type = Req[O].type  BY <1>0, <3>3 DEF Key, R
      <4>3. Uses(O, q.id)  BY <1>0, <4>1, <4>2, HereHeld
      <4>4. Uses(v, q.id)  BY <3>1, PartIsHeld DEF Uses
      <4>5. Twin(O, v)  BY <2>0, <2>2, <4>3, <4>4 DEF UseInv, SharedByTwins
      <4>6. Req[O].type \in {"upstream", "downstream"}  BY <4>5, FlowAssumption DEF Twin
      <4> QED  BY <4>2, <4>5, <4>6 DEF Twin, InverseFlowType
    <3> QED  BY <2>1, <3>2, <3>3
  <2>3. CASE v = O
    <3>1. q \in PartThen("done", t)
      <4>1. Has("done", O, q)'  BY <1>1, <2>3
      <4> QED  BY <1>0, <4>1, HasTurn DEF PartThen
    <3>2. CASE q \in PartNow("done", t)
      <4>1. Has("done", O, q)  BY <1>0, <3>2 DEF Has, PartNow
      <4>2. <<q.id, Req[v].type>> \in Table(v)
        BY <2>0, <2>3, <4>1 DEF InstallInv, DoneIsKnown
      <4>3. RemoveAcl(t) \/ BalRemoves(t) => q.id # Here(t).id  BY <3>1, PartDrops
      <4> QED  BY <2>1, <4>2, <4>3 DEF Key
    <3>3. CASE AddSucceeds(t) /\ q = Here(t)
      <4>1. Key(t, q.id) = <<q.id, Req[v].type>> /\ R(t).kind = Req[v].kind
        BY <1>0, <2>3 DEF Key, R
      <4>2. \/ R(t).kind # "trap" /\ bal' = bal \cup {Key(t, Here(t).id)}
            \/ R(t).kind = "trap" /\ acl' = acl \cup {Key(t, Here(t).id)}
        BY <3>3, AddSucceedsFacts
      <4> QED  BY <3>3, <4>1, <4>2
    <3> QED  BY <3>1, <3>2, <3>3, PartGains
  <2> QED  BY <2>2, <2>3
<1>2. ASSUME NEW u \in Threads, pc'[u] = "rbal", me'[u].op = "remove", Req[me'[u].flow].kind = "trap"
      PROVE  Devs(me'[u], cache')[me'[u].idx].id \in tainted'
  <2>1. CASE u # t
    <3>0. Busy(u) /\ "rbal" \in AtFlow  BY <1>0, <1>2, <2>1 DEF Turn, Busy, AtFlow, Undoing
    <3>1. /\ pc[u] = "rbal" /\ me'[u] = me[u] /\ Devs(me[u], cache') = Devs(me[u], cache)
      BY <1>0, <1>2, <2>1, <3>0, Elsewhere
    <3>2. Here(u).id \in tainted  BY <1>2, <3>1 DEF InstallInv, TrapsSkipBal, R
    <3> QED  BY <1>0, <3>1, <3>2 DEF Here
  <2>2. CASE u = t
    <3>1. /\ RemoveMaps(t) /\ pc[t] = "rmaps"
      <4>1. pc'[t] = "rbal"  BY <1>2, <2>2
      <4>2. CASE QuietAction(t)
        BY <4>1, <4>2, QuietFacts DEF Quiet, Outside, AtFlow, Undoing
      <4>3. CASE Deref(t) /\ Cached(me[t].sym)  BY <4>1, <4>3, DerefFacts
      <4>4. CASE GetDeviceFlow(t) /\ Cached(me[t].flow)  BY <4>1, <4>4, GetFacts
      <4>5. CASE Alloc(t) \/ AddMaps(t) \/ AddSucceeds(t)
        BY <4>1, <4>5, AllocFacts, AddMapsFacts, AddSucceedsFacts
      <4>6. CASE AddFails(t) \/ RemoveAcl(t) \/ BalRemoves(t) \/ BalRefuses(t)
        BY <4>1, <4>6, AddFailsFacts, RemoveAclFacts, BalRemovesFacts, BalRefusesFacts
        DEF Clears, Undoes, Continues, Ends
      <4>7. CASE FreeAfterAdd(t) \/ FreeAfterRemove(t)
        BY <4>1, <4>7, FreeAfterAddFacts, FreeAfterRemoveFacts DEF Continues, Ends
      <4>8. CASE UpdateCache(t)  BY <4>1, <4>8, UpdateCacheFacts DEF Ends
      <4>9. CASE Uncache(t)
        <5>1. pc' = [pc EXCEPT ![t] = "unlink"]  BY <4>9 DEF Uncache, Go
        <5>2. pc \in [Threads -> PCs]  BY LocalFacts DEF Sound
        <5> QED  BY <4>1, <5>1, <5>2
      <4> QED
        BY <4>2, <4>3, <4>4, <4>5, <4>6, <4>7, <4>8, <4>9, RemoveMapsFacts
        DEF Add, Remove, QuietAction
    <3>2. /\ Key(t, Here(t).id) \notin acl /\ Keeps(me[t], me'[t]) /\ me'[t].idx = me[t].idx
          /\ cache' = cache /\ pc[t] \in AtFlow
      BY <3>1, RemoveMapsFacts DEF AtFlow, Undoing
    <3>3. Devs(me'[t], cache')[me'[t].idx] = Here(t)  BY <3>2, KeepDevs DEF Here
    <3>4. me[t].op \in {"add", "remove"} /\ me[t].idx \in 1 .. Need(t) /\ Need(t) \in Nat
          /\ Here(t) \in Params
      BY <3>2, DevFacts, HereFacts
    <3>5. Req[O].kind = "trap"  BY <1>0, <1>2, <2>2, <3>2 DEF Keeps
    <3>6. CASE me[t].op = "remove"
      <4>1. me[t].idx <= me[t].idx  BY <3>4
      <4>2. Is("done", pc[t], me[t], me[t].idx)  BY <3>1, <3>6, <4>1 DEF Is, Done, Undoing
      <4>3. Here(t) \in PartNow("done", t)  BY <3>2, <3>4, <4>2, PartNowAt DEF Here
      <4>4. Has("done", O, Here(t))  BY <1>0, <4>3 DEF Has, PartNow
      <4>5. Here(t).id \in tainted
        BY <1>0, <3>2, <3>4, <3>5, <4>4 DEF InstallInv, DoneIsKnown, Table, Key, R
      <4> QED  BY <1>0, <2>2, <3>3, <4>5
    <3>7. CASE me[t].op = "add"
      BY <1>2, <2>2, <3>2, <3>7 DEF Keeps
    <3> QED  BY <3>4, <3>6, <3>7
  <2> QED  BY <2>1, <2>2
<1>3. DoneIsKnown'  BY <1>1 DEF DoneIsKnown, Table
<1>4. TrapsSkipBal'  BY <1>2 DEF TrapsSkipBal, R, Here, Devs, OwnIds
<1> QED  BY <1>3, <1>4 DEF InstallInv

LEMMA NextInstall ==
  ASSUME "already" \notin AddOutcomes, Serialised, PairedRequests,
         Sound, UseInv, KnowInv, InstallInv, [Next]_vars
  PROVE  InstallInv'
<1>1. CASE Arrives \/ UNCHANGED vars
  <2>1. /\ UNCHANGED <<tainted, bal, acl, cache>>
        /\ \A what, q : \A v \in Flows : Has(what, v, q)' <=> Has(what, v, q)
        /\ \A t \in Threads : pc'[t] = "rbal" => pc[t] = "rbal" /\ me'[t] = me[t]
    BY <1>1, Stands
  <2>2. DoneIsKnown'  BY <2>1 DEF InstallInv, DoneIsKnown, Table
  <2>3. TrapsSkipBal'
    BY <2>1 DEF InstallInv, TrapsSkipBal, R, Here, Devs, OwnIds
  <2> QED  BY <2>2, <2>3 DEF InstallInv
<1>2. CASE \E t \in Threads : Add(t) \/ Remove(t)  BY <1>2, InstallSteps
<1> QED  BY <1>1, <1>2, NextOrStands

LEMMA InitInstall == Init => InstallInv
<1> SUFFICES ASSUME Init  PROVE InstallInv
  OBVIOUS
<1>1. \A t \in Threads : pc[t] # "rbal"  BY DEF Init
<1> QED  BY <1>1, InitHas DEF InstallInv, DoneIsKnown, TrapsSkipBal

(***************************************************************************)
(* The cache tells the truth, for any number of threads and flows and      *)
(* however often BAL refuses: what it says is installed, BAL or the ACL    *)
(* table has.  BAL must not answer that a flow is there already: FlowAdd_  *)
(* believes it.                                                            *)
(***************************************************************************)
THEOREM CacheTellsTruth ==
  ASSUME Serialised, PairedRequests, "already" \notin AddOutcomes
  PROVE  Spec => []CachedIsInstalled
<1> DEFINE Inv == Sound /\ UseInv /\ KnowInv /\ InstallInv
<1>1. Init => Inv  BY InitSound, InitUse, InitKnow, InitInstall
<1>2. Inv /\ [Next]_vars => Inv'  BY NextSound, NextUse, NextKnow, NextInstall
<1>3. Inv => CachedIsInstalled
  <2> SUFFICES ASSUME Inv, NEW v \in Flows, Settled(v), NEW key \in KeysOf(v),
                      key \notin tainted \X Types
               PROVE  key \in IF Req[v].kind = "trap" THEN acl ELSE bal
    BY DEF CachedIsInstalled
  <2>1. PICK i \in DOMAIN cache[v] : key = <<cache[v][i].id, Req[v].type>>
    BY DEF KeysOf, IdsOf
  <2>2. cache[v][i] \in Params /\ Has("done", v, cache[v][i])  BY AtRestHas DEF Sound
  <2>3. cache[v][i].id \notin tainted  BY <2>1, ReqFacts
  <2> QED  BY <2>1, <2>2, <2>3 DEF InstallInv, DoneIsKnown, Table
<1> QED  BY <1>1, <1>2, <1>3, PTL DEF Spec

-----------------------------------------------------------------------------
(* No id is lost.                                                          *)

LEMMA NotSpinning ==
  ASSUME NEW t \in Threads, Add(t) \/ Remove(t)
  PROVE  pc[t] # "spin"
BY DEF Add, Remove, Go, Lookup, AlreadyInstalled, NotInstalled, CheckSymmetric, Deref, Alloc,
       AllocInvalid, AllocSpins, AddMaps, AddSucceeds, AddFails, FreeAfterAdd, UpdateCache, Link,
       NotFound, Found, GetDeviceFlow, RemoveAcl, RemoveMaps, BalRemoves, BalRefuses,
       FreeAfterRemove, Uncache, Unlink

LEMMA AccountSteps ==
  ASSUME Sound, UseInv, InstallInv, AccountInv, NEW t \in Threads, Add(t) \/ Remove(t)
  PROVE  AccountInv'
<1>0. PICK O \in Flows : O = me[t].flow /\ Turn(t, O) /\ Busy(t) /\ tainted \subseteq tainted'
  BY TurnSteps, SharedData DEF Turn
<1> SUFFICES ASSUME \A u \in Threads : pc'[u] # "spin", NEW f \in pool' \ (tainted' \cup {0})
             PROVE  (\E v \in Flows : Uses(v, f)') \/ \E type \in Types : <<f, type>> \in bal'
  BY DEF AccountInv, PoolUnlocked
<1>1. PoolUnlocked
  <2>1. pc[t] # "spin"  BY NotSpinning
  <2>2. \A u \in Threads \ {t} : pc'[u] = pc[u]  BY <1>0 DEF Turn
  <2> QED  BY <2>1, <2>2 DEF PoolUnlocked
<1>2. CASE Alloc(t) /\ f \notin pool
  <2>1. \E q \in Params : q.id = f /\ q \in PartThen("held", t)  BY <1>2, AllocParts
  <2>2. Uses(O, f)'  BY <1>0, <2>1, UsesTurn DEF PartThen
  <2> QED  BY <2>2
<1>3. ASSUME f \in pool, NEW v \in Flows, Uses(v, f)
      PROVE  (\E w \in Flows : Uses(w, f)') \/ \E type \in Types : <<f, type>> \in bal'
  <2>1. CASE v # O
    <3>1. Uses(v, f)'  BY <1>0, <1>3, <2>1, UsesTurn
    <3> QED  BY <3>1
  <2>2. CASE v = O
    <3>1. Uses(O, f)  BY <1>3, <2>2
    <3>2. PICK q \in Params : q.id = f /\ q \in PartNow("held", t)
      BY <1>0, <3>1, UsesTurn DEF PartNow
    <3>3. CASE q \in PartThen("held", t)
      <4>1. Uses(O, f)'  BY <1>0, <3>2, <3>3, UsesTurn DEF PartThen
      <4> QED  BY <4>1
    <3>4. CASE me[t].op = "add" /\ Symmetric(t) /\ pc[t] \in AtFlow
      <4>1. me[t].ptr \in Flows /\ Twin(O, me[t].ptr)
        BY <1>0, <3>4 DEF Sound, ShapeInv, Shape, HasPointer, Symmetric
      <4>2. Devs(me[t], cache) = cache[me[t].ptr]  BY <3>4 DEF Devs, OwnIds, Symmetric
      <4>3. PICK i \in 1 .. Need(t) : q = Devs(me[t], cache)[i]  BY <3>2, <3>4, PartNowAt
      <4>4. i \in DOMAIN cache[me[t].ptr] /\ q = cache[me[t].ptr][i]
        BY <3>4, <4>2, <4>3, DevFacts
      <4>5. Has("held", me[t].ptr, q) /\ me[t].ptr # O  BY <1>0, <4>1, <4>4, TwinAtRest
      <4>6. PICK w \in Flows : w = me[t].ptr  BY <4>1
      <4>7. Uses(w, f) /\ w # O  BY <3>2, <4>5, <4>6 DEF Uses
      <4>8. Uses(w, f)'  BY <1>0, <4>7, UsesTurn
      <4> QED  BY <4>8
    <3>5. CASE (FreeAfterAdd(t) \/ FreeAfterRemove(t)) /\ q = Here(t)
      BY <3>2, <3>5, ReleaseFacts
    <3>6. CASE BalRefuses(t) /\ me[t].op = "remove" /\ q = Here(t)
      <4>1. pc[t] = "rbal" /\ UNCHANGED bal /\ pc[t] \in AtFlow
        BY <3>6, BalRefusesFacts DEF AtFlow, Undoing
      <4>2. me[t].idx \in 1 .. Need(t) /\ Need(t) \in Nat  BY <4>1, DevFacts
      <4>3. Is("done", pc[t], me[t], me[t].idx)
        <5>1. me[t].idx <= me[t].idx  BY <4>2
        <5> QED  BY <3>6, <4>1, <5>1 DEF Is, Done, Undoing
      <4>4. q \in PartNow("done", t)  BY <3>6, <4>1, <4>2, <4>3, PartNowAt DEF Here
      <4>5. Has("done", O, q)  BY <1>0, <4>4 DEF Has, PartNow
      <4>6. f \notin tainted  BY <1>0
      <4>7. <<f, Req[O].type>> \in Table(O)
        BY <3>2, <4>5, <4>6 DEF InstallInv, DoneIsKnown
      <4>8. Req[O].kind # "trap"
        BY <1>0, <3>2, <3>6, <4>1, <4>6 DEF InstallInv, TrapsSkipBal, R
      <4> QED  BY <4>1, <4>7, <4>8, ReqFacts DEF Table
    <3> QED  BY <3>2, <3>3, <3>4, <3>5, <3>6, PartDrops
  <2> QED  BY <2>1, <2>2
<1>4. ASSUME f \in pool, NEW type \in Types, <<f, type>> \in bal
      PROVE  (\E w \in Flows : Uses(w, f)') \/ \E y \in Types : <<f, y>> \in bal'
  <2>1. CASE <<f, type>> \in bal'  BY <2>1
  <2>2. CASE BalRemoves(t) /\ f = Here(t).id
    <3>1. pc[t] \in AtFlow /\ pc[t] # "free"  BY <2>2, BalRemovesFacts DEF AtFlow, Undoing
    <3>2. Uses(O, f)  BY <1>0, <2>2, <3>1, HereHeld
    <3> QED  BY <1>3, <1>4, <3>2
  <2>3. <<f, type>> \in bal' \/ (BalRemoves(t) /\ f = Here(t).id)
    <3>1. CASE AddSucceeds(t)  BY <1>4, <3>1, AddSucceedsFacts
    <3>2. CASE RemoveAcl(t)  BY <1>4, <3>2, RemoveAclFacts
    <3>3. CASE BalRemoves(t)  BY <1>4, <3>3, BalRemovesFacts DEF Key
    <3> QED  BY <1>4, <3>1, <3>2, <3>3, SharedData
  <2> QED  BY <2>1, <2>2, <2>3
<1>5. f \in pool => (\E v \in Flows : Uses(v, f)) \/ \E type \in Types : <<f, type>> \in bal
  BY <1>0, <1>1 DEF AccountInv
<1>6. f \in pool \/ Alloc(t)  BY SharedData
<1> QED  BY <1>2, <1>3, <1>4, <1>5, <1>6

LEMMA NextAccount ==
  ASSUME Serialised, PairedRequests, Sound, UseInv, InstallInv, AccountInv, [Next]_vars
  PROVE  AccountInv'
<1>1. CASE Arrives \/ UNCHANGED vars
  <2>1. /\ UNCHANGED <<pool, tainted, bal>> /\ (PoolUnlocked' => PoolUnlocked)
        /\ \A f : \A v \in Flows : Uses(v, f)' <=> Uses(v, f)
    BY <1>1, Stands
  <2> QED  BY <2>1 DEF AccountInv
<1>2. CASE \E t \in Threads : Add(t) \/ Remove(t)  BY <1>2, AccountSteps
<1> QED  BY <1>1, <1>2, NextOrStands

(***************************************************************************)
(* No id is lost, for any number of threads and flows and however often    *)
(* BAL refuses: once no call is running, a marked id belongs to a flow in  *)
(* the cache or BAL has kept its flow.                                     *)
(***************************************************************************)
THEOREM NoIdLost ==
  ASSUME Serialised, PairedRequests, "already" \notin AddOutcomes
  PROVE  Spec => []IdsAccounted
<1> DEFINE Inv == Sound /\ UseInv /\ KnowInv /\ InstallInv /\ AccountInv
<1>1. Init => Inv
  <2>1. Init => AccountInv  BY DEF Init, AccountInv
  <2> QED  BY <2>1, InitSound, InitUse, InitKnow, InitInstall
<1>2. Inv /\ [Next]_vars => Inv'
  BY NextSound, NextUse, NextKnow, NextInstall, NextAccount
<1>3. Inv => IdsAccounted
  <2> SUFFICES ASSUME Inv, \A t \in Threads : ~Busy(t), NEW f \in pool \ (tainted \cup {0})
               PROVE  \/ \E v \in Flows : f \in IdsOf(v)
                      \/ \E type \in Types : <<f, type>> \in bal
    BY DEF IdsAccounted
  <2>1. PoolUnlocked  BY DEF PoolUnlocked, Busy
  <2>2. ASSUME NEW v \in Flows, Uses(v, f)  PROVE f \in IdsOf(v)
    <3>1. PICK q \in Params : q.id = f /\ q \in Part("held", "idle", NoCall, cache, v)
      BY <2>2 DEF Uses, Has
    <3>2. Outside("idle")  BY DEF Outside, AtFlow, Undoing
    <3>3. \E i \in DOMAIN cache[v] : q = cache[v][i]  BY <3>1, <3>2, PartOutside
    <3> QED  BY <3>1, <3>3 DEF IdsOf
  <2> QED  BY <2>1, <2>2 DEF AccountInv
<1> QED  BY <1>1, <1>2, <1>3, PTL DEF Spec
=============================================================================
