------------------------ MODULE CfgCompletion_proofs ------------------------
(***************************************************************************)
(* Proofs about CfgCompletion, for every number of handler threads,        *)
(* objects and requests in flight.                                         *)
(***************************************************************************)
EXTENDS CfgCompletion, TLAPS

(* A thread inside a call has that call's arguments.                       *)
BusyHasCall ==
  \A t \in Threads : Busy(t) => call[t] \in [obj : Objs, act : Acts, id : Ids]

TypeInv == TypeOK /\ BusyHasCall

LEMMA InitType == Init => TypeInv
BY CfgAssumption
   DEF Init, TypeInv, TypeOK, BusyHasCall, Busy, Objs, NoCall, NoId, DispIdle, PCs

(* The steps of a thread outside the wait.                                 *)
LEMMA CallersType ==
  ASSUME TypeInv, NEW t \in Threads
  PROVE  /\ \A o \in Objs, act \in Acts : Call(t, o, act) => TypeInv'
         /\ SubmitOk(t) => TypeInv'
         /\ SubmitFails(t) => TypeInv'
         /\ SubmitNotNeeded(t) => TypeInv'
         /\ Finish(t) => TypeInv'
<1> USE CfgAssumption DEF TypeInv, TypeOK, BusyHasCall, Busy, PCs, Go, balVars,
        histVars, NoCall, NoId
<1>1. ASSUME NEW o \in Objs, NEW act \in Acts, Call(t, o, act) PROVE TypeInv'
  BY <1>1 DEF Call
<1>2. ASSUME SubmitOk(t) PROVE TypeInv'
  BY <1>2 DEF SubmitOk
<1>3. ASSUME SubmitFails(t) PROVE TypeInv'
  BY <1>3 DEF SubmitFails
<1>4. ASSUME SubmitNotNeeded(t) PROVE TypeInv'
  BY <1>4 DEF SubmitNotNeeded
<1>5. ASSUME Finish(t) PROVE TypeInv'
  BY <1>5 DEF Finish
<1> QED BY <1>1, <1>2, <1>3, <1>4, <1>5

(***************************************************************************)
(* What a step inside the wait has to keep: the variables it may change.   *)
(***************************************************************************)
LEMMA WaitFrame ==
  ASSUME TypeInv, NEW t \in Threads, Busy(t),
         UNCHANGED <<reqs, inds, gems, call>>,
         NEW p \in PCs, pc' = [pc EXCEPT ![t] = p],
         compltd' \in [Objs -> Threads \cup {NoEntry, Null}],
         queue' \in [Threads -> Seq(Results)],
         rc' \in [Threads -> {"none", "OK", "ERR"}],
         disp' \in [found : BOOLEAN, checks : 1 .. MaxGemCfgKeyCheck, erased : BOOLEAN],
         seen' \in [Threads -> States \cup {"none"}],
         answer' \in [Threads -> Ids \cup {NoId}],
         clean' \subseteq Objs
  PROVE  TypeInv'
<1>1. pc' \in [Threads -> PCs] BY DEF TypeInv, TypeOK
<1>2. TypeOK' BY <1>1 DEF TypeInv, TypeOK
<1>3. BusyHasCall'
  BY DEF TypeInv, TypeOK, BusyHasCall, Busy
<1> QED BY <1>2, <1>3 DEF TypeInv

(* The steps of a thread inside the wait.                                  *)
LEMMA WaitType ==
  ASSUME TypeInv, NEW t \in Threads, Wait(t)
  PROVE  TypeInv'
<1> USE DEF Go, balVars, histVars, LocalQueue
<1>t. /\ compltd \in [Objs -> Threads \cup {NoEntry, Null}]
      /\ queue \in [Threads -> Seq(Results)]
      /\ rc \in [Threads -> {"none", "OK", "ERR"}]
      /\ disp \in [found : BOOLEAN, checks : 1 .. MaxGemCfgKeyCheck, erased : BOOLEAN]
      /\ seen \in [Threads -> States \cup {"none"}]
      /\ answer \in [Threads -> Ids \cup {NoId}]
      /\ clean \subseteq Objs
  BY DEF TypeInv, TypeOK
<1>0. /\ [queue EXCEPT ![t] = <<>>] \in [Threads -> Seq(Results)]
      /\ \A v \in {"none", "OK", "ERR"} :
            [rc EXCEPT ![t] = v] \in [Threads -> {"none", "OK", "ERR"}]
      /\ \A v \in States : [seen EXCEPT ![t] = v] \in [Threads -> States \cup {"none"}]
      /\ \A v \in Threads \cup {NoEntry, Null} :
            [compltd EXCEPT ![call[t].obj] = v] \in [Objs -> Threads \cup {NoEntry, Null}]
  <2>1. [queue EXCEPT ![t] = <<>>] \in [Threads -> Seq(Results)]
    BY <1>t
  <2>2. \A v \in {"none", "OK", "ERR"} :
          [rc EXCEPT ![t] = v] \in [Threads -> {"none", "OK", "ERR"}]
    BY <1>t
  <2>3. \A v \in States : [seen EXCEPT ![t] = v] \in [Threads -> States \cup {"none"}]
    BY <1>t
  <2>4. \A v \in Threads \cup {NoEntry, Null} :
          [compltd EXCEPT ![call[t].obj] = v] \in [Objs -> Threads \cup {NoEntry, Null}]
    BY <1>t
  <2> QED BY <2>1, <2>2, <2>3, <2>4
<1>v. \A act, s : Verdict(act, s) \in {"none", "OK", "ERR"}
  BY DEF Verdict
<1>1. CASE Register(t)
  BY <1>0, <1>t, <1>1, WaitFrame DEF Register, Busy, PCs
<1>2. CASE PopResult(t)
  <2>1. queue[t] \in Seq(Results) /\ queue[t] # <<>>
    BY <1>2, <1>t DEF PopResult
  <2>2. Head(queue[t]) \in Results /\ Tail(queue[t]) \in Seq(Results)
    BY <2>1
  <2>3. Head(queue[t]).state \in States /\ Head(queue[t]).id \in Ids
    BY <2>2 DEF Results
  <2>4. /\ queue' \in [Threads -> Seq(Results)]
        /\ answer' \in [Threads -> Ids \cup {NoId}]
    BY <1>2, <2>2, <2>3, <1>t DEF PopResult
  <2>5. /\ rc' \in [Threads -> {"none", "OK", "ERR"}]
        /\ seen' \in [Threads -> States \cup {"none"}]
    BY <1>2, <2>3, <1>0, <1>v DEF PopResult
  <2> QED BY <1>2, <2>4, <2>5, <1>t, WaitFrame DEF PopResult, Busy, PCs
<1>3. CASE PopTimesOut(t)
  BY <1>3, <1>t, WaitFrame DEF PopTimesOut, Busy, PCs
<1>4. CASE Invalidate(t)
  BY <1>4, <1>0, <1>t, WaitFrame DEF Invalidate, Busy, PCs
<1>5. CASE StateQueryFails(t)
  BY <1>5, <1>0, <1>t, WaitFrame DEF StateQueryFails, Busy, PCs
<1>6. CASE StateIsRight(t)
  <2>1. seen' \in [Threads -> States \cup {"none"}]
    BY <1>6, <1>0 DEF StateIsRight
  <2>2. rc' \in [Threads -> {"none", "OK", "ERR"}]
    BY <1>6, <1>0 DEF StateIsRight
  <2> QED BY <1>6, <2>1, <2>2, <1>0, <1>t, WaitFrame DEF StateIsRight, Busy, PCs
<1>7. CASE StateIsWrong(t)
  <2>1. seen' \in [Threads -> States \cup {"none"}]
    BY <1>7, <1>0 DEF StateIsWrong
  <2>2. rc' \in [Threads -> {"none", "OK", "ERR"}]
    BY <1>7, <1>0, <1>v DEF StateIsWrong
  <2> QED BY <1>7, <2>1, <2>2, <1>t, WaitFrame DEF StateIsWrong, Busy, PCs
<1>8. CASE Erase(t)
  <2>1. disp' \in [found : BOOLEAN, checks : 1 .. MaxGemCfgKeyCheck, erased : BOOLEAN]
    BY <1>8, <1>t DEF Erase
  <2> QED BY <1>8, <2>1, <1>0, <1>t, WaitFrame DEF Erase, Busy, PCs
<1> QED BY <1>1, <1>2, <1>3, <1>4, <1>5, <1>6, <1>7, <1>8 DEF Wait

(* A handler's push leaves well-typed queues.                              *)
LEMMA PushType ==
  ASSUME TypeInv, inds # <<>>, Push(Head(inds))
  PROVE  queue' \in [Threads -> Seq(Results)]
<1>1. inds \in Seq(Messages)
  BY DEF TypeInv, TypeOK
<1>2. Result(Head(inds)) \in Results
  <2>1. Head(inds) \in Messages
    BY <1>1
  <2> QED BY <2>1 DEF Result, Results, Messages
<1>3. queue \in [Threads -> Seq(Results)]
  BY DEF TypeInv, TypeOK
<1>4. CASE Entry(Head(inds).obj) \in Threads
  <2> DEFINE u == Entry(Head(inds).obj)
  <2>1. Append(queue[u], Result(Head(inds))) \in Seq(Results)
    BY <1>2, <1>3, <1>4
  <2> QED BY <2>1, <1>3, <1>4 DEF Push
<1>5. CASE Entry(Head(inds).obj) \notin Threads
  BY <1>3, <1>5 DEF Push
<1> QED BY <1>4, <1>5

(* The steps of BAL and of its callback thread.                            *)
LEMMA BalType ==
  ASSUME TypeInv, \/ \E o \in Objs : BalCompletes(o)
                  \/ Dispatcher
  PROVE  TypeInv'
<1> USE DEF balVars, histVars
<1>t. /\ inds \in Seq(Messages) /\ reqs \in [Objs -> Seq(Ids)]
      /\ disp \in [found : BOOLEAN, checks : 1 .. MaxGemCfgKeyCheck, erased : BOOLEAN]
      /\ queue \in [Threads -> Seq(Results)]
  BY DEF TypeInv, TypeOK
<1>f. ASSUME UNCHANGED <<compltd, gems, pc, call, rc, histVars>>,
             reqs' \in [Objs -> Seq(Ids)], inds' \in Seq(Messages),
             queue' \in [Threads -> Seq(Results)],
             disp' \in [found : BOOLEAN, checks : 1 .. MaxGemCfgKeyCheck, erased : BOOLEAN]
      PROVE  TypeInv'
  BY <1>f DEF TypeInv, TypeOK, BusyHasCall, Busy
<1>i. DispIdle \in [found : BOOLEAN, checks : 1 .. MaxGemCfgKeyCheck, erased : BOOLEAN]
  BY CfgAssumption DEF DispIdle
<1>p. inds # <<>> => Tail(inds) \in Seq(Messages)
  BY <1>t
<1>1. ASSUME NEW o \in Objs, BalCompletes(o) PROVE TypeInv'
  <2>1. reqs[o] \in Seq(Ids) /\ reqs[o] # <<>>
    BY <1>1, <1>t DEF BalCompletes
  <2>2. Head(reqs[o]) \in Ids /\ Tail(reqs[o]) \in Seq(Ids)
    BY <2>1
  <2>3. reqs' \in [Objs -> Seq(Ids)]
    BY <1>1, <1>t, <2>2 DEF BalCompletes
  <2>4. inds' \in Seq(Messages)
    <3>1. PICK c \in BalOutcomes :
            \/ inds' = Append(inds, [obj |-> o, id |-> Head(reqs[o]),
                                     status |-> c.status, state |-> c.state])
            \/ inds' = inds
      BY <1>1 DEF BalCompletes
    <3>2. c.status \in Status /\ c.state \in States
      BY CfgAssumption
    <3>3. [obj |-> o, id |-> Head(reqs[o]), status |-> c.status, state |-> c.state] \in Messages
      BY <3>2, <2>2 DEF Messages
    <3>4. \A m \in Messages : Append(inds, m) \in Seq(Messages)
      BY <1>t
    <3> QED BY <3>1, <3>3, <3>4, <1>t
  <2> QED BY <1>1, <1>f, <1>t, <2>3, <2>4 DEF BalCompletes
<1>2. CASE AllocInd
  BY <1>2, <1>f, <1>t, <1>p, PushType DEF AllocInd
<1>3. CASE GemIndFinds
  <2>1. disp' \in [found : BOOLEAN, checks : 1 .. MaxGemCfgKeyCheck, erased : BOOLEAN]
    BY <1>3, <1>t DEF GemIndFinds
  <2> QED BY <1>3, <1>f, <1>t, <2>1 DEF GemIndFinds
<1>4. CASE GemIndRetries
  <2>1. disp.checks + 1 \in 1 .. MaxGemCfgKeyCheck
    BY <1>4, <1>t, CfgAssumption DEF GemIndRetries
  <2>2. disp' \in [found : BOOLEAN, checks : 1 .. MaxGemCfgKeyCheck, erased : BOOLEAN]
    BY <1>4, <1>t, <2>1 DEF GemIndRetries
  <2> QED BY <1>4, <1>f, <1>t, <2>2 DEF GemIndRetries
<1>5. CASE GemIndGivesUp
  BY <1>5, <1>f, <1>t, <1>i, <1>p DEF GemIndGivesUp, GemHead
<1>6. CASE GemIndPushes
  <2>1. queue' \in [Threads -> Seq(Results)]
    BY <1>6, <1>t, PushType DEF GemIndPushes, GemHead
  <2> QED BY <1>6, <1>f, <1>t, <1>i, <1>p, <2>1 DEF GemIndPushes, GemHead
<1> QED BY <1>1, <1>2, <1>3, <1>4, <1>5, <1>6 DEF Dispatcher

LEMMA NextType == TypeInv /\ [Next]_vars => TypeInv'
<1> SUFFICES ASSUME TypeInv, [Next]_vars PROVE TypeInv'
  OBVIOUS
<1>1. CASE Next
  BY <1>1, CallersType, WaitType, BalType DEF Next, Thread
<1>2. CASE UNCHANGED vars
  BY <1>2 DEF vars, balVars, histVars, TypeInv, TypeOK, BusyHasCall, Busy
<1> QED BY <1>1, <1>2

(* The variables keep their types, and a call keeps its arguments.         *)
THEOREM TypeCorrect == Spec => [](TypeOK /\ BusyHasCall)
<1>1. Spec => []TypeInv
  BY InitType, NextType, PTL DEF Spec
<1> QED BY <1>1, PTL DEF TypeInv

-----------------------------------------------------------------------------
(***************************************************************************)
(* No dangling queue.  NoDanglingQueue alone is not inductive: a thread    *)
(* about to take one of its early returns ("getstate") must have taken its *)
(* pointer out already.  PointerInv says so.                               *)
(***************************************************************************)
Pointed(t) == pc[t] \in {"wait", "timedout", "erase"}

PointerInv ==
  \A o \in Objs : compltd[o] \in Threads =>
    /\ Pointed(compltd[o])
    /\ call[compltd[o]].obj = o

(* A step by u that leaves the map and its own call alone and does not     *)
(* take u out of the wait keeps the invariant.                             *)
LEMMA PointerKept ==
  ASSUME TypeInv, PointerInv, NEW u \in Threads, NEW p \in PCs,
         pc' = [pc EXCEPT ![u] = p], UNCHANGED compltd,
         \/ UNCHANGED call /\ (Pointed(u) => p \in {"wait", "timedout", "erase"})
         \/ ~Pointed(u) /\ \A t \in Threads \ {u} : call'[t] = call[t]
  PROVE  PointerInv'
BY DEF PointerInv, Pointed, TypeInv, TypeOK

LEMMA PointerStep == TypeInv /\ PointerInv /\ [Next]_vars => PointerInv'
<1> SUFFICES ASSUME TypeInv, PointerInv, [Next]_vars PROVE PointerInv'
  OBVIOUS
<1> USE DEF Go, balVars, histVars
<1>t. /\ pc \in [Threads -> PCs]
      /\ compltd \in [Objs -> Threads \cup {NoEntry, Null}]
      /\ \A t \in Threads : call[t] \in [obj : Objs, act : Acts, id : Ids] \cup {NoCall}
      /\ call \in [Threads -> [obj : Objs, act : Acts, id : Ids] \cup {NoCall}]
      /\ \A t \in Threads : pc[t] # "idle" => call[t].obj \in Objs
  BY DEF TypeInv, TypeOK, BusyHasCall, Busy
<1>k. ASSUME UNCHANGED <<compltd, pc, call>> PROVE PointerInv'
  BY <1>k DEF PointerInv, Pointed
<1>1. ASSUME NEW t \in Threads, NEW o \in Objs, NEW act \in Acts, Call(t, o, act)
      PROVE  PointerInv'
  BY <1>1, <1>t, PointerKept DEF Call, PCs, Pointed
<1>2. ASSUME NEW t \in Threads, Thread(t) PROVE PointerInv'
  <2>1. CASE SubmitOk(t)
    <3>1. PICK w \in BOOLEAN : Go(t, "submit", IF w THEN "register" ELSE "returned")
      BY <2>1 DEF SubmitOk, Waits
    <3> QED BY <2>1, <3>1, <1>t, PointerKept DEF SubmitOk, PCs, Pointed
  <2>2. CASE SubmitFails(t)
    BY <2>2, <1>t, PointerKept DEF SubmitFails, PCs, Pointed
  <2>3. CASE SubmitNotNeeded(t)
    BY <2>3, <1>t, PointerKept DEF SubmitNotNeeded, PCs, Pointed
  <2>4. CASE Register(t)
    BY <2>4, <1>t DEF Register, PointerInv, Pointed
  <2>5. CASE PopResult(t)
    BY <2>5, <1>t, PointerKept DEF PopResult, PCs, Pointed
  <2>6. CASE PopTimesOut(t)
    BY <2>6, <1>t, PointerKept DEF PopTimesOut, PCs, Pointed
  <2>7. CASE Invalidate(t)
    BY <2>7, <1>t, CfgAssumption DEF Invalidate, PointerInv, Pointed
  <2>8. CASE StateQueryFails(t)
    BY <2>8, <1>t, PointerKept DEF StateQueryFails, PCs, Pointed
  <2>9. CASE StateIsRight(t)
    BY <2>9, <1>t, PointerKept DEF StateIsRight, PCs, Pointed
  <2>10. CASE StateIsWrong(t)
    BY <2>10, <1>t, PointerKept DEF StateIsWrong, PCs, Pointed
  <2>11. CASE Erase(t)
    BY <2>11, <1>t, CfgAssumption DEF Erase, PointerInv, Pointed
  <2>12. CASE Finish(t)
    BY <2>12, <1>t, PointerKept DEF Finish, PCs, Pointed
  <2> QED BY <1>2, <2>1, <2>2, <2>3, <2>4, <2>5, <2>6, <2>7, <2>8, <2>9, <2>10,
             <2>11, <2>12 DEF Thread, Wait
<1>3. ASSUME NEW o \in Objs, BalCompletes(o) PROVE PointerInv'
  BY <1>3, <1>k DEF BalCompletes
<1>4. CASE Dispatcher
  BY <1>4, <1>k DEF Dispatcher, AllocInd, GemIndFinds, GemIndRetries, GemIndGivesUp,
                    GemIndPushes
<1>5. CASE UNCHANGED vars
  BY <1>5, <1>k DEF vars
<1> QED BY <1>1, <1>2, <1>3, <1>4, <1>5 DEF Next

(***************************************************************************)
(* wait_for_alloc_action and wait_for_gem_action never leave a pointer to  *)
(* their stack queue behind, however many threads wait for however many    *)
(* objects: what the indication handlers push into is always alive.        *)
(***************************************************************************)
THEOREM NoDangling == Spec => []NoDanglingQueue
<1>1. Init => PointerInv
  BY CfgAssumption DEF Init, PointerInv
<1>2. PointerInv => NoDanglingQueue
  BY DEF PointerInv, NoDanglingQueue, Pointed, Alive
<1>3. Spec => []TypeInv
  BY TypeCorrect, PTL DEF TypeInv
<1> QED BY <1>1, <1>2, <1>3, PointerStep, PTL DEF Spec

-----------------------------------------------------------------------------
(***************************************************************************)
(* Calls that began in quiet: such a call has its object for itself.       *)
(***************************************************************************)
SoleInv ==
  \A t, u \in Threads :
    Busy(t) /\ Busy(u) /\ call[t].obj = call[u].obj /\ call[t].obj \in clean => t = u

(* Before the pop there is no answer.                                      *)
NoAnswerYet ==
  \A t \in Threads : pc[t] \in {"idle", "submit"} => answer[t] = NoId

CleanInv == PointerInv /\ SoleInv /\ SoleWaiterIsFound /\ NoAnswerYet

LEMMA CleanStep == TypeInv /\ CleanInv /\ [Next]_vars => CleanInv'
<1> SUFFICES ASSUME TypeInv, CleanInv, [Next]_vars PROVE CleanInv'
  OBVIOUS
<1> USE DEF Go, balVars, histVars
<1>p. PointerInv'
  BY PointerStep DEF CleanInv
<1>t. /\ pc \in [Threads -> PCs]
      /\ compltd \in [Objs -> Threads \cup {NoEntry, Null}]
      /\ call \in [Threads -> [obj : Objs, act : Acts, id : Ids] \cup {NoCall}]
      /\ answer \in [Threads -> Ids \cup {NoId}]
      /\ \A t \in Threads : pc[t] # "idle" => call[t].obj \in Objs
  BY DEF TypeInv, TypeOK, BusyHasCall, Busy
<1>k. ASSUME UNCHANGED <<compltd, pc, call, answer, clean>>
      PROVE  SoleInv' /\ SoleWaiterIsFound' /\ NoAnswerYet'
  BY <1>k DEF CleanInv, SoleInv, SoleWaiterIsFound, NoAnswerYet, Busy
(* A thread that goes on with its call, and leaves the map alone or is not *)
(* waiting afterwards.                                                     *)
<1>g. ASSUME NEW t \in Threads, NEW p \in PCs, p # "submit",
             pc[t] # "idle", pc' = [pc EXCEPT ![t] = p],
             \/ UNCHANGED call
             \/ p = "idle" /\ \A u \in Threads \ {t} : call'[u] = call[u],
             clean' \subseteq clean,
             \A o \in Objs : o # call[t].obj => compltd'[o] = compltd[o],
             p = "wait" => compltd'[call[t].obj] = t,
             \A u \in Threads \ {t} : answer'[u] = answer[u],
             p = "idle" => answer'[t] = NoId
      PROVE  SoleInv' /\ SoleWaiterIsFound' /\ NoAnswerYet'
  <2>1. SoleInv'
    BY <1>g, <1>t DEF CleanInv, SoleInv, Busy
  <2>2. NoAnswerYet'
    BY <1>g, <1>t DEF CleanInv, NoAnswerYet, PCs
  <2>3. ASSUME NEW u \in Threads, pc'[u] = "wait", call'[u].obj \in clean'
        PROVE  compltd'[call'[u].obj] = u
    <3>1. CASE u = t
      BY <2>3, <3>1, <1>g, <1>t
    <3>2. CASE u # t
      <4>1. pc[u] = "wait" /\ call'[u] = call[u] /\ call[u].obj \in clean
        BY <2>3, <3>2, <1>g, <1>t
      <4>2. call[u].obj # call[t].obj
        BY <4>1, <3>2, <1>g DEF CleanInv, SoleInv, Busy
      <4>3. call[u].obj \in Objs /\ compltd[call[u].obj] = u
        BY <4>1, <1>t DEF CleanInv, SoleWaiterIsFound
      <4> QED BY <4>1, <4>2, <4>3, <1>g
    <3> QED BY <3>1, <3>2
  <2> QED BY <2>1, <2>2, <2>3 DEF SoleWaiterIsFound
<1>1. ASSUME NEW t \in Threads, NEW o \in Objs, NEW act \in Acts, Call(t, o, act)
      PROVE  SoleInv' /\ SoleWaiterIsFound' /\ NoAnswerYet'
  <2>1. /\ pc[t] = "idle" /\ pc' = [pc EXCEPT ![t] = "submit"]
        /\ call'[t].obj = o /\ \A u \in Threads \ {t} : call'[u] = call[u]
        /\ UNCHANGED <<compltd, answer>>
    BY <1>1, <1>t DEF Call
  <2>2. \A u \in Threads \ {t} : Busy(u)' /\ call'[u].obj \in clean' =>
          Busy(u) /\ call[u].obj \in clean /\ call[u].obj # o
    BY <1>1, <1>t, <2>1 DEF Call, Quiet, Busy
  <2>3. SoleInv'
    BY <2>1, <2>2, <1>t DEF CleanInv, SoleInv, Busy
  <2>4. SoleWaiterIsFound'
    BY <2>1, <2>2, <1>t DEF CleanInv, SoleWaiterIsFound, Busy
  <2>5. NoAnswerYet'
    BY <2>1, <1>t DEF CleanInv, NoAnswerYet
  <2> QED BY <2>3, <2>4, <2>5
<1>2. ASSUME NEW t \in Threads, Thread(t)
      PROVE  SoleInv' /\ SoleWaiterIsFound' /\ NoAnswerYet'
  <2>1. CASE SubmitOk(t)
    <3>1. PICK w \in BOOLEAN :
            /\ Go(t, "submit", IF w THEN "register" ELSE "returned")
            /\ clean' = IF w THEN clean ELSE clean \ {call[t].obj}
      BY <2>1 DEF SubmitOk, Waits
    <3> QED BY <2>1, <3>1, <1>t, <1>g DEF SubmitOk, PCs
  <2>2. CASE SubmitFails(t) BY <2>2, <1>t, <1>g DEF SubmitFails, PCs
  <2>3. CASE SubmitNotNeeded(t) BY <2>3, <1>t, <1>g DEF SubmitNotNeeded, PCs
  <2>4. CASE Register(t) BY <2>4, <1>t, <1>g DEF Register, PCs
  <2>5. CASE PopResult(t) BY <2>5, <1>t, <1>g DEF PopResult, PCs
  <2>6. CASE PopTimesOut(t) BY <2>6, <1>t, <1>g DEF PopTimesOut, PCs
  <2>7. CASE Invalidate(t) BY <2>7, <1>t, <1>g DEF Invalidate, PCs
  <2>8. CASE StateQueryFails(t) BY <2>8, <1>t, <1>g DEF StateQueryFails, PCs
  <2>9. CASE StateIsRight(t) BY <2>9, <1>t, <1>g DEF StateIsRight, PCs
  <2>10. CASE StateIsWrong(t) BY <2>10, <1>t, <1>g DEF StateIsWrong, PCs
  <2>11. CASE Erase(t) BY <2>11, <1>t, <1>g DEF Erase, PCs
  <2>12. CASE Finish(t) BY <2>12, <1>t, <1>g DEF Finish, PCs
  <2> QED BY <1>2, <2>1, <2>2, <2>3, <2>4, <2>5, <2>6, <2>7, <2>8, <2>9, <2>10,
             <2>11, <2>12 DEF Thread, Wait
<1>3. ASSUME NEW o \in Objs, BalCompletes(o)
      PROVE  SoleInv' /\ SoleWaiterIsFound' /\ NoAnswerYet'
  BY <1>3, <1>k DEF BalCompletes
<1>4. CASE Dispatcher
  <2>1. UNCHANGED <<compltd, pc, call, answer, clean>>
    BY <1>4 DEF Dispatcher, AllocInd, GemIndFinds, GemIndRetries, GemIndGivesUp,
                GemIndPushes
  <2> QED BY <2>1, <1>k, <1>p DEF CleanInv
<1>5. CASE UNCHANGED vars
  <2>1. UNCHANGED <<compltd, pc, call, answer, clean>>
    BY <1>5 DEF vars
  <2> QED BY <2>1, <1>k, <1>p DEF CleanInv
<1> QED BY <1>p, <1>1, <1>2, <1>3, <1>4, <1>5 DEF Next, CleanInv

LEMMA InitClean == Init => CleanInv
<1> SUFFICES ASSUME Init PROVE CleanInv
  OBVIOUS
<1>1. PointerInv
  BY CfgAssumption DEF Init, PointerInv
<1>2. SoleInv /\ SoleWaiterIsFound /\ NoAnswerYet
  BY DEF Init, SoleInv, SoleWaiterIsFound, NoAnswerYet, Busy
<1> QED BY <1>1, <1>2 DEF CleanInv

(***************************************************************************)
(* A call that began in quiet and waits undisturbed is registered: its     *)
(* completion will be delivered to it.                                     *)
(***************************************************************************)
THEOREM SoleWaiter == Spec => []SoleWaiterIsFound
<1>1. Spec => []TypeInv
  BY TypeCorrect, PTL DEF TypeInv
<1>2. CleanInv => SoleWaiterIsFound
  BY DEF CleanInv
<1> QED BY <1>1, <1>2, InitClean, CleanStep, PTL DEF Spec

-----------------------------------------------------------------------------
(***************************************************************************)
(* Whatever is under way for the object of a call that began in quiet is   *)
(* its own: the request, the indication and the result in the queue.       *)
(***************************************************************************)
OwnReqs(t)  == \A i \in DOMAIN reqs[call[t].obj] : reqs[call[t].obj][i] = call[t].id
OwnInds(t)  == \A i \in DOMAIN inds : inds[i].obj = call[t].obj => inds[i].id = call[t].id
OwnQueue(t) == Alive(t) => \A i \in DOMAIN queue[t] : queue[t][i].id = call[t].id
OwnAnswer(t) == answer[t] # NoId => answer[t] = call[t].id

Undisturbed(t) == Busy(t) /\ call[t].obj \in clean

OwnInv ==
  \A t \in Threads : Undisturbed(t) =>
    OwnReqs(t) /\ OwnInds(t) /\ OwnQueue(t) /\ OwnAnswer(t)

(* A step of t inside its call that neither submits nor pops.              *)
LEMMA OwnKept ==
  ASSUME TypeInv, OwnInv, NEW t \in Threads, NEW p \in PCs,
         pc[t] # "idle", pc' = [pc EXCEPT ![t] = p],
         UNCHANGED <<reqs, inds>>, clean' \subseteq clean,
         p = "idle" \/ (call' = call /\ answer' = answer),
         \A u \in Threads \ {t} : call'[u] = call[u] /\ answer'[u] = answer[u]
                                   /\ queue'[u] = queue[u],
         \/ p \in {"idle", "submit", "register", "returned"}
         \/ queue'[t] = <<>>
         \/ Alive(t) /\ queue'[t] = queue[t]
  PROVE  OwnInv'
<1> SUFFICES ASSUME NEW u \in Threads, Undisturbed(u)'
             PROVE  OwnReqs(u)' /\ OwnInds(u)' /\ OwnQueue(u)' /\ OwnAnswer(u)'
  BY DEF OwnInv
<1>t. pc \in [Threads -> PCs]
  BY DEF TypeInv, TypeOK
<1>1. /\ Undisturbed(u) /\ call'[u] = call[u] /\ answer'[u] = answer[u]
      /\ u = t => p # "idle"
  BY <1>t DEF Undisturbed, Busy
<1>2. OwnReqs(u) /\ OwnInds(u) /\ OwnQueue(u) /\ OwnAnswer(u)
  BY <1>1 DEF OwnInv
<1>3. OwnReqs(u)' /\ OwnInds(u)' /\ OwnAnswer(u)'
  BY <1>1, <1>2 DEF OwnReqs, OwnInds, OwnAnswer
<1>4. OwnQueue(u)'
  <2>1. CASE u # t
    BY <2>1, <1>1, <1>2, <1>t DEF OwnQueue, Alive
  <2>2. CASE u = t
    BY <2>2, <1>1, <1>2, <1>t DEF OwnQueue, Alive
  <2> QED BY <2>1, <2>2
<1> QED BY <1>3, <1>4

(* A handler's push delivers to an undisturbed call only what is its own.  *)
LEMMA OwnPush ==
  ASSUME TypeInv, CleanInv, OwnInv, inds # <<>>,
         UNCHANGED <<reqs, pc, call, answer, clean>>,
         Push(Head(inds)) \/ UNCHANGED queue,
         inds' = Tail(inds)
  PROVE  OwnInv'
<1> SUFFICES ASSUME NEW t \in Threads, Undisturbed(t)'
             PROVE  OwnReqs(t)' /\ OwnInds(t)' /\ OwnQueue(t)' /\ OwnAnswer(t)'
  BY DEF OwnInv
<1>t. inds \in Seq(Messages) /\ queue \in [Threads -> Seq(Results)]
  BY DEF TypeInv, TypeOK
<1>1. Undisturbed(t)
  BY DEF Undisturbed, Busy
<1>2. OwnReqs(t) /\ OwnInds(t) /\ OwnQueue(t) /\ OwnAnswer(t)
  BY <1>1 DEF OwnInv
<1>3. OwnReqs(t)' /\ OwnAnswer(t)'
  BY <1>2 DEF OwnReqs, OwnAnswer
<1>4. OwnInds(t)'
  <2>1. \A i \in DOMAIN Tail(inds) : i + 1 \in DOMAIN inds /\ Tail(inds)[i] = inds[i + 1]
    BY <1>t
  <2> QED BY <2>1, <1>2 DEF OwnInds
<1>5. OwnQueue(t)'
  <2> DEFINE m == Head(inds)
  <2>0. m = inds[1] /\ 1 \in DOMAIN inds
    BY <1>t
  <2>1. CASE queue'[t] = queue[t]
    BY <2>1, <1>2 DEF OwnQueue, Alive
  <2>2. CASE queue'[t] # queue[t]
    <3>1. Push(m) /\ Entry(m.obj) = t
      BY <2>2, <1>t DEF Push
    <3>2. queue'[t] = Append(queue[t], Result(m))
      BY <3>1, <1>t DEF Push
    <3>3. m.obj = call[t].obj
      <4>1. m \in Messages
        BY <1>t, <2>0
      <4> QED BY <4>1, <3>1 DEF CleanInv, PointerInv, Entry, Messages
    <3>4. Result(m).id = call[t].id
      BY <3>3, <2>0, <1>2 DEF OwnInds, Result
    <3>5. Alive(t)' => Alive(t)
      BY DEF Alive
    <3>6. \A i \in DOMAIN queue'[t] :
             \/ i \in DOMAIN queue[t] /\ queue'[t][i] = queue[t][i]
             \/ queue'[t][i] = Result(m)
      BY <3>2, <1>t
    <3> QED BY <3>4, <3>5, <3>6, <1>2 DEF OwnQueue
  <2> QED BY <2>1, <2>2
<1> QED BY <1>3, <1>4, <1>5

LEMMA OwnStep == TypeInv /\ CleanInv /\ OwnInv /\ [Next]_vars => OwnInv'
<1> SUFFICES ASSUME TypeInv, CleanInv, OwnInv, [Next]_vars PROVE OwnInv'
  OBVIOUS
<1> USE DEF Go, balVars, histVars
<1>t. /\ pc \in [Threads -> PCs]
      /\ reqs \in [Objs -> Seq(Ids)] /\ inds \in Seq(Messages)
      /\ queue \in [Threads -> Seq(Results)]
      /\ call \in [Threads -> [obj : Objs, act : Acts, id : Ids] \cup {NoCall}]
      /\ answer \in [Threads -> Ids \cup {NoId}]
      /\ \A t \in Threads : pc[t] # "idle" => call[t].obj \in Objs
  BY DEF TypeInv, TypeOK, BusyHasCall, Busy
<1>k. ASSUME UNCHANGED <<reqs, inds, queue, pc, call, answer, clean>> PROVE OwnInv'
  BY <1>k DEF OwnInv, Undisturbed, Busy, OwnReqs, OwnInds, OwnQueue, OwnAnswer, Alive
<1>1. ASSUME NEW t \in Threads, NEW o \in Objs, NEW act \in Acts, Call(t, o, act)
      PROVE  OwnInv'
  <2>1. /\ pc[t] = "idle" /\ pc' = [pc EXCEPT ![t] = "submit"]
        /\ call'[t].obj = o /\ \A u \in Threads \ {t} : call'[u] = call[u]
        /\ UNCHANGED <<reqs, inds, queue, answer>>
    BY <1>1, <1>t DEF Call
  <2>2. ASSUME NEW u \in Threads \ {t}, Undisturbed(u)' PROVE Undisturbed(u)
    BY <2>1, <2>2, <1>1, <1>t DEF Call, Quiet, Undisturbed, Busy
  <2>3. Undisturbed(t)' => Quiet(o)
    BY <2>1, <1>1, <1>t DEF Call, Undisturbed
  <2>4. Quiet(o) => OwnReqs(t)' /\ OwnInds(t)'
    BY <2>1 DEF Quiet, OwnReqs, OwnInds
  <2>5. OwnQueue(t)' /\ OwnAnswer(t)'
    BY <2>1, <1>t DEF OwnQueue, Alive, OwnAnswer, CleanInv, NoAnswerYet
  <2>6. ASSUME NEW u \in Threads \ {t}, Undisturbed(u)
        PROVE  OwnReqs(u)' /\ OwnInds(u)' /\ OwnQueue(u)' /\ OwnAnswer(u)'
    <3>1. OwnReqs(u) /\ OwnInds(u) /\ OwnQueue(u) /\ OwnAnswer(u)
      BY <2>6 DEF OwnInv
    <3>2. pc'[u] = pc[u] /\ call'[u] = call[u] /\ UNCHANGED <<reqs, inds, queue, answer>>
      BY <2>1, <2>6, <1>t
    <3>3. OwnReqs(u)' /\ OwnInds(u)'
      BY <3>1, <3>2 DEF OwnReqs, OwnInds
    <3>4. OwnQueue(u)' /\ OwnAnswer(u)'
      BY <3>1, <3>2 DEF OwnQueue, OwnAnswer, Alive
    <3> QED BY <3>3, <3>4
  <2> QED BY <2>2, <2>3, <2>4, <2>5, <2>6 DEF OwnInv
<1>2. ASSUME NEW t \in Threads, SubmitOk(t) PROVE OwnInv'
  <2> DEFINE o == call[t].obj
  <2>1. PICK w \in BOOLEAN :
          /\ Go(t, "submit", IF w THEN "register" ELSE "returned")
          /\ clean' = IF w THEN clean ELSE clean \ {o}
    BY <1>2 DEF SubmitOk, Waits
  <2>2. /\ reqs' = [reqs EXCEPT ![o] = Append(@, call[t].id)]
        /\ UNCHANGED <<inds, queue, call, answer>> /\ o \in Objs
    BY <1>2, <1>t DEF SubmitOk
  <2> SUFFICES ASSUME NEW u \in Threads, Undisturbed(u)'
               PROVE  OwnReqs(u)' /\ OwnInds(u)' /\ OwnQueue(u)' /\ OwnAnswer(u)'
    BY DEF OwnInv
  <2>3. Undisturbed(u)
    BY <2>1, <2>2, <1>t DEF Undisturbed, Busy
  <2>4. OwnReqs(u) /\ OwnInds(u) /\ OwnQueue(u) /\ OwnAnswer(u)
    BY <2>3 DEF OwnInv
  <2>5. OwnInds(u)' /\ OwnAnswer(u)'
    BY <2>2, <2>4 DEF OwnInds, OwnAnswer
  <2>6. OwnQueue(u)'
    BY <2>1, <2>2, <2>4, <1>t DEF OwnQueue, Alive
  <2>7. OwnReqs(u)'
    <3>1. CASE u = t
      <4>1. \A i \in DOMAIN Append(reqs[o], call[t].id) :
               \/ i \in DOMAIN reqs[o] /\ Append(reqs[o], call[t].id)[i] = reqs[o][i]
               \/ Append(reqs[o], call[t].id)[i] = call[t].id
        BY <1>t, <2>2
      <4>2. reqs'[o] = Append(reqs[o], call[t].id)
        BY <2>2, <1>t
      <4> QED BY <4>1, <4>2, <3>1, <2>2, <2>4 DEF OwnReqs
    <3>2. CASE u # t
      <4>1. call[u].obj # o
        BY <3>2, <2>1, <2>3 DEF CleanInv, SoleInv, Busy, Undisturbed
      <4>2. call[u].obj \in Objs
        BY <2>3, <1>t DEF Undisturbed, Busy
      <4> QED BY <4>1, <4>2, <2>2, <2>4, <1>t DEF OwnReqs
    <3> QED BY <3>1, <3>2
  <2> QED BY <2>5, <2>6, <2>7
<1>3. ASSUME NEW t \in Threads, PopResult(t) PROVE OwnInv'
  <2>1. /\ pc[t] = "wait" /\ pc' = [pc EXCEPT ![t] = "erase"]
        /\ queue[t] # <<>> /\ UNCHANGED <<reqs, inds, call, clean>>
        /\ queue' = [queue EXCEPT ![t] = Tail(@)]
        /\ answer' = [answer EXCEPT ![t] = Head(queue[t]).id]
    BY <1>3 DEF PopResult
  <2> SUFFICES ASSUME NEW u \in Threads, Undisturbed(u)'
               PROVE  OwnReqs(u)' /\ OwnInds(u)' /\ OwnQueue(u)' /\ OwnAnswer(u)'
    BY DEF OwnInv
  <2>2. Undisturbed(u)
    BY <2>1, <1>t DEF Undisturbed, Busy
  <2>3. OwnReqs(u) /\ OwnInds(u) /\ OwnQueue(u) /\ OwnAnswer(u)
    BY <2>2 DEF OwnInv
  <2>4. OwnReqs(u)' /\ OwnInds(u)'
    BY <2>1, <2>3 DEF OwnReqs, OwnInds
  <2>5. CASE u # t
    BY <2>1, <2>3, <2>4, <2>5, <1>t DEF OwnQueue, OwnAnswer, Alive
  <2>6. CASE u = t
    <3>1. /\ Head(queue[t]) = queue[t][1] /\ 1 \in DOMAIN queue[t]
          /\ \A i \in DOMAIN Tail(queue[t]) :
                i + 1 \in DOMAIN queue[t] /\ Tail(queue[t])[i] = queue[t][i + 1]
      BY <2>1, <1>t
    <3>2. \A i \in DOMAIN queue[t] : queue[t][i].id = call[t].id
      BY <2>1, <2>3, <2>6 DEF OwnQueue, Alive
    <3>3. queue'[t] = Tail(queue[t]) /\ answer'[t] = Head(queue[t]).id
      BY <2>1, <1>t
    <3>4. OwnQueue(t)'
      BY <2>1, <3>1, <3>2, <3>3 DEF OwnQueue
    <3>5. OwnAnswer(t)'
      BY <2>1, <3>1, <3>2, <3>3 DEF OwnAnswer
    <3> QED BY <2>4, <2>6, <3>4, <3>5
  <2> QED BY <2>5, <2>6
<1>4. ASSUME NEW t \in Threads, Thread(t) PROVE OwnInv'
  <2>1. CASE SubmitFails(t) BY <2>1, <1>t, OwnKept DEF SubmitFails, PCs
  <2>2. CASE SubmitNotNeeded(t) BY <2>2, <1>t, OwnKept DEF SubmitNotNeeded, PCs
  <2>3. CASE Register(t)
    BY <2>3, <1>t, OwnKept DEF Register, LocalQueue, PCs
  <2>4. CASE PopTimesOut(t) BY <2>4, <1>t, OwnKept DEF PopTimesOut, Alive, PCs
  <2>5. CASE Invalidate(t) BY <2>5, <1>t, OwnKept DEF Invalidate, Alive, PCs
  <2>6. CASE StateQueryFails(t)
    BY <2>6, <1>t, OwnKept DEF StateQueryFails, LocalQueue, PCs
  <2>7. CASE StateIsRight(t)
    BY <2>7, <1>t, OwnKept DEF StateIsRight, LocalQueue, PCs
  <2>8. CASE StateIsWrong(t)
    BY <2>8, <1>t, OwnKept DEF StateIsWrong, Alive, PCs
  <2>9. CASE Erase(t) BY <2>9, <1>t, OwnKept DEF Erase, LocalQueue, PCs
  <2>10. CASE Finish(t) BY <2>10, <1>t, OwnKept DEF Finish, PCs
  <2> QED BY <1>2, <1>3, <1>4, <2>1, <2>2, <2>3, <2>4, <2>5, <2>6, <2>7, <2>8, <2>9,
             <2>10 DEF Thread, Wait
<1>5. ASSUME NEW o \in Objs, BalCompletes(o) PROVE OwnInv'
  <2>1. /\ reqs[o] # <<>> /\ reqs' = [reqs EXCEPT ![o] = Tail(@)]
        /\ UNCHANGED <<queue, pc, call, answer, clean>>
    BY <1>5 DEF BalCompletes
  <2>2. PICK c \in BalOutcomes :
          \/ inds' = Append(inds, [obj |-> o, id |-> Head(reqs[o]),
                                   status |-> c.status, state |-> c.state])
          \/ inds' = inds
    BY <1>5 DEF BalCompletes
  <2> SUFFICES ASSUME NEW u \in Threads, Undisturbed(u)'
               PROVE  OwnReqs(u)' /\ OwnInds(u)' /\ OwnQueue(u)' /\ OwnAnswer(u)'
    BY DEF OwnInv
  <2>3. Undisturbed(u) /\ call[u].obj \in Objs
    BY <2>1, <1>t DEF Undisturbed, Busy
  <2>4. OwnReqs(u) /\ OwnInds(u) /\ OwnQueue(u) /\ OwnAnswer(u)
    BY <2>3 DEF OwnInv
  <2>5. OwnQueue(u)' /\ OwnAnswer(u)'
    BY <2>1, <2>4 DEF OwnQueue, OwnAnswer, Alive
  <2>6. /\ Head(reqs[o]) = reqs[o][1] /\ 1 \in DOMAIN reqs[o]
        /\ \A i \in DOMAIN Tail(reqs[o]) :
              i + 1 \in DOMAIN reqs[o] /\ Tail(reqs[o])[i] = reqs[o][i + 1]
    BY <2>1, <1>t
  <2>7. OwnReqs(u)'
    <3>1. CASE call[u].obj = o
      BY <3>1, <2>1, <2>4, <2>6, <1>t DEF OwnReqs
    <3>2. CASE call[u].obj # o
      BY <3>2, <2>1, <2>3, <2>4, <1>t DEF OwnReqs
    <3> QED BY <3>1, <3>2
  <2>8. OwnInds(u)'
    <3> DEFINE m == [obj |-> o, id |-> Head(reqs[o]), status |-> c.status, state |-> c.state]
    <3>1. m.obj = call[u].obj => m.id = call[u].id
      BY <2>4, <2>6 DEF OwnReqs
    <3>2. CASE inds' = inds
      BY <3>2, <2>1, <2>4 DEF OwnInds
    <3>3. CASE inds' = Append(inds, m)
      <4> HIDE DEF m
      <4>1. \A i \in DOMAIN Append(inds, m) :
               \/ i \in DOMAIN inds /\ Append(inds, m)[i] = inds[i]
               \/ Append(inds, m)[i] = m
        BY <1>t
      <4> QED BY <4>1, <3>1, <3>3, <2>1, <2>4 DEF OwnInds
    <3> QED BY <2>2, <3>2, <3>3
  <2> QED BY <2>5, <2>7, <2>8
<1>6. CASE Dispatcher
  <2>1. CASE AllocInd BY <2>1, OwnPush DEF AllocInd
  <2>2. CASE GemIndPushes BY <2>2, OwnPush DEF GemIndPushes, GemHead
  <2>3. CASE GemIndGivesUp BY <2>3, OwnPush DEF GemIndGivesUp, GemHead
  <2>4. CASE GemIndFinds BY <2>4, <1>k DEF GemIndFinds
  <2>5. CASE GemIndRetries BY <2>5, <1>k DEF GemIndRetries
  <2> QED BY <1>6, <2>1, <2>2, <2>3, <2>4, <2>5 DEF Dispatcher
<1>7. CASE UNCHANGED vars
  BY <1>7, <1>k DEF vars
<1> QED BY <1>1, <1>4, <1>5, <1>6, <1>7 DEF Next

(***************************************************************************)
(* No request carries an identifier, yet an undisturbed call takes its     *)
(* verdict from the completion of its own request, for every number of     *)
(* threads, objects and requests in flight.                                *)
(***************************************************************************)
THEOREM AnswersOwn == Spec => []AnswersOwnRequest
<1>1. Init => OwnInv
  BY DEF Init, OwnInv, Undisturbed, Busy
<1>2. OwnInv => AnswersOwnRequest
  BY DEF OwnInv, AnswersOwnRequest, Undisturbed, OwnAnswer
<1>3. Spec => []TypeInv
  BY TypeCorrect, PTL DEF TypeInv
<1> QED BY <1>1, <1>2, <1>3, InitClean, CleanStep, OwnStep, PTL DEF Spec

-----------------------------------------------------------------------------
(***************************************************************************)
(* What OK means.  Until a wait has popped a result or queried the state   *)
(* it has neither an answer nor a state its verdict could rest on.         *)
(***************************************************************************)
NothingSeenYet ==
  \A t \in Threads :
    pc[t] \in {"idle", "submit", "register", "wait", "timedout", "getstate"} =>
      answer[t] = NoId /\ seen[t] = "none"

VerdictInv == NothingSeenYet /\ OkMeansReached

(* The threads that do not move keep the invariant.                        *)
LEMMA VerdictKept ==
  ASSUME TypeInv, VerdictInv, NEW t \in Threads, NEW p \in PCs, pc' = [pc EXCEPT ![t] = p],
         \A u \in Threads \ {t} : /\ call'[u] = call[u] /\ rc'[u] = rc[u]
                                  /\ seen'[u] = seen[u] /\ answer'[u] = answer[u],
         p \in {"idle", "submit", "register", "wait", "timedout", "getstate"} =>
           answer'[t] = NoId /\ seen'[t] = "none",
         p \in {"erase", "returned"} /\ rc'[t] = "OK" /\ seen'[t] # "none"
           /\ (call'[t].act # "delete" \/ answer'[t] # NoId) => seen'[t] = Target(call'[t].act)
  PROVE  VerdictInv'
<1>t. pc \in [Threads -> PCs]
  BY DEF TypeInv, TypeOK
<1>1. NothingSeenYet'
  BY <1>t DEF VerdictInv, NothingSeenYet
<1>2. OkMeansReached'
  BY <1>t DEF VerdictInv, OkMeansReached
<1> QED BY <1>1, <1>2 DEF VerdictInv

LEMMA VerdictStep == TypeInv /\ VerdictInv /\ [Next]_vars => VerdictInv'
<1> SUFFICES ASSUME TypeInv, VerdictInv, [Next]_vars PROVE VerdictInv'
  OBVIOUS
<1> USE DEF Go, balVars, histVars
<1>t. /\ pc \in [Threads -> PCs]
      /\ call \in [Threads -> [obj : Objs, act : Acts, id : Ids] \cup {NoCall}]
      /\ rc \in [Threads -> {"none", "OK", "ERR"}]
      /\ seen \in [Threads -> States \cup {"none"}]
      /\ answer \in [Threads -> Ids \cup {NoId}]
      /\ \A t \in Threads : pc[t] # "idle" => call[t].act \in Acts
  BY DEF TypeInv, TypeOK, BusyHasCall, Busy
<1>n. \A t \in Threads :
        pc[t] \in {"idle", "submit", "register", "wait", "timedout", "getstate"} =>
          answer[t] = NoId /\ seen[t] = "none"
  BY DEF VerdictInv, NothingSeenYet
<1>k. ASSUME UNCHANGED <<pc, call, rc, seen, answer>> PROVE VerdictInv'
  BY <1>k DEF VerdictInv, NothingSeenYet, OkMeansReached
<1>1. ASSUME NEW t \in Threads, NEW o \in Objs, NEW act \in Acts, Call(t, o, act)
      PROVE  VerdictInv'
  BY <1>1, <1>t, <1>n, VerdictKept DEF Call, PCs
<1>2. ASSUME NEW t \in Threads, Thread(t) PROVE VerdictInv'
  <2>1. CASE SubmitOk(t)
    <3>1. PICK w \in BOOLEAN : Go(t, "submit", IF w THEN "register" ELSE "returned")
                               /\ rc' = IF w THEN rc ELSE [rc EXCEPT ![t] = "OK"]
      BY <2>1 DEF SubmitOk, Waits
    <3>2. UNCHANGED <<call, seen, answer>> /\ answer[t] = NoId /\ seen[t] = "none"
      BY <2>1, <1>n DEF SubmitOk
    <3> QED BY <3>1, <3>2, <1>t, VerdictKept DEF PCs
  <2>2. CASE SubmitFails(t)
    BY <2>2, <1>t, <1>n, VerdictKept DEF SubmitFails, PCs
  <2>3. CASE SubmitNotNeeded(t)
    BY <2>3, <1>t, <1>n, VerdictKept DEF SubmitNotNeeded, PCs
  <2>4. CASE Register(t)
    BY <2>4, <1>t, <1>n, VerdictKept DEF Register, PCs
  <2>5. CASE PopResult(t)
    <3> DEFINE r == Head(queue[t])
    <3>1. /\ pc' = [pc EXCEPT ![t] = "erase"] /\ UNCHANGED call
          /\ rc' = [rc EXCEPT ![t] = IF r.status = "FAIL" THEN "ERR"
                                     ELSE Verdict(call[t].act, r.state)]
          /\ seen' = [seen EXCEPT ![t] = r.state]
          /\ answer' = [answer EXCEPT ![t] = r.id]
      BY <2>5 DEF PopResult
    <3>2. rc'[t] = "OK" => seen'[t] = Target(call[t].act)
      BY <3>1, <1>t DEF Verdict
    <3> HIDE DEF r
    <3> QED BY <3>1, <3>2, <1>t, VerdictKept DEF PCs
  <2>6. CASE PopTimesOut(t)
    BY <2>6, <1>t, <1>n, VerdictKept DEF PopTimesOut, PCs
  <2>7. CASE Invalidate(t)
    BY <2>7, <1>t, <1>n, VerdictKept DEF Invalidate, PCs
  <2>8. CASE StateQueryFails(t)
    BY <2>8, <1>t, <1>n, VerdictKept DEF StateQueryFails, PCs
  <2>9. CASE StateIsRight(t)
    BY <2>9, <1>t, <1>n, VerdictKept DEF StateIsRight, RightAfterTimeout, PCs
  <2>10. CASE StateIsWrong(t)
    <3>1. /\ pc' = [pc EXCEPT ![t] = "erase"] /\ UNCHANGED <<call, answer>>
          /\ rc' = [rc EXCEPT ![t] = Verdict(call[t].act, "NOT_CONFIGURED")]
          /\ \A u \in Threads \ {t} : seen'[u] = seen[u]
          /\ answer[t] = NoId
      BY <2>10, <1>t, <1>n DEF StateIsWrong
    <3>2. rc'[t] = "OK" => call[t].act = "delete"
      BY <3>1, <1>t DEF Verdict, Target
    <3> QED BY <3>1, <3>2, <1>t, VerdictKept DEF PCs
  <2>11. CASE Erase(t)
    <3>1. /\ pc[t] = "erase" /\ pc' = [pc EXCEPT ![t] = "returned"]
          /\ UNCHANGED <<call, rc, seen, answer>>
      BY <2>11 DEF Erase
    <3> QED BY <3>1, <1>t, VerdictKept DEF PCs, VerdictInv, OkMeansReached
  <2>12. CASE Finish(t)
    BY <2>12, <1>t, VerdictKept DEF Finish, PCs
  <2> QED BY <1>2, <2>1, <2>2, <2>3, <2>4, <2>5, <2>6, <2>7, <2>8, <2>9, <2>10,
             <2>11, <2>12 DEF Thread, Wait
<1>3. ASSUME NEW o \in Objs, BalCompletes(o) PROVE VerdictInv'
  BY <1>3, <1>k DEF BalCompletes
<1>4. CASE Dispatcher
  BY <1>4, <1>k DEF Dispatcher, AllocInd, GemIndFinds, GemIndRetries, GemIndGivesUp,
                    GemIndPushes
<1>5. CASE UNCHANGED vars
  BY <1>5, <1>k DEF vars
<1> QED BY <1>1, <1>2, <1>3, <1>4, <1>5 DEF Next

(***************************************************************************)
(* OK from a wait that saw a state, by a result or by a query after a      *)
(* timeout, is the state that was asked for; a delete that timed out is    *)
(* the exception.                                                          *)
(***************************************************************************)
THEOREM OkReached == Spec => []OkMeansReached
<1>1. Init => VerdictInv
  BY DEF Init, VerdictInv, NothingSeenYet, OkMeansReached
<1>2. VerdictInv => OkMeansReached
  BY DEF VerdictInv
<1>3. Spec => []TypeInv
  BY TypeCorrect, PTL DEF TypeInv
<1> QED BY <1>1, <1>2, <1>3, VerdictStep, PTL DEF Spec

-----------------------------------------------------------------------------
(***************************************************************************)
(* The GEM handler's iterator.  An undisturbed call has one request, so it *)
(* has at most one of: the request at BAL, the indication of it, the       *)
(* result in the queue, the answer.  It erases its entry with the answer   *)
(* in hand, so no indication of it can be at the handler then.             *)
(***************************************************************************)
Asked(t)     == reqs[call[t].obj] # <<>>
Told(t)      == \E i \in DOMAIN inds : inds[i].obj = call[t].obj
Delivered(t) == Alive(t) /\ queue[t] # <<>>
Answered(t)  == answer[t] # NoId

OneCopy(t) ==
  /\ Len(reqs[call[t].obj]) <= 1
  /\ \A i, j \in DOMAIN inds : inds[i].obj = call[t].obj /\ inds[j].obj = call[t].obj => i = j
  /\ Alive(t) => Len(queue[t]) <= 1
  /\ Asked(t) => ~Told(t) /\ ~Delivered(t)
  /\ Told(t) => ~Delivered(t)
  /\ pc[t] = "submit" \/ Answered(t) => ~Asked(t) /\ ~Told(t) /\ ~Delivered(t)
  /\ pc[t] = "erase" => Answered(t)
  /\ pc[t] \notin {"timedout", "getstate"}

OnceInv == \A t \in Threads : Undisturbed(t) => OneCopy(t)

HandlerInv == (disp.found \/ disp.erased => GemHead) /\ IteratorValidWhenClean

LEMMA NonEmpty ==
  ASSUME NEW S, NEW q \in Seq(S), q # <<>>
  PROVE  Len(q) \in Nat /\ Len(q) >= 1
<1>1. 1 \in DOMAIN q /\ DOMAIN q = 1 .. Len(q) /\ Len(q) \in Nat
  OBVIOUS
<1> QED BY <1>1

(* A step of t leaves the copies of the other calls alone.                 *)
LEMMA OnceKept ==
  ASSUME TypeInv, OnceInv, NEW t \in Threads, UNCHANGED inds, clean' \subseteq clean,
         \A o \in Objs : reqs'[o] = reqs[o] \/ (o = call[t].obj /\ Busy(t)),
         CleanInv,
         \A u \in Threads \ {t} : /\ pc'[u] = pc[u] /\ call'[u] = call[u]
                                  /\ answer'[u] = answer[u] /\ queue'[u] = queue[u],
         Undisturbed(t)' => OneCopy(t)'
  PROVE  OnceInv'
<1> SUFFICES ASSUME NEW u \in Threads \ {t}, Undisturbed(u)'
             PROVE  OneCopy(u)'
  BY DEF OnceInv
<1>1. Undisturbed(u) /\ call[u].obj \in Objs
  BY DEF Undisturbed, Busy, TypeInv, BusyHasCall
<1>2. OneCopy(u)
  BY <1>1 DEF OnceInv
<1>3. reqs'[call[u].obj] = reqs[call[u].obj]
  BY <1>1 DEF CleanInv, SoleInv, Undisturbed
<1>4. (Asked(u)' <=> Asked(u)) /\ (Told(u)' <=> Told(u)) /\ (Delivered(u)' <=> Delivered(u))
      /\ (Alive(u)' <=> Alive(u)) /\ (Answered(u)' <=> Answered(u))
  BY <1>3 DEF Asked, Told, Delivered, Alive, Answered
<1> QED BY <1>2, <1>3, <1>4 DEF OneCopy

(* The handler takes the head of the indications, and may deliver it.      *)
LEMMA OncePush ==
  ASSUME TypeInv, CleanInv, OnceInv, inds # <<>>,
         UNCHANGED <<reqs, pc, call, answer, clean>>,
         Push(Head(inds)) \/ UNCHANGED queue,
         inds' = Tail(inds)
  PROVE  OnceInv'
<1> SUFFICES ASSUME NEW t \in Threads, Undisturbed(t)'
             PROVE  OneCopy(t)'
  BY DEF OnceInv
<1> DEFINE m == Head(inds)
<1>t. /\ inds \in Seq(Messages) /\ queue \in [Threads -> Seq(Results)]
      /\ m = inds[1] /\ 1 \in DOMAIN inds /\ m \in Messages
  <2>1. inds \in Seq(Messages) /\ queue \in [Threads -> Seq(Results)]
    BY DEF TypeInv, TypeOK
  <2>2. m = inds[1] /\ 1 \in DOMAIN inds
    BY <2>1
  <2> QED BY <2>1, <2>2
<1>1. Undisturbed(t) /\ OneCopy(t)
  BY DEF Undisturbed, Busy, OnceInv
<1>2. /\ \A i \in DOMAIN Tail(inds) :
            i + 1 \in DOMAIN inds /\ i \in Nat /\ Tail(inds)[i] = inds[i + 1]
      /\ Told(t)' => Told(t)
  <2>1. \A i \in DOMAIN Tail(inds) :
           i + 1 \in DOMAIN inds /\ i \in Nat /\ Tail(inds)[i] = inds[i + 1]
    BY <1>t
  <2> QED BY <2>1 DEF Told
<1>3. \A i, j \in DOMAIN inds' :
         inds'[i].obj = call'[t].obj /\ inds'[j].obj = call'[t].obj => i = j
  <2> SUFFICES ASSUME NEW i \in DOMAIN Tail(inds), NEW j \in DOMAIN Tail(inds),
                      inds[i + 1].obj = call[t].obj, inds[j + 1].obj = call[t].obj
               PROVE  i = j
    BY <1>2
  <2>1. i + 1 = j + 1
    BY <1>1, <1>2 DEF OneCopy
  <2> QED BY <2>1, <1>2
<1>4. (Asked(t)' <=> Asked(t)) /\ (Alive(t)' <=> Alive(t)) /\ (Answered(t)' <=> Answered(t))
  BY DEF Asked, Alive, Answered
<1>5. CASE queue'[t] = queue[t]
  <2>1. Delivered(t)' <=> Delivered(t)
    BY <1>4, <1>5 DEF Delivered
  <2> QED BY <1>1, <1>2, <1>3, <1>4, <1>5, <2>1 DEF OneCopy
<1>6. CASE queue'[t] # queue[t]
  <2>1. Push(m) /\ Entry(m.obj) = t
    BY <1>6, <1>t DEF Push
  <2>2. queue'[t] = Append(queue[t], Result(m))
    BY <2>1, <1>t DEF Push
  <2>3. m.obj = call[t].obj /\ Alive(t)
    BY <1>t, <2>1 DEF CleanInv, PointerInv, Entry, Messages, Pointed, Alive
  <2>4. Told(t)
    BY <1>t, <2>3 DEF Told
  <2>5. queue[t] = <<>> /\ ~Asked(t) /\ ~Answered(t) /\ pc[t] # "submit"
    BY <1>1, <2>3, <2>4 DEF OneCopy, Delivered
  <2>6. Len(queue'[t]) = 1
    BY <2>2, <2>5
  <2>7. ~Told(t)'
    <3> SUFFICES ASSUME NEW i \in DOMAIN Tail(inds), Tail(inds)[i].obj = call[t].obj
                 PROVE  FALSE
      BY DEF Told
    <3>1. i + 1 = 1
      BY <1>1, <1>2, <1>t, <2>3 DEF OneCopy
    <3> QED BY <3>1, <1>2, <1>t
  <2> QED BY <1>1, <1>3, <1>4, <2>5, <2>6, <2>7 DEF OneCopy
<1> QED BY <1>5, <1>6

(* BAL completes a request: it is gone, and at most an indication comes.   *)
LEMMA OnceBal ==
  ASSUME TypeInv, OnceInv, NEW o \in Objs, BalCompletes(o)
  PROVE  OnceInv'
<1> SUFFICES ASSUME NEW t \in Threads, Undisturbed(t)'
             PROVE  OneCopy(t)'
  BY DEF OnceInv
<1>t. inds \in Seq(Messages) /\ reqs \in [Objs -> Seq(Ids)]
  BY DEF TypeInv, TypeOK
<1>1. /\ reqs[o] # <<>> /\ reqs' = [reqs EXCEPT ![o] = Tail(@)]
      /\ UNCHANGED <<queue, pc, call, answer, clean>>
  BY DEF BalCompletes, histVars
<1>2. PICK c \in BalOutcomes :
        \/ inds' = Append(inds, [obj |-> o, id |-> Head(reqs[o]),
                                 status |-> c.status, state |-> c.state])
        \/ inds' = inds
  BY DEF BalCompletes
<1> DEFINE m == [obj |-> o, id |-> Head(reqs[o]), status |-> c.status, state |-> c.state]
<1>m. m.obj = o
  OBVIOUS
<1> HIDE DEF m
<1>3. Undisturbed(t) /\ OneCopy(t) /\ call[t].obj \in Objs
  BY <1>1 DEF Undisturbed, Busy, OnceInv, TypeInv, BusyHasCall
<1>4. (Delivered(t)' <=> Delivered(t)) /\ (Alive(t)' <=> Alive(t)) /\ (Answered(t)' <=> Answered(t))
  BY <1>1 DEF Delivered, Alive, Answered
<1>5. CASE call[t].obj = o
  <2>1. Len(reqs[o]) = 1 /\ Asked(t) /\ ~Told(t) /\ ~Delivered(t) /\ ~Answered(t) /\ pc[t] # "submit"
    <3>1. Asked(t)
      BY <1>1, <1>5 DEF Asked
    <3>2. Len(reqs[o]) = 1
      <4> DEFINE n == Len(reqs[o])
      <4>1. n <= 1
        BY <1>3, <1>5 DEF OneCopy
      <4>2. reqs[o] \in Seq(Ids) /\ reqs[o] # <<>>
        BY <1>1, <1>t
      <4>3. n \in Nat /\ n >= 1
        BY <4>2, NonEmpty
      <4> HIDE DEF n
      <4>4. n = 1
        BY <4>1, <4>3
      <4> QED BY <4>4 DEF n
    <3> QED BY <1>3, <3>1, <3>2 DEF OneCopy
  <2>2. reqs'[o] = <<>>
    BY <1>1, <1>t, <2>1
  <2>3. \A i, j \in DOMAIN inds' : inds'[i].obj = o /\ inds'[j].obj = o => i = j
    <3>1. \A i \in DOMAIN inds : inds[i].obj # o
      BY <1>5, <2>1 DEF Told
    <3>2. CASE inds' = inds
      BY <3>1, <3>2
    <3>3. CASE inds' = Append(inds, m)
      <4>1. \A i \in DOMAIN Append(inds, m) : i = Len(inds) + 1 \/ (i \in DOMAIN inds /\ Append(inds, m)[i] = inds[i])
        BY <1>t
      <4> QED BY <3>1, <3>3, <4>1
    <3> QED BY <1>2, <3>2, <3>3 DEF m
  <2>4. ~Asked(t)' /\ Len(reqs'[o]) <= 1 /\ call'[t].obj = o
    BY <1>1, <1>5, <2>2 DEF Asked
  <2>5. /\ ~Delivered(t)' /\ ~Answered(t)' /\ pc'[t] # "submit"
        /\ pc'[t] \notin {"erase", "timedout", "getstate"}
        /\ (Alive(t) => Len(queue[t]) <= 1)'
    BY <1>1, <1>3, <1>4, <2>1 DEF OneCopy
  <2> QED BY <2>3, <2>4, <2>5 DEF OneCopy
<1>6. CASE call[t].obj # o
  <2>1. reqs'[call[t].obj] = reqs[call[t].obj]
    BY <1>1, <1>3, <1>6, <1>t
  <2>2. /\ \A i \in DOMAIN inds' : inds'[i].obj = call[t].obj =>
                                     i \in DOMAIN inds /\ inds'[i] = inds[i]
        /\ \A i \in DOMAIN inds : i \in DOMAIN inds' /\ inds'[i] = inds[i]
    <3>1. CASE inds' = inds
      BY <3>1
    <3>2. CASE inds' = Append(inds, m)
      <4>1. /\ \A i \in DOMAIN Append(inds, m) :
                  \/ i \in DOMAIN inds /\ Append(inds, m)[i] = inds[i]
                  \/ Append(inds, m)[i] = m
            /\ \A i \in DOMAIN inds : i \in DOMAIN Append(inds, m) /\ Append(inds, m)[i] = inds[i]
        BY <1>t
      <4> QED BY <1>6, <1>m, <3>2, <4>1
    <3> QED BY <1>2, <3>1, <3>2 DEF m
  <2>3. (Asked(t)' <=> Asked(t)) /\ (Told(t)' <=> Told(t))
    BY <1>1, <2>1, <2>2 DEF Asked, Told
  <2> QED BY <1>1, <1>3, <1>4, <2>1, <2>2, <2>3 DEF OneCopy
<1> QED BY <1>5, <1>6

LEMMA OnceStep == TypeInv /\ CleanInv /\ VerdictInv /\ OnceInv /\ [Next]_vars => OnceInv'
<1> SUFFICES ASSUME TypeInv, CleanInv, VerdictInv, OnceInv, [Next]_vars PROVE OnceInv'
  OBVIOUS
<1> USE DEF Go, balVars, histVars
<1>t. /\ pc \in [Threads -> PCs] /\ reqs \in [Objs -> Seq(Ids)]
      /\ queue \in [Threads -> Seq(Results)]
      /\ call \in [Threads -> [obj : Objs, act : Acts, id : Ids] \cup {NoCall}]
      /\ answer \in [Threads -> Ids \cup {NoId}] /\ NoId \notin Ids
      /\ \A t \in Threads : pc[t] # "idle" => call[t].obj \in Objs
  BY CfgAssumption DEF TypeInv, TypeOK, BusyHasCall, Busy, NoId
<1>k. ASSUME UNCHANGED <<reqs, inds, queue, pc, call, answer, clean>> PROVE OnceInv'
  BY <1>k DEF OnceInv, OneCopy, Undisturbed, Busy, Asked, Told, Delivered, Answered, Alive
<1>n. \A t \in Threads :
        pc[t] \in {"idle", "submit", "register", "wait", "timedout", "getstate"} => ~Answered(t)
  BY DEF VerdictInv, NothingSeenYet, Answered
<1>1. ASSUME NEW t \in Threads, NEW o \in Objs, NEW act \in Acts, Call(t, o, act)
      PROVE  OnceInv'
  <2>1. /\ pc[t] = "idle" /\ pc' = [pc EXCEPT ![t] = "submit"]
        /\ call'[t].obj = o /\ \A u \in Threads \ {t} : call'[u] = call[u]
        /\ UNCHANGED <<reqs, inds, queue, answer>>
    BY <1>1, <1>t DEF Call
  <2>2. ASSUME NEW u \in Threads \ {t}, Undisturbed(u)' PROVE OneCopy(u)'
    <3>1. Undisturbed(u)
      BY <2>1, <2>2, <1>1, <1>t DEF Call, Quiet, Undisturbed, Busy
    <3>2. pc'[u] = pc[u] /\ call'[u] = call[u]
      BY <2>1, <1>t
    <3> QED BY <2>1, <3>1, <3>2 DEF OnceInv, OneCopy, Asked, Told, Delivered, Answered, Alive
  <2>3. ASSUME Undisturbed(t)' PROVE OneCopy(t)'
    <3>1. Quiet(o)
      BY <2>1, <2>3, <1>1, <1>t DEF Call, Undisturbed
    <3>2. reqs'[o] = <<>> /\ ~Asked(t)' /\ ~Told(t)'
      BY <2>1, <3>1 DEF Quiet, Asked, Told
    <3>3. pc'[t] = "submit" /\ ~Alive(t)' /\ ~Delivered(t)'
      BY <2>1, <1>t DEF Delivered, Alive
    <3>4. Len(reqs'[o]) <= 1
      BY <3>2
    <3> QED BY <2>1, <3>2, <3>3, <3>4 DEF OneCopy, Told
  <2> QED BY <2>2, <2>3 DEF OnceInv
<1>2. ASSUME NEW t \in Threads, Thread(t) PROVE OnceInv'
  <2>o. Undisturbed(t) => OneCopy(t)
    BY DEF OnceInv
  <2>1. CASE SubmitOk(t)
    <3> DEFINE o == call[t].obj
    <3>1. PICK w \in BOOLEAN :
            /\ Go(t, "submit", IF w THEN "register" ELSE "returned")
            /\ clean' = IF w THEN clean ELSE clean \ {o}
      BY <2>1 DEF SubmitOk, Waits
    <3>2. /\ reqs' = [reqs EXCEPT ![o] = Append(@, call[t].id)]
          /\ UNCHANGED <<inds, queue, call, answer>> /\ o \in Objs
      BY <2>1, <1>t DEF SubmitOk
    <3>3. ASSUME Undisturbed(t)' PROVE OneCopy(t)'
      <4>1. pc[t] = "submit" /\ w /\ Undisturbed(t) /\ pc'[t] = "register"
        BY <3>1, <3>2, <3>3, <1>t DEF Undisturbed, Busy
      <4>2. reqs[o] = <<>> /\ ~Told(t) /\ ~Answered(t)
        BY <4>1, <2>o, <1>n DEF OneCopy, Asked
      <4>3. Len(reqs'[o]) <= 1
        <5>1. reqs'[o] = Append(<<>>, call[t].id)
          BY <3>2, <4>2, <1>t
        <5> QED BY <5>1
      <4>4. ~Told(t)' /\ ~Answered(t)' /\ ~Alive(t)' /\ ~Delivered(t)'
        BY <3>2, <4>1, <4>2 DEF Told, Answered, Alive, Delivered
      <4> QED BY <3>2, <4>1, <4>3, <4>4 DEF OneCopy, Told
    <3> QED BY <3>1, <3>2, <3>3, <1>t, OnceKept DEF Busy
  <2>2. CASE SubmitFails(t) \/ SubmitNotNeeded(t)
    <3>1. /\ pc[t] = "submit" /\ pc' = [pc EXCEPT ![t] = "returned"]
          /\ UNCHANGED <<reqs, inds, queue, call, answer, clean>>
      BY <2>2 DEF SubmitFails, SubmitNotNeeded
    <3>2. ASSUME Undisturbed(t)' PROVE OneCopy(t)'
      <4>1. OneCopy(t) /\ pc'[t] = "returned"
        BY <3>1, <3>2, <2>o, <1>t DEF Undisturbed, Busy
      <4> QED BY <3>1, <4>1 DEF OneCopy, Asked, Told, Delivered, Answered, Alive
    <3> QED BY <3>1, <3>2, <1>t, OnceKept
  <2>3. CASE Register(t)
    <3>1. /\ pc[t] = "register" /\ pc' = [pc EXCEPT ![t] = "wait"]
          /\ queue' = [queue EXCEPT ![t] = <<>>]
          /\ UNCHANGED <<reqs, inds, call, answer, clean>>
      BY <2>3 DEF Register, LocalQueue
    <3>2. ASSUME Undisturbed(t)' PROVE OneCopy(t)'
      <4>1. OneCopy(t) /\ pc'[t] = "wait" /\ queue'[t] = <<>> /\ ~Answered(t)
        BY <3>1, <3>2, <2>o, <1>t, <1>n DEF Undisturbed, Busy
      <4>2. Len(queue'[t]) <= 1 /\ ~Delivered(t)' /\ ~Answered(t)'
        BY <3>1, <4>1 DEF Delivered, Answered
      <4> QED BY <3>1, <4>1, <4>2 DEF OneCopy, Asked, Told
    <3> QED BY <3>1, <3>2, <1>t, OnceKept
  <2>4. CASE PopResult(t)
    <3>1. /\ pc[t] = "wait" /\ pc' = [pc EXCEPT ![t] = "erase"] /\ queue[t] # <<>>
          /\ queue' = [queue EXCEPT ![t] = Tail(@)]
          /\ answer' = [answer EXCEPT ![t] = Head(queue[t]).id]
          /\ UNCHANGED <<reqs, inds, call, clean>>
      BY <2>4 DEF PopResult
    <3>2. ASSUME Undisturbed(t)' PROVE OneCopy(t)'
      <4>1. OneCopy(t) /\ pc'[t] = "erase" /\ Alive(t) /\ Delivered(t)
        BY <3>1, <3>2, <2>o, <1>t DEF Undisturbed, Busy, Alive, Delivered
      <4>2. Head(queue[t]) \in Results /\ queue'[t] = Tail(queue[t]) /\ Len(queue[t]) <= 1
        BY <3>1, <4>1, <1>t DEF OneCopy
      <4>3. Answered(t)'
        BY <3>1, <4>2, <1>t DEF Answered, Results
      <4>4. Len(queue'[t]) <= 1 /\ queue'[t] = <<>>
        BY <3>1, <4>2, <1>t
      <4>5. ~Asked(t)' /\ ~Told(t)' /\ ~Delivered(t)'
        BY <3>1, <4>1, <4>4 DEF OneCopy, Asked, Told, Delivered
      <4>6. Len(reqs'[call'[t].obj]) <= 1
        BY <3>1, <4>1 DEF OneCopy
      <4> QED BY <4>1, <4>3, <4>4, <4>5, <4>6 DEF OneCopy, Told
    <3> QED BY <3>1, <3>2, <1>t, OnceKept
  <2>5. CASE PopTimesOut(t)
    <3>1. /\ pc' = [pc EXCEPT ![t] = "timedout"] /\ clean' = clean \ {call[t].obj}
          /\ UNCHANGED <<reqs, inds, queue, call, answer>>
      BY <2>5 DEF PopTimesOut
    <3> QED BY <3>1, <1>t, OnceKept DEF Undisturbed
  <2>6. CASE Invalidate(t) \/ StateQueryFails(t) \/ StateIsRight(t) \/ StateIsWrong(t)
    <3>1. /\ pc[t] \in {"timedout", "getstate"} /\ UNCHANGED <<reqs, inds, call, answer, clean>>
          /\ \A u \in Threads \ {t} : pc'[u] = pc[u] /\ queue'[u] = queue[u]
      BY <2>6, <1>t DEF Invalidate, StateQueryFails, StateIsRight, StateIsWrong, LocalQueue
    <3>2. ~Undisturbed(t)'
      BY <3>1, <2>o DEF OneCopy, Undisturbed, Busy
    <3> QED BY <3>1, <3>2, <1>t, OnceKept
  <2>7. CASE Erase(t)
    <3>1. /\ pc[t] = "erase" /\ pc' = [pc EXCEPT ![t] = "returned"]
          /\ queue' = [queue EXCEPT ![t] = <<>>]
          /\ UNCHANGED <<reqs, inds, call, answer, clean>>
      BY <2>7 DEF Erase, LocalQueue
    <3>2. ASSUME Undisturbed(t)' PROVE OneCopy(t)'
      <4>1. OneCopy(t) /\ pc'[t] = "returned" /\ ~Alive(t)' /\ ~Delivered(t)'
        BY <3>1, <3>2, <2>o, <1>t DEF Undisturbed, Busy, Alive, Delivered
      <4> QED BY <3>1, <4>1 DEF OneCopy, Asked, Told, Answered
    <3> QED BY <3>1, <3>2, <1>t, OnceKept
  <2>8. CASE Finish(t)
    <3>1. /\ pc'[t] = "idle" /\ UNCHANGED <<reqs, inds, queue, clean>>
          /\ \A u \in Threads \ {t} : pc'[u] = pc[u] /\ call'[u] = call[u] /\ answer'[u] = answer[u]
      BY <2>8, <1>t DEF Finish
    <3> QED BY <3>1, <1>t, OnceKept DEF Undisturbed, Busy
  <2> QED BY <1>2, <2>1, <2>2, <2>3, <2>4, <2>5, <2>6, <2>7, <2>8 DEF Thread, Wait
<1>3. ASSUME NEW o \in Objs, BalCompletes(o) PROVE OnceInv'
  BY <1>3, OnceBal
<1>4. CASE Dispatcher
  <2>1. CASE AllocInd BY <2>1, OncePush DEF AllocInd
  <2>2. CASE GemIndPushes BY <2>2, OncePush DEF GemIndPushes, GemHead
  <2>3. CASE GemIndGivesUp BY <2>3, OncePush DEF GemIndGivesUp, GemHead
  <2>4. CASE GemIndFinds BY <2>4, <1>k DEF GemIndFinds
  <2>5. CASE GemIndRetries BY <2>5, <1>k DEF GemIndRetries
  <2> QED BY <1>4, <2>1, <2>2, <2>3, <2>4, <2>5 DEF Dispatcher
<1>5. CASE UNCHANGED vars
  BY <1>5, <1>k DEF vars
<1> QED BY <1>1, <1>2, <1>3, <1>4, <1>5 DEF Next

LEMMA HandlerStep == TypeInv /\ OnceInv /\ HandlerInv /\ [Next]_vars => HandlerInv'
<1> SUFFICES ASSUME TypeInv, OnceInv, HandlerInv, [Next]_vars PROVE HandlerInv'
  OBVIOUS
<1> USE DEF Go, balVars, histVars
<1>t. /\ inds \in Seq(Messages) /\ AllocObjs \cap GemObjs = {}
      /\ disp \in [found : BOOLEAN, checks : 1 .. MaxGemCfgKeyCheck, erased : BOOLEAN]
      /\ pc \in [Threads -> PCs]
      /\ \A t \in Threads : pc[t] # "idle" => call[t].obj \in Objs
  BY CfgAssumption DEF TypeInv, TypeOK, BusyHasCall, Busy
<1>k. ASSUME UNCHANGED <<inds, disp>>, clean' \subseteq clean PROVE HandlerInv'
  BY <1>k DEF HandlerInv, IteratorValidWhenClean, GemHead
<1>i. ASSUME disp' = DispIdle PROVE HandlerInv'
  BY <1>i DEF HandlerInv, IteratorValidWhenClean, GemHead, DispIdle
<1>1. ASSUME NEW t \in Threads, NEW o \in Objs, NEW act \in Acts, Call(t, o, act)
      PROVE  HandlerInv'
  <2>1. UNCHANGED <<inds, disp>> /\ clean' = IF Quiet(o) THEN clean \cup {o} ELSE clean \ {o}
    BY <1>1 DEF Call
  <2>2. inds # <<>> => Head(inds) = inds[1] /\ 1 \in DOMAIN inds
    BY <1>t
  <2>3. Quiet(o) /\ GemHead => Head(inds).obj # o
    BY <2>2 DEF Quiet, GemHead
  <2> QED BY <2>1, <2>3 DEF HandlerInv, IteratorValidWhenClean, GemHead
<1>2. ASSUME NEW t \in Threads, Thread(t) PROVE HandlerInv'
  <2>1. CASE Erase(t)
    <3> DEFINE o == call[t].obj
    <3>1. /\ pc[t] = "erase" /\ UNCHANGED <<inds, clean>>
          /\ disp' = IF HandlerHolds(o) THEN [disp EXCEPT !.erased = TRUE] ELSE disp
      BY <2>1 DEF Erase
    <3>2. CASE HandlerHolds(o)
      <4>1. Head(inds) = inds[1] /\ 1 \in DOMAIN inds /\ Head(inds).obj = o /\ disp.found
        BY <3>2, <1>t DEF HandlerHolds
      <4>2. Told(t)
        BY <4>1 DEF Told
      <4>3. o \notin clean
        BY <3>1, <4>2 DEF OnceInv, OneCopy, Undisturbed, Busy
      <4> QED BY <3>1, <4>1, <4>3 DEF HandlerInv, IteratorValidWhenClean, GemHead
    <3>3. CASE ~HandlerHolds(o)
      BY <3>1, <3>3, <1>k
    <3> QED BY <3>2, <3>3
  <2>2. CASE SubmitOk(t)
    <3>1. UNCHANGED <<inds, disp>> /\ clean' \subseteq clean
      BY <2>2 DEF SubmitOk
    <3> QED BY <3>1, <1>k
  <2>3. CASE ~Erase(t) /\ ~SubmitOk(t)
    <3>1. UNCHANGED <<inds, disp>> /\ clean' \subseteq clean
      BY <1>2, <2>3 DEF Thread, Wait, SubmitFails, SubmitNotNeeded, Register, PopResult, PopTimesOut,
                        Invalidate, StateQueryFails, StateIsRight, StateIsWrong, Finish
    <3> QED BY <3>1, <1>k
  <2> QED BY <2>1, <2>2, <2>3
<1>3. ASSUME NEW o \in Objs, BalCompletes(o) PROVE HandlerInv'
  <2>1. UNCHANGED <<disp, clean>>
    BY <1>3 DEF BalCompletes
  <2>2. inds # <<>> => inds' # <<>> /\ Head(inds') = Head(inds)
    <3>1. inds' = inds \/ \E m : inds' = Append(inds, m)
      BY <1>3 DEF BalCompletes
    <3>2. ASSUME inds # <<>>, NEW m PROVE Append(inds, m) # <<>> /\ Head(Append(inds, m)) = Head(inds)
      BY <1>t, <3>2
    <3> QED BY <3>1, <3>2
  <2>3. (disp.found \/ disp.erased) => GemHead
    BY DEF HandlerInv
  <2>4. GemHead => GemHead' /\ Head(inds)' = Head(inds)
    BY <2>2 DEF GemHead
  <2> QED BY <2>1, <2>3, <2>4 DEF HandlerInv, IteratorValidWhenClean
<1>4. CASE Dispatcher
  <2>1. CASE AllocInd
    <3>1. ~disp.found /\ ~disp.erased /\ UNCHANGED disp
      BY <2>1, <1>t DEF AllocInd, HandlerInv, GemHead
    <3> QED BY <3>1 DEF HandlerInv, IteratorValidWhenClean
  <2>2. CASE GemIndPushes \/ GemIndGivesUp
    BY <2>2, <1>i DEF GemIndPushes, GemIndGivesUp
  <2>3. CASE GemIndFinds
    <3>1. GemHead /\ UNCHANGED <<inds, clean>> /\ disp'.erased = disp.erased
      BY <2>3, <1>t DEF GemIndFinds
    <3> QED BY <3>1 DEF HandlerInv, IteratorValidWhenClean, GemHead
  <2>4. CASE GemIndRetries
    <3>1. GemHead /\ UNCHANGED <<inds, clean>> /\ disp'.erased = disp.erased
      BY <2>4, <1>t DEF GemIndRetries
    <3> QED BY <3>1 DEF HandlerInv, IteratorValidWhenClean, GemHead
  <2> QED BY <1>4, <2>1, <2>2, <2>3, <2>4 DEF Dispatcher
<1>5. CASE UNCHANGED vars
  BY <1>5, <1>k DEF vars
<1> QED BY <1>1, <1>2, <1>3, <1>4, <1>5 DEF Next

(***************************************************************************)
(* ItuPonGemConfigCompletedInd keeps an iterator across an unlock.  The    *)
(* node is not erased under it by a call that began in quiet, has not      *)
(* timed out and was not joined by another one on the GEM port.            *)
(***************************************************************************)
THEOREM IteratorValid == Spec => []IteratorValidWhenClean
<1>1. Init => VerdictInv /\ OnceInv /\ HandlerInv
  BY DEF Init, VerdictInv, NothingSeenYet, OkMeansReached, OnceInv, Undisturbed, Busy,
         HandlerInv, IteratorValidWhenClean, DispIdle
<1>2. HandlerInv => IteratorValidWhenClean
  BY DEF HandlerInv
<1>3. Spec => []TypeInv
  BY TypeCorrect, PTL DEF TypeInv
<1> QED
  BY <1>1, <1>2, <1>3, InitClean, CleanStep, VerdictStep, OnceStep, HandlerStep, PTL DEF Spec
=============================================================================
