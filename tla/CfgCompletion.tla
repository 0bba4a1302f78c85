--------------------------- MODULE CfgCompletion ---------------------------
(***************************************************************************)
(* How a gRPC handler of the agent waits for BAL to complete the           *)
(* configuration of an ITU-PON alloc object or GEM port.                   *)
(*                                                                         *)
(* CreateSched / RemoveSched (alloc objects) and install_gem_port /        *)
(* remove_gem_port / enable_encryption_for_gem_port (GEM ports) submit a   *)
(* request to BAL and, when a completion indication is to be expected,     *)
(* call wait_for_alloc_action or wait_for_gem_action.  Those put a pointer *)
(* to a queue ON THEIR OWN STACK in a map, pop the queue with a timeout    *)
(* and take the entry out again.  BAL's callback thread looks the pointer  *)
(* up and pushes the result.  The request carries no identifier, so        *)
(* nothing in the map ties a result to the request it answers.             *)
(*                                                                         *)
(* Data abstracted: an object is the pair (pon interface, alloc or GEM id);*)
(* the ONU/UNI part of gemport_status_map's key is a function of the GEM   *)
(* port.  A thread has one call at a time, so a queue is named by the      *)
(* thread whose stack holds it.  Time is abstracted: a timed pop may give  *)
(* up at any moment.                                                       *)
(***************************************************************************)
EXTENDS Naturals, Sequences, FiniteSets

CONSTANTS
  Threads,          \* gRPC handler threads
  AllocObjs,        \* alloc objects
  GemObjs,          \* GEM ports
  Ids,              \* names of requests in flight (history; bounds their number)
  BalOutcomes,      \* how BAL may complete a request: records [status, state]
  Gpon,             \* board_technology = "GPON"
  MaxGemCfgKeyCheck,\* MAX_GEM_CFG_KEY_CHECK
  NoEntry, Null     \* the key is not in the map; it is, with a NULL pointer

Objs   == AllocObjs \cup GemObjs
States == {"NOT_CONFIGURED", "INACTIVE", "PROCESSING", "ACTIVE"}
Status == {"SUCCESS", "FAIL"}
Acts   == {"create", "delete", "encrypt"}

ASSUME CfgAssumption ==
  /\ AllocObjs \cap GemObjs = {}
  /\ NoEntry \notin Threads \cup Ids \cup Objs
  /\ Null \notin Threads /\ NoEntry # Null
  /\ BalOutcomes \subseteq [status : Status, state : States]
  /\ Gpon \in BOOLEAN
  /\ MaxGemCfgKeyCheck \in Nat \ {0}

VARIABLES
  \* BAL (external)
  reqs,       \* accepted requests BAL has not completed, oldest first
  inds,       \* completion indications not yet handled, oldest first
  \* the agent
  compltd,    \* alloc_cfg_compltd_map and gem_cfg_compltd_map
  queue,      \* the queue on the stack of a waiting thread
  gems,       \* gemport_status_map: GEM ports recorded as installed
  pc, call,   \* control point and arguments of a thread's call
  rc,         \* what the call returns
  disp,       \* where BAL's callback thread is in the GEM handler
  \* history
  seen,       \* object state on which the verdict of a wait rests
  answer,     \* id of the request whose result was popped
  clean       \* objects whose present call started with nothing else going on

balVars   == <<reqs, inds>>
histVars  == <<seen, answer, clean>>
vars == <<balVars, compltd, queue, gems, pc, call, rc, disp, histVars>>

Results == [id : Ids, status : Status, state : States]
Messages == [obj : Objs, id : Ids, status : Status, state : States]
NoId    == NoEntry
NoCall  == [obj |-> NoEntry, act |-> "none", id |-> NoId]
DispIdle == [found |-> FALSE, checks |-> 1, erased |-> FALSE]

PCs == {"idle", "submit", "register", "wait", "timedout", "getstate", "erase",
        "returned"}

Busy(t) == pc[t] # "idle"

(***************************************************************************)
(* The queue of t exists: t is inside wait_for_alloc_action or             *)
(* wait_for_gem_action, past the registration.                             *)
(***************************************************************************)
Alive(t) == pc[t] \in {"wait", "timedout", "getstate", "erase"}

IdsInUse ==
  {call[t].id : t \in {u \in Threads : Busy(u)}}
  \cup UNION {{reqs[o][i] : i \in DOMAIN reqs[o]} : o \in Objs}
  \cup {inds[i].id : i \in DOMAIN inds}
  \cup UNION {{queue[t][i].id : i \in DOMAIN queue[t]} : t \in Threads}

(***************************************************************************)
(* Nothing is going on for o: no call, no request, no late indication.     *)
(***************************************************************************)
Quiet(o) ==
  /\ \A t \in Threads : Busy(t) => call[t].obj # o
  /\ reqs[o] = <<>>
  /\ \A i \in DOMAIN inds : inds[i].obj # o

Init ==
  /\ reqs = [o \in Objs |-> <<>>]
  /\ inds = <<>>
  /\ compltd = [o \in Objs |-> NoEntry]
  /\ queue = [t \in Threads |-> <<>>]
  /\ gems = {}
  /\ pc = [t \in Threads |-> "idle"]
  /\ call = [t \in Threads |-> NoCall]
  /\ rc = [t \in Threads |-> "none"]
  /\ disp = DispIdle
  /\ seen = [t \in Threads |-> "none"]
  /\ answer = [t \in Threads |-> NoId]
  /\ clean = {}

-----------------------------------------------------------------------------
(* The callers.                                                            *)

Go(t, from, to) == pc[t] = from /\ pc' = [pc EXCEPT ![t] = to]

(***************************************************************************)
(* A call reaches its BAL request.  install_gem_port returns OK at once    *)
(* for a GEM port that gemport_status_map records as installed, and        *)
(* remove_gem_port for one that it does not: only the other calls go on.   *)
(***************************************************************************)
GemCallNeeded(o, act) ==
  \/ act = "create" /\ o \notin gems
  \/ act = "delete" /\ o \in gems
  \/ act = "encrypt"

Call(t, o, act) ==
  /\ Go(t, "idle", "submit")
  /\ o \in AllocObjs => act # "encrypt"
  /\ o \in GemObjs => GemCallNeeded(o, act)
  /\ \E i \in Ids \ IdsInUse :
       call' = [call EXCEPT ![t] = [obj |-> o, act |-> act, id |-> i]]
  /\ clean' = IF Quiet(o) THEN clean \cup {o} ELSE clean \ {o}
  /\ UNCHANGED <<balVars, compltd, queue, gems, rc, disp, seen, answer>>

(***************************************************************************)
(* Does this call wait?  Encryption waits on a GPON board; an alloc object *)
(* waits when the ONU is active, a GEM port when it is and the board is    *)
(* GPON.  The ONU's state is BAL's, so "active" is a choice.               *)
(***************************************************************************)
Waits(t) ==
  IF call[t].act = "encrypt" THEN {Gpon}
  ELSE IF call[t].obj \in GemObjs /\ ~Gpon THEN {FALSE} ELSE BOOLEAN

SubmitOk(t) ==
  LET o == call[t].obj IN
  /\ reqs' = [reqs EXCEPT ![o] = Append(@, call[t].id)]
  /\ \E w \in Waits(t) :
       /\ Go(t, "submit", IF w THEN "register" ELSE "returned")
       /\ rc' = IF w THEN rc ELSE [rc EXCEPT ![t] = "OK"]
       /\ clean' = IF w THEN clean ELSE clean \ {o}
  /\ UNCHANGED <<inds, compltd, queue, gems, call, disp, seen, answer>>

(* get_onu_state, the encryption query or the request itself fails.        *)
SubmitFails(t) ==
  /\ Go(t, "submit", "returned")
  /\ rc' = [rc EXCEPT ![t] = "ERR"]
  /\ UNCHANGED <<balVars, compltd, queue, gems, call, disp, histVars>>

(* The GEM port is encrypted already: nothing to request.                  *)
SubmitNotNeeded(t) ==
  /\ Go(t, "submit", "returned")
  /\ call[t].act = "encrypt"
  /\ rc' = [rc EXCEPT ![t] = "OK"]
  /\ UNCHANGED <<balVars, compltd, queue, gems, call, disp, histVars>>

-----------------------------------------------------------------------------
(* wait_for_alloc_action and wait_for_gem_action.                          *)

(***************************************************************************)
(* The queue is a local of the wait: empty when the wait starts, gone when *)
(* it returns.  (Mutant: a queue that outlives the call.)                  *)
(***************************************************************************)
LocalQueue_Static(t) == UNCHANGED queue

LocalQueue(t) == queue' = [queue EXCEPT ![t] = <<>>]

(* Mutant: map.insert(), which does not overwrite a NULL entry.            *)
Register_Insert(t) ==
  /\ Go(t, "register", "wait")
  /\ LocalQueue(t)
  /\ compltd' = IF compltd[call[t].obj] = NoEntry
                THEN [compltd EXCEPT ![call[t].obj] = t] ELSE compltd
  /\ UNCHANGED <<balVars, gems, call, rc, disp, histVars>>

Register(t) ==
  /\ Go(t, "register", "wait")
  /\ LocalQueue(t)
  /\ compltd' = [compltd EXCEPT ![call[t].obj] = t]
  /\ UNCHANGED <<balVars, gems, call, rc, disp, histVars>>

Target(act) == IF act = "delete" THEN "NOT_CONFIGURED" ELSE "ACTIVE"

Verdict(act, state) == IF state = Target(act) THEN "OK" ELSE "ERR"

(* Mutant: an `if' for the `while' of Queue::pop: a spurious wakeup goes   *)
(* on with the value-initialised result.                                   *)
PopResult_NoLoop(t) ==
  /\ Go(t, "wait", "erase")
  /\ rc' = [rc EXCEPT ![t] = IF queue[t] = <<>> \/ Head(queue[t]).status = "FAIL"
                             THEN "ERR" ELSE Verdict(call[t].act, Head(queue[t]).state)]
  /\ UNCHANGED <<balVars, compltd, queue, gems, call, disp, histVars>>

PopResult(t) ==
  /\ Go(t, "wait", "erase")
  /\ queue[t] # <<>>
  /\ LET r == Head(queue[t]) IN
       /\ rc' = [rc EXCEPT ![t] = IF r.status = "FAIL" THEN "ERR"
                                  ELSE Verdict(call[t].act, r.state)]
       /\ seen' = [seen EXCEPT ![t] = r.state]
       /\ answer' = [answer EXCEPT ![t] = r.id]
  /\ queue' = [queue EXCEPT ![t] = Tail(@)]
  /\ UNCHANGED <<balVars, compltd, gems, call, disp, clean>>

(* Mutant: the elapsed time starts over with every wakeup.                 *)
PopTimesOut_Never(t) == pc[t] = "wait" /\ UNCHANGED vars

(***************************************************************************)
(* The timed pop gives up.  It found its queue empty before it slept, but  *)
(* does not look again when it wakes up too late: a result pushed by then  *)
(* is dropped with the queue.                                              *)
(***************************************************************************)
PopTimesOut(t) ==
  /\ Go(t, "wait", "timedout")
  /\ clean' = clean \ {call[t].obj}
  /\ UNCHANGED <<balVars, compltd, queue, gems, call, rc, disp, seen, answer>>

(* Mutant: the pointer is left for erase() to take out.                    *)
Invalidate_KeepsPointer(t) ==
  /\ Go(t, "timedout", "getstate")
  /\ UNCHANGED <<balVars, compltd, queue, gems, call, rc, disp, histVars>>

(* compltd_map[k] = NULL                                                   *)
Invalidate(t) ==
  /\ Go(t, "timedout", "getstate")
  /\ compltd' = [compltd EXCEPT ![call[t].obj] = Null]
  /\ UNCHANGED <<balVars, queue, gems, call, rc, disp, histVars>>

(* The state query itself fails: its error is returned at once.            *)
StateQueryFails(t) ==
  /\ Go(t, "getstate", "returned")
  /\ rc' = [rc EXCEPT ![t] = "ERR"]
  /\ LocalQueue(t)
  /\ UNCHANGED <<balVars, compltd, gems, call, disp, histVars>>

(* Mutant: the state is not compared with the action.                      *)
RightAfterTimeout_AnyAction(act, state) ==
  act # "encrypt" /\ state \in {"NOT_CONFIGURED", "ACTIVE"}

RightAfterTimeout(act, state) == act # "encrypt" /\ state = Target(act)

(***************************************************************************)
(* The state of the object, as get_alloc_obj_state or get_gem_obj_state    *)
(* reads it from BAL: any state.  If it is the wanted one, OK is returned  *)
(* at once and the NULL entry stays in the map.                            *)
(***************************************************************************)
StateIsRight(t) ==
  /\ Go(t, "getstate", "returned")
  /\ \E state \in States :
       /\ RightAfterTimeout(call[t].act, state)
       /\ seen' = [seen EXCEPT ![t] = state]
  /\ rc' = [rc EXCEPT ![t] = "OK"]
  /\ LocalQueue(t)
  /\ UNCHANGED <<balVars, compltd, gems, call, disp, answer, clean>>

(***************************************************************************)
(* It is not.  err is BCM_ERR_OK again (the query succeeded) and the       *)
(* verdict is taken from result.first, which a pop that timed out          *)
(* value-initialises: state 0 is NOT_CONFIGURED, status 0 is SUCCESS.      *)
(***************************************************************************)
StateIsWrong(t) ==
  /\ Go(t, "getstate", "erase")
  /\ \E state \in States :
       /\ ~RightAfterTimeout(call[t].act, state)
       /\ seen' = [seen EXCEPT ![t] = state]
  /\ rc' = [rc EXCEPT ![t] = Verdict(call[t].act, "NOT_CONFIGURED")]
  /\ UNCHANGED <<balVars, compltd, queue, gems, call, disp, answer, clean>>

(***************************************************************************)
(* compltd_map.erase(k).  If the GEM handler holds an iterator to this     *)
(* node (it looks the key up in one critical section and pushes in the     *)
(* next), that iterator is now invalid.                                    *)
(***************************************************************************)
HandlerHolds(o) == disp.found /\ inds # <<>> /\ Head(inds).obj = o

Erase(t) ==
  LET o == call[t].obj IN
  /\ Go(t, "erase", "returned")
  /\ compltd' = [compltd EXCEPT ![o] = NoEntry]
  /\ disp' = IF HandlerHolds(o) THEN [disp EXCEPT !.erased = TRUE] ELSE disp
  /\ LocalQueue(t)
  /\ UNCHANGED <<balVars, gems, call, rc, histVars>>

(* The caller records the GEM port as installed or removed.                *)
Finish(t) ==
  LET o == call[t].obj IN
  /\ Go(t, "returned", "idle")
  /\ gems' = IF o \notin GemObjs \/ rc[t] # "OK" THEN gems
             ELSE CASE call[t].act = "create" -> gems \cup {o}
                    [] call[t].act = "delete" -> gems \ {o}
                    [] OTHER -> gems
  /\ call' = [call EXCEPT ![t] = NoCall]
  /\ rc' = [rc EXCEPT ![t] = "none"]
  /\ seen' = [seen EXCEPT ![t] = "none"]
  /\ answer' = [answer EXCEPT ![t] = NoId]
  /\ UNCHANGED <<balVars, compltd, queue, disp, clean>>

-----------------------------------------------------------------------------
(* BAL (external): it completes an accepted request in some state and      *)
(* reports it, or its report is lost.                                      *)

BalCompletes(o) ==
  /\ reqs[o] # <<>>
  /\ reqs' = [reqs EXCEPT ![o] = Tail(@)]
  /\ \E c \in BalOutcomes :
       \/ inds' = Append(inds, [obj |-> o, id |-> Head(reqs[o]),
                                status |-> c.status, state |-> c.state])
       \/ inds' = inds
  /\ UNCHANGED <<compltd, queue, gems, pc, call, rc, disp, histVars>>

-----------------------------------------------------------------------------
(* The indication handlers, run by BAL's callback thread one at a time.    *)

Result(m) == [id |-> m.id, status |-> m.status, state |-> m.state]

Entry(o) == compltd[o]

Push(m) ==
  queue' = IF Entry(m.obj) \in Threads
           THEN [queue EXCEPT ![Entry(m.obj)] = Append(@, Result(m))]
           ELSE queue

(* ItuPonAllocConfigCompletedInd: look up and push in one critical section.*)
AllocInd ==
  /\ inds # <<>> /\ Head(inds).obj \in AllocObjs
  /\ Push(Head(inds))
  /\ inds' = Tail(inds)
  /\ UNCHANGED <<reqs, compltd, gems, pc, call, rc, disp, histVars>>

GemHead == inds # <<>> /\ Head(inds).obj \in GemObjs

(* ItuPonGemConfigCompletedInd finds the key ...                           *)
GemIndFinds ==
  /\ GemHead /\ ~disp.found
  /\ Entry(Head(inds).obj) # NoEntry
  /\ disp' = [disp EXCEPT !.found = TRUE]
  /\ UNCHANGED <<balVars, compltd, queue, gems, pc, call, rc, histVars>>

(* ... or does not, sleeps and tries again ...                             *)
GemIndRetries ==
  /\ GemHead /\ ~disp.found
  /\ Entry(Head(inds).obj) = NoEntry
  /\ disp.checks < MaxGemCfgKeyCheck
  /\ disp' = [disp EXCEPT !.checks = @ + 1]
  /\ UNCHANGED <<balVars, compltd, queue, gems, pc, call, rc, histVars>>

(* Mutant: it goes on sleeping.                                            *)
GemIndGivesUp_Never ==
  /\ GemHead /\ ~disp.found
  /\ Entry(Head(inds).obj) = NoEntry
  /\ disp.checks >= MaxGemCfgKeyCheck
  /\ UNCHANGED vars

(* ... or gives up.                                                        *)
GemIndGivesUp ==
  /\ GemHead /\ ~disp.found
  /\ Entry(Head(inds).obj) = NoEntry
  /\ disp.checks >= MaxGemCfgKeyCheck
  /\ inds' = Tail(inds)
  /\ disp' = DispIdle
  /\ UNCHANGED <<reqs, compltd, queue, gems, pc, call, rc, histVars>>

(***************************************************************************)
(* The second critical section, through the iterator of the first.  If the *)
(* node was erased in between, the read is undefined: the result may reach *)
(* the present entry's queue (the node was recycled for it) or nobody.     *)
(***************************************************************************)
GemIndPushes ==
  /\ GemHead /\ disp.found
  /\ \/ Push(Head(inds))
     \/ disp.erased /\ UNCHANGED queue
  /\ inds' = Tail(inds)
  /\ disp' = DispIdle
  /\ UNCHANGED <<reqs, compltd, gems, pc, call, rc, histVars>>

-----------------------------------------------------------------------------
Wait(t) ==
  \/ Register(t) \/ PopResult(t) \/ PopTimesOut(t) \/ Invalidate(t)
  \/ StateQueryFails(t) \/ StateIsRight(t) \/ StateIsWrong(t) \/ Erase(t)

Thread(t) == SubmitOk(t) \/ SubmitFails(t) \/ SubmitNotNeeded(t) \/ Wait(t) \/ Finish(t)

Dispatcher == AllocInd \/ GemIndFinds \/ GemIndRetries \/ GemIndGivesUp \/ GemIndPushes

Next ==
  \/ \E t \in Threads, o \in Objs, act \in Acts : Call(t, o, act)
  \/ \E t \in Threads : Thread(t)
  \/ \E o \in Objs : BalCompletes(o)
  \/ Dispatcher

Spec == Init /\ [][Next]_vars

(***************************************************************************)
(* A thread inside a call is running or in a wait with a timeout, and      *)
(* BAL's callback thread runs: both take their next step eventually.       *)
(* Nothing obliges BAL to complete a request or a client to make a call.   *)
(***************************************************************************)
FairSpec == Spec /\ (\A t \in Threads : WF_vars(Thread(t))) /\ WF_vars(Dispatcher)

-----------------------------------------------------------------------------
(* Properties.                                                             *)

TypeOK ==
  /\ reqs \in [Objs -> Seq(Ids)]
  /\ inds \in Seq(Messages)
  /\ compltd \in [Objs -> Threads \cup {NoEntry, Null}]
  /\ queue \in [Threads -> Seq(Results)]
  /\ gems \subseteq GemObjs
  /\ pc \in [Threads -> PCs]
  /\ call \in [Threads -> [obj : Objs, act : Acts, id : Ids] \cup {NoCall}]
  /\ rc \in [Threads -> {"none", "OK", "ERR"}]
  /\ disp \in [found : BOOLEAN, checks : 1 .. MaxGemCfgKeyCheck, erased : BOOLEAN]
  /\ seen \in [Threads -> States \cup {"none"}]
  /\ answer \in [Threads -> Ids \cup {NoId}]
  /\ clean \subseteq Objs

(***************************************************************************)
(* A pointer in the map is always to the queue of a thread that is still   *)
(* inside its wait for that very object.  Every way out of the wait (two   *)
(* early returns after a timeout included), and any interleaving of        *)
(* several waiters on one key, has to take its own pointer out first: the  *)
(* handlers would otherwise push onto a stack frame that is gone.          *)
(***************************************************************************)
NoDanglingQueue ==
  \A o \in Objs : compltd[o] \in Threads =>
    /\ Alive(compltd[o])
    /\ call[compltd[o]].obj = o

(***************************************************************************)
(* A call that began in quiet and waits undisturbed is the one the         *)
(* handlers will find, whatever earlier calls left in the map (a timeout   *)
(* leaves a NULL entry behind): its completion is not thrown away.         *)
(***************************************************************************)
SoleWaiterIsFound ==
  \A t \in Threads :
    pc[t] = "wait" /\ call[t].obj \in clean => compltd[call[t].obj] = t

(***************************************************************************)
(* There are no request identifiers, yet a call that started when nothing  *)
(* was going on for its object, has not timed out and was not joined by    *)
(* another call on the object takes its verdict from the completion of its *)
(* OWN request.                                                            *)
(***************************************************************************)
AnswersOwnRequest ==
  \A t \in Threads :
    Busy(t) /\ answer[t] # NoId /\ call[t].obj \in clean => answer[t] = call[t].id

(***************************************************************************)
(* OK from a wait that saw an object state means the object was in the     *)
(* state the caller asked for.  The one exception is a delete that timed   *)
(* out: then the verdict is taken from a result nobody wrote, whose state  *)
(* reads NOT_CONFIGURED.                                                   *)
(***************************************************************************)
OkMeansReached ==
  \A t \in Threads :
    /\ pc[t] \in {"erase", "returned"} /\ rc[t] = "OK" /\ seen[t] # "none"
    /\ call[t].act # "delete" \/ answer[t] # NoId
    => seen[t] = Target(call[t].act)

(***************************************************************************)
(* The GEM handler pushes through an iterator it obtained under the lock   *)
(* and kept across an unlock.  For a call that began in quiet and has not  *)
(* timed out the node cannot be erased in between.                         *)
(***************************************************************************)
IteratorValidWhenClean == GemHead /\ disp.erased => Head(inds).obj \notin clean

(***************************************************************************)
(* Every call returns, also when BAL never answers or its answer is lost.  *)
(***************************************************************************)
CallReturns == \A t \in Threads : Busy(t) ~> ~Busy(t)

(***************************************************************************)
(* The callback thread never gets stuck on a GEM indication that nobody    *)
(* waits for: every indication is disposed of, so the indications queued   *)
(* behind it (all other kinds included) are delivered.                     *)
(***************************************************************************)
IndicationsDrain == \A i \in Ids : (\E k \in DOMAIN inds : inds[k].id = i)
                      ~> ~(\E k \in DOMAIN inds : inds[k].id = i)
=============================================================================
