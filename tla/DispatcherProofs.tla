-------------------------- MODULE DispatcherProofs --------------------------
(***************************************************************************)
(* Proofs about the lifecycle of the models, for every number of requests, *)
(* operators, models, adapters and groups.                                 *)
(*                                                                         *)
(* - The dispatcher uses its locks as leases: it implements LeaseSpec.     *)
(* - Two conflicting models are never both loading or ready, in a          *)
(*   configuration where                                                   *)
(*     - every conflict has one guard, a key of one slot that each model   *)
(*       with a key in common with one of the two has as well (the bridged *)
(*       groups of a model in two groups are the counterexample);          *)
(*     - no adapter reports its models (a probe takes an "unknown" model   *)
(*       to "ready" without a lock);                                       *)
(*     - no adapter is recovered from Metal timeouts (the recovery takes   *)
(*       no lock either).                                                  *)
(* - A model in "loading" has a thread that loads it; unless stop() can    *)
(*   fail, one in "unloading" has a thread that unloads it.                *)
(* - A server of an earlier core stays for as long as this one runs.       *)
(* - Every unload begins with a ready model, where the locks serialize the *)
(*   work on every adapter and no server dies by itself.                   *)
(* - A ready model is in the memory of a live server, and the weights of   *)
(*   two conflicting models are never in memory together, if besides the   *)
(*   calls of the dispatcher do what they are told: a crash, a failed stop *)
(*   or a lost answer refutes both.                                        *)
(* - The dispatcher implements Residency, in the configurations of the     *)
(*   second item.                                                          *)
(***************************************************************************)
EXTENDS Dispatcher, FiniteSetTheorems, TLAPS

Guards(k, m) == \A x \in Model : Keys(x) \cap Keys(m) # {} => k \in Keys(x)

ClosedTopology ==
  \A m, n \in Model :
    Conflict(m, n) => \E k \in Key : Slots[k] = 1 /\ Guards(k, m) /\ Guards(k, n)

(* The labels a thread passes while it holds its locks, and those of the
   loop that makes room. *)
Locked ==
  {"probe", "evict", "deactivate", "stop", "kill", "load", "start", "activate",
   "finish", "cleanup", "discard"}
MakingRoom == {"probe", "evict", "deactivate", "stop", "kill"}
Loading == {"start", "activate", "finish", "cleanup", "discard"}

(* A key of one slot has one lessee. *)
OneLessee ==
  \A k \in Key, t, u \in Thread :
    Slots[k] = 1 /\ k \in lease[t] /\ k \in lease[u] => t = u

(* The locks of a thread are all those of its transition or none. *)
LeasesWhole ==
  \A t \in Thread :
    /\ pc[t] \in {"idle", "snapshot", "observe", "apply", "relay", "recover", "closing", "lost"} =>
         lease[t] = {}
    /\ pc[t] \in {"decide", "check"} => lease[t] \in {{}, TransitionKeys(t)}
    /\ pc[t] \in Locked => lease[t] = TransitionKeys(t)

(* The operation and its model at each label. *)
OpShape ==
  \A t \in Thread :
    /\ pc[t] \in {"snapshot", "observe", "apply"} => op[t] \in {"request", "switch", "status"}
    /\ pc[t] \in {"decide", "load"} \cup Loading => op[t] \in {"request", "switch"}
    /\ pc[t] \in {"relay", "recover"} => op[t] = "request"
    /\ pc[t] = "check" => op[t] = "unload"
    /\ pc[t] \in MakingRoom => op[t] \in {"request", "switch", "unload"}
    /\ pc[t] = "apply" => subject[t] \in Model
    /\ pc[t] \in {"deactivate", "stop", "kill"} => subject[t] \in Model
    /\ op[t] \in {"request", "switch"} => target[t] \in Model

(* No probe reports a loaded model and no Metal recovery runs. *)
NoReports ==
  \A t \in Thread : reading[t] # "loaded" /\ pc[t] # "recover"

(* What a thread evicts has a key in common with what it has locked. *)
EvictsOwn ==
  \A t \in Thread :
    /\ pc[t] \in MakingRoom =>
         \A b \in todo[t] : Keys(b) \cap TransitionKeys(t) # {}
    /\ pc[t] \in {"deactivate", "stop", "kill"} =>
         Keys(subject[t]) \cap TransitionKeys(t) # {}

(* Two rivals never hold their resources together. *)
RivalsApart == \A m, n \in Model : Conflict(m, n) => ~(m \in Holding /\ n \in Holding)

(* When a thread has made room, nobody takes it before the load ... *)
RoomKept ==
  \A t \in Thread : pc[t] = "load" =>
    \A n \in Model : Conflict(target[t], n) => n \notin Holding

(* ... and what it is going to evict keeps its own rivals out until then. *)
VictimsApart ==
  \A t \in Thread : pc[t] \in MakingRoom =>
    \A b \in todo[t], n \in Model :
      Conflict(b, n) => n \notin Holding /\ n \notin todo[t]

ExclusiveInv ==
  /\ TypeOK
  /\ OneLessee
  /\ LeasesWhole
  /\ OpShape
  /\ NoReports
  /\ EvictsOwn
  /\ RivalsApart
  /\ RoomKept
  /\ VictimsApart
-----------------------------------------------------------------------------
(* Types. *)

LEMMA KeysType ==
  ASSUME NEW m \in Model
  PROVE  Keys(m) \in SUBSET Key /\ AdapterOf[m] \in Keys(m)
  BY TopologyAssumption, KeysAssumption DEF Keys

LEMMA TransitionKeysType ==
  ASSUME NEW t \in Thread, TypeOK
  PROVE  TransitionKeys(t) \in KeySets /\ TransitionKeys(t) \in SUBSET Key
<1>1. target[t] \in Model \cup {None}
  BY DEF TypeOK
<1>2. TransitionKeys(t) \in KeySets
  BY <1>1, KeysAssumption DEF TransitionKeys
<1> QED
  BY <1>2, KeySetsAssumption

LEMMA BlockersType ==
  ASSUME NEW m
  PROVE  Blockers(m) \subseteq Model
<1>1. AdapterBlockers(m) \subseteq Model
  BY DEF AdapterBlockers, ModelsOn
<1>2. \A g \in GroupsOf[m] : GroupBlockers(g, m) \subseteq Model
  BY DEF GroupBlockers, FirstOf, Occupants
<1> QED
  BY <1>1, <1>2 DEF Blockers

LEMMA TypeInit == Init => TypeOK
  BY TopologyAssumption DEF Init, LeaseInit, TypeOK, State, Proc, Label, Op, Reading

LEMMA TypeStep == TypeOK /\ OpShape /\ [Next]_vars => TypeOK'
<1> SUFFICES ASSUME TypeOK, OpShape, [Next]_vars
             PROVE  TypeOK'
  OBVIOUS
<1> USE DEF TypeOK, backendVars, loopVars, requestVars, jobVars, dispatchVars
<1>1. ASSUME NEW t \in Thread, BeginOperation(t)
      PROVE  TypeOK'
  BY <1>1, TopologyAssumption DEF BeginOperation, BeginRequest, BeginSwitch, BeginUnload, BeginStatus, Begin, Goto, Label, Op
<1>2. ASSUME NEW t \in Thread, Refresh(t)
      PROVE  TypeOK'
  <2>1. CASE Snapshot(t)
    BY <2>1 DEF Snapshot, Goto, Label
  <2>2. CASE Observe(t)
    <3>1. \A m \in Model : Readings(m) \subseteq Reading
      BY DEF Readings, Reading
    <3> QED
      BY <2>2, <3>1 DEF Observe, Goto, Label
  <2>3. CASE Apply(t)
    <3>1. subject[t] \in Model => Applied(subject[t], reading[t]) \in State
      BY DEF Applied, State
    <3> QED
      BY <2>3, <3>1 DEF Apply, SetState, Goto, Label, Reading
  <2>4. CASE Observed(t)
    BY <2>4 DEF Observed, Goto, Label
  <2> QED
    BY <1>2, <2>1, <2>2, <2>3, <2>4 DEF Refresh
<1>3. ASSUME NEW t \in Thread, Lock(t)
      PROVE  TypeOK'
  BY <1>3, TransitionKeysType DEF Lock, EnterTransition, TimeOut, LeaveTransition, Grant, Return, Goto, Label
<1>4. ASSUME NEW t \in Thread, MakeRoom(t)
      PROVE  TypeOK'
  <2>1. CASE Decide(t)
    <3>1. Blockers(target[t]) \in SUBSET Model
      BY BlockersType
    <3> QED
      BY <2>1, <3>1 DEF Decide, Goto, Label
  <2>2. CASE Check(t)
    BY <2>2 DEF Check, Goto, Label
  <2>3. CASE Probe(t)
    BY <2>3 DEF Probe, Goto, Label
  <2>4. CASE Evict(t)
    BY <2>4 DEF Evict, SetState, Goto, Label, State
  <2>5. CASE Deactivate(t)
    BY <2>5 DEF Deactivate, SetState, Goto, Label, State
  <2>6. CASE StopService(t)
    BY <2>6 DEF StopService, Unloaded, SetState, Goto, Label, State
  <2>7. CASE Kill(t)
    BY <2>7 DEF Kill, StopServer, Unloaded, SetState, Goto, Label, State, Proc
  <2> QED
    BY <1>4, <2>1, <2>2, <2>3, <2>4, <2>5, <2>6, <2>7 DEF MakeRoom
<1>5. ASSUME NEW t \in Thread, LoadTarget(t)
      PROVE  TypeOK'
  <2>1. CASE Load(t)
    BY <2>1 DEF Load, SetState, Goto, Label, State
  <2>2. CASE Start(t)
    <3>1. target[t] \in Model
      BY <2>2 DEF Start, OpShape, Loading
    <3> QED
      BY <2>2, <3>1 DEF Start, Launched, StartFailed, LoadFailed, SetState, Goto, Label, State, Proc
  <2>3. CASE Activate(t)
    <3>1. target[t] \in Model
      BY <2>3 DEF Activate, OpShape, Loading
    <3>2. resident' \in SUBSET Model
      BY <2>3, <3>1 DEF Activate, Launched, StartFailed
    <3>3. proc' \in [Adapter -> Proc] /\ state' \in [Model -> State]
      BY <2>3 DEF Activate, Launched, StartFailed, LoadFailed, SetState, State, Proc
    <3>4. pc' \in [Thread -> Label] /\ recovered' \in [Request -> BOOLEAN]
      BY <2>3 DEF Activate, LoadFailed, Goto, Label
    <3> QED
      BY <2>3, <3>2, <3>3, <3>4 DEF Activate
  <2>4. CASE Finish(t)
    BY <2>4 DEF Finish, SetState, Goto, Label, State
  <2>5. CASE Cleanup(t)
    BY <2>5 DEF Cleanup, SetState, Goto, Label, State
  <2>6. CASE Discard(t)
    BY <2>6 DEF Discard, StopServer, SetState, Goto, Label, State, Proc
  <2> QED
    BY <1>5, <2>1, <2>2, <2>3, <2>4, <2>5, <2>6 DEF LoadTarget
<1>6. ASSUME NEW t \in Thread, Answer(t)
      PROVE  TypeOK'
  BY <1>6 DEF Answer, EndThread, Goto, Label, Op
<1>7. ASSUME NEW t \in Thread, Serve(t)
      PROVE  TypeOK'
  <2>1. CASE EndRequest(t)
    BY <1>7, <2>1 DEF Serve, EndRequest, EndThread, Goto, Label, Op
  <2>2. CASE RecoverBegin(t)
    BY <1>7, <2>2 DEF Serve, RecoverBegin, SetState, Goto, Label, State
  <2>3. CASE RecoverEnd(t)
    <3>1. target[t] \in Model
      BY <2>3 DEF RecoverEnd, OpShape
    <3> QED
      BY <2>3, <3>1 DEF RecoverEnd, Launched, StartFailed, SetState, Goto, Label, State, Proc
  <2> QED
    BY <1>7, <2>1, <2>2, <2>3 DEF Serve
<1>8. ASSUME NEW r \in Request, Cancel(r)
      PROVE  TypeOK'
  BY <1>8 DEF Cancel
<1>9. ASSUME NEW a \in Adapter, Crash(a)
      PROVE  TypeOK'
  BY <1>9 DEF Crash, Proc
<1>10. CASE UNCHANGED vars
  BY <1>10 DEF vars
<1> QED
  BY <1>1, <1>2, <1>3, <1>4, <1>5, <1>6, <1>7, <1>8, <1>9, <1>10 DEF Next, Step

LEMMA OpShapeStep == TypeOK /\ OpShape /\ [Next]_vars => OpShape'
<1> SUFFICES ASSUME TypeOK, OpShape, [Next]_vars
             PROVE  OpShape'
  OBVIOUS
<1> USE DEF TypeOK, OpShape, Loading, MakingRoom, backendVars, loopVars, requestVars, jobVars, dispatchVars
<1>1. ASSUME NEW t \in Thread, BeginOperation(t)
      PROVE  OpShape'
  BY <1>1, TopologyAssumption DEF BeginOperation, BeginRequest, BeginSwitch, BeginUnload, BeginStatus, Begin, Goto
<1>2. ASSUME NEW t \in Thread, Refresh(t)
      PROVE  OpShape'
  BY <1>2 DEF Refresh, Snapshot, Observe, Apply, Observed, Goto
<1>3. ASSUME NEW t \in Thread, Lock(t)
      PROVE  OpShape'
  BY <1>3 DEF Lock, EnterTransition, TimeOut, LeaveTransition, Goto
<1>4. ASSUME NEW t \in Thread, MakeRoom(t)
      PROVE  OpShape'
  <2>1. CASE Decide(t)
    <3>1. \E label \in {"fail", "ok", "load", "probe"} : Goto(t, label)
      BY <2>1 DEF Decide
    <3>2. pc[t] = "decide" /\ UNCHANGED <<op, target, subject>>
      BY <2>1 DEF Decide
    <3> QED
      BY <3>1, <3>2 DEF Goto
  <2>2. CASE Evict(t)
    BY <2>2 DEF Evict, Goto
  <2>3. CASE Deactivate(t)
    BY <2>3 DEF Deactivate, Goto
  <2>4. CASE StopService(t) \/ Kill(t)
    BY <2>4 DEF StopService, Kill, Unloaded, Goto
  <2>5. CASE Check(t) \/ Probe(t)
    BY <2>5 DEF Check, Probe, Goto
  <2> QED
    BY <1>4, <2>1, <2>2, <2>3, <2>4, <2>5 DEF MakeRoom
<1>5. ASSUME NEW t \in Thread, LoadTarget(t)
      PROVE  OpShape'
  <2>1. CASE Load(t) \/ Start(t)
    BY <2>1 DEF Load, Start, LoadFailed, Goto
  <2>2. CASE Activate(t)
    BY <2>2 DEF Activate, LoadFailed, Goto
  <2>3. CASE Finish(t) \/ Cleanup(t) \/ Discard(t)
    BY <2>3 DEF Finish, Cleanup, Discard, Goto
  <2> QED
    BY <1>5, <2>1, <2>2, <2>3 DEF LoadTarget
<1>6. ASSUME NEW t \in Thread, Answer(t)
      PROVE  OpShape'
  BY <1>6 DEF Answer, EndThread, Goto
<1>7. ASSUME NEW t \in Thread, Serve(t)
      PROVE  OpShape'
  BY <1>7 DEF Serve, EndRequest, RecoverBegin, RecoverEnd, EndThread, Goto
<1>8. ASSUME NEW r \in Request, Cancel(r)
      PROVE  OpShape'
  BY <1>8 DEF Cancel
<1>9. ASSUME NEW a \in Adapter, Crash(a)
      PROVE  OpShape'
  BY <1>9 DEF Crash
<1>10. CASE UNCHANGED vars
  BY <1>10 DEF vars
<1> QED
  BY <1>1, <1>2, <1>3, <1>4, <1>5, <1>6, <1>7, <1>8, <1>9, <1>10 DEF Next, Step

(* Every variable keeps its type, and every operation has its model. *)
LEMMA Shaped == Spec => [](TypeOK /\ OpShape)
<1>1. Init => TypeOK /\ OpShape
  <2>1. Init => OpShape
    BY DEF Init, OpShape, Loading, MakingRoom
  <2> QED
    BY <2>1, TypeInit
<1>2. TypeOK /\ OpShape /\ [Next]_vars => (TypeOK /\ OpShape)'
  BY TypeStep, OpShapeStep
<1> QED
  BY <1>1, <1>2, PTL DEF Spec

(* Every variable keeps its type, the control points and states of the code
   included, whatever fails. *)
THEOREM AlwaysTyped == Spec => []TypeOK
  BY Shaped, PTL

-----------------------------------------------------------------------------
(* Locks. *)

LEMMA LeaseStep == TypeOK /\ [Next]_vars => [LeaseNext]_lease
<1> SUFFICES ASSUME TypeOK, [Next]_vars
             PROVE  [LeaseNext]_lease
  OBVIOUS
<1>1. ASSUME NEW t \in Thread, EnterTransition(t)
      PROVE  LeaseNext
  <2>1. TransitionKeys(t) \in KeySets
    BY TransitionKeysType
  <2> QED
    BY <1>1, <2>1 DEF EnterTransition, LeaseNext
<1>2. ASSUME NEW t \in Thread, LeaveTransition(t)
      PROVE  LeaseNext
  BY <1>2 DEF LeaveTransition, LeaseNext
<1>3. ASSUME NEW t \in Thread, BeginOperation(t) \/ Refresh(t) \/ TimeOut(t)
      PROVE  UNCHANGED lease
  BY <1>3 DEF BeginOperation, BeginRequest, BeginSwitch, BeginUnload, BeginStatus, Begin, Refresh, Snapshot, Observe, Apply, Observed, TimeOut
<1>4. ASSUME NEW t \in Thread, MakeRoom(t)
      PROVE  UNCHANGED lease
  BY <1>4 DEF MakeRoom, Decide, Check, Probe, Evict, Deactivate, StopService, Kill
<1>5. ASSUME NEW t \in Thread, LoadTarget(t)
      PROVE  UNCHANGED lease
  BY <1>5 DEF LoadTarget, Load, Start, Activate, Finish, Cleanup, Discard
<1>6. ASSUME NEW t \in Thread, Answer(t) \/ Serve(t)
      PROVE  UNCHANGED lease
  BY <1>6 DEF Answer, Serve, EndRequest, RecoverBegin, RecoverEnd
<1>7. ASSUME NEW r \in Request, Cancel(r)
      PROVE  UNCHANGED lease
  BY <1>7 DEF Cancel
<1>8. ASSUME NEW a \in Adapter, Crash(a)
      PROVE  UNCHANGED lease
  BY <1>8 DEF Crash
<1>9. CASE UNCHANGED vars
  BY <1>9 DEF vars
<1> QED
  BY <1>1, <1>2, <1>3, <1>4, <1>5, <1>6, <1>7, <1>8, <1>9 DEF Next, Step, Lock

(* The dispatcher uses its locks as the leases that TransitionLocks
   implements: it asks for the keys of its transitions only, all of them at
   once, and gives them back once. *)
THEOREM UsesLeases == Spec => LeaseSpec
<1>1. Init => LeaseInit
  BY DEF Init
<1>2. TypeOK /\ [Next]_vars => [LeaseNext]_lease
  BY LeaseStep
<1> QED
  BY <1>1, <1>2, AlwaysTyped, PTL DEF Spec, LeaseSpec

LEMMA FreeOfLessees ==
  ASSUME NEW k \in Key, Slots[k] = 1, Cardinality(Lessees(k)) < Slots[k]
  PROVE  Lessees(k) = {}
<1>1. IsFiniteSet(Lessees(k))
  BY ThreadAssumption, FS_Subset DEF Lessees
<1>2. Cardinality(Lessees(k)) \in Nat
  BY <1>1, FS_CardinalityType
<1>3. Cardinality(Lessees(k)) = 0
  BY <1>2, SMT
<1> QED
  BY <1>1, <1>3, FS_EmptySet

LEMMA OneLesseeStep == TypeOK /\ OneLessee /\ [LeaseNext]_lease => OneLessee'
<1> SUFFICES ASSUME TypeOK, OneLessee, [LeaseNext]_lease
             PROVE  OneLessee'
  OBVIOUS
<1> USE DEF OneLessee
<1>1. ASSUME NEW t \in Thread, Return(t)
      PROVE  OneLessee'
  BY <1>1 DEF Return, TypeOK
<1>2. ASSUME NEW t \in Thread, NEW keys \in KeySets, Grant(t, keys)
      PROVE  OneLessee'
  <2>1. \A k \in keys : k \in Key
    BY KeySetsAssumption
  <2>2. \A k \in keys : Slots[k] = 1 => Lessees(k) = {}
    BY <1>2, <2>1, FreeOfLessees DEF Grant
  <2>3. \A k \in keys : Slots[k] = 1 => \A u \in Thread : k \notin lease[u]
    BY <2>2 DEF Lessees
  <2>4. lease' = [lease EXCEPT ![t] = keys]
    BY <1>2 DEF Grant
  <2>5. ASSUME NEW k \in Key, NEW u \in Thread, NEW v \in Thread,
               Slots[k] = 1, k \in lease'[u], k \in lease'[v]
        PROVE  u = v
    BY <2>3, <2>4, <2>5 DEF TypeOK
  <2> QED
    BY <2>5
<1>3. CASE UNCHANGED lease
  BY <1>3
<1> QED
  BY <1>1, <1>2, <1>3 DEF LeaseNext

LEMMA LeasesWholeStep == TypeOK /\ LeasesWhole /\ [Next]_vars => LeasesWhole'
<1> SUFFICES ASSUME TypeOK, LeasesWhole, [Next]_vars
             PROVE  LeasesWhole'
  OBVIOUS
<1> USE DEF TypeOK, LeasesWhole, Locked, TransitionKeys, backendVars, loopVars, requestVars, jobVars, dispatchVars
<1>1. ASSUME NEW t \in Thread, BeginOperation(t)
      PROVE  LeasesWhole'
  <2>1. \E label \in {"snapshot", "check"}, m \in Model \cup {None} :
          target' = [target EXCEPT ![t] = m] /\ Goto(t, label)
    BY <1>1 DEF BeginOperation, BeginRequest, BeginSwitch, BeginUnload, BeginStatus, Begin
  <2>2. pc[t] = "idle" /\ UNCHANGED lease
    BY <1>1 DEF BeginOperation, BeginRequest, BeginSwitch, BeginUnload, BeginStatus, Begin
  <2> QED
    BY <2>1, <2>2 DEF Goto
<1>2. ASSUME NEW t \in Thread, Refresh(t)
      PROVE  LeasesWhole'
  BY <1>2 DEF Refresh, Snapshot, Observe, Apply, Observed, Goto
<1>3. ASSUME NEW t \in Thread, Lock(t)
      PROVE  LeasesWhole'
  BY <1>3 DEF Lock, EnterTransition, TimeOut, LeaveTransition, Grant, Return, Goto
<1>4. ASSUME NEW t \in Thread, MakeRoom(t)
      PROVE  LeasesWhole'
  <2>1. CASE Decide(t)
    <3>1. \E label \in {"fail", "ok", "load", "probe"} : Goto(t, label)
      BY <2>1 DEF Decide
    <3>2. pc[t] = "decide" /\ lease[t] # {} /\ UNCHANGED <<lease, target>>
      BY <2>1 DEF Decide
    <3> QED
      BY <3>1, <3>2 DEF Goto
  <2>2. CASE Check(t) \/ Probe(t)
    BY <2>2 DEF Check, Probe, Goto
  <2>3. CASE Evict(t)
    BY <2>3 DEF Evict, Goto
  <2>4. CASE Deactivate(t)
    BY <2>4 DEF Deactivate, Goto
  <2>5. CASE StopService(t) \/ Kill(t)
    BY <2>5 DEF StopService, Kill, Unloaded, Goto
  <2> QED
    BY <1>4, <2>1, <2>2, <2>3, <2>4, <2>5 DEF MakeRoom
<1>5. ASSUME NEW t \in Thread, LoadTarget(t)
      PROVE  LeasesWhole'
  <2>1. CASE Load(t) \/ Start(t)
    BY <2>1 DEF Load, Start, LoadFailed, Goto
  <2>2. CASE Activate(t)
    BY <2>2 DEF Activate, LoadFailed, Goto
  <2>3. CASE Finish(t) \/ Cleanup(t) \/ Discard(t)
    BY <2>3 DEF Finish, Cleanup, Discard, Goto
  <2> QED
    BY <1>5, <2>1, <2>2, <2>3 DEF LoadTarget
<1>6. ASSUME NEW t \in Thread, Answer(t)
      PROVE  LeasesWhole'
  BY <1>6 DEF Answer, EndThread, Goto
<1>7. ASSUME NEW t \in Thread, Serve(t)
      PROVE  LeasesWhole'
  <2>1. CASE EndRequest(t)
    BY <2>1 DEF EndRequest, EndThread, Goto
  <2>2. CASE RecoverBegin(t) \/ RecoverEnd(t)
    BY <2>2 DEF RecoverBegin, RecoverEnd, Goto
  <2> QED
    BY <1>7, <2>1, <2>2 DEF Serve
<1>8. ASSUME NEW r \in Request, Cancel(r)
      PROVE  LeasesWhole'
  BY <1>8 DEF Cancel
<1>9. ASSUME NEW a \in Adapter, Crash(a)
      PROVE  LeasesWhole'
  BY <1>9 DEF Crash
<1>10. CASE UNCHANGED vars
  BY <1>10 DEF vars
<1> QED
  BY <1>1, <1>2, <1>3, <1>4, <1>5, <1>6, <1>7, <1>8, <1>9, <1>10 DEF Next, Step

-----------------------------------------------------------------------------
(* How threads come to the labels the invariant speaks of. *)

(* A thread that is about to load has just found no blocker. *)
LEMMA LoadOrigin ==
  ASSUME TypeOK, [Next]_vars, NEW t \in Thread, pc'[t] = "load"
  PROVE  \/ pc[t] = "load" /\ target'[t] = target[t]
         \/ Decide(t) /\ Blockers(target[t]) = {}
<1> USE DEF TypeOK, backendVars, loopVars, requestVars, jobVars, dispatchVars
<1>1. ASSUME NEW u \in Thread, BeginOperation(u)
      PROVE  pc[t] = "load" /\ target'[t] = target[t]
  BY <1>1 DEF BeginOperation, BeginRequest, BeginSwitch, BeginUnload, BeginStatus, Begin, Goto
<1>2. ASSUME NEW u \in Thread, Refresh(u) \/ Lock(u)
      PROVE  pc[t] = "load" /\ target'[t] = target[t]
  BY <1>2 DEF Refresh, Snapshot, Observe, Apply, Observed, Lock, EnterTransition, TimeOut, LeaveTransition, Goto
<1>3. ASSUME NEW u \in Thread, Decide(u)
      PROVE  \/ pc[t] = "load" /\ target'[t] = target[t]
             \/ Decide(t) /\ Blockers(target[t]) = {}
  <2>1. CASE u = t
    <3>1. Blockers(target[t]) = {}
      BY <1>3, <2>1 DEF Decide, Goto
    <3> QED
      BY <1>3, <2>1, <3>1
  <2>2. CASE u # t
    <3>1. \E label \in {"fail", "ok", "load", "probe"} : Goto(u, label)
      BY <1>3 DEF Decide
    <3>2. UNCHANGED target
      BY <1>3 DEF Decide
    <3> QED
      BY <2>2, <3>1, <3>2 DEF Goto
  <2> QED
    BY <2>1, <2>2
<1>4. ASSUME NEW u \in Thread,
             Check(u) \/ Probe(u) \/ Evict(u) \/ Deactivate(u) \/ StopService(u) \/ Kill(u)
      PROVE  pc[t] = "load" /\ target'[t] = target[t]
  BY <1>4 DEF Check, Probe, Evict, Deactivate, StopService, Kill, Unloaded, Goto
<1>5. ASSUME NEW u \in Thread, LoadTarget(u)
      PROVE  pc[t] = "load" /\ target'[t] = target[t]
  BY <1>5 DEF LoadTarget, Load, Start, Activate, Finish, Cleanup, Discard, LoadFailed, Goto
<1>6. ASSUME NEW u \in Thread, Answer(u)
      PROVE  pc[t] = "load" /\ target'[t] = target[t]
  BY <1>6 DEF Answer, EndThread, Goto
<1>7. ASSUME NEW u \in Thread, Serve(u)
      PROVE  pc[t] = "load" /\ target'[t] = target[t]
  BY <1>7 DEF Serve, EndRequest, RecoverBegin, RecoverEnd, EndThread, Goto
<1>8. ASSUME NEW r \in Request, Cancel(r)
      PROVE  pc[t] = "load" /\ target'[t] = target[t]
  BY <1>8 DEF Cancel
<1>9. ASSUME NEW a \in Adapter, Crash(a)
      PROVE  pc[t] = "load" /\ target'[t] = target[t]
  BY <1>9 DEF Crash
<1>10. CASE UNCHANGED vars
  BY <1>10 DEF vars
<1> QED
  BY <1>1, <1>2, <1>3, <1>4, <1>5, <1>6, <1>7, <1>8, <1>9, <1>10 DEF Next, Step, MakeRoom

(* What a thread evicts was ready when it decided so, and shares a key. *)
LEMMA RoomOrigin ==
  ASSUME TypeOK, OpShape, [Next]_vars, NEW t \in Thread, pc'[t] \in MakingRoom
  PROVE  \/ pc[t] \in MakingRoom /\ todo'[t] \subseteq todo[t] /\ target'[t] = target[t]
         \/ /\ pc[t] \in {"decide", "check"} /\ pc'[t] = "probe"
            /\ target'[t] = target[t] /\ lease[t] # {}
            /\ \A b \in todo'[t] :
                 state[b] = "ready" /\ Keys(b) \cap TransitionKeys(t) # {}
<1> DEFINE Goes == pc[t] \in MakingRoom /\ todo'[t] \subseteq todo[t] /\ target'[t] = target[t]
<1> USE DEF TypeOK, MakingRoom, backendVars, loopVars, requestVars, jobVars, dispatchVars
<1>1. ASSUME NEW u \in Thread, BeginOperation(u)
      PROVE  Goes
  BY <1>1 DEF BeginOperation, BeginRequest, BeginSwitch, BeginUnload, BeginStatus, Begin, Goto
<1>2. ASSUME NEW u \in Thread, Refresh(u) \/ Lock(u)
      PROVE  Goes
  BY <1>2 DEF Refresh, Snapshot, Observe, Apply, Observed, Lock, EnterTransition, TimeOut, LeaveTransition, Goto
<1>3. ASSUME NEW u \in Thread, u # t, Decide(u)
      PROVE  Goes
  <2>1. \E label \in {"fail", "ok", "load", "probe"} : Goto(u, label)
    BY <1>3 DEF Decide
  <2>2. UNCHANGED target /\ todo'[t] = todo[t]
    BY <1>3 DEF Decide
  <2> QED
    BY <1>3, <2>1, <2>2 DEF Goto
<1>4. ASSUME Decide(t)
      PROVE  /\ pc[t] = "decide" /\ pc'[t] = "probe"
             /\ target'[t] = target[t] /\ lease[t] # {}
             /\ \A b \in todo'[t] :
                  state[b] = "ready" /\ Keys(b) \cap TransitionKeys(t) # {}
  <2>1. pc[t] = "decide" /\ pc'[t] = "probe" /\ lease[t] # {} /\ UNCHANGED target
    BY <1>4 DEF Decide, Goto
  <2>2. target[t] \in Model /\ TransitionKeys(t) = Keys(target[t])
    BY <2>1, TopologyAssumption DEF OpShape, TransitionKeys
  <2>3. /\ todo'[t] = Blockers(target[t])
        /\ \A n \in Blockers(target[t]) : state[n] \notin {"unknown", "loading"}
    BY <1>4, <2>1 DEF Decide, Goto
  <2>4. ASSUME NEW b \in Blockers(target[t])
        PROVE  state[b] \in {"loading", "ready", "unknown"} /\ Keys(b) \cap Keys(target[t]) # {}
    BY <2>2, <2>4 DEF Blockers, AdapterBlockers, GroupBlockers, FirstOf, Occupants, ModelsOn, Keys
  <2> QED
    BY <2>1, <2>2, <2>3, <2>4
<1>5. ASSUME NEW u \in Thread, u # t, Check(u)
      PROVE  Goes
  BY <1>5 DEF Check, Goto
<1>6. ASSUME Check(t)
      PROVE  /\ pc[t] = "check" /\ pc'[t] = "probe"
             /\ target'[t] = target[t] /\ lease[t] # {}
             /\ \A b \in todo'[t] :
                  state[b] = "ready" /\ Keys(b) \cap TransitionKeys(t) # {}
  <2>1. pc[t] = "check" /\ pc'[t] = "probe" /\ lease[t] # {} /\ UNCHANGED target
    BY <1>6 DEF Check, Goto
  <2>2. \A b \in todo'[t] : b \in Model /\ target[t] \in {None, b} /\ state[b] = "ready"
    BY <1>6, <2>1 DEF Check, Goto
  <2>3. ASSUME NEW b \in todo'[t]
        PROVE  Keys(b) \cap TransitionKeys(t) # {}
    <3>1. b \in Model /\ AdapterOf[b] \in Keys(b)
      BY <2>2, KeysType
    <3>2. AdapterOf[b] \in TransitionKeys(t)
      BY <2>2, <3>1 DEF TransitionKeys
    <3> QED
      BY <3>1, <3>2
  <2> QED
    BY <2>1, <2>2, <2>3
<1>7. ASSUME NEW u \in Thread,
             Probe(u) \/ Evict(u) \/ Deactivate(u) \/ StopService(u) \/ Kill(u)
      PROVE  Goes
  <2>1. CASE Probe(u)
    BY <2>1 DEF Probe, Goto
  <2>2. CASE Deactivate(u)
    BY <2>2 DEF Deactivate, Goto
  <2>4. CASE Evict(u)
    <3>1. todo'[t] \subseteq todo[t] /\ UNCHANGED target
      BY <2>4 DEF Evict
    <3>2. pc[u] = "evict" /\ (Goto(u, "fail") \/ Goto(u, "deactivate"))
      BY <2>4 DEF Evict
    <3> QED
      BY <3>1, <3>2 DEF Goto
  <2>3. CASE StopService(u) \/ Kill(u)
    BY <2>3 DEF StopService, Kill, Unloaded, Goto
  <2> QED
    BY <1>7, <2>1, <2>2, <2>3, <2>4
<1>8. ASSUME NEW u \in Thread, LoadTarget(u)
      PROVE  Goes
  BY <1>8 DEF LoadTarget, Load, Start, Activate, Finish, Cleanup, Discard, LoadFailed, Goto
<1>9. ASSUME NEW u \in Thread, Answer(u) \/ Serve(u)
      PROVE  Goes
  BY <1>9 DEF Answer, Serve, EndRequest, RecoverBegin, RecoverEnd, EndThread, Goto
<1>10. ASSUME NEW r \in Request, Cancel(r)
      PROVE  Goes
  BY <1>10 DEF Cancel
<1>11. ASSUME NEW a \in Adapter, Crash(a)
      PROVE  Goes
  BY <1>11 DEF Crash
<1>12. CASE UNCHANGED vars
  BY <1>12 DEF vars
<1> QED
  BY <1>1, <1>2, <1>3, <1>4, <1>5, <1>6, <1>7, <1>8, <1>9, <1>10, <1>11, <1>12 DEF Next, Step, MakeRoom

(* The subject of an eviction comes from the list of its thread. *)
LEMMA SubjectOrigin ==
  ASSUME TypeOK, [Next]_vars, NEW t \in Thread, pc'[t] \in {"deactivate", "stop", "kill"}
  PROVE  \/ pc[t] \in {"deactivate", "stop", "kill"}
              /\ subject'[t] = subject[t] /\ target'[t] = target[t]
         \/ pc[t] = "evict" /\ subject'[t] \in todo[t] /\ target'[t] = target[t]
<1> DEFINE Goal == \/ pc[t] \in {"deactivate", "stop", "kill"}
                        /\ subject'[t] = subject[t] /\ target'[t] = target[t]
                   \/ pc[t] = "evict" /\ subject'[t] \in todo[t] /\ target'[t] = target[t]
<1> USE DEF TypeOK, backendVars, loopVars, requestVars, jobVars, dispatchVars
<1>1. ASSUME NEW u \in Thread, BeginOperation(u)
      PROVE  Goal
  BY <1>1 DEF BeginOperation, BeginRequest, BeginSwitch, BeginUnload, BeginStatus, Begin, Goto
<1>2. ASSUME NEW u \in Thread, Refresh(u) \/ Lock(u)
      PROVE  Goal
  BY <1>2 DEF Refresh, Snapshot, Observe, Apply, Observed, Lock, EnterTransition, TimeOut, LeaveTransition, Goto
<1>3. ASSUME NEW u \in Thread, Decide(u)
      PROVE  Goal
  <2>1. \E label \in {"fail", "ok", "load", "probe"} : Goto(u, label)
    BY <1>3 DEF Decide
  <2>2. UNCHANGED <<target, subject>>
    BY <1>3 DEF Decide
  <2> QED
    BY <2>1, <2>2 DEF Goto
<1>4. ASSUME NEW u \in Thread, Check(u) \/ Probe(u) \/ Evict(u)
      PROVE  Goal
  BY <1>4 DEF Check, Probe, Evict, Goto
<1>5. ASSUME NEW u \in Thread, Deactivate(u) \/ StopService(u) \/ Kill(u)
      PROVE  Goal
  <2>1. CASE Deactivate(u)
    BY <2>1 DEF Deactivate, Goto
  <2>2. CASE StopService(u)
    BY <2>2 DEF StopService, Unloaded, Goto
  <2>3. CASE Kill(u)
    BY <2>3 DEF Kill, Unloaded, Goto
  <2> QED
    BY <1>5, <2>1, <2>2, <2>3
<1>6. ASSUME NEW u \in Thread, LoadTarget(u)
      PROVE  Goal
  BY <1>6 DEF LoadTarget, Load, Start, Activate, Finish, Cleanup, Discard, LoadFailed, Goto
<1>7. ASSUME NEW u \in Thread, Answer(u) \/ Serve(u)
      PROVE  Goal
  BY <1>7 DEF Answer, Serve, EndRequest, RecoverBegin, RecoverEnd, EndThread, Goto
<1>8. ASSUME NEW r \in Request, Cancel(r)
      PROVE  Goal
  BY <1>8 DEF Cancel
<1>9. ASSUME NEW a \in Adapter, Crash(a)
      PROVE  Goal
  BY <1>9 DEF Crash
<1>10. CASE UNCHANGED vars
  BY <1>10 DEF vars
<1> QED
  BY <1>1, <1>2, <1>3, <1>4, <1>5, <1>6, <1>7, <1>8, <1>9, <1>10 DEF Next, Step, MakeRoom

(* The two ways a model comes to hold its resources. *)
LEMMA HoldingOrigin ==
  ASSUME TypeOK, OpShape, NoReports, Recoverable = {}, [Next]_vars,
         NEW n \in Model, n \in Holding', n \notin Holding
  PROVE  \E u \in Thread :
           \/ pc[u] = "load" /\ target[u] = n
           \/ pc[u] = "evict" /\ n \in todo[u] /\ subject'[u] = n /\ pc'[u] = "deactivate"
<1> SUFFICES ASSUME ~ \E u \in Thread :
                        \/ pc[u] = "load" /\ target[u] = n
                        \/ pc[u] = "evict" /\ n \in todo[u] /\ subject'[u] = n /\ pc'[u] = "deactivate"
             PROVE  FALSE
  OBVIOUS
<1>0. /\ state[n] \notin {"loading", "ready"}
      /\ \A u \in Thread : target[u] = n => pc[u] \notin Loading
      /\ \A u \in Thread : subject[u] = n => pc[u] # "deactivate"
  BY DEF Holding, Loading
<1> DEFINE Stays == /\ state'[n] \notin {"loading", "ready"}
                    /\ \A u \in Thread : target'[u] = n => pc'[u] \notin Loading
                    /\ \A u \in Thread : subject'[u] = n => pc'[u] # "deactivate"
<1>00. ~ Stays
  BY DEF Holding, Loading
<1> USE DEF TypeOK, Loading, backendVars, loopVars, requestVars, jobVars, dispatchVars
<1>1. ASSUME NEW u \in Thread, BeginOperation(u)
      PROVE  Stays
  <2>1. \E label \in {"snapshot", "check"}, m \in Model \cup {None} :
          target' = [target EXCEPT ![u] = m] /\ Goto(u, label)
    BY <1>1 DEF BeginOperation, BeginRequest, BeginSwitch, BeginUnload, BeginStatus, Begin
  <2>2. UNCHANGED <<state, subject>>
    BY <1>1 DEF BeginOperation, BeginRequest, BeginSwitch, BeginUnload, BeginStatus, Begin
  <2> QED
    BY <1>0, <2>1, <2>2 DEF Goto
<1>2. ASSUME NEW u \in Thread, Refresh(u)
      PROVE  Stays
  <2>1. CASE Snapshot(u) \/ Observe(u) \/ Observed(u)
    BY <1>0, <2>1 DEF Snapshot, Observe, Observed, Goto
  <2>2. CASE Apply(u)
    <3>1. subject[u] \in Model /\ reading[u] # "loaded"
      BY <2>2 DEF Apply, OpShape, NoReports
    <3>2. Applied(subject[u], reading[u]) \in {"unknown", "unloaded", state[subject[u]]}
      BY <3>1 DEF Applied
    <3>3. state'[n] \notin {"loading", "ready"}
      BY <1>0, <2>2, <3>1, <3>2 DEF Apply, SetState
    <3> QED
      BY <1>0, <2>2, <3>3, TopologyAssumption DEF Apply, Goto
  <2> QED
    BY <1>2, <2>1, <2>2 DEF Refresh
<1>3. ASSUME NEW u \in Thread, Lock(u)
      PROVE  Stays
  BY <1>0, <1>3 DEF Lock, EnterTransition, TimeOut, LeaveTransition, Goto
<1>4. ASSUME NEW u \in Thread, Decide(u)
      PROVE  Stays
  <2>1. \E label \in {"fail", "ok", "load", "probe"} : Goto(u, label)
    BY <1>4 DEF Decide
  <2>2. UNCHANGED <<state, target, subject>>
    BY <1>4 DEF Decide
  <2> QED
    BY <1>0, <2>1, <2>2 DEF Goto
<1>5. ASSUME NEW u \in Thread, Check(u) \/ Probe(u)
      PROVE  Stays
  BY <1>0, <1>5 DEF Check, Probe, Goto
<1>6. ASSUME NEW u \in Thread, Evict(u)
      PROVE  Stays
  <2>1. CASE pc'[u] = "deactivate"
    <3>1. /\ pc[u] = "evict" /\ subject'[u] \in todo[u]
          /\ state' = [state EXCEPT ![subject'[u]] = "unloading"]
          /\ subject' = [subject EXCEPT ![u] = subject'[u]]
          /\ Goto(u, "deactivate") /\ UNCHANGED target
      BY <1>6, <2>1 DEF Evict, SetState, Goto
    <3>2. subject'[u] # n
      BY <2>1, <3>1
    <3> QED
      BY <1>0, <3>1, <3>2 DEF Goto
  <2>2. CASE pc'[u] # "deactivate"
    BY <1>0, <1>6, <2>2 DEF Evict, Goto
  <2> QED
    BY <2>1, <2>2
<1>7. ASSUME NEW u \in Thread, Deactivate(u)
      PROVE  Stays
  <2>1. subject[u] # n /\ pc[u] = "deactivate"
    BY <1>0, <1>7 DEF Deactivate
  <2>2. state'[n] = state[n] /\ UNCHANGED target
    BY <1>7, <2>1 DEF Deactivate, SetState
  <2>3. /\ Goto(u, "stop") \/ Goto(u, "fail")
        /\ subject' \in {subject, [subject EXCEPT ![u] = None]}
    BY <1>7 DEF Deactivate
  <2> QED
    BY <1>0, <2>2, <2>3, TopologyAssumption DEF Goto
<1>8. ASSUME NEW u \in Thread, StopService(u) \/ Kill(u)
      PROVE  Stays
  <2>1. state' \in {state, [state EXCEPT ![subject[u]] = "unloaded"]} /\ UNCHANGED target
    BY <1>8 DEF StopService, Kill, Unloaded, SetState
  <2>2. /\ \E label \in {"kill", "evict", "ok", "decide", "fail"} : Goto(u, label)
        /\ subject' \in {subject, [subject EXCEPT ![u] = None]}
    BY <1>8 DEF StopService, Kill, Unloaded
  <2> QED
    BY <1>0, <2>1, <2>2, TopologyAssumption DEF Goto
<1>9. ASSUME NEW u \in Thread, LoadTarget(u)
      PROVE  Stays
  <2>1. /\ target[u] # n
        /\ \E label \in {"start", "activate", "finish", "cleanup", "discard", "fail", "ok"} : Goto(u, label)
           \/ UNCHANGED pc
    <3>1. CASE Load(u) \/ Start(u)
      BY <1>0, <3>1 DEF Load, Start, LoadFailed
    <3>2. CASE Activate(u)
      BY <1>0, <3>2 DEF Activate, LoadFailed
    <3>3. CASE Finish(u) \/ Cleanup(u) \/ Discard(u)
      BY <1>0, <3>3 DEF Finish, Cleanup, Discard
    <3> QED
      BY <1>9, <3>1, <3>2, <3>3 DEF LoadTarget
  <2>2. /\ state' \in {state} \cup {[state EXCEPT ![target[u]] = s] : s \in State}
        /\ UNCHANGED <<target, subject>>
    BY <1>9 DEF LoadTarget, Load, Start, Activate, Finish, Cleanup, Discard, LoadFailed, SetState, State
  <2>3. state'[n] = state[n]
    BY <2>1, <2>2
  <2>4. UNCHANGED target /\ UNCHANGED subject
    BY <2>2
  <2>5. \A v \in Thread : target[v] = n => pc'[v] = pc[v]
    BY <2>1 DEF Goto
  <2>6. \A v \in Thread : pc'[v] = "deactivate" => pc[v] = "deactivate"
    BY <2>1 DEF Goto
  <2> QED
    BY <1>0, <2>3, <2>4, <2>5, <2>6
<1>10. ASSUME NEW u \in Thread, Answer(u)
      PROVE  Stays
  <2>1. /\ Goto(u, "relay") \/ Goto(u, "lost") \/ Goto(u, "idle")
        /\ target' \in {target, [target EXCEPT ![u] = None]}
        /\ UNCHANGED <<state, subject>>
    BY <1>10 DEF Answer, EndThread
  <2> QED
    BY <1>0, <2>1, TopologyAssumption DEF Goto
<1>11. ASSUME NEW u \in Thread, Serve(u)
      PROVE  Stays
  <2>1. CASE EndRequest(u)
    BY <1>0, <2>1, TopologyAssumption DEF EndRequest, EndThread, Goto
  <2>2. ~ RecoverBegin(u)
    BY DEF RecoverBegin, CanRecover
  <2>3. ~ RecoverEnd(u)
    BY <1>11 DEF RecoverEnd, NoReports
  <2> QED
    BY <1>11, <2>1, <2>2, <2>3 DEF Serve
<1>12. ASSUME NEW r \in Request, Cancel(r)
      PROVE  Stays
  BY <1>0, <1>12 DEF Cancel
<1>13. ASSUME NEW a \in Adapter, Crash(a)
      PROVE  Stays
  BY <1>0, <1>13 DEF Crash
<1>14. CASE UNCHANGED vars
  BY <1>0, <1>00, <1>14 DEF vars
<1> QED
  BY <1>00, <1>1, <1>2, <1>3, <1>4, <1>5, <1>6, <1>7, <1>8, <1>9, <1>10, <1>11, <1>12, <1>13, <1>14 DEF Next, Step, MakeRoom

-----------------------------------------------------------------------------
(* What is free when there is no blocker. *)

LEMMA NobodyFirst ==
  ASSUME NEW S, S \subseteq Model, FirstOf(S, Cardinality(S)) = {}
  PROVE  S = {}
<1> SUFFICES ASSUME NEW x \in S
             PROVE  FALSE
  OBVIOUS
<1> DEFINE P == {k \in S : Before(k, x)}
<1>1. IsFiniteSet(S)
  BY TopologyAssumption, FS_Subset
<1>2. ~ Before(x, x)
  <2>1. NameRank[x] \in Nat /\ Weight(x) \in Nat
    BY TopologyAssumption DEF Weight
  <2> QED
    BY <2>1 DEF Before
<1>3. P \subseteq S \ {x}
  BY <1>2
<1>4. IsFiniteSet(S \ {x}) /\ Cardinality(S \ {x}) = Cardinality(S) - 1
  BY <1>1, FS_RemoveElement
<1>5. Cardinality(P) <= Cardinality(S \ {x})
  BY <1>3, <1>4, FS_Subset
<1>6. Cardinality(P) \in Nat /\ Cardinality(S) \in Nat
  BY <1>1, <1>3, <1>4, FS_Subset, FS_CardinalityType
<1>7. Cardinality(P) < Cardinality(S)
  BY <1>4, <1>5, <1>6
<1> QED
  BY <1>7 DEF FirstOf

LEMMA NoBlockers ==
  ASSUME TypeOK, NEW m \in Model, NEW n \in Model, Conflict(m, n), Blockers(m) = {}
  PROVE  state[n] \notin {"loading", "ready"}
<1> SUFFICES ASSUME state[n] \in {"loading", "ready"}
             PROVE  FALSE
  OBVIOUS
<1>1. m # n
  BY DEF Conflict
<1>2. CASE AdapterOf[m] = AdapterOf[n] /\ ~ NativeSafe(m, n) /\ ~ NativeSafe(n, m)
  <2>1. n \in AdapterBlockers(m)
    BY <1>1, <1>2 DEF AdapterBlockers, ModelsOn
  <2> QED
    BY <2>1 DEF Blockers
<1>3. ASSUME NEW g \in GroupsOf[m] \cap GroupsOf[n], Slots[g] = 1
      PROVE  FALSE
  <2>1. n \in Occupants(g, m)
    BY <1>1, <1>3 DEF Occupants
  <2>2. Occupants(g, m) \subseteq Model
    BY DEF Occupants
  <2>3. GroupBlockers(g, m) = {}
    BY <1>3 DEF Blockers
  <2>4. IsFiniteSet(Occupants(g, m))
    BY <2>2, TopologyAssumption, FS_Subset
  <2>5. Cardinality(Occupants(g, m)) + 1 - Slots[g] = Cardinality(Occupants(g, m))
    BY <1>3, <2>4, FS_CardinalityType
  <2>6. FirstOf(Occupants(g, m), Cardinality(Occupants(g, m))) = {}
    BY <2>3, <2>5 DEF GroupBlockers
  <2> QED
    BY <2>1, <2>2, <2>6, NobodyFirst
<1> QED
  BY <1>2, <1>3 DEF Conflict

-----------------------------------------------------------------------------
(* Two rivals are never worked on by two threads. *)

LEMMA GuardHeld ==
  ASSUME TypeOK, NEW t \in Thread, NEW b \in Model, NEW k \in Key,
         Keys(b) \cap TransitionKeys(t) # {}, Guards(k, b)
  PROVE  k \in TransitionKeys(t)
<1>1. CASE target[t] = None
  <2>1. k \in Keys(b)
    BY KeysType DEF Guards
  <2> QED
    BY <1>1, <2>1 DEF TransitionKeys
<1>2. CASE target[t] # None
  BY <1>2 DEF TransitionKeys, Guards, TypeOK
<1> QED
  BY <1>1, <1>2

LEMMA ConflictSymmetric ==
  ASSUME NEW m, NEW n, Conflict(m, n)
  PROVE  Conflict(n, m)
  BY DEF Conflict

LEMMA OneAtATime ==
  ASSUME TypeOK, OneLessee, ClosedTopology,
         NEW m \in Model, NEW n \in Model, Conflict(m, n),
         NEW t \in Thread, lease[t] = TransitionKeys(t), Keys(m) \cap TransitionKeys(t) # {},
         NEW u \in Thread, lease[u] = TransitionKeys(u), Keys(n) \cap TransitionKeys(u) # {}
  PROVE  t = u
<1>1. PICK k \in Key : Slots[k] = 1 /\ Guards(k, m) /\ Guards(k, n)
  BY DEF ClosedTopology
<1>2. k \in lease[t] /\ k \in lease[u]
  BY <1>1, GuardHeld
<1> QED
  BY <1>1, <1>2 DEF OneLessee

(* A thread that loads a model or has it on its list concerns it. *)
LEMMA TargetConcerns ==
  ASSUME TypeOK, NEW t \in Thread, target[t] \in Model
  PROVE  Keys(target[t]) \cap TransitionKeys(t) # {}
  BY KeysType, TopologyAssumption DEF TransitionKeys

(* A model that comes to hold its resources is the work of the one thread
   that has the locks of its rivals. *)
LEMMA Newcomer ==
  ASSUME ExclusiveInv, ClosedTopology, Recoverable = {}, [Next]_vars,
         NEW m \in Model, NEW n \in Model, Conflict(m, n),
         n \in Holding', n \notin Holding,
         NEW t \in Thread, lease[t] = TransitionKeys(t), Keys(m) \cap TransitionKeys(t) # {}
  PROVE  \/ pc[t] = "load" /\ target[t] = n
         \/ pc[t] = "evict" /\ n \in todo[t] /\ subject'[t] = n /\ pc'[t] = "deactivate"
<1> USE DEF ExclusiveInv
<1>1. PICK u \in Thread :
        \/ pc[u] = "load" /\ target[u] = n
        \/ pc[u] = "evict" /\ n \in todo[u] /\ subject'[u] = n /\ pc'[u] = "deactivate"
  BY HoldingOrigin
<1>2. lease[u] = TransitionKeys(u)
  BY <1>1 DEF LeasesWhole, Locked
<1>3. Keys(n) \cap TransitionKeys(u) # {}
  BY <1>1, TargetConcerns DEF EvictsOwn, MakingRoom
<1>4. u = t
  BY <1>2, <1>3, OneAtATime
<1> QED
  BY <1>1, <1>4

-----------------------------------------------------------------------------
(* The invariant is inductive. *)

LEMMA NoReportsStep ==
  ASSUME TypeOK, NoReports, StateProbe = {}, Recoverable = {}, [Next]_vars
  PROVE  NoReports'
<1> USE DEF TypeOK, NoReports, backendVars, loopVars, requestVars, jobVars, dispatchVars
<1>1. ASSUME NEW t \in Thread, BeginOperation(t)
      PROVE  NoReports'
  BY <1>1 DEF BeginOperation, BeginRequest, BeginSwitch, BeginUnload, BeginStatus, Begin, Goto
<1>2. ASSUME NEW t \in Thread, Refresh(t)
      PROVE  NoReports'
  BY <1>2 DEF Refresh, Snapshot, Observe, Readings, Apply, Observed, Goto
<1>3. ASSUME NEW t \in Thread, Lock(t)
      PROVE  NoReports'
  BY <1>3 DEF Lock, EnterTransition, TimeOut, LeaveTransition, Goto
<1>4. ASSUME NEW t \in Thread, MakeRoom(t)
      PROVE  NoReports'
  <2>1. UNCHANGED reading
    BY <1>4 DEF MakeRoom, Decide, Check, Probe, Evict, Deactivate, StopService, Kill
  <2>2. \E label \in Label \ {"recover"} : Goto(t, label)
    BY <1>4 DEF MakeRoom, Decide, Check, Probe, Evict, Deactivate, StopService, Kill, Unloaded, Label
  <2> QED
    BY <2>1, <2>2 DEF Goto
<1>5. ASSUME NEW t \in Thread, LoadTarget(t)
      PROVE  NoReports'
  <2>1. UNCHANGED reading
    BY <1>5 DEF LoadTarget, Load, Start, Activate, Finish, Cleanup, Discard
  <2>2. UNCHANGED pc \/ \E label \in Label \ {"recover"} : Goto(t, label)
    BY <1>5 DEF LoadTarget, Load, Start, Activate, Finish, Cleanup, Discard, LoadFailed, Label
  <2> QED
    BY <2>1, <2>2 DEF Goto
<1>6. ASSUME NEW t \in Thread, Answer(t)
      PROVE  NoReports'
  BY <1>6 DEF Answer, EndThread, Goto
<1>7. ASSUME NEW t \in Thread, Serve(t)
      PROVE  NoReports'
  BY <1>7 DEF Serve, EndRequest, RecoverBegin, RecoverEnd, CanRecover, EndThread, Goto
<1>8. ASSUME NEW r \in Request, Cancel(r)
      PROVE  NoReports'
  BY <1>8 DEF Cancel
<1>9. ASSUME NEW a \in Adapter, Crash(a)
      PROVE  NoReports'
  BY <1>9 DEF Crash
<1>10. CASE UNCHANGED vars
  BY <1>10 DEF vars
<1> QED
  BY <1>1, <1>2, <1>3, <1>4, <1>5, <1>6, <1>7, <1>8, <1>9, <1>10 DEF Next, Step

LEMMA EvictsOwnStep ==
  ASSUME TypeOK, OpShape, EvictsOwn, [Next]_vars
  PROVE  EvictsOwn'
<1>1. ASSUME NEW t \in Thread, pc'[t] \in MakingRoom, NEW b \in todo'[t]
      PROVE  Keys(b) \cap TransitionKeys(t)' # {}
  <2>1. target'[t] = target[t] /\ Keys(b) \cap TransitionKeys(t) # {}
    BY <1>1, RoomOrigin DEF EvictsOwn
  <2> QED
    BY <2>1 DEF TransitionKeys
<1>2. ASSUME NEW t \in Thread, pc'[t] \in {"deactivate", "stop", "kill"}
      PROVE  Keys(subject'[t]) \cap TransitionKeys(t)' # {}
  <2>1. target'[t] = target[t] /\ Keys(subject'[t]) \cap TransitionKeys(t) # {}
    BY <1>2, SubjectOrigin DEF EvictsOwn, MakingRoom
  <2> QED
    BY <2>1 DEF TransitionKeys
<1> QED
  BY <1>1, <1>2 DEF EvictsOwn

LEMMA RivalsApartStep ==
  ASSUME ExclusiveInv, ClosedTopology, Recoverable = {}, [Next]_vars
  PROVE  RivalsApart'
<1> USE DEF ExclusiveInv
<1>1. SUFFICES ASSUME NEW m \in Model, NEW n \in Model, Conflict(m, n),
                      m \in Holding', n \in Holding'
               PROVE  FALSE
  BY DEF RivalsApart
<1>2. Conflict(n, m) /\ m # n
  <2>1. Conflict(n, m)
    BY <1>1, ConflictSymmetric
  <2> QED
    BY <1>1, <2>1 DEF Conflict
<1>3. ASSUME NEW x \in Model, NEW y \in Model, Conflict(x, y),
             x \in Holding', x \notin Holding, y \in Holding
      PROVE  FALSE
  <2>1. PICK u \in Thread :
          \/ pc[u] = "load" /\ target[u] = x
          \/ pc[u] = "evict" /\ x \in todo[u]
    BY <1>3, HoldingOrigin
  <2> QED
    BY <1>3, <2>1 DEF RoomKept, VictimsApart, MakingRoom
<1>4. CASE m \in Holding /\ n \in Holding
  BY <1>4, <1>1 DEF RivalsApart
<1>5. CASE m \notin Holding /\ n \notin Holding
  <2>1. PICK u \in Thread :
          \/ pc[u] = "load" /\ target[u] = m
          \/ pc[u] = "evict" /\ m \in todo[u] /\ subject'[u] = m /\ pc'[u] = "deactivate"
    BY <1>1, <1>5, HoldingOrigin
  <2>2. lease[u] = TransitionKeys(u)
    BY <2>1 DEF LeasesWhole, Locked
  <2>3. Keys(m) \cap TransitionKeys(u) # {}
    BY <2>1, TargetConcerns DEF EvictsOwn, MakingRoom
  <2>4. \/ pc[u] = "load" /\ target[u] = n
        \/ pc[u] = "evict" /\ n \in todo[u] /\ subject'[u] = n /\ pc'[u] = "deactivate"
    BY <1>1, <1>5, <2>2, <2>3, Newcomer
  <2> QED
    BY <1>2, <2>1, <2>4
<1> QED
  BY <1>1, <1>2, <1>3, <1>4, <1>5

LEMMA RoomKeptStep ==
  ASSUME ExclusiveInv, ClosedTopology, Recoverable = {}, [Next]_vars
  PROVE  RoomKept'
<1> USE DEF ExclusiveInv
<1>1. SUFFICES ASSUME NEW t \in Thread, pc'[t] = "load", NEW n \in Model,
                      Conflict(target'[t], n), n \in Holding'
               PROVE  FALSE
  BY DEF RoomKept
<1>2. CASE pc[t] = "load" /\ target'[t] = target[t]
  <2>1. target[t] \in Model /\ lease[t] = TransitionKeys(t)
    BY <1>2 DEF OpShape, LeasesWhole, Locked
  <2>2. n \notin Holding
    BY <1>1, <1>2 DEF RoomKept
  <2>3. target[t] = n
    BY <1>1, <1>2, <2>1, <2>2, TargetConcerns, Newcomer
  <2> QED
    BY <1>1, <1>2, <2>3 DEF Conflict
<1>3. CASE Decide(t) /\ Blockers(target[t]) = {}
  <2>1. pc[t] = "decide" /\ lease[t] # {} /\ target'[t] = target[t]
    BY <1>3 DEF Decide, jobVars
  <2>2. /\ target[t] \in Model
        /\ lease[t] = TransitionKeys(t)
        /\ Keys(target[t]) \cap TransitionKeys(t) # {}
    BY <2>1, TargetConcerns DEF OpShape, LeasesWhole
  <2>3. state[n] \notin {"loading", "ready"}
    BY <1>1, <1>3, <2>1, <2>2, NoBlockers
  <2>4. ASSUME NEW u \in Thread, target[u] = n /\ pc[u] \in Loading
        PROVE  FALSE
    <3>1. lease[u] = TransitionKeys(u)
      BY <2>4 DEF LeasesWhole, Locked, Loading
    <3>2. Keys(n) \cap TransitionKeys(u) # {}
      BY <2>4, TargetConcerns
    <3>3. t = u
      BY <1>1, <2>1, <2>2, <3>1, <3>2, OneAtATime
    <3> QED
      BY <2>1, <2>4, <3>3 DEF Loading
  <2>5. ASSUME NEW u \in Thread, subject[u] = n /\ pc[u] = "deactivate"
        PROVE  FALSE
    <3>1. lease[u] = TransitionKeys(u)
      BY <2>5 DEF LeasesWhole, Locked
    <3>2. Keys(n) \cap TransitionKeys(u) # {}
      BY <2>5 DEF EvictsOwn
    <3>3. t = u
      BY <1>1, <2>1, <2>2, <3>1, <3>2, OneAtATime
    <3> QED
      BY <2>1, <2>5, <3>3
  <2>6. n \notin Holding
    BY <2>3, <2>4, <2>5 DEF Holding, Loading
  <2>7. pc[t] \in {"load", "evict"}
    BY <1>1, <2>1, <2>2, <2>6, Newcomer
  <2> QED
    BY <2>1, <2>7
<1> QED
  BY <1>1, <1>2, <1>3, LoadOrigin

LEMMA VictimsApartStep ==
  ASSUME ExclusiveInv, ClosedTopology, Recoverable = {}, [Next]_vars
  PROVE  VictimsApart'
<1> USE DEF ExclusiveInv
<1>1. SUFFICES ASSUME NEW t \in Thread, pc'[t] \in MakingRoom,
                      NEW b \in todo'[t], NEW n \in Model, Conflict(b, n)
               PROVE  n \notin Holding' /\ n \notin todo'[t]
  BY DEF VictimsApart
<1>2. b \in Model
  BY <1>1, TypeStep DEF TypeOK
<1>3. CASE pc[t] \in MakingRoom /\ todo'[t] \subseteq todo[t]
  <2>1. b \in todo[t] /\ n \notin Holding /\ n \notin todo[t]
    BY <1>1, <1>3 DEF VictimsApart
  <2>2. lease[t] = TransitionKeys(t) /\ Keys(b) \cap TransitionKeys(t) # {}
    BY <1>3, <2>1 DEF LeasesWhole, Locked, MakingRoom, EvictsOwn
  <2>3. n \notin Holding'
    <3>1. ASSUME n \in Holding'
          PROVE  FALSE
      <4>1. pc[t] = "load" \/ n \in todo[t]
        BY <1>1, <1>2, <2>1, <2>2, <3>1, Newcomer
      <4> QED
        BY <1>3, <2>1, <4>1 DEF MakingRoom
    <3> QED
      BY <3>1
  <2> QED
    BY <1>3, <2>1, <2>3
<1>4. CASE /\ pc[t] \in {"decide", "check"} /\ lease[t] # {}
           /\ \A x \in todo'[t] : state[x] = "ready" /\ Keys(x) \cap TransitionKeys(t) # {}
  <2>1. lease[t] = TransitionKeys(t) /\ Keys(b) \cap TransitionKeys(t) # {}
    BY <1>1, <1>4 DEF LeasesWhole
  <2>2. b \in Holding
    BY <1>1, <1>2, <1>4 DEF Holding
  <2>3. n \notin Holding
    BY <1>1, <1>2, <2>2 DEF RivalsApart
  <2>4. n \notin todo'[t]
    BY <1>4, <2>3 DEF Holding
  <2>5. n \notin Holding'
    <3>1. ASSUME n \in Holding'
          PROVE  FALSE
      <4>1. pc[t] \in {"load", "evict"}
        BY <1>1, <1>2, <2>1, <2>3, <3>1, Newcomer
      <4> QED
        BY <1>4, <4>1
    <3> QED
      BY <3>1
  <2> QED
    BY <2>4, <2>5
<1> QED
  BY <1>1, <1>3, <1>4, RoomOrigin

LEMMA ExclusiveInvariance ==
  ASSUME ClosedTopology, StateProbe = {}, Recoverable = {}
  PROVE  Spec => []ExclusiveInv
<1>1. Init => ExclusiveInv
  <2> SUFFICES ASSUME Init
               PROVE  ExclusiveInv
    OBVIOUS
  <2>1. TypeOK
    BY TypeInit
  <2>2. /\ lease = [t \in Thread |-> {}]
        /\ state = [m \in Model |-> "unloaded"]
        /\ pc = [t \in Thread |-> "idle"]
        /\ op = [t \in Thread |-> "none"]
        /\ reading = [t \in Thread |-> "none"]
    BY DEF Init, LeaseInit
  <2>3. OneLessee /\ LeasesWhole /\ OpShape /\ NoReports /\ EvictsOwn
    BY <2>2 DEF OneLessee, LeasesWhole, OpShape, NoReports, EvictsOwn, Locked, Loading, MakingRoom
  <2>4. Holding = {}
    BY <2>2 DEF Holding
  <2>5. RivalsApart /\ RoomKept /\ VictimsApart
    BY <2>2, <2>4 DEF RivalsApart, RoomKept, VictimsApart, MakingRoom
  <2> QED
    BY <2>1, <2>3, <2>5 DEF ExclusiveInv
<1>2. ExclusiveInv /\ [Next]_vars => ExclusiveInv'
  <2> SUFFICES ASSUME ExclusiveInv, [Next]_vars
               PROVE  ExclusiveInv'
    OBVIOUS
  <2>1. TypeOK' /\ OpShape' /\ LeasesWhole'
    BY TypeStep, OpShapeStep, LeasesWholeStep DEF ExclusiveInv
  <2>2. OneLessee'
    BY LeaseStep, OneLesseeStep DEF ExclusiveInv
  <2>3. NoReports' /\ EvictsOwn'
    BY NoReportsStep, EvictsOwnStep DEF ExclusiveInv
  <2>4. RivalsApart' /\ RoomKept' /\ VictimsApart'
    BY RivalsApartStep, RoomKeptStep, VictimsApartStep
  <2> QED
    BY <2>1, <2>2, <2>3, <2>4 DEF ExclusiveInv
<1> QED
  BY <1>1, <1>2, PTL DEF Spec

(* Two conflicting models are never both loading or ready. *)
THEOREM AlwaysExclusive ==
  ASSUME ClosedTopology, StateProbe = {}, Recoverable = {}
  PROVE  Spec => []Exclusive
<1>1. ExclusiveInv => Exclusive
  BY DEF ExclusiveInv, RivalsApart, Holding, Exclusive
<1> QED
  BY <1>1, ExclusiveInvariance, PTL

(* Whenever two models share a key of one slot, one such key is had by every
   model that overlaps either of them.  With a model and itself for the pair,
   this leaves out a group of a larger capacity over several adapters: an
   unload of a model and a switch that evicts it, each with a slot of the
   group, may both work on it. *)
SerialTopology ==
  \A m, n \in Model :
    (\E k \in Keys(m) \cap Keys(n) : Slots[k] = 1) =>
      \E k \in Key : Slots[k] = 1 /\ Guards(k, m) /\ Guards(k, n)

(* Serial topologies are closed. *)
LEMMA SerialIsClosed == SerialTopology => ClosedTopology
<1> SUFFICES ASSUME SerialTopology, NEW m \in Model, NEW n \in Model, Conflict(m, n)
             PROVE  \E k \in Keys(m) \cap Keys(n) : Slots[k] = 1
  BY DEF SerialTopology, ClosedTopology
<1> QED BY KeysAssumption, TopologyAssumption DEF Conflict, Keys

(* Who works on a model has all its locks, one of which the model needs too. *)
LEMMA WorkerHolds ==
  ASSUME ExclusiveInv, NEW t \in Thread, NEW m \in Model, WorksOn(t, m)
  PROVE  lease[t] = TransitionKeys(t) /\ Keys(m) \cap TransitionKeys(t) # {}
<1> USE DEF ExclusiveInv
<1>1. CASE target[t] = m /\ pc[t] \in {"start", "activate", "finish", "cleanup", "discard", "recover"}
  <2>1. pc[t] \in Locked
    BY <1>1 DEF NoReports, Locked
  <2> QED BY <1>1, <2>1, TargetConcerns DEF LeasesWhole
<1>2. CASE subject[t] = m /\ pc[t] \in {"deactivate", "stop", "kill"}
  BY <1>2 DEF LeasesWhole, EvictsOwn, Locked, MakingRoom
<1> QED BY <1>1, <1>2 DEF WorksOn

(* Two threads never run lifecycle calls for models of one adapter or of one
   group of capacity 1 at the same time. *)
THEOREM ActionsAlwaysSerialized ==
  ASSUME SerialTopology, StateProbe = {}, Recoverable = {}
  PROVE  Spec => []ActionsSerialized
<1>1. ClosedTopology
  BY SerialIsClosed
<1>2. ExclusiveInv => ActionsSerialized
  <2> SUFFICES ASSUME ExclusiveInv, NEW t \in Thread, NEW u \in Thread, NEW m \in Model, NEW n \in Model,
                      WorksOn(t, m), WorksOn(u, n), \E k \in Keys(m) \cap Keys(n) : Slots[k] = 1
               PROVE  t = u
    BY DEF ActionsSerialized
  <2>1. PICK k \in Key : Slots[k] = 1 /\ Guards(k, m) /\ Guards(k, n)
    BY DEF SerialTopology
  <2>2. k \in lease[t] /\ k \in lease[u]
    BY <2>1, WorkerHolds, GuardHeld DEF ExclusiveInv
  <2> QED BY <2>1, <2>2 DEF ExclusiveInv, OneLessee
<1> QED BY <1>1, <1>2, ExclusiveInvariance, PTL

-----------------------------------------------------------------------------
(* Transient states have owners. *)

LoadOwner(t, m) == target[t] = m /\ pc[t] \in {"start", "activate", "finish", "recover"}

UnloadOwner(t, m) ==
  \/ subject[t] = m /\ pc[t] \in {"deactivate", "stop", "kill"}
  \/ target[t] = m /\ pc[t] \in {"cleanup", "discard"}

(* Of a step of a thread u: what other threads own stays theirs. *)
Aside(u) ==
  \A t \in Thread \ {u} : pc'[t] = pc[t] /\ target'[t] = target[t] /\ subject'[t] = subject[t]

LEMMA StepsAside ==
  ASSUME TypeOK, NEW u \in Thread, BeginOperation(u) \/ Step(u)
  PROVE  Aside(u)
<1> USE DEF TypeOK, Aside, backendVars, loopVars, requestVars, jobVars, dispatchVars
<1>1. CASE BeginOperation(u)
  <2>1. \E label \in {"snapshot", "check"}, m \in Model \cup {None} :
          target' = [target EXCEPT ![u] = m] /\ Goto(u, label)
    BY <1>1 DEF BeginOperation, BeginRequest, BeginSwitch, BeginUnload, BeginStatus, Begin
  <2>2. UNCHANGED subject
    BY <1>1 DEF BeginOperation, BeginRequest, BeginSwitch, BeginUnload, BeginStatus, Begin
  <2> QED
    BY <2>1, <2>2 DEF Goto
<1>2. CASE Refresh(u)
  BY <1>2 DEF Refresh, Snapshot, Observe, Apply, Observed, Goto
<1>3. CASE Lock(u)
  BY <1>3 DEF Lock, EnterTransition, TimeOut, LeaveTransition, Goto
<1>4. CASE MakeRoom(u)
  <2>1. UNCHANGED target
    BY <1>4 DEF MakeRoom, Decide, Check, Probe, Evict, Deactivate, StopService, Kill
  <2>2. \E label \in Label : Goto(u, label)
    BY <1>4 DEF MakeRoom, Decide, Check, Probe, Evict, Deactivate, StopService, Kill, Unloaded, Label
  <2>3. subject' = subject \/ \E b \in Model \cup {None} : subject' = [subject EXCEPT ![u] = b]
    BY <1>4 DEF MakeRoom, Decide, Check, Probe, Evict, Deactivate, StopService, Kill, Unloaded
  <2> QED
    BY <2>1, <2>2, <2>3 DEF Goto
<1>5. CASE LoadTarget(u)
  <2>1. UNCHANGED <<target, subject>>
    BY <1>5 DEF LoadTarget, Load, Start, Activate, Finish, Cleanup, Discard
  <2>2. UNCHANGED pc \/ \E label \in Label : Goto(u, label)
    BY <1>5 DEF LoadTarget, Load, Start, Activate, Finish, Cleanup, Discard, LoadFailed, Label
  <2> QED
    BY <2>1, <2>2 DEF Goto
<1>6. CASE Answer(u)
  BY <1>6 DEF Answer, EndThread, Goto
<1>7. CASE Serve(u)
  <2>1. CASE EndRequest(u)
    BY <2>1 DEF EndRequest, EndThread, Goto
  <2>2. CASE RecoverBegin(u) \/ RecoverEnd(u)
    BY <2>2 DEF RecoverBegin, RecoverEnd, Goto
  <2> QED
    BY <1>7, <2>1, <2>2 DEF Serve
<1> QED
  BY <1>1, <1>2, <1>3, <1>4, <1>5, <1>6, <1>7 DEF Step

(* A thread that enters "loading" for a model owns it, and one that gives the
   model up has ended the state. *)
LEMMA LoadingChanges ==
  ASSUME TypeOK, OpShape, NEW u \in Thread, BeginOperation(u) \/ Step(u),
         NEW m \in Model, state'[m] = "loading",
         state[m] # "loading" \/ LoadOwner(u, m)
  PROVE  LoadOwner(u, m)'
<1> USE DEF TypeOK, LoadOwner, State, backendVars, loopVars, requestVars, jobVars, dispatchVars
<1>1. CASE BeginOperation(u)
  BY <1>1 DEF BeginOperation, BeginRequest, BeginSwitch, BeginUnload, BeginStatus, Begin
<1>2. CASE Snapshot(u) \/ Observe(u) \/ Observed(u) \/ Lock(u)
  BY <1>2 DEF Snapshot, Observe, Observed, Lock, EnterTransition, TimeOut, LeaveTransition
<1>3. CASE Apply(u)
  <2>1. subject[u] \in Model /\ pc[u] = "apply"
    BY <1>3 DEF Apply, OpShape
  <2>2. Applied(subject[u], reading[u]) \in {"unknown", "unloaded", "ready", state[subject[u]]}
    BY <2>1 DEF Applied
  <2> QED
    BY <1>3, <2>1, <2>2 DEF Apply, SetState
<1>4. CASE MakeRoom(u)
  <2>1. \/ UNCHANGED state
        \/ \E b \in Model \cup {None}, s \in {"unloading", "ready", "unloaded"} : SetState(b, s)
    BY <1>4 DEF MakeRoom, Decide, Check, Probe, Evict, Deactivate, StopService, Kill, Unloaded
  <2>2. pc[u] \notin {"start", "activate", "finish", "recover"}
    BY <1>4 DEF MakeRoom, Decide, Check, Probe, Evict, Deactivate, StopService, Kill
  <2> QED
    BY <2>1, <2>2 DEF SetState
<1>5. CASE Load(u)
  BY <1>5 DEF Load, SetState, Goto
<1>6. CASE Start(u)
  BY <1>6 DEF Start, LoadFailed, SetState, Goto
<1>7. CASE Activate(u)
  BY <1>7 DEF Activate, LoadFailed, SetState, Goto
<1>8. CASE Finish(u) \/ Cleanup(u) \/ Discard(u)
  BY <1>8 DEF Finish, Cleanup, Discard, SetState
<1>9. CASE Answer(u)
  BY <1>9 DEF Answer
<1>10. CASE Serve(u)
  BY <1>10 DEF Serve, EndRequest, RecoverBegin, RecoverEnd, SetState, Goto
<1> QED
  BY <1>1, <1>2, <1>3, <1>4, <1>5, <1>6, <1>7, <1>8, <1>9, <1>10 DEF Step, Refresh, LoadTarget

LEMMA LoadingHasOwnerStep ==
  TypeOK /\ OpShape /\ LoadingHasOwner /\ [Next]_vars => LoadingHasOwner'
<1> SUFFICES ASSUME TypeOK, OpShape, LoadingHasOwner, [Next]_vars,
                    NEW m \in Model, state'[m] = "loading"
             PROVE  \E t \in Thread : LoadOwner(t, m)'
  BY DEF LoadingHasOwner, LoadOwner
<1>1. ASSUME state[m] = "loading"
      PROVE  \E t \in Thread : LoadOwner(t, m)
  BY <1>1 DEF LoadingHasOwner, LoadOwner
<1>2. ASSUME NEW u \in Thread, BeginOperation(u) \/ Step(u)
      PROVE  \E t \in Thread : LoadOwner(t, m)'
  <2>1. CASE state[m] # "loading" \/ LoadOwner(u, m)
    BY <1>2, <2>1, LoadingChanges
  <2>2. CASE state[m] = "loading" /\ ~ LoadOwner(u, m)
    <3>1. PICK t \in Thread : LoadOwner(t, m)
      BY <1>1, <2>2
    <3>2. LoadOwner(t, m)'
      BY <1>2, <2>2, <3>1, StepsAside DEF Aside, LoadOwner
    <3> QED
      BY <3>2
  <2> QED
    BY <2>1, <2>2
<1>3. CASE \/ \E r \in Request : Cancel(r)
           \/ \E a \in Adapter : Crash(a)
           \/ UNCHANGED vars
  <2>1. UNCHANGED <<state, pc, target>>
    BY <1>3 DEF Cancel, Crash, vars, dispatchVars, jobVars, loopVars, requestVars, backendVars
  <2> QED
    BY <1>1, <2>1 DEF LoadOwner
<1> QED
  BY <1>2, <1>3 DEF Next

(* A model is "loading" only while a thread loads it, with any faults. *)
THEOREM LoadingNeverAbandoned == Spec => []LoadingHasOwner
<1>1. Init => LoadingHasOwner
  BY DEF Init, LoadingHasOwner
<1>2. TypeOK /\ OpShape /\ LoadingHasOwner /\ [Next]_vars => LoadingHasOwner'
  BY LoadingHasOwnerStep
<1> QED
  BY <1>1, <1>2, Shaped, PTL DEF Spec

LEMMA UnloadingChanges ==
  ASSUME TypeOK, OpShape, "stop" \notin Faults,
         NEW u \in Thread, BeginOperation(u) \/ Step(u),
         NEW m \in Model, state'[m] = "unloading",
         state[m] # "unloading" \/ UnloadOwner(u, m)
  PROVE  UnloadOwner(u, m)'
<1> USE DEF TypeOK, UnloadOwner, State, backendVars, loopVars, requestVars, jobVars, dispatchVars
<1>1. CASE BeginOperation(u)
  BY <1>1 DEF BeginOperation, BeginRequest, BeginSwitch, BeginUnload, BeginStatus, Begin
<1>2. CASE Snapshot(u) \/ Observe(u) \/ Observed(u) \/ Lock(u)
  BY <1>2 DEF Snapshot, Observe, Observed, Lock, EnterTransition, TimeOut, LeaveTransition
<1>3. CASE Apply(u)
  <2>1. subject[u] \in Model /\ pc[u] = "apply"
    BY <1>3 DEF Apply, OpShape
  <2>2. Applied(subject[u], reading[u]) \in {"unknown", "unloaded", "ready", state[subject[u]]}
    BY <2>1 DEF Applied
  <2> QED
    BY <1>3, <2>1, <2>2 DEF Apply, SetState
<1>4. CASE Decide(u) \/ Check(u) \/ Probe(u)
  BY <1>4 DEF Decide, Check, Probe
<1>5. CASE Evict(u)
  BY <1>5 DEF Evict, SetState, Goto
<1>6. CASE Deactivate(u)
  <2>1. subject[u] \in Model /\ pc[u] = "deactivate"
    BY <1>6 DEF Deactivate, OpShape
  <2> QED
    BY <1>6, <2>1 DEF Deactivate, SetState, Goto
<1>7. CASE StopService(u) \/ Kill(u)
  <2>1. subject[u] \in Model /\ pc[u] \in {"stop", "kill"}
    BY <1>7 DEF StopService, Kill, OpShape
  <2>2. CASE StopService(u)
    BY <2>1, <2>2 DEF StopService, Unloaded, SetState, Goto
  <2>3. CASE Kill(u)
    BY <2>1, <2>3 DEF Kill, Unloaded, SetState
  <2> QED
    BY <1>7, <2>2, <2>3
<1>8. CASE Load(u) \/ Start(u)
  BY <1>8 DEF Load, Start, LoadFailed, SetState
<1>9. CASE Activate(u)
  BY <1>9 DEF Activate, LoadFailed, SetState
<1>10. CASE Finish(u) \/ Cleanup(u) \/ Discard(u)
  BY <1>10 DEF Finish, Cleanup, Discard, SetState, Goto
<1>11. CASE Answer(u)
  BY <1>11 DEF Answer
<1>12. CASE Serve(u)
  BY <1>12 DEF Serve, EndRequest, RecoverBegin, RecoverEnd, SetState
<1> QED
  BY <1>1, <1>2, <1>3, <1>4, <1>5, <1>6, <1>7, <1>8, <1>9, <1>10, <1>11, <1>12 DEF Step, Refresh, MakeRoom, LoadTarget

LEMMA TransientsHaveOwnerStep ==
  ASSUME "stop" \notin Faults
  PROVE  TypeOK /\ OpShape /\ TransientsHaveOwner /\ [Next]_vars => TransientsHaveOwner'
<1> SUFFICES ASSUME TypeOK, OpShape, TransientsHaveOwner, [Next]_vars,
                    NEW m \in Model, state'[m] = "unloading"
             PROVE  \E t \in Thread : UnloadOwner(t, m)'
  BY LoadingHasOwnerStep DEF TransientsHaveOwner, UnloadingHasOwner, UnloadOwner
<1>1. ASSUME state[m] = "unloading"
      PROVE  \E t \in Thread : UnloadOwner(t, m)
  BY <1>1 DEF TransientsHaveOwner, UnloadingHasOwner, UnloadOwner
<1>2. ASSUME NEW u \in Thread, BeginOperation(u) \/ Step(u)
      PROVE  \E t \in Thread : UnloadOwner(t, m)'
  <2>1. CASE state[m] # "unloading" \/ UnloadOwner(u, m)
    BY <1>2, <2>1, UnloadingChanges
  <2>2. CASE state[m] = "unloading" /\ ~ UnloadOwner(u, m)
    <3>1. PICK t \in Thread : UnloadOwner(t, m)
      BY <1>1, <2>2
    <3>2. UnloadOwner(t, m)'
      BY <1>2, <2>2, <3>1, StepsAside DEF Aside, UnloadOwner
    <3> QED
      BY <3>2
  <2> QED
    BY <2>1, <2>2
<1>3. CASE \/ \E r \in Request : Cancel(r)
           \/ \E a \in Adapter : Crash(a)
           \/ UNCHANGED vars
  <2>1. UNCHANGED <<state, pc, target, subject>>
    BY <1>3 DEF Cancel, Crash, vars, dispatchVars, jobVars, loopVars, requestVars, backendVars
  <2> QED
    BY <1>1, <2>1 DEF UnloadOwner
<1> QED
  BY <1>2, <1>3 DEF Next

(* As long as a server can be stopped, every transient state has an owner. *)
THEOREM TransientsNeverAbandoned ==
  ASSUME "stop" \notin Faults
  PROVE  Spec => []TransientsHaveOwner
<1>1. Init => TransientsHaveOwner
  BY DEF Init, TransientsHaveOwner, UnloadingHasOwner, LoadingHasOwner
<1>2. TypeOK /\ OpShape /\ TransientsHaveOwner /\ [Next]_vars => TransientsHaveOwner'
  BY TransientsHaveOwnerStep
<1> QED
  BY <1>1, <1>2, Shaped, PTL DEF Spec

-----------------------------------------------------------------------------
(* Servers of others are left alone. *)

RecoversOwn ==
  \A t \in Thread : pc[t] = "recover" => proc[AdapterOf[target[t]]] # "foreign"

LEMMA ForeignStays ==
  ASSUME TypeOK, OpShape, RecoversOwn, [Next]_vars, NEW a \in Adapter
  PROVE  proc[a] = "foreign" <=> proc'[a] = "foreign"
<1> USE DEF TypeOK, backendVars, loopVars, requestVars, jobVars, dispatchVars
<1>1. ASSUME NEW t \in Thread, BeginOperation(t) \/ Refresh(t) \/ Lock(t)
      PROVE  UNCHANGED proc
  BY <1>1 DEF BeginOperation, BeginRequest, BeginSwitch, BeginUnload, BeginStatus, Begin, Refresh, Snapshot, Observe, Apply, Observed, Lock, EnterTransition, TimeOut, LeaveTransition
<1>2. ASSUME NEW t \in Thread,
             Decide(t) \/ Check(t) \/ Probe(t) \/ Evict(t) \/ Deactivate(t) \/ StopService(t)
      PROVE  UNCHANGED proc
  BY <1>2 DEF Decide, Check, Probe, Evict, Deactivate, StopService
<1>3. ASSUME NEW t \in Thread, Kill(t) \/ Discard(t)
      PROVE  proc[a] = "foreign" <=> proc'[a] = "foreign"
  <2>1. UNCHANGED proc \/ \E b \in Adapter : StopServer(b)
    <3>1. AdapterOf[target[t]] \in Adapter \/ target[t] = None
      BY TopologyAssumption
    <3>2. CASE Kill(t)
      BY <3>2, TopologyAssumption DEF Kill, OpShape
    <3>3. CASE Discard(t)
      BY <3>3, TopologyAssumption DEF Discard, OpShape, Loading
    <3> QED
      BY <1>3, <3>2, <3>3
  <2> QED
    BY <2>1 DEF StopServer
<1>4. ASSUME NEW t \in Thread, Load(t) \/ Finish(t) \/ Cleanup(t)
      PROVE  UNCHANGED proc
  BY <1>4 DEF Load, Finish, Cleanup
<1>5. ASSUME NEW t \in Thread, Start(t)
      PROVE  proc[a] = "foreign" <=> proc'[a] = "foreign"
  BY <1>5 DEF Start, Launched, StartFailed
<1>6. ASSUME NEW t \in Thread, Activate(t)
      PROVE  proc[a] = "foreign" <=> proc'[a] = "foreign"
  BY <1>6 DEF Activate, MayRetry, CanRecover, Launched, StartFailed
<1>7. ASSUME NEW t \in Thread, Answer(t)
      PROVE  UNCHANGED proc
  BY <1>7 DEF Answer
<1>8. ASSUME NEW t \in Thread, Serve(t)
      PROVE  proc[a] = "foreign" <=> proc'[a] = "foreign"
  <2>1. CASE EndRequest(t) \/ RecoverBegin(t)
    BY <2>1 DEF EndRequest, RecoverBegin
  <2>2. CASE RecoverEnd(t)
    <3>1. proc[AdapterOf[target[t]]] # "foreign"
      BY <1>8, <2>2 DEF RecoverEnd, RecoversOwn, Serve
    <3> QED
      BY <2>2, <3>1 DEF RecoverEnd, Launched, StartFailed
  <2> QED
    BY <1>8, <2>1, <2>2 DEF Serve
<1>9. ASSUME NEW r \in Request, Cancel(r)
      PROVE  UNCHANGED proc
  BY <1>9 DEF Cancel
<1>10. ASSUME NEW b \in Adapter, Crash(b)
       PROVE  proc[a] = "foreign" <=> proc'[a] = "foreign"
  BY <1>10 DEF Crash
<1>11. CASE UNCHANGED vars
  BY <1>11 DEF vars
<1> QED
  BY <1>1, <1>2, <1>3, <1>4, <1>5, <1>6, <1>7, <1>8, <1>9, <1>10, <1>11 DEF Next, Step, MakeRoom, LoadTarget

LEMMA RecoverOrigin ==
  ASSUME TypeOK, [Next]_vars, NEW t \in Thread, pc'[t] = "recover"
  PROVE  \/ pc[t] = "recover" /\ target'[t] = target[t]
         \/ t \in Request /\ RecoverBegin(t)
<1> DEFINE Goal == \/ pc[t] = "recover" /\ target'[t] = target[t]
                   \/ t \in Request /\ RecoverBegin(t)
<1> USE DEF TypeOK, backendVars, loopVars, requestVars, jobVars, dispatchVars
<1>1. ASSUME NEW u \in Thread, u # t, BeginOperation(u) \/ Step(u)
      PROVE  Goal
  BY <1>1, StepsAside DEF Aside
<1>2. ASSUME BeginOperation(t) \/ Refresh(t) \/ Lock(t)
      PROVE  Goal
  BY <1>2 DEF BeginOperation, BeginRequest, BeginSwitch, BeginUnload, BeginStatus, Begin, Refresh, Snapshot, Observe, Apply, Observed, Lock, EnterTransition, TimeOut, LeaveTransition, Goto
<1>3. ASSUME MakeRoom(t)
      PROVE  Goal
  <2>1. \E label \in Label \ {"recover"} : Goto(t, label)
    BY <1>3 DEF MakeRoom, Decide, Check, Probe, Evict, Deactivate, StopService, Kill, Unloaded, Label
  <2> QED
    BY <2>1 DEF Goto
<1>4. ASSUME LoadTarget(t)
      PROVE  Goal
  <2>1. UNCHANGED <<pc, target>> \/ \E label \in Label \ {"recover"} : Goto(t, label)
    BY <1>4 DEF LoadTarget, Load, Start, Activate, Finish, Cleanup, Discard, LoadFailed, Label
  <2> QED
    BY <2>1 DEF Goto
<1>5. ASSUME Answer(t) \/ Serve(t)
      PROVE  Goal
  BY <1>5 DEF Answer, Serve, EndRequest, RecoverEnd, EndThread, Goto
<1>6. CASE \/ \E r \in Request : Cancel(r)
           \/ \E a \in Adapter : Crash(a)
           \/ UNCHANGED vars
  BY <1>6 DEF Cancel, Crash, vars
<1> QED
  BY <1>1, <1>2, <1>3, <1>4, <1>5, <1>6 DEF Next, Step

LEMMA RecoversOwnStep ==
  TypeOK /\ OpShape /\ RecoversOwn /\ [Next]_vars => RecoversOwn'
<1> SUFFICES ASSUME TypeOK, OpShape, RecoversOwn, [Next]_vars,
                    NEW t \in Thread, pc'[t] = "recover"
             PROVE  proc'[AdapterOf[target'[t]]] # "foreign"
  BY DEF RecoversOwn
<1>1. /\ target'[t] = target[t] /\ target[t] \in Model
      /\ proc[AdapterOf[target[t]]] # "foreign"
  <2>1. CASE pc[t] = "recover" /\ target'[t] = target[t]
    BY <2>1 DEF RecoversOwn, OpShape
  <2>2. CASE t \in Request /\ RecoverBegin(t)
    BY <2>2 DEF RecoverBegin, CanRecover, OpShape, jobVars
  <2> QED
    BY <2>1, <2>2, RecoverOrigin
<1>2. AdapterOf[target[t]] \in Adapter
  BY <1>1, TopologyAssumption
<1> QED
  BY <1>1, <1>2, ForeignStays

(* A server of others is never stopped or replaced, with any faults. *)
THEOREM ForeignServersAlwaysKept == Spec => ForeignServersKept
<1>1. Init => RecoversOwn
  BY DEF Init, RecoversOwn
<1>2. TypeOK /\ OpShape /\ RecoversOwn /\ [Next]_vars => RecoversOwn'
  BY RecoversOwnStep
<1>3. TypeOK /\ OpShape /\ RecoversOwn /\ [Next]_vars
        => [\A a \in Adapter : proc[a] = "foreign" => proc'[a] = "foreign"]_vars
  BY ForeignStays
<1> QED
  BY <1>1, <1>2, <1>3, Shaped, PTL DEF Spec, ForeignServersKept

-----------------------------------------------------------------------------
(* Ready models are served, and the weights of rivals are never together. *)

(* No model is found gone, and none reported: no adapter reports its models, no
   server is recovered from Metal timeouts, and none exits by itself. *)
Orderly == StateProbe = {} /\ Recoverable = {} /\ "crash" \notin Faults

(* Servers do what they are asked to: none fails to stop, none is taken for
   dead, no answer gets lost. *)
Reliable == Faults \cap {"unconfirmed", "stop", "unhealthy"} = {}

Evicting == {"deactivate", "stop", "kill"}

(* A thread with all its locks, one of which the model needs too. *)
Concerns(t, m) == lease[t] = TransitionKeys(t) /\ Keys(m) \cap TransitionKeys(t) # {}
Covers(t, a) == \E m \in ModelsOn(a) : Concerns(t, m)

(* The state of a model is what the thread at work on it has made it; what a
   thread is going to evict is still ready, as it was when the thread decided. *)
WorkShape ==
  \A t \in Thread :
    /\ pc[t] = "load" => state[target[t]] \in {"unloaded", "failed", "unknown"}
    /\ pc[t] \in {"start", "activate", "finish"} => state[target[t]] = "loading"
    /\ pc[t] \in {"cleanup", "discard"} => state[target[t]] = "unloading"
    /\ pc[t] \in Evicting => state[subject[t]] = "unloading" /\ subject[t] \notin todo[t]
    /\ pc[t] \in MakingRoom => \A b \in todo[t] : state[b] = "ready"

(* No process has exited, so no refresh finds one gone. *)
NobodyGone ==
  /\ \A a \in Adapter : proc[a] # "exited"
  /\ \A t \in Thread : pc[t] # "apply"

(* Weights are in a live server, and so is a model that is about to be
   activated: in one of this dispatcher's if it could not give a server of
   others back. *)
ServerShape ==
  /\ \A m \in resident : Live(AdapterOf[m])
  /\ \A t \in Thread : pc[t] = "activate" =>
       /\ Live(AdapterOf[target[t]])
       /\ Managed(target[t]) /\ target[t] \notin DeactivateRoute => proc[AdapterOf[target[t]]] = "owned"

(* The server that is going to be stopped serves no other model. *)
Lone(b) == \A n \in ModelsOn(AdapterOf[b]) \ {b} : state[n] \notin {"loading", "ready", "unloading"}
KillsAlone == \A t \in Thread : pc[t] = "kill" => Lone(subject[t])

(* A model that is ready, or that its thread may still leave ready. *)
InUse(m) ==
  \/ state[m] = "ready"
  \/ \E t \in Thread :
       \/ target[t] = m /\ pc[t] \in {"finish", "cleanup"}
       \/ subject[t] = m /\ pc[t] = "deactivate"
UsedIsServed == \A m \in Model : InUse(m) => m \in resident

WorkInv ==
  /\ ExclusiveInv
  /\ WorkShape
  /\ NobodyGone

ServedInv ==
  /\ WorkInv
  /\ ServerShape
  /\ KillsAlone
  /\ UsedIsServed

(* One thread at a time concerns the models of an adapter. *)
LEMMA OneCovers ==
  ASSUME SerialTopology, TypeOK, OneLessee, NEW a, NEW t \in Thread, NEW u \in Thread,
         Covers(t, a), Covers(u, a)
  PROVE  t = u
<1>1. PICK m \in ModelsOn(a) : Concerns(t, m)
  BY DEF Covers
<1>2. PICK n \in ModelsOn(a) : Concerns(u, n)
  BY DEF Covers
<1>3. m \in Model /\ n \in Model /\ a \in Keys(m) \cap Keys(n) /\ Slots[a] = 1
  BY <1>1, <1>2, KeysAssumption, TopologyAssumption DEF ModelsOn, Keys
<1>4. PICK k \in Key : Slots[k] = 1 /\ Guards(k, m) /\ Guards(k, n)
  BY <1>3 DEF SerialTopology
<1>5. k \in lease[t] /\ k \in lease[u]
  BY <1>1, <1>2, <1>3, <1>4, GuardHeld DEF Concerns
<1> QED BY <1>4, <1>5 DEF OneLessee

(* What a thread loads, evicts or has on its list it concerns. *)
LEMMA WorkCovered ==
  ASSUME ExclusiveInv, NEW t \in Thread
  PROVE  /\ pc[t] \in Loading \cup {"load"} =>
              target[t] \in Model /\ Covers(t, AdapterOf[target[t]])
         /\ pc[t] \in Evicting => subject[t] \in Model /\ Covers(t, AdapterOf[subject[t]])
         /\ pc[t] \in MakingRoom => \A b \in todo[t] : b \in Model /\ Covers(t, AdapterOf[b])
<1> USE DEF ExclusiveInv
<1>1. ASSUME pc[t] \in Loading \cup {"load"}
      PROVE  target[t] \in Model /\ Covers(t, AdapterOf[target[t]])
  <2>1. target[t] \in Model
    BY <1>1 DEF OpShape
  <2>2. Concerns(t, target[t])
    BY <1>1, <2>1, TargetConcerns DEF Concerns, LeasesWhole, Locked, Loading
  <2> QED BY <2>1, <2>2 DEF Covers, ModelsOn
<1>2. ASSUME pc[t] \in Evicting
      PROVE  subject[t] \in Model /\ Covers(t, AdapterOf[subject[t]])
  <2>1. subject[t] \in Model
    BY <1>2 DEF OpShape, Evicting
  <2>2. Concerns(t, subject[t])
    BY <1>2, <2>1 DEF Concerns, LeasesWhole, Locked, Evicting, EvictsOwn
  <2> QED BY <2>1, <2>2 DEF Covers, ModelsOn
<1>3. ASSUME pc[t] \in MakingRoom, NEW b \in todo[t]
      PROVE  b \in Model /\ Covers(t, AdapterOf[b])
  <2>1. b \in Model
    BY DEF TypeOK
  <2>2. Concerns(t, b)
    BY <1>3, <2>1 DEF Concerns, LeasesWhole, Locked, MakingRoom, EvictsOwn
  <2> QED BY <2>1, <2>2 DEF Covers, ModelsOn
<1> QED BY <1>1, <1>2, <1>3

(* A step of a thread leaves the list of every other one alone. *)
LEMMA ListsAside ==
  ASSUME TypeOK, NEW u \in Thread, BeginOperation(u) \/ Step(u), NEW t \in Thread, t # u
  PROVE  todo'[t] = todo[t]
<1> USE DEF TypeOK, backendVars, loopVars, requestVars, jobVars, dispatchVars
<1>1. CASE BeginOperation(u)
  BY <1>1 DEF BeginOperation, BeginRequest, BeginSwitch, BeginUnload, BeginStatus, Begin
<1>2. CASE Refresh(u) \/ Lock(u)
  BY <1>2 DEF Refresh, Snapshot, Observe, Apply, Observed, Lock, EnterTransition, TimeOut, LeaveTransition
<1>3. CASE MakeRoom(u)
  BY <1>3 DEF MakeRoom, Decide, Check, Probe, Evict, Deactivate, StopService, Kill, Unloaded
<1>4. CASE LoadTarget(u)
  BY <1>4 DEF LoadTarget, Load, Start, Activate, Finish, Cleanup, Discard
<1>5. CASE Answer(u) \/ Serve(u)
  BY <1>5 DEF Answer, Serve, EndRequest, RecoverBegin, RecoverEnd
<1> QED BY <1>1, <1>2, <1>3, <1>4, <1>5 DEF Step

(* The steps that touch no model and no server. *)
Quiet(u) ==
  \/ BeginOperation(u) \/ Snapshot(u) \/ Observed(u) \/ Lock(u)
  \/ Decide(u) \/ Check(u) \/ Probe(u) \/ Answer(u) \/ (u \in Request /\ EndRequest(u))

(* What a step may be where nothing happens to a server but by a thread. *)
LEMMA Steps ==
  ASSUME Orderly, ExclusiveInv, NobodyGone, [Next]_vars
  PROVE  \/ \E u \in Thread : \/ Quiet(u) \/ Evict(u) \/ Deactivate(u) \/ StopService(u) \/ Kill(u)
                              \/ LoadTarget(u)
         \/ UNCHANGED <<state, proc, resident, pc, target, todo, subject>>
<1> USE DEF Orderly, ExclusiveInv, NobodyGone
<1>1. ASSUME NEW u \in Thread
      PROVE  ~ Observe(u) /\ ~ Apply(u) /\ ~ RecoverBegin(u) /\ ~ RecoverEnd(u)
  <2>1. ~ Observe(u)
    <3> SUFFICES ASSUME Observe(u)
                 PROVE  FALSE
      OBVIOUS
    <3>1. PICK m \in todo[u] : Readings(m) \ {"none"} # {}
      BY DEF Observe
    <3>2. m \in Model /\ AdapterOf[m] \in Adapter
      BY TopologyAssumption DEF TypeOK
    <3> QED BY <3>1, <3>2 DEF Readings
  <2>2. ~ Apply(u) /\ ~ RecoverBegin(u)
    BY DEF Apply, RecoverBegin, CanRecover
  <2>3. ~ RecoverEnd(u)
    BY DEF RecoverEnd, NoReports
  <2> QED BY <2>1, <2>2, <2>3
<1>2. ~ \E a \in Adapter : Crash(a)
  BY DEF Crash
<1>3. CASE \E r \in Request : Cancel(r)
  BY <1>3 DEF Cancel, backendVars, jobVars, loopVars
<1>4. CASE UNCHANGED vars
  BY <1>4 DEF vars, dispatchVars, backendVars, jobVars, loopVars
<1>5. ASSUME NEW u \in Thread, BeginOperation(u) \/ Step(u)
      PROVE  \/ Quiet(u) \/ Evict(u) \/ Deactivate(u) \/ StopService(u) \/ Kill(u)
             \/ LoadTarget(u)
  BY <1>1, <1>5 DEF Quiet, Step, Refresh, MakeRoom, Serve
<1> QED BY <1>2, <1>3, <1>4, <1>5 DEF Next

(* A quiet step touches no backend and brings no thread to work. *)
LEMMA QuietStep ==
  ASSUME TypeOK, NEW u \in Thread, Quiet(u)
  PROVE  /\ UNCHANGED <<state, proc, resident, subject>>
         /\ pc'[u] \in {"idle", "snapshot", "observe", "check", "decide", "ok", "fail", "relay", "lost", "load", "probe", "evict"}
               \/ UNCHANGED <<pc, target, todo>>
<1> USE DEF TypeOK, backendVars, loopVars, requestVars, jobVars, dispatchVars
<1>1. CASE BeginOperation(u)
  BY <1>1 DEF BeginOperation, BeginRequest, BeginSwitch, BeginUnload, BeginStatus, Begin, Goto
<1>2. CASE Snapshot(u) \/ Observed(u)
  BY <1>2 DEF Snapshot, Observed, Goto
<1>3. CASE Lock(u)
  BY <1>3 DEF Lock, EnterTransition, TimeOut, LeaveTransition, Goto
<1>4. CASE Decide(u)
  <2>1. \E label \in {"fail", "ok", "load", "probe"} : Goto(u, label)
    BY <1>4 DEF Decide
  <2>2. UNCHANGED <<state, proc, resident, subject>>
    BY <1>4 DEF Decide
  <2> QED BY <2>1, <2>2 DEF Goto
<1>5. CASE Check(u) \/ Probe(u)
  BY <1>5 DEF Check, Probe, Goto
<1>6. CASE Answer(u) \/ (u \in Request /\ EndRequest(u))
  BY <1>6 DEF Answer, EndRequest, EndThread, Goto
<1> QED BY <1>1, <1>2, <1>3, <1>4, <1>5, <1>6 DEF Quiet

(* A step of a thread changes nothing on an adapter it does not cover. *)
LEMMA Untouched ==
  ASSUME ExclusiveInv, Orderly, NEW u \in Thread,
         Quiet(u) \/ Evict(u) \/ Deactivate(u) \/ StopService(u) \/ Kill(u) \/ LoadTarget(u),
         NEW m \in Model, ~ Covers(u, AdapterOf[m])
  PROVE  /\ state'[m] = state[m]
         /\ m \in resident' <=> m \in resident
         /\ proc'[AdapterOf[m]] = proc[AdapterOf[m]]
<1> DEFINE Same == /\ state'[m] = state[m]
                   /\ m \in resident' <=> m \in resident
                   /\ proc'[AdapterOf[m]] = proc[AdapterOf[m]]
<1>0. TypeOK /\ AdapterOf[m] \in Adapter
  BY TopologyAssumption DEF ExclusiveInv
<1> USE DEF TypeOK, backendVars, loopVars, requestVars, jobVars, dispatchVars
<1>1. CASE Quiet(u)
  BY <1>0, <1>1, QuietStep
<1>2. CASE Evict(u)
  <2>1. UNCHANGED <<proc, resident>>
    BY <1>2 DEF Evict
  <2>2. state' = state \/ \E b \in todo[u] : state' = [state EXCEPT ![b] = "unloading"]
    BY <1>2 DEF Evict, SetState
  <2>3. \A b \in todo[u] : b # m
    BY <1>2, WorkCovered DEF Evict, MakingRoom
  <2> QED BY <1>0, <2>1, <2>2, <2>3
<1>3. CASE Deactivate(u)
  <2>1. subject[u] # m
    BY <1>3, WorkCovered DEF Deactivate, Evicting
  <2>2. /\ UNCHANGED proc
        /\ resident' \in {resident, resident \ {subject[u]}}
        /\ state' \in {state, [state EXCEPT ![subject[u]] = "ready"]}
    BY <1>3 DEF Deactivate, SetState
  <2> QED BY <1>0, <2>1, <2>2
<1>4. CASE StopService(u)
  <2>1. subject[u] # m
    BY <1>4, WorkCovered DEF StopService, Evicting
  <2>2. /\ UNCHANGED <<proc, resident>>
        /\ state' \in {state, [state EXCEPT ![subject[u]] = "unloaded"]}
    BY <1>4 DEF StopService, Unloaded, SetState
  <2> QED BY <1>0, <2>1, <2>2
<1>5. CASE Kill(u)
  <2>1. subject[u] \in Model /\ AdapterOf[subject[u]] # AdapterOf[m]
    BY <1>5, WorkCovered DEF Kill, Evicting
  <2>2. /\ StopServer(AdapterOf[subject[u]]) \/ UNCHANGED <<proc, resident>>
        /\ state' \in {state, [state EXCEPT ![subject[u]] = "unloaded"]}
    BY <1>5 DEF Kill, Unloaded, SetState
  <2> QED BY <1>0, <2>1, <2>2 DEF StopServer, ModelsOn
<1>6. CASE LoadTarget(u)
  <2>1. target[u] \in Model /\ AdapterOf[target[u]] # AdapterOf[m] /\ target[u] # m
    BY <1>6, WorkCovered DEF LoadTarget, Load, Start, Activate, Finish, Cleanup, Discard, Loading
  <2>2. state'[m] = state[m]
    <3>1. \/ UNCHANGED state
          \/ \E s \in State : state' = [state EXCEPT ![target[u]] = s]
      BY <1>6 DEF LoadTarget, Load, Start, Activate, Finish, Cleanup, Discard, LoadFailed, SetState, State
    <3> QED BY <1>0, <2>1, <3>1
  <2> DEFINE a == AdapterOf[target[u]]
  <2>3. /\ \/ UNCHANGED proc
           \/ \E p \in Proc : proc' = [proc EXCEPT ![a] = p]
        /\ \A n \in Model : AdapterOf[n] # a => (n \in resident' <=> n \in resident)
    <3>1. CASE Load(u) \/ Finish(u)
      BY <3>1 DEF Load, Finish
    <3>2. CASE Start(u)
      BY <2>1, <3>2 DEF Start, Launched, StartFailed, ModelsOn, Proc
    <3>3. CASE Activate(u)
      <4>1. ~ CanRecover(target[u])
        BY DEF CanRecover, Orderly
      <4> QED BY <2>1, <3>3, <4>1 DEF Activate, MayRetry
    <3>4. CASE Cleanup(u)
      BY <2>1, <3>4 DEF Cleanup
    <3>5. CASE Discard(u)
      BY <2>1, <3>5 DEF Discard, StopServer, ModelsOn, Proc
    <3> QED BY <1>6, <3>1, <3>2, <3>3, <3>4, <3>5 DEF LoadTarget
  <2> QED BY <1>0, <2>1, <2>2, <2>3
<1> QED BY <1>1, <1>2, <1>3, <1>4, <1>5, <1>6

(* The other threads, while one takes a step: they stay where they are, and
   what they concern stays as it is, unless the step concerns it too. *)
LEMMA OthersUntouched ==
  ASSUME SerialTopology, Orderly, ExclusiveInv, NEW u \in Thread,
         Quiet(u) \/ Evict(u) \/ Deactivate(u) \/ StopService(u) \/ Kill(u) \/ LoadTarget(u),
         NEW t \in Thread, t # u, NEW a, Covers(t, a)
  PROVE  \A m \in ModelsOn(a) : /\ state'[m] = state[m]
                                /\ m \in resident' <=> m \in resident
                                /\ proc'[a] = proc[a]
<1>1. ~ Covers(u, a)
  BY OneCovers DEF ExclusiveInv
<1> QED BY <1>1, Untouched DEF ModelsOn

(* While one thread takes a step, the others stay where they are. *)
LEMMA Moves ==
  ASSUME TypeOK, NEW u \in Thread,
         Quiet(u) \/ Evict(u) \/ Deactivate(u) \/ StopService(u) \/ Kill(u) \/ LoadTarget(u),
         NEW t \in Thread, t # u
  PROVE  pc'[t] = pc[t] /\ target'[t] = target[t] /\ subject'[t] = subject[t] /\ todo'[t] = todo[t]
<1>1. BeginOperation(u) \/ Step(u)
  BY DEF Quiet, Step, Refresh, MakeRoom, Serve
<1> QED BY <1>1, StepsAside, ListsAside DEF Aside

-----------------------------------------------------------------------------
(* WorkShape is kept: what a thread works on, nobody else changes. *)

WorkOf(t) ==
  /\ pc[t] = "load" => state[target[t]] \in {"unloaded", "failed", "unknown"}
  /\ pc[t] \in {"start", "activate", "finish"} => state[target[t]] = "loading"
  /\ pc[t] \in {"cleanup", "discard"} => state[target[t]] = "unloading"
  /\ pc[t] \in Evicting => state[subject[t]] = "unloading" /\ subject[t] \notin todo[t]
  /\ pc[t] \in MakingRoom => \A b \in todo[t] : state[b] = "ready"

(* The work of the other threads is as it was ... *)
LEMMA OthersWork ==
  ASSUME SerialTopology, Orderly, ExclusiveInv, WorkShape, NEW u \in Thread,
         Quiet(u) \/ Evict(u) \/ Deactivate(u) \/ StopService(u) \/ Kill(u) \/ LoadTarget(u),
         NEW t \in Thread, t # u
  PROVE  WorkOf(t)'
<1>1. pc'[t] = pc[t] /\ target'[t] = target[t] /\ subject'[t] = subject[t] /\ todo'[t] = todo[t]
  BY Moves DEF ExclusiveInv
<1>2. \A m \in Model : Covers(t, AdapterOf[m]) => state'[m] = state[m]
  BY OthersUntouched DEF ModelsOn
<1>3. /\ pc[t] \in Loading \cup {"load"} => state'[target[t]] = state[target[t]]
      /\ pc[t] \in Evicting => state'[subject[t]] = state[subject[t]]
      /\ pc[t] \in MakingRoom => \A b \in todo[t] : state'[b] = state[b]
  BY <1>2, WorkCovered
<1> QED BY <1>1, <1>3 DEF WorkShape, WorkOf, Loading

(* ... and that of the thread as its step has left it. *)
LEMMA OwnWork ==
  ASSUME Orderly, ExclusiveInv, WorkShape, [Next]_vars, NEW u \in Thread,
         Quiet(u) \/ Evict(u) \/ Deactivate(u) \/ StopService(u) \/ Kill(u) \/ LoadTarget(u)
  PROVE  WorkOf(u)'
<1>0. TypeOK /\ OpShape
  BY DEF ExclusiveInv
<1>00. WorkOf(u)
  BY DEF WorkShape, WorkOf
<1> USE DEF TypeOK, MakingRoom, Evicting, WorkOf, SetState, Goto, backendVars, loopVars, requestVars, jobVars, dispatchVars
<1>1. CASE Quiet(u) /\ ~ Decide(u) /\ ~ Check(u)
  <2>1. UNCHANGED state
    BY <1>0, <1>1, QuietStep
  <2>2. CASE pc'[u] \in MakingRoom
    <3>1. \/ pc'[u] \in {"probe", "evict"} /\ pc[u] \in MakingRoom /\ todo'[u] \subseteq todo[u]
          \/ UNCHANGED <<pc, target, todo, subject>>
      BY <1>0, <1>1, <2>2 DEF Quiet, BeginOperation, BeginRequest, BeginSwitch, BeginUnload, BeginStatus, Begin, Snapshot, Observed, Lock, EnterTransition, TimeOut, LeaveTransition, Probe, Answer, EndRequest, EndThread
    <3> QED BY <1>00, <2>1, <3>1
  <2>3. CASE pc'[u] \notin MakingRoom
    <3>1. UNCHANGED <<pc, target, todo, subject>> \/ pc'[u] \notin Loading \cup {"load"}
      BY <1>0, <1>1, <2>3 DEF Loading, Quiet, BeginOperation, BeginRequest, BeginSwitch, BeginUnload, BeginStatus, Begin, Snapshot, Observed, Lock, EnterTransition, TimeOut, LeaveTransition, Probe, Answer, EndRequest, EndThread
    <3> QED BY <1>00, <2>1, <2>3, <3>1 DEF Loading
  <2> QED BY <2>2, <2>3
<1>2. CASE Decide(u) \/ Check(u)
  <2>1. UNCHANGED <<state, target>>
    BY <1>2 DEF Decide, Check
  <2>2. pc'[u] \in {"fail", "ok", "load", "probe"} /\ pc[u] \in {"decide", "check"}
    BY <1>0, <1>2 DEF Decide, Check
  <2>3. pc'[u] = "load" => state[target[u]] \in {"unloaded", "failed", "unknown"}
    BY <1>0, <1>2 DEF Decide, Check
  <2>4. pc'[u] = "probe" => \A b \in todo'[u] : state[b] = "ready"
    BY <1>0, <2>2, RoomOrigin
  <2> QED BY <2>1, <2>2, <2>3, <2>4
<1>3. CASE Evict(u)
  <2>1. CASE pc'[u] = "fail"
    BY <2>1
  <2>2. CASE pc'[u] # "fail"
    <3>1. PICK b \in todo[u] :
            /\ state' = [state EXCEPT ![b] = "unloading"]
            /\ pc' = [pc EXCEPT ![u] = "deactivate"]
            /\ todo' = [todo EXCEPT ![u] = todo[u] \ {b}]
            /\ subject' = [subject EXCEPT ![u] = b]
      BY <1>0, <1>3, <2>2 DEF Evict
    <3>2. b \in Model /\ \A n \in todo[u] : n \in Model /\ state[n] = "ready"
      BY <1>0, <1>00, <1>3 DEF Evict
    <3> QED BY <1>0, <3>1, <3>2
  <2> QED BY <2>1, <2>2
<1>4. CASE Deactivate(u)
  <2>1. pc[u] = "deactivate" /\ pc'[u] \in {"stop", "fail"}
        /\ (pc'[u] = "stop" => UNCHANGED <<state, todo, subject>>)
    BY <1>0, <1>4 DEF Deactivate
  <2> QED BY <1>00, <2>1
<1>5. CASE StopService(u) \/ Kill(u)
  <2>1. /\ pc[u] \in {"stop", "kill"} /\ (UNCHANGED todo \/ pc'[u] = "fail")
        /\ \/ pc'[u] = "kill" /\ UNCHANGED <<state, subject>>
           \/ pc'[u] \in {"evict", "ok", "decide"} /\ state' = [state EXCEPT ![subject[u]] = "unloaded"]
           \/ pc'[u] = "fail"
    BY <1>0, <1>5 DEF StopService, Kill, Unloaded
  <2> QED BY <1>0, <1>00, <2>1
<1>6. CASE LoadTarget(u)
  <2>1. target[u] \in Model /\ UNCHANGED target
    BY <1>6, WorkCovered DEF LoadTarget, Load, Start, Activate, Finish, Cleanup, Discard, Loading
  <2>2. CASE Load(u)
    BY <1>0, <2>1, <2>2 DEF Load
  <2>3. CASE Start(u)
    <3>1. pc[u] = "start" /\ pc'[u] \in {"activate", "fail"} /\ (pc'[u] = "activate" => UNCHANGED state)
      BY <1>0, <2>3 DEF Start, LoadFailed
    <3> QED BY <1>00, <2>1, <3>1
  <2>4. CASE Activate(u)
    <3>1. ~ CanRecover(target[u])
      BY DEF CanRecover, Orderly
    <3>2. pc[u] = "activate" /\ pc'[u] \in {"finish", "fail"} /\ (pc'[u] = "finish" => UNCHANGED state)
      BY <1>0, <2>4, <3>1 DEF Activate, MayRetry, LoadFailed
    <3> QED BY <1>00, <2>1, <3>2
  <2>5. CASE Finish(u)
    BY <1>0, <2>1, <2>5 DEF Finish
  <2>6. CASE Cleanup(u)
    <3>1. pc[u] = "cleanup" /\ pc'[u] \in {"discard", "fail"} /\ (pc'[u] = "discard" => UNCHANGED state)
      BY <1>0, <2>6 DEF Cleanup
    <3> QED BY <1>00, <2>1, <3>1
  <2>7. CASE Discard(u)
    BY <1>0, <2>7 DEF Discard
  <2> QED BY <1>6, <2>2, <2>3, <2>4, <2>5, <2>6, <2>7 DEF LoadTarget
<1> QED BY <1>1, <1>2, <1>3, <1>4, <1>5, <1>6

LEMMA WorkShapeStep ==
  ASSUME SerialTopology, Orderly, ExclusiveInv, WorkShape, NobodyGone, [Next]_vars
  PROVE  WorkShape'
<1>1. SUFFICES ASSUME NEW t \in Thread
               PROVE  WorkOf(t)'
  BY DEF WorkShape, WorkOf
<1>2. CASE UNCHANGED <<state, proc, resident, pc, target, todo, subject>>
  BY <1>2 DEF WorkShape, WorkOf
<1> QED BY <1>2, Steps, OthersWork, OwnWork

(* No process exits, and nobody finds one gone. *)
LEMMA NobodyGoneStep ==
  ASSUME Orderly, ExclusiveInv, NobodyGone, [Next]_vars
  PROVE  NobodyGone'
<1>0. TypeOK /\ \A m \in Model : AdapterOf[m] \in Adapter
  BY TopologyAssumption DEF ExclusiveInv
<1>1. CASE UNCHANGED <<state, proc, resident, pc, target, todo, subject>>
  BY <1>1 DEF NobodyGone
<1>2. ASSUME NEW u \in Thread,
             Quiet(u) \/ Evict(u) \/ Deactivate(u) \/ StopService(u) \/ Kill(u) \/ LoadTarget(u)
      PROVE  (\A a \in Adapter : proc'[a] # "exited") /\ pc'[u] # "apply"
  <2>0. (\A a \in Adapter : proc[a] # "exited") /\ pc[u] # "apply"
    BY DEF NobodyGone
  <2> USE DEF TypeOK, Goto, SetState, backendVars, loopVars, requestVars, jobVars, dispatchVars
  <2>1. CASE Quiet(u)
    BY <1>0, <2>0, <2>1, QuietStep
  <2>2. CASE Evict(u) \/ Deactivate(u) \/ StopService(u)
    BY <1>0, <2>0, <2>2 DEF Evict, Deactivate, StopService, Unloaded
  <2>3. CASE Kill(u)
    BY <1>0, <2>0, <2>3 DEF Kill, Unloaded, StopServer
  <2>4. CASE LoadTarget(u)
    <3>1. /\ \/ UNCHANGED proc
             \/ \E a \in Adapter, p \in {"none", "owned"} : proc' = [proc EXCEPT ![a] = p]
          /\ pc'[u] = pc[u] \/ pc'[u] \in {"start", "activate", "finish", "cleanup", "discard", "ok", "fail"}
      <4>1. target[u] \in Model /\ AdapterOf[target[u]] \in Adapter
        BY <1>0, <2>4, WorkCovered DEF LoadTarget, Load, Start, Activate, Finish, Cleanup, Discard, Loading
      <4>2. CASE Load(u) \/ Finish(u) \/ Cleanup(u)
        BY <1>0, <4>2 DEF Load, Finish, Cleanup
      <4>3. CASE Start(u)
        BY <1>0, <4>1, <4>3 DEF Start, LoadFailed, Launched, StartFailed
      <4>4. CASE Activate(u)
        BY <1>0, <4>1, <4>4 DEF Activate, LoadFailed, Launched, StartFailed
      <4>5. CASE Discard(u)
        BY <1>0, <4>1, <4>5 DEF Discard, StopServer
      <4> QED BY <2>4, <4>2, <4>3, <4>4, <4>5 DEF LoadTarget
    <3> QED BY <1>0, <2>0, <3>1
  <2> QED BY <1>2, <2>1, <2>2, <2>3, <2>4
<1>3. ASSUME NEW u \in Thread,
             Quiet(u) \/ Evict(u) \/ Deactivate(u) \/ StopService(u) \/ Kill(u) \/ LoadTarget(u),
             NEW t \in Thread, t # u
      PROVE  pc'[t] # "apply"
  BY <1>0, <1>3, Moves DEF NobodyGone
<1> QED BY <1>1, <1>2, <1>3, Steps DEF NobodyGone

(* The invariant behind UnloadsStartFromReady, and the first half of those
   behind the two theorems on weights. *)
LEMMA WorkInvariance ==
  ASSUME SerialTopology, Orderly
  PROVE  Spec => []WorkInv
<1>0. ClosedTopology /\ StateProbe = {} /\ Recoverable = {}
  BY SerialIsClosed DEF Orderly
<1>1. Init => WorkShape /\ NobodyGone
  BY TopologyAssumption DEF Init, WorkShape, NobodyGone, Evicting, MakingRoom
<1>2. WorkInv /\ ExclusiveInv' /\ [Next]_vars => WorkInv'
  BY WorkShapeStep, NobodyGoneStep DEF WorkInv
<1>3. Spec => []ExclusiveInv
  BY <1>0, ExclusiveInvariance
<1>4. ExclusiveInv /\ WorkShape /\ NobodyGone => WorkInv
  BY DEF WorkInv
<1> QED BY <1>1, <1>2, <1>3, <1>4, PTL DEF Spec

(* Every unload begins with a model that is still ready, or is the rollback of a
   load: unload and _deactivate_blocker do not look again. *)
THEOREM UnloadsAlwaysStartFromReady ==
  ASSUME SerialTopology, Orderly
  PROVE  Spec => UnloadsStartFromReady
<1> DEFINE Starts == \A m \in Model : state'[m] = "unloading" /\ state[m] # "unloading" =>
                       \/ state[m] = "ready"
                       \/ \E t \in Thread : pc[t] = "finish" /\ target[t] = m
<1>1. WorkInv /\ [Next]_vars => [Starts]_vars
  <2> SUFFICES ASSUME WorkInv, [Next]_vars
               PROVE  Starts
    OBVIOUS
  <2>0. TypeOK /\ OpShape /\ ExclusiveInv /\ NobodyGone /\ WorkShape
    BY DEF WorkInv, ExclusiveInv
  <2>1. CASE UNCHANGED <<state, proc, resident, pc, target, todo, subject>>
    BY <2>1
  <2>2. ASSUME NEW u \in Thread, Quiet(u)
        PROVE  Starts
    BY <2>0, <2>2, QuietStep
  <2> USE DEF TypeOK, SetState, Goto
  <2>3. ASSUME NEW u \in Thread, Evict(u)
        PROVE  Starts
    <3>1. UNCHANGED state \/ \E b \in todo[u] : state' = [state EXCEPT ![b] = "unloading"]
      BY <2>3 DEF Evict
    <3>2. \A b \in todo[u] : state[b] = "ready"
      BY <2>0, <2>3 DEF Evict, WorkShape, MakingRoom
    <3> QED BY <2>0, <3>1, <3>2
  <2>4. ASSUME NEW u \in Thread, Deactivate(u) \/ StopService(u) \/ Kill(u)
        PROVE  Starts
    <3>1. state' \in {state, [state EXCEPT ![subject[u]] = "ready"], [state EXCEPT ![subject[u]] = "unloaded"]}
      BY <2>4 DEF Deactivate, StopService, Kill, Unloaded
    <3> QED BY <2>0, <3>1
  <2>5. ASSUME NEW u \in Thread, LoadTarget(u)
        PROVE  Starts
    <3>1. \/ UNCHANGED state
          \/ \E s \in State \ {"unloading"} : state' = [state EXCEPT ![target[u]] = s]
          \/ pc[u] = "finish" /\ state' = [state EXCEPT ![target[u]] = "unloading"]
      BY <2>5 DEF LoadTarget, Load, Start, Activate, Finish, Cleanup, Discard, LoadFailed, State
    <3> QED BY <2>0, <3>1
  <2> QED BY <2>0, <2>1, <2>2, <2>3, <2>4, <2>5, Steps
<1> QED BY <1>1, WorkInvariance, PTL DEF Spec, UnloadsStartFromReady

-----------------------------------------------------------------------------
(* ServerShape is kept. *)

ActivatesOn(t) ==
  pc[t] = "activate" =>
    /\ Live(AdapterOf[target[t]])
    /\ Managed(target[t]) /\ target[t] \notin DeactivateRoute => proc[AdapterOf[target[t]]] = "owned"

(* What a load does to the server it needs. *)
LEMMA LoadsServer ==
  ASSUME Orderly, Reliable, ExclusiveInv, NobodyGone, ServerShape, NEW u \in Thread, LoadTarget(u)
  PROVE  /\ \A m \in resident' : Live(AdapterOf[m])'
         /\ ActivatesOn(u)'
         /\ ~ Discard(u) => \A a \in Adapter : proc[a] = "owned" => proc'[a] = "owned"
         /\ Start(u) => resident \subseteq resident'
<1>0. TypeOK /\ (\A m \in Model : AdapterOf[m] \in Adapter) /\ resident \subseteq Model
  BY TopologyAssumption DEF ExclusiveInv, TypeOK
<1>1. target[u] \in Model /\ UNCHANGED target
  BY WorkCovered DEF LoadTarget, Load, Start, Activate, Finish, Cleanup, Discard, Loading, jobVars
<1> DEFINE m == target[u]
           a == AdapterOf[m]
<1>2. /\ \A b \in Adapter : proc[b] # "exited"
      /\ \A n \in resident : Live(AdapterOf[n])
  BY DEF NobodyGone, ServerShape
<1> USE DEF TypeOK, Live, ActivatesOn, Goto, SetState, backendVars, loopVars, requestVars, jobVars, dispatchVars
<1>3. CASE Load(u)
  BY <1>0, <1>1, <1>2, <1>3 DEF Load
<1>4. CASE Start(u)
  <2>1. CASE Live(a) /\ UNCHANGED proc /\ pc'[u] = "activate" /\ resident' \in {resident, resident \cup {m}}
             /\ (Managed(m) /\ m \notin DeactivateRoute => proc[a] = "owned")
    BY <1>0, <1>1, <1>2, <1>4, <2>1 DEF Managed
  <2>2. CASE proc[a] = "none" /\ Launched(m)
    <3>1. \A n \in resident : AdapterOf[n] # a
      BY <1>2, <2>2
    <3> QED BY <1>0, <1>1, <1>2, <1>4, <2>2, <3>1 DEF Launched, ModelsOn, Managed, Start
  <2>3. CASE proc[a] = "none" /\ proc' = [proc EXCEPT ![a] = "none"] /\ resident' = resident \ ModelsOn(a) /\ pc'[u] = "fail"
    <3>1. \A n \in resident : AdapterOf[n] # a
      BY <1>2, <2>3
    <3> QED BY <1>0, <1>1, <1>2, <1>4, <2>3, <3>1 DEF ModelsOn, Start
  <2>4. CASE UNCHANGED <<proc, resident>> /\ pc'[u] = "fail"
    BY <1>0, <1>1, <1>2, <1>4, <2>4 DEF Start
  <2> QED
    <3>1. "unhealthy" \notin Faults /\ "stop" \notin Faults /\ proc[a] # "exited"
      BY <1>0, <1>1, <1>2 DEF Orderly, Reliable
    <3> QED BY <1>0, <1>1, <1>4, <2>1, <2>2, <2>3, <2>4, <3>1 DEF Start, LoadFailed, StartFailed, Managed
<1>5. CASE Activate(u)
  <2>1. ~ CanRecover(m)
    BY DEF CanRecover, Orderly
  <2>2. /\ UNCHANGED proc /\ pc'[u] # "activate" /\ pc[u] = "activate"
        /\ resident' = resident \/ (Live(a) /\ resident' = resident \cup {m})
    BY <1>0, <1>5, <2>1 DEF Activate, MayRetry, LoadFailed
  <2>3. ~ Start(u)
    BY <2>2 DEF Start
  <2> QED BY <1>0, <1>1, <1>2, <2>2, <2>3
<1>6. CASE Finish(u)
  BY <1>0, <1>1, <1>2, <1>6 DEF Finish, Start
<1>7. CASE Cleanup(u)
  <2>1. /\ UNCHANGED proc /\ pc'[u] # "activate" /\ pc[u] = "cleanup"
        /\ resident' \subseteq resident
    BY <1>0, <1>7 DEF Cleanup
  <2> QED BY <1>0, <1>1, <1>2, <2>1 DEF Start
<1>8. CASE Discard(u)
  <2>1. /\ pc'[u] # "activate" /\ pc[u] = "discard"
        /\ UNCHANGED backendVars \/ StopServer(a)
    BY <1>0, <1>8 DEF Discard
  <2> QED BY <1>0, <1>1, <1>2, <1>8, <2>1 DEF Start, StopServer, ModelsOn
<1> QED BY <1>3, <1>4, <1>5, <1>6, <1>7, <1>8 DEF LoadTarget

LEMMA ServerShapeStep ==
  ASSUME SerialTopology, Orderly, Reliable, ExclusiveInv, WorkShape, NobodyGone, ServerShape, [Next]_vars
  PROVE  ServerShape'
<1>0. TypeOK /\ (\A m \in Model : AdapterOf[m] \in Adapter) /\ resident \subseteq Model
  BY TopologyAssumption DEF ExclusiveInv, TypeOK
<1>1. CASE UNCHANGED <<state, proc, resident, pc, target, todo, subject>>
  BY <1>1 DEF NobodyGone, ServerShape, Live
<1>2. ASSUME NEW u \in Thread,
             Quiet(u) \/ Evict(u) \/ Deactivate(u) \/ StopService(u) \/ Kill(u) \/ LoadTarget(u)
      PROVE  ServerShape'
  <2>1. (\A m \in resident' : Live(AdapterOf[m])') /\ ActivatesOn(u)'
    <3>0. (\A n \in resident : Live(AdapterOf[n])) /\ ActivatesOn(u)
      BY DEF NobodyGone, ServerShape, ActivatesOn
    <3> USE DEF TypeOK, Live, ActivatesOn, Goto, SetState, backendVars, loopVars, requestVars, jobVars, dispatchVars
    <3>1. CASE Quiet(u)
      <4>1. UNCHANGED <<proc, resident>> /\ (pc'[u] \notin {"activate"} \/ UNCHANGED <<pc, target>>)
        BY <1>0, <3>1, QuietStep
      <4> QED BY <1>0, <3>0, <4>1
    <3>2. CASE Evict(u) \/ StopService(u)
      <4>1. UNCHANGED <<proc, resident>> /\ pc'[u] \notin {"activate"}
        BY <1>0, <3>2 DEF Evict, StopService, Unloaded
      <4> QED BY <1>0, <3>0, <4>1
    <3>3. CASE Deactivate(u)
      <4>1. UNCHANGED proc /\ resident' \subseteq resident /\ pc'[u] \notin {"activate"}
        BY <1>0, <3>3 DEF Deactivate
      <4> QED BY <1>0, <3>0, <4>1
    <3>4. CASE Kill(u)
      <4>1. /\ StopServer(AdapterOf[subject[u]]) \/ UNCHANGED backendVars
            /\ pc'[u] \notin {"activate"}
        BY <1>0, <3>4 DEF Kill, Unloaded
      <4> QED BY <1>0, <3>0, <4>1 DEF StopServer, ModelsOn
    <3>5. CASE LoadTarget(u)
      BY <3>5, LoadsServer
    <3> QED BY <1>2, <3>1, <3>2, <3>3, <3>4, <3>5
  <2>2. ASSUME NEW t \in Thread, t # u
        PROVE  ActivatesOn(t)'
    <3>1. pc'[t] = pc[t] /\ target'[t] = target[t]
      BY <1>0, <1>2, <2>2, Moves
    <3>2. ActivatesOn(t)
      BY DEF NobodyGone, ServerShape, ActivatesOn
    <3>3. pc[t] = "activate" => proc'[AdapterOf[target[t]]] = proc[AdapterOf[target[t]]]
      BY <1>2, <2>2, WorkCovered, OthersUntouched DEF ModelsOn, Loading
    <3> QED BY <3>1, <3>2, <3>3 DEF ActivatesOn, Live, Managed
  <2> QED BY <2>1, <2>2 DEF NobodyGone, ServerShape, ActivatesOn
<1> QED BY <1>1, <1>2, Steps

-----------------------------------------------------------------------------
(* A server that is stopped serves nobody. *)

LEMMA KillsAloneStep ==
  ASSUME SerialTopology, Orderly, Reliable, ExclusiveInv, WorkShape, NobodyGone, ServerShape, KillsAlone, [Next]_vars
  PROVE  KillsAlone'
<1>0. TypeOK
  BY DEF ExclusiveInv
<1>1. CASE UNCHANGED <<state, proc, resident, pc, target, todo, subject>>
  BY <1>1 DEF KillsAlone, Lone
<1>2. ASSUME NEW u \in Thread,
             Quiet(u) \/ Evict(u) \/ Deactivate(u) \/ StopService(u) \/ Kill(u) \/ LoadTarget(u),
             NEW t \in Thread, pc'[t] = "kill"
      PROVE  Lone(subject[t])'
  <2>1. CASE t # u
    <3>1. pc[t] = "kill" /\ subject'[t] = subject[t]
      BY <1>0, <1>2, <2>1, Moves
    <3>2. \A n \in ModelsOn(AdapterOf[subject[t]]) : state'[n] = state[n]
      BY <1>2, <2>1, <3>1, WorkCovered, OthersUntouched DEF Evicting
    <3> QED BY <3>1, <3>2 DEF KillsAlone, Lone
  <2>2. CASE t = u /\ StopService(u)
    <3>1. ~ (\E n \in ModelsOn(AdapterOf[subject[u]]) \ {subject[u]} : state[n] \in {"loading", "ready", "unloading"})
          /\ UNCHANGED <<state, subject>>
      BY <1>0, <1>2, <2>2 DEF StopService, ServiceStays, Unloaded, Goto, TypeOK
    <3> QED BY <2>2, <3>1 DEF Lone
  <2>3. CASE t = u /\ ~ StopService(u)
    <3>1. UNCHANGED <<pc, target, todo>> /\ Quiet(u)
      <4> USE DEF TypeOK, Goto, SetState
      <4>1. CASE Quiet(u)
        BY <1>0, <1>2, <2>3, <4>1, QuietStep
      <4>2. CASE Evict(u) \/ Deactivate(u) \/ Kill(u)
        BY <1>0, <1>2, <2>3, <4>2 DEF Evict, Deactivate, Kill, Unloaded
      <4>3. CASE LoadTarget(u)
        BY <1>0, <1>2, <2>3, <4>3 DEF LoadTarget, Load, Start, Activate, Finish, Cleanup, Discard, LoadFailed
      <4> QED BY <1>2, <2>3, <4>1, <4>2, <4>3
    <3>2. UNCHANGED <<state, subject>>
      BY <1>0, <3>1, QuietStep
    <3> QED BY <1>2, <2>3, <3>1, <3>2 DEF KillsAlone, Lone
  <2> QED BY <2>1, <2>2, <2>3
<1> QED BY <1>1, <1>2, Steps DEF KillsAlone

-----------------------------------------------------------------------------
(* What is in use is served. *)

(* While a thread covers an adapter, no other works there. *)
LEMMA AloneThere ==
  ASSUME SerialTopology, ExclusiveInv, NEW u \in Thread, NEW t \in Thread, t # u,
         NEW m \in Model, Covers(u, AdapterOf[m])
  PROVE  /\ target[t] = m => pc[t] \notin Loading
         /\ subject[t] = m => pc[t] \notin Evicting
<1>1. ~ Covers(t, AdapterOf[m])
  BY OneCovers DEF ExclusiveInv
<1> QED BY <1>1, WorkCovered

Uses(t, m) ==
  \/ target[t] = m /\ pc[t] \in {"finish", "cleanup"}
  \/ subject[t] = m /\ pc[t] = "deactivate"

(* A step that evicts, and one that loads, leave what is in use its weights. *)
LEMMA UsedByEviction ==
  ASSUME SerialTopology, Orderly, Reliable, ServedInv, [Next]_vars, NEW u \in Thread,
         Evict(u) \/ Deactivate(u) \/ StopService(u) \/ Kill(u),
         NEW m \in Model, InUse(m)'
  PROVE  m \in resident'
<1>0. /\ TypeOK /\ OpShape /\ ExclusiveInv /\ WorkShape /\ NobodyGone /\ ServerShape /\ KillsAlone /\ UsedIsServed
      /\ InUse(m) => m \in resident
  BY DEF ServedInv, WorkInv, ExclusiveInv, UsedIsServed
<1>1. ASSUME NEW t \in Thread, t # u, Uses(t, m)'
      PROVE  Uses(t, m)
  BY <1>0, <1>1, Moves DEF Uses
<1>2. state'[m] = "ready" \/ \E t \in Thread : Uses(t, m)'
  BY DEF InUse, Uses
<1>3. state[m] = "ready" \/ (\E t \in Thread : Uses(t, m)) => m \in resident
  BY <1>0 DEF InUse, Uses
<1> DEFINE b == subject[u]
<1> USE DEF TypeOK, Goto, SetState, backendVars, loopVars, requestVars, jobVars, dispatchVars
<1>4. CASE Evict(u)
  <2>1. UNCHANGED resident /\ pc[u] = "evict"
    BY <1>4 DEF Evict
  <2>2. CASE UNCHANGED state /\ pc'[u] = "fail"
    BY <1>0, <1>1, <1>2, <1>3, <2>1, <2>2 DEF Uses
  <2>3. CASE pc'[u] = "deactivate"
    <3>1. PICK x \in todo[u] : state' = [state EXCEPT ![x] = "unloading"] /\ subject'[u] = x
      BY <1>0, <1>4, <2>3 DEF Evict
    <3>2. state[x] = "ready" /\ x \in Model
      BY <1>0, <2>1 DEF WorkShape, MakingRoom
    <3>3. Uses(u, m)' => m = x
      BY <2>3, <3>1 DEF Uses
    <3>4. state'[m] = "ready" => state[m] = "ready"
      BY <1>0, <3>1
    <3> QED BY <1>1, <1>2, <1>3, <2>1, <3>2, <3>3, <3>4
  <2> QED BY <1>0, <1>4, <2>2, <2>3 DEF Evict
<1>5. ASSUME Deactivate(u) \/ StopService(u) \/ Kill(u)
      PROVE  /\ b \in Model /\ state[b] = "unloading" /\ pc[u] \in Evicting
             /\ \A t \in Thread \ {u} : \A n \in ModelsOn(AdapterOf[b]) : ~ Uses(t, n)
  <2>1. pc[u] \in Evicting
    BY <1>5 DEF Deactivate, StopService, Kill, Evicting
  <2>2. b \in Model /\ Covers(u, AdapterOf[b])
    BY <1>0, <2>1, WorkCovered
  <2>3. state[b] = "unloading"
    BY <1>0, <2>1 DEF WorkShape
  <2>4. \A t \in Thread \ {u} : \A n \in ModelsOn(AdapterOf[b]) : ~ Uses(t, n)
    BY <1>0, <2>2, AloneThere DEF Uses, ModelsOn, Loading, Evicting
  <2> QED BY <2>1, <2>2, <2>3, <2>4
<1>6. CASE Deactivate(u)
  <2>1. ~ Uses(u, m)'
    BY <1>0, <1>6 DEF Deactivate, Uses
  <2>2. CASE UNCHANGED state /\ resident' \in {resident, resident \ {b}}
    <3>1. m # b
      BY <1>0, <1>1, <1>2, <1>5, <1>6, <2>1, <2>2 DEF ModelsOn
    <3> QED BY <1>1, <1>2, <1>3, <2>1, <2>2, <3>1
  <2>3. CASE state' = [state EXCEPT ![b] = "ready"] /\ UNCHANGED resident
    <3>1. Uses(u, b)
      BY <1>5, <1>6 DEF Deactivate, Uses
    <3>2. state'[m] = "ready" => m = b \/ state[m] = "ready"
      BY <1>0, <2>3
    <3> QED BY <1>1, <1>2, <1>3, <2>1, <2>3, <3>1, <3>2
  <2> QED
    <3>1. StateProbe = {} /\ "unconfirmed" \notin Faults
      BY DEF Orderly, Reliable
    <3> QED BY <1>0, <1>6, <2>2, <2>3, <3>1 DEF Deactivate
<1>7. CASE StopService(u)
  <2>1. UNCHANGED resident /\ pc'[u] # "deactivate" /\ pc'[u] \notin {"finish", "cleanup"}
    BY <1>0, <1>7 DEF StopService, Unloaded
  <2>2. state'[m] = "ready" => state[m] = "ready"
    BY <1>0, <1>7 DEF StopService, Unloaded
  <2> QED BY <1>1, <1>2, <1>3, <2>1, <2>2 DEF Uses
<1>8. CASE Kill(u)
  <2>1. pc'[u] # "deactivate" /\ pc'[u] \notin {"finish", "cleanup"}
    BY <1>0, <1>8 DEF Kill, Unloaded
  <2>2. /\ StopServer(AdapterOf[b])
        /\ state' = [state EXCEPT ![b] = "unloaded"]
    BY <1>0, <1>8 DEF Kill, Unloaded, Orderly, Reliable
  <2>3. \A n \in ModelsOn(AdapterOf[b]) \ {b} : state[n] # "ready"
    BY <1>0, <1>8 DEF Kill, KillsAlone, Lone
  <2>4. m \notin ModelsOn(AdapterOf[b])
    BY <1>0, <1>1, <1>2, <1>5, <1>8, <2>1, <2>2, <2>3 DEF Uses
  <2>5. state'[m] = state[m]
    BY <1>0, <1>5, <1>8, <2>2, <2>4 DEF ModelsOn
  <2>6. resident \ ModelsOn(AdapterOf[b]) \subseteq resident'
    BY <2>2 DEF StopServer
  <2> QED BY <1>1, <1>2, <1>3, <2>1, <2>4, <2>5, <2>6 DEF Uses
<1> QED BY <1>4, <1>6, <1>7, <1>8

LEMMA UsedByLoad ==
  ASSUME SerialTopology, Orderly, Reliable, ServedInv, NEW u \in Thread, LoadTarget(u),
         NEW m \in Model, InUse(m)'
  PROVE  m \in resident'
<1>0. /\ TypeOK /\ OpShape /\ ExclusiveInv /\ WorkShape /\ NobodyGone /\ ServerShape /\ KillsAlone /\ UsedIsServed
      /\ InUse(m) => m \in resident
  BY DEF ServedInv, WorkInv, ExclusiveInv, UsedIsServed
<1>1. ASSUME NEW t \in Thread, t # u, Uses(t, m)'
      PROVE  Uses(t, m)
  BY <1>0, <1>1, Moves DEF Uses
<1>2. state'[m] = "ready" \/ \E t \in Thread : Uses(t, m)'
  BY DEF InUse, Uses
<1>3. state[m] = "ready" \/ (\E t \in Thread : Uses(t, m)) => m \in resident
  BY <1>0 DEF InUse, Uses
<1> DEFINE x == target[u]
<1>4. /\ x \in Model /\ UNCHANGED <<target, subject>>
      /\ pc[u] \in Loading \cup {"load"}
  BY <1>0, WorkCovered DEF LoadTarget, Load, Start, Activate, Finish, Cleanup, Discard, Loading, jobVars, loopVars
<1>5. \A t \in Thread \ {u} : \A n \in ModelsOn(AdapterOf[x]) : ~ Uses(t, n)
  <2>1. Covers(u, AdapterOf[x])
    BY <1>0, <1>4, WorkCovered
  <2> QED BY <1>0, <2>1, AloneThere DEF Uses, ModelsOn, Loading, Evicting
<1> USE DEF TypeOK, Goto, SetState, backendVars, loopVars, requestVars, jobVars, dispatchVars
<1>6. CASE Load(u) \/ Start(u)
  <2>1. /\ pc'[u] \notin {"finish", "cleanup", "deactivate"}
        /\ state'[m] = "ready" => state[m] = "ready"
    BY <1>0, <1>4, <1>6 DEF Load, Start, LoadFailed
  <2>2. resident \subseteq resident'
    BY <1>0, <1>6, LoadsServer DEF Load
  <2> QED BY <1>1, <1>2, <1>3, <2>1, <2>2 DEF Uses
<1>7. CASE Activate(u)
  <2>1. ~ CanRecover(x)
    BY DEF CanRecover, Orderly
  <2>2. "unconfirmed" \notin Faults /\ Live(AdapterOf[x])
    BY <1>0, <1>7 DEF Orderly, Reliable, NobodyGone, ServerShape, Activate
  <2>3. \/ pc'[u] = "finish" /\ UNCHANGED state /\ resident' = resident \cup {x}
        \/ pc'[u] = "fail" /\ state' = [state EXCEPT ![x] = "failed"] /\ UNCHANGED resident
    BY <1>0, <1>7, <2>1, <2>2 DEF Activate, MayRetry, LoadFailed
  <2>4. Uses(u, m)' => m \in resident'
    BY <1>4, <2>3 DEF Uses
  <2>5. state'[m] = "ready" => state[m] = "ready"
    BY <1>0, <1>4, <2>3
  <2>6. resident \subseteq resident'
    BY <2>3
  <2> QED BY <1>1, <1>2, <1>3, <2>4, <2>5, <2>6
<1>8. CASE Finish(u)
  <2>1. UNCHANGED resident /\ pc[u] = "finish" /\ pc'[u] # "deactivate"
    BY <1>0, <1>8 DEF Finish
  <2>2. Uses(u, x)
    BY <2>1 DEF Uses
  <2>3. (Uses(u, m)' => m = x) /\ (state'[m] = "ready" => m = x \/ state[m] = "ready")
    BY <1>0, <1>4, <1>8, <2>1 DEF Finish, Uses
  <2> QED BY <1>1, <1>2, <1>3, <2>1, <2>2, <2>3
<1>9. CASE Cleanup(u)
  <2>1. pc[u] = "cleanup" /\ Uses(u, x)
    BY <1>9 DEF Cleanup, Uses
  <2>2. ~ Uses(u, m)'
    BY <1>0, <1>9 DEF Cleanup, Uses
  <2>3. CASE UNCHANGED resident
    <3>1. state'[m] = "ready" => m = x \/ state[m] = "ready"
      BY <1>0, <1>4, <1>9 DEF Cleanup
    <3> QED BY <1>1, <1>2, <1>3, <2>1, <2>2, <2>3, <3>1
  <2>4. CASE UNCHANGED state /\ resident' \in {resident, resident \ {x}}
    <3>1. state[x] = "unloading"
      BY <1>0, <2>1 DEF WorkShape
    <3>2. m # x
      BY <1>1, <1>2, <1>4, <1>5, <2>2, <2>4, <3>1 DEF ModelsOn
    <3> QED BY <1>1, <1>2, <1>3, <2>2, <2>4, <3>2
  <2> QED
    <3>1. "unconfirmed" \notin Faults
      BY DEF Orderly, Reliable
    <3> QED BY <1>0, <1>9, <2>3, <2>4, <3>1 DEF Cleanup
<1>10. CASE Discard(u)
  <2>1. ~ Uses(u, m)'
    BY <1>0, <1>10 DEF Discard, Uses
  <2>2. /\ state' = [state EXCEPT ![x] = "unloaded"]
        /\ UNCHANGED resident \/ (~ ServiceStays(x, x \in KeepResident) /\ StopServer(AdapterOf[x]))
    BY <1>0, <1>10 DEF Discard, Orderly, Reliable
  <2>3. m # x /\ state'[m] = state[m]
    BY <1>0, <1>1, <1>2, <1>4, <1>5, <2>1, <2>2 DEF ModelsOn
  <2>4. CASE UNCHANGED resident
    BY <1>1, <1>2, <1>3, <2>1, <2>3, <2>4
  <2>5. CASE ~ ServiceStays(x, x \in KeepResident) /\ StopServer(AdapterOf[x])
    <3>1. m \notin ModelsOn(AdapterOf[x])
      BY <1>1, <1>2, <1>5, <2>1, <2>3, <2>5 DEF ServiceStays
    <3>2. resident \ ModelsOn(AdapterOf[x]) \subseteq resident'
      BY <2>5 DEF StopServer
    <3> QED BY <1>1, <1>2, <1>3, <2>1, <2>3, <3>1, <3>2
  <2> QED BY <2>2, <2>4, <2>5
<1> QED BY <1>6, <1>7, <1>8, <1>9, <1>10 DEF LoadTarget

(* So does every step. *)
LEMMA UsedIsServedStep ==
  ASSUME SerialTopology, Orderly, Reliable, ServedInv, [Next]_vars
  PROVE  UsedIsServed'
<1>0. TypeOK /\ ExclusiveInv /\ NobodyGone /\ ServerShape /\ UsedIsServed
  BY DEF ServedInv, WorkInv, ExclusiveInv
<1>1. CASE UNCHANGED <<state, proc, resident, pc, target, todo, subject>>
  BY <1>0, <1>1 DEF UsedIsServed, InUse
<1>2. ASSUME NEW u \in Thread, Quiet(u), NEW m \in Model, InUse(m)'
      PROVE  m \in resident'
  <2>1. /\ UNCHANGED <<state, resident, subject>>
        /\ pc'[u] \notin {"finish", "cleanup", "deactivate"} \/ UNCHANGED <<pc, target>>
    BY <1>0, <1>2, QuietStep
  <2>2. \A t \in Thread \ {u} : pc'[t] = pc[t] /\ target'[t] = target[t]
    BY <1>0, <1>2, Moves
  <2>3. InUse(m)
    BY <1>2, <2>1, <2>2 DEF InUse
  <2> QED BY <1>0, <2>1, <2>3 DEF UsedIsServed
<1> QED BY <1>0, <1>1, <1>2, Steps, UsedByEviction, UsedByLoad DEF UsedIsServed

(* The invariant behind ReadyIsServed. *)
LEMMA ServedInvariance ==
  ASSUME SerialTopology, Orderly, Reliable
  PROVE  Spec => []ServedInv
<1>1. Init => ServerShape /\ KillsAlone /\ UsedIsServed
  BY TopologyAssumption DEF Init, ServerShape, KillsAlone, UsedIsServed, InUse, Evicting
<1>2. ServedInv /\ WorkInv' /\ [Next]_vars => ServedInv'
  BY ServerShapeStep, KillsAloneStep, UsedIsServedStep DEF ServedInv, WorkInv
<1>3. Spec => []WorkInv
  BY WorkInvariance
<1>4. WorkInv /\ ServerShape /\ KillsAlone /\ UsedIsServed => ServedInv
  BY DEF ServedInv, WorkInv
<1> QED BY <1>1, <1>2, <1>3, <1>4, PTL DEF Spec

(* A model that is offered to requests is really served: where nothing happens
   to a server but what the dispatcher has it do, no unload, switch, rollback or
   failed load of another model takes its server away.  About _unload_service
   (1818-1841), which looks at the siblings without the condition. *)
THEOREM ReadyAlwaysServed ==
  ASSUME SerialTopology, Orderly, Reliable
  PROVE  Spec => []ReadyIsServed
<1>1. ServedInv => ReadyIsServed
  BY DEF ServedInv, WorkInv, UsedIsServed, InUse, ReadyIsServed
<1> QED BY <1>1, ServedInvariance, PTL

-----------------------------------------------------------------------------
(* The weights in memory. *)

(* An unload of such a model frees its weights: it has a deactivation call, or
   it is the process, which nothing else may keep alive. *)
Releasable(m) ==
  \/ Deactivates(m)
  \/ /\ Managed(m)
     /\ m \notin KeepResident
     /\ \A n \in ModelsOn(AdapterOf[m]) \ {m} : Conflict(m, n)

RivalsReleasable == \A m, n \in Model : Conflict(m, n) => Releasable(m)

(* Who has weights in memory is ready or is being worked on, at a label at
   which it may have them. *)
HasWeights(t, m) ==
  \/ /\ target[t] = m
     /\ \/ pc[t] \in {"finish", "cleanup"}
        \/ pc[t] = "activate" /\ m \notin ActivateRoute
        \/ pc[t] = "discard" /\ ~ Deactivates(m)
  \/ /\ subject[t] = m
     /\ \/ pc[t] = "deactivate"
        \/ pc[t] \in {"stop", "kill"} /\ ~ Deactivates(m)

Accounted(m) == state[m] = "ready" \/ \E t \in Thread : HasWeights(t, m)

(* A server that cannot be asked to drop them has been started here. *)
Returnable(m) == Deactivates(m) \/ proc[AdapterOf[m]] = "owned"

WeightsAccounted == \A m \in resident : Releasable(m) => Accounted(m) /\ Returnable(m)

(* Until its process is stopped, what is evicted keeps its rivals out. *)
SubjectsApart ==
  \A t \in Thread : pc[t] \in Evicting => \A n \in Model : Conflict(subject[t], n) => n \notin Holding

WeightsInv ==
  /\ ServedInv
  /\ TransientsHaveOwner
  /\ SubjectsApart
  /\ WeightsAccounted

(* What is evicted keeps its rivals out: they come to hold nothing meanwhile. *)
LEMMA SubjectsApartStep ==
  ASSUME SerialTopology, Orderly, Reliable, ServedInv, SubjectsApart, [Next]_vars
  PROVE  SubjectsApart'
<1>0. ExclusiveInv /\ TypeOK /\ ClosedTopology /\ Recoverable = {}
  BY SerialIsClosed DEF ServedInv, WorkInv, ExclusiveInv, Orderly, Reliable
<1>1. SUFFICES ASSUME NEW t \in Thread, pc'[t] \in Evicting,
                      NEW n \in Model, Conflict(subject'[t], n), n \in Holding'
               PROVE  FALSE
  BY DEF SubjectsApart, Conflict
<1> DEFINE b == subject'[t]
<1>2. /\ \/ pc[t] \in Evicting /\ b = subject[t]
         \/ pc[t] = "evict" /\ b \in todo[t]
      /\ target'[t] = target[t]
  BY <1>0, <1>1, SubjectOrigin DEF Evicting
<1>3. b \in Model /\ lease[t] = TransitionKeys(t) /\ Keys(b) \cap TransitionKeys(t) # {}
  BY <1>0, <1>2 DEF ExclusiveInv, TypeOK, OpShape, EvictsOwn, LeasesWhole, Locked, MakingRoom, Evicting
<1>4. n \notin Holding
  BY <1>0, <1>1, <1>2 DEF SubjectsApart, ExclusiveInv, VictimsApart, MakingRoom
<1>5. pc[t] = "evict" /\ b = n
  BY <1>0, <1>1, <1>2, <1>3, <1>4, Newcomer DEF Evicting
<1> QED BY <1>1, <1>5 DEF Conflict

(* Nothing else keeps the server of a model that cannot be deactivated. *)
LEMMA NothingStays ==
  ASSUME SerialTopology, ServedInv, TransientsHaveOwner, NEW u \in Thread, NEW x \in Model,
         Covers(u, AdapterOf[x]), Releasable(x), ~ Deactivates(x), NEW keep,
         keep => x \in KeepResident \/ x \in DeactivateRoute,
         \/ target[u] = x /\ pc[u] \in {"cleanup", "discard"}
         \/ subject[u] = x /\ pc[u] \in Evicting,
         \A n \in Model : Conflict(x, n) => n \notin Holding
  PROVE  ~ ServiceStays(x, keep)
<1>1. Managed(x) /\ x \notin KeepResident /\ x \notin DeactivateRoute
      /\ \A n \in ModelsOn(AdapterOf[x]) \ {x} : Conflict(x, n)
  BY DEF Releasable, Deactivates, Managed
<1>2. ASSUME NEW n \in ModelsOn(AdapterOf[x]) \ {x}, state[n] \in {"loading", "ready", "unloading"}
      PROVE  FALSE
  <2>0. n \in Model /\ AdapterOf[n] = AdapterOf[x]
    BY DEF ModelsOn
  <2>1. state[n] = "unloading"
    BY <1>1, <1>2, <2>0 DEF Holding
  <2>2. PICK t \in Thread : UnloadOwner(t, n)
    BY <2>0, <2>1 DEF TransientsHaveOwner, UnloadingHasOwner, UnloadOwner
  <2>3. t = u
    BY <2>0, <2>2, AloneThere DEF ServedInv, WorkInv, UnloadOwner, Loading, Evicting
  <2>4. UnloadOwner(u, n) /\ n # x
    BY <2>2, <2>3
  <2> QED
    <3>1. pc[u] \in Evicting => subject[u] = x
      BY DEF Evicting
    <3>2. pc[u] \in {"cleanup", "discard"} => target[u] = x
      BY DEF Evicting
    <3> QED BY <2>4, <3>1, <3>2 DEF UnloadOwner, Evicting
<1> QED BY <1>1, <1>2 DEF ServiceStays

(* Who has weights after a step that evicts, and after one that loads. *)
LEMMA WeightsAfterEviction ==
  ASSUME SerialTopology, Orderly, Reliable, WeightsInv, [Next]_vars, NEW u \in Thread,
         Evict(u) \/ Deactivate(u) \/ StopService(u) \/ Kill(u),
         NEW m \in resident', Releasable(m)
  PROVE  Accounted(m)' /\ Returnable(m)'
<1>0. /\ TypeOK /\ OpShape /\ ExclusiveInv /\ WorkShape /\ NobodyGone /\ ServerShape /\ KillsAlone /\ ServedInv
      /\ TransientsHaveOwner /\ SubjectsApart /\ \A n \in Model : AdapterOf[n] \in Adapter
  BY TopologyAssumption DEF WeightsInv, ServedInv, WorkInv, ExclusiveInv
<1>1. m \in resident /\ m \in Model
  <2>1. resident' \subseteq resident
    BY DEF Evict, Deactivate, StopService, Kill, StopServer, backendVars
  <2> QED BY <1>0, <2>1 DEF TypeOK
<1>2. Accounted(m) /\ Returnable(m)
  BY <1>1 DEF WeightsInv, WeightsAccounted
<1>3. \A t \in Thread \ {u} : HasWeights(t, m) => HasWeights(t, m)'
  BY <1>0, Moves DEF HasWeights
<1> DEFINE b == subject[u]
<1> USE DEF TypeOK, Goto, SetState, backendVars, loopVars, requestVars, jobVars, dispatchVars
<1>4. ASSUME Deactivate(u) \/ StopService(u) \/ Kill(u)
      PROVE  /\ b \in Model /\ Covers(u, AdapterOf[b]) /\ state[b] = "unloading" /\ pc[u] \in Evicting
             /\ m # b => ~ HasWeights(u, m)
             /\ m = b => HasWeights(u, b)
  <2>1. pc[u] \in Evicting
    BY <1>4 DEF Deactivate, StopService, Kill, Evicting
  <2>2. b \in Model /\ Covers(u, AdapterOf[b]) /\ state[b] = "unloading"
    BY <1>0, <2>1, WorkCovered DEF WorkShape
  <2>3. \A t \in Thread \ {u} : ~ HasWeights(t, b)
    BY <1>0, <2>2, AloneThere DEF HasWeights, Loading, Evicting
  <2>4. m = b => HasWeights(u, b)
    BY <1>2, <2>2, <2>3 DEF Accounted
  <2>5. m # b => ~ HasWeights(u, m)
    BY <2>1 DEF HasWeights, Evicting
  <2> QED BY <2>1, <2>2, <2>4, <2>5
<1>5. CASE Evict(u)
  <2>1. UNCHANGED proc /\ ~ HasWeights(u, m)
    BY <1>5 DEF Evict, HasWeights
  <2>2. CASE UNCHANGED state
    BY <1>2, <1>3, <2>1, <2>2 DEF Accounted, Returnable
  <2>3. CASE pc'[u] = "deactivate"
    <3>1. PICK x \in todo[u] : state' = [state EXCEPT ![x] = "unloading"] /\ subject'[u] = x
      BY <1>0, <1>5, <2>3 DEF Evict
    <3>2. m = x => HasWeights(u, m)'
      BY <2>3, <3>1 DEF HasWeights
    <3>3. m # x => state'[m] = state[m]
      BY <1>0, <1>1, <3>1
    <3> QED BY <1>2, <1>3, <2>1, <3>2, <3>3 DEF Accounted, Returnable
  <2> QED BY <1>0, <1>5, <2>2, <2>3 DEF Evict
<1>6. CASE Deactivate(u)
  <2>1. CASE state' = [state EXCEPT ![b] = "ready"] /\ UNCHANGED proc
    <3>1. m = b \/ state'[m] = state[m]
      BY <1>0, <1>1, <2>1
    <3> QED BY <1>0, <1>1, <1>2, <1>3, <1>4, <1>6, <2>1, <3>1 DEF Accounted, Returnable
  <2>2. CASE /\ resident' = (IF Deactivates(b) THEN resident \ {b} ELSE resident)
             /\ pc'[u] = "stop" /\ UNCHANGED <<state, subject, proc>>
    <3>1. m = b => ~ Deactivates(b) /\ HasWeights(u, b)'
      BY <2>2 DEF HasWeights
    <3> QED BY <1>2, <1>3, <1>4, <1>6, <2>2, <3>1 DEF Accounted, Returnable
  <2> QED BY <1>0, <1>6, <2>1, <2>2 DEF Deactivate
<1>7. ASSUME m = b, pc[u] \in {"stop", "kill"}
      PROVE  /\ ~ Deactivates(b) /\ Managed(b) /\ proc[AdapterOf[b]] = "owned"
             /\ \A keep : (keep => b \in KeepResident \/ b \in DeactivateRoute) => ~ ServiceStays(b, keep)
  <2>1. ~ Deactivates(b)
    <3>1. b \in Model /\ pc[u] \in Evicting
      BY <1>1, <1>7 DEF Evicting
    <3>2. state[b] = "unloading" /\ Covers(u, AdapterOf[b])
      BY <1>0, <3>1, WorkCovered DEF WorkShape
    <3>3. \A t \in Thread \ {u} : ~ HasWeights(t, b)
      BY <1>0, <3>1, <3>2, AloneThere DEF HasWeights, Loading, Evicting
    <3>4. HasWeights(u, b)
      BY <1>2, <1>7, <3>2, <3>3 DEF Accounted
    <3> QED BY <1>7, <3>4 DEF HasWeights
  <2>2. Managed(b) /\ proc[AdapterOf[b]] = "owned" /\ b \in Model /\ pc[u] \in Evicting
    BY <1>1, <1>2, <1>7, <2>1 DEF Releasable, Returnable, Evicting
  <2>3. Covers(u, AdapterOf[b]) /\ \A n \in Model : Conflict(b, n) => n \notin Holding
    BY <1>0, <2>2, WorkCovered DEF SubjectsApart
  <2> QED BY <1>0, <1>7, <2>1, <2>2, <2>3, NothingStays
<1>8. CASE StopService(u)
  <2>1. CASE pc'[u] = "kill" /\ UNCHANGED <<state, subject, proc>>
    <3>1. HasWeights(u, m) => HasWeights(u, m)'
      BY <1>8, <2>1 DEF HasWeights, StopService
    <3> QED BY <1>2, <1>3, <2>1, <3>1 DEF Accounted, Returnable
  <2>2. CASE state' = [state EXCEPT ![b] = "unloaded"] /\ UNCHANGED proc
             /\ \E keep \in BOOLEAN : (keep => b \in KeepResident \/ b \in DeactivateRoute) /\ ServiceStays(b, keep)
    <3>1. m # b
      BY <1>7, <1>8, <2>2 DEF StopService
    <3>2. state'[m] = state[m]
      BY <1>0, <1>1, <2>2, <3>1
    <3> QED BY <1>2, <1>3, <1>4, <1>8, <2>2, <3>1, <3>2 DEF Accounted, Returnable
  <2> QED BY <1>0, <1>8, <2>1, <2>2 DEF StopService, Unloaded, NativeSafe
<1>9. CASE Kill(u)
  <2>1. /\ StopServer(AdapterOf[b])
        /\ state' = [state EXCEPT ![b] = "unloaded"] /\ pc[u] = "kill"
    BY <1>0, <1>9 DEF Kill, Unloaded, Orderly, Reliable
  <2>2. m # b
    <3>1. ASSUME m = b
          PROVE  FALSE
      <4>1. proc[AdapterOf[b]] = "owned" /\ b \in ModelsOn(AdapterOf[b])
        BY <1>1, <1>7, <2>1, <3>1 DEF ModelsOn
      <4> QED BY <2>1, <3>1, <4>1 DEF StopServer
    <3> QED BY <3>1
  <2>3. state'[m] = state[m]
    BY <1>0, <1>1, <2>1, <2>2
  <2>4. Returnable(m)'
    <3>1. CASE AdapterOf[m] = AdapterOf[b]
      <4>1. UNCHANGED proc
        BY <1>1, <2>1, <3>1 DEF StopServer, ModelsOn
      <4> QED BY <1>2, <4>1 DEF Returnable
    <3>2. CASE AdapterOf[m] # AdapterOf[b]
      <4>1. proc'[AdapterOf[m]] = proc[AdapterOf[m]]
        BY <1>0, <1>1, <2>1, <3>2 DEF StopServer
      <4> QED BY <1>2, <4>1 DEF Returnable
    <3> QED BY <3>1, <3>2
  <2> QED BY <1>2, <1>3, <1>4, <1>9, <2>2, <2>3, <2>4 DEF Accounted
<1> QED BY <1>5, <1>6, <1>8, <1>9

LEMMA WeightsAfterLoad ==
  ASSUME SerialTopology, Orderly, Reliable, WeightsInv, NEW u \in Thread, LoadTarget(u),
         NEW m \in resident', Releasable(m)
  PROVE  Accounted(m)' /\ Returnable(m)'
<1>0. /\ TypeOK /\ OpShape /\ ExclusiveInv /\ WorkShape /\ NobodyGone /\ ServerShape /\ ServedInv
      /\ TransientsHaveOwner /\ RivalsApart /\ \A n \in Model : AdapterOf[n] \in Adapter
  BY TopologyAssumption DEF WeightsInv, ServedInv, WorkInv, ExclusiveInv
<1> DEFINE x == target[u]
<1>1. /\ x \in Model /\ UNCHANGED <<target, subject>> /\ Covers(u, AdapterOf[x])
      /\ pc[u] \in Loading \cup {"load"}
  <2>1. /\ pc[u] \in Loading \cup {"load"} /\ UNCHANGED <<target, subject>>
    BY DEF LoadTarget, Load, Start, Activate, Finish, Cleanup, Discard, Loading, jobVars, loopVars
  <2> QED BY <1>0, <2>1, WorkCovered
<1>2. /\ m \in resident => Accounted(m) /\ Returnable(m)
      /\ resident \subseteq Model
  BY <1>0 DEF WeightsInv, WeightsAccounted, TypeOK
<1>3. \A t \in Thread \ {u} : HasWeights(t, m) => HasWeights(t, m)'
  BY <1>0, Moves DEF HasWeights
<1>4. m # x => ~ HasWeights(u, m)
  BY <1>1 DEF HasWeights, Loading
<1>5. \A t \in Thread \ {u} : ~ HasWeights(t, x)
  BY <1>0, <1>1, AloneThere DEF HasWeights, Loading, Evicting
<1>6. state[x] # "ready"
  BY <1>0, <1>1 DEF WorkShape, Loading
<1>7. x \in resident /\ Releasable(x) => HasWeights(u, x) /\ Returnable(x)
  <2>1. x \in resident /\ Releasable(x) => Accounted(x) /\ Returnable(x)
    BY DEF WeightsInv, WeightsAccounted
  <2> QED BY <1>5, <1>6, <2>1 DEF Accounted
<1>8. m \in Model /\ (m # x => state'[m] = state[m])
  <2>1. m \in Model
    BY <1>0, <1>1, <1>2 DEF LoadTarget, Load, Start, Activate, Finish, Cleanup, Discard, Launched, StartFailed, StopServer, backendVars
  <2>2. \/ UNCHANGED state
        \/ \E s \in State : state' = [state EXCEPT ![x] = s]
    BY DEF LoadTarget, Load, Start, Activate, Finish, Cleanup, Discard, LoadFailed, SetState, State
  <2> QED BY <1>0, <2>1, <2>2 DEF TypeOK
<1>9. ASSUME m # x
      PROVE  Accounted(m)' /\ Returnable(m)'
  <2>1. m \in resident
    BY <1>2, <1>9 DEF LoadTarget, Load, Start, Activate, Finish, Cleanup, Discard, Launched, StartFailed, StopServer, MayRetry, backendVars
  <2>2. Accounted(m)'
    BY <1>2, <1>3, <1>4, <1>8, <1>9, <2>1 DEF Accounted
  <2>3. Returnable(m)'
    <3>1. CASE ~ Discard(u)
      <4>1. \A a \in Adapter : proc[a] = "owned" => proc'[a] = "owned"
        BY <1>0, <3>1, LoadsServer
      <4> QED BY <1>0, <1>2, <1>8, <2>1, <4>1 DEF Returnable
    <3>2. CASE Discard(u) /\ AdapterOf[m] = AdapterOf[x]
      <4>1. UNCHANGED proc
        BY <1>0, <1>1, <1>8, <3>2 DEF Discard, StopServer, ModelsOn, backendVars, TypeOK
      <4> QED BY <1>2, <2>1, <4>1 DEF Returnable
    <3>3. CASE Discard(u) /\ AdapterOf[m] # AdapterOf[x]
      <4>1. proc'[AdapterOf[m]] = proc[AdapterOf[m]]
        BY <1>0, <1>8, <3>3 DEF Discard, StopServer, backendVars, TypeOK
      <4> QED BY <1>2, <2>1, <4>1 DEF Returnable
    <3> QED BY <3>1, <3>2, <3>3
  <2> QED BY <2>2, <2>3
<1> USE DEF TypeOK, Goto, SetState, backendVars, loopVars, requestVars, jobVars, dispatchVars
<1>10. ASSUME m = x, Load(u)
       PROVE  FALSE
  <2>1. pc[u] = "load" /\ UNCHANGED resident
    BY <1>10 DEF Load
  <2> QED BY <1>7, <1>10, <2>1 DEF HasWeights
<1>11. ASSUME m = x, Start(u)
       PROVE  Accounted(m)' /\ Returnable(m)'
  <2>1. pc[u] = "start" /\ x \notin resident
    BY <1>7, <1>11 DEF Start, HasWeights
  <2>2. pc'[u] = "activate" /\ x \notin ActivateRoute
    BY <1>0, <1>11, <2>1 DEF Start, Launched, StartFailed, ModelsOn
  <2>3. HasWeights(u, m)'
    BY <1>1, <1>11, <2>2 DEF HasWeights
  <2>4. Returnable(m)'
    <3>1. Managed(x) /\ x \notin DeactivateRoute => proc'[AdapterOf[x]] = "owned"
      BY <1>0, <1>1, <1>11, <2>2, LoadsServer DEF ActivatesOn, Managed
    <3>2. Deactivates(x) \/ (Managed(x) /\ x \notin DeactivateRoute)
      BY <1>11 DEF Releasable, Deactivates, Managed
    <3> QED BY <1>11, <3>1, <3>2 DEF Returnable
  <2> QED BY <2>3, <2>4 DEF Accounted
<1>12. ASSUME m = x, Activate(u)
       PROVE  Accounted(m)' /\ Returnable(m)'
  <2>1. ~ CanRecover(x) /\ "unconfirmed" \notin Faults /\ StateProbe = {}
    BY DEF CanRecover, Orderly, Reliable
  <2>2. pc[u] = "activate" /\ UNCHANGED proc
    BY <1>12, <2>1 DEF Activate, MayRetry
  <2>3. pc'[u] = "finish"
    <3>1. x \in ActivateRoute => x \notin resident
      BY <1>7, <1>12, <2>2 DEF HasWeights
    <3> QED BY <1>0, <1>12, <2>1, <3>1 DEF Activate, Activates, MayRetry, LoadFailed
  <2>4. Returnable(m)'
    <3>1. Managed(x) /\ x \notin DeactivateRoute => proc[AdapterOf[x]] = "owned"
      BY <1>0, <2>2 DEF NobodyGone, ServerShape
    <3>2. Deactivates(x) \/ (Managed(x) /\ x \notin DeactivateRoute)
      BY <1>12 DEF Releasable, Deactivates, Managed
    <3> QED BY <1>12, <2>2, <3>1, <3>2 DEF Returnable
  <2>5. HasWeights(u, m)'
    BY <1>1, <1>12, <2>3 DEF HasWeights
  <2> QED BY <2>4, <2>5 DEF Accounted
<1>13. ASSUME m = x, Finish(u)
       PROVE  Accounted(m)' /\ Returnable(m)'
  <2>1. Returnable(m)'
    BY <1>7, <1>13 DEF Finish, Returnable
  <2>2. state'[m] = "ready" \/ pc'[u] = "cleanup"
    BY <1>0, <1>1, <1>13 DEF Finish
  <2>3. pc'[u] = "cleanup" => HasWeights(u, m)'
    BY <1>1, <1>13 DEF HasWeights
  <2> QED BY <2>1, <2>2, <2>3 DEF Accounted
<1>14. ASSUME m = x, Cleanup(u)
       PROVE  Accounted(m)' /\ Returnable(m)'
  <2>1. Returnable(m)'
    <3>1. x \in resident /\ UNCHANGED proc
      BY <1>14 DEF Cleanup
    <3> QED BY <1>7, <1>14, <3>1 DEF Returnable
  <2>2. state'[m] = "ready" \/ (pc'[u] = "discard" /\ ~ Deactivates(m))
    BY <1>0, <1>1, <1>14 DEF Cleanup
  <2>3. pc'[u] = "discard" /\ ~ Deactivates(m) => HasWeights(u, m)'
    BY <1>1, <1>14 DEF HasWeights
  <2> QED BY <2>1, <2>2, <2>3 DEF Accounted
<1>15. ASSUME m = x, Discard(u)
       PROVE  FALSE
  <2>1. x \in resident /\ pc[u] = "discard"
    BY <1>15 DEF Discard, StopServer
  <2>2. ~ Deactivates(x) /\ proc[AdapterOf[x]] = "owned"
    BY <1>7, <1>15, <2>1 DEF HasWeights, Returnable
  <2>3. x \in Holding
    BY <1>1, <2>1 DEF Holding
  <2>4. ~ ServiceStays(x, x \in KeepResident)
    BY <1>0, <1>1, <1>15, <2>1, <2>2, <2>3, NothingStays DEF RivalsApart
  <2>5. StopServer(AdapterOf[x])
    BY <1>15, <2>4 DEF Discard, Orderly, Reliable
  <2> QED BY <1>1, <1>15, <2>2, <2>5 DEF StopServer, ModelsOn
<1> QED BY <1>9, <1>10, <1>11, <1>12, <1>13, <1>14, <1>15 DEF LoadTarget

LEMMA WeightsAccountedStep ==
  ASSUME SerialTopology, Orderly, Reliable, WeightsInv, [Next]_vars
  PROVE  WeightsAccounted'
<1>0. TypeOK /\ ExclusiveInv /\ NobodyGone /\ ServerShape /\ WeightsAccounted
  BY DEF WeightsInv, ServedInv, WorkInv, ExclusiveInv
<1>1. CASE UNCHANGED <<state, proc, resident, pc, target, todo, subject>>
  BY <1>0, <1>1 DEF WeightsAccounted, Accounted, HasWeights, Returnable
<1>2. ASSUME NEW u \in Thread, Quiet(u), NEW m \in resident', Releasable(m)
      PROVE  Accounted(m)' /\ Returnable(m)'
  <2>1. UNCHANGED <<state, proc, resident, subject>>
    BY <1>0, <1>2, QuietStep
  <2>2. Accounted(m) /\ Returnable(m)
    BY <1>0, <1>2, <2>1 DEF WeightsAccounted
  <2>3. \A t \in Thread \ {u} : HasWeights(t, m) => HasWeights(t, m)'
    BY <1>0, <1>2, Moves DEF HasWeights
  <2>4. HasWeights(u, m) => HasWeights(u, m)'
    <3>1. pc[u] \notin Loading \cup Evicting \/ UNCHANGED <<pc, target, subject>>
      BY <1>2 DEF Loading, Evicting, Quiet, BeginOperation, BeginRequest, BeginSwitch, BeginUnload, BeginStatus, Begin, Snapshot, Observed, Lock, EnterTransition, TimeOut, LeaveTransition, Decide, Check, Probe, Answer, EndRequest
    <3> QED BY <3>1 DEF HasWeights, Loading, Evicting
  <2> QED BY <2>1, <2>2, <2>3, <2>4 DEF Accounted, Returnable
<1>3. \A m : Releasable(m)' <=> Releasable(m)
  BY DEF Releasable, Deactivates, Managed, Conflict, ModelsOn, NativeSafe
<1> QED BY <1>0, <1>1, <1>2, <1>3, Steps, WeightsAfterEviction, WeightsAfterLoad DEF WeightsAccounted

(* The invariant behind WeightsExclusive. *)
LEMMA WeightsInvariance ==
  ASSUME SerialTopology, Orderly, Reliable
  PROVE  Spec => []WeightsInv
<1>1. Init => TransientsHaveOwner /\ SubjectsApart /\ WeightsAccounted
  BY DEF Init, TransientsHaveOwner, UnloadingHasOwner, LoadingHasOwner, SubjectsApart, WeightsAccounted, Evicting
<1>2. WeightsInv /\ ServedInv' /\ [Next]_vars => WeightsInv'
  <2>1. "stop" \notin Faults
    BY DEF Orderly, Reliable
  <2> QED BY <2>1, TransientsHaveOwnerStep, SubjectsApartStep, WeightsAccountedStep DEF WeightsInv, ServedInv, WorkInv, ExclusiveInv
<1>3. Spec => []ServedInv
  BY ServedInvariance
<1>4. ServedInv /\ TransientsHaveOwner /\ SubjectsApart /\ WeightsAccounted => WeightsInv
  BY DEF WeightsInv
<1> QED BY <1>1, <1>2, <1>3, <1>4, PTL DEF Spec

(* The weights of two rivals are never in memory together: no path of a switch,
   an unload, a rollback or a failed load forgets a server or its model, where
   nothing else happens to the servers and an unload of a model that has rivals
   does free its weights. *)
THEOREM WeightsAlwaysExclusive ==
  ASSUME SerialTopology, Orderly, Reliable, RivalsReleasable
  PROVE  Spec => []WeightsExclusive
<1>1. ASSUME WeightsInv, NEW m \in Model, NEW n \in Model, Conflict(m, n), m \in resident, n \in resident
      PROVE  FALSE
  <2>0. ExclusiveInv /\ RivalsApart /\ SubjectsApart /\ ClosedTopology
    BY <1>1, SerialIsClosed DEF WeightsInv, ServedInv, WorkInv, ExclusiveInv
  <2>1. Conflict(n, m) /\ m # n
    <3>1. Conflict(n, m)
      BY <1>1, ConflictSymmetric
    <3> QED BY <1>1, <3>1 DEF Conflict
  <2>2. Accounted(m) /\ Accounted(n)
    BY <1>1, <2>1 DEF RivalsReleasable, WeightsInv, WeightsAccounted
  <2>3. ASSUME NEW x \in Model, Accounted(x), x \notin Holding
        PROVE  \E t \in Thread : subject[t] = x /\ pc[t] \in {"stop", "kill"}
    BY <2>3 DEF Accounted, HasWeights, Holding
  <2>4. CASE m \in Holding /\ n \in Holding
    BY <1>1, <2>0, <2>4 DEF RivalsApart
  <2>5. CASE m \notin Holding /\ n \in Holding
    BY <1>1, <2>0, <2>2, <2>3, <2>5 DEF SubjectsApart, Evicting
  <2>6. CASE m \in Holding /\ n \notin Holding
    BY <1>1, <2>0, <2>1, <2>2, <2>3, <2>6 DEF SubjectsApart, Evicting
  <2>7. CASE m \notin Holding /\ n \notin Holding
    <3>1. PICK t \in Thread : subject[t] = m /\ pc[t] \in {"stop", "kill"}
      BY <2>2, <2>3, <2>7
    <3>2. PICK u \in Thread : subject[u] = n /\ pc[u] \in {"stop", "kill"}
      BY <2>2, <2>3, <2>7
    <3>3. /\ lease[t] = TransitionKeys(t) /\ Keys(m) \cap TransitionKeys(t) # {}
          /\ lease[u] = TransitionKeys(u) /\ Keys(n) \cap TransitionKeys(u) # {}
      BY <2>0, <3>1, <3>2 DEF ExclusiveInv, LeasesWhole, EvictsOwn, Locked
    <3>4. t = u
      BY <1>1, <2>0, <3>3, OneAtATime DEF ExclusiveInv
    <3> QED BY <2>1, <3>1, <3>2, <3>4
  <2> QED BY <2>4, <2>5, <2>6, <2>7
<1>2. WeightsInv => WeightsExclusive
  BY <1>1 DEF WeightsExclusive
<1> QED BY <1>2, WeightsInvariance, PTL

-----------------------------------------------------------------------------
(* The dispatcher implements Residency, under the assumptions of
   AlwaysExclusive.  A step of a thread changes what one model holds, or to
   what one request is admitted, and never both. *)


(* A thread is at work on a model and may leave it ready. *)
Touches(u, n) ==
  \/ target[u] = n /\ pc[u] \in Loading
  \/ subject[u] = n /\ pc[u] = "deactivate"

(* A model holds its resources by its state or by a thread. *)
LEMMA HoldingTouched ==
  Holding = {m \in Model : state[m] \in {"loading", "ready"} \/ \E t \in Thread : Touches(t, m)}
BY DEF Holding, Touches, Loading

(* What a step of a thread does not touch holds its resources as before. *)
LEMMA HoldsAside ==
  ASSUME NEW u \in Thread, Aside(u), NEW n \in Model, state'[n] = state[n],
         Touches(u, n)' <=> Touches(u, n)
  PROVE  n \in Holding' <=> n \in Holding
<1>1. \A t \in Thread : Touches(t, n)' <=> Touches(t, n)
  BY DEF Aside, Touches
<1>2. Holding' = {m \in Model : state'[m] \in {"loading", "ready"} \/ \E t \in Thread : Touches(t, m)'}
  BY DEF Holding, Touches, Loading
<1> QED BY <1>1, <1>2, HoldingTouched

(* The labels at which a request is admitted, and those at which a thread has
   a model in its hands. *)
AdmittedLabels == {"relay", "recover", "closing"}
Busy == Loading \cup {"deactivate"}

(* A step of a thread between labels of neither kind. *)
LEMMA IdleMove ==
  ASSUME NEW u \in Thread, Aside(u), UNCHANGED state, pc[u] \notin Busy, pc'[u] \notin Busy
  PROVE  Holding' = Holding
<1>1. \A n \in Model : n \in Holding' <=> n \in Holding
  BY HoldsAside DEF Touches, Busy
<1> QED BY <1>1 DEF Holding

(* A step outside those labels admits no request and lets none go. *)
LEMMA AdmittedAside ==
  ASSUME NEW u \in Thread, Aside(u), pc[u] \notin AdmittedLabels, pc'[u] \notin AdmittedLabels
  PROVE  Admitted' = Admitted
<1>1. \A r \in Request :
        (IF pc'[r] \in AdmittedLabels THEN target'[r] ELSE None)
        = (IF pc[r] \in AdmittedLabels THEN target[r] ELSE None)
  BY ThreadsAssumption DEF Aside
<1> QED BY <1>1 DEF Admitted, AdmittedLabels

(* The steps that move neither. *)
LEMMA NeitherMoves ==
  ASSUME TypeOK, NEW u \in Thread,
         \/ BeginOperation(u) \/ Snapshot(u) \/ Observe(u) \/ Observed(u) \/ Lock(u)
         \/ Decide(u) \/ Check(u) \/ Probe(u)
  PROVE  UNCHANGED <<Holding, Admitted>>
<1> USE DEF TypeOK, backendVars, loopVars, requestVars, jobVars, dispatchVars
<1>1. Aside(u)
  BY StepsAside DEF Step, Refresh, MakeRoom
<1>2. UNCHANGED state
  BY DEF BeginOperation, BeginRequest, BeginSwitch, BeginUnload, BeginStatus, Begin, Snapshot, Observe,
         Observed, Lock, EnterTransition, TimeOut, LeaveTransition, Decide, Check, Probe
<1>3. pc[u] \in {"idle", "snapshot", "observe", "decide", "check", "probe", "ok", "fail"}
  BY DEF BeginOperation, BeginRequest, BeginSwitch, BeginUnload, BeginStatus, Begin, Snapshot, Observe,
         Observed, Lock, EnterTransition, TimeOut, LeaveTransition, Decide, Check, Probe
<1>4. pc'[u] \in {"snapshot", "check", "observe", "apply", "ok", "decide", "fail", "load", "probe", "evict"}
  <2>1. CASE BeginOperation(u)
    BY <2>1 DEF BeginOperation, BeginRequest, BeginSwitch, BeginUnload, BeginStatus, Begin, Goto
  <2>2. CASE Snapshot(u) \/ Observe(u) \/ Observed(u)
    BY <2>2 DEF Snapshot, Observe, Observed, Goto
  <2>3. CASE Lock(u)
    BY <2>3 DEF Lock, EnterTransition, TimeOut, LeaveTransition, Goto
  <2>4. CASE Decide(u)
    <3>1. \E label \in {"fail", "ok", "load", "probe"} : Goto(u, label)
      BY <2>4 DEF Decide
    <3> QED BY <3>1 DEF Goto
  <2>5. CASE Check(u) \/ Probe(u)
    BY <2>5 DEF Check, Probe, Goto
  <2> QED BY <2>1, <2>2, <2>3, <2>4, <2>5
<1>5. Holding' = Holding
  BY <1>1, <1>2, <1>3, <1>4, IdleMove DEF Busy, Loading
<1>6. Admitted' = Admitted
  BY <1>1, <1>3, <1>4, AdmittedAside DEF AdmittedLabels
<1> QED BY <1>5, <1>6

(* A request is admitted, or leaves; no model changes hands. *)
LEMMA AnswerMoves ==
  ASSUME TypeOK, OpShape, NEW u \in Thread, Answer(u)
  PROVE  /\ Holding' = Holding
         /\ \/ Admitted' = Admitted
            \/ /\ u \in Request /\ Admitted[u] = None /\ target[u] \in Holding
               /\ Admitted' = [Admitted EXCEPT ![u] = target[u]]
<1> USE DEF TypeOK, backendVars, loopVars, requestVars, jobVars, dispatchVars
<1>1. Aside(u)
  BY StepsAside DEF Step
<1>2. UNCHANGED state /\ pc[u] \in {"ok", "fail"} /\ pc'[u] \in {"relay", "lost", "idle"}
  BY DEF Answer, EndThread, Goto
<1>3. Holding' = Holding
  BY <1>1, <1>2, IdleMove DEF Busy, Loading
<1>4. CASE pc'[u] # "relay"
  BY <1>1, <1>2, <1>3, <1>4, AdmittedAside DEF AdmittedLabels
<1>5. CASE pc'[u] = "relay"
  <2>1. op[u] = "request" /\ state[target[u]] = "ready" /\ target' = target
    BY <1>2, <1>5 DEF Answer, EndThread, Goto
  <2>2. target[u] \in Holding
    BY <2>1 DEF OpShape, Holding
  <2>3. CASE u \in Request
    <3>1. Admitted[u] = None
      BY <1>2, <2>3 DEF Admitted
    <3>2. \A r \in Request :
            (IF pc'[r] \in AdmittedLabels THEN target'[r] ELSE None)
            = IF r = u THEN target[u] ELSE IF pc[r] \in AdmittedLabels THEN target[r] ELSE None
      BY <1>1, <1>5, <2>1, ThreadsAssumption DEF Aside, AdmittedLabels
    <3>3. Admitted' = [Admitted EXCEPT ![u] = target[u]]
      BY <3>2 DEF Admitted, AdmittedLabels
    <3> QED BY <1>3, <2>2, <2>3, <3>1, <3>3
  <2>4. CASE u \notin Request
    <3>1. \A r \in Request : pc'[r] = pc[r] /\ target'[r] = target[r]
      BY <1>1, <2>4, ThreadsAssumption DEF Aside
    <3>2. Admitted' = Admitted
      BY <3>1 DEF Admitted
    <3> QED BY <1>3, <3>2
  <2> QED BY <2>3, <2>4
<1> QED BY <1>4, <1>5

(* end_request lets its own request go and leaves every model alone. *)
LEMMA EndMoves ==
  ASSUME TypeOK, NEW u \in Request, EndRequest(u)
  PROVE  Holding' = Holding /\ Admitted' = [Admitted EXCEPT ![u] = None]
<1> USE DEF TypeOK, backendVars, loopVars, requestVars, jobVars, dispatchVars
<1>1. u \in Thread /\ Aside(u)
  BY StepsAside, ThreadsAssumption DEF Step, Serve
<1>2. UNCHANGED state /\ pc[u] \in {"relay", "closing"} /\ pc'[u] = "idle"
  BY <1>1 DEF EndRequest, EndThread, Goto
<1>3. Holding' = Holding
  BY <1>1, <1>2, IdleMove DEF Busy, Loading
<1>4. \A r \in Request :
        (IF pc'[r] \in AdmittedLabels THEN target'[r] ELSE None)
        = IF r = u THEN None ELSE IF pc[r] \in AdmittedLabels THEN target[r] ELSE None
  BY <1>1, <1>2, ThreadsAssumption DEF Aside, AdmittedLabels
<1>5. Admitted' = [Admitted EXCEPT ![u] = None]
  BY <1>4 DEF Admitted, AdmittedLabels
<1> QED BY <1>3, <1>5

(* Of a step: the other models hold what they held. *)
OnlyMoves(m) == \A n \in Model \ {m} : n \in Holding' <=> n \in Holding

(* The steps that may take a model's resources or give them up. *)
LEMMA OneMoves ==
  ASSUME TypeOK, OpShape, NEW u \in Thread,
         \/ Apply(u) \/ Evict(u) \/ Deactivate(u) \/ StopService(u) \/ Kill(u) \/ LoadTarget(u)
  PROVE  /\ Admitted' = Admitted
         /\ \E m \in Model : OnlyMoves(m)
<1> USE DEF TypeOK, backendVars, loopVars, requestVars, jobVars, dispatchVars
<1>1. Aside(u)
  BY StepsAside DEF Step, Refresh, MakeRoom
<1>2. pc[u] \notin AdmittedLabels
  BY DEF Apply, Evict, Deactivate, StopService, Kill, LoadTarget, Load, Start, Activate, Finish, Cleanup,
         Discard, AdmittedLabels
<1>3. CASE Apply(u)
  <2>1. subject[u] \in Model
    BY <1>3 DEF Apply, OpShape
  <2>2. pc[u] = "apply" /\ pc'[u] = "observe" /\ \A n \in Model \ {subject[u]} : state'[n] = state[n]
    BY <1>3 DEF Apply, Goto, SetState
  <2>3. OnlyMoves(subject[u])
    BY <1>1, <2>2, HoldsAside DEF OnlyMoves, Touches, Loading
  <2> QED BY <1>1, <1>2, <2>1, <2>2, <2>3, AdmittedAside DEF AdmittedLabels
<1>4. CASE Evict(u)
  <2>1. CASE pc'[u] = "deactivate"
    <3>1. PICK b \in Model : /\ state' = [state EXCEPT ![b] = "unloading"]
                             /\ subject' = [subject EXCEPT ![u] = b]
      BY <1>4, <2>1 DEF Evict, SetState, Goto
    <3>2. pc[u] = "evict" /\ subject'[u] = b
      BY <1>4, <3>1 DEF Evict
    <3>3. OnlyMoves(b)
      BY <1>1, <2>1, <3>1, <3>2, HoldsAside DEF OnlyMoves, Touches, Loading
    <3> QED BY <1>1, <1>2, <2>1, <3>3, AdmittedAside DEF AdmittedLabels
  <2>2. CASE pc'[u] # "deactivate"
    <3>1. pc[u] = "evict" /\ pc'[u] = "fail" /\ UNCHANGED state
      BY <1>4, <2>2 DEF Evict, Goto
    <3>2. Holding' = Holding
      BY <1>1, <3>1, IdleMove DEF Busy, Loading
    <3> QED BY <1>1, <1>2, <3>1, <3>2, AdmittedAside, TopologyAssumption DEF AdmittedLabels, OnlyMoves
  <2> QED BY <2>1, <2>2
<1>5. CASE Deactivate(u)
  <2>1. subject[u] \in Model /\ pc[u] = "deactivate"
    BY <1>5 DEF Deactivate, OpShape
  <2>2. /\ pc'[u] \in {"stop", "fail"}
        /\ \A n \in Model \ {subject[u]} : state'[n] = state[n]
    BY <1>5, <2>1 DEF Deactivate, Goto, SetState
  <2>3. OnlyMoves(subject[u])
    BY <1>1, <2>1, <2>2, HoldsAside DEF OnlyMoves, Touches, Loading
  <2> QED BY <1>1, <1>2, <2>1, <2>2, <2>3, AdmittedAside DEF AdmittedLabels
<1>6. CASE StopService(u) \/ Kill(u)
  <2>1. subject[u] \in Model /\ pc[u] \in {"stop", "kill"}
    BY <1>6 DEF StopService, Kill, OpShape
  <2>2. /\ pc'[u] \in {"kill", "evict", "ok", "decide", "fail"}
    BY <1>6, <2>1 DEF StopService, Kill, Unloaded, Goto
  <2>3. state' \in {state, [state EXCEPT ![subject[u]] = "unloaded"]}
    BY <1>6 DEF StopService, Kill, Unloaded, SetState
  <2>4. OnlyMoves(subject[u])
    BY <1>1, <2>1, <2>2, <2>3, HoldsAside DEF OnlyMoves, Touches, Loading
  <2> QED BY <1>1, <1>2, <2>1, <2>2, <2>4, AdmittedAside DEF AdmittedLabels
<1>7. CASE LoadTarget(u)
  <2>1. target[u] \in Model /\ pc[u] \in {"load"} \cup Loading
    BY <1>7 DEF LoadTarget, Load, Start, Activate, Finish, Cleanup, Discard, OpShape, Loading
  <2>2. /\ state' \in {state} \cup {[state EXCEPT ![target[u]] = s] : s \in State}
        /\ UNCHANGED <<target, subject>>
    BY <1>7 DEF LoadTarget, Load, Start, Activate, Finish, Cleanup, Discard, LoadFailed, SetState, State
  <2>3. pc'[u] \in {"start", "activate", "finish", "cleanup", "discard", "fail", "ok"}
    <3>1. CASE Load(u) \/ Start(u)
      BY <3>1 DEF Load, Start, LoadFailed, Goto
    <3>2. CASE Activate(u)
      BY <3>2 DEF Activate, LoadFailed, Goto
    <3>3. CASE Finish(u) \/ Cleanup(u) \/ Discard(u)
      BY <3>3 DEF Finish, Cleanup, Discard, Goto
    <3> QED BY <1>7, <3>1, <3>2, <3>3 DEF LoadTarget
  <2>4. OnlyMoves(target[u])
    BY <1>1, <2>1, <2>2, <2>3, HoldsAside DEF OnlyMoves, Touches, Loading
  <2> QED BY <1>1, <1>2, <2>1, <2>3, <2>4, AdmittedAside DEF AdmittedLabels
<1> QED BY <1>3, <1>4, <1>5, <1>6, <1>7

-----------------------------------------------------------------------------
(* A model that comes to hold its resources has no rival among the holders,
   because afterwards no two rivals are. *)
LEMMA TakesOrGivesUp ==
  ASSUME RivalsApart', NEW m \in Model, OnlyMoves(m), Admitted' = Admitted
  PROVE  Abstract!Take(m) \/ Abstract!GiveUp(m)
<1>1. Holding \subseteq Model /\ Holding' \subseteq Model
  BY DEF Holding
<1>2. CASE m \in Holding'
  <2>1. Holding' = Holding \cup {m}
    BY <1>1, <1>2 DEF OnlyMoves
  <2>2. \A n \in Holding : ~Conflict(m, n)
    <3>1. \A n \in Holding \ {m} : n \in Holding'
      BY <2>1
    <3>2. ~Conflict(m, m)
      BY DEF Conflict
    <3> QED BY <1>1, <1>2, <3>1, <3>2 DEF RivalsApart
  <2>3. \A n \in Holding : <<m, n>> \notin {p \in Model \X Model : Conflict(p[1], p[2])}
    BY <2>2
  <2> QED BY <2>1, <2>3 DEF Abstract!Take
<1>3. CASE m \notin Holding'
  <2>1. Holding' = Holding \ {m}
    BY <1>1, <1>3 DEF OnlyMoves
  <2> QED BY <2>1 DEF Abstract!GiveUp
<1> QED BY <1>2, <1>3

(* Every step of the dispatcher is a step of Residency or leaves both alone. *)
LEMMA ResidencyStep ==
  ASSUME ExclusiveInv, RivalsApart', Recoverable = {}, Next
  PROVE  Abstract!Next \/ UNCHANGED <<Holding, Admitted>>
<1>1. TypeOK /\ OpShape
  BY DEF ExclusiveInv
<1>2. ASSUME NEW u \in Thread,
             \/ BeginOperation(u) \/ Snapshot(u) \/ Observe(u) \/ Observed(u) \/ Lock(u)
             \/ Decide(u) \/ Check(u) \/ Probe(u)
      PROVE  UNCHANGED <<Holding, Admitted>>
  BY <1>1, <1>2, NeitherMoves
<1>3. ASSUME NEW u \in Thread,
             \/ Apply(u) \/ Evict(u) \/ Deactivate(u) \/ StopService(u) \/ Kill(u) \/ LoadTarget(u)
      PROVE  Abstract!Next
  <2>1. Admitted' = Admitted /\ \E m \in Model : OnlyMoves(m)
    BY <1>1, <1>3, OneMoves
  <2> QED BY <2>1, TakesOrGivesUp DEF Abstract!Next
<1>4. ASSUME NEW u \in Thread, Answer(u)
      PROVE  Abstract!Next \/ UNCHANGED <<Holding, Admitted>>
  <2>1. Holding' = Holding
    BY <1>1, <1>4, AnswerMoves
  <2>2. CASE Admitted' = Admitted
    BY <2>1, <2>2
  <2>3. CASE /\ u \in Request /\ Admitted[u] = None /\ target[u] \in Holding
             /\ Admitted' = [Admitted EXCEPT ![u] = target[u]]
    <3>1. Abstract!Admit(u, target[u]) /\ target[u] \in Model
      BY <2>1, <2>3 DEF Abstract!Admit, Holding
    <3> QED BY <2>3, <3>1 DEF Abstract!Next
  <2> QED BY <1>1, <1>4, <2>2, <2>3, AnswerMoves
<1>5. ASSUME NEW u \in Thread, Serve(u)
      PROVE  Abstract!Next
  <2>1. u \in Request /\ EndRequest(u)
    BY <1>5 DEF Serve, RecoverBegin, RecoverEnd, CanRecover, ExclusiveInv, NoReports
  <2>2. Abstract!Leave(u)
    BY <1>1, <2>1, EndMoves DEF Abstract!Leave
  <2> QED BY <2>1, <2>2 DEF Abstract!Next
<1>6. ASSUME (\E r \in Request : Cancel(r)) \/ (\E a \in Adapter : Crash(a))
      PROVE  UNCHANGED <<Holding, Admitted>>
  <2>1. UNCHANGED <<state, pc, target, subject>>
    BY <1>6 DEF Cancel, Crash, jobVars, loopVars
  <2> QED BY <2>1 DEF Holding, Admitted
<1> QED BY <1>2, <1>3, <1>4, <1>5, <1>6 DEF Next, Step, Refresh, MakeRoom

(* Without locks, loops, probes or processes: a model takes its resources only
   while no rival holds them, a request is admitted only to a model that holds
   its own, and everybody may leave.  That is what _activate_model, unload and
   begin_request amount to. *)
THEOREM DispatcherImplementsResidency ==
  ASSUME ClosedTopology, StateProbe = {}, Recoverable = {}
  PROVE  Spec => ImplementsResidency
<1>1. Init => Abstract!Init
  <2> SUFFICES ASSUME Init PROVE Abstract!Init
    OBVIOUS
  <2>1. Holding = {}
    BY DEF Init, Holding
  <2>2. Admitted = [r \in Request |-> None]
    BY ThreadsAssumption DEF Init, Admitted
  <2> QED BY <2>1, <2>2 DEF Abstract!Init
<1>2. ExclusiveInv /\ ExclusiveInv' /\ [Next]_vars => [Abstract!Next]_<<Holding, Admitted>>
  <2>1. ASSUME UNCHANGED vars PROVE UNCHANGED <<Holding, Admitted>>
    BY <2>1 DEF vars, dispatchVars, jobVars, loopVars, Holding, Admitted
  <2> QED BY <2>1, ResidencyStep DEF ExclusiveInv
<1> QED BY <1>1, <1>2, ExclusiveInvariance, PTL DEF Spec, ImplementsResidency, Abstract!Spec
=============================================================================
