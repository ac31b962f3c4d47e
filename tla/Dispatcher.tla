------------------------------ MODULE Dispatcher ------------------------------
(***************************************************************************)
(* The model lifecycle of ModelDispatcher (scripts/model_dispatch.py):     *)
(* begin_request, _activate_model, _capacity_blockers, _deactivate_blocker,*)
(* unload, activate, end_request, cancel, _refresh_observed_states, and    *)
(* the Metal recovery of DispatchHandler.  Every thread of the HTTP server *)
(* runs one of these operations at a time; an action is the code between   *)
(* two points at which another thread can act: a block under               *)
(* self.condition, a call to a backend, an operation on a transition lock. *)
(*                                                                         *)
(* The transition locks appear as the leases that TransitionLocks shows    *)
(* them to implement.  What a backend really holds (proc, resident) is     *)
(* kept apart from what the dispatcher believes (state).                   *)
(***************************************************************************)
EXTENDS Leases

CONSTANTS
  Request,         \* threads that serve chat requests, one request at a time
  Operator,        \* threads that serve /v1/switch, unload, status and idle
  Operations,      \* what the operators of this instance do
  Model, Adapter, Group,
  None,            \* no model
  AdapterOf,       \* the adapter of each model
  GroupsOf,        \* the effective exclusive groups of each model
  Kind,            \* managed (the dispatcher owns the process), external
                   \* (external and http-managed) or observe
  NameRank,        \* the alphabetical position of each model
  ActivateRoute,   \* the models with an activate_path
  DeactivateRoute, \* the models with a deactivate_path
  StateProbe,      \* the adapters with a model_state_path
  ActivityProbe,   \* the adapters with an active_requests_path
  Recoverable,     \* the managed mlx-serve adapters
  KeepResident,    \* the models with keep_resident
  ForeignAtStart,  \* managed adapters whose port an earlier core's server holds
  SmartScheduling, \* the smart_scheduling setting
  Faults           \* what may go wrong in this instance

FaultKind ==
  {"start",       \* a process fails to start, an external service is down
   "activate",    \* the activation call or its verification fails
   "deactivate",  \* the deactivation call fails and the weights stay
   "unconfirmed", \* a call acts on the backend but its answer is lost
   "stop",        \* the process outlives SIGTERM and SIGKILL: stop() raises
   "unhealthy",   \* a health probe of a live server fails once
   "crash",       \* an owned process exits by itself
   "probe",       \* a state probe fails
   "memory",      \* memory admission refuses the load
   "metal"}       \* a Metal GPU timeout of an mlx-serve process

ModelsOn(a) == {m \in Model : AdapterOf[m] = a}
Keys(m) == {AdapterOf[m]} \cup GroupsOf[m]

ASSUME ThreadsAssumption ==
  /\ Thread = Request \cup Operator
  /\ Request \cap Operator = {}
  /\ Operations \subseteq {"switch", "unload", "status"}
ASSUME KeysAssumption ==
  /\ Key = Adapter \cup Group
  /\ Adapter \cap Group = {}
  /\ \A a \in Adapter : Slots[a] = 1
  /\ KeySets = {Keys(m) : m \in Model} \cup {UNION {Keys(m) : m \in Model}}
ASSUME TopologyAssumption ==
  /\ IsFiniteSet(Model) /\ Model # {}
  /\ None \notin Model
  /\ AdapterOf \in [Model -> Adapter]
  /\ GroupsOf \in [Model -> SUBSET Group]
  /\ Kind \in [Adapter -> {"managed", "external", "observe"}]
  /\ NameRank \in [Model -> Nat]
  /\ \A m, n \in Model : NameRank[m] = NameRank[n] => m = n
  /\ ActivateRoute \subseteq Model /\ DeactivateRoute \subseteq Model
  /\ KeepResident \subseteq Model
  /\ StateProbe \subseteq Adapter /\ ActivityProbe \subseteq Adapter
  /\ \A a \in Recoverable \cup ForeignAtStart : a \in Adapter /\ Kind[a] = "managed"
  /\ SmartScheduling \in BOOLEAN
  /\ Faults \subseteq FaultKind

VARIABLES
  state,      \* ModelRuntime.state of each model
  proc,       \* the server of each adapter: none, owned (a live process of this
              \* dispatcher), exited (its process object is dead) or foreign
  resident,   \* the models whose weights a live server really holds
  pc,         \* the next step of each thread
  op,         \* the operation it runs
  target,     \* its model; for a request this is its entry in self._requests
  todo,       \* the models its current loop still has to handle
  subject,    \* the model its current step is about
  reading,    \* the last state probe of subject
  cancelled,  \* the cancel_event of each request
  recovered   \* recovery_state["used"] of each request

backendVars == <<proc, resident>>
loopVars == <<todo, subject, reading>>
requestVars == <<cancelled, recovered>>
jobVars == <<op, target>>
dispatchVars == <<state, backendVars, pc, jobVars, loopVars, requestVars>>
vars == <<lease, dispatchVars>>

State == {"unloaded", "loading", "ready", "unloading", "failed", "unknown"}
Proc == {"none", "owned", "exited", "foreign"}
Reading == {"none", "gone", "error", "loaded", "absent"}
Op == {"none", "request", "switch", "unload", "status"}
Label ==
  {"idle", "snapshot", "observe", "apply", "decide", "check", "probe", "evict",
   "deactivate", "stop", "kill", "load", "start", "activate", "finish", "cleanup", "discard", "ok",
   "fail", "relay", "recover", "closing", "lost"}

Init ==
  /\ LeaseInit
  /\ state = [m \in Model |-> "unloaded"]
  /\ proc = [a \in Adapter |->
       IF Kind[a] # "managed" \/ a \in ForeignAtStart THEN "foreign" ELSE "none"]
  /\ resident = {}
  /\ pc = [t \in Thread |-> "idle"]
  /\ op = [t \in Thread |-> "none"]
  /\ target = [t \in Thread |-> None]
  /\ todo = [t \in Thread |-> {}]
  /\ subject = [t \in Thread |-> None]
  /\ reading = [t \in Thread |-> "none"]
  /\ cancelled = [r \in Request |-> FALSE]
  /\ recovered = [r \in Request |-> FALSE]

-----------------------------------------------------------------------------
(* Small helpers. *)

Goto(t, label) == pc' = [pc EXCEPT ![t] = label]
SetState(m, s) == state' = [state EXCEPT ![m] = s]

(* _request_count: the entries of self._requests for a model. *)
Requests(m) == {r \in Request : target[r] = m}

Managed(m) == Kind[AdapterOf[m]] = "managed"
Live(a) == proc[a] \in {"owned", "foreign"}

(* activate_model_if_needed / deactivate_model_if_needed send something. *)
Activates(m) == m \in ActivateRoute /\ Kind[AdapterOf[m]] # "observe"
Deactivates(m) == m \in DeactivateRoute /\ Kind[AdapterOf[m]] # "observe"

(* A server this dispatcher did not start answers on a managed port. *)
UnownedManaged(m) == Managed(m) /\ proc[AdapterOf[m]] = "foreign"

(* _native_route_switch_safe(current, next) *)
NativeSafe(cur, next) == next \in ActivateRoute /\ cur \in DeactivateRoute

(* The keys of a thread's transition; unload(None) locks every model's. *)
TransitionKeys(t) ==
  IF target[t] = None THEN UNION {Keys(m) : m \in Model} ELSE Keys(target[t])

(* occupants.sort(key = (busy, keep_resident, name)) and the first n of them *)
Weight(m) == (IF Requests(m) # {} THEN 2 ELSE 0) + (IF m \in KeepResident THEN 1 ELSE 0)
Before(m, n) ==
  \/ Weight(m) < Weight(n)
  \/ Weight(m) = Weight(n) /\ NameRank[m] < NameRank[n]
FirstOf(S, n) == {m \in S : Cardinality({k \in S : Before(k, m)}) < n}

Occupants(g, m) ==
  {n \in Model \ {m} : state[n] \in {"loading", "ready"} /\ g \in GroupsOf[n]}

(* Mutant of GroupBlockers: it frees a slot too few. *)
GroupBlockersOneShort(g, m) ==
  FirstOf(Occupants(g, m), Cardinality(Occupants(g, m)) - Slots[g])

(* len(occupants) - capacity + 1 of them have to go, if any. *)
GroupBlockers(g, m) ==
  FirstOf(Occupants(g, m), Cardinality(Occupants(g, m)) + 1 - Slots[g])

(* The other models of the adapter that cannot stay beside it. *)
AdapterBlockers(m) ==
  {n \in ModelsOn(AdapterOf[m]) \ {m} :
     state[n] \in {"loading", "ready", "unknown"} /\ ~NativeSafe(n, m)}

(* _capacity_blockers *)
Blockers(m) == AdapterBlockers(m) \cup UNION {GroupBlockers(g, m) : g \in GroupsOf[m]}

(* What _external_activity may answer for a model: without a probe, a server
   that is not ours counts as busy; with one, the server answers. *)
Activity(m) ==
  LET a == AdapterOf[m] IN
  IF Kind[a] = "observe" \/ (Managed(m) /\ a \notin ActivityProbe /\ ~UnownedManaged(m))
  THEN {FALSE}
  ELSE IF a \notin ActivityProbe THEN {TRUE} ELSE BOOLEAN

-----------------------------------------------------------------------------
(* The operations begin. *)

Begin(t, label, what, m) ==
  /\ pc[t] = "idle"
  /\ Goto(t, label)
  /\ op' = [op EXCEPT ![t] = what]
  /\ target' = [target EXCEPT ![t] = m]
  /\ UNCHANGED <<lease, state, backendVars, loopVars, requestVars>>

(* begin_request: a fresh request id is registered under the condition. *)
BeginRequest(r, m) == Begin(r, "snapshot", "request", m)

(* activate: an explicit switch.  It has no entry in self._requests. *)
BeginSwitch(t, m) == Begin(t, "snapshot", "switch", m)

(* unload(name), also called by the idle loop, and unload(None). *)
BeginUnload(t, m) == Begin(t, "check", "unload", m)

(* status: refreshes the observed states and reports them. *)
BeginStatus(t) == Begin(t, "snapshot", "status", None)

-----------------------------------------------------------------------------
(* _refresh_observed_states: a snapshot of the models to look at, then for
   each a probe outside the condition and its result under the condition. *)

Snapshot(t) ==
  /\ pc[t] = "snapshot"
  /\ todo' = [todo EXCEPT ![t] = {m \in Model : state[m] \in {"ready", "unknown"}}]
  /\ Goto(t, "observe")
  /\ UNCHANGED <<lease, state, backendVars, jobVars, subject, reading, requestVars>>

(* What a probe of m finds now; "none" changes nothing. *)
Readings(m) ==
  LET a == AdapterOf[m] IN
  IF proc[a] = "exited" THEN {"gone"}
  ELSE IF a \notin StateProbe THEN {"none"}
  ELSE {IF m \in resident THEN "loaded" ELSE "absent"}
         \cup (IF "probe" \in Faults THEN {"error"} ELSE {})

Observe(t) ==
  /\ pc[t] = "observe"
  /\ \E m \in todo[t] : \E found \in Readings(m) \ {"none"} :
       /\ todo' = [todo EXCEPT ![t] = todo[t] \ {m}]
       /\ subject' = [subject EXCEPT ![t] = m]
       /\ reading' = [reading EXCEPT ![t] = found]
  /\ Goto(t, "apply")
  /\ UNCHANGED <<lease, state, backendVars, jobVars, requestVars>>

(* The state a reading leaves a model in. *)
Applied(m, found) ==
  LET shown == state[m] \in {"ready", "unknown"} IN
  CASE found = "error" /\ shown -> "unknown"
    [] found \in {"gone", "absent"} /\ shown /\ Requests(m) = {} -> "unloaded"
    [] found \in {"gone", "absent"} /\ Requests(m) # {} -> "unknown"
    [] found = "loaded" /\ state[m] = "unknown" -> "ready"
    [] OTHER -> state[m]

Apply(t) ==
  /\ pc[t] = "apply"
  /\ SetState(subject[t], Applied(subject[t], reading[t]))
  /\ subject' = [subject EXCEPT ![t] = None]
  /\ reading' = [reading EXCEPT ![t] = "none"]
  /\ Goto(t, "observe")
  /\ UNCHANGED <<lease, backendVars, jobVars, todo, requestVars>>

(* The rest of the list has nothing to report.  status returns; an activation
   takes the ready fast path, without any lock, or goes for the locks. *)
Observed(t) ==
  /\ pc[t] = "observe"
  /\ \A m \in todo[t] : "none" \in Readings(m)
  /\ todo' = [todo EXCEPT ![t] = {}]
  /\ Goto(t, IF op[t] = "status" \/ state[target[t]] = "ready" THEN "ok" ELSE "decide")
  /\ UNCHANGED <<lease, state, backendVars, jobVars, subject, reading, requestVars>>

-----------------------------------------------------------------------------
(* _acquire_transitions and _release_transitions around an operation. *)

EnterTransition(t) ==
  /\ pc[t] \in {"decide", "check"}
  /\ Grant(t, TransitionKeys(t))
  /\ UNCHANGED dispatchVars

(* The deadline of a request or a switch passed, or the request was cancelled,
   while one of the locks was taken. *)
TimeOut(t) ==
  /\ pc[t] = "decide"
  /\ lease[t] = {}
  /\ Goto(t, "fail")
  /\ UNCHANGED <<lease, state, backendVars, jobVars, loopVars, requestVars>>

LeaveTransition(t) ==
  /\ pc[t] \in {"ok", "fail"}
  /\ Return(t)
  /\ UNCHANGED dispatchVars

-----------------------------------------------------------------------------
(* _activate_model, with the locks: the loop that makes room. *)

Cancelled(t) == t \in Request /\ cancelled[t]

(* One pass of the loop up to the end of its condition block.  While the
   target is loading or unloading the thread waits: no deadline ends that. *)
Decide(t) ==
  LET m == target[t]
      blockers == Blockers(m)
      refused ==
        \/ blockers # {} /\ op[t] = "request" /\ ~SmartScheduling
        \/ \E n \in blockers : state[n] \in {"unknown", "loading"} \/ Requests(n) # {}
  IN
  /\ pc[t] = "decide"
  /\ lease[t] # {}
  /\ \/ /\ Cancelled(t)
        /\ Goto(t, "fail")
        /\ UNCHANGED todo
     \/ /\ ~Cancelled(t)
        /\ state[m] = "ready"
        /\ Goto(t, "ok")
        /\ UNCHANGED todo
     \/ /\ ~Cancelled(t)
        /\ state[m] \in {"unloaded", "failed", "unknown"}
        /\ Goto(t, IF refused THEN "fail" ELSE IF blockers = {} THEN "load" ELSE "probe")
        /\ todo' = [todo EXCEPT ![t] = IF refused THEN {} ELSE blockers]
  /\ UNCHANGED <<lease, state, backendVars, jobVars, subject, reading, requestVars>>

(* Mutant of Check: the targets are not filtered by their state. *)
CheckUnfiltered(t) ==
  LET targets == {m \in Model : target[t] \in {None, m}}
      refused == \E m \in targets : Requests(m) # {}
  IN
  /\ pc[t] = "check"
  /\ lease[t] # {}
  /\ Goto(t, IF refused THEN "fail" ELSE "probe")
  /\ todo' = [todo EXCEPT ![t] = IF refused THEN {} ELSE targets]
  /\ UNCHANGED <<lease, state, backendVars, jobVars, subject, reading, requestVars>>

(* unload's condition block: the targets, and the reasons to refuse them. *)
Check(t) ==
  LET targets == {m \in Model : state[m] \in {"ready", "unknown"} /\ target[t] \in {None, m}}
      refused == \E m \in targets :
        \/ Requests(m) # {}
        \/ state[m] = "unknown"
        \/ Kind[AdapterOf[m]] = "observe"
        \/ Kind[AdapterOf[m]] = "external" /\ m \notin DeactivateRoute
  IN
  /\ pc[t] = "check"
  /\ lease[t] # {}
  /\ Goto(t, IF refused THEN "fail" ELSE "probe")
  /\ todo' = [todo EXCEPT ![t] = IF refused THEN {} ELSE targets]
  /\ UNCHANGED <<lease, state, backendVars, jobVars, subject, reading, requestVars>>

(* The activity probes, outside the condition; a blocker is only probed if it
   has a deactivation route, an unload's target always.  A switch then asks
   for memory. *)
Probe(t) ==
  /\ pc[t] = "probe"
  /\ \/ /\ \/ \E m \in todo[t] :
                 TRUE \in Activity(m) /\ (op[t] = "unload" \/ m \in DeactivateRoute)
           \/ op[t] # "unload" /\ "memory" \in Faults
        /\ Goto(t, "fail")
        /\ todo' = [todo EXCEPT ![t] = {}]
     \/ /\ \A m \in todo[t] :
             FALSE \in Activity(m) \/ (op[t] # "unload" /\ m \notin DeactivateRoute)
        /\ Goto(t, IF todo[t] = {} THEN "ok" ELSE "evict")
        /\ UNCHANGED todo
  /\ UNCHANGED <<lease, state, backendVars, jobVars, subject, reading, requestVars>>

(* The reasons for which _deactivate_blocker raises before it starts. *)
EvictionConflict(b, m) ==
  LET same == AdapterOf[b] = AdapterOf[m]
      kind == Kind[AdapterOf[b]]
  IN
  \/ UnownedManaged(b) /\ b \notin DeactivateRoute
  \/ ~same /\ kind # "managed" /\ (kind = "observe" \/ b \notin DeactivateRoute)
  \/ same /\ kind # "managed" /\ m \notin ActivateRoute

Evict(t) ==
  /\ pc[t] = "evict"
  /\ \E b \in todo[t] :
       \/ /\ op[t] # "unload"
          /\ EvictionConflict(b, target[t])
          /\ Goto(t, "fail")
          /\ todo' = [todo EXCEPT ![t] = {}]
          /\ UNCHANGED <<state, subject>>
       \/ /\ ~(op[t] # "unload" /\ EvictionConflict(b, target[t]))
          /\ SetState(b, "unloading")
          /\ Goto(t, "deactivate")
          /\ todo' = [todo EXCEPT ![t] = todo[t] \ {b}]
          /\ subject' = [subject EXCEPT ![t] = b]
  /\ UNCHANGED <<lease, backendVars, jobVars, reading, requestVars>>

(* deactivate_model_if_needed and _ensure_deactivated.  On an exception the
   model goes back to ready and the operation fails. *)
Deactivate(t) ==
  LET b == subject[t]
      a == AdapterOf[b]
      released == IF Deactivates(b) THEN resident \ {b} ELSE resident
      calls == Kind[a] # "observe" /\ (b \in DeactivateRoute \/ a \in StateProbe)
      listed == a \in StateProbe /\ Kind[a] # "observe" /\ b \in released
      giveBack ==
        /\ SetState(b, "ready")
        /\ Goto(t, "fail")
        /\ todo' = [todo EXCEPT ![t] = {}]
        /\ subject' = [subject EXCEPT ![t] = None]
  IN
  /\ pc[t] = "deactivate"
  /\ \/ /\ (calls => Live(a)) /\ ~listed
        /\ resident' = released
        /\ Goto(t, "stop")
        /\ UNCHANGED <<state, todo, subject>>
     \/ /\ listed \/ (calls /\ "unconfirmed" \in Faults)
        /\ resident' = released
        /\ giveBack
     \/ /\ calls /\ (~Live(a) \/ "deactivate" \in Faults)
        /\ UNCHANGED resident
        /\ giveBack
  /\ UNCHANGED <<lease, proc, jobVars, reading, requestVars>>

(* Mutants of ServiceStays: the siblings are forgotten; the model that is being
   unloaded is not excluded from them. *)
ServiceStaysAlone(b, keep) == keep \/ ~Managed(b)
ServiceStaysForItself(b, keep) ==
  \/ keep
  \/ ~Managed(b)
  \/ \E n \in ModelsOn(AdapterOf[b]) : state[n] \in {"loading", "ready", "unloading"}

(* _unload_service leaves the server alone: it is kept, it is not owned, or
   another model of the adapter is in use. *)
ServiceStays(b, keep) ==
  \/ keep
  \/ ~Managed(b)
  \/ \E n \in ModelsOn(AdapterOf[b]) \ {b} : state[n] \in {"loading", "ready", "unloading"}

(* Mutant of StopServer: whatever listens on the port is stopped. *)
StopAnyServer(a) ==
  /\ proc' = [proc EXCEPT ![a] = "none"]
  /\ resident' = resident \ ModelsOn(a)

(* backend.stop(): only a process of this dispatcher is stopped. *)
StopServer(a) ==
  IF proc[a] \in {"owned", "exited"}
  THEN /\ proc' = [proc EXCEPT ![a] = "none"]
       /\ resident' = resident \ ModelsOn(a)
  ELSE UNCHANGED backendVars

(* The operation goes on: to the next model of its loop, or back to the test
   of the capacity, or to its end. *)
Unloaded(t) ==
  /\ SetState(subject[t], "unloaded")
  /\ subject' = [subject EXCEPT ![t] = None]
  /\ Goto(t, IF todo[t] # {} THEN "evict" ELSE IF op[t] = "unload" THEN "ok" ELSE "decide")
  /\ UNCHANGED todo

(* _unload_service looks at the other models of the adapter, without the
   condition: the server is left alone or will be stopped. *)
StopService(t) ==
  LET b == subject[t]
      keep == b \in KeepResident
                \/ (op[t] # "unload" /\ AdapterOf[b] = AdapterOf[target[t]]
                      /\ NativeSafe(b, target[t]))
  IN
  /\ pc[t] = "stop"
  /\ IF ServiceStays(b, keep)
     THEN Unloaded(t)
     ELSE Goto(t, "kill") /\ UNCHANGED <<state, todo, subject>>
  /\ UNCHANGED <<lease, backendVars, jobVars, reading, requestVars>>

(* backend.stop(), then the model is unloaded.  When stop() raises, the
   exception leaves the operation with the model still "unloading". *)
Kill(t) ==
  LET a == AdapterOf[subject[t]] IN
  /\ pc[t] = "kill"
  /\ \/ StopServer(a) /\ Unloaded(t)
     \/ /\ "stop" \in Faults
        /\ proc[a] = "owned"
        /\ Goto(t, "fail")
        /\ todo' = [todo EXCEPT ![t] = {}]
        /\ subject' = [subject EXCEPT ![t] = None]
        /\ UNCHANGED <<state, backendVars>>
  /\ UNCHANGED <<lease, jobVars, reading, requestVars>>

-----------------------------------------------------------------------------
(* _activate_model, with room made: the load. *)

(* The final memory check and "loading", under the memory lock. *)
Load(t) ==
  /\ pc[t] = "load"
  /\ \/ SetState(target[t], "loading") /\ Goto(t, "start")
     \/ "memory" \in Faults /\ UNCHANGED state /\ Goto(t, "fail")
  /\ UNCHANGED <<lease, backendVars, jobVars, loopVars, requestVars>>

(* What is left of a server whose start failed: the failed start is stopped,
   and an exception of that stop is swallowed. *)
StartFailed(a) ==
  /\ \E left \in {"none"} \cup (IF "stop" \in Faults THEN {"owned"} ELSE {}) :
       proc' = [proc EXCEPT ![a] = left]
  /\ resident' = resident \ ModelsOn(a)

(* The weights a freshly launched server of m's adapter holds. *)
Launched(m) ==
  /\ proc' = [proc EXCEPT ![AdapterOf[m]] = "owned"]
  /\ resident' = (resident \ ModelsOn(AdapterOf[m]))
                   \cup (IF m \in ActivateRoute THEN {} ELSE {m})

(* Mutants of LoadFailed: the state is not reset; it gets an unknown name. *)
LoadFailedForgotten(t) == Goto(t, "fail") /\ UNCHANGED state
LoadFailedMisnamed(t) == SetState(target[t], "error") /\ Goto(t, "fail")

LoadFailed(t) ==
  /\ SetState(target[t], "failed")
  /\ Goto(t, "fail")

(* A server is adopted through its native routes, found running, launched
   (also in the place of one whose health probe failed), or the start fails; one
   that fails the probe and does not stop keeps what it has loaded. *)
Start(t) ==
  LET m == target[t]
      a == AdapterOf[m]
      adoptable == m \in ActivateRoute /\ m \in DeactivateRoute
      occupied == Managed(m) /\ proc[a] = "foreign" /\ ~adoptable
  IN
  /\ pc[t] = "start"
  /\ \/ /\ Live(a) /\ ~occupied
        /\ resident' = IF m \in ActivateRoute THEN resident ELSE resident \cup {m}
        /\ Goto(t, "activate")
        /\ UNCHANGED <<proc, state>>
     \/ /\ Managed(m)
        /\ proc[a] \in {"none", "exited"} \/ (proc[a] = "owned" /\ "unhealthy" \in Faults)
        /\ Launched(m)
        /\ Goto(t, "activate")
        /\ UNCHANGED state
     \/ /\ \/ occupied
           \/ "start" \in Faults /\ proc[a] # "owned"
           \/ "unhealthy" \in Faults /\ Managed(m) /\ proc[a] = "foreign"
           \/ {"unhealthy", "stop"} \subseteq Faults /\ Managed(m) /\ proc[a] = "owned"
        /\ LoadFailed(t)
        /\ UNCHANGED backendVars
     \/ /\ Managed(m) /\ "start" \in Faults
        /\ proc[a] \in {"none", "exited"} \/ (proc[a] = "owned" /\ "unhealthy" \in Faults)
        /\ StartFailed(a)
        /\ LoadFailed(t)
  /\ UNCHANGED <<lease, jobVars, loopVars, requestVars>>

(* _can_recover_metal_timeout of the dispatcher and of the HTTP handler. *)
CanRecover(m) ==
  /\ "metal" \in Faults
  /\ AdapterOf[m] \in Recoverable
  /\ proc[AdapterOf[m]] \in {"owned", "exited"}
  /\ Cardinality(Requests(m)) = 1

(* Mutant of MayRetry: recovery_state is not looked at. *)
MayRetryForever(t) == op[t] = "request" /\ CanRecover(target[t])

(* recovery_state: one retry for a request, none for a switch. *)
MayRetry(t) == op[t] = "request" /\ ~recovered[t] /\ CanRecover(target[t])

(* activate_model_if_needed and _ensure_activated.  A Metal timeout restarts
   the owned server once per request and tries again. *)
Activate(t) ==
  LET m == target[t]
      a == AdapterOf[m]
      calls == Activates(m) \/ a \in StateProbe
  IN
  /\ pc[t] = "activate"
  /\ \/ /\ calls => Live(a)
        /\ resident' = IF Live(a) THEN resident \cup {m} ELSE resident
        /\ Goto(t, "finish")
        /\ UNCHANGED <<proc, state, recovered>>
     \/ /\ calls
        /\ ~Live(a) \/ "activate" \in Faults
        /\ resident' \in {resident}
             \cup (IF Live(a) /\ "unconfirmed" \in Faults THEN {resident \cup {m}} ELSE {})
        /\ LoadFailed(t)
        /\ UNCHANGED <<proc, recovered>>
     \/ /\ Activates(m) /\ MayRetry(t)
        /\ recovered' = [recovered EXCEPT ![t] = TRUE]
        /\ \/ Launched(m) /\ UNCHANGED <<pc, state>>
           \/ "start" \in Faults /\ StartFailed(a) /\ LoadFailed(t)
           \/ "stop" \in Faults /\ proc[a] = "owned" /\ UNCHANGED backendVars /\ LoadFailed(t)
  /\ UNCHANGED <<lease, jobVars, loopVars, cancelled>>

(* The load is confirmed.  If its only waiter has cancelled, the model is
   closed again for new arrivals in the same block. *)
Finish(t) ==
  LET m == target[t]
      rollBack == Cancelled(t) /\ Cardinality(Requests(m)) <= 1
  IN
  /\ pc[t] = "finish"
  /\ SetState(m, IF rollBack THEN "unloading" ELSE "ready")
  /\ Goto(t, IF rollBack THEN "cleanup" ELSE IF Cancelled(t) THEN "fail" ELSE "ok")
  /\ UNCHANGED <<lease, backendVars, jobVars, loopVars, requestVars>>

(* The rollback: first the deactivation; any exception means ready again. *)
Cleanup(t) ==
  LET m == target[t]
      live == Live(AdapterOf[m])
      released == IF Deactivates(m) THEN resident \ {m} ELSE resident
      giveBack == SetState(m, "ready") /\ Goto(t, "fail")
  IN
  /\ pc[t] = "cleanup"
  /\ \/ /\ Deactivates(m) => live
        /\ resident' = released
        /\ Goto(t, "discard")
        /\ UNCHANGED state
     \/ /\ Deactivates(m) /\ live /\ "unconfirmed" \in Faults
        /\ resident' = released
        /\ giveBack
     \/ /\ Deactivates(m) /\ (~live \/ "deactivate" \in Faults)
        /\ UNCHANGED resident
        /\ giveBack
  /\ UNCHANGED <<lease, proc, jobVars, loopVars, requestVars>>

(* Then _unload_service, in one step: the adapter's lock is held. *)
Discard(t) ==
  LET m == target[t]
      a == AdapterOf[m]
      stays == ServiceStays(m, m \in KeepResident)
  IN
  /\ pc[t] = "discard"
  /\ Goto(t, "fail")
  /\ \/ /\ SetState(m, "unloaded")
        /\ IF stays THEN UNCHANGED backendVars ELSE StopServer(a)
     \/ /\ "stop" \in Faults /\ ~stays /\ proc[a] = "owned"
        /\ SetState(m, "ready")
        /\ UNCHANGED backendVars
  /\ UNCHANGED <<lease, jobVars, loopVars, requestVars>>

-----------------------------------------------------------------------------
(* The end of an operation. *)

EndThread(t) ==
  /\ Goto(t, "idle")
  /\ op' = [op EXCEPT ![t] = "none"]
  /\ target' = [target EXCEPT ![t] = None]
  /\ IF t \in Request
     THEN /\ cancelled' = [cancelled EXCEPT ![t] = FALSE]
          /\ recovered' = [recovered EXCEPT ![t] = FALSE]
     ELSE UNCHANGED requestVars

(* Mutant of Answer: a request is admitted without another look at the state. *)
AnswerUnchecked(t) ==
  /\ lease[t] = {}
  /\ \/ /\ pc[t] = "ok" /\ op[t] = "request"
        /\ Goto(t, "relay")
        /\ UNCHANGED <<jobVars, requestVars>>
     \/ /\ pc[t] = "fail" \/ (pc[t] = "ok" /\ op[t] # "request")
        /\ EndThread(t)
  /\ UNCHANGED <<lease, state, backendVars, loopVars>>

(* The locks are released.  begin_request registers the relay only if the
   model is still ready; if not, it raises with its entry still registered.
   On an earlier exception the entry is removed. *)
Answer(t) ==
  /\ lease[t] = {}
  /\ \/ /\ pc[t] = "ok" /\ op[t] = "request"
        /\ Goto(t, IF state[target[t]] = "ready" THEN "relay" ELSE "lost")
        /\ UNCHANGED <<jobVars, requestVars>>
     \/ /\ pc[t] = "fail" \/ (pc[t] = "ok" /\ op[t] # "request")
        /\ EndThread(t)
  /\ UNCHANGED <<lease, state, backendVars, loopVars>>

(* end_request, once the upstream answered, failed or was closed. *)
EndRequest(r) ==
  /\ pc[r] \in {"relay", "closing"}
  /\ EndThread(r)
  /\ UNCHANGED <<lease, state, backendVars, loopVars>>

(* _recover_metal_backend: the handler of the only request of the model
   restarts its server.  No transition lock is held. *)
RecoverBegin(r) ==
  /\ pc[r] = "relay"
  /\ ~recovered[r]
  /\ CanRecover(target[r])
  /\ recovered' = [recovered EXCEPT ![r] = TRUE]
  /\ SetState(target[r], "loading")
  /\ Goto(r, "recover")
  /\ UNCHANGED <<lease, backendVars, jobVars, loopVars, cancelled>>

(* stop, ensure_started and the activation; an exception of any of them fails
   the model, and the handler relays the error it had. *)
RecoverEnd(r) ==
  LET m == target[r]
      a == AdapterOf[m]
      calls == Activates(m) \/ a \in StateProbe
  IN
  /\ pc[r] = "recover"
  /\ \/ /\ proc' = [proc EXCEPT ![a] = "owned"]
        /\ resident' = (resident \ ModelsOn(a)) \cup {m}
        /\ SetState(m, "ready")
        /\ Goto(r, "relay")
     \/ /\ \/ "stop" \in Faults /\ proc[a] = "owned" /\ UNCHANGED backendVars
           \/ "start" \in Faults /\ StartFailed(a)
           \/ "activate" \in Faults /\ calls /\ Launched(m)
        /\ SetState(m, "failed")
        /\ Goto(r, "closing")
  /\ UNCHANGED <<lease, jobVars, loopVars, requestVars>>

-----------------------------------------------------------------------------
(* What happens from outside a thread. *)

(* cancel(request_id): the event is set; the relay's upstream is closed. *)
Cancel(r) ==
  /\ target[r] # None
  /\ ~cancelled[r]
  /\ cancelled' = [cancelled EXCEPT ![r] = TRUE]
  /\ UNCHANGED <<lease, state, backendVars, pc, jobVars, loopVars, recovered>>

(* An owned process exits by itself. *)
Crash(a) ==
  /\ "crash" \in Faults
  /\ proc[a] = "owned"
  /\ proc' = [proc EXCEPT ![a] = "exited"]
  /\ resident' = resident \ ModelsOn(a)
  /\ UNCHANGED <<lease, state, pc, jobVars, loopVars, requestVars>>

-----------------------------------------------------------------------------
BeginOperation(t) ==
  \/ t \in Request /\ \E m \in Model : BeginRequest(t, m)
  \/ t \in Operator /\
       \/ "switch" \in Operations /\ \E m \in Model : BeginSwitch(t, m)
       \/ "unload" \in Operations /\ \E m \in Model \cup {None} : BeginUnload(t, m)
       \/ "status" \in Operations /\ BeginStatus(t)

Refresh(t) == Snapshot(t) \/ Observe(t) \/ Apply(t) \/ Observed(t)
Lock(t) == EnterTransition(t) \/ TimeOut(t) \/ LeaveTransition(t)
MakeRoom(t) ==
  \/ Decide(t) \/ Check(t) \/ Probe(t) \/ Evict(t)
  \/ Deactivate(t) \/ StopService(t) \/ Kill(t)
LoadTarget(t) ==
  Load(t) \/ Start(t) \/ Activate(t) \/ Finish(t) \/ Cleanup(t) \/ Discard(t)
Serve(t) == t \in Request /\ (EndRequest(t) \/ RecoverBegin(t) \/ RecoverEnd(t))

(* A step of an operation that has begun. *)
Step(t) == Refresh(t) \/ Lock(t) \/ MakeRoom(t) \/ LoadTarget(t) \/ Answer(t) \/ Serve(t)

Next ==
  \/ \E t \in Thread : BeginOperation(t) \/ Step(t)
  \/ \E r \in Request : Cancel(r)
  \/ \E a \in Adapter : Crash(a)

Spec == Init /\ [][Next]_vars

(* A thread keeps running: calls to a backend and relays have time limits. *)
FairSpec == Spec /\ \A t \in Thread : WF_vars(Step(t))

-----------------------------------------------------------------------------
TypeOK ==
  /\ lease \in [Thread -> SUBSET Key]
  /\ state \in [Model -> State]
  /\ proc \in [Adapter -> Proc]
  /\ resident \subseteq Model
  /\ pc \in [Thread -> Label]
  /\ op \in [Thread -> Op]
  /\ target \in [Thread -> Model \cup {None}]
  /\ todo \in [Thread -> SUBSET Model]
  /\ subject \in [Thread -> Model \cup {None}]
  /\ reading \in [Thread -> Reading]
  /\ cancelled \in [Request -> BOOLEAN]
  /\ recovered \in [Request -> BOOLEAN]

(* Two models that may not be resident together: they share a process that
   can hold only one of them, or a group of capacity 1. *)
Conflict(m, n) ==
  /\ m # n
  /\ \/ AdapterOf[m] = AdapterOf[n] /\ ~NativeSafe(m, n) /\ ~NativeSafe(n, m)
     \/ \E g \in GroupsOf[m] \cap GroupsOf[n] : Slots[g] = 1

(* The point of the groups: two conflicting models are never both loading or
   ready, whatever the order of requests, switches, unloads, failures and
   cancellations.  _capacity_blockers and the transition locks are for it. *)
Exclusive ==
  \A m, n \in Model :
    Conflict(m, n) => ~(state[m] \in {"loading", "ready"} /\ state[n] \in {"loading", "ready"})

(* The same of the backends: the weights of two conflicting models are never
   in memory together, so no failure path forgets a server it has started. *)
WeightsExclusive ==
  \A m, n \in Model : Conflict(m, n) => ~(m \in resident /\ n \in resident)

(* A server that this dispatcher did not start (an external service, or one of
   an earlier core that still holds its port) is never stopped or replaced. *)
ForeignServersKept ==
  [][\A a \in Adapter : proc[a] = "foreign" => proc'[a] = "foreign"]_vars

(* A model that is offered to requests is really served: no unload, switch or
   rollback of another model takes its server away. *)
ReadyIsServed == \A m \in Model : state[m] = "ready" => m \in resident

(* A transient state is somebody's: a thread is on its way to end it.  A
   model left in it would make every later request for it wait.  "loading" is
   ended on every path, with any combination of failures ... *)
LoadingHasOwner ==
  \A m \in Model : state[m] = "loading" =>
    \E t \in Thread :
      target[t] = m /\ pc[t] \in {"start", "activate", "finish", "recover"}

(* ... and "unloading" too, as long as a server can be stopped. *)
UnloadingHasOwner ==
  \A m \in Model : state[m] = "unloading" =>
    \E t \in Thread :
      \/ subject[t] = m /\ pc[t] \in {"deactivate", "stop", "kill"}
      \/ target[t] = m /\ pc[t] \in {"cleanup", "discard"}

TransientsHaveOwner == LoadingHasOwner /\ UnloadingHasOwner

(* The model whose server a thread is starting, calling or stopping. *)
WorksOn(t, m) ==
  \/ target[t] = m
     /\ pc[t] \in {"start", "activate", "finish", "cleanup", "discard", "recover"}
  \/ subject[t] = m /\ pc[t] \in {"deactivate", "stop", "kill"}

(* Two threads never run lifecycle calls for models of one adapter or of one
   group of capacity 1 at the same time: the transition locks serialize them,
   although a switch holds no lock of the models it evicts but those it shares
   with its target. *)
ActionsSerialized ==
  \A t, u \in Thread, m, n \in Model :
    WorksOn(t, m) /\ WorksOn(u, n) /\ (\E k \in Keys(m) \cap Keys(n) : Slots[k] = 1) => t = u

(* unload and _deactivate_blocker set "unloading" without looking at the state
   again: only the locks they hold since their check make it still ready. *)
UnloadsStartFromReady ==
  [][\A m \in Model : state'[m] = "unloading" /\ state[m] # "unloading" =>
       \/ state[m] = "ready"
       \/ \E t \in Thread : pc[t] = "finish" /\ target[t] = m]_vars

(* An admitted request keeps its model until it ends or is cancelled. *)
RelayKeepsModel ==
  \A r \in Request : pc[r] = "relay" /\ ~cancelled[r] => state[target[r]] = "ready"

(* Every request is answered, if only with an error: no lock, condition or
   loop holds it for ever, in any mix of failures but one.  A stop() that raises
   leaves a model in "unloading" with nobody to end it. *)
RequestsAnswered ==
  \A r \in Request :
    pc[r] # "idle" ~> pc[r] \in {"idle", "lost"} \/ ~UnloadingHasOwner

(* A model holds its resources while it is loading or ready, and while a
   thread is working on it and may still leave it ready. *)
Holding ==
  {m \in Model :
     \/ state[m] \in {"loading", "ready"}
     \/ \E t \in Thread :
          \/ target[t] = m /\ pc[t] \in {"start", "activate", "finish", "cleanup", "discard"}
          \/ subject[t] = m /\ pc[t] = "deactivate"}

Admitted ==
  [r \in Request |-> IF pc[r] \in {"relay", "recover", "closing"} THEN target[r] ELSE None]

(* The dispatcher implements the abstract residency of models. *)
Abstract == INSTANCE Residency WITH
  Client <- Request,
  Rivals <- {p \in Model \X Model : Conflict(p[1], p[2])},
  holding <- Holding,
  admitted <- Admitted
ImplementsResidency == Abstract!Spec

(* A group is never used beyond its capacity. *)
CapacityRespected ==
  \A g \in Group :
    Cardinality({m \in Model : g \in GroupsOf[m] /\ state[m] \in {"loading", "ready"}}) <= Slots[g]

(* A cancelled request eventually leaves the count of active requests. *)
CancelledRequestsLeave ==
  \A r \in Request : (target[r] # None /\ cancelled[r]) ~> target[r] = None
=============================================================================
