----------------------------- MODULE Admission ------------------------------
(***************************************************************************)
(* Memory admission (scripts/model_dispatch.py, _check_memory 2166-2208    *)
(* and its callers): do the estimates fit the memory limit?  The sum is    *)
(* taken under _memory_lock, over states that other threads change         *)
(* meanwhile; what was admitted is reserved until the load has ended.      *)
(*                                                                         *)
(* Each model has an adapter of its own.  Rivals share a group of capacity *)
(* 1, and transitions of rivals exclude each other (TransitionLocks): the  *)
(* lifecycle is that of Dispatcher, reduced to what the sums depend on.    *)
(***************************************************************************)
EXTENDS Integers, Sequences, FiniteSets, FiniteSetsExt

CONSTANTS
  Thread,        \* threads that load or unload models
  Order,         \* the models, in the order of self._models
  Outside,       \* models on external, observe or http-managed adapters
  Rivals,        \* the models a model may not be resident with
  Observable,    \* models whose state a probe may set
  Sizes,         \* the estimates, None for a model without one
  Limits,        \* the values of memory_limit_gb, None for no limit
  Configured,    \* the estimates and the limit the core starts with
  Resident,      \* what listener_rss_gb may return for an external adapter
  MaxChanges,    \* bound: changes of the settings
  None

Model == {Order[i] : i \in 1 .. Len(Order)}
Own == Model \ Outside

ASSUME AdmissionAssumption ==
  /\ Order \in Seq(Model) /\ Order # <<>>
  /\ \A i, j \in 1 .. Len(Order) : Order[i] = Order[j] => i = j
  /\ None \notin Thread
  /\ Outside \subseteq Model /\ Observable \subseteq Model
  /\ Rivals \in [Model -> SUBSET Model]
  /\ \A m \in Model : m \notin Rivals[m] /\ \A n \in Rivals[m] : m \in Rivals[n]
  /\ Sizes \subseteq Nat \cup {None} /\ Limits \subseteq Nat \cup {None}
  /\ Configured \subseteq [estimate : [Model -> Sizes], limit : Limits]
  /\ Resident \subseteq Nat
  /\ MaxChanges \in Nat

VARIABLES
  limit,         \* settings["memory_limit_gb"]
  estimate,      \* _effective_estimate of each model
  changes,       \* the changes of the settings so far
  state,         \* runtime.state
  reservation,   \* runtime.loading_reservation_gb
  memoryLock,    \* _memory_lock: the thread that holds it
  pc, job,       \* of each thread: its place, its model
  todo, victim,  \* the models a thread has still to unload, the one it unloads
  sum,           \* the check in progress, see NoSum
  steady,        \* history: the models that have been ready, with the same
                 \* estimate, since that check began
  probed,        \* the models that probes have been begun for: the observable
                 \* ones that have been ready or unknown
  overtaken      \* history: the models that the answer of such a probe has taken
                 \* out of "loading" during the load

settingsVars == <<limit, estimate, changes>>
memoryVars == <<settingsVars, state, reservation, memoryLock, sum, steady, probed, overtaken>>
threadVars == <<pc, job, todo, victim>>
vars == <<memoryVars, threadVars>>

(* _check_memory: the place of its loop, the estimate and the limit it has
   read, and what the loops have added up. *)
NoSum == [at |-> 1, own |-> 0, limit |-> 0, loaded |-> 0, reserved |-> 0]

State == {"unloaded", "loading", "ready", "unloading", "failed", "unknown"}
Checking == {"loaded1", "reserved1", "loaded2", "reserved2", "reserve"}
Working == {"owns", "first", "second", "evict", "unload", "load"} \cup Checking

AdmissionTypeOK ==
  /\ limit \in Limits /\ estimate \in [Model -> Sizes] /\ changes \in 0 .. MaxChanges
  /\ state \in [Model -> State]
  /\ reservation \in [Model -> Sizes \cup {None}]
  /\ memoryLock \in Thread \cup {None}
  /\ pc \in [Thread -> {"idle", "load room", "unload room"} \cup Working]
  /\ job \in [Thread -> Model]
  /\ todo \in [Thread -> SUBSET Model] /\ victim \in [Thread -> Model]
  /\ sum \in [at : 1 .. Len(Order), own : Nat, limit : Nat, loaded : Nat, reserved : Nat]
  /\ {steady, probed, overtaken} \subseteq SUBSET Model
  /\ \A t \in Thread :
       pc[t] \in Checking => memoryLock = t

AdmissionInit ==
  /\ \E c \in Configured : limit = c.limit /\ estimate = c.estimate
  /\ changes = 0
  /\ state = [m \in Model |-> "unloaded"]
  /\ reservation = [m \in Model |-> None]
  /\ memoryLock = None
  /\ pc = [t \in Thread |-> "idle"]
  /\ job = [t \in Thread |-> Order[1]]
  /\ todo = [t \in Thread |-> {}] /\ victim = [t \in Thread |-> Order[1]]
  /\ sum = NoSum
  /\ steady = {} /\ probed = {} /\ overtaken = {}

Goto(t, place) == pc' = [pc EXCEPT ![t] = place]

(* A model that leaves "ready" is no longer steady; one that is ready or unknown
   may be probed from now on. *)
SetState(m, s) ==
  /\ state' = [state EXCEPT ![m] = s]
  /\ steady' = steady \ {m}
  /\ probed' = probed \cup {n \in {m} \cap Observable : s \in {"ready", "unknown"}}

End(t) ==
  /\ Goto(t, "idle")
  /\ job' = [job EXCEPT ![t] = Order[1]]
  /\ todo' = [todo EXCEPT ![t] = {}]
  /\ victim' = [victim EXCEPT ![t] = Order[1]]

(* A reservation in a sum: None counts as 0. *)
Gigabytes(x) == IF x = None THEN 0 ELSE x

(* The sums of a loop over the models in their order that adds up f of those
   in S, after each of them; and the last one. *)
Sums(f, S) ==
  LET sums[n \in 0 .. Len(Order)] ==
        IF n = 0 THEN 0 ELSE sums[n - 1] + (IF Order[n] \in S THEN Gigabytes(f[Order[n]]) ELSE 0)
  IN  sums
Total(f, S) == Sums(f, S)[Len(Order)]

-----------------------------------------------------------------------------
(* _activate_model, or unload of one model. *)
Begin(t) ==
  /\ pc[t] = "idle"
  /\ \E m \in Model : job' = [job EXCEPT ![t] = m]
  /\ \E place \in {"load room", "unload room"} : Goto(t, place)
  /\ UNCHANGED <<memoryVars, todo, victim>>

(* _acquire_transitions: not with another transition of the model or a rival. *)
EnterTransition(t) ==
  /\ pc[t] \in {"load room", "unload room"}
  /\ \A u \in Thread : pc[u] \in Working => job[u] \notin {job[t]} \cup Rivals[job[t]]
  /\ IF pc[t] = "load room"
     THEN Goto(t, "owns") /\ UNCHANGED <<job, todo, victim>>
     ELSE IF state[job[t]] = "ready"
     THEN Goto(t, "evict") /\ todo' = [todo EXCEPT ![t] = {job[t]}] /\ UNCHANGED <<job, victim>>
     ELSE End(t)
  /\ UNCHANGED <<memoryVars>>

(* The loop of _activate_model, under the condition: the model is ready, or a
   rival is loading (model_busy), or the rivals in the way are to be unloaded. *)
MakeRoom(t) ==
  LET m == job[t] IN
  /\ pc[t] = "owns" /\ state[m] \notin {"loading", "unloading"}
  /\ IF state[m] = "ready" \/ \E b \in Rivals[m] : state[b] = "loading"
     THEN End(t)
     ELSE /\ todo' = [todo EXCEPT ![t] = {b \in Rivals[m] : state[b] = "ready"}]
          /\ Goto(t, "first") /\ UNCHANGED <<job, victim>>
  /\ UNCHANGED <<memoryVars>>

(* model_busy, smart_scheduling_disabled, a blocker that is not owned, a
   cancellation, a deadline; and memory_pressure, read before the sums. *)
Refuse(t) ==
  /\ pc[t] \in {"load room", "unload room", "owns", "evict", "first", "second"}
  /\ pc[t] \in {"first", "second"} => memoryLock = None
  /\ End(t)
  /\ UNCHANGED <<memoryVars>>

-----------------------------------------------------------------------------
(* _check_memory, under _memory_lock: first without the models that will be
   unloaded, then, after they are, on what there is. *)

Passed(t) == Goto(t, CASE pc[t] \in {"first", "reserved1"} -> IF todo[t] = {} THEN "second" ELSE "evict"
                       [] OTHER -> "reserve")

(* The lock is taken.  Without a limit, or with the model ready after all,
   there is nothing to add up: the load is announced under the lock at once. *)
CheckBegin(t) ==
  /\ pc[t] \in {"first", "second"} /\ memoryLock = None
  /\ IF limit = None \/ state[job[t]] = "ready"
     THEN /\ Passed(t) /\ memoryLock' = (IF pc[t] = "first" THEN None ELSE t)
          /\ UNCHANGED <<sum, steady, job, todo, victim>>
     ELSE IF estimate[job[t]] = None
     THEN End(t) /\ UNCHANGED <<memoryLock, sum, steady>>
     ELSE /\ memoryLock' = t
          /\ steady' = {m \in Model : state[m] = "ready"}
          /\ sum' = [NoSum EXCEPT !.own = estimate[job[t]], !.limit = limit]
          /\ Goto(t, IF pc[t] = "first" THEN "loaded1" ELSE "loaded2") /\ UNCHANGED <<job, todo, victim>>
  /\ UNCHANGED <<settingsVars, state, reservation, probed, overtaken>>

Excluded(t) == {job[t]} \cup todo[t]

(* The check raises: the lock is released, the transition ends. *)
NotAdmitted(t) == End(t) /\ memoryLock' = None /\ sum' = NoSum /\ steady' = {}

(* One model of the first loop: the estimates of what is ready. *)
CountLoaded(t) ==
  LET m == Order[sum.at]
      counts == m \in Own \ Excluded(t) /\ state[m] = "ready"
  IN
  /\ pc[t] \in {"loaded1", "loaded2"}
  /\ IF counts /\ estimate[m] = None
     THEN NotAdmitted(t)
     ELSE LET loaded == sum.loaded + (IF counts THEN estimate[m] ELSE 0) IN
          /\ IF sum.at < Len(Order)
             THEN sum' = [sum EXCEPT !.at = @ + 1, !.loaded = loaded] /\ UNCHANGED pc
             ELSE /\ sum' = [sum EXCEPT !.at = 1, !.loaded = loaded]
                  /\ Goto(t, IF pc[t] = "loaded1" THEN "reserved1" ELSE "reserved2")
          /\ UNCHANGED <<memoryLock, steady, job, todo, victim>>
  /\ UNCHANGED <<settingsVars, state, reservation, probed, overtaken>>

(* Mutant of Reserved: the loads of others are not looked at. *)
ReservedIgnored(t, m) == 0

(* What the second loop adds for m: the reservation of a load in progress. *)
Reserved(t, m) ==
  IF m \in Own \ Excluded(t) /\ state[m] = "loading" THEN Gigabytes(reservation[m]) ELSE 0

(* What an external adapter may add: nothing when it is not healthy, what is
   observed or estimated, the larger of both. *)
External(m) ==
  {0} \cup (IF estimate[m] = None THEN {} ELSE {estimate[m]})
      \cup {Max({o, Gigabytes(estimate[m])}) : o \in Resident}

(* One model of the second loop; after the last, the external adapters, and
   the comparison. *)
CountReserved(t) ==
  LET reserved == sum.reserved + Reserved(t, Order[sum.at])
      outside == Outside \ Excluded(t)
  IN
  /\ pc[t] \in {"reserved1", "reserved2"}
  /\ IF sum.at < Len(Order)
     THEN sum' = [sum EXCEPT !.at = @ + 1, !.reserved = reserved] /\ UNCHANGED <<memoryLock, steady, threadVars>>
     ELSE \/ /\ \E m \in outside : estimate[m] = None
             /\ NotAdmitted(t)
          \/ \E external \in {f \in [outside -> UNION {External(m) : m \in outside}] :
                                \A m \in outside : f[m] \in External(m)} :
               IF sum.loaded + reserved + Total(external, outside) + sum.own > sum.limit
               THEN NotAdmitted(t)
               ELSE /\ Passed(t) /\ UNCHANGED <<job, todo, victim>>
                    /\ IF pc[t] = "reserved1"
                       THEN memoryLock' = None /\ sum' = NoSum /\ steady' = {}
                       ELSE sum' = [sum EXCEPT !.reserved = reserved] /\ UNCHANGED <<memoryLock, steady>>
  /\ UNCHANGED <<settingsVars, state, reservation, probed, overtaken>>

(* The model is admitted: "loading", with its reservation, before the lock is
   released.  A limit that was removed meanwhile leaves no reservation. *)
Reserve(t) ==
  /\ pc[t] = "reserve"
  /\ state' = [state EXCEPT ![job[t]] = "loading"]
  /\ reservation' = [reservation EXCEPT ![job[t]] = IF limit = None THEN None ELSE estimate[job[t]]]
  /\ memoryLock' = None
  /\ sum' = NoSum /\ steady' = {}
  /\ Goto(t, "load")
  /\ UNCHANGED <<settingsVars, probed, overtaken, job, todo, victim>>

-----------------------------------------------------------------------------
(* The load has ended, whatever state a probe has set meanwhile; with its only
   waiter gone the model is unloaded again. *)
Load(t) ==
  LET m == job[t] IN
  /\ pc[t] = "load"
  /\ reservation' = [reservation EXCEPT ![m] = None]
  /\ overtaken' = overtaken \ {m}
  /\ \/ \E s \in {"ready", "failed"} : SetState(m, s) /\ End(t)
     \/ /\ SetState(m, "unloading")
        /\ todo' = [todo EXCEPT ![t] = {m}] /\ victim' = [victim EXCEPT ![t] = m]
        /\ Goto(t, "unload") /\ UNCHANGED job
  /\ UNCHANGED <<settingsVars, memoryLock, sum>>

(* _deactivate_blocker and unload: a model is announced as unloading... *)
Evict(t) ==
  /\ pc[t] = "evict"
  /\ \E b \in todo[t] : SetState(b, "unloading") /\ victim' = [victim EXCEPT ![t] = b]
  /\ Goto(t, "unload")
  /\ UNCHANGED <<settingsVars, reservation, memoryLock, sum, overtaken, job, todo>>

(* ... and is unloaded, or ready again when the call fails.  With room made the
   loop of _activate_model goes round again. *)
Unload(t) ==
  LET b == victim[t] IN
  /\ pc[t] = "unload"
  /\ \/ SetState(b, "ready") /\ End(t) /\ UNCHANGED reservation
     \/ /\ SetState(b, "unloaded")
        /\ reservation' = [reservation EXCEPT ![b] = None]
        /\ IF b = job[t]
           THEN End(t)
           ELSE /\ todo' = [todo EXCEPT ![t] = @ \ {b}]
                /\ Goto(t, IF todo[t] = {b} THEN "owns" ELSE "evict") /\ UNCHANGED <<job, victim>>
  /\ UNCHANGED <<settingsVars, memoryLock, sum, overtaken>>

(* _refresh_observed_states applies the answer of a probe, which may have been
   begun long ago: the model is gone, or unverified, or answers again. *)
Observe(m) ==
  /\ m \in probed
  /\ \/ /\ state[m] \in {"ready", "unknown"}
        /\ \E s \in {"unloaded", "unknown", "ready"} \ {state[m]} :
             /\ SetState(m, s)
             /\ reservation' = IF s = "unloaded" THEN [reservation EXCEPT ![m] = None] ELSE reservation
     \* gone, while a request is registered: no other state is looked at
     \/ state[m] \notin {"ready", "unknown"} /\ SetState(m, "unknown") /\ UNCHANGED reservation
  /\ overtaken' = overtaken \cup {n \in {m} : state[n] = "loading"}
  /\ UNCHANGED <<settingsVars, memoryLock, sum, threadVars>>

(* update_settings: another limit, another estimate. *)
ChangeSettings ==
  /\ changes < MaxChanges
  /\ changes' = changes + 1
  /\ \/ limit' \in Limits /\ UNCHANGED estimate
     \/ \E m \in Model, e \in Sizes : estimate' = [estimate EXCEPT ![m] = e] /\ UNCHANGED limit
  /\ steady' = {m \in steady : estimate'[m] = estimate[m]}
  /\ UNCHANGED <<state, reservation, memoryLock, sum, probed, overtaken, threadVars>>

-----------------------------------------------------------------------------
ThreadStep(t) ==
  \/ Begin(t) \/ EnterTransition(t) \/ MakeRoom(t) \/ Refuse(t)
  \/ CheckBegin(t) \/ CountLoaded(t) \/ CountReserved(t) \/ Reserve(t)
  \/ Load(t) \/ Evict(t) \/ Unload(t)

Next ==
  \/ \E t \in Thread : ThreadStep(t)
  \/ \E m \in Model : Observe(m)
  \/ ChangeSettings

AdmissionSpec == AdmissionInit /\ [][Next]_vars

-----------------------------------------------------------------------------
(* A load of n is in progress, and no answer of a probe has overtaken it. *)
Loading(n) == n \notin overtaken /\ \E t \in Thread : pc[t] = "load" /\ job[t] = n

(* A load is announced only if its estimate, the reservations of the loads in
   progress, and the estimates of the models that have been ready since the
   check began fit the limit that was checked: nobody else's admission comes
   between the sum and the reservation, and nobody takes away a reservation
   during its load.  The exception is a probe that was begun before, and is
   applied while a request is registered (1485): the load goes on under
   "unknown", which the sums of _check_memory (2193-2197) do not count. *)
AdmittedLoadsFit ==
  [][\A m \in Model :
       state[m] # "loading" /\ state'[m] = "loading" /\ sum # NoSum =>
         sum.own + Total(estimate, (steady \cap Own) \ {m})
           + Total(reservation, {n \in Own \ {m} : Loading(n)}) <= sum.limit]_vars

(* What a limit promises, and the code does not: what is ready and what is
   loading fit together, as long as nobody changes the settings. *)
LimitRespected ==
  changes = 0 /\ limit # None =>
    Total(estimate, {m \in Own : state[m] \in {"loading", "ready"}}) <= limit
=============================================================================
