---------------------------- MODULE Configuration ----------------------------
(***************************************************************************)
(* The configuration of a running dispatcher (scripts/model_dispatch.py):  *)
(* reload_config, prune_unavailable_models, update_settings, the idle      *)
(* worker, and a restart of the core, among operations that still use what *)
(* they read of an earlier configuration.                                  *)
(*                                                                         *)
(* A load or an unload is one step here; Dispatcher has its parts, and     *)
(* TransitionLocks those of an acquisition.  What matters is which model   *)
(* and which adapter a thread read, and when.  Every managed server serves *)
(* the model it was started for, and every group has one slot.             *)
(***************************************************************************)
EXTENDS Naturals, FiniteSets, Functions

CONSTANTS
  Operator,     \* threads that serve requests, switches and unloads
  Administrator,\* threads that serve reloads and prunes
  IdleWorker,   \* the thread of _idle_loop
  Model, Adapter, Group,
  None,
  Content,      \* what an editor may write into the configuration file
  First,        \* the content the core starts with
  Policy,       \* the settings an operator may save
  Reviewable,   \* the names a client may ask to remove
  Missing,      \* the models whose files or catalog entries are gone
  MaxEdits      \* bound: how often an editor writes the file

Thread == Operator \cup Administrator \cup {IdleWorker}
Key == Adapter \cup Group

(* A content: whether it is valid YAML, the port of each adapter, the adapter
   and the canonical model of each model, the resource groups, and whether an
   idle timeout is set. *)
Models(c) == DOMAIN c.adapterOf
Adapters(c) == DOMAIN c.port

(* The fields of a content, and the names it may use; a model has both an adapter
   and a canonical model, even where the file is too broken to be loaded. *)
IsContent(c) ==
  /\ c = [parses |-> c.parses, port |-> c.port, adapterOf |-> c.adapterOf,
          canonical |-> c.canonical, groups |-> c.groups, idle |-> c.idle]
  /\ Models(c) \subseteq Model
  /\ DOMAIN c.canonical = Models(c)
  /\ Adapters(c) \subseteq Adapter /\ c.groups \subseteq Group /\ c.idle \in BOOLEAN

(* load_config accepts it. *)
Loadable(c) ==
  /\ c.parses
  /\ Models(c) # {}
  /\ Range(c.adapterOf) \subseteq Adapters(c)
  /\ Range(c.canonical) \subseteq Models(c)

(* What _validate_settings lets an operator save: the groups of some models. *)
Settings ==
  [groups : UNION {[ms -> SUBSET Group] : ms \in SUBSET Model}, idle : BOOLEAN, smart : BOOLEAN]

(* The content with some models and adapters taken out. *)
Without(c, gone, unused) ==
  [c EXCEPT !.adapterOf = Restrict(@, Models(c) \ gone),
            !.canonical = Restrict(@, Models(c) \ gone),
            !.port = Restrict(@, Adapters(c) \ unused)]

(* Mutant of Locks: the groups are forgotten. *)
LocksOfAdapters(c) == Adapters(c)

(* _build_transition_locks *)
Locks(c) == Adapters(c) \cup c.groups

ASSUME ConfigurationAssumption ==
  /\ Operator \cap Administrator = {} /\ IdleWorker \notin Operator \cup Administrator
  /\ Adapter \cap Group = {}
  /\ None \notin Model \cup Adapter \cup Thread
  /\ IsFiniteSet(Model)
  /\ \A c \in Content : IsContent(c)
  /\ First \in Content /\ Loadable(First)
  /\ Policy \subseteq Settings /\ None \notin Settings
  /\ Missing \subseteq Model
  /\ Reviewable \subseteq {r \in [gone : SUBSET Model, unused : SUBSET Adapter] : r.gone \cup r.unused # {}}
  /\ MaxEdits \in Nat

VARIABLES
  file,         \* the configuration file
  edits,        \* how often an editor has written it
  config,       \* self.config
  bytes,        \* self._config_bytes, of which the revision is the hash
  undisturbed,  \* history: no edit made config and bytes two contents (see Adopt, Start)
  dropped,      \* history: groups that reloads have taken out, and not put back
  settingsFile, \* the settings file, None if there is none
  settings,     \* self.settings: the groups of models with a policy, idle, smart
  ignored,      \* self._ignored_policy_ids
  taken,        \* history: settings come from settingsFile, or were saved to it
  table,        \* the keys of self._transition_locks
  state,        \* ModelRuntime.state; absent: no entry in self._models
  home,         \* the adapter whose server a model was loaded into
  live,         \* the port of the owned process of each adapter
  pc,
  op,
  model,        \* the name a thread works on
  via,          \* the adapter of that model in the configuration it has read
  attached,     \* whether its ModelRuntime is still the one in self._models
  keys,         \* the transition locks each thread has looked up
  due,          \* the models the idle worker still has to unload
  holder,       \* the thread that keeps self.condition over several steps
  reading,      \* what reload_config has read and, later, parsed, and the edits since
  review        \* what each prune_unavailable_models was asked

fileVars == <<file, edits>>
configVars == <<config, bytes, undisturbed, dropped, table>>
settingsVars == <<settingsFile, settings, ignored, taken>>
modelVars == <<state, home, live>>
jobVars == <<op, model, via>>
vars == <<fileVars, configVars, settingsVars, modelVars, pc, jobVars, attached, keys,
          due, holder, reading, review>>

NoReview == [revision |-> None, gone |-> {}, unused |-> {}, current |-> FALSE]
NoReading == [read |-> None, parsed |-> None, edits |-> 0]

(* _current_policies: the policies of unknown models are ignored. *)
Known(saved, c) == [saved EXCEPT !.groups = Restrict(@, DOMAIN @ \cap Models(c))]

(* _validate_settings: one unknown group makes the whole file unusable. *)
Usable(saved, c) == saved = None \/ UNION Range(Known(saved, c).groups) \subseteq c.groups

(* _load_settings *)
LoadSettings(saved, c) ==
  IF saved = None \/ ~Usable(saved, c)
  THEN [groups |-> [m \in {} |-> {}], idle |-> c.idle, smart |-> FALSE]
  ELSE Known(saved, c)

(* serve has called load_config; ModelDispatcher.__init__ is under way and has
   not read the bytes of the file yet. *)
Init ==
  LET s == LoadSettings(None, First) IN
  /\ file = First /\ edits = 0
  /\ settingsFile = None
  /\ config = [First EXCEPT !.idle = s.idle]
  /\ bytes = None
  /\ undisturbed = FALSE
  /\ dropped = {}
  /\ table = Locks(First)
  /\ settings = s
  /\ ignored = {}
  /\ taken = TRUE
  /\ state = [m \in Model |-> IF m \in Models(First) THEN "unloaded" ELSE "absent"]
  /\ home = [m \in Model |-> None]
  /\ live = [a \in Adapter |-> None]
  /\ pc = [t \in Thread |-> "start"]
  /\ op = [t \in Thread |-> "none"]
  /\ model = [t \in Thread |-> None]
  /\ via = [t \in Thread |-> None]
  /\ attached = [t \in Thread |-> TRUE]
  /\ keys = [t \in Thread |-> {}]
  /\ due = {}
  /\ holder = None
  /\ reading = NoReading
  /\ review = [t \in Administrator |-> NoReview]

(* self._config_bytes is read from the file, which may have been edited since
   load_config read it, and is not compared; then threads are served, and the
   idle thread is started if it is wanted. *)
Start ==
  /\ pc[IdleWorker] = "start"
  /\ bytes' = file
  /\ undisturbed' = (reading.edits = 0)
  /\ reading' = NoReading
  /\ pc' = [t \in Thread |-> IF t # IdleWorker THEN "idle"
                             ELSE IF settings.idle THEN "scan" ELSE "none"]
  /\ UNCHANGED <<fileVars, config, dropped, table, settingsVars, modelVars, jobVars, attached,
                 keys, due, holder, review>>

-----------------------------------------------------------------------------
(* The next step of a thread; one that is idle again forgets its job. *)
Goto(t, label) ==
  /\ pc' = [pc EXCEPT ![t] = label]
  /\ IF label = "idle"
     THEN /\ op' = [op EXCEPT ![t] = "none"]
          /\ model' = [model EXCEPT ![t] = None]
          /\ via' = [via EXCEPT ![t] = None]
          /\ attached' = [attached EXCEPT ![t] = TRUE]
     ELSE UNCHANGED <<jobVars, attached>>

(* The entries of self._requests for a model. *)
Requests(m) == {t \in Operator : op[t] = "request" /\ pc[t] \notin {"idle", "read"} /\ model[t] = m}

(* _transitions_active, active_requests: reload and prune are refused. *)
Announced == {t \in Thread : pc[t] \in {"wait", "locked", "done", "refused"}}
Quiet == Announced = {} /\ \A m \in Model : Requests(m) = {}

EffectiveGroups(m) == IF m \in DOMAIN settings.groups THEN settings.groups[m] ELSE {}
KeysOf(m, a) == {a} \cup EffectiveGroups(m)

(* The idle worker is started if it is wanted and was never started. *)
Wanted(on) == IF on /\ pc[IdleWorker] = "none" THEN "scan" ELSE pc[IdleWorker]

-----------------------------------------------------------------------------
(* Operations on a model.  Each reads its model before it takes any lock or
   the condition, and announces itself only in _acquire_transitions. *)

ReadModel(t, what, m) ==
  /\ m \in Models(config)
  /\ op' = [op EXCEPT ![t] = what]
  /\ model' = [model EXCEPT ![t] = m]
  /\ via' = [via EXCEPT ![t] = config.adapterOf[m]]
  /\ attached' = [attached EXCEPT ![t] = TRUE]
  /\ pc' = [pc EXCEPT ![t] = "read"]
  /\ UNCHANGED <<fileVars, configVars, settingsVars, modelVars, keys, holder, reading,
                 review>>

Begin(t, m) ==
  /\ pc[t] = "idle"
  /\ \E what \in {"request", "switch", "unload"} : ReadModel(t, what, m)
  /\ UNCHANGED due

(* begin_request enters the request in self._requests, and the runtime of the
   model is read; there may be none any more. *)
Register(t) ==
  /\ pc[t] = "read" /\ op[t] = "request"
  /\ holder = None
  /\ \/ /\ model[t] \in Models(config)
        /\ pc' = [pc EXCEPT ![t] = "registered"]
        /\ attached' = [attached EXCEPT ![t] = TRUE]
        /\ UNCHANGED jobVars
     \/ model[t] \notin Models(config) /\ Goto(t, "idle")
  /\ UNCHANGED <<fileVars, configVars, settingsVars, modelVars, keys, due,
                 holder, reading, review>>

(* A model that is ready already needs no lock. *)
FastPath(t) ==
  /\ pc[t] = (IF op[t] = "request" THEN "registered" ELSE "read")
  /\ op[t] # "unload"
  /\ holder = None
  /\ attached[t] /\ state[model[t]] = "ready"
  /\ Goto(t, IF op[t] = "request" THEN "answer" ELSE "idle")
  /\ UNCHANGED <<fileVars, configVars, settingsVars, modelVars, keys, due,
                 holder, reading, review>>

(* The transition is announced and its locks are looked up; a key without a
   lock is a KeyError, which ends an operation and the idle worker as well. *)
Announce(t) ==
  LET wanted == KeysOf(model[t], via[t]) IN
  /\ pc[t] = (IF op[t] = "request" THEN "registered" ELSE "read")
  /\ holder = None
  /\ \/ /\ wanted \subseteq table
        /\ keys' = [keys EXCEPT ![t] = wanted]
        /\ Goto(t, "wait")
     \/ /\ ~(wanted \subseteq table)
        /\ Goto(t, IF t = IdleWorker THEN "dead" ELSE "idle")
        /\ UNCHANGED keys
  /\ UNCHANGED <<fileVars, configVars, settingsVars, modelVars, due, holder, reading,
                 review>>

Held(t) == IF pc[t] \in {"locked", "done", "refused"} THEN keys[t] ELSE {}

Acquire(t) ==
  /\ pc[t] = "wait"
  /\ \A u \in Thread : Held(u) \cap keys[t] = {}
  /\ Goto(t, "locked")
  /\ UNCHANGED <<fileVars, configVars, settingsVars, modelVars, keys, due, holder, reading,
                 review>>

(* Another model of an adapter is in use, so its server stays. *)
InUse(a, except) ==
  \E n \in Models(config) \ except : config.adapterOf[n] = a /\ state[n] = "ready"

Evicted(m, a) ==
  {n \in Models(config) \ {m} :
     /\ state[n] = "ready"
     /\ \/ config.adapterOf[n] = a
        \/ EffectiveGroups(n) \cap EffectiveGroups(m) # {}}

(* The load evicts, then fails with a KeyError if its model was removed
   meanwhile; otherwise the server is started by the adapter the thread has
   read, and the model is ready, or it fails, which is the same as unloaded
   to everything in this module.  The name of the model leads to
   its present runtime only while the thread's own one is still attached. *)
Load(t) ==
  LET m == model[t]
      a == via[t]
      out == Evicted(m, a)
      stopped == {config.adapterOf[n] : n \in out}
      after == [b \in Adapter |-> IF b \in stopped /\ ~InUse(b, out) THEN None ELSE live[b]]
      evict == [n \in Model |-> IF n \in out THEN "unloaded" ELSE state[n]]
      nowhere == [n \in Model |-> IF n \in out THEN None ELSE home[n]]
  IN
  /\ pc[t] = "locked" /\ op[t] # "unload"
  /\ holder = None
  /\ Goto(t, "done")
  /\ \/ /\ \/ attached[t] /\ state[m] = "ready"
           \/ \E n \in out : Requests(n) # {}
        /\ UNCHANGED modelVars
     \/ /\ ~(attached[t] /\ state[m] = "ready")
        /\ \A n \in out : Requests(n) = {}
        /\ \/ /\ m \in Models(config) /\ a \in Adapters(config)
              /\ live' = [after EXCEPT ![a] = config.port[a]]
              /\ home' = [nowhere EXCEPT ![m] = a]
              /\ state' = IF attached[t] THEN [evict EXCEPT ![m] = "ready"] ELSE evict
           \/ /\ live' = after
              /\ home' = nowhere
              /\ state' = evict
  /\ UNCHANGED <<fileVars, configVars, settingsVars, keys, due, holder,
                 reading, review>>

(* unload refuses a busy model, and stops the server of the adapter that the
   configuration names now. *)
Unload(t) ==
  LET m == model[t]
      a == config.adapterOf[m]
  IN
  /\ pc[t] = "locked" /\ op[t] = "unload"
  /\ holder = None
  /\ IF state[m] = "ready" /\ Requests(m) = {}
     THEN /\ state' = [state EXCEPT ![m] = "unloaded"]
          /\ home' = [home EXCEPT ![m] = None]
          /\ live' = IF InUse(a, {m}) THEN live ELSE [live EXCEPT ![a] = None]
          /\ Goto(t, "done")
     ELSE /\ Goto(t, IF state[m] = "ready" THEN "refused" ELSE "done")
          /\ UNCHANGED modelVars
  /\ UNCHANGED <<fileVars, configVars, settingsVars, keys, due, holder, reading, review>>

Release(t) ==
  /\ pc[t] \in {"done", "refused"}
  /\ holder = None
  /\ keys' = [keys EXCEPT ![t] = {}]
  /\ Goto(t, CASE t = IdleWorker /\ pc[t] = "refused" -> "handle"
               [] t = IdleWorker /\ pc[t] = "done" -> "due"
               [] op[t] = "request" /\ state[model[t]] = "ready" -> "answer"
               [] OTHER -> "idle")
  /\ UNCHANGED <<fileVars, configVars, settingsVars, modelVars, due, holder, reading, review>>

(* The last look at the state; a request that fails it stays registered. *)
Answer(t) ==
  /\ pc[t] = "answer"
  /\ holder = None
  /\ Goto(t, IF state[model[t]] = "ready" THEN "relay" ELSE "lost")
  /\ UNCHANGED <<fileVars, configVars, settingsVars, modelVars, keys, due,
                 holder, reading, review>>

EndRequest(t) ==
  /\ pc[t] = "relay"
  /\ holder = None
  /\ Goto(t, "idle")
  /\ UNCHANGED <<fileVars, configVars, settingsVars, modelVars, keys, due,
                 holder, reading, review>>

-----------------------------------------------------------------------------
(* _idle_loop: the models that are due are collected under the condition and
   unloaded one by one; a DispatchError is noted in the entry of its model,
   any other exception, a missing entry included, ends the thread. *)

IdleScan ==
  LET candidates == {m \in Models(config) : state[m] = "ready" /\ Requests(m) = {}} IN
  /\ pc[IdleWorker] = "scan"
  /\ holder = None
  /\ config.idle
  /\ due' \in SUBSET candidates \ {{}}
  /\ Goto(IdleWorker, "due")
  /\ UNCHANGED <<fileVars, configVars, settingsVars, modelVars, keys, holder, reading, review>>

IdleNext ==
  /\ pc[IdleWorker] = "due"
  /\ \E m \in due :
       /\ due' = due \ {m}
       /\ IF m \in Models(config)
          THEN ReadModel(IdleWorker, "unload", m)
          ELSE /\ model' = [model EXCEPT ![IdleWorker] = m]
               /\ pc' = [pc EXCEPT ![IdleWorker] = "handle"]
               /\ UNCHANGED <<fileVars, configVars, settingsVars, modelVars, op, via, attached,
                              keys, holder, reading, review>>

IdleHandle ==
  /\ pc[IdleWorker] = "handle"
  /\ holder = None
  /\ Goto(IdleWorker, IF state[model[IdleWorker]] = "absent" THEN "dead" ELSE "due")
  /\ UNCHANGED <<fileVars, configVars, settingsVars, modelVars, keys, due, holder, reading,
                 review>>

IdleRest ==
  /\ pc[IdleWorker] = "due"
  /\ due = {}
  /\ pc' = [pc EXCEPT ![IdleWorker] = "scan"]
  /\ op' = [op EXCEPT ![IdleWorker] = "none"]
  /\ model' = [model EXCEPT ![IdleWorker] = None]
  /\ via' = [via EXCEPT ![IdleWorker] = None]
  /\ attached' = [attached EXCEPT ![IdleWorker] = TRUE]
  /\ UNCHANGED <<fileVars, configVars, settingsVars, modelVars, keys, due, holder, reading,
                 review>>

-----------------------------------------------------------------------------
(* update_settings: checked, written to the file and taken over in one block.
   A payload without policies keeps the ones in force, unchecked. *)

UpdateSettings ==
  /\ pc[IdleWorker] # "start"
  /\ holder = None
  /\ \E p \in Policy, keep \in BOOLEAN :
       /\ ~keep => DOMAIN p.groups \subseteq Models(config) /\ UNION Range(p.groups) \subseteq config.groups
       /\ settings' = IF keep THEN [p EXCEPT !.groups = settings.groups] ELSE p
  /\ settingsFile' = settings'
  /\ ignored' = {}
  /\ taken' = TRUE
  /\ config' = [config EXCEPT !.idle = settings'.idle]
  /\ pc' = [pc EXCEPT ![IdleWorker] = Wanted(settings'.idle)]
  /\ review' = [u \in Administrator |-> [review[u] EXCEPT !.current = FALSE]]
  /\ UNCHANGED <<fileVars, bytes, undisturbed, dropped, table, modelVars, jobVars, attached,
                 keys, due, holder, reading>>

-----------------------------------------------------------------------------
(* reload_config, with the condition held from its guard to its end.  The
   file is read, parsed from a second reading, and compared by a third. *)

BeginReload(t) ==
  /\ pc[t] = "idle"
  /\ holder = None
  /\ Quiet
  /\ holder' = t
  /\ Goto(t, "reload")
  /\ UNCHANGED <<fileVars, configVars, settingsVars, modelVars, keys, due, reading, review>>

Reload(t) ==
  /\ pc[t] = "reload"
  /\ reading' = [NoReading EXCEPT !.read = file]
  /\ Goto(t, "parse")
  /\ UNCHANGED <<fileVars, configVars, settingsVars, modelVars, keys, due, holder, review>>

(* reload_config raises; a prune that called it copies its backup back. *)
Rejected(t) ==
  /\ reading' = NoReading
  /\ IF review[t] # NoReview
     THEN Goto(t, "rollback") /\ UNCHANGED holder
     ELSE Goto(t, "idle") /\ holder' = None
  /\ UNCHANGED <<configVars, settingsVars, modelVars, review>>

Parse(t) ==
  /\ pc[t] = "parse"
  /\ IF Loadable(file)
     THEN /\ reading' = [reading EXCEPT !.parsed = file]
          /\ Goto(t, "confirm")
          /\ UNCHANGED <<configVars, settingsVars, modelVars, holder, review>>
     ELSE Rejected(t)
  /\ UNCHANGED <<fileVars, keys, due>>

(* Mutant of Accepts: the running processes are not looked at. *)
AcceptsLoaded(c) ==
  \A m \in Models(config) :
    state[m] = "ready" => m \in Models(c) /\ c.adapterOf[m] = config.adapterOf[m]

(* Neither a loaded model nor a running process loses its configuration. *)
Accepts(c) ==
  /\ \A m \in Models(config) :
       state[m] = "ready" => m \in Models(c) /\ c.adapterOf[m] = config.adapterOf[m]
  /\ \A a \in Adapters(config) :
       live[a] # None => a \in Adapters(c) /\ c.port[a] = config.port[a]

(* Mutant of IdleAfter: the new file always decides. *)
IdleAfterReload(c) == c.idle

(* Saved settings keep their idle timeout. *)
IdleAfter(c) == IF settingsFile # None THEN settings.idle ELSE c.idle

(* Mutant of Carried: the entries of removed models stay. *)
CarriedAll(c) ==
  [m \in Model |-> IF m \in Models(c) /\ state[m] = "absent" THEN "unloaded" ELSE state[m]]

(* The new self._models: entries stay, appear and go with the models. *)
Carried(c) ==
  [m \in Model |-> IF m \notin Models(c) THEN "absent"
                  ELSE IF state[m] = "absent" THEN "unloaded" ELSE state[m]]

(* The part of reload_config that takes the new configuration over: policies
   of removed models are dropped, and the threads between their first reading
   and their announcement are left with what they have.  One edit between the
   readings is always noticed; two may be, if they change the file and change
   it back. *)
Adopt(t, c) ==
  LET idle == IdleAfter(c) IN
  /\ config' = [c EXCEPT !.idle = idle]
  /\ bytes' = reading.read
  /\ undisturbed' = (reading.edits < 2)
  /\ dropped' = (dropped \cup config.groups) \ c.groups
  /\ table' = Locks(c)
  /\ settings' = [settings EXCEPT !.idle = idle, !.groups = Restrict(@, DOMAIN @ \cap Models(c))]
  /\ ignored' = ignored \cup (DOMAIN settings.groups \ Models(c))
  /\ state' = Carried(c)
  /\ attached' = [u \in Thread |-> attached[u] /\ (model[u] # None => model[u] \in Models(c))]
  /\ reading' = NoReading
  /\ IF review[t] # NoReview
     THEN /\ pc' = [pc EXCEPT ![t] = "save", ![IdleWorker] = Wanted(idle)]
          /\ UNCHANGED holder
     ELSE /\ pc' = [pc EXCEPT ![t] = "idle", ![IdleWorker] = Wanted(idle)]
          /\ holder' = None
  /\ review' = [u \in Administrator |-> [review[u] EXCEPT !.current = FALSE]]
  /\ UNCHANGED <<settingsFile, taken, home, live, jobVars>>

(* Mutant of Confirm: the bytes are not compared. *)
ConfirmUncompared(t) ==
  /\ pc[t] = "confirm"
  /\ IF Accepts(reading.parsed) THEN Adopt(t, reading.parsed) ELSE Rejected(t)
  /\ UNCHANGED <<fileVars, keys, due>>

Confirm(t) ==
  /\ pc[t] = "confirm"
  /\ IF file = reading.read /\ Accepts(reading.parsed)
     THEN Adopt(t, reading.parsed)
     ELSE Rejected(t)
  /\ UNCHANGED <<fileVars, keys, due>>

-----------------------------------------------------------------------------
(* prune_unavailable_models.  A client has reviewed some models and adapters
   at a revision; the request is checked before the slow probes, and again
   after them, when the file is replaced under the condition. *)

Review(t) ==
  /\ pc[t] = "idle"
  /\ \E r \in Reviewable :
       review' = [review EXCEPT ![t] =
         [revision |-> bytes, gone |-> r.gone, unused |-> r.unused, current |-> FALSE]]
  /\ pc' = [pc EXCEPT ![t] = "reviewed"]
  /\ UNCHANGED <<fileVars, configVars, settingsVars, modelVars, jobVars, attached, keys, due,
                 holder, reading>>

GivesUp(t) ==
  /\ Goto(t, "idle")
  /\ review' = [review EXCEPT ![t] = NoReview]
  /\ holder' = None

PruneBegin(t) ==
  /\ pc[t] = "reviewed"
  /\ holder = None
  /\ IF review[t].revision = bytes /\ Quiet
     THEN /\ review' = [review EXCEPT ![t].current = TRUE]
          /\ Goto(t, "probed")
          /\ UNCHANGED holder
     ELSE GivesUp(t)
  /\ UNCHANGED <<fileVars, configVars, settingsVars, modelVars, keys, due, reading>>

(* Mutant of Removable: the canonical models are not looked at. *)
RemovableCareless(gone, unused) ==
  /\ gone \subseteq Models(config) /\ gone \subseteq Missing
  /\ \A m \in gone : state[m] = "unloaded"
  /\ Cardinality(gone) < Cardinality(Models(config))
  /\ unused \subseteq Adapters(config)
  /\ \A m \in Models(config) \ gone : config.adapterOf[m] \notin unused
  /\ \A a \in unused : live[a] = None

(* What a prune requires of the models and the adapters it removes. *)
Removable(gone, unused) ==
  /\ gone \subseteq Models(config) /\ gone \subseteq Missing
  /\ \A m \in gone : state[m] = "unloaded"
  /\ \A m \in Models(config) \ gone : config.canonical[m] \notin gone
  /\ Cardinality(gone) < Cardinality(Models(config))
  /\ unused \subseteq Adapters(config)
  /\ \A m \in Models(config) \ gone : config.adapterOf[m] \notin unused
  /\ \A a \in unused : live[a] = None

(* safe_load of the bytes and the pops: they raise if the bytes are not those
   of the configuration in force and lack what is to be removed. *)
Strikable(gone, unused) ==
  bytes.parses /\ gone \subseteq Models(bytes) /\ unused \subseteq Adapters(bytes)

(* Mutant of PruneCheck: only the first check looked at the revision. *)
PruneCheckLate(t) ==
  LET asked == review[t] IN
  /\ pc[t] = "probed"
  /\ holder = None
  /\ IF Quiet /\ file = bytes /\ Removable(asked.gone, asked.unused)
          /\ Strikable(asked.gone, asked.unused)
     THEN Goto(t, "recheck") /\ holder' = t /\ UNCHANGED review
     ELSE GivesUp(t)
  /\ UNCHANGED <<fileVars, configVars, settingsVars, modelVars, keys, due, reading>>

PruneCheck(t) ==
  LET asked == review[t] IN
  /\ pc[t] = "probed"
  /\ holder = None
  /\ IF asked.current /\ asked.revision = bytes /\ Quiet /\ file = bytes
          /\ Removable(asked.gone, asked.unused) /\ Strikable(asked.gone, asked.unused)
     THEN Goto(t, "recheck") /\ holder' = t /\ UNCHANGED review
     ELSE GivesUp(t)
  /\ UNCHANGED <<fileVars, configVars, settingsVars, modelVars, keys, due, reading>>

(* With the backup and the new file written, the file is compared again ... *)
PruneRecheck(t) ==
  /\ pc[t] = "recheck"
  /\ IF file = bytes
     THEN Goto(t, "replace") /\ UNCHANGED <<holder, review>>
     ELSE GivesUp(t)
  /\ UNCHANGED <<fileVars, configVars, settingsVars, modelVars, keys, due, reading>>

(* ... and then replaced: nothing prevents an edit in between. *)
PruneReplace(t) ==
  /\ pc[t] = "replace"
  /\ file' = Without(bytes, review[t].gone, review[t].unused)
  /\ Goto(t, "reload")
  /\ UNCHANGED <<edits, configVars, settingsVars, modelVars, keys, due, holder, reading, review>>

(* shutil.copy2 of the backup, whatever the file holds now. *)
Rollback(t) ==
  /\ pc[t] = "rollback"
  /\ file' = bytes
  /\ GivesUp(t)
  /\ UNCHANGED <<edits, configVars, settingsVars, modelVars, keys, due, reading>>

(* The policies of the removed IDs are dropped from the settings file, which
   may fail without undoing anything. *)
SavePolicies(t) ==
  /\ pc[t] = "save"
  /\ \/ /\ settingsFile # None /\ ignored # {}
        /\ settingsFile' = settings
        /\ ignored' = {}
        /\ taken' = TRUE
     \/ UNCHANGED <<settingsFile, ignored, taken>>
  /\ GivesUp(t)
  /\ UNCHANGED <<fileVars, configVars, settings, modelVars, keys, due, reading>>

-----------------------------------------------------------------------------
(* An editor, another process, writes the file at any time; the edits are
   counted that come between the readings of a start or a reload. *)
Edit ==
  /\ edits < MaxEdits
  /\ edits' = edits + 1
  /\ file' \in Content \ {file}
  /\ reading' = IF \E t \in Thread : pc[t] \in {"start", "parse", "confirm"}
                THEN [reading EXCEPT !.edits = @ + 1] ELSE reading
  /\ UNCHANGED <<configVars, settingsVars, modelVars, pc, jobVars, attached, keys, due, holder,
                 review>>

(* The core dies and another one starts, at once or when the file is valid
   again; what the old one started is not owned by the new one.  load_config
   has read the file; Start reads it once more. *)
Restart ==
  LET s == LoadSettings(settingsFile, file) IN
  /\ Loadable(file)
  /\ config' = [file EXCEPT !.idle = s.idle]
  /\ bytes' = None
  /\ undisturbed' = FALSE
  /\ dropped' = {}
  /\ table' = Locks(file)
  /\ settings' = s
  /\ ignored' = IF settingsFile = None THEN {} ELSE DOMAIN settingsFile.groups \ Models(file)
  /\ taken' = Usable(settingsFile, file)
  /\ state' = [m \in Model |-> IF m \in Models(file) THEN "unloaded" ELSE "absent"]
  /\ home' = [m \in Model |-> None]
  /\ live' = [a \in Adapter |-> None]
  /\ pc' = [t \in Thread |-> "start"]
  /\ op' = [t \in Thread |-> "none"]
  /\ model' = [t \in Thread |-> None]
  /\ via' = [t \in Thread |-> None]
  /\ attached' = [t \in Thread |-> TRUE]
  /\ keys' = [t \in Thread |-> {}]
  /\ due' = {}
  /\ holder' = None
  /\ reading' = NoReading
  /\ review' = [t \in Administrator |-> NoReview]
  /\ UNCHANGED <<fileVars, settingsFile>>

-----------------------------------------------------------------------------
Operate(t) ==
  \/ Register(t) \/ FastPath(t) \/ Announce(t) \/ Acquire(t) \/ Load(t) \/ Unload(t)
  \/ Release(t) \/ Answer(t) \/ EndRequest(t)
ReloadStep(t) == BeginReload(t) \/ Reload(t) \/ Parse(t) \/ Confirm(t)
PruneStep(t) ==
  \/ Review(t) \/ PruneBegin(t) \/ PruneCheck(t) \/ PruneRecheck(t) \/ PruneReplace(t)
  \/ Rollback(t) \/ SavePolicies(t)

Next ==
  \/ \E t \in Thread : Operate(t)
  \/ \E t \in Operator, m \in Model : Begin(t, m)
  \/ \E t \in Administrator : ReloadStep(t) \/ PruneStep(t)
  \/ IdleScan \/ IdleNext \/ IdleHandle \/ IdleRest
  \/ UpdateSettings \/ Edit \/ Restart \/ Start

Spec == Init /\ [][Next]_vars

-----------------------------------------------------------------------------
Label ==
  {"start", "none", "idle", "read", "registered", "wait", "locked", "done", "refused", "answer",
   "relay", "lost", "scan", "due", "handle", "dead", "reload", "parse", "confirm",
   "reviewed", "probed", "recheck", "replace", "rollback", "save"}

TypeOK ==
  /\ state \in [Model -> {"absent", "unloaded", "ready"}]
  /\ home \in [Model -> Adapter \cup {None}]
  /\ table \subseteq Key
  /\ keys \in [Thread -> SUBSET Key]
  /\ pc \in [Thread -> Label]
  /\ op \in [Thread -> {"none", "request", "switch", "unload"}]
  /\ model \in [Thread -> Model \cup {None}]
  /\ via \in [Thread -> Adapter \cup {None}]
  /\ attached \in [Thread -> BOOLEAN]
  /\ due \subseteq Model
  /\ holder \in Administrator \cup {None}
  /\ Loadable(config)
  /\ {m \in Model : state[m] # "absent"} = Models(config)

(* A reload never orphans live state: a ready model is configured, on the
   adapter whose server holds it, and a running process is configured as it
   was started. *)
LoadedStaysConfigured ==
  /\ \A m \in Model : state[m] = "ready" => m \in Models(config) /\ home[m] = config.adapterOf[m]
  /\ \A a \in Adapter : live[a] # None => a \in Adapters(config) /\ live[a] = config.port[a]

(* Each model that is configured can be locked, whatever the settings and the
   configuration were changed to, and in which order, but for groups that its
   policy names and a reload has dropped: no reload looks at the policies. *)
KeysHaveLocks == \A m \in Models(config) : KeysOf(m, config.adapterOf[m]) \subseteq table \cup dropped

(* The revision that clients review is that of the configuration in force,
   unless an edit came between the two readings of the start, or two of them
   between the readings of one reload. *)
RevisionNamesConfig == undisturbed => config = [bytes EXCEPT !.idle = config.idle]

(* A prune writes what was reviewed: the file it writes is the reviewed
   revision without the reviewed names, and none of them is in use. *)
PruneWritesReviewed ==
  [][\A t \in Administrator : pc[t] = "replace" /\ pc'[t] = "reload" =>
       /\ file' = Without(review[t].revision, review[t].gone, review[t].unused)
       /\ \A m \in review[t].gone : state[m] # "ready" /\ Requests(m) = {}
       /\ \A u \in Announced : model[u] \notin review[t].gone /\ via[u] \notin review[t].unused]_vars

(* The core itself never writes a file with which it could not start, unless
   an edit has made the configuration in force and its bytes two contents. *)
WritesAreLoadable ==
  [][\A t \in Administrator :
       undisturbed /\ pc[t] \in {"replace", "rollback"} /\ pc'[t] # pc[t] =>
         Loadable(file') \/ file' = file]_vars

(* A restart in the middle of anything changes no policy that is in force, as
   long as the file is the one that was loaded, and the settings file is one
   that it accepts and that the last start has accepted. *)
PoliciesSurviveRestart ==
  holder = None /\ undisturbed /\ file = bytes /\ taken /\ Usable(settingsFile, bytes) =>
    LET then == LoadSettings(settingsFile, bytes) IN
    /\ then.smart = settings.smart /\ then.idle = settings.idle
    /\ \A m \in DOMAIN settings.groups :
         m \in DOMAIN then.groups /\ then.groups[m] = settings.groups[m]

(* With an idle timeout set there is a thread that unloads idle models. *)
IdleTimerRuns == config.idle => pc[IdleWorker] \notin {"none", "dead"}
=============================================================================
