# A formal model of InferenceDock's dispatcher

InferenceDock runs one local HTTP service (`scripts/model_dispatch.py`) in front
of several model servers. It starts and stops those servers, loads and unloads
models in them, keeps models that do not fit together apart, and relays chat
requests. This directory holds TLA+ modules that model the parts of it that are
concurrent or that survive failures, the TLC configurations that check them on
small instances, and proofs that the TLA+ proof system checks for every instance.

Line numbers without a file are those of `src/scripts/model_dispatch.py`.

    tlc -config DispatcherPair.cfg MCDispatcher.tla     # model-check one run
    tlapm DispatcherProofs.tla                          # check the proofs of a module

`PROJECT.json` lists the runs, the properties of each, the mutant of the code's
model that each property catches, the source lines of each definition, the
hazards and the disagreements found.

## 1. The system

### Components

| component | state | operations | what makes it hard | correct means |
|---|---|---|---|---|
| **transition locks** (1022-1034, 1399-1431) | the lock table (one lock per adapter, one counting semaphore per resource group), `_transitions_active` | `_acquire_transitions`, `_release_transitions`; `reload_config` replaces the table | polled acquisition of several locks with deadline and cancellation; a table that changes | no lock is overbooked, no circular wait, nobody works on an old table, nothing leaks on an exception |
| **model lifecycle** (1433-1491, 1767-1804, 1978-2120, 2210-2629) | a state per model (`unloaded`, `loading`, `ready`, `unloading`, `failed`, `unknown`), the table of active requests | `begin_request`, `end_request`, `cancel`, `activate`, `unload`, `status`, `_refresh_observed_states`, eviction | the condition is given up around every call of a backend; every call may fail; probes are applied late | rivals are never resident together, requests are admitted to models that are really loaded, every transient state is ended |
| **backend processes** (774-920) | the process of each adapter; the port may belong to somebody else | `ensure_started`, `_ensure_managed`, `stop`, `healthy` | a process dies by itself, does not die, or is not ours | a server that is not ours is never stopped |
| **memory admission** (2109-2208) | reservations of loading models | `_check_memory`, `_external_memory_gb` | sums over states that change meanwhile | a load that is admitted fits beside what was counted |
| **configuration, settings, reload, pruning** (238-583, 1036-1169, 1206-1398) | the configuration file and the bytes of the one in force, the settings file, ignored policies | `load_config`, `reload_config`, `update_settings`, `prune_unavailable_models` | an editor writes the same file; a client reviewed an older revision; operations still use what they read before | no edit orphans what is loaded, a prune removes what was reviewed, a restart finds the same policies |
| **idle unloading** (1171-1201) | one thread, the list of models that are due | `_idle_loop` | works on a list taken under an earlier configuration | as long as a timeout is set, somebody unloads idle models |
| **HTTP handler and relay** (2796-3329) | per request: recovery state, upstream, parser of the stream | `do_GET`, `do_POST`, SSE parsing, Metal recovery | cancellation against completion; a recovery without locks; buffers that are cut; many writers of the finish reason | the client gets one answer, a success was one, nothing stays open |
| **request recorder** (2654-2795) | the log, its rotated predecessor, the aggregate, the recent entries | `record`, `_update_aggregate`, `snapshot` | rotation by renaming while writing | bounded files that lose old entries only, an aggregate that loses nothing |
| **catalogs and availability** (1493-1682) | two caches with a lifetime, each with a lock | refresh, snapshot, `_model_availability` | a probe that ends after a reload; answers shared between loads and reviews | nothing is refused or removed without evidence |
| **agent configuration tool** (`agent_config.py`) | a client's configuration file and its backup | `apply_config`, `restore_config` | one fixed backup name; owners and other tools write the same file | the last replacement can be undone, a client reads half a file only if a copy was broken off |
| **migration helper** (`migration_helper.py`) | several files and their backups | `build_plan`, `apply_file` for each | one of several files fails or was edited since the plan | a prefix of the plan, a backup of each replaced file |
| **plugin registry, runtime compiler** (`plugin_registry.py`, `plugin_runtime.py`) | none (files to files) | validation, compilation of manifests into a configuration | none | the output is accepted by `load_config` |
| **update monitor, source export, packaging, fake backend** | none | read-only queries, build scripts, a test double | none | not about state |
| **menu bar application** (`main.swift`) | the process of the core, the last status | polling client; starts the core | start of a core while another one holds the port | at most one core |

### Interaction

Every HTTP request is a thread of `ThreadingHTTPServer`. The threads share one
`ModelDispatcher`: its fields are guarded by `self.condition` (a re-entrant lock
with a condition), and everything that lasts, a call of a backend above all, runs
without it, under the transition locks only. A chat request registers itself,
activates its model if it is not ready (probes, transition locks, eviction of
rivals, memory admission, start of the server, load call), and is relayed; a
switch does the same without a request; an unload and the idle worker go the
other way. Probes (`status`) and the Metal recovery set states without transition
locks. `reload_config` and `prune_unavailable_models` hold the condition and refuse
to run while anybody is registered as request or transition; but each operation
reads its model from the configuration *before* it registers. Before a load, and when
a client reviews the configuration, the caches of the catalogs say whether a model is
installed; a reload clears them. A handler relays its upstream with no lock at all: the
cancellation of another thread reaches it through an event and by the upstream being
closed under it. Each handled request is recorded, under the recorder's own lock. The
agent configuration tool and the migration helper are processes of their own: they
share with each other, and with the owners, only the files they replace.

## 2. The modules

| module | models | extends / uses |
|---|---|---|
| `Leases` | abstract: the keys of a transition are granted in one step and given back in one step, none beyond its slots | |
| `TransitionLocks` | the lock protocol, and the replacement of the table by a reload; implements `Leases` | `Leases` (INSTANCE) |
| `Residency` | abstract: what the dispatcher promises its clients. Models take and give up resources, rivals never hold theirs together, clients are admitted to models that hold theirs | |
| `Dispatcher` | model lifecycle and backend processes, on top of `Leases`; implements `Residency` | `Leases` (EXTENDS), `Residency` (INSTANCE) |
| `Admission` | memory admission: the loops of `_check_memory`, reservations, and all that changes the sums | |
| `Configuration` | reload, prune, settings, idle worker, editor, restarts, with coarse operations | |
| `Catalogs` | the caches of the catalogs and model lists, reviews, reloads | |
| `Recorder` | `record` with rotation, aggregate, failing disk, crashes | |
| `Relay` | the chat path of `do_POST`, `cancel`, clients and upstreams | `Recorder` (EXTENDS) |
| `ClientFiles` | the files of the clients, and who replaces them | |
| `AgentConfig`, `Migration` | the two tools that replace them | `ClientFiles` (EXTENDS) |
| `ClientTools` | both tools and the owners together | `AgentConfig`, `Migration` (EXTENDS) |
| `MC...` | an instance of each for TLC | |
| `TransitionLocksProofs`, `DispatcherProofs` | theorems on locks, lifecycle and both refinements | `FiniteSetTheorems`, `WellFoundedInduction`, `TLAPS` |
| `AdmissionProofs` | theorems on the sums of memory admission and what they admit | `WellFoundedInduction`, `TLAPS` |
| `ConfigurationProofs`, `RecorderProofs`, `CatalogsProofs` | theorems on pruning, reloads and settings, the log, the catalogs | `TLAPS` and its theorems |
| `RelayProofs` | theorems on the chat path, and that it implements `Recorder` | `RecorderProofs` (EXTENDS), `WellFoundedInduction` |
| `ClientToolsProofs` | theorems on the two tools and on the rewriting of a line | `FiniteSetTheorems`, `TLAPS` |

The parts of the dispatcher are composed by abstraction. The lock protocol has many
small steps, so it is checked and proved alone and shown to implement `Leases`; the
lifecycle uses `Leases` (theorem `UsesLeases`), so its state space has no half
acquired locks. The others need to know less of each other: `Configuration` of an
operation only which model and which adapter it read, and when; `Admission` only when
states change; `Relay` only that `begin_request` succeeds or fails, and `Dispatcher` of
the relay only that it ends. `Recorder` and the two tools are composed by conjunction,
step by step, since they share files or a lock.

### TransitionLocks

A thread goes `out`, `listing` (announced: `_transitions_active` is incremented,
the table not yet read; the lookup of a key without a lock ends there, `ListingFails`), `acquiring`, `in`, `releasing`, `out`. `Acquire` takes the
next lock in `sorted` order, `GiveUp` is the deadline or the cancellation of a poll
(everything is given back), `ReleaseLast` releases in the reverse order,
`Withdraw` decrements. `table[t]` is the generation of the lock table the thread's
locks come from: a slot is free or taken *within a generation*, which is what
makes a reload dangerous. `MaxReload` bounds the generations.

### Dispatcher

An action is the code between two points at which another thread can act: a block
under the condition, a backend call, a lock operation. `pc` names the next one:

| label | code | | label | code |
|---|---|---|---|---|
| `snapshot`, `observe`, `apply` | `_refresh_observed_states`, model by model | | `load` | memory admission and `state = "loading"` (2382-2389) |
| `decide` | the loop of `_activate_model` under the condition (2333-2379) | | `start` | `ensure_started` |
| `check` | `unload`'s first block (2493-2516) | | `activate`, `finish` | load call, its verification, the commit (2398-2461) |
| `probe` | `_external_activity` of the victims | | `cleanup`, `discard` | the rollback of a cancelled load (2462-2477) |
| `evict`, `deactivate` | `_deactivate_blocker`, the unload call | | `ok`, `fail` | the result; the locks are released |
| `stop`, `kill` | `_unload_service`, its look at the siblings, `backend.stop()` | | `relay`, `recover`, `closing`, `lost` | after `begin_request`: relayed, in Metal recovery, failed recovery, and registered although `begin_request` raised |

What a backend holds (`proc`, `resident`) is kept apart from what the dispatcher
believes (`state`), so that properties can compare them. `Faults` selects what may
go wrong: failed starts, load and unload calls, calls that act but whose answer is
lost, `stop()` that raises, a single failed health probe, crashes, failed state
probes, refused memory, Metal timeouts. The topology (which model on which adapter,
in which groups, with which routes and probes) is a constant.

Abstracted: memory amounts (admission refuses by choice when `"memory"` is a fault),
time (a deadline may pass whenever a thread waits), waiting on the condition (a
thread that waits is one whose step is not enabled or leaves everything as it is),
messages, metrics, and error texts.

### Configuration

The content of the file is a record (valid YAML or not, ports, the adapter and the
canonical model of each model, declared groups, idle timeout). `bytes` is the
content the configuration in force came from; the revision clients see is its hash,
so it is that content. Operations read their model (`ReadModel`), may announce
themselves, lock, load or unload in one step each. `attached[t]` tells whether the
`ModelRuntime` a thread read is still the one under its name. A reload is
`BeginReload`, `Reload` (first reading), `Parse` (second reading), `Confirm` (third
reading, all the refusals, and the take-over `Adopt`); an editor may write between
any two. A prune is reviewed at a revision (`Review`), checked (`PruneBegin`), probes
without the condition, checked again (`PruneCheck`, `PruneRecheck`), replaces the file,
reloads, and copies its backup back if that fails. `holder` is the thread that keeps
the condition over several steps. `Restart` is the death of the core and the start
of another one at any moment the file is valid: `serve` has called `load_config` (3332),
and nothing runs until `Start` has read the bytes of the file once more (985); `Init` is
the same of the first core. An editor may come between the two readings, as between
those of a reload, and write any content at any time, also one the file has had before.

Three history variables name what the code does not guard against, so that the properties
can say exactly when they hold. `undisturbed`: no edit came between the two readings of the
start, nor two of them between the readings of the reload, from which the configuration in
force came. `dropped`: the declared groups that reloads have taken out, and not put back.
`taken`: the settings in memory are those of the settings file, which a start does not
take over if one group in it is unknown (`Usable`, 1110-1114).

Abstracted: the steps of a load or an unload, capacities other than one, adapter
policies, aliases, listener addresses, and the values `load_config` and
`_validate_settings` validate; `failed` is not told apart from `unloaded` (a reload and
a prune treat them alike).

### Admission

`CheckBegin`, `CountLoaded` and `CountReserved` are one model of one of the loops of
`_check_memory` each, since the states they read change under the condition, which the
check does not hold; `memoryLock` is `_memory_lock`. A thread checks twice: without the
models it is about to unload, and again when they are; the second check keeps the lock
until the load is announced with its reservation (`Reserve`). `sum` is what the check in
progress has read and added up; `steady` (history) are the models that have been ready
with the same estimate since it began. The lifecycle around it is that of `Dispatcher`
without backends: transitions of rivals exclude each other (`EnterTransition`), a load
ends or fails, an eviction succeeds or gives back, a probe corrects a state. `victim` is the
model a thread is unloading. A probe begins for a model that is ready or unknown and may be
applied at any later time (`probed`), also when the model is being loaded or unloaded by then:
if it is gone and a request is registered, it is `unknown` from then on (1485-1488).
`overtaken` (history) are the models that such an answer has taken out of `loading`.

### Catalogs

One adapter with one model. `version` counts configurations; an entry of a cache keeps
the answer and the configuration whose command gave it. Whether an entry is too old is a
choice. A thread goes through the declared sources (`ReadAdapters`, `TakeCache`, `Probe`),
takes the snapshots, and concludes (`Verdict`). A reload clears the two caches one after
the other, each under its own lock, while it holds the condition (`toClear`).

### Recorder and Relay

`Recorder` has one entry per thread; sizes are counted in entries. A failure of the disk
ends `record` wherever it is, a crash forgets the memory and keeps the files.

`Relay` has one label per point at which a cancellation, a departure of the client or a
crash can come in between: each `read1`, each look at the event, each write, each step of
the two nested `finally` blocks. An answer is a sequence of tokens, so that the SSE buffer
of `_consume_sse_bytes` is modelled with its cuts: chunks may end anywhere, a line may be
longer than the buffer. `sent` and `client` (history) are what the upstream sent and what
the client received of it. `cancel` first sets events and reads upstreams, then closes
them one by one without the condition.

Abstracted: usage figures and rates; headers and status codes; the difference between
protocols; a non-streaming answer is read whole, its body is one token.

### ClientFiles, AgentConfig, Migration, ClientTools

A content is an endpoint, a model name, and what `validate_config` looks at; a copy in
progress, or broken off, is `Torn`, or half of a file that was itself half. Of a `Torn`
backup it is a choice whether it passes: half a YAML file often parses, and has its first
provider and models (agent_config.py:328); the helper may find lines to rewrite in one.
`spoiled` (history) are the files for which a copy of `apply_config` was broken off, or was
under way when another process restored. A tool *claims* a file from its last look at it (its
copy or its check of the hash) to the replacement; `raced` (history) are the tools whose
file somebody changed in between. Every access to the disk may fail and every process may
die (`AgentFails`, `MigrationFails`). `os.replace` is one step; `shutil.copy2` under the
fixed names of the agent tool is two, since others read them; the helper's backups have
names of their own (two helpers that choose one in the same second, migration_helper.py:180-199,
are left out).

## 3. The runs

Passing runs; every property has a mutant (a plausible bug in the code) that the
same run catches. The numbers are distinct states.

| run | instance | shows |
|---|---|---|
| `TransitionLocks` | 3 threads, 2 adapters, a group of capacity 2 and one of 1, 2 reloads; fair threads | the lock protocol is safe, free of circular waits, and implements `Leases`; somebody who waits gets in, and an acquisition with a deadline is granted or given up |
| `DispatcherPair` | 2 requests, 1 unloading operator, 2 servers of one model each in a group of capacity 1; failing starts, crashes | `Exclusive`, `ActionsSerialized`, `TransientsHaveOwner`, and the implementation of `Residency` |
| `DispatcherServer` | 1 request, 2 operators (switch, unload), 3 models on one server: two with native routes, one that is the process; failing starts and calls, refused memory | `ReadyIsServed`, `WeightsExclusive` (real weights), `UnloadsStartFromReady` |
| `DispatcherFull` | 1 request, 1 operator (unload, status), every fault, probes, recovery, a foreign server; fair threads | `LoadingHasOwner`, `ForeignServersKept`, `RequestsAnswered`, whatever fails |
| `Configuration` | 1 operation, idle worker, 2 administrators, an editor who writes twice, restarts in two readings; contents without the group that a policy names, not parsable, with another port | the properties of section 4 for reload, prune and settings, each with the exceptions it names |
| `Admission` | 2 threads, 3 models: two of the core that just reach the limit together, and an external one that is a rival of the first; probes of the second, applied at any time; one change of the settings | `AdmittedLoadsFit` |
| `Catalogs` | 2 threads that load or review, an adapter with both sources, 1 reload | `UnavailableHasEvidence` |
| `Recorder` | 5 entries, a log of 2, a memory of 2, failing disk, crashes | `LogKeepsLatest`, `AggregateAddsLogged` |
| `Relay` | 1 request, streamed or whole, 1 cancellation, a client that leaves, slow and failing upstreams, 1 Metal recovery, a crash; chunks of up to 2 tokens, a buffer of 4 cut to 2, bodies of up to 8 | what the client receives, what is recorded and what is closed agree |
| `ClientTools` | both tools on a file of an agent, the helper also on another one, which it is given twice; 1 edit, a configuration of the dispatcher with an ambiguous name, a port override; failures and deaths at every access to the disk | what the tools replace can be put back, what they write is what was planned, and half a file comes from a broken copy only |

Violation runs: the statement of a doc or comment, refuted by what the code does.

| run | says | what happens |
|---|---|---|
| `DispatcherCut` | README.md:101-103, "an active request is allowed to finish before a managed switch" | the lock-free ready path (2329) admits a request between a switch's look for busy models (2356) and its `unloading` (2266); the request loses its model |
| `RelayDisconnect` | docs/troubleshooting.md:18-19: `client_disconnect` means the client closed before the stream completed | the parser takes the finish reason of a chunk (3116) before the chunk is written (3119); a client that leaves just then is recorded with `stop`, since `client_disconnect` is only the default (3153) |

### Bounds, and why they are enough

Two rivals and two or three threads exhibit every pairwise race of the lifecycle;
three threads are needed for a lock cycle through a semaphore of capacity 2 and for
a switch against a request against an unload. Three models on one server are the
fewest with a sibling that stays while another replaces the third. `MaxReload = 2`
gives three generations of the lock table: the one a thread holds, the next, and one
more. In `Configuration` an editor writes twice (`MaxEdits = 2`), any content but the one
the file has, so that a file may change and change back; prunes and rollbacks come on
top. Two edits are enough for each exception: one between the readings of a start, two
between those of a reload, one that takes a group out of the configuration. Two
administrators interleave a prune with another prune or a reload. The three contents
differ in what makes the code decide differently: dependent models, declared groups, a
port, the idle timeout, and validity. One exception does not occur in the instance: for
`taken` to make a difference the group has to come back after a start that has refused
the settings, which takes a third edit, or `First <- Moved`: with that all properties hold
as well, in more than twice the states. `PoliciesAlwaysSurvive` covers it for every instance.

In `Admission` the first two models fill the limit exactly, so that every gigabyte
counted too little shows; the third is one the loops do not count as loaded but add as
external, and whose eviction makes the check run twice. In `Catalogs` one reload is what
separates an answer from its configuration; a second one only makes it older. In
`Recorder` five entries fill a log, rotate it, and rotate it again over the first.
Requests share nothing in `Relay` but the recorder's lock, which `Recorder` covers with
five threads, so one request against one cancellation is enough; `MaxBody = 8` is twice
the buffer, so that a frame is cut, and read again after the cut. In `ClientTools` the
file given twice is what makes the helper find a file that was replaced since its plan,
besides the owner's edit.

The instance of `Configuration` never moves a model to another adapter; section 6 says
what happens otherwise. `ClientTools` has one process of each tool. Symmetry is declared for requests,
operators, administrators, writers or threads that are interchangeable, and never in a
run with liveness. Deadlock is checked everywhere except in `DispatcherFull`, where
with `stop` failing a thread may wait for ever for a model that stays `unloading`, and
in `Recorder` and `Relay`, where every entry and request is handled once and then
nothing is left to do.

### Fairness

Liveness is checked under weak fairness of each thread's own steps: of `Proceed(t)` in
`TransitionLocks` and of `Step(t)` in `Dispatcher`. The code justifies it: every call
of a backend and every relay has a timeout, every wait on a lock or on the condition
is polled with `request_poll_seconds`, and the operating system schedules threads. New
requests, cancellations, crashes, reloads and edits are not fair. Weak fairness gives
no thread a lock that others keep taking, so `WaitersMakeProgress` promises that
*somebody* gets in, and what is promised to the individual (`HurriedDecides`,
`RequestsAnswered`) rests on the deadline. Nothing is assumed in `TransitionLocks` of the
work under the locks: one of its waits (2339-2341) has no deadline, so a thread may stay
`in` for ever, and `HurriedDecides` promises that an acquisition with a deadline is
granted or given up, not that it is ever withdrawn. `RequestsAnswered` names its
exception: a `stop()` that raised left a model `unloading` that nobody unloads (section 6).

## 4. The properties

- **Locks.** `SlotsRespected`, `OneTable`, `ActiveCounts`, `NoWaitCycle`,
  `WaitersMakeProgress`, `HurriedDecides`, `ImplementsLeases`.
- **Residency.** `Exclusive`: two models that share a process which can hold one of
  them, or a group of capacity 1, are never both `loading` or `ready`.
  `WeightsExclusive`: nor are their weights. `ReadyIsServed`: a `ready` model is in the
  memory of a live server. `ImplementsResidency`: with `Holding` (loading, ready, or
  being worked on by a thread that may leave it ready) as refinement mapping.
- **Failures.** `LoadingHasOwner`, `TransientsHaveOwner`: a transient state belongs to
  a thread that will end it. `ForeignServersKept`. `RequestsAnswered`.
- **Serialization.** `ActionsSerialized`: two threads never run lifecycle calls on models
  with a common key of one slot, although a switch does not hold all the keys of the
  models it evicts. `UnloadsStartFromReady`: what a check found is still so when the
  eviction acts on it.
- **Configuration.** `LoadedStaysConfigured`: a loaded model is configured on the
  adapter that holds it, a running process as it was started. `KeysHaveLocks`: each
  configured model can be locked, but for groups that its policy names and a reload has
  dropped. `RevisionNamesConfig`: the revision is that of the configuration in force, but
  for an edit between the two readings of a start, or two between those of a reload.
  `PruneWritesReviewed`: a prune writes the reviewed revision without the reviewed
  names, none of them in use. `WritesAreLoadable`: the core never writes a file it could
  not start from, but for the same edits. `PoliciesSurviveRestart`: a restart in the middle
  of anything keeps the policies in force, if the file is the one that was loaded and the
  settings file is one that it, and the last start, accepts.
- **Admission.** `AdmittedLoadsFit`: a load is announced only if it fits, with the
  reservations of the other loads in progress and with what has been ready since its check
  began, the limit that was checked: no other admission comes between the sum and the
  reservation. The exception is a load that a late answer of a probe has taken out of
  `loading`: its reservation is in no sum any more.
- **Catalogs.** `UnavailableHasEvidence`: nothing is refused, or offered for removal,
  without an answer of the right configuration; a review rests on a fresh one.
- **Recorder.** `LogKeepsLatest`: the rotated log and the log are the latest entries, in
  order, and no fewer than a full log. `AggregateAddsLogged`: the aggregate only grows,
  by a logged success.
- **Relay.** `ClientSeesOneAnswer`: what a client has received is a part, from the
  beginning, of what one upstream sent, never parts of two. `CancelledStopsForwarding`:
  after `cancel` has set the event, one chunk at most still goes out.
  `ActiveWhileOpen`: an upstream is only open while its request is registered, so that
  a cancellation can find it. `SuccessWasEarned`: a request recorded as a success has
  an upstream that said so, and a cancellation noticed while a stream is relayed is
  recorded as one. `OrdinaryFramesRead`: the cut of the buffer loses no frame
  that fits it.
- **Tools.** `BackupIsLastReplaced`: what `restore_config` would put back is what the last
  replacement took away, unless somebody else wrote the file in between.
  `ReplacedIsKept`: a content that a tool replaces is in a backup at that moment.
  `MigrationIsPrefix`: what the helper has replaced is a prefix of its arguments, each
  with what was planned. `RewriteSettles`: planning again on what it wrote changes
  nothing, and no name that is still used by a model is renamed away. `ToolsTypeOK` says besides the
  types that half a file is in place only if a copy of `apply_config` for it was broken off, or
  was under way during a restore.

Formulas that say what a reader might expect, and that the code does not guarantee, are
kept in the modules without being run: `CapacityRespected` and `CancelledRequestsLeave`
(`Dispatcher`), `IdleTimerRuns` (`Configuration`), `LimitRespected` (`Admission`).
Section 6 tells the behaviours against them.

## 5. The proofs

`TransitionLocksProofs` (any finite set of threads and keys, any capacities, any number
of reloads): `SlotsAlwaysRespected`, `AlwaysOneTable`, `ActiveAlwaysCounts` and
`NeverWaitCycle`. The inductive invariant `LockInv` adds `LockShape` to the properties:
a thread that acquires holds keys of its list only, all of them below those it still
lacks. For the cycles: among the blocked threads of a set, the one that waits for the
greatest key waits for a thread that holds it; that thread is not blocked on a greater
key, and by the sorted order not on a smaller one.

`DispatcherProofs` (any requests, operators, models, adapters, groups, routes):

- `AlwaysTyped`, and `UsesLeases`: the dispatcher satisfies `LeaseSpec`, which links the
  two halves of the development.
- `AlwaysExclusive`: `[]Exclusive`, assuming `ClosedTopology` (each conflict has a key of
  one slot that every model overlapping either rival has too), no state probes
  (`StateProbe = {}`) and no Metal recovery (`Recoverable = {}`). Each assumption is
  needed: section 6 has a behaviour against each. `Exclusive` is not inductive, because a thread
  decides in one step and loads in a later one. `ExclusiveInv` adds: a key of one slot
  has one lessee (`OneLessee`); a thread holds all its keys or none (`LeasesWhole`);
  which operation can be at which label (`OpShape`); nobody reports a model as loaded
  from outside (`NoReports`); a thread evicts only models that share a key with what it
  has locked (`EvictsOwn`); rivals are not both in `Holding` (`RivalsApart`); a thread about
  to load has no rival in `Holding` (`RoomKept`); and what a thread is about to evict, and
  may have to put back to `ready`, keeps its own rivals out (`VictimsApart`). The step
  that matters shows that a model enters `Holding` only by a thread that holds the
  guarding key, and that key has one lessee.
- `LoadingNeverAbandoned`: `[]LoadingHasOwner` without any assumption.
- `TransientsNeverAbandoned`: `[]TransientsHaveOwner` if `"stop" \notin Faults`.
- `ForeignServersAlwaysKept`: `ForeignServersKept` without any assumption.
- `ActionsAlwaysSerialized`: `[]ActionsSerialized` with the last two of those assumptions and
  `SerialTopology`, which asks for a key that everything overlapping has for every two
  models that share a key of one slot, a model and itself included. That leaves out a group
  of a larger capacity over several adapters (section 6). Who works on a model holds all its
  keys, and by the assumption one of them is had by whoever works on the other.

Three theorems relate what the dispatcher believes to what is in memory, all of them with
`SerialTopology` and `Orderly` (no state probes, no Metal recovery, no server that dies by
itself: the dispatcher finds that out by a later probe only):

- `UnloadsAlwaysStartFromReady`: `UnloadsStartFromReady`. `WorkShape` says that the state of a
  model is what the thread at work on it has made it, and what a thread is going to evict is
  still ready: no other thread concerns a model of that adapter (`OneCovers`).
- `ReadyAlwaysServed`: `[]ReadyIsServed`, with `Reliable` besides: `stop()` does not raise, no live
  server fails its health probe, no answer is lost. `ServedInv` adds where weights can be
  (`ServerShape`), that a server about to be stopped serves nobody else (`KillsAlone`), although
  the siblings are looked at some steps before, and that a model its thread may still
  leave ready is in memory (`UsedIsServed`).
- `WeightsAlwaysExclusive`: `[]WeightsExclusive`, with `Reliable` and `RivalsReleasable`: the unload of a
  model with rivals frees its weights, by a call or by the end of a process that nothing keeps.
  `WeightsInv` accounts for all weights in memory (`WeightsAccounted`): whoever has them is ready or
  is being loaded or unloaded, at a label at which that may be.

TLC refutes each of the three with the fault `"crash"`, the last two also with `"stop"` or
`"unconfirmed"`, and `ReadyIsServed` with `"unhealthy"`, which is why they are excluded.
Failing starts, failing load and unload calls, refused memory, cancellations and servers of
an earlier core are not.

`TransitionLocksProofs`, `LocksImplementLeases`: the lock protocol implements `Leases`. What a
thread leases is what it wants once it is in (`phase = "in"`), so the grant is the step that takes
the last lock, and the return the one in which it leaves. `GrantShape` adds to `LockInv` that
a thread that is in holds all it wants, and wants a set of keys a transition may ask for.

`DispatcherProofs`, `DispatcherImplementsResidency`, under the assumptions of `AlwaysExclusive`: a
step of a thread changes what one model holds, or to what one request is admitted, and never
both. Most steps change neither. A model begins to hold its place in the step that decides
to load it, and the guard of `Residency!Take` is what `RivalsApart` says in the next state.

`AdmissionProofs` (any threads and models in any order, any rivals, estimates, limits and changes
of the settings), none with a hypothesis:

- `AdmissionAlwaysCounted`, the inductive invariant `FitInv`. `Counted` says what the loops have added
  up so far: no less than the estimates of the models they have passed that have been ready all the
  time, and the reservations of those they have passed that are still loading; from the comparison
  to the announcement, that everything together fits the limit that was read. `CheckShape` says that
  nothing is added up while the lock is free, that what counts as ready all the time is ready, and that a second
  check has nothing left to unload, so that it leaves nothing out but the model itself.
  `LoadShape` says that a thread at work has its model and the models it may unload for itself
  (`Claim`), so that nobody else ends or unloads a load in progress: only a late answer of a
  probe takes it out of `loading`, and is in `overtaken` then.
- `AdmittedAlwaysFit`: `AdmittedLoadsFit`. Only `Reserve` takes a model to `loading`. Every other step
  makes the sums that `Counted` compares with smaller, never larger: states leave `ready`,
  reservations end or are overtaken, an estimate that is changed does not count as steady any more. That a smaller
  term everywhere makes a smaller sum (`SumsMonotone`) is the induction in it. The sums are a
  recursive function over the order of the models, as the loops are; its equation
  (`SumsByStep`) and the comparison are proved by the least place where they fail.
- `AdmissionAlwaysTyped`: from the first. `AdmissionTypeOK` says besides the types that who is between
  the first sum and the announcement holds the lock.

`ConfigurationProofs` (any models, groups, contents, threads):

- `PruneAlwaysWritesReviewed`. `PruneInv` says who keeps the condition through a prune or reload
  (`KeepsHolder`), what a review in hand is made of (`ReviewShape`), and that what was
  found removable is so from the last check to the replacement (`StillRemovable`):
  nobody else announces anything while the condition is kept.
- `RevisionAlwaysNamesConfig`. The start reads the file twice and `reload_config` three times,
  without any lock on it. `ReadingInv` says what the readings of a thread tell of each other
  (`ReadingsAgree`): as long as at most one edit came between them, equal first and third
  readings leave room for no other second one, and a start without an edit has read the same
  twice. It also says that only a start is at `start` (`StartsTogether`) and what every content
  at hand is made of (`ContentsSound`).
- `WritesAlwaysLoadable`: from both invariants. That models are finite is needed for "at least
  one stays".
- `ConfigurationAlwaysTyped`: the types, that the configuration in force is at every moment one
  `load_config` accepts, also after a rollback by a file that somebody else has written
  meanwhile, and that its models are those with an entry. `TypedInv` is the invariant.
- `LoadedAlwaysConfigured`: `[]LoadedStaysConfigured`, assuming `SteadyAdapters`: no two contents
  place a model on different adapters. The hypothesis is needed (*A model that moves*, section
  6). `LoadedInv` adds that every content the file has had, and every thread that has read its
  model, places models where some content does (`Placed`), which is then the one place a
  model has; a reload that removes it refuses if it is loaded by then.
- `KeysAlwaysHaveLocks` and `PoliciesAlwaysSurvive`, with no hypothesis: the exceptions are in the
  properties. `PolicyInv` says that policies name configured models, and groups that are declared
  or in `dropped`; `SavedInv` what the settings file has in common with the settings in memory,
  as long as the last start has taken it over.

`RecorderProofs` (any writers, any size of a log): `LogAlwaysKeepsLatest` and
`AggregateAlwaysAddsLogged`. `RecorderInv` adds to its types that one thread at a time is inside
`record` (`OneRecords`), that it adds what it has appended (`AddsLogged`), that both files
are an end of what was appended (`IsEnd`), and that a rotated log was full (`FullLog`).

`RelayProofs` (any requests and cancellations, answers of any length, chunks and buffers of any
size that hold a chunk and a `[DONE]`): `RelayAlwaysTyped`, `ClientAlwaysSeesOneAnswer`,
`CancelledAlwaysStopsForwarding`, `AlwaysActiveWhileOpen`, `SuccessAlwaysEarned`,
`OrdinaryFramesAlwaysRead`, none with a hypothesis. They share one inductive invariant, `RelayInv`:
the types, and for each handler what its label says of the attempt it is in (`AttemptShape`), of
its connection and its registration (`ActiveShape`), of the writes since the cancellation
(`LateShape`), of who wrote the finish reason (`FinishShape`, `RecordShape`), of what the client
has (`ClientShape`), and of the parser (`ParseShape`): the buffer is an end of what was sent, begins
with a line unless that line is too long for it, and the finish reason is that of the last
finished frame if that was of ordinary length. `RelayImplementsRecorder`: each
step of the chat path is a step of `Recorder` or leaves it alone, from which `RelayKeepsLatest`
and `RelayAddsLogged` follow by the theorems of `RecorderProofs`.

`ClientToolsProofs` (any files, owners, migrations, arguments, targets):

- `HalvesComeFromCopies`: `[]ToolsTypeOK`, for any number of processes of both tools. `ToolsInv` says of
  a tool at work what it has claimed and what it holds, and of half a file where it may be
  (`Halves`): in a backup while it is copied or after the copy was broken off, and in place, or in
  a plan of the helper, only for a file in `spoiled`.
- `BackupAlwaysLastReplaced` and `ReplacedAlwaysKept` assume `OneAgent`: at most one process of the
  agent tool, beside any number of migrations. The tool is called by hand and has no lock; with two
  processes TLC refutes both (section 6). `KeptInv` adds to `ToolsInv` that what a process holds is
  still in its file unless somebody interfered, and that the copy it has made is in the backup.
- `MigrationAlwaysPrefix` and `RewriteAlwaysSettles` assume nothing. The second is about one
  line for every target: a name stands for a model if one model only has it (`NamedIsOne`), and
  the name it is rewritten to is rewritten no further.

`CatalogsProofs` (any threads, versions and reloads): `CatalogsAlwaysTyped` and
`UnavailableAlwaysHasEvidence`. `CatalogsInv` says of each cache that its lock is held exactly while
its source is probed (`Locked`) and that an entry is of the present configuration or of a
probe that a reload overtook (`CacheCurrent`), and of each thread what its answers so far
are evidence of (`LookInv`).

Only model-checked: what depends on fairness (`WaitersMakeProgress`, `HurriedDecides`,
`RequestsAnswered`), since neither liveness nor `ENABLED` is in the reach of the installed
provers. Every other property of a passing run is a theorem, some under hypotheses, or with
exceptions in the property, that exclude the behaviours of section 6. The properties of the violation runs are refuted.

The constants' assumptions are named (`ThreadAssumption`, `SlotsAssumption`,
`TopologyAssumption`, `FilesAssumption`, ...), state what the parser of the configuration or of
the settings guarantees (that a configuration has finitely many models, that policies are what
`_validate_settings` accepts; `AdmissionAssumption`: that there is a model, and each name once in
their order, since they are the keys of a mapping the parser refuses when empty) or what tells the values of the model apart (no content is a torn
one), and are evaluated by the runs. Hypotheses that single out configurations or behaviours
(`ClosedTopology`, `SerialTopology`, `Orderly`, `Reliable`, `RivalsReleasable`, `SteadyAdapters`,
`OneAgent`) are definitions of the proof modules, named in the statement of each
theorem that needs them.

## 6. Disagreements without a run of their own

Seen while modelling, each by the same definitions with another instance or fault, or by
reading beside them.

Lifecycle:

- *Capacities above 1.* Two activations see the same free place and both load (2229,
  2387): three models in a group of capacity 2 (`CapacityRespected`);
  docs/release-notes.md:94 calls the capacity explicit. An unload of a model and a switch
  that evicts it, each with a slot of the group, may both run its calls (`ActionsSerialized`).
- *A cancelled request that stays.* `begin_request` raises at 2584 with the request still
  registered; nothing removes it, and its model counts as busy for ever
  (`CancelledRequestsLeave`); docs/troubleshooting.md:9 says to wait for zero active requests.
- *Bridged groups.* With `m1` in `g1`, `m2` in `g1` and `g2`, `m3` in `g2`, switches to `m1`
  and to `m3` share no lock and may evict `m2` at the same time, or one may load a rival
  of what the other puts back (2362-2363). `ClosedTopology` excludes it.
- *Unknown models.* A state probe that fails takes a model to `unknown`, which occupies
  no place of its group (2226), so a rival is loaded beside it;
  docs/compatibility-matrix.md:25-27 says "Unknown state blocks eviction and model
  replacement until a probe confirms it." A later probe makes it `ready` again.
- *stop() raises.* Nobody ends `unloading` (2279), and a later activation waits in a loop
  that does not look at its deadline (2339); docs/implementation-design.md:147. In
  `shutdown` (2640) it also leaves the backends after it running, and the condition is
  held meanwhile.
- *A failed activation leaves weights.* `failed` (2424) blocks nobody, but the server
  and possibly the weights are still there; docs/implementation-design.md:206.
- *One failed health probe.* `ensure_started` (808) then stops a live server that active
  requests of sibling models use; README.md:102-103.
- *Metal recovery.* It sets states and restarts the server without any lock (2819), so it
  may meet a switch that evicts the same model; docs/release-notes.md:71.

Admission (`LimitRespected`, and the exception of `AdmittedLoadsFit`):

- A load that completes between the two passes of `_check_memory` is counted by neither:
  not yet `ready` in the first, no longer `loading` in the second.
- Models in `unloading` or `unknown` are not counted, and may return to `ready`.
- A load admitted while there was no limit reserves nothing, though a limit may be set
  before it ends.
- *A load a probe overtakes.* A probe begins while a model is `ready` or `unknown`; by the time its
  answer says that the model is gone, the model has been unloaded and is being loaded for a
  request that is registered. Then 1485-1488 make it `unknown`, whatever it is: its reservation
  is not in 2193-2197 any more while the load goes on, and another load is admitted to the same
  gigabytes. Without the exception `overtaken` TLC refutes `AdmittedLoadsFit`.

Configuration and catalogs:

- *The idle timer.* A reload that removes a model that is due makes the handler's
  `self._models[...]` (1200), or the lock lookup (1409), raise KeyError; the thread ends and
  is never started again because `_idle_thread` is set (`IdleTimerRuns`);
  docs/configuration.md:149-150, a reload "starts the idle timer if the reload enables one".
- *A model that moves.* An operation has read its model (2291, 2555) and not announced
  itself (1407) when a reload moves the model to another adapter; it is loaded on the
  former one and marked ready; the docstring of `reload_config` (1210-1211) says an edit
  can never orphan live state.
- *A group disappears.* If a reload drops a declared group that a policy in the settings
  names, no lock exists for it (1249, 1409): each transition of those models raises
  KeyError, and the next start ignores the whole settings file, with a warning. These are the
  exceptions `dropped` of `KeysHaveLocks`, and `Usable` and `taken` of `PoliciesSurviveRestart`.
- *An edit during the start.* `serve` parses the file (3332), `__init__` reads its bytes (985), and
  nothing compares the two: an edit in between puts one content in force under the revision of
  another. A prune then checks what depends on what against the first (1326-1338), and strikes
  the names out of the second (1342-1363), which may leave a file `load_config` rejects; a crash
  before its reload and rollback (1364-1368) leaves it there.
- *An edit that is undone.* If the file goes from one content to another and back between
  the readings of a reload (1218-1220), the other is put in force under the revision of the
  first, with the same consequences. Both are the exception `undisturbed` of
  `RevisionNamesConfig`, `WritesAreLoadable` and `PoliciesSurviveRestart`; without it TLC
  refutes each of them.
- *Lost edits.* Between the last comparison of a prune and `os.replace` (1361-1363), and
  before its rollback by `copy2` (1368), an edit by somebody else is overwritten.
- *A late answer.* A catalog refresh under way during a reload stores the answer of the
  former command after the caches were cleared (the exception `UnavailableHasEvidence`
  names), and a prune may act on it; docs/configuration.md:121. The age of an entry is
  computed from a time read before the lock (1528), so that waiting for the lock makes
  entries live longer than the ten seconds of docs/configuration.md:104.

Relay and tools:

- A connection that the *upstream* resets while it is streamed is recorded as
  `client_disconnect`; an `upstream_timeout` is overwritten when the last frame, read at the
  end, says `stop`; and a read on an upstream closed by `cancel` may raise something that is
  recorded without `request_cancelled`. A whole answer that was cancelled (3086) has no finish
  reason, and what `http.client` raises on an answer it cannot read is caught by nobody
  (3314-3328): the client gets no answer.
- A second `apply_config`, or one that fails after its copy, overwrites the only copy of
  the original. Applied over a file `validate_config` rejects, it leaves a backup
  `restore_config` refuses.
- *Half a backup that parses.* A process of the agent tool that breaks off its copy (agent_config.py:303)
  leaves half of the file under the backup's name. If that is YAML that still parses and has its
  first provider and models, `restore_config` accepts it (328) and puts it in place. The same happens
  with two processes, when one restores while the other is at its copy: the backup is read again
  after it was validated (336). It is the exception `spoiled` of `ToolsTypeOK`. Line 321 says "Atomically
  restore the reviewed sibling backup".
- Two processes of the agent tool on one file (`Tool = Agent = {a, b}` and no migration in
  `ClientTools.cfg` refutes `BackupIsLastReplaced` and `ReplacedIsKept` in four steps): both copy to
  the one backup name (301-303).
- Two helpers that choose the name of a backup in the same second may choose the same one
  (migration_helper.py:180-199): the second copy overwrites the first.
- An edit between the helper's check of the hash, or the tool's copy, and `os.replace` is
  lost. A migration that is refused at one file says nothing of those it has replaced.
- `import_instance` of the plugin registry raises KeyError for a candidate that is
  "reachable_unverified"; `_git` of the update monitor does not catch the timeout it sets
  (docs/plugin-authoring.md).

## 7. Not modelled, and why

- The legacy path of `begin_request` without metadata, disabled models, adapters of type
  `fake`: separate branches without an influence on the races above.
- Durations, sizes, rates, usage figures, headers, error texts: data. Memory amounts are
  modelled in `Admission`; in `Dispatcher` whether admission refuses is a choice.
- `snapshot` of the recorder and the statistics in the aggregate: arithmetic on floats over
  what `Recorder` shows to be complete.
- `preview_config` and the validation of reasoning efforts and limits (`agent_config.py`),
  symbolic links and the reviews the helper only reports (`migration_helper.py`): pure
  functions of one file, or a refusal before anything is written.
- `shutil.copy2` in a prune and every `os.replace` are one step: a reader that sees half a
  copy of the configuration sees an invalid content, which an editor can produce as well.
- `shutdown`: the process ends with it; what is left running is started again as a foreign
  server, which `Dispatcher` has.
- `load_config`, plugin registry and compiler, update monitor, packaging, fake backend:
  sequential code without shared state, better served by their unit tests.
- The menu application: a client of the HTTP interface; only its start of the core
  (`ensureCore`) has a race, with a core that holds the port, and it is in another language.

## 8. What is left

In this order:

1. Proofs: that `Configuration` uses its locks as `Leases` says; which bound on the sum of all that is
   loading or ready (`LimitRespected`) holds when nothing changes between the two passes.
2. `ProcessBackend` in detail (774-920): start against crash against stop, the port, and
   `shutdown` with a `stop()` that raises.
3. The start of the core by the menu application (`ensureCore`).
4. Small pure algorithms against reference definitions: `_capacity_blockers`' choice of
   victims, `compare_relation` of the update monitor, `merge_base_config` of the compiler.

New modules share runs where their questions belong together, so that the set of runs
stays one per question.
