------------------------------ MODULE Catalogs ------------------------------
(***************************************************************************)
(* The evidence that a model is installed (scripts/model_dispatch.py,      *)
(* 1493-1682): two caches of probe results, each refreshed under a lock of *)
(* its own by whoever asks, and the verdict a thread reaches on them.      *)
(*                                                                         *)
(* One adapter, declaring every source of Sources, and one of its models.  *)
(* The configuration is a number, which every reload increases: each has   *)
(* its own catalog command and models_path.                                *)
(***************************************************************************)
EXTENDS Integers, Sequences, FiniteSets

CONSTANTS
  Thread,      \* threads that need to know whether the model is installed
  Sources,     \* the sources the adapter declares, in the order they are asked
  Asset,       \* what the look at asset_paths may yield, "none" for no paths
  MaxVersion,  \* bound: reloads
  None

ASSUME CatalogsAssumption ==
  /\ Sources \in {<<"catalog_args", "models_path">>, <<"catalog_args">>, <<"models_path">>, <<>>}
  /\ Asset \subseteq {"none", "present", "missing", "unknown"}
  /\ MaxVersion \in Nat \ {0} /\ None \notin Thread

Source == {Sources[i] : i \in 1 .. Len(Sources)}

(* What a probe yields: the model is listed or not, or the probe failed. *)
Answer == {"present", "missing", "unknown"}

(* An entry of a cache: the answer, the configuration whose command gave it,
   and (history) what that command said, and whether another configuration was
   in force when it was stored.  Its age is not kept: LOCAL_CATALOG_TTL_SECONDS may have passed or not. *)
Entry == [answer : Answer, heard : Answer, version : 1 .. MaxVersion, late : BOOLEAN]

VARIABLES
  version,     \* self.config
  toClear,     \* the caches a reload has still to clear; it holds the condition
  cache,       \* _catalog_cache, _models_path_cache: the entry of the adapter
  cacheLock,   \* _catalog_lock, _models_path_lock: the thread that holds it
  look         \* what is local to each thread, see NoLook

catalogVars == <<version, toClear, cache, cacheLock, look>>

NoLook == [at |-> "idle", source |-> 1, seen |-> 1, force |-> FALSE, began |-> 1,
           evidence |-> [s \in Source |-> None], asset |-> "none", renewed |-> {}]

Places == {"idle", "adapters", "lock", "probe", "snapshot", "verdict", "unavailable"}

CatalogsTypeOK ==
  /\ version \in 1 .. MaxVersion
  /\ toClear \in SUBSET Source
  /\ cache \in [Source -> Entry \cup {None}]
  /\ cacheLock \in [Source -> Thread \cup {None}]
  /\ look \in [Thread -> [at : Places, source : 1 .. Len(Sources) + 1, seen : 1 .. MaxVersion,
                          force : BOOLEAN, began : 1 .. MaxVersion,
                          evidence : [Source -> Entry \cup {None}], asset : Asset \cup {"none"},
                          renewed : SUBSET Source]]
  /\ \A s \in Source, t \in Thread :
       cacheLock[s] = t <=> look[t].at = "probe" /\ Sources[look[t].source] = s

CatalogsInit ==
  /\ version = 1
  /\ toClear = {}
  /\ cache = [s \in Source |-> None]
  /\ cacheLock = [s \in Source |-> None]
  /\ look = [t \in Thread |-> NoLook]

At(t, place) == look[t].at = place
Place(t, place) == look' = [look EXCEPT ![t].at = place]

-----------------------------------------------------------------------------
(* Evidence about the model: with force for a review (reconcile_models,
   prune_unavailable_models), with cached answers for a load.  The model is of
   the configuration read here. *)
LookUp(t, force) ==
  /\ At(t, "idle")
  /\ look' = [look EXCEPT ![t] = [NoLook EXCEPT !.at = IF Sources = <<>> THEN "verdict" ELSE "adapters",
                                                !.force = force, !.began = version]]
  /\ UNCHANGED <<version, toClear, cache, cacheLock>>

(* _refresh_local_catalogs, _refresh_models_paths: the adapters are read under
   the condition, before the lock of the cache. *)
ReadAdapters(t) ==
  /\ At(t, "adapters") /\ toClear = {}
  /\ look' = [look EXCEPT ![t].seen = version, ![t].at = "lock"]
  /\ UNCHANGED <<version, toClear, cache, cacheLock>>

(* The next source is refreshed; after the last one the snapshots are taken,
   in the same order. *)
NextSource(l) ==
  IF l.source < Len(Sources)
  THEN [l EXCEPT !.source = @ + 1, !.at = IF @ = "snapshot" THEN "snapshot" ELSE "adapters"]
  ELSE [l EXCEPT !.source = 1, !.at = IF @ = "snapshot" THEN "verdict" ELSE "snapshot"]

(* The entry a probe leaves: what the command of the adapters read earlier
   answered, or "unknown" when it failed. *)
Probed(t, answer) ==
  [answer |-> answer, heard |-> answer, version |-> look[t].seen, late |-> look[t].seen # version]

(* An entry that is young enough spares the probe, unless a review forces it. *)
UsesEntry(t, s) == cache[s] # None /\ ~look[t].force

(* The lock is taken, and kept for the probe. *)
TakeCache(t) ==
  LET s == Sources[look[t].source] IN
  /\ At(t, "lock") /\ cacheLock[s] = None
  /\ \/ /\ UsesEntry(t, s)
        /\ look' = [look EXCEPT ![t] = NextSource(@)]
        /\ UNCHANGED cacheLock
     \/ Place(t, "probe") /\ cacheLock' = [cacheLock EXCEPT ![s] = t]
  /\ UNCHANGED <<version, toClear, cache>>

(* History: the sources probed since a review began. *)
Renew(s, l) == IF l.force THEN [l EXCEPT !.renewed = @ \cup {s}] ELSE l

(* The command ends or times out, or the service answers or cannot be reached;
   the result is stored whatever it is. *)
Probe(t) ==
  LET s == Sources[look[t].source] IN
  /\ At(t, "probe")
  /\ \E answer \in Answer : cache' = [cache EXCEPT ![s] = Probed(t, answer)]
  /\ cacheLock' = [cacheLock EXCEPT ![s] = None]
  /\ look' = [u \in Thread |-> Renew(s, IF u = t THEN NextSource(look[u]) ELSE look[u])]
  /\ UNCHANGED <<version, toClear>>

(* _catalog_snapshot, _models_path_snapshot. *)
TakeSnapshot(t) ==
  LET s == Sources[look[t].source] IN
  /\ At(t, "snapshot") /\ cacheLock[s] = None
  /\ look' = [look EXCEPT ![t] = [NextSource(@) EXCEPT !.evidence[s] = cache[s]]]
  /\ UNCHANGED <<version, toClear, cache, cacheLock>>

(* _model_availability is False: files of the model are missing, or a source
   answered without it and none answered with it. *)
IsMissing(l) ==
  LET answers == {l.evidence[s].answer : s \in {x \in Source : l.evidence[x] # None}} IN
  \/ l.asset = "missing"
  \/ l.asset # "unknown" /\ "missing" \in answers /\ "present" \notin answers

(* The verdict.  None and True let the load go on; False refuses it, unless
   the model is ready after all, and lets a review offer the model for removal. *)
Verdict(t) ==
  /\ At(t, "verdict")
  /\ \E asset \in Asset :
       LET l == [look[t] EXCEPT !.asset = asset, !.at = "unavailable"] IN
       look' = [look EXCEPT ![t] = IF IsMissing(l) THEN l ELSE NoLook]
  /\ UNCHANGED <<version, toClear, cache, cacheLock>>

(* The refused load or the review has ended. *)
Answered(t) ==
  /\ At(t, "unavailable")
  /\ look' = [look EXCEPT ![t] = NoLook]
  /\ UNCHANGED <<version, toClear, cache, cacheLock>>

-----------------------------------------------------------------------------
(* Mutant of Reload: the cached answers survive the new configuration. *)
ReloadKeepsCaches ==
  /\ toClear = {} /\ version < MaxVersion
  /\ version' = version + 1
  /\ UNCHANGED <<toClear, cache, cacheLock, look>>

(* reload_config holds the condition: the configuration is replaced, then each
   cache is cleared under its own lock. *)
Reload ==
  /\ toClear = {} /\ version < MaxVersion
  /\ version' = version + 1
  /\ toClear' = Source
  /\ UNCHANGED <<cache, cacheLock, look>>

Clear(s) ==
  /\ s \in toClear /\ cacheLock[s] = None
  /\ s = Sources[1] \/ Sources[1] \notin toClear
  /\ cache' = [cache EXCEPT ![s] = None]
  /\ toClear' = toClear \ {s}
  /\ UNCHANGED <<version, cacheLock, look>>

LookStep(t) ==
  \/ \E force \in BOOLEAN : LookUp(t, force)
  \/ ReadAdapters(t) \/ TakeCache(t) \/ Probe(t) \/ TakeSnapshot(t) \/ Verdict(t) \/ Answered(t)

Next ==
  \/ \E t \in Thread : LookStep(t)
  \/ Reload
  \/ \E s \in Source : Clear(s)

CatalogsSpec == CatalogsInit /\ [][Next]_catalogVars

-----------------------------------------------------------------------------
(* A model is refused, or offered for removal, on evidence only: its files
   are missing, or a source answered without it.  That answer was given under
   the configuration the thread started from or a later one, or by a probe that
   was already on its way when reload_config cleared the caches; a review rests
   on an answer to a probe that ended after the review began. *)
UnavailableHasEvidence ==
  \A t \in Thread : At(t, "unavailable") =>
    \/ look[t].asset = "missing"
    \/ \E s \in Source :
         LET e == look[t].evidence[s] IN
         /\ e # None /\ e.heard = "missing"
         /\ e.version >= look[t].began \/ e.late
         /\ look[t].force => s \in look[t].renewed
=============================================================================
