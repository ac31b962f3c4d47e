--------------------------- MODULE CatalogsProofs ---------------------------
(***************************************************************************)
(* Theorems about Catalogs, for any number of threads and reloads and any  *)
(* sources an adapter may declare.                                         *)
(***************************************************************************)
EXTENDS Catalogs, TLAPS

(* An entry is of the configuration in force, or of the one before and about
   to be cleared, or its probe was on its way when the caches were cleared. *)
CacheCurrent ==
  \A s \in Source : LET e == cache[s] IN e # None =>
    /\ e.heard = e.answer
    /\ e.late \/ e.version = version \/ (s \in toClear /\ e.version = version - 1)

(* The records of look. *)
Look == [at : Places, source : 1 .. Len(Sources) + 1, seen : 1 .. MaxVersion,
         force : BOOLEAN, began : 1 .. MaxVersion,
         evidence : [Source -> Entry \cup {None}], asset : Asset \cup {"none"},
         renewed : SUBSET Source]

(* A thread that goes through the sources is at one of them. *)
AtSource(l) == l.at \in {"adapters", "lock", "probe", "snapshot"} => l.source \in 1 .. Len(Sources)

(* A thread that has begun to refresh under the configuration in force has
   found no reload in progress. *)
Settled(l) ==
  /\ l.began <= version
  /\ l.at \in {"lock", "probe", "snapshot"} \/ (l.at = "adapters" /\ l.source # 1)
       => toClear = {} \/ l.began < version

(* What a thread has taken from the caches is recent enough for it. *)
EvidenceRecent(l) ==
  \A s \in Source : l.evidence[s] # None =>
    /\ l.evidence[s].heard = l.evidence[s].answer
    /\ l.evidence[s].late \/ l.evidence[s].version >= l.began

(* A review has had every source asked that it has gone through. *)
ReviewAsks(l) ==
  l.force => \A i \in 1 .. Len(Sources) :
    (l.at \in {"snapshot", "verdict", "unavailable"}
      \/ (l.at \in {"adapters", "lock", "probe"} /\ i < l.source)) => Sources[i] \in l.renewed

(* A refused model is one that the evidence lacks. *)
RefusedIsMissing(l) == l.at = "unavailable" => IsMissing(l)

LookInv(l) ==
  l \in Look /\ AtSource(l) /\ Settled(l) /\ EvidenceRecent(l) /\ ReviewAsks(l) /\ RefusedIsMissing(l)

CacheType ==
  /\ version \in 1 .. MaxVersion
  /\ toClear \in SUBSET Source
  /\ cache \in [Source -> Entry \cup {None}]
  /\ cacheLock \in [Source -> Thread \cup {None}]
  /\ look \in [Thread -> Look]

(* The lock of a cache belongs to the thread that probes for it. *)
Locked ==
  \A s \in Source, t \in Thread :
    cacheLock[s] = t <=> look[t].at = "probe" /\ Sources[look[t].source] = s

CatalogsInv == CacheType /\ Locked /\ CacheCurrent /\ \A t \in Thread : LookInv(look[t])

-----------------------------------------------------------------------------
(* What the assumption says about the declared sources: at most two, all different. *)
LEMMA SourcesFacts ==
  /\ Len(Sources) \in Nat /\ MaxVersion \in Nat \ {0}
  /\ \A i \in 1 .. Len(Sources) : Sources[i] \in Source
  /\ \A i, j \in 1 .. Len(Sources) : Sources[i] = Sources[j] => i = j
  /\ \A s \in Source : \E i \in 1 .. Len(Sources) : s = Sources[i]
  /\ Sources = <<>> <=> Len(Sources) = 0
<1>1. CASE Sources = <<>>
  BY <1>1, CatalogsAssumption DEF Source
<1>2. CASE \E a \in {"catalog_args", "models_path"} : Sources = <<a>>
  <2> PICK a \in {"catalog_args", "models_path"} : Sources = <<a>>
    BY <1>2
  <2>1. Len(Sources) = 1 /\ Sources[1] = a
    OBVIOUS
  <2> QED BY <2>1, CatalogsAssumption DEF Source
<1>3. CASE Sources = <<"catalog_args", "models_path">>
  <2>1. Len(Sources) = 2 /\ Sources[1] = "catalog_args" /\ Sources[2] = "models_path"
    BY <1>3
  <2> QED BY <2>1, CatalogsAssumption DEF Source
<1> QED BY <1>1, <1>2, <1>3, CatalogsAssumption

(* The next source changes the place and the source only. *)
LEMMA NextSourceFields ==
  ASSUME NEW l \in Look, l.source \in 1 .. Len(Sources),
         l.at \in {"adapters", "lock", "probe", "snapshot"}
  PROVE  LET n == NextSource(l) IN
         /\ n \in Look
         /\ n.seen = l.seen /\ n.force = l.force /\ n.began = l.began /\ n.evidence = l.evidence
         /\ n.asset = l.asset /\ n.renewed = l.renewed
         /\ l.source < Len(Sources) =>
              /\ n.source = l.source + 1
              /\ n.at = IF l.at = "snapshot" THEN "snapshot" ELSE "adapters"
         /\ ~(l.source < Len(Sources)) =>
              /\ n.source = 1
              /\ n.at = IF l.at = "snapshot" THEN "verdict" ELSE "snapshot"
<1>1. CASE l.source < Len(Sources)
  <2> DEFINE place == IF l.at = "snapshot" THEN "snapshot" ELSE "adapters"
  <2>1. NextSource(l) = [l EXCEPT !.source = l.source + 1, !.at = place]
    BY <1>1 DEF NextSource, Look
  <2>2. l.source + 1 \in 1 .. Len(Sources) + 1 /\ place \in Places
    BY <1>1, SourcesFacts DEF Places
  <2> QED BY <1>1, <2>1, <2>2 DEF Look
<1>2. CASE ~(l.source < Len(Sources))
  <2> DEFINE place == IF l.at = "snapshot" THEN "verdict" ELSE "snapshot"
  <2>1. NextSource(l) = [l EXCEPT !.source = 1, !.at = place]
    BY <1>2 DEF NextSource, Look
  <2>2. 1 \in 1 .. Len(Sources) + 1 /\ place \in Places
    BY SourcesFacts DEF Places
  <2> QED BY <1>2, <2>1, <2>2 DEF Look
<1> QED BY <1>1, <1>2

(* The first configuration, with empty caches. *)
LEMMA CatalogsInitially == CatalogsInit => CatalogsInv
<1> SUFFICES ASSUME CatalogsInit PROVE CatalogsInv
  OBVIOUS
<1>1. NoLook \in Look /\ NoLook.at = "idle" /\ NoLook.force = FALSE /\ NoLook.began = 1
      /\ \A s \in Source : NoLook.evidence[s] = None
  BY SourcesFacts DEF NoLook, Look, Places
<1>2. \A t \in Thread : look[t] = NoLook
  BY DEF CatalogsInit
<1>3. CacheType /\ Locked
  BY <1>1, <1>2, SourcesFacts, CatalogsAssumption DEF CatalogsInit, CacheType, Locked
<1>4. CacheCurrent
  BY DEF CatalogsInit, CacheCurrent
<1>5. LookInv(NoLook)
  BY <1>1, SourcesFacts
     DEF CatalogsInit, LookInv, AtSource, Settled, EvidenceRecent, ReviewAsks, RefusedIsMissing
<1> QED BY <1>2, <1>3, <1>4, <1>5 DEF CatalogsInv

(* A step of one thread that leaves configuration and caches alone: only what
   it does to its own record matters. *)
LEMMA OneLooks ==
  ASSUME CatalogsInv, NEW t \in Thread, NEW l, LookInv(l), look' = [look EXCEPT ![t] = l],
         look[t].at # "probe", l.at # "probe",
         UNCHANGED <<version, toClear, cache, cacheLock>>
  PROVE  CatalogsInv'
<1>1. l \in Look
  BY DEF LookInv
<1>2. \A u \in Thread : look'[u] = IF u = t THEN l ELSE look[u]
  BY <1>1 DEF CatalogsInv, CacheType
<1>3. CacheType' /\ CacheCurrent'
  BY <1>1 DEF CatalogsInv, CacheType, CacheCurrent
<1>4. Locked'
  BY <1>2 DEF CatalogsInv, Locked
<1>5. \A u \in Thread : LookInv(look[u])'
  <2> TAKE u \in Thread
  <2>1. LookInv(look'[u])
    BY <1>2 DEF CatalogsInv
  <2> QED BY <2>1 DEF LookInv, AtSource, Settled, EvidenceRecent, ReviewAsks, RefusedIsMissing, IsMissing
<1> QED BY <1>3, <1>4, <1>5 DEF CatalogsInv

(* A look-up begins without evidence. *)
LEMMA LookUpKeeps ==
  ASSUME CatalogsInv, NEW t \in Thread, NEW force \in BOOLEAN, LookUp(t, force)
  PROVE  CatalogsInv'
<1> DEFINE place == IF Sources = <<>> THEN "verdict" ELSE "adapters"
           l == [NoLook EXCEPT !.at = place, !.force = force, !.began = version]
<1>1. l \in Look /\ l.at = place /\ l.force = force /\ l.began = version /\ l.source = 1
      /\ \A s \in Source : l.evidence[s] = None
  <2>1. NoLook \in Look /\ NoLook.source = 1 /\ \A s \in Source : NoLook.evidence[s] = None
    BY SourcesFacts DEF NoLook, Look, Places
  <2>2. place \in Places /\ version \in 1 .. MaxVersion
    BY DEF Places, CatalogsInv, CacheType
  <2> HIDE DEF place
  <2> QED BY <2>1, <2>2 DEF Look
<1>2. LookInv(l)
  <2>0. version \in Nat
    BY SourcesFacts DEF CatalogsInv, CacheType
  <2> HIDE DEF l
  <2>1. AtSource(l) /\ Settled(l) /\ EvidenceRecent(l) /\ ReviewAsks(l) /\ RefusedIsMissing(l)
    BY <1>1, <2>0, SourcesFacts DEF AtSource, Settled, EvidenceRecent, ReviewAsks, RefusedIsMissing
  <2> QED BY <1>1, <2>1 DEF LookInv
<1>3. look' = [look EXCEPT ![t] = l] /\ look[t].at = "idle"
  BY DEF LookUp, At
<1> HIDE DEF l
<1> QED BY <1>1, <1>2, <1>3, OneLooks DEF LookUp

(* The adapters are read when no reload is in progress. *)
LEMMA ReadAdaptersKeeps ==
  ASSUME CatalogsInv, NEW t \in Thread, ReadAdapters(t)
  PROVE  CatalogsInv'
<1> DEFINE l == [look[t] EXCEPT !.seen = version, !.at = "lock"]
<1>0. LookInv(look[t]) /\ look[t].at = "adapters" /\ toClear = {} /\ look \in [Thread -> Look]
  BY DEF CatalogsInv, CacheType, ReadAdapters, At
<1>1. /\ l \in Look /\ l.at = "lock" /\ l.source = look[t].source /\ l.force = look[t].force
      /\ l.began = look[t].began /\ l.evidence = look[t].evidence /\ l.renewed = look[t].renewed
  BY <1>0 DEF Look, Places, CatalogsInv, CacheType
<1>2. look' = [look EXCEPT ![t] = l]
  BY <1>0 DEF ReadAdapters
<1> HIDE DEF l
<1>3. AtSource(l) /\ Settled(l) /\ EvidenceRecent(l) /\ ReviewAsks(l) /\ RefusedIsMissing(l)
  BY <1>0, <1>1 DEF LookInv, AtSource, Settled, EvidenceRecent, ReviewAsks, RefusedIsMissing
<1>4. LookInv(l)
  BY <1>1, <1>3 DEF LookInv
<1> QED BY <1>0, <1>1, <1>2, <1>4, OneLooks DEF ReadAdapters

(* The next source, for a thread that has done with the current one. *)
LEMMA NextSourceKeeps ==
  ASSUME NEW l, LookInv(l), l.at \in {"lock", "probe", "snapshot"}, toClear \in SUBSET Source,
         l.force /\ l.at # "snapshot" => Sources[l.source] \in l.renewed
  PROVE  LookInv(NextSource(l)) /\ NextSource(l).at # "probe"
<1> DEFINE n == NextSource(l)
<1>0. l \in Look /\ l.source \in 1 .. Len(Sources)
  BY DEF LookInv, AtSource
<1>1. /\ n \in Look
      /\ n.seen = l.seen /\ n.force = l.force /\ n.began = l.began /\ n.evidence = l.evidence
      /\ n.asset = l.asset /\ n.renewed = l.renewed
      /\ l.source < Len(Sources) =>
           /\ n.source = l.source + 1
           /\ n.at = IF l.at = "snapshot" THEN "snapshot" ELSE "adapters"
      /\ ~(l.source < Len(Sources)) =>
           /\ n.source = 1
           /\ n.at = IF l.at = "snapshot" THEN "verdict" ELSE "snapshot"
  BY <1>0, NextSourceFields
<1> HIDE DEF n
<1>2. AtSource(n) /\ Settled(n) /\ EvidenceRecent(n) /\ RefusedIsMissing(n)
  BY <1>0, <1>1, SourcesFacts DEF LookInv, AtSource, Settled, EvidenceRecent, RefusedIsMissing
<1>3. ReviewAsks(n)
  <2>1. CASE l.at = "snapshot"
    BY <1>0, <1>1, <2>1, SourcesFacts DEF LookInv, ReviewAsks
  <2>2. CASE l.at # "snapshot"
    <3> SUFFICES ASSUME l.force, NEW i \in 1 .. Len(Sources),
                        n.at = "snapshot" \/ i < n.source
                 PROVE  Sources[i] \in l.renewed
      BY <1>1, <2>2 DEF ReviewAsks
    <3>1. i <= l.source
      BY <1>0, <1>1, <2>2, SourcesFacts
    <3> QED BY <1>0, <2>2, <3>1, SourcesFacts DEF LookInv, ReviewAsks
  <2> QED BY <2>1, <2>2
<1>4. n.at # "probe"
  BY <1>1
<1> QED BY <1>1, <1>2, <1>3, <1>4 DEF LookInv, n

(* A young entry is used, or the lock is taken for a probe. *)
LEMMA TakeCacheKeeps ==
  ASSUME CatalogsInv, NEW t \in Thread, TakeCache(t)
  PROVE  CatalogsInv'
<1> DEFINE s == Sources[look[t].source]
<1>0. /\ LookInv(look[t]) /\ look[t].at = "lock" /\ look \in [Thread -> Look]
      /\ toClear \in SUBSET Source /\ look[t].source \in 1 .. Len(Sources) /\ s \in Source
      /\ cacheLock[s] = None
  BY SourcesFacts DEF CatalogsInv, CacheType, TakeCache, At, LookInv, AtSource
<1>1. CASE UsesEntry(t, s) /\ look' = [look EXCEPT ![t] = NextSource(@)] /\ UNCHANGED cacheLock
  <2>1. LookInv(NextSource(look[t])) /\ NextSource(look[t]).at # "probe"
    BY <1>0, <1>1, NextSourceKeeps DEF UsesEntry
  <2>2. look' = [look EXCEPT ![t] = NextSource(look[t])]
    BY <1>0, <1>1
  <2> QED BY <1>0, <1>1, <2>1, <2>2, OneLooks DEF TakeCache
<1>2. CASE Place(t, "probe") /\ cacheLock' = [cacheLock EXCEPT ![s] = t]
  <2> DEFINE l == [look[t] EXCEPT !.at = "probe"]
  <2>1. /\ l \in Look /\ l.at = "probe" /\ l.source = look[t].source /\ l.force = look[t].force
        /\ l.began = look[t].began /\ l.evidence = look[t].evidence /\ l.renewed = look[t].renewed
    BY <1>0 DEF Look, Places
  <2>2. \A u \in Thread : look'[u] = IF u = t THEN l ELSE look[u]
    BY <1>0, <1>2 DEF Place
  <2> HIDE DEF l
  <2>3. CacheType' /\ CacheCurrent'
    <3>1. look' \in [Thread -> Look]
      BY <1>0, <1>2, <2>1 DEF Place, l
    <3>2. cacheLock' \in [Source -> Thread \cup {None}]
      BY <1>2 DEF CatalogsInv, CacheType
    <3> QED BY <3>1, <3>2 DEF TakeCache, CatalogsInv, CacheType, CacheCurrent
  <2>4. Locked'
    <3> SUFFICES ASSUME NEW x \in Source, NEW u \in Thread
                 PROVE  cacheLock'[x] = u <=> look'[u].at = "probe" /\ Sources[look'[u].source] = x
      BY DEF Locked
    <3>1. cacheLock'[x] = IF x = s THEN t ELSE cacheLock[x]
      BY <1>2 DEF CatalogsInv, CacheType
    <3>2. cacheLock[x] = u <=> look[u].at = "probe" /\ Sources[look[u].source] = x
      BY DEF CatalogsInv, Locked
    <3>3. cacheLock[s] # u
      BY <1>0, CatalogsAssumption
    <3>4. cacheLock[s] = u <=> look[u].at = "probe" /\ Sources[look[u].source] = s
      BY <1>0 DEF CatalogsInv, Locked
    <3> QED BY <1>0, <2>1, <2>2, <3>1, <3>2, <3>3, <3>4
  <2>5. LookInv(l)
    <3>1. AtSource(l) /\ Settled(l) /\ EvidenceRecent(l) /\ ReviewAsks(l) /\ RefusedIsMissing(l)
      BY <1>0, <2>1 DEF LookInv, AtSource, Settled, EvidenceRecent, ReviewAsks, RefusedIsMissing
    <3> QED BY <2>1, <3>1 DEF LookInv
  <2>6. \A u \in Thread : LookInv(look[u])'
    <3> TAKE u \in Thread
    <3>1. LookInv(look'[u])
      BY <2>2, <2>5 DEF CatalogsInv
    <3> QED BY <3>1 DEF TakeCache, LookInv, AtSource, Settled, EvidenceRecent, ReviewAsks, RefusedIsMissing, IsMissing
  <2> QED BY <2>3, <2>4, <2>6 DEF CatalogsInv
<1> QED BY <1>1, <1>2 DEF TakeCache

(* What a thread that reviews remembers, when a source was probed. *)
LEMMA RenewKeeps ==
  ASSUME NEW l \in Look, NEW s \in Source
  PROVE  LET r == Renew(s, l) IN
         /\ r \in Look /\ (LookInv(l) => LookInv(r))
         /\ r.at = l.at /\ r.source = l.source /\ r.force = l.force
         /\ l.force => r.renewed = l.renewed \cup {s}
<1> DEFINE r == Renew(s, l)
<1>1. /\ r \in Look /\ r.at = l.at /\ r.source = l.source /\ r.force = l.force /\ r.began = l.began
      /\ r.evidence = l.evidence /\ r.asset = l.asset /\ l.renewed \subseteq r.renewed
      /\ l.force => r.renewed = l.renewed \cup {s}
  BY DEF Renew, Look
<1> HIDE DEF r
<1>2. LookInv(l) => LookInv(r)
  <2> SUFFICES ASSUME LookInv(l) PROVE LookInv(r)
    OBVIOUS
  <2>1. AtSource(r) /\ Settled(r) /\ EvidenceRecent(r) /\ ReviewAsks(r)
    BY <1>1 DEF LookInv, AtSource, Settled, EvidenceRecent, ReviewAsks
  <2>2. RefusedIsMissing(r)
    BY <1>1 DEF LookInv, RefusedIsMissing, IsMissing
  <2> QED BY <1>1, <2>1, <2>2 DEF LookInv
<1> QED BY <1>1, <1>2 DEF r

(* A probe ends: its answer is stored under the configuration it was for, and
   every review that has begun knows of it. *)
LEMMA ProbeKeeps ==
  ASSUME CatalogsInv, NEW t \in Thread, Probe(t)
  PROVE  CatalogsInv'
<1> DEFINE s == Sources[look[t].source]
<1>0. /\ LookInv(look[t]) /\ look[t].at = "probe" /\ look \in [Thread -> Look]
      /\ toClear \in SUBSET Source /\ look[t].source \in 1 .. Len(Sources) /\ s \in Source
      /\ UNCHANGED <<version, toClear>>
  BY SourcesFacts DEF CatalogsInv, CacheType, Probe, At, LookInv, AtSource
<1>1. PICK answer \in Answer : cache' = [cache EXCEPT ![s] = Probed(t, answer)]
  BY DEF Probe
<1>2. Probed(t, answer) \in Entry /\ Probed(t, answer).heard = Probed(t, answer).answer
      /\ (Probed(t, answer).late \/ Probed(t, answer).version = version)
  BY <1>0 DEF Probed, Entry, Look
<1>3. look' = [u \in Thread |-> Renew(s, IF u = t THEN NextSource(look[u]) ELSE look[u])]
  BY DEF Probe
<1> DEFINE asked == Renew(s, look[t])
<1>4. /\ Renew(s, NextSource(look[t])) = NextSource(asked)
  <2> DEFINE l == look[t]
  <2>1. l \in Look
    BY <1>0
  <2>2. CASE l.force /\ l.source < Len(Sources)
    BY <2>1, <2>2 DEF Renew, NextSource, Look
  <2>3. CASE l.force /\ ~(l.source < Len(Sources))
    BY <2>1, <2>3 DEF Renew, NextSource, Look
  <2>4. CASE ~l.force
    BY <2>1, <2>4 DEF Renew, NextSource, Look
  <2> QED BY <2>2, <2>3, <2>4
<1>5. /\ asked \in Look /\ LookInv(asked) /\ asked.at = "probe" /\ asked.source = look[t].source
      /\ asked.force => s \in asked.renewed
  BY <1>0, RenewKeeps
<1>6. LookInv(NextSource(asked)) /\ NextSource(asked).at # "probe"
  <2> HIDE DEF asked
  <2> QED BY <1>0, <1>5, NextSourceKeeps
<1>7. \A u \in Thread :
        /\ LookInv(look'[u])
        /\ u # t => look'[u].at = look[u].at /\ look'[u].source = look[u].source
  <2> TAKE u \in Thread
  <2>1. CASE u = t
    BY <1>3, <1>4, <1>6, <2>1
  <2>2. CASE u # t
    <3>1. look'[u] = Renew(s, look[u]) /\ LookInv(look[u]) /\ look[u] \in Look
      BY <1>0, <1>3, <2>2 DEF CatalogsInv
    <3> QED BY <1>0, <2>2, <3>1, RenewKeeps
  <2> QED BY <2>1, <2>2
<1>8. look'[t].at # "probe"
  BY <1>3, <1>4, <1>6
<1>9. CacheType'
  <2>1. look' \in [Thread -> Look]
    BY <1>3, <1>7 DEF LookInv
  <2>2. cacheLock' = [cacheLock EXCEPT ![s] = None]
    BY DEF Probe
  <2>3. cacheLock' \in [Source -> Thread \cup {None}] /\ cache' \in [Source -> Entry \cup {None}]
    BY <1>1, <1>2, <2>2 DEF CatalogsInv, CacheType
  <2> QED BY <1>0, <2>1, <2>3 DEF CatalogsInv, CacheType
<1>10. CacheCurrent'
  <2> SUFFICES ASSUME NEW x \in Source, cache'[x] # None
               PROVE  /\ cache'[x].heard = cache'[x].answer
                      /\ cache'[x].late \/ cache'[x].version = version
                         \/ (x \in toClear /\ cache'[x].version = version - 1)
    BY <1>0 DEF CacheCurrent
  <2>1. cache'[x] = IF x = s THEN Probed(t, answer) ELSE cache[x]
    BY <1>1 DEF CatalogsInv, CacheType
  <2> QED BY <1>2, <2>1 DEF CatalogsInv, CacheCurrent
<1>11. Locked'
  <2> SUFFICES ASSUME NEW x \in Source, NEW u \in Thread
               PROVE  cacheLock'[x] = u <=> look'[u].at = "probe" /\ Sources[look'[u].source] = x
    BY DEF Locked
  <2>1. cacheLock'[x] = IF x = s THEN None ELSE cacheLock[x]
    BY DEF Probe, CatalogsInv, CacheType
  <2>2. cacheLock[x] = u <=> look[u].at = "probe" /\ Sources[look[u].source] = x
    BY DEF CatalogsInv, Locked
  <2>3. cacheLock[s] = t
    BY <1>0 DEF CatalogsInv, Locked
  <2>4. CASE u = t
    BY <1>8, <2>1, <2>2, <2>4, CatalogsAssumption
  <2>5. CASE u # t
    BY <1>7, <2>1, <2>2, <2>3, <2>5, CatalogsAssumption
  <2> QED BY <2>4, <2>5
<1>12. \A u \in Thread : LookInv(look[u])'
  <2> TAKE u \in Thread
  <2>1. LookInv(look'[u])
    BY <1>7
  <2> QED BY <1>0, <2>1 DEF LookInv, AtSource, Settled, EvidenceRecent, ReviewAsks, RefusedIsMissing, IsMissing
<1> QED BY <1>9, <1>10, <1>11, <1>12 DEF CatalogsInv

(* The entry of a cache becomes evidence: it is recent, or about to be cleared
   by a reload the thread began before. *)
LEMMA TakeSnapshotKeeps ==
  ASSUME CatalogsInv, NEW t \in Thread, TakeSnapshot(t)
  PROVE  CatalogsInv'
<1> DEFINE s == Sources[look[t].source]
           n == NextSource(look[t])
           l == [n EXCEPT !.evidence[s] = cache[s]]
<1>0. /\ LookInv(look[t]) /\ look[t].at = "snapshot" /\ look \in [Thread -> Look] /\ version \in Nat
      /\ toClear \in SUBSET Source /\ look[t].source \in 1 .. Len(Sources) /\ s \in Source
      /\ cache[s] \in Entry \cup {None}
  BY SourcesFacts DEF CatalogsInv, CacheType, TakeSnapshot, At, LookInv, AtSource
<1>1. LookInv(n) /\ n.at # "probe" /\ n.at \in {"snapshot", "verdict"} /\ n.began = look[t].began
  BY <1>0, NextSourceKeeps, NextSourceFields
<1>2. look' = [look EXCEPT ![t] = l]
  BY <1>0 DEF TakeSnapshot
<1> HIDE DEF n
<1>3. /\ l \in Look /\ l.at = n.at /\ l.source = n.source /\ l.force = n.force /\ l.began = n.began
      /\ l.renewed = n.renewed
      /\ \A x \in Source : l.evidence[x] = IF x = s THEN cache[s] ELSE n.evidence[x]
  <2>1. n \in Look
    BY <1>1 DEF LookInv
  <2> QED BY <1>0, <2>1 DEF Look
<1> HIDE DEF l
<1>4. cache[s] # None => cache[s].heard = cache[s].answer /\ (cache[s].late \/ cache[s].version >= look[t].began)
  <2>1. look[t].began <= version /\ (toClear = {} \/ look[t].began < version) /\ look[t].began \in Nat
    BY <1>0, SourcesFacts DEF LookInv, Settled, Look
  <2>2. cache[s] # None =>
          /\ cache[s].heard = cache[s].answer
          /\ cache[s].late \/ cache[s].version = version \/ (s \in toClear /\ cache[s].version = version - 1)
    BY <1>0 DEF CatalogsInv, CacheCurrent
  <2> QED BY <1>0, <2>1, <2>2
<1>5. AtSource(l) /\ Settled(l) /\ ReviewAsks(l) /\ RefusedIsMissing(l)
  BY <1>1, <1>3 DEF LookInv, AtSource, Settled, ReviewAsks, RefusedIsMissing
<1>6. EvidenceRecent(l)
  BY <1>1, <1>3, <1>4 DEF LookInv, EvidenceRecent
<1>7. LookInv(l)
  BY <1>3, <1>5, <1>6 DEF LookInv
<1> QED BY <1>0, <1>1, <1>2, <1>3, <1>7, OneLooks DEF TakeSnapshot

(* A thread that has finished has no evidence. *)
LEMMA NoLookKeeps == CatalogsInv => LookInv(NoLook) /\ NoLook.at = "idle"
<1> SUFFICES ASSUME CatalogsInv PROVE LookInv(NoLook) /\ NoLook.at = "idle"
  OBVIOUS
<1>1. NoLook \in Look /\ NoLook.at = "idle" /\ NoLook.force = FALSE /\ NoLook.began = 1
      /\ \A s \in Source : NoLook.evidence[s] = None
  BY SourcesFacts DEF NoLook, Look, Places
<1>2. version >= 1
  BY SourcesFacts DEF CatalogsInv, CacheType
<1>3. AtSource(NoLook) /\ Settled(NoLook) /\ EvidenceRecent(NoLook) /\ ReviewAsks(NoLook) /\ RefusedIsMissing(NoLook)
  BY <1>1, <1>2, SourcesFacts DEF AtSource, Settled, EvidenceRecent, ReviewAsks, RefusedIsMissing
<1> QED BY <1>1, <1>3 DEF LookInv

(* The verdict refuses only what is missing. *)
LEMMA VerdictKeeps ==
  ASSUME CatalogsInv, NEW t \in Thread, Verdict(t)
  PROVE  CatalogsInv'
<1>0. LookInv(look[t]) /\ look[t].at = "verdict" /\ look \in [Thread -> Look]
  BY DEF CatalogsInv, CacheType, Verdict, At
<1>1. PICK asset \in Asset :
        LET l == [look[t] EXCEPT !.asset = asset, !.at = "unavailable"] IN
        look' = [look EXCEPT ![t] = IF IsMissing(l) THEN l ELSE NoLook]
  BY DEF Verdict
<1> DEFINE l == [look[t] EXCEPT !.asset = asset, !.at = "unavailable"]
<1>2. CASE IsMissing(l)
  <2>1. /\ l \in Look /\ l.at = "unavailable" /\ l.force = look[t].force /\ l.began = look[t].began
        /\ l.evidence = look[t].evidence /\ l.renewed = look[t].renewed
    BY <1>0 DEF Look, Places
  <2> HIDE DEF l
  <2>2. AtSource(l) /\ Settled(l) /\ EvidenceRecent(l) /\ ReviewAsks(l) /\ RefusedIsMissing(l)
    BY <1>0, <1>2, <2>1 DEF LookInv, AtSource, Settled, EvidenceRecent, ReviewAsks, RefusedIsMissing
  <2>3. LookInv(l)
    BY <2>1, <2>2 DEF LookInv
  <2>4. look' = [look EXCEPT ![t] = l]
    BY <1>1, <1>2 DEF l
  <2> QED BY <1>0, <2>1, <2>3, <2>4, OneLooks DEF Verdict
<1>3. CASE ~IsMissing(l)
  <2>1. look' = [look EXCEPT ![t] = NoLook]
    BY <1>1, <1>3
  <2> QED BY <1>0, <2>1, NoLookKeeps, OneLooks DEF Verdict
<1> QED BY <1>2, <1>3

(* The thread forgets its evidence. *)
LEMMA AnsweredKeeps ==
  ASSUME CatalogsInv, NEW t \in Thread, Answered(t)
  PROVE  CatalogsInv'
<1>1. look[t].at = "unavailable" /\ look' = [look EXCEPT ![t] = NoLook]
  BY DEF Answered, At
<1> QED BY <1>1, NoLookKeeps, OneLooks DEF Answered

(* Every entry is of the configuration before, and about to be cleared. *)
LEMMA ReloadKeeps ==
  ASSUME CatalogsInv, Reload
  PROVE  CatalogsInv'
<1>0. /\ version \in 1 .. MaxVersion /\ version' = version + 1 /\ version' \in 1 .. MaxVersion
      /\ toClear = {} /\ toClear' = Source /\ UNCHANGED <<cache, cacheLock, look>>
      /\ version \in Nat
  BY SourcesFacts DEF CatalogsInv, CacheType, Reload
<1>1. CacheType' /\ Locked'
  BY <1>0 DEF CatalogsInv, CacheType, Locked
<1>2. CacheCurrent'
  BY <1>0 DEF CatalogsInv, CacheCurrent
<1>3. \A u \in Thread : LookInv(look[u])'
  <2> TAKE u \in Thread
  <2>1. LookInv(look[u]) /\ look[u].began \in Nat
    BY SourcesFacts DEF CatalogsInv, LookInv, Look
  <2>2. Settled(look[u])'
    BY <1>0, <2>1 DEF LookInv, Settled
  <2> QED BY <1>0, <2>1, <2>2 DEF LookInv, AtSource, EvidenceRecent, ReviewAsks, RefusedIsMissing, IsMissing
<1> QED BY <1>1, <1>2, <1>3 DEF CatalogsInv

(* A cleared cache has no entry to be too old. *)
LEMMA ClearKeeps ==
  ASSUME CatalogsInv, NEW s \in Source, Clear(s)
  PROVE  CatalogsInv'
<1>0. /\ s \in toClear /\ toClear' = toClear \ {s} /\ cache' = [cache EXCEPT ![s] = None]
      /\ UNCHANGED <<version, cacheLock, look>>
  BY DEF Clear
<1>1. CacheType' /\ Locked'
  BY <1>0 DEF CatalogsInv, CacheType, Locked
<1>2. CacheCurrent'
  BY <1>0 DEF CatalogsInv, CacheCurrent, CacheType
<1>3. \A u \in Thread : LookInv(look[u])'
  <2> TAKE u \in Thread
  <2>1. LookInv(look[u])
    BY DEF CatalogsInv
  <2>2. Settled(look[u])'
    BY <1>0, <2>1 DEF LookInv, Settled
  <2> QED BY <1>0, <2>1, <2>2 DEF LookInv, AtSource, EvidenceRecent, ReviewAsks, RefusedIsMissing, IsMissing
<1> QED BY <1>1, <1>2, <1>3 DEF CatalogsInv

(* Every step of a thread or a reload keeps the invariant. *)
LEMMA CatalogsInductive == CatalogsInv /\ [Next]_catalogVars => CatalogsInv'
<1> SUFFICES ASSUME CatalogsInv, [Next]_catalogVars PROVE CatalogsInv'
  OBVIOUS
<1>1. ASSUME NEW t \in Thread, LookStep(t) PROVE CatalogsInv'
  BY <1>1, LookUpKeeps, ReadAdaptersKeeps, TakeCacheKeeps, ProbeKeeps, TakeSnapshotKeeps, VerdictKeeps, AnsweredKeeps
     DEF LookStep
<1>2. CASE UNCHANGED catalogVars
  BY <1>2 DEF catalogVars, CatalogsInv, CacheType, Locked, CacheCurrent,
              LookInv, AtSource, Settled, EvidenceRecent, ReviewAsks, RefusedIsMissing, IsMissing
<1> QED BY <1>1, <1>2, ReloadKeeps, ClearKeeps DEF Next

(* The invariant holds in every state. *)
LEMMA CatalogsInvariant == CatalogsSpec => []CatalogsInv
BY CatalogsInitially, CatalogsInductive, PTL DEF CatalogsSpec

-----------------------------------------------------------------------------
(* The records of threads and caches keep their types, and the lock of a cache
   is held exactly while its source is probed. *)
THEOREM CatalogsAlwaysTyped == CatalogsSpec => []CatalogsTypeOK
<1>1. CatalogsInv => CatalogsTypeOK
  BY DEF CatalogsInv, CacheType, Locked, CatalogsTypeOK, Look
<1> QED BY <1>1, CatalogsInvariant, PTL

(* No load is refused and no model offered for removal without evidence: an
   answer that lacks it, of the configuration the thread started from or a
   later one, and for a review one that was given after the review began; or a
   probe that was under way when a reload cleared the caches. *)
THEOREM UnavailableAlwaysHasEvidence == CatalogsSpec => []UnavailableHasEvidence
<1>1. CatalogsInv => UnavailableHasEvidence
  <2> SUFFICES ASSUME CatalogsInv, NEW t \in Thread, look[t].at = "unavailable", look[t].asset # "missing"
               PROVE  \E s \in Source : LET e == look[t].evidence[s] IN
                        /\ e # None /\ e.heard = "missing"
                        /\ e.version >= look[t].began \/ e.late
                        /\ look[t].force => s \in look[t].renewed
    BY DEF UnavailableHasEvidence, At
  <2>1. LookInv(look[t])
    BY DEF CatalogsInv
  <2>2. PICK s \in Source : look[t].evidence[s] # None /\ look[t].evidence[s].answer = "missing"
    BY <2>1 DEF LookInv, RefusedIsMissing, IsMissing
  <2>3. look[t].force => s \in look[t].renewed
    BY <2>1, SourcesFacts DEF LookInv, ReviewAsks
  <2> QED BY <2>1, <2>2, <2>3 DEF LookInv, EvidenceRecent
<1> QED BY <1>1, CatalogsInvariant, PTL
=============================================================================
