-------------------------- MODULE AdmissionProofs ---------------------------
(***************************************************************************)
(* Theorems about Admission, for any number of threads and models, any     *)
(* estimates, limits and changes of the settings.                          *)
(***************************************************************************)
EXTENDS Admission, WellFoundedInduction, TLAPS

N == Len(Order)

(* What the n-th model of a loop adds. *)
Adds(f, S, n) == IF Order[n] \in S THEN Gigabytes(f[Order[n]]) ELSE 0

(* The models whose estimates, and whose reservations, the sums for m have to
   account for. *)
Steady(S, m) == (S \cap Own) \ {m}
LoadingBeside(s, m) == {n \in Own \ {m} : s[n] = "loading"}

SteadySums(t) == Sums(estimate, Steady(steady, job[t]))
LoadingSums(t) == Sums(reservation, LoadingBeside(state, job[t]))

(* The loops have added up no less than what they have passed still comes to. *)
Counted(t) ==
  /\ pc[t] = "loaded2" => sum.loaded >= SteadySums(t)[sum.at - 1]
  /\ pc[t] = "reserved2" => sum.loaded >= SteadySums(t)[N] /\ sum.reserved >= LoadingSums(t)[sum.at - 1]
  /\ pc[t] = "reserve" /\ sum # NoSum => sum.own + SteadySums(t)[N] + LoadingSums(t)[N] <= sum.limit

(* Nothing is added up outside the lock, nor left to unload in the second
   check; what was ready all the time is ready. *)
CheckShape ==
  /\ memoryLock = None => sum = NoSum
  /\ \A m \in steady : state[m] = "ready"
  /\ \A t \in Thread : pc[t] \in {"second", "loaded2", "reserved2", "reserve"} => todo[t] = {}

(* The models whose transitions exclude a thread's. *)
Claim(t) == {job[t]} \cup Rivals[job[t]]

(* A transition excludes the others of its models, and changes no others: until
   the load has ended, only the answer of a probe takes a model out of
   "loading". *)
LoadShape ==
  /\ \A t \in Thread : \A u \in Thread \ {t} : pc[t] \in Working /\ pc[u] \in Working => job[u] \notin Claim(t)
  /\ \A t \in Thread : todo[t] \subseteq Claim(t)
  /\ \A t \in Thread : pc[t] \notin Working => todo[t] = {}
  /\ \A t \in Thread : pc[t] = "unload" => victim[t] \in Claim(t)
  /\ \A t \in Thread : pc[t] = "load" /\ job[t] \notin overtaken => state[job[t]] = "loading"

FitInv ==
  /\ AdmissionTypeOK
  /\ CheckShape
  /\ LoadShape
  /\ \A t \in Thread : Counted(t)

-----------------------------------------------------------------------------
(* Sums. *)

(* Every set of naturals has a least element. *)
LEMMA LeastExists ==
  ASSUME NEW T \in SUBSET Nat, T # {}
  PROVE  \E k \in T : \A j \in T : k <= j
<1>1. PICK k \in T : \A j \in T : <<j, k>> \notin OpToRel(<, Nat)
  BY NatLessThanWellFounded, WFMin
<1>2. \A j \in T : k <= j
  <2> TAKE j \in T
  <2> j \in Nat /\ k \in Nat
    OBVIOUS
  <2>1. ~(j < k)
    BY <1>1 DEF OpToRel
  <2> QED BY <2>1
<1> QED BY <1>2

(* There is a model, and the order lists models. *)
LEMMA OrderTyped == N \in Nat \ {0} /\ \A n \in 1 .. N : Order[n] \in Model
BY AdmissionAssumption DEF N, Model

(* Sums is what its equation says: each sum is the one before and what the
   model adds. *)
LEMMA SumsByStep ==
  ASSUME NEW f, NEW S, \A n \in 1 .. N : Adds(f, S, n) \in Nat
  PROVE  /\ Sums(f, S) \in [0 .. N -> Nat]
         /\ Sums(f, S)[0] = 0
         /\ \A n \in 1 .. N : Sums(f, S)[n] = Sums(f, S)[n - 1] + Adds(f, S, n)
<1> DEFINE g == [n \in 1 .. N |-> Adds(f, S, n)]
           UpTo(h, k) == h \in [0 .. k -> Nat] /\ h[0] = 0 /\ \A n \in 1 .. k : h[n] = h[n - 1] + g[n]
           T == {k \in 0 .. N : ~ \E h : UpTo(h, k)}
           Body(p) == [n \in 0 .. N |-> IF n = 0 THEN 0 ELSE p[n - 1] + Adds(f, S, n)]
<1>0. N \in Nat /\ g \in [1 .. N -> Nat]
  BY OrderTyped
<1>1. T = {}
  <2> SUFFICES ASSUME T # {} PROVE FALSE
    OBVIOUS
  <2>0. T \in SUBSET Nat
    BY <1>0
  <2>1. PICK k \in T : \A j \in T : k <= j
    <3> HIDE DEF T
    <3> QED BY <2>0, LeastExists
  <2>2. k # 0
    <3>1. UpTo([n \in 0 .. 0 |-> 0], 0)
      OBVIOUS
    <3>2. \E h : UpTo(h, 0)
      BY <3>1
    <3> QED BY <2>1, <3>2
  <2>3. k \in 1 .. N /\ k - 1 \in 0 .. N /\ k - 1 \notin T
    <3>1. k \in 1 .. N /\ k - 1 \in 0 .. N /\ ~(k <= k - 1)
      BY <1>0, <2>1, <2>2
    <3> HIDE DEF T
    <3> QED BY <2>1, <3>1
  <2>4. PICK h : UpTo(h, k - 1)
    BY <2>3
  <2> DEFINE e == [n \in 0 .. k |-> IF n = k THEN h[k - 1] + g[k] ELSE h[n]]
  <2>5. UpTo(e, k)
    <3> HIDE DEF g
    <3>1. k \in Nat \ {0} /\ k <= N
      BY <1>0, <2>3
    <3>2. h[k - 1] + g[k] \in Nat
      BY <1>0, <2>3, <2>4, <3>1
    <3>3. e \in [0 .. k -> Nat] /\ e[0] = 0
      BY <2>4, <3>1, <3>2
    <3>4. \A n \in 1 .. k : e[n] = e[n - 1] + g[n]
      BY <2>4, <3>1
    <3> QED BY <3>3, <3>4
  <2>6. \E x : UpTo(x, k)
    BY <2>5
  <2> QED BY <2>1, <2>6
<1>2. PICK h : UpTo(h, N)
  <2>1. N \in 0 .. N
    BY <1>0
  <2> QED BY <1>1, <2>1
<1>3. h = Body(h)
  BY <1>0, <1>2
<1>4. Sums(f, S) = (CHOOSE p : p = Body(p))
  BY DEF Sums, N, Adds
<1> DEFINE s == CHOOSE p : p = Body(p)
<1>5. s = Body(s)
  BY <1>3
<1> HIDE DEF s
<1>6. s[0] = 0 /\ \A n \in 1 .. N : s[n] = s[n - 1] + Adds(f, S, n)
  BY <1>0, <1>5
<1>7. \A n \in 0 .. N : s[n] = h[n]
  <2> DEFINE U == {n \in 0 .. N : s[n] # h[n]}
  <2> SUFFICES ASSUME U # {} PROVE FALSE
    OBVIOUS
  <2>0. U \in SUBSET Nat
    BY <1>0
  <2>1. PICK k \in U : \A j \in U : k <= j
    <3> HIDE DEF U
    <3> QED BY <2>0, LeastExists
  <2>2. k \in 1 .. N /\ k - 1 \in 0 .. N /\ s[k - 1] = h[k - 1]
    BY <1>0, <1>2, <1>6, <2>1
  <2> QED BY <1>2, <1>6, <2>1, <2>2
<1>8. s \in [0 .. N -> Nat]
  BY <1>0, <1>2, <1>5, <1>7
<1> QED BY <1>4, <1>6, <1>8 DEF s

(* A loop that adds less at each model comes to less. *)
LEMMA SumsMonotone ==
  ASSUME NEW f, NEW S, NEW g, NEW R,
         \A n \in 1 .. N : Adds(f, S, n) \in Nat /\ Adds(g, R, n) \in Nat /\ Adds(f, S, n) <= Adds(g, R, n)
  PROVE  \A n \in 0 .. N : Sums(f, S)[n] \in Nat /\ Sums(g, R)[n] \in Nat /\ Sums(f, S)[n] <= Sums(g, R)[n]
<1> DEFINE s == Sums(f, S)
           r == Sums(g, R)
           T == {k \in 0 .. N : ~(s[k] <= r[k])}
<1>1. /\ s \in [0 .. N -> Nat] /\ s[0] = 0 /\ \A n \in 1 .. N : s[n] = s[n - 1] + Adds(f, S, n)
      /\ r \in [0 .. N -> Nat] /\ r[0] = 0 /\ \A n \in 1 .. N : r[n] = r[n - 1] + Adds(g, R, n)
  BY SumsByStep
<1> HIDE DEF s, r
<1>2. T = {}
  <2> SUFFICES ASSUME T # {} PROVE FALSE
    OBVIOUS
  <2>0. N \in Nat
    BY OrderTyped
  <2>1. PICK k \in T : \A j \in T : k <= j
    <3>1. T \in SUBSET Nat
      BY <2>0
    <3> HIDE DEF T
    <3> QED BY <3>1, LeastExists
  <2>2. k \in 1 .. N /\ k - 1 \in 0 .. N /\ s[k - 1] <= r[k - 1]
    BY <1>1, <2>0, <2>1
  <2>3. s[k] = s[k - 1] + Adds(f, S, k) /\ r[k] = r[k - 1] + Adds(g, R, k)
        /\ Adds(f, S, k) \in Nat /\ Adds(g, R, k) \in Nat /\ Adds(f, S, k) <= Adds(g, R, k)
    BY <1>1, <2>2
  <2>4. s[k - 1] \in Nat /\ r[k - 1] \in Nat /\ ~(s[k] <= r[k])
    BY <1>1, <2>1, <2>2
  <2> QED BY <2>2, <2>3, <2>4
<1> QED BY <1>1, <1>2 DEF s, r

-----------------------------------------------------------------------------
(* The invariant. *)

LEMMA TypedInitially == AdmissionInit => AdmissionTypeOK
<1> SUFFICES ASSUME AdmissionInit PROVE AdmissionTypeOK
  OBVIOUS
<1>1. PICK c \in Configured : limit = c.limit /\ estimate = c.estimate
  BY DEF AdmissionInit
<1>2. c \in [estimate : [Model -> Sizes], limit : Limits]
  BY AdmissionAssumption
<1>3. Order[1] \in Model /\ Len(Order) \in Nat \ {0}
  BY OrderTyped DEF N
<1> QED BY <1>1, <1>2, <1>3, AdmissionAssumption DEF AdmissionInit, AdmissionTypeOK, NoSum, State, Checking, Working

(* The four parts of the type invariant. *)
Place == {"idle", "load room", "unload room"} \cup Working
PlacesTyped ==
  /\ pc \in [Thread -> Place] /\ job \in [Thread -> Model]
  /\ todo \in [Thread -> SUBSET Model] /\ victim \in [Thread -> Model]
MemoryTyped ==
  /\ limit \in Limits /\ estimate \in [Model -> Sizes] /\ changes \in 0 .. MaxChanges
  /\ state \in [Model -> State] /\ reservation \in [Model -> Sizes \cup {None}]
  /\ memoryLock \in Thread \cup {None}
  /\ steady \in SUBSET Model /\ probed \in SUBSET Model /\ overtaken \in SUBSET Model
SumRecord == [at : 1 .. N, own : Nat, limit : Nat, loaded : Nat, reserved : Nat]
SumTyped == sum \in SumRecord
LockKept == \A t \in Thread : pc[t] \in Checking => memoryLock = t

LEMMA TypeParts == AdmissionTypeOK <=> PlacesTyped /\ MemoryTyped /\ SumTyped /\ LockKept
BY DEF AdmissionTypeOK, PlacesTyped, MemoryTyped, SumRecord, SumTyped, LockKept, Place, N

(* The places a step of a thread goes to, and its lock. *)
LEMMA PlacesStep ==
  ASSUME PlacesTyped, NEW t \in Thread, ThreadStep(t)
  PROVE  /\ PlacesTyped'
         /\ \A u \in Thread \ {t} : 
              pc'[u] = pc[u] /\ job'[u] = job[u] /\ todo'[u] = todo[u] /\ victim'[u] = victim[u]
<1>0. Order[1] \in Model /\ Rivals \in [Model -> SUBSET Model]
  BY OrderTyped, AdmissionAssumption DEF N
<1>00. {job[t]} \in SUBSET Model
  BY DEF PlacesTyped
<1> USE DEF PlacesTyped, Place, Working, Checking, Goto, End, threadVars
<1>1. CASE Begin(t)
  <2>1. PICK m \in Model, place \in {"load room", "unload room"} :
          job' = [job EXCEPT ![t] = m] /\ pc' = [pc EXCEPT ![t] = place] /\ UNCHANGED <<todo, victim>>
    BY <1>1 DEF Begin
  <2> QED BY <2>1
<1>2. CASE EnterTransition(t)
  <2>1. \/ pc' = [pc EXCEPT ![t] = "owns"] /\ UNCHANGED <<job, todo, victim>>
        \/ pc' = [pc EXCEPT ![t] = "evict"] /\ todo' = [todo EXCEPT ![t] = {job[t]}] /\ UNCHANGED <<job, victim>>
        \/ End(t)
    BY <1>2 DEF EnterTransition
  <2> QED BY <1>0, <1>00, <2>1
<1>3. CASE MakeRoom(t)
  <2>1. {b \in Rivals[job[t]] : state[b] = "ready"} \in SUBSET Model
    BY <1>0
  <2> QED BY <1>0, <1>3, <2>1 DEF MakeRoom
<1>4. CASE Refuse(t)
  BY <1>0, <1>4 DEF Refuse
<1>5. CASE CheckBegin(t)
  BY <1>0, <1>5 DEF CheckBegin, Passed
<1>6. CASE CountLoaded(t)
  BY <1>0, <1>6 DEF CountLoaded, NotAdmitted
<1>7. CASE CountReserved(t)
  BY <1>0, <1>7 DEF CountReserved, NotAdmitted, Passed
<1>8. CASE Reserve(t)
  BY <1>0, <1>8 DEF Reserve
<1>9. CASE Load(t)
  <2>1. \/ End(t)
        \/ pc' = [pc EXCEPT ![t] = "unload"] /\ todo' = [todo EXCEPT ![t] = {job[t]}]
           /\ victim' = [victim EXCEPT ![t] = job[t]] /\ UNCHANGED job
    BY <1>9 DEF Load
  <2> QED BY <1>0, <1>00, <2>1
<1>10. CASE Evict(t)
  <2>1. PICK b \in Model : victim' = [victim EXCEPT ![t] = b]
    BY <1>10 DEF Evict
  <2> QED BY <1>10, <2>1 DEF Evict
<1>11. CASE Unload(t)
  <2>1. \/ End(t)
        \/ /\ todo' = [todo EXCEPT ![t] = @ \ {victim[t]}] /\ UNCHANGED <<job, victim>>
            /\ \E place \in {"owns", "evict"} : pc' = [pc EXCEPT ![t] = place]
    BY <1>11 DEF Unload
  <2> QED BY <1>0, <2>1
<1> QED BY <1>1, <1>2, <1>3, <1>4, <1>5, <1>6, <1>7, <1>8, <1>9, <1>10, <1>11 DEF ThreadStep

(* A probe that may be begun is one of a model. *)
LEMMA ProbesTyped ==
  ASSUME MemoryTyped, NEW m \in Model, NEW s \in State, SetState(m, s)
  PROVE  probed' \in SUBSET Model
<1>1. {n \in {m} \cap Observable : s \in {"ready", "unknown"}} \in SUBSET Model
  OBVIOUS
<1> QED BY <1>1 DEF MemoryTyped, SetState

(* What the steps do to the models: only Reserve takes one to "loading". *)
LEMMA MemoryStep ==
  ASSUME PlacesTyped, MemoryTyped, NEW t \in Thread, ThreadStep(t)
  PROVE  /\ MemoryTyped' /\ UNCHANGED settingsVars
         /\ ~Reserve(t) => \A m \in Model : state'[m] = "loading" =>
              state[m] = "loading" /\ reservation'[m] \in {reservation[m], None}
         /\ (\A m \in steady : state[m] = "ready") => \A m \in steady' : state'[m] = "ready"
         /\ ~CheckBegin(t) => steady' \subseteq steady
<1> USE DEF MemoryTyped, PlacesTyped, State, SetState, settingsVars, memoryVars
<1>0. /\ limit \in Limits /\ estimate \in [Model -> Sizes] /\ changes \in 0 .. MaxChanges
      /\ job[t] \in Model /\ todo[t] \in SUBSET Model /\ victim[t] \in Model
  OBVIOUS
<1>1. CASE UNCHANGED memoryVars
  BY <1>0, <1>1
<1>2. CASE CheckBegin(t)
  <2>1. /\ UNCHANGED <<settingsVars, state, reservation, probed, overtaken>>
        /\ memoryLock' \in {memoryLock, None, t} /\ steady' \in {steady, {m \in Model : state[m] = "ready"}}
        /\ ~Reserve(t)
    BY <1>2 DEF CheckBegin, Reserve
  <2> QED BY <1>0, <1>2, <2>1
<1>3. CASE CountLoaded(t) \/ CountReserved(t)
  <2>1. /\ UNCHANGED <<settingsVars, state, reservation, probed, overtaken>>
        /\ memoryLock' \in {memoryLock, None} /\ steady' \in {steady, {}}
    BY <1>3 DEF CountLoaded, CountReserved, NotAdmitted
  <2> QED BY <1>0, <2>1
<1>4. CASE Reserve(t)
  <2>1. UNCHANGED <<settingsVars, probed, overtaken>> /\ memoryLock' = None /\ steady' = {}
        /\ state' = [state EXCEPT ![job[t]] = "loading"]
        /\ \E r \in Sizes \cup {None} : reservation' = [reservation EXCEPT ![job[t]] = r]
    BY <1>0, <1>4 DEF Reserve
  <2> QED BY <1>0, <1>4, <2>1
<1>5. CASE Load(t) \/ Evict(t) \/ Unload(t)
  <2>1. PICK b \in Model, s \in State \ {"loading"} : SetState(b, s)
    BY <1>0, <1>5 DEF Load, Evict, Unload
  <2>2. /\ UNCHANGED <<settingsVars, memoryLock>>
        /\ UNCHANGED reservation \/ \E m \in Model : reservation' = [reservation EXCEPT ![m] = None]
        /\ overtaken' \in SUBSET Model
    BY <1>0, <1>5 DEF Load, Evict, Unload
  <2>3. probed' \in SUBSET Model
    BY <2>1, ProbesTyped
  <2>4. state' = [state EXCEPT ![b] = s] /\ steady' = steady \ {b} /\ ~CheckBegin(t)
    BY <1>5, <2>1 DEF Load, Evict, Unload, CheckBegin
  <2> HIDE DEF SetState
  <2> QED BY <1>0, <2>2, <2>3, <2>4
<1>6. UNCHANGED memoryVars \/ CheckBegin(t) \/ CountLoaded(t) \/ CountReserved(t)
      \/ Reserve(t) \/ Load(t) \/ Evict(t) \/ Unload(t)
  BY DEF ThreadStep, Begin, EnterTransition, MakeRoom, Refuse
<1> QED BY <1>1, <1>2, <1>3, <1>4, <1>5, <1>6

(* A probe, and new settings, are as harmless. *)
LEMMA OutsideStep ==
  ASSUME MemoryTyped, (\E m \in Model : Observe(m)) \/ ChangeSettings
  PROVE  /\ MemoryTyped' /\ UNCHANGED <<sum, memoryLock, threadVars>>
         /\ \A m \in Model : state'[m] = "loading" =>
              state[m] = "loading" /\ reservation'[m] \in {reservation[m], None}
         /\ (\A m \in steady : state[m] = "ready") => \A m \in steady' : state'[m] = "ready"
         /\ steady' \subseteq steady /\ \A m \in steady' : estimate'[m] = estimate[m]
<1> USE DEF MemoryTyped, State, SetState, settingsVars
<1>1. ASSUME NEW m \in Model, Observe(m)
      PROVE  /\ UNCHANGED <<sum, memoryLock, threadVars, settingsVars>>
             /\ \E s \in State \ {"loading"} : SetState(m, s)
             /\ UNCHANGED reservation \/ reservation' = [reservation EXCEPT ![m] = None]
             /\ overtaken' \in SUBSET Model
  <2>1. {n \in {m} : state[n] = "loading"} \in SUBSET Model
    OBVIOUS
  <2> QED BY <1>1, <2>1 DEF Observe
<1>2. CASE \E m \in Model : Observe(m)
  <2>1. PICK m \in Model : Observe(m)
    BY <1>2
  <2>2. PICK s \in State \ {"loading"} : SetState(m, s)
    BY <1>1, <2>1
  <2>3. /\ UNCHANGED <<sum, memoryLock, threadVars, settingsVars>> /\ overtaken' \in SUBSET Model
        /\ UNCHANGED reservation \/ reservation' = [reservation EXCEPT ![m] = None]
    BY <1>1, <2>1
  <2>4. state' = [state EXCEPT ![m] = s] /\ steady' = steady \ {m} /\ probed' \in SUBSET Model
    BY <2>2, ProbesTyped
  <2> HIDE DEF SetState
  <2> QED BY <2>3, <2>4
<1>3. CASE ChangeSettings
  BY <1>3, AdmissionAssumption DEF ChangeSettings
<1> QED BY <1>2, <1>3

(* The records the steps of a check make. *)
LEMMA SumFields ==
  ASSUME NEW s \in SumRecord
  PROVE  s.at \in 1 .. N /\ s.own \in Nat /\ s.limit \in Nat /\ s.loaded \in Nat /\ s.reserved \in Nat
BY DEF SumRecord

WithLoaded(s, a, x) == [s EXCEPT !.at = a, !.loaded = x]
WithReserved(s, a, x) == [s EXCEPT !.at = a, !.reserved = x]
WithAll(s, x) == [s EXCEPT !.reserved = x]

LEMMA SumUpdated ==
  ASSUME NEW s \in SumRecord, NEW a \in 1 .. N, NEW x \in Nat
  PROVE  /\ LET e == WithLoaded(s, a, x) IN
              e \in SumRecord /\ e.at = a /\ e.loaded = x /\ e.reserved = s.reserved /\ e.own = s.own /\ e.limit = s.limit
         /\ LET e == WithReserved(s, a, x) IN
              e \in SumRecord /\ e.at = a /\ e.loaded = s.loaded /\ e.reserved = x /\ e.own = s.own /\ e.limit = s.limit
         /\ LET e == WithAll(s, x) IN
              e \in SumRecord /\ e.at = s.at /\ e.loaded = s.loaded /\ e.reserved = x /\ e.own = s.own /\ e.limit = s.limit
BY DEF SumRecord, WithLoaded, WithReserved, WithAll

LEMMA SumBegun ==
  ASSUME N \in Nat \ {0}, NEW o \in Nat, NEW l \in Nat
  PROVE  LET e == [NoSum EXCEPT !.own = o, !.limit = l] IN
              e \in SumRecord /\ e.at = 1 /\ e.loaded = 0 /\ e.reserved = 0 /\ e.own = o /\ e.limit = l
<1>1. 1 \in 1 .. N
  OBVIOUS
<1>2. NoSum \in SumRecord /\ NoSum.at = 1 /\ NoSum.loaded = 0 /\ NoSum.reserved = 0
  BY <1>1 DEF NoSum, SumRecord
<1>3. ASSUME NEW s \in SumRecord
      PROVE  LET e == [s EXCEPT !.own = o, !.limit = l] IN
              e \in SumRecord /\ e.at = s.at /\ e.loaded = s.loaded /\ e.reserved = s.reserved /\ e.own = o /\ e.limit = l
  BY DEF SumRecord
<1> QED BY <1>2, <1>3

(* What a step does to the lock and the sum: nothing, away from a check; or a
   check begins, goes on or ends. *)
LEMMA LockStep ==
  ASSUME PlacesTyped, MemoryTyped, SumTyped, LockKept, NEW t \in Thread, ThreadStep(t)
  PROVE  \/ UNCHANGED <<sum, memoryLock>> /\ pc[t] \notin Checking /\ pc'[t] \notin Checking
         \/ memoryLock = None /\ memoryLock' = t /\ pc'[t] \in Checking /\ (sum' = sum \/ SumTyped')
         \/ memoryLock = t /\ memoryLock' = t /\ pc'[t] \in Checking /\ SumTyped'
         \/ memoryLock = t /\ memoryLock' = None /\ pc'[t] \notin Checking /\ sum' = NoSum
<1>0. N \in Nat \ {0} /\ (\A n \in 1 .. N : Order[n] \in Model) /\ N = Len(Order)
      /\ Sizes \subseteq Nat \cup {None} /\ Limits \subseteq Nat \cup {None}
  BY OrderTyped, AdmissionAssumption DEF N
<1>1. pc \in [Thread -> Place] /\ job[t] \in Model /\ estimate \in [Model -> Sizes] /\ limit \in Limits
      /\ reservation \in [Model -> Sizes \cup {None}]
  BY DEF PlacesTyped, MemoryTyped
<1>2. pc[t] \in Checking => memoryLock = t
  BY DEF LockKept
<1>8. sum \in SumRecord /\ sum.at \in 1 .. N /\ sum.loaded \in Nat /\ sum.reserved \in Nat
  BY SumFields DEF SumTyped
<1> USE DEF Place, Working, Checking, Goto, End, settingsVars, memoryVars, threadVars
<1>3. CASE Begin(t) \/ EnterTransition(t) \/ MakeRoom(t) \/ Refuse(t) \/ Load(t) \/ Evict(t) \/ Unload(t)
  BY <1>1, <1>3 DEF Begin, EnterTransition, MakeRoom, Refuse, Load, Evict, Unload
<1>4. CASE CheckBegin(t)
  <2>1. CASE limit = None \/ state[job[t]] = "ready"
    BY <1>1, <1>4, <2>1 DEF CheckBegin, Passed
  <2>2. CASE limit # None /\ state[job[t]] # "ready" /\ estimate[job[t]] = None
    BY <1>1, <1>4, <2>2 DEF CheckBegin
  <2>3. CASE limit # None /\ state[job[t]] # "ready" /\ estimate[job[t]] # None
    <3>1. limit \in Nat /\ estimate[job[t]] \in Nat
      BY <1>0, <1>1, <2>3
    <3>2. sum' = [NoSum EXCEPT !.own = estimate[job[t]], !.limit = limit]
      BY <1>4, <2>3 DEF CheckBegin
    <3>3. SumTyped'
      BY <1>0, <3>1, <3>2, SumBegun DEF SumTyped
    <3>4. memoryLock = None /\ memoryLock' = t /\ pc'[t] \in Checking
      BY <1>1, <1>4, <2>3 DEF CheckBegin
    <3> QED BY <3>3, <3>4
  <2> QED BY <2>1, <2>2, <2>3
<1>5. CASE CountLoaded(t)
  <2> DEFINE m == Order[sum.at]
             counts == m \in Own \ Excluded(t) /\ state[m] = "ready"
             loaded == sum.loaded + (IF counts THEN estimate[m] ELSE 0)
  <2>1. pc[t] \in {"loaded1", "loaded2"} /\ memoryLock = t
    BY <1>2, <1>5 DEF CountLoaded
  <2>2. CASE counts /\ estimate[m] = None
    BY <1>1, <1>5, <2>1, <2>2 DEF CountLoaded, NotAdmitted
  <2>3. CASE ~(counts /\ estimate[m] = None)
    <3>1. loaded \in Nat
      <4>1. m \in Model /\ estimate[m] \in Nat \cup {None}
        BY <1>0, <1>1, <1>8
      <4> HIDE DEF m
      <4> QED BY <1>8, <2>3, <4>1
    <3>2. memoryLock' = t
      BY <1>5, <2>1, <2>3 DEF CountLoaded
    <3>3. \E a \in 1 .. N : sum' = WithLoaded(sum, a, loaded)
      <4>1. CASE sum.at < Len(Order)
        <5>1. sum' = WithLoaded(sum, sum.at + 1, loaded)
          BY <1>5, <2>3, <4>1 DEF CountLoaded, WithLoaded
        <5>2. sum.at + 1 \in 1 .. N
          BY <1>0, <1>8, <4>1
        <5> QED BY <5>1, <5>2
      <4>2. CASE ~(sum.at < Len(Order))
        <5>1. sum' = WithLoaded(sum, 1, loaded)
          BY <1>5, <2>3, <4>2 DEF CountLoaded, WithLoaded
        <5>2. 1 \in 1 .. N
          BY <1>0
        <5> HIDE DEF loaded
        <5> QED BY <5>1, <5>2
      <4> QED BY <4>1, <4>2
    <3>4. pc'[t] \in Checking
      BY <1>1, <1>5, <2>1, <2>3 DEF CountLoaded
    <3>5. SumTyped'
      <4> HIDE DEF loaded
      <4>1. PICK a \in 1 .. N : sum' = WithLoaded(sum, a, loaded)
        BY <3>3
      <4>2. WithLoaded(sum, a, loaded) \in SumRecord
        BY <1>8, <3>1, SumUpdated
      <4> QED BY <4>1, <4>2 DEF SumTyped
    <3> QED BY <2>1, <3>2, <3>4, <3>5
  <2> QED BY <2>2, <2>3
<1>6. CASE CountReserved(t)
  <2> DEFINE m == Order[sum.at]
             reserved == sum.reserved + Reserved(t, m)
  <2>1. pc[t] \in {"reserved1", "reserved2"} /\ memoryLock = t
    BY <1>2, <1>6 DEF CountReserved
  <2>2. reserved \in Nat
    <3>1. m \in Model /\ reservation[m] \in Nat \cup {None}
      BY <1>0, <1>1, <1>8
    <3>2. Reserved(t, m) \in Nat
      <4> HIDE DEF m
      <4> QED BY <3>1 DEF Reserved, Gigabytes
    <3> QED BY <1>8, <3>2
  <2>3. CASE NotAdmitted(t)
    BY <1>1, <2>1, <2>3 DEF NotAdmitted
  <2>4. CASE sum.at < Len(Order) /\ sum' = [sum EXCEPT !.at = @ + 1, !.reserved = reserved] /\ UNCHANGED <<memoryLock, threadVars>>
    <3>1. sum' = WithReserved(sum, sum.at + 1, reserved) /\ sum.at + 1 \in 1 .. N
      BY <1>0, <1>8, <2>4 DEF WithReserved
    <3>2. SumTyped'
      <4> HIDE DEF reserved
      <4> QED BY <1>8, <2>2, <3>1, SumUpdated DEF SumTyped
    <3> QED BY <1>1, <2>1, <2>4, <3>2
  <2>5. CASE Passed(t) /\ pc[t] = "reserved1" /\ memoryLock' = None /\ sum' = NoSum
    BY <1>1, <2>1, <2>5 DEF Passed
  <2>6. CASE Passed(t) /\ pc[t] = "reserved2" /\ memoryLock' = memoryLock /\ sum' = [sum EXCEPT !.reserved = reserved]
    <3>1. SumTyped'
      <4> HIDE DEF reserved
      <4>1. sum' = WithAll(sum, reserved)
        BY <2>6 DEF WithAll
      <4> QED BY <1>8, <2>2, <4>1, SumUpdated DEF SumTyped
    <3> QED BY <1>1, <2>1, <2>6, <3>1 DEF Passed
  <2> QED BY <1>6, <2>1, <2>3, <2>4, <2>5, <2>6 DEF CountReserved
<1>7. CASE Reserve(t)
  BY <1>1, <1>2, <1>7 DEF Reserve
<1> QED BY <1>3, <1>4, <1>5, <1>6, <1>7 DEF ThreadStep

(* A second check has nothing left to unload. *)
LEMMA SecondStep ==
  ASSUME PlacesTyped, NEW t \in Thread, ThreadStep(t),
         pc[t] \in {"second", "loaded2", "reserved2", "reserve"} => todo[t] = {},
         pc'[t] \in {"second", "loaded2", "reserved2", "reserve"}
  PROVE  todo'[t] = {}
<1> USE DEF PlacesTyped, Goto, End, memoryVars, threadVars
<1>1. CASE Begin(t) \/ EnterTransition(t) \/ MakeRoom(t) \/ Refuse(t) \/ Load(t) \/ Evict(t) \/ Unload(t) \/ Reserve(t)
  BY <1>1 DEF Begin, EnterTransition, MakeRoom, Refuse, Load, Evict, Unload, Reserve
<1>2. CASE CheckBegin(t)
  BY <1>2 DEF CheckBegin, Passed
<1>3. CASE CountLoaded(t) \/ CountReserved(t)
  BY <1>3 DEF CountLoaded, CountReserved, NotAdmitted, Passed
<1> QED BY <1>1, <1>2, <1>3 DEF ThreadStep

(* Types and CheckShape are inductive without Counted. *)
LEMMA ShapeStep ==
  ASSUME AdmissionTypeOK, CheckShape, [Next]_vars
  PROVE  AdmissionTypeOK' /\ CheckShape'
<1>0. PlacesTyped /\ MemoryTyped /\ SumTyped /\ LockKept /\ None \notin Thread
  BY TypeParts, AdmissionAssumption
<1>1. AdmissionTypeOK' <=> PlacesTyped' /\ MemoryTyped' /\ SumTyped' /\ LockKept'
  BY TypeParts, PTL
<1>2. CASE UNCHANGED vars
  BY <1>2 DEF vars, memoryVars, settingsVars, threadVars, AdmissionTypeOK, CheckShape
<1>3. CASE (\E m \in Model : Observe(m)) \/ ChangeSettings
  <2>1. MemoryTyped' /\ UNCHANGED <<sum, memoryLock, threadVars>> /\ \A m \in steady' : state'[m] = "ready"
    BY <1>0, <1>3, OutsideStep DEF CheckShape
  <2> QED BY <1>0, <1>1, <2>1 DEF PlacesTyped, SumTyped, LockKept, CheckShape, threadVars
<1>4. ASSUME NEW t \in Thread, ThreadStep(t)
      PROVE  AdmissionTypeOK' /\ CheckShape'
  <2>1. PlacesTyped' /\ \A u \in Thread \ {t} : pc'[u] = pc[u] /\ todo'[u] = todo[u]
    BY <1>0, <1>4, PlacesStep
  <2>2. MemoryTyped' /\ \A m \in steady' : state'[m] = "ready"
    BY <1>0, <1>4, MemoryStep DEF CheckShape
  <2>3. SumTyped' /\ LockKept' /\ (memoryLock' = None => sum' = NoSum)
    <3>1. \/ UNCHANGED <<sum, memoryLock>> /\ pc[t] \notin Checking /\ pc'[t] \notin Checking
          \/ memoryLock = None /\ memoryLock' = t /\ pc'[t] \in Checking /\ (sum' = sum \/ SumTyped')
          \/ memoryLock = t /\ memoryLock' = t /\ pc'[t] \in Checking /\ SumTyped'
          \/ memoryLock = t /\ memoryLock' = None /\ pc'[t] \notin Checking /\ sum' = NoSum
      BY <1>0, <1>4, LockStep
    <3>2. NoSum \in [at : 1 .. N, own : Nat, limit : Nat, loaded : Nat, reserved : Nat]
      BY OrderTyped DEF NoSum
    <3>3. SumTyped'
      BY <1>0, <3>1, <3>2 DEF SumTyped, SumRecord
    <3>4. LockKept'
      BY <1>0, <2>1, <3>1 DEF LockKept
    <3> QED BY <1>0, <3>1, <3>3, <3>4 DEF CheckShape
  <2>4. \A u \in Thread : pc'[u] \in {"second", "loaded2", "reserved2", "reserve"} => todo'[u] = {}
    BY <1>0, <1>4, <2>1, SecondStep DEF CheckShape
  <2> QED BY <1>1, <2>1, <2>2, <2>3, <2>4 DEF CheckShape
<1> QED BY <1>2, <1>3, <1>4 DEF Next

-----------------------------------------------------------------------------
(* A load that no probe has overtaken is one the sums count. *)

(* What a step of a thread does to its own transition: it goes on, or begins
   with the look at those of the others, or ends. *)
LEMMA OwnClaim ==
  ASSUME PlacesTyped, LoadShape, NEW t \in Thread, ThreadStep(t)
  PROVE  /\ todo'[t] \subseteq Claim(t)'
         /\ pc'[t] \notin Working => todo'[t] = {}
         /\ pc'[t] = "unload" => victim'[t] \in Claim(t)'
         /\ pc'[t] = "load" => Reserve(t)
         /\ pc'[t] \in Working => job'[t] = job[t] /\ (pc[t] \in Working \/ EnterTransition(t))
<1>0. pc[t] \in Place /\ todo[t] \subseteq Claim(t) /\ (pc[t] \notin Working => todo[t] = {})
      /\ (pc[t] = "unload" => victim[t] \in Claim(t))
  BY DEF PlacesTyped, LoadShape
<1> USE DEF PlacesTyped, Place, Working, Checking, Goto, End, Claim, threadVars
<1>1. CASE Begin(t)
  BY <1>0, <1>1 DEF Begin
<1>2. CASE EnterTransition(t)
  <2>1. \/ pc' = [pc EXCEPT ![t] = "owns"] /\ UNCHANGED <<job, todo, victim>>
        \/ pc' = [pc EXCEPT ![t] = "evict"] /\ todo' = [todo EXCEPT ![t] = {job[t]}] /\ UNCHANGED <<job, victim>>
        \/ End(t)
    BY <1>2 DEF EnterTransition
  <2> QED BY <1>0, <1>2, <2>1
<1>3. CASE MakeRoom(t)
  <2> DEFINE room == {b \in Rivals[job[t]] : state[b] = "ready"}
  <2>1. \/ End(t)
        \/ todo' = [todo EXCEPT ![t] = room] /\ pc' = [pc EXCEPT ![t] = "first"] /\ UNCHANGED <<job, victim>>
    BY <1>3 DEF MakeRoom
  <2>2. room \subseteq Claim(t) /\ pc[t] = "owns"
    BY <1>3 DEF MakeRoom
  <2> HIDE DEF room
  <2> QED BY <1>0, <2>1, <2>2
<1>4. CASE Refuse(t)
  BY <1>0, <1>4 DEF Refuse
<1>5. CASE CheckBegin(t)
  BY <1>0, <1>5 DEF CheckBegin, Passed
<1>6. CASE CountLoaded(t)
  BY <1>0, <1>6 DEF CountLoaded, NotAdmitted
<1>7. CASE CountReserved(t)
  BY <1>0, <1>7 DEF CountReserved, NotAdmitted, Passed
<1>8. CASE Reserve(t)
  BY <1>0, <1>8 DEF Reserve
<1>9. CASE Load(t)
  <2>1. \/ End(t)
        \/ pc' = [pc EXCEPT ![t] = "unload"] /\ todo' = [todo EXCEPT ![t] = {job[t]}]
           /\ victim' = [victim EXCEPT ![t] = job[t]] /\ UNCHANGED job
    BY <1>9 DEF Load
  <2>2. pc[t] = "load"
    BY <1>9 DEF Load
  <2> QED BY <1>0, <2>1, <2>2
<1>10. CASE Evict(t)
  <2>1. PICK b \in todo[t] : victim' = [victim EXCEPT ![t] = b]
    BY <1>10 DEF Evict
  <2> QED BY <1>0, <1>10, <2>1 DEF Evict
<1>11. CASE Unload(t)
  <2>1. \/ End(t)
        \/ /\ todo' = [todo EXCEPT ![t] = @ \ {victim[t]}] /\ UNCHANGED <<job, victim>>
           /\ \E place \in {"owns", "evict"} : pc' = [pc EXCEPT ![t] = place]
    BY <1>11 DEF Unload
  <2>2. pc[t] = "unload"
    BY <1>11 DEF Unload
  <2> QED BY <1>0, <2>1, <2>2
<1> QED BY <1>1, <1>2, <1>3, <1>4, <1>5, <1>6, <1>7, <1>8, <1>9, <1>10, <1>11 DEF ThreadStep

(* A step of a thread changes the models of its transition only. *)
LEMMA ClaimedOnly ==
  ASSUME PlacesTyped, MemoryTyped, LoadShape, NEW t \in Thread, ThreadStep(t), NEW m \in Model,
         pc[t] \in Working => m \notin Claim(t)
  PROVE  state'[m] = state[m] /\ (m \in overtaken' <=> m \in overtaken)
<1>0. todo[t] \subseteq Claim(t) /\ (pc[t] = "unload" => victim[t] \in Claim(t)) /\ job[t] \in Claim(t)
  BY DEF LoadShape, Claim
<1>1. CASE UNCHANGED <<state, overtaken>>
  BY <1>1
<1>2. CASE Reserve(t) \/ Load(t) \/ Evict(t) \/ Unload(t)
  <2>1. pc[t] \in Working
    BY <1>2 DEF Reserve, Load, Evict, Unload, Working, Checking
  <2>2. PICK b \in Claim(t), s \in State : state' = [state EXCEPT ![b] = s] /\ overtaken' \in {overtaken, overtaken \ {b}}
    BY <1>0, <1>2 DEF Reserve, Load, Evict, Unload, SetState, State
  <2> QED BY <2>1, <2>2 DEF MemoryTyped
<1>3. UNCHANGED <<state, overtaken>> \/ Reserve(t) \/ Load(t) \/ Evict(t) \/ Unload(t)
  BY DEF ThreadStep, Begin, EnterTransition, MakeRoom, Refuse, CheckBegin, CountLoaded, CountReserved, memoryVars
<1> QED BY <1>1, <1>2, <1>3

LEMMA LoadShapeStep ==
  ASSUME AdmissionTypeOK, LoadShape, [Next]_vars
  PROVE  LoadShape'
<1>0. PlacesTyped /\ MemoryTyped
  BY TypeParts
<1>1. CASE UNCHANGED vars
  BY <1>1 DEF vars, memoryVars, settingsVars, threadVars, LoadShape, Claim
<1>2. CASE (\E m \in Model : Observe(m)) \/ ChangeSettings
  <2>1. UNCHANGED threadVars
    BY <1>0, <1>2, OutsideStep
  <2>2. \A m \in Model : m \notin overtaken' /\ (m \notin overtaken => state[m] = "loading") =>
          m \notin overtaken /\ state'[m] = "loading"
    <3>1. CASE ChangeSettings
      BY <3>1 DEF ChangeSettings
    <3>2. CASE \E m \in Model : Observe(m)
      <4>1. PICK m \in Model : Observe(m)
        BY <3>2
      <4>2. overtaken' = overtaken \cup {n \in {m} : state[n] = "loading"} /\ \E s : SetState(m, s)
        BY <4>1 DEF Observe
      <4> QED BY <1>0, <4>2 DEF SetState, MemoryTyped
    <3> QED BY <1>2, <3>1, <3>2
  <2>3. \A t \in Thread : pc[t] = "load" /\ job[t] \notin overtaken' => state'[job[t]] = "loading"
    BY <1>0, <2>2 DEF LoadShape, PlacesTyped
  <2> QED BY <2>1, <2>3 DEF LoadShape, Claim, threadVars
<1>3. ASSUME NEW t \in Thread, ThreadStep(t)
      PROVE  LoadShape'
  <2>1. \A u \in Thread \ {t} : pc'[u] = pc[u] /\ job'[u] = job[u] /\ todo'[u] = todo[u] /\ victim'[u] = victim[u]
    BY <1>0, <1>3, PlacesStep
  <2>2. /\ todo'[t] \subseteq Claim(t)'
        /\ pc'[t] \notin Working => todo'[t] = {}
        /\ pc'[t] = "unload" => victim'[t] \in Claim(t)'
        /\ pc'[t] = "load" => Reserve(t)
        /\ pc'[t] \in Working => job'[t] = job[t] /\ (pc[t] \in Working \/ EnterTransition(t))
    BY <1>0, <1>3, OwnClaim
  <2>3. \A u \in Thread \ {t} : Claim(u)' = Claim(u)
    BY <2>1 DEF Claim
  <2>4. ASSUME NEW u \in Thread \ {t}, pc'[t] \in Working, pc'[u] \in Working
        PROVE  job'[u] \notin Claim(t)' /\ job'[t] \notin Claim(u)'
    <3>1. job[u] \notin Claim(t)
      <4>1. CASE pc[t] \in Working
        BY <2>1, <2>4, <4>1 DEF LoadShape
      <4>2. CASE EnterTransition(t)
        BY <2>1, <2>4, <4>2 DEF EnterTransition, Claim
      <4> QED BY <2>2, <2>4, <4>1, <4>2
    <3>2. job[t] \notin Claim(u)
      <4>1. job[t] \in Model /\ job[u] \in Model
        BY <1>0 DEF PlacesTyped
      <4> QED BY <3>1, <4>1, AdmissionAssumption DEF Claim
    <3> QED BY <2>1, <2>2, <2>3, <2>4, <3>1, <3>2 DEF Claim
  <2>5. ASSUME NEW u \in Thread, pc'[u] = "load", job'[u] \notin overtaken'
        PROVE  state'[job'[u]] = "loading"
    <3>1. CASE u = t
      <4>1. Reserve(t) /\ job[t] \in Model
        BY <1>0, <2>2, <2>5, <3>1 DEF PlacesTyped
      <4> QED BY <1>0, <3>1, <4>1 DEF Reserve, MemoryTyped
    <3>2. CASE u # t
      <4>1. pc[u] = "load" /\ job'[u] = job[u] /\ job[u] \in Model
        BY <1>0, <2>1, <2>5, <3>2 DEF PlacesTyped
      <4>2. pc[t] \in Working => job[u] \notin Claim(t)
        BY <3>2, <4>1 DEF LoadShape, Working
      <4>3. state'[job[u]] = state[job[u]] /\ (job[u] \in overtaken' <=> job[u] \in overtaken)
        BY <1>0, <1>3, <4>1, <4>2, ClaimedOnly
      <4> QED BY <2>5, <4>1, <4>3 DEF LoadShape
    <3> QED BY <3>1, <3>2
  <2>6. \A u \in Thread :
          /\ todo'[u] \subseteq Claim(u)'
          /\ pc'[u] \notin Working => todo'[u] = {}
          /\ pc'[u] = "unload" => victim'[u] \in Claim(u)'
    BY <2>1, <2>2, <2>3 DEF LoadShape
  <2>7. \A v \in Thread : \A u \in Thread \ {v} :
          pc'[v] \in Working /\ pc'[u] \in Working => job'[u] \notin Claim(v)'
    <3> SUFFICES ASSUME NEW v \in Thread, NEW u \in Thread \ {v}, pc'[v] \in Working, pc'[u] \in Working
                 PROVE  job'[u] \notin Claim(v)'
      OBVIOUS
    <3>1. CASE v # t /\ u # t
      BY <2>1, <2>3, <3>1 DEF LoadShape
    <3>2. CASE v = t
      BY <2>4, <3>2
    <3>3. CASE u = t
      BY <2>4, <3>3
    <3> QED BY <3>1, <3>2, <3>3
  <2> QED BY <2>5, <2>6, <2>7 DEF LoadShape
<1> QED BY <1>1, <1>2, <1>3 DEF Next

-----------------------------------------------------------------------------
(* What has been added up stays enough. *)

(* A sum over fewer models, of the same values or none, is no larger. *)
LEMMA LessAdded ==
  ASSUME NEW f \in [Model -> Sizes \cup {None}], NEW g \in [Model -> Sizes \cup {None}], NEW S, NEW R,
         \A m \in Model : m \in S => m \in R /\ f[m] \in {g[m], None}
  PROVE  \A n \in 0 .. N : Sums(f, S)[n] \in Nat /\ Sums(g, R)[n] \in Nat /\ Sums(f, S)[n] <= Sums(g, R)[n]
<1>1. ASSUME NEW n \in 1 .. N
      PROVE  Adds(f, S, n) \in Nat /\ Adds(g, R, n) \in Nat /\ Adds(f, S, n) <= Adds(g, R, n)
  <2>1. Order[n] \in Model /\ Sizes \subseteq Nat \cup {None}
    BY OrderTyped, AdmissionAssumption
  <2>2. f[Order[n]] \in Nat \cup {None} /\ g[Order[n]] \in Nat \cup {None}
    BY <2>1
  <2>3. Order[n] \in S => Order[n] \in R /\ f[Order[n]] \in {g[Order[n]], None}
    BY <2>1
  <2> QED BY <2>2, <2>3 DEF Adds, Gigabytes
<1> QED BY <1>1, SumsMonotone

(* Sums of what is there: naturals, by their equation. *)
LEMMA SumsTyped ==
  ASSUME NEW f \in [Model -> Sizes \cup {None}], NEW S
  PROVE  /\ \A n \in 0 .. N : Sums(f, S)[n] \in Nat
         /\ Sums(f, S)[0] = 0
         /\ \A n \in 1 .. N : Sums(f, S)[n] = Sums(f, S)[n - 1] + Adds(f, S, n) /\ Adds(f, S, n) \in Nat
<1>1. ASSUME NEW n \in 1 .. N
      PROVE  Adds(f, S, n) \in Nat
  <2>1. Order[n] \in Model /\ Sizes \subseteq Nat \cup {None}
    BY OrderTyped, AdmissionAssumption
  <2>2. f[Order[n]] \in Nat \cup {None}
    BY <2>1
  <2> QED BY <2>2 DEF Adds, Gigabytes
<1> QED BY <1>1, SumsByStep

(* A step that leaves the check and its thread alone, and takes away from what
   is steady and what is loading only. *)
LEMMA CountedKept ==
  ASSUME AdmissionTypeOK, AdmissionTypeOK', NEW t \in Thread, Counted(t),
         pc'[t] = pc[t], job'[t] = job[t], sum' = sum,
         \A m \in steady' : m \in steady /\ estimate'[m] = estimate[m],
         \A m \in Model : state'[m] = "loading" => state[m] = "loading" /\ reservation'[m] \in {reservation[m], None}
  PROVE  Counted(t)'
<1> DEFINE m == job[t]
           L == Sums(estimate, Steady(steady, m))
           P == Sums(estimate', Steady(steady', m))
           R == Sums(reservation, LoadingBeside(state, m))
           Q == Sums(reservation', LoadingBeside(state', m))
<1>1. \A n \in 0 .. N : P[n] \in Nat /\ L[n] \in Nat /\ P[n] <= L[n]
  <2>1. estimate \in [Model -> Sizes \cup {None}] /\ estimate' \in [Model -> Sizes \cup {None}]
    BY DEF AdmissionTypeOK
  <2>2. \A n \in Model : n \in Steady(steady', m) => n \in Steady(steady, m) /\ estimate'[n] \in {estimate[n], None}
    BY DEF Steady
  <2> QED BY <2>1, <2>2, LessAdded
<1>2. \A n \in 0 .. N : Q[n] \in Nat /\ R[n] \in Nat /\ Q[n] <= R[n]
  <2>1. reservation \in [Model -> Sizes \cup {None}] /\ reservation' \in [Model -> Sizes \cup {None}]
    BY DEF AdmissionTypeOK
  <2>2. \A n \in Model : n \in LoadingBeside(state', m) =>
          n \in LoadingBeside(state, m) /\ reservation'[n] \in {reservation[n], None}
    BY DEF LoadingBeside
  <2> QED BY <2>1, <2>2, LessAdded
<1>3. sum.at - 1 \in 0 .. N /\ N \in 0 .. N /\ sum.loaded \in Nat /\ sum.reserved \in Nat /\ sum.own \in Nat /\ sum.limit \in Nat
  <2>1. N \in Nat \ {0}
    BY OrderTyped
  <2>2. sum \in SumRecord
    BY TypeParts DEF SumTyped
  <2>3. sum.at \in 1 .. N /\ sum.loaded \in Nat /\ sum.reserved \in Nat /\ sum.own \in Nat /\ sum.limit \in Nat
    BY <2>2, SumFields
  <2> QED BY <2>1, <2>3
<1>4. SteadySums(t) = L /\ LoadingSums(t) = R /\ SteadySums(t)' = P /\ LoadingSums(t)' = Q
  BY DEF SteadySums, LoadingSums
<1> HIDE DEF L, P, R, Q
<1>5. CASE pc[t] = "loaded2"
  BY <1>1, <1>3, <1>4, <1>5 DEF Counted
<1>6. CASE pc[t] = "reserved2"
  BY <1>1, <1>2, <1>3, <1>4, <1>6 DEF Counted
<1>7. CASE pc[t] = "reserve"
  BY <1>1, <1>2, <1>3, <1>4, <1>7 DEF Counted
<1> QED BY <1>5, <1>6, <1>7 DEF Counted

(* A step of another thread, or none of a thread, leaves a check alone. *)
LEMMA CountedElsewhere ==
  ASSUME AdmissionTypeOK, AdmissionTypeOK', CheckShape, NEW t \in Thread, Counted(t),
         NEW u \in Thread \ {t}, ThreadStep(u)
  PROVE  Counted(t)'
<1>0. PlacesTyped /\ MemoryTyped /\ SumTyped /\ LockKept /\ t # None
  BY TypeParts, AdmissionAssumption
<1>1. pc'[t] = pc[t] /\ job'[t] = job[t]
  BY <1>0, PlacesStep
<1>2. CASE pc[t] \notin Checking
  BY <1>1, <1>2 DEF Counted, Checking
<1>3. CASE pc[t] \in Checking
  <2>1. memoryLock = t /\ pc[u] \notin Checking
    BY <1>0, <1>3 DEF LockKept
  <2>2. sum' = sum
    <3>1. \/ UNCHANGED <<sum, memoryLock>> /\ pc[u] \notin Checking /\ pc'[u] \notin Checking
          \/ memoryLock = None /\ memoryLock' = u /\ pc'[u] \in Checking /\ (sum' = sum \/ SumTyped')
          \/ memoryLock = u /\ memoryLock' = u /\ pc'[u] \in Checking /\ SumTyped'
          \/ memoryLock = u /\ memoryLock' = None /\ pc'[u] \notin Checking /\ sum' = NoSum
      BY <1>0, LockStep
    <3> QED BY <1>0, <2>1, <3>1
  <2>3. ~Reserve(u) /\ ~CheckBegin(u)
    BY <1>0, <2>1 DEF Reserve, CheckBegin, Checking
  <2>4. /\ \A m \in Model : state'[m] = "loading" => state[m] = "loading" /\ reservation'[m] \in {reservation[m], None}
        /\ steady' \subseteq steady /\ estimate' = estimate
    BY <1>0, <2>3, MemoryStep DEF settingsVars
  <2> QED BY <1>1, <2>2, <2>4, CountedKept
<1> QED BY <1>2, <1>3

(* A thread's own check counts right. *)
LEMMA BeginCounts ==
  ASSUME AdmissionTypeOK, AdmissionTypeOK', CheckShape, NEW t \in Thread, CheckBegin(t)
  PROVE  Counted(t)'
<1>1. pc \in [Thread -> Place] /\ sum = NoSum /\ estimate' \in [Model -> Sizes \cup {None}]
  BY TypeParts DEF PlacesTyped, CheckShape, CheckBegin, AdmissionTypeOK
<1>2. CASE limit = None \/ state[job[t]] = "ready"
  <2>1. sum' = sum /\ pc'[t] \in {"second", "evict", "reserve"}
    BY <1>1, <1>2 DEF CheckBegin, Passed, Goto
  <2> QED BY <1>1, <2>1 DEF Counted
<1>3. CASE limit # None /\ state[job[t]] # "ready" /\ estimate[job[t]] = None
  <2>1. pc'[t] = "idle"
    BY <1>1, <1>3 DEF CheckBegin, End, Goto
  <2> QED BY <2>1 DEF Counted
<1>4. CASE limit # None /\ state[job[t]] # "ready" /\ estimate[job[t]] # None
  <2>1. sum' = [NoSum EXCEPT !.own = estimate[job[t]], !.limit = limit] /\ pc'[t] \in {"loaded1", "loaded2"}
    BY <1>1, <1>4 DEF CheckBegin, Goto
  <2>2. limit \in Nat /\ estimate[job[t]] \in Nat
    <3>1. job[t] \in Model /\ limit \in Limits
      BY DEF AdmissionTypeOK
    <3>2. Limits \subseteq Nat \cup {None} /\ Sizes \subseteq Nat \cup {None}
      BY AdmissionAssumption
    <3>3. estimate[job[t]] \in Sizes
      BY <3>1 DEF AdmissionTypeOK
    <3> QED BY <1>4, <3>1, <3>2, <3>3
  <2>3. sum'.at = 1 /\ sum'.loaded = 0
    <3>1. LET e == [NoSum EXCEPT !.own = estimate[job[t]], !.limit = limit] IN e.at = 1 /\ e.loaded = 0
      BY <2>2, OrderTyped, SumBegun
    <3> QED BY <2>1, <3>1
  <2>4. SteadySums(t)'[0] = 0
    BY <1>1, SumsTyped DEF SteadySums
  <2> QED BY <2>1, <2>3, <2>4 DEF Counted
<1> QED BY <1>2, <1>3, <1>4

(* The first loop: a model that is steady is ready, so that it is added. *)
LEMMA LoadedCounts ==
  ASSUME AdmissionTypeOK, AdmissionTypeOK', CheckShape, NEW t \in Thread, Counted(t), CountLoaded(t)
  PROVE  Counted(t)'
<1> DEFINE m == job[t]
           o == Order[sum.at]
           counts == o \in Own \ Excluded(t) /\ state[o] = "ready"
           loaded == sum.loaded + (IF counts THEN estimate[o] ELSE 0)
           S == Steady(steady, m)
<1>1. /\ pc \in [Thread -> Place] /\ estimate \in [Model -> Sizes \cup {None}]
      /\ reservation \in [Model -> Sizes \cup {None}]
      /\ sum \in SumRecord /\ sum.at \in 1 .. N /\ sum.loaded \in Nat /\ sum.reserved \in Nat
  <2>1. sum \in SumRecord
    BY TypeParts DEF SumTyped
  <2> QED BY <2>1, TypeParts, SumFields DEF PlacesTyped, AdmissionTypeOK
<1>2. CASE pc'[t] \notin {"loaded2", "reserved2", "reserve"}
  BY <1>2 DEF Counted
<1>3. CASE pc'[t] \in {"loaded2", "reserved2", "reserve"}
  <2>1. /\ pc[t] = "loaded2" /\ ~(counts /\ estimate[o] = None)
        /\ UNCHANGED <<job, todo, steady, state, estimate, reservation>>
        /\ IF sum.at < N THEN sum' = WithLoaded(sum, sum.at + 1, loaded) /\ pc' = pc
                          ELSE sum' = WithLoaded(sum, 1, loaded) /\ pc'[t] = "reserved2"
    BY <1>1, <1>3 DEF CountLoaded, NotAdmitted, End, Goto, settingsVars, N, WithLoaded
  <2>2. o \in Model /\ estimate[o] \in Nat \cup {None} /\ N \in Nat \ {0}
    BY <1>1, OrderTyped, AdmissionAssumption
  <2>3. loaded \in Nat /\ (counts => loaded = sum.loaded + Gigabytes(estimate[o])) /\ loaded >= sum.loaded
    <3> HIDE DEF o
    <3> QED BY <1>1, <2>1, <2>2 DEF Gigabytes
  <2>4. o \in S => counts
    BY <2>1 DEF CheckShape, Steady, Excluded
  <2>5. sum.loaded >= Sums(estimate, S)[sum.at - 1]
    BY <2>1 DEF Counted, SteadySums
  <2>6. loaded >= Sums(estimate, S)[sum.at]
    <3>1. /\ Sums(estimate, S)[sum.at] = Sums(estimate, S)[sum.at - 1] + Adds(estimate, S, sum.at)
          /\ Sums(estimate, S)[sum.at - 1] \in Nat /\ Adds(estimate, S, sum.at) \in Nat
      <4>1. sum.at - 1 \in 0 .. N
        BY <1>1, <2>2
      <4> QED BY <1>1, <4>1, SumsTyped
    <3>2. Adds(estimate, S, sum.at) = IF o \in S THEN Gigabytes(estimate[o]) ELSE 0
      BY DEF Adds
    <3> HIDE DEF loaded, counts, o, S
    <3> QED BY <1>1, <2>3, <2>4, <2>5, <3>1, <3>2
  <2>7. SteadySums(t)' = Sums(estimate, S) /\ LoadingSums(t)' = LoadingSums(t)
    BY <2>1 DEF SteadySums, LoadingSums
  <2> HIDE DEF loaded, counts, o, S, m
  <2>8. CASE sum.at < N
    <3>1. sum.at + 1 \in 1 .. N /\ sum.at + 1 - 1 = sum.at
      BY <1>1, <2>2, <2>8
    <3>2. sum'.at = sum.at + 1 /\ sum'.loaded = loaded /\ pc'[t] = "loaded2"
      <4>1. sum' = WithLoaded(sum, sum.at + 1, loaded) /\ pc'[t] = "loaded2"
        BY <2>1, <2>8
      <4> QED BY <1>1, <2>3, <3>1, <4>1, SumUpdated
    <3>3. sum'.at - 1 = sum.at
      BY <1>1, <2>2, <3>1, <3>2
    <3>4. sum'.loaded >= SteadySums(t)'[sum'.at - 1]
      BY <2>6, <2>7, <3>2, <3>3
    <3> QED BY <3>2, <3>4 DEF Counted
  <2>9. CASE ~(sum.at < N)
    <3>1. 1 \in 1 .. N /\ 1 - 1 = 0 /\ sum.at = N
      BY <1>1, <2>2, <2>9
    <3>2. sum'.at = 1 /\ sum'.loaded = loaded /\ sum'.reserved = sum.reserved /\ pc'[t] = "reserved2"
      <4>1. sum' = WithLoaded(sum, 1, loaded) /\ pc'[t] = "reserved2"
        BY <2>1, <2>9
      <4> QED BY <1>1, <2>3, <3>1, <4>1, SumUpdated
    <3>3. LoadingSums(t)[0] = 0
      BY <1>1, SumsTyped DEF LoadingSums
    <3> QED BY <1>1, <2>6, <2>7, <3>1, <3>2, <3>3 DEF Counted
  <2> QED BY <2>8, <2>9
<1> QED BY <1>2, <1>3

(* What the external adapters add is not negative. *)
LEMMA ExternalTyped ==
  ASSUME MemoryTyped, NEW external, NEW outside \in SUBSET Model, \A m \in outside : external[m] \in External(m)
  PROVE  Total(external, outside) \in Nat
<1>1. ASSUME NEW m \in outside
      PROVE  external[m] \in Nat \cup {None}
  <2>1. estimate[m] \in Nat \cup {None} /\ Resident \subseteq Nat
    BY AdmissionAssumption DEF MemoryTyped
  <2>2. \A o \in Resident : Max({o, Gigabytes(estimate[m])}) \in {o, Gigabytes(estimate[m])}
    <3> TAKE o \in Resident
    <3> DEFINE e == Gigabytes(estimate[m])
    <3>1. o \in Nat /\ e \in Nat
      BY <2>1 DEF Gigabytes
    <3> HIDE DEF e
    <3>2. \E x \in {o, e} : \A y \in {o, e} : x >= y
      <4>1. CASE o >= e
        BY <3>1, <4>1
      <4>2. CASE e >= o
        BY <3>1, <4>2
      <4> QED BY <3>1, <4>1, <4>2
    <3>3. Max({o, e}) \in {o, e}
      BY <3>2 DEF Max
    <3> QED BY <3>3 DEF e
  <2>3. Gigabytes(estimate[m]) \in Nat
    BY <2>1 DEF Gigabytes
  <2>4. external[m] \in {0} \cup (IF estimate[m] = None THEN {} ELSE {estimate[m]})
                          \cup {Max({o, Gigabytes(estimate[m])}) : o \in Resident}
    BY DEF External
  <2>5. \/ external[m] = 0
        \/ external[m] = estimate[m]
        \/ \E o \in Resident : external[m] = Max({o, Gigabytes(estimate[m])})
    BY <2>4
  <2>6. CASE \E o \in Resident : external[m] = Max({o, Gigabytes(estimate[m])})
    <3>1. PICK o \in Resident : external[m] = Max({o, Gigabytes(estimate[m])})
      BY <2>6
    <3>2. external[m] \in {o, Gigabytes(estimate[m])}
      BY <2>2, <3>1
    <3> QED BY <2>1, <2>3, <3>2
  <2> QED BY <2>1, <2>5, <2>6
<1>2. ASSUME NEW n \in 1 .. N
      PROVE  Adds(external, outside, n) \in Nat
  BY <1>1 DEF Adds, Gigabytes
<1>3. N \in 0 .. N
  BY OrderTyped
<1> QED BY <1>2, <1>3, SumsByStep DEF Total, N

(* The second loop, and the comparison: a model that is still loading is added
   with its reservation. *)
LEMMA ReservedCounts ==
  ASSUME AdmissionTypeOK, AdmissionTypeOK', CheckShape, NEW t \in Thread, Counted(t), CountReserved(t)
  PROVE  Counted(t)'
<1> DEFINE m == job[t]
           o == Order[sum.at]
           outside == Outside \ Excluded(t)
           reserved == sum.reserved + Reserved(t, o)
           L == LoadingBeside(state, m)
           Fits(external) == /\ \A n \in outside : external[n] \in External(n)
                             /\ ~(sum.loaded + reserved + Total(external, outside) + sum.own > sum.limit)
<1>1. /\ pc \in [Thread -> Place] /\ estimate \in [Model -> Sizes \cup {None}] /\ MemoryTyped
      /\ reservation \in [Model -> Sizes \cup {None}]
  BY TypeParts DEF PlacesTyped, AdmissionTypeOK
<1>2. /\ sum \in SumRecord /\ sum.at \in 1 .. N /\ sum.loaded \in Nat /\ sum.reserved \in Nat
      /\ sum.own \in Nat /\ sum.limit \in Nat
  <2>1. sum \in SumRecord
    BY TypeParts DEF SumTyped
  <2> QED BY <2>1, SumFields
<1>3. CASE pc'[t] \notin {"loaded2", "reserved2", "reserve"}
  BY <1>3 DEF Counted
<1>4. CASE pc'[t] \in {"loaded2", "reserved2", "reserve"}
  <2>1. /\ pc[t] = "reserved2"
        /\ UNCHANGED <<job, todo, steady, state, estimate, reservation>>
        /\ sum.at < N => sum' = WithReserved(sum, sum.at + 1, reserved) /\ pc' = pc
        /\ ~(sum.at < N) =>
             /\ pc'[t] = "reserve" /\ sum' = WithAll(sum, reserved)
             /\ \E external : Fits(external)
    BY <1>1, <1>4 DEF CountReserved, NotAdmitted, Passed, End, Goto, settingsVars, threadVars, N, WithReserved, WithAll
  <2>2. o \in Model /\ reservation[o] \in Nat \cup {None} /\ N \in Nat \ {0}
    BY <1>1, <1>2, OrderTyped, AdmissionAssumption
  <2>3. Reserved(t, o) \in Nat /\ (o \in L => Reserved(t, o) = Gigabytes(reservation[o]))
    <3>1. o \in L => o \in Own \ Excluded(t) /\ state[o] = "loading"
      BY <2>1 DEF CheckShape, LoadingBeside, Excluded
    <3> HIDE DEF o, L
    <3> QED BY <2>2, <3>1 DEF Reserved, Gigabytes
  <2>4. sum.loaded >= SteadySums(t)[N] /\ sum.reserved >= Sums(reservation, L)[sum.at - 1]
    BY <2>1 DEF Counted, LoadingSums
  <2>5. reserved \in Nat /\ reserved >= Sums(reservation, L)[sum.at] /\ Sums(reservation, L)[sum.at] \in Nat
    <3>1. /\ Sums(reservation, L)[sum.at] = Sums(reservation, L)[sum.at - 1] + Adds(reservation, L, sum.at)
          /\ Sums(reservation, L)[sum.at - 1] \in Nat /\ Adds(reservation, L, sum.at) \in Nat
      <4>1. sum.at - 1 \in 0 .. N
        BY <1>2, <2>2
      <4> QED BY <1>1, <1>2, <4>1, SumsTyped
    <3>2. Adds(reservation, L, sum.at) = IF o \in L THEN Gigabytes(reservation[o]) ELSE 0
      BY DEF Adds
    <3> HIDE DEF o, L
    <3> QED BY <1>2, <2>3, <2>4, <3>1, <3>2
  <2>6. SteadySums(t)' = SteadySums(t) /\ LoadingSums(t)' = Sums(reservation, L)
    BY <2>1 DEF SteadySums, LoadingSums
  <2> HIDE DEF m, o, outside, reserved, L, Fits
  <2>7. CASE sum.at < N
    <3>1. sum.at + 1 \in 1 .. N /\ sum.at + 1 - 1 = sum.at
      BY <1>2, <2>2, <2>7
    <3>2. sum'.at = sum.at + 1 /\ sum'.loaded = sum.loaded /\ sum'.reserved = reserved /\ pc'[t] = "reserved2"
      <4>1. sum' = WithReserved(sum, sum.at + 1, reserved) /\ pc'[t] = "reserved2"
        BY <2>1, <2>7
      <4> QED BY <1>2, <2>5, <3>1, <4>1, SumUpdated
    <3>3. sum'.at - 1 = sum.at
      BY <1>2, <2>2, <3>1, <3>2
    <3>4. sum'.loaded >= SteadySums(t)'[N] /\ sum'.reserved >= LoadingSums(t)'[sum'.at - 1]
      BY <2>4, <2>5, <2>6, <3>2, <3>3
    <3> QED BY <3>2, <3>4 DEF Counted
  <2>8. CASE ~(sum.at < N)
    <3>1. sum.at = N
      BY <1>2, <2>2, <2>8
    <3>2. sum' = WithAll(sum, reserved) /\ pc'[t] = "reserve"
      BY <2>1, <2>8
    <3>3. sum'.own = sum.own /\ sum'.limit = sum.limit
      BY <1>2, <2>5, <3>2, SumUpdated
    <3>4. PICK external : Fits(external)
      BY <2>1, <2>8
    <3>5. Total(external, outside) \in Nat
      <4>1. outside \in SUBSET Model
        BY AdmissionAssumption DEF outside
      <4> QED BY <1>1, <3>4, <4>1, ExternalTyped DEF Fits
    <3>6. SteadySums(t)[N] \in Nat
      <4>1. N \in 0 .. N
        BY <2>2
      <4> QED BY <1>1, <4>1, SumsTyped DEF SteadySums
    <3>7. sum.own + SteadySums(t)[N] + Sums(reservation, L)[N] <= sum.limit
      BY <1>2, <2>4, <2>5, <3>1, <3>4, <3>5, <3>6 DEF Fits
    <3> QED BY <2>6, <3>2, <3>3, <3>7 DEF Counted
  <2> QED BY <2>7, <2>8
<1> QED BY <1>3, <1>4

-----------------------------------------------------------------------------
(* The invariant is inductive. *)

LEMMA FitInitially == AdmissionInit => FitInv
<1> SUFFICES ASSUME AdmissionInit PROVE FitInv
  OBVIOUS
<1>1. \A t \in Thread : pc[t] = "idle"
  BY DEF AdmissionInit
<1>2. CheckShape
  BY <1>1 DEF AdmissionInit, CheckShape
<1>3. \A t \in Thread : Counted(t)
  BY <1>1 DEF Counted
<1>4. LoadShape
  BY <1>1 DEF AdmissionInit, LoadShape, Working, Checking
<1> QED BY <1>2, <1>3, <1>4, TypedInitially DEF FitInv

LEMMA FitStep == FitInv /\ [Next]_vars => FitInv'
<1> SUFFICES ASSUME FitInv, [Next]_vars PROVE FitInv'
  OBVIOUS
<1>1. AdmissionTypeOK /\ CheckShape /\ \A t \in Thread : Counted(t)
  BY DEF FitInv
<1>2. AdmissionTypeOK' /\ CheckShape'
  BY <1>1, ShapeStep
<1>4. LoadShape'
  BY LoadShapeStep DEF FitInv
<1>3. ASSUME NEW t \in Thread
      PROVE  Counted(t)'
  <2>1. CASE UNCHANGED vars
    BY <1>1, <1>2, <2>1, CountedKept DEF vars, memoryVars, settingsVars, threadVars
  <2>2. CASE (\E m \in Model : Observe(m)) \/ ChangeSettings
    <3>1. /\ UNCHANGED <<sum, threadVars>> /\ \A m \in steady' : m \in steady /\ estimate'[m] = estimate[m]
          /\ \A m \in Model : state'[m] = "loading" => state[m] = "loading" /\ reservation'[m] \in {reservation[m], None}
      BY <1>1, <2>2, TypeParts, OutsideStep
    <3> QED BY <1>1, <1>2, <3>1, CountedKept DEF threadVars
  <2>3. ASSUME NEW u \in Thread \ {t}, ThreadStep(u)
        PROVE  Counted(t)'
    BY <1>1, <1>2, <2>3, CountedElsewhere
  <2>4. CASE ThreadStep(t)
    <3>1. CASE CheckBegin(t)
      BY <1>1, <1>2, <3>1, BeginCounts
    <3>2. CASE CountLoaded(t)
      BY <1>1, <1>2, <3>2, LoadedCounts
    <3>3. CASE CountReserved(t)
      BY <1>1, <1>2, <3>3, ReservedCounts
    <3>4. ASSUME ~CheckBegin(t), ~CountLoaded(t), ~CountReserved(t)
          PROVE  pc'[t] \notin {"loaded2", "reserved2", "reserve"}
      <4>1. pc \in [Thread -> Place]
        BY <1>1, TypeParts DEF PlacesTyped
      <4>2. Begin(t) \/ EnterTransition(t) \/ MakeRoom(t) \/ Refuse(t) \/ Reserve(t) \/ Load(t) \/ Evict(t) \/ Unload(t)
        BY <2>4, <3>4 DEF ThreadStep
      <4> QED BY <4>1, <4>2 DEF Begin, EnterTransition, MakeRoom, Refuse, Reserve, Load, Evict, Unload, Goto, End
    <3> QED BY <3>1, <3>2, <3>3, <3>4 DEF Counted
  <2> QED BY <2>1, <2>2, <2>3, <2>4 DEF Next
<1> QED BY <1>2, <1>3, <1>4 DEF FitInv

(* Types, and what has been added up, in every reachable state: what passed the
   comparison of _check_memory still fits when the load is announced, whatever
   other threads, probes and settings did meanwhile. *)
THEOREM AdmissionAlwaysCounted == AdmissionSpec => []FitInv
BY FitInitially, FitStep, PTL DEF AdmissionSpec

(* The type invariant. *)
THEOREM AdmissionAlwaysTyped == AdmissionSpec => []AdmissionTypeOK
<1>1. FitInv => AdmissionTypeOK
  BY DEF FitInv
<1> QED BY <1>1, AdmissionAlwaysCounted, PTL

(* A step that announces a load is Reserve. *)
LEMMA AnnouncedFits ==
  ASSUME FitInv, [Next]_vars, NEW m \in Model, state[m] # "loading", state'[m] = "loading", sum # NoSum
  PROVE  sum.own + Total(estimate, (steady \cap Own) \ {m})
           + Total(reservation, {n \in Own \ {m} : Loading(n)}) <= sum.limit
<1>1. AdmissionTypeOK /\ PlacesTyped /\ MemoryTyped /\ SumTyped
  BY TypeParts DEF FitInv
<1>2. PICK t \in Thread : Reserve(t)
  <2>1. ~ UNCHANGED vars
    BY DEF vars, memoryVars
  <2>2. ~((\E o \in Model : Observe(o)) \/ ChangeSettings)
    BY <1>1, OutsideStep
  <2>3. PICK t \in Thread : ThreadStep(t)
    BY <2>1, <2>2 DEF Next
  <2>4. Reserve(t)
    BY <1>1, <2>3, MemoryStep
  <2> QED BY <2>4
<1>3. m = job[t] /\ pc[t] = "reserve"
  BY <1>1, <1>2 DEF Reserve, MemoryTyped
<1>4. sum.own + SteadySums(t)[N] + LoadingSums(t)[N] <= sum.limit
  BY <1>3 DEF FitInv, Counted
<1> DEFINE S == {n \in Own \ {m} : Loading(n)}
           R == LoadingBeside(state, m)
<1>5. Total(estimate, (steady \cap Own) \ {m}) = SteadySums(t)[N] /\ LoadingSums(t)[N] = Sums(reservation, R)[N]
      /\ Total(reservation, S) = Sums(reservation, S)[N]
  BY <1>3 DEF SteadySums, LoadingSums, Steady, Total, N
<1>6. \A n \in Model : n \in S => n \in R
  BY DEF FitInv, LoadShape, Loading, LoadingBeside
<1> HIDE DEF S, R
<1>7. N \in 0 .. N /\ reservation \in [Model -> Sizes \cup {None}] /\ estimate \in [Model -> Sizes \cup {None}]
  BY <1>1, OrderTyped DEF MemoryTyped
<1>8. Sums(reservation, S)[N] \in Nat /\ Sums(reservation, R)[N] \in Nat
      /\ Sums(reservation, S)[N] <= Sums(reservation, R)[N]
  BY <1>6, <1>7, LessAdded
<1>9. SteadySums(t)[N] \in Nat /\ sum.own \in Nat /\ sum.limit \in Nat
  BY <1>1, <1>7, SumsTyped, SumFields DEF SteadySums, SumTyped
<1>10. sum.own + SteadySums(t)[N] + Sums(reservation, S)[N] <= sum.limit
  BY <1>4, <1>5, <1>8, <1>9
<1> QED BY <1>5, <1>10 DEF S

(* Nobody else's admission, load or change of the settings comes between the
   sum of _check_memory and the reservation, and nobody takes a reservation
   away during its load: an announced load fits the limit it was checked
   against, with what has been ready all the time and with every load in
   progress but those that a late probe has turned to "unknown". *)
THEOREM AdmittedAlwaysFit == AdmissionSpec => AdmittedLoadsFit
<1> DEFINE Fit == \A m \in Model :
                    state[m] # "loading" /\ state'[m] = "loading" /\ sum # NoSum =>
                      sum.own + Total(estimate, (steady \cap Own) \ {m})
                        + Total(reservation, {n \in Own \ {m} : Loading(n)}) <= sum.limit
<1>1. FitInv /\ [Next]_vars => [Fit]_vars
  <2> SUFFICES ASSUME FitInv, [Next]_vars PROVE Fit
    OBVIOUS
  <2> QED BY AnnouncedFits
<1>2. AdmittedLoadsFit <=> [][Fit]_vars
  BY DEF AdmittedLoadsFit
<1> HIDE DEF Fit
<1> QED BY <1>1, <1>2, AdmissionAlwaysCounted, PTL DEF AdmissionSpec
=============================================================================
