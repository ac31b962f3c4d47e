----------------------- MODULE TransitionLocksProofs -----------------------
(***************************************************************************)
(* Proofs about the transition locks, for every number of threads, every   *)
(* lock table and every capacity.                                          *)
(***************************************************************************)
EXTENDS TransitionLocks, FiniteSetTheorems, WellFoundedInduction, TLAPS

(* What each phase says about the locks of a thread; the third conjunct is
   the sorted order: a thread waits only for keys above all it holds. *)
LockShape ==
  \A t \in Thread :
    /\ phase[t] \in {"out", "listing"} => held[t] = {}
    /\ phase[t] = "acquiring" =>
         /\ held[t] \subseteq want[t]
         /\ \A j \in held[t], k \in want[t] \ held[t] : Rank[j] < Rank[k]

LockInv ==
  /\ LockTypeOK
  /\ LockShape
  /\ OneTable
  /\ ActiveCounts
  /\ SlotsRespected

-----------------------------------------------------------------------------
(* Lemmas on cardinalities and on the key order. *)

LEMMA HoldersFinite ==
  ASSUME NEW k
  PROVE  IsFiniteSet(Holders(k)) /\ Cardinality(Holders(k)) \in Nat
<1>1. Holders(k) \subseteq Thread
  BY DEF Holders
<1>2. IsFiniteSet(Holders(k))
  BY <1>1, ThreadAssumption, FS_Subset
<1> QED
  BY <1>2, FS_CardinalityType

(* A non-empty set of naturals that has an upper bound has a greatest
   element: the least of the distances to the bound gives it. *)
LEMMA GreatestElement ==
  ASSUME NEW n \in Nat, NEW S, S \subseteq 0 .. n, S # {}
  PROVE  \E x \in S : \A y \in S : y <= x
<1> DEFINE T == {n - x : x \in S}
<1>1. T \subseteq Nat /\ T # {}
  <2>1. PICK x \in S : TRUE
    OBVIOUS
  <2>2. n - x \in T
    BY <2>1
  <2>3. \A y \in S : n - y \in Nat
    BY SMT
  <2> QED
    BY <2>2, <2>3
<1>2. \E d \in T : \A e \in T : ~ (<<e, d>> \in OpToRel(<, Nat))
  BY <1>1, NatLessThanWellFounded, WFMin
<1>3. PICK d \in T : \A e \in T : ~ (e < d)
  BY <1>1, <1>2 DEF OpToRel
<1>4. PICK x \in S : d = n - x
  BY <1>3
<1>5. \A y \in S : y <= x
  <2> SUFFICES ASSUME NEW y \in S PROVE y <= x
    OBVIOUS
  <2>2. n - y \in T
    OBVIOUS
  <2>3. ~ (n - y < n - x)
    BY <1>3, <1>4, <2>2
  <2>4. x \in Nat /\ y \in Nat
    OBVIOUS
  <2> QED
    BY <2>3, <2>4
<1> QED
  BY <1>5

LEMMA GreatestRank ==
  ASSUME NEW S, S \subseteq Key, S # {}
  PROVE  \E k \in S : \A j \in S : Rank[j] <= Rank[k]
<1> DEFINE R == {Rank[k] : k \in S}
<1>1. Cardinality(Key) \in Nat
  BY KeyAssumption, FS_CardinalityType
<1>2. R \subseteq 0 .. Cardinality(Key) /\ R # {}
  BY RankAssumption
<1> HIDE DEF R
<1>3. PICK x \in R : \A y \in R : y <= x
  BY <1>1, <1>2, GreatestElement
<1> QED
  BY <1>3 DEF R

-----------------------------------------------------------------------------
(* The inductive invariant, one lemma per action. *)

LEMMA LockInitInv == LockInit => LockInv
<1> SUFFICES ASSUME LockInit PROVE LockInv
  OBVIOUS
<1>1. LockTypeOK /\ LockShape /\ OneTable
  BY DEF LockInit, LockTypeOK, LockShape, OneTable, Phase
<1>2. ActiveCounts
  <2>1. {t \in Thread : phase[t] # "out"} = {}
    BY DEF LockInit
  <2> QED
    BY <2>1, FS_EmptySet DEF ActiveCounts, LockInit
<1>3. SlotsRespected
  <2>1. \A k \in Key : Holders(k) = {}
    BY DEF LockInit, Holders
  <2> QED
    BY <2>1, FS_EmptySet, SlotsAssumption DEF SlotsRespected
<1> QED
  BY <1>1, <1>2, <1>3 DEF LockInv

(* An action that takes no lock keeps every key within its slots. *)
LEMMA FewerHolders ==
  ASSUME SlotsRespected, \A k \in Key : Holders(k)' \subseteq Holders(k)
  PROVE  SlotsRespected'
<1> SUFFICES ASSUME NEW k \in Key PROVE Cardinality(Holders(k)') <= Slots[k]
  BY DEF SlotsRespected
<1>1. Cardinality(Holders(k)') <= Cardinality(Holders(k))
  BY HoldersFinite, FS_Subset
<1>2. Cardinality(Holders(k)') \in Nat
  BY HoldersFinite, FS_Subset, FS_CardinalityType
<1>3. Slots[k] \in Nat /\ Cardinality(Holders(k)) <= Slots[k]
  BY SlotsAssumption DEF SlotsRespected
<1> QED
  BY <1>1, <1>2, <1>3, HoldersFinite

(* An action that keeps the same threads announced keeps the count. *)
LEMMA SameAnnounced ==
  ASSUME ActiveCounts, active' = active,
         \A t \in Thread : phase[t] # "out" <=> phase'[t] # "out"
  PROVE  ActiveCounts'
  BY DEF ActiveCounts

LEMMA AnnounceInv ==
  ASSUME LockInv, NEW t \in Thread, Announce(t)
  PROVE  LockInv'
<1> DEFINE A == {u \in Thread : phase[u] # "out"}
<1>1. LockTypeOK' /\ LockShape' /\ OneTable'
  BY DEF LockInv, Announce, LockTypeOK, LockShape, OneTable, Phase
<1>2. ActiveCounts'
  <2>1. {u \in Thread : phase'[u] # "out"} = A \cup {t}
    BY DEF LockInv, LockTypeOK, Announce
  <2>2. t \notin A /\ IsFiniteSet(A)
    BY ThreadAssumption, FS_Subset DEF Announce
  <2>3. Cardinality(A \cup {t}) = Cardinality(A) + 1
    BY <2>2, FS_AddElement
  <2> QED
    BY <2>1, <2>3 DEF ActiveCounts, LockInv, Announce
<1>3. SlotsRespected'
  BY FewerHolders DEF LockInv, Announce, Holders
<1> QED
  BY <1>1, <1>2, <1>3 DEF LockInv

LEMMA ListLocksInv ==
  ASSUME LockInv, NEW t \in Thread, NEW keys \in SUBSET Key,
         NEW deadline \in BOOLEAN, ListLocks(t, keys, deadline)
  PROVE  LockInv'
<1>1. LockTypeOK' /\ LockShape' /\ OneTable'
  BY DEF LockInv, ListLocks, LockTypeOK, LockShape, OneTable, Phase
<1>2. ActiveCounts'
  BY SameAnnounced DEF LockInv, LockTypeOK, ListLocks
<1>3. SlotsRespected'
  BY FewerHolders DEF LockInv, ListLocks, Holders
<1> QED
  BY <1>1, <1>2, <1>3 DEF LockInv

LEMMA ListingFailsInv ==
  ASSUME LockInv, NEW t \in Thread, ListingFails(t)
  PROVE  LockInv'
<1>1. LockTypeOK' /\ LockShape' /\ OneTable'
  BY DEF LockInv, ListingFails, LockTypeOK, LockShape, OneTable, Phase
<1>2. ActiveCounts'
  BY SameAnnounced DEF LockInv, LockTypeOK, ListingFails
<1>3. SlotsRespected'
  BY FewerHolders DEF LockInv, ListingFails, Holders
<1> QED
  BY <1>1, <1>2, <1>3 DEF LockInv

(* Taking a lock: all holders use the current table, so the slot that is
   free in the thread's table is free among all holders. *)
LEMMA AcquireInv ==
  ASSUME LockInv, NEW t \in Thread, Acquire(t)
  PROVE  LockInv'
<1> USE DEF LockInv
<1>1. PICK k \in want[t] \ held[t] :
        /\ IsNext(t, k)
        /\ Free(k, table[t])
        /\ held' = [held EXCEPT ![t] = held[t] \cup {k}]
        /\ phase' = [phase EXCEPT ![t] =
                       IF held[t] \cup {k} = want[t] THEN "in" ELSE "acquiring"]
  BY DEF Acquire
<1>2. k \in Key /\ phase[t] = "acquiring"
  BY DEF LockTypeOK, Acquire
<1>3. LockTypeOK'
  BY <1>1, <1>2 DEF LockTypeOK, Acquire, Phase
<1>4. LockShape'
  <2> SUFFICES ASSUME NEW u \in Thread
               PROVE  /\ phase'[u] \in {"out", "listing"} => held'[u] = {}
                      /\ phase'[u] = "acquiring" =>
                           /\ held'[u] \subseteq want'[u]
                           /\ \A j \in held'[u], i \in want'[u] \ held'[u] : Rank[j] < Rank[i]
    BY DEF LockShape
  <2>1. CASE u # t
    BY <1>1, <2>1 DEF LockShape, LockTypeOK, Acquire
  <2>2. CASE u = t
    <3>1. held'[t] = held[t] \cup {k} /\ want' = want
      BY <1>1 DEF LockTypeOK, Acquire
    <3>2. phase'[t] \in {"in", "acquiring"}
      BY <1>1 DEF LockTypeOK
    <3>3. held[t] \subseteq want[t]
      BY <1>2 DEF LockShape
    <3>4. ASSUME NEW i \in want[t] \ held'[t] PROVE Rank[k] < Rank[i]
      <4>1. Rank[k] <= Rank[i] /\ k # i /\ i \in Key
        BY <1>1, <3>1 DEF IsNext, LockTypeOK
      <4>2. Rank[k] # Rank[i] /\ Rank[k] \in Nat /\ Rank[i] \in Nat
        BY <1>2, <4>1, RankAssumption, KeyAssumption, FS_CardinalityType
      <4> QED
        BY <4>1, <4>2
    <3>5. \A j \in held[t], i \in want[t] \ held'[t] : Rank[j] < Rank[i]
      BY <1>2, <3>1 DEF LockShape
    <3> QED
      BY <2>2, <3>1, <3>2, <3>3, <3>4, <3>5
  <2> QED
    BY <2>1, <2>2
<1>5. OneTable'
  BY <1>1, <1>2 DEF OneTable, LockTypeOK, Acquire
<1>6. ActiveCounts'
  BY <1>1, <1>2, SameAnnounced DEF LockTypeOK, Acquire
<1>7. SlotsRespected'
  <2> SUFFICES ASSUME NEW j \in Key PROVE Cardinality(Holders(j)') <= Slots[j]
    BY DEF SlotsRespected
  <2>1. CASE j # k
    <3>1. Holders(j)' = Holders(j)
      BY <1>1, <2>1 DEF Holders, LockTypeOK
    <3> QED
      BY <3>1 DEF SlotsRespected
  <2>2. CASE j = k
    <3>1. Holders(k)' = Holders(k) \cup {t}
      BY <1>1 DEF Holders, LockTypeOK
    <3>2. \A u \in Holders(k) : phase[u] \in {"acquiring", "in", "releasing"}
      BY DEF Holders, LockShape, LockTypeOK, Phase
    <3>3. {u \in Holders(k) : table[u] = table[t]} = Holders(k)
      BY <1>2, <3>2 DEF OneTable, Holders
    <3>4. Cardinality(Holders(k)) < Slots[k]
      BY <1>1, <3>3 DEF Free
    <3>5. t \notin Holders(k)
      BY DEF Holders
    <3>6. Cardinality(Holders(k) \cup {t}) = Cardinality(Holders(k)) + 1
      BY <3>5, HoldersFinite, FS_AddElement
    <3>7. Slots[k] \in Nat /\ Cardinality(Holders(k)) \in Nat
      BY <1>2, SlotsAssumption, HoldersFinite
    <3> QED
      BY <2>2, <3>1, <3>4, <3>6, <3>7
  <2> QED
    BY <2>1, <2>2
<1> QED
  BY <1>3, <1>4, <1>5, <1>6, <1>7

(* GiveUp and StartRelease only move the thread to "releasing". *)
LEMMA StopInv ==
  ASSUME LockInv, NEW t \in Thread, GiveUp(t) \/ StartRelease(t)
  PROVE  LockInv'
<1>1. /\ phase[t] \in {"acquiring", "in"}
      /\ phase' = [phase EXCEPT ![t] = "releasing"]
      /\ UNCHANGED <<want, held, hurried, table, current, active>>
  BY DEF GiveUp, StartRelease, Blocked
<1>2. LockTypeOK' /\ LockShape' /\ OneTable'
  BY <1>1 DEF LockInv, LockTypeOK, LockShape, OneTable, Phase
<1>3. ActiveCounts'
  BY <1>1, SameAnnounced DEF LockInv, LockTypeOK
<1>4. SlotsRespected'
  BY <1>1, FewerHolders DEF LockInv, Holders
<1> QED
  BY <1>2, <1>3, <1>4 DEF LockInv

LEMMA ReleaseLastInv ==
  ASSUME LockInv, NEW t \in Thread, ReleaseLast(t)
  PROVE  LockInv'
<1>1. PICK k \in held[t] : held' = [held EXCEPT ![t] = held[t] \ {k}]
  BY DEF ReleaseLast
<1>2. LockTypeOK' /\ LockShape' /\ OneTable'
  BY <1>1 DEF LockInv, ReleaseLast, LockTypeOK, LockShape, OneTable
<1>3. ActiveCounts'
  BY SameAnnounced DEF LockInv, ReleaseLast
<1>4. SlotsRespected'
  BY <1>1, FewerHolders DEF LockInv, LockTypeOK, Holders
<1> QED
  BY <1>2, <1>3, <1>4 DEF LockInv

LEMMA WithdrawInv ==
  ASSUME LockInv, NEW t \in Thread, Withdraw(t)
  PROVE  LockInv'
<1> DEFINE A == {u \in Thread : phase[u] # "out"}
<1>1. Cardinality(A) \in Nat /\ t \in A /\ IsFiniteSet(A)
  BY ThreadAssumption, FS_Subset, FS_CardinalityType DEF Withdraw
<1>2. {u \in Thread : phase'[u] # "out"} = A \ {t}
  BY DEF LockInv, LockTypeOK, Withdraw
<1>3. Cardinality(A \ {t}) = Cardinality(A) - 1 /\ Cardinality(A \ {t}) \in Nat
  BY <1>1, FS_RemoveElement, FS_CardinalityType
<1>4. ActiveCounts'
  BY <1>2, <1>3 DEF ActiveCounts, LockInv, Withdraw
<1>5. active' \in Nat
  BY <1>2, <1>3, <1>4 DEF ActiveCounts
<1>6. LockTypeOK' /\ LockShape' /\ OneTable'
  BY <1>5 DEF LockInv, Withdraw, LockTypeOK, LockShape, OneTable, Phase
<1>7. SlotsRespected'
  BY FewerHolders DEF LockInv, Withdraw, Holders
<1> QED
  BY <1>4, <1>6, <1>7 DEF LockInv

(* A reload finds no announced thread, so nobody uses the old table. *)
LEMMA ReplaceTableInv ==
  ASSUME LockInv, ReplaceTable
  PROVE  LockInv'
<1> DEFINE A == {u \in Thread : phase[u] # "out"}
<1>1. A = {}
  <2>1. Cardinality(A) = 0
    BY DEF LockInv, ActiveCounts, ReplaceTable
  <2>2. IsFiniteSet(A)
    BY ThreadAssumption, FS_Subset
  <2> QED
    BY <2>1, <2>2, FS_EmptySet
<1>2. LockTypeOK' /\ LockShape' /\ OneTable'
  BY <1>1 DEF LockInv, ReplaceTable, LockTypeOK, LockShape, OneTable
<1>3. ActiveCounts'
  BY SameAnnounced DEF LockInv, ReplaceTable
<1>4. SlotsRespected'
  BY FewerHolders DEF LockInv, ReplaceTable, Holders
<1> QED
  BY <1>2, <1>3, <1>4 DEF LockInv

LEMMA LockStepInv == LockInv /\ [LockNext]_lockVars => LockInv'
<1> SUFFICES ASSUME LockInv, [LockNext]_lockVars PROVE LockInv'
  OBVIOUS
<1>1. CASE ReplaceTable
  BY <1>1, ReplaceTableInv
<1>2. ASSUME NEW t \in Thread, LockStep(t) PROVE LockInv'
  <2>1. CASE Announce(t)
    BY <2>1, AnnounceInv
  <2>2. CASE \E keys \in KeySets, deadline \in BOOLEAN : ListLocks(t, keys, deadline)
    BY <2>2, KeySetsAssumption, ListLocksInv
  <2>3. CASE Acquire(t)
    BY <2>3, AcquireInv
  <2>4. CASE GiveUp(t) \/ StartRelease(t)
    BY <2>4, StopInv
  <2>5. CASE ReleaseLast(t)
    BY <2>5, ReleaseLastInv
  <2>6. CASE Withdraw(t)
    BY <2>6, WithdrawInv
  <2>7. CASE ListingFails(t)
    BY <2>7, ListingFailsInv
  <2> QED
    BY <1>2, <2>1, <2>2, <2>3, <2>4, <2>5, <2>6, <2>7 DEF LockStep
<1>3. CASE UNCHANGED lockVars
  <2>1. LockTypeOK' /\ LockShape' /\ OneTable'
    BY <1>3 DEF LockInv, lockVars, LockTypeOK, LockShape, OneTable
  <2>2. ActiveCounts'
    BY <1>3, SameAnnounced DEF LockInv, lockVars
  <2>3. SlotsRespected'
    BY <1>3, FewerHolders DEF LockInv, lockVars, Holders
  <2> QED
    BY <2>1, <2>2, <2>3 DEF LockInv
<1> QED
  BY <1>1, <1>2, <1>3 DEF LockNext

(* The lock invariant holds in every state of every execution. *)
THEOREM LockInvariance == LockSafety => []LockInv
<1> QED
  BY LockInitInv, LockStepInv, PTL DEF LockSafety

(* No reload, exception or timeout ever leaves a lock with more holders than
   it has slots. *)
THEOREM SlotsAlwaysRespected == LockSafety => []SlotsRespected
<1>1. LockInv => SlotsRespected
  BY DEF LockInv
<1> QED
  BY <1>1, LockInvariance, PTL

(* A reload never replaces the table under a transition. *)
THEOREM AlwaysOneTable == LockSafety => []OneTable
<1>1. LockInv => OneTable
  BY DEF LockInv
<1> QED
  BY <1>1, LockInvariance, PTL

(* _transitions_active is the number of announced threads. *)
THEOREM ActiveAlwaysCounts == LockSafety => []ActiveCounts
<1>1. LockInv => ActiveCounts
  BY DEF LockInv
<1> QED
  BY <1>1, LockInvariance, PTL

-----------------------------------------------------------------------------
(* Mutual exclusion, as the other modules use it: a key with one slot has at
   most one holder. *)
LEMMA OneHolder ==
  ASSUME LockInv, NEW k \in Key, Slots[k] = 1,
         NEW t \in Thread, NEW u \in Thread, k \in held[t], k \in held[u]
  PROVE  t = u
<1>1. Cardinality(Holders(k)) <= 1 /\ IsFiniteSet(Holders(k))
      /\ Cardinality(Holders(k)) \in Nat
  BY HoldersFinite DEF LockInv, SlotsRespected
<1>2. t \in Holders(k) /\ u \in Holders(k)
  BY DEF Holders
<1>3. Cardinality(Holders(k)) # 0
  BY <1>1, <1>2, FS_EmptySet
<1>4. Cardinality(Holders(k)) = 1
  BY <1>1, <1>3
<1>5. PICK x : Holders(k) = {x}
  BY <1>1, <1>4, FS_Singleton
<1> QED
  BY <1>2, <1>5

(* In a wait cycle, take the thread that waits for the greatest key: the
   holder of that key waits for a smaller one, against the sorted order. *)
LEMMA InvExcludesCycles == LockInv => NoWaitCycle
<1> SUFFICES ASSUME LockInv,
                    NEW S \in (SUBSET Thread) \ {{}},
                    \A t \in S : Blocked(t),
                    \A t \in S, k \in Key, u \in Thread :
                       IsNext(t, k) /\ k \in held[u] => u \in S
             PROVE  FALSE
  BY DEF NoWaitCycle
<1> USE DEF LockInv
<1> DEFINE Awaited == {k \in Key : \E t \in S : IsNext(t, k) /\ ~Free(k, table[t])}
<1>1. Awaited \subseteq Key /\ Awaited # {}
  BY DEF Blocked
<1>2. PICK k \in Awaited : \A j \in Awaited : Rank[j] <= Rank[k]
  BY <1>1, GreatestRank
<1>3. PICK t \in S : IsNext(t, k) /\ ~Free(k, table[t])
  BY <1>2
<1>4. Holders(k) # {}
  <2> DEFINE H == {u \in Holders(k) : table[u] = table[t]}
  <2>1. CASE H = {}
    <3>1. Cardinality(H) = 0
      BY <2>1, FS_EmptySet
    <3> QED
      BY <1>2, <1>3, <3>1, SlotsAssumption DEF Free
  <2> QED
    BY <2>1
<1>5. PICK u \in Thread : k \in held[u]
  BY <1>4 DEF Holders
<1>6. u \in S
  BY <1>2, <1>3, <1>5
<1>7. PICK j \in Key : IsNext(u, j) /\ ~Free(j, table[u])
  BY <1>6 DEF Blocked
<1>8. Rank[j] <= Rank[k]
  BY <1>2, <1>6, <1>7
<1>9. Rank[k] < Rank[j]
  BY <1>5, <1>6, <1>7 DEF Blocked, IsNext, LockShape
<1>10. Rank[j] \in Nat /\ Rank[k] \in Nat
  <2>1. k \in Key /\ j \in Key
    BY <1>2, <1>7
  <2> QED
    BY <2>1, RankAssumption, KeyAssumption, FS_CardinalityType
<1> HIDE DEF Awaited
<1> QED
  BY <1>8, <1>9, <1>10

(* The sorted acquisition order makes a circular wait impossible, for every
   number of threads, keys and slots. *)
THEOREM NeverWaitCycle == LockSafety => []NoWaitCycle
<1> QED
  BY LockInvariance, InvExcludesCycles, PTL

-----------------------------------------------------------------------------
(* The refinement of Leases. *)

(* A thread that is in holds what it has listed, a set of keys a transition
   may ask for. *)
GrantShape ==
  \A t \in Thread :
    /\ phase[t] \in {"acquiring", "in"} => want[t] \in KeySets
    /\ phase[t] = "in" => held[t] = want[t]

(* What the refinement mapping makes of the variables. *)
leased == [t \in Thread |-> IF phase[t] = "in" THEN want[t] ELSE {}]

(* Nobody is in at first. *)
LEMMA GrantShapeInit == LockInit => GrantShape
BY DEF LockInit, GrantShape

(* Only Acquire, with the last lock of a list, lets a thread in. *)
LEMMA GrantShapeStep == LockInv /\ GrantShape /\ [LockNext]_lockVars => GrantShape'
<1> SUFFICES ASSUME LockTypeOK, LockShape, GrantShape, [LockNext]_lockVars PROVE GrantShape'
  BY DEF LockInv
<1> USE DEF LockTypeOK, GrantShape
<1>1. ASSUME NEW t \in Thread, LockStep(t) PROVE GrantShape'
  <2>1. CASE Announce(t)
    BY <2>1 DEF Announce
  <2>2. CASE \E keys \in KeySets, deadline \in BOOLEAN : ListLocks(t, keys, deadline)
    BY <2>2 DEF ListLocks
  <2>3. CASE Acquire(t)
    <3>1. PICK k \in want[t] \ held[t] :
            /\ held' = [held EXCEPT ![t] = held[t] \cup {k}]
            /\ phase' = [phase EXCEPT ![t] = IF held[t] \cup {k} = want[t] THEN "in" ELSE "acquiring"]
      BY <2>3 DEF Acquire
    <3> QED BY <2>3, <3>1 DEF Acquire
  <2>4. CASE GiveUp(t) \/ StartRelease(t)
    BY <2>4 DEF GiveUp, StartRelease
  <2>5. CASE ReleaseLast(t)
    BY <2>5 DEF ReleaseLast
  <2>6. CASE Withdraw(t)
    BY <2>6 DEF Withdraw
  <2>7. CASE ListingFails(t)
    BY <2>7 DEF ListingFails
  <2> QED BY <1>1, <2>1, <2>2, <2>3, <2>4, <2>5, <2>6, <2>7 DEF LockStep
<1>2. CASE ReplaceTable \/ UNCHANGED lockVars
  BY <1>2 DEF ReplaceTable, lockVars
<1> QED BY <1>1, <1>2 DEF LockNext

(* The lessees of a key, as the mapping has them. *)
Leased(k) == {t \in Thread : k \in leased[t]}

(* The last lock of a thread is free in its table, which is everybody's; the
   other locks are its own, so the leases of others leave it a slot. *)
LEMMA LastLockGrants ==
  ASSUME LockInv, GrantShape, NEW t \in Thread, Acquire(t), phase'[t] = "in"
  PROVE  /\ want[t] \in KeySets /\ leased[t] = {}
         /\ \A k \in want[t] : Cardinality(Leased(k)) < Slots[k]
         /\ leased' = [leased EXCEPT ![t] = want[t]]
<1> USE DEF LockInv
<1>1. PICK last \in want[t] \ held[t] :
        /\ Free(last, table[t])
        /\ phase' = [phase EXCEPT ![t] = IF held[t] \cup {last} = want[t] THEN "in" ELSE "acquiring"]
  BY DEF Acquire
<1>2. phase[t] = "acquiring" /\ want' = want /\ held[t] \cup {last} = want[t]
  BY <1>1 DEF Acquire, LockTypeOK
<1>3. want[t] \in KeySets /\ leased[t] = {}
  BY <1>2 DEF GrantShape, leased
<1>4. leased' = [leased EXCEPT ![t] = want[t]]
  <2>1. \A u \in Thread : leased'[u] = IF u = t THEN want[t] ELSE leased[u]
    BY <1>1, <1>2 DEF leased, LockTypeOK
  <2>2. leased' = [u \in Thread |-> leased'[u]] /\ leased = [u \in Thread |-> leased[u]]
    BY DEF leased
  <2> QED BY <2>1, <2>2
<1>5. ASSUME NEW k \in want[t] PROVE Cardinality(Leased(k)) < Slots[k]
  <2>0. k \in Key /\ Slots[k] \in Nat /\ IsFiniteSet(Holders(k)) /\ Cardinality(Holders(k)) \in Nat
    BY <1>5, SlotsAssumption, HoldersFinite DEF LockTypeOK
  <2>1. Leased(k) \subseteq Holders(k)
    BY DEF Leased, leased, Holders, GrantShape
  <2>2. CASE k = last
    <3>1. \A u \in Leased(k) : table[u] = table[t]
      BY <1>2 DEF Leased, leased, OneTable
    <3> DEFINE H == {u \in Holders(k) : table[u] = table[t]}
    <3>2. Leased(k) \subseteq H /\ IsFiniteSet(H)
      BY <2>0, <2>1, <3>1, FS_Subset
    <3>3. Cardinality(Leased(k)) <= Cardinality(H) /\ IsFiniteSet(Leased(k))
      BY <3>2, FS_Subset
    <3>4. Cardinality(H) < Slots[k]
      BY <1>1, <2>2 DEF Free
    <3> QED BY <2>0, <3>2, <3>3, <3>4, FS_CardinalityType
  <2>3. CASE k # last
    <3>1. t \in Holders(k) /\ t \notin Leased(k)
      BY <1>2, <1>3, <2>3 DEF Holders, Leased
    <3>2. Leased(k) \subseteq Holders(k) \ {t}
      BY <2>1, <3>1
    <3>3. Cardinality(Holders(k) \ {t}) = Cardinality(Holders(k)) - 1 /\ IsFiniteSet(Holders(k) \ {t})
      BY <2>0, <3>1, FS_RemoveElement
    <3>4. Cardinality(Leased(k)) <= Cardinality(Holders(k) \ {t}) /\ IsFiniteSet(Leased(k))
      BY <3>2, <3>3, FS_Subset
    <3>5. Cardinality(Holders(k)) <= Slots[k]
      BY <2>0 DEF SlotsRespected
    <3> QED BY <2>0, <3>3, <3>4, <3>5, FS_CardinalityType
  <2> QED BY <2>2, <2>3
<1> QED BY <1>3, <1>4, <1>5

(* The steps of the protocol are steps of the leases, or change none. *)
LEMMA LeaseSteps ==
  LockInv /\ GrantShape /\ [LockNext]_lockVars =>
    \/ leased' = leased
    \/ \E t \in Thread :
         \/ leased[t] # {} /\ leased' = [leased EXCEPT ![t] = {}]
         \/ \E keys \in KeySets :
              /\ leased[t] = {}
              /\ \A k \in keys : Cardinality(Leased(k)) < Slots[k]
              /\ leased' = [leased EXCEPT ![t] = keys]
<1> SUFFICES ASSUME LockInv, GrantShape, [LockNext]_lockVars
             PROVE  \/ leased' = leased
                    \/ \E t \in Thread :
                         \/ leased[t] # {} /\ leased' = [leased EXCEPT ![t] = {}]
                         \/ \E keys \in KeySets :
                              /\ leased[t] = {}
                              /\ \A k \in keys : Cardinality(Leased(k)) < Slots[k]
                              /\ leased' = [leased EXCEPT ![t] = keys]
  OBVIOUS
<1>0. LockTypeOK
  BY DEF LockInv
<1>1. ASSUME NEW t \in Thread, Acquire(t), phase'[t] # "in" PROVE leased' = leased
  BY <1>0, <1>1 DEF Acquire, leased, LockTypeOK
<1>2. ASSUME NEW t \in Thread, StartRelease(t)
      PROVE  leased[t] # {} /\ leased' = [leased EXCEPT ![t] = {}]
  <2>1. leased[t] = want[t] /\ want[t] # {}
    BY <1>2, KeySetsAssumption DEF StartRelease, leased, GrantShape
  <2>2. \A u \in Thread : leased'[u] = IF u = t THEN {} ELSE leased[u]
    BY <1>0, <1>2 DEF StartRelease, leased, LockTypeOK
  <2>3. leased' = [u \in Thread |-> leased'[u]] /\ leased = [u \in Thread |-> leased[u]]
    BY DEF leased
  <2> QED BY <2>1, <2>2, <2>3
<1>3. ASSUME NEW t \in Thread,
             \/ Announce(t) \/ ListingFails(t) \/ GiveUp(t) \/ ReleaseLast(t) \/ Withdraw(t)
             \/ \E keys \in KeySets, deadline \in BOOLEAN : ListLocks(t, keys, deadline)
      PROVE  leased' = leased
  <2>1. \A u \in Thread : (phase'[u] = "in" <=> phase[u] = "in") /\ (phase[u] = "in" => want'[u] = want[u])
    BY <1>0, <1>3 DEF Announce, ListingFails, GiveUp, Blocked, ReleaseLast, Withdraw, ListLocks, LockTypeOK
  <2> QED BY <2>1 DEF leased
<1>4. ASSUME ReplaceTable \/ UNCHANGED lockVars PROVE leased' = leased
  BY <1>4 DEF ReplaceTable, lockVars, leased
<1>5. ASSUME NEW t \in Thread, Acquire(t), phase'[t] = "in"
      PROVE  \E keys \in KeySets :
               /\ leased[t] = {}
               /\ \A k \in keys : Cardinality(Leased(k)) < Slots[k]
               /\ leased' = [leased EXCEPT ![t] = keys]
  BY <1>5, LastLockGrants
<1> QED BY <1>1, <1>2, <1>3, <1>4, <1>5 DEF LockNext, LockStep

(* The instance counts as this module does. *)
LEMMA SameCardinality == \A S : Granted!Cardinality(S) = Cardinality(S)
BY DEF Granted!Cardinality, Cardinality

(* The protocol, with its announcements, partial acquisitions, time limits and
   reloads, grants and returns the keys of a transition as if in one step. *)
THEOREM LocksImplementLeases == LockSafety => ImplementsLeases
<1>1. LockInit => Granted!LeaseInit
  BY DEF LockInit, Granted!LeaseInit
<1>2. LockInv /\ GrantShape /\ [LockNext]_lockVars =>
        [Granted!LeaseNext]_[t \in Thread |-> IF phase[t] = "in" THEN want[t] ELSE {}]
  BY LeaseSteps, SameCardinality DEF leased, Leased, Granted!LeaseNext, Granted!Grant, Granted!Return, Granted!Lessees
<1> QED
  BY <1>1, <1>2, LockInvariance, GrantShapeInit, GrantShapeStep, PTL
     DEF LockSafety, ImplementsLeases, Granted!LeaseSpec
=============================================================================
