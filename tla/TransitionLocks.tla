--------------------------- MODULE TransitionLocks ---------------------------
(***************************************************************************)
(* The transition locks of the dispatcher (scripts/model_dispatch.py:      *)
(* _build_transition_locks, _acquire_transitions, _release_transitions,    *)
(* and the part of reload_config that replaces the lock table).            *)
(*                                                                         *)
(* Every switch, load and unload holds one lock per adapter and one        *)
(* counting semaphore per resource group of the models it works on.  A     *)
(* thread first announces itself (_transitions_active += 1), then lists    *)
(* the locks of the current table in sorted key order, takes them one by   *)
(* one with a polled timeout, and at the end releases them in the reverse  *)
(* order before it withdraws its announcement.  reload_config builds a new *)
(* table, and only looks at the announcements to know that it may.         *)
(***************************************************************************)
EXTENDS Naturals, FiniteSets

CONSTANTS
  Thread,     \* the threads that run transitions: HTTP handlers, the idle loop
  Key,        \* the keys of the lock table: "adapter:<name>", "group:<name>"
  KeySets,    \* the key sets a transition may ask for
  Slots,      \* 1 for an adapter's Lock, the capacity for a group's semaphore
  Rank,       \* the position of a key in sorted() order
  MaxReload   \* bound: how many times reload_config may replace the table

ASSUME ThreadAssumption == IsFiniteSet(Thread)
ASSUME SlotsAssumption == Slots \in [Key -> Nat \ {0}]
ASSUME KeyAssumption == IsFiniteSet(Key)
ASSUME RankAssumption ==
  /\ Rank \in [Key -> 0 .. Cardinality(Key)]
  /\ \A j, k \in Key : Rank[j] = Rank[k] => j = k
ASSUME KeySetsAssumption == KeySets \subseteq (SUBSET Key) \ {{}}
ASSUME MaxReloadAssumption == MaxReload \in Nat

Phase == {"out", "listing", "acquiring", "in", "releasing"}

VARIABLES
  phase,    \* where each thread is in the protocol
  want,     \* the keys it has listed
  held,     \* the locks it holds
  hurried,  \* whether its acquisition has a deadline
  table,    \* the lock table its locks come from
  current,  \* the table in self._transition_locks
  active    \* self._transitions_active

lockVars == <<phase, want, held, hurried, table, current, active>>

-----------------------------------------------------------------------------
Holders(k) == {t \in Thread : k \in held[t]}

(* Mutant of Free: every lock has a slot too many. *)
FreeOneMore(k, n) == Cardinality({t \in Holders(k) : table[t] = n}) <= Slots[k]

(* A slot of k is free in table n: locks of other tables do not count. *)
Free(k, n) == Cardinality({t \in Holders(k) : table[t] = n}) < Slots[k]

(* Mutant of IsNext: the locks are taken in no particular order. *)
IsNextUnsorted(t, k) == k \in want[t] \ held[t]

(* k is the next lock t asks for: the first of its list it does not hold. *)
IsNext(t, k) ==
  /\ k \in want[t] \ held[t]
  /\ \A j \in want[t] \ held[t] : Rank[k] <= Rank[j]

(* k is the last lock of the list that t still holds. *)
IsLast(t, k) ==
  /\ k \in held[t]
  /\ \A j \in held[t] : Rank[j] <= Rank[k]

Blocked(t) ==
  /\ phase[t] = "acquiring"
  /\ \E k \in Key : IsNext(t, k) /\ ~Free(k, table[t])

LockInit ==
  /\ phase = [t \in Thread |-> "out"]
  /\ want = [t \in Thread |-> {}]
  /\ held = [t \in Thread |-> {}]
  /\ hurried = [t \in Thread |-> FALSE]
  /\ table = [t \in Thread |-> 0]
  /\ current = 0
  /\ active = 0

(* with self.condition: self._transitions_active += 1 *)
Announce(t) ==
  /\ phase[t] = "out"
  /\ phase' = [phase EXCEPT ![t] = "listing"]
  /\ active' = active + 1
  /\ UNCHANGED <<want, held, hurried, table, current>>

(* The lock list is read from the current table, outside the condition. *)
ListLocks(t, keys, deadline) ==
  /\ phase[t] = "listing"
  /\ phase' = [phase EXCEPT ![t] = "acquiring"]
  /\ want' = [want EXCEPT ![t] = keys]
  /\ hurried' = [hurried EXCEPT ![t] = deadline]
  /\ table' = [table EXCEPT ![t] = current]
  /\ UNCHANGED <<held, current, active>>

(* A listed key has no lock in the table (a policy names a group that was
   reloaded away): KeyError, and the except clause finds nothing to give back. *)
ListingFails(t) ==
  /\ phase[t] = "listing"
  /\ phase' = [phase EXCEPT ![t] = "releasing"]
  /\ table' = [table EXCEPT ![t] = current]
  /\ UNCHANGED <<want, held, hurried, current, active>>

(* Mutants of Acquire: one lock is enough to go in; any free lock is taken, and
   a taken one makes the thread start over. *)
AcquireOne(t) ==
  /\ phase[t] = "acquiring"
  /\ \E k \in want[t] \ held[t] :
       /\ IsNext(t, k)
       /\ Free(k, table[t])
       /\ held' = [held EXCEPT ![t] = held[t] \cup {k}]
       /\ phase' = [phase EXCEPT ![t] = "in"]
  /\ UNCHANGED <<want, hurried, table, current, active>>
AcquireOrStartOver(t) ==
  /\ phase[t] = "acquiring"
  /\ \E k \in want[t] \ held[t] :
       held' = [held EXCEPT ![t] = IF Free(k, table[t]) THEN held[t] \cup {k} ELSE {}]
  /\ phase' = [phase EXCEPT ![t] = IF held'[t] = want[t] THEN "in" ELSE "acquiring"]
  /\ UNCHANGED <<want, hurried, table, current, active>>

(* lock.acquire(timeout=...) succeeded; after the last one the thread is in. *)
Acquire(t) ==
  /\ phase[t] = "acquiring"
  /\ \E k \in want[t] \ held[t] :
       /\ IsNext(t, k)
       /\ Free(k, table[t])
       /\ held' = [held EXCEPT ![t] = held[t] \cup {k}]
       /\ phase' = [phase EXCEPT ![t] =
                      IF held[t] \cup {k} = want[t] THEN "in" ELSE "acquiring"]
  /\ UNCHANGED <<want, hurried, table, current, active>>

(* Mutant of GiveUp: the deadline is never looked at. *)
GiveUpNever(t) == FALSE /\ Blocked(t) /\ UNCHANGED lockVars

(* A poll ran out and the deadline has passed or the request was cancelled:
   409, and the except clause gives the acquired locks back. *)
GiveUp(t) ==
  /\ hurried[t]
  /\ Blocked(t)
  /\ phase' = [phase EXCEPT ![t] = "releasing"]
  /\ UNCHANGED <<want, held, hurried, table, current, active>>

(* The transition's work is over, normally or by an exception. *)
StartRelease(t) ==
  /\ phase[t] = "in"
  /\ phase' = [phase EXCEPT ![t] = "releasing"]
  /\ UNCHANGED <<want, held, hurried, table, current, active>>

(* for lock in reversed(locks): lock.release() *)
ReleaseLast(t) ==
  /\ phase[t] = "releasing"
  /\ \E k \in held[t] :
       /\ IsLast(t, k)
       /\ held' = [held EXCEPT ![t] = held[t] \ {k}]
  /\ UNCHANGED <<phase, want, hurried, table, current, active>>

(* Mutant of Withdraw: the announcement stays counted. *)
WithdrawUncounted(t) ==
  /\ phase[t] = "releasing"
  /\ held[t] = {}
  /\ phase' = [phase EXCEPT ![t] = "out"]
  /\ want' = [want EXCEPT ![t] = {}]
  /\ hurried' = [hurried EXCEPT ![t] = FALSE]
  /\ table' = [table EXCEPT ![t] = 0]
  /\ UNCHANGED <<held, current, active>>

(* with self.condition: self._transitions_active -= 1 *)
Withdraw(t) ==
  /\ phase[t] = "releasing"
  /\ held[t] = {}
  /\ phase' = [phase EXCEPT ![t] = "out"]
  /\ want' = [want EXCEPT ![t] = {}]
  /\ hurried' = [hurried EXCEPT ![t] = FALSE]
  /\ table' = [table EXCEPT ![t] = 0]
  /\ active' = active - 1
  /\ UNCHANGED <<held, current>>

(* Mutant of ReplaceTable: a running transition does not hinder a reload. *)
ReplaceTableAnyway ==
  /\ current < MaxReload
  /\ current' = current + 1
  /\ UNCHANGED <<phase, want, held, hurried, table, active>>

(* reload_config: refused while a transition is announced, otherwise a new
   table of free locks takes the place of the old one. *)
ReplaceTable ==
  /\ active = 0
  /\ current < MaxReload
  /\ current' = current + 1
  /\ UNCHANGED <<phase, want, held, hurried, table, active>>

LockStep(t) ==
  \/ Announce(t)
  \/ \E keys \in KeySets, deadline \in BOOLEAN : ListLocks(t, keys, deadline)
  \/ ListingFails(t)
  \/ Acquire(t)
  \/ GiveUp(t)
  \/ StartRelease(t)
  \/ ReleaseLast(t)
  \/ Withdraw(t)

LockNext == ReplaceTable \/ \E t \in Thread : LockStep(t)

LockSafety == LockInit /\ [][LockNext]_lockVars

(* A thread that has announced itself keeps running while it lists, polls and
   releases.  Nothing is assumed of its work under the locks: the wait for a
   model that is loading or unloading (2339-2341) has no deadline. *)
Proceed(t) ==
  \/ \E keys \in KeySets, deadline \in BOOLEAN : ListLocks(t, keys, deadline)
  \/ ListingFails(t)
  \/ Acquire(t)
  \/ GiveUp(t)
  \/ ReleaseLast(t)
  \/ Withdraw(t)

LockSpec == LockSafety /\ \A t \in Thread : WF_lockVars(Proceed(t))

-----------------------------------------------------------------------------
LockTypeOK ==
  /\ phase \in [Thread -> Phase]
  /\ want \in [Thread -> SUBSET Key]
  /\ held \in [Thread -> SUBSET Key]
  /\ hurried \in [Thread -> BOOLEAN]
  /\ table \in [Thread -> Nat]
  /\ current \in Nat
  /\ active \in Nat

(* No key is ever held by more threads than it has slots, whichever tables
   their locks come from: an adapter's lock by one thread, a group's
   semaphore by at most its capacity.  A reload in the middle of somebody's
   transition would break it (reload_config's _transitions_active test). *)
SlotsRespected == \A k \in Key : Cardinality(Holders(k)) <= Slots[k]

(* Every thread that holds or lists locks does so in the table in use. *)
OneTable ==
  \A t \in Thread : phase[t] \in {"acquiring", "in", "releasing"} => table[t] = current

(* _transitions_active counts the announced threads: no path through an
   exception leaves it too high (reload would be refused for ever) or too
   low (reload would be allowed under a running transition). *)
ActiveCounts == active = Cardinality({t \in Thread : phase[t] # "out"})

(* No set of threads waits only for its own members: sorted() keys make a
   circular wait impossible, with semaphores of any capacity. *)
NoWaitCycle ==
  \A S \in (SUBSET Thread) \ {{}} :
    \E t \in S :
      \/ ~Blocked(t)
      \/ \E k \in Key, u \in Thread \ S : IsNext(t, k) /\ k \in held[u]

(* The protocol implements the leases the dispatcher relies on: the keys are
   granted when the last lock is taken and returned when the release begins. *)
Granted == INSTANCE Leases WITH
  lease <- [t \in Thread |-> IF phase[t] = "in" THEN want[t] ELSE {}]
ImplementsLeases == Granted!LeaseSpec

(* Deadlock freedom for the acquisitions without a deadline (unload): while
   one of them waits, some transition gets all its locks. *)
WaitersMakeProgress ==
  (\E t \in Thread : phase[t] = "acquiring" /\ ~hurried[t])
    ~> (\E t \in Thread : phase[t] = "in")

(* An acquisition with a deadline (a request or a switch, 2331) is decided: the
   thread gets all its locks, or has given back those it got and withdrawn,
   even if no thread that is in ever ends its work. *)
HurriedDecides ==
  \A t \in Thread :
    (phase[t] = "acquiring" /\ hurried[t]) ~> phase[t] \in {"in", "out"}
=============================================================================
