------------------------------- MODULE Leases -------------------------------
(***************************************************************************)
(* What the transition locks promise to the operations of the dispatcher:  *)
(* a thread is granted all the keys of its transition in one step, no key  *)
(* is ever granted to more threads than it has slots, and the keys are     *)
(* returned in one step.  TransitionLocks, the protocol of                 *)
(* _acquire_transitions and _release_transitions with its announcements,   *)
(* sorted polling, timeouts, partial acquisitions and table reloads,       *)
(* implements this; Dispatcher builds on it.                               *)
(***************************************************************************)
EXTENDS Naturals, FiniteSets

CONSTANTS
  Thread,   \* the threads that run transitions: HTTP handlers, the idle loop
  Key,      \* the keys of the lock table: "adapter:<name>", "group:<name>"
  KeySets,  \* the key sets a transition may ask for
  Slots     \* 1 for an adapter's Lock, the capacity for a group's semaphore

ASSUME ThreadAssumption == IsFiniteSet(Thread)
ASSUME SlotsAssumption == Slots \in [Key -> Nat \ {0}]
ASSUME KeySetsAssumption == KeySets \subseteq (SUBSET Key) \ {{}}

VARIABLE lease   \* the keys granted to each thread

Lessees(k) == {t \in Thread : k \in lease[t]}

LeaseInit == lease = [t \in Thread |-> {}]

(* Mutant of Grant: every lock has a slot too many. *)
GrantOneMore(t, keys) ==
  /\ lease[t] = {}
  /\ \A k \in keys : Cardinality(Lessees(k)) <= Slots[k]
  /\ lease' = [lease EXCEPT ![t] = keys]

(* All the locks of a transition have been taken. *)
Grant(t, keys) ==
  /\ lease[t] = {}
  /\ \A k \in keys : Cardinality(Lessees(k)) < Slots[k]
  /\ lease' = [lease EXCEPT ![t] = keys]

(* The locks of a transition are being given back. *)
Return(t) ==
  /\ lease[t] # {}
  /\ lease' = [lease EXCEPT ![t] = {}]

LeaseNext ==
  \E t \in Thread : Return(t) \/ \E keys \in KeySets : Grant(t, keys)

LeaseSpec == LeaseInit /\ [][LeaseNext]_lease
=============================================================================
