---------------------------- MODULE MCDispatcher ----------------------------
(***************************************************************************)
(* Instances of Dispatcher for TLC.  Every topology is a set of models     *)
(* m1 ... on adapters a1 ... in groups g1 ...; a cfg picks one.            *)
(***************************************************************************)
EXTENDS Dispatcher, TLC

CONSTANTS m1, m2, m3, a1, a2, a3, g1, g2

AllThreads == Request \cup Operator
AllKeys == Adapter \cup Group
AllKeySets == {Keys(m) : m \in Model} \cup {UNION {Keys(m) : m \in Model}}

Restricted(f, S) == [x \in S |-> f[x]]
ByName == Restricted((m1 :> 0) @@ (m2 :> 1) @@ (m3 :> 2), Model)
OneSlot == [k \in Key |-> 1]
AllManaged == [a \in Adapter |-> "managed"]

(* Every model has its own adapter, all are in g1. *)
OwnAdapter == Restricted((m1 :> a1) @@ (m2 :> a2) @@ (m3 :> a3), Model)
AllInG1 == [m \in Model |-> {g1}]

(* Every model is on a1; no group. *)
OneAdapter == [m \in Model |-> a1]
NoGroup == [m \in Model |-> {}]

(* The group has two slots. *)
TwoInG1 == [k \in Key |-> IF k = g1 THEN 2 ELSE 1]

(* a1 is an external service, a2 is managed. *)
ExternalFirst == [a \in Adapter |-> IF a = a1 THEN "external" ELSE "managed"]

(* The requests, or the operators, are interchangeable: Operations is the same
   for all of them.  Only runs without liveness use these. *)
ThreadSymmetry == Permutations(Request)
OperatorSymmetry == Permutations(Operator)
=============================================================================
