---------------------------- MODULE MCAdmission -----------------------------
(***************************************************************************)
(* An instance of Admission for TLC: m1 and m2 just fit together; m3, a    *)
(* rival of m1, is a model of an external service.                         *)
(***************************************************************************)
EXTENDS Admission, TLC

CONSTANTS m1, m2, m3

MCOrder == <<m1, m2, m3>>
MCRivals == (m1 :> {m3}) @@ (m2 :> {}) @@ (m3 :> {m1})
MCConfigured == {[limit |-> 3, estimate |-> (m1 :> 1) @@ (m2 :> 2) @@ (m3 :> 2)]}
ThreadSymmetry == Permutations(Thread)
=============================================================================
