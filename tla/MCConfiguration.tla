-------------------------- MODULE MCConfiguration --------------------------
(***************************************************************************)
(* Instances of Configuration for TLC: the contents of the file and the    *)
(* settings between which editors and operators move.                      *)
(***************************************************************************)
EXTENDS Configuration, TLC

CONSTANTS m1, m2, a1, a2, g1

Ports == (a1 :> 1) @@ (a2 :> 2)
Each == (m1 :> a1) @@ (m2 :> a2)
Canonical == (m1 :> m1) @@ (m2 :> m2)

Base ==
  [parses |-> TRUE, port |-> Ports, adapterOf |-> Each, canonical |-> Canonical,
   groups |-> {g1}, idle |-> FALSE]
(* a2 has another port, and an idle timeout is set. *)
Moved == [Base EXCEPT !.port[a2] = 3, !.idle = TRUE]
(* Somebody saved half a file. *)
Broken == [Base EXCEPT !.parses = FALSE]
(* No group is declared, and m1 is another name of m2. *)
Bare == [Base EXCEPT !.groups = {}, !.canonical[m1] = m2]

SafeContent == {Bare, Moved, Broken}
Reviews == {[gone |-> {m2}, unused |-> {a2}]}
AdministratorSymmetry == Permutations(Administrator)
SavedPolicy ==
  {[groups |-> (m2 :> {g1}), idle |-> FALSE, smart |-> TRUE]}
=============================================================================
