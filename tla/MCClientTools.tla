---------------------------- MODULE MCClientTools ----------------------------
(***************************************************************************)
(* An instance of ClientTools for TLC: f1 is the file of an agent, which   *)
(* both tools replace; f2 is given to the helper twice, so that it plans   *)
(* for a file that it will have replaced itself.  The dispatcher listens   *)
(* at 1; 2 is the port of an adapter, 3 an unrelated one.                  *)
(***************************************************************************)
EXTENDS ClientTools

Local(auth) == [models |-> TRUE, listed |-> {}, loopback |-> TRUE, refs |-> {"KEY"}, authorized |-> auth]
Online == [models |-> TRUE, listed |-> {}, loopback |-> FALSE, refs |-> {"OTHER"}, authorized |-> FALSE]

MCContent == [port : 1 .. 3, model : {"m", "n", "b"}, providers : {{Local(TRUE), Online}, {Local(FALSE)}}]

At(port, model, auth) == [port |-> port, model |-> model, providers |-> IF auth THEN {Local(TRUE), Online} ELSE {Local(FALSE)}]

MCWritten == (CHOOSE w \in [{"f1", "f2"} -> {{At(2, "b", FALSE), At(3, "m", TRUE)}, {At(2, "n", FALSE)}}] :
                w["f1"] # {At(2, "n", FALSE)} /\ w["f2"] = {At(2, "n", FALSE)})
MCArguments == <<"f2", "f1", "f2">>
MCCandidate == {At(3, "m", TRUE), At(2, "b", FALSE)}

Model(name, backend) == [name |-> name, backend |-> backend, display |-> name]
(* "n" names both models, "m" and "b" name one; port 1 is the listener's own. *)
MCTarget == {[listen |-> 1, ports |-> {1, 2}, models |-> {Model("m", "n"), Model("n", "b")}]}
=============================================================================
