------------------------------ MODULE Residency ------------------------------
(***************************************************************************)
(* What the dispatcher promises to its clients, without locks, loops,      *)
(* probes or processes: a model takes its resources only while no rival    *)
(* holds them, a client is admitted only to a model that holds its         *)
(* resources, and everybody may leave at any time.  A model may also give  *)
(* its resources up under an admitted client: the code does not rule it    *)
(* out, and the abstraction does not pretend it does.                      *)
(***************************************************************************)
CONSTANTS
  Client, Model,
  None,     \* a client that is not admitted
  Rivals    \* the pairs of models that may not hold resources together

VARIABLES
  holding,  \* the models that hold their resources
  admitted  \* the model each client is admitted to

Init ==
  /\ holding = {}
  /\ admitted = [c \in Client |-> None]

Take(m) ==
  /\ \A n \in holding : <<m, n>> \notin Rivals
  /\ holding' = holding \cup {m}
  /\ UNCHANGED admitted

GiveUp(m) ==
  /\ holding' = holding \ {m}
  /\ UNCHANGED admitted

Admit(c, m) ==
  /\ admitted[c] = None
  /\ m \in holding
  /\ admitted' = [admitted EXCEPT ![c] = m]
  /\ UNCHANGED holding

Leave(c) ==
  /\ admitted' = [admitted EXCEPT ![c] = None]
  /\ UNCHANGED holding

Next ==
  \/ \E m \in Model : Take(m) \/ GiveUp(m)
  \/ \E c \in Client : Leave(c) \/ \E m \in Model : Admit(c, m)

Spec == Init /\ [][Next]_<<holding, admitted>>
=============================================================================
