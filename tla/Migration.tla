------------------------------ MODULE Migration ------------------------------
(***************************************************************************)
(* scripts/migration_helper.py with --apply: it plans for all its files    *)
(* what their lines become, and then replaces the changed ones, in order,  *)
(* unless one was edited meanwhile.                                        *)
(*                                                                         *)
(* Of a line only its endpoint and its model matter: a content has one of  *)
(* each.                                                                   *)
(***************************************************************************)
EXTENDS ClientFiles

CONSTANTS
  Migrator,   \* the tools of this kind
  Arguments,  \* the files given on the command line, in order
  Target,     \* configurations of the dispatcher
  Override    \* what --legacy-port may say, sets of ports

ASSUME MigrationAssumption ==
  /\ Migrator \subseteq Tool /\ Arguments \in Seq(File)
  /\ \A t \in Target : IsFiniteSet(t.models)

VARIABLES
  target,    \* the configuration the helper is given
  legacy,    \* the ports it rewrites
  plan,      \* what it has planned for each argument
  next,      \* the argument it is at
  phase,     \* "idle", then "check", "copy" and "write" of an argument
  stamps,    \* the whole backups of each file, each with a name of its own
  replaced   \* history: the arguments replaced by the run of each helper

migrationVars == <<target, legacy, plan, next, phase, stamps, replaced>>

-----------------------------------------------------------------------------
(* _target: the ports of the adapters, without the dispatcher's own. *)
LegacyPorts(t) == t.ports \ {t.listen}

Aliases(m) == {m.name, m.backend, m.display}

(* Mutant of Named: a name that several models have is taken for the first. *)
NamedFirst(t, alias) ==
  LET ms == {m \in t.models : alias \in Aliases(m)} IN
  IF ms = {} THEN {} ELSE {CHOOSE m \in ms : TRUE}

(* The model an alias stands for, if that is not ambiguous. *)
Named(t, alias) ==
  LET ms == {m \in t.models : alias \in Aliases(m)} IN
  IF Cardinality(ms) = 1 THEN ms ELSE {}

(* _rewrite_line *)
Rewritten(t, ports, content) ==
  [content EXCEPT !.port = IF @ \in ports THEN t.listen ELSE @,
                  !.model = IF Named(t, @) = {} THEN @ ELSE (CHOOSE m \in Named(t, @) : TRUE).name]

(* plan_file; of half a file there may be lines to rewrite, and it is half a file
   then as well. *)
Planned(content, some) ==
  LET new == IF content \in Content THEN Rewritten(target, legacy, content) ELSE content IN
  [source |-> content, new |-> new, changed |-> new # content \/ (content = Torn /\ some)]

Changed(item) == item.changed

-----------------------------------------------------------------------------
MigrationInit ==
  /\ target \in Target
  /\ legacy \in {LegacyPorts(target)} \cup Override
  /\ plan = [m \in Migrator |-> <<>>]
  /\ next = [m \in Migrator |-> 1]
  /\ phase = [m \in Migrator |-> "idle"]
  /\ stamps = [f \in File |-> {}]
  /\ replaced = [m \in Migrator |-> {}]

(* build_plan *)
Plan(m) ==
  /\ phase[m] = "idle"
  /\ \E some \in SUBSET DOMAIN Arguments :
       plan' = [plan EXCEPT ![m] = [i \in DOMAIN Arguments |-> Planned(file[Arguments[i]], i \in some)]]
  /\ next' = [next EXCEPT ![m] = 1]
  /\ replaced' = [replaced EXCEPT ![m] = {}]
  /\ phase' = [phase EXCEPT ![m] = "check"]
  /\ UNCHANGED <<fileVars, target, legacy, stamps>>

Go(m, to) == phase' = [phase EXCEPT ![m] = to]
Current(m) == plan[m][next[m]]

(* apply_file leaves unchanged files alone. *)
Pass(m) ==
  /\ phase[m] = "check" /\ next[m] \in DOMAIN Arguments /\ ~Changed(Current(m))
  /\ next' = [next EXCEPT ![m] = @ + 1]
  /\ UNCHANGED <<fileVars, target, legacy, plan, phase, stamps, replaced>>

(* Mutant of Check: the hash is not compared. *)
CheckExists(m) ==
  /\ phase[m] = "check" /\ next[m] \in DOMAIN Arguments /\ Changed(Current(m))
  /\ file[Arguments[next[m]]] # Absent
  /\ Claim(m, Arguments[next[m]])
  /\ Go(m, "copy")
  /\ UNCHANGED <<target, legacy, plan, next, stamps, replaced>>

(* A file is as it was planned, *)
Check(m) ==
  /\ phase[m] = "check" /\ next[m] \in DOMAIN Arguments /\ Changed(Current(m))
  /\ file[Arguments[next[m]]] = Current(m).source
  /\ Claim(m, Arguments[next[m]])
  /\ Go(m, "copy")
  /\ UNCHANGED <<target, legacy, plan, next, stamps, replaced>>

(* Mutant of Refuse: the other files are still replaced. *)
RefuseOne(m) ==
  /\ phase[m] = "check" /\ next[m] \in DOMAIN Arguments /\ Changed(Current(m))
  /\ file[Arguments[next[m]]] # Current(m).source
  /\ next' = [next EXCEPT ![m] = @ + 1]
  /\ UNCHANGED <<fileVars, target, legacy, plan, phase, stamps, replaced>>

(* or the run ends there; also if it is half a file, but of another content. *)
Refuse(m) ==
  /\ phase[m] = "check" /\ next[m] \in DOMAIN Arguments /\ Changed(Current(m))
  /\ file[Arguments[next[m]]] # Current(m).source \/ Current(m).source = Torn
  /\ Go(m, "idle")
  /\ UNCHANGED <<fileVars, target, legacy, plan, next, stamps, replaced>>

(* shutil.copy2 to a name that no backup has yet; two helpers that choose it in
   the same second, which may take the same one (180-199), are left out. *)
Copy(m) ==
  /\ phase[m] = "copy" /\ file[claim[m]] # Absent
  /\ stamps' = [stamps EXCEPT ![claim[m]] = @ \cup {file[claim[m]]}]
  /\ Go(m, "write")
  /\ UNCHANGED <<fileVars, target, legacy, plan, next, replaced>>

(* The new content is written beside the file and put in its place. *)
Migrate(m) ==
  /\ phase[m] = "write" /\ file[claim[m]] # Absent
  /\ PutClaimed(m, Current(m).new)
  /\ replaced' = [replaced EXCEPT ![m] = @ \cup {next[m]}]
  /\ next' = [next EXCEPT ![m] = @ + 1]
  /\ Go(m, "check")
  /\ UNCHANGED <<target, legacy, plan, stamps>>

(* The run is over; or it ends by an OSError, or the process dies. *)
Finish(m) ==
  /\ phase[m] = "check" /\ next[m] \notin DOMAIN Arguments
  /\ Go(m, "idle")
  /\ UNCHANGED <<fileVars, target, legacy, plan, next, stamps, replaced>>

MigrationFails(m) ==
  /\ phase[m] # "idle"
  /\ Drop(m)
  /\ Go(m, "idle")
  /\ UNCHANGED <<target, legacy, plan, next, stamps, replaced>>

MigrationStep(m) ==
  \/ Plan(m) \/ Pass(m) \/ Check(m) \/ Refuse(m) \/ Copy(m) \/ Migrate(m) \/ Finish(m) \/ MigrationFails(m)
-----------------------------------------------------------------------------
(* A run replaces the changed files before the one it stops at, and no other:
   whether it finishes, is refused, fails or dies, so that a second run can
   take up the rest.  About main, which reports nothing of the files that are
   already replaced when one is refused (migration_helper.py:250-258). *)
MigrationIsPrefix ==
  \A m \in Migrator : \A i \in DOMAIN plan[m] :
    (i \in replaced[m]) <=> (i < next[m] /\ Changed(plan[m][i]))

(* Migrating is finished after one time: what it wrote it would not change
   again, an endpoint becomes the dispatcher's or stays, and a name that two
   models share is left to its owner.  About the aliases of _target, taken
   from three fields of each model (migration_helper.py:62-71). *)
RewriteSettles ==
  \A content \in Content : LET once == Rewritten(target, legacy, content) IN
    /\ Rewritten(target, legacy, once) = once
    /\ once.port \in {content.port, target.listen}
    /\ (\E m, n \in target.models : m # n /\ content.model \in Aliases(m) \cap Aliases(n))
         => once.model = content.model
=============================================================================
