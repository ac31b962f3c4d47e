----------------------------- MODULE AgentConfig -----------------------------
(***************************************************************************)
(* apply_config and restore_config of scripts/agent_config.py, run in      *)
(* processes that may fail or die at any access to the disk.               *)
(***************************************************************************)
EXTENDS ClientFiles

CONSTANTS
  Agent,         \* the tools of this kind
  AgentFile,     \* the files they are run on
  Candidate,     \* the contents a user may apply
  Environment    \* the sets of environment keys a process may be started with

ASSUME AgentAssumption == Agent \subseteq Tool /\ AgentFile \subseteq File /\ Candidate \subseteq Content

VARIABLES
  bak,      \* <name>.bak-inferencedock
  before,   \* <name>.before-restore
  job,      \* what each process is at, see Idle
  undo,     \* history: what the last apply of each file replaced, Torn if nothing
            \* says so: none yet, another one has begun, or others wrote meanwhile
  spoiled   \* history: the files of which half a backup has been left or restored

agentVars == <<bak, before, job, undo, spoiled>>

Idle == [stage |-> "idle", op |-> "none", held |-> Absent, new |-> Absent]

AgentInit ==
  /\ bak = [f \in AgentFile |-> Absent] /\ before = [f \in AgentFile |-> Absent]
  /\ job = [a \in Agent |-> Idle]
  /\ undo = [f \in AgentFile |-> Torn]
  /\ spoiled = {}

(* What validate_config looks for: the providers of a content, whether one has
   models, is called on the loopback interface, and which keys it refers to. *)
Providers(content) == content.providers
HasModels(p) == p.models
Loopback(p) == p.loopback
References(p) == p.refs

(* validate_config: some provider has models, and none that is called on the
   loopback interface refers to an unset key or, for dsh, lacks its
   authorization.  All else (reasoning, inputs, limits) is valid in Content. *)
Validates(content, env) ==
  /\ content \in Content
  /\ \E p \in Providers(content) : HasModels(p)
  /\ \A p \in Providers(content) :
       /\ p.listed \subseteq env
       /\ Loopback(p) => References(p) \subseteq env /\ p.authorized

(* Whether load_config and validate_config pass a content in some environment.
   The first half of a file may be a file they pass, and may not be. *)
Passes(content) == content = Torn \/ \E env \in Environment : Validates(content, env)

(* A backup of f is being copied, for apply_config. *)
Copying(a, f) == job[a].stage = "copy" /\ job[a].op = "apply" /\ claim[a] = f

(* A copy of the destination is begun; there is none of a file that is absent. *)
BeginCopy(a, f, op, new) ==
  /\ job' = [job EXCEPT ![a] =
       [stage |-> IF file[f] = Absent THEN "write" ELSE "copy", op |-> op, held |-> file[f], new |-> new]]
  /\ Claim(a, f)

(* apply_config up to its copy. *)
Apply(a, f) ==
  /\ job[a] = Idle
  /\ \E new \in Candidate, env \in Environment : Validates(new, env) /\ BeginCopy(a, f, "apply", new)
  /\ bak' = [bak EXCEPT ![f] = IF file[f] = Absent THEN @ ELSE Torn]
  /\ undo' = [undo EXCEPT ![f] = Torn]
  /\ UNCHANGED <<before, spoiled>>

(* restore_config up to its copy: it restores the sibling backup only. *)
Restore(a, f) ==
  /\ job[a] = Idle
  /\ Passes(bak[f])
  /\ BeginCopy(a, f, "restore", Absent)
  /\ before' = [before EXCEPT ![f] = IF file[f] = Absent THEN @ ELSE Torn]
  /\ UNCHANGED <<bak, undo, spoiled>>

(* Mutant of EndCopy: a restore keeps the old content under the same name. *)
EndCopyOver(a) ==
  LET f == claim[a] IN
  /\ job[a].stage = "copy"
  /\ bak' = [bak EXCEPT ![f] = job[a].held]
  /\ job' = [job EXCEPT ![a].stage = "write"]
  /\ UNCHANGED <<fileVars, before, undo, spoiled>>

(* The copy is complete. *)
EndCopy(a) ==
  LET f == claim[a] IN
  /\ job[a].stage = "copy"
  /\ IF job[a].op = "apply"
     THEN bak' = [bak EXCEPT ![f] = job[a].held] /\ UNCHANGED before
     ELSE before' = [before EXCEPT ![f] = job[a].held] /\ UNCHANGED bak
  /\ job' = [job EXCEPT ![a].stage = "write"]
  /\ UNCHANGED <<fileVars, undo, spoiled>>

(* The new content, for restore_config what the backup holds by now, is written
   beside the destination and put in its place. *)
Replace(a) ==
  LET f == claim[a] IN
  /\ job[a].stage = "write"
  /\ IF job[a].op = "apply"
     THEN /\ PutClaimed(a, job[a].new)
          /\ undo' = [undo EXCEPT ![f] = IF a \in raced \/ job[a].held = Absent THEN Torn ELSE job[a].held]
     ELSE PutClaimed(a, bak[f]) /\ UNCHANGED undo
  /\ job' = [job EXCEPT ![a] = Idle]
  /\ spoiled' = spoiled \cup {g \in {f} : job[a].op = "restore" /\ \E b \in Agent : Copying(b, g)}
  /\ UNCHANGED <<bak, before>>

(* Mutant of AgentFails: the destination was written in place. *)
AgentFailsInPlace(a) ==
  /\ job[a] # Idle
  /\ IF job[a].stage = "write" THEN PutClaimed(a, Torn) ELSE Drop(a)
  /\ job' = [job EXCEPT ![a] = Idle]
  /\ spoiled' = spoiled \cup {f \in AgentFile : Copying(a, f)}
  /\ UNCHANGED <<bak, before, undo>>

(* An OSError, or the death of the process: the destination is left alone, and
   so is half a copy of it. *)
AgentFails(a) ==
  /\ job[a] # Idle
  /\ Drop(a)
  /\ job' = [job EXCEPT ![a] = Idle]
  /\ spoiled' = spoiled \cup {f \in AgentFile : Copying(a, f)}
  /\ UNCHANGED <<bak, before, undo>>

AgentStep(a) ==
  \/ \E f \in AgentFile : Apply(a, f) \/ Restore(a, f)
  \/ EndCopy(a) \/ Replace(a) \/ AgentFails(a)

(* Until another apply begins, the backup is what the last one replaced:
   restores, failures and deaths of the tool, edits, and the migration helper
   leave it alone, so a restore still undoes that apply.  About the fixed
   names of apply_config and restore_config (agent_config.py:301, 330). *)
BackupIsLastReplaced == \A f \in AgentFile : undo[f] # Torn => bak[f] = undo[f]
=============================================================================
