----------------------------- MODULE ClientTools -----------------------------
(***************************************************************************)
(* The agent configuration tool and the migration helper at work on the    *)
(* same files, with the owners of the files.                               *)
(***************************************************************************)
EXTENDS AgentConfig, Migration

ASSUME ToolsAssumption == Tool = Agent \cup Migrator /\ Agent \cap Migrator = {}

(* What a line is rewritten to is a content again. *)
ASSUME RewriteAssumption ==
  \A t \in Target : \A ports \in {LegacyPorts(t)} \cup Override : \A c \in Content :
    Rewritten(t, ports, c) \in Content

vars == <<fileVars, agentVars, migrationVars>>

Init == FilesInit /\ AgentInit /\ MigrationInit

Next ==
  \/ \E a \in Agent : AgentStep(a) /\ UNCHANGED migrationVars
  \/ \E m \in Migrator : MigrationStep(m) /\ UNCHANGED agentVars
  \/ \E f \in File : Edit(f) /\ UNCHANGED <<agentVars, migrationVars>>

Spec == Init /\ [][Next]_vars

-----------------------------------------------------------------------------
(* Every variable has its type.  A file of which half is in place, instead of
   being whole or absent, is one on which a process of apply_config broke off
   its copy, or was at it while another restored: the tools write beside a file
   and rename, whatever fails or dies.  About os.replace of a new file
   (agent_config.py:305-311, 333-339, migration_helper.py:195-203); a backup that
   was broken off may be restored, since only its providers are looked at (328). *)
ToolsTypeOK ==
  /\ file \in [File -> Bytes] /\ edits \in 0 .. MaxEdits
  /\ \A f \in File : file[f] = Torn => f \in spoiled
  /\ spoiled \subseteq AgentFile
  /\ claim \in [Tool -> File \cup {NoFile}] /\ raced \subseteq Tool
  /\ {bak, before, undo} \subseteq [AgentFile -> Bytes]
  /\ job \in [Agent -> [stage : {"idle", "copy", "write"}, op : {"none", "apply", "restore"},
                       held : Bytes, new : Whole]]
  /\ target \in Target
  /\ next \in [Migrator -> 1 .. Len(Arguments) + 1]
  /\ phase \in [Migrator -> {"idle", "check", "copy", "write"}]
  /\ stamps \in [File -> SUBSET (Content \cup {Torn})]
  /\ replaced \in [Migrator -> SUBSET DOMAIN Arguments]

(* What a tool replaces is in one of the backups at that moment, and what the
   helper replaces is what it planned from: an edit since the plan is refused.
   Only an edit after the tool's last look is lost.  About the copies, and the
   hash of the plan, being taken some steps before os.replace
   (agent_config.py:301-311, migration_helper.py:195-206); every helper is taken
   to have found a name of its own for its backup. *)
ReplacedIsKept ==
  [][\A t \in Tool : LET f == claim[t] IN
       (f # NoFile /\ claim'[t] = NoFile /\ file' # file /\ t \notin raced /\ file[f] # Absent) =>
         IF t \in Agent THEN file[f] \in {bak[f], before[f]}
         ELSE file[f] \in stamps[f] /\ file[f] = Current(t).source
    ]_vars
=============================================================================
