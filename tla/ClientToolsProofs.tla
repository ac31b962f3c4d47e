-------------------------- MODULE ClientToolsProofs --------------------------
(***************************************************************************)
(* Theorems about ClientTools, for any number of files, processes, edits,  *)
(* targets and arguments.  What depends on what is in the backups of the   *)
(* agent configuration tool is true when one process of it is at work at a *)
(* time.                                                                   *)
(***************************************************************************)
EXTENDS ClientTools, FiniteSetTheorems, TLAPS

(* apply_config and restore_config use fixed names and no lock: two processes
   on one file could restore a copy the other has just begun. *)
OneAgent == \A a, b \in Agent : a = b

Item == [source : Bytes, new : Bytes, changed : BOOLEAN]

(* A process that is at work has claimed its file; what it holds is still in
   the file if nobody has interfered. *)
AgentShape(a) ==
  LET j == job[a]
      f == claim[a] IN
  /\ j = Idle => f = NoFile
  /\ j # Idle =>
       /\ j.stage \in {"copy", "write"} /\ j.op \in {"apply", "restore"} /\ f \in AgentFile
       /\ j.op = "apply" => j.new \in Content
       /\ j.held = Torn => f \in spoiled
       /\ a \notin raced => file[f] = j.held

(* What a process has copied is in the backup. *)
AgentKept(a) ==
  LET j == job[a]
      f == claim[a] IN
  j # Idle =>
    /\ j.op = "apply" => undo[f] = Torn
    /\ (j.stage = "write" /\ j.held # Absent) =>
         IF j.op = "apply" THEN bak[f] = j.held ELSE before[f] = j.held

(* Where half a file may be, other than in place. *)
Halves ==
  /\ \A f \in AgentFile : bak[f] = Torn => (f \in spoiled \/ \E b \in Agent : Copying(b, f))
  /\ \A m \in Migrator : \A i \in DOMAIN plan[m] : plan[m][i].new = Torn => Arguments[i] \in spoiled

(* A run of the helper that has checked a file has claimed it, and has a plan
   for it, that is still from what is in it if nobody has interfered. *)
MigratorShape(m) ==
  LET f == claim[m] IN
  /\ plan[m] = <<>> \/ plan[m] \in [DOMAIN Arguments -> Item]
  /\ phase[m] # "idle" => plan[m] \in [DOMAIN Arguments -> Item]
  /\ phase[m] \in {"idle", "check"} => f = NoFile
  /\ phase[m] \in {"copy", "write"} =>
       /\ next[m] \in DOMAIN Arguments /\ f = Arguments[next[m]]
       /\ m \notin raced => file[f] = Current(m).source
       /\ (phase[m] = "write" /\ m \notin raced) => file[f] \in stamps[f]

ToolsInv ==
  /\ ToolsTypeOK /\ plan \in [Migrator -> {<<>>} \cup [DOMAIN Arguments -> Item]]
  /\ legacy \in {LegacyPorts(target)} \cup Override
  /\ \A a \in Agent : AgentShape(a)
  /\ \A m \in Migrator : MigratorShape(m)
  /\ Halves

(* With one process of the agent configuration tool. *)
KeptInv == ToolsInv /\ (\A a \in Agent : AgentKept(a)) /\ BackupIsLastReplaced

-----------------------------------------------------------------------------
(* The rewriting of a line. *)

(* The model a name stands for is the only one that has it. *)
LEMMA NamedIsOne ==
  ASSUME NEW t \in Target, NEW alias
  PROVE  \/ /\ Named(t, alias) = {}
            /\ \A m \in t.models : alias \in Aliases(m) => \E n \in t.models : n # m /\ alias \in Aliases(n)
         \/ \E m \in t.models :
              /\ Named(t, alias) = {m} /\ alias \in Aliases(m)
              /\ \A n \in t.models : alias \in Aliases(n) => n = m
<1> DEFINE ms == {m \in t.models : alias \in Aliases(m)}
<1>1. IsFiniteSet(ms)
  <2>1. IsFiniteSet(t.models)
    BY MigrationAssumption
  <2> QED BY <2>1, FS_Subset
<1>2. Cardinality(ms) = 1 <=> \E m : ms = {m}
  BY <1>1, FS_Singleton
<1>3. Named(t, alias) = IF Cardinality(ms) = 1 THEN ms ELSE {}
  BY DEF Named
<1>4. CASE Cardinality(ms) = 1
  BY <1>2, <1>3, <1>4
<1>5. CASE Cardinality(ms) # 1
  <2>1. \A m : ms # {m}
    BY <1>2, <1>5
  <2>2. ASSUME NEW m \in t.models, alias \in Aliases(m)
        PROVE  \E n \in t.models : n # m /\ alias \in Aliases(n)
    <3>1. m \in ms /\ ms # {m}
      BY <2>1, <2>2
    <3> QED BY <3>1
  <2> QED BY <1>3, <1>5, <2>2
<1> QED BY <1>4, <1>5

(* What a line becomes, field by field. *)
LEMMA RewrittenFields ==
  ASSUME NEW t, NEW ports, NEW c \in Content
  PROVE  /\ Rewritten(t, ports, c).port = IF c.port \in ports THEN t.listen ELSE c.port
         /\ Rewritten(t, ports, c).model = IF Named(t, c.model) = {} THEN c.model
                                           ELSE (CHOOSE m \in Named(t, c.model) : TRUE).name
         /\ Rewritten(t, ports, c).providers = c.providers
<1>1. c = [port |-> c.port, model |-> c.model, providers |-> c.providers]
  BY FilesAssumption
<1> QED BY <1>1 DEF Rewritten

(* Rewritten lines settle after one time. *)
LEMMA RewriteOnce ==
  ASSUME NEW t \in Target, NEW ports \in {LegacyPorts(t)} \cup Override, NEW c \in Content
  PROVE  LET once == Rewritten(t, ports, c) IN
         /\ Rewritten(t, ports, once) = once
         /\ once.port \in {c.port, t.listen}
         /\ (\E m, n \in t.models : m # n /\ c.model \in Aliases(m) \cap Aliases(n)) => once.model = c.model
<1> DEFINE once == Rewritten(t, ports, c)
           twice == Rewritten(t, ports, once)
<1>1. once \in Content /\ twice \in Content
  BY RewriteAssumption
<1>2. /\ once.port = IF c.port \in ports THEN t.listen ELSE c.port
      /\ once.model = IF Named(t, c.model) = {} THEN c.model ELSE (CHOOSE m \in Named(t, c.model) : TRUE).name
      /\ once.providers = c.providers
  BY RewrittenFields
<1> HIDE DEF once
<1>3. /\ twice.port = IF once.port \in ports THEN t.listen ELSE once.port
      /\ twice.model = IF Named(t, once.model) = {} THEN once.model ELSE (CHOOSE m \in Named(t, once.model) : TRUE).name
      /\ twice.providers = once.providers
  BY <1>1, RewrittenFields
<1> HIDE DEF twice
<1>4. twice.port = once.port
  BY <1>2, <1>3
<1>5. twice.model = once.model
  <2>1. CASE Named(t, c.model) = {}
    BY <1>2, <1>3, <2>1
  <2>2. CASE Named(t, c.model) # {}
    <3>1. PICK m \in t.models : Named(t, c.model) = {m}
      BY <2>2, NamedIsOne
    <3>2. once.model = m.name
      BY <1>2, <3>1
    <3>3. m.name \in Aliases(m)
      BY DEF Aliases
    <3>4. CASE Named(t, once.model) = {}
      BY <1>3, <3>4
    <3>5. CASE Named(t, once.model) # {}
      <4>1. Named(t, m.name) = {m}
        BY <3>2, <3>3, <3>5, NamedIsOne
      <4> QED BY <1>3, <3>2, <4>1
    <3> QED BY <3>4, <3>5
  <2> QED BY <2>1, <2>2
<1>6. twice = once
  <2>1. /\ once = [port |-> once.port, model |-> once.model, providers |-> once.providers]
        /\ twice = [port |-> twice.port, model |-> twice.model, providers |-> twice.providers]
    BY <1>1, FilesAssumption
  <2> QED BY <1>3, <1>4, <1>5, <2>1
<1>7. (\E m, n \in t.models : m # n /\ c.model \in Aliases(m) \cap Aliases(n)) => once.model = c.model
  <2> SUFFICES ASSUME NEW m \in t.models, NEW n \in t.models, m # n, c.model \in Aliases(m), c.model \in Aliases(n)
               PROVE  once.model = c.model
    OBVIOUS
  <2>1. Named(t, c.model) = {}
    BY NamedIsOne
  <2> QED BY <1>2, <2>1
<1> QED BY <1>2, <1>6, <1>7 DEF once, twice

(* A plan is of files, and half a file is planned only for half a file. *)
LEMMA PlannedTyped ==
  ASSUME target \in Target, legacy \in {LegacyPorts(target)} \cup Override, NEW c \in Bytes, NEW S, NEW i
  PROVE  /\ Planned(c, i \in S) \in Item
         /\ Planned(c, i \in S).new = Torn => c = Torn
<1> DEFINE new == IF c \in Content THEN Rewritten(target, legacy, c) ELSE c
<1>1. new \in Bytes /\ (new = Torn => c = Torn)
  BY RewriteAssumption, FilesAssumption DEF Bytes, Whole
<1> HIDE DEF new
<1>2. Planned(c, i \in S) = [source |-> c, new |-> new, changed |-> new # c \/ (c = Torn /\ i \in S)]
  BY DEF Planned, new
<1> DEFINE changed == new # c \/ (c = Torn /\ i \in S)
<1>3. changed \in BOOLEAN
  OBVIOUS
<1>4. Planned(c, i \in S) = [source |-> c, new |-> new, changed |-> changed]
  BY <1>2
<1> HIDE DEF changed
<1> QED BY <1>1, <1>3, <1>4 DEF Item

-----------------------------------------------------------------------------
(* What a step of one tool does to the claims and files of the others. *)
FilesMove(t) ==
  \/ UNCHANGED fileVars
  \/ \E f \in File : Claim(t, f)
  \/ Drop(t)
  \/ \E c \in Bytes : PutClaimed(t, c) /\ claim[t] \in File

FilesTyped ==
  /\ file \in [File -> Bytes] /\ edits \in 0 .. MaxEdits
  /\ claim \in [Tool -> File \cup {NoFile}] /\ raced \subseteq Tool

(* The files and claims keep their types, *)
LEMMA MoveKeepsTypes ==
  ASSUME FilesTyped, NEW t \in Tool, FilesMove(t)
  PROVE  FilesTyped'
BY DEF FilesTyped, FilesMove, fileVars, Claim, Drop, PutClaimed

(* and the other tools their claims; if one of their files is replaced they are
   raced. *)
LEMMA MoveLeavesOthers ==
  ASSUME FilesTyped, NEW t \in Tool, FilesMove(t), NEW u \in Tool, u # t
  PROVE  /\ claim'[u] = claim[u]
         /\ u \notin raced' => u \notin raced /\ (claim[u] \in File => file'[claim[u]] = file[claim[u]])
<1> USE DEF FilesTyped
<1>1. CASE UNCHANGED fileVars
  BY <1>1 DEF fileVars
<1>2. CASE \E f \in File : Claim(t, f)
  BY <1>2 DEF Claim
<1>3. CASE Drop(t)
  BY <1>3 DEF Drop
<1>4. CASE \E c \in Bytes : PutClaimed(t, c) /\ claim[t] \in File
  BY <1>4 DEF PutClaimed
<1> QED BY <1>1, <1>2, <1>3, <1>4 DEF FilesMove

-----------------------------------------------------------------------------
(* A step of the agent configuration tool: what it does to the files. *)
LEMMA AgentMoves ==
  ASSUME ToolsInv, NEW a \in Agent, AgentStep(a)
  PROVE  FilesMove(a)
<1>1. AgentFile \subseteq File /\ Content \subseteq Bytes /\ bak \in [AgentFile -> Bytes]
  BY AgentAssumption DEF ToolsInv, ToolsTypeOK, Bytes, Whole
<1>2. CASE \E f \in AgentFile : Apply(a, f) \/ Restore(a, f)
  BY <1>1, <1>2 DEF Apply, Restore, BeginCopy, FilesMove
<1>3. CASE EndCopy(a)
  BY <1>3 DEF EndCopy, FilesMove
<1>4. CASE Replace(a)
  <2>1. job[a] # Idle
    BY <1>4 DEF Replace, Idle
  <2>2. /\ job[a].op \in {"apply", "restore"} /\ claim[a] \in File
        /\ job[a].op = "apply" => job[a].new \in Bytes
        /\ bak[claim[a]] \in Bytes
    BY <1>1, <2>1 DEF ToolsInv, AgentShape
  <2>3. \E c \in Bytes : PutClaimed(a, c)
    BY <1>4, <2>2 DEF Replace
  <2> QED BY <2>2, <2>3 DEF FilesMove
<1>5. CASE AgentFails(a)
  BY <1>5 DEF AgentFails, FilesMove
<1> QED BY <1>2, <1>3, <1>4, <1>5 DEF AgentStep

Copies == [AgentFile -> Bytes]
Job == [stage : {"idle", "copy", "write"}, op : {"none", "apply", "restore"}, held : Bytes, new : Whole]

(* Its own variables keep their types. *)
LEMMA AgentTyped ==
  ASSUME ToolsInv, NEW a \in Agent, AgentStep(a)
  PROVE  /\ bak' \in Copies /\ before' \in Copies /\ undo' \in Copies /\ job' \in [Agent -> Job]
         /\ spoiled' \subseteq AgentFile /\ spoiled \subseteq spoiled'
<1>1. /\ bak \in Copies /\ before \in Copies /\ undo \in Copies /\ job \in [Agent -> Job]
      /\ file \in [File -> Bytes] /\ AgentFile \subseteq File /\ spoiled \subseteq AgentFile
  BY AgentAssumption DEF ToolsInv, ToolsTypeOK, Copies, Job
<1>2. Torn \in Bytes /\ Absent \in Whole /\ Candidate \subseteq Whole /\ Idle \in Job /\ job[a] \in Job
  BY <1>1, AgentAssumption DEF Bytes, Whole, Idle, Job
<1>3. ASSUME NEW f \in AgentFile, NEW op \in {"apply", "restore"}, NEW new \in Whole, BeginCopy(a, f, op, new)
      PROVE  job' \in [Agent -> Job]
  BY <1>1, <1>3 DEF BeginCopy, Job
<1>4. CASE \E f \in AgentFile : Apply(a, f) \/ Restore(a, f)
  <2>1. PICK f \in AgentFile : Apply(a, f) \/ Restore(a, f)
    BY <1>4
  <2>2. job' \in [Agent -> Job]
    BY <1>2, <1>3, <2>1 DEF Apply, Restore
  <2>3. bak' \in Copies /\ before' \in Copies /\ undo' \in Copies /\ spoiled' = spoiled
    BY <1>1, <1>2, <2>1 DEF Apply, Restore, Copies
  <2> QED BY <1>1, <2>2, <2>3
<1>5. CASE EndCopy(a)
  <2>1. job[a].held \in Bytes /\ [job[a] EXCEPT !.stage = "write"] \in Job
    BY <1>2 DEF Job
  <2>2. job' \in [Agent -> Job] /\ spoiled' = spoiled
    BY <1>1, <1>5, <2>1 DEF EndCopy
  <2>3. bak' \in Copies /\ before' \in Copies /\ undo' = undo
    BY <1>1, <1>5, <2>1 DEF EndCopy, Copies
  <2> QED BY <1>1, <2>2, <2>3
<1>6. CASE Replace(a)
  <2>1. job[a].held \in Bytes
    BY <1>2 DEF Job
  <2>2. undo' \in Copies
    BY <1>1, <1>2, <1>6, <2>1 DEF Replace, Copies
  <2>3. job[a] # Idle
    BY <1>6 DEF Replace, Idle
  <2>4. claim[a] \in AgentFile
    BY <2>3 DEF ToolsInv, AgentShape
  <2>5. spoiled' \subseteq AgentFile /\ spoiled \subseteq spoiled'
    BY <1>1, <1>6, <2>4 DEF Replace
  <2> QED BY <1>1, <1>2, <1>6, <2>2, <2>5 DEF Replace
<1>7. CASE AgentFails(a)
  BY <1>1, <1>2, <1>7 DEF AgentFails
<1> QED BY <1>4, <1>5, <1>6, <1>7 DEF AgentStep

(* The shape of the process. *)
LEMMA AgentKeeps ==
  ASSUME ToolsInv, NEW a \in Agent, AgentStep(a)
  PROVE  AgentShape(a)'
<1> DEFINE j == job[a]
           f == claim[a]
<1>1. /\ job \in [Agent -> Job] /\ file \in [File -> Bytes] /\ claim \in [Tool -> File \cup {NoFile}]
      /\ AgentFile \subseteq File /\ a \in Tool /\ Candidate \subseteq Content
      /\ \A g \in File : file[g] = Torn => g \in spoiled
  BY AgentAssumption DEF ToolsInv, ToolsTypeOK, Job
<1>2. AgentShape(a)
  BY DEF ToolsInv
<1>3. ASSUME NEW g \in AgentFile, NEW op \in {"apply", "restore"}, NEW new, op = "apply" => new \in Content,
             BeginCopy(a, g, op, new), spoiled' = spoiled
      PROVE  AgentShape(a)'
  <2>1. /\ job'[a] = [stage |-> IF file[g] = Absent THEN "write" ELSE "copy", op |-> op, held |-> file[g], new |-> new]
        /\ claim'[a] = g /\ file' = file
    BY <1>1, <1>3 DEF BeginCopy, Claim
  <2> QED BY <1>1, <1>3, <2>1 DEF AgentShape, Idle
<1>4. CASE \E g \in AgentFile : Apply(a, g) \/ Restore(a, g)
  BY <1>1, <1>3, <1>4 DEF Apply, Restore
<1>5. CASE EndCopy(a)
  <2>1. j.stage = "copy" /\ j # Idle /\ j \in Job
    BY <1>1, <1>5 DEF EndCopy, Idle
  <2>2. job'[a] = [j EXCEPT !.stage = "write"] /\ file' = file /\ claim' = claim /\ raced' = raced /\ spoiled' = spoiled
    BY <1>1, <1>5 DEF EndCopy, fileVars
  <2>3. job'[a].stage = "write" /\ job'[a].op = j.op /\ job'[a].held = j.held /\ job'[a].new = j.new
    BY <2>1, <2>2 DEF Job
  <2>4. /\ j.op \in {"apply", "restore"} /\ f \in AgentFile
        /\ j.op = "apply" => j.new \in Content
        /\ j.held = Torn => f \in spoiled
        /\ a \notin raced => file[f] = j.held
    BY <1>2, <2>1 DEF AgentShape
  <2> QED BY <2>2, <2>3, <2>4 DEF AgentShape, Idle
<1>6. CASE Replace(a)
  BY <1>1, <1>6 DEF Replace, PutClaimed, AgentShape
<1>7. CASE AgentFails(a)
  BY <1>1, <1>7 DEF AgentFails, Drop, AgentShape
<1> QED BY <1>4, <1>5, <1>6, <1>7 DEF AgentStep

(* Half a file comes from where one was before, or from a copy under way. *)
LEMMA AgentKeepsHalves ==
  ASSUME ToolsInv, NEW a \in Agent, AgentStep(a), UNCHANGED migrationVars
  PROVE  (\A f \in File : file'[f] = Torn => f \in spoiled') /\ Halves'
<1> DEFINE j == job[a]
           f == claim[a]
<1>1. /\ bak \in Copies /\ job \in [Agent -> Job] /\ file \in [File -> Bytes]
      /\ claim \in [Tool -> File \cup {NoFile}] /\ AgentFile \subseteq File /\ Agent \subseteq Tool
      /\ \A g \in File : file[g] = Torn => g \in spoiled
      /\ Torn \notin Content \cup {Absent} /\ Candidate \subseteq Content
  BY AgentAssumption, FilesAssumption DEF ToolsInv, ToolsTypeOK, Copies, Job
<1>2. Halves /\ AgentShape(a) /\ spoiled \subseteq spoiled'
  BY AgentTyped DEF ToolsInv
<1>3. \A m \in Migrator : \A i \in DOMAIN plan'[m] : plan'[m][i].new = Torn => Arguments[i] \in spoiled'
  BY <1>2 DEF Halves, migrationVars
<1>4. FilesMove(a) /\ FilesTyped
  BY AgentMoves DEF ToolsInv, ToolsTypeOK, FilesTyped
<1>5. \A b \in Agent : b # a => job'[b] = job[b] /\ claim'[b] = claim[b]
  <2>1. \A b \in Agent : b # a => claim'[b] = claim[b]
    BY <1>1, <1>4, MoveLeavesOthers
  <2>2. \A b \in Agent : b # a => job'[b] = job[b]
    BY <1>1 DEF AgentStep, Apply, Restore, BeginCopy, EndCopy, Replace, AgentFails
  <2> QED BY <2>1, <2>2
<1>6. \A b \in Agent : b # a => \A g : Copying(b, g)' <=> Copying(b, g)
  BY <1>5 DEF Copying
<1>7. ASSUME NEW g \in AgentFile, Apply(a, g)
      PROVE  (\A h \in File : file'[h] = Torn => h \in spoiled') /\ Halves'
  <2>1. PICK new \in Content : BeginCopy(a, g, "apply", new)
    BY <1>1, <1>7 DEF Apply
  <2>2. j = Idle /\ file' = file /\ claim'[a] = g
        /\ job'[a] = [stage |-> IF file[g] = Absent THEN "write" ELSE "copy", op |-> "apply", held |-> file[g], new |-> new]
    BY <1>1, <1>7, <2>1 DEF Apply, BeginCopy, Claim
  <2>3. \A h \in AgentFile : h # g => bak'[h] = bak[h]
    BY <1>1, <1>7 DEF Apply, Copies
  <2>4. file[g] # Absent => Copying(a, g)'
    BY <2>2 DEF Copying
  <2>5. file[g] = Absent => bak'[g] = bak[g]
    BY <1>1, <1>7 DEF Apply, Copies
  <2>6. \A h : ~Copying(a, h)
    BY <2>2 DEF Copying, Idle
  <2>7. \A h \in AgentFile : bak'[h] = Torn => (h \in spoiled' \/ \E b \in Agent : Copying(b, h)')
    <3> SUFFICES ASSUME NEW h \in AgentFile, bak'[h] = Torn, h \notin spoiled'
                 PROVE  \E b \in Agent : Copying(b, h)'
      OBVIOUS
    <3>1. CASE h = g /\ file[g] # Absent
      BY <2>4, <3>1
    <3>2. CASE ~(h = g /\ file[g] # Absent)
      <4>1. bak[h] = Torn /\ h \notin spoiled
        BY <1>2, <2>3, <2>5, <3>2
      <4>2. PICK b \in Agent : Copying(b, h)
        BY <1>2, <4>1 DEF Halves
      <4> QED BY <1>6, <2>6, <4>2
    <3> QED BY <3>1, <3>2
  <2> QED BY <1>1, <1>2, <1>3, <2>2, <2>7 DEF Halves
<1>8. ASSUME NEW g \in AgentFile, Restore(a, g)
      PROVE  (\A h \in File : file'[h] = Torn => h \in spoiled') /\ Halves'
  <2>1. j = Idle /\ file' = file /\ bak' = bak
    BY <1>8 DEF Restore, BeginCopy, Claim
  <2>2. \A h : ~Copying(a, h)
    BY <2>1 DEF Copying, Idle
  <2>3. \A h \in AgentFile : bak'[h] = Torn => (h \in spoiled' \/ \E b \in Agent : Copying(b, h)')
    BY <1>2, <1>6, <2>1, <2>2 DEF Halves
  <2> QED BY <1>1, <1>2, <1>3, <2>1, <2>3 DEF Halves
<1>9. CASE EndCopy(a)
  <2>1. j # Idle /\ file' = file
    BY <1>9 DEF EndCopy, Idle, fileVars
  <2>2. f \in AgentFile /\ (j.held = Torn => f \in spoiled)
    BY <1>2, <2>1 DEF AgentShape
  <2>3. CASE j.op = "apply"
    <3>1. bak'[f] = j.held /\ \A h \in AgentFile : h # f => bak'[h] = bak[h]
      BY <1>1, <1>9, <2>2, <2>3 DEF EndCopy, Copies
    <3>2. \A h : h # f => ~Copying(a, h)
      BY DEF Copying
    <3>3. \A h \in AgentFile : bak'[h] = Torn => (h \in spoiled' \/ \E b \in Agent : Copying(b, h)')
      BY <1>2, <1>6, <2>2, <3>1, <3>2 DEF Halves
    <3> QED BY <1>1, <1>2, <1>3, <2>1, <3>3 DEF Halves
  <2>4. CASE j.op # "apply"
    <3>1. bak' = bak /\ \A h : ~Copying(a, h)
      BY <1>9, <2>4 DEF EndCopy, Copying
    <3>2. \A h \in AgentFile : bak'[h] = Torn => (h \in spoiled' \/ \E b \in Agent : Copying(b, h)')
      BY <1>2, <1>6, <3>1 DEF Halves
    <3> QED BY <1>1, <1>2, <1>3, <2>1, <3>2 DEF Halves
  <2> QED BY <2>3, <2>4
<1>10. CASE Replace(a)
  <2>1. j.stage = "write" /\ j # Idle /\ bak' = bak
    BY <1>10 DEF Replace, Idle
  <2>2. \A h : ~Copying(a, h)
    BY <2>1 DEF Copying
  <2>3. \A h \in AgentFile : bak'[h] = Torn => (h \in spoiled' \/ \E b \in Agent : Copying(b, h)')
    BY <1>2, <1>6, <2>1, <2>2 DEF Halves
  <2>4. f \in AgentFile /\ j.op \in {"apply", "restore"} /\ (j.op = "apply" => j.new # Torn)
    BY <1>1, <1>2, <2>1 DEF AgentShape
  <2>5. \A h \in File : h # f => file'[h] = file[h]
    BY <1>1, <1>10 DEF Replace, PutClaimed
  <2>6. file'[f] = Torn => f \in spoiled'
    <3>1. CASE j.op = "apply"
      BY <1>1, <1>10, <2>4, <3>1 DEF Replace, PutClaimed
    <3>2. CASE j.op = "restore"
      <4>1. file'[f] = bak[f]
        BY <1>1, <1>10, <2>4, <3>2 DEF Replace, PutClaimed
      <4>2. (\E b \in Agent : Copying(b, f)) => f \in spoiled'
        BY <1>10, <3>2 DEF Replace
      <4> QED BY <1>2, <2>4, <4>1, <4>2 DEF Halves
    <3> QED BY <2>4, <3>1, <3>2
  <2> QED BY <1>1, <1>2, <1>3, <2>3, <2>5, <2>6 DEF Halves
<1>11. CASE AgentFails(a)
  <2>1. file' = file /\ bak' = bak
    BY <1>11 DEF AgentFails, Drop
  <2>2. \A h \in AgentFile : Copying(a, h) => h \in spoiled'
    BY <1>11 DEF AgentFails
  <2>3. \A h \in AgentFile : bak'[h] = Torn => (h \in spoiled' \/ \E b \in Agent : Copying(b, h)')
    BY <1>2, <1>6, <2>1, <2>2 DEF Halves
  <2> QED BY <1>1, <1>2, <1>3, <2>1, <2>3 DEF Halves
<1> QED BY <1>7, <1>8, <1>9, <1>10, <1>11 DEF AgentStep

(* The backup of a process that works alone. *)
LEMMA AgentKeepsBackup ==
  ASSUME KeptInv, NEW a \in Agent, AgentStep(a)
  PROVE  AgentKept(a)' /\ BackupIsLastReplaced'
<1> DEFINE j == job[a]
           f == claim[a]
<1>1. /\ bak \in Copies /\ before \in Copies /\ undo \in Copies /\ job \in [Agent -> Job]
      /\ file \in [File -> Bytes] /\ claim \in [Tool -> File \cup {NoFile}] /\ a \in Tool
      /\ Candidate \subseteq Content
  BY AgentAssumption DEF KeptInv, ToolsInv, ToolsTypeOK, Copies, Job
<1>2. AgentShape(a) /\ AgentKept(a) /\ BackupIsLastReplaced
  BY DEF KeptInv, ToolsInv
<1>3. ASSUME NEW g \in AgentFile, Apply(a, g) PROVE AgentKept(a)' /\ BackupIsLastReplaced'
  <2>1. PICK new \in Content : BeginCopy(a, g, "apply", new)
    BY <1>1, <1>3 DEF Apply
  <2>2. /\ job'[a] = [stage |-> IF file[g] = Absent THEN "write" ELSE "copy", op |-> "apply", held |-> file[g], new |-> new]
        /\ claim'[a] = g
    BY <1>1, <2>1 DEF BeginCopy, Claim
  <2>3. undo'[g] = Torn /\ \A h \in AgentFile \ {g} : undo'[h] = undo[h] /\ bak'[h] = bak[h]
    BY <1>1, <1>3 DEF Apply, Copies
  <2>4. AgentKept(a)'
    BY <2>2, <2>3 DEF AgentKept, Idle
  <2>5. BackupIsLastReplaced'
    BY <1>2, <2>3 DEF BackupIsLastReplaced
  <2> QED BY <2>4, <2>5
<1>4. ASSUME NEW g \in AgentFile, Restore(a, g) PROVE AgentKept(a)' /\ BackupIsLastReplaced'
  <2>1. BeginCopy(a, g, "restore", Absent) /\ bak' = bak /\ undo' = undo
    BY <1>4 DEF Restore
  <2>2. /\ job'[a] = [stage |-> IF file[g] = Absent THEN "write" ELSE "copy", op |-> "restore", held |-> file[g], new |-> Absent]
        /\ claim'[a] = g
    BY <1>1, <2>1 DEF BeginCopy, Claim
  <2>3. AgentKept(a)'
    BY <2>2 DEF AgentKept, Idle
  <2>4. BackupIsLastReplaced'
    BY <1>2, <2>1 DEF BackupIsLastReplaced
  <2> QED BY <2>3, <2>4
<1>5. CASE EndCopy(a)
  <2>1. j.stage = "copy" /\ j # Idle /\ j \in Job
    BY <1>1, <1>5 DEF EndCopy, Idle
  <2>2. job'[a] = [j EXCEPT !.stage = "write"] /\ claim' = claim /\ undo' = undo
    BY <1>1, <1>5 DEF EndCopy, fileVars
  <2>3. job'[a].op = j.op /\ job'[a].held = j.held
    BY <2>1, <2>2 DEF Job
  <2>4. f \in AgentFile /\ (j.op = "apply" => undo[f] = Torn)
    BY <1>2, <2>1 DEF AgentShape, AgentKept
  <2>5. CASE j.op = "apply"
    <3>1. bak'[f] = j.held /\ \A h \in AgentFile \ {f} : bak'[h] = bak[h]
      BY <1>1, <1>5, <2>4, <2>5 DEF EndCopy, Copies
    <3>2. AgentKept(a)'
      BY <2>2, <2>3, <2>4, <2>5, <3>1 DEF AgentKept
    <3>3. BackupIsLastReplaced'
      BY <1>2, <2>2, <2>4, <2>5, <3>1 DEF BackupIsLastReplaced
    <3> QED BY <3>2, <3>3
  <2>6. CASE j.op # "apply"
    <3>1. before'[f] = j.held /\ bak' = bak
      BY <1>1, <1>5, <2>4, <2>6 DEF EndCopy, Copies
    <3>2. AgentKept(a)'
      BY <2>2, <2>3, <2>6, <3>1 DEF AgentKept
    <3>3. BackupIsLastReplaced'
      BY <1>2, <2>2, <3>1 DEF BackupIsLastReplaced
    <3> QED BY <3>2, <3>3
  <2> QED BY <2>5, <2>6
<1>6. CASE Replace(a)
  <2>1. j.stage = "write" /\ j # Idle
    BY <1>6 DEF Replace, Idle
  <2>2. job'[a] = Idle /\ bak' = bak
    BY <1>1, <1>6 DEF Replace
  <2>3. AgentKept(a)'
    BY <2>2 DEF AgentKept
  <2>4. /\ f \in AgentFile
        /\ (j.op = "apply" /\ j.held # Absent) => bak[f] = j.held
    BY <1>2, <2>1 DEF AgentShape, AgentKept
  <2>5. \A h \in AgentFile : undo'[h] = undo[h] \/ undo'[h] = Torn \/ (h = f /\ undo'[h] = bak[h])
    BY <1>1, <1>6, <2>4 DEF Replace, Copies
  <2>6. BackupIsLastReplaced'
    BY <1>2, <2>2, <2>5 DEF BackupIsLastReplaced
  <2> QED BY <2>3, <2>6
<1>7. CASE AgentFails(a)
  <2>1. job'[a] = Idle /\ bak' = bak /\ undo' = undo
    BY <1>1, <1>7 DEF AgentFails
  <2> QED BY <1>2, <2>1 DEF AgentKept, BackupIsLastReplaced
<1> QED BY <1>3, <1>4, <1>5, <1>6, <1>7 DEF AgentStep

(* A process of which nothing changes but what others do to its file. *)
LEMMA OthersKeepAgents ==
  ASSUME ToolsInv, NEW a \in Agent, job'[a] = job[a], spoiled \subseteq spoiled', claim'[a] = claim[a],
         a \notin raced' => a \notin raced /\ (claim[a] \in File => file'[claim[a]] = file[claim[a]])
  PROVE  AgentShape(a)'
BY AgentAssumption DEF ToolsInv, AgentShape

(* A run of the helper that is not disturbed. *)
LEMMA OthersKeepMigrators ==
  ASSUME ToolsInv, UNCHANGED migrationVars, NEW m \in Migrator,
         claim'[m] = claim[m],
         m \notin raced' => m \notin raced /\ (claim[m] \in File => file'[claim[m]] = file[claim[m]])
  PROVE  MigratorShape(m)'
<1>1. phase[m] \in {"copy", "write"} => claim[m] \in File
  BY MigrationAssumption DEF ToolsInv, MigratorShape
<1> QED BY <1>1 DEF ToolsInv, MigratorShape, migrationVars, Current

(* A step of the agent configuration tool keeps the invariant. *)
LEMMA AgentStepKeeps ==
  ASSUME ToolsInv, NEW a \in Agent, AgentStep(a), UNCHANGED migrationVars
  PROVE  ToolsInv'
<1>1. FilesMove(a) /\ a \in Tool /\ Agent \subseteq Tool /\ FilesTyped
  BY AgentMoves, AgentAssumption DEF ToolsInv, ToolsTypeOK, FilesTyped
<1>2. FilesTyped'
  BY <1>1, MoveKeepsTypes
<1>3. (\A f \in File : file'[f] = Torn => f \in spoiled') /\ Halves'
  BY AgentKeepsHalves
<1>4. ToolsTypeOK'
  BY <1>2, <1>3, AgentTyped DEF ToolsInv, ToolsTypeOK, FilesTyped, migrationVars, Copies, Job
<1>5. \A u \in Tool : u # a =>
        /\ claim'[u] = claim[u]
        /\ u \notin raced' => u \notin raced /\ (claim[u] \in File => file'[claim[u]] = file[claim[u]])
  BY <1>1, MoveLeavesOthers
<1>6. \A b \in Agent : AgentShape(b)'
  <2> SUFFICES ASSUME NEW b \in Agent, b # a PROVE AgentShape(b)'
    BY AgentKeeps
  <2>1. job'[b] = job[b]
    <3>1. job \in [Agent -> Job]
      BY DEF ToolsInv, ToolsTypeOK, Job
    <3> QED BY <3>1 DEF AgentStep, Apply, Restore, BeginCopy, EndCopy, Replace, AgentFails
  <2> QED BY <1>1, <1>5, <2>1, AgentTyped, OthersKeepAgents
<1>7. \A m \in Migrator : MigratorShape(m)'
  <2> SUFFICES ASSUME NEW m \in Migrator PROVE MigratorShape(m)'
    OBVIOUS
  <2>1. m \in Tool /\ m # a
    BY ToolsAssumption
  <2> QED BY <1>5, <2>1, OthersKeepMigrators
<1>8. /\ plan' \in [Migrator -> {<<>>} \cup [DOMAIN Arguments -> Item]]
      /\ legacy' \in {LegacyPorts(target') } \cup Override
  BY DEF ToolsInv, migrationVars
<1> QED BY <1>3, <1>4, <1>6, <1>7, <1>8 DEF ToolsInv

-----------------------------------------------------------------------------
(* A step of the migration helper. *)

(* What it does to the files. *)
LEMMA MigratorMoves ==
  ASSUME ToolsInv, NEW m \in Migrator, MigrationStep(m)
  PROVE  FilesMove(m)
<1>1. /\ MigratorShape(m) /\ phase[m] \in {"idle", "check", "copy", "write"}
      /\ \A i \in DOMAIN Arguments : Arguments[i] \in File
  BY MigrationAssumption DEF ToolsInv, ToolsTypeOK
<1>2. CASE Plan(m) \/ Pass(m) \/ Refuse(m) \/ Copy(m) \/ Finish(m)
  BY <1>2 DEF Plan, Pass, Refuse, Copy, Finish, FilesMove
<1>3. CASE Check(m)
  BY <1>1, <1>3 DEF Check, FilesMove
<1>4. CASE Migrate(m)
  <2>1. phase[m] = "write"
    BY <1>4 DEF Migrate
  <2>2. claim[m] \in File /\ Current(m) \in Item
    BY <1>1, <2>1 DEF MigratorShape, Current
  <2>3. Current(m).new \in Bytes
    BY <2>2 DEF Item
  <2> QED BY <1>4, <2>2, <2>3 DEF Migrate, FilesMove
<1>5. CASE MigrationFails(m)
  BY <1>5 DEF MigrationFails, FilesMove
<1> QED BY <1>2, <1>3, <1>4, <1>5 DEF MigrationStep

(* Its own variables keep their types. *)
LEMMA MigratorTyped ==
  ASSUME ToolsInv, NEW m \in Migrator, MigrationStep(m)
  PROVE  /\ plan' \in [Migrator -> {<<>>} \cup [DOMAIN Arguments -> Item]]
         /\ next' \in [Migrator -> 1 .. Len(Arguments) + 1]
         /\ phase' \in [Migrator -> {"idle", "check", "copy", "write"}]
         /\ stamps' \in [File -> SUBSET (Content \cup {Torn})]
         /\ replaced' \in [Migrator -> SUBSET DOMAIN Arguments]
         /\ target' = target /\ legacy' = legacy
<1>1. /\ plan \in [Migrator -> {<<>>} \cup [DOMAIN Arguments -> Item]]
      /\ next \in [Migrator -> 1 .. Len(Arguments) + 1]
      /\ phase \in [Migrator -> {"idle", "check", "copy", "write"}]
      /\ stamps \in [File -> SUBSET (Content \cup {Torn})]
      /\ replaced \in [Migrator -> SUBSET DOMAIN Arguments]
      /\ file \in [File -> Bytes]
  BY DEF ToolsInv, ToolsTypeOK
<1>2. Len(Arguments) \in Nat /\ DOMAIN Arguments = 1 .. Len(Arguments)
  BY MigrationAssumption
<1>3. MigratorShape(m) /\ \A i \in DOMAIN Arguments : Arguments[i] \in File
  BY MigrationAssumption DEF ToolsInv
<1>4. CASE Plan(m)
  <2>1. PICK some \in SUBSET DOMAIN Arguments :
          plan' = [plan EXCEPT ![m] = [i \in DOMAIN Arguments |-> Planned(file[Arguments[i]], i \in some)]]
    BY <1>4 DEF Plan
  <2>2. [i \in DOMAIN Arguments |-> Planned(file[Arguments[i]], i \in some)] \in [DOMAIN Arguments -> Item]
    BY <1>1, <1>3, PlannedTyped DEF ToolsInv, ToolsTypeOK
  <2>3. plan' \in [Migrator -> {<<>>} \cup [DOMAIN Arguments -> Item]]
    BY <1>1, <2>1, <2>2
  <2>4. next' \in [Migrator -> 1 .. Len(Arguments) + 1]
    BY <1>1, <1>2, <1>4 DEF Plan
  <2>5. replaced' \in [Migrator -> SUBSET DOMAIN Arguments]
    BY <1>1, <1>4 DEF Plan
  <2> QED BY <1>1, <1>4, <2>3, <2>4, <2>5 DEF Plan
<1>5. CASE Pass(m)
  BY <1>1, <1>2, <1>5 DEF Pass
<1>6. CASE Check(m) \/ Refuse(m) \/ Finish(m) \/ MigrationFails(m)
  BY <1>1, <1>6 DEF Check, Refuse, Finish, MigrationFails, Go
<1>7. CASE Copy(m)
  <2>1. claim[m] \in File
    BY <1>3, <1>7 DEF Copy, MigratorShape
  <2>2. file[claim[m]] \in Content \cup {Torn}
    BY <1>1, <1>7, <2>1 DEF Copy, Bytes, Whole
  <2>3. stamps' \in [File -> SUBSET (Content \cup {Torn})]
    BY <1>1, <1>7, <2>1, <2>2 DEF Copy
  <2> QED BY <1>1, <1>7, <2>3 DEF Copy, Go
<1>8. CASE Migrate(m)
  <2>1. next[m] \in DOMAIN Arguments
    BY <1>3, <1>8 DEF Migrate, MigratorShape
  <2>2. next' \in [Migrator -> 1 .. Len(Arguments) + 1]
    BY <1>1, <1>2, <1>8, <2>1 DEF Migrate
  <2>3. replaced' \in [Migrator -> SUBSET DOMAIN Arguments]
    BY <1>1, <1>8, <2>1 DEF Migrate
  <2> QED BY <1>1, <1>8, <2>2, <2>3 DEF Migrate, Go
<1> QED BY <1>4, <1>5, <1>6, <1>7, <1>8 DEF MigrationStep

(* The shape of the run that makes the step. *)
LEMMA MigratorKeeps ==
  ASSUME ToolsInv, NEW m \in Migrator, MigrationStep(m)
  PROVE  MigratorShape(m)'
<1>1. /\ plan \in [Migrator -> {<<>>} \cup [DOMAIN Arguments -> Item]]
      /\ phase \in [Migrator -> {"idle", "check", "copy", "write"}]
      /\ next \in [Migrator -> 1 .. Len(Arguments) + 1]
      /\ stamps \in [File -> SUBSET (Content \cup {Torn})]
      /\ file \in [File -> Bytes] /\ claim \in [Tool -> File \cup {NoFile}]
      /\ m \in Tool /\ NoFile \notin File /\ \A i \in DOMAIN Arguments : Arguments[i] \in File
  BY MigrationAssumption, FilesAssumption DEF ToolsInv, ToolsTypeOK
<1>2. MigratorShape(m)
  BY DEF ToolsInv
<1>3. CASE Plan(m)
  <2>1. phase[m] = "idle" /\ phase'[m] = "check" /\ claim'[m] = claim[m]
    BY <1>1, <1>3 DEF Plan, fileVars
  <2>2. plan' \in [Migrator -> {<<>>} \cup [DOMAIN Arguments -> Item]]
    BY MigratorTyped
  <2>3. PICK some \in SUBSET DOMAIN Arguments :
          plan' = [plan EXCEPT ![m] = [i \in DOMAIN Arguments |-> Planned(file[Arguments[i]], i \in some)]]
    BY <1>3 DEF Plan
  <2>4. plan'[m] \in [DOMAIN Arguments -> Item]
    <3>1. \A i \in DOMAIN Arguments : Planned(file[Arguments[i]], i \in some) \in Item
      BY <1>1, PlannedTyped DEF ToolsInv, ToolsTypeOK
    <3> QED BY <1>1, <2>3, <3>1
  <2> QED BY <1>2, <2>1, <2>4 DEF MigratorShape
<1>4. CASE Pass(m)
  BY <1>1, <1>2, <1>4 DEF Pass, fileVars, MigratorShape
<1>5. CASE Check(m)
  <2>1. /\ phase[m] = "check" /\ phase'[m] = "copy" /\ plan' = plan /\ next' = next /\ file' = file
        /\ next[m] \in DOMAIN Arguments
        /\ claim'[m] = Arguments[next[m]] /\ file[Arguments[next[m]]] = Current(m).source
    BY <1>1, <1>5 DEF Check, Go, Claim
  <2> QED BY <1>2, <2>1 DEF MigratorShape, Current
<1>6. CASE Refuse(m) \/ Finish(m)
  BY <1>1, <1>2, <1>6 DEF Refuse, Finish, Go, fileVars, MigratorShape
<1>7. CASE Copy(m)
  <2>1. /\ phase[m] = "copy" /\ phase'[m] = "write" /\ plan' = plan /\ next' = next
        /\ file' = file /\ claim' = claim /\ raced' = raced
    BY <1>1, <1>7 DEF Copy, Go, fileVars
  <2>2. claim[m] \in File
    BY <1>1, <1>2, <2>1 DEF MigratorShape
  <2>3. file[claim[m]] \in stamps'[claim[m]]
    BY <1>1, <1>7, <2>2 DEF Copy
  <2> QED BY <1>2, <2>1, <2>3 DEF MigratorShape, Current
<1>8. CASE Migrate(m)
  <2>1. phase'[m] = "check" /\ plan' = plan /\ claim'[m] = NoFile /\ phase[m] = "write"
    BY <1>1, <1>8 DEF Migrate, Go, PutClaimed
  <2> QED BY <1>2, <2>1 DEF MigratorShape
<1>9. CASE MigrationFails(m)
  <2>1. phase'[m] = "idle" /\ plan' = plan /\ claim'[m] = NoFile
    BY <1>1, <1>9 DEF MigrationFails, Go, Drop
  <2> QED BY <1>2, <2>1 DEF MigratorShape
<1> QED BY <1>3, <1>4, <1>5, <1>6, <1>7, <1>8, <1>9 DEF MigrationStep

(* The runs of the helper do not disturb each other: the backups only grow. *)
LEMMA OtherRunsKept ==
  ASSUME ToolsInv, NEW m \in Migrator, MigrationStep(m), NEW n \in Migrator, n # m
  PROVE  MigratorShape(n)'
<1>1. FilesTyped /\ MigratorShape(n) /\ n \in Tool /\ m \in Tool /\ FilesMove(m)
  BY MigrationAssumption, MigratorMoves DEF ToolsInv, ToolsTypeOK, FilesTyped
<1>2. /\ claim'[n] = claim[n]
      /\ n \notin raced' => n \notin raced /\ (claim[n] \in File => file'[claim[n]] = file[claim[n]])
  BY <1>1, MoveLeavesOthers
<1>3. plan'[n] = plan[n] /\ next'[n] = next[n] /\ phase'[n] = phase[n]
  BY DEF ToolsInv, ToolsTypeOK, MigrationStep, Plan, Pass, Check, Refuse, Copy, Migrate, Finish, MigrationFails, Go
<1>4. \A f \in File : stamps[f] \subseteq stamps'[f]
  BY DEF ToolsInv, ToolsTypeOK, MigrationStep, Plan, Pass, Check, Refuse, Copy, Migrate, Finish, MigrationFails
<1>5. phase[n] \in {"copy", "write"} => claim[n] \in File
  BY <1>1, MigrationAssumption DEF MigratorShape
<1> QED BY <1>1, <1>2, <1>3, <1>4, <1>5 DEF MigratorShape, Current

(* The helper writes half a file only for half a file. *)
LEMMA MigratorKeepsHalves ==
  ASSUME ToolsInv, NEW m \in Migrator, MigrationStep(m), UNCHANGED agentVars
  PROVE  (\A f \in File : file'[f] = Torn => f \in spoiled') /\ Halves'
<1>1. /\ plan \in [Migrator -> {<<>>} \cup [DOMAIN Arguments -> Item]]
      /\ file \in [File -> Bytes] /\ \A i \in DOMAIN Arguments : Arguments[i] \in File
      /\ \A f \in File : file[f] = Torn => f \in spoiled
      /\ Halves /\ MigratorShape(m) /\ spoiled' = spoiled /\ bak' = bak
  BY MigrationAssumption DEF ToolsInv, ToolsTypeOK, agentVars
<1>2. UNCHANGED agentVars /\ \A b \in Agent : \A f : Copying(b, f)' <=> Copying(b, f)
  <2>1. FilesMove(m) /\ FilesTyped /\ m \in Tool /\ Agent \subseteq Tool /\ m \notin Agent
    BY MigratorMoves, ToolsAssumption DEF ToolsInv, ToolsTypeOK, FilesTyped
  <2>2. \A b \in Agent : claim'[b] = claim[b]
    BY <2>1, MoveLeavesOthers
  <2> QED BY <2>2 DEF Copying, agentVars
<1>3. \A f \in AgentFile : bak'[f] = Torn => (f \in spoiled' \/ \E b \in Agent : Copying(b, f)')
  BY <1>1, <1>2 DEF Halves
<1>4. CASE Plan(m)
  <2>1. PICK some \in SUBSET DOMAIN Arguments :
          plan' = [plan EXCEPT ![m] = [i \in DOMAIN Arguments |-> Planned(file[Arguments[i]], i \in some)]]
    BY <1>4 DEF Plan
  <2>2. \A i \in DOMAIN Arguments :
          Planned(file[Arguments[i]], i \in some).new = Torn => Arguments[i] \in spoiled
    BY <1>1, PlannedTyped DEF ToolsInv, ToolsTypeOK
  <2>3. \A n \in Migrator : \A i \in DOMAIN plan'[n] : plan'[n][i].new = Torn => Arguments[i] \in spoiled'
    <3> SUFFICES ASSUME NEW n \in Migrator, NEW i \in DOMAIN plan'[n], plan'[n][i].new = Torn
                 PROVE  Arguments[i] \in spoiled
      BY <1>1
    <3>1. CASE n = m
      BY <1>1, <2>1, <2>2, <3>1
    <3>2. CASE n # m
      BY <1>1, <2>1, <3>2 DEF Halves
    <3> QED BY <3>1, <3>2
  <2>4. file' = file
    BY <1>4 DEF Plan, fileVars
  <2> QED BY <1>1, <1>3, <2>3, <2>4 DEF Halves
<1>5. ASSUME ~Plan(m)
      PROVE  \A n \in Migrator : \A i \in DOMAIN plan'[n] : plan'[n][i].new = Torn => Arguments[i] \in spoiled'
  <2>1. plan' = plan
    BY <1>5 DEF MigrationStep, Pass, Check, Refuse, Copy, Migrate, Finish, MigrationFails
  <2> QED BY <1>1, <2>1 DEF Halves
<1>6. CASE Migrate(m)
  <2>1. phase[m] = "write" /\ ~Plan(m)
    BY <1>6 DEF Migrate, Plan
  <2>2. next[m] \in DOMAIN Arguments /\ claim[m] = Arguments[next[m]] /\ plan[m] \in [DOMAIN Arguments -> Item]
    BY <1>1, <2>1 DEF MigratorShape
  <2>3. file' = [file EXCEPT ![claim[m]] = plan[m][next[m]].new]
    BY <1>6 DEF Migrate, PutClaimed, Current
  <2>4. plan[m][next[m]].new = Torn => claim[m] \in spoiled
    BY <1>1, <2>2 DEF Halves
  <2> QED BY <1>1, <1>3, <1>5, <2>1, <2>2, <2>3, <2>4 DEF Halves
<1>7. CASE ~Plan(m) /\ ~Migrate(m)
  <2>1. file' = file
    BY <1>7 DEF MigrationStep, Pass, Check, Refuse, Copy, Finish, MigrationFails, Claim, Drop, fileVars
  <2> QED BY <1>1, <1>3, <1>5, <1>7, <2>1 DEF Halves
<1> QED BY <1>4, <1>6, <1>7

(* A step of the migration helper keeps the invariant. *)
LEMMA MigratorStepKeeps ==
  ASSUME ToolsInv, NEW m \in Migrator, MigrationStep(m), UNCHANGED agentVars
  PROVE  ToolsInv'
<1>1. FilesMove(m) /\ m \in Tool /\ FilesTyped
  BY MigratorMoves, MigrationAssumption DEF ToolsInv, ToolsTypeOK, FilesTyped
<1>2. FilesTyped'
  BY <1>1, MoveKeepsTypes
<1>3. ToolsTypeOK' /\ Halves'
  BY <1>2, MigratorTyped, MigratorKeepsHalves DEF ToolsInv, ToolsTypeOK, FilesTyped, agentVars
<1>4. \A a \in Agent : AgentShape(a)'
  <2> SUFFICES ASSUME NEW a \in Agent PROVE AgentShape(a)'
    OBVIOUS
  <2>1. a \in Tool /\ a # m
    BY ToolsAssumption
  <2>2. /\ claim'[a] = claim[a]
        /\ a \notin raced' => a \notin raced /\ (claim[a] \in File => file'[claim[a]] = file[claim[a]])
    BY <1>1, <2>1, MoveLeavesOthers
  <2> QED BY <2>2, OthersKeepAgents DEF agentVars
<1>5. \A n \in Migrator : MigratorShape(n)'
  BY MigratorKeeps, OtherRunsKept
<1>6. /\ plan' \in [Migrator -> {<<>>} \cup [DOMAIN Arguments -> Item]]
      /\ legacy' \in {LegacyPorts(target')} \cup Override
  BY MigratorTyped DEF ToolsInv
<1> QED BY <1>3, <1>4, <1>5, <1>6 DEF ToolsInv

-----------------------------------------------------------------------------
(* An edit by the owner of a file. *)
LEMMA EditStepKeeps ==
  ASSUME ToolsInv, NEW f \in File, Edit(f), UNCHANGED <<agentVars, migrationVars>>
  PROVE  ToolsInv'
<1>1. FilesTyped /\ Written[f] \subseteq Content /\ MaxEdits \in Nat
  BY FilesAssumption DEF ToolsInv, ToolsTypeOK, FilesTyped
<1>2. PICK content \in Whole : Put(f, content)
  BY <1>1 DEF Edit, Whole
<1>3. edits' \in 0 .. MaxEdits
  BY <1>1 DEF FilesTyped, Edit
<1>4. FilesTyped'
  BY <1>1, <1>2, <1>3 DEF FilesTyped, Edit, Put, Bytes
<1>5. \A u \in Tool :
        /\ claim'[u] = claim[u]
        /\ u \notin raced' => u \notin raced /\ (claim[u] \in File => file'[claim[u]] = file[claim[u]])
  BY <1>1, <1>2 DEF FilesTyped, Edit, Put
<1>6. ToolsTypeOK'
  <2>1. \A g \in File : file'[g] = Torn => file[g] = Torn
    BY <1>1, <1>2, FilesAssumption DEF FilesTyped, Put, Whole
  <2> QED BY <1>4, <2>1 DEF ToolsInv, ToolsTypeOK, FilesTyped, agentVars, migrationVars
<1>7. \A a \in Agent : AgentShape(a)'
  BY <1>5, OthersKeepAgents, AgentAssumption DEF agentVars
<1>8. \A m \in Migrator : MigratorShape(m)'
  BY <1>5, OthersKeepMigrators, MigrationAssumption
<1>9. /\ Halves'
      /\ plan' \in [Migrator -> {<<>>} \cup [DOMAIN Arguments -> Item]]
      /\ legacy' \in {LegacyPorts(target')} \cup Override
  BY DEF ToolsInv, Halves, Copying, Edit, agentVars, migrationVars
<1> QED BY <1>6, <1>7, <1>8, <1>9 DEF ToolsInv

(* The invariant. *)
LEMMA ToolsInvHolds == Spec => []ToolsInv
<1>1. Init => ToolsInv
  <2> SUFFICES ASSUME Init PROVE ToolsInv
    OBVIOUS
  <2>1. AgentFile \subseteq File /\ Agent \subseteq Tool /\ Migrator \subseteq Tool /\ Len(Arguments) \in Nat
        /\ MaxEdits \in Nat /\ Written \in [File -> SUBSET Content]
    BY FilesAssumption, AgentAssumption, MigrationAssumption
  <2>2. FilesTyped
    BY <2>1 DEF Init, FilesInit, FilesTyped, Bytes, Whole
  <2>3. bak \in Copies /\ before \in Copies /\ undo \in Copies /\ job \in [Agent -> Job]
    BY DEF Init, AgentInit, Idle, Job, Copies, Bytes, Whole
  <2>4. /\ target \in Target /\ next \in [Migrator -> 1 .. Len(Arguments) + 1]
        /\ phase \in [Migrator -> {"idle", "check", "copy", "write"}]
        /\ stamps \in [File -> SUBSET (Content \cup {Torn})]
        /\ replaced \in [Migrator -> SUBSET DOMAIN Arguments]
    BY <2>1 DEF Init, MigrationInit
  <2>5. ToolsTypeOK
    <3>1. \A f \in File : file[f] # Torn
      BY <2>1, FilesAssumption DEF Init, FilesInit
    <3>2. spoiled \subseteq AgentFile
      BY DEF Init, AgentInit
    <3> QED BY <2>2, <2>3, <2>4, <3>1, <3>2 DEF ToolsTypeOK, FilesTyped, Copies, Job
  <2>6. \A a \in Agent : AgentShape(a)
    BY <2>1 DEF Init, FilesInit, AgentInit, AgentShape
  <2>7. \A m \in Migrator : MigratorShape(m)
    BY <2>1 DEF Init, FilesInit, MigrationInit, MigratorShape
  <2>8. /\ plan \in [Migrator -> {<<>>} \cup [DOMAIN Arguments -> Item]]
        /\ legacy \in {LegacyPorts(target)} \cup Override
        /\ Halves
    BY FilesAssumption DEF Init, AgentInit, MigrationInit, Halves
  <2> QED BY <2>5, <2>6, <2>7, <2>8 DEF ToolsInv
<1>2. ToolsInv /\ [Next]_vars => ToolsInv'
  <2> SUFFICES ASSUME ToolsInv, [Next]_vars PROVE ToolsInv'
    OBVIOUS
  <2>1. CASE \E a \in Agent : AgentStep(a) /\ UNCHANGED migrationVars
    BY <2>1, AgentStepKeeps
  <2>2. CASE \E m \in Migrator : MigrationStep(m) /\ UNCHANGED agentVars
    BY <2>2, MigratorStepKeeps
  <2>3. CASE \E f \in File : Edit(f) /\ UNCHANGED <<agentVars, migrationVars>>
    BY <2>3, EditStepKeeps
  <2>4. CASE UNCHANGED vars
    <3>1. UNCHANGED fileVars /\ UNCHANGED agentVars /\ UNCHANGED migrationVars
      BY <2>4 DEF vars
    <3>2. ToolsTypeOK'
      BY <3>1 DEF ToolsInv, ToolsTypeOK, fileVars, agentVars, migrationVars
    <3>3. /\ \A a \in Agent : AgentShape(a)'
          /\ \A m \in Migrator : MigratorShape(m)'
      BY <3>1, OthersKeepAgents, OthersKeepMigrators DEF fileVars, agentVars
    <3> QED BY <3>1, <3>2, <3>3 DEF ToolsInv, Halves, Copying, fileVars, agentVars, migrationVars
  <2> QED BY <2>1, <2>2, <2>3, <2>4 DEF Next
<1> QED BY <1>1, <1>2, PTL DEF Spec

(* Half a file is in place only if a copy for apply_config was broken off, or
   was under way during a restore: whatever else fails or dies, and with any
   number of processes of both tools and any edits. *)
THEOREM HalvesComeFromCopies == Spec => []ToolsTypeOK
<1>1. ToolsInv => ToolsTypeOK
  BY DEF ToolsInv
<1> QED BY <1>1, ToolsInvHolds, PTL

(* With one process of the agent configuration tool, the backup also is what
   that process has copied. *)
LEMMA KeptInvHolds ==
  ASSUME OneAgent
  PROVE  Spec => []KeptInv
<1>1. Init => (\A a \in Agent : AgentKept(a)) /\ BackupIsLastReplaced
  BY DEF Init, AgentInit, AgentKept, BackupIsLastReplaced
<1>2. KeptInv /\ [Next]_vars => ((\A a \in Agent : AgentKept(a)) /\ BackupIsLastReplaced)'
  <2> SUFFICES ASSUME KeptInv, [Next]_vars
               PROVE  (\A a \in Agent : AgentKept(a)') /\ BackupIsLastReplaced'
    OBVIOUS
  <2>1. CASE \E a \in Agent : AgentStep(a)
    BY <2>1, AgentKeepsBackup DEF OneAgent
  <2>2. ASSUME UNCHANGED agentVars, \A a \in Agent : claim'[a] = claim[a]
        PROVE  (\A a \in Agent : AgentKept(a)') /\ BackupIsLastReplaced'
    BY <2>2 DEF KeptInv, AgentKept, BackupIsLastReplaced, agentVars
  <2>3. CASE \E m \in Migrator : MigrationStep(m) /\ UNCHANGED agentVars
    <3>1. PICK m \in Migrator : MigrationStep(m) /\ UNCHANGED agentVars
      BY <2>3
    <3>2. FilesMove(m) /\ FilesTyped /\ m \in Tool /\ Agent \subseteq Tool /\ m \notin Agent
      BY <3>1, MigratorMoves, ToolsAssumption DEF KeptInv, ToolsInv, ToolsTypeOK, FilesTyped
    <3>3. \A a \in Agent : claim'[a] = claim[a]
      BY <3>2, MoveLeavesOthers
    <3> QED BY <2>2, <3>1, <3>3
  <2>4. CASE \E f \in File : Edit(f) /\ UNCHANGED <<agentVars, migrationVars>>
    BY <2>2, <2>4 DEF Edit
  <2>5. CASE UNCHANGED vars
    BY <2>2, <2>5 DEF vars, fileVars
  <2> QED BY <2>1, <2>3, <2>4, <2>5 DEF Next
<1>3. KeptInv <=> ToolsInv /\ (\A a \in Agent : AgentKept(a)) /\ BackupIsLastReplaced
  BY DEF KeptInv
<1> QED BY <1>1, <1>2, <1>3, ToolsInvHolds, PTL DEF Spec

(* The backup beside a file is what the last apply replaced. *)
THEOREM BackupAlwaysLastReplaced ==
  ASSUME OneAgent
  PROVE  Spec => []BackupIsLastReplaced
<1>1. KeptInv => BackupIsLastReplaced
  BY DEF KeptInv
<1> QED BY <1>1, KeptInvHolds, PTL

-----------------------------------------------------------------------------
(* What a tool replaces is kept. *)

(* A step of t that gives up its claim and changes a file is its replacement of
   the claimed file; a step of another tool leaves the claim of t alone. *)
LEMMA StepKeepsReplaced ==
  ASSUME KeptInv, [Next]_vars, NEW t \in Tool,
         claim[t] # NoFile, claim'[t] = NoFile, file' # file, t \notin raced, file[claim[t]] # Absent
  PROVE  IF t \in Agent THEN file[claim[t]] \in {bak[claim[t]], before[claim[t]]}
         ELSE file[claim[t]] \in stamps[claim[t]] /\ file[claim[t]] = Current(t).source
<1>1. ToolsInv /\ FilesTyped
  BY DEF KeptInv, ToolsInv, ToolsTypeOK, FilesTyped
<1>2. ASSUME NEW a \in Agent, AgentStep(a), UNCHANGED migrationVars
      PROVE  t = a /\ Replace(a)
  <2>1. t = a
    BY <1>1, <1>2, AgentMoves, AgentAssumption, MoveLeavesOthers
  <2>2. ~(\E f \in AgentFile : Apply(a, f) \/ Restore(a, f)) /\ ~EndCopy(a) /\ ~AgentFails(a)
    BY DEF Apply, Restore, BeginCopy, Claim, EndCopy, AgentFails, Drop, fileVars
  <2> QED BY <1>2, <2>1, <2>2 DEF AgentStep
<1>3. ASSUME NEW m \in Migrator, MigrationStep(m), UNCHANGED agentVars
      PROVE  t = m /\ Migrate(m)
  <2>1. t = m
    BY <1>1, <1>3, MigratorMoves, MigrationAssumption, MoveLeavesOthers
  <2>2. ~Plan(m) /\ ~Pass(m) /\ ~Check(m) /\ ~Refuse(m) /\ ~Copy(m) /\ ~Finish(m) /\ ~MigrationFails(m)
    BY DEF Plan, Pass, Check, Refuse, Copy, Finish, MigrationFails, Claim, Drop, fileVars
  <2> QED BY <1>3, <2>1, <2>2 DEF MigrationStep
<1>4. ~(\E f \in File : Edit(f))
  BY DEF Edit
<1>5. ~UNCHANGED vars
  BY DEF vars, fileVars
<1>6. CASE t \in Agent /\ Replace(t)
  <2>1. job[t] # Idle /\ job[t].stage = "write"
    BY <1>6 DEF Replace, Idle
  <2>2. AgentShape(t) /\ AgentKept(t)
    BY <1>6 DEF KeptInv, ToolsInv
  <2>3. file[claim[t]] = job[t].held
    BY <2>1, <2>2 DEF AgentShape
  <2> QED BY <1>6, <2>1, <2>2, <2>3 DEF AgentShape, AgentKept
<1>7. CASE t \in Migrator /\ Migrate(t)
  <2>1. t \notin Agent
    BY <1>7, ToolsAssumption
  <2>2. phase[t] = "write" /\ MigratorShape(t)
    BY <1>7 DEF Migrate, KeptInv, ToolsInv
  <2> QED BY <2>1, <2>2 DEF MigratorShape
<1> QED BY <1>2, <1>3, <1>4, <1>5, <1>6, <1>7 DEF Next

(* What a tool replaces is in a backup at that moment, and the helper replaces
   only what it planned from; an edit is lost only after the tool's last look. *)
THEOREM ReplacedAlwaysKept ==
  ASSUME OneAgent
  PROVE  Spec => ReplacedIsKept
<1> DEFINE Kept(t) ==
      LET f == claim[t] IN
      (f # NoFile /\ claim'[t] = NoFile /\ file' # file /\ t \notin raced /\ file[f] # Absent) =>
        IF t \in Agent THEN file[f] \in {bak[f], before[f]}
        ELSE file[f] \in stamps[f] /\ file[f] = Current(t).source
<1>1. KeptInv /\ [Next]_vars => [\A t \in Tool : Kept(t)]_vars
  BY StepKeepsReplaced
<1> QED BY <1>1, KeptInvHolds, PTL DEF Spec, ReplacedIsKept

-----------------------------------------------------------------------------
(* Two facts that any number of processes of either tool leave true. *)

(* No step changes the target or the ports that are rewritten. *)
TargetInv == target \in Target /\ legacy \in {LegacyPorts(target)} \cup Override

(* A rewritten file would not be changed by another run; an endpoint becomes
   the dispatcher's or stays, and a name that two models share is left alone:
   for every configuration and content. *)
THEOREM RewriteAlwaysSettles == Spec => []RewriteSettles
<1>1. Init => TargetInv
  BY DEF Init, MigrationInit, TargetInv
<1>2. TargetInv /\ [Next]_vars => TargetInv'
  <2>1. [Next]_vars => UNCHANGED <<target, legacy>>
    BY DEF Next, MigrationStep, Plan, Pass, Check, Refuse, Copy, Migrate, Finish, MigrationFails, vars, migrationVars
  <2> QED BY <2>1 DEF TargetInv
<1>3. TargetInv => RewriteSettles
  BY RewriteOnce DEF TargetInv, RewriteSettles
<1> QED BY <1>1, <1>2, <1>3, PTL DEF Spec

(* The arguments that a run has replaced are the changed ones it has passed,
   because it replaces nothing that its plan leaves as it is. *)
PrefixShape(m) ==
  /\ next[m] \in Nat /\ DOMAIN plan[m] \subseteq Nat
  /\ phase[m] \in {"copy", "write"} => Changed(Current(m))
  /\ \A i \in DOMAIN plan[m] : (i \in replaced[m]) <=> (i < next[m] /\ Changed(plan[m][i]))

PrefixInv ==
  /\ DOMAIN next = Migrator /\ DOMAIN plan = Migrator /\ DOMAIN phase = Migrator /\ DOMAIN replaced = Migrator
  /\ \A m \in Migrator : PrefixShape(m)

LEMMA RunKeepsPrefix ==
  ASSUME PrefixInv, NEW m \in Migrator, MigrationStep(m)
  PROVE  PrefixInv'
<1>1. DOMAIN Arguments \subseteq Nat \ {0}
  BY MigrationAssumption
<1>2. /\ DOMAIN next' = Migrator /\ DOMAIN plan' = Migrator /\ DOMAIN phase' = Migrator /\ DOMAIN replaced' = Migrator
      /\ \A n \in Migrator \ {m} : /\ next'[n] = next[n] /\ plan'[n] = plan[n]
                                   /\ phase'[n] = phase[n] /\ replaced'[n] = replaced[n]
  BY DEF PrefixInv, MigrationStep, Plan, Pass, Check, Refuse, Copy, Migrate, Finish, MigrationFails, Go
<1>3. PrefixShape(m) /\ m \in DOMAIN next /\ m \in DOMAIN plan /\ m \in DOMAIN phase /\ m \in DOMAIN replaced
  BY DEF PrefixInv
<1>4. PrefixShape(m)'
  <2>1. CASE Plan(m)
    <3>1. DOMAIN plan'[m] = DOMAIN Arguments /\ next'[m] = 1 /\ phase'[m] = "check" /\ replaced'[m] = {}
      BY <1>3, <2>1 DEF Plan
    <3> QED BY <1>1, <3>1 DEF PrefixShape
  <2>2. CASE Pass(m)
    <3>1. next'[m] = next[m] + 1 /\ phase[m] = "check" /\ ~Changed(plan[m][next[m]])
          /\ plan' = plan /\ phase' = phase /\ replaced' = replaced
      BY <1>3, <2>2 DEF Pass, Current
    <3> QED BY <1>3, <3>1 DEF PrefixShape
  <2>3. CASE Check(m) \/ Copy(m)
    <3>1. next' = next /\ plan' = plan /\ replaced' = replaced /\ Changed(Current(m))
      BY <1>3, <2>3 DEF Check, Copy, PrefixShape
    <3> QED BY <1>3, <3>1 DEF PrefixShape, Current
  <2>4. CASE Refuse(m) \/ Finish(m) \/ MigrationFails(m)
    <3>1. next' = next /\ plan' = plan /\ replaced' = replaced /\ phase'[m] = "idle"
      BY <1>3, <2>4 DEF Refuse, Finish, MigrationFails, Go
    <3> QED BY <1>3, <3>1 DEF PrefixShape
  <2>5. CASE Migrate(m)
    <3>1. next'[m] = next[m] + 1 /\ phase'[m] = "check" /\ plan' = plan /\ replaced'[m] = replaced[m] \cup {next[m]}
          /\ Changed(plan[m][next[m]])
      BY <1>3, <2>5 DEF Migrate, Go, PrefixShape, Current
    <3> QED BY <1>3, <3>1 DEF PrefixShape
  <2> QED BY <2>1, <2>2, <2>3, <2>4, <2>5 DEF MigrationStep
<1>5. ASSUME NEW n \in Migrator, n # m PROVE PrefixShape(n)'
  BY <1>2, <1>5 DEF PrefixInv, PrefixShape, Current
<1> QED BY <1>2, <1>4, <1>5 DEF PrefixInv

(* What a run has replaced is always the changed files before the one it is at,
   however it ends and whatever other runs, the other tool and the owners do. *)
THEOREM MigrationAlwaysPrefix == Spec => []MigrationIsPrefix
<1>1. Init => PrefixInv
  BY DEF Init, MigrationInit, PrefixInv, PrefixShape
<1>2. PrefixInv /\ [Next]_vars => PrefixInv'
  <2> SUFFICES ASSUME PrefixInv, [Next]_vars PROVE PrefixInv'
    OBVIOUS
  <2>1. CASE \E m \in Migrator : MigrationStep(m)
    BY <2>1, RunKeepsPrefix
  <2>2. CASE UNCHANGED migrationVars
    BY <2>2 DEF PrefixInv, PrefixShape, Current, migrationVars
  <2> QED BY <2>1, <2>2 DEF Next, vars
<1>3. PrefixInv => MigrationIsPrefix
  BY DEF PrefixInv, PrefixShape, MigrationIsPrefix
<1> QED BY <1>1, <1>2, <1>3, PTL DEF Spec
=============================================================================
