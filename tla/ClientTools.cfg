\* Both tools on two files, a configuration with an ambiguous name, one edit.
SPECIFICATION Spec
CONSTANTS
  File = {"f1", "f2"}
  Tool = {a, h}
  Agent = {a}
  Migrator = {h}
  Content <- MCContent
  Absent = Absent
  Torn = Torn
  NoFile = NoFile
  Written <- MCWritten
  MaxEdits = 1
  AgentFile = {"f1"}
  Candidate <- MCCandidate
  Environment = {{}, {"KEY"}}
  Arguments <- MCArguments
  Target <- MCTarget
  Override = {{3}}
INVARIANTS
  ToolsTypeOK
  BackupIsLastReplaced
  MigrationIsPrefix
  RewriteSettles
PROPERTIES
  ReplacedIsKept
