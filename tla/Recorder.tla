------------------------------ MODULE Recorder ------------------------------
(***************************************************************************)
(* RequestRecorder of scripts/model_dispatch.py: record() keeps an entry   *)
(* in memory, appends it to a log that is rotated once, and adds the       *)
(* successful ones to an aggregate that is replaced by a temporary file.   *)
(* All of it happens under one lock; any access to the disk may fail, and  *)
(* the core may die between two of them.                                   *)
(*                                                                         *)
(* An entry stands for itself: it is known by the thread that records it   *)
(* and by its finish reason.  The bytes of the log are counted in entries, *)
(* and the aggregate, sums and samples by model, is the set of the entries *)
(* that were added to it.                                                  *)
(***************************************************************************)
EXTENDS Naturals, Sequences, Functions

CONSTANTS
  Writer,       \* threads that record, each one entry
  Nobody,
  Reason,       \* finish reasons, "none" included
  Success,      \* SUCCESS_FINISH_REASONS
  MemoryLimit,  \* memory_limit, of the entries kept in memory
  MaxLog        \* max_bytes: a log of so many entries is rotated before the next

ASSUME RecorderAssumption ==
  /\ Nobody \notin Writer
  /\ Success \subseteq Reason /\ "none" \in Reason \ Success
  /\ MemoryLimit \in Nat \ {0} /\ MaxLog \in Nat \ {0}

VARIABLES
  recorder,   \* the thread that holds self.lock, or Nobody
  stage,      \* how far each thread is in record()
  reason,     \* the finish reason of each entry
  recent,     \* self.recent
  log,        \* the log file
  rotated,    \* the file it was renamed to, .jsonl.1
  aggregate,  \* the aggregate file
  temp,       \* its temporary file
  appended    \* history: the entries ever appended to a log

memoryVars == <<recorder, stage, reason, recent>>
diskVars == <<log, rotated, aggregate, temp, appended>>
recorderVars == <<memoryVars, diskVars>>

RecorderTypeOK ==
  /\ recorder \in Writer \cup {Nobody}
  /\ stage \in [Writer -> {"out", "wait", "rotate", "append", "aggregate", "replace", "done", "lost"}]
  /\ reason \in [Writer -> Reason]
  /\ recent \in Seq(Writer) /\ Len(recent) <= MemoryLimit
  /\ {log, rotated, appended} \subseteq Seq(Writer)
  /\ {aggregate, temp} \subseteq SUBSET Writer

(* RequestRecorder.__init__ on an empty directory. *)
RecorderInit ==
  /\ recorder = Nobody
  /\ stage = [w \in Writer |-> "out"]
  /\ reason = [w \in Writer |-> "none"]
  /\ recent = <<>> /\ log = <<>> /\ rotated = <<>> /\ appended = <<>>
  /\ aggregate = {} /\ temp = {}

LastEntries(s, n) == SubSeq(s, IF Len(s) > n THEN Len(s) - n + 1 ELSE 1, Len(s))

(* The call of record(entry). *)
Call(w, r) ==
  /\ stage[w] = "out"
  /\ stage' = [stage EXCEPT ![w] = "wait"]
  /\ reason' = [reason EXCEPT ![w] = r]
  /\ UNCHANGED <<recorder, recent, diskVars>>

(* with self.lock: the entry is kept in memory. *)
Remember(w) ==
  /\ stage[w] = "wait" /\ recorder = Nobody
  /\ recorder' = w
  /\ recent' = LastEntries(Append(recent, w), MemoryLimit)
  /\ stage' = [stage EXCEPT ![w] = "rotate"]
  /\ UNCHANGED <<reason, diskVars>>

(* record() returns and releases the lock. *)
Return(w) ==
  /\ recorder' = Nobody
  /\ stage' = [stage EXCEPT ![w] = "done"]
  /\ UNCHANGED <<reason, recent>>

Proceed(w, s) ==
  /\ stage' = [stage EXCEPT ![w] = s]
  /\ UNCHANGED <<recorder, reason, recent>>

(* An OSError: what is left of record() is skipped. *)
DiskFails(w) ==
  /\ stage[w] \in {"rotate", "append", "aggregate", "replace"}
  /\ Return(w)
  /\ UNCHANGED diskVars

(* A log that is full is renamed, over the one renamed before. *)
Rotate(w) ==
  /\ stage[w] = "rotate"
  /\ IF Len(log) >= MaxLog
     THEN rotated' = log /\ log' = <<>>
     ELSE UNCHANGED <<rotated, log>>
  /\ Proceed(w, "append")
  /\ UNCHANGED <<aggregate, temp, appended>>

(* Mutant of AppendEntry: the log is opened with mode "w". *)
AppendTruncating(w) ==
  /\ stage[w] = "append"
  /\ log' = <<w>>
  /\ appended' = Append(appended, w)
  /\ Proceed(w, "aggregate")
  /\ UNCHANGED <<rotated, aggregate, temp>>

AppendEntry(w) ==
  /\ stage[w] = "append"
  /\ log' = Append(log, w)
  /\ appended' = Append(appended, w)
  /\ Proceed(w, "aggregate")
  /\ UNCHANGED <<rotated, aggregate, temp>>

(* _update_aggregate: entries without success are left out. *)
SkipAggregate(w) ==
  /\ stage[w] = "aggregate" /\ reason[w] \notin Success
  /\ Return(w)
  /\ UNCHANGED diskVars

(* Mutant of WriteTemp: the aggregate itself is opened for writing, which
   empties it. *)
WriteInPlace(w) ==
  /\ stage[w] = "aggregate" /\ reason[w] \in Success
  /\ temp' = aggregate \cup {w}
  /\ aggregate' = {}
  /\ Proceed(w, "replace")
  /\ UNCHANGED <<log, rotated, appended>>

(* _update_aggregate reads the aggregate, adds the entry and writes the
   result to the temporary file. *)
WriteTemp(w) ==
  /\ stage[w] = "aggregate" /\ reason[w] \in Success
  /\ temp' = aggregate \cup {w}
  /\ Proceed(w, "replace")
  /\ UNCHANGED <<log, rotated, aggregate, appended>>

(* os.replace(temp, self.aggregate_path) *)
ReplaceAggregate(w) ==
  /\ stage[w] = "replace"
  /\ aggregate' = temp
  /\ Return(w)
  /\ UNCHANGED <<log, rotated, temp, appended>>

RecordStep(w) ==
  \/ Remember(w) \/ DiskFails(w) \/ Rotate(w) \/ AppendEntry(w)
  \/ SkipAggregate(w) \/ WriteTemp(w) \/ ReplaceAggregate(w)

(* The core dies, and another one is started on the same directory. *)
RecorderCrash ==
  /\ recorder' = Nobody
  /\ stage' = [w \in Writer |-> IF stage[w] \in {"out", "done"} THEN stage[w] ELSE "lost"]
  /\ recent' = <<>>
  /\ UNCHANGED <<reason, diskVars>>

RecorderNext ==
  \/ \E w \in Writer : RecordStep(w) \/ \E r \in Reason : Call(w, r)
  \/ RecorderCrash

RecorderSpec == RecorderInit /\ [][RecorderNext]_recorderVars

-----------------------------------------------------------------------------
(* Rotation loses only old entries: the renamed log and the log together are
   the latest entries that were appended, in order, and no fewer than a full
   log of them.  About record() renaming the log it is about to append to,
   and dying or failing in between (2678-2682). *)
LogKeepsLatest ==
  LET kept == rotated \o log IN
  /\ kept = LastEntries(appended, Len(kept))
  /\ Len(kept) >= Len(LastEntries(appended, MaxLog))

(* The aggregate only grows, by one entry at a time, of a success, that is in
   a log already; whatever fails and wherever the core dies, nothing that was
   added is lost.  About _update_aggregate replacing the file by a temporary
   one (2691-2723). *)
AggregateAddsLogged ==
  [][\/ aggregate' = aggregate
     \/ \E w \in Range(appended) : reason[w] \in Success /\ aggregate' = aggregate \cup {w}
    ]_recorderVars
=============================================================================
