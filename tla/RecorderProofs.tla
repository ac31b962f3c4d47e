--------------------------- MODULE RecorderProofs ---------------------------
(***************************************************************************)
(* Theorems about Recorder, for any number of threads and entries, any     *)
(* size of the log and of the memory: what failures of the disk and deaths *)
(* of the core leave behind.                                               *)
(***************************************************************************)
EXTENDS Recorder, Integers, TLAPS

(* The thread that works on the files is the one that holds the lock. *)
Inside == {"rotate", "append", "aggregate", "replace"}

OneRecords == \A w \in Writer : stage[w] \in Inside => recorder = w

(* What is about to be added is logged; what is about to replace the aggregate
   is the aggregate with one more success. *)
AddsLogged ==
  \A w \in Writer :
    /\ stage[w] \in {"aggregate", "replace"} => w \in Range(appended)
    /\ stage[w] = "replace" => reason[w] \in Success /\ temp = aggregate \cup {w}

(* The renamed log and the log, one after the other, are the end of what was
   appended; position by position, where the property speaks of sequences. *)
IsEnd ==
  LET gone == Len(appended) - Len(rotated) - Len(log) IN
  /\ gone \in Nat
  /\ \A i \in 1 .. Len(rotated) : rotated[i] = appended[gone + i]
  /\ \A i \in 1 .. Len(log) : log[i] = appended[gone + Len(rotated) + i]

FullLog ==
  \/ Len(rotated) + Len(log) = Len(appended)
  \/ Len(rotated) + Len(log) >= MaxLog

RecorderInv == RecorderTypeOK /\ OneRecords /\ AddsLogged /\ IsEnd /\ FullLog

-----------------------------------------------------------------------------
(* The last entries of a sequence are no more than asked for. *)
LEMMA LastEntriesType ==
  ASSUME NEW s \in Seq(Writer), NEW n \in Nat \ {0}
  PROVE  LastEntries(s, n) \in Seq(Writer) /\ Len(LastEntries(s, n)) <= n
<1>1. CASE Len(s) > n
  <2>1. LastEntries(s, n) = SubSeq(s, Len(s) - n + 1, Len(s))
    BY <1>1 DEF LastEntries
  <2>2. Len(s) - n + 1 \in 1 .. Len(s) /\ Len(s) \in 1 .. Len(s)
    BY <1>1
  <2> QED BY <2>1, <2>2
<1>2. CASE ~(Len(s) > n)
  <2>1. LastEntries(s, n) = SubSeq(s, 1, Len(s))
    BY <1>2 DEF LastEntries
  <2> QED BY <2>1, <1>2
<1> QED BY <1>1, <1>2

(* An entry stays in a log to which another one is appended, and the new one
   is there too. *)
LEMMA RangeOfAppend ==
  ASSUME NEW s \in Seq(Writer), NEW w \in Writer
  PROVE  w \in Range(Append(s, w)) /\ Range(s) \subseteq Range(Append(s, w))
<1>1. DOMAIN s = 1 .. Len(s) /\ DOMAIN Append(s, w) = 1 .. Len(s) + 1
  OBVIOUS
<1>2. Append(s, w)[Len(s) + 1] = w /\ \A i \in 1 .. Len(s) : Append(s, w)[i] = s[i]
  OBVIOUS
<1>3. Len(s) + 1 \in DOMAIN Append(s, w)
  BY <1>1
<1> QED BY <1>1, <1>2, <1>3 DEF Range

(* The empty directory. *)
LEMMA RecorderInitially == RecorderInit => RecorderInv
<1> SUFFICES ASSUME RecorderInit PROVE RecorderInv
  OBVIOUS
<1> USE RecorderAssumption DEF RecorderInit
<1>1. RecorderTypeOK
  BY DEF RecorderTypeOK
<1>2. OneRecords /\ AddsLogged
  BY DEF OneRecords, AddsLogged, Inside
<1>3. IsEnd /\ FullLog
  BY DEF IsEnd, FullLog
<1> QED BY <1>1, <1>2, <1>3 DEF RecorderInv

(* The type, action by action. *)
LEMMA RecorderTyped == RecorderTypeOK /\ [RecorderNext]_recorderVars => RecorderTypeOK'
<1> SUFFICES ASSUME RecorderTypeOK, [RecorderNext]_recorderVars PROVE RecorderTypeOK'
  OBVIOUS
<1> USE RecorderAssumption DEF RecorderTypeOK
<1>1. ASSUME NEW w \in Writer, NEW r \in Reason, Call(w, r) PROVE RecorderTypeOK'
  BY <1>1 DEF Call, diskVars
<1>2. ASSUME NEW w \in Writer, Remember(w) PROVE RecorderTypeOK'
  <2>1. Append(recent, w) \in Seq(Writer)
    OBVIOUS
  <2>2. recent' \in Seq(Writer) /\ Len(recent') <= MemoryLimit
    BY <1>2, <2>1, LastEntriesType DEF Remember
  <2> QED BY <1>2, <2>2 DEF Remember, diskVars
<1>3. ASSUME NEW w \in Writer, DiskFails(w) PROVE RecorderTypeOK'
  BY <1>3 DEF DiskFails, Return, diskVars
<1>4. ASSUME NEW w \in Writer, Rotate(w) PROVE RecorderTypeOK'
  <2>t. log \in Seq(Writer) /\ rotated \in Seq(Writer) /\ <<>> \in Seq(Writer)
    OBVIOUS
  <2>1. log' \in Seq(Writer) /\ rotated' \in Seq(Writer)
    BY <1>4, <2>t DEF Rotate
  <2> QED BY <1>4, <2>1 DEF Rotate, Proceed
<1>5. ASSUME NEW w \in Writer, AppendEntry(w) PROVE RecorderTypeOK'
  BY <1>5 DEF AppendEntry, Proceed
<1>6. ASSUME NEW w \in Writer, SkipAggregate(w) PROVE RecorderTypeOK'
  BY <1>6 DEF SkipAggregate, Return, diskVars
<1>7. ASSUME NEW w \in Writer, WriteTemp(w) PROVE RecorderTypeOK'
  BY <1>7 DEF WriteTemp, Proceed
<1>8. ASSUME NEW w \in Writer, ReplaceAggregate(w) PROVE RecorderTypeOK'
  BY <1>8 DEF ReplaceAggregate, Return
<1>9. CASE RecorderCrash
  BY <1>9 DEF RecorderCrash, diskVars
<1>10. CASE UNCHANGED recorderVars
  BY <1>10 DEF recorderVars, memoryVars, diskVars
<1> QED BY <1>1, <1>2, <1>3, <1>4, <1>5, <1>6, <1>7, <1>8, <1>9, <1>10 DEF RecorderNext, RecordStep

(* Who records, and what it is about to add. *)
LEMMA RecorderSteps ==
  RecorderInv /\ [RecorderNext]_recorderVars => OneRecords' /\ AddsLogged'
<1> SUFFICES ASSUME RecorderInv, [RecorderNext]_recorderVars PROVE OneRecords' /\ AddsLogged'
  OBVIOUS
<1>0. RecorderTypeOK /\ OneRecords /\ AddsLogged
  BY DEF RecorderInv
<1> USE <1>0, RecorderAssumption DEF RecorderTypeOK, OneRecords, AddsLogged, Inside
<1>1. ASSUME NEW w \in Writer, NEW r \in Reason, Call(w, r) PROVE OneRecords' /\ AddsLogged'
  BY <1>1 DEF Call, diskVars
<1>2. ASSUME NEW w \in Writer, Remember(w) PROVE OneRecords' /\ AddsLogged'
  BY <1>2 DEF Remember, diskVars
<1>3. ASSUME NEW w \in Writer, DiskFails(w) PROVE OneRecords' /\ AddsLogged'
  BY <1>3 DEF DiskFails, Return, diskVars
<1>4. ASSUME NEW w \in Writer, Rotate(w) PROVE OneRecords' /\ AddsLogged'
  BY <1>4 DEF Rotate, Proceed
<1>5. ASSUME NEW w \in Writer, AppendEntry(w) PROVE OneRecords' /\ AddsLogged'
  <2>1. w \in Range(appended') /\ Range(appended) \subseteq Range(appended')
    BY <1>5, RangeOfAppend DEF AppendEntry
  <2>2. \A v \in Writer : stage'[v] = "replace" => v = w
    BY <1>5 DEF AppendEntry, Proceed
  <2>3. stage'[w] = "aggregate"
    BY <1>5 DEF AppendEntry, Proceed
  <2> QED BY <1>5, <2>1, <2>2, <2>3 DEF AppendEntry, Proceed
<1>6. ASSUME NEW w \in Writer, SkipAggregate(w) PROVE OneRecords' /\ AddsLogged'
  BY <1>6 DEF SkipAggregate, Return, diskVars
<1>7. ASSUME NEW w \in Writer, WriteTemp(w) PROVE OneRecords' /\ AddsLogged'
  BY <1>7 DEF WriteTemp, Proceed
<1>8. ASSUME NEW w \in Writer, ReplaceAggregate(w) PROVE OneRecords' /\ AddsLogged'
  BY <1>8 DEF ReplaceAggregate, Return
<1>9. CASE RecorderCrash
  BY <1>9 DEF RecorderCrash, diskVars
<1>10. CASE UNCHANGED recorderVars
  BY <1>10 DEF recorderVars, memoryVars, diskVars
<1> QED BY <1>1, <1>2, <1>3, <1>4, <1>5, <1>6, <1>7, <1>8, <1>9, <1>10 DEF RecorderNext, RecordStep

(* A rotation forgets what was renamed before, and nothing else; an entry is
   appended to both the log and the history. *)
LEMMA LogsSteps == RecorderInv /\ [RecorderNext]_recorderVars => IsEnd' /\ FullLog'
<1> SUFFICES ASSUME RecorderInv, [RecorderNext]_recorderVars PROVE IsEnd' /\ FullLog'
  OBVIOUS
<1>0. RecorderTypeOK /\ IsEnd /\ FullLog
  BY DEF RecorderInv
<1>t. log \in Seq(Writer) /\ rotated \in Seq(Writer) /\ appended \in Seq(Writer)
  BY <1>0 DEF RecorderTypeOK
<1> DEFINE gone == Len(appended) - Len(rotated) - Len(log)
<1>1. ASSUME NEW w \in Writer, Rotate(w), Len(log) >= MaxLog PROVE IsEnd' /\ FullLog'
  <2>1. rotated' = log /\ log' = <<>> /\ appended' = appended
    BY <1>1 DEF Rotate
  <2>2. gone' = gone + Len(rotated) /\ Len(log') = 0 /\ gone \in Nat
    BY <1>0, <1>t, <2>1 DEF IsEnd
  <2>3. \A i \in 1 .. Len(log) : log[i] = appended[gone + Len(rotated) + i]
    BY <1>0 DEF IsEnd
  <2>4. IsEnd'
    BY <1>t, <2>1, <2>2, <2>3 DEF IsEnd
  <2>5. FullLog'
    BY <1>1, <1>t, <2>1, RecorderAssumption DEF FullLog
  <2> QED BY <2>4, <2>5
<1>2. ASSUME NEW w \in Writer, AppendEntry(w) PROVE IsEnd' /\ FullLog'
  <2>1. log' = Append(log, w) /\ appended' = Append(appended, w) /\ rotated' = rotated
    BY <1>2 DEF AppendEntry
  <2>2. Len(log') = Len(log) + 1 /\ Len(appended') = Len(appended) + 1
    BY <1>t, <2>1
  <2>3. gone' = gone /\ gone \in Nat
    BY <1>0, <1>t, <2>1, <2>2 DEF IsEnd
  <2>4. \A i \in 1 .. Len(rotated) : rotated'[i] = appended'[gone + i]
    <3> TAKE i \in 1 .. Len(rotated)
    <3>1. gone + i \in 1 .. Len(appended) /\ rotated[i] = appended[gone + i]
      BY <1>0, <1>t DEF IsEnd
    <3> QED BY <1>t, <2>1, <3>1
  <2>5. \A i \in 1 .. Len(log') : log'[i] = appended'[gone + Len(rotated) + i]
    <3> TAKE i \in 1 .. Len(log')
    <3>1. CASE i \in 1 .. Len(log)
      <4>1. gone + Len(rotated) + i \in 1 .. Len(appended) /\ log[i] = appended[gone + Len(rotated) + i]
        BY <1>0, <1>t, <3>1 DEF IsEnd
      <4> QED BY <1>t, <2>1, <3>1, <4>1
    <3>2. CASE i = Len(log) + 1
      <4>1. gone + Len(rotated) + i = Len(appended) + 1
        BY <1>t, <3>2
      <4> QED BY <1>t, <2>1, <3>2, <4>1
    <3> QED BY <1>t, <2>2, <3>1, <3>2
  <2>6. IsEnd'
    BY <2>1, <2>3, <2>4, <2>5 DEF IsEnd
  <2>7. FullLog'
    BY <1>0, <1>t, <2>1, <2>2, RecorderAssumption DEF FullLog
  <2> QED BY <2>6, <2>7
<1>3. CASE UNCHANGED <<log, rotated, appended>>
  BY <1>0, <1>3 DEF IsEnd, FullLog
<1>4. \/ UNCHANGED <<log, rotated, appended>>
      \/ \E w \in Writer : AppendEntry(w) \/ (Rotate(w) /\ Len(log) >= MaxLog)
  <2>1. ASSUME NEW w \in Writer, RecordStep(w)
        PROVE  \/ UNCHANGED <<log, rotated, appended>>
               \/ AppendEntry(w) \/ (Rotate(w) /\ Len(log) >= MaxLog)
    BY <2>1 DEF RecordStep, Remember, DiskFails, Rotate, SkipAggregate, WriteTemp, ReplaceAggregate, diskVars
  <2> QED BY <2>1 DEF RecorderNext, Call, RecorderCrash, recorderVars, diskVars
<1> QED BY <1>1, <1>2, <1>3, <1>4

(* Every step of record() and every death keeps the invariant. *)
LEMMA RecorderInductive == RecorderInv /\ [RecorderNext]_recorderVars => RecorderInv'
<1> SUFFICES ASSUME RecorderInv, [RecorderNext]_recorderVars PROVE RecorderInv'
  OBVIOUS
<1>1. RecorderTypeOK'
  BY RecorderTyped DEF RecorderInv
<1> QED BY <1>1, RecorderSteps, LogsSteps DEF RecorderInv

(* The invariant holds whatever fails and whenever the core dies. *)
LEMMA RecorderInvariant == RecorderSpec => []RecorderInv
BY RecorderInitially, RecorderInductive, PTL DEF RecorderSpec

-----------------------------------------------------------------------------
(* What is kept is the end of what was appended: the invariant says it
   position by position, the property with sequences. *)
LEMMA KeptIsEnd == RecorderInv => LogKeepsLatest
<1> SUFFICES ASSUME RecorderInv PROVE LogKeepsLatest
  OBVIOUS
<1>t. log \in Seq(Writer) /\ rotated \in Seq(Writer) /\ appended \in Seq(Writer)
  BY DEF RecorderInv, RecorderTypeOK
<1>0. IsEnd /\ FullLog
  BY DEF RecorderInv
<1> DEFINE kept == rotated \o log
           gone == Len(appended) - Len(kept)
<1>1. kept \in Seq(Writer) /\ Len(kept) = Len(rotated) + Len(log)
  BY <1>t
<1>2. gone \in Nat /\ gone = Len(appended) - Len(rotated) - Len(log)
  BY <1>0, <1>1, <1>t DEF IsEnd
<1>3. \A i \in 1 .. Len(kept) : kept[i] = appended[gone + i]
  <2> TAKE i \in 1 .. Len(kept)
  <2>1. CASE i <= Len(rotated)
    BY <1>0, <1>1, <1>2, <1>t, <2>1 DEF IsEnd
  <2>2. CASE i > Len(rotated)
    <3>1. kept[i] = log[i - Len(rotated)] /\ i - Len(rotated) \in 1 .. Len(log)
      BY <1>1, <1>t, <2>2
    <3>2. gone + Len(rotated) + (i - Len(rotated)) = gone + i
      BY <1>2, <1>t
    <3> QED BY <1>0, <1>2, <3>1, <3>2 DEF IsEnd
  <2> QED BY <1>1, <1>t, <2>1, <2>2
<1>4. kept = LastEntries(appended, Len(kept))
  <2> DEFINE first == IF Len(appended) > Len(kept) THEN Len(appended) - Len(kept) + 1 ELSE 1
  <2>1. first = gone + 1
    BY <1>1, <1>2, <1>t
  <2>2. LastEntries(appended, Len(kept)) = SubSeq(appended, gone + 1, Len(appended))
    BY <2>1 DEF LastEntries
  <2>3. Len(appended) = gone + Len(kept)
    BY <1>1, <1>t
  <2> DEFINE end == SubSeq(appended, gone + 1, Len(appended))
  <2>4. end \in Seq(Writer) /\ Len(end) = Len(kept)
    BY <1>1, <1>2, <1>t, <2>3
  <2>5. \A i \in 1 .. Len(kept) : end[i] = appended[gone + i]
    BY <1>1, <1>2, <1>t, <2>3
  <2>6. kept = end
    <3> HIDE DEF kept, gone, end
    <3> QED BY <1>1, <1>3, <2>4, <2>5
  <2> QED BY <2>2, <2>6
<1>5. Len(kept) >= Len(LastEntries(appended, MaxLog))
  <2>1. LastEntries(appended, MaxLog) \in Seq(Writer) /\ Len(LastEntries(appended, MaxLog)) <= MaxLog
    BY <1>t, LastEntriesType, RecorderAssumption
  <2>2. Len(LastEntries(appended, MaxLog)) <= Len(appended)
    BY <1>t, RecorderAssumption DEF LastEntries
  <2> QED BY <1>0, <1>1, <1>t, <2>1, <2>2, RecorderAssumption DEF FullLog
<1> QED BY <1>4, <1>5 DEF LogKeepsLatest

(* Whatever fails and whenever the core dies, the renamed log and the log are
   the latest entries in order, and a rotation never leaves fewer than a full
   log of them. *)
THEOREM LogAlwaysKeepsLatest == RecorderSpec => []LogKeepsLatest
BY RecorderInvariant, KeptIsEnd, PTL

(* No failure and no death between the temporary file and its renaming loses
   what was in the aggregate, or adds what is in no log. *)
THEOREM AggregateAlwaysAddsLogged == RecorderSpec => AggregateAddsLogged
<1>1. RecorderInv /\ [RecorderNext]_recorderVars =>
        [\/ aggregate' = aggregate
         \/ \E w \in Range(appended) : reason[w] \in Success /\ aggregate' = aggregate \cup {w}]_recorderVars
  <2> SUFFICES ASSUME RecorderInv, [RecorderNext]_recorderVars
               PROVE  \/ aggregate' = aggregate
                      \/ \E w \in Range(appended) : reason[w] \in Success /\ aggregate' = aggregate \cup {w}
    OBVIOUS
  <2>1. ASSUME NEW w \in Writer, ReplaceAggregate(w)
        PROVE  w \in Range(appended) /\ reason[w] \in Success /\ aggregate' = aggregate \cup {w}
    BY <2>1 DEF ReplaceAggregate, RecorderInv, AddsLogged
  <2>2. aggregate' = aggregate \/ \E w \in Writer : ReplaceAggregate(w)
    BY DEF RecorderNext, RecordStep, Call, Remember, DiskFails, Rotate, AppendEntry, SkipAggregate, WriteTemp,
           RecorderCrash, recorderVars, diskVars
  <2> QED BY <2>1, <2>2
<1> QED BY <1>1, RecorderInvariant, PTL DEF RecorderSpec, AggregateAddsLogged
=============================================================================
