----------------------------- MODULE RelayProofs -----------------------------
(***************************************************************************)
(* Theorems about Relay, for any number of requests and cancellations, any *)
(* sizes of chunks and buffers, and answers of any length: what a client   *)
(* receives, what is recorded of a request, and when it is over.           *)
(***************************************************************************)
EXTENDS Relay, RecorderProofs, WellFoundedInduction

(* Until an answer is relayed nothing has been found out about it. *)
Early == {"new", "activate", "open", "set", "head", "read", "retire", "unset", "recover", "answer",
          "respond"}
Streamed == {"head", "loop", "read1", "write", "flush"}
Whole == {"read", "retire", "unset", "recover", "answer", "respond"}
Ended == {"close", "clear", "record", "end", "out", "lost"}

EarlyIsFresh(h) ==
  h.pc \in Early =>
    /\ h.finish = "none" /\ h.raised = "nothing" /\ ~h.cancelled /\ ~h.done
    /\ h.late = 0 /\ h.client = <<>> /\ h.buffer = <<>>

LabelShape(h) ==
  /\ h.pc \in Streamed => h.streaming
  /\ h.pc \in Whole => ~h.streaming
  /\ h.raised # "nothing" => h.pc \in Ended
  /\ h.pc \in {"new", "activate", "set", "head"} => h.sent = <<>>

(* A request is sent once, and again after a recovery. *)
AttemptShape(h) ==
  /\ h.retried => ~h.streaming
  /\ ~h.retried => h.attempt <= 1
  /\ h.pc \in {"new", "activate"} => h.attempt = 0 /\ ~h.retried
  /\ h.pc = "open" => h.attempt = (IF h.retried THEN 1 ELSE 0) /\ (~h.retried => h.sent = <<>>)
  /\ h.pc = "retire" => ~h.retried
  /\ h.pc \in {"unset", "recover"} => h.attempt = 1 /\ h.retried
  /\ h.pc \in {"set", "read", "retire", "answer", "respond", "clear", "close"} \cup Streamed => h.attempt # 0

(* Where a request may have a connection, which is then the one of its last
   attempt, and where cancel() finds none. *)
Connecting == {"set", "read", "retire", "answer", "respond", "close"} \cup Streamed
Unconnected == {"new", "activate", "open", "recover", "record", "end", "out", "lost"}

ActiveShape(r) ==
  LET h == handler[r] IN
  /\ \A n \in Attempt : <<r, n>> \in open => h.pc \in Connecting /\ n = h.attempt
  /\ Started(r) => r \in registered
  /\ h.pc \in Unconnected => upstream[r] = 0
  /\ (h.pc = "out" /\ h.attempt # 0) => stage[r] = "done"

(* A write after the cancellation is the last one. *)
LateShape(r) ==
  LET h == handler[r] IN
  /\ h.late \in {0, 1}
  /\ h.late = 1 => r \in event /\ h.pc \in {"loop", "flush"} \cup Ended

(* The finish reason is one that was sent, until the handler gives its own. *)
FinishShape(h) ==
  /\ h.finish \in Success => \E i \in DOMAIN h.sent : h.sent[i] = h.finish
  /\ h.cancelled => h.pc \in {"flush"} \cup Ended /\ h.finish = "request_cancelled"
  /\ h.raised = "error" => h.finish = "none"

RecordShape(r) ==
  LET h == handler[r] IN
  stage[r] # "out" => h.pc \in {"end", "out", "lost"} /\ reason[r] = h.finish

(* What the client has is the beginning of what was sent, up to the chunk
   that is not yet written; all of it as long as the client stays. *)
ClientShape(h) ==
  /\ IsBeginning(h.client, h.sent)
  /\ h.pc = "write" =>
       /\ Len(h.client) + Len(h.chunk) <= Len(h.sent)
       /\ \A i \in 1 .. Len(h.chunk) : h.chunk[i] = h.sent[Len(h.sent) - Len(h.chunk) + i]
       /\ ~h.gone => Len(h.client) + Len(h.chunk) = Len(h.sent)
  /\ (h.pc \in {"loop", "read1", "flush"} /\ ~h.gone) => h.client = h.sent
  /\ (h.pc \in {"close", "clear", "record"} /\ h.raised = "nothing" /\ ~h.gone) => h.client = h.sent

(* The buffer is an end of what was sent: *)
BufferIsEnd(s, b) ==
  /\ Len(b) <= Len(s)
  /\ \A i \in 1 .. Len(b) : b[i] = s[Len(s) - Len(b) + i]

(* the line that is not complete, unless that is too long for it. *)
BufferIsLine(s, b) ==
  /\ \A i \in 1 .. Len(b) : b[i] # "nl"
  /\ LET first == LineStart(s, Len(s) + 1) IN
       \/ Len(s) - Len(b) + 1 = first
       \/ Len(s) - first + 1 > Limit

(* The frames that ended before a position, and what is known of them. *)
Finishes(s) == {i \in 1 .. Len(s) - 1 : s[i] \in Finish}
Ordinary(s, i) == LineLength(s, i) + MaxChunk <= Limit

Understood(s, finish, done) ==
  /\ Finishes(s) = {} => finish = "none"
  /\ (Finishes(s) # {} /\ Ordinary(s, Max(Finishes(s)))) => finish = s[Max(Finishes(s))]
  /\ ~done => \A i \in 1 .. Len(s) - 1 : s[i] # "done"

ParseShape(h) ==
  /\ BufferIsEnd(h.sent, h.buffer)
  /\ h.pc \in {"set", "head", "loop", "read1", "write"} =>
       /\ h.streaming => WellFormed(h.sent, 1) /\ BufferIsLine(h.sent, h.buffer)
       /\ h.pc # "set" => Understood(h.sent, h.finish, h.done)
  /\ h.pc \in {"loop", "read1"} => ~h.done

(* All that is about one handler alone, and the rest. *)
HandlerShape(h) ==
  EarlyIsFresh(h) /\ LabelShape(h) /\ AttemptShape(h) /\ FinishShape(h) /\ ClientShape(h) /\ ParseShape(h)

RelayShape ==
  \A r \in Request : HandlerShape(handler[r]) /\ ActiveShape(r) /\ LateShape(r) /\ RecordShape(r)

RelayInv == RelayTypeOK /\ RelayShape

-----------------------------------------------------------------------------
(* The lines of a buffer. *)

(* A non-empty set of naturals with an upper bound has a greatest element. *)
LEMMA MaxIsGreatest ==
  ASSUME NEW S \in SUBSET Nat, S # {}, NEW b \in Nat, \A x \in S : x <= b
  PROVE  Max(S) \in S /\ \A x \in S : x <= Max(S)
<1> DEFINE T == {b - x : x \in S}
<1>1. T \subseteq Nat /\ T # {}
  <2>1. \A x \in S : b - x \in Nat
    BY SMT
  <2>2. PICK x \in S : b - x \in T
    OBVIOUS
  <2> QED BY <2>1, <2>2
<1>2. PICK y \in T : \A z \in T : ~(<<z, y>> \in OpToRel(<, Nat))
  BY <1>1, NatLessThanWellFounded, WFMin
<1>3. PICK m \in S : y = b - m
  OBVIOUS
<1>4. \A x \in S : m >= x
  <2> TAKE x \in S
  <2>1. b - x \in T /\ b - x \in Nat /\ y \in Nat
    BY <1>1
  <2>2. ~(b - x < y)
    BY <1>2, <2>1 DEF OpToRel
  <2> QED BY <1>3, <2>1, <2>2
<1> QED BY <1>3, <1>4 DEF Max

(* Where a line begins: behind the last "nl", or with the buffer. *)
IsLineStart(b, i, n) ==
  /\ n \in 1 .. i
  /\ n = 1 \/ b[n - 1] = "nl"
  /\ \A j \in n .. i - 1 : b[j] # "nl"

(* LineStart is such a position. *)
LEMMA LineStartBegins ==
  ASSUME NEW b, NEW i \in Nat \ {0}
  PROVE  IsLineStart(b, i, LineStart(b, i))
<1> DEFINE S == {0} \cup {j \in 1 .. i - 1 : b[j] = "nl"}
<1>1. S \in SUBSET Nat /\ S # {} /\ \A x \in S : x <= i
  OBVIOUS
<1>2. Max(S) \in S /\ \A x \in S : x <= Max(S)
  BY <1>1, MaxIsGreatest
<1>3. LineStart(b, i) = 1 + Max(S)
  BY DEF LineStart
<1> HIDE DEF S
<1> DEFINE m == Max(S)
<1>4. m \in S /\ m \in 0 .. i - 1
  BY <1>2 DEF S
<1>5. m = 0 \/ b[m] = "nl"
  BY <1>4 DEF S
<1>6. \A j \in m + 1 .. i - 1 : b[j] # "nl"
  <2> SUFFICES ASSUME NEW j \in m + 1 .. i - 1, b[j] = "nl" PROVE FALSE
    OBVIOUS
  <2>1. j \in S
    BY <1>4 DEF S
  <2> QED BY <1>2, <1>4, <2>1
<1> QED BY <1>3, <1>4, <1>5, <1>6 DEF IsLineStart

(* That determines it. *)
LEMMA LineStartUnique ==
  ASSUME NEW b, NEW i \in Nat \ {0}, NEW n, IsLineStart(b, i, n)
  PROVE  LineStart(b, i) = n
<1> DEFINE m == LineStart(b, i)
<1>1. IsLineStart(b, i, m)
  BY LineStartBegins
<1> HIDE DEF m
<1>2. m \in 1 .. i /\ n \in 1 .. i
  BY <1>1 DEF IsLineStart
<1>3. ~(m < n)
  <2> SUFFICES ASSUME m < n PROVE FALSE
    OBVIOUS
  <2>1. n - 1 \in m .. i - 1 /\ b[n - 1] = "nl"
    BY <1>2 DEF IsLineStart
  <2> QED BY <1>1, <2>1 DEF IsLineStart
<1>4. ~(n < m)
  <2> SUFFICES ASSUME n < m PROVE FALSE
    OBVIOUS
  <2>1. m - 1 \in n .. i - 1 /\ b[m - 1] = "nl"
    BY <1>1, <1>2 DEF IsLineStart
  <2> QED BY <2>1 DEF IsLineStart
<1> QED BY <1>2, <1>3, <1>4 DEF m

(* The last entries are an end, as long as asked for. *)
LEMMA LastEntriesEnd ==
  ASSUME NEW T, NEW s \in Seq(T), NEW n \in Nat
  PROVE  /\ LastEntries(s, n) \in Seq(T)
         /\ Len(LastEntries(s, n)) = IF Len(s) > n THEN n ELSE Len(s)
         /\ BufferIsEnd(s, LastEntries(s, n))
<1> DEFINE e == LastEntries(s, n)
<1>1. CASE Len(s) > n
  <2>1. e = SubSeq(s, Len(s) - n + 1, Len(s))
    BY <1>1 DEF LastEntries
  <2>2. Len(s) - n + 1 \in 1 .. Len(s) + 1 /\ Len(s) \in Nat
    BY <1>1
  <2>3. e \in Seq(T) /\ Len(e) = n
    BY <2>1, <2>2
  <2>4. \A i \in 1 .. n : e[i] = s[Len(s) - n + i]
    BY <2>1, <2>2
  <2> QED BY <1>1, <2>3, <2>4 DEF BufferIsEnd
<1>2. CASE ~(Len(s) > n)
  <2>1. e = s
    BY <1>2 DEF LastEntries
  <2> QED BY <1>2, <2>1 DEF BufferIsEnd
<1> QED BY <1>1, <1>2

(* So is what follows the last "nl". *)
LEMMA RestEnd ==
  ASSUME NEW T, NEW b \in Seq(T)
  PROVE  /\ Rest(b) \in Seq(T)
         /\ Len(Rest(b)) = Len(b) + 1 - LineStart(b, Len(b) + 1)
         /\ BufferIsEnd(b, Rest(b))
<1> DEFINE n == LineStart(b, Len(b) + 1)
<1>1. n \in 1 .. Len(b) + 1
  BY LineStartBegins DEF IsLineStart
<1> HIDE DEF n
<1>2. Rest(b) = SubSeq(b, n, Len(b))
  BY DEF Rest, n
<1>3. Rest(b) \in Seq(T) /\ Len(Rest(b)) = Len(b) + 1 - n
  BY <1>1, <1>2
<1>4. \A i \in 1 .. Len(Rest(b)) : Rest(b)[i] = b[n - 1 + i]
  BY <1>1, <1>2
<1> QED BY <1>1, <1>3, <1>4 DEF BufferIsEnd, n

(* An end of an end is an end. *)
LEMMA EndOfEnd ==
  ASSUME NEW T, NEW s \in Seq(T), NEW b \in Seq(T), NEW c \in Seq(T), BufferIsEnd(s, b), BufferIsEnd(b, c)
  PROVE  BufferIsEnd(s, c)
<1>1. Len(c) <= Len(s)
  BY DEF BufferIsEnd
<1>2. ASSUME NEW i \in 1 .. Len(c) PROVE c[i] = s[Len(s) - Len(c) + i]
  <2>1. Len(b) - Len(c) + i \in 1 .. Len(b) /\ c[i] = b[Len(b) - Len(c) + i]
    BY DEF BufferIsEnd
  <2>2. b[Len(b) - Len(c) + i] = s[Len(s) - Len(b) + (Len(b) - Len(c) + i)]
    BY <2>1 DEF BufferIsEnd
  <2> QED BY <2>1, <2>2
<1> QED BY <1>1, <1>2 DEF BufferIsEnd

-----------------------------------------------------------------------------
(* What a step makes of the record of its handler. *)

PlainMove(h, n) ==
  \E l \in Labels :
    /\ n = [h EXCEPT !.pc = l]
    /\ \/ h.pc = "new" /\ l = "activate"
       \/ h.pc = "activate" /\ l \in {"open", "out"}
       \/ h.pc = "set" /\ l = IF h.streaming THEN "head" ELSE "read"
       \/ h.pc = "head" /\ l = "loop"
       \/ h.pc = "loop" /\ l = "read1"
       \/ h.pc = "read1" /\ l = "flush"
       \/ h.pc = "read" /\ l = "answer"
       \/ h.pc = "unset" /\ l = "recover"
       \/ h.pc = "recover" /\ l \in {"open", "answer"}
       \/ h.pc = "answer" /\ l = "respond"
       \/ h.pc = "close" /\ l = "clear"
       \/ h.pc = "record" /\ l = "end"
       \/ h.pc = "end" /\ l = "out"

RaiseMove(h, n) ==
  \E what \in {"disconnect", "error", "exception"} :
    /\ n = [h EXCEPT !.pc = "close", !.raised = what]
    /\ h.pc \in {"head", "read1", "write", "read", "answer", "respond"}
    /\ what = "error" => h.pc \in {"read", "answer"}

OpenMove(h, n) ==
  /\ h.pc = "open"
  /\ \/ n = [h EXCEPT !.pc = "set", !.attempt = h.attempt + 1, !.sent = <<>>]
     \/ \E what \in {"error", "exception"} :
          n = [h EXCEPT !.pc = IF h.attempt = 0 THEN "record" ELSE "close", !.raised = what]

NoticeMove(h, n) ==
  /\ h.pc \in {"loop", "read1"} \/ (h.pc = "write" /\ h.gone)
  /\ n = [h EXCEPT !.pc = "flush", !.cancelled = TRUE, !.finish = "request_cancelled"]

Read1Move(h, n) ==
  /\ h.pc = "read1"
  /\ \E bytes \in Chunks :
       LET buffer == Cut(h.buffer \o bytes)
           frames == CompleteFrames(buffer) IN
       /\ WellFormed(h.sent \o bytes, Len(h.sent) + 1)
       /\ n = [h EXCEPT !.pc     = "write",
                        !.sent   = h.sent \o bytes,
                        !.chunk  = bytes,
                        !.buffer = Rest(buffer),
                        !.finish = FinishAfter(buffer, frames, h.finish),
                        !.done   = DoneAfter(buffer, frames, h.done)]

TimeoutMove(h, n) == h.pc = "read1" /\ n = [h EXCEPT !.pc = "flush", !.finish = "upstream_timeout"]

(* The write of a chunk or of a whole answer. *)
Delivery(h, bytes, label, late) ==
  [h EXCEPT !.pc = label, !.chunk = <<>>, !.client = IF h.gone THEN @ ELSE @ \o bytes, !.late = @ + late]

WriteMove(h, n) ==
  /\ h.pc = "write"
  /\ \E late \in {0, 1} : n = Delivery(h, h.chunk, IF h.done THEN "flush" ELSE "loop", late)

FlushMove(h, n) ==
  /\ h.pc = "flush"
  /\ n = [h EXCEPT !.pc     = "close",
                   !.buffer = <<>>,
                   !.done   = DoneAfter(h.buffer, Frames(h.buffer), h.done),
                   !.finish = IF h.cancelled THEN "request_cancelled"
                              ELSE FinishAfter(h.buffer, Frames(h.buffer), h.finish)]

BodyMove(h, n) ==
  /\ h.pc = "read"
  /\ \E body \in Answers :
       \/ n = [h EXCEPT !.pc = "answer", !.sent = body]
       \/ ~h.retried /\ n = [h EXCEPT !.pc = "retire", !.sent = body]

RetireMove(h, n) == h.pc = "retire" /\ n = [h EXCEPT !.pc = "unset", !.retried = TRUE]

RespondMove(h, n) ==
  /\ h.pc = "respond"
  /\ \E late \in {0, 1} :
       n = [Delivery(h, h.sent, "close", late) EXCEPT !.finish = FinishAfter(h.sent, DOMAIN h.sent, @)]

ClearMove(h, n) ==
  /\ h.pc = "clear"
  /\ n = [h EXCEPT !.pc     = "record",
                   !.finish = IF h.raised = "disconnect" /\ @ = "none" THEN "client_disconnect" ELSE @]

LeaveMove(h, n) == n = [h EXCEPT !.gone = TRUE]
LoseMove(h, n) == n = [h EXCEPT !.pc = "lost"]

(* The moves a handler makes, or its client; and the death of the core. *)
StepMove(h, n) ==
  \/ PlainMove(h, n) \/ RaiseMove(h, n) \/ OpenMove(h, n) \/ NoticeMove(h, n) \/ Read1Move(h, n)
  \/ TimeoutMove(h, n) \/ WriteMove(h, n) \/ FlushMove(h, n) \/ BodyMove(h, n) \/ RetireMove(h, n)
  \/ RespondMove(h, n) \/ ClearMove(h, n) \/ LeaveMove(h, n)

Move(h, n) == StepMove(h, n) \/ LoseMove(h, n)

(* The handlers of the others are left alone. *)
LEMMA SetHandler ==
  ASSUME RelayTypeOK, NEW r \in Request, NEW new, Set(r, new)
  PROVE  /\ handler' = [handler EXCEPT ![r] = handler'[r]]
         /\ handler'[r] = new
BY DEF RelayTypeOK, Set

(* A step of a handler, and a client that leaves, is one of the moves. *)
LEMMA StepMoves ==
  ASSUME RelayTypeOK, NEW r \in Request, HandlerStep(r) \/ ClientLeaves(r)
  PROVE  /\ handler' = [handler EXCEPT ![r] = handler'[r]]
         /\ StepMove(handler[r], handler'[r])
<1> DEFINE h == handler[r]
           n == handler'[r]
           Done == handler' = [handler EXCEPT ![r] = n] /\ StepMove(h, n)
<1> USE DEF StepMove
<1>1. CASE Register(r) \/ Activated(r) \/ ActivationFails(r) \/ EndOfStream(r) \/ ReadClosed(r)
           \/ Unset(r) \/ Recover(r) \/ Close(r) \/ Record(r) \/ EndRequest(r) \/ SetUpstream(r)
  <2>1. PICK l \in Labels : Set(r, [h EXCEPT !.pc = l]) /\ PlainMove(h, [h EXCEPT !.pc = l])
    BY <1>1 DEF Register, Activated, ActivationFails, EndOfStream, ReadClosed, Unset, Recover, Close, Record,
                EndRequest, SetUpstream, Goto, Only, At, Labels, PlainMove
  <2> QED BY <2>1, SetHandler
<1>2. CASE SendHead(r) \/ CheckCancel(r) \/ Answer(r) \/ ReadRaises(r) \/ ReadFails(r)
  <2>1. \/ \E l \in Labels : Set(r, [h EXCEPT !.pc = l]) /\ PlainMove(h, [h EXCEPT !.pc = l])
        \/ \E what \in {"disconnect", "error", "exception"} :
             /\ Set(r, [h EXCEPT !.pc = "close", !.raised = what])
             /\ RaiseMove(h, [h EXCEPT !.pc = "close", !.raised = what])
        \/ Set(r, Noticed(r)) /\ NoticeMove(h, Noticed(r))
    BY <1>2 DEF SendHead, CheckCancel, Answer, ReadRaises, ReadFails, StreamBreaks, Goto, Raise, Only, At, Labels,
                PlainMove, RaiseMove, NoticeMove, Noticed
  <2> QED BY <2>1, SetHandler
<1>3. CASE Open(r) \/ OpenFails(r)
  <2>1. CASE Open(r)
    BY <2>1, SetHandler DEF Open, At, OpenMove
  <2>2. CASE OpenFails(r)
    <3>1. PICK what \in {"error", "exception"} :
            Only(r, [h EXCEPT !.pc = IF h.attempt = 0 THEN "record" ELSE "close", !.raised = what])
      BY <2>2 DEF OpenFails
    <3>2. h.pc = "open" /\ n = [h EXCEPT !.pc = IF h.attempt = 0 THEN "record" ELSE "close", !.raised = what]
      BY <2>2, <3>1, SetHandler DEF Only, OpenFails, At
    <3> QED BY <3>1, <3>2, SetHandler DEF Only, OpenMove
  <2> QED BY <1>3, <2>1, <2>2
<1>4. CASE Read1(r)
  BY <1>4, SetHandler DEF Read1, Only, At, Read1Move
<1>5. CASE StreamTimeout(r)
  BY <1>5, SetHandler DEF StreamTimeout, Only, At, TimeoutMove
<1>6. CASE WriteChunk(r)
  <2>1. \/ \E late \in {0, 1} : Set(r, Delivery(h, h.chunk, IF h.done THEN "flush" ELSE "loop", late))
        \/ h.gone /\ Set(r, [h EXCEPT !.pc = "close", !.raised = "disconnect"])
        \/ h.gone /\ Set(r, Noticed(r))
    BY <1>6 DEF WriteChunk, StreamBreaks, Raise, Only, Delivered, Delivery
  <2> QED BY <1>6, <2>1, SetHandler DEF WriteChunk, At, WriteMove, RaiseMove, NoticeMove, Noticed
<1>7. CASE Flush(r)
  BY <1>7, SetHandler DEF Flush, Only, At, FlushMove
<1>8. CASE Read(r)
  BY <1>8, SetHandler DEF Read, MayRecover, Only, At, BodyMove
<1>9. CASE Retire(r)
  BY <1>9, SetHandler DEF Retire, At, RetireMove
<1>10. CASE Respond(r)
  <2>1. \/ \E late \in {0, 1} :
             Set(r, [Delivery(h, h.sent, "close", late) EXCEPT !.finish = FinishAfter(h.sent, DOMAIN h.sent, @)])
        \/ Set(r, [h EXCEPT !.pc = "close", !.raised = "disconnect"])
    BY <1>10 DEF Respond, Raise, Only, Delivered, Delivery
  <2> QED BY <1>10, <2>1, SetHandler DEF Respond, At, RespondMove, RaiseMove
<1>11. CASE Clear(r)
  BY <1>11, SetHandler DEF Clear, At, ClearMove
<1>12. CASE ClientLeaves(r)
  BY <1>12, SetHandler DEF ClientLeaves, Only, LeaveMove
<1> QED BY <1>1, <1>2, <1>3, <1>4, <1>5, <1>6, <1>7, <1>8, <1>9, <1>10, <1>11, <1>12 DEF HandlerStep

-----------------------------------------------------------------------------
(* Every move keeps the types and the shapes that are about one handler. *)

(* A part of a text is a text. *)
LEMMA TextParts ==
  ASSUME NEW h \in Handler, NEW bytes \in Chunks
  PROVE  /\ bytes \in Seq(Token) /\ bytes \in Text /\ bytes # <<>> /\ Len(bytes) <= MaxChunk
         /\ h.sent \o bytes \in Text
         /\ h.buffer \o bytes \in Text
         /\ Cut(h.buffer \o bytes) \in Text
         /\ Rest(Cut(h.buffer \o bytes)) \in Text
<1>1. PICK k \in 1 .. MaxChunk : bytes \in [1 .. k -> Token]
  BY DEF Chunks
<1>2. bytes \in Seq(Token) /\ Len(bytes) = k
  BY <1>1, RelayAssumption
<1>3. bytes \in Text /\ bytes # <<>> /\ Len(bytes) <= MaxChunk
  <2>1. \A i \in 1 .. k : bytes[i] \in Token \cup {"metal"}
    BY <1>1
  <2>2. bytes \in [1 .. k -> Token \cup {"metal"}]
    BY <1>1, <2>1
  <2> QED BY <1>1, <1>2, <2>2, RelayAssumption DEF Text
<1>4. h.sent \o bytes \in Text /\ h.buffer \o bytes \in Text
  BY <1>3 DEF Handler, Text
<1>5. Cut(h.buffer \o bytes) \in Text
  BY <1>4, LastEntriesEnd, RelayAssumption DEF Cut, Text
<1>6. Rest(Cut(h.buffer \o bytes)) \in Text
  BY <1>5, RestEnd DEF Text
<1> QED BY <1>2, <1>3, <1>4, <1>5, <1>6

(* A finish reason that is read is one of those an upstream sends. *)
LEMMA FinishTyped ==
  ASSUME NEW b \in Text, NEW positions \in SUBSET DOMAIN b, NEW before
  PROVE  \/ FinishAfter(b, positions, before) = before /\ \A i \in positions : b[i] \notin Finish
         \/ /\ \E i \in positions : b[i] \in Finish
            /\ LET last == Max({i \in positions : b[i] \in Finish}) IN
                 /\ last \in positions /\ b[last] \in Finish
                 /\ FinishAfter(b, positions, before) = b[last]
                 /\ \A i \in positions : b[i] \in Finish => i <= last
<1> DEFINE S == {i \in positions : b[i] \in Finish}
<1>1. CASE S = {}
  BY <1>1 DEF FinishAfter
<1>2. CASE S # {}
  <2>1. S \in SUBSET Nat /\ Len(b) \in Nat /\ \A x \in S : x <= Len(b)
    BY DEF Text
  <2>2. Max(S) \in S /\ \A x \in S : x <= Max(S)
    BY <1>2, <2>1, MaxIsGreatest
  <2>3. FinishAfter(b, positions, before) = b[Max(S)]
    BY <1>2 DEF FinishAfter
  <2> QED BY <1>2, <2>2, <2>3
<1> QED BY <1>1, <1>2

(* So the finish reason stays one. *)
LEMMA FinishAfterTyped ==
  ASSUME NEW b \in Text, NEW positions \in SUBSET DOMAIN b, NEW before \in Reason
  PROVE  FinishAfter(b, positions, before) \in Reason
<1>1. FinishAfter(b, positions, before) = before \/ FinishAfter(b, positions, before) \in Finish
  BY FinishTyped
<1> QED BY <1>1, RelayAssumption

(* Frames are positions of a buffer. *)
LEMMA FramesTyped ==
  ASSUME NEW b
  PROVE  Frames(b) \subseteq DOMAIN b /\ CompleteFrames(b) \subseteq DOMAIN b
BY DEF Frames, CompleteFrames

(* Every move leaves a handler. *)
LEMMA MoveTyped ==
  ASSUME NEW h \in Handler, AttemptShape(h), NEW n, Move(h, n)
  PROVE  n \in Handler
<1> USE DEF Handler, Labels
<1>0. /\ <<>> \in Text
      /\ Finish \cup {"client_disconnect", "request_cancelled", "upstream_timeout"} \subseteq Reason
  BY RelayAssumption DEF Text
<1>1. CASE PlainMove(h, n)
  BY <1>1 DEF PlainMove
<1>2. CASE RaiseMove(h, n)
  BY <1>2 DEF RaiseMove
<1>3. CASE OpenMove(h, n)
  <2>1. h.pc = "open" => h.attempt + 1 \in {0} \cup Attempt
    BY DEF AttemptShape, Attempt
  <2> QED BY <1>0, <1>3, <2>1 DEF OpenMove
<1>4. CASE NoticeMove(h, n)
  BY <1>0, <1>4 DEF NoticeMove
<1>5. CASE Read1Move(h, n)
  <2>1. PICK bytes \in Chunks :
          LET buffer == Cut(h.buffer \o bytes)
              frames == CompleteFrames(buffer) IN
          n = [h EXCEPT !.pc     = "write",
                        !.sent   = h.sent \o bytes,
                        !.chunk  = bytes,
                        !.buffer = Rest(buffer),
                        !.finish = FinishAfter(buffer, frames, h.finish),
                        !.done   = DoneAfter(buffer, frames, h.done)]
    BY <1>5 DEF Read1Move
  <2> DEFINE buffer == Cut(h.buffer \o bytes)
  <2>2. buffer \in Text /\ h.sent \o bytes \in Text /\ bytes \in Text /\ Rest(buffer) \in Text
    BY TextParts
  <2>3. FinishAfter(buffer, CompleteFrames(buffer), h.finish) \in Reason
    BY <2>2, FinishAfterTyped, FramesTyped
  <2>4. DoneAfter(buffer, CompleteFrames(buffer), h.done) \in BOOLEAN
    BY DEF DoneAfter
  <2> HIDE DEF buffer
  <2> QED BY <2>1, <2>2, <2>3, <2>4 DEF buffer
<1>6. CASE TimeoutMove(h, n)
  BY <1>0, <1>6 DEF TimeoutMove
<1>7. CASE WriteMove(h, n)
  <2>1. h.client \o h.chunk \in Text
    BY DEF Text
  <2>2. PICK late \in {0, 1} : n = Delivery(h, h.chunk, IF h.done THEN "flush" ELSE "loop", late)
    BY <1>7 DEF WriteMove
  <2>3. h.late + late \in Nat
    OBVIOUS
  <2> QED BY <1>0, <2>1, <2>2, <2>3 DEF Delivery
<1>8. CASE FlushMove(h, n)
  <2>1. FinishAfter(h.buffer, Frames(h.buffer), h.finish) \in Reason
    BY FinishAfterTyped, FramesTyped
  <2>2. DoneAfter(h.buffer, Frames(h.buffer), h.done) \in BOOLEAN
    BY DEF DoneAfter
  <2> QED BY <1>0, <1>8, <2>1, <2>2 DEF FlushMove
<1>9. CASE BodyMove(h, n)
  <2>1. \A body \in Answers : body \in Text
    <3>1. \A x \in Token \cup {"metal"} : <<x>> \in Text
      BY DEF Text
    <3>2. Finish \cup {"junk"} \subseteq Token
      BY DEF Token, Payload
    <3> QED BY <3>1, <3>2 DEF Answers
  <2> QED BY <1>9, <2>1 DEF BodyMove
<1>10. CASE RetireMove(h, n)
  BY <1>10 DEF RetireMove
<1>11. CASE RespondMove(h, n)
  <2>1. h.client \o h.sent \in Text
    BY DEF Text
  <2>2. FinishAfter(h.sent, DOMAIN h.sent, h.finish) \in Reason
    BY FinishAfterTyped
  <2>3. PICK late \in {0, 1} :
          n = [Delivery(h, h.sent, "close", late) EXCEPT !.finish = FinishAfter(h.sent, DOMAIN h.sent, @)]
    BY <1>11 DEF RespondMove
  <2>4. h.late + late \in Nat
    OBVIOUS
  <2> QED BY <1>0, <2>1, <2>2, <2>3, <2>4 DEF Delivery
<1>12. CASE ClearMove(h, n)
  BY <1>0, <1>12 DEF ClearMove
<1>13. CASE LeaveMove(h, n) \/ LoseMove(h, n)
  BY <1>13 DEF LeaveMove, LoseMove
<1> QED BY <1>1, <1>2, <1>3, <1>4, <1>5, <1>6, <1>7, <1>8, <1>9, <1>10, <1>11, <1>12, <1>13 DEF Move, StepMove

(* Where the moves lead. *)
Leads(l, m) ==
  \/ m = l
  \/ l = "new" /\ m = "activate"
  \/ l = "activate" /\ m \in {"open", "out"}
  \/ l = "open" /\ m \in {"set", "record", "close"}
  \/ l = "set" /\ m \in {"head", "read"}
  \/ l = "head" /\ m \in {"loop", "close"}
  \/ l = "loop" /\ m \in {"read1", "flush"}
  \/ l = "read1" /\ m \in {"write", "flush", "close"}
  \/ l = "write" /\ m \in {"loop", "flush", "close"}
  \/ l = "flush" /\ m = "close"
  \/ l = "read" /\ m \in {"answer", "retire", "close"}
  \/ l = "retire" /\ m = "unset"
  \/ l = "unset" /\ m = "recover"
  \/ l = "recover" /\ m \in {"open", "answer"}
  \/ l = "answer" /\ m \in {"respond", "close"}
  \/ l = "respond" /\ m = "close"
  \/ l = "close" /\ m = "clear"
  \/ l = "clear" /\ m = "record"
  \/ l = "record" /\ m = "end"
  \/ l = "end" /\ m = "out"

(* The label, the attempt and the writes after a cancellation. *)
LEMMA MoveLeads ==
  ASSUME NEW h \in Handler, NEW n, StepMove(h, n)
  PROVE  /\ Leads(h.pc, n.pc)
         /\ n.attempt = h.attempt \/ (h.pc = "open" /\ n.pc = "set" /\ n.attempt = h.attempt + 1)
         /\ n.late = h.late \/ (h.pc \in {"write", "respond"} /\ n.late \in {h.late, h.late + 1})
<1> USE DEF Handler, Leads
<1>1. CASE PlainMove(h, n)
  BY <1>1 DEF PlainMove
<1>2. CASE RaiseMove(h, n) \/ OpenMove(h, n) \/ NoticeMove(h, n) \/ TimeoutMove(h, n)
  BY <1>2 DEF RaiseMove, OpenMove, NoticeMove, TimeoutMove
<1>3. CASE Read1Move(h, n) \/ FlushMove(h, n) \/ BodyMove(h, n)
  BY <1>3 DEF Read1Move, FlushMove, BodyMove
<1>4. CASE WriteMove(h, n)
  BY <1>4 DEF WriteMove, Delivery
<1>5. CASE RespondMove(h, n)
  BY <1>5 DEF RespondMove, Delivery
<1>6. CASE RetireMove(h, n) \/ ClearMove(h, n) \/ LeaveMove(h, n)
  BY <1>6 DEF RetireMove, ClearMove, LeaveMove
<1> QED BY <1>1, <1>2, <1>3, <1>4, <1>5, <1>6 DEF StepMove

(* What the moves change, field by field. *)
LEMMA PlainFields ==
  ASSUME NEW h \in Handler, NEW n, PlainMove(h, n)
  PROVE  /\ n = [h EXCEPT !.pc = n.pc]
         /\ n.streaming = h.streaming /\ n.attempt = h.attempt /\ n.sent = h.sent /\ n.chunk = h.chunk
         /\ n.buffer = h.buffer /\ n.done = h.done /\ n.finish = h.finish /\ n.cancelled = h.cancelled
         /\ n.raised = h.raised /\ n.retried = h.retried /\ n.client = h.client /\ n.gone = h.gone
         /\ n.late = h.late
BY DEF PlainMove, Handler

(* An exception ends the inner block, and changes nothing else. *)
LEMMA RaiseFields ==
  ASSUME NEW h \in Handler, NEW n, RaiseMove(h, n)
  PROVE  /\ n.pc = "close" /\ n.raised \in {"disconnect", "error", "exception"}
         /\ n.raised = "error" => h.pc \in {"read", "answer"}
         /\ n.streaming = h.streaming /\ n.attempt = h.attempt /\ n.sent = h.sent /\ n.chunk = h.chunk
         /\ n.buffer = h.buffer /\ n.done = h.done /\ n.finish = h.finish /\ n.cancelled = h.cancelled
         /\ n.retried = h.retried /\ n.client = h.client /\ n.gone = h.gone
         /\ n.late = h.late
BY DEF RaiseMove, Handler

(* The labels, the attempts and what is known early. *)
LEMMA MoveLabels ==
  ASSUME NEW h \in Handler, NEW n \in Handler, Move(h, n), EarlyIsFresh(h), LabelShape(h), AttemptShape(h)
  PROVE  EarlyIsFresh(n) /\ LabelShape(n) /\ AttemptShape(n)
<1>1. CASE PlainMove(h, n)
  <2>1. EarlyIsFresh(n)
    BY <1>1, PlainFields DEF PlainMove, EarlyIsFresh, Early, Handler
  <2>2. LabelShape(n)
    BY <1>1, PlainFields DEF PlainMove, LabelShape, EarlyIsFresh, Early, Streamed, Whole, Ended, Handler
  <2>3. AttemptShape(n)
    BY <1>1, PlainFields DEF PlainMove, AttemptShape, Attempt, LabelShape, EarlyIsFresh, Early, Streamed, Whole, Handler
  <2> QED BY <2>1, <2>2, <2>3
<1>2. CASE RaiseMove(h, n)
  <2>1. n.pc = "close" /\ n.attempt = h.attempt /\ n.retried = h.retried /\ n.streaming = h.streaming /\ n.sent = h.sent
    BY <1>2, RaiseFields
  <2>2. h.pc \in {"head", "read1", "write", "read", "answer", "respond"}
    BY <1>2 DEF RaiseMove
  <2> QED BY <2>1, <2>2 DEF EarlyIsFresh, LabelShape, AttemptShape, Early, Whole, Streamed, Ended
<1>3. CASE OpenMove(h, n)
  <2>1. h.pc = "open" /\ h.attempt \in {0} \cup Attempt
    BY <1>3 DEF OpenMove, Handler
  <2>2. CASE n = [h EXCEPT !.pc = "set", !.attempt = h.attempt + 1, !.sent = <<>>]
    <3>1. /\ n.pc = "set" /\ n.attempt = h.attempt + 1 /\ n.sent = <<>>
          /\ n.finish = h.finish /\ n.raised = h.raised /\ n.cancelled = h.cancelled /\ n.done = h.done
          /\ n.late = h.late /\ n.client = h.client /\ n.buffer = h.buffer
          /\ n.streaming = h.streaming /\ n.retried = h.retried
      BY <2>2 DEF Handler
    <3> QED BY <2>1, <3>1 DEF EarlyIsFresh, LabelShape, AttemptShape, Early, Whole, Streamed, Ended, Attempt
  <2>3. CASE \E what \in {"error", "exception"} :
               n = [h EXCEPT !.pc = IF h.attempt = 0 THEN "record" ELSE "close", !.raised = what]
    <3>1. /\ n.pc = IF h.attempt = 0 THEN "record" ELSE "close"
          /\ n.attempt = h.attempt /\ n.retried = h.retried /\ n.streaming = h.streaming
      BY <2>3 DEF Handler
    <3> QED BY <2>1, <3>1 DEF EarlyIsFresh, LabelShape, AttemptShape, Early, Whole, Streamed, Ended
  <2> QED BY <1>3, <2>2, <2>3 DEF OpenMove
<1>4. CASE \/ NoticeMove(h, n) \/ TimeoutMove(h, n) \/ Read1Move(h, n) \/ WriteMove(h, n) \/ FlushMove(h, n)
  <2>1. /\ h.pc \in Streamed \ {"head"} /\ n.pc \in Streamed \cup {"close"} /\ n.pc # "head"
        /\ n.raised = h.raised /\ n.attempt = h.attempt /\ n.retried = h.retried /\ n.streaming = h.streaming
    BY <1>4 DEF NoticeMove, TimeoutMove, Read1Move, WriteMove, FlushMove, Delivery, Handler, Streamed
  <2> QED BY <2>1 DEF EarlyIsFresh, LabelShape, AttemptShape, Early, Whole, Streamed, Ended
<1>5. CASE BodyMove(h, n)
  <2>1. /\ h.pc = "read"
        /\ n.pc = "answer" \/ (n.pc = "retire" /\ ~h.retried)
        /\ n.raised = h.raised /\ n.attempt = h.attempt /\ n.retried = h.retried /\ n.streaming = h.streaming
        /\ n.finish = h.finish /\ n.cancelled = h.cancelled /\ n.done = h.done /\ n.late = h.late
        /\ n.client = h.client /\ n.buffer = h.buffer
    BY <1>5 DEF BodyMove, Handler
  <2> QED BY <2>1 DEF EarlyIsFresh, LabelShape, AttemptShape, Early, Whole, Streamed, Ended
<1>6. CASE RetireMove(h, n)
  <2>1. /\ h.pc = "retire" /\ n.pc = "unset" /\ n.retried
        /\ n.raised = h.raised /\ n.attempt = h.attempt /\ n.streaming = h.streaming
        /\ n.finish = h.finish /\ n.cancelled = h.cancelled /\ n.done = h.done /\ n.late = h.late
        /\ n.client = h.client /\ n.buffer = h.buffer
    BY <1>6 DEF RetireMove, Handler
  <2>2. h.attempt \in {0} \cup Attempt
    BY DEF Handler
  <2> QED BY <2>1, <2>2 DEF EarlyIsFresh, LabelShape, AttemptShape, Early, Whole, Streamed, Ended, Attempt
<1>7. CASE RespondMove(h, n) \/ ClearMove(h, n)
  <2>1. /\ \/ h.pc = "respond" /\ n.pc = "close"
           \/ h.pc = "clear" /\ n.pc = "record"
        /\ n.raised = h.raised /\ n.attempt = h.attempt /\ n.retried = h.retried /\ n.streaming = h.streaming
    BY <1>7 DEF RespondMove, ClearMove, Delivery, Handler
  <2> QED BY <2>1 DEF EarlyIsFresh, LabelShape, AttemptShape, Early, Whole, Streamed, Ended
<1>8. CASE LeaveMove(h, n)
  <2>1. /\ n.pc = h.pc /\ n.sent = h.sent
        /\ n.raised = h.raised /\ n.attempt = h.attempt /\ n.retried = h.retried /\ n.streaming = h.streaming
        /\ n.finish = h.finish /\ n.cancelled = h.cancelled /\ n.done = h.done /\ n.late = h.late
        /\ n.client = h.client /\ n.buffer = h.buffer
    BY <1>8 DEF LeaveMove, Handler
  <2> QED BY <2>1 DEF EarlyIsFresh, LabelShape, AttemptShape
<1>9. CASE LoseMove(h, n)
  <2>1. n.pc = "lost" /\ n.attempt = h.attempt /\ n.retried = h.retried /\ n.streaming = h.streaming
    BY <1>9 DEF LoseMove, Handler
  <2> QED BY <2>1 DEF EarlyIsFresh, LabelShape, AttemptShape, Early, Whole, Streamed, Ended
<1> QED BY <1>1, <1>2, <1>3, <1>4, <1>5, <1>6, <1>7, <1>8, <1>9 DEF Move, StepMove

-----------------------------------------------------------------------------
(* What the client has received. *)

(* A beginning, position by position. *)
LEMMA BeginningIsPointwise ==
  ASSUME NEW s \in Text, NEW t \in Text
  PROVE  IsBeginning(s, t) <=> Len(s) <= Len(t) /\ \A i \in 1 .. Len(s) : s[i] = t[i]
<1>1. ASSUME Len(s) <= Len(t) PROVE s = SubSeq(t, 1, Len(s)) <=> \A i \in 1 .. Len(s) : s[i] = t[i]
  <2> DEFINE u == SubSeq(t, 1, Len(s))
  <2>1. u \in Text /\ Len(u) = Len(s) /\ \A i \in 1 .. Len(s) : u[i] = t[i]
    BY <1>1 DEF Text
  <2> HIDE DEF u
  <2>2. s = u <=> \A i \in 1 .. Len(s) : s[i] = u[i]
    BY <2>1 DEF Text
  <2> QED BY <2>1, <2>2 DEF u
<1> QED BY <1>1 DEF IsBeginning

(* It remains one when more is sent, and grows by what is sent next. *)
LEMMA BeginningGrows ==
  ASSUME NEW s \in Text, NEW t \in Text, NEW c \in Text, IsBeginning(s, t)
  PROVE  /\ IsBeginning(s, t \o c)
         /\ Len(s) = Len(t) => s = t
<1>1. Len(s) <= Len(t) /\ \A i \in 1 .. Len(s) : s[i] = t[i]
  BY BeginningIsPointwise
<1>2. t \o c \in Text /\ Len(t \o c) = Len(t) + Len(c) /\ \A i \in 1 .. Len(t) : (t \o c)[i] = t[i]
  BY DEF Text
<1>3. IsBeginning(s, t \o c)
  <2>1. Len(s) \in Nat /\ Len(t) \in Nat /\ Len(c) \in Nat
    BY DEF Text
  <2>2. \A i \in 1 .. Len(s) : s[i] = (t \o c)[i]
    BY <1>1, <1>2, <2>1
  <2>3. Len(s) <= Len(t \o c)
    BY <1>1, <1>2, <2>1
  <2> DEFINE u == t \o c
  <2> HIDE DEF u
  <2> QED BY <1>2, <2>2, <2>3, BeginningIsPointwise DEF u
<1>4. Len(s) = Len(t) => s = t
  BY <1>1 DEF Text
<1> QED BY <1>3, <1>4

(* All of it, and the next part of the same. *)
LEMMA BeginningContinues ==
  ASSUME NEW s \in Text, NEW t \in Text, NEW c \in Text, IsBeginning(s, t),
         Len(s) + Len(c) = Len(t), \A k \in 1 .. Len(c) : c[k] = t[Len(t) - Len(c) + k]
  PROVE  s \o c = t
<1>1. Len(s) <= Len(t) /\ \A i \in 1 .. Len(s) : s[i] = t[i]
  BY BeginningIsPointwise
<1>2. /\ s \o c \in Text /\ Len(s \o c) = Len(t)
      /\ \A i \in 1 .. Len(t) : (s \o c)[i] = IF i <= Len(s) THEN s[i] ELSE c[i - Len(s)]
  BY DEF Text
<1>3. \A i \in 1 .. Len(t) : (s \o c)[i] = t[i]
  <2> TAKE i \in 1 .. Len(t)
  <2>1. CASE i <= Len(s)
    BY <1>1, <1>2, <2>1
  <2>2. CASE i > Len(s)
    <3>1. Len(s) \in Nat /\ Len(c) \in Nat /\ Len(t) \in Nat
      BY DEF Text
    <3>2. i - Len(s) \in 1 .. Len(c)
      BY <2>2, <3>1
    <3>3. Len(t) - Len(c) + (i - Len(s)) = i
      BY <2>2, <3>1
    <3>4. c[i - Len(s)] = t[i]
      BY <3>2, <3>3
    <3>5. (s \o c)[i] = c[i - Len(s)]
      BY <1>2, <2>2, <3>1
    <3> QED BY <3>4, <3>5
  <2>3. Len(s) \in Nat
    BY DEF Text
  <2> QED BY <2>1, <2>2, <2>3
<1> DEFINE u == s \o c
<1>4. u \in Text /\ Len(u) = Len(t) /\ \A i \in 1 .. Len(t) : u[i] = t[i]
  BY <1>2, <1>3
<1> HIDE DEF u
<1>5. u = t
  BY <1>4 DEF Text
<1> QED BY <1>5 DEF u

(* An empty answer begins everything, and a text begins itself. *)
LEMMA BeginningTrivially ==
  ASSUME NEW t \in Text
  PROVE  IsBeginning(<<>>, t) /\ IsBeginning(t, t)
<1>1. <<>> \in Text /\ Len(<<>>) = 0 /\ Len(t) \in Nat
  BY DEF Text
<1> QED BY <1>1, BeginningIsPointwise

(* What has just been read is the end of what was sent. *)
LEMMA ChunkIsEnd ==
  ASSUME NEW t \in Text, NEW c \in Text
  PROVE  /\ Len(t \o c) = Len(t) + Len(c) /\ Len(t) \in Nat /\ Len(c) \in Nat
         /\ \A i \in 1 .. Len(c) : c[i] = (t \o c)[Len(t \o c) - Len(c) + i]
<1>1. Len(t \o c) = Len(t) + Len(c) /\ Len(t) \in Nat /\ Len(c) \in Nat
  BY DEF Text
<1>2. \A i \in 1 .. Len(c) : c[i] = (t \o c)[Len(t) + i]
  BY DEF Text
<1> QED BY <1>1, <1>2

(* Every move keeps what the client has received a beginning. *)
LEMMA MoveClient ==
  ASSUME NEW h \in Handler, NEW n \in Handler, Move(h, n), EarlyIsFresh(h), LabelShape(h), ClientShape(h)
  PROVE  ClientShape(n)
<1>0. /\ h.sent \in Text /\ h.chunk \in Text /\ h.client \in Text
      /\ n.sent \in Text /\ n.chunk \in Text /\ n.client \in Text
  BY DEF Handler
<1>1. CASE PlainMove(h, n)
  <2>1. /\ n.client = h.client /\ n.sent = h.sent /\ n.gone = h.gone /\ n.raised = h.raised
        /\ n.pc # "write" /\ h.pc # "write"
        /\ n.pc \in {"loop", "read1", "flush"} =>
             h.pc \in {"loop", "read1"} \/ (h.pc = "head" /\ n.client = <<>> /\ n.sent = <<>>)
        /\ n.pc \in {"close", "clear", "record"} => h.pc \in {"close", "clear"}
    BY <1>1, PlainFields DEF PlainMove, EarlyIsFresh, Early, LabelShape, Handler
  <2> QED BY <2>1 DEF ClientShape
<1>2. CASE RaiseMove(h, n)
  <2>1. n.pc = "close" /\ n.client = h.client /\ n.sent = h.sent /\ n.raised # "nothing"
    BY <1>2, RaiseFields
  <2> QED BY <2>1 DEF ClientShape
<1>3. CASE OpenMove(h, n)
  <2>1. /\ n.client = <<>>
        /\ n.pc = "set" \/ (n.pc \in {"record", "close"} /\ n.raised # "nothing")
    BY <1>3 DEF OpenMove, EarlyIsFresh, Early, Handler
  <2> QED BY <1>0, <2>1, BeginningTrivially DEF ClientShape
<1>4. CASE NoticeMove(h, n) \/ TimeoutMove(h, n)
  <2>1. /\ n.pc = "flush" /\ n.client = h.client /\ n.sent = h.sent /\ n.gone = h.gone
        /\ h.pc \in {"loop", "read1"} \/ h.gone
    BY <1>4 DEF NoticeMove, TimeoutMove, Handler
  <2> QED BY <2>1 DEF ClientShape
<1>5. CASE Read1Move(h, n)
  <2>1. PICK bytes \in Chunks :
          /\ h.pc = "read1" /\ n.pc = "write" /\ n.sent = h.sent \o bytes /\ n.chunk = bytes
          /\ n.client = h.client /\ n.gone = h.gone
    BY <1>5 DEF Read1Move, Handler
  <2>2. bytes \in Text
    BY TextParts
  <2>3. IsBeginning(n.client, n.sent)
    BY <1>0, <2>1, <2>2, BeginningGrows DEF ClientShape
  <2>4. Len(h.client) <= Len(h.sent) /\ Len(h.client) \in Nat
    BY <1>0 DEF ClientShape, IsBeginning, Text
  <2>5. ~h.gone => h.client = h.sent
    BY <2>1 DEF ClientShape
  <2>6. /\ Len(n.client) + Len(n.chunk) <= Len(n.sent)
        /\ \A i \in 1 .. Len(n.chunk) : n.chunk[i] = n.sent[Len(n.sent) - Len(n.chunk) + i]
        /\ ~n.gone => Len(n.client) + Len(n.chunk) = Len(n.sent)
    <3>1. /\ Len(n.sent) = Len(h.sent) + Len(bytes) /\ Len(h.sent) \in Nat /\ Len(bytes) \in Nat
          /\ \A i \in 1 .. Len(bytes) : bytes[i] = n.sent[Len(n.sent) - Len(bytes) + i]
      BY <1>0, <2>1, <2>2, ChunkIsEnd
    <3>2. Len(h.client) + Len(bytes) <= Len(n.sent)
      BY <2>4, <3>1
    <3>3. ~h.gone => Len(h.client) + Len(bytes) = Len(n.sent)
      BY <2>5, <3>1
    <3> QED BY <2>1, <3>1, <3>2, <3>3
  <2> QED BY <2>1, <2>3, <2>6 DEF ClientShape
<1>6. CASE WriteMove(h, n)
  <2>1. /\ h.pc = "write" /\ n.pc \in {"loop", "flush"} /\ n.sent = h.sent /\ n.gone = h.gone
        /\ n.client = IF h.gone THEN h.client ELSE h.client \o h.chunk
    BY <1>6 DEF WriteMove, Delivery, Handler
  <2>2. ~h.gone => h.client \o h.chunk = h.sent
    BY <1>0, <2>1, BeginningContinues DEF ClientShape
  <2> QED BY <1>0, <2>1, <2>2, BeginningTrivially DEF ClientShape
<1>7. CASE FlushMove(h, n)
  <2>1. h.pc = "flush" /\ n.pc = "close" /\ n.client = h.client /\ n.sent = h.sent /\ n.gone = h.gone
    BY <1>7 DEF FlushMove, Handler
  <2> QED BY <2>1 DEF ClientShape
<1>8. CASE BodyMove(h, n) \/ RetireMove(h, n)
  <2>1. n.pc \in {"answer", "retire", "unset"} /\ n.client = <<>>
    BY <1>8 DEF BodyMove, RetireMove, EarlyIsFresh, Early, Handler
  <2> QED BY <1>0, <2>1, BeginningTrivially DEF ClientShape
<1>9. CASE RespondMove(h, n)
  <2>1. PICK late \in {0, 1} :
          n = [Delivery(h, h.sent, "close", late) EXCEPT !.finish = FinishAfter(h.sent, DOMAIN h.sent, @)]
    BY <1>9 DEF RespondMove
  <2>2. /\ n.pc = "close" /\ n.sent = h.sent /\ n.gone = h.gone
        /\ n.client = IF h.gone THEN h.client ELSE h.client \o h.sent
    BY <2>1 DEF Delivery, Handler
  <2>3. h.client = <<>> /\ <<>> \o h.sent = h.sent
    BY <1>0, <1>9 DEF RespondMove, EarlyIsFresh, Early, Text
  <2> QED BY <1>0, <2>2, <2>3, BeginningTrivially DEF ClientShape
<1>10. CASE ClearMove(h, n)
  <2>1. /\ h.pc = "clear" /\ n.pc = "record" /\ n.client = h.client /\ n.sent = h.sent /\ n.gone = h.gone
        /\ n.raised = h.raised
    BY <1>10 DEF ClearMove, Handler
  <2> QED BY <2>1 DEF ClientShape
<1>11. CASE LeaveMove(h, n)
  <2>1. n.pc = h.pc /\ n.client = h.client /\ n.sent = h.sent /\ n.chunk = h.chunk /\ n.gone
    BY <1>11 DEF LeaveMove, Handler
  <2> QED BY <2>1 DEF ClientShape
<1>12. CASE LoseMove(h, n)
  <2>1. n.pc = "lost" /\ n.client = h.client /\ n.sent = h.sent
    BY <1>12 DEF LoseMove, Handler
  <2> QED BY <2>1 DEF ClientShape
<1> QED BY <1>1, <1>2, <1>3, <1>4, <1>5, <1>6, <1>7, <1>8, <1>9, <1>10, <1>11, <1>12 DEF Move, StepMove

-----------------------------------------------------------------------------
(* The finish reason. *)

(* What is appended to both leaves an end an end. *)
LEMMA EndExtends ==
  ASSUME NEW s \in Text, NEW b \in Text, NEW c \in Text, BufferIsEnd(s, b)
  PROVE  BufferIsEnd(s \o c, b \o c)
<1>1. Len(s) \in Nat /\ Len(b) \in Nat /\ Len(c) \in Nat
  BY DEF Text
<1>2. Len(s \o c) = Len(s) + Len(c) /\ Len(b \o c) = Len(b) + Len(c)
  BY DEF Text
<1>3. ASSUME NEW i \in 1 .. Len(b) + Len(c)
      PROVE  (b \o c)[i] = (s \o c)[Len(s) - Len(b) + i]
  <2>1. CASE i <= Len(b)
    <3>1. i \in 1 .. Len(b) /\ Len(s) - Len(b) + i \in 1 .. Len(s)
      BY <1>1, <2>1 DEF BufferIsEnd
    <3>2. (b \o c)[i] = b[i] /\ (s \o c)[Len(s) - Len(b) + i] = s[Len(s) - Len(b) + i]
      BY <1>1, <3>1 DEF Text
    <3> QED BY <3>1, <3>2 DEF BufferIsEnd
  <2>2. CASE i > Len(b)
    <3> DEFINE k == i - Len(b)
    <3>1. k \in 1 .. Len(c) /\ i = Len(b) + k /\ Len(s) - Len(b) + i = Len(s) + k
      BY <1>1, <2>2
    <3> HIDE DEF k
    <3>2. (b \o c)[Len(b) + k] = c[k] /\ (s \o c)[Len(s) + k] = c[k]
      BY <1>1, <3>1 DEF Text
    <3> QED BY <3>1, <3>2
  <2>3. i <= Len(b) \/ i > Len(b)
    BY <1>1
  <2> QED BY <2>1, <2>2, <2>3
<1>4. Len(b) + Len(c) <= Len(s) + Len(c)
  BY <1>1 DEF BufferIsEnd
<1>5. Len(s) - Len(b) = Len(s \o c) - Len(b \o c)
  BY <1>1, <1>2
<1> QED BY <1>2, <1>3, <1>4, <1>5 DEF BufferIsEnd

(* The buffer that is parsed, and what is kept of it, are ends of what was
   sent. *)
LEMMA BuffersAreEnds ==
  ASSUME NEW h \in Handler, NEW bytes \in Chunks, BufferIsEnd(h.sent, h.buffer)
  PROVE  /\ BufferIsEnd(h.sent \o bytes, Cut(h.buffer \o bytes))
         /\ BufferIsEnd(h.sent \o bytes, Rest(Cut(h.buffer \o bytes)))
<1> DEFINE s == h.sent \o bytes
           b == h.buffer \o bytes
           c == Cut(b)
<1>1. s \in Text /\ b \in Text /\ c \in Text /\ Rest(c) \in Text
  BY TextParts
<1>2. BufferIsEnd(s, b)
  BY EndExtends, TextParts DEF Handler
<1>3. BufferIsEnd(b, c)
  <2>1. BufferIsEnd(b, b)
    BY <1>1 DEF BufferIsEnd, Text
  <2>2. Keep \in Nat
    BY RelayAssumption
  <2> HIDE DEF b
  <2>3. BufferIsEnd(b, LastEntries(b, Keep))
    BY <1>1, <2>2, LastEntriesEnd DEF Text
  <2> QED BY <2>1, <2>3 DEF Cut
<1>4. BufferIsEnd(c, Rest(c))
  BY <1>1, RestEnd DEF Text
<1> HIDE DEF s, b, c
<1>5. BufferIsEnd(s, c)
  BY <1>1, <1>2, <1>3, EndOfEnd DEF Text
<1>6. BufferIsEnd(s, Rest(c))
  BY <1>1, <1>4, <1>5, EndOfEnd DEF Text
<1> QED BY <1>5, <1>6 DEF s, b, c

(* A token of an end was sent. *)
LEMMA EndWasSent ==
  ASSUME NEW s \in Text, NEW b \in Text, BufferIsEnd(s, b), NEW i \in DOMAIN b
  PROVE  Len(s) - Len(b) + i \in DOMAIN s /\ s[Len(s) - Len(b) + i] = b[i]
<1>1. Len(s) \in Nat /\ Len(b) \in Nat /\ DOMAIN s = 1 .. Len(s) /\ DOMAIN b = 1 .. Len(b)
  BY DEF Text
<1> QED BY <1>1 DEF BufferIsEnd

(* A finish reason that is found in an end was sent. *)
LEMMA FinishWasSent ==
  ASSUME NEW s \in Text, NEW b \in Text, BufferIsEnd(s, b), NEW positions \in SUBSET DOMAIN b, NEW before,
         before \in Success => \E i \in DOMAIN s : s[i] = before
  PROVE  LET after == FinishAfter(b, positions, before) IN
           after \in Success => \E i \in DOMAIN s : s[i] = after
<1>1. CASE FinishAfter(b, positions, before) = before
  BY <1>1
<1>2. CASE \E i \in positions : FinishAfter(b, positions, before) = b[i]
  BY <1>2, EndWasSent
<1> QED BY <1>1, <1>2, FinishTyped

(* Every move keeps the finish reason one that was sent, a cancellation, or
   none of a success. *)
LEMMA MoveFinish ==
  ASSUME NEW h \in Handler, NEW n \in Handler, Move(h, n), EarlyIsFresh(h), LabelShape(h), FinishShape(h),
         BufferIsEnd(h.sent, h.buffer)
  PROVE  FinishShape(n)
<1>0. /\ "none" \notin Success /\ "request_cancelled" \notin Success
      /\ "upstream_timeout" \notin Success /\ "client_disconnect" \notin Success
  BY RecorderAssumption, RelayAssumption
<1>t. h.sent \in Text /\ h.buffer \in Text
  BY DEF Handler
<1>1. CASE PlainMove(h, n) \/ LeaveMove(h, n) \/ LoseMove(h, n)
  <2>1. n.finish = h.finish /\ n.sent = h.sent /\ n.cancelled = h.cancelled /\ n.raised = h.raised
    BY <1>1, PlainFields DEF LeaveMove, LoseMove, Handler
  <2>2. /\ h.pc \in Ended => n.pc \in Ended
        /\ h.pc = "flush" => n.pc \in {"flush", "lost"}
        /\ n.pc \in Ended => h.pc \in Ended \cup {"activate"} \/ n.pc = "lost"
    BY <1>1, PlainFields DEF PlainMove, LeaveMove, LoseMove, Ended, Handler
  <2>3. h.cancelled => h.pc \in {"flush"} \cup Ended
    BY DEF FinishShape
  <2>4. h.cancelled => n.pc \in {"flush"} \cup Ended
    BY <2>2, <2>3 DEF Ended
  <2> QED BY <2>1, <2>4 DEF FinishShape
<1>2. CASE RaiseMove(h, n)
  <2>1. h.pc \in {"head", "read1", "write", "read", "answer", "respond"}
    BY <1>2 DEF RaiseMove
  <2>2. /\ n.finish = h.finish /\ n.sent = h.sent /\ n.cancelled = h.cancelled /\ n.pc = "close"
        /\ n.raised = "error" => h.pc \in {"read", "answer"}
    BY <1>2, RaiseFields
  <2>3. n.raised = "error" => h.finish = "none"
    BY <2>2 DEF EarlyIsFresh, Early
  <2>4. ~h.cancelled
    BY <2>1 DEF FinishShape, Ended
  <2> QED BY <2>2, <2>3, <2>4 DEF FinishShape
<1>3. CASE OpenMove(h, n)
  <2>1. n.finish = "none" /\ ~n.cancelled
    BY <1>3 DEF OpenMove, EarlyIsFresh, Early, Handler
  <2> QED BY <1>0, <2>1 DEF FinishShape
<1>4. CASE NoticeMove(h, n) \/ TimeoutMove(h, n)
  <2>1. /\ n.pc = "flush" /\ n.finish \in {"request_cancelled", "upstream_timeout"}
        /\ h.pc \in {"loop", "read1", "write"} /\ n.raised = h.raised
        /\ n.cancelled => h.cancelled \/ n.finish = "request_cancelled"
    BY <1>4 DEF NoticeMove, TimeoutMove, Handler
  <2>2. n.raised = "nothing" /\ ~h.cancelled
    BY <2>1 DEF LabelShape, FinishShape, Ended
  <2> QED BY <1>0, <2>1, <2>2 DEF FinishShape, Ended
<1>5. CASE Read1Move(h, n)
  <2>1. PICK bytes \in Chunks :
          LET buffer == Cut(h.buffer \o bytes) IN
          /\ n.pc = "write" /\ n.sent = h.sent \o bytes /\ n.cancelled = h.cancelled /\ n.raised = h.raised
          /\ n.finish = FinishAfter(buffer, CompleteFrames(buffer), h.finish)
    BY <1>5 DEF Read1Move, Handler
  <2> DEFINE buffer == Cut(h.buffer \o bytes)
  <2>2. h.pc = "read1"
    BY <1>5 DEF Read1Move
  <2>3. ~n.cancelled /\ n.raised = "nothing"
    BY <2>1, <2>2 DEF FinishShape, LabelShape, Ended
  <2>4. n.sent \in Text /\ buffer \in Text /\ BufferIsEnd(n.sent, buffer) /\ CompleteFrames(buffer) \in SUBSET DOMAIN buffer
    BY <2>1, TextParts, BuffersAreEnds, FramesTyped
  <2>5. h.finish \in Success => \E i \in DOMAIN n.sent : n.sent[i] = h.finish
    <3>1. bytes \in Text
      BY TextParts
    <3>2. \A i \in DOMAIN h.sent : i \in DOMAIN n.sent /\ n.sent[i] = h.sent[i]
      BY <1>t, <2>1, <3>1 DEF Text
    <3> QED BY <3>2 DEF FinishShape
  <2>6. n.finish = FinishAfter(buffer, CompleteFrames(buffer), h.finish)
    BY <2>1
  <2> HIDE DEF buffer
  <2>7. n.finish \in Success => \E i \in DOMAIN n.sent : n.sent[i] = n.finish
    BY <2>4, <2>5, <2>6, FinishWasSent
  <2> QED BY <2>3, <2>7 DEF FinishShape
<1>6. CASE WriteMove(h, n)
  <2>1. /\ h.pc = "write" /\ n.finish = h.finish /\ n.sent = h.sent
        /\ n.cancelled = h.cancelled /\ n.raised = h.raised
    BY <1>6 DEF WriteMove, Delivery, Handler
  <2> QED BY <2>1 DEF FinishShape, LabelShape, Ended
<1>7. CASE FlushMove(h, n)
  <2>1. /\ h.pc = "flush" /\ n.pc = "close" /\ n.sent = h.sent
        /\ n.cancelled = h.cancelled /\ n.raised = h.raised
        /\ n.finish = IF h.cancelled THEN "request_cancelled"
                      ELSE FinishAfter(h.buffer, Frames(h.buffer), h.finish)
    BY <1>7 DEF FlushMove, Handler
  <2>2. n.raised = "nothing"
    BY <2>1 DEF LabelShape, Ended
  <2>3. n.finish \in Success => \E i \in DOMAIN n.sent : n.sent[i] = n.finish
    <3>1. h.finish \in Success => \E i \in DOMAIN h.sent : h.sent[i] = h.finish
      BY DEF FinishShape
    <3> QED BY <1>0, <1>t, <2>1, <3>1, FinishWasSent, FramesTyped
  <2> QED BY <2>1, <2>2, <2>3 DEF FinishShape, Ended
<1>8. CASE BodyMove(h, n) \/ RetireMove(h, n)
  <2>1. n.finish = "none" /\ ~n.cancelled
    BY <1>8 DEF BodyMove, RetireMove, EarlyIsFresh, Early, Handler
  <2> QED BY <1>0, <2>1 DEF FinishShape
<1>9. CASE RespondMove(h, n)
  <2>1. PICK late \in {0, 1} :
          n = [Delivery(h, h.sent, "close", late) EXCEPT !.finish = FinishAfter(h.sent, DOMAIN h.sent, @)]
    BY <1>9 DEF RespondMove
  <2>2. /\ n.sent = h.sent /\ n.finish = FinishAfter(h.sent, DOMAIN h.sent, h.finish)
        /\ n.cancelled = h.cancelled /\ n.raised = h.raised
    BY <2>1 DEF Delivery, Handler
  <2>3. h.finish = "none" /\ ~n.cancelled /\ n.raised = "nothing"
    BY <1>9, <2>2 DEF RespondMove, EarlyIsFresh, Early
  <2>4. BufferIsEnd(h.sent, h.sent)
    BY <1>t DEF BufferIsEnd, Text
  <2>5. n.finish \in Success => \E i \in DOMAIN n.sent : n.sent[i] = n.finish
    BY <1>0, <1>t, <2>2, <2>3, <2>4, FinishWasSent
  <2> QED BY <2>3, <2>5 DEF FinishShape
<1>10. CASE ClearMove(h, n)
  <2>1. /\ h.pc = "clear" /\ n.pc = "record" /\ n.sent = h.sent
        /\ n.cancelled = h.cancelled /\ n.raised = h.raised
        /\ n.finish = IF h.raised = "disconnect" /\ h.finish = "none" THEN "client_disconnect" ELSE h.finish
    BY <1>10 DEF ClearMove, Handler
  <2> QED BY <1>0, <2>1 DEF FinishShape, Ended
<1> QED BY <1>1, <1>2, <1>3, <1>4, <1>5, <1>6, <1>7, <1>8, <1>9, <1>10 DEF Move, StepMove

-----------------------------------------------------------------------------
(* What is parsed. *)

(* A line begins in a text where it begins in a beginning of it. *)
LEMMA LineStartOfBeginning ==
  ASSUME NEW s, NEW t, NEW i \in Nat \ {0}, \A j \in 1 .. i - 1 : t[j] = s[j]
  PROVE  LineStart(t, i) = LineStart(s, i)
<1> DEFINE n == LineStart(s, i)
<1>1. IsLineStart(s, i, n)
  BY LineStartBegins
<1> HIDE DEF n
<1>2. n \in 1 .. i /\ (n = 1 \/ s[n - 1] = "nl") /\ \A j \in n .. i - 1 : s[j] # "nl"
  BY <1>1 DEF IsLineStart
<1>3. n = 1 \/ t[n - 1] = "nl"
  BY <1>2
<1>4. \A j \in n .. i - 1 : t[j] # "nl"
  BY <1>2
<1>5. IsLineStart(t, i, n)
  BY <1>2, <1>3, <1>4 DEF IsLineStart
<1> QED BY <1>5, LineStartUnique DEF n

(* An answer that is well formed up to a chunk and in it is well formed. *)
LEMMA WellFormedContinues ==
  ASSUME NEW s \in Text, NEW c \in Text, WellFormed(s, 1), WellFormed(s \o c, Len(s) + 1)
  PROVE  WellFormed(s \o c, 1)
<1>1. Len(s) \in Nat /\ Len(c) \in Nat /\ Len(s \o c) = Len(s) + Len(c)
  BY DEF Text
<1> DEFINE t == s \o c
<1>2. ASSUME NEW i \in 1 .. Len(s) PROVE MayFollow(SubSeq(t, 1, i - 1), t[i])
  <2>1. t[i] = s[i] /\ \A j \in 1 .. i - 1 : t[j] = s[j]
    BY <1>1 DEF Text
  <2> DEFINE u == SubSeq(t, 1, i - 1)
             v == SubSeq(s, 1, i - 1)
  <2>2. t \in Text
    BY DEF Text
  <2>3. /\ u \in Text /\ Len(u) = i - 1 /\ \A j \in 1 .. i - 1 : u[j] = t[j]
        /\ v \in Text /\ Len(v) = i - 1 /\ \A j \in 1 .. i - 1 : v[j] = s[j]
    <3> HIDE DEF t
    <3>1. Len(t) >= i - 1 /\ Len(t) \in Nat
      BY <1>1 DEF t
    <3> QED BY <1>1, <2>2, <3>1 DEF Text
  <2> HIDE DEF u, v, t
  <2>4. u = v
    BY <2>1, <2>3 DEF Text
  <2>5. MayFollow(v, s[i])
    BY DEF WellFormed, v
  <2> QED BY <2>1, <2>4, <2>5 DEF u
<1>3. ASSUME NEW i \in 1 .. Len(t), i > Len(s) PROVE MayFollow(SubSeq(t, 1, i - 1), t[i])
  BY <1>1, <1>3 DEF WellFormed
<1>4. ASSUME NEW i \in 1 .. Len(t) PROVE MayFollow(SubSeq(t, 1, i - 1), t[i])
  <2>1. i \in 1 .. Len(s) \/ i > Len(s)
    BY <1>1
  <2> HIDE DEF t
  <2> QED BY <1>2, <1>3, <2>1
<1> QED BY <1>4 DEF WellFormed

(* In a well formed answer a frame begins a line, a payload ends the first
   text of a frame, or a longer one unless it is [DONE], and ends its line. *)
LEMMA WellFormedTokens ==
  ASSUME NEW t \in Text, WellFormed(t, 1), NEW i \in 1 .. Len(t)
  PROVE  /\ t[i] = "data" => i = 1 \/ t[i - 1] = "nl"
         /\ t[i] \in Payload => i > 1 /\ \/ t[i - 1] = "data"
                                         \/ /\ t[i - 1] = "junk" /\ t[i] # "done"
                                            /\ t[LineStart(t, i - 1)] = "data"
         /\ (i > 1 /\ t[i - 1] \in Payload) => t[i] = "nl"
<1> DEFINE u == SubSeq(t, 1, i - 1)
<1>1. Len(t) \in Nat /\ u \in Text /\ Len(u) = i - 1 /\ \A j \in 1 .. i - 1 : u[j] = t[j]
  BY DEF Text
<1>2. MayFollow(u, t[i])
  BY DEF WellFormed
<1>3. Payload \cap {"data", "nl", "junk"} = {} /\ "done" \notin Finish
  BY RelayAssumption DEF Payload
<1> HIDE DEF u
<1>4. CASE i = 1
  <2>1. u = <<>>
    BY <1>1, <1>4 DEF Text
  <2>2. t[i] \in {"data", "junk"}
    BY <1>2, <2>1 DEF MayFollow
  <2> QED BY <1>3, <1>4, <2>2
<1>5. CASE i > 1
  <2>1. u # <<>> /\ u[Len(u)] = t[i - 1]
    BY <1>1, <1>5
  <2>2. LineStart(u, i - 1) = LineStart(t, i - 1)
    <3>1. i - 1 \in Nat \ {0} /\ \A j \in 1 .. (i - 1) - 1 : u[j] = t[j]
      BY <1>1, <1>5
    <3> QED BY <3>1, LineStartOfBeginning
  <2>3. u[LineStart(u, Len(u))] = t[LineStart(t, i - 1)]
    <3>1. LineStart(t, i - 1) \in 1 .. i - 1
      BY <1>5, LineStartBegins DEF IsLineStart
    <3> QED BY <1>1, <2>2, <3>1
  <2> DEFINE last == t[i - 1]
  <2>4. /\ last = "nl" => t[i] \in {"data", "junk"}
        /\ last = "data" => t[i] \in Payload \cup {"junk"}
        /\ last = "junk" => t[i] \in IF t[LineStart(t, i - 1)] = "data" THEN Finish \cup {"junk"} ELSE {"junk", "nl"}
        /\ last \notin {"nl", "data", "junk"} => t[i] = "nl"
    BY <1>2, <2>1, <2>3 DEF MayFollow
  <2> HIDE DEF last
  <2>5. t[i] = "data" => last = "nl"
    BY <1>3, <2>4 DEF Payload
  <2>6. t[i] \in Payload => last = "data" \/ (last = "junk" /\ t[i] # "done" /\ t[LineStart(t, i - 1)] = "data")
    BY <1>3, <2>4 DEF Payload
  <2>7. last \in Payload => t[i] = "nl"
    BY <1>3, <2>4
  <2> QED BY <1>5, <2>5, <2>6, <2>7 DEF last
<1> QED BY <1>4, <1>5

(* So a payload belongs to a frame, and [DONE] to one of two tokens. *)
LEMMA PayloadsAreFramed ==
  ASSUME NEW t \in Text, WellFormed(t, 1), NEW i \in 1 .. Len(t), t[i] \in Payload
  PROVE  /\ LineStart(t, i) \in 1 .. i - 1 /\ t[LineStart(t, i)] = "data"
         /\ t[i] = "done" => LineStart(t, i) = i - 1
         /\ i < Len(t) => t[i + 1] = "nl"
<1>0. Len(t) \in Nat
  BY DEF Text
<1>1. i > 1 /\ \/ t[i - 1] = "data"
               \/ t[i - 1] = "junk" /\ t[i] # "done" /\ t[LineStart(t, i - 1)] = "data"
  BY WellFormedTokens
<1>2. i < Len(t) => t[i + 1] = "nl"
  <2> SUFFICES ASSUME i < Len(t) PROVE t[i + 1] = "nl"
    OBVIOUS
  <2> DEFINE j == i + 1
  <2>1. j \in 1 .. Len(t) /\ j > 1 /\ j - 1 = i
    BY <1>0
  <2> HIDE DEF j
  <2>2. t[j] = "nl"
    BY <2>1, WellFormedTokens
  <2> QED BY <2>2 DEF j
<1> DEFINE p == i - 1
<1>3. p \in 1 .. Len(t) /\ i = p + 1 /\ p \in Nat \ {0}
  BY <1>0, <1>1
<1> DEFINE n == LineStart(t, p)
<1>4. IsLineStart(t, p, n)
  BY <1>3, LineStartBegins
<1>5. t[p] # "nl"
  BY <1>1
<1> HIDE DEF p, n
<1>6. IsLineStart(t, i, n)
  <2>1. n \in 1 .. p /\ (n = 1 \/ t[n - 1] = "nl") /\ \A j \in n .. p - 1 : t[j] # "nl"
    BY <1>4 DEF IsLineStart
  <2>2. \A j \in n .. i - 1 : t[j] # "nl"
    BY <1>3, <1>5, <2>1
  <2> QED BY <1>3, <2>1, <2>2 DEF IsLineStart
<1>7. LineStart(t, i) = n
  BY <1>3, <1>6, LineStartUnique
<1>8. n \in 1 .. i - 1
  BY <1>3, <1>4 DEF IsLineStart
<1>9. CASE t[p] = "data"
  <2>1. p = 1 \/ t[p - 1] = "nl"
    BY <1>3, <1>9, WellFormedTokens
  <2>2. IsLineStart(t, p, p)
    BY <1>3, <2>1 DEF IsLineStart
  <2>3. n = p
    BY <1>3, <2>2, LineStartUnique DEF n
  <2> QED BY <1>2, <1>3, <1>7, <1>8, <1>9, <2>3
<1>10. CASE t[p] = "junk" /\ t[i] # "done" /\ t[n] = "data"
  BY <1>2, <1>7, <1>8, <1>10
<1> QED BY <1>1, <1>9, <1>10 DEF p, n

(* What the buffer that is parsed holds of what was sent, t, when s had been
   sent before: the last line of s, or less of it when t makes it too long. *)
Kept(s, t, k) ==
  LET before == Len(t) - Len(k)
      first == LineStart(s, Len(s) + 1) IN
  /\ BufferIsEnd(t, k)
  /\ before <= Len(s) /\ Len(s) <= Len(t) /\ Len(t) <= Len(s) + MaxChunk
  /\ \A i \in 1 .. Len(s) : t[i] = s[i]
  /\ \A i \in before + 1 .. Len(s) : t[i] # "nl"
  /\ before + 1 = first \/ Len(t) - first + 1 > Limit

(* A cut keeps all of the chunk, and none of the lines before the last. *)
LEMMA CutKeeps ==
  ASSUME NEW s \in Text, NEW b \in Text, NEW c \in Text, BufferIsEnd(s, b), BufferIsLine(s, b),
         Len(c) <= MaxChunk, Cut(b \o c) \in Text, BufferIsEnd(s \o c, Cut(b \o c))
  PROVE  Kept(s, s \o c, Cut(b \o c))
<1> DEFINE t == s \o c
           k == Cut(b \o c)
           before == Len(t) - Len(k)
           first == LineStart(s, Len(s) + 1)
<1>1. /\ Len(s) \in Nat /\ Len(b) \in Nat /\ Len(c) \in Nat
      /\ Len(t) = Len(s) + Len(c) /\ Len(b \o c) = Len(b) + Len(c) /\ b \o c \in Text
      /\ \A i \in 1 .. Len(s) : t[i] = s[i]
  BY DEF Text
<1>2. MaxChunk \in Nat /\ Keep \in Nat /\ Limit \in Nat /\ MaxChunk <= Keep /\ Keep < Limit
  BY RelayAssumption
<1>3. Len(k) = IF Len(b) + Len(c) > Limit THEN Keep ELSE Len(b) + Len(c)
  <2> DEFINE u == b \o c
  <2>1. u \in Text /\ Len(u) = Len(b) + Len(c)
    BY <1>1
  <2> HIDE DEF u
  <2>2. Len(LastEntries(u, Keep)) = IF Len(u) > Keep THEN Keep ELSE Len(u)
    BY <1>2, <2>1, LastEntriesEnd DEF Text
  <2>3. Len(Cut(u)) = IF Len(u) > Limit THEN Keep ELSE Len(u)
    BY <1>1, <1>2, <2>1, <2>2 DEF Cut
  <2> QED BY <2>1, <2>3 DEF u
<1>4. Len(b) <= Len(s) /\ \A i \in Len(s) - Len(b) + 1 .. Len(s) : s[i] # "nl"
  <2>1. Len(b) <= Len(s)
    BY DEF BufferIsEnd
  <2>2. ASSUME NEW i \in Len(s) - Len(b) + 1 .. Len(s) PROVE s[i] # "nl"
    <3>1. i - (Len(s) - Len(b)) \in 1 .. Len(b) /\ Len(s) - Len(b) + (i - (Len(s) - Len(b))) = i
      BY <1>1, <2>1
    <3>2. b[i - (Len(s) - Len(b))] = s[i]
      BY <3>1 DEF BufferIsEnd
    <3> QED BY <3>1, <3>2 DEF BufferIsLine
  <2> QED BY <2>1, <2>2
<1>5. IsLineStart(s, Len(s) + 1, first)
  BY <1>1, LineStartBegins
<1> HIDE DEF t, k, first
<1>6. first \in 1 .. Len(s) + 1 /\ (first = 1 \/ s[first - 1] = "nl")
  BY <1>5 DEF IsLineStart
<1>7. first <= Len(s) - Len(b) + 1
  <2> SUFFICES ASSUME first > Len(s) - Len(b) + 1 PROVE FALSE
    BY <1>1, <1>6
  <2>1. first - 1 \in Len(s) - Len(b) + 1 .. Len(s) /\ first # 1
    BY <1>1, <1>4, <1>6
  <2> QED BY <1>4, <1>6, <2>1
<1>8. Len(s) - Len(b) + 1 = first \/ Len(s) - first + 1 > Limit
  BY DEF BufferIsLine, first
<1>9. Len(s) - Len(b) <= before /\ before <= Len(s)
  BY <1>1, <1>2, <1>3
<1>10. before + 1 = first \/ Len(t) - first + 1 > Limit
  BY <1>1, <1>2, <1>3, <1>6, <1>7, <1>8
<1>11. \A i \in before + 1 .. Len(s) : t[i] # "nl"
  <2> TAKE i \in before + 1 .. Len(s)
  <2>1. before \in Nat
    BY <1>1, <1>3, <1>4, <1>9
  <2>2. i \in Len(s) - Len(b) + 1 .. Len(s) /\ i \in 1 .. Len(s)
    BY <1>1, <1>4, <1>9, <2>1
  <2> QED BY <1>1, <1>4, <2>2
<1>12. Len(s) <= Len(t) /\ Len(t) <= Len(s) + MaxChunk
  BY <1>1, <1>2
<1>13. BufferIsEnd(t, k)
  BY DEF t, k
<1> QED BY <1>1, <1>9, <1>10, <1>11, <1>12, <1>13 DEF Kept, t, k, first

(* A frame of the buffer has ended with the chunk; and a frame that has, if its
   line is of ordinary length, is a frame of the buffer. *)
LEMMA KeptFrames ==
  ASSUME NEW s \in Text, NEW t \in Text, NEW k \in Text, Kept(s, t, k), WellFormed(t, 1)
  PROVE  LET before == Len(t) - Len(k) IN
         /\ \A i \in CompleteFrames(k) :
              /\ before + i \in 1 .. Len(t) - 1 /\ before + i >= Len(s) /\ t[before + i] = k[i]
         /\ \A j \in 1 .. Len(t) - 1 :
              (j >= Len(s) /\ t[j] \in Payload /\ Ordinary(t, j)) =>
                j - before \in CompleteFrames(k) /\ k[j - before] = t[j]
<1> DEFINE before == Len(t) - Len(k)
           first == LineStart(s, Len(s) + 1)
<1>1. /\ Len(s) \in Nat /\ Len(t) \in Nat /\ Len(k) \in Nat /\ DOMAIN k = 1 .. Len(k)
      /\ Len(k) <= Len(t) /\ \A i \in 1 .. Len(k) : k[i] = t[before + i]
      /\ before \in Nat /\ before <= Len(s) /\ Len(s) <= Len(t) /\ Len(t) <= Len(s) + MaxChunk
      /\ MaxChunk \in Nat /\ Limit \in Nat
  BY RelayAssumption DEF Text, Kept, BufferIsEnd
<1>2. /\ \A i \in 1 .. Len(s) : t[i] = s[i]
      /\ \A i \in before + 1 .. Len(s) : t[i] # "nl"
      /\ before + 1 = first \/ Len(t) - first + 1 > Limit
  BY DEF Kept
<1>3. IsLineStart(s, Len(s) + 1, first)
  BY <1>1, LineStartBegins
<1>4. "nl" \notin Payload
  BY RelayAssumption DEF Payload
<1> HIDE DEF before, first
<1>5. ASSUME NEW i \in CompleteFrames(k)
      PROVE  before + i \in 1 .. Len(t) - 1 /\ before + i >= Len(s) /\ t[before + i] = k[i]
  <2>1. i \in 1 .. Len(k) /\ i < Len(k) /\ k[i] \in Payload
    BY <1>1 DEF CompleteFrames, Frames
  <2>2. before + i \in 1 .. Len(t) - 1 /\ t[before + i] = k[i] /\ before + i < Len(t) /\ before + i \in 1 .. Len(t)
    BY <1>1, <2>1 DEF before
  <2>3. ASSUME before + i < Len(s) PROVE FALSE
    <3>1. t[before + i + 1] = "nl"
      BY <2>1, <2>2, PayloadsAreFramed
    <3>2. before + i + 1 \in before + 1 .. Len(s)
      BY <1>1, <2>1, <2>3
    <3> QED BY <1>2, <3>1, <3>2
  <2> QED BY <1>1, <2>1, <2>2, <2>3
<1>6. ASSUME NEW j \in 1 .. Len(t) - 1, j >= Len(s), t[j] \in Payload, Ordinary(t, j)
      PROVE  j - before \in CompleteFrames(k) /\ k[j - before] = t[j]
  <2> DEFINE l == LineStart(t, j)
  <2>1. l \in 1 .. j - 1 /\ t[l] = "data"
    BY <1>1, <1>6, PayloadsAreFramed
  <2>2. (l = 1 \/ t[l - 1] = "nl") /\ \A i \in l .. j - 1 : t[i] # "nl"
    BY <1>1, <1>6, LineStartBegins DEF IsLineStart
  <2>3. j + 1 - l + MaxChunk <= Limit
    BY <1>6 DEF Ordinary, LineLength
  <2> HIDE DEF l
  <2>4. l > before
    <3> SUFFICES ASSUME l <= before PROVE FALSE
      BY <1>1, <2>1
    <3>1. l \in 1 .. Len(s)
      BY <1>1, <2>1
    <3>2. \A i \in l .. Len(s) : s[i] # "nl"
      <4> TAKE i \in l .. Len(s)
      <4>1. i \in 1 .. Len(s) /\ (i \in l .. j - 1 \/ i = j)
        BY <1>1, <1>6, <3>1
      <4> QED BY <1>2, <1>4, <1>6, <2>2, <4>1
    <3>3. l = 1 \/ s[l - 1] = "nl"
      <4> SUFFICES ASSUME l # 1 PROVE s[l - 1] = "nl"
        OBVIOUS
      <4>1. l - 1 \in 1 .. Len(s)
        BY <1>1, <3>1
      <4> QED BY <1>2, <2>2, <4>1
    <3>4. IsLineStart(s, Len(s) + 1, l)
      BY <1>1, <3>1, <3>2, <3>3 DEF IsLineStart
    <3>5. first = l
      BY <1>1, <3>4, LineStartUnique DEF first
    <3> QED BY <1>1, <1>2, <1>6, <2>1, <2>3, <3>5
  <2>5. j - before \in 1 .. Len(k) - 1 /\ l - before \in 1 .. j - before - 1
    BY <1>1, <1>6, <2>1, <2>4 DEF before
  <2> DEFINE i == j - before
             m == l - before
  <2>6. i \in 1 .. Len(k) - 1 /\ m \in 1 .. i - 1 /\ before + i = j /\ before + m = l
    BY <1>1, <2>1, <2>5
  <2> HIDE DEF i, m
  <2>7. k[i] = t[j] /\ k[m] = "data"
    <3>1. i \in 1 .. Len(k) /\ m \in 1 .. Len(k)
      BY <1>1, <2>6
    <3> QED BY <1>1, <2>1, <2>6, <3>1
  <2>8. IsLineStart(k, i, m)
    <3>1. m = 1 \/ k[m - 1] = "nl"
      <4> SUFFICES ASSUME m # 1 PROVE k[m - 1] = "nl"
        OBVIOUS
      <4>1. m - 1 \in 1 .. Len(k) /\ before + (m - 1) = l - 1 /\ l # 1
        BY <1>1, <2>1, <2>6
      <4> QED BY <1>1, <2>2, <4>1
    <3>2. \A q \in m .. i - 1 : k[q] # "nl"
      <4> TAKE q \in m .. i - 1
      <4>1. q \in 1 .. Len(k) /\ before + q \in l .. j - 1
        BY <1>1, <2>1, <2>6
      <4> QED BY <1>1, <2>2, <4>1
    <3>3. m \in 1 .. i
      BY <1>1, <2>6
    <3> QED BY <3>1, <3>2, <3>3 DEF IsLineStart
  <2>9. LineStart(k, i) = m
    BY <1>1, <2>6, <2>8, LineStartUnique
  <2>10. i \in 1 .. Len(k) /\ i < Len(k)
    BY <1>1, <2>6
  <2> QED BY <1>1, <1>6, <2>7, <2>9, <2>10 DEF CompleteFrames, Frames, i
<1> QED BY <1>5, <1>6 DEF before

(* The last of the finish reasons that were sent, before the end. *)
LEMMA LastFinish ==
  ASSUME NEW s \in Text, Finishes(s) # {}
  PROVE  LET m == Max(Finishes(s)) IN
         m \in 1 .. Len(s) - 1 /\ s[m] \in Finish /\ \A i \in 1 .. Len(s) - 1 : s[i] \in Finish => i <= m
<1>1. Len(s) \in Nat
  BY DEF Text
<1>2. Finishes(s) \in SUBSET Nat /\ \A i \in Finishes(s) : i <= Len(s)
  BY <1>1 DEF Finishes
<1> DEFINE F == Finishes(s)
<1>3. F \in SUBSET Nat /\ F # {} /\ \A i \in F : i <= Len(s)
  BY <1>2
<1> HIDE DEF F
<1>4. Max(F) \in F /\ \A i \in F : i <= Max(F)
  BY <1>1, <1>3, MaxIsGreatest
<1> QED BY <1>4 DEF F, Finishes

(* What was understood of an answer, and the frames of the buffer, are what is
   understood of the answer with the chunk. *)
LEMMA ReadUnderstands ==
  ASSUME NEW s \in Text, NEW t \in Text, NEW k \in Text, Kept(s, t, k), WellFormed(t, 1), NEW finish, NEW done \in BOOLEAN,
         Understood(s, finish, done), ~done
  PROVE  Understood(t, FinishAfter(k, CompleteFrames(k), finish), DoneAfter(k, CompleteFrames(k), done))
<1> DEFINE before == Len(t) - Len(k)
           after == FinishAfter(k, CompleteFrames(k), finish)
           ended == DoneAfter(k, CompleteFrames(k), done)
<1>1. /\ Len(s) \in Nat /\ Len(t) \in Nat /\ before \in Nat /\ Len(s) <= Len(t)
      /\ \A i \in 1 .. Len(s) : t[i] = s[i]
  BY DEF Text, Kept, BufferIsEnd
<1>2. \A i \in CompleteFrames(k) :
        before + i \in 1 .. Len(t) - 1 /\ before + i >= Len(s) /\ t[before + i] = k[i]
  BY KeptFrames
<1>3. \A j \in 1 .. Len(t) - 1 :
        (j >= Len(s) /\ t[j] \in Payload /\ Ordinary(t, j)) => j - before \in CompleteFrames(k) /\ k[j - before] = t[j]
  BY KeptFrames
<1>4. \/ after = finish /\ \A i \in CompleteFrames(k) : k[i] \notin Finish
      \/ \E last \in CompleteFrames(k) :
           /\ k[last] \in Finish /\ after = k[last]
           /\ \A i \in CompleteFrames(k) : k[i] \in Finish => i <= last
  BY FinishTyped, FramesTyped
<1>k. CompleteFrames(k) \subseteq Nat
  BY FramesTyped DEF Text
<1> HIDE DEF before, after
<1>5. ASSUME Finishes(t) = {} PROVE after = "none"
  <2>1. \A i \in 1 .. Len(t) - 1 : t[i] \notin Finish
    BY <1>5 DEF Finishes
  <2>2. \A i \in 1 .. Len(s) - 1 : s[i] \notin Finish
    <3> TAKE i \in 1 .. Len(s) - 1
    <3>1. i \in 1 .. Len(t) - 1 /\ i \in 1 .. Len(s)
      BY <1>1
    <3> QED BY <1>1, <2>1, <3>1
  <2>3. finish = "none"
    BY <2>2 DEF Understood, Finishes
  <2>4. \A i \in CompleteFrames(k) : k[i] \notin Finish
    BY <1>2, <2>1
  <2> QED BY <1>4, <2>3, <2>4
<1>6. ASSUME Finishes(t) # {}, Ordinary(t, Max(Finishes(t))) PROVE after = t[Max(Finishes(t))]
  <2> DEFINE m == Max(Finishes(t))
  <2>1. m \in 1 .. Len(t) - 1 /\ t[m] \in Finish /\ \A i \in 1 .. Len(t) - 1 : t[i] \in Finish => i <= m
    BY <1>6, LastFinish
  <2>2. Ordinary(t, m)
    BY <1>6
  <2> HIDE DEF m
  <2>3. CASE m >= Len(s)
    <3>1. m - before \in CompleteFrames(k) /\ k[m - before] = t[m]
      BY <1>3, <2>1, <2>2, <2>3 DEF Payload
    <3>2. PICK last \in CompleteFrames(k) :
             /\ k[last] \in Finish /\ after = k[last]
             /\ \A i \in CompleteFrames(k) : k[i] \in Finish => i <= last
      BY <1>4, <2>1, <3>1
    <3>3. m - before <= last /\ before + last <= m
      BY <1>2, <2>1, <3>1, <3>2
    <3>4. last = m - before
      BY <1>1, <1>k, <2>1, <3>2, <3>3
    <3> QED BY <3>1, <3>2, <3>4 DEF m
  <2>4. CASE m < Len(s)
    <3>1. m \in 1 .. Len(s) - 1 /\ s[m] \in Finish /\ s[m] = t[m]
      BY <1>1, <2>1, <2>4
    <3>2. Finishes(s) # {}
      BY <3>1 DEF Finishes
    <3> DEFINE p == Max(Finishes(s))
    <3>3. p \in 1 .. Len(s) - 1 /\ s[p] \in Finish /\ \A i \in 1 .. Len(s) - 1 : s[i] \in Finish => i <= p
      BY <3>2, LastFinish
    <3>4. (Finishes(s) # {} /\ Ordinary(s, p)) => finish = s[p]
      BY DEF Understood
    <3> HIDE DEF p
    <3>5. p = m
      <4>1. p \in 1 .. Len(t) - 1 /\ t[p] = s[p]
        BY <1>1, <3>3
      <4> QED BY <2>1, <3>1, <3>3, <4>1
    <3>6. LineStart(t, m) = LineStart(s, m)
      <4>1. m \in Nat \ {0} /\ \A j \in 1 .. m - 1 : t[j] = s[j]
        BY <1>1, <3>1
      <4> QED BY <4>1, LineStartOfBeginning
    <3>7. finish = t[m]
      BY <2>2, <3>1, <3>2, <3>4, <3>5, <3>6 DEF Ordinary, LineLength
    <3>8. \A i \in CompleteFrames(k) : k[i] \notin Finish
      <4> SUFFICES ASSUME NEW i \in CompleteFrames(k), k[i] \in Finish PROVE FALSE
        OBVIOUS
      <4>1. before + i \in 1 .. Len(t) - 1 /\ before + i >= Len(s) /\ t[before + i] \in Finish
        BY <1>2
      <4>2. before + i <= m
        BY <2>1, <4>1
      <4> QED BY <1>1, <1>k, <2>1, <2>4, <4>1, <4>2
    <3> QED BY <1>4, <3>7, <3>8 DEF m
  <2>5. m >= Len(s) \/ m < Len(s)
    BY <1>1, <2>1
  <2> QED BY <2>3, <2>4, <2>5 DEF m
<1>7. ASSUME ~ended, NEW i \in 1 .. Len(t) - 1, t[i] = "done" PROVE FALSE
  <2>1. CASE i < Len(s)
    <3>1. i \in 1 .. Len(s) - 1 /\ s[i] = "done"
      BY <1>1, <1>7, <2>1
    <3> QED BY <3>1 DEF Understood
  <2>2. CASE i >= Len(s)
    <3>1. i \in 1 .. Len(t) /\ t[i] \in Payload
      BY <1>1, <1>7 DEF Payload
    <3>2. LineStart(t, i) = i - 1
      BY <1>7, <3>1, PayloadsAreFramed
    <3>3. Ordinary(t, i)
      <4>1. MaxChunk + 2 <= Limit /\ MaxChunk \in Nat /\ Limit \in Nat
        BY RelayAssumption
      <4> QED BY <3>1, <3>2, <4>1 DEF Ordinary, LineLength
    <3>4. i - before \in CompleteFrames(k) /\ k[i - before] = "done"
      BY <1>3, <1>7, <2>2, <3>1, <3>3
    <3> QED BY <1>7, <3>4 DEF DoneAfter
  <2> QED BY <1>1, <2>1, <2>2
<1> QED BY <1>5, <1>6, <1>7 DEF Understood, after

(* What is kept of the buffer is again the line that is not complete, or more
   than the limit has been sent of it. *)
LEMMA RestIsLine ==
  ASSUME NEW s \in Text, NEW t \in Text, NEW k \in Text, Kept(s, t, k)
  PROVE  BufferIsLine(t, Rest(k))
<1> DEFINE before == Len(t) - Len(k)
           first == LineStart(s, Len(s) + 1)
           q == LineStart(k, Len(k) + 1)
           now == LineStart(t, Len(t) + 1)
           b == Rest(k)
<1>1. /\ Len(s) \in Nat /\ Len(t) \in Nat /\ Len(k) \in Nat
      /\ Len(k) <= Len(t) /\ \A i \in 1 .. Len(k) : k[i] = t[before + i]
      /\ before \in Nat /\ before <= Len(s) /\ Len(s) <= Len(t) /\ Limit \in Nat
  BY RelayAssumption DEF Text, Kept, BufferIsEnd
<1>2. /\ \A i \in 1 .. Len(s) : t[i] = s[i]
      /\ before + 1 = first \/ Len(t) - first + 1 > Limit
  BY DEF Kept
<1>3. IsLineStart(s, Len(s) + 1, first) /\ IsLineStart(k, Len(k) + 1, q) /\ Len(t) + 1 \in Nat \ {0}
  BY <1>1, LineStartBegins
<1>4. Len(b) = Len(k) + 1 - q /\ BufferIsEnd(k, b)
  BY RestEnd DEF Text
<1> HIDE DEF b, q, first, before
<1>5. q \in 1 .. Len(k) + 1 /\ (q = 1 \/ k[q - 1] = "nl") /\ \A j \in q .. Len(k) : k[j] # "nl"
  BY <1>1, <1>3 DEF IsLineStart
<1>6. first \in 1 .. Len(s) + 1 /\ (first = 1 \/ s[first - 1] = "nl") /\ \A j \in first .. Len(s) : s[j] # "nl"
  BY <1>1, <1>3 DEF IsLineStart
<1>7. \A i \in 1 .. Len(b) : b[i] # "nl"
  <2> TAKE i \in 1 .. Len(b)
  <2>1. b[i] = k[Len(k) - Len(b) + i]
    BY <1>4 DEF BufferIsEnd
  <2>2. Len(k) - Len(b) + i \in q .. Len(k)
    BY <1>1, <1>4, <1>5
  <2> QED BY <1>5, <2>1, <2>2
<1>8. CASE q > 1
  <2>1. IsLineStart(t, Len(t) + 1, before + q)
    <3>1. before + q \in 1 .. Len(t) + 1
      BY <1>1, <1>5 DEF before
    <3>2. t[before + q - 1] = "nl"
      <4>1. q - 1 \in 1 .. Len(k) /\ before + (q - 1) = before + q - 1
        BY <1>1, <1>5, <1>8
      <4> QED BY <1>1, <1>5, <1>8, <4>1
    <3>3. \A j \in before + q .. Len(t) + 1 - 1 : t[j] # "nl"
      <4> TAKE j \in before + q .. Len(t) + 1 - 1
      <4>1. j - before \in q .. Len(k) /\ j - before \in 1 .. Len(k) /\ before + (j - before) = j
        BY <1>1, <1>5 DEF before
      <4> QED BY <1>1, <1>5, <4>1
    <3> DEFINE l == before + q
    <3>4. l \in 1 .. Len(t) + 1 /\ t[l - 1] = "nl" /\ \A j \in l .. Len(t) + 1 - 1 : t[j] # "nl"
      BY <1>1, <1>5, <3>1, <3>2, <3>3
    <3> HIDE DEF l
    <3> QED BY <3>4 DEF IsLineStart, l
  <2>2. now = before + q
    BY <1>3, <2>1, LineStartUnique
  <2>3. Len(t) - Len(b) + 1 = now
    BY <1>1, <1>4, <1>5, <2>2 DEF before
  <2> QED BY <1>7, <2>3 DEF BufferIsLine, b
<1>9. CASE q = 1
  <2>1. IsLineStart(t, Len(t) + 1, first)
    <3>1. first \in 1 .. Len(t) + 1
      BY <1>1, <1>6
    <3>2. first = 1 \/ t[first - 1] = "nl"
      <4> SUFFICES ASSUME first # 1 PROVE t[first - 1] = "nl"
        OBVIOUS
      <4>1. first - 1 \in 1 .. Len(s)
        BY <1>1, <1>6
      <4> QED BY <1>2, <1>6, <4>1
    <3>3. \A j \in first .. Len(t) + 1 - 1 : t[j] # "nl"
      <4> TAKE j \in first .. Len(t) + 1 - 1
      <4>1. CASE j <= Len(s)
        <5>1. j \in first .. Len(s) /\ j \in 1 .. Len(s)
          BY <1>1, <1>6, <4>1
        <5> QED BY <1>2, <1>6, <5>1
      <4>2. CASE j > Len(s)
        <5>1. j - before \in 1 .. Len(k) /\ before + (j - before) = j
          BY <1>1, <1>6, <4>2 DEF before
        <5> QED BY <1>1, <1>5, <1>9, <5>1
      <4> QED BY <1>1, <1>6, <4>1, <4>2
    <3> QED BY <3>1, <3>2, <3>3 DEF IsLineStart
  <2>2. now = first
    BY <1>3, <2>1, LineStartUnique
  <2>3. Len(t) - Len(b) + 1 = before + 1
    BY <1>1, <1>4, <1>9 DEF before
  <2>4. Len(t) - Len(b) + 1 = now \/ Len(t) - now + 1 > Limit
    BY <1>2, <2>2, <2>3
  <2> QED BY <1>7, <2>4 DEF BufferIsLine, b
<1> QED BY <1>5, <1>8, <1>9

(* Nothing that was sent is well formed and understood. *)
LEMMA NothingSent ==
  ASSUME NEW s \in Text
  PROVE  /\ BufferIsEnd(s, <<>>)
         /\ WellFormed(<<>>, 1) /\ BufferIsLine(<<>>, <<>>)
         /\ \A done \in BOOLEAN : Understood(<<>>, "none", done)
<1>1. Len(<<>>) = 0 /\ Len(s) \in Nat
  BY DEF Text
<1>2. IsLineStart(<<>>, 1, 1)
  BY DEF IsLineStart
<1>3. LineStart(<<>>, 1) = 1
  BY <1>2, LineStartUnique
<1>4. BufferIsEnd(s, <<>>) /\ WellFormed(<<>>, 1) /\ BufferIsLine(<<>>, <<>>)
  BY <1>1, <1>3 DEF BufferIsEnd, WellFormed, BufferIsLine
<1>5. Finishes(<<>>) = {} /\ 1 .. Len(<<>>) - 1 = {}
  BY <1>1 DEF Finishes
<1> QED BY <1>4, <1>5 DEF Understood

(* Every move keeps the buffer an end of what was sent, and what was
   understood of it complete. *)
LEMMA MoveParse ==
  ASSUME NEW h \in Handler, NEW n \in Handler, Move(h, n), EarlyIsFresh(h), LabelShape(h), ParseShape(h)
  PROVE  ParseShape(n)
<1>0. h.sent \in Text /\ h.buffer \in Text /\ BufferIsEnd(h.sent, h.buffer)
  BY DEF Handler, ParseShape
<1> DEFINE Parsing == {"set", "head", "loop", "read1", "write"}
<1>1. CASE PlainMove(h, n)
  <2>1. /\ n.sent = h.sent /\ n.buffer = h.buffer /\ n.finish = h.finish /\ n.done = h.done
        /\ n.streaming = h.streaming
        /\ n.pc \in Parsing =>
             \/ h.pc = "set" /\ n.pc = "head"
             \/ h.pc = "head" /\ n.pc = "loop"
             \/ h.pc = "loop" /\ n.pc = "read1"
    BY <1>1, PlainFields DEF PlainMove, Handler
  <2>2. CASE n.pc \notin Parsing
    BY <1>0, <2>1, <2>2 DEF ParseShape
  <2>3. CASE h.pc = "set" /\ n.pc = "head"
    <3>1. n.sent = <<>> /\ n.finish = "none" /\ n.done \in BOOLEAN
      BY <2>1, <2>3 DEF LabelShape, EarlyIsFresh, Early, Handler
    <3>2. Understood(n.sent, n.finish, n.done)
      BY <1>0, <3>1, NothingSent
    <3> QED BY <1>0, <2>1, <2>3, <3>2 DEF ParseShape
  <2>4. CASE h.pc = "head" /\ n.pc = "loop"
    <3>1. ~n.done
      BY <2>1, <2>4 DEF EarlyIsFresh, Early
    <3> QED BY <1>0, <2>1, <2>4, <3>1 DEF ParseShape
  <2>5. CASE h.pc = "loop" /\ n.pc = "read1"
    BY <1>0, <2>1, <2>5 DEF ParseShape
  <2> QED BY <2>1, <2>2, <2>3, <2>4, <2>5
<1>2. CASE RaiseMove(h, n) \/ NoticeMove(h, n) \/ TimeoutMove(h, n) \/ RespondMove(h, n) \/ ClearMove(h, n)
           \/ LoseMove(h, n) \/ RetireMove(h, n)
  <2>1. n.sent = h.sent /\ n.buffer = h.buffer /\ n.pc \notin Parsing
    BY <1>2 DEF RaiseMove, NoticeMove, TimeoutMove, RespondMove, ClearMove, LoseMove, RetireMove, Delivery, Handler
  <2> QED BY <1>0, <2>1 DEF ParseShape
<1>3. CASE OpenMove(h, n)
  <2>1. \/ n.buffer = <<>> /\ n.pc = "set" /\ n.sent = <<>>
        \/ n.pc \notin Parsing /\ n.sent = h.sent /\ n.buffer = h.buffer
    BY <1>3 DEF OpenMove, EarlyIsFresh, Early, Handler
  <2>2. <<>> \in Text
    BY DEF Text
  <2>3. BufferIsEnd(n.sent, n.buffer)
    BY <1>0, <2>1, <2>2, NothingSent
  <2>4. n.pc \in Parsing => n.pc = "set" /\ WellFormed(n.sent, 1) /\ BufferIsLine(n.sent, n.buffer)
    BY <2>1, <2>2, NothingSent
  <2> QED BY <2>3, <2>4 DEF ParseShape
<1>4. CASE Read1Move(h, n)
  <2>1. PICK bytes \in Chunks :
          LET k == Cut(h.buffer \o bytes) IN
          /\ WellFormed(h.sent \o bytes, Len(h.sent) + 1)
          /\ n.pc = "write" /\ n.sent = h.sent \o bytes /\ n.buffer = Rest(k)
          /\ n.finish = FinishAfter(k, CompleteFrames(k), h.finish)
          /\ n.done = DoneAfter(k, CompleteFrames(k), h.done)
    BY <1>4 DEF Read1Move, Handler
  <2> DEFINE k == Cut(h.buffer \o bytes)
  <2>2. h.pc = "read1"
    BY <1>4 DEF Read1Move
  <2>3. /\ h.streaming /\ ~h.done /\ WellFormed(h.sent, 1) /\ BufferIsLine(h.sent, h.buffer)
        /\ Understood(h.sent, h.finish, h.done)
    BY <2>2 DEF ParseShape, LabelShape, Streamed
  <2>4. bytes \in Text /\ Len(bytes) <= MaxChunk /\ n.sent \in Text /\ k \in Text
    BY <2>1, TextParts
  <2>5. BufferIsEnd(n.sent, k) /\ BufferIsEnd(n.sent, n.buffer)
    BY <1>0, <2>1, BuffersAreEnds
  <2>6. WellFormed(n.sent, 1)
    BY <1>0, <2>1, <2>3, <2>4, WellFormedContinues
  <2>7. Kept(h.sent, n.sent, k)
    BY <1>0, <2>1, <2>3, <2>4, <2>5, CutKeeps
  <2>8. n.buffer = Rest(k) /\ n.finish = FinishAfter(k, CompleteFrames(k), h.finish)
        /\ n.done = DoneAfter(k, CompleteFrames(k), h.done) /\ h.done \in BOOLEAN
    BY <2>1 DEF Handler
  <2> HIDE DEF k
  <2>9. Understood(n.sent, n.finish, n.done)
    BY <1>0, <2>3, <2>4, <2>6, <2>7, <2>8, ReadUnderstands
  <2>10. BufferIsLine(n.sent, n.buffer)
    BY <1>0, <2>4, <2>7, <2>8, RestIsLine
  <2> QED BY <2>1, <2>5, <2>6, <2>9, <2>10 DEF ParseShape
<1>5. CASE WriteMove(h, n)
  <2>1. /\ h.pc = "write" /\ n.pc = (IF h.done THEN "flush" ELSE "loop") /\ n.sent = h.sent /\ n.buffer = h.buffer
        /\ n.finish = h.finish /\ n.done = h.done /\ n.streaming = h.streaming
    BY <1>5 DEF WriteMove, Delivery, Handler
  <2> QED BY <1>0, <2>1 DEF ParseShape
<1>6. CASE FlushMove(h, n)
  <2>1. n.pc = "close" /\ n.buffer = <<>> /\ n.sent = h.sent
    BY <1>6 DEF FlushMove, Handler
  <2> QED BY <1>0, <2>1, NothingSent DEF ParseShape
<1>7. CASE BodyMove(h, n)
  <2>1. n.pc \in {"answer", "retire"} /\ n.buffer = <<>>
    BY <1>7 DEF BodyMove, EarlyIsFresh, Early, Handler
  <2>2. n.sent \in Text
    BY DEF Handler
  <2> QED BY <2>1, <2>2, NothingSent DEF ParseShape
<1>8. CASE LeaveMove(h, n)
  <2>1. /\ n.pc = h.pc /\ n.sent = h.sent /\ n.buffer = h.buffer
        /\ n.finish = h.finish /\ n.done = h.done /\ n.streaming = h.streaming
    BY <1>8 DEF LeaveMove, Handler
  <2> QED BY <2>1 DEF ParseShape
<1> QED BY <1>1, <1>2, <1>3, <1>4, <1>5, <1>6, <1>7, <1>8 DEF Move, StepMove

-----------------------------------------------------------------------------
(* The steps of all. *)

(* A move keeps a handler, and everything that is about it alone. *)
LEMMA MoveShapes ==
  ASSUME NEW h \in Handler, NEW n, Move(h, n), HandlerShape(h)
  PROVE  n \in Handler /\ HandlerShape(n)
<1>0. /\ EarlyIsFresh(h) /\ LabelShape(h) /\ AttemptShape(h) /\ FinishShape(h) /\ ClientShape(h) /\ ParseShape(h)
      /\ BufferIsEnd(h.sent, h.buffer)
  BY DEF HandlerShape, ParseShape
<1>1. n \in Handler
  BY <1>0, MoveTyped
<1>2. EarlyIsFresh(n) /\ LabelShape(n) /\ AttemptShape(n)
  BY <1>0, <1>1, MoveLabels
<1>3. FinishShape(n)
  BY <1>0, <1>1, MoveFinish
<1>4. ClientShape(n)
  BY <1>0, <1>1, MoveClient
<1>5. ParseShape(n)
  BY <1>0, <1>1, MoveParse
<1> QED BY <1>1, <1>2, <1>3, <1>4, <1>5 DEF HandlerShape

(* A step of a request: what is shared changes for that request only. *)
StepOf(r) == HandlerStep(r) \/ ClientLeaves(r)

OnlyFor(r) ==
  /\ event' = event /\ targets' = targets /\ asked' = asked
  /\ registered' \ {r} = registered \ {r}
  /\ \A q \in Request \ {r} :
       /\ handler'[q] = handler[q]
       /\ \A n \in Attempt : <<q, n>> \in open' <=> <<q, n>> \in open
       /\ upstream'[q] = upstream[q] /\ stage'[q] = stage[q] /\ reason'[q] = reason[q]

(* Every step of a request is one. *)
LEMMA StepIsLocal ==
  ASSUME RelayTypeOK, NEW r \in Request, StepOf(r)
  PROVE  OnlyFor(r)
<1>t. /\ handler \in [Request -> Handler] /\ upstream \in [Request -> {0} \cup Attempt]
      /\ stage \in [Request -> {"out", "wait", "rotate", "append", "aggregate", "replace", "done", "lost"}]
      /\ reason \in [Request -> Reason]
  BY DEF RelayTypeOK, RecorderTypeOK, Request
<1>1. \A q \in Request \ {r} : handler'[q] = handler[q]
  BY <1>t, StepMoves DEF StepOf
<1>2. /\ event' = event /\ targets' = targets /\ asked' = asked
      /\ registered' \ {r} = registered \ {r}
      /\ open' \in {open, open \cup {<<r, handler[r].attempt + 1>>}, open \ {<<r, handler[r].attempt>>}}
      /\ upstream' = upstream \/ \E v : upstream' = [upstream EXCEPT ![r] = v]
      /\ \/ stage' = stage /\ reason' = reason
         \/ Call(r, handler[r].finish)
  BY DEF StepOf, HandlerStep, ClientLeaves, Register, Activated, ActivationFails, Open, OpenFails, SetUpstream,
         SendHead, CheckCancel, Read1, EndOfStream, StreamTimeout, ReadFails, WriteChunk, Flush, Read, ReadClosed,
         ReadRaises, Retire, Unset, Recover, Answer, Respond, Close, Clear, Record, EndRequest, StreamBreaks,
         Goto, Raise, Only, sharedVars, cancelVars, recorderVars, memoryVars
<1>3. \A q \in Request \ {r} : upstream'[q] = upstream[q]
  BY <1>t, <1>2
<1>4. \A q \in Request \ {r} : stage'[q] = stage[q] /\ reason'[q] = reason[q]
  BY <1>t, <1>2 DEF Call
<1>5. \A q \in Request \ {r} : \A n \in Attempt : <<q, n>> \in open' <=> <<q, n>> \in open
  BY <1>2
<1> QED BY <1>1, <1>2, <1>3, <1>4, <1>5 DEF OnlyFor

(* To the recorder, a step is one of its own or none. *)
LEMMA StepRecords ==
  ASSUME RelayTypeOK, NEW r \in Request, StepOf(r)
  PROVE  [RecorderNext]_recorderVars
<1>1. \/ UNCHANGED recorderVars
      \/ Call(r, handler[r].finish)
  BY DEF StepOf, HandlerStep, ClientLeaves, Register, Activated, ActivationFails, Open, OpenFails, SetUpstream,
         SendHead, CheckCancel, Read1, EndOfStream, StreamTimeout, ReadFails, WriteChunk, Flush, Read, ReadClosed,
         ReadRaises, Retire, Unset, Recover, Answer, Respond, Close, Clear, Record, EndRequest, StreamBreaks,
         Goto, Raise, Only, recorderVars, memoryVars
<1>2. r \in Writer /\ handler[r].finish \in Reason
  BY DEF RelayTypeOK, Handler, Request
<1> QED BY <1>1, <1>2 DEF RecorderNext

(* So it is for the steps of all. *)
LEMMA NextRecords == RelayTypeOK /\ [Next]_vars => [RecorderNext]_recorderVars
<1> SUFFICES ASSUME RelayTypeOK, [Next]_vars PROVE [RecorderNext]_recorderVars
  OBVIOUS
<1>1. CASE \E r \in Request : StepOf(r)
  BY <1>1, StepRecords
<1>2. CASE \E r \in Request : RecordStep(r)
  BY <1>2 DEF RecorderNext, Request
<1>3. CASE \/ UNCHANGED vars
           \/ \E c \in Canceller : CloseTarget(c) \/ \E rs \in SUBSET Request : Cancel(c, rs)
  BY <1>3 DEF vars, CloseTarget, Cancel
<1>4. CASE Crash
  BY <1>4 DEF Crash, RecorderNext
<1> QED BY <1>1, <1>2, <1>3, <1>4 DEF Next, StepOf

(* The types. *)
LEMMA StepTyped ==
  ASSUME RelayInv, NEW r \in Request, StepOf(r)
  PROVE  RelayTypeOK'
<1>t. RelayTypeOK /\ HandlerShape(handler[r]) /\ handler[r] \in Handler
  BY DEF RelayInv, RelayShape, RelayTypeOK
<1>1. RecorderTypeOK'
  BY <1>t, StepRecords, RecorderTyped DEF RelayTypeOK
<1>2. handler' \in [Request -> Handler]
  BY <1>t, StepMoves, MoveShapes DEF StepOf, RelayTypeOK, Move
<1>3. OnlyFor(r)
  BY <1>t, StepIsLocal
<1>4. registered' \subseteq Request /\ event' \subseteq Request /\ asked' \subseteq Canceller
      /\ targets' \in [Canceller -> SUBSET (Request \X Attempt)]
  BY <1>t, <1>3 DEF OnlyFor, RelayTypeOK
<1>5. open' \subseteq Request \X Attempt
  <2>1. \/ open' \subseteq open
        \/ handler[r].pc = "open" /\ open' = open \cup {<<r, handler[r].attempt + 1>>}
    BY DEF StepOf, HandlerStep, ClientLeaves, Register, Activated, ActivationFails, Open, OpenFails, SetUpstream,
           SendHead, CheckCancel, Read1, EndOfStream, StreamTimeout, ReadFails, WriteChunk, Flush, Read, ReadClosed,
           ReadRaises, Retire, Unset, Recover, Answer, Respond, Close, Clear, Record, EndRequest, StreamBreaks,
           Goto, Raise, Only, sharedVars, At
  <2>2. handler[r].pc = "open" => handler[r].attempt + 1 \in Attempt
    BY <1>t DEF HandlerShape, AttemptShape, Attempt
  <2>3. open \subseteq Request \X Attempt
    BY <1>t DEF RelayTypeOK
  <2> QED BY <2>1, <2>2, <2>3
<1>6. upstream' \in [Request -> {0} \cup Attempt]
  <2>1. \/ upstream' = upstream
        \/ \E v \in {0, handler[r].attempt} \cup {upstream[r]} : upstream' = [upstream EXCEPT ![r] = v]
    BY DEF StepOf, HandlerStep, ClientLeaves, Register, Activated, ActivationFails, Open, OpenFails, SetUpstream,
           SendHead, CheckCancel, Read1, EndOfStream, StreamTimeout, ReadFails, WriteChunk, Flush, Read, ReadClosed,
           ReadRaises, Retire, Unset, Recover, Answer, Respond, Close, Clear, Record, EndRequest, StreamBreaks,
           Goto, Raise, Only, sharedVars
  <2>2. handler[r].attempt \in {0} \cup Attempt /\ upstream \in [Request -> {0} \cup Attempt]
    BY <1>t DEF RelayTypeOK, Handler
  <2> QED BY <2>1, <2>2
<1> QED BY <1>1, <1>2, <1>4, <1>5, <1>6 DEF RelayTypeOK

(* A request has a connection only while it is at work, and is registered as
   long. *)
LEMMA StepActive ==
  ASSUME RelayInv, NEW r \in Request, StepOf(r)
  PROVE  ActiveShape(r)'
<1> DEFINE h == handler[r]
           n == handler'[r]
<1>t. /\ RelayTypeOK /\ ActiveShape(r) /\ AttemptShape(h) /\ h \in Handler
      /\ upstream \in [Request -> {0} \cup Attempt]
  BY DEF RelayInv, RelayShape, HandlerShape, RelayTypeOK
<1>m. /\ Leads(h.pc, n.pc)
      /\ n.attempt = h.attempt \/ (h.pc = "open" /\ n.pc = "set" /\ n.attempt = h.attempt + 1)
  BY <1>t, StepMoves, MoveLeads DEF StepOf
<1>a. /\ \A m \in Attempt : <<r, m>> \in open => h.pc \in Connecting /\ m = h.attempt
      /\ h.pc \notin {"new", "out", "lost"} => r \in registered
      /\ h.pc \in Unconnected => upstream[r] = 0
      /\ (h.pc = "out" /\ h.attempt # 0) => stage[r] = "done"
  BY <1>t DEF ActiveShape, Started
<1> DEFINE Goal == /\ \A m \in Attempt : <<r, m>> \in open' => n.pc \in Connecting /\ m = n.attempt
                   /\ n.pc \notin {"new", "out", "lost"} => r \in registered'
                   /\ n.pc \in Unconnected => upstream'[r] = 0
                   /\ (n.pc = "out" /\ n.attempt # 0) => stage'[r] = "done"
<1>g. SUFFICES Goal
  BY DEF ActiveShape, Started
<1> HIDE DEF h, n
<1> USE DEF Connecting, Unconnected, Streamed
<1>1. CASE Register(r) \/ SetUpstream(r) \/ Record(r)
  <2>1. /\ h.pc \in {"new", "set", "record"} /\ open' = open
        /\ h.pc = "new" => r \in registered'
        /\ h.pc # "new" => registered' = registered
        /\ h.pc # "set" => upstream' = upstream
    BY <1>1 DEF Register, SetUpstream, Record, At, sharedVars, h
  <2>2. n.pc # h.pc
    <3>1. \E l : l # h.pc /\ Set(r, [handler[r] EXCEPT !.pc = l])
      BY <1>1 DEF Register, SetUpstream, Record, At, h
    <3> QED BY <1>t, <3>1, SetHandler DEF h, n, Handler
  <2> QED BY <1>a, <1>m, <2>1, <2>2 DEF Leads
<1>2. CASE \/ Activated(r) \/ OpenFails(r) \/ SendHead(r) \/ CheckCancel(r) \/ Read1(r) \/ EndOfStream(r)
           \/ StreamTimeout(r) \/ ReadFails(r) \/ WriteChunk(r) \/ Flush(r) \/ Read(r) \/ ReadClosed(r)
           \/ ReadRaises(r) \/ Recover(r) \/ Answer(r) \/ Respond(r) \/ ClientLeaves(r)
  <2>1. registered' = registered /\ open' = open /\ upstream' = upstream /\ stage' = stage
    BY <1>2 DEF Activated, OpenFails, SendHead, CheckCancel, Read1, EndOfStream, StreamTimeout, ReadFails, WriteChunk,
                Flush, Read, ReadClosed, ReadRaises, Recover, Answer, Respond, ClientLeaves, StreamBreaks, Goto, Raise,
                Only, sharedVars, recorderVars, memoryVars
  <2>2. CASE ClientLeaves(r)
    <3>1. n.pc = h.pc /\ n.attempt = h.attempt
      BY <1>t, <2>2, SetHandler DEF ClientLeaves, Only, Handler, h, n
    <3> QED BY <1>a, <2>1, <3>1
  <2>3. CASE OpenFails(r) \/ Activated(r)
    <3>1. \E l, what : /\ \/ Set(r, [handler[r] EXCEPT !.pc = l])
                           \/ Set(r, [handler[r] EXCEPT !.pc = l, !.raised = what])
                       /\ \/ h.pc = "open" /\ l \in {"record", "close"}
                          \/ h.pc = "activate" /\ l = "open"
      BY <2>3 DEF OpenFails, Activated, Goto, Only, At, h
    <3>2. \E l, what : /\ n = [h EXCEPT !.pc = l] \/ n = [h EXCEPT !.pc = l, !.raised = what]
                       /\ \/ h.pc = "open" /\ l \in {"record", "close"}
                          \/ h.pc = "activate" /\ l = "open"
      BY <1>t, <3>1, SetHandler DEF h, n
    <3>3. /\ n.attempt = h.attempt
          /\ \/ h.pc = "open" /\ n.pc \in {"record", "close"}
             \/ h.pc = "activate" /\ n.pc = "open"
      BY <1>t, <3>2 DEF Handler
    <3> QED BY <1>a, <2>1, <3>3
  <2>4. CASE ~(OpenFails(r) \/ Activated(r) \/ ClientLeaves(r))
    <3>1. h.pc \in {"head", "loop", "read1", "write", "flush", "read", "recover", "answer", "respond"}
      BY <1>2, <2>4 DEF SendHead, CheckCancel, Read1, EndOfStream, StreamTimeout, ReadFails, WriteChunk,
                Flush, Read, ReadClosed, ReadRaises, Recover, Answer, Respond, At, h
    <3> QED BY <1>a, <1>m, <2>1, <3>1 DEF Leads
  <2> QED BY <2>2, <2>3, <2>4
<1>3. CASE ActivationFails(r) \/ EndRequest(r)
  <2>1. /\ h.pc = "activate" \/ (h.pc = "end" /\ stage[r] = "done")
        /\ open' = open /\ upstream' = upstream /\ stage' = stage
    BY <1>3 DEF ActivationFails, EndRequest, At, recorderVars, memoryVars, h
  <2>2. n.pc = "out"
    BY <1>3, <1>t, SetHandler DEF ActivationFails, EndRequest, Handler, h, n
  <2>3. h.pc = "activate" => h.attempt = 0
    BY <1>t DEF AttemptShape
  <2> QED BY <1>a, <1>m, <2>1, <2>2, <2>3
<1>4. CASE Open(r)
  <2>1. /\ h.pc = "open" /\ registered' = registered /\ open' = open \cup {<<r, h.attempt + 1>>}
    BY <1>4 DEF Open, At, h
  <2>2. n.pc = "set" /\ n.attempt = h.attempt + 1
    <3>1. n = [h EXCEPT !.pc = "set", !.attempt = h.attempt + 1, !.sent = <<>>]
      BY <1>4, <1>t, SetHandler DEF Open, h, n
    <3> QED BY <1>t, <3>1 DEF Handler
  <2>3. \A m \in Attempt : <<r, m>> \notin open
    BY <1>a, <2>1
  <2>4. \A m \in Attempt : <<r, m>> \in open' => m = n.attempt
    BY <2>1, <2>2, <2>3
  <2> QED BY <1>a, <2>1, <2>2, <2>4
<1>5. CASE Retire(r) \/ Close(r)
  <2>1. /\ h.pc \in {"retire", "close"} /\ registered' = registered /\ open' = open \ {<<r, h.attempt>>}
    BY <1>5 DEF Retire, Close, At, h
  <2>2. n.pc \in {"unset", "clear"}
    <3>1. n = [h EXCEPT !.pc = "unset", !.retried = TRUE] \/ n = [h EXCEPT !.pc = "clear"]
      BY <1>5, <1>t, SetHandler DEF Retire, Close, h, n
    <3> QED BY <1>t, <3>1 DEF Handler
  <2>3. \A m \in Attempt : <<r, m>> \notin open'
    BY <1>a, <2>1
  <2> QED BY <1>a, <1>m, <2>1, <2>2, <2>3
<1>6. CASE Unset(r) \/ Clear(r)
  <2>1. /\ h.pc \in {"unset", "clear"} /\ registered' = registered /\ open' = open /\ upstream'[r] = 0
    BY <1>6, <1>t DEF Unset, Clear, At, h
  <2>2. n.pc \in {"recover", "record"}
    <3>1. n = [h EXCEPT !.pc = "recover"] \/ \E f : n = [h EXCEPT !.pc = "record", !.finish = f]
      BY <1>6, <1>t, SetHandler DEF Unset, Clear, h, n
    <3> QED BY <1>t, <3>1 DEF Handler
  <2> QED BY <1>a, <1>m, <2>1, <2>2
<1> QED BY <1>1, <1>2, <1>3, <1>4, <1>5, <1>6 DEF StepOf, HandlerStep

(* A write after the cancellation is the last. *)
LEMMA StepLate ==
  ASSUME RelayInv, NEW r \in Request, StepOf(r)
  PROVE  LateShape(r)'
<1> DEFINE h == handler[r]
           n == handler'[r]
<1>t. /\ RelayTypeOK /\ LateShape(r) /\ h \in Handler
  BY DEF RelayInv, RelayShape, HandlerShape, RelayTypeOK
<1>l. h.late \in {0, 1} /\ (h.late = 1 => r \in event /\ h.pc \in {"loop", "flush"} \cup Ended)
  BY <1>t DEF LateShape
<1>m. /\ Leads(h.pc, n.pc)
      /\ n.late = h.late \/ (h.pc \in {"write", "respond"} /\ n.late \in {h.late, h.late + 1})
  BY <1>t, StepMoves, MoveLeads DEF StepOf
<1>0. event' = event
  BY <1>t, StepIsLocal DEF OnlyFor
<1> USE DEF Ended
<1>g. SUFFICES n.late \in {0, 1} /\ (n.late = 1 => r \in event /\ n.pc \in {"loop", "flush"} \cup Ended)
  BY <1>0 DEF LateShape
<1> HIDE DEF h, n
<1>1. CASE h.late = 1
  <2>1. n.late = 1 /\ r \in event
    BY <1>l, <1>m, <1>1
  <2>2. CASE h.pc = "loop"
    <3>1. CheckCancel(r) \/ ClientLeaves(r)
      BY <2>2 DEF StepOf, HandlerStep, Register, Activated, ActivationFails, Open, OpenFails, SetUpstream,
             SendHead, Read1, EndOfStream, StreamTimeout, ReadFails, WriteChunk, Flush, Read, ReadClosed,
             ReadRaises, Retire, Unset, Recover, Answer, Respond, Close, Clear, Record, EndRequest, At, h
    <3>2. \/ Set(r, Noticed(r)) /\ Noticed(r).pc = "flush"
          \/ \E new : Set(r, new) /\ new.pc = h.pc
      BY <1>t, <2>1, <3>1 DEF CheckCancel, ClientLeaves, Noticed, Only, Handler, h
    <3>3. n.pc \in {"flush", "loop"}
      BY <1>t, <2>2, <3>2, SetHandler DEF n
    <3> QED BY <2>1, <3>3
  <2>3. CASE h.pc # "loop"
    BY <1>l, <1>m, <1>1, <2>1, <2>3 DEF Leads
  <2> QED BY <2>2, <2>3
<1>2. CASE h.late = 0 /\ n.late = 0
  BY <1>2
<1>3. CASE h.late = 0 /\ n.late # 0
  <2>1. h.pc \in {"write", "respond"} /\ n.late = 1
    BY <1>m, <1>3
  <2>2. WriteChunk(r) \/ Respond(r) \/ ClientLeaves(r)
    BY <2>1 DEF StepOf, HandlerStep, Register, Activated, ActivationFails, Open, OpenFails, SetUpstream, CheckCancel,
           SendHead, Read1, EndOfStream, StreamTimeout, ReadFails, Flush, Read, ReadClosed,
           ReadRaises, Retire, Unset, Recover, Answer, Close, Clear, Record, EndRequest, At, h
  <2>3. \E new : Set(r, new) /\ (new.late = h.late \/ (r \in event /\ new.pc \in {"loop", "flush", "close"}))
    <3>1. CASE ClientLeaves(r)
      BY <1>t, <3>1 DEF ClientLeaves, Only, Handler, h
    <3>2. CASE WriteChunk(r)
      <4>1. \/ Set(r, Noticed(r)) \/ Set(r, [handler[r] EXCEPT !.pc = "close", !.raised = "disconnect"])
            \/ Set(r, Delivered(r, handler[r].chunk, IF handler[r].done THEN "flush" ELSE "loop"))
        BY <3>2 DEF WriteChunk, StreamBreaks, Raise, Only
      <4>2. Noticed(r).late = h.late /\ [handler[r] EXCEPT !.pc = "close", !.raised = "disconnect"].late = h.late
        BY <1>t DEF Noticed, Handler, h
      <4> DEFINE new == Delivered(r, handler[r].chunk, IF handler[r].done THEN "flush" ELSE "loop")
      <4>3. new.pc \in {"flush", "loop"} /\ new.late = h.late + IF r \in event THEN 1 ELSE 0
        BY <1>t DEF Delivered, Handler, h
      <4>4. new.late = h.late \/ r \in event
        BY <1>3, <4>3
      <4> HIDE DEF new
      <4> QED BY <4>1, <4>2, <4>3, <4>4 DEF new
    <3>3. CASE Respond(r)
      <4>1. \/ Set(r, [handler[r] EXCEPT !.pc = "close", !.raised = "disconnect"])
            \/ Set(r, [Delivered(r, handler[r].sent, "close") EXCEPT
                         !.finish = FinishAfter(handler[r].sent, DOMAIN handler[r].sent, @)])
        BY <3>3 DEF Respond, Raise, Only
      <4>2. [handler[r] EXCEPT !.pc = "close", !.raised = "disconnect"].late = h.late
        BY <1>t DEF Handler, h
      <4> DEFINE new == [Delivered(r, handler[r].sent, "close") EXCEPT
                           !.finish = FinishAfter(handler[r].sent, DOMAIN handler[r].sent, @)]
      <4>3. new.pc = "close" /\ new.late = h.late + IF r \in event THEN 1 ELSE 0
        BY <1>t DEF Delivered, Handler, h
      <4>4. new.late = h.late \/ r \in event
        BY <1>3, <4>3
      <4> HIDE DEF new
      <4> QED BY <4>1, <4>2, <4>3, <4>4 DEF new
    <3> QED BY <2>2, <3>1, <3>2, <3>3
  <2>4. n.late = h.late \/ (r \in event /\ n.pc \in {"loop", "flush", "close"})
    BY <1>t, <2>3, SetHandler DEF n
  <2> QED BY <1>3, <2>1, <2>4
<1> QED BY <1>l, <1>1, <1>2, <1>3

(* The record has the finish reason the handler had in the end. *)
LEMMA StepRecord ==
  ASSUME RelayInv, NEW r \in Request, StepOf(r)
  PROVE  RecordShape(r)'
<1> DEFINE h == handler[r]
           n == handler'[r]
<1>t. /\ RelayTypeOK /\ RecordShape(r) /\ h \in Handler
      /\ stage \in [Request -> {"out", "wait", "rotate", "append", "aggregate", "replace", "done", "lost"}]
      /\ reason \in [Request -> Reason]
  BY DEF RelayInv, RelayShape, RelayTypeOK, RecorderTypeOK, Request
<1>m. StepMove(h, n)
  BY <1>t, StepMoves DEF StepOf
<1>1. CASE Record(r)
  <2>1. n = [h EXCEPT !.pc = "end"] /\ stage' = [stage EXCEPT ![r] = "wait"] /\ reason' = [reason EXCEPT ![r] = h.finish]
    BY <1>1, <1>t, SetHandler DEF Record, Call
  <2>2. n.pc = "end" /\ n.finish = h.finish /\ reason'[r] = h.finish
    BY <1>t, <2>1 DEF Handler
  <2> QED BY <2>2 DEF RecordShape
<1>2. CASE ~Record(r)
  <2>1. stage' = stage /\ reason' = reason
    BY <1>2 DEF StepOf, HandlerStep, ClientLeaves, Register, Activated, ActivationFails, Open, OpenFails, SetUpstream,
           SendHead, CheckCancel, Read1, EndOfStream, StreamTimeout, ReadFails, WriteChunk, Flush, Read, ReadClosed,
           ReadRaises, Retire, Unset, Recover, Answer, Respond, Close, Clear, EndRequest, StreamBreaks,
           Goto, Raise, Only, recorderVars, memoryVars
  <2>2. ASSUME stage[r] # "out" PROVE n.pc \in {"end", "out", "lost"} /\ n.finish = h.finish
    <3>1. h.pc \in {"end", "out", "lost"}
      BY <1>t, <2>2 DEF RecordShape
    <3>2. PlainMove(h, n) \/ LeaveMove(h, n)
      BY <1>m, <3>1 DEF StepMove, RaiseMove, OpenMove, NoticeMove, Read1Move, TimeoutMove, WriteMove, FlushMove,
                        BodyMove, RetireMove, RespondMove, ClearMove
    <3>3. n.finish = h.finish /\ n.pc \in {h.pc, "out"}
      BY <1>t, <3>1, <3>2 DEF PlainMove, LeaveMove, Handler
    <3> QED BY <3>1, <3>3
  <2> QED BY <1>t, <2>1, <2>2 DEF RecordShape
<1> QED BY <1>1, <1>2

(* All of it, for the request that steps and for the others. *)
LEMMA StepKeeps ==
  ASSUME RelayInv, NEW r \in Request, StepOf(r)
  PROVE  RelayInv'
<1>1. RelayTypeOK'
  BY StepTyped
<1>2. RelayTypeOK /\ \A q \in Request : HandlerShape(handler[q]) /\ ActiveShape(q) /\ LateShape(q) /\ RecordShape(q)
  BY DEF RelayInv, RelayShape
<1>3. HandlerShape(handler[r])'
  BY <1>2, StepMoves, MoveShapes DEF StepOf, Move, RelayTypeOK
<1>4. ActiveShape(r)' /\ LateShape(r)' /\ RecordShape(r)'
  BY StepActive, StepLate, StepRecord
<1>5. ASSUME NEW q \in Request, q # r
      PROVE  HandlerShape(handler[q])' /\ ActiveShape(q)' /\ LateShape(q)' /\ RecordShape(q)'
  <2>1. /\ event' = event /\ (q \in registered' <=> q \in registered)
        /\ handler'[q] = handler[q]
        /\ \A n \in Attempt : <<q, n>> \in open' <=> <<q, n>> \in open
        /\ upstream'[q] = upstream[q] /\ stage'[q] = stage[q] /\ reason'[q] = reason[q]
    BY <1>2, <1>5, StepIsLocal DEF OnlyFor
  <2>2. HandlerShape(handler[q])'
    BY <1>2, <2>1
  <2>3. ActiveShape(q)'
    BY <1>2, <2>1 DEF ActiveShape, Started
  <2>4. LateShape(q)' /\ RecordShape(q)'
    BY <1>2, <2>1 DEF LateShape, RecordShape
  <2> QED BY <2>2, <2>3, <2>4
<1>6. ASSUME NEW q \in Request
      PROVE  HandlerShape(handler[q])' /\ ActiveShape(q)' /\ LateShape(q)' /\ RecordShape(q)'
  BY <1>3, <1>4, <1>5
<1> QED BY <1>1, <1>6 DEF RelayInv, RelayShape

(* cancel() and its closing of connections, and the steps of record(). *)
LEMMA OthersKeep ==
  ASSUME RelayInv,
         \/ \E c \in Canceller : CloseTarget(c) \/ \E rs \in SUBSET Request : Cancel(c, rs)
         \/ \E r \in Request : RecordStep(r) /\ UNCHANGED <<handler, sharedVars>>
  PROVE  RelayInv'
<1>t. RelayTypeOK /\ \A q \in Request : HandlerShape(handler[q]) /\ ActiveShape(q) /\ LateShape(q) /\ RecordShape(q)
  BY DEF RelayInv, RelayShape
<1>s. stage \in [Request -> {"out", "wait", "rotate", "append", "aggregate", "replace", "done", "lost"}]
  BY <1>t DEF RelayTypeOK, RecorderTypeOK, Request
<1>1. /\ handler' = handler /\ registered' = registered /\ upstream' = upstream /\ reason' = reason
      /\ open' \subseteq open /\ event \subseteq event'
    BY DEF CloseTarget, Cancel, RecordStep, Remember, DiskFails, Rotate, AppendEntry, SkipAggregate, WriteTemp,
           ReplaceAggregate, Return, Proceed, recorderVars, memoryVars, sharedVars, cancelVars
<1>2. \A q \in Request : (stage'[q] = "out" <=> stage[q] = "out") /\ (stage[q] = "done" => stage'[q] = "done")
  <2>1. CASE \E c \in Canceller : CloseTarget(c) \/ \E rs \in SUBSET Request : Cancel(c, rs)
    BY <2>1 DEF CloseTarget, Cancel, recorderVars, memoryVars
  <2>2. CASE \E r \in Request : RecordStep(r) /\ UNCHANGED <<handler, sharedVars>>
    <3>1. PICK r \in Request : RecordStep(r)
      BY <2>2
    <3>2. /\ stage[r] \notin {"out", "done"}
          /\ \E l \in {"rotate", "append", "aggregate", "replace", "done"} : stage' = [stage EXCEPT ![r] = l]
      BY <3>1 DEF RecordStep, Remember, DiskFails, Rotate, AppendEntry, SkipAggregate, WriteTemp,
                  ReplaceAggregate, Return, Proceed
    <3> QED BY <1>s, <3>2
  <2> QED BY <2>1, <2>2
<1>3. RelayTypeOK'
  <2>1. RecorderTypeOK'
    <3>1. [RecorderNext]_recorderVars
      BY DEF CloseTarget, Cancel, RecorderNext, Request
    <3> QED BY <1>t, <3>1, RecorderTyped DEF RelayTypeOK
  <2>2. event' \subseteq Request /\ asked' \subseteq Canceller
    BY <1>t DEF RelayTypeOK, CloseTarget, Cancel, sharedVars, cancelVars
  <2>3. targets' \in [Canceller -> SUBSET (Request \X Attempt)]
    <3>1. targets \in [Canceller -> SUBSET (Request \X Attempt)] /\ upstream \in [Request -> {0} \cup Attempt]
      BY <1>t DEF RelayTypeOK
    <3>2. CASE \E c \in Canceller : CloseTarget(c)
      BY <3>1, <3>2 DEF CloseTarget
    <3>3. CASE \E c \in Canceller : \E rs \in SUBSET Request : Cancel(c, rs)
      <4>1. PICK c \in Canceller, rs \in SUBSET Request : Cancel(c, rs)
        BY <3>3
      <4> DEFINE closing == {<<r, upstream[r]>> : r \in {q \in rs \cap registered : upstream[q] # 0}}
      <4>2. targets' = [targets EXCEPT ![c] = closing]
        BY <4>1 DEF Cancel
      <4>3. \A q \in rs : upstream[q] # 0 => upstream[q] \in Attempt
        BY <3>1
      <4>4. closing \subseteq Request \X Attempt
        BY <4>3
      <4> HIDE DEF closing
      <4> QED BY <3>1, <4>2, <4>4
    <3>4. CASE UNCHANGED sharedVars
      BY <3>1, <3>4 DEF sharedVars, cancelVars
    <3> QED BY <3>2, <3>3, <3>4
  <2> QED BY <1>t, <1>1, <2>1, <2>2, <2>3 DEF RelayTypeOK
<1>4. ASSUME NEW q \in Request
      PROVE  HandlerShape(handler[q])' /\ ActiveShape(q)' /\ LateShape(q)' /\ RecordShape(q)'
  <2>1. HandlerShape(handler[q])'
    BY <1>t, <1>1
  <2>2. ActiveShape(q)'
    BY <1>t, <1>1, <1>2 DEF ActiveShape, Started
  <2>3. LateShape(q)' /\ RecordShape(q)'
    BY <1>t, <1>1, <1>2 DEF LateShape, RecordShape
  <2> QED BY <2>1, <2>2, <2>3
<1> QED BY <1>3, <1>4 DEF RelayInv, RelayShape

(* The death loses the handlers that were at work, and what is shared. *)
LEMMA CrashKeeps ==
  ASSUME RelayInv, Crash
  PROVE  RelayInv'
<1>t. RelayTypeOK /\ \A q \in Request : HandlerShape(handler[q]) /\ ActiveShape(q) /\ LateShape(q) /\ RecordShape(q)
  BY DEF RelayInv, RelayShape
<1>s. /\ stage \in [Request -> {"out", "wait", "rotate", "append", "aggregate", "replace", "done", "lost"}]
      /\ handler \in [Request -> Handler]
  BY <1>t DEF RelayTypeOK, RecorderTypeOK, Request
<1>1. \A q \in Request : \/ handler'[q] = handler[q] /\ ~Started(q)
                         \/ LoseMove(handler[q], handler'[q]) /\ Started(q)
  BY DEF Crash, LoseMove
<1>2. /\ registered' = {} /\ open' = {} /\ upstream' = [r \in Request |-> 0] /\ event' = event /\ reason' = reason
      /\ stage' = [w \in Request |-> IF stage[w] \in {"out", "done"} THEN stage[w] ELSE "lost"]
  BY DEF Crash, RecorderCrash, Request
<1>3. \A q \in Request : handler'[q] \in Handler /\ HandlerShape(handler'[q])
  <2> TAKE q \in Request
  <2>1. CASE handler'[q] = handler[q]
    BY <1>s, <1>t, <2>1
  <2>2. CASE LoseMove(handler[q], handler'[q])
    BY <1>s, <1>t, <2>2, MoveShapes DEF Move
  <2> QED BY <1>1, <2>1, <2>2
<1>4. RelayTypeOK'
  <2>1. RecorderTypeOK'
    BY <1>t, RecorderTyped DEF RelayTypeOK, RecorderNext, Crash
  <2>2. handler' \in [Request -> Handler]
    BY <1>3 DEF Crash
  <2> QED BY <1>t, <2>1, <2>2 DEF RelayTypeOK, Crash
<1>5. ASSUME NEW q \in Request
      PROVE  HandlerShape(handler[q])' /\ ActiveShape(q)' /\ LateShape(q)' /\ RecordShape(q)'
  <2> DEFINE h == handler[q]
             n == handler'[q]
  <2>1. /\ n.late = h.late /\ n.finish = h.finish /\ n.attempt = h.attempt
        /\ \/ n.pc = h.pc /\ h.pc \in {"new", "out", "lost"}
           \/ n.pc = "lost"
    <3>1. CASE n = h /\ ~Started(q)
      BY <3>1 DEF Started
    <3>2. CASE LoseMove(h, n)
      <4>1. h \in Handler /\ n = [h EXCEPT !.pc = "lost"]
        BY <1>s, <3>2 DEF LoseMove
      <4> HIDE DEF h, n
      <4> QED BY <4>1 DEF Handler
    <3> QED BY <1>1, <3>1, <3>2
  <2>2. ActiveShape(q) /\ LateShape(q) /\ RecordShape(q)
    BY <1>t
  <2>3. /\ stage'[q] = "out" <=> stage[q] = "out"
        /\ stage[q] = "done" => stage'[q] = "done"
        /\ upstream'[q] = 0
    BY <1>2, <1>s
  <2>4. ActiveShape(q)'
    BY <1>2, <2>1, <2>2, <2>3 DEF ActiveShape, Started
  <2>5. LateShape(q)'
    BY <1>2, <2>1, <2>2 DEF LateShape, Ended
  <2>6. RecordShape(q)'
    BY <1>2, <2>1, <2>2, <2>3 DEF RecordShape
  <2> QED BY <1>3, <2>4, <2>5, <2>6
<1> QED BY <1>4, <1>5 DEF RelayInv, RelayShape

(* Before the first request there is nothing. *)
LEMMA RelayInitially == Init => RelayInv
<1> SUFFICES ASSUME Init PROVE RelayInv
  OBVIOUS
<1>1. RecorderTypeOK
  BY RecorderInitially DEF Init, RecorderInv
<1>2. \A r \in Request : \E b \in BOOLEAN : handler[r] = [Fresh EXCEPT !.streaming = b]
  BY DEF Init
<1>3. <<>> \in Text /\ "none" \in Reason
  BY RecorderAssumption DEF Text
<1>4. ASSUME NEW r \in Request
      PROVE  /\ handler[r] \in Handler /\ handler[r].pc = "new" /\ handler[r].late = 0 /\ handler[r].attempt = 0
             /\ HandlerShape(handler[r])
  <2> DEFINE h == handler[r]
  <2>1. PICK b \in BOOLEAN : h = [Fresh EXCEPT !.streaming = b]
    BY <1>2
  <2>2. /\ h.pc = "new" /\ h.streaming = b /\ h.attempt = 0 /\ h.sent = <<>> /\ h.chunk = <<>> /\ h.buffer = <<>>
        /\ h.done = FALSE /\ h.finish = "none" /\ h.cancelled = FALSE /\ h.raised = "nothing"
        /\ h.retried = FALSE /\ h.client = <<>> /\ h.gone = FALSE /\ h.late = 0
    BY <2>1 DEF Fresh
  <2>3. h \in Handler
    <3>1. h = [pc |-> "new", streaming |-> b, attempt |-> 0, sent |-> <<>>, chunk |-> <<>>, buffer |-> <<>>,
               done |-> FALSE, finish |-> "none", cancelled |-> FALSE, raised |-> "nothing", retried |-> FALSE,
               client |-> <<>>, gone |-> FALSE, late |-> 0]
      BY <2>1 DEF Fresh
    <3> QED BY <1>3, <3>1 DEF Handler, Labels
  <2> HIDE DEF h
  <2>4. EarlyIsFresh(h) /\ LabelShape(h) /\ AttemptShape(h)
    BY <2>2 DEF EarlyIsFresh, LabelShape, AttemptShape, Streamed, Whole
  <2>5. FinishShape(h)
    BY <2>2, RecorderAssumption DEF FinishShape
  <2>6. ClientShape(h) /\ ParseShape(h)
    BY <1>3, <2>2, BeginningTrivially, NothingSent DEF ClientShape, ParseShape
  <2> QED BY <2>2, <2>3, <2>4, <2>5, <2>6 DEF HandlerShape, h
<1>5. RelayTypeOK
  <2>1. handler \in [Request -> Handler]
    BY <1>4 DEF Init
  <2> QED BY <1>1, <2>1 DEF Init, RelayTypeOK
<1>6. ASSUME NEW r \in Request PROVE ActiveShape(r) /\ LateShape(r) /\ RecordShape(r)
  <2>1. open = {} /\ upstream[r] = 0 /\ stage[r] = "out"
    BY DEF Init, RecorderInit, Request
  <2> QED BY <1>4, <2>1 DEF ActiveShape, Started, LateShape, RecordShape
<1> QED BY <1>4, <1>5, <1>6 DEF RelayInv, RelayShape

(* No step ends it, *)
LEMMA RelayInductive == RelayInv /\ [Next]_vars => RelayInv'
<1> SUFFICES ASSUME RelayInv, [Next]_vars PROVE RelayInv'
  OBVIOUS
<1>1. CASE \E r \in Request : StepOf(r)
  BY <1>1, StepKeeps
<1>2. CASE \/ \E c \in Canceller : CloseTarget(c) \/ \E rs \in SUBSET Request : Cancel(c, rs)
           \/ \E r \in Request : RecordStep(r) /\ UNCHANGED <<handler, sharedVars>>
  BY <1>2, OthersKeep
<1>3. CASE Crash
  BY <1>3, CrashKeeps
<1>4. CASE UNCHANGED vars
  <2>1. UNCHANGED <<handler, registered, open, upstream, event, targets, asked>> /\ UNCHANGED recorderVars
    BY <1>4 DEF vars, sharedVars, cancelVars
  <2>2. RecorderTypeOK'
    BY <2>1, RecorderTyped DEF RelayInv, RelayTypeOK
  <2>3. RelayTypeOK'
    BY <2>1, <2>2 DEF RelayInv, RelayTypeOK
  <2>4. RelayShape'
    <3>1. stage' = stage /\ reason' = reason
      BY <2>1 DEF recorderVars, memoryVars
    <3> QED BY <2>1, <3>1 DEF RelayInv, RelayShape, ActiveShape, Started, LateShape, RecordShape
  <2> QED BY <2>3, <2>4 DEF RelayInv
<1> QED BY <1>1, <1>2, <1>3, <1>4 DEF Next, StepOf

(* so it holds always. *)
LEMMA RelayInvariant == Spec => []RelayInv
BY RelayInitially, RelayInductive, PTL DEF Spec

-----------------------------------------------------------------------------
(* The types. *)
THEOREM RelayAlwaysTyped == Spec => []RelayTypeOK
<1>1. RelayInv => RelayTypeOK
  BY DEF RelayInv
<1> QED BY <1>1, RelayInvariant, PTL

(* For chunks and buffers of any size, a failed upstream, a recovery, and
   a client that leaves: what the client receives is the beginning of one
   answer, and all of it when nothing went wrong. *)
THEOREM ClientAlwaysSeesOneAnswer == Spec => []ClientSeesOneAnswer
<1>1. RelayInv => ClientSeesOneAnswer
  BY DEF RelayInv, RelayShape, HandlerShape, ClientShape, ClientSeesOneAnswer
<1> QED BY <1>1, RelayInvariant, PTL

(* Wherever a cancellation finds a request, at most one write follows. *)
THEOREM CancelledAlwaysStopsForwarding == Spec => []CancelledStopsForwarding
<1>1. RelayInv => CancelledStopsForwarding
  BY DEF RelayInv, RelayShape, LateShape, CancelledStopsForwarding
<1> QED BY <1>1, RelayInvariant, PTL

(* No connection outlives its request, no request ends before its record, and
   none leaves cancel() a connection to close. *)
THEOREM AlwaysActiveWhileOpen == Spec => []ActiveWhileOpen
<1>1. RelayInv => ActiveWhileOpen
  <2> SUFFICES ASSUME RelayInv, NEW r \in Request
               PROVE  LET h == handler[r] IN
                        /\ (\E n \in Attempt : <<r, n>> \in open) => r \in registered
                        /\ (h.pc # "lost" /\ h.attempt # 0 /\ r \notin registered) => stage[r] = "done"
                        /\ h.pc = "out" => upstream[r] = 0
    BY DEF ActiveWhileOpen
  <2>1. ActiveShape(r) /\ AttemptShape(handler[r])
    BY DEF RelayInv, RelayShape, HandlerShape
  <2> QED BY <2>1 DEF ActiveShape, AttemptShape, Started, Connecting, Unconnected, Streamed
<1> QED BY <1>1, RelayInvariant, PTL

(* Whatever the order of cancellation, timeout, failure and answer, a success
   is recorded only by a finish reason the upstream sent. *)
THEOREM SuccessAlwaysEarned == Spec => []SuccessWasEarned
<1>1. RelayInv => SuccessWasEarned
  <2> SUFFICES ASSUME RelayInv, NEW r \in Request, stage[r] \notin {"out", "lost"}
               PROVE  LET h == handler[r] IN
                        /\ reason[r] \in Success => \E i \in DOMAIN h.sent : h.sent[i] = reason[r]
                        /\ h.cancelled => reason[r] = "request_cancelled"
                        /\ h.raised = "error" => reason[r] \notin Success
    BY DEF SuccessWasEarned
  <2>1. FinishShape(handler[r]) /\ RecordShape(r)
    BY DEF RelayInv, RelayShape, HandlerShape
  <2>2. "none" \notin Success
    BY RecorderAssumption
  <2> QED BY <2>1, <2>2 DEF FinishShape, RecordShape
<1> QED BY <1>1, RelayInvariant, PTL

(* However an answer is cut into chunks, and for every size of the buffer
   that holds a chunk and a [DONE], no frame of ordinary length is missed. *)
THEOREM OrdinaryFramesAlwaysRead == Spec => []OrdinaryFramesRead
<1>1. RelayInv => OrdinaryFramesRead
  <2> SUFFICES ASSUME RelayInv, NEW r \in Request, At(r, "loop")
               PROVE  LET h == handler[r]
                          frames == CompleteFrames(h.sent)
                          finishes == {i \in frames : h.sent[i] \in Finish} IN
                      /\ (finishes # {} /\ LineLength(h.sent, Max(finishes)) + MaxChunk <= Limit) =>
                           h.finish = h.sent[Max(finishes)]
                      /\ finishes = {} => h.finish = "none"
                      /\ \A i \in frames : h.sent[i] # "done"
    BY DEF OrdinaryFramesRead
  <2> DEFINE h == handler[r]
             s == h.sent
             frames == CompleteFrames(s)
             finishes == {i \in frames : s[i] \in Finish}
  <2>1. h.pc = "loop" /\ h.sent \in Text /\ LabelShape(h) /\ ParseShape(h)
    BY DEF RelayInv, RelayShape, HandlerShape, RelayTypeOK, Handler, At
  <2>2. WellFormed(s, 1) /\ Understood(s, h.finish, h.done) /\ ~h.done
    BY <2>1 DEF LabelShape, ParseShape, Streamed
  <2>3. s \in Text /\ Len(s) \in Nat /\ DOMAIN s = 1 .. Len(s)
    BY <2>1 DEF Text
  <2> HIDE DEF s
  <2>4. finishes = Finishes(s)
    <3>1. ASSUME NEW i \in finishes PROVE i \in Finishes(s)
      BY <2>3 DEF CompleteFrames, Frames, Finishes
    <3>2. ASSUME NEW i \in Finishes(s) PROVE i \in finishes
      <4>1. i \in 1 .. Len(s) /\ i < Len(s) /\ s[i] \in Payload /\ s[i] \in Finish
        BY <2>3 DEF Finishes, Payload
      <4>2. s[LineStart(s, i)] = "data"
        BY <2>2, <2>3, <4>1, PayloadsAreFramed
      <4> QED BY <2>3, <4>1, <4>2 DEF CompleteFrames, Frames
    <3> QED BY <3>1, <3>2
  <2>5. \A i \in frames : i \in 1 .. Len(s) - 1
    BY <2>3 DEF CompleteFrames, Frames
  <2> HIDE DEF finishes, frames
  <2> QED BY <2>2, <2>4, <2>5 DEF Understood, Ordinary, s, finishes, frames
<1> QED BY <1>1, RelayInvariant, PTL

(* The chat path uses the recorder as its specification says: a step of Relay
   is a step of Recorder or none of it. *)
THEOREM RelayImplementsRecorder == Spec => RecorderSpec
<1>1. Init => RecorderInit
  BY DEF Init
<1>2. RelayInv => RelayTypeOK
  BY DEF RelayInv
<1> QED BY <1>1, <1>2, NextRecords, RelayInvariant, PTL DEF Spec, RecorderSpec

(* So what holds of the recorder holds of it here: rotation loses only old
   entries, *)
THEOREM RelayKeepsLatest == Spec => []LogKeepsLatest
BY RelayImplementsRecorder, LogAlwaysKeepsLatest, PTL

(* and the aggregate grows by the successes in the log. *)
THEOREM RelayAddsLogged == Spec => AggregateAddsLogged
BY RelayImplementsRecorder, AggregateAlwaysAddsLogged, PTL
=============================================================================
