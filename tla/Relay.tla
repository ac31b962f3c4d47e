------------------------------- MODULE Relay --------------------------------
(***************************************************************************)
(* The chat path of DispatchHandler.do_POST (scripts/model_dispatch.py),   *)
(* from begin_request to end_request: each request has a thread that opens *)
(* an upstream, relays its answer, parses it for the finish reason, and    *)
(* records the request.  cancel() runs in other threads, clients go away,  *)
(* upstreams fail, and the core may die.                                   *)
(*                                                                         *)
(* What begin_request does is in Dispatcher; here it succeeds or fails.    *)
(* Recorder has the parts of record().                                     *)
(*                                                                         *)
(* An answer is a sequence of tokens: "data" begins an SSE frame, a        *)
(* payload ends it, "nl" ends a line, and "junk" is any other text, inside *)
(* a frame or not.  A payload is a finish reason, "delta", or "done" for   *)
(* [DONE].  Sizes in bytes are numbers of tokens.                          *)
(***************************************************************************)
EXTENDS Recorder, FiniteSets, FiniteSetsExt

CONSTANTS
  Canceller,    \* threads that serve a cancellation
  Finish,       \* the finish reasons an upstream sends
  MaxChunk,     \* read1(8192): the most one read returns
  Keep,         \* what is kept of an SSE buffer that is too long
  Limit,        \* the longest SSE buffer
  MaxBody       \* bound: the longest answer of an upstream

ASSUME RelayAssumption ==
  /\ Finish \cup {"client_disconnect", "request_cancelled", "upstream_timeout"} \subseteq Reason
  /\ Success \subseteq Finish
  /\ Success \cap {"client_disconnect", "request_cancelled", "upstream_timeout"} = {}
  /\ {"delta", "done", "junk", "data", "nl"} \cap Finish = {}
  /\ {MaxChunk, Keep, Limit, MaxBody} \subseteq Nat \ {0}
  /\ MaxChunk <= Keep /\ Keep < Limit
  /\ MaxChunk + 2 <= Limit    \* [DONE] is a frame of two tokens

Request == Writer    \* the threads that handle requests
Attempt == 1 .. 2
Payload == Finish \cup {"delta", "done"}
Token == Payload \cup {"data", "nl", "junk"}

VARIABLES
  handler,     \* what is local to the handler of each request, see Fresh
  registered,  \* self._requests
  event,       \* the requests whose cancel_event is set
  open,        \* the upstream connections that are open, by request and attempt
  upstream,    \* meta["upstream"] of each request, 0 for None
  targets,     \* the connections each canceller has still to close
  asked        \* the cancellers that have begun

cancelVars == <<event, targets, asked>>
sharedVars == <<registered, open, upstream, cancelVars>>
vars == <<handler, sharedVars, recorderVars>>

(* The handler of a request that has not come yet. *)
Fresh == [
  pc        |-> "new",
  streaming |-> FALSE,      \* the client asks for a stream
  attempt   |-> 0,          \* the connection the handler reads from, 0 before the first
  sent      |-> <<>>,       \* what has been read from it
  chunk     |-> <<>>,       \* the part of that which is not yet written
  buffer    |-> <<>>,       \* metrics["_sse_buffer"]
  done      |-> FALSE,      \* metrics["_done"]
  finish    |-> "none",     \* metrics["finish_reason"]
  cancelled |-> FALSE,      \* the handler has noticed the cancellation
  raised    |-> "nothing",  \* the exception the inner block ended with
  retried   |-> FALSE,      \* metrics["recovery_used"]
  client    |-> <<>>,       \* history: what the client has received of an answer
  gone      |-> FALSE,      \* the client has closed its connection
  late      |-> 0]          \* history: the writes after the cancellation

Labels == {"new", "activate", "open", "set", "head", "loop", "read1", "write", "flush", "read",
           "retire", "unset", "recover", "answer", "respond", "close", "clear", "record", "end",
           "out", "lost"}

Text == Seq(Token \cup {"metal"})

Handler == [
  pc : Labels, streaming : BOOLEAN, attempt : {0} \cup Attempt,
  sent : Text, chunk : Text, buffer : Text, done : BOOLEAN, finish : Reason, cancelled : BOOLEAN,
  raised : {"nothing", "disconnect", "error", "exception"}, retried : BOOLEAN,
  client : Text, gone : BOOLEAN, late : Nat]

RelayTypeOK ==
  /\ RecorderTypeOK
  /\ handler \in [Request -> Handler]
  /\ registered \subseteq Request /\ event \subseteq Request
  /\ open \subseteq Request \X Attempt
  /\ upstream \in [Request -> {0} \cup Attempt]
  /\ targets \in [Canceller -> SUBSET (Request \X Attempt)] /\ asked \subseteq Canceller

Init ==
  /\ RecorderInit
  /\ handler \in [Request -> {[Fresh EXCEPT !.streaming = s] : s \in BOOLEAN}]
  /\ registered = {} /\ event = {} /\ open = {} /\ asked = {}
  /\ upstream = [r \in Request |-> 0]
  /\ targets = [c \in Canceller |-> {}]

At(r, label) == handler[r].pc = label

(* The handler changes its own state; Only: and nothing else. *)
Set(r, new) == handler' = [handler EXCEPT ![r] = new]
Only(r, new) == Set(r, new) /\ UNCHANGED <<sharedVars, recorderVars>>

Goto(r, label) == Only(r, [handler[r] EXCEPT !.pc = label])
Raise(r, what) == Only(r, [handler[r] EXCEPT !.pc = "close", !.raised = what])

-----------------------------------------------------------------------------
(* The lines of an SSE buffer. *)

(* Where the line of position i begins. *)
LineStart(b, i) == 1 + Max({0} \cup {j \in 1 .. i - 1 : b[j] = "nl"})

(* _consume_sse_line: the positions of the payloads of the lines that begin
   with "data:". *)
Frames(b) == {i \in DOMAIN b : b[i] \in Payload /\ b[LineStart(b, i)] = "data"}

(* buffer.split(b"\n"): the frames whose lines are complete, and the rest. *)
CompleteFrames(b) == {i \in Frames(b) : i < Len(b)}
Rest(b) == SubSeq(b, LineStart(b, Len(b) + 1), Len(b))

(* What the frames at some positions do to finish_reason and to _done. *)
FinishAfter(b, positions, before) ==
  LET finishes == {i \in positions : b[i] \in Finish} IN
  IF finishes = {} THEN before ELSE b[Max(finishes)]
DoneAfter(b, positions, before) == before \/ \E i \in positions : b[i] = "done"

(* Mutant of Cut: a buffer that is too long is dropped. *)
CutAll(b) == IF Len(b) > Limit THEN <<>> ELSE b

(* _consume_sse_bytes: a buffer that is too long is cut to its end. *)
Cut(b) == IF Len(b) > Limit THEN LastEntries(b, Keep) ELSE b

-----------------------------------------------------------------------------
(* From do_POST to the upstream. *)

(* begin_request registers the request, *)
Register(r) ==
  /\ At(r, "new")
  /\ registered' = registered \cup {r}
  /\ Set(r, [handler[r] EXCEPT !.pc = "activate"])
  /\ UNCHANGED <<open, upstream, cancelVars, recorderVars>>

(* and activates its model, *)
Activated(r) == At(r, "activate") /\ Goto(r, "open")

(* or raises: nothing is recorded.  Its entry is taken back, unless the model was
   found to be gone when it had been activated. *)
ActivationFails(r) ==
  /\ At(r, "activate")
  /\ registered' \in {registered \ {r}, registered}
  /\ Set(r, [handler[r] EXCEPT !.pc = "out"])
  /\ UNCHANGED <<open, upstream, cancelVars, recorderVars>>

(* _open_upstream: a connection whose answer has begun, an error status included. *)
Open(r) ==
  LET n == handler[r].attempt + 1 IN
  /\ At(r, "open")
  /\ open' = open \cup {<<r, n>>}
  /\ Set(r, [handler[r] EXCEPT !.pc = "set", !.attempt = n, !.sent = <<>>])
  /\ UNCHANGED <<registered, upstream, cancelVars, recorderVars>>

(* It raises, inside the inner try if it was a retry: a DispatchError, or what
   http.client raises on an answer it cannot read, which nobody catches. *)
OpenFails(r) ==
  /\ At(r, "open")
  /\ \E what \in {"error", "exception"} :
       Only(r, [handler[r] EXCEPT !.pc = IF handler[r].attempt = 0 THEN "record" ELSE "close",
                                  !.raised = what])

(* set_upstream: from here on, cancel() can close the connection. *)
SetUpstream(r) ==
  /\ At(r, "set")
  /\ upstream' = [upstream EXCEPT ![r] = IF r \in registered THEN handler[r].attempt ELSE @]
  /\ Set(r, [handler[r] EXCEPT !.pc = IF handler[r].streaming THEN "head" ELSE "read"])
  /\ UNCHANGED <<registered, open, cancelVars, recorderVars>>

Connected(r) == <<r, handler[r].attempt>> \in open

-----------------------------------------------------------------------------
(* An answer that is streamed. *)

SendHead(r) ==
  /\ At(r, "head")
  /\ \/ Goto(r, "loop")
     \/ handler[r].gone /\ Raise(r, "disconnect")

Noticed(r) ==
  [handler[r] EXCEPT !.pc = "flush", !.cancelled = TRUE, !.finish = "request_cancelled"]

(* Mutant of CheckCancel: a cancellation is left to the read it interrupts. *)
NoCheck(r) == At(r, "loop") /\ Goto(r, "read1")

CheckCancel(r) ==
  /\ At(r, "loop")
  /\ IF r \in event THEN Only(r, Noticed(r)) ELSE Goto(r, "read1")

(* What an upstream may send after the last token of its answer: [DONE] is a
   frame by itself, other frames may be long, and a payload ends its frame. *)
MayFollow(answer, token) ==
  LET last == IF answer = <<>> THEN "nl" ELSE answer[Len(answer)]
      framed == answer # <<>> /\ answer[LineStart(answer, Len(answer))] = "data" IN
  CASE last = "nl" -> token \in {"data", "junk"}
    [] last = "data" -> token \in Payload \cup {"junk"}
    [] last = "junk" -> token \in IF framed THEN Finish \cup {"junk"} ELSE {"junk", "nl"}
    [] OTHER -> token = "nl"

(* An answer as an upstream formats it, from a position on. *)
WellFormed(body, from) ==
  \A i \in from .. Len(body) : MayFollow(SubSeq(body, 1, i - 1), body[i])

Chunks == UNION {[1 .. n -> Token] : n \in 1 .. MaxChunk}

(* upstream.read1 and _consume_sse_bytes. *)
Read1(r) ==
  LET h == handler[r] IN
  /\ At(r, "read1") /\ Connected(r)
  /\ \E bytes \in Chunks :
       LET buffer == Cut(h.buffer \o bytes)
           frames == CompleteFrames(buffer) IN
       /\ Len(h.sent \o bytes) <= MaxBody
       /\ WellFormed(h.sent \o bytes, Len(h.sent) + 1)
       /\ Only(r, [h EXCEPT !.pc     = "write",
                            !.sent   = h.sent \o bytes,
                            !.chunk  = bytes,
                            !.buffer = Rest(buffer),
                            !.finish = FinishAfter(buffer, frames, h.finish),
                            !.done   = DoneAfter(buffer, frames, h.done)])

(* The end of the answer; a connection that cancel() closed may look like it. *)
EndOfStream(r) == At(r, "read1") /\ Goto(r, "flush")

(* TimeoutError: the client is told with a frame of the dispatcher's own. *)
StreamTimeout(r) ==
  /\ At(r, "read1") /\ Connected(r)
  /\ Only(r, [handler[r] EXCEPT !.pc = "flush", !.finish = "upstream_timeout"])

(* The handler of OSError: a cancellation, or an exception that goes on. *)
StreamBreaks(r, what) == IF r \in event THEN Only(r, Noticed(r)) ELSE Raise(r, what)

(* read1 raises: a reset is taken for the client's, another OSError or an
   exception of the HTTP library for nobody's. *)
ReadFails(r) ==
  /\ At(r, "read1")
  /\ StreamBreaks(r, "disconnect") \/ StreamBreaks(r, "exception") \/ Raise(r, "exception")

(* wfile.write: a client that has gone does not receive it. *)
Delivered(r, bytes, label) ==
  [handler[r] EXCEPT !.pc     = label,
                     !.chunk  = <<>>,
                     !.client = IF handler[r].gone THEN @ ELSE @ \o bytes,
                     !.late   = @ + IF r \in event THEN 1 ELSE 0]

(* Mutant of WriteChunk: [DONE] ends the loop before it is written. *)
WriteUntilDone(r) ==
  /\ At(r, "write")
  /\ IF handler[r].done THEN Goto(r, "flush")
     ELSE \/ Only(r, Delivered(r, handler[r].chunk, "loop"))
          \/ handler[r].gone /\ StreamBreaks(r, "disconnect")

(* The chunk is forwarded as it is; [DONE] in it ends the loop. *)
WriteChunk(r) ==
  /\ At(r, "write")
  /\ \/ Only(r, Delivered(r, handler[r].chunk, IF handler[r].done THEN "flush" ELSE "loop"))
     \/ handler[r].gone /\ StreamBreaks(r, "disconnect")

(* Mutant of Flush: the last line is parsed after the cancellation is noted. *)
FlushLast(r) ==
  LET h == handler[r] IN
  /\ At(r, "flush")
  /\ Only(r, [h EXCEPT !.pc     = "close",
                       !.buffer = <<>>,
                       !.done   = DoneAfter(h.buffer, Frames(h.buffer), h.done),
                       !.finish = FinishAfter(h.buffer, Frames(h.buffer), h.finish)])

(* _flush_sse_buffer, and a cancellation has the last word. *)
Flush(r) ==
  LET h == handler[r] IN
  /\ At(r, "flush")
  /\ Only(r, [h EXCEPT !.pc     = "close",
                       !.buffer = <<>>,
                       !.done   = DoneAfter(h.buffer, Frames(h.buffer), h.done),
                       !.finish = IF h.cancelled THEN "request_cancelled"
                                  ELSE FinishAfter(h.buffer, Frames(h.buffer), h.finish)])

-----------------------------------------------------------------------------
(* An answer that is read as a whole. *)

(* Its texts: a finish reason, none, or the error of a Metal timeout. *)
Answers == {<<f>> : f \in Finish} \cup {<<"junk">>, <<"metal">>}

(* Mutant of MayRecover: a recovery may be followed by another one. *)
MayRecoverAgain(r) == r \in registered

(* _can_recover_metal_timeout: at most once; that the server is owned and that
   the model has no other request is a choice in Read. *)
MayRecover(r) == ~handler[r].retried /\ r \in registered

(* upstream.read(), and whether the answer is one to recover from. *)
Read(r) ==
  /\ At(r, "read") /\ Connected(r)
  /\ \E body \in Answers :
       \/ Only(r, [handler[r] EXCEPT !.pc = "answer", !.sent = body])
       \/ /\ body = <<"metal">> /\ MayRecover(r)
          /\ Only(r, [handler[r] EXCEPT !.pc = "retire", !.sent = body])

(* A connection that cancel() closed reads as empty. *)
ReadClosed(r) == At(r, "read") /\ ~Connected(r) /\ Goto(r, "answer")

(* A timeout, an OSError or a ValueError becomes a DispatchError; an exception
   of the HTTP library goes on. *)
ReadRaises(r) == At(r, "read") /\ (Raise(r, "error") \/ Raise(r, "exception"))

(* The connection with the Metal timeout is closed, *)
Retire(r) ==
  /\ At(r, "retire")
  /\ open' = open \ {<<r, handler[r].attempt>>}
  /\ Set(r, [handler[r] EXCEPT !.pc = "unset", !.retried = TRUE])
  /\ UNCHANGED <<registered, upstream, cancelVars, recorderVars>>

(* clear_upstream: there is nothing for cancel() to close until the next one, *)
Unset(r) ==
  /\ At(r, "unset")
  /\ upstream' = [upstream EXCEPT ![r] = 0]
  /\ Set(r, [handler[r] EXCEPT !.pc = "recover"])
  /\ UNCHANGED <<registered, open, cancelVars, recorderVars>>

(* _recover_metal_backend: the request is sent again, or the error is the answer. *)
Recover(r) == At(r, "recover") /\ (Goto(r, "open") \/ Goto(r, "answer"))

(* The last look at the cancellation. *)
Answer(r) ==
  /\ At(r, "answer")
  /\ IF r \in event THEN Raise(r, "error") ELSE Goto(r, "respond")

(* The answer is written, and then read for its finish reason. *)
Respond(r) ==
  LET h == handler[r] IN
  /\ At(r, "respond")
  /\ \/ Only(r, [Delivered(r, h.sent, "close") EXCEPT
                   !.finish = FinishAfter(h.sent, DOMAIN h.sent, @)])
     \/ h.gone /\ Raise(r, "disconnect")

-----------------------------------------------------------------------------
(* The two "finally" blocks, and what runs between them. *)

(* Mutant of Close: a cancelled connection is taken to be closed already. *)
CloseUncancelled(r) ==
  /\ At(r, "close")
  /\ open' = IF r \in event THEN open ELSE open \ {<<r, handler[r].attempt>>}
  /\ Set(r, [handler[r] EXCEPT !.pc = "clear"])
  /\ UNCHANGED <<registered, upstream, cancelVars, recorderVars>>

Close(r) ==
  /\ At(r, "close")
  /\ open' = open \ {<<r, handler[r].attempt>>}
  /\ Set(r, [handler[r] EXCEPT !.pc = "clear"])
  /\ UNCHANGED <<registered, upstream, cancelVars, recorderVars>>

(* clear_upstream, and the handlers of the outer try: a disconnect is the
   finish reason of a request that has none. *)
Clear(r) ==
  LET h == handler[r] IN
  /\ At(r, "clear")
  /\ upstream' = [upstream EXCEPT ![r] = 0]
  /\ Set(r, [h EXCEPT !.pc     = "record",
                      !.finish = IF h.raised = "disconnect" /\ @ = "none"
                                 THEN "client_disconnect" ELSE @])
  /\ UNCHANGED <<registered, open, cancelVars, recorderVars>>

(* recorder.record *)
Record(r) ==
  /\ At(r, "record")
  /\ Call(r, handler[r].finish)
  /\ Set(r, [handler[r] EXCEPT !.pc = "end"])
  /\ UNCHANGED sharedVars

(* end_request *)
EndRequest(r) ==
  /\ At(r, "end") /\ stage[r] = "done"
  /\ registered' = registered \ {r}
  /\ Set(r, [handler[r] EXCEPT !.pc = "out"])
  /\ UNCHANGED <<open, upstream, cancelVars, recorderVars>>

-----------------------------------------------------------------------------
(* The others. *)

Started(r) == handler[r].pc \notin {"new", "out", "lost"}

ClientLeaves(r) == Started(r) /\ ~handler[r].gone /\ Only(r, [handler[r] EXCEPT !.gone = TRUE])

(* cancel() sets the events of its requests and reads their upstreams, *)
Cancel(c, rs) ==
  LET hit == rs \cap registered IN
  /\ c \notin asked /\ hit # {}
  /\ asked' = asked \cup {c}
  /\ event' = event \cup hit
  /\ targets' = [targets EXCEPT ![c] = {<<r, upstream[r]>> : r \in {q \in hit : upstream[q] # 0}}]
  /\ UNCHANGED <<handler, registered, open, upstream, recorderVars>>

(* and closes them one by one, without the condition. *)
CloseTarget(c) ==
  \E t \in targets[c] :
    /\ targets' = [targets EXCEPT ![c] = @ \ {t}]
    /\ open' = open \ {t}
    /\ UNCHANGED <<handler, registered, upstream, event, asked, recorderVars>>

(* The core dies with its connections. *)
Crash ==
  /\ RecorderCrash
  /\ \E r \in Request : Started(r)
  /\ handler' = [r \in Request |-> IF Started(r) THEN [handler[r] EXCEPT !.pc = "lost"] ELSE handler[r]]
  /\ registered' = {} /\ open' = {}
  /\ upstream' = [r \in Request |-> 0]
  /\ targets' = [c \in Canceller |-> {}]
  /\ UNCHANGED <<event, asked>>

HandlerStep(r) ==
  \/ Register(r) \/ Activated(r) \/ ActivationFails(r) \/ Open(r) \/ OpenFails(r) \/ SetUpstream(r)
  \/ SendHead(r) \/ CheckCancel(r) \/ Read1(r) \/ EndOfStream(r) \/ StreamTimeout(r) \/ ReadFails(r)
  \/ WriteChunk(r) \/ Flush(r)
  \/ Read(r) \/ ReadClosed(r) \/ ReadRaises(r) \/ Retire(r) \/ Unset(r) \/ Recover(r)
  \/ Answer(r) \/ Respond(r) \/ Close(r) \/ Clear(r) \/ Record(r) \/ EndRequest(r)

Next ==
  \/ \E r \in Request : HandlerStep(r) \/ ClientLeaves(r) \/ (RecordStep(r) /\ UNCHANGED <<handler, sharedVars>>)
  \/ \E c \in Canceller : CloseTarget(c) \/ \E rs \in SUBSET Request : Cancel(c, rs)
  \/ Crash

Spec == Init /\ [][Next]_vars

-----------------------------------------------------------------------------
IsBeginning(s, t) == Len(s) <= Len(t) /\ s = SubSeq(t, 1, Len(s))

(* A client receives the beginning of one upstream's answer, never parts of
   two; and all of it when nothing went wrong and it stayed.  About the second
   upstream after a Metal timeout, and about [DONE], buffers and cuts that
   must not touch the bytes that are forwarded (3071-3150). *)
ClientSeesOneAnswer ==
  \A r \in Request : LET h == handler[r] IN
    /\ IsBeginning(h.client, h.sent)
    /\ (h.pc = "record" /\ h.attempt # 0 /\ h.raised = "nothing" /\ ~h.gone /\ r \notin event)
         => h.client = h.sent

(* After a cancellation at most one more write reaches the client, wherever
   the cancellation finds the request: before its upstream is registered,
   between two upstreams, or with a chunk already read. *)
CancelledStopsForwarding == \A r \in Request : handler[r].late <= 1

(* An upstream connection is open only while its request counts as active;
   and a request stops to be active only when its record is written.  About
   the nested "finally" blocks (3148-3190): an operator who waits for zero
   active requests finds nothing in the backends and everything in the log. *)
ActiveWhileOpen ==
  \A r \in Request : LET h == handler[r] IN
    /\ (\E n \in Attempt : <<r, n>> \in open) => r \in registered
    /\ (h.pc # "lost" /\ h.attempt # 0 /\ r \notin registered) => stage[r] = "done"
    /\ h.pc = "out" => upstream[r] = 0

(* A request counts as a success only by a finish reason its upstream sent; a
   cancellation noticed while a stream is relayed is recorded as one, whatever
   the upstream had sent before, and a failed recovery is no success.  A whole
   answer whose cancellation is noticed (3086) has no finish reason at all.
   About finish_reason having many writers, in an order that decides
   (3108-3153). *)
SuccessWasEarned ==
  \A r \in Request : LET h == handler[r] IN stage[r] \notin {"out", "lost"} =>
    /\ reason[r] \in Success => \E i \in DOMAIN h.sent : h.sent[i] = reason[r]
    /\ h.cancelled => reason[r] = "request_cancelled"
    /\ h.raised = "error" => reason[r] \notin Success

(* The line of a frame, without the "nl" that ends it. *)
LineLength(b, i) == i + 1 - LineStart(b, i)

(* Every frame of ordinary length is understood, however the answer is cut
   into chunks and whatever long lines come before it: only frames longer than
   the buffer allows may be lost.  About the buffer of _consume_sse_bytes, cut
   in the middle of a line (3192-3201). *)
OrdinaryFramesRead ==
  \A r \in Request : At(r, "loop") =>
    LET h == handler[r]
        frames == CompleteFrames(h.sent)
        finishes == {i \in frames : h.sent[i] \in Finish}
        Ordinary(i) == LineLength(h.sent, i) + MaxChunk <= Limit IN
    /\ (finishes # {} /\ Ordinary(Max(finishes))) => h.finish = h.sent[Max(finishes)]
    /\ finishes = {} => h.finish = "none"
    /\ \A i \in frames : h.sent[i] # "done"

(* docs/troubleshooting.md:18: "A client disconnect is recorded as
   `client_disconnect`; it must not be relabeled `stop`."  The code reads a
   chunk's finish reason before it writes the chunk (3116-3119), and then only
   sets a default (3153). *)
DisconnectIsNoSuccess ==
  \A r \in Request : (stage[r] # "out" /\ handler[r].raised = "disconnect") => reason[r] \notin Success
=============================================================================
