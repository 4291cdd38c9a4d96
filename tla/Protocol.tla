----------------------------- MODULE Protocol -----------------------------
(***************************************************************************)
(* One HTTP/1.1 connection: protocol/c_impl/cprotocol.c driven by the feed *)
(* loop of parser/c_impl/cparser.c and composed with Pipeline.             *)
(*                                                                         *)
(* Everything runs on the event loop thread.  data_received runs the feed  *)
(* loop to its end, so while there are bytes to parse (tail) no other      *)
(* callback runs; between two calls of data_received anything may.         *)
(*                                                                         *)
(* The bytes of a buffer are abstracted to the items the parser finds in   *)
(* them, chosen as it goes: a whole request (with the traits that steer    *)
(* the handlers), bytes that are no request head, or the beginning of one. *)
(* Requests and rejected heads are numbered in the order of arrival; wire  *)
(* holds the numbers in the order their answers reach the transport.       *)
(***************************************************************************)
EXTENDS Integers, Sequences, FiniteSets, SequencesExt

CONSTANTS
  QueueLen,       \* slots of the pipeline, 10 in cpipeline.h
  GatherMaxResp,  \* GATHER_MAX_RESP, 24 in cprotocol.h
  MaxRequests,    \* bound: requests (and rejected heads) of the connection
  Kinds           \* the kinds of request clients send, a set of RequestKind

RequestKind ==
  [coro   : BOOLEAN,  \* the matched handler is a coroutine function
   raises : BOOLEAN,  \* no response comes of it: error_handler raises as well
   last   : BOOLEAN,  \* keep_alive is KEEP_ALIVE_FALSE for it
   http10 : BOOLEAN,  \* minor_version 0
   big    : BOOLEAN]  \* its response alone exceeds GATHER_MAX_LEN

ASSUME ProtocolAssumption ==
  /\ QueueLen \in Nat \ {0}
  /\ GatherMaxResp \in Nat \ {0}
  /\ MaxRequests \in Nat
  /\ Kinds \subseteq RequestKind

VARIABLES
  \* of the pipeline
  queue, queue_start, queue_end, accepted, task, raised, callbacks,
  protocol_refs, emitted, failed, aborted,
  \* of the parser
  tail,        \* the feed loop still has bytes
  partial,     \* the buffer ends inside a request head
  body_state,  \* state == PARSER_BODY: the last on_body call failed
  close_seen,  \* connection == PARSER_CLOSE
  \* of the protocol
  requests,    \* requests and rejected heads seen so far
  kind,        \* the kind of each request
  rejected,    \* the numbers that are rejected heads
  owner,       \* owner[e]: the request of pipeline entry e
  enabled,     \* gather.enabled
  gather,      \* gather.responses
  transport,   \* "open", "draining", "closing", "lost"
  wire,        \* what reached the transport
  dropped      \* answers nobody will get

pipeline_vars == <<queue, queue_start, queue_end, accepted, task, raised,
                   callbacks, protocol_refs, emitted, failed, aborted>>
parser_vars == <<tail, partial, body_state, close_seen>>
out_vars == <<gather, transport, wire, dropped>>
request_vars == <<requests, kind, rejected, owner, enabled>>
vars == <<pipeline_vars, parser_vars, out_vars, request_vars>>

P == INSTANCE Pipeline WITH MaxEntries <- MaxRequests

Numbers == 1..MaxRequests

NoKind == [coro |-> FALSE, raises |-> FALSE, last |-> FALSE,
           http10 |-> FALSE, big |-> FALSE]

closed == transport = "lost"

---------------------------------------------------------------------------
(***************************************************************************)
(* The transport (external).  close() stops reading; what was written      *)
(* before is still sent.  If the write buffer is empty at that moment,     *)
(* later writes are discarded, otherwise they join the buffer until it is  *)
(* drained; the protocol cannot tell which.                                *)
(***************************************************************************)
Output == [gather |-> gather, transport |-> transport, wire |-> wire,
           dropped |-> dropped]

SetOutput(out) ==
  /\ gather' = out.gather
  /\ transport' = out.transport
  /\ wire' = out.wire
  /\ dropped' = out.dropped

TransportWrite(out, batch) ==
  IF out.transport \in {"open", "draining"}
  THEN [out EXCEPT !.wire = @ \o batch]
  ELSE [out EXCEPT !.dropped = @ \cup ToSet(batch)]

\* Protocol_close.
Protocol_close(out, drain) ==
  IF out.transport = "open"
  THEN [out EXCEPT !.transport = IF drain /\ out.wire # <<>> THEN "draining" ELSE "closing"]
  ELSE out

---------------------------------------------------------------------------
(***************************************************************************)
(* Responses.  A synchronous response is gathered while more bytes of the  *)
(* same buffer wait; any other write first flushes what was gathered.      *)
(***************************************************************************)
\* The gather buffer is sent but not reset.
Gather_flush_Kept(out) ==
  IF out.gather = <<>> THEN out ELSE TransportWrite(out, out.gather)

Gather_flush(out) ==
  IF out.gather = <<>> THEN out
  ELSE [TransportWrite(out, out.gather) EXCEPT !.gather = <<>>]

\* One response too many for the array.
Gathers_OffByOne(out, on, k) ==
  /\ on
  /\ Len(out.gather) <= GatherMaxResp
  /\ ~k.big

Gathers(out, on, k) ==
  /\ on
  /\ Len(out.gather) < GatherMaxResp
  /\ ~k.big

\* A response that is not gathered overtakes those that are.
WriteResponse_NoFlush(out, on, r, k, drain) ==
  LET sent == IF Gathers(out, on, k)
              THEN [out EXCEPT !.gather = Append(@, r)]
              ELSE TransportWrite(out, <<r>>)
  IN  IF k.last THEN Protocol_close(sent, drain) ELSE sent

\* Protocol_write_response_or_err for a response to r, of kind k, that can be
\* produced.  on is gather.enabled at the time of the call.
WriteResponse(out, on, r, k, drain) ==
  LET sent == IF Gathers(out, on, k)
              THEN [out EXCEPT !.gather = Append(@, r)]
              ELSE TransportWrite(Gather_flush(out), <<r>>)
  IN  IF k.last THEN Protocol_close(sent, drain) ELSE sent

(***************************************************************************)
(* Protocol_on_error: the 400 answer goes straight to the transport, then  *)
(* the connection is closed.  The parser is reset.                         *)
(***************************************************************************)
ParserReset ==
  /\ tail' = FALSE
  /\ partial' = FALSE
  /\ body_state' = FALSE
  /\ close_seen' = FALSE

ErrorOutput(r, drain) == Protocol_close(TransportWrite(Output, <<r>>), drain)

RejectHead ==
  /\ requests < MaxRequests
  /\ requests' = requests + 1
  /\ rejected' = rejected \cup {requests + 1}
  /\ \E drain \in BOOLEAN : SetOutput(ErrorOutput(requests + 1, drain))
  /\ ParserReset
  /\ UNCHANGED <<pipeline_vars, kind, owner, enabled>>

---------------------------------------------------------------------------
(***************************************************************************)
(* data_received and the feed loop.                                        *)
(***************************************************************************)
Running == ~aborted /\ ~tail

DataReceived ==
  /\ Running
  /\ requests < MaxRequests
  /\ transport = "open"
  /\ tail' = TRUE
  /\ partial' = FALSE
  /\ UNCHANGED <<pipeline_vars, body_state, close_seen, out_vars, request_vars>>

\* _parse_headers: a request head after one that closes is refused unread.
ExcessiveData ==
  /\ tail /\ close_seen
  /\ RejectHead

MalformedHead ==
  /\ tail /\ ~close_seen
  /\ RejectHead

\* The buffer ends without on_incomplete.
IncompleteHead_NoFlush ==
  /\ tail /\ ~close_seen
  /\ tail' = FALSE
  /\ partial' = TRUE
  /\ UNCHANGED <<pipeline_vars, out_vars, body_state, close_seen, request_vars>>

\* The head is not complete; on_incomplete flushes what was gathered.
IncompleteHead ==
  /\ tail /\ ~close_seen
  /\ tail' = FALSE
  /\ partial' = TRUE
  /\ SetOutput(Gather_flush(Output))
  /\ UNCHANGED <<pipeline_vars, body_state, close_seen, request_vars>>

(***************************************************************************)
(* Protocol_on_body, with the rest of the iteration of the feed loop.      *)
(* more says whether bytes follow in the buffer (bound: none do after the  *)
(* last number, so that the feed loop ends).                               *)
(***************************************************************************)
\* Gathering does not look for bytes that follow.
GatherEnabled_NoTail(k, more) == ~k.coro /\ P!PIPELINE_EMPTY

GatherEnabled(k, more) == ~k.coro /\ P!PIPELINE_EMPTY /\ more

Numbered(k) ==
  /\ requests < MaxRequests
  /\ requests' = requests + 1
  /\ kind' = [kind EXCEPT ![requests + 1] = k]

OnBodyParsed(k, more) ==
  /\ tail /\ ~close_seen
  /\ Numbered(k)
  /\ more => requests + 1 < MaxRequests
  /\ tail' = more
  /\ close_seen' = k.http10
  /\ enabled' = GatherEnabled(k, more)
  /\ UNCHANGED <<partial, body_state, rejected>>

Owned == owner' = [owner EXCEPT ![accepted + 1] = requests + 1]

\* A coroutine handler: its task is queued.
OnBodyTask(k, more) ==
  /\ k.coro
  /\ OnBodyParsed(k, more)
  /\ P!QueueTask
  /\ Owned
  /\ UNCHANGED out_vars

\* A plain response is queued even when no task is in front of it.
OnBodyQueued_Always(k, more) ==
  /\ ~k.coro
  /\ OnBodyParsed(k, more)
  /\ P!Queue("response", k.raises)
  /\ Owned
  /\ UNCHANGED out_vars

\* A plain response waits its turn behind the tasks.
OnBodyQueued(k, more) ==
  /\ ~k.coro
  /\ OnBodyParsed(k, more)
  /\ P!QueueResponse(k.raises)
  /\ Owned
  /\ UNCHANGED out_vars

OnBodyWritten(k, more) ==
  /\ ~k.coro /\ ~k.raises /\ P!PIPELINE_EMPTY
  /\ OnBodyParsed(k, more)
  /\ \E drain \in BOOLEAN :
       SetOutput(WriteResponse(Output, GatherEnabled(k, more), requests + 1, k, drain))
  /\ UNCHANGED <<pipeline_vars, owner>>

\* No response can be produced: data_received raises, and the event loop
\* drops the connection with its write buffer (external).
OnBodyFailed(k) ==
  /\ tail /\ ~close_seen
  /\ ~k.coro /\ k.raises /\ P!PIPELINE_EMPTY
  /\ \E more \in BOOLEAN : enabled' = GatherEnabled(k, more)
  /\ Numbered(k)
  /\ tail' = FALSE
  /\ body_state' = TRUE
  /\ close_seen' = k.http10
  /\ transport' = "closing"
  /\ dropped' = dropped \cup {requests + 1}
  /\ UNCHANGED <<pipeline_vars, partial, gather, wire, rejected, owner>>

---------------------------------------------------------------------------
(***************************************************************************)
(* Tasks, their callbacks, and the end of the connection.                  *)
(***************************************************************************)
FinishTask(e, raises) ==
  /\ Running
  /\ P!FinishTask(e, raises)
  /\ UNCHANGED <<parser_vars, out_vars, request_vars>>

\* Protocol_pipeline_ready: result() of a task that raised, or a missing
\* response, ends in error_handler and fails; after connection_lost the
\* response is dropped whatever it is.
Failing == IF closed THEN {} ELSE raised

Ready(out, e, drain) ==
  IF closed THEN [out EXCEPT !.dropped = @ \cup {owner[e]}]
            ELSE WriteResponse(out, enabled, owner[e], kind[owner[e]], drain)

\* The entries one run of _task_done hands to ready(), in order.
HandedOver == SubSeq(emitted', Len(emitted) + 1, Len(emitted'))

\* after[n] is the output when the first n of them were handed over.
WriteHandedOver ==
  \E drain \in BOOLEAN :
    LET after[n \in 0..Len(HandedOver)] ==
          IF n = 0 THEN Output ELSE Ready(after[n - 1], HandedOver[n], drain)
    IN  SetOutput(after[Len(HandedOver)])

TaskDone ==
  /\ Running
  /\ P!TaskDone(Failing)
  /\ WriteHandedOver
  /\ UNCHANGED <<parser_vars, request_vars>>

\* The peer goes away, or an idle connection is closed by App.drain or the
\* Reaper: transport.close() outside of any request.
CloseTransport ==
  /\ Running
  /\ transport = "open"
  /\ \E drain \in BOOLEAN : SetOutput(Protocol_close(Output, drain))
  /\ UNCHANGED <<pipeline_vars, parser_vars, request_vars>>

\* The tasks of a lost connection are left running.
ConnectionLost_NoCancel ==
  /\ Running
  /\ transport \in {"draining", "closing"}
  /\ transport' = "lost"
  /\ ParserReset
  /\ UNCHANGED <<pipeline_vars, gather, wire, dropped, request_vars>>

(***************************************************************************)
(* connection_lost: Parser_feed_disconnect reports a request cut short,    *)
(* whose 400 answer the closed transport discards; the tasks are cancelled.*)
(***************************************************************************)
ConnectionLost ==
  /\ Running
  /\ transport \in {"draining", "closing"}
  /\ transport' = "lost"
  /\ ParserReset
  /\ P!Cancel
  /\ UNCHANGED <<gather, wire, dropped, request_vars>>

Init ==
  /\ P!Init
  /\ tail = FALSE
  /\ partial = FALSE
  /\ body_state = FALSE
  /\ close_seen = FALSE
  /\ requests = 0
  /\ kind = [r \in Numbers |-> NoKind]
  /\ rejected = {}
  /\ owner = [e \in Numbers |-> 0]
  /\ enabled = FALSE
  /\ gather = <<>>
  /\ transport = "open"
  /\ wire = <<>>
  /\ dropped = {}

OnBody(k) ==
  \/ \E more \in BOOLEAN : \/ OnBodyTask(k, more)
                           \/ OnBodyQueued(k, more)
                           \/ OnBodyWritten(k, more)
  \/ OnBodyFailed(k)

Feed ==
  /\ ~aborted
  /\ \/ ExcessiveData
     \/ MalformedHead
     \/ IncompleteHead
     \/ \E k \in Kinds : OnBody(k)

AnyTaskFinishes == \E e \in Numbers : \E raises \in BOOLEAN : FinishTask(e, raises)

Next ==
  \/ DataReceived
  \/ Feed
  \/ AnyTaskFinishes
  \/ TaskDone
  \/ CloseTransport
  \/ ConnectionLost

Spec == Init /\ [][Next]_vars

CancelledEnds ==
  \E e \in Numbers : /\ task[e] = "cancelling"
                     /\ \E raises \in BOOLEAN : FinishTask(e, raises)

\* The feed loop ends, the event loop runs what it scheduled however busy the
\* socket is (hence strong fairness: each buffer that arrives disables the
\* callbacks while it is parsed), a transport that closes reports it, and a
\* cancelled handler ends.  Nothing is assumed of the other handlers.
FairSpec ==
  /\ Spec
  /\ WF_vars(Feed)
  /\ SF_vars(TaskDone)
  /\ WF_vars(ConnectionLost)
  /\ WF_vars(CancelledEnds)

---------------------------------------------------------------------------
TypeOK ==
  /\ P!TypeOK
  /\ {tail, partial, body_state, close_seen, enabled} \subseteq BOOLEAN
  /\ requests \in 0..MaxRequests
  /\ kind \in [Numbers -> RequestKind]
  /\ rejected \subseteq 1..requests
  /\ owner \in [Numbers -> 0..MaxRequests]
  /\ gather \in Seq(1..requests) /\ Len(gather) <= GatherMaxResp
  /\ transport \in {"open", "draining", "closing", "lost"}
  /\ wire \in Seq(1..requests)
  /\ dropped \subseteq 1..requests

\* The requests of the entries the pipeline holds, front first.
Queued == [i \in 1..(queue_end - queue_start) |-> owner[queue[queue_start + i - 1]]]

\* The line every response moves up: from the pipeline or a handler through
\* the gather buffer to the wire.
Line == wire \o gather \o Queued

\* Responses never pass one another on that line, as long as no ready()
\* failed; only the answer to a rejected head does.
NeverPassed ==
  ~failed => \A i, j \in DOMAIN Line :
    i < j => Line[i] < Line[j] \/ Line[i] \in rejected

\* Every request and rejected head is accounted for in exactly one place:
\* held by the pipeline, gathered, sent, or given up, and given up only with
\* the connection.
ExactlyOnePlace ==
  ~failed /\ ~aborted =>
    /\ \A r \in 1..requests :
         Cardinality({i \in DOMAIN Line : Line[i] = r})
           + (IF r \in dropped THEN 1 ELSE 0) = 1
    /\ transport = "open" => dropped = {}

\* The protocol uses the pipeline within its rules, so that what holds of
\* Pipeline holds here: no plain response is queued first, ready() fails only
\* for what raised, nothing else touches the queue.
UsesPipeline == P!Spec

\* A gathered response is never forgotten on an open connection: between two
\* buffers it only waits if a queued entry behind it will flush it.
GatherNotStranded ==
  ~tail /\ gather # <<>> /\ transport = "open" => ~P!PIPELINE_EMPTY

\* Between two buffers, it is request r's turn: neither it nor anything in
\* front of it waits for a handler.  A gathered response also waits for the
\* entry right behind it, whose write will flush it: a slow coroutine delays a
\* request that came before it.
Due(r) ==
  /\ ~tail /\ r <= requests
  /\ \A i \in DOMAIN Queued :
       Queued[i] <= r \/ (i = 1 /\ r \in ToSet(gather))
         => P!Finished(queue[queue_start + i - 1])

\* A request whose turn has come is answered, or its connection ends.
Answered ==
  \A r \in Numbers :
    Due(r) ~> (r \in ToSet(wire) \/ transport # "open" \/ failed \/ aborted)

\* After connection_lost the pipeline drains, and with that lets go of the
\* protocol: every task it holds is cancelled, whatever becomes of it.
ReleasedAfterLoss == closed ~> (P!PIPELINE_EMPTY \/ failed \/ aborted)

---------------------------------------------------------------------------
\* The documented promise (project_analysis.md): responses are sent in strict
\* order even when handling is asynchronous.
StrictOrder == \A i \in DOMAIN wire : wire[i] = i
===========================================================================
