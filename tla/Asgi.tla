-------------------------------- MODULE Asgi --------------------------------
(***************************************************************************)
(* asgi.py: what ASGIServer does with the events of Quic.tla.  on_headers  *)
(* creates the queue and the task of a request; on_data and on_fin look    *)
(* the queue up in self.streams, by the number of the stream; the task     *)
(* receives from the queue it was created with, and takes its entry out    *)
(* when the application returns or raises.  Everything runs on the event   *)
(* loop thread, one callback or task step at a time.                       *)
(*                                                                         *)
(* Sending is in Http3.tla, its locks in Quic.tla; events of one stream    *)
(* come in order, which is StreamOrder in Quic.tla.                        *)
(***************************************************************************)
EXTENDS Integers, Sequences

CONSTANTS
  Streams,   \* bound: requests, pairs of a connection and a stream id
  Chunks     \* bound: DATA events of a request

ASSUME AsgiAssumption == Chunks \in Nat

\* QuicServer_get_stream_id.
Id(s) == s[2]
Ids == {Id(s) : s \in Streams}

\* What on_data and on_fin put into a queue; body 0 is b''.
Message == [of : Streams, body : 0..Chunks, more_body : BOOLEAN]
Data(s, n) == [of |-> s, body |-> n, more_body |-> TRUE]
Fin(s) == [of |-> s, body |-> 0, more_body |-> FALSE]

VARIABLES
  streams,    \* self.streams: from a stream id to the request of the entry
  queue,      \* queue[s]: the asyncio.Queue created for s
  task,       \* task[s]: "none", "created", "running", "done"
  received,   \* received[s]: what receive() returned to the application of s
  chunks,     \* chunks[s]: on_data calls for s
  finished    \* requests on_fin was called for

vars == <<streams, queue, task, received, chunks, finished>>

Init ==
  /\ streams = [i \in {} |-> 0]
  /\ queue = [s \in Streams |-> <<>>]
  /\ task = [s \in Streams |-> "none"]
  /\ received = [s \in Streams |-> <<>>]
  /\ chunks = [s \in Streams |-> 0]
  /\ finished = {}

---------------------------------------------------------------------------
\* self.streams[key] = the entry of s
Entered(key, s) ==
  [k \in DOMAIN streams \cup {key} |-> IF k = key THEN s ELSE streams[k]]

\* self.streams.pop(key, None)
Popped(key) == [k \in DOMAIN streams \ {key} |-> streams[k]]

\* The entry is made when the task starts to run, too late for what arrives
\* with the headers; here it never is.
OnHeaders_NoEntry(s) ==
  /\ task[s] = "none"
  /\ task' = [task EXCEPT ![s] = "created"]
  /\ UNCHANGED <<streams, queue, received, chunks, finished>>

OnHeaders(s) ==
  /\ task[s] = "none"
  /\ task' = [task EXCEPT ![s] = "created"]
  /\ streams' = Entered(Id(s), s)
  /\ UNCHANGED <<queue, received, chunks, finished>>

\* Put into the queue of the entry for the stream's number, if there is one.
Put(s, message) ==
  queue' = IF Id(s) \in DOMAIN streams
           THEN [queue EXCEPT ![streams[Id(s)]] = Append(@, message)]
           ELSE queue

OnData(s) ==
  /\ task[s] # "none" /\ s \notin finished
  /\ chunks[s] < Chunks
  /\ chunks' = [chunks EXCEPT ![s] = @ + 1]
  /\ Put(s, Data(s, chunks[s] + 1))
  /\ UNCHANGED <<streams, task, received, finished>>

\* The end is told only to a request that had a body.
OnFin_BodyOnly(s) ==
  /\ task[s] # "none" /\ s \notin finished
  /\ finished' = finished \cup {s}
  /\ IF chunks[s] > 0 THEN Put(s, Fin(s)) ELSE UNCHANGED queue
  /\ UNCHANGED <<streams, task, received, chunks>>

OnFin(s) ==
  /\ task[s] # "none" /\ s \notin finished
  /\ finished' = finished \cup {s}
  /\ Put(s, Fin(s))
  /\ UNCHANGED <<streams, task, received, chunks>>

---------------------------------------------------------------------------
(***************************************************************************)
(* The task: _run_app awaits the application, which receives any number of *)
(* times and returns or raises when it likes.                              *)
(***************************************************************************)
RunApp(s) ==
  /\ task[s] = "created"
  /\ task' = [task EXCEPT ![s] = "running"]
  /\ UNCHANGED <<streams, queue, received, chunks, finished>>

\* receive() waits for its own queue.
Receive(s) ==
  /\ task[s] = "running"
  /\ queue[s] # <<>>
  /\ received' = [received EXCEPT ![s] = Append(@, Head(queue[s]))]
  /\ queue' = [queue EXCEPT ![s] = Tail(@)]
  /\ UNCHANGED <<streams, task, chunks, finished>>

\* The entry goes only if the application returns, not if it raises.
AppEnds_NoFinally(s) ==
  /\ task[s] = "running"
  /\ task' = [task EXCEPT ![s] = "done"]
  /\ \E raised \in BOOLEAN : streams' = IF raised THEN streams ELSE Popped(Id(s))
  /\ UNCHANGED <<queue, received, chunks, finished>>

\* The application returns, or raises: the entry goes in both cases.
AppEnds(s) ==
  /\ task[s] = "running"
  /\ task' = [task EXCEPT ![s] = "done"]
  /\ streams' = Popped(Id(s))
  /\ UNCHANGED <<queue, received, chunks, finished>>

Next ==
  \E s \in Streams :
    \/ OnHeaders(s)
    \/ OnData(s)
    \/ OnFin(s)
    \/ RunApp(s)
    \/ Receive(s)
    \/ AppEnds(s)

Spec == Init /\ [][Next]_vars

\* The event loop runs a task that can run, and this application receives
\* as long as there is something to receive.
FairSpec == Spec /\ \A s \in Streams : WF_vars(RunApp(s)) /\ WF_vars(Receive(s))

---------------------------------------------------------------------------
Living(s) == task[s] \in {"created", "running"}

TypeOK ==
  /\ DOMAIN streams \subseteq Ids
  /\ \A i \in DOMAIN streams : streams[i] \in Streams
  /\ queue \in [Streams -> Seq(Message)]
  /\ task \in [Streams -> {"none", "created", "running", "done"}]
  /\ received \in [Streams -> Seq(Message)]
  /\ chunks \in [Streams -> 0..Chunks]
  /\ finished \subseteq Streams

\* The body of s as the peer sent it so far.
Arrived(s) ==
  [n \in 1..chunks[s] + (IF s \in finished THEN 1 ELSE 0) |->
     IF n <= chunks[s] THEN Data(s, n) ELSE Fin(s)]

\* What an application has received and what waits for it are together the
\* body of its own request: nothing missing, nothing of another request,
\* nothing twice, in order, whatever arrives before the task first runs.
OwnBody ==
  \A s \in Streams : Living(s) => received[s] \o queue[s] = Arrived(s)

\* self.streams holds one entry per unfinished request, its own, and so does
\* not grow with requests that are over, returned or failed.
EntriesAreTasks ==
  /\ \A s \in Streams : Living(s) => Id(s) \in DOMAIN streams /\ streams[Id(s)] = s
  /\ \A i \in DOMAIN streams : Living(streams[i]) /\ Id(streams[i]) = i

\* An application that reads its request to the end gets to the end, also
\* when there is no body.
BodyEnds ==
  \A s \in Streams :
    s \in finished /\ Living(s)
      ~> task[s] = "done" \/ \E n \in DOMAIN received[s] : ~received[s][n].more_body
=============================================================================
