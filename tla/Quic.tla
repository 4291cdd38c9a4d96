------------------------------- MODULE Quic -------------------------------
(***************************************************************************)
(* protocol/c_impl/cquic.c: HTTP/3.  MsQuic runs the callbacks of one      *)
(* connection one after the other on a worker thread; the event loop       *)
(* thread runs Python.  They share, per connection, the nghttp3 state      *)
(* under ctx->lock, and the list of pending events under pending_lock.     *)
(*                                                                         *)
(* A request is a stream of frames 1..Frames: HEADERS, DATA ..., and the   *)
(* end of the stream.  A worker reads frames and pushes one event for      *)
(* each; a push schedules process_pending, which hands all pending events  *)
(* to Python.  A Python handler answers through send_headers/send_data,    *)
(* which give up the GIL before they wait for ctx->lock; a worker that     *)
(* holds ctx->lock waits for the GIL to schedule process_pending.  A send  *)
(* may ask MsQuic for the id of another stream, with ctx->lock held: off   *)
(* the worker, MsQuic queues the question to the worker and blocks.        *)
(*                                                                         *)
(* pending_lock is a leaf: nothing is waited for while it is held, so its  *)
(* critical sections are steps.  Streams are modelled up to their last     *)
(* frame and answer, not their shutdown.                                   *)
(***************************************************************************)
EXTENDS Integers, Sequences, FiniteSets

CONSTANTS
  Conns,       \* connections
  Streams,     \* bound: request streams, pairs of a connection and an id
  Frames,      \* bound: frames of a request
  Replies,     \* bound: send_headers/send_data calls for a request
  MaxStreams   \* slots of ctx->streams for requests: 64, less the streams
               \* the peer opens for itself

ASSUME QuicAssumption ==
  /\ Frames \in Nat \ {0}
  /\ Replies \in Nat
  /\ MaxStreams \in Nat
  /\ Streams \subseteq Conns \X Nat

Conn(s) == s[1]
Frame == 1..Frames
HEADERS == 1
Event == [stream : Streams, frame : Frame]

VARIABLES
  is_ready,    \* connections whose three server streams have started
  streams,     \* ctx->streams: the registered request streams
  opened,      \* request streams whose callback handler is set
  disabled,    \* StreamReceiveSetEnabled(FALSE)
  taken,       \* taken[s]: frames MsQuic handed to the callback
  read,        \* read[s]: frames nghttp3 consumed
  user_data,   \* streams nghttp3 knows the context of
  has_error,
  worker,      \* worker[c]: where the callback of c is; "blocked" where it
               \* waits for ctx->lock
  lock,        \* ctx->lock
  gil,         \* "python" while the event loop thread holds it; a worker
               \* holds it for one step only
  pending,     \* pending_head .. pending_tail
  wakeups,     \* process_pending calls scheduled, not yet run
  python,      \* where the event loop thread is
  batch,       \* the list process_pending detached
  dispatched,  \* dispatched[s]: frames passed to on_headers, on_data, on_fin
  replies      \* replies[s]: completed sends

conn_vars == <<is_ready, streams, opened, disabled>>
read_vars == <<taken, read, user_data, has_error>>
queue_vars == <<pending, wakeups>>
python_vars == <<python, batch, dispatched, replies>>
vars == <<conn_vars, read_vars, worker, lock, gil, queue_vars, python_vars>>

Idle == [at |-> "idle"]
Blocked == [at |-> "blocked"]
WorkerState ==
  {Idle, Blocked} \cup [at : {"reading", "waking"}, stream : Streams,
               next : 1..Frames+1, last : Frame]

PythonState ==
  [at : {"select", "dispatch"}]
    \cup [at : {"send", "lock_wait", "sending", "param_wait", "flushed", "gil_wait"},
          stream : Streams]

Select == [at |-> "select"]

Registered(c) == {s \in streams : Conn(s) = c}

\* FindStreamContext, or the stream user data once it is set.
Found(s) == s \in streams \/ s \in user_data

---------------------------------------------------------------------------
Init ==
  /\ is_ready = {}
  /\ streams = {}
  /\ opened = {}
  /\ disabled = {}
  /\ taken = [s \in Streams |-> 0]
  /\ read = [s \in Streams |-> 0]
  /\ user_data = {}
  /\ has_error = {}
  /\ worker = [c \in Conns |-> Idle]
  /\ lock = [c \in Conns |-> "none"]
  /\ gil = "none"
  /\ pending = <<>>
  /\ wakeups = 0
  /\ python = Select
  /\ batch = <<>>
  /\ dispatched = [s \in Streams |-> <<>>]
  /\ replies = [s \in Streams |-> 0]

(***************************************************************************)
(* Every callback begins by taking ctx->lock.  Those that do not read      *)
(* frames are one step once they have it: nothing else in them waits.      *)
(***************************************************************************)
Callback(c) == worker[c] \in {Idle, Blocked} /\ lock[c] = "none"

\* A client opens its streams in the order of their ids (external: QUIC).
NextStream(s) ==
  s \notin opened /\ \A t \in Streams : Conn(t) = Conn(s) /\ t[2] < s[2] => t \in opened

\* A callback that MsQuic may still make: a START_COMPLETE, a new stream, or
\* more frames of a stream that is enabled.
CallbackComing(c) ==
  \/ c \notin is_ready
  \/ \E s \in Streams :
       /\ Conn(s) = c
       /\ NextStream(s) \/ (s \in opened \ disabled /\ taken[s] < Frames)

\* MsQuic makes a callback while a send holds ctx->lock.  Which one it is shows
\* when it runs.
WorkerBlocks(c) ==
  /\ worker[c] = Idle
  /\ lock[c] # "none"
  /\ CallbackComing(c)
  /\ worker' = [worker EXCEPT ![c] = Blocked]
  /\ UNCHANGED <<conn_vars, read_vars, lock, gil, queue_vars, python_vars>>

\* FinalizeHttp3Setup, at the third START_COMPLETE of a server stream (the
\* first two only count).
FinalizeHttp3Setup(c) ==
  /\ Callback(c)
  /\ c \notin is_ready
  /\ is_ready' = is_ready \cup {c}
  /\ disabled' = disabled \ Registered(c)
  /\ worker' = [worker EXCEPT ![c] = Idle]
  /\ UNCHANGED <<streams, opened, read_vars, lock, gil, queue_vars, python_vars>>

\* The table takes one stream too many.
PeerStreamStarted_OffByOne(s) ==
  /\ Callback(Conn(s))
  /\ NextStream(s)
  /\ opened' = opened \cup {s}
  /\ streams' = IF Cardinality(Registered(Conn(s))) <= MaxStreams
                THEN streams \cup {s} ELSE streams
  /\ worker' = [worker EXCEPT ![Conn(s)] = Idle]
  /\ UNCHANGED <<is_ready, disabled, read_vars, lock, gil, queue_vars, python_vars>>

\* PEER_STREAM_STARTED; AddStreamContext drops a stream when the table is full.
PeerStreamStarted(s) ==
  /\ Callback(Conn(s))
  /\ NextStream(s)
  /\ opened' = opened \cup {s}
  /\ streams' = IF Cardinality(Registered(Conn(s))) < MaxStreams
                THEN streams \cup {s} ELSE streams
  /\ worker' = [worker EXCEPT ![Conn(s)] = Idle]
  /\ UNCHANGED <<is_ready, disabled, read_vars, lock, gil, queue_vars, python_vars>>

(***************************************************************************)
(* RECEIVE with the next n frames of a stream, in one buffer (several      *)
(* buffers are read like several events).                                  *)
(***************************************************************************)
Indicate(s, n) ==
  /\ Callback(Conn(s))
  /\ s \in opened \ disabled
  /\ taken[s] + n <= Frames
  /\ taken' = [taken EXCEPT ![s] = @ + n]

\* Before the connection is ready the callback disables the stream and returns
\* success, which consumes the frames (external: MsQuic).
ReceiveDeferred(s, n) ==
  /\ Conn(s) \notin is_ready
  /\ Indicate(s, n)
  /\ disabled' = disabled \cup {s}
  /\ worker' = [worker EXCEPT ![Conn(s)] = Idle]
  /\ UNCHANGED <<is_ready, streams, opened, read, user_data, has_error,
                 lock, gil, queue_vars, python_vars>>

\* The early exit for a failed stream forgets the lock.
ReceiveFailed_KeepsLock(s, n) ==
  /\ Conn(s) \in is_ready
  /\ read[s] < taken[s]
  /\ Indicate(s, n)
  /\ has_error' = has_error \cup {s}
  /\ lock' = [lock EXCEPT ![Conn(s)] = "worker"]
  /\ worker' = [worker EXCEPT ![Conn(s)] = Idle]
  /\ UNCHANGED <<conn_vars, read, user_data, gil, queue_vars, python_vars>>

\* nghttp3 refuses a stream that does not begin with its first frame; a
\* stream that failed is ignored.
ReceiveFailed(s, n) ==
  /\ Conn(s) \in is_ready
  /\ read[s] < taken[s]
  /\ Indicate(s, n)
  /\ has_error' = has_error \cup {s}
  /\ worker' = [worker EXCEPT ![Conn(s)] = Idle]
  /\ UNCHANGED <<conn_vars, read, user_data, lock, gil, queue_vars, python_vars>>

Receive(s, n) ==
  /\ Conn(s) \in is_ready
  /\ read[s] = taken[s]
  /\ Indicate(s, n)
  /\ lock' = [lock EXCEPT ![Conn(s)] = "worker"]
  /\ worker' = [worker EXCEPT ![Conn(s)] =
       [at |-> "reading", stream |-> s, next |-> read[s] + 1, last |-> read[s] + n]]
  /\ UNCHANGED <<conn_vars, read, user_data, has_error, gil, queue_vars, python_vars>>

Reading(c) == worker[c].at = "reading" /\ worker[c].next <= worker[c].last

\* server_end_headers, server_recv_data and server_end_stream, up to the
\* unlock of pending_lock in PushEvent.
PushEvent(c) ==
  /\ Reading(c)
  /\ Found(worker[c].stream)
  /\ pending' = Append(pending, [stream |-> worker[c].stream, frame |-> worker[c].next])
  /\ worker' = [worker EXCEPT ![c].at = "waking"]
  /\ UNCHANGED <<conn_vars, read_vars, lock, gil, wakeups, python_vars>>

\* The callbacks return early when they find no context.
SkipEvent(c) ==
  /\ Reading(c)
  /\ ~Found(worker[c].stream)
  /\ worker' = [worker EXCEPT ![c].next = @ + 1]
  /\ UNCHANGED <<conn_vars, read_vars, lock, gil, queue_vars, python_vars>>

\* The rest of PushEvent needs the GIL for a moment.  A thread that runs
\* Python code hands it over on request, one that waits in C does not.
GilAvailable == gil = "none" \/ python.at = "dispatch"

\* Python is only woken for the first event of the list, judged by a look at
\* the list after pending_lock was released.
WakePython_FirstOnly(c) ==
  /\ worker[c].at = "waking"
  /\ GilAvailable
  /\ wakeups' = IF Len(pending) = 1 THEN wakeups + 1 ELSE wakeups
  /\ worker' = [worker EXCEPT ![c].at = "reading", ![c].next = @ + 1]
  /\ UNCHANGED <<conn_vars, read_vars, lock, gil, pending, python_vars>>

WakePython(c) ==
  /\ worker[c].at = "waking"
  /\ GilAvailable
  /\ wakeups' = wakeups + 1
  /\ worker' = [worker EXCEPT ![c].at = "reading", ![c].next = @ + 1]
  /\ UNCHANGED <<conn_vars, read_vars, lock, gil, pending, python_vars>>

\* nghttp3 refuses the frame (a malformed one): the stream has failed, the
\* rest of the buffer is dropped and nothing is flushed; what was pushed
\* before stays.
ReadFails(c) ==
  /\ Reading(c)
  /\ LET s == worker[c].stream
     IN  /\ has_error' = has_error \cup {s}
         /\ read' = [read EXCEPT ![s] = worker[c].next - 1]
  /\ lock' = [lock EXCEPT ![c] = "none"]
  /\ worker' = [worker EXCEPT ![c] = Idle]
  /\ UNCHANGED <<conn_vars, taken, user_data, gil, queue_vars, python_vars>>

\* The lock is not released.
ReceiveDone_KeepsLock(c) ==
  /\ worker[c].at = "reading" /\ worker[c].next > worker[c].last
  /\ LET s == worker[c].stream
     IN  /\ read' = [read EXCEPT ![s] = worker[c].last]
         /\ user_data' = user_data \cup {s}
  /\ worker' = [worker EXCEPT ![c] = Idle]
  /\ UNCHANGED <<conn_vars, taken, has_error, lock, gil, queue_vars, python_vars>>

\* The buffer is read: set_stream_user_data, FlushStream, unlock.
ReceiveDone(c) ==
  /\ worker[c].at = "reading" /\ worker[c].next > worker[c].last
  /\ LET s == worker[c].stream
     IN  /\ read' = [read EXCEPT ![s] = worker[c].last]
         /\ user_data' = user_data \cup {s}
  /\ lock' = [lock EXCEPT ![c] = "none"]
  /\ worker' = [worker EXCEPT ![c] = Idle]
  /\ UNCHANGED <<conn_vars, taken, has_error, gil, queue_vars, python_vars>>

---------------------------------------------------------------------------
(***************************************************************************)
(* The event loop thread.  It holds the GIL except in select and while it  *)
(* sends.                                                                  *)
(***************************************************************************)
\* QuicServer_process_pending detaches the whole list.
ProcessPending ==
  /\ python = Select
  /\ wakeups > 0
  /\ wakeups' = wakeups - 1
  /\ gil' = "python"
  /\ batch' = pending
  /\ pending' = <<>>
  /\ python' = [at |-> "dispatch"]
  /\ UNCHANGED <<conn_vars, read_vars, worker, lock, dispatched, replies>>

Dispatch ==
  /\ python.at = "dispatch" /\ batch # <<>>
  /\ dispatched' = [dispatched EXCEPT ![Head(batch).stream] = Append(@, Head(batch).frame)]
  /\ batch' = Tail(batch)
  /\ UNCHANGED <<conn_vars, read_vars, worker, lock, gil, queue_vars, python, replies>>

\* The list is reset when its events have been handled.
PendingDone_ResetsList ==
  /\ python.at = "dispatch" /\ batch = <<>>
  /\ python' = Select
  /\ gil' = "none"
  /\ pending' = <<>>
  /\ UNCHANGED <<conn_vars, read_vars, worker, lock, wakeups, batch, dispatched, replies>>

PendingDone ==
  /\ python.at = "dispatch" /\ batch = <<>>
  /\ python' = Select
  /\ gil' = "none"
  /\ UNCHANGED <<conn_vars, read_vars, worker, lock, queue_vars, batch, dispatched, replies>>

HasApp(s) == dispatched[s] # <<>> /\ dispatched[s][1] = HEADERS

\* An application task, created by on_headers, calls send_headers/send_data.
Send(s) ==
  /\ python = Select
  /\ HasApp(s) /\ replies[s] < Replies
  /\ gil' = "python"
  /\ python' = [at |-> "send", stream |-> s]
  /\ UNCHANGED <<conn_vars, read_vars, worker, lock, queue_vars, batch, dispatched, replies>>

\* The lock is waited for with the GIL held.
BeginAllowThreads_KeepsGil ==
  /\ python.at = "send"
  /\ python' = [python EXCEPT !.at = "lock_wait"]
  /\ UNCHANGED <<conn_vars, read_vars, worker, lock, gil, queue_vars, batch, dispatched, replies>>

\* Py_BEGIN_ALLOW_THREADS.
BeginAllowThreads ==
  /\ python.at = "send"
  /\ gil' = "none"
  /\ python' = [python EXCEPT !.at = "lock_wait"]
  /\ UNCHANGED <<conn_vars, read_vars, worker, lock, queue_vars, batch, dispatched, replies>>

SendLock ==
  /\ python.at = "lock_wait"
  /\ lock[Conn(python.stream)] = "none"
  /\ lock' = [lock EXCEPT ![Conn(python.stream)] = "python"]
  /\ python' = [python EXCEPT !.at = "sending"]
  /\ UNCHANGED <<conn_vars, read_vars, worker, gil, queue_vars, batch, dispatched, replies>>

\* Submit or append, then FlushStream.  When nghttp3 offers it data of another
\* stream (the control and QPACK streams, or a request left over), GetStreamID
\* asks MsQuic which of the control streams it is.  One question stands for
\* those of all its rounds.
GetStreamID ==
  /\ python.at = "sending"
  /\ python' = [python EXCEPT !.at = "param_wait"]
  /\ UNCHANGED <<conn_vars, read_vars, worker, lock, gil, queue_vars, batch, dispatched, replies>>

\* MsQuic answers from the connection's worker, between two callbacks
\* (external: MsQuic->GetParam).
GetParam(c) ==
  /\ python.at = "param_wait" /\ Conn(python.stream) = c
  /\ worker[c] = Idle
  /\ python' = [python EXCEPT !.at = "flushed"]
  /\ UNCHANGED <<conn_vars, read_vars, worker, lock, gil, queue_vars, batch, dispatched, replies>>

\* The end of FlushStream, unlock.
SendUnlock ==
  /\ python.at \in {"sending", "flushed"}
  /\ lock' = [lock EXCEPT ![Conn(python.stream)] = "none"]
  /\ replies' = [replies EXCEPT ![python.stream] = @ + 1]
  /\ python' = [python EXCEPT !.at = "gil_wait"]
  /\ UNCHANGED <<conn_vars, read_vars, worker, gil, queue_vars, batch, dispatched>>

\* Py_END_ALLOW_THREADS, and back to the event loop.
EndAllowThreads ==
  /\ python.at = "gil_wait"
  /\ python' = Select
  /\ gil' = "none"
  /\ UNCHANGED <<conn_vars, read_vars, worker, lock, queue_vars, batch, dispatched, replies>>

ReadStep(c) ==
  PushEvent(c) \/ SkipEvent(c) \/ WakePython(c) \/ ReadFails(c) \/ ReceiveDone(c)

WorkerStep(c) == ReadStep(c) \/ GetParam(c)

PythonStep ==
  \/ ProcessPending
  \/ Dispatch
  \/ PendingDone
  \/ BeginAllowThreads
  \/ SendLock
  \/ GetStreamID
  \/ SendUnlock
  \/ EndAllowThreads

Next ==
  \/ \E c \in Conns : FinalizeHttp3Setup(c) \/ WorkerBlocks(c) \/ WorkerStep(c)
  \/ \E s \in Streams :
       \/ PeerStreamStarted(s)
       \/ \E n \in Frame : ReceiveDeferred(s, n) \/ ReceiveFailed(s, n) \/ Receive(s, n)
       \/ Send(s)
  \/ PythonStep

Spec == Init /\ [][Next]_vars

\* Threads that can run do, and an idle worker answers the question that was
\* queued to it, unless it begins a callback first.  Nothing is assumed of the client, of the
\* application, or of when the three server streams start.
FairSpec ==
  /\ Spec
  /\ \A c \in Conns : WF_vars(WorkerStep(c))
  /\ WF_vars(PythonStep)

---------------------------------------------------------------------------
\* The array ctx->streams has MaxStreams slots for requests.
TypeOK ==
  /\ is_ready \subseteq Conns
  /\ streams \subseteq opened
  /\ \A c \in Conns : IsFiniteSet(Registered(c)) /\ Cardinality(Registered(c)) <= MaxStreams
  /\ opened \subseteq Streams
  /\ disabled \subseteq opened
  /\ taken \in [Streams -> 0..Frames]
  /\ read \in [Streams -> 0..Frames]
  /\ user_data \subseteq Streams
  /\ has_error \subseteq Streams
  /\ worker \in [Conns -> WorkerState]
  /\ lock \in [Conns -> {"none", "worker", "python"}]
  /\ gil \in {"none", "python"}
  /\ pending \in Seq(Event)
  /\ wakeups \in Nat
  /\ python \in PythonState
  /\ batch \in Seq(Event)
  /\ dispatched \in [Streams -> Seq(Frame)]
  /\ replies \in [Streams -> Nat]

\* No lost wakeup: an event in the list has a process_pending call coming for
\* it, scheduled or about to be, whichever thread looked at the list first.
WakeupComing == pending # <<>> => wakeups > 0 \/ \E c \in Conns : worker[c].at = "waking"

\* Events on their way to Python, and where those of a stream are among them.
Line == batch \o pending
Places(s) == {i \in DOMAIN Line : Line[i].stream = s}

FirstPlace(s, j) == \A k \in Places(s) : j <= k
NextPlace(s, i, j) == i < j /\ \A k \in Places(s) : k <= i \/ j <= k

\* Workers and the event loop share one list, yet Python sees each request as
\* it was sent: from its headers on, in order, no frame missing or repeated.
\* (A stream that found no slot in the table misses its headers.)
StreamOrder ==
  \A s \in Streams :
    LET given == dispatched[s]
    IN  /\ \A i \in DOMAIN given : i > 1 => given[i] = given[i - 1] + 1
        /\ \A j \in Places(s) :
             /\ \A i \in Places(s) : NextPlace(s, i, j) => Line[j].frame = Line[i].frame + 1
             /\ FirstPlace(s, j) /\ given # <<>> => Line[j].frame = given[Len(given)] + 1
             /\ FirstPlace(s, j) /\ given = <<>> /\ s \in streams => Line[j].frame = HEADERS
        /\ s \in streams /\ given # <<>> => given[1] = HEADERS

Flushing == python.at \in {"sending", "param_wait", "flushed"}

\* Whoever reads or writes the nghttp3 state of a connection holds its lock,
\* and never two at once.
LockHeld ==
  \A c \in Conns :
    /\ worker[c].at \in {"reading", "waking"} <=> lock[c] = "worker"
    /\ (Flushing /\ Conn(python.stream) = c) <=> lock[c] = "python"

\* The two threads wait for each other: a send holds ctx->lock and waits for
\* the worker's answer, the worker is in a callback and waits for ctx->lock.
\* From here the event loop thread, and with it the server, never moves again.
Deadlocked == python.at = "param_wait" /\ worker[Conn(python.stream)] = Blocked

\* That cycle is the only one; none runs through the GIL.  When the clients
\* pause, every event that was pushed has reached Python, or the server hangs
\* in FlushStream's question to MsQuic (bound: clients pause at Frames).
EventsArrive == pending # <<>> ~> (pending = <<>> /\ batch = <<>>) \/ Deadlocked

\* ... and a send returns, or hangs there.
SendReturns == python.at = "send" ~> python.at = "select" \/ Deadlocked

---------------------------------------------------------------------------
\* "tell MsQuic to hold the data and retry later" (cquic.c): between callbacks,
\* what MsQuic handed over has been read.
DeferredIsKept ==
  \A s \in Streams : worker[Conn(s)] \in {Idle, Blocked} /\ s \notin has_error => read[s] = taken[s]
===========================================================================
