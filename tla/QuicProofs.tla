---------------------------- MODULE QuicProofs ----------------------------
(***************************************************************************)
(* Theorems about Quic, for any number of connections, streams and frames. *)
(***************************************************************************)
EXTENDS Quic, FiniteSetTheorems, SequenceTheorems, TLAPS

\* A worker that is about to wake Python has just pushed a frame of its buffer.
WakingInside ==
  \A c \in Conns : worker[c].at = "waking" => worker[c].next <= worker[c].last

\* The strengthening of the run's invariants that is inductive.
IInv == TypeOK /\ WakingInside /\ WakeupComing /\ LockHeld

(***************************************************************************)
(* Initially nothing is registered, pending or locked.                     *)
(***************************************************************************)
LEMMA InitIInv == Init => IInv
<1> USE QuicAssumption
<1> SUFFICES ASSUME Init PROVE IInv
  OBVIOUS
<1>1. ASSUME NEW c \in Conns
      PROVE  IsFiniteSet(Registered(c)) /\ Cardinality(Registered(c)) <= MaxStreams
  <2>1. Registered(c) = {}
    BY DEF Init, Registered
  <2> QED
    BY <2>1, FS_EmptySet
<1>2. TypeOK
  BY <1>1 DEF Init, TypeOK, Idle, Select, WorkerState, PythonState, Event
<1>3. WakingInside /\ WakeupComing /\ LockHeld
  BY DEF Init, WakingInside, WakeupComing, LockHeld, Flushing, Idle, Select
<1> QED
  BY <1>2, <1>3 DEF IInv

(***************************************************************************)
(* The worker of c begins to wait for the lock, or ends a callback that    *)
(* read nothing.                                                           *)
(***************************************************************************)
Quiet(c) ==
  /\ worker[c] \in {Idle, Blocked}
  /\ worker' = [worker EXCEPT ![c] = Idle] \/ worker' = [worker EXCEPT ![c] = Blocked]

LEMMA QuietWorkers ==
  ASSUME IInv, NEW c \in Conns, Quiet(c), UNCHANGED <<lock, pending, wakeups, python>>
  PROVE  /\ worker' \in [Conns -> WorkerState]
         /\ WakingInside' /\ WakeupComing' /\ LockHeld'
<1>1. worker \in [Conns -> WorkerState]
  BY DEF IInv, TypeOK
<1>2. worker' \in [Conns -> WorkerState]
  BY <1>1 DEF Quiet, WorkerState
<1>3. \A d \in Conns : worker'[d] = worker[d] \/ (d = c /\ worker'[d] \in {Idle, Blocked})
  BY <1>1 DEF Quiet
<1>4. worker[c] \in {Idle, Blocked}
  BY DEF Quiet
<1>5. WakingInside' /\ WakeupComing' /\ LockHeld'
  BY <1>3, <1>4 DEF IInv, WakingInside, WakeupComing, LockHeld, Flushing, Idle, Blocked
<1> QED
  BY <1>2, <1>5

(***************************************************************************)
(* PEER_STREAM_STARTED never writes past the end of the table.             *)
(***************************************************************************)
LEMMA PeerStreamStartedIInv ==
  ASSUME IInv, NEW s \in Streams, PeerStreamStarted(s)
  PROVE  IInv'
<1> USE QuicAssumption
<1>0. Conn(s) \in Conns
  BY DEF Conn
<1>1. /\ UNCHANGED <<is_ready, disabled, read_vars, lock, gil, queue_vars, python_vars>>
      /\ Quiet(Conn(s))
      /\ opened' = opened \cup {s}
      /\ streams' = IF Cardinality(Registered(Conn(s))) < MaxStreams
                    THEN streams \cup {s} ELSE streams
  BY DEF PeerStreamStarted, Callback, Quiet
<1>2. ASSUME NEW c \in Conns
      PROVE  /\ IsFiniteSet(Registered(c)')
             /\ Cardinality(Registered(c)') <= MaxStreams
  <2>1. IsFiniteSet(Registered(c)) /\ Cardinality(Registered(c)) <= MaxStreams
    BY DEF IInv, TypeOK
  <2>2. Cardinality(Registered(c)) \in Nat
    BY <2>1, FS_CardinalityType
  <2>3. CASE Registered(c)' = Registered(c)
    BY <2>1, <2>3
  <2>4. CASE Registered(c)' # Registered(c)
    <3>1. /\ Registered(c)' = Registered(c) \cup {s}
          /\ Cardinality(Registered(c)) < MaxStreams
      BY <1>1, <2>4 DEF Registered
    <3>2. /\ IsFiniteSet(Registered(c) \cup {s})
          /\ \/ Cardinality(Registered(c) \cup {s}) = Cardinality(Registered(c))
             \/ Cardinality(Registered(c) \cup {s}) = Cardinality(Registered(c)) + 1
      BY <2>1, FS_AddElement
    <3> QED
      BY <2>2, <3>1, <3>2
  <2> QED
    BY <2>3, <2>4
<1>3. TypeOK'
  BY <1>0, <1>1, <1>2, QuietWorkers DEF IInv, TypeOK, read_vars, queue_vars, python_vars
<1>4. WakingInside' /\ WakeupComing' /\ LockHeld'
  BY <1>0, <1>1, QuietWorkers DEF queue_vars, python_vars
<1> QED
  BY <1>3, <1>4 DEF IInv

(***************************************************************************)
(* The other callbacks of a worker that do not read frames.                *)
(***************************************************************************)
LEMMA CallbackIInv ==
  ASSUME IInv,
         \/ \E c \in Conns : FinalizeHttp3Setup(c) \/ WorkerBlocks(c)
         \/ \E s \in Streams, n \in Frame : ReceiveDeferred(s, n) \/ ReceiveFailed(s, n)
  PROVE  IInv'
<1> USE QuicAssumption
<1> DEFINE CallbackFrame ==
      /\ UNCHANGED <<streams, opened, read, user_data, lock, gil, queue_vars, python_vars>>
      /\ \E c \in Conns : Quiet(c)
      /\ is_ready' \subseteq Conns
      /\ disabled' \subseteq opened
      /\ has_error' \subseteq Streams
      /\ taken' \in [Streams -> 0..Frames]
<1>1. CallbackFrame
  <2>1. ASSUME NEW c \in Conns, FinalizeHttp3Setup(c) PROVE CallbackFrame
    BY <2>1 DEF FinalizeHttp3Setup, Callback, Quiet, IInv, TypeOK, read_vars
  <2>4. ASSUME NEW c \in Conns, WorkerBlocks(c) PROVE CallbackFrame
    BY <2>4 DEF WorkerBlocks, Quiet, IInv, TypeOK, conn_vars, read_vars
  <2>5. \A s \in Streams : Conn(s) \in Conns
    BY DEF Conn
  <2>2. ASSUME NEW s \in Streams, NEW n \in Frame, ReceiveDeferred(s, n) PROVE CallbackFrame
    <3>1. Conn(s) \in Conns /\ Quiet(Conn(s))
      BY <2>2, <2>5 DEF ReceiveDeferred, Indicate, Callback, Quiet
    <3>2. taken' \in [Streams -> 0..Frames]
      BY <2>2 DEF ReceiveDeferred, Indicate, IInv, TypeOK, Frame
    <3> QED
      BY <2>2, <3>1, <3>2 DEF ReceiveDeferred, Indicate, IInv, TypeOK
  <2>3. ASSUME NEW s \in Streams, NEW n \in Frame, ReceiveFailed(s, n) PROVE CallbackFrame
    <3>1. Conn(s) \in Conns /\ Quiet(Conn(s))
      BY <2>3, <2>5 DEF ReceiveFailed, Indicate, Callback, Quiet
    <3>2. taken' \in [Streams -> 0..Frames]
      BY <2>3 DEF ReceiveFailed, Indicate, IInv, TypeOK, Frame
    <3> QED
      BY <2>3, <3>1, <3>2 DEF ReceiveFailed, Indicate, IInv, TypeOK, conn_vars
  <2> QED
    BY <2>1, <2>2, <2>3, <2>4
<1>2. \A c \in Conns : Registered(c)' = Registered(c)
  BY <1>1 DEF Registered
<1>3. worker' \in [Conns -> WorkerState] /\ WakingInside' /\ WakeupComing' /\ LockHeld'
  BY <1>1, QuietWorkers DEF queue_vars, python_vars
<1>4. TypeOK'
  BY <1>1, <1>2, <1>3 DEF IInv, TypeOK, queue_vars, python_vars
<1> QED
  BY <1>3, <1>4 DEF IInv

(***************************************************************************)
(* RECEIVE takes the lock of its connection, and only its last step gives  *)
(* it back.                                                                *)
(***************************************************************************)
LEMMA ReceiveIInv ==
  ASSUME IInv, NEW s \in Streams, NEW n \in Frame, Receive(s, n)
  PROVE  IInv'
<1> USE QuicAssumption DEF Frame
<1>0. Conn(s) \in Conns
  BY DEF Conn
<1>1. /\ worker[Conn(s)] \in {Idle, Blocked} /\ lock[Conn(s)] = "none"
      /\ taken[s] + n <= Frames /\ read[s] = taken[s]
      /\ taken' = [taken EXCEPT ![s] = @ + n]
      /\ lock' = [lock EXCEPT ![Conn(s)] = "worker"]
      /\ worker' = [worker EXCEPT ![Conn(s)] =
           [at |-> "reading", stream |-> s, next |-> read[s] + 1, last |-> read[s] + n]]
      /\ UNCHANGED <<conn_vars, read, user_data, has_error, gil, queue_vars, python_vars>>
  BY DEF Receive, Indicate, Callback
<1>2. read[s] + n \in Frame /\ read[s] + 1 \in 1..Frames+1
  BY <1>1 DEF IInv, TypeOK
<1>3. worker' \in [Conns -> WorkerState] /\ lock' \in [Conns -> {"none", "worker", "python"}]
  BY <1>0, <1>1, <1>2 DEF IInv, TypeOK, WorkerState
<1>4. taken' \in [Streams -> 0..Frames]
  BY <1>1 DEF IInv, TypeOK
<1>5. \A c \in Conns : Registered(c)' = Registered(c)
  BY <1>1 DEF Registered, conn_vars
<1>6. TypeOK'
  BY <1>1, <1>3, <1>4, <1>5, SMTT(30) DEF IInv, TypeOK, conn_vars, queue_vars, python_vars
<1>7. WakingInside' /\ WakeupComing'
  BY <1>0, <1>1 DEF IInv, TypeOK, WakingInside, WakeupComing, queue_vars, Idle, Blocked
<1>8. LockHeld'
  BY <1>0, <1>1 DEF IInv, TypeOK, LockHeld, Flushing, python_vars, Idle, Blocked
<1> QED
  BY <1>6, <1>7, <1>8 DEF IInv

(***************************************************************************)
(* Reading a buffer: push, wake Python, next frame, done.                  *)
(***************************************************************************)
LEMMA WorkerIInv ==
  ASSUME IInv, NEW c \in Conns, ReadStep(c)
  PROVE  IInv'
<1> USE QuicAssumption DEF Frame
<1>1. worker[c] \in WorkerState /\ worker[c].at \in {"reading", "waking"}
  BY DEF IInv, TypeOK, ReadStep, PushEvent, SkipEvent, WakePython, ReadFails, ReceiveDone, Reading
<1>2. /\ worker[c] \in [at : {"reading", "waking"}, stream : Streams,
                        next : 1..Frames+1, last : 1..Frames]
      /\ lock[c] = "worker"
  BY <1>1 DEF WorkerState, Idle, Blocked, IInv, LockHeld
<1>3. UNCHANGED <<conn_vars, gil, python_vars>>
  BY DEF ReadStep, PushEvent, SkipEvent, WakePython, ReadFails, ReceiveDone
<1>4. \A d \in Conns : Registered(d)' = Registered(d)
  BY <1>3 DEF Registered, conn_vars
<1>5. CASE PushEvent(c)
  <2>1. /\ worker' = [worker EXCEPT ![c].at = "waking"]
        /\ pending' = Append(pending, [stream |-> worker[c].stream, frame |-> worker[c].next])
        /\ worker[c].next <= worker[c].last
        /\ UNCHANGED <<read_vars, lock, wakeups>>
    BY <1>5 DEF PushEvent, Reading
  <2>2. pending' \in Seq(Event)
    BY <1>2, <2>1 DEF IInv, TypeOK, Event
  <2>3. worker' \in [Conns -> WorkerState]
    BY <1>2, <2>1 DEF IInv, TypeOK, WorkerState
  <2>4. TypeOK'
    BY <1>3, <1>4, <2>1, <2>2, <2>3 DEF IInv, TypeOK, conn_vars, read_vars, python_vars
  <2>5. /\ worker'[c].at = "waking"
        /\ worker'[c].next = worker[c].next /\ worker'[c].last = worker[c].last
        /\ \A d \in Conns \ {c} : worker'[d] = worker[d]
    BY <1>2, <2>1 DEF IInv, TypeOK
  <2>6. WakingInside' /\ WakeupComing' /\ LockHeld'
    BY <1>2, <1>3, <2>1, <2>5 DEF IInv, WakingInside, WakeupComing, LockHeld, Flushing, python_vars
  <2> QED
    BY <2>4, <2>6 DEF IInv
<1>6. CASE SkipEvent(c) \/ WakePython(c)
  <2> DEFINE w == [at |-> "reading", stream |-> worker[c].stream,
                   next |-> worker[c].next + 1, last |-> worker[c].last]
  <2>1. worker[c].next <= worker[c].last
    BY <1>6 DEF SkipEvent, WakePython, Reading, IInv, WakingInside
  <2>2. worker' = [worker EXCEPT ![c] = w]
    <3>1. CASE SkipEvent(c)
      <4>1. worker[c].at = "reading" /\ worker' = [worker EXCEPT ![c].next = @ + 1]
        BY <3>1 DEF SkipEvent, Reading
      <4>2. [worker[c] EXCEPT !.next = @ + 1] = w
        BY <1>2, <4>1
      <4> QED
        BY <4>1, <4>2
    <3>2. CASE WakePython(c)
      <4>1. worker' = [worker EXCEPT ![c].at = "reading", ![c].next = @ + 1]
        BY <3>2 DEF WakePython
      <4> DEFINE u == [worker[c] EXCEPT !.at = "reading"]
      <4>2. u = [at |-> "reading", stream |-> worker[c].stream,
                 next |-> worker[c].next, last |-> worker[c].last]
        BY <1>2
      <4>3. worker' = [[worker EXCEPT ![c] = u] EXCEPT ![c] = [u EXCEPT !.next = u.next + 1]]
        BY <4>1 DEF IInv, TypeOK
      <4> HIDE DEF u
      <4>4. [u EXCEPT !.next = u.next + 1] = w
        BY <4>2
      <4> HIDE DEF w
      <4> QED
        BY <4>3, <4>4 DEF IInv, TypeOK
    <3> QED
      BY <1>6, <3>1, <3>2
  <2>3. UNCHANGED <<read_vars, lock, pending>>
    BY <1>6 DEF SkipEvent, WakePython, queue_vars
  <2>4. wakeups' \in Nat /\ wakeups' >= wakeups /\ (worker[c].at = "waking" => wakeups' > 0)
    <3>1. wakeups \in Nat
      BY DEF IInv, TypeOK
    <3>2. wakeups' = wakeups + 1 \/ (worker[c].at = "reading" /\ wakeups' = wakeups)
      BY <1>6 DEF SkipEvent, WakePython, Reading, queue_vars
    <3> QED
      BY <3>1, <3>2
  <2>5. worker' \in [Conns -> WorkerState]
    <3>1. w \in WorkerState
      BY <1>2, <2>1 DEF WorkerState
    <3> HIDE DEF w
    <3> QED
      BY <2>2, <3>1 DEF IInv, TypeOK
  <2>6. TypeOK'
    BY <1>3, <1>4, <2>2, <2>3, <2>4, <2>5 DEF IInv, TypeOK, conn_vars, read_vars, python_vars
  <2>7. worker'[c].at = "reading" /\ \A d \in Conns \ {c} : worker'[d] = worker[d]
    BY <1>2, <2>2 DEF IInv, TypeOK
  <2>8. WakingInside' /\ LockHeld'
    BY <1>2, <1>3, <2>2, <2>3, <2>4, <2>7 DEF IInv, WakingInside, LockHeld, Flushing, python_vars
  <2>9. WakeupComing'
    BY <2>2, <2>3, <2>4, <2>7 DEF IInv, TypeOK, WakeupComing
  <2> QED
    BY <2>6, <2>8, <2>9 DEF IInv
<1>7. CASE ReadFails(c) \/ ReceiveDone(c)
  <2>1. /\ worker[c].at = "reading"
        /\ \/ read' = [read EXCEPT ![worker[c].stream] = worker[c].last]
           \/ read' = [read EXCEPT ![worker[c].stream] = worker[c].next - 1]
        /\ user_data' \subseteq user_data \cup {worker[c].stream}
        /\ has_error' \subseteq has_error \cup {worker[c].stream}
        /\ lock' = [lock EXCEPT ![c] = "none"]
        /\ worker' = [worker EXCEPT ![c] = Idle]
        /\ UNCHANGED <<taken, queue_vars>>
    BY <1>7 DEF ReadFails, ReceiveDone, Reading
  <2>2. /\ read' \in [Streams -> 0..Frames] /\ user_data' \subseteq Streams
        /\ has_error' \subseteq Streams
        /\ worker' \in [Conns -> WorkerState]
        /\ lock' \in [Conns -> {"none", "worker", "python"}]
    <3>1. worker[c].stream \in Streams /\ worker[c].last \in 0..Frames
         /\ worker[c].next - 1 \in 0..Frames
      BY <1>2
    <3>2. Idle \in WorkerState
      BY DEF WorkerState
    <3> QED
      BY <2>1, <3>1, <3>2 DEF IInv, TypeOK
  <2>3. TypeOK'
    <3>1. UNCHANGED <<taken, pending, wakeups, gil, is_ready, opened, disabled,
                      streams, python, batch, dispatched, replies>>
      BY <1>3, <2>1 DEF conn_vars, queue_vars, python_vars
    <3> QED
      BY <1>4, <2>2, <3>1 DEF IInv, TypeOK
  <2>4. worker'[c] = Idle /\ \A d \in Conns \ {c} : worker'[d] = worker[d]
    BY <2>1 DEF IInv, TypeOK
  <2>5. WakingInside' /\ WakeupComing'
    BY <2>1, <2>4 DEF IInv, WakingInside, WakeupComing, queue_vars, Idle
  <2>6. LockHeld'
    BY <1>2, <1>3, <2>1, <2>4 DEF IInv, TypeOK, LockHeld, Flushing, python_vars, Idle
  <2> QED
    BY <2>3, <2>5, <2>6 DEF IInv
<1> QED
  BY <1>5, <1>6, <1>7 DEF ReadStep

(***************************************************************************)
(* The event loop thread.                                                  *)
(***************************************************************************)
LEMMA DispatchIInv ==
  ASSUME IInv, ProcessPending \/ Dispatch \/ PendingDone
  PROVE  IInv'
<1> USE QuicAssumption
<1>1. UNCHANGED <<conn_vars, read_vars, worker, lock, replies>>
  BY DEF ProcessPending, Dispatch, PendingDone
<1>2. \A c \in Conns : Registered(c)' = Registered(c)
  BY <1>1 DEF Registered, conn_vars
<1>3. /\ pending' \in Seq(Event)
      /\ wakeups' \in Nat
      /\ python' \in PythonState /\ ~Flushing'
      /\ gil' \in {"none", "python"}
      /\ batch' \in Seq(Event)
      /\ ~Flushing
  <2>1. CASE ProcessPending
    BY <2>1 DEF ProcessPending, IInv, TypeOK, PythonState, Select, Flushing
  <2>2. CASE Dispatch
    BY <2>2 DEF Dispatch, queue_vars, IInv, TypeOK, Flushing
  <2>3. CASE PendingDone
    BY <2>3 DEF PendingDone, queue_vars, IInv, TypeOK, PythonState, Select, Flushing
  <2> QED
    BY <2>1, <2>2, <2>3
<1>4. dispatched' \in [Streams -> Seq(Frame)]
  <2>1. CASE Dispatch
    <3>1. Head(batch) \in Event
      BY <2>1 DEF Dispatch, IInv, TypeOK
    <3>2. Head(batch).stream \in Streams /\ Head(batch).frame \in Frame
      BY <3>1 DEF Event
    <3> QED
      BY <2>1, <3>2 DEF Dispatch, IInv, TypeOK
  <2> QED
    BY <2>1 DEF ProcessPending, PendingDone, IInv, TypeOK
<1>5. pending' = <<>> \/ UNCHANGED <<pending, wakeups>>
  BY DEF ProcessPending, Dispatch, PendingDone, queue_vars
<1>6. TypeOK'
  BY <1>1, <1>2, <1>3, <1>4 DEF IInv, TypeOK, conn_vars, read_vars
<1>7. WakingInside' /\ WakeupComing' /\ LockHeld'
  BY <1>1, <1>3, <1>5 DEF IInv, WakingInside, WakeupComing, LockHeld
<1> QED
  BY <1>6, <1>7 DEF IInv

(***************************************************************************)
(* A send: the lock is taken without the GIL and given back before the GIL *)
(* is taken again.                                                         *)
(***************************************************************************)
LEMMA SendIInv ==
  ASSUME IInv,
         \/ \E s \in Streams : Send(s)
         \/ \E c \in Conns : GetParam(c)
         \/ BeginAllowThreads \/ SendLock \/ GetStreamID \/ SendUnlock \/ EndAllowThreads
  PROVE  IInv'
<1> USE QuicAssumption
<1>1. UNCHANGED <<conn_vars, read_vars, worker, queue_vars, batch, dispatched>>
  BY DEF Send, BeginAllowThreads, SendLock, GetStreamID, GetParam, SendUnlock, EndAllowThreads
<1>2. \A c \in Conns : Registered(c)' = Registered(c)
  BY <1>1 DEF Registered, conn_vars
<1>3. ASSUME UNCHANGED lock, UNCHANGED replies, python' \in PythonState,
             ~Flushing, ~Flushing', gil' \in {"none", "python"}
      PROVE  IInv'
  <2>1. TypeOK'
    BY <1>1, <1>2, <1>3 DEF IInv, TypeOK, conn_vars, read_vars, queue_vars
  <2>2. WakingInside' /\ WakeupComing' /\ LockHeld'
    BY <1>1, <1>3 DEF IInv, WakingInside, WakeupComing, LockHeld, queue_vars
  <2> QED
    BY <2>1, <2>2 DEF IInv
<1>4. ASSUME NEW s \in Streams, Send(s) PROVE IInv'
  BY <1>3, <1>4 DEF Send, PythonState, Select, Flushing
<1>5. CASE BeginAllowThreads
  <2>1. python' \in PythonState /\ python'.at = "lock_wait"
    BY <1>5 DEF BeginAllowThreads, IInv, TypeOK, PythonState
  <2> QED
    BY <1>3, <1>5, <2>1 DEF BeginAllowThreads, Flushing
<1>6. CASE EndAllowThreads
  BY <1>3, <1>6 DEF EndAllowThreads, PythonState, Select, Flushing
<1>7. ASSUME python.at = "lock_wait" \/ Flushing
      PROVE  python.stream \in Streams /\ Conn(python.stream) \in Conns
  BY <1>7 DEF IInv, TypeOK, PythonState, Conn, Flushing
<1>8. CASE SendLock
  <2>1. /\ python.at = "lock_wait" /\ lock[Conn(python.stream)] = "none"
        /\ lock' = [lock EXCEPT ![Conn(python.stream)] = "python"]
        /\ UNCHANGED <<gil, replies>>
    BY <1>8 DEF SendLock
  <2>2. python' \in PythonState /\ python'.at = "sending" /\ python'.stream = python.stream
    BY <1>8 DEF SendLock, IInv, TypeOK, PythonState
  <2>3. TypeOK'
    BY <1>1, <1>2, <2>1, <2>2 DEF IInv, TypeOK, conn_vars, read_vars, queue_vars
  <2>4. WakingInside' /\ WakeupComing'
    BY <1>1 DEF IInv, WakingInside, WakeupComing, queue_vars
  <2>5. LockHeld'
    BY <1>1, <1>7, <2>1, <2>2, SMTT(30) DEF IInv, TypeOK, LockHeld, Flushing
  <2> QED
    BY <2>3, <2>4, <2>5 DEF IInv
<1>9. CASE SendUnlock
  <2>1. /\ Flushing
        /\ lock' = [lock EXCEPT ![Conn(python.stream)] = "none"]
        /\ replies' = [replies EXCEPT ![python.stream] = @ + 1]
        /\ UNCHANGED gil
    BY <1>9 DEF SendUnlock, Flushing
  <2>2. python' \in PythonState /\ python'.at = "gil_wait"
    BY <1>9 DEF SendUnlock, IInv, TypeOK, PythonState
  <2>3. replies' \in [Streams -> Nat]
    BY <1>7, <2>1, SMTT(30) DEF IInv, TypeOK
  <2>4. TypeOK'
    BY <1>1, <1>2, <2>1, <2>2, <2>3 DEF IInv, TypeOK, conn_vars, read_vars, queue_vars
  <2>5. WakingInside' /\ WakeupComing'
    BY <1>1 DEF IInv, WakingInside, WakeupComing, queue_vars
  <2>6. LockHeld'
    BY <1>1, <1>7, <2>1, <2>2 DEF IInv, TypeOK, LockHeld, Flushing
  <2> QED
    BY <2>4, <2>5, <2>6 DEF IInv
<1>10. CASE GetStreamID \/ \E c \in Conns : GetParam(c)
  <2>1. /\ python' \in PythonState /\ python'.stream = python.stream
        /\ Flushing /\ Flushing' /\ UNCHANGED <<lock, gil, replies>>
    BY <1>10 DEF GetStreamID, GetParam, IInv, TypeOK, PythonState, Flushing
  <2>2. TypeOK'
    BY <1>1, <1>2, <2>1 DEF IInv, TypeOK, conn_vars, read_vars, queue_vars
  <2>3. WakingInside' /\ WakeupComing' /\ LockHeld'
    BY <1>1, <2>1 DEF IInv, WakingInside, WakeupComing, LockHeld, queue_vars
  <2> QED
    BY <2>2, <2>3 DEF IInv
<1> QED
  BY <1>4, <1>5, <1>6, <1>8, <1>9, <1>10

(***************************************************************************)
(* The invariant holds in every state, for any number of connections.      *)
(***************************************************************************)
THEOREM Inductive == Spec => []IInv
<1>1. IInv /\ [Next]_vars => IInv'
  <2> SUFFICES ASSUME IInv, [Next]_vars PROVE IInv'
    OBVIOUS
  <2>1. ASSUME NEW c \in Conns, FinalizeHttp3Setup(c) \/ WorkerBlocks(c) \/ WorkerStep(c)
        PROVE  IInv'
    BY <2>1, CallbackIInv, WorkerIInv, SendIInv DEF WorkerStep
  <2>2. ASSUME NEW s \in Streams, PeerStreamStarted(s) PROVE IInv'
    BY <2>2, PeerStreamStartedIInv
  <2>3. ASSUME NEW s \in Streams, NEW n \in Frame,
               ReceiveDeferred(s, n) \/ ReceiveFailed(s, n) \/ Receive(s, n)
        PROVE  IInv'
    BY <2>3, CallbackIInv, ReceiveIInv
  <2>4. CASE (\E s \in Streams : Send(s)) \/ PythonStep
    BY <2>4, DispatchIInv, SendIInv DEF PythonStep
  <2>5. CASE UNCHANGED vars
    <3>1. \A c \in Conns : Registered(c)' = Registered(c)
      BY <2>5 DEF vars, conn_vars, Registered
    <3> QED
      BY <2>5, <3>1 DEF vars, conn_vars, read_vars, queue_vars, python_vars, IInv,
         TypeOK, WakingInside, WakeupComing, LockHeld, Flushing
  <2> QED
    BY <2>1, <2>2, <2>3, <2>4, <2>5 DEF Next
<1> QED
  BY <1>1, InitIInv, PTL DEF Spec

(***************************************************************************)
(* Types, and the fixed size of the table of streams: no connection        *)
(* registers more request streams than it has slots for.                   *)
(***************************************************************************)
THEOREM TypeCorrect == Spec => []TypeOK
BY Inductive, PTL DEF IInv

(***************************************************************************)
(* PushEvent and process_pending never lose a wakeup, however many workers *)
(* push while Python empties the list.                                     *)
(***************************************************************************)
THEOREM NoLostWakeup == Spec => []WakeupComing
BY Inductive, PTL DEF IInv

(***************************************************************************)
(* A connection's nghttp3 state is used by one thread at a time.           *)
(***************************************************************************)
THEOREM LockDiscipline == Spec => []LockHeld
BY Inductive, PTL DEF IInv
---------------------------------------------------------------------------
(***************************************************************************)
(* The order of the events of one stream, for any line of events L, frames *)
(* given to Python, and last frame that was pushed.                        *)
(***************************************************************************)
At(L, s) == {i \in 1..Len(L) : L[i].stream = s}

Neighbours(L, s) ==
  \A i, j \in At(L, s) :
    i < j /\ (\A k \in At(L, s) : k <= i \/ j <= k) => L[j].frame = L[i].frame + 1

Ordered(L, s, given, registered, last) ==
  /\ \A i \in 1..Len(given) : i > 1 => given[i] = given[i - 1] + 1
  /\ Neighbours(L, s)
  /\ \A j \in At(L, s) : (\A k \in At(L, s) : j <= k) =>
       /\ given # <<>> => L[j].frame = given[Len(given)] + 1
       /\ given = <<>> /\ registered => L[j].frame = HEADERS
  /\ registered /\ given # <<>> => given[1] = HEADERS
  /\ \A j \in At(L, s) : (\A k \in At(L, s) : k <= j) => L[j].frame = last
  /\ At(L, s) = {} /\ given # <<>> => given[Len(given)] = last
  /\ At(L, s) = {} /\ given = <<>> /\ registered => last = 0

\* The next frame of the stream joins the line.
LEMMA OrderedPush ==
  ASSUME NEW L \in Seq(Event), NEW s, NEW given \in Seq(Frame), NEW registered,
         NEW last \in Nat, Ordered(L, s, given, registered, last),
         NEW e \in Event, e.stream = s, e.frame = last + 1
  PROVE  Ordered(Append(L, e), s, given, registered, last + 1)
<1> DEFINE M == Append(L, e)
           n == Len(L)
<1>1. /\ n \in Nat /\ Len(M) = n + 1 /\ M[n + 1] = e
      /\ \A i \in 1..n : M[i] = L[i]
  OBVIOUS
<1> HIDE DEF M, n
<1>2. At(M, s) = At(L, s) \cup {n + 1} /\ \A i \in At(L, s) : i \in 1..n /\ M[i] = L[i]
  BY <1>1 DEF At, n
<1>3. \A i, j \in At(M, s) :
        i < j /\ (\A k \in At(M, s) : k <= i \/ j <= k) => M[j].frame = M[i].frame + 1
  <2> SUFFICES ASSUME NEW i \in At(M, s), NEW j \in At(M, s), i < j,
                      \A k \in At(M, s) : k <= i \/ j <= k
               PROVE  M[j].frame = M[i].frame + 1
    OBVIOUS
  <2>1. i \in At(L, s) /\ i \in 1..n
    BY <1>1, <1>2
  <2>2. CASE j = n + 1
    <3>1. \A k \in At(L, s) : k <= i
      BY <1>1, <1>2, <2>2
    <3>2. L[i].frame = last
      BY <2>1, <3>1 DEF Ordered, Neighbours
    <3> QED BY <1>1, <2>1, <2>2, <3>2
  <2>3. CASE j \in At(L, s)
    <3>1. \A k \in At(L, s) : k <= i \/ j <= k
      BY <1>2
    <3>2. L[j].frame = L[i].frame + 1
      BY <2>1, <2>3, <3>1 DEF Ordered, Neighbours
    <3> QED BY <1>2, <2>1, <2>3, <3>2
  <2> QED BY <1>2, <2>2, <2>3
<1>4. \A j \in At(M, s) : (\A k \in At(M, s) : j <= k) =>
        /\ given # <<>> => M[j].frame = given[Len(given)] + 1
        /\ given = <<>> /\ registered => M[j].frame = HEADERS
  <2> SUFFICES ASSUME NEW j \in At(M, s), \A k \in At(M, s) : j <= k
               PROVE  /\ given # <<>> => M[j].frame = given[Len(given)] + 1
                      /\ given = <<>> /\ registered => M[j].frame = HEADERS
    OBVIOUS
  <2>1. CASE j \in At(L, s)
    <3>1. \A k \in At(L, s) : j <= k
      BY <1>2
    <3> QED BY <1>2, <2>1, <3>1 DEF Ordered, Neighbours
  <2>2. CASE j = n + 1
    <3>1. At(L, s) = {}
      <4> SUFFICES ASSUME NEW k \in At(L, s) PROVE FALSE
        OBVIOUS
      <4>1. k \in At(M, s) /\ k \in 1..n /\ n + 1 <= k
        BY <1>2, <2>2
      <4> QED BY <1>1, <4>1
    <3> QED BY <1>1, <2>2, <3>1 DEF Ordered, Neighbours, HEADERS
  <2> QED BY <1>2, <2>1, <2>2
<1>5. \A j \in At(M, s) : (\A k \in At(M, s) : k <= j) => M[j].frame = last + 1
  <2> SUFFICES ASSUME NEW j \in At(M, s), \A k \in At(M, s) : k <= j
               PROVE  M[j].frame = last + 1
    OBVIOUS
  <2>1. j = n + 1
    BY <1>1, <1>2
  <2> QED BY <1>1, <2>1
<1>6. At(M, s) # {}
  BY <1>2
<1> QED BY <1>3, <1>4, <1>5, <1>6 DEF Ordered, Neighbours, M

\* The event of another stream joins the line.
LEMMA OrderedBeside ==
  ASSUME NEW L \in Seq(Event), NEW s, NEW given, NEW registered, NEW last,
         Ordered(L, s, given, registered, last),
         NEW e \in Event, e.stream # s
  PROVE  Ordered(Append(L, e), s, given, registered, last)
<1> DEFINE M == Append(L, e)
           n == Len(L)
<1>1. /\ n \in Nat /\ Len(M) = n + 1 /\ M[n + 1] = e
      /\ \A i \in 1..n : M[i] = L[i]
  OBVIOUS
<1> HIDE DEF M, n
<1>2. At(M, s) = At(L, s) /\ \A i \in At(L, s) : i \in 1..n /\ M[i] = L[i]
  BY <1>1 DEF At, n
<1>3. Ordered(M, s, given, registered, last)
  <2>1. \A i, j \in At(L, s) :
          i < j /\ (\A k \in At(L, s) : k <= i \/ j <= k) => M[j].frame = M[i].frame + 1
    BY <1>2 DEF Ordered, Neighbours
  <2>2. \A j \in At(L, s) : (\A k \in At(L, s) : j <= k) =>
          /\ given # <<>> => M[j].frame = given[Len(given)] + 1
          /\ given = <<>> /\ registered => M[j].frame = HEADERS
    BY <1>2 DEF Ordered, Neighbours
  <2>3. \A j \in At(L, s) : (\A k \in At(L, s) : k <= j) => M[j].frame = last
    BY <1>2 DEF Ordered, Neighbours
  <2> QED BY <1>2, <2>1, <2>2, <2>3 DEF Ordered, Neighbours
<1> QED BY <1>3 DEF M

\* Python takes the first event of the line.
LEMMA Shifted ==
  ASSUME NEW L \in Seq(Event), L # <<>>, NEW s
  PROVE  /\ Tail(L) \in Seq(Event) /\ Head(L) = L[1] /\ L[1] \in Event
         /\ \A j \in At(Tail(L), s) : j + 1 \in At(L, s) /\ j + 1 > 1 /\ Tail(L)[j] = L[j + 1]
         /\ \A k \in At(L, s) : k > 1 => k - 1 \in At(Tail(L), s)
<1>1. /\ Len(L) \in Nat /\ Len(L) > 0 /\ Len(Tail(L)) = Len(L) - 1
      /\ \A i \in 1..Len(Tail(L)) : Tail(L)[i] = L[i + 1]
      /\ Tail(L) \in Seq(Event) /\ Head(L) = L[1] /\ L[1] \in Event
  OBVIOUS
<1> DEFINE M == Tail(L)
<1> HIDE DEF M
<1>2. \A j \in At(M, s) : j \in 1..Len(M) /\ j + 1 \in At(L, s) /\ j + 1 > 1 /\ M[j] = L[j + 1]
  BY <1>1 DEF At, M
<1>3. \A k \in At(L, s) : k > 1 => k - 1 \in At(M, s)
  <2> TAKE k \in At(L, s)
  <2> HAVE k > 1
  <2>1. k \in 1..Len(L) /\ L[k].stream = s
    BY DEF At
  <2>2. k - 1 \in 1..Len(M) /\ (k - 1) + 1 = k
    BY <1>1, <2>1 DEF M
  <2>3. M[k - 1] = L[k]
    BY <1>1, <2>2 DEF M
  <2> QED BY <2>1, <2>2, <2>3 DEF At
<1> QED BY <1>1, <1>2, <1>3 DEF M

\* What holds of neighbours in the line holds of those that are left.
LEMMA Moved ==
  ASSUME NEW L \in Seq(Event), L # <<>>, NEW s,
         Neighbours(L, s)
  PROVE  Neighbours(Tail(L), s)
<1> DEFINE M == Tail(L)
<1>1. /\ \A j \in At(M, s) : j + 1 \in At(L, s) /\ j + 1 > 1 /\ M[j] = L[j + 1]
      /\ \A k \in At(L, s) : k > 1 => k - 1 \in At(M, s)
  BY Shifted
<1>2. \A k \in At(L, s) : k \in Nat /\ 1 <= k
  BY DEF At
<1>3. \A j \in At(M, s) : j \in Nat /\ 1 <= j
  BY DEF At
<1> HIDE DEF M
<1>4. ASSUME NEW i \in At(M, s), NEW j \in At(M, s), i < j,
             \A k \in At(M, s) : k <= i \/ j <= k
      PROVE  M[j].frame = M[i].frame + 1
  <2>1. /\ i + 1 \in At(L, s) /\ j + 1 \in At(L, s) /\ i + 1 < j + 1
        /\ M[i] = L[i + 1] /\ M[j] = L[j + 1]
    BY <1>1, <1>3, <1>4
  <2>2. \A k \in At(L, s) : k <= i + 1 \/ j + 1 <= k
    <3> TAKE k \in At(L, s)
    <3>1. CASE k > 1
      <4>1. k - 1 \in At(M, s)
        BY <1>1, <3>1
      <4>2. k - 1 <= i \/ j <= k - 1
        BY <1>4, <4>1
      <4> QED BY <1>2, <1>3, <4>2
    <3>2. CASE ~(k > 1)
      BY <1>2, <1>3, <3>2
    <3> QED BY <3>1, <3>2
  <2> QED BY <2>1, <2>2 DEF Neighbours
<1> QED BY <1>4 DEF M, Neighbours

LEMMA MovedLast ==
  ASSUME NEW L \in Seq(Event), L # <<>>, NEW s, NEW last,
         \A j \in At(L, s) : (\A k \in At(L, s) : k <= j) => L[j].frame = last
  PROVE  \A j \in At(Tail(L), s) : (\A k \in At(Tail(L), s) : k <= j)
           => Tail(L)[j].frame = last
<1> DEFINE M == Tail(L)
<1>1. /\ \A j \in At(M, s) : j + 1 \in At(L, s) /\ j + 1 > 1 /\ M[j] = L[j + 1]
      /\ \A k \in At(L, s) : k > 1 => k - 1 \in At(M, s)
  BY Shifted
<1>2. \A k \in At(L, s) : k \in Nat /\ 1 <= k
  BY DEF At
<1>3. \A j \in At(M, s) : j \in Nat /\ 1 <= j
  BY DEF At
<1> HIDE DEF M
<1>4. ASSUME NEW j \in At(M, s), \A k \in At(M, s) : k <= j
      PROVE  M[j].frame = last
  <2>1. j + 1 \in At(L, s) /\ M[j] = L[j + 1]
    BY <1>1
  <2>2. \A k \in At(L, s) : k <= j + 1
    <3> TAKE k \in At(L, s)
    <3>1. CASE k > 1
      <4>1. k - 1 \in At(M, s)
        BY <1>1, <3>1
      <4>2. k - 1 <= j
        BY <1>4, <4>1
      <4> QED BY <1>2, <1>3, <4>2
    <3>2. CASE ~(k > 1)
      BY <1>2, <1>3, <3>2
    <3> QED BY <3>1, <3>2
  <2> QED BY <2>1, <2>2
<1> QED BY <1>4 DEF M

LEMMA OrderedTake ==
  ASSUME NEW L \in Seq(Event), L # <<>>, NEW s, NEW given \in Seq(Frame),
         NEW registered, NEW last, Ordered(L, s, given, registered, last),
         Head(L).stream = s
  PROVE  Ordered(Tail(L), s, Append(given, Head(L).frame), registered, last)
<1>0. /\ Neighbours(L, s)
      /\ \A j \in At(L, s) : (\A k \in At(L, s) : k <= j) => L[j].frame = last
  BY DEF Ordered
<1> DEFINE M == Tail(L)
<1>8. Neighbours(M, s)
  BY <1>0, Moved
<1>11. \A j \in At(M, s) : (\A k \in At(M, s) : k <= j) => M[j].frame = last
  BY <1>0, MovedLast
<1> DEFINE more == Append(given, Head(L).frame)
           n == Len(given)
<1>1. /\ Head(L) = L[1] /\ L[1] \in Event
      /\ \A j \in At(M, s) : j + 1 \in At(L, s) /\ j + 1 > 1 /\ M[j] = L[j + 1]
      /\ \A k \in At(L, s) : k > 1 => k - 1 \in At(M, s)
  BY Shifted
<1>2. /\ n \in Nat /\ Len(more) = n + 1 /\ more[n + 1] = L[1].frame /\ more # <<>>
      /\ \A i \in 1..n : more[i] = given[i]
      /\ given = <<>> <=> n = 0
  <2>1. L[1].frame \in Frame
    BY <1>1 DEF Event
  <2> QED BY <1>1, <2>1, SMTT(30)
<1>3. \A k \in At(L, s) : k \in Nat /\ 1 <= k
  BY DEF At
<1>4. \A j \in At(M, s) : j \in Nat /\ 1 <= j
  BY DEF At
<1>5. 1 \in At(L, s)
  BY <1>1 DEF At
<1> HIDE DEF M, more, n
<1>6. /\ given # <<>> => L[1].frame = given[n] + 1
      /\ given = <<>> /\ registered => L[1].frame = HEADERS
  BY <1>3, <1>5 DEF Ordered, Neighbours, n
<1>7. \A i \in 1..Len(more) : i > 1 => more[i] = more[i - 1] + 1
  <2> SUFFICES ASSUME NEW i \in 1..Len(more), i > 1 PROVE more[i] = more[i - 1] + 1
    OBVIOUS
  <2>1. CASE i = n + 1
    <3>1. n \in 1..n /\ i - 1 = n /\ given # <<>>
      BY <1>2, <2>1
    <3> QED BY <1>2, <1>6, <2>1, <3>1
  <2>2. CASE i # n + 1
    <3>1. i \in 1..n /\ i - 1 \in 1..n
      BY <1>2, <2>2
    <3>2. given[i] = given[i - 1] + 1
      BY <3>1 DEF Ordered, Neighbours, n
    <3> QED BY <1>2, <3>1, <3>2
  <2> QED BY <2>1, <2>2
<1>9. \A j \in At(M, s) : (\A k \in At(M, s) : j <= k) => M[j].frame = L[1].frame + 1
  <2> SUFFICES ASSUME NEW j \in At(M, s), \A k \in At(M, s) : j <= k
               PROVE  M[j].frame = L[1].frame + 1
    OBVIOUS
  <2>1. j + 1 \in At(L, s) /\ M[j] = L[j + 1] /\ 1 < j + 1
    BY <1>1
  <2>2. \A k \in At(L, s) : k <= 1 \/ j + 1 <= k
    <3> TAKE k \in At(L, s)
    <3>1. CASE k > 1
      <4>1. k - 1 \in At(M, s)
        BY <1>1, <3>1
      <4>2. j <= k - 1
        BY <4>1
      <4> QED BY <1>3, <1>4, <4>2
    <3> QED BY <1>3, <3>1
  <2> QED BY <1>5, <2>1, <2>2 DEF Ordered, Neighbours
<1>10. registered => more[1] = HEADERS
  <2>1. CASE n = 0
    BY <1>2, <1>6, <2>1
  <2>2. CASE n # 0
    <3>1. 1 \in 1..n /\ given # <<>>
      BY <1>2, <2>2
    <3> QED BY <1>2, <3>1 DEF Ordered, Neighbours
  <2> QED BY <2>1, <2>2
<1>12. At(M, s) = {} => more[Len(more)] = last
  <2> HAVE At(M, s) = {}
  <2>1. \A k \in At(L, s) : k <= 1
    BY <1>1, <1>3
  <2>2. L[1].frame = last
    BY <1>5, <2>1 DEF Ordered, Neighbours
  <2> QED BY <1>2, <2>2
<1>13. Ordered(M, s, more, registered, last)
  BY <1>2, <1>7, <1>8, <1>9, <1>10, <1>11, <1>12 DEF Ordered, Neighbours
<1> QED BY <1>13 DEF M, more

LEMMA OrderedPass ==
  ASSUME NEW L \in Seq(Event), L # <<>>, NEW s, NEW given, NEW registered, NEW last,
         Ordered(L, s, given, registered, last), Head(L).stream # s
  PROVE  Ordered(Tail(L), s, given, registered, last)
<1> DEFINE M == Tail(L)
<1>1. /\ Head(L) = L[1]
      /\ \A j \in At(M, s) : j + 1 \in At(L, s) /\ j + 1 > 1 /\ M[j] = L[j + 1]
      /\ \A k \in At(L, s) : k > 1 => k - 1 \in At(M, s)
  BY Shifted
<1>2. \A k \in At(L, s) : k \in Nat /\ 1 < k
  <2> TAKE k \in At(L, s)
  <2>1. k \in Nat /\ 1 <= k /\ L[k].stream = s
    BY DEF At
  <2>2. k # 1
    BY <1>1, <2>1
  <2> QED BY <2>1, <2>2
<1>3. \A j \in At(M, s) : j \in Nat /\ 1 <= j
  BY DEF At
<1>4. At(M, s) = {} <=> At(L, s) = {}
  BY <1>1, <1>2
<1>5. Neighbours(M, s)
  BY Moved DEF Ordered
<1>6. \A j \in At(M, s) : (\A k \in At(M, s) : k <= j) => M[j].frame = last
  BY MovedLast DEF Ordered, Neighbours
<1> HIDE DEF M
<1>7. \A j \in At(M, s) : (\A k \in At(M, s) : j <= k) =>
        j + 1 \in At(L, s) /\ M[j] = L[j + 1] /\ \A k \in At(L, s) : j + 1 <= k
  <2> TAKE j \in At(M, s)
  <2> HAVE \A k \in At(M, s) : j <= k
  <2>1. \A k \in At(L, s) : j + 1 <= k
    <3> TAKE k \in At(L, s)
    <3>1. k - 1 \in At(M, s)
      BY <1>1, <1>2
    <3>2. j <= k - 1
      BY <3>1
    <3> QED BY <1>2, <1>3, <3>2
  <2> QED BY <1>1, <2>1
<1>8. \A j \in At(M, s) : (\A k \in At(M, s) : j <= k) =>
        /\ given # <<>> => M[j].frame = given[Len(given)] + 1
        /\ given = <<>> /\ registered => M[j].frame = HEADERS
  BY <1>7 DEF Ordered, Neighbours
<1>9. Ordered(M, s, given, registered, last)
  BY <1>4, <1>5, <1>6, <1>8 DEF Ordered, Neighbours
<1> QED BY <1>9 DEF M
---------------------------------------------------------------------------
(***************************************************************************)
(* How far the frames of a stream have been pushed, and the invariant of   *)
(* the order: the line of the stream ends there.                           *)
(***************************************************************************)
Cursor(s) ==
  LET w == worker[Conn(s)]
  IN  IF w.at \in {"reading", "waking"} /\ w.stream = s
      THEN IF w.at = "waking" THEN w.next ELSE w.next - 1
      ELSE read[s]

OneBatch == batch # <<>> => python.at = "dispatch"

ReaderKnown ==
  \A c \in Conns : worker[c].at \in {"reading", "waking"} =>
    /\ Conn(worker[c].stream) = c
    /\ worker[c].stream \in opened
    /\ worker[c].next <= worker[c].last + 1

OnlyOpened == user_data \subseteq opened /\ \A s \in Streams : read[s] > 0 => s \in opened

InOrder ==
  \A s \in Streams :
    /\ Ordered(Line, s, dispatched[s], s \in streams, Cursor(s))
    /\ At(Line, s) # {} \/ dispatched[s] # <<>> => Found(s)

OrderInv == OneBatch /\ ReaderKnown /\ OnlyOpened /\ InOrder

LEMMA LineType ==
  ASSUME IInv
  PROVE  batch \in Seq(Event) /\ pending \in Seq(Event) /\ Line \in Seq(Event)
<1>1. batch \in Seq(Event) /\ pending \in Seq(Event)
  BY DEF IInv, TypeOK
<1> QED BY <1>1, ConcatProperties DEF Line

LEMMA CursorType ==
  ASSUME IInv, NEW s \in Streams
  PROVE  Cursor(s) \in Nat
<1>1. Conn(s) \in Conns /\ read[s] \in Nat /\ Frames \in Nat
  BY QuicAssumption DEF Conn, IInv, TypeOK
<1> DEFINE w == worker[Conn(s)]
<1>2. w \in {Idle, Blocked} \/ (w.at \in {"reading", "waking"} /\ w.next \in 1..Frames + 1)
  BY <1>1 DEF IInv, TypeOK, WorkerState
<1> HIDE DEF w
<1>3. CASE w \in {Idle, Blocked}
  BY <1>1, <1>3 DEF Cursor, Idle, Blocked, w
<1>4. CASE w.at \in {"reading", "waking"} /\ w.next \in 1..Frames + 1
  <2>1. w.next \in Nat /\ w.next - 1 \in Nat
    BY <1>1, <1>4
  <2> QED BY <1>1, <1>4, <2>1 DEF Cursor, w
<1> QED BY <1>2, <1>3, <1>4

LEMMA OrderInit == Init => OrderInv
<1> SUFFICES ASSUME Init PROVE OrderInv
  OBVIOUS
<1>1. OneBatch /\ ReaderKnown /\ OnlyOpened
  BY DEF Init, OneBatch, ReaderKnown, OnlyOpened, Idle
<1>2. batch = <<>> /\ pending = <<>> /\ Line = <<>>
  <2>1. Line = <<>> \o <<>>
    BY DEF Init, Line
  <2> QED BY <2>1 DEF Init
<1>3. ASSUME NEW s \in Streams
      PROVE  /\ Ordered(Line, s, dispatched[s], s \in streams, Cursor(s))
             /\ At(Line, s) # {} \/ dispatched[s] # <<>> => Found(s)
  <2>1. At(Line, s) = {}
    BY <1>2 DEF At
  <2>2. dispatched[s] = <<>> /\ s \notin streams
    BY DEF Init
  <2> QED BY <2>1, <2>2 DEF Ordered, Neighbours
<1> QED BY <1>1, <1>3 DEF OrderInv, InOrder

\* Steps that neither push nor take an event.
LEMMA SameOrder ==
  ASSUME InOrder, Line' = Line, UNCHANGED <<dispatched, streams>>,
         user_data \subseteq user_data', \A s \in Streams : Cursor(s)' = Cursor(s)
  PROVE  InOrder'
<1> SUFFICES ASSUME NEW s \in Streams
             PROVE  /\ Ordered(Line', s, dispatched'[s], s \in streams', Cursor(s)')
                    /\ At(Line', s) # {} \/ dispatched'[s] # <<>> => Found(s)'
  BY DEF InOrder
<1> QED BY DEF InOrder, Found

LEMMA OrderStill ==
  ASSUME OrderInv, UNCHANGED <<batch, pending, dispatched, streams, opened, user_data, read, worker>>,
         OneBatch'
  PROVE  OrderInv'
<1>1. Line' = Line
  BY DEF Line
<1>2. \A s \in Streams : Cursor(s)' = Cursor(s)
  BY DEF Cursor
<1>3. InOrder'
  BY <1>1, <1>2, SameOrder DEF OrderInv
<1> QED BY <1>3 DEF OrderInv, ReaderKnown, OnlyOpened

\* A callback that read nothing leaves the cursors where they were.
LEMMA QuietCursors ==
  ASSUME IInv, OrderInv, NEW c \in Conns, Quiet(c), opened \subseteq opened', UNCHANGED read
  PROVE  ReaderKnown' /\ \A s \in Streams : Cursor(s)' = Cursor(s)
<1>1. worker \in [Conns -> WorkerState] /\ worker[c] \in {Idle, Blocked}
  BY DEF IInv, TypeOK, Quiet
<1>2. \A d \in Conns : worker'[d] = worker[d] \/ (d = c /\ worker'[d] \in {Idle, Blocked})
  BY <1>1 DEF Quiet
<1>3. ReaderKnown'
  BY <1>2 DEF OrderInv, ReaderKnown, Idle, Blocked
<1>4. ASSUME NEW s \in Streams PROVE Cursor(s)' = Cursor(s)
  <2>1. Conn(s) \in Conns
    BY QuicAssumption DEF Conn
  <2> QED BY <1>1, <1>2, <2>1 DEF Cursor, Idle, Blocked
<1> QED BY <1>3, <1>4

LEMMA OrderQuiet ==
  ASSUME IInv, OrderInv, NEW c \in Conns, Quiet(c),
         UNCHANGED <<batch, pending, dispatched, streams, opened, user_data, read, python>>
  PROVE  OrderInv'
<1>1. ReaderKnown' /\ \A s \in Streams : Cursor(s)' = Cursor(s)
  BY QuietCursors
<1>2. Line' = Line
  BY DEF Line
<1>3. InOrder'
  BY <1>1, <1>2, SameOrder DEF OrderInv
<1> QED BY <1>1, <1>3 DEF OrderInv, OneBatch, OnlyOpened

LEMMA OrderReceive ==
  ASSUME IInv, OrderInv, NEW s \in Streams, NEW n \in Frame, Receive(s, n)
  PROVE  OrderInv'
<1>1. /\ Conn(s) \in Conns /\ n \in Nat /\ n >= 1 /\ read[s] \in Nat
      /\ s \in opened /\ worker[Conn(s)] \in {Idle, Blocked}
      /\ worker' = [worker EXCEPT ![Conn(s)] =
           [at |-> "reading", stream |-> s, next |-> read[s] + 1, last |-> read[s] + n]]
      /\ worker \in [Conns -> WorkerState]
      /\ UNCHANGED <<batch, pending, dispatched, streams, opened, user_data, read, python>>
  BY QuicAssumption DEF Receive, Indicate, Callback, Conn, Frame, conn_vars, queue_vars,
     python_vars, IInv, TypeOK
<1>2. \A d \in Conns \ {Conn(s)} : worker'[d] = worker[d]
  BY <1>1
<1>3. worker'[Conn(s)] =
        [at |-> "reading", stream |-> s, next |-> read[s] + 1, last |-> read[s] + n]
  BY <1>1
<1>4. ReaderKnown'
  <2> SUFFICES ASSUME NEW c \in Conns, worker'[c].at \in {"reading", "waking"}
               PROVE  /\ Conn(worker'[c].stream) = c /\ worker'[c].stream \in opened'
                      /\ worker'[c].next <= worker'[c].last + 1
    BY DEF ReaderKnown
  <2>1. CASE c = Conn(s)
    BY <1>1, <1>3, <2>1
  <2>2. CASE c # Conn(s)
    BY <1>1, <1>2, <2>2 DEF OrderInv, ReaderKnown
  <2> QED BY <2>1, <2>2
<1>5. \A t \in Streams : Cursor(t)' = Cursor(t)
  <2> TAKE t \in Streams
  <2>1. Conn(t) \in Conns
    BY QuicAssumption DEF Conn
  <2>2. CASE Conn(t) = Conn(s)
    <3>1. Cursor(t) = read[t]
      BY <1>1, <2>2 DEF Cursor, Idle, Blocked
    <3>2. CASE t = s
      <4>1. Cursor(t)' = read[s] + 1 - 1
        BY <1>1, <1>3, <3>2 DEF Cursor
      <4> QED BY <1>1, <3>1, <3>2, <4>1
    <3>3. CASE t # s
      BY <1>1, <1>3, <2>2, <3>1, <3>3 DEF Cursor
    <3> QED BY <3>2, <3>3
  <2>3. CASE Conn(t) # Conn(s)
    BY <1>1, <1>2, <2>1, <2>3 DEF Cursor
  <2> QED BY <2>2, <2>3
<1>6. Line' = Line
  BY <1>1 DEF Line
<1>7. InOrder'
  BY <1>1, <1>5, <1>6, SameOrder DEF OrderInv
<1> QED BY <1>1, <1>4, <1>7 DEF OrderInv, OneBatch, OnlyOpened

\* What a reading worker does to the cursors: only that of its stream moves.
LEMMA OtherCursors ==
  ASSUME IInv, OrderInv, NEW c \in Conns, worker[c].at \in {"reading", "waking"},
         \A d \in Conns \ {c} : worker'[d] = worker[d],
         \A t \in Streams \ {worker[c].stream} : read'[t] = read[t],
         worker'[c].at \notin {"reading", "waking"} \/ worker'[c].stream = worker[c].stream
  PROVE  \A t \in Streams \ {worker[c].stream} : Cursor(t)' = Cursor(t)
<1> TAKE t \in Streams \ {worker[c].stream}
<1>1. Conn(t) \in Conns
  BY QuicAssumption DEF Conn
<1>2. CASE Conn(t) = c
  <2>1. Cursor(t) = read[t]
    BY <1>2 DEF Cursor
  <2>2. Cursor(t)' = read'[t]
    BY <1>2 DEF Cursor
  <2> QED BY <2>1, <2>2
<1>3. CASE Conn(t) # c
  BY <1>1, <1>3 DEF Cursor
<1> QED BY <1>2, <1>3

\* The worker of c, before and after one of its steps.
LEMMA ReaderFacts ==
  ASSUME IInv, OrderInv, NEW c \in Conns, ReadStep(c)
  PROVE  /\ worker[c] \in [at : {"reading", "waking"}, stream : Streams,
                           next : 1..Frames+1, last : Frame]
         /\ worker[c].at \in {"reading", "waking"} /\ worker[c].stream \in Streams
         /\ Conn(worker[c].stream) = c /\ worker[c].stream \in opened
         /\ worker[c].next \in Nat /\ worker[c].next >= 1 /\ worker[c].last \in Nat
         /\ worker[c].next <= worker[c].last + 1
         /\ worker \in [Conns -> WorkerState]
         /\ Cursor(worker[c].stream) = IF worker[c].at = "waking" THEN worker[c].next
                                       ELSE worker[c].next - 1
<1>1. worker[c] \in WorkerState /\ worker[c].at \in {"reading", "waking"} /\ worker \in [Conns -> WorkerState]
  BY DEF IInv, TypeOK, ReadStep, PushEvent, SkipEvent, WakePython, ReadFails, ReceiveDone, Reading
<1>2. worker[c] \in [at : {"reading", "waking"}, stream : Streams, next : 1..Frames+1, last : Frame]
  BY <1>1 DEF WorkerState, Idle, Blocked
<1>3. /\ Conn(worker[c].stream) = c /\ worker[c].stream \in opened
      /\ worker[c].next <= worker[c].last + 1
  BY <1>1 DEF OrderInv, ReaderKnown
<1>4. worker[c].next \in 1..Frames+1 /\ worker[c].last \in 1..Frames
  BY <1>2 DEF Frame
<1>5. worker[c].next \in Nat /\ worker[c].next >= 1 /\ worker[c].last \in Nat
  BY <1>4, QuicAssumption
<1> QED BY <1>1, <1>2, <1>3, <1>5 DEF Cursor

LEMMA BesideAt ==
  ASSUME NEW L \in Seq(Event), NEW e \in Event, NEW s, e.stream # s
  PROVE  At(Append(L, e), s) = At(L, s)
<1> DEFINE M == Append(L, e)
<1>1. /\ Len(L) \in Nat /\ Len(M) = Len(L) + 1 /\ M[Len(L) + 1] = e
      /\ \A i \in 1..Len(L) : M[i] = L[i]
  OBVIOUS
<1> HIDE DEF M
<1>2. At(M, s) = At(L, s)
  BY <1>1 DEF At
<1> QED BY <1>2 DEF M

LEMMA PushedLine ==
  ASSUME NEW a \in Seq(Event), NEW b \in Seq(Event), NEW e \in Event
  PROVE  a \o Append(b, e) = Append(a \o b, e)
<1> DEFINE one == <<e>>
           ab == a \o b
<1>1. one \in Seq(Event) /\ ab \in Seq(Event)
  BY ConcatProperties
<1>2. Append(b, e) = b \o one /\ Append(ab, e) = ab \o one
  BY <1>1, AppendIsConcat
<1>3. ab \o one = a \o (b \o one)
  BY <1>1, ConcatAssociative
<1> QED BY <1>2, <1>3

LEMMA OrderPush ==
  ASSUME IInv, OrderInv, NEW c \in Conns, PushEvent(c)
  PROVE  OrderInv'
<1>0. ReadStep(c)
  BY DEF ReadStep
<1>a. PICK s \in Streams : s = worker[c].stream
  BY <1>0, ReaderFacts
<1>b. PICK f \in Nat : f = worker[c].next
  BY <1>0, ReaderFacts
<1> DEFINE e == [stream |-> s, frame |-> f]
<1>1. ReadStep(c) /\ Reading(c) /\ Found(s)
  BY <1>0, <1>a DEF PushEvent
<1>2. /\ s \in Streams /\ Conn(s) = c /\ f \in Nat /\ f >= 1 /\ worker[c].at = "reading"
      /\ Cursor(s) = f - 1 /\ s \in opened /\ worker[c].last \in Nat
      /\ worker[c].last \in Frame /\ f <= worker[c].last
  BY <1>1, <1>a, <1>b, ReaderFacts DEF Reading
<1>3. /\ worker' = [worker EXCEPT ![c].at = "waking"]
      /\ pending' = Append(pending, e)
      /\ UNCHANGED <<batch, dispatched, streams, opened, user_data, read, python>>
  BY <1>a, <1>b DEF PushEvent, conn_vars, read_vars, python_vars
<1>4. /\ worker'[c].at = "waking" /\ worker'[c].stream = s
      /\ worker'[c].next = f /\ worker'[c].last = worker[c].last
      /\ \A d \in Conns \ {c} : worker'[d] = worker[d]
  BY <1>1, <1>3, <1>a, <1>b, ReaderFacts
<1>5. e \in Event /\ e.stream = s /\ e.frame = f
  <2>1. f \in Frame
    BY <1>2, QuicAssumption DEF Frame
  <2> QED BY <1>2, <2>1 DEF Event
<1>6. \A t \in Streams \ {s} : Cursor(t)' = Cursor(t)
  BY <1>2, <1>3, <1>4, <1>a, OtherCursors
<1>7. Cursor(s)' = f
  BY <1>2, <1>4 DEF Cursor
<1> HIDE DEF e
<1>8. Line' = Append(Line, e) /\ Line \in Seq(Event)
  <2>1. batch \in Seq(Event) /\ pending \in Seq(Event) /\ Line \in Seq(Event)
    BY LineType
  <2>2. batch \o Append(pending, e) = Append(batch \o pending, e)
    BY <1>5, <2>1, PushedLine
  <2> QED BY <1>3, <2>1, <2>2 DEF Line
<1>9. ASSUME NEW t \in Streams
      PROVE  /\ Ordered(Line', t, dispatched'[t], t \in streams', Cursor(t)')
             /\ At(Line', t) # {} \/ dispatched'[t] # <<>> => Found(t)'
  <2>1. /\ Ordered(Line, t, dispatched[t], t \in streams, Cursor(t))
        /\ At(Line, t) # {} \/ dispatched[t] # <<>> => Found(t)
    BY DEF OrderInv, InOrder
  <2>2. dispatched[t] \in Seq(Frame) /\ Cursor(t) \in Nat
    BY CursorType DEF IInv, TypeOK
  <2>3. CASE t = s
    <3>1. Cursor(t) = f - 1 /\ e.frame = Cursor(t) + 1 /\ Cursor(t)' = Cursor(t) + 1
      BY <1>2, <1>5, <1>7, <2>3
    <3>2. Ordered(Append(Line, e), t, dispatched[t], t \in streams, Cursor(t) + 1)
      BY <1>5, <1>8, <2>1, <2>2, <2>3, <3>1, OrderedPush
    <3>3. Found(t)'
      BY <1>1, <1>3, <2>3 DEF Found
    <3> QED BY <1>3, <1>8, <3>1, <3>2, <3>3
  <2>4. CASE t # s
    <3>1. Ordered(Append(Line, e), t, dispatched[t], t \in streams, Cursor(t))
      BY <1>5, <1>8, <2>1, <2>4, OrderedBeside
    <3>2. At(Append(Line, e), t) = At(Line, t)
      BY <1>5, <1>8, <2>4, BesideAt
    <3> QED BY <1>3, <1>6, <1>8, <2>1, <2>4, <3>1, <3>2 DEF Found
  <2> QED BY <2>3, <2>4
<1>10. InOrder'
  BY <1>9 DEF InOrder
<1>11. ReaderKnown'
  <2> SUFFICES ASSUME NEW d \in Conns, worker'[d].at \in {"reading", "waking"}
               PROVE  /\ Conn(worker'[d].stream) = d /\ worker'[d].stream \in opened'
                      /\ worker'[d].next <= worker'[d].last + 1
    BY DEF ReaderKnown
  <2>1. CASE d = c
    BY <1>2, <1>3, <1>4, <2>1
  <2>2. CASE d # c
    BY <1>3, <1>4, <2>2 DEF OrderInv, ReaderKnown
  <2> QED BY <2>1, <2>2
<1> QED BY <1>3, <1>10, <1>11 DEF OrderInv, OneBatch, OnlyOpened

\* A stream nobody finds has sent nothing to Python, and its cursor may move.
LEMMA OrderSkip ==
  ASSUME IInv, OrderInv, NEW c \in Conns, SkipEvent(c)
  PROVE  OrderInv'
<1> DEFINE s == worker[c].stream
<1>1. ReadStep(c) /\ Reading(c) /\ ~Found(s)
  BY DEF ReadStep, SkipEvent
<1>2. /\ s \in Streams /\ Conn(s) = c /\ worker[c].at = "reading" /\ s \in opened
      /\ worker[c].next \in Nat /\ worker[c].last \in Nat /\ worker[c].next <= worker[c].last
  BY <1>1, ReaderFacts DEF Reading
<1>3. /\ worker' = [worker EXCEPT ![c].next = @ + 1]
      /\ UNCHANGED <<batch, pending, dispatched, streams, opened, user_data, read, python>>
  BY DEF SkipEvent, conn_vars, read_vars, python_vars, queue_vars
<1>4. /\ worker'[c].at = "reading" /\ worker'[c].stream = s
      /\ worker'[c].next = worker[c].next + 1 /\ worker'[c].last = worker[c].last
      /\ \A d \in Conns \ {c} : worker'[d] = worker[d]
  BY <1>1, <1>2, <1>3, ReaderFacts
<1>5. \A t \in Streams \ {s} : Cursor(t)' = Cursor(t)
  BY <1>2, <1>3, <1>4, OtherCursors
<1> HIDE DEF s
<1>6. Line' = Line
  BY <1>3 DEF Line
<1>7. ASSUME NEW t \in Streams
      PROVE  /\ Ordered(Line', t, dispatched'[t], t \in streams', Cursor(t)')
             /\ At(Line', t) # {} \/ dispatched'[t] # <<>> => Found(t)'
  <2>1. /\ Ordered(Line, t, dispatched[t], t \in streams, Cursor(t))
        /\ At(Line, t) # {} \/ dispatched[t] # <<>> => Found(t)
    BY DEF OrderInv, InOrder
  <2>2. CASE t = s
    <3>1. At(Line, t) = {} /\ dispatched[t] = <<>> /\ t \notin streams
      BY <1>1, <2>1, <2>2 DEF Found
    <3> QED BY <1>3, <1>6, <3>1 DEF Ordered, Neighbours
  <2>3. CASE t # s
    BY <1>3, <1>5, <1>6, <2>1, <2>3 DEF Found
  <2> QED BY <2>2, <2>3
<1>8. ReaderKnown'
  <2> SUFFICES ASSUME NEW d \in Conns, worker'[d].at \in {"reading", "waking"}
               PROVE  /\ Conn(worker'[d].stream) = d /\ worker'[d].stream \in opened'
                      /\ worker'[d].next <= worker'[d].last + 1
    BY DEF ReaderKnown
  <2>1. CASE d = c
    BY <1>2, <1>3, <1>4, <2>1
  <2>2. CASE d # c
    BY <1>3, <1>4, <2>2 DEF OrderInv, ReaderKnown
  <2> QED BY <2>1, <2>2
<1>9. InOrder'
  BY <1>7 DEF InOrder
<1> QED BY <1>3, <1>8, <1>9 DEF OrderInv, OneBatch, OnlyOpened
LEMMA OrderReading ==
  ASSUME IInv, OrderInv, NEW c \in Conns, WakePython(c) \/ ReadFails(c) \/ ReceiveDone(c)
  PROVE  OrderInv'
<1>0. ReadStep(c)
  BY DEF ReadStep
<1>1. PICK s \in Streams : s = worker[c].stream
  BY <1>0, ReaderFacts
<1>2. /\ Conn(s) = c /\ s \in opened /\ worker[c].at \in {"reading", "waking"}
      /\ worker[c].next \in Nat /\ worker[c].last \in Nat
      /\ worker[c].next <= worker[c].last + 1
      /\ Cursor(s) = IF worker[c].at = "waking" THEN worker[c].next ELSE worker[c].next - 1
      /\ worker \in [Conns -> WorkerState]
  BY <1>0, <1>1, ReaderFacts
<1>3. UNCHANGED <<batch, pending, dispatched, streams, opened, python>>
  BY DEF WakePython, ReadFails, ReceiveDone, conn_vars, queue_vars, python_vars
<1>4. \A d \in Conns \ {c} : worker'[d] = worker[d]
  BY <1>2 DEF WakePython, ReadFails, ReceiveDone
<1>5. Line' = Line
  BY <1>3 DEF Line
<1>6. /\ worker'[c].at \notin {"reading", "waking"} \/ (/\ worker'[c].stream = s
                                    /\ worker'[c].next <= worker'[c].last + 1)
      /\ Cursor(s)' = Cursor(s)
      /\ \A t \in Streams \ {s} : read'[t] = read[t]
      /\ user_data \subseteq user_data' /\ user_data' \subseteq user_data \cup {s}
  <2>1. CASE WakePython(c)
    <3>1. /\ worker' = [worker EXCEPT ![c].at = "reading", ![c].next = @ + 1]
          /\ worker[c].at = "waking" /\ UNCHANGED <<read, user_data>>
      BY <2>1 DEF WakePython, read_vars
    <3> DEFINE w == worker[c]
    <3>2. w \in [at : {"reading", "waking"}, stream : Streams, next : 1..Frames+1, last : Frame]
      BY <1>0, ReaderFacts
    <3>3. worker' = [worker EXCEPT ![c] = [[w EXCEPT !.at = "reading"] EXCEPT !.next = @ + 1]]
      BY <1>2, <3>1
    <3>4. worker'[c] = [[w EXCEPT !.at = "reading"] EXCEPT !.next = @ + 1]
      BY <1>2, <3>3
    <3> HIDE DEF w
    <3>5. /\ worker'[c].at = "reading" /\ worker'[c].stream = w.stream
          /\ worker'[c].next = w.next + 1 /\ worker'[c].last = w.last
      BY <3>2, <3>4
    <3>6. worker[c].next <= worker[c].last
      BY <3>1 DEF IInv, WakingInside
    <3>7. Cursor(s) = w.next /\ w.next \in Nat /\ w.last \in Nat /\ w.next <= w.last
          /\ w.stream = s
      BY <1>1, <1>2, <3>1, <3>6 DEF w
    <3>8. Cursor(s)' = (w.next + 1) - 1
      BY <1>2, <3>5, <3>7 DEF Cursor
    <3> QED BY <3>1, <3>5, <3>7, <3>8
  <2>2. CASE ReceiveDone(c)
    <3>1. /\ worker[c].at = "reading" /\ worker[c].next > worker[c].last
          /\ read' = [read EXCEPT ![s] = worker[c].last]
          /\ user_data' = user_data \cup {s}
          /\ worker'[c] = Idle
          /\ read \in [Streams -> 0..Frames]
      BY <1>1, <1>2, <2>2 DEF ReceiveDone, IInv, TypeOK
    <3>2. Cursor(s) = worker[c].last
      BY <1>2, <3>1
    <3>3. Cursor(s)' = worker[c].last
      BY <1>1, <1>2, <3>1 DEF Cursor, Idle
    <3> QED BY <3>1, <3>2, <3>3 DEF Idle
  <2>3. CASE ReadFails(c)
    <3>1. /\ worker[c].at = "reading"
          /\ read' = [read EXCEPT ![s] = worker[c].next - 1]
          /\ worker'[c] = Idle /\ UNCHANGED user_data
          /\ read \in [Streams -> 0..Frames]
      BY <1>1, <1>2, <2>3 DEF ReadFails, Reading, IInv, TypeOK
    <3>2. Cursor(s)' = worker[c].next - 1
      BY <1>1, <1>2, <3>1 DEF Cursor, Idle
    <3> QED BY <1>2, <3>1, <3>2 DEF Idle
  <2> QED BY <2>1, <2>2, <2>3
<1>7. \A t \in Streams \ {s} : Cursor(t)' = Cursor(t)
  BY <1>1, <1>2, <1>4, <1>6, OtherCursors
<1>8. InOrder'
  <2>1. \A t \in Streams : Cursor(t)' = Cursor(t)
    BY <1>6, <1>7
  <2> QED BY <1>3, <1>5, <1>6, <2>1, SameOrder DEF OrderInv
<1>9. ReaderKnown'
  <2> SUFFICES ASSUME NEW d \in Conns, worker'[d].at \in {"reading", "waking"}
               PROVE  /\ Conn(worker'[d].stream) = d /\ worker'[d].stream \in opened'
                      /\ worker'[d].next <= worker'[d].last + 1
    BY DEF ReaderKnown
  <2>1. CASE d = c
    BY <1>2, <1>3, <1>6, <2>1
  <2>2. CASE d # c
    BY <1>3, <1>4, <2>2 DEF OrderInv, ReaderKnown
  <2> QED BY <2>1, <2>2
<1>10. OnlyOpened'
  BY <1>2, <1>3, <1>6 DEF OrderInv, OnlyOpened
<1> QED BY <1>3, <1>8, <1>9, <1>10 DEF OrderInv, OneBatch

\* A stream that was not open has no frames: it may enter the table.
LEMMA OrderStarted ==
  ASSUME IInv, OrderInv, NEW s \in Streams, PeerStreamStarted(s)
  PROVE  OrderInv'
<1>1. /\ s \notin opened /\ opened' = opened \cup {s} /\ worker[Conn(s)] \in {Idle, Blocked}
      /\ Conn(s) \in Conns /\ Quiet(Conn(s))
      /\ streams \subseteq streams' /\ streams' \subseteq streams \cup {s}
      /\ UNCHANGED <<batch, pending, dispatched, user_data, read, python>>
  BY QuicAssumption DEF PeerStreamStarted, NextStream, Callback, Quiet, Conn, read_vars, queue_vars, python_vars
<1>2. Line' = Line /\ \A t \in Streams : Cursor(t)' = Cursor(t)
  BY <1>1, QuietCursors DEF Line
<1>3. ASSUME NEW t \in Streams
      PROVE  /\ Ordered(Line', t, dispatched'[t], t \in streams', Cursor(t)')
             /\ At(Line', t) # {} \/ dispatched'[t] # <<>> => Found(t)'
  <2>1. /\ Ordered(Line, t, dispatched[t], t \in streams, Cursor(t))
        /\ At(Line, t) # {} \/ dispatched[t] # <<>> => Found(t)
    BY DEF OrderInv, InOrder
  <2>2. CASE t = s
    <3>1. ~Found(s)
      BY <1>1 DEF Found, OrderInv, OnlyOpened, IInv, TypeOK
    <3>2. At(Line, t) = {} /\ dispatched[t] = <<>>
      BY <2>1, <2>2, <3>1
    <3>3. Cursor(t) = 0
      <4>1. ~(read[s] > 0) /\ read[s] \in 0..Frames
        BY <1>1 DEF OrderInv, OnlyOpened, IInv, TypeOK
      <4>2. read[s] = 0
        BY <4>1, QuicAssumption
      <4> QED BY <1>1, <2>2, <4>2 DEF Cursor, Idle, Blocked
    <3> QED BY <1>1, <1>2, <3>2, <3>3 DEF Ordered, Neighbours
  <2>3. CASE t # s
    <3>1. t \in streams' <=> t \in streams
      BY <1>1, <2>3
    <3> QED BY <1>1, <1>2, <2>1, <3>1 DEF Ordered, Found
  <2> QED BY <2>2, <2>3
<1>4. InOrder'
  BY <1>3 DEF InOrder
<1>5. ReaderKnown'
  BY <1>1, QuietCursors
<1> QED BY <1>1, <1>4, <1>5 DEF OrderInv, OneBatch, OnlyOpened

LEMMA OrderProcessPending ==
  ASSUME IInv, OrderInv, ProcessPending
  PROVE  OrderInv'
<1>1. /\ python.at = "select" /\ python'.at = "dispatch" /\ batch' = pending /\ pending' = <<>>
      /\ UNCHANGED <<dispatched, streams, opened, user_data, read, worker>>
  BY DEF ProcessPending, conn_vars, read_vars, Select
<1>2. batch = <<>> /\ pending \in Seq(Event)
  BY <1>1, LineType DEF OrderInv, OneBatch
<1>3. Line' = Line
  <2>1. pending \o <<>> = pending /\ <<>> \o pending = pending
    BY <1>2, ConcatEmptySeq
  <2> QED BY <1>1, <1>2, <2>1 DEF Line
<1>4. \A t \in Streams : Cursor(t)' = Cursor(t)
  BY <1>1 DEF Cursor
<1>5. InOrder'
  BY <1>1, <1>3, <1>4, SameOrder DEF OrderInv
<1> QED BY <1>1, <1>5 DEF OrderInv, OneBatch, ReaderKnown, OnlyOpened

LEMMA TakenLine ==
  ASSUME NEW a \in Seq(Event), NEW b \in Seq(Event), a # <<>>
  PROVE  a \o b # <<>> /\ Head(a \o b) = Head(a) /\ Tail(a \o b) = Tail(a) \o b
<1>1. /\ Tail(a) \in Seq(Event) /\ Len(Tail(a)) = Len(a) - 1 /\ Len(a) \in Nat /\ Len(a) > 0
      /\ Len(b) \in Nat /\ Head(a) = a[1]
      /\ \A i \in 1..Len(Tail(a)) : Tail(a)[i] = a[i + 1]
  OBVIOUS
<1> DEFINE ab == a \o b
           rb == Tail(a) \o b
<1>2. /\ ab \in Seq(Event) /\ Len(ab) = Len(a) + Len(b)
      /\ \A i \in 1..Len(a) + Len(b) : ab[i] = IF i <= Len(a) THEN a[i] ELSE b[i - Len(a)]
  BY ConcatProperties
<1>3. /\ rb \in Seq(Event) /\ Len(rb) = Len(Tail(a)) + Len(b)
      /\ \A i \in 1..Len(Tail(a)) + Len(b) :
           rb[i] = IF i <= Len(Tail(a)) THEN Tail(a)[i] ELSE b[i - Len(Tail(a))]
  BY <1>1, ConcatProperties
<1> HIDE DEF ab, rb
<1>4. ab # <<>> /\ Head(ab) = ab[1] /\ ab[1] = a[1]
  BY <1>1, <1>2
<1>5. /\ Tail(ab) \in Seq(Event) /\ Len(Tail(ab)) = Len(ab) - 1
      /\ \A i \in 1..Len(ab) - 1 : Tail(ab)[i] = ab[i + 1]
  BY <1>2, <1>4
<1> DEFINE tb == Tail(ab)
<1> HIDE DEF tb
<1>6. \A i \in 1..Len(tb) : tb[i] = rb[i]
  <2> TAKE i \in 1..Len(tb)
  <2>1. i \in 1..Len(a) + Len(b) - 1 /\ tb[i] = ab[i + 1]
    BY <1>1, <1>2, <1>5 DEF tb
  <2>2. CASE i + 1 <= Len(a)
    BY <1>1, <1>2, <1>3, <2>1, <2>2
  <2>3. CASE ~(i + 1 <= Len(a))
    <3>1. i - Len(Tail(a)) = i + 1 - Len(a) /\ ~(i <= Len(Tail(a)))
      BY <1>1, <2>1, <2>3
    <3>2. i + 1 \in 1..Len(a) + Len(b) /\ i \in 1..Len(Tail(a)) + Len(b)
      BY <1>1, <2>1
    <3>3. ab[i + 1] = b[i + 1 - Len(a)]
      BY <1>2, <2>3, <3>2
    <3>4. rb[i] = b[i - Len(Tail(a))]
      BY <1>3, <3>1, <3>2
    <3> QED BY <2>1, <3>1, <3>3, <3>4
  <2> QED BY <2>2, <2>3
<1>7. tb \in Seq(Event) /\ Len(tb) = Len(rb)
  BY <1>1, <1>2, <1>3, <1>5 DEF tb
<1>8. tb = rb
  BY <1>3, <1>6, <1>7, SeqEqual
<1> QED BY <1>1, <1>4, <1>8 DEF ab, rb, tb

LEMMA OrderDispatch ==
  ASSUME IInv, OrderInv, Dispatch
  PROVE  OrderInv'
<1>1. batch \in Seq(Event) /\ pending \in Seq(Event) /\ Line \in Seq(Event) /\ batch # <<>>
  BY LineType DEF Dispatch
<1>2. PICK e \in Event : e = Head(batch)
  BY <1>1
<1>3. /\ python.at = "dispatch"
      /\ dispatched' = [dispatched EXCEPT ![e.stream] = Append(@, e.frame)]
      /\ batch' = Tail(batch)
      /\ UNCHANGED <<pending, streams, opened, user_data, read, worker, python>>
      /\ dispatched \in [Streams -> Seq(Frame)]
      /\ e.stream \in Streams
  BY <1>2 DEF Dispatch, conn_vars, read_vars, queue_vars, IInv, TypeOK, Event
<1>4. Line # <<>> /\ Head(Line) = e /\ Line' = Tail(Line)
  BY <1>1, <1>2, <1>3, TakenLine DEF Line
<1>5. \A t \in Streams : Cursor(t)' = Cursor(t)
  BY <1>3 DEF Cursor
<1>6. ASSUME NEW t \in Streams
      PROVE  /\ Ordered(Line', t, dispatched'[t], t \in streams', Cursor(t)')
             /\ At(Line', t) # {} \/ dispatched'[t] # <<>> => Found(t)'
  <2>1. /\ Ordered(Line, t, dispatched[t], t \in streams, Cursor(t))
        /\ At(Line, t) # {} \/ dispatched[t] # <<>> => Found(t)
        /\ dispatched[t] \in Seq(Frame)
    BY <1>3 DEF OrderInv, InOrder
  <2>2. CASE t = e.stream
    <3>1. dispatched'[t] = Append(dispatched[t], Head(Line).frame) /\ Head(Line).stream = t
      BY <1>3, <1>4, <2>2
    <3>2. Ordered(Tail(Line), t, Append(dispatched[t], Head(Line).frame), t \in streams, Cursor(t))
      BY <1>1, <1>4, <2>1, <3>1, OrderedTake
    <3>3. Found(t)
      <4>1. Head(Line) = Line[1] /\ Len(Line) \in Nat /\ Len(Line) >= 1
        BY <1>1, <1>4
      <4>2. 1 \in At(Line, t)
        BY <3>1, <4>1 DEF At
      <4> QED BY <2>1, <4>2
    <3> QED BY <1>3, <1>4, <1>5, <3>1, <3>2, <3>3 DEF Found
  <2>3. CASE t # e.stream
    <3>1. dispatched'[t] = dispatched[t] /\ Head(Line).stream # t
      BY <1>3, <1>4, <2>3
    <3>2. Ordered(Tail(Line), t, dispatched[t], t \in streams, Cursor(t))
      BY <1>1, <1>4, <2>1, <3>1, OrderedPass
    <3>3. At(Tail(Line), t) # {} => At(Line, t) # {}
      BY <1>1, <1>4, Shifted
    <3> QED BY <1>3, <1>4, <1>5, <2>1, <3>1, <3>2, <3>3 DEF Found
  <2> QED BY <2>2, <2>3
<1>7. InOrder'
  BY <1>6 DEF InOrder
<1> QED BY <1>3, <1>7 DEF OrderInv, OneBatch, ReaderKnown, OnlyOpened

LEMMA OrderKept == ASSUME IInv, OrderInv, [Next]_vars PROVE OrderInv'
<1>0. \A s \in Streams : Conn(s) \in Conns
  BY QuicAssumption DEF Conn
<1>1. ASSUME NEW c \in Conns, FinalizeHttp3Setup(c) \/ WorkerBlocks(c) PROVE OrderInv'
  <2>1. Quiet(c) /\ UNCHANGED <<batch, pending, dispatched, streams, opened, user_data, read, python>>
    BY <1>1 DEF FinalizeHttp3Setup, WorkerBlocks, Callback, Quiet, conn_vars, read_vars,
       queue_vars, python_vars
  <2> QED BY <2>1, OrderQuiet
<1>2. ASSUME NEW s \in Streams, NEW n \in Frame, ReceiveDeferred(s, n) \/ ReceiveFailed(s, n)
      PROVE  OrderInv'
  <2>1. /\ Quiet(Conn(s))
        /\ UNCHANGED <<batch, pending, dispatched, streams, opened, user_data, read, python>>
    BY <1>2 DEF ReceiveDeferred, ReceiveFailed, Indicate, Callback, Quiet, conn_vars,
       queue_vars, python_vars
  <2> QED BY <1>0, <2>1, OrderQuiet
<1>3. ASSUME NEW c \in Conns, ReadStep(c) PROVE OrderInv'
  BY <1>3, OrderPush, OrderSkip, OrderReading DEF ReadStep
<1>4. ASSUME NEW s \in Streams, PeerStreamStarted(s) PROVE OrderInv'
  BY <1>4, OrderStarted
<1>5. ASSUME NEW s \in Streams, NEW n \in Frame, Receive(s, n) PROVE OrderInv'
  BY <1>5, OrderReceive
<1>6. ASSUME \/ \E s \in Streams : Send(s)
             \/ \E c \in Conns : GetParam(c)
             \/ BeginAllowThreads \/ SendLock \/ GetStreamID \/ SendUnlock \/ EndAllowThreads
             \/ PendingDone
      PROVE  OrderInv'
  <2>1. UNCHANGED <<batch, pending, dispatched, streams, opened, user_data, read, worker>>
    BY <1>6 DEF Send, BeginAllowThreads, SendLock, GetStreamID, GetParam, SendUnlock,
       EndAllowThreads, PendingDone,
       conn_vars, read_vars, queue_vars
  <2>2. batch = <<>>
    BY <1>6 DEF Send, BeginAllowThreads, SendLock, GetStreamID, GetParam, SendUnlock,
       EndAllowThreads, PendingDone,
       Select, OrderInv, OneBatch
  <2> QED BY <2>1, <2>2, OrderStill DEF OneBatch
<1>7. CASE UNCHANGED vars
  BY <1>7, OrderStill DEF vars, conn_vars, read_vars, queue_vars, python_vars, OneBatch, OrderInv
<1> QED BY <1>1, <1>2, <1>3, <1>4, <1>5, <1>6, <1>7, OrderProcessPending, OrderDispatch
        DEF Next, WorkerStep, PythonStep

LEMMA OrderShows == ASSUME IInv, OrderInv PROVE StreamOrder
<1>1. Line \in Seq(Event) /\ dispatched \in [Streams -> Seq(Frame)]
  BY LineType DEF IInv, TypeOK
<1>2. \A s \in Streams : Places(s) = At(Line, s)
  BY <1>1 DEF Places, At
<1>3. \A s \in Streams : DOMAIN dispatched[s] = 1..Len(dispatched[s])
  BY <1>1
<1>4. \A s \in Streams : Ordered(Line, s, dispatched[s], s \in streams, Cursor(s))
  BY DEF OrderInv, InOrder
<1> QED BY <1>2, <1>3, <1>4 DEF StreamOrder, Ordered, Neighbours, FirstPlace, NextPlace

(***************************************************************************)
(* However many workers push onto the one list while Python empties it,    *)
(* Python sees the frames of each request as they were sent: none missing, *)
(* repeated or out of order, from the headers on if the stream found a     *)
(* slot in the table.                                                      *)
(***************************************************************************)
THEOREM RequestsInOrder == Spec => []StreamOrder
BY OrderShows, OrderInit, OrderKept, Inductive, PTL DEF Spec
===========================================================================
