----------------------------- MODULE Pipeline -----------------------------
(***************************************************************************)
(* pipeline/c_impl/cpipeline.c (built with PIPELINE_PAIR): the queue that  *)
(* keeps the responses of one HTTP/1.1 connection in request order while   *)
(* coroutine handlers finish in any order.                                 *)
(*                                                                         *)
(* Entries are numbered 1, 2, ... in the order Pipeline_queue takes them.  *)
(* Everything runs on one event loop thread, so a call is one step; what   *)
(* interleaves is when tasks finish and when the loop runs the callbacks   *)
(* that their completion scheduled (call_soon: several tasks may finish    *)
(* before the first of their callbacks runs).                              *)
(***************************************************************************)
EXTENDS Integers, Sequences

CONSTANTS
  QueueLen,   \* slots of Pipeline.queue, 10 in cpipeline.h
  MaxEntries  \* bound: entries queued over the life of a connection

ASSUME PipelineAssumption ==
  /\ QueueLen \in Nat \ {0}
  /\ MaxEntries \in Nat

VARIABLES
  queue,          \* the slots; a slot keeps its entry after it was handed on
  queue_start,
  queue_end,
  accepted,       \* entries Pipeline_queue has taken
  task,           \* task[r]: the asyncio state of entry r
  raised,         \* entries whose ready() call fails (see cprotocol.c)
  callbacks,      \* scheduled, not yet run, calls of _task_done
  protocol_refs,  \* references to the protocol the pipeline accounts for
  emitted,        \* history: the entries ready() was called on with success
  failed,         \* history: some ready() call has failed
  aborted         \* the assertion of Pipeline_queue stopped the process

vars == <<queue, queue_start, queue_end, accepted, task, raised, callbacks,
          protocol_refs, emitted, failed, aborted>>

Entries == 1..MaxEntries
Slots == 0..QueueLen-1

\* An entry without a task carries its response and counts as finished.
TaskState == {"none", "response", "pending", "cancelling", "done"}

Finished(r) == task[r] \in {"response", "done"}

PIPELINE_EMPTY == queue_start = queue_end

\* The entries the pipeline still holds.
Window == {queue[i] : i \in queue_start..queue_end-1}

Emitted == {emitted[i] : i \in DOMAIN emitted}

---------------------------------------------------------------------------
Init ==
  /\ queue = [i \in Slots |-> 0]
  /\ queue_start = 0
  /\ queue_end = 0
  /\ accepted = 0
  /\ task = [r \in Entries |-> "none"]
  /\ raised = {}
  /\ callbacks = 0
  /\ protocol_refs = 0
  /\ emitted = <<>>
  /\ failed = FALSE
  /\ aborted = FALSE

(***************************************************************************)
(* Definitions named X_Something are variants of X with a plausible bug:   *)
(* each breaks a property, which shows that the property watches X.        *)
(***************************************************************************)
(***************************************************************************)
(* Pipeline_queue.  Only an empty pipeline starts again at slot 0: while   *)
(* one entry or more is held, queue_end only grows.                        *)
(***************************************************************************)
QueueAt(start, end, refs, r, kind) ==
  IF end < QueueLen
  THEN /\ queue' = [queue EXCEPT ![end] = r]
       /\ queue_start' = start
       /\ queue_end' = end + 1
       /\ protocol_refs' = refs
       /\ accepted' = r
       /\ task' = [task EXCEPT ![r] = kind]
       /\ UNCHANGED aborted
  ELSE /\ aborted' = TRUE
       /\ UNCHANGED <<queue, queue_start, queue_end, protocol_refs, accepted, task>>

\* The restart at slot 0 leaves queue_start where it was.
Queue_HalfReset(kind, raises) ==
  /\ ~aborted
  /\ accepted < MaxEntries
  /\ IF PIPELINE_EMPTY
     THEN QueueAt(queue_start, 0, protocol_refs + 1, accepted + 1, kind)
     ELSE QueueAt(queue_start, queue_end, protocol_refs, accepted + 1, kind)
  /\ raised' = IF raises THEN raised \cup {accepted + 1} ELSE raised
  /\ UNCHANGED <<callbacks, emitted, failed>>

Queue(kind, raises) ==
  /\ ~aborted
  /\ accepted < MaxEntries
  /\ IF PIPELINE_EMPTY
     THEN QueueAt(0, 0, protocol_refs + 1, accepted + 1, kind)
     ELSE QueueAt(queue_start, queue_end, protocol_refs, accepted + 1, kind)
  /\ raised' = IF raises THEN raised \cup {accepted + 1} ELSE raised
  /\ UNCHANGED <<callbacks, emitted, failed>>

\* Protocol_handle_coro queues a task it has just created; a plain response
\* is queued only behind something (Protocol_on_body).
QueueTask == Queue("pending", FALSE)
\* A plain response is queued even when nothing is in front of it.
QueueResponse_Always(raises) == Queue("response", raises)

QueueResponse(raises) == ~PIPELINE_EMPTY /\ Queue("response", raises)

(***************************************************************************)
(* An asyncio task finishes, as far as the pipeline can see: done() turns  *)
(* true and the loop schedules the callback added by Pipeline_queue.  A    *)
(* handler that raised makes the later ready() call fail.                  *)
(***************************************************************************)
\* add_done_callback is missing: the task finishes unnoticed.
FinishTask_NoCallback(r, raises) ==
  /\ ~aborted
  /\ r \in Window
  /\ task[r] \in {"pending", "cancelling"}
  /\ task' = [task EXCEPT ![r] = "done"]
  /\ raised' = IF raises THEN raised \cup {r} ELSE raised
  /\ UNCHANGED <<queue, queue_start, queue_end, accepted, callbacks, protocol_refs,
                 emitted, failed, aborted>>

FinishTask(r, raises) ==
  /\ ~aborted
  /\ r \in Window
  /\ task[r] \in {"pending", "cancelling"}
  /\ task' = [task EXCEPT ![r] = "done"]
  /\ raised' = IF raises THEN raised \cup {r} ELSE raised
  /\ callbacks' = callbacks + 1
  /\ UNCHANGED <<queue, queue_start, queue_end, accepted, protocol_refs,
                 emitted, failed, aborted>>

(***************************************************************************)
(* Pipeline__task_done: hand on the finished entries at the front.  The    *)
(* callback does not look at which task it was called for.  failing is the *)
(* set of entries whose ready() returns NULL: at the first of them the     *)
(* function leaves through its error path, before the line that stores     *)
(* queue_start.                                                            *)
(***************************************************************************)
\* done() is not consulted.
Blocked_NotAsked(i, failing) == queue[i] \in failing

Blocked(i, failing) == ~Finished(queue[i]) \/ queue[i] \in failing

FirstBlocked(stop, failing) ==
  /\ stop \in queue_start..queue_end
  /\ \A i \in queue_start..stop-1 : ~Blocked(i, failing)
  /\ stop < queue_end => Blocked(stop, failing)

ReadyFailed(stop, failing) ==
  stop < queue_end /\ Finished(queue[stop]) /\ queue[stop] \in failing

\* The loop starts at the first slot, not at queue_start.
HandOn_FromSlot0(stop) ==
  emitted' = emitted \o [i \in 1..(stop - queue_start) |-> queue[i - 1]]

HandOn(stop) ==
  emitted' = emitted \o [i \in 1..(stop - queue_start) |-> queue[queue_start + i - 1]]

\* The pipeline never gives its reference back.
TaskDone_NoRelease(failing) ==
  /\ ~aborted
  /\ callbacks > 0
  /\ callbacks' = callbacks - 1
  /\ \E stop \in queue_start..queue_end :
       /\ FirstBlocked(stop, failing)
       /\ HandOn(stop)
       /\ IF ReadyFailed(stop, failing)
          THEN failed' = TRUE /\ UNCHANGED queue_start
          ELSE queue_start' = stop /\ UNCHANGED failed
  /\ UNCHANGED <<queue, queue_end, accepted, task, raised, aborted, protocol_refs>>

\* A failing entry is dropped from the queue.
TaskDone_DropFailing(failing) ==
  /\ ~aborted
  /\ callbacks > 0
  /\ callbacks' = callbacks - 1
  /\ \E stop \in queue_start..queue_end :
       /\ FirstBlocked(stop, failing)
       /\ HandOn(stop)
       /\ failed' = (failed \/ ReadyFailed(stop, failing))
       /\ queue_start' = IF ReadyFailed(stop, failing) THEN stop + 1 ELSE stop
  /\ UNCHANGED <<queue, queue_end, accepted, task, raised, aborted, protocol_refs>>

TaskDone(failing) ==
  /\ ~aborted
  /\ callbacks > 0
  /\ callbacks' = callbacks - 1
  /\ \E stop \in queue_start..queue_end :
       /\ FirstBlocked(stop, failing)
       /\ HandOn(stop)
       /\ IF ReadyFailed(stop, failing)
          THEN /\ failed' = TRUE
               /\ UNCHANGED <<queue_start, protocol_refs>>
          ELSE /\ queue_start' = stop
               /\ protocol_refs' = IF stop = queue_end THEN protocol_refs - 1
                                                       ELSE protocol_refs
               /\ UNCHANGED failed
  /\ UNCHANGED <<queue, queue_end, accepted, task, raised, aborted>>

(***************************************************************************)
(* Pipeline_cancel: cancel() on every task held; a finished one ignores it.*)
(***************************************************************************)
Cancel ==
  /\ ~aborted
  /\ task' = [r \in Entries |->
                IF r \in Window /\ task[r] = "pending" THEN "cancelling" ELSE task[r]]
  /\ UNCHANGED <<queue, queue_start, queue_end, accepted, raised, callbacks,
                 protocol_refs, emitted, failed, aborted>>

\* Until the connection is lost ready() fails for the entries in raised; the
\* protocol of a lost connection drops every response without failing.
AnyTaskDone == \E failing \in {raised, {}} : TaskDone(failing)

Next ==
  \/ QueueTask
  \/ \E raises \in BOOLEAN : QueueResponse(raises)
  \/ \E r \in Entries : \E raises \in BOOLEAN : FinishTask(r, raises)
  \/ AnyTaskDone
  \/ Cancel

Spec == Init /\ [][Next]_vars

\* The event loop runs every callback it scheduled.
FairSpec == Spec /\ WF_vars(AnyTaskDone)

---------------------------------------------------------------------------
TypeOK ==
  /\ queue \in [Slots -> 0..MaxEntries]
  /\ queue_start \in 0..QueueLen
  /\ queue_end \in 0..QueueLen
  /\ accepted \in 0..MaxEntries
  /\ task \in [Entries -> TaskState]
  /\ raised \subseteq Entries
  /\ callbacks \in Nat
  /\ protocol_refs \in Int
  /\ emitted \in Seq(Entries)
  /\ failed \in BOOLEAN
  /\ aborted \in BOOLEAN

\* The window holds the latest entries, in the order they were queued, and
\* nothing else: no slot of it is skipped, overwritten or left over from an
\* earlier lap when Pipeline_queue starts again at slot 0.
WindowContiguous ==
  /\ queue_start <= queue_end
  /\ \A i \in queue_start..queue_end-1 :
        queue[i] = accepted - (queue_end - 1 - i)

\* Responses are handed to ready() in request order, each once, for any
\* order in which the tasks finish and any order of the callbacks, as long
\* as no ready() call has failed.
InOrder == failed \/ emitted = [i \in 1..(accepted - (queue_end - queue_start)) |-> i]

\* Even after a failure no entry leaves the pipeline unanswered: whatever is
\* no longer in the window was handed to ready() with success.
NothingSkipped == \A r \in 1..accepted : r \in Window \/ r \in Emitted

\* No lost wakeup: when the entry at the front can be handed on, a callback
\* that will do it is scheduled.  A plain response never waits at the front,
\* where no callback would ever come for it.
WakeupPending ==
  ~failed /\ ~PIPELINE_EMPTY /\ Finished(queue[queue_start]) => callbacks > 0

\* The pipeline never keeps a closed connection's protocol alive: when it is
\* empty it holds no reference, and never more than one.
NoReferenceLeak == protocol_refs <= 1 /\ (PIPELINE_EMPTY => protocol_refs <= 0)

(***************************************************************************)
(* The promise of OrderedResponses, with the history as its output.        *)
(***************************************************************************)
Promise == INSTANCE OrderedResponses WITH
  arrived <- accepted,
  complete <- {r \in Entries : Finished(r)},
  output <- emitted,
  broken <- failed

\* The pipeline implements the in-order promise.
ImplementsPromise == Promise!Spec

\* A response is not held back: once it and everything before it is known,
\* it is handed on, unless a failing entry is in the way or the assertion of
\* Pipeline_queue ended the process.
HandedOn ==
  \A r \in Entries :
    (r <= accepted /\ \A q \in 1..r : Finished(q))
      ~> (r \in Emitted \/ failed \/ aborted)

---------------------------------------------------------------------------
\* "we will become non empty so hold a reference to protocol" and "we became
\* empty so release protocol" (cpipeline.c): the reference count follows the
\* queue.  Two tasks that finish before the first callback runs break it.
ReferenceFollowsQueue == protocol_refs = IF PIPELINE_EMPTY THEN 0 ELSE 1

\* assert(queue_end < 10) in Pipeline_queue: there is always a slot.
AlwaysASlot == ~aborted
===========================================================================
