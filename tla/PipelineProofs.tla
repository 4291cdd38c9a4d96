-------------------------- MODULE PipelineProofs --------------------------
(***************************************************************************)
(* Theorems about Pipeline, for every QueueLen and MaxEntries.             *)
(***************************************************************************)
EXTENDS Pipeline, SequenceTheorems, TLAPS

\* Entries that were not queued yet have no task.
FutureUntouched == \A r \in Entries : r > accepted => task[r] = "none"

\* What is in the window has been accepted.
WindowAccepted == queue_end - queue_start <= accepted

\* The strengthening of the run's invariants that is inductive.
IInv ==
  /\ TypeOK
  /\ WindowContiguous
  /\ WindowAccepted
  /\ FutureUntouched
  /\ InOrder
  /\ WakeupPending
  /\ NoReferenceLeak

---------------------------------------------------------------------------
(***************************************************************************)
(* Initially the pipeline is empty.                                        *)
(***************************************************************************)
LEMMA InitIInv == Init => IInv
<1> SUFFICES ASSUME Init PROVE IInv
  OBVIOUS
<1>1. TypeOK
  BY PipelineAssumption DEF Init, TypeOK, Entries, Slots, TaskState
<1>2. WindowContiguous /\ WindowAccepted /\ WakeupPending /\ NoReferenceLeak
  BY DEF Init, WindowContiguous, WindowAccepted, WakeupPending,
         NoReferenceLeak, PIPELINE_EMPTY
<1>3. FutureUntouched
  BY DEF Init, FutureUntouched, Entries
<1>4. InOrder
  BY DEF Init, InOrder
<1> QED
  BY <1>1, <1>2, <1>3, <1>4 DEF IInv

(***************************************************************************)
(* Pipeline_queue keeps the invariant.  A plain response must not be the   *)
(* first entry: nothing would ever call _task_done for it.                 *)
(***************************************************************************)
LEMMA QueueIInv ==
  ASSUME IInv, NEW kind \in {"pending", "response"}, NEW raises \in BOOLEAN, Queue(kind, raises),
         kind = "response" => ~PIPELINE_EMPTY
  PROVE  IInv'
<1> USE PipelineAssumption DEF IInv, Entries, Slots
<1>0. /\ accepted < MaxEntries
      /\ raised' \subseteq Entries
      /\ UNCHANGED <<callbacks, emitted, failed>>
  BY DEF Queue, TypeOK
<1>1. CASE aborted'
  <2>1. UNCHANGED <<queue, queue_start, queue_end, protocol_refs, accepted, task>>
    BY <1>1 DEF Queue, QueueAt, TypeOK
  <2> QED
    BY <1>0, <1>1, <2>1 DEF TypeOK, WindowContiguous, WindowAccepted,
       FutureUntouched, InOrder, WakeupPending, NoReferenceLeak,
       PIPELINE_EMPTY, Finished
<1>2. CASE ~aborted'
  <2> DEFINE start == IF PIPELINE_EMPTY THEN 0 ELSE queue_start
             end   == IF PIPELINE_EMPTY THEN 0 ELSE queue_end
             refs  == IF PIPELINE_EMPTY THEN protocol_refs + 1 ELSE protocol_refs
  <2>1. /\ end < QueueLen
        /\ queue' = [queue EXCEPT ![end] = accepted + 1]
        /\ queue_start' = start
        /\ queue_end' = end + 1
        /\ protocol_refs' = refs
        /\ accepted' = accepted + 1
        /\ task' = [task EXCEPT ![accepted + 1] = kind]
        /\ UNCHANGED aborted
    BY <1>2 DEF Queue, QueueAt
  <2>2. /\ start \in Nat /\ end \in Nat /\ start <= end
        /\ end - start = queue_end - queue_start
        /\ PIPELINE_EMPTY => start = end
    BY DEF TypeOK, PIPELINE_EMPTY, WindowContiguous
  <2>3. TypeOK'
    <3>1. queue' \in [Slots -> 0..MaxEntries]
      BY <1>0, <2>1, <2>2 DEF TypeOK
    <3>2. queue_start' \in 0..QueueLen /\ queue_end' \in 0..QueueLen
      BY <2>1, <2>2 DEF TypeOK
    <3>3. accepted' \in 0..MaxEntries /\ protocol_refs' \in Int
      BY <1>0, <2>1 DEF TypeOK
    <3>4. task' \in [Entries -> TaskState]
      BY <2>1 DEF TypeOK, TaskState
    <3> QED
      BY <1>0, <2>1, <3>1, <3>2, <3>3, <3>4 DEF TypeOK
  <2> HIDE DEF start, end, refs
  <2>4. WindowContiguous'
    <3> SUFFICES ASSUME NEW i \in queue_start'..queue_end'-1
                 PROVE  queue'[i] = accepted' - (queue_end' - 1 - i)
      BY <2>1, <2>2 DEF WindowContiguous
    <3>1. CASE i = end
      BY <2>1, <2>2, <3>1 DEF TypeOK
    <3>2. CASE i # end
      <4>1. i \in start..end-1 /\ i \in Slots
        BY <2>1, <2>2, <3>2
      <4>2. ~PIPELINE_EMPTY /\ start = queue_start /\ end = queue_end
        BY <2>2, <4>1 DEF start, end
      <4>3. queue[i] = accepted - (queue_end - 1 - i)
        BY <4>1, <4>2 DEF WindowContiguous
      <4> QED
        BY <2>1, <2>2, <3>2, <4>1, <4>2, <4>3 DEF TypeOK
    <3> QED
      BY <3>1, <3>2
  <2>5. WindowAccepted'
    BY <2>1, <2>2 DEF WindowAccepted, TypeOK
  <2>6. FutureUntouched'
    BY <1>0, <2>1 DEF FutureUntouched, TypeOK
  <2>7. InOrder'
    BY <1>0, <2>1, <2>2 DEF InOrder, TypeOK
  <2>8. WakeupPending'
    <3> SUFFICES ASSUME ~failed', ~PIPELINE_EMPTY', Finished(queue[queue_start])'
                 PROVE  callbacks' > 0
      BY DEF WakeupPending
    <3>1. CASE PIPELINE_EMPTY
      <4>1. queue'[queue_start'] = accepted + 1
        BY <2>1, <2>2, <3>1 DEF TypeOK
      <4>2. task'[accepted + 1] = "pending"
        BY <1>0, <2>1, <3>1 DEF TypeOK
      <4> QED
        BY <4>1, <4>2 DEF Finished
    <3>2. CASE ~PIPELINE_EMPTY
      <4>1. start = queue_start /\ end = queue_end /\ start < end
        BY <2>2, <3>2 DEF start, end, PIPELINE_EMPTY, TypeOK
      <4>2. queue'[queue_start'] = queue[queue_start]
        BY <2>1, <2>2, <4>1 DEF TypeOK
      <4>3. queue[queue_start] = accepted - (queue_end - 1 - queue_start)
        BY <2>2, <4>1 DEF WindowContiguous
      <4>4. queue[queue_start] # accepted + 1
        BY <2>2, <4>1, <4>3 DEF TypeOK
      <4>5. queue[queue_start] \in Entries
        BY <2>2, <4>1, <4>3 DEF TypeOK, WindowAccepted
      <4>6. Finished(queue[queue_start])
        BY <2>1, <4>2, <4>4, <4>5 DEF Finished, TypeOK
      <4> QED
        BY <1>0, <3>2, <4>6 DEF WakeupPending
    <3> QED
      BY <3>1, <3>2
  <2>9. NoReferenceLeak'
    <3>1. ~PIPELINE_EMPTY'
      BY <2>1, <2>2 DEF PIPELINE_EMPTY
    <3> QED
      BY <2>1, <3>1 DEF NoReferenceLeak, refs, TypeOK
  <2> QED
    BY <2>3, <2>4, <2>5, <2>6, <2>7, <2>8, <2>9
<1> QED
  BY <1>1, <1>2

(***************************************************************************)
(* A task that finishes schedules a callback, so the front is never left   *)
(* waiting for one.                                                        *)
(***************************************************************************)
LEMMA FinishIInv ==
  ASSUME IInv, NEW r \in Entries, NEW raises \in BOOLEAN, FinishTask(r, raises)
  PROVE  IInv'
<1>1. TypeOK'
  BY DEF IInv, TypeOK, FinishTask, TaskState
<1>2. callbacks' > 0
  BY DEF IInv, TypeOK, FinishTask
<1>3. FutureUntouched'
  BY DEF IInv, TypeOK, FutureUntouched, FinishTask
<1> QED
  BY <1>1, <1>2, <1>3 DEF IInv, FinishTask, WindowContiguous, WindowAccepted,
     InOrder, WakeupPending, NoReferenceLeak, PIPELINE_EMPTY

(***************************************************************************)
(* cancel() changes nothing about the entries that are finished.           *)
(***************************************************************************)
LEMMA CancelIInv == ASSUME IInv, Cancel PROVE IInv'
<1>1. TypeOK'
  BY DEF IInv, TypeOK, Cancel, TaskState
<1>2. FutureUntouched'
  BY DEF IInv, TypeOK, FutureUntouched, Cancel, Entries
<1>3. WakeupPending'
  <2> SUFFICES ASSUME ~failed', ~PIPELINE_EMPTY', Finished(queue[queue_start])'
               PROVE  callbacks' > 0
    BY DEF WakeupPending
  <2>1. queue_start \in queue_start..queue_end-1
    BY DEF IInv, TypeOK, Cancel, WindowContiguous, PIPELINE_EMPTY
  <2>2. queue[queue_start] \in Entries
    BY <2>1, PipelineAssumption
    DEF IInv, TypeOK, WindowContiguous, WindowAccepted, Entries
  <2>3. Finished(queue[queue_start])
    BY <2>2 DEF Finished, Cancel
  <2> QED
    BY <2>3 DEF IInv, WakeupPending, Cancel, PIPELINE_EMPTY
<1> QED
  BY <1>1, <1>2, <1>3 DEF IInv, Cancel, WindowContiguous, WindowAccepted,
     InOrder, NoReferenceLeak, PIPELINE_EMPTY

(***************************************************************************)
(* What one run of _task_done hands on: the next entries, in order.        *)
(***************************************************************************)
LEMMA HandOnOrder ==
  ASSUME IInv, NEW stop \in queue_start..queue_end, HandOn(stop)
  PROVE  /\ emitted' \in Seq(Entries)
         /\ ~failed => emitted' = [i \in 1..(accepted - (queue_end - stop)) |-> i]
<1> DEFINE tail == [i \in 1..(stop - queue_start) |-> queue[queue_start + i - 1]]
           k == accepted - (queue_end - queue_start)
           n == stop - queue_start
<1>1. /\ queue_start \in Nat /\ queue_end \in Nat /\ accepted \in Nat
      /\ queue_start <= queue_end /\ k \in Nat /\ n \in Nat /\ accepted <= MaxEntries
  BY PipelineAssumption DEF IInv, TypeOK, WindowContiguous, WindowAccepted
<1>2. \A i \in 1..n : tail[i] = k + i
  BY <1>1 DEF IInv, WindowContiguous
<1>3. tail \in Seq(Entries)
  <2>1. \A i \in 1..n : tail[i] \in Entries
    BY <1>1, <1>2, PipelineAssumption DEF Entries
  <2> QED
    BY <1>1, <2>1
<1>4. emitted' = emitted \o tail
  BY DEF HandOn
<1>5. emitted' \in Seq(Entries)
  BY <1>3, <1>4 DEF IInv, TypeOK
<1>6. ASSUME ~failed
      PROVE  emitted' = [i \in 1..(accepted - (queue_end - stop)) |-> i]
  <2>1. emitted = [i \in 1..k |-> i]
    BY <1>6 DEF IInv, InOrder
  <2>2. Len(emitted) = k /\ Len(tail) = n
    BY <1>1, <2>1
  <2>3. accepted - (queue_end - stop) = k + n
    BY <1>1
  <2>4. emitted \in Seq(Entries) /\ tail \in Seq(Entries)
    BY <1>3 DEF IInv, TypeOK
  <2> HIDE DEF tail, k, n
  <2>5. /\ Len(emitted') = k + n
        /\ \A i \in 1..k+n : emitted'[i] = IF i <= k THEN emitted[i] ELSE tail[i - k]
    BY <1>4, <2>2, <2>4, ConcatProperties
  <2>6. \A i \in 1..k+n : emitted'[i] = i
    BY <1>1, <1>2, <2>1, <2>5
  <2>7. emitted' = [i \in 1..k+n |-> emitted'[i]]
    BY <1>5, <2>5
  <2> QED
    BY <2>3, <2>6, <2>7
<1> QED
  BY <1>5, <1>6

(***************************************************************************)
(* _task_done keeps the invariant whichever entries fail.  On the error    *)
(* path the indices stay and only the history grows.                       *)
(***************************************************************************)
LEMMA TaskDoneIInv ==
  ASSUME IInv, NEW failing, TaskDone(failing)
  PROVE  IInv'
<1> USE PipelineAssumption
<1>1. PICK stop \in queue_start..queue_end :
        /\ FirstBlocked(stop, failing)
        /\ HandOn(stop)
        /\ IF ReadyFailed(stop, failing)
           THEN failed' = TRUE /\ UNCHANGED <<queue_start, protocol_refs>>
           ELSE /\ queue_start' = stop
                /\ protocol_refs' = IF stop = queue_end THEN protocol_refs - 1
                                                        ELSE protocol_refs
                /\ UNCHANGED failed
  BY DEF TaskDone
<1>2. /\ UNCHANGED <<queue, queue_end, accepted, task, raised, aborted>>
      /\ callbacks' \in Nat
  BY DEF TaskDone, IInv, TypeOK
<1>3. /\ emitted' \in Seq(Entries)
      /\ ~failed => emitted' = [i \in 1..(accepted - (queue_end - stop)) |-> i]
  BY <1>1, HandOnOrder
<1>4. FutureUntouched'
  BY <1>2 DEF IInv, FutureUntouched
<1>5. CASE ReadyFailed(stop, failing)
  <2>1. failed' /\ UNCHANGED <<queue_start, protocol_refs>>
    BY <1>1, <1>5
  <2>2. TypeOK'
    BY <1>1, <1>2, <1>3, <1>5 DEF IInv, TypeOK
  <2> QED
    BY <1>2, <1>4, <2>1, <2>2
    DEF IInv, WindowContiguous, WindowAccepted, InOrder, WakeupPending,
        NoReferenceLeak, PIPELINE_EMPTY
<1>6. CASE ~ReadyFailed(stop, failing)
  <2>1. /\ queue_start' = stop
        /\ protocol_refs' = IF stop = queue_end THEN protocol_refs - 1 ELSE protocol_refs
        /\ UNCHANGED failed
    BY <1>1, <1>6
  <2>2. stop \in 0..QueueLen
    BY DEF IInv, TypeOK
  <2>3. TypeOK'
    BY <1>2, <1>3, <2>1, <2>2 DEF IInv, TypeOK
  <2>4. WindowContiguous' /\ WindowAccepted'
    BY <1>2, <2>1, <2>2 DEF IInv, TypeOK, WindowContiguous, WindowAccepted
  <2>5. InOrder'
    BY <1>2, <1>3, <2>1 DEF InOrder
  <2>6. WakeupPending'
    <3>1. stop < queue_end => ~Finished(queue[stop])
      BY <1>1, <1>6 DEF FirstBlocked, Blocked, ReadyFailed
    <3>2. ~PIPELINE_EMPTY' => stop < queue_end
      BY <1>2, <2>1, <2>2 DEF IInv, TypeOK, PIPELINE_EMPTY
    <3> QED
      BY <1>2, <2>1, <3>1, <3>2 DEF WakeupPending, Finished
  <2>7. NoReferenceLeak'
    <3>1. protocol_refs \in Int /\ protocol_refs <= 1
      BY DEF IInv, TypeOK, NoReferenceLeak
    <3> QED
      BY <1>2, <2>1, <3>1 DEF NoReferenceLeak, PIPELINE_EMPTY
  <2> QED
    BY <1>4, <2>3, <2>4, <2>5, <2>6, <2>7 DEF IInv
<1> QED
  BY <1>5, <1>6

(***************************************************************************)
(* The invariant holds in every state of every instance.                   *)
(***************************************************************************)
THEOREM Inductive == Spec => []IInv
<1>1. IInv /\ [Next]_vars => IInv'
  <2> SUFFICES ASSUME IInv, [Next]_vars PROVE IInv'
    OBVIOUS
  <2>1. CASE QueueTask
    BY <2>1, QueueIInv DEF QueueTask
  <2>2. ASSUME NEW raises \in BOOLEAN, QueueResponse(raises) PROVE IInv'
    BY <2>2, QueueIInv DEF QueueResponse
  <2>3. ASSUME NEW r \in Entries, NEW raises \in BOOLEAN, FinishTask(r, raises)
        PROVE  IInv'
    BY <2>3, FinishIInv
  <2>4. ASSUME NEW failing, TaskDone(failing) PROVE IInv'
    BY <2>4, TaskDoneIInv
  <2>5. CASE Cancel
    BY <2>5, CancelIInv
  <2>6. CASE UNCHANGED vars
    BY <2>6 DEF vars, IInv, TypeOK, WindowContiguous, WindowAccepted,
       FutureUntouched, InOrder, WakeupPending, NoReferenceLeak,
       PIPELINE_EMPTY, Finished
  <2> QED
    BY <2>1, <2>2, <2>3, <2>4, <2>5, <2>6 DEF Next, AnyTaskDone
<1> QED
  BY InitIInv, <1>1, PTL DEF Spec

(***************************************************************************)
(* The variables keep their types; in particular the queue indices stay    *)
(* within the array of Pipeline.queue.                                     *)
(***************************************************************************)
THEOREM TypeCorrect == Spec => []TypeOK
BY Inductive, PTL DEF IInv

(***************************************************************************)
(* The window is the contiguous run of the latest entries.                 *)
(***************************************************************************)
THEOREM WindowIsContiguous == Spec => []WindowContiguous
BY Inductive, PTL DEF IInv

(***************************************************************************)
(* Responses are handed on in request order and once, as long as no        *)
(* ready() call fails, however many tasks finish in whatever order.        *)
(***************************************************************************)
THEOREM ResponsesInOrder == Spec => []InOrder
BY Inductive, PTL DEF IInv

(***************************************************************************)
(* The front of the queue never waits for a callback nobody scheduled.     *)
(***************************************************************************)
THEOREM NoLostWakeup == Spec => []WakeupPending
BY Inductive, PTL DEF IInv

(***************************************************************************)
(* An empty pipeline keeps no reference to its protocol.                   *)
(***************************************************************************)
THEOREM ReferencesReturned == Spec => []NoReferenceLeak
BY Inductive, PTL DEF IInv

---------------------------------------------------------------------------
(***************************************************************************)
(* Nothing leaves the window unanswered, failures included.                *)
(***************************************************************************)
LEMMA SkipFree ==
  ASSUME IInv, NothingSkipped, [Next]_vars
  PROVE  NothingSkipped'
<1> USE PipelineAssumption DEF NothingSkipped
<1>1. ASSUME NEW kind \in {"pending", "response"}, NEW raises \in BOOLEAN, Queue(kind, raises)
      PROVE  NothingSkipped'
  <2>1. CASE aborted'
    BY <1>1, <2>1 DEF Queue, QueueAt, IInv, TypeOK, Window, Emitted
  <2>2. CASE ~aborted'
    <3>1. PICK start \in Nat, end \in Nat :
             /\ end < QueueLen
             /\ start..end-1 \subseteq Int
             /\ queue' = [queue EXCEPT ![end] = accepted + 1]
             /\ queue_start' = start
             /\ queue_end' = end + 1
             /\ accepted' = accepted + 1
             /\ UNCHANGED emitted
             /\ \/ start = queue_start /\ end = queue_end
                \/ PIPELINE_EMPTY /\ start = 0 /\ end = 0
      BY <1>1, <2>2 DEF Queue, QueueAt, IInv, TypeOK
    <3>2. start <= end
      BY <3>1 DEF IInv, WindowContiguous
    <3>3. accepted + 1 \in Window'
      BY <3>1, <3>2 DEF Window, IInv, TypeOK, Slots
    <3>4. \A r \in Window : r \in Window'
      <4> SUFFICES ASSUME NEW i \in queue_start..queue_end-1
                   PROVE  queue[i] \in Window'
        BY DEF Window
      <4>1. start = queue_start /\ end = queue_end /\ i # end
        BY <3>1 DEF PIPELINE_EMPTY, IInv, TypeOK
      <4>2. queue'[i] = queue[i] /\ i \in queue_start'..queue_end'-1
        BY <3>1, <4>1 DEF IInv, TypeOK, Slots
      <4> QED
        BY <4>2 DEF Window
    <3> QED
      BY <3>1, <3>3, <3>4 DEF Emitted, IInv, TypeOK
  <2> QED
    BY <2>1, <2>2
<1>2. ASSUME NEW failing, TaskDone(failing)
      PROVE  NothingSkipped'
  <2>1. PICK stop \in queue_start..queue_end :
          HandOn(stop) /\ queue_start' \in {queue_start, stop}
    BY <1>2 DEF TaskDone
  <2>2. UNCHANGED <<queue, queue_end, accepted>>
    BY <1>2 DEF TaskDone
  <2> DEFINE tail == [i \in 1..(stop - queue_start) |-> queue[queue_start + i - 1]]
  <2>3. /\ queue_start \in Nat /\ queue_end \in Nat /\ stop \in Nat
        /\ emitted \in Seq(Entries) /\ emitted' \in Seq(Entries)
    BY <1>2, TaskDoneIInv DEF IInv, TypeOK
  <2>4. \A i \in 1..(stop - queue_start) : tail[i] \in Entries
    BY <2>3 DEF IInv, TypeOK, WindowContiguous, WindowAccepted, Entries
  <2>5. tail \in Seq(Entries) /\ Len(tail) = stop - queue_start
    BY <2>3, <2>4
  <2>6. emitted' = emitted \o tail
    BY <2>1 DEF HandOn
  <2> HIDE DEF tail
  <2>7. \A r \in Emitted : r \in Emitted'
    <3> SUFFICES ASSUME NEW i \in DOMAIN emitted PROVE emitted[i] \in Emitted'
      BY DEF Emitted
    <3>1. i \in 1..Len(emitted) /\ Len(emitted) \in Nat /\ Len(tail) \in Nat
      BY <2>3, <2>5
    <3>2. i \in 1..Len(emitted') /\ emitted'[i] = emitted[i]
      BY <2>3, <2>5, <2>6, <3>1, ConcatProperties
    <3> QED
      BY <2>3, <3>2 DEF Emitted
  <2>8. \A i \in queue_start..stop-1 : queue[i] \in Emitted'
    <3> SUFFICES ASSUME NEW i \in queue_start..stop-1 PROVE queue[i] \in Emitted'
      OBVIOUS
    <3>1. i - queue_start + 1 \in 1..Len(tail) /\ tail[i - queue_start + 1] = queue[i]
      BY <2>3, <2>5 DEF tail
    <3>2. /\ Len(emitted) + (i - queue_start + 1) \in 1..Len(emitted')
          /\ emitted'[Len(emitted) + (i - queue_start + 1)] = queue[i]
      BY <2>3, <2>5, <2>6, <3>1, ConcatProperties
    <3> QED
      BY <2>3, <3>2 DEF Emitted
  <2>9. \A r \in Window : r \in Window' \/ r \in Emitted'
    BY <2>1, <2>2, <2>3, <2>8 DEF Window
  <2> QED
    BY <2>2, <2>7, <2>9
<1>3. CASE \E r \in Entries : \E raises \in BOOLEAN : FinishTask(r, raises)
  BY <1>3 DEF FinishTask, Window, Emitted
<1>4. CASE Cancel
  BY <1>4 DEF Cancel, Window, Emitted
<1>5. CASE UNCHANGED vars
  BY <1>5 DEF vars, Window, Emitted
<1> QED
  BY <1>1, <1>2, <1>3, <1>4, <1>5 DEF Next, AnyTaskDone, QueueTask, QueueResponse

(***************************************************************************)
(* Every entry that is no longer held was handed to ready() with success,  *)
(* in every behavior, failures included.                                   *)
(***************************************************************************)
THEOREM NoEntrySkipped == Spec => []NothingSkipped
<1>1. Init => NothingSkipped
  BY DEF Init, NothingSkipped
<1> QED
  BY <1>1, SkipFree, Inductive, PTL DEF Spec

---------------------------------------------------------------------------
(***************************************************************************)
(* Refinement of OrderedResponses.  Queueing is an arrival, a task that    *)
(* finishes a completion, and one run of _task_done one Send, or no step   *)
(* at all when the front is not finished.                                  *)
(***************************************************************************)
LEMMA QueueRefines ==
  ASSUME IInv, ~failed, NEW kind \in {"pending", "response"}, NEW raises \in BOOLEAN, Queue(kind, raises)
  PROVE  Promise!Arrive \/ UNCHANGED Promise!vars
<1> USE PipelineAssumption
<1> DEFINE complete == {r \in Entries : Finished(r)}
<1>1. UNCHANGED <<emitted, failed>> /\ accepted < MaxEntries
  BY DEF Queue
<1>2. CASE aborted'
  <2>1. UNCHANGED <<task, accepted>>
    BY <1>2 DEF Queue, QueueAt, IInv, TypeOK
  <2> QED
    BY <1>1, <2>1 DEF Promise!vars, Finished
<1>3. CASE ~aborted'
  <2>1. accepted' = accepted + 1 /\ task' = [task EXCEPT ![accepted + 1] = kind]
    BY <1>3 DEF Queue, QueueAt
  <2>2. accepted + 1 \in Entries /\ task[accepted + 1] = "none"
    BY <1>1 DEF IInv, TypeOK, FutureUntouched, Entries
  <2>3. task' \in [Entries -> TaskState] /\ task \in [Entries -> TaskState]
    BY <2>1, <2>2 DEF IInv, TypeOK, TaskState
  <2>4. \A r \in Entries \ {accepted + 1} : Finished(r)' <=> Finished(r)
    BY <2>1, <2>2, <2>3 DEF Finished
  <2>5. complete' = IF kind = "response" THEN complete \cup {accepted + 1} ELSE complete
    BY <2>1, <2>2, <2>3, <2>4 DEF Finished
  <2> QED
    BY <1>1, <2>1, <2>5 DEF Promise!Arrive
<1> QED
  BY <1>2, <1>3

LEMMA FinishRefines ==
  ASSUME IInv, NEW r \in Entries, NEW raises \in BOOLEAN, FinishTask(r, raises)
  PROVE  \E q \in 1..accepted : Promise!Complete(q)
<1>1. r \in 1..accepted
  BY PipelineAssumption
  DEF FinishTask, IInv, TypeOK, FutureUntouched, Entries
<1>2. \A q \in Entries : Finished(q)' <=> Finished(q) \/ q = r
  BY DEF FinishTask, Finished, IInv, TypeOK
<1>3. {q \in Entries : Finished(q)}' = {q \in Entries : Finished(q)} \cup {r}
  BY <1>2
<1> QED
  BY <1>1, <1>3 DEF FinishTask, Promise!Complete

\* Whatever has left the window is finished, and stays so.
LeftFinished == \A r \in 1..accepted : r \in Window \/ Finished(r)

LEMMA LeftFinishedStep ==
  ASSUME IInv, LeftFinished, [Next]_vars
  PROVE  LeftFinished'
<1> USE PipelineAssumption DEF LeftFinished
<1>1. ASSUME NEW kind \in {"pending", "response"}, NEW raises \in BOOLEAN, Queue(kind, raises)
      PROVE  LeftFinished'
  <2>1. CASE aborted'
    BY <1>1, <2>1 DEF Queue, QueueAt, IInv, TypeOK, Window, Finished
  <2>2. CASE ~aborted'
    <3>1. PICK start \in Nat, end \in Nat :
             /\ end < QueueLen
             /\ queue' = [queue EXCEPT ![end] = accepted + 1]
             /\ queue_start' = start
             /\ queue_end' = end + 1
             /\ accepted' = accepted + 1
             /\ task' = [task EXCEPT ![accepted + 1] = kind]
             /\ \/ start = queue_start /\ end = queue_end
                \/ PIPELINE_EMPTY /\ start = 0 /\ end = 0
      BY <1>1, <2>2 DEF Queue, QueueAt, IInv, TypeOK
    <3>2. start <= end
      BY <3>1 DEF IInv, WindowContiguous
    <3>3. accepted + 1 \in Window'
      BY <3>1, <3>2 DEF Window, IInv, TypeOK, Slots
    <3>4. ASSUME NEW r \in 1..accepted PROVE r \in Window' \/ Finished(r)'
      <4>1. CASE Finished(r)
        BY <3>1, <4>1 DEF Finished, IInv, TypeOK, Entries
      <4>2. ASSUME NEW i \in queue_start..queue_end-1, r = queue[i]
            PROVE  r \in Window'
        <5>1. start = queue_start /\ end = queue_end /\ i # end
          BY <3>1 DEF PIPELINE_EMPTY, IInv, TypeOK
        <5>2. queue'[i] = queue[i] /\ i \in queue_start'..queue_end'-1
          BY <3>1, <5>1 DEF IInv, TypeOK, Slots
        <5> QED
          BY <4>2, <5>2 DEF Window
      <4> QED
        BY <4>1, <4>2 DEF Window
    <3> QED
      BY <3>1, <3>3, <3>4 DEF IInv, TypeOK
  <2> QED
    BY <2>1, <2>2
<1>2. ASSUME NEW failing, TaskDone(failing)
      PROVE  LeftFinished'
  <2>1. PICK stop \in queue_start..queue_end :
          FirstBlocked(stop, failing) /\ queue_start' \in {queue_start, stop}
    BY <1>2 DEF TaskDone
  <2>2. UNCHANGED <<queue, queue_end, accepted, task>>
    BY <1>2 DEF TaskDone
  <2>3. ASSUME NEW i \in queue_start..queue_end-1
        PROVE  queue[i] \in Window' \/ Finished(queue[i])
    BY <2>1, <2>2 DEF IInv, TypeOK, FirstBlocked, Blocked, Window
  <2> QED
    BY <2>2, <2>3 DEF Window, Finished
<1>3. CASE \E r \in Entries : \E raises \in BOOLEAN : FinishTask(r, raises)
  BY <1>3 DEF FinishTask, Window, Finished, IInv, TypeOK
<1>4. CASE Cancel
  BY <1>4 DEF Cancel, Window, Finished, IInv, TypeOK, Entries
<1>5. CASE UNCHANGED vars
  BY <1>5 DEF vars, Window, Finished
<1> QED
  BY <1>1, <1>2, <1>3, <1>4, <1>5 DEF Next, AnyTaskDone, QueueTask, QueueResponse

LEMMA TaskDoneRefines ==
  ASSUME IInv, IInv', ~failed, ~failed', NEW failing, TaskDone(failing), LeftFinished
  PROVE  (\E n \in 1..accepted : Promise!Send(n)) \/ UNCHANGED Promise!vars
<1> USE PipelineAssumption
<1>1. PICK stop \in queue_start..queue_end :
        /\ FirstBlocked(stop, failing)
        /\ HandOn(stop)
        /\ queue_start' = stop
  BY DEF TaskDone
<1>2. UNCHANGED <<queue, queue_end, accepted, task, failed>>
  BY DEF TaskDone
<1>3. UNCHANGED {r \in Entries : Finished(r)}
  BY <1>2 DEF Finished
<1> DEFINE k == accepted - (queue_end - queue_start)
           n == accepted - (queue_end - stop)
<1>4. /\ k \in Nat /\ n \in Nat /\ k <= n /\ n <= accepted
      /\ queue_start \in Nat /\ queue_end \in Nat /\ stop \in Nat
      /\ accepted \in 0..MaxEntries
  BY DEF IInv, TypeOK, WindowContiguous, WindowAccepted
<1>5. emitted = [i \in 1..k |-> i] /\ emitted' = [i \in 1..n |-> i]
  BY <1>1, <1>2 DEF IInv, InOrder
<1>6. CASE n = k
  BY <1>2, <1>3, <1>5, <1>6 DEF Promise!vars
<1>7. CASE n > k
  <2>1. ASSUME NEW q \in 1..n PROVE q \in Entries /\ Finished(q)
    <3>0. q \in Entries /\ q \in 1..accepted
      BY <1>4 DEF Entries
    <3>1. ASSUME NEW i \in queue_start..queue_end-1, q = queue[i] PROVE Finished(q)
      <4>1. q = accepted - (queue_end - 1 - i)
        BY <3>1 DEF IInv, WindowContiguous
      <4>2. i \in queue_start..stop-1
        BY <1>4, <4>1
      <4> QED
        BY <1>1, <3>1, <4>2 DEF FirstBlocked, Blocked
    <3> QED
      BY <3>0, <3>1 DEF Window, LeftFinished
  <2>2. Len(emitted) = k
    BY <1>4, <1>5
  <2>3. n \in 1..accepted
    BY <1>4, <1>7
  <2> HIDE DEF n, k
  <2>4. Promise!Send(n)
    BY <1>2, <1>3, <1>4, <1>5, <1>7, <2>1, <2>2 DEF Promise!Send
  <2> QED
    BY <2>3, <2>4
<1> QED
  BY <1>4, <1>6, <1>7

(***************************************************************************)
(* The pipeline implements the in-order promise of OrderedResponses: the   *)
(* history of ready() calls behaves, up to the first failing call, like    *)
(* the output of a server that answers one request after the other.        *)
(***************************************************************************)
THEOREM PipelineKeepsPromise == Spec => ImplementsPromise
<1>1. Init => Promise!Init /\ LeftFinished
  BY PipelineAssumption DEF Init, Promise!Init, LeftFinished, Finished, Entries
<1>2. IInv /\ IInv' /\ LeftFinished /\ [Next]_vars => [Promise!Next]_(Promise!vars)
  <2> SUFFICES ASSUME IInv, IInv', LeftFinished, [Next]_vars
               PROVE  Promise!Next \/ UNCHANGED Promise!vars
    OBVIOUS
  <2>1. CASE failed'
    BY <2>1 DEF Promise!Next, Promise!Break
  <2>2. CASE ~failed'
    <3>0. ~failed
      BY <2>2 DEF Next, AnyTaskDone, vars, QueueTask, QueueResponse, Queue, FinishTask, TaskDone,
                  Cancel, IInv, TypeOK
    <3>1. ASSUME NEW kind \in {"pending", "response"}, NEW raises \in BOOLEAN, Queue(kind, raises)
          PROVE  Promise!Next \/ UNCHANGED Promise!vars
      BY <3>0, <3>1, QueueRefines DEF Promise!Next
    <3>2. ASSUME NEW r \in Entries, NEW raises \in BOOLEAN, FinishTask(r, raises)
          PROVE  Promise!Next
      BY <3>0, <3>2, FinishRefines DEF Promise!Next
    <3>3. ASSUME NEW failing, TaskDone(failing)
          PROVE  Promise!Next \/ UNCHANGED Promise!vars
      BY <2>2, <3>0, <3>3, TaskDoneRefines DEF Promise!Next
    <3>4. CASE Cancel
      <4>1. {r \in Entries : Finished(r)}' = {r \in Entries : Finished(r)}
        BY <3>4 DEF Cancel, Finished, IInv, TypeOK, Entries
      <4> QED
        BY <3>4, <4>1 DEF Cancel, Promise!vars
    <3>5. CASE UNCHANGED vars
      BY <3>5 DEF vars, Promise!vars, Finished
    <3> QED
      BY <3>1, <3>2, <3>3, <3>4, <3>5 DEF Next, AnyTaskDone, QueueTask, QueueResponse
  <2> QED
    BY <2>1, <2>2
<1> QED
  BY <1>1, <1>2, Inductive, LeftFinishedStep, PTL DEF Spec, ImplementsPromise, Promise!Spec
===========================================================================
