-------------------------- MODULE ProtocolProofs --------------------------
(***************************************************************************)
(* Theorems about Protocol, for every value of its constants: it drives    *)
(* the pipeline within the rules of Pipeline, so what PipelineProofs shows *)
(* of any pipeline holds of the one inside a connection.                   *)
(***************************************************************************)
EXTENDS Protocol, SequenceTheorems, FiniteSetTheorems, WellFoundedInduction, TLAPS

PP == INSTANCE PipelineProofs WITH MaxEntries <- MaxRequests

(***************************************************************************)
(* Every step of the protocol is a step of its pipeline or leaves it alone.*)
(***************************************************************************)
LEMMA StepIsPipelineStep == [Next]_vars => [P!Next]_(P!vars)
<1> SUFFICES ASSUME [Next]_vars PROVE P!Next \/ UNCHANGED pipeline_vars
  BY DEF P!vars, pipeline_vars
<1>1. CASE DataReceived
  BY <1>1 DEF DataReceived
<1>2. CASE Feed
  <2>1. CASE ExcessiveData \/ MalformedHead
    BY <2>1 DEF ExcessiveData, MalformedHead, RejectHead
  <2>2. CASE IncompleteHead
    BY <2>2 DEF IncompleteHead
  <2>3. ASSUME NEW k \in Kinds, OnBody(k)
        PROVE  P!Next \/ UNCHANGED pipeline_vars
    <3>1. ASSUME NEW more \in BOOLEAN, OnBodyTask(k, more) PROVE P!Next
      BY <3>1 DEF OnBodyTask, P!Next
    <3>2. ASSUME NEW more \in BOOLEAN, OnBodyQueued(k, more) PROVE P!Next
      <4>1. k.raises \in BOOLEAN
        BY ProtocolAssumption DEF RequestKind
      <4> QED
        BY <3>2, <4>1 DEF OnBodyQueued, P!Next
    <3>3. ASSUME NEW more \in BOOLEAN, OnBodyWritten(k, more)
          PROVE  UNCHANGED pipeline_vars
      BY <3>3 DEF OnBodyWritten
    <3>4. CASE OnBodyFailed(k)
      BY <3>4 DEF OnBodyFailed
    <3> QED
      BY <2>3, <3>1, <3>2, <3>3, <3>4 DEF OnBody
  <2> QED
    BY <1>2, <2>1, <2>2, <2>3 DEF Feed
<1>3. ASSUME NEW e \in Numbers, NEW raises \in BOOLEAN, FinishTask(e, raises)
      PROVE  P!Next
  BY <1>3 DEF FinishTask, P!Next, P!Entries, Numbers
<1>4. CASE TaskDone
  BY <1>4 DEF TaskDone, Failing, P!Next, P!AnyTaskDone
<1>5. CASE CloseTransport
  BY <1>5 DEF CloseTransport
<1>6. CASE ConnectionLost
  BY <1>6 DEF ConnectionLost, P!Next
<1>7. CASE UNCHANGED vars
  BY <1>7 DEF vars
<1> QED
  BY <1>1, <1>2, <1>3, <1>4, <1>5, <1>6, <1>7 DEF Next, AnyTaskFinishes

(***************************************************************************)
(* The protocol implements the specification of the pipeline.              *)
(***************************************************************************)
THEOREM ProtocolUsesPipeline == Spec => UsesPipeline
<1>1. Init => P!Init
  BY DEF Init
<1> QED
  BY <1>1, StepIsPipelineStep, PTL DEF Spec, UsesPipeline, P!Spec

(***************************************************************************)
(* The two instances of Pipeline, of Protocol and of PipelineProofs, are   *)
(* the same specification.                                                 *)
(***************************************************************************)
LEMMA SamePipeline == P!Spec => PP!Spec
<1>1. P!Init => PP!Init
  BY DEF P!Init, PP!Init, P!Slots, PP!Slots, P!Entries, PP!Entries
<1>2. [P!Next]_(P!vars) => [PP!Next]_(PP!vars)
  BY DEF P!Next, PP!Next, P!QueueTask, PP!QueueTask, P!QueueResponse,
     PP!QueueResponse, P!Queue, PP!Queue, P!QueueAt, PP!QueueAt,
     P!FinishTask, PP!FinishTask, P!AnyTaskDone, PP!AnyTaskDone,
     P!TaskDone, PP!TaskDone, P!FirstBlocked, PP!FirstBlocked, P!Blocked,
     PP!Blocked, P!ReadyFailed, PP!ReadyFailed, P!HandOn, PP!HandOn,
     P!Finished, PP!Finished, P!Cancel, PP!Cancel, P!Window, PP!Window,
     P!Entries, PP!Entries, P!PIPELINE_EMPTY, PP!PIPELINE_EMPTY,
     P!vars, PP!vars
<1> QED
  BY <1>1, <1>2, PTL DEF P!Spec, PP!Spec

(***************************************************************************)
(* On every connection, whatever bytes and handlers do: ready() is called  *)
(* in request order, no finished response waits without a callback that    *)
(* will hand it on, and an empty pipeline keeps no reference to a protocol *)
(* that is gone.                                                           *)
(***************************************************************************)
THEOREM ConnectionKeepsOrder ==
  Spec => [](P!InOrder /\ P!WakeupPending /\ P!NoReferenceLeak)
<1>1. PP!PipelineAssumption
  BY ProtocolAssumption DEF PP!PipelineAssumption
<1>2. PP!Spec => []PP!InOrder /\ []PP!WakeupPending /\ []PP!NoReferenceLeak
  BY <1>1, PP!ResponsesInOrder, PP!NoLostWakeup, PP!ReferencesReturned
<1>3. PP!InOrder /\ PP!WakeupPending /\ PP!NoReferenceLeak
        => P!InOrder /\ P!WakeupPending /\ P!NoReferenceLeak
  BY DEF P!InOrder, PP!InOrder, P!WakeupPending, PP!WakeupPending,
     P!NoReferenceLeak, PP!NoReferenceLeak, P!PIPELINE_EMPTY,
     PP!PIPELINE_EMPTY, P!Finished, PP!Finished
<1> QED
  BY <1>2, <1>3, ProtocolUsesPipeline, SamePipeline, PTL DEF UsesPipeline
---------------------------------------------------------------------------
(***************************************************************************)
(* Induction, from the well-foundedness of the naturals.                   *)
(***************************************************************************)
LEMMA LeastOf ==
  ASSUME NEW T \in SUBSET Nat, T # {}
  PROVE  \E x \in T : \A y \in T : x <= y
<1>1. PICK x \in T : \A y \in T : ~ (<<y, x>> \in OpToRel(<, Nat))
  BY NatLessThanWellFounded, WFMin
<1>2. \A y \in T : ~(y < x)
  BY <1>1 DEF OpToRel
<1> QED
  BY <1>2

LEMMA Induct ==
  ASSUME NEW S \in SUBSET Nat, 0 \in S, \A n \in S : n + 1 \in S
  PROVE  S = Nat
<1> SUFFICES ASSUME S # Nat PROVE FALSE
  OBVIOUS
<1> DEFINE T == Nat \ S
<1>1. T \in SUBSET Nat /\ T # {}
  OBVIOUS
<1> HIDE DEF T
<1>2. PICK x \in T : \A y \in T : x <= y
  BY <1>1, LeastOf
<1> USE DEF T
<1>3. x \in Nat /\ x # 0 /\ x \notin S
  OBVIOUS
<1>4. x - 1 \in Nat /\ x - 1 \notin T
  BY <1>2, <1>3
<1> QED
  BY <1>3, <1>4
---------------------------------------------------------------------------
(***************************************************************************)
(* Sequences of responses as sets that come before one another.            *)
(***************************************************************************)
\* u may stand in front of v.
MayPrecede(u, v, rej) == u # v /\ (u < v \/ u \in rej)

\* Every response of the set x may stand in front of every one of y.
Before(x, y, rej) == \A u \in x, v \in y : MayPrecede(u, v, rej)

Tidy(l, rej) == \A i, j \in DOMAIN l : i < j => MayPrecede(l[i], l[j], rej)

\* The n responses are on the line or gone, each once, and in order.
Arranged(l, gone, n, rej) ==
  /\ l \in Seq(1..n)
  /\ Tidy(l, rej)
  /\ ToSet(l) \cap gone = {}
  /\ ToSet(l) \cup gone = 1..n

LEMMA FunctionIsSeq ==
  ASSUME NEW T, NEW m \in Nat, NEW f \in [1..m -> T]
  PROVE  f \in Seq(T) /\ Len(f) = m
OBVIOUS

LEMMA Associative ==
  ASSUME NEW S, NEW x \in Seq(S), NEW y \in Seq(S), NEW z \in Seq(S)
  PROVE  (x \o y) \o z = x \o (y \o z)
<1> DEFINE l == (x \o y) \o z
           r == x \o (y \o z)
<1>1. l \in Seq(S) /\ r \in Seq(S) /\ Len(l) = Len(r)
  OBVIOUS
<1>2. \A i \in 1..Len(l) : l[i] = r[i]
  OBVIOUS
<1> HIDE DEF l, r
<1>3. l = r
  BY <1>1, <1>2, SeqEqual
<1> QED
  BY <1>3 DEF l, r

LEMMA Associates ==
  ASSUME NEW n
  PROVE  \A x, y, z \in Seq(1..n) : (x \o y) \o z = x \o (y \o z)
<1> DEFINE T == 1..n
<1>1. \A x, y, z \in Seq(T) : (x \o y) \o z = x \o (y \o z)
  <2> HIDE DEF T
  <2> QED
    BY Associative
<1> QED
  BY <1>1

\* Concatenation in these terms.
LEMMA Joined ==
  ASSUME NEW S, NEW a \in Seq(S), NEW b \in Seq(S), NEW rej
  PROVE  /\ a \o b \in Seq(S)
         /\ ToSet(a \o b) = ToSet(a) \cup ToSet(b)
         /\ Tidy(a \o b, rej) <=> Tidy(a, rej) /\ Tidy(b, rej) /\ Before(ToSet(a), ToSet(b), rej)
<1> DEFINE c == a \o b
<1>1. /\ c \in Seq(S) /\ Len(a) \in Nat /\ Len(b) \in Nat
      /\ DOMAIN c = 1..Len(a) + Len(b) /\ DOMAIN a = 1..Len(a) /\ DOMAIN b = 1..Len(b)
      /\ \A i \in 1..Len(a) : c[i] = a[i]
      /\ \A i \in 1..Len(b) : c[Len(a) + i] = b[i]
  OBVIOUS
<1> HIDE DEF c
<1>2. ToSet(c) = ToSet(a) \cup ToSet(b)
  <2>1. ASSUME NEW i \in DOMAIN c PROVE c[i] \in ToSet(a) \cup ToSet(b)
    <3>1. CASE i <= Len(a)
      BY <1>1, <3>1 DEF ToSet
    <3>2. CASE i > Len(a)
      <4>1. i - Len(a) \in 1..Len(b) /\ c[i] = b[i - Len(a)]
        BY <1>1, <3>2
      <4> QED
        BY <1>1, <4>1 DEF ToSet
    <3> QED
      BY <1>1, <3>1, <3>2
  <2>2. ASSUME NEW i \in DOMAIN a PROVE a[i] \in ToSet(c)
    BY <1>1 DEF ToSet
  <2>3. ASSUME NEW i \in DOMAIN b PROVE b[i] \in ToSet(c)
    <3>1. Len(a) + i \in DOMAIN c /\ c[Len(a) + i] = b[i]
      BY <1>1
    <3> QED
      BY <3>1 DEF ToSet
  <2> QED
    BY <2>1, <2>2, <2>3 DEF ToSet
<1>3. ASSUME Tidy(c, rej) PROVE Tidy(a, rej) /\ Tidy(b, rej) /\ Before(ToSet(a), ToSet(b), rej)
  <2>1. Tidy(a, rej)
    BY <1>1, <1>3 DEF Tidy
  <2>2. ASSUME NEW i \in DOMAIN b, NEW j \in DOMAIN b, i < j PROVE MayPrecede(b[i], b[j], rej)
    <3>1. /\ Len(a) + i \in DOMAIN c /\ Len(a) + j \in DOMAIN c /\ Len(a) + i < Len(a) + j
          /\ c[Len(a) + i] = b[i] /\ c[Len(a) + j] = b[j]
      BY <1>1, <2>2
    <3> QED
      BY <3>1, <1>3 DEF Tidy
  <2>3. ASSUME NEW i \in DOMAIN a, NEW j \in DOMAIN b PROVE MayPrecede(a[i], b[j], rej)
    <3>1. /\ i \in DOMAIN c /\ Len(a) + j \in DOMAIN c /\ i < Len(a) + j
          /\ c[i] = a[i] /\ c[Len(a) + j] = b[j]
      BY <1>1, <2>3
    <3> QED
      BY <3>1, <1>3 DEF Tidy
  <2> QED
    BY <2>1, <2>2, <2>3 DEF Tidy, Before, ToSet
<1>4. ASSUME Tidy(a, rej), Tidy(b, rej), Before(ToSet(a), ToSet(b), rej) PROVE Tidy(c, rej)
  <2> SUFFICES ASSUME NEW i \in DOMAIN c, NEW j \in DOMAIN c, i < j
               PROVE  MayPrecede(c[i], c[j], rej)
    BY DEF Tidy
  <2>1. CASE j <= Len(a)
    <3>1. i \in DOMAIN a /\ j \in DOMAIN a /\ c[i] = a[i] /\ c[j] = a[j]
      BY <1>1, <2>1
    <3> QED
      BY <3>1, <1>4 DEF Tidy
  <2>2. CASE i > Len(a)
    <3>1. /\ i - Len(a) \in DOMAIN b /\ j - Len(a) \in DOMAIN b /\ i - Len(a) < j - Len(a)
          /\ c[i] = b[i - Len(a)] /\ c[j] = b[j - Len(a)]
      BY <1>1, <2>2
    <3> QED
      BY <3>1, <1>4 DEF Tidy
  <2>3. CASE i <= Len(a) /\ j > Len(a)
    <3>1. /\ i \in DOMAIN a /\ j - Len(a) \in DOMAIN b /\ c[i] = a[i] /\ c[j] = b[j - Len(a)]
      BY <1>1, <2>3
    <3>2. c[i] \in ToSet(a) /\ c[j] \in ToSet(b)
      BY <3>1 DEF ToSet
    <3> QED
      BY <3>2, <1>4 DEF Before
  <2> QED
    BY <1>1, <2>1, <2>2, <2>3
<1> QED
  BY <1>1, <1>2, <1>3, <1>4 DEF c

\* A piece of the line is given up.
LEMMA DropPiece ==
  ASSUME NEW n \in Nat, NEW a \in Seq(1..n), NEW b \in Seq(1..n), NEW c \in Seq(1..n),
         NEW gone, NEW rej, Arranged((a \o b) \o c, gone, n, rej)
  PROVE  Arranged(a \o c, gone \cup ToSet(b), n, rej)
<1>1. /\ a \o b \in Seq(1..n)
      /\ ToSet(a \o b) = ToSet(a) \cup ToSet(b)
      /\ Tidy(a \o b, rej) <=> Tidy(a, rej) /\ Tidy(b, rej) /\ Before(ToSet(a), ToSet(b), rej)
  BY Joined
<1>2. /\ ToSet((a \o b) \o c) = ToSet(a \o b) \cup ToSet(c)
      /\ Tidy((a \o b) \o c, rej) <=>
           Tidy(a \o b, rej) /\ Tidy(c, rej) /\ Before(ToSet(a \o b), ToSet(c), rej)
  <2> DEFINE d == a \o b
  <2>1. d \in Seq(1..n)
    BY <1>1
  <2> HIDE DEF d
  <2>2. /\ ToSet(d \o c) = ToSet(d) \cup ToSet(c)
        /\ Tidy(d \o c, rej) <=> Tidy(d, rej) /\ Tidy(c, rej) /\ Before(ToSet(d), ToSet(c), rej)
    BY <2>1, Joined, ZenonT(60)
  <2> QED
    BY <2>2 DEF d
<1>3. /\ a \o c \in Seq(1..n)
      /\ ToSet(a \o c) = ToSet(a) \cup ToSet(c)
      /\ Tidy(a \o c, rej) <=> Tidy(a, rej) /\ Tidy(c, rej) /\ Before(ToSet(a), ToSet(c), rej)
  BY Joined
<1>4. Tidy(a \o c, rej)
  BY <1>1, <1>2, <1>3 DEF Arranged, Before
<1>5. ToSet(b) \cap ToSet(a \o c) = {}
  <2>1. Before(ToSet(a), ToSet(b), rej) /\ Before(ToSet(b), ToSet(c), rej)
    BY <1>1, <1>2 DEF Arranged, Before
  <2> QED
    BY <1>3, <2>1 DEF Before, MayPrecede
<1> QED
  BY <1>1, <1>2, <1>3, <1>4, <1>5 DEF Arranged

\* The next response joins: at the end, or anywhere if its head was rejected.
LEMMA JoinLine ==
  ASSUME NEW n \in Nat, NEW a \in Seq(1..n), NEW b \in Seq(1..n), NEW gone, NEW rej, NEW rej2,
         Arranged(a \o b, gone, n, rej), rej \subseteq rej2, b = <<>> \/ n + 1 \in rej2
  PROVE  Arranged((a \o <<n + 1>>) \o b, gone, n + 1, rej2)
<1>1. a \in Seq(1..n + 1) /\ b \in Seq(1..n + 1) /\ <<n + 1>> \in Seq(1..n + 1)
  <2>1. 1..n \subseteq 1..n + 1
    OBVIOUS
  <2> QED
    BY <2>1, SeqMonotonic
<1>2. /\ ToSet(a \o b) = ToSet(a) \cup ToSet(b)
      /\ Tidy(a \o b, rej) <=> Tidy(a, rej) /\ Tidy(b, rej) /\ Before(ToSet(a), ToSet(b), rej)
  BY Joined
<1> DEFINE one == <<n + 1>>
<1>3. ToSet(one) = {n + 1} /\ Tidy(one, rej2) /\ one \in Seq(1..n + 1)
  BY <1>1 DEF ToSet, Tidy
<1> HIDE DEF one
<1>4. /\ a \o one \in Seq(1..n + 1)
      /\ ToSet(a \o one) = ToSet(a) \cup {n + 1}
      /\ Tidy(a \o one, rej2) <=> Tidy(a, rej2) /\ Before(ToSet(a), {n + 1}, rej2)
  <2>1. /\ a \o one \in Seq(1..n + 1)
        /\ ToSet(a \o one) = ToSet(a) \cup ToSet(one)
        /\ Tidy(a \o one, rej2) <=>
             Tidy(a, rej2) /\ Tidy(one, rej2) /\ Before(ToSet(a), ToSet(one), rej2)
    BY <1>1, <1>3, Joined
  <2> QED
    BY <1>3, <2>1
<1>5. /\ (a \o one) \o b \in Seq(1..n + 1)
      /\ ToSet((a \o one) \o b) = ToSet(a) \cup {n + 1} \cup ToSet(b)
      /\ Tidy((a \o one) \o b, rej2) <=>
           Tidy(a \o one, rej2) /\ Tidy(b, rej2)
             /\ Before(ToSet(a) \cup {n + 1}, ToSet(b), rej2)
  <2> DEFINE c == a \o one
  <2>1. c \in Seq(1..n + 1) /\ ToSet(c) = ToSet(a) \cup {n + 1}
    BY <1>4
  <2> HIDE DEF c
  <2>2. /\ c \o b \in Seq(1..n + 1)
        /\ ToSet(c \o b) = ToSet(c) \cup ToSet(b)
        /\ Tidy(c \o b, rej2) <=>
             Tidy(c, rej2) /\ Tidy(b, rej2) /\ Before(ToSet(c), ToSet(b), rej2)
    BY <1>1, <2>1, Joined
  <2> QED
    BY <2>1, <2>2 DEF c
<1>6. ToSet(a) \subseteq 1..n /\ ToSet(b) \subseteq 1..n
  BY <1>2 DEF Arranged
<1>7. Tidy(a, rej2) /\ Tidy(b, rej2) /\ Before(ToSet(a), ToSet(b), rej2)
  BY <1>2 DEF Arranged, Tidy, Before, MayPrecede
<1>8. Before(ToSet(a), {n + 1}, rej2)
  BY <1>6 DEF Before, MayPrecede
<1>9. Before({n + 1}, ToSet(b), rej2)
  <2>1. CASE b = <<>>
    BY <2>1 DEF Before, ToSet
  <2>2. CASE n + 1 \in rej2
    BY <1>6, <2>2 DEF Before, MayPrecede
  <2> QED
    BY <2>1, <2>2
<1>10. Tidy((a \o one) \o b, rej2)
  BY <1>4, <1>5, <1>7, <1>8, <1>9 DEF Before
<1>11. 1..n + 1 = 1..n \cup {n + 1}
  OBVIOUS
<1> QED
  BY <1>2, <1>5, <1>6, <1>10, <1>11 DEF Arranged, one

\* The next response is given up at once.
LEMMA GiveUp ==
  ASSUME NEW n \in Nat, NEW l, NEW gone, NEW rej, NEW rej2,
         Arranged(l, gone, n, rej), rej \subseteq rej2
  PROVE  Arranged(l, gone \cup {n + 1}, n + 1, rej2)
<1>1. l \in Seq(1..n + 1)
  <2>1. 1..n \subseteq 1..n + 1
    OBVIOUS
  <2> QED
    BY <2>1, SeqMonotonic DEF Arranged
<1>2. Tidy(l, rej2)
  BY DEF Arranged, Tidy, MayPrecede
<1>3. 1..n + 1 = 1..n \cup {n + 1} /\ n + 1 \notin 1..n
  OBVIOUS
<1> QED
  BY <1>1, <1>2, <1>3 DEF Arranged
---------------------------------------------------------------------------
(***************************************************************************)
(* Outputs: what a write makes of the line.                                *)
(***************************************************************************)
Transports == {"open", "draining", "closing", "lost"}

OutputType(n) ==
  [gather : Seq(1..n), transport : Transports, wire : Seq(1..n), dropped : SUBSET (1..n)]

Sent(out, r) == TransportWrite(Gather_flush(out), <<r>>)

\* Flushing and writing r: it all goes out, or it is all given up.
LEMMA Flushed ==
  ASSUME NEW n \in Nat, NEW out \in OutputType(n), NEW r \in 1..n
  PROVE  /\ Sent(out, r) \in OutputType(n)
         /\ Sent(out, r).gather = <<>>
         /\ Sent(out, r).transport = out.transport
         /\ \/ /\ out.transport \in {"open", "draining"}
               /\ Sent(out, r).wire = (out.wire \o out.gather) \o <<r>>
               /\ Sent(out, r).dropped = out.dropped
            \/ /\ out.transport \in {"closing", "lost"}
               /\ Sent(out, r).wire = out.wire
               /\ Sent(out, r).dropped = out.dropped \cup ToSet(out.gather) \cup {r}
<1> DEFINE one == <<r>>
           flat == Gather_flush(out)
           res == Sent(out, r)
<1>1. /\ out.gather \in Seq(1..n) /\ out.wire \in Seq(1..n) /\ out.dropped \in SUBSET (1..n)
      /\ out.transport \in Transports
      /\ out = [gather |-> out.gather, transport |-> out.transport, wire |-> out.wire,
                dropped |-> out.dropped]
  BY DEF OutputType
<1>2. one \in Seq(1..n) /\ ToSet(one) = {r}
  BY DEF ToSet
<1>3. out.wire \o out.gather \in Seq(1..n) /\ ToSet(out.gather) \subseteq 1..n
  BY <1>1, ConcatProperties, ElementOfSeq, LenProperties DEF ToSet
<1>4. (out.wire \o out.gather) \o one \in Seq(1..n)
  <2> DEFINE c == out.wire \o out.gather
  <2>1. c \in Seq(1..n)
    BY <1>3
  <2> HIDE DEF c, one
  <2>2. c \o one \in Seq(1..n)
    BY <2>1, <1>2, ConcatProperties
  <2> QED
    BY <2>2 DEF c
<1> HIDE DEF one
<1>5. CASE out.transport \in {"open", "draining"}
  <2>1. flat = [gather |-> <<>>, transport |-> out.transport,
                wire |-> out.wire \o out.gather, dropped |-> out.dropped]
    <3>1. CASE out.gather = <<>>
      <4>1. out.wire \o <<>> = out.wire
        BY <1>1, ConcatEmptySeq
      <4> QED
        BY <1>1, <3>1, <4>1 DEF Gather_flush
    <3>2. CASE out.gather # <<>>
      BY <1>1, <1>5, <3>2 DEF Gather_flush, TransportWrite
    <3> QED
      BY <3>1, <3>2
  <2>2. res = [gather |-> <<>>, transport |-> out.transport,
               wire |-> (out.wire \o out.gather) \o one, dropped |-> out.dropped]
    <3>1. res = TransportWrite(flat, one)
      BY DEF Sent, one
    <3> HIDE DEF flat, res
    <3> QED
      BY <2>1, <3>1, <1>5 DEF TransportWrite
  <2> HIDE DEF flat, res
  <2>3. /\ res \in OutputType(n)
        /\ res.gather = <<>> /\ res.transport = out.transport
        /\ res.wire = (out.wire \o out.gather) \o one /\ res.dropped = out.dropped
    BY <1>1, <1>4, <2>2 DEF OutputType
  <2> QED
    BY <1>5, <2>3 DEF one, res
<1>6. CASE out.transport \in {"closing", "lost"}
  <2>1. flat = [gather |-> <<>>, transport |-> out.transport,
                wire |-> out.wire, dropped |-> out.dropped \cup ToSet(out.gather)]
    <3>1. CASE out.gather = <<>>
      <4>1. ToSet(<<>>) = {}
        BY DEF ToSet
      <4> QED
        BY <1>1, <3>1, <4>1 DEF Gather_flush
    <3>2. CASE out.gather # <<>>
      BY <1>1, <1>6, <3>2 DEF Gather_flush, TransportWrite
    <3> QED
      BY <3>1, <3>2
  <2>2. res = [gather |-> <<>>, transport |-> out.transport,
               wire |-> out.wire, dropped |-> out.dropped \cup ToSet(out.gather) \cup {r}]
    <3>1. res = TransportWrite(flat, one)
      BY DEF Sent, one
    <3> HIDE DEF flat, res
    <3> QED
      BY <1>2, <2>1, <3>1, <1>6 DEF TransportWrite
  <2> HIDE DEF flat, res
  <2>3. /\ res \in OutputType(n)
        /\ res.gather = <<>> /\ res.transport = out.transport /\ res.wire = out.wire
        /\ res.dropped = out.dropped \cup ToSet(out.gather) \cup {r}
    <3>1. out.dropped \cup ToSet(out.gather) \cup {r} \in SUBSET (1..n)
      BY <1>1, <1>3
    <3> QED
      BY <1>1, <2>2, <3>1 DEF OutputType
  <2> QED
    BY <1>6, <2>3 DEF res
<1> QED
  BY <1>1, <1>5, <1>6 DEF Transports

\* Closing changes nothing but the transport.
LEMMA ClosedOutput ==
  ASSUME NEW n \in Nat, NEW out \in OutputType(n), NEW drain \in BOOLEAN
  PROVE  LET res == Protocol_close(out, drain)
         IN  /\ res \in OutputType(n)
             /\ res.gather = out.gather /\ res.wire = out.wire /\ res.dropped = out.dropped
             /\ res.transport # "open"
             /\ (out.transport = "lost") <=> (res.transport = "lost")
<1>1. /\ out.gather \in Seq(1..n) /\ out.wire \in Seq(1..n) /\ out.dropped \in SUBSET (1..n)
      /\ out.transport \in Transports
      /\ out = [gather |-> out.gather, transport |-> out.transport, wire |-> out.wire,
                dropped |-> out.dropped]
  BY DEF OutputType
<1> DEFINE res == Protocol_close(out, drain)
<1>2. PICK t \in Transports :
        /\ res = [gather |-> out.gather, transport |-> t, wire |-> out.wire,
                  dropped |-> out.dropped]
        /\ t # "open"
        /\ (out.transport = "lost") <=> (t = "lost")
  <2>1. CASE out.transport = "open"
    <3>1. PICK t \in {"draining", "closing"} : res = [out EXCEPT !.transport = t]
      BY <2>1 DEF Protocol_close
    <3> HIDE DEF res
    <3>2. res = [gather |-> out.gather, transport |-> t, wire |-> out.wire,
                 dropped |-> out.dropped]
      BY <3>1, <1>1
    <3> QED
      BY <2>1, <3>2 DEF Transports
  <2>2. CASE out.transport # "open"
    BY <2>2, <1>1 DEF Protocol_close
  <2> QED
    BY <2>1, <2>2
<1> HIDE DEF res
<1>3. res \in OutputType(n)
  BY <1>1, <1>2 DEF OutputType
<1> QED
  BY <1>2, <1>3 DEF res

\* A response whose turn it is on the line is gathered, sent or given up.
WrittenWell(res, on, out, r, q, n, rej) ==
  /\ res \in OutputType(n)
  /\ Len(res.gather) <= GatherMaxResp
  /\ ~on => res.gather = <<>>
  /\ res.transport = "open" => out.transport = "open" /\ res.dropped = out.dropped
  /\ (out.transport = "lost") <=> (res.transport = "lost")
  /\ Arranged((out.wire \o out.gather) \o (<<r>> \o q), out.dropped, n, rej)
       => Arranged((res.wire \o res.gather) \o q, res.dropped, n, rej)

LEMMA Written ==
  ASSUME NEW n \in Nat, NEW out \in OutputType(n), NEW r \in 1..n, NEW on \in BOOLEAN,
         NEW k \in RequestKind, NEW drain \in BOOLEAN, NEW q \in Seq(1..n), NEW rej,
         Len(out.gather) <= GatherMaxResp
  PROVE  WrittenWell(WriteResponse(out, on, r, k, drain), on, out, r, q, n, rej)
<1> DEFINE w == out.wire
           g == out.gather
           one == <<r>>
<1>1. /\ g \in Seq(1..n) /\ w \in Seq(1..n) /\ out.dropped \in SUBSET (1..n)
      /\ out.transport \in Transports
      /\ out = [gather |-> g, transport |-> out.transport, wire |-> w, dropped |-> out.dropped]
  BY DEF OutputType
<1>2. one \in Seq(1..n) /\ ToSet(one) = {r}
  BY DEF ToSet
<1>0. (w \o g) \o one = w \o (g \o one)
  <2>1. w \in Seq(1..n) /\ g \in Seq(1..n) /\ one \in Seq(1..n)
    BY <1>1, <1>2
  <2> HIDE DEF w, g, one
  <2> QED
    BY <2>1, Associates, SMTT(30)
<1> DEFINE sent == IF Gathers(out, on, k) THEN [out EXCEPT !.gather = Append(@, r)]
                   ELSE TransportWrite(Gather_flush(out), <<r>>)
<1>3. /\ sent \in OutputType(n)
      /\ Len(sent.gather) <= GatherMaxResp
      /\ ~on => sent.gather = <<>>
      /\ sent.transport = out.transport
      /\ sent.transport = "open" => sent.dropped = out.dropped
      /\ Arranged((w \o g) \o (one \o q), out.dropped, n, rej)
           => Arranged((sent.wire \o sent.gather) \o q, sent.dropped, n, rej)
  <2>1. CASE Gathers(out, on, k)
    <3>1. /\ sent = [gather |-> Append(g, r), transport |-> out.transport, wire |-> w,
                     dropped |-> out.dropped]
      BY <1>1, <2>1
    <3>2. /\ Append(g, r) \in Seq(1..n) /\ Len(Append(g, r)) = Len(g) + 1
          /\ Append(g, r) = g \o one /\ Len(g) \in Nat
      BY <1>1, AppendProperties, AppendIsConcat, LenProperties
    <3>3. Len(g) + 1 <= GatherMaxResp /\ on
      BY <2>1, <3>2, ProtocolAssumption DEF Gathers
    <3> HIDE DEF sent, one, w, g
    <3>4. (w \o (g \o one)) \o q = (w \o g) \o (one \o q)
      <4>1. w \o (g \o one) = (w \o g) \o one
        BY <1>0
      <4> DEFINE c == w \o g
      <4>2. c \in Seq(1..n)
        BY <1>1, ConcatProperties
      <4> HIDE DEF c
      <4>3. (c \o one) \o q = c \o (one \o q)
        BY <1>2, <4>2, Associates, SMTT(30)
      <4> QED
        BY <4>1, <4>3 DEF c
    <3>5. sent \in OutputType(n)
      BY <1>1, <3>1, <3>2 DEF OutputType
    <3> QED
      BY <3>1, <3>2, <3>3, <3>4, <3>5
  <2>2. CASE ~Gathers(out, on, k)
    <3>1. sent = Sent(out, r)
      BY <2>2 DEF Sent
    <3> HIDE DEF sent
    <3>2. /\ sent \in OutputType(n)
          /\ sent.gather = <<>>
          /\ sent.transport = out.transport
          /\ \/ /\ out.transport \in {"open", "draining"}
                /\ sent.wire = (w \o g) \o one
                /\ sent.dropped = out.dropped
             \/ /\ out.transport \in {"closing", "lost"}
                /\ sent.wire = w
                /\ sent.dropped = out.dropped \cup ToSet(g) \cup {r}
      BY <3>1, Flushed
    <3>3. Len(sent.gather) <= GatherMaxResp
      BY <3>2, ProtocolAssumption
    <3> HIDE DEF w, g, one
    <3>4. ASSUME Arranged((w \o g) \o (one \o q), out.dropped, n, rej)
          PROVE  Arranged((sent.wire \o sent.gather) \o q, sent.dropped, n, rej)
      <4>0. sent.wire \o sent.gather = sent.wire
        BY <3>2, ConcatEmptySeq DEF OutputType
      <4>1. CASE sent.wire = (w \o g) \o one /\ sent.dropped = out.dropped
        <5> DEFINE c == w \o g
        <5>1. c \in Seq(1..n)
          BY <1>1, ConcatProperties
        <5> HIDE DEF c
        <5>2. (c \o one) \o q = c \o (one \o q)
          BY <1>2, <5>1, Associates
        <5> QED
          BY <3>4, <4>0, <4>1, <5>2 DEF c
      <4>2. CASE sent.wire = w /\ sent.dropped = out.dropped \cup ToSet(g) \cup {r}
        <5> DEFINE b == g \o one
        <5>1. b \in Seq(1..n) /\ ToSet(b) = ToSet(g) \cup {r}
          <6>1. b \in Seq(1..n) /\ ToSet(b) = ToSet(g) \cup ToSet(one)
            BY <1>1, <1>2, Joined, ZenonT(30)
          <6> QED
            BY <6>1, <1>2
        <5>2. (w \o b) \o q = (w \o g) \o (one \o q)
          <6>1. w \o b = (w \o g) \o one
            BY <1>0
          <6> DEFINE c == w \o g
          <6>2. c \in Seq(1..n)
            BY <1>1, ConcatProperties
          <6> HIDE DEF c, b
          <6>3. (c \o one) \o q = c \o (one \o q)
            BY <1>2, <6>2, Associates
          <6> QED
            BY <6>1, <6>3 DEF c
        <5> HIDE DEF b
        <5>3. Arranged(w \o q, out.dropped \cup ToSet(b), n, rej)
          BY <1>1, <3>4, <5>1, <5>2, DropPiece
        <5>4. out.dropped \cup ToSet(b) = sent.dropped
          BY <4>2, <5>1
        <5> QED
          BY <4>0, <4>2, <5>3, <5>4
      <4> QED
        BY <3>2, <4>1, <4>2
    <3> QED
      BY <3>2, <3>3, <3>4
  <2> QED
    BY <2>1, <2>2
<1> DEFINE res == WriteResponse(out, on, r, k, drain)
<1>4. res = IF k.last THEN Protocol_close(sent, drain) ELSE sent
  BY DEF WriteResponse
<1> HIDE DEF sent, res
<1>5. CASE k.last
  <2>1. /\ res \in OutputType(n)
        /\ res.gather = sent.gather /\ res.wire = sent.wire /\ res.dropped = sent.dropped
        /\ res.transport # "open"
        /\ (sent.transport = "lost") <=> (res.transport = "lost")
    BY <1>3, <1>4, <1>5, ClosedOutput
  <2> QED
    BY <1>3, <2>1 DEF res, WrittenWell
<1>6. CASE ~k.last
  BY <1>3, <1>4, <1>6 DEF res, WrittenWell
<1> QED
  BY <1>5, <1>6

\* Flushing alone.
LEMMA FlushedLine ==
  ASSUME NEW n \in Nat, NEW out \in OutputType(n), NEW q \in Seq(1..n), NEW rej
  PROVE  LET res == Gather_flush(out)
         IN  /\ res \in OutputType(n)
             /\ res.gather = <<>>
             /\ res.transport = out.transport
             /\ res.transport = "open" => res.dropped = out.dropped
             /\ Arranged((out.wire \o out.gather) \o q, out.dropped, n, rej)
                  => Arranged((res.wire \o res.gather) \o q, res.dropped, n, rej)
<1> DEFINE w == out.wire
           g == out.gather
           res == Gather_flush(out)
<1>1. /\ g \in Seq(1..n) /\ w \in Seq(1..n) /\ out.dropped \in SUBSET (1..n)
      /\ out.transport \in Transports
      /\ out = [gather |-> g, transport |-> out.transport, wire |-> w, dropped |-> out.dropped]
  BY DEF OutputType
<1>2. CASE g = <<>>
  BY <1>1, <1>2 DEF Gather_flush
<1>3. CASE g # <<>> /\ out.transport \in {"open", "draining"}
  <2>1. res = [gather |-> <<>>, transport |-> out.transport, wire |-> w \o g,
               dropped |-> out.dropped]
    BY <1>1, <1>3 DEF Gather_flush, TransportWrite
  <2>2. w \o g \in Seq(1..n) /\ (w \o g) \o <<>> = w \o g
    BY <1>1, ConcatProperties, ConcatEmptySeq
  <2> HIDE DEF res, w, g
  <2>3. res \in OutputType(n)
    BY <1>1, <2>1, <2>2 DEF OutputType
  <2>4. /\ res.gather = <<>> /\ res.transport = out.transport /\ res.dropped = out.dropped
        /\ res.wire \o res.gather = w \o g
    BY <2>1, <2>2
  <2> QED
    BY <2>3, <2>4 DEF res, w, g
<1>4. CASE g # <<>> /\ out.transport \in {"closing", "lost"}
  <2>1. res = [gather |-> <<>>, transport |-> out.transport, wire |-> w,
               dropped |-> out.dropped \cup ToSet(g)]
    BY <1>1, <1>4 DEF Gather_flush, TransportWrite
  <2>2. w \o <<>> = w /\ ToSet(g) \subseteq 1..n
    BY <1>1, ConcatEmptySeq, ElementOfSeq, LenProperties DEF ToSet
  <2> HIDE DEF res, w, g
  <2>3. res \in OutputType(n)
    <3>1. out.dropped \cup ToSet(g) \in SUBSET (1..n)
      BY <1>1, <2>2
    <3> QED
      BY <1>1, <2>1, <3>1 DEF OutputType
  <2>4. /\ res.gather = <<>> /\ res.transport = out.transport
        /\ res.dropped = out.dropped \cup ToSet(g) /\ res.wire \o res.gather = w
    BY <2>1, <2>2
  <2>5. Arranged((w \o g) \o q, out.dropped, n, rej)
          => Arranged(w \o q, out.dropped \cup ToSet(g), n, rej)
    BY <1>1, DropPiece
  <2> QED
    BY <1>4, <2>3, <2>4, <2>5 DEF res, w, g
<1> QED
  BY <1>1, <1>2, <1>3, <1>4 DEF Transports

\* A larger number of responses.
LEMMA WiderOutput ==
  ASSUME NEW n \in Nat, NEW out \in OutputType(n)
  PROVE  out \in OutputType(n + 1)
<1>1. /\ out.gather \in Seq(1..n) /\ out.wire \in Seq(1..n) /\ out.dropped \in SUBSET (1..n)
      /\ out.transport \in Transports
      /\ out = [gather |-> out.gather, transport |-> out.transport, wire |-> out.wire,
                dropped |-> out.dropped]
  BY DEF OutputType
<1>2. 1..n \subseteq 1..n + 1
  OBVIOUS
<1>3. out.gather \in Seq(1..n + 1) /\ out.wire \in Seq(1..n + 1)
  BY <1>1, <1>2, SeqMonotonic
<1>4. out.dropped \in SUBSET (1..n + 1)
  BY <1>1, <1>2
<1> QED
  BY <1>1, <1>3, <1>4 DEF OutputType

---------------------------------------------------------------------------
(***************************************************************************)
(* The invariant of a connection, over that of its pipeline.               *)
(***************************************************************************)
\* What PipelineProofs shows of the pipeline, as far as it is needed.
PInv ==
  /\ P!TypeOK
  /\ P!WindowContiguous
  /\ P!InOrder
  /\ queue_end - queue_start <= accepted

\* Entries belong to requests that were seen.
OwnersKnown == \A e \in 1..accepted : owner[e] \in 1..requests

\* While the pipeline holds an entry nothing is gathered any more.
GatherOff == ~P!PIPELINE_EMPTY => ~enabled

OpenDropsNothing == transport = "open" => dropped = {}

\* The request that stopped the process in Pipeline_queue is nowhere.
Gone == IF aborted THEN dropped \cup {requests} ELSE dropped

LineInv == ~failed => Arranged(Line, Gone, requests, rejected)

CInv ==
  /\ TypeOK
  /\ OwnersKnown
  /\ GatherOff
  /\ GatherNotStranded
  /\ OpenDropsNothing
  /\ LineInv

LEMMA PipelineInv == Spec => []PInv
<1>1. PP!PipelineAssumption
  BY ProtocolAssumption DEF PP!PipelineAssumption
<1>2. PP!Spec => []PP!IInv
  BY <1>1, PP!Inductive
<1>3. PP!IInv => PInv
  BY DEF PP!IInv, PInv, PP!TypeOK, P!TypeOK, PP!WindowContiguous, P!WindowContiguous,
     PP!InOrder, P!InOrder, PP!WindowAccepted, PP!Slots, P!Slots, PP!Entries, P!Entries,
     PP!TaskState, P!TaskState
<1> QED
  BY <1>2, <1>3, ProtocolUsesPipeline, SamePipeline, PTL DEF UsesPipeline

\* What the pipeline holds, as requests.
LEMMA QueuedFacts ==
  ASSUME PInv, OwnersKnown, requests \in Nat
  PROVE  /\ Queued \in Seq(1..requests)
         /\ queue_end - queue_start \in Nat
         /\ Len(Queued) = queue_end - queue_start
         /\ \A i \in 1..queue_end - queue_start :
              /\ queue[queue_start + i - 1] \in 1..accepted
              /\ Queued[i] = owner[queue[queue_start + i - 1]]
<1>1. /\ queue_start \in Nat /\ queue_end \in Nat /\ accepted \in Nat
      /\ queue_start <= queue_end /\ queue_end - queue_start <= accepted
      /\ \A i \in queue_start..queue_end-1 : queue[i] = accepted - (queue_end - 1 - i)
  BY ProtocolAssumption DEF PInv, P!TypeOK, P!WindowContiguous
<1>2. ASSUME NEW i \in 1..queue_end - queue_start
      PROVE  queue[queue_start + i - 1] \in 1..accepted
  <2>1. queue_start + i - 1 \in queue_start..queue_end-1
    BY <1>1
  <2>2. queue[queue_start + i - 1] = accepted - (queue_end - 1 - (queue_start + i - 1))
    BY <1>1, <2>1
  <2> QED
    BY <1>1, <2>2
<1>3. \A i \in 1..queue_end - queue_start : owner[queue[queue_start + i - 1]] \in 1..requests
  BY <1>2 DEF OwnersKnown
<1> QED
  BY <1>1, <1>2, <1>3 DEF Queued

\* The output as it is.
LEMMA OutputTyped ==
  ASSUME CInv
  PROVE  /\ requests \in Nat
         /\ Output \in OutputType(requests)
         /\ Output.gather = gather /\ Output.wire = wire /\ Output.dropped = dropped
         /\ Output.transport = transport
BY DEF CInv, TypeOK, Output, OutputType, Transports
---------------------------------------------------------------------------
(***************************************************************************)
(* Steps that leave the line, and what is on it, alone.                    *)
(***************************************************************************)
LEMMA LineKept ==
  ASSUME CInv, PInv, PInv',
         UNCHANGED <<queue, queue_start, queue_end, accepted, failed, aborted>>,
         UNCHANGED <<request_vars, gather, wire, dropped>>,
         {tail', partial', body_state', close_seen'} \subseteq BOOLEAN,
         transport' \in Transports, transport' = "open" => transport = "open",
         tail' = TRUE \/ tail' = tail \/ transport' # "open"
  PROVE  CInv'
<1>1. UNCHANGED <<requests, kind, rejected, owner, enabled>>
  BY DEF request_vars
<1>2. TypeOK'
  BY <1>1 DEF CInv, TypeOK, PInv, Transports
<1>3. Queued' = Queued
  BY <1>1 DEF Queued
<1>4. LineInv'
  BY <1>1, <1>3 DEF CInv, LineInv, Line, Gone
<1>5. OwnersKnown' /\ GatherOff' /\ OpenDropsNothing'
  BY <1>1 DEF CInv, OwnersKnown, GatherOff, OpenDropsNothing, P!PIPELINE_EMPTY
<1>6. GatherNotStranded'
  BY DEF CInv, GatherNotStranded, P!PIPELINE_EMPTY
<1> QED
  BY <1>2, <1>4, <1>5, <1>6 DEF CInv

LEMMA QuietSteps ==
  ASSUME CInv, PInv, PInv',
         \/ DataReceived
         \/ \E e \in Numbers, raises \in BOOLEAN : FinishTask(e, raises)
         \/ CloseTransport
         \/ ConnectionLost
         \/ UNCHANGED vars
  PROVE  CInv'
<1>1. /\ {tail, partial, body_state, close_seen, enabled} \subseteq BOOLEAN
      /\ transport \in Transports
  BY DEF CInv, TypeOK, Transports
<1>2. CASE DataReceived
  BY <1>1, <1>2, LineKept DEF DataReceived, pipeline_vars, out_vars
<1>3. ASSUME NEW e \in Numbers, NEW raises \in BOOLEAN, FinishTask(e, raises) PROVE CInv'
  BY <1>1, <1>3, LineKept DEF FinishTask, P!FinishTask, parser_vars, out_vars
<1>4. CASE CloseTransport
  <2>1. PICK drain \in BOOLEAN : SetOutput(Protocol_close(Output, drain))
    BY <1>4 DEF CloseTransport
  <2> DEFINE res == Protocol_close(Output, drain)
  <2>2. /\ res \in OutputType(requests)
        /\ res.gather = gather /\ res.wire = wire /\ res.dropped = dropped
        /\ res.transport # "open"
    BY OutputTyped, ClosedOutput
  <2>3. gather' = res.gather /\ wire' = res.wire /\ dropped' = res.dropped
        /\ transport' = res.transport
    BY <2>1 DEF SetOutput
  <2> HIDE DEF res
  <2>4. transport' \in Transports
    BY <2>2, <2>3 DEF OutputType
  <2> QED
    BY <1>1, <1>4, <2>2, <2>3, <2>4, LineKept DEF CloseTransport, pipeline_vars, parser_vars
<1>5. CASE ConnectionLost
  BY <1>1, <1>5, LineKept DEF ConnectionLost, P!Cancel, ParserReset, Transports
<1>6. CASE UNCHANGED vars
  BY <1>1, <1>6, LineKept DEF vars, pipeline_vars, parser_vars, out_vars
<1> QED
  BY <1>2, <1>3, <1>4, <1>5, <1>6

LEMMA IncompleteInv == ASSUME CInv, PInv, PInv', ~aborted, IncompleteHead PROVE CInv'
<1> DEFINE res == Gather_flush(Output)
<1>1. /\ Queued \in Seq(1..requests)
      /\ requests \in Nat
  BY OutputTyped, QueuedFacts DEF CInv
<1>2. /\ res \in OutputType(requests)
      /\ res.gather = <<>>
      /\ res.transport = transport
      /\ res.transport = "open" => res.dropped = dropped
      /\ Arranged((wire \o gather) \o Queued, dropped, requests, rejected)
           => Arranged((res.wire \o res.gather) \o Queued, res.dropped, requests, rejected)
  BY <1>1, OutputTyped, FlushedLine
<1>3. /\ gather' = res.gather /\ wire' = res.wire /\ dropped' = res.dropped
      /\ transport' = res.transport
      /\ tail' = FALSE /\ partial' = TRUE
      /\ UNCHANGED <<queue, queue_start, queue_end, accepted, failed, aborted>>
      /\ UNCHANGED <<requests, kind, rejected, owner, enabled, body_state, close_seen>>
  BY DEF IncompleteHead, SetOutput, pipeline_vars, request_vars
<1> HIDE DEF res
<1>4. TypeOK'
  <2>1. /\ gather' \in Seq(1..requests') /\ gather' = <<>> /\ wire' \in Seq(1..requests')
        /\ dropped' \subseteq 1..requests' /\ transport' \in Transports
    BY <1>2, <1>3 DEF OutputType
  <2>2. Len(gather') <= GatherMaxResp
    BY <2>1, ProtocolAssumption
  <2> QED
    BY <1>3, <2>1, <2>2 DEF CInv, TypeOK, PInv, Transports
<1>5. Queued' = Queued
  BY <1>3 DEF Queued
<1>6. LineInv'
  BY <1>2, <1>3, <1>5 DEF CInv, LineInv, Line, Gone
<1>7. OwnersKnown' /\ GatherOff' /\ OpenDropsNothing' /\ GatherNotStranded'
  BY <1>2, <1>3 DEF CInv, OwnersKnown, GatherOff, OpenDropsNothing, GatherNotStranded,
     P!PIPELINE_EMPTY
<1> QED
  BY <1>4, <1>6, <1>7 DEF CInv

LEMMA RejectInv == ASSUME CInv, PInv, PInv', ~aborted, RejectHead PROVE CInv'
<1> DEFINE n == requests
           one == <<n + 1>>
           mid == TransportWrite(Output, one)
<1>1. /\ n \in Nat /\ Queued \in Seq(1..n) /\ Queued \in Seq(1..n + 1)
      /\ wire \in Seq(1..n) /\ gather \in Seq(1..n)
      /\ wire \in Seq(1..n + 1) /\ gather \in Seq(1..n + 1)
      /\ dropped \in SUBSET (1..n + 1) /\ transport \in Transports
  <2>1. n \in Nat /\ Queued \in Seq(1..n) /\ wire \in Seq(1..n) /\ gather \in Seq(1..n)
        /\ dropped \in SUBSET (1..n) /\ transport \in Transports
    BY OutputTyped, QueuedFacts DEF CInv, TypeOK, Transports
  <2>2. 1..n \subseteq 1..n + 1
    BY <2>1
  <2> HIDE DEF n
  <2>3. Queued \in Seq(1..n + 1) /\ wire \in Seq(1..n + 1) /\ gather \in Seq(1..n + 1)
    BY <2>1, <2>2, SeqMonotonic
  <2> QED
    BY <2>1, <2>2, <2>3
<1>2. PICK drain \in BOOLEAN : SetOutput(Protocol_close(mid, drain))
  BY DEF RejectHead, ErrorOutput
<1>3. /\ requests' = n + 1 /\ n + 1 \in Numbers
      /\ rejected' = rejected \cup {n + 1}
      /\ UNCHANGED <<queue, queue_start, queue_end, accepted, failed, aborted>>
      /\ UNCHANGED <<kind, owner, enabled>>
      /\ tail' = FALSE /\ partial' = FALSE /\ body_state' = FALSE /\ close_seen' = FALSE
  BY <1>1, ProtocolAssumption DEF RejectHead, ParserReset, pipeline_vars, Numbers
<1>4. /\ one \in Seq(1..n + 1) /\ ToSet(one) = {n + 1}
  BY <1>1 DEF ToSet
<1>5. /\ mid \in OutputType(n + 1) /\ mid.gather = gather
      /\ \/ mid.wire = wire \o one /\ mid.dropped = dropped
         \/ mid.wire = wire /\ mid.dropped = dropped \cup {n + 1}
  <2> HIDE DEF one, n
  <2>1. Output = [gather |-> gather, transport |-> transport, wire |-> wire,
                  dropped |-> dropped]
    BY DEF Output
  <2>2. CASE transport \in {"open", "draining"}
    <3>1. mid = [gather |-> gather, transport |-> transport, wire |-> wire \o one,
                 dropped |-> dropped]
      BY <2>1, <2>2 DEF TransportWrite
    <3>2. wire \o one \in Seq(1..n + 1)
      BY <1>1, <1>4, ConcatProperties
    <3> HIDE DEF mid
    <3> QED
      BY <1>1, <3>1, <3>2 DEF OutputType
  <2>3. CASE transport \in {"closing", "lost"}
    <3>1. mid = [gather |-> gather, transport |-> transport, wire |-> wire,
                 dropped |-> dropped \cup {n + 1}]
      BY <1>4, <2>1, <2>3 DEF TransportWrite
    <3>2. dropped \cup {n + 1} \in SUBSET (1..n + 1)
      BY <1>1
    <3> HIDE DEF mid
    <3> QED
      BY <1>1, <3>1, <3>2 DEF OutputType
  <2> QED
    BY <1>1, <2>2, <2>3 DEF Transports
<1> DEFINE res == Protocol_close(mid, drain)
<1>6. /\ res \in OutputType(n + 1)
      /\ res.gather = gather /\ res.wire = mid.wire /\ res.dropped = mid.dropped
      /\ res.transport # "open"
  <2>1. n + 1 \in Nat
    BY <1>1
  <2> HIDE DEF mid, n
  <2> QED
    BY <1>5, <2>1, ClosedOutput
<1>7. /\ gather' = gather /\ wire' = mid.wire /\ dropped' = mid.dropped
      /\ transport' = res.transport
  BY <1>2, <1>6 DEF SetOutput
<1>8. Queued' = Queued
  BY <1>3 DEF Queued
<1> HIDE DEF res, mid
<1>9. TypeOK'
  <2>1. gather' \in Seq(1..requests') /\ wire' \in Seq(1..requests')
        /\ dropped' \subseteq 1..requests' /\ transport' \in Transports
    BY <1>1, <1>3, <1>5, <1>6, <1>7 DEF OutputType
  <2>2. rejected' \subseteq 1..requests'
    <3>1. rejected \subseteq 1..n
      BY DEF CInv, TypeOK
    <3> HIDE DEF n
    <3> QED
      BY <1>1, <1>3, <3>1
  <2>3. requests' \in 0..MaxRequests
    BY <1>1, <1>3, ProtocolAssumption DEF Numbers
  <2> QED
    BY <1>3, <1>7, <2>1, <2>2, <2>3 DEF CInv, TypeOK, PInv, Transports
<1>10. LineInv'
  <2> SUFFICES ASSUME ~failed PROVE Arranged(Line', dropped', n + 1, rejected')
    BY <1>3 DEF LineInv, Gone
  <2>1. Arranged((wire \o gather) \o Queued, dropped, n, rejected)
    BY DEF CInv, LineInv, Line, Gone
  <2>2. Line' = (wire' \o gather) \o Queued
    BY <1>7, <1>8 DEF Line
  <2>3. CASE mid.wire = wire /\ mid.dropped = dropped \cup {n + 1}
    <3> DEFINE l == (wire \o gather) \o Queued
    <3>1. /\ Arranged(l, dropped, n, rejected) /\ n \in Nat /\ rejected \subseteq rejected'
          /\ Line' = l /\ dropped' = dropped \cup {n + 1}
      BY <1>1, <1>3, <1>7, <2>1, <2>2, <2>3
    <3> HIDE DEF l, n
    <3> QED
      BY <3>1, GiveUp
  <2>4. CASE mid.wire = wire \o one /\ mid.dropped = dropped
    <3> DEFINE rest == gather \o Queued
    <3>1. rest \in Seq(1..n) /\ rest \in Seq(1..n + 1)
      BY <1>1, ConcatProperties, Zenon
    <3>0. \A x, y, z \in Seq(1..n + 1) : (x \o y) \o z = x \o (y \o z)
      BY Associates
    <3>2. (wire \o gather) \o Queued = wire \o rest
      BY <1>1, <3>0, Zenon
    <3>3. ((wire \o one) \o gather) \o Queued = (wire \o one) \o rest
      <4> DEFINE c == wire \o one
      <4>1. c \in Seq(1..n + 1) /\ gather \in Seq(1..n + 1) /\ Queued \in Seq(1..n + 1)
        BY <1>1, <1>4, ConcatProperties, Zenon
      <4> HIDE DEF c
      <4>2. (c \o gather) \o Queued = c \o rest
        BY <3>0, <4>1, Zenon
      <4> QED
        BY <4>2 DEF c
    <3>4. Arranged(wire \o rest, dropped, n, rejected)
      BY <2>1, <3>2
    <3> HIDE DEF rest
    <3>5. Arranged((wire \o <<n + 1>>) \o rest, dropped, n + 1, rejected')
      <4> HIDE DEF n
      <4> QED
        BY <1>1, <1>3, <3>1, <3>4, JoinLine
    <3> QED
      BY <1>7, <2>2, <2>4, <3>3, <3>5 DEF one
  <2> QED
    BY <1>5, <2>3, <2>4
<1>11. OwnersKnown' /\ GatherOff' /\ OpenDropsNothing' /\ GatherNotStranded'
  BY <1>1, <1>3, <1>6, <1>7 DEF CInv, OwnersKnown, GatherOff, OpenDropsNothing,
     GatherNotStranded, P!PIPELINE_EMPTY
<1> QED
  BY <1>9, <1>10, <1>11 DEF CInv
---------------------------------------------------------------------------
(***************************************************************************)
(* Protocol_on_body.                                                       *)
(***************************************************************************)
\* A queued entry joins the end of what the pipeline holds, unless it stops
\* the process.
LEMMA QueuedGrows ==
  ASSUME CInv, PInv, PInv', NEW tk, NEW raises, P!Queue(tk, raises), Owned,
         requests + 1 \in Numbers
  PROVE  /\ ~aborted /\ failed' = failed /\ queue_end' # queue_start'
         /\ owner' \in [Numbers -> 0..MaxRequests]
         /\ \/ ~aborted' /\ Queued' = Queued \o <<requests + 1>>
            \/ aborted' /\ Queued' = Queued
         /\ \A e \in 1..accepted' : owner'[e] \in 1..requests + 1
<1>1. /\ queue \in [0..QueueLen-1 -> 0..MaxRequests] /\ QueueLen \in Nat \ {0}
      /\ queue_start \in Nat /\ queue_end \in Nat /\ accepted \in Nat
      /\ queue_start <= queue_end /\ queue_end <= QueueLen
      /\ owner \in [Numbers -> 0..MaxRequests] /\ requests \in Nat
      /\ MaxRequests \in Nat /\ accepted + 1 \in Numbers
      /\ \A e \in 1..accepted : owner[e] \in 1..requests
  <2>1. /\ queue \in [0..QueueLen-1 -> 0..MaxRequests]
        /\ queue_start \in 0..QueueLen /\ queue_end \in 0..QueueLen
        /\ accepted \in 0..MaxRequests /\ queue_start <= queue_end
    BY DEF PInv, P!TypeOK, P!Slots, P!WindowContiguous
  <2>2. /\ owner \in [Numbers -> 0..MaxRequests] /\ requests \in 0..MaxRequests
        /\ \A e \in 1..accepted : owner[e] \in 1..requests
    BY DEF CInv, TypeOK, OwnersKnown
  <2>3. accepted < MaxRequests
    BY DEF P!Queue
  <2> QED
    BY <2>1, <2>2, <2>3, ProtocolAssumption DEF Numbers
<1>2. /\ Queued \in Seq(1..requests)
      /\ queue_end - queue_start \in Nat
      /\ Len(Queued) = queue_end - queue_start
      /\ \A i \in 1..queue_end - queue_start :
           /\ queue[queue_start + i - 1] \in 1..accepted
           /\ Queued[i] = owner[queue[queue_start + i - 1]]
  BY <1>1, QueuedFacts DEF CInv
<1>3. /\ owner' \in [Numbers -> 0..MaxRequests]
      /\ owner'[accepted + 1] = requests + 1
      /\ \A e \in 1..accepted : owner'[e] = owner[e]
  <2>1. requests + 1 \in 0..MaxRequests
    BY <1>1 DEF Numbers
  <2>2. \A e \in 1..accepted : e # accepted + 1 /\ e \in Numbers
    BY <1>1 DEF Numbers
  <2> QED
    BY <1>1, <2>1, <2>2 DEF Owned
<1>4. ~aborted /\ failed' = failed
  BY DEF P!Queue
<1>5. CASE aborted'
  <2>1. /\ queue_end # queue_start
        /\ queue' = queue /\ queue_start' = queue_start /\ queue_end' = queue_end
        /\ accepted' = accepted
    <3>1. CASE queue_start = queue_end
      <4>1. P!QueueAt(0, 0, protocol_refs + 1, accepted + 1, tk)
        BY <3>1 DEF P!Queue, P!PIPELINE_EMPTY
      <4>2. 0 < QueueLen
        BY <1>1
      <4> QED
        BY <1>4, <1>5, <4>1, <4>2 DEF P!QueueAt
    <3>2. CASE queue_start # queue_end
      <4>1. P!QueueAt(queue_start, queue_end, protocol_refs, accepted + 1, tk)
        BY <3>2 DEF P!Queue, P!PIPELINE_EMPTY
      <4> QED
        BY <1>4, <1>5, <3>2, <4>1 DEF P!QueueAt
    <3> QED
      BY <3>1, <3>2
  <2>2. Queued' = Queued
    BY <1>1, <1>2, <1>3, <2>1 DEF Queued
  <2> QED
    BY <1>1, <1>3, <1>4, <1>5, <2>1, <2>2
<1>6. CASE ~aborted'
  <2>1. PICK s \in Nat, t \in Nat :
          /\ t < QueueLen
          /\ t - s = queue_end - queue_start
          /\ queue_start' = s /\ queue_end' = t + 1
          /\ queue' = [queue EXCEPT ![t] = accepted + 1] /\ accepted' = accepted + 1
          /\ \A i \in 1..t - s : queue[s + i - 1] = queue[queue_start + i - 1]
    <3>1. CASE queue_end = queue_start
      <4>1. /\ 0 < QueueLen
            /\ queue_start' = 0 /\ queue_end' = 0 + 1
            /\ queue' = [queue EXCEPT ![0] = accepted + 1] /\ accepted' = accepted + 1
        BY <1>1, <1>6, <3>1 DEF P!Queue, P!QueueAt, P!PIPELINE_EMPTY
      <4>2. /\ 0 < QueueLen
            /\ 0 - 0 = queue_end - queue_start
            /\ \A i \in 1..0 - 0 : queue[0 + i - 1] = queue[queue_start + i - 1]
        BY <1>1, <3>1
      <4> QED
        BY <4>1, <4>2
    <3>2. CASE queue_end # queue_start
      <4>1. /\ queue_end < QueueLen
            /\ queue_start' = queue_start /\ queue_end' = queue_end + 1
            /\ queue' = [queue EXCEPT ![queue_end] = accepted + 1]
            /\ accepted' = accepted + 1
        BY <1>1, <1>6, <3>2 DEF P!Queue, P!QueueAt, P!PIPELINE_EMPTY
      <4> QED
        BY <1>1, <4>1
    <3> QED
      BY <3>1, <3>2
  <2> DEFINE len == queue_end - queue_start
  <2>2. len \in Nat /\ queue_end' - queue_start' = len + 1 /\ queue_end' # queue_start'
    BY <1>1, <1>2, <2>1
  <2>3. ASSUME NEW i \in 1..len
        PROVE  owner'[queue'[queue_start' + i - 1]] = Queued[i]
    <3>1. s + i - 1 \in Nat /\ s + i - 1 < t
      BY <2>1, <2>2
    <3>2. queue'[s + i - 1] = queue[s + i - 1]
      BY <1>1, <2>1, <3>1
    <3>3. queue[s + i - 1] = queue[queue_start + i - 1]
      BY <2>1
    <3> QED
      BY <1>2, <1>3, <2>1, <3>2, <3>3
  <2>4. owner'[queue'[queue_start' + (len + 1) - 1]] = requests + 1
    <3>1. queue_start' + (len + 1) - 1 = t /\ t \in 0..QueueLen-1
      BY <1>1, <2>1, <2>2
    <3>2. queue'[t] = accepted + 1
      BY <1>1, <2>1, <3>1
    <3> QED
      BY <1>3, <3>1, <3>2
  <2>5. Queued' = Queued \o <<requests + 1>>
    <3> DEFINE grown == [i \in 1..len + 1 |-> owner'[queue'[queue_start' + i - 1]]]
    <3>1. Queued' = grown
      BY <2>2 DEF Queued
    <3>2. /\ DOMAIN grown = 1..len + 1
          /\ \A i \in 1..len : grown[i] = Queued[i]
          /\ grown[len + 1] = requests + 1
      BY <2>2, <2>3, <2>4
    <3>3. \A i \in 1..len : Queued[i] \in 1..requests + 1
      <4>1. \A i \in 1..len : Queued[i] \in 1..requests
        BY <1>2, ElementOfSeq
      <4>2. 1..requests \subseteq 1..requests + 1
        BY <1>1
      <4> HIDE DEF len
      <4> QED
        BY <4>1, <4>2
    <3>4. grown \in Seq(1..requests + 1) /\ Len(grown) = len + 1
      <4>1. \A i \in 1..len + 1 : grown[i] \in 1..requests + 1
        <5> TAKE i \in 1..len + 1
        <5>1. i \in 1..len \/ i = len + 1
          BY <2>2
        <5>2. requests + 1 \in 1..requests + 1
          BY <1>1
        <5> HIDE DEF grown
        <5> QED
          BY <3>2, <3>3, <5>1, <5>2
      <4>2. grown \in [1..len + 1 -> 1..requests + 1]
        BY <4>1
      <4>3. len + 1 \in Nat
        BY <2>2
      <4> HIDE DEF grown, len
      <4> QED
        BY <4>2, <4>3, FunctionIsSeq, Zenon
    <3> DEFINE l == Queued \o <<requests + 1>>
    <3>5. /\ l \in Seq(1..requests + 1) /\ Len(l) = len + 1
          /\ \A i \in 1..len : l[i] = Queued[i]
          /\ l[len + 1] = requests + 1
      <4>1. Queued \in Seq(1..requests + 1)
        <5>1. 1..requests \subseteq 1..requests + 1
          BY <1>1
        <5> QED
          BY <1>2, <5>1, SeqMonotonic
      <4>2. requests + 1 \in 1..requests + 1
        BY <1>1
      <4> QED
        BY <1>2, <2>2, <4>1, <4>2
    <3> HIDE DEF grown, l, len
    <3>6. grown = l
      <4>1. \A i \in 1..len + 1 : grown[i] = l[i]
        BY <2>2, <3>2, <3>5
      <4> QED
        BY <3>4, <3>5, <4>1, SeqEqual
    <3> QED
      BY <3>1, <3>6 DEF l
  <2>6. \A e \in 1..accepted' : owner'[e] \in 1..requests + 1
    <3> TAKE e \in 1..accepted'
    <3>1. CASE e \in 1..accepted
      BY <1>1, <1>3, <3>1
    <3>2. CASE e \notin 1..accepted
      <4>1. e = accepted + 1
        BY <1>1, <2>1, <3>2
      <4> QED
        BY <1>1, <1>3, <4>1
    <3> QED
      BY <3>1, <3>2
  <2> QED
    BY <1>3, <1>4, <1>6, <2>2, <2>5, <2>6
<1> QED
  BY <1>5, <1>6

\* A request that joins leaves what was typed before typed.
LEMMA NumberedTypes ==
  ASSUME CInv, NEW k \in Kinds, Numbered(k)
  PROVE  /\ k \in RequestKind
         /\ requests + 1 \in Numbers /\ requests' = requests + 1
         /\ requests' \in 0..MaxRequests
         /\ kind' \in [Numbers -> RequestKind]
         /\ rejected \subseteq 1..requests'
         /\ gather \in Seq(1..requests') /\ wire \in Seq(1..requests')
         /\ dropped \subseteq 1..requests'
<1>1. /\ requests \in Nat /\ MaxRequests \in Nat /\ k \in RequestKind
      /\ requests < MaxRequests /\ requests' = requests + 1
      /\ kind' = [kind EXCEPT ![requests + 1] = k]
  BY ProtocolAssumption DEF Numbered, CInv, TypeOK
<1>2. requests + 1 \in Numbers /\ requests' \in 0..MaxRequests
  BY <1>1 DEF Numbers
<1>3. kind' \in [Numbers -> RequestKind]
  BY <1>1, <1>2 DEF CInv, TypeOK
<1>5. 1..requests \subseteq 1..requests'
  BY <1>1
<1>6. /\ rejected \subseteq 1..requests' /\ dropped \subseteq 1..requests'
      /\ gather \in Seq(1..requests') /\ wire \in Seq(1..requests')
  BY <1>1, <1>5, SeqMonotonic DEF CInv, TypeOK
<1> QED
  BY <1>1, <1>2, <1>3, <1>6

LEMMA ParsedTypes ==
  ASSUME CInv, NEW k \in Kinds, NEW more \in BOOLEAN, OnBodyParsed(k, more)
  PROVE  /\ {tail', partial', body_state', close_seen', enabled'} \subseteq BOOLEAN
         /\ tail' = more /\ enabled' = GatherEnabled(k, more)
         /\ rejected' = rejected /\ Numbered(k)
<1>1. k \in RequestKind
  BY ProtocolAssumption
<1> QED
  BY <1>1 DEF OnBodyParsed, CInv, TypeOK, RequestKind, GatherEnabled, P!PIPELINE_EMPTY

LEMMA OnBodyJoins ==
  ASSUME CInv, PInv, PInv', NEW k \in Kinds, NEW more \in BOOLEAN, NEW tk, NEW raises,
         OnBodyParsed(k, more), P!Queue(tk, raises), Owned, UNCHANGED out_vars,
         k.coro \/ ~P!PIPELINE_EMPTY
  PROVE  CInv'
<1>1. /\ requests + 1 \in Numbers /\ requests' = requests + 1
      /\ requests' \in 0..MaxRequests
      /\ kind' \in [Numbers -> RequestKind]
      /\ {tail', partial', body_state', close_seen', enabled'} \subseteq BOOLEAN
      /\ rejected' = rejected /\ rejected' \subseteq 1..requests'
      /\ gather \in Seq(1..requests') /\ wire \in Seq(1..requests')
      /\ dropped \subseteq 1..requests'
  BY NumberedTypes, ParsedTypes
<1>2. /\ ~aborted /\ failed' = failed /\ queue_end' # queue_start'
      /\ owner' \in [Numbers -> 0..MaxRequests]
      /\ \/ ~aborted' /\ Queued' = Queued \o <<requests + 1>>
         \/ aborted' /\ Queued' = Queued
      /\ \A e \in 1..accepted' : owner'[e] \in 1..requests + 1
  BY <1>1, QueuedGrows
<1>3. gather' = gather /\ transport' = transport /\ wire' = wire /\ dropped' = dropped
  BY DEF out_vars
<1>4. enabled' = FALSE
  BY DEF OnBodyParsed, GatherEnabled
<1>5. TypeOK'
  BY <1>1, <1>2, <1>3 DEF CInv, TypeOK, PInv
<1>6. OwnersKnown' /\ GatherOff' /\ GatherNotStranded' /\ OpenDropsNothing'
  BY <1>1, <1>2, <1>3, <1>4 DEF CInv, OwnersKnown, GatherOff, GatherNotStranded,
     OpenDropsNothing, P!PIPELINE_EMPTY
<1>7. LineInv'
  <2> DEFINE n == requests
             front == wire \o gather
  <2> SUFFICES ASSUME ~failed PROVE Arranged(Line', Gone', n + 1, rejected)
    BY <1>1, <1>2 DEF LineInv
  <2>1. /\ n \in Nat /\ Queued \in Seq(1..n) /\ front \in Seq(1..n)
        /\ front \o Queued \in Seq(1..n)
    <3>1. n \in Nat /\ Queued \in Seq(1..n) /\ wire \in Seq(1..n) /\ gather \in Seq(1..n)
      BY OutputTyped, QueuedFacts DEF CInv, TypeOK
    <3>2. front \in Seq(1..n)
      BY <3>1, ConcatProperties, Zenon
    <3> HIDE DEF front
    <3>3. front \o Queued \in Seq(1..n)
      BY <3>1, <3>2, ConcatProperties, Zenon
    <3> QED
      BY <3>1, <3>2, <3>3
  <2>2. Arranged(front \o Queued, dropped, n, rejected)
    BY <1>2 DEF CInv, LineInv, Line, Gone
  <2>3. Line' = front \o Queued'
    BY <1>3 DEF Line
  <2>4. CASE aborted' /\ Queued' = Queued
    <3> DEFINE l == front \o Queued
    <3>1. /\ n \in Nat /\ Arranged(l, dropped, n, rejected) /\ rejected \subseteq rejected
          /\ Line' = l /\ Gone' = dropped \cup {n + 1}
      BY <1>1, <1>3, <2>1, <2>2, <2>3, <2>4 DEF Gone
    <3> HIDE DEF l, n
    <3> QED
      BY <3>1, GiveUp
  <2>5. CASE ~aborted' /\ Queued' = Queued \o <<n + 1>>
    <3> DEFINE l == front \o Queued
               one == <<n + 1>>
    <3>1. n \in Nat /\ n + 1 \in Nat /\ l \in Seq(1..n) /\ l \o <<>> = l /\ Gone' = dropped
      BY <1>3, <2>1, <2>5, ConcatEmptySeq DEF Gone
    <3>2. l \in Seq(1..n + 1) /\ front \in Seq(1..n + 1) /\ Queued \in Seq(1..n + 1)
      <4>1. 1..n \subseteq 1..n + 1
        BY <3>1
      <4> QED
        BY <2>1, <3>1, <4>1, SeqMonotonic
    <3>3. one \in Seq(1..n + 1)
      BY <3>1
    <3>4. front \o (Queued \o one) = l \o one
      <4>1. \A x, y, z \in Seq(1..n + 1) : (x \o y) \o z = x \o (y \o z)
        BY Associates
      <4> HIDE DEF front, one
      <4> QED
        BY <3>2, <3>3, <4>1, Zenon
    <3>5. (l \o one) \o <<>> = l \o one
      <4>1. l \o one \in Seq(1..n + 1)
        <5> HIDE DEF l, one
        <5> QED
          BY <3>2, <3>3, ConcatProperties, Zenon
      <4> DEFINE c == l \o one
      <4>2. c \in Seq(1..n + 1)
        BY <4>1
      <4> HIDE DEF c
      <4>3. c \o <<>> = c
        BY <4>2, ConcatEmptySeq
      <4> QED
        BY <4>3 DEF c
    <3>6. Arranged((l \o one) \o <<>>, dropped, n + 1, rejected)
      <4>1. /\ n \in Nat /\ l \in Seq(1..n) /\ <<>> \in Seq(1..n)
            /\ rejected \subseteq rejected
        BY <3>1
      <4>2. Arranged(l \o <<>>, dropped, n, rejected)
        BY <2>2, <3>1
      <4> HIDE DEF l, n
      <4>3. Arranged((l \o <<n + 1>>) \o <<>>, dropped, n + 1, rejected)
        BY <4>1, <4>2, JoinLine
      <4> QED
        BY <4>3 DEF one
    <3> QED
      BY <2>3, <2>5, <3>1, <3>4, <3>5, <3>6 DEF one
  <2> QED
    BY <1>2, <2>4, <2>5
<1> QED
  BY <1>5, <1>6, <1>7 DEF CInv

\* A response with nothing in front of it is written at once.
LEMMA WrittenInv ==
  ASSUME CInv, PInv, PInv', ~aborted, NEW k \in Kinds, NEW more \in BOOLEAN,
         OnBodyWritten(k, more)
  PROVE  CInv'
<1>1. /\ k \in RequestKind
      /\ requests + 1 \in Numbers /\ requests' = requests + 1
      /\ requests' \in 0..MaxRequests
      /\ kind' \in [Numbers -> RequestKind]
      /\ {tail', partial', body_state', close_seen', enabled'} \subseteq BOOLEAN
      /\ tail' = more /\ enabled' = GatherEnabled(k, more)
      /\ rejected' = rejected /\ rejected' \subseteq 1..requests'
  BY NumberedTypes, ParsedTypes DEF OnBodyWritten
<1>2. PICK drain \in BOOLEAN :
        SetOutput(WriteResponse(Output, GatherEnabled(k, more), requests + 1, k, drain))
  BY DEF OnBodyWritten
<1>3. /\ P!PIPELINE_EMPTY
      /\ UNCHANGED <<queue, queue_start, queue_end, accepted, failed, aborted, owner>>
  BY DEF OnBodyWritten, pipeline_vars
<1> DEFINE n == requests
           one == <<n + 1>>
           front == wire \o gather
           res == WriteResponse(Output, GatherEnabled(k, more), n + 1, k, drain)
<1>4. /\ n \in Nat /\ n + 1 \in Nat /\ n + 1 \in 1..n + 1
      /\ wire \in Seq(1..n) /\ gather \in Seq(1..n)
      /\ Output \in OutputType(n + 1)
      /\ Len(Output.gather) <= GatherMaxResp
      /\ GatherEnabled(k, more) \in BOOLEAN
      /\ Output.gather = gather /\ Output.wire = wire /\ Output.dropped = dropped
      /\ Output.transport = transport
  <2>1. /\ n \in Nat /\ wire \in Seq(1..n) /\ gather \in Seq(1..n)
        /\ Output \in OutputType(n) /\ Len(Output.gather) <= GatherMaxResp
        /\ Output.gather = gather /\ Output.wire = wire /\ Output.dropped = dropped
        /\ Output.transport = transport
    BY OutputTyped DEF CInv, TypeOK
  <2>2. GatherEnabled(k, more) \in BOOLEAN
    BY <1>1
  <2>3. Output \in OutputType(n + 1)
    BY <2>1, WiderOutput
  <2>4. n + 1 \in Nat /\ n + 1 \in 1..n + 1
    BY <2>1
  <2> QED
    BY <2>1, <2>2, <2>3, <2>4
<1>5. Queued = <<>> /\ Queued' = <<>>
  <2>1. Queued = <<>>
    <3>1. Queued \in Seq(1..n) /\ Len(Queued) = 0
      BY <1>3, <1>4, QueuedFacts DEF CInv, P!PIPELINE_EMPTY, PInv, P!TypeOK
    <3> QED
      BY <3>1, EmptySeq
  <2>2. Queued' = Queued
    BY <1>3 DEF Queued
  <2> QED
    BY <2>1, <2>2
<1>6. /\ front \in Seq(1..n) /\ front \o <<>> = front
      /\ one \o <<>> = one /\ (front \o one) \o <<>> = front \o one
  <2>1. front \in Seq(1..n) /\ one \in Seq(1..n + 1)
    BY <1>4, ConcatProperties
  <2>2. front \in Seq(1..n + 1)
    <3>1. 1..n \subseteq 1..n + 1
      BY <1>4
    <3> QED
      BY <2>1, <3>1, SeqMonotonic
  <2> HIDE DEF front, one, n
  <2> DEFINE c == front \o one
  <2>3. c \in Seq(1..n + 1)
    BY <2>1, <2>2, ConcatProperties
  <2> HIDE DEF c
  <2>4. c \o <<>> = c
    BY <2>3, ConcatEmptySeq
  <2> QED
    BY <2>1, <2>4, ConcatEmptySeq DEF c
<1>7. /\ res \in OutputType(n + 1)
      /\ Len(res.gather) <= GatherMaxResp
      /\ ~GatherEnabled(k, more) => res.gather = <<>>
      /\ res.transport = "open" => transport = "open" /\ res.dropped = dropped
      /\ Arranged((wire \o gather) \o (<<n + 1>> \o <<>>), dropped, n + 1, rejected)
           => Arranged((res.wire \o res.gather) \o <<>>, res.dropped, n + 1, rejected)
  <2>1. <<>> \in Seq(1..n + 1)
    OBVIOUS
  <2> DEFINE on == GatherEnabled(k, more)
             m == n + 1
             nil == <<>>
  <2>2. /\ m \in Nat /\ Output \in OutputType(m) /\ m \in 1..m /\ on \in BOOLEAN
        /\ k \in RequestKind /\ nil \in Seq(1..m)
        /\ Len(Output.gather) <= GatherMaxResp
    BY <1>1, <1>4, <2>1
  <2>3. res = WriteResponse(Output, on, m, k, drain)
    OBVIOUS
  <2> HIDE DEF on, m, n, res, nil
  <2>4. /\ res \in OutputType(m)
        /\ Len(res.gather) <= GatherMaxResp
        /\ ~on => res.gather = <<>>
        /\ res.transport = "open" => Output.transport = "open" /\ res.dropped = Output.dropped
        /\ Arranged((Output.wire \o Output.gather) \o (<<m>> \o nil), Output.dropped, m, rejected)
             => Arranged((res.wire \o res.gather) \o nil, res.dropped, m, rejected)
    <3>1. WrittenWell(WriteResponse(Output, on, m, k, drain), on, Output, m, nil, m, rejected)
      BY <2>2, Written
    <3> QED
      BY <2>3, <3>1 DEF WrittenWell
  <2> QED
    BY <1>4, <2>4 DEF on, m, nil
<1>8. /\ gather' = res.gather /\ wire' = res.wire /\ dropped' = res.dropped
      /\ transport' = res.transport
  BY <1>2 DEF SetOutput
<1> HIDE DEF res
<1>9. TypeOK'
  <2>1. gather' \in Seq(1..requests') /\ wire' \in Seq(1..requests')
        /\ dropped' \subseteq 1..requests' /\ transport' \in Transports
    BY <1>1, <1>7, <1>8 DEF OutputType
  <2> QED
    BY <1>1, <1>3, <1>7, <1>8, <2>1 DEF CInv, TypeOK, PInv, Transports
<1>10. LineInv'
  <2> SUFFICES ASSUME ~failed
               PROVE  Arranged((wire' \o gather') \o <<>>, dropped', n + 1, rejected)
    BY <1>1, <1>3, <1>5 DEF LineInv, Line, Gone
  <2>1. Arranged(front \o <<>>, dropped, n, rejected)
    BY <1>5 DEF CInv, LineInv, Line, Gone
  <2>2. n \in Nat /\ front \in Seq(1..n) /\ <<>> \in Seq(1..n) /\ rejected \subseteq rejected
    BY <1>4, <1>6
  <2>3. Arranged((front \o <<n + 1>>) \o <<>>, dropped, n + 1, rejected)
    <3> HIDE DEF front, n
    <3> QED
      BY <2>1, <2>2, JoinLine
  <2>4. Arranged(front \o (one \o <<>>), dropped, n + 1, rejected)
    <3> HIDE DEF front
    <3> QED
      BY <2>3, <1>6
  <2> QED
    BY <1>7, <1>8, <2>4
<1>11. OwnersKnown' /\ GatherOff' /\ OpenDropsNothing' /\ GatherNotStranded'
  <2>1. OwnersKnown'
    BY <1>1, <1>3, <1>4 DEF CInv, OwnersKnown
  <2>2. GatherOff' /\ OpenDropsNothing' /\ GatherNotStranded'
    BY <1>1, <1>3, <1>7, <1>8 DEF CInv, GatherOff, OpenDropsNothing,
       GatherNotStranded, P!PIPELINE_EMPTY, GatherEnabled
  <2> QED
    BY <2>1, <2>2
<1> QED
  BY <1>9, <1>10, <1>11 DEF CInv

\* No response comes of it, and the connection is gone.
LEMMA FailedInv ==
  ASSUME CInv, PInv, PInv', ~aborted, NEW k \in Kinds, OnBodyFailed(k)
  PROVE  CInv'
<1>1. /\ k \in RequestKind
      /\ requests + 1 \in Numbers /\ requests' = requests + 1
      /\ requests' \in 0..MaxRequests
      /\ kind' \in [Numbers -> RequestKind]
      /\ rejected \subseteq 1..requests'
      /\ gather \in Seq(1..requests') /\ wire \in Seq(1..requests')
      /\ dropped \subseteq 1..requests'
  BY NumberedTypes DEF OnBodyFailed
<1>2. /\ P!PIPELINE_EMPTY
      /\ UNCHANGED <<queue, queue_start, queue_end, accepted, failed, aborted>>
      /\ tail' = FALSE /\ body_state' = TRUE /\ close_seen' = k.http10
      /\ transport' = "closing" /\ dropped' = dropped \cup {requests + 1}
      /\ UNCHANGED <<partial, gather, wire, rejected, owner>>
      /\ \E more \in BOOLEAN : enabled' = GatherEnabled(k, more)
  BY DEF OnBodyFailed, pipeline_vars
<1>3. {tail', partial', body_state', close_seen', enabled'} \subseteq BOOLEAN
  BY <1>1, <1>2 DEF RequestKind, GatherEnabled, P!PIPELINE_EMPTY, CInv, TypeOK
<1>4. TypeOK'
  <2>1. dropped' \subseteq 1..requests'
    <3>1. requests + 1 \in 1..requests'
      BY <1>1 DEF Numbers
    <3> QED
      BY <1>1, <1>2, <3>1
  <2> QED
    BY <1>1, <1>2, <1>3, <2>1 DEF CInv, TypeOK, PInv
<1>5. LineInv'
  <2>1. Queued' = Queued
    BY <1>2 DEF Queued
  <2> DEFINE l == (wire \o gather) \o Queued
             n == requests
  <2>2. Line = l /\ Line' = l
    BY <1>2, <2>1 DEF Line
  <2>3. n \in Nat /\ rejected \subseteq rejected
    BY DEF CInv, TypeOK
  <2> HIDE DEF l, n
  <2>4. Arranged(l, dropped, n, rejected) => Arranged(l, dropped \cup {n + 1}, n + 1, rejected)
    BY <2>3, GiveUp
  <2> QED
    BY <1>1, <1>2, <2>2, <2>4 DEF CInv, LineInv, Gone, n
<1>6. OwnersKnown' /\ GatherOff' /\ OpenDropsNothing' /\ GatherNotStranded'
  <2>1. requests \in Nat
    BY DEF CInv, TypeOK
  <2> QED
    BY <1>1, <1>2, <2>1 DEF CInv, OwnersKnown, GatherOff, OpenDropsNothing,
       GatherNotStranded, P!PIPELINE_EMPTY
<1> QED
  BY <1>4, <1>5, <1>6 DEF CInv

---------------------------------------------------------------------------
(***************************************************************************)
(* _task_done hands entries to ready() one after the other.                *)
(***************************************************************************)
\* The entries handed over are the ones at the front of the queue.
LEMMA HandedOverIs ==
  ASSUME PInv, NEW stop \in queue_start..queue_end, P!HandOn(stop)
  PROVE  /\ Len(HandedOver) = stop - queue_start
         /\ \A i \in 1..stop - queue_start : HandedOver[i] = queue[queue_start + i - 1]
<1> DEFINE S == 0..MaxRequests
           m == stop - queue_start
           h == [i \in 1..m |-> queue[queue_start + i - 1]]
<1>1. /\ queue \in [0..QueueLen-1 -> S] /\ queue_start \in Nat /\ queue_end \in Nat
      /\ queue_end <= QueueLen /\ m \in Nat /\ stop \in Nat
      /\ emitted \in Seq(1..MaxRequests)
  BY ProtocolAssumption DEF PInv, P!TypeOK, P!Slots, P!Entries
<1>2. 1..MaxRequests \subseteq S
  BY ProtocolAssumption
<1>3. emitted \in Seq(S)
  <2> HIDE DEF S
  <2> QED
    BY <1>1, <1>2, SeqMonotonic
<1>4. h \in Seq(S) /\ Len(h) = m /\ \A i \in 1..m : h[i] = queue[queue_start + i - 1]
  <2>1. \A i \in 1..m : queue[queue_start + i - 1] \in S
    <3> TAKE i \in 1..m
    <3>1. queue_start + i - 1 \in 0..QueueLen-1
      BY <1>1, ProtocolAssumption
    <3> HIDE DEF S
    <3> QED
      BY <1>1, <3>1
  <2>2. h \in [1..m -> S]
    BY <2>1
  <2>3. \A i \in 1..m : h[i] = queue[queue_start + i - 1]
    OBVIOUS
  <2> HIDE DEF h, S, m
  <2> QED
    BY <1>1, <2>2, <2>3, FunctionIsSeq
<1>5. emitted' = emitted \o h
  BY DEF P!HandOn
<1> DEFINE e == emitted \o h
<1> HIDE DEF h, S
<1>6. /\ e \in Seq(S) /\ Len(emitted) \in Nat /\ Len(e) = Len(emitted) + m
      /\ \A i \in 1..m : e[Len(emitted) + i] = h[i]
  BY <1>1, <1>3, <1>4
<1>7. HandedOver = SubSeq(e, Len(emitted) + 1, Len(e))
  BY <1>5 DEF HandedOver
<1> HIDE DEF e, m
<1>8. /\ \A i \in Len(emitted) + 1..Len(e) : e[i] \in S
      /\ Len(emitted) + 1 \in Int /\ Len(e) \in Int
  BY <1>1, <1>6, ElementOfSeq
<1>9. /\ Len(HandedOver) =
           IF Len(emitted) + 1 <= Len(e) THEN Len(e) - (Len(emitted) + 1) + 1 ELSE 0
      /\ \A i \in 1..Len(e) - (Len(emitted) + 1) + 1 :
           HandedOver[i] = e[(Len(emitted) + 1) + i - 1]
  BY <1>7, <1>8, SubSeqProperties
<1>10. Len(HandedOver) = m
  BY <1>1, <1>6, <1>9
<1>11. \A i \in 1..m : HandedOver[i] = h[i]
  <2> TAKE i \in 1..m
  <2>1. /\ i \in 1..Len(e) - (Len(emitted) + 1) + 1
        /\ (Len(emitted) + 1) + i - 1 = Len(emitted) + i
    BY <1>1, <1>6
  <2> QED
    BY <1>6, <1>9, <2>1
<1> QED
  BY <1>4, <1>10, <1>11 DEF m

\* The outputs along the way, as WriteHandedOver defines them, exist.
Outputs(drain) ==
  CHOOSE f : f = [n \in 0..Len(HandedOver) |->
                    IF n = 0 THEN Output ELSE Ready(f[n - 1], HandedOver[n], drain)]

LEMMA OutputsExist ==
  ASSUME NEW drain \in BOOLEAN, Len(HandedOver) \in Nat
  PROVE  /\ Outputs(drain)[0] = Output
         /\ \A n \in 1..Len(HandedOver) :
              Outputs(drain)[n] = Ready(Outputs(drain)[n - 1], HandedOver[n], drain)
<1> DEFINE Upto(f, k) ==
             f = [n \in 0..k |-> IF n = 0 THEN Output
                                 ELSE Ready(f[n - 1], HandedOver[n], drain)]
           S == {k \in Nat : \E f : Upto(f, k)}
<1>1. 0 \in S
  <2> DEFINE f == [n \in 0..0 |-> Output]
  <2>1. f = [n \in 0..0 |-> IF n = 0 THEN Output
                             ELSE Ready(f[n - 1], HandedOver[n], drain)]
    OBVIOUS
  <2> QED
    BY <2>1
<1>2. ASSUME NEW k \in S PROVE k + 1 \in S
  <2>1. k \in Nat
    OBVIOUS
  <2>2. PICK f : Upto(f, k)
    OBVIOUS
  <2>3. /\ f[0] = Output
        /\ \A n \in 1..k : f[n] = Ready(f[n - 1], HandedOver[n], drain)
    BY <2>1, <2>2
  <2> DEFINE g == [n \in 0..k + 1 |-> IF n = k + 1 THEN Ready(f[k], HandedOver[k + 1], drain)
                                      ELSE f[n]]
  <2>4. \A n \in 0..k + 1 :
          g[n] = IF n = 0 THEN Output ELSE Ready(g[n - 1], HandedOver[n], drain)
    <3> TAKE n \in 0..k + 1
    <3>1. CASE n = 0
      BY <2>1, <2>3, <3>1
    <3>2. CASE n \in 1..k
      <4>1. n # 0 /\ n # k + 1 /\ n - 1 \in 0..k + 1 /\ n - 1 # k + 1
        BY <2>1, <3>2
      <4>2. g[n] = f[n] /\ g[n - 1] = f[n - 1]
        BY <4>1
      <4> QED
        BY <2>3, <3>2, <4>1, <4>2
    <3>3. CASE n = k + 1
      <4>1. n # 0 /\ n - 1 = k /\ k \in 0..k + 1 /\ k # k + 1
        BY <2>1, <3>3
      <4>2. g[n] = Ready(f[k], HandedOver[k + 1], drain) /\ g[k] = f[k]
        BY <3>3, <4>1
      <4> QED
        BY <3>3, <4>1, <4>2
    <3> QED
      BY <2>1, <3>1, <3>2, <3>3
  <2>5. g = [n \in 0..k + 1 |-> g[n]]
    OBVIOUS
  <2> HIDE DEF g
  <2>6. Upto(g, k + 1)
    BY <2>4, <2>5
  <2> QED
    BY <2>1, <2>6
<1>3. S = Nat
  <2>1. S \in SUBSET Nat
    OBVIOUS
  <2> HIDE DEF S
  <2> QED
    BY <1>1, <1>2, <2>1, Induct
<1>4. \E f : Upto(f, Len(HandedOver))
  BY <1>3
<1>5. Outputs(drain) = [n \in 0..Len(HandedOver) |->
                          IF n = 0 THEN Output
                          ELSE Ready(Outputs(drain)[n - 1], HandedOver[n], drain)]
  BY <1>4 DEF Outputs
<1> QED
  BY <1>5

\* What the line is when the first m entries were handed over.
HandedWell(m, out) ==
  /\ out \in OutputType(requests)
  /\ Len(out.gather) <= GatherMaxResp
  /\ closed <=> out.transport = "lost"
  /\ out.transport = "open" => transport = "open" /\ out.dropped = {}
  /\ m > 0 /\ ~closed => out.gather = <<>>
  /\ ~failed => Arranged((out.wire \o out.gather) \o SubSeq(Queued, m + 1, Len(Queued)),
                         out.dropped, requests, rejected)

LEMMA HandsOneOver ==
  ASSUME CInv, PInv, ~aborted, NEW drain \in BOOLEAN,
         NEW m \in Nat, m < Len(Queued), NEW out, HandedWell(m, out)
  PROVE  HandedWell(m + 1, Ready(out, queue[queue_start + m], drain))
<1> DEFINE n == requests
           e == queue[queue_start + m]
           r == owner[e]
           q == SubSeq(Queued, m + 2, Len(Queued))
           res == Ready(out, e, drain)
           one == <<r>>
           front == out.wire \o out.gather
<1>1. /\ n \in Nat /\ n \in 0..MaxRequests /\ Queued \in Seq(1..n)
      /\ Len(Queued) = queue_end - queue_start /\ Len(Queued) \in Nat
      /\ e \in 1..accepted /\ Queued[m + 1] = r
      /\ enabled = FALSE /\ queue_start \in Nat /\ queue_end \in Nat
  <2>1. /\ n \in Nat /\ n \in 0..MaxRequests /\ Queued \in Seq(1..n)
        /\ Len(Queued) = queue_end - queue_start /\ Len(Queued) \in Nat
        /\ \A i \in 1..queue_end - queue_start :
             /\ queue[queue_start + i - 1] \in 1..accepted
             /\ Queued[i] = owner[queue[queue_start + i - 1]]
        /\ queue_start \in Nat /\ queue_end \in Nat
    <3>1. /\ CInv /\ PInv /\ requests \in 0..MaxRequests /\ queue_start \in 0..QueueLen
          /\ queue_end \in 0..QueueLen /\ OwnersKnown
      BY DEF CInv, TypeOK, PInv, P!TypeOK
    <3> QED
      BY <3>1, QueuedFacts, ProtocolAssumption
  <2>2. m + 1 \in 1..queue_end - queue_start /\ queue_start + (m + 1) - 1 = queue_start + m
    BY <2>1
  <2>3. enabled = FALSE
    BY <2>1, <2>2 DEF CInv, GatherOff, TypeOK, P!PIPELINE_EMPTY
  <2> HIDE DEF n
  <2> QED
    BY <2>1, <2>2, <2>3
<1>2. r \in 1..n /\ kind[r] \in RequestKind
  <2>1. r \in 1..n
    BY <1>1 DEF CInv, OwnersKnown
  <2>2. r \in Numbers
    BY <1>1, <2>1, ProtocolAssumption DEF Numbers
  <2> QED
    BY <2>1, <2>2 DEF CInv, TypeOK
<1>3. /\ out.gather \in Seq(1..n) /\ out.wire \in Seq(1..n) /\ out.dropped \in SUBSET (1..n)
      /\ out.transport \in Transports /\ out \in OutputType(n)
      /\ out = [gather |-> out.gather, transport |-> out.transport, wire |-> out.wire,
                dropped |-> out.dropped]
  BY DEF HandedWell, OutputType
<1>4. q \in Seq(1..n) /\ one \in Seq(1..n) /\ front \in Seq(1..n) /\ ToSet(one) = {r}
  <2>1. \A i \in m + 2..Len(Queued) : Queued[i] \in 1..n
    <3> TAKE i \in m + 2..Len(Queued)
    <3>1. i \in 1..Len(Queued)
      BY <1>1
    <3> HIDE DEF n
    <3> QED
      BY <1>1, <3>1, ElementOfSeq
  <2>2. m + 2 \in Int /\ Len(Queued) \in Int
    BY <1>1
  <2>3. q \in Seq(1..n)
    <3> HIDE DEF n
    <3> QED
      BY <2>1, <2>2, SubSeqProperties
  <2>4. one \in Seq(1..n) /\ ToSet(one) = {r}
    BY <1>2 DEF ToSet
  <2>5. front \in Seq(1..n)
    <3> HIDE DEF n
    <3> QED
      BY <1>3, ConcatProperties
  <2> QED
    BY <2>3, <2>4, <2>5
<1>5. SubSeq(Queued, m + 1, Len(Queued)) = one \o q
  <2>1. m + 1 \in 1..Len(Queued) /\ Len(Queued) \in m + 1..Len(Queued) /\ (m + 1) + 1 = m + 2
    BY <1>1
  <2> HIDE DEF n
  <2>2. SubSeq(Queued, m + 1, Len(Queued))
          = <<Queued[m + 1]>> \o SubSeq(Queued, (m + 1) + 1, Len(Queued))
    BY <1>1, <2>1, SubSeqRecursiveFirst
  <2> QED
    BY <1>1, <2>1, <2>2
<1>6. (m + 1) + 1 = m + 2 /\ m + 1 > 0
  OBVIOUS
<1>7. CASE ~closed
  <2>1. WrittenWell(res, FALSE, out, r, q, n, rejected)
    <3>1. res = WriteResponse(out, FALSE, r, kind[r], drain)
      BY <1>1, <1>7 DEF Ready
    <3>2. Len(out.gather) <= GatherMaxResp
      BY DEF HandedWell
    <3> DEFINE k == kind[r]
    <3>3. k \in RequestKind
      BY <1>2
    <3> HIDE DEF res, r, q, n, k
    <3>4. WrittenWell(WriteResponse(out, FALSE, r, k, drain), FALSE, out, r, q, n, rejected)
      BY <1>1, <1>2, <1>3, <1>4, <3>2, <3>3, Written
    <3> QED
      BY <3>1, <3>4 DEF k
  <2> HIDE DEF res, r, e
  <2>2. /\ res \in OutputType(n)
        /\ Len(res.gather) <= GatherMaxResp
        /\ res.gather = <<>>
        /\ res.transport = "open" => out.transport = "open" /\ res.dropped = out.dropped
        /\ (out.transport = "lost") <=> (res.transport = "lost")
        /\ Arranged((out.wire \o out.gather) \o (one \o q), out.dropped, n, rejected)
             => Arranged((res.wire \o res.gather) \o q, res.dropped, n, rejected)
    BY <2>1 DEF WrittenWell
  <2>3. ASSUME ~failed
        PROVE  Arranged((res.wire \o res.gather) \o q, res.dropped, n, rejected)
    BY <1>5, <2>2, <2>3 DEF HandedWell
  <2> HIDE DEF one, q
  <2>4. HandedWell(m + 1, res)
    BY <1>6, <1>7, <2>2, <2>3 DEF HandedWell, q, closed
  <2> QED
    BY <2>4 DEF res, e
<1>8. CASE closed
  <2>1. res = [gather |-> out.gather, transport |-> out.transport, wire |-> out.wire,
               dropped |-> out.dropped \cup {r}]
    <3>1. res = [out EXCEPT !.dropped = @ \cup {r}]
      BY <1>8 DEF Ready
    <3> HIDE DEF res, r
    <3> QED
      BY <1>3, <3>1
  <2>2. out.dropped \cup {r} \in SUBSET (1..n)
    BY <1>2, <1>3
  <2> HIDE DEF res, r
  <2>3. res \in OutputType(n)
    BY <1>3, <2>1, <2>2 DEF OutputType
  <2>4. /\ res.gather = out.gather /\ res.transport = out.transport
        /\ res.wire = out.wire /\ res.dropped = out.dropped \cup {r}
    BY <2>1
  <2>5. ASSUME ~failed
        PROVE  Arranged((res.wire \o res.gather) \o q, res.dropped, n, rejected)
    <3> HIDE DEF q, n, one, front
    <3>1. Arranged(front \o (one \o q), out.dropped, n, rejected)
      BY <1>5, <2>5 DEF HandedWell, front, n
    <3>2. (front \o one) \o q = front \o (one \o q)
      BY <1>4, Associates
    <3>3. Arranged(front \o q, out.dropped \cup ToSet(one), n, rejected)
      BY <1>1, <1>4, <3>1, <3>2, DropPiece
    <3> QED
      BY <1>4, <2>4, <3>3 DEF front
  <2> HIDE DEF e, one
  <2>6. HandedWell(m + 1, res)
    BY <1>6, <1>8, <2>3, <2>4, <2>5 DEF HandedWell, closed
  <2> QED
    BY <2>6 DEF res, e
<1> QED
  BY <1>7, <1>8

LEMMA HandsAllOver ==
  ASSUME CInv, PInv, ~aborted, NEW drain \in BOOLEAN,
         NEW stop \in queue_start..queue_end, P!HandOn(stop)
  PROVE  /\ Len(HandedOver) = stop - queue_start
         /\ HandedWell(stop - queue_start, Outputs(drain)[stop - queue_start])
         /\ stop = queue_start => Outputs(drain)[stop - queue_start] = Output
<1> DEFINE N == stop - queue_start
           S == {m \in Nat : m <= N => HandedWell(m, Outputs(drain)[m])}
<1>1. /\ requests \in Nat /\ Queued \in Seq(1..requests)
      /\ Len(Queued) = queue_end - queue_start
      /\ queue_start \in Nat /\ queue_end \in Nat
  BY QueuedFacts, ProtocolAssumption DEF CInv, TypeOK, PInv, P!TypeOK
<1>2. N \in Nat /\ N <= Len(Queued)
  BY <1>1
<1>3. /\ Len(HandedOver) = N
      /\ \A i \in 1..N : HandedOver[i] = queue[queue_start + i - 1]
  BY HandedOverIs
<1>4. /\ Outputs(drain)[0] = Output
      /\ \A m \in 1..N : Outputs(drain)[m] = Ready(Outputs(drain)[m - 1], HandedOver[m], drain)
  BY <1>2, <1>3, OutputsExist
<1> HIDE DEF N
<1>5. HandedWell(0, Output)
  <2>1. SubSeq(Queued, 0 + 1, Len(Queued)) = Queued
    BY <1>1, SubSeqFull
  <2>2. /\ Output \in OutputType(requests)
        /\ Output.gather = gather /\ Output.wire = wire /\ Output.dropped = dropped
        /\ Output.transport = transport /\ Len(gather) <= GatherMaxResp
    BY OutputTyped DEF CInv, TypeOK
  <2>3. ~failed => Arranged((wire \o gather) \o Queued, dropped, requests, rejected)
    BY DEF CInv, LineInv, Line, Gone
  <2>4. ~failed => Arranged((Output.wire \o Output.gather) \o SubSeq(Queued, 0 + 1, Len(Queued)),
                           Output.dropped, requests, rejected)
    BY <2>1, <2>2, <2>3
  <2>5. /\ closed <=> Output.transport = "lost"
        /\ Output.transport = "open" => transport = "open" /\ Output.dropped = {}
        /\ Len(Output.gather) <= GatherMaxResp
    BY <2>2 DEF CInv, OpenDropsNothing, closed
  <2> QED
    BY <2>2, <2>4, <2>5 DEF HandedWell
<1>6. 0 \in S
  BY <1>4, <1>5
<1>7. ASSUME NEW m \in S PROVE m + 1 \in S
  <2> SUFFICES ASSUME m + 1 <= N PROVE HandedWell(m + 1, Outputs(drain)[m + 1])
    OBVIOUS
  <2>1. m \in Nat /\ m < Len(Queued) /\ m + 1 \in 1..N /\ (m + 1) - 1 = m
        /\ queue_start + (m + 1) - 1 = queue_start + m /\ m <= N
    BY <1>1, <1>2
  <2>2. HandedWell(m, Outputs(drain)[m])
    BY <2>1
  <2>3. Outputs(drain)[m + 1] = Ready(Outputs(drain)[m], queue[queue_start + m], drain)
    BY <1>3, <1>4, <2>1
  <2> DEFINE out == Outputs(drain)[m]
  <2> HIDE DEF out
  <2>4. HandedWell(m + 1, Ready(out, queue[queue_start + m], drain))
    BY <2>1, <2>2, HandsOneOver DEF out
  <2> QED
    BY <2>3, <2>4 DEF out
<1>8. S = Nat
  <2>1. S \in SUBSET Nat
    OBVIOUS
  <2> HIDE DEF S
  <2> QED
    BY <1>6, <1>7, <2>1, Induct
<1>9. HandedWell(N, Outputs(drain)[N])
  BY <1>2, <1>8
<1>10. stop = queue_start => N = 0
  BY <1>1 DEF N
<1> QED
  BY <1>3, <1>4, <1>9, <1>10 DEF N

LEMMA TaskDoneInv == ASSUME CInv, PInv, PInv', TaskDone PROVE CInv'
<1>1. /\ ~aborted /\ ~tail /\ P!TaskDone(Failing) /\ WriteHandedOver
      /\ UNCHANGED <<parser_vars, request_vars>>
  BY DEF TaskDone, Running
<1>2. PICK stop \in queue_start..queue_end :
        /\ P!HandOn(stop)
        /\ IF P!ReadyFailed(stop, Failing)
           THEN failed' = TRUE /\ queue_start' = queue_start
           ELSE queue_start' = stop /\ failed' = failed
  BY <1>1 DEF P!TaskDone
<1>3. /\ UNCHANGED <<queue, queue_end, accepted, aborted>>
      /\ UNCHANGED <<tail, partial, body_state, close_seen>>
      /\ UNCHANGED <<requests, kind, rejected, owner, enabled>>
  BY <1>1 DEF P!TaskDone, parser_vars, request_vars
<1>4. PICK drain \in BOOLEAN : SetOutput(Outputs(drain)[Len(HandedOver)])
  BY <1>1 DEF WriteHandedOver, Outputs
<1> DEFINE N == stop - queue_start
           res == Outputs(drain)[N]
<1>5. /\ Len(HandedOver) = N /\ HandedWell(N, res)
      /\ stop = queue_start => res = Output
  BY <1>1, <1>2, HandsAllOver
<1>6. /\ gather' = res.gather /\ wire' = res.wire /\ dropped' = res.dropped
      /\ transport' = res.transport
  BY <1>4, <1>5 DEF SetOutput
<1>7. /\ requests \in Nat /\ Queued \in Seq(1..requests)
      /\ Len(Queued) = queue_end - queue_start
      /\ queue_start \in Nat /\ queue_end \in Nat /\ stop \in Nat
      /\ N \in Nat /\ N <= Len(Queued)
      /\ \A i \in 1..queue_end - queue_start :
           Queued[i] = owner[queue[queue_start + i - 1]]
  BY QueuedFacts, ProtocolAssumption DEF CInv, TypeOK, PInv, P!TypeOK
<1> HIDE DEF res
<1>8. /\ res \in OutputType(requests)
      /\ Len(res.gather) <= GatherMaxResp
      /\ closed <=> res.transport = "lost"
      /\ res.transport = "open" => transport = "open" /\ res.dropped = {}
      /\ N > 0 /\ ~closed => res.gather = <<>>
      /\ ~failed => Arranged((res.wire \o res.gather) \o SubSeq(Queued, N + 1, Len(Queued)),
                             res.dropped, requests, rejected)
  BY <1>5 DEF HandedWell
<1>9. TypeOK'
  <2>1. gather' \in Seq(1..requests) /\ wire' \in Seq(1..requests)
        /\ dropped' \subseteq 1..requests /\ transport' \in Transports
    BY <1>6, <1>8 DEF OutputType
  <2> QED
    BY <1>3, <1>6, <1>8, <2>1 DEF CInv, TypeOK, PInv, Transports
<1>10. OwnersKnown' /\ OpenDropsNothing'
  BY <1>3, <1>6, <1>8 DEF CInv, OwnersKnown, OpenDropsNothing
<1>11. CASE P!ReadyFailed(stop, Failing)
  <2>1. stop < queue_end /\ failed' = TRUE /\ queue_start' = queue_start
    BY <1>2, <1>11 DEF P!ReadyFailed
  <2>2. queue_start' # queue_end' /\ queue_start # queue_end
    BY <1>3, <1>7, <2>1
  <2>3. GatherOff' /\ GatherNotStranded' /\ LineInv'
    BY <1>3, <2>1, <2>2 DEF CInv, GatherOff, GatherNotStranded, LineInv, P!PIPELINE_EMPTY
  <2> QED
    BY <1>9, <1>10, <2>3 DEF CInv
<1>12. CASE ~P!ReadyFailed(stop, Failing)
  <2>1. queue_start' = stop /\ failed' = failed /\ queue_end' = queue_end
    BY <1>2, <1>3, <1>12
  <2>2. GatherOff'
    BY <1>2, <1>3, <1>7, <2>1 DEF CInv, GatherOff, P!PIPELINE_EMPTY
  <2>3. GatherNotStranded'
    <3>1. CASE N = 0
      <4>1. stop = queue_start
        BY <1>7, <3>1
      <4>2. gather' = gather /\ transport' = transport
        BY <1>5, <1>6, <4>1 DEF Output
      <4> QED
        BY <1>3, <2>1, <4>1, <4>2 DEF CInv, GatherNotStranded, P!PIPELINE_EMPTY
    <3>2. CASE N > 0
      <4>1. transport' = "open" => gather' = <<>>
        BY <1>6, <1>8, <3>2 DEF closed
      <4> QED
        BY <4>1 DEF GatherNotStranded
    <3> HIDE DEF N
    <3> QED
      BY <1>7, <3>1, <3>2
  <2>4. Queued' = SubSeq(Queued, N + 1, Len(Queued))
    <3> DEFINE rest == SubSeq(Queued, N + 1, Len(Queued))
    <3>1. \A i \in N + 1..Len(Queued) : Queued[i] \in 1..requests
      <4> TAKE i \in N + 1..Len(Queued)
      <4>1. i \in 1..Len(Queued)
        BY <1>7
      <4> QED
        BY <1>7, <4>1, ElementOfSeq
    <3>2. N + 1 \in Int /\ Len(Queued) \in Int
      BY <1>7
    <3>3. /\ rest \in Seq(1..requests)
          /\ Len(rest) = IF N + 1 <= Len(Queued) THEN Len(Queued) - (N + 1) + 1 ELSE 0
          /\ \A i \in 1..Len(Queued) - (N + 1) + 1 : rest[i] = Queued[(N + 1) + i - 1]
      <4> HIDE DEF N
      <4> QED
        BY <3>1, <3>2, SubSeqProperties
    <3> HIDE DEF rest
    <3>4. /\ Len(rest) = queue_end - stop
          /\ \A i \in 1..queue_end - stop : rest[i] = Queued[N + i]
      <4>1. Len(Queued) - (N + 1) + 1 = queue_end - stop
        BY <1>7
      <4>2. Len(rest) = queue_end - stop
        BY <1>7, <3>3
      <4>3. ASSUME NEW i \in 1..queue_end - stop PROVE rest[i] = Queued[N + i]
        <5>1. (N + 1) + i - 1 = N + i
          BY <1>7
        <5>2. rest[i] = Queued[(N + 1) + i - 1]
          BY <3>3, <4>1
        <5> QED
          BY <5>1, <5>2
      <4> QED
        BY <4>2, <4>3
    <3>5. Queued' = [i \in 1..queue_end - stop |-> owner[queue[stop + i - 1]]]
      BY <1>3, <2>1 DEF Queued
    <3>6. \A i \in 1..queue_end - stop : owner[queue[stop + i - 1]] = rest[i]
      <4> TAKE i \in 1..queue_end - stop
      <4>1. N + i \in 1..queue_end - queue_start /\ queue_start + (N + i) - 1 = stop + i - 1
        BY <1>7
      <4> QED
        BY <1>7, <3>4, <4>1
    <3>7. rest = [i \in 1..Len(rest) |-> rest[i]]
      BY <3>3
    <3> QED
      BY <3>4, <3>5, <3>6, <3>7 DEF rest
  <2>5. LineInv'
    BY <1>1, <1>3, <1>6, <1>8, <2>1, <2>4 DEF LineInv, Line, Gone
  <2> QED
    BY <1>9, <1>10, <2>2, <2>3, <2>5 DEF CInv
<1> QED
  BY <1>11, <1>12

---------------------------------------------------------------------------
(***************************************************************************)
(* The invariant of a connection holds.                                    *)
(***************************************************************************)
LEMMA ConnectionInit == Init => CInv
<1> SUFFICES ASSUME Init PROVE CInv
  OBVIOUS
<1>1. /\ queue_start = 0 /\ queue_end = 0 /\ accepted = 0 /\ requests = 0
      /\ wire = <<>> /\ gather = <<>> /\ dropped = {} /\ aborted = FALSE
      /\ transport = "open" /\ enabled = FALSE /\ rejected = {}
  BY DEF Init, P!Init
<1>2. TypeOK
  <2>0. /\ 0 \in 0..MaxRequests /\ 0 \in 0..QueueLen /\ 0 \in Nat /\ 0 \in Int
        /\ <<>> \in Seq(P!Entries) /\ "none" \in P!TaskState
    BY ProtocolAssumption DEF P!TaskState
  <2>1. P!TypeOK
    BY <2>0 DEF Init, P!Init, P!TypeOK
  <2>2. NoKind \in RequestKind
    BY DEF NoKind, RequestKind
  <2>3. /\ kind \in [Numbers -> RequestKind] /\ owner \in [Numbers -> 0..MaxRequests]
        /\ requests \in 0..MaxRequests
        /\ {tail, partial, body_state, close_seen, enabled} \subseteq BOOLEAN
    BY <2>0, <2>2 DEF Init
  <2>4. <<>> \in Seq(1..requests) /\ Len(<<>>) <= GatherMaxResp
    BY ProtocolAssumption
  <2> QED
    BY <1>1, <2>1, <2>3, <2>4 DEF TypeOK
<1>3. Line = <<>>
  <2>1. Queued = <<>>
    BY <1>1 DEF Queued
  <2> QED
    BY <1>1, <2>1 DEF Line
<1>4. LineInv
  <2>1. 1..0 = {} /\ ToSet(<<>>) = {} /\ <<>> \in Seq(1..0) /\ DOMAIN <<>> = {}
    BY DEF ToSet
  <2> QED
    BY <1>1, <1>3, <2>1 DEF LineInv, Arranged, Tidy, Gone
<1> QED
  BY <1>1, <1>2, <1>4 DEF CInv, OwnersKnown, GatherOff, GatherNotStranded,
     OpenDropsNothing, P!PIPELINE_EMPTY

LEMMA ConnectionNext == CInv /\ PInv /\ PInv' /\ [Next]_vars => CInv'
<1> SUFFICES ASSUME CInv, PInv, PInv', [Next]_vars PROVE CInv'
  OBVIOUS
<1>1. CASE DataReceived \/ CloseTransport \/ ConnectionLost \/ UNCHANGED vars
  BY <1>1, QuietSteps
<1>2. CASE AnyTaskFinishes
  BY <1>2, QuietSteps DEF AnyTaskFinishes
<1>3. CASE TaskDone
  BY <1>3, TaskDoneInv
<1>4. CASE Feed
  <2>1. ~aborted
    BY <1>4 DEF Feed
  <2>2. CASE ExcessiveData \/ MalformedHead
    BY <2>1, <2>2, RejectInv DEF ExcessiveData, MalformedHead
  <2>3. CASE IncompleteHead
    BY <2>1, <2>3, IncompleteInv
  <2>4. ASSUME NEW k \in Kinds, OnBody(k) PROVE CInv'
    <3>1. ASSUME NEW more \in BOOLEAN, OnBodyTask(k, more) PROVE CInv'
      BY <3>1, OnBodyJoins DEF OnBodyTask, P!QueueTask
    <3>2. ASSUME NEW more \in BOOLEAN, OnBodyQueued(k, more) PROVE CInv'
      BY <3>2, OnBodyJoins DEF OnBodyQueued, P!QueueResponse
    <3>3. ASSUME NEW more \in BOOLEAN, OnBodyWritten(k, more) PROVE CInv'
      BY <2>1, <3>3, WrittenInv
    <3>4. CASE OnBodyFailed(k)
      BY <2>1, <3>4, FailedInv
    <3> QED
      BY <2>4, <3>1, <3>2, <3>3, <3>4 DEF OnBody
  <2> QED
    BY <1>4, <2>2, <2>3, <2>4 DEF Feed
<1> QED
  BY <1>1, <1>2, <1>3, <1>4 DEF Next

LEMMA ConnectionInv == Spec => []CInv
BY ConnectionInit, ConnectionNext, PipelineInv, PTL DEF Spec

(***************************************************************************)
(* Every variable of the connection keeps its type: no number of responses *)
(* overruns the gather array, whatever arrives and whoever finishes when.  *)
(***************************************************************************)
THEOREM TypeCorrect == Spec => []TypeOK
<1>1. CInv => TypeOK
  BY DEF CInv
<1> QED
  BY <1>1, ConnectionInv, PTL

(***************************************************************************)
(* A gathered response is never forgotten: between two buffers of an open  *)
(* connection it only waits for an entry of the pipeline, whose write will *)
(* flush it (Protocol_write_response and on_incomplete).                   *)
(***************************************************************************)
THEOREM NeverStranded == Spec => []GatherNotStranded
<1>1. CInv => GatherNotStranded
  BY DEF CInv
<1> QED
  BY <1>1, ConnectionInv, PTL

(***************************************************************************)
(* Responses never pass one another between the pipeline, the gather       *)
(* buffer and the wire; only the answer to a head that was no request does.*)
(***************************************************************************)
THEOREM ResponsesNeverPass == Spec => []NeverPassed
<1>1. CInv => NeverPassed
  BY DEF CInv, LineInv, NeverPassed, Arranged, Tidy, MayPrecede
<1> QED
  BY <1>1, ConnectionInv, PTL

(***************************************************************************)
(* Nothing is answered twice and nothing is lost: every request and        *)
(* rejected head stands in exactly one place of the line, or is given up,  *)
(* and on an open connection none is given up.                             *)
(***************************************************************************)
THEOREM EachInOnePlace == Spec => []ExactlyOnePlace
<1>1. ASSUME CInv, ~failed, ~aborted, NEW r \in 1..requests
      PROVE  Cardinality({i \in DOMAIN Line : Line[i] = r})
               + (IF r \in dropped THEN 1 ELSE 0) = 1
  <2> DEFINE at == {i \in DOMAIN Line : Line[i] = r}
  <2>1. Arranged(Line, dropped, requests, rejected)
    BY <1>1 DEF CInv, LineInv, Gone
  <2>2. CASE r \in dropped
    <3>1. at = {}
      BY <2>1, <2>2 DEF Arranged, ToSet
    <3>2. Cardinality(at) = 0
      BY <3>1, FS_EmptySet
    <3> QED
      BY <2>2, <3>2
  <2>3. CASE r \notin dropped
    <3>1. r \in ToSet(Line)
      BY <2>1, <2>3 DEF Arranged
    <3>2. PICK i \in DOMAIN Line : Line[i] = r
      BY <3>1 DEF ToSet
    <3>3. \A j \in DOMAIN Line : Line[j] = r => j = i
      <4> TAKE j \in DOMAIN Line
      <4>1. Line \in Seq(1..requests)
        BY <2>1 DEF Arranged
      <4>2. i \in Nat /\ j \in Nat
        BY <4>1
      <4>3. j < i => Line[j] # Line[i]
        BY <2>1 DEF Arranged, Tidy, MayPrecede
      <4>4. i < j => Line[i] # Line[j]
        BY <2>1 DEF Arranged, Tidy, MayPrecede
      <4> QED
        BY <3>2, <4>2, <4>3, <4>4
    <3>4. at = {i}
      BY <3>2, <3>3
    <3>5. Cardinality(at) = 1
      BY <3>4, FS_Singleton
    <3> QED
      BY <2>3, <3>5
  <2> QED
    BY <2>2, <2>3
<1>2. CInv => ExactlyOnePlace
  BY <1>1 DEF ExactlyOnePlace, CInv, OpenDropsNothing
<1> QED
  BY <1>2, ConnectionInv, PTL
===========================================================================
