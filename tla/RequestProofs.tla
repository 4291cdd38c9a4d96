----------------------------- MODULE RequestProofs -----------------------------
(***************************************************************************)
(* Requests, for any number of connections, clones and heap blocks, any    *)
(* requests, routes, answers and pool sizes.                               *)
(*                                                                         *)
(* First, who owns a request's buffer (OwnershipIsUnique): the buffers are *)
(* followed apart from the requests' other fields and the memory, of which *)
(* that argument needs nothing.                                            *)
(*                                                                         *)
(* Then, what is in it (AnswersAreOwn): through every copy, move, decoding *)
(* and clone the buffer of a request in use holds the method and the       *)
(* headers its client sent, with every pointer at its bytes, so that the   *)
(* decision to keep the connection is the client's; and an entry of the    *)
(* cache says what any plain answer with its body says.                    *)
(*                                                                         *)
(* And what handlers read of it (FieldsAreSaid): the path and the query    *)
(* string are what the client meant, decoded where they stand or not yet,  *)
(* but for escapes in lower-case digits, which stay; the headers are a     *)
(* dictionary by the names in title case, written over the names where     *)
(* they stand; the values of the placeholders are the matcher's, which are *)
(* those of the Python matcher where the methods are not misread           *)
(* (PythonMatchesAlike, from MatcherProofs); and what an attribute has     *)
(* returned once stays what the client said.                               *)
(*                                                                         *)
(* The part before the invariant (MemInv) is about single operations, each *)
(* with any memory and request; a lemma is named for what it yields.       *)
(***************************************************************************)
EXTENDS MatcherProofs

Objects == Conns \cup Clones

\* Each object's buffer.
Buffers == [o \in Objects |-> req[o].buffer]

\* B: the buffers; L: the clones in use; H: the allocated blocks.  An object that is
\* not in use has its inner buffer, so nothing of the heap hangs on it.
Owns(B, L, H) ==
  /\ B \in [Objects -> Objects \cup Heap]
  /\ \A o \in Objects : B[o] \in {o} \cup Heap
  /\ \A o \in Clones \ L : B[o] = o
  /\ \A o, p \in Conns \cup L : B[o] = B[p] => o = p
  /\ H = {B[o] : o \in Conns \cup L} \cap Heap

(***************************************************************************)
(* Three things happen to buffers.                                         *)
(***************************************************************************)

\* An object in use drops its buffer for its inner one or a block nobody has.
LEMMA Replace ==
  ASSUME NEW B, NEW L \in SUBSET Clones, NEW H, Owns(B, L, H), NEW o \in Conns \cup L,
         NEW b \in {o} \cup (Heap \ (H \ ({B[o]} \cap Heap)))
  PROVE  Owns([B EXCEPT ![o] = b], L, (H \ ({B[o]} \cap Heap)) \cup ({b} \cap Heap))
<1> DEFINE B2 == [B EXCEPT ![o] = b]
<1> USE RequestAssumption DEF Objects
<1>1. /\ B2[o] = b
      /\ \A p \in Objects \ {o} : B2[p] = B[p]
      /\ B2 \in [Objects -> Objects \cup Heap]
  BY DEF Owns
<1>2. ASSUME NEW p \in Conns \cup L, p # o PROVE B[p] # b
  BY <1>2 DEF Owns
<1>3. \A p, q \in Conns \cup L : B2[p] = B2[q] => p = q
  BY <1>1, <1>2 DEF Owns
<1>4. (H \ ({B[o]} \cap Heap)) \cup ({b} \cap Heap) = {B2[p] : p \in Conns \cup L} \cap Heap
  <2> DEFINE H2 == (H \ ({B[o]} \cap Heap)) \cup ({b} \cap Heap)
  <2>1. ASSUME NEW h \in H2 PROVE h \in Heap /\ \E p \in Conns \cup L : h = B2[p]
    <3>1. CASE h = b /\ h \in Heap
      BY <3>1, <1>1
    <3>2. CASE h \in H /\ h # B[o]
      <4>1. PICK p \in Conns \cup L : h = B[p]
        BY <3>2 DEF Owns
      <4> QED
        BY <4>1, <3>2, <1>1 DEF Owns
    <3> QED
      BY <2>1, <3>1, <3>2 DEF Owns
  <2>2. ASSUME NEW p \in Conns \cup L, B2[p] \in Heap PROVE B2[p] \in H2
    <3>1. CASE p = o
      BY <3>1, <2>2, <1>1
    <3>2. CASE p # o
      BY <3>2, <2>2, <1>1 DEF Owns
    <3> QED
      BY <3>1, <3>2
  <2> QED
    BY <2>1, <2>2
<1> QED
  BY <1>1, <1>3, <1>4 DEF Owns

\* A clone comes into use with a buffer of its own, or takes over a connection's.
LEMMA TakeOver ==
  ASSUME NEW B, NEW L \in SUBSET Clones, NEW H, Owns(B, L, H),
         NEW c \in Conns, NEW o \in Clones \ L
  PROVE  Owns([B EXCEPT ![c] = c, ![o] = IF B[c] = c THEN o ELSE B[c]], L \cup {o}, H)
<1> DEFINE B2 == [B EXCEPT ![c] = c, ![o] = IF B[c] = c THEN o ELSE B[c]]
<1> USE RequestAssumption DEF Objects
<1>1. /\ B2[c] = c
      /\ B2[o] = IF B[c] = c THEN o ELSE B[c]
      /\ \A p \in Objects \ {c, o} : B2[p] = B[p]
      /\ B2 \in [Objects -> Objects \cup Heap]
      /\ \A p \in Objects : B2[p] \in {p} \cup Heap
  BY DEF Owns
<1> HIDE DEF B2
<1>2. \A p, q \in Conns \cup L \cup {o} : B2[p] = B2[q] => p = q
  BY <1>1 DEF Owns
<1>3. H = {B2[p] : p \in Conns \cup (L \cup {o})} \cap Heap
  <2>1. ASSUME NEW h \in H PROVE h \in Heap /\ \E p \in Conns \cup (L \cup {o}) : h = B2[p]
    <3>1. PICK p \in Conns \cup L : h = B[p]
      BY <2>1 DEF Owns
    <3>2. CASE p = c
      BY <2>1, <3>1, <3>2, <1>1 DEF Owns
    <3>3. CASE p # c
      BY <2>1, <3>1, <3>3, <1>1 DEF Owns
    <3> QED
      BY <3>2, <3>3
  <2>2. ASSUME NEW p \in Conns \cup (L \cup {o}), B2[p] \in Heap PROVE B2[p] \in H
    BY <2>2, <1>1 DEF Owns
  <2> QED
    BY <2>1, <2>2
<1>4. Owns(B2, L \cup {o}, H)
  BY <1>1, <1>2, <1>3 DEF Owns
<1> QED
  BY <1>4 DEF B2

\* A clone goes out of use, and its block with it.
LEMMA LetGo ==
  ASSUME NEW B, NEW L \in SUBSET Clones, NEW H, Owns(B, L, H), NEW o \in L
  PROVE  Owns([B EXCEPT ![o] = o], L \ {o}, H \ ({B[o]} \cap Heap))
<1> DEFINE B2 == [B EXCEPT ![o] = o]
<1> USE RequestAssumption DEF Objects
<1>1. /\ B2[o] = o
      /\ \A p \in Objects \ {o} : B2[p] = B[p]
      /\ B2 \in [Objects -> Objects \cup Heap]
      /\ \A p \in Objects : B2[p] \in {p} \cup Heap
  BY DEF Owns
<1>2. \A p, q \in Conns \cup (L \ {o}) : B2[p] = B2[q] => p = q
  BY <1>1 DEF Owns
<1>3. H \ ({B[o]} \cap Heap) = {B2[p] : p \in Conns \cup (L \ {o})} \cap Heap
  <2>1. ASSUME NEW h \in H, h # B[o]
        PROVE  h \in Heap /\ \E p \in Conns \cup (L \ {o}) : h = B2[p]
    <3>1. PICK p \in Conns \cup L : h = B[p]
      BY <2>1 DEF Owns
    <3> QED
      BY <2>1, <3>1, <1>1 DEF Owns
  <2>2. ASSUME NEW p \in Conns \cup (L \ {o}), B2[p] \in Heap PROVE B2[p] \in H /\ B2[p] # B[o]
    BY <2>2, <1>1 DEF Owns
  <2> QED
    BY <2>1, <2>2 DEF Owns
<1> QED
  BY <1>1, <1>2, <1>3 DEF Owns

(***************************************************************************)
(* What the operations do to the buffer field.                             *)
(***************************************************************************)
Fields == {"method", "method_len", "path", "path_len", "path_decoded", "qs_len", "qs_decoded",
           "minor_version", "headers", "num_headers", "match_dict_entries",
           "match_dict_length", "buffer", "buffer_len", "simple", "entry", "response",
           "py", "spec", "answer"}

\* A value with the fields of a request.
IsRequest(r) == r = [f \in Fields |-> r[f]]

LEMMA NewBuffer ==
  ASSUME NEW o
  PROVE  IsRequest(Request_new(o)) /\ Request_new(o).buffer = o
BY DEF IsRequest, Fields, Request_new

LEMMA RawBuffer ==
  ASSUME NEW o, NEW k
  PROVE  IsRequest(FromRaw(o, k)) /\ FromRaw(o, k).buffer = o
<1> DEFINE n == Request_new(o)
<1>1. IsRequest(n) /\ n.buffer = o
  BY NewBuffer
<1> HIDE DEF n
<1> QED
  BY <1>1, ZenonT(60) DEF FromRaw, n, IsRequest, Fields

LEMMA CopiedHeaders ==
  ASSUME NEW m, NEW r, IsRequest(r), NEW b
  PROVE  IsRequest(CopyHeaders(m, r, b).r) /\ CopyHeaders(m, r, b).r.buffer = b
BY DEF CopyHeaders, IsRequest, Fields

LEMMA CopiedMatches ==
  ASSUME NEW m, NEW r, IsRequest(r), NEW e, NEW b
  PROVE  IsRequest(CopyMatches(m, r, e, b).r) /\ CopyMatches(m, r, e, b).r.buffer = b
BY ZenonT(60) DEF CopyMatches, IsRequest, Fields

LEMMA DecodedBuffer ==
  ASSUME NEW m, NEW r, IsRequest(r)
  PROVE  /\ IsRequest(DecodePath(m, r).r) /\ DecodePath(m, r).r.buffer = r.buffer
         /\ IsRequest(DecodeQs(m, r).r) /\ DecodeQs(m, r).r.buffer = r.buffer
BY DEF DecodePath, DecodeQs, IsRequest, Fields

LEMMA RoutedBuffer ==
  ASSUME NEW c \in Objects, IsRequest(req[c]), NEW found, NEW b
  PROVE  IsRequest(Routed(c, found, b).r) /\ Routed(c, found, b).r.buffer = b
<1> DEFINE copied == CopyMatches(Decoded(c).m, Decoded(c).r, FoundEntries(c, found), b)
<1>1. IsRequest(Decoded(c).r)
  BY DecodedBuffer DEF Decoded
<1>2. IsRequest(copied.r) /\ copied.r.buffer = b
  BY <1>1, CopiedMatches
<1>3. copied = [r |-> copied.r, m |-> copied.m]
  BY DEF CopyMatches
<1> HIDE DEF copied
<1> QED
  BY <1>2, <1>3 DEF Routed, copied, IsRequest, Fields

LEMMA AnsweredBuffer ==
  ASSUME NEW m, NEW r, IsRequest(r), NEW args
  PROVE  IsRequest(Answered(m, r, args)) /\ Answered(m, r, args).buffer = r.buffer
BY DEF Answered, IsRequest, Fields

LEMMA ClonedBuffer ==
  ASSUME NEW m, NEW r, IsRequest(r), NEW c, NEW o
  PROVE  LET cloned == Request_clone(m, r, c, o)
         IN /\ IsRequest(cloned.clone) /\ IsRequest(cloned.original)
            /\ cloned.clone.buffer = IF r.buffer = c THEN o ELSE r.buffer
            /\ cloned.original.buffer = c
<1>1. CASE r.buffer = c
  BY <1>1, ZenonT(60) DEF Request_clone, IsRequest, Fields
<1>2. CASE r.buffer # c
  BY <1>2 DEF Request_clone, Detached, IsRequest, Fields
<1> QED
  BY <1>1, <1>2

(***************************************************************************)
(* The freelist, the pipelines and the request in hand.                    *)
(***************************************************************************)

\* Items of the pool: each once, none in use.
Free(items, L) ==
  /\ items \in Seq(Clones)
  /\ \A i \in 1..Len(items) : items[i] \notin L
  /\ \A i, j \in 1..Len(items) : items[i] = items[j] => i = j

Waits(P, o) == \E c \in Conns : \E i \in 1..Len(P[c]) : P[c][i] = o

\* Pipelines: clones in use, each in one place.
Queues(P, L) ==
  /\ P \in [Conns -> Seq(Clones)]
  /\ \A c \in Conns : \A i \in 1..Len(P[c]) : P[c][i] \in L
  /\ \A c, d \in Conns : \A i \in 1..Len(P[c]), j \in 1..Len(P[d]) :
       P[c][i] = P[d][j] => c = d /\ i = j

\* The request in hand: a connection's own, or a clone that is not queued yet.
InHand(cur, P, L) ==
  cur # None => /\ cur.conn \in Conns
                /\ cur.obj \in Conns \/ (cur.obj \in L /\ ~Waits(P, cur.obj))

LEMMA FreePrefix ==
  ASSUME NEW items, NEW L, Free(items, L), NEW n \in 0..Len(items)
  PROVE  Free(SubSeq(items, 1, n), L)
<1> DEFINE t == SubSeq(items, 1, n)
<1>1. /\ Len(items) \in Nat
      /\ \A i \in 1..n : items[i] \in Clones
  BY DEF Free
<1>2. t \in Seq(Clones) /\ Len(t) = n /\ \A i \in 1..n : t[i] = items[i]
  BY <1>1, SubSeqProperties
<1> HIDE DEF t
<1>3. \A i \in 1..n : i \in 1..Len(items)
  BY <1>1
<1>4. Free(t, L)
  BY <1>1, <1>2, <1>3 DEF Free
<1> QED
  BY <1>4 DEF t

LEMMA FreeAppend ==
  ASSUME NEW items, NEW L \in SUBSET Clones, Free(items, L), NEW o \in L
  PROVE  Free(Append(items, o), L \ {o}) /\ Free(items, L \ {o})
<1> DEFINE t == Append(items, o)
<1>1. items \in Seq(Clones) /\ Len(items) \in Nat /\ o \in Clones
  BY DEF Free
<1>2. /\ t \in Seq(Clones) /\ Len(t) = Len(items) + 1
      /\ \A i \in 1..Len(items) : t[i] = items[i]
      /\ t[Len(items) + 1] = o
  BY <1>1, AppendProperties
<1> HIDE DEF t
<1>3. \A i \in 1..Len(t) : i \in 1..Len(items) \/ i = Len(items) + 1
  BY <1>1, <1>2
<1>4. Free(t, L \ {o})
  BY <1>1, <1>2, <1>3 DEF Free
<1> QED
  BY <1>4 DEF Free, t

LEMMA QueueAppend ==
  ASSUME NEW P, NEW L \in SUBSET Clones, Queues(P, L), NEW c \in Conns, NEW o \in L,
         ~Waits(P, o)
  PROVE  Queues([P EXCEPT ![c] = Append(@, o)], L)
<1> DEFINE Q == [P EXCEPT ![c] = Append(@, o)]
<1>1. P[c] \in Seq(Clones) /\ Len(P[c]) \in Nat /\ o \in Clones
  BY DEF Queues
<1>2. /\ Q \in [Conns -> Seq(Clones)]
      /\ \A d \in Conns \ {c} : Q[d] = P[d]
      /\ Len(Q[c]) = Len(P[c]) + 1
      /\ \A i \in 1..Len(P[c]) : Q[c][i] = P[c][i]
      /\ Q[c][Len(P[c]) + 1] = o
  BY <1>1, AppendProperties DEF Queues
<1> HIDE DEF Q
<1>3. \A i \in 1..Len(Q[c]) : i \in 1..Len(P[c]) \/ i = Len(P[c]) + 1
  BY <1>1, <1>2
<1>4. \A d \in Conns : \A i \in 1..Len(Q[d]) : Q[d][i] \in L
  BY <1>2, <1>3 DEF Queues
<1>5. ASSUME NEW d \in Conns, NEW e \in Conns, NEW i \in 1..Len(Q[d]), NEW j \in 1..Len(Q[e]),
             Q[d][i] = Q[e][j]
      PROVE  d = e /\ i = j
  <2>1. \A f \in Conns : \A k \in 1..Len(P[f]) : P[f][k] # o
    BY DEF Waits
  <2>2. (d # c \/ i \in 1..Len(P[c])) => i \in 1..Len(P[d]) /\ Q[d][i] = P[d][i]
    BY <1>2, <1>5
  <2>3. (e # c \/ j \in 1..Len(P[c])) => j \in 1..Len(P[e]) /\ Q[e][j] = P[e][j]
    BY <1>2, <1>5
  <2>4. (d = c /\ i \notin 1..Len(P[c])) => i = Len(P[c]) + 1 /\ Q[d][i] = o
    BY <1>2, <1>3, <1>5
  <2>5. (e = c /\ j \notin 1..Len(P[c])) => j = Len(P[c]) + 1 /\ Q[e][j] = o
    BY <1>2, <1>3, <1>5
  <2> QED
    BY <2>1, <2>2, <2>3, <2>4, <2>5, <1>5 DEF Queues
<1>6. Queues(Q, L)
  BY <1>2, <1>4, <1>5 DEF Queues
<1> QED
  BY <1>6 DEF Q

LEMMA QueueTail ==
  ASSUME NEW P, NEW L \in SUBSET Clones, Queues(P, L), NEW c \in Conns, P[c] # <<>>
  PROVE  /\ Head(P[c]) \in L
         /\ Queues([P EXCEPT ![c] = Tail(@)], L \ {Head(P[c])})
<1> DEFINE Q == [P EXCEPT ![c] = Tail(@)]
           o == P[c][1]
<1>1. P[c] \in Seq(Clones) /\ Len(P[c]) \in Nat \ {0} /\ Head(P[c]) = o
  BY EmptySeq DEF Queues
<1>2. /\ Q \in [Conns -> Seq(Clones)]
      /\ \A d \in Conns \ {c} : Q[d] = P[d]
      /\ Len(Q[c]) = Len(P[c]) - 1
      /\ \A i \in 1..Len(Q[c]) : Q[c][i] = P[c][i + 1]
  BY <1>1, HeadTailProperties DEF Queues
<1>3. o \in L
  BY <1>1 DEF Queues
<1> HIDE DEF Q
<1>4. ASSUME NEW d \in Conns, NEW i \in 1..Len(Q[d])
      PROVE  Q[d][i] \in L \ {o}
  <2>1. CASE d = c
    BY <2>1, <1>1, <1>2, <1>4 DEF Queues
  <2>2. CASE d # c
    BY <2>2, <1>1, <1>2, <1>4 DEF Queues
  <2> QED
    BY <2>1, <2>2
<1>5. ASSUME NEW d \in Conns, NEW e \in Conns, NEW i \in 1..Len(Q[d]), NEW j \in 1..Len(Q[e]),
             Q[d][i] = Q[e][j]
      PROVE  d = e /\ i = j
  <2>1. PICK k \in 1..Len(P[d]) : Q[d][i] = P[d][k] /\ k = IF d = c THEN i + 1 ELSE i
    BY <1>1, <1>2, <1>5
  <2>2. PICK l \in 1..Len(P[e]) : Q[e][j] = P[e][l] /\ l = IF e = c THEN j + 1 ELSE j
    BY <1>1, <1>2, <1>5
  <2>3. d = e /\ k = l
    BY <2>1, <2>2, <1>5 DEF Queues
  <2> QED
    BY <2>1, <2>2, <2>3, <1>5
<1>6. Queues(Q, L \ {o})
  BY <1>2, <1>4, <1>5 DEF Queues
<1> QED
  BY <1>1, <1>3, <1>6 DEF Q

(***************************************************************************)
(* The inductive invariant: OneOwner, with what the objects that are not   *)
(* in use, the pipelines and the request in hand have to do with it.       *)
(***************************************************************************)
Shape == /\ req = [o \in Objects |-> req[o]]
         /\ \A o \in Objects : IsRequest(req[o])

PoolInv == /\ pool \in [on : BOOLEAN, max : Nat, items : Seq(Clones)]
           /\ Free(pool.items, live)

IInv ==
  /\ Shape
  /\ live \in SUBSET Clones
  /\ Owns(Buffers, live, heap)
  /\ PoolInv
  /\ Queues(pipeline, live)
  /\ InHand(current, pipeline, live)

LEMMA InitInv == Init => IInv
<1> SUFFICES ASSUME Init PROVE IInv
  OBVIOUS
<1> USE RequestAssumption
<1>1. Shape /\ \A o \in Objects : req[o].buffer = o
  BY NewBuffer DEF Init, Shape, Objects
<1>2. Owns(Buffers, live, heap)
  <2>1. Buffers = [o \in Objects |-> o]
    BY <1>1 DEF Buffers
  <2>2. live = {} /\ heap = {}
    BY DEF Init
  <2> QED
    BY <2>1, <2>2 DEF Owns, Objects
<1>3. PoolInv
  BY EmptySeq DEF Init, PoolInv, Free
<1>4. Queues(pipeline, live)
  BY EmptySeq DEF Init, Queues
<1> QED
  BY <1>1, <1>2, <1>3, <1>4 DEF IInv, Init, InHand

\* One request replaced by another.
LEMMA Changed ==
  ASSUME Shape, NEW o \in Objects, NEW r, IsRequest(r), req' = [req EXCEPT ![o] = r]
  PROVE  Shape' /\ Buffers' = [Buffers EXCEPT ![o] = r.buffer]
BY DEF Shape, Buffers

\* A change that leaves the buffer where it is.
LEMMA SameBuffer ==
  ASSUME Shape, NEW o \in Objects, NEW r, IsRequest(r), req' = [req EXCEPT ![o] = r],
         r.buffer = req[o].buffer
  PROVE  Shape' /\ Buffers' = Buffers
<1>1. Shape' /\ Buffers' = [Buffers EXCEPT ![o] = r.buffer]
  BY Changed
<1>2. Buffers[o] = r.buffer
  BY DEF Buffers
<1> QED
  BY <1>1, <1>2 DEF Buffers

LEMMA HandledIsObject ==
  ASSUME IInv, NEW o \in Handled
  PROVE  /\ o \in Objects
         /\ current # None => o = current.obj
         /\ current = None => o \in live
BY DEF Handled, IInv, InHand, Objects

LEMMA AllocatedIsFree ==
  ASSUME IInv, NEW o \in Allocated,
         pool' = IF FromPool THEN [pool EXCEPT !.items = Front(@)] ELSE pool,
         live' = live \cup {o}
  PROVE  o \in Clones \ live /\ PoolInv'
<1> DEFINE items == pool.items
<1>1. Free(items, live) /\ Len(items) \in Nat /\ items \in Seq(Clones)
  BY DEF IInv, PoolInv, Free
<1>2. CASE FromPool
  <2>1. items # <<>> /\ o = items[Len(items)]
    BY <1>2 DEF FromPool, Allocated, Last
  <2>2. Len(items) \in Nat \ {0}
    BY <1>1, <2>1, EmptySeq
  <2>3. o \in Clones \ live
    BY <1>1, <2>1, <2>2 DEF Free
  <2>4. Free(Front(items), live)
    BY <1>1, <2>2, FreePrefix DEF Front
  <2>5. \A i \in 1..Len(Front(items)) : Front(items)[i] = items[i] /\ i \in 1..(Len(items) - 1)
    <3>1. \A i \in 1..(Len(items) - 1) : items[i] \in Clones
      BY <1>1, <2>2
    <3> QED
      BY <3>1, <2>2, SubSeqProperties DEF Front
  <2>6. Free(Front(items), live \cup {o})
    BY <1>1, <2>1, <2>2, <2>4, <2>5 DEF Free
  <2>7. pool' = [pool EXCEPT !.items = Front(items)]
    BY <1>2
  <2> QED
    BY <2>3, <2>6, <2>7 DEF IInv, PoolInv, Free
<1>3. CASE ~FromPool
  <2>1. o \in Clones \ live /\ \A i \in 1..Len(items) : items[i] # o
    BY <1>1, <1>3 DEF Allocated, ToSet
  <2>2. Free(items, live \cup {o})
    BY <1>1, <2>1 DEF Free
  <2>3. pool' = pool /\ pool \in [on : BOOLEAN, max : Nat, items : Seq(Clones)]
    BY <1>3 DEF IInv, PoolInv
  <2>4. Free(pool'.items, live')
    BY <2>2, <2>3
  <2> QED
    BY <2>1, <2>3, <2>4 DEF PoolInv
<1> QED
  BY <1>2, <1>3

LEMMA MinOfTwo ==
  ASSUME NEW a \in Nat, NEW b \in Nat
  PROVE  Min({a, b}) \in 0..b
<1>1. PICK m \in {a, b} : m <= a /\ m <= b
  OBVIOUS
<1>2. Min({a, b}) \in {a, b} /\ Min({a, b}) <= a /\ Min({a, b}) <= b
  BY <1>1 DEF Min
<1> QED
  BY <1>2

(***************************************************************************)
(* Every step preserves it.                                                *)
(***************************************************************************)
LEMMA ConfigurePoolInv == ASSUME IInv, NEW n \in PoolSizes, ConfigurePool(n) PROVE IInv'
<1>1. n \in Nat
  BY RequestAssumption
<1>2. UNCHANGED <<req, heap, live, pipeline, current>>
  BY DEF ConfigurePool
<1>3. PoolInv'
  <2> DEFINE k == Min({n, Len(pool.items)})
  <2>1. Free(pool.items, live) /\ Len(pool.items) \in Nat
    BY DEF IInv, PoolInv, Free
  <2>2. k \in 0..Len(pool.items)
    BY <1>1, <2>1, MinOfTwo
  <2>3. Free(SubSeq(pool.items, 1, k), live)
    BY <2>1, <2>2, FreePrefix
  <2>4. pool' = pool \/ pool' = [on |-> n > 0, max |-> n, items |-> SubSeq(pool.items, 1, k)]
    BY DEF ConfigurePool
  <2> HIDE DEF k
  <2>5. CASE pool' = pool
    BY <2>5, <1>2 DEF IInv, PoolInv
  <2>6. CASE pool' = [on |-> n > 0, max |-> n, items |-> SubSeq(pool.items, 1, k)]
    <3>1. SubSeq(pool.items, 1, k) \in Seq(Clones) /\ pool'.items = SubSeq(pool.items, 1, k)
      BY <2>3, <2>6 DEF Free
    <3>2. pool' \in [on : BOOLEAN, max : Nat, items : Seq(Clones)]
      BY <1>1, <2>6, <3>1
    <3> QED
      BY <1>2, <2>3, <3>1, <3>2 DEF PoolInv
  <2> QED
    BY <2>4, <2>5, <2>6
<1> QED
  BY <1>2, <1>3 DEF IInv, Shape, Buffers

LEMMA OnHeadersInv ==
  ASSUME IInv, NEW c \in Conns, NEW k \in Requests, OnHeaders(c, k)
  PROVE  IInv'
<1> DEFINE raw == [Freed(mem, c) EXCEPT ![Wire] = WireText(k) \o Structs(WireHeaders(k)),
                                        ![c] = Blank(InlineLen)]
           r == FromRaw(c, k)
           free == Heap \ (heap \ OwnBlock(c))
<1>1. PICK b \in RoomIn(r, HeadersNeed(raw, r), free) :
        /\ req' = [req EXCEPT ![c] = CopyHeaders(raw, r, b).r]
        /\ heap' = (heap \ OwnBlock(c)) \cup ({b} \cap Heap)
  BY DEF OnHeaders
<1>2. UNCHANGED <<live, pool, pipeline>> /\ InHand(current', pipeline, live)
  BY DEF OnHeaders, InHand
<1>3. IsRequest(r) /\ r.buffer = c
  BY RawBuffer
<1>4. b \in {c} \cup (Heap \ (heap \ OwnBlock(c)))
  BY <1>1, <1>3, RequestAssumption DEF RoomIn
<1> HIDE DEF raw, r
<1>5. IsRequest(CopyHeaders(raw, r, b).r) /\ CopyHeaders(raw, r, b).r.buffer = b
  BY <1>3, CopiedHeaders
<1>6. Shape' /\ Buffers' = [Buffers EXCEPT ![c] = b]
  BY <1>1, <1>5, Changed DEF IInv, Objects
<1>7. OwnBlock(c) = {Buffers[c]} \cap Heap
  BY DEF OwnBlock, Buffers, Objects
<1>8. Owns(Buffers', live, heap')
  BY <1>1, <1>4, <1>6, <1>7, Replace DEF IInv
<1> QED
  BY <1>2, <1>6, <1>8 DEF IInv, PoolInv

LEMMA OnBodyInv == ASSUME IInv, NEW c \in Conns, OnBody(c) PROVE IInv'
<1> DEFINE f == Found(c)
<1>1. PICK b \in MatchRoom(c, f) :
        /\ heap' = (heap \ OwnBlock(c)) \cup ({Routed(c, f, b).r.buffer} \cap Heap)
        /\ OnBodyInPlace(c, Routed(c, f, b)) \/ OnBodyCloned(c, Routed(c, f, b))
  BY DEF OnBody, Routings
<1> HIDE DEF f
<1> DEFINE routed == Routed(c, f, b)
<1>2. current = [conn |-> c, obj |-> c, stage |-> "parsed"]
  BY DEF OnBody
<1>3. c \in Objects /\ IsRequest(req[c]) /\ Shape
  BY DEF IInv, Shape, Objects
<1>4. /\ IsRequest(routed.r) /\ routed.r.buffer = b
      /\ heap' = (heap \ OwnBlock(c)) \cup ({b} \cap Heap)
      /\ OnBodyInPlace(c, routed) \/ OnBodyCloned(c, routed)
  BY <1>1, <1>3, RoutedBuffer
<1> HIDE DEF routed
<1>5. OwnBlock(c) = {Buffers[c]} \cap Heap /\ Buffers[c] = req[c].buffer
  BY <1>3 DEF OwnBlock, Buffers
<1>6. b \in {c} \cup (Heap \ (heap \ OwnBlock(c)))
  <2>1. Decoded(c).r.buffer = req[c].buffer
    BY <1>3, DecodedBuffer DEF Decoded
  <2>2. b \in {req[c].buffer} \cup (Heap \ heap)
    BY <1>1, <2>1 DEF MatchRoom, RoomIn
  <2>3. req[c].buffer \in {c} \cup Heap
    BY <1>3, <1>5 DEF IInv, Owns
  <2> QED
    BY <2>2, <2>3, <1>5
<1> DEFINE B == [Buffers EXCEPT ![c] = b]
<1>7. Owns(B, live, heap') /\ B[c] = b
  BY <1>4, <1>3, <1>5, <1>6, Replace DEF IInv, Buffers
<1>8. CASE OnBodyInPlace(c, routed)
  <2>1. req' = [req EXCEPT ![c] = routed.r] /\ UNCHANGED <<live, pool, pipeline>>
    BY <1>8 DEF OnBodyInPlace
  <2>2. Shape' /\ Buffers' = B
    BY <2>1, <1>3, <1>4, Changed
  <2>3. current' = None \/ current' = [current EXCEPT !.stage = "handler"]
    BY <1>8 DEF OnBodyInPlace
  <2>4. InHand(current', pipeline, live)
    BY <2>3, <1>2 DEF InHand
  <2> QED
    BY <1>7, <2>1, <2>2, <2>4 DEF IInv, PoolInv
<1>9. CASE OnBodyCloned(c, routed)
  <2> DEFINE cloned(o) == Request_clone(routed.m, routed.r, c, o)
  <2>1. PICK o \in Allocated :
          /\ req' = [req EXCEPT ![c] = cloned(o).original, ![o] = cloned(o).clone]
          /\ live' = live \cup {o}
          /\ pool' = IF FromPool THEN [pool EXCEPT !.items = Front(@)] ELSE pool
          /\ \/ pipeline' = [pipeline EXCEPT ![c] = Append(@, o)] /\ current' = None
             \/ pipeline' = pipeline /\ current' = [conn |-> c, obj |-> o, stage |-> "handler"]
    BY <1>9 DEF OnBodyCloned
  <2>2. o \in Clones \ live /\ PoolInv'
    BY <2>1, AllocatedIsFree
  <2>3. o \in Objects /\ o # c
    BY <2>2, RequestAssumption DEF Objects
  <2>4. /\ IsRequest(cloned(o).original) /\ cloned(o).original.buffer = c
        /\ IsRequest(cloned(o).clone)
        /\ cloned(o).clone.buffer = IF b = c THEN o ELSE b
    BY <1>4, ClonedBuffer
  <2> HIDE DEF cloned
  <2>5. Shape' /\ Buffers' = [Buffers EXCEPT ![c] = c, ![o] = IF b = c THEN o ELSE b]
    <3>1. Shape' /\ Buffers' = [Buffers EXCEPT ![c] = cloned(o).original.buffer,
                                              ![o] = cloned(o).clone.buffer]
      <4> DEFINE r == cloned(o).original
                 q == cloned(o).clone
      <4>1. IsRequest(r) /\ IsRequest(q) /\ req' = [req EXCEPT ![c] = r, ![o] = q]
        BY <2>1, <2>4
      <4> HIDE DEF r, q
      <4>2. Shape' /\ Buffers' = [Buffers EXCEPT ![c] = r.buffer, ![o] = q.buffer]
        BY <4>1, <2>3, <1>3 DEF Shape, Buffers
      <4> QED
        BY <4>2 DEF r, q
    <3> QED
      BY <3>1, <2>4
  <2>6. Buffers' = [B EXCEPT ![c] = c, ![o] = IF B[c] = c THEN o ELSE B[c]]
    BY <2>5, <2>3, <1>3, <1>7 DEF Buffers
  <2> HIDE DEF B
  <2>7. Owns(Buffers', live', heap')
    BY <2>1, <2>2, <2>6, <1>7, TakeOver DEF IInv
  <2>8. live' \in SUBSET Clones /\ Queues(pipeline, live') /\ ~Waits(pipeline, o)
    BY <2>1, <2>2 DEF IInv, Queues, Waits
  <2>9. Queues(pipeline', live') /\ InHand(current', pipeline', live')
    <3>1. CASE pipeline' = [pipeline EXCEPT ![c] = Append(@, o)] /\ current' = None
      BY <3>1, <2>1, <2>8, QueueAppend DEF InHand
    <3>2. CASE pipeline' = pipeline /\ current' = [conn |-> c, obj |-> o, stage |-> "handler"]
      BY <3>2, <2>1, <2>8 DEF InHand
    <3> QED
      BY <2>1, <3>1, <3>2
  <2> QED
    BY <2>2, <2>5, <2>7, <2>8, <2>9 DEF IInv
<1> QED
  BY <1>4, <1>8, <1>9

LEMMA GetInv == ASSUME IInv, NEW o \in Handled, NEW a \in Attributes, Get(o, a) PROVE IInv'
<1> DEFINE d == CASE a = "query_string" -> DecodeQs(mem, req[o])
                  [] a = "headers" -> [m |-> TitleNames(mem, req[o]), r |-> req[o]]
                  [] OTHER -> [m |-> mem, r |-> req[o]]
           r == [d.r EXCEPT !.py[a] = Got(mem, req[o], a)]
<1>1. o \in Objects /\ Shape /\ IsRequest(req[o])
  BY HandledIsObject DEF IInv, Shape
<1>2. req' = [req EXCEPT ![o] = r] /\ UNCHANGED <<heap, live, pool, pipeline, current>>
  BY DEF Get
<1>3. IsRequest(d.r) /\ d.r.buffer = req[o].buffer
  <2>1. d = DecodeQs(mem, req[o]) \/ d.r = req[o]
    OBVIOUS
  <2> HIDE DEF d
  <2> QED
    BY <1>1, <2>1, DecodedBuffer
<1> HIDE DEF d
<1>4. IsRequest(r) /\ r.buffer = req[o].buffer
  BY <1>3 DEF IsRequest, Fields
<1> HIDE DEF r
<1>5. Shape' /\ Buffers' = Buffers
  BY <1>1, <1>2, <1>4, SameBuffer
<1> QED
  BY <1>2, <1>5 DEF IInv, PoolInv

LEMMA RespondInv ==
  ASSUME IInv, NEW o \in Handled, NEW args \in Answers, Respond(o, args)
  PROVE  IInv'
<1> DEFINE r == Answered(mem, req[o], args)
<1>1. o \in Objects /\ Shape /\ IsRequest(req[o])
  BY HandledIsObject DEF IInv, Shape
<1>2. req' = [req EXCEPT ![o] = r] /\ UNCHANGED <<heap, live, pool>> /\ current' = None
  BY DEF Respond
<1>3. IsRequest(r) /\ r.buffer = req[o].buffer
  BY <1>1, AnsweredBuffer
<1> HIDE DEF r
<1>4. Shape' /\ Buffers' = Buffers
  BY <1>1, <1>2, <1>3, SameBuffer
<1>5. Queues(pipeline', live)
  <2>1. CASE current # None /\ o \in Clones
    <3>1. pipeline' = [pipeline EXCEPT ![current.conn] = Append(@, o)]
      BY <2>1 DEF Respond
    <3>2. o = current.obj /\ o \notin Conns
      BY <2>1, HandledIsObject, RequestAssumption
    <3>3. current.conn \in Conns /\ o \in live /\ ~Waits(pipeline, o)
      BY <2>1, <3>2 DEF IInv, InHand
    <3> QED
      BY <3>1, <3>3, QueueAppend DEF IInv
  <2>2. CASE ~(current # None /\ o \in Clones)
    BY <2>2 DEF Respond, IInv
  <2> QED
    BY <2>1, <2>2
<1> QED
  BY <1>2, <1>4, <1>5 DEF IInv, PoolInv, InHand

LEMMA HandOverInv == ASSUME IInv, NEW c \in Conns, HandOver(c) PROVE IInv'
<1> DEFINE o == Head(pipeline[c])
           r == [Request_new(o) EXCEPT !.py = req[o].py]
<1>1. /\ current = None /\ current' = None /\ pipeline[c] # <<>>
      /\ pipeline' = [pipeline EXCEPT ![c] = Tail(@)]
      /\ Release(o)
  BY DEF HandOver
<1>2. o \in live /\ Queues(pipeline', live \ {o})
  BY <1>1, QueueTail DEF IInv
<1> HIDE DEF o
<1>3. /\ heap' = heap \ OwnBlock(o) /\ live' = live \ {o}
      /\ req' = [req EXCEPT ![o] = r]
      /\ pool' = pool \/ pool' = [pool EXCEPT !.items = Append(@, o)]
  BY <1>1 DEF Release
<1>4. o \in Objects /\ Shape
  BY <1>2 DEF IInv, Objects
<1>5. IsRequest(r) /\ r.buffer = o
  BY NewBuffer DEF IsRequest, Fields
<1> HIDE DEF r
<1>6. Shape' /\ Buffers' = [Buffers EXCEPT ![o] = o]
  BY <1>3, <1>4, <1>5, Changed
<1>7. OwnBlock(o) = {Buffers[o]} \cap Heap
  BY <1>4 DEF OwnBlock, Buffers
<1>8. Owns(Buffers', live', heap')
  BY <1>2, <1>3, <1>6, <1>7, LetGo DEF IInv
<1>9. PoolInv'
  <2>1. Free(Append(pool.items, o), live') /\ Free(pool.items, live')
    BY <1>2, <1>3, FreeAppend DEF IInv, PoolInv
  <2> QED
    BY <1>3, <2>1 DEF IInv, PoolInv, Free
<1> QED
  BY <1>1, <1>2, <1>3, <1>6, <1>8, <1>9 DEF IInv, InHand

LEMMA StepInv == IInv /\ [Next]_vars => IInv'
<1> SUFFICES ASSUME IInv, [Next]_vars PROVE IInv'
  OBVIOUS
<1>1. CASE UNCHANGED vars
  BY <1>1 DEF vars, IInv, Shape, Buffers, PoolInv
<1> QED
  BY <1>1, ConfigurePoolInv, OnHeadersInv, OnBodyInv, GetInv, RespondInv, HandOverInv DEF Next

(***************************************************************************)
(* Theorem: no buffer from the heap ever has two owners, is freed while it *)
(* is in use or is lost, and no object in the pool is in use or there      *)
(* twice, whatever is parsed, routed, cloned, pooled and released.         *)
(***************************************************************************)
THEOREM OwnershipIsUnique == Spec => []OneOwner
<1>1. IInv => OneOwner
  <2> SUFFICES ASSUME IInv PROVE OneOwner
    OBVIOUS
  <2>1. \A o \in Conns \cup live : Buffers[o] = req[o].buffer
    BY DEF IInv, Buffers, Objects
  <2>2. \A o, p \in Conns \cup live : req[o].buffer = req[p].buffer => o = p
    BY <2>1 DEF IInv, Owns
  <2>3. heap = {req[o].buffer : o \in Conns \cup live} \cap Heap
    BY <2>1 DEF IInv, Owns
  <2>4. DOMAIN pool.items = 1..Len(pool.items)
    BY DEF IInv, PoolInv, Free
  <2>5. /\ ToSet(pool.items) \cap live = {}
        /\ \A i, j \in DOMAIN pool.items : pool.items[i] = pool.items[j] => i = j
    BY <2>4 DEF IInv, PoolInv, Free, ToSet
  <2> QED
    BY <2>2, <2>3, <2>5 DEF OneOwner
<1> QED
  BY InitInv, StepInv, <1>1, PTL DEF Spec

(***************************************************************************)
(* Whole structs, and text rounded up to them.                             *)
(***************************************************************************)
LEMMA StructPositive == StructLen \in Nat /\ StructLen > 0
BY RequestAssumption

LEMMA Division ==
  ASSUME NEW n \in Nat
  PROVE  /\ n \div StructLen \in Nat
         /\ StructLen * (n \div StructLen) <= n
         /\ n < StructLen * (n \div StructLen) + StructLen
BY StructPositive

LEMMA Times ==
  ASSUME NEW a \in Nat, NEW b \in Nat
  PROVE  /\ StructLen * a \in Nat
         /\ StructLen * (a + b) = StructLen * a + StructLen * b
         /\ StructLen * 0 = 0 /\ StructLen * 1 = StructLen
         /\ a <= b => StructLen * a <= StructLen * b
         /\ a < b => StructLen * a + StructLen <= StructLen * b
BY StructPositive

LEMMA Rounded ==
  ASSUME NEW n \in Nat
  PROVE  /\ Round(n) \in Nat /\ n <= Round(n)
         /\ \E q \in Nat : Round(n) = StructLen * q /\ Round(n) < n + StructLen
<1> DEFINE q == (n + StructLen - 1) \div StructLen
<1>1. /\ q \in Nat /\ StructLen * q <= n + StructLen - 1
      /\ n + StructLen - 1 < StructLen * q + StructLen
  BY Division, StructPositive
<1>2. StructLen * q \in Nat
  BY <1>1, Times
<1>3. Round(n) = StructLen * q
  BY DEF Round
<1> HIDE DEF q
<1>4. Round(n) \in Nat /\ n <= Round(n) /\ Round(n) < n + StructLen
  BY <1>1, <1>2, <1>3, StructPositive
<1> QED
  BY <1>1, <1>3, <1>4

\* Rounding is to the least multiple that is not less.
LEMMA RoundedLeast ==
  ASSUME NEW n \in Nat, NEW a \in Nat, n <= StructLen * a
  PROVE  Round(n) <= StructLen * a
<1>1. PICK q \in Nat : Round(n) = StructLen * q /\ Round(n) < n + StructLen
  BY Rounded
<1>2. StructLen * a \in Nat /\ StructLen * q \in Nat /\ StructLen \in Nat
  BY Times, StructPositive
<1>3. a < q => StructLen * a + StructLen <= StructLen * q
  BY Times
<1>4. q <= a => StructLen * q <= StructLen * a
  BY Times
<1> QED
  BY <1>1, <1>2, <1>3, <1>4

LEMMA RoundedSum ==
  ASSUME NEW n \in Nat, NEW a \in Nat
  PROVE  Round(n + StructLen * a) = Round(n) + StructLen * a
<1>1. PICK q \in Nat : Round(n) = StructLen * q
  BY Rounded
<1>2. PICK p \in Nat : Round(n + StructLen * a) = StructLen * p
  <2> DEFINE l == n + StructLen * a
  <2>1. l \in Nat
    BY Times, SMTT(30)
  <2> HIDE DEF l
  <2>2. \E p \in Nat : Round(l) = StructLen * p
    BY <2>1, Rounded
  <2> QED
    BY <2>2 DEF l
<1> DEFINE A == StructLen * a
           R == Round(n)
           T == Round(n + A)
<1>3. /\ A \in Nat /\ R \in Nat /\ n <= R /\ R < n + StructLen
      /\ T \in Nat /\ n + A <= T /\ T < n + A + StructLen
  <2>1. A \in Nat
    BY Times
  <2>2. n + A \in Nat
    BY <2>1
  <2> HIDE DEF A
  <2> QED
    BY <2>1, <2>2, Rounded
<1>4. StructLen * (q + a) = R + A /\ q + a \in Nat
  BY <1>1, Times
<1>5. p < q + a => T + StructLen <= R + A
  BY <1>2, <1>4, Times
<1>6. q + a < p => R + A + StructLen <= T
  BY <1>2, <1>4, Times
<1>7. p = q + a => T = R + A
  BY <1>2, <1>4
<1> HIDE DEF A, R, T
<1>8. T = R + A
  BY <1>3, <1>5, <1>6, <1>7, StructPositive
<1> QED
  BY <1>8 DEF A, R, T

LEMMA StructsFacts ==
  ASSUME NEW e, IsSequence(e)
  PROVE  /\ IsSequence(Structs(e)) /\ Len(Structs(e)) = StructLen * Len(e)
         /\ \A j \in 1..Len(e) : Structs(e)[StructLen * (j - 1) + 1] = e[j]
<1> DEFINE n == Len(e)
           blank == Blank(StructLen - 1)
           ss == [i \in 1..n |-> <<e[i]>> \o blank]
<1>1. n \in Nat /\ DOMAIN e = 1..n
  BY SequenceFacts
<1>2. IsSequence(blank) /\ Len(blank) = StructLen - 1
  <2>1. StructLen - 1 \in Nat
    BY StructPositive
  <2>2. blank = [i \in 1..(StructLen - 1) |-> blank[i]]
    BY DEF Blank
  <2> HIDE DEF blank
  <2> QED
    BY <2>1, <2>2, FunctionSequence
<1>3. IsSequence(ss) /\ Len(ss) = n
  <2>1. ss = [i \in 1..n |-> ss[i]]
    OBVIOUS
  <2> HIDE DEF ss
  <2> QED
    BY <1>1, <2>1, FunctionSequence
<1>4. Structs(e) = FlattenSeq(ss)
  BY <1>1 DEF Structs
<1>5. ASSUME NEW i \in 1..n
      PROVE  IsSequence(ss[i]) /\ Len(ss[i]) = StructLen /\ ss[i][1] = e[i]
  <2> DEFINE first == <<e[i]>>
  <2>1. first = [j \in 1..1 |-> e[i]] /\ Len(first) = 1
    OBVIOUS
  <2>2. IsSequence(first) /\ first[1] = e[i]
    BY FunctionSequence, <2>1
  <2> HIDE DEF first, blank
  <2>3. /\ IsSequence(first \o blank) /\ Len(first \o blank) = 1 + (StructLen - 1)
        /\ (first \o blank)[1] = e[i]
    BY <1>2, <2>1, <2>2, Joined
  <2>4. ss[i] = first \o blank
    BY <1>5 DEF first
  <2>5. 1 + (StructLen - 1) = StructLen
    BY StructPositive
  <2> HIDE DEF ss
  <2> QED
    BY <2>3, <2>4, <2>5
<1> HIDE DEF ss, blank
<1>6. CASE n = 0
  <2>1. Structs(e) = ss
    BY <1>3, <1>4, <1>6, FlattenIsFlat
  <2>2. StructLen * n = 0
    BY <1>6, Times
  <2> QED
    BY <1>3, <1>6, <2>1, <2>2
<1>7. CASE n # 0
  <2> DEFINE f == Flat(ss)
             Good(i) == /\ IsSequence(f[i]) /\ Len(f[i]) = StructLen * i
                        /\ \A j \in 1..i : f[i][StructLen * (j - 1) + 1] = e[j]
             S == {m \in Nat : m + 1 <= n => Good(m + 1)}
  <2>1. Joins(f, n, ss) /\ Structs(e) = f[n]
    BY <1>1, <1>3, <1>4, <1>7, FlatJoins, FlattenIsFlat
  <2> HIDE DEF f
  <2>2. f[1] = ss[1] /\ \A i \in 1..n : i > 1 => f[i] = f[i - 1] \o ss[i]
    <3> HIDE DEF n
    <3>1. /\ n > 0 => f[1] = ss[1]
          /\ \A i \in 1..n : i > 1 => f[i] = f[i - 1] \o ss[i]
      BY <1>1, <2>1, JoinsSteps
    <3>2. n > 0
      BY <1>1, <1>7
    <3> QED
      BY <3>1, <3>2
  <2>3. 0 \in S
    <3>1. StructLen * 0 + 1 = 1 /\ StructLen * 1 = StructLen
      BY Times
    <3>2. \A j \in 1..1 : StructLen * (j - 1) + 1 = 1 /\ j = 1
      BY <3>1
    <3>3. 1 \in 1..n
      BY <1>1, <1>7
    <3>4. Good(1)
      BY <1>5, <2>2, <3>1, <3>2, <3>3
    <3> HIDE DEF Good
    <3> QED
      BY <3>4
  <2>4. ASSUME NEW m \in S PROVE m + 1 \in S
    <3> SUFFICES ASSUME m + 2 <= n PROVE Good(m + 2)
      OBVIOUS
    <3>1. m \in Nat /\ Good(m + 1)
      BY <1>1
    <3>2. m + 2 \in 1..n /\ (m + 2) - 1 = m + 1 /\ m + 2 > 1
      BY <1>1, <3>1
    <3> DEFINE old == f[m + 1]
               new == ss[m + 2]
    <3>3. f[m + 2] = old \o new
      BY <2>2, <3>2
    <3>4. IsSequence(new) /\ Len(new) = StructLen /\ new[1] = e[m + 2]
      BY <1>5, <3>2
    <3>5. IsSequence(old) /\ Len(old) = StructLen * (m + 1)
      BY <3>1
    <3>6. \A j \in 1..(m + 1) : old[StructLen * (j - 1) + 1] = e[j]
      BY <3>1
    <3> HIDE DEF old, new, S
    <3>7. /\ IsSequence(old \o new) /\ Len(old \o new) = StructLen * (m + 1) + StructLen
          /\ \A i \in 1..Len(old) : (old \o new)[i] = old[i]
          /\ (old \o new)[StructLen * (m + 1) + 1] = e[m + 2]
      <4>1. 1 \in 1..Len(new)
        BY <3>4, StructPositive
      <4>2. /\ IsSequence(old \o new) /\ Len(old \o new) = Len(old) + Len(new)
            /\ \A i \in 1..Len(old) : (old \o new)[i] = old[i]
            /\ \A i \in 1..Len(new) : (old \o new)[Len(old) + i] = new[i]
        <5>1. IsSequence(old) /\ IsSequence(new)
          BY <3>4, <3>5
        <5> HIDE DEF Good, n
        <5> QED
          BY <5>1, Joined
      <4> HIDE DEF Good
      <4>3. (old \o new)[Len(old) + 1] = e[m + 2]
        BY <3>4, <4>1, <4>2
      <4> QED
        BY <3>4, <3>5, <4>2, <4>3
    <3>8. StructLen * (m + 1) + StructLen = StructLen * (m + 2)
      <4>1. (m + 1) + 1 = m + 2 /\ m + 1 \in Nat
        BY <3>1
      <4> QED
        BY <4>1, Times
    <3>9. ASSUME NEW j \in 1..(m + 2)
          PROVE  (old \o new)[StructLen * (j - 1) + 1] = e[j]
      <4>1. CASE j = m + 2
        <5>1. j - 1 = m + 1
          BY <4>1, <3>1
        <5> HIDE DEF Good
        <5> QED
          BY <4>1, <5>1, <3>7
      <4>2. CASE j # m + 2
        <5>1. j \in 1..(m + 1) /\ j - 1 \in Nat /\ j - 1 < m + 1 /\ m + 1 \in Nat
          BY <3>1, <3>9, <4>2
        <5>2. StructLen * (j - 1) \in Nat /\ StructLen * (j - 1) + StructLen <= StructLen * (m + 1)
          BY <5>1, Times
        <5>3. StructLen * (m + 1) \in Nat
          BY <5>1, Times
        <5>4. StructLen * (j - 1) + 1 \in 1..Len(old)
          BY <3>5, <5>2, <5>3, StructPositive
        <5> QED
          BY <3>6, <3>7, <5>1, <5>4
      <4> QED
        BY <4>1, <4>2
    <3> QED
      BY <3>3, <3>7, <3>8, <3>9
  <2>5. S = Nat
    <3>1. S \in SUBSET Nat
      OBVIOUS
    <3> HIDE DEF S
    <3> QED
      BY <2>3, <2>4, <3>1, Induct
  <2>6. Good(n)
    <3>1. n - 1 \in S /\ (n - 1) + 1 = n /\ n - 1 \in Nat
      <4> HIDE DEF S, n
      <4> QED
        BY <2>5, <1>1, <1>7
    <3> HIDE DEF Good, n
    <3> QED
      BY <3>1
  <2> QED
    BY <2>1, <2>6
<1> QED
  BY <1>6, <1>7

(***************************************************************************)
(* A request as it is sent.                                                *)
(***************************************************************************)
LEMMA RawSequence ==
  ASSUME NEW tokens, IsSequence(tokens)
  PROVE  IsSequence(Raw(tokens))
<1> DEFINE n == Len(tokens)
           Cell(i) == IF tokens[i].encoded
                      THEN LET d == CHOOSE d \in DOMAIN HexByte : HexByte[d] = tokens[i].char
                           IN <<Percent, d[1], d[2]>>
                      ELSE <<tokens[i].char>>
           ss == [i \in 1..n |-> Cell(i)]
<1>1. n \in Nat /\ DOMAIN tokens = 1..n
  BY SequenceFacts
<1>2. Raw(tokens) = FlattenSeq(ss)
  BY <1>1 DEF Raw
<1>3. ASSUME NEW i \in 1..n PROVE IsSequence(Cell(i))
  <2>1. ASSUME NEW u, NEW v, NEW w PROVE IsSequence(<<u, v, w>>)
    <3>1. <<u, v, w>> \in Seq({u, v, w})
      OBVIOUS
    <3> QED
      BY <3>1, SequenceOf
  <2>2. ASSUME NEW u PROVE IsSequence(<<u>>)
    <3>1. <<u>> \in Seq({u})
      OBVIOUS
    <3> QED
      BY <3>1, SequenceOf
  <2> DEFINE d == CHOOSE d \in DOMAIN HexByte : HexByte[d] = tokens[i].char
  <2>3. Cell(i) = <<Percent, d[1], d[2]>> \/ Cell(i) = <<tokens[i].char>>
    OBVIOUS
  <2> HIDE DEF d, Cell
  <2> QED
    BY <2>1, <2>2, <2>3
<1> HIDE DEF Cell
<1>4. ss = [i \in 1..n |-> ss[i]] /\ \A i \in 1..n : IsSequence(ss[i])
  BY <1>3
<1> HIDE DEF ss
<1>5. IsSequence(ss) /\ Len(ss) = n
  BY <1>1, <1>4, FunctionSequence
<1> QED
  BY <1>2, <1>4, <1>5, FlattenSequence

LEMMA TargetSequence ==
  ASSUME NEW k \in Requests
  PROVE  /\ IsSequence(k.method) /\ IsSequence(Target(k)) /\ IsSequence(k.method \o Target(k))
         /\ Len(k.method \o Target(k)) = Len(k.method) + Len(Target(k))
         /\ Len(k.method) \in Nat /\ Len(Target(k)) \in Nat
         /\ IsSequence(k.headers) /\ Len(k.headers) \in Nat
<1>1. IsSequence(k.method) /\ IsSequence(k.path) /\ IsSequence(k.qs) /\ IsSequence(k.headers)
  BY SequenceAssumption
<1>2. IsSequence(Raw(k.path)) /\ IsSequence(Raw(k.qs))
  BY <1>1, RawSequence
<1>3. IsSequence(Target(k))
  <2>1. IsSequence(Raw(k.path) \o Raw(k.qs))
    BY <1>2, Joined
  <2> QED
    BY <2>1 DEF Target
<1>4. Len(k.method) \in Nat /\ Len(Target(k)) \in Nat /\ Len(k.headers) \in Nat
  BY <1>1, <1>3, SequenceFacts
<1>5. IsSequence(k.method \o Target(k)) /\ Len(k.method \o Target(k)) = Len(k.method) + Len(Target(k))
  BY <1>1, <1>3, Joined
<1> QED
  BY <1>1, <1>3, <1>4, <1>5

Line(k, i) == k.headers[i].name \o k.headers[i].value

LEMMA LineFacts ==
  ASSUME NEW k \in Requests, NEW i \in 1..Len(k.headers)
  PROVE  LET name == k.headers[i].name
             value == k.headers[i].value
         IN  /\ IsSequence(name) /\ IsSequence(value) /\ IsSequence(Line(k, i))
             /\ Len(name) \in Nat /\ Len(value) \in Nat
             /\ Len(Line(k, i)) = Len(name) + Len(value)
             /\ \A j \in 1..Len(name) : Line(k, i)[j] = name[j]
             /\ \A j \in 1..Len(value) : Line(k, i)[Len(name) + j] = value[j]
<1> DEFINE name == k.headers[i].name
           value == k.headers[i].value
<1>1. IsSequence(name) /\ IsSequence(value)
  <2>1. DOMAIN k.headers = 1..Len(k.headers)
    BY TargetSequence, SequenceFacts
  <2> QED
    BY <2>1, SequenceAssumption
<1>2. Line(k, i) = name \o value
  BY DEF Line
<1> HIDE DEF name, value
<1>3. Len(name) \in Nat /\ Len(value) \in Nat
  BY <1>1, SequenceFacts
<1>4. /\ IsSequence(name \o value) /\ Len(name \o value) = Len(name) + Len(value)
      /\ \A j \in 1..Len(name) : (name \o value)[j] = name[j]
      /\ \A j \in 1..Len(value) : (name \o value)[Len(name) + j] = value[j]
  BY <1>1, Joined
<1> QED
  BY <1>1, <1>2, <1>3, <1>4 DEF name, value

LEMMA HeaderTextStep ==
  ASSUME NEW k \in Requests, NEW n \in 0..Len(k.headers)
  PROVE  /\ IsSequence(HeaderText(k, n)) /\ Len(HeaderText(k, n)) \in Nat
         /\ n = 0 => HeaderText(k, n) = <<>>
         /\ n + 1 <= Len(k.headers) => HeaderText(k, n + 1) = HeaderText(k, n) \o Line(k, n + 1)
<1> DEFINE Lines(m) == [i \in 1..m |-> Line(k, i)]
<1>1. \A m \in Nat : HeaderText(k, m) = FlattenSeq(Lines(m))
  BY DEF HeaderText, Line
<1>2. ASSUME NEW m \in 0..Len(k.headers)
      PROVE  /\ IsSequence(Lines(m)) /\ Len(Lines(m)) = m
             /\ \A i \in 1..m : Lines(m)[i] = Line(k, i) /\ IsSequence(Line(k, i))
  <2>1. Len(k.headers) \in Nat
    BY TargetSequence
  <2>2. \A i \in 1..m : Lines(m)[i] = Line(k, i) /\ i \in 1..Len(k.headers)
    BY <2>1, <1>2
  <2>3. Lines(m) = [i \in 1..m |-> Lines(m)[i]] /\ m \in Nat
    BY <2>1, <1>2
  <2> DEFINE ll == Lines(m)
  <2> HIDE DEF Lines
  <2>4. ll = [i \in 1..m |-> ll[i]]
    BY <2>3
  <2> HIDE DEF ll
  <2>5. IsSequence(ll) /\ Len(ll) = m
    BY <2>3, <2>4, FunctionSequence
  <2>6. \A i \in 1..m : IsSequence(Line(k, i))
    BY <2>2, LineFacts
  <2> QED
    BY <2>2, <2>5, <2>6 DEF ll
<1>3. n \in Nat /\ Len(k.headers) \in Nat
  BY TargetSequence
<1> HIDE DEF Lines
<1>4. IsSequence(FlattenSeq(Lines(n)))
  <2> DEFINE ll == Lines(n)
  <2>1. IsSequence(ll) /\ \A i \in 1..Len(ll) : IsSequence(ll[i])
    BY <1>2, <1>3
  <2> HIDE DEF ll
  <2>2. IsSequence(FlattenSeq(ll))
    BY <2>1, FlattenSequence
  <2> QED
    BY <2>2 DEF ll
<1>5. Len(HeaderText(k, n)) \in Nat
  BY <1>1, <1>3, <1>4, SequenceFacts
<1>6. ASSUME n = 0 PROVE HeaderText(k, n) = <<>>
  <2>1. Len(Lines(n)) = 0 /\ IsSequence(Lines(n))
    BY <1>2, <1>6
  <2>2. Lines(n) = <<>>
    BY <2>1, EmptySeq, SequenceFacts
  <2>3. FlattenSeq(Lines(n)) = Lines(n)
    BY <2>1, FlattenIsFlat
  <2> QED
    BY <1>1, <1>3, <2>2, <2>3
<1>7. ASSUME n + 1 <= Len(k.headers)
      PROVE  HeaderText(k, n + 1) = HeaderText(k, n) \o Line(k, n + 1)
  <2> DEFINE ss == Lines(n + 1)
             tt == Lines(n)
  <2>1. n + 1 \in 0..Len(k.headers) /\ n + 1 \in Nat /\ n + 1 \in 1..(n + 1)
    BY <1>3, <1>7
  <2>2. /\ IsSequence(ss) /\ Len(ss) = n + 1
        /\ \A i \in 1..(n + 1) : ss[i] = Line(k, i) /\ IsSequence(Line(k, i))
    BY <1>2, <2>1
  <2>3. IsSequence(tt) /\ Len(tt) = n /\ \A i \in 1..n : tt[i] = Line(k, i)
    BY <1>2
  <2>4. HeaderText(k, n + 1) = FlattenSeq(ss) /\ HeaderText(k, n) = FlattenSeq(tt)
    BY <1>1, <1>3, <2>1
  <2> HIDE DEF ss, tt
  <2>5. /\ \A i \in 1..n : tt[i] = ss[i]
        /\ \A i \in 1..(n + 1) : IsSequence(ss[i])
    BY <2>2, <2>3, <1>3
  <2>6. FlattenSeq(ss) = FlattenSeq(tt) \o ss[n + 1]
    BY <2>2, <2>3, <2>5, <1>3, FlattenLast
  <2> QED
    BY <2>1, <2>2, <2>4, <2>6
<1> QED
  BY <1>1, <1>3, <1>4, <1>5, <1>6, <1>7

LEMMA HeaderTextBegins ==
  ASSUME NEW k \in Requests, NEW i \in 0..Len(k.headers), NEW n \in Nat, i + n <= Len(k.headers)
  PROVE  Begins(HeaderText(k, i), HeaderText(k, i + n))
<1>1. Len(k.headers) \in Nat /\ i \in Nat
  BY TargetSequence
<1> DEFINE S == {m \in Nat : i + m <= Len(k.headers)
                              => Begins(HeaderText(k, i), HeaderText(k, i + m))}
<1>2. 0 \in S
  <2>1. i + 0 = i
    BY <1>1
  <2>2. IsSequence(HeaderText(k, i)) /\ Len(HeaderText(k, i)) \in Nat
    BY HeaderTextStep
  <2> QED
    BY <2>1, <2>2 DEF Begins
<1>3. ASSUME NEW m \in S PROVE m + 1 \in S
  <2> SUFFICES ASSUME i + (m + 1) <= Len(k.headers)
               PROVE  Begins(HeaderText(k, i), HeaderText(k, i + (m + 1)))
    OBVIOUS
  <2>1. m \in Nat /\ i + m \in 0..Len(k.headers) /\ i + (m + 1) = (i + m) + 1
        /\ (i + m) + 1 \in 1..Len(k.headers)
    BY <1>1
  <2>2. Begins(HeaderText(k, i), HeaderText(k, i + m))
    BY <2>1, <1>1
  <2> HIDE DEF S
  <2> DEFINE l == i + m
  <2>3. l \in 0..Len(k.headers) /\ l + 1 <= Len(k.headers) /\ l + 1 \in 1..Len(k.headers)
    BY <2>1, <1>1
  <2>4. i + (m + 1) = l + 1 /\ Begins(HeaderText(k, i), HeaderText(k, l))
    BY <2>1, <2>2
  <2> HIDE DEF l
  <2>5. HeaderText(k, l + 1) = HeaderText(k, l) \o Line(k, l + 1)
    BY <2>3, HeaderTextStep
  <2>6. IsSequence(Line(k, l + 1))
    BY <2>3, LineFacts
  <2> QED
    BY <2>4, <2>5, <2>6, BeginsJoined
<1>4. S = Nat
  <2>1. S \in SUBSET Nat
    OBVIOUS
  <2> HIDE DEF S
  <2> QED
    BY <1>2, <1>3, <2>1, Induct
<1> QED
  BY <1>4

HeadLen(k) == Len(k.method) + Len(Target(k))
TextLen(k) == Len(WireText(k))
Offset(k, i) == HeadLen(k) + Len(HeaderText(k, i - 1))

LEMMA WireTextFacts ==
  ASSUME NEW k \in Requests
  PROVE  /\ IsSequence(WireText(k)) /\ TextLen(k) \in Nat /\ HeadLen(k) \in Nat
         /\ TextLen(k) = HeadLen(k) + Len(HeaderText(k, Len(k.headers)))
         /\ HeadLen(k) <= TextLen(k)
         /\ Len(k.headers) = 0 => TextLen(k) = HeadLen(k)
         /\ \A j \in 1..Len(k.method) : WireText(k)[j] = k.method[j]
         /\ \A j \in 1..Len(HeaderText(k, Len(k.headers))) :
              WireText(k)[HeadLen(k) + j] = HeaderText(k, Len(k.headers))[j]
<1> DEFINE h == k.method \o Target(k)
           t == HeaderText(k, Len(k.headers))
<1>1. /\ IsSequence(k.method) /\ IsSequence(Target(k)) /\ IsSequence(h)
      /\ Len(h) = Len(k.method) + Len(Target(k))
      /\ Len(k.method) \in Nat /\ Len(Target(k)) \in Nat /\ Len(k.headers) \in Nat
  BY TargetSequence
<1>2. Len(k.headers) \in 0..Len(k.headers)
  BY <1>1
<1>3. IsSequence(t) /\ Len(t) \in Nat /\ (Len(k.headers) = 0 => t = <<>>)
  BY <1>2, HeaderTextStep
<1>4. \A j \in 1..Len(k.method) : h[j] = k.method[j]
  BY <1>1, Joined
<1>5. WireText(k) = h \o t
  BY DEF WireText
<1> HIDE DEF h, t
<1>6. /\ IsSequence(h \o t) /\ Len(h \o t) = Len(h) + Len(t)
      /\ \A j \in 1..Len(h) : (h \o t)[j] = h[j]
      /\ \A j \in 1..Len(t) : (h \o t)[Len(h) + j] = t[j]
  <2>1. IsSequence(h) /\ IsSequence(t)
    BY <1>1, <1>3
  <2> QED
    BY <2>1, Joined
<1>7. Len(h) = HeadLen(k)
  BY <1>1 DEF HeadLen
<1>8. \A j \in 1..Len(k.method) : (h \o t)[j] = k.method[j]
  BY <1>1, <1>4, <1>6
<1>9. Len(k.headers) = 0 => Len(t) = 0
  BY <1>3, EmptySeq
<1>10. /\ IsSequence(WireText(k)) /\ TextLen(k) = HeadLen(k) + Len(t)
       /\ TextLen(k) \in Nat /\ HeadLen(k) \in Nat
  <2>1. TextLen(k) = Len(h \o t)
    BY <1>5 DEF TextLen
  <2>2. HeadLen(k) \in Nat
    BY <1>1 DEF HeadLen
  <2>3. IsSequence(WireText(k))
    BY <1>5, <1>6
  <2> QED
    BY <1>3, <1>6, <1>7, <2>1, <2>2, <2>3
<1>11. HeadLen(k) <= TextLen(k) /\ (Len(k.headers) = 0 => TextLen(k) = HeadLen(k))
  BY <1>3, <1>9, <1>10
<1>12. \A j \in 1..Len(k.method) : WireText(k)[j] = k.method[j]
  BY <1>5, <1>8
<1>13. \A j \in 1..Len(t) : WireText(k)[HeadLen(k) + j] = t[j]
  BY <1>5, <1>6, <1>7
<1> QED
  BY <1>10, <1>11, <1>12, <1>13 DEF t

LEMMA OffsetFacts ==
  ASSUME NEW k \in Requests, NEW i \in 1..Len(k.headers)
  PROVE  LET name == k.headers[i].name
             value == k.headers[i].value
             off == Offset(k, i)
         IN  /\ off \in Nat /\ HeadLen(k) <= off
             /\ off + Len(name) + Len(value) <= TextLen(k)
             /\ i = Len(k.headers) => off + Len(name) + Len(value) = TextLen(k)
             /\ \A j \in 1..Len(name) : WireText(k)[off + j] = name[j]
             /\ \A j \in 1..Len(value) : WireText(k)[off + Len(name) + j] = value[j]
<1> DEFINE name == k.headers[i].name
           value == k.headers[i].value
           n == Len(k.headers)
           old == HeaderText(k, i - 1)
           all == HeaderText(k, n)
           line == Line(k, i)
<1>1. n \in Nat /\ i - 1 \in 0..n /\ (i - 1) + 1 = i /\ i \in 0..n /\ i <= n
  BY TargetSequence
<1>2. /\ IsSequence(line) /\ Len(name) \in Nat /\ Len(value) \in Nat
      /\ Len(line) = Len(name) + Len(value)
      /\ \A j \in 1..Len(name) : line[j] = name[j]
      /\ \A j \in 1..Len(value) : line[Len(name) + j] = value[j]
  BY LineFacts
<1>3. IsSequence(old) /\ Len(old) \in Nat
  BY <1>1, HeaderTextStep
<1>4. HeaderText(k, i) = old \o line
  BY <1>1, HeaderTextStep
<1>5. Begins(HeaderText(k, i), all)
  <2> DEFINE d == n - i
  <2>1. d \in Nat /\ i + d = n
    BY <1>1
  <2> HIDE DEF d
  <2>2. Begins(HeaderText(k, i), HeaderText(k, i + d))
    BY <1>1, <2>1, HeaderTextBegins
  <2> QED
    BY <2>1, <2>2
<1>6. /\ TextLen(k) = HeadLen(k) + Len(all) /\ HeadLen(k) \in Nat
      /\ \A j \in 1..Len(all) : WireText(k)[HeadLen(k) + j] = all[j]
  BY WireTextFacts
<1>7. Offset(k, i) = HeadLen(k) + Len(old)
  BY DEF Offset
<1>8. i = n => all = old \o line
  BY <1>4
<1> HIDE DEF name, value, n, old, all, line
<1>9. /\ IsSequence(old \o line) /\ Len(old \o line) = Len(old) + Len(line)
      /\ \A j \in 1..Len(line) : (old \o line)[Len(old) + j] = line[j]
  <2>1. IsSequence(old) /\ IsSequence(line)
    BY <1>2, <1>3
  <2> QED
    BY <2>1, Joined
<1>10. /\ Len(all) \in Nat /\ Len(old) + Len(line) <= Len(all)
       /\ \A j \in 1..(Len(old) + Len(line)) : all[j] = (old \o line)[j]
       /\ i = n => Len(all) = Len(old) + Len(line)
  BY <1>4, <1>5, <1>8, <1>9 DEF Begins
<1> DEFINE off == Offset(k, i)
<1>11. ASSUME NEW j \in 1..Len(line) PROVE WireText(k)[off + j] = line[j]
  <2>1. /\ Len(old) + j \in 1..(Len(old) + Len(line)) /\ Len(old) + j \in 1..Len(all)
        /\ off + j = HeadLen(k) + (Len(old) + j)
    BY <1>2, <1>3, <1>6, <1>7, <1>10
  <2> HIDE DEF off
  <2> QED
    BY <2>1, <1>6, <1>9, <1>10
<1>12. /\ off \in Nat /\ HeadLen(k) <= off
       /\ off + Len(name) + Len(value) <= TextLen(k)
       /\ i = n => off + Len(name) + Len(value) = TextLen(k)
  <2>1. /\ Len(old) \in Nat /\ HeadLen(k) \in Nat /\ Len(name) \in Nat /\ Len(value) \in Nat
        /\ off = HeadLen(k) + Len(old) /\ Len(line) = Len(name) + Len(value)
        /\ TextLen(k) = HeadLen(k) + Len(all)
    BY <1>2, <1>3, <1>6, <1>7
  <2>2. /\ Len(all) \in Nat /\ Len(old) + Len(line) <= Len(all)
        /\ i = n => Len(all) = Len(old) + Len(line)
    BY <1>10
  <2> HIDE DEF off
  <2>3. off \in Nat /\ HeadLen(k) <= off
    BY <2>1
  <2>4. off + Len(name) + Len(value) = HeadLen(k) + (Len(old) + Len(line))
    BY <2>1
  <2>5. Len(old) + Len(line) \in Nat
    BY <2>1
  <2>6. off + Len(name) + Len(value) <= TextLen(k)
    BY <2>1, <2>2, <2>4, <2>5
  <2>7. i = n => off + Len(name) + Len(value) = TextLen(k)
    BY <2>1, <2>2, <2>4
  <2> QED
    BY <2>3, <2>6, <2>7
<1> HIDE DEF off
<1>13. \A j \in 1..Len(name) : WireText(k)[off + j] = name[j]
  <2>1. \A j \in 1..Len(name) : j \in 1..Len(line)
    BY <1>2
  <2> QED
    BY <1>2, <1>11, <2>1
<1>14. \A j \in 1..Len(value) : WireText(k)[off + Len(name) + j] = value[j]
  <2> TAKE j \in 1..Len(value)
  <2>1. Len(name) + j \in 1..Len(line) /\ off + (Len(name) + j) = off + Len(name) + j
    BY <1>2, <1>12
  <2> QED
    BY <1>2, <1>11, <2>1
<1> QED
  BY <1>12, <1>13, <1>14 DEF name, value, off, n

LEMMA WireHeadersFacts ==
  ASSUME NEW k \in Requests
  PROVE  /\ IsSequence(WireHeaders(k)) /\ Len(WireHeaders(k)) = Len(k.headers)
         /\ \A i \in 1..Len(k.headers) :
              WireHeaders(k)[i] =
                [name |-> At(Wire, Offset(k, i)), name_len |-> Len(k.headers[i].name),
                 value |-> At(Wire, Offset(k, i) + Len(k.headers[i].name)),
                 value_len |-> Len(k.headers[i].value)]
<1> DEFINE n == Len(k.headers)
           w == WireHeaders(k)
<1>1. n \in Nat /\ DOMAIN k.headers = 1..n
  BY TargetSequence, SequenceFacts
<1>2. ASSUME NEW i \in 1..n
      PROVE  Len(k.method \o Target(k) \o HeaderText(k, i - 1)) = Offset(k, i)
  <2> DEFINE h == k.method \o Target(k)
             t == HeaderText(k, i - 1)
  <2>1. IsSequence(h) /\ Len(h) = HeadLen(k)
    BY TargetSequence DEF HeadLen
  <2>2. i - 1 \in 0..n
    BY <1>1
  <2>3. IsSequence(t)
    BY <2>2, HeaderTextStep
  <2> HIDE DEF h, t
  <2>4. Len(h \o t) = Len(h) + Len(t)
    BY <2>1, <2>3, Joined
  <2> QED
    BY <2>1, <2>4 DEF h, t, Offset
<1>3. \A i \in 1..n :
        w[i] = [name |-> At(Wire, Offset(k, i)), name_len |-> Len(k.headers[i].name),
                value |-> At(Wire, Offset(k, i) + Len(k.headers[i].name)),
                value_len |-> Len(k.headers[i].value)]
  BY <1>1, <1>2 DEF WireHeaders
<1>4. w = [i \in 1..n |-> w[i]]
  BY <1>1 DEF WireHeaders
<1> HIDE DEF w
<1>5. IsSequence(w) /\ Len(w) = n
  BY <1>1, <1>4, FunctionSequence
<1> QED
  BY <1>3, <1>5 DEF w

(***************************************************************************)
(* Memory.                                                                 *)
(***************************************************************************)
Blocks == Objects \cup Heap \cup {Wire}

IsMemory(m) == m = [b \in Blocks |-> m[b]] /\ \A b \in Blocks : IsSequence(m[b])

Stored(m, b, s) == [m EXCEPT ![b] = s]

LEMMA WriteBlock ==
  ASSUME NEW m, IsMemory(m), NEW b \in Blocks, NEW s, IsSequence(s)
  PROVE  /\ IsMemory(Stored(m, b, s)) /\ Stored(m, b, s)[b] = s
         /\ \A d \in Blocks \ {b} : Stored(m, b, s)[d] = m[d]
<1> DEFINE w == Stored(m, b, s)
<1> USE DEF Stored
<1>1. w[b] = s /\ \A d \in Blocks \ {b} : w[d] = m[d]
  BY DEF IsMemory
<1>2. w = [d \in Blocks |-> w[d]]
  BY DEF IsMemory
<1> HIDE DEF w
<1>3. IsMemory(w)
  BY <1>1, <1>2 DEF IsMemory
<1> QED
  BY <1>1, <1>3 DEF w

\* Memory w is m with the cells written into block b behind off; what falls outside is
\* lost.
Wrote(w, m, b, off, cells) ==
  /\ IsMemory(w) /\ Len(w[b]) = Len(m[b])
  /\ \A i \in 1..Len(m[b]) : i <= off \/ off + Len(cells) < i => w[b][i] = m[b][i]
  /\ \A j \in 1..Len(cells) : off + j <= Len(m[b]) => w[b][off + j] = cells[j]
  /\ \A d \in Blocks \ {b} : w[d] = m[d]

LEMMA PutFacts ==
  ASSUME NEW m, IsMemory(m), NEW b \in Blocks, NEW off \in Nat, NEW cells, IsSequence(cells)
  PROVE  Wrote(Put(m, At(b, off), cells), m, b, off, cells)
<1> DEFINE old == m[b]
           n == Len(old)
           new == [i \in 1..n |-> IF i - off \in 1..Len(cells) THEN cells[i - off] ELSE old[i]]
           w == Put(m, At(b, off), cells)
<1>1. IsSequence(old) /\ n \in Nat /\ DOMAIN old = 1..n
  BY SequenceFacts DEF IsMemory
<1>2. DOMAIN cells = 1..Len(cells) /\ Len(cells) \in Nat
  BY SequenceFacts
<1>3. w = Stored(m, b, new)
  <2>1. At(b, off).blk = b /\ At(b, off).off = off
    BY DEF At
  <2>2. w = [m EXCEPT ![b] = [i \in DOMAIN m[b] |-> IF i - off \in DOMAIN cells
                                                    THEN cells[i - off] ELSE m[b][i]]]
    BY <2>1 DEF Put
  <2> QED
    BY <1>1, <1>2, <2>2 DEF Stored
<1>4. new = [i \in 1..n |-> new[i]]
  OBVIOUS
<1>5. ASSUME NEW i \in 1..n, i <= off \/ off + Len(cells) < i PROVE new[i] = old[i]
  <2>1. i - off \notin 1..Len(cells)
    BY <1>1, <1>2, <1>5
  <2> QED
    BY <2>1
<1>6. ASSUME NEW j \in 1..Len(cells), off + j <= n PROVE new[off + j] = cells[j]
  <2>1. off + j \in 1..n /\ (off + j) - off = j
    BY <1>1, <1>2, <1>6
  <2> QED
    BY <2>1
<1> HIDE DEF new, w
<1>7. IsSequence(new) /\ Len(new) = n
  <2> HIDE DEF n
  <2> QED
    BY <1>1, <1>4, FunctionSequence
<1>8. IsMemory(w) /\ w[b] = new /\ \A d \in Blocks \ {b} : w[d] = m[d]
  <2>1. IsSequence(new)
    BY <1>7
  <2> QED
    BY <1>3, <2>1, WriteBlock
<1> QED
  BY <1>5, <1>6, <1>7, <1>8 DEF w, Wrote

LEMMA CellsFacts ==
  ASSUME NEW m, IsMemory(m), NEW b \in Blocks, NEW off \in Nat, NEW n \in Nat,
         off + n <= Len(m[b])
  PROVE  /\ IsSequence(Cells(m, At(b, off), n)) /\ Len(Cells(m, At(b, off), n)) = n
         /\ \A j \in 1..n : Cells(m, At(b, off), n)[j] = m[b][off + j]
<1>1. IsSequence(m[b])
  BY DEF IsMemory
<1>2. Cells(m, At(b, off), n) = SubSeq(m[b], off + 1, off + n)
  BY DEF Cells, At
<1> DEFINE s == m[b]
<1> HIDE DEF s
<1>3. /\ IsSequence(SubSeq(s, off + 1, off + n)) /\ Len(SubSeq(s, off + 1, off + n)) = n
      /\ \A j \in 1..n : SubSeq(s, off + 1, off + n)[j] = s[off + j]
  <2>1. IsSequence(s) /\ off + n <= Len(s)
    BY <1>1 DEF s
  <2> QED
    BY <2>1, Cut
<1> QED
  BY <1>2, <1>3 DEF s

LEMMA CellsAre ==
  ASSUME NEW m, IsMemory(m), NEW b \in Blocks, NEW off \in Nat, NEW t, IsSequence(t),
         off + Len(t) <= Len(m[b]), \A j \in 1..Len(t) : m[b][off + j] = t[j]
  PROVE  Cells(m, At(b, off), Len(t)) = t
<1> DEFINE n == Len(t)
           s == Cells(m, At(b, off), n)
<1>1. n \in Nat
  BY SequenceFacts
<1>2. IsSequence(s) /\ Len(s) = n /\ \A j \in 1..n : s[j] = m[b][off + j]
  BY <1>1, CellsFacts
<1> HIDE DEF s
<1>3. s = t
  BY <1>2, EqualSequences
<1> QED
  BY <1>3 DEF s

LEMMA MaxOfTwo ==
  ASSUME NEW a \in Nat, NEW b \in Nat
  PROVE  Max({a, b}) \in Nat /\ a <= Max({a, b}) /\ b <= Max({a, b})
<1>1. PICK m \in {a, b} : m >= a /\ m >= b
  OBVIOUS
<1>2. Max({a, b}) \in {a, b} /\ Max({a, b}) >= a /\ Max({a, b}) >= b
  BY <1>1 DEF Max
<1> QED
  BY <1>2

LEMMA GrownFacts ==
  ASSUME NEW m, IsMemory(m), NEW r, NEW need, NEW b \in Blocks,
         r.buffer \in Blocks, Len(m[r.buffer]) = r.buffer_len, r.buffer_len \in Nat,
         need.off \in Nat, need.len \in Nat, need.off <= r.buffer_len,
         Fits(r, need) => b = r.buffer
  PROVE  LET w == Grown(m, r, need, b)
         IN  /\ IsMemory(w) /\ Len(w[b]) = GrownLen(r, need)
             /\ r.buffer_len <= Len(w[b]) /\ need.off + need.len <= Len(w[b])
             /\ \A i \in 1..r.buffer_len : w[b][i] = m[r.buffer][i]
             /\ \A d \in Blocks \ {b, r.buffer} : w[d] = m[d]
<1> DEFINE w == Grown(m, r, need, b)
           len == Max({2 * r.buffer_len, r.buffer_len + need.len})
           old == m[r.buffer]
           copy == [i \in 1..len |-> IF i <= Len(old) THEN old[i] ELSE Junk]
<1>1. IsSequence(old) /\ Len(old) = r.buffer_len
  BY DEF IsMemory
<1>2. CASE Fits(r, need)
  <2>1. w = m /\ GrownLen(r, need) = r.buffer_len
    BY <1>2 DEF Grown, GrownLen
  <2>2. need.off + need.len <= r.buffer_len
    BY <1>2 DEF Fits
  <2> QED
    BY <1>1, <1>2, <2>1, <2>2
<1>3. CASE ~Fits(r, need)
  <2>1. len \in Nat /\ r.buffer_len <= len /\ need.off + need.len <= len
    <3>1. 2 * r.buffer_len \in Nat /\ r.buffer_len + need.len \in Nat
      OBVIOUS
    <3>2. len \in Nat /\ r.buffer_len + need.len <= len
      BY <3>1, MaxOfTwo
    <3> HIDE DEF len
    <3> QED
      BY <3>2
  <2>2. GrownLen(r, need) = len
    BY <1>3 DEF GrownLen
  <2>3. \A i \in 1..r.buffer_len : copy[i] = old[i]
    <3> HIDE DEF len
    <3> QED
      BY <1>1, <2>1
  <2>4. copy = [i \in 1..len |-> copy[i]]
    OBVIOUS
  <2>5. w = IF r.buffer \in Heap /\ b # r.buffer
            THEN [m EXCEPT ![r.buffer] = <<>>, ![b] = copy]
            ELSE [m EXCEPT ![b] = copy]
    BY <1>3 DEF Grown
  <2> HIDE DEF copy, w, len
  <2>6. IsSequence(copy) /\ Len(copy) = len
    BY <2>1, <2>4, FunctionSequence
  <2>7. IsMemory(w) /\ w[b] = copy /\ \A d \in Blocks \ {b, r.buffer} : w[d] = m[d]
    <3>1. CASE ~(r.buffer \in Heap /\ b # r.buffer)
      <4>1. w = Stored(m, b, copy)
        BY <2>5, <3>1 DEF Stored
      <4> QED
        <5>1. IsSequence(copy)
          BY <2>6
        <5>2. IsMemory(w) /\ w[b] = copy /\ \A d \in Blocks \ {b} : w[d] = m[d]
          BY <4>1, <5>1, WriteBlock
        <5> QED
          BY <5>2
    <3>2. CASE r.buffer \in Heap /\ b # r.buffer
      <4> DEFINE e == <<>>
                 v == Stored(m, r.buffer, e)
      <4>1. IsSequence(e)
        <5>1. <<>> \in Seq({})
          OBVIOUS
        <5> QED
          BY <5>1, SequenceOf
      <4>2. w = Stored(v, b, copy)
        BY <2>5, <3>2 DEF IsMemory, Stored
      <4> HIDE DEF e
      <4>3. v = Stored(m, r.buffer, e)
        OBVIOUS
      <4> HIDE DEF v
      <4>5. IsMemory(v) /\ \A d \in Blocks \ {r.buffer} : v[d] = m[d]
        BY <4>1, <4>3, WriteBlock
      <4>4. IsMemory(w) /\ w[b] = copy /\ \A d \in Blocks \ {b} : w[d] = v[d]
        <5>1. IsSequence(copy) /\ IsMemory(v) /\ w = Stored(v, b, copy)
          BY <4>2, <4>5, <2>6
        <5> QED
          BY <5>1, WriteBlock
      <4> QED
        BY <4>5, <4>4
    <3> QED
      BY <3>1, <3>2
  <2> QED
    BY <2>1, <2>2, <2>3, <2>6, <2>7 DEF w
<1> QED
  BY <1>2, <1>3

(***************************************************************************)
(* A request's head in memory.                                             *)
(***************************************************************************)
Entry(k, i, b) ==
  [name |-> At(b, Offset(k, i)), name_len |-> Len(k.headers[i].name),
   value |-> At(b, Offset(k, i) + Len(k.headers[i].name)),
   value_len |-> Len(k.headers[i].value)]

Entries(k, b) == [i \in 1..Len(k.headers) |-> Entry(k, i, b)]

\* Where the header entries begin, each of them, and where they end.
EntriesAt(k) == Round(TextLen(k))
EntryAt(k, i) == EntriesAt(k) + StructLen * (i - 1) + 1
End(k) == EntriesAt(k) + StructLen * Len(k.headers)

\* A letter in lower case.
LowerOf(c) == IF c \in DOMAIN Lower THEN Lower[c] ELSE c

\* Cells x hold header i of k: its name but for the case of its letters, its value.
Spells(x, k, i) ==
  LET name == k.headers[i].name
      value == k.headers[i].value
  IN  /\ \A j \in 1..Len(name) : LowerOf(x[Offset(k, i) + j]) = LowerOf(name[j])
      /\ \A j \in 1..Len(value) : x[Offset(k, i) + Len(name) + j] = value[j]

\* What block b, with cells x, holds of the head: all of it but the path and query
\* string, which are decoded in place, and the case of the names.
Contents(x, b, k) ==
  /\ \A j \in 1..Len(k.method) : x[j] = k.method[j]
  /\ \A i \in 1..Len(k.headers) : Spells(x, k, i)
  /\ \A i \in 1..Len(k.headers) : x[EntryAt(k, i)] = Entry(k, i, b)

LEMMA EntriesFacts ==
  ASSUME NEW k \in Requests, NEW b
  PROVE  /\ IsSequence(Entries(k, b)) /\ Len(Entries(k, b)) = Len(k.headers)
         /\ \A i \in 1..Len(k.headers) : Entries(k, b)[i] = Entry(k, i, b)
<1> DEFINE e == Entries(k, b)
           n == Len(k.headers)
<1>1. n \in Nat
  BY TargetSequence
<1>2. e = [i \in 1..n |-> e[i]] /\ \A i \in 1..n : e[i] = Entry(k, i, b)
  BY DEF Entries
<1> HIDE DEF e
<1>3. IsSequence(e) /\ Len(e) = n
  <2> HIDE DEF n
  <2> QED
    BY <1>1, <1>2, FunctionSequence
<1> QED
  BY <1>2, <1>3 DEF e

LEMMA WireEntries ==
  ASSUME NEW k \in Requests
  PROVE  WireHeaders(k) = Entries(k, Wire)
<1>1. /\ IsSequence(WireHeaders(k)) /\ Len(WireHeaders(k)) = Len(k.headers)
      /\ \A i \in 1..Len(k.headers) : WireHeaders(k)[i] = Entry(k, i, Wire)
  BY WireHeadersFacts DEF Entry
<1>2. /\ IsSequence(Entries(k, Wire)) /\ Len(Entries(k, Wire)) = Len(k.headers)
      /\ \A i \in 1..Len(k.headers) : Entries(k, Wire)[i] = Entry(k, i, Wire)
  BY EntriesFacts
<1> DEFINE s == WireHeaders(k)
           t == Entries(k, Wire)
<1> HIDE DEF s, t
<1>3. IsSequence(s) /\ IsSequence(t) /\ Len(s) = Len(t) /\ \A i \in 1..Len(s) : s[i] = t[i]
  BY <1>1, <1>2 DEF s, t
<1>4. s = t
  BY <1>3, EqualSequences
<1> QED
  BY <1>4 DEF s, t

Repoint(e, p, q) == [e EXCEPT !.name = p, !.value = q]

LEMMA Repointed ==
  ASSUME NEW p, NEW q, NEW n, NEW l, NEW p2, NEW q2, NEW e,
         e = [name |-> p, name_len |-> n, value |-> q, value_len |-> l]
  PROVE  Repoint(e, p2, q2)
           = [name |-> p2, name_len |-> n, value |-> q2, value_len |-> l]
<1> DEFINE d == [e EXCEPT !.name = p2]
<1>1. d = [name |-> p2, name_len |-> n, value |-> q, value_len |-> l]
  OBVIOUS
<1> HIDE DEF d
<1>2. [d EXCEPT !.value = q2] = [name |-> p2, name_len |-> n, value |-> q2, value_len |-> l]
  BY <1>1
<1>3. [d EXCEPT !.value = q2] = [e EXCEPT !.name = p2, !.value = q2]
  BY DEF d
<1> QED
  BY <1>2, <1>3 DEF Repoint

LEMMA EntriesMoved ==
  ASSUME NEW k \in Requests, NEW a, NEW b
  PROVE  MovedHeaders(Entries(k, a), At(a, 0), At(b, 0)) = Entries(k, b)
<1>1. DOMAIN Entries(k, a) = 1..Len(k.headers)
  BY DEF Entries
<1>2. ASSUME NEW i \in 1..Len(k.headers)
      PROVE  [Entry(k, i, a) EXCEPT !.name = Moved(@, At(a, 0), At(b, 0)),
                                    !.value = Moved(@, At(a, 0), At(b, 0))] = Entry(k, i, b)
  <2> DEFINE off == Offset(k, i)
             n == Len(k.headers[i].name)
  <2>1. off \in Nat /\ n \in Nat
    BY OffsetFacts, LineFacts
  <2> HIDE DEF off, n
  <2>2. \A o \in Nat : Moved(At(a, o), At(a, 0), At(b, 0)) = At(b, o)
    BY DEF Moved, At
  <2>3. /\ Moved(At(a, off), At(a, 0), At(b, 0)) = At(b, off)
        /\ Moved(At(a, off + n), At(a, 0), At(b, 0)) = At(b, off + n)
    BY <2>1, <2>2
  <2> DEFINE l == Len(k.headers[i].value)
             e == Entry(k, i, a)
             from == At(a, 0)
             to == At(b, 0)
  <2>4. /\ e = [name |-> At(a, off), name_len |-> n, value |-> At(a, off + n), value_len |-> l]
        /\ Entry(k, i, b) = [name |-> At(b, off), name_len |-> n, value |-> At(b, off + n),
                             value_len |-> l]
    BY DEF Entry, off, n
  <2> HIDE DEF l, e, from, to
  <2>5. /\ Moved(e.name, from, to) = At(b, off) /\ Moved(e.value, from, to) = At(b, off + n)
    BY <2>3, <2>4 DEF from, to
  <2>6. [e EXCEPT !.name = Moved(@, from, to), !.value = Moved(@, from, to)]
          = Repoint(e, At(b, off), At(b, off + n))
    BY <2>4, <2>5 DEF Repoint
  <2>7. Repoint(e, At(b, off), At(b, off + n))
          = [name |-> At(b, off), name_len |-> n, value |-> At(b, off + n), value_len |-> l]
    BY <2>4, Repointed
  <2> QED
    BY <2>4, <2>6, <2>7 DEF e, from, to
<1>3. ASSUME NEW i \in 1..Len(k.headers)
      PROVE  Entries(k, a)[i] = Entry(k, i, a) /\ Entries(k, b)[i] = Entry(k, i, b)
  BY DEF Entries
<1>4. MovedHeaders(Entries(k, a), At(a, 0), At(b, 0)) = [i \in 1..Len(k.headers) |-> Entry(k, i, b)]
  BY <1>1, <1>2, <1>3 DEF MovedHeaders
<1> QED
  BY <1>4 DEF Entries

LEMMA PlacesFacts ==
  ASSUME NEW k \in Requests
  PROVE  /\ EntriesAt(k) \in Nat /\ TextLen(k) <= EntriesAt(k)
         /\ TextLen(k) \in Nat /\ HeadLen(k) \in Nat /\ HeadLen(k) <= TextLen(k)
         /\ Len(k.headers) \in Nat /\ StructLen * Len(k.headers) \in Nat
         /\ End(k) \in Nat /\ EntriesAt(k) <= End(k)
         /\ \A i \in 1..Len(k.headers) :
              EntryAt(k, i) \in (EntriesAt(k) + 1)..End(k) /\ EntryAt(k, i) \in Nat
<1> DEFINE n == Len(k.headers)
           t == TextLen(k)
<1>1. n \in Nat /\ t \in Nat /\ HeadLen(k) \in Nat /\ HeadLen(k) <= t
  BY TargetSequence, WireTextFacts
<1>2. EntriesAt(k) = Round(t)
  BY DEF EntriesAt
<1>3. End(k) = EntriesAt(k) + StructLen * n
  BY DEF End
<1>4. \A i \in 1..n : EntryAt(k, i) = EntriesAt(k) + StructLen * (i - 1) + 1
  BY DEF EntryAt
<1> HIDE DEF n, t
<1>5. EntriesAt(k) \in Nat /\ t <= EntriesAt(k)
  BY <1>1, <1>2, Rounded
<1>6. StructLen * n \in Nat
  BY <1>1, Times
<1>7. ASSUME NEW i \in 1..n
      PROVE  EntryAt(k, i) \in (EntriesAt(k) + 1)..End(k) /\ EntryAt(k, i) \in Nat
  <2>1. i - 1 \in Nat /\ i - 1 < n
    BY <1>1
  <2>2. StructLen * (i - 1) \in Nat /\ StructLen * (i - 1) + StructLen <= StructLen * n
    BY <1>1, <2>1, Times
  <2> QED
    BY <1>3, <1>4, <1>5, <1>6, <2>2, StructPositive
<1>8. End(k) \in Nat /\ EntriesAt(k) <= End(k)
  BY <1>3, <1>5, <1>6
<1> QED
  BY <1>1, <1>5, <1>6, <1>7, <1>8 DEF n, t

\* Where a header's text lies.
LEMMA HeaderPlaces ==
  ASSUME NEW k \in Requests, NEW i \in 1..Len(k.headers)
  PROVE  LET name == k.headers[i].name
             value == k.headers[i].value
         IN  /\ \A j \in 1..Len(name) : Offset(k, i) + j \in (HeadLen(k) + 1)..TextLen(k)
             /\ \A j \in 1..Len(value) :
                  Offset(k, i) + Len(name) + j \in (HeadLen(k) + 1)..TextLen(k)
<1> DEFINE name == k.headers[i].name
           value == k.headers[i].value
           off == Offset(k, i)
           h == HeadLen(k)
           t == TextLen(k)
<1>1. /\ off \in Nat /\ h <= off /\ off + Len(name) + Len(value) <= t
  BY OffsetFacts
<1>2. Len(name) \in Nat /\ Len(value) \in Nat
  BY LineFacts
<1>3. h \in Nat /\ t \in Nat
  BY PlacesFacts
<1> DEFINE ln == Len(name)
           lv == Len(value)
<1>4. /\ off \in Nat /\ h <= off /\ off + ln + lv <= t
      /\ ln \in Nat /\ lv \in Nat /\ h \in Nat /\ t \in Nat
  BY <1>1, <1>2, <1>3
<1> HIDE DEF off, h, t, ln, lv
<1>5. \A j \in 1..ln : off + j \in (h + 1)..t
  BY <1>4
<1>6. \A j \in 1..lv : off + ln + j \in (h + 1)..t
  BY <1>4
<1> QED
  BY <1>5, <1>6 DEF off, h, t, ln, lv

\* Changes to the path, the query string and what comes behind the text.
LEMMA SpellsOn ==
  ASSUME NEW k \in Requests, NEW x, NEW y,
         \A j \in (HeadLen(k) + 1)..TextLen(k) : y[j] = x[j],
         NEW i \in 1..Len(k.headers), Spells(x, k, i)
  PROVE  Spells(y, k, i)
BY HeaderPlaces DEF Spells

LEMMA SpellsWire ==
  ASSUME NEW k \in Requests, NEW i \in 1..Len(k.headers)
  PROVE  Spells(WireText(k), k, i)
BY OffsetFacts DEF Spells

\* Changes to the path, the query string and what comes behind the entries.
LEMMA ContentsKept ==
  ASSUME NEW k \in Requests, NEW b, NEW x, NEW y, Contents(x, b, k),
         \A j \in 1..End(k) : j <= Len(k.method) \/ HeadLen(k) < j => y[j] = x[j]
  PROVE  Contents(y, b, k)
<1>1. /\ Len(k.method) \in Nat /\ HeadLen(k) = Len(k.method) + Len(Target(k))
      /\ Len(Target(k)) \in Nat
  BY TargetSequence DEF HeadLen
<1>2. /\ EntriesAt(k) \in Nat /\ TextLen(k) <= EntriesAt(k) /\ End(k) \in Nat
      /\ TextLen(k) \in Nat /\ HeadLen(k) \in Nat /\ HeadLen(k) <= TextLen(k)
      /\ EntriesAt(k) <= End(k)
      /\ \A i \in 1..Len(k.headers) : EntryAt(k, i) \in (EntriesAt(k) + 1)..End(k)
  BY PlacesFacts
<1>3. ASSUME NEW j \in 1..Len(k.method) PROVE y[j] = k.method[j]
  <2>1. j \in 1..End(k) /\ j <= Len(k.method)
    BY <1>1, <1>2
  <2> QED
    BY <2>1 DEF Contents
<1>4. ASSUME NEW i \in 1..Len(k.headers) PROVE Spells(y, k, i)
  <2>1. \A j \in (HeadLen(k) + 1)..TextLen(k) : j \in 1..End(k) /\ HeadLen(k) < j
    BY <1>2
  <2>2. Spells(x, k, i)
    BY DEF Contents
  <2> QED
    BY <2>1, <2>2, SpellsOn
<1>5. ASSUME NEW i \in 1..Len(k.headers) PROVE y[EntryAt(k, i)] = Entry(k, i, b)
  <2>1. EntryAt(k, i) \in 1..End(k) /\ HeadLen(k) < EntryAt(k, i)
    BY <1>2
  <2> QED
    BY <2>1 DEF Contents
<1> QED
  BY <1>3, <1>4, <1>5 DEF Contents

LEMMA EntriesRead ==
  ASSUME NEW k \in Requests, NEW m, NEW a, NEW b, Contents(m[b], a, k)
  PROVE  StructsAt(m, At(b, EntriesAt(k)), Len(k.headers)) = Entries(k, a)
<1>1. \A i \in 1..Len(k.headers) :
        m[b][EntriesAt(k) + StructLen * (i - 1) + 1] = Entry(k, i, a)
  BY DEF Contents, EntryAt
<1> QED
  BY <1>1 DEF StructsAt, At, Entries

\* A request r whose pointers are those of k's head in block b.
Points(r, k, b) ==
  /\ r.method = At(b, 0) /\ r.method_len = Len(k.method)
  /\ r.path = At(b, Len(k.method)) /\ r.path_len \in Nat /\ r.qs_len \in Nat
  /\ r.path_len + r.qs_len <= Len(Target(k))
  /\ r.num_headers = Len(k.headers) /\ r.minor_version = k.minor_version

LEMMA TextMeasured ==
  ASSUME NEW m, NEW r, NEW k \in Requests, NEW b, Points(r, k, b),
         StructsAt(m, r.headers, r.num_headers) = Entries(k, b)
  PROVE  /\ HeadersLen(m, r) \in Nat
         /\ Len(k.headers) # 0 => HeadersLen(m, r) = TextLen(k)
         /\ Len(k.headers) = 0 => HeadersLen(m, r) = Len(k.method) + r.path_len + r.qs_len
         /\ Len(k.method) <= HeadersLen(m, r) /\ HeadersLen(m, r) <= TextLen(k)
<1> DEFINE n == Len(k.headers)
<1>1. /\ n \in Nat /\ r.num_headers = n /\ Len(k.method) \in Nat /\ Len(Target(k)) \in Nat
      /\ r.method.off = 0 /\ r.path.off = Len(k.method)
      /\ r.path_len \in Nat /\ r.qs_len \in Nat /\ r.path_len + r.qs_len <= Len(Target(k))
  BY TargetSequence DEF Points, At
<1>2. /\ TextLen(k) \in Nat /\ HeadLen(k) \in Nat /\ HeadLen(k) <= TextLen(k)
      /\ HeadLen(k) = Len(k.method) + Len(Target(k))
      /\ (n = 0 => TextLen(k) = HeadLen(k))
  BY WireTextFacts DEF HeadLen
<1>3. CASE n # 0
  <2> DEFINE last == Entry(k, n, b)
  <2>1. n \in 1..n /\ n > 0
    BY <1>1, <1>3
  <2>2. Entries(k, b)[n] = last
    BY <2>1, EntriesFacts
  <2>3. HeadersLen(m, r) = last.value.off + last.value_len - r.method.off
    BY <1>1, <2>1, <2>2 DEF HeadersLen
  <2>4. /\ last.value.off = Offset(k, n) + Len(k.headers[n].name)
        /\ last.value_len = Len(k.headers[n].value)
    BY DEF Entry, At
  <2>5. /\ Offset(k, n) \in Nat /\ Len(k.headers[n].name) \in Nat /\ Len(k.headers[n].value) \in Nat
        /\ Offset(k, n) + Len(k.headers[n].name) + Len(k.headers[n].value) = TextLen(k)
    BY <2>1, OffsetFacts, LineFacts
  <2> HIDE DEF last, n
  <2>6. HeadersLen(m, r) = TextLen(k)
    BY <1>1, <1>2, <2>3, <2>4, <2>5
  <2> QED
    BY <1>1, <1>2, <1>3, <2>6 DEF n
<1>4. CASE n = 0
  <2>1. HeadersLen(m, r) = r.path.off + r.path_len + r.qs_len - r.method.off
    BY <1>1, <1>4 DEF HeadersLen
  <2> QED
    BY <1>1, <1>2, <1>4, <2>1
<1> QED
  BY <1>3, <1>4

Placed(r) ==
  LET k == r.spec
  IN  /\ k \in Requests /\ r.buffer \in Blocks \ {Wire}
      /\ Points(r, k, r.buffer) /\ r.headers = At(r.buffer, EntriesAt(k))
      /\ r.buffer_len \in Nat /\ End(k) <= r.buffer_len

\* The head of request r is in its buffer in memory m.
Holds(m, r) ==
  /\ Placed(r) /\ Len(m[r.buffer]) = r.buffer_len
  /\ Contents(m[r.buffer], r.buffer, r.spec)

LEMMA RawHeaders ==
  ASSUME NEW m, IsMemory(m), NEW k \in Requests,
         m[Wire] = WireText(k) \o Structs(WireHeaders(k))
  PROVE  /\ StructsAt(m, At(Wire, TextLen(k)), Len(k.headers)) = Entries(k, Wire)
         /\ Cells(m, At(Wire, 0), TextLen(k)) = WireText(k)
<1> DEFINE t == WireText(k)
           e == WireHeaders(k)
           s == Structs(e)
           n == Len(k.headers)
<1>1. IsSequence(t) /\ TextLen(k) = Len(t) /\ Len(t) \in Nat
  BY WireTextFacts DEF TextLen
<1>2. IsSequence(e) /\ Len(e) = n /\ n \in Nat
  BY WireHeadersFacts, TargetSequence
<1> HIDE DEF t, e
<1>3. /\ IsSequence(s) /\ Len(s) = StructLen * n
      /\ \A j \in 1..n : s[StructLen * (j - 1) + 1] = e[j]
  BY <1>2, StructsFacts
<1> HIDE DEF s
<1>4. /\ IsSequence(t \o s) /\ Len(t \o s) = Len(t) + Len(s)
      /\ \A i \in 1..Len(t) : (t \o s)[i] = t[i]
      /\ \A i \in 1..Len(s) : (t \o s)[Len(t) + i] = s[i]
  <2>1. IsSequence(t) /\ IsSequence(s)
    BY <1>1, <1>3
  <2> QED
    BY <2>1, Joined
<1>5. m[Wire] = t \o s
  BY DEF t, s, e
<1> HIDE DEF n
<1>6. ASSUME NEW i \in 1..n
      PROVE  m[Wire][Len(t) + StructLen * (i - 1) + 1] = e[i]
  <2>1. i - 1 \in Nat /\ i - 1 < n
    BY <1>2
  <2>2. /\ StructLen * (i - 1) \in Nat /\ StructLen * (i - 1) + StructLen <= StructLen * n
        /\ StructLen * n \in Nat
    BY <1>2, <2>1, Times
  <2>3. /\ StructLen * (i - 1) + 1 \in 1..Len(s)
        /\ Len(t) + StructLen * (i - 1) + 1 = Len(t) + (StructLen * (i - 1) + 1)
    BY <1>1, <1>3, <2>2, StructPositive
  <2> QED
    BY <1>3, <1>4, <1>5, <2>3
<1>7. StructsAt(m, At(Wire, TextLen(k)), n) = e
  <2>1. StructsAt(m, At(Wire, TextLen(k)), n) = [i \in 1..n |-> e[i]]
    BY <1>1, <1>6 DEF StructsAt, At
  <2> QED
    BY <1>2, <2>1, SequenceFacts
<1>8. Cells(m, At(Wire, 0), Len(t)) = t
  <2>1. Wire \in Blocks
    BY DEF Blocks
  <2>2. 0 + Len(t) <= Len(m[Wire]) /\ \A j \in 1..Len(t) : m[Wire][0 + j] = t[j]
    <3>1. Len(s) \in Nat
      BY <1>3, SequenceFacts
    <3> QED
      BY <1>1, <1>4, <1>5, <3>1
  <2> QED
    BY <1>1, <2>1, <2>2, CellsAre, SMTT(30)
<1> QED
  BY <1>1, <1>7, <1>8, WireEntries DEF t, e, n

\* The memory with the entries of k's head written into block b.
WithEntries(m, k, b) == Put(m, At(b, EntriesAt(k)), Structs(Entries(k, b)))

LEMMA EntriesWritten ==
  ASSUME NEW m, IsMemory(m), NEW k \in Requests, NEW b \in Blocks, End(k) <= Len(m[b])
  PROVE  LET w == WithEntries(m, k, b)
         IN  /\ IsMemory(w) /\ Len(w[b]) = Len(m[b])
             /\ \A j \in 1..Len(m[b]) : j <= EntriesAt(k) \/ End(k) < j => w[b][j] = m[b][j]
             /\ \A i \in 1..Len(k.headers) : w[b][EntryAt(k, i)] = Entry(k, i, b)
             /\ \A d \in Blocks \ {b} : w[d] = m[d]
<1> DEFINE e == Entries(k, b)
           s == Structs(e)
           at == EntriesAt(k)
           n == Len(k.headers)
           w == WithEntries(m, k, b)
<1>1. IsSequence(e) /\ Len(e) = n /\ \A i \in 1..n : e[i] = Entry(k, i, b)
  BY EntriesFacts
<1>2. /\ at \in Nat /\ End(k) = at + StructLen * n /\ StructLen * n \in Nat /\ n \in Nat
      /\ \A i \in 1..n : EntryAt(k, i) = at + StructLen * (i - 1) + 1
      /\ \A i \in 1..n : EntryAt(k, i) \in (at + 1)..End(k)
  BY PlacesFacts DEF End, EntryAt
<1> HIDE DEF e
<1>3. /\ IsSequence(s) /\ Len(s) = StructLen * n
      /\ \A j \in 1..n : s[StructLen * (j - 1) + 1] = e[j]
  BY <1>1, StructsFacts
<1>4. w = Put(m, At(b, at), s)
  BY DEF WithEntries, e
<1> HIDE DEF s, at, w, n
<1>5. /\ IsMemory(w) /\ Len(w[b]) = Len(m[b])
      /\ \A i \in 1..Len(m[b]) : i <= at \/ at + Len(s) < i => w[b][i] = m[b][i]
      /\ \A j \in 1..Len(s) : at + j <= Len(m[b]) => w[b][at + j] = s[j]
      /\ \A d \in Blocks \ {b} : w[d] = m[d]
  <2>1. Wrote(w, m, b, at, s)
    BY <1>2, <1>3, <1>4, PutFacts
  <2> QED
    BY <2>1 DEF Wrote
<1>6. ASSUME NEW i \in 1..n PROVE w[b][EntryAt(k, i)] = Entry(k, i, b)
  <2>1. i - 1 \in Nat /\ i - 1 < n
    BY <1>2
  <2>2. StructLen * (i - 1) \in Nat /\ StructLen * (i - 1) + StructLen <= StructLen * n
    BY <1>2, <2>1, Times
  <2> DEFINE o == StructLen * (i - 1)
             l == StructLen * n
  <2>3. /\ o + 1 \in 1..Len(s) /\ EntryAt(k, i) = at + (o + 1) /\ at + (o + 1) <= Len(m[b])
    <3>1. IsSequence(m[b])
      BY DEF IsMemory
    <3>2. Len(m[b]) \in Nat
      BY <3>1, SequenceFacts
    <3>3. /\ at \in Nat /\ End(k) = at + l /\ EntryAt(k, i) = at + o + 1 /\ l \in Nat
          /\ Len(s) = l /\ o \in Nat /\ o + StructLen <= l /\ End(k) <= Len(m[b])
      BY <1>2, <1>3, <2>2
    <3> HIDE DEF o, l
    <3> QED
      BY <3>2, <3>3, StructPositive
  <2> QED
    BY <1>1, <1>3, <1>5, <2>3
<1> QED
  BY <1>2, <1>3, <1>5, <1>6 DEF w, at, n

LEMMA RawFields ==
  ASSUME NEW c, NEW k
  PROVE  LET r == FromRaw(c, k)
         IN  /\ r.method = At(Wire, 0) /\ r.method_len = Len(k.method)
             /\ r.path = At(Wire, Len(k.method)) /\ r.path_len = Len(Target(k)) /\ r.qs_len = 0
             /\ r.minor_version = k.minor_version
             /\ r.headers = At(Wire, Len(WireText(k))) /\ r.num_headers = Len(k.headers)
             /\ r.buffer = c /\ r.buffer_len = InlineLen
             /\ r.spec = k /\ r.response = None
<1> DEFINE n == Request_new(c)
<1>1. /\ IsRequest(n)
      /\ n.qs_len = 0 /\ n.buffer = c /\ n.buffer_len = InlineLen /\ n.response = None
  BY NewBuffer DEF Request_new
<1> HIDE DEF n
<1> QED
  BY <1>1 DEF FromRaw, n, IsRequest, Fields

\* The block and the length of the buffer, and where its head is.
LEMMA CopiedFields ==
  ASSUME NEW m, NEW r, IsRequest(r), NEW b
  PROVE  LET q == CopyHeaders(m, r, b).r
         IN  /\ q.buffer = b /\ q.buffer_len = GrownLen(r, HeadersNeed(m, r))
             /\ q.method = At(b, 0) /\ q.path = Moved(r.path, r.method, At(b, 0))
             /\ q.headers = At(b, Round(HeadersLen(m, r)))
             /\ q.method_len = r.method_len /\ q.path_len = r.path_len /\ q.qs_len = r.qs_len
             /\ q.minor_version = r.minor_version /\ q.num_headers = r.num_headers
             /\ q.spec = r.spec /\ q.response = r.response
BY DEF CopyHeaders, IsRequest, Fields

LEMMA HeadCopied ==
  ASSUME NEW m, IsMemory(m), NEW k \in Requests, NEW c \in Conns, NEW b \in Blocks \ {Wire},
         m[Wire] = WireText(k) \o Structs(WireHeaders(k)), Len(m[c]) = InlineLen,
         Fits(FromRaw(c, k), HeadersNeed(m, FromRaw(c, k))) => b = c
  PROVE  LET copied == CopyHeaders(m, FromRaw(c, k), b)
         IN  /\ IsMemory(copied.m) /\ Holds(copied.m, copied.r)
             /\ copied.r.spec = k /\ copied.r.response = None
             /\ \A d \in Blocks \ {b, c} : copied.m[d] = m[d]
             /\ \A j \in 1..TextLen(k) : copied.m[b][j] = WireText(k)[j]
<1> DEFINE r == FromRaw(c, k)
           copied == CopyHeaders(m, r, b)
           need == HeadersNeed(m, r)
           g == Grown(m, r, need, b)
           t == WireText(k)
           p == Put(g, At(b, 0), t)
           w == WithEntries(p, k, b)
           n == Len(k.headers)
<1>1. /\ IsRequest(r)
      /\ r.method = At(Wire, 0) /\ r.method_len = Len(k.method)
      /\ r.path = At(Wire, Len(k.method)) /\ r.path_len = Len(Target(k)) /\ r.qs_len = 0
      /\ r.minor_version = k.minor_version
      /\ r.headers = At(Wire, TextLen(k)) /\ r.num_headers = n
      /\ r.buffer = c /\ r.buffer_len = InlineLen
      /\ r.spec = k /\ r.response = None
  BY RawBuffer, RawFields DEF TextLen
<1> HIDE DEF r
<1>2. Len(k.method) \in Nat /\ Len(Target(k)) \in Nat /\ n \in Nat
  BY TargetSequence
<1>3. Points(r, k, Wire)
  BY <1>1, <1>2 DEF Points
<1>4. /\ StructsAt(m, r.headers, r.num_headers) = Entries(k, Wire)
      /\ Cells(m, r.method, TextLen(k)) = t
  BY <1>1, RawHeaders
<1>5. HeadersLen(m, r) = TextLen(k)
  <2>1. Len(k.headers) = 0 => TextLen(k) = Len(k.method) + Len(Target(k))
    BY WireTextFacts DEF HeadLen
  <2>2. /\ Len(k.headers) # 0 => HeadersLen(m, r) = TextLen(k)
        /\ Len(k.headers) = 0 => HeadersLen(m, r) = Len(k.method) + r.path_len + r.qs_len
    BY <1>3, <1>4, TextMeasured
  <2> QED
    BY <1>1, <1>2, <2>1, <2>2
<1>6. need.off = 0 /\ need.len = End(k)
  BY <1>1, <1>5 DEF HeadersNeed, HeaderEntriesLen, End, EntriesAt
<1>7. /\ EntriesAt(k) \in Nat /\ TextLen(k) <= EntriesAt(k) /\ TextLen(k) \in Nat
      /\ HeadLen(k) \in Nat /\ HeadLen(k) <= TextLen(k)
      /\ End(k) \in Nat /\ EntriesAt(k) <= End(k)
  BY PlacesFacts
<1>8. copied.m = w
  <2>1. copied.m = Put(Put(g, At(b, 0), Cells(m, r.method, HeadersLen(m, r))),
                       At(b, Round(HeadersLen(m, r))),
                       Structs(MovedHeaders(StructsAt(m, r.headers, r.num_headers),
                                            r.method, At(b, 0))))
    BY DEF CopyHeaders
  <2>2. MovedHeaders(StructsAt(m, r.headers, r.num_headers), r.method, At(b, 0)) = Entries(k, b)
    BY <1>1, <1>4, EntriesMoved
  <2> QED
    BY <1>4, <1>5, <2>1, <2>2 DEF WithEntries, EntriesAt
<1> HIDE DEF need
<1>9. /\ IsMemory(g) /\ Len(g[b]) = GrownLen(r, need) /\ End(k) <= Len(g[b])
      /\ \A d \in Blocks \ {b, c} : g[d] = m[d]
  <2>1. c \in Blocks /\ InlineLen \in Nat
    BY RequestAssumption DEF Blocks, Objects
  <2>2. /\ r.buffer \in Blocks /\ Len(m[r.buffer]) = r.buffer_len /\ r.buffer_len \in Nat
        /\ need.off \in Nat /\ need.len \in Nat /\ need.off <= r.buffer_len
        /\ (Fits(r, need) => b = r.buffer)
    BY <1>1, <1>6, <1>7, <2>1 DEF r, need
  <2>3. /\ IsMemory(g) /\ Len(g[b]) = GrownLen(r, need)
        /\ need.off + need.len <= Len(g[b])
        /\ \A d \in Blocks \ {b, r.buffer} : g[d] = m[d]
    BY <2>2, GrownFacts
  <2> QED
    BY <1>1, <1>6, <1>7, <2>3
<1> HIDE DEF g
<1>10. IsSequence(t) /\ Len(t) = TextLen(k)
  BY WireTextFacts DEF TextLen
<1> HIDE DEF t
<1>11. /\ IsMemory(p) /\ Len(p[b]) = Len(g[b])
       /\ \A j \in 1..Len(t) : p[b][j] = t[j]
       /\ \A d \in Blocks \ {b} : p[d] = g[d]
  <2>1. 0 \in Nat
    OBVIOUS
  <2>2. /\ IsMemory(p) /\ Len(p[b]) = Len(g[b])
        /\ \A j \in 1..Len(t) : 0 + j <= Len(g[b]) => p[b][0 + j] = t[j]
        /\ \A d \in Blocks \ {b} : p[d] = g[d]
    <3>1. Wrote(p, g, b, 0, t)
      BY <1>9, <1>10, <2>1, PutFacts DEF p
    <3> HIDE DEF p
    <3> QED
      BY <3>1 DEF Wrote
  <2>3. Len(g[b]) \in Nat
    BY <1>9, SequenceFacts DEF IsMemory
  <2>4. \A j \in 1..Len(t) : 0 + j = j /\ j <= Len(g[b])
    BY <1>7, <1>9, <1>10, <2>3
  <2> QED
    BY <2>2, <2>4
<1> HIDE DEF p
<1>12. /\ IsMemory(w) /\ Len(w[b]) = Len(p[b])
       /\ \A j \in 1..Len(p[b]) : j <= EntriesAt(k) \/ End(k) < j => w[b][j] = p[b][j]
       /\ \A i \in 1..n : w[b][EntryAt(k, i)] = Entry(k, i, b)
       /\ \A d \in Blocks \ {b} : w[d] = p[d]
  BY <1>9, <1>11, EntriesWritten
<1> HIDE DEF w
<1>13. \A j \in 1..TextLen(k) : w[b][j] = t[j]
  <2> TAKE j \in 1..TextLen(k)
  <2>1. j \in 1..Len(p[b]) /\ j <= EntriesAt(k) /\ j \in 1..Len(t)
    <3>1. Len(p[b]) \in Nat
      BY <1>11, SequenceFacts DEF IsMemory
    <3> QED
      BY <1>7, <1>9, <1>10, <1>11, <3>1
  <2> QED
    BY <1>11, <1>12, <2>1
<1>14. Contents(w[b], b, k)
  <2>1. \A j \in 1..Len(k.method) : t[j] = k.method[j] /\ j \in 1..TextLen(k)
    <3>1. Len(k.method) <= TextLen(k)
      BY <1>2, <1>7 DEF HeadLen
    <3> QED
      BY <1>2, <1>7, <3>1, WireTextFacts DEF t
  <2>2. \A i \in 1..Len(k.headers) : Spells(w[b], k, i)
    <3> DEFINE x == WireText(k)
               y == w[b]
    <3>1. \A j \in (HeadLen(k) + 1)..TextLen(k) : y[j] = x[j]
      BY <1>7, <1>13 DEF t
    <3>2. \A i \in 1..Len(k.headers) : Spells(x, k, i)
      BY SpellsWire
    <3> HIDE DEF x, y
    <3>3. \A i \in 1..Len(k.headers) : Spells(y, k, i)
      BY <3>1, <3>2, SpellsOn
    <3> QED
      BY <3>3 DEF y
  <2> QED
    BY <1>12, <1>13, <2>1, <2>2 DEF Contents, n
<1> DEFINE q == copied.r
<1>15. /\ q.buffer = b /\ q.buffer_len = GrownLen(r, need)
       /\ q.method = At(b, 0) /\ q.path = Moved(r.path, r.method, At(b, 0))
       /\ q.headers = At(b, Round(HeadersLen(m, r)))
       /\ q.method_len = r.method_len /\ q.path_len = r.path_len /\ q.qs_len = r.qs_len
       /\ q.minor_version = r.minor_version /\ q.num_headers = r.num_headers
       /\ q.spec = r.spec /\ q.response = r.response
  BY <1>1, CopiedFields DEF need
<1> HIDE DEF q
<1>16. q.path = At(b, Len(k.method))
  <2>1. Moved(At(Wire, Len(k.method)), At(Wire, 0), At(b, 0)) = At(b, 0 + Len(k.method) - 0)
    BY DEF Moved, At
  <2>2. 0 + Len(k.method) - 0 = Len(k.method)
    BY <1>2
  <2> QED
    BY <1>1, <1>15, <2>1, <2>2
<1>17. Points(q, k, b)
  BY <1>1, <1>2, <1>15, <1>16 DEF Points
<1>18. q.buffer_len \in Nat /\ Len(w[b]) = q.buffer_len /\ End(k) <= q.buffer_len
  <2>1. Len(g[b]) \in Nat
    BY <1>9, SequenceFacts DEF IsMemory
  <2> QED
    BY <1>9, <1>11, <1>12, <1>15, <2>1
<1>19. Holds(w, q)
  BY <1>1, <1>5, <1>14, <1>15, <1>17, <1>18 DEF Holds, Placed, EntriesAt
<1>20. \A d \in Blocks \ {b, c} : w[d] = m[d]
  BY <1>9, <1>11, <1>12
<1> QED
  BY <1>1, <1>8, <1>12, <1>13, <1>15, <1>19, <1>20 DEF q, r, t

(***************************************************************************)
(* Decoding.                                                               *)
(***************************************************************************)
Prefixed(x, e) == [x EXCEPT !.decoded = <<e>> \o @]

\* What percent_decode makes of s from character i on, by what f says of later ones.
DecodeStep(f, i, s, stop) ==
  IF i > Len(s) THEN [decoded |-> <<>>, rest |-> <<>>]
  ELSE IF s[i] = stop THEN [decoded |-> <<>>, rest |-> SubSeq(s, i, Len(s))]
  ELSE IF /\ i + 2 <= Len(s) /\ s[i] = Percent
          /\ <<s[i + 1], s[i + 2]>> \in DOMAIN HexByte
  THEN Prefixed(f[i + 3], HexByte[<<s[i + 1], s[i + 2]>>]) ELSE Prefixed(f[i + 1], s[i])

\* f is that for the last k characters.
Decodes(f, k, s, stop) ==
  /\ f = [i \in 1..(Len(s) + 3) |-> f[i]]
  /\ \A i \in 1..(Len(s) + 3) : i + k > Len(s) => f[i] = DecodeStep(f, i, s, stop)

Decoder(s, stop) ==
  CHOOSE f : f = [i \in 1..(Len(s) + 3) |->
        IF i > Len(s) THEN [decoded |-> <<>>, rest |-> <<>>]
        ELSE IF s[i] = stop THEN [decoded |-> <<>>, rest |-> SubSeq(s, i, Len(s))]
        ELSE IF /\ i + 2 <= Len(s) /\ s[i] = Percent
                /\ <<s[i + 1], s[i + 2]>> \in DOMAIN HexByte
        THEN [f[i + 3] EXCEPT !.decoded = <<HexByte[<<s[i + 1], s[i + 2]>>]>> \o @]
        ELSE [f[i + 1] EXCEPT !.decoded = <<s[i]>> \o @]]

LEMMA DecodeStepLocal ==
  ASSUME NEW s, NEW stop, NEW i, NEW f, NEW g,
         f[i + 1] = g[i + 1], f[i + 3] = g[i + 3]
  PROVE  DecodeStep(f, i, s, stop) = DecodeStep(g, i, s, stop)
BY DEF DecodeStep

LEMMA DecodesExists ==
  ASSUME NEW s, Len(s) \in Nat, NEW stop, NEW k \in Nat
  PROVE  \E f : Decodes(f, k, s, stop)
<1> DEFINE n == Len(s)
           S == {j \in Nat : \E f : Decodes(f, j, s, stop)}
<1>1. 0 \in S
  <2> DEFINE f == [i \in 1..(n + 3) |-> [decoded |-> <<>>, rest |-> <<>>]]
  <2>1. \A i \in 1..(n + 3) : i + 0 > n => f[i] = DecodeStep(f, i, s, stop)
    BY DEF DecodeStep
  <2>2. f = [i \in 1..(n + 3) |-> f[i]]
    OBVIOUS
  <2> HIDE DEF f
  <2>3. Decodes(f, 0, s, stop)
    BY <2>1, <2>2 DEF Decodes
  <2> QED
    BY <2>3
<1>2. ASSUME NEW j \in S PROVE j + 1 \in S
  <2>1. j \in Nat
    OBVIOUS
  <2>2. PICK f : Decodes(f, j, s, stop)
    OBVIOUS
  <2> DEFINE l == n - j
             v == DecodeStep(f, l, s, stop)
             g == [i \in 1..(n + 3) |-> IF i = l THEN v ELSE f[i]]
  <2>3. g = [i \in 1..(n + 3) |-> g[i]]
    OBVIOUS
  <2>4. /\ \A i \in 1..(n + 3) : i # l => g[i] = f[i]
        /\ l \in 1..(n + 3) => g[l] = v
    <3> HIDE DEF v, l
    <3> QED
      OBVIOUS
  <2> HIDE DEF v, g
  <2>5. ASSUME NEW i \in 1..(n + 3), i + (j + 1) > n
        PROVE  g[i] = DecodeStep(g, i, s, stop)
    <3>1. CASE i > n
      <4>1. i # l /\ i + j > n
        BY <2>1, <3>1
      <4>2. f[i] = DecodeStep(f, i, s, stop)
        BY <2>2, <4>1 DEF Decodes
      <4>3. DecodeStep(f, i, s, stop) = DecodeStep(g, i, s, stop)
        BY <3>1 DEF DecodeStep
      <4> QED
        BY <2>4, <4>1, <4>2, <4>3
    <3>2. CASE i <= n
      <4>1. /\ i + 1 \in 1..(n + 3) /\ i + 3 \in 1..(n + 3)
            /\ i + 1 # l /\ i + 3 # l
        BY <2>1, <2>5, <3>2
      <4>2. g[i + 1] = f[i + 1] /\ g[i + 3] = f[i + 3]
        BY <2>4, <4>1
      <4>3. DecodeStep(g, i, s, stop) = DecodeStep(f, i, s, stop)
        BY <4>2, DecodeStepLocal
      <4>4. CASE i = l
        BY <2>4, <4>3, <4>4 DEF v
      <4>5. CASE i # l
        <5>1. i + j > n
          BY <2>1, <2>5, <4>5
        <5> QED
          BY <2>2, <2>4, <4>3, <4>5, <5>1 DEF Decodes
      <4> QED
        BY <4>4, <4>5
    <3> QED
      BY <3>1, <3>2
  <2>6. Decodes(g, j + 1, s, stop)
    BY <2>3, <2>5 DEF Decodes
  <2> QED
    BY <2>1, <2>6
<1>3. S = Nat
  <2>1. S \in SUBSET Nat
    OBVIOUS
  <2> HIDE DEF S
  <2> QED
    BY <1>1, <1>2, <2>1, Induct
<1> QED
  BY <1>3

LEMMA DecoderDecodes ==
  ASSUME NEW s, Len(s) \in Nat, NEW stop
  PROVE  /\ percent_decode(s, stop) = Decoder(s, stop)[1]
         /\ \A i \in 1..(Len(s) + 3) :
              Decoder(s, stop)[i] = DecodeStep(Decoder(s, stop), i, s, stop)
<1>1. PICK f : Decodes(f, Len(s), s, stop)
  BY DecodesExists
<1>2. f = [i \in 1..(Len(s) + 3) |-> DecodeStep(f, i, s, stop)]
  <2>1. \A i \in 1..(Len(s) + 3) : f[i] = DecodeStep(f, i, s, stop)
    BY <1>1 DEF Decodes
  <2> QED
    BY <1>1, <2>1 DEF Decodes
<1>3. Decoder(s, stop) = [i \in 1..(Len(s) + 3) |-> DecodeStep(Decoder(s, stop), i, s, stop)]
  BY <1>2 DEF Decoder, DecodeStep, Prefixed
<1>4. percent_decode(s, stop) = Decoder(s, stop)[1]
  BY DEF percent_decode, Decoder
<1> DEFINE d == Decoder(s, stop)
<1> HIDE DEF d
<1>5. d = [i \in 1..(Len(s) + 3) |-> DecodeStep(d, i, s, stop)]
  BY <1>3 DEF d
<1>6. \A i \in 1..(Len(s) + 3) : d[i] = DecodeStep(d, i, s, stop)
  BY <1>5
<1> QED
  BY <1>4, <1>6 DEF d

\* A result of decoding that is no longer than n characters.
Within(x, n) ==
  /\ x = [decoded |-> x.decoded, rest |-> x.rest]
  /\ IsSequence(x.decoded) /\ IsSequence(x.rest)
  /\ Len(x.decoded) \in Nat /\ Len(x.rest) \in Nat
  /\ Len(x.decoded) + Len(x.rest) <= n

LEMMA WithinMore ==
  ASSUME NEW n \in Nat, NEW m \in Nat, n < m, NEW x, Within(x, n), NEW e
  PROVE  Within(Prefixed(x, e), m)
<1> DEFINE d == x.decoded
           r == x.rest
           one == <<e>>
<1>1. one \in Seq({e}) /\ Len(one) = 1
  OBVIOUS
<1>2. IsSequence(one)
  BY <1>1, SequenceOf
<1>3. x = [decoded |-> d, rest |-> r]
  BY DEF Within
<1>4. IsSequence(d) /\ IsSequence(r) /\ Len(d) \in Nat /\ Len(r) \in Nat /\ Len(d) + Len(r) <= n
  BY DEF Within
<1> HIDE DEF d, r, one
<1>5. IsSequence(one \o d) /\ Len(one \o d) = 1 + Len(d)
  <2>1. IsSequence(one) /\ IsSequence(d)
    BY <1>2, <1>4
  <2>2. IsSequence(one \o d) /\ Len(one \o d) = Len(one) + Len(d)
    BY <2>1, Joined
  <2> QED
    BY <1>1, <2>2
<1> DEFINE y == Prefixed(x, e)
           c == one \o d
<1>6. y = [decoded |-> c, rest |-> r]
  <2>1. y = [x EXCEPT !.decoded = c]
    BY DEF Prefixed, one, d
  <2> HIDE DEF c, y
  <2> QED
    BY <1>3, <2>1
<1> HIDE DEF y
<1>7. y.decoded = one \o d /\ y.rest = r
  BY <1>6
<1>8. Within(y, m)
  BY <1>4, <1>5, <1>6, <1>7 DEF Within
<1> QED
  BY <1>8 DEF y

LEMMA DecodedWithin ==
  ASSUME NEW s, IsSequence(s), NEW stop
  PROVE  Within(percent_decode(s, stop), Len(s))
<1> DEFINE n == Len(s)
           f == Decoder(s, stop)
           Left(i) == IF i > n THEN 0 ELSE n + 1 - i
           S == {j \in Nat : \A i \in 1..(n + 3) : i + j > n => Within(f[i], Left(i))}
<1>1. n \in Nat
  BY SequenceFacts
<1>2. percent_decode(s, stop) = f[1] /\ \A i \in 1..(n + 3) : f[i] = DecodeStep(f, i, s, stop)
  BY <1>1, DecoderDecodes
<1> HIDE DEF f
<1>3. \A i \in 1..(n + 3) : i > n => Within(f[i], Left(i))
  <2> TAKE i \in 1..(n + 3)
  <2> HAVE i > n
  <2>1. f[i] = [decoded |-> <<>>, rest |-> <<>>]
    BY <1>2 DEF DecodeStep
  <2> QED
    BY <1>1, <2>1, EmptyIsSequence DEF Within
<1>4. 0 \in S
  BY <1>1, <1>3
<1>5. ASSUME NEW j \in S PROVE j + 1 \in S
  <2>1. j \in Nat /\ \A i \in 1..(n + 3) : i + j > n => Within(f[i], Left(i))
    OBVIOUS
  <2> SUFFICES ASSUME NEW i \in 1..(n + 3), i + (j + 1) > n PROVE Within(f[i], Left(i))
    BY <2>1
  <2> HIDE DEF S
  <2>2. CASE i > n
    BY <1>3, <2>2
  <2>3. CASE i <= n
    <3>1. /\ i + 1 \in 1..(n + 3) /\ i + 3 \in 1..(n + 3) /\ i + 1 + j > n /\ i + 3 + j > n
          /\ Left(i) \in Nat /\ Left(i + 1) \in Nat /\ Left(i + 3) \in Nat
          /\ Left(i + 1) < Left(i) /\ Left(i + 3) < Left(i)
          /\ Left(i) = n - i + 1
      BY <1>1, <2>1, <2>3
    <3> HIDE DEF Left
    <3>2. Within(f[i + 1], Left(i + 1)) /\ Within(f[i + 3], Left(i + 3))
      BY <2>1, <3>1
    <3>3. f[i] = DecodeStep(f, i, s, stop)
      BY <1>2
    <3>4. CASE s[i] = stop
      <4> DEFINE t == SubSeq(s, i, n)
      <4>1. i - 1 \in Nat /\ Left(i) \in Nat /\ (i - 1) + Left(i) = n /\ (i - 1) + 1 = i
        BY <1>1, <3>1
      <4> DEFINE a == i - 1
                 c == Left(i)
      <4>2. a \in Nat /\ c \in Nat /\ a + c <= n
        BY <4>1, <1>1
      <4>3. t = SubSeq(s, a + 1, a + c)
        BY <4>1
      <4> HIDE DEF a, c, t, n
      <4>4. IsSequence(t) /\ Len(t) = c
        BY <4>2, <4>3, Cut DEF n
      <4>5. f[i] = [decoded |-> <<>>, rest |-> t]
        BY <3>3, <3>4, <2>3 DEF DecodeStep, t, n
      <4> QED
        BY <1>1, <4>2, <4>4, <4>5, EmptyIsSequence DEF Within, c
    <3>5. CASE s[i] # stop
      <4> DEFINE e1 == HexByte[<<s[i + 1], s[i + 2]>>]
                 e2 == s[i]
                 x == f[i + 3]
                 y == f[i + 1]
      <4>1. f[i] = Prefixed(x, e1) \/ f[i] = Prefixed(y, e2)
        <5>1. ~(i > Len(s))
          BY <1>1, <2>3
        <5> QED
          BY <3>3, <3>5, <5>1 DEF DecodeStep
      <4>2. /\ Within(x, Left(i + 3)) /\ Within(y, Left(i + 1))
            /\ Left(i) \in Nat /\ Left(i + 1) \in Nat /\ Left(i + 3) \in Nat
            /\ Left(i + 1) < Left(i) /\ Left(i + 3) < Left(i)
        BY <3>1, <3>2
      <4> HIDE DEF e1, e2, x, y
      <4>3. Within(Prefixed(x, e1), Left(i))
        BY <4>2, WithinMore
      <4>4. Within(Prefixed(y, e2), Left(i))
        BY <4>2, WithinMore
      <4> QED
        BY <4>1, <4>3, <4>4
    <3> QED
      BY <3>4, <3>5
  <2> QED
    BY <1>1, <2>2, <2>3
<1>6. S = Nat
  <2>1. S \in SUBSET Nat
    OBVIOUS
  <2> HIDE DEF S
  <2> QED
    BY <1>4, <1>5, <2>1, Induct
<1>7. Within(f[1], Left(1)) /\ Left(1) = n
  <2>1. n \in S
    <3> HIDE DEF S
    <3> QED
      BY <1>1, <1>6
  <2>2. 1 \in 1..(n + 3) /\ 1 + n > n /\ Left(1) = n
    BY <1>1
  <2>3. \A i \in 1..(n + 3) : i + n > n => Within(f[i], Left(i))
    BY <2>1
  <2> HIDE DEF S, Left
  <2> QED
    BY <2>2, <2>3
<1> QED
  BY <1>2, <1>7

\* Request q is r but for the lengths of path and query string, and what is read of it.
SameHead(q, r) ==
  /\ q.method = r.method /\ q.method_len = r.method_len /\ q.path = r.path
  /\ q.minor_version = r.minor_version /\ q.num_headers = r.num_headers
  /\ q.headers = r.headers /\ q.buffer = r.buffer /\ q.buffer_len = r.buffer_len
  /\ q.spec = r.spec

SameAnswer(q, r) == q.spec = r.spec /\ q.response = r.response /\ q.answer = r.answer

\* Memory w is m with the path and query string of request r written anew.
TargetWritten(w, m, r) ==
  /\ IsMemory(w) /\ Len(w[r.buffer]) = Len(m[r.buffer])
  /\ Contents(w[r.buffer], r.buffer, r.spec)
  /\ \A d \in Blocks \ {r.buffer} : w[d] = m[d]

LEMMA TargetPut ==
  ASSUME NEW m, IsMemory(m), NEW r, Holds(m, r), NEW off \in Nat, NEW cells, IsSequence(cells),
         Len(r.spec.method) <= off, off + Len(cells) <= HeadLen(r.spec)
  PROVE  TargetWritten(Put(m, At(r.buffer, off), cells), m, r)
<1> DEFINE k == r.spec
           b == r.buffer
           w == Put(m, At(b, off), cells)
<1>1. /\ k \in Requests /\ b \in Blocks /\ Len(m[b]) = r.buffer_len /\ r.buffer_len \in Nat
      /\ End(k) <= r.buffer_len /\ Contents(m[b], b, k)
  BY DEF Holds, Placed
<1> HIDE DEF b, k
<1>2. Wrote(w, m, b, off, cells)
  BY <1>1, PutFacts
<1>3. /\ End(k) \in Nat /\ HeadLen(k) \in Nat /\ Len(cells) \in Nat /\ Len(k.method) \in Nat
      /\ Len(k.method) <= off /\ off + Len(cells) <= HeadLen(k)
  BY <1>1, PlacesFacts, TargetSequence, SequenceFacts DEF k
<1> HIDE DEF w
<1>4. \A j \in 1..End(k) : j <= Len(k.method) \/ HeadLen(k) < j => w[b][j] = m[b][j]
  <2> TAKE j \in 1..End(k)
  <2> HAVE j <= Len(k.method) \/ HeadLen(k) < j
  <2>1. j \in 1..Len(m[b]) /\ (j <= off \/ off + Len(cells) < j)
    BY <1>1, <1>3
  <2> QED
    BY <1>2, <2>1 DEF Wrote
<1>5. Contents(w[b], b, k)
  <2> DEFINE x == m[b]
             y == w[b]
  <2>1. /\ Contents(x, b, k) /\ k \in Requests
        /\ \A j \in 1..End(k) : j <= Len(k.method) \/ HeadLen(k) < j => y[j] = x[j]
    BY <1>1, <1>4
  <2> HIDE DEF x, y
  <2>2. Contents(y, b, k)
    BY <2>1, ContentsKept
  <2> QED
    BY <2>2 DEF y
<1>6. TargetWritten(w, m, r)
  BY <1>2, <1>5 DEF TargetWritten, Wrote, b, k
<1> QED
  BY <1>6 DEF w, b

LEMMA HeldAgain ==
  ASSUME NEW m, NEW r, Holds(m, r), NEW w, TargetWritten(w, m, r), NEW q, SameHead(q, r),
         q.path_len \in Nat, q.qs_len \in Nat,
         q.path_len + q.qs_len <= r.path_len + r.qs_len
  PROVE  Holds(w, q)
<1>1. r.spec \in Requests /\ r.path_len \in Nat /\ r.qs_len \in Nat
  BY DEF Holds, Placed, Points
<1>2. Len(Target(r.spec)) \in Nat
  BY <1>1, TargetSequence
<1>3. r.path_len + r.qs_len <= Len(Target(r.spec))
  BY DEF Holds, Placed, Points
<1>4. q.path_len + q.qs_len <= Len(Target(r.spec))
  BY <1>1, <1>2, <1>3
<1>5. Points(q, r.spec, r.buffer)
  BY <1>4 DEF Holds, Placed, Points, SameHead
<1> QED
  BY <1>5 DEF Holds, Placed, SameHead, TargetWritten

\* What decoding does with the memory and the request.
Decoding(d, m, r) ==
  /\ IsMemory(d.m) /\ Holds(d.m, d.r) /\ IsRequest(d.r)
  /\ SameAnswer(d.r, r) /\ d.r.buffer = r.buffer
  /\ \A x \in Blocks \ {r.buffer} : d.m[x] = m[x]

LEMMA Untouched ==
  ASSUME NEW m, IsMemory(m), NEW r, IsRequest(r), Holds(m, r)
  PROVE  Decoding([r |-> r, m |-> m], m, r)
BY DEF Decoding, SameAnswer

LEMMA Rewritten ==
  ASSUME NEW m, IsMemory(m), NEW r, IsRequest(r), Holds(m, r), NEW q, IsRequest(q),
         SameHead(q, r), SameAnswer(q, r), q.path_len \in Nat, q.qs_len \in Nat,
         q.path_len + q.qs_len <= r.path_len + r.qs_len,
         NEW off \in Nat, Len(r.spec.method) <= off,
         NEW text, IsSequence(text), NEW room \in Nat, Len(text) <= room,
         off + room <= HeadLen(r.spec)
  PROVE  Decoding([r |-> q, m |-> Put(m, At(r.buffer, off), text \o Blank(room - Len(text)))],
                  m, r)
<1> DEFINE blank == Blank(room - Len(text))
           cells == text \o blank
           w == Put(m, At(r.buffer, off), cells)
<1>1. Len(text) \in Nat
  BY SequenceFacts
<1>2. IsSequence(blank) /\ Len(blank) = room - Len(text)
  <2> DEFINE n == room - Len(text)
  <2>1. n \in Nat
    BY <1>1
  <2> HIDE DEF n
  <2>2. blank = [i \in 1..n |-> blank[i]]
    BY DEF Blank, n
  <2> HIDE DEF blank
  <2>3. IsSequence(blank) /\ Len(blank) = n
    BY <2>1, <2>2, FunctionSequence
  <2> QED
    BY <2>3 DEF n
<1> HIDE DEF blank
<1>3. IsSequence(cells) /\ Len(cells) = Len(text) + Len(blank)
  <2>1. IsSequence(text) /\ IsSequence(blank)
    BY <1>2
  <2> QED
    BY <2>1, Joined
<1>4. Len(cells) = room
  BY <1>1, <1>2, <1>3
<1> HIDE DEF cells
<1>5. TargetWritten(w, m, r)
  BY <1>3, <1>4, TargetPut
<1> HIDE DEF w
<1>6. Holds(w, q)
  BY <1>5, HeldAgain
<1>7. Decoding([r |-> q, m |-> w], m, r)
  BY <1>5, <1>6 DEF Decoding, TargetWritten, SameHead
<1> QED
  BY <1>7 DEF w, cells, blank

LEMMA PathDecoded ==
  ASSUME NEW m, IsMemory(m), NEW r, IsRequest(r), Holds(m, r)
  PROVE  Decoding(DecodePath(m, r), m, r)
<1>1. CASE r.path_decoded
  <2>1. DecodePath(m, r) = [r |-> r, m |-> m]
    BY <1>1 DEF DecodePath
  <2> QED
    BY <2>1, Untouched
<1>2. CASE ~r.path_decoded
  <2> DEFINE s == Cells(m, r.path, r.path_len)
             d == percent_decode(s, Question)
             text == d.decoded \o d.rest
             q == [r EXCEPT !.path_decoded = TRUE, !.path_len = Len(d.decoded),
                            !.qs_len = Len(d.rest)]
             off == Len(r.spec.method)
             room == r.path_len
  <2>1. DecodePath(m, r) = [r |-> q, m |-> Put(m, r.path, text \o Blank(room - Len(text)))]
    BY <1>2 DEF DecodePath
  <2>2. /\ r.spec \in Requests /\ r.buffer \in Blocks /\ r.path = At(r.buffer, off)
        /\ room \in Nat /\ r.qs_len \in Nat /\ room + r.qs_len <= Len(Target(r.spec))
        /\ Len(m[r.buffer]) = r.buffer_len /\ End(r.spec) <= r.buffer_len /\ r.buffer_len \in Nat
    BY DEF Holds, Placed, Points
  <2>3. /\ off \in Nat /\ HeadLen(r.spec) = off + Len(Target(r.spec))
        /\ Len(Target(r.spec)) \in Nat /\ HeadLen(r.spec) <= End(r.spec)
        /\ HeadLen(r.spec) \in Nat /\ End(r.spec) \in Nat
    <3>1. off \in Nat /\ Len(Target(r.spec)) \in Nat
      BY <2>2, TargetSequence
    <3> HIDE DEF off
    <3>2. /\ HeadLen(r.spec) \in Nat /\ TextLen(r.spec) \in Nat /\ EntriesAt(r.spec) \in Nat
          /\ End(r.spec) \in Nat /\ HeadLen(r.spec) <= TextLen(r.spec)
          /\ TextLen(r.spec) <= EntriesAt(r.spec) /\ EntriesAt(r.spec) <= End(r.spec)
      BY <2>2, PlacesFacts
    <3>3. HeadLen(r.spec) <= End(r.spec)
      BY <3>2
    <3> QED
      BY <3>1, <3>2, <3>3 DEF HeadLen, off
  <2> HIDE DEF off
  <2>4. off + room <= HeadLen(r.spec) /\ off + room <= Len(m[r.buffer])
    BY <2>2, <2>3
  <2>5. IsSequence(s) /\ Len(s) = room
    <3>1. IsSequence(Cells(m, At(r.buffer, off), room)) /\ Len(Cells(m, At(r.buffer, off), room)) = room
      BY <2>2, <2>3, <2>4, CellsFacts
    <3> QED
      BY <2>2, <3>1
  <2> HIDE DEF s
  <2>6. Within(d, room)
    <3>1. Within(d, Len(s))
      BY <2>5, DecodedWithin
    <3> QED
      BY <2>5, <3>1
  <2> HIDE DEF d
  <2> DEFINE x == d.decoded
             y == d.rest
  <2>7. /\ IsSequence(x) /\ IsSequence(y)
        /\ Len(x) \in Nat /\ Len(y) \in Nat /\ Len(x) + Len(y) <= room
    BY <2>6 DEF Within
  <2>8. /\ IsRequest(q) /\ SameHead(q, r) /\ SameAnswer(q, r)
        /\ q.path_len = Len(x) /\ q.qs_len = Len(y)
    BY DEF IsRequest, Fields, SameHead, SameAnswer
  <2>9. text = x \o y
    OBVIOUS
  <2> HIDE DEF q, text, x, y
  <2>10. IsSequence(text) /\ Len(text) = Len(x) + Len(y)
    <3>1. IsSequence(x) /\ IsSequence(y)
      BY <2>7
    <3> QED
      BY <2>9, <3>1, Joined
  <2>11. /\ IsSequence(text) /\ Len(text) <= room /\ room \in Nat
         /\ q.path_len \in Nat /\ q.qs_len \in Nat
         /\ q.path_len + q.qs_len <= r.path_len + r.qs_len
         /\ off \in Nat /\ Len(r.spec.method) <= off /\ off + room <= HeadLen(r.spec)
    <3>1. q.path_len \in Nat /\ q.qs_len \in Nat /\ Len(text) = q.path_len + q.qs_len
      BY <2>7, <2>8, <2>10
    <3>2. Len(text) <= room /\ room \in Nat /\ r.qs_len \in Nat
      BY <2>2, <2>7, <2>10
    <3>3. q.path_len + q.qs_len <= room + r.qs_len
      BY <3>1, <3>2
    <3>4. off \in Nat /\ Len(r.spec.method) <= off /\ off + room <= HeadLen(r.spec)
      <4>1. Len(r.spec.method) <= off
        <5>1. off \in Nat /\ off <= off
          BY <2>3
        <5> QED
          BY <5>1 DEF off
      <4> QED
        BY <2>3, <2>4, <4>1
    <3> QED
      BY <2>10, <3>1, <3>2, <3>3, <3>4
  <2> HIDE DEF room
  <2>12. Decoding([r |-> q, m |-> Put(m, At(r.buffer, off), text \o Blank(room - Len(text)))],
                  m, r)
    BY <2>8, <2>11, Rewritten
  <2> QED
    BY <2>1, <2>2, <2>12
<1> QED
  BY <1>1, <1>2

LEMMA QsDecoded ==
  ASSUME NEW m, IsMemory(m), NEW r, IsRequest(r), Holds(m, r)
  PROVE  Decoding(DecodeQs(m, r), m, r)
<1>1. CASE r.qs_decoded \/ r.qs_len = 0
  <2>1. DecodeQs(m, r) = [r |-> r, m |-> m]
    BY <1>1 DEF DecodeQs
  <2> QED
    BY <2>1, Untouched
<1>2. CASE ~(r.qs_decoded \/ r.qs_len = 0)
  <2> DEFINE s == Cells(m, Qs(r), r.qs_len)
             d == percent_decode(s, None)
             text == d.decoded
             q == [r EXCEPT !.qs_decoded = TRUE, !.qs_len = Len(text)]
             off == Len(r.spec.method) + r.path_len
             room == r.qs_len
  <2>1. DecodeQs(m, r) = [r |-> q, m |-> Put(m, Qs(r), text \o Blank(room - Len(text)))]
    BY <1>2 DEF DecodeQs
  <2>2. /\ r.spec \in Requests /\ r.buffer \in Blocks /\ r.path = At(r.buffer, Len(r.spec.method))
        /\ room \in Nat /\ r.path_len \in Nat /\ r.path_len + room <= Len(Target(r.spec))
        /\ Len(m[r.buffer]) = r.buffer_len /\ End(r.spec) <= r.buffer_len /\ r.buffer_len \in Nat
    BY DEF Holds, Placed, Points
  <2>3. Qs(r) = At(r.buffer, off)
    BY <2>2 DEF Qs, At
  <2>4. /\ Len(r.spec.method) \in Nat /\ HeadLen(r.spec) = Len(r.spec.method) + Len(Target(r.spec))
        /\ Len(Target(r.spec)) \in Nat /\ HeadLen(r.spec) <= End(r.spec)
        /\ HeadLen(r.spec) \in Nat /\ End(r.spec) \in Nat
    <3>1. Len(r.spec.method) \in Nat /\ Len(Target(r.spec)) \in Nat
      BY <2>2, TargetSequence
    <3>2. /\ HeadLen(r.spec) \in Nat /\ TextLen(r.spec) \in Nat /\ EntriesAt(r.spec) \in Nat
          /\ End(r.spec) \in Nat /\ HeadLen(r.spec) <= TextLen(r.spec)
          /\ TextLen(r.spec) <= EntriesAt(r.spec) /\ EntriesAt(r.spec) <= End(r.spec)
      BY <2>2, PlacesFacts
    <3>3. HeadLen(r.spec) <= End(r.spec)
      BY <3>2
    <3> QED
      BY <3>1, <3>2, <3>3 DEF HeadLen
  <2>5. /\ off \in Nat /\ Len(r.spec.method) <= off
        /\ off + room <= HeadLen(r.spec) /\ off + room <= Len(m[r.buffer])
    <3> DEFINE a == Len(r.spec.method)
               t == Len(Target(r.spec))
               h == HeadLen(r.spec)
               e == End(r.spec)
               p == r.path_len
               l == Len(m[r.buffer])
    <3>1. /\ a \in Nat /\ t \in Nat /\ h = a + t /\ h <= e /\ e \in Nat
          /\ room \in Nat /\ p \in Nat /\ p + room <= t
          /\ e <= l /\ l \in Nat /\ off = a + p
      BY <2>2, <2>4
    <3> HIDE DEF a, t, h, e, p, l, room, off
    <3>2. off \in Nat /\ a <= off /\ off + room <= h /\ off + room <= l
      BY <3>1
    <3> QED
      BY <3>2 DEF a, h, l
  <2> HIDE DEF off
  <2>6. IsSequence(s) /\ Len(s) = room
    <3>1. IsSequence(Cells(m, At(r.buffer, off), room)) /\ Len(Cells(m, At(r.buffer, off), room)) = room
      BY <2>2, <2>5, CellsFacts
    <3> QED
      BY <2>3, <3>1
  <2> HIDE DEF s
  <2>7. Within(d, room)
    <3>1. Within(d, Len(s))
      BY <2>6, DecodedWithin
    <3> QED
      BY <2>6, <3>1
  <2> HIDE DEF d
  <2>8. IsSequence(text) /\ Len(text) \in Nat /\ Len(text) <= room
    BY <2>2, <2>7 DEF Within
  <2>9. /\ IsRequest(q) /\ SameHead(q, r) /\ SameAnswer(q, r)
        /\ q.path_len = r.path_len /\ q.qs_len = Len(text)
    BY DEF IsRequest, Fields, SameHead, SameAnswer
  <2> HIDE DEF q, text
  <2>10. /\ q.path_len \in Nat /\ q.qs_len \in Nat
         /\ q.path_len + q.qs_len <= r.path_len + r.qs_len
    BY <2>2, <2>8, <2>9
  <2>11. room \in Nat
    BY <2>2
  <2> HIDE DEF room
  <2>12. Decoding([r |-> q, m |-> Put(m, At(r.buffer, off), text \o Blank(room - Len(text)))],
                  m, r)
    BY <2>5, <2>8, <2>9, <2>10, <2>11, Rewritten
  <2> QED
    BY <2>1, <2>3, <2>12
<1> QED
  BY <1>1, <1>2

(***************************************************************************)
(* A head that moves to another block.                                     *)
(***************************************************************************)
LEMMA Rehoused ==
  ASSUME NEW g, IsMemory(g), NEW k \in Requests, NEW a, NEW b \in Blocks,
         End(k) <= Len(g[b]), Contents(g[b], a, k)
  PROVE  LET headers == At(b, EntriesAt(k))
             w == Put(g, headers, Structs(MovedHeaders(StructsAt(g, headers, Len(k.headers)),
                                                       At(a, 0), At(b, 0))))
         IN  /\ IsMemory(w) /\ Len(w[b]) = Len(g[b]) /\ Contents(w[b], b, k)
             /\ \A j \in 1..TextLen(k) : w[b][j] = g[b][j]
             /\ \A d \in Blocks \ {b} : w[d] = g[d]
<1> DEFINE headers == At(b, EntriesAt(k))
           n == Len(k.headers)
           w == Put(g, headers, Structs(MovedHeaders(StructsAt(g, headers, n), At(a, 0), At(b, 0))))
<1>1. w = WithEntries(g, k, b)
  <2>1. StructsAt(g, headers, n) = Entries(k, a)
    BY EntriesRead
  <2>2. MovedHeaders(StructsAt(g, headers, n), At(a, 0), At(b, 0)) = Entries(k, b)
    BY <2>1, EntriesMoved
  <2> QED
    BY <2>2 DEF WithEntries
<1> HIDE DEF w
<1>2. /\ IsMemory(w) /\ Len(w[b]) = Len(g[b])
      /\ \A j \in 1..Len(g[b]) : j <= EntriesAt(k) \/ End(k) < j => w[b][j] = g[b][j]
      /\ \A i \in 1..n : w[b][EntryAt(k, i)] = Entry(k, i, b)
      /\ \A d \in Blocks \ {b} : w[d] = g[d]
  BY <1>1, EntriesWritten
<1>3. /\ EntriesAt(k) \in Nat /\ TextLen(k) <= EntriesAt(k) /\ TextLen(k) \in Nat
      /\ HeadLen(k) \in Nat /\ HeadLen(k) <= TextLen(k)
      /\ End(k) \in Nat /\ EntriesAt(k) <= End(k)
      /\ Len(k.method) \in Nat /\ Len(k.method) <= HeadLen(k)
  <2>1. Len(k.method) \in Nat /\ Len(Target(k)) \in Nat
    BY TargetSequence
  <2> QED
    BY <2>1, PlacesFacts DEF HeadLen
<1>4. \A j \in 1..TextLen(k) : w[b][j] = g[b][j]
  <2> TAKE j \in 1..TextLen(k)
  <2>1. j \in 1..Len(g[b]) /\ j <= EntriesAt(k)
    <3>1. IsSequence(g[b])
      BY DEF IsMemory
    <3>2. Len(g[b]) \in Nat
      BY <3>1, SequenceFacts
    <3> QED
      BY <1>3, <3>2
  <2> QED
    BY <1>2, <2>1
<1>5. \A j \in 1..Len(k.method) : w[b][j] = k.method[j]
  <2>1. \A j \in 1..Len(k.method) : j \in 1..TextLen(k) /\ g[b][j] = k.method[j]
    BY <1>3 DEF Contents
  <2> QED
    BY <1>4, <2>1
<1>6. \A i \in 1..n : Spells(w[b], k, i)
  <2> DEFINE x == g[b]
             y == w[b]
  <2>1. \A j \in (HeadLen(k) + 1)..TextLen(k) : y[j] = x[j]
    <3>1. \A j \in (HeadLen(k) + 1)..TextLen(k) : j \in 1..TextLen(k)
      BY <1>3
    <3> QED
      BY <1>4, <3>1
  <2>2. \A i \in 1..n : Spells(x, k, i)
    BY DEF Contents
  <2> HIDE DEF x, y
  <2>3. \A i \in 1..n : Spells(y, k, i)
    BY <2>1, <2>2, SpellsOn
  <2> QED
    BY <2>3 DEF y
<1>7. Contents(w[b], b, k)
  BY <1>2, <1>5, <1>6 DEF Contents, n
<1> QED
  BY <1>2, <1>4, <1>7 DEF w

\* Behind the head: past the header entries, or past the text when there are none.
Behind(off, k) == off \in Nat /\ Len(k.method) <= off /\ (Len(k.headers) # 0 => End(k) <= off)

LEMMA WrittenBehind ==
  ASSUME NEW g, IsMemory(g), NEW k \in Requests, NEW b \in Blocks, End(k) <= Len(g[b]),
         Contents(g[b], b, k), NEW off, Behind(off, k), NEW cells, IsSequence(cells)
  PROVE  LET w == Put(g, At(b, off), cells)
         IN  /\ Wrote(w, g, b, off, cells) /\ Contents(w[b], b, k)
             /\ IsMemory(w) /\ Len(w[b]) = Len(g[b])
             /\ \A d \in Blocks \ {b} : w[d] = g[d]
<1> DEFINE w == Put(g, At(b, off), cells)
<1>1. off \in Nat /\ Len(k.method) <= off /\ (Len(k.headers) # 0 => End(k) <= off)
  BY DEF Behind
<1>2. Wrote(w, g, b, off, cells)
  BY <1>1, PutFacts
<1>3. /\ EntriesAt(k) \in Nat /\ TextLen(k) <= EntriesAt(k) /\ TextLen(k) \in Nat
      /\ HeadLen(k) \in Nat /\ HeadLen(k) <= TextLen(k)
      /\ End(k) \in Nat /\ EntriesAt(k) <= End(k)
      /\ Len(k.method) \in Nat /\ Len(k.method) <= HeadLen(k)
      /\ Len(k.headers) \in Nat /\ (Len(k.headers) = 0 => TextLen(k) = HeadLen(k))
  <2>1. Len(k.method) \in Nat /\ Len(Target(k)) \in Nat
    BY TargetSequence
  <2> QED
    <3>1. Len(k.method) <= HeadLen(k)
      BY <2>1 DEF HeadLen
    <3>2. Len(k.headers) = 0 => TextLen(k) = HeadLen(k)
      BY WireTextFacts
    <3>3. Len(k.method) \in Nat
      BY <2>1
    <3> QED
      BY <3>1, <3>2, <3>3, PlacesFacts
<1>4. Len(g[b]) \in Nat
  <2>1. IsSequence(g[b])
    BY DEF IsMemory
  <2> QED
    BY <2>1, SequenceFacts
<1> HIDE DEF w
<1>5. CASE Len(k.headers) = 0
  <2>1. \A j \in 1..Len(k.method) : w[b][j] = k.method[j]
    <3> TAKE j \in 1..Len(k.method)
    <3>1. j \in 1..Len(g[b]) /\ j <= off
      BY <1>1, <1>3, <1>4
    <3> QED
      BY <1>2, <3>1 DEF Wrote, Contents
  <2>2. \A i \in 1..Len(k.headers) : FALSE
    BY <1>5
  <2>3. Contents(w[b], b, k)
    BY <2>1, <2>2 DEF Contents
  <2> QED
    BY <1>2, <2>3 DEF Wrote, w
<1>6. CASE Len(k.headers) # 0
  <2> DEFINE x == g[b]
             y == w[b]
  <2>1. \A j \in 1..End(k) : y[j] = x[j]
    <3> TAKE j \in 1..End(k)
    <3>1. j \in 1..Len(g[b]) /\ j <= off
      BY <1>1, <1>3, <1>4, <1>6
    <3> QED
      BY <1>2, <3>1 DEF Wrote
  <2>2. Contents(x, b, k)
    OBVIOUS
  <2> HIDE DEF x, y
  <2>3. Contents(y, b, k)
    BY <2>1, <2>2, ContentsKept
  <2> QED
    BY <1>2, <2>3 DEF Wrote, w, y
<1> QED
  BY <1>5, <1>6

\* The values of a match, which a handler reads through pointers into the path.
HasMatches(r) ==
  /\ \E off : Behind(off, r.spec) /\ r.match_dict_entries = At(r.buffer, off)
  /\ r.match_dict_length \in Nat

\* Where the text of a request ends, in its buffer.
TextEnd(r) == Len(r.spec.method) + r.path_len + r.qs_len

\* The match that request r points to in memory m is the list e, behind the text.
Lists(m, r, e) ==
  \E off :
    /\ Behind(off, r.spec) /\ TextEnd(r) <= off /\ off + StructLen * Len(e) <= r.buffer_len
    /\ r.match_dict_entries = At(r.buffer, off) /\ r.match_dict_length = Len(e)
    /\ \A i \in 1..Len(e) : m[r.buffer][off + StructLen * (i - 1) + 1] = e[i]

LEMMA ListWritten ==
  ASSUME NEW g, IsMemory(g), NEW w, NEW b \in Blocks, NEW off \in Nat, NEW e, IsSequence(e),
         Wrote(w, g, b, off, Structs(e)), off + StructLen * Len(e) <= Len(g[b])
  PROVE  \A i \in 1..Len(e) : w[b][off + StructLen * (i - 1) + 1] = e[i]
<1> DEFINE s == Structs(e)
           n == Len(e)
           z == Len(g[b])
<1>1. /\ IsSequence(s) /\ Len(s) = StructLen * n
      /\ \A j \in 1..n : s[StructLen * (j - 1) + 1] = e[j]
  BY StructsFacts
<1>2. n \in Nat /\ z \in Nat
  BY SequenceFacts DEF IsMemory
<1>3. off + StructLen * n <= z
  OBVIOUS
<1>4. \A j \in 1..Len(s) : off + j <= z => w[b][off + j] = s[j]
  BY DEF Wrote
<1> HIDE DEF s, n, z
<1>5. ASSUME NEW i \in 1..n PROVE w[b][off + StructLen * (i - 1) + 1] = e[i]
  <2> DEFINE o == StructLen * (i - 1)
             l == StructLen * n
             j == o + 1
  <2>1. i - 1 \in Nat /\ i - 1 < n
    BY <1>2
  <2>2. o \in Nat /\ o + StructLen <= l /\ l \in Nat
    BY <1>2, <2>1, Times
  <2>3. Len(s) = l /\ off + l <= z /\ s[j] = e[i]
    BY <1>1, <1>3
  <2> HIDE DEF o, l
  <2>4. j \in 1..Len(s) /\ off + j <= z /\ off + j = off + o + 1
    BY <1>2, <2>2, <2>3, StructPositive
  <2> HIDE DEF j
  <2>5. w[b][off + j] = s[j]
    BY <1>4, <2>4
  <2> QED
    BY <2>3, <2>4, <2>5 DEF o
<1> QED
  BY <1>5 DEF n

LEMMA MatchFields ==
  ASSUME NEW m, NEW r, IsRequest(r), NEW e, NEW b
  PROVE  LET q == CopyMatches(m, r, e, b).r
             old == At(r.buffer, 0)
             new == At(b, 0)
         IN  /\ q.buffer = b /\ q.buffer_len = GrownLen(r, MatchNeed(m, r, Len(e)))
             /\ q.method = Moved(r.method, old, new) /\ q.path = Moved(r.path, old, new)
             /\ q.headers = Moved(r.headers, old, new)
             /\ q.match_dict_entries = At(b, MatchNeed(m, r, Len(e)).off)
             /\ q.match_dict_length = Len(e)
             /\ q.method_len = r.method_len /\ q.path_len = r.path_len /\ q.qs_len = r.qs_len
             /\ q.minor_version = r.minor_version /\ q.num_headers = r.num_headers
             /\ SameAnswer(q, r)
BY DEF CopyMatches, IsRequest, Fields, SameAnswer

\* A pointer into a block moves with it.
LEMMA MovedBy ==
  ASSUME NEW a, NEW b, NEW off \in Nat
  PROVE  Moved(At(a, off), At(a, 0), At(b, 0)) = At(b, off)
BY DEF Moved, At

LEMMA MatchListSequence ==
  ASSUME NEW e, IsSequence(e), NEW from, NEW to
  PROVE  IsSequence(MovedMatches(e, from, to)) /\ Len(MovedMatches(e, from, to)) = Len(e)
<1> DEFINE s == MovedMatches(e, from, to)
           n == Len(e)
<1>1. n \in Nat /\ DOMAIN e = 1..n
  BY SequenceFacts
<1>2. s = [i \in 1..n |-> s[i]]
  BY <1>1 DEF MovedMatches
<1> HIDE DEF s, n
<1>3. IsSequence(s) /\ Len(s) = n
  BY <1>1, <1>2, FunctionSequence
<1> QED
  BY <1>3 DEF s, n

LEMMA HeldEntries ==
  ASSUME NEW m, NEW r, Holds(m, r)
  PROVE  StructsAt(m, r.headers, r.num_headers) = Entries(r.spec, r.buffer)
<1>1. /\ r.spec \in Requests /\ r.headers = At(r.buffer, EntriesAt(r.spec))
      /\ r.num_headers = Len(r.spec.headers) /\ Contents(m[r.buffer], r.buffer, r.spec)
  BY DEF Holds, Placed, Points
<1> DEFINE k == r.spec
           a == r.buffer
<1>2. k \in Requests /\ Contents(m[a], a, k)
  BY <1>1
<1> HIDE DEF k, a
<1>3. StructsAt(m, At(a, EntriesAt(k)), Len(k.headers)) = Entries(k, a)
  BY <1>2, EntriesRead
<1> QED
  BY <1>1, <1>3 DEF k, a

LEMMA MatchesCopied ==
  ASSUME NEW m, IsMemory(m), NEW r, IsRequest(r), Holds(m, r), NEW e, IsSequence(e),
         NEW b \in Blocks \ {Wire}, Fits(r, MatchNeed(m, r, Len(e))) => b = r.buffer
  PROVE  LET copied == CopyMatches(m, r, e, b)
         IN  /\ IsMemory(copied.m) /\ Holds(copied.m, copied.r) /\ IsRequest(copied.r)
             /\ SameAnswer(copied.r, r) /\ HasMatches(copied.r) /\ copied.r.buffer = b
             /\ \A d \in Blocks \ {b, r.buffer} : copied.m[d] = m[d]
             /\ \A j \in 1..TextEnd(r) : copied.m[b][j] = m[r.buffer][j]
             /\ Lists(copied.m, copied.r, MovedMatches(e, At(r.buffer, 0), At(b, 0)))
<1> DEFINE k == r.spec
           a == r.buffer
           n == Len(k.headers)
           l == Len(e)
           need == MatchNeed(m, r, l)
           g == Grown(m, r, need, b)
           old == At(a, 0)
           new == At(b, 0)
           at == At(b, EntriesAt(k))
           p == Put(g, at, Structs(MovedHeaders(StructsAt(g, at, n), old, new)))
           values == MovedMatches(e, old, new)
           list == Structs(values)
           w == Put(p, At(b, need.off), list)
           copied == CopyMatches(m, r, e, b)
           q == copied.r
<1>1. /\ k \in Requests /\ a \in Blocks /\ Points(r, k, a) /\ r.headers = At(a, EntriesAt(k))
      /\ Len(m[a]) = r.buffer_len /\ r.buffer_len \in Nat /\ End(k) <= r.buffer_len
      /\ Contents(m[a], a, k) /\ r.num_headers = n
      /\ r.method = At(a, 0) /\ r.path = At(a, Len(k.method))
  BY DEF Holds, Placed, Points
<1>2. l \in Nat
  BY SequenceFacts
<1>3. /\ EntriesAt(k) \in Nat /\ TextLen(k) <= EntriesAt(k) /\ TextLen(k) \in Nat
      /\ HeadLen(k) \in Nat /\ HeadLen(k) <= TextLen(k)
      /\ End(k) \in Nat /\ EntriesAt(k) <= End(k) /\ n \in Nat
      /\ End(k) = EntriesAt(k) + StructLen * n /\ StructLen * n \in Nat
      /\ EntriesAt(k) = Round(TextLen(k))
      /\ Len(k.method) \in Nat
  BY <1>1, PlacesFacts, TargetSequence DEF End, EntriesAt
<1>4. /\ HeadersLen(m, r) \in Nat /\ Len(k.method) <= HeadersLen(m, r)
      /\ HeadersLen(m, r) <= TextLen(k) /\ (n # 0 => HeadersLen(m, r) = TextLen(k))
      /\ TextEnd(r) \in Nat /\ TextEnd(r) <= HeadersLen(m, r) /\ TextEnd(r) <= TextLen(k)
  <2>1. StructsAt(m, r.headers, r.num_headers) = Entries(k, a)
    BY HeldEntries
  <2>2. /\ HeadersLen(m, r) \in Nat
        /\ n # 0 => HeadersLen(m, r) = TextLen(k)
        /\ n = 0 => HeadersLen(m, r) = Len(k.method) + r.path_len + r.qs_len
        /\ Len(k.method) <= HeadersLen(m, r) /\ HeadersLen(m, r) <= TextLen(k)
    BY <1>1, <2>1, TextMeasured
  <2> DEFINE x == r.path_len
             y == r.qs_len
             z == Len(k.method)
             t == Len(Target(k))
  <2>3. /\ x \in Nat /\ y \in Nat /\ z \in Nat /\ t \in Nat /\ x + y <= t
        /\ HeadLen(k) = z + t /\ TextEnd(r) = z + x + y
    BY <1>1, TargetSequence DEF Points, HeadLen, TextEnd
  <2> HIDE DEF x, y, z, t
  <2>4. TextEnd(r) \in Nat /\ TextEnd(r) <= HeadLen(k)
    BY <2>3
  <2>5. TextEnd(r) <= TextLen(k)
    BY <1>3, <2>4
  <2>6. n = 0 => HeadersLen(m, r) = TextEnd(r)
    BY <2>2 DEF TextEnd
  <2> QED
    BY <2>2, <2>4, <2>5, <2>6
<1>5. need.len = StructLen * l /\ need.len \in Nat /\ need.off = Round(HeadersLen(m, r) + StructLen * n)
  <2>1. StructLen * l \in Nat
    BY <1>2, Times
  <2> QED
    BY <1>1, <2>1 DEF MatchNeed, HeaderEntriesLen
<1>6. /\ need.off \in Nat /\ need.off <= r.buffer_len /\ Behind(need.off, k)
      /\ TextEnd(r) <= need.off
  <2> DEFINE h == HeadersLen(m, r)
  <2>1. h \in Nat
    BY <1>4
  <2> HIDE DEF h, n, k
  <2>2. Round(h + StructLen * n) = Round(h) + StructLen * n
    BY <1>3, <2>1, RoundedSum
  <2>3. Round(h) \in Nat /\ h <= Round(h)
    BY <2>1, Rounded
  <2>4. Round(h) <= EntriesAt(k)
    <3>1. PICK x \in Nat : EntriesAt(k) = StructLen * x
      BY <1>3, Rounded
    <3>2. h <= StructLen * x
      BY <1>3, <1>4, <2>1, <3>1 DEF h, k
    <3> QED
      BY <2>1, <3>1, <3>2, RoundedLeast
  <2>5. n # 0 => Round(h) = EntriesAt(k)
    BY <1>3, <1>4 DEF h
  <2>6. need.off = Round(h) + StructLen * n
    BY <1>5, <2>2 DEF h
  <2> DEFINE sn == StructLen * n
             o == need.off
             rh == Round(h)
             ml == Len(k.method)
             te == TextEnd(r)
  <2>7. /\ te \in Nat /\ te <= h
        /\ rh \in Nat /\ sn \in Nat /\ o = rh + sn /\ h <= rh /\ rh <= EntriesAt(k)
        /\ (n # 0 => rh = EntriesAt(k)) /\ End(k) = EntriesAt(k) + sn
        /\ ml \in Nat /\ ml <= h /\ h \in Nat /\ EntriesAt(k) \in Nat /\ End(k) \in Nat
        /\ End(k) <= r.buffer_len /\ r.buffer_len \in Nat
    BY <1>1, <1>3, <1>4, <2>1, <2>3, <2>4, <2>5, <2>6 DEF h, k
  <2> HIDE DEF sn, o, rh, h, ml, te
  <2>8. /\ o \in Nat /\ o <= r.buffer_len /\ ml <= o /\ (n # 0 => End(k) <= o) /\ te <= o
    BY <2>7
  <2> QED
    BY <2>8 DEF Behind, o, ml, n, te
<1>7. copied.m = w
  <2>1. Moved(r.headers, old, new) = at
    BY <1>1, <1>3, MovedBy
  <2> QED
    BY <1>1, <2>1 DEF CopyMatches
<1>8. need = [off |-> need.off, len |-> need.len]
  BY DEF MatchNeed
<1> HIDE DEF need
<1>9. /\ IsMemory(g) /\ Len(g[b]) = GrownLen(r, need) /\ r.buffer_len <= Len(g[b])
      /\ need.off + need.len <= Len(g[b])
      /\ \A i \in 1..r.buffer_len : g[b][i] = m[a][i]
      /\ \A d \in Blocks \ {b, a} : g[d] = m[d]
  <2>1. /\ r.buffer \in Blocks /\ Len(m[r.buffer]) = r.buffer_len /\ r.buffer_len \in Nat
        /\ need.off \in Nat /\ need.len \in Nat /\ need.off <= r.buffer_len
        /\ (Fits(r, need) => b = r.buffer)
    BY <1>1, <1>5, <1>6 DEF need
  <2> QED
    BY <2>1, GrownFacts
<1> HIDE DEF g
<1>10. Contents(g[b], a, k) /\ End(k) <= Len(g[b])
  <2> DEFINE x == m[a]
             y == g[b]
  <2>1. \A j \in 1..End(k) : y[j] = x[j]
    BY <1>1, <1>3, <1>9
  <2>2. Contents(x, a, k)
    BY <1>1
  <2>3. End(k) <= Len(g[b])
    <3>1. IsSequence(g[b])
      BY <1>9 DEF IsMemory
    <3>2. Len(g[b]) \in Nat
      BY <3>1, SequenceFacts
    <3> QED
      BY <1>1, <1>3, <1>9, <3>2
  <2> HIDE DEF x, y
  <2>4. Contents(y, a, k)
    BY <1>1, <2>1, <2>2, ContentsKept
  <2> QED
    BY <2>3, <2>4 DEF y
<1>11. /\ IsMemory(p) /\ Len(p[b]) = Len(g[b]) /\ Contents(p[b], b, k)
       /\ \A j \in 1..TextLen(k) : p[b][j] = g[b][j]
       /\ \A d \in Blocks \ {b} : p[d] = g[d]
  BY <1>1, <1>9, <1>10, Rehoused
<1> HIDE DEF p
<1>12. IsSequence(list) /\ IsSequence(values) /\ Len(values) = l
  <2>1. IsSequence(values) /\ Len(values) = l
    BY MatchListSequence
  <2> HIDE DEF values
  <2>2. IsSequence(Structs(values))
    BY <2>1, StructsFacts
  <2> QED
    BY <2>1, <2>2
<1> HIDE DEF list, values
<1>13. /\ IsMemory(w) /\ Len(w[b]) = Len(p[b]) /\ Contents(w[b], b, k)
       /\ Wrote(w, p, b, need.off, list)
       /\ \A d \in Blocks \ {b} : w[d] = p[d]
  <2> DEFINE off == need.off
  <2>1. Behind(off, k) /\ End(k) <= Len(p[b])
    BY <1>6, <1>10, <1>11
  <2> HIDE DEF off
  <2>2. LET v == Put(p, At(b, off), list)
        IN  /\ Wrote(v, p, b, off, list) /\ Contents(v[b], b, k)
            /\ IsMemory(v) /\ Len(v[b]) = Len(p[b])
            /\ \A d \in Blocks \ {b} : v[d] = p[d]
    BY <1>1, <1>11, <1>12, <2>1, WrittenBehind
  <2> QED
    BY <2>2 DEF off
<1> HIDE DEF w
<1>14. /\ q.buffer = b /\ q.buffer_len = GrownLen(r, need)
       /\ q.method = At(b, 0) /\ q.path = At(b, Len(k.method)) /\ q.headers = at
       /\ q.match_dict_entries = At(b, need.off) /\ q.match_dict_length = l
       /\ q.method_len = r.method_len /\ q.path_len = r.path_len /\ q.qs_len = r.qs_len
       /\ q.minor_version = r.minor_version /\ q.num_headers = r.num_headers
       /\ SameAnswer(q, r) /\ IsRequest(q)
  <2>1. /\ q.buffer = b /\ q.buffer_len = GrownLen(r, need)
        /\ q.method = Moved(r.method, old, new) /\ q.path = Moved(r.path, old, new)
        /\ q.headers = Moved(r.headers, old, new)
        /\ q.match_dict_entries = At(b, need.off) /\ q.match_dict_length = l
        /\ q.method_len = r.method_len /\ q.path_len = r.path_len /\ q.qs_len = r.qs_len
        /\ q.minor_version = r.minor_version /\ q.num_headers = r.num_headers
        /\ SameAnswer(q, r)
    BY MatchFields DEF need
  <2>2. IsRequest(q)
    BY CopiedMatches
  <2>3. /\ Moved(r.method, old, new) = At(b, 0) /\ Moved(r.path, old, new) = At(b, Len(k.method))
        /\ Moved(r.headers, old, new) = at
    BY <1>1, <1>3, MovedBy
  <2> HIDE DEF q, l
  <2> QED
    BY <2>1, <2>2, <2>3
<1> HIDE DEF q
<1>15. Placed(q) /\ q.spec = k
  <2>1. q.buffer_len \in Nat /\ End(k) <= q.buffer_len
    <3>1. IsSequence(g[b])
      BY <1>9 DEF IsMemory
    <3>2. Len(g[b]) \in Nat
      BY <3>1, SequenceFacts
    <3> QED
      BY <1>9, <1>10, <1>14, <3>2
  <2>2. q.spec = k
    BY <1>14 DEF SameAnswer
  <2>3. Points(q, k, b)
    BY <1>1, <1>14 DEF Points
  <2> QED
    BY <1>1, <1>14, <2>1, <2>2, <2>3 DEF Placed
<1>16. Holds(w, q)
  <2>1. Len(w[b]) = q.buffer_len
    BY <1>9, <1>11, <1>13, <1>14
  <2> QED
    BY <1>13, <1>14, <1>15, <2>1 DEF Holds
<1>17. HasMatches(q)
  BY <1>2, <1>6, <1>14, <1>15 DEF HasMatches
<1>18. \A d \in Blocks \ {b, a} : w[d] = m[d]
  BY <1>9, <1>11, <1>13
<1>19. \A j \in 1..TextEnd(r) : w[b][j] = m[a][j]
  <2> TAKE j \in 1..TextEnd(r)
  <2> DEFINE z == Len(p[b])
             o == need.off
             te == TextEnd(r)
             tl == TextLen(k)
             bl == r.buffer_len
  <2>1. /\ z \in Nat /\ z = Len(g[b]) /\ bl <= z /\ bl \in Nat
        /\ o \in Nat /\ te \in Nat /\ te <= o /\ o <= bl /\ te <= tl /\ tl \in Nat
    BY <1>1, <1>3, <1>4, <1>6, <1>9, <1>11, SequenceFacts DEF IsMemory
  <2>2. j \in 1..te
    OBVIOUS
  <2> HIDE DEF z, o, te, tl, bl
  <2>3. j \in 1..z /\ j <= o /\ j \in 1..tl /\ j \in 1..bl
    BY <2>1, <2>2
  <2>4. w[b][j] = p[b][j]
    BY <1>13, <2>3 DEF Wrote, z, o
  <2> QED
    BY <1>9, <1>11, <2>3, <2>4 DEF tl, bl
<1>20. Lists(w, q, values)
  <2> DEFINE o == need.off
  <2>1. o \in Nat /\ Behind(o, k) /\ TextEnd(r) <= o /\ o + StructLen * l <= Len(p[b])
    BY <1>5, <1>6, <1>9, <1>11 DEF need
  <2>2. Wrote(w, p, b, o, Structs(values))
    BY <1>13 DEF list
  <2> HIDE DEF o
  <2>3. \A i \in 1..Len(values) : w[b][o + StructLen * (i - 1) + 1] = values[i]
    BY <1>1, <1>11, <1>12, <2>1, <2>2, ListWritten
  <2>4. q.spec = k /\ TextEnd(q) = TextEnd(r)
    BY <1>14, <1>15 DEF TextEnd
  <2>5. q.buffer_len = Len(p[b]) /\ q.match_dict_entries = At(b, o) /\ q.match_dict_length = Len(values)
    BY <1>9, <1>11, <1>12, <1>14 DEF o
  <2> QED
    BY <1>12, <1>14, <2>1, <2>3, <2>4, <2>5 DEF Lists
<1> QED
  BY <1>7, <1>13, <1>14, <1>16, <1>17, <1>18, <1>19, <1>20 DEF q, values

(***************************************************************************)
(* Clones.                                                                 *)
(***************************************************************************)
LEMMA CloneFields ==
  ASSUME NEW m, NEW r, IsRequest(r), NEW c, NEW o
  PROVE  LET q == Request_clone(m, r, c, o).clone
             old == At(c, 0)
             new == At(o, 0)
         IN  /\ r.buffer = c => /\ q.buffer = o /\ q.method = Moved(r.method, old, new)
                                /\ q.path = Moved(r.path, old, new)
                                /\ q.headers = Moved(r.headers, old, new)
             /\ r.buffer # c => /\ q.buffer = r.buffer /\ q.method = r.method
                                /\ q.path = r.path /\ q.headers = r.headers
             /\ q.buffer_len = r.buffer_len
             /\ q.method_len = r.method_len /\ q.path_len = r.path_len /\ q.qs_len = r.qs_len
             /\ q.minor_version = r.minor_version /\ q.num_headers = r.num_headers
             /\ q.spec = r.spec /\ q.response = None
<1> DEFINE p == Request_new(o).py
           v == Request_new(o).response
           fresh == [r EXCEPT !.py = p, !.response = v]
           old == At(c, 0)
           new == At(o, 0)
<1>1. v = None
  BY DEF Request_new
<1> HIDE DEF p, v
<1>2. /\ IsRequest(fresh) /\ fresh.response = v /\ fresh.buffer = r.buffer
      /\ fresh.method = r.method /\ fresh.path = r.path /\ fresh.headers = r.headers
      /\ fresh.buffer_len = r.buffer_len /\ fresh.match_dict_entries = r.match_dict_entries
      /\ fresh.method_len = r.method_len /\ fresh.path_len = r.path_len
      /\ fresh.qs_len = r.qs_len /\ fresh.minor_version = r.minor_version
      /\ fresh.num_headers = r.num_headers /\ fresh.spec = r.spec
  BY DEF IsRequest, Fields
<1> DEFINE headers == Moved(r.headers, old, new)
           matches == Moved(r.match_dict_entries, old, new)
           moved == [fresh EXCEPT !.buffer = o, !.method = Moved(@, old, new),
                                  !.path = Moved(@, old, new), !.headers = headers,
                                  !.match_dict_entries = matches]
<1>3. CASE r.buffer = c
  <2>1. Request_clone(m, r, c, o).clone = moved
    BY <1>3 DEF Request_clone, p, v
  <2> HIDE DEF fresh, headers, matches, old, new
  <2>2. /\ moved.buffer = o /\ moved.method = Moved(r.method, old, new)
        /\ moved.path = Moved(r.path, old, new) /\ moved.headers = headers
        /\ moved.buffer_len = r.buffer_len
        /\ moved.method_len = r.method_len /\ moved.path_len = r.path_len
        /\ moved.qs_len = r.qs_len /\ moved.minor_version = r.minor_version
        /\ moved.num_headers = r.num_headers /\ moved.spec = r.spec
        /\ moved.response = v
    BY <1>2 DEF IsRequest, Fields
  <2> HIDE DEF moved
  <2> QED
    BY <1>1, <1>3, <2>1, <2>2 DEF headers, old, new
<1>4. CASE r.buffer # c
  <2>1. Request_clone(m, r, c, o).clone = fresh
    BY <1>4 DEF Request_clone, p, v
  <2> HIDE DEF fresh
  <2> QED
    BY <1>1, <1>2, <1>4, <2>1
<1> QED
  BY <1>3, <1>4

LEMMA CloneMatches ==
  ASSUME NEW m, NEW r, IsRequest(r), NEW c, NEW o
  PROVE  LET q == Request_clone(m, r, c, o).clone
             p == r.match_dict_entries
         IN  /\ q.match_dict_length = r.match_dict_length
             /\ q.match_dict_entries = IF r.buffer = c THEN Moved(p, At(c, 0), At(o, 0)) ELSE p
             /\ q.path_decoded = r.path_decoded /\ q.qs_decoded = r.qs_decoded
             /\ q.entry = r.entry /\ q.py = [a \in Attributes |-> None]
<1> DEFINE p == Request_new(o).py
           v == Request_new(o).response
           fresh == [r EXCEPT !.py = p, !.response = v]
           old == At(c, 0)
           new == At(o, 0)
<1>1. p = [a \in Attributes |-> None]
  BY DEF Request_new
<1> HIDE DEF p, v
<1>2. /\ IsRequest(fresh) /\ fresh.match_dict_length = r.match_dict_length
      /\ fresh.match_dict_entries = r.match_dict_entries
      /\ fresh.path_decoded = r.path_decoded /\ fresh.entry = r.entry
      /\ fresh.py = p
  BY DEF IsRequest, Fields
<1>3. fresh.qs_decoded = r.qs_decoded
  BY DEF IsRequest, Fields
<1> DEFINE headers == Moved(r.headers, old, new)
           matches == Moved(r.match_dict_entries, old, new)
           moved == [fresh EXCEPT !.buffer = o, !.method = Moved(@, old, new),
                                  !.path = Moved(@, old, new), !.headers = headers,
                                  !.match_dict_entries = matches]
<1>4. CASE r.buffer = c
  <2>1. Request_clone(m, r, c, o).clone = moved
    BY <1>4 DEF Request_clone, p, v
  <2> HIDE DEF fresh, headers, matches, old, new
  <2>2. /\ moved.match_dict_length = r.match_dict_length
        /\ moved.match_dict_entries = matches
        /\ moved.entry = r.entry /\ moved.py = p
    BY <1>2 DEF IsRequest, Fields
  <2>3. moved.path_decoded = r.path_decoded
    BY <1>2 DEF IsRequest, Fields
  <2>4. moved.qs_decoded = r.qs_decoded
    BY <1>2, <1>3 DEF IsRequest, Fields
  <2> HIDE DEF moved
  <2> QED
    BY <1>1, <1>4, <2>1, <2>2, <2>3, <2>4 DEF matches, old, new
<1>5. CASE r.buffer # c
  <2>1. Request_clone(m, r, c, o).clone = fresh
    BY <1>5 DEF Request_clone, p, v
  <2> HIDE DEF fresh
  <2> QED
    BY <1>1, <1>2, <1>3, <1>5, <2>1
<1> QED
  BY <1>4, <1>5

\* The text of a request ends within the head.
LEMMA TextWithin ==
  ASSUME NEW m, NEW r, Holds(m, r)
  PROVE  TextEnd(r) \in Nat /\ TextEnd(r) <= HeadLen(r.spec)
<1> DEFINE k == r.spec
           a == Len(k.method)
           t == Len(Target(k))
           p == r.path_len
           q == r.qs_len
<1>1. k \in Requests /\ p \in Nat /\ q \in Nat /\ p + q <= t
  BY DEF Holds, Placed, Points
<1>2. a \in Nat /\ t \in Nat
  BY <1>1, TargetSequence
<1>3. HeadLen(k) = a + t /\ TextEnd(r) = a + p + q
  BY DEF HeadLen, TextEnd
<1> HIDE DEF a, t, p, q, k
<1>4. TextEnd(r) \in Nat /\ TextEnd(r) <= HeadLen(k)
  BY <1>1, <1>2, <1>3
<1> QED
  BY <1>4 DEF k

\* The clone has the text of r, and the list e of r's match.
ListCloned(cloned, m, r, c, o, e) ==
  /\ \A j \in 1..TextEnd(r) : cloned.m[cloned.clone.buffer][j] = m[r.buffer][j]
  /\ Lists(cloned.m, cloned.clone,
           IF r.buffer = c THEN MovedMatches(e, At(c, 0), At(o, 0)) ELSE e)

\* The cells of a list.
LEMMA ListRead ==
  ASSUME NEW m, NEW b, NEW off, NEW e, IsSequence(e),
         \A i \in 1..Len(e) : m[b][off + StructLen * (i - 1) + 1] = e[i]
  PROVE  StructsAt(m, At(b, off), Len(e)) = e
<1> DEFINE n == Len(e)
           s == StructsAt(m, At(b, off), n)
<1>1. s = [i \in 1..n |-> s[i]]
  BY DEF StructsAt
<1>2. \A i \in 1..n : s[i] = e[i]
  BY DEF StructsAt, At
<1>3. e = [i \in 1..n |-> e[i]]
  BY SequenceFacts
<1> HIDE DEF s, n
<1>4. s = e
  BY <1>1, <1>2, <1>3
<1> QED
  BY <1>4 DEF s, n

LEMMA Cloned ==
  ASSUME NEW m, IsMemory(m), NEW r, IsRequest(r), Holds(m, r), HasMatches(r),
         NEW c \in Blocks \ {Wire}, NEW o \in Blocks \ {Wire}, r.buffer # o, c # o
  PROVE  LET cloned == Request_clone(m, r, c, o)
         IN  /\ IsMemory(cloned.m) /\ Holds(cloned.m, cloned.clone)
             /\ cloned.clone.response = None
             /\ \A d \in Blocks \ {o} : cloned.m[d] = m[d]
             /\ \A e : IsSequence(e) /\ Lists(m, r, e) => ListCloned(cloned, m, r, c, o, e)
<1> DEFINE k == r.spec
           n == Len(k.headers)
           copy == Stored(m, o, m[c])
           cloned == Request_clone(m, r, c, o)
           q == cloned.clone
           old == At(c, 0)
           new == At(o, 0)
<1>1. IsMemory(copy) /\ copy[o] = m[c] /\ \A d \in Blocks \ {o} : copy[d] = m[d]
  <2> DEFINE s == m[c]
  <2>1. IsSequence(s)
    BY DEF IsMemory
  <2> HIDE DEF s
  <2>2. IsMemory(Stored(m, o, s)) /\ Stored(m, o, s)[o] = s /\ \A d \in Blocks \ {o} : Stored(m, o, s)[d] = m[d]
    BY <2>1, WriteBlock
  <2> QED
    BY <2>2 DEF s
<1>2. /\ k \in Requests /\ Points(r, k, r.buffer) /\ r.headers = At(r.buffer, EntriesAt(k))
      /\ Len(m[r.buffer]) = r.buffer_len /\ r.buffer_len \in Nat /\ End(k) <= r.buffer_len
      /\ Contents(m[r.buffer], r.buffer, k) /\ r.num_headers = n
      /\ r.method = At(r.buffer, 0) /\ r.path = At(r.buffer, Len(k.method))
      /\ r.buffer \in Blocks
  BY DEF Holds, Placed, Points
<1>3. EntriesAt(k) \in Nat /\ Len(k.method) \in Nat
  BY <1>2, PlacesFacts, TargetSequence
<1>4. /\ r.buffer = c => /\ q.buffer = o /\ q.method = Moved(r.method, old, new)
                         /\ q.path = Moved(r.path, old, new)
                         /\ q.headers = Moved(r.headers, old, new)
      /\ r.buffer # c => /\ q.buffer = r.buffer /\ q.method = r.method
                         /\ q.path = r.path /\ q.headers = r.headers
      /\ q.buffer_len = r.buffer_len
      /\ q.method_len = r.method_len /\ q.path_len = r.path_len /\ q.qs_len = r.qs_len
      /\ q.minor_version = r.minor_version /\ q.num_headers = r.num_headers
      /\ q.spec = k /\ q.response = None
  BY CloneFields
<1> HIDE DEF copy
<1>5. CASE r.buffer = c
  <2> DEFINE headers == At(o, EntriesAt(k))
             p == Put(copy, headers, Structs(MovedHeaders(StructsAt(copy, headers, n), old, new)))
             matches == Moved(r.match_dict_entries, old, new)
             found == StructsAt(copy, matches, r.match_dict_length)
             list == Structs(MovedMatches(found, old, new))
             w == Put(p, matches, list)
  <2>1. PICK off : Behind(off, k) /\ r.match_dict_entries = At(c, off)
    BY <1>5 DEF HasMatches
  <2>2. matches = At(o, off)
    BY <2>1, MovedBy DEF Behind
  <2>3. Moved(r.headers, old, new) = headers
    BY <1>2, <1>3, <1>5, MovedBy
  <2>4. cloned.m = w
    BY <1>2, <1>5, <2>3 DEF Request_clone, copy, Stored
  <2>5. IsSequence(list)
    <3> DEFINE l == r.match_dict_length
               x == MovedMatches(found, old, new)
    <3>1. l \in Nat /\ found = [i \in 1..l |-> found[i]]
      BY DEF HasMatches, StructsAt
    <3> HIDE DEF found, l
    <3>2. IsSequence(found)
      BY <3>1, FunctionSequence
    <3>3. IsSequence(x)
      BY <3>2, MatchListSequence
    <3> HIDE DEF x
    <3>4. IsSequence(Structs(x))
      BY <3>3, StructsFacts
    <3> QED
      BY <3>4 DEF x
  <2> HIDE DEF list
  <2>6. Contents(copy[o], c, k) /\ Len(copy[o]) = r.buffer_len /\ End(k) <= Len(copy[o])
    BY <1>1, <1>2, <1>5
  <2>7. /\ IsMemory(p) /\ Len(p[o]) = Len(copy[o]) /\ Contents(p[o], o, k)
        /\ \A j \in 1..TextLen(k) : p[o][j] = copy[o][j]
        /\ \A d \in Blocks \ {o} : p[d] = copy[d]
    BY <1>1, <1>2, <2>6, Rehoused, SMTT(30)
  <2> HIDE DEF p, matches
  <2>8. /\ IsMemory(w) /\ Len(w[o]) = Len(p[o]) /\ Contents(w[o], o, k)
        /\ Wrote(w, p, o, off, list)
        /\ \A d \in Blocks \ {o} : w[d] = p[d]
    <3>1. LET v == Put(p, At(o, off), list)
          IN  /\ Wrote(v, p, o, off, list) /\ Contents(v[o], o, k)
              /\ IsMemory(v) /\ Len(v[o]) = Len(p[o])
              /\ \A d \in Blocks \ {o} : v[d] = p[d]
      <4>1. End(k) <= Len(p[o]) /\ Behind(off, k)
        BY <2>1, <2>6, <2>7
      <4> QED
        BY <1>2, <2>5, <2>7, <4>1, WrittenBehind
    <3> QED
      BY <2>2, <3>1
  <2> HIDE DEF w
  <2>9. q.method = At(o, 0) /\ q.path = At(o, Len(k.method)) /\ q.headers = headers
    <3>1. Moved(r.method, old, new) = At(o, 0) /\ Moved(r.path, old, new) = At(o, Len(k.method))
      BY <1>2, <1>3, <1>5, MovedBy
    <3> HIDE DEF q
    <3> QED
      BY <1>4, <1>5, <2>3, <3>1
  <2> HIDE DEF q
  <2>10. Points(q, k, o)
    BY <1>2, <1>4, <2>9 DEF Points
  <2>11. Holds(w, q)
    <3>1. Len(w[o]) = q.buffer_len
      BY <1>4, <2>6, <2>7, <2>8
    <3> QED
      BY <1>2, <1>4, <1>5, <2>8, <2>9, <2>10, <3>1 DEF Holds, Placed
  <2>12. q.match_dict_entries = At(o, off) /\ q.match_dict_length = r.match_dict_length
    BY <1>5, <2>2, CloneMatches DEF matches, q
  <2>13. ASSUME NEW e, IsSequence(e), Lists(m, r, e)
         PROVE  ListCloned(cloned, m, r, c, o, e)
    <3> DEFINE l == Len(e)
               x == MovedMatches(e, old, new)
               z == Len(p[o])
               te == TextEnd(r)
               tl == TextLen(k)
    <3>1. /\ te <= off /\ off + StructLen * l <= r.buffer_len /\ r.match_dict_length = l
          /\ \A i \in 1..l : m[c][off + StructLen * (i - 1) + 1] = e[i]
      <4>1. PICK y : /\ te <= y /\ y + StructLen * l <= r.buffer_len
                     /\ r.match_dict_entries = At(c, y) /\ r.match_dict_length = l
                     /\ \A i \in 1..l : m[c][y + StructLen * (i - 1) + 1] = e[i]
        BY <1>5, <2>13 DEF Lists
      <4>2. y = off
        BY <2>1, <4>1 DEF At
      <4> QED
        BY <4>1, <4>2
    <3>2. found = e
      <4>1. \A i \in 1..Len(e) : copy[o][off + StructLen * (i - 1) + 1] = e[i]
        BY <1>1, <3>1
      <4>2. StructsAt(copy, At(o, off), Len(e)) = e
        BY <2>13, <4>1, ListRead
      <4> QED
        BY <2>2, <3>1, <4>2
    <3>3. list = Structs(x)
      BY <3>2 DEF list
    <3>4. IsSequence(x) /\ Len(x) = l
      BY <2>13, MatchListSequence
    <3>5. /\ off \in Nat /\ z = r.buffer_len /\ z \in Nat
          /\ te \in Nat /\ tl \in Nat /\ te <= tl
      <4>1. off \in Nat
        BY <2>1 DEF Behind
      <4>2. te \in Nat /\ te <= HeadLen(k) /\ HeadLen(k) <= tl /\ HeadLen(k) \in Nat /\ tl \in Nat
        BY <1>2, PlacesFacts, TextWithin
      <4>3. z = r.buffer_len
        BY <2>6, <2>7
      <4> HIDE DEF z, te, tl
      <4> QED
        BY <1>2, <4>1, <4>2, <4>3
    <3> HIDE DEF x
    <3>6. \A i \in 1..Len(x) : w[o][off + StructLen * (i - 1) + 1] = x[i]
      <4>1. Wrote(w, p, o, off, Structs(x)) /\ off + StructLen * Len(x) <= Len(p[o])
        BY <2>8, <3>1, <3>3, <3>4, <3>5
      <4> QED
        BY <2>7, <3>4, <3>5, <4>1, ListWritten
    <3>7. TextEnd(q) = te /\ q.spec = k
      BY <1>4 DEF TextEnd
    <3>8. Lists(w, q, x)
      BY <1>4, <1>5, <2>1, <2>12, <3>1, <3>4, <3>6, <3>7 DEF Lists
    <3>9. \A j \in 1..te : w[o][j] = m[c][j]
      <4> TAKE j \in 1..te
      <4>1. j \in 1..z /\ j <= off /\ j \in 1..tl
        <5>1. j \in 1..te /\ off + StructLen * l <= z /\ StructLen * l \in Nat /\ te <= off
          <6>1. l \in Nat
            BY <2>13, SequenceFacts
          <6>2. StructLen * l \in Nat
            BY <6>1, Times
          <6> QED
            BY <3>1, <3>5, <6>2
        <5> DEFINE sl == StructLen * l
        <5> HIDE DEF te, z, tl, sl
        <5> QED
          BY <3>5, <5>1 DEF sl
      <4>2. w[o][j] = p[o][j]
        BY <2>8, <4>1 DEF Wrote
      <4>3. p[o][j] = copy[o][j]
        BY <2>7, <4>1
      <4> QED
        BY <1>1, <4>2, <4>3
    <3> QED
      BY <1>4, <1>5, <2>4, <3>8, <3>9 DEF ListCloned, x, q
  <2> QED
    BY <1>1, <1>4, <2>4, <2>7, <2>8, <2>11, <2>13 DEF q
<1>6. CASE r.buffer # c
  <2>1. cloned.m = copy
    BY <1>6 DEF Request_clone, copy, Stored
  <2> HIDE DEF q
  <2>2. copy[r.buffer] = m[r.buffer]
    BY <1>1, <1>2
  <2>3. Points(q, k, r.buffer)
    BY <1>2, <1>4, <1>6 DEF Points
  <2>4. Holds(copy, q)
    BY <1>2, <1>4, <1>6, <2>2, <2>3 DEF Holds, Placed
  <2>5. q.match_dict_entries = r.match_dict_entries /\ q.match_dict_length = r.match_dict_length
    BY <1>6, CloneMatches DEF q
  <2>6. ASSUME NEW e, IsSequence(e), Lists(m, r, e)
        PROVE  ListCloned(cloned, m, r, c, o, e)
    <3>1. q.buffer = r.buffer /\ q.spec = k /\ TextEnd(q) = TextEnd(r)
      BY <1>4, <1>6 DEF TextEnd
    <3>2. Lists(copy, q, e)
      BY <1>4, <2>2, <2>5, <2>6, <3>1 DEF Lists
    <3> QED
      BY <1>6, <2>1, <2>2, <3>1, <3>2 DEF ListCloned, q
  <2> QED
    BY <1>1, <1>4, <2>1, <2>4, <2>6 DEF q
<1> QED
  BY <1>5, <1>6

(***************************************************************************)
(* What is read of the head.                                               *)
(***************************************************************************)
LEMMA LoweredAlike ==
  ASSUME NEW s, IsSequence(s), NEW t, IsSequence(t), Len(s) = Len(t),
         \A j \in 1..Len(t) : LowerOf(s[j]) = LowerOf(t[j])
  PROVE  Lowered(s) = Lowered(t)
<1>1. DOMAIN s = 1..Len(t) /\ DOMAIN t = 1..Len(t)
  BY SequenceFacts
<1>2. Lowered(s) = [j \in 1..Len(t) |-> LowerOf(s[j])] /\ Lowered(t) = [j \in 1..Len(t) |-> LowerOf(t[j])]
  BY <1>1 DEF Lowered, LowerOf
<1> QED
  BY <1>2

LEMMA TitleAlike ==
  ASSUME NEW s, NEW t, Lowered(s) = Lowered(t)
  PROVE  title_case(s) = title_case(t)
BY DEF title_case

LEMMA HeaderRead ==
  ASSUME NEW m, IsMemory(m), NEW r, Holds(m, r), NEW i \in 1..Len(r.spec.headers)
  PROVE  LET e == Entry(r.spec, i, r.buffer)
             name == r.spec.headers[i].name
         IN  /\ IsSequence(Cells(m, e.name, e.name_len))
             /\ Len(Cells(m, e.name, e.name_len)) = Len(name)
             /\ \A j \in 1..Len(name) : Cells(m, e.name, e.name_len)[j] = m[r.buffer][Offset(r.spec, i) + j]
             /\ \A j \in 1..Len(name) : LowerOf(Cells(m, e.name, e.name_len)[j]) = LowerOf(name[j])
             /\ Lowered(Cells(m, e.name, e.name_len)) = Lowered(name)
             /\ Cells(m, e.value, e.value_len) = r.spec.headers[i].value
<1> DEFINE k == r.spec
           b == r.buffer
           name == k.headers[i].name
           value == k.headers[i].value
           off == Offset(k, i)
           t == TextLen(k)
           h == HeadLen(k)
           e == Entry(k, i, b)
<1>1. /\ k \in Requests /\ b \in Blocks /\ Len(m[b]) = r.buffer_len /\ r.buffer_len \in Nat
      /\ End(k) <= r.buffer_len /\ Contents(m[b], b, k) /\ i \in 1..Len(k.headers)
  BY DEF Holds, Placed
<1>2. /\ off \in Nat /\ h <= off /\ off + Len(name) + Len(value) <= t
  BY <1>1, OffsetFacts
<1>3. IsSequence(name) /\ IsSequence(value) /\ Len(name) \in Nat /\ Len(value) \in Nat
  BY <1>1, LineFacts
<1>4. /\ t \in Nat /\ h \in Nat /\ t <= Len(m[b]) /\ Len(m[b]) \in Nat
  <2>1. /\ EntriesAt(k) \in Nat /\ t <= EntriesAt(k) /\ t \in Nat /\ h \in Nat
        /\ End(k) \in Nat /\ EntriesAt(k) <= End(k)
    BY <1>1, PlacesFacts
  <2> QED
    BY <1>1, <2>1
<1>5. /\ \A j \in 1..Len(name) : LowerOf(m[b][off + j]) = LowerOf(name[j])
      /\ \A j \in 1..Len(value) : m[b][off + Len(name) + j] = value[j]
  BY <1>1 DEF Contents, Spells
<1>6. /\ e.name = At(b, off) /\ e.name_len = Len(name)
      /\ e.value = At(b, off + Len(name)) /\ e.value_len = Len(value)
  BY DEF Entry
<1> DEFINE c == Cells(m, At(b, off), Len(name))
<1> HIDE DEF off, t, h, name, value, e, b, k
<1>7. IsSequence(c) /\ Len(c) = Len(name) /\ \A j \in 1..Len(name) : c[j] = m[b][off + j]
  <2>1. off + Len(name) <= Len(m[b])
    BY <1>2, <1>3, <1>4
  <2> QED
    BY <1>1, <1>2, <1>3, <2>1, CellsFacts, SMTT(30)
<1> HIDE DEF c
<1>8. \A j \in 1..Len(name) : LowerOf(c[j]) = LowerOf(name[j])
  BY <1>5, <1>7
<1>9. Lowered(c) = Lowered(name)
  BY <1>3, <1>7, <1>8, LoweredAlike
<1>10. Cells(m, At(b, off + Len(name)), Len(value)) = value
  <2> DEFINE o == off + Len(name)
  <2>1. o \in Nat /\ o + Len(value) <= Len(m[b]) /\ \A j \in 1..Len(value) : m[b][o + j] = value[j]
    <3>1. o \in Nat /\ o + Len(value) <= Len(m[b])
      BY <1>2, <1>3, <1>4
    <3> QED
      BY <1>5, <3>1
  <2> HIDE DEF o
  <2>2. Cells(m, At(b, o), Len(value)) = value
    BY <1>1, <1>3, <2>1, CellsAre
  <2> QED
    BY <2>2 DEF o
<1> QED
  BY <1>6, <1>7, <1>8, <1>9, <1>10 DEF name, value, off, c, e, b, k

\* A text contains a token where one of its characters is that token.
LEMMA TokenOccurs ==
  ASSUME NEW t, IsSequence(t), NEW token
  PROVE  Occurrences(<<token>>, t) # {} <=> \E j \in DOMAIN t : t[j] = token
<1>1. Len(t) \in Nat /\ DOMAIN t = 1..Len(t)
  BY SequenceFacts
<1> DEFINE one == <<token>>
<1>2. Len(one) = 1 /\ one[1] = token
  OBVIOUS
<1>3. ASSUME NEW i \in 1..Len(t) PROVE SubSeq(t, i, i + 1 - 1) = one <=> t[i] = token
  <2> DEFINE a == i - 1
             s == SubSeq(t, i, i + 1 - 1)
  <2>1. a \in Nat /\ 1 \in Nat /\ a + 1 <= Len(t) /\ a + 1 = i /\ i + 1 - 1 = a + 1
    BY <1>1
  <2> HIDE DEF a
  <2>2. s = SubSeq(t, a + 1, a + 1)
    BY <2>1
  <2> HIDE DEF s
  <2>3. IsSequence(s) /\ Len(s) = 1 /\ \A j \in 1..1 : s[j] = t[a + j]
    BY <2>1, <2>2, Cut
  <2>4. 1 \in 1..1
    OBVIOUS
  <2>5. s[1] = t[i]
    BY <2>1, <2>3, <2>4
  <2>6. IsSequence(one)
    <3>1. one \in Seq({token})
      OBVIOUS
    <3> QED
      BY <3>1, SequenceOf
  <2> HIDE DEF one
  <2>7. t[i] = token => s = one
    <3>1. t[i] = token => \A j \in 1..Len(s) : s[j] = one[j]
      BY <1>2, <2>3, <2>5
    <3> QED
      BY <1>2, <2>3, <2>6, <3>1, EqualSequences
  <2>8. s = one => t[i] = token
    BY <1>2, <2>5
  <2> QED
    BY <2>7, <2>8 DEF s
<1>4. Occurrences(one, t) = {i \in 1..Len(t) : SubSeq(t, i, i + 1 - 1) = one}
  <2>1. Len(t) - 1 + 1 = Len(t)
    BY <1>1
  <2> HIDE DEF one
  <2> QED
    BY <1>2, <2>1 DEF Occurrences
<1> QED
  BY <1>1, <1>3, <1>4

\* The decision on the connection is the one the client asked for.
LEMMA KeepAliveAsked ==
  ASSUME NEW m, IsMemory(m), NEW r, Holds(m, r)
  PROVE  KeepAlive(m, r) = AsksKeepAlive(r.spec)
<1> DEFINE k == r.spec
           b == r.buffer
           n == Len(k.headers)
           headers == StructsAt(m, r.headers, r.num_headers)
           named == {i \in DOMAIN headers :
                       Lowered(Cells(m, headers[i].name, headers[i].name_len))
                         = Lowered(Connection)}
           asked == {i \in DOMAIN k.headers :
                       Lowered(k.headers[i].name) = Lowered(Connection)}
           says(token) == /\ named # {}
                          /\ LET header == headers[Min(named)]
                             IN Occurrences(<<token>>,
                                            Cells(m, header.value, header.value_len)) # {}
           asks(token) == asked # {} /\ \E j \in DOMAIN k.headers[Min(asked)].value :
                                          k.headers[Min(asked)].value[j] = token
<1>1. /\ k \in Requests /\ r.minor_version = k.minor_version
  BY DEF Holds, Placed, Points
<1>2. headers = Entries(k, b)
  BY HeldEntries
<1>3. n \in Nat /\ DOMAIN k.headers = 1..n /\ DOMAIN headers = 1..n
  BY <1>1, <1>2, TargetSequence, SequenceFacts DEF Entries
<1>4. ASSUME NEW i \in 1..n
      PROVE  /\ Lowered(Cells(m, headers[i].name, headers[i].name_len))
                  = Lowered(k.headers[i].name)
             /\ Cells(m, headers[i].value, headers[i].value_len) = k.headers[i].value
             /\ IsSequence(k.headers[i].value)
  <2>1. headers[i] = Entry(k, i, b)
    BY <1>2 DEF Entries
  <2>2. IsSequence(k.headers[i].value)
    BY <1>1, LineFacts
  <2> DEFINE e == Entry(k, i, b)
  <2>3. /\ Lowered(Cells(m, e.name, e.name_len)) = Lowered(k.headers[i].name)
        /\ Cells(m, e.value, e.value_len) = k.headers[i].value
    BY HeaderRead
  <2> HIDE DEF e, headers
  <2> QED
    BY <2>1, <2>2, <2>3 DEF e
<1> HIDE DEF headers
<1>5. named = asked
  BY <1>3, <1>4
<1>6. asked \in SUBSET (1..n)
  BY <1>3
<1>7. asked # {} => Min(asked) \in 1..n
  <2> HIDE DEF asked
  <2>1. ASSUME asked # {} PROVE Min(asked) \in asked
    <3>1. asked \in SUBSET Nat
      BY <1>6
    <3>2. \E i \in asked : \A j \in asked : i <= j
      BY <2>1, <3>1, LeastOf
    <3> QED
      BY <3>2 DEF Min
  <2> QED
    BY <1>6, <2>1
<1>8. ASSUME NEW token PROVE says(token) = asks(token)
  <2> DEFINE i == Min(asked)
             v == k.headers[i].value
  <2>1. says(token) <=> /\ asked # {}
                        /\ Occurrences(<<token>>, Cells(m, headers[i].value, headers[i].value_len)) # {}
    BY <1>5
  <2> HIDE DEF named, asked, says
  <2>2. ASSUME asked = {} PROVE says(token) <=> asks(token)
    BY <2>1, <2>2
  <2>3. ASSUME asked # {} PROVE says(token) <=> asks(token)
    <3>1. i \in 1..n
      BY <1>7, <2>3
    <3>2. Cells(m, headers[i].value, headers[i].value_len) = v /\ IsSequence(v)
      BY <1>4, <3>1
    <3>3. Occurrences(<<token>>, v) # {} <=> \E j \in DOMAIN v : v[j] = token
      BY <3>2, TokenOccurs
    <3> QED
      BY <2>1, <2>3, <3>2, <3>3
  <2>4. says(token) <=> asks(token)
    BY <2>2, <2>3
  <2>5. says(token) \in BOOLEAN /\ asks(token) \in BOOLEAN
    BY DEF says
  <2> HIDE DEF says, asks
  <2>6. CASE says(token) = TRUE
    BY <2>4, <2>5, <2>6
  <2>7. CASE says(token) = FALSE
    BY <2>4, <2>5, <2>7
  <2> QED
    BY <2>5, <2>6, <2>7
<1>9. KeepAlive(m, r) = IF r.minor_version = 0 THEN says(KeepAliveToken) ELSE ~says(CloseToken)
  BY DEF KeepAlive, headers
<1>10. AsksKeepAlive(k) = IF k.minor_version = 0 THEN asks(KeepAliveToken) ELSE ~asks(CloseToken)
  BY DEF AsksKeepAlive
<1> HIDE DEF says, asks, k
<1>11. says(KeepAliveToken) = asks(KeepAliveToken) /\ says(CloseToken) = asks(CloseToken)
  BY <1>8
<1>12. KeepAlive(m, r) = AsksKeepAlive(k)
  <2>1. CASE k.minor_version = 0
    <3>1. KeepAlive(m, r) = says(KeepAliveToken) /\ AsksKeepAlive(k) = asks(KeepAliveToken)
      BY <1>1, <1>9, <1>10, <2>1
    <3> QED
      BY <1>11, <3>1
  <2>2. CASE k.minor_version # 0
    BY <1>1, <1>9, <1>10, <1>11, <2>2
  <2> QED
    BY <2>1, <2>2
<1> QED
  BY <1>12 DEF k

(***************************************************************************)
(* The cache.                                                              *)
(***************************************************************************)

\* The bytes of a plain answer to a kept-alive HTTP/1.1 request.
Plain(body) ==
  [minor_version |-> 1, status |-> 200, connection |-> None,
   content_type |-> <<text_plain, utf8>>, headers |-> None, cookies |-> None, body |-> body]

\* Entries of the cache hold the bytes of their body.
Rendered(entries) ==
  /\ IsSequence(entries)
  /\ \A i \in 1..Len(entries) : entries[i].response_bytes = Plain(entries[i].body)

LEMMA CacheableBytes ==
  ASSUME NEW r, NEW simple, Response_cacheable(r, simple)
  PROVE  RenderFresh(r) = Plain(r.fields.body)
<1>1. /\ r.fields.code = None /\ r.fields.headers = None /\ r.fields.cookies = None
      /\ r.fields.mime_type = None /\ r.fields.encoding = None
      /\ r.fields.body # None /\ r.minor_version = 1 /\ r.keep_alive
  BY DEF Response_cacheable
<1>2. ConnectionHeader(r) = None
  BY <1>1 DEF ConnectionHeader
<1>3. ContentType(r.fields) = <<text_plain, utf8>>
  BY <1>1, ResponseAssumption DEF ContentType, First
<1> QED
  BY <1>1, <1>2, <1>3 DEF RenderFresh, Plain, First

\* What is rendered is what would be without the cache.
LEMMA RenderedFresh ==
  ASSUME Rendered(cache), NEW r, NEW simple
  PROVE  Response_render(r, simple) = RenderFresh(r)
<1> DEFINE body == r.fields.body
           S == Cached(body)
           i == CHOOSE n \in S : \A j \in S : n <= j
<1>1. CASE ~(Response_cacheable(r, simple) /\ S # {})
  BY <1>1 DEF Response_render
<1>2. CASE Response_cacheable(r, simple) /\ S # {}
  <2>1. S \in SUBSET Nat /\ \A n \in S : n \in 1..Len(cache) /\ cache[n].body = body
    BY DEF Cached
  <2> HIDE DEF S
  <2>2. \E n \in S : \A j \in S : n <= j
    BY <1>2, <2>1, LeastOf
  <2>3. i \in S
    BY <2>2
  <2> HIDE DEF i
  <2>4. cache[i].response_bytes = Plain(body)
    BY <2>1, <2>3 DEF Rendered
  <2>5. Response_render(r, simple) = cache[i].response_bytes
    BY <1>2 DEF Response_render, Response_from_cache, S, i
  <2> QED
    BY <1>2, <2>4, <2>5, CacheableBytes
<1> QED
  BY <1>1, <1>2

LEMMA StaysRendered ==
  ASSUME Rendered(cache), NEW r, NEW simple
  PROVE  Rendered(Response_cache(r, simple))
<1> DEFINE e == [body |-> r.fields.body, response_bytes |-> RenderFresh(r)]
           l == Append(cache, e)
<1>1. CASE Response_cache(r, simple) = cache
  BY <1>1
<1>2. CASE Response_cache(r, simple) # cache
  <2>1. Response_cache(r, simple) = l /\ Response_cacheable(r, simple)
    BY <1>2 DEF Response_cache
  <2>2. e.response_bytes = Plain(e.body)
    BY <2>1, CacheableBytes
  <2>3. IsSequence(cache)
    BY DEF Rendered
  <2> HIDE DEF e
  <2>4. /\ IsSequence(l) /\ Len(l) = Len(cache) + 1 /\ Len(cache) \in Nat
        /\ \A i \in 1..Len(cache) : l[i] = cache[i]
        /\ l[Len(cache) + 1] = e
    BY <2>3, Added
  <2> HIDE DEF l
  <2>5. \A i \in 1..Len(l) : i \in 1..Len(cache) \/ i = Len(cache) + 1
    BY <2>4
  <2>6. Rendered(l)
    BY <2>2, <2>4, <2>5 DEF Rendered
  <2> QED
    BY <2>1, <2>6
<1> QED
  BY <1>1, <1>2

(***************************************************************************)
(* What is written.                                                        *)
(***************************************************************************)

\* A request's answer is framed as its client asked.
Own(r) == r.response = Request_Response(r.answer, r.spec.minor_version, AsksKeepAlive(r.spec))

OwnAnswer(r) == r.response # None => Own(r)

LEMMA SameAnswerOwn ==
  ASSUME NEW r, OwnAnswer(r), NEW q, SameAnswer(q, r)
  PROVE  OwnAnswer(q)
BY DEF OwnAnswer, Own, SameAnswer

LEMMA AnsweredFields ==
  ASSUME NEW m, NEW r, IsRequest(r), NEW args
  PROVE  LET q == Answered(m, r, args)
         IN  /\ SameHead(q, r) /\ IsRequest(q) /\ q.simple = r.simple
             /\ q.answer = args
             /\ q.response = Request_Response(args, r.minor_version, KeepAlive(m, r))
BY DEF Answered, SameHead, IsRequest, Fields

LEMMA AnswersOwn ==
  ASSUME NEW m, IsMemory(m), NEW r, IsRequest(r), Holds(m, r), NEW args
  PROVE  Own(Answered(m, r, args))
<1> DEFINE q == Answered(m, r, args)
<1>1. /\ q.spec = r.spec /\ q.answer = args
      /\ q.response = Request_Response(args, r.minor_version, KeepAlive(m, r))
  BY AnsweredFields DEF SameHead
<1>2. KeepAlive(m, r) = AsksKeepAlive(r.spec) /\ r.minor_version = r.spec.minor_version
  BY KeepAliveAsked DEF Holds, Placed, Points
<1> HIDE DEF q
<1> QED
  BY <1>1, <1>2 DEF Own, q

\* The bytes of an answer, or of the 404 page for a request that has none.
LEMMA WrittenForItself ==
  ASSUME NEW m, IsMemory(m), NEW r, IsRequest(r), Holds(m, r), OwnAnswer(r),
         Rendered(cache), Write(m, r)
  PROVE  AnsweredForItself' /\ Rendered(cache')
<1> DEFINE a == Answered(m, r, NotFound)
           ready == IF r.response # None THEN r ELSE [a EXCEPT !.simple = FALSE]
<1>1. Own(a) /\ IsRequest(a)
  BY AnswersOwn, AnsweredFields
<1> HIDE DEF a
<1>3. Own(ready)
  BY <1>1 DEF OwnAnswer, Own, IsRequest, Fields
<1>4. /\ sent' = [spec |-> ready.spec, answer |-> ready.answer, simple |-> ready.simple,
                  bytes |-> Response_render(ready.response, ready.simple)]
      /\ cache' = Response_cache(ready.response, ready.simple)
  BY DEF Write, a
<1> HIDE DEF ready
<1>5. Rendered(cache')
  BY <1>4, StaysRendered
<1>6. sent'.bytes = RenderFresh(Request_Response(ready.answer, ready.spec.minor_version,
                                                 AsksKeepAlive(ready.spec)))
  BY <1>3, <1>4, RenderedFresh DEF Own
<1>7. sent'.answer = ready.answer /\ sent'.spec = ready.spec
  BY <1>4
<1> QED
  BY <1>5, <1>6, <1>7 DEF AnsweredForItself

LEMMA BlankFacts ==
  ASSUME NEW n \in Nat
  PROVE  IsSequence(Blank(n)) /\ Len(Blank(n)) = n
<1> DEFINE f == Blank(n)
<1>1. f = [i \in 1..n |-> f[i]]
  BY DEF Blank
<1> HIDE DEF f
<1>2. IsSequence(f) /\ Len(f) = n
  BY <1>1, FunctionSequence
<1> QED
  BY <1>2 DEF f

(***************************************************************************)
(* A target as clients write it, decoded.                                  *)
(***************************************************************************)
Coded(t) ==
  IF t.encoded THEN LET d == CHOOSE d \in DOMAIN HexByte : HexByte[d] = t.char
                    IN <<Percent, d[1], d[2]>>
  ELSE <<t.char>>

Codes(ts) == [i \in 1..Len(ts) |-> Coded(ts[i])]

\* A character as clients write it, in a text that is decoded up to stop.
Written(t, stop) ==
  IF t.encoded THEN \E d \in DOMAIN HexByte : HexByte[d] = t.char
  ELSE t.char # stop

\* What a text may be decoded up to.
Stops == {Question, None}

\* No '%' that stands for itself has the two digits of an escape behind it.
Unmistaken(ts) ==
  \A i \in 1..Len(ts) :
    ~ts[i].encoded /\ ts[i].char = Percent /\ i + 2 \in 1..Len(ts)
      => \/ ts[i + 1].encoded \/ ts[i + 2].encoded
         \/ <<ts[i + 1].char, ts[i + 2].char>> \notin DOMAIN HexByte

\* c is how t is written: its character, which is not stop, or three that encode it.
CodeOf(c, t, stop) ==
  IF t.encoded
  THEN /\ Len(c) = 3 /\ c[1] = Percent /\ <<c[2], c[3]>> \in DOMAIN HexByte
       /\ HexByte[<<c[2], c[3]>>] = t.char
  ELSE Len(c) = 1 /\ c[1] = t.char /\ t.char # stop

LEMMA Digits ==
  ASSUME NEW u, NEW v, <<u, v>> \in DOMAIN HexByte
  PROVE  u \notin Stops \cup {Percent} /\ v \notin Stops \cup {Percent}
<1> DEFINE d == <<u, v>>
<1>1. d[1] = u /\ d[2] = v /\ d \in DOMAIN HexByte
  OBVIOUS
<1> HIDE DEF d
<1>2. {d[1], d[2]} \cap {Percent, Question, None} = {}
  BY <1>1, TargetAssumption
<1> QED
  BY <1>1, <1>2 DEF Stops

LEMMA CodedIs ==
  ASSUME NEW t, NEW stop, Written(t, stop)
  PROVE  IsSequence(Coded(t)) /\ CodeOf(Coded(t), t, stop)
<1>1. CASE ~t.encoded
  <2>1. Coded(t) = <<t.char>> /\ t.char # stop
    BY <1>1 DEF Coded, Written
  <2> QED
    BY <1>1, <2>1, One DEF CodeOf
<1>2. CASE t.encoded
  <2> DEFINE d == CHOOSE d \in DOMAIN HexByte : HexByte[d] = t.char
  <2>1. d \in DOMAIN HexByte /\ HexByte[d] = t.char
    BY <1>2 DEF Written
  <2>2. Coded(t) = <<Percent, d[1], d[2]>>
    BY <1>2 DEF Coded
  <2> HIDE DEF d
  <2>3. d = <<d[1], d[2]>>
    BY <2>1, TargetAssumption
  <2> DEFINE u == d[1]
             v == d[2]
             c == <<Percent, u, v>>
  <2>4. IsSequence(c) /\ Len(c) = 3 /\ c[1] = Percent /\ c[2] = u /\ c[3] = v
    <3> HIDE DEF u, v
    <3>1. c \in Seq({Percent, u, v})
      OBVIOUS
    <3> QED
      BY <3>1, SequenceOf
  <2>5. <<u, v>> \in DOMAIN HexByte /\ HexByte[<<u, v>>] = t.char
    BY <2>1, <2>3
  <2>6. Coded(t) = c
    BY <2>2
  <2> HIDE DEF u, v, c
  <2> QED
    BY <1>2, <2>4, <2>5, <2>6 DEF CodeOf
<1> QED
  BY <1>1, <1>2

LEMMA RawCuts ==
  ASSUME NEW ts, IsSequence(ts), NEW stop, \A i \in 1..Len(ts) : Written(ts[i], stop)
  PROVE  /\ IsSequence(Raw(ts))
         /\ \A i \in 1..Len(ts) : CodeOf(Codes(ts)[i], ts[i], stop)
         /\ \E P : /\ Cuts(P, Codes(ts), Len(ts), Raw(ts)) /\ P[Len(ts)] = Len(Raw(ts))
                   /\ \A i \in 0..Len(ts) : P[i] \in Nat /\ P[i] <= Len(Raw(ts))
<1> DEFINE n == Len(ts)
           ss == Codes(ts)
           text == Raw(ts)
<1>1. n \in Nat /\ DOMAIN ts = 1..n
  BY SequenceFacts
<1>2. text = FlattenSeq(ss)
  BY <1>1 DEF Raw, Codes, Coded
<1>3. ss = [i \in 1..n |-> ss[i]] /\ \A i \in 1..n : ss[i] = Coded(ts[i])
  BY DEF Codes
<1> HIDE DEF ss
<1>4. \A i \in 1..n : IsSequence(ss[i]) /\ CodeOf(ss[i], ts[i], stop)
  BY <1>3, CodedIs
<1>5. IsSequence(ss) /\ Len(ss) = n
  BY <1>1, <1>3, FunctionSequence
<1> HIDE DEF n
<1>6. IsSequence(text)
  BY RawSequence
<1> HIDE DEF text
<1>7. \A i \in 1..Len(ss) : IsSequence(ss[i])
  BY <1>4, <1>5
<1>8. \E P : /\ Cuts(P, ss, Len(ss), text) /\ P[Len(ss)] = Len(text)
             /\ \A i \in 0..Len(ss) : P[i] \in Nat /\ P[i] <= Len(text)
  BY <1>2, <1>5, <1>7, JoinCuts
<1> QED
  BY <1>4, <1>5, <1>6, <1>8 DEF ss, text, n

\* The characters behind the first l.
Tailed(ts, l) == [x \in 1..(Len(ts) - l) |-> ts[l + x].char]

LEMMA TailedFacts ==
  ASSUME NEW ts, IsSequence(ts), NEW l \in 0..Len(ts)
  PROVE  /\ IsSequence(Tailed(ts, l)) /\ Len(Tailed(ts, l)) = Len(ts) - l
         /\ \A x \in 1..(Len(ts) - l) : Tailed(ts, l)[x] = ts[l + x].char
<1> DEFINE n == Len(ts) - l
           f == Tailed(ts, l)
<1>1. n \in Nat
  BY SequenceFacts
<1>2. f = [x \in 1..n |-> f[x]] /\ \A x \in 1..n : f[x] = ts[l + x].char
  BY DEF Tailed
<1> HIDE DEF f, n
<1>3. IsSequence(f) /\ Len(f) = n
  BY <1>1, <1>2, FunctionSequence
<1> QED
  BY <1>2, <1>3 DEF f, n

LEMMA TailedMore ==
  ASSUME NEW ts, IsSequence(ts), NEW l \in 1..Len(ts)
  PROVE  <<ts[l].char>> \o Tailed(ts, l) = Tailed(ts, l - 1)
<1> DEFINE n == Len(ts)
           e == ts[l].char
           k == l - 1
           t == Tailed(ts, l)
           s == Tailed(ts, k)
           u == <<e>> \o t
<1>1. n \in Nat /\ l \in 0..n /\ k \in 0..n /\ k + 1 = l /\ l \in Nat
  BY SequenceFacts
<1> HIDE DEF k
<1>2. IsSequence(t) /\ Len(t) = n - l /\ \A x \in 1..(n - l) : t[x] = ts[l + x].char
  BY <1>1, TailedFacts
<1>3. IsSequence(s) /\ Len(s) = n - k /\ \A x \in 1..(n - k) : s[x] = ts[k + x].char
  BY <1>1, TailedFacts
<1> HIDE DEF s, t, n
<1>4. /\ IsSequence(u) /\ Len(u) = Len(t) + 1 /\ u[1] = e
      /\ \A i \in 1..Len(t) : u[i + 1] = t[i]
  BY <1>2, InFront
<1> HIDE DEF u
<1>5. Len(u) = Len(s)
  BY <1>1, <1>2, <1>3, <1>4
<1>6. ASSUME NEW x \in 1..Len(u) PROVE u[x] = s[x]
  <2>1. x \in 1..(n - k)
    BY <1>3, <1>5
  <2>2. s[x] = ts[k + x].char
    BY <1>3, <2>1
  <2>3. CASE x = 1
    BY <1>1, <1>4, <2>2, <2>3 DEF e
  <2>4. CASE x # 1
    <3> DEFINE y == x - 1
    <3>1. y \in 1..(n - l) /\ y + 1 = x /\ k + x = l + y
      BY <1>1, <2>1, <2>4
    <3> HIDE DEF y
    <3>2. u[y + 1] = t[y] /\ t[y] = ts[l + y].char
      BY <1>2, <1>4, <3>1
    <3> QED
      BY <2>2, <3>1, <3>2
  <2> QED
    BY <2>3, <2>4
<1>7. u = s
  BY <1>3, <1>4, <1>5, <1>6, EqualSequences
<1> QED
  BY <1>7 DEF u, s, e, k, t

\* In s, the characters of ts are written one after another, the x-th of them by ss[x]
\* up to P[x], as text; e more characters follow, of which stop is the first.
Laid(ts, ss, stop, text, P, s, e) ==
  /\ \A x \in 1..Len(ts) : CodeOf(ss[x], ts[x], stop)
  /\ Len(text) \in Nat /\ e \in Nat
  /\ Cuts(P, ss, Len(ts), text) /\ P[Len(ts)] = Len(text)
  /\ \A x \in 0..Len(ts) : P[x] \in Nat /\ P[x] <= Len(text)
  /\ Len(s) = Len(text) + e
  /\ \A x \in 1..Len(text) : s[x] = text[x]
  /\ e # 0 => s[Len(text) + 1] = stop

\* A '%' that stands for itself is not the first of three characters of an escape:
\* before one of the next two comes another '%', or the end, or stop.
LEMMA PercentAlone ==
  ASSUME NEW ts, IsSequence(ts), NEW stop \in Stops, Unmistaken(ts),
         NEW ss, NEW text, NEW P, NEW s, NEW e, Laid(ts, ss, stop, text, P, s, e),
         NEW i \in 1..Len(ts), ~ts[i].encoded, ts[i].char = Percent
  PROVE  ~(P[i - 1] + 3 <= Len(s) /\ <<s[P[i - 1] + 2], s[P[i - 1] + 3]>> \in DOMAIN HexByte)
<1> SUFFICES ASSUME P[i - 1] + 3 <= Len(s),
                    <<s[P[i - 1] + 2], s[P[i - 1] + 3]>> \in DOMAIN HexByte
             PROVE  FALSE
  OBVIOUS
<1>0. /\ \A x \in 1..Len(ts) : CodeOf(ss[x], ts[x], stop)
      /\ Len(text) \in Nat /\ e \in Nat
      /\ Cuts(P, ss, Len(ts), text) /\ P[Len(ts)] = Len(text)
      /\ \A x \in 0..Len(ts) : P[x] \in Nat /\ P[x] <= Len(text)
      /\ Len(s) = Len(text) + e
      /\ \A x \in 1..Len(text) : s[x] = text[x]
      /\ e # 0 => s[Len(text) + 1] = stop
  BY DEF Laid
<1> DEFINE n == Len(ts)
           l == Len(text)
           p == P[i - 1]
           u == s[p + 2]
           v == s[p + 3]
           lead(x) == IF ts[x].encoded THEN Percent ELSE ts[x].char
<1>1. n \in Nat /\ i \in 1..n
  BY SequenceFacts
<1>2. <<u, v>> \in DOMAIN HexByte /\ p + 3 <= l + e
  BY <1>0
<1>3. {u, v} \cap (Stops \cup {Percent}) = {}
  <2> HIDE DEF u, v
  <2> QED
    BY <1>2, Digits
<1>4. ASSUME NEW x \in 1..n
      PROVE  /\ s[P[x - 1] + 1] = lead(x)
             /\ ~ts[x].encoded => P[x] = P[x - 1] + 1
             /\ P[x - 1] \in Nat
  <2> DEFINE c == ss[x]
             q == P[x - 1]
  <2>1. P[x] = q + Len(c) /\ \A y \in 1..Len(c) : text[q + y] = c[y]
    BY <1>0 DEF Cuts
  <2>2. CodeOf(c, ts[x], stop)
    BY <1>0
  <2> HIDE DEF c
  <2>3. c[1] = lead(x) /\ Len(c) \in {1, 3} /\ (~ts[x].encoded => Len(c) = 1)
    BY <2>2 DEF CodeOf
  <2>4. x - 1 \in 0..n /\ x \in 0..n
    <3>1. n \in Nat
      BY <1>1
    <3> HIDE DEF n
    <3> QED
      BY <3>1
  <2>5. q \in Nat /\ P[x] \in Nat /\ P[x] <= l
    BY <1>0, <2>4
  <2> HIDE DEF q
  <2>6. q + 1 \in 1..l
    BY <2>1, <2>3, <2>5
  <2>7. text[q + 1] = c[1]
    <3>1. 1 \in 1..Len(c)
      BY <2>3
    <3> QED
      BY <2>1, <3>1
  <2>8. s[q + 1] = text[q + 1]
    BY <1>0, <2>6
  <2> QED
    BY <2>1, <2>3, <2>5, <2>7, <2>8 DEF q
<1>5. P[i] = p + 1 /\ p \in Nat
  BY <1>1, <1>4
<1> HIDE DEF lead, u, v, p
<1>6. l \in Nat /\ e \in Nat /\ P[n] = l /\ (e # 0 => s[l + 1] = stop)
  BY <1>0
<1> HIDE DEF n, l
<1>7. CASE i = n
  <2>1. l = p + 1
    BY <1>5, <1>6, <1>7
  <2>a. l + 1 = p + 2 /\ e # 0
    BY <1>2, <1>5, <1>6, <2>1
  <2>2. u = stop
    BY <1>6, <2>a DEF u
  <2> QED
    BY <1>3, <2>2
<1>8. CASE i # n
  <2> DEFINE g == i + 1
  <2>1. g \in 1..n /\ g - 1 = i
    BY <1>1, <1>8
  <2> HIDE DEF g
  <2>2. s[P[i] + 1] = lead(g) /\ (~ts[g].encoded => P[g] = P[i] + 1)
    BY <1>4, <2>1
  <2>3. u = lead(g)
    <3>1. P[i] + 1 = p + 2
      BY <1>5
    <3> QED
      BY <2>2, <3>1 DEF u
  <2>4. ~ts[g].encoded /\ u = ts[g].char
    BY <1>3, <2>3 DEF lead
  <2>5. P[g] = p + 2
    BY <1>5, <2>2, <2>4
  <2>6. CASE g = n
    <3>1. l + 1 = p + 3 /\ e # 0
      BY <1>2, <1>5, <1>6, <2>5, <2>6
    <3>2. v = stop
      BY <1>6, <3>1 DEF v
    <3> QED
      BY <1>3, <3>2
  <2>7. CASE g # n
    <3> DEFINE h == g + 1
    <3>1. h \in 1..n /\ h - 1 = g /\ g = i + 1 /\ h = i + 2
      BY <1>1, <2>1, <2>7
    <3> HIDE DEF h
    <3>2. s[P[g] + 1] = lead(h)
      BY <1>4, <3>1
    <3>3. v = lead(h)
      <4>1. P[g] + 1 = p + 3
        BY <1>5, <2>5
      <4> QED
        BY <3>2, <4>1 DEF v
    <3>4. ~ts[h].encoded /\ v = ts[h].char
      BY <1>3, <3>3 DEF lead
    <3>5. ts[g].encoded \/ ts[h].encoded \/ <<ts[g].char, ts[h].char>> \notin DOMAIN HexByte
      BY <3>1 DEF Unmistaken, n
    <3> QED
      BY <1>2, <2>4, <3>4, <3>5
  <2> QED
    BY <2>6, <2>7
<1> QED
  BY <1>7, <1>8

LEMMA DecodeOne ==
  ASSUME NEW s, Len(s) \in Nat, NEW stop \in Stops, NEW c, NEW t,
         CodeOf(c, t, stop), NEW p \in Nat, p + Len(c) <= Len(s),
         \A x \in 1..Len(c) : s[p + x] = c[x], NEW f,
         ~t.encoded /\ t.char = Percent
           => ~(p + 3 <= Len(s) /\ <<s[p + 2], s[p + 3]>> \in DOMAIN HexByte)
  PROVE  DecodeStep(f, p + 1, s, stop) = Prefixed(f[p + Len(c) + 1], t.char)
<1> DEFINE i == p + 1
           n == Len(s)
           char == t.char
<1>0. Percent # stop
  BY TargetAssumption DEF Stops
<1>1. CASE ~t.encoded
  <2>0. Len(c) = 1 /\ c[1] = char /\ char # stop
    BY <1>1 DEF CodeOf
  <2>1. i <= n /\ p + Len(c) + 1 = i + 1 /\ 1 \in 1..Len(c) /\ i \in Nat
    BY <2>0
  <2>2. s[i] = char
    BY <2>0, <2>1
  <2>a. p + 3 = i + 2 /\ p + 2 = i + 1
    OBVIOUS
  <2>3. /\ ~(i > n) /\ s[i] # stop
        /\ ~(/\ i + 2 <= n /\ s[i] = Percent /\ <<s[i + 1], s[i + 2]>> \in DOMAIN HexByte)
    <3> HIDE DEF i
    <3>1. ~(i > n) /\ s[i] # stop
      BY <2>0, <2>1, <2>2
    <3>2. s[i] = Percent => ~(i + 2 <= n /\ <<s[i + 1], s[i + 2]>> \in DOMAIN HexByte)
      BY <1>1, <2>2, <2>a
    <3> QED
      BY <3>1, <3>2
  <2> HIDE DEF i
  <2>4. DecodeStep(f, i, s, stop) = Prefixed(f[i + 1], s[i])
    BY <2>3 DEF DecodeStep, n
  <2> QED
    BY <2>1, <2>2, <2>4 DEF i
<1>2. CASE t.encoded
  <2>0. /\ Len(c) = 3 /\ c[1] = Percent /\ <<c[2], c[3]>> \in DOMAIN HexByte
        /\ HexByte[<<c[2], c[3]>>] = char
    BY <1>2 DEF CodeOf
  <2>1. /\ i <= n /\ p + Len(c) + 1 = i + 3 /\ i \in Nat /\ i + 2 <= n
        /\ p + 1 = i /\ p + 2 = i + 1 /\ p + 3 = i + 2
        /\ 1 \in 1..Len(c) /\ 2 \in 1..Len(c) /\ 3 \in 1..Len(c)
    BY <2>0
  <2>2. s[p + 1] = c[1] /\ s[p + 2] = c[2] /\ s[p + 3] = c[3]
    <3> HIDE DEF i, n
    <3> QED
      BY <2>1
  <2> HIDE DEF i
  <2>3. s[i] = Percent /\ s[i + 1] = c[2] /\ s[i + 2] = c[3]
    BY <2>0, <2>1, <2>2
  <2>4. ~(i > n) /\ s[i] # stop /\ i + 2 <= n /\ <<s[i + 1], s[i + 2]>> \in DOMAIN HexByte
    BY <1>0, <2>0, <2>1, <2>3
  <2>5. DecodeStep(f, i, s, stop) = Prefixed(f[i + 3], HexByte[<<s[i + 1], s[i + 2]>>])
    BY <2>3, <2>4 DEF DecodeStep, n
  <2> QED
    BY <2>0, <2>1, <2>3, <2>5 DEF i
<1> QED
  BY <1>1, <1>2

LEMMA DecodeEnd ==
  ASSUME NEW text, IsSequence(text), NEW tail, IsSequence(tail), NEW stop,
         tail # <<>> => tail[1] = stop, NEW f
  PROVE  DecodeStep(f, Len(text) + 1, text \o tail, stop) = [decoded |-> <<>>, rest |-> tail]
<1> DEFINE s == text \o tail
           l == Len(text)
           t == Len(tail)
           n == Len(s)
<1>1. /\ IsSequence(s) /\ Len(s) = Len(text) + Len(tail)
      /\ \A i \in 1..Len(text) : s[i] = text[i]
      /\ \A i \in 1..Len(tail) : s[Len(text) + i] = tail[i]
      /\ \A i \in 1..(Len(text) + Len(tail)) :
           s[i] = IF i <= Len(text) THEN text[i] ELSE tail[i - Len(text)]
  BY Joined
<1>2. l \in Nat /\ t \in Nat
  BY SequenceFacts
<1> HIDE DEF s
<1>3. CASE tail = <<>>
  <2>1. t = 0
    BY <1>3, EmptyIsSequence
  <2>2. l + 1 > Len(s)
    BY <1>1, <1>2, <2>1
  <2> QED
    BY <1>3, <2>2 DEF DecodeStep, s
<1>4. CASE tail # <<>>
  <2>1. t # 0
    BY <1>4, EmptyOnly
  <2>2. 1 \in 1..t
    BY <1>2, <2>1
  <2>3. s[l + 1] = stop
    BY <1>1, <1>4, <2>2
  <2>4. ~(l + 1 > n) /\ n = l + t
    BY <1>1, <1>2, <2>2
  <2> HIDE DEF n
  <2> DEFINE cut == SubSeq(s, l + 1, l + t)
  <2>5. IsSequence(cut) /\ Len(cut) = t /\ \A i \in 1..t : cut[i] = s[l + i]
    <3> HIDE DEF l, t
    <3>1. IsSequence(s) /\ l \in Nat /\ t \in Nat /\ l + t <= Len(s)
      BY <1>1, <1>2, <2>4 DEF n
    <3>2. /\ IsSequence(SubSeq(s, l + 1, l + t)) /\ Len(SubSeq(s, l + 1, l + t)) = t
          /\ \A i \in 1..t : SubSeq(s, l + 1, l + t)[i] = s[l + i]
      BY <3>1, Cut
    <3> QED
      BY <3>2
  <2>6. SubSeq(s, l + 1, n) = cut
    BY <2>4
  <2> HIDE DEF cut
  <2>7. \A i \in 1..Len(cut) : cut[i] = tail[i]
    BY <1>1, <2>5
  <2>8. cut = tail
    <3>1. Len(cut) = Len(tail)
      BY <2>5
    <3> QED
      BY <2>5, <2>7, <3>1, EqualSequences
  <2>9. DecodeStep(f, l + 1, s, stop) = [decoded |-> <<>>, rest |-> SubSeq(s, l + 1, n)]
    BY <2>3, <2>4 DEF DecodeStep, n
  <2> QED
    BY <2>6, <2>8, <2>9 DEF s
<1> QED
  BY <1>3, <1>4

LEMMA CharsTailed ==
  ASSUME NEW ts, IsSequence(ts)
  PROVE  /\ Chars(ts) = Tailed(ts, 0) /\ Tailed(ts, Len(ts)) = <<>>
         /\ IsSequence(Chars(ts)) /\ Len(Chars(ts)) = Len(ts)
<1> DEFINE n == Len(ts)
           f == Chars(ts)
           g == Tailed(ts, n)
<1>1. n \in Nat /\ DOMAIN ts = 1..n
  BY SequenceFacts
<1>2. n - 0 = n /\ \A x \in 1..n : 0 + x = x
  BY <1>1
<1>3. f = [x \in 1..n |-> ts[x].char]
  BY <1>1 DEF Chars
<1>4. Tailed(ts, 0) = [x \in 1..n |-> ts[x].char]
  BY <1>2 DEF Tailed
<1>5. f = [x \in 1..n |-> f[x]]
  BY <1>3
<1>6. 0 \in 0..n /\ n \in 0..n /\ n - n = 0
  BY <1>1
<1>7. IsSequence(g) /\ Len(g) = n - n
  BY <1>6, TailedFacts
<1> HIDE DEF n, f, g
<1>8. IsSequence(f) /\ Len(f) = n
  BY <1>1, <1>5, FunctionSequence
<1>9. g = <<>>
  BY <1>6, <1>7, EmptyOnly
<1> QED
  BY <1>3, <1>4, <1>8, <1>9 DEF n, f, g

LEMMA PrefixedIs ==
  ASSUME NEW e, NEW t, NEW u
  PROVE  Prefixed([decoded |-> t, rest |-> u], e) = [decoded |-> <<e>> \o t, rest |-> u]
<1> DEFINE x == [decoded |-> t, rest |-> u]
           s == <<e>> \o t
<1>1. x.decoded = t /\ x.rest = u /\ x = [decoded |-> t, rest |-> u]
  OBVIOUS
<1>2. Prefixed(x, e) = [x EXCEPT !.decoded = s]
  BY <1>1 DEF Prefixed
<1> HIDE DEF s
<1>3. Prefixed(x, e) = [decoded |-> s, rest |-> u]
  BY <1>2
<1> QED
  BY <1>3 DEF s

\* Decoded, a target's text gives its characters, and what follows is left as it is.
LEMMA RawDecoded ==
  ASSUME NEW ts, IsSequence(ts), NEW stop \in Stops, Unmistaken(ts),
         \A i \in 1..Len(ts) : Written(ts[i], stop),
         NEW tail, IsSequence(tail), tail # <<>> => tail[1] = stop
  PROVE  percent_decode(Raw(ts) \o tail, stop) = [decoded |-> Chars(ts), rest |-> tail]
<1> DEFINE n == Len(ts)
           text == Raw(ts)
           s == text \o tail
           l == Len(text)
           f == Decoder(s, stop)
           ss == Codes(ts)
<1>1. n \in Nat
  BY SequenceFacts
<1>2. /\ IsSequence(text)
      /\ \A i \in 1..n : CodeOf(ss[i], ts[i], stop)
      /\ \E P : /\ Cuts(P, ss, n, text) /\ P[n] = l
                /\ \A i \in 0..n : P[i] \in Nat /\ P[i] <= l
  BY RawCuts
<1>3. PICK P : /\ Cuts(P, ss, n, text) /\ P[n] = l
               /\ \A i \in 0..n : P[i] \in Nat /\ P[i] <= l
  BY <1>2
<1> HIDE DEF n, text, ss
<1>4. /\ IsSequence(s) /\ Len(s) = Len(text) + Len(tail)
      /\ \A i \in 1..Len(text) : s[i] = text[i]
      /\ Len(tail) # 0 => s[Len(text) + 1] = stop
  <2>1. /\ IsSequence(s) /\ Len(s) = Len(text) + Len(tail)
        /\ \A i \in 1..Len(text) : s[i] = text[i]
        /\ \A i \in 1..Len(tail) : s[Len(text) + i] = tail[i]
        /\ \A i \in 1..(Len(text) + Len(tail)) :
             s[i] = IF i <= Len(text) THEN text[i] ELSE tail[i - Len(text)]
    BY <1>2, Joined
  <2>2. Len(tail) \in Nat /\ (tail = <<>> => Len(tail) = 0)
    BY SequenceFacts
  <2>3. Len(tail) # 0 => 1 \in 1..Len(tail)
    BY <2>2
  <2> HIDE DEF s
  <2> QED
    BY <2>1, <2>2, <2>3
<1>5. l \in Nat /\ Len(tail) \in Nat /\ Len(s) \in Nat
  BY <1>2, <1>4, SequenceFacts
<1>6. DecodeStep(f, l + 1, s, stop) = [decoded |-> <<>>, rest |-> tail]
  BY <1>2, DecodeEnd
<1> HIDE DEF s
<1>7. /\ percent_decode(s, stop) = f[1]
      /\ \A i \in 1..(Len(s) + 3) : f[i] = DecodeStep(f, i, s, stop)
  BY <1>5, DecoderDecodes
<1> HIDE DEF f, l
<1> DEFINE Good(i) == f[P[i] + 1] = [decoded |-> Tailed(ts, i), rest |-> tail]
           S == {x \in Nat : x <= n => Good(n - x)}
<1>8. Good(n)
  <2>1. Tailed(ts, n) = <<>>
    BY CharsTailed DEF n
  <2>2. l + 1 \in 1..(Len(s) + 3)
    <3>1. Len(s) = l + Len(tail)
      BY <1>4 DEF l
    <3> QED
      BY <1>5, <3>1
  <2> QED
    BY <1>3, <1>6, <1>7, <2>1, <2>2
<1>9. ASSUME NEW i \in 1..n, Good(i) PROVE Good(i - 1)
  <2> DEFINE j == i - 1
             c == ss[i]
             a == Len(c)
             p == P[j]
             t == ts[i]
             e == t.char
  <2>1. /\ P[j] \in Nat /\ P[i] = P[j] + a
        /\ \A x \in 1..a : text[P[j] + x] = c[x]
    BY <1>3 DEF Cuts
  <2>2. i \in 0..n /\ j \in 0..n
    BY <1>1
  <2>3. P[i] <= l /\ CodeOf(c, t, stop)
    <3> HIDE DEF c, t
    <3>1. P[i] <= l
      BY <1>3, <2>2
    <3>2. CodeOf(c, t, stop)
      BY <1>2 DEF c, t
    <3> QED
      BY <3>1, <3>2
  <2>a. ~t.encoded /\ t.char = Percent
          => ~(p + 3 <= Len(s) /\ <<s[p + 2], s[p + 3]>> \in DOMAIN HexByte)
    <3>1. Laid(ts, ss, stop, text, P, s, Len(tail))
      BY <1>2, <1>3, <1>4, <1>5 DEF Laid, n, l
    <3> HIDE DEF text, ss, n, l, f, s
    <3> QED
      BY <1>1, <3>1, PercentAlone DEF n
  <2>4. <<e>> \o Tailed(ts, i) = Tailed(ts, j)
    BY TailedMore DEF n
  <2> HIDE DEF j
  <2>5. a \in Nat
    BY <2>3 DEF CodeOf
  <2> HIDE DEF t, c, a
  <2>6. l <= Len(s) /\ l = Len(text) /\ p \in Nat /\ p + a <= l
    <3>1. Len(s) = l + Len(tail) /\ l = Len(text)
      BY <1>4 DEF l
    <3> QED
      BY <1>5, <2>1, <2>3, <3>1
  <2>7. \A x \in 1..a : s[p + x] = c[x]
    <3> TAKE x \in 1..a
    <3>1. p + x \in 1..Len(text)
      <4> HIDE DEF p
      <4> QED
        BY <2>5, <2>6, <1>5
    <3> QED
      BY <1>4, <2>1, <3>1
  <2>8. P[i] + 1 = p + a + 1
    BY <2>1
  <2> HIDE DEF p
  <2>9. p + a <= Len(s)
    BY <1>5, <2>5, <2>6
  <2>b. ~t.encoded /\ t.char = Percent
          => ~(p + 3 <= Len(s) /\ <<s[p + 2], s[p + 3]>> \in DOMAIN HexByte)
    BY <2>a DEF p
  <2>10. DecodeStep(f, p + 1, s, stop) = Prefixed(f[p + a + 1], e)
    BY <1>5, <2>3, <2>6, <2>7, <2>9, <2>b, DecodeOne DEF a
  <2> HIDE DEF e
  <2>11. p + 1 \in 1..(Len(s) + 3)
    BY <1>5, <2>5, <2>6, <2>9
  <2>12. f[p + 1] = Prefixed([decoded |-> Tailed(ts, i), rest |-> tail], e)
    BY <1>7, <1>9, <2>8, <2>10, <2>11
  <2>13. f[p + 1] = [decoded |-> Tailed(ts, j), rest |-> tail]
    BY <2>4, <2>12, PrefixedIs, SMTT(30)
  <2> QED
    BY <2>13 DEF p, j
<1> HIDE DEF Good
<1>10. S = Nat
  <2>1. n - 0 = n
    BY <1>1
  <2>2. 0 \in S
    BY <1>8, <2>1
  <2>3. ASSUME NEW x \in S PROVE x + 1 \in S
    <3>1. x \in Nat
      OBVIOUS
    <3>2. ASSUME x + 1 <= n PROVE Good(n - (x + 1))
      <4> DEFINE i == n - x
      <4>1. i \in 1..n /\ i - 1 = n - (x + 1) /\ x <= n
        BY <1>1, <3>1, <3>2
      <4>2. Good(i)
        BY <4>1
      <4> HIDE DEF i
      <4>3. Good(i - 1)
        BY <1>9, <4>1, <4>2
      <4> QED
        BY <4>1, <4>3
    <3> QED
      BY <3>1, <3>2
  <2>4. S \in SUBSET Nat
    OBVIOUS
  <2> HIDE DEF S
  <2> QED
    BY <2>2, <2>3, <2>4, Induct
<1>11. Good(0)
  <2>1. n \in S
    <3> HIDE DEF S
    <3> QED
      BY <1>1, <1>10
  <2>2. n - n = 0 /\ n <= n
    BY <1>1
  <2> QED
    BY <2>1, <2>2
<1>12. P[0] = 0
  BY <1>3 DEF Cuts
<1>13. f[1] = [decoded |-> Tailed(ts, 0), rest |-> tail]
  <2>1. 0 + 1 = 1
    OBVIOUS
  <2> QED
    BY <1>11, <1>12, <2>1 DEF Good
<1>14. Chars(ts) = Tailed(ts, 0)
  BY CharsTailed
<1> QED
  BY <1>7, <1>13, <1>14 DEF s, text

LEMMA RequestTokens ==
  ASSUME NEW k \in Requests
  PROVE  /\ IsSequence(k.path) /\ IsSequence(k.qs)
         /\ \A i \in 1..Len(k.path) : Written(k.path[i], Question)
         /\ \A i \in 1..Len(k.qs) : Written(k.qs[i], None)
         /\ k.qs # <<>> => k.qs[1].char = Question /\ ~k.qs[1].encoded
         /\ Unmistaken(k.path) /\ Unmistaken(k.qs)
<1>1. IsSequence(k.path) /\ IsSequence(k.qs)
  BY SequenceAssumption
<1>2. /\ DOMAIN k.path = 1..Len(k.path) /\ DOMAIN k.qs = 1..Len(k.qs)
  BY <1>1, SequenceFacts
<1>3. \A i \in 1..Len(k.path) : k.path[i] \in ToSet(k.path)
  BY <1>2 DEF ToSet
<1>4. \A i \in 1..Len(k.qs) : k.qs[i] \in ToSet(k.qs)
  BY <1>2 DEF ToSet
<1>5. /\ \A t \in ToSet(k.path) \cup ToSet(k.qs) :
           IF t.encoded THEN \E d \in DOMAIN HexByte : HexByte[d] = t.char
           ELSE t.char # None
      /\ \A t \in ToSet(k.path) : t.char = Question => t.encoded
      /\ k.qs # <<>> => k.qs[1].char = Question /\ ~k.qs[1].encoded
  BY TargetAssumption
<1>6. ASSUME NEW i \in 1..Len(k.path) PROVE Written(k.path[i], Question)
  <2> DEFINE t == k.path[i]
  <2>1. t \in ToSet(k.path)
    BY <1>3
  <2> HIDE DEF t
  <2>2. /\ IF t.encoded THEN \E d \in DOMAIN HexByte : HexByte[d] = t.char
           ELSE t.char # None
        /\ t.char = Question => t.encoded
    BY <1>5, <2>1
  <2>3. Written(t, Question)
    BY <2>2 DEF Written
  <2> QED
    BY <2>3 DEF t
<1>7. ASSUME NEW i \in 1..Len(k.qs) PROVE Written(k.qs[i], None)
  <2> DEFINE t == k.qs[i]
  <2>1. t \in ToSet(k.qs)
    BY <1>4
  <2> HIDE DEF t
  <2>2. IF t.encoded THEN \E d \in DOMAIN HexByte : HexByte[d] = t.char
        ELSE t.char # None
    BY <1>5, <2>1
  <2>3. Written(t, None)
    BY <2>2 DEF Written
  <2> QED
    BY <2>3 DEF t
<1>8. ASSUME NEW ts \in {k.path, k.qs} PROVE Unmistaken(ts)
  <2>1. IsSequence(ts)
    BY <1>1
  <2>2. DOMAIN ts = 1..Len(ts)
    BY <2>1, SequenceFacts
  <2>3. \A i \in DOMAIN ts :
          ~ts[i].encoded /\ ts[i].char = Percent /\ i + 2 \in DOMAIN ts
            => \/ ts[i + 1].encoded \/ ts[i + 2].encoded
               \/ <<ts[i + 1].char, ts[i + 2].char>> \notin DOMAIN HexByte
    BY TargetAssumption
  <2> QED
    BY <2>2, <2>3 DEF Unmistaken
<1> QED
  BY <1>1, <1>5, <1>6, <1>7, <1>8

\* A raw query string begins with its '?', and is empty only when there is none.
LEMMA QsBegins ==
  ASSUME NEW k \in Requests
  PROVE  /\ IsSequence(Raw(k.qs)) /\ Len(Raw(k.qs)) \in Nat
         /\ k.qs = <<>> => Raw(k.qs) = <<>> /\ Len(Raw(k.qs)) = 0
         /\ k.qs # <<>> => Len(Raw(k.qs)) # 0 /\ Raw(k.qs)[1] = Question
<1> DEFINE ts == k.qs
           n == Len(ts)
           text == Raw(ts)
           ss == Codes(ts)
<1>1. /\ IsSequence(ts) /\ \A i \in 1..n : Written(ts[i], None)
      /\ ts # <<>> => ts[1].char = Question /\ ~ts[1].encoded
  BY RequestTokens
<1> HIDE DEF ts
<1>2. n \in Nat
  BY <1>1, SequenceFacts
<1>3. /\ IsSequence(text)
      /\ \E P : /\ Cuts(P, ss, n, text) /\ P[n] = Len(text)
                /\ \A i \in 0..n : P[i] \in Nat /\ P[i] <= Len(text)
  BY <1>1, RawCuts
<1> HIDE DEF text
<1>4. PICK P : /\ Cuts(P, ss, n, text) /\ P[n] = Len(text)
               /\ \A i \in 0..n : P[i] \in Nat /\ P[i] <= Len(text)
  BY <1>3
<1>5. P[0] = 0
  BY <1>4 DEF Cuts
<1>6. Len(text) \in Nat
  BY <1>3, SequenceFacts
<1>7. CASE ts = <<>>
  <2>1. n = 0
    BY <1>7, EmptyIsSequence
  <2>2. Len(text) = 0
    BY <1>4, <1>5, <2>1
  <2>3. text = <<>>
    BY <1>3, <2>2, EmptyOnly
  <2> QED
    BY <1>3, <1>6, <1>7, <2>2, <2>3 DEF ts, text
<1>8. CASE ts # <<>>
  <2> DEFINE h == 1
             z == h - 1
             c == ss[h]
             q == P[z]
             l == Len(text)
  <2>1. n # 0
    BY <1>1, <1>8, EmptyOnly
  <2>2. h \in 1..n /\ z = 0 /\ h \in 0..n
    BY <1>2, <2>1
  <2>3. c = <<Question>>
    <3>1. ss[h] = Coded(ts[h])
      <4> HIDE DEF h
      <4> QED
        BY <2>2 DEF Codes, n
    <3> QED
      BY <1>1, <1>8, <3>1 DEF Coded
  <2>4. P[h] \in Nat /\ P[h] <= l
    BY <1>4, <2>2
  <2> HIDE DEF h, n, l
  <2>5. /\ P[h] = P[z] + Len(c)
        /\ \A x \in 1..Len(c) : text[P[z] + x] = c[x]
    BY <1>4, <2>2 DEF Cuts
  <2>6. Len(c) = 1 /\ c[1] = Question
    <3> HIDE DEF c
    <3> QED
      BY <2>3, One
  <2> HIDE DEF c
  <2>7. q = 0
    BY <1>5, <2>2
  <2>8. text[0 + 1] = Question
    <3>1. 1 \in 1..Len(c)
      BY <2>6
    <3>2. text[q + 1] = c[1]
      BY <2>5, <3>1
    <3> QED
      BY <2>6, <2>7, <3>2
  <2>9. P[h] = 1
    BY <2>5, <2>6, <2>7
  <2>10. l # 0
    BY <2>4, <2>9
  <2>11. text[1] = Question
    <3>1. 0 + 1 = 1
      OBVIOUS
    <3> QED
      BY <2>8, <3>1
  <2> QED
    BY <1>3, <1>6, <1>8, <2>10, <2>11 DEF ts, text, l
<1> QED
  BY <1>7, <1>8

LEMMA TargetDecoded ==
  ASSUME NEW k \in Requests
  PROVE  /\ percent_decode(Target(k), Question) = [decoded |-> Chars(k.path), rest |-> Raw(k.qs)]
         /\ percent_decode(Raw(k.qs), None).decoded = Chars(k.qs)
<1>1. /\ IsSequence(k.path) /\ IsSequence(k.qs)
      /\ \A i \in 1..Len(k.path) : Written(k.path[i], Question)
      /\ \A i \in 1..Len(k.qs) : Written(k.qs[i], None)
      /\ Unmistaken(k.path) /\ Unmistaken(k.qs)
      /\ Question \in Stops /\ None \in Stops
  BY RequestTokens DEF Stops
<1>2. IsSequence(Raw(k.qs)) /\ (Raw(k.qs) # <<>> => Raw(k.qs)[1] = Question)
  BY QsBegins
<1>3. percent_decode(Target(k), Question) = [decoded |-> Chars(k.path), rest |-> Raw(k.qs)]
  <2> DEFINE tail == Raw(k.qs)
             ts == k.path
  <2>1. /\ IsSequence(ts) /\ \A i \in 1..Len(ts) : Written(ts[i], Question)
        /\ Unmistaken(ts)
        /\ IsSequence(tail) /\ (tail # <<>> => tail[1] = Question)
    BY <1>1, <1>2
  <2>2. Target(k) = Raw(ts) \o tail
    BY DEF Target
  <2> HIDE DEF tail, ts
  <2>3. percent_decode(Raw(ts) \o tail, Question) = [decoded |-> Chars(ts), rest |-> tail]
    BY <1>1, <2>1, RawDecoded
  <2> QED
    BY <2>2, <2>3 DEF tail, ts
<1>4. percent_decode(Raw(k.qs), None).decoded = Chars(k.qs)
  <2> DEFINE ts == k.qs
             text == Raw(ts)
             tail == <<>>
             d == percent_decode(text, None)
  <2>1. IsSequence(ts) /\ Unmistaken(ts) /\ \A i \in 1..Len(ts) : Written(ts[i], None)
    BY <1>1
  <2> HIDE DEF ts
  <2>2. percent_decode(Raw(ts) \o tail, None) = [decoded |-> Chars(ts), rest |-> tail]
    <3>1. IsSequence(tail) /\ (tail # <<>> => tail[1] = None)
      BY EmptyIsSequence
    <3> HIDE DEF tail
    <3> QED
      BY <1>1, <2>1, <3>1, RawDecoded
  <2>3. text \o tail = text
    <3>1. IsSequence(text)
      BY <1>2 DEF ts
    <3> HIDE DEF text
    <3>2. IsSequence(tail) /\ Len(tail) = 0
      BY EmptyIsSequence
    <3> DEFINE u == text \o tail
    <3> HIDE DEF tail
    <3>3. /\ IsSequence(u) /\ Len(u) = Len(text) + Len(tail)
          /\ \A i \in 1..Len(text) : u[i] = text[i]
          /\ \A i \in 1..Len(tail) : u[Len(text) + i] = tail[i]
          /\ \A i \in 1..(Len(text) + Len(tail)) :
               u[i] = IF i <= Len(text) THEN text[i] ELSE tail[i - Len(text)]
      BY <3>1, <3>2, Joined
    <3> HIDE DEF u
    <3>4. Len(text) \in Nat
      BY <3>1, SequenceFacts
    <3>5. Len(u) = Len(text)
      BY <3>2, <3>3, <3>4
    <3>6. \A i \in 1..Len(u) : u[i] = text[i]
      BY <3>3, <3>5
    <3>7. u = text
      BY <3>1, <3>3, <3>5, <3>6, EqualSequences
    <3> QED
      BY <3>7 DEF u, tail
  <2>4. d = [decoded |-> Chars(ts), rest |-> tail]
    BY <2>2, <2>3
  <2> HIDE DEF d
  <2>5. d.decoded = Chars(ts)
    BY <2>4
  <2> QED
    BY <2>5 DEF d, ts
<1> QED
  BY <1>3, <1>4

(***************************************************************************)
(* The path and the query string of a request, decoded or not yet.         *)
(***************************************************************************)

\* What a decoding step writes, and what it leaves alone.
LEMMA TextPut ==
  ASSUME NEW m, IsMemory(m), NEW b \in Blocks, NEW off \in Nat, NEW text, IsSequence(text),
         NEW room \in Nat, Len(text) <= room, off + room <= Len(m[b])
  PROVE  LET w == Put(m, At(b, off), text \o Blank(room - Len(text)))
         IN  /\ IsMemory(w) /\ Len(w[b]) = Len(m[b])
             /\ \A j \in 1..Len(text) : w[b][off + j] = text[j]
             /\ \A i \in 1..Len(m[b]) : i <= off \/ off + room < i => w[b][i] = m[b][i]
<1> DEFINE n == room - Len(text)
           blank == Blank(n)
           cells == text \o blank
           w == Put(m, At(b, off), cells)
           l == Len(text)
           z == Len(m[b])
<1>1. l \in Nat /\ n \in Nat /\ room = l + n /\ l <= room
  BY SequenceFacts
<1>a. z \in Nat /\ off + room <= z
  BY SequenceFacts DEF IsMemory
<1> HIDE DEF n
<1>2. IsSequence(blank) /\ Len(blank) = n
  BY <1>1, BlankFacts
<1> HIDE DEF blank
<1>3. /\ IsSequence(cells) /\ Len(cells) = Len(text) + Len(blank)
      /\ \A i \in 1..Len(text) : cells[i] = text[i]
  <2>1. /\ IsSequence(cells) /\ Len(cells) = Len(text) + Len(blank)
        /\ \A i \in 1..Len(text) : cells[i] = text[i]
        /\ \A i \in 1..Len(blank) : cells[Len(text) + i] = blank[i]
        /\ \A i \in 1..(Len(text) + Len(blank)) :
             cells[i] = IF i <= Len(text) THEN text[i] ELSE blank[i - Len(text)]
    BY <1>2, Joined
  <2> QED
    BY <2>1
<1> HIDE DEF cells
<1>4. Wrote(w, m, b, off, cells)
  BY <1>3, PutFacts
<1> HIDE DEF w
<1>5. Len(cells) = room
  BY <1>1, <1>2, <1>3
<1>6. /\ IsMemory(w) /\ Len(w[b]) = z
      /\ \A i \in 1..z : i <= off \/ off + room < i => w[b][i] = m[b][i]
      /\ \A j \in 1..room : off + j <= z => w[b][off + j] = cells[j]
  BY <1>4, <1>5 DEF Wrote
<1> HIDE DEF z, l
<1>7. ASSUME NEW j \in 1..l PROVE w[b][off + j] = text[j]
  <2>1. j \in 1..room /\ off + j <= z
    BY <1>1, <1>a
  <2>2. cells[j] = text[j]
    BY <1>3 DEF l
  <2> QED
    BY <1>6, <2>1, <2>2
<1> QED
  BY <1>6, <1>7 DEF w, cells, blank, n, z, l

\* What the buffer of a request holds behind the method.
TargetText(r) ==
  IF r.path_decoded
  THEN Chars(r.spec.path) \o (IF r.qs_decoded THEN Chars(r.spec.qs) ELSE Raw(r.spec.qs))
  ELSE Target(r.spec)

\* The path and the query string of request r are in its buffer in memory m.
Spoken(m, r) ==
  /\ r.qs_decoded => r.path_decoded
  /\ r.path_decoded => r.path_len = Len(r.spec.path)
  /\ ~r.path_decoded => r.path_len = Len(Target(r.spec))
  /\ r.path_len + r.qs_len = Len(TargetText(r))
  /\ \A j \in 1..Len(TargetText(r)) : m[r.buffer][Len(r.spec.method) + j] = TargetText(r)[j]

\* The numbers that a request in memory goes with.
LEMMA HeldNumbers ==
  ASSUME NEW m, NEW r, Holds(m, r)
  PROVE  /\ r.spec \in Requests /\ r.buffer \in Blocks \ {Wire}
         /\ r.path = At(r.buffer, Len(r.spec.method)) /\ r.method = At(r.buffer, 0)
         /\ Len(r.spec.method) \in Nat /\ r.path_len \in Nat /\ r.qs_len \in Nat
         /\ TextEnd(r) \in Nat /\ TextEnd(r) <= HeadLen(r.spec)
         /\ HeadLen(r.spec) \in Nat /\ HeadLen(r.spec) <= TextLen(r.spec)
         /\ TextLen(r.spec) \in Nat /\ TextLen(r.spec) <= EntriesAt(r.spec)
         /\ EntriesAt(r.spec) \in Nat /\ EntriesAt(r.spec) <= End(r.spec)
         /\ End(r.spec) \in Nat /\ End(r.spec) <= r.buffer_len
         /\ r.buffer_len \in Nat /\ Len(m[r.buffer]) = r.buffer_len
<1> DEFINE k == r.spec
           a == Len(k.method)
           t == Len(Target(k))
           p == r.path_len
           q == r.qs_len
<1>1. /\ k \in Requests /\ r.buffer \in Blocks \ {Wire} /\ r.path = At(r.buffer, Len(k.method))
      /\ r.method = At(r.buffer, 0)
      /\ p \in Nat /\ q \in Nat /\ p + q <= t
      /\ End(k) <= r.buffer_len /\ r.buffer_len \in Nat /\ Len(m[r.buffer]) = r.buffer_len
  BY DEF Holds, Placed, Points
<1>2. a \in Nat /\ t \in Nat
  BY <1>1, TargetSequence
<1>3. HeadLen(k) = a + t
  BY DEF HeadLen
<1>4. TextEnd(r) = a + p + q
  BY DEF TextEnd
<1>5. /\ EntriesAt(k) \in Nat /\ TextLen(k) <= EntriesAt(k) /\ TextLen(k) \in Nat
      /\ HeadLen(k) \in Nat /\ HeadLen(k) <= TextLen(k)
      /\ End(k) \in Nat /\ EntriesAt(k) <= End(k)
  BY <1>1, PlacesFacts
<1>6. TextEnd(r) \in Nat /\ TextEnd(r) <= HeadLen(k)
  <2> HIDE DEF a, t, p, q
  <2> QED
    BY <1>1, <1>2, <1>3, <1>4
<1> QED
  BY <1>1, <1>2, <1>5, <1>6

LEMMA TextFacts ==
  ASSUME NEW k \in Requests
  PROVE  /\ IsSequence(Chars(k.path)) /\ Len(Chars(k.path)) = Len(k.path) /\ Len(k.path) \in Nat
         /\ IsSequence(Chars(k.qs)) /\ Len(Chars(k.qs)) = Len(k.qs) /\ Len(k.qs) \in Nat
         /\ IsSequence(Raw(k.qs)) /\ Len(Raw(k.qs)) \in Nat
         /\ IsSequence(Target(k)) /\ Len(Target(k)) \in Nat
         /\ Len(k.path) + Len(Raw(k.qs)) <= Len(Target(k))
         /\ Len(k.qs) <= Len(Raw(k.qs))
<1>1. IsSequence(k.path) /\ IsSequence(k.qs)
  BY SequenceAssumption
<1>2. /\ IsSequence(Chars(k.path)) /\ Len(Chars(k.path)) = Len(k.path) /\ Len(k.path) \in Nat
      /\ IsSequence(Chars(k.qs)) /\ Len(Chars(k.qs)) = Len(k.qs) /\ Len(k.qs) \in Nat
  BY <1>1, CharsTailed, SequenceFacts
<1>3. /\ IsSequence(Raw(k.qs)) /\ Len(Raw(k.qs)) \in Nat
      /\ IsSequence(Target(k)) /\ Len(Target(k)) \in Nat
  BY QsBegins, TargetSequence
<1>4. Len(k.path) + Len(Raw(k.qs)) <= Len(Target(k))
  <2> DEFINE d == percent_decode(Target(k), Question)
  <2>1. Within(d, Len(Target(k)))
    BY <1>3, DecodedWithin
  <2>2. d.decoded = Chars(k.path) /\ d.rest = Raw(k.qs)
    BY TargetDecoded
  <2> HIDE DEF d
  <2> QED
    BY <1>2, <2>1, <2>2 DEF Within
<1>5. Len(k.qs) <= Len(Raw(k.qs))
  <2> DEFINE d == percent_decode(Raw(k.qs), None)
             x == Len(d.decoded)
             y == Len(d.rest)
  <2>1. Within(d, Len(Raw(k.qs)))
    BY <1>3, DecodedWithin
  <2>2. d.decoded = Chars(k.qs)
    BY TargetDecoded
  <2>3. x \in Nat /\ y \in Nat /\ x + y <= Len(Raw(k.qs))
    <3> HIDE DEF d
    <3> QED
      BY <2>1 DEF Within
  <2>4. x = Len(k.qs)
    BY <1>2, <2>2
  <2> HIDE DEF x, y
  <2> QED
    BY <1>3, <2>3, <2>4
<1> QED
  BY <1>2, <1>3, <1>4, <1>5

\* What decoding the path leaves behind.
LEMMA PathSpoken ==
  ASSUME NEW m, IsMemory(m), NEW r, IsRequest(r), Holds(m, r), Spoken(m, r)
  PROVE  LET d == DecodePath(m, r)
         IN  Spoken(d.m, d.r) /\ d.r.path_decoded /\ d.r.py = r.py
<1>1. CASE r.path_decoded
  <2>1. DecodePath(m, r) = [r |-> r, m |-> m]
    BY <1>1 DEF DecodePath
  <2> QED
    BY <1>1, <2>1
<1>2. CASE ~r.path_decoded
  <2> DEFINE k == r.spec
             b == r.buffer
             s == Cells(m, r.path, r.path_len)
             d == percent_decode(s, Question)
             text == d.decoded \o d.rest
             q == [r EXCEPT !.path_decoded = TRUE, !.path_len = Len(d.decoded),
                            !.qs_len = Len(d.rest)]
             off == Len(k.method)
             room == r.path_len
             w == Put(m, At(b, off), text \o Blank(room - Len(text)))
  <2>1. /\ k \in Requests /\ b \in Blocks /\ r.path = At(b, off) /\ off \in Nat
        /\ room \in Nat /\ TextEnd(r) \in Nat /\ TextEnd(r) <= Len(m[b]) /\ r.qs_len \in Nat
        /\ Len(m[b]) \in Nat
    <3>1. /\ TextEnd(r) \in Nat /\ TextEnd(r) <= HeadLen(k)
          /\ HeadLen(k) \in Nat /\ HeadLen(k) <= TextLen(k)
          /\ TextLen(k) \in Nat /\ TextLen(k) <= EntriesAt(k)
          /\ EntriesAt(k) \in Nat /\ EntriesAt(k) <= End(k)
          /\ End(k) \in Nat /\ End(k) <= r.buffer_len
          /\ r.buffer_len \in Nat /\ Len(m[r.buffer]) = r.buffer_len
      BY HeldNumbers
    <3>2. TextEnd(r) <= Len(m[b])
      BY <3>1
    <3> QED
      BY <3>1, <3>2, HeldNumbers
  <2>2. DecodePath(m, r) = [r |-> q, m |-> w]
    BY <1>2, <2>1 DEF DecodePath
  <2>3. /\ ~r.qs_decoded /\ room = Len(Target(k)) /\ TargetText(r) = Target(k)
        /\ \A j \in 1..Len(Target(k)) : m[b][off + j] = Target(k)[j]
    BY <1>2 DEF Spoken, TargetText
  <2>4. off + room <= Len(m[b])
    <3> DEFINE x == r.qs_len
               z == Len(m[b])
    <3>1. TextEnd(r) = off + room + x /\ x \in Nat /\ off \in Nat /\ room \in Nat
          /\ TextEnd(r) <= z /\ z \in Nat
      BY <2>1 DEF TextEnd
    <3> HIDE DEF x, z, off, room
    <3>2. off + room <= z
      BY <3>1
    <3> QED
      BY <3>2 DEF z
  <2>5. s = Target(k)
    <3>1. IsSequence(Target(k))
      BY <2>1, TextFacts
    <3> HIDE DEF k, off, b
    <3>2. Cells(m, At(b, off), Len(Target(k))) = Target(k)
      BY <2>1, <2>3, <2>4, <3>1, CellsAre
    <3> QED
      BY <2>1, <2>3, <3>2
  <2>6. d = [decoded |-> Chars(k.path), rest |-> Raw(k.qs)]
    <3> HIDE DEF s, k
    <3> QED
      BY <2>1, <2>5, TargetDecoded
  <2> HIDE DEF s, d
  <2> DEFINE x == d.decoded
             y == d.rest
  <2>7. x = Chars(k.path) /\ y = Raw(k.qs) /\ text = x \o y
    BY <2>6
  <2>8. /\ IsSequence(x) /\ Len(x) = Len(k.path) /\ Len(x) \in Nat
        /\ IsSequence(y) /\ Len(y) \in Nat /\ Len(x) + Len(y) <= room
    BY <2>1, <2>3, <2>7, TextFacts
  <2>9. /\ q.path_decoded /\ q.path_len = Len(x) /\ q.qs_len = Len(y) /\ q.buffer = b
        /\ q.spec = k /\ q.qs_decoded = r.qs_decoded /\ q.py = r.py
    BY DEF IsRequest, Fields
  <2> HIDE DEF q, text, x, y
  <2>10. IsSequence(text) /\ Len(text) = Len(x) + Len(y)
    BY <2>7, <2>8, Joined
  <2>11. Len(text) <= room
    BY <2>8, <2>10
  <2>12. \A j \in 1..Len(text) : w[b][off + j] = text[j]
    <3> HIDE DEF b, off, room, w, k
    <3>a. /\ b \in Blocks /\ off \in Nat /\ IsSequence(text) /\ room \in Nat
          /\ Len(text) <= room /\ off + room <= Len(m[b])
      BY <2>1, <2>4, <2>10, <2>11
    <3>1. LET v == Put(m, At(b, off), text \o Blank(room - Len(text)))
          IN  /\ IsMemory(v) /\ Len(v[b]) = Len(m[b])
              /\ \A j \in 1..Len(text) : v[b][off + j] = text[j]
              /\ \A i \in 1..Len(m[b]) : i <= off \/ off + room < i => v[b][i] = m[b][i]
      BY <3>a, TextPut
    <3> QED
      BY <3>1 DEF w
  <2> HIDE DEF w
  <2>13. TargetText(q) = text
    BY <2>3, <2>7, <2>9 DEF TargetText
  <2>14. Spoken(w, q)
    <3>1. q.path_len = Len(q.spec.path)
      BY <2>8, <2>9
    <3>2. q.path_len + q.qs_len = Len(TargetText(q))
      BY <2>9, <2>10, <2>13
    <3>3. \A j \in 1..Len(TargetText(q)) : w[q.buffer][Len(q.spec.method) + j] = TargetText(q)[j]
      BY <2>9, <2>12, <2>13
    <3> QED
      BY <2>9, <3>1, <3>2, <3>3 DEF Spoken
  <2> QED
    BY <2>2, <2>9, <2>14
<1> QED
  BY <1>1, <1>2

\* The query string of a request whose path is decoded, as it is in the buffer.
QueryText(r) == IF r.qs_decoded THEN Chars(r.spec.qs) ELSE Raw(r.spec.qs)

LEMMA SpokenParts ==
  ASSUME NEW m, NEW r, Holds(m, r), Spoken(m, r), r.path_decoded
  PROVE  /\ r.path_len = Len(Chars(r.spec.path)) /\ r.qs_len = Len(QueryText(r))
         /\ IsSequence(QueryText(r))
         /\ \A j \in 1..r.path_len :
              m[r.buffer][Len(r.spec.method) + j] = Chars(r.spec.path)[j]
         /\ \A j \in 1..r.qs_len :
              m[r.buffer][Len(r.spec.method) + r.path_len + j] = QueryText(r)[j]
         /\ r.qs_len = 0 <=> r.spec.qs = <<>>
<1> DEFINE k == r.spec
           x == Chars(k.path)
           y == QueryText(r)
           t == x \o y
           off == Len(k.method)
           cells == m[r.buffer]
<1>1. k \in Requests /\ r.path_len \in Nat /\ r.qs_len \in Nat /\ off \in Nat
  BY HeldNumbers
<1>2. IsSequence(x) /\ IsSequence(y) /\ Len(x) = Len(k.path)
  BY <1>1, TextFacts DEF QueryText
<1>3. TargetText(r) = t
  BY DEF TargetText, QueryText
<1>4. /\ r.path_len = Len(k.path) /\ r.path_len + r.qs_len = Len(t)
      /\ \A j \in 1..Len(t) : cells[off + j] = t[j]
  BY <1>3 DEF Spoken
<1>5. r.qs_len = 0 <=> k.qs = <<>>
  <2>1. y = Chars(k.qs) \/ y = Raw(k.qs)
    BY DEF QueryText
  <2>2. Len(Raw(k.qs)) = 0 <=> k.qs = <<>>
    BY <1>1, QsBegins
  <2>3. Len(Chars(k.qs)) = 0 <=> k.qs = <<>>
    <3>1. IsSequence(k.qs) /\ Len(Chars(k.qs)) = Len(k.qs)
      BY <1>1, TextFacts, SequenceAssumption
    <3> QED
      BY <3>1, EmptyOnly, EmptyIsSequence
  <2>4. Len(y) = 0 <=> k.qs = <<>>
    BY <2>1, <2>2, <2>3
  <2>5. r.qs_len = Len(y)
    <3> HIDE DEF x, y, t
    <3>1. Len(t) = Len(x) + Len(y)
      BY <1>2, Joined DEF t
    <3>2. Len(x) \in Nat /\ Len(y) \in Nat
      BY <1>2, SequenceFacts
    <3> QED
      BY <1>1, <1>2, <1>4, <3>1, <3>2
  <2> QED
    BY <2>4, <2>5
<1> HIDE DEF x, y, off, cells, k
<1>6. /\ Len(t) = Len(x) + Len(y)
      /\ \A i \in 1..Len(x) : t[i] = x[i]
      /\ \A i \in 1..Len(y) : t[Len(x) + i] = y[i]
  <2>1. /\ IsSequence(t) /\ Len(t) = Len(x) + Len(y)
        /\ \A i \in 1..Len(x) : t[i] = x[i]
        /\ \A i \in 1..Len(y) : t[Len(x) + i] = y[i]
        /\ \A i \in 1..(Len(x) + Len(y)) :
             t[i] = IF i <= Len(x) THEN x[i] ELSE y[i - Len(x)]
    BY <1>2, Joined, ZenonT(60)
  <2> QED
    BY <2>1
<1> HIDE DEF t
<1>7. Len(x) \in Nat /\ Len(y) \in Nat
  BY <1>2, SequenceFacts
<1> DEFINE a == Len(x)
           c == Len(y)
<1>8. r.path_len = a /\ r.qs_len = c /\ Len(t) = a + c
  BY <1>1, <1>2, <1>4, <1>6, <1>7
<1>9. a \in Nat /\ c \in Nat
  BY <1>7
<1> HIDE DEF a, c
<1>10. ASSUME NEW j \in 1..a PROVE cells[off + j] = x[j]
  <2>1. j \in 1..Len(t)
    BY <1>8, <1>9
  <2> QED
    BY <1>4, <1>6, <2>1 DEF a
<1>11. ASSUME NEW j \in 1..c PROVE cells[off + a + j] = y[j]
  <2> DEFINE i == a + j
  <2>1. i \in 1..Len(t) /\ off + i = off + a + j
    BY <1>1, <1>8, <1>9
  <2>2. t[i] = y[j]
    BY <1>6 DEF a, c
  <2> HIDE DEF i
  <2> QED
    BY <1>4, <2>1, <2>2
<1> QED
  BY <1>2, <1>5, <1>8, <1>10, <1>11 DEF x, y, off, cells, k, a, c

\* What decoding the query string leaves behind.
LEMMA QsSpoken ==
  ASSUME NEW m, IsMemory(m), NEW r, IsRequest(r), Holds(m, r), Spoken(m, r), r.path_decoded
  PROVE  LET d == DecodeQs(m, r)
         IN  /\ Spoken(d.m, d.r) /\ d.r.path_decoded
             /\ TextEnd(d.r) \in Nat /\ TextEnd(d.r) <= TextEnd(r)
             /\ \A i \in 1..Len(m[r.buffer]) :
                  TextEnd(r) < i => d.m[r.buffer][i] = m[r.buffer][i]
             /\ r.qs_len # 0 => d.r.qs_decoded
<1> DEFINE k == r.spec
           b == r.buffer
<1>0. /\ k \in Requests /\ b \in Blocks /\ r.path = At(b, Len(k.method)) /\ Len(k.method) \in Nat
      /\ r.path_len \in Nat /\ r.qs_len \in Nat
      /\ TextEnd(r) \in Nat /\ TextEnd(r) <= Len(m[b]) /\ Len(m[b]) \in Nat
  <2>1. /\ TextEnd(r) \in Nat /\ TextEnd(r) <= HeadLen(k)
        /\ HeadLen(k) \in Nat /\ HeadLen(k) <= TextLen(k)
        /\ TextLen(k) \in Nat /\ TextLen(k) <= EntriesAt(k)
        /\ EntriesAt(k) \in Nat /\ EntriesAt(k) <= End(k)
        /\ End(k) \in Nat /\ End(k) <= r.buffer_len
        /\ r.buffer_len \in Nat /\ Len(m[r.buffer]) = r.buffer_len
    BY HeldNumbers
  <2>2. TextEnd(r) <= Len(m[b])
    BY <2>1
  <2> QED
    BY <2>1, <2>2, HeldNumbers
<1>1. CASE r.qs_decoded \/ r.qs_len = 0
  <2>1. DecodeQs(m, r) = [r |-> r, m |-> m]
    BY <1>1 DEF DecodeQs
  <2> QED
    BY <1>0, <1>1, <2>1
<1>2. CASE ~(r.qs_decoded \/ r.qs_len = 0)
  <2> DEFINE s == Cells(m, Qs(r), r.qs_len)
             d == percent_decode(s, None)
             text == d.decoded
             q == [r EXCEPT !.qs_decoded = TRUE, !.qs_len = Len(text)]
             l == Len(k.method)
             p == r.path_len
             off == l + p
             room == r.qs_len
             w == Put(m, At(b, off), text \o Blank(room - Len(text)))
             x == Chars(k.path)
             y == Raw(k.qs)
  <2>1. Qs(r) = At(b, off)
    BY <1>0 DEF Qs, At
  <2>2. DecodeQs(m, r) = [r |-> q, m |-> w]
    BY <1>2, <2>1 DEF DecodeQs
  <2>3. /\ p = Len(x) /\ room = Len(y) /\ IsSequence(y)
        /\ \A j \in 1..p : m[b][l + j] = x[j]
        /\ \A j \in 1..room : m[b][l + p + j] = y[j]
    <3>1. QueryText(r) = y
      BY <1>2 DEF QueryText
    <3> QED
      BY <3>1, SpokenParts
  <2>4. /\ l \in Nat /\ p \in Nat /\ room \in Nat /\ TextEnd(r) = off + room
        /\ off \in Nat /\ off + room <= Len(m[b])
    <3>1. l \in Nat /\ p \in Nat /\ room \in Nat /\ TextEnd(r) = l + p + room
      BY <1>0 DEF TextEnd
    <3> HIDE DEF l, p, room
    <3> QED
      BY <1>0, <3>1
  <2>5. s = y
    <3> HIDE DEF y, off, b, room
    <3>1. /\ IsSequence(y) /\ off + Len(y) <= Len(m[b])
          /\ \A j \in 1..Len(y) : m[b][off + j] = y[j]
      BY <2>3, <2>4 DEF off
    <3>2. Cells(m, At(b, off), Len(y)) = y
      BY <1>0, <2>4, <3>1, CellsAre
    <3> QED
      BY <2>1, <2>3, <3>2 DEF room
  <2>6. text = Chars(k.qs)
    <3> HIDE DEF s, k
    <3> QED
      BY <1>0, <2>5, TargetDecoded
  <2> HIDE DEF s, d
  <2>7. /\ q.qs_decoded /\ q.path_decoded = r.path_decoded /\ q.path_len = p
        /\ q.qs_len = Len(text) /\ q.buffer = b /\ q.spec = k
    BY DEF IsRequest, Fields
  <2>8. /\ IsSequence(text) /\ Len(text) \in Nat /\ Len(text) <= room
        /\ IsSequence(x) /\ p = Len(k.path)
    BY <1>0, <2>3, <2>6, TextFacts
  <2> HIDE DEF q, text, x, y, l, p, off, room, b
  <2>9. /\ \A j \in 1..Len(text) : w[b][off + j] = text[j]
        /\ \A i \in 1..Len(m[b]) : i <= off \/ off + room < i => w[b][i] = m[b][i]
    <3>1. /\ b \in Blocks /\ off \in Nat /\ IsSequence(text) /\ room \in Nat
          /\ Len(text) <= room /\ off + room <= Len(m[b])
      BY <1>0, <2>4, <2>8 DEF b
    <3>2. LET v == Put(m, At(b, off), text \o Blank(room - Len(text)))
          IN  /\ IsMemory(v) /\ Len(v[b]) = Len(m[b])
              /\ \A j \in 1..Len(text) : v[b][off + j] = text[j]
              /\ \A i \in 1..Len(m[b]) : i <= off \/ off + room < i => v[b][i] = m[b][i]
      BY <3>1, TextPut
    <3> QED
      BY <3>2
  <2> HIDE DEF w
  <2> DEFINE t == x \o text
  <2>10. TargetText(q) = t
    BY <2>6, <2>7 DEF TargetText, x
  <2>11. /\ Len(t) = Len(x) + Len(text)
         /\ \A i \in 1..(Len(x) + Len(text)) :
              t[i] = IF i <= Len(x) THEN x[i] ELSE text[i - Len(x)]
    <3>1. /\ IsSequence(t) /\ Len(t) = Len(x) + Len(text)
          /\ \A i \in 1..Len(x) : t[i] = x[i]
          /\ \A i \in 1..Len(text) : t[Len(x) + i] = text[i]
          /\ \A i \in 1..(Len(x) + Len(text)) :
               t[i] = IF i <= Len(x) THEN x[i] ELSE text[i - Len(x)]
      BY <2>8, Joined
    <3> QED
      BY <3>1
  <2> HIDE DEF t
  <2> DEFINE c == Len(text)
  <2>12. c \in Nat /\ Len(t) = p + c /\ off = l + p /\ c <= room
    BY <2>3, <2>8, <2>11 DEF off
  <2>13. ASSUME NEW j \in 1..Len(t) PROVE w[b][l + j] = t[j]
    <3>1. j \in 1..(p + c) /\ t[j] = IF j <= p THEN x[j] ELSE text[j - p]
      BY <2>3, <2>11, <2>12
    <3>2. CASE j <= p
      <4> HIDE DEF c
      <4>1. j \in 1..p /\ l + j \in 1..Len(m[b]) /\ l + j <= off
        BY <1>0, <2>4, <2>12, <3>1, <3>2 DEF b
      <4>2. w[b][l + j] = m[b][l + j] /\ m[b][l + j] = x[j]
        BY <2>3, <2>9, <4>1
      <4> QED
        BY <3>1, <3>2, <4>2
    <3>3. CASE ~(j <= p)
      <4> DEFINE i == j - p
      <4>1. i \in 1..c /\ off + i = l + j
        <5> HIDE DEF c
        <5> QED
          BY <2>4, <2>12, <3>1, <3>3
      <4>2. w[b][off + i] = text[i]
        <5> HIDE DEF i
        <5> QED
          BY <2>9, <4>1
      <4> QED
        BY <3>1, <3>3, <4>1, <4>2
    <3> QED
      BY <3>2, <3>3
  <2> HIDE DEF c
  <2>14. TextEnd(q) = l + p + c
    BY <2>7 DEF TextEnd, l, c
  <2>15. TextEnd(q) \in Nat /\ TextEnd(q) <= TextEnd(r)
    BY <2>4, <2>12, <2>14
  <2>16. Spoken(w, q)
    <3>1. q.path_len + q.qs_len = Len(TargetText(q))
      BY <2>7, <2>10, <2>12 DEF c
    <3>2. \A j \in 1..Len(TargetText(q)) : w[q.buffer][Len(q.spec.method) + j] = TargetText(q)[j]
      BY <2>7, <2>10, <2>13 DEF l
    <3>3. q.path_len = Len(q.spec.path)
      BY <2>7, <2>8
    <3> QED
      BY <2>7, <3>1, <3>2, <3>3 DEF Spoken
  <2>17. \A i \in 1..Len(m[b]) : TextEnd(r) < i => w[b][i] = m[b][i]
    BY <2>4, <2>9
  <2>18. q.path_decoded /\ q.qs_decoded
    BY <2>7, Zenon
  <2> DEFINE e == DecodeQs(m, r)
  <2>19. e.r = q /\ e.m = w
    BY <2>2
  <2> HIDE DEF e
  <2>20. /\ Spoken(e.m, e.r) /\ e.r.path_decoded
         /\ TextEnd(e.r) \in Nat /\ TextEnd(e.r) <= TextEnd(r)
         /\ \A i \in 1..Len(m[b]) : TextEnd(r) < i => e.m[b][i] = m[b][i]
         /\ e.r.qs_decoded
    BY <2>15, <2>16, <2>17, <2>18, <2>19
  <2> QED
    BY <2>20 DEF b, e
<1> QED
  BY <1>1, <1>2

(***************************************************************************)
(* What handlers have read, and what they can read, at each step.          *)
(***************************************************************************)

\* The fields that the text of a request is read through.
TextFields == {"path_decoded", "qs_decoded", "path_len", "qs_len", "spec"}

LEMMA SpokenSame ==
  ASSUME NEW m, NEW r, Holds(m, r), Spoken(m, r), NEW w, NEW q,
         \A f \in TextFields : q[f] = r[f],
         \A j \in 1..TextEnd(r) : w[q.buffer][j] = m[r.buffer][j]
  PROVE  Spoken(w, q)
<1> DEFINE k == r.spec
           l == Len(k.method)
           n == Len(TargetText(r))
           t == TargetText(r)
<1>1. /\ q.path_decoded = r.path_decoded /\ q.qs_decoded = r.qs_decoded
      /\ q.path_len = r.path_len /\ q.qs_len = r.qs_len /\ q.spec = k
  BY DEF TextFields
<1>2. TargetText(q) = t
  BY <1>1 DEF TargetText
<1>3. l \in Nat /\ r.path_len \in Nat /\ r.qs_len \in Nat
  BY HeldNumbers
<1>4. r.path_len + r.qs_len = n /\ \A j \in 1..n : m[r.buffer][l + j] = t[j]
  BY DEF Spoken
<1>5. TextEnd(r) = l + r.path_len + r.qs_len
  BY DEF TextEnd
<1>6. \A j \in 1..n : w[q.buffer][l + j] = t[j]
  <2> TAKE j \in 1..n
  <2>1. l + j \in 1..TextEnd(r)
    <3> DEFINE x == r.path_len
               y == r.qs_len
               e == TextEnd(r)
    <3>1. l \in Nat /\ x \in Nat /\ y \in Nat /\ x + y = n /\ e = l + x + y /\ j \in 1..n
      BY <1>3, <1>4, <1>5
    <3> HIDE DEF l, x, y, n, e
    <3>2. l + j \in 1..e
      BY <3>1
    <3> QED
      BY <3>2 DEF e
  <2>2. w[q.buffer][l + j] = m[r.buffer][l + j]
    BY <2>1
  <2> QED
    BY <1>4, <2>2
<1>7. /\ r.qs_decoded => r.path_decoded
      /\ r.path_decoded => r.path_len = Len(k.path)
      /\ ~r.path_decoded => r.path_len = Len(Target(k))
  BY DEF Spoken
<1> HIDE DEF l, t
<1> QED
  BY <1>1, <1>2, <1>4, <1>6, <1>7 DEF Spoken, l, t, n

\* What an attribute was when a handler read it is what the client says.
Remembers(r) ==
  /\ r.py = [a \in Attributes |-> r.py[a]]
  /\ \A a \in Attributes \cap Readables : r.py[a] # None => r.py[a] = Said(r.spec, a)

NothingRead == [a \in Attributes |-> None]

LEMMA NothingRemembered ==
  ASSUME NEW r, r.py = NothingRead
  PROVE  Remembers(r)
BY DEF Remembers, NothingRead

\* The match of a client's request.
MatchOf(k) == Matcher_match_request(Chars(k.path), k.method)

\* The entries e with their values in the path of request k, which is in block b.
ValuesAt(e, k, b) == [i \in DOMAIN e |-> [e[i] EXCEPT !.value = At(b, Len(k.method) + @)]]

\* The match of request r is noted in it, and its values are in memory m.
Matched(m, r) ==
  /\ r.path_decoded
  /\ r.entry = MatchOf(r.spec).entry
  /\ Lists(m, r, ValuesAt(MatchOf(r.spec).entries, r.spec, r.buffer))

\* A request that anybody may still read.
Reads(m, r) == Spoken(m, r) /\ Remembers(r)

LEMMA MatchFacts ==
  ASSUME NEW k \in Requests
  PROVE  LET found == MatchOf(k)
             path == Chars(k.path)
         IN  /\ IsSequence(path) /\ Len(path) \in Nat
             /\ IsSequence(found.entries)
             /\ \A x \in 1..Len(found.entries) : InPath(found.entries[x], path)
             /\ found.entry = RouteOf(k)
             /\ EntryValues(found.entries, path) = MeantValues(path, k.method)
<1> DEFINE path == Chars(k.path)
           method == k.method
           found == Matcher_match_request(path, method)
<1>1. IsSequence(path) /\ Len(path) \in Nat
  BY TextFacts
<1>2. IsSequence(found.entries)
  BY MatchListed
<1>3. RouteOf(k) = Meant(path, method)
  BY DEF RouteOf, Meant, FirstOf
<1>4. /\ found.entry = Meant(path, method)
      /\ EntryValues(found.entries, path) = MeantValues(path, method)
      /\ \A x \in 1..Len(found.entries) : InPath(found.entries[x], path)
  <2> HIDE DEF path
  <2> QED
    BY <1>1, MatchersFindTheMeaning
<1> QED
  BY <1>1, <1>2, <1>3, <1>4 DEF MatchOf

\* The entries' values, wherever the request is.
LEMMA ValuesFacts ==
  ASSUME NEW e, IsSequence(e), NEW k, Len(k.method) \in Nat, NEW path,
         \A x \in 1..Len(e) : InPath(e[x], path), NEW b
  PROVE  LET v == ValuesAt(e, k, b)
         IN  /\ IsSequence(v) /\ Len(v) = Len(e)
             /\ \A x \in 1..Len(e) :
                  v[x] = [key |-> e[x].key, value_length |-> e[x].value_length,
                          value |-> At(b, Len(k.method) + e[x].value)]
<1> DEFINE v == ValuesAt(e, k, b)
           n == Len(e)
<1>1. n \in Nat /\ DOMAIN e = 1..n
  BY SequenceFacts
<1>2. v = [x \in 1..n |-> [e[x] EXCEPT !.value = At(b, Len(k.method) + @)]]
  BY <1>1 DEF ValuesAt
<1>3. \A x \in 1..n : v[x] = [key |-> e[x].key, value_length |-> e[x].value_length,
                              value |-> At(b, Len(k.method) + e[x].value)]
  <2> TAKE x \in 1..n
  <2> DEFINE y == e[x]
  <2>1. y = [key |-> y.key, value_length |-> y.value_length, value |-> y.value]
    BY DEF InPath
  <2> HIDE DEF y
  <2>2. [y EXCEPT !.value = At(b, Len(k.method) + @)]
          = [key |-> y.key, value_length |-> y.value_length, value |-> At(b, Len(k.method) + y.value)]
    BY <2>1
  <2> QED
    BY <1>2, <2>2 DEF y
<1>4. v = [x \in 1..n |-> v[x]]
  BY <1>2
<1> HIDE DEF v, n
<1>5. IsSequence(v) /\ Len(v) = n
  BY <1>1, <1>4, FunctionSequence
<1> QED
  BY <1>3, <1>5 DEF v, n

LEMMA ValuesMoved ==
  ASSUME NEW e, IsSequence(e), NEW k, Len(k.method) \in Nat, NEW path,
         \A x \in 1..Len(e) : InPath(e[x], path), NEW a, NEW b
  PROVE  MovedMatches(ValuesAt(e, k, a), At(a, 0), At(b, 0)) = ValuesAt(e, k, b)
<1> DEFINE v == ValuesAt(e, k, a)
           w == ValuesAt(e, k, b)
           n == Len(e)
           l == Len(k.method)
           u == MovedMatches(v, At(a, 0), At(b, 0))
<1>1. IsSequence(v) /\ Len(v) = n /\ IsSequence(w) /\ Len(w) = n
  BY ValuesFacts
<1>2. \A x \in 1..n : /\ v[x] = [key |-> e[x].key, value_length |-> e[x].value_length,
                                value |-> At(a, l + e[x].value)]
                      /\ w[x] = [key |-> e[x].key, value_length |-> e[x].value_length,
                                value |-> At(b, l + e[x].value)]
                      /\ e[x].value \in Nat
  <2>1. \A x \in 1..n : e[x].value \in Nat
    BY DEF InPath
  <2> QED
    BY <2>1, ValuesFacts
<1> HIDE DEF v, w, l
<1>3. n \in Nat /\ DOMAIN v = 1..n /\ w = [x \in 1..n |-> w[x]]
  BY <1>1, SequenceFacts
<1>4. u = [x \in 1..n |-> u[x]]
      /\ \A x \in 1..n : u[x] = [v[x] EXCEPT !.value = Moved(@, At(a, 0), At(b, 0))]
  BY <1>3 DEF MovedMatches
<1>5. \A x \in 1..n : u[x] = w[x]
  <2> TAKE x \in 1..n
  <2> DEFINE z == l + e[x].value
  <2>1. z \in Nat
    <3> DEFINE y == e[x].value
    <3>1. y \in Nat /\ l \in Nat
      BY <1>2 DEF l
    <3> HIDE DEF y, l
    <3>2. l + y \in Nat
      BY <3>1
    <3> QED
      BY <3>2 DEF y
  <2>2. Moved(At(a, z), At(a, 0), At(b, 0)) = At(b, z)
    BY <2>1, MovedBy
  <2>3. /\ v[x] = [key |-> e[x].key, value_length |-> e[x].value_length, value |-> At(a, z)]
        /\ w[x] = [key |-> e[x].key, value_length |-> e[x].value_length, value |-> At(b, z)]
    BY <1>2
  <2> HIDE DEF z
  <2> QED
    BY <1>4, <2>2, <2>3
<1> HIDE DEF u
<1> QED
  BY <1>3, <1>4, <1>5 DEF u, w, v

\* What is computed is what the client said, attribute by attribute.
LEMMA MethodRead ==
  ASSUME NEW m, IsMemory(m), NEW r, Holds(m, r)
  PROVE  Cells(m, At(r.buffer, 0), r.method_len) = r.spec.method
<1> DEFINE k == r.spec
           b == r.buffer
           t == k.method
<1>1. /\ k \in Requests /\ b \in Blocks /\ r.method_len = Len(t) /\ Contents(m[b], b, k)
      /\ Len(m[b]) = r.buffer_len
  BY DEF Holds, Placed, Points
<1>2. IsSequence(t)
  BY <1>1, SequenceAssumption
<1>3. Len(t) \in Nat /\ Len(t) <= HeadLen(k)
  <2> DEFINE x == Len(t)
             y == Len(Target(k))
             z == HeadLen(k)
  <2>1. x \in Nat /\ y \in Nat /\ z = x + y
    BY <1>1, TargetSequence DEF HeadLen
  <2> HIDE DEF x, y, z
  <2>2. x \in Nat /\ x <= z
    BY <2>1
  <2> QED
    BY <2>2 DEF x, z
<1>4. HeadLen(k) \in Nat /\ HeadLen(k) <= r.buffer_len /\ r.buffer_len \in Nat
  BY HeldNumbers
<1>5. \A j \in 1..Len(t) : m[b][0 + j] = t[j]
  <2> TAKE j \in 1..Len(t)
  <2>1. 0 + j = j
    BY <1>3
  <2> QED
    BY <1>1, <2>1 DEF Contents
<1>6. 0 + Len(t) <= Len(m[b])
  <2> DEFINE x == Len(t)
             y == Len(m[b])
             z == HeadLen(k)
  <2>1. x \in Nat /\ x <= z /\ z \in Nat /\ z <= y /\ y \in Nat
    BY <1>1, <1>3, <1>4
  <2> HIDE DEF x, y, z
  <2>2. 0 + x <= y
    BY <2>1
  <2> QED
    BY <2>2 DEF x, y
<1> HIDE DEF t, b
<1>7. 0 \in Nat
  OBVIOUS
<1>8. Cells(m, At(b, 0), Len(t)) = t
  BY <1>1, <1>2, <1>5, <1>6, <1>7, CellsAre
<1> QED
  BY <1>1, <1>8 DEF t, b

LEMMA PathRead ==
  ASSUME NEW m, IsMemory(m), NEW r, Holds(m, r), Spoken(m, r), r.path_decoded
  PROVE  Cells(m, r.path, r.path_len) = Chars(r.spec.path)
<1> DEFINE k == r.spec
           b == r.buffer
           t == Chars(k.path)
           l == Len(k.method)
<1>1. /\ k \in Requests /\ b \in Blocks /\ r.path = At(b, l) /\ l \in Nat
      /\ Len(m[b]) = r.buffer_len
  BY HeldNumbers
<1>2. IsSequence(t) /\ Len(t) \in Nat
  BY <1>1, TextFacts
<1>3. r.path_len = Len(t) /\ \A j \in 1..r.path_len : m[b][l + j] = t[j]
  BY SpokenParts
<1>4. l + Len(t) <= Len(m[b])
  <2> DEFINE x == r.path_len
             y == r.qs_len
             e == TextEnd(r)
             h == HeadLen(k)
             u == TextLen(k)
             v == EntriesAt(k)
             w == End(k)
             z == r.buffer_len
  <2>1. /\ e = l + x + y /\ x \in Nat /\ y \in Nat
        /\ e \in Nat /\ e <= h /\ h \in Nat /\ h <= u /\ u \in Nat /\ u <= v /\ v \in Nat
        /\ v <= w /\ w \in Nat /\ w <= z /\ z \in Nat
    BY HeldNumbers DEF TextEnd
  <2> HIDE DEF x, y, e, h, u, v, w, z, l
  <2>2. l + x <= z
    BY <1>1, <2>1
  <2> QED
    BY <1>1, <1>3, <2>2 DEF x, z, l
<1> HIDE DEF t, b, l
<1>5. \A j \in 1..Len(t) : m[b][l + j] = t[j]
  BY <1>3
<1>6. Cells(m, At(b, l), Len(t)) = t
  BY <1>1, <1>2, <1>4, <1>5, CellsAre
<1> QED
  BY <1>1, <1>3, <1>6 DEF t

LEMMA QueryRead ==
  ASSUME NEW m, IsMemory(m), NEW r, Holds(m, r), Spoken(m, r), r.path_decoded
  PROVE  Cells(m, Qs(r), r.qs_len) = QueryText(r)
<1> DEFINE k == r.spec
           b == r.buffer
           t == QueryText(r)
           l == Len(k.method)
           p == r.path_len
           off == l + p
<1>1. /\ k \in Requests /\ b \in Blocks /\ r.path = At(b, l) /\ l \in Nat /\ p \in Nat
      /\ Len(m[b]) = r.buffer_len
  BY HeldNumbers
<1>2. off \in Nat /\ Qs(r) = At(b, off)
  <2>1. off \in Nat
    <3> HIDE DEF l, p
    <3> QED
      BY <1>1
  <2> QED
    BY <1>1, <2>1 DEF Qs, At
<1>3. /\ r.qs_len = Len(t) /\ IsSequence(t)
      /\ \A j \in 1..r.qs_len : m[b][off + j] = t[j]
  BY SpokenParts
<1>4. off + Len(t) <= Len(m[b])
  <2> DEFINE y == r.qs_len
             e == TextEnd(r)
             h == HeadLen(k)
             u == TextLen(k)
             v == EntriesAt(k)
             w == End(k)
             z == r.buffer_len
  <2>1. /\ e = l + p + y /\ y \in Nat
        /\ e \in Nat /\ e <= h /\ h \in Nat /\ h <= u /\ u \in Nat /\ u <= v /\ v \in Nat
        /\ v <= w /\ w \in Nat /\ w <= z /\ z \in Nat
    BY HeldNumbers DEF TextEnd
  <2> HIDE DEF y, e, h, u, v, w, z, l, p
  <2>2. l + p + y <= z
    BY <1>1, <2>1
  <2> QED
    BY <1>1, <1>3, <2>2 DEF y, z
<1> HIDE DEF t, b, off
<1>5. \A j \in 1..Len(t) : m[b][off + j] = t[j]
  BY <1>3
<1>6. Cells(m, At(b, off), Len(t)) = t
  BY <1>1, <1>2, <1>3, <1>4, <1>5, CellsAre
<1> QED
  BY <1>2, <1>3, <1>6 DEF t

LEMMA QuerySaid ==
  ASSUME NEW m, IsMemory(m), NEW r, IsRequest(r), Holds(m, r), Spoken(m, r), r.path_decoded
  PROVE  Computed(m, r, "query_string") = Said(r.spec, "query_string")
<1> DEFINE k == r.spec
           d == DecodeQs(m, r)
<1>1. r.qs_len = 0 <=> k.qs = <<>>
  BY SpokenParts
<1>2. CASE r.qs_len = 0
  BY <1>1, <1>2 DEF Computed, Said
<1>3. CASE r.qs_len # 0
  <2>1. Computed(m, r, "query_string") = Tail(Cells(d.m, Qs(d.r), d.r.qs_len))
    BY <1>3 DEF Computed
  <2>2. Said(k, "query_string") = Tail(Chars(k.qs))
    BY <1>1, <1>3 DEF Said
  <2>3. Decoding(d, m, r)
    BY QsDecoded
  <2>4. Spoken(d.m, d.r) /\ d.r.path_decoded /\ d.r.qs_decoded
    BY <1>3, QsSpoken
  <2> HIDE DEF d
  <2>5. IsMemory(d.m) /\ Holds(d.m, d.r) /\ d.r.spec = k
    BY <2>3 DEF Decoding, SameAnswer
  <2>6. Cells(d.m, Qs(d.r), d.r.qs_len) = QueryText(d.r)
    <3> DEFINE w == d.m
               q == d.r
    <3>1. IsMemory(w) /\ Holds(w, q) /\ Spoken(w, q) /\ q.path_decoded
      BY <2>4, <2>5
    <3> HIDE DEF w, q
    <3>2. Cells(w, Qs(q), q.qs_len) = QueryText(q)
      BY <3>1, QueryRead
    <3> QED
      BY <3>2 DEF w, q
  <2>7. QueryText(d.r) = Chars(k.qs)
    BY <2>4, <2>5 DEF QueryText
  <2> QED
    BY <2>1, <2>2, <2>6, <2>7
<1> QED
  BY <1>2, <1>3

LEMMA HeadersSaid ==
  ASSUME NEW m, IsMemory(m), NEW r, Holds(m, r)
  PROVE  Computed(m, r, "headers") = Said(r.spec, "headers")
<1> DEFINE k == r.spec
           b == r.buffer
           n == Len(k.headers)
           e == StructsAt(m, r.headers, r.num_headers)
           names == [i \in DOMAIN e |-> title_case(Cells(m, e[i].name, e[i].name_len))]
           values == [i \in DOMAIN e |-> Cells(m, e[i].value, e[i].value_len)]
           saidNames == [i \in DOMAIN k.headers |-> title_case(k.headers[i].name)]
           saidValues == [i \in DOMAIN k.headers |-> k.headers[i].value]
<1>1. k \in Requests
  BY HeldNumbers
<1>2. DOMAIN k.headers = 1..n
  <2>1. IsSequence(k.headers)
    BY <1>1, SequenceAssumption
  <2> QED
    BY <2>1, SequenceFacts
<1>3. DOMAIN e = 1..n /\ \A i \in 1..n : e[i] = Entry(k, i, b)
  <2>1. e = Entries(k, b)
    BY HeldEntries
  <2>2. DOMAIN Entries(k, b) = 1..n /\ \A i \in 1..n : Entries(k, b)[i] = Entry(k, i, b)
    BY DEF Entries
  <2> QED
    BY <2>1, <2>2
<1>4. ASSUME NEW i \in 1..n
      PROVE  /\ title_case(Cells(m, e[i].name, e[i].name_len)) = title_case(k.headers[i].name)
             /\ Cells(m, e[i].value, e[i].value_len) = k.headers[i].value
  <2> DEFINE x == Entry(k, i, b)
             c == Cells(m, x.name, x.name_len)
  <2>1. Lowered(c) = Lowered(k.headers[i].name) /\ Cells(m, x.value, x.value_len) = k.headers[i].value
    BY HeaderRead
  <2>2. e[i] = x
    BY <1>3
  <2> HIDE DEF x, e
  <2>3. title_case(c) = title_case(k.headers[i].name)
    BY <2>1, TitleAlike
  <2> QED
    BY <2>1, <2>2, <2>3
<1>5. Computed(m, r, "headers") = Dict(names, values)
  BY DEF Computed
<1>6. Said(k, "headers") = Dict(saidNames, saidValues)
  BY DEF Said
<1> HIDE DEF e
<1>7. names = saidNames /\ values = saidValues
  BY <1>2, <1>3, <1>4
<1> HIDE DEF names, values, saidNames, saidValues
<1> QED
  BY <1>5, <1>6, <1>7

\* The values of a match in memory are those its entries stand for.
LEMMA ListedRead ==
  ASSUME NEW m, IsMemory(m), NEW r, Holds(m, r), Spoken(m, r), Matched(m, r)
  PROVE  LET e == ValuesAt(MatchOf(r.spec).entries, r.spec, r.buffer)
         IN  /\ StructsAt(m, r.match_dict_entries, r.match_dict_length) = e
             /\ DOMAIN e = 1..Len(MatchOf(r.spec).entries)
<1> DEFINE k == r.spec
           b == r.buffer
           s == MatchOf(k).entries
           e == ValuesAt(s, k, b)
<1>1. k \in Requests /\ Len(k.method) \in Nat
  BY HeldNumbers
<1>2. IsSequence(s) /\ \A x \in 1..Len(s) : InPath(s[x], Chars(k.path))
  BY <1>1, MatchFacts
<1>3. Lists(m, r, e)
  BY DEF Matched
<1> HIDE DEF s
<1>4. IsSequence(e) /\ Len(e) = Len(s)
  BY <1>1, <1>2, ValuesFacts
<1> HIDE DEF e
<1>5. PICK off : /\ r.match_dict_entries = At(b, off) /\ r.match_dict_length = Len(e)
                 /\ \A i \in 1..Len(e) : m[b][off + StructLen * (i - 1) + 1] = e[i]
  BY <1>3 DEF Lists
<1>6. StructsAt(m, At(b, off), Len(e)) = e
  BY <1>4, <1>5, ListRead
<1>7. DOMAIN e = 1..Len(s)
  BY <1>4, SequenceFacts
<1> QED
  BY <1>5, <1>6, <1>7 DEF e, s

LEMMA ValueRead ==
  ASSUME NEW m, IsMemory(m), NEW r, Holds(m, r), Spoken(m, r), r.path_decoded,
         NEW v \in Nat, NEW n \in Nat, v + n <= Len(Chars(r.spec.path))
  PROVE  Cells(m, At(r.buffer, Len(r.spec.method) + v), n) = SubSeq(Chars(r.spec.path), v + 1, v + n)
<1> DEFINE k == r.spec
           b == r.buffer
           l == Len(k.method)
           path == Chars(k.path)
           off == l + v
           t == SubSeq(path, v + 1, v + n)
<1>1. /\ k \in Requests /\ b \in Blocks /\ l \in Nat /\ Len(m[b]) = r.buffer_len
  BY HeldNumbers
<1>2. IsSequence(path) /\ Len(path) \in Nat
  BY <1>1, TextFacts
<1>3. /\ r.path_len = Len(path)
      /\ \A j \in 1..r.path_len : m[b][l + j] = path[j]
  BY SpokenParts
<1>4. v + n <= Len(path)
  OBVIOUS
<1>5. l + Len(path) <= Len(m[b]) /\ Len(m[b]) \in Nat
  <2> DEFINE x == r.path_len
             y == r.qs_len
             e == TextEnd(r)
             h == HeadLen(k)
             u == TextLen(k)
             g == EntriesAt(k)
             w == End(k)
             z == r.buffer_len
  <2>1. /\ e = l + x + y /\ x \in Nat /\ y \in Nat
        /\ e \in Nat /\ e <= h /\ h \in Nat /\ h <= u /\ u \in Nat /\ u <= g /\ g \in Nat
        /\ g <= w /\ w \in Nat /\ w <= z /\ z \in Nat
    BY HeldNumbers DEF TextEnd
  <2> HIDE DEF x, y, e, h, u, g, w, z, l
  <2>2. l + x <= z
    BY <1>1, <2>1
  <2> QED
    BY <1>1, <1>3, <2>1, <2>2 DEF x, z, l
<1> HIDE DEF path, l
<1>6. IsSequence(t) /\ Len(t) = n /\ \A j \in 1..n : t[j] = path[v + j]
  BY <1>2, <1>4, Cut
<1> HIDE DEF t
<1>7. off \in Nat /\ off + n <= Len(m[b])
  <2> DEFINE z == Len(m[b])
             p == Len(path)
  <2>1. l \in Nat /\ v + n <= p /\ p \in Nat /\ l + p <= z /\ z \in Nat
    BY <1>1, <1>2, <1>4, <1>5
  <2> HIDE DEF z, p
  <2>2. l + v \in Nat /\ (l + v) + n <= z
    BY <2>1
  <2> QED
    BY <2>2 DEF z
<1>8. \A j \in 1..n : m[b][off + j] = t[j]
  <2> TAKE j \in 1..n
  <2> DEFINE i == v + j
             p == Len(path)
  <2>1. i \in 1..p /\ l + i = off + j
    <3>1. p \in Nat /\ v + n <= p /\ l \in Nat
      BY <1>1, <1>2, <1>4
    <3> HIDE DEF p
    <3> QED
      BY <3>1
  <2>2. m[b][l + i] = path[i] /\ t[j] = path[i]
    BY <1>3, <1>6, <2>1
  <2> HIDE DEF i
  <2> QED
    BY <2>1, <2>2
<1> HIDE DEF off, b
<1>9. Cells(m, At(b, off), Len(t)) = t
  <2>1. IsSequence(t) /\ off \in Nat /\ off + Len(t) <= Len(m[b])
        /\ \A j \in 1..Len(t) : m[b][off + j] = t[j]
    BY <1>6, <1>7, <1>8
  <2> QED
    BY <1>1, <2>1, CellsAre
<1> QED
  BY <1>6, <1>9 DEF t, path, off, l, b

LEMMA MatchSaid ==
  ASSUME NEW m, IsMemory(m), NEW r, Holds(m, r), Spoken(m, r), Matched(m, r)
  PROVE  /\ Computed(m, r, "match_dict") = Said(r.spec, "match_dict")
         /\ Said(r.spec, "match_dict") = MeantValues(Chars(r.spec.path), r.spec.method)
<1> DEFINE k == r.spec
           b == r.buffer
           l == Len(k.method)
           path == Chars(k.path)
           s == MatchOf(k).entries
           n == Len(s)
           e == StructsAt(m, r.match_dict_entries, r.match_dict_length)
           read(x) == <<e[x].key, Cells(m, e[x].value, e[x].value_length)>>
           meant(x) == <<s[x].key, SubSeq(path, s[x].value + 1, s[x].value + s[x].value_length)>>
<1>1. k \in Requests /\ l \in Nat
  BY HeldNumbers
<1>2. /\ IsSequence(s) /\ \A x \in 1..n : InPath(s[x], path)
      /\ EntryValues(s, path) = MeantValues(path, k.method)
  BY <1>1, MatchFacts
<1>3. e = ValuesAt(s, k, b) /\ DOMAIN e = 1..n
  BY ListedRead
<1>4. \A x \in 1..n : e[x] = [key |-> s[x].key, value_length |-> s[x].value_length,
                              value |-> At(b, l + s[x].value)]
  <2> HIDE DEF s, e
  <2> QED
    BY <1>1, <1>2, <1>3, ValuesFacts
<1>5. r.path_decoded
  BY DEF Matched
<1>6. \A x \in 1..n : read(x) = meant(x)
  <2> TAKE x \in 1..n
  <2> DEFINE v == s[x].value
             c == s[x].value_length
  <2>1. v \in Nat /\ c \in Nat /\ v + c <= Len(path)
    BY <1>2 DEF InPath
  <2> HIDE DEF v, c
  <2>2. Cells(m, At(b, l + v), c) = SubSeq(path, v + 1, v + c)
    BY <1>5, <2>1, ValueRead
  <2>3. e[x] = [key |-> s[x].key, value_length |-> c, value |-> At(b, l + v)]
    BY <1>4 DEF v, c
  <2>4. read(x) = <<s[x].key, Cells(m, At(b, l + v), c)>>
    BY <2>3
  <2>5. meant(x) = <<s[x].key, SubSeq(path, v + 1, v + c)>>
    BY DEF v, c
  <2> HIDE DEF read, meant
  <2> QED
    BY <2>2, <2>4, <2>5
<1>7. Computed(m, r, "match_dict") = {read(x) : x \in DOMAIN e}
  BY DEF Computed
<1>8. EntryValues(s, path) = {meant(x) : x \in 1..n}
  BY DEF EntryValues
<1>9. Said(k, "match_dict") = MeantValues(path, k.method)
  <2>1. RouteOf(k) = Meant(path, k.method)
    BY DEF RouteOf, Meant, FirstOf
  <2>2. Said(k, "match_dict") = IF RouteOf(k) = 0 THEN {}
                                ELSE DescribedValues(parse(Routes[RouteOf(k)].pattern), path)
    BY DEF Said
  <2> QED
    BY <2>1, <2>2 DEF MeantValues, ValuesIn, Segs
<1> HIDE DEF read, meant, e, s, n
<1>10. Computed(m, r, "match_dict") = EntryValues(s, path)
  BY <1>3, <1>6, <1>7, <1>8
<1> QED
  BY <1>2, <1>9, <1>10

\* Every attribute of a request that can be read is computed from cells that hold
\* what its client said.
LEMMA ComputedSaid ==
  ASSUME NEW m, IsMemory(m), NEW r, IsRequest(r), Holds(m, r), Spoken(m, r), Matched(m, r),
         NEW a \in Readables
  PROVE  Computed(m, r, a) = Said(r.spec, a)
<1>1. r.path_decoded /\ r.entry = MatchOf(r.spec).entry /\ r.spec \in Requests
  BY HeldNumbers DEF Matched
<1>2. CASE a = "method"
  BY <1>2, MethodRead DEF Computed, Said
<1>3. CASE a = "path"
  BY <1>1, <1>3, PathRead DEF Computed, Said
<1>4. CASE a = "query_string"
  BY <1>1, <1>4, QuerySaid
<1>5. CASE a = "headers"
  BY <1>5, HeadersSaid
<1>6. CASE a = "match_dict"
  BY <1>6, MatchSaid
<1>7. CASE a = "route"
  <2>1. MatchOf(r.spec).entry = RouteOf(r.spec)
    BY <1>1, MatchFacts
  <2>2. Computed(m, r, "route") = r.entry /\ Said(r.spec, "route") = RouteOf(r.spec)
    BY DEF Computed, Said
  <2> QED
    BY <1>1, <1>7, <2>1, <2>2
<1> QED
  BY <1>2, <1>3, <1>4, <1>5, <1>6, <1>7 DEF Readables

\* What the getter returns, then and from then on.
LEMMA GotSaid ==
  ASSUME NEW m, IsMemory(m), NEW r, IsRequest(r), Holds(m, r), Reads(m, r), Matched(m, r),
         NEW a \in Readables
  PROVE  Got(m, r, a) = Said(r.spec, a)
<1>1. Computed(m, r, a) = Said(r.spec, a)
  BY ComputedSaid DEF Reads
<1>2. a \in Attributes /\ r.py[a] # None => r.py[a] = Said(r.spec, a)
  BY DEF Reads, Remembers
<1> QED
  BY <1>1, <1>2 DEF Got

\* Two choices of routes begin with the same one when the first of all is in both.
LEMMA SameFirst ==
  ASSUME NEW D, D \subseteq DOMAIN Routes, NEW E, E \subseteq DOMAIN Routes
  PROVE  FirstOf(D) = FirstOf(E) <=> D \cup E = {} \/ Min(D \cup E) \in D \cap E
<1> DEFINE A == D \cup E
           a == Min(A)
           d == Min(D)
           e == Min(E)
<1>1. A # {} => a \in A /\ a \in Nat /\ a # 0 /\ \A i \in A : a <= i /\ i \in Nat
  BY FirstIsRoute
<1>2. D # {} => FirstOf(D) = d /\ d \in D /\ d # 0 /\ \A i \in D : d <= i /\ i \in Nat
  BY FirstIsRoute
<1>3. E # {} => FirstOf(E) = e /\ e \in E /\ e # 0 /\ \A i \in E : e <= i /\ i \in Nat
  BY FirstIsRoute
<1>4. (D = {} => FirstOf(D) = 0) /\ (E = {} => FirstOf(E) = 0)
  BY DEF FirstOf
<1> HIDE DEF a, d, e
<1>5. ASSUME A # {}, a \in D \cap E PROVE FirstOf(D) = FirstOf(E)
  <2>1. a <= d /\ d <= a /\ a <= e /\ e <= a
    BY <1>1, <1>2, <1>3, <1>5
  <2>2. a \in Nat /\ d \in Nat /\ e \in Nat
    BY <1>1, <1>2, <1>3, <1>5
  <2> QED
    BY <1>2, <1>3, <1>5, <2>1, <2>2
<1>6. ASSUME A # {}, FirstOf(D) = FirstOf(E) PROVE a \in D \cap E
  <2>1. D # {} /\ E # {}
    BY <1>2, <1>3, <1>4, <1>6
  <2>2. d = e /\ d \in D \cap E
    BY <1>2, <1>3, <1>6, <2>1
  <2>3. a <= d /\ d <= a /\ a \in Nat /\ d \in Nat
    BY <1>1, <1>2, <1>3, <2>1, <2>2
  <2> QED
    BY <2>2, <2>3
<1> QED
  BY <1>4, <1>5, <1>6 DEF a

\* The Python matcher finds the same where the methods are not misread.
LEMMA PythonSame ==
  ASSUME NEW m, IsMemory(m), NEW r, Holds(m, r), Spoken(m, r), Matched(m, r)
  PROVE  LET path == Chars(r.spec.path)
             method == r.spec.method
             py == PyMatch(path, method)
             either == Described(path, method) \cup PyDescribed(path, method)
         IN  py.entry = r.entry /\ py.values = Computed(m, r, "match_dict")
               <=> \/ either = {}
                   \/ Min(either) \in Described(path, method) \cap PyDescribed(path, method)
<1> DEFINE k == r.spec
           path == Chars(k.path)
           method == k.method
           found == Matcher_match_request(path, method)
           py == PyMatch(path, method)
           D == Described(path, method)
           E == PyDescribed(path, method)
<1>1. k \in Requests
  BY HeldNumbers
<1>2. IsSequence(path)
  BY <1>1, TextFacts
<1>3. r.entry = found.entry
  BY DEF Matched, MatchOf
<1>4. Computed(m, r, "match_dict") = MeantValues(path, method)
  BY MatchSaid
<1>5. /\ found.entry = Meant(path, method) /\ py.entry = PyMeant(path, method)
      /\ py.values = PyMeantValues(path, method)
  <2> HIDE DEF path
  <2> QED
    BY <1>1, <1>2, MatchersFindTheMeaning
<1>6. FirstOf(D) = FirstOf(E) <=> D \cup E = {} \/ Min(D \cup E) \in D \cap E
  BY DescribedAre, SameFirst
<1>7. Meant(path, method) = FirstOf(D) /\ PyMeant(path, method) = FirstOf(E)
  BY DEF Meant, PyMeant
<1>8. Meant(path, method) = PyMeant(path, method)
        => MeantValues(path, method) = PyMeantValues(path, method)
  BY DEF MeantValues, PyMeantValues
<1> HIDE DEF path, method, found, py, D, E
<1>9. py.entry = r.entry /\ py.values = Computed(m, r, "match_dict")
        <=> D \cup E = {} \/ Min(D \cup E) \in D \cap E
  BY <1>3, <1>4, <1>5, <1>6, <1>7, <1>8
<1> QED
  BY <1>9 DEF py, path, method, k, D, E

\* The target in a request's text.
LEMMA TargetOnWire ==
  ASSUME NEW k \in Requests
  PROVE  /\ \A j \in 1..Len(Target(k)) : WireText(k)[Len(k.method) + j] = Target(k)[j]
         /\ Len(k.method) \in Nat /\ Len(Target(k)) \in Nat /\ TextLen(k) \in Nat
         /\ Len(k.method) + Len(Target(k)) <= TextLen(k)
<1> DEFINE s == k.method
           t == Target(k)
           u == HeaderText(k, Len(k.headers))
           x == s \o t
           w == x \o u
<1>1. IsSequence(s) /\ IsSequence(t) /\ Len(s) \in Nat /\ Len(t) \in Nat
  BY SequenceAssumption, TargetSequence
<1>2. IsSequence(u)
  <2>1. Len(k.headers) \in 0..Len(k.headers)
    BY TargetSequence
  <2> QED
    BY <2>1, HeaderTextStep
<1>3. WireText(k) = w
  BY DEF WireText
<1> HIDE DEF s, t, u
<1>4. /\ IsSequence(x) /\ Len(x) = Len(s) + Len(t)
      /\ \A i \in 1..Len(t) : x[Len(s) + i] = t[i]
  BY <1>1, Joined
<1> HIDE DEF x
<1>5. \A i \in 1..Len(x) : w[i] = x[i]
  BY <1>2, <1>4, Joined
<1>6. \A j \in 1..Len(t) : w[Len(s) + j] = t[j]
  <2> TAKE j \in 1..Len(t)
  <2>1. Len(s) + j \in 1..Len(x)
    BY <1>1, <1>4
  <2> QED
    BY <1>4, <1>5, <2>1
<1>7. TextLen(k) \in Nat /\ HeadLen(k) <= TextLen(k) /\ HeadLen(k) = Len(s) + Len(t)
  BY WireTextFacts DEF HeadLen, s, t
<1> QED
  BY <1>1, <1>3, <1>6, <1>7 DEF s, t

\* A request that begins has had nothing decoded and nothing read.
Begun(q, k, b) ==
  /\ q.path_decoded = FALSE /\ q.qs_decoded = FALSE /\ q.py = NothingRead
  /\ q.path_len = Len(Target(k)) /\ q.qs_len = 0 /\ q.spec = k /\ q.buffer = b

LEMMA HeadFields ==
  ASSUME NEW m, NEW c, NEW k, NEW b
  PROVE  Begun(CopyHeaders(m, FromRaw(c, k), b).r, k, b)
<1> DEFINE n == Request_new(c)
           r == FromRaw(c, k)
           q == CopyHeaders(m, r, b).r
<1>1. IsRequest(n) /\ n.qs_len = 0 /\ n.py = NothingRead
  BY NewBuffer DEF Request_new, NothingRead
<1>2. n.path_decoded = FALSE /\ n.qs_decoded = FALSE
  BY DEF Request_new
<1> HIDE DEF n
<1>3. /\ r.path_decoded = n.path_decoded /\ r.qs_decoded = n.qs_decoded /\ r.py = n.py
  BY <1>1 DEF FromRaw, n, IsRequest, Fields
<1>4. /\ r.path_len = Len(Target(k)) /\ r.qs_len = 0 /\ r.spec = k
  BY RawFields
<1>5. IsRequest(r)
  BY RawBuffer
<1> HIDE DEF r
<1>6. q.path_decoded = r.path_decoded /\ q.qs_decoded = r.qs_decoded /\ q.py = r.py
  BY <1>5 DEF CopyHeaders, IsRequest, Fields
<1>7. q.path_len = r.path_len /\ q.qs_len = r.qs_len /\ q.spec = r.spec /\ q.buffer = b
  BY <1>5 DEF CopyHeaders, IsRequest, Fields
<1> HIDE DEF q
<1> QED
  BY <1>1, <1>2, <1>3, <1>4, <1>6, <1>7 DEF Begun, q, r

\* A head that has been copied can be read.
LEMMA HeadReads ==
  ASSUME NEW m, NEW c, NEW k \in Requests, NEW b,
         \A j \in 1..TextLen(k) : m[b][j] = WireText(k)[j], NEW g
  PROVE  Reads(m, CopyHeaders(g, FromRaw(c, k), b).r)
<1> DEFINE q == CopyHeaders(g, FromRaw(c, k), b).r
           t == Target(k)
           l == Len(k.method)
<1>1. /\ q.path_decoded = FALSE /\ q.qs_decoded = FALSE /\ q.py = NothingRead
      /\ q.path_len = Len(t) /\ q.qs_len = 0 /\ q.spec = k /\ q.buffer = b
  <2>1. Begun(q, k, b)
    BY HeadFields
  <2> HIDE DEF q
  <2> QED
    BY <2>1 DEF Begun
<1> HIDE DEF q
<1>2. TargetText(q) = t
  BY <1>1 DEF TargetText
<1>3. \A j \in 1..Len(t) : m[b][l + j] = t[j]
  <2> TAKE j \in 1..Len(t)
  <2> DEFINE n == Len(t)
             e == TextLen(k)
  <2>1. l \in Nat /\ n \in Nat /\ e \in Nat /\ l + n <= e
    BY TargetOnWire
  <2>2. j \in 1..n
    OBVIOUS
  <2> HIDE DEF l, n, e
  <2>3. l + j \in 1..e
    BY <2>1, <2>2
  <2> QED
    BY <2>3, TargetOnWire DEF l, n, e
<1>4. Len(t) + 0 = Len(t)
  BY TargetOnWire
<1> HIDE DEF t
<1>5. Spoken(m, q)
  BY <1>1, <1>2, <1>3, <1>4 DEF Spoken, t
<1>6. Remembers(q)
  BY <1>1, NothingRemembered
<1> QED
  BY <1>5, <1>6 DEF Reads, q

\* A request whose buffer a step does not touch can still be read.
LEMMA ReadsOn ==
  ASSUME NEW m, NEW r, NEW w, w[r.buffer] = m[r.buffer]
  PROVE  /\ Reads(m, r) => Reads(w, r)
         /\ Matched(m, r) => Matched(w, r)
BY DEF Reads, Spoken, Matched, Lists

\* A request whose fields a step does not touch, but its answer, likewise.
LEMMA ReadsAlike ==
  ASSUME NEW m, NEW r, NEW q,
         \A f \in Fields \ {"simple", "response", "answer"} : q[f] = r[f]
  PROVE  /\ Reads(m, r) => Reads(m, q)
         /\ Matched(m, r) => Matched(m, q)
<1>1. /\ q.path_decoded = r.path_decoded /\ q.qs_decoded = r.qs_decoded
      /\ q.path_len = r.path_len /\ q.qs_len = r.qs_len /\ q.spec = r.spec
      /\ q.buffer = r.buffer /\ q.buffer_len = r.buffer_len /\ q.py = r.py
      /\ q.entry = r.entry /\ q.match_dict_entries = r.match_dict_entries
      /\ q.match_dict_length = r.match_dict_length
  BY DEF Fields
<1>2. TargetText(q) = TargetText(r) /\ TextEnd(q) = TextEnd(r)
  BY <1>1 DEF TargetText, TextEnd
<1>3. Reads(m, r) => Reads(m, q)
  BY <1>1, <1>2 DEF Reads, Spoken, Remembers
<1>4. Matched(m, r) => Matched(m, q)
  BY <1>1, <1>2 DEF Matched, Lists
<1> QED
  BY <1>3, <1>4

\* The route is noted in the request; nothing else changes.
LEMMA RoutedFields ==
  ASSUME NEW c, NEW found, NEW b,
         IsRequest(CopyMatches(Decoded(c).m, Decoded(c).r, FoundEntries(c, found), b).r)
  PROVE  LET copied == CopyMatches(Decoded(c).m, Decoded(c).r, FoundEntries(c, found), b)
             routed == Routed(c, found, b)
         IN  /\ routed.m = copied.m /\ IsRequest(routed.r) /\ routed.r.entry = found.entry
             /\ \A f \in Fields \ {"entry", "simple"} : routed.r[f] = copied.r[f]
<1> DEFINE copied == CopyMatches(Decoded(c).m, Decoded(c).r, FoundEntries(c, found), b)
<1>1. copied = [r |-> copied.r, m |-> copied.m]
  BY DEF CopyMatches
<1> HIDE DEF copied
<1> QED
  BY <1>1 DEF Routed, copied, IsRequest, Fields

\* What is copied along with a match.
LEMMA MatchKeeps ==
  ASSUME NEW m, NEW r, IsRequest(r), NEW e, NEW b
  PROVE  LET q == CopyMatches(m, r, e, b).r
         IN  /\ q.path_decoded = r.path_decoded /\ q.qs_decoded = r.qs_decoded
             /\ q.py = r.py /\ q.path_len = r.path_len /\ q.qs_len = r.qs_len
             /\ q.spec = r.spec
BY DEF CopyMatches, IsRequest, Fields

\* The entries found, and where they point.
LEMMA FoundIs ==
  ASSUME NEW c, IsMemory(mem), IsRequest(req[c]), Holds(mem, req[c]), Spoken(mem, req[c])
  PROVE  /\ Found(c) = MatchOf(req[c].spec)
         /\ FoundEntries(c, MatchOf(req[c].spec))
              = ValuesAt(MatchOf(req[c].spec).entries, req[c].spec, req[c].buffer)
<1> DEFINE k == req[c].spec
           a == req[c].buffer
           d == Decoded(c)
           m == d.m
           r == d.r
<1>1. Spoken(m, r) /\ r.path_decoded
  BY PathSpoken DEF Decoded
<1>2. Decoding(d, mem, req[c])
  BY PathDecoded DEF Decoded
<1>3. IsMemory(m) /\ Holds(m, r) /\ r.spec = k /\ r.buffer = a
  BY <1>2 DEF Decoding, SameAnswer
<1> HIDE DEF m, r
<1>4. Cells(m, r.path, r.path_len) = Chars(k.path)
  BY <1>1, <1>3, PathRead
<1>5. Cells(m, At(r.buffer, 0), r.method_len) = k.method
  BY <1>3, MethodRead
<1>6. r.path = At(a, Len(k.method))
  BY <1>3, HeldNumbers
<1>7. Found(c) = Matcher_match_request(Cells(m, r.path, r.path_len),
                                      Cells(m, At(r.buffer, 0), r.method_len))
  BY DEF Found, m, r
<1>8. Found(c) = MatchOf(k)
  BY <1>4, <1>5, <1>7 DEF MatchOf
<1> DEFINE e == MatchOf(k).entries
           f == MatchOf(k)
<1>9. FoundEntries(c, f) = [i \in DOMAIN e |->
                              [e[i] EXCEPT !.value = At(r.path.blk, r.path.off + @)]]
  BY DEF FoundEntries, r
<1> HIDE DEF e, f, d
<1>10. r.path.blk = a /\ r.path.off = Len(k.method)
  BY <1>6 DEF At
<1>11. FoundEntries(c, f) = ValuesAt(e, k, a)
  BY <1>9, <1>10 DEF ValuesAt
<1> QED
  BY <1>8, <1>11 DEF e, f

\* A request that has been routed can be read, and its match is the client's.
LEMMA RoutedReads ==
  ASSUME NEW c \in Conns, IsMemory(mem), IsRequest(req[c]), Holds(mem, req[c]),
         Reads(mem, req[c]), NEW b \in MatchRoom(c, Found(c))
  PROVE  LET routed == Routed(c, Found(c), b)
         IN  Reads(routed.m, routed.r) /\ Matched(routed.m, routed.r)
<1> DEFINE k == req[c].spec
           a == req[c].buffer
           d == Decoded(c)
           f == Found(c)
           e == FoundEntries(c, f)
           copied == CopyMatches(d.m, d.r, e, b)
           routed == Routed(c, f, b)
           s == MatchOf(k).entries
<1>1. Spoken(mem, req[c]) /\ Remembers(req[c])
  BY DEF Reads
<1>2. Spoken(d.m, d.r) /\ d.r.path_decoded /\ d.r.py = req[c].py
  BY <1>1, PathSpoken DEF Decoded
<1>3. Decoding(d, mem, req[c])
  BY PathDecoded DEF Decoded
<1>4. /\ IsMemory(d.m) /\ Holds(d.m, d.r) /\ IsRequest(d.r) /\ d.r.spec = k /\ d.r.buffer = a
  BY <1>3 DEF Decoding, SameAnswer
<1>5. f = MatchOf(k) /\ e = ValuesAt(s, k, a)
  <2>1. Found(c) = MatchOf(req[c].spec)
        /\ FoundEntries(c, MatchOf(req[c].spec))
             = ValuesAt(MatchOf(req[c].spec).entries, req[c].spec, req[c].buffer)
    BY <1>1, FoundIs
  <2> QED
    BY <2>1
<1>6. k \in Requests /\ Len(k.method) \in Nat
  <2>1. d.r.spec \in Requests /\ Len(d.r.spec.method) \in Nat
    BY <1>4, HeldNumbers
  <2> QED
    BY <1>4, <2>1
<1>7. IsSequence(s) /\ \A x \in 1..Len(s) : InPath(s[x], Chars(k.path))
  BY <1>6, MatchFacts
<1>8. b \in RoomIn(d.r, MatchNeed(d.m, d.r, Len(f.entries)), Heap \ heap)
  BY DEF MatchRoom
<1>9. f.entries = s
  BY <1>5
<1> HIDE DEF s, f
<1>10. IsSequence(e) /\ Len(e) = Len(s)
  <2>1. IsSequence(ValuesAt(s, k, a)) /\ Len(ValuesAt(s, k, a)) = Len(s)
    BY <1>6, <1>7, ValuesFacts
  <2> QED
    BY <1>5, <2>1
<1>11. MovedMatches(e, At(a, 0), At(b, 0)) = ValuesAt(s, k, b)
  <2>1. MovedMatches(ValuesAt(s, k, a), At(a, 0), At(b, 0)) = ValuesAt(s, k, b)
    BY <1>6, <1>7, ValuesMoved
  <2> QED
    BY <1>5, <2>1
<1> HIDE DEF e, d
<1>12. /\ Fits(d.r, MatchNeed(d.m, d.r, Len(e))) => b = d.r.buffer
       /\ b \in {d.r.buffer} \cup Heap
  BY <1>8, <1>9, <1>10 DEF RoomIn
<1>13. b \in Blocks \ {Wire}
  <2>1. d.r.buffer \in Blocks \ {Wire}
    BY <1>4 DEF Holds, Placed
  <2>2. Heap \subseteq Blocks \ {Wire}
    BY RequestAssumption DEF Blocks
  <2> QED
    BY <1>12, <2>1, <2>2
<1>14. /\ IsMemory(copied.m) /\ Holds(copied.m, copied.r) /\ IsRequest(copied.r)
       /\ copied.r.buffer = b
       /\ \A j \in 1..TextEnd(d.r) : copied.m[b][j] = d.m[d.r.buffer][j]
       /\ Lists(copied.m, copied.r, MovedMatches(e, At(d.r.buffer, 0), At(b, 0)))
  BY <1>4, <1>10, <1>12, <1>13, MatchesCopied
<1>15. /\ copied.r.path_decoded = d.r.path_decoded /\ copied.r.qs_decoded = d.r.qs_decoded
       /\ copied.r.py = d.r.py /\ copied.r.path_len = d.r.path_len
       /\ copied.r.qs_len = d.r.qs_len /\ copied.r.spec = d.r.spec
  BY <1>4, MatchKeeps
<1>16. /\ routed.m = copied.m /\ routed.r.entry = f.entry
       /\ \A x \in Fields \ {"entry", "simple"} : routed.r[x] = copied.r[x]
  BY <1>14, RoutedFields DEF d, e
<1> HIDE DEF routed, copied
<1> DEFINE q == routed.r
<1>17. /\ q.path_decoded = d.r.path_decoded /\ q.qs_decoded = d.r.qs_decoded
       /\ q.py = d.r.py /\ q.path_len = d.r.path_len /\ q.qs_len = d.r.qs_len
       /\ q.spec = k /\ q.buffer = b
  BY <1>4, <1>14, <1>15, <1>16 DEF Fields
<1>18. /\ q.match_dict_entries = copied.r.match_dict_entries
       /\ q.match_dict_length = copied.r.match_dict_length
       /\ q.buffer_len = copied.r.buffer_len
       /\ q.spec = copied.r.spec /\ TextEnd(q) = TextEnd(copied.r) /\ copied.r.buffer = q.buffer
  BY <1>14, <1>16 DEF Fields, TextEnd
<1> HIDE DEF q
<1>19. Spoken(routed.m, q)
  <2> DEFINE m == d.m
             r == d.r
             w == routed.m
  <2>1. Holds(m, r) /\ Spoken(m, r)
    BY <1>2, <1>4
  <2>2. \A x \in TextFields : q[x] = r[x]
    BY <1>4, <1>17 DEF TextFields
  <2>3. \A j \in 1..TextEnd(r) : w[q.buffer][j] = m[r.buffer][j]
    BY <1>14, <1>16, <1>17
  <2> HIDE DEF m, r, w
  <2>4. Spoken(w, q)
    BY <2>1, <2>2, <2>3, SpokenSame
  <2> QED
    BY <2>4 DEF w
<1>20. Remembers(q)
  <2>1. q.py = req[c].py /\ q.spec = req[c].spec
    BY <1>2, <1>17
  <2> QED
    BY <1>1, <2>1 DEF Remembers
<1>21. Lists(routed.m, q, ValuesAt(s, k, b))
  <2>1. Lists(copied.m, copied.r, ValuesAt(s, k, b))
    BY <1>4, <1>11, <1>14
  <2> QED
    BY <1>16, <1>18, <2>1 DEF Lists
<1>22. Matched(routed.m, q)
  BY <1>2, <1>5, <1>16, <1>17, <1>21 DEF Matched, s, q
<1> QED
  BY <1>19, <1>20, <1>22 DEF Reads, q, routed, f

\* A clone can be read wherever its buffer is, and has read nothing yet.
LEMMA ClonedReads ==
  ASSUME NEW m, IsMemory(m), NEW r, IsRequest(r), Holds(m, r), HasMatches(r),
         Reads(m, r), Matched(m, r),
         NEW c \in Blocks \ {Wire}, NEW o \in Blocks \ {Wire}, r.buffer # o, c # o
  PROVE  LET cloned == Request_clone(m, r, c, o)
         IN  Reads(cloned.m, cloned.clone) /\ Matched(cloned.m, cloned.clone)
<1> DEFINE k == r.spec
           s == MatchOf(k).entries
           e == ValuesAt(s, k, r.buffer)
           cloned == Request_clone(m, r, c, o)
           q == cloned.clone
           w == cloned.m
<1>1. k \in Requests /\ Len(k.method) \in Nat
  BY HeldNumbers
<1>2. IsSequence(s) /\ \A x \in 1..Len(s) : InPath(s[x], Chars(k.path))
  BY <1>1, MatchFacts
<1>3. /\ Spoken(m, r) /\ r.path_decoded /\ r.entry = MatchOf(k).entry /\ Lists(m, r, e)
  BY DEF Reads, Matched
<1> HIDE DEF s
<1>4. IsSequence(e)
  BY <1>1, <1>2, ValuesFacts
<1>5. ListCloned(cloned, m, r, c, o, e)
  <2> HIDE DEF e
  <2>1. \A x : IsSequence(x) /\ Lists(m, r, x) => ListCloned(cloned, m, r, c, o, x)
    BY Cloned
  <2> QED
    BY <1>3, <1>4, <2>1
<1>6. /\ r.buffer = c => q.buffer = o
      /\ r.buffer # c => q.buffer = r.buffer
      /\ q.path_len = r.path_len /\ q.qs_len = r.qs_len /\ q.spec = k
  BY CloneFields
<1>7. /\ q.path_decoded = r.path_decoded /\ q.qs_decoded = r.qs_decoded
      /\ q.entry = r.entry /\ q.py = NothingRead
  BY CloneMatches DEF NothingRead
<1>8. (IF r.buffer = c THEN MovedMatches(e, At(c, 0), At(o, 0)) ELSE e) = ValuesAt(s, k, q.buffer)
  <2>1. CASE r.buffer = c
    <3>1. MovedMatches(ValuesAt(s, k, c), At(c, 0), At(o, 0)) = ValuesAt(s, k, o)
      BY <1>1, <1>2, ValuesMoved
    <3> QED
      BY <1>6, <2>1, <3>1
  <2>2. CASE r.buffer # c
    BY <1>6, <2>2
  <2> QED
    BY <2>1, <2>2
<1> HIDE DEF q, w, e, cloned
<1>9. /\ \A j \in 1..TextEnd(r) : w[q.buffer][j] = m[r.buffer][j]
      /\ Lists(w, q, ValuesAt(s, k, q.buffer))
  BY <1>5, <1>8 DEF ListCloned, q, w
<1>10. Spoken(w, q)
  <2>1. \A x \in TextFields : q[x] = r[x]
    BY <1>6, <1>7 DEF TextFields
  <2> QED
    BY <1>3, <1>9, <2>1, SpokenSame
<1>11. Remembers(q)
  BY <1>7, NothingRemembered
<1>12. Matched(w, q)
  BY <1>3, <1>6, <1>7, <1>9 DEF Matched, s
<1> QED
  BY <1>10, <1>11, <1>12 DEF Reads, q, w, cloned

\* Decoding the query string leaves the match alone.
LEMMA QsFields ==
  ASSUME NEW m, NEW r, IsRequest(r)
  PROVE  LET q == DecodeQs(m, r).r
         IN  /\ q.py = r.py /\ q.entry = r.entry /\ q.spec = r.spec /\ q.buffer = r.buffer
             /\ q.buffer_len = r.buffer_len /\ q.match_dict_entries = r.match_dict_entries
             /\ q.match_dict_length = r.match_dict_length
<1> DEFINE n == Len(percent_decode(Cells(m, Qs(r), r.qs_len), None).decoded)
           p == [r EXCEPT !.qs_decoded = TRUE, !.qs_len = n]
<1>1. DecodeQs(m, r).r = r \/ DecodeQs(m, r).r = p
  BY DEF DecodeQs
<1> HIDE DEF n
<1>2. /\ p.py = r.py /\ p.entry = r.entry /\ p.spec = r.spec /\ p.buffer = r.buffer
      /\ p.buffer_len = r.buffer_len /\ p.match_dict_entries = r.match_dict_entries
      /\ p.match_dict_length = r.match_dict_length
  BY DEF IsRequest, Fields
<1> HIDE DEF p
<1>3. CASE DecodeQs(m, r).r = r
  BY <1>3
<1>4. CASE DecodeQs(m, r).r = p
  BY <1>2, <1>4
<1> QED
  BY <1>1, <1>3, <1>4

LEMMA MatchLength ==
  ASSUME NEW k \in Requests, NEW b
  PROVE  Len(ValuesAt(MatchOf(k).entries, k, b)) \in Nat
<1> DEFINE e == ValuesAt(MatchOf(k).entries, k, b)
           s == MatchOf(k).entries
<1>1. Len(k.method) \in Nat
  BY TargetSequence
<1>2. IsSequence(s) /\ \A x \in 1..Len(s) : InPath(s[x], Chars(k.path))
  BY MatchFacts
<1> HIDE DEF s
<1>3. IsSequence(ValuesAt(s, k, b))
  BY <1>1, <1>2, ValuesFacts
<1>4. IsSequence(e)
  BY <1>3 DEF s
<1> HIDE DEF e
<1>5. Len(e) \in Nat
  BY <1>4, SequenceFacts
<1> QED
  BY <1>5 DEF e

LEMMA QsMatched ==
  ASSUME NEW m, IsMemory(m), NEW r, IsRequest(r), Holds(m, r), Spoken(m, r), Matched(m, r)
  PROVE  LET d == DecodeQs(m, r)
         IN  Spoken(d.m, d.r) /\ Matched(d.m, d.r)
<1> DEFINE k == r.spec
           d == DecodeQs(m, r)
           w == d.m
           q == d.r
           b == r.buffer
           e == ValuesAt(MatchOf(k).entries, k, b)
           n == Len(e)
<1>1. r.path_decoded /\ r.entry = MatchOf(k).entry /\ Lists(m, r, e)
  BY DEF Matched
<1>2. /\ Spoken(w, q) /\ q.path_decoded
      /\ TextEnd(q) \in Nat /\ TextEnd(q) <= TextEnd(r)
      /\ \A i \in 1..Len(m[b]) : TextEnd(r) < i => w[b][i] = m[b][i]
  BY <1>1, QsSpoken
<1>3. /\ q.py = r.py /\ q.entry = r.entry /\ q.spec = r.spec /\ q.buffer = r.buffer
      /\ q.buffer_len = r.buffer_len /\ q.match_dict_entries = r.match_dict_entries
      /\ q.match_dict_length = r.match_dict_length
  BY QsFields
<1>4. /\ TextEnd(r) \in Nat /\ r.buffer_len \in Nat /\ Len(m[b]) = r.buffer_len
  BY HeldNumbers
<1>5. n \in Nat
  <2>1. k \in Requests
    BY HeldNumbers
  <2> QED
    BY <2>1, MatchLength
<1> HIDE DEF w, q, e, d
<1>6. PICK off :
        /\ Behind(off, k) /\ TextEnd(r) <= off /\ off + StructLen * n <= r.buffer_len
        /\ r.match_dict_entries = At(b, off) /\ r.match_dict_length = n
        /\ \A i \in 1..n : m[b][off + StructLen * (i - 1) + 1] = e[i]
  BY <1>1 DEF Lists
<1>7. off \in Nat
  BY <1>6 DEF Behind
<1>8. ASSUME NEW i \in 1..n
      PROVE  w[b][off + StructLen * (i - 1) + 1] = e[i]
  <2> DEFINE o == StructLen * (i - 1)
             l == StructLen * n
             z == Len(m[b])
             te == TextEnd(r)
             j == off + o + 1
  <2>1. i - 1 \in Nat /\ i - 1 < n
    BY <1>5
  <2>2. o \in Nat /\ o + StructLen <= l /\ l \in Nat
    BY <1>5, <2>1, Times
  <2>3. off + l <= z /\ te <= off /\ te \in Nat /\ z \in Nat
    BY <1>4, <1>6
  <2> HIDE DEF o, l, z, te
  <2>4. j \in 1..z /\ te < j
    BY <1>7, <2>2, <2>3, StructPositive
  <2> HIDE DEF j
  <2>5. w[b][j] = m[b][j]
    BY <1>2, <2>4 DEF z, te
  <2>6. m[b][j] = e[i]
    BY <1>6 DEF j, o
  <2> QED
    BY <2>5, <2>6 DEF j, o
<1>9. TextEnd(q) <= off
  <2> DEFINE x == TextEnd(q)
             y == TextEnd(r)
  <2>1. x \in Nat /\ y \in Nat /\ x <= y /\ y <= off
    BY <1>2, <1>4, <1>6
  <2> HIDE DEF x, y
  <2>2. x <= off
    BY <1>7, <2>1
  <2> QED
    BY <2>2 DEF x
<1>10. Lists(w, q, e)
  BY <1>3, <1>6, <1>8, <1>9 DEF Lists, n
<1>11. Matched(w, q)
  BY <1>1, <1>2, <1>3, <1>10 DEF Matched, e
<1> QED
  BY <1>2, <1>11 DEF w, q, d

(***************************************************************************)
(* Names in title case.                                                    *)
(***************************************************************************)
LEMMA TitleFacts ==
  ASSUME NEW s, IsSequence(s)
  PROVE  /\ IsSequence(title_case(s)) /\ Len(title_case(s)) = Len(s)
         /\ DOMAIN title_case(s) = 1..Len(s)
         /\ \A j \in 1..Len(s) : LowerOf(title_case(s)[j]) = LowerOf(s[j])
<1> DEFINE n == Len(s)
           low == Lowered(s)
           t == title_case(s)
<1>1. n \in Nat /\ DOMAIN s = 1..n
  BY SequenceFacts
<1>2. DOMAIN low = 1..n /\ \A j \in 1..n : low[j] = LowerOf(s[j])
  BY <1>1 DEF Lowered, LowerOf
<1>3. ASSUME NEW c PROVE LowerOf(LowerOf(c)) = LowerOf(c)
  BY LetterAssumption DEF LowerOf
<1> HIDE DEF low
<1>4. /\ DOMAIN t = 1..n /\ t = [j \in 1..n |-> t[j]]
      /\ \A j \in 1..n : t[j] = low[j] \/ (t[j] \in DOMAIN Lower /\ Lower[t[j]] = low[j])
  <2> DEFINE upper(c) == {u \in DOMAIN Lower : Lower[u] = c}
             letter(j) == j \in DOMAIN low /\ upper(low[j]) # {}
  <2>1. t = [j \in DOMAIN low |-> IF letter(j) /\ ~letter(j - 1)
                                  THEN CHOOSE u \in upper(low[j]) : TRUE ELSE low[j]]
    BY DEF title_case, low
  <2>2. ASSUME NEW j, letter(j) PROVE (CHOOSE u \in upper(low[j]) : TRUE) \in upper(low[j])
    BY <2>2
  <2>3. ASSUME NEW c, NEW u \in upper(c) PROVE u \in DOMAIN Lower /\ Lower[u] = c
    BY <2>3
  <2> HIDE DEF upper, letter, t
  <2>4. ASSUME NEW j \in 1..n
        PROVE  t[j] = low[j] \/ (t[j] \in DOMAIN Lower /\ Lower[t[j]] = low[j])
    <3>1. t[j] = IF letter(j) /\ ~letter(j - 1)
                 THEN CHOOSE u \in upper(low[j]) : TRUE ELSE low[j]
      BY <1>2, <2>1
    <3>2. CASE letter(j) /\ ~letter(j - 1)
      <4>1. t[j] \in upper(low[j])
        BY <2>2, <3>1, <3>2
      <4> QED
        BY <2>3, <4>1
    <3>3. CASE ~(letter(j) /\ ~letter(j - 1))
      BY <3>1, <3>3
    <3> QED
      BY <3>2, <3>3
  <2> QED
    BY <1>2, <2>1, <2>4
<1> HIDE DEF t
<1>5. ASSUME NEW j \in 1..n PROVE LowerOf(t[j]) = LowerOf(s[j])
  <2>1. CASE t[j] = low[j]
    BY <1>2, <1>3, <2>1
  <2>2. CASE t[j] \in DOMAIN Lower /\ Lower[t[j]] = low[j]
    BY <1>2, <2>2 DEF LowerOf
  <2> QED
    BY <1>4, <2>1, <2>2
<1> HIDE DEF n
<1>6. IsSequence(t) /\ Len(t) = n
  BY <1>1, <1>4, FunctionSequence
<1> QED
  BY <1>4, <1>5, <1>6 DEF t, n

\* A header lies behind those before it.
LEMMA HeadersApart ==
  ASSUME NEW k \in Requests, NEW i \in 1..Len(k.headers), NEW l \in 1..Len(k.headers), i < l
  PROVE  Offset(k, i) + Len(k.headers[i].name) + Len(k.headers[i].value) <= Offset(k, l)
<1> DEFINE n == Len(k.headers)
           old == HeaderText(k, i - 1)
           new == HeaderText(k, i)
           most == HeaderText(k, l - 1)
           line == Line(k, i)
           name == k.headers[i].name
           value == k.headers[i].value
           d == l - 1 - i
<1>1. /\ n \in Nat /\ i - 1 \in 0..n /\ (i - 1) + 1 = i /\ i \in 0..n
      /\ d \in Nat /\ i + d = l - 1 /\ l - 1 \in 0..n
  <2>1. n \in Nat /\ i \in 1..n /\ l \in 1..n /\ i < l
    BY TargetSequence
  <2> HIDE DEF n
  <2> QED
    BY <2>1
<1>2. IsSequence(line) /\ Len(line) = Len(name) + Len(value) /\ Len(name) \in Nat /\ Len(value) \in Nat
  BY LineFacts
<1>3. IsSequence(old) /\ Len(old) \in Nat /\ new = old \o line
  BY <1>1, HeaderTextStep
<1>4. Begins(new, most)
  <2> HIDE DEF d
  <2>1. i + d \in 0..n
    BY <1>1
  <2>2. Begins(HeaderText(k, i), HeaderText(k, i + d))
    BY <1>1, <2>1, HeaderTextBegins
  <2> QED
    BY <1>1, <2>2
<1>5. Offset(k, i) = HeadLen(k) + Len(old) /\ Offset(k, l) = HeadLen(k) + Len(most)
  BY DEF Offset
<1>6. HeadLen(k) \in Nat
  BY PlacesFacts
<1> HIDE DEF old, new, most, line, name, value, d
<1>7. Len(new) = Len(old) + Len(line)
  BY <1>2, <1>3, Joined
<1>8. Len(new) <= Len(most)
  BY <1>4 DEF Begins
<1>9. Len(most) \in Nat
  BY <1>1, HeaderTextStep DEF most
<1> DEFINE a == Len(old)
           c == Len(name)
           v == Len(value)
           g == Len(most)
           h == HeadLen(k)
<1>10. /\ a \in Nat /\ c \in Nat /\ v \in Nat /\ g \in Nat /\ h \in Nat /\ a + (c + v) <= g
       /\ Offset(k, i) = h + a /\ Offset(k, l) = h + g
  BY <1>2, <1>3, <1>5, <1>6, <1>7, <1>8, <1>9
<1> HIDE DEF a, c, v, g, h
<1>11. Offset(k, i) + c + v <= Offset(k, l)
  BY <1>10
<1> QED
  BY <1>11 DEF c, v, name, value

\* The headers that cell j is in the name of.
NamedAt(k, j) ==
  {i \in 1..Len(k.headers) : j - Offset(k, i) \in 1..Len(k.headers[i].name)}

LEMMA NamesAlone ==
  ASSUME NEW k \in Requests, NEW i \in 1..Len(k.headers)
  PROVE  /\ \A j \in 1..Len(k.headers[i].name) : NamedAt(k, Offset(k, i) + j) = {i}
         /\ \A j \in 1..Len(k.headers[i].value) :
              NamedAt(k, Offset(k, i) + Len(k.headers[i].name) + j) = {}
<1> DEFINE n == Len(k.headers)
           off(l) == Offset(k, l)
           name(l) == Len(k.headers[l].name)
           value(l) == Len(k.headers[l].value)
<1>1. n \in Nat /\ i \in 1..n
  BY TargetSequence
<1>2. \A l \in 1..n : off(l) \in Nat /\ name(l) \in Nat /\ value(l) \in Nat
  BY OffsetFacts, LineFacts
<1>3. \A l, g \in 1..n : l < g => off(l) + name(l) + value(l) <= off(g)
  BY HeadersApart
<1>4. \A j : NamedAt(k, j) = {l \in 1..n : j - off(l) \in 1..name(l)}
  BY DEF NamedAt
<1> HIDE DEF n, off, name, value
<1>5. ASSUME NEW j \in 1..name(i), NEW l \in 1..n
      PROVE  (off(i) + j) - off(l) \in 1..name(l) <=> l = i
  <2> DEFINE oi == off(i)
             ol == off(l)
             ni == name(i)
             nl == name(l)
             vi == value(i)
             vl == value(l)
  <2>1. /\ oi \in Nat /\ ol \in Nat /\ ni \in Nat /\ nl \in Nat /\ vi \in Nat /\ vl \in Nat
        /\ l < i => ol + nl + vl <= oi
        /\ i < l => oi + ni + vi <= ol
        /\ l = i => ol = oi /\ nl = ni
        /\ j \in 1..ni /\ l \in Nat /\ i \in Nat
    BY <1>1, <1>2, <1>3
  <2> HIDE DEF oi, ol, ni, nl, vi, vl
  <2>2. (oi + j) - ol \in 1..nl <=> l = i
    BY <2>1
  <2> QED
    BY <2>2 DEF oi, ol, nl
<1>6. ASSUME NEW j \in 1..value(i), NEW l \in 1..n
      PROVE  (off(i) + name(i) + j) - off(l) \notin 1..name(l)
  <2> DEFINE oi == off(i)
             ol == off(l)
             ni == name(i)
             nl == name(l)
             vi == value(i)
             vl == value(l)
  <2>1. /\ oi \in Nat /\ ol \in Nat /\ ni \in Nat /\ nl \in Nat /\ vi \in Nat /\ vl \in Nat
        /\ l < i => ol + nl + vl <= oi
        /\ i < l => oi + ni + vi <= ol
        /\ l = i => ol = oi /\ nl = ni
        /\ j \in 1..vi /\ l \in Nat /\ i \in Nat
    BY <1>1, <1>2, <1>3
  <2> HIDE DEF oi, ol, ni, nl, vi, vl
  <2>2. (oi + ni + j) - ol \notin 1..nl
    BY <2>1
  <2> QED
    BY <2>2 DEF oi, ol, ni, nl
<1>7. \A j \in 1..name(i) : NamedAt(k, off(i) + j) = {i}
  BY <1>1, <1>4, <1>5
<1>8. \A j \in 1..value(i) : NamedAt(k, off(i) + name(i) + j) = {}
  BY <1>4, <1>6
<1> QED
  BY <1>7, <1>8 DEF off, name, value

LEMMA NamesInText ==
  ASSUME NEW k \in Requests, NEW j \in Nat, j <= HeadLen(k) \/ TextLen(k) < j
  PROVE  NamedAt(k, j) = {}
<1> SUFFICES ASSUME NEW i \in NamedAt(k, j) PROVE FALSE
  OBVIOUS
<1> DEFINE off == Offset(k, i)
           name == Len(k.headers[i].name)
           x == j - off
<1>1. i \in 1..Len(k.headers) /\ x \in 1..name
  BY DEF NamedAt
<1>2. off \in Nat
  BY <1>1, OffsetFacts
<1>3. off + x \in (HeadLen(k) + 1)..TextLen(k)
  <2> HIDE DEF x
  <2> QED
    BY <1>1, HeaderPlaces
<1>4. off + x = j
  BY <1>2
<1>5. HeadLen(k) \in Nat /\ TextLen(k) \in Nat
  BY PlacesFacts
<1> HIDE DEF x, off
<1> QED
  BY <1>3, <1>4, <1>5

\* Cell j of the buffer of request r, in memory m, once the names are in title case.
TitledCell(m, r, j) ==
  LET i == CHOOSE i \in NamedAt(r.spec, j) : TRUE
      e == Entry(r.spec, i, r.buffer)
  IN  IF NamedAt(r.spec, j) = {} THEN m[r.buffer][j]
      ELSE title_case(Cells(m, e.name, e.name_len))[j - Offset(r.spec, i)]

LEMMA TitledCells ==
  ASSUME NEW m, IsMemory(m), NEW r, Holds(m, r)
  PROVE  LET w == TitleNames(m, r)
             b == r.buffer
         IN  /\ IsMemory(w) /\ Len(w[b]) = Len(m[b])
             /\ \A d \in Blocks \ {b} : w[d] = m[d]
             /\ \A j \in 1..Len(m[b]) : w[b][j] = TitledCell(m, r, j)
<1> DEFINE k == r.spec
           b == r.buffer
           n == Len(k.headers)
           headers == StructsAt(m, r.headers, r.num_headers)
           title(i) == title_case(Cells(m, headers[i].name, headers[i].name_len))
           named(j) == {i \in DOMAIN headers : j - headers[i].name.off \in DOMAIN title(i)}
           cell(j) == IF named(j) = {} THEN m[b][j]
                      ELSE LET i == CHOOSE i \in named(j) : TRUE
                           IN  title(i)[j - headers[i].name.off]
           z == Len(m[b])
           s == [j \in 1..z |-> cell(j)]
           w == TitleNames(m, r)
<1>1. k \in Requests /\ b \in Blocks
  BY HeldNumbers
<1>2. IsSequence(m[b]) /\ z \in Nat /\ DOMAIN m[b] = 1..z
  BY <1>1, SequenceFacts DEF IsMemory
<1>3. w = [m EXCEPT ![b] = [j \in DOMAIN m[b] |-> cell(j)]]
  BY DEF TitleNames
<1>4. w = Stored(m, b, s)
  <2>1. [j \in DOMAIN m[b] |-> cell(j)] = s
    BY <1>2
  <2> HIDE DEF s, cell, w
  <2> QED
    BY <1>3, <2>1 DEF Stored
<1>5. DOMAIN headers = 1..n /\ \A i \in 1..n : headers[i] = Entry(k, i, b)
  <2>1. headers = Entries(k, b)
    BY HeldEntries
  <2>2. DOMAIN Entries(k, b) = 1..n /\ \A i \in 1..n : Entries(k, b)[i] = Entry(k, i, b)
    BY DEF Entries
  <2> QED
    BY <2>1, <2>2
<1>6. ASSUME NEW i \in 1..n
      PROVE  /\ DOMAIN title(i) = 1..Len(k.headers[i].name)
             /\ headers[i].name.off = Offset(k, i)
  <2> DEFINE e == Entry(k, i, b)
             c == Cells(m, e.name, e.name_len)
  <2>1. IsSequence(c) /\ Len(c) = Len(k.headers[i].name)
    BY HeaderRead
  <2>2. headers[i] = e
    BY <1>5
  <2>3. e.name.off = Offset(k, i)
    BY DEF Entry, At
  <2> HIDE DEF e
  <2>4. DOMAIN title_case(c) = 1..Len(k.headers[i].name)
    BY <2>1, TitleFacts
  <2>5. title(i) = title_case(c)
    <3> HIDE DEF headers
    <3> QED
      BY <2>2
  <2> HIDE DEF title, headers
  <2> QED
    BY <2>2, <2>3, <2>4, <2>5
<1>7. \A j : named(j) = NamedAt(k, j)
  <2> HIDE DEF headers, title, n
  <2>1. \A j : named(j) = {i \in 1..n : j - Offset(k, i) \in 1..Len(k.headers[i].name)}
    BY <1>5, <1>6
  <2> QED
    BY <2>1 DEF NamedAt, n
<1>8. ASSUME NEW j PROVE cell(j) = TitledCell(m, r, j)
  <2> DEFINE i == CHOOSE i \in NamedAt(k, j) : TRUE
             e == Entry(k, i, b)
             there == title_case(Cells(m, e.name, e.name_len))[j - Offset(k, i)]
  <2>1. TitledCell(m, r, j) = IF NamedAt(k, j) = {} THEN m[b][j] ELSE there
    BY DEF TitledCell
  <2>2. cell(j) = IF NamedAt(k, j) = {} THEN m[b][j] ELSE title(i)[j - headers[i].name.off]
    <3>1. named(j) = NamedAt(k, j)
      BY <1>7
    <3> HIDE DEF named
    <3> QED
      BY <3>1
  <2>3. ASSUME NamedAt(k, j) # {} PROVE title(i)[j - headers[i].name.off] = there
    <3>1. i \in 1..n
      <4>1. i \in NamedAt(k, j)
        BY <2>3
      <4> HIDE DEF i
      <4> QED
        BY <4>1 DEF NamedAt
    <3>2. headers[i] = e /\ headers[i].name.off = Offset(k, i)
      BY <1>5, <1>6, <3>1
    <3> HIDE DEF i, e, headers
    <3> QED
      BY <3>2
  <2> HIDE DEF there, cell, title, headers, i
  <2> QED
    BY <2>1, <2>2, <2>3
<1> HIDE DEF cell, w
<1>9. IsSequence(s) /\ Len(s) = z /\ \A j \in 1..z : s[j] = cell(j)
  <2>1. s = [j \in 1..z |-> s[j]] /\ \A j \in 1..z : s[j] = cell(j)
    OBVIOUS
  <2> HIDE DEF s, z
  <2> QED
    BY <1>2, <2>1, FunctionSequence
<1> HIDE DEF s
<1>10. IsMemory(w) /\ w[b] = s /\ \A d \in Blocks \ {b} : w[d] = m[d]
  BY <1>1, <1>4, <1>9, WriteBlock
<1> QED
  BY <1>8, <1>9, <1>10 DEF w, b, z

\* Memory w is m but for the text of the headers of request r.
SameButHeaders(w, m, r) ==
  \A j \in 1..Len(m[r.buffer]) :
    j <= HeadLen(r.spec) \/ TextLen(r.spec) < j => w[r.buffer][j] = m[r.buffer][j]

LEMMA NamesTitled ==
  ASSUME NEW m, IsMemory(m), NEW r, IsRequest(r), Holds(m, r)
  PROVE  LET w == TitleNames(m, r)
         IN  Decoding([m |-> w, r |-> r], m, r) /\ SameButHeaders(w, m, r)
<1> DEFINE k == r.spec
           b == r.buffer
           w == TitleNames(m, r)
           x == m[b]
           y == w[b]
           h == HeadLen(k)
           t == TextLen(k)
<1>1. /\ k \in Requests /\ b \in Blocks \ {Wire} /\ Len(x) = r.buffer_len /\ r.buffer_len \in Nat
      /\ h \in Nat /\ t \in Nat /\ h <= t /\ End(k) \in Nat /\ End(k) <= r.buffer_len
      /\ t <= EntriesAt(k) /\ EntriesAt(k) \in Nat /\ EntriesAt(k) <= End(k)
      /\ Len(k.method) \in Nat /\ Len(k.method) <= h
  <2>1. Len(Target(k)) \in Nat /\ Len(k.method) \in Nat
    BY HeldNumbers, TargetSequence
  <2>2. Len(k.method) <= HeadLen(k)
    <3> DEFINE u == Len(k.method)
               v == Len(Target(k))
    <3>1. u \in Nat /\ v \in Nat /\ HeadLen(k) = u + v
      BY <2>1 DEF HeadLen
    <3> HIDE DEF u, v
    <3>2. u <= HeadLen(k)
      BY <3>1
    <3> QED
      BY <3>2 DEF u
  <2> QED
    BY <2>1, <2>2, HeldNumbers
<1>2. /\ IsMemory(w) /\ Len(y) = Len(x) /\ \A d \in Blocks \ {b} : w[d] = m[d]
      /\ \A j \in 1..Len(x) : y[j] = TitledCell(m, r, j)
  BY TitledCells
<1>3. Contents(x, b, k)
  BY DEF Holds
<1>4. \A j \in 1..Len(x) : NamedAt(k, j) = {} => y[j] = x[j]
  BY <1>2 DEF TitledCell
<1>5. ASSUME NEW j \in 1..Len(x), j <= h \/ t < j PROVE y[j] = x[j]
  <2>1. j \in Nat
    BY <1>1
  <2>2. NamedAt(k, j) = {}
    BY <1>1, <1>5, <2>1, NamesInText
  <2> QED
    BY <1>4, <2>2
<1>6. ASSUME NEW i \in 1..Len(k.headers) PROVE Spells(y, k, i)
  <2> DEFINE name == k.headers[i].name
             value == k.headers[i].value
             off == Offset(k, i)
             e == Entry(k, i, b)
             c == Cells(m, e.name, e.name_len)
  <2>1. /\ \A j \in 1..Len(name) : off + j \in (h + 1)..t
        /\ \A j \in 1..Len(value) : off + Len(name) + j \in (h + 1)..t
    BY <1>1, HeaderPlaces
  <2>2. \A j \in (h + 1)..t : j \in 1..Len(x)
    BY <1>1
  <2>3. ASSUME NEW j \in 1..Len(value) PROVE y[off + Len(name) + j] = value[j]
    <3> DEFINE p == off + Len(name) + j
    <3>1. NamedAt(k, p) = {}
      BY <1>1, NamesAlone
    <3>2. p \in 1..Len(x)
      BY <2>1, <2>2
    <3>3. x[p] = value[j]
      BY <1>3 DEF Contents, Spells
    <3> HIDE DEF p
    <3>4. y[p] = x[p]
      BY <1>4, <3>1, <3>2
    <3> QED
      BY <3>3, <3>4 DEF p
  <2>4. /\ IsSequence(c) /\ Len(c) = Len(name)
        /\ \A j \in 1..Len(name) : LowerOf(c[j]) = LowerOf(name[j])
    BY HeaderRead
  <2>5. ASSUME NEW j \in 1..Len(name) PROVE LowerOf(y[off + j]) = LowerOf(name[j])
    <3> DEFINE p == off + j
    <3>1. NamedAt(k, p) = {i}
      BY <1>1, NamesAlone
    <3>2. p \in 1..Len(x)
      BY <2>1, <2>2
    <3>3. p - off = j
      <4>1. off \in Nat
        BY <1>1, OffsetFacts
      <4> HIDE DEF off
      <4> QED
        BY <4>1
    <3> HIDE DEF p
    <3>4. TitledCell(m, r, p) = title_case(c)[p - off]
      <4>1. (CHOOSE l \in {i} : TRUE) = i
        OBVIOUS
      <4>2. (CHOOSE l \in NamedAt(k, p) : TRUE) = i
        BY <3>1, <4>1
      <4>3. NamedAt(k, p) # {}
        BY <3>1
      <4> QED
        BY <4>2, <4>3 DEF TitledCell
    <3> HIDE DEF c, name, off
    <3>5. LowerOf(title_case(c)[j]) = LowerOf(c[j])
      BY <2>4, TitleFacts
    <3>6. y[p] = title_case(c)[j]
      BY <1>2, <3>2, <3>3, <3>4
    <3> QED
      BY <2>4, <3>5, <3>6 DEF p
  <2> QED
    BY <2>3, <2>5 DEF Spells
<1>7. Contents(y, b, k)
  <2> DEFINE u == Len(k.method)
             z == Len(x)
             at == EntriesAt(k)
             end == End(k)
  <2>a. /\ z \in Nat /\ h \in Nat /\ t \in Nat /\ h <= t /\ end \in Nat /\ end <= z
        /\ t <= at /\ at \in Nat /\ at <= end /\ u \in Nat /\ u <= h
    BY <1>1
  <2>1. \A j \in 1..Len(k.method) : j \in 1..Len(x) /\ j <= h
    <3> HIDE DEF u, z, at, end, h, t
    <3>1. \A j \in 1..u : j \in 1..z /\ j <= h
      BY <2>a
    <3> QED
      BY <3>1 DEF u, z
  <2>2. \A j \in 1..Len(k.method) : y[j] = k.method[j]
    BY <1>3, <1>5, <2>1 DEF Contents
  <2>3. ASSUME NEW i \in 1..Len(k.headers) PROVE y[EntryAt(k, i)] = Entry(k, i, b)
    <3>1. EntryAt(k, i) \in (EntriesAt(k) + 1)..End(k)
      BY <1>1, PlacesFacts
    <3>2. EntryAt(k, i) \in 1..Len(x) /\ t < EntryAt(k, i)
      <4> DEFINE j == EntryAt(k, i)
      <4>1. j \in (at + 1)..end
        BY <3>1
      <4> HIDE DEF j, u, z, at, end, h, t
      <4>2. j \in 1..z /\ t < j
        BY <2>a, <4>1
      <4> QED
        BY <4>2 DEF j, z
    <3>3. y[EntryAt(k, i)] = x[EntryAt(k, i)]
      BY <1>5, <3>2
    <3> QED
      BY <1>3, <3>3 DEF Contents
  <2> QED
    BY <1>6, <2>2, <2>3 DEF Contents
<1> HIDE DEF w
<1>8. Holds(w, r)
  BY <1>1, <1>2, <1>7 DEF Holds
<1>9. Decoding([m |-> w, r |-> r], m, r)
  BY <1>2, <1>8 DEF Decoding, SameAnswer
<1> QED
  BY <1>5, <1>9 DEF w, SameButHeaders

\* Neither the target nor a match is in the names.
LEMMA TitledReads ==
  ASSUME NEW m, IsMemory(m), NEW r, IsRequest(r), Holds(m, r), Spoken(m, r), Matched(m, r)
  PROVE  Spoken(TitleNames(m, r), r) /\ Matched(TitleNames(m, r), r)
<1> DEFINE k == r.spec
           w == TitleNames(m, r)
           b == r.buffer
           e == ValuesAt(MatchOf(k).entries, k, b)
           n == Len(e)
           z == Len(m[b])
           h == HeadLen(k)
           t == TextLen(k)
<1>1. \A j \in 1..z : j <= h \/ t < j => w[b][j] = m[b][j]
  <2>1. SameButHeaders(w, m, r)
    BY NamesTitled
  <2> HIDE DEF w
  <2> QED
    BY <2>1 DEF SameButHeaders
<1>2. /\ k \in Requests /\ TextEnd(r) \in Nat /\ TextEnd(r) <= h /\ h \in Nat /\ h <= t /\ t \in Nat
      /\ t <= EntriesAt(k) /\ EntriesAt(k) \in Nat /\ EntriesAt(k) <= End(k) /\ End(k) \in Nat
      /\ End(k) <= r.buffer_len /\ r.buffer_len \in Nat /\ z = r.buffer_len
  BY HeldNumbers
<1> HIDE DEF w
<1>3. Spoken(w, r)
  <2>1. \A j \in 1..TextEnd(r) : w[b][j] = m[b][j]
    <3> TAKE j \in 1..TextEnd(r)
    <3>1. j \in 1..z /\ j <= h
      <4> DEFINE te == TextEnd(r)
                 at == EntriesAt(k)
                 end == End(k)
      <4>1. /\ te \in Nat /\ te <= h /\ h \in Nat /\ h <= t /\ t \in Nat /\ t <= at /\ at \in Nat
            /\ at <= end /\ end \in Nat /\ end <= z /\ z \in Nat /\ j \in 1..te
        BY <1>2
      <4> HIDE DEF te, at, end, h, t, z
      <4> QED
        BY <4>1
    <3> QED
      BY <1>1, <3>1
  <2>2. \A f \in TextFields : r[f] = r[f]
    OBVIOUS
  <2> QED
    BY <2>1, <2>2, SpokenSame
<1>4. r.path_decoded /\ r.entry = MatchOf(k).entry /\ Lists(m, r, e)
  BY DEF Matched
<1>5. n \in Nat
  BY <1>2, <1>4, MatchLength
<1> HIDE DEF e
<1>6. PICK off :
        /\ Behind(off, k) /\ TextEnd(r) <= off /\ off + StructLen * n <= r.buffer_len
        /\ r.match_dict_entries = At(b, off) /\ r.match_dict_length = n
        /\ \A i \in 1..n : m[b][off + StructLen * (i - 1) + 1] = e[i]
  BY <1>4 DEF Lists
<1>7. off \in Nat /\ (Len(k.headers) # 0 => End(k) <= off) /\ (Len(k.headers) = 0 => t = h)
  BY <1>2, <1>6, WireTextFacts DEF Behind
<1>8. ASSUME NEW i \in 1..n
      PROVE  w[b][off + StructLen * (i - 1) + 1] = e[i]
  <2> DEFINE o == StructLen * (i - 1)
             l == StructLen * n
             j == off + o + 1
  <2>1. i - 1 \in Nat /\ i - 1 < n
    BY <1>5
  <2>2. o \in Nat /\ o + StructLen <= l /\ l \in Nat
    BY <1>5, <2>1, Times
  <2>3. off + l <= z
    BY <1>2, <1>6
  <2>a. /\ off \in Nat /\ z \in Nat /\ h \in Nat /\ t \in Nat
        /\ t <= off \/ t = h
    <3> DEFINE at == EntriesAt(k)
               end == End(k)
               c == Len(k.headers)
    <3>1. /\ off \in Nat /\ z \in Nat /\ h \in Nat /\ t \in Nat
          /\ t <= at /\ at \in Nat /\ at <= end /\ end \in Nat
          /\ (c # 0 => end <= off) /\ (c = 0 => t = h)
      BY <1>2, <1>7
    <3> HIDE DEF at, end, c, h, t, z
    <3> QED
      BY <3>1
  <2> HIDE DEF o, l, z, h, t
  <2>4. j \in 1..z /\ (j <= h \/ t < j)
    <3>1. j \in 1..z /\ off < j
      BY <2>a, <2>2, <2>3, StructPositive
    <3> HIDE DEF j
    <3> QED
      BY <2>a, <3>1
  <2> HIDE DEF j
  <2>5. w[b][j] = m[b][j]
    BY <1>1, <2>4
  <2>6. m[b][j] = e[i]
    BY <1>6 DEF j, o
  <2> QED
    BY <2>5, <2>6 DEF j, o
<1>9. Lists(w, r, e)
  BY <1>6, <1>8 DEF Lists, n
<1> QED
  BY <1>3, <1>4, <1>9 DEF Matched, e, w

\* What a handler reads is kept, and nothing else of the request is touched.
LEMMA ReadKept ==
  ASSUME NEW m, NEW r, IsRequest(r), Spoken(m, r), Matched(m, r), Remembers(r),
         NEW a \in Attributes, NEW v, a \in Readables => v = Said(r.spec, a)
  PROVE  LET q == [r EXCEPT !.py[a] = v]
         IN  Reads(m, q) /\ Matched(m, q)
<1> DEFINE q == [r EXCEPT !.py[a] = v]
           p == [r.py EXCEPT ![a] = v]
<1>1. \A f \in Fields \ {"py"} : q[f] = r[f]
  BY DEF IsRequest, Fields
<1>2. q.py = p
  BY DEF IsRequest, Fields
<1>3. /\ r.py = [x \in Attributes |-> r.py[x]]
      /\ \A x \in Attributes \cap Readables : r.py[x] # None => r.py[x] = Said(r.spec, x)
  BY DEF Remembers
<1>4. /\ p = [x \in Attributes |-> p[x]]
      /\ p[a] = v /\ \A x \in Attributes \ {a} : p[x] = r.py[x]
  BY <1>3
<1> HIDE DEF p, q
<1>5. /\ q.path_decoded = r.path_decoded /\ q.qs_decoded = r.qs_decoded
      /\ q.path_len = r.path_len /\ q.qs_len = r.qs_len /\ q.spec = r.spec
      /\ q.buffer = r.buffer /\ q.buffer_len = r.buffer_len
      /\ q.entry = r.entry /\ q.match_dict_entries = r.match_dict_entries
      /\ q.match_dict_length = r.match_dict_length
  BY <1>1 DEF Fields
<1>6. TargetText(q) = TargetText(r) /\ TextEnd(q) = TextEnd(r)
  BY <1>5 DEF TargetText, TextEnd
<1>7. Spoken(m, q)
  BY <1>5, <1>6 DEF Spoken
<1>8. Matched(m, q)
  BY <1>5, <1>6 DEF Matched, Lists
<1>9. ASSUME NEW x \in Attributes \cap Readables, p[x] # None
      PROVE  p[x] = Said(r.spec, x)
  <2>1. CASE x = a
    BY <1>4, <2>1
  <2>2. CASE x # a
    BY <1>3, <1>4, <1>9, <2>2
  <2> QED
    BY <2>1, <2>2
<1>10. Remembers(q)
  BY <1>2, <1>4, <1>5, <1>9 DEF Remembers
<1> QED
  BY <1>7, <1>8, <1>10 DEF Reads, q

(***************************************************************************)
(* The invariant: every request in use holds the head its client sent.     *)
(***************************************************************************)

\* The requests somebody may still read.
InUse == live \cup (IF current = None THEN {} ELSE {current.obj})

Kept(m, o) == Holds(m, req[o]) /\ OwnAnswer(req[o]) /\ Reads(m, req[o])

MemInv ==
  /\ IsMemory(mem)
  /\ \A o \in InUse : Kept(mem, o)
  /\ \A o \in Readable : Matched(mem, req[o])
  /\ Rendered(cache)

LEMMA InUseOwns ==
  ASSUME IInv
  PROVE  InUse \subseteq Conns \cup live
BY DEF IInv, InHand, InUse

\* Where the buffer of a request in use is, and where it is not.
LEMMA Apart ==
  ASSUME IInv, NEW o \in Conns \cup live
  PROVE  /\ o \in Objects /\ IsRequest(req[o])
         /\ req[o].buffer \in Blocks \ {Wire}
         /\ req[o].buffer \in {o} \cup Heap
         /\ req[o].buffer \in Heap => req[o].buffer \in heap
         /\ \A p \in Conns \cup live : req[p].buffer = req[o].buffer => p = o
         /\ \A p \in Objects \ {o} : req[o].buffer # p
         /\ OwnBlock(o) = {req[o].buffer} \cap Heap
<1> USE RequestAssumption DEF Objects
<1>1. live \in SUBSET Clones /\ Owns(Buffers, live, heap) /\ Shape
  BY DEF IInv
<1>2. \A p \in Objects : Buffers[p] = req[p].buffer
  BY DEF Buffers
<1>3. o \in Objects /\ IsRequest(req[o])
  BY <1>1 DEF Shape
<1>4. req[o].buffer \in {o} \cup Heap
  BY <1>1, <1>2, <1>3 DEF Owns
<1>5. req[o].buffer \in Heap => req[o].buffer \in heap
  BY <1>1, <1>2, <1>3 DEF Owns
<1>6. \A p \in Conns \cup live : req[p].buffer = req[o].buffer => p = o
  BY <1>1, <1>2, <1>3 DEF Owns
<1>7. \A p \in Objects \ {o} : req[o].buffer # p
  BY <1>3, <1>4
<1>8. req[o].buffer \in Blocks \ {Wire}
  BY <1>3, <1>4 DEF Blocks
<1> QED
  BY <1>3, <1>4, <1>5, <1>6, <1>7, <1>8 DEF OwnBlock

LEMMA ReadableInUse ==
  /\ live \subseteq Readable /\ Readable \subseteq InUse
  /\ Handled \subseteq Readable
BY DEF Readable, InUse, Handled

LEMMA ReadableInPrime == Readable' \subseteq InUse'
BY DEF Readable, InUse

\* A request whose buffer a step does not touch still holds its head, and can be
\* read as before.
LEMMA Untroubled ==
  ASSUME NEW m, NEW r, NEW w, w[r.buffer] = m[r.buffer]
  PROVE  /\ Holds(m, r) => Holds(w, r)
         /\ Reads(m, r) => Reads(w, r)
         /\ Matched(m, r) => Matched(w, r)
BY ReadsOn DEF Holds

\* Blocks that are freed.
LEMMA FreedFacts ==
  ASSUME NEW m, IsMemory(m), NEW o
  PROVE  /\ IsMemory(Freed(m, o))
         /\ \A d \in Blocks \ OwnBlock(o) : Freed(m, o)[d] = m[d]
<1> DEFINE w == Freed(m, o)
<1>1. DOMAIN m = Blocks /\ \A d \in Blocks : IsSequence(m[d])
  BY DEF IsMemory
<1>2. /\ w = [d \in Blocks |-> w[d]]
      /\ \A d \in Blocks : w[d] = IF d \in OwnBlock(o) THEN <<>> ELSE m[d]
  BY <1>1 DEF Freed
<1> HIDE DEF w
<1>3. \A d \in Blocks : IsSequence(w[d])
  BY <1>1, <1>2, EmptyIsSequence
<1> QED
  BY <1>2, <1>3 DEF IsMemory, w

LEMMA InitMem == Init => MemInv
<1> SUFFICES ASSUME Init PROVE MemInv
  OBVIOUS
<1>1. /\ mem = [b \in Blocks |-> IF b \in Conns THEN Blank(InlineLen) ELSE <<>>]
      /\ live = {} /\ current = None /\ cache = <<>>
  BY DEF Init, Blocks, Objects
<1>2. IsSequence(Blank(InlineLen)) /\ InlineLen \in Nat
  BY BlankFacts, RequestAssumption
<1>3. IsMemory(mem)
  <2>1. \A b \in Blocks : IsSequence(mem[b])
    BY <1>1, <1>2, EmptyIsSequence
  <2>2. mem = [b \in Blocks |-> mem[b]]
    BY <1>1
  <2> QED
    BY <2>1, <2>2 DEF IsMemory
<1>4. InUse = {}
  BY <1>1 DEF InUse
<1>5. Rendered(cache)
  BY <1>1, EmptyIsSequence DEF Rendered
<1>6. Readable = {}
  BY <1>4, ReadableInUse
<1> QED
  BY <1>3, <1>4, <1>5, <1>6 DEF MemInv

LEMMA InitAnswered == Init => AnsweredForItself
BY DEF Init, AnsweredForItself

\* What a step that leaves the memory alone keeps.
LEMMA ConfigurePoolMem ==
  ASSUME MemInv, NEW n \in PoolSizes, ConfigurePool(n)
  PROVE  MemInv' /\ AnsweredForItself'
<1>1. UNCHANGED <<req, mem, live, current, cache>> /\ sent' = None
  BY DEF ConfigurePool
<1>2. InUse' = InUse /\ Readable' = Readable
  BY <1>1 DEF InUse, Readable
<1>3. MemInv'
  BY <1>1, <1>2 DEF MemInv, Kept
<1> QED
  BY <1>1, <1>3 DEF AnsweredForItself

\* The parser's buffer filled and the connection's request blanked.
LEMMA RawMemory ==
  ASSUME NEW m, IsMemory(m), NEW c \in Conns, NEW k \in Requests
  PROVE  LET raw == [Freed(m, c) EXCEPT ![Wire] = WireText(k) \o Structs(WireHeaders(k)),
                                        ![c] = Blank(InlineLen)]
         IN  /\ IsMemory(raw) /\ raw[Wire] = WireText(k) \o Structs(WireHeaders(k))
             /\ Len(raw[c]) = InlineLen
             /\ \A d \in Blocks \ (OwnBlock(c) \cup {Wire, c}) : raw[d] = m[d]
<1> DEFINE t == WireText(k)
           e == WireHeaders(k)
           s == Structs(e)
           text == t \o s
           blank == Blank(InlineLen)
           f == Freed(m, c)
           g == Stored(f, Wire, text)
           raw == Stored(g, c, blank)
<1>1. IsSequence(t) /\ IsSequence(e)
  BY WireTextFacts, WireHeadersFacts
<1> HIDE DEF t, e
<1>2. IsSequence(s)
  BY <1>1, StructsFacts
<1> HIDE DEF s
<1>3. IsSequence(text)
  BY <1>1, <1>2, Joined
<1> HIDE DEF text
<1>4. InlineLen \in Nat
  BY RequestAssumption
<1>5. IsSequence(blank) /\ Len(blank) = InlineLen
  BY <1>4, BlankFacts
<1> HIDE DEF blank
<1>6. IsMemory(f) /\ \A d \in Blocks \ OwnBlock(c) : f[d] = m[d]
  BY FreedFacts
<1> HIDE DEF f
<1>7. Wire \in Blocks /\ c \in Blocks /\ c # Wire
  BY RequestAssumption DEF Blocks, Objects
<1>8. IsMemory(g) /\ g[Wire] = text /\ \A d \in Blocks \ {Wire} : g[d] = f[d]
  BY <1>3, <1>6, <1>7, WriteBlock
<1> HIDE DEF g
<1>9. IsMemory(raw) /\ raw[c] = blank /\ \A d \in Blocks \ {c} : raw[d] = g[d]
  BY <1>5, <1>7, <1>8, WriteBlock
<1>10. raw = [f EXCEPT ![Wire] = text, ![c] = blank]
  BY DEF raw, g, Stored
<1> HIDE DEF raw
<1>11. /\ IsMemory(raw) /\ raw[Wire] = text /\ Len(raw[c]) = InlineLen
       /\ \A d \in Blocks \ (OwnBlock(c) \cup {Wire, c}) : raw[d] = m[d]
  BY <1>5, <1>6, <1>7, <1>8, <1>9
<1> QED
  BY <1>10, <1>11 DEF f, text, t, s, e, blank

\* A request anew in a connection, and the requests of the clones as they were.
LEMMA OnHeadersMem ==
  ASSUME IInv, MemInv, NEW c \in Conns, NEW k \in Requests, OnHeaders(c, k)
  PROVE  MemInv' /\ AnsweredForItself'
<1> DEFINE raw == [Freed(mem, c) EXCEPT ![Wire] = WireText(k) \o Structs(WireHeaders(k)),
                                        ![c] = Blank(InlineLen)]
           r == FromRaw(c, k)
           free == Heap \ (heap \ OwnBlock(c))
           copied(b) == CopyHeaders(raw, r, b)
<1>1. PICK b \in RoomIn(r, HeadersNeed(raw, r), free) :
        /\ req' = [req EXCEPT ![c] = copied(b).r]
        /\ mem' = Stored(copied(b).m, Wire, <<>>)
  BY DEF OnHeaders, Stored
<1>2. /\ current = None /\ current'.obj = c /\ current'.stage = "parsed" /\ sent' = None
      /\ live' = live /\ cache' = cache
  BY DEF OnHeaders
<1>3. IsRequest(r) /\ r.buffer = c
  BY RawBuffer
<1>4. IsMemory(mem)
  BY DEF MemInv
<1>5. /\ IsMemory(raw) /\ raw[Wire] = WireText(k) \o Structs(WireHeaders(k))
      /\ Len(raw[c]) = InlineLen
      /\ \A d \in Blocks \ (OwnBlock(c) \cup {Wire, c}) : raw[d] = mem[d]
  BY <1>4, RawMemory, ZenonT(60)
<1> HIDE DEF raw
<1>6. b \in {c} \cup free /\ (Fits(r, HeadersNeed(raw, r)) => b = c)
  BY <1>1, <1>3, RequestAssumption DEF RoomIn
<1>7. b \in Blocks \ {Wire} /\ c \in Blocks \ {Wire}
  BY <1>6, RequestAssumption DEF Blocks, Objects
<1> DEFINE q == copied(b).r
           m == copied(b).m
<1>8. /\ IsMemory(m) /\ Holds(m, q) /\ q.spec = k /\ q.response = None
      /\ \A d \in Blocks \ {b, c} : m[d] = raw[d]
      /\ \A j \in 1..TextLen(k) : m[b][j] = WireText(k)[j]
  BY <1>5, <1>6, <1>7, HeadCopied
<1>9. IsRequest(q) /\ q.buffer = b
  BY <1>3, CopiedHeaders
<1>a. Reads(m, q)
  <2> HIDE DEF m
  <2> QED
    BY <1>8, HeadReads
<1> HIDE DEF q, m, r, copied
<1>10. req' = [req EXCEPT ![c] = q] /\ mem' = Stored(m, Wire, <<>>)
  BY <1>1 DEF q, m
<1>11. Wire \in Blocks
  BY DEF Blocks
<1>12. IsMemory(mem') /\ \A d \in Blocks \ {Wire} : mem'[d] = m[d]
  BY <1>8, <1>10, <1>11, EmptyIsSequence, WriteBlock
<1>13. req'[c] = q /\ \A o \in Objects \ {c} : req'[o] = req[o]
  BY <1>10 DEF IInv, Shape, Objects
<1>14. Holds(mem', req'[c]) /\ OwnAnswer(req'[c]) /\ Reads(mem', req'[c])
  <2>1. mem'[q.buffer] = m[q.buffer]
    BY <1>7, <1>9, <1>12
  <2>2. Holds(mem', q) /\ Reads(mem', q)
    BY <1>8, <1>a, <2>1, Untroubled
  <2> QED
    BY <1>8, <1>13, <2>2 DEF OwnAnswer
<1>15. /\ InUse = live /\ InUse' \subseteq live \cup {c}
       /\ Readable = live /\ Readable' = live
  BY <1>2 DEF InUse, Readable
<1>16. ASSUME NEW o \in live
       PROVE  /\ Holds(mem', req'[o]) /\ OwnAnswer(req'[o]) /\ Reads(mem', req'[o])
              /\ Matched(mem', req'[o])
  <2> DEFINE a == req[o].buffer
  <2>1. o \in Clones /\ o # c /\ c \in Conns \cup live /\ o \in Conns \cup live
    BY RequestAssumption DEF IInv
  <2>2. /\ a \in Blocks \ {Wire} /\ (a \in Heap => a \in heap) /\ a # c
        /\ req[c].buffer # a /\ OwnBlock(c) = {req[c].buffer} \cap Heap
    BY <2>1, Apart DEF Objects
  <2>3. a # b
    BY <1>6, <2>2
  <2>4. mem'[a] = mem[a]
    BY <1>5, <1>8, <1>12, <2>2, <2>3
  <2>5. Kept(mem, o) /\ Matched(mem, req[o]) /\ req'[o] = req[o]
    BY <1>13, <1>15, <2>1 DEF MemInv, Objects
  <2>6. /\ Holds(mem', req[o]) /\ OwnAnswer(req[o]) /\ Reads(mem', req[o])
        /\ Matched(mem', req[o])
    BY <2>4, <2>5, Untroubled DEF Kept
  <2> QED
    BY <2>5, <2>6
<1>17. Rendered(cache')
  BY <1>2 DEF MemInv
<1>18. MemInv'
  BY <1>12, <1>14, <1>15, <1>16, <1>17 DEF MemInv, Kept
<1> QED
  BY <1>2, <1>18 DEF AnsweredForItself

\* What a request's head in memory does not depend on.
LEMMA SamePlace ==
  ASSUME NEW m, NEW r, NEW q,
         \A f \in Fields \ {"entry", "simple", "py", "response", "answer"} : q[f] = r[f]
  PROVE  /\ Holds(m, r) => Holds(m, q)
         /\ HasMatches(r) => HasMatches(q)
         /\ q.spec = r.spec /\ q.buffer = r.buffer
<1>1. /\ q.method = r.method /\ q.method_len = r.method_len /\ q.path = r.path
      /\ q.path_len = r.path_len /\ q.qs_len = r.qs_len /\ q.minor_version = r.minor_version
      /\ q.headers = r.headers /\ q.num_headers = r.num_headers
      /\ q.match_dict_entries = r.match_dict_entries /\ q.match_dict_length = r.match_dict_length
      /\ q.buffer = r.buffer /\ q.buffer_len = r.buffer_len
      /\ q.spec = r.spec
  BY DEF Fields
<1> QED
  BY <1>1 DEF Holds, Placed, Points, HasMatches

LEMMA SameFields ==
  ASSUME NEW m, NEW r, NEW q, \A f \in Fields \ {"entry", "simple", "py"} : q[f] = r[f]
  PROVE  /\ Holds(m, r) => Holds(m, q)
         /\ HasMatches(r) => HasMatches(q)
         /\ SameAnswer(q, r) /\ q.buffer = r.buffer
<1>1. q.response = r.response /\ q.answer = r.answer
  BY DEF Fields
<1> QED
  BY <1>1, SamePlace DEF SameAnswer

LEMMA RoutedHolds ==
  ASSUME NEW c \in Conns, IsMemory(mem), IsRequest(req[c]), Kept(mem, c),
         NEW b \in MatchRoom(c, Found(c))
  PROVE  LET routed == Routed(c, Found(c), b)
         IN  /\ IsMemory(routed.m) /\ Holds(routed.m, routed.r) /\ IsRequest(routed.r)
             /\ OwnAnswer(routed.r) /\ HasMatches(routed.r) /\ routed.r.buffer = b
             /\ Reads(routed.m, routed.r) /\ Matched(routed.m, routed.r)
             /\ \A d \in Blocks \ {b, req[c].buffer} : routed.m[d] = mem[d]
<1> DEFINE d == Decoded(c)
           f == Found(c)
           e == FoundEntries(c, f)
           copied == CopyMatches(d.m, d.r, e, b)
           routed == Routed(c, f, b)
<1>1. Holds(mem, req[c]) /\ OwnAnswer(req[c]) /\ Reads(mem, req[c])
  BY DEF Kept
<1>a. Reads(routed.m, routed.r) /\ Matched(routed.m, routed.r)
  BY <1>1, RoutedReads
<1>2. Decoding(d, mem, req[c])
  BY <1>1, PathDecoded DEF Decoded
<1>3. /\ IsMemory(d.m) /\ Holds(d.m, d.r) /\ IsRequest(d.r) /\ SameAnswer(d.r, req[c])
      /\ d.r.buffer = req[c].buffer /\ \A x \in Blocks \ {d.r.buffer} : d.m[x] = mem[x]
  BY <1>2 DEF Decoding
<1>4. IsSequence(f.entries)
  BY MatchListed DEF Found
<1>5. b \in RoomIn(d.r, MatchNeed(d.m, d.r, Len(f.entries)), Heap \ heap)
  BY DEF MatchRoom
<1> HIDE DEF f
<1>6. IsSequence(e) /\ Len(e) = Len(f.entries)
  <2> DEFINE s == f.entries
             n == Len(s)
  <2>1. n \in Nat /\ DOMAIN s = 1..n
    BY <1>4, SequenceFacts
  <2>2. e = [i \in 1..n |-> e[i]]
    BY <2>1 DEF FoundEntries
  <2> HIDE DEF e, n
  <2>3. IsSequence(e) /\ Len(e) = n
    BY <2>1, <2>2, FunctionSequence
  <2> QED
    BY <2>3 DEF n
<1> HIDE DEF e, d
<1>7. /\ Fits(d.r, MatchNeed(d.m, d.r, Len(e))) => b = d.r.buffer
      /\ b \in {d.r.buffer} \cup Heap
  BY <1>5, <1>6 DEF RoomIn
<1>8. b \in Blocks \ {Wire}
  <2>1. d.r.buffer \in Blocks \ {Wire}
    BY <1>3 DEF Holds, Placed
  <2>2. Heap \subseteq Blocks \ {Wire}
    BY RequestAssumption DEF Blocks
  <2> QED
    BY <1>7, <2>1, <2>2
<1>9. /\ IsMemory(copied.m) /\ Holds(copied.m, copied.r) /\ IsRequest(copied.r)
      /\ SameAnswer(copied.r, d.r) /\ HasMatches(copied.r) /\ copied.r.buffer = b
      /\ \A x \in Blocks \ {b, d.r.buffer} : copied.m[x] = d.m[x]
  BY <1>3, <1>6, <1>7, <1>8, MatchesCopied
<1>10. /\ routed.m = copied.m /\ IsRequest(routed.r)
       /\ \A x \in Fields \ {"entry", "simple"} : routed.r[x] = copied.r[x]
  BY <1>9, RoutedFields DEF d, e
<1> HIDE DEF routed, copied
<1>11. /\ Holds(routed.m, routed.r) /\ HasMatches(routed.r)
       /\ SameAnswer(routed.r, copied.r) /\ routed.r.buffer = b
  BY <1>9, <1>10, SameFields
<1>12. OwnAnswer(routed.r)
  <2>1. SameAnswer(routed.r, req[c])
    BY <1>3, <1>9, <1>11 DEF SameAnswer
  <2> QED
    BY <1>1, <2>1, SameAnswerOwn
<1>13. \A x \in Blocks \ {b, req[c].buffer} : routed.m[x] = mem[x]
  BY <1>3, <1>9, <1>10
<1> QED
  BY <1>a, <1>9, <1>10, <1>11, <1>12, <1>13 DEF routed, f

\* The request is matched, and handled where it is or in a clone.
LEMMA OnBodyMem ==
  ASSUME IInv, MemInv, NEW c \in Conns, OnBody(c)
  PROVE  MemInv' /\ AnsweredForItself'
<1> DEFINE f == Found(c)
<1>1. PICK b \in MatchRoom(c, f) : \/ OnBodyInPlace(c, Routed(c, f, b))
                                   \/ OnBodyCloned(c, Routed(c, f, b))
  BY DEF OnBody, Routings
<1> DEFINE routed == Routed(c, f, b)
           m == routed.m
           r == routed.r
           a == req[c].buffer
<1>2. current = [conn |-> c, obj |-> c, stage |-> "parsed"]
  BY DEF OnBody
<1>3. current.obj = c /\ c \in InUse
  <2>1. current # None
    BY <1>2, NoneAssumption
  <2> QED
    BY <1>2, <2>1 DEF InUse
<1>4. InUse = live \cup {c}
  BY <1>3 DEF InUse
<1>5. IsRequest(req[c]) /\ Kept(mem, c) /\ IsMemory(mem) /\ c \in Objects
  BY <1>3 DEF IInv, Shape, MemInv, Objects
<1>6. /\ IsMemory(m) /\ Holds(m, r) /\ IsRequest(r)
      /\ OwnAnswer(r) /\ HasMatches(r) /\ r.buffer = b
      /\ Reads(m, r) /\ Matched(m, r)
      /\ \A d \in Blocks \ {b, a} : m[d] = mem[d]
  BY <1>5, RoutedHolds
<1>7. b \in {a} \cup (Heap \ heap)
  <2>1. Decoded(c).r.buffer = a
    BY <1>5, DecodedBuffer DEF Decoded
  <2> QED
    BY <1>1, <2>1 DEF MatchRoom, RoomIn
<1>8. OnBodyInPlace(c, routed) \/ OnBodyCloned(c, routed)
  BY <1>1
<1> HIDE DEF f, routed, m, r
<1>9. ASSUME NEW o \in live
      PROVE  /\ o \in Objects /\ o # c /\ m[req[o].buffer] = mem[req[o].buffer]
             /\ Kept(mem, o) /\ Kept(m, o) /\ Matched(m, req[o])
             /\ req[o].buffer \in Blocks \ {Wire} /\ \A p \in Objects \ {o} : req[o].buffer # p
  <2> DEFINE x == req[o].buffer
  <2>1. o \in Clones /\ o # c /\ c \in Conns \cup live /\ o \in Conns \cup live
    BY RequestAssumption DEF IInv
  <2>2. /\ o \in Objects /\ x \in Blocks \ {Wire} /\ (x \in Heap => x \in heap) /\ x # a
        /\ \A p \in Objects \ {o} : x # p
    BY <2>1, Apart
  <2>3. m[x] = mem[x]
    BY <1>6, <1>7, <2>2
  <2>4. Kept(mem, o) /\ Matched(mem, req[o])
    BY <1>4, ReadableInUse DEF MemInv
  <2>5. Kept(m, o) /\ Matched(m, req[o])
    BY <2>3, <2>4, Untroubled DEF Kept
  <2> QED
    BY <2>1, <2>2, <2>3, <2>4, <2>5
<1>10. CASE OnBodyInPlace(c, routed)
  <2>1. req' = [req EXCEPT ![c] = r] /\ mem' = m /\ live' = live
    BY <1>10 DEF OnBodyInPlace, r, m
  <2>2. req'[c] = r /\ \A o \in Objects \ {c} : req'[o] = req[o]
    BY <1>5, <2>1 DEF IInv, Shape
  <2>3. InUse' \subseteq live \cup {c}
    <3>1. current' = None \/ current'.obj = c
      BY <1>2, <1>10 DEF OnBodyInPlace
    <3> QED
      BY <2>1, <3>1 DEF InUse
  <2>4. ASSUME NEW o \in InUse'
        PROVE  /\ Holds(mem', req'[o]) /\ OwnAnswer(req'[o]) /\ Reads(mem', req'[o])
               /\ Matched(mem', req'[o])
    <3>1. CASE o = c
      BY <3>1, <2>1, <2>2, <1>6
    <3>2. CASE o \in live
      BY <3>2, <2>1, <2>2, <1>9 DEF Kept
    <3> QED
      BY <2>3, <3>1, <3>2
  <2>5. Rendered(cache') /\ AnsweredForItself'
    <3>1. CASE sent' = None /\ UNCHANGED cache
      BY <3>1 DEF MemInv, AnsweredForItself
    <3>2. CASE Write(m, r)
      BY <3>2, <1>6, WrittenForItself DEF MemInv
    <3> QED
      BY <1>10, <3>1, <3>2 DEF OnBodyInPlace, m, r
  <2> QED
    BY <1>6, <2>1, <2>4, <2>5, ReadableInPrime DEF MemInv, Kept
<1>11. CASE OnBodyCloned(c, routed)
  <2> DEFINE cloned(o) == Request_clone(m, r, c, o)
  <2>1. PICK o \in Allocated :
          /\ req' = [req EXCEPT ![c] = cloned(o).original, ![o] = cloned(o).clone]
          /\ mem' = cloned(o).m
          /\ live' = live \cup {o}
          /\ pool' = IF FromPool THEN [pool EXCEPT !.items = Front(@)] ELSE pool
          /\ current' = None \/ current' = [conn |-> c, obj |-> o, stage |-> "handler"]
    BY <1>11 DEF OnBodyCloned, m, r
  <2>2. o \in Clones \ live
    BY <2>1, AllocatedIsFree
  <2>3. o \in Objects /\ o # c /\ o \in Blocks \ {Wire} /\ c \in Blocks \ {Wire} /\ o \notin Heap
    BY <2>2, RequestAssumption DEF Objects, Blocks
  <2>4. r.buffer # o
    <3>1. c \in Conns \cup live /\ o \in Objects \ {c}
      BY <2>3
    <3>2. a # o
      BY <3>1, Apart
    <3> QED
      BY <1>6, <1>7, <2>3, <3>2
  <2>5. /\ IsMemory(cloned(o).m) /\ Holds(cloned(o).m, cloned(o).clone)
        /\ cloned(o).clone.response = None
        /\ \A d \in Blocks \ {o} : cloned(o).m[d] = m[d]
    BY <1>6, <2>3, <2>4, Cloned
  <2>a. Reads(cloned(o).m, cloned(o).clone) /\ Matched(cloned(o).m, cloned(o).clone)
    BY <1>6, <2>3, <2>4, ClonedReads
  <2> HIDE DEF cloned
  <2> DEFINE q == cloned(o).clone
             w == cloned(o).m
  <2>6. req'[o] = q /\ \A p \in Objects \ {c, o} : req'[p] = req[p]
    BY <1>5, <2>1, <2>3 DEF IInv, Shape
  <2>7. mem' = w
    BY <2>1
  <2> HIDE DEF q, w
  <2>8. OwnAnswer(q)
    BY <2>5 DEF OwnAnswer, q
  <2>9. InUse' = live \cup {o}
    BY <2>1 DEF InUse
  <2>10. ASSUME NEW p \in InUse'
         PROVE  /\ Holds(mem', req'[p]) /\ OwnAnswer(req'[p]) /\ Reads(mem', req'[p])
                /\ Matched(mem', req'[p])
    <3>1. CASE p = o
      BY <3>1, <2>a, <2>5, <2>6, <2>7, <2>8 DEF q, w
    <3>2. CASE p \in live
      <4>1. p # o /\ p # c /\ p \in Objects /\ req'[p] = req[p] /\ Kept(m, p)
           /\ Matched(m, req[p])
        BY <3>2, <2>2, <2>6, <1>9
      <4>2. w[req[p].buffer] = m[req[p].buffer]
        BY <3>2, <1>9, <2>3, <2>5, <4>1 DEF w
      <4>3. Holds(w, req[p]) /\ Reads(w, req[p]) /\ Matched(w, req[p])
        BY <4>1, <4>2, Untroubled DEF Kept
      <4> QED
        BY <2>7, <4>1, <4>3 DEF Kept
    <3> QED
      BY <2>9, <3>1, <3>2
  <2>11. sent' = None /\ cache' = cache
    BY <1>11 DEF OnBodyCloned
  <2>12. MemInv'
    BY <2>5, <2>7, <2>10, <2>11, ReadableInPrime DEF MemInv, Kept, w
  <2> QED
    BY <2>11, <2>12 DEF AnsweredForItself
<1> QED
  BY <1>8, <1>10, <1>11

\* A request in use is the only one that what a handler does to it disturbs.
LEMMA HandledInUse ==
  ASSUME IInv, MemInv, NEW o \in Handled
  PROVE  /\ o \in Objects /\ o \in InUse /\ IsRequest(req[o]) /\ Kept(mem, o) /\ IsMemory(mem)
         /\ \A p \in InUse : /\ p \in Objects /\ Kept(mem, p) /\ Matched(mem, req[p])
                             /\ req[p].buffer \in Blocks
                             /\ req[p].buffer = req[o].buffer => p = o
<1>1. o \in Objects /\ o \in InUse
  BY HandledIsObject DEF InUse
<1>2. InUse \subseteq Conns \cup live
  BY InUseOwns
<1>3. \A p \in InUse : p \in Objects /\ Kept(mem, p) /\ req[p].buffer \in Blocks
  BY <1>2, Apart DEF MemInv
<1>4. ASSUME NEW p \in InUse, req[p].buffer = req[o].buffer PROVE p = o
  BY <1>1, <1>2, <1>4, Apart
<1>5. InUse = Readable
  BY DEF InUse, Readable, Handled
<1>6. \A p \in InUse : Matched(mem, req[p])
  BY <1>5 DEF MemInv
<1> QED
  BY <1>1, <1>3, <1>4, <1>6 DEF MemInv, IInv, Shape

LEMMA ReadFields ==
  ASSUME NEW r, IsRequest(r), NEW a, NEW v
  PROVE  \A f \in Fields \ {"entry", "simple", "py"} : [r EXCEPT !.py[a] = v][f] = r[f]
BY DEF IsRequest, Fields

LEMMA GetMem ==
  ASSUME IInv, MemInv, NEW o \in Handled, NEW a \in Attributes, Get(o, a)
  PROVE  MemInv' /\ AnsweredForItself'
<1> DEFINE d == CASE a = "query_string" -> DecodeQs(mem, req[o])
                  [] a = "headers" -> [m |-> TitleNames(mem, req[o]), r |-> req[o]]
                  [] OTHER -> [m |-> mem, r |-> req[o]]
           r == [d.r EXCEPT !.py[a] = Got(mem, req[o], a)]
<1>1. /\ o \in Objects /\ IsRequest(req[o]) /\ Kept(mem, o) /\ IsMemory(mem) /\ o \in InUse
      /\ \A p \in InUse : /\ p \in Objects /\ Kept(mem, p) /\ Matched(mem, req[p])
                          /\ req[p].buffer \in Blocks
                          /\ req[p].buffer = req[o].buffer => p = o
  BY HandledInUse
<1>a. /\ Holds(mem, req[o]) /\ Spoken(mem, req[o]) /\ Remembers(req[o]) /\ Matched(mem, req[o])
  BY <1>1 DEF Kept, Reads
<1>b. a \in Readables => Got(mem, req[o], a) = Said(req[o].spec, a)
  BY <1>1, <1>a, GotSaid DEF Kept
<1>c. /\ IsRequest(d.r) /\ Spoken(d.m, d.r) /\ Matched(d.m, d.r) /\ Remembers(d.r)
      /\ d.r.spec = req[o].spec
  <2>1. CASE a = "query_string"
    <3>1. d = DecodeQs(mem, req[o])
      BY <2>1
    <3>2. IsRequest(DecodeQs(mem, req[o]).r)
      BY <1>1, <1>a, QsDecoded DEF Decoding
    <3>3. LET e == DecodeQs(mem, req[o]) IN Spoken(e.m, e.r) /\ Matched(e.m, e.r)
      BY <1>1, <1>a, QsMatched
    <3>4. LET q == DecodeQs(mem, req[o]).r IN q.py = req[o].py /\ q.spec = req[o].spec
      BY <1>1, QsFields
    <3>5. Remembers(DecodeQs(mem, req[o]).r)
      BY <1>a, <3>4 DEF Remembers
    <3> HIDE DEF d
    <3> QED
      BY <3>1, <3>2, <3>3, <3>4, <3>5
  <2>2. CASE a = "headers"
    <3>1. d.m = TitleNames(mem, req[o]) /\ d.r = req[o]
      BY <2>2
    <3>2. Spoken(TitleNames(mem, req[o]), req[o]) /\ Matched(TitleNames(mem, req[o]), req[o])
      BY <1>1, <1>a, TitledReads
    <3> HIDE DEF d
    <3> QED
      BY <1>1, <1>a, <3>1, <3>2
  <2>3. CASE a \notin {"query_string", "headers"}
    <3>1. d.m = mem /\ d.r = req[o]
      BY <2>3
    <3> HIDE DEF d
    <3> QED
      BY <1>1, <1>a, <3>1
  <2> QED
    BY <2>1, <2>2, <2>3
<1>d. Reads(d.m, r) /\ Matched(d.m, r)
  <2> DEFINE w == d.m
             q == d.r
             v == Got(mem, req[o], a)
  <2>1. /\ IsRequest(q) /\ Spoken(w, q) /\ Matched(w, q) /\ Remembers(q)
        /\ a \in Readables => v = Said(q.spec, a)
    BY <1>b, <1>c
  <2>2. r = [q EXCEPT !.py[a] = v]
    OBVIOUS
  <2> HIDE DEF w, q, v, r, d
  <2>3. LET x == [q EXCEPT !.py[a] = v] IN Reads(w, x) /\ Matched(w, x)
    BY <2>1, ReadKept
  <2> QED
    BY <2>2, <2>3 DEF w
<1>2. /\ req' = [req EXCEPT ![o] = r] /\ mem' = d.m /\ sent' = None
      /\ live' = live /\ current' = current /\ cache' = cache
  BY DEF Get
<1>3. Decoding(d, mem, req[o])
  <2>1. CASE a = "query_string"
    <3>1. d = DecodeQs(mem, req[o])
      BY <2>1
    <3> HIDE DEF d
    <3> QED
      BY <1>1, <1>a, <3>1, QsDecoded
  <2>2. CASE a = "headers"
    <3>1. d = [m |-> TitleNames(mem, req[o]), r |-> req[o]]
      BY <2>2
    <3>2. Decoding([m |-> TitleNames(mem, req[o]), r |-> req[o]], mem, req[o])
      BY <1>1, <1>a, NamesTitled
    <3> HIDE DEF d
    <3> QED
      BY <3>1, <3>2
  <2>3. CASE a \notin {"query_string", "headers"}
    <3>1. d = [r |-> req[o], m |-> mem]
      BY <2>3
    <3>2. Decoding([r |-> req[o], m |-> mem], mem, req[o])
      BY <1>1, <1>a, Untouched
    <3> HIDE DEF d
    <3> QED
      BY <3>1, <3>2
  <2> QED
    BY <2>1, <2>2, <2>3
<1> HIDE DEF d
<1>4. /\ IsMemory(d.m) /\ Holds(d.m, d.r) /\ IsRequest(d.r) /\ SameAnswer(d.r, req[o])
      /\ \A x \in Blocks \ {req[o].buffer} : d.m[x] = mem[x]
  BY <1>3 DEF Decoding
<1>5. \A f \in Fields \ {"entry", "simple", "py"} : r[f] = d.r[f]
  BY <1>4, ReadFields
<1> HIDE DEF r
<1>6. Holds(d.m, r) /\ SameAnswer(r, d.r)
  BY <1>4, <1>5, SameFields
<1>7. OwnAnswer(r)
  <2>1. SameAnswer(r, req[o])
    BY <1>4, <1>6 DEF SameAnswer
  <2> QED
    BY <1>1, <2>1, SameAnswerOwn DEF Kept
<1>8. req'[o] = r /\ \A p \in Objects \ {o} : req'[p] = req[p]
  BY <1>1, <1>2 DEF IInv, Shape
<1>9. InUse' = InUse
  BY <1>2 DEF InUse
<1>10. ASSUME NEW p \in InUse
       PROVE  /\ Holds(mem', req'[p]) /\ OwnAnswer(req'[p]) /\ Reads(mem', req'[p])
              /\ Matched(mem', req'[p])
  <2>1. CASE p = o
    BY <2>1, <1>2, <1>6, <1>7, <1>8, <1>d
  <2>2. CASE p # o
    <3>1. /\ req'[p] = req[p] /\ d.m[req[p].buffer] = mem[req[p].buffer]
          /\ Kept(mem, p) /\ Matched(mem, req[p])
      BY <2>2, <1>1, <1>4, <1>8
    <3>2. Holds(d.m, req[p]) /\ Reads(d.m, req[p]) /\ Matched(d.m, req[p])
      BY <3>1, Untroubled DEF Kept
    <3> QED
      BY <3>1, <3>2, <1>2 DEF Kept
  <2> QED
    BY <2>1, <2>2
<1>11. MemInv'
  BY <1>2, <1>4, <1>9, <1>10, ReadableInPrime DEF MemInv, Kept
<1> QED
  BY <1>2, <1>11 DEF AnsweredForItself

LEMMA AnsweredPlace ==
  ASSUME NEW m, NEW r, IsRequest(r), NEW args
  PROVE  \A f \in Fields \ {"response", "answer"} : Answered(m, r, args)[f] = r[f]
BY DEF Answered, IsRequest, Fields

LEMMA RespondMem ==
  ASSUME IInv, MemInv, NEW o \in Handled, NEW args \in Answers, Respond(o, args)
  PROVE  MemInv' /\ AnsweredForItself'
<1> DEFINE r == Answered(mem, req[o], args)
<1>1. /\ o \in Objects /\ IsRequest(req[o]) /\ Kept(mem, o) /\ IsMemory(mem) /\ o \in InUse
      /\ \A p \in InUse : p \in Objects /\ Kept(mem, p) /\ Matched(mem, req[p])
  BY HandledInUse
<1>2. /\ req' = [req EXCEPT ![o] = r] /\ mem' = mem /\ live' = live /\ current' = None
      /\ IF o \in Conns THEN Write(mem, r) ELSE sent' = None /\ UNCHANGED cache
  BY DEF Respond
<1>3. IsRequest(r) /\ Own(r)
  BY <1>1, AnsweredBuffer, AnswersOwn DEF Kept
<1>4. \A f \in Fields \ {"response", "answer"} : r[f] = req[o][f]
  BY <1>1, AnsweredPlace
<1> HIDE DEF r
<1>a. Reads(mem, r) /\ Matched(mem, r)
  <2>1. Reads(mem, req[o]) /\ Matched(mem, req[o])
    BY <1>1 DEF Kept
  <2> QED
    BY <1>4, <2>1, ReadsAlike
<1>5. Holds(mem, r) /\ OwnAnswer(r)
  BY <1>1, <1>3, <1>4, SamePlace DEF Kept, OwnAnswer
<1>6. req'[o] = r /\ \A p \in Objects \ {o} : req'[p] = req[p]
  BY <1>1, <1>2 DEF IInv, Shape
<1>7. InUse' = live /\ live \subseteq InUse
  BY <1>2 DEF InUse
<1>8. ASSUME NEW p \in live
      PROVE  /\ Holds(mem', req'[p]) /\ OwnAnswer(req'[p]) /\ Reads(mem', req'[p])
             /\ Matched(mem', req'[p])
  <2>1. CASE p = o
    BY <2>1, <1>2, <1>5, <1>6, <1>a
  <2>2. CASE p # o
    BY <2>2, <1>1, <1>2, <1>6, <1>7 DEF Kept
  <2> QED
    BY <2>1, <2>2
<1>9. Rendered(cache') /\ AnsweredForItself'
  <2>1. CASE o \in Conns
    BY <2>1, <1>1, <1>2, <1>3, <1>5, WrittenForItself DEF MemInv
  <2>2. CASE o \notin Conns
    BY <2>2, <1>2 DEF MemInv, AnsweredForItself
  <2> QED
    BY <2>1, <2>2
<1> QED
  BY <1>1, <1>2, <1>7, <1>8, <1>9, ReadableInPrime DEF MemInv, Kept

LEMMA HandOverMem ==
  ASSUME IInv, MemInv, NEW c \in Conns, HandOver(c)
  PROVE  MemInv' /\ AnsweredForItself'
<1> DEFINE o == Head(pipeline[c])
           r == [Request_new(o) EXCEPT !.py = req[o].py]
<1>1. /\ current = None /\ current' = None /\ pipeline[c] # <<>>
      /\ Write(mem, req[o]) /\ Release(o)
  BY DEF HandOver
<1>2. o \in live
  BY <1>1, QueueTail DEF IInv
<1> HIDE DEF o
<1>3. /\ live' = live \ {o} /\ req' = [req EXCEPT ![o] = r]
      /\ mem' = Stored(Freed(mem, o), o, <<>>)
  BY <1>1 DEF Release, Stored
<1>4. InUse = live /\ InUse' = live \ {o}
  BY <1>1, <1>3 DEF InUse
<1>5. IsMemory(mem) /\ Kept(mem, o) /\ o \in Objects /\ IsRequest(req[o]) /\ Rendered(cache)
  BY <1>2, <1>4 DEF MemInv, IInv, Shape, Objects
<1>6. AnsweredForItself' /\ Rendered(cache')
  BY <1>1, <1>5, WrittenForItself DEF Kept
<1>7. \A p \in Objects \ {o} : req'[p] = req[p]
  BY <1>3 DEF IInv, Shape
<1>8. /\ IsMemory(Freed(mem, o))
      /\ \A d \in Blocks \ OwnBlock(o) : Freed(mem, o)[d] = mem[d]
  BY <1>5, FreedFacts
<1>9. IsMemory(mem') /\ \A d \in Blocks \ (OwnBlock(o) \cup {o}) : mem'[d] = mem[d]
  <2> DEFINE f == Freed(mem, o)
  <2>1. o \in Blocks /\ IsMemory(f)
    BY <1>5, <1>8 DEF Blocks
  <2>2. mem' = Stored(f, o, <<>>)
    BY <1>3
  <2> HIDE DEF f
  <2>3. IsMemory(mem') /\ \A d \in Blocks \ {o} : mem'[d] = f[d]
    BY <2>1, <2>2, EmptyIsSequence, WriteBlock
  <2> QED
    BY <1>8, <2>3 DEF f
<1>10. ASSUME NEW p \in live \ {o}
       PROVE  /\ Holds(mem', req'[p]) /\ OwnAnswer(req'[p]) /\ Reads(mem', req'[p])
              /\ Matched(mem', req'[p])
  <2>1. p \in Conns \cup live /\ o \in Conns \cup live /\ p # o
    BY <1>2
  <2>2. /\ p \in Objects /\ req[p].buffer \in Blocks /\ req[p].buffer # o
        /\ req[p].buffer # req[o].buffer /\ OwnBlock(o) = {req[o].buffer} \cap Heap
    BY <1>5, <2>1, Apart
  <2>3. mem'[req[p].buffer] = mem[req[p].buffer]
    BY <1>9, <2>2
  <2>4. Kept(mem, p) /\ Matched(mem, req[p]) /\ req'[p] = req[p]
    BY <1>4, <1>7, <2>1, <2>2, ReadableInUse DEF MemInv
  <2>5. Holds(mem', req[p]) /\ Reads(mem', req[p]) /\ Matched(mem', req[p])
    BY <2>3, <2>4, Untroubled DEF Kept
  <2> QED
    BY <2>4, <2>5 DEF Kept
<1> QED
  BY <1>4, <1>6, <1>9, <1>10, ReadableInPrime DEF MemInv, Kept

LEMMA StepMem == IInv /\ MemInv /\ AnsweredForItself /\ [Next]_vars
                 => MemInv' /\ AnsweredForItself'
<1> SUFFICES ASSUME IInv, MemInv, AnsweredForItself, [Next]_vars
             PROVE  MemInv' /\ AnsweredForItself'
  OBVIOUS
<1>1. CASE UNCHANGED vars
  BY <1>1 DEF vars, MemInv, Kept, InUse, Readable, AnsweredForItself
<1> QED
  BY <1>1, ConfigurePoolMem, OnHeadersMem, OnBodyMem, GetMem, RespondMem, HandOverMem DEF Next

(***************************************************************************)
(* Theorems: the bytes written for a request are those of its own answer,  *)
(* every attribute is what the client said, and the two matchers agree.    *)
(***************************************************************************)
LEMMA MemHolds == Spec => []MemInv /\ []AnsweredForItself /\ []IInv
<1> DEFINE Inv == IInv /\ MemInv /\ AnsweredForItself
<1>1. Init => Inv
  BY InitInv, InitMem, InitAnswered
<1>2. Inv /\ [Next]_vars => Inv'
  BY StepInv, StepMem
<1> QED
  BY <1>1, <1>2, PTL DEF Spec

\* The bytes written for a request are those of its own answer, framed for its own
\* version and connection, whatever was cloned, pooled or cached in between.
THEOREM AnswersAreOwn == Spec => []AnsweredForItself
BY MemHolds, PTL

\* What a request that can be read goes with.
LEMMA ReadableFacts ==
  ASSUME IInv, MemInv, NEW o \in Readable
  PROVE  /\ IsMemory(mem) /\ IsRequest(req[o]) /\ Holds(mem, req[o])
         /\ Reads(mem, req[o]) /\ Matched(mem, req[o])
<1>1. o \in InUse
  BY ReadableInUse
<1>2. Kept(mem, o) /\ IsMemory(mem) /\ Matched(mem, req[o])
  BY <1>1 DEF MemInv
<1>3. IsRequest(req[o])
  BY <1>1, InUseOwns, Apart
<1> QED
  BY <1>2, <1>3 DEF Kept

\* Whatever was copied, moved, decoded, cloned, pooled or freed in between, every
\* attribute of a request that can still be read is what its client said.
THEOREM FieldsAreSaid == Spec => []FieldsReadTheirBytes
<1>1. IInv /\ MemInv => FieldsReadTheirBytes
  <2> SUFFICES ASSUME IInv, MemInv, NEW o \in Readable, NEW a \in Readables
               PROVE  Got(mem, req[o], a) = Said(req[o].spec, a)
    BY DEF FieldsReadTheirBytes
  <2> QED
    BY ReadableFacts, GotSaid
<1> QED
  BY <1>1, MemHolds, PTL

\* The Python matcher routes a request that can still be read as the C one did, and
\* finds the values that its handler reads, exactly when there is no route for it
\* by either or the first there is by one of them lists its method and is not
\* misread.
THEOREM PythonMatchesAlike == Spec => []SameAsPython
<1>1. IInv /\ MemInv => SameAsPython
  <2> SUFFICES ASSUME IInv, MemInv, NEW o \in Readable
               PROVE  LET path == Chars(req[o].spec.path)
                          method == req[o].spec.method
                          py == PyMatch(path, method)
                          either == Described(path, method) \cup PyDescribed(path, method)
                      IN  py.entry = req[o].entry /\ py.values = Computed(mem, req[o], "match_dict")
                            <=> \/ either = {}
                                \/ Min(either) \in Described(path, method)
                                                     \cap PyDescribed(path, method)
    BY DEF SameAsPython
  <2>1. /\ IsMemory(mem) /\ Holds(mem, req[o]) /\ Spoken(mem, req[o])
        /\ Matched(mem, req[o])
    BY ReadableFacts DEF Reads
  <2> QED
    BY <2>1, PythonSame
<1> QED
  BY <1>1, MemHolds, PTL
=============================================================================
