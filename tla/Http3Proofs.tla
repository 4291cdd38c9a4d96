----------------------------- MODULE Http3Proofs -----------------------------
(***************************************************************************)
(* The applications of ASGIServer, for any number of requests, body        *)
(* messages and DATA events: what they receive, and what they send.        *)
(***************************************************************************)
EXTENDS Http3, SequenceTheorems, TLAPS

(***************************************************************************)
(* What they receive (Asgi).  As long as stream ids are unique, that is    *)
(* for the requests of one connection, every application receives the body *)
(* of its own request.  The hypothesis is what the code lacks when two     *)
(* connections are open: the run asgi_shared shows the property fail       *)
(* without it.                                                             *)
(*                                                                         *)
(* OwnBody is not inductive alone: on_data finds the right queue because   *)
(* of EntriesAreTasks, and a new request starts with the empty body        *)
(* because nothing arrives before on_headers (Fresh).                      *)
(***************************************************************************)
UniqueIds == \A s, t \in Streams : Id(s) = Id(t) => s = t

Fresh ==
  \A s \in Streams :
    task[s] = "none" => /\ chunks[s] = 0 /\ s \notin finished
                        /\ queue[s] = <<>> /\ received[s] = <<>>

IInv == TypeOK /\ Fresh /\ EntriesAreTasks /\ OwnBody

LEMMA InitHolds == Init => IInv
<1> SUFFICES ASSUME Init PROVE IInv
  OBVIOUS
<1>1. TypeOK
  BY AsgiAssumption DEF Init, TypeOK
<1>2. Fresh /\ EntriesAreTasks /\ OwnBody
  BY DEF Init, Fresh, EntriesAreTasks, OwnBody, Living
<1> QED BY <1>1, <1>2 DEF IInv

\* An event of a living request goes into its own queue and no other.
LEMMA PutFindsOwnQueue ==
  ASSUME IInv, NEW s \in Streams, Living(s), NEW message, Put(s, message)
  PROVE  queue' = [queue EXCEPT ![s] = Append(@, message)]
BY DEF Put, IInv, EntriesAreTasks

\* An event of a request that is over goes nowhere.
LEMMA PutDropsLate ==
  ASSUME UniqueIds, IInv, NEW s \in Streams, ~Living(s), NEW message, Put(s, message)
  PROVE  queue' = queue
<1>1. Id(s) \notin DOMAIN streams
  <2> SUFFICES ASSUME Id(s) \in DOMAIN streams PROVE FALSE
    OBVIOUS
  <2>1. streams[Id(s)] \in Streams /\ Id(streams[Id(s)]) = Id(s) /\ Living(streams[Id(s)])
    BY DEF IInv, TypeOK, EntriesAreTasks
  <2>2. streams[Id(s)] = s
    BY <2>1 DEF UniqueIds
  <2> QED BY <2>1, <2>2
<1> QED BY <1>1 DEF Put

\* What has arrived of a request grows by one message at its end.
LEMMA ArrivedGrows ==
  ASSUME TypeOK, NEW s \in Streams, s \notin finished
  PROVE  /\ Arrived(s) \in Seq(Message) /\ Len(Arrived(s)) = chunks[s]
         /\ chunks[s] < Chunks /\ chunks' = [chunks EXCEPT ![s] = @ + 1] /\ finished' = finished
              => Arrived(s)' = Append(Arrived(s), Data(s, chunks[s] + 1))
         /\ chunks' = chunks /\ finished' = finished \cup {s}
              => Arrived(s)' = Append(Arrived(s), Fin(s))
<1>1. chunks[s] \in Nat /\ chunks[s] <= Chunks /\ Chunks \in Nat
  BY AsgiAssumption DEF TypeOK
<1>2. Arrived(s) = [n \in 1..chunks[s] |-> Data(s, n)]
  BY <1>1 DEF Arrived
<1>3. \A n \in 1..chunks[s] : Data(s, n) \in Message
  BY <1>1 DEF Data, Message
<1>4. Arrived(s) \in Seq(Message) /\ Len(Arrived(s)) = chunks[s]
  BY <1>1, <1>2, <1>3
<1>5. ASSUME chunks' = [chunks EXCEPT ![s] = @ + 1], finished' = finished
      PROVE  Arrived(s)' = Append(Arrived(s), Data(s, chunks[s] + 1))
  <2>1. chunks'[s] = chunks[s] + 1 /\ s \notin finished'
    BY <1>5 DEF TypeOK
  <2>2. Arrived(s)' = [n \in 1..chunks[s] + 1 |-> Data(s, n)]
    BY <2>1, <1>1 DEF Arrived
  <2> QED BY <2>2, <1>1, <1>2
<1>6. ASSUME chunks' = chunks, finished' = finished \cup {s}
      PROVE  Arrived(s)' = Append(Arrived(s), Fin(s))
  <2>1. Arrived(s)' = [n \in 1..chunks[s] + 1 |-> IF n <= chunks[s] THEN Data(s, n) ELSE Fin(s)]
    BY <1>6 DEF Arrived
  <2> QED BY <2>1, <1>1, <1>2
<1> QED BY <1>4, <1>5, <1>6

\* What does not touch the events of a request does not change its body.
LEMMA ArrivedSame ==
  ASSUME NEW s \in Streams, chunks'[s] = chunks[s], s \in finished' <=> s \in finished
  PROVE  Arrived(s)' = Arrived(s)
BY DEF Arrived

---------------------------------------------------------------------------
LEMMA OnHeadersKeeps ==
  ASSUME UniqueIds, IInv, NEW s \in Streams, OnHeaders(s)
  PROVE  IInv'
<1>1. /\ task[s] = "none" /\ task' = [task EXCEPT ![s] = "created"]
      /\ streams' = Entered(Id(s), s)
      /\ UNCHANGED <<queue, received, chunks, finished>>
  BY DEF OnHeaders
<1>2. /\ DOMAIN streams' = DOMAIN streams \cup {Id(s)} /\ streams'[Id(s)] = s
      /\ \A k \in DOMAIN streams \ {Id(s)} : streams'[k] = streams[k]
  BY <1>1 DEF Entered
<1>3. \A t \in Streams : t # s => Id(t) # Id(s) /\ task'[t] = task[t]
  BY <1>1 DEF UniqueIds, IInv, TypeOK
<1>4. task'[s] = "created"
  BY <1>1 DEF IInv, TypeOK
<1>5. TypeOK'
  <2>1. \A i \in DOMAIN streams' : i \in Ids /\ streams'[i] \in Streams
    BY <1>2 DEF Ids, IInv, TypeOK
  <2> QED BY <2>1, <1>1 DEF IInv, TypeOK
<1>6. Fresh'
  BY <1>1, <1>3, <1>4 DEF IInv, Fresh
<1>7. EntriesAreTasks'
  <2>1. \A t \in Streams : Living(t)' => Id(t) \in DOMAIN streams' /\ streams'[Id(t)] = t
    <3> TAKE t \in Streams
    <3>1. CASE t = s BY <3>1, <1>2
    <3>2. CASE t # s BY <3>2, <1>2, <1>3 DEF IInv, EntriesAreTasks, Living
    <3> QED BY <3>1, <3>2
  <2>2. \A i \in DOMAIN streams' :
          task'[streams'[i]] \in {"created", "running"} /\ Id(streams'[i]) = i
    <3> TAKE i \in DOMAIN streams'
    <3>1. CASE i = Id(s) BY <3>1, <1>2, <1>4
    <3>2. CASE i # Id(s)
      <4>1. i \in DOMAIN streams /\ streams'[i] = streams[i]
        BY <3>2, <1>2
      <4>2. streams[i] \in Streams /\ Living(streams[i]) /\ Id(streams[i]) = i
        BY <4>1 DEF IInv, TypeOK, EntriesAreTasks
      <4> QED BY <4>1, <4>2, <3>2, <1>3 DEF Living
    <3> QED BY <3>1, <3>2
  <2> QED BY <2>1, <2>2 DEF EntriesAreTasks, Living
<1>8. OwnBody'
  <2> SUFFICES ASSUME NEW t \in Streams, Living(t)'
               PROVE  received'[t] \o queue'[t] = Arrived(t)'
    BY DEF OwnBody
  <2>1. Arrived(t)' = Arrived(t)
    BY <1>1, ArrivedSame
  <2>2. CASE t = s
    <3>1. Arrived(s) = <<>>
      BY <1>1, AsgiAssumption, ArrivedGrows DEF IInv, Fresh
    <3> QED BY <2>1, <2>2, <3>1, <1>1 DEF IInv, Fresh
  <2>3. CASE t # s
    BY <2>1, <2>3, <1>1, <1>3 DEF IInv, OwnBody, Living
  <2> QED BY <2>2, <2>3
<1> QED BY <1>5, <1>6, <1>7, <1>8 DEF IInv

\* on_data and on_fin: a message m joins the queue of s if s is living.
LEMMA EventKeeps ==
  ASSUME UniqueIds, IInv, NEW s \in Streams, NEW m \in Message,
         task[s] # "none", Put(s, m),
         UNCHANGED <<streams, task, received>>,
         chunks' \in [Streams -> 0..Chunks], finished' \subseteq Streams,
         Arrived(s)' = Append(Arrived(s), m), Arrived(s) \in Seq(Message),
         \A t \in Streams : t # s => chunks'[t] = chunks[t] /\ (t \in finished' <=> t \in finished)
  PROVE  IInv'
<1>1. CASE Living(s)
  <2>1. queue' = [queue EXCEPT ![s] = Append(@, m)]
    BY <1>1, PutFindsOwnQueue
  <2>2. TypeOK'
    BY <2>1 DEF IInv, TypeOK
  <2>3. Fresh'
    BY <2>1 DEF IInv, Fresh
  <2>4. EntriesAreTasks'
    BY DEF IInv, EntriesAreTasks, Living
  <2>5. OwnBody'
    <3> SUFFICES ASSUME NEW t \in Streams, Living(t)'
                 PROVE  received'[t] \o queue'[t] = Arrived(t)'
      BY DEF OwnBody
    <3>1. CASE t = s
      <4>1. /\ received[s] \in Seq(Message) /\ queue[s] \in Seq(Message)
            /\ queue'[s] = Append(queue[s], m) /\ received' = received
        BY <2>1 DEF IInv, TypeOK
      <4>2. received[s] \o queue[s] = Arrived(s)
        BY <1>1 DEF IInv, OwnBody
      <4>3. \A r, q \in Seq(Message) : r \o Append(q, m) = Append(r \o q, m)
        <5> TAKE r, q \in Seq(Message)
        <5> QED OBVIOUS
      <4> QED BY <3>1, <4>1, <4>2, <4>3
    <3>2. CASE t # s
      <4>1. Arrived(t)' = Arrived(t)
        BY <3>2, ArrivedSame
      <4>2. queue'[t] = queue[t] /\ received'[t] = received[t]
        BY <3>2, <2>1 DEF IInv, TypeOK
      <4> QED BY <4>1, <4>2 DEF IInv, OwnBody, Living
    <3> QED BY <3>1, <3>2
  <2> QED BY <2>2, <2>3, <2>4, <2>5 DEF IInv
<1>2. CASE ~Living(s)
  <2>1. queue' = queue
    BY <1>2, PutDropsLate
  <2>2. TypeOK' /\ Fresh' /\ EntriesAreTasks'
    BY <2>1 DEF IInv, TypeOK, Fresh, EntriesAreTasks, Living
  <2>3. OwnBody'
    <3> SUFFICES ASSUME NEW t \in Streams, Living(t)'
                 PROVE  received'[t] \o queue'[t] = Arrived(t)'
      BY DEF OwnBody
    <3>1. t # s
      BY <1>2 DEF Living
    <3>2. Arrived(t)' = Arrived(t)
      BY <3>1, ArrivedSame
    <3> QED BY <2>1, <3>2 DEF IInv, OwnBody, Living
  <2> QED BY <2>2, <2>3 DEF IInv
<1> QED BY <1>1, <1>2

LEMMA OnDataKeeps ==
  ASSUME UniqueIds, IInv, NEW s \in Streams, OnData(s)
  PROVE  IInv'
<1>1. /\ task[s] # "none" /\ s \notin finished /\ chunks[s] < Chunks
      /\ chunks' = [chunks EXCEPT ![s] = @ + 1]
      /\ Put(s, Data(s, chunks[s] + 1))
      /\ UNCHANGED <<streams, task, received, finished>>
  BY DEF OnData
<1>2. chunks \in [Streams -> 0..Chunks] /\ chunks[s] \in Nat /\ Chunks \in Nat
  BY AsgiAssumption DEF IInv, TypeOK
<1>3. Data(s, chunks[s] + 1) \in Message
  BY <1>1, <1>2 DEF Data, Message
<1>4. chunks' \in [Streams -> 0..Chunks]
  BY <1>1, <1>2
<1>5. /\ Arrived(s) \in Seq(Message)
      /\ Arrived(s)' = Append(Arrived(s), Data(s, chunks[s] + 1))
  BY <1>1, ArrivedGrows DEF IInv
<1>6. \A t \in Streams : t # s => chunks'[t] = chunks[t] /\ (t \in finished' <=> t \in finished)
  BY <1>1, <1>2
<1>7. finished' \subseteq Streams
  BY <1>1 DEF IInv, TypeOK
<1> QED BY <1>1, <1>3, <1>4, <1>5, <1>6, <1>7, EventKeeps

LEMMA OnFinKeeps ==
  ASSUME UniqueIds, IInv, NEW s \in Streams, OnFin(s)
  PROVE  IInv'
<1>1. /\ task[s] # "none" /\ s \notin finished
      /\ finished' = finished \cup {s}
      /\ Put(s, Fin(s))
      /\ UNCHANGED <<streams, task, received, chunks>>
  BY DEF OnFin
<1>2. Fin(s) \in Message
  BY AsgiAssumption DEF Fin, Message
<1>3. chunks' \in [Streams -> 0..Chunks] /\ finished' \subseteq Streams
  BY <1>1 DEF IInv, TypeOK
<1>4. Arrived(s) \in Seq(Message) /\ Arrived(s)' = Append(Arrived(s), Fin(s))
  BY <1>1, ArrivedGrows DEF IInv
<1>5. \A t \in Streams : t # s => chunks'[t] = chunks[t] /\ (t \in finished' <=> t \in finished)
  BY <1>1
<1> QED BY <1>1, <1>2, <1>3, <1>4, <1>5, EventKeeps

LEMMA RunAppKeeps ==
  ASSUME IInv, NEW s \in Streams, RunApp(s)
  PROVE  IInv'
<1>1. /\ task[s] = "created" /\ task' = [task EXCEPT ![s] = "running"]
      /\ UNCHANGED <<streams, queue, received, chunks, finished>>
  BY DEF RunApp
<1>2. /\ \A t \in Streams : task'[t] = IF t = s THEN "running" ELSE task[t]
      /\ TypeOK'
  BY <1>1 DEF IInv, TypeOK
<1>3. Fresh' /\ EntriesAreTasks'
  BY <1>1, <1>2 DEF IInv, TypeOK, Fresh, EntriesAreTasks, Living
<1>4. OwnBody'
  BY <1>1, <1>2 DEF IInv, OwnBody, Living, Arrived
<1> QED BY <1>2, <1>3, <1>4 DEF IInv

LEMMA ReceiveKeeps ==
  ASSUME IInv, NEW s \in Streams, Receive(s)
  PROVE  IInv'
<1>1. /\ task[s] = "running" /\ queue[s] # <<>>
      /\ received' = [received EXCEPT ![s] = Append(@, Head(queue[s]))]
      /\ queue' = [queue EXCEPT ![s] = Tail(@)]
      /\ UNCHANGED <<streams, task, chunks, finished>>
  BY DEF Receive
<1>2. /\ queue \in [Streams -> Seq(Message)] /\ received \in [Streams -> Seq(Message)]
      /\ Head(queue[s]) \in Message /\ Tail(queue[s]) \in Seq(Message)
  BY <1>1 DEF IInv, TypeOK
<1>3. TypeOK'
  BY <1>1, <1>2 DEF IInv, TypeOK
<1>4. Fresh' /\ EntriesAreTasks'
  BY <1>1, <1>2 DEF IInv, Fresh, EntriesAreTasks, Living
<1>5. OwnBody'
  <2> SUFFICES ASSUME NEW t \in Streams, Living(t)'
               PROVE  received'[t] \o queue'[t] = Arrived(t)'
    BY DEF OwnBody
  <2>1. Arrived(t)' = Arrived(t) /\ received[t] \o queue[t] = Arrived(t)
    BY <1>1, ArrivedSame DEF IInv, OwnBody, Living
  <2>2. CASE t = s
    <3> DEFINE r == received[s]
               q == queue[s]
    <3>1. r \in Seq(Message) /\ q \in Seq(Message) /\ q # <<>>
      BY <1>1, <1>2
    <3>2. received'[s] = Append(r, Head(q)) /\ queue'[s] = Tail(q)
      BY <1>1, <1>2
    <3> HIDE DEF r, q
    <3>3. Append(r, Head(q)) \o Tail(q) = r \o q
      BY <3>1
    <3> QED BY <2>1, <2>2, <3>2, <3>3 DEF r, q
  <2>3. CASE t # s
    BY <2>1, <2>3, <1>1, <1>2
  <2> QED BY <2>2, <2>3
<1> QED BY <1>3, <1>4, <1>5 DEF IInv

LEMMA AppEndsKeeps ==
  ASSUME UniqueIds, IInv, NEW s \in Streams, AppEnds(s)
  PROVE  IInv'
<1>1. /\ task[s] = "running" /\ task' = [task EXCEPT ![s] = "done"]
      /\ streams' = Popped(Id(s))
      /\ UNCHANGED <<queue, received, chunks, finished>>
  BY DEF AppEnds
<1>2. /\ DOMAIN streams' = DOMAIN streams \ {Id(s)}
      /\ \A k \in DOMAIN streams' : streams'[k] = streams[k]
  BY <1>1 DEF Popped
<1>3. \A t \in Streams : task'[t] = IF t = s THEN "done" ELSE task[t]
  BY <1>1 DEF IInv, TypeOK
<1>4. TypeOK'
  BY <1>1, <1>2 DEF IInv, TypeOK
<1>5. Fresh'
  BY <1>1, <1>3 DEF IInv, Fresh
<1>6. EntriesAreTasks'
  <2>1. \A t \in Streams : Living(t)' => Id(t) \in DOMAIN streams' /\ streams'[Id(t)] = t
    <3> SUFFICES ASSUME NEW t \in Streams, Living(t)'
                 PROVE  Id(t) \in DOMAIN streams' /\ streams'[Id(t)] = t
      OBVIOUS
    <3>1. t # s /\ Living(t)
      BY <1>3 DEF Living
    <3>2. Id(t) # Id(s)
      BY <3>1 DEF UniqueIds
    <3> QED BY <3>1, <3>2, <1>2 DEF IInv, EntriesAreTasks
  <2>2. \A i \in DOMAIN streams' :
          task'[streams'[i]] \in {"created", "running"} /\ Id(streams'[i]) = i
    <3> TAKE i \in DOMAIN streams'
    <3>1. /\ i # Id(s) /\ streams'[i] = streams[i] /\ streams[i] \in Streams
          /\ Living(streams[i]) /\ Id(streams[i]) = i
      BY <1>2 DEF IInv, TypeOK, EntriesAreTasks
    <3> QED BY <3>1, <1>3 DEF Living
  <2> QED BY <2>1, <2>2 DEF EntriesAreTasks, Living
<1>7. OwnBody'
  BY <1>1, <1>3 DEF IInv, OwnBody, Living, Arrived
<1> QED BY <1>4, <1>5, <1>6, <1>7 DEF IInv

LEMMA StepKeeps ==
  ASSUME UniqueIds, IInv, [Next]_vars
  PROVE  IInv'
<1>1. CASE UNCHANGED vars
  <2>1. UNCHANGED <<streams, queue, task, received, chunks, finished>>
    BY <1>1 DEF vars
  <2>2. TypeOK' /\ Fresh' /\ EntriesAreTasks'
    BY <2>1 DEF IInv, TypeOK, Fresh, EntriesAreTasks, Living
  <2>3. OwnBody'
    BY <2>1 DEF IInv, OwnBody, Living, Arrived
  <2> QED BY <2>2, <2>3 DEF IInv
<1>2. CASE Next
  BY <1>2, OnHeadersKeeps, OnDataKeeps, OnFinKeeps, RunAppKeeps, ReceiveKeeps, AppEndsKeeps
     DEF Next
<1> QED BY <1>1, <1>2

\* In one connection every application receives its own request's body, in
\* order and completely, from the queue on_headers created.
THEOREM EveryoneOwnBody ==
  ASSUME UniqueIds
  PROVE  Spec => []OwnBody
<1>1. IInv => OwnBody BY DEF IInv
<1>2. IInv /\ [Next]_vars => IInv' BY StepKeeps
<1> QED BY <1>1, <1>2, InitHolds, PTL DEF Spec

\* In one connection ASGIServer.streams has an entry for every unfinished
\* request and for no other.
THEOREM NoEntryLeaks ==
  ASSUME UniqueIds
  PROVE  Spec => []EntriesAreTasks
<1>1. IInv => EntriesAreTasks BY DEF IInv
<1>2. IInv /\ [Next]_vars => IInv' BY StepKeeps
<1> QED BY <1>1, <1>2, InitHolds, PTL DEF Spec

(***************************************************************************)
(* What they send: what a send hands over, whatever nghttp3 offers.        *)
(***************************************************************************)

\* What of the response of s is not handed over yet: what nghttp3 has of it, unless
\* everything is out.
Rest(s) == \/ handed[s] = said[s] /\ resp[s] = <<>>
           \/ said[s] = handed[s] \o Ready(resp[s], s \in resp_fin)

\* Another response of the connection ended without a body.
Blocked(s) == \E t \in emptyEnd \ {s} : t[1] = s[1]

Chunk == 0..Bodies  \* the headers and the chunks

Typed ==
  /\ resp \in [Streams -> Seq(Chunk)]
  /\ handed \in [Streams -> Seq(Nat)]
  /\ said \in [Streams -> Seq(Nat)]

\* Only a response that has started ends, and only one that has ended can have ended
\* without a body.
Ended ==
  /\ emptyEnd \subseteq resp_fin
  /\ \A s \in Streams : s \in resp_fin => said[s] # <<>>

\* A stream that nghttp3 still offers ended without a body, or waits behind one
\* that did.
HeldUp == \A s \in scheduled : s \in Streams /\ (s \in emptyEnd \/ Blocked(s))

HInv ==
  /\ Typed
  /\ Ended
  /\ HeldUp
  /\ \A s \in Streams : Rest(s) /\ (handed[s] = said[s] \/ Blocked(s))

-----------------------------------------------------------------------------
(* Sequences. *)

\* What nghttp3 has of a stream, in length and kind.
LEMMA ReadySeq ==
  ASSUME NEW w \in Seq(Chunk), NEW fin \in BOOLEAN
  PROVE  /\ w \in Seq(Nat) /\ Len(w) \in Nat
         /\ Ready(w, fin) \in Seq(Nat)
         /\ Len(Ready(w, fin)) = IF fin THEN Len(w) + 1 ELSE Len(w)
         /\ \A i \in 1..Len(w) : Ready(w, fin)[i] = w[i]
<1>1. w \in Seq(Nat) /\ Len(w) \in Nat
  <2>1. Chunk \subseteq Nat
    BY Http3Assumption DEF Chunk
  <2>2. w \in Seq(Nat)
    BY <2>1, SeqMonotonic
  <2> QED
    BY <2>2
<1>2. <<End>> \in Seq(Nat) /\ Len(<<End>>) = 1
  BY Http3Assumption DEF End
<1>3. CASE fin
  <2>1. Ready(w, fin) = w \o <<End>>
    BY <1>3 DEF Ready
  <2>2. /\ w \o <<End>> \in Seq(Nat) /\ Len(w \o <<End>>) = Len(w) + Len(<<End>>)
        /\ \A i \in 1..Len(w) + Len(<<End>>) :
             (w \o <<End>>)[i] = IF i <= Len(w) THEN w[i] ELSE <<End>>[i - Len(w)]
    BY <1>1, <1>2, ConcatProperties, Zenon
  <2>3. \A i \in 1..Len(w) : i \in 1..Len(w) + 1 /\ i <= Len(w)
    BY <1>1
  <2> QED
    BY <1>1, <1>2, <1>3, <2>1, <2>2, <2>3
<1>4. CASE ~fin
  <2>1. Ready(w, fin) = w
    BY <1>1, <1>4, ConcatEmptySeq DEF Ready
  <2> QED
    BY <1>1, <1>4, <2>1
<1> QED
  BY <1>3, <1>4

LEMMA Associative ==
  ASSUME NEW x \in Seq(Nat), NEW y \in Seq(Nat), NEW z \in Seq(Nat)
  PROVE  (x \o y) \o z = x \o (y \o z)
<1> DEFINE l == (x \o y) \o z
           r == x \o (y \o z)
<1>1. l \in Seq(Nat) /\ r \in Seq(Nat) /\ Len(l) = Len(r)
  OBVIOUS
<1>2. \A i \in 1..Len(l) : l[i] = r[i]
  OBVIOUS
<1> HIDE DEF l, r
<1>3. l = r
  BY <1>1, <1>2, SeqEqual
<1> QED
  BY <1>3 DEF l, r

LEMMA EmptyParts ==
  ASSUME NEW x \in Seq(Nat), NEW y \in Seq(Nat), x \o y = <<>>
  PROVE  x = <<>> /\ y = <<>>
<1>1. Len(x \o y) = Len(x) + Len(y) /\ Len(x \o y) = 0 /\ Len(x) \in Nat /\ Len(y) \in Nat
  OBVIOUS
<1>2. Len(x) = 0 /\ Len(y) = 0
  BY <1>1
<1> QED
  BY <1>2, EmptySeq

\* A part of what nghttp3 has, and what follows that part, make the whole.
LEMMA SplitReady ==
  ASSUME NEW w \in Seq(Chunk), NEW fin \in BOOLEAN, NEW n \in 0..Len(w), NEW h \in Seq(Nat)
  PROVE  (h \o SubSeq(Ready(w, fin), 1, n)) \o Ready(SubSeq(w, n + 1, Len(w)), fin)
           = h \o Ready(w, fin)
<1> DEFINE f == IF fin THEN <<End>> ELSE <<>>
           a == SubSeq(w, 1, n)
           b == SubSeq(w, n + 1, Len(w))
<1>1. w \in Seq(Nat) /\ Len(w) \in Nat /\ n \in Nat /\ n <= Len(w)
  BY ReadySeq
<1>2. f \in Seq(Nat)
  <2>1. <<End>> \in Seq(Nat) /\ <<>> \in Seq(Nat)
    BY Http3Assumption DEF End
  <2> QED
    BY <2>1
<1>3. a \in Seq(Nat) /\ b \in Seq(Nat)
  BY <1>1
<1>4. a \o b = w
  <2>1. SubSeq(w, 1, n) \o SubSeq(w, n + 1, Len(w)) = SubSeq(w, 1, Len(w))
    <3>1. /\ 1 \in 1..Len(w) + 1 /\ n \in 1 - 1..Len(w) /\ Len(w) \in n..Len(w)
      BY <1>1
    <3> QED
      BY <1>1, <3>1, ConcatAdjacentSubSeq, Zenon
  <2> QED
    BY <1>1, <2>1, SubSeqFull
<1>5. SubSeq(Ready(w, fin), 1, n) = a
  <2> DEFINE r == Ready(w, fin)
  <2>1. r \in Seq(Nat) /\ Len(r) >= Len(w) /\ \A i \in 1..n : r[i] = w[i]
    BY <1>1, ReadySeq
  <2> HIDE DEF r
  <2>2. /\ SubSeq(r, 1, n) \in Seq(Nat) /\ Len(SubSeq(r, 1, n)) = n
        /\ \A i \in 1..n : SubSeq(r, 1, n)[i] = w[i]
    BY <1>1, <2>1
  <2>3. Len(a) = n /\ \A i \in 1..n : a[i] = w[i]
    BY <1>1
  <2>4. SubSeq(r, 1, n) = a
    BY <1>3, <2>2, <2>3, SeqEqual
  <2> QED
    BY <2>4 DEF r
<1>6. Ready(w, fin) = w \o f /\ Ready(b, fin) = b \o f
  BY DEF Ready
<1> HIDE DEF a, b, f
<1>7. (h \o a) \o (b \o f) = h \o (a \o (b \o f))
  <2>1. b \o f \in Seq(Nat)
    BY <1>2, <1>3, ConcatProperties, Zenon
  <2> QED
    BY <1>3, <2>1, Associative
<1>8. a \o (b \o f) = w \o f
  <2>1. (a \o b) \o f = a \o (b \o f)
    BY <1>2, <1>3, Associative
  <2> QED
    BY <1>4, <2>1
<1> QED
  BY <1>5, <1>6, <1>7, <1>8 DEF b

\* What nghttp3 offers is all there is, or ends before the end.
LEMMA OfferedPart ==
  ASSUME NEW s, NEW w \in Seq(Chunk), NEW fin \in BOOLEAN, NEW n \in Offers(s, w, fin)
  PROVE  n = Len(Ready(w, fin)) \/ (n \in 0..Len(w) /\ n < Len(Ready(w, fin)) /\ ~Alone(s))
BY ReadySeq DEF Offers

-----------------------------------------------------------------------------
\* A flush of s after a step that left it w to write and, if fin, the end.
Flushes(s, w, fin) ==
  /\ FlushStream(s, w, fin)
  /\ said' \in [Streams -> Seq(Nat)]
  /\ \A t \in Streams \ {s} : said'[t] = said[t]
  /\ said'[s] = handed[s] \o Ready(w, fin)
  /\ resp_fin' \in {resp_fin, resp_fin \cup {s}}
  /\ s \in resp_fin' <=> fin
  /\ emptyEnd \subseteq emptyEnd'
  /\ Ended'
  /\ s \notin emptyEnd \/ Blocked(s)
  /\ w = <<>> /\ fin => s \in emptyEnd' \/ Blocked(s)

\* It hands over all of it, or another response of the connection is in the way.
LEMMA FlushInv ==
  ASSUME HInv, NEW s \in Streams, NEW w \in Seq(Chunk), NEW fin \in BOOLEAN,
         Flushes(s, w, fin)
  PROVE  HInv'
<1>0. /\ said' \in [Streams -> Seq(Nat)]
      /\ \A t \in Streams \ {s} : said'[t] = said[t]
      /\ said'[s] = handed[s] \o Ready(w, fin)
      /\ resp_fin' \in {resp_fin, resp_fin \cup {s}}
      /\ s \in resp_fin' <=> fin
      /\ emptyEnd \subseteq emptyEnd' /\ Ended'
      /\ s \notin emptyEnd \/ Blocked(s)
      /\ w = <<>> /\ fin => s \in emptyEnd' \/ Blocked(s)
  BY DEF Flushes
<1>1. PICK n \in Offers(s, w, fin) :
        /\ handed' = [handed EXCEPT ![s] = @ \o SubSeq(Ready(w, fin), 1, n)]
        /\ resp' = [resp EXCEPT ![s] = SubSeq(w, n + 1, Len(w))]
        /\ scheduled' = IF n < Len(Ready(w, fin)) \/ Ready(w, fin) = <<End>>
                        THEN scheduled \cup {s} ELSE scheduled \ {s}
  BY DEF Flushes, FlushStream
<1>2. /\ Ready(w, fin) \in Seq(Nat) /\ Len(w) \in Nat
      /\ Len(Ready(w, fin)) = IF fin THEN Len(w) + 1 ELSE Len(w)
      /\ n = Len(Ready(w, fin)) \/ (n \in 0..Len(w) /\ n < Len(Ready(w, fin)) /\ ~Alone(s))
  BY <1>1, ReadySeq, OfferedPart
<1>3. \A t \in Streams : Blocked(t) => Blocked(t)'
  BY <1>0 DEF Blocked
<1>4. ~Alone(s) => Blocked(s)
  <2>1. SUFFICES ASSUME ~Alone(s), s \notin emptyEnd PROVE Blocked(s)
    BY <1>0
  <2>2. PICK t \in scheduled \ {s} : t[1] = s[1]
    BY <2>1 DEF Alone
  <2>3. t \in emptyEnd \/ Blocked(t)
    BY <2>2 DEF HInv, HeldUp
  <2> QED
    BY <1>0, <2>1, <2>2, <2>3 DEF Blocked
<1>5. /\ handed[s] \in Seq(Nat) /\ resp[s] \in Seq(Chunk)
      /\ handed \in [Streams -> Seq(Nat)] /\ resp \in [Streams -> Seq(Chunk)]
  BY DEF HInv, Typed
<1>6. SubSeq(Ready(w, fin), 1, n) \in Seq(Nat) /\ SubSeq(w, n + 1, Len(w)) \in Seq(Chunk)
  <2> DEFINE r == Ready(w, fin)
  <2>1. r \in Seq(Nat) /\ Len(w) \in Nat /\ n \in Nat /\ n <= Len(r)
    BY <1>2
  <2> HIDE DEF r
  <2>2. SubSeq(r, 1, n) \in Seq(Nat)
    BY <2>1
  <2>3. SubSeq(w, n + 1, Len(w)) \in Seq(Chunk)
    BY <2>1
  <2> QED
    BY <2>2, <2>3 DEF r
<1>7. Typed'
  BY <1>0, <1>1, <1>5, <1>6 DEF Typed
<1>8. ASSUME NEW t \in Streams \ {s}
      PROVE  Rest(t)' /\ (handed[t] = said[t] \/ Blocked(t))'
  <2>1. /\ handed'[t] = handed[t] /\ resp'[t] = resp[t] /\ said'[t] = said[t]
        /\ t \in resp_fin' <=> t \in resp_fin
    BY <1>0, <1>1, <1>5
  <2>2. Rest(t) /\ (handed[t] = said[t] \/ Blocked(t))
    BY DEF HInv
  <2>3. Ready(resp[t], t \in resp_fin') = Ready(resp[t], t \in resp_fin)
    BY <2>1 DEF Ready
  <2>4. Rest(t)'
    BY <2>1, <2>2, <2>3 DEF Rest
  <2> QED
    BY <2>1, <2>2, <2>4, <1>3
<1>9. n = Len(Ready(w, fin)) => handed'[s] = said'[s] /\ resp'[s] = <<>>
  <2>1. SUFFICES ASSUME n = Len(Ready(w, fin))
                 PROVE  SubSeq(Ready(w, fin), 1, n) = Ready(w, fin)
                        /\ SubSeq(w, n + 1, Len(w)) = <<>>
    BY <1>0, <1>1, <1>5
  <2> DEFINE r == Ready(w, fin)
  <2>2. r \in Seq(Nat) /\ Len(w) \in Nat /\ n = Len(r) /\ Len(r) >= Len(w)
    BY <2>1, <1>2
  <2> HIDE DEF r
  <2>3. SubSeq(r, 1, Len(r)) = r
    BY <2>2, SubSeqFull
  <2>4. SubSeq(w, n + 1, Len(w)) = <<>>
    BY <2>2
  <2> QED
    BY <2>2, <2>3, <2>4 DEF r
<1>10. n # Len(Ready(w, fin)) =>
         said'[s] = handed'[s] \o Ready(resp'[s], fin) /\ Blocked(s)
  <2>1. SUFFICES ASSUME n # Len(Ready(w, fin))
                 PROVE  said'[s] = handed'[s] \o Ready(resp'[s], fin)
    BY <1>2, <1>4
  <2>2. n \in 0..Len(w)
    BY <2>1, <1>2
  <2>3. (handed[s] \o SubSeq(Ready(w, fin), 1, n)) \o Ready(SubSeq(w, n + 1, Len(w)), fin)
          = handed[s] \o Ready(w, fin)
    BY <1>2, <1>5, <2>2, SplitReady, Zenon
  <2>4. /\ handed'[s] = handed[s] \o SubSeq(Ready(w, fin), 1, n)
        /\ resp'[s] = SubSeq(w, n + 1, Len(w))
    BY <1>1, <1>5
  <2> QED
    BY <1>0, <2>3, <2>4
<1>11. Rest(s)' /\ (handed[s] = said[s] \/ Blocked(s))'
  <2>1. CASE n = Len(Ready(w, fin))
    BY <1>0, <2>1, <1>9 DEF Rest
  <2>2. CASE n # Len(Ready(w, fin))
    <3>1. Ready(resp[s], s \in resp_fin)' = Ready(resp'[s], fin)
      BY <1>0 DEF Ready
    <3>2. Rest(s)'
      BY <2>2, <3>1, <1>10 DEF Rest
    <3> QED
      BY <3>2, <2>2, <1>10, <1>3
  <2> QED
    BY <2>1, <2>2
<1>12. HeldUp'
  <2>1. ASSUME NEW t \in scheduled', t # s
        PROVE  t \in Streams /\ (t \in emptyEnd' \/ Blocked(t)')
    BY <1>0, <1>1, <2>1, <1>3 DEF HInv, HeldUp
  <2>2. s \in scheduled' => s \in emptyEnd' \/ Blocked(s)'
    <3>1. Ready(w, fin) = <<End>> /\ n = Len(Ready(w, fin)) => s \in emptyEnd' \/ Blocked(s)
      <4>1. SUFFICES ASSUME Ready(w, fin) = <<End>>, n = Len(Ready(w, fin)), ~fin \/ w # <<>>
                     PROVE  s \in emptyEnd' \/ Blocked(s)
        BY <1>0
      <4>2. Len(w) = 1
        <5>1. Len(<<End>>) = 1
          OBVIOUS
        <5>2. w # <<>> => Len(w) # 0
          BY EmptySeq
        <5> QED
          BY <4>1, <5>1, <5>2, <1>2
      <4>3. w[1] = End
        <5>1. \A i \in 1..Len(w) : Ready(w, fin)[i] = w[i]
          BY ReadySeq
        <5>2. <<End>>[1] = End /\ 1 \in 1..Len(w)
          BY <4>2
        <5> QED
          BY <4>1, <5>1, <5>2
      <4>4. w[1] \in Chunk
        <5>1. 1 \in 1..Len(w)
          BY <4>2
        <5> QED
          BY <5>1, ElementOfSeq, Zenon
      <4> QED
        BY <4>3, <4>4, Http3Assumption DEF End, Chunk
    <3> QED
      BY <3>1, <1>1, <1>2, <1>4, <1>3
  <2> QED
    BY <2>1, <2>2 DEF HeldUp
<1> QED
  BY <1>0, <1>7, <1>8, <1>11, <1>12 DEF HInv

\* A response that has not ended has not ended without a body.
LEMMA NotEnded ==
  ASSUME HInv, NEW s \in Streams, s \notin resp_fin
  PROVE  s \notin emptyEnd /\ resp[s] \in Seq(Chunk) /\ handed[s] \in Seq(Nat)
         /\ said[s] = handed[s] \o resp[s]
<1>1. s \notin emptyEnd /\ resp[s] \in Seq(Chunk) /\ handed[s] \in Seq(Nat) /\ Rest(s)
  BY DEF HInv, Typed, Ended
<1>2. Ready(resp[s], s \in resp_fin) = resp[s]
  <2>1. resp[s] \in Seq(Nat)
    BY <1>1, ReadySeq
  <2>2. Ready(resp[s], s \in resp_fin) = resp[s] \o <<>>
    BY DEF Ready
  <2> QED
    BY <2>1, <2>2, ConcatEmptySeq
<1>3. handed[s] \o <<>> = handed[s]
  BY <1>1, ConcatEmptySeq
<1>4. said[s] = handed[s] \o resp[s]
  <2>1. CASE handed[s] = said[s] /\ resp[s] = <<>>
    BY <2>1, <1>3
  <2>2. CASE said[s] = handed[s] \o Ready(resp[s], s \in resp_fin)
    BY <2>2, <1>2
  <2> QED
    BY <1>1, <2>1, <2>2 DEF Rest
<1> QED
  BY <1>1, <1>4

LEMMA SendHeadersInv == ASSUME HInv, NEW s \in Streams, SendHeaders(s) PROVE HInv'
<1> DEFINE w == resp[s] \o <<Headers>>
<1>1. /\ said[s] = <<>> /\ said' = [said EXCEPT ![s] = <<Headers>>]
      /\ FlushStream(s, w, s \in resp_fin)
      /\ resp_fin' = resp_fin /\ emptyEnd' = emptyEnd
  BY DEF SendHeaders
<1>2. s \notin resp_fin
  BY <1>1 DEF HInv, Ended
<1>3. /\ s \notin emptyEnd /\ resp[s] \in Seq(Chunk) /\ handed[s] \in Seq(Nat)
      /\ said[s] = handed[s] \o resp[s]
  BY <1>2, NotEnded
<1>4. handed[s] = <<>> /\ resp[s] = <<>>
  <2>1. resp[s] \in Seq(Nat)
    BY <1>3, ReadySeq
  <2> QED
    BY <1>1, <1>3, <2>1, EmptyParts
<1>5. w = <<Headers>> /\ w \in Seq(Chunk) /\ w \in Seq(Nat)
  BY <1>4, Http3Assumption DEF Headers, Chunk
<1>6. said' \in [Streams -> Seq(Nat)]
  BY <1>1, <1>5 DEF HInv, Typed
<1>7. \A t \in Streams \ {s} : said'[t] = said[t]
  BY <1>1 DEF HInv, Typed
<1> HIDE DEF w
<1>8. said'[s] = handed[s] \o Ready(w, s \in resp_fin)
  <2>1. said'[s] = w
    BY <1>1, <1>5 DEF HInv, Typed
  <2>2. Ready(w, s \in resp_fin) = w \o <<>>
    BY <1>2 DEF Ready
  <2>3. w \o <<>> = w /\ <<>> \o w = w
    BY <1>5, ConcatEmptySeq
  <2> QED
    BY <1>4, <2>1, <2>2, <2>3
<1>9. Ended'
  <2>1. <<Headers>> # <<>>
    OBVIOUS
  <2> QED
    BY <1>1, <1>7, <2>1, <1>2 DEF HInv, Ended
<1>10. Flushes(s, w, s \in resp_fin)
  BY <1>1, <1>2, <1>3, <1>6, <1>7, <1>8, <1>9 DEF Flushes
<1>11. w \in Seq(Chunk) /\ (s \in resp_fin) \in BOOLEAN
  BY <1>5
<1> QED
  BY <1>10, <1>11, FlushInv, Zenon

LEMMA SendDataInv ==
  ASSUME HInv, NEW s \in Streams, NEW chunk \in BOOLEAN, NEW more_body \in BOOLEAN,
         SendData(s, chunk, more_body)
  PROVE  HInv'
<1> DEFINE body == IF chunk THEN <<Len(said[s])>> ELSE <<>>
           w == resp[s] \o body
<1>1. /\ said[s] # <<>> /\ s \notin resp_fin
      /\ chunk => Len(said[s]) <= Bodies
      /\ said' = [said EXCEPT ![s] = @ \o Ready(body, ~more_body)]
      /\ FlushStream(s, w, ~more_body)
  BY DEF SendData
<1>2. IF more_body THEN resp_fin' = resp_fin /\ emptyEnd' = emptyEnd
      ELSE /\ resp_fin' = resp_fin \cup {s}
           /\ emptyEnd' = IF chunk THEN emptyEnd ELSE emptyEnd \cup {s}
  BY DEF SendData
<1>3. /\ s \notin emptyEnd /\ resp[s] \in Seq(Chunk) /\ handed[s] \in Seq(Nat)
      /\ said[s] = handed[s] \o resp[s]
  BY <1>1, NotEnded
<1>4. said \in [Streams -> Seq(Nat)] /\ said[s] \in Seq(Nat)
  BY DEF HInv, Typed
<1>5. body \in Seq(Chunk)
  <2>1. chunk => Len(said[s]) \in Chunk
    BY <1>1, <1>4, Http3Assumption DEF Chunk
  <2> QED
    BY <2>1
<1>6. w \in Seq(Chunk) /\ Len(w) = Len(resp[s]) + Len(body)
  <2> DEFINE p == resp[s]
  <2>1. p \in Seq(Chunk)
    BY <1>3
  <2> HIDE DEF body, p
  <2> QED
    BY <2>1, <1>5, ConcatProperties, Zenon DEF p
<1> DEFINE out == Ready(body, ~more_body)
<1>7. out \in Seq(Nat)
  BY <1>5, ReadySeq
<1>8. said' \in [Streams -> Seq(Nat)] /\ said'[s] = said[s] \o out
  <2>1. said[s] \o out \in Seq(Nat)
    BY <1>4, <1>7, ConcatProperties
  <2> HIDE DEF out
  <2>2. said' = [said EXCEPT ![s] = said[s] \o out]
    BY <1>1 DEF out
  <2> QED
    BY <1>4, <2>1, <2>2
<1>9. \A t \in Streams \ {s} : said'[t] = said[t]
  BY <1>1, <1>4
<1>10. said'[s] = handed[s] \o Ready(w, ~more_body)
  <2> DEFINE f == IF ~more_body THEN <<End>> ELSE <<>>
             h == handed[s]
             p == resp[s]
  <2>1. f \in Seq(Nat)
    <3>1. <<End>> \in Seq(Nat) /\ <<>> \in Seq(Nat)
      BY Http3Assumption DEF End
    <3> QED
      BY <3>1
  <2>2. h \in Seq(Nat) /\ p \in Seq(Nat) /\ body \in Seq(Nat)
    BY <1>3, <1>5, ReadySeq
  <2>3. said'[s] = (h \o p) \o (body \o f) /\ Ready(w, ~more_body) = (p \o body) \o f
    BY <1>3, <1>8 DEF Ready
  <2> HIDE DEF f, h, p, body
  <2>4. body \o f \in Seq(Nat)
    BY <2>1, <2>2, ConcatProperties, Zenon
  <2>5. (h \o p) \o (body \o f) = h \o (p \o (body \o f))
    BY <2>2, <2>4, Associative
  <2>6. (p \o body) \o f = p \o (body \o f)
    BY <2>1, <2>2, Associative
  <2> QED
    BY <2>3, <2>5, <2>6 DEF h
<1>11. Ended'
  <2>1. said'[s] # <<>>
    <3> HIDE DEF out
    <3> QED
      BY <1>1, <1>4, <1>7, <1>8, ConcatEqualIffEmpty
  <2> QED
    BY <1>2, <1>9, <2>1 DEF HInv, Ended
<1>12. w = <<>> /\ ~more_body => s \in emptyEnd'
  <2>1. chunk => w # <<>>
    <3>1. SUFFICES ASSUME chunk PROVE Len(w) # 0
      OBVIOUS
    <3>2. body = <<Len(said[s])>>
      BY <3>1
    <3>3. Len(body) = 1
      BY <3>2
    <3>4. Len(resp[s]) \in Nat
      BY <1>3
    <3> HIDE DEF body, w
    <3> QED
      BY <3>3, <3>4, <1>6
  <2> QED
    BY <1>2, <2>1
<1> HIDE DEF w, body, out
<1> DEFINE fin == ~more_body
<1>13. /\ resp_fin' \in {resp_fin, resp_fin \cup {s}}
       /\ s \in resp_fin' <=> fin
       /\ emptyEnd \subseteq emptyEnd'
       /\ fin \in BOOLEAN
  BY <1>1, <1>2
<1>14. /\ FlushStream(s, w, fin)
       /\ said'[s] = handed[s] \o Ready(w, fin)
       /\ w = <<>> /\ fin => s \in emptyEnd'
  BY <1>1, <1>10, <1>12
<1> HIDE DEF fin
<1>15. Flushes(s, w, fin)
  BY <1>3, <1>8, <1>9, <1>11, <1>13, <1>14 DEF Flushes
<1>16. w \in Seq(Chunk) /\ fin \in BOOLEAN
  BY <1>6, <1>13
<1> QED
  BY <1>15, <1>16, FlushInv, Zenon

LEMMA FlushOnReceiveInv == ASSUME HInv, NEW s \in Streams, FlushOnReceive(s) PROVE HInv'
<1>1. /\ handed[s] # said[s]
      /\ FlushStream(s, resp[s], s \in resp_fin)
      /\ resp_fin' = resp_fin /\ said' = said /\ emptyEnd' = emptyEnd
  BY DEF FlushOnReceive
<1>2. /\ resp[s] \in Seq(Chunk) /\ said \in [Streams -> Seq(Nat)] /\ Rest(s) /\ Ended
      /\ Blocked(s)
  BY <1>1 DEF HInv, Typed
<1>3. said[s] = handed[s] \o Ready(resp[s], s \in resp_fin)
  BY <1>1, <1>2 DEF Rest
<1>4. Ended'
  BY <1>1, <1>2 DEF Ended
<1>5. Flushes(s, resp[s], s \in resp_fin)
  BY <1>1, <1>2, <1>3, <1>4 DEF Flushes
<1>6. resp[s] \in Seq(Chunk) /\ (s \in resp_fin) \in BOOLEAN
  BY <1>2
<1> QED
  BY <1>5, <1>6, FlushInv, Zenon

LEMMA HttpInitInv == HttpInit => HInv
<1> SUFFICES ASSUME HttpInit PROVE HInv
  OBVIOUS
<1>1. SendInit
  BY DEF HttpInit
<1>2. <<>> \in Seq(Nat) /\ <<>> \in Seq(Chunk)
  OBVIOUS
<1>3. Typed
  BY <1>1, <1>2 DEF SendInit, Typed
<1> QED
  BY <1>1, <1>3 DEF SendInit, HInv, Ended, HeldUp, Rest

LEMMA HttpNextInv == HInv /\ [HttpNext]_httpVars => HInv'
<1> SUFFICES ASSUME HInv, [HttpNext]_httpVars PROVE HInv'
  OBVIOUS
<1>1. CASE UNCHANGED sendVars
  BY <1>1 DEF sendVars, HInv, Typed, Ended, HeldUp, Rest, Blocked
<1>2. CASE \E s \in Streams : AppSends(s)
  BY <1>2, SendHeadersInv, SendDataInv DEF AppSends
<1>3. CASE \E s \in Streams : FlushOnReceive(s) /\ UNCHANGED vars
  BY <1>3, FlushOnReceiveInv
<1> QED
  BY <1>1, <1>2, <1>3 DEF HttpNext, httpVars

LEMMA PrefixOfConcat ==
  ASSUME NEW x \in Seq(Nat), NEW y \in Seq(Nat)
  PROVE  IsPrefix(x, x \o y)
<1>1. Len(x \o y) = Len(x) + Len(y) /\ Len(x) \in Nat /\ Len(y) \in Nat
  OBVIOUS
<1>2. \A i \in 1..Len(x) : (x \o y)[i] = x[i]
  OBVIOUS
<1> QED
  BY <1>1, <1>2 DEF IsPrefix

LEMMA HInvHandsOver == HInv => ResponsesHandedOver
<1> SUFFICES ASSUME HInv, NEW s \in Streams
             PROVE  IsPrefix(handed[s], said[s])
                    /\ (handed[s] = said[s] \/ \E t \in emptyEnd \ {s} : t[1] = s[1])
  BY DEF ResponsesHandedOver
<1>1. /\ handed[s] \in Seq(Nat) /\ said[s] \in Seq(Nat) /\ resp[s] \in Seq(Chunk)
      /\ Rest(s) /\ (handed[s] = said[s] \/ Blocked(s))
  BY DEF HInv, Typed
<1>2. \E y \in Seq(Nat) : said[s] = handed[s] \o y
  <2>1. handed[s] \o <<>> = handed[s] /\ <<>> \in Seq(Nat)
    BY <1>1, ConcatEmptySeq
  <2>2. Ready(resp[s], s \in resp_fin) \in Seq(Nat)
    <3>1. (s \in resp_fin) \in BOOLEAN
      OBVIOUS
    <3> QED
      BY <1>1, <3>1, ReadySeq, Zenon
  <2> QED
    BY <1>1, <2>1, <2>2 DEF Rest
<1> QED
  BY <1>1, <1>2, PrefixOfConcat DEF Blocked

\* What the applications of a connection send reaches MsQuic in order, and has reached
\* it when send returns, unless another response of the connection ended with an empty
\* message: whichever stream nghttp3 offers to FlushStream, and whatever the rounds see.
THEOREM NothingHeldBack == HttpSpec => []ResponsesHandedOver
<1>1. HttpSpec => []HInv
  BY HttpInitInv, HttpNextInv, PTL DEF HttpSpec
<1> QED
  BY <1>1, HInvHandsOver, PTL
=============================================================================
