---------------------------- MODULE ParserProofs ----------------------------
(***************************************************************************)
(* The parser, for every initial size of its buffer and every number of    *)
(* bytes: nothing is written outside of the buffer; nothing received is    *)
(* lost, repeated or reordered in it; and what the protocol is told does   *)
(* not depend on how the bytes were cut.  The first two hold together: how *)
(* many bytes have left the buffer is bounded by what has been received    *)
(* because the window is exactly the difference.                           *)
(***************************************************************************)
EXTENDS Parser, SequenceTheorems, WellFoundedInduction, TLAPS

IInv == TypeOK /\ WindowIsRest

LEMMA InitHolds == Init => IInv
BY ParserAssumption DEF Init, IInv, TypeOK, WindowIsRest, Pending, Window, Byte, Call

(***************************************************************************)
(* Making room.  The window moves as a whole and the new bytes fit behind  *)
(* it, in all three ways Parser_feed has: nothing to move, moved to the    *)
(* front, moved and the buffer grown.                                      *)
(***************************************************************************)
LEMMA RoomIsEnough ==
  ASSUME TypeOK, NEW len \in Nat \ {0}
  PROVE  /\ RoomAt(len) \in Nat
         /\ Capacity(len) \in Nat
         /\ buffer_capacity <= Capacity(len)
         /\ RoomAt(len) + Pending + len <= Capacity(len)
<1>1. /\ buffer_capacity \in Nat /\ buffer_start \in Nat /\ buffer_end \in Nat
      /\ buffer_start <= buffer_end /\ buffer_end <= buffer_capacity
  BY DEF TypeOK
<1>2. Pending \in Nat /\ Pending = buffer_end - buffer_start
  BY <1>1 DEF Pending
<1>3. CASE len > buffer_capacity - Pending
  <2>1. RoomAt(len) = 0
    BY <1>1, <1>2, <1>3 DEF RoomAt
  <2>2. /\ Capacity(len) \in Nat
        /\ Capacity(len) >= Pending + len /\ Capacity(len) >= buffer_capacity
    BY <1>1, <1>2, <1>3 DEF Capacity, Larger
  <2> QED BY <2>1, <2>2, <1>1, <1>2
<1>4. CASE ~(len > buffer_capacity - Pending)
  <2>1. Capacity(len) = buffer_capacity
    BY <1>4 DEF Capacity
  <2>2. RoomAt(len) = 0 \/ (RoomAt(len) = buffer_start /\ len <= buffer_capacity - buffer_end)
    BY <1>1, <1>2 DEF RoomAt
  <2> QED BY <2>1, <2>2, <1>1, <1>2, <1>4
<1> QED BY <1>3, <1>4

LEMMA FeedKeeps ==
  ASSUME IInv, NEW data \in Seq(Byte), Feed(data)
  PROVE  IInv'
<1> DEFINE len == Len(data)
           at == RoomAt(len)
           size == Capacity(len)
<1>1. len \in Nat \ {0}
  BY DEF Feed
<1>2. /\ buffer_capacity \in Nat /\ buffer_start \in Nat /\ buffer_end \in Nat
      /\ buffer_start <= buffer_end /\ buffer_end <= buffer_capacity
      /\ Pending \in Nat /\ Pending = buffer_end - buffer_start
      /\ sent \in Seq(Byte) /\ consumed \in 0..Len(sent)
      /\ consumed + Pending = Len(sent)
  BY DEF IInv, TypeOK, WindowIsRest, Pending
<1>3. at \in Nat /\ size \in Nat /\ at + Pending + len <= size
  BY <1>1, RoomIsEnough DEF IInv
<1>4. /\ buffer_capacity' = size /\ buffer_start' = at
      /\ buffer_end' = at + Pending + len
      /\ buffer' = Copied(at, size, data)
      /\ sent' = sent \o data
      /\ consumed' = consumed
  BY DEF Feed
<1> HIDE DEF len, at, size
<1>5. sent' \in Seq(Byte) /\ Len(sent') = Len(sent) + len
  BY <1>2, <1>4 DEF len
<1>6. Pending' = Pending + len
  BY <1>1, <1>2, <1>3, <1>4 DEF Pending
<1>7. \A i \in 0..size-1 :
        buffer'[i] = IF i \in at..at + Pending - 1 THEN buffer[i - at + buffer_start]
                     ELSE IF i \in at + Pending..at + Pending + len - 1
                          THEN data[i - at - Pending + 1]
                          ELSE "junk"
  BY <1>4 DEF Copied, len
<1>8. \A i \in at..at + Pending - 1 :
        /\ i - at + buffer_start \in Window
        /\ buffer'[i] = buffer[i - at + buffer_start]
  BY <1>1, <1>2, <1>3, <1>7 DEF Window
<1>9. \A i \in at + Pending..at + Pending + len - 1 :
        i - at - Pending + 1 \in 1..len /\ buffer'[i] = data[i - at - Pending + 1]
  BY <1>1, <1>2, <1>3, <1>7
<1>10. \A i \in 1..len : data[i] \in Byte
  BY DEF len
<1>11. \A i \in Window : buffer[i] \in Byte \cup {"junk"}
  BY <1>2 DEF IInv, TypeOK, Window
<1>12. buffer' \in [0..size-1 -> Byte \cup {"junk"}]
  <2>1. \A i \in 0..size-1 : buffer'[i] \in Byte \cup {"junk"}
    <3> TAKE i \in 0..size-1
    <3>1. CASE i \in at..at + Pending - 1 BY <3>1, <1>8, <1>11
    <3>2. CASE i \in at + Pending..at + Pending + len - 1 BY <3>2, <1>9, <1>10
    <3>3. CASE i \notin at..at + Pending - 1 /\ i \notin at + Pending..at + Pending + len - 1
      BY <3>3, <1>7
    <3> QED BY <3>1, <3>2, <3>3
  <2>2. buffer' = [i \in 0..size-1 |-> buffer'[i]]
    BY <1>4 DEF Copied
  <2> QED BY <2>1, <2>2
<1>13. TypeOK'
  <2>1. /\ buffer_capacity' \in Nat /\ buffer_start' \in Nat /\ buffer_end' \in Nat
        /\ buffer_start' <= buffer_end' /\ buffer_end' <= buffer_capacity'
    BY <1>1, <1>2, <1>3, <1>4
  <2>2. consumed' \in 0..Len(sent')
    BY <1>1, <1>2, <1>4, <1>5
  <2>3. /\ state' \in {"HEADERS", "BODY"}
        /\ connection' \in {"UNSET", "CLOSE", "KEEP_ALIVE"}
        /\ feeding' \in BOOLEAN
        /\ transport' \in {"open", "closing", "lost"}
        /\ calls' \in Seq(Call)
    BY DEF Feed, IInv, TypeOK
  <2> QED BY <2>1, <2>2, <2>3, <1>4, <1>5, <1>12 DEF TypeOK
<1>14. WindowIsRest'
  <2> Len(sent) \in Nat
    BY <1>2
  <2>1. consumed' + Pending' = Len(sent')
    <3>1. consumed' = consumed
      BY <1>4
    <3> QED BY <3>1, <1>1, <1>2, <1>5, <1>6
  <2>2. \A i \in 1..Len(sent) : sent'[i] = sent[i]
    BY <1>2, <1>4
  <2>3. \A i \in 1..len : sent'[Len(sent) + i] = data[i]
    BY <1>2, <1>4 DEF len
  <2>4. \A i \in Window' : buffer'[i] = sent'[consumed' + i - buffer_start' + 1]
    <3> TAKE i \in Window'
    <3>1. i \in at..at + Pending + len - 1
      BY <1>1, <1>2, <1>3, <1>4 DEF Window
    <3>2. CASE i \in at..at + Pending - 1
      <4> DEFINE j == i - at + buffer_start
      <4>1. j \in Window /\ buffer'[i] = buffer[j]
        BY <3>2, <1>8
      <4>2. buffer[j] = sent[consumed + j - buffer_start + 1]
        BY <4>1 DEF IInv, WindowIsRest
      <4>3. /\ consumed + j - buffer_start + 1 = consumed' + i - buffer_start' + 1
            /\ consumed + j - buffer_start + 1 \in 1..Len(sent)
        BY <3>2, <1>2, <1>3, <1>4
      <4> QED BY <4>1, <4>2, <4>3, <2>2
    <3>3. CASE i \in at + Pending..at + Pending + len - 1
      <4> DEFINE k == i - at - Pending + 1
      <4>1. k \in 1..len /\ buffer'[i] = data[k]
        BY <3>3, <1>9
      <4>2. consumed' = consumed /\ buffer_start' = at
        BY <1>4
      <4>3. consumed' + i - buffer_start' + 1 = Len(sent) + k
        BY <4>2, <3>3, <1>1, <1>2, <1>3
      <4> QED BY <4>1, <4>3, <2>3
    <3> QED BY <3>1, <3>2, <3>3, <1>1, <1>2, <1>3
  <2> QED BY <2>1, <2>4 DEF WindowIsRest
<1> QED BY <1>13, <1>14 DEF IInv

(***************************************************************************)
(* The steps that parse, each with what it does to the window: none of     *)
(* them writes to the buffer.                                              *)
(***************************************************************************)
LEMMA CallsGrow ==
  ASSUME TypeOK, NEW c \in Call
  PROVE  Append(calls, c) \in Seq(Call)
BY DEF TypeOK

LEMMA ResetKeeps ==
  ASSUME IInv, ResetState, UNCHANGED <<buffer, buffer_capacity, sent>>,
         calls' \in Seq(Call), feeding' \in BOOLEAN, transport' \in {"open", "closing", "lost"}
  PROVE  IInv'
BY DEF IInv, TypeOK, WindowIsRest, ResetState, Pending, Window

LEMMA OnErrorKeeps ==
  ASSUME IInv, NEW error \in Call, OnError(error)
  PROVE  IInv'
<1>1. /\ ResetState /\ UNCHANGED <<buffer, buffer_capacity, sent>>
      /\ feeding' \in BOOLEAN /\ transport' \in {"open", "closing", "lost"}
      /\ calls' = Append(calls, error)
  BY DEF OnError
<1>2. calls' \in Seq(Call)
  BY <1>1, CallsGrow DEF IInv
<1> QED BY <1>1, <1>2, ResetKeeps

LEMMA SameBufferKeeps ==
  ASSUME IInv, UNCHANGED <<buffer_vars, sent, consumed>>,
         state' \in {"HEADERS", "BODY"}, connection' \in {"UNSET", "CLOSE", "KEEP_ALIVE"},
         calls' \in Seq(Call), feeding' \in BOOLEAN, transport' \in {"open", "closing", "lost"}
  PROVE  IInv'
BY DEF IInv, TypeOK, WindowIsRest, Pending, Window, buffer_vars

LEMMA CompleteHeadKeeps ==
  ASSUME IInv, CompleteHead
  PROVE  IInv'
<1>1. PICK i \in Window :
        /\ connection' = IF buffer[i] = "end10" THEN "CLOSE" ELSE "KEEP_ALIVE"
        /\ buffer_start' = i + 1
        /\ consumed' = consumed + i + 1 - buffer_start
  BY DEF CompleteHead
<1>2. /\ UNCHANGED <<buffer, buffer_end, buffer_capacity, feeding, transport, sent>>
      /\ state' = "BODY"
      /\ calls' = Append(calls, "headers")
  BY DEF CompleteHead
<1>3. /\ buffer_start \in Nat /\ buffer_end \in Nat /\ buffer_start <= buffer_end
      /\ consumed \in Nat /\ Len(sent) \in Nat /\ consumed + Pending = Len(sent)
      /\ Pending = buffer_end - buffer_start
  BY DEF IInv, TypeOK, WindowIsRest, Pending
<1>4. i \in Int /\ buffer_start <= i /\ i < buffer_end
  BY <1>3 DEF Window
<1>5. /\ buffer_start' \in Nat /\ buffer_start' <= buffer_end'
      /\ consumed' \in 0..Len(sent') /\ consumed' + Pending' = Len(sent')
  BY <1>1, <1>2, <1>3, <1>4 DEF Pending
<1>6. calls' \in Seq(Call)
  BY <1>2, CallsGrow DEF IInv, Call
<1>7. TypeOK'
  BY <1>1, <1>2, <1>5, <1>6 DEF IInv, TypeOK
<1>8. \A j \in Window' : buffer'[j] = sent'[consumed' + j - buffer_start' + 1]
  <2> TAKE j \in Window'
  <2>1. j \in Window
    BY <1>1, <1>2, <1>3, <1>4 DEF Window
  <2>2. buffer[j] = sent[consumed + j - buffer_start + 1]
    BY <2>1 DEF IInv, WindowIsRest
  <2>3. consumed' + j - buffer_start' + 1 = consumed + j - buffer_start + 1
    BY <2>1, <1>1, <1>3, <1>4 DEF Window
  <2> QED BY <2>2, <2>3, <1>2
<1> QED BY <1>5, <1>7, <1>8 DEF IInv, WindowIsRest

LEMMA StepKeeps == IInv /\ [Next]_vars => IInv'
<1> SUFFICES ASSUME IInv, [Next]_vars PROVE IInv'
  OBVIOUS
<1>1. ASSUME NEW n \in 1..MaxBytes - Len(sent), NEW data \in [1..n -> Byte], Feed(data)
      PROVE  IInv'
  <2>1. n \in Nat
    BY ParserAssumption
  <2>2. data \in Seq(Byte)
    BY <2>1, <1>1
  <2> QED BY <2>2, <1>1, FeedKeeps
<1>2. CASE ExcessiveData BY <1>2, OnErrorKeeps DEF ExcessiveData, Call
<1>3. CASE MalformedHead BY <1>3, OnErrorKeeps DEF MalformedHead, Call
<1>4. CASE IncompleteHead
  <2>1. calls' \in Seq(Call) BY <1>4, CallsGrow DEF IInv, IncompleteHead, Call
  <2> QED BY <2>1, <1>4, SameBufferKeeps DEF IncompleteHead, IInv, TypeOK
<1>5. CASE CompleteHead BY <1>5, CompleteHeadKeeps
<1>6. CASE Body
  <2>1. calls' \in Seq(Call) BY <1>6, CallsGrow DEF IInv, Body, Call
  <2> QED BY <2>1, <1>6, SameBufferKeeps DEF Body, IInv, TypeOK
<1>7. CASE BodyFailed
  <2>1. calls' \in Seq(Call) BY <1>7, CallsGrow DEF IInv, BodyFailed, Call
  <2> QED BY <2>1, <1>7, SameBufferKeeps DEF BodyFailed, IInv, TypeOK
<1>8. CASE FeedEnd BY <1>8, SameBufferKeeps DEF FeedEnd, IInv, TypeOK
<1>9. CASE FeedDisconnect
  <2>1. calls' \in Seq(Call) BY <1>9, CallsGrow DEF IInv, FeedDisconnect, Call, TypeOK
  <2> QED BY <2>1, <1>9, ResetKeeps DEF FeedDisconnect, IInv, TypeOK
<1>10. CASE UNCHANGED vars BY <1>10, SameBufferKeeps DEF vars, IInv, TypeOK
<1> QED BY <1>1, <1>2, <1>3, <1>4, <1>5, <1>6, <1>7, <1>8, <1>9, <1>10 DEF Next

\* Parser_feed and what it calls keep the buffer's indices in order and
\* inside the buffer, whatever sizes the network delivers.
THEOREM TypeCorrect == Spec => []TypeOK
<1>1. IInv => TypeOK BY DEF IInv
<1> QED BY <1>1, InitHolds, StepKeeps, PTL DEF Spec

\* The bytes between buffer_start and buffer_end are always exactly the bytes
\* received that no call of _parse_headers has consumed, in order.
THEOREM NothingIsLost == Spec => []WindowIsRest
<1>1. IInv => WindowIsRest BY DEF IInv
<1> QED BY <1>1, InitHolds, StepKeeps, PTL DEF Spec

---------------------------------------------------------------------------
(***************************************************************************)
(* After on_body was told that bytes follow, the loop has bytes to parse.  *)
(***************************************************************************)
MoreInv ==
  calls # <<>> /\ calls[Len(calls)] = "body, more follows"
    => feeding /\ state = "HEADERS" /\ Pending > 0

LEMMA LastCall ==
  ASSUME NEW cs \in Seq(Call), NEW c
  PROVE  Append(cs, c)[Len(Append(cs, c))] = c
OBVIOUS

LEMMA MoreKept == ASSUME IInv, MoreInv, [Next]_vars PROVE MoreInv'
<1>1. /\ calls \in Seq(Call) /\ buffer_start \in Nat /\ buffer_end \in Nat
      /\ buffer_start <= buffer_end
  BY DEF IInv, TypeOK
<1>2. ASSUME NEW c, c # "body, more follows", calls' = Append(calls, c) PROVE MoreInv'
  BY <1>1, <1>2, LastCall DEF MoreInv
<1>3. ASSUME NEW data, Feed(data) PROVE MoreInv'
  BY <1>3 DEF MoreInv, Feed
<1>4. CASE ExcessiveData \/ MalformedHead \/ IncompleteHead \/ CompleteHead \/ BodyFailed
  BY <1>2, <1>4 DEF ExcessiveData, MalformedHead, OnError, IncompleteHead, CompleteHead,
     BodyFailed
<1>5. CASE Body
  <2>1. CASE Pending > 0
    BY <1>5, <2>1 DEF Body, MoreInv, Pending, buffer_vars
  <2>2. CASE ~(Pending > 0)
    BY <1>2, <1>5, <2>2 DEF Body
  <2> QED BY <2>1, <2>2
<1>6. CASE FeedEnd
  <2>1. ~(Pending > 0) /\ calls' = calls
    BY <1>1, <1>6 DEF FeedEnd, Pending
  <2>2. ~(calls # <<>> /\ calls[Len(calls)] = "body, more follows")
    BY <2>1 DEF MoreInv
  <2> QED BY <2>1, <2>2 DEF MoreInv
<1>7. CASE FeedDisconnect
  BY <1>2, <1>7 DEF FeedDisconnect, MoreInv
<1>8. CASE UNCHANGED vars
  BY <1>8 DEF vars, buffer_vars, MoreInv, Pending
<1> QED BY <1>3, <1>4, <1>5, <1>6, <1>7, <1>8 DEF Next

(***************************************************************************)
(* When on_body says that more follows, so that the protocol gathers a     *)
(* response, another call comes before the loop ends, which can flush it.  *)
(***************************************************************************)
THEOREM GatherIsFollowed == Spec => []MoreIsFollowed
<1>1. Init => MoreInv
  BY DEF Init, MoreInv
<1>2. MoreInv => MoreIsFollowed
  BY DEF MoreInv, MoreIsFollowed
<1> QED BY <1>1, <1>2, MoreKept, InitHolds, StepKeeps, PTL DEF Spec
---------------------------------------------------------------------------
(***************************************************************************)
(* Induction, from the well-foundedness of the naturals.                   *)
(***************************************************************************)
LEMMA LeastOf ==
  ASSUME NEW T \in SUBSET Nat, T # {}
  PROVE  \E x \in T : \A y \in T : x <= y
<1>1. PICK x \in T : \A y \in T : ~ (<<y, x>> \in OpToRel(<, Nat))
  BY NatLessThanWellFounded, WFMin
<1>2. \A y \in T : ~(y < x)
  BY <1>1 DEF OpToRel
<1> QED
  BY <1>2

LEMMA Induct ==
  ASSUME NEW S \in SUBSET Nat, 0 \in S, \A n \in S : n + 1 \in S
  PROVE  S = Nat
<1> SUFFICES ASSUME S # Nat PROVE FALSE
  OBVIOUS
<1> DEFINE T == Nat \ S
<1>1. T \in SUBSET Nat /\ T # {}
  OBVIOUS
<1> HIDE DEF T
<1>2. PICK x \in T : \A y \in T : x <= y
  BY <1>1, LeastOf
<1> USE DEF T
<1>3. x \in Nat /\ x # 0 /\ x \notin S
  OBVIOUS
<1>4. x - 1 \in Nat /\ x - 1 \notin T
  BY <1>2, <1>3
<1> QED
  BY <1>3, <1>4
---------------------------------------------------------------------------
(***************************************************************************)
(* What RequestsOf computes.  Its recursion runs from the end of the bytes *)
(* to their beginning, so the induction does.                              *)
(***************************************************************************)
AsksAt(t, p, f) ==
  IF p = Len(t) THEN <<>>
  ELSE IF p > 0 /\ t[p] = "end10" THEN <<"excessive">>
  ELSE IF Stops(t, p) = {} THEN <<>>
  ELSE IF t[FirstStop(t, p)] = "bad" THEN <<"malformed">>
  ELSE <<"headers", "body">> \o f[FirstStop(t, p)]

From(t) ==
  CHOOSE f : f = [p \in 0..Len(t) |->
    IF p = Len(t) THEN <<>>
    ELSE IF p > 0 /\ t[p] = "end10" THEN <<"excessive">>
    ELSE IF Stops(t, p) = {} THEN <<>>
    ELSE IF t[FirstStop(t, p)] = "bad" THEN <<"malformed">>
    ELSE <<"headers", "body">> \o f[FirstStop(t, p)]]

LEMMA RequestsFrom == \A t : RequestsOf(t) = From(t)[0]
BY DEF RequestsOf, From

LEMMA FirstStopExists ==
  ASSUME NEW t \in Seq(Byte), NEW p \in Nat, Stops(t, p) # {}
  PROVE  /\ FirstStop(t, p) \in Stops(t, p)
         /\ FirstStop(t, p) \in p + 1..Len(t)
         /\ \A j \in Stops(t, p) : FirstStop(t, p) <= j
<1>1. Stops(t, p) \in SUBSET Nat /\ Stops(t, p) \subseteq p + 1..Len(t)
  BY DEF Stops
<1>2. \E i \in Stops(t, p) : \A j \in Stops(t, p) : i <= j
  BY <1>1, LeastOf
<1> QED BY <1>1, <1>2 DEF FirstStop

LEMMA FirstStopIs ==
  ASSUME NEW t \in Seq(Byte), NEW p \in Nat, NEW i \in p + 1..Len(t), t[i] # "part",
         \A j \in p + 1..i - 1 : t[j] = "part"
  PROVE  Stops(t, p) # {} /\ FirstStop(t, p) = i
<1>1. i \in Stops(t, p)
  BY DEF Stops
<1>2. \A j \in Stops(t, p) : i <= j
  BY DEF Stops
<1>3. /\ FirstStop(t, p) \in Stops(t, p) /\ FirstStop(t, p) \in p + 1..Len(t)
      /\ FirstStop(t, p) <= i
  BY <1>1, FirstStopExists
<1> QED BY <1>1, <1>2, <1>3

LEMMA Words ==
  /\ <<"headers", "body">> \in Seq(Call) /\ <<"excessive">> \in Seq(Call)
  /\ <<"malformed">> \in Seq(Call) /\ <<>> \in Seq(Call)
<1>1. "headers" \in Call /\ "body" \in Call /\ "excessive" \in Call /\ "malformed" \in Call
  BY DEF Call
<1> QED BY <1>1

LEMMA FromIs ==
  ASSUME NEW t \in Seq(Byte)
  PROVE  /\ \A p \in 0..Len(t) : From(t)[p] = AsksAt(t, p, From(t))
         /\ \A p \in 0..Len(t) : From(t)[p] \in Seq(Call)
<1> DEFINE L == Len(t)
           Upto(f, k) == /\ f = [p \in L - k..L |-> AsksAt(t, p, f)]
                         /\ \A p \in L - k..L : f[p] \in Seq(Call)
           S == {k \in Nat : k <= L => \E f : Upto(f, k)}
<1>1. L \in Nat
  OBVIOUS
<1>2. 0 \in S
  <2> DEFINE f == [p \in L - 0..L |-> <<>>]
  <2>1. \A p \in L - 0..L : AsksAt(t, p, f) = <<>>
    BY <1>1 DEF AsksAt
  <2>2. f = [p \in L - 0..L |-> AsksAt(t, p, f)]
    BY <2>1
  <2>3. \A p \in L - 0..L : f[p] \in Seq(Call)
    OBVIOUS
  <2> HIDE DEF f
  <2>4. Upto(f, 0)
    BY <2>2, <2>3
  <2> QED BY <2>4
<1>3. ASSUME NEW k \in S PROVE k + 1 \in S
  <2> SUFFICES ASSUME k + 1 <= L PROVE \E f : Upto(f, k + 1)
    OBVIOUS
  <2>1. k \in Nat /\ k <= L
    BY <1>1
  <2>2. PICK f : Upto(f, k)
    BY <2>1
  <2> DEFINE q == L - (k + 1)
             g == [p \in q..L |-> IF p = q THEN AsksAt(t, q, f) ELSE f[p]]
  <2>3. q \in Nat /\ q + 1 = L - k /\ q <= L
    BY <1>1, <2>1
  <2> HIDE DEF q
  <2>4. \A p \in q..L : AsksAt(t, p, g) = AsksAt(t, p, f)
    <3> TAKE p \in q..L
    <3>1. p \in Nat
      BY <1>1, <2>3
    <3>2. CASE Stops(t, p) = {}
      BY <3>2 DEF AsksAt
    <3>3. CASE Stops(t, p) # {}
      <4>1. FirstStop(t, p) \in p + 1..L
        BY <3>1, <3>3, FirstStopExists
      <4>2. FirstStop(t, p) \in q..L /\ FirstStop(t, p) # q
        BY <2>3, <3>1, <4>1
      <4>3. g[FirstStop(t, p)] = f[FirstStop(t, p)]
        BY <4>2
      <4> HIDE DEF g
      <4> QED BY <4>3 DEF AsksAt
    <3> QED BY <3>2, <3>3
  <2>5. \A p \in q..L : g[p] = AsksAt(t, p, f)
    <3> TAKE p \in q..L
    <3>1. CASE p = q
      BY <3>1
    <3>2. CASE p # q
      <4>1. p \in L - k..L
        BY <1>1, <2>3, <3>2
      <4>2. g[p] = f[p]
        BY <3>2
      <4> QED BY <2>2, <4>1, <4>2
    <3> QED BY <3>1, <3>2
  <2>6. g = [p \in q..L |-> AsksAt(t, p, g)]
    BY <2>4, <2>5
  <2>7. \A p \in q..L : g[p] \in Seq(Call)
    <3> TAKE p \in q..L
    <3>1. CASE p # q
      <4>1. p \in L - k..L
        BY <1>1, <2>3, <3>1
      <4> QED BY <2>2, <3>1, <4>1
    <3>2. CASE p = q
      <4>1. g[p] = AsksAt(t, q, f)
        BY <3>2
      <4>2. CASE Stops(t, q) = {}
        BY <4>1, <4>2, Words DEF AsksAt
      <4>3. CASE Stops(t, q) # {}
        <5>1. FirstStop(t, q) \in L - k..L
          BY <2>3, <4>3, FirstStopExists
        <5> DEFINE rest == f[FirstStop(t, q)]
        <5>2. rest \in Seq(Call)
          BY <2>2, <5>1
        <5> HIDE DEF rest
        <5>3. /\ <<"headers", "body">> \in Seq(Call) /\ <<"excessive">> \in Seq(Call)
              /\ <<"malformed">> \in Seq(Call) /\ <<>> \in Seq(Call)
          BY Words
        <5>4. <<"headers", "body">> \o rest \in Seq(Call)
          BY <5>2, <5>3, ConcatProperties
        <5> HIDE DEF g
        <5> QED BY <4>1, <5>3, <5>4 DEF AsksAt, rest
      <4> QED BY <4>2, <4>3
    <3> QED BY <3>1, <3>2
  <2> HIDE DEF g
  <2>8. Upto(g, k + 1)
    BY <2>6, <2>7 DEF q
  <2> QED BY <2>8
<1>4. S = Nat
  <2>1. S \in SUBSET Nat
    OBVIOUS
  <2> HIDE DEF S
  <2> QED BY <1>2, <1>3, <2>1, Induct
<1>5. PICK f : Upto(f, L)
  <2>1. L \in S
    BY <1>1, <1>4
  <2> QED BY <1>1, <2>1
<1>6. L - L = 0
  BY <1>1
<1>7. f = [p \in 0..L |-> AsksAt(t, p, f)] /\ \A p \in 0..L : f[p] \in Seq(Call)
  BY <1>5, <1>6
<1>8. \E h : h = [p \in 0..L |-> AsksAt(t, p, h)]
  BY <1>7
<1>9. From(t) = [p \in 0..L |-> AsksAt(t, p, From(t))]
  BY <1>8 DEF From, AsksAt
<1> QED BY <1>9

---------------------------------------------------------------------------
(***************************************************************************)
(* What Asked computes, one call at a time.                                *)
(***************************************************************************)
Told(cs) ==
  CHOOSE f : f = [n \in 0..Len(cs) |->
    IF n = 0 THEN <<>>
    ELSE IF cs[n] = "incomplete" THEN f[n - 1]
    ELSE Append(f[n - 1], IF cs[n] = "body, more follows" THEN "body" ELSE cs[n])]

AskedOf(cs) == Told(cs)[Len(cs)]

Word(c) == IF c = "body, more follows" THEN "body" ELSE c

LEMMA ToldIs ==
  ASSUME NEW cs \in Seq(Call)
  PROVE  /\ Told(cs)[0] = <<>>
         /\ \A n \in 1..Len(cs) :
              Told(cs)[n] = IF cs[n] = "incomplete" THEN Told(cs)[n - 1]
                            ELSE Append(Told(cs)[n - 1], Word(cs[n]))
<1> DEFINE Step(f, n) == IF cs[n] = "incomplete" THEN f[n - 1]
                         ELSE Append(f[n - 1], Word(cs[n]))
           Upto(f, k) == f = [n \in 0..k |-> IF n = 0 THEN <<>> ELSE Step(f, n)]
           S == {k \in Nat : \E f : Upto(f, k)}
<1>1. 0 \in S
  <2> DEFINE f == [n \in 0..0 |-> <<>>]
  <2>1. Upto(f, 0)
    OBVIOUS
  <2> QED BY <2>1
<1>2. ASSUME NEW k \in S PROVE k + 1 \in S
  <2>1. k \in Nat
    OBVIOUS
  <2>2. PICK f : Upto(f, k)
    OBVIOUS
  <2> DEFINE g == [n \in 0..k + 1 |-> IF n = k + 1 THEN Step(f, k + 1) ELSE f[n]]
  <2>3. \A n \in 0..k + 1 : g[n] = IF n = 0 THEN <<>> ELSE Step(g, n)
    <3> TAKE n \in 0..k + 1
    <3>1. CASE n = 0
      BY <2>1, <2>2, <3>1
    <3>2. CASE n \in 1..k
      <4>1. n # 0 /\ n # k + 1 /\ n - 1 \in 0..k + 1 /\ n - 1 # k + 1 /\ n \in 0..k
        BY <2>1, <3>2
      <4>2. g[n] = f[n] /\ g[n - 1] = f[n - 1]
        BY <4>1
      <4>3. f[n] = Step(f, n)
        BY <2>2, <4>1
      <4> HIDE DEF g
      <4> QED BY <4>1, <4>2, <4>3
    <3>3. CASE n = k + 1
      <4>1. n # 0 /\ n - 1 = k /\ k \in 0..k + 1 /\ k # k + 1
        BY <2>1, <3>3
      <4>2. g[n] = Step(f, k + 1) /\ g[k] = f[k] /\ (k + 1) - 1 = k
        BY <2>1, <3>3, <4>1
      <4> HIDE DEF g
      <4> QED BY <3>3, <4>1, <4>2
    <3> QED BY <2>1, <3>1, <3>2, <3>3
  <2>4. g = [n \in 0..k + 1 |-> g[n]]
    OBVIOUS
  <2> HIDE DEF g
  <2>5. Upto(g, k + 1)
    <3>1. g = [n \in 0..k + 1 |-> IF n = 0 THEN <<>> ELSE Step(g, n)]
      <4> DEFINE h == [n \in 0..k + 1 |-> IF n = 0 THEN <<>> ELSE Step(g, n)]
      <4>1. \A n \in 0..k + 1 : h[n] = g[n]
        BY <2>3
      <4>2. h = [n \in 0..k + 1 |-> h[n]]
        OBVIOUS
      <4> HIDE DEF h
      <4>3. h = g
        BY <2>4, <4>1, <4>2
      <4> QED BY <4>3 DEF h
    <3> QED BY <3>1
  <2>6. k + 1 \in Nat
    BY <2>1
  <2> HIDE DEF Upto
  <2> QED BY <2>5, <2>6
<1>3. S = Nat
  <2>1. S \in SUBSET Nat
    OBVIOUS
  <2> HIDE DEF S
  <2> QED BY <1>1, <1>2, <2>1, Induct
<1>4. Len(cs) \in Nat
  OBVIOUS
<1>5. \E f : Upto(f, Len(cs))
  BY <1>3, <1>4
<1>6. Upto(Told(cs), Len(cs))
  BY <1>5 DEF Told, Word
<1> DEFINE F == Told(cs)
<1> HIDE DEF F, Step
<1>7. F = [n \in 0..Len(cs) |-> IF n = 0 THEN <<>> ELSE Step(F, n)]
  BY <1>6 DEF F
<1>8. \A n \in 0..Len(cs) : F[n] = IF n = 0 THEN <<>> ELSE Step(F, n)
  BY <1>7
<1>9. F[0] = <<>> /\ \A n \in 1..Len(cs) : F[n] = Step(F, n)
  BY <1>4, <1>8
<1> QED BY <1>9 DEF F, Step

LEMMA ToldAppend ==
  ASSUME NEW cs \in Seq(Call), NEW c \in Call
  PROVE  AskedOf(Append(cs, c)) = IF c = "incomplete" THEN AskedOf(cs)
                                  ELSE Append(AskedOf(cs), Word(c))
<1> DEFINE ds == Append(cs, c)
           S == {n \in Nat : n <= Len(cs) => Told(ds)[n] = Told(cs)[n]}
<1>1. /\ ds \in Seq(Call) /\ Len(ds) = Len(cs) + 1 /\ Len(cs) \in Nat
      /\ ds[Len(cs) + 1] = c
      /\ \A n \in 1..Len(cs) : ds[n] = cs[n]
  OBVIOUS
<1> HIDE DEF ds
<1>2. /\ Told(ds)[0] = <<>>
      /\ \A n \in 1..Len(ds) :
           Told(ds)[n] = IF ds[n] = "incomplete" THEN Told(ds)[n - 1]
                         ELSE Append(Told(ds)[n - 1], Word(ds[n]))
  BY <1>1, ToldIs
<1>3. /\ Told(cs)[0] = <<>>
      /\ \A n \in 1..Len(cs) :
           Told(cs)[n] = IF cs[n] = "incomplete" THEN Told(cs)[n - 1]
                         ELSE Append(Told(cs)[n - 1], Word(cs[n]))
  BY ToldIs
<1>4. 0 \in S
  BY <1>2, <1>3
<1>5. ASSUME NEW n \in S PROVE n + 1 \in S
  <2> SUFFICES ASSUME n + 1 <= Len(cs) PROVE Told(ds)[n + 1] = Told(cs)[n + 1]
    OBVIOUS
  <2>1. /\ n + 1 \in 1..Len(ds) /\ n + 1 \in 1..Len(cs) /\ (n + 1) - 1 = n /\ n <= Len(cs)
    BY <1>1
  <2>2. Told(ds)[n] = Told(cs)[n]
    BY <2>1
  <2> QED BY <1>1, <1>2, <1>3, <2>1, <2>2
<1>6. S = Nat
  <2>1. S \in SUBSET Nat
    OBVIOUS
  <2> HIDE DEF S
  <2> QED BY <1>4, <1>5, <2>1, Induct
<1>7. Told(ds)[Len(cs)] = Told(cs)[Len(cs)]
  BY <1>1, <1>6
<1>8. Len(cs) + 1 \in 1..Len(ds) /\ (Len(cs) + 1) - 1 = Len(cs)
  BY <1>1
<1> QED BY <1>1, <1>2, <1>7, <1>8 DEF AskedOf, ds

LEMMA AskedIsCalls ==
  ASSUME NEW cs \in Seq(Call)
  PROVE  AskedOf(cs) \in Seq(Call)
<1> DEFINE S == {n \in Nat : n <= Len(cs) => Told(cs)[n] \in Seq(Call)}
<1>1. /\ Told(cs)[0] = <<>>
      /\ \A n \in 1..Len(cs) :
           Told(cs)[n] = IF cs[n] = "incomplete" THEN Told(cs)[n - 1]
                         ELSE Append(Told(cs)[n - 1], Word(cs[n]))
  BY ToldIs
<1>2. 0 \in S
  BY <1>1, Words
<1>3. ASSUME NEW n \in S PROVE n + 1 \in S
  <2> SUFFICES ASSUME n + 1 <= Len(cs) PROVE Told(cs)[n + 1] \in Seq(Call)
    OBVIOUS
  <2>1. n + 1 \in 1..Len(cs) /\ (n + 1) - 1 = n /\ n <= Len(cs)
    OBVIOUS
  <2> DEFINE a == Told(cs)[n]
             w == Word(cs[n + 1])
  <2>2. a \in Seq(Call)
    BY <2>1
  <2>3. w \in Call
    <3>1. cs[n + 1] \in Call
      BY <2>1, ElementOfSeq
    <3> QED BY <3>1 DEF Word, Call
  <2>4. Told(cs)[n + 1] = a \/ Told(cs)[n + 1] = Append(a, w)
    BY <1>1, <2>1
  <2> HIDE DEF a, w
  <2>5. Append(a, w) \in Seq(Call)
    BY <2>2, <2>3, AppendProperties
  <2> QED BY <2>2, <2>4, <2>5
<1>4. S = Nat
  <2>1. S \in SUBSET Nat
    OBVIOUS
  <2> HIDE DEF S
  <2> QED BY <1>2, <1>3, <2>1, Induct
<1>5. Len(cs) \in Nat
  OBVIOUS
<1> QED BY <1>4, <1>5 DEF AskedOf

LEMMA AskedIs == Asked = AskedOf(calls) /\ Asked' = AskedOf(calls')
BY DEF Asked, AskedOf, Told

\* One call of the protocol more.
LEMMA AskedGrows ==
  ASSUME IInv, NEW c \in Call, calls' = Append(calls, c)
  PROVE  /\ Asked \in Seq(Call)
         /\ Asked' = IF c = "incomplete" THEN Asked ELSE Append(Asked, Word(c))
<1>1. calls \in Seq(Call)
  BY DEF IInv, TypeOK
<1> QED BY <1>1, AskedIs, ToldAppend, AskedIsCalls

\* The first call of what is still asked for moves over to what was asked.
LEMMA OneMore ==
  ASSUME NEW a \in Seq(Call), NEW x \in Call, NEW rest \in Seq(Call)
  PROVE  a \o (<<x>> \o rest) = Append(a, x) \o rest
<1> DEFINE one == <<x>>
<1>1. one \in Seq(Call) /\ Append(a, x) = a \o one
  BY AppendIsConcat
<1> HIDE DEF one
<1>2. (a \o one) \o rest = a \o (one \o rest)
  BY <1>1, ConcatAssociative
<1> QED BY <1>1, <1>2 DEF one
---------------------------------------------------------------------------
(***************************************************************************)
(* The requests do not depend on the cuts.  While the connection is open,  *)
(* whatever bytes may still follow, what they ask for altogether is what   *)
(* the protocol has been told and what is asked for from the byte on that  *)
(* the parser has reached; and the loop only leaves off where nothing more *)
(* can be told without another byte.                                       *)
(***************************************************************************)
Continues(b) ==
  /\ b \in Seq(Byte)
  /\ Len(sent) <= Len(b)
  /\ \A i \in 1..Len(sent) : b[i] = sent[i]

Rest(b) == IF state = "BODY" THEN <<"body">> \o From(b)[consumed] ELSE From(b)[consumed]

ToldAndRest == \A b : Continues(b) => RequestsOf(b) = Asked \o Rest(b)

ClosesAfterOld == connection = "CLOSE" <=> consumed > 0 /\ sent[consumed] = "end10"

LeavesOffHere ==
  /\ state = "HEADERS"
  /\ Pending = 0 \/ (connection # "CLOSE" /\ \A i \in Window : buffer[i] = "part")

Failed == \E i \in DOMAIN calls : calls[i] = "failed"

CutInv ==
  /\ transport = "open" => ToldAndRest /\ ClosesAfterOld /\ (~feeding => LeavesOffHere)
  /\ transport # "open" => ~feeding
  /\ transport = "closing" => Failed \/ Asked = RequestsOf(sent)

LEMMA SentContinues == ASSUME IInv PROVE Continues(sent)
BY DEF IInv, TypeOK, Continues

\* The parser has not passed the end of any continuation.
LEMMA RestIsCalls ==
  ASSUME IInv, NEW b, Continues(b)
  PROVE  /\ b \in Seq(Byte) /\ consumed \in 0..Len(b) /\ consumed \in Nat
         /\ From(b)[consumed] = AsksAt(b, consumed, From(b))
         /\ From(b)[consumed] \in Seq(Call)
<1>1. b \in Seq(Byte) /\ Len(b) \in Nat /\ Len(sent) \in Nat
      /\ consumed \in 0..Len(sent) /\ Len(sent) <= Len(b)
  BY DEF IInv, TypeOK, Continues
<1>2. consumed \in 0..Len(b) /\ consumed \in Nat
  BY <1>1
<1> QED BY <1>1, <1>2, FromIs

LEMMA CutInit == Init => CutInv
<1> SUFFICES ASSUME Init PROVE CutInv
  OBVIOUS
<1>1. IInv /\ Asked = <<>>
  <2>1. calls = <<>> /\ calls \in Seq(Call)
    BY Words DEF Init
  <2>2. Len(calls) = 0
    BY <2>1
  <2>3. Told(calls)[0] = <<>>
    BY <2>1, ToldIs
  <2> QED BY <2>2, <2>3, AskedIs, InitHolds DEF AskedOf
<1>2. ASSUME NEW b, Continues(b) PROVE RequestsOf(b) = Asked \o Rest(b)
  <2> DEFINE rest == From(b)[0]
  <2>1. rest \in Seq(Call) /\ consumed = 0 /\ Rest(b) = rest /\ RequestsOf(b) = rest
    BY <1>1, <1>2, RestIsCalls, RequestsFrom DEF Rest, Init
  <2> HIDE DEF rest
  <2>2. <<>> \o rest = rest
    BY <2>1, ConcatEmptySeq
  <2> QED BY <1>1, <2>1, <2>2
<1>3. ClosesAfterOld /\ LeavesOffHere
  BY DEF Init, ClosesAfterOld, LeavesOffHere, Pending
<1> QED BY <1>2, <1>3 DEF CutInv, ToldAndRest, Init

LEMMA CutFeed ==
  ASSUME IInv, CutInv, NEW data \in Seq(Byte), Feed(data)
  PROVE  CutInv'
<1>1. /\ transport = "open" /\ transport' = "open" /\ feeding'
      /\ sent' = sent \o data /\ sent \in Seq(Byte) /\ consumed \in 0..Len(sent)
      /\ UNCHANGED <<state, connection, consumed, calls>>
  BY DEF Feed, IInv, TypeOK
<1>2. /\ Len(sent') = Len(sent) + Len(data) /\ Len(sent) \in Nat /\ Len(data) \in Nat
      /\ \A i \in 1..Len(sent) : sent'[i] = sent[i]
  BY <1>1
<1>3. \A b : Continues(b)' => Continues(b)
  BY <1>1, <1>2 DEF Continues
<1>4. Asked' = Asked
  BY <1>1, AskedIs
<1>5. ToldAndRest'
  BY <1>1, <1>3, <1>4 DEF CutInv, ToldAndRest, Rest
<1>6. ClosesAfterOld'
  <2>1. consumed > 0 => sent'[consumed] = sent[consumed]
    BY <1>1, <1>2
  <2> QED BY <1>1, <2>1 DEF CutInv, ClosesAfterOld
<1> QED BY <1>1, <1>5, <1>6 DEF CutInv

\* Where a head begins, what the window says of it holds of every continuation.
LEMMA HeadHere ==
  ASSUME IInv, NEW b, Continues(b), NEW i \in Window, Decides(i)
  PROVE  LET c == consumed + i + 1 - buffer_start
         IN  /\ c \in consumed + 1..Len(b) /\ c \in 1..Len(sent)
             /\ b[c] = buffer[i] /\ sent[c] = buffer[i]
             /\ Stops(b, consumed) # {} /\ FirstStop(b, consumed) = c
<1> DEFINE c == consumed + i + 1 - buffer_start
<1>1. /\ buffer_start \in Nat /\ buffer_end \in Nat /\ Pending = buffer_end - buffer_start
      /\ i \in Int /\ buffer_start <= i /\ i < buffer_end
      /\ consumed \in Nat /\ Len(sent) \in Nat /\ consumed + Pending = Len(sent)
      /\ b \in Seq(Byte) /\ Len(b) \in Nat /\ Len(sent) <= Len(b)
  BY DEF IInv, TypeOK, WindowIsRest, Pending, Window, Continues
<1>2. \A j \in buffer_start..i : buffer[j] = b[consumed + j - buffer_start + 1]
  <2> TAKE j \in buffer_start..i
  <2>1. j \in Window
    BY <1>1 DEF Window
  <2>2. buffer[j] = sent[consumed + j - buffer_start + 1]
    BY <2>1 DEF IInv, WindowIsRest
  <2>3. consumed + j - buffer_start + 1 \in 1..Len(sent)
    BY <1>1
  <2> QED BY <2>2, <2>3 DEF Continues
<1>3. c \in consumed + 1..Len(b) /\ c \in 1..Len(sent)
  BY <1>1
<1>4. b[c] = buffer[i] /\ sent[c] = buffer[i]
  <2>1. c = consumed + i - buffer_start + 1 /\ i \in buffer_start..i
    BY <1>1
  <2>2. b[c] = buffer[i]
    BY <1>2, <2>1
  <2> QED BY <1>3, <2>2 DEF Continues
<1>5. b[c] # "part"
  BY <1>4 DEF Decides
<1>6. \A j \in consumed + 1..c - 1 : b[j] = "part"
  <2> TAKE j \in consumed + 1..c - 1
  <2> DEFINE k == j - consumed - 1 + buffer_start
  <2>1. k \in buffer_start..i - 1 /\ k \in buffer_start..i /\ consumed + k - buffer_start + 1 = j
    BY <1>1
  <2>2. buffer[k] = "part"
    BY <2>1 DEF Decides
  <2> HIDE DEF k
  <2> QED BY <1>2, <2>1, <2>2
<1> HIDE DEF c
<1>7. Stops(b, consumed) # {} /\ FirstStop(b, consumed) = c
  BY <1>1, <1>3, <1>5, <1>6, FirstStopIs
<1> QED BY <1>3, <1>4, <1>7 DEF c

LEMMA Paired ==
  ASSUME NEW x \in Call, NEW y \in Call
  PROVE  <<x>> \o <<y>> = <<x, y>>
<1> DEFINE a == <<x>>
           b == <<y>>
           c == a \o b
           d == <<x, y>>
<1>1. a \in Seq(Call) /\ Len(a) = 1 /\ a[1] = x
  OBVIOUS
<1>2. b \in Seq(Call) /\ Len(b) = 1 /\ b[1] = y
  OBVIOUS
<1>3. d \in Seq(Call) /\ Len(d) = 2 /\ d[1] = x /\ d[2] = y
  OBVIOUS
<1> HIDE DEF a, b, d
<1>4. /\ c \in Seq(Call) /\ Len(c) = 1 + 1
      /\ \A i \in 1..1 + 1 : c[i] = IF i <= 1 THEN a[i] ELSE b[i - 1]
  BY <1>1, <1>2, ConcatProperties, SMTT(30)
<1> HIDE DEF c
<1>5. Len(c) = 2 /\ c[1] = x /\ c[2] = y
  BY <1>1, <1>2, <1>4
<1>6. \A i \in 1..Len(c) : c[i] = d[i]
  BY <1>3, <1>5
<1> QED BY <1>3, <1>4, <1>5, <1>6, SeqEqual DEF a, b, c, d

LEMMA CutCompleteHead ==
  ASSUME IInv, IInv', CutInv, CompleteHead
  PROVE  CutInv'
<1>1. PICK i \in Window :
        /\ Decides(i) /\ buffer[i] \in {"end", "end10"}
        /\ connection' = IF buffer[i] = "end10" THEN "CLOSE" ELSE "KEEP_ALIVE"
        /\ consumed' = consumed + i + 1 - buffer_start
  BY DEF CompleteHead
<1>2. /\ feeding /\ feeding' = feeding /\ state = "HEADERS" /\ state' = "BODY"
      /\ connection # "CLOSE" /\ buffer_start # buffer_end
      /\ calls' = Append(calls, "headers") /\ transport' = transport /\ sent' = sent
  BY DEF CompleteHead, AtHead
<1>3. transport = "open"
  BY <1>2 DEF CutInv
<1>4. "headers" \in Call /\ "body" \in Call
  BY DEF Call
<1>5. Asked \in Seq(Call) /\ Asked' = Append(Asked, "headers")
  BY <1>2, <1>4, AskedGrows DEF Word
<1>6. ASSUME NEW b, Continues(b)' PROVE RequestsOf(b) = Asked' \o Rest(b)'
  <2>1. Continues(b)
    BY <1>2, <1>6 DEF Continues
  <2>2. /\ consumed' \in consumed + 1..Len(b) /\ b[consumed'] = buffer[i]
        /\ Stops(b, consumed) # {} /\ FirstStop(b, consumed) = consumed'
    BY <1>1, <2>1, HeadHere
  <2> DEFINE rest == From(b)[consumed']
  <2>3. rest \in Seq(Call)
    <3>1. b \in Seq(Byte) /\ consumed' \in 0..Len(b)
      BY <2>1, <2>2, RestIsCalls
    <3> QED BY <3>1, FromIs
  <2>4. From(b)[consumed] = <<"headers", "body">> \o rest
    <3>1. From(b)[consumed] = AsksAt(b, consumed, From(b))
      BY <2>1, RestIsCalls
    <3>2. consumed # Len(b) /\ consumed \in 0..Len(sent) /\ Len(sent) \in Nat
      BY <2>2 DEF IInv, TypeOK
    <3>3. ~(consumed > 0 /\ b[consumed] = "end10")
      <4>1. consumed > 0 => b[consumed] = sent[consumed]
        BY <2>1, <3>2 DEF Continues
      <4> QED BY <1>2, <1>3, <4>1 DEF CutInv, ClosesAfterOld
    <3>4. b[FirstStop(b, consumed)] # "bad"
      BY <1>1, <2>2
    <3> QED BY <3>1, <3>2, <3>3, <3>4, <2>2 DEF AsksAt
  <2>5. RequestsOf(b) = Asked \o From(b)[consumed]
    BY <1>2, <1>3, <2>1 DEF CutInv, ToldAndRest, Rest
  <2>6. Rest(b)' = <<"body">> \o rest
    BY <1>2 DEF Rest
  <2> HIDE DEF rest
  <2> DEFINE later == <<"body">> \o rest
  <2>7. later \in Seq(Call) /\ <<"headers", "body">> \o rest = <<"headers">> \o later
    <3>1. <<"body">> \in Seq(Call) /\ <<"headers">> \in Seq(Call)
      BY <1>4
    <3>2. (<<"headers">> \o <<"body">>) \o rest = <<"headers">> \o later
      BY <2>3, <3>1, ConcatAssociative
    <3>3. <<"headers">> \o <<"body">> = <<"headers", "body">>
      BY <1>4, Paired
    <3>4. later \in Seq(Call)
      BY <2>3, <3>1, ConcatProperties
    <3> QED BY <3>2, <3>3, <3>4
  <2> HIDE DEF later
  <2>8. Asked \o (<<"headers">> \o later) = Append(Asked, "headers") \o later
    BY <1>4, <1>5, <2>7, OneMore
  <2> QED BY <1>5, <2>4, <2>5, <2>6, <2>7, <2>8 DEF later
<1>7. ClosesAfterOld'
  <2>1. consumed' \in 1..Len(sent) /\ sent[consumed'] = buffer[i]
    BY <1>1, SentContinues, HeadHere
  <2> QED BY <1>1, <1>2, <2>1 DEF ClosesAfterOld
<1> QED BY <1>2, <1>3, <1>6, <1>7 DEF CutInv, ToldAndRest

LEMMA CutBody ==
  ASSUME IInv, IInv', CutInv, Body
  PROVE  CutInv'
<1>1. PICK c \in {"body", "body, more follows"} : calls' = Append(calls, c)
  BY DEF Body
<1>2. /\ feeding /\ feeding' = feeding /\ state = "BODY" /\ state' = "HEADERS"
      /\ UNCHANGED <<connection, transport, sent, consumed>>
  BY DEF Body
<1>3. transport = "open"
  BY <1>2 DEF CutInv
<1>4. c \in Call /\ "body" \in Call /\ c # "incomplete" /\ Word(c) = "body"
  BY DEF Call, Word
<1>5. Asked \in Seq(Call) /\ Asked' = Append(Asked, "body")
  BY <1>1, <1>4, AskedGrows
<1>6. ASSUME NEW b, Continues(b)' PROVE RequestsOf(b) = Asked' \o Rest(b)'
  <2>1. Continues(b)
    BY <1>2, <1>6 DEF Continues
  <2> DEFINE rest == From(b)[consumed]
  <2>2. rest \in Seq(Call)
    BY <2>1, RestIsCalls
  <2>3. RequestsOf(b) = Asked \o (<<"body">> \o rest) /\ Rest(b)' = rest
    BY <1>2, <1>3, <2>1 DEF CutInv, ToldAndRest, Rest
  <2> HIDE DEF rest
  <2>4. Asked \o (<<"body">> \o rest) = Append(Asked, "body") \o rest
    BY <1>4, <1>5, <2>2, OneMore
  <2> QED BY <1>5, <2>3, <2>4
<1>7. ClosesAfterOld'
  BY <1>2, <1>3 DEF CutInv, ClosesAfterOld
<1> QED BY <1>2, <1>3, <1>6, <1>7 DEF CutInv, ToldAndRest

\* The last word: the connection is closed for it, and nothing is left to tell.
LEMMA LastWord ==
  ASSUME IInv, CutInv, AtHead, NEW c \in {"excessive", "malformed"}, OnError(c),
         From(sent)[consumed] = <<c>>
  PROVE  CutInv'
<1>1. /\ feeding /\ state = "HEADERS" /\ ~feeding' /\ sent' = sent
      /\ calls' = Append(calls, c) /\ transport' = "closing"
  BY DEF AtHead, OnError
<1>2. c \in Call /\ c # "incomplete" /\ Word(c) = c
  BY DEF Call, Word
<1>3. Asked \in Seq(Call) /\ Asked' = Append(Asked, c)
  BY <1>1, <1>2, AskedGrows
<1>4. RequestsOf(sent) = Asked \o <<c>>
  BY <1>1, SentContinues DEF CutInv, ToldAndRest, Rest
<1>5. Append(Asked, c) = Asked \o <<c>>
  BY <1>2, <1>3, AppendIsConcat
<1> QED BY <1>1, <1>3, <1>4, <1>5 DEF CutInv

LEMMA CutExcessive ==
  ASSUME IInv, CutInv, ExcessiveData
  PROVE  CutInv'
<1>1. AtHead /\ connection = "CLOSE" /\ OnError("excessive")
  BY DEF ExcessiveData
<1>2. consumed > 0 /\ sent[consumed] = "end10"
  BY <1>1 DEF AtHead, CutInv, ClosesAfterOld
<1>3. consumed # Len(sent)
  BY <1>1 DEF AtHead, IInv, TypeOK, WindowIsRest, Pending
<1>4. From(sent)[consumed] = AsksAt(sent, consumed, From(sent))
  BY SentContinues, RestIsCalls
<1>5. From(sent)[consumed] = <<"excessive">>
  BY <1>2, <1>3, <1>4 DEF AsksAt
<1> QED BY <1>1, <1>5, LastWord

LEMMA CutMalformed ==
  ASSUME IInv, CutInv, MalformedHead
  PROVE  CutInv'
<1>1. AtHead /\ connection # "CLOSE" /\ OnError("malformed")
  BY DEF MalformedHead
<1>2. PICK i \in Window : Decides(i) /\ buffer[i] = "bad"
  BY DEF MalformedHead
<1> DEFINE c == consumed + i + 1 - buffer_start
<1>3. sent[c] = "bad" /\ Stops(sent, consumed) # {} /\ FirstStop(sent, consumed) = c
  BY <1>2, SentContinues, HeadHere
<1>4. consumed # Len(sent)
  BY <1>1 DEF AtHead, IInv, TypeOK, WindowIsRest, Pending
<1>5. ~(consumed > 0 /\ sent[consumed] = "end10")
  BY <1>1 DEF AtHead, CutInv, ClosesAfterOld
<1>6. From(sent)[consumed] = AsksAt(sent, consumed, From(sent))
  BY SentContinues, RestIsCalls
<1> HIDE DEF c
<1>7. From(sent)[consumed] = <<"malformed">>
  BY <1>3, <1>4, <1>5, <1>6 DEF AsksAt
<1> QED BY <1>1, <1>7, LastWord

\* Half a head is nothing that anything was told of.
LEMMA CutIncomplete ==
  ASSUME IInv, CutInv, IncompleteHead
  PROVE  CutInv'
<1>1. /\ feeding /\ ~feeding' /\ state = "HEADERS" /\ connection # "CLOSE"
      /\ \A i \in Window : buffer[i] = "part"
      /\ calls' = Append(calls, "incomplete")
      /\ UNCHANGED <<buffer_vars, state, connection, transport, sent, consumed>>
  BY DEF IncompleteHead, AtHead
<1>2. Asked' = Asked
  <2>1. "incomplete" \in Call
    BY DEF Call
  <2> QED BY <1>1, <2>1, AskedGrows
<1>3. transport = "open"
  BY <1>1 DEF CutInv
<1>4. ToldAndRest' /\ ClosesAfterOld'
  BY <1>1, <1>2, <1>3 DEF CutInv, ToldAndRest, ClosesAfterOld, Continues, Rest
<1>5. LeavesOffHere'
  BY <1>1 DEF LeavesOffHere, Pending, Window, buffer_vars
<1> QED BY <1>1, <1>3, <1>4, <1>5 DEF CutInv

LEMMA CutFeedEnd ==
  ASSUME IInv, CutInv, FeedEnd
  PROVE  CutInv'
<1>1. /\ feeding /\ ~feeding' /\ state = "HEADERS" /\ buffer_start = buffer_end
      /\ UNCHANGED <<buffer_vars, state, connection, transport, sent, consumed, calls>>
      /\ buffer_start \in Nat
  BY DEF FeedEnd, IInv, TypeOK
<1>2. Asked' = Asked
  BY <1>1, AskedIs
<1>3. transport = "open"
  BY <1>1 DEF CutInv
<1>4. ToldAndRest' /\ ClosesAfterOld'
  BY <1>1, <1>2, <1>3 DEF CutInv, ToldAndRest, ClosesAfterOld, Continues, Rest
<1>5. LeavesOffHere'
  BY <1>1 DEF LeavesOffHere, Pending, buffer_vars
<1> QED BY <1>1, <1>3, <1>4, <1>5 DEF CutInv

LEMMA CutFailed ==
  ASSUME IInv, CutInv, BodyFailed
  PROVE  CutInv'
<1>1. calls' = Append(calls, "failed") /\ ~feeding' /\ transport' = "closing"
  BY DEF BodyFailed
<1>2. Failed'
  <2>1. calls \in Seq(Call)
    BY DEF IInv, TypeOK
  <2>2. Len(calls) + 1 \in DOMAIN calls' /\ calls'[Len(calls) + 1] = "failed"
    BY <1>1, <2>1
  <2> QED BY <2>2 DEF Failed
<1> QED BY <1>1, <1>2 DEF CutInv

LEMMA CutKept == ASSUME IInv, CutInv, [Next]_vars PROVE CutInv'
<1>1. IInv'
  BY StepKeeps
<1>2. ASSUME NEW n \in 1..MaxBytes - Len(sent), NEW data \in [1..n -> Byte], Feed(data)
      PROVE  CutInv'
  <2>1. n \in Nat
    BY ParserAssumption
  <2>2. data \in Seq(Byte)
    BY <2>1
  <2> QED BY <2>2, <1>2, CutFeed
<1>3. CASE ExcessiveData BY <1>3, CutExcessive
<1>4. CASE MalformedHead BY <1>4, CutMalformed
<1>5. CASE IncompleteHead BY <1>5, CutIncomplete
<1>6. CASE CompleteHead BY <1>1, <1>6, CutCompleteHead
<1>7. CASE Body BY <1>1, <1>7, CutBody
<1>8. CASE BodyFailed BY <1>8, CutFailed
<1>9. CASE FeedEnd BY <1>9, CutFeedEnd
<1>10. CASE FeedDisconnect
  BY <1>10 DEF FeedDisconnect, CutInv
<1>11. CASE UNCHANGED vars
  <2>1. Asked' = Asked
    BY <1>11, AskedIs DEF vars
  <2> QED BY <1>11, <2>1 DEF vars, buffer_vars, CutInv, ToldAndRest, Continues, Rest,
         ClosesAfterOld, LeavesOffHere, Pending, Window, Failed
<1> QED BY <1>2, <1>3, <1>4, <1>5, <1>6, <1>7, <1>8, <1>9, <1>10, <1>11 DEF Next

\* Between two calls of Parser_feed the protocol knows of exactly the requests
\* that the bytes make, so where they were cut makes no difference.
LEMMA NothingUntold == ASSUME IInv, CutInv PROVE SameForEveryCut
<1> SUFFICES ASSUME ~feeding, transport # "lost", \A i \in DOMAIN calls : calls[i] # "failed"
             PROVE  Asked = RequestsOf(sent)
  BY DEF SameForEveryCut
<1>1. CASE transport = "open"
  <2>1. state = "HEADERS" /\ RequestsOf(sent) = Asked \o From(sent)[consumed]
    BY <1>1, SentContinues DEF CutInv, ToldAndRest, LeavesOffHere, Rest
  <2>2. From(sent)[consumed] = AsksAt(sent, consumed, From(sent))
    BY SentContinues, RestIsCalls
  <2>3. From(sent)[consumed] = <<>>
    <3>1. CASE Pending = 0
      <4>1. consumed = Len(sent)
        BY <3>1 DEF IInv, TypeOK, WindowIsRest
      <4> QED BY <2>2, <4>1 DEF AsksAt
    <3>2. CASE connection # "CLOSE" /\ \A i \in Window : buffer[i] = "part"
      <4>1. ~(consumed > 0 /\ sent[consumed] = "end10")
        BY <1>1, <3>2 DEF CutInv, ClosesAfterOld
      <4>2. Stops(sent, consumed) = {}
        <5> SUFFICES ASSUME NEW i \in consumed + 1..Len(sent) PROVE sent[i] = "part"
          BY DEF Stops
        <5> DEFINE k == i - consumed - 1 + buffer_start
        <5>1. /\ buffer_start \in Nat /\ buffer_end \in Nat /\ consumed \in Nat
              /\ Len(sent) \in Nat /\ consumed + (buffer_end - buffer_start) = Len(sent)
          BY DEF IInv, TypeOK, WindowIsRest, Pending
        <5>2. k \in Window /\ consumed + k - buffer_start + 1 = i
          BY <5>1 DEF Window
        <5> HIDE DEF k
        <5> QED BY <3>2, <5>2 DEF IInv, WindowIsRest
      <4> QED BY <2>2, <4>1, <4>2 DEF AsksAt
    <3> QED BY <1>1, <3>1, <3>2 DEF CutInv, LeavesOffHere
  <2>4. Asked \in Seq(Call)
    <3>1. calls \in Seq(Call)
      BY DEF IInv, TypeOK
    <3> QED BY <3>1, AskedIs, AskedIsCalls
  <2>5. Asked \o <<>> = Asked
    BY <2>4, ConcatEmptySeq
  <2> QED BY <2>1, <2>3, <2>5
<1>2. CASE transport = "closing"
  BY <1>2 DEF CutInv, Failed
<1> QED BY <1>1, <1>2 DEF IInv, TypeOK

(***************************************************************************)
(* The protocol sees the same requests however the network cuts the bytes  *)
(* into buffers: what Parser_feed told it is what the bytes received ask   *)
(* for, read in one piece.                                                 *)
(***************************************************************************)
THEOREM CutsDoNotMatter == Spec => []SameForEveryCut
<1>1. IInv /\ CutInv => SameForEveryCut
  BY NothingUntold
<1> QED BY <1>1, CutInit, CutKept, InitHolds, StepKeeps, PTL DEF Spec
=============================================================================
