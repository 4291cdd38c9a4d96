------------------------------- MODULE Parser -------------------------------
(***************************************************************************)
(* parser/c_impl/cparser.c (built into the protocol): the buffer that      *)
(* bytes of a connection pass through, and the feed loop that finds        *)
(* requests in it and calls the protocol.  Protocol.tla abstracts it to    *)
(* the items found; here the bytes arrive cut anywhere.                    *)
(*                                                                         *)
(* A byte is one of four: "end" ends a request head, "end10" the head of   *)
(* an HTTP/1.0 request, "bad" cannot be part of a head, "part" is anything *)
(* else.  _parse_headers reads no header, so content_length and transfer   *)
(* keep their initial values: no request has a body, and the branches of   *)
(* _parse_body for one are dead.                                           *)
(***************************************************************************)
EXTENDS Integers, Sequences, FiniteSets

CONSTANTS
  InitialSize,  \* PARSER_INITIAL_BUFFER_SIZE, 4096
  MaxBytes      \* bound: bytes of the connection

ASSUME ParserAssumption ==
  /\ InitialSize \in Nat \ {0}
  /\ MaxBytes \in Nat

Byte == {"part", "end", "end10", "bad"}

VARIABLES
  buffer,           \* the memory, [0..buffer_capacity-1 -> a byte or "junk"]
  buffer_start,
  buffer_end,
  buffer_capacity,
  state,            \* PARSER_HEADERS or PARSER_BODY
  connection,       \* PARSER_CONNECTION_UNSET, _CLOSE or _KEEP_ALIVE
  feeding,          \* inside the loop of Parser_feed
  transport,        \* "open", "closing" (the protocol closed it), "lost"
  sent,             \* history: the bytes received
  consumed,         \* history: how many of them have left the buffer
  calls             \* history: the calls of the protocol

buffer_vars == <<buffer, buffer_start, buffer_end, buffer_capacity>>
vars == <<buffer_vars, state, connection, feeding, transport, sent, consumed, calls>>

Call == {"headers", "body", "body, more follows", "incomplete", "malformed",
         "excessive", "incomplete headers", "incomplete body", "failed"}

Larger(a, b) == IF a > b THEN a ELSE b

Pending == buffer_end - buffer_start
Window == buffer_start..buffer_end-1

Init ==
  /\ buffer = [i \in 0..InitialSize-1 |-> "junk"]
  /\ buffer_start = 0
  /\ buffer_end = 0
  /\ buffer_capacity = InitialSize
  /\ state = "HEADERS"
  /\ connection = "UNSET"
  /\ feeding = FALSE
  /\ transport = "open"
  /\ sent = <<>>
  /\ consumed = 0
  /\ calls = <<>>

---------------------------------------------------------------------------
(***************************************************************************)
(* Parser_feed, up to its loop: make room behind the window and append.    *)
(***************************************************************************)
\* Where the window starts once there is room for len bytes.
RoomAt(len) ==
  IF Pending = 0 \/ len > buffer_capacity - buffer_end THEN 0 ELSE buffer_start

\* At least doubled when the window and len bytes do not fit.
Capacity(len) ==
  IF len > buffer_capacity - Pending
  THEN Larger(2 * buffer_capacity, Pending + len)
  ELSE buffer_capacity

\* The move takes the bytes from the beginning of the buffer.
Copied_FromZero(at, size, data) ==
  [i \in 0..size-1 |->
     IF i \in at..at + Pending - 1 THEN buffer[i - at]
     ELSE IF i \in at + Pending..at + Pending + Len(data) - 1
          THEN data[i - at - Pending + 1]
          ELSE "junk"]

\* What the window is copied to by memmove, malloc and memcpy, or realloc;
\* what lies outside of it is never read.
Copied(at, size, data) ==
  [i \in 0..size-1 |->
     IF i \in at..at + Pending - 1 THEN buffer[i - at + buffer_start]
     ELSE IF i \in at + Pending..at + Pending + Len(data) - 1
          THEN data[i - at - Pending + 1]
          ELSE "junk"]

Feed(data) ==
  /\ ~feeding
  /\ transport = "open"
  /\ data # <<>>
  /\ Len(sent) + Len(data) <= MaxBytes
  /\ LET at == RoomAt(Len(data))
     IN  /\ buffer_capacity' = Capacity(Len(data))
         /\ buffer' = Copied(at, buffer_capacity', data)
         /\ buffer_start' = at
         /\ buffer_end' = at + Pending + Len(data)
  /\ sent' = sent \o data
  /\ feeding' = TRUE
  /\ UNCHANGED <<state, connection, transport, consumed, calls>>

---------------------------------------------------------------------------
(***************************************************************************)
(* _parse_headers on the window, and the loop around it.                   *)
(***************************************************************************)
AtHead == feeding /\ state = "HEADERS" /\ buffer_start # buffer_end

\* phr_parse_request: the first byte that decides.
Decides(i) ==
  /\ i \in Window
  /\ buffer[i] # "part"
  /\ \A j \in buffer_start..i-1 : buffer[j] = "part"

ResetState ==
  /\ state' = "HEADERS"
  /\ connection' = "UNSET"
  /\ buffer_start' = 0
  /\ buffer_end' = 0
  /\ consumed' = Len(sent)

\* Protocol_on_error closes the transport; what is left in the buffer is
\* dropped.
OnError(error) ==
  /\ calls' = Append(calls, error)
  /\ transport' = "closing"
  /\ feeding' = FALSE
  /\ ResetState
  /\ UNCHANGED <<buffer, buffer_capacity, sent>>

ExcessiveData == AtHead /\ connection = "CLOSE" /\ OnError("excessive")

MalformedHead ==
  /\ AtHead /\ connection # "CLOSE"
  /\ \E i \in Window : Decides(i) /\ buffer[i] = "bad"
  /\ OnError("malformed")

\* The protocol is not told that the loop ends.
IncompleteHead_Silent ==
  /\ AtHead /\ connection # "CLOSE"
  /\ \A i \in Window : buffer[i] = "part"
  /\ feeding' = FALSE
  /\ UNCHANGED <<buffer_vars, state, connection, transport, sent, consumed, calls>>

\* Half a head: the loop ends, and Protocol_on_incomplete flushes.
IncompleteHead ==
  /\ AtHead /\ connection # "CLOSE"
  /\ \A i \in Window : buffer[i] = "part"
  /\ calls' = Append(calls, "incomplete")
  /\ feeding' = FALSE
  /\ UNCHANGED <<buffer_vars, state, connection, transport, sent, consumed>>

\* The version is looked at once in a connection only.
CompleteHead_FirstOnly ==
  /\ AtHead /\ connection # "CLOSE"
  /\ \E i \in Window :
       /\ Decides(i) /\ buffer[i] \in {"end", "end10"}
       /\ connection' = IF connection = "UNSET" /\ buffer[i] = "end10"
                        THEN "CLOSE" ELSE "KEEP_ALIVE"
       /\ buffer_start' = i + 1
       /\ consumed' = consumed + i + 1 - buffer_start
  /\ calls' = Append(calls, "headers")
  /\ state' = "BODY"
  /\ UNCHANGED <<buffer, buffer_end, buffer_capacity, feeding, transport, sent>>

CompleteHead ==
  /\ AtHead /\ connection # "CLOSE"
  /\ \E i \in Window :
       /\ Decides(i) /\ buffer[i] \in {"end", "end10"}
       /\ connection' = IF buffer[i] = "end10" THEN "CLOSE" ELSE "KEEP_ALIVE"
       /\ buffer_start' = i + 1
       /\ consumed' = consumed + i + 1 - buffer_start
  /\ calls' = Append(calls, "headers")
  /\ state' = "BODY"
  /\ UNCHANGED <<buffer, buffer_end, buffer_capacity, feeding, transport, sent>>

(***************************************************************************)
(* _parse_body: there is no body, on_body is told how many bytes follow.   *)
(* If it fails the connection is dropped with the request half done        *)
(* (external: the event loop closes a transport whose protocol raised).    *)
(***************************************************************************)
Body ==
  /\ feeding /\ state = "BODY"
  /\ calls' = Append(calls, IF Pending > 0 THEN "body, more follows" ELSE "body")
  /\ state' = "HEADERS"
  /\ UNCHANGED <<buffer_vars, connection, feeding, transport, sent, consumed>>

BodyFailed ==
  /\ feeding /\ state = "BODY"
  /\ calls' = Append(calls, "failed")
  /\ feeding' = FALSE
  /\ transport' = "closing"
  /\ UNCHANGED <<buffer_vars, state, connection, sent, consumed>>

FeedEnd ==
  /\ feeding /\ state = "HEADERS" /\ buffer_start = buffer_end
  /\ feeding' = FALSE
  /\ UNCHANGED <<buffer_vars, state, connection, transport, sent, consumed, calls>>

\* Parser_feed_disconnect, when the connection is lost.
FeedDisconnect ==
  /\ ~feeding
  /\ transport # "lost"
  /\ transport' = "lost"
  /\ calls' = IF state = "BODY" THEN Append(calls, "incomplete body")
              ELSE IF Pending > 0 THEN Append(calls, "incomplete headers")
              ELSE calls
  /\ ResetState
  /\ UNCHANGED <<buffer, buffer_capacity, feeding, sent>>

Next ==
  \/ \E n \in 1..MaxBytes - Len(sent) : \E data \in [1..n -> Byte] : Feed(data)
  \/ ExcessiveData
  \/ MalformedHead
  \/ IncompleteHead
  \/ CompleteHead
  \/ Body
  \/ BodyFailed
  \/ FeedEnd
  \/ FeedDisconnect

Spec == Init /\ [][Next]_vars

---------------------------------------------------------------------------
\* Among the types, that no byte is written past the end of the buffer.
TypeOK ==
  /\ buffer_capacity \in Nat
  /\ buffer \in [0..buffer_capacity-1 -> Byte \cup {"junk"}]
  /\ buffer_start \in Nat /\ buffer_end \in Nat
  /\ buffer_start <= buffer_end /\ buffer_end <= buffer_capacity
  /\ state \in {"HEADERS", "BODY"}
  /\ connection \in {"UNSET", "CLOSE", "KEEP_ALIVE"}
  /\ feeding \in BOOLEAN
  /\ transport \in {"open", "closing", "lost"}
  /\ sent \in Seq(Byte)
  /\ consumed \in 0..Len(sent)
  /\ calls \in Seq(Call)

\* Moving and growing the buffer loses, repeats and reorders nothing: the
\* window holds exactly the bytes received and not yet consumed.
WindowIsRest ==
  /\ consumed + Pending = Len(sent)
  /\ \A i \in Window : buffer[i] = sent[consumed + i - buffer_start + 1]

(***************************************************************************)
(* What a connection that sent these bytes asks for, without buffers: from *)
(* each position where a head may begin on.  A head after one of HTTP/1.0  *)
(* is refused unread.                                                      *)
(***************************************************************************)
Stops(bytes, p) == {i \in p + 1..Len(bytes) : bytes[i] # "part"}

FirstStop(bytes, p) == CHOOSE i \in Stops(bytes, p) : \A j \in Stops(bytes, p) : i <= j

RequestsOf(bytes) ==
  LET From[p \in 0..Len(bytes)] ==
        IF p = Len(bytes) THEN <<>>
        ELSE IF p > 0 /\ bytes[p] = "end10" THEN <<"excessive">>
        ELSE IF Stops(bytes, p) = {} THEN <<>>
        ELSE IF bytes[FirstStop(bytes, p)] = "bad" THEN <<"malformed">>
        ELSE <<"headers", "body">> \o From[FirstStop(bytes, p)]
  IN  From[0]

\* The calls that tell the protocol of requests.
Asked ==
  LET Told[n \in 0..Len(calls)] ==
        IF n = 0 THEN <<>>
        ELSE IF calls[n] = "incomplete" THEN Told[n - 1]
        ELSE Append(Told[n - 1],
                    IF calls[n] = "body, more follows" THEN "body" ELSE calls[n])
  IN  Told[Len(calls)]

\* The protocol sees the same requests however the network cuts the bytes
\* into buffers.
SameForEveryCut ==
  /\ ~feeding /\ transport # "lost"
  /\ \A i \in DOMAIN calls : calls[i] # "failed"
  => Asked = RequestsOf(sent)

\* The protocol gathers a response when on_body says that more bytes follow:
\* another call then comes before the loop ends, which can flush it.
MoreIsFollowed ==
  ~feeding /\ calls # <<>> => calls[Len(calls)] # "body, more follows"
===========================================================================
