------------------------------- MODULE Request -------------------------------
(***************************************************************************)
(* Request objects of fpy3 and their memory (crequest.c, with the calls    *)
(* cprotocol.c makes).  Every connection holds one request inside itself   *)
(* (static_request).  The head of a request is copied out of the parser's  *)
(* buffer into the request's own, first the one inside the object, then    *)
(* one from the heap when that is too small; every field is a pointer into *)
(* it.  A request that outlives the call it arrives in is cloned: the      *)
(* clone comes from a pool shared by all connections, and gets a copy of   *)
(* the inner buffer, with its pointers shifted, or takes the heap buffer   *)
(* over.                                                                   *)
(*                                                                         *)
(* Memory is modelled by blocks of cells: the inner buffer of an object is *)
(* the block named by the object.  A cell is a character or the first cell *)
(* of a struct of StructLen cells.  A handler is assumed not to keep its   *)
(* request once it has returned.                                           *)
(***************************************************************************)
EXTENDS Matcher, Response

CONSTANTS
  Conns,        \* the connections, each naming its static_request
  Clones,       \* the objects the allocator can hand out for clones
  Heap,         \* the blocks malloc and realloc can return
  Wire,         \* the parser's buffer
  Junk,         \* what a cell nobody has written holds
  InlineLen,    \* cells of an inner buffer (REQUEST_INITIAL_BUFFER_LEN)
  StructLen,    \* cells of a struct, to which text is rounded up (8 bytes)
  Percent, Question, CloseToken, KeepAliveToken, Connection,
  HexByte,      \* <<digit, digit>> |-> the character they encode, the digits upper-case
  Lower,        \* an upper-case letter |-> the lower-case one
  Requests,     \* the requests clients send: [method, path, qs, minor_version,
                \* headers], path and qs as [char, encoded]
  Answers,      \* the arguments handlers answer with
  NotFound,     \* the arguments of the 404 answer
  MaxEntries,   \* room for the values of a match (_match_dict_entries)
  Attributes,   \* the lazy attributes handlers read
  PoolSizes     \* the sizes configure_pool is called with

ASSUME RequestAssumption ==
  /\ InlineLen \in Nat /\ StructLen \in Nat \ {0}
  /\ PoolSizes \subseteq Nat
  /\ Conns \cap Clones = {} /\ Heap \cap (Conns \cup Clones) = {}
  /\ None \notin Conns \cup Clones \cup Heap
  /\ Wire \notin Conns \cup Clones \cup Heap

\* None stands for no request in hand (NULL in the C).
ASSUME NoneAssumption ==
  None \notin [conn : Conns, obj : Conns \cup Clones, stage : {"parsed", "handler"}]

\* Texts and lists are sequences.
ASSUME SequenceAssumption ==
  \A k \in Requests :
    /\ IsSequence(k.method) /\ IsSequence(k.path) /\ IsSequence(k.qs)
    /\ IsSequence(k.headers)
    /\ \A i \in DOMAIN k.headers : /\ IsSequence(k.headers[i].name)
                                   /\ IsSequence(k.headers[i].value)

\* No lower-case letter is an upper-case one.
ASSUME LetterAssumption == \A c \in DOMAIN Lower : Lower[c] \notin DOMAIN Lower

\* Targets as clients write them.  What is not encoded stands for itself, an escape
\* in lower-case letters and a '%' without two digits too: is_hex takes the digits
\* 0-9 and A-F only.  A path ends at the first '?', with which a query string begins.
ASSUME TargetAssumption ==
  /\ \A d \in DOMAIN HexByte : d = <<d[1], d[2]>> /\ {d[1], d[2]} \cap {Percent, Question, None} = {}
  /\ Percent \notin {Question, None}
  /\ \A k \in Requests :
       /\ \A t \in ToSet(k.path) \cup ToSet(k.qs) :
            IF t.encoded THEN \E d \in DOMAIN HexByte : HexByte[d] = t.char
            ELSE t.char # None
       /\ \A s \in {k.path, k.qs} : \A i \in DOMAIN s :
            ~s[i].encoded /\ s[i].char = Percent /\ i + 2 \in DOMAIN s
              => \/ s[i + 1].encoded \/ s[i + 2].encoded
                 \/ <<s[i + 1].char, s[i + 2].char>> \notin DOMAIN HexByte
       /\ \A t \in ToSet(k.path) : t.char = Question => t.encoded
       /\ k.qs # <<>> => k.qs[1].char = Question /\ ~k.qs[1].encoded

\* The parser takes a method to end at the first space.
ASSUME MethodAssumption == \A k \in Requests : Space \notin ToSet(k.method)

\* Patterns that add_route accepts, with no more placeholders than the matcher has
\* room for, and methods that are single words.
ASSUME RouteAssumption ==
  /\ IsSequence(Routes)
  /\ \A i \in DOMAIN Routes : /\ IsSequence(Routes[i].pattern)
                              /\ WellFormed(Routes[i].pattern)
                              /\ Cardinality(Names(parse(Routes[i].pattern))) <= MaxEntries
                              /\ IsSequence(Routes[i].methods)
                              /\ \A m \in ToSet(Routes[i].methods) :
                                   IsSequence(m) /\ Space \notin ToSet(m)

VARIABLES
  req,       \* the request objects
  mem,       \* the blocks' cells
  heap,      \* the blocks that are allocated
  live,      \* the clones somebody holds a reference to
  pool,      \* the freelist: [on, max, items]
  pipeline,  \* per connection, the clones that wait for their turn
  current,   \* the request a connection is in the middle of, or None
  sent       \* what this step wrote, or None: [spec, answer, simple, bytes]

vars == <<req, mem, heap, live, pool, pipeline, current, sent, cache>>

-----------------------------------------------------------------------------
(* Pointers and blocks. *)

At(block, off) == [blk |-> block, off |-> off]
Blank(n) == [i \in 1..n |-> Junk]
Round(n) == StructLen * ((n + StructLen - 1) \div StructLen)

\* A pointer into one place, moved as that place moves; any other pointer moved
\* by the same distance points nowhere.
Moved(p, from, to) ==
  IF p.blk = from.blk THEN At(to.blk, to.off + p.off - from.off) ELSE At(Wire, 0)

\* The n cells at a pointer; reading past a block's end gives nothing.
Cells(m, p, n) ==
  IF p.off + n <= Len(m[p.blk]) THEN SubSeq(m[p.blk], p.off + 1, p.off + n)
  ELSE <<Junk>>

\* memcpy.  What falls outside of the block is lost.
Put(m, p, cells) ==
  [m EXCEPT ![p.blk] =
     [i \in DOMAIN @ |-> IF i - p.off \in DOMAIN cells
                         THEN cells[i - p.off] ELSE @[i]]]

Structs(entries) ==
  FlattenSeq([i \in DOMAIN entries |-> <<entries[i]>> \o Blank(StructLen - 1)])

StructsAt(m, p, n) == [i \in 1..n |-> m[p.blk][p.off + StructLen * (i - 1) + 1]]

\* Entries whose pointers are moved: of a header both, of a match its value.
MovedHeaders(entries, from, to) ==
  [i \in DOMAIN entries |->
     [entries[i] EXCEPT !.name = Moved(@, from, to), !.value = Moved(@, from, to)]]

\* Mutant: only the array is moved, its values still point into the old buffer.
MovedMatches_ArrayOnly(entries, from, to) == entries

MovedMatches(entries, from, to) ==
  [i \in DOMAIN entries |-> [entries[i] EXCEPT !.value = Moved(@, from, to)]]

-----------------------------------------------------------------------------
(* The copies into the request's buffer (bfrcpy). *)

HeaderEntriesLen(r) == StructLen * r.num_headers

\* How much text there is from the method to the end of the last header.
HeadersLen(m, r) ==
  IF r.num_headers > 0
  THEN LET last == StructsAt(m, r.headers, r.num_headers)[r.num_headers]
       IN last.value.off + last.value_len - r.method.off
  ELSE r.path.off + r.path_len + r.qs_len - r.method.off

\* What REQUEST_HEADERS and REQUEST_MATCH_DICT need: where, and how much.
HeadersNeed(m, r) == [off |-> 0, len |-> Round(HeadersLen(m, r)) + HeaderEntriesLen(r)]
MatchNeed(m, r, n) ==
  [off |-> Round(HeadersLen(m, r) + HeaderEntriesLen(r)), len |-> StructLen * n]

Fits(r, need) == need.off + need.len <= r.buffer_len

\* The blocks the buffer may be in after making room: an inner buffer moves to
\* the heap, a heap buffer may be resized in place or move.
RoomIn(r, need, free) ==
  IF Fits(r, need) THEN {r.buffer}
  ELSE free \cup ({r.buffer} \cap Heap)

\* The memory with room made in block b: the old contents are copied.
Grown(m, r, need, b) ==
  LET len == Max({2 * r.buffer_len, r.buffer_len + need.len})
      old == m[r.buffer]
      copy == [i \in 1..len |-> IF i <= Len(old) THEN old[i] ELSE Junk]
  IN IF Fits(r, need) THEN m
     ELSE IF r.buffer \in Heap /\ b # r.buffer
     THEN [m EXCEPT ![r.buffer] = <<>>, ![b] = copy]
     ELSE [m EXCEPT ![b] = copy]

GrownLen(r, need) ==
  IF Fits(r, need) THEN r.buffer_len
  ELSE Max({2 * r.buffer_len, r.buffer_len + need.len})

\* bfrcpy(REQUEST_HEADERS): text to the start of the buffer, the header entries
\* behind it, all pointers moved from the parser's buffer to this one.
CopyHeaders(m, r, b) ==
  LET need == HeadersNeed(m, r)
      dst == At(b, 0)
      text == Cells(m, r.method, HeadersLen(m, r))
      entries == StructsAt(m, r.headers, r.num_headers)
      headers == At(b, Round(HeadersLen(m, r)))
  IN [r |-> [r EXCEPT !.buffer = b, !.buffer_len = GrownLen(r, need),
                      !.method = dst, !.path = Moved(@, r.method, dst),
                      !.headers = headers],
      m |-> Put(Put(Grown(m, r, need, b), dst, text), headers,
                Structs(MovedHeaders(entries, r.method, dst)))]

\* bfrcpy(REQUEST_MATCH_DICT): the matcher's entries behind the header entries.
\* When the buffer moves, everything that points into it is moved along.
CopyMatches(m, r, entries, b) ==
  LET need == MatchNeed(m, r, Len(entries))
      old == At(r.buffer, 0)
      new == At(b, 0)
      grown == Grown(m, r, need, b)
      headers == Moved(r.headers, old, new)
      moved == MovedHeaders(StructsAt(grown, headers, r.num_headers), old, new)
      dst == At(b, need.off)
  IN [r |-> [r EXCEPT !.buffer = b, !.buffer_len = GrownLen(r, need),
                      !.method = Moved(@, old, new), !.path = Moved(@, old, new),
                      !.headers = headers, !.match_dict_entries = dst,
                      !.match_dict_length = Len(entries)],
      m |-> Put(Put(grown, headers, Structs(moved)), dst,
                Structs(MovedMatches(entries, old, new)))]

-----------------------------------------------------------------------------
(* Decoding, in place. *)

\* The characters up to stop, decoded, and the rest as it is.  Text that is
\* decoded is not looked at again.
percent_decode(s, stop) ==
  LET from[i \in 1..(Len(s) + 3)] ==
        IF i > Len(s) THEN [decoded |-> <<>>, rest |-> <<>>]
        ELSE IF s[i] = stop THEN [decoded |-> <<>>, rest |-> SubSeq(s, i, Len(s))]
        ELSE IF /\ i + 2 <= Len(s) /\ s[i] = Percent
                /\ <<s[i + 1], s[i + 2]>> \in DOMAIN HexByte
        THEN [from[i + 3] EXCEPT !.decoded = <<HexByte[<<s[i + 1], s[i + 2]>>]>> \o @]
        ELSE [from[i + 1] EXCEPT !.decoded = <<s[i]>> \o @]
  IN from[1]

\* The path is decoded up to the '?', and the query string moves up behind it.
DecodePath(m, r) ==
  LET d == percent_decode(Cells(m, r.path, r.path_len), Question)
      text == d.decoded \o d.rest
  IN IF r.path_decoded THEN [r |-> r, m |-> m]
     ELSE [r |-> [r EXCEPT !.path_decoded = TRUE, !.path_len = Len(d.decoded),
                           !.qs_len = Len(d.rest)],
           m |-> Put(m, r.path, text \o Blank(r.path_len - Len(text)))]

Qs(r) == At(r.path.blk, r.path.off + r.path_len)

DecodeQs(m, r) ==
  LET text == percent_decode(Cells(m, Qs(r), r.qs_len), None).decoded
  IN IF r.qs_decoded \/ r.qs_len = 0 THEN [r |-> r, m |-> m]
     ELSE [r |-> [r EXCEPT !.qs_decoded = TRUE, !.qs_len = Len(text)],
           m |-> Put(m, Qs(r), text \o Blank(r.qs_len - Len(text)))]

-----------------------------------------------------------------------------
(* Objects. *)

\* A request as Request_new leaves it: nothing of an earlier life remains.
Request_new(o) ==
  [method |-> At(Wire, 0), method_len |-> 0, path |-> At(Wire, 0), path_len |-> 0,
   path_decoded |-> FALSE, qs_len |-> 0, qs_decoded |-> FALSE, minor_version |-> 1,
   headers |-> At(Wire, 0), num_headers |-> 0,
   match_dict_entries |-> At(Wire, 0), match_dict_length |-> 0,
   buffer |-> o, buffer_len |-> InlineLen,
   simple |-> FALSE, entry |-> 0, response |-> None,
   py |-> [a \in Attributes |-> None], spec |-> None, answer |-> None]

\* The parser's buffer with a request in it: text, then the header entries.
Raw(tokens) ==
  FlattenSeq([i \in DOMAIN tokens |->
    IF tokens[i].encoded
    THEN LET d == CHOOSE d \in DOMAIN HexByte : HexByte[d] = tokens[i].char
         IN <<Percent, d[1], d[2]>>
    ELSE <<tokens[i].char>>])

HeaderText(k, n) ==
  FlattenSeq([i \in 1..n |-> k.headers[i].name \o k.headers[i].value])

Target(k) == Raw(k.path) \o Raw(k.qs)
WireText(k) == k.method \o Target(k) \o HeaderText(k, Len(k.headers))

WireHeaders(k) ==
  [i \in DOMAIN k.headers |->
     LET off == Len(k.method \o Target(k) \o HeaderText(k, i - 1))
         name == Len(k.headers[i].name)
     IN [name |-> At(Wire, off), name_len |-> name,
         value |-> At(Wire, off + name), value_len |-> Len(k.headers[i].value)]]

\* Request_from_raw, up to the copy.
FromRaw(o, k) ==
  [Request_new(o) EXCEPT
     !.method = At(Wire, 0), !.method_len = Len(k.method),
     !.path = At(Wire, Len(k.method)), !.path_len = Len(Target(k)),
     !.minor_version = k.minor_version,
     !.headers = At(Wire, Len(WireText(k))), !.num_headers = Len(k.headers),
     !.spec = k]

\* The heap buffer of a request, which dies with it.
OwnBlock(o) == {req[o].buffer} \cap Heap

Freed(m, o) == [b \in DOMAIN m |-> IF b \in OwnBlock(o) THEN <<>> ELSE m[b]]

Init ==
  /\ req = [o \in Conns \cup Clones |-> Request_new(o)]
  /\ mem = [b \in Conns \cup Clones \cup Heap \cup {Wire} |->
              IF b \in Conns THEN Blank(InlineLen) ELSE <<>>]
  /\ heap = {} /\ live = {}
  /\ pool = [on |-> FALSE, max |-> 0, items |-> <<>>]
  /\ pipeline = [c \in Conns |-> <<>>]
  /\ current = None /\ sent = None /\ cache = <<>>

\* configure_pool: a new limit; excess items are freed, and a limit of zero turns
\* the pool off.
ConfigurePool(n) ==
  /\ pool' = IF pool.on /\ pool.max = n THEN pool
             ELSE [on |-> n > 0, max |-> n,
                   items |-> SubSeq(pool.items, 1, Min({n, Len(pool.items)}))]
  /\ sent' = None
  /\ UNCHANGED <<req, mem, heap, live, pipeline, current, cache>>

\* Protocol_on_headers: the connection's own request starts anew and takes the
\* head over from the parser.
OnHeaders(c, k) ==
  LET raw == [Freed(mem, c) EXCEPT ![Wire] = WireText(k) \o Structs(WireHeaders(k)),
                                   ![c] = Blank(InlineLen)]
      r == FromRaw(c, k)
      free == Heap \ (heap \ OwnBlock(c))
  IN /\ current = None
     /\ \E b \in RoomIn(r, HeadersNeed(raw, r), free) :
          LET copied == CopyHeaders(raw, r, b)
          IN /\ req' = [req EXCEPT ![c] = copied.r]
             /\ mem' = [copied.m EXCEPT ![Wire] = <<>>]
             /\ heap' = (heap \ OwnBlock(c)) \cup ({b} \cap Heap)
     /\ current' = [conn |-> c, obj |-> c, stage |-> "parsed"]
     /\ sent' = None
     /\ UNCHANGED <<live, pool, pipeline, cache>>

-----------------------------------------------------------------------------
(* What handlers read. *)

\* strncasecmp compares texts by their lower case.
Lowered(s) == [i \in DOMAIN s |-> IF s[i] \in DOMAIN Lower THEN Lower[s[i]] ELSE s[i]]

\* The first letter of every run of letters in upper case, the others in lower case.
title_case(name) ==
  LET low == Lowered(name)
      upper(c) == {u \in DOMAIN Lower : Lower[u] = c}
      letter(i) == i \in DOMAIN low /\ upper(low[i]) # {}
  IN [i \in DOMAIN low |-> IF letter(i) /\ ~letter(i - 1)
                           THEN CHOOSE u \in upper(low[i]) : TRUE ELSE low[i]]

\* PyDict_SetItem, in the order of the headers: of those with one name the last stays.
Dict(names, values) ==
  [name \in ToSet(names) |-> values[Max({i \in DOMAIN names : names[i] = name})]]

\* Request_decode_headers leaves every name in the buffer title-cased.  No two names
\* share a cell.
TitleNames(m, r) ==
  LET headers == StructsAt(m, r.headers, r.num_headers)
      title(i) == title_case(Cells(m, headers[i].name, headers[i].name_len))
      named(j) == {i \in DOMAIN headers : j - headers[i].name.off \in DOMAIN title(i)}
  IN [m EXCEPT ![r.buffer] = [j \in DOMAIN @ |->
        IF named(j) = {} THEN @[j]
        ELSE LET i == CHOOSE i \in named(j) : TRUE IN title(i)[j - headers[i].name.off]]]

Readables == {"method", "path", "query_string", "headers", "match_dict", "route"}

\* What an attribute is computed from: the cells its pointers point to.
Computed(m, r, a) ==
  LET headers == StructsAt(m, r.headers, r.num_headers)
      matches == StructsAt(m, r.match_dict_entries, r.match_dict_length)
  IN CASE a = "method" -> Cells(m, At(r.buffer, 0), r.method_len)
       [] a = "path" -> Cells(m, r.path, r.path_len)
       [] a = "query_string" ->
            IF r.qs_len = 0 THEN None
            ELSE LET d == DecodeQs(m, r) IN Tail(Cells(d.m, Qs(d.r), d.r.qs_len))
       [] a = "headers" ->
            Dict([i \in DOMAIN headers |->
                    title_case(Cells(m, headers[i].name, headers[i].name_len))],
                 [i \in DOMAIN headers |->
                    Cells(m, headers[i].value, headers[i].value_len)])
       [] a = "match_dict" ->
            {<<matches[i].key, Cells(m, matches[i].value, matches[i].value_length)>> :
               i \in DOMAIN matches}
       [] a = "route" -> r.entry

\* What the getter of an attribute returns: computed once, kept from then on.
Got(m, r, a) ==
  IF a \in Attributes /\ r.py[a] # None THEN r.py[a] ELSE Computed(m, r, a)

\* The keep-alive decision: the version's default, unless the first Connection
\* header says otherwise.
KeepAlive(m, r) ==
  LET headers == StructsAt(m, r.headers, r.num_headers)
      named == {i \in DOMAIN headers :
                  Lowered(Cells(m, headers[i].name, headers[i].name_len)) = Lowered(Connection)}
      says(token) ==
        /\ named # {}
        /\ LET header == headers[Min(named)]
           IN Occurrences(<<token>>, Cells(m, header.value, header.value_len)) # {}
  IN IF r.minor_version = 0 THEN says(KeepAliveToken) ELSE ~says(CloseToken)

\* A request whose handler has called request.Response() and returned the result.
Answered(m, r, args) ==
  [r EXCEPT !.response = Request_Response(args, r.minor_version, KeepAlive(m, r)),
            !.answer = args]

\* Protocol_write_response_or_err: a request that was not routed is answered by
\* the error handler, and is not simple any more.
Write(m, r) ==
  LET ready == IF r.response # None THEN r
               ELSE [Answered(m, r, NotFound) EXCEPT !.simple = FALSE]
  IN /\ sent' = [spec |-> ready.spec, answer |-> ready.answer,
                 simple |-> ready.simple,
                 bytes |-> Response_render(ready.response, ready.simple)]
     /\ cache' = Response_cache(ready.response, ready.simple)

-----------------------------------------------------------------------------
(* Clones. *)

\* The object a clone is made in: the pool's last item, or one from the allocator.
FromPool == pool.on /\ pool.items # <<>>

Allocated ==
  IF FromPool THEN {Last(pool.items)} ELSE Clones \ (live \cup ToSet(pool.items))

\* Mutant: the connection's request keeps the heap buffer the clone took over.
Detached_Shared(r, c) == r

\* The connection's request after its heap buffer was given away.
Detached(r, c) == [r EXCEPT !.buffer = c]

\* Request_clone of r, the request inside connection c, in object o.
Request_clone(m, r, c, o) ==
  LET old == At(c, 0)
      new == At(o, 0)
      copy == [m EXCEPT ![o] = m[c]]
      headers == Moved(r.headers, old, new)
      matches == Moved(r.match_dict_entries, old, new)
      fresh == [r EXCEPT !.py = Request_new(o).py, !.response = Request_new(o).response]
  IN IF r.buffer = c
     THEN [clone |-> [fresh EXCEPT !.buffer = o, !.method = Moved(@, old, new),
                                   !.path = Moved(@, old, new), !.headers = headers,
                                   !.match_dict_entries = matches],
           original |-> r,
           m |-> Put(Put(copy, headers,
                   Structs(MovedHeaders(StructsAt(copy, headers, r.num_headers), old, new))),
                   matches,
                   Structs(MovedMatches(StructsAt(copy, matches, r.match_dict_length), old, new)))]
     ELSE [clone |-> fresh, original |-> Detached(r, c), m |-> copy]

\* Request_dealloc of a clone: its heap buffer is freed, and the object goes back
\* to the pool while there is room.  The memory of the object is not cleared.
Release(o) ==
  /\ heap' = heap \ OwnBlock(o)
  /\ mem' = [Freed(mem, o) EXCEPT ![o] = <<>>]
  /\ live' = live \ {o}
  /\ req' = [req EXCEPT ![o] = [Request_new(o) EXCEPT !.py = req[o].py]]
  /\ pool' = IF pool.on /\ Len(pool.items) < pool.max
             THEN [pool EXCEPT !.items = Append(@, o)] ELSE pool

-----------------------------------------------------------------------------
(* The rest of the connection's work. *)

\* The static request when its body is complete: its path is decoded and its route
\* found.
Decoded(c) == DecodePath(mem, req[c])

Found(c) ==
  LET d == Decoded(c)
  IN Matcher_match_request(Cells(d.m, d.r.path, d.r.path_len),
                           Cells(d.m, At(d.r.buffer, 0), d.r.method_len))

\* The matcher's entries, their values pointing into the path.
FoundEntries(c, found) ==
  LET path == Decoded(c).r.path
  IN [i \in DOMAIN found.entries |->
        [found.entries[i] EXCEPT !.value = At(path.blk, path.off + @)]]

\* The blocks the buffer may be in once the entries are copied in.
MatchRoom(c, found) ==
  LET d == Decoded(c)
  IN RoomIn(d.r, MatchNeed(d.m, d.r, Len(found.entries)), Heap \ heap)

\* The request and the memory with the entries in block b.
Routed(c, found, b) ==
  LET copied == CopyMatches(Decoded(c).m, Decoded(c).r, FoundEntries(c, found), b)
  IN [copied EXCEPT !.r.entry = found.entry,
                    !.r.simple = found.entry # 0 /\ compile_all[found.entry].simple]

Routings(c) ==
  UNION {{Routed(c, found, b) : b \in MatchRoom(c, found)} : found \in {Found(c)}}

Coroutine(r) == r.entry # 0 /\ compile_all[r.entry].coro_func

\* The request is handled inside the connection when its handler is not a
\* coroutine and nothing waits before it.
OnBodyInPlace(c, routed) ==
  /\ ~Coroutine(routed.r) /\ pipeline[c] = <<>>
  /\ req' = [req EXCEPT ![c] = routed.r]
  /\ mem' = routed.m
  /\ IF routed.r.entry # 0
     THEN /\ current' = [current EXCEPT !.stage = "handler"]
          /\ sent' = None /\ UNCHANGED cache
     ELSE /\ Write(routed.m, routed.r)
          /\ current' = None
  /\ UNCHANGED <<live, pool, pipeline>>

\* Otherwise it is cloned.  A coroutine, and a request without a route, is queued
\* at once; another handler runs first, with the clone.
OnBodyCloned(c, routed) ==
  /\ Coroutine(routed.r) \/ pipeline[c] # <<>>
  /\ \E o \in Allocated :
       LET cloned == Request_clone(routed.m, routed.r, c, o)
       IN /\ req' = [req EXCEPT ![c] = cloned.original, ![o] = cloned.clone]
          /\ mem' = cloned.m
          /\ live' = live \cup {o}
          /\ pool' = IF FromPool THEN [pool EXCEPT !.items = Front(@)] ELSE pool
          /\ IF Coroutine(routed.r) \/ routed.r.entry = 0
             THEN /\ pipeline' = [pipeline EXCEPT ![c] = Append(@, o)]
                  /\ current' = None
             ELSE /\ current' = [conn |-> c, obj |-> o, stage |-> "handler"]
                  /\ UNCHANGED pipeline
  /\ sent' = None /\ UNCHANGED cache

\* Protocol_on_body.
OnBody(c) ==
  /\ current = [conn |-> c, obj |-> c, stage |-> "parsed"]
  /\ \E routed \in Routings(c) :
       /\ heap' = (heap \ OwnBlock(c)) \cup ({routed.r.buffer} \cap Heap)
       /\ OnBodyInPlace(c, routed) \/ OnBodyCloned(c, routed)

\* The requests whose handler runs: the one being handled, or a coroutine that
\* waits in a pipeline while the loop is free.
Handled ==
  IF current # None
  THEN IF current.stage = "handler" THEN {current.obj} ELSE {}
  ELSE {o \in live : Coroutine(req[o]) /\ req[o].response = None}

\* A handler reads an attribute it has not read before.
Get(o, a) ==
  LET d == CASE a = "query_string" -> DecodeQs(mem, req[o])
             [] a = "headers" -> [m |-> TitleNames(mem, req[o]), r |-> req[o]]
             [] OTHER -> [m |-> mem, r |-> req[o]]
  IN /\ req[o].py[a] = None
     /\ req' = [req EXCEPT ![o] = [d.r EXCEPT !.py[a] = Got(mem, req[o], a)]]
     /\ mem' = d.m
     /\ sent' = None
     /\ UNCHANGED <<heap, live, pool, pipeline, current, cache>>

\* A handler answers: in place, the response is written; in a clone, it waits.
Respond(o, args) ==
  LET r == Answered(mem, req[o], args)
  IN /\ req' = [req EXCEPT ![o] = r]
     /\ IF o \in Conns THEN Write(mem, r) ELSE sent' = None /\ UNCHANGED cache
     /\ pipeline' = IF current # None /\ o \in Clones
                    THEN [pipeline EXCEPT ![current.conn] = Append(@, o)] ELSE pipeline
     /\ current' = None
     /\ UNCHANGED <<mem, heap, live, pool>>

\* The head of the pipeline is written and let go once it has its answer, or has
\* no route.
HandOver(c) ==
  LET o == Head(pipeline[c])
  IN /\ current = None /\ pipeline[c] # <<>>
     /\ req[o].response # None \/ req[o].entry = 0
     /\ Write(mem, req[o])
     /\ Release(o)
     /\ pipeline' = [pipeline EXCEPT ![c] = Tail(@)]
     /\ UNCHANGED current

Next ==
  \/ \E n \in PoolSizes : ConfigurePool(n)
  \/ \E c \in Conns, k \in Requests : OnHeaders(c, k)
  \/ \E c \in Conns : OnBody(c)
  \/ \E o \in Handled, a \in Attributes : Get(o, a)
  \/ \E o \in Handled, args \in Answers : Respond(o, args)
  \/ \E c \in Conns : HandOver(c)

Spec == Init /\ [][Next]_vars

-----------------------------------------------------------------------------
(* Properties. *)

Chars(tokens) == [i \in DOMAIN tokens |-> tokens[i].char]

\* The route a client's request is for, by what its pattern means and its methods
\* take.
RouteOf(k) == LET described == Described(Chars(k.path), k.method)
              IN IF described = {} THEN 0 ELSE Min(described)

\* What a client's request says, by attribute.
Said(k, a) ==
  CASE a = "method" -> k.method
    [] a = "path" -> Chars(k.path)
    [] a = "query_string" -> IF k.qs = <<>> THEN None ELSE Tail(Chars(k.qs))
    [] a = "headers" -> Dict([i \in DOMAIN k.headers |-> title_case(k.headers[i].name)],
                             [i \in DOMAIN k.headers |-> k.headers[i].value])
    [] a = "match_dict" -> IF RouteOf(k) = 0 THEN {}
                           ELSE DescribedValues(parse(Routes[RouteOf(k)].pattern), Chars(k.path))
    [] a = "route" -> RouteOf(k)

\* The requests a handler or the pipeline may still read.
Readable == live \cup (IF current # None /\ current.stage = "handler"
                       THEN {current.obj} ELSE {})

\* Whatever was copied, moved, decoded, cloned, pooled or freed in between, every
\* attribute of a request that can still be read, read before or not, is what
\* the client said: the headers by their names in title case, of a repeated one
\* the last; the escapes in upper-case digits decoded, once, and others left.  Its
\* route and its values are those a pattern's meaning picks: the first route that
\* takes the method and whose placeholders can be replaced by texts without '/' to
\* give the decoded path, the segments after the last placeholder being optional.
FieldsReadTheirBytes ==
  \A o \in Readable, a \in Readables : Got(mem, req[o], a) = Said(req[o].spec, a)

\* The Python matcher, which can take the place of the C one, finds the same route
\* and the same values unless the C one misreads the methods: where the first
\* route that one of them finds, of those for the path, does not list the method
\* but has one that ends with it, or lists it behind one that contains it.  There,
\* and only there, the two part.
SameAsPython ==
  \A o \in Readable :
    LET path == Chars(req[o].spec.path)
        method == req[o].spec.method
        py == PyMatch(path, method)
        either == Described(path, method) \cup PyDescribed(path, method)
        alike == /\ py.entry = req[o].entry
                 /\ py.values = Computed(mem, req[o], "match_dict")
    IN alike <=> \/ either = {}
                 \/ Min(either) \in Described(path, method) \cap PyDescribed(path, method)

\* Every buffer from the heap belongs to exactly one request that is in use, so
\* none is freed twice, used after being freed, or lost; an object in the pool is
\* there once, and not in use.
OneOwner ==
  /\ \A o, p \in Conns \cup live : req[o].buffer = req[p].buffer => o = p
  /\ heap = {req[o].buffer : o \in Conns \cup live} \cap Heap
  /\ ToSet(pool.items) \cap live = {}
  /\ \A i, j \in DOMAIN pool.items : pool.items[i] = pool.items[j] => i = j

\* What a client's request asks of the connection.
AsksKeepAlive(k) ==
  LET named == {i \in DOMAIN k.headers : Lowered(k.headers[i].name) = Lowered(Connection)}
      says(token) == named # {} /\ \E j \in DOMAIN k.headers[Min(named)].value :
                                     k.headers[Min(named)].value[j] = token
  IN IF k.minor_version = 0 THEN says(KeepAliveToken) ELSE ~says(CloseToken)

\* The bytes written for a request are those of its own answer, framed for its own
\* version and connection, also when they come from the cache that requests of
\* other connections filled.
AnsweredForItself ==
  sent # None =>
    sent.bytes = RenderFresh(Request_Response(sent.answer, sent.spec.minor_version,
                                              AsksKeepAlive(sent.spec)))
=============================================================================
