# fpy3: a formal model

TLA+ modules, TLC configurations and TLAPS proofs for the server in `src/`.
Paths like `cpipeline.c:145` are relative to `src/src/fpy3/` (the C files are in
`<package>/c_impl/`); `PROJECT.json` maps every definition to its lines.

Contents: [1 the system](#1-the-system), [2 the modules](#2-the-modules),
[3 what TLC checks](#3-what-tlc-checks), [4 findings](#4-findings),
[5 what is proved](#5-what-is-proved), [6 what is not modelled](#6-what-is-not-modelled),
[7 plan](#7-plan), [8 running it](#8-running-it).

## 1. The system

fpy3 serves Python applications over two independent front ends:

```
 HTTP/1.1:  transport -> Protocol -> Parser -> Protocol.on_headers/on_body
                            |                        |  Matcher -> handler
                            |                        v
                            |                 coroutine? -> task -> Pipeline
                            |<--- write_response <---+  <- _task_done ---+
                            v   (Gather)
                        transport.write

 HTTP/3:    MsQuic worker threads -> ServerStreamCallback -> nghttp3 -> PushEvent
                                                              (pending list)
            event loop thread: process_pending -> ASGIServer.on_* -> task
                               send_headers/send_data -> nghttp3 -> MsQuic
```

### Inventory

| Component | State | Operations | What makes it hard | Correct means |
|---|---|---|---|---|
| **Pipeline** `cpipeline.c` | 10 slots, `queue_start`, `queue_end`, one reference to the protocol | `queue`, `_task_done`, `cancel` | tasks finish in any order, several before the first of their callbacks; `ready()` fails half way; slots are reused only when the queue is empty | responses leave in request order, each once, none forgotten; the protocol is kept alive exactly as long as needed |
| **Protocol** `cprotocol.c` | gather buffer, flags, the transport, one pipeline, one parser | `data_received`, `on_headers`, `on_body`, `on_error`, `on_incomplete`, `pipeline_ready`, `close`, `connection_lost` | three ways to the wire (written, gathered, queued) that must not pass one another; errors and closes in the middle of a buffer; callbacks after the connection is lost | every request is answered once, in order, or its connection ends |
| **Parser** `cparser.c` | buffer with four indices, `state`, `connection` | `feed`, `feed_disconnect` | bytes cut anywhere; the window moves and the buffer grows; state that outlives a request | what the protocol sees does not depend on the cuts |
| **QUIC server** `cquic.c` | per connection: readiness, 64 stream slots, nghttp3 state under `ctx->lock`; per stream: chunks to send; global: list of pending events under `pending_lock` | stream and connection callbacks on MsQuic threads; `process_pending`, `send_headers`, `send_data` on the event loop thread | two locks and the GIL; wakeups; events before the connection is ready; nghttp3 decides which stream is written; questions to MsQuic under a lock; freed contexts | no deadlock, no lost wakeup, each stream in order, every response handed over |
| **ASGI server** `asgi.py` | `streams` dictionary, one queue and task per request | `on_headers`, `on_data`, `on_fin`, `_run_app`, `send` | events that arrive before the task first runs; stream ids of several connections | each application receives its own request body, completely |
| **Application** `app/__init__.py` | set of connections, error handlers, phase of `serve` | `serve`, `drain`, `error_handler`, signals | shutdown while tasks run and clients read on | every client is closed or its handler cancelled, the process ends |
| **Reaper** `creaper.c` | idle time and last read count per connection, a timer | a check per interval | it samples: reads fall between two checks | only silent connections are closed, all of them |
| **Router, matcher** `router/` | compiled routes | `add_route`, `match_request` | two implementations of one algorithm, over a path decoded in place | C and Python agree, and with what a pattern means |
| **Request** `crequest.c` | inner buffer of 1 KB, heap buffer, pointers into it, decoded-once flags, freelist of clones | `from_raw`, `load_headers`, `load_match`, `decode`, `clone`, getters, `dealloc`, `configure_pool` | pointers into buffers that move, are copied or change hands | whoever may read a request sees what the client sent; each buffer has one owner |
| **Response** `cresponse.c` | arguments of `Response()`, a cache of rendered responses | `init`, `render`, `cacheable`, `from_cache` | one cache for all connections, looked up by body | the bytes are those of this answer to this request |
| **Process** `runner.py`, `reloader.py` | worker processes | start, reload | - | - |

The Pipeline and Protocol run on one event loop thread: a call is atomic, and
what interleaves is *which* callback runs next. The QUIC server is truly
concurrent.

## 2. The modules

| Module | Models | Role |
|---|---|---|
| `OrderedResponses` | - | abstract: what HTTP/1.1 pipelining promises, without a queue |
| `Pipeline` | `cpipeline.c`, `cpipeline.h` | detailed; implements `OrderedResponses` (`ImplementsPromise`) |
| `Protocol` | `cprotocol.c`, feed loop of `cparser.c` | composes a `Pipeline` (`P == INSTANCE Pipeline`) with the gather buffer, the parser's states and the transport |
| `Parser` | `cparser.c`, use of `picohttpparser.c` | the buffer and the feed loop on single bytes |
| `Quic` | `cquic.c`, receiving | worker threads, event loop thread, locks, GIL |
| `Asgi` | `asgi.py`, receiving | what Python does with the events of `Quic` |
| `Http3` | `cquic.c` and `asgi.py`, sending | extends `Asgi`: the same applications send their responses |
| `Matcher` | `route.py`, `cmatcher.c`, `matcher.py` | both matchers, and what a pattern means (`Described`) |
| `Response` | `cresponse.c` | what the bytes say, and the cache |
| `Request` | `crequest.c`, `match_dict.c`, `request/__init__.py` and their calls in `cprotocol.c` | extends `Matcher` and `Response`: a request from its bytes to the bytes of its answer |
| `App` | `app/__init__.py`, `creaper.c` | connections, reaper and shutdown of a process, by the second |
| `MC*` | - | instances for TLC |
| `*Proofs` | - | theorems of the module of that name; those of `Asgi` are in `Http3Proofs` |

### How state and actions correspond

* **Pipeline.** Entries are numbered in the order `Pipeline_queue` takes them;
  `queue`, `queue_start`, `queue_end` are the C fields. `task[r]` is the asyncio
  state of the entry, `callbacks` the number of `_task_done` calls that
  `call_soon` holds. `_task_done` does not look at the task it was called for, so
  they are only counted. `TaskDone` is the whole function: the scan up to the
  first entry that blocks or fails, the calls of `ready()`, the store of
  `queue_start` (skipped on the error path, as in the code), the release of the
  protocol. `emitted` and `failed` are history. `FinishTask` is asyncio: a task
  ends, its done callback is scheduled.
* **Protocol.** `data_received` runs the feed loop to its end, so while `tail`
  holds no other callback runs (`Running`). The items in the bytes (a request
  and its traits, a malformed head, half a head) are chosen when the parser
  reaches them. `OnBodyTask`, `OnBodyQueued`, `OnBodyWritten`, `OnBodyFailed` are
  the four ways through `Protocol_on_body`. A step that writes computes one
  `Output` record (gather, transport, wire, dropped), so that a function that
  calls `Gather_flush`, then writes, then closes is their composition.
  `wire` lists requests in the order their answers reach the transport. The
  transport itself is external: after `close()` it drains or discards, and the
  protocol cannot know which.
* **Parser.** The four buffer fields, `state` and `connection` are the C fields,
  with bytes reduced to four values. Each call of `_parse_headers` and
  `_parse_body` in the loop is a step, whose result is the call of the protocol
  appended to `calls`. `sent` and `consumed` are history.
  As the loop over the headers in `_parse_headers` (cparser.c:178) has no body,
  `Content-Length` and `Transfer-Encoding` are never seen, and the
  branches of `_parse_body` for them cannot be reached.
* **Quic.** `worker[c]` is the program counter of the connection's callback,
  `python` that of the event loop thread; a worker holds `ctx->lock` from
  `Receive` to `ReceiveDone` and needs the GIL for the step `WakePython`.
  `pending_lock` is a leaf lock whose sections are steps. A request is a sequence
  of frames; nghttp3 is external: it accepts frames in order and calls back, or refuses
  one in the middle of a buffer (`ReadFails`: what came before stays pushed, the rest is
  dropped, nothing is flushed). A send may ask MsQuic for a stream id while it holds
  `ctx->lock` (`GetStreamID`, cquic.c:257-260); MsQuic (external) lets the connection's worker
  answer between two callbacks (`GetParam`), and the worker may instead have begun a
  callback that waits for `ctx->lock` (`WorkerBlocks`).
* **Asgi.** `streams` is the dictionary, from a stream id to the request whose
  queue the entry holds; `queue[s]` and `task[s]` are what `on_headers` created,
  and the closure `receive` belongs to. A task step is atomic, as in asyncio.

* **Http3.** `SendHeaders` and `SendData` are `server_send_headers` and
  `server_send_data` with the `FlushStream` they end in; both hold `ctx->lock`
  throughout, so each is a step. `resp[s]` is the list from `resp_head` to
  `resp_tail`, `handed[s]` what `StreamSend` got. nghttp3 is external and may offer
  any stream it has scheduled: how many rounds of `FlushStream` see the stream they
  were called for is nondeterministic (`Offers`) unless no other is scheduled
  (`Alone`). A bare FIN leaves its stream scheduled, because `add_write_offset` is only
  called for data (cquic.c:273), and nothing else removes it: the server never
  calls `nghttp3_conn_close_stream`.
* **Matcher.** `parse` is `route.py`, which builds what both matchers scan: the C one
  (`Scan`, `Matches`) and the Python one (`PyScan`, `PyMatches`) are translated
  separately, from their loops. `Describes` is the reference: substitution of
  texts without `/` for the placeholders, no scan. Whether a route takes a method is said
  for each of the two apart: `Includes` is membership, `Takes` what the C search amounts to.
* **Request.** Memory is made of blocks of cells: the block of an object's name is
  its inner buffer, the others come from the heap; the parser's buffer is the block
  `Wire`, overwritten with every head. A pointer is a block and an offset; a struct takes
  `StructLen` cells, so that text has to be rounded up before it, as in C.
  `OnHeaders` is `from_raw` and `load_headers`, `OnBody` the rest of
  `Protocol_on_body` up to the handler: match, `load_match`, decoding of the
  path, and the clone for a coroutine or a busy pipeline. `Get` is a getter on
  its first use, `Respond` a handler that returns `request.Response(...)`, `HandOver` the
  pipeline's `ready()` with `Request_dealloc`. `Allocated` chooses between the
  freelist and the allocator. The pipeline is a queue here: `Pipeline` shows that it is one.
  A handler that is no coroutine is assumed not to keep its request.
* **Response.** The fields are the arguments as `Response_init` keeps them;
  `RenderFresh` is `Response_render` reduced to what the bytes say. The cache is
  compiled in with `--enable-response-cache`; `CACHE_LEN = 0` is the build without it.
* **App.** A tick is a second; `timer` and `nap` are due when they reach 0 and may be served
  later. `moved[c]` is `read_ops # last_read_ops`, `busy[c]` is `not pipeline_empty`,
  `cancelled[c]` that `pipeline_cancel` met it busy; `quiet` and `everRead` are history.
  The loop is uvloop's (app/\_\_init\_\_.py:54), whose `Server.wait_closed` returns at once
  after `close()`, so `drain` follows the signal. `SignalAgain` is the
  second SIGTERM: `loop.stop()` inside `run_until_complete` raises, and what follows in the
  `finally` block does not run.

Definitions named `X_Something` are variants of `X` with a plausible bug: a
dropped flush, a forgotten unlock, a count one off. No specification uses them;
each breaks the property named in `PROJECT.json` ("mutants") when put in the
place of `X`, which shows that the property watches that code.

## 3. What TLC checks

`request_core` checks for deadlock. The other runs say `CHECK_DEADLOCK FALSE`: histories
and request numbers are bounded and a process may end, and such a behaviour stops; a
real deadlock (of locks, of requests that wait for one another) is what the liveness
properties rule out, but for the one that `Deadlocked` of `Quic` names.

| Run | Bounds | Distinct states | Question |
|---|---|---|---|
| `pipeline_core` | 3 slots, 5 entries | 38 000 | order, wakeups, references, refinement |
| `protocol_core` | 3 slots, 2 gathered, 4 requests of 5 kinds | 29 000 | one whole connection |
| `parser_core` | buffer of 2, 6 bytes of 4 kinds | 125 000 | bytes cut anywhere |
| `quic_core` | 2 connections, 3 streams, 2 frames, 1 send, 1 slot per connection | 442 000 | threads and locks |
| `asgi_core` | 2 requests of one connection, 2 DATA events and 2 body messages each | 430 000 | request bodies, entries, responses |
| `request_core` | 1 connection, 2 clones, 2 heap blocks, inner buffer of 12 cells, 6 requests, 3 routes, 2 answers, cache of 1 | 73 000 | memory, routing, bytes of answers |
| `app_core` | 2 clients, a check every 2 s, timeout 3 s, 2 drain rounds | 420 000 | reaper and shutdown |
| `pipeline_release`, `pipeline_capacity`, `protocol_order`, `quic_deferred`, `asgi_shared` | real slot counts (10, 24) where they matter | up to the violation | [findings](#4-findings) |

### Why the bounds are enough for the interesting cases

* *Pipeline*: with 3 slots and 5 entries the queue fills up (the assertion is
  reached), empties, and starts a second lap over slots that still hold old
  entries; up to three tasks finish before the first callback runs; `ready()`
  fails at each position.
* *Protocol*: 4 requests fill the gather buffer of 2 and overflow it, queue
  behind a coroutine, and leave room for a malformed head behind all of them.
  The kinds: plain, coroutine, HTTP/1.0 (closing), too big to gather, raising.
* *Parser*: 6 bytes overrun a buffer of 2 twice, by doubling and to exactly what
  is needed, and hold up to six requests, with every cut.
* *Quic*: two connections on two threads contend for the list, two streams of
  one connection for its lock and its one slot; an event is always pushed while
  another thread is between its look at the list and its wakeup. A send meets the worker
  idle, blocked, and with more to come, when it asks for a stream id.
* *Asgi, Http3*: every event can be early (before the task runs) or late (after
  the application returned); responses of two streams interleave message by
  message, with and without bodies, and with the client still sending. Several
  connections matter for the ids only: `asgi_shared`.
* *Request*: the 6 requests are chosen by what becomes of their memory: all in the inner
  buffer; head in the inner buffer and matcher's entries on the heap; head on the
  heap already; paths and query strings with escapes (`%2F`, `%25`, `%3F`), which
  decoding shortens in place, with one in lower-case digits and half an escape, which stay, and with
  a text that looks like an escape only once it is decoded; query strings that are `?` alone; versions and
  `Connection` headers of each effect; a header sent twice under names that differ in case; no route
  by path and by method; a method behind one that begins with it, and one that ends a listed
  one, which the matchers route differently. Routes: fixed, placeholder
  at the end and in the middle, a text and a clone for each. Two clones and two
  blocks wait behind one another, go to the pool, over its limit (0 or 1, changed
  while it is filled) and come back; clones and blocks are symmetric, as
  nothing orders them. A second connection would share only pool, heap and cache,
  which one connection's successive requests share too.
* *App*: the timeout is no multiple of the interval, so rounding counts; a read can fall
  before, between and after two checks; two clients can be idle and busy in turn while
  the drain looks twice.

### Properties

Each is stated in words above its definition. The ones to know:

* Pipeline: `InOrder`, `NothingSkipped` (also after a failure), `WakeupPending` (a
  finished entry at the front has a callback coming, the argument behind queueing
  plain responses without a callback of their own), `NoReferenceLeak`,
  `ImplementsPromise`, `HandedOn` (liveness).
* Protocol: `NeverPassed` (pipeline, gather buffer and wire form one line on
  which responses do not overtake), `ExactlyOnePlace` (each request is in one
  place of that line or given up with the connection), `GatherNotStranded`,
  `UsesPipeline` (refinement), `Answered`, `ReleasedAfterLoss` (liveness).
* Parser: `WindowIsRest`, `SameForEveryCut`, `MoreIsFollowed`.
* Quic: `WakeupComing`, `StreamOrder`, `LockHeld`; `EventsArrive` and `SendReturns` say that the
  one deadlock there is (see `Deadlocked` and the observation below) is the only thing that
  can keep an event from Python or a send from returning.
* Asgi: `OwnBody`, `EntriesAreTasks`, `BodyEnds`.
* Http3: `ResponsesHandedOver` (when a send returns MsQuic has all of the response, unless
  another response of the connection ended with an empty message).
* Request: `FieldsReadTheirBytes` (every attribute of every request somebody may still read is
  what its client sent, whatever was moved, decoded, cloned or freed since),
  `SameAsPython` (the matchers agree exactly where the C one does not misread the methods),
  `OneOwner`, `AnsweredForItself` (also from the cache).
* App: `ReapedAfterSilence` (no connection is reaped early), `StaysOnlyIfReads` (none is
  forgotten, not even a busy one), `GracefulStop` (a signal ends the process with every client
  closed or cancelled).

### Fairness

Fairness is stated where a liveness property needs it, and only for what the
scheduler gives:

* `Pipeline!FairSpec`: weak fairness of the callbacks, which `call_soon` runs.
  Nothing says that a task ends.
* `Protocol!FairSpec`: the feed loop ends (weak); callbacks run although
  `data_received` keeps interrupting them (strong, because each buffer disables
  them while it is parsed; uvloop runs its ready queue in every iteration); a
  closed transport calls `connection_lost` and a cancelled task ends (weak).
  Handlers may run for ever: `Answered` is about requests whose handlers, and
  those in front of them, have ended.
* `Quic!FairSpec`: each thread that can take its next step does, and a worker that stays idle
  answers MsQuic's question. That it does not begin a callback first is not assumed. Nothing is
  assumed of the client, of applications, or of the start of the server's
  streams.
* `Asgi!FairSpec`, `Http3!HttpFairSpec`: the loop runs ready tasks, and this application keeps
  receiving, like the echo application of `test_asgi.py`.
  Nothing is assumed of its sends, or of nghttp3.
* `App!FairSpec`: time passes, the loop runs the reaper's timer and the coroutine of
  `drain`, and a transport that is closed calls `connection_lost` (all weak: nothing
  disables them but the end of the process). Nothing is assumed of clients, handlers or
  signals.
* `Parser` and `Request` have no fairness and no liveness property: `Protocol` has them.

## 4. Findings

Each is a run in which TLC finds the code doing what a comment, an assertion or
a document says it does not.

1. `pipeline_release`: `_task_done` releases the protocol whenever it finds the
   queue empty, not when the queue *becomes* empty (cpipeline.c:145). Two tasks
   that finish in one loop iteration are enough: the second callback releases
   again what was held once.
2. `pipeline_capacity`: nothing bounds the requests in flight, and
   `assert(queue_end < 10)` (cpipeline.c:178) stops the process at the eleventh (built with
   `b_ndebug` there is no assertion, and the eleventh overruns the array);
   since slots are reused only when the queue is empty, a queue that never
   becomes empty gets there with few requests outstanding.
3. `protocol_order`: the 400 answer to a malformed head is written past the
   pipeline (cprotocol.c:792) and overtakes earlier requests.
4. `quic_deferred`: data that arrives before the connection is ready is consumed,
   not deferred (cquic.c:510): the callback returns success.
5. `asgi_shared`: `ASGIServer.streams` is keyed by a stream id that is unique only
   within its connection (asgi.py:225).

### Other observations

Met while modelling; no text of the repository promises otherwise, or a property
already says what follows.

* *Gathered behind a coroutine.* A synchronous response that was gathered because more bytes
  followed is flushed by the next write. If those bytes are a request with a
  coroutine handler, the flush comes with the coroutine's response: a fast
  response waits for a slow handler *behind* it (the care in `Due`, under `Answered`).
* *Gathered behind an error.* The 400 answer of finding 3 also closes the connection without
  flushing the gather buffer (cprotocol.c:792), which `on_incomplete` does do (:361-369).
* *Handed on twice.* After a `ready()` that fails, `queue_start` is not stored (cpipeline.c:122), and
  entries handed on in the same callback are handed on again; `InOrder` speaks of the time
  until a call fails.
* *An empty last message.* A response that ends with an empty body message keeps its
  stream scheduled in nghttp3, in the way of later responses of the connection
  (cquic.c:273); the echo application of `test_asgi.py` (:34-38) ends so.
  `ResponsesHandedOver` names exactly this exception.
* *Drain.* Its log says "read-end closed" (app/\_\_init\_\_.py:138) of connections it goes on reading.
  A second signal skips drain and `reaper.stop()`. Tasks cancelled
  in the last round get no turn of the loop to answer 503.
* *Error handler.* `default_error_handler` reads `tb` unassigned (:96), so every ordinary exception
  of a handler fails a second time inside it.
* *Reaper.* A connection that never read may go up to one interval early, since the interval it was
  accepted in counts whole; busy connections are reaped as well.
* *Matching.* Both matchers accept a path that ends where an exact segment should begin:
  `/x` matches `/{a}/edit`. The C one searches the method in the route's methods joined by spaces and looks
  at the character behind the first place it finds (cmatcher.c:229-236): any end of a listed
  method is taken (`LOCK` by an `UNLOCK` route, `PATCH` by a `PROPPATCH` route, `ET` by a `GET` route), and a
  listed method behind one that contains it elsewhere is not found. Methods are a set, so which one
  stands behind may change with the hash seed of the process. The Python matcher does neither;
  `SameAsPython` says exactly when the two differ. The C matcher asserts at most 10 placeholders (cmatcher.c:192).
* *Lower-case escapes.* `is_hex` takes `0-9` and `A-F` (crequest.c:447): `%2f`, a legal escape, stays as it is in
  path and query string, as a malformed one does. `FieldsReadTheirBytes` says so.
* *Repeated headers.* The dictionary of headers keeps the last value of a name (crequest.c:558), while the
  keep-alive decision looks at the first `Connection` header (crequest.c:687-695).
  Names are put in title case in the buffer itself.
* *A question under the lock.* `FlushStream` calls `GetStreamID` when nghttp3 offers another stream than the one
  it was called for (cquic.c:257-260). From the event loop thread, `MsQuic->GetParam` waits for the
  connection's worker; if that is in a callback and waits for `ctx->lock`, which the
  send holds, neither ever goes on, and the event loop with them.
* *Inner buffer of a response.* Fields beyond its 1024 bytes are not checked against its end.

## 5. What is proved

Every theorem holds for every value of the constants that satisfies the `ASSUME`
of its module (sizes are natural numbers, and positive where C declares an array
of that size). tlapm checks all of them with SMT, Zenon and LS4.

* **`PipelineProofs`**: `TypeCorrect`, `WindowIsContiguous`, `ResponsesInOrder`,
  `NoEntrySkipped`, `NoLostWakeup`, `ReferencesReturned`, and the refinement
  `PipelineKeepsPromise`. The inductive invariant adds two facts to the run's
  invariants: entries not yet queued have no task, and the window is no longer
  than what was accepted. `InOrder` is not inductive alone: which entries
  `_task_done` hands on is known only because the window holds *consecutive*
  entries (`WindowContiguous`). `NoLostWakeup` is the subtle one: the front
  changes only in `_task_done`, which stops at an entry that is not finished, and
  that entry, having a task, will bring its own callback.
* **`ProtocolProofs`**: by composition. `StepIsPipelineStep` shows action by
  action that a step of the protocol is a step of its pipeline or leaves it
  alone (`ProtocolUsesPipeline`); `PipelineProofs` is then instantiated in
  the connection, and `ConnectionKeepsOrder` carries its invariants over.
  On top of them stand the connection's own: `TypeCorrect`, `NeverStranded`,
  `ResponsesNeverPass` and `EachInOnePlace`, for any number of requests, slots and gathered
  buffers. `CInv` adds to the pipeline's invariant that queued entries have an
  owner (`OwnersKnown`), that gathering is off while the pipeline holds an entry (`GatherOff`), that an
  open transport drops nothing, and `LineInv`: the line *wire, gather buffer,
  pipeline* without the rejected heads is exactly the requests, ascending. Every write moves a response
  up that line; the one that needs thought is `pipeline_ready` for several entries in one
  callback, shown by induction on how many it has handed on.
* **`QuicProofs`**: `TypeCorrect` (the table takes no more than its slots),
  `NoLostWakeup`, `LockDiscipline`, `RequestsInOrder`. The strengthening for the first three is that a
  worker about to wake Python is inside its buffer, which is what keeps the frame counter in range.
  `RequestsInOrder` (`StreamOrder`) needs to know besides that there is one batch at a time (`OneBatch`),
  that only a stream that was opened has events (`OnlyOpened`), and where the frame a worker is about to
  append fits: right after the last one of its stream in the line of detached and
  pending events, or, when there is none, after the last one given to Python (`Cursor`).
* **`ParserProofs`**: `TypeCorrect` and `NothingIsLost`, which are inductive together:
  `consumed` stays in range because the window is the exact difference between
  what was received and what was consumed. `RoomIsEnough` is the arithmetic of
  the three ways `Parser_feed` makes room. `GatherIsFollowed`: inside a feed either unread
  bytes remain or the last call was not told of more. `CutsDoNotMatter` is the deepest of them:
  `SameForEveryCut` speaks of the end of a feed, its strengthening `ToldAndRest` of every point:
  *whatever bytes b may still come*, what was told so far followed by the requests of the rest and b are the requests of
  everything sent and b. What else the parser remembers between reads (`ClosesAfterOld`: the
  connection is to close iff the last head consumed asked for it; `LeavesOffHere`: between reads nothing
  but an unfinished head is left over) is what makes picking up in the middle the same as starting over.
* **`Http3Proofs`**, receiving: `EveryoneOwnBody` and `NoEntryLeaks`, under the hypothesis
  `UniqueIds`. Finding 5 is that the code does not ensure this hypothesis.
  Sending: `NothingHeldBack`. `ResponsesHandedOver` is not inductive: whether a flush
  gets through depends on what else nghttp3 would offer. `HInv` adds the two missing facts:
  what is not handed over yet is exactly what nghttp3 still has of the stream (`Rest`), and a stream
  nghttp3 would offer ended with an empty message or waits behind one that did (`HeldUp`), so
  a flush that meets another stream meets the exception that the property names.
* **`MatcherProofs`**: `MatchersFindTheMeaning`. For any routes, any path and any method,
  the C matcher finds the first route whose pattern means the path and that takes the method as
  its search of the methods does (`Takes`), the Python matcher the first whose methods include it, each with the
  values that give the path back; those of the C one lie within the path. Neither
  scan resembles the meaning, which instantiates the segments and compares. Between them stands the
  *way* through the path: how far each segment takes the scan. The C scan follows it by what is left of
  the path and the length of the last value, the Python one by positions; both accept where the way covers
  the path and no placeholder is left behind it, and the ways of *k* segments are the
  instances of *k* segments. What `parse` makes of a pattern (a placeholder is followed by an exact text that begins with
  a `/`, or by nothing) is what makes the way unique. The method test, a substring search in the methods
  joined by spaces, is shown equal to `Takes`, which speaks of the listed methods one by one: as no method has a
  space, the search never finds one across two of them.
* **`RequestProofs`**: `OwnershipIsUnique`, for any number of connections, clones, blocks, routes and
  requests, and any contents of memory. The argument speaks of the map `Buffers` from
  objects to blocks only: `Owns` says that it is injective on the objects in use and that its
  heap blocks are the allocated ones, and three lemmas show what keeps it: an object
  exchanges its block (`Replace`: growing), hands it to a clone (`TakeOver`), or dies
  (`LetGo`). To apply them one has to know that the object is in use exactly once:
  hence `PoolInv` (what is in the freelist is not live), `Queues` (a clone waits in
  one pipeline, once) and `InHand` (and not there while its handler runs).
  `AnswersAreOwn` (`AnsweredForItself`) stands on it: a cache of responses, a freelist and a bump
  allocator never make a client get what another one's head asked for. Its invariant `MemInv` says that every
  request in use *holds the head of its own client*: its buffer has the method, the text of the
  headers and the header entries, whose pointers point into this very block, its lengths are those of the head,
  its answer is the one for this client in the version and with the keep-alive the head asked for, and a cache
  entry is a plain answer rendered for the version and keep-alive it is filed under. Uniqueness of ownership is what
  makes it inductive: a step writes into one block, of one object, so all others keep what they hold.
  The work is in the writers: `on_headers` copies a head behind what the buffer has and rebases its
  pointers, the router adds match entries, which may move the block to a larger one, a clone
  takes the block or copies it, and `on_body` does any of these with the answer's cache in between.
  `FieldsAreSaid` (`FieldsReadTheirBytes`) and `PythonMatchesAlike` (`SameAsPython`) are about everything else a handler can
  read. `MemInv` says for them that what stands behind the method is the path and the query string as the
  client sent them *or* already decoded, each with the length that belongs to it (`Spoken`); that the query
  string is decoded only behind a decoded path, since decoding the path moves it; that what an attribute returned once
  is what the client said (`Remembers`); and that a routed request lists the matcher's entries, pointing
  into its own decoded path (`Matched`), which is not so before routing and no longer after the
  answer. With `MatchersFindTheMeaning` the values found there are the ones the pattern means, and
  `PythonMatchesAlike` follows from what each matcher means: two choices of routes begin with the same one
  exactly when the first of all is in both (`SameFirst`). Lazy
  decoding is the hard step: it shortens a text in place between two reads, under pointers that others hold; that
  a `%` which is not part of an escape is not taken for one, whatever the escapes around it become, is
  `PercentAlone`. Reading the headers rewrites their names in place (`NamesTitled`): that no text but the names
  changes, and no name's meaning, takes the places of all headers in the block.
* **`AppProofs`**: `TypeCorrect` and `NeverReapedEarly`, for any interval and timeout. The
  strengthening `SilenceInv` relates the reaper's count to real time: without a read since the
  last check a connection has been quiet for what was counted and the time
  since the check.

*Induction over data.* `RequestsOf`, `Asked`, `WriteHandedOver` and the proofs about them are recursive
functions. The library's induction theorems take an operator as a parameter, which the provers
cannot instantiate, so `ParserProofs` and `ProtocolProofs` use the least element of a set of naturals
(`LeastOf`, from `NatLessThanWellFounded`): the set of counterexamples, a definition over a set
and not over a predicate, has no least element and is empty. That a recursive function
exists at all is shown the same way, one value at a time. `MatcherProofs` and `RequestProofs` do the same for
`parse` and both scans, `percent_decode` and the copies of header entries.

*What is assumed of requests and routes.* What is received are sequences, and the model's `None` and `Wire` are no
data. Every target is covered, described by its meaning (`TargetAssumption`): a character that is encoded
is one of the escapes the code decodes, any other stands for itself, also a `%` that two
upper-case hexadecimal digits do not follow; a path ends at the first `?`, with which a query string begins. A
method is one word, as the parser cuts it (`MethodAssumption`). No letter is both an upper-case and a lower-case
one (`LetterAssumption`). Patterns are those `add_route` accepts, with
no more placeholders than the matcher has room for (`RouteAssumption`), and `/` is not a brace. The run
evaluates all of these on its instance.

Only model-checked: the liveness properties, which are out of the prover's reach. Every invariant that a
passing run checks is stated by a theorem.

## 6. What is not modelled

* Memory exhaustion: the error paths of failed allocations.
* `picohttpparser` (vendored): which bytes are a request head.
* Request bodies over HTTP/1.1: `_parse_body` never reaches them, see Parser above, so the
  attributes made from a body (`text`, `json`, `form`, `files`) and cookies are left out.
* Python reference counts other than the pipeline's hold on its protocol and those of
  requests; the lifetime of a sent chunk between `StreamSend` and its completion.
* The analysis of coroutines in `analyzer.py` (rewriting of bytecode) beyond the fact that
  a route is a coroutine's or not; how compiled entries are packed.
* Shutdown of QUIC streams and connections, `FlushConn` for the control streams, the start of
  the listener, the Alt-Svc listener.
* The runner and reloader, the tracing protocols, the generator type
  that nothing uses, and the Python twins of C modules used by tests (the Python matcher,
  which can replace the C one, is modelled).
* Conditional code: `creaper` is modelled with `REAPER_ENABLED` and the cache of responses with
  `RESPONSE_CACHE`, as the `*_ext.py` scripts build them with `--enable-reaper` and
  `--enable-response-cache`. `meson.build` sets the first for the module `cprotocol` only, not for
  `creaper`, and the second nowhere; without them there is no reaper and no cache.

`PROJECT.json` lists each component with its status, and each hazard with the
properties that watch it; hazards without a property say what they wait for.

## 7. Plan

Done, in this order: Pipeline and its promise, Protocol over it, Quic, Parser,
Asgi; Matcher, Response and Request; App with the reaper; Http3. Next:

1. **Shutdown of Quic** (extends `Quic`, same run): `SHUTDOWN_COMPLETE` of streams and
   connections frees contexts that the stream table, pending events and capsules
   in Python still name. Property: no step uses a freed context; expected to fail,
   so also the exact condition under which it holds. With it the missing
   disconnect event for ASGI.
2. **Bodies**, once the header loop of the parser has a body.

Runs are kept few; where a new component composes with an existing one it joins
that run.

## 8. Running it

```
tlc -workers 2 -config PipelineCore.cfg MCPipeline   # likewise the other .cfg files
tlapm PipelineProofs.tla                             # likewise the other *Proofs
```

A run of `PROJECT.json` with `expect: violation` ends with the counterexample of
its finding. `request_core` and `quic_core` are the longest, about two minutes each; `RequestProofs`
takes tlapm about ten minutes, `MatcherProofs` six.
