# Formal verification of RESTinio

TLA+ models of RESTinio (`src/dev/restinio`), a header-only C++ HTTP and
WebSocket server: what is modelled, what TLC checks on small instances, and what
TLAPS proves for all of them.

## 1. The system

A server runs an asio `io_context` on one thread or on a pool. An **acceptor**
keeps several `async_accept()` operations pending and creates a **connection**
for every client. A connection reads requests, possibly several that arrive
together (pipelining), calls the user's **request handler**, and writes the
responses in the order of the requests, although handlers may answer later, in
parts, from other threads, and out of order. The **response coordinator** puts
them in order; the **write group output** turns a group of buffers and files
into socket operations. Each part of a response may carry a *notificator*, a
callback told how the write ended. Timers limit every step. A request may ask
for an **upgrade**, after which the socket belongs to a **WebSocket connection**.
Routers, parsers, header fields, and body transforms are pure code used by
handlers.

| Part | State | Operations | Hard behaviours |
|---|---|---|---|
| Response coordinator (`impl/response_coordinator.hpp`) | ring of contexts, first index, count, id counter, closed flag | register, append, pop, reset | slot reuse, lookup by id, merging, notificators on every path |
| Write group output (`impl/write_group_output_ctx.hpp`) | current group, next item | start, extract operation, finish, fail, reset | files between buffers, iov limit |
| HTTP connection (`impl/connection.hpp`) | socket, parser, buffer, upgrade stage, coordinator, output, timer | read, parse, handle, upgrade, write, timeout, close | re-entrant calls, late completions, exceptions, timeouts |
| Acceptor (`impl/acceptor.hpp`) | listening socket, socket pool | open, accept, create, close | accepts on several threads |
| Server, pool, run() (`http_server.hpp`, `impl/ioctx_on_thread_pool.hpp`, `http_server_run.hpp`) | running state, cleanup functor, pool status | open, close, shutdown, start, stop, wait | stop before start, close on two threads |
| WebSocket (`websocket/`) | read and write states, one-shot actions, deadlines, validator | read frame, write, close, kill | close handshake, fragmentation |
| Message builders | parts of a response | append, flush, done | several output kinds |
| Header fields, parser callbacks | fields, the name being read | set, append, look up | a request spread over reads |
| easy_parser, field parsers, routers, URI, encodings, multipart | mostly none | pure functions | numeric limits, backtracking, decoding in place |

`PROJECT.json` lists every part with its status, and the hazards by line.

## 2. Modules

| Module | Models |
|---|---|
| `PipelinedResponses` | abstract specification: a FIFO of responses of which only the oldest may be emitted |
| `ResponseContexts` | operators for `response_context_t`, the table and the coordinator |
| `ResponseCoordinator` | the coordinator as a state machine, its invariants, its refinement of `PipelinedResponses` |
| `ResponseCoordinatorProofs`, `PipelineProofs`, `DeliveryProofs` | theorems about it: ring, lookup and notificators; refinement; output |
| `WriteGroupOutput` | operators for `write_group_output_ctx_t` |
| `HttpConnection` | `connection_t`, composed of `ResponseContexts` and `WriteGroupOutput` |
| `HttpServer` | `run()` on a thread pool, `http_server_t`, `acceptor_t` |
| `HttpServerProofs`, `AcceptorProofs` | theorems about it: opening, closing and errors; sockets |
| `WsParser`, `Utf8Checker`, `WsProtocolValidator` | operators for `ws_parser_t`, `utf8_checker_t` and `ws_protocol_validator_t` |
| `WsFrames` | frames of a peer that arrive in pieces at the parser and the validator |
| `WsConnection` | `ws_connection_t` and the handle `ws_t`, composed of `WsProtocolValidator` and `WriteGroupOutput` |
| `WsConnectionProofs`, `WsStackProofs`, `WsOutputProofs` | theorems about it: types, nesting of the handlers' calls, what is written |
| `EasyParser`, `IntegerAccumulator` | the parser combinators of `easy_parser` and the accumulator of their numbers |
| `HttpFieldBasics`, `HttpFields` | the parsers of `http_field_parsers/` |
| `PercentEncoding`, `QueryString`, `FromString`, `Base64`, `Sha1` | the codecs |
| `Path2Regex`, `Routers` | `path2regex`, the express router, the easy_parser router, method matchers |
| `HttpHeaders` | the container of header fields and the callbacks of the HTTP parser |
| `Multipart` | `multipart_body.hpp` and `file_upload.hpp` |
| `Texts` | the state machine that builds every text of a subject piece by piece |
| `HttpFieldTexts`, `CodecTexts`, `RouterTexts`, `MessageTexts` | reference definitions and properties of those texts |
| `MC*` | instances for TLC |

**ResponseCoordinator.** `coord` is the C++ object field by field: `ctx` is the
array of contexts, `first` and `exists` its indices, `counter` the next request
id modulo `ReqIdModulus`. `Register`, `Supply`, `Pop` and `Drop` are
`register_new_request()`, `append_response()`, `pop_ready_buffers()` and
`reset()`. The other variables are history. An item stands for a buffer, its
name tells the request and the part it belongs to.

**HttpConnection.** The handlers of a connection run one at a time on a strand,
but call each other and user code synchronously. A running handler is therefore
a *stack* of frames; a step executes the top frame and may push others, and a
`try` frame marks the block that ends in `close()`. Kernel completions, user
threads, the timer and the peer act in between. A message arrives in two
fragments, so reads end inside messages and pipelined requests share a buffer.
User code answers at once, later, in parts, never, throws, rejects, or upgrades.
Time is reduced to whether the current deadline has passed.

**HttpServer.** Each pool thread executes jobs of the `io_context`: those of
`open_async()`/`close_async()` come from a strand's queue, the others from the
common one. A job is cut where it reads or writes members that other threads
use; none of these is atomic. `close_impl()` is cut between `local_endpoint()`,
which throws for a closed acceptor, and `close()`; `call_cleanup_functor()` is
cut into the test of the functor, the two halves of its move constructor (copy,
clear), and the call. Both queues may be served in any order relative to each
other, which includes every order asio produces. `dead` means that the process
has ended: an exception left a `noexcept` function or a thread, or two copies of
one functor were destroyed. `overlap` records that two threads were inside
`call_cleanup_functor()` at once. A second `remote_endpoint()` inside the
IP-blocker is assumed to succeed as the first one did. Accesses that race are
interleaved; stale reads beyond that are not modelled.

**WsFrames and WsConnection.** `WsFrames` works on bytes: headers with every
form of the length, masked payloads, cut anywhere. `WsConnection` then takes a
header as one token and each payload byte as another, and uses the same
validator. Its handlers are stacks of frames like those of `HttpConnection`.
User code acts inside handlers, where its calls run at once, and outside, where
they are posted. The peer follows one of `PeerScripts`: in the run, a good or a
bad text and a close frame, a text cut inside a symbol, or a bad header. The
model starts where `upgrade()` leaves the connection.

**Pure code.** A parser is data, a clause or a producer of `easy_parser`; the
operators of `EasyParser` interpret it, with the position in the input and the
backtracking of the C++ objects. A field parser is then written as in the
source, clause by clause. Grammars that refer to themselves go through `Rules`;
producers and consumers that a client of `easy_parser` defines go through
`CustomTryParse` and `CustomConsume`. Codecs and routers are functions on
sequences of character codes. A route is a list of items, an expression the
tree that `path2regex` would write, `std::regex` a backtracking matcher
(external). `transform()` of SHA-1 is left open: the digest is the sequence of
blocks it is applied to. The `http_parser` library is external as well:
`ParserCallbacks` gives the calls it makes for a request in several reads.
`Texts` has the only state machine, which appends one piece at a time to a text;
each property compares what the code makes of the text with an independent
definition (a grammar, a definition by sets of positions, a numeral's value).

## 3. Runs

| Run | Question | Result |
|---|---|---|
| `response_coordinator` | 3 requests of up to 2 parts through 2 slots | lookup, slot reuse, order, completeness, notificators hold; the ring implements the FIFO |
| `http_pipelining` | pipelined, malformed and upgrade requests, all kinds of handlers, faults, timeouts | exclusive read buffer, one write at a time, order on the wire, requests served in order, every step guarded by a timer, reading never stalls, the connection ends, every notificator is eventually invoked (the last three up to an upgrade request, which stops the timer) |
| `http_streaming` | two responses in parts with notificators and files | order and one write at a time hold; notificators are told the truth, once |
| `http_server` | two threads, two clients, signal, shutdown, all faults | one accept per socket, no job outlives `run()`, errors of open are reported, one cleanup unless two calls of it overlap, closed and cleaned up when destroyed, shutdown returns, clients are settled |
| `ws_frames` | up to three frames in pieces of any size | headers and payloads are read as they were sent; messages are accepted exactly when well fragmented, text only when it is UTF-8 |
| `websocket` | a WebSocket from upgrade to destruction, both sides closing, errors, timeouts, `kill()`, loss of the handle | nothing follows a close frame, one result per message, closing is reported, silence after `close()`, a handle given up leads to destruction, a close frame is answered |
| `texts` | every text of up to 2 to 6 pieces for each of 29 subjects | fields, codecs, routes, requests, multipart bodies and uploads are read as the reference definitions say |

Five runs show a disagreement between the code and what a comment, assertion or
setting says of it (`findings` in `PROJECT.json` quotes both):

| Run | Shows |
|---|---|
| `http_upgrade_data` | `handle_upgrade_request()` is called again without request data |
| `http_upgrade_alone` | an upgrade is handled while a response is still being written |
| `http_server_open_error` | `pool.stop()` called before `start()` has set the status is ignored, and `run()` never returns |
| `field_numbers` | a number beyond the range of its type is accepted with another value |
| `request_reads` | the fields of a request that repeats a field depend on where its reads end |

**Observations** made while modelling, without a run of their own; the hazards
in `PROJECT.json` name the lines:

* `m_init_read_after_this_write` can resume reading a second time; a write can
  be left with the time limit of reading; the assertion in
  `init_write_if_necessary()` can fail; a socket whose accept failed is not used
  for accepting again.
* `call_cleanup_functor()` promises that a second call does nothing. This holds
  for calls one after the other. A `close_async()` on the strand and an
  `initiate_shutdown()` beside it may both pass the test and both call the
  functor, or one of them finds it empty and ends the process.
* `parse_integer()` takes the character `@` for a digit of value 240.
* After a failed write `m_next_writable_item_index` is kept; a WebSocket that is
  shut down then reports success for a queued message it has not written.
* A text message that ends inside a UTF-8 symbol starts the close handshake but
  no read; a control frame between two fragments that are cut inside a symbol
  makes a good text invalid.
* SHA-1 pads messages that leave 56 bytes in the last block wrongly (the
  WebSocket key, 60 bytes, is not concerned); a bearer token may be empty;
  relaxed queries accept a separator inside a name; `unescape()` throws for
  routes that do not match.

**Bounds.** Two slots and three requests make the ring wrap and reuse a slot;
two parts give merging and a final part without data. `ReqIdModulus` (16, or 8 for the coordinator alone)
exceeds the number of requests, so ids do not wrap in the runs.
One or two buffers per write (`MaxIovLen`) cut groups into several operations.
Two threads suffice for a race between two closers; two clients use one accept
socket twice. One message per side and four scripts of the peer reach every pair
of reasons to close, protocol errors included, though not an invalid close frame; `BufTokens` lets a read end inside a frame. Three frames
are a fragment, a control frame and the rest. Texts consist of pieces (`MCTexts`)
chosen for each subject so that every clause of its grammar, both sides of every
numeric limit (of 8- and 16-bit types) and the malformed neighbours occur.
`MaxBoundary` is 4 instead of 70, so that texts reach it; `MaxCaptureGroups` is 3,
as many as the routes have (`std::regex` sets no limit). Requests are read in three pieces cut anywhere, the middle one
of at most one character. Deadlock checking is off because connections and servers end.

**Fairness.** In `HttpConnection` strand work that is ready is executed, user
code called on the strand returns, the timer fires and time passes; nothing is
asked of the peer, of the kernel's completions or of user threads. In
`WsConnection` (`FairSpec`) the same holds; the two deadlines, once set and left
alone, are found to have passed, and the peer need not do anything. In
`HttpServer` (`FairSpec`) every thread is scheduled again; clients, signals and
failures are free. asio and the operating system's scheduler provide this.

Every property has a mutant in `PROJECT.json`: a plausible bug in a modelled
operation that TLC finds through that property. A property of a run may be the
conjunction of several that are stated one by one in the module (`OutputExact`,
`MultipartExact`...); then it has a mutant for each of them.

## 4. Proofs

| Theorem | Module | For every |
|---|---|---|
| `TypeCorrect`: the coordinator keeps its types | `ResponseCoordinatorProofs` | ring size, id width, number of requests and parts |
| `SlotsAreClean`: slots outside the queue hold no groups | " | " |
| `NoResponseIsStuck`: no context of the queue is final and empty | " | " |
| `NotificatorsAreConserved`: a notificator is in one place, invoked at most once | " | " |
| `LookupCorrect`: `get_by_req_id()` finds exactly the requests in progress | " | the same, if ids do not wrap (`MaxRequests <= ReqIdModulus`) |
| `CoordinatorRefinesPipeline`: `Spec => ImplementsPipeline` | `PipelineProofs` | as `TypeCorrect` |
| `OutputIsExact`: what leaves is what was appended, in order | `DeliveryProofs` | as `LookupCorrect` |
| `JobsAreOver`: no job runs after `run()` returned | `HttpServerProofs` | number of threads, sockets, clients; events and faults |
| `OpenErrorIsReported`: `run()` rethrows the exception of a failed open | " | " |
| `ServerIsClosedOnce`: one cleanup if calls do not overlap; a destroyed server is closed and was cleaned up | " | " |
| `SocketsAreExclusive`: one accept or handler per socket; types | `AcceptorProofs` | " |
| `NothingFollowsCloseFrame`: nothing is written after a close frame | `WsOutputProofs` | scripts of the peer, number of messages, size of reads |
| `OneOwner`: a write group belongs to the socket's write or to one frame of the running handler | " | " |

Assumptions, all named `ASSUME`s that TLC evaluates: ring size and id width are
positive, bounds are naturals, the marks for "no notificator" and "no group" are
not items or groups (`MaxReqAssumption`, `ReqIdModulusAssumption`,
`BoundsAssumption`, `NoNotifAssumption`, `NoGroupAssumption`); threads, sockets
and clients are finite sets (`HttpServerAssumption`); the peer's frames are
well-typed and at least two buffers fit into one write
(`WsConnectionAssumption`, `MaxIovLenAssumption`; `max_iov_len()` is 64 or what the system allows).

*Coordinator.* `IndInv == TypeOK /\ RingInv(coord)`, with
`RingInv == ClimbingIds /\ CleanFree /\ NoneStuck`. Clean slots alone are not
inductive: an append must hit a context **of the queue**, or it would put a group
into a free slot. This follows from `ClimbingIds`: from one context to the next
ids grow by at most one, so an id between those of front and back lies at a
distance smaller than the length of the queue. It holds across a wrap-around
too, when ids fall. `SlotInjective` and `SlotSurjective` carry facts between
positions and slots, an `...Effect` lemma states what each operation does slot
by slot, and a `...KeepsRing` lemma derives the invariant from it. For
`LookupCorrect`, `NumInv` adds that the ids in the queue are consecutive and end
before the counter. `Ctx` takes the contexts of the queue out of the ring, and
on them `NotificatorsAreConserved` adds `NotifInv`: the notificators of different
groups differ, and the given ones are those queued, handed out and invoked.

*Refinement.* `QueueOf` maps those contexts to the abstract queue; a lemma for each
operation says what it does to that queue, and merging groups is seen not to
change the flattened items. What `FlattenSeq` computes is proved with
`SetInduction`, induction for a set instead of a predicate, from the least
element of a well-founded relation. `OutputIsExact` adds `OutInv`: what was
emitted, followed by what the queue still holds, is increasing in requests and
parts, and its elements are the accepted items as long as none was dropped.

*Server.* `TypeInv` relates where a thread is to the job it executes. `JoinInv`
(threads are gone once `run()` has returned) gives `JobsAreOver`, and with
`ErrorInv` (a failed open is being reported or is) `OpenErrorIsReported`.
`OpenInv` says that there is one open job and that a closing thread has found it
over, so that nothing opens the acceptor behind it. `CleanupInv` says that a
server that was opened and does not run any more has lost its functor, and that
a lost functor was called or is about to be. `OnceInv` says what holds until two
threads meet in `call_cleanup_functor()`: one thread at most is inside, and the
functor is there until it clears it. `AcceptInv` says that a socket has one
pending accept or one handler, and none before the server is opened; for it,
lemmas about queues count the jobs of a socket.

*WebSocket.* A handler is a stack of frames, so the invariant says which frame
may stand above which (`StackInv`), and that the write group in progress belongs
to one of them or to the socket (`TokenInv`). `PipeInv` then follows the close
frame from the queue through the write to the wire: behind it in the queue is
nothing, `toPeer` has been used, and writing is forbidden or the frame that
forbids it stands on the stack. The last point is needed because the code
calls `init_write_if_necessary()` before it assigns `write_disabled`.

Only model-checked:

* liveness under fairness (`EventuallyClosed`, `EventuallyNotified`,
  `ShutdownReturns`, `ClientSettled`, `ClosingIsReported`, `QuietAfterClose`,
  `GivenUpIsDestroyed`, `PeerCloseIsAnswered`), which the prover does not handle;
* the safety of `HttpConnection`, and `NotifiedOnce` and `ValidatorReady` of
  `WsConnection`;
* `WsFrames` and everything about texts: recursive operators over the input.

## 5. Next proofs

`ReadBufferExclusive`, `StepsAreGuarded` and one write at a time for
`HttpConnection`, with an invariant on its stacks like the one of
`WsConnection`; `NotifiedOnce` of `WsConnection`.

## 6. Not modelled

* Third-party code (asio, the HTTP parser, regex engines, zlib, OpenSSL,
  SObjectizer) appears only through how RESTinio uses it. The zlib transforms,
  the TLS socket, the SObjectizer timer and the loops of sendfile are thin layers
  over such code, with no state of which something could be said without it.
* Text that is only written: status lines, chunk sizes, the header of a response,
  the 101 response, log messages, error descriptions. Tables of names (status
  codes, field ids, methods).
* Notices of the connection state listener; reopening a server;
  `on_pool_runner_t`, which repeats the start and stop that `run()` uses.
* The notation of a route as a string, `path_to_tuple`, storage of method
  matchers, the accessors of the field container that only look a field up.
* Time beyond the order of deadlines; numbers of more than 16 bits; the
  arithmetic of SHA-1 inside a block.
* Compile-time code, settings and loggers.
