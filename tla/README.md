# BeastHttp in TLA+

BeastHttp is a header-only C++ library on top of Boost.Asio and Boost.Beast: a
router that binds regular expressions to callbacks, and a *reactor* that accepts
connections, reads requests, dispatches them to the router and writes the
responses user code produces. This directory holds its specifications, their
TLC configurations, and theorems about them with proofs for TLAPS. Paths below
are relative to `BeastHttp/include/http/`.

## Inventory

| Component | State it keeps | Operations | Hard parts |
|---|---|---|---|
| Plain session, `reactor/session.hxx` | socket, buffer, one `parser_`, one `serializer_`, queue, timer, callbacks | factories `make recv send wait`, context calls `recv send push wait timer_cancel eof cls`, handlers `on_read on_write on_timer` | order of completions, two places that resume reading, cancelled waits that still fire, failures that leave work behind, lifetime |
| Context, `reactor/session.hxx` | a shared (or weak) pointer to the session | `dispatch` of every call to the strand | calls from other threads, at any time |
| Response queue, `base/queue.hxx` | the responses not yet reported written | `is_full`, `on_write`, `operator()` | never refuses; erases the head on trust |
| Timer, connection, strand, `base/`, `common/` | expiry and waits; open/closed socket and its halves | `async_wait cancel`, `shutdown close`, asynchronous I/O | operations that complete after a cancel or a close |
| TLS session, `reactor/ssl/session.hxx` | the same plus `eof_` and the handshake | `handshake`, asynchronous `eof`, `force_eof`, `force_cls`, `on_handshake on_shutdown` | shutdown never forced, repeated shutdowns, `is_open()` true on a closed socket |
| Listener, `reactor/listener.hxx` | acceptor, endpoint | `launch`, accept loop | loop after errors, posted accepts |
| Detection, `common/detect.hxx` | socket, buffer, coroutine state | `async`, `sync` | input that arrives in pieces, silent clients |
| Router, `base/router.hxx`, `basic_router.hxx`, `chain_router.hxx` | method and resource maps behind a reader/writer lock, pending regex | verbs, `all`, `use`, `route`, `param` | locks taken inside locks, maps created late, moved-from storage, pasted expressions |
| Request processor and iterator, `base/request_processor.hxx`, `base/cb.hxx` | iterator position, remaining target | `provide`, `operator++`, `operator()` | several matching routes, target rewritten while it is matched |
| Parameters, `param.hxx` | one block per route, shared by all sessions: captures, position in the expression | wrapping of callbacks, captures, conversion | state that outlives a request, arity, conversion failures |
| Literals, output, display, traits, configuration | - | - | none at run time |

A listener hands each accepted socket to user code, which detects TLS or not and
starts a session. A session owns everything it needs through one shared pointer
that each outstanding operation and each context holds. It shares only the
router's maps and their mutex with other sessions: a request is dispatched under
the shared lock. A route's callback receives a context and answers through it,
now or later, from the session's strand or from another thread.

What makes each correct: *session* - one read and one write at a time, responses
whole, in order, once; back-pressure that ends; deadlines that close; no leak of a
closed session. *Listener* - it goes on accepting until it cannot, each socket
handed over once, in order. *Detection* - one verdict, equal to that of a test on the whole
input. *Router* - what is registered is found, registration and dispatch exclude each
other and never wait for each other for ever. *Dispatch* - each callback of the chain
sees its segment of the target. *Parameters* - a callback gets those of its own
request. *Server* - every connection has one owner, and a session fits its client.

## Plan

| Module | Models | Uses |
|---|---|---|
| `ResponsePipe` | what a peer sees of a session's responses (abstract) | |
| `Session`, `MCSession`, `SessionProofs`, `SessionPipeProofs` | the plain session | implements `ResponsePipe` |
| `SslSession`, `MCSslSession`, `SslProofs` | the TLS session | extends `Session` |
| `RouteTable` | what a router promises (abstract) | |
| `Router`, `MCRouter`, `RouterProofs` | registration, mounts, the lock, dispatch by concurrent sessions | implements `RouteTable` |
| `Dispatch` | one dispatch: matching and the callback iterator | |
| `Param`, `MCParam`, `ParamProofs` | path parameters and their shared block | extends `Dispatch` |
| `Endpoints` | the connections of a server, common to the next three | |
| `Detect`, `MCDetect`, `DetectProofs` | protocol detection | extends `Endpoints` |
| `Listener`, `ListenerProofs` | the accept loop | extends `Endpoints` |
| `Server`, `MCServer`, `ServerProofs` | the `reactor_flex` example up to the start of a session | extends `Listener` and `Detect` |

All of it is written, and every safety property that a passing run checks is also
proved. What TLC alone shows is that things happen in the end (see Proofs).

## `Session`: one plain connection

All handlers of a session run on its strand, so a handler is one action
(`on_read_*`, `on_write_*`, `on_timer_*`, named after the member function and the
branch taken). Only user callbacks are split: `strand` says that a route handler
or `on_timer` is running, every call it makes on its context is an action
(`context_*`), and it ends with `do_process_request_resume` or `on_timer_return`.
A call from another thread (`"detached"`) needs a context somebody kept and runs
when the strand is idle, which is when `dispatch` would run it. The factories
(`session_*`) start the session; the context they return counts as kept.

| Model | Code |
|---|---|
| `phase`, `kept` | the shared pointers to the flesh: outstanding operations and kept contexts; the destructor closes the socket |
| `sock`, `shut` | the socket's `is_open()` and the halves shut down |
| `reads`, `writes` | asynchronous operations whose handler has not run |
| `queue`, `serializer` | `queue_.items_`, `serializer_` |
| `armed`, `stale`, `expiry` | the wait the current expiry will complete, waits cancelled by a later `expires_*` whose handler still runs, and the expiry against the clock |
| `served`, `credit` | requests dispatched; responses the running callback may still produce |
| `sent`, `wire`, `ended`, `late` | history for the properties |

Abstractions. A response is its number, the request it answers and whether it
ends the connection (`need_eof()`). Bytes, headers, buffers and the wording of errors are left
out. A read may yield a request, an end of stream or an error whatever the socket
is, because a complete request may already sit in the buffer. A write succeeds
only if it started on a socket that could send, and may fail always. `on_error`
callbacks only observe. The clock is three values, enough because the code only
asks whether the expiry has passed. The deadline and time point overloads do the
same and are one action with a flag.

Left out: exceptions thrown by user code; the static `eof` and `cls` on a bare
socket; replacing `on_timer` or `on_error` of a live session; weak contexts; the
branch of `on_timer` for errors other than a cancelled wait, which asio's timer
does not report. Once two reads are outstanding the code's behaviour is undefined
(`parser_` is replaced under the first); the model only goes on counting them, and
no property speaks of what follows.

### Properties and runs

`session_pipeline` - the examples' usage (`OneAnswerPerRequest`): the route answers
at most once, on the spot, and may set a deadline or close. `OneReader`: never two
reads on the one parser. `QueueBounded`: the queue, which refuses nothing, stays
within its limit. `NeverStalled`: between handlers an open, unbroken session is
reading or has a full queue with a write outstanding, never neither, never both.
`LateRequestsBounded`: at most two requests are dispatched after the socket was
closed (two do occur: a read in progress, and the read `on_write` starts without
looking at the socket). `DeadlineCloses` (liveness): the default action of the timer.
Limit 2 with five requests fills the queue, drains it and fills it again; two waits
suffice for a cancelled wait and its successor.

`session_callbacks` - two responses per request and an `on_timer` callback that
answers, waits again, half-closes and closes: `InRequestOrder` (of responses
produced on the strand; another thread may answer an old request at any time),
and `EveryResponseSettled`. Limit 2 is exceeded with three responses.

`session_events` - server-sent events: `push` past the queue from `on_timer` and from
another thread, which also starts reads, cancels waits and closes, in sessions that wait
again and again, also without a deadline (`wait()`). `ClosedIsReleased`: nothing keeps a closed
session alive for ever but a wait without a deadline (`Held`), which only user code ends. For
that reason the run does not check for deadlock.

`OneWriter` (the assertion in `queue::on_write`), `SerializerOwned` and `ImplementsPipe` speak of
the plain session's definitions, most of which the TLS session uses as they are; the run
that checks them is `ssl_busy`, whose other threads overfill the queue. They are proved of
both sessions.

`ImplementsPipe` is refinement of `ResponsePipe`, which says what a peer sees:
responses one at a time in the order of production, each once, none after the pipe
broke. The session's pipe is broken when its queue holds a response that no write
carries. A session that mixes `push` with `send` is outside it, as it is outside
`SerializerOwned`: `push` writes at once, so that an event overtakes the responses in the queue,
and replaces the serializer that the outstanding write refers to. What that write sends
then is undefined, and no run or theorem speaks of it; nothing in the code prevents it
(`examples/reactor_sse` calls both on one session).

## `SslSession`: one TLS connection

`reactor/ssl/impl/session.hxx` repeats the plain session line by line except for
what follows, so `SslSession` extends `Session`, adds three variables and names each of
its own actions: `ssl_recv` is `context_recv` with the new variables unchanged, and
only the actions that differ are written out. (`Session` therefore knows the place
`"handshake"` and the calls `force_eof` and `force_cls`, which no plain run uses.)

| Model | Code |
|---|---|
| `tls` | the handshake: not begun, in progress, established, failed |
| `eof_` | `eof_` |
| `shutdowns` | `async_shutdown`s whose `on_shutdown` has not run |
| `ssl_is_open` | `ssl_stream::is_open()`, which asks whether the stream was moved from, not whether its socket is open: true throughout |

What that means: a TLS session never closes its socket itself. End of stream, a
response that ends the connection, the deadline and `eof()` start a shutdown,
which sends the close_notify (nothing can be written afterwards, `shut`) and waits
for the peer's; `do_eof` does so however many are under way; `on_shutdown` closes
nothing. After `force_cls` `on_timer` still calls user code, and reading still
resumes. A write may succeed before the handshake is over: the model allows what
the TLS library would refuse, and the properties hold all the same.

`ssl_pipeline` - the examples' usage, with deadlines, `force_cls` and an event pushed
from `on_handshake`: `SslReaderBounded` (one read, queue within its limit),
`SslNeverStalled`, `ShutdownsBounded`: at most three shutdowns on one stream at a time
(the deadline's, and one for each direction that ends; three do occur). Liveness: a
deadline that passes starts a shutdown (`DeadlineShutsDown`), and after `force_cls` the
session is released (`ForcedCloseReleases`). The premise of the last excludes `wait()` without a
deadline and an `on_timer` callback that sets the timer again, which on a closed TLS
session goes on for ever: unlike the plain session's, its `on_timer` is called whatever
became of the socket.

`ssl_busy` - `OneWriter`, `SerializerOwned`, `ImplementsPipe` with contexts used by
another thread from before the handshake on, `eof()`, `force_eof` and `force_cls` among the
sends. One request is enough, since any number of contexts may answer for it; Limit 1 with
three responses overfills the queue. It does not check for deadlock, as `session_events`.

`ssl_deadline` finds `DeadlineClosesSsl` violated. `README.MD:17` gives closing the
connection as the timer's default action. On a TLS session it starts a shutdown
and, once one was started, does nothing: with a peer that is silent the handshake or
the read and the shutdown stay pending and the socket open, deadline or not.

## `Router`: registration, mounts and concurrent dispatch

Threads call the router's interface (`verb`, `all`, `route`, `chain_verb`, `chain_all`,
`use_call`), and sessions dispatch (`process_request`). Every operation is cut at its
locks and at each access to the maps, so that what the lock keeps apart is a
result and not a premise: `add_lock`, `add_insert` (`insert` of the map of a method),
`add_emplace`, `add_return`; `use_lock`, one `use_next` for each route, `use_return`;
`process_lock`, `provide`, `execute` and `handler_return` for each callback,
`process_return`.

| Model | Code |
|---|---|
| `resource_map`, `method_map` | `resource_map_`, `method_map_`: `nullptr` until the first route needs them |
| `tmp_res_regex`, `node` | `tmp_res_regex_` of a chain router; the chain node a thread holds |
| `mutex` | `mutex_`: its writer and its readers |
| `adding`, `job`; `source`, `target_router`, `todo`; `dispatching`, `asked`, `plan` | where each thread is in `add_resource_cb`, in `use` and in `do_process_request` |
| `built` | number of storages built; a storage is the number of the registration that made it, 0 when moved from |

An expression is a sequence of tokens (`^`, `$`, `.*`, path segments) and a target
one of segments; `match` and `concat` do on tokens what the code does on characters.
The verbs differ only in the method, so they are one action. `use` says
`*value.second`, which a storage does not have: it does not compile when it is
instantiated, and is taken to copy the storage, as it evidently means.

`router_threads` - two threads that register, chain and mount, one of which also
runs a session. `ImplementsTable`: refinement of `RouteTable`, in which a registration
replaces one key at one instant and a request is answered by what one instant's
table holds. The code's two lookups, lazily made maps and copies of mounted routes
must not show. `RegistrationAlone`: a thread that changes a router's maps is alone with
them. `RegistersWhatWasMeant`: a route mounted under a prefix answers that prefix followed
by its own targets, anchored or not; a chained one its own path, as long as one thread
chains. `RegistrationReturns` and `DispatchReturns`: registrations, mounts and requests
end. Mounts form no cycle here; a router mounted on itself waits for itself, and so may two
mounted on each other. The mutex makes new readers wait behind a writer
(`WriterBlocks`), as `boost::shared_mutex` does; `std::shared_mutex` need not, and there
sessions that hold the lock in turns can keep a registration out.

`router_twice` finds `StorageNeverEmpty` violated: a path registered a second time is
assigned a storage that `emplace` has already moved from (`EmplaceMoves`; libstdc++
does, an implementation may do either).

What the runs leave out: a route handler that registers a route (`HandlersRegister`) waits
for the lock its own session holds, for ever, although `README.MD:19` promises a "Simple
way to dynamic add REST resources"; a mount without a prefix, which pastes an empty
expression to another.

## `Dispatch`: one request and the callbacks of its routes

`provide` goes through the routes of the method, in any order (the map is unordered),
and through those without a method if none matched. `begin_exec` makes the iterator;
`advance` is `operator++` of an iterator that the running callback has, or of a copy of it (what
`std::advance` and `std::next` repeat), and `call` is `operator()`, of the same iterator again or
of one that was never moved as well. `stack` holds the callbacks running, each with the target it
saw, the iterators it has and, as history, how often the one it was called with was advanced
(`due`) and how often the one that had cut the target last was (`cut`).

A target is a sequence of pieces, as `skip_target` cuts it. `request.target()` is
rewritten as iterators move, while `provide` goes on matching with a view of the old
text: `view` says whether it is still valid, and a match through one that is not may
come out either way.

`Dispatch` is run as a part of `Param`, which adds what the wrapped callbacks do.
`param_chain` checks `CallbackSeesItsSegment`. An iterator that was advanced n times leads to
the n-th callback (or the last), which sees the segment to which the iterator that moved
last has come. That is its own, the n-th (or the last), if its iterator did. It is not
if another has moved since: in `++it; it(); it();` the second call enters the same callback with
the target as the callbacks called by the first left it, and `it()` alone enters the running
callback again. Even then no callback sees a segment before that of a callback around it
which sees its own. `ProvidesMatchingOnly`: the routes executed are exactly those that should be.
Routes have one callback each, in any set of five, or there is one route with up to four
callbacks; each callback makes up to two calls.

Two routes of several callbacks that match one request are left out: the second
starts from what the first has left of the target, and what it is matched with is
a dangling view. (`src/tests/basic_router/main.cxx:103` expects the first segment of every
first callback; it has no two such routes.)

## `Param`: parameters and the block that outlives a request

`router.param<pack>()` wraps each callback of a route; the wrappers share a block that
lives as long as the route and holds how far the expression has been matched and
the captures so far. A wrapper holds the block's mutex while its callback runs, with
all that is called from there, so requests pass one after another and the model has
one at a time, as `Dispatch`. Registration comes first: `param_verb` on a
basic router (one block for each verb), `param_route` and `node_verb` on a chain router
(one block for all verbs of a node). `enter` is the body of `paramcb`'s two `operator()`s
up to the user callback (`process`, `arguments`), `param_return` the rest, `unwind` the way
out of a failed conversion.

`paramcb` is written out twelve times, once for each size of the pack, each time with
one branch for each number of captures. The model has `Count` in place of the size and
computes the branch (`converted`). Every definition of the wrapper translates all
twelve copies; the map names for each the copy where it can be read, among them the
twelfth, which differs: its `count` is 11 (`paramcb_count`).

`param_chain` - the routes of the tests and the README, conversions that fail, requests
one after another. `ArgumentsAreOwn`: a callback is given the captures of its own
request from the segments seen so far, defaults for the others, where the callbacks on
the way have each called one other, further along, with the iterator they moved last
(`OneWay`). One that calls a second time finds the block emptied by the last of the first
chain, and one that calls without moving has its segment captured twice.
`BlocksReset`: between requests the block is as it was made. All callbacks call on, but the last.

Outside of that usage the same property fails. `param_stopped` shows it for a callback
that does not call the next one: only the last one resets the block, and what it holds
are the first arguments of the next request, whichever session that comes from. Three
more ways are left out of the runs: a block that is not reset because `lexical_cast` throws
in a program that catches it and goes on (`Catches`); an expression with `^` and a callback for each
segment (`^` becomes a part of the split expression, and all callbacks but the last are
matched with the wrong part); and a pack of twelve types (`Count`), where with fewer captures than
twelve one too many is read.

## `Detect`: TLS or not

`do_async`, then `read_on` for each read that settles nothing and one of `detect_result` and
`detect_error`; `sync`, `sync_test`, `sync_read` for the blocking form. The bytes are those of
the record header, in full, since the test is about their values; `buffer` and `consumed` are
lengths. Clients send in any pieces, close and reset at any time.

`detect_verdict` - `VerdictIsRight`: the verdict on a prefix is that on the whole.
`ReadsNoMore`: no read once it is settled, an error only while it is not, and all that
was read is in the buffer. `DetectionEnds`, for clients that send nine bytes or end, unless
an assertion has ended the program.
`MCDetect` takes headers on both sides of every comparison of the algorithm.

The blocking form asserts `buffer.size() < 4` (`base/beast/detect_ssl.hpp:227`; "The algorithm
should never need more than 4 bytes", says the comment) after a test that is undecided with up to
eight bytes. With as many `sync_read` ends the program (`"aborted"`) or, when assertions are compiled
out, reads on: it may do either, so that what is shown of detections holds of both builds.
`OnlyCutHelloAborts`: what ends the program is always a client_hello cut after four to
eight bytes, never a client that speaks anything else, and never in the asynchronous form,
which asserts nothing. That file is included by nothing; it is the text of the Boost.Beast
algorithm that `base/impl/detect.hxx` does include, and is modelled as such.

## `Listener`: accepting

`loop` or `loop_error` (one of its steps fails), `async_accept` and its error as the system
completes them, `on_accept` on any thread, which posts to the strand and accepts again,
`on_spawn_connect` and `on_spawn_error` on the strand. A signal or `on_error` may stop the
io_context.

It is run as a part of `Server`. `OneAccept`: while listening there is an accept
outstanding or one completed that starts the next, never two. `InAcceptOrder`: what was
accepted is what was handed over, followed by what is posted, followed by what has completed.

## `Server`: `reactor_flex`

`on_accept` starts a detection and returns; `on_detect` starts a session with the socket
and the detector's buffer. Listener and detections take their steps in any order.
`onAccept_throws`: `remote_endpoint()` throws if the client has reset the connection by
then, which ends the program.

`server_flex` - `SessionFitsClient`: the session is TLS exactly if the client is, and its
buffer holds exactly what was read from the socket. `OneOwner`: listener, detection
and session never have a connection at the same time. `EveryClientAnswered`: a client
that sends enough, or ends, is answered though others stay silent, unless the program
ended. Two clients, one read boundary (`Cuts`) and one failed accept, which puts an error
between two connections. What the sessions
then do is the subject of `Session` and `SslSession`.

### Bounds

`MaxRequests`, `MaxResponses`, `MaxWaits`, `MaxReads` and `MaxShutdowns` bound the
environment of a session (requests from the peer, responses, outstanding waits, and reads and
shutdowns started by user code); the handlers themselves are not bounded. `Limit` is 16 in the code and 1 or 2 here: the
logic compares a length with it, once before and once after a change by one, so
that empty, below, at and above the limit are all reached.

`MaxRegistrations` bounds the storages built: two are a route and another of the same
or a different key, and each can be mounted. `MaxCalls` (calls a callback makes), `MaxSteps`
(how often an iterator is advanced: from the first callback to the last of four and once past it), `MaxDepth` (callbacks running at once
when one enters itself: two show what a second entry sees) and `MaxArgs` (captures in a block,
above what any request of the runs captures) bound user callbacks. `Cuts` are the lengths at
which reads may end: all of them in `MCDetect`, one inside the header in `MCServer`, where
the verdict is not the question. `MaxErrors` bounds failed accepts. No symmetry is used.

### Fairness

`FairSpec` of a session assumes what the io_context and the operating system give: handlers that
are due run, user callbacks return, contexts are dropped in the end, time passes,
and every asynchronous write ends in success or failure (strong fairness: its handler
is queued on the strand, and callbacks that come again and again do not keep it out). A read may wait for the
peer for ever: it is only assumed to end once the socket is closed or its receiving
half is shut. `SslFairSpec` assumes the same of a handshake and of a shutdown: they
may wait for the peer for ever and end once the socket is closed. Nothing is
assumed of what user code calls.

`Router`: a thread in the middle of an operation goes on, and one that waits for a
lock that becomes free again and again gets it (strong fairness): mutexes do not
starve one thread for ever. Nothing makes a thread begin an operation.

`Detect`, `Listener`, `Server`: what has completed is taken up by a thread (weak fairness of
each handler), an accept completes when there is a connection, user callbacks return.
Nothing is assumed of clients, nor of the success of an accept.

## Proofs

For every value of the constants that meets their named assumptions, and of what a
theorem names as its hypotheses, listed below. Each inductive invariant has a lemma
for each group of actions it takes work to check, and a theorem that combines them.
Only constants are bounded: `Limit`, the number of requests, responses, waits, threads,
routers, mounts, routes, callbacks, connections and errors are arbitrary.

The hypotheses, and what happens without them:

| Hypothesis | Says | Without it |
|---|---|---|
| `PushesOrQueues` | user code does not mix `push` with `send` (see `Session`) | `push` overtakes the queue |
| `NothingLost`, at all times | `emplace` leaves an argument it does not insert alone, or no route is registered twice | `router_twice` |
| `NullIsNoMap` | a null pointer is not a map | says nothing of the program: TLA+ does not tell a string from a function |
| `PathsAreStraight`, `PrefixesAreLiteral` | paths have both anchors or none, prefixes no `.*` | a pasted expression has an anchor in the middle, which matches nothing, or a `.*` that takes more than the prefix |
| `SoleChains` | a route of several callbacks is alone in its map | other routes are matched with a dangling view (see `Dispatch`) |
| `ChainsFit` | a chain has no `^`; more callbacks than pieces only if the last piece is no capture; the pieces the last callback may come to are captures all or none | a piece is captured twice, by the wrong callback or not at all (see `Param`) |
| `~MayStop`, `~Catches` | a callback calls the next one; a failed conversion ends the program | `param_stopped`; the block is not reset |
| `Count # 12` | the pack has not twelve types | one capture too many is read |

`MCParam` has TLC evaluate `SoleChains` and `ChainsFit` for the routes of `param_chain`
(`UsageAssumption`), which are those of the tests and the README. The theorems that need
only some of these state only those.

`SessionProofs`: `TypeCorrect` and `OneWriterHolds`, from `WriterInv`, type
correctness with `OneWriter`. A write starts only on an empty queue, where by the
invariant none is outstanding, or when the only one completes and its response
leaves the queue. Everything said of sessions builds on it:

- `OneReaderHolds`, `QueueBoundedHolds`, from `ReaderInv`. `OneReader` alone is not
  inductive: while a request is being handled nothing is read and the queue has
  room for the response still allowed (`Len(queue) + credit <= Limit`), and a read is
  outstanding only below the limit, so the write that finds the queue full starts
  the only one.
- `NeverStalledHolds`, from `StallInv`: while the session is open and unbroken a
  response in the queue means a write is outstanding, so a full queue always has the
  write that will resume reading, and a queue that is not full has a reader.
- `LateRequestsBoundedHolds`, from `LateInv`: once the socket is closed, the requests
  already dispatched late, the read outstanding and the write that will still
  start one never exceed two. A write started after the close cannot succeed
  (`live`), so it resumes nothing; `UnbornInv` says a closed session was once started.

`SessionPipeProofs`:

- `SessionImplementsPipe`: the initial states and every step map to `ResponsePipe`.
  `PipeInv` says that `wire` is a beginning of `sent` and that, while the pipe is
  `whole`, the rest of `sent` is the queue; the response written next is then the
  one the abstract pipe expects. `ResponseSteps` reduces the next-state relation to
  the few kinds of step that touch responses.
- `SerializerOwnedHolds`, from the same invariant.
- `InRequestOrderHolds`, from `OrderInv`: what the strand produces answers the latest
  request, so `sent` is in the order of the requests, and `wire` is a beginning of it.

`SslProofs`, on the lemmas of the other two where an action is the plain
session's:

- `SslTypeCorrect`, `SslOneWriterHolds`, from `WriterInv` and the types of the new variables.
- `SslImplementsPipe`, `SslSerializerOwnedHolds`: `SslResponseSteps` shows that every
  step either leaves the responses alone or does to them what a plain step does.
- `SslReaderBoundedHolds`, `SslNeverStalledHolds`, from `ssl_back_pressure`: before
  `on_handshake` nothing is read, queued or served; afterwards the plain argument
  holds without looking at the socket. `write_end` says that the write direction ended
  exactly where the queue was left without a write.
- `ShutdownsBoundedHolds`, from `shutdowns_marked`: each shutdown under way is accounted
  for by the end of the read direction, the end of the write direction or `eof_`,
  each of which happens once.

`RouterProofs`:

- `RouterTypeCorrect`, `RegistrationAloneHolds`. `RegistrationAlone` follows from what
  the lock guarantees only if each thread holds the lock it should, so the invariant
  says which locks a thread holds where it is (`AddInv`, `UseInv`, `DispatchInv`) and that
  a router with a writer has no readers (`LockInv`). Two facts carry it: a thread that
  mounts does not dispatch, so releasing the one read lock never gives up the other's;
  and the maps a registration is about to fill are left alone until it has (`Ready`).
  `ConcatType` shows that pasted expressions are expressions. (`Names` is a set of segments
  beside the three other tokens, as the prover knows nothing of strings.)
- `RouterImplementsTable`: the initial states and every step map to `RouteTable`. `TableInv`
  is the reader's half of the lock: what a session has planned to call and has not
  called yet is still in the maps of the router it reads, since nothing registers there
  meanwhile. An `emplace` is a registration of the table, a `provide` an answer, an
  `execute` one call of it, and every other step leaves the table alone, `insert` of an
  empty map included.
- `StorageNeverEmptyHolds`, under `NothingLost`: the moved-from storage of `router_twice` is the
  only way to an empty one.
- `RegistersWhatWasMeantHolds`, from `MeantInv`: the expressions in the maps, in a chain router's
  pending expression and on their way through a mount stay straight, so `MountedMeans`
  (with `TakesBoth`, on matching a sequence of segments by two expressions in turn)
  applies to a mount of what was itself mounted, to any depth.

Route handlers that register, cyclic mounts and a mutex of either kind are all included.

`DetectProofs`: `DetectTypeCorrect`, `VerdictIsRightHolds`, `ReadsNoMoreHolds`. `EarlyVerdict` and
`Verdicts` are about the algorithm alone: whatever a prefix decides, the whole decides
the same way, for every sequence of bytes. `Sound` says of each connection that it is
undecided while it reads, and of one that is over where its result came from.
`OnlyCutHelloAbortsHolds`, from `AbortInv`: once the assertion has failed every detection is
over, so that nothing more is read. `Undecides` says what four undecided bytes or more look like.

`ListenerProofs`: `ListenerTypeCorrect`, `OneAcceptHolds`; the two together are inductive.
`InAcceptOrderHolds`, from `OrderInv`: what was accepted is what was handed over, followed by
a sequence `q` of connections that the strand and the completed accept list in this
order (`Posted`), and no connection is accepted twice.

`ServerProofs`: every step of the server is a step of the listener or of one detection,
or leaves it alone, so the invariants of both carry over. `Owned` adds who has a
connection: `ServerTypeCorrect`, `OneOwnerHolds` (a callback that was given a connection has
not started its detection yet; a session is made where a detection is over),
`SessionFitsClientHolds` (with `VerdictIsRight`), and `ServerAcceptsInOrder`, the two theorems of the listener for
the composition that `server_flex` runs.

`ParamProofs`, about `Dispatch` and `Param` together:

- `CallbackSeesItsSegmentHolds`, from `FramesInv` and `MovesInv`. An iterator advanced n times has
  cut n pieces off the target that the request came with, whatever `request.target()` is by
  now; that is the piece to which the iterator that moved last (`cut`) has come; and a callback
  that sees its own segment was entered when no other iterator had moved since, so that from
  there on the target is that segment or a later one.
- `ProvidesMatchingOnlyHolds`, from `ProvideInv`: what was executed are the matching entries of the
  map but those left, and as long as entries are left the view is valid. `SoleChains`
  is what makes it so.
- `BlocksResetHolds`, from `ResetInv`: the callbacks that run are of one route, only its block
  may hold anything, and once one that a running callback called has returned, not
  even that.
- `ParamTypeCorrect`, from the types of a block: `rp_iter_` points at a part of the expression,
  because it moves with an iterator that stops at the last callback.
- `ArgumentsAreOwnHolds`, from `ArgInv`: as long as the callbacks down to a running one have each
  called one other further along with the iterator moved last (`OneWayTo`), it was given
  the captures of the pieces they see, and the block is where the innermost has left it.
  Calling the next callback then adds one capture or none (`AtOneMore`, `CaptureOne`).

Only model-checked: the liveness properties, which are out of the prover's reach
(`DeadlineCloses`, `EveryResponseSettled`, `ClosedIsReleased`, `DeadlineShutsDown`,
`ForcedCloseReleases`, `RegistrationReturns`, `DispatchReturns`, `DetectionEnds`,
`EveryClientAnswered`), and the three runs that find a statement violated.

## Not modelled

- What does not compile when it is used, so that no program has the behaviour: the
  detections with a deadline (they bind the address of the overloaded `do_async_2`) and
  so the detector's timer; the TLS handshakes with a deadline (they bind it to a member
  function that takes none); `load()` of a weak context. (`use()` is the one exception,
  as its intention is plain.)
- The static `eof`, `cls`, `force_eof` and `force_cls` on a socket no session owns, and the
  member, set and get functions that replace the callbacks of a live session (from
  within `on_timer`, the callable that is running) or read its socket.
- Iterators and contexts of a request used after the objects they refer to are gone.
- Several threads that chain on one router: `tmp_res_regex_` has no lock.
- The TLS library and the vendored `ssl_stream.hpp`, beyond what a session relies on;
  Boost itself, which appears only through what the components rely on.
- `literals.hxx`, `out.hxx`, `display.hxx`, `traits.hxx`, the configuration headers:
  formatting and metaprogramming without state. Of the examples only `reactor_flex`
  is composed; the others say what user code calls.
