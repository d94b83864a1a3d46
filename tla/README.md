# Formal models of the MCP TypeScript SDK

TLA+ models of the concurrent core of this repository, the TLC configurations that
check them on small instances, and TLAPS proofs of the most important properties.
Paths below are relative to the repository root.

## 1. The system

The SDK lets a *client* and a *server* exchange JSON-RPC messages (requests, answers,
notifications) over a *transport*: stdio, Streamable HTTP, or an in-memory pair. One
process is one JavaScript event loop, so a callback always runs to completion; the
difficulty is what happens between two callbacks, at every `await`, and in the microtasks
in between.

| Component | State it keeps | Operations | Modelled |
|---|---|---|---|
| `Protocol`, outbound requests (`packages/core-internal/src/shared/protocol.ts`) | `_responseHandlers`, `_progressHandlers`, `_timeoutInfo`, the timers, `_requestMessageId`, `_transport` | `connect`, `request`, `_onresponse`, `_onprogress`, `_resetTimeout`, `cancel`, `.finally()`, `_onclose` | `ProtocolRequests` |
| `Protocol`, inbound requests (same file) | `_requestHandlerAbortControllers`, the captured transport | `_onrequest`, `_oncancel`, the response chain, `_onclose` | `ProtocolHandlers` |
| `Protocol`, notifications | the debounce set | `notification` | planned |
| `serveStdio` (`packages/server/src/server/serveStdio.ts`) | the phase of the connection, the pinned instance, the queue, `pendingRequests` of each channel | `pump`, `processMessage`, `discardProbeInstance`, `connectInstance`, `closeAll`, `handle.close` | `ServeStdio` |
| `createMcpHandler` (`packages/server/src/server/createMcpHandler.ts`) | `inflight`, `closed` | `fetch`, `serveModern`, `close` | `McpHttpHandler` (modern leg) |
| `PerRequestHTTPServerTransport` (`perRequestTransport.ts`) | the deferred response, `_sse`, `_terminalDelivered`, the keep-alive timer | `handleMessage`, `send`, `close` | `McpHttpHandler` |
| listen routers and event bus (`listenRouter.ts`, `serverEventBus.ts`) | open subscriptions and their filters, bus listeners | `serve`, `cancel`, `teardown`, `closeAll`, `publish` | `ServeStdio`, `McpHttpHandler` |
| Streamable HTTP server transport (`packages/server/src/server/streamableHttp.ts`) | session id, stream mappings, collected responses, event store | POST, GET, DELETE, replay, `send`, `close` | `StreamableHTTPServer` |
| Streamable HTTP client transport (`packages/client/src/client/streamableHttp.ts`) | the abort controller, session id, last event id, reconnection timer | `send`, SSE reading, reconnection, `close`; 401/403 retries | `StreamableHTTP`; the retries in `ClientAuth` |
| Client (`packages/client/src/client/client.ts`, `versionNegotiation.ts`) | negotiated version, capabilities, open subscriptions, debounced refreshes | `connect`, probe, `listen`, `close`, the list calls, `_onclose` | `McpClient` |
| Response cache (`packages/client/src/client/responseCache.ts`) | entries, generations, two partitions | read, write, evict, reset | `ClientResponseCache` |
| Multi-round-trip requests (`inputRequiredDriver.ts`, `inputRequiredEngine.ts`, `packages/server/src/server/legacyInputRequiredShim.ts`) | the round, its dispatched requests and responses, the echoed state, the budget | the driver's loop, the shim's loop, the verify hook, re-entry of the handler | `MultiRoundTrip` |
| OAuth client (`packages/client/src/client/auth.ts`) | what the provider stores (tokens, registration, code verifier), the accumulated scope of the transport | `auth`, `finishAuth`, the retries after 401 and 403 | `ClientAuth` |
| stdio transports | write queue, child process | `send`, `close` | planned |
| Registries (`McpServer`), schemas, wire codecs, validators, URI templates, framework adapters, `server-legacy`, `codemod` | | | not modelled (section 8) |

How they interact. A `Client` or a `Server` is a `Protocol` connected to one transport at a
time; the transport calls `onmessage` and `onclose`, the Protocol calls `send` and `close`.
The two serving entries own the transport and put Protocol instances behind it: `serveStdio`
puts one instance after another behind a channel that shares the wire, `createMcpHandler`
makes an instance for each HTTP request. Subscriptions are answered by the entries
themselves, by-passing the instances.

What is hard, and what correct means there:

* **One promise, many enders** (`protocol.ts`). A request is ended by its answer, its timer,
  the caller's signal, a spent total, a failed send or a closing transport. Exactly one of them
  must win, the others must change nothing, nothing may be left behind, and the caller must
  not wait for ever. The same object is connected again and again; what belongs to the old
  connection must not touch the new one.
* **Ids chosen by the peer** (`protocol.ts`). Two connections number their requests alike. A
  handler left over from the first must not unregister the second's, answer for it, or take its
  cancellation.
* **The era decision on stdio** (`serveStdio.ts`). A probe instance may be discarded for a
  successor while it still owes answers; the same channel close means the end of the
  connection or the discard of a probe. Whatever is awaited, the connection may be gone
  afterwards.
* **One instance per HTTP request** (`createMcpHandler.ts`). Each of some ten exits has to
  release the instance, the response, the stream, its timer and its bus listener.
* **Resumption** (Streamable HTTP). Events are stored, replayed and written live by tasks
  that interleave; none may be lost or doubled.
* **One call, many rounds** (`inputRequiredDriver.ts`, `legacyInputRequiredShim.ts`). A handler that
  asks for input is re-entered until it is satisfied, by a loop that runs at the client in one era and at
  the server in the other. Each round asks several things at once; one may fail, time out or
  outlive the call.
* **Shared credentials** (`auth.ts`). Requests that were refused at the same time authorize at the same
  time, over one provider: each reads its tokens, works for several HTTP requests and stores or drops
  them. Every retry must end, and none may lose what another has won.
* **Stale writes** (response cache, debouncing). What was read before an `await` must not be
  written after an eviction or a reconnect.

`PROJECT.json` lists each hazard at its line, with the properties that cover it.

## 2. Modules

| Module | What it is |
|---|---|
| `ProtocolRequests` | the requester half of `Protocol` |
| `RequestLifecycle` | the abstract promise of `request()`: a request is answered by the peer it was sent to, or given up, or lost with its connection, once |
| `ProtocolRequestsRefinement` | the refinement mapping from the first to the second |
| `MCProtocolRequests` | instances of both for TLC |
| `ProtocolRequestsProofs` | theorems about `ProtocolRequests` and its refinement mapping |
| `ProtocolHandlers`, `MCProtocolHandlers` | the responder half of `Protocol`, and its instance |
| `ProtocolHandlersProofs` | theorems about `ProtocolHandlers` |
| `ServeStdio` | the stdio entry: pump, era decision, probe discard, teardown, listen router |
| `ServeStdioProofs` | theorems about `ServeStdio` |
| `McpHttpHandler` | the HTTP entry: `serveModern`, per-request transport, listen router, bus, `close` |
| `McpHttpHandlerProofs` | theorems about `McpHttpHandler` |
| `StreamDelivery` | the abstract promise of a session over Streamable HTTP: the server's messages are a log, each channel of the client reads each stream of it from left to right, no message twice, a response only on the channel of its POST; a JSON body has the responses of a batch in the order of its requests |
| `StreamableHTTPServer` | the server's transport: POST, GET, DELETE, the event store, the replay |
| `StreamableHTTP` | the client's transport, composed with the server's over a network that drops connections, and the refinement of `StreamDelivery` |
| `MCStreamableHTTP` | its instances for TLC: the deployments |
| `StreamableHTTPProofs` | theorems about the two transports together |
| `ClientResponseCache` | the response cache and the `list*()` calls it serves |
| `McpClient` | `Client`: `connect()` and its probe, `close()`, `listen()`, the debounced refresh, composed with the cache |
| `MCMcpClient` | its instances for TLC: the stores |
| `McpClientProofs` | theorems about `McpClient` and its cache |
| `InputRounds` | the abstract promise of a multi-round call: each entry of the handler gets the responses to what the last one asked and the state it returned, a bounded number of times, and only its last word is the result |
| `MultiRoundTrip` | the driver and the shim, the legs between them, and the refinement of `InputRounds` |
| `MCMultiRoundTrip` | its instances for TLC: the calls |
| `MultiRoundTripProofs` | theorems about `MultiRoundTrip` |
| `ClientAuth`, `MCClientAuth` | `auth()` and the retries of the client's transport over one provider, and its instances |
| `ClientAuthProofs` | theorems about `ClientAuth` |

Definitions named `Mut...` are faulty variants of the definition that follows them (a dropped
guard, an off-by-one, a forgotten reset). No action uses them; `PROJECT.json` says which
property notices each of them.

### ProtocolRequests

An action is one callback: `Connect`, `Request`, `SendDone`/`SendFails` (the transport's
promise), `Abort` (the caller's signal), `TimerFires`, `OnResponse`, `Decide` (the end of the
asynchronous validation or of the input-required driver), `ReadProgress` and `RunProgress` (a progress notification is read in one tick and handled a microtask later),
`Cleanup` (the `.finally()`), `CloseBegins` and `CloseEnds` (`_onclose` before and after the
application's `onclose` callback), and `Tick`.

`reading`, `progressDue` and `cleanupDue` say what is still to run in this turn of the event loop;
`Idle` and `Quiet` say when a macrotask or application code may run. `responseHandlers`,
`progressHandlers` and `timeoutInfo` are the key sets of the maps of the same names; `armed`
is what those maps do not show: the timers that really run.

Abstractions: a request's own `.finally()` runs before the continuations of the application
that awaits it. A read begins as a macrotask; in-tick delivery by `InMemoryTransport` is
a read of its own. A peer does not reuse an id it saw. A `close()` inside `onclose` is not
modelled. Refusals of `request()` before an id is allocated change no state and have no
action. `Overlap` and `Reentrant` choose whether `connect()` may be called while a transport
is attached and whether `onclose` may connect, request and abort.

### ProtocolHandlers

`OnRequest` is `_onrequest` with its refusals; `ReadCancel` and `OnCancel` split an inbound
cancellation at its microtask; `HandlerSettles` runs the response chain up to `send`, encoding
included; `SendSettles`, `Finally`, `CloseBegins`, `CloseEnds` are what they say. `captured` is
the transport `_onrequest` captured, `controllers` is `_requestHandlerAbortControllers`.

### ServeStdio

`at[m]` is where `processMessage` stands with a message: every value is one of its awaits, so
each action is one synchronous stretch. `PumpIdle` and `AtHead` are the sequential pump.
`Process...` actions are the branches of `processMessage`; `FactoryBuilds`, `FactoryFails`,
`Connected`, `DisposeLate` are `connectInstance`; `DiscardProbe`, `DrainTimesOut` and
`AfterDiscard` are `discardProbeInstance`; `CloseAll`, `Farewell`, `CloserGoesOn` and
`CloseAllContinues` are the teardown. Instances are named by the message they were built for.

Abstractions: `wire.send` settles. A listen without a claim on a pinned connection is not
modelled. Every subscription accepts every change (filters are modelled in
`McpHttpHandler`). The first farewell is a step of its own. An instance answers or
drops what it was given as `ProtocolHandlers` says.

### McpHttpHandler

`at[r]` is where `serveModern` stands with a request. `Fetch`, `Classified`, `FactoryBuilds`,
`FactoryFails`, `Checked`, `Dispatch` are its stretches; `HandlerSends`, `HandlerAnswers`,
`EndExchange` are the per-request transport (`EndExchange` is the `queueMicrotask` that
closes it); `ServeListen`, `Teardown`, `Publish` are the router and the bus.

Abstractions: the factory gives every request its own instance. The ladder of refusals
before the factory is one choice. The refusal in the dispatch window is the
JSON one. `ClientLeaves` aborts `request.signal` and cancels the stream in one step.
The chaining of an earlier `onclose`, and the removal of the abort listener of a request, are
left out, and so is the stateless legacy leg.

### StreamableHTTPServer and StreamableHTTP

An exchange is one HTTP request with its response. `exch[c].at` is where the server stands with
it: `asked`, then an await of its handler (`challenged`: the scope challenge, `priming`: the priming event is
being stored, `replaying`: the store is reading), then the response (`json`, which waits for its
results, `open`, `closing`) or `over`. `stream` is `_streamMapping`, `inflight` and `responded` are the keys of
`_requestToStreamMapping` and `_requestResponseMap`, `sending` holds the sends that await `storeEvent`. A
`DELETE` is `close()`, which is what it comes to once `onsessionclosed` has been awaited.

On the client a channel is what one `_handleSseStream` after another reads: the standalone channel and
one for each POST. `at[s]` is where it stands (posting, reading, waiting for the reconnection timer,
reconnecting, or at its end), `token` and `attempt` are the arguments of `_scheduleReconnection`, and `read` and
`past` are what reached `onmessage`. `Drop` breaks a connection under either side; the client notices at
once and the server when it likes, so a frame is lost when it is written in between.

With JSON responses the answers of a batch come in one body, in the order of its requests and not in the order they were sent:
`send` collects them in `_requestResponseMap` and, when it has all, goes through the ids of the POST
(`relatedIds`, server `streamableHttp.ts:1229` and `1277`), and the client dispatches the array from left to right
(`streamableHttp.ts:1169`). `Body` builds it so, with the requests numbered in the order their POSTs carry
them, and `StreamDelivery` promises no more.

A deployment (`setting`) says whether responses are JSON, whether there is an event store, whether it has
`getStreamIdForEventId`, whether the client is new enough for priming events, and whether it sends
batches.

Abstractions: the session is past its handshake (session id, protocol version and headers were
checked). 401, 403 and 405, expired event ids and the lengths of the back-off delays are left out. A batch is sent
where there is no event store. The store, which is the application's, records an event when `storeEvent` is
called, answers the calls in order, and hands out the place in `log` as the event's id. `PromptStore`
assumes that it has answered by the time a reconnection delay is over: otherwise a send that is
pending across two resumptions is written to the second of them although it was replayed there too
(`streamableHttp.ts:1222` looks only at the stream it finds). `strayed` marks the channels of POSTs that
reconnected without a token; `ResponseArrives` excuses them, because of the finding
`ResumesFromLastSeen`.

### McpClient and ClientResponseCache

A transport is connected once. `conn[t]` is where `connect()` stands with it, each value being an await, and
`link[t]` is the transport itself: `down`, `up`, `failed` (its start failed), `closing`, `gone`. `how[t]` is the form of
the call: `legacy` (attach, start, reset, initialize), `prior` (the era is known), `inplace` (the probe uses the
transport itself) and `sibling` (it starts a process of its own; `probed` is a sibling's legacy
verdict). `attached` is `Protocol._transport`; `negotiated` and `modern` stand for the version, capabilities and era that
`_resetConnectionState` takes away. `closers` are the transports a `Client.close()` awaits, `sub` is the state
machine of each `listen()`, `notes` are list_changed notifications on their way, and `timer` is the debounced
refresh. `told` and `left` are not in the code: the newest version a server announced, and the connections that
the application gave up. `overlap` is not either: it says whether the last `connect()` began before the
transports before it had closed (`AllClosed`), as the code lets it after a failed one.

The cache keeps one list method. A list is the number of its version at its server, so `NoStaleHit` can
compare what a hit returns with what was announced. The store applies a call when it is made and answers
later: `awaiting` holds the calls in progress, and what follows the answer is a step of its own. With a
`cachePartition` every probe, write and eviction visits two partitions in two such steps.

Abstractions: per-URI entries, `cacheMode`, stores that fail, the filters and the acknowledgement
timer of a listen (it may end at any moment), the classification of a probe's answer (either era may
come out), session resumption and the abort of `connect()` are left out; expiry is a choice made at each
read. The listen stream that `connect()` opens itself is one the application opens. The application
awaits `connect()` before it lists, and connects again only when nothing is up. `Prompt` is a part of the
setting: with it, transports start and close at once, as over HTTP, and the store has answered every look-up before the
application connects again, so that `connect()` never overtakes a close. Without it transports start and close as slowly
as they like, as processes do, and the next `connect()` may begin while the last one still closes.

### MultiRoundTrip

One call of a multi-round-trip method. `call` fixes its era and its options. In the modern era the loop is
`runInputRequiredDriver`: `client` is `between` while it runs, and every round ends in a leg of its own (`Retry`). In
the legacy era the loop is `LegacyInputRequiredShim.fulfill`: `server` is `looping` while it runs, the client keeps
`asking`, and every round ends by handing the input to the handler. `loop`, `round`, `payload` and `responses` are the
locals of either; the two functions take the same steps, and the operators name the differences
(`LoopAborted`, `Fails`, `Interrupt`, `EndRound`).

`running` holds the dispatched requests whose handlers nobody told to stop. `stopping` holds the others: in the modern era their
signal is aborted and the driver still waits for them (`Promise.all` does, and a value of such a handler
counts), in the legacy era a cancellation is on its way to them and the shim has forgotten them. `signal` is the abort
signal of the handler at the server, `cancelling` while the cancellation travels. Progress that
arrives with the total spent ends the call and sends none, as in `_onprogress`.

Embedded requests and states carry the number of the entry that returned them, so that `SameStory` tells a response of
an earlier round, or another state, from the right one. What the handler sees is `entries`, `given` and `returned`;
`InputRounds` is their abstract specification, with the outcome of the call as its fourth variable.

Abstractions: whether an embedded request is well-formed, covered by a capability and has a handler is a
verdict, as is the verify hook's; the message to a handler and its answer arrive at once, only cancellations and the legs
travel; both sides notice a lost connection together; driver and shim have one `MaxRounds` (10 and 8 in the
code); manual mode and the switches that turn the loops off are left out. A reconnection finds a server of the same era.

### ClientAuth

A flow is a request of the transport (a POST or the GET of a stream) or the `finishAuth()` of the application.
`at[f]` is the HTTP request it waits for: `sent` (to the MCP server), `discovering`, `registering`, `asking` (the token
endpoint; `granted` and the names of errors once the answer is on its way), or `retrying`, before it is sent again.
`tokens`, `registered` and `verifier` are the provider's, `asked` is `_scope`, `request` the arguments of `_send`, `run` the
locals of `auth()`. `shown`, in `request`, is not in the code: the tokens a request was turned away with.

`Present` reads the token, `Unauthorized` and `Forbidden` are what follows 401 and 403, `Proceed`,
`Register`, `Grant`, `Save` and `GiveUp` are the stretches of `authInternal`, `Recover` is the `catch` of `auth()`. The
authorization server is external: it grants or refuses (`Grants`, `Refuses`), honours a live refresh token, a code with its own
verifier, or a machine's credentials, may grant less than it was asked for, and in `Fault` lets tokens expire.
`interactive` says whether there is a user: without one, a provider fetches its tokens itself.

Abstractions: one authorization server, so the issuer stamps, the gate of the callback and the cached discovery
decide nothing; a provider that implements every optional method and stores at once; a provider's own
`prepareTokenRequest` only where there is no user; `onInsufficientScope: 'throw'` (no step-up) and the scope that discovery would
fill in are left out.

## 3. Runs

| Run | Instance | Checks |
|---|---|---|
| `requests` | 2 requests, 2 successive connections, the second with per-request streams, clock to 2 | `TypeOK`, `NothingLeftBehind`, `CancelReachesItsPeer`, and that the model implements `RequestLifecycle` (`Lifecycle`) |
| `requests_reentrant` | 1 request, 2 connections, clock to 5, re-entrant `onclose`, fairness | `NeverStranded`, `ClosedMeansGone`, `WaitIsBounded`, `NoCancelOnceAnswered`, `EveryWaitEnds` |
| `handlers` | 3 inbound requests from two successive peers, two of them with the same id | `TypeOK`, `SignalsFindTheirHandler` (`StaysCancellable` and `AbortedForCause`), `CancelledIsSilent`, `EveryRequestAnswered` |
| `stdio` | 3 messages out of six kinds, 1 subscription, 1 publication | `TypeOK`, `DiscardAnswers`, `ListenFrames`, `NoResurrection`, `EveryRequestAnswered`, `TeardownCompletes` |
| `http` | 2 HTTP requests of any kind, every response mode, 2 events of which 1 is advertised, 1 subscription, 2 publications | `TypeOK`, `NothingOutlives` (`InflightIsOpen` is part of it), `StreamShape`, `ExchangesEnd` (`FetchSettles` and `LeavingEndsExchange`) |
| `streams` | 1 POST (a batch of 2 requests where batches are sent) and the standalone stream, 2 exchanges for each, 1 notification, 1 dropped connection, 2 retries, 4 deployments | `TypeOK`, `NoOrphanStream`, `RequestsRetired`, that the two transports implement `StreamDelivery` (`DeliveredInOrder`), `ResponseArrives` |
| `client` | 2 servers, 2 transports one after the other, each to either server, 1 list call, 1 listen, 2 versions of each list; with prompt transports and a store of its own or a shared one that is partitioned, and with slow transports and a store of its own | `TypeOK`, `NoStaleHit` (where transports are prompt), `ListenBelongs`, `ReadyIsConnected` (`StaysWhole` and `NeverMixed`) |
| `rounds` | 2 keys, 2 rounds, 1 lost connection; in both eras a call with timeout 2, total 3 and progress, and one with timeout 1 and no total | `TypeOK`, that the loops implement `InputRounds` (`SameStory`), `NothingRunsOn`, `LegsWithinTotal`, `CallEnds` |
| `auth` | 2 requests, one of which has to step up, and `finishAuth()`; 1 step-up, 6 answers of the token endpoint, 1 token that expires or is revoked, with a user and without | `TypeOK` (which bounds how often a request is sent), `NoTokenTwice`, `FlowsSettle` |
| `http_close`, `streams_position`, `streams_gap` | the smallest instance that shows it | one property each, violated (section 4) |

Deadlock is not checked: each instance is finite (all messages sent, all transports used,
the clock at its bound) and a connection that is over has nothing left to do.

Why these bounds. What the properties of `requests` need is two requests that interfere and
a second connection for one to be left over to; a timer has to be restarted and a total spent
before the clock ends, which `MaxTime` 5 allows with timeouts and totals of 1 and 2 (`Request` is
disabled when its longest wait would pass `MaxTime`, so that the end of the clock hides no
late request). `handlers` needs one id used on both connections and a second id beside it. In
`stdio` the longest story is a probe, something that makes the entry discard it, and a
cancellation of either: three messages. `legacyRequest`, `legacyNote` and `response` take the
branches of `initialize` and `cancel` and are left out of the vocabulary of the run. In `http` two
requests meet in the subscription limit, in `inflight` and in `close()`.

In `rounds` two keys make a sibling, two rounds an earlier one for a response to leak from and a cap to reach; a timeout of 2 and a
total of 3 let progress restart the timer once before the total is spent, and a second leg begin with less than
the whole. The lost connection may come back between two legs.

In `auth` the six answers are no bound: the run with eight reaches the same states, and a flow that found no answer left would be
stuck and `FlowsSettle` would say so. One scope is enough: it is granted or it is not, and a request that needs none may
redirect, refresh or store what the other one steps up from.

`streams` lets one connection drop and the server end others: with two exchanges for each stream the next
one is opened while the server still holds the last, which is what a stale cancellation, a replay
and a live write need to meet; the second retry is the last one allowed. Two requests in one POST
share a stream, so that one response waits for the other, and may be answered in either order. In `client` the second transport is the
reconnection (or the other server) that a leftover of the first can reach: a write, an eviction, an
`onclose`, a timer, a subscription. One list call is enough for a read or write to meet an
eviction, since an eviction is not made by a call; two of them were checked as well, with one transport and the shared store
(0.8 million states), and with two transports and the client's own store (4.8 million). With slow
transports the second `connect()` may meet the first transport while it still closes. A third one, which comes after an overlap, was
checked as well, without list calls (1.3 million states). The servers are interchangeable, which
is the symmetry the run uses; it states no liveness property.

## 4. Where code and documentation part

Each of these is a run whose counterexample TLC prints.

* `CloseLeavesNothing`: a request awaiting its factory when `handler.close()` comes is served
  afterwards and never torn down (`createMcpHandler.ts:869`).
* `ResumesFromLastSeen`: each stream forgets the token it was resumed with. One that is
  resumed and drops before it carried an event is resumed without `Last-Event-ID`, and
  the response is lost (client `streamableHttp.ts:742`).
* `ReplayIsComplete`: an event stored between the snapshot of `replayEventsAfter` and the registration of the resumed
  stream is neither replayed nor written (server `streamableHttp.ts:649`).

Also seen while modelling, without a run of their own:

* A failed `connect()` does not await the `close()` it calls (`client.ts:1097`). When that ends, it resets the version and
  the capabilities of the connection that has replaced it, which "will be populated" "after initialization has completed"
  (`client.ts:1323`, `client.ts:1360`); a late `close` event of the old process, which also follows a failed start, detaches the
  new transport. Both happen in the run `client`, and TLC finds the consequent of `StaysWhole` violated by either at once.
  What does hold is `ReadyIsConnected`: `StaysWhole`, for a `connect()` that overtook no close, and `NeverMixed` for every one. The
  connection may lose its state, but gets nobody else's.
* The debounced refresh of a connection that was lost survives until the next `connect()` resets the state, which the legacy form
  does only after the start of the new transport (`client.ts:1002` and `client.ts:1024`): the timer may fire on the
  connection that replaces its own, which a comment rules out (`client.ts:603`). This happens with slow transports.
* Two requests that were refused together authorize together, and each of `auth()` and the step-up uses state it read several HTTP
  requests ago. Of two refreshes with one refresh token that rotates, the second is refused, and `auth()` drops the tokens
  that the first has just stored (`auth.ts:1081`). Of two step-ups, the one with the narrower scope may be stored last, and the
  permission the other has won is lost (client `streamableHttp.ts:433`).
* A 401 after a step-up keeps the accumulated scope in `_scope`, but hands only the challenge's to `auth()`
  (`auth.ts:188`): the new authorization asks for less.
* Two requests that need a user redirect twice, and the second overwrites the verifier of the first: only the
  last redirect can be finished. Two that need a registration register twice.

* `maxTotalTimeout`, "maximum total time (in milliseconds) to wait for a response" (`protocol.ts:134`), is compared only when
  progress arrives (`protocol.ts:768`), so a request may outlive it by a whole `timeout`. The bound that does
  hold is `WaitIsBounded`.
* "The budget bounds the WHOLE flow" of a multi-round request (`protocol.ts:139`), but the driver looks at it between
  the rounds (`inputRequiredDriver.ts:276`): an input handler that waits for its user has no timer at all. What
  holds is `LegsWithinTotal`. In the legacy era the timer of the one request runs on meanwhile.
* A call that ends because its total is spent tells the server nothing (`protocol.ts:1191`): the legacy shim goes on
  asking the user for a call that is over. `NothingRunsOn` therefore speaks of the signal of the loop.
* A spent total deletes the bookkeeping entry that the clean-up needs to clear the timer
  (`protocol.ts:769`), which then runs on. `NoCancelOnceAnswered` shows that it does no other harm.
* Progress read in one chunk with the answer is handled after it and finds its callback deleted
  (`protocol.ts:1224`).
* `cancel()` sends on the transport that is attached when it runs (`protocol.ts:1481`): an `onclose` callback that
  reconnects and then aborts a request of the old connection, which is rejected only after the callback, cancels it at the
  new peer. With a second transport connected over an open one, the close of either rejects the requests of
  both. Section 6 says which theorems assume these cases away; their runs do, too.
* `_onrequest` captures the transport connected last, not the one the request came in on
  (`protocol.ts:962`). It needs overlapping connects; in `handlers` there is no overlap.
* When the factory failed for the probe, a mere enveloped notification pins the modern era
  (`serveStdio.ts:687`).
* A supplied store that answers out of order can serve a shared entry that is being evicted, and a
  call still pending over a reconnection writes under the identity of no server.
* `Client.close()` during a probe has no transport to close: it resets the state and `connect()` goes on. The properties of
  `McpClient` exempt a connection that the application closed so.

## 5. Fairness

The event loop runs what is queued: weak fairness on microtasks, on continuations whose
awaited promise has settled, and on the second half of `_onclose`. A due timer and the clock
get strong fairness (`TimerFires`, `Tick`): reads may come in between for ever, but each turn of the
loop visits the timers. Peers, callers, clients and the application owe nothing, with
the exceptions each module names: in `ProtocolHandlers` and `ServeStdio` handlers return (the
property is what the code does with their result) and writes settle; a factory settles, one way
or the other. In `McpHttpHandler` handlers need not return: the part `FetchSettles` of
`ExchangesEnd` exempts those that run, `LeavingEndsExchange` does not.

In `StreamableHTTP` each step of the server is weakly fair (a request is handled, a dead connection is
noticed), `SendResumes` is (a `storeEvent` that was called answers), and each step of the client is (a stream that ended is
noticed, a reconnection timer fires). Handlers need not answer and nobody has to close:
`ResponseArrives` starts from answers that were given. The run `client` checks safety only.

In `MultiRoundTrip` the timers, the clock, the receipt of an answer and the loop of the driver are weakly fair, and so are
the client's own input handlers, each of which settles one way or the other: nothing in the driver bounds
them. The server owes nothing, not even the arrival of a request: `CallEnds` then rests on the timer of each leg and on the round cap.

In `ClientAuth` every HTTP request is answered or fails, and what waits for it goes on (`Continues`, weakly fair for each flow); what the
answer is, is free. Nobody has to send a request or to finish a redirect.

Strong and weak fairness are per request or message, never on a whole module's `Next`, and no
fairness is put on anything a peer does.

## 6. Theorems

The proofs hold for every value of the constants that satisfies the ASSUME of the module: the bounds are
naturals, timeouts are at least 1, names of different kinds differ. They need no fairness. Each invariant that is not
inductive as it stands is the consequence of one that is; its parts are named definitions of the proof module.

| Module | Theorem | Statement |
|---|---|---|
| `ProtocolRequestsProofs` | `TypeCorrect` | `Spec => []TypeOK` |
| | `PendingNeverStranded` | `Spec => []NeverStranded` |
| | `FinishedLeavesNothing` | `Spec => []NothingLeftBehind` |
| | `WaitBounded` | `Spec => []WaitIsBounded` |
| | `AnsweredNeverCancelled` | `Spec => NoCancelOnceAnswered` |
| | `ClosedIsGone` | `~Overlap`: `Spec => []ClosedMeansGone` |
| | `CancelReaches` | `~Overlap`, `~Reentrant`: `Spec => []CancelReachesItsPeer` |
| | `ImplementsLifecycle` | `~Overlap`, `~Reentrant`: `Spec => Lifecycle`, the refinement of `RequestLifecycle` |
| `ProtocolHandlersProofs` | `TypeCorrect` | `Spec => []TypeOK` |
| | `SignalsFind` | `~Overlap`: `Spec => []SignalsFindTheirHandler` |
| | `CancelledStaysSilent` | `~Overlap`: `Spec => CancelledIsSilent` |
| `ServeStdioProofs` | `TypeCorrect` | `Spec => []TypeOK` |
| | `NoneForgotten` | `Spec => []DiscardAnswers` |
| | `NothingResurrected` | `Spec => NoResurrection` |
| | `ListenIsServed` | `Spec => ListenFrames` |
| `McpHttpHandlerProofs` | `HttpTypeCorrect` | `Spec => []TypeOK` |
| | `NothingEverOutlives` | `Spec => []NothingOutlives` |
| | `StreamsAreWellFormed` | `Spec => []StreamShape` |
| `StreamableHTTPProofs` | `SessionHolds` | `Spec => []SessionInv` |
| | `TypeCorrect` | `Spec => []TypeOK` |
| | `NeverOrphaned` | `Spec => []NoOrphanStream` |
| | `RequestsAreRetired` | `Spec => []RequestsRetired` |
| | `DeliversInOrder` | `PromptStore`: `Spec => DeliveredInOrder`, the refinement of `StreamDelivery` |
| `McpClientProofs` | `TypeCorrect` | `Spec => []TypeOK` |
| | `ListensBelong` | `Spec => []ListenBelongs` |
| | `ReadyStaysConnected` | `Spec => []ReadyIsConnected` |
| | `NeverStale` | `Ordered`: `Spec => []NoStaleHit` |
| `MultiRoundTripProofs` | `TypeCorrect` | `Spec => []TypeOK` |
| | `StoryHolds` | `Spec => []Story` |
| | `SameStoryTold` | `Spec => SameStory`, the refinement of `InputRounds` |
| | `NothingLeftRunning` | `Spec => []NothingRunsOn` |
| | `TotalSpansTheLegs` | `Spec => []LegsWithinTotal` |
| `ClientAuthProofs` | `TypeCorrect` | `Spec => []TypeOK` |
| | `RetriesAreWorthIt` | `Spec => NoTokenTwice` |

`Overlap` lets `connect()` be called while a transport is attached, `Reentrant` lets the `onclose` callback
connect and issue requests. The theorems that assume their negation are false without it, and the runs that check
them have the same setting. With two transports attached, the close of either rejects the requests of both
(`protocol.ts:836`), and two peers that number alike share one entry of the map of controllers. A reconnecting `onclose`
may abort an old request between its detachment and its rejection, and cancel it at a peer that never saw it.
`PromptStore` lets a client reconnect only when the event store has answered every send up to the event it resumes after. Without it, and with two
drops, `DeliveredInOrder` fails: a send that still awaits the store is replayed to one resumption, and written again to the
next one, because the set of events that were replayed belongs to the stream that registered it (`streamableHttp.ts:1222`).
The theorems of `McpClient` have no hypothesis about the transports; what their properties need of them is part of the properties.
`ListenBelongs` and `StaysWhole` speak of a `connect()` that overtook no close (`overlap` is false): without that TLC finds the second
violated with two transports (section 4) and the first with three, by a listen that is opened while a legacy
`connect()` waits for a start that then fails, and is still open when the next transport is attached. `NoStaleHit` speaks of
prompt transports: with slow ones TLC finds a stale hit after an answer of a process that outlives its `close()`, which is written for the server that was connected next.
`Ordered` says that every store answers the calls made of it in their order. With a store that does not, a shared
entry whose eviction is on its way is served.

### ProtocolRequests

`NeverStranded` and `NothingLeftBehind` are not inductive. The invariant is `Bookkeeping`: the two
of them, `TypeOK`, and four facts about the maps: an id that was not allocated is in none of
them (`Untouched`), a pending request listens to its signal and its answer was not taken
(`PendingIsAbortable`), only pending requests have a progress handler (`OnlyPendingReports`), and
the queues of the event loop hold what they should (`QueuesAreForSettled`). It says why the
exit paths, which clean up in different places, end with the same result. `WaitIsBounded`
follows from `DeadlineIsBounded` (a timer is never armed beyond what the options allow, and time
does not pass a due timer); `NoCancelOnceAnswered` needs `OnlyPendingCancels` on top: a running
timer or an abort listener whose answer was not taken belongs to a request that is pending or whose
clean-up is queued ahead of it.

`ClosedMeansGone` needs `ConnectionInv`: what is attached is what is open (`OneTransport`), a registered request
belongs to it and a detached one to a transport that is gone (`RequestsFollowTheirTransport`), also while an `onclose`
callback issues requests on the next one; and who may still be answered has not been (`AnswersLeaveTheMap`).
`CancelReachesItsPeer` adds `AloneInOnclose` (nothing is open while `onclose` runs, and who was cancelled no longer
waits): `AloneInv`. Under it every step of the requester is one of `RequestLifecycle` or a stutter (`LifecycleStep`),
which is `ImplementsLifecycle`.

### ProtocolHandlers

`SignalsInv` is the property with five more parts. The one that is hard to see in the code is `QueuedCancels`: a cancellation waits
for its microtask without its transport, so the proof has to say that whatever controllers are registered when it
runs belong to the peer it was read from. `ControllersOfTheOpen` says that `_onclose` empties the map before anybody
can connect again, which is why `.finally()` of an old handler finds its own controller or none.
`CancelledIsSilent` needs `SilentWhileRunning`: a handler at work has sent nothing, and one whose cancellation was
handled is aborted, on a transport that may be gone.

### ServeStdio

`EntryInv` says what each await of `processMessage` finds when it goes on (`AwaitsFind`): unless the connection was
torn down meanwhile, the phase is the one it left, and the instance that is being discarded is still the probe. That
rests on the pump's order (`InOrder`: one message at a time), on who is alive (`OneInstance`) and on the teardown
(`TeardownOrder`). `Deliveries` follows each request from its delivery to an answer, a cancellation or the end of the wait,
which is `DiscardAnswers`; `Unwritten`, `FrameOrder` and `CancelledListens` say what was written for a listen and why a
subscription that is still open has its acknowledgement and no result. `NoResurrection` and `ListenFrames` are
action properties of steps from `EntryInv` (`ListenFrames` has `FramesOf` as its state part).

### McpHttpHandler

`NothingEverOutlives` follows from `Holding`: `NothingOutlives`, with `InflightIsOpen` as its first part, and `Located`, which places each running handler
and armed timer at the stage where its transport or subscription exists. Without it, the
branch of `Dispatch` that finds the client gone would be free to drop a transport with a handler
behind it. `StreamShape` needs `Streaming` on top, whose part `Placed` ties the stream of a request to its
response and its stage: an open stream holds no result yet, and the microtask that
closes an exchange finds its response resolved, and not as a stream that is still open. `TypeOK`
contains the subscription limit; it needs that a subscription is added only below the limit
(`SubsStep`) and the library's facts on cardinalities.

### StreamableHTTP

`SessionInv` is about both transports together, and holds in every deployment and with any store:

* `Begun`: a POST is made once and its requests are dispatched once; until then nothing is stored for it but
  its priming event. `Exchanged` says which exchanges can be where.
* `LogShape` and `Queue`: a request is answered once, on the stream of its POST, and the sends that await the store are in the
  order of their events.
* `Books`: as long as the books hold a request of a POST they hold one without a response, and an answered request has its
  response there or a send that will bring it. This is what `RequestsRetired` follows from. It is a statement
  about batches: the send of the last answer, and only that, empties the maps of all.
* `Mapping`: a response that is open is the one its stream is mapped to, which is `NoOrphanStream`, and so is, until
  `close()`, a response that waits for its priming event or its JSON.
* `Unseen`: why the latter is so. `replayEvents` replaces the entry of whatever stream the client names,
  so the proof needs that no client can name a stream whose POST is not being read: no frame and no token
  of either side is of such a stream.

A step of the server is a step of one exchange (`Moves`), or the end of a send, or `close()`; `Grows` says
what no step takes back. What the store returns is computed by a recursive function of the length of the
log (`Places`). The library's induction theorems cannot be instantiated here, so `PlacesList` (it lists exactly the
events of the stream after the given one, in order) is proved by the least counterexample: a set of naturals that is not empty has
a least element (`LeastNatural`, from the well-foundedness of `<`), so a set that holds 0, and each number with the one before
it, holds all of them (`UpTo`).

`DeliversInOrder` adds `DeliveryInv`, which relates what a channel has read to what the server still has to write:

* `Holding`: who reads which exchange. `Asking`: a channel resumes with the last event it read, and its first read
  finds it empty. `JsonMode`: with JSON answers only the standalone stream is ever resumed.
* `InTurn`: the events a channel has read from streams rise and are of its stream or of the standalone one.
* `Behind`: what a channel read in earlier exchanges precedes every send that awaits the store. It is the only place where
  `PromptStore` is used: a reconnection finds only sends that are later than the event it resumes after.
* `Bodies`: a POST in JSON mode is never resumed, and what it reads is one body, answers in the order of their requests. The body is
  found in `_requestResponseMap`, so `SessionInv` has `Replied`: who is in the map has a response in the log.
* `Live`: what an open stream has delivered precedes the pending sends of that stream, or holds them, and then they are in
  `replayedEventIds`. The set is built while the replay runs and registered with the stream, so the proof follows a replay
  that is not registered yet as well.

A step of the client delivers nothing. A step of the server appends to what one channel reads only events that come
after all it has read (`ReadsMore`): the frame of a send, a replay or a priming event, or all answers of a JSON body at once. So each step of the two
transports is a step of `StreamDelivery`, or a stutter (`ImplementsStep`).

### McpClient

`TypeOK` bounds the generation of the cache. That is a count (`Counted`): each eviction uses up a notification and each
notification a version that came after the first of its server, of which there are finitely many because there are finitely
many servers.

What an overtaken close leaves true is `Background`: `Core` (only one transport is being connected, each is used once, and
what is attached is alive and past its probe) and `Unmixed` (the version is that of the transport attached, or none, unless that one
was attached before the reset; so is the identity). Every step keeps it, and `NeverMixed` follows, one half of `ReadyIsConnected`. `ClientInv` is `Background` together
with `ConnectionInv` for as long as `overlap` is false: a `connect()` that overtakes no close finds every earlier transport over
and begins the story anew, whatever an overlap before it did. The other half, `StaysWhole`, is about such connections, so
the theorem does not need `Prompt`, which only says that `overlap` never becomes true. `ListenBelongs` is a part of `ConnectionInv`.

`ConnectionInv` has five parts.

* `InOrder`: of all transports only the newest is being connected, alive, closing, or not given up. Everything that a step of
  `connect()` does is therefore done to the newest.
* `Attached`: what is attached lasts, and what lasts is attached unless it is a probe's.
* `Reported`: a connection that was reported, and lasts (`Stays`: with slow transports, one that is up), has the client's version, capabilities and identity.
* `Subscribed`: a listen that is open is on what is attached. This is `ListenBelongs`.
* `Notifying`: notifications are of the reported connection, and the timer of the debounced refresh does not wait into the
  next one, except while a legacy `connect()` starts its transport.

The steps of `connect()` differ in what they assign but all concern the newest transport; `ConnectionKept` says once what such
a step must leave true, and each step is proved from it.

With prompt transports `CacheInv` adds what `NoStaleHit` needs. `CallsInFlight`: an answer on its way is not older than what its server had announced
when it was requested, and not older than what was announced since, unless the generation moved. `Cached`: a partition holds
lists of its own server only, the client's own never older than what was announced, the shared one only while the eviction that
will empty it waits for the store. `InQueue`: a call waits for the store once, and an eviction that concerns it
stands before it, which is where `Ordered` is used: who reads the shared partition after an announcement reads it after the
eviction. A reconnection sets the generation back, and two generations that happen to be equal would let an old answer in; no reset
runs while a request is on its way, since the connection of each request lasts and only the newest connection does, so equal
generations mean that nothing was evicted.

### MultiRoundTrip

`Story` is the inductive invariant behind the refinement. Its part `Carried` says that the leg on its way, the
payload of the loop and the answer that comes home are what the last entry of the handler returned; `Counted` that the
round the loop is in counts the entries, which bounds them by `MaxRounds + 1`; and `Placed` that at most one of leg,
loop and answer exists, so that none is overtaken by an older one. With it every step maps to a step of
`InputRounds` or to a stutter (`StepMaps`): the three entries of the handler - from a leg, after the verify hook, from
the shim - to its `Enter` (`EntryMaps`), every way the call fails to its `Fail` (`FailureMaps`). `NothingRunsOn` needs
`Attended` on top: a round is over when each of its requests has its response, and none that has one runs. For
`LegsWithinTotal`, `Timed` adds that a leg was told what is left of the total and never waits for more than that and one
timeout: progress restarts the timer only while some of the total is left. `TypeOK` follows from the types of the clocks, of
the contents and of what is dispatched (`Clocks`, `Contents`, `Dispatched`), each preserved under `Story`: that a
response is the answer to one of the requests of its round is not a matter of types alone.

### ClientAuth

`AuthInv` has four parts. `Stores` and `Holds` bound the numbers that the provider and each flow can hold by what the
authorization server has given out. `Accounted` counts the retries: a request was sent once for itself, once if `authRetry`
is set and once for each step-up, which is the bound in `TypeOK`. `FreshTokens` is what `NoTokenTwice` needs: tokens that
are granted and not yet stored have been shown to nobody and are nobody else's, and a flow that is about to
retry finds in the provider tokens it was not turned away with, although other flows may have replaced, or dropped, the ones it
stored itself.

### Only model-checked

Liveness (`EveryWaitEnds`, `EveryRequestAnswered`, `TeardownCompletes`, `ExchangesEnd`, `ResponseArrives`, `CallEnds`,
`FlowsSettle`): the prover has no rule for fairness with `ENABLED`. Every invariant, action property and refinement that a passing
run checks is a theorem, under the hypotheses of the table.

## 7. Plan

In this order:

1. `ProtocolNotifications` (debouncing across a reconnect).
2. The stdio transports' write races, the stateless legacy leg of `createMcpHandler`, a second authorization
   server in `ClientAuth` (issuer stamps, the gate of the callback).
3. Pure functions against reference definitions: the classification ladder, `honoredSubset`,
   URI templates.

## 8. Not modelled

Registries of tools, resources and prompts are synchronous look-ups over the Protocol that is
modelled. Schemas, codecs and validators are data shapes: the models keep of a message what
control depends on. Framework adapters and header checks are stateless. URI templates, tool
names and media types are pure string functions. `server-legacy` and the SSE client transport are
frozen deprecated code; `codemod` is a source-to-source tool; examples, tests and documentation
are not part of the running system.

## 9. Running it

    tlc -config MCRequests.cfg MCProtocolRequests.tla
    tlc -config MCHandlers.cfg MCProtocolHandlers.tla
    tlc -config MCServeStdio.cfg ServeStdio.tla
    tlc -config MCHttp.cfg McpHttpHandler.tla
    tlc -config MCStreams.cfg MCStreamableHTTP.tla
    tlc -config MCClient.cfg MCMcpClient.tla
    tlc -config MCRounds.cfg MCMultiRoundTrip.tla
    tlc -config MCClientAuth.cfg MCClientAuth.tla
    tlapm ProtocolRequestsProofs.tla
    tlapm ProtocolHandlersProofs.tla
    tlapm ServeStdioProofs.tla
    tlapm McpHttpHandlerProofs.tla
    tlapm StreamableHTTPProofs.tla
    tlapm McpClientProofs.tla
    tlapm MultiRoundTripProofs.tla
    tlapm ClientAuthProofs.tla

Each run finishes within five minutes on two workers; the proofs of a module take a few minutes, those of
`StreamableHTTPProofs` more.
