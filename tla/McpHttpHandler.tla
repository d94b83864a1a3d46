--------------------------- MODULE McpHttpHandler ---------------------------
(***************************************************************************)
(* createMcpHandler (packages/server/src/server/createMcpHandler.ts), its   *)
(* modern leg: every HTTP request gets an instance of its own from the     *)
(* factory and one exchange over a PerRequestHTTPServerTransport, except a *)
(* subscriptions/listen, which the listen router (listenRouter.ts) serves  *)
(* as a stream fed by the server event bus.  handler.close() tears it all  *)
(* down.                                                                   *)
(*                                                                         *)
(* `at' is where serveModern stands with a request: each value is one of   *)
(* its awaits, so every step below is one synchronous stretch of code.     *)
(***************************************************************************)
EXTENDS Naturals, Sequences, FiniteSets

CONSTANTS
  MaxRequests,       \* bound: HTTP requests
  Events,            \* the subscription-gated change events
  Capabilities,      \* those of them the instances advertise
  MaxSubscriptions,  \* CreateMcpHandlerOptions.maxSubscriptions
  MaxNotes,          \* bound: related messages a handler sends per exchange
  MaxPublished       \* bound: events published on the bus

Reqs == 1 .. MaxRequests

ASSUME McpHttpHandlerAssumption ==
  /\ MaxRequests \in Nat /\ MaxSubscriptions \in Nat
  /\ MaxNotes \in Nat /\ MaxPublished \in Nat
  /\ Capabilities \subseteq Events
  /\ Events \cap {"ack", "note", "result"} = {}

VARIABLES
  responseMode,  \* options.responseMode
  checked,       \* the factory returns McpServers: scope challenges are resolved
  kind,          \* what each request carries
  filter,        \* params.notifications of a listen
  at,            \* where serveModern stands with each request
  gone,          \* clients that went away
  response,      \* what fetch resolved with
  inflight,      \* `inflight'
  open,          \* connected per-request transports
  working,       \* requests a handler works on, its signal not aborted
  terminal,      \* _terminalDelivered
  sse,           \* _sse of the transport, and the stream of a listen
  timers,        \* armed keep-alive timers
  ending,        \* exchanges with a queueMicrotask(close) pending
  frames,        \* the messages enqueued on each stream
  subs,          \* `open' of the listen router
  listeners,     \* the listeners of the event bus
  published,     \* events published so far
  closed         \* `closed' of the handler

setting  == <<responseMode, checked>>
request  == <<kind, filter>>
exchange == <<inflight, open, working, terminal, ending>>
stream   == <<sse, timers, frames>>
router   == <<subs, listeners>>
vars     == <<setting, request, at, gone, response, exchange, stream, router, published, closed>>

Init ==
  /\ responseMode \in {"auto", "json", "sse"}
  /\ checked \in BOOLEAN
  /\ kind = [r \in Reqs |-> "none"] /\ filter = [r \in Reqs |-> {}]
  /\ at = [r \in Reqs |-> "unsent"]
  /\ gone = {}
  /\ response = [r \in Reqs |-> "none"]
  /\ inflight = {} /\ open = {} /\ working = {} /\ terminal = {} /\ ending = {}
  /\ sse = [r \in Reqs |-> "none"] /\ timers = {} /\ frames = [r \in Reqs |-> <<>>]
  /\ subs = {} /\ listeners = {}
  /\ published = 0 /\ closed = FALSE

\* What a classified request carries: a request or a notification for an
\* instance, or a subscriptions/listen with a valid or an invalid filter.
Kinds == {"call", "notification", "listen", "badListen"}

Goto(r, stage) == at' = [at EXCEPT ![r] = stage]

Resolve(r, what) == response' = [response EXCEPT ![r] = IF @ = "none" THEN what ELSE @]

(***************************************************************************)
(* PerRequestHTTPServerTransport.                                          *)
(***************************************************************************)
\* mutant: the exchange is not taken out of the in-flight set
MutDropped(S) == {}

\* onExchangeClose.
Dropped(S) == S

\* A fetch that still waits for one of the transports in S.
Rejected(S) ==
  [r \in Reqs |-> IF r \in S /\ at[r] = "dispatched" /\ response[r] = "none"
                  THEN "disconnected" ELSE response[r]]

\* close() of the transports in S, and the close chain of their servers: the
\* handlers are aborted, and a fetch that still waits learns of it (499).
CloseTransports(S) ==
  /\ open' = open \ S
  /\ inflight' = inflight \ Dropped(S)
  /\ working' = working \ S
  /\ ending' = ending \ S
  /\ sse' = [r \in Reqs |-> IF r \in S /\ sse[r] = "open" THEN "closed" ELSE sse[r]]
  /\ timers' = timers \ S
  /\ response' = Rejected(S)
  /\ UNCHANGED <<terminal, frames>>

\* writeFrame: a closed stream takes nothing.
Enqueued(r, f) ==
  CASE sse[r] = "none" -> <<f>> [] sse[r] = "open" -> Append(frames[r], f) [] OTHER -> frames[r]

\* upgradeToSse (if there is no stream yet) and writeMessageFrame.
WriteMessage(r, f) ==
  /\ frames' = [frames EXCEPT ![r] = Enqueued(r, f)]
  /\ sse' = [sse EXCEPT ![r] = IF @ = "none" THEN "open" ELSE @]
  /\ timers' = IF sse[r] = "none" THEN timers \cup {r} ELSE timers
  /\ Resolve(r, "stream")

\* finalizeStream.
FinalizeStream(r, f) ==
  /\ frames' = [frames EXCEPT ![r] = Enqueued(r, f)]
  /\ sse' = [sse EXCEPT ![r] = "closed"]
  /\ timers' = timers \ {r}
  /\ Resolve(r, "stream")

\* send() of the response, after the dispatch window.
SendTerminal(r) ==
  /\ terminal' = terminal \cup {r}
  /\ ending' = ending \cup {r}
  /\ IF sse[r] # "none" \/ responseMode = "sse"
     THEN FinalizeStream(r, "result")
     ELSE Resolve(r, "json") /\ UNCHANGED stream

(***************************************************************************)
(* The listen router.                                                      *)
(***************************************************************************)
Honored(r) == filter[r] \cap Capabilities

MutAtCapacity == Cardinality(subs) > MaxSubscriptions  \* mutant: off by one

AtCapacity == Cardinality(subs) >= MaxSubscriptions

\* teardown of the subscriptions in S; a graceful one writes the result first.
Teardown(S, graceful) ==
  /\ subs' = subs \ S
  /\ listeners' = listeners \ S
  /\ frames' = [r \in Reqs |-> IF r \in S /\ graceful THEN Append(frames[r], "result")
                                                      ELSE frames[r]]
  /\ sse' = [r \in Reqs |-> IF r \in S THEN "closed" ELSE sse[r]]
  /\ timers' = timers \ S

\* serve(): acknowledge, then subscribe - unless nothing was honoured, or the
\* client is gone already.
ServeListen(r) ==
  \/ /\ AtCapacity \/ kind[r] = "badListen"
     /\ Resolve(r, "error")
     /\ UNCHANGED <<stream, router>>
  \/ /\ ~AtCapacity /\ kind[r] = "listen"
     /\ Resolve(r, "stream")
     /\ frames' = [frames EXCEPT ![r] = IF Honored(r) = {} THEN <<"ack", "result">>
                                                           ELSE <<"ack">>]
     /\ IF Honored(r) = {} \/ r \in gone
        THEN sse' = [sse EXCEPT ![r] = "closed"] /\ UNCHANGED <<timers, router>>
        ELSE /\ sse' = [sse EXCEPT ![r] = "open"]
             /\ timers' = timers \cup {r}
             /\ subs' = subs \cup {r} /\ listeners' = listeners \cup {r}

\* mutant: the filter the client asked for, not the one that was honoured
MutAccepts(r, e) == TRUE

\* listenFilterAccepts.
Accepts(r, e) == e \in Honored(r)

\* publish() on the bus.
Publish(e) ==
  /\ published < MaxPublished
  /\ published' = published + 1
  /\ frames' = [r \in Reqs |-> IF r \in listeners /\ sse[r] = "open" /\ Accepts(r, e)
                               THEN Append(frames[r], e) ELSE frames[r]]
  /\ UNCHANGED <<setting, request, at, gone, response, exchange, sse, timers, router, closed>>

(***************************************************************************)
(* fetch and serveModern.                                                  *)
(***************************************************************************)
\* A request comes in; its body is read and classified.
Fetch(r, k, f) ==
  /\ ~closed
  /\ at[r] = "unsent" /\ \A q \in 1 .. r - 1 : at[q] # "unsent"
  /\ k # "listen" => f = {}
  /\ kind' = [kind EXCEPT ![r] = k] /\ filter' = [filter EXCEPT ![r] = f]
  /\ Goto(r, "reading")
  /\ UNCHANGED <<setting, gone, response, exchange, stream, router, published, closed>>

\* Classified: one of the rungs before the factory refuses it, or the factory
\* is called.
Classified(r) ==
  /\ at[r] = "reading"
  /\ \/ Goto(r, "refused") /\ Resolve(r, "error")
     \/ Goto(r, "building") /\ UNCHANGED response
  /\ UNCHANGED <<setting, request, gone, exchange, stream, router, published, closed>>

\* The factory threw: internalServerErrorResponse.
FactoryFails(r) ==
  /\ at[r] = "building"
  /\ Goto(r, "refused") /\ Resolve(r, "error")
  /\ UNCHANGED <<setting, request, gone, exchange, stream, router, published, closed>>

\* Put into the in-flight set and connected, to the await of connect().
BeginExchange(r) ==
  /\ Goto(r, "connecting")
  /\ inflight' = inflight \cup {r} /\ open' = open \cup {r}
  /\ UNCHANGED <<response, working, terminal, ending, stream>>

\* The factory resolved.
FactoryBuilds(r) ==
  /\ at[r] = "building"
  /\ \/ /\ kind[r] \in {"listen", "badListen"}
        /\ ServeListen(r)
        /\ Goto(r, "listening")
        /\ UNCHANGED exchange
     \/ /\ kind[r] = "call" /\ checked
        /\ Goto(r, "checking")
        /\ UNCHANGED <<response, exchange, stream, router>>
     \/ /\ kind[r] = "notification" \/ (kind[r] = "call" /\ ~checked)
        /\ BeginExchange(r)
        /\ UNCHANGED router
  /\ UNCHANGED <<setting, request, gone, published, closed>>

\* The Mcp-Param headers and the scope challenge of the tool are through.
Checked(r) ==
  /\ at[r] = "checking"
  /\ \/ Goto(r, "refused") /\ Resolve(r, "error") /\ UNCHANGED <<exchange, stream>>
     \/ BeginExchange(r)
  /\ UNCHANGED <<setting, request, gone, router, published, closed>>

\* connect() is through: handleMessage delivers the message to the instance.
Dispatch(r) ==
  /\ at[r] = "connecting"
  /\ \/ \* the transport was closed meanwhile: handleMessage throws
        /\ r \notin open
        /\ Goto(r, "failed") /\ Resolve(r, "error")
        /\ UNCHANGED <<exchange, stream>>
     \/ \* the client was gone before
        /\ r \in open /\ r \in gone
        /\ Goto(r, "dispatched")
        /\ open' = open \ {r} /\ inflight' = inflight \ Dropped({r})
        /\ Resolve(r, "disconnected")
        /\ UNCHANGED <<working, terminal, ending, stream>>
     \/ \* a notification is acknowledged, and its instance released
        /\ r \in open /\ r \notin gone /\ kind[r] = "notification"
        /\ Goto(r, "dispatched") /\ Resolve(r, "accepted")
        /\ ending' = ending \cup {r}
        /\ UNCHANGED <<inflight, open, working, terminal, stream>>
     \/ \* a request is refused before its handler, in the dispatch window
        /\ r \in open /\ r \notin gone /\ kind[r] = "call"
        /\ Goto(r, "dispatched") /\ Resolve(r, "json")
        /\ terminal' = terminal \cup {r} /\ ending' = ending \cup {r}
        /\ UNCHANGED <<inflight, open, working, stream>>
     \/ \* a request reaches its handler; a forced stream is opened
        /\ r \in open /\ r \notin gone /\ kind[r] = "call"
        /\ Goto(r, "dispatched")
        /\ working' = working \cup {r}
        /\ IF responseMode = "sse"
           THEN /\ sse' = [sse EXCEPT ![r] = "open"] /\ timers' = timers \cup {r}
                /\ Resolve(r, "stream") /\ UNCHANGED frames
           ELSE UNCHANGED <<response, stream>>
        /\ UNCHANGED <<inflight, open, terminal, ending>>
  /\ UNCHANGED <<setting, request, gone, router, published, closed>>

\* The handler, or something it started, sends a notification or a request of
\* its own related to the call.
HandlerSends(r) ==
  /\ r \in open /\ at[r] = "dispatched" /\ kind[r] = "call"
  /\ Len(frames[r]) < MaxNotes
  /\ responseMode # "json"
  /\ WriteMessage(r, "note")
  /\ UNCHANGED <<setting, request, at, gone, exchange, router, published, closed>>

\* The handler is done.
HandlerAnswers(r) ==
  /\ r \in working
  /\ working' = working \ {r}
  /\ SendTerminal(r)
  /\ UNCHANGED <<setting, request, at, gone, inflight, open, router, published, closed>>

\* The queued microtask closes the transport.
EndExchange(r) ==
  /\ r \in ending
  /\ CloseTransports({r})
  /\ UNCHANGED <<setting, request, at, gone, router, published, closed>>

(***************************************************************************)
(* The client, and handler.close().                                        *)
(***************************************************************************)
\* mutant: the abort signal of the request is not listened to
MutReachable(r) == sse[r] = "open"

\* What an abort of the request, or the cancellation of its stream, tears down:
\* an exchange whose message was delivered.
Reachable(r) == at[r] = "dispatched" /\ kind[r] = "call"

ClientLeaves(r) ==
  /\ at[r] # "unsent" /\ r \notin gone
  /\ gone' = gone \cup {r}
  /\ IF r \in subs
     THEN Teardown({r}, FALSE) /\ UNCHANGED <<exchange, response>>
     ELSE CloseTransports(IF Reachable(r) THEN {r} \cap open ELSE {}) /\ UNCHANGED router
  /\ UNCHANGED <<setting, request, at, published, closed>>

\* closeAll() of the router, then close() of every in-flight instance.
Close ==
  /\ ~closed
  /\ closed' = TRUE
  /\ open' = open \ inflight /\ inflight' = {}
  /\ working' = working \ inflight /\ ending' = ending \ inflight
  /\ response' = Rejected(inflight)
  /\ subs' = {} /\ listeners' = listeners \ subs
  /\ frames' = [r \in Reqs |-> IF r \in subs THEN Append(frames[r], "result") ELSE frames[r]]
  /\ sse' = [r \in Reqs |-> IF r \in subs \/ (r \in inflight /\ sse[r] = "open") THEN "closed"
                                                                                ELSE sse[r]]
  /\ timers' = timers \ (subs \cup inflight)
  /\ UNCHANGED <<setting, request, at, gone, terminal, published>>

Serve(r) ==
  \/ Classified(r) \/ FactoryFails(r) \/ FactoryBuilds(r) \/ Checked(r) \/ Dispatch(r)
  \/ EndExchange(r)

Next ==
  \/ \E r \in Reqs :
       \/ \E k \in Kinds, f \in SUBSET Events : Fetch(r, k, f)
       \/ Serve(r) \/ HandlerSends(r) \/ HandlerAnswers(r) \/ ClientLeaves(r)
  \/ \E e \in Events : Publish(e)
  \/ Close

Spec == Init /\ [][Next]_vars

(***************************************************************************)
(* The event loop runs continuations and microtasks, bodies are read and   *)
(* factories and scope checks settle.  A handler need not return.          *)
(***************************************************************************)
Fairness == \A r \in Reqs : WF_vars(Serve(r))

FairSpec == Spec /\ Fairness

-----------------------------------------------------------------------------
Stages == {"unsent", "reading", "building", "checking", "connecting", "dispatched", "listening",
           "refused", "failed"}

\* Every variable stays in its type, and the subscription limit is kept.
TypeOK ==
  /\ responseMode \in {"auto", "json", "sse"}
  /\ checked \in BOOLEAN /\ closed \in BOOLEAN
  /\ kind \in [Reqs -> Kinds \cup {"none"}]
  /\ filter \in [Reqs -> SUBSET Events] /\ at \in [Reqs -> Stages]
  /\ gone \subseteq Reqs
  /\ response \in [Reqs -> {"none", "json", "stream", "accepted", "error", "disconnected"}]
  /\ inflight \subseteq Reqs /\ open \subseteq Reqs /\ working \subseteq Reqs
  /\ terminal \subseteq Reqs /\ ending \subseteq Reqs
  /\ sse \in [Reqs -> {"none", "open", "closed"}] /\ timers \subseteq Reqs
  /\ \A r \in Reqs : frames[r] \in Seq(Events \cup {"ack", "note", "result"})
  /\ subs \subseteq Reqs /\ listeners \subseteq Reqs
  /\ Cardinality(subs) <= MaxSubscriptions
  /\ published \in 0 .. MaxPublished

\* The in-flight set is exactly the set of connected instances, so that close()
\* finds every one of them, and failing or abandoned exchanges "cannot
\* accumulate connected instances until handler.close()".
InflightIsOpen == inflight = open

\* Nothing outlives its exchange: besides, a handler that still runs un-aborted
\* has its transport, a timer has its open stream, a bus listener its subscription.
NothingOutlives ==
  /\ InflightIsOpen
  /\ working \subseteq open
  /\ \A r \in timers : sse[r] = "open" /\ r \in open \cup subs
  /\ listeners = subs

\* A listen stream starts with its acknowledgement and carries only what was
\* asked for and is advertised; on every stream the result is the last message,
\* and a stream that ended without one was given up by its client, or closed
\* with the handler.
StreamShape ==
  \A r \in Reqs :
    /\ kind[r] = "listen" =>
         \A j \in DOMAIN frames[r] :
           /\ frames[r][j] = "ack" <=> j = 1
           /\ frames[r][j] \in Events => frames[r][j] \in filter[r] \cap Capabilities
    /\ \A j \in DOMAIN frames[r] : frames[r][j] = "result" => j = Len(frames[r])
    /\ response[r] = "stream" /\ sse[r] = "closed" /\ r \notin gone /\ ~closed
         => frames[r] # <<>> /\ frames[r][Len(frames[r])] = "result"

\* Every request gets an HTTP response, unless its handler hangs - also a
\* request whose handler was aborted and will answer nothing any more.
FetchSettles ==
  \A r \in Reqs : at[r] # "unsent" /\ r \notin working ~> response[r] # "none" \/ r \in working

\* A client that goes away takes its exchange with it: the instance is closed
\* and the handler aborted, however long the tool would have run.
LeavingEndsExchange ==
  \A r \in Reqs : r \in gone ~> [](r \notin open \cup working \cup subs)

\* Every exchange comes to its end, for its client and for the server.
ExchangesEnd == FetchSettles /\ LeavingEndsExchange

\* "handler.close() aborts any exchange still in flight, so a hung tool call
\* cannot leak into the next test": once it is closed, no handler runs on
\* and no subscription is open.
CloseLeavesNothing == closed => working = {} /\ subs = {}
=============================================================================
