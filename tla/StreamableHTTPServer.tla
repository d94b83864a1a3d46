------------------------- MODULE StreamableHTTPServer -------------------------
(***************************************************************************)
(* WebStandardStreamableHTTPServerTransport (packages/server/src/server/   *)
(* streamableHttp.ts) after the handshake: the POSTs of one session, each  *)
(* answered as JSON or as a stream of events, the standalone GET stream,   *)
(* the event store and the replay that resumes a stream after Last-Event-ID.*)
(*                                                                         *)
(* An exchange c is one HTTP request with its response.  `exch' is where   *)
(* the server stands with it: asked, then an await of the handler          *)
(* (challenged, priming, replaying), then the response: one that waits for *)
(* its JSON, an open stream, or over.  A frame enqueued on an exchange     *)
(* whose wire is up is read at once: a frame lost on the way is one        *)
(* enqueued after the wire went down and before the server noticed.        *)
(*                                                                         *)
(* Every message the server sends has a number, its place in `log'; with   *)
(* an event store that is its event id.  The store (external) keeps an     *)
(* event when storeEvent is called and answers the calls in order.         *)
(***************************************************************************)
EXTENDS Naturals, Sequences, FiniteSets

CONSTANTS
  Deployments, \* the settings looked at
  MaxPosts,   \* bound: POSTs with requests
  MaxReqs,    \* bound: requests, numbered in the order their POSTs carry them
  PostOf,     \* the POST of each: a batch has several
  MaxExch,    \* bound: exchanges at a time for each stream of the client
  MaxNotes    \* bound: notifications the server sends

Standalone == 0             \* _standaloneSseStreamId
Posts      == 1 .. MaxPosts \* a POST and the stream that answers it
StreamIds  == {Standalone} \cup Posts
Reqs       == 1 .. MaxReqs
Exchanges  == 1 .. MaxExch * (MaxPosts + 1)
None       == 0             \* no exchange, no event id

Settings ==
  [json : BOOLEAN, store : BOOLEAN, primes : BOOLEAN, knows : BOOLEAN, batches : BOOLEAN]

ASSUME StreamableHTTPServerAssumption ==
  /\ Deployments \subseteq {d \in Settings : d.primes \/ d.knows => d.store}
  /\ MaxPosts \in Nat /\ MaxReqs \in Nat /\ MaxExch \in Nat /\ MaxNotes \in Nat
  /\ PostOf \in [Reqs -> Posts]

VARIABLES
  setting,    \* enableJsonResponse, eventStore, its getStreamIdForEventId (knows), and
              \* whether the client can resume (primes) and sends batches
  closed,     \* _closed
  stream,     \* _streamMapping: the exchange each stream is written to, replayedEventIds
  inflight,   \* the keys of _requestToStreamMapping (the value is PostOf)
  responded,  \* the keys of _requestResponseMap
  handler,    \* what became of each request in the protocol layer
  log,        \* the messages sent, in order
  sending,    \* the sends that await storeEvent, in order
  exch,       \* where each exchange stands, and its method, stream and Last-Event-ID
  wire,       \* the connection under each exchange is up
  read        \* the messages its client reads from it

book       == <<inflight, responded>>
server     == <<closed, stream, book, handler, log, sending>>
exchange   == <<exch, wire, read>>
serverVars == <<setting, server, exchange>>

Unmapped == [to |-> None, replayed |-> {}]

Over == [at |-> "over", method |-> "GET", stream |-> Standalone, after |-> None]

ServerInit ==
  /\ setting \in Deployments
  /\ closed = FALSE
  /\ stream = [s \in StreamIds |-> Unmapped]
  /\ inflight = {} /\ responded = {}
  /\ handler = [r \in Reqs |-> "none"]
  /\ log = <<>> /\ sending = <<>>
  /\ exch = [c \in Exchanges |-> Over]
  /\ wire = [c \in Exchanges |-> FALSE]
  /\ read = [c \in Exchanges |-> <<>>]

\* The requests a POST carries.
Carried(p) ==
  LET all == {r \in Reqs : PostOf[r] = p}
  IN IF setting.batches THEN all ELSE {r \in all : \A q \in all : r <= q}

\* The stream an exchange is for: a resumed one is that of the event it names.
OnStream(c) == IF exch[c].after # None THEN log[exch[c].after].stream ELSE exch[c].stream

Asks(c, method) == exch[c].at = "asked" /\ exch[c].method = method

Goto(c, stage) == exch' = [exch EXCEPT ![c].at = stage]

Finished(c, how) == exch' = [exch EXCEPT ![c] = [Over EXCEPT !.at = how]]

Refuse(c) ==
  Finished(c, IF wire[c] THEN "refused" ELSE "over") /\ UNCHANGED <<setting, server, wire, read>>

Map(s, c, ids) == stream' = [stream EXCEPT ![s] = [to |-> c, replayed |-> ids]]

Unmap(s) == stream' = [stream EXCEPT ![s] = Unmapped]

Mapped(s) == stream[s].to # None

Reading(c, ms) == [read EXCEPT ![c] = IF wire[c] THEN @ \o ms ELSE @]

\* The numbers from 1 to n that are in S, in their order.
Ascending(S, n) ==
  LET upTo[k \in 0 .. n] ==
        IF k = 0 THEN <<>> ELSE IF k \in S THEN Append(upTo[k - 1], k) ELSE upTo[k - 1]
  IN upTo[n]

\* The messages of stream s in ms that follow the one with place e.
Places(ms, s, e) == Ascending({i \in 1 .. Len(ms) : i > e /\ ms[i].stream = s}, Len(ms))

Logged(s, r, what) == Append(log, [stream |-> s, req |-> r, what |-> what])

\* controller.close(): a stream that nobody drains can still be cancelled.
CloseController(c) == IF wire[c] THEN Over ELSE [exch[c] EXCEPT !.at = "closing"]

\* cleanup() of the streams in S; a JSON response that waits stays unresolved.
Ended(S) ==
  [c \in Exchanges |->
     IF exch[c].at = "open" /\ \E s \in S : stream[s].to = c THEN CloseController(c) ELSE exch[c]]

(***************************************************************************)
(* POST.                                                                   *)
(***************************************************************************)
\* handlePostRequest, up to the scope challenge: its await follows the last
\* check of _closed.
PostArrives(c) ==
  /\ Asks(c, "POST")
  /\ IF closed THEN Refuse(c)
     ELSE Goto(c, "challenged") /\ UNCHANGED <<setting, server, wire, read>>

\* The protocol layer takes the requests; after close() it has let go of the
\* transport and nobody answers.
Dispatch(p) ==
  handler' = [r \in Reqs |-> IF r \in Carried(p) /\ ~closed THEN "running" ELSE handler[r]]

Primes == setting.store /\ setting.primes

\* The mapping is set; JSON mode dispatches at once, SSE mode after
\* writePrimingEvent.
PostRegisters(c) ==
  LET p == exch[c].stream IN
  /\ exch[c].at = "challenged"
  /\ Map(p, c, {})
  /\ inflight' = inflight \cup Carried(p)
  /\ IF setting.json
     THEN Goto(c, "json") /\ Dispatch(p) /\ UNCHANGED log
     ELSE /\ Goto(c, "priming")
          /\ log' = IF Primes THEN Logged(p, None, "priming") ELSE log
          /\ UNCHANGED handler
  /\ UNCHANGED <<setting, closed, responded, sending, wire, read>>

PrimingEvent(p) == CHOOSE i \in DOMAIN log : log[i].stream = p /\ log[i].what = "priming"

\* Enqueuing on a stream that close() has closed throws: 400, and the
\* messages are not dispatched.
PostDispatched(c) ==
  LET p == exch[c].stream IN
  /\ exch[c].at = "priming"
  /\ Primes => \A k \in DOMAIN sending : sending[k] > PrimingEvent(p)
  /\ IF Primes /\ stream[p].to # c
     THEN Refuse(c)
     ELSE /\ IF stream[p].to = c THEN Goto(c, "open") ELSE Finished(c, "over")
          /\ Dispatch(p)
          /\ read' = IF Primes THEN Reading(c, <<PrimingEvent(p)>>) ELSE read
          /\ UNCHANGED <<setting, closed, stream, book, log, sending, wire>>

(***************************************************************************)
(* GET.                                                                    *)
(***************************************************************************)
\* What replayEventsAfter finds.
EventsAfter(e) == Places(log, log[e].stream, e)

\* handleGetRequest without Last-Event-ID: one standalone stream.
GetOpens(c) ==
  /\ Asks(c, "GET") /\ exch[c].after = None
  /\ IF closed \/ Mapped(Standalone) THEN Refuse(c)
     ELSE /\ Map(Standalone, c, {})
          /\ Goto(c, "open")
          /\ UNCHANGED <<setting, closed, book, handler, log, sending, wire, read>>

\* replayEvents, up to the end of replayEventsAfter.  A store that can name
\* the stream of an event lets it refuse while the stream has a connection.
GetReplays(c) ==
  /\ Asks(c, "GET") /\ exch[c].after # None
  /\ IF closed \/ (setting.knows /\ Mapped(OnStream(c))) THEN Refuse(c)
     ELSE /\ read' = [read EXCEPT ![c] = EventsAfter(exch[c].after)]
          /\ Goto(c, "replaying")
          /\ UNCHANGED <<setting, server, wire>>

InFlightOn(s) == \E r \in inflight : PostOf[r] = s

\* A request's stream has nothing to wait for once the request is retired.
Registered(c) == OnStream(c) = Standalone \/ InFlightOn(OnStream(c))

\* replayEvents after the await: the resumed stream takes the place of the
\* one its client lost.
GetRegisters(c) ==
  LET s == OnStream(c) IN
  /\ exch[c].at = "replaying"
  /\ IF closed THEN Refuse(c)
     ELSE /\ IF Registered(c)
             THEN /\ exch' = [Ended({s}) EXCEPT ![c].at = "open"]
                  /\ Map(s, c, {read[c][k] : k \in DOMAIN read[c]})
             ELSE exch' = [Ended({s}) EXCEPT ![c] = Over] /\ Unmap(s)
          /\ UNCHANGED <<setting, closed, book, handler, log, sending, wire, read>>

\* mutant: a cancelled stream drops whatever is mapped under its id
MutOwn(c) == TRUE

\* Only an entry that is still this stream's own.
Own(c) == stream[OnStream(c)].to = c

\* cancel() of the response stream: the server notices that the client is gone.
Cancel(c) ==
  /\ exch[c].at \in {"open", "closing"} /\ ~wire[c]
  /\ Finished(c, "over")
  /\ IF Own(c) THEN Unmap(OnStream(c)) ELSE UNCHANGED stream
  /\ UNCHANGED <<setting, closed, book, handler, log, sending, wire, read>>

(***************************************************************************)
(* send().                                                                 *)
(***************************************************************************)
\* mutant: what a replay delivered is written again
MutNotReplayed(s, i) == TRUE

NotReplayed(s, i) == i \notin stream[s].replayed

\* A message with place i is written to the stream that is mapped now.
Written(s, i) ==
  IF Mapped(s) /\ exch[stream[s].to].at = "open" /\ NotReplayed(s, i)
  THEN Reading(stream[s].to, <<i>>) ELSE read

\* relatedIds: the requests of a POST that the books still hold.
Related(p) == {q \in inflight : PostOf[q] = p}

\* What _requestResponseMap holds for a request.
ResponseTo(r) == CHOOSE i \in DOMAIN log' : log'[i].what = "response" /\ log'[i].req = r

\* One JSON response: the answers of a POST in the order of its requests,
\* whatever the order they were sent in.
Body(p) ==
  LET ids == Ascending(Related(p), MaxReqs)
  IN [k \in 1 .. Len(ids) |-> ResponseTo(ids[k])]

\* mutant: only the request answered last is retired
MutRetired(related, r) == {r}

Retired(related, r) == related

\* What send() does after the write: a response is kept until the POST has all
\* of them; the last one ends the stream and retires the requests.
Finish(r) ==
  LET p == PostOf[r]
      related == Related(p)
      ready == responded \cup {r}
  IN IF related \subseteq ready
     THEN /\ exch' = [c \in Exchanges |-> IF c = stream[p].to THEN CloseController(c) ELSE exch[c]]
          /\ Unmap(p)
          /\ inflight' = inflight \ Retired(related, r)
          /\ responded' = ready \ Retired(related, r)
     ELSE responded' = ready /\ UNCHANGED <<exch, stream, inflight>>

\* The part of send() after storeEvent, of the message with place i.
Deliver(i) ==
  LET m == log'[i] IN
  /\ IF m.what = "response"
     THEN Finish(m.req)
     ELSE UNCHANGED <<exch, stream, book>>
  /\ read' = IF setting.json /\ m.what = "response"
             THEN IF m.req \in inflight' THEN read ELSE Reading(stream[m.stream].to, Body(m.stream))
             ELSE Written(m.stream, i)

\* send(): with an event store the message is stored first.
Send(s, r, what) ==
  /\ ~closed
  /\ log' = Logged(s, r, what)
  /\ IF setting.store /\ ~(setting.json /\ s # Standalone)
     THEN sending' = Append(sending, Len(log')) /\ UNCHANGED <<stream, book, exch, read>>
     ELSE Deliver(Len(log')) /\ UNCHANGED sending
  /\ UNCHANGED <<setting, closed, wire>>

SendResumes ==
  /\ sending # <<>>
  /\ log' = log
  /\ Deliver(Head(sending))
  /\ sending' = Tail(sending)
  /\ UNCHANGED <<setting, closed, handler, wire>>

Notes == Len(SelectSeq(log, LAMBDA m : m.what = "note"))

\* A handler notifies its client (JSON mode has no place for it), answers, or
\* ends its stream to make its client poll.
Notify(r) ==
  /\ handler[r] = "running" /\ r \in inflight /\ ~setting.json /\ Notes < MaxNotes
  /\ Send(PostOf[r], r, "note")
  /\ UNCHANGED handler

Respond(r) ==
  /\ handler[r] = "running" /\ r \in inflight
  /\ handler' = [handler EXCEPT ![r] = "answered"]
  /\ Send(PostOf[r], r, "response")

NotifyStandalone ==
  /\ Notes < MaxNotes
  /\ Send(Standalone, None, "note")
  /\ UNCHANGED handler

\* closeSSEStream and closeStandaloneSSEStream, which a handler is given when
\* its client can resume.
CloseStream(r, s) ==
  /\ handler[r] = "running" /\ Primes /\ ~setting.json
  /\ s \in {PostOf[r], Standalone} /\ Mapped(s)
  /\ exch' = Ended({s})
  /\ Unmap(s)
  /\ UNCHANGED <<setting, closed, book, handler, log, sending, wire, read>>

(***************************************************************************)
(* DELETE and close().                                                     *)
(***************************************************************************)
\* close(), by its owner or at the end of handleDeleteRequest, which awaits
\* onsessionclosed first.
Close ==
  /\ ~closed /\ closed' = TRUE
  /\ exch' = Ended(StreamIds)
  /\ stream' = [s \in StreamIds |-> Unmapped]
  /\ responded' = {}
  /\ handler' = [r \in Reqs |-> IF handler[r] = "running" THEN "aborted" ELSE handler[r]]
  /\ UNCHANGED <<setting, inflight, log, sending, wire, read>>

ServerStep(c) ==
  \/ PostArrives(c) \/ PostRegisters(c) \/ PostDispatched(c)
  \/ GetOpens(c) \/ GetReplays(c) \/ GetRegisters(c) \/ Cancel(c)

ServerNext ==
  \/ \E c \in Exchanges : ServerStep(c)
  \/ SendResumes
  \/ \E r \in Reqs : Notify(r) \/ Respond(r) \/ \E s \in StreamIds : CloseStream(r, s)
  \/ NotifyStandalone
  \/ Close
=============================================================================
