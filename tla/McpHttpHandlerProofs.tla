------------------------ MODULE McpHttpHandlerProofs ------------------------
(***************************************************************************)
(* Theorems about McpHttpHandler for every number of requests, every set of *)
(* events and capabilities and every bound.                                *)
(***************************************************************************)
EXTENDS McpHttpHandler, FiniteSetTheorems, TLAPS

USE DEF Dropped, Rejected

-----------------------------------------------------------------------------
(***************************************************************************)
(* The inductive invariant behind NothingOutlives: itself, and where       *)
(* serveModern stands with a request that has a running handler or an      *)
(* armed timer.  The last part is what rules out that the entry drops a    *)
(* transport before its handler was started.                               *)
(***************************************************************************)
Located ==
  /\ at \in [Reqs -> Stages] /\ sse \in [Reqs -> {"none", "open", "closed"}]
  /\ timers \subseteq Reqs /\ working \subseteq Reqs
  /\ \A r \in working : at[r] = "dispatched"
  /\ \A r \in timers : at[r] \in {"dispatched", "listening"}

Holding == NothingOutlives /\ Located

USE DEF InflightIsOpen, NothingOutlives, Located, Holding

LEMMA HoldingInit == Init => Holding
BY DEF Init, Stages

\* Closing a set of transports leaves no timer and no handler of theirs.
LEMMA CloseKeeps ==
  ASSUME Holding, NEW S \in SUBSET Reqs, CloseTransports(S), UNCHANGED <<at, router>>
  PROVE  Holding'
BY DEF CloseTransports, router

\* A listen is torn down with its timer and its bus listener.
LEMMA TeardownKeeps ==
  ASSUME Holding, NEW S \in SUBSET subs, Teardown(S, FALSE), UNCHANGED <<at, exchange>>
  PROVE  Holding'
BY DEF Teardown, exchange

LEMMA FactoryBuildsKeeps ==
  ASSUME Holding, NEW r \in Reqs, FactoryBuilds(r)
  PROVE  Holding'
<1>1. CASE ServeListen(r) /\ Goto(r, "listening") /\ UNCHANGED exchange
  <2>1. at' \in [Reqs -> Stages] /\ at'[r] = "listening" /\ at[r] = "building"
    BY <1>1 DEF FactoryBuilds, Goto, Stages
  <2>2. \A q \in Reqs \ {r} : at'[q] = at[q]
    BY <1>1 DEF Goto
  <2>3. r \notin timers /\ r \notin working
    BY <2>1
  <2>4. CASE UNCHANGED <<stream, router>>
    BY <1>1, <2>1, <2>2, <2>3, <2>4 DEF exchange, stream, router
  <2>5. CASE sse' = [sse EXCEPT ![r] = "closed"] /\ UNCHANGED <<timers, router>>
    BY <1>1, <2>1, <2>2, <2>3, <2>5 DEF exchange, router
  <2>6. CASE /\ sse' = [sse EXCEPT ![r] = "open"]
             /\ timers' = timers \cup {r}
             /\ subs' = subs \cup {r} /\ listeners' = listeners \cup {r}
    BY <1>1, <2>1, <2>2, <2>3, <2>6 DEF exchange
  <2> QED BY <1>1, <2>4, <2>5, <2>6 DEF ServeListen
<1>2. CASE Goto(r, "checking") /\ UNCHANGED <<response, exchange, stream, router>>
  BY <1>2 DEF FactoryBuilds, Goto, exchange, stream, router, Stages
<1>3. CASE BeginExchange(r) /\ UNCHANGED router
  BY <1>3 DEF FactoryBuilds, BeginExchange, Goto, stream, router, Stages
<1> QED BY <1>1, <1>2, <1>3 DEF FactoryBuilds

LEMMA DispatchKeeps ==
  ASSUME Holding, NEW r \in Reqs, Dispatch(r)
  PROVE  Holding'
<1>1. at[r] = "connecting" /\ r \notin timers /\ r \notin working
  BY DEF Dispatch
<1>2. /\ at' \in [Reqs -> Stages] /\ at'[r] \in {"dispatched", "failed"}
      /\ \A q \in Reqs \ {r} : at'[q] = at[q]
  BY DEF Dispatch, Goto, Stages
<1>3. UNCHANGED router
  BY DEF Dispatch
<1>4. CASE UNCHANGED <<exchange, stream>>
  BY <1>1, <1>2, <1>3, <1>4 DEF exchange, stream, router
<1>5. CASE /\ open' = open \ {r} /\ inflight' = inflight \ Dropped({r})
           /\ UNCHANGED <<working, stream>>
  BY <1>1, <1>2, <1>3, <1>5 DEF stream, router
<1>6. CASE UNCHANGED <<inflight, open, working, stream>>
  BY <1>1, <1>2, <1>3, <1>6 DEF stream, router
<1>7. CASE /\ Goto(r, "dispatched") /\ r \in open
           /\ working' = working \cup {r} /\ UNCHANGED <<inflight, open>>
           /\ \/ sse' = [sse EXCEPT ![r] = "open"] /\ timers' = timers \cup {r}
              \/ UNCHANGED stream
  <2>1. at'[r] = "dispatched"
    BY <1>7 DEF Goto
  <2> QED BY <1>1, <1>2, <1>3, <1>7, <2>1 DEF stream, router
<1> QED BY <1>4, <1>5, <1>6, <1>7 DEF Dispatch

LEMMA WriteKeeps ==
  ASSUME Holding, NEW r \in open, r \in Reqs, at[r] = "dispatched", NEW f,
         WriteMessage(r, f) \/ FinalizeStream(r, f),
         UNCHANGED <<at, inflight, open, router>>, working' \subseteq working
  PROVE  Holding'
<1>1. CASE WriteMessage(r, f)
  BY <1>1 DEF WriteMessage, router
<1>2. CASE FinalizeStream(r, f)
  BY <1>2 DEF FinalizeStream, router
<1> QED BY <1>1, <1>2

LEMMA CloseAllKeeps == ASSUME Holding, Close PROVE Holding'
BY DEF Close

LEMMA HoldingStep == ASSUME Holding, [Next]_vars PROVE Holding'
<1>1. ASSUME NEW r \in Reqs, NEW k, NEW f, Fetch(r, k, f) PROVE Holding'
  BY <1>1 DEF Fetch, Goto, exchange, stream, router, Stages
<1>2. ASSUME NEW r \in Reqs, Classified(r) PROVE Holding'
  BY <1>2 DEF Classified, Goto, exchange, stream, router, Stages
<1>3. ASSUME NEW r \in Reqs, FactoryFails(r) PROVE Holding'
  BY <1>3 DEF FactoryFails, Goto, exchange, stream, router, Stages
<1>4. ASSUME NEW r \in Reqs, FactoryBuilds(r) PROVE Holding'
  BY <1>4, FactoryBuildsKeeps
<1>5. ASSUME NEW r \in Reqs, Checked(r) PROVE Holding'
  BY <1>5 DEF Checked, BeginExchange, Goto, exchange, stream, router, Stages
<1>6. ASSUME NEW r \in Reqs, Dispatch(r) PROVE Holding'
  BY <1>6, DispatchKeeps
<1>7. ASSUME NEW r \in Reqs, EndExchange(r) PROVE Holding'
  BY <1>7, CloseKeeps DEF EndExchange
<1>8. ASSUME NEW r \in Reqs, HandlerSends(r) PROVE Holding'
  BY <1>8, WriteKeeps DEF HandlerSends, exchange
<1>9. ASSUME NEW r \in Reqs, HandlerAnswers(r) PROVE Holding'
  <2>1. CASE FinalizeStream(r, "result")
    BY <1>9, <2>1, WriteKeeps DEF HandlerAnswers
  <2>2. CASE UNCHANGED stream
    BY <1>9, <2>2 DEF HandlerAnswers, stream, router
  <2> QED BY <1>9, <2>1, <2>2 DEF HandlerAnswers, SendTerminal
<1>10. ASSUME NEW r \in Reqs, ClientLeaves(r) PROVE Holding'
  <2>1. CASE r \in subs
    BY <1>10, <2>1, TeardownKeeps DEF ClientLeaves
  <2>2. CASE r \notin subs
    BY <1>10, <2>2, CloseKeeps DEF ClientLeaves
  <2> QED BY <2>1, <2>2
<1>11. ASSUME NEW e \in Events, Publish(e) PROVE Holding'
  BY <1>11 DEF Publish, exchange, router
<1>12. CASE Close
  BY <1>12, CloseAllKeeps
<1>13. CASE UNCHANGED vars
  BY <1>13 DEF vars, exchange, stream, router
<1> QED
  BY <1>1, <1>2, <1>3, <1>4, <1>5, <1>6, <1>7, <1>8, <1>9, <1>10, <1>11, <1>12, <1>13
  DEF Next, Serve

THEOREM HoldingHolds == Spec => []Holding
BY HoldingInit, HoldingStep, PTL DEF Spec

\* In every behaviour the in-flight set is exactly the set of connected
\* instances, whichever await a failure, a disconnect or a close falls into, and
\* no handler, timer or bus listener outlives the exchange or the subscription
\* it belongs to.
THEOREM NothingEverOutlives == Spec => []NothingOutlives
<1>1. Holding => NothingOutlives
  OBVIOUS
<1> QED BY <1>1, HoldingHolds, PTL

-----------------------------------------------------------------------------
(***************************************************************************)
(* What a stream carries.                                                  *)
(*                                                                         *)
(* StreamShape is not inductive.  That a result is the last message needs  *)
(* that an open stream holds none; that a stream does not end without one  *)
(* needs that the microtask which closes an exchange finds its response    *)
(* resolved, and not as a stream that is still open.                       *)
(***************************************************************************)
Frames == Events \cup {"ack", "note", "result"}

BeforeDispatch == {"unsent", "reading", "building", "checking", "connecting"}

StreamTypes ==
  /\ frames \in [Reqs -> Seq(Frames)]
  /\ kind \in [Reqs -> Kinds \cup {"none"}] /\ filter \in [Reqs -> SUBSET Events]
  /\ response \in [Reqs -> {"none", "json", "stream", "accepted", "error", "disconnected"}]
  /\ open \subseteq Reqs /\ subs \subseteq Reqs /\ ending \subseteq Reqs

\* How the stream of a request, its response and its stage go together.
Placed(r) ==
  /\ at[r] \in BeforeDispatch => sse[r] = "none" /\ response[r] = "none" /\ r \notin ending
  /\ sse[r] = "none" => frames[r] = <<>> /\ response[r] # "stream"
  /\ sse[r] # "none" => response[r] # "none"
  /\ sse[r] = "open" => \A j \in DOMAIN frames[r] : frames[r][j] # "result"
  /\ r \in open => kind[r] # "listen" /\ at[r] \in {"connecting", "dispatched"}
  /\ at[r] = "checking" => kind[r] # "listen"
  /\ r \in subs => sse[r] = "open" /\ frames[r] # <<>> /\ at[r] = "listening"
  /\ r \in ending => /\ at[r] = "dispatched" /\ response[r] # "none"
                     /\ (sse[r] = "open" => response[r] # "stream")

\* The parts of StreamShape.
Acknowledged(r) ==
  kind[r] = "listen" =>
    \A j \in DOMAIN frames[r] :
      /\ frames[r][j] = "ack" <=> j = 1
      /\ frames[r][j] \in Events => frames[r][j] \in filter[r] \cap Capabilities

ResultIsLast(r) == \A j \in DOMAIN frames[r] : frames[r][j] = "result" => j = Len(frames[r])

Concluded(r) ==
  response[r] = "stream" /\ sse[r] = "closed" /\ r \notin gone /\ ~closed
    => frames[r] # <<>> /\ frames[r][Len(frames[r])] = "result"

Shaped(r) == Placed(r) /\ Acknowledged(r) /\ ResultIsLast(r) /\ Concluded(r)

Streaming == Holding /\ StreamTypes /\ \A r \in Reqs : Shaped(r)

\* What Append does, as the lemmas below need it.
LEMMA Appended ==
  ASSUME NEW s \in Seq(Frames), NEW f \in Frames
  PROVE  /\ Append(s, f) \in Seq(Frames) /\ Append(s, f) # <<>>
         /\ Len(s) \in Nat /\ DOMAIN s = 1 .. Len(s) /\ (s = <<>> <=> Len(s) = 0)
         /\ Len(Append(s, f)) = Len(s) + 1
         /\ DOMAIN Append(s, f) = 1 .. Len(s) + 1
         /\ \A j \in 1 .. Len(s) : Append(s, f)[j] = s[j]
         /\ Append(s, f)[Len(s) + 1] = f
OBVIOUS

\* A frame is added to a stream that holds no result.
LEMMA Grown ==
  ASSUME StreamTypes, NEW r \in Reqs, NEW f \in Frames,
         frames'[r] = Append(frames[r], f), kind'[r] = kind[r], filter'[r] = filter[r],
         \A j \in DOMAIN frames[r] : frames[r][j] # "result",
         Acknowledged(r),
         kind[r] = "listen" => /\ frames[r] # <<>> /\ f # "ack"
                               /\ f \in Events => f \in filter[r] \cap Capabilities
  PROVE  /\ Acknowledged(r)' /\ ResultIsLast(r)'
         /\ frames'[r] # <<>> /\ frames'[r][Len(frames'[r])] = f
         /\ f # "result" => \A j \in DOMAIN frames'[r] : frames'[r][j] # "result"
<1> DEFINE s == frames[r]
<1>1. s \in Seq(Frames)
  BY DEF StreamTypes
<1>2. /\ Append(s, f) # <<>> /\ Len(s) \in Nat /\ DOMAIN s = 1 .. Len(s)
      /\ (s = <<>> <=> Len(s) = 0)
      /\ Len(Append(s, f)) = Len(s) + 1 /\ DOMAIN Append(s, f) = 1 .. Len(s) + 1
      /\ \A j \in 1 .. Len(s) : Append(s, f)[j] = s[j]
      /\ Append(s, f)[Len(s) + 1] = f
  BY <1>1, Appended
<1>3. Acknowledged(r)'
  BY <1>2 DEF Acknowledged
<1>4. ResultIsLast(r)'
  BY <1>2 DEF ResultIsLast
<1> QED BY <1>2, <1>3, <1>4

\* A request no step touches keeps its shape.
LEMMA Unmoved ==
  ASSUME NEW q \in Reqs, Shaped(q),
         kind'[q] = kind[q], filter'[q] = filter[q], at'[q] = at[q], sse'[q] = sse[q],
         frames'[q] = frames[q], response'[q] = response[q],
         q \in open' => q \in open, q \in subs' <=> q \in subs, q \in ending' => q \in ending,
         gone \subseteq gone', closed => closed'
  PROVE  Shaped(q)'
BY DEF Shaped, Placed, Acknowledged, ResultIsLast, Concluded

LEMMA StreamingInit == Init => Streaming
<1> SUFFICES ASSUME Init PROVE Streaming
  OBVIOUS
<1>1. Holding
  BY HoldingInit
<1>2. StreamTypes
  BY DEF Init, StreamTypes, Kinds, Frames
<1>3. \A r \in Reqs : Shaped(r)
  BY DEF Init, Shaped, Placed, Acknowledged, ResultIsLast, Concluded, BeforeDispatch
<1> QED BY <1>1, <1>2, <1>3 DEF Streaming

\* Whatever is closed without a result was given up, or is not a stream.
LEMMA ClosedShapes ==
  ASSUME Streaming, NEW S \in SUBSET Reqs, S \cap subs = {}, CloseTransports(S),
         UNCHANGED <<at, request, router>>, gone \subseteq gone', closed => closed',
         \A r \in S : r \in gone' \/ r \in ending
  PROVE  StreamTypes' /\ \A q \in Reqs : Shaped(q)'
<1>1. StreamTypes'
  BY DEF Streaming, StreamTypes, CloseTransports, request, router
<1>2. ASSUME NEW q \in Reqs \ S PROVE Shaped(q)'
  <2>1. Shaped(q)
    BY DEF Streaming
  <2>2. /\ sse'[q] = sse[q] /\ frames'[q] = frames[q] /\ response'[q] = response[q]
        /\ (q \in open' => q \in open) /\ (q \in ending' => q \in ending)
    BY DEF CloseTransports, Streaming, StreamTypes
  <2> QED BY <2>1, <2>2, Unmoved DEF request, router
<1>3. ASSUME NEW q \in S PROVE Shaped(q)'
  <2>1. q \in Reqs /\ Placed(q) /\ Acknowledged(q) /\ ResultIsLast(q) /\ Concluded(q)
    BY DEF Streaming, Shaped
  <2>2. /\ q \notin open' /\ q \notin ending' /\ frames'[q] = frames[q]
        /\ sse'[q] = IF sse[q] = "open" THEN "closed" ELSE sse[q]
        /\ response'[q] = IF at[q] = "dispatched" /\ response[q] = "none" THEN "disconnected"
                                                                          ELSE response[q]
        /\ UNCHANGED <<at, kind, filter, subs>>
    BY <2>1 DEF CloseTransports, request, router
  <2>3. Placed(q)'
    BY <2>1, <2>2 DEF Placed, BeforeDispatch
  <2>4. Acknowledged(q)' /\ ResultIsLast(q)'
    BY <2>1, <2>2 DEF Acknowledged, ResultIsLast
  <2>5. Concluded(q)'
    BY <2>1, <2>2 DEF Concluded, Placed
  <2> QED BY <2>3, <2>4, <2>5 DEF Shaped
<1> QED BY <1>1, <1>2, <1>3

\* A related message, or the result of the call, is written.
LEMMA WrittenShapes ==
  ASSUME McpHttpHandlerAssumption, Streaming, NEW r \in open, NEW f \in {"note", "result"},
         \/ WriteMessage(r, f) /\ f = "note"
         \/ FinalizeStream(r, f) /\ f = "result",
         UNCHANGED <<at, request, open, router, gone, closed>>, at[r] = "dispatched",
         ending' = ending \/ (ending' = ending \cup {r} /\ f = "result")
  PROVE  StreamTypes' /\ \A q \in Reqs : Shaped(q)'
<1>1. r \in Reqs /\ Shaped(r) /\ kind[r] # "listen" /\ r \notin subs /\ f \in Frames
  BY DEF Streaming, StreamTypes, Shaped, Placed, Frames
<1>2. /\ frames[r] \in Seq(Frames) /\ frames \in [Reqs -> Seq(Frames)]
      /\ Append(frames[r], f) \in Seq(Frames) /\ <<f>> \in Seq(Frames)
  BY <1>1, Appended DEF Streaming, StreamTypes
<1>3. /\ frames' = [frames EXCEPT ![r] = Enqueued(r, f)]
      /\ sse' = [sse EXCEPT ![r] = sse'[r]]
      /\ response' = [response EXCEPT ![r] = IF @ = "none" THEN "stream" ELSE @]
      /\ sse'[r] \in {"open", "closed"}
      /\ f = "note" => sse'[r] = IF sse[r] = "none" THEN "open" ELSE sse[r]
      /\ f = "result" => sse'[r] = "closed"
  BY <1>1 DEF WriteMessage, FinalizeStream, Resolve, Streaming, StreamTypes
<1>4. StreamTypes'
  BY <1>1, <1>2, <1>3 DEF Streaming, StreamTypes, Enqueued, request, router
<1>5. ASSUME NEW q \in Reqs \ {r} PROVE Shaped(q)'
  <2>1. Shaped(q)
    BY DEF Streaming
  <2>2. /\ sse'[q] = sse[q] /\ frames'[q] = frames[q] /\ response'[q] = response[q]
        /\ (q \in ending' => q \in ending)
    BY <1>3 DEF Streaming, StreamTypes
  <2> QED BY <2>1, <2>2, Unmoved DEF request, router
<1>6. Shaped(r)'
  <2>1. Placed(r) /\ Acknowledged(r) /\ ResultIsLast(r) /\ Concluded(r)
    BY <1>1 DEF Shaped
  <2>2. response'[r] = IF response[r] = "none" THEN "stream" ELSE response[r]
    BY <1>1, <1>3 DEF Streaming, StreamTypes
  <2>3. frames'[r] = Enqueued(r, f)
    BY <1>1, <1>3 DEF Streaming, StreamTypes
  <2>4. CASE sse[r] = "closed"
    <3>1. frames'[r] = frames[r] /\ sse'[r] = "closed" /\ response'[r] = response[r]
      BY <1>3, <2>1, <2>2, <2>3, <2>4 DEF Enqueued, Placed
    <3>2. Placed(r)'
      BY <1>1, <2>1, <2>4, <3>1 DEF Placed, request, router, BeforeDispatch
    <3>3. Acknowledged(r)' /\ ResultIsLast(r)' /\ Concluded(r)'
      BY <1>1, <2>1, <2>4, <3>1 DEF Acknowledged, ResultIsLast, Concluded, request
    <3> QED BY <3>2, <3>3 DEF Shaped
  <2>5. CASE sse[r] \in {"none", "open"}
    <3>1. frames'[r] = Append(frames[r], f)
      <4>1. Append(<<>>, f) = <<f>>
        OBVIOUS
      <4>2. CASE sse[r] = "none"
        BY <2>1, <2>3, <4>1, <4>2 DEF Enqueued, Placed
      <4>3. CASE sse[r] = "open"
        BY <2>3, <4>3 DEF Enqueued
      <4> QED BY <2>5, <4>2, <4>3
    <3>2. \A j \in DOMAIN frames[r] : frames[r][j] # "result"
      BY <2>1, <2>5 DEF Placed
    <3>3. /\ Acknowledged(r)' /\ ResultIsLast(r)'
          /\ frames'[r] # <<>> /\ frames'[r][Len(frames'[r])] = f
          /\ f # "result" => \A j \in DOMAIN frames'[r] : frames'[r][j] # "result"
      BY <1>1, <2>1, <3>1, <3>2, Grown DEF request, Streaming
    <3>4. f = "note" => sse'[r] = "open"
      BY <1>3, <2>5
    <3>5. Placed(r)'
      BY <1>1, <1>3, <2>1, <2>2, <2>5, <3>3, <3>4 DEF Placed, request, router, BeforeDispatch
    <3>6. Concluded(r)'
      BY <1>3, <3>3, <3>4 DEF Concluded
    <3> QED BY <3>3, <3>5, <3>6 DEF Shaped
  <2> QED BY <1>1, <2>4, <2>5 DEF Streaming
<1> QED BY <1>4, <1>5, <1>6

\* A listen is acknowledged, refused, or acknowledged and over.
LEMMA ListenShapes ==
  ASSUME McpHttpHandlerAssumption, Streaming, NEW r \in Reqs, ServeListen(r),
         at[r] = "building", at' = [at EXCEPT ![r] = "listening"],
         UNCHANGED <<request, exchange, gone, closed>>
  PROVE  StreamTypes' /\ \A q \in Reqs : Shaped(q)'
<1>1. /\ Shaped(r) /\ Placed(r) /\ sse[r] = "none" /\ frames[r] = <<>> /\ response[r] = "none"
      /\ r \notin ending /\ r \notin open /\ r \notin subs
  BY DEF Streaming, Shaped, Placed, BeforeDispatch
<1>2. /\ frames \in [Reqs -> Seq(Frames)] /\ sse \in [Reqs -> {"none", "open", "closed"}]
      /\ response \in [Reqs -> {"none", "json", "stream", "accepted", "error", "disconnected"}]
      /\ at' \in [Reqs -> Stages]
  BY DEF Streaming, StreamTypes, Stages
<1>3. /\ \A q \in Reqs \ {r} : /\ frames'[q] = frames[q] /\ sse'[q] = sse[q]
                               /\ response'[q] = response[q] /\ at'[q] = at[q]
      /\ subs' \subseteq subs \cup {r} /\ subs \subseteq subs'
      /\ at'[r] = "listening" /\ UNCHANGED <<kind, filter, open, ending, gone, closed>>
  BY <1>2 DEF ServeListen, Resolve, request, exchange, stream, router, Streaming
<1>4. ASSUME NEW q \in Reqs \ {r} PROVE Shaped(q)'
  BY <1>3, Unmoved DEF Streaming
<1>5. \/ /\ response'[r] = "error" /\ frames'[r] = <<>> /\ sse'[r] = "none" /\ r \notin subs'
      \/ /\ response'[r] = "stream" /\ kind[r] = "listen"
         /\ \/ /\ frames'[r] = <<"ack", "result">> /\ sse'[r] = "closed" /\ r \notin subs'
            \/ /\ frames'[r] = <<"ack">> /\ sse'[r] = "closed" /\ r \notin subs' /\ r \in gone
            \/ /\ frames'[r] = <<"ack">> /\ sse'[r] = "open"
  BY <1>1, <1>2 DEF ServeListen, Resolve, stream, router
<1>6. Shaped(r)'
  <2>1. Placed(r)'
    BY <1>1, <1>3, <1>5 DEF Placed, BeforeDispatch
  <2>2. Acknowledged(r)'
    BY <1>3, <1>5 DEF Acknowledged, McpHttpHandlerAssumption
  <2>3. ASSUME frames'[r] = <<"ack", "result">> PROVE Shaped(r)'
    <3>1. /\ DOMAIN frames'[r] = {1, 2} /\ Len(frames'[r]) = 2 /\ frames'[r] # <<>>
          /\ frames'[r][1] = "ack" /\ frames'[r][2] = "result"
      BY <2>3
    <3> QED BY <2>1, <2>2, <3>1 DEF Shaped, ResultIsLast, Concluded
  <2>4. ASSUME frames'[r] # <<"ack", "result">> PROVE Shaped(r)'
    <3>1. ResultIsLast(r)'
      BY <1>5, <2>4 DEF ResultIsLast
    <3>2. Concluded(r)'
      BY <1>3, <1>5, <2>4 DEF Concluded
    <3> QED BY <2>1, <2>2, <3>1, <3>2 DEF Shaped
  <2> QED BY <2>3, <2>4
<1>7. StreamTypes'
  <2>1. frames' \in [Reqs -> Seq(Frames)]
    <3>1. <<"ack">> \in Seq(Frames) /\ <<"ack", "result">> \in Seq(Frames)
      BY DEF Frames
    <3> QED BY <1>2, <3>1 DEF ServeListen, stream
  <2>2. response' \in [Reqs -> {"none", "json", "stream", "accepted", "error", "disconnected"}]
    BY <1>2 DEF ServeListen, Resolve
  <2> QED BY <1>3, <2>1, <2>2 DEF Streaming, StreamTypes
<1> QED BY <1>4, <1>6, <1>7

\* An event reaches the open subscriptions that accept it.
LEMMA PublishShapes ==
  ASSUME McpHttpHandlerAssumption, Streaming, NEW e \in Events, Publish(e)
  PROVE  StreamTypes' /\ \A q \in Reqs : Shaped(q)'
<1>1. UNCHANGED <<request, at, gone, response, exchange, sse, router, closed>> /\ e \in Frames
  BY DEF Publish, Frames
<1>2. frames \in [Reqs -> Seq(Frames)]
  BY DEF Streaming, StreamTypes
<1>3. frames' \in [Reqs -> Seq(Frames)]
  BY <1>1, <1>2, Appended DEF Publish
<1>4. StreamTypes'
  BY <1>1, <1>3 DEF Streaming, StreamTypes, request, exchange, router
<1>5. ASSUME NEW q \in Reqs PROVE Shaped(q)'
  <2>1. Shaped(q) /\ Placed(q) /\ Acknowledged(q)
    BY DEF Streaming, Shaped
  <2>2. CASE frames'[q] = frames[q]
    BY <1>1, <2>1, <2>2, Unmoved DEF request, exchange, router
  <2>3. CASE frames'[q] # frames[q]
    <3>1. /\ frames'[q] = Append(frames[q], e) /\ q \in subs /\ sse[q] = "open"
          /\ e \in filter[q] \cap Capabilities
      BY <2>3 DEF Publish, Accepts, Honored, Streaming
    <3>2. e # "result" /\ e # "ack"
      BY DEF McpHttpHandlerAssumption
    <3>3. /\ Acknowledged(q)' /\ ResultIsLast(q)' /\ frames'[q] # <<>>
          /\ \A j \in DOMAIN frames'[q] : frames'[q][j] # "result"
      BY <1>1, <2>1, <3>1, <3>2, Grown DEF request, Placed, Streaming
    <3>4. Placed(q)'
      BY <1>1, <2>1, <3>1, <3>3 DEF Placed, request, exchange, router
    <3>5. Concluded(q)'
      BY <1>1, <3>1 DEF Concluded
    <3> QED BY <3>3, <3>4, <3>5 DEF Shaped
  <2> QED BY <2>2, <2>3
<1> QED BY <1>4, <1>5

\* Until its message was handed over, nothing was written for a request.
LEMMA EarlyShapes ==
  ASSUME Streaming, NEW r \in Reqs, at[r] \in BeforeDispatch,
         at' \in [Reqs -> Stages], \A q \in Reqs \ {r} : at'[q] = at[q],
         response' \in [Reqs -> {"none", "json", "stream", "accepted", "error", "disconnected"}],
         \A q \in Reqs \ {r} : response'[q] = response[q],
         \A q \in Reqs \ {r} : kind'[q] = kind[q] /\ filter'[q] = filter[q],
         kind' \in [Reqs -> Kinds \cup {"none"}], filter' \in [Reqs -> SUBSET Events],
         sse' \in [Reqs -> {"none", "open"}] \/ sse' = sse \/ sse' = [sse EXCEPT ![r] = "open"],
         \A q \in Reqs \ {r} : sse'[q] = sse[q],
         UNCHANGED <<frames, subs, gone, closed>>,
         open' \subseteq open \cup {r}, ending' \subseteq ending \cup {r},
         sse'[r] \in {"none", "open"},
         sse'[r] = "open" => response'[r] = "stream" /\ r \notin ending',
         sse'[r] = "none" => response'[r] # "stream",
         at'[r] \in BeforeDispatch => response'[r] = "none" /\ sse'[r] = "none" /\ r \notin ending',
         r \in open' => kind'[r] # "listen" /\ at'[r] \in {"connecting", "dispatched"},
         at'[r] = "checking" => kind'[r] # "listen",
         r \in ending' => at'[r] = "dispatched" /\ response'[r] # "none"
  PROVE  StreamTypes' /\ \A q \in Reqs : Shaped(q)'
<1>1. StreamTypes'
  BY DEF Streaming, StreamTypes
<1>2. ASSUME NEW q \in Reqs \ {r} PROVE Shaped(q)'
  BY Unmoved DEF Streaming
<1>3. Shaped(r)'
  <2>1. Shaped(r) /\ Placed(r) /\ frames[r] = <<>> /\ r \notin subs
    BY DEF Streaming, Shaped, Placed, BeforeDispatch
  <2>2. DOMAIN frames'[r] = {} /\ frames'[r] = <<>>
    BY <2>1
  <2>3. Placed(r)'
    BY <2>1, <2>2 DEF Placed
  <2>4. Acknowledged(r)' /\ ResultIsLast(r)' /\ Concluded(r)'
    BY <2>2 DEF Acknowledged, ResultIsLast, Concluded
  <2> QED BY <2>3, <2>4 DEF Shaped
<1> QED BY <1>1, <1>2, <1>3

\* Ended listens: torn down by their client, or gracefully with the handler.
LEMMA TeardownShapes ==
  ASSUME Streaming, NEW r \in subs, Teardown({r}, FALSE), r \in gone', gone \subseteq gone',
         UNCHANGED <<at, request, exchange, response, closed>>
  PROVE  StreamTypes' /\ \A q \in Reqs : Shaped(q)'
<1>1. r \in Reqs /\ frames \in [Reqs -> Seq(Frames)]
  BY DEF Streaming, StreamTypes
<1>2. /\ frames' = frames /\ subs' = subs \ {r}
      /\ sse' = [q \in Reqs |-> IF q = r THEN "closed" ELSE sse[q]]
  BY <1>1 DEF Teardown
<1>3. StreamTypes'
  BY <1>2 DEF Streaming, StreamTypes, request, exchange
<1>4. ASSUME NEW q \in Reqs \ {r} PROVE Shaped(q)'
  BY <1>2, Unmoved DEF Streaming, request, exchange
<1>5. Shaped(r)'
  <2>1. Placed(r) /\ Acknowledged(r) /\ ResultIsLast(r) /\ sse'[r] = "closed"
    BY <1>1, <1>2 DEF Streaming, Shaped
  <2>2. Placed(r)'
    BY <1>2, <2>1 DEF Placed, request, exchange, BeforeDispatch
  <2>3. Acknowledged(r)' /\ ResultIsLast(r)' /\ Concluded(r)'
    BY <1>2, <2>1 DEF Acknowledged, ResultIsLast, Concluded, request
  <2> QED BY <2>2, <2>3 DEF Shaped
<1> QED BY <1>3, <1>4, <1>5

LEMMA CloseAllShapes ==
  ASSUME McpHttpHandlerAssumption, Streaming, Close
  PROVE  StreamTypes' /\ \A q \in Reqs : Shaped(q)'
<1>1. /\ frames \in [Reqs -> Seq(Frames)] /\ "result" \in Frames
      /\ inflight = open /\ open \subseteq Reqs /\ subs \subseteq Reqs
      /\ sse \in [Reqs -> {"none", "open", "closed"}]
  BY DEF Streaming, StreamTypes, Frames
<1>2. UNCHANGED <<kind, filter, at, gone>> /\ subs' = {} /\ open' = {} /\ closed'
  BY <1>1 DEF Close, request
<1>3. StreamTypes'
  <2>1. frames' \in [Reqs -> Seq(Frames)]
    BY <1>1, Appended DEF Close
  <2>2. response' \in [Reqs -> {"none", "json", "stream", "accepted", "error", "disconnected"}]
    BY DEF Close, Streaming, StreamTypes
  <2>3. ending' \subseteq Reqs
    BY DEF Close, Streaming, StreamTypes
  <2> QED BY <1>2, <2>1, <2>2, <2>3 DEF Streaming, StreamTypes
<1>4. ASSUME NEW q \in Reqs PROVE Shaped(q)'
  <2>1. Placed(q) /\ Acknowledged(q) /\ ResultIsLast(q)
    BY DEF Streaming, Shaped
  <2>2. /\ sse'[q] = IF q \in subs \/ (q \in open /\ sse[q] = "open") THEN "closed" ELSE sse[q]
        /\ response'[q] = IF q \in open /\ at[q] = "dispatched" /\ response[q] = "none"
                          THEN "disconnected" ELSE response[q]
        /\ (q \in ending' => q \in ending /\ q \notin open)
    BY <1>1 DEF Close
  <2>3. CASE q \notin subs
    <3>1. frames'[q] = frames[q]
      BY <2>3 DEF Close
    <3>2. Placed(q)'
      BY <1>2, <2>1, <2>2, <2>3, <3>1 DEF Placed, BeforeDispatch
    <3>3. Acknowledged(q)' /\ ResultIsLast(q)' /\ Concluded(q)'
      BY <1>2, <2>1, <3>1 DEF Acknowledged, ResultIsLast, Concluded
    <3> QED BY <3>2, <3>3 DEF Shaped
  <2>4. CASE q \in subs
    <3>1. frames'[q] = Append(frames[q], "result") /\ sse'[q] = "closed"
      BY <2>4 DEF Close
    <3>2. Acknowledged(q)' /\ ResultIsLast(q)' /\ frames'[q] # <<>>
      BY <1>1, <1>2, <2>1, <2>4, <3>1, Grown
      DEF Streaming, Placed, McpHttpHandlerAssumption
    <3>3. Placed(q)'
      BY <1>2, <2>1, <2>2, <2>4, <3>1, <3>2 DEF Placed, BeforeDispatch
    <3>4. Concluded(q)'
      BY <1>2 DEF Concluded
    <3> QED BY <3>2, <3>3, <3>4 DEF Shaped
  <2> QED BY <2>3, <2>4
<1> QED BY <1>3, <1>4

\* A request that is refused before it gets an exchange.
LEMMA RefusedShapes ==
  ASSUME Streaming, NEW r \in Reqs, at[r] \in {"reading", "building", "checking"},
         Goto(r, "refused"), Resolve(r, "error"),
         UNCHANGED <<request, gone, exchange, stream, router, closed>>
  PROVE  StreamTypes' /\ \A q \in Reqs : Shaped(q)'
<1>1. /\ at[r] \in BeforeDispatch /\ sse[r] = "none" /\ response[r] = "none"
      /\ r \notin ending /\ r \notin open
  BY DEF Streaming, Shaped, Placed, BeforeDispatch
<1>2. /\ at' = [at EXCEPT ![r] = "refused"] /\ response' = [response EXCEPT ![r] = "error"]
      /\ at \in [Reqs -> Stages] /\ StreamTypes
  BY <1>1 DEF Goto, Resolve, Streaming, StreamTypes
<1>3. /\ at' \in [Reqs -> Stages] /\ at'[r] = "refused" /\ response'[r] = "error"
      /\ \A q \in Reqs \ {r} : at'[q] = at[q] /\ response'[q] = response[q]
      /\ response' \in [Reqs -> {"none", "json", "stream", "accepted", "error", "disconnected"}]
  BY <1>2 DEF Stages, StreamTypes
<1>4. UNCHANGED <<kind, filter, frames, sse, subs, gone, closed, open, ending>>
  BY DEF request, exchange, stream, router
<1>5. kind \in [Reqs -> Kinds \cup {"none"}] /\ filter \in [Reqs -> SUBSET Events]
  BY <1>2 DEF StreamTypes
<1>6. at'[r] \notin BeforeDispatch
  BY <1>3 DEF BeforeDispatch
<1> QED BY <1>1, <1>3, <1>4, <1>5, <1>6, EarlyShapes

LEMMA StreamingStep ==
  ASSUME McpHttpHandlerAssumption, Streaming, [Next]_vars
  PROVE  StreamTypes' /\ \A q \in Reqs : Shaped(q)'
<1> DEFINE Goal == StreamTypes' /\ \A q \in Reqs : Shaped(q)'
<1> USE DEF Goto, Resolve, request, exchange, stream, router
<1>0. Holding /\ StreamTypes /\ \A r \in Reqs : Placed(r)
  BY DEF Streaming, Shaped
<1>1. ASSUME NEW r \in Reqs, NEW k \in Kinds, NEW f \in SUBSET Events, Fetch(r, k, f) PROVE Goal
  BY <1>0, <1>1, EarlyShapes DEF Fetch, BeforeDispatch, StreamTypes, Placed, Stages
<1>2. ASSUME NEW r \in Reqs, Classified(r) PROVE Goal
  <2>1. CASE Goto(r, "refused") /\ Resolve(r, "error")
    BY <1>2, <2>1, RefusedShapes DEF Classified
  <2>2. CASE Goto(r, "building") /\ UNCHANGED response
    BY <1>0, <1>2, <2>2, EarlyShapes DEF Classified, BeforeDispatch, StreamTypes, Placed, Stages
  <2> QED BY <1>2, <2>1, <2>2 DEF Classified
<1>3. ASSUME NEW r \in Reqs, FactoryFails(r) PROVE Goal
  BY <1>3, RefusedShapes DEF FactoryFails
<1>4. ASSUME NEW r \in Reqs, FactoryBuilds(r) PROVE Goal
  <2>1. CASE ServeListen(r) /\ Goto(r, "listening") /\ UNCHANGED exchange
    BY <1>4, <2>1, ListenShapes DEF FactoryBuilds
  <2>2. CASE Goto(r, "checking") /\ UNCHANGED <<response, exchange, stream, router>>
    BY <1>0, <1>4, <2>2, EarlyShapes
    DEF FactoryBuilds, BeforeDispatch, StreamTypes, Placed, Stages
  <2>3. CASE kind[r] # "listen" /\ BeginExchange(r) /\ UNCHANGED router
    BY <1>0, <1>4, <2>3, EarlyShapes
    DEF FactoryBuilds, BeginExchange, BeforeDispatch, StreamTypes, Placed, Stages
  <2> QED BY <1>4, <2>1, <2>2, <2>3 DEF FactoryBuilds
<1>5. ASSUME NEW r \in Reqs, Checked(r) PROVE Goal
  <2>0. at[r] = "checking" /\ kind[r] # "listen"
    BY <1>0, <1>5 DEF Checked, Placed
  <2>1. CASE Goto(r, "refused") /\ Resolve(r, "error") /\ UNCHANGED <<exchange, stream>>
    BY <1>5, <2>0, <2>1, RefusedShapes DEF Checked
  <2>2. CASE BeginExchange(r)
    BY <1>0, <1>5, <2>0, <2>2, EarlyShapes
    DEF Checked, BeginExchange, BeforeDispatch, StreamTypes, Placed, Stages
  <2> QED BY <1>5, <2>1, <2>2 DEF Checked
<1>6. ASSUME NEW r \in Reqs, Dispatch(r) PROVE Goal
  <2>1. at[r] \in BeforeDispatch /\ sse[r] = "none" /\ response[r] = "none" /\ r \notin ending
    BY <1>0, <1>6 DEF Dispatch, BeforeDispatch, Placed
  <2>2. /\ at' \in [Reqs -> Stages] /\ at'[r] \in {"dispatched", "failed"}
        /\ \A q \in Reqs \ {r} : at'[q] = at[q]
    BY <1>0, <1>6 DEF Dispatch, Stages
  <2>3. UNCHANGED <<request, subs, gone, closed, frames>>
    BY <1>6 DEF Dispatch
  <2>4. /\ response' \in [Reqs -> {"none", "json", "stream", "accepted", "error", "disconnected"}]
        /\ \A q \in Reqs \ {r} : response'[q] = response[q] /\ sse'[q] = sse[q]
        /\ sse' = sse \/ sse' = [sse EXCEPT ![r] = "open"]
        /\ open' \subseteq open /\ ending' \subseteq ending \cup {r}
    <3>1. CASE r \notin open
      BY <1>0, <1>6, <3>1 DEF Dispatch, StreamTypes
    <3>2. CASE r \in open /\ UNCHANGED stream
      <4>1. open' \subseteq open /\ ending' \subseteq ending \cup {r}
        BY <1>6, <3>2 DEF Dispatch
      <4>2. \/ response' = response
            \/ Resolve(r, "disconnected") \/ Resolve(r, "accepted") \/ Resolve(r, "json")
            \/ Resolve(r, "stream")
        BY <1>6, <3>2 DEF Dispatch
      <4> QED BY <1>0, <3>2, <4>1, <4>2 DEF StreamTypes
    <3>3. CASE r \in open /\ sse' = [sse EXCEPT ![r] = "open"]
      BY <1>0, <1>6, <3>3 DEF Dispatch, StreamTypes
    <3> QED BY <1>6, <3>1, <3>2, <3>3 DEF Dispatch
  <2>5. /\ sse'[r] \in {"none", "open"}
        /\ sse'[r] = "open" => response'[r] = "stream" /\ r \notin ending'
        /\ sse'[r] = "none" => response'[r] # "stream"
        /\ r \in open' => at'[r] = "dispatched"
        /\ r \in ending' => at'[r] = "dispatched" /\ response'[r] # "none"
    BY <1>0, <1>6, <2>1 DEF Dispatch, StreamTypes
  <2>6. r \in open' => kind'[r] # "listen"
    BY <1>0, <2>3, <2>4 DEF Placed
  <2> QED BY <1>0, <2>1, <2>2, <2>3, <2>4, <2>5, <2>6, EarlyShapes DEF StreamTypes, BeforeDispatch
<1>7. ASSUME NEW r \in Reqs, EndExchange(r) PROVE Goal
  <2>1. {r} \in SUBSET Reqs /\ r \in ending /\ r \notin subs
    BY <1>0, <1>7 DEF EndExchange, Placed
  <2> QED BY <1>7, <2>1, ClosedShapes DEF EndExchange
<1>8. ASSUME NEW r \in Reqs, HandlerSends(r) PROVE Goal
  BY <1>8, WrittenShapes DEF HandlerSends
<1>9. ASSUME NEW r \in Reqs, HandlerAnswers(r) PROVE Goal
  <2>1. r \in open /\ at[r] = "dispatched" /\ r \notin subs /\ ending' = ending \cup {r}
    BY <1>0, <1>9 DEF HandlerAnswers, SendTerminal, Placed
  <2>2. CASE FinalizeStream(r, "result")
    BY <1>9, <2>1, <2>2, WrittenShapes DEF HandlerAnswers
  <2>3. CASE sse[r] = "none" /\ Resolve(r, "json") /\ UNCHANGED stream
    <3>1. StreamTypes'
      BY <1>0, <1>9, <2>1, <2>3 DEF HandlerAnswers, StreamTypes
    <3>2. ASSUME NEW q \in Reqs \ {r} PROVE Shaped(q)'
      BY <1>9, <2>1, <2>3, <3>2, Unmoved DEF HandlerAnswers, Streaming, StreamTypes
    <3>3. Shaped(r)'
      BY <1>0, <1>9, <2>1, <2>3 DEF HandlerAnswers, Streaming, StreamTypes, Shaped, Placed,
         Acknowledged, ResultIsLast, Concluded, BeforeDispatch
    <3> QED BY <3>1, <3>2, <3>3
  <2> QED BY <1>9, <2>2, <2>3 DEF HandlerAnswers, SendTerminal
<1>10. ASSUME NEW r \in Reqs, ClientLeaves(r) PROVE Goal
  <2>1. CASE r \in subs
    BY <1>10, <2>1, TeardownShapes DEF ClientLeaves
  <2>2. CASE r \notin subs
    <3>1. PICK S \in SUBSET Reqs : S \cap subs = {} /\ S \subseteq {r} /\ CloseTransports(S)
      BY <1>10, <2>2 DEF ClientLeaves
    <3> QED BY <1>10, <2>2, <3>1, ClosedShapes DEF ClientLeaves
  <2> QED BY <2>1, <2>2
<1>11. ASSUME NEW e \in Events, Publish(e) PROVE Goal
  BY <1>11, PublishShapes
<1>12. CASE Close
  BY <1>12, CloseAllShapes
<1>13. CASE UNCHANGED vars
  BY <1>13, Unmoved DEF vars, Streaming, StreamTypes
<1> QED
  BY <1>1, <1>2, <1>3, <1>4, <1>5, <1>6, <1>7, <1>8, <1>9, <1>10, <1>11, <1>12, <1>13
  DEF Next, Serve

THEOREM StreamingHolds == Spec => []Streaming
<1>1. Streaming /\ [Next]_vars => Streaming'
  BY McpHttpHandlerAssumption, StreamingStep, HoldingStep DEF Streaming
<1> QED BY <1>1, StreamingInit, PTL DEF Spec

\* In every behaviour, for every filter and every set of capabilities: a listen
\* stream opens with its acknowledgement and carries only what was honoured,
\* nothing follows a result, and no stream ends without one unless its client
\* left or the handler was closed.
THEOREM StreamsAreWellFormed == Spec => []StreamShape
<1>1. Streaming => StreamShape
  BY DEF Streaming, Shaped, StreamShape, Acknowledged, ResultIsLast, Concluded
<1> QED BY <1>1, StreamingHolds, PTL

-----------------------------------------------------------------------------
(***************************************************************************)
(* Type correctness, and the limit of open subscriptions.                  *)
(***************************************************************************)
Limits ==
  /\ responseMode \in {"auto", "json", "sse"} /\ checked \in BOOLEAN /\ closed \in BOOLEAN
  /\ gone \subseteq Reqs /\ terminal \subseteq Reqs /\ published \in 0 .. MaxPublished
  /\ Cardinality(subs) <= MaxSubscriptions

\* Every step keeps the set of subscriptions, shrinks it, or adds one to a set
\* that was below the limit.
LEMMA SubsStep ==
  ASSUME Streaming, [Next]_vars
  PROVE  \/ subs' \subseteq subs
         \/ ~AtCapacity /\ \E r \in Reqs : subs' = subs \cup {r}
<1>1. ASSUME NEW r \in Reqs, FactoryBuilds(r)
      PROVE  subs' = subs \/ (~AtCapacity /\ subs' = subs \cup {r})
  BY <1>1 DEF FactoryBuilds, ServeListen, stream, router
<1>2. ASSUME NEW r \in Reqs, ClientLeaves(r) PROVE subs' \subseteq subs
  BY <1>2 DEF ClientLeaves, Teardown, router
<1>3. ASSUME NEW r \in Reqs, Dispatch(r) PROVE subs' = subs
  BY <1>3 DEF Dispatch, router
<1> QED
  BY <1>1, <1>2, <1>3 DEF Next, Serve, Fetch, Classified, FactoryFails, Checked, EndExchange,
     HandlerSends, HandlerAnswers, Publish, Close, vars, router

LEMMA LimitsStep ==
  ASSUME McpHttpHandlerAssumption, Streaming, Limits, [Next]_vars
  PROVE  Limits'
<1>1. IsFiniteSet(subs)
  <2>1. 1 \in Int /\ MaxRequests \in Int
    BY DEF McpHttpHandlerAssumption
  <2>2. IsFiniteSet(Reqs)
    BY <2>1, FS_Interval DEF Reqs
  <2>3. subs \subseteq Reqs
    BY DEF Streaming, StreamTypes
  <2> QED BY <2>2, <2>3, FS_Subset
<1>2. Cardinality(subs) \in Nat
  BY <1>1, FS_CardinalityType
<1>3. Cardinality(subs') <= MaxSubscriptions
  <2>1. CASE subs' \subseteq subs
    <3>1. Cardinality(subs') \in Nat /\ Cardinality(subs') <= Cardinality(subs)
      BY <1>1, <2>1, FS_Subset, FS_CardinalityType
    <3> QED BY <1>2, <3>1 DEF Limits, McpHttpHandlerAssumption
  <2>2. ASSUME ~AtCapacity, NEW r \in Reqs, subs' = subs \cup {r}
        PROVE  Cardinality(subs') <= MaxSubscriptions
    <3>1. Cardinality(subs) < MaxSubscriptions
      BY <1>2, <2>2 DEF AtCapacity, McpHttpHandlerAssumption
    <3>2. \/ Cardinality(subs') = Cardinality(subs)
          \/ Cardinality(subs') = Cardinality(subs) + 1
      BY <1>1, <2>2, FS_AddElement
    <3> QED BY <1>2, <3>1, <3>2 DEF McpHttpHandlerAssumption
  <2> QED BY <2>1, <2>2, SubsStep
<1>4. gone' \subseteq Reqs /\ closed' \in BOOLEAN /\ UNCHANGED <<responseMode, checked>>
  <2>1. ASSUME NEW r \in Reqs, FactoryBuilds(r) \/ Dispatch(r) \/ ClientLeaves(r)
        PROVE  gone' \subseteq Reqs /\ closed' = closed /\ UNCHANGED <<responseMode, checked>>
    BY <2>1 DEF FactoryBuilds, Dispatch, ClientLeaves, setting, Limits
  <2> QED BY <2>1 DEF Next, Serve, Fetch, Classified, FactoryFails, Checked, EndExchange,
     HandlerSends, HandlerAnswers, Publish, Close, vars, setting, Limits
<1>5. published' \in 0 .. MaxPublished
  <2>1. ASSUME NEW r \in Reqs, FactoryBuilds(r) \/ Dispatch(r) \/ ClientLeaves(r)
        PROVE  published' = published
    BY <2>1 DEF FactoryBuilds, Dispatch, ClientLeaves
  <2>2. ASSUME NEW e \in Events, Publish(e) PROVE published' \in 0 .. MaxPublished
    BY <2>2 DEF Publish, Limits, McpHttpHandlerAssumption
  <2>3. published' = published \/ \E e \in Events : Publish(e)
    BY <2>1 DEF Next, Serve, Fetch, Classified, FactoryFails, Checked, EndExchange,
       HandlerSends, HandlerAnswers, Close, vars
  <2> QED BY <2>2, <2>3 DEF Limits
<1>6. terminal' \subseteq Reqs
  <2>1. ASSUME NEW r \in Reqs, FactoryBuilds(r) \/ Dispatch(r) \/ ClientLeaves(r)
                               \/ Checked(r) \/ HandlerAnswers(r) \/ EndExchange(r)
        PROVE  terminal' \subseteq Reqs
    BY <2>1 DEF FactoryBuilds, BeginExchange, Dispatch, ClientLeaves, CloseTransports, Checked,
       HandlerAnswers, SendTerminal, EndExchange, exchange, Limits
  <2> QED BY <2>1 DEF Next, Serve, Fetch, Classified, FactoryFails,
     HandlerSends, Publish, Close, vars, exchange, Limits
<1> QED BY <1>3, <1>4, <1>5, <1>6 DEF Limits

\* In every behaviour every variable stays in its type, and there are never more
\* open subscriptions than maxSubscriptions.
THEOREM HttpTypeCorrect == Spec => []TypeOK
<1>1. Init => Limits
  <2>1. Cardinality({}) = 0 /\ MaxPublished \in Nat /\ MaxSubscriptions \in Nat
    BY McpHttpHandlerAssumption, FS_EmptySet DEF McpHttpHandlerAssumption
  <2> SUFFICES ASSUME Init PROVE Limits
    OBVIOUS
  <2>2. Cardinality(subs) = 0
    BY <2>1 DEF Init
  <2>3. Cardinality(subs) <= MaxSubscriptions
    BY <2>1, <2>2
  <2>4. published \in 0 .. MaxPublished
    BY <2>1 DEF Init
  <2> QED BY <2>3, <2>4 DEF Init, Limits
<1>2. Streaming /\ Limits /\ [Next]_vars => Limits'
  BY McpHttpHandlerAssumption, LimitsStep
<1>3. Streaming /\ Limits => TypeOK
  BY DEF Streaming, StreamTypes, Limits, TypeOK, Frames
<1> QED BY <1>1, <1>2, <1>3, StreamingHolds, PTL DEF Spec
=============================================================================
