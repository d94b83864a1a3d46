-------------------------- MODULE ProtocolRequests --------------------------
(***************************************************************************)
(* The requester half of class Protocol                                    *)
(* (packages/core-internal/src/shared/protocol.ts): one Client or Server   *)
(* object that issues requests, and everything that can end one of them -  *)
(* an answer, the caller's AbortSignal, the per-request timer, progress    *)
(* that finds maxTotalTimeout spent, a failed send, or a transport close.  *)
(*                                                                         *)
(* The program is one JavaScript event loop.  Each action below is one     *)
(* callback run to completion.  Three things run inside a tick and  *)
(* are therefore visible as states: a transport handing over several       *)
(* messages from one read (`reading'), the microtasks queued by a settled  *)
(* promise or by an inbound notification (`cleanupDue', `progressDue'),    *)
(* and the user's onclose callback, which _onclose calls between detaching *)
(* its maps and rejecting the requests in them (`inOnclose').              *)
(***************************************************************************)
EXTENDS Naturals

CONSTANTS
  Transports,        \* the transport objects this Protocol is ever connected to
  NoTransport,       \* `undefined' in this._transport
  PerRequestStream,  \* modern-era transports with hasPerRequestStream
  MaxRequests,       \* bound: number of request() calls that allocate a message id
  Options,           \* the RequestOptions callers choose from
  MaxTime,           \* bound: the clock stops here
  Overlap,           \* may connect() be called while a transport is attached?
  Reentrant          \* may the user's onclose callback connect, request or abort?

Ids == 0 .. MaxRequests - 1

ASSUME RequestsAssumption ==
  /\ NoTransport \notin Transports
  /\ PerRequestStream \subseteq Transports
  /\ MaxRequests \in Nat
  /\ MaxTime \in Nat
  /\ Overlap \in BOOLEAN
  /\ Reentrant \in BOOLEAN
  /\ Options \subseteq [timeout : Nat \ {0}, maxTotal : Nat, reset : BOOLEAN,
                        onprogress : BOOLEAN, handshake : BOOLEAN]

VARIABLES
  transport,         \* this._transport
  open,              \* transports wired to this Protocol whose onclose has not fired
  used,              \* transports ever connected; a started transport is not restarted
  nextId,            \* this._requestMessageId
  responseHandlers,  \* keys of this._responseHandlers
  progressHandlers,  \* keys of this._progressHandlers
  timeoutInfo,       \* keys of this._timeoutInfo
  armed,             \* requests whose setTimeout timer is running
  deadline,          \* when that timer fires
  startTime,         \* TimeoutInfo.startTime
  opts,              \* the options each request is issued with
  promise,           \* the promise request() returned
  responseReceived,  \* requests whose `responseReceived' flag is set
  aborted,           \* requests whose caller's signal is aborted
  listening,         \* requests with their onAbort listener attached
  sentOn,            \* the transport a request was handed to
  sending,           \* requests whose transport.send() has not settled
  cancels,           \* how many notifications/cancelled went out, per request and transport
  streamAborted,     \* requests whose per-request stream was aborted
  progressDue,       \* progress notifications read, handler microtask still queued
  cleanupDue,        \* settled requests whose .finally() microtask is still queued
  reading,           \* a transport is handing over the messages of one read
  inOnclose,         \* the user's onclose callback is running
  closing,           \* _onclose's local snapshot of the response handlers
  now                \* Date.now()

maps  == <<responseHandlers, progressHandlers, timeoutInfo>>
timer == <<armed, deadline, startTime>>
conn  == <<transport, open, used>>
wire  == <<sentOn, sending, cancels, streamAborted>>
call  == <<promise, responseReceived, aborted, listening>>
loop  == <<progressDue, cleanupDue, reading, inOnclose, closing>>
vars  == <<conn, maps, timer, call, wire, loop, nextId, opts, now>>

Settled == {"resolved", "error", "timeout", "aborted", "closed", "sendFailed"}
Status  == {"unsent", "pending", "validating", "driving"} \cup Settled

Init ==
  /\ transport = NoTransport /\ open = {} /\ used = {}
  /\ nextId = 0
  /\ responseHandlers = {} /\ progressHandlers = {} /\ timeoutInfo = {}
  /\ armed = {}
  /\ deadline = [i \in Ids |-> 0] /\ startTime = [i \in Ids |-> 0]
  /\ opts \in [Ids -> Options]
  /\ promise = [i \in Ids |-> "unsent"]
  /\ responseReceived = {} /\ aborted = {} /\ listening = {}
  /\ sentOn = [i \in Ids |-> NoTransport]
  /\ sending = {}
  /\ cancels = [i \in Ids |-> [t \in Transports |-> 0]]
  /\ streamAborted = {}
  /\ progressDue = {} /\ cleanupDue = {}
  /\ reading = FALSE /\ inOnclose = FALSE /\ closing = {}
  /\ now = 0

(***************************************************************************)
(* Where the event loop is.  Settling a promise queues its .finally() at   *)
(* once, ahead of every continuation of that promise, so application code  *)
(* sees a settled request only after its cleanup; an inbound notification  *)
(* queues a handler that application code may well precede.                *)
(***************************************************************************)
MayRunMicrotask == ~reading /\ ~inOnclose

Quiet == MayRunMicrotask /\ cleanupDue = {}

\* Between two macrotasks the microtask queue is empty.
Idle == Quiet /\ progressDue = {}

\* Application code runs as a task, a continuation, or the onclose callback.
AppMayRun == Quiet \/ (Reentrant /\ inOnclose)

\* A transport delivers a message: a read begins, or the current one goes on.
MayRead == reading \/ Idle

(***************************************************************************)
(* Settling.  The first resolve or reject of a promise wins; the ones that *)
(* follow are ignored.  Settling queues the .finally() of the request.     *)
(***************************************************************************)
MutUnsettled(i) == promise[i] # "unsent"  \* mutant: the last settlement wins

Unsettled(i) == promise[i] \in {"pending", "validating"}

Settle(i, outcome) ==
  /\ promise' = IF Unsettled(i) THEN [promise EXCEPT ![i] = outcome] ELSE promise
  /\ cleanupDue' = IF Unsettled(i) THEN cleanupDue \cup {i} ELSE cleanupDue

\* mutant: an exit path that forgets the progress handler
MutForgetProgress(i) == UNCHANGED progressHandlers

ForgetProgress(i) == progressHandlers' = progressHandlers \ {i}

\* _cleanupTimeout: a timer is cleared only through its timeoutInfo entry.
CleanupTimeout(i) ==
  /\ timeoutInfo' = timeoutInfo \ {i}
  /\ armed' = armed \ ({i} \cap timeoutInfo)

(***************************************************************************)
(* connect(): the new transport replaces whatever is attached.             *)
(***************************************************************************)
Connect(t) ==
  /\ AppMayRun
  /\ t \notin used
  /\ Overlap \/ transport = NoTransport
  /\ transport' = t
  /\ open' = open \cup {t}
  /\ used' = used \cup {t}
  /\ UNCHANGED <<maps, timer, call, wire, loop, nextId, opts, now>>

(***************************************************************************)
(* request() on an attached transport.  The last conjunct of the guard is  *)
(* the clock bound: the request can be over before the clock stops.        *)
(***************************************************************************)
Request ==
  /\ AppMayRun
  /\ transport # NoTransport
  /\ nextId < MaxRequests
  /\ LET i == nextId
         o == opts[i]
     IN /\ now + o.timeout + o.maxTotal <= MaxTime
        /\ nextId' = i + 1
        /\ progressHandlers' = IF o.onprogress THEN progressHandlers \cup {i}
                                               ELSE progressHandlers
        /\ responseHandlers' = responseHandlers \cup {i}
        /\ timeoutInfo' = timeoutInfo \cup {i}
        /\ armed' = armed \cup {i}
        /\ deadline' = [deadline EXCEPT ![i] = now + o.timeout]
        /\ startTime' = [startTime EXCEPT ![i] = now]
        /\ listening' = listening \cup {i}
        /\ promise' = [promise EXCEPT ![i] = "pending"]
        /\ sentOn' = [sentOn EXCEPT ![i] = transport]
        /\ sending' = sending \cup {i}
  /\ UNCHANGED <<conn, responseReceived, aborted, cancels, streamAborted, loop, opts, now>>

\* The promise of transport.send() resolves.
SendDone(i) ==
  /\ Quiet
  /\ i \in sending
  /\ sending' = sending \ {i}
  /\ UNCHANGED <<conn, maps, timer, call, sentOn, cancels, streamAborted, loop, nextId, opts, now>>

\* The promise of transport.send() rejects.
SendFails(i) ==
  /\ Quiet
  /\ i \in sending
  /\ sending' = sending \ {i}
  /\ ForgetProgress(i)
  /\ Settle(i, "sendFailed")
  /\ UNCHANGED <<conn, responseHandlers, timeoutInfo, timer, responseReceived, aborted, listening,
                 sentOn, cancels, streamAborted, progressDue, reading, inOnclose, closing,
                 nextId, opts, now>>

(***************************************************************************)
(* cancel(): shared by the abort listener and the timer.                   *)
(***************************************************************************)
\* `initialize' is pinned to the legacy codec, whatever the transport.
StreamCloseCancels(i) == sentOn[i] \in PerRequestStream /\ ~opts[i].handshake

MutAnswered(i) == FALSE  \* mutant: cancel() without its early return

Answered(i) == i \in responseReceived

MutCancellable(i) == TRUE  \* mutant: the handshake is cancelled like any request

Cancellable(i) == ~opts[i].handshake

Cancel(i, why) ==
  IF Answered(i)
  THEN UNCHANGED <<progressHandlers, cancels, streamAborted, promise, cleanupDue>>
  ELSE /\ ForgetProgress(i)
       /\ IF StreamCloseCancels(i)
          THEN streamAborted' = streamAborted \cup {i} /\ UNCHANGED cancels
          ELSE /\ UNCHANGED streamAborted
               /\ cancels' = IF Cancellable(i) /\ transport # NoTransport
                             THEN [cancels EXCEPT ![i][transport] = @ + 1]
                             ELSE cancels
       /\ Settle(i, why)

\* The caller aborts the signal it passed; the listener is registered once.
Abort(i) ==
  /\ AppMayRun
  /\ i < nextId
  /\ i \notin aborted
  /\ aborted' = aborted \cup {i}
  /\ listening' = listening \ {i}
  /\ IF i \in listening
     THEN Cancel(i, "aborted")
     ELSE UNCHANGED <<progressHandlers, cancels, streamAborted, promise, cleanupDue>>
  /\ UNCHANGED <<conn, responseHandlers, timeoutInfo, timer, responseReceived, sentOn, sending,
                 progressDue, reading, inOnclose, closing, nextId, opts, now>>

\* timeoutHandler: the setTimeout callback of request i.
TimerFires(i) ==
  /\ Idle
  /\ i \in armed
  /\ deadline[i] <= now
  /\ armed' = armed \ {i}
  /\ Cancel(i, "timeout")
  /\ UNCHANGED <<conn, responseHandlers, timeoutInfo, deadline, startTime, responseReceived,
                 aborted, listening, sentOn, sending, progressDue, reading, inOnclose, closing,
                 nextId, opts, now>>

(***************************************************************************)
(* _onresponse.  A peer answers the requests it was sent, over the         *)
(* transport it was sent them on - possibly late, possibly twice.  `body'  *)
(* is what decoding the answer yields: an error (an error response, or a   *)
(* body the codec refuses), a complete result that goes to schema          *)
(* validation, or input_required, handed to the multi-round-trip driver.   *)
(***************************************************************************)
\* mutant: input_required is handed to the caller undriven
MutAfterDecode == [error |-> "error", complete |-> "validating", input |-> "input_required"]

AfterDecode == [error |-> "error", complete |-> "validating", input |-> "driving"]

OnResponse(i, body) ==
  /\ MayRead
  /\ i < nextId /\ sentOn[i] \in open
  /\ reading' = TRUE
  /\ IF i \notin responseHandlers
     THEN UNCHANGED <<maps, timer, promise, responseReceived, cleanupDue>>
     ELSE /\ responseHandlers' = responseHandlers \ {i}
          /\ ForgetProgress(i)
          /\ CleanupTimeout(i)
          /\ UNCHANGED <<deadline, startTime>>
          /\ IF i \in aborted
             THEN UNCHANGED <<promise, responseReceived, cleanupDue>>
             ELSE /\ responseReceived' = responseReceived \cup {i}
                  /\ IF body = "error"
                     THEN Settle(i, "error")
                     ELSE /\ promise' = IF Unsettled(i)
                                        THEN [promise EXCEPT ![i] = AfterDecode[body]]
                                        ELSE promise
                          /\ UNCHANGED cleanupDue
  /\ UNCHANGED <<conn, aborted, listening, wire, progressDue, inOnclose, closing, nextId, opts, now>>

\* Schema validation, or the multi-round-trip driver, comes to an end.
Decide(i, outcome) ==
  /\ Quiet
  /\ promise[i] \in {"validating", "driving"}
  /\ promise' = [promise EXCEPT ![i] = outcome]
  /\ cleanupDue' = cleanupDue \cup {i}
  /\ UNCHANGED <<conn, maps, timer, responseReceived, aborted, listening, wire, progressDue,
                 reading, inOnclose, closing, nextId, opts, now>>

(***************************************************************************)
(* notifications/progress: _onnotification only queues the handler ...     *)
(***************************************************************************)
ReadProgress(i) ==
  /\ MayRead
  /\ i < nextId /\ sentOn[i] \in open /\ opts[i].onprogress
  /\ reading' = TRUE
  /\ progressDue' = progressDue \cup {i}
  /\ UNCHANGED <<conn, maps, timer, call, wire, cleanupDue, inOnclose, closing, nextId, opts, now>>

\* The synchronous part of the read is over.
ReadEnds ==
  /\ reading
  /\ reading' = FALSE
  /\ UNCHANGED <<conn, maps, timer, call, wire, progressDue, cleanupDue, inOnclose, closing,
                 nextId, opts, now>>

(***************************************************************************)
(* ... and _onprogress runs from the microtask queue.                      *)
(***************************************************************************)
ResetsTimeout(i) ==
  i \in progressHandlers \cap timeoutInfo \cap responseHandlers /\ opts[i].reset

\* mutant: elapsed time is measured from the last restart
MutBudgetSpent(i) ==
  opts[i].maxTotal > 0 /\ now + opts[i].timeout >= deadline[i] + opts[i].maxTotal

BudgetSpent(i) == opts[i].maxTotal > 0 /\ now >= startTime[i] + opts[i].maxTotal

\* _resetTimeout deletes the entry before it throws, so the _cleanupTimeout of
\* the catch block finds nothing: the timer keeps running.
TotalTimeoutExceeded(i) ==
  /\ ResetsTimeout(i) /\ BudgetSpent(i)
  /\ timeoutInfo' = timeoutInfo \ {i}
  /\ UNCHANGED <<armed, deadline>>
  /\ responseHandlers' = responseHandlers \ {i}
  /\ ForgetProgress(i)
  /\ IF i \in aborted
     THEN UNCHANGED <<promise, responseReceived>> /\ UNCHANGED cleanupDue
     ELSE responseReceived' = responseReceived \cup {i} /\ Settle(i, "timeout")

TimeoutRestarted(i) ==
  /\ ResetsTimeout(i) /\ ~BudgetSpent(i)
  /\ armed' = armed \cup {i}
  /\ deadline' = [deadline EXCEPT ![i] = now + opts[i].timeout]
  /\ UNCHANGED <<maps, promise, responseReceived, cleanupDue>>

OnlyReported(i) ==
  /\ ~ResetsTimeout(i)
  /\ UNCHANGED <<maps, armed, deadline, promise, responseReceived, cleanupDue>>

RunProgress(i) ==
  /\ MayRunMicrotask
  /\ i \in progressDue
  /\ progressDue' = progressDue \ {i}
  /\ TotalTimeoutExceeded(i) \/ TimeoutRestarted(i) \/ OnlyReported(i)
  /\ UNCHANGED <<conn, startTime, aborted, listening, wire, reading, inOnclose, closing,
                 nextId, opts, now>>

(***************************************************************************)
(* The .finally() of request().                                            *)
(***************************************************************************)
Cleanup(i) ==
  /\ MayRunMicrotask
  /\ i \in cleanupDue
  /\ cleanupDue' = cleanupDue \ {i}
  /\ listening' = listening \ {i}
  /\ responseHandlers' = responseHandlers \ {i}
  /\ CleanupTimeout(i)
  /\ UNCHANGED <<conn, progressHandlers, deadline, startTime, promise, responseReceived, aborted,
                 wire, progressDue, reading, inOnclose, closing, nextId, opts, now>>

(***************************************************************************)
(* _onclose, wired to every transport ever connected and run whichever of  *)
(* them closes: the maps are detached, then the user's callback runs ...   *)
(***************************************************************************)
CloseBegins(t) ==
  /\ Quiet
  /\ t \in open
  /\ open' = open \ {t}
  /\ closing' = responseHandlers
  /\ responseHandlers' = {}
  /\ progressHandlers' = {}
  /\ armed' = armed \ timeoutInfo
  /\ timeoutInfo' = {}
  /\ transport' = NoTransport
  /\ inOnclose' = TRUE
  /\ UNCHANGED <<used, deadline, startTime, call, wire, progressDue, cleanupDue, reading,
                 nextId, opts, now>>

\* mutants: the maps are emptied and nobody is told; no snapshot is taken
MutRejectNobody == {}
MutRejectCurrent == (closing \cup responseHandlers) \ aborted

Rejected == closing \ aborted

\* ... then every detached response handler is called with ConnectionClosed.
CloseEnds ==
  LET settling == {i \in Rejected : Unsettled(i)}
  IN /\ inOnclose
     /\ inOnclose' = FALSE
     /\ closing' = {}
     /\ responseReceived' = responseReceived \cup Rejected
     /\ promise' = [i \in Ids |-> IF i \in settling THEN "closed" ELSE promise[i]]
     /\ cleanupDue' = cleanupDue \cup settling
     /\ UNCHANGED <<conn, maps, timer, aborted, listening, wire, progressDue, reading,
                    nextId, opts, now>>

\* Time passes between ticks; a timer that is due runs before it moves on.
Tick ==
  /\ Idle
  /\ now < MaxTime
  /\ \A i \in armed : deadline[i] > now
  /\ now' = now + 1
  /\ UNCHANGED <<conn, maps, timer, call, wire, loop, nextId, opts>>

Microtask == \E i \in Ids : RunProgress(i) \/ Cleanup(i)

Next ==
  \/ \E t \in Transports : Connect(t) \/ CloseBegins(t)
  \/ Request
  \/ \E i \in Ids : SendDone(i) \/ SendFails(i) \/ Abort(i) \/ TimerFires(i) \/ ReadProgress(i)
  \/ \E i \in Ids, body \in DOMAIN AfterDecode : OnResponse(i, body)
  \/ \E i \in Ids, outcome \in {"resolved", "error"} : Decide(i, outcome)
  \/ ReadEnds \/ Microtask \/ CloseEnds \/ Tick

Spec == Init /\ [][Next]_vars

(***************************************************************************)
(* What the event loop owes: a callback returns, a queued microtask runs,  *)
(* time passes, and a due timer fires however many reads come in between   *)
(* (every turn of the loop visits the timers).  Peers, callers and         *)
(* transports owe nothing.                                                 *)
(***************************************************************************)
Fairness ==
  /\ WF_vars(ReadEnds) /\ WF_vars(CloseEnds)
  /\ SF_vars(Tick)
  /\ \A i \in Ids : WF_vars(RunProgress(i)) /\ WF_vars(Cleanup(i)) /\ SF_vars(TimerFires(i))

FairSpec == Spec /\ Fairness

-----------------------------------------------------------------------------
(***************************************************************************)
(* Type correctness.                                                       *)
(***************************************************************************)
\* Every variable stays in its type, and a request nobody issued has left no
\* trace in the maps of the Protocol object.
TypeOK ==
  /\ transport \in Transports \cup {NoTransport}
  /\ open \subseteq Transports /\ used \subseteq Transports
  /\ nextId \in 0 .. MaxRequests
  /\ responseHandlers \subseteq Ids /\ progressHandlers \subseteq Ids
  /\ timeoutInfo \subseteq Ids /\ armed \subseteq Ids
  /\ deadline \in [Ids -> Nat] /\ startTime \in [Ids -> Nat]
  /\ opts \in [Ids -> Options]
  /\ promise \in [Ids -> Status]
  /\ responseReceived \subseteq Ids /\ aborted \subseteq Ids /\ listening \subseteq Ids
  /\ sentOn \in [Ids -> Transports \cup {NoTransport}]
  /\ sending \subseteq Ids /\ streamAborted \subseteq Ids
  /\ cancels \in [Ids -> [Transports -> Nat]]
  /\ progressDue \subseteq Ids /\ cleanupDue \subseteq Ids /\ closing \subseteq Ids
  /\ reading \in BOOLEAN /\ inOnclose \in BOOLEAN
  /\ now \in 0 .. MaxTime

Pending(i) == promise[i] = "pending"

\* A request that is over, its .finally() included.
Finished(i) == promise[i] \in Settled /\ i \notin cleanupDue

(***************************************************************************)
(* Safety.                                                                 *)
(***************************************************************************)
\* A request the caller still waits for can always be ended: an answer would
\* find its handler and its timer is running, unless _onclose has detached it
\* and is about to reject it (the maps of _requestWithSchemaViaCodec, read
\* and emptied by _onresponse, _onprogress, _onclose and .finally()).
NeverStranded ==
  \A i \in Ids : Pending(i) =>
    \/ i \in responseHandlers \cap timeoutInfo \cap armed
    \/ inOnclose /\ i \in closing

\* A finished request leaves nothing behind in the maps and no listener on the
\* caller's signal, whichever way it ended (the .finally() comment: "cleanup
\* that must run on every exit path ... error paths above delete it inline").
NothingLeftBehind ==
  \A i \in Ids : Finished(i) =>
    i \notin responseHandlers \cup progressHandlers \cup timeoutInfo \cup listening

\* The longest a caller waits: `timeout' when progress does not restart the
\* timer, and maxTotalTimeout plus one more `timeout' when it does and a total
\* is set, because _resetTimeout re-arms the timer for a full period.
WaitIsBounded ==
  \A i \in Ids : Pending(i) =>
    LET o == opts[i]
    IN /\ ~o.reset => now <= startTime[i] + o.timeout
       /\ o.maxTotal > 0 => now <= startTime[i] + o.maxTotal + o.timeout

\* A cancellation goes to the peer that holds the request and never names the
\* handshake: ids are unique per Protocol object and not per connection, but
\* cancel() sends on whatever this._transport is by then.
CancelReachesItsPeer ==
  \A i \in Ids, t \in Transports : cancels[i][t] > 0 =>
    t = sentOn[i] /\ cancels[i][t] = 1 /\ ~opts[i].handshake

\* ConnectionClosed is reported only for a connection that is gone: a request
\* issued from inside the onclose callback, on the next transport, survives
\* the rejections that follow it (the map swap of _onclose).
ClosedMeansGone ==
  \A i \in Ids : promise[i] = "closed" => sentOn[i] \notin open

(***************************************************************************)
(* What a step may never do.                                               *)
(***************************************************************************)
\* Once the answer to a request was taken, or its failure reported, nothing
\* cancels it: not the caller's abort during validation, not the timer that
\* _resetTimeout leaves running (the responseReceived flag and .finally()).
NoCancelOnceAnswered ==
  [][\A i \in Ids : (cancels'[i] # cancels[i] \/ i \in streamAborted' \ streamAborted)
                      => Pending(i)]_vars

(***************************************************************************)
(* Liveness.                                                               *)
(***************************************************************************)
\* A caller whose wait is limited - no restart on progress, or a total - is
\* not left waiting: the peer may stay silent, send progress for ever, or go.
EveryWaitEnds ==
  \A i \in Ids :
    (Pending(i) /\ (opts[i].maxTotal > 0 \/ ~opts[i].reset)) ~> ~Pending(i)
=============================================================================
