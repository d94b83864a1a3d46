--------------------------- MODULE MultiRoundTrip ---------------------------
(***************************************************************************)
(* One call whose handler asks for input, in both eras.  Modern: the       *)
(* client's driver (inputRequiredDriver.ts, inputRequiredEngine.ts) runs   *)
(* the embedded requests and asks again, a leg for each round.  Legacy:    *)
(* the server's shim (legacyInputRequiredShim.ts) sends them to the client *)
(* while the one request of the call waits.  Both loops go by the same     *)
(* steps here; what differs is where they run, what ends them and how a    *)
(* dispatch of theirs learns that it is off.                               *)
(*                                                                         *)
(* A dispatched request on its way counts as running, its response comes   *)
(* home in the step that ends its handler, and both sides see a lost       *)
(* connection at once.  The loops have one maxRounds.                      *)
(***************************************************************************)
EXTENDS Integers

CONSTANTS
  Keys,      \* the keys of inputRequests
  MaxRounds, \* maxRounds of driver and shim
  Calls,     \* the era and the request options of the call
  MaxLosses  \* bound: connections lost

ASSUME MultiRoundTripAssumption ==
  /\ MaxRounds \in Nat \ {0} /\ MaxLosses \in Nat
  /\ \A c \in Calls : /\ c.modern \in BOOLEAN /\ c.timeout \in Nat \ {0}
                      /\ c.resets \in BOOLEAN /\ c.total \in Nat

VARIABLES
  call,      \* the era and the options; a total of 0 is none
  client,    \* where request() stands; "between" is the driver's
  aborted,   \* the caller's signal
  timer,     \* time left to the leg; -1: no timer
  budget,    \* time left of the total of the call
  legTotal,  \* the same as the leg was told
  leg,       \* what the request of the leg carries
  server,    \* where the request of the leg stands at the server
  signal,    \* its abort signal there
  answer,    \* the answer on its way
  loop,      \* driver or shim
  round,     \* rounds it began
  payload,   \* the inputRequests and the requestState of its round
  running,   \* the dispatched requests whose handlers run
  stopping,  \* those that run on although they are off
  responses, \* those of the round that have a response
  link,      \* the connection is up
  losses,    \* connections lost so far
  entries,   \* how often the handler was entered
  given,     \* what its last entry was given
  returned   \* what its last entry returned

caller == <<client, aborted, timer, budget, legTotal>>
served == <<server, signal, entries, given, returned>>
looped == <<loop, round, payload, running, stopping, responses>>
wired  == <<leg, answer, link, losses>>
vars   == <<call, caller, served, looped, wired>>

Outcome == IF client \in {"result", "failed"} THEN client ELSE "open"

\* What the handler sees of it, whoever runs the loop.
R == INSTANCE InputRounds WITH outcome <- Outcome

Complete == R!Complete
Error    == R!Error
None     == R!Return("none", {}, 0)
NoInput  == R!NoInput
NoTimer  == -1

Init ==
  /\ call \in Calls
  /\ client = "idle" /\ aborted = FALSE
  /\ timer = NoTimer /\ budget = 0 /\ legTotal = 0
  /\ leg = NoInput /\ server = "idle" /\ signal = "live" /\ answer = None
  /\ loop = "none" /\ round = 0 /\ payload = None
  /\ running = {} /\ stopping = {} /\ responses = {}
  /\ entries = 0 /\ given = NoInput /\ returned = Complete
  /\ link = TRUE /\ losses = 0

Limited == call.total > 0

(***************************************************************************)
(* The request of a leg, at the client.                                    *)
(***************************************************************************)
\* mutant: every leg is given the whole total again
MutRemaining == call.total
\* Time a retry is given in all: what the flow has left.
Remaining == budget

MutLegTimer == NoTimer  \* mutant: no timer is set up
LegTimer == call.timeout

SendLeg(input, total) ==
  /\ client' = "asking" /\ timer' = LegTimer /\ legTotal' = total
  /\ leg' = input /\ server' = "asked" /\ signal' = "live"

Call ==
  /\ client = "idle" /\ link
  /\ SendLeg(NoInput, call.total)
  /\ budget' = call.total
  /\ UNCHANGED <<call, aborted, entries, given, returned, looped, answer, link, losses>>

Settle(end) == client' = end /\ timer' = NoTimer

\* notifications/cancelled, or the end of the stream of the leg.
SendCancel == signal' = IF link /\ signal = "live" THEN "cancelling" ELSE signal

TimerFires ==
  /\ client = "asking" /\ timer = 0
  /\ Settle("failed") /\ SendCancel
  /\ UNCHANGED <<call, aborted, budget, legTotal, server, entries, given, returned, looped, wired>>

\* Progress of the handler restarts the timer, unless the total is spent: then
\* the call is over, and the server is not told.
Progress ==
  /\ client = "asking" /\ link /\ server = "running" /\ call.resets
  /\ IF Limited /\ legTotal <= 0 THEN Settle("failed") ELSE timer' = LegTimer /\ UNCHANGED client
  /\ UNCHANGED <<call, aborted, budget, legTotal, served, looped, wired>>

\* What the answer of a leg does to request().  The driver, once it runs, is
\* handed a further input_required answer.
Receive ==
  /\ answer # None /\ link
  /\ answer' = None
  /\ IF client # "asking" THEN UNCHANGED <<caller, loop, payload>>
     ELSE /\ \/ answer = Complete /\ Settle("result") /\ UNCHANGED <<loop, payload>>
             \/ answer = Error /\ Settle("failed") /\ UNCHANGED <<loop, payload>>
             \/ /\ answer.kind = "input" /\ Settle("between")
                /\ loop' = "starting" /\ payload' = answer
          /\ UNCHANGED <<aborted, budget, legTotal>>
  /\ UNCHANGED <<call, served, round, running, stopping, responses, leg, link, losses>>

(***************************************************************************)
(* Time.                                                                   *)
(***************************************************************************)
Floor == -(call.timeout + 1)

Tick ==
  /\ client \in {"asking", "between"} /\ timer # 0
  /\ timer # NoTimer \/ (Limited /\ budget > Floor)
  /\ timer' = IF timer = NoTimer THEN NoTimer ELSE timer - 1
  /\ budget' = IF Limited /\ budget > Floor THEN budget - 1 ELSE budget
  /\ legTotal' = IF Limited /\ legTotal > Floor THEN legTotal - 1 ELSE legTotal
  /\ UNCHANGED <<call, client, aborted, served, looped, wired>>

(***************************************************************************)
(* The request at the server.                                              *)
(***************************************************************************)
Enters(input) ==
  /\ server' = "running"
  /\ entries' = entries + 1 /\ given' = input /\ returned' = R!Running

\* A requestState goes through the verify hook before the handler sees it.
Hand(input) ==
  IF input.state # 0
  THEN server' = "verifying" /\ UNCHANGED <<entries, given, returned>>
  ELSE Enters(input)

Arrives ==
  /\ server = "asked" /\ link
  /\ Hand(leg)
  /\ UNCHANGED <<call, caller, signal, looped, wired>>

\* A cancelled request is never answered.
Answers(a) ==
  /\ server' = "done"
  /\ answer' = IF link /\ signal # "aborted" THEN a ELSE answer

Verified ==
  /\ server = "verifying"
  /\ \/ Enters(leg) /\ UNCHANGED answer
     \/ Answers(Error) /\ UNCHANGED <<entries, given, returned>>
  /\ UNCHANGED <<call, caller, signal, looped, leg, link, losses>>

\* "Every InputRequiredResult must include at least one of the two."
Empty(r) == r.asks = {} /\ r.state = 0

\* The declared capabilities may not cover an embedded request.
Uncovered(r) == r.asks # {}

HandlerReturns ==
  /\ server = "running"
  /\ returned' \in {Complete, Error} \cup R!InputReturns(entries)
  /\ \/ /\ returned'.kind # "input" /\ Answers(returned')
        /\ UNCHANGED looped
     \/ /\ returned'.kind = "input" /\ call.modern
        /\ \/ ~Empty(returned') /\ Answers(returned')
           \/ (Empty(returned') \/ Uncovered(returned')) /\ Answers(Error)
        /\ UNCHANGED looped
     \/ /\ returned'.kind = "input" /\ ~call.modern
        /\ server' = "looping" /\ loop' = "starting" /\ payload' = returned'
        /\ UNCHANGED <<answer, round, running, stopping, responses>>
  /\ UNCHANGED <<call, caller, signal, entries, given, leg, link, losses>>

(***************************************************************************)
(* A round of the loop.                                                    *)
(***************************************************************************)
\* The loop gives up: the call of the driver rejects, the shim answers a
\* failure.  What it still runs is told to stop, by a signal or a message.
Fails ==
  /\ loop' = "none"
  /\ IF call.modern THEN Settle("failed") /\ UNCHANGED <<server, answer>>
     ELSE Answers(Error) /\ UNCHANGED <<client, timer>>

\* mutant: the failure of one does not abort its siblings
MutStopRest(rest) == running' = rest /\ stopping' = stopping
StopRest(rest) == running' = {} /\ stopping' = stopping \cup rest

\* The signal the loop runs under.
LoopAborted == IF call.modern THEN aborted ELSE signal = "aborted"

MutCapReached == round > MaxRounds  \* mutant: checked before the round is counted
CapReached == round = MaxRounds

\* The round is dispatched; a handler started with an aborted signal is off
\* from the start, and the shim then sends nothing.
Dispatch ==
  /\ loop' = "fulfilling" /\ responses' = {}
  /\ running' = IF LoopAborted THEN {} ELSE payload.asks
  /\ stopping' = IF LoopAborted THEN payload.asks ELSE {}
  /\ UNCHANGED <<client, timer, server, answer>>

Pace ==
  /\ loop' = "pacing" /\ responses' = {}
  /\ UNCHANGED <<client, timer, server, answer, running, stopping>>

\* A signal that is aborted already fails the shim's requests, and the sleep of
\* either loop, at once.
BeginFails ==
  \/ CapReached
  \/ LoopAborted /\ (payload.asks = {} \/ ~call.modern)
  \/ ~call.modern /\ Empty(payload)

\* The shim's own capability check.
Refused == ~call.modern /\ Uncovered(payload)

GiveUp == Fails /\ UNCHANGED <<running, stopping, responses>>

BeginRound ==
  /\ loop = "starting"
  /\ IF BeginFails THEN GiveUp
     ELSE \/ Refused /\ GiveUp
          \/ IF payload.asks = {} THEN Pace ELSE Dispatch
  /\ round' = IF CapReached THEN round ELSE round + 1
  /\ UNCHANGED <<call, aborted, budget, legTotal, signal, entries, given, returned,
                 payload, leg, link, losses>>

\* A dispatched request has its response.  A handler that ignores its signal
\* counts like any other with the driver; the shim has forgotten it.
Fulfilled(d) ==
  /\ loop = "fulfilling" /\ d \in running \cup (IF call.modern THEN stopping ELSE {})
  /\ running' = running \ {d} /\ stopping' = stopping \ {d}
  /\ responses' = responses \cup {d}
  /\ UNCHANGED <<call, caller, served, loop, round, payload, wired>>

\* It fails, and its siblings are aborted.
Rejected(d) ==
  /\ loop = "fulfilling" /\ d \in running \cup (IF call.modern THEN stopping ELSE {})
  /\ Fails /\ StopRest(running \ {d})
  /\ UNCHANGED <<call, aborted, budget, legTotal, signal, entries, given, returned,
                 round, payload, responses, leg, link, losses>>

\* roundTimeoutMs of a request of the shim.
DispatchTimesOut(d) ==
  /\ ~call.modern /\ loop = "fulfilling" /\ d \in running
  /\ Fails /\ StopRest(running)
  /\ UNCHANGED <<call, aborted, budget, legTotal, signal, entries, given, returned,
                 round, payload, responses, leg, link, losses>>

\* A handler that is off ends, or the cancellation of the shim reaches it.
Stops(d) ==
  /\ d \in stopping /\ loop # "fulfilling"
  /\ stopping' = stopping \ {d}
  /\ UNCHANGED <<call, caller, served, loop, round, payload, running, responses, wired>>

\* mutant: responses accumulate over the rounds
MutNextInput == R!Input(responses \cup given.responses, payload.state)
\* What the handler is given next: the responses of this round, the state as
\* it came.
NextInput == R!Input(responses, payload.state)

RoundOver == loop = "pacing" \/ (loop = "fulfilling" /\ responses = payload.asks)

\* The driver issues the next leg, unless the total is spent or request() refuses.
Retry ==
  IF (Limited /\ budget <= 0) \/ ~link \/ aborted
  THEN /\ Settle("failed")
       /\ UNCHANGED <<legTotal, leg, server, signal>>
  ELSE SendLeg(NextInput, Remaining)

EndRound ==
  /\ RoundOver
  /\ loop' = "none"
  /\ \/ call.modern /\ Retry /\ UNCHANGED <<entries, given, returned>>
     \/ /\ ~call.modern /\ Hand(NextInput) /\ leg' = NextInput
        /\ UNCHANGED <<client, timer, legTotal, signal>>
  /\ UNCHANGED <<call, aborted, budget, round, payload, running, stopping, responses,
                 answer, link, losses>>

(***************************************************************************)
(* The caller's signal, and the connection.                                *)
(***************************************************************************)
\* An aborted signal ends the sleep of a loop; the requests of the shim reject
\* with it, while the handlers of the driver have the last word.
Interrupt ==
  \/ loop = "pacing" /\ Fails /\ UNCHANGED <<running, stopping>>
  \/ loop = "fulfilling" /\ StopRest(running)
     /\ IF call.modern THEN UNCHANGED <<loop, client, timer, server, answer>> ELSE Fails
  \/ loop \in {"none", "starting"}
     /\ UNCHANGED <<loop, running, stopping, client, timer, server, answer>>

Abort ==
  /\ client \in {"asking", "between"} /\ ~aborted
  /\ aborted' = TRUE
  /\ IF client = "asking"
     THEN /\ Settle("failed") /\ SendCancel
          /\ UNCHANGED <<server, answer, looped>>
     ELSE Interrupt /\ UNCHANGED <<signal, round, payload, responses>>
  /\ UNCHANGED <<call, budget, legTotal, entries, given, returned, leg, link, losses>>

\* The cancellation follows the request, and aborts the signal of the handler.
CancelArrives ==
  /\ signal = "cancelling" /\ link /\ server # "asked"
  /\ signal' = "aborted"
  /\ IF call.modern
     THEN UNCHANGED <<loop, running, stopping, client, timer, server, answer>>
     ELSE Interrupt
  /\ UNCHANGED <<call, aborted, budget, legTotal, entries, given, returned,
                 round, payload, responses, leg, link, losses>>

\* Both sides close: the leg that waits rejects, the handlers of the server are
\* aborted, and so are those of the client that ran for the shim.
Lose ==
  /\ link /\ client # "idle" /\ losses < MaxLosses
  /\ link' = FALSE /\ losses' = losses + 1
  /\ answer' = None
  /\ signal' = "aborted"
  /\ IF client = "asking" THEN Settle("failed") ELSE UNCHANGED <<client, timer>>
  /\ IF call.modern \/ loop \notin {"pacing", "fulfilling"}
     THEN /\ server' = IF server = "asked" THEN "done" ELSE server
          /\ UNCHANGED <<loop, running, stopping>>
     ELSE /\ server' = "done" /\ loop' = "none"
          /\ StopRest(running)
  /\ UNCHANGED <<call, aborted, budget, legTotal, entries, given, returned,
                 round, payload, responses, leg>>

\* Only the driver outlives a connection.
Reconnect ==
  /\ ~link /\ client = "between"
  /\ link' = TRUE
  /\ UNCHANGED <<call, caller, served, looped, leg, answer, losses>>

Requests == (1 .. MaxRounds + 1) \X Keys

Next ==
  \/ Call \/ TimerFires \/ Progress \/ Receive \/ Tick
  \/ Arrives \/ Verified \/ HandlerReturns
  \/ BeginRound \/ EndRound
  \/ \E d \in Requests : Fulfilled(d) \/ Rejected(d) \/ DispatchTimesOut(d) \/ Stops(d)
  \/ Abort \/ CancelArrives \/ Lose \/ Reconnect

Spec == Init /\ [][Next]_vars

\* Messages that arrived are handled, timers fire, the loops go on, and the
\* client's own handlers of embedded requests settle.  Nothing is asked of the
\* network, of the server or of its handler.
Fairness ==
  /\ WF_vars(TimerFires) /\ WF_vars(Tick) /\ WF_vars(Receive)
  /\ WF_vars(call.modern /\ (BeginRound \/ EndRound))
  /\ \A d \in Requests : WF_vars(call.modern /\ (Fulfilled(d) \/ Rejected(d)))

FairSpec == Spec /\ Fairness

(***************************************************************************)
(* Properties.                                                             *)
(***************************************************************************)
TypeOK ==
  /\ call \in Calls
  /\ client \in {"idle", "asking", "between", "result", "failed"} /\ aborted \in BOOLEAN
  /\ timer \in {NoTimer} \cup 0 .. call.timeout
  /\ {budget, legTotal} \subseteq Floor .. call.total
  /\ server \in {"idle", "asked", "verifying", "running", "looping", "done"}
  /\ signal \in {"live", "cancelling", "aborted"}
  /\ answer \in {None, Complete, Error} \cup UNION {R!InputReturns(n) : n \in 1 .. MaxRounds + 1}
  /\ payload \in {None} \cup UNION {R!InputReturns(n) : n \in 1 .. MaxRounds + 1}
  /\ loop \in {"none", "starting", "fulfilling", "pacing"} /\ round \in 0 .. MaxRounds
  /\ running \cup stopping \cup responses \subseteq Requests
  /\ loop = "fulfilling" => payload.asks = running \cup stopping \cup responses
  /\ running \cap (stopping \cup responses) = {}
  /\ {leg, given} \subseteq {R!Input(rs, st) : rs \in SUBSET Requests, st \in 0 .. MaxRounds + 1}
  /\ link \in BOOLEAN /\ losses \in 0 .. MaxLosses
  /\ entries \in 0 .. MaxRounds + 1

\* Every round reads the same to the handler in both eras: it is given what its
\* last entry asked for and the state it returned, nothing of an earlier round,
\* and is not entered again once the caller has a result.
SameStory == R!Spec

\* No embedded request is worked on that nobody waits for: one that was not
\* told to stop belongs to a round in progress, of a loop whose signal is not
\* aborted, over a live connection if it is the shim's.
NothingRunsOn ==
  running # {} => /\ loop = "fulfilling" /\ ~LoopAborted
                  /\ call.modern => client = "between"
                  /\ ~call.modern => link /\ server = "looping"

\* maxTotalTimeout spans the legs: whatever progress restarts its timer, none
\* waits longer than one timeout beyond the total of the whole flow.
LegsWithinTotal == client = "asking" /\ Limited => budget > -call.timeout

\* The call ends, although the server may never answer, answer with ever more
\* questions, or be gone.
CallEnds == client = "asking" ~> client \in {"result", "failed"}
=============================================================================
