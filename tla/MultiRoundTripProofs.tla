------------------------ MODULE MultiRoundTripProofs ------------------------
(***************************************************************************)
(* Theorems about MultiRoundTrip for every set of keys, of calls and every *)
(* bound.                                                                  *)
(***************************************************************************)
EXTENDS MultiRoundTrip, TLAPS

USE DEF CapReached, StopRest, NextInput, Remaining, LegTimer

-----------------------------------------------------------------------------
(***************************************************************************)
(* Why both eras tell the handler the same story.  The round a loop is in  *)
(* counts the entries (Counted); what a leg carries, a loop works on or an *)
(* answer brings home is what the last entry returned (Carried); and there *)
(* is one of them at a time (Placed), so that none can be overtaken.       *)
(***************************************************************************)
Counted ==
  /\ entries \in Nat /\ round \in 0 .. MaxRounds
  /\ server = "idle" => entries = 0 /\ round = 0
  /\ server \in {"asked", "verifying"} => entries = round
  /\ server = "running" => entries = round + 1 /\ returned = R!Running
  /\ loop = "starting" => entries = round + 1
  /\ loop \in {"fulfilling", "pacing"} => entries = round

Carried ==
  /\ server \in {"asked", "verifying"} =>
       \/ entries = 0 /\ leg = NoInput
       \/ returned.kind = "input" /\ leg = R!Input(returned.asks, returned.state)
  /\ loop # "none" => payload = returned /\ returned.kind = "input"
  /\ loop = "pacing" => payload.asks = {} /\ responses = {}
  /\ answer \notin {None, Error} => answer = returned /\ entries = round + 1

Placed ==
  /\ call \in Calls
  /\ client \in {"idle", "asking", "between", "result", "failed"}
  /\ loop \in {"none", "starting", "fulfilling", "pacing"}
  /\ server \in {"idle", "asked", "verifying", "running", "looping", "done"}
  /\ client = "idle" <=> server = "idle"
  /\ answer # None => server = "done" /\ client # "between"
  /\ answer.kind = "input" => call.modern
  /\ loop # "none" => IF call.modern THEN client = "between" ELSE server = "looping"
  /\ client = "between" => call.modern /\ loop # "none" /\ server = "done"
  /\ server = "looping" => ~call.modern /\ loop # "none"
  /\ client = "result" => server = "done"

Story == Counted /\ Carried /\ Placed

\* The kinds tell the returns apart.
LEMMA Kinds ==
  /\ None # Error /\ None # Complete /\ Complete # Error
  /\ Complete.kind = "complete" /\ Error.kind = "error" /\ None.kind = "none"
  /\ \A n : \A r \in R!InputReturns(n) : r.kind = "input"
BY DEF None, Error, Complete, R!Complete, R!Error, R!Return, R!InputReturns

LEMMA StoryInit == Init => Story
BY MultiRoundTripAssumption, Kinds
   DEF MultiRoundTripAssumption, Init, Story, Counted, Carried, Placed

LEMMA StoryStep == Story /\ [Next]_vars => Story'
<1> SUFFICES ASSUME Story, [Next]_vars PROVE Story'
  OBVIOUS
<1> USE MultiRoundTripAssumption, Kinds DEF MultiRoundTripAssumption, Story, Settle, Answers,
        caller, served, looped, wired
<1>1. CASE Call
  BY <1>1 DEF Call, SendLeg, Counted, Carried, Placed
<1>2. CASE TimerFires
  BY <1>2 DEF TimerFires, Counted, Carried, Placed
<1>3. CASE Progress
  BY <1>3 DEF Progress, Counted, Carried, Placed
<1>4. CASE Receive
  <2>1. CASE client # "asking"
    BY <1>4, <2>1 DEF Receive, Counted, Carried, Placed
  <2>2. CASE client = "asking"
    BY <1>4, <2>2 DEF Receive, Counted, Carried, Placed
  <2> QED BY <2>1, <2>2
<1>5. CASE Tick
  BY <1>5 DEF Tick, Counted, Carried, Placed
<1>6. CASE Arrives
  BY <1>6 DEF Arrives, Hand, Enters, Counted, Carried, Placed
<1>7. CASE Verified
  BY <1>7 DEF Verified, Enters, Counted, Carried, Placed
<1>8. CASE HandlerReturns
  <2> USE DEF Counted, Carried, Placed
  <2>1. CASE returned'.kind # "input"
    BY <1>8, <2>1 DEF HandlerReturns
  <2>2. CASE returned'.kind = "input" /\ call.modern
    BY <1>8, <2>2 DEF HandlerReturns
  <2>3. CASE returned'.kind = "input" /\ ~call.modern
    BY <1>8, <2>3 DEF HandlerReturns
  <2> QED BY <1>8, <2>1, <2>2, <2>3 DEF HandlerReturns
<1>9. CASE BeginRound
  <2> USE DEF Counted, Carried, Placed
  <2>1. CASE GiveUp
    BY <1>9, <2>1 DEF BeginRound, GiveUp, Fails
  <2>2. CASE payload.asks = {} /\ Pace /\ ~BeginFails
    BY <1>9, <2>2 DEF BeginRound, Pace, BeginFails
  <2>3. CASE payload.asks # {} /\ Dispatch /\ ~BeginFails
    BY <1>9, <2>3 DEF BeginRound, Dispatch, BeginFails
  <2> QED BY <1>9, <2>1, <2>2, <2>3 DEF BeginRound
<1>10. CASE EndRound
  <2> USE DEF Counted, Carried, Placed
  <2>1. responses = payload.asks
    BY <1>10 DEF EndRound, RoundOver
  <2>2. CASE call.modern
    BY <1>10, <2>1, <2>2 DEF EndRound, RoundOver, Retry, SendLeg
  <2>3. CASE ~call.modern
    <3>1. CASE server' = "verifying"
      BY <1>10, <2>1, <2>3, <3>1 DEF EndRound, RoundOver, Hand, Enters
    <3>2. CASE server' = "running"
      BY <1>10, <2>1, <2>3, <3>2 DEF EndRound, RoundOver, Hand, Enters
    <3> QED BY <1>10, <2>3, <3>1, <3>2 DEF EndRound, Hand, Enters
  <2> QED BY <2>2, <2>3
<1>11. ASSUME NEW d \in Requests, Fulfilled(d) PROVE Story'
  BY <1>11 DEF Fulfilled, Counted, Carried, Placed
<1>12. ASSUME NEW d \in Requests, Rejected(d) \/ DispatchTimesOut(d) PROVE Story'
  BY <1>12 DEF Rejected, DispatchTimesOut, Fails, Counted, Carried, Placed
<1>13. ASSUME NEW d \in Requests, Stops(d) PROVE Story'
  BY <1>13 DEF Stops, Counted, Carried, Placed
<1>14. CASE Abort
  BY <1>14 DEF Abort, Interrupt, Fails, Counted, Carried, Placed
<1>15. CASE CancelArrives
  BY <1>15 DEF CancelArrives, Interrupt, Fails, Counted, Carried, Placed
<1>16. CASE Lose
  BY <1>16 DEF Lose, Counted, Carried, Placed
<1>17. CASE Reconnect
  BY <1>17 DEF Reconnect, Counted, Carried, Placed
<1>18. CASE UNCHANGED vars
  BY <1>18 DEF vars, Counted, Carried, Placed
<1> QED
  BY <1>1, <1>2, <1>3, <1>4, <1>5, <1>6, <1>7, <1>8, <1>9, <1>10, <1>11, <1>12, <1>13,
     <1>14, <1>15, <1>16, <1>17, <1>18 DEF Next

\* Whatever happens, the invariant holds: the loop of either era works on what
\* the last entry of the handler returned, and on nothing else.
THEOREM StoryHolds == Spec => []Story
BY StoryInit, StoryStep, PTL DEF Spec

-----------------------------------------------------------------------------
(***************************************************************************)
(* The refinement, step by step.                                           *)
(***************************************************************************)
\* The first state of a call is one of the handler's story.
LEMMA InitMaps == Init => R!Init
BY DEF Init, R!Init, Outcome, NoInput, Complete

\* An entry the invariant allows is one the story has.
LEMMA EntryMaps ==
  ASSUME Story, client # "result", UNCHANGED client, entries <= MaxRounds,
         NEW input, Enters(input),
         \/ entries = 0 /\ input = NoInput
         \/ returned.kind = "input" /\ input = R!Input(returned.asks, returned.state)
  PROVE  R!Enter
BY DEF Story, Placed, Enters, R!Enter, Outcome, NoInput

\* A call that ends without a result is a failure of the story, or nothing new.
LEMMA FailureMaps ==
  ASSUME Story, client \in {"asking", "between"}, UNCHANGED <<entries, given, returned>>,
         client' \in {"failed", "asking", "between"}
  PROVE  R!Fail \/ UNCHANGED R!rvars
BY DEF Outcome, R!Fail, R!rvars

LEMMA StepMaps == Story /\ [Next]_vars => [R!Next]_(R!rvars)
<1> SUFFICES ASSUME Story, [Next]_vars PROVE R!Next \/ UNCHANGED R!rvars
  OBVIOUS
<1> USE DEF R!Next, caller, served, looped, wired, Story
<1>1. CASE UNCHANGED <<client, entries, given, returned>>
  BY <1>1 DEF Outcome, R!rvars
<1>2. CASE Call
  BY <1>2 DEF Call, SendLeg, Outcome, R!rvars
<1>3. CASE TimerFires \/ Progress
  BY <1>3, FailureMaps DEF TimerFires, Progress, Settle, Limited
<1>4. CASE Receive
  <2>1. CASE client = "asking" /\ answer = Complete /\ answer # None
    <3>1. returned = Complete /\ entries > 0
      BY <2>1, Kinds, MultiRoundTripAssumption
         DEF Carried, Counted, MultiRoundTripAssumption
    <3>2. client' = "result"
      BY <1>4, <2>1, Kinds DEF Receive, Settle
    <3> QED BY <1>4, <2>1, <3>1, <3>2 DEF Receive, R!Finish, Outcome, Complete
  <2>2. CASE client = "asking" /\ client' \in {"failed", "between"}
    BY <1>4, <2>2, FailureMaps DEF Receive
  <2> QED BY <1>1, <1>4, <2>1, <2>2 DEF Receive, Settle
<1>5. CASE Arrives
  <2>1. server = "asked" /\ client # "result" /\ entries <= MaxRounds
    BY <1>5, MultiRoundTripAssumption DEF Arrives, Counted, Placed, MultiRoundTripAssumption
  <2>2. CASE Enters(leg)
    BY <1>5, <2>1, <2>2, EntryMaps DEF Arrives, Carried
  <2> QED BY <1>1, <1>5, <2>2 DEF Arrives, Hand
<1>6. CASE Verified
  <2>1. server = "verifying" /\ client # "result" /\ entries <= MaxRounds
    BY <1>6, MultiRoundTripAssumption DEF Verified, Counted, Placed, MultiRoundTripAssumption
  <2>2. CASE Enters(leg)
    BY <1>6, <2>1, <2>2, EntryMaps DEF Verified, Carried
  <2> QED BY <1>1, <1>6, <2>2 DEF Verified
<1>7. CASE HandlerReturns
  <2>1. returned = R!Running /\ UNCHANGED <<client, entries, given>>
    BY <1>7 DEF HandlerReturns, Counted
  <2> QED BY <1>7, <2>1 DEF HandlerReturns, R!Returns, Outcome, Complete, Error
<1>8. CASE BeginRound
  <2>1. CASE call.modern
    <3>1. client = "between"
      BY <1>8, <2>1 DEF BeginRound, Placed
    <3> QED BY <1>8, <2>1, <3>1, FailureMaps DEF BeginRound, GiveUp, Fails, Settle, Pace, Dispatch
  <2>2. CASE ~call.modern
    BY <1>1, <1>8, <2>2 DEF BeginRound, GiveUp, Fails, Pace, Dispatch
  <2> QED BY <2>1, <2>2
<1>9. CASE EndRound
  <2>1. CASE call.modern
    <3>1. client = "between"
      BY <1>9, <2>1 DEF EndRound, RoundOver, Placed
    <3> QED BY <1>9, <2>1, <3>1, FailureMaps DEF EndRound, Retry, Settle, SendLeg
  <2>2. CASE ~call.modern
    <3>1. /\ loop # "none" /\ client # "result"
          /\ NextInput = R!Input(returned.asks, returned.state) /\ returned.kind = "input"
      BY <1>9, <2>2 DEF EndRound, RoundOver, Carried, Placed
    <3>2. entries <= MaxRounds
      BY <1>9, MultiRoundTripAssumption DEF EndRound, RoundOver, Counted, MultiRoundTripAssumption
    <3>3. CASE Enters(NextInput)
      BY <1>9, <2>2, <3>1, <3>2, <3>3, EntryMaps DEF EndRound
    <3> QED BY <1>1, <1>9, <2>2, <3>3 DEF EndRound, Hand
  <2> QED BY <2>1, <2>2
<1>10. ASSUME NEW d \in Requests, Rejected(d) \/ DispatchTimesOut(d)
       PROVE  R!Next \/ UNCHANGED R!rvars
  <2>1. CASE call.modern
    <3>1. client = "between"
      BY <1>10, <2>1 DEF Rejected, DispatchTimesOut, Placed
    <3> QED BY <1>10, <2>1, <3>1, FailureMaps DEF Rejected, DispatchTimesOut, Fails, Settle
  <2>2. CASE ~call.modern
    BY <1>1, <1>10, <2>2 DEF Rejected, DispatchTimesOut, Fails
  <2> QED BY <2>1, <2>2
<1>11. CASE Abort
  BY <1>11, FailureMaps DEF Abort, Interrupt, Fails, Settle
<1>12. CASE CancelArrives
  BY <1>1, <1>12 DEF CancelArrives, Interrupt, Fails
<1>13. CASE Lose
  BY <1>1, <1>13, FailureMaps DEF Lose, Settle
<1>14. CASE Tick \/ Reconnect \/ UNCHANGED vars
  BY <1>1, <1>14 DEF Tick, Reconnect, vars
<1>15. ASSUME NEW d \in Requests, Fulfilled(d) \/ Stops(d)
       PROVE  R!Next \/ UNCHANGED R!rvars
  BY <1>1, <1>15 DEF Fulfilled, Stops
<1> QED
  BY <1>2, <1>3, <1>4, <1>5, <1>6, <1>7, <1>8, <1>9, <1>10, <1>11, <1>12, <1>13, <1>14, <1>15
     DEF Next

\* The story of the handler is the same in both eras, for every set of keys, of
\* calls and every bound: MultiRoundTrip implements InputRounds.
THEOREM SameStoryTold == Spec => SameStory
BY InitMaps, StoryInit, StoryStep, StepMaps, PTL DEF Spec, SameStory, R!Spec

-----------------------------------------------------------------------------
(***************************************************************************)
(* Who waits for a dispatched request.  A round that is over left nothing  *)
(* running because each of its requests has its response, and none has one *)
(* while it runs; a lost connection has aborted the signal of the shim.    *)
(***************************************************************************)
Attended ==
  /\ running # {} => loop = "fulfilling" /\ ~LoopAborted
  /\ loop = "fulfilling" => running \subseteq payload.asks /\ running \cap responses = {}
  /\ ~link => signal = "aborted"

LEMMA AttendedInit == Init => Attended
BY DEF Init, Attended

LEMMA AttendedStep == Story /\ Attended /\ [Next]_vars => Attended'
<1> SUFFICES ASSUME Story, Attended, [Next]_vars PROVE Attended'
  OBVIOUS
<1> USE DEF Attended, Story, Placed, LoopAborted, Settle, SendCancel, Answers, Fails,
        caller, served, looped, wired
<1>1. CASE Call \/ TimerFires \/ Progress \/ Tick
  BY <1>1 DEF Call, SendLeg, TimerFires, Progress, Tick
<1>2. CASE Receive
  BY <1>2 DEF Receive
<1>3. CASE Arrives \/ Verified
  BY <1>3 DEF Arrives, Verified, Hand, Enters
<1>4. CASE HandlerReturns
  BY <1>4 DEF HandlerReturns
<1>5. CASE BeginRound
  <2>1. CASE GiveUp
    BY <1>5, <2>1 DEF BeginRound, GiveUp
  <2>2. CASE Pace
    BY <1>5, <2>2 DEF BeginRound, Pace
  <2>3. CASE Dispatch
    BY <1>5, <2>3 DEF BeginRound, Dispatch
  <2> QED BY <1>5, <2>1, <2>2, <2>3 DEF BeginRound
<1>6. CASE EndRound
  <2>1. running = {} /\ running' = {}
    BY <1>6 DEF EndRound, RoundOver
  <2> QED BY <1>6, <2>1 DEF EndRound, Retry, SendLeg
<1>7. ASSUME NEW d \in Requests, Fulfilled(d) PROVE Attended'
  BY <1>7 DEF Fulfilled
<1>8. ASSUME NEW d \in Requests, Rejected(d) \/ DispatchTimesOut(d) PROVE Attended'
  BY <1>8 DEF Rejected, DispatchTimesOut
<1>9. ASSUME NEW d \in Requests, Stops(d) PROVE Attended'
  BY <1>9 DEF Stops
<1>10. CASE Abort
  BY <1>10 DEF Abort, Interrupt
<1>11. CASE CancelArrives
  BY <1>11 DEF CancelArrives, Interrupt
<1>12. CASE Lose
  BY <1>12 DEF Lose
<1>13. CASE Reconnect \/ UNCHANGED vars
  BY <1>13 DEF Reconnect, vars
<1> QED
  BY <1>1, <1>2, <1>3, <1>4, <1>5, <1>6, <1>7, <1>8, <1>9, <1>10, <1>11, <1>12, <1>13 DEF Next

\* However a round ends - answer, failure, timeout, abort, lost connection - no
\* embedded request is worked on that nobody waits for.
THEOREM NothingLeftRunning == Spec => []NothingRunsOn
<1>1. Story /\ Attended => NothingRunsOn
  BY DEF Story, Placed, Attended, NothingRunsOn, LoopAborted
<1> QED
  BY <1>1, StoryInit, StoryStep, AttendedInit, AttendedStep, PTL DEF Spec

-----------------------------------------------------------------------------
(***************************************************************************)
(* Time.  A leg knows what is left of the total of the flow, and was given *)
(* more than its timer has run down.                                       *)
(***************************************************************************)
Timed ==
  /\ budget \in Int
  /\ client = "asking" =>
       /\ timer \in 0 .. call.timeout
       /\ Limited => legTotal = budget /\ budget + call.timeout > timer

LEMMA TimedInit == Init => Timed
BY DEF Init, Timed

LEMMA TimedStep == Story /\ Timed /\ [Next]_vars => Timed'
<1> SUFFICES ASSUME Story, Timed, [Next]_vars PROVE Timed'
  OBVIOUS
<1>0. call \in Calls /\ call.timeout \in Nat \ {0} /\ call.total \in Nat
  BY MultiRoundTripAssumption DEF MultiRoundTripAssumption, Story, Placed
<1> USE <1>0 DEF Timed, Limited, Settle, Answers, Fails, caller, served, looped, wired
<1>1. CASE UNCHANGED <<call, client, timer, budget, legTotal>>
  BY <1>1
<1>2. CASE UNCHANGED <<call, budget, legTotal>> /\ client' # "asking"
  BY <1>2
<1>3. CASE Call
  BY <1>3 DEF Call, SendLeg
<1>4. CASE TimerFires \/ Receive \/ Abort
  BY <1>2, <1>4, <1>1 DEF TimerFires, Receive, Abort, Interrupt, Story, Placed
<1>5. CASE Progress
  BY <1>5 DEF Progress
<1>6. CASE Tick
  BY <1>6 DEF Tick, Floor, NoTimer
<1>7. CASE Arrives \/ Verified \/ HandlerReturns
  BY <1>1, <1>7 DEF Arrives, Verified, HandlerReturns
<1>8. CASE BeginRound
  BY <1>1, <1>2, <1>8 DEF BeginRound, GiveUp, Pace, Dispatch
<1>9. CASE EndRound
  <2>1. CASE client' = "asking" /\ call.modern
    BY <1>9, <2>1 DEF EndRound, RoundOver, Retry, SendLeg, Story, Placed
  <2>2. CASE client' # "asking"
    BY <1>9, <2>2 DEF EndRound
  <2> QED BY <1>9, <2>1, <2>2 DEF EndRound
<1>10. ASSUME NEW d \in Requests, Fulfilled(d) \/ Stops(d) PROVE Timed'
  BY <1>1, <1>10 DEF Fulfilled, Stops
<1>11. ASSUME NEW d \in Requests, Rejected(d) \/ DispatchTimesOut(d) PROVE Timed'
  BY <1>1, <1>2, <1>11 DEF Rejected, DispatchTimesOut
<1>12. CASE CancelArrives
  BY <1>1, <1>2, <1>12 DEF CancelArrives, Interrupt
<1>13. CASE Lose \/ Reconnect \/ UNCHANGED vars
  BY <1>1, <1>2, <1>13 DEF Lose, Reconnect, vars
<1> QED
  BY <1>3, <1>4, <1>5, <1>6, <1>7, <1>8, <1>9, <1>10, <1>11, <1>12, <1>13 DEF Next

\* maxTotalTimeout bounds the whole flow, whatever the timeout and the number of
\* legs: a leg is not waited for longer than one timeout beyond it.
THEOREM TotalSpansTheLegs == Spec => []LegsWithinTotal
<1>1. Story /\ Timed => LegsWithinTotal
  BY MultiRoundTripAssumption
     DEF MultiRoundTripAssumption, Story, Placed, Timed, LegsWithinTotal
<1> QED
  BY <1>1, StoryInit, StoryStep, TimedInit, TimedStep, PTL DEF Spec

-----------------------------------------------------------------------------
(***************************************************************************)
(* Type correctness, in the parts that change together: the clocks; what   *)
(* is carried, asked and answered; and the dispatched requests of a round, *)
(* each of which runs, is off or has its response.  That the handler is    *)
(* entered at most MaxRounds + 1 times follows from Counted.               *)
(***************************************************************************)
Payloads == UNION {R!InputReturns(n) : n \in 1 .. MaxRounds + 1}
Inputs   == {R!Input(rs, st) : rs \in SUBSET Requests, st \in 0 .. MaxRounds + 1}

Clocks ==
  /\ timer \in {NoTimer} \cup 0 .. call.timeout
  /\ budget \in Floor .. call.total /\ legTotal \in Floor .. call.total
  /\ aborted \in BOOLEAN /\ signal \in {"live", "cancelling", "aborted"}
  /\ link \in BOOLEAN /\ losses \in 0 .. MaxLosses

Contents ==
  /\ answer \in {None, Complete, Error} \cup Payloads
  /\ payload \in {None} \cup Payloads
  /\ leg \in Inputs /\ given \in Inputs
  /\ entries \in 0 .. MaxRounds + 1

Dispatched ==
  /\ running \cup stopping \cup responses \subseteq Requests
  /\ loop = "fulfilling" => payload.asks = running \cup stopping \cup responses
  /\ running \cap (stopping \cup responses) = {}

LEMMA TypeParts == Story /\ Clocks /\ Contents /\ Dispatched => TypeOK
BY DEF TypeOK, Story, Counted, Placed, Clocks, Contents, Dispatched, Payloads, Inputs

\* What can be asked, and handed on.
LEMMA PayloadParts ==
  /\ \A p \in Payloads : p.kind = "input" /\ p.asks \subseteq Requests
                         /\ p.state \in 0 .. MaxRounds + 1
  /\ \A n \in 1 .. MaxRounds + 1 : R!InputReturns(n) \subseteq Payloads
  /\ \A rs \in SUBSET Requests, st \in 0 .. MaxRounds + 1 : R!Input(rs, st) \in Inputs
  /\ NoInput \in Inputs
<1>1. \A n \in 1 .. MaxRounds + 1 : \A r \in R!InputReturns(n) :
        r.kind = "input" /\ r.asks \subseteq Requests /\ r.state \in 0 .. MaxRounds + 1
  <2>1. 1 .. MaxRounds + 1 \subseteq 0 .. MaxRounds + 1
    BY MultiRoundTripAssumption DEF MultiRoundTripAssumption
  <2>2. SUFFICES ASSUME NEW n \in 1 .. MaxRounds + 1, NEW asks \in SUBSET ({n} \X Keys),
                        NEW state \in {0, n}
                 PROVE  /\ R!Return("input", asks, state).kind = "input"
                        /\ R!Return("input", asks, state).asks \subseteq Requests
                        /\ R!Return("input", asks, state).state \in 0 .. MaxRounds + 1
    BY DEF R!InputReturns
  <2>3. 0 \in 0 .. MaxRounds + 1
    BY MultiRoundTripAssumption DEF MultiRoundTripAssumption
  <2> QED BY <2>1, <2>3 DEF R!Return, Requests
<1>2. NoInput \in Inputs
  BY MultiRoundTripAssumption DEF NoInput, R!NoInput, Inputs, MultiRoundTripAssumption
<1> QED BY <1>1, <1>2 DEF Payloads, Inputs

LEMMA ClocksStep == Story /\ Clocks /\ [Next]_vars => Clocks'
<1> SUFFICES ASSUME Story, Clocks, [Next]_vars PROVE Clocks'
  OBVIOUS
<1>0. call \in Calls /\ call.timeout \in Nat \ {0} /\ call.total \in Nat /\ MaxLosses \in Nat
  BY MultiRoundTripAssumption DEF MultiRoundTripAssumption, Story, Placed
<1> USE <1>0 DEF Clocks, Floor, NoTimer, Settle, SendCancel, SendLeg, Fails, caller, served, looped,
                 wired
<1>1. CASE Call \/ TimerFires \/ Progress
  BY <1>1 DEF Call, TimerFires, Progress
<1>2. CASE Receive
  BY <1>2 DEF Receive
<1>3. CASE Tick
  BY <1>3 DEF Tick
<1>4. CASE Arrives \/ Verified \/ HandlerReturns
  BY <1>4 DEF Arrives, Verified, HandlerReturns
<1>5. CASE BeginRound
  BY <1>5 DEF BeginRound, GiveUp, Pace, Dispatch
<1>6. CASE EndRound
  BY <1>6 DEF EndRound, Retry
<1>7. ASSUME NEW d \in Requests, Fulfilled(d) \/ Rejected(d) \/ DispatchTimesOut(d) \/ Stops(d)
      PROVE  Clocks'
  BY <1>7 DEF Fulfilled, Rejected, DispatchTimesOut, Stops
<1>8. CASE Abort \/ CancelArrives
  BY <1>8 DEF Abort, CancelArrives, Interrupt
<1>9. CASE Lose
  <2>0. losses < MaxLosses /\ losses' = losses + 1 /\ link' = FALSE /\ signal' = "aborted"
    BY <1>9 DEF Lose
  <2>1. losses' \in 0 .. MaxLosses
    <3>1. losses \in 0 .. MaxLosses
      OBVIOUS
    <3> QED BY ONLY <1>0, <2>0, <3>1
  <2>2. timer' \in {timer, NoTimer} /\ UNCHANGED <<call, aborted, budget, legTotal>>
    BY <1>9 DEF Lose
  <2> QED BY <2>0, <2>1, <2>2
<1>10. CASE Reconnect \/ UNCHANGED vars
  BY <1>10 DEF Reconnect, vars
<1> QED BY <1>1, <1>2, <1>3, <1>4, <1>5, <1>6, <1>7, <1>8, <1>9, <1>10 DEF Next

LEMMA ContentsStep == Story /\ Contents /\ Dispatched /\ [Next]_vars => Contents'
<1> SUFFICES ASSUME Story, Contents, Dispatched, [Next]_vars PROVE Contents'
  OBVIOUS
<1>0. MaxRounds \in Nat \ {0} /\ round \in 0 .. MaxRounds /\ entries \in Nat
  BY MultiRoundTripAssumption DEF MultiRoundTripAssumption, Story, Counted
<1> USE <1>0 DEF Contents, Settle, Answers, Fails, caller, served, looped, wired
<1>1. ASSUME entries = round, NEW input \in Inputs, Hand(input) \/ Enters(input)
      PROVE  given' \in Inputs /\ entries' \in 0 .. MaxRounds + 1
  BY <1>1 DEF Hand, Enters
<1>2. CASE Call
  BY <1>2, PayloadParts DEF Call, SendLeg
<1>3. CASE TimerFires \/ Progress \/ Tick
  BY <1>3 DEF TimerFires, Progress, Tick
<1>4. CASE Receive
  BY <1>4, Kinds DEF Receive
<1>5. CASE Arrives \/ Verified
  BY <1>1, <1>5 DEF Arrives, Verified, Story, Counted
<1>6. CASE HandlerReturns
  <2>1. entries \in 1 .. MaxRounds + 1
    BY <1>6 DEF HandlerReturns, Story, Counted
  <2>2. returned' \in {Complete, Error} \cup Payloads
    BY <1>6, <2>1, PayloadParts DEF HandlerReturns
  <2>3. answer' \in {answer, returned', Error} /\ payload' \in {payload, returned'}
    BY <1>6 DEF HandlerReturns
  <2>4. payload' # payload => returned'.kind = "input"
    BY <1>6 DEF HandlerReturns
  <2> QED BY <1>6, <2>2, <2>3, <2>4, Kinds DEF HandlerReturns
<1>7. CASE BeginRound
  BY <1>7 DEF BeginRound, GiveUp, Pace, Dispatch
<1>8. CASE EndRound
  <2>1. payload \in Payloads /\ entries = round
    BY <1>8, Kinds DEF EndRound, RoundOver, Story, Carried, Counted
  <2>2. NextInput \in Inputs
    BY <2>1, PayloadParts DEF Dispatched
  <2>3. CASE call.modern
    BY <1>8, <2>2, <2>3 DEF EndRound, Retry, SendLeg
  <2>4. CASE ~call.modern
    BY <1>1, <1>8, <2>1, <2>2, <2>4 DEF EndRound
  <2> QED BY <2>3, <2>4
<1>9. ASSUME NEW d \in Requests, Fulfilled(d) \/ Rejected(d) \/ DispatchTimesOut(d) \/ Stops(d)
      PROVE  Contents'
  BY <1>9 DEF Fulfilled, Rejected, DispatchTimesOut, Stops
<1>10. CASE Abort \/ CancelArrives
  BY <1>10 DEF Abort, CancelArrives, Interrupt
<1>11. CASE Lose \/ Reconnect \/ UNCHANGED vars
  BY <1>11 DEF Lose, Reconnect, vars
<1> QED BY <1>2, <1>3, <1>4, <1>5, <1>6, <1>7, <1>8, <1>9, <1>10, <1>11 DEF Next

LEMMA DispatchedStep == Story /\ Contents /\ Dispatched /\ [Next]_vars => Dispatched'
<1> SUFFICES ASSUME Story, Contents, Dispatched, [Next]_vars PROVE Dispatched'
  OBVIOUS
<1> USE DEF Dispatched, Settle, Answers, Fails, caller, served, looped, wired
<1>1. CASE Call \/ TimerFires \/ Progress \/ Tick
  BY <1>1 DEF Call, TimerFires, Progress, Tick
<1>2. CASE Receive \/ HandlerReturns
  BY <1>2 DEF Receive, HandlerReturns
<1>3. CASE Arrives \/ Verified
  BY <1>3 DEF Arrives, Verified
<1>4. CASE BeginRound
  <2>1. payload.asks \subseteq Requests
    BY <1>4, Kinds, PayloadParts DEF BeginRound, Story, Carried, Contents
  <2> QED BY <1>4, <2>1 DEF BeginRound, GiveUp, Pace, Dispatch
<1>5. CASE EndRound
  BY <1>5 DEF EndRound
<1>6. ASSUME NEW d \in Requests, Fulfilled(d) PROVE Dispatched'
  BY <1>6 DEF Fulfilled
<1>7. ASSUME NEW d \in Requests, Rejected(d) \/ DispatchTimesOut(d) \/ Stops(d) PROVE Dispatched'
  BY <1>7 DEF Rejected, DispatchTimesOut, Stops
<1>8. CASE Abort
  BY <1>8 DEF Abort, Interrupt
<1>9. CASE CancelArrives
  BY <1>9 DEF CancelArrives, Interrupt
<1>10. CASE Lose
  BY <1>10 DEF Lose
<1>11. CASE Reconnect \/ UNCHANGED vars
  BY <1>11 DEF Reconnect, vars
<1> QED
  BY <1>1, <1>2, <1>3, <1>4, <1>5, <1>6, <1>7, <1>8, <1>9, <1>10, <1>11 DEF Next

\* Every variable of a call keeps its type: the clocks do not run past their
\* floor, nothing is asked that no entry of the handler returned, each request
\* of a round is accounted for once, and the handler is entered at most
\* MaxRounds + 1 times.
THEOREM TypeCorrect == Spec => []TypeOK
<1>1. Init => Clocks
  <2> SUFFICES ASSUME Init PROVE Clocks
    OBVIOUS
  <2>1. call.timeout \in Nat \ {0} /\ call.total \in Nat /\ MaxLosses \in Nat
    BY MultiRoundTripAssumption DEF MultiRoundTripAssumption, Init
  <2>2. 0 \in Floor .. call.total /\ 0 \in 0 .. MaxLosses
    BY <2>1 DEF Floor
  <2> QED BY <2>2 DEF Init, Clocks
<1>2. Init => Contents /\ Dispatched
  BY MultiRoundTripAssumption, PayloadParts
     DEF MultiRoundTripAssumption, Init, Contents, Dispatched
<1> QED
  BY <1>1, <1>2, StoryInit, StoryStep, ClocksStep, ContentsStep, DispatchedStep, TypeParts, PTL DEF Spec
=============================================================================
