----------------------- MODULE ProtocolRequestsProofs -----------------------
(***************************************************************************)
(* Theorems about ProtocolRequests for every set of transports, every set  *)
(* of request options and every bound.  The first half holds with or       *)
(* without overlapping connects and a re-entrant onclose callback; the     *)
(* second half names what it needs of the application.                     *)
(***************************************************************************)
EXTENDS ProtocolRequestsRefinement, TLAPS

USE DEF Answered, Cancellable, ForgetProgress, Rejected

-----------------------------------------------------------------------------
(***************************************************************************)
(* Type correctness.                                                       *)
(***************************************************************************)
LEMMA TypeInit == Init => TypeOK
<1> SUFFICES ASSUME Init PROVE TypeOK
  OBVIOUS
<1>1. nextId \in 0 .. MaxRequests /\ now \in 0 .. MaxTime
  BY RequestsAssumption DEF Init
<1>2. promise \in [Ids -> Status]
  BY DEF Init, Status
<1>3. cancels \in [Ids -> [Transports -> Nat]]
  BY DEF Init
<1> QED BY <1>1, <1>2, <1>3 DEF Init, TypeOK

\* What settling a request does to the two variables it touches.
LEMMA SettleType ==
  ASSUME TypeOK, NEW i \in Ids, NEW o \in Settled, Settle(i, o)
  PROVE  promise' \in [Ids -> Status] /\ cleanupDue' \subseteq Ids
BY DEF TypeOK, Settle, Status

LEMMA CancelType ==
  ASSUME TypeOK, NEW i \in Ids, NEW o \in Settled, Cancel(i, o)
  PROVE  /\ promise' \in [Ids -> Status] /\ cleanupDue' \subseteq Ids
         /\ progressHandlers' \subseteq Ids /\ streamAborted' \subseteq Ids
         /\ cancels' \in [Ids -> [Transports -> Nat]]
<1>1. CASE i \in responseReceived
  BY <1>1 DEF Cancel, TypeOK
<1>2. CASE i \notin responseReceived
  <2>1. promise' \in [Ids -> Status] /\ cleanupDue' \subseteq Ids
    BY <1>2, SettleType DEF Cancel
  <2>2. progressHandlers' \subseteq Ids /\ streamAborted' \subseteq Ids
    BY <1>2 DEF Cancel, TypeOK
  <2>3. cancels' \in [Ids -> [Transports -> Nat]]
    <3>1. CASE cancels' = cancels
      BY <3>1 DEF TypeOK
    <3>2. CASE /\ transport \in Transports
               /\ cancels' = [cancels EXCEPT ![i][transport] = @ + 1]
      <4>1. cancels[i] \in [Transports -> Nat]
        BY DEF TypeOK
      <4>2. [cancels[i] EXCEPT ![transport] = @ + 1] \in [Transports -> Nat]
        BY <3>2, <4>1
      <4> QED BY <3>2, <4>2 DEF TypeOK
    <3> QED BY <1>2, <3>1, <3>2 DEF Cancel, TypeOK
  <2> QED BY <2>1, <2>2, <2>3
<1> QED BY <1>1, <1>2

LEMMA TypeStep == TypeOK /\ [Next]_vars => TypeOK'
<1> SUFFICES ASSUME TypeOK, [Next]_vars PROVE TypeOK'
  OBVIOUS
<1> USE DEF maps, timer, conn, wire, call, loop
<1>1. ASSUME NEW t \in Transports, Connect(t) PROVE TypeOK'
  BY <1>1 DEF Connect, TypeOK
<1>2. ASSUME NEW t \in Transports, CloseBegins(t) PROVE TypeOK'
  BY <1>2 DEF CloseBegins, TypeOK
<1>3. CASE Request
  <2> DEFINE i == nextId
  <2>1. i \in Ids /\ nextId' \in 0 .. MaxRequests
    BY <1>3, RequestsAssumption DEF Request, TypeOK, Ids
  <2>2. opts[i].timeout \in Nat
    BY <2>1, RequestsAssumption DEF TypeOK
  <2>3. deadline' \in [Ids -> Nat] /\ startTime' \in [Ids -> Nat]
    BY <1>3, <2>1, <2>2 DEF Request, TypeOK
  <2>4. promise' \in [Ids -> Status] /\ sentOn' \in [Ids -> Transports \cup {NoTransport}]
    BY <1>3, <2>1 DEF Request, TypeOK, Status
  <2> QED BY <1>3, <2>1, <2>3, <2>4 DEF Request, TypeOK
<1>4. ASSUME NEW i \in Ids, SendDone(i) PROVE TypeOK'
  BY <1>4 DEF SendDone, TypeOK
<1>5. ASSUME NEW i \in Ids, SendFails(i) PROVE TypeOK'
  <2>1. promise' \in [Ids -> Status] /\ cleanupDue' \subseteq Ids
    BY <1>5, SettleType DEF SendFails, Settled
  <2> QED BY <1>5, <2>1 DEF SendFails, TypeOK
<1>6. ASSUME NEW i \in Ids, Abort(i) PROVE TypeOK'
  <2>1. CASE i \in listening
    BY <1>6, <2>1, CancelType DEF Abort, TypeOK, Settled
  <2>2. CASE i \notin listening
    BY <1>6, <2>2 DEF Abort, TypeOK
  <2> QED BY <2>1, <2>2
<1>7. ASSUME NEW i \in Ids, TimerFires(i) PROVE TypeOK'
  BY <1>7, CancelType DEF TimerFires, TypeOK, Settled
<1>8. ASSUME NEW i \in Ids, NEW body \in DOMAIN AfterDecode, OnResponse(i, body) PROVE TypeOK'
  <2>1. promise' \in [Ids -> Status] /\ cleanupDue' \subseteq Ids
    <3>1. "error" \in Settled /\ AfterDecode[body] \in Status
      BY DEF Settled, AfterDecode, Status
    <3>2. CASE i \notin responseHandlers \/ i \in aborted
      BY <1>8, <3>2 DEF OnResponse, TypeOK
    <3>3. CASE i \in responseHandlers /\ i \notin aborted /\ body = "error"
      BY <1>8, <3>1, <3>3, SettleType DEF OnResponse
    <3>4. CASE i \in responseHandlers /\ i \notin aborted /\ body # "error"
      BY <1>8, <3>1, <3>4 DEF OnResponse, TypeOK
    <3> QED BY <3>2, <3>3, <3>4
  <2> QED BY <1>8, <2>1 DEF OnResponse, CleanupTimeout, TypeOK
<1>9. ASSUME NEW i \in Ids, NEW o \in {"resolved", "error"}, Decide(i, o) PROVE TypeOK'
  BY <1>9 DEF Decide, TypeOK, Status, Settled
<1>10. ASSUME NEW i \in Ids, ReadProgress(i) PROVE TypeOK'
  BY <1>10 DEF ReadProgress, TypeOK
<1>11. CASE ReadEnds
  BY <1>11 DEF ReadEnds, TypeOK
<1>12. ASSUME NEW i \in Ids, RunProgress(i) PROVE TypeOK'
  <2>1. CASE TotalTimeoutExceeded(i)
    BY <1>12, <2>1, SettleType DEF RunProgress, TotalTimeoutExceeded, TypeOK, Settled
  <2>2. CASE TimeoutRestarted(i)
    <3>1. opts[i].timeout \in Nat
      BY RequestsAssumption DEF TypeOK
    <3> QED BY <1>12, <2>2, <3>1 DEF RunProgress, TimeoutRestarted, TypeOK
  <2>3. CASE OnlyReported(i)
    BY <1>12, <2>3 DEF RunProgress, OnlyReported, TypeOK
  <2> QED BY <1>12, <2>1, <2>2, <2>3 DEF RunProgress
<1>13. ASSUME NEW i \in Ids, Cleanup(i) PROVE TypeOK'
  BY <1>13 DEF Cleanup, CleanupTimeout, TypeOK
<1>14. CASE CloseEnds
  <2>1. promise' \in [Ids -> Status]
    BY <1>14 DEF CloseEnds, TypeOK, Status, Settled
  <2> QED BY <1>14, <2>1 DEF CloseEnds, TypeOK
<1>15. CASE Tick
  BY <1>15, RequestsAssumption DEF Tick, TypeOK
<1>16. CASE UNCHANGED vars
  BY <1>16 DEF vars, TypeOK
<1> QED
  BY <1>1, <1>2, <1>3, <1>4, <1>5, <1>6, <1>7, <1>8, <1>9, <1>10, <1>11, <1>12, <1>13, <1>14,
     <1>15, <1>16 DEF Next, Microtask

\* In every reachable state of the Protocol object its variables have their
\* types, whatever the transports, the options and the bounds.
THEOREM TypeCorrect == Spec => []TypeOK
BY TypeInit, TypeStep, PTL DEF Spec

-----------------------------------------------------------------------------
(***************************************************************************)
(* The bookkeeping of pending requests.                                    *)
(*                                                                         *)
(* NeverStranded and NothingLeftBehind are not inductive: a step needs to  *)
(* know that an id nobody issued is in none of the maps, that the caller's *)
(* signal of a pending request is still being listened to, and that a      *)
(* request which is not pending has no progress handler through which its  *)
(* timer could be restarted.                                               *)
(***************************************************************************)
Untouched ==
  \A i \in Ids : i >= nextId =>
    /\ promise[i] = "unsent"
    /\ i \notin responseHandlers \cup progressHandlers \cup timeoutInfo \cup armed
    /\ i \notin listening \cup aborted \cup responseReceived \cup closing

PendingIsAbortable ==
  \A i \in Ids : Pending(i) => i \in listening /\ i \notin aborted \cup responseReceived

OnlyPendingReports == \A i \in Ids : i \in progressHandlers => Pending(i)

QueuesAreForSettled ==
  /\ \A i \in cleanupDue : promise[i] \in Settled
  /\ closing \cap progressHandlers = {}

Bookkeeping ==
  /\ TypeOK /\ Untouched /\ PendingIsAbortable /\ OnlyPendingReports /\ QueuesAreForSettled
  /\ NeverStranded /\ NothingLeftBehind

LEMMA BookkeepingInit == Init => Bookkeeping
<1> SUFFICES ASSUME Init PROVE Bookkeeping
  OBVIOUS
<1>1. TypeOK
  BY TypeInit
<1> QED BY <1>1 DEF Init, Bookkeeping, Untouched, PendingIsAbortable, OnlyPendingReports,
                    QueuesAreForSettled, NeverStranded, NothingLeftBehind, Pending, Finished, Settled

LEMMA BookkeepingStep == Bookkeeping /\ [Next]_vars => Bookkeeping'
<1> SUFFICES ASSUME Bookkeeping, [Next]_vars PROVE Bookkeeping'
  OBVIOUS
<1> DEFINE Maps == /\ Untouched /\ PendingIsAbortable /\ OnlyPendingReports
                   /\ QueuesAreForSettled /\ NeverStranded /\ NothingLeftBehind
<1>0. TypeOK /\ TypeOK'
  BY TypeStep DEF Bookkeeping
<1> USE <1>0 DEF maps, timer, conn, wire, call, loop, Bookkeeping, Untouched, PendingIsAbortable,
                 OnlyPendingReports, QueuesAreForSettled, NeverStranded, NothingLeftBehind, Pending, Finished, Settled,
                 TypeOK
<1>1. ASSUME NEW t \in Transports, Connect(t) PROVE Maps'
  BY <1>1 DEF Connect
<1>2. ASSUME NEW t \in Transports, CloseBegins(t) PROVE Maps'
  BY <1>2 DEF CloseBegins, Quiet, MayRunMicrotask
<1>3. CASE Request
  <2> DEFINE i == nextId
  <2>1. i \in Ids /\ i \in Nat /\ nextId' = i + 1
    BY <1>3, RequestsAssumption DEF Request, Ids
  <2>2. promise' = [promise EXCEPT ![i] = "pending"] /\ promise[i] = "unsent"
    BY <1>3, <2>1 DEF Request
  <2>3. \A j \in Ids : j \in Nat /\ (j >= nextId' => j >= nextId /\ j # i)
    BY <2>1, RequestsAssumption DEF Ids
  <2>4. Untouched'
    BY <1>3, <2>1, <2>2, <2>3 DEF Request
  <2>5. PendingIsAbortable' /\ OnlyPendingReports'
    BY <1>3, <2>1, <2>2 DEF Request
  <2>6. QueuesAreForSettled'
    BY <1>3, <2>1, <2>2 DEF Request
  <2>7. NeverStranded' /\ NothingLeftBehind'
    BY <1>3, <2>1, <2>2 DEF Request
  <2> QED BY <2>4, <2>5, <2>6, <2>7
<1>4. ASSUME NEW i \in Ids, SendDone(i) PROVE Maps'
  BY <1>4 DEF SendDone
<1>5. ASSUME NEW i \in Ids, SendFails(i) PROVE Maps'
  BY <1>5 DEF SendFails, Settle, Unsettled
<1>6. ASSUME NEW i \in Ids, Abort(i) PROVE Maps'
  <2>0. \A j \in Ids : j >= nextId => j # i
    BY <1>6, RequestsAssumption DEF Abort, Ids
  <2>1. CASE i \notin listening
    BY <1>6, <2>0, <2>1 DEF Abort
  <2>2. CASE i \in listening /\ i \in responseReceived
    BY <1>6, <2>2 DEF Abort, Cancel
  <2>3. CASE i \in listening /\ i \notin responseReceived
    <3>1. Settle(i, "aborted") /\ progressHandlers' = progressHandlers \ {i}
      BY <1>6, <2>3 DEF Abort, Cancel
    <3>2. \A j \in Ids : promise'[j] # promise[j] => j = i /\ promise'[j] = "aborted"
      BY <3>1 DEF Settle
    <3>3. ~Pending(i)' /\ cleanupDue \subseteq cleanupDue' /\ (Unsettled(i) => i \in cleanupDue')
      BY <3>1 DEF Settle, Unsettled
    <3> QED BY <1>6, <2>0, <3>1, <3>2, <3>3 DEF Abort, Settle, Unsettled
  <2> QED BY <2>1, <2>2, <2>3
<1>7. ASSUME NEW i \in Ids, TimerFires(i) PROVE Maps'
  BY <1>7 DEF TimerFires, Cancel, Settle, Unsettled
<1>8. ASSUME NEW i \in Ids, NEW body \in DOMAIN AfterDecode, OnResponse(i, body) PROVE Maps'
  <2>1. CASE i \notin responseHandlers
    BY <1>8, <2>1 DEF OnResponse
  <2>2. CASE i \in responseHandlers /\ i \in aborted
    BY <1>8, <2>2 DEF OnResponse, CleanupTimeout
  <2>3. CASE i \in responseHandlers /\ i \notin aborted /\ body = "error"
    BY <1>8, <2>3 DEF OnResponse, CleanupTimeout, Settle, Unsettled
  <2>4. CASE i \in responseHandlers /\ i \notin aborted /\ body # "error"
    <3>1. AfterDecode[body] \in {"validating", "driving"}
      BY <2>4 DEF AfterDecode
    <3>2. \A j \in Ids : promise'[j] # promise[j] => j = i /\ promise'[i] = AfterDecode[body]
      BY <1>8, <2>4 DEF OnResponse
    <3> QED BY <1>8, <2>4, <3>1, <3>2 DEF OnResponse, CleanupTimeout, Unsettled
  <2> QED BY <2>1, <2>2, <2>3, <2>4
<1>9. ASSUME NEW i \in Ids, NEW o \in {"resolved", "error"}, Decide(i, o) PROVE Maps'
  BY <1>9 DEF Decide
<1>10. ASSUME NEW i \in Ids, ReadProgress(i) PROVE Maps'
  BY <1>10 DEF ReadProgress
<1>11. CASE ReadEnds
  BY <1>11 DEF ReadEnds
<1>12. ASSUME NEW i \in Ids, RunProgress(i) PROVE Maps'
  <2>1. CASE TotalTimeoutExceeded(i)
    BY <1>12, <2>1 DEF RunProgress, TotalTimeoutExceeded, ResetsTimeout, Settle, Unsettled
  <2>2. CASE TimeoutRestarted(i)
    BY <1>12, <2>2 DEF RunProgress, TimeoutRestarted, ResetsTimeout
  <2>3. CASE OnlyReported(i)
    BY <1>12, <2>3 DEF RunProgress, OnlyReported
  <2> QED BY <1>12, <2>1, <2>2, <2>3 DEF RunProgress
<1>13. ASSUME NEW i \in Ids, Cleanup(i) PROVE Maps'
  BY <1>13 DEF Cleanup, CleanupTimeout
<1>14. CASE CloseEnds
  BY <1>14 DEF CloseEnds, Unsettled
<1>15. CASE Tick
  BY <1>15 DEF Tick
<1>16. CASE UNCHANGED vars
  BY <1>16 DEF vars
<1> QED
  BY <1>1, <1>2, <1>3, <1>4, <1>5, <1>6, <1>7, <1>8, <1>9, <1>10, <1>11, <1>12, <1>13, <1>14,
     <1>15, <1>16 DEF Next, Microtask

THEOREM BookkeepingHolds == Spec => []Bookkeeping
BY BookkeepingInit, BookkeepingStep, PTL DEF Spec

\* A pending request can always be ended: an answer finds its handler and its
\* timer runs, or _onclose holds it and is about to reject it - even with
\* overlapping connects and an onclose callback that issues requests.
THEOREM PendingNeverStranded == Spec => []NeverStranded
<1>1. Bookkeeping => NeverStranded
  BY DEF Bookkeeping
<1> QED BY <1>1, BookkeepingHolds, PTL

\* A finished request leaves nothing in the maps and no abort listener.
THEOREM FinishedLeavesNothing == Spec => []NothingLeftBehind
<1>1. Bookkeeping => NothingLeftBehind
  BY DEF Bookkeeping
<1> QED BY <1>1, BookkeepingHolds, PTL

-----------------------------------------------------------------------------
(***************************************************************************)
(* How long a caller waits.  The bound on `now' is not inductive: it needs *)
(* the deadline of the timer that is running, and that a restart is only   *)
(* taken while the total is not spent.                                     *)
(***************************************************************************)
DeadlineIsBounded ==
  \A i \in Ids : Pending(i) =>
    LET o == opts[i]
    IN /\ now <= deadline[i]
       /\ ~o.reset => deadline[i] <= startTime[i] + o.timeout
       /\ o.maxTotal > 0 => deadline[i] <= startTime[i] + o.maxTotal + o.timeout

\* The numbers involved, as the arithmetic below needs them.
LEMMA Numbers ==
  ASSUME TypeOK, NEW i \in Ids
  PROVE  /\ opts[i].timeout \in Nat /\ opts[i].maxTotal \in Nat /\ opts[i].reset \in BOOLEAN
         /\ deadline[i] \in Nat /\ startTime[i] \in Nat /\ now \in Nat
BY RequestsAssumption DEF TypeOK

LEMMA DeadlineStep == Bookkeeping /\ DeadlineIsBounded /\ [Next]_vars => DeadlineIsBounded'
<1> SUFFICES ASSUME Bookkeeping, DeadlineIsBounded, [Next]_vars, NEW j \in Ids, Pending(j)'
             PROVE  /\ now' <= deadline'[j]
                    /\ ~opts'[j].reset => deadline'[j] <= startTime'[j] + opts'[j].timeout
                    /\ opts'[j].maxTotal > 0 =>
                         deadline'[j] <= startTime'[j] + opts'[j].maxTotal + opts'[j].timeout
  BY DEF DeadlineIsBounded
<1> DEFINE Kept == /\ Pending(j) /\ now' = now /\ opts' = opts
                   /\ deadline'[j] = deadline[j] /\ startTime'[j] = startTime[j]
<1>0. TypeOK
  BY DEF Bookkeeping
<1>1. CASE Kept
  BY <1>1 DEF DeadlineIsBounded
<1>2. CASE Request
  <2>1. CASE j = nextId
    BY <1>0, <1>2, <2>1, Numbers DEF Request, TypeOK
  <2>2. CASE j # nextId
    BY <1>0, <1>1, <1>2, <2>2 DEF Request, TypeOK, Pending
  <2> QED BY <2>1, <2>2
<1>3. ASSUME NEW i \in Ids, RunProgress(i), i = j PROVE Kept \/ TimeoutRestarted(j)
  <2>1. CASE TotalTimeoutExceeded(i)
    BY <1>0, <1>3, <2>1 DEF RunProgress, TotalTimeoutExceeded, Settle, TypeOK, Pending
  <2>2. CASE OnlyReported(i)
    BY <1>0, <1>3, <2>2 DEF RunProgress, OnlyReported, Pending
  <2> QED BY <1>3, <2>1, <2>2 DEF RunProgress
<1>4. ASSUME RunProgress(j), TimeoutRestarted(j)
      PROVE  /\ Pending(j) /\ deadline'[j] = now + opts[j].timeout /\ opts[j].reset
             /\ opts[j].maxTotal > 0 => now < startTime[j] + opts[j].maxTotal
             /\ now' = now /\ opts' = opts /\ startTime' = startTime
  BY <1>0, <1>4, Numbers DEF RunProgress, TimeoutRestarted, ResetsTimeout, BudgetSpent, TypeOK, Pending
<1>5. CASE RunProgress(j) /\ TimeoutRestarted(j)
  BY <1>0, <1>4, <1>5, Numbers
<1>6. CASE Tick
  <2>1. j \in armed /\ Pending(j)
    BY <1>6 DEF Bookkeeping, NeverStranded, Tick, Idle, Quiet, MayRunMicrotask, Pending, call
  <2>2. now' = now + 1 /\ now < deadline[j]
    BY <1>0, <1>6, <2>1, Numbers DEF Tick
  <2> QED BY <1>0, <1>6, <2>1, <2>2, Numbers DEF Tick, timer, DeadlineIsBounded
<1>7. Kept \/ Request \/ Tick \/ (RunProgress(j) /\ TimeoutRestarted(j))
  <2> USE <1>0 DEF maps, timer, conn, wire, call, loop, TypeOK, Pending
  <2>1. ASSUME NEW t \in Transports, Connect(t) \/ CloseBegins(t) PROVE Kept
    BY <2>1 DEF Connect, CloseBegins
  <2>2. ASSUME NEW i \in Ids, SendDone(i) \/ SendFails(i) \/ ReadProgress(i) PROVE Kept
    BY <2>2 DEF SendDone, SendFails, ReadProgress, Settle
  <2>3. ASSUME NEW i \in Ids, Abort(i) \/ TimerFires(i) PROVE Kept
    BY <2>3 DEF Abort, TimerFires, Cancel, Settle
  <2>4. ASSUME NEW i \in Ids, NEW body \in DOMAIN AfterDecode, OnResponse(i, body) PROVE Kept
    BY <2>4 DEF OnResponse, AfterDecode, Settle
  <2>5. ASSUME NEW i \in Ids, NEW o \in {"resolved", "error"}, Decide(i, o) PROVE Kept
    BY <2>5 DEF Decide
  <2>6. ASSUME NEW i \in Ids, RunProgress(i), i # j PROVE Kept
    BY <2>6 DEF RunProgress, TotalTimeoutExceeded, TimeoutRestarted, OnlyReported, Settle
  <2>7. ASSUME NEW i \in Ids, Cleanup(i) PROVE Kept
    BY <2>7 DEF Cleanup
  <2>8. CASE ReadEnds \/ CloseEnds
    BY <2>8 DEF ReadEnds, CloseEnds
  <2>9. CASE UNCHANGED vars
    BY <2>9 DEF vars
  <2> QED BY <1>3, <2>1, <2>2, <2>3, <2>4, <2>5, <2>6, <2>7, <2>8, <2>9 DEF Next, Microtask
<1> QED BY <1>1, <1>2, <1>5, <1>6, <1>7

\* A caller waits at most `timeout' when progress restarts nothing, and at most
\* maxTotalTimeout + timeout when it does and a total is set.
THEOREM WaitBounded == Spec => []WaitIsBounded
<1>1. Init => DeadlineIsBounded
  BY DEF Init, DeadlineIsBounded, Pending
<1>2. Bookkeeping /\ DeadlineIsBounded => WaitIsBounded
  <2> SUFFICES ASSUME Bookkeeping, DeadlineIsBounded, NEW i \in Ids, Pending(i)
               PROVE  /\ ~opts[i].reset => now <= startTime[i] + opts[i].timeout
                      /\ opts[i].maxTotal > 0 =>
                           now <= startTime[i] + opts[i].maxTotal + opts[i].timeout
    BY DEF WaitIsBounded
  <2> QED BY Numbers DEF DeadlineIsBounded, Bookkeeping
<1> QED BY <1>1, <1>2, DeadlineStep, BookkeepingHolds, PTL DEF Spec

-----------------------------------------------------------------------------
(***************************************************************************)
(* No cancellation once answered.  A timer or listener that outlives its   *)
(* request is harmless only because the request's answer was marked as     *)
(* received, or because its cleanup is queued ahead of whatever could      *)
(* reach it; inside onclose, what is queued no longer listens.             *)
(***************************************************************************)
OnlyPendingCancels ==
  /\ \A i \in Ids : i \in armed \cup listening /\ i \notin responseReceived =>
       Pending(i) \/ i \in cleanupDue
  /\ \A i \in Ids : i \in armed /\ i \notin responseReceived => i \in timeoutInfo
  /\ inOnclose => ~reading /\ cleanupDue \cap listening = {}

LEMMA CancelsStep == Bookkeeping /\ OnlyPendingCancels /\ [Next]_vars => OnlyPendingCancels'
<1> SUFFICES ASSUME Bookkeeping, OnlyPendingCancels, [Next]_vars PROVE OnlyPendingCancels'
  OBVIOUS
<1> USE DEF maps, timer, conn, wire, call, loop, Bookkeeping, Untouched, PendingIsAbortable,
            OnlyPendingReports, QueuesAreForSettled, NeverStranded, Pending, Settled, TypeOK,
            OnlyPendingCancels
<1>1. ASSUME NEW t \in Transports, Connect(t) PROVE OnlyPendingCancels'
  BY <1>1 DEF Connect
<1>2. ASSUME NEW t \in Transports, CloseBegins(t) PROVE OnlyPendingCancels'
  BY <1>2 DEF CloseBegins, Quiet, MayRunMicrotask
<1>3. CASE Request
  <2>0. nextId \in Ids /\ nextId \in Nat
    BY <1>3, RequestsAssumption DEF Request, Ids
  <2>1. nextId \in Ids /\ nextId \notin cleanupDue
    BY <2>0
  <2> QED BY <1>3, <2>1 DEF Request
<1>4. ASSUME NEW i \in Ids, SendDone(i) \/ ReadProgress(i) PROVE OnlyPendingCancels'
  BY <1>4 DEF SendDone, ReadProgress, MayRead, Idle, Quiet, MayRunMicrotask
<1>5. ASSUME NEW i \in Ids, SendFails(i) PROVE OnlyPendingCancels'
  BY <1>5 DEF SendFails, Settle, Unsettled, Quiet, MayRunMicrotask
<1>6. ASSUME NEW i \in Ids, Abort(i) PROVE OnlyPendingCancels'
  BY <1>6 DEF Abort, Cancel, Settle, Unsettled
<1>7. ASSUME NEW i \in Ids, TimerFires(i) PROVE OnlyPendingCancels'
  BY <1>7 DEF TimerFires, Cancel, Settle, Unsettled, Idle, Quiet, MayRunMicrotask
<1>8. ASSUME NEW i \in Ids, NEW body \in DOMAIN AfterDecode, OnResponse(i, body)
      PROVE  OnlyPendingCancels'
  <2>0. ~inOnclose'
    BY <1>8 DEF OnResponse, MayRead, Idle, Quiet, MayRunMicrotask
  <2>1. CASE i \notin responseHandlers
    BY <1>8, <2>0, <2>1 DEF OnResponse
  <2>2. CASE i \in responseHandlers /\ i \in aborted
    BY <1>8, <2>0, <2>2 DEF OnResponse, CleanupTimeout
  <2>3. CASE i \in responseHandlers /\ i \notin aborted
    <3>1. /\ armed' \subseteq armed \ ({i} \cap timeoutInfo) /\ timeoutInfo' = timeoutInfo \ {i}
          /\ listening' = listening /\ responseReceived' = responseReceived \cup {i}
      BY <1>8, <2>3 DEF OnResponse, CleanupTimeout
    <3>2. cleanupDue \subseteq cleanupDue' /\ \A j \in Ids \ {i} : promise'[j] = promise[j]
      BY <1>8, <2>3 DEF OnResponse, Settle, AfterDecode
    <3> QED BY <2>0, <3>1, <3>2
  <2> QED BY <2>1, <2>2, <2>3
<1>9. ASSUME NEW i \in Ids, NEW o \in {"resolved", "error"}, Decide(i, o)
      PROVE  OnlyPendingCancels'
  BY <1>9 DEF Decide, Quiet, MayRunMicrotask
<1>10. ASSUME NEW i \in Ids, RunProgress(i) PROVE OnlyPendingCancels'
  <2>1. CASE TotalTimeoutExceeded(i)
    BY <1>10, <2>1 DEF RunProgress, TotalTimeoutExceeded, ResetsTimeout, Settle, Unsettled,
                       MayRunMicrotask
  <2>2. CASE TimeoutRestarted(i)
    BY <1>10, <2>2 DEF RunProgress, TimeoutRestarted, ResetsTimeout
  <2>3. CASE OnlyReported(i)
    BY <1>10, <2>3 DEF RunProgress, OnlyReported
  <2> QED BY <1>10, <2>1, <2>2, <2>3 DEF RunProgress
<1>11. ASSUME NEW i \in Ids, Cleanup(i) PROVE OnlyPendingCancels'
  BY <1>11 DEF Cleanup, CleanupTimeout
<1>12. CASE CloseEnds
  BY <1>12 DEF CloseEnds, Unsettled
<1>13. CASE ReadEnds \/ Tick
  BY <1>13 DEF ReadEnds, Tick
<1>14. CASE UNCHANGED vars
  BY <1>14 DEF vars
<1> QED
  BY <1>1, <1>2, <1>3, <1>4, <1>5, <1>6, <1>7, <1>8, <1>9, <1>10, <1>11, <1>12, <1>13, <1>14
     DEF Next, Microtask

LEMMA CancelsHolds == Spec => []OnlyPendingCancels
<1>1. Init => OnlyPendingCancels
  BY DEF Init, OnlyPendingCancels
<1> QED BY <1>1, CancelsStep, BookkeepingHolds, PTL DEF Spec

\* A step that sends a cancellation, or closes a request's stream, is one that
\* ends a request the caller still waits for.
LEMMA CancelsPending ==
  Bookkeeping /\ OnlyPendingCancels /\ [Next]_vars =>
    \A i \in Ids : (cancels'[i] # cancels[i] \/ i \in streamAborted' \ streamAborted)
                     => Pending(i)
<1> SUFFICES ASSUME Bookkeeping, OnlyPendingCancels, [Next]_vars, NEW j \in Ids,
                    cancels'[j] # cancels[j] \/ j \in streamAborted' \ streamAborted
             PROVE  Pending(j)
  OBVIOUS
<1> USE DEF maps, timer, conn, wire, call, loop, Bookkeeping, TypeOK
<1>1. (\E i \in Ids : Abort(i) \/ TimerFires(i)) \/ UNCHANGED <<cancels, streamAborted>>
  BY DEF Next, Microtask, vars, Connect, CloseBegins, Request, SendDone, SendFails, ReadProgress,
         OnResponse, Decide, ReadEnds, RunProgress, Cleanup, CloseEnds, Tick
<1>2. PICK i \in Ids : Abort(i) \/ TimerFires(i)
  BY <1>1
<1>3. i = j /\ i \notin responseReceived
  BY <1>2 DEF Abort, TimerFires, Cancel
<1>4. CASE Abort(i)
  BY <1>3, <1>4 DEF Abort, AppMayRun, Quiet, OnlyPendingCancels, Pending
<1>5. CASE TimerFires(i)
  BY <1>3, <1>5 DEF TimerFires, Idle, Quiet, OnlyPendingCancels, Pending
<1> QED BY <1>2, <1>4, <1>5

\* Nothing cancels a request once its answer was taken or its end reported -
\* with overlapping connects and from inside the onclose callback, too.
THEOREM AnsweredNeverCancelled == Spec => NoCancelOnceAnswered
<1>1. Bookkeeping /\ OnlyPendingCancels /\ [Next]_vars =>
        [\A i \in Ids : (cancels'[i] # cancels[i] \/ i \in streamAborted' \ streamAborted)
                          => Pending(i)]_vars
  BY CancelsPending
<1> QED BY <1>1, CancelsHolds, BookkeepingHolds, PTL DEF Spec, NoCancelOnceAnswered

-----------------------------------------------------------------------------
(***************************************************************************)
(* One transport at a time.  From here on connect() is only called when    *)
(* nothing is attached: with two transports attached, closing either of    *)
(* them rejects the requests of both.  A registered request then belongs   *)
(* to the transport that is open and a detached one to a transport that is *)
(* gone, also while the onclose callback issues requests on the next one.  *)
(***************************************************************************)
OneTransport ==
  /\ open = IF transport = NoTransport THEN {} ELSE {transport}
  /\ open \subseteq used

RequestsFollowTheirTransport ==
  /\ \A i \in Ids : promise[i] # "unsent" => sentOn[i] \in used
  /\ \A i \in responseHandlers : sentOn[i] \in open
  /\ \A i \in closing : sentOn[i] \in used \ open
  /\ ~inOnclose => closing = {}

\* Whoever can still be answered, or rejected, has not been answered.
AnswersLeaveTheMap ==
  \A i \in responseHandlers \cup closing : promise[i] \notin {"validating", "driving"}

ConnectionInv ==
  OneTransport /\ RequestsFollowTheirTransport /\ AnswersLeaveTheMap /\ ClosedMeansGone

\* The steps that leave alone what ConnectionInv speaks of: promises only end,
\* and the map only shrinks.
LEMMA ConnectionQuietStep ==
  ASSUME TypeOK, ConnectionInv, responseHandlers' \subseteq responseHandlers,
         \A i \in Ids : promise'[i] # promise[i] =>
            /\ promise[i] # "unsent" /\ promise'[i] # "closed"
            /\ promise'[i] \in {"validating", "driving"} => i \notin responseHandlers' \cup closing,
         UNCHANGED <<transport, open, used, sentOn, closing, inOnclose>>
  PROVE  ConnectionInv'
<1> USE DEF TypeOK, ConnectionInv
<1>1. OneTransport' /\ RequestsFollowTheirTransport'
  BY DEF OneTransport, RequestsFollowTheirTransport
<1>2. AnswersLeaveTheMap' /\ ClosedMeansGone'
  BY DEF AnswersLeaveTheMap, ClosedMeansGone
<1> QED BY <1>1, <1>2

LEMMA ConnectionStep ==
  ASSUME ~Overlap, Bookkeeping, OnlyPendingCancels, ConnectionInv, [Next]_vars
  PROVE  ConnectionInv'
<1> USE DEF maps, timer, conn, wire, call, loop, Bookkeeping, TypeOK
<1>1. ASSUME NEW t \in Transports, Connect(t) PROVE ConnectionInv'
  <2>1. OneTransport'
    BY <1>1, RequestsAssumption DEF Connect, ConnectionInv, OneTransport
  <2>2. RequestsFollowTheirTransport' /\ AnswersLeaveTheMap' /\ ClosedMeansGone'
    BY <1>1 DEF Connect, ConnectionInv, RequestsFollowTheirTransport, AnswersLeaveTheMap,
                ClosedMeansGone
  <2> QED BY <2>1, <2>2 DEF ConnectionInv
<1>2. ASSUME NEW t \in Transports, CloseBegins(t) PROVE ConnectionInv'
  <2>1. open = {t} /\ open' = {}
    BY <1>2 DEF CloseBegins, ConnectionInv, OneTransport
  <2>2. OneTransport' /\ AnswersLeaveTheMap' /\ ClosedMeansGone'
    BY <1>2, <2>1 DEF CloseBegins, ConnectionInv, OneTransport, AnswersLeaveTheMap, ClosedMeansGone
  <2>3. RequestsFollowTheirTransport'
    BY <1>2, <2>1 DEF CloseBegins, ConnectionInv, OneTransport, RequestsFollowTheirTransport
  <2> QED BY <2>2, <2>3 DEF ConnectionInv
<1>3. CASE Request
  <2> DEFINE i == nextId
  <2>1. i \in Ids /\ promise[i] = "unsent" /\ i \notin closing
    BY <1>3, RequestsAssumption DEF Request, Ids, Untouched
  <2>2. /\ responseHandlers' = responseHandlers \cup {i} /\ transport # NoTransport
        /\ promise'[i] = "pending" /\ sentOn'[i] = transport
        /\ \A j \in Ids \ {i} : promise'[j] = promise[j] /\ sentOn'[j] = sentOn[j]
        /\ UNCHANGED <<transport, open, used, closing, inOnclose>>
    BY <1>3, <2>1 DEF Request
  <2>3. OneTransport' /\ transport \in open /\ transport \in used
    BY <2>2 DEF ConnectionInv, OneTransport
  <2>4. RequestsFollowTheirTransport'
    BY <2>1, <2>2, <2>3 DEF ConnectionInv, RequestsFollowTheirTransport
  <2>5. AnswersLeaveTheMap' /\ ClosedMeansGone'
    BY <2>1, <2>2, <2>3 DEF ConnectionInv, AnswersLeaveTheMap, ClosedMeansGone
  <2> QED BY <2>3, <2>4, <2>5 DEF ConnectionInv
<1>4. ASSUME NEW i \in Ids, SendDone(i) \/ ReadProgress(i) PROVE ConnectionInv'
  BY <1>4, ConnectionQuietStep DEF SendDone, ReadProgress
<1>5. ASSUME NEW i \in Ids, SendFails(i) PROVE ConnectionInv'
  BY <1>5, ConnectionQuietStep DEF SendFails, Settle, Unsettled
<1>6. ASSUME NEW i \in Ids, Abort(i) PROVE ConnectionInv'
  BY <1>6, ConnectionQuietStep DEF Abort, Cancel, Settle, Unsettled
<1>7. ASSUME NEW i \in Ids, TimerFires(i) PROVE ConnectionInv'
  BY <1>7, ConnectionQuietStep DEF TimerFires, Cancel, Settle, Unsettled
<1>8. ASSUME NEW i \in Ids, NEW body \in DOMAIN AfterDecode, OnResponse(i, body)
      PROVE  ConnectionInv'
  <2>1. closing = {}
    BY <1>8 DEF OnResponse, MayRead, Idle, Quiet, MayRunMicrotask, OnlyPendingCancels,
                ConnectionInv, RequestsFollowTheirTransport
  <2>2. AfterDecode[body] # "closed"
    BY DEF AfterDecode
  <2>3. \A j \in Ids : promise'[j] # promise[j] =>
          j = i /\ i \notin responseHandlers' /\ promise[i] # "unsent" /\ promise'[i] # "closed"
    BY <1>8, <2>2 DEF OnResponse, Settle, Unsettled
  <2>4. responseHandlers' \subseteq responseHandlers
    BY <1>8 DEF OnResponse
  <2> QED BY <1>8, <2>1, <2>3, <2>4, ConnectionQuietStep DEF OnResponse
<1>9. ASSUME NEW i \in Ids, NEW o \in {"resolved", "error"}, Decide(i, o) PROVE ConnectionInv'
  BY <1>9, ConnectionQuietStep DEF Decide
<1>10. ASSUME NEW i \in Ids, RunProgress(i) PROVE ConnectionInv'
  <2>1. CASE TotalTimeoutExceeded(i)
    BY <1>10, <2>1, ConnectionQuietStep DEF RunProgress, TotalTimeoutExceeded, Settle, Unsettled
  <2>2. CASE TimeoutRestarted(i) \/ OnlyReported(i)
    BY <1>10, <2>2, ConnectionQuietStep DEF RunProgress, TimeoutRestarted, OnlyReported
  <2> QED BY <1>10, <2>1, <2>2 DEF RunProgress
<1>11. ASSUME NEW i \in Ids, Cleanup(i) PROVE ConnectionInv'
  BY <1>11, ConnectionQuietStep DEF Cleanup
<1>12. CASE CloseEnds
  <2>1. \A i \in Ids : promise'[i] # promise[i] => promise'[i] = "closed" /\ i \in closing
                                                   /\ promise[i] # "unsent"
    BY <1>12 DEF CloseEnds, Unsettled
  <2>2. OneTransport' /\ RequestsFollowTheirTransport'
    BY <1>12, <2>1 DEF CloseEnds, ConnectionInv, OneTransport, RequestsFollowTheirTransport
  <2>3. AnswersLeaveTheMap' /\ ClosedMeansGone'
    BY <1>12, <2>1 DEF CloseEnds, ConnectionInv, AnswersLeaveTheMap, ClosedMeansGone,
                       RequestsFollowTheirTransport
  <2> QED BY <2>2, <2>3 DEF ConnectionInv
<1>13. CASE ReadEnds \/ Tick \/ UNCHANGED vars
  BY <1>13, ConnectionQuietStep DEF ReadEnds, Tick, vars
<1> QED
  BY <1>1, <1>2, <1>3, <1>4, <1>5, <1>6, <1>7, <1>8, <1>9, <1>10, <1>11, <1>12, <1>13
     DEF Next, Microtask

LEMMA ConnectionHolds ==
  ASSUME ~Overlap PROVE Spec => []ConnectionInv
<1>1. Init => ConnectionInv
  BY DEF Init, ConnectionInv, OneTransport, RequestsFollowTheirTransport, AnswersLeaveTheMap,
         ClosedMeansGone
<1>2. Bookkeeping /\ OnlyPendingCancels /\ ConnectionInv /\ [Next]_vars => ConnectionInv'
  BY ConnectionStep
<1> QED BY <1>1, <1>2, BookkeepingHolds, CancelsHolds, PTL DEF Spec

\* With one transport attached at a time, ConnectionClosed is reported only for
\* a connection that is gone: a request the onclose callback issues on the next
\* transport survives the rejections that follow the callback.
THEOREM ClosedIsGone ==
  ASSUME ~Overlap PROVE Spec => []ClosedMeansGone
<1>1. ConnectionInv => ClosedMeansGone
  BY DEF ConnectionInv
<1> QED BY <1>1, ConnectionHolds, PTL

-----------------------------------------------------------------------------
(***************************************************************************)
(* When, besides, the onclose callback leaves the Protocol object alone,   *)
(* no connection is up while it runs, so that whoever still waits is on    *)
(* the connection that is up, and a cancellation is sent once.             *)
(***************************************************************************)
AloneInOnclose ==
  /\ inOnclose => open = {}
  /\ \A i \in Ids : (\E t \in Transports : cancels[i][t] > 0)
                      => promise[i] \notin {"unsent", "pending"}
  /\ CancelReachesItsPeer

AloneInv == Bookkeeping /\ OnlyPendingCancels /\ ConnectionInv /\ AloneInOnclose

\* Outside onclose a waiting request is registered, and its connection up.
LEMMA WaitersAreConnected ==
  ASSUME AloneInv, NEW i \in Ids, Pending(i)
  PROVE  /\ ~inOnclose => i \in responseHandlers /\ sentOn[i] \in open /\ sentOn[i] = transport
         /\ inOnclose => i \in closing /\ i \notin aborted
BY DEF AloneInv, Bookkeeping, NeverStranded, PendingIsAbortable, ConnectionInv, OneTransport,
       RequestsFollowTheirTransport, AloneInOnclose

\* cancel() when it is not cut short: the request waits, on the connection
\* that is up, and is over afterwards.
LEMMA CancelEnds ==
  ASSUME ~Reentrant, AloneInv, NEW i \in Ids, NEW why \in {"aborted", "timeout"},
         \/ Abort(i) /\ i \in listening /\ why = "aborted"
         \/ TimerFires(i) /\ why = "timeout",
         i \notin responseReceived
  PROVE  /\ Pending(i) /\ ~inOnclose /\ sentOn[i] \in open /\ sentOn[i] = transport
         /\ promise' = [promise EXCEPT ![i] = why]
<1> USE DEF Settle, Cancel, Unsettled, Pending, Quiet, Idle, MayRunMicrotask
<1>1. cleanupDue = {} /\ ~inOnclose /\ i \in armed \cup listening /\ Cancel(i, why)
  BY DEF Abort, TimerFires, AppMayRun
<1>2. Pending(i)
  BY <1>1 DEF AloneInv, OnlyPendingCancels
<1> QED BY <1>1, <1>2, WaitersAreConnected DEF AloneInv, Bookkeeping, TypeOK

\* What is sent to cancel a request, and what it means for PeerTold.
LEMMA CancelSends ==
  ASSUME TypeOK, NEW i \in Ids, NEW why, Cancel(i, why)
  PROVE  \/ UNCHANGED cancels
         \/ /\ transport \in Transports /\ ~opts[i].handshake /\ UNCHANGED streamAborted
            /\ i \notin responseReceived
            /\ cancels'[i][transport] = cancels[i][transport] + 1
            /\ \A t \in Transports \ {transport} : cancels'[i][t] = cancels[i][t]
            /\ \A j \in Ids \ {i} : cancels'[j] = cancels[j]
<1>1. cancels[i] \in [Transports -> Nat] /\ cancels \in [Ids -> [Transports -> Nat]]
  BY DEF TypeOK
<1> QED BY <1>1 DEF Cancel, TypeOK

LEMMA AloneQuietStep ==
  ASSUME AloneInOnclose,
         \A i \in Ids : promise'[i] \in {"unsent", "pending"} => promise[i] \in {"unsent", "pending"},
         inOnclose' => open' = {},
         \A i \in Ids : sentOn'[i] # sentOn[i] => promise[i] = "unsent",
         UNCHANGED <<cancels, opts>>
  PROVE  AloneInOnclose'
BY DEF AloneInOnclose, CancelReachesItsPeer

LEMMA AloneStep ==
  ASSUME ~Overlap, ~Reentrant, AloneInv, [Next]_vars
  PROVE  AloneInOnclose'
<1> USE DEF maps, timer, conn, wire, call, loop
<1>t. TypeOK /\ AloneInOnclose
  BY DEF AloneInv, Bookkeeping
<1>0. inOnclose => open = {}
  BY DEF AloneInv, AloneInOnclose
<1>1. ASSUME NEW t \in Transports, Connect(t) \/ CloseBegins(t) PROVE AloneInOnclose'
  <2>1. inOnclose' => open' = {}
    BY <1>1 DEF Connect, CloseBegins, AppMayRun, Quiet, MayRunMicrotask, AloneInv, ConnectionInv,
                OneTransport
  <2> QED BY <1>1, <1>t, <2>1, AloneQuietStep DEF Connect, CloseBegins
<1>2. CASE Request
  <2>1. nextId \in Ids /\ promise[nextId] = "unsent"
    BY <1>2, <1>t, RequestsAssumption DEF Request, Ids, AloneInv, Bookkeeping, Untouched, TypeOK
  <2>2. /\ \A i \in Ids : promise'[i] = promise[i] \/ promise[i] = "unsent"
        /\ \A i \in Ids : sentOn'[i] # sentOn[i] => promise[i] = "unsent"
    BY <1>2, <1>t, <2>1 DEF Request, TypeOK
  <2> QED BY <1>2, <1>0, <1>t, <2>2, AloneQuietStep DEF Request
<1>3. ASSUME NEW i \in Ids, SendDone(i) \/ SendFails(i) \/ ReadProgress(i) PROVE AloneInOnclose'
  BY <1>3, <1>0, <1>t, AloneQuietStep DEF SendDone, SendFails, ReadProgress, Settle, Unsettled, TypeOK
<1>4. ASSUME NEW i \in Ids, NEW why \in {"aborted", "timeout"},
             \/ Abort(i) /\ i \in listening /\ why = "aborted"
             \/ TimerFires(i) /\ why = "timeout"
      PROVE  AloneInOnclose'
  <2>1. Cancel(i, why) /\ UNCHANGED <<open, inOnclose, sentOn, opts>>
    BY <1>4 DEF Abort, TimerFires
  <2>2. CASE UNCHANGED cancels
    BY <2>1, <2>2, <1>0, <1>t, AloneQuietStep DEF Cancel, Settle, Unsettled, TypeOK
  <2>3. CASE cancels' # cancels
    <3>1. /\ transport \in Transports /\ ~opts[i].handshake /\ i \notin responseReceived
          /\ cancels'[i][transport] = cancels[i][transport] + 1
          /\ \A t \in Transports \ {transport} : cancels'[i][t] = cancels[i][t]
          /\ \A j \in Ids \ {i} : cancels'[j] = cancels[j]
      BY <2>1, <2>3, <1>t, CancelSends
    <3>2. Pending(i) /\ sentOn[i] = transport /\ promise' = [promise EXCEPT ![i] = why]
      BY <3>1, <1>4, CancelEnds
    <3>3. \A t \in Transports : cancels[i][t] \in Nat /\ ~(cancels[i][t] > 0)
      BY <1>t, <3>2 DEF AloneInOnclose, Pending, TypeOK
    <3>4. CancelReachesItsPeer'
      BY <1>t, <2>1, <3>1, <3>2, <3>3 DEF AloneInOnclose, CancelReachesItsPeer
    <3>5. promise'[i] = why /\ \A j \in Ids \ {i} : promise'[j] = promise[j]
      BY <3>2, <1>t DEF TypeOK
    <3> QED BY <1>0, <1>t, <2>1, <3>1, <3>4, <3>5 DEF AloneInOnclose
  <2> QED BY <2>2, <2>3
<1>5. ASSUME NEW i \in Ids, Abort(i), i \notin listening PROVE AloneInOnclose'
  BY <1>5, <1>0, <1>t, AloneQuietStep DEF Abort
<1>6. ASSUME NEW i \in Ids, NEW body \in DOMAIN AfterDecode, OnResponse(i, body)
      PROVE  AloneInOnclose'
  <2>1. AfterDecode[body] \notin {"unsent", "pending"}
    BY DEF AfterDecode
  <2>2. \A j \in Ids : promise'[j] \in {"unsent", "pending"} => promise[j] = promise'[j]
    BY <1>6, <1>t, <2>1 DEF OnResponse, Settle, TypeOK
  <2> QED BY <1>6, <1>0, <1>t, <2>2, AloneQuietStep DEF OnResponse
<1>7. ASSUME NEW i \in Ids, NEW o \in {"resolved", "error"}, Decide(i, o) PROVE AloneInOnclose'
  BY <1>7, <1>0, <1>t, AloneQuietStep DEF Decide, TypeOK
<1>8. ASSUME NEW i \in Ids, RunProgress(i) PROVE AloneInOnclose'
  BY <1>8, <1>0, <1>t, AloneQuietStep DEF RunProgress, TotalTimeoutExceeded, TimeoutRestarted,
     OnlyReported, Settle, TypeOK
<1>9. ASSUME NEW i \in Ids, Cleanup(i) PROVE AloneInOnclose'
  BY <1>9, <1>0, <1>t, AloneQuietStep DEF Cleanup
<1>10. CASE ReadEnds \/ CloseEnds \/ Tick \/ UNCHANGED vars
  BY <1>10, <1>0, <1>t, AloneQuietStep DEF ReadEnds, CloseEnds, Tick, vars
<1>11. ASSUME NEW i \in Ids, Abort(i) \/ TimerFires(i) PROVE AloneInOnclose'
  BY <1>11, <1>4, <1>5
<1> QED BY <1>1, <1>2, <1>3, <1>6, <1>7, <1>8, <1>9, <1>10, <1>11 DEF Next, Microtask

LEMMA AloneHolds ==
  ASSUME ~Overlap, ~Reentrant PROVE Spec => []AloneInv
<1>1. Init => AloneInOnclose
  BY DEF Init, AloneInOnclose, CancelReachesItsPeer
<1>2. AloneInv /\ [Next]_vars => AloneInOnclose'
  BY AloneStep
<1> QED
  BY <1>1, <1>2, BookkeepingHolds, CancelsHolds, ConnectionHolds, PTL DEF Spec, AloneInv

\* A cancellation goes to the peer that holds the request, once, and never
\* names the handshake - on Protocol objects that are reconnected, too, as long
\* as their onclose callback does nothing.
THEOREM CancelReaches ==
  ASSUME ~Overlap, ~Reentrant PROVE Spec => []CancelReachesItsPeer
<1>1. AloneInv => CancelReachesItsPeer
  BY DEF AloneInv, AloneInOnclose
<1> QED BY <1>1, AloneHolds, PTL

-----------------------------------------------------------------------------
(***************************************************************************)
(* The Protocol object implements RequestLifecycle: initial states map to  *)
(* initial states, and each step maps to a step of the lifecycle or to     *)
(* none.  The mapping is LifecycleState for the promises, PeerTold for the *)
(* two ways of telling a peer, and the connections as they are.            *)
(***************************************************************************)
LEMMA NobodyMoves ==
  ASSUME UNCHANGED promise
  PROVE  UNCHANGED LifecycleState
BY DEF LifecycleState

LEMMA OneMoves ==
  ASSUME NEW i \in Ids, NEW s, LifecycleState'[i] = s,
         \A j \in Ids \ {i} : promise'[j] = promise[j]
  PROVE  LifecycleState' = [LifecycleState EXCEPT ![i] = s]
BY DEF LifecycleState

LEMMA NobodyTold ==
  ASSUME UNCHANGED <<cancels, streamAborted>>
  PROVE  UNCHANGED PeerTold
BY DEF PeerTold

\* cancel() tells the peer of its own request or nobody.
LEMMA CancelTells ==
  ASSUME TypeOK, NEW i \in Ids, NEW why, Cancel(i, why)
  PROVE  PeerTold' \in {PeerTold, PeerTold \cup {i}}
<1>1. CASE UNCHANGED cancels
  <2>1. streamAborted' \in {streamAborted, streamAborted \cup {i}}
    BY DEF Cancel
  <2>2. CASE streamAborted' = streamAborted
    BY <1>1, <2>2, NobodyTold
  <2>3. CASE streamAborted' = streamAborted \cup {i}
    BY <1>1, <2>3 DEF PeerTold
  <2> QED BY <2>1, <2>2, <2>3
<1>2. CASE cancels' # cancels
  <2>1. /\ transport \in Transports /\ UNCHANGED streamAborted
        /\ cancels'[i][transport] = cancels[i][transport] + 1
        /\ \A j \in Ids \ {i} : cancels'[j] = cancels[j]
    BY <1>2, CancelSends
  <2>2. cancels[i][transport] \in Nat
    BY <2>1 DEF TypeOK
  <2>3. i \in PeerTold'
    BY <2>1, <2>2 DEF PeerTold
  <2>4. \A j \in Ids \ {i} : j \in PeerTold' <=> j \in PeerTold
    BY <2>1 DEF PeerTold
  <2> QED BY <2>3, <2>4 DEF PeerTold
<1> QED BY <1>1, <1>2

LEMMA LifecycleInit == Init => L!Init
BY DEF Init, L!Init, LifecycleState, PeerTold

LEMMA LifecycleStep ==
  ASSUME ~Overlap, ~Reentrant, AloneInv, AloneInv', [Next]_vars
  PROVE  [L!Next]_(L!lvars)
<1> USE DEF maps, timer, conn, wire, call, loop, L!Waiting, L!lvars
<1>t. TypeOK
  BY DEF AloneInv, Bookkeeping
<1> DEFINE Told == UNCHANGED PeerTold
           Links == UNCHANGED <<sentOn, open, used>>
           Hidden == UNCHANGED <<promise, cancels, streamAborted>> /\ Links
<1>0. CASE Hidden
  BY <1>0, NobodyMoves, NobodyTold
<1>1. ASSUME NEW t \in Transports, Connect(t) PROVE L!Next
  <2>1. open = {} /\ ~inOnclose
    BY <1>1 DEF Connect, AppMayRun, Quiet, MayRunMicrotask, AloneInv, ConnectionInv, OneTransport
  <2>2. \A i \in Ids : LifecycleState[i] # "waiting"
    BY <1>t, <2>1, WaitersAreConnected DEF LifecycleState, Pending, TypeOK, Status, Settled
  <2>3. L!Open(t)
    BY <1>1, <2>1, <2>2, NobodyMoves, NobodyTold DEF Connect, L!Open
  <2> QED BY <2>3 DEF L!Next
<1>2. ASSUME NEW t \in Transports, CloseBegins(t) PROVE L!Next
  BY <1>2, NobodyMoves, NobodyTold DEF CloseBegins, L!Lose, L!Next
<1>3. CASE Request
  <2> DEFINE i == nextId
  <2>1. i \in Ids /\ promise[i] = "unsent" /\ transport \in open /\ transport \in Transports
    BY <1>3, <1>t, RequestsAssumption DEF Request, Ids, TypeOK, AloneInv, Bookkeeping, Untouched,
       ConnectionInv, OneTransport
  <2>2. /\ promise'[i] = "pending" /\ \A j \in Ids \ {i} : promise'[j] = promise[j]
        /\ sentOn' = [sentOn EXCEPT ![i] = transport] /\ Told
        /\ UNCHANGED <<open, used>>
    BY <1>3, <1>t, <2>1, NobodyTold DEF Request, TypeOK
  <2>3. LifecycleState[i] = "idle" /\ LifecycleState'[i] = "waiting"
    BY <2>1, <2>2 DEF LifecycleState
  <2>4. L!Issue(i, transport)
    BY <2>1, <2>2, <2>3, OneMoves DEF L!Issue
  <2> QED BY <2>1, <2>4 DEF L!Next
<1>4. ASSUME NEW i \in Ids, SendFails(i) PROVE L!Next \/ Hidden
  <2>1. Told /\ Links
    BY <1>4, NobodyTold DEF SendFails
  <2>2. CASE ~Unsettled(i)
    BY <1>4, <2>2 DEF SendFails, Settle
  <2>3. CASE Unsettled(i)
    <3>1. /\ promise'[i] = "sendFailed" /\ \A j \in Ids \ {i} : promise'[j] = promise[j]
      BY <1>4, <1>t, <2>3 DEF SendFails, Settle, TypeOK
    <3>2. LifecycleState[i] \in {"waiting", "answered"} /\ LifecycleState'[i] = "sendFailed"
      BY <2>3, <3>1 DEF LifecycleState, Unsettled
    <3>3. L!SendFails(i) \/ L!Conclude(i)
      BY <2>1, <3>1, <3>2, OneMoves DEF L!SendFails, L!Conclude
    <3> QED BY <3>3 DEF L!Next
  <2> QED BY <2>2, <2>3
<1>5. ASSUME NEW i \in Ids, NEW why \in {"aborted", "timeout"},
             \/ Abort(i) /\ i \in listening /\ why = "aborted"
             \/ TimerFires(i) /\ why = "timeout"
      PROVE  L!Next \/ Hidden
  <2>1. Cancel(i, why) /\ Links
    BY <1>5 DEF Abort, TimerFires
  <2>2. CASE i \in responseReceived
    BY <2>1, <2>2 DEF Cancel
  <2>3. CASE i \notin responseReceived
    <3>1. Pending(i) /\ sentOn[i] \in open /\ promise' = [promise EXCEPT ![i] = why]
      BY <1>5, <2>3, CancelEnds
    <3>2. LifecycleState[i] = "waiting" /\ LifecycleState'[i] = why
      BY <1>t, <3>1 DEF LifecycleState, Pending, TypeOK
    <3>3. LifecycleState' = [LifecycleState EXCEPT ![i] = why]
      BY <1>t, <3>1, <3>2, OneMoves DEF TypeOK
    <3>4. L!GiveUp(i)
      BY <1>t, <2>1, <3>1, <3>2, <3>3, CancelTells DEF L!GiveUp
    <3> QED BY <3>4 DEF L!Next
  <2> QED BY <2>2, <2>3
<1>6. ASSUME NEW i \in Ids, Abort(i), i \notin listening PROVE Hidden
  BY <1>6 DEF Abort
<1>7. ASSUME NEW i \in Ids, NEW body \in DOMAIN AfterDecode, OnResponse(i, body)
      PROVE  L!Next \/ Hidden
  <2>1. Told /\ Links
    BY <1>7, NobodyTold DEF OnResponse
  <2>2. CASE promise' = promise
    BY <1>7, <2>2 DEF OnResponse
  <2>3. CASE promise' # promise
    <3>1. i \in responseHandlers /\ Unsettled(i)
      BY <1>7, <2>3 DEF OnResponse, Settle
    <3>2. promise[i] = "pending"
      BY <3>1 DEF Unsettled, AloneInv, ConnectionInv, AnswersLeaveTheMap
    <3>3. /\ promise'[i] \in {"error", "validating", "driving"}
          /\ \A j \in Ids \ {i} : promise'[j] = promise[j]
      BY <1>7, <1>t, <2>3, <3>1 DEF OnResponse, Settle, AfterDecode, TypeOK
    <3>4. LifecycleState[i] = "waiting" /\ LifecycleState'[i] \in {"answered", "error"}
      BY <3>2, <3>3 DEF LifecycleState
    <3>5. L!Answer(i)
      BY <1>7, <2>1, <3>3, <3>4, OneMoves DEF L!Answer, OnResponse
    <3> QED BY <3>5 DEF L!Next
  <2> QED BY <2>2, <2>3
<1>8. ASSUME NEW i \in Ids, NEW o \in {"resolved", "error"}, Decide(i, o) PROVE L!Next
  <2>1. promise'[i] = o /\ \A j \in Ids \ {i} : promise'[j] = promise[j]
    BY <1>8, <1>t DEF Decide, TypeOK
  <2>2. LifecycleState[i] = "answered" /\ LifecycleState'[i] = o
    BY <1>8, <2>1 DEF LifecycleState, Decide
  <2>3. L!Conclude(i)
    BY <1>8, <2>1, <2>2, OneMoves, NobodyTold DEF L!Conclude, Decide
  <2> QED BY <2>3 DEF L!Next
<1>9. ASSUME NEW i \in Ids, RunProgress(i) PROVE L!Next \/ Hidden
  <2>1. CASE promise' = promise
    BY <1>9, <2>1 DEF RunProgress
  <2>2. CASE promise' # promise
    <3>1. /\ i \in responseHandlers /\ Pending(i) /\ sentOn[i] \in open
          /\ promise' = [promise EXCEPT ![i] = "timeout"]
      BY <1>9, <2>2 DEF RunProgress, TotalTimeoutExceeded, TimeoutRestarted, OnlyReported, Settle,
         ResetsTimeout, AloneInv, Bookkeeping, OnlyPendingReports, ConnectionInv,
         RequestsFollowTheirTransport
    <3>2. LifecycleState[i] = "waiting" /\ LifecycleState'[i] = "timeout"
      BY <1>t, <3>1 DEF LifecycleState, Pending, TypeOK
    <3>3. LifecycleState' = [LifecycleState EXCEPT ![i] = "timeout"]
      BY <1>t, <3>1, <3>2, OneMoves DEF TypeOK
    <3>4. L!GiveUp(i)
      BY <1>9, <3>1, <3>2, <3>3, NobodyTold DEF L!GiveUp, RunProgress
    <3> QED BY <3>4 DEF L!Next
  <2> QED BY <2>1, <2>2
<1>10. CASE CloseEnds
  <2>1. open = {} /\ Told /\ Links
    BY <1>10, NobodyTold DEF CloseEnds, AloneInv, AloneInOnclose
  <2>2. \A i \in Ids : Pending(i) <=> i \in Rejected /\ Unsettled(i)
    BY <1>10, WaitersAreConnected DEF CloseEnds, Pending, Unsettled, AloneInv, ConnectionInv,
       AnswersLeaveTheMap
  <2>3. \A i \in Ids : promise'[i] = IF Pending(i) THEN "closed" ELSE promise[i]
    BY <1>10, <2>2 DEF CloseEnds
  <2>4. LifecycleState' = [i \in Ids |-> IF LifecycleState[i] = "waiting" THEN "closed"
                                                                          ELSE LifecycleState[i]]
    BY <1>t, <2>3 DEF LifecycleState, Pending, TypeOK, Status, Settled
  <2>5. L!Reject
    BY <2>1, <2>4 DEF L!Reject
  <2> QED BY <2>5 DEF L!Next
<1>11. ASSUME NEW i \in Ids, SendDone(i) \/ ReadProgress(i) \/ Cleanup(i) PROVE Hidden
  BY <1>11 DEF SendDone, ReadProgress, Cleanup
<1>12. CASE ReadEnds \/ Tick \/ UNCHANGED vars
  BY <1>0, <1>12 DEF ReadEnds, Tick, vars
<1>13. ASSUME NEW i \in Ids, Abort(i) \/ TimerFires(i) PROVE L!Next \/ Hidden
  BY <1>13, <1>5, <1>6
<1> QED
  BY <1>0, <1>1, <1>2, <1>3, <1>4, <1>7, <1>8, <1>9, <1>10, <1>11, <1>12, <1>13
     DEF Next, Microtask

\* Whatever the event loop, the peers and the clock do, callers and peers see
\* the promised lifecycle: one issue, one end, an answer that is final, a
\* cancellation only while the request waits on a live connection, and every
\* waiter of a lost connection ended before the next one opens.
THEOREM ImplementsLifecycle ==
  ASSUME ~Overlap, ~Reentrant PROVE Spec => Lifecycle
<1>1. AloneInv /\ AloneInv' /\ [Next]_vars => [L!Next]_(L!lvars)
  BY LifecycleStep
<1> QED BY <1>1, LifecycleInit, AloneHolds, PTL DEF Spec, Lifecycle, L!Spec

=============================================================================
