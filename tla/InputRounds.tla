---------------------------- MODULE InputRounds ----------------------------
(***************************************************************************)
(* What a handler that asks for input sees, and its caller: the handler is *)
(* entered again and again, each time with the responses to what its last  *)
(* entry asked - those and no others - and the state that entry returned,  *)
(* at most MaxRounds times after the first; and the call has a result only *)
(* when the last entry returned one.  "The handler cannot tell which era   *)
(* fulfilled it" (docs/migration/support-2026-07-28.md).  A call that      *)
(* failed may be overtaken by one more entry, a call with a result never.  *)
(***************************************************************************)
EXTENDS Naturals

CONSTANTS
  Keys,      \* the keys of inputRequests
  MaxRounds  \* re-entries of the handler in one call

VARIABLES
  entries,   \* how often the handler was entered
  given,     \* what its last entry was given
  returned,  \* what its last entry returned
  outcome    \* where the call stands

rvars == <<entries, given, returned, outcome>>

\* Embedded requests and states are known by the entry that returned them;
\* a response by its request.  State 0 is none.
Return(kind, asks, state) == [kind |-> kind, asks |-> asks, state |-> state]

Running  == Return("running", {}, 0)
Complete == Return("complete", {}, 0)
Error    == Return("error", {}, 0)

InputReturns(n) == {Return("input", asks, state) : asks \in SUBSET ({n} \X Keys), state \in {0, n}}

Input(responses, state) == [responses |-> responses, state |-> state]

NoInput == Input({}, 0)

Init == entries = 0 /\ given = NoInput /\ returned = Complete /\ outcome = "open"

Enter ==
  /\ outcome # "result" /\ entries <= MaxRounds
  /\ \/ entries = 0 /\ given' = NoInput
     \/ returned.kind = "input" /\ given' = Input(returned.asks, returned.state)
  /\ entries' = entries + 1 /\ returned' = Running
  /\ UNCHANGED outcome

Returns ==
  /\ returned = Running
  /\ returned' \in {Complete, Error} \cup InputReturns(entries)
  /\ UNCHANGED <<entries, given, outcome>>

Finish ==
  /\ outcome = "open" /\ entries > 0 /\ returned = Complete
  /\ outcome' = "result"
  /\ UNCHANGED <<entries, given, returned>>

Fail ==
  /\ outcome = "open" /\ outcome' = "failed"
  /\ UNCHANGED <<entries, given, returned>>

Next == Enter \/ Returns \/ Finish \/ Fail

Spec == Init /\ [][Next]_rvars
=============================================================================
