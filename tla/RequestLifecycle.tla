-------------------------- MODULE RequestLifecycle --------------------------
(***************************************************************************)
(* What request() promises, with none of the bookkeeping that delivers it. *)
(* A request is issued once, to one connection, and ends once.  Its peer's *)
(* answer is final: no timeout, cancellation or close overtakes it.  The   *)
(* peer is told of a cancellation only while the request waits and only    *)
(* over a live connection.  Losing a connection ends every request that    *)
(* waits on it, all of them before the next connection opens.              *)
(***************************************************************************)
CONSTANTS Requests, Connections, None

VARIABLES
  state,   \* where each request stands
  to,      \* the connection it was issued on
  up,      \* live connections
  opened,  \* connections ever opened
  told     \* requests whose peer was told of the cancellation

lvars == <<state, to, up, opened, told>>

Waiting(r) == state[r] = "waiting"

Init ==
  /\ state = [r \in Requests |-> "idle"]
  /\ to = [r \in Requests |-> None]
  /\ up = {} /\ opened = {} /\ told = {}

Open(c) ==
  /\ up = {} /\ c \notin opened
  /\ \A r \in Requests : ~Waiting(r)
  /\ up' = {c} /\ opened' = opened \cup {c}
  /\ UNCHANGED <<state, to, told>>

Issue(r, c) ==
  /\ state[r] = "idle" /\ c \in up
  /\ state' = [state EXCEPT ![r] = "waiting"]
  /\ to' = [to EXCEPT ![r] = c]
  /\ UNCHANGED <<up, opened, told>>

\* The peer answers; an error answer ends the request at once.
Answer(r) ==
  /\ Waiting(r) /\ to[r] \in up
  /\ \E s \in {"answered", "error"} : state' = [state EXCEPT ![r] = s]
  /\ UNCHANGED <<to, up, opened, told>>

\* The answer is validated; only a late send failure can still pre-empt it.
Conclude(r) ==
  /\ state[r] = "answered"
  /\ \E s \in {"resolved", "error", "sendFailed"} : state' = [state EXCEPT ![r] = s]
  /\ UNCHANGED <<to, up, opened, told>>

SendFails(r) ==
  /\ Waiting(r)
  /\ state' = [state EXCEPT ![r] = "sendFailed"]
  /\ UNCHANGED <<to, up, opened, told>>

\* The caller's signal or the timer; the peer may be told.
GiveUp(r) ==
  /\ Waiting(r) /\ to[r] \in up
  /\ \E s \in {"aborted", "timeout"} : state' = [state EXCEPT ![r] = s]
  /\ told' \in {told, told \cup {r}}
  /\ UNCHANGED <<to, up, opened>>

Lose(c) ==
  /\ c \in up
  /\ up' = up \ {c}
  /\ UNCHANGED <<state, to, opened, told>>

Reject ==
  /\ up = {}
  /\ state' = [r \in Requests |-> IF Waiting(r) THEN "closed" ELSE state[r]]
  /\ UNCHANGED <<to, up, opened, told>>

Next ==
  \/ \E c \in Connections : Open(c) \/ Lose(c)
  \/ \E r \in Requests, c \in Connections : Issue(r, c)
  \/ \E r \in Requests : Answer(r) \/ Conclude(r) \/ SendFails(r) \/ GiveUp(r)
  \/ Reject

Spec == Init /\ [][Next]_lvars
=============================================================================
