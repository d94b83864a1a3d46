---------------------- MODULE ProtocolRequestsRefinement ----------------------
(***************************************************************************)
(* ProtocolRequests implements RequestLifecycle, as long as the            *)
(* application connects one transport at a time and leaves the Protocol    *)
(* object alone inside its onclose callback.                               *)
(***************************************************************************)
EXTENDS ProtocolRequests

\* The six ways to end keep their names; "validating" and "driving" are what
\* an answer in hand looks like inside request().
LifecycleState ==
  [i \in Ids |->
     IF promise[i] = "unsent" THEN "idle"
     ELSE IF promise[i] = "pending" THEN "waiting"
     ELSE IF promise[i] \in {"validating", "driving"} THEN "answered"
     ELSE promise[i]]

\* The peer is told by notifications/cancelled or by its stream closing.
PeerTold == {i \in Ids : i \in streamAborted \/ \E t \in Transports : cancels[i][t] > 0}

L == INSTANCE RequestLifecycle
       WITH Requests <- Ids, Connections <- Transports, None <- NoTransport,
            state <- LifecycleState, to <- sentOn, up <- open, opened <- used, told <- PeerTold

\* Every step of the Protocol object is a step of the promised lifecycle or
\* changes nothing a caller can see (_requestWithSchemaViaCodec, _onresponse,
\* _onclose and the timers against the contract of request()).
Lifecycle == L!Spec
=============================================================================
