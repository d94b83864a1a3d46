-------------------------- MODULE ProtocolHandlers --------------------------
(***************************************************************************)
(* The responder half of class Protocol                                    *)
(* (packages/core-internal/src/shared/protocol.ts): requests come in from  *)
(* the peers of the transports it is connected to, one after the other or, *)
(* when Overlap is set, several at a time; each runs an asynchronous       *)
(* handler; notifications/cancelled and a closing transport abort them.    *)
(*                                                                         *)
(* A handler is identified by its peer and the id that peer chose.  Peers  *)
(* choose ids on their own, so two of them may use the same one; a peer    *)
(* never uses an id twice (JSON-RPC ids are unique per sender).  The map   *)
(* of abort controllers is keyed by the bare id.                           *)
(***************************************************************************)
EXTENDS Naturals

CONSTANTS
  Transports,    \* transport objects, each the link to one peer
  NoTransport,   \* `undefined' in this._transport
  RequestIds,    \* the ids peers number their requests with
  Handlers,      \* the requests made of this Protocol: <<transport, id>>
  NoHandler,     \* an id that has no controller
  Overlap,       \* may connect() be called while a transport is attached?
  Reentrant      \* may the user's onclose callback connect the next transport?

ASSUME HandlersAssumption ==
  /\ NoTransport \notin Transports
  /\ Handlers \subseteq Transports \X RequestIds
  /\ NoHandler \notin Handlers
  /\ Overlap \in BOOLEAN /\ Reentrant \in BOOLEAN

VARIABLES
  transport,    \* this._transport
  open,         \* transports wired to this Protocol whose onclose has not fired
  used,         \* transports ever connected
  controllers,  \* this._requestHandlerAbortControllers: id -> the handler it aborts
  phase,        \* how far a request has come
  captured,     \* the transport _onrequest captured for it
  aborted,      \* handlers whose ctx.mcpReq.signal is aborted
  sentTo,       \* the transport its response was sent on
  cancelDue,    \* notifications/cancelled read, handler microtask still queued
  cancelled,    \* requests whose cancellation their peer has sent
  inOnclose,    \* the user's onclose callback is running
  closing       \* _onclose's local snapshot of the controllers

conn == <<transport, open, used>>
work == <<phase, captured, aborted, sentTo>>
wire == <<cancelDue, cancelled>>
tear == <<inOnclose, closing>>
vars == <<conn, controllers, work, wire, tear>>

Phases == {"unsent", "refused", "dropped", "running", "sending", "settled", "done"}

Init ==
  /\ transport = NoTransport /\ open = {} /\ used = {}
  /\ controllers = [i \in RequestIds |-> NoHandler]
  /\ phase = [h \in Handlers |-> "unsent"]
  /\ captured = [h \in Handlers |-> NoTransport]
  /\ aborted = {}
  /\ sentTo = [h \in Handlers |-> NoTransport]
  /\ cancelDue = {} /\ cancelled = {}
  /\ inOnclose = FALSE /\ closing = {}

\* One tick reads from one transport; its queued microtasks run before the next.
MayRead(t) == t \in open /\ ~inOnclose /\ \A h \in cancelDue : h[1] = t

Connect(t) ==
  /\ ~inOnclose \/ Reentrant
  /\ t \notin used
  /\ Overlap \/ transport = NoTransport
  /\ transport' = t
  /\ open' = open \cup {t}
  /\ used' = used \cup {t}
  /\ UNCHANGED <<controllers, work, wire, tear>>

(***************************************************************************)
(* _onrequest.  A request is dropped (unclassified traffic the era has no  *)
(* answer for), refused at once (era mismatch, unknown method, missing     *)
(* envelope) or served.                                                    *)
(***************************************************************************)
MutKey(h) == CHOOSE i \in RequestIds : TRUE  \* mutant: every controller under one key

Key(h) == h[2]

Refuse(h) ==
  /\ phase' = [phase EXCEPT ![h] = "refused"]
  /\ sentTo' = [sentTo EXCEPT ![h] = transport]
  /\ UNCHANGED <<captured, controllers>>

Serve(h) ==
  /\ phase' = [phase EXCEPT ![h] = "running"]
  /\ captured' = [captured EXCEPT ![h] = transport]
  /\ controllers' = [controllers EXCEPT ![Key(h)] = h]
  /\ UNCHANGED sentTo

Drop(h) ==
  /\ phase' = [phase EXCEPT ![h] = "dropped"]
  /\ UNCHANGED <<captured, controllers, sentTo>>

OnRequest(h) ==
  /\ MayRead(h[1])
  /\ phase[h] = "unsent"
  /\ Drop(h) \/ Refuse(h) \/ Serve(h)
  /\ UNCHANGED <<conn, aborted, wire, tear>>

(***************************************************************************)
(* notifications/cancelled for a request of the same peer: _onnotification *)
(* queues it, _oncancel aborts whatever controller the id leads to.        *)
(***************************************************************************)
ReadCancel(h) ==
  /\ MayRead(h[1])
  /\ phase[h] # "unsent" /\ h \notin cancelled
  /\ cancelDue' = cancelDue \cup {h}
  /\ cancelled' = cancelled \cup {h}
  /\ UNCHANGED <<conn, controllers, work, tear>>

Reached(i) == {controllers[i]} \ {NoHandler}

OnCancel(h) ==
  /\ ~inOnclose
  /\ h \in cancelDue
  /\ cancelDue' = cancelDue \ {h}
  /\ aborted' = aborted \cup Reached(Key(h))
  /\ UNCHANGED <<conn, controllers, phase, captured, sentTo, cancelled, tear>>

(***************************************************************************)
(* The handler settles.  Unless it was aborted, its result - or its error, *)
(* or the Internal error that stands in for a result the codec refuses to  *)
(* encode - goes out on the captured transport.                            *)
(***************************************************************************)
ReplyTo(h) == captured[h]

MutSuppressed(h) == FALSE  \* mutant: the signal is not looked at again

Suppressed(h) == h \in aborted

\* mutant: a result that cannot be encoded is reported and nothing is sent
MutEncodeFails(h) ==
  /\ phase' = [phase EXCEPT ![h] = "settled"]
  /\ UNCHANGED sentTo

\* sendErrorResponse is not awaited.
EncodeFails(h) ==
  /\ phase' = [phase EXCEPT ![h] = "settled"]
  /\ sentTo' = [sentTo EXCEPT ![h] = ReplyTo(h)]

Respond(h) ==
  /\ phase' = [phase EXCEPT ![h] = "sending"]
  /\ sentTo' = [sentTo EXCEPT ![h] = ReplyTo(h)]

HandlerSettles(h) ==
  /\ ~inOnclose
  /\ phase[h] = "running"
  /\ IF Suppressed(h)
     THEN phase' = [phase EXCEPT ![h] = "settled"] /\ UNCHANGED sentTo
     ELSE EncodeFails(h) \/ Respond(h)
  /\ UNCHANGED <<conn, controllers, captured, aborted, wire, tear>>

\* The awaited send() resolves, or rejects and is reported.
SendSettles(h) ==
  /\ ~inOnclose
  /\ phase[h] = "sending"
  /\ phase' = [phase EXCEPT ![h] = "settled"]
  /\ UNCHANGED <<conn, controllers, captured, aborted, sentTo, wire, tear>>

MutOwns(h) == TRUE  \* mutant: .finally() deletes the id, whoever holds it

Owns(h) == controllers[Key(h)] = h

\* .finally(): only the controller this handler registered is removed.
Finally(h) ==
  /\ ~inOnclose
  /\ phase[h] = "settled"
  /\ phase' = [phase EXCEPT ![h] = "done"]
  /\ controllers' = IF Owns(h) THEN [controllers EXCEPT ![Key(h)] = NoHandler] ELSE controllers
  /\ UNCHANGED <<conn, captured, aborted, sentTo, wire, tear>>

(***************************************************************************)
(* _onclose: the controllers are detached, the user's callback runs, then  *)
(* every detached controller is aborted.                                   *)
(***************************************************************************)
Registered == {controllers[i] : i \in RequestIds} \ {NoHandler}

CloseBegins(t) ==
  /\ ~inOnclose
  /\ t \in open
  /\ open' = open \ {t}
  /\ closing' = Registered
  /\ controllers' = [i \in RequestIds |-> NoHandler]
  /\ transport' = NoTransport
  /\ inOnclose' = TRUE
  /\ UNCHANGED <<used, work, wire>>

AbortRest == aborted' = aborted \cup closing

CloseEnds ==
  /\ inOnclose
  /\ inOnclose' = FALSE
  /\ closing' = {}
  /\ AbortRest
  /\ UNCHANGED <<conn, controllers, phase, captured, sentTo, wire>>

Next ==
  \/ \E t \in Transports : Connect(t) \/ CloseBegins(t)
  \/ \E h \in Handlers : \/ OnRequest(h) \/ ReadCancel(h) \/ OnCancel(h)
                         \/ HandlerSettles(h) \/ SendSettles(h) \/ Finally(h)
  \/ CloseEnds

Spec == Init /\ [][Next]_vars

\* The event loop runs what is queued, sends settle, and every handler returns.
Fairness ==
  /\ WF_vars(CloseEnds)
  /\ \A h \in Handlers : /\ WF_vars(OnCancel(h)) /\ WF_vars(HandlerSettles(h))
                         /\ WF_vars(SendSettles(h)) /\ WF_vars(Finally(h))

FairSpec == Spec /\ Fairness

-----------------------------------------------------------------------------
\* Every variable stays in its type; a controller is filed under the id its
\* request carries.
TypeOK ==
  /\ transport \in Transports \cup {NoTransport}
  /\ open \subseteq Transports /\ used \subseteq Transports
  /\ controllers \in [RequestIds -> Handlers \cup {NoHandler}]
  /\ \A i \in RequestIds : controllers[i] # NoHandler => controllers[i][2] = i
  /\ phase \in [Handlers -> Phases]
  /\ captured \in [Handlers -> Transports \cup {NoTransport}]
  /\ aborted \subseteq Handlers
  /\ sentTo \in [Handlers -> Transports \cup {NoTransport}]
  /\ cancelDue \subseteq Handlers /\ cancelled \subseteq Handlers
  /\ inOnclose \in BOOLEAN /\ closing \subseteq Handlers

Working(h) == phase[h] \in {"running", "sending", "settled"}

\* A handler whose peer is still connected stays within reach of that peer's
\* cancellation until it is over, although handlers of an earlier connection
\* may still be running - and finishing - under the same id.
StaysCancellable ==
  \A h \in Handlers : Working(h) /\ h[1] \in open => controllers[h[2]] = h

\* A signal is aborted "when the client sends notifications/cancelled for the
\* request, and when the connection closes", and for no other reason; and once a
\* connection is gone, every handler still working for it is told.
AbortedForCause ==
  \A h \in Handlers :
    /\ h \in aborted => h \in cancelled \/ h[1] \notin open
    /\ phase[h] = "running" /\ h[1] \notin open => h \in aborted \cup closing

\* Ids and signals: whoever may be cancelled can be, and nobody else is.
SignalsFindTheirHandler == StaysCancellable /\ AbortedForCause

\* A cancellation that _oncancel has handled while the handler ran is final: no
\* response follows it.
CancelledIsSilent ==
  [][\A h \in Handlers : h \in cancelled \ cancelDue /\ phase[h] = "running"
       => sentTo'[h] = NoTransport]_vars

\* A request is answered unless it was dropped, cancelled or its connection
\* closed: a handler that throws or returns what cannot be encoded still
\* answers "rather than stranding the request until timeout".
EveryRequestAnswered ==
  \A h \in Handlers :
    phase[h] = "running" ~> sentTo[h] # NoTransport \/ h \in cancelled \/ h[1] \notin open
=============================================================================
