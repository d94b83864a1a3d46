----------------------- MODULE ProtocolHandlersProofs -----------------------
(***************************************************************************)
(* Theorems about ProtocolHandlers for every set of transports, ids and    *)
(* requests.  Type correctness holds however connect() is called; that     *)
(* signals find their handler, and that a cancelled handler is silent,     *)
(* needs a caller who connects one transport at a time: with two           *)
(* transports attached, two peers may share an id, and with it the entry   *)
(* of the map of controllers.                                              *)
(***************************************************************************)
EXTENDS ProtocolHandlers, TLAPS

-----------------------------------------------------------------------------
(***************************************************************************)
(* Type correctness.                                                       *)
(***************************************************************************)

\* A request is a pair of a transport and an id.
LEMMA HandlerPairs ==
  ASSUME NEW h \in Handlers
  PROVE  h[1] \in Transports /\ h[2] \in RequestIds /\ h = <<h[1], h[2]>>
BY HandlersAssumption

LEMMA TypeStep == TypeOK /\ [Next]_vars => TypeOK'
<1> SUFFICES ASSUME TypeOK, [Next]_vars PROVE TypeOK'
  OBVIOUS
<1> USE DEF TypeOK, conn, work, wire, tear
<1>1. ASSUME NEW t \in Transports, Connect(t) PROVE TypeOK'
  BY <1>1 DEF Connect
<1>2. ASSUME NEW t \in Transports, CloseBegins(t) PROVE TypeOK'
  BY <1>2 DEF CloseBegins, Registered
<1>3. ASSUME NEW h \in Handlers, OnRequest(h) PROVE TypeOK'
  <2>1. CASE Drop(h)
    BY <1>3, <2>1 DEF OnRequest, Drop, Phases
  <2>2. CASE Refuse(h)
    BY <1>3, <2>2 DEF OnRequest, Refuse, Phases
  <2>3. CASE Serve(h)
    BY <1>3, <2>3, HandlerPairs DEF OnRequest, Serve, Phases, Key
  <2> QED BY <1>3, <2>1, <2>2, <2>3 DEF OnRequest
<1>4. ASSUME NEW h \in Handlers, ReadCancel(h) PROVE TypeOK'
  BY <1>4 DEF ReadCancel
<1>5. ASSUME NEW h \in Handlers, OnCancel(h) PROVE TypeOK'
  BY <1>5, HandlerPairs DEF OnCancel, Reached, Key
<1>6. ASSUME NEW h \in Handlers, HandlerSettles(h) PROVE TypeOK'
  BY <1>6 DEF HandlerSettles, EncodeFails, Respond, ReplyTo, Phases
<1>7. ASSUME NEW h \in Handlers, SendSettles(h) PROVE TypeOK'
  BY <1>7 DEF SendSettles, Phases
<1>8. ASSUME NEW h \in Handlers, Finally(h) PROVE TypeOK'
  BY <1>8, HandlerPairs DEF Finally, Key, Phases
<1>9. CASE CloseEnds
  BY <1>9 DEF CloseEnds, AbortRest
<1>10. CASE UNCHANGED vars
  BY <1>10 DEF vars
<1> QED
  BY <1>1, <1>2, <1>3, <1>4, <1>5, <1>6, <1>7, <1>8, <1>9, <1>10 DEF Next

\* The variables of Protocol keep their types, and a controller is filed under
\* the id its request carries, whatever is connected, read or closed when.
THEOREM TypeCorrect == Spec => []TypeOK
<1>1. Init => TypeOK
  BY DEF Init, TypeOK, Phases
<1> QED BY <1>1, TypeStep, PTL DEF Spec

-----------------------------------------------------------------------------
(***************************************************************************)
(* One transport at a time.  While connect() is only called when nothing   *)
(* is attached, the transport that is attached is the one that is open.    *)
(***************************************************************************)
OneTransport ==
  /\ open = IF transport = NoTransport THEN {} ELSE {transport}
  /\ open \subseteq used
  /\ \A h \in Handlers : phase[h] # "unsent" => h[1] \in used

\* Every registered controller belongs to a handler at work for a peer that is
\* connected: _onclose detaches them all before the next connection.
ControllersOfTheOpen ==
  \A i \in RequestIds :
    controllers[i] # NoHandler => Working(controllers[i]) /\ controllers[i][1] \in open

\* What has been aborted, or is about to be, was requested.
AbortedWereSent ==
  /\ \A h \in aborted : phase[h] # "unsent"
  /\ \A h \in closing : phase[h] # "unsent" /\ h[1] \notin open
  /\ ~inOnclose => closing = {}

\* A cancellation that is still queued was read on a transport of whose peer -
\* and no other - there are controllers now: the microtask runs before anything
\* else is read.
QueuedCancels ==
  /\ cancelDue \subseteq cancelled
  /\ \A h \in cancelled : phase[h] # "unsent"
  /\ \A h \in cancelDue, i \in RequestIds :
       controllers[i] # NoHandler => controllers[i][1] = h[1]

\* A handler that has not come back has sent nothing, and if its cancellation
\* has been handled its signal is aborted.
SilentWhileRunning ==
  \A h \in Handlers :
    /\ phase[h] \in {"unsent", "running"} => sentTo[h] = NoTransport
    /\ h \in cancelled \ cancelDue /\ phase[h] = "running" => h \in aborted

SignalsInv ==
  /\ OneTransport
  /\ ControllersOfTheOpen
  /\ AbortedWereSent
  /\ QueuedCancels
  /\ SilentWhileRunning
  /\ StaysCancellable
  /\ AbortedForCause

LEMMA SignalsInit == Init => SignalsInv
BY DEF Init, SignalsInv, OneTransport, ControllersOfTheOpen, AbortedWereSent, QueuedCancels,
       SilentWhileRunning, StaysCancellable, AbortedForCause, Working

\* connect() finds nothing attached and nothing open, and a peer that has sent
\* nothing yet: no handler is at work for it and no signal of its own aborted.
LEMMA ConnectKeepsSignals ==
  ASSUME ~Overlap, TypeOK, SignalsInv, NEW t \in Transports, Connect(t)
  PROVE  SignalsInv'
<1> USE DEF SignalsInv, Connect, conn, work, wire, tear, Working
<1>1. OneTransport'
  BY HandlersAssumption DEF OneTransport
<1>2. ControllersOfTheOpen' /\ QueuedCancels' /\ SilentWhileRunning'
  BY DEF ControllersOfTheOpen, QueuedCancels, SilentWhileRunning
<1>3. AbortedWereSent' /\ StaysCancellable' /\ AbortedForCause'
  BY DEF AbortedWereSent, StaysCancellable, AbortedForCause, OneTransport, TypeOK
<1> QED BY <1>1, <1>2, <1>3

\* _onclose takes every controller with it, those of all handlers at work for
\* the transport among them, and there is no other transport.
LEMMA CloseBeginsKeepsSignals ==
  ASSUME TypeOK, SignalsInv, NEW t \in Transports, CloseBegins(t)
  PROVE  SignalsInv'
<1> USE DEF SignalsInv, CloseBegins, conn, work, wire, tear, Working
<1>1. open = {t} /\ open' = {}
  BY DEF OneTransport
<1>2. \A h \in Registered : Working(h) /\ h[1] = t /\ h \in Handlers
  BY <1>1 DEF Registered, ControllersOfTheOpen, TypeOK
<1>3. OneTransport' /\ ControllersOfTheOpen' /\ StaysCancellable'
  BY <1>1 DEF OneTransport, ControllersOfTheOpen, StaysCancellable
<1>4. AbortedWereSent'
  BY <1>1, <1>2 DEF AbortedWereSent
<1>5. QueuedCancels' /\ SilentWhileRunning'
  BY DEF QueuedCancels, SilentWhileRunning
<1>6. AbortedForCause'
  <2>1. ASSUME NEW h \in Handlers, phase[h] = "running", h[1] = t PROVE h \in Registered
    <3>1. controllers[h[2]] = h
      BY <2>1, <1>1 DEF StaysCancellable
    <3> QED BY <3>1, HandlerPairs, HandlersAssumption DEF Registered
  <2>2. closing = {}
    BY DEF AbortedWereSent
  <2> QED BY <1>1, <2>1, <2>2 DEF AbortedForCause
<1> QED BY <1>3, <1>4, <1>5, <1>6

\* A request that is served takes the entry of its id, which no handler at work
\* for the same peer holds; one that is not leaves the map alone.
LEMMA OnRequestKeepsSignals ==
  ASSUME TypeOK, SignalsInv, NEW h \in Handlers, OnRequest(h)
  PROVE  SignalsInv'
<1> USE DEF SignalsInv, OnRequest, MayRead, conn, work, wire, tear, Working
<1>1. open = {h[1]} /\ transport = h[1] /\ h \notin cancelled /\ h \notin aborted
  BY DEF OneTransport, QueuedCancels, AbortedWereSent
<1>2. \A g \in Handlers \ {h} : phase'[g] = phase[g] /\ sentTo'[g] = sentTo[g]
  BY DEF Drop, Refuse, Serve, TypeOK
<1>3. phase'[h] # "unsent"
  BY DEF Drop, Refuse, Serve, TypeOK
<1>4. OneTransport' /\ AbortedWereSent'
  BY <1>1, <1>2, <1>3 DEF OneTransport, AbortedWereSent, TypeOK
<1>5. SilentWhileRunning'
  BY <1>1, <1>2 DEF SilentWhileRunning, QueuedCancels, Drop, Refuse, Serve, TypeOK
<1>6. AbortedForCause'
  BY <1>1, <1>2 DEF AbortedForCause
<1>7. CASE Serve(h)
  <2>1. phase'[h] = "running" /\ controllers'[h[2]] = h
    BY <1>7, HandlerPairs DEF Serve, Key, TypeOK
  <2>2. \A i \in RequestIds : i # h[2] => controllers'[i] = controllers[i]
    BY <1>7, HandlerPairs DEF Serve, Key, TypeOK
  <2>3. ControllersOfTheOpen'
    BY <1>1, <1>2, <2>1, <2>2 DEF ControllersOfTheOpen, TypeOK
  <2>4. QueuedCancels'
    BY <1>1, <1>2, <1>3, <2>1, <2>2 DEF QueuedCancels, TypeOK
  <2>5. StaysCancellable'
    <3> SUFFICES ASSUME NEW g \in Handlers, Working(g)', g[1] \in open', g # h
                 PROVE  controllers'[g[2]] = g
      BY <2>1 DEF StaysCancellable
    <3>1. g[2] # h[2]
      BY <1>1, HandlerPairs
    <3> QED BY <1>2, <2>2, <3>1, HandlerPairs DEF StaysCancellable
  <2> QED BY <1>4, <1>5, <1>6, <2>3, <2>4, <2>5
<1>8. CASE Drop(h) \/ Refuse(h)
  <2>1. controllers' = controllers /\ phase'[h] \in {"dropped", "refused"}
    BY <1>8 DEF Drop, Refuse, TypeOK
  <2>2. ControllersOfTheOpen' /\ QueuedCancels'
    BY <1>2, <1>3, <2>1 DEF ControllersOfTheOpen, QueuedCancels, TypeOK
  <2>3. StaysCancellable'
    BY <1>2, <2>1 DEF StaysCancellable
  <2> QED BY <1>4, <1>5, <1>6, <2>2, <2>3
<1> QED BY <1>7, <1>8

\* A cancellation is read on the transport that is open, of whose peer all
\* controllers are.
LEMMA ReadCancelKeepsSignals ==
  ASSUME TypeOK, SignalsInv, NEW h \in Handlers, ReadCancel(h)
  PROVE  SignalsInv'
<1> USE DEF SignalsInv, ReadCancel, MayRead, conn, work, tear, Working
<1>1. QueuedCancels'
  BY DEF QueuedCancels, OneTransport, ControllersOfTheOpen
<1>2. OneTransport' /\ ControllersOfTheOpen' /\ AbortedWereSent' /\ StaysCancellable'
  BY DEF OneTransport, ControllersOfTheOpen, AbortedWereSent, StaysCancellable
<1>3. SilentWhileRunning' /\ AbortedForCause'
  BY DEF SilentWhileRunning, AbortedForCause
<1> QED BY <1>1, <1>2, <1>3

\* _oncancel reaches the handler it is meant for, or none.
LEMMA ReachesOnlyItsOwn ==
  ASSUME TypeOK, SignalsInv, NEW h \in Handlers, OnCancel(h)
  PROVE  /\ Reached(Key(h)) \subseteq {h}
         /\ Working(h) /\ h[1] \in open => Reached(Key(h)) = {h}
<1> DEFINE g == controllers[h[2]]
<1>1. ASSUME g # NoHandler PROVE g = h
  <2>1. g \in Handlers /\ g[2] = h[2]
    BY <1>1, HandlerPairs DEF TypeOK
  <2>2. g[1] = h[1]
    BY <1>1, HandlerPairs DEF OnCancel, SignalsInv, QueuedCancels
  <2> QED BY <2>1, <2>2, HandlerPairs
<1>2. Working(h) /\ h[1] \in open => g = h
  BY DEF SignalsInv, StaysCancellable
<1> QED BY <1>1, <1>2, HandlersAssumption DEF Reached, Key

LEMMA OnCancelKeepsSignals ==
  ASSUME TypeOK, SignalsInv, NEW h \in Handlers, OnCancel(h)
  PROVE  SignalsInv'
<1> USE DEF SignalsInv, OnCancel, conn, work, tear
<1>1. aborted' \subseteq aborted \cup {h} /\ h \in cancelled /\ aborted \subseteq aborted'
  BY ReachesOnlyItsOwn DEF QueuedCancels
<1>2. OneTransport' /\ ControllersOfTheOpen' /\ StaysCancellable' /\ QueuedCancels'
  BY DEF OneTransport, ControllersOfTheOpen, StaysCancellable, QueuedCancels, Working
<1>3. AbortedWereSent' /\ AbortedForCause'
  BY <1>1 DEF AbortedWereSent, AbortedForCause, QueuedCancels
<1>4. SilentWhileRunning'
  <2>1. phase[h] = "running" => h \in aborted'
    <3>1. CASE h[1] \in open
      BY <3>1, ReachesOnlyItsOwn DEF Working
    <3>2. CASE h[1] \notin open
      BY <3>2, <1>1 DEF AbortedForCause, AbortedWereSent
    <3> QED BY <3>1, <3>2
  <2> QED BY <1>1, <2>1 DEF SilentWhileRunning
<1> QED BY <1>2, <1>3, <1>4

\* A handler comes back, or its send settles: it is still at work.
LEMMA SettlesKeepsSignals ==
  ASSUME TypeOK, SignalsInv, NEW h \in Handlers, HandlerSettles(h) \/ SendSettles(h)
  PROVE  SignalsInv'
<1> USE DEF SignalsInv, conn, wire, tear
<1>1. /\ phase[h] \in {"running", "sending"} /\ phase'[h] \in {"sending", "settled"}
      /\ \A g \in Handlers \ {h} : phase'[g] = phase[g] /\ sentTo'[g] = sentTo[g]
      /\ UNCHANGED <<transport, open, used, controllers, aborted, cancelDue, cancelled,
                     inOnclose, closing>>
  BY DEF HandlerSettles, SendSettles, EncodeFails, Respond, TypeOK
<1>2. \A g \in Handlers : Working(g)' = Working(g)
  BY <1>1 DEF Working
<1>3. OneTransport' /\ AbortedWereSent' /\ QueuedCancels'
  BY <1>1 DEF OneTransport, AbortedWereSent, QueuedCancels, TypeOK
<1>4. ControllersOfTheOpen' /\ StaysCancellable'
  BY <1>1, <1>2 DEF ControllersOfTheOpen, StaysCancellable, TypeOK
<1>5. SilentWhileRunning' /\ AbortedForCause'
  BY <1>1 DEF SilentWhileRunning, AbortedForCause
<1> QED BY <1>3, <1>4, <1>5

\* .finally() removes the controller of the handler that is over and no other.
LEMMA FinallyKeepsSignals ==
  ASSUME TypeOK, SignalsInv, NEW h \in Handlers, Finally(h)
  PROVE  SignalsInv'
<1> USE DEF SignalsInv, Finally, Key, Owns, conn, wire, tear
<1>1. phase[h] = "settled" /\ phase'[h] = "done"
      /\ \A g \in Handlers \ {h} : phase'[g] = phase[g]
  BY DEF TypeOK
<1>2. \A i \in RequestIds :
        controllers'[i] = IF controllers[i] = h THEN NoHandler ELSE controllers[i]
  BY HandlersAssumption, HandlerPairs DEF TypeOK
<1>3. OneTransport' /\ AbortedWereSent' /\ SilentWhileRunning' /\ AbortedForCause'
  BY <1>1 DEF OneTransport, AbortedWereSent, SilentWhileRunning, AbortedForCause, TypeOK
<1>4. ControllersOfTheOpen' /\ QueuedCancels'
  BY <1>1, <1>2 DEF ControllersOfTheOpen, QueuedCancels, Working, TypeOK
<1>5. StaysCancellable'
  BY <1>1, <1>2, HandlerPairs DEF StaysCancellable, Working
<1> QED BY <1>3, <1>4, <1>5

LEMMA CloseEndsKeepsSignals ==
  ASSUME TypeOK, SignalsInv, CloseEnds
  PROVE  SignalsInv'
<1> USE DEF SignalsInv, CloseEnds, AbortRest, conn, wire, Working
<1>1. OneTransport' /\ ControllersOfTheOpen' /\ StaysCancellable' /\ QueuedCancels'
  BY DEF OneTransport, ControllersOfTheOpen, StaysCancellable, QueuedCancels
<1>2. AbortedWereSent' /\ SilentWhileRunning' /\ AbortedForCause'
  BY DEF AbortedWereSent, SilentWhileRunning, AbortedForCause, TypeOK
<1> QED BY <1>1, <1>2

LEMMA SignalsStep ==
  ASSUME ~Overlap, TypeOK, SignalsInv, [Next]_vars
  PROVE  SignalsInv'
<1>1. CASE UNCHANGED vars
  BY <1>1 DEF vars, conn, work, wire, tear, SignalsInv, OneTransport, ControllersOfTheOpen,
     AbortedWereSent, QueuedCancels, SilentWhileRunning, StaysCancellable, AbortedForCause, Working
<1> QED
  BY <1>1, ConnectKeepsSignals, CloseBeginsKeepsSignals, OnRequestKeepsSignals,
     ReadCancelKeepsSignals, OnCancelKeepsSignals, SettlesKeepsSignals, FinallyKeepsSignals,
     CloseEndsKeepsSignals DEF Next

THEOREM SignalsInvariant ==
  ASSUME ~Overlap PROVE Spec => []SignalsInv
<1>1. TypeOK /\ SignalsInv /\ [Next]_vars => SignalsInv'
  BY SignalsStep
<1> QED BY <1>1, SignalsInit, TypeCorrect, PTL DEF Spec

\* When transports are connected one at a time - from the user's onclose
\* callback or not -, a handler whose peer is connected can be cancelled until
\* it is over, only a cancellation of its own or the end of its connection
\* aborts its signal, and the end of the connection reaches every handler
\* still running for it.
THEOREM SignalsFind ==
  ASSUME ~Overlap PROVE Spec => []SignalsFindTheirHandler
<1>1. SignalsInv => SignalsFindTheirHandler
  BY DEF SignalsInv, SignalsFindTheirHandler
<1> QED BY <1>1, SignalsInvariant, PTL

\* Nor does a handler whose cancellation was handled while it ran send a
\* response, although its id may have been taken by a request of the next
\* connection before the cancellation was looked up.
THEOREM CancelledStaysSilent ==
  ASSUME ~Overlap PROVE Spec => CancelledIsSilent
<1> DEFINE Silent == \A h \in Handlers : h \in cancelled \ cancelDue /\ phase[h] = "running"
                                           => sentTo'[h] = NoTransport
<1>1. ASSUME TypeOK, SignalsInv, Next PROVE Silent
  <2> SUFFICES ASSUME NEW h \in Handlers, h \in cancelled \ cancelDue, phase[h] = "running"
               PROVE  sentTo'[h] = NoTransport
    OBVIOUS
  <2>1. sentTo[h] = NoTransport /\ h \in aborted
    BY <1>1 DEF SignalsInv, SilentWhileRunning
  <2>2. ASSUME NEW g \in Handlers, OnRequest(g) PROVE sentTo'[h] = sentTo[h]
    BY <2>2, <1>1 DEF OnRequest, Drop, Refuse, Serve, TypeOK
  <2>3. ASSUME NEW g \in Handlers, HandlerSettles(g) PROVE sentTo'[h] = sentTo[h]
    BY <2>1, <2>3, <1>1 DEF HandlerSettles, Suppressed, EncodeFails, Respond, TypeOK
  <2>4. CASE UNCHANGED sentTo
    BY <2>1, <2>4
  <2>5. (\E g \in Handlers : OnRequest(g) \/ HandlerSettles(g)) \/ UNCHANGED sentTo
    BY <1>1 DEF Next, Connect, CloseBegins, ReadCancel, OnCancel, SendSettles, Finally, CloseEnds,
                work
  <2> QED BY <2>1, <2>2, <2>3, <2>4, <2>5
<1>2. TypeOK /\ SignalsInv /\ [Next]_vars => [Silent]_vars
  BY <1>1
<1> QED BY <1>2, TypeCorrect, SignalsInvariant, PTL DEF Spec, CancelledIsSilent

=============================================================================
