----------------------------- MODULE ServeStdio -----------------------------
(***************************************************************************)
(* serveStdio (packages/server/src/server/serveStdio.ts): the stdio entry  *)
(* that owns one wire, decides the protocol era of the connection from its *)
(* opening messages, and stands between the wire and the server instances  *)
(* the factory builds - with the StdioConnectionChannel each instance is   *)
(* connected to, and the StdioListenRouter of listenRouter.ts that keeps   *)
(* the subscriptions/listen of a modern connection.                        *)
(*                                                                         *)
(* Messages are numbered in the order the client sends them; a message's   *)
(* number is also its JSON-RPC id, and names the instance that was built   *)
(* for it.  `at' is where processMessage stands with a message: each value *)
(* is one of its awaits, so every step below is one synchronous stretch.   *)
(***************************************************************************)
EXTENDS Naturals, Sequences, FiniteSets

CONSTANTS
  MaxMessages,       \* bound: messages the client sends
  Vocabulary,        \* bound: the kinds of message it sends
  MaxSubscriptions,  \* ServeStdioOptions.maxSubscriptions
  MaxPublished       \* bound: change notifications the instances publish

Msgs == 1 .. MaxMessages

None == 0  \* no message, no instance

\* What a client may write: claim-less messages, messages that carry a valid
\* envelope, and requests whose envelope is malformed or names a revision the
\* entry does not serve.
LegacyKinds   == {"initialize", "legacyRequest", "legacyNote"}
ModernKinds   == {"discover", "modernRequest", "listen", "cancel"}
RequestKinds  == {"initialize", "legacyRequest", "discover", "modernRequest", "listen", "refused"}
Kinds         == LegacyKinds \cup ModernKinds \cup {"refused", "response"}

ASSUME ServeStdioAssumption ==
  /\ MaxMessages \in Nat /\ MaxSubscriptions \in Nat /\ MaxPublished \in Nat
  /\ Vocabulary \subseteq Kinds

VARIABLES
  rejectLegacy,  \* options.legacy = 'reject'
  kind,          \* what each message is, "unsent" before it arrives
  target,        \* the earlier request a notifications/cancelled names
  at,            \* where processMessage stands with each message
  phase,         \* EntryState.phase
  era,           \* EntryState.era of a pinned connection
  instance,      \* EntryState.instance
  closing,       \* `closing'
  discarding,    \* `discarding': the instance whose channel is being discarded
  built,         \* instances the factory has produced and connected
  live,          \* instances whose channel is open
  delivered,     \* <<instance, message>> handed to an instance
  pending,       \* <<instance, request>> in _pendingRequests of its channel
  working,       \* <<instance, request>> the instance is working on
  abandoned,     \* requests a discard's wait, or an instance that quit, gave up on
  wireOpen,      \* the wire transport is open
  subs,          \* listenRouter._subs
  answers,       \* responses written for each request
  frames,        \* what was written for each listen request, in order
  published,     \* change notifications published so far
  closer,        \* where closeAll stands
  farewell       \* subscriptions closeAll has still to write a result for

input == <<rejectLegacy, kind, target>>
entry == <<phase, era, instance>>
close == <<closing, closer, farewell>>
work  == <<built, live, delivered, pending, working>>
out   == <<answers, frames>>
vars  == <<input, at, entry, close, discarding, work, abandoned, wireOpen, subs, out, published>>

Init ==
  /\ rejectLegacy \in BOOLEAN
  /\ kind = [m \in Msgs |-> "unsent"] /\ target = [m \in Msgs |-> None]
  /\ at = [m \in Msgs |-> "unsent"]
  /\ phase = "opening" /\ era = "none" /\ instance = None
  /\ closing = FALSE /\ closer = "none" /\ farewell = {}
  /\ discarding = None
  /\ built = {} /\ live = {} /\ delivered = {} /\ pending = {} /\ working = {}
  /\ abandoned = {}
  /\ wireOpen = TRUE
  /\ subs = {}
  /\ answers = [m \in Msgs |-> 0] /\ frames = [m \in Msgs |-> <<>>]
  /\ published = 0

(***************************************************************************)
(* The wire.  onmessage only appends to the queue; pump takes the messages *)
(* out of it one at a time.                                                *)
(***************************************************************************)
Arrive(m, k, t) ==
  /\ wireOpen
  /\ kind[m] = "unsent" /\ \A n \in 1 .. m - 1 : kind[n] # "unsent"
  /\ IF k = "cancel" THEN t \in 1 .. m - 1 /\ kind[t] \in RequestKinds ELSE t = None
  /\ kind' = [kind EXCEPT ![m] = k]
  /\ target' = [target EXCEPT ![m] = t]
  /\ at' = [at EXCEPT ![m] = "queued"]
  /\ UNCHANGED <<rejectLegacy, entry, close, discarding, work, abandoned, wireOpen, subs, out,
                 published>>

Stages == {"unsent", "queued", "building", "connected", "draining", "discarded", "routing",
           "writing", "done"}

PumpIdle == \A m \in Msgs : at[m] \in {"unsent", "queued", "done"}

\* pump takes the message at the head of the queue.
AtHead(m) == at[m] = "queued" /\ PumpIdle /\ \A n \in 1 .. m - 1 : at[n] # "queued"

MutTornDown == FALSE  \* mutant: the continuations do not look again

TornDown == closing \/ phase = "closed"

Goto(m, stage) == at' = [at EXCEPT ![m] = stage]

\* wire.send: nothing is written once the wire is closed.
Answered(m) == answers' = IF wireOpen THEN [answers EXCEPT ![m] = @ + 1] ELSE answers

Framed(m, f) == frames' = IF wireOpen THEN [frames EXCEPT ![m] = Append(@, f)] ELSE frames

(***************************************************************************)
(* StdioConnectionChannel.                                                 *)
(***************************************************************************)
\* The requests a delivered message settles.
SettledBy(m) == IF kind[m] = "cancel" THEN {target[m]} ELSE {}

\* deliver(): the request is pending until it is answered or cancelled, and the
\* instance sets to work on it.
Deliver(i, m) ==
  /\ delivered' = IF i \in live THEN delivered \cup {<<i, m>>} ELSE delivered
  /\ pending' = IF i \notin live THEN pending
                ELSE (pending \cup ({<<i, m>>} \cap ({i} \X {n \in Msgs : kind[n] \in RequestKinds})))
                       \ ({i} \X SettledBy(m))
  /\ working' = IF i \in live /\ kind[m] \in RequestKinds THEN working \cup {<<i, m>>} ELSE working
  /\ UNCHANGED <<built, live>>

\* closeAll, to its first await.  Its second call returns at once.
CloseAll ==
  /\ closing' = TRUE
  /\ phase' = "closed" /\ UNCHANGED <<era, instance>>
  /\ farewell' = subs /\ subs' = {}
  /\ closer' = "sending"

\* onInstanceClosed.
EndsConnection(i) == ~TornDown /\ i # discarding

\* _onInstanceClose, called by the close() of the channel of instance i.
InstanceClosed(i) ==
  IF i \in live /\ EndsConnection(i) THEN CloseAll ELSE UNCHANGED <<close, entry, subs>>

PendingOf(i) == {m \in Msgs : <<i, m>> \in pending}

\* close() of a set of instances: each channel closes, its requests are aborted.
CloseInstances(S) ==
  /\ live' = live \ S
  /\ pending' = {p \in pending : p[1] \notin S}
  /\ working' = {p \in working : p[1] \notin S}
  /\ UNCHANGED <<built, delivered>>

(***************************************************************************)
(* processMessage on a pinned connection.                                  *)
(***************************************************************************)
MutAtCapacity == Cardinality(subs) > MaxSubscriptions  \* mutant: off by one

AtCapacity == Cardinality(subs) >= MaxSubscriptions

\* tryServeListen: the listen is served at the entry ...
ServeListen(m) ==
  IF AtCapacity
  THEN Answered(m) /\ UNCHANGED <<subs, frames>>
  ELSE /\ subs' = subs \cup {m}
       /\ Framed(m, "ack")
       /\ UNCHANGED answers

\* ... and so is the cancellation of one.
CancelsListen(m) == kind[m] = "cancel" /\ target[m] \in subs

AfterListen == "writing"

\* tryServeListen, to its first await.  It returns false for everything else.
TryServeListen(m) ==
  IF kind[m] = "listen"
  THEN ServeListen(m) /\ Goto(m, AfterListen)
  ELSE /\ subs' = IF CancelsListen(m) THEN subs \ {target[m]} ELSE subs
       /\ Goto(m, IF CancelsListen(m) THEN "done" ELSE "routing")
       /\ UNCHANGED out

ProcessPinned(m) ==
  /\ AtHead(m)
  /\ phase = "pinned"
  /\ \/ /\ era = "modern" /\ kind[m] = "initialize"
        /\ Answered(m) /\ Goto(m, "writing")
        /\ UNCHANGED <<work, subs, frames>>
     \/ /\ era = "modern" /\ kind[m] # "initialize"
        /\ TryServeListen(m)
        /\ UNCHANGED work
     \/ /\ era = "legacy"
        /\ Deliver(instance, m) /\ Goto(m, "done")
        /\ UNCHANGED <<subs, out>>
  /\ UNCHANGED <<input, entry, close, discarding, abandoned, wireOpen, published>>

\* The continuation after `await tryServeListen' returned false.
Route(m) ==
  /\ at[m] = "routing"
  /\ Goto(m, "done")
  /\ IF TornDown THEN UNCHANGED work ELSE Deliver(instance, m)
  /\ UNCHANGED <<input, entry, close, discarding, abandoned, wireOpen, subs, out, published>>

\* The awaited wire.send() settles.
Written(m) ==
  /\ at[m] = "writing"
  /\ Goto(m, "done")
  /\ UNCHANGED <<input, entry, close, discarding, work, abandoned, wireOpen, subs, out, published>>

\* A closed connection ignores what is still queued.
ProcessClosed(m) ==
  /\ AtHead(m)
  /\ phase = "closed"
  /\ Goto(m, "done")
  /\ UNCHANGED <<input, entry, close, discarding, work, abandoned, wireOpen, subs, out, published>>

(***************************************************************************)
(* processMessage in the negotiation window.                               *)
(***************************************************************************)
Negotiating == phase \in {"opening", "probe"}

\* What cannot open a connection: responses and claim-less notifications of a
\* modern-only entry are dropped, everything else it refuses is answered.
ProcessRefused(m) ==
  /\ AtHead(m) /\ Negotiating
  /\ \/ kind[m] \in {"refused", "response"}
     \/ kind[m] \in LegacyKinds /\ rejectLegacy
  /\ IF kind[m] \in RequestKinds
     THEN Answered(m) /\ Goto(m, "writing")
     ELSE UNCHANGED answers /\ Goto(m, "done")
  /\ UNCHANGED <<input, entry, close, discarding, work, abandoned, wireOpen, subs, frames, published>>

\* Another probe, or an enveloped notification, while the probe instance waits.
ProcessProbe(m) ==
  /\ AtHead(m) /\ phase = "probe"
  /\ kind[m] \in {"discover", "cancel"}
  /\ Deliver(instance, m) /\ Goto(m, "done")
  /\ UNCHANGED <<input, entry, close, discarding, abandoned, wireOpen, subs, out, published>>

\* An enveloped request after the probe pins the probe instance.
ProcessCommit(m) ==
  /\ AtHead(m) /\ phase = "probe"
  /\ kind[m] \in {"modernRequest", "listen"}
  /\ phase' = "pinned" /\ era' = "modern" /\ UNCHANGED instance
  /\ TryServeListen(m)
  /\ UNCHANGED <<input, close, discarding, work, abandoned, wireOpen, published>>

\* A legacy opening after the probe: the probe instance is to be discarded.
ProcessFallback(m) ==
  /\ AtHead(m) /\ phase = "probe"
  /\ kind[m] \in LegacyKinds /\ ~rejectLegacy
  /\ discarding' = instance
  /\ Goto(m, "draining")
  /\ UNCHANGED <<input, entry, close, work, abandoned, wireOpen, subs, out, published>>

\* connectInstance is called: the factory runs.
ProcessOpening(m) ==
  /\ AtHead(m) /\ phase = "opening"
  /\ kind[m] \in ModernKinds \/ (kind[m] \in LegacyKinds /\ ~rejectLegacy)
  /\ Goto(m, "building")
  /\ UNCHANGED <<input, entry, close, discarding, work, abandoned, wireOpen, subs, out, published>>

(***************************************************************************)
(* connectInstance, and the continuation of each of its callers.           *)
(***************************************************************************)
EraOf(m) == IF kind[m] \in ModernKinds THEN "modern" ELSE "legacy"

\* The factory resolves and product.connect(channel) is through.
FactoryBuilds(m) ==
  /\ at[m] = "building"
  /\ built' = built \cup {m} /\ live' = live \cup {m}
  /\ Goto(m, "connected")
  /\ UNCHANGED <<input, entry, close, discarding, delivered, pending, working, abandoned, wireOpen,
                 subs, out, published>>

\* mutant: the error is reported and the request forgotten
MutFactoryAnswers(m) == UNCHANGED answers

FactoryAnswers(m) ==
  IF kind[m] \in RequestKinds THEN Answered(m) ELSE UNCHANGED answers

\* The factory or the connect rejects: pump's catch answers the request.
FactoryFails(m) ==
  /\ at[m] = "building"
  /\ FactoryAnswers(m)
  /\ Goto(m, IF kind[m] \in RequestKinds THEN "writing" ELSE "done")
  /\ UNCHANGED <<input, entry, close, discarding, work, abandoned, wireOpen, subs, frames, published>>

MutDisposed(m) == UNCHANGED work  \* mutant: the late instance is only forgotten

Disposed(m) == CloseInstances({m})

\* Torn down while the factory was building: the late instance is disposed of.
DisposeLate(m) ==
  /\ at[m] = "connected" /\ TornDown
  /\ Disposed(m)
  /\ Goto(m, "done")
  /\ UNCHANGED <<input, entry, close, discarding, abandoned, wireOpen, subs, out, published>>

\* A probe opens the probe window; anything else pins its instance.
Connected(m) ==
  /\ at[m] = "connected" /\ ~TornDown
  /\ instance' = m
  /\ IF kind[m] = "discover"
     THEN phase' = "probe" /\ UNCHANGED era
     ELSE phase' = "pinned" /\ era' = EraOf(m)
  /\ IF EraOf(m) = "legacy" \/ kind[m] = "discover"
     THEN Deliver(m, m) /\ Goto(m, "done") /\ UNCHANGED <<subs, out>>
     ELSE TryServeListen(m) /\ UNCHANGED work
  /\ UNCHANGED <<input, close, discarding, abandoned, wireOpen, published>>

(***************************************************************************)
(* discardProbeInstance: wait for the answers, for a while, then close.    *)
(***************************************************************************)
\* mutant: the probe instance is closed at once
MutDrained(i) == TRUE

Drained(i) == i \notin live \/ PendingOf(i) = {}

Discarded(i) == CloseInstances({i}) /\ InstanceClosed(i)

DiscardProbe(m) ==
  /\ at[m] = "draining" /\ Drained(instance)
  /\ Discarded(instance)
  /\ Goto(m, "discarded")
  /\ UNCHANGED <<input, discarding, abandoned, wireOpen, out, published>>

\* DISCARD_ANSWER_TIMEOUT_MS has passed.
DrainTimesOut(m) ==
  /\ at[m] = "draining" /\ ~Drained(instance)
  /\ abandoned' = abandoned \cup PendingOf(instance)
  /\ Discarded(instance)
  /\ Goto(m, "discarded")
  /\ UNCHANGED <<input, discarding, wireOpen, out, published>>

\* The finally of the discard, and the fallback that goes on from there.
AfterDiscard(m) ==
  /\ at[m] = "discarded"
  /\ discarding' = None
  /\ IF TornDown
     THEN Goto(m, "done") /\ UNCHANGED entry
     ELSE Goto(m, "building") /\ phase' = "opening" /\ instance' = None /\ UNCHANGED era
  /\ UNCHANGED <<input, close, work, abandoned, wireOpen, subs, out, published>>

(***************************************************************************)
(* Teardown: by the handle, by the instance, by the wire.                  *)
(***************************************************************************)
HandleClose ==
  /\ ~TornDown
  /\ CloseAll
  /\ UNCHANGED <<input, at, discarding, work, abandoned, wireOpen, out, published>>

\* A server closes itself.
InstanceCloses(i) ==
  /\ i \in live
  /\ abandoned' = abandoned \cup PendingOf(i)
  /\ CloseInstances({i}) /\ InstanceClosed(i)
  /\ UNCHANGED <<input, at, discarding, wireOpen, out, published>>

\* `current' of closeAll: the instance of the state it replaced.
Current == {instance} \ {None}

\* The results for the parked subscriptions, in order, each awaited ...
Farewell(m) ==
  /\ closer = "sending"
  /\ m \in farewell /\ \A n \in farewell : m <= n
  /\ farewell' = farewell \ {m}
  /\ Framed(m, "result") /\ Answered(m)
  /\ UNCHANGED <<input, at, entry, closing, closer, discarding, work, abandoned, wireOpen, subs,
                 published>>

\* mutant: the wire is closed before the farewells are written
MutFarewellsSent == TRUE

FarewellsSent == farewell = {}

\* ... then the instance, then the wire.
CloserGoesOn ==
  \/ /\ closer = "sending" /\ FarewellsSent
     /\ closer' = "instance"
     /\ CloseInstances(Current)
     /\ UNCHANGED wireOpen
  \/ /\ closer = "instance"
     /\ closer' = "closed"
     /\ wireOpen' = FALSE
     /\ UNCHANGED work

CloseAllContinues ==
  /\ CloserGoesOn
  /\ UNCHANGED <<input, at, entry, closing, farewell, discarding, abandoned, subs, out, published>>

\* The peer closes its end, or the wire fails: wire.onclose.
WireCloses ==
  /\ wireOpen
  /\ wireOpen' = FALSE
  /\ IF TornDown
     THEN UNCHANGED <<work, close, entry>>
     ELSE /\ closing' = TRUE /\ UNCHANGED <<closer, farewell>>
          /\ phase' = "closed" /\ UNCHANGED <<era, instance>>
          /\ CloseInstances(Current)
  /\ UNCHANGED <<input, at, discarding, abandoned, subs, out, published>>

(***************************************************************************)
(* The instances.  Each answers what it works on, once, unless it was      *)
(* cancelled or closed (ProtocolHandlers); each may publish changes.       *)
(***************************************************************************)
Cancels(n, m) == kind[n] = "cancel" /\ target[n] = m

CancelledAt(i, m) == \E n \in Msgs : <<i, n>> \in delivered /\ Cancels(n, m)

\* channel.send of a response: settled first, then written.
InstanceAnswers(i, m) ==
  /\ <<i, m>> \in working
  /\ working' = working \ {<<i, m>>}
  /\ pending' = pending \ {<<i, m>>}
  /\ Answered(m)
  /\ UNCHANGED <<input, at, entry, close, discarding, built, live, delivered, abandoned, wireOpen,
                 subs, frames, published>>

\* A handler whose signal is aborted settles without an answer.
InstanceDrops(i, m) ==
  /\ <<i, m>> \in working /\ CancelledAt(i, m)
  /\ working' = working \ {<<i, m>>}
  /\ UNCHANGED <<input, at, entry, close, discarding, built, live, delivered, pending, abandoned,
                 wireOpen, subs, out, published>>

\* A change notification of a modern instance becomes one copy per subscription.
Publish(i) ==
  /\ i \in live /\ EraOf(i) = "modern"
  /\ published < MaxPublished
  /\ published' = published + 1
  /\ frames' = [m \in Msgs |-> IF m \in subs /\ wireOpen THEN Append(frames[m], "note")
                                                         ELSE frames[m]]
  /\ UNCHANGED <<input, at, entry, close, discarding, work, abandoned, wireOpen, subs, answers>>

Process(m) ==
  \/ ProcessPinned(m) \/ ProcessClosed(m) \/ ProcessRefused(m) \/ ProcessProbe(m)
  \/ ProcessCommit(m) \/ ProcessFallback(m) \/ ProcessOpening(m)

Continue(m) ==
  \/ Route(m) \/ Written(m) \/ DisposeLate(m) \/ Connected(m) \/ DiscardProbe(m)
  \/ AfterDiscard(m)

Next ==
  \/ \E m \in Msgs : \/ \E k \in Vocabulary, t \in Msgs \cup {None} : Arrive(m, k, t)
                     \/ Process(m) \/ Continue(m)
                     \/ FactoryBuilds(m) \/ FactoryFails(m) \/ DrainTimesOut(m) \/ Farewell(m)
  \/ HandleClose \/ WireCloses \/ CloseAllContinues
  \/ \E i \in Msgs : InstanceCloses(i) \/ Publish(i)
  \/ \E i, m \in Msgs : InstanceAnswers(i, m) \/ InstanceDrops(i, m)

Spec == Init /\ [][Next]_vars

(***************************************************************************)
(* The event loop runs continuations and timers; the factory settles;      *)
(* handlers return; an awaited write settles.                              *)
(***************************************************************************)
Fairness ==
  /\ WF_vars(CloseAllContinues)
  /\ \A m \in Msgs : /\ WF_vars(Process(m)) /\ WF_vars(Continue(m))
                     /\ WF_vars(FactoryBuilds(m) \/ FactoryFails(m))
                     /\ WF_vars(DrainTimesOut(m)) /\ WF_vars(Farewell(m))
                     /\ \A i \in Msgs : WF_vars(InstanceAnswers(i, m) \/ InstanceDrops(i, m))

FairSpec == Spec /\ Fairness

-----------------------------------------------------------------------------
\* Every variable stays in its type; the connection has an instance exactly
\* while it is probing or pinned, and an era exactly from the pin on.
TypeOK ==
  /\ rejectLegacy \in BOOLEAN
  /\ kind \in [Msgs -> Kinds \cup {"unsent"}] /\ target \in [Msgs -> Msgs \cup {None}]
  /\ at \in [Msgs -> Stages]
  /\ phase \in {"opening", "probe", "pinned", "closed"}
  /\ era \in {"none", "modern", "legacy"} /\ instance \in Msgs \cup {None}
  /\ phase \in {"probe", "pinned"} => instance # None
  /\ phase = "opening" => instance = None
  /\ Negotiating => era = "none"
  /\ phase = "pinned" => era # "none"
  /\ closing \in BOOLEAN /\ closer \in {"none", "sending", "instance", "closed"}
  /\ farewell \subseteq Msgs
  /\ discarding \in Msgs \cup {None}
  /\ built \subseteq Msgs /\ live \subseteq built
  /\ delivered \subseteq built \X Msgs
  /\ pending \subseteq delivered /\ working \subseteq delivered
  /\ abandoned \subseteq Msgs /\ wireOpen \in BOOLEAN
  /\ subs \subseteq Msgs /\ Cardinality(subs) <= MaxSubscriptions
  /\ answers \in [Msgs -> Nat] /\ published \in 0 .. MaxPublished

\* "A probe request the entry accepted must never go silently unanswered": while
\* the connection goes on, only a cancellation or the backstop of the wait lets
\* an instance be discarded with a request of its own unanswered - and a request
\* that was cancelled is never what the backstop waits for.
DiscardAnswers ==
  /\ \A i \in built, m \in abandoned : <<i, m>> \in delivered => ~CancelledAt(i, m)
  /\ \A i \in built \ live, m \in Msgs :
       ~TornDown /\ <<i, m>> \in delivered /\ kind[m] \in RequestKinds
         => answers[m] = 1 \/ CancelledAt(i, m) \/ m \in abandoned

\* What a listen request gets is its acknowledgement first, then changes, then
\* at most one closing result; closeAll has written that result for every
\* subscription it found before it goes on to close the wire; and nothing is
\* delivered any more once the cancellation was dealt with on a live connection
\* ("post-cancel hardening").
ListenFrames ==
  /\ [](\A m \in Msgs :
          /\ \A j \in DOMAIN frames[m] : /\ frames[m][j] = "ack" <=> j = 1
                                         /\ frames[m][j] = "result" => j = Len(frames[m])
          /\ closer = "instance" /\ wireOpen /\ frames[m] # <<>>
               => frames[m][Len(frames[m])] = "result" \/ \E n \in Msgs : Cancels(n, m))
  /\ [][\A m, n \in Msgs : ~TornDown /\ Cancels(n, m) /\ at[n] \in {"routing", "done"}
          => frames'[m] = frames[m]]_vars

\* A connection that is over stays over, and a pinned era stays pinned: no
\* continuation of an await "resurrects" what was torn down meanwhile, or leaves an
\* instance alive beside the one the entry serves with.  Nor does a step of the
\* pump end the connection: the entry closes a probe instance it discards, and
\* "its close must not tear the connection down".
NoResurrection ==
  [][/\ phase = "closed" => phase' = "closed"
     /\ phase = "pinned" => phase' \in {"pinned", "closed"} /\ instance' = instance /\ era' = era
     /\ closing => delivered' = delivered
     /\ \A i \in live' : i = instance' \/ at'[i] = "connected"
     /\ at' # at => closing' = closing]_vars

\* Every request the entry took in is answered, unless it is cancelled, the
\* discard gave up on it, or the connection ends.
EveryRequestAnswered ==
  \A m \in Msgs :
    at[m] = "queued" /\ kind[m] \in RequestKinds
      ~> \/ answers[m] = 1 \/ frames[m] # <<>> \/ TornDown \/ m \in abandoned
         \/ \E n \in Msgs : Cancels(n, m)

\* Whoever ends the connection, no instance survives it - not one the factory
\* was still building either - and the wire is closed.
TeardownCompletes == <>TornDown => <>[](live = {} /\ ~wireOpen)
=============================================================================
