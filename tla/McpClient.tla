------------------------------- MODULE McpClient -------------------------------
(***************************************************************************)
(* Client (packages/client/src/client/client.ts): connect() in its four    *)
(* forms, versionNegotiation.ts with its probe in place or on a sibling    *)
(* process, close(), listen(), the debounced refresh of a list that        *)
(* changed, and the response cache, over one transport after another.      *)
(*                                                                         *)
(* A transport is connected once.  `conn' is where connect() stands with   *)
(* it, each value an await; `link' is the transport itself.  Session       *)
(* resumption is left out, and so is the abort of a connect(); the listen  *)
(* stream that connect() opens itself is one that the application opens.   *)
(***************************************************************************)
EXTENDS ClientResponseCache

CONSTANTS
  Transports,  \* bound: transports, numbered from 1
  Listens      \* bound: subscriptions at a time

ASSUME McpClientAssumption == Transports \subseteq Nat \ {0}

VARIABLES
  home,       \* the server behind each transport
  link,       \* the transport: down, up, failed, closing, gone
  conn,       \* where connect() stands with it
  how,        \* the form of that connect(): legacy, prior, inplace, sibling, probed
  attached,   \* Protocol._transport
  negotiated, \* the connection whose version, capabilities and era the client has
  modern,     \* and that era
  closers,    \* the transports that a close() in progress awaits
  left,       \* connections the application closed, or began to replace
  overlap,    \* whether the last connect() began before an earlier transport had closed
  sub,        \* _listenState: where each listen() stands, and its connection
  notes,      \* list_changed notifications on their way, by the version they announce
  told,       \* the newest version announced, of each server
  timer       \* the connection the debounced refresh was armed on

clientVars == <<home, link, conn, how, attached, negotiated, modern, closers, left, overlap, sub, notes, told, timer>>
vars == <<cacheVars, clientVars>>

\* Transports start and close at once, as over HTTP: neither the application nor
\* a timer runs in between; and the store has answered by the time the
\* application connects again.  Otherwise they take their time, as processes do.
Prompt == setting.prompt

Forms == {"legacy", "prior", "inplace", "sibling"}

Unlistened == [at |-> "none", on |-> None]

Init ==
  /\ CacheInit
  /\ home \in [Transports -> Servers]
  /\ link = [t \in Transports |-> "down"]
  /\ conn = [t \in Transports |-> "new"]
  /\ how = [t \in Transports |-> "legacy"]
  /\ attached = None /\ negotiated = None /\ modern = FALSE
  /\ closers = {} /\ left = {} /\ overlap = FALSE
  /\ sub = [l \in Listens |-> Unlistened]
  /\ notes = {}
  /\ told = [s \in Servers |-> 0]
  /\ timer = None

Live(l) == sub[l].at \in {"opening", "open"}

\* The connection a request goes out on.
Wire == IF attached # None /\ link[attached] = "up" THEN attached ELSE None

\* No microtask of a call is due.
Quiet == \A w \in Calls : call[w].at # "replied"

At(t, stage) == conn' = [conn EXCEPT ![t] = stage]

Linked(t, state) == link' = [link EXCEPT ![t] = state]

(***************************************************************************)
(* What a connection leaves behind.                                        *)
(***************************************************************************)
\* settle(): the subscriptions that live are closed.
Settled == [l \in Listens |-> IF Live(l) THEN [sub[l] EXCEPT !.at = "closed"] ELSE sub[l]]

\* _resetConnectionState.
Reset ==
  /\ negotiated' = None /\ modern' = FALSE
  /\ sub' = Settled
  /\ timer' = None
  /\ ResetForReconnect

\* What Reset leaves alone, when it does not run.
NoReset == UNCHANGED <<negotiated, modern, sub, timer, entries, generation, identity>>

\* The version and the server's identity are known.
Establish(t, era) ==
  /\ negotiated' = t /\ modern' = (era = "modern")
  /\ identity' = home[t]
  /\ UNCHANGED <<sub, timer, entries, generation>>

(***************************************************************************)
(* connect().                                                              *)
(***************************************************************************)
InProgress == \E t \in Transports : conn[t] \notin {"new", "ready", "rejected"}

\* Nothing of an earlier connection closes still.
AllClosed == closers = {} /\ \A t \in Transports : link[t] \in {"down", "gone"}

\* The application connects when nothing is connected: the last connect()
\* failed, the connection was lost or close() was called.
MayConnect ==
  /\ ~InProgress /\ Quiet
  /\ Wire = None
  /\ \A t \in closers : conn[t] = "rejected"
  /\ Prompt => AllClosed /\ \A w \in Calls : call[w].at # "probing"

\* mutant: a transport that is still attached is kept
MutAttach(t) == attached' = IF attached = None THEN t ELSE attached

\* Protocol.connect: whatever was attached is replaced.
Attach(t) == attached' = t

\* _connectPlainLegacy attaches and starts the transport before the reset; the
\* others reset first, and negotiation keeps the Protocol out of it.
Connect(t) ==
  /\ conn[t] = "new" /\ MayConnect
  /\ \A u \in Transports : u < t => conn[u] # "new"
  /\ \E form \in Forms :
       /\ how' = [how EXCEPT ![t] = form]
       /\ IF form \in {"legacy", "prior"}
          THEN Attach(t) /\ At(t, "starting")
          ELSE At(t, "probing") /\ UNCHANGED attached
       /\ IF form = "sibling" THEN UNCHANGED link ELSE Linked(t, "up")
       /\ IF form = "legacy" THEN NoReset ELSE Reset
  /\ left' = left \cup {u \in Transports : u < t}
  /\ overlap' = ~AllClosed
  /\ UNCHANGED <<setting, version, awaiting, call, home, closers, notes, told>>

\* The verdict of the probe, after the sibling was disposed of.  Protocol is
\* connected; a transport that was probed in place has started.
ProbeSucceeds(t) ==
  /\ conn[t] = "probing" /\ (how[t] = "inplace" => link[t] = "up")
  /\ Attach(t)
  /\ \E era \in {"modern", "legacy"} :
       \/ /\ how[t] = "sibling"
          /\ At(t, "starting") /\ Linked(t, "up")
          /\ how' = [how EXCEPT ![t] = IF era = "modern" THEN "prior" ELSE "probed"]
          /\ NoReset
       \/ /\ how[t] = "inplace" /\ UNCHANGED <<how, link>>
          /\ IF era = "modern" THEN At(t, "ready") /\ Establish(t, era) ELSE At(t, "handshake") /\ NoReset
  /\ UNCHANGED <<setting, version, awaiting, call, home, closers, left, overlap, notes, told>>

\* The probe fails, or the transport is closed under it: connect() awaits the
\* close of the transport and rejects.
ProbeFails(t) ==
  /\ conn[t] = "probing"
  /\ IF link[t] = "up" THEN At(t, "failing") /\ Linked(t, "closing") ELSE At(t, "rejected") /\ UNCHANGED link
  /\ UNCHANGED <<cacheVars, home, how, attached, negotiated, modern, closers, left, overlap, sub, notes, told, timer>>

\* start() is over, whatever has become of the transport.
Started(t) ==
  /\ conn[t] = "starting"
  /\ CASE how[t] = "legacy" -> At(t, "handshake") /\ Reset
       [] how[t] = "probed" -> At(t, "handshake") /\ NoReset
       [] how[t] = "prior"  -> At(t, "ready") /\ Establish(t, "modern")
  /\ UNCHANGED <<setting, version, awaiting, call, home, link, how, attached, closers, left, overlap, notes, told>>

\* start() fails, and connect() with it: Protocol stays attached until onclose.
StartFails(t) ==
  /\ conn[t] = "starting"
  /\ At(t, "rejected")
  /\ left' = left \cup {t}
  /\ IF link[t] = "up" THEN Linked(t, "failed") ELSE UNCHANGED link
  /\ UNCHANGED <<cacheVars, home, how, attached, negotiated, modern, closers, overlap, sub, notes, told, timer>>

\* The answer to initialize: the identity is known, and initialized is sent.
Initialized(t) ==
  /\ conn[t] = "handshake" /\ Wire = t /\ Quiet
  /\ At(t, "initialized")
  /\ identity' = home[t]
  /\ UNCHANGED <<setting, version, entries, generation, awaiting, call, home, link, how, attached, negotiated, modern,
                 closers, left, overlap, sub, notes, told, timer>>

Ready(t) ==
  /\ conn[t] = "initialized" /\ Wire = t
  /\ At(t, "ready") /\ negotiated' = t /\ modern' = FALSE
  /\ UNCHANGED <<cacheVars, home, link, how, attached, closers, left, overlap, sub, notes, told, timer>>

\* Client.close(): the transport attached is closed, and the state reset once
\* that is over.
CloseCall ==
  IF attached # None /\ link[attached] \in {"up", "failed"}
  THEN closers' = closers \cup {attached} /\ Linked(attached, "closing") /\ NoReset
  ELSE Reset /\ UNCHANGED <<closers, link>>

\* An error, a timeout or the end of the connection instead: close() is called
\* without an await, and connect() rejects.
HandshakeFails(t) ==
  /\ conn[t] \in {"handshake", "initialized", "broken"} /\ Quiet
  /\ At(t, "rejected") /\ CloseCall
  /\ left' = left \cup {t}
  /\ UNCHANGED <<setting, version, awaiting, call, home, how, attached, overlap, notes, told>>

(***************************************************************************)
(* The end of a connection.                                                *)
(***************************************************************************)
Close ==
  /\ Quiet
  /\ \E t \in Transports :
       /\ conn[t] \notin {"new", "rejected"} /\ (t \in left => Wire = t)
       /\ left' = left \cup {t}
  /\ CloseCall
  /\ UNCHANGED <<setting, version, awaiting, call, home, conn, how, attached, overlap, notes, told>>

\* mutant: the subscriptions of a lost connection live on
MutLostSubs == sub

LostSubs == Settled

\* _onclose, for the transport it is registered on: it takes down whatever is
\* attached.
OnClose ==
  /\ sub' = LostSubs
  /\ attached' = None
  /\ call' = Rejected
  /\ conn' = [t \in Transports |-> IF conn[t] \in {"handshake", "initialized"} THEN "broken" ELSE conn[t]]

\* The transport closes, asked to or not.  While it is probed, the window
\* takes the call.
Closed(t) ==
  /\ link[t] \in {"up", "failed", "closing"} /\ Quiet
  /\ Linked(t, "gone")
  /\ notes' = {}
  /\ IF conn[t] \in {"probing", "failing"}
     THEN At(t, "rejected") /\ UNCHANGED <<sub, attached, call>>
     ELSE OnClose
  /\ UNCHANGED <<setting, version, identity, entries, generation, awaiting, home, how, negotiated, modern, closers, left, overlap,
                 told, timer>>

\* The promise of the transport's close() settles, and that of Client.close()
\* ends with the reset.  A process that is slow to die calls onclose later.
CloseSettles(t) ==
  /\ t \in closers /\ Quiet
  /\ Prompt => link[t] = "gone"
  /\ closers' = closers \ {t}
  /\ Reset
  /\ UNCHANGED <<setting, version, awaiting, call, home, link, conn, how, attached, left, overlap, notes, told>>

(***************************************************************************)
(* listen().                                                               *)
(***************************************************************************)
Listen(l) ==
  /\ ~Live(l) /\ attached # None /\ negotiated # None /\ modern
  /\ sub' = [sub EXCEPT ![l] = [at |-> IF Wire = None THEN "closed" ELSE "opening", on |-> attached]]
  /\ UNCHANGED <<cacheVars, home, link, conn, how, attached, negotiated, modern, closers, left, overlap, notes, told, timer>>

\* The acknowledgement; or the end, by an answer, a cancellation or the end of
\* the stream; or the end, with a cancellation sent, by the timer or the caller.
Listening(l) ==
  /\ \/ /\ sub[l].at = "opening" /\ Wire = sub[l].on
        /\ sub' = [sub EXCEPT ![l].at = "open"]
     \/ Live(l) /\ sub' = [sub EXCEPT ![l].at = "closed"]
  /\ UNCHANGED <<cacheVars, home, link, conn, how, attached, negotiated, modern, closers, left, overlap, notes, told, timer>>

(***************************************************************************)
(* The lists.                                                              *)
(***************************************************************************)
Hears(t) == Wire = t /\ conn[t] = "ready" /\ (modern => \E l \in Listens : sub[l].at = "open")

\* A list changes at its server, which notifies the client that hears it.
Change(s) ==
  /\ version[s] < MaxVersion
  /\ version' = [version EXCEPT ![s] = @ + 1]
  /\ notes' = IF \E t \in Transports : home[t] = s /\ Hears(t) THEN notes \cup {version[s] + 1} ELSE notes
  /\ UNCHANGED <<setting, identity, entries, generation, awaiting, call, home, link, conn, how, attached, negotiated,
                 modern, closers, left, overlap, sub, told, timer>>

\* _onnotification: the eviction, then the handler, which arms the timer anew.
Notified(n) ==
  /\ n \in notes /\ attached # None /\ link[attached] \in {"up", "closing"}
  /\ notes' = notes \ {n}
  /\ Evict
  /\ told' = [told EXCEPT ![home[attached]] = IF n > @ THEN n ELSE @]
  /\ timer' = attached
  /\ UNCHANGED <<setting, version, identity, call, home, link, conn, how, attached, negotiated, modern, closers, left, overlap, sub>>

Resting(w) == call[w].at \in {"idle", "failed", "done"}

\* listTools() of an application that has awaited connect().
ListCall(w) ==
  /\ Resting(w) /\ ~InProgress /\ negotiated # None
  /\ \E fresh \in BOOLEAN :
       ProbeOwn(w, [Idle EXCEPT !.from = home[negotiated], !.seen = told[home[negotiated]]], Wire, fresh)
  /\ UNCHANGED <<setting, version, identity, entries, generation, clientVars>>

ProbeSharedAt(w) ==
  /\ \E fresh \in BOOLEAN : ProbeShared(w, Wire, fresh)
  /\ UNCHANGED <<setting, version, identity, entries, generation, clientVars>>

\* The debounced refresh, which does not look at the cache.
TimerFires ==
  /\ timer # None /\ timer' = None
  /\ Prompt => \A t \in Transports : conn[t] # "starting"
  /\ \E w \in Calls : Resting(w) /\ call' = [call EXCEPT ![w] = Asking(Idle, Wire)]
  /\ UNCHANGED <<setting, version, identity, entries, generation, awaiting, home, link, conn, how, attached, negotiated,
                 modern, closers, left, overlap, sub, notes, told>>

\* The request is served and answered while its connection lasts.
Exchanged(w) ==
  /\ call[w].on # None /\ link[call[w].on] \in {"up", "closing"}
  /\ Serve(w, home[call[w].on]) \/ Reply(w)
  /\ UNCHANGED <<setting, version, identity, entries, generation, awaiting, clientVars>>

Answered(w) ==
  /\ Write(w) \/ ClearOpposite(w)
  /\ UNCHANGED <<setting, version, identity, generation, clientVars>>

Next ==
  \/ \E t \in Transports :
       \/ Connect(t) \/ ProbeSucceeds(t) \/ ProbeFails(t) \/ Started(t) \/ StartFails(t)
       \/ Initialized(t) \/ Ready(t) \/ HandshakeFails(t) \/ Closed(t) \/ CloseSettles(t)
  \/ Close
  \/ \E l \in Listens : Listen(l) \/ Listening(l)
  \/ \E s \in Servers : Change(s)
  \/ \E n \in notes : Notified(n)
  \/ \E w \in Calls : ListCall(w) \/ ProbeSharedAt(w) \/ Exchanged(w) \/ Answered(w)
  \/ TimerFires
  \/ EvictShared /\ UNCHANGED clientVars

Spec == Init /\ [][Next]_vars

(***************************************************************************)
(* Properties.                                                             *)
(***************************************************************************)
TypeOK ==
  /\ setting \in Stores
  /\ version \in [Servers -> 1 .. MaxVersion] /\ told \in [Servers -> 0 .. MaxVersion]
  /\ identity \in Identities
  /\ entries \in [Identities \X Scopes -> Lists]
  /\ generation \in 0 .. Cardinality(Servers) * MaxVersion
  /\ awaiting \in Seq(({"call"} \X Calls) \cup ({"eviction"} \X Identities))
  /\ awaiting # <<>> => setting.partitioned
  /\ call \in [Calls ->
       [at : {"idle", "probing", "asking", "served", "replied", "writing", "failed", "done"}, from : Identities,
        seen : 0 .. MaxVersion, id : Identities, on : Transports \cup {None},
        gen : 0 .. Cardinality(Servers) * MaxVersion, got : Lists, scope : Scopes]]
  /\ home \in [Transports -> Servers]
  /\ link \in [Transports -> {"down", "up", "failed", "closing", "gone"}]
  /\ conn \in [Transports ->
       {"new", "probing", "starting", "handshake", "initialized", "broken", "failing", "ready", "rejected"}]
  /\ how \in [Transports -> Forms \cup {"probed"}]
  /\ {attached, negotiated, timer} \subseteq Transports \cup {None} /\ modern \in BOOLEAN
  /\ closers \subseteq Transports /\ left \subseteq Transports /\ overlap \in BOOLEAN
  /\ sub \in [Listens -> [at : {"none", "opening", "open", "closed"}, on : Transports \cup {None}]]
  /\ notes \subseteq 1 .. MaxVersion

\* A list that list*() serves from the cache comes from the server the client
\* is connected to, or was when the call was made, and is then no older than
\* what that server had announced by then.
FreshHits ==
  \A w \in Calls : call[w].at = "done" /\ call[w].from # Nobody =>
    /\ call[w].got.of \in {call[w].from, call[w].id}
    /\ call[w].got.of = call[w].from => call[w].got.v >= call[w].seen

\* With prompt transports no hit is stale: evictions, writes of answers that were
\* on their way and reconnections notwithstanding (_probe, write, evict and
\* resetForReconnect of responseCache.ts).
NoStaleHit == Prompt => FreshHits

\* A subscription that is opening or open is one of the connection that is
\* attached: none outlives its connection, however that ended, when the next
\* connect() does not overtake its close (settle, _onclose and
\* _resetConnectionState of client.ts).
ListenBelongs == ~overlap => \A l \in Listens : Live(l) => attached = sub[l].on

\* A connection that connect() reported, that is up and that the application
\* did not leave.
InUse(t) == conn[t] = "ready" /\ link[t] = "up" /\ t \notin left

\* When its connect() began after the transports before it had closed, such a
\* connection has its version, its capabilities and its era, and is the one
\* requests go out on.
StaysWhole == ~overlap => \A t \in Transports : InUse(t) => negotiated = t /\ attached = t

\* Whatever overlaps, a connection that was reported speaks its own version and
\* era or none, and fills the cache of its own server or of none.
NeverMixed ==
  \A t \in Transports : conn[t] = "ready" /\ attached = t => negotiated \in {t, None} /\ identity \in {home[t], Nobody}

\* What earlier connections left behind does not take a reported connection
\* down, be it their state before the reset, a subscription, a timer that fires
\* while the transport starts, a request or an answer of the store that is late.
\* A connect() that overtakes the close() of a failed one, for which the code
\* does not make the application wait, has a weaker promise: the late onclose or
\* the end of that close can take the connection's state away, but not exchange
\* it for another's (Protocol.connect and _onclose; _connectPlainLegacy,
\* _legacyHandshake, _connectNegotiated and _resetConnectionState of client.ts).
ReadyIsConnected == StaysWhole /\ NeverMixed
=============================================================================
