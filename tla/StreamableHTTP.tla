---------------------------- MODULE StreamableHTTP ----------------------------
(***************************************************************************)
(* A Streamable HTTP session: StreamableHTTPClientTransport (packages/     *)
(* client/src/client/streamableHttp.ts) and, through StreamableHTTPServer, *)
(* the transport of its server, over a network that drops connections.     *)
(*                                                                         *)
(* A channel is what one _handleSseStream after another reads: the         *)
(* standalone channel, and one for each POST.  When the stream of a        *)
(* channel ends without a response the client schedules a GET that is to   *)
(* resume it.  Authorization happens inside a fetch and is left out.       *)
(***************************************************************************)
EXTENDS StreamableHTTPServer

CONSTANTS
  PromptStore, \* the event store has answered when a reconnection delay is over
  MaxRetries,  \* StreamableHTTPReconnectionOptions.maxRetries
  MaxDrops     \* bound: connections the network drops

Channels == StreamIds

ASSUME StreamableHTTPAssumption == PromptStore \in BOOLEAN /\ MaxRetries \in Nat /\ MaxDrops \in Nat

VARIABLES
  at,         \* where the client stands with each channel
  using,      \* the exchange of each channel
  token,      \* the resumptionToken of its next GET
  attempt,    \* attemptCount of that GET
  past,       \* what the channel read from earlier exchanges
  strayed,    \* the channels of POSTs that went on without a token
  aborted,    \* close() was called
  drops       \* connections dropped so far

client == <<at, using, token, attempt, past, strayed, aborted, drops>>
vars   == <<serverVars, client>>

Init ==
  /\ ServerInit
  /\ at = [s \in Channels |-> "idle"]
  /\ using = [s \in Channels |-> None]
  /\ token = [s \in Channels |-> None]
  /\ attempt = [s \in Channels |-> 0]
  /\ past = [s \in Channels |-> <<>>]
  /\ strayed = {}
  /\ aborted = FALSE /\ drops = 0

\* The fetch of a channel resolved with a stream, and it is being read.
Reads(s) == using[s] # None /\ exch[using[s]].at \in {"open", "over"}

\* What a channel has handed to onmessage.
Delivered(s) == IF Reads(s) THEN past[s] \o read[using[s]] ELSE past[s]

IsResponse(i) == log[i].what = "response"

Received(s) == {log[i].req : i \in {j \in {Delivered(s)[k] : k \in DOMAIN Delivered(s)} : IsResponse(j)}}

(***************************************************************************)
(* fetch.                                                                  *)
(***************************************************************************)
\* The first exchange of channel s that both sides are through with.
Free(s) ==
  LET free == {c \in s * MaxExch + 1 .. (s + 1) * MaxExch : exch[c].at = "over" /\ using[s] # c}
  IN {c \in free : \A d \in free : c <= d}

\* A request goes out.
Ask(c, method, s, after) ==
  /\ exch' = [exch EXCEPT ![c] = [at |-> "asked", method |-> method, stream |-> s, after |-> after]]
  /\ wire' = [wire EXCEPT ![c] = TRUE]
  /\ read' = [read EXCEPT ![c] = <<>>]
  /\ UNCHANGED <<setting, server>>

\* The client is through with the exchange of channel s.
Leave(s) ==
  /\ using' = [using EXCEPT ![s] = None]
  /\ wire' = [wire EXCEPT ![using[s]] = FALSE]
  /\ read' = [read EXCEPT ![using[s]] = <<>>]
  /\ exch' = [exch EXCEPT ![using[s]] = IF @.at = "refused" THEN Over ELSE @]
  /\ UNCHANGED <<setting, server>>

\* send() of a POST with requests.
Post(p) ==
  \E c \in Free(p) :
    /\ at[p] = "idle" /\ ~aborted
    /\ Ask(c, "POST", p, None)
    /\ at' = [at EXCEPT ![p] = "posting"]
    /\ using' = [using EXCEPT ![p] = c]
    /\ UNCHANGED <<token, attempt, past, strayed, aborted, drops>>

\* The 202 of the initialized notification opens the standalone stream.
OpenStandalone ==
  \E c \in Free(Standalone) :
    /\ at[Standalone] = "idle" /\ ~aborted
    /\ Ask(c, "GET", Standalone, None)
    /\ at' = [at EXCEPT ![Standalone] = "opening"]
    /\ using' = [using EXCEPT ![Standalone] = c]
    /\ UNCHANGED <<token, attempt, past, strayed, aborted, drops>>

\* reconnect(): a GET without a token asks for the standalone stream.
Reconnect(s) ==
  \E c \in Free(s) :
    /\ at[s] = "waiting"
    /\ PromptStore => \A k \in DOMAIN sending : sending[k] > token[s]
    /\ Ask(c, "GET", Standalone, token[s])
    /\ at' = [at EXCEPT ![s] = "reconnecting"]
    /\ using' = [using EXCEPT ![s] = c]
    /\ strayed' = IF s # Standalone /\ token[s] = None THEN strayed \cup {s} ELSE strayed
    /\ UNCHANGED <<token, attempt, past, aborted, drops>>

(***************************************************************************)
(* _scheduleReconnection and the end of a stream.                          *)
(***************************************************************************)
\* mutant: the limit is looked at after one attempt too many
MutExhausted(n) == n > MaxRetries

Exhausted(n) == n >= MaxRetries

\* _scheduleReconnection with attemptCount n; at the limit it reports the end
\* of the stream.
Schedule(s, n) ==
  /\ at' = [at EXCEPT ![s] = IF Exhausted(n) THEN "gaveUp" ELSE "waiting"]
  /\ attempt' = [attempt EXCEPT ![s] = n]

\* The fetch of a channel fails: a POST is rejected, the first GET is given up,
\* and a reconnection is scheduled anew.
FetchFailed(s) ==
  /\ IF at[s] = "reconnecting"
     THEN Schedule(s, attempt[s] + 1)
     ELSE at' = [at EXCEPT ![s] = "failed"] /\ UNCHANGED attempt
  /\ UNCHANGED <<token, past>>

\* lastEventId: it starts undefined with every stream.
LastEventId(c) ==
  IF setting.store /\ read[c] # <<>> THEN read[c][Len(read[c])] ELSE None

\* mutant: an event id does not make the stream of a POST resumable
MutNeedsReconnect(s) ==
  at[s] # "posting" /\ \A k \in DOMAIN read[using[s]] : ~IsResponse(read[using[s]][k])

\* A stream of a GET can be resumed, and one that gave an event id; one that
\* brought a response is not.
NeedsReconnect(s) ==
  /\ at[s] # "posting" \/ LastEventId(using[s]) # None
  /\ \A k \in DOMAIN read[using[s]] : ~IsResponse(read[using[s]][k])

\* processStream reaches the end of the stream, or its reader fails.
StreamEnded(s) ==
  /\ past' = [past EXCEPT ![s] = Delivered(s)]
  /\ IF NeedsReconnect(s)
     THEN Schedule(s, 0) /\ token' = [token EXCEPT ![s] = LastEventId(using[s])]
     ELSE at' = [at EXCEPT ![s] = "ended"] /\ UNCHANGED <<attempt, token>>

\* The server refuses, or ends the stream.
Ends(s) ==
  /\ using[s] # None
  /\ \/ exch[using[s]].at = "refused" /\ FetchFailed(s)
     \/ exch[using[s]].at = "over" /\ StreamEnded(s)
  /\ Leave(s)
  /\ UNCHANGED <<strayed, aborted, drops>>

(***************************************************************************)
(* close(), and the network.                                               *)
(***************************************************************************)
\* close(): the abort ends every fetch and stream silently, and a timer that
\* is not cancelled finds the signal aborted.
ClientClose ==
  /\ ~aborted /\ aborted' = TRUE
  /\ at' = [s \in Channels |-> IF at[s] \in {"failed", "gaveUp", "ended"} THEN at[s] ELSE "closed"]
  /\ past' = [s \in Channels |-> Delivered(s)]
  /\ using' = [s \in Channels |-> None]
  /\ wire' = [c \in Exchanges |-> FALSE]
  /\ read' = [c \in Exchanges |-> <<>>]
  /\ UNCHANGED <<setting, server, exch, token, attempt, strayed, drops>>

\* The connection breaks, before the server's answer or while it is read; the
\* server has yet to notice.
Drop(s) ==
  /\ using[s] # None /\ drops < MaxDrops
  /\ IF Reads(s) THEN StreamEnded(s) ELSE FetchFailed(s)
  /\ Leave(s)
  /\ drops' = drops + 1
  /\ UNCHANGED <<strayed, aborted>>

ClientStep(s) == Ends(s) \/ Reconnect(s)

Next ==
  \/ ServerNext /\ UNCHANGED client
  \/ \E p \in Posts : Post(p)
  \/ OpenStandalone
  \/ \E s \in Channels : ClientStep(s) \/ Drop(s)
  \/ ClientClose

Spec == Init /\ [][Next]_vars

\* What the event loops and the network get done: every request is handled,
\* every storeEvent and every callback answered, a dead connection noticed, a
\* timer fires.  Handlers owe nothing.
FairSpec ==
  /\ Spec
  /\ \A c \in Exchanges : WF_vars(ServerStep(c) /\ UNCHANGED client)
  /\ WF_vars(SendResumes /\ UNCHANGED client)
  /\ \A s \in Channels : WF_vars(ClientStep(s))

(***************************************************************************)
(* Properties.                                                             *)
(***************************************************************************)
ExchStates == {"over", "asked", "refused", "challenged", "priming", "json", "replaying", "open", "closing"}

ChannelStates ==
  {"idle", "posting", "opening", "waiting", "reconnecting", "failed", "gaveUp", "ended", "closed"}

Messages == [stream : StreamIds, req : Reqs \cup {None}, what : {"priming", "note", "response"}]

\* Type correctness of both transports; a reconnection is never attempted more
\* often than maxRetries allows (_scheduleReconnection).
TypeOK ==
  /\ setting \in Settings /\ closed \in BOOLEAN
  /\ \A s \in StreamIds : stream[s].to \in Exchanges \cup {None} /\ stream[s].replayed \subseteq DOMAIN log
  /\ inflight \subseteq Reqs /\ responded \subseteq Reqs
  /\ handler \in [Reqs -> {"none", "running", "answered", "aborted"}]
  /\ log \in Seq(Messages) /\ \A k \in DOMAIN sending : sending[k] \in DOMAIN log
  /\ \A c \in Exchanges :
       /\ exch[c] \in [at : ExchStates, method : {"GET", "POST"}, stream : StreamIds, after : Nat]
       /\ exch[c].after = None \/ exch[c].after \in DOMAIN log
       /\ \A k \in DOMAIN read[c] : read[c][k] \in DOMAIN log
  /\ wire \in [Exchanges -> BOOLEAN]
  /\ at \in [Channels -> ChannelStates]
  /\ using \in [Channels -> Exchanges \cup {None}]
  /\ \A s \in Channels : token[s] = None \/ token[s] \in DOMAIN log
  /\ \A s \in Channels : at[s] \in {"waiting", "reconnecting"} => attempt[s] < MaxRetries
  /\ strayed \subseteq Channels /\ aborted \in BOOLEAN
  /\ drops \in 0 .. MaxDrops

\* While the transport is open, every response stream that is open is the one
\* its stream id maps to: it is written to, and somebody will end it.  A stale
\* cancel, a resume or a second standalone GET must not orphan one.
NoOrphanStream ==
  ~closed =>
    /\ \A c \in Exchanges : exch[c].at = "open" => stream[OnStream(c)].to = c
    /\ \A s \in StreamIds : Mapped(s) =>
         exch[stream[s].to].at \in {"open", "priming", "json"} /\ OnStream(stream[s].to) = s

Delivery ==
  INSTANCE StreamDelivery WITH whole <- setting.json, got <- [s \in Channels |-> Delivered(s)]

\* The transports implement StreamDelivery: a channel receives what the server
\* sent in the order it was sent, each message once, whatever is replayed,
\* written twice or resumed; and a response only on the channel of its POST.
\* A JSON body is the exception: it has the responses of a batch in the order
\* of its requests (relatedIds.map), however they were sent.
DeliveredInOrder == Delivery!Spec

\* A response is kept only as long as a request of its POST has not been
\* answered, and no request id outlives the last response of its POST, whatever
\* became of the stream meanwhile.
RequestsRetired ==
  ~closed =>
    /\ responded \subseteq inflight
    /\ \A r \in inflight : \E q \in Carried(PostOf[r]) :
         \/ handler[q] # "answered"
         \/ \E k \in DOMAIN sending : log[sending[k]].req = q /\ IsResponse(sending[k])

\* A channel that waits to be resumed names the last event it received, which
\* is what docs/serving/sessions-state-scaling.md:81 promises of the client.
ResumesFromLastSeen ==
  \A s \in Channels :
    at[s] \in {"waiting", "reconnecting"} /\ setting.store /\ past[s] # <<>> /\ ~closed =>
      token[s] = past[s][Len(past[s])]

\* A resumed stream that is open has carried every event stored after its
\* Last-Event-ID whose send is over, as docs/serving/sessions-state-scaling.md:81
\* promises of the transport ("replays everything stored after it").
ReplayIsComplete ==
  \A s \in Channels :
    LET c == using[s]
        Sent(j) == \A k \in DOMAIN sending : sending[k] # j
    IN using[s] # None /\ exch[c].at = "open" /\ exch[c].after # None =>
         \A j \in exch[c].after + 1 .. Len(log) :
           log[j].stream = OnStream(c) /\ Sent(j) => \E k \in DOMAIN read[c] : read[c][k] = j

Answered(p) == Carried(p) # {} /\ \A r \in Carried(p) : handler[r] = "answered"

\* Nothing the two transports owe: one was closed, the POST itself failed or
\* every retry did, or the channel lost its place.
Excused(p) == closed \/ aborted \/ at[p] \in {"failed", "gaveUp"} \/ p \in strayed

\* A response that was sent reaches a client that can resume, however often the
\* stream drops or the handler ends it; any other client has its stream ended
\* instead of waiting for ever.
ResponseArrives ==
  \A p \in Posts :
    Answered(p) ~> Excused(p) \/ IF Primes /\ ~setting.json THEN Received(p) # {} ELSE at[p] = "ended"
=============================================================================
