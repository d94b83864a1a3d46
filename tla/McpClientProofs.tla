---------------------------- MODULE McpClientProofs ----------------------------
(***************************************************************************)
(* Theorems about McpClient.  What a client keeps of its connections holds *)
(* once a connect() has overtaken no close(), and with Prompt none does.   *)
(* What its cache serves also needs a store that answers in order.         *)
(***************************************************************************)
EXTENDS McpClient, FiniteSetTheorems, TLAPS

-----------------------------------------------------------------------------
(***************************************************************************)
(* Types.                                                                  *)
(***************************************************************************)
\* A notification stands for a version that came after the first; each is
\* counted by the generation once it was handled.
Later == {p \in Servers \X (1 .. MaxVersion) : p[2] < version[p[1]]}

Counted == generation + Cardinality(notes) <= Cardinality(Later)

StartsAs == \A t \in Transports : conn[t] = "starting" => how[t] \in {"legacy", "prior", "probed"}

Bound == Cardinality(Servers) * MaxVersion

CallType ==
  [at : {"idle", "probing", "asking", "served", "replied", "writing", "failed", "done"}, from : Identities,
   seen : 0 .. MaxVersion, id : Identities, on : Transports \cup {None},
   gen : 0 .. Bound, got : Lists, scope : Scopes]

\* The variables of the cache that reconnections leave alone, those they reset,
\* and those of the connections.
CallsTyped ==
  /\ setting \in Stores
  /\ version \in [Servers -> 1 .. MaxVersion] /\ told \in [Servers -> 0 .. MaxVersion]
  /\ awaiting \in Seq(({"call"} \X Calls) \cup ({"eviction"} \X Identities))
  /\ awaiting # <<>> => setting.partitioned
  /\ call \in [Calls -> CallType]

StateTyped ==
  /\ identity \in Identities
  /\ entries \in [Identities \X Scopes -> Lists]
  /\ generation \in Nat
  /\ {negotiated, timer} \subseteq Transports \cup {None} /\ modern \in BOOLEAN
  /\ sub \in [Listens -> [at : {"none", "opening", "open", "closed"}, on : Transports \cup {None}]]

LinksTyped ==
  /\ home \in [Transports -> Servers]
  /\ link \in [Transports -> {"down", "up", "failed", "closing", "gone"}]
  /\ conn \in [Transports ->
       {"new", "probing", "starting", "handshake", "initialized", "broken", "failing", "ready", "rejected"}]
  /\ how \in [Transports -> Forms \cup {"probed"}]
  /\ attached \in Transports \cup {None}
  /\ closers \subseteq Transports /\ left \subseteq Transports /\ overlap \in BOOLEAN
  /\ notes \subseteq 1 .. MaxVersion

Typed == CallsTyped /\ StateTyped /\ LinksTyped /\ Counted /\ StartsAs

LEMMA BoundIsNat == Bound \in Nat /\ MaxVersion \in Nat \ {0} /\ IsFiniteSet(Servers) /\ Nobody \notin Servers
<1>1. Cardinality(Servers) \in Nat /\ MaxVersion \in Nat
  BY CacheAssumption, FS_CardinalityType
<1>2. \A m, n \in Nat : m * n \in Nat
  OBVIOUS
<1> QED BY <1>1, <1>2, CacheAssumption DEF Bound

LEMMA LaterIsBounded ==
  ASSUME version \in [Servers -> 1 .. MaxVersion]
  PROVE  IsFiniteSet(Later) /\ Cardinality(Later) \in Nat /\ Cardinality(Later) <= Bound
<1> DEFINE all == Servers \X (1 .. MaxVersion)
<1>1. IsFiniteSet(1 .. MaxVersion) /\ Cardinality(1 .. MaxVersion) = MaxVersion
  BY BoundIsNat, FS_Interval
<1>2. IsFiniteSet(all) /\ Cardinality(all) = Bound
  BY <1>1, BoundIsNat, FS_Product DEF Bound
<1>3. Later \subseteq all
  BY DEF Later
<1> QED BY <1>2, <1>3, FS_Subset, FS_CardinalityType

LEMMA NotesAreFinite ==
  ASSUME notes \subseteq 1 .. MaxVersion
  PROVE  IsFiniteSet(notes) /\ Cardinality(notes) \in Nat
<1>1. IsFiniteSet(1 .. MaxVersion)
  BY BoundIsNat, FS_Interval
<1>2. IsFiniteSet(notes)
  BY <1>1, FS_Subset
<1> QED BY <1>2, FS_CardinalityType

LEMMA GenerationIsBounded ==
  ASSUME CallsTyped, StateTyped, LinksTyped, Counted
  PROVE  generation \in 0 .. Bound
<1>1. Cardinality(Later) \in Nat /\ Cardinality(Later) <= Bound
  BY LaterIsBounded DEF CallsTyped
<1>2. Cardinality(notes) \in Nat
  BY NotesAreFinite DEF LinksTyped
<1> QED BY <1>1, <1>2, BoundIsNat DEF Counted, StateTyped

LEMMA TypedIsTypeOK == ASSUME Typed PROVE TypeOK
<1>1. generation \in 0 .. Bound
  BY GenerationIsBounded DEF Typed
<1> QED BY <1>1 DEF Typed, CallsTyped, StateTyped, LinksTyped, TypeOK, CallType, Bound

LEMMA TypedInit == Init => Typed
<1> SUFFICES ASSUME Init PROVE Typed
  OBVIOUS
<1>1. CallsTyped
  <2>1. Idle \in CallType
    BY BoundIsNat DEF Idle, CallType, Identities, Scopes, Lists, NoList, None
  <2>2. version \in [Servers -> 1 .. MaxVersion] /\ told \in [Servers -> 0 .. MaxVersion]
    BY BoundIsNat DEF Init, CacheInit
  <2> QED BY <2>1, <2>2 DEF Init, CacheInit, CallsTyped
<1>2. StateTyped
  <2>1. NoList \in Lists
    BY BoundIsNat DEF NoList, Lists, Identities
  <2>2. entries \in [Identities \X Scopes -> Lists]
    BY <2>1 DEF Init, CacheInit
  <2>3. identity \in Identities /\ generation \in Nat
    BY DEF Init, CacheInit, Identities
  <2>4. /\ {negotiated, timer} \subseteq Transports \cup {None} /\ modern \in BOOLEAN
        /\ sub \in [Listens -> [at : {"none", "opening", "open", "closed"}, on : Transports \cup {None}]]
    BY DEF Init, Unlistened
  <2> QED BY <2>2, <2>3, <2>4 DEF StateTyped
<1>3. LinksTyped
  BY DEF Init, LinksTyped, Forms
<1>4. Counted
  <2>1. Cardinality(Later) \in Nat
    BY <1>1, LaterIsBounded DEF CallsTyped
  <2> QED BY <2>1, FS_EmptySet DEF Init, CacheInit, Counted
<1>5. StartsAs
  BY DEF Init, StartsAs
<1> QED BY <1>1, <1>2, <1>3, <1>4, <1>5 DEF Typed

LEMMA CountedKept ==
  ASSUME Typed, version' = version, notes' \subseteq notes, generation' \in Nat, generation' <= generation
  PROVE  Counted'
<1>1. Later' = Later
  BY DEF Later
<1>2. Cardinality(Later) \in Nat
  BY LaterIsBounded DEF Typed, CallsTyped
<1>3. IsFiniteSet(notes) /\ Cardinality(notes) \in Nat
  BY NotesAreFinite DEF Typed, LinksTyped
<1>4. Cardinality(notes') \in Nat /\ Cardinality(notes') <= Cardinality(notes)
  BY <1>3, FS_Subset, FS_CardinalityType
<1> QED BY <1>1, <1>2, <1>3, <1>4 DEF Counted, Typed, StateTyped

LEMMA CallsKept ==
  ASSUME CallsTyped, UNCHANGED <<setting, version, told, awaiting, call>> PROVE CallsTyped'
BY DEF CallsTyped

LEMMA StateKept ==
  ASSUME StateTyped, NoReset PROVE StateTyped'
BY DEF StateTyped, NoReset

LEMMA ResetTyped ==
  ASSUME StateTyped, Reset PROVE StateTyped' /\ generation' = 0
<1>1. entries' \in [Identities \X Scopes -> Lists]
  <2>1. NoList \in Lists
    BY BoundIsNat DEF NoList, Lists, Identities
  <2> QED BY <2>1 DEF Reset, ResetForReconnect, StateTyped
<1>2. sub' \in [Listens -> [at : {"none", "opening", "open", "closed"}, on : Transports \cup {None}]]
  BY DEF Reset, Settled, StateTyped
<1>3. identity' \in Identities /\ generation' \in Nat /\ generation' = 0 /\ {negotiated', timer'} \subseteq Transports \cup {None} /\ modern' \in BOOLEAN
  BY DEF Reset, ResetForReconnect, Identities
<1> QED BY <1>1, <1>2, <1>3 DEF StateTyped

LEMMA EstablishTyped ==
  ASSUME StateTyped, LinksTyped, NEW t \in Transports, NEW era, Establish(t, era) PROVE StateTyped'
<1>1. home[t] \in Identities
  BY DEF LinksTyped, Identities
<1> QED BY <1>1 DEF StateTyped, Establish

\* A step that resets what connections leave in the client, fills it, or leaves it alone.
LEMMA ConnectingTyped ==
  ASSUME Typed, UNCHANGED <<setting, version, told, awaiting, call>>,
         NEW t \in Transports, Reset \/ NoReset \/ Establish(t, "modern"),
         LinksTyped', StartsAs', notes' \subseteq notes
  PROVE  Typed'
<1>1. CallsTyped'
  BY CallsKept DEF Typed
<1>2. StateTyped' /\ (generation' = 0 \/ generation' = generation)
  <2>1. CASE Reset
    BY <2>1, ResetTyped DEF Typed
  <2>2. CASE NoReset
    BY <2>2, StateKept DEF Typed, NoReset
  <2>3. CASE Establish(t, "modern")
    BY <2>3, EstablishTyped DEF Typed, Establish
  <2> QED BY <2>1, <2>2, <2>3
<1>3. Counted'
  <2>1. generation' \in Nat /\ generation' <= generation
    BY <1>2 DEF Typed, StateTyped
  <2> QED BY <2>1, CountedKept
<1> QED BY <1>1, <1>2, <1>3 DEF Typed


LEMMA ConnectTyped == ASSUME Typed, NEW t \in Transports, Connect(t) PROVE Typed'
<1>1. PICK form \in Forms :
        /\ how' = [how EXCEPT ![t] = form]
        /\ IF form \in {"legacy", "prior"}
           THEN Attach(t) /\ At(t, "starting")
           ELSE At(t, "probing") /\ UNCHANGED attached
        /\ IF form = "sibling" THEN UNCHANGED link ELSE Linked(t, "up")
        /\ IF form = "legacy" THEN NoReset ELSE Reset
  BY DEF Connect
<1>2. LinksTyped'
  BY <1>1 DEF Typed, LinksTyped, Connect, Attach, At, Linked
<1>3. StartsAs'
  BY <1>1 DEF Typed, LinksTyped, StartsAs, At, Forms
<1>4. Reset \/ NoReset \/ Establish(t, "modern")
  BY <1>1
<1> QED BY <1>2, <1>3, <1>4, ConnectingTyped DEF Connect

LEMMA ProbeSucceedsTyped == ASSUME Typed, NEW t \in Transports, ProbeSucceeds(t) PROVE Typed'
<1>1. PICK era \in {"modern", "legacy"} :
       \/ /\ how[t] = "sibling"
          /\ At(t, "starting") /\ Linked(t, "up")
          /\ how' = [how EXCEPT ![t] = IF era = "modern" THEN "prior" ELSE "probed"]
          /\ NoReset
       \/ /\ how[t] = "inplace" /\ UNCHANGED <<how, link>>
          /\ IF era = "modern" THEN At(t, "ready") /\ Establish(t, era) ELSE At(t, "handshake") /\ NoReset
  BY DEF ProbeSucceeds
<1>2. LinksTyped'
  BY <1>1 DEF Typed, LinksTyped, ProbeSucceeds, Attach, At, Linked, Forms
<1>3. StartsAs'
  BY <1>1 DEF Typed, LinksTyped, StartsAs, At
<1>4. Reset \/ NoReset \/ Establish(t, "modern")
  BY <1>1
<1> QED BY <1>2, <1>3, <1>4, ConnectingTyped DEF ProbeSucceeds

LEMMA ProbeFailsTyped == ASSUME Typed, NEW t \in Transports, ProbeFails(t) PROVE Typed'
<1>1. LinksTyped' /\ StartsAs'
  BY DEF Typed, LinksTyped, StartsAs, ProbeFails, At, Linked
<1>2. NoReset
  BY DEF NoReset, ProbeFails, cacheVars
<1> QED BY <1>1, <1>2, ConnectingTyped DEF ProbeFails, cacheVars

LEMMA StartedTyped == ASSUME Typed, NEW t \in Transports, Started(t) PROVE Typed'
<1>1. how[t] \in {"legacy", "prior", "probed"}
  BY DEF Typed, StartsAs, Started
<1>2. \/ At(t, "handshake") /\ Reset
      \/ At(t, "handshake") /\ NoReset
      \/ At(t, "ready") /\ Establish(t, "modern")
  BY <1>1 DEF Started
<1>3. LinksTyped' /\ StartsAs'
  BY <1>2 DEF Typed, LinksTyped, StartsAs, Started, At
<1>4. Reset \/ NoReset \/ Establish(t, "modern")
  BY <1>2
<1> QED BY <1>3, <1>4, ConnectingTyped DEF Started

LEMMA StartFailsTyped == ASSUME Typed, NEW t \in Transports, StartFails(t) PROVE Typed'
<1>1. LinksTyped' /\ StartsAs'
  BY DEF Typed, LinksTyped, StartsAs, StartFails, At, Linked
<1>2. NoReset
  BY DEF NoReset, StartFails, cacheVars
<1> QED BY <1>1, <1>2, ConnectingTyped DEF StartFails, cacheVars

LEMMA InitializedTyped == ASSUME Typed, NEW t \in Transports, Initialized(t) PROVE Typed'
<1>1. LinksTyped' /\ StartsAs'
  BY DEF Typed, LinksTyped, StartsAs, Initialized, At
<1>2. StateTyped'
  BY DEF Typed, LinksTyped, StateTyped, Initialized, Identities
<1>3. CallsTyped'
  BY CallsKept DEF Typed, Initialized
<1>4. Counted'
  BY CountedKept DEF Typed, StateTyped, Initialized
<1> QED BY <1>1, <1>2, <1>3, <1>4 DEF Typed

LEMMA ReadyTyped == ASSUME Typed, NEW t \in Transports, Ready(t) PROVE Typed'
<1>1. LinksTyped' /\ StartsAs'
  BY DEF Typed, LinksTyped, StartsAs, Ready, At
<1>2. StateTyped'
  BY DEF Typed, StateTyped, Ready, cacheVars
<1>3. CallsTyped'
  BY CallsKept DEF Typed, Ready, cacheVars
<1>4. Counted'
  BY CountedKept DEF Typed, StateTyped, Ready, cacheVars
<1> QED BY <1>1, <1>2, <1>3, <1>4 DEF Typed

LEMMA CloseCallTyped ==
  ASSUME Typed, CloseCall
  PROVE  /\ Reset \/ NoReset
         /\ link' \in [Transports -> {"down", "up", "failed", "closing", "gone"}]
         /\ closers' \subseteq Transports
BY DEF Typed, LinksTyped, CloseCall, Linked

LEMMA HandshakeFailsTyped == ASSUME Typed, NEW t \in Transports, HandshakeFails(t) PROVE Typed'
<1>1. LinksTyped' /\ StartsAs'
  BY CloseCallTyped DEF Typed, LinksTyped, StartsAs, HandshakeFails, At
<1>2. Reset \/ NoReset
  BY CloseCallTyped DEF HandshakeFails
<1> QED BY <1>1, <1>2, ConnectingTyped DEF HandshakeFails

LEMMA CloseTyped == ASSUME Typed, Close PROVE Typed'
<1>1. LinksTyped' /\ StartsAs'
  BY CloseCallTyped DEF Typed, LinksTyped, StartsAs, Close
<1>2. Reset \/ NoReset
  BY CloseCallTyped DEF Close
<1>3. \E t \in Transports : TRUE
  BY DEF Close
<1> QED BY <1>1, <1>2, <1>3, ConnectingTyped DEF Close

LEMMA CloseSettlesTyped == ASSUME Typed, NEW t \in Transports, CloseSettles(t) PROVE Typed'
<1>1. LinksTyped' /\ StartsAs'
  BY DEF Typed, LinksTyped, StartsAs, CloseSettles
<1> QED BY <1>1, ConnectingTyped DEF CloseSettles

LEMMA ClosedTyped == ASSUME Typed, NEW t \in Transports, Closed(t) PROVE Typed'
<1>1. LinksTyped' /\ StartsAs'
  BY DEF Typed, LinksTyped, StartsAs, Closed, OnClose, At, Linked
<1>2. StateTyped'
  <2>1. Settled \in [Listens -> [at : {"none", "opening", "open", "closed"}, on : Transports \cup {None}]]
    BY DEF Settled, Typed, StateTyped
  <2> QED BY <2>1 DEF Typed, StateTyped, Closed, OnClose, LostSubs
<1>3. CallsTyped'
  <2>1. Rejected \in [Calls -> CallType]
    BY DEF Rejected, Typed, CallsTyped, CallType
  <2> QED BY <2>1 DEF Typed, CallsTyped, Closed, OnClose
<1>4. Counted'
  BY CountedKept DEF Typed, StateTyped, Closed
<1> QED BY <1>1, <1>2, <1>3, <1>4 DEF Typed

LEMMA ListenTyped == ASSUME Typed, NEW l \in Listens, Listen(l) \/ Listening(l) PROVE Typed'
<1>1. sub' \in [Listens -> [at : {"none", "opening", "open", "closed"}, on : Transports \cup {None}]]
  <2>1. CASE Listen(l)
    BY <2>1 DEF Typed, StateTyped, LinksTyped, Listen
  <2>2. CASE Listening(l)
    BY <2>2 DEF Typed, StateTyped, Listening
  <2> QED BY <2>1, <2>2
<1>2. UNCHANGED <<cacheVars, home, link, conn, how, attached, negotiated, modern, closers, left, overlap, notes, told, timer>>
  BY DEF Listen, Listening
<1>3. CallsTyped' /\ StateTyped'
  BY <1>1, <1>2 DEF Typed, CallsTyped, StateTyped, cacheVars
<1>4. LinksTyped' /\ StartsAs'
  BY <1>2 DEF Typed, LinksTyped, StartsAs
<1>5. Counted'
  BY <1>2, CountedKept DEF Typed, StateTyped, cacheVars
<1> QED BY <1>3, <1>4, <1>5 DEF Typed

\* The step of a call, or of the store.
LEMMA CallingTyped ==
  ASSUME Typed, CallsTyped', entries' \in [Identities \X Scopes -> Lists], timer' \in {timer, None},
         UNCHANGED <<version, identity, generation, home, link, conn, how, attached, negotiated, modern, closers, left, overlap, sub, notes>>
  PROVE  Typed'
<1>1. StateTyped' /\ LinksTyped' /\ StartsAs'
  BY DEF Typed, StateTyped, LinksTyped, StartsAs
<1>2. Counted'
  BY CountedKept DEF Typed, StateTyped
<1> QED BY <1>1, <1>2 DEF Typed

Waiter == ({"call"} \X Calls) \cup ({"eviction"} \X Identities)

LEMMA Dequeued ==
  ASSUME awaiting \in Seq(Waiter), NEW i \in DOMAIN awaiting, awaiting' = RemoveAt(awaiting, i)
  PROVE  awaiting' \in Seq(Waiter) /\ awaiting # <<>>
BY DEF RemoveAt

LEMMA AnswerTyped ==
  ASSUME CallsTyped, NEW who, Answer(who), UNCHANGED setting
  PROVE  awaiting' \in Seq(Waiter) /\ (awaiting' # <<>> => setting'.partitioned) /\ setting.partitioned
<1>1. PICK i \in DOMAIN awaiting : awaiting' = RemoveAt(awaiting, i)
  BY DEF Answer, Answers
<1> QED BY <1>1, Dequeued DEF CallsTyped, Waiter

LEMMA QueuedTyped ==
  ASSUME CallsTyped, NEW who \in Waiter, setting.partitioned, awaiting' = Append(awaiting, who), UNCHANGED setting
  PROVE  awaiting' \in Seq(Waiter) /\ (awaiting' # <<>> => setting'.partitioned)
BY DEF CallsTyped, Waiter

LEMMA PartitionTyped ==
  ASSUME NEW id \in Identities, NEW scope \in Scopes
  PROVE  Partition(id, scope) \in Identities \X Scopes /\ Opposite(scope) \in Scopes
BY DEF Partition, Opposite, Scopes

LEMMA AskingTyped ==
  ASSUME Typed, NEW c \in CallType, NEW t \in Transports \cup {None}
  PROVE  Asking(c, t) \in CallType
<1>1. generation \in 0 .. Bound
  BY GenerationIsBounded DEF Typed
<1>2. 0 \in 0 .. MaxVersion /\ Nobody \in Identities
  BY BoundIsNat DEF Identities
<1> QED BY <1>1, <1>2 DEF Asking, CallType

LEMMA WireTyped == ASSUME LinksTyped PROVE Wire \in Transports \cup {None}
BY DEF LinksTyped, Wire

LEMMA IdleTyped == Idle \in CallType
BY BoundIsNat DEF Idle, CallType, Identities, Scopes, Lists, NoList, None

LEMMA DeleteTyped ==
  ASSUME StateTyped, NEW p, Delete(p) PROVE entries' \in [Identities \X Scopes -> Lists]
<1>1. NoList \in Lists
  BY BoundIsNat DEF NoList, Lists, Identities
<1> QED BY <1>1 DEF Delete, StateTyped

LEMMA ChangeTyped == ASSUME Typed, NEW s \in Servers, Change(s) PROVE Typed'
<1>1. version[s] + 1 \in 1 .. MaxVersion /\ version[s] \in 1 .. MaxVersion
  BY BoundIsNat DEF Typed, CallsTyped, Change
<1>2. CallsTyped'
  BY <1>1 DEF Typed, CallsTyped, Change
<1>3. StateTyped'
  BY DEF Typed, StateTyped, Change
<1>4. LinksTyped' /\ StartsAs'
  BY <1>1 DEF Typed, LinksTyped, StartsAs, Change
<1>5. Counted'
  <2>1. Later' = Later \cup {<<s, version[s]>>}
    <3>1. \A p \in Servers \X (1 .. MaxVersion) : p[2] < version'[p[1]] <=> p[2] < version[p[1]] \/ p = <<s, version[s]>>
      <4> SUFFICES ASSUME NEW r \in Servers, NEW v \in 1 .. MaxVersion
                   PROVE  v < version'[r] <=> v < version[r] \/ (r = s /\ v = version[s])
        OBVIOUS
      <4>1. CASE r = s
        <5>1. version'[r] = version[s] + 1
          BY <4>1 DEF Typed, CallsTyped, Change
        <5> QED BY <5>1, <4>1, <1>1
      <4>2. CASE r # s
        BY <4>2 DEF Typed, CallsTyped, Change
      <4> QED BY <4>1, <4>2
    <3>2. <<s, version[s]>> \in Servers \X (1 .. MaxVersion)
      BY <1>1
    <3> QED BY <3>1, <3>2 DEF Later
  <2>2. <<s, version[s]>> \notin Later
    BY <1>1 DEF Later
  <2>3. IsFiniteSet(Later) /\ Cardinality(Later) \in Nat /\ IsFiniteSet(notes) /\ Cardinality(notes) \in Nat
    BY LaterIsBounded, NotesAreFinite DEF Typed, CallsTyped, LinksTyped
  <2>4. Cardinality(Later') = Cardinality(Later) + 1
    BY <2>1, <2>2, <2>3, FS_AddElement
  <2>5. Cardinality(notes') \in Nat /\ Cardinality(notes') <= Cardinality(notes) + 1
    <3>1. notes' = notes \/ notes' = notes \cup {version[s] + 1}
      BY DEF Change
    <3>2. Cardinality(notes \cup {version[s] + 1}) \in {Cardinality(notes), Cardinality(notes) + 1}
      BY <2>3, FS_AddElement
    <3> QED BY <2>3, <3>1, <3>2
  <2> QED BY <2>3, <2>4, <2>5 DEF Counted, Typed, StateTyped, Change
<1> QED BY <1>2, <1>3, <1>4, <1>5 DEF Typed

LEMMA NotifiedTyped == ASSUME Typed, NEW n \in notes, Notified(n) PROVE Typed'
<1>1. attached \in Transports /\ n \in 1 .. MaxVersion /\ identity \in Identities
  BY DEF Typed, LinksTyped, StateTyped, Notified
<1>2. CallsTyped'
  <2>1. awaiting' \in Seq(Waiter) /\ (awaiting' # <<>> => setting'.partitioned)
    <3>1. CASE Apart
      <4>1. <<"eviction", identity>> \in Waiter
        BY <1>1 DEF Waiter
      <4> QED BY <3>1, <4>1, QueuedTyped DEF Typed, Apart, Notified, Evict
    <3>2. CASE ~Apart
      BY <3>2 DEF Typed, CallsTyped, Notified, Evict, Waiter
    <3> QED BY <3>1, <3>2
  <2>2. told' \in [Servers -> 0 .. MaxVersion]
    BY <1>1 DEF Typed, CallsTyped, LinksTyped, Notified
  <2> QED BY <2>1, <2>2 DEF Typed, CallsTyped, Notified, Waiter
<1>3. StateTyped'
  <2>1. entries' \in [Identities \X Scopes -> Lists]
    BY DeleteTyped DEF Typed, Notified, Evict
  <2> QED BY <1>1, <2>1 DEF Typed, StateTyped, Notified, Evict
<1>4. LinksTyped' /\ StartsAs'
  BY DEF Typed, LinksTyped, StartsAs, Notified
<1>5. Counted'
  <2>1. Later' = Later
    BY DEF Later, Notified
  <2>2. IsFiniteSet(Later) /\ Cardinality(Later) \in Nat /\ IsFiniteSet(notes) /\ Cardinality(notes) \in Nat
    BY LaterIsBounded, NotesAreFinite DEF Typed, CallsTyped, LinksTyped
  <2>3. Cardinality(notes') = Cardinality(notes) - 1
    BY <2>2, FS_RemoveElement DEF Notified
  <2> QED BY <2>1, <2>2, <2>3 DEF Counted, Typed, StateTyped, Notified, Evict
<1> QED BY <1>2, <1>3, <1>4, <1>5 DEF Typed

LEMMA ListCallTyped == ASSUME Typed, NEW w \in Calls, ListCall(w) PROVE Typed'
<1>1. PICK fresh \in BOOLEAN :
        ProbeOwn(w, [Idle EXCEPT !.from = home[negotiated], !.seen = told[home[negotiated]]], Wire, fresh)
  BY DEF ListCall
<1> DEFINE c == [[Idle EXCEPT !.from = home[negotiated], !.seen = told[home[negotiated]]] EXCEPT !.id = identity]
           held == entries[Partition(identity, "private")]
<1>2. c \in CallType
  <2>1. home[negotiated] \in Identities /\ told[home[negotiated]] \in 0 .. MaxVersion /\ identity \in Identities
    BY DEF ListCall, Typed, StateTyped, LinksTyped, CallsTyped, Identities
  <2> QED BY <2>1, IdleTyped DEF CallType
<1>3. held \in Lists
  BY PartitionTyped DEF Typed, StateTyped, Scopes
<1>4. \/ setting.partitioned /\ awaiting' = Append(awaiting, <<"call", w>>) /\ call' = [call EXCEPT ![w] = [c EXCEPT !.at = "probing"]]
      \/ awaiting' = awaiting /\ call' = [call EXCEPT ![w] = Got(c, held)]
      \/ awaiting' = awaiting /\ call' = [call EXCEPT ![w] = Asking(c, Wire)]
  BY <1>1 DEF ProbeOwn, Apart
<1> HIDE DEF c, held
<1>5. [c EXCEPT !.at = "probing"] \in CallType /\ Got(c, held) \in CallType /\ Asking(c, Wire) \in CallType
  BY <1>2, <1>3, AskingTyped, WireTyped DEF CallType, Got, Typed
<1>6. <<"call", w>> \in Waiter
  BY DEF Waiter
<1>7. CallsTyped'
  <2>1. call' \in [Calls -> CallType]
    BY <1>4, <1>5 DEF Typed, CallsTyped
  <2>2. awaiting' \in Seq(Waiter) /\ (awaiting' # <<>> => setting'.partitioned)
    BY <1>4, <1>6, QueuedTyped DEF Typed, CallsTyped, Waiter, ListCall
  <2> QED BY <2>1, <2>2 DEF Typed, CallsTyped, Waiter, ListCall, clientVars
<1> QED BY <1>7, CallingTyped DEF Typed, StateTyped, ListCall, clientVars

LEMMA ProbeSharedTyped == ASSUME Typed, NEW w \in Calls, ProbeSharedAt(w) PROVE Typed'
<1>1. PICK fresh \in BOOLEAN : ProbeShared(w, Wire, fresh)
  BY DEF ProbeSharedAt
<1> DEFINE c == [call[w] EXCEPT !.id = identity]
           held == entries[Partition(identity, "public")]
<1>2. c \in CallType
  <2>1. call[w] \in CallType /\ identity \in Identities
    BY DEF Typed, StateTyped, CallsTyped
  <2> QED BY <2>1 DEF CallType
<1>3. held \in Lists
  BY PartitionTyped DEF Typed, StateTyped, Scopes
<1>4. call' = [call EXCEPT ![w] = Got(c, held)] \/ call' = [call EXCEPT ![w] = Asking(c, Wire)]
  BY <1>1 DEF ProbeShared
<1> HIDE DEF c, held
<1>5. Got(c, held) \in CallType /\ Asking(c, Wire) \in CallType
  BY <1>2, <1>3, AskingTyped, WireTyped DEF CallType, Got, Typed
<1>6. awaiting' \in Seq(Waiter) /\ (awaiting' # <<>> => setting'.partitioned)
  BY <1>1, AnswerTyped DEF ProbeShared, ProbeSharedAt, Typed
<1>7. CallsTyped'
  BY <1>4, <1>5, <1>6 DEF Typed, CallsTyped, Waiter, ProbeSharedAt, clientVars
<1> QED BY <1>7, CallingTyped DEF Typed, StateTyped, ProbeSharedAt, clientVars

LEMMA TimerFiresTyped == ASSUME Typed, TimerFires PROVE Typed'
<1>1. Asking(Idle, Wire) \in CallType
  BY IdleTyped, AskingTyped, WireTyped DEF Typed
<1>2. CallsTyped'
  BY <1>1 DEF Typed, CallsTyped, TimerFires
<1> QED BY <1>2, CallingTyped DEF Typed, StateTyped, TimerFires

LEMMA ExchangedTyped == ASSUME Typed, NEW w \in Calls, Exchanged(w) PROVE Typed'
<1>1. call' \in [Calls -> CallType]
  <2>1. CASE Serve(w, home[call[w].on])
    <3>1. PICK scope \in Scopes :
            call' = [call EXCEPT ![w] =
              [@ EXCEPT !.at = "served", !.got = [of |-> home[call[w].on], v |-> version[home[call[w].on]]],
                        !.scope = IF Apart THEN scope ELSE "public"]]
      BY <2>1 DEF Serve
    <3>2. call[w].on \in Transports
      BY DEF Typed, CallsTyped, CallType, Exchanged
    <3>3. [of |-> home[call[w].on], v |-> version[home[call[w].on]]] \in Lists
      BY <3>2, BoundIsNat DEF Typed, CallsTyped, LinksTyped, Lists, Identities
    <3>4. (IF Apart THEN scope ELSE "public") \in Scopes
      BY DEF Scopes
    <3>5. call[w] \in CallType /\ call \in [Calls -> CallType]
      BY DEF Typed, CallsTyped
    <3> DEFINE list == [of |-> home[call[w].on], v |-> version[home[call[w].on]]]
               kind == IF Apart THEN scope ELSE "public"
               c == [call[w] EXCEPT !.at = "served", !.got = list, !.scope = kind]
    <3>6. call' = [call EXCEPT ![w] = c]
      BY <3>1, <3>5
    <3>7. c \in CallType
      <4> HIDE DEF list, kind
      <4> QED BY <3>3, <3>4, <3>5 DEF CallType, list, kind
    <3> HIDE DEF c
    <3> QED BY <3>5, <3>6, <3>7
  <2>2. CASE Reply(w)
    BY <2>2 DEF Reply, Typed, CallsTyped, CallType
  <2> QED BY <2>1, <2>2 DEF Exchanged
<1>2. CallsTyped'
  BY <1>1 DEF Typed, CallsTyped, Exchanged, clientVars
<1> QED BY <1>2, CallingTyped DEF Typed, StateTyped, Exchanged, clientVars

LEMMA AnsweredTyped == ASSUME Typed, NEW w \in Calls, Answered(w) PROVE Typed'
<1>1. call[w] \in CallType /\ call[w].got \in Lists /\ identity \in Identities /\ call[w].scope \in Scopes /\ <<"call", w>> \in Waiter
  BY DEF Typed, CallsTyped, CallType, StateTyped, Waiter
<1>2. CASE Write(w)
  <2>1. call' \in [Calls -> CallType]
    <3>1. [call[w] EXCEPT !.at = IF Apart THEN "writing" ELSE "done", !.id = identity] \in CallType
      BY <1>1 DEF CallType
    <3>2. [call[w] EXCEPT !.at = "done"] \in CallType
      BY <1>1 DEF CallType
    <3>3. call \in [Calls -> CallType]
      BY DEF Typed, CallsTyped
    <3>4. \/ call' = [call EXCEPT ![w] = [call[w] EXCEPT !.at = IF Apart THEN "writing" ELSE "done", !.id = identity]]
          \/ call' = [call EXCEPT ![w] = [call[w] EXCEPT !.at = "done"]]
      BY <1>2, <3>3 DEF Write
    <3> QED BY <3>1, <3>2, <3>3, <3>4
  <2>2. entries' \in [Identities \X Scopes -> Lists]
    BY <1>1, <1>2, PartitionTyped DEF Write, Typed, StateTyped
  <2>3. awaiting' \in Seq(Waiter) /\ (awaiting' # <<>> => setting'.partitioned)
    <3>1. CASE awaiting' = awaiting
      BY <3>1 DEF Typed, CallsTyped, Waiter, Answered
    <3>2. CASE Apart /\ awaiting' = Append(awaiting, <<"call", w>>)
      BY <1>1, <3>2, QueuedTyped DEF Typed, Apart, Answered
    <3> QED BY <1>2, <3>1, <3>2 DEF Write
  <2>4. CallsTyped'
    BY <2>1, <2>3 DEF Typed, CallsTyped, Waiter, Answered, clientVars
  <2> QED BY <2>2, <2>4, CallingTyped DEF Answered, clientVars
<1>3. CASE ClearOpposite(w)
  <2>1. call' \in [Calls -> CallType]
    BY <1>3 DEF ClearOpposite, Typed, CallsTyped, CallType
  <2>2. awaiting' \in Seq(Waiter) /\ (awaiting' # <<>> => setting'.partitioned)
    BY <1>3, AnswerTyped DEF Typed, ClearOpposite, Answered
  <2>3. entries' \in [Identities \X Scopes -> Lists]
    BY <1>3, DeleteTyped DEF ClearOpposite, Typed
  <2>4. CallsTyped'
    BY <2>1, <2>2 DEF Typed, CallsTyped, Waiter, Answered, clientVars
  <2> QED BY <2>3, <2>4, CallingTyped DEF Answered, clientVars
<1> QED BY <1>2, <1>3 DEF Answered

LEMMA EvictSharedTyped == ASSUME Typed, EvictShared, UNCHANGED clientVars PROVE Typed'
<1>1. PICK id \in Identities : Answer(<<"eviction", id>>) /\ Delete(Partition(id, "public"))
  BY DEF EvictShared
<1>2. awaiting' \in Seq(Waiter) /\ (awaiting' # <<>> => setting'.partitioned)
  BY <1>1, AnswerTyped DEF EvictShared, Typed
<1>3. CallsTyped'
  BY <1>2 DEF Typed, CallsTyped, Waiter, EvictShared, clientVars
<1>4. entries' \in [Identities \X Scopes -> Lists]
  BY <1>1, DeleteTyped DEF Typed
<1> QED BY <1>3, <1>4, CallingTyped DEF EvictShared, clientVars

LEMMA TypedStep == Typed /\ [Next]_vars => Typed'
<1> SUFFICES ASSUME Typed, [Next]_vars PROVE Typed'
  OBVIOUS
<1>1. ASSUME NEW t \in Transports,
             \/ Connect(t) \/ ProbeSucceeds(t) \/ ProbeFails(t) \/ Started(t) \/ StartFails(t)
             \/ Initialized(t) \/ Ready(t) \/ HandshakeFails(t) \/ Closed(t) \/ CloseSettles(t)
      PROVE  Typed'
  BY <1>1, ConnectTyped, ProbeSucceedsTyped, ProbeFailsTyped, StartedTyped, StartFailsTyped, InitializedTyped,
     ReadyTyped, HandshakeFailsTyped, ClosedTyped, CloseSettlesTyped
<1>2. CASE Close
  BY <1>2, CloseTyped
<1>3. ASSUME NEW l \in Listens, Listen(l) \/ Listening(l) PROVE Typed'
  BY <1>3, ListenTyped
<1>4. ASSUME NEW s \in Servers, Change(s) PROVE Typed'
  BY <1>4, ChangeTyped
<1>5. ASSUME NEW n \in notes, Notified(n) PROVE Typed'
  BY <1>5, NotifiedTyped
<1>6. ASSUME NEW w \in Calls, ListCall(w) \/ ProbeSharedAt(w) \/ Exchanged(w) \/ Answered(w) PROVE Typed'
  BY <1>6, ListCallTyped, ProbeSharedTyped, ExchangedTyped, AnsweredTyped
<1>7. CASE TimerFires
  BY <1>7, TimerFiresTyped
<1>8. CASE EvictShared /\ UNCHANGED clientVars
  BY <1>8, EvictSharedTyped
<1>9. CASE UNCHANGED vars
  <2>1. UNCHANGED <<cacheVars, clientVars>>
    BY <1>9 DEF vars
  <2>2. CallsTyped' /\ StateTyped' /\ LinksTyped' /\ StartsAs'
    BY <2>1 DEF Typed, CallsTyped, StateTyped, LinksTyped, StartsAs, cacheVars, clientVars
  <2>3. Counted'
    BY <2>1, CountedKept DEF Typed, StateTyped, cacheVars, clientVars
  <2> QED BY <2>2, <2>3 DEF Typed
<1> QED BY <1>1, <1>2, <1>3, <1>4, <1>5, <1>6, <1>7, <1>8, <1>9 DEF Next

LEMMA TypedAlways == Spec => []Typed
<1> QED BY TypedInit, TypedStep, PTL DEF Spec

\* Type correctness of the client and its cache.  The generation counts the
\* evictions of one connection, so it is bounded by the versions that came after
\* the first of every server (evict of responseCache.ts).
THEOREM TypeCorrect == Spec => []TypeOK
<1>1. Typed => TypeOK
  BY TypedIsTypeOK
<1> QED BY <1>1, TypedAlways, PTL
-----------------------------------------------------------------------------
(***************************************************************************)
(* One transport after another.                                            *)
(***************************************************************************)
Busy(t) == conn[t] \notin {"new", "ready", "rejected"}

Alive(t) == link[t] \in {"up", "failed", "closing"}

\* What holds however connections overlap.  The transport that is attached
\* lasts; nothing is on its way and nothing listens without it; transports are
\* connected in order, one connect() at a time.
Core ==
  /\ attached # None => Alive(attached) /\ conn[attached] \notin {"new", "probing", "failing"}
  /\ attached = None => notes = {} /\ \A l \in Listens : ~Live(l)
  /\ \A t \in Transports : conn[t] = "new" => link[t] = "down"
  /\ \A t, u \in Transports : u < t /\ conn[t] # "new" => conn[u] # "new"
  /\ \A t, u \in Transports : Busy(t) /\ Busy(u) => t = u
  /\ \A t \in Transports : Busy(t) /\ conn[t] \notin {"probing", "failing"} => attached \in {t, None}

\* The version the client has is that of the transport attached, unless that
\* one was started before the reset; so is the server it fills the cache of.
Unmixed ==
  /\ attached # None /\ negotiated \notin {attached, None} => conn[attached] \in {"starting", "rejected"}
  /\ \A t \in Transports :
       \/ conn[t] \in {"probing", "handshake", "initialized"}
       \/ conn[t] = "starting" /\ how[t] # "legacy"
       => negotiated = None
  /\ attached # None /\ conn[attached] \in {"initialized", "ready"} => identity \in {home[attached], Nobody}

Over(t) == ~Busy(t) /\ ~Alive(t) /\ t \in left /\ t \notin closers

InOrder ==
  /\ \A t, u \in Transports : u < t /\ conn[t] # "new" => conn[u] # "new" /\ Over(u)
  /\ \A t \in Transports : conn[t] = "new" => link[t] = "down"
  /\ \A t \in closers : link[t] \in {"closing", "gone"} /\ conn[t] \notin {"new", "probing"}

\* The transport that is attached lasts, and one that lasts is attached unless
\* it is still being probed.
Attached ==
  /\ attached # None => Alive(attached) /\ conn[attached] \notin {"new", "probing", "failing"}
  /\ \A t \in Transports : Alive(t) => conn[t] \in {"probing", "failing"} \/ attached = t
  /\ \A t \in Transports :
       /\ link[t] = "up" => conn[t] \notin {"failing", "broken", "rejected"}
       /\ link[t] = "failed" => conn[t] = "rejected"
       /\ link[t] = "closing" => conn[t] # "probing" /\ (conn[t] \notin {"failing", "rejected"} => t \in left)

\* While its transport lasts, a connection that was reported has the client's
\* state; with a transport that is slow to close, while it is up.
Stays(t) == link[t] = "up" \/ (Prompt /\ Alive(t))

Reported ==
  /\ \A t \in Transports : conn[t] = "initialized" /\ link[t] = "up" => identity = home[t]
  /\ \A t \in Transports : conn[t] = "ready" /\ Stays(t) => negotiated = t /\ identity = home[t]

\* A subscription that lives is one of the transport attached.
Subscribed == \A l \in Listens : Live(l) => sub[l].on # None /\ attached = sub[l].on

\* A notification on its way belongs to a connection that was reported, and the
\* refresh it asks for does not wait into the next one.
Notifying ==
  /\ notes # {} => attached # None /\ conn[attached] = "ready"
  /\ timer # None => \A t \in Transports : Busy(t) => conn[t] = "starting" /\ how[t] = "legacy"

\* Of the last connect(), when it overtook no close(): only its transport is
\* being connected, open or closing.
ConnectionInv == InOrder /\ Attached /\ Reported /\ Subscribed /\ Notifying

\* Of the transports that were connected, at most one is not over.
Engaged(t) == conn[t] # "new" /\ ~Over(t)

LEMMA OneEngaged ==
  ASSUME Typed, InOrder, NEW t \in Transports, Engaged(t), NEW u \in Transports, Engaged(u)
  PROVE  t = u
<1>1. t \in Nat /\ u \in Nat
  BY McpClientAssumption
<1>2. ~(t < u) /\ ~(u < t)
  BY DEF InOrder, Engaged
<1> QED BY <1>1, <1>2

LEMMA IsEngaged ==
  ASSUME Typed, InOrder, NEW t \in Transports, Busy(t) \/ Alive(t) \/ t \in closers PROVE Engaged(t)
BY DEF InOrder, Engaged, Over, Busy, Alive, Typed, LinksTyped

LEMMA AttachedIsEngaged ==
  ASSUME Typed, InOrder, Attached, attached # None PROVE attached \in Transports /\ Alive(attached) /\ Engaged(attached)
<1>1. attached \in Transports /\ Alive(attached)
  BY DEF Attached, Typed, LinksTyped
<1> QED BY <1>1, IsEngaged

LEMMA ConnectionInit == Init => ConnectionInv
<1> SUFFICES ASSUME Init PROVE ConnectionInv
  OBVIOUS
<1>1. InOrder /\ Attached /\ Reported
  BY DEF Init, InOrder, Attached, Reported, Alive
<1>2. Subscribed /\ Notifying
  BY DEF Init, Subscribed, Notifying, Live, Unlistened
<1> QED BY <1>1, <1>2 DEF ConnectionInv

\* A connect() that overtakes no close() finds nothing of the connections before.
LEMMA ConnectsAlone ==
  ASSUME Typed, Core, AllClosed, MayConnect
  PROVE  /\ attached = None /\ closers = {} /\ notes = {} /\ Settled = sub
         /\ \A u \in Transports : ~Busy(u) /\ ~Alive(u)
         /\ \A l \in Listens : ~Live(l)
<1>1. closers = {} /\ \A u \in Transports : ~Busy(u) /\ ~Alive(u)
  BY DEF MayConnect, AllClosed, InProgress, Busy, Alive
<1>2. attached = None
  BY <1>1 DEF Core, Typed, LinksTyped
<1>3. notes = {} /\ \A l \in Listens : ~Live(l)
  BY <1>2 DEF Core
<1>4. Settled = sub
  BY <1>3 DEF Settled, Typed, StateTyped
<1> QED BY <1>1, <1>2, <1>3, <1>4

\* The subscriptions after a reset.
LEMMA NoneSubscribed ==
  ASSUME Typed, sub' = Settled PROVE \A l \in Listens : ~Live(l)'
BY DEF Settled, Live, Typed, StateTyped

LEMMA ConnectConnection ==
  ASSUME Typed, Core, NEW t \in Transports, Connect(t), ~overlap' PROVE ConnectionInv'
<1>1. /\ attached = None /\ closers = {} /\ notes = {} /\ Settled = sub
      /\ \A u \in Transports : ~Busy(u) /\ ~Alive(u)
      /\ \A l \in Listens : ~Live(l)
  BY ConnectsAlone DEF Connect
<1>2. PICK form \in Forms :
        /\ how' = [how EXCEPT ![t] = form]
        /\ IF form \in {"legacy", "prior"}
           THEN Attach(t) /\ At(t, "starting")
           ELSE At(t, "probing") /\ UNCHANGED attached
        /\ IF form = "sibling" THEN UNCHANGED link ELSE Linked(t, "up")
        /\ IF form = "legacy" THEN NoReset ELSE Reset
  BY DEF Connect
<1>3. conn[t] = "new" /\ UNCHANGED <<home, closers, notes>> /\ left' = left \cup {u \in Transports : u < t}
  BY DEF Connect
<1>4. /\ link' \in [Transports -> {"down", "up", "failed", "closing", "gone"}]
      /\ \A u \in Transports : u # t => link'[u] = link[u] /\ conn'[u] = conn[u] /\ how'[u] = how[u]
      /\ conn'[t] = IF form \in {"legacy", "prior"} THEN "starting" ELSE "probing"
      /\ link'[t] = IF form = "sibling" THEN link[t] ELSE "up"
      /\ how'[t] = form
  BY <1>2 DEF Typed, LinksTyped, At, Linked
<1>5. InOrder'
  <2>1. \A a, u \in Transports : u < a /\ conn'[a] # "new" => conn'[u] # "new" /\ Over(u)'
    <3> SUFFICES ASSUME NEW a \in Transports, NEW u \in Transports, u < a, conn'[a] # "new"
                 PROVE  conn'[u] # "new" /\ Over(u)'
      OBVIOUS
    <3>1. a \in Nat /\ u \in Nat /\ t \in Nat
      BY McpClientAssumption
    <3>2. CASE a = t
      <4>1. conn[u] # "new" /\ u \in left' /\ u # t
        BY <1>3, <3>1, <3>2 DEF Connect
      <4> QED BY <1>1, <1>3, <1>4, <4>1 DEF Over, Busy, Alive
    <3>3. CASE a # t
      <4>1. conn[a] # "new"
        BY <1>4, <3>3
      <4>2. a < t /\ conn[u] # "new"
        BY <1>3, <3>1, <3>3, <4>1 DEF Core
      <4>3. u # t /\ u \in left'
        BY <1>3, <3>1, <4>2
      <4> QED BY <1>1, <1>3, <1>4, <4>2, <4>3 DEF Over, Busy, Alive
    <3> QED BY <3>2, <3>3
  <2>2. \A u \in Transports : conn'[u] = "new" => link'[u] = "down"
    BY <1>1, <1>3, <1>4 DEF Core
  <2> QED BY <1>1, <1>3, <2>1, <2>2 DEF InOrder
<1>6. Attached'
  BY <1>1, <1>2, <1>3, <1>4 DEF Attach, Core, Attached, Alive, Busy, Forms
<1>7. Reported'
  BY <1>1, <1>3, <1>4 DEF Reported, Stays, Alive, Busy
<1>8. Subscribed'
  <2>1. sub' = Settled
    BY <1>1, <1>2 DEF Reset, NoReset
  <2> QED BY <2>1, NoneSubscribed DEF Subscribed
<1>9. Notifying'
  <2>1. CASE form = "legacy"
    BY <1>1, <1>3, <1>4, <2>1 DEF Notifying, Busy
  <2>2. CASE form # "legacy"
    BY <1>1, <1>2, <1>3, <2>2 DEF Notifying, Reset
  <2> QED BY <2>1, <2>2
<1> QED BY <1>5, <1>6, <1>7, <1>8, <1>9 DEF ConnectionInv

\* A step of the connection that is not over, which none is begun with.
LEMMA OrderKept ==
  ASSUME Typed, InOrder, NEW t \in Transports, Engaged(t),
         \A u \in Transports : u # t => link'[u] = link[u] /\ conn'[u] = conn[u],
         conn'[t] # "new",
         left \subseteq left', closers' \subseteq closers \cup {t},
         t \in closers' => link'[t] \in {"closing", "gone"} /\ conn'[t] \notin {"new", "probing"}
  PROVE  InOrder'
<1>1. \A a, u \in Transports : u < a /\ conn'[a] # "new" => conn'[u] # "new" /\ Over(u)'
  <2> SUFFICES ASSUME NEW a \in Transports, NEW u \in Transports, u < a, conn'[a] # "new"
               PROVE  conn'[u] # "new" /\ Over(u)'
    OBVIOUS
  <2>1. conn[a] # "new"
    BY DEF Engaged
  <2>2. conn[u] # "new" /\ Over(u)
    BY <2>1 DEF InOrder
  <2>3. u # t
    BY <2>2 DEF Engaged
  <2> QED BY <2>2, <2>3 DEF Over, Busy, Alive
<1>2. \A u \in Transports : conn'[u] = "new" => link'[u] = "down"
  BY DEF InOrder
<1>3. \A u \in closers' : link'[u] \in {"closing", "gone"} /\ conn'[u] \notin {"new", "probing"}
  <2> SUFFICES ASSUME NEW u \in closers' PROVE link'[u] \in {"closing", "gone"} /\ conn'[u] \notin {"new", "probing"}
    OBVIOUS
  <2>1. u = t \/ u \in closers
    OBVIOUS
  <2> QED BY <2>1 DEF InOrder, Typed, LinksTyped
<1> QED BY <1>1, <1>2, <1>3 DEF InOrder

\* The connections before play no part.
LEMMA OthersKept ==
  ASSUME Typed, InOrder, NEW t \in Transports, Engaged(t), NEW u \in Transports, u # t
  PROVE  ~Busy(u) /\ ~Alive(u) /\ u \notin closers /\ conn[u] \in {"new", "ready", "rejected"}
<1>1. ~Engaged(u)
  BY OneEngaged
<1> QED BY <1>1, IsEngaged DEF Busy

\* While the transport is probed, nothing is attached.
LEMMA ProbingAlone ==
  ASSUME Typed, ConnectionInv, NEW t \in Transports, conn[t] \in {"probing", "failing"}
  PROVE  attached = None /\ notes = {} /\ timer = None /\ Engaged(t) /\ \A l \in Listens : ~Live(l)
<1>1. Engaged(t) /\ Busy(t)
  BY IsEngaged DEF Busy, ConnectionInv
<1>2. attached = None
  <2> SUFFICES ASSUME attached # None PROVE FALSE
    OBVIOUS
  <2>1. attached = t
    BY <1>1, AttachedIsEngaged, OneEngaged DEF ConnectionInv
  <2> QED BY <2>1 DEF ConnectionInv, Attached
<1>3. notes = {} /\ timer = None
  BY <1>1, <1>2 DEF ConnectionInv, Notifying
<1>4. \A l \in Listens : ~Live(l)
  BY <1>2 DEF ConnectionInv, Subscribed
<1> QED BY <1>1, <1>2, <1>3, <1>4

\* While connect() goes on, what is attached is its transport.
LEMMA ConnectingAlone ==
  ASSUME Typed, ConnectionInv, NEW t \in Transports, Engaged(t)
  PROVE  /\ attached \in {t, None}
         /\ \A u \in Transports : u # t => ~Busy(u) /\ ~Alive(u) /\ u \notin closers
         /\ Busy(t) => notes = {} /\ (timer # None => conn[t] = "starting" /\ how[t] = "legacy")
<1>1. attached \in {t, None}
  BY AttachedIsEngaged, OneEngaged DEF ConnectionInv
<1>2. Busy(t) => notes = {} /\ (timer # None => conn[t] = "starting" /\ how[t] = "legacy")
  BY <1>1 DEF ConnectionInv, Notifying, Busy
<1> QED BY <1>1, <1>2, OthersKept DEF ConnectionInv

\* What a step of the connection that is not over has to show of the others.
LEMMA ConnectionKept ==
  ASSUME Typed, ConnectionInv, NEW t \in Transports, Engaged(t),
         \A u \in Transports : u # t => link'[u] = link[u] /\ conn'[u] = conn[u],
         conn'[t] # "new", home' = home,
         left \subseteq left', closers' \subseteq closers \cup {t},
         t \in closers' => link'[t] \in {"closing", "gone"} /\ conn'[t] \notin {"new", "probing"},
         attached' \in {t, None},
         attached' = t => Alive(t)' /\ conn'[t] \notin {"new", "probing", "failing"},
         Alive(t)' => conn'[t] \in {"probing", "failing"} \/ attached' = t,
         link'[t] = "up" => conn'[t] \notin {"failing", "broken", "rejected"},
         link'[t] = "failed" => conn'[t] = "rejected",
         link'[t] = "closing" => conn'[t] # "probing" /\ (conn'[t] \notin {"failing", "rejected"} => t \in left'),
         conn'[t] = "initialized" /\ link'[t] = "up" => identity' = home[t],
         conn'[t] = "ready" /\ Stays(t)' => negotiated' = t /\ identity' = home[t],
         sub' = Settled \/ (sub' = sub /\ attached' = attached) \/ (sub' = sub /\ attached = None),
         notes' = {} \/ (notes' = notes /\ attached' = attached /\ conn'[t] = conn[t]),
         timer' # None => timer # None /\ ((conn'[t] = conn[t] /\ UNCHANGED how) \/ ~Busy(t)')
  PROVE  ConnectionInv'
<1>1. \A u \in Transports : u # t => ~Busy(u) /\ ~Alive(u) /\ ~Busy(u)' /\ ~Alive(u)' /\ conn'[u] = conn[u] /\ link'[u] = link[u]
  BY ConnectingAlone DEF Busy, Alive
<1>2. InOrder'
  BY OrderKept DEF ConnectionInv
<1>3. Attached'
  <2>1. attached' # None => Alive(attached)' /\ conn'[attached'] \notin {"new", "probing", "failing"}
    BY DEF Alive
  <2>2. \A u \in Transports : Alive(u)' => conn'[u] \in {"probing", "failing"} \/ attached' = u
    BY <1>1
  <2>3. ASSUME NEW u \in Transports
        PROVE  /\ link'[u] = "up" => conn'[u] \notin {"failing", "broken", "rejected"}
               /\ link'[u] = "failed" => conn'[u] = "rejected"
               /\ link'[u] = "closing" => conn'[u] # "probing" /\ (conn'[u] \notin {"failing", "rejected"} => u \in left')
    BY <1>1 DEF Alive
  <2> QED BY <2>1, <2>2, <2>3 DEF Attached
<1>4. Reported'
  <2>1. \A u \in Transports : conn'[u] = "initialized" /\ link'[u] = "up" => identity' = home'[u]
    BY <1>1 DEF Busy
  <2>2. \A u \in Transports : conn'[u] = "ready" /\ Stays(u)' => negotiated' = u /\ identity' = home'[u]
    BY <1>1 DEF Stays, Alive
  <2> QED BY <2>1, <2>2 DEF Reported
<1>5. Subscribed'
  <2>1. CASE sub' = Settled
    BY <2>1, NoneSubscribed DEF Subscribed
  <2>2. CASE sub' = sub /\ attached' = attached
    BY <2>2 DEF ConnectionInv, Subscribed, Live
  <2>3. CASE sub' = sub /\ attached = None
    BY <2>3 DEF ConnectionInv, Subscribed, Live
  <2> QED BY <2>1, <2>2, <2>3
<1>6. Notifying'
  <2>1. notes' # {} => attached' # None /\ conn'[attached'] = "ready"
    BY DEF ConnectionInv, Notifying
  <2>2. \A u \in Transports : timer' # None /\ Busy(u)' => conn'[u] = "starting" /\ how'[u] = "legacy"
    BY <1>1 DEF ConnectionInv, Notifying, Busy
  <2> QED BY <2>1, <2>2 DEF Notifying
<1> QED BY <1>2, <1>3, <1>4, <1>5, <1>6 DEF ConnectionInv

LEMMA ProbeSucceedsConnection ==
  ASSUME Typed, ConnectionInv, NEW t \in Transports, ProbeSucceeds(t) PROVE ConnectionInv'
<1>1. attached = None /\ notes = {} /\ timer = None /\ Engaged(t)
  BY ProbingAlone DEF ProbeSucceeds
<1>2. PICK era \in {"modern", "legacy"} :
       \/ /\ how[t] = "sibling"
          /\ At(t, "starting") /\ Linked(t, "up")
          /\ how' = [how EXCEPT ![t] = IF era = "modern" THEN "prior" ELSE "probed"]
          /\ NoReset
       \/ /\ how[t] = "inplace" /\ UNCHANGED <<how, link>>
          /\ IF era = "modern" THEN At(t, "ready") /\ Establish(t, era) ELSE At(t, "handshake") /\ NoReset
  BY DEF ProbeSucceeds
<1>3. conn[t] = "probing" /\ (how[t] = "inplace" => link[t] = "up") /\ attached' = t /\ UNCHANGED <<home, closers, left, notes>>
  BY DEF ProbeSucceeds, Attach
<1>4. \A u \in Transports : u # t => link'[u] = link[u] /\ conn'[u] = conn[u]
  BY <1>2 DEF At, Linked, Typed, LinksTyped
<1>5. link'[t] = "up" /\ conn'[t] \in {"starting", "handshake", "ready"}
  BY <1>2, <1>3 DEF At, Linked, Typed, LinksTyped
<1>6. conn'[t] = "ready" => negotiated' = t /\ identity' = home[t]
  BY <1>2 DEF At, Typed, LinksTyped, Establish
<1>7. sub' = sub /\ timer' = timer
  BY <1>2 DEF NoReset, Establish
<1>8. t \notin closers
  BY <1>3 DEF ConnectionInv, InOrder
<1> QED BY <1>1, <1>3, <1>4, <1>5, <1>6, <1>7, <1>8, ConnectionKept DEF Alive, Stays

LEMMA ProbeFailsConnection ==
  ASSUME Typed, ConnectionInv, NEW t \in Transports, ProbeFails(t) PROVE ConnectionInv'
<1>1. attached = None /\ notes = {} /\ timer = None /\ Engaged(t)
  BY ProbingAlone DEF ProbeFails
<1>2. /\ conn[t] = "probing" /\ t \notin closers
      /\ UNCHANGED <<home, attached, negotiated, closers, left, sub, notes, timer>>
  BY DEF ProbeFails, ConnectionInv, InOrder
<1>3. \A u \in Transports : u # t => link'[u] = link[u] /\ conn'[u] = conn[u]
  BY DEF ProbeFails, At, Linked, Typed, LinksTyped
<1>4. \/ conn'[t] = "failing" /\ link'[t] = "closing"
      \/ conn'[t] = "rejected" /\ link'[t] = link[t] /\ link[t] # "up"
  BY DEF ProbeFails, At, Linked, Typed, LinksTyped
<1>5. link[t] # "failed" /\ link[t] # "closing"
  BY <1>2 DEF ConnectionInv, Attached
<1>6. conn'[t] = "rejected" => ~Alive(t)'
  BY <1>4, <1>5 DEF Alive
<1>7. t # None /\ ~(conn'[t] = "rejected" /\ Busy(t)')
  BY McpClientAssumption DEF None, Busy
<1> QED BY <1>1, <1>2, <1>3, <1>4, <1>5, <1>6, <1>7, ConnectionKept DEF Alive, Stays

LEMMA StartedConnection ==
  ASSUME Typed, ConnectionInv, NEW t \in Transports, Started(t) PROVE ConnectionInv'
<1>1. Busy(t) /\ Engaged(t) /\ conn[t] = "starting" /\ how[t] \in {"legacy", "prior", "probed"}
  BY IsEngaged DEF Busy, Started, ConnectionInv, Typed, StartsAs
<1>2. attached \in {t, None} /\ notes = {} /\ (timer # None => how[t] = "legacy")
  BY <1>1, ConnectingAlone
<1>3. UNCHANGED <<home, link, how, attached, closers, left, notes>>
  BY DEF Started
<1>4. \/ how[t] = "legacy" /\ At(t, "handshake") /\ Reset
      \/ how[t] = "probed" /\ At(t, "handshake") /\ NoReset
      \/ how[t] = "prior" /\ At(t, "ready") /\ Establish(t, "modern")
  BY <1>1 DEF Started
<1>5. \A u \in Transports : u # t => conn'[u] = conn[u]
  BY <1>4 DEF At, Typed, LinksTyped
<1>6. conn'[t] \in {"handshake", "ready"} /\ (conn'[t] = "ready" => negotiated' = t /\ identity' = home[t])
  BY <1>4 DEF At, Typed, LinksTyped, Establish
<1>7. (sub' = Settled \/ sub' = sub) /\ timer' = None
  BY <1>2, <1>4 DEF Reset, NoReset, Establish
<1>8. t \in closers => link[t] \in {"closing", "gone"}
  BY DEF ConnectionInv, InOrder
<1>9. /\ attached = t => Alive(t)
      /\ Alive(t) => attached = t
      /\ link[t] # "failed" /\ (link[t] = "closing" => t \in left)
  BY <1>1, McpClientAssumption DEF ConnectionInv, Attached, None
<1> QED BY <1>1, <1>2, <1>3, <1>5, <1>6, <1>7, <1>8, <1>9, ConnectionKept DEF Alive, Stays

LEMMA StartFailsConnection ==
  ASSUME Typed, ConnectionInv, NEW t \in Transports, StartFails(t) PROVE ConnectionInv'
<1>1. Busy(t) /\ Engaged(t) /\ conn[t] = "starting"
  BY IsEngaged DEF Busy, StartFails, ConnectionInv
<1>2. attached \in {t, None} /\ notes = {}
  BY <1>1, ConnectingAlone
<1>3. UNCHANGED <<home, how, attached, closers, sub, notes, timer>> /\ left' = left \cup {t}
  BY DEF StartFails
<1>4. /\ \A u \in Transports : u # t => conn'[u] = conn[u] /\ link'[u] = link[u]
      /\ conn'[t] = "rejected"
      /\ link'[t] = IF link[t] = "up" THEN "failed" ELSE link[t]
  BY DEF StartFails, At, Linked, Typed, LinksTyped
<1>5. t \in closers => link[t] \in {"closing", "gone"}
  BY DEF ConnectionInv, InOrder
<1>6. /\ attached = t <=> Alive(t)
  BY <1>1, McpClientAssumption DEF ConnectionInv, Attached, None
<1>7. ~Busy(t)'
  BY <1>4 DEF Busy
<1> QED BY <1>1, <1>2, <1>3, <1>4, <1>5, <1>6, <1>7, ConnectionKept DEF Alive, Stays

LEMMA InitializedConnection ==
  ASSUME Typed, ConnectionInv, NEW t \in Transports, Initialized(t) PROVE ConnectionInv'
<1>1. Busy(t) /\ Engaged(t) /\ conn[t] = "handshake" /\ link[t] = "up" /\ attached = t
  <2>1. conn[t] = "handshake" /\ Wire = t /\ t # None
    BY McpClientAssumption DEF Initialized, None
  <2>2. link[t] = "up" /\ attached = t
    BY <2>1 DEF Wire
  <2> QED BY <2>1, <2>2, IsEngaged DEF Busy, ConnectionInv
<1>2. notes = {} /\ timer = None
  BY <1>1, ConnectingAlone
<1>3. UNCHANGED <<home, link, how, attached, negotiated, closers, left, sub, notes, timer>> /\ identity' = home[t]
  BY DEF Initialized
<1>4. conn'[t] = "initialized" /\ \A u \in Transports : u # t => conn'[u] = conn[u]
  BY DEF Initialized, At, Typed, LinksTyped
<1>5. t \notin closers
  BY <1>1 DEF ConnectionInv, InOrder
<1> QED BY <1>1, <1>2, <1>3, <1>4, <1>5, ConnectionKept DEF Alive, Stays

LEMMA ReadyConnection ==
  ASSUME Typed, ConnectionInv, NEW t \in Transports, Ready(t) PROVE ConnectionInv'
<1>1. Busy(t) /\ Engaged(t) /\ conn[t] = "initialized" /\ link[t] = "up" /\ attached = t
  <2>1. conn[t] = "initialized" /\ Wire = t /\ t # None
    BY McpClientAssumption DEF Ready, None
  <2>2. link[t] = "up" /\ attached = t
    BY <2>1 DEF Wire
  <2> QED BY <2>1, <2>2, IsEngaged DEF Busy, ConnectionInv
<1>2. notes = {} /\ timer = None
  BY <1>1, ConnectingAlone
<1>3. UNCHANGED <<identity, home, link, how, attached, closers, left, sub, notes, timer>> /\ negotiated' = t
  BY DEF Ready, cacheVars
<1>4. conn'[t] = "ready" /\ \A u \in Transports : u # t => conn'[u] = conn[u]
  BY DEF Ready, At, Typed, LinksTyped
<1>5. t \notin closers
  BY <1>1 DEF ConnectionInv, InOrder
<1>6. identity' = home[t]
  BY <1>1, <1>3 DEF ConnectionInv, Reported
<1> QED BY <1>1, <1>2, <1>3, <1>4, <1>5, <1>6, ConnectionKept DEF Alive, Stays

\* What close() does to the connection that is not over.
LEMMA CloseCallEffect ==
  ASSUME Typed, ConnectionInv, NEW t \in Transports, Engaged(t), CloseCall
  PROVE  \/ /\ attached = t /\ link[t] \in {"up", "failed"} /\ closers' = closers \cup {t} /\ link'[t] = "closing" /\ NoReset
            /\ \A u \in Transports : u # t => link'[u] = link[u]
         \/ /\ Reset /\ UNCHANGED <<closers, link>>
            /\ link[t] \in {"up", "failed"} => conn[t] \in {"probing", "failing"}
<1>1. CASE attached = t /\ link[t] \in {"up", "failed"}
  BY <1>1, McpClientAssumption DEF CloseCall, Linked, Typed, LinksTyped, None
<1>2. CASE ~(attached = t /\ link[t] \in {"up", "failed"})
  <2>1. attached \in {t, None}
    BY ConnectingAlone
  <2>2. Reset /\ UNCHANGED <<closers, link>>
    BY <1>2, <2>1 DEF CloseCall
  <2>3. link[t] \in {"up", "failed"} => conn[t] \in {"probing", "failing"}
    BY <1>2 DEF ConnectionInv, Attached, Alive
  <2> QED BY <2>2, <2>3
<1> QED BY <1>1, <1>2

LEMMA HandshakeFailsConnection ==
  ASSUME Typed, ConnectionInv, NEW t \in Transports, HandshakeFails(t) PROVE ConnectionInv'
<1>1. Busy(t) /\ Engaged(t) /\ conn[t] \in {"handshake", "initialized", "broken"}
  BY IsEngaged DEF Busy, HandshakeFails, ConnectionInv
<1>2. attached \in {t, None} /\ notes = {} /\ timer = None
  BY <1>1, ConnectingAlone
<1>3. UNCHANGED <<home, how, attached, notes>> /\ left' = left \cup {t}
  BY DEF HandshakeFails
<1>4. conn'[t] = "rejected" /\ \A u \in Transports : u # t => conn'[u] = conn[u]
  BY DEF HandshakeFails, At, Typed, LinksTyped
<1>5. t \in closers => link[t] \in {"closing", "gone"}
  BY DEF ConnectionInv, InOrder
<1>6. (attached = t <=> Alive(t)) /\ link[t] # "failed"
  BY <1>1, McpClientAssumption DEF ConnectionInv, Attached, None
<1>7. CASE /\ attached = t /\ link[t] \in {"up", "failed"} /\ closers' = closers \cup {t} /\ link'[t] = "closing" /\ NoReset
           /\ \A u \in Transports : u # t => link'[u] = link[u]
  <2>1. sub' = sub /\ timer' = timer
    BY <1>7 DEF NoReset
  <2> QED BY <1>1, <1>2, <1>3, <1>4, <1>5, <1>6, <1>7, <2>1, ConnectionKept DEF Alive, Stays
<1>8. CASE Reset /\ UNCHANGED <<closers, link>> /\ (link[t] \in {"up", "failed"} => conn[t] \in {"probing", "failing"})
  <2>1. sub' = Settled /\ timer' = None
    BY <1>8 DEF Reset
  <2>2. link[t] # "up"
    BY <1>1, <1>8
  <2> QED BY <1>1, <1>2, <1>3, <1>4, <1>5, <1>6, <1>8, <2>1, <2>2, ConnectionKept DEF Alive, Stays
<1> QED BY <1>1, <1>7, <1>8, CloseCallEffect DEF HandshakeFails

\* close() is called for a connection that is not over, once.
LEMMA ClosesOnce ==
  ASSUME Typed, ConnectionInv, Close
  PROVE  \E t \in Transports : Engaged(t) /\ left' = left \cup {t} /\ conn[t] # "rejected" /\ (t \in left => Wire = t)
<1>1. PICK t \in Transports : conn[t] \notin {"new", "rejected"} /\ (t \in left => Wire = t) /\ left' = left \cup {t}
  BY DEF Close
<1>2. Engaged(t)
  <2>1. CASE t \notin left
    BY <1>1, <2>1 DEF Engaged, Over
  <2>2. CASE Wire = t
    <3>1. link[t] = "up"
      BY <2>2, McpClientAssumption DEF Wire, None
    <3> QED BY <3>1, IsEngaged DEF Alive, ConnectionInv
  <2> QED BY <1>1, <2>1, <2>2
<1> QED BY <1>1, <1>2

LEMMA CloseConnection == ASSUME Typed, ConnectionInv, Close PROVE ConnectionInv'
<1>1. PICK t \in Transports : Engaged(t) /\ left' = left \cup {t} /\ conn[t] # "rejected" /\ (t \in left => Wire = t)
  BY ClosesOnce
<1>2. attached \in {t, None} /\ conn[t] # "new"
  BY <1>1, ConnectingAlone DEF Engaged
<1>3. UNCHANGED <<home, conn, how, attached, notes>>
  BY DEF Close
<1>4. t \in closers => link[t] \in {"closing", "gone"} /\ conn[t] \notin {"new", "probing"}
  BY DEF ConnectionInv, InOrder
<1>5. /\ attached = t => Alive(t) /\ conn[t] \notin {"new", "probing", "failing"}
      /\ Alive(t) => conn[t] \in {"probing", "failing"} \/ attached = t
      /\ link[t] # "failed"
      /\ link[t] = "up" => conn[t] \notin {"failing", "broken", "rejected"}
      /\ link[t] = "closing" => conn[t] # "probing" /\ (conn[t] \notin {"failing", "rejected"} => t \in left)
  BY <1>1, McpClientAssumption DEF ConnectionInv, Attached, None
<1>6. /\ conn[t] = "initialized" /\ link[t] = "up" => identity = home[t]
      /\ conn[t] = "ready" /\ Stays(t) => negotiated = t /\ identity = home[t]
  BY DEF ConnectionInv, Reported
<1>7. CASE /\ attached = t /\ link[t] \in {"up", "failed"} /\ closers' = closers \cup {t} /\ link'[t] = "closing" /\ NoReset
           /\ \A u \in Transports : u # t => link'[u] = link[u]
  <2>1. sub' = sub /\ timer' = timer /\ negotiated' = negotiated /\ identity' = identity
    BY <1>7 DEF NoReset
  <2> QED BY <1>1, <1>2, <1>3, <1>4, <1>5, <1>6, <1>7, <2>1, ConnectionKept DEF Alive, Stays
<1>8. CASE Reset /\ UNCHANGED <<closers, link>> /\ (link[t] \in {"up", "failed"} => conn[t] \in {"probing", "failing"})
  <2>1. sub' = Settled /\ timer' = None
    BY <1>8 DEF Reset
  <2>2. conn[t] = "initialized" => link[t] # "up"
    BY <1>8
  <2>3. conn[t] = "ready" => ~Alive(t)
    <3> SUFFICES ASSUME conn[t] = "ready", Alive(t) PROVE FALSE
      OBVIOUS
    <3>1. link[t] = "closing"
      BY <1>8 DEF Alive
    <3>2. t \in left
      BY <1>5, <3>1
    <3>3. Wire = t
      BY <1>1, <3>2
    <3> QED BY <3>1, <3>3, McpClientAssumption DEF Wire, None
  <2> QED BY <1>1, <1>2, <1>3, <1>4, <1>5, <1>8, <2>1, <2>2, <2>3, ConnectionKept DEF Alive, Stays
<1> QED BY <1>1, <1>7, <1>8, CloseCallEffect DEF Close

LEMMA ClosedConnection ==
  ASSUME Typed, ConnectionInv, NEW t \in Transports, Closed(t) PROVE ConnectionInv'
<1>1. Alive(t) /\ Engaged(t) /\ conn[t] # "new"
  BY IsEngaged DEF Alive, Closed, ConnectionInv, Engaged
<1>2. /\ attached \in {t, None}
      /\ \A u \in Transports : u # t => ~Busy(u) /\ ~Alive(u) /\ u \notin closers
      /\ Busy(t) => (timer # None => conn[t] = "starting" /\ how[t] = "legacy")
  BY <1>1, ConnectingAlone
<1>3. UNCHANGED <<identity, home, how, negotiated, closers, left, timer>> /\ notes' = {}
  BY DEF Closed
<1>4. link'[t] = "gone" /\ \A u \in Transports : u # t => link'[u] = link[u]
  BY DEF Closed, Linked, Typed, LinksTyped
<1>5. t \in closers => conn[t] \notin {"new", "probing"}
  BY DEF ConnectionInv, InOrder
<1>6. CASE conn[t] \in {"probing", "failing"}
  <2>1. conn'[t] = "rejected" /\ \A u \in Transports : u # t => conn'[u] = conn[u]
    BY <1>6 DEF Closed, At, Typed, LinksTyped
  <2>2. UNCHANGED <<sub, attached>> /\ attached = None
    BY <1>6, ProbingAlone DEF Closed
  <2>3. t # None /\ ~Busy(t)'
    BY <2>1, McpClientAssumption DEF Busy, None
  <2> QED BY <1>1, <1>2, <1>3, <1>4, <1>5, <2>1, <2>2, <2>3, ConnectionKept DEF Alive, Stays
<1>7. CASE conn[t] \notin {"probing", "failing"}
  <2>1. OnClose
    BY <1>7 DEF Closed
  <2>2. attached' = None /\ sub' = Settled
    BY <2>1 DEF OnClose, LostSubs
  <2>3. \A u \in Transports : u # t => conn'[u] = conn[u]
    BY <1>2, <2>1 DEF OnClose, Busy, Typed, LinksTyped
  <2>4. conn'[t] = IF conn[t] \in {"handshake", "initialized"} THEN "broken" ELSE conn[t]
    BY <2>1 DEF OnClose
  <2>5. timer' # None => timer # None /\ ((conn'[t] = conn[t] /\ UNCHANGED how) \/ ~Busy(t)')
    BY <1>2, <1>3, <2>4 DEF Busy
  <2>6. conn'[t] \notin {"new", "probing", "failing"} /\ t # None
    BY <1>1, <1>7, <2>4, McpClientAssumption DEF None
  <2> QED BY <1>1, <1>3, <1>4, <2>2, <2>3, <2>5, <2>6, ConnectionKept DEF Alive, Stays
<1> QED BY <1>6, <1>7

LEMMA CloseSettlesConnection ==
  ASSUME Typed, ConnectionInv, NEW t \in Transports, CloseSettles(t) PROVE ConnectionInv'
<1>1. /\ t \in closers /\ link[t] \in {"closing", "gone"} /\ conn[t] \notin {"new", "probing"}
      /\ closers' = closers \ {t} /\ Reset
  BY DEF CloseSettles, ConnectionInv, InOrder
<1>2. UNCHANGED <<home, link, conn, how, attached, left, notes>>
  BY DEF CloseSettles
<1>3. Engaged(t)
  BY <1>1, IsEngaged DEF ConnectionInv
<1>4. attached \in {t, None}
  BY <1>3, ConnectingAlone
<1>5. sub' = Settled /\ timer' = None
  BY <1>1 DEF Reset
<1>6. ~Stays(t)'
  BY <1>2, <1>1 DEF CloseSettles, Stays, Alive, Prompt
<1>7. /\ attached = t => Alive(t) /\ conn[t] \notin {"new", "probing", "failing"}
      /\ Alive(t) => conn[t] \in {"probing", "failing"} \/ attached = t
      /\ link[t] = "closing" => conn[t] # "probing" /\ (conn[t] \notin {"failing", "rejected"} => t \in left)
  BY McpClientAssumption DEF ConnectionInv, Attached, None
<1> QED BY <1>1, <1>2, <1>3, <1>4, <1>5, <1>6, <1>7, ConnectionKept DEF Alive

\* A step of a subscription, a list or a call.
LEMMA ConnectionUntouched ==
  ASSUME ConnectionInv, UNCHANGED <<setting, home, link, conn, how, attached, negotiated, closers, left, identity>>,
         Subscribed', Notifying'
  PROVE  ConnectionInv'
<1>1. InOrder'
  BY DEF ConnectionInv, InOrder, Over, Busy, Alive
<1>2. Attached'
  BY DEF ConnectionInv, Attached, Alive
<1>3. Reported'
  BY DEF ConnectionInv, Reported, Stays, Alive, Prompt
<1> QED BY <1>1, <1>2, <1>3 DEF ConnectionInv

\* Every step but a connect() keeps what the last one came to hold.
LEMMA ConnectionStep == Typed /\ ConnectionInv /\ (\A t \in Transports : ~Connect(t)) /\ [Next]_vars => ConnectionInv'
<1> SUFFICES ASSUME Typed, ConnectionInv, \A t \in Transports : ~Connect(t), [Next]_vars PROVE ConnectionInv'
  OBVIOUS
<1>1. ASSUME NEW t \in Transports,
             \/ ProbeSucceeds(t) \/ ProbeFails(t) \/ Started(t) \/ StartFails(t)
             \/ Initialized(t) \/ Ready(t) \/ HandshakeFails(t) \/ Closed(t) \/ CloseSettles(t)
      PROVE  ConnectionInv'
  BY <1>1, ProbeSucceedsConnection, ProbeFailsConnection, StartedConnection, StartFailsConnection,
     InitializedConnection, ReadyConnection, HandshakeFailsConnection, ClosedConnection, CloseSettlesConnection
<1>2. CASE Close
  BY <1>2, CloseConnection
<1>3. ASSUME NEW l \in Listens, Listen(l) \/ Listening(l) PROVE ConnectionInv'
  <2>1. UNCHANGED <<cacheVars, home, link, conn, how, attached, negotiated, modern, closers, left, overlap, notes, told, timer>>
    BY <1>3 DEF Listen, Listening
  <2>2. Subscribed'
    <3>1. CASE Listen(l)
      BY <2>1, <3>1 DEF Listen, ConnectionInv, Subscribed, Live, Typed, StateTyped
    <3>2. CASE Listening(l)
      BY <2>1, <3>2 DEF Listening, ConnectionInv, Subscribed, Live, Typed, StateTyped
    <3> QED BY <1>3, <3>1, <3>2
  <2>3. Notifying'
    BY <2>1 DEF ConnectionInv, Notifying, Busy
  <2> QED BY <2>1, <2>2, <2>3, ConnectionUntouched DEF cacheVars
<1>4. ASSUME NEW s \in Servers, Change(s) PROVE ConnectionInv'
  <2>1. UNCHANGED <<setting, identity, home, link, conn, how, attached, negotiated, closers, left, sub, timer>>
    BY <1>4 DEF Change
  <2>2. notes' # {} => attached # None /\ conn[attached] = "ready"
    <3>1. CASE \E t \in Transports : home[t] = s /\ Hears(t)
      <4>1. PICK t \in Transports : Wire = t /\ conn[t] = "ready" /\ t # None
        BY <3>1, McpClientAssumption DEF Hears, None
      <4> QED BY <4>1 DEF Wire
    <3>2. CASE notes' = notes
      BY <3>2 DEF ConnectionInv, Notifying
    <3> QED BY <1>4, <3>1, <3>2 DEF Change
  <2>3. Subscribed' /\ Notifying'
    BY <2>1, <2>2 DEF ConnectionInv, Subscribed, Live, Notifying, Busy
  <2> QED BY <2>1, <2>3, ConnectionUntouched
<1>5. ASSUME NEW n \in notes, Notified(n) PROVE ConnectionInv'
  <2>1. UNCHANGED <<setting, identity, home, link, conn, how, attached, negotiated, closers, left, sub>> /\ notes' \subseteq notes
    BY <1>5 DEF Notified
  <2>2. attached \in Transports /\ conn[attached] = "ready" /\ Engaged(attached)
    BY <1>5, AttachedIsEngaged DEF ConnectionInv, Notifying
  <2>3. \A t \in Transports : ~Busy(t)
    BY <2>2, ConnectingAlone DEF Busy
  <2>4. Subscribed' /\ Notifying'
    BY <2>1, <2>2, <2>3 DEF ConnectionInv, Subscribed, Live, Notifying, Busy
  <2> QED BY <2>1, <2>4, ConnectionUntouched
<1>6. ASSUME timer' \in {timer, None},
             UNCHANGED <<setting, identity, home, link, conn, how, attached, negotiated, closers, left, sub, notes>>
      PROVE  ConnectionInv'
  <2>1. Subscribed' /\ Notifying'
    BY <1>6 DEF ConnectionInv, Subscribed, Live, Notifying, Busy
  <2> QED BY <1>6, <2>1, ConnectionUntouched
<1>7. ASSUME NEW w \in Calls, ListCall(w) \/ ProbeSharedAt(w) \/ Exchanged(w) \/ Answered(w) PROVE ConnectionInv'
  <2>1. UNCHANGED <<setting, identity, clientVars>>
    BY <1>7 DEF ListCall, ProbeSharedAt, Exchanged, Answered
  <2> QED BY <1>6, <2>1 DEF clientVars
<1>8. CASE TimerFires
  BY <1>6, <1>8 DEF TimerFires
<1>9. CASE EvictShared /\ UNCHANGED clientVars
  BY <1>6, <1>9 DEF EvictShared, clientVars
<1>10. CASE UNCHANGED vars
  BY <1>6, <1>10 DEF vars, cacheVars, clientVars
<1> QED BY <1>1, <1>2, <1>3, <1>4, <1>5, <1>7, <1>8, <1>9, <1>10 DEF Next

-----------------------------------------------------------------------------
(***************************************************************************)
(* However connections overlap.                                            *)
(***************************************************************************)
\* What a step of one transport has to show.
LEMMA CoreKept ==
  ASSUME Typed, Core, NEW t \in Transports,
         \A u \in Transports : u # t => link'[u] = link[u] /\ conn'[u] = conn[u],
         conn'[t] # "new",
         conn[t] = "new" => \A u \in Transports : u < t => conn[u] # "new",
         attached' \in {attached, t, None},
         attached' = t => Alive(t)' /\ conn'[t] \notin {"new", "probing", "failing"},
         attached' = None => notes' = {} /\ \A l \in Listens : ~Live(l)',
         Busy(t)' => \A u \in Transports : u # t => ~Busy(u),
         Busy(t)' /\ conn'[t] \notin {"probing", "failing"} => attached' \in {t, None},
         \A u \in Transports : u # t /\ Busy(u) => attached' \in {attached, None}
  PROVE  Core'
<1>1. attached' # None => Alive(attached)' /\ conn'[attached'] \notin {"new", "probing", "failing"}
  <2>1. CASE attached' = t
    BY <2>1
  <2>2. CASE attached' # t /\ attached' # None
    <3>1. attached' = attached /\ attached \in Transports
      BY <2>2 DEF Typed, LinksTyped
    <3> QED BY <2>2, <3>1 DEF Core, Alive
  <2> QED BY <2>1, <2>2
<1>2. \A u \in Transports : conn'[u] = "new" => link'[u] = "down"
  BY DEF Core
<1>3. \A a, u \in Transports : u < a /\ conn'[a] # "new" => conn'[u] # "new"
  <2> SUFFICES ASSUME NEW a \in Transports, NEW u \in Transports, u < a, conn'[a] # "new", u # t PROVE conn[u] # "new"
    OBVIOUS
  <2>1. CASE a = t /\ conn[t] = "new"
    BY <2>1
  <2>2. CASE ~(a = t /\ conn[t] = "new")
    BY <2>2 DEF Core
  <2> QED BY <2>1, <2>2
<1>4. \A a, u \in Transports : Busy(a)' /\ Busy(u)' => a = u
  <2>1. \A u \in Transports : u # t => (Busy(u)' <=> Busy(u))
    BY DEF Busy
  <2> QED BY <2>1 DEF Core
<1>5. \A u \in Transports : Busy(u)' /\ conn'[u] \notin {"probing", "failing"} => attached' \in {u, None}
  <2> SUFFICES ASSUME NEW u \in Transports, u # t, Busy(u), conn[u] \notin {"probing", "failing"} PROVE attached' \in {u, None}
    BY DEF Busy
  <2> QED BY DEF Core
<1> QED BY <1>1, <1>2, <1>3, <1>4, <1>5 DEF Core

LEMMA UnmixedKept ==
  ASSUME Typed, Unmixed, NEW t \in Transports,
         \A u \in Transports : u # t => conn'[u] = conn[u] /\ how'[u] = how[u],
         home' = home, attached' \in {attached, t, None},
         attached' = t /\ negotiated' \notin {t, None} => conn'[t] \in {"starting", "rejected"},
         conn'[t] \in {"probing", "handshake", "initialized"} => negotiated' = None,
         conn'[t] = "starting" /\ how'[t] # "legacy" => negotiated' = None,
         attached' = t /\ conn'[t] \in {"initialized", "ready"} => identity' \in {home[t], Nobody},
         negotiated' \in {negotiated, None} \/ ((\A u \in Transports : u # t => ~Busy(u)) /\ attached' \in {t, None}),
         identity' \in {identity, Nobody} \/ attached' \in {t, None}
  PROVE  Unmixed'
<1>1. attached' # None /\ negotiated' \notin {attached', None} => conn'[attached'] \in {"starting", "rejected"}
  <2>1. CASE attached' = t
    BY <2>1
  <2>2. CASE attached' = attached /\ attached # t /\ attached # None
    <3>1. attached \in Transports /\ negotiated' \in {negotiated, None}
      BY <2>2 DEF Typed, LinksTyped
    <3> QED BY <2>2, <3>1 DEF Unmixed
  <2> QED BY <2>1, <2>2
<1>2. \A u \in Transports :
        conn'[u] \in {"probing", "handshake", "initialized"} \/ (conn'[u] = "starting" /\ how'[u] # "legacy") => negotiated' = None
  <2> SUFFICES ASSUME NEW u \in Transports, u # t,
                      conn[u] \in {"probing", "handshake", "initialized"} \/ (conn[u] = "starting" /\ how[u] # "legacy")
               PROVE  negotiated' = None
    OBVIOUS
  <2>1. negotiated = None /\ Busy(u)
    BY DEF Unmixed, Busy
  <2> QED BY <2>1
<1>3. attached' # None /\ conn'[attached'] \in {"initialized", "ready"} => identity' \in {home'[attached'], Nobody}
  <2>1. CASE attached' = t
    BY <2>1
  <2>2. CASE attached' = attached /\ attached # t /\ attached # None
    <3>1. attached \in Transports /\ identity' \in {identity, Nobody}
      BY <2>2 DEF Typed, LinksTyped
    <3> QED BY <2>2, <3>1 DEF Unmixed
  <2> QED BY <2>1, <2>2
<1> QED BY <1>1, <1>2, <1>3 DEF Unmixed

Background == Core /\ Unmixed

LEMMA BackgroundInit == Init => Background
<1> SUFFICES ASSUME Init PROVE Background
  OBVIOUS
<1>1. Core
  BY DEF Init, Core, Live, Unlistened, Busy
<1>2. Unmixed
  BY DEF Init, Unmixed
<1> QED BY <1>1, <1>2 DEF Background

\* The subscriptions and notifications after a step that leaves nothing attached.
LEMMA NothingHeard ==
  ASSUME Typed, Core, sub' \in {sub, Settled}, attached' = None => attached = None /\ notes' = notes
  PROVE  attached' = None => notes' = {} /\ \A l \in Listens : ~Live(l)'
<1> SUFFICES ASSUME attached' = None PROVE notes' = {} /\ \A l \in Listens : ~Live(l)'
  OBVIOUS
<1>1. notes' = {} /\ \A l \in Listens : ~Live(l)
  BY DEF Core
<1>2. CASE sub' = sub
  BY <1>1, <1>2 DEF Live
<1>3. CASE sub' = Settled
  BY <1>1, <1>3, NoneSubscribed
<1> QED BY <1>1, <1>2, <1>3

LEMMA ConnectBackground == ASSUME Typed, Background, NEW t \in Transports, Connect(t) PROVE Background'
<1>1. PICK form \in Forms :
        /\ how' = [how EXCEPT ![t] = form]
        /\ IF form \in {"legacy", "prior"}
           THEN Attach(t) /\ At(t, "starting")
           ELSE At(t, "probing") /\ UNCHANGED attached
        /\ IF form = "sibling" THEN UNCHANGED link ELSE Linked(t, "up")
        /\ IF form = "legacy" THEN NoReset ELSE Reset
  BY DEF Connect
<1>2. /\ conn[t] = "new" /\ (\A u \in Transports : u < t => conn[u] # "new") /\ (\A u \in Transports : ~Busy(u))
      /\ UNCHANGED <<home, notes>>
  BY DEF Connect, MayConnect, InProgress, Busy
<1>3. /\ \A u \in Transports : u # t => link'[u] = link[u] /\ conn'[u] = conn[u] /\ how'[u] = how[u]
      /\ how'[t] = form
      /\ \/ form \in {"legacy", "prior"} /\ conn'[t] = "starting" /\ link'[t] = "up" /\ attached' = t
         \/ form \notin {"legacy", "prior"} /\ conn'[t] = "probing" /\ attached' = attached /\ attached # t
  BY <1>1, <1>2, McpClientAssumption DEF Attach, At, Linked, Typed, LinksTyped, Background, Core, None
<1>4. (form = "legacy" /\ NoReset) \/ (negotiated' = None /\ identity' = Nobody)
  BY <1>1 DEF Reset, ResetForReconnect
<1>5. sub' \in {sub, Settled}
  BY <1>1 DEF Reset, NoReset
<1>6. t # None
  BY McpClientAssumption DEF None
<1>7. Core'
  BY <1>2, <1>3, <1>5, <1>6, NothingHeard, CoreKept DEF Background, Alive
<1>8. negotiated' \in {negotiated, None} /\ identity' \in {identity, Nobody}
  BY <1>4 DEF NoReset
<1>9. Unmixed'
  BY <1>2, <1>3, <1>4, <1>6, <1>8, UnmixedKept DEF Background
<1> QED BY <1>7, <1>9 DEF Background

\* A step of connect(), which is the only one that goes on.
LEMMA GoesOn ==
  ASSUME Typed, Core, NEW t \in Transports, Busy(t)
  PROVE  /\ \A u \in Transports : u # t => ~Busy(u)
         /\ conn[t] \notin {"probing", "failing"} => attached \in {t, None}
         /\ conn[t] \in {"probing", "failing"} => attached # t
         /\ conn[t] # "new" /\ t # None
         /\ attached = t => Alive(t)
BY McpClientAssumption DEF Core, Busy, None

LEMMA ProbeSucceedsBackground == ASSUME Typed, Background, NEW t \in Transports, ProbeSucceeds(t) PROVE Background'
<1>1. PICK era \in {"modern", "legacy"} :
       \/ /\ how[t] = "sibling"
          /\ At(t, "starting") /\ Linked(t, "up")
          /\ how' = [how EXCEPT ![t] = IF era = "modern" THEN "prior" ELSE "probed"]
          /\ NoReset
       \/ /\ how[t] = "inplace" /\ UNCHANGED <<how, link>>
          /\ IF era = "modern" THEN At(t, "ready") /\ Establish(t, era) ELSE At(t, "handshake") /\ NoReset
  BY DEF ProbeSucceeds
<1>2. /\ conn[t] = "probing" /\ (how[t] = "inplace" => link[t] = "up") /\ attached' = t
      /\ UNCHANGED <<home, notes>>
  BY DEF ProbeSucceeds, Attach
<1>3. Busy(t) /\ negotiated = None
  BY <1>2 DEF Busy, Background, Unmixed
<1>4. (\A u \in Transports : u # t => ~Busy(u)) /\ t # None
  BY <1>3, GoesOn DEF Background
<1>5. /\ \A u \in Transports : u # t => link'[u] = link[u] /\ conn'[u] = conn[u] /\ how'[u] = how[u]
      /\ link'[t] = "up" /\ conn'[t] \in {"starting", "handshake", "ready"}
      /\ IF conn'[t] = "ready" THEN negotiated' = t /\ identity' = home[t] ELSE UNCHANGED <<negotiated, identity>>
  BY <1>1, <1>2 DEF At, Linked, Typed, LinksTyped, Establish, NoReset
<1>6. Core'
  BY <1>2, <1>4, <1>5, CoreKept DEF Background, Alive
<1>7. Unmixed'
  BY <1>2, <1>3, <1>4, <1>5, UnmixedKept DEF Background
<1> QED BY <1>6, <1>7 DEF Background

LEMMA ProbeFailsBackground == ASSUME Typed, Background, NEW t \in Transports, ProbeFails(t) PROVE Background'
<1>1. /\ conn[t] = "probing" /\ Busy(t)
      /\ UNCHANGED <<home, how, attached, negotiated, identity, sub, notes>>
  BY DEF ProbeFails, cacheVars, Busy
<1>2. (\A u \in Transports : u # t => ~Busy(u)) /\ attached # t /\ t # None
  BY <1>1, GoesOn DEF Background
<1>3. /\ \A u \in Transports : u # t => link'[u] = link[u] /\ conn'[u] = conn[u]
      /\ conn'[t] \in {"failing", "rejected"}
  BY DEF ProbeFails, At, Linked, Typed, LinksTyped
<1>4. Core'
  BY <1>1, <1>2, <1>3, NothingHeard, CoreKept DEF Background, Busy
<1>5. Unmixed'
  BY <1>1, <1>2, <1>3, UnmixedKept DEF Background
<1> QED BY <1>4, <1>5 DEF Background

LEMMA StartedBackground == ASSUME Typed, Background, NEW t \in Transports, Started(t) PROVE Background'
<1>1. conn[t] = "starting" /\ Busy(t) /\ how[t] \in {"legacy", "prior", "probed"} /\ UNCHANGED <<home, link, how, attached, notes>>
  BY DEF Started, Busy, Typed, StartsAs
<1>2. (\A u \in Transports : u # t => ~Busy(u)) /\ t # None /\ attached \in {t, None} /\ (attached = t => Alive(t))
  BY <1>1, GoesOn DEF Background
<1>3. \/ how[t] = "legacy" /\ At(t, "handshake") /\ Reset
      \/ how[t] = "probed" /\ At(t, "handshake") /\ NoReset
      \/ how[t] = "prior" /\ At(t, "ready") /\ Establish(t, "modern")
  BY <1>1 DEF Started
<1>4. \A u \in Transports : u # t => conn'[u] = conn[u]
  BY <1>3 DEF At, Typed, LinksTyped
<1>5. \/ conn'[t] = "handshake" /\ negotiated' = None
      \/ conn'[t] = "ready" /\ negotiated' = t /\ identity' = home[t]
  <2>1. how[t] = "probed" => negotiated = None
    BY <1>1 DEF Background, Unmixed
  <2> QED BY <1>3, <2>1 DEF At, Typed, LinksTyped, Establish, Reset, NoReset
<1>6. sub' \in {sub, Settled}
  BY <1>3 DEF Reset, NoReset, Establish
<1>7. Core'
  BY <1>1, <1>2, <1>4, <1>5, <1>6, NothingHeard, CoreKept DEF Background, Alive
<1>8. Unmixed'
  BY <1>1, <1>2, <1>4, <1>5, UnmixedKept DEF Background
<1> QED BY <1>7, <1>8 DEF Background

LEMMA StartFailsBackground == ASSUME Typed, Background, NEW t \in Transports, StartFails(t) PROVE Background'
<1>1. /\ conn[t] = "starting" /\ Busy(t)
      /\ UNCHANGED <<home, how, attached, negotiated, identity, sub, notes>>
  BY DEF StartFails, Busy, cacheVars
<1>2. (\A u \in Transports : u # t => ~Busy(u)) /\ t # None /\ attached \in {t, None} /\ (attached = t => Alive(t))
  BY <1>1, GoesOn DEF Background
<1>3. /\ \A u \in Transports : u # t => link'[u] = link[u] /\ conn'[u] = conn[u]
      /\ conn'[t] = "rejected" /\ link'[t] \in {link[t], "failed"}
  BY DEF StartFails, At, Linked, Typed, LinksTyped
<1>4. Core'
  BY <1>1, <1>2, <1>3, NothingHeard, CoreKept DEF Background, Alive, Busy
<1>5. Unmixed'
  BY <1>1, <1>2, <1>3, UnmixedKept DEF Background
<1> QED BY <1>4, <1>5 DEF Background

LEMMA HandshakeBackground ==
  ASSUME Typed, Background, NEW t \in Transports, Initialized(t) \/ Ready(t) PROVE Background'
<1>1. /\ conn[t] \in {"handshake", "initialized"} /\ Busy(t)
      /\ Wire = t /\ UNCHANGED <<home, link, how, attached, sub, notes>>
  BY DEF Initialized, Ready, Busy
<1>2. (\A u \in Transports : u # t => ~Busy(u)) /\ t # None
  BY <1>1, GoesOn DEF Background
<1>3. attached = t /\ Alive(t) /\ negotiated = None
  BY <1>1, <1>2 DEF Wire, Alive, Background, Unmixed
<1>4. /\ \A u \in Transports : u # t => conn'[u] = conn[u]
      /\ \/ conn'[t] = "initialized" /\ negotiated' = negotiated /\ identity' = home[t]
         \/ conn'[t] = "ready" /\ negotiated' = t /\ identity' = identity /\ conn[t] = "initialized"
  BY DEF Initialized, Ready, At, Typed, LinksTyped, cacheVars
<1>5. conn[t] = "initialized" => identity \in {home[t], Nobody}
  BY <1>2, <1>3 DEF Background, Unmixed
<1>6. Core'
  BY <1>1, <1>2, <1>3, <1>4, CoreKept DEF Background, Alive
<1>7. Unmixed'
  BY <1>1, <1>2, <1>3, <1>4, <1>5, UnmixedKept DEF Background
<1> QED BY <1>6, <1>7 DEF Background

\* What close() does to the transports.
LEMMA CloseCallLinks ==
  ASSUME Typed, CloseCall
  PROVE  /\ \A u \in Transports : link'[u] = link[u] \/ (u = attached /\ Alive(u) /\ link'[u] = "closing")
         /\ sub' \in {sub, Settled} /\ negotiated' \in {negotiated, None} /\ identity' \in {identity, Nobody}
BY DEF CloseCall, Linked, Reset, ResetForReconnect, NoReset, Alive, Typed, LinksTyped

\* A step that leaves conn alone, or rejects, and at most closes the transport attached.
LEMMA OnlyCloses ==
  ASSUME Typed, Background,
         UNCHANGED <<home, how, attached>>, notes' \subseteq notes,
         \A u \in Transports : link'[u] = link[u] \/ (u = attached /\ Alive(u) /\ link'[u] = "closing"),
         \A u \in Transports :
           conn'[u] = conn[u] \/ (conn[u] \notin {"new", "probing", "failing"} /\ conn'[u] = "rejected"),
         attached = None => \A l \in Listens : ~Live(l)',
         negotiated' \in {negotiated, None}, identity' \in {identity, Nobody}
  PROVE  Background'
<1>1. \A u \in Transports : (Alive(u) => Alive(u)') /\ (Busy(u)' => Busy(u) /\ conn'[u] = conn[u])
  BY DEF Alive, Busy
<1>2. Core'
  <2>1. attached # None => Alive(attached)' /\ conn'[attached] \notin {"new", "probing", "failing"}
    BY <1>1 DEF Background, Core, Typed, LinksTyped
  <2>2. attached = None => notes' = {} /\ \A l \in Listens : ~Live(l)'
    BY DEF Background, Core
  <2>3. \A t \in Transports : conn'[t] = "new" => link'[t] = "down"
    BY DEF Background, Core, Alive
  <2>4. \A t, u \in Transports : u < t /\ conn'[t] # "new" => conn'[u] # "new"
    BY DEF Background, Core
  <2>5. \A t, u \in Transports : Busy(t)' /\ Busy(u)' => t = u
    BY <1>1 DEF Background, Core
  <2>6. \A t \in Transports : Busy(t)' /\ conn'[t] \notin {"probing", "failing"} => attached \in {t, None}
    BY <1>1 DEF Background, Core
  <2> QED BY <2>1, <2>2, <2>3, <2>4, <2>5, <2>6 DEF Core
<1>3. Unmixed'
  <2>1. attached # None => attached \in Transports
    BY DEF Typed, LinksTyped
  <2>2. attached # None /\ negotiated' \notin {attached, None} => conn'[attached] \in {"starting", "rejected"}
    BY <2>1 DEF Background, Unmixed
  <2>3. \A t \in Transports :
          conn'[t] \in {"probing", "handshake", "initialized"} \/ (conn'[t] = "starting" /\ how'[t] # "legacy") => negotiated' = None
    BY DEF Background, Unmixed
  <2>4. attached # None /\ conn'[attached] \in {"initialized", "ready"} => identity' \in {home[attached], Nobody}
    BY <2>1 DEF Background, Unmixed
  <2> QED BY <2>2, <2>3, <2>4 DEF Unmixed
<1> QED BY <1>2, <1>3 DEF Background

\* What listens after a step that settles subscriptions or leaves them alone.
LEMMA StillUnheard ==
  ASSUME Typed, Core, sub' \in {sub, Settled} PROVE attached = None => \A l \in Listens : ~Live(l)'
BY NoneSubscribed DEF Core, Live

LEMMA EndsBackground ==
  ASSUME Typed, Background, NEW t \in Transports, HandshakeFails(t) \/ Close \/ CloseSettles(t) PROVE Background'
<1>1. UNCHANGED <<home, how, attached, notes>>
  BY DEF HandshakeFails, Close, CloseSettles
<1>2. /\ \A u \in Transports : link'[u] = link[u] \/ (u = attached /\ Alive(u) /\ link'[u] = "closing")
      /\ sub' \in {sub, Settled} /\ negotiated' \in {negotiated, None} /\ identity' \in {identity, Nobody}
  <2>1. CASE CloseCall
    BY <2>1, CloseCallLinks
  <2>2. CASE CloseSettles(t)
    BY <2>2 DEF CloseSettles, Reset, ResetForReconnect
  <2> QED BY <2>1, <2>2 DEF HandshakeFails, Close
<1>3. \A u \in Transports : conn'[u] = conn[u] \/ (conn[u] \notin {"new", "probing", "failing"} /\ conn'[u] = "rejected")
  BY DEF HandshakeFails, Close, CloseSettles, At, Typed, LinksTyped
<1>4. attached = None => \A l \in Listens : ~Live(l)'
  BY <1>2, StillUnheard DEF Background
<1> QED BY <1>1, <1>2, <1>3, <1>4, OnlyCloses

LEMMA ClosedBackground == ASSUME Typed, Background, NEW t \in Transports, Closed(t) PROVE Background'
<1>1. /\ UNCHANGED <<identity, home, how, negotiated>> /\ notes' = {} /\ Alive(t)
      /\ link'[t] = "gone" /\ \A u \in Transports : u # t => link'[u] = link[u]
  BY DEF Closed, Linked, Alive, Typed, LinksTyped
<1>2. conn[t] # "new" /\ t # None
  BY <1>1, McpClientAssumption DEF Background, Core, Alive, None
<1>3. CASE conn[t] \in {"probing", "failing"}
  <2>1. /\ conn'[t] = "rejected" /\ \A u \in Transports : u # t => conn'[u] = conn[u]
        /\ UNCHANGED <<sub, attached>>
    BY <1>3 DEF Closed, At, Typed, LinksTyped
  <2>2. (\A u \in Transports : u # t => ~Busy(u)) /\ attached # t
    BY <1>3, GoesOn DEF Background, Busy
  <2>3. attached' = None => notes' = {} /\ \A l \in Listens : ~Live(l)'
    BY <1>1, <2>1, StillUnheard DEF Background
  <2>4. Core'
    BY <1>1, <1>2, <2>1, <2>2, <2>3, CoreKept DEF Background, Busy
  <2>5. Unmixed'
    BY <1>1, <1>2, <2>1, <2>2, UnmixedKept DEF Background
  <2> QED BY <2>4, <2>5 DEF Background
<1>4. CASE conn[t] \notin {"probing", "failing"}
  <2>1. /\ attached' = None /\ sub' = Settled
        /\ conn' = [u \in Transports |-> IF conn[u] \in {"handshake", "initialized"} THEN "broken" ELSE conn[u]]
    BY <1>4 DEF Closed, OnClose, LostSubs
  <2>2. \A u \in Transports :
          /\ Busy(u)' <=> Busy(u)
          /\ conn'[u] = "new" <=> conn[u] = "new"
          /\ conn'[u] \in {"probing", "handshake", "initialized", "starting"} => conn'[u] = conn[u]
    BY <2>1 DEF Busy
  <2>3. \A l \in Listens : ~Live(l)'
    BY <2>1, NoneSubscribed
  <2>4. Core'
    <3>1. \A u \in Transports : conn'[u] = "new" => link'[u] = "down"
      BY <1>1, <1>2, <2>2 DEF Background, Core
    <3>2. \A a, u \in Transports : u < a /\ conn'[a] # "new" => conn'[u] # "new"
      BY <2>2 DEF Background, Core
    <3>3. \A a, u \in Transports : Busy(a)' /\ Busy(u)' => a = u
      BY <2>2 DEF Background, Core
    <3> QED BY <1>1, <2>1, <2>3, <3>1, <3>2, <3>3 DEF Core
  <2>5. Unmixed'
    <3>1. \A u \in Transports :
            conn'[u] \in {"probing", "handshake", "initialized"} \/ (conn'[u] = "starting" /\ how'[u] # "legacy") => negotiated' = None
      BY <1>1, <2>2 DEF Background, Unmixed
    <3> QED BY <2>1, <3>1 DEF Unmixed
  <2> QED BY <2>4, <2>5 DEF Background
<1> QED BY <1>3, <1>4

\* The steps of the lists, and the stuttering ones.
LEMMA RestBackground ==
  ASSUME Typed, Background, UNCHANGED <<identity, home, link, conn, how, attached, negotiated>>,
         attached = None => notes' \subseteq notes /\ \A l \in Listens : ~Live(l)'
  PROVE  Background'
<1>1. attached = None => notes' = {}
  BY DEF Background, Core
<1>2. Core'
  BY <1>1 DEF Background, Core, Alive, Busy
<1>3. Unmixed'
  BY DEF Background, Unmixed
<1> QED BY <1>2, <1>3 DEF Background

LEMMA BackgroundStep == Typed /\ Background /\ [Next]_vars => Background'
<1> SUFFICES ASSUME Typed, Background, [Next]_vars PROVE Background'
  OBVIOUS
<1>1. ASSUME NEW t \in Transports,
             \/ Connect(t) \/ ProbeSucceeds(t) \/ ProbeFails(t) \/ Started(t) \/ StartFails(t)
             \/ Initialized(t) \/ Ready(t) \/ HandshakeFails(t) \/ Closed(t) \/ CloseSettles(t)
      PROVE  Background'
  BY <1>1, ConnectBackground, ProbeSucceedsBackground, ProbeFailsBackground, StartedBackground, StartFailsBackground,
     HandshakeBackground, EndsBackground, ClosedBackground
<1>2. CASE Close
  <2>1. \E t \in Transports : TRUE
    BY <1>2 DEF Close
  <2> QED BY <1>2, <2>1, EndsBackground
<1>3. ASSUME NEW l \in Listens, Listen(l) \/ Listening(l) PROVE Background'
  <2>1. UNCHANGED <<identity, home, link, conn, how, attached, negotiated, notes>>
    BY <1>3 DEF Listen, Listening, cacheVars
  <2>2. ASSUME attached = None PROVE \A k \in Listens : ~Live(k)'
    <3>1. \A k \in Listens : ~Live(k)
      BY <2>2 DEF Background, Core
    <3>2. Listening(l) /\ ~Live(l)
      BY <1>3, <2>2, <3>1 DEF Listen
    <3> QED BY <3>2 DEF Listening, Live
  <2> QED BY <2>1, <2>2, RestBackground
<1>4. ASSUME NEW s \in Servers, Change(s) PROVE Background'
  <2>1. UNCHANGED <<identity, home, link, conn, how, attached, negotiated, sub>>
    BY <1>4 DEF Change
  <2>2. attached = None => notes' = notes
    BY <1>4, McpClientAssumption DEF Change, Hears, Wire, None
  <2> QED BY <2>1, <2>2, RestBackground DEF Background, Core, Live
<1>5. ASSUME NEW n \in notes, Notified(n) PROVE Background'
  BY <1>5, RestBackground DEF Notified
<1>6. ASSUME UNCHANGED <<identity, home, link, conn, how, attached, negotiated, sub, notes>> PROVE Background'
  BY <1>6, RestBackground DEF Background, Core, Live
<1>7. ASSUME NEW w \in Calls, ListCall(w) \/ ProbeSharedAt(w) \/ Exchanged(w) \/ Answered(w) PROVE Background'
  <2>1. UNCHANGED <<setting, identity, clientVars>>
    BY <1>7 DEF ListCall, ProbeSharedAt, Exchanged, Answered
  <2> QED BY <1>6, <2>1 DEF clientVars
<1>8. CASE TimerFires
  BY <1>6, <1>8 DEF TimerFires
<1>9. CASE EvictShared /\ UNCHANGED clientVars
  BY <1>6, <1>9 DEF EvictShared, clientVars
<1>10. CASE UNCHANGED vars
  BY <1>6, <1>10 DEF vars, cacheVars, clientVars
<1> QED BY <1>1, <1>2, <1>3, <1>4, <1>5, <1>7, <1>8, <1>9, <1>10 DEF Next

-----------------------------------------------------------------------------
\* What holds of the client at all times, and, since the last connect(), unless
\* that one overtook a close().
ClientInv == Typed /\ Background /\ (~overlap => ConnectionInv) /\ (Prompt => ~overlap)

LEMMA ClientInit == Init => ClientInv
<1>1. Init => ~overlap
  BY DEF Init
<1> QED BY <1>1, TypedInit, BackgroundInit, ConnectionInit DEF ClientInv

\* What transports are like does not change.
LEMMA PromptKept == [Next]_vars => Prompt' = Prompt
<1>1. [Next]_vars => setting' = setting
  BY DEF Next, vars, cacheVars, Connect, ProbeSucceeds, ProbeFails, Started, StartFails, Initialized, Ready, HandshakeFails,
     Closed, CloseSettles, Close, Listen, Listening, Change, Notified, ListCall, ProbeSharedAt, Exchanged, Answered, TimerFires,
     EvictShared
<1> QED BY <1>1 DEF Prompt

LEMMA ClientStep == ClientInv /\ [Next]_vars => ClientInv'
<1> SUFFICES ASSUME ClientInv, [Next]_vars PROVE ClientInv'
  OBVIOUS
<1>1. Typed' /\ Background'
  BY TypedStep, BackgroundStep DEF ClientInv
<1>2. (~overlap => ConnectionInv)' /\ (Prompt => ~overlap)'
  <2>1. CASE \E t \in Transports : Connect(t)
    <3>1. PICK t \in Transports : Connect(t)
      BY <2>1
    <3>2. overlap' = ~AllClosed /\ (Prompt => AllClosed)
      BY <3>1 DEF Connect, MayConnect
    <3>3. Typed /\ Core
      BY DEF ClientInv, Background
    <3>4. ~overlap' => ConnectionInv'
      BY <3>1, <3>3, ConnectConnection
    <3>5. Prompt' = Prompt
      BY PromptKept
    <3> QED BY <3>2, <3>4, <3>5
  <2>2. CASE \A t \in Transports : ~Connect(t)
    <3>1. overlap' = overlap
      BY <2>2 DEF Next, vars, clientVars, ProbeSucceeds, ProbeFails, Started, StartFails, Initialized, Ready, HandshakeFails,
         Closed, CloseSettles, Close, Listen, Listening, Change, Notified, ListCall, ProbeSharedAt, Exchanged, Answered, TimerFires
    <3> QED BY <2>2, <3>1, ConnectionStep, PromptKept DEF ClientInv
  <2> QED BY <2>1, <2>2
<1> QED BY <1>1, <1>2 DEF ClientInv

LEMMA ClientAlways == Spec => []ClientInv
<1> QED BY ClientInit, ClientStep, PTL DEF Spec
\* No subscription outlives its connection, unless a connect() overtook its
\* close: however a connection ends, also while the next one is being connected,
\* what listens on it is closed first.
THEOREM ListensBelong == Spec => []ListenBelongs
<1>1. ClientInv => ListenBelongs
  BY DEF ClientInv, ConnectionInv, Subscribed, ListenBelongs
<1> QED BY <1>1, ClientAlways, PTL

\* A connection that connect() reported, that is up and that the application
\* did not leave has its version, its capabilities and its era and is the one
\* requests go out on, if its connect() overtook no close(): whatever earlier
\* connections left behind, and however slowly transports start and close.  If it
\* did, the connection never gets the version or the era of another one and
\* never fills the cache of another server.
THEOREM ReadyStaysConnected == Spec => []ReadyIsConnected
<1>1. ClientInv => StaysWhole
  BY DEF ClientInv, ConnectionInv, Attached, Reported, Stays, Alive, StaysWhole, InUse
<1>2. ClientInv => NeverMixed
  BY McpClientAssumption DEF ClientInv, Background, Unmixed, NeverMixed, None
<1> QED BY <1>1, <1>2, ClientAlways, PTL DEF ReadyIsConnected
-----------------------------------------------------------------------------
(***************************************************************************)
(* The cache.                                                              *)
(***************************************************************************)
Ordered == \A store \in Stores : store.ordered

Active(w) == call[w].at \in {"asking", "served", "replied"}

\* A request that is on its way is on the connection of the moment.  Its answer is
\* not behind what was announced unless the generation has moved since.
InFlight(w) ==
  /\ Active(w) =>
       /\ call[w].on \in Transports /\ conn[call[w].on] = "ready" /\ Alive(call[w].on)
       /\ call[w].gen <= generation
  /\ call[w].at \in {"served", "replied"} =>
       /\ call[w].got.of = home[call[w].on]
       /\ call[w].gen = generation => call[w].got.v >= told[home[call[w].on]]
  /\ Active(w) \/ call[w].at = "writing" => call[w].from = Nobody
  /\ call[w].at = "probing" =>
       /\ \A t \in Transports : ~Busy(t)
       /\ call[w].from \in Servers /\ call[w].seen <= told[call[w].from]

CallsInFlight == \A w \in Calls : InFlight(w)

Good(s, scope, v) == LET held == entries[Partition(s, scope)] IN held # NoList => held.v >= v

\* An eviction of the server waits before the n-th call of the store.
Evicting(s, n) == \E i \in DOMAIN awaiting : i < n /\ awaiting[i] = <<"eviction", s>>

\* A partition holds lists of its server, none older than what was announced;
\* the shared one may, while the second half of an eviction waits.
Cached ==
  /\ \A s \in Servers : told[s] <= version[s]
  /\ \A n \in notes : n <= version[home[attached]]
  /\ \A p \in Identities \X Scopes : entries[p] # NoList => entries[p].of = p[1]
  /\ \A s \in Servers : Good(s, "private", told[s])
  /\ \A s \in Servers : Good(s, "public", told[s]) \/ Evicting(s, Len(awaiting) + 1)

\* A call waits once; when it looks into the shared partition, the evictions
\* before it are over.
Waits(i, w) ==
  /\ call[w].at \in {"probing", "writing"}
  /\ \A j \in DOMAIN awaiting : awaiting[j] = awaiting[i] => i = j
  /\ call[w].at = "probing" => Good(call[w].from, "public", call[w].seen) \/ Evicting(call[w].from, i)

InQueue == \A i \in DOMAIN awaiting, w \in Calls : awaiting[i] = <<"call", w>> => Waits(i, w)

CacheInv == CallsInFlight /\ Cached /\ InQueue /\ FreshHits

LEMMA CacheInvInit == Init => CacheInv
<1> SUFFICES ASSUME Init PROVE CacheInv
  OBVIOUS
<1>1. CallsInFlight /\ FreshHits
  BY DEF Init, CacheInit, CallsInFlight, InFlight, Active, FreshHits, Idle
<1>2. Cached
  <2>1. \A s \in Servers : told[s] = 0 /\ version[s] = 1
    BY DEF Init, CacheInit
  <2>2. \A p \in Identities \X Scopes : entries[p] = NoList
    BY DEF Init, CacheInit
  <2>3. \A s \in Servers, scope \in Scopes : Partition(s, scope) \in Identities \X Scopes
    BY PartitionTyped DEF Identities
  <2> QED BY <2>1, <2>2, <2>3 DEF Init, Cached, Good, Scopes
<1>3. InQueue
  BY DEF Init, CacheInit, InQueue
<1> QED BY <1>1, <1>2, <1>3 DEF CacheInv

\* Entries that are dropped do no harm.
Loses == \A p \in Identities \X Scopes : entries'[p] \in {entries[p], NoList}

LEMMA GoodKept ==
  ASSUME Loses, setting' = setting, NEW s \in Identities, NEW scope \in Scopes, NEW v, Good(s, scope, v)
  PROVE  Good(s, scope, v)'
<1>1. Partition(s, scope) \in Identities \X Scopes
  BY PartitionTyped
<1>2. Partition(s, scope)' = Partition(s, scope)
  BY DEF Partition
<1> QED BY <1>1, <1>2 DEF Loses, Good

LEMMA ResetLoses == ASSUME StateTyped, Reset \/ NoReset \/ (\E t, era : Establish(t, era)) PROVE Loses
BY DEF StateTyped, Reset, ResetForReconnect, NoReset, Establish, Loses

LEMMA DeleteLoses == ASSUME StateTyped, NEW p, Delete(p) PROVE Loses
BY DEF StateTyped, Delete, Loses

\* What holds of the store after a step that only drops entries.
LEMMA CachedKept ==
  ASSUME Typed, Cached, Loses, UNCHANGED <<setting, told, version, awaiting>>,
         \A n \in notes' : n <= version[home'[attached']]
  PROVE  Cached'
<1>1. \A s \in Servers : s \in Identities
  BY DEF Identities
<1>2. \A p \in Identities \X Scopes : entries'[p] # NoList => entries'[p].of = p[1]
  BY DEF Loses, Cached
<1>3. \A s \in Servers : Good(s, "private", told[s])'
  BY <1>1, GoodKept DEF Cached, Scopes
<1>4. \A s \in Servers : Good(s, "public", told[s])' \/ Evicting(s, Len(awaiting) + 1)'
  <2> SUFFICES ASSUME NEW s \in Servers, Good(s, "public", told[s]) PROVE Good(s, "public", told[s])'
    BY DEF Cached, Evicting
  <2> QED BY <1>1, GoodKept DEF Scopes
<1> QED BY <1>2, <1>3, <1>4 DEF Cached

\* The calls that wait keep what they have found out.
LEMMA InQueueKept ==
  ASSUME Typed, CallsInFlight, InQueue, Loses, UNCHANGED <<setting, awaiting>>,
         \A w \in Calls : call[w].at \in {"probing", "writing"} => call'[w] = call[w]
  PROVE  InQueue'
<1> SUFFICES ASSUME NEW i \in DOMAIN awaiting, NEW w \in Calls, awaiting[i] = <<"call", w>> PROVE Waits(i, w)'
  BY DEF InQueue
<1>1. Waits(i, w) /\ call'[w] = call[w]
  BY DEF InQueue, Waits
<1>2. ASSUME call[w].at = "probing", Good(call[w].from, "public", call[w].seen)
      PROVE  Good(call[w].from, "public", call[w].seen)'
  <2>1. call[w].from \in Identities
    BY <1>2 DEF CallsInFlight, InFlight, Identities
  <2> QED BY <1>1, <1>2, <2>1, GoodKept DEF Scopes
<1> QED BY <1>1, <1>2 DEF Waits, Evicting

LEMMA NoCallInvolved ==
  ASSUME CallsInFlight, \A w \in Calls : ~Active(w) /\ call[w].at # "probing", call' = call
  PROVE  CallsInFlight'
BY DEF CallsInFlight, InFlight, Active

\* While connect() goes on, no call is on its way.
LEMMA BusyNoCall ==
  ASSUME Typed, ConnectionInv, CallsInFlight, NEW t \in Transports, Busy(t), NEW w \in Calls
  PROVE  ~Active(w) /\ call[w].at # "probing"
<1>1. ASSUME Active(w) PROVE FALSE
  <2>1. call[w].on \in Transports /\ conn[call[w].on] = "ready" /\ Alive(call[w].on)
    BY <1>1 DEF CallsInFlight, InFlight
  <2>2. call[w].on = t
    BY <2>1, IsEngaged, OneEngaged DEF ConnectionInv
  <2> QED BY <2>1, <2>2 DEF Busy
<1> QED BY <1>1 DEF CallsInFlight, InFlight

\* A step of the connections, during which no call is on its way.
LEMMA ConnectingCached ==
  ASSUME Typed, CacheInv, UNCHANGED <<setting, told, version, awaiting, home>>, Loses, CallsInFlight',
         notes' = {} \/ (notes' = notes /\ attached' = attached),
         \A w \in Calls : call'[w] = call[w] \/ (call'[w].at = "failed" /\ call[w].at \notin {"probing", "writing"})
  PROVE  CacheInv'
<1>1. Cached'
  BY CachedKept DEF CacheInv, Cached
<1>2. InQueue'
  <2>1. \A w \in Calls : call[w].at \in {"probing", "writing"} => call'[w] = call[w]
    OBVIOUS
  <2> QED BY <2>1, InQueueKept DEF CacheInv
<1>3. FreshHits'
  BY DEF CacheInv, FreshHits
<1> QED BY <1>1, <1>2, <1>3 DEF CacheInv

LEMMA ConnectCached ==
  ASSUME Typed, Core, Prompt, CacheInv, NEW t \in Transports, Connect(t) PROVE CacheInv'
<1>1. notes = {} /\ \A u \in Transports : ~Alive(u)
  BY ConnectsAlone DEF Connect, MayConnect
<1>2. \A w \in Calls : ~Active(w) /\ call[w].at # "probing"
  BY <1>1 DEF CacheInv, CallsInFlight, InFlight, Connect, MayConnect
<1>3. Loses
  <2>1. Reset \/ NoReset
    BY DEF Connect
  <2> QED BY <2>1, ResetLoses DEF Typed
<1>4. CallsInFlight'
  BY <1>2, NoCallInvolved DEF CacheInv, Connect
<1>5. UNCHANGED <<setting, told, version, awaiting, home, call, notes>>
  BY DEF Connect
<1> QED BY <1>1, <1>3, <1>4, <1>5, ConnectingCached

\* The steps of connect() after its first one.
LEMMA GoesOnCached ==
  ASSUME Typed, ConnectionInv, CacheInv, NEW t \in Transports, Busy(t),
         \/ ProbeSucceeds(t) \/ ProbeFails(t) \/ Started(t) \/ StartFails(t)
         \/ Initialized(t) \/ Ready(t) \/ HandshakeFails(t)
  PROVE  CacheInv'
<1>1. \A w \in Calls : ~Active(w) /\ call[w].at # "probing"
  BY BusyNoCall DEF CacheInv
<1>2. notes = {}
  BY ConnectingAlone, IsEngaged DEF ConnectionInv
<1>3. UNCHANGED <<setting, told, version, awaiting, home, call, notes>>
  BY DEF ProbeSucceeds, ProbeFails, Started, StartFails, Initialized, Ready, HandshakeFails, cacheVars
<1>4. Reset \/ NoReset \/ (\E u, era : Establish(u, era)) \/ entries' = entries
  <2>1. CASE ProbeSucceeds(t)
    BY <2>1 DEF ProbeSucceeds
  <2>2. CASE Started(t)
    <3>1. how[t] \in {"legacy", "prior", "probed"}
      BY <2>2 DEF Typed, StartsAs, Started
    <3> QED BY <2>2, <3>1 DEF Started
  <2>3. CASE HandshakeFails(t)
    BY <2>3, CloseCallTyped DEF HandshakeFails
  <2>4. CASE ProbeFails(t) \/ StartFails(t) \/ Initialized(t) \/ Ready(t)
    BY <2>4 DEF ProbeFails, StartFails, Initialized, Ready, cacheVars
  <2> QED BY <2>1, <2>2, <2>3, <2>4
<1>5. Loses
  BY <1>4, ResetLoses DEF Typed, Loses
<1>6. CallsInFlight'
  BY <1>1, <1>3, NoCallInvolved DEF CacheInv
<1> QED BY <1>2, <1>3, <1>5, <1>6, ConnectingCached

\* A call stays in flight over a step that leaves its connection.
LEMMA StaysInFlight ==
  ASSUME Typed, NEW w \in Calls, InFlight(w), call'[w] = call[w], home' = home,
         Active(w) => /\ conn'[call[w].on] = conn[call[w].on] /\ Alive(call[w].on)' /\ generation' = generation
                      /\ told' = told,
         call[w].at = "probing" => (\A t \in Transports : ~Busy(t)') /\ told' = told
  PROVE  InFlight(w)'
BY DEF InFlight, Active

LEMMA CloseCached == ASSUME Typed, ConnectionInv, CacheInv, Close PROVE CacheInv'
<1>1. PICK t \in Transports : Engaged(t) /\ left' = left \cup {t} /\ conn[t] # "rejected" /\ (t \in left => Wire = t)
  BY ClosesOnce
<1>2. UNCHANGED <<setting, told, version, awaiting, home, call, conn, attached, notes>>
  BY DEF Close
<1>3. Reset \/ NoReset
  BY CloseCallTyped DEF Close
<1>4. Loses
  BY <1>3, ResetLoses DEF Typed
<1>5. ASSUME NEW w \in Calls, Active(w) PROVE Alive(call[w].on)' /\ generation' = generation
  <2>1. call[w].on \in Transports /\ conn[call[w].on] = "ready" /\ Alive(call[w].on)
    BY <1>5 DEF CacheInv, CallsInFlight, InFlight
  <2>2. call[w].on = t
    BY <1>1, <2>1, IsEngaged, OneEngaged DEF ConnectionInv
  <2>3. link[t] = "closing" => Wire = t
    BY <1>1, <2>1, <2>2 DEF ConnectionInv, Attached
  <2>4. link[t] \in {"up", "failed"}
    BY <2>1, <2>2, <2>3, McpClientAssumption DEF Wire, None, Alive
  <2>5. link'[t] = "closing" /\ NoReset
    <3>1. conn[t] = "ready" /\ CloseCall
      BY <2>1, <2>2 DEF Close
    <3> QED BY <1>1, <2>4, <3>1, CloseCallEffect
  <2> QED BY <1>2, <2>2, <2>5 DEF Alive, NoReset
<1>6. CallsInFlight'
  <2>1. \A u \in Transports : Busy(u)' = Busy(u)
    BY <1>2 DEF Busy
  <2> SUFFICES ASSUME NEW w \in Calls PROVE InFlight(w)'
    BY DEF CallsInFlight
  <2>2. InFlight(w)
    BY DEF CacheInv, CallsInFlight
  <2>3. call[w].at = "probing" => \A u \in Transports : ~Busy(u)'
    BY <2>1, <2>2 DEF InFlight
  <2> QED BY <1>2, <1>5, <2>2, <2>3, StaysInFlight
<1> QED BY <1>2, <1>4, <1>6, ConnectingCached

LEMMA ClosedCached ==
  ASSUME Typed, ConnectionInv, CacheInv, NEW t \in Transports, Closed(t) PROVE CacheInv'
<1>1. UNCHANGED <<setting, told, version, awaiting, home, entries>> /\ notes' = {}
  BY DEF Closed
<1>2. CASE conn[t] \in {"probing", "failing"}
  <2>1. \A w \in Calls : ~Active(w) /\ call[w].at # "probing"
    BY <1>2, BusyNoCall DEF Busy, CacheInv
  <2>2. call' = call
    BY <1>2 DEF Closed
  <2>3. CallsInFlight'
    BY <2>1, <2>2, NoCallInvolved DEF CacheInv
  <2> QED BY <1>1, <2>2, <2>3, ConnectingCached DEF Loses
<1>3. CASE conn[t] \notin {"probing", "failing"}
  <2>1. call' = Rejected /\ \A u \in Transports : ~Busy(u) => ~Busy(u)'
    BY <1>3 DEF Closed, OnClose, Busy, Typed, LinksTyped
  <2>2. ASSUME NEW w \in Calls
        PROVE  \/ call'[w] = call[w] /\ ~Active(w)
               \/ Active(w) /\ call'[w].at = "failed" /\ call'[w] = [call[w] EXCEPT !.at = "failed"]
    <3>1. call[w].at # "replied" /\ call[w] \in CallType
      BY DEF Closed, Quiet, Typed, CallsTyped
    <3>2. call'[w] = IF call[w].at \in {"asking", "served"} THEN [call[w] EXCEPT !.at = "failed"] ELSE call[w]
      BY <2>1 DEF Rejected
    <3> QED BY <3>1, <3>2 DEF Active, CallType
  <2>3. CallsInFlight'
    <3> SUFFICES ASSUME NEW w \in Calls PROVE InFlight(w)'
      BY DEF CallsInFlight
    <3>1. CASE call'[w] = call[w] /\ ~Active(w)
      <4>1. InFlight(w)
        BY DEF CacheInv, CallsInFlight
      <4>2. call[w].at = "probing" => \A u \in Transports : ~Busy(u)'
        BY <2>1, <4>1 DEF InFlight
      <4> QED BY <1>1, <3>1, <4>1, <4>2, StaysInFlight
    <3>2. CASE Active(w) /\ call'[w].at = "failed"
      BY <3>2 DEF InFlight, Active
    <3> QED BY <2>2, <3>1, <3>2
  <2>4. \A w \in Calls : call'[w] = call[w] \/ (call'[w].at = "failed" /\ call[w].at \notin {"probing", "writing"})
    BY <2>2 DEF Active
  <2> QED BY <1>1, <2>3, <2>4, ConnectingCached DEF Loses
<1> QED BY <1>2, <1>3

LEMMA CloseSettlesCached ==
  ASSUME Typed, ConnectionInv, Prompt, CacheInv, NEW t \in Transports, CloseSettles(t) PROVE CacheInv'
<1>1. t \in closers /\ link[t] = "gone" /\ Reset
  BY DEF CloseSettles
<1>2. UNCHANGED <<setting, told, version, awaiting, home, call, conn, attached, notes>>
  BY DEF CloseSettles
<1>3. ASSUME NEW w \in Calls, Active(w) PROVE FALSE
  <2>1. call[w].on \in Transports /\ Alive(call[w].on)
    BY <1>3 DEF CacheInv, CallsInFlight, InFlight
  <2>2. call[w].on = t
    BY <1>1, <2>1, IsEngaged, OneEngaged DEF ConnectionInv
  <2> QED BY <1>1, <2>1, <2>2 DEF Alive
<1>4. CallsInFlight'
  <2>1. \A u \in Transports : Busy(u)' = Busy(u)
    BY <1>2 DEF Busy
  <2> SUFFICES ASSUME NEW w \in Calls PROVE InFlight(w)'
    BY DEF CallsInFlight
  <2>2. InFlight(w)
    BY DEF CacheInv, CallsInFlight
  <2>3. call[w].at = "probing" => \A u \in Transports : ~Busy(u)'
    BY <2>1, <2>2 DEF InFlight
  <2> QED BY <1>2, <1>3, <2>2, <2>3, StaysInFlight
<1>5. Loses
  BY <1>1, ResetLoses DEF Typed
<1> QED BY <1>2, <1>4, <1>5, ConnectingCached

-----------------------------------------------------------------------------
(***************************************************************************)
(* The calls of the store that are awaited.                                *)
(***************************************************************************)
LEMMA QueueDomain == ASSUME Typed PROVE Len(awaiting) \in Nat /\ DOMAIN awaiting = 1 .. Len(awaiting)
BY DEF Typed, CallsTyped

\* A store that answers in order answers the first one.
LEMMA AnswersFirst ==
  ASSUME Typed, Ordered, NEW who, Answer(who)
  PROVE  /\ 1 \in DOMAIN awaiting /\ awaiting[1] = who
         /\ Len(awaiting') = Len(awaiting) - 1 /\ DOMAIN awaiting' = 1 .. Len(awaiting) - 1
         /\ \A i \in DOMAIN awaiting' : i + 1 \in DOMAIN awaiting /\ awaiting'[i] = awaiting[i + 1]
<1>1. awaiting \in Seq(Waiter) /\ setting.ordered
  BY DEF Typed, CallsTyped, Waiter, Ordered
<1>2. 1 \in DOMAIN awaiting /\ awaiting[1] = who /\ awaiting' = RemoveAt(awaiting, 1)
  BY <1>1 DEF Answer, Answers
<1>3. awaiting' = SubSeq(awaiting, 2, Len(awaiting))
  <2>1. SubSeq(awaiting, 1, 0) = <<>> /\ SubSeq(awaiting, 2, Len(awaiting)) \in Seq(Waiter)
    BY <1>1
  <2>2. awaiting' = SubSeq(awaiting, 1, 0) \o SubSeq(awaiting, 2, Len(awaiting))
    BY <1>2 DEF RemoveAt
  <2> QED BY <2>1, <2>2
<1> QED BY <1>1, <1>2, <1>3

LEMMA EvictingAfter ==
  ASSUME Typed, Ordered, NEW who, Answer(who), NEW s, NEW n \in Nat, Evicting(s, n), who # <<"eviction", s>>
  PROVE  Evicting(s, n - 1)'
<1>1. PICK j \in DOMAIN awaiting : j < n /\ awaiting[j] = <<"eviction", s>>
  BY DEF Evicting
<1>2. j # 1 /\ j \in 1 .. Len(awaiting) /\ Len(awaiting) \in Nat
  BY <1>1, AnswersFirst, QueueDomain
<1>3. j - 1 \in DOMAIN awaiting' /\ (j - 1) + 1 = j
  BY <1>2, AnswersFirst
<1>4. awaiting'[j - 1] = <<"eviction", s>> /\ j - 1 < n - 1
  BY <1>1, <1>2, <1>3, AnswersFirst
<1> QED BY <1>3, <1>4 DEF Evicting

\* The first call was answered: those of the others.
LEMMA InQueueAfter ==
  ASSUME Typed, Ordered, CallsInFlight, InQueue, NEW who, Answer(who), Loses, setting' = setting,
         \A w \in Calls : who # <<"call", w>> => call'[w] = call[w],
         \A s \in Servers : who = <<"eviction", s>> => \A v \in Nat : Good(s, "public", v)'
  PROVE  InQueue'
<1> SUFFICES ASSUME NEW i \in DOMAIN awaiting', NEW w \in Calls, awaiting'[i] = <<"call", w>> PROVE Waits(i, w)'
  BY DEF InQueue
<1>1. /\ 1 \in DOMAIN awaiting /\ awaiting[1] = who
      /\ DOMAIN awaiting' = 1 .. Len(awaiting) - 1
      /\ \A j \in DOMAIN awaiting' : j + 1 \in DOMAIN awaiting /\ awaiting'[j] = awaiting[j + 1]
      /\ Len(awaiting) \in Nat
  BY AnswersFirst, QueueDomain
<1>2. i \in Nat /\ i + 1 \in DOMAIN awaiting /\ awaiting[i + 1] = <<"call", w>> /\ i + 1 # 1
  BY <1>1
<1>3. Waits(i + 1, w)
  BY <1>2 DEF InQueue
<1>4. who # <<"call", w>>
  BY <1>1, <1>2, <1>3 DEF Waits
<1>5. call'[w] = call[w]
  BY <1>4
<1>6. \A j \in DOMAIN awaiting' : awaiting'[j] = awaiting'[i] => i = j
  <2> SUFFICES ASSUME NEW j \in DOMAIN awaiting', awaiting'[j] = awaiting'[i] PROVE i = j
    OBVIOUS
  <2>1. j \in Nat /\ j + 1 \in DOMAIN awaiting /\ awaiting[j + 1] = awaiting[i + 1]
    BY <1>1, <1>2
  <2>2. i + 1 = j + 1
    BY <1>3, <2>1 DEF Waits
  <2> QED BY <1>2, <2>1, <2>2
<1>7. ASSUME call[w].at = "probing"
      PROVE  Good(call[w].from, "public", call[w].seen)' \/ Evicting(call[w].from, i)'
  <2>1. call[w].from \in Servers /\ call[w].from \in Identities /\ call[w].seen \in Nat
    BY <1>7, BoundIsNat DEF CallsInFlight, InFlight, Identities, Typed, CallsTyped, CallType
  <2>2. CASE Good(call[w].from, "public", call[w].seen)
    BY <1>5, <2>1, <2>2, GoodKept DEF Scopes
  <2>3. CASE Evicting(call[w].from, i + 1) /\ who # <<"eviction", call[w].from>>
    <3>1. i + 1 \in Nat /\ (i + 1) - 1 = i
      BY <1>2
    <3>2. \A s : s = call[w].from => Evicting(s, i)'
      <4> SUFFICES ASSUME NEW s, s = call[w].from PROVE Evicting(s, i)'
        OBVIOUS
      <4>1. Evicting(s, i + 1) /\ who # <<"eviction", s>>
        BY <2>3
      <4>2. Evicting(s, (i + 1) - 1)'
        BY <3>1, <4>1, EvictingAfter
      <4> QED BY <3>1, <4>2
    <3> QED BY <1>5, <3>2
  <2>4. CASE who = <<"eviction", call[w].from>>
    BY <1>5, <2>1, <2>4
  <2> QED BY <1>3, <1>7, <2>2, <2>3, <2>4 DEF Waits
<1> QED BY <1>3, <1>5, <1>6, <1>7 DEF Waits

LEMMA CachedAfter ==
  ASSUME Typed, Ordered, Cached, NEW who, Answer(who), Loses,
         UNCHANGED <<setting, told, version, notes, home, attached>>,
         \A s \in Servers : who = <<"eviction", s>> => \A v \in Nat : Good(s, "public", v)'
  PROVE  Cached'
<1>1. \A s \in Servers : s \in Identities /\ told[s] \in Nat
  BY BoundIsNat DEF Identities, Typed, CallsTyped
<1>2. \A p \in Identities \X Scopes : entries'[p] # NoList => entries'[p].of = p[1]
  BY DEF Loses, Cached
<1>3. \A s \in Servers : Good(s, "private", told[s])'
  BY <1>1, GoodKept DEF Cached, Scopes
<1>4. \A s \in Servers : Good(s, "public", told[s])' \/ Evicting(s, Len(awaiting) + 1)'
  <2> SUFFICES ASSUME NEW s \in Servers PROVE Good(s, "public", told[s])' \/ Evicting(s, Len(awaiting) + 1)'
    OBVIOUS
  <2>1. CASE Good(s, "public", told[s])
    BY <1>1, <2>1, GoodKept DEF Scopes
  <2>2. CASE Evicting(s, Len(awaiting) + 1) /\ who # <<"eviction", s>>
    <3>1. Len(awaiting) + 1 \in Nat /\ (Len(awaiting) + 1) - 1 = Len(awaiting') + 1
      <4>1. Len(awaiting) \in Nat
        BY QueueDomain
      <4>2. Len(awaiting') = Len(awaiting) - 1
        BY AnswersFirst
      <4> QED BY <4>1, <4>2
    <3>2. \A n \in Nat : Evicting(s, n) => Evicting(s, n - 1)'
      BY <2>2, EvictingAfter
    <3> QED BY <2>2, <3>1, <3>2
  <2>3. CASE who = <<"eviction", s>>
    BY <1>1, <2>3
  <2> QED BY <2>1, <2>2, <2>3 DEF Cached
<1> QED BY <1>2, <1>3, <1>4 DEF Cached

-----------------------------------------------------------------------------
(***************************************************************************)
(* The steps of the lists.                                                 *)
(***************************************************************************)
\* A step of one call, or of none, that leaves the connections alone.
LEMMA OthersInFlight ==
  ASSUME Typed, CallsInFlight, NEW w \in Calls, InFlight(w)', \A x \in Calls : x # w => call'[x] = call[x],
         UNCHANGED <<generation, told, home, link, conn>>
  PROVE  CallsInFlight'
<1> SUFFICES ASSUME NEW x \in Calls, x # w PROVE InFlight(x)'
  BY DEF CallsInFlight
<1>1. InFlight(x)
  BY DEF CallsInFlight
<1> QED BY <1>1 DEF InFlight, Active, Alive, Busy

LEMMA OthersHit ==
  ASSUME FreshHits, NEW w \in Calls, \A x \in Calls : x # w => call'[x] = call[x],
         call'[w].at = "done" /\ call'[w].from # Nobody =>
           /\ call'[w].got.of \in {call'[w].from, call'[w].id}
           /\ call'[w].got.of = call'[w].from => call'[w].got.v >= call'[w].seen
  PROVE  FreshHits'
BY DEF FreshHits

LEMMA ListenCached == ASSUME Typed, CacheInv, NEW l \in Listens, Listen(l) \/ Listening(l) PROVE CacheInv'
<1>1. UNCHANGED <<cacheVars, home, link, conn, attached, notes, told>>
  BY DEF Listen, Listening
<1>2. CallsInFlight'
  BY <1>1 DEF CacheInv, CallsInFlight, InFlight, Active, Alive, Busy, cacheVars
<1> QED BY <1>1, <1>2, ConnectingCached DEF cacheVars, Loses

LEMMA ChangeCached ==
  ASSUME Typed, ConnectionInv, CacheInv, NEW s \in Servers, Change(s)
  PROVE  CacheInv'
<1>1. UNCHANGED <<setting, identity, entries, generation, awaiting, call, home, link, conn, attached, told>>
  BY DEF Change
<1>2. version[s] \in Nat /\ version' = [version EXCEPT ![s] = version[s] + 1]
  BY DEF Change, Typed, CallsTyped
<1>3. \A r \in Servers : version[r] \in Nat /\ told[r] \in Nat /\ version[r] <= version'[r]
  BY <1>2, BoundIsNat DEF Typed, CallsTyped
<1>4. CallsInFlight' /\ InQueue' /\ FreshHits'
  BY <1>1 DEF CacheInv, CallsInFlight, InFlight, Active, Alive, Busy, InQueue, Waits, Good, Partition, Evicting, FreshHits
<1>5. \A r \in Servers : told'[r] <= version'[r]
  <2> SUFFICES ASSUME NEW r \in Servers PROVE told[r] <= version'[r]
    BY <1>1
  <2>1. told[r] <= version[r]
    BY DEF CacheInv, Cached
  <2>2. version'[r] \in Nat
    BY <1>2, <1>3 DEF Typed, CallsTyped
  <2> QED BY <1>3, <2>1, <2>2
<1>6. \A n \in notes' : n <= version'[home'[attached']]
  <2> SUFFICES ASSUME NEW n \in notes' PROVE n <= version'[home[attached]]
    BY <1>1
  <2>1. CASE n \in notes
    <3>1. n \in Nat /\ n <= version[home[attached]]
      <4>1. n \in 1 .. MaxVersion
        BY <2>1 DEF Typed, LinksTyped
      <4>2. n <= version[home[attached]]
        BY <2>1 DEF CacheInv, Cached
      <4> QED BY <4>1, <4>2
    <3>2. attached \in Transports
      BY <2>1 DEF ConnectionInv, Notifying, Typed, LinksTyped
    <3>3. home[attached] \in Servers
      BY <3>2 DEF Typed, LinksTyped
    <3>4. version[home[attached]] \in Nat /\ version'[home[attached]] \in Nat /\ version[home[attached]] <= version'[home[attached]]
      BY <1>2, <1>3, <3>3 DEF Typed, CallsTyped
    <3> QED BY <3>1, <3>4
  <2>2. CASE n \notin notes
    <3>1. n = version[s] + 1 /\ \E t \in Transports : home[t] = s /\ Hears(t)
      BY <2>2 DEF Change
    <3>2. PICK t \in Transports : home[t] = s /\ Wire = t /\ t # None
      BY <3>1, McpClientAssumption DEF Hears, None
    <3>3. home[attached] = s
      BY <3>2 DEF Wire
    <3>4. version'[s] = version[s] + 1
      BY <1>2 DEF Typed, CallsTyped
    <3> QED BY <1>2, <3>1, <3>3, <3>4
  <2> QED BY <2>1, <2>2
<1>7. Cached'
  BY <1>1, <1>5, <1>6 DEF CacheInv, Cached, Good, Partition, Evicting
<1> QED BY <1>4, <1>7 DEF CacheInv

LEMMA NotifiedCached ==
  ASSUME Typed, ConnectionInv, Prompt, CacheInv, NEW n \in notes, Notified(n) PROVE CacheInv'
<1> DEFINE s0 == home[attached]
<1>1. /\ attached \in Transports /\ conn[attached] = "ready" /\ Alive(attached) /\ s0 \in Servers
      /\ identity = s0 /\ n \in Nat
  <2>1. attached # None /\ conn[attached] = "ready"
    BY DEF ConnectionInv, Notifying
  <2>2. attached \in Transports /\ n \in Nat
    BY <2>1 DEF Typed, LinksTyped
  <2>3. Alive(attached)
    BY <2>1 DEF ConnectionInv, Attached
  <2>4. identity = home[attached] /\ home[attached] \in Servers
    BY <2>1, <2>2, <2>3 DEF ConnectionInv, Reported, Stays, Typed, LinksTyped
  <2> QED BY <2>1, <2>2, <2>3, <2>4
<1>2. /\ generation' = generation + 1 /\ generation \in Nat
      /\ Delete(Partition(s0, "private"))
      /\ awaiting' = IF Apart THEN Append(awaiting, <<"eviction", s0>>) ELSE awaiting
  BY <1>1 DEF Notified, Evict, Typed, StateTyped
<1>3. /\ UNCHANGED <<setting, version, identity, call, home, link, conn, attached>> /\ notes' \subseteq notes
      /\ told' = [told EXCEPT ![s0] = IF n > told[s0] THEN n ELSE told[s0]]
  BY DEF Notified
<1>4. \A s \in Servers : told[s] \in Nat /\ told'[s] \in Nat /\ told[s] <= told'[s] /\ (s # s0 => told'[s] = told[s])
  <2>1. \A s \in Servers : told[s] \in Nat
    BY BoundIsNat DEF Typed, CallsTyped
  <2>2. told'[s0] = IF n > told[s0] THEN n ELSE told[s0]
    BY <1>1, <1>3 DEF Typed, CallsTyped
  <2>3. \A s \in Servers : s # s0 => told'[s] = told[s]
    BY <1>3 DEF Typed, CallsTyped
  <2> HIDE DEF s0
  <2>4. ASSUME NEW s \in Servers PROVE told'[s] \in Nat /\ told[s] <= told'[s]
    BY <1>1, <2>1, <2>2, <2>3
  <2> QED BY <2>1, <2>3, <2>4
<1>5. Loses
  BY <1>2, DeleteLoses DEF Typed
<1>6. CallsInFlight'
  <2> SUFFICES ASSUME NEW w \in Calls PROVE InFlight(w)'
    BY DEF CallsInFlight
  <2>1. InFlight(w)
    BY DEF CacheInv, CallsInFlight
  <2>2. Active(w) => call[w].gen \in Nat /\ call[w].gen < generation' /\ call[w].gen <= generation'
    BY <1>2, <2>1, BoundIsNat DEF InFlight, Typed, CallsTyped, CallType
  <2>3. call[w].at = "probing" => call[w].from \in Servers /\ call[w].seen <= told'[call[w].from]
    <3> SUFFICES ASSUME call[w].at = "probing" PROVE call[w].from \in Servers /\ call[w].seen <= told'[call[w].from]
      OBVIOUS
    <3>1. call[w].from \in Servers /\ call[w].seen <= told[call[w].from] /\ call[w].seen \in Nat
      BY <2>1, BoundIsNat DEF InFlight, Typed, CallsTyped, CallType
    <3> QED BY <1>4, <3>1
  <2>4. call[w].at \in {"served", "replied"} => Active(w)
    BY DEF Active
  <2>5. call[w].gen \in Nat
    BY BoundIsNat DEF Typed, CallsTyped, CallType
  <2> QED BY <1>2, <1>3, <2>1, <2>2, <2>3, <2>4, <2>5 DEF InFlight, Active, Alive, Busy
<1>7. /\ Len(awaiting) \in Nat /\ DOMAIN awaiting = 1 .. Len(awaiting)
      /\ DOMAIN awaiting \subseteq DOMAIN awaiting'
      /\ \A i \in DOMAIN awaiting : awaiting'[i] = awaiting[i]
      /\ Len(awaiting') \in Nat /\ Len(awaiting) <= Len(awaiting')
      /\ \A i \in DOMAIN awaiting' : i \in DOMAIN awaiting \/ awaiting'[i] = <<"eviction", s0>>
      /\ Apart => Len(awaiting') \in DOMAIN awaiting' /\ awaiting'[Len(awaiting')] = <<"eviction", s0>>
  <2>1. awaiting \in Seq(Waiter) /\ <<"eviction", s0>> \in Waiter
    BY <1>1 DEF Typed, CallsTyped, Waiter, Identities
  <2> DEFINE e == <<"eviction", s0>>
  <2> HIDE DEF e
  <2> QED BY <1>2, <2>1 DEF e
<1>8. \A s, i : i \in Nat /\ Evicting(s, i) => Evicting(s, i)'
  BY <1>7 DEF Evicting
<1>9. Good(s0, "private", told[s0])' /\ (~Apart => Good(s0, "public", told[s0])')
  <2>1. Partition(s0, "private") \in Identities \X Scopes /\ Partition(s0, "private")' = Partition(s0, "private")
    BY <1>1, <1>3, PartitionTyped DEF Identities, Scopes, Partition
  <2>2. entries'[Partition(s0, "private")] = NoList
    BY <1>2, <2>1 DEF Delete, Typed, StateTyped
  <2>3. ~Apart => Partition(s0, "public")' = Partition(s0, "private")
    BY <1>3 DEF Apart, Partition
  <2> QED BY <1>3, <2>1, <2>2, <2>3 DEF Good
<1>10. Cached'
  <2>1. \A s \in Servers : told'[s] <= version'[s]
    <3>1. n <= version[s0]
      BY DEF CacheInv, Cached
    <3>2. told'[s0] \in {n, told[s0]}
      BY <1>1, <1>3 DEF Typed, CallsTyped
    <3> HIDE DEF s0
    <3> QED BY <1>1, <1>3, <1>4, <3>1, <3>2 DEF CacheInv, Cached
  <2>2. \A m \in notes' : m <= version'[home'[attached']]
    BY <1>3 DEF CacheInv, Cached
  <2>3. \A p \in Identities \X Scopes : entries'[p] # NoList => entries'[p].of = p[1]
    BY <1>5 DEF Loses, CacheInv, Cached
  <2>4. \A s \in Servers : s # s0 => s \in Identities /\ told'[s] = told[s]
    BY <1>4 DEF Identities
  <2>5. \A s \in Servers : Good(s, "private", told[s])'
    <3> SUFFICES ASSUME NEW s \in Servers, s # s0 PROVE Good(s, "private", told[s])'
      BY <1>3, <1>9
    <3>1. Good(s, "private", told[s])
      BY DEF CacheInv, Cached
    <3> QED BY <1>3, <1>5, <2>4, <3>1, GoodKept DEF Scopes
  <2>6. \A s \in Servers : Good(s, "public", told[s])' \/ Evicting(s, Len(awaiting) + 1)'
    <3> SUFFICES ASSUME NEW s \in Servers PROVE Good(s, "public", told[s])' \/ Evicting(s, Len(awaiting) + 1)'
      OBVIOUS
    <3>1. CASE s = s0 /\ ~Apart
      BY <1>3, <1>9, <3>1
    <3>2. CASE s = s0 /\ Apart
      <4>1. Len(awaiting') < Len(awaiting') + 1
        BY <1>7
      <4> QED BY <1>3, <1>7, <3>2, <4>1 DEF Evicting
    <3>3. CASE s # s0 /\ Good(s, "public", told[s])
      BY <1>3, <1>5, <2>4, <3>3, GoodKept DEF Scopes
    <3>4. CASE Evicting(s, Len(awaiting) + 1)
      <4>1. PICK j \in DOMAIN awaiting : awaiting[j] = <<"eviction", s>>
        BY <3>4 DEF Evicting
      <4>2. j \in DOMAIN awaiting' /\ awaiting'[j] = <<"eviction", s>> /\ j < Len(awaiting') + 1
        BY <1>7, <4>1
      <4> QED BY <4>2 DEF Evicting
    <3> QED BY <3>1, <3>2, <3>3, <3>4 DEF CacheInv, Cached
  <2> QED BY <2>1, <2>2, <2>3, <2>5, <2>6 DEF Cached
<1>11. InQueue'
  <2> SUFFICES ASSUME NEW i \in DOMAIN awaiting', NEW w \in Calls, awaiting'[i] = <<"call", w>> PROVE Waits(i, w)'
    BY DEF InQueue
  <2>1. i \in DOMAIN awaiting /\ awaiting[i] = <<"call", w>> /\ i \in Nat
    BY <1>7
  <2>2. Waits(i, w) /\ InFlight(w)
    BY <2>1 DEF CacheInv, InQueue, CallsInFlight
  <2>3. \A j \in DOMAIN awaiting' : awaiting'[j] = awaiting'[i] => i = j
    BY <1>7, <2>1, <2>2 DEF Waits
  <2>4. ASSUME call[w].at = "probing"
        PROVE  Good(call[w].from, "public", call[w].seen)' \/ Evicting(call[w].from, i)'
    <3>1. call[w].from \in Identities
      BY <2>2, <2>4 DEF InFlight, Identities
    <3>2. CASE Good(call[w].from, "public", call[w].seen)
      BY <1>3, <1>5, <3>1, <3>2, GoodKept DEF Scopes
    <3>3. CASE Evicting(call[w].from, i)
      BY <1>3, <1>8, <2>1, <3>3
    <3> QED BY <2>2, <2>4, <3>2, <3>3 DEF Waits
  <2> QED BY <1>3, <2>2, <2>3, <2>4 DEF Waits
<1>12. FreshHits'
  BY <1>3 DEF CacheInv, FreshHits
<1> QED BY <1>6, <1>10, <1>11, <1>12 DEF CacheInv

LEMMA GoodStays ==
  ASSUME UNCHANGED <<setting, entries>>, NEW s, NEW scope, NEW v, Good(s, scope, v) PROVE Good(s, scope, v)'
BY DEF Good, Partition

\* A call begins to wait.
LEMMA InQueueLonger ==
  ASSUME Typed, CallsInFlight, InQueue, NEW w \in Calls, NEW s, NEW v, setting' = setting,
         call[w].at \notin {"probing", "writing"}, call'[w].at \in {"probing", "writing"},
         awaiting' = Append(awaiting, <<"call", w>>),
         \A x \in Calls : x # w => call'[x] = call[x],
         \A x \in Calls : x # w /\ call[x].at = "probing" /\ Good(call[x].from, "public", call[x].seen) =>
           Good(call[x].from, "public", call[x].seen)',
         call'[w].at = "probing" => call'[w].from = s /\ call'[w].seen = v,
         call'[w].at = "probing" => Good(s, "public", v)' \/ Evicting(s, Len(awaiting) + 1)
  PROVE  InQueue' /\ \A r : Evicting(r, Len(awaiting) + 1) => Evicting(r, Len(awaiting) + 1)'
<1>1. /\ Len(awaiting) \in Nat /\ DOMAIN awaiting = 1 .. Len(awaiting)
      /\ Len(awaiting') = Len(awaiting) + 1 /\ DOMAIN awaiting' = 1 .. Len(awaiting) + 1
      /\ \A i \in DOMAIN awaiting : awaiting'[i] = awaiting[i]
      /\ awaiting'[Len(awaiting) + 1] = <<"call", w>>
  <2>1. awaiting \in Seq(Waiter) /\ <<"call", w>> \in Waiter
    BY DEF Typed, CallsTyped, Waiter
  <2> DEFINE e == <<"call", w>>
  <2> HIDE DEF e
  <2> QED BY <2>1 DEF e
<1>2. \A r, i : Evicting(r, i) => Evicting(r, i)'
  BY <1>1 DEF Evicting
<1>3. \A r : Evicting(r, Len(awaiting) + 1) => Evicting(r, Len(awaiting) + 1)'
  <2> SUFFICES ASSUME NEW r, Evicting(r, Len(awaiting) + 1) PROVE Evicting(r, Len(awaiting) + 1)'
    OBVIOUS
  <2>1. PICK j \in DOMAIN awaiting : awaiting[j] = <<"eviction", r>>
    BY DEF Evicting
  <2>2. j \in DOMAIN awaiting' /\ awaiting'[j] = <<"eviction", r>> /\ j < Len(awaiting') + 1
    BY <1>1, <2>1
  <2> QED BY <2>2 DEF Evicting
<1>4. \A i \in DOMAIN awaiting : awaiting[i] # <<"call", w>>
  BY DEF InQueue, Waits
<1>5. InQueue'
  <2> SUFFICES ASSUME NEW i \in DOMAIN awaiting', NEW x \in Calls, awaiting'[i] = <<"call", x>> PROVE Waits(i, x)'
    BY DEF InQueue
  <2>1. CASE i \in DOMAIN awaiting
    <3>1. awaiting[i] = <<"call", x>> /\ x # w /\ call'[x] = call[x]
      BY <1>1, <1>4, <2>1
    <3>2. Waits(i, x)
      BY <2>1, <3>1 DEF InQueue
    <3>3. \A j \in DOMAIN awaiting' : awaiting'[j] = awaiting'[i] => i = j
      <4> SUFFICES ASSUME NEW j \in DOMAIN awaiting', awaiting'[j] = awaiting'[i] PROVE i = j
        OBVIOUS
      <4>1. j \in DOMAIN awaiting
        <5> SUFFICES ASSUME j = Len(awaiting) + 1 PROVE FALSE
          BY <1>1
        <5>1. <<"call", w>> = <<"call", x>>
          BY <1>1
        <5> QED BY <3>1, <5>1
      <4> QED BY <1>1, <2>1, <3>2, <4>1 DEF Waits
    <3> QED BY <1>2, <3>1, <3>2, <3>3 DEF Waits
  <2>2. CASE i \notin DOMAIN awaiting
    <3>1. i = Len(awaiting) + 1 /\ awaiting'[i] = <<"call", w>>
      BY <1>1, <2>2
    <3>2. x = w
      BY <3>1
    <3>3. \A j \in DOMAIN awaiting' : awaiting'[j] = awaiting'[i] => i = j
      <4> SUFFICES ASSUME NEW j \in DOMAIN awaiting', awaiting'[j] = awaiting'[i] PROVE i = j
        OBVIOUS
      <4>1. j \notin DOMAIN awaiting
        BY <1>1, <1>4, <3>1
      <4> QED BY <1>1, <3>1, <4>1
    <3>4. ASSUME call'[w].at = "probing"
          PROVE  Good(call[w].from, "public", call[w].seen)' \/ Evicting(call[w].from, i)'
      <4>1. call'[w].from = s /\ call'[w].seen = v
        BY <3>4
      <4>2. Good(s, "public", v)' \/ Evicting(s, i)'
        BY <1>2, <3>1, <3>4
      <4> QED BY <4>1, <4>2
    <3> QED BY <3>2, <3>3, <3>4 DEF Waits
  <2> QED BY <2>1, <2>2
<1> QED BY <1>3, <1>5

\* No call is made but on a connection that was reported.
LEMMA WireIsReady ==
  ASSUME Typed, ConnectionInv, \A t \in Transports : ~Busy(t), Wire # None
  PROVE  Wire \in Transports /\ conn[Wire] = "ready" /\ Alive(Wire)
<1>1. Wire \in Transports /\ link[Wire] = "up"
  BY WireTyped DEF Typed, Wire
<1>2. conn[Wire] \notin {"new", "rejected"}
  BY <1>1 DEF ConnectionInv, InOrder, Attached
<1> QED BY <1>1, <1>2 DEF Busy, Alive

LEMMA AskingInFlight ==
  ASSUME Typed, ConnectionInv, \A t \in Transports : ~Busy(t), NEW w \in Calls, NEW c \in CallType,
         call'[w] = Asking(c, Wire), UNCHANGED <<generation, told, home, link, conn>>
  PROVE  InFlight(w)' /\ call'[w].from = Nobody /\ call'[w].at \in {"asking", "failed"}
<1>1. /\ call'[w].at = IF Wire = None THEN "failed" ELSE "asking"
      /\ call'[w].on = Wire /\ call'[w].gen = generation /\ call'[w].from = Nobody
  BY DEF Asking, CallType
<1>2. generation \in Nat
  BY DEF Typed, StateTyped
<1>3. Wire # None => Wire \in Transports /\ conn'[Wire] = "ready" /\ Alive(Wire)
  BY WireIsReady
<1> DEFINE t == Wire
<1>4. call'[w].on = t /\ (t # None => t \in Transports /\ conn'[t] = "ready" /\ link[t] \in {"up", "failed", "closing"})
  BY <1>1, <1>3 DEF Alive
<1>5. call'[w].at = IF t = None THEN "failed" ELSE "asking"
  BY <1>1
<1> HIDE DEF t
<1> QED BY <1>1, <1>2, <1>4, <1>5 DEF InFlight, Active, Alive

LEMMA ListCallCached ==
  ASSUME Typed, ConnectionInv, CacheInv, NEW w \in Calls, ListCall(w) PROVE CacheInv'
<1> DEFINE s == home[negotiated]
           c == [[Idle EXCEPT !.from = home[negotiated], !.seen = told[home[negotiated]]] EXCEPT !.id = identity]
           held == entries[Partition(identity, "private")]
<1>1. PICK fresh \in BOOLEAN :
        ProbeOwn(w, [Idle EXCEPT !.from = home[negotiated], !.seen = told[home[negotiated]]], Wire, fresh)
  BY DEF ListCall
<1>2. UNCHANGED <<setting, version, identity, entries, generation, home, link, conn, attached, notes, told>>
  BY DEF ListCall, clientVars
<1>3. /\ s \in Servers /\ told[s] \in Nat
      /\ c \in CallType /\ c.from = s /\ c.seen = told[s] /\ c.id = identity
  <2>1. negotiated \in Transports
    BY DEF ListCall, Typed, StateTyped
  <2>2. s \in Servers /\ told[s] \in 0 .. MaxVersion /\ identity \in Identities
    BY <2>1 DEF Typed, LinksTyped, CallsTyped, StateTyped
  <2>3. Idle \in CallType /\ s \in Identities
    BY <2>2, IdleTyped DEF Identities
  <2> HIDE DEF s
  <2>4. /\ [Idle EXCEPT !.from = s, !.seen = told[s]] \in CallType
        /\ [Idle EXCEPT !.from = s, !.seen = told[s]].from = s /\ [Idle EXCEPT !.from = s, !.seen = told[s]].seen = told[s]
    BY <2>2, <2>3 DEF CallType
  <2> DEFINE d == [Idle EXCEPT !.from = s, !.seen = told[s]]
  <2>5. d \in CallType /\ d.from = s /\ d.seen = told[s]
    BY <2>4
  <2>6. c = [d EXCEPT !.id = identity]
    BY DEF s
  <2> HIDE DEF d, c
  <2> QED BY <2>2, <2>5, <2>6, BoundIsNat DEF CallType
<1>4. \/ Apart /\ awaiting' = Append(awaiting, <<"call", w>>) /\ call' = [call EXCEPT ![w] = [c EXCEPT !.at = "probing"]]
      \/ awaiting' = awaiting /\ held # NoList /\ call' = [call EXCEPT ![w] = Got(c, held)]
      \/ awaiting' = awaiting /\ call' = [call EXCEPT ![w] = Asking(c, Wire)]
  BY <1>1 DEF ProbeOwn
<1> HIDE DEF c, held, s
<1>5. /\ call[w].at \notin {"probing", "writing"} /\ \A t \in Transports : ~Busy(t)
      /\ \A x \in Calls : x # w => call'[x] = call[x]
  BY <1>4 DEF ListCall, Resting, InProgress, Busy, Typed, CallsTyped
<1>6. call \in [Calls -> CallType] /\ Loses
  BY <1>2 DEF Typed, CallsTyped, Loses
<1>7. CASE Apart /\ awaiting' = Append(awaiting, <<"call", w>>) /\ call' = [call EXCEPT ![w] = [c EXCEPT !.at = "probing"]]
  <2>1. call'[w].at = "probing" /\ call'[w].from = s /\ call'[w].seen = told[s]
    BY <1>3, <1>6, <1>7 DEF CallType
  <2>2. InFlight(w)'
    <3>1. told'[s] = told[s] /\ told[s] <= told[s] /\ \A t \in Transports : ~Busy(t)'
      BY <1>2, <1>3, <1>5 DEF Busy
    <3> QED BY <1>2, <1>3, <2>1, <3>1 DEF InFlight, Active
  <2>3. CallsInFlight'
    BY <1>2, <1>5, <2>2, OthersInFlight DEF CacheInv
  <2>4. Good(s, "public", told[s]) \/ Evicting(s, Len(awaiting) + 1)
    BY <1>3 DEF CacheInv, Cached
  <2>5. InQueue' /\ \A r : Evicting(r, Len(awaiting) + 1) => Evicting(r, Len(awaiting) + 1)'
    <3>1. \A x \in Calls : x # w /\ call[x].at = "probing" /\ Good(call[x].from, "public", call[x].seen) =>
            Good(call[x].from, "public", call[x].seen)'
      BY <1>2, <1>5 DEF Good, Partition
    <3>2. \A r, v : Good(r, "public", v) => Good(r, "public", v)'
      BY <1>2 DEF Good, Partition
    <3>3. PICK r, v : r = s /\ v = told[s]
      OBVIOUS
    <3>4. call'[w].from = r /\ call'[w].seen = v /\ (Good(r, "public", v)' \/ Evicting(r, Len(awaiting) + 1))
      BY <2>1, <2>4, <3>2, <3>3
    <3> QED BY <1>2, <1>5, <1>7, <2>1, <3>1, <3>4, InQueueLonger DEF CacheInv
  <2>6. Cached'
    <3>1. \A r \in Servers : Good(r, "public", told[r])' \/ Evicting(r, Len(awaiting) + 1)'
      <4> SUFFICES ASSUME NEW r \in Servers PROVE Good(r, "public", told[r])' \/ Evicting(r, Len(awaiting) + 1)'
        OBVIOUS
      <4>1. Good(r, "public", told[r]) \/ Evicting(r, Len(awaiting) + 1)
        BY DEF CacheInv, Cached
      <4>2. Good(r, "public", told[r]) => Good(r, "public", told[r])'
        BY <1>2 DEF Good, Partition
      <4> QED BY <2>5, <4>1, <4>2
    <3>2. \A r \in Servers : Good(r, "private", told[r])'
      BY <1>2 DEF CacheInv, Cached, Good, Partition
    <3> QED BY <1>2, <3>1, <3>2 DEF CacheInv, Cached
  <2>7. FreshHits'
    BY <1>5, <2>1, OthersHit DEF CacheInv
  <2> QED BY <2>3, <2>5, <2>6, <2>7 DEF CacheInv
<1>8. ASSUME awaiting' = awaiting, call'[w].at \in {"done", "asking", "failed"}, InFlight(w)',
             call'[w].at = "done" /\ call'[w].from # Nobody =>
               /\ call'[w].got.of \in {call'[w].from, call'[w].id}
               /\ call'[w].got.of = call'[w].from => call'[w].got.v >= call'[w].seen
      PROVE  CacheInv'
  <2>1. CallsInFlight'
    BY <1>2, <1>5, <1>8, OthersInFlight DEF CacheInv
  <2>2. InQueue'
    <3>1. \A x \in Calls : call[x].at \in {"probing", "writing"} => call'[x] = call[x]
      BY <1>5
    <3> QED BY <1>2, <1>6, <1>8, <3>1, InQueueKept DEF CacheInv
  <2>3. Cached'
    <3>1. \A n \in notes' : n <= version[home'[attached']]
      BY <1>2 DEF CacheInv, Cached
    <3> QED BY <1>2, <1>6, <1>8, <3>1, CachedKept DEF CacheInv
  <2>4. FreshHits'
    BY <1>5, <1>8, OthersHit DEF CacheInv
  <2> QED BY <2>1, <2>2, <2>3, <2>4 DEF CacheInv
<1>9. CASE awaiting' = awaiting /\ held # NoList /\ call' = [call EXCEPT ![w] = Got(c, held)]
  <2>1. /\ call'[w].at = "done" /\ call'[w].from = s /\ call'[w].seen = told[s] /\ call'[w].id = identity
        /\ call'[w].got = held
    BY <1>3, <1>6, <1>9 DEF Got, CallType
  <2>2. identity \in Identities
    BY DEF Typed, StateTyped
  <2>3. held.of = identity
    <3>1. Partition(identity, "private") \in Identities \X Scopes /\ Partition(identity, "private")[1] = identity
      BY <2>2, PartitionTyped DEF Scopes, Partition
    <3> QED BY <1>9, <3>1 DEF CacheInv, Cached, held
  <2>4. held.of = s => held.v >= told[s]
    <3> SUFFICES ASSUME identity = s PROVE held.v >= told[s]
      BY <2>3
    <3>1. Good(s, "private", told[s])
      BY <1>3 DEF CacheInv, Cached
    <3> QED BY <1>9, <3>1 DEF Good, held
  <2>5. InFlight(w)'
    BY <2>1 DEF InFlight, Active
  <2> QED BY <1>8, <1>9, <2>1, <2>3, <2>4, <2>5
<1>10. CASE awaiting' = awaiting /\ call' = [call EXCEPT ![w] = Asking(c, Wire)]
  <2>1. call'[w] = Asking(c, Wire)
    BY <1>6, <1>10
  <2>2. InFlight(w)' /\ call'[w].from = Nobody /\ call'[w].at \in {"asking", "failed"}
    BY <1>2, <1>3, <1>5, <2>1, AskingInFlight
  <2> QED BY <1>8, <1>10, <2>2
<1> QED BY <1>4, <1>7, <1>9, <1>10

LEMMA TimerFiresCached ==
  ASSUME Typed, ConnectionInv, Prompt, CacheInv, TimerFires PROVE CacheInv'
<1>1. PICK w \in Calls : Resting(w) /\ call' = [call EXCEPT ![w] = Asking(Idle, Wire)]
  BY DEF TimerFires
<1>2. UNCHANGED <<setting, version, entries, generation, awaiting, home, link, conn, attached, notes, told>>
  BY DEF TimerFires
<1>3. \A t \in Transports : ~Busy(t)
  BY DEF TimerFires, ConnectionInv, Notifying
<1>4. call'[w] = Asking(Idle, Wire) /\ \A x \in Calls : x # w => call'[x] = call[x]
  BY <1>1 DEF Typed, CallsTyped
<1>5. InFlight(w)' /\ call'[w].from = Nobody /\ call'[w].at \in {"asking", "failed"}
  BY <1>2, <1>3, <1>4, IdleTyped, AskingInFlight
<1>6. CallsInFlight'
  BY <1>2, <1>4, <1>5, OthersInFlight DEF CacheInv
<1>7. InQueue'
  <2>1. \A x \in Calls : call[x].at \in {"probing", "writing"} => call'[x] = call[x]
    BY <1>1, <1>4 DEF Resting
  <2> QED BY <1>2, <2>1, InQueueKept DEF CacheInv, Loses
<1>8. Cached'
  <2>1. \A n \in notes' : n <= version[home'[attached']]
    BY <1>2 DEF CacheInv, Cached
  <2> QED BY <1>2, <2>1, CachedKept DEF CacheInv, Loses
<1>9. FreshHits'
  BY <1>4, <1>5, OthersHit DEF CacheInv
<1> QED BY <1>6, <1>7, <1>8, <1>9 DEF CacheInv

\* A step of one call that leaves the store alone, and its queue.
LEMMA CallCached ==
  ASSUME Typed, CacheInv, NEW w \in Calls, InFlight(w)', \A x \in Calls : x # w => call'[x] = call[x],
         call[w].at \notin {"probing", "writing"}, call'[w].at # "done" \/ call'[w].from = Nobody,
         UNCHANGED <<setting, version, entries, generation, awaiting, home, link, conn, attached, notes, told>>
  PROVE  CacheInv'
<1>1. CallsInFlight'
  BY OthersInFlight DEF CacheInv
<1>2. InQueue'
  <2>1. \A x \in Calls : call[x].at \in {"probing", "writing"} => call'[x] = call[x]
    OBVIOUS
  <2> QED BY <2>1, InQueueKept DEF CacheInv, Loses
<1>3. Cached'
  <2>1. \A n \in notes' : n <= version[home'[attached']]
    BY DEF CacheInv, Cached
  <2> QED BY <2>1, CachedKept DEF CacheInv, Loses
<1>4. FreshHits'
  BY OthersHit DEF CacheInv
<1> QED BY <1>1, <1>2, <1>3, <1>4 DEF CacheInv

LEMMA ExchangedCached ==
  ASSUME Typed, ConnectionInv, CacheInv, NEW w \in Calls, Exchanged(w) PROVE CacheInv'
<1>1. UNCHANGED <<setting, version, entries, generation, awaiting, home, link, conn, attached, notes, told>>
  BY DEF Exchanged, clientVars
<1>2. call \in [Calls -> CallType] /\ InFlight(w)
  BY DEF Typed, CallsTyped, CacheInv, CallsInFlight
<1>3. CASE Serve(w, home[call[w].on])
  <2> DEFINE s == home[call[w].on]
             list == [of |-> s, v |-> version[s]]
  <2>1. PICK scope \in Scopes :
          call' = [call EXCEPT ![w] = [@ EXCEPT !.at = "served", !.got = list, !.scope = IF Apart THEN scope ELSE "public"]]
    BY <1>3 DEF Serve
  <2> DEFINE kind == IF Apart THEN scope ELSE "public"
             c == [call[w] EXCEPT !.at = "served", !.got = list, !.scope = kind]
  <2>2. call' = [call EXCEPT ![w] = c]
    BY <1>2, <2>1
  <2>3. call[w].at = "asking" /\ Active(w) /\ call[w].on \in Transports
    BY <1>2, <1>3 DEF Serve, Active, InFlight
  <2>4. s \in Servers /\ told[s] <= version[s]
    BY <2>3 DEF Typed, LinksTyped, CacheInv, Cached
  <2> HIDE DEF kind
  <2>5. /\ c.at = "served" /\ c.got = list /\ c.from = call[w].from /\ c.on = call[w].on /\ c.gen = call[w].gen
    BY <1>2 DEF CallType
  <2>6. list.of = s /\ list.v = version[s]
    OBVIOUS
  <2> HIDE DEF c, list, s
  <2>7. call'[w] = c /\ \A x \in Calls : x # w => call'[x] = call[x]
    BY <1>2, <2>2
  <2>8. InFlight(w)'
    <3>1. /\ call'[w].at = "served" /\ call'[w].got.of = s /\ call'[w].got.v >= told[s] /\ call'[w].from = Nobody
          /\ call'[w].on = call[w].on /\ call'[w].gen = call[w].gen
      BY <1>2, <2>3, <2>4, <2>5, <2>6, <2>7 DEF InFlight, Typed, CallsTyped
    <3>2. conn[call[w].on] = "ready" /\ Alive(call[w].on) /\ call[w].gen <= generation
      BY <1>2, <2>3 DEF InFlight
    <3> QED BY <1>1, <2>3, <3>1, <3>2 DEF InFlight, Active, Alive, s
  <2> QED BY <1>1, <2>3, <2>5, <2>7, <2>8, CallCached
<1>4. CASE Reply(w)
  <2>1. /\ call[w].at = "served" /\ call'[w] = [call[w] EXCEPT !.at = "replied"]
        /\ \A x \in Calls : x # w => call'[x] = call[x]
    BY <1>2, <1>4 DEF Reply
  <2>2. /\ call'[w].at = "replied" /\ call'[w].from = call[w].from /\ call'[w].on = call[w].on
        /\ call'[w].gen = call[w].gen /\ call'[w].got = call[w].got
    BY <1>2, <2>1 DEF CallType
  <2>3. InFlight(w)'
    BY <1>1, <1>2, <2>1, <2>2 DEF InFlight, Active, Alive
  <2> QED BY <1>1, <2>1, <2>2, <2>3, CallCached
<1> QED BY <1>3, <1>4 DEF Exchanged

LEMMA WriteCached ==
  ASSUME Typed, ConnectionInv, Prompt, CacheInv, NEW w \in Calls, Answered(w), Write(w) PROVE CacheInv'
<1>1. UNCHANGED <<setting, version, generation, home, link, conn, attached, notes, told>>
  BY DEF Answered, clientVars
<1>2. call \in [Calls -> CallType] /\ InFlight(w) /\ call[w].at = "replied" /\ Active(w) /\ call[w].from = Nobody
  BY DEF Typed, CallsTyped, CacheInv, CallsInFlight, Write, Active, InFlight
<1>3. CASE ~Current(w)
  <2>1. call' = [call EXCEPT ![w].at = "done"] /\ UNCHANGED <<entries, awaiting>>
    BY <1>3 DEF Write
  <2>2. /\ call'[w] = [call[w] EXCEPT !.at = "done"] /\ \A x \in Calls : x # w => call'[x] = call[x]
    BY <1>2, <2>1
  <2>3. call'[w].at = "done" /\ call'[w].from = Nobody
    BY <1>2, <2>2 DEF CallType
  <2>4. InFlight(w)'
    BY <2>3 DEF InFlight, Active
  <2> QED BY <1>1, <1>2, <2>1, <2>2, <2>3, <2>4, CallCached
<1>4. CASE Current(w)
  <2> DEFINE p == Partition(identity, call[w].scope)
  <2>1. /\ entries' = [entries EXCEPT ![p] = call[w].got]
        /\ call' = [call EXCEPT ![w] = [call[w] EXCEPT !.at = IF Apart THEN "writing" ELSE "done", !.id = identity]]
        /\ awaiting' = IF Apart THEN Append(awaiting, <<"call", w>>) ELSE awaiting
    BY <1>2, <1>4 DEF Write
  <2>2. /\ call'[w].at = (IF Apart THEN "writing" ELSE "done") /\ call'[w].from = Nobody
        /\ \A x \in Calls : x # w => call'[x] = call[x]
    BY <1>2, <2>1 DEF CallType
  <2>3. /\ identity \in Servers /\ call[w].got.of = identity /\ call[w].got.v >= told[identity]
        /\ call[w].got.v \in Nat /\ told[identity] \in Nat
    <3>1. call[w].on \in Transports /\ conn[call[w].on] = "ready" /\ Alive(call[w].on)
      BY <1>2 DEF InFlight
    <3>2. identity = home[call[w].on] /\ identity \in Servers
      BY <3>1 DEF ConnectionInv, Reported, Stays, Typed, LinksTyped
    <3>3. call[w].got.of = identity /\ call[w].got.v >= told[identity]
      BY <1>2, <1>4, <3>2 DEF InFlight, Current
    <3>4. call[w].got \in Lists /\ told[identity] \in 0 .. MaxVersion
      BY <1>2, <3>2 DEF CallType, Typed, CallsTyped
    <3> QED BY <3>2, <3>3, <3>4, BoundIsNat DEF Lists
  <2>4. p \in Identities \X Scopes /\ p[1] = identity
    <3>1. call[w].scope \in Scopes /\ identity \in Identities
      BY <1>2 DEF CallType, Typed, StateTyped
    <3> QED BY <3>1, PartitionTyped DEF Partition
  <2> HIDE DEF p
  <2>5. entries'[p] = call[w].got /\ \A q \in Identities \X Scopes : q # p => entries'[q] = entries[q]
    BY <2>1, <2>4 DEF Typed, StateTyped
  <2>6. ASSUME NEW s \in Servers, NEW scope \in Scopes, NEW v \in Nat, s = identity => v <= told[s], Good(s, scope, v)
        PROVE  Good(s, scope, v)'
    <3>1. Partition(s, scope) \in Identities \X Scopes /\ Partition(s, scope)[1] = s /\ Partition(s, scope)' = Partition(s, scope)
      BY <1>1, PartitionTyped DEF Partition, Identities
    <3>2. CASE Partition(s, scope) = p
      <4>1. s = identity /\ call[w].got.v >= v
        BY <2>3, <2>4, <2>6, <3>1, <3>2
      <4> QED BY <2>5, <3>1, <3>2, <4>1 DEF Good
    <3>3. CASE Partition(s, scope) # p
      BY <2>5, <2>6, <3>1, <3>3 DEF Good
    <3> QED BY <3>2, <3>3
  <2>7. InFlight(w)'
    BY <2>2 DEF InFlight, Active
  <2>8. CallsInFlight'
    BY <1>1, <2>2, <2>7, OthersInFlight DEF CacheInv
  <2>9. \A s \in Servers : told[s] \in Nat
    BY BoundIsNat DEF Typed, CallsTyped
  <2>10. InQueue' /\ \A s : Evicting(s, Len(awaiting) + 1) => Evicting(s, Len(awaiting) + 1)'
    <3>1. CASE Apart
      <4>1. \A x \in Calls : x # w /\ call[x].at = "probing" /\ Good(call[x].from, "public", call[x].seen) =>
              Good(call[x].from, "public", call[x].seen)'
        <5> SUFFICES ASSUME NEW x \in Calls, x # w, call[x].at = "probing", Good(call[x].from, "public", call[x].seen)
                     PROVE  Good(call[x].from, "public", call[x].seen)'
          OBVIOUS
        <5>1. call[x].from \in Servers /\ call[x].seen <= told[call[x].from] /\ call[x].seen \in Nat
          BY BoundIsNat DEF CacheInv, CallsInFlight, InFlight, Typed, CallsTyped, CallType
        <5>2. PICK s \in Servers, v \in Nat : s = call[x].from /\ v = call[x].seen
          BY <5>1
        <5>3. Good(s, "public", v)'
          BY <2>6, <5>1, <5>2 DEF Scopes
        <5> QED BY <2>2, <5>2, <5>3
      <4>2. call'[w].at = "writing" /\ awaiting' = Append(awaiting, <<"call", w>>)
        BY <2>1, <2>2, <3>1
      <4>3. call[w].at \notin {"probing", "writing"}
        BY <1>2
      <4> QED BY <1>1, <2>2, <4>1, <4>2, <4>3, InQueueLonger DEF CacheInv
    <3>2. CASE ~Apart
      <4>1. awaiting = <<>> /\ awaiting' = <<>>
        BY <2>1, <3>2 DEF Apart, Typed, CallsTyped
      <4> QED BY <4>1 DEF InQueue, Evicting
    <3> QED BY <3>1, <3>2
  <2>11. Cached'
    <3>1. \A q \in Identities \X Scopes : entries'[q] # NoList => entries'[q].of = q[1]
      BY <2>3, <2>4, <2>5 DEF CacheInv, Cached
    <3>2. \A s \in Servers : Good(s, "private", told[s])'
      <4> SUFFICES ASSUME NEW s \in Servers PROVE Good(s, "private", told[s])'
        OBVIOUS
      <4>1. Good(s, "private", told[s])
        BY DEF CacheInv, Cached
      <4>2. PICK v \in Nat : v = told[s]
        BY <2>9
      <4>3. Good(s, "private", v)'
        BY <2>6, <2>9, <4>1, <4>2 DEF Scopes
      <4> QED BY <1>1, <4>2, <4>3
    <3>3. \A s \in Servers : Good(s, "public", told[s])' \/ Evicting(s, Len(awaiting) + 1)'
      <4> SUFFICES ASSUME NEW s \in Servers, Good(s, "public", told[s]) PROVE Good(s, "public", told[s])'
        BY <2>10 DEF CacheInv, Cached
      <4>1. PICK v \in Nat : v = told[s]
        BY <2>9
      <4>2. Good(s, "public", v)'
        BY <2>6, <2>9, <4>1 DEF Scopes
      <4> QED BY <1>1, <4>1, <4>2
    <3> QED BY <1>1, <3>1, <3>2, <3>3 DEF CacheInv, Cached
  <2>12. FreshHits'
    BY <2>2, OthersHit DEF CacheInv
  <2> QED BY <2>8, <2>10, <2>11, <2>12 DEF CacheInv
<1> QED BY <1>3, <1>4

LEMMA ClearOppositeCached ==
  ASSUME Typed, Ordered, ConnectionInv, CacheInv, NEW w \in Calls, Answered(w), ClearOpposite(w) PROVE CacheInv'
<1>1. UNCHANGED <<setting, version, generation, home, link, conn, attached, notes, told>>
  BY DEF Answered, clientVars
<1>2. call[w].at = "writing" /\ call[w] \in CallType /\ Answer(<<"call", w>>) /\ call' = [call EXCEPT ![w].at = "done"]
  BY DEF ClearOpposite, Typed, CallsTyped
<1>3. Loses
  BY DeleteLoses DEF ClearOpposite, Typed
<1>4. call'[w].at = "done" /\ call'[w].from = Nobody /\ \A x \in Calls : x # w => call'[x] = call[x]
  BY <1>2 DEF CallType, Typed, CallsTyped, CacheInv, CallsInFlight, InFlight
<1>5. CallsInFlight'
  <2>1. InFlight(w)'
    BY <1>4 DEF InFlight, Active
  <2> QED BY <1>1, <1>4, <2>1, OthersInFlight DEF CacheInv
<1>6. \A x \in Calls : <<"call", w>> # <<"call", x>> => call'[x] = call[x]
  BY <1>4
<1>7. \A s \in Servers : <<"call", w>> # <<"eviction", s>>
  OBVIOUS
<1>8. InQueue' /\ Cached'
  <2> DEFINE who == <<"call", w>>
  <2>1. Answer(who)
    BY <1>2
  <2>2. /\ \A x \in Calls : who # <<"call", x>> => call'[x] = call[x]
        /\ \A s \in Servers : who # <<"eviction", s>>
    BY <1>6, <1>7
  <2> HIDE DEF who
  <2>3. InQueue'
    BY <1>1, <1>3, <2>1, <2>2, InQueueAfter DEF CacheInv
  <2>4. Cached'
    BY <1>1, <1>3, <2>1, <2>2, CachedAfter DEF CacheInv
  <2> QED BY <2>3, <2>4
<1>9. FreshHits'
  BY <1>4, OthersHit DEF CacheInv
<1> QED BY <1>5, <1>8, <1>9 DEF CacheInv

LEMMA ProbeSharedCached ==
  ASSUME Typed, Ordered, ConnectionInv, CacheInv, NEW w \in Calls, ProbeSharedAt(w) PROVE CacheInv'
<1> DEFINE c == [call[w] EXCEPT !.id = identity]
           held == entries[Partition(identity, "public")]
           who == <<"call", w>>
<1>1. UNCHANGED <<setting, version, entries, generation, home, link, conn, attached, notes, told>>
  BY DEF ProbeSharedAt, clientVars
<1>2. /\ call[w].at = "probing" /\ call[w] \in CallType /\ identity \in Identities
      /\ Answer(who)
      /\ \/ held # NoList /\ call' = [call EXCEPT ![w] = Got(c, held)]
         \/ call' = [call EXCEPT ![w] = Asking(c, Wire)]
  <2>1. PICK fresh \in BOOLEAN : ProbeShared(w, Wire, fresh)
    BY DEF ProbeSharedAt
  <2>2. call[w].at = "probing"
    BY <2>1, <1>1 DEF ProbeShared
  <2>3. call[w] \in CallType /\ identity \in Identities
    BY DEF Typed, CallsTyped, StateTyped
  <2> QED BY <2>1, <2>2, <2>3 DEF ProbeShared
<1>3. /\ \A x \in Calls : who # <<"call", x>> => call'[x] = call[x]
      /\ \A x \in Calls : x # w => call'[x] = call[x]
      /\ \A s \in Servers : who # <<"eviction", s>>
  <2>1. \A x \in Calls : x # w => call'[x] = call[x]
    BY <1>2 DEF Typed, CallsTyped
  <2> QED BY <2>1
<1>4. c \in CallType /\ c.from = call[w].from /\ c.seen = call[w].seen /\ c.id = identity
  BY <1>2 DEF CallType
<1>5. /\ \A t \in Transports : ~Busy(t)
      /\ Good(call[w].from, "public", call[w].seen)
  <2>1. InFlight(w)
    BY DEF CacheInv, CallsInFlight
  <2>2. 1 \in DOMAIN awaiting /\ awaiting[1] = who /\ DOMAIN awaiting = 1 .. Len(awaiting)
    BY <1>2, AnswersFirst, QueueDomain
  <2>3. Good(call[w].from, "public", call[w].seen) \/ Evicting(call[w].from, 1)
    BY <1>2, <2>2 DEF CacheInv, InQueue, Waits
  <2>4. ~Evicting(call[w].from, 1)
    BY <2>2 DEF Evicting
  <2> QED BY <1>2, <2>1, <2>3, <2>4 DEF InFlight
<1> HIDE DEF c, held, who
<1>6. Cached' /\ InQueue'
  <2>1. Loses
    BY <1>1 DEF Loses
  <2>2. InQueue'
    BY <1>1, <1>2, <1>3, <2>1, InQueueAfter DEF CacheInv
  <2>3. Cached'
    BY <1>1, <1>2, <1>3, <2>1, CachedAfter DEF CacheInv
  <2> QED BY <2>2, <2>3
<1>7. CASE held # NoList /\ call' = [call EXCEPT ![w] = Got(c, held)]
  <2>1. /\ call'[w].at = "done" /\ call'[w].from = call[w].from /\ call'[w].seen = call[w].seen
        /\ call'[w].id = identity /\ call'[w].got = held
    <3>1. call'[w] = Got(c, held)
      BY <1>7 DEF Typed, CallsTyped
    <3> QED BY <1>4, <3>1 DEF Got, CallType
  <2>2. held.of = identity
    <3>1. Partition(identity, "public") \in Identities \X Scopes /\ Partition(identity, "public")[1] = identity
      BY <1>2, PartitionTyped DEF Scopes, Partition
    <3> QED BY <1>7, <3>1 DEF CacheInv, Cached, held
  <2>3. held.of = call[w].from => held.v >= call[w].seen
    <3> SUFFICES ASSUME identity = call[w].from PROVE held.v >= call[w].seen
      BY <2>2
    <3> QED BY <1>5, <1>7 DEF Good, held
  <2>4. FreshHits'
    BY <1>3, <2>1, <2>2, <2>3, OthersHit DEF CacheInv
  <2>5. CallsInFlight'
    <3>1. InFlight(w)'
      BY <2>1 DEF InFlight, Active
    <3> QED BY <1>1, <1>3, <3>1, OthersInFlight DEF CacheInv
  <2> QED BY <1>6, <2>4, <2>5 DEF CacheInv
<1>8. CASE call' = [call EXCEPT ![w] = Asking(c, Wire)]
  <2>1. call'[w] = Asking(c, Wire)
    BY <1>8 DEF Typed, CallsTyped
  <2>2. InFlight(w)' /\ call'[w].from = Nobody /\ call'[w].at \in {"asking", "failed"}
    BY <1>1, <1>4, <1>5, <2>1, AskingInFlight
  <2>3. FreshHits'
    BY <1>3, <2>2, OthersHit DEF CacheInv
  <2>4. CallsInFlight'
    BY <1>1, <1>3, <2>2, OthersInFlight DEF CacheInv
  <2> QED BY <1>6, <2>3, <2>4 DEF CacheInv
<1> QED BY <1>2, <1>7, <1>8

LEMMA EvictSharedCached ==
  ASSUME Typed, Ordered, CacheInv, EvictShared, UNCHANGED clientVars PROVE CacheInv'
<1>1. UNCHANGED <<setting, version, generation, call, home, link, conn, attached, notes, told>>
  BY DEF EvictShared, clientVars
<1>2. PICK id \in Identities : Answer(<<"eviction", id>>) /\ Delete(Partition(id, "public"))
  BY DEF EvictShared
<1>3. Loses
  BY <1>2, DeleteLoses DEF Typed
<1>4. CallsInFlight'
  BY <1>1 DEF CacheInv, CallsInFlight, InFlight, Active, Alive, Busy
<1> DEFINE who == <<"eviction", id>>
<1>5. \A s \in Servers : who = <<"eviction", s>> => \A v \in Nat : Good(s, "public", v)'
  <2> SUFFICES ASSUME NEW s \in Servers, who = <<"eviction", s>>, NEW v \in Nat PROVE Good(s, "public", v)'
    OBVIOUS
  <2>1. s = id
    OBVIOUS
  <2>2. Partition(s, "public") \in Identities \X Scopes /\ Partition(s, "public")' = Partition(s, "public")
    BY <1>1, <2>1, PartitionTyped DEF Partition, Scopes
  <2>3. entries'[Partition(s, "public")] = NoList
    BY <1>2, <2>1, <2>2 DEF Delete, Typed, StateTyped
  <2> QED BY <2>2, <2>3 DEF Good
<1>6. Answer(who) /\ \A w \in Calls : who # <<"call", w>> => call'[w] = call[w]
  BY <1>1, <1>2
<1> HIDE DEF who
<1>7. InQueue'
  BY <1>1, <1>3, <1>5, <1>6, InQueueAfter DEF CacheInv
<1>8. Cached'
  BY <1>1, <1>3, <1>5, <1>6, CachedAfter DEF CacheInv
<1>9. FreshHits'
  BY <1>1 DEF CacheInv, FreshHits
<1> QED BY <1>4, <1>7, <1>8, <1>9 DEF CacheInv

LEMMA CacheStep == ClientInv /\ Prompt /\ Ordered /\ CacheInv /\ [Next]_vars => CacheInv'
<1> SUFFICES ASSUME Typed, Core, ConnectionInv, Prompt, Ordered, CacheInv, [Next]_vars PROVE CacheInv'
  BY DEF ClientInv, Background
<1>1. ASSUME NEW t \in Transports,
             \/ ProbeSucceeds(t) \/ ProbeFails(t) \/ Started(t) \/ StartFails(t)
             \/ Initialized(t) \/ Ready(t) \/ HandshakeFails(t)
      PROVE  CacheInv'
  <2>1. Busy(t)
    BY <1>1 DEF Busy, ProbeSucceeds, ProbeFails, Started, StartFails, Initialized, Ready, HandshakeFails
  <2> QED BY <1>1, <2>1, GoesOnCached
<1>2. ASSUME NEW t \in Transports, Connect(t) \/ Closed(t) \/ CloseSettles(t) PROVE CacheInv'
  BY <1>2, ConnectCached, ClosedCached, CloseSettlesCached
<1>3. CASE Close
  BY <1>3, CloseCached
<1>4. ASSUME NEW l \in Listens, Listen(l) \/ Listening(l) PROVE CacheInv'
  BY <1>4, ListenCached
<1>5. ASSUME NEW s \in Servers, Change(s) PROVE CacheInv'
  BY <1>5, ChangeCached
<1>6. ASSUME NEW n \in notes, Notified(n) PROVE CacheInv'
  BY <1>6, NotifiedCached
<1>7. ASSUME NEW w \in Calls, ListCall(w) \/ ProbeSharedAt(w) \/ Exchanged(w) \/ Answered(w) PROVE CacheInv'
  <2>1. Answered(w) => Write(w) \/ ClearOpposite(w)
    BY DEF Answered
  <2> QED BY <1>7, <2>1, ListCallCached, ProbeSharedCached, ExchangedCached, WriteCached, ClearOppositeCached
<1>8. CASE TimerFires
  BY <1>8, TimerFiresCached
<1>9. CASE EvictShared /\ UNCHANGED clientVars
  BY <1>9, EvictSharedCached
<1>10. CASE UNCHANGED vars
  <2>1. CallsInFlight' /\ InQueue' /\ FreshHits'
    BY <1>10 DEF vars, cacheVars, clientVars, CacheInv, CallsInFlight, InFlight, Active, Alive, Busy, InQueue, Waits, Good,
       Partition, Evicting, FreshHits
  <2>2. Cached'
    BY <1>10 DEF vars, cacheVars, clientVars, CacheInv, Cached, Good, Partition, Evicting
  <2> QED BY <2>1, <2>2 DEF CacheInv
<1> QED BY <1>1, <1>2, <1>3, <1>4, <1>5, <1>6, <1>7, <1>8, <1>9, <1>10 DEF Next

\* With transports that start and close at once and a store that answers in
\* order, no list that was announced to be out of date is served from the cache,
\* nor that of another server: neither a late answer, an eviction between its two
\* halves nor a reconnection brings one back.
THEOREM NeverStale == ASSUME Ordered PROVE Spec => []NoStaleHit
<1>1. Init => ClientInv /\ (Prompt => CacheInv)
  BY ClientInit, CacheInvInit
<1>2. ClientInv /\ (Prompt => CacheInv) /\ [Next]_vars => (ClientInv /\ (Prompt => CacheInv))'
  BY ClientStep, CacheStep, PromptKept
<1>3. (Prompt => CacheInv) => NoStaleHit
  BY DEF CacheInv, NoStaleHit
<1> QED BY <1>1, <1>2, <1>3, PTL DEF Spec
=============================================================================
