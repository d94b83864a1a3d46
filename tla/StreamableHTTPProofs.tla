------------------------- MODULE StreamableHTTPProofs -------------------------
(***************************************************************************)
(* Theorems about StreamableHTTP.                                          *)
(***************************************************************************)
EXTENDS StreamableHTTP, WellFoundedInduction, TLAPS

-----------------------------------------------------------------------------
(***************************************************************************)
(* What the event store finds.                                             *)
(***************************************************************************)
LEMMA LeastNatural ==
  ASSUME NEW S \in SUBSET Nat, S # {}
  PROVE  \E n \in S : \A m \in S : n <= m
<1>1. PICK n \in S : \A m \in S : <<m, n>> \notin OpToRel(<, Nat)
  BY WFMin, NatLessThanWellFounded
<1>2. \A m \in S : ~(m < n)
  BY <1>1 DEF OpToRel
<1> QED BY <1>2

\* A property of 0 that passes from each number to the next one up to n.
\* `holds' is the set of the numbers that have it.
LEMMA UpTo ==
  ASSUME NEW n \in Nat, NEW holds, 0 \in holds,
         \A k \in 1 .. n : k - 1 \in holds => k \in holds
  PROVE  \A k \in 0 .. n : k \in holds
<1> SUFFICES ASSUME (0 .. n) \ holds # {} PROVE FALSE
  OBVIOUS
<1> DEFINE fails == (0 .. n) \ holds
<1>0. fails \in SUBSET Nat /\ fails # {}
  OBVIOUS
<1> HIDE DEF fails
<1>1. PICK k \in fails : \A m \in fails : k <= m
  BY <1>0, LeastNatural
<1> USE DEF fails
<1>2. k \in 1 .. n /\ k - 1 \in 0 .. n /\ ~(k <= k - 1)
  BY <1>1
<1> QED BY <1>1, <1>2

Chosen(S, n, f) ==
  f = [k \in 0 .. n |-> IF k = 0 THEN <<>> ELSE IF k \in S THEN Append(f[k - 1], k) ELSE f[k - 1]]

LEMMA ChosenExists == ASSUME NEW S, NEW n \in Nat PROVE \E f : Chosen(S, n, f)
<1> DEFINE holds == {k \in 0 .. n : \E f : Chosen(S, k, f)}
<1>1. 0 \in holds
  <2>1. Chosen(S, 0, [k \in 0 .. 0 |-> <<>>])
    BY DEF Chosen
  <2> QED BY <2>1
<1>2. ASSUME NEW k \in 1 .. n, k - 1 \in holds PROVE k \in holds
  <2>1. PICK f : Chosen(S, k - 1, f)
    BY <1>2
  <2>2. f = [j \in 0 .. k - 1 |->
              IF j = 0 THEN <<>> ELSE IF j \in S THEN Append(f[j - 1], j) ELSE f[j - 1]]
    BY <2>1 DEF Chosen
  <2> DEFINE last == IF k \in S THEN Append(f[k - 1], k) ELSE f[k - 1]
             g == [j \in 0 .. k |-> IF j = k THEN last ELSE f[j]]
  <2>3. g[k] = last /\ \A j \in 0 .. k - 1 : g[j] = f[j]
    OBVIOUS
  <2>4. \A j \in 0 .. k - 1 : j # 0 => j - 1 \in 0 .. k - 1
    OBVIOUS
  <2>5. ASSUME NEW j \in 0 .. k
        PROVE  g[j] = IF j = 0 THEN <<>> ELSE IF j \in S THEN Append(g[j - 1], j) ELSE g[j - 1]
    <3>1. CASE j = k
      <4>1. g[k - 1] = f[k - 1] /\ k # 0
        BY <2>3
      <4> QED BY <3>1, <4>1, <2>3
    <3>2. CASE j # k
      <4>1. j \in 0 .. k - 1
        BY <3>2
      <4>2. g[j] = f[j] /\ (j # 0 => g[j - 1] = f[j - 1])
        BY <4>1, <2>3, <2>4
      <4>3. f[j] = IF j = 0 THEN <<>> ELSE IF j \in S THEN Append(f[j - 1], j) ELSE f[j - 1]
        BY <4>1, <2>2
      <4> QED BY <4>2, <4>3
    <3> QED BY <3>1, <3>2
  <2>6. DOMAIN g = 0 .. k /\ g = [j \in 0 .. k |-> g[j]]
    OBVIOUS
  <2> HIDE DEF g
  <2>7. g = [j \in 0 .. k |->
              IF j = 0 THEN <<>> ELSE IF j \in S THEN Append(g[j - 1], j) ELSE g[j - 1]]
    BY <2>5, <2>6
  <2>8. Chosen(S, k, g)
    BY <2>7 DEF Chosen
  <2> QED BY <2>8
<1> HIDE DEF holds
<1>3. \A k \in 0 .. n : k \in holds
  BY <1>1, <1>2, UpTo
<1> QED BY <1>3 DEF holds

Rising(ms) == \A j, k \in DOMAIN ms : j < k => ms[j] < ms[k]

\* ms are the numbers of S from 1 to n, each once.
Enumerates(ms, S, n) ==
  /\ ms \in Seq(1 .. n) /\ Rising(ms)
  /\ \A k \in DOMAIN ms : ms[k] \in S
  /\ \A i \in 1 .. n : i \in S => \E k \in DOMAIN ms : ms[k] = i

LEMMA EnumeratesNext ==
  ASSUME NEW n \in Nat \ {0}, NEW S, NEW ms, Enumerates(ms, S, n - 1)
  PROVE  /\ n \in S => Enumerates(Append(ms, n), S, n)
         /\ n \notin S => Enumerates(ms, S, n)
<1>1. ms \in Seq(1 .. n) /\ Len(ms) \in Nat /\ DOMAIN ms = 1 .. Len(ms)
  BY DEF Enumerates
<1>2. \A k \in DOMAIN ms : ms[k] \in 1 .. n - 1
  BY <1>1 DEF Enumerates
<1>3. ASSUME n \in S PROVE Enumerates(Append(ms, n), S, n)
  <2> DEFINE more == Append(ms, n)
  <2>1. /\ more \in Seq(1 .. n) /\ DOMAIN more = 1 .. Len(ms) + 1
        /\ \A k \in DOMAIN ms : more[k] = ms[k]
        /\ more[Len(ms) + 1] = n
    BY <1>1
  <2> HIDE DEF more
  <2>2. Rising(more)
    <3>1. \A j \in DOMAIN more : j \in DOMAIN ms \/ j = Len(ms) + 1
      BY <1>1, <2>1
    <3>2. \A j \in DOMAIN ms : j < Len(ms) + 1 /\ more[j] < n
      BY <1>1, <1>2, <2>1
    <3>3. \A j, k \in DOMAIN ms : j < k => more[j] < more[k]
      BY <2>1 DEF Enumerates, Rising
    <3>4. \A j, k \in DOMAIN more : j < k => j \in DOMAIN ms
      BY <1>1, <2>1
    <3>5. ASSUME NEW j \in DOMAIN more, NEW k \in DOMAIN more, j < k PROVE more[j] < more[k]
      BY <2>1, <3>1, <3>2, <3>3, <3>4, <3>5
    <3> QED BY <3>5 DEF Rising
  <2>3. \A k \in DOMAIN more : more[k] \in S
    <3>1. \A j \in DOMAIN more : j \in DOMAIN ms \/ j = Len(ms) + 1
      BY <1>1, <2>1
    <3> QED BY <1>3, <2>1, <3>1 DEF Enumerates
  <2>4. \A i \in 1 .. n : i \in S => \E k \in DOMAIN more : more[k] = i
    <3>1. \A i \in 1 .. n : i = n \/ i \in 1 .. n - 1
      OBVIOUS
    <3>2. Len(ms) + 1 \in DOMAIN more /\ \A k \in DOMAIN ms : k \in DOMAIN more
      BY <1>1, <2>1
    <3> QED BY <2>1, <3>1, <3>2 DEF Enumerates
  <2> QED BY <2>1, <2>2, <2>3, <2>4 DEF Enumerates, more
<1>4. ASSUME n \notin S PROVE Enumerates(ms, S, n)
  <2>1. \A i \in 1 .. n : i = n \/ i \in 1 .. n - 1
    OBVIOUS
  <2> QED BY <1>1, <1>4, <2>1 DEF Enumerates
<1> QED BY <1>3, <1>4

LEMMA AscendingIs == ASSUME NEW S, NEW n \in Nat PROVE Enumerates(Ascending(S, n), S, n)
<1> DEFINE upTo == CHOOSE f : Chosen(S, n, f)
           holds == {k \in 0 .. n : Enumerates(upTo[k], S, k)}
<1>1. Ascending(S, n) = upTo[n]
  BY DEF Ascending, Chosen
<1>2. Chosen(S, n, upTo)
  BY ChosenExists
<1> HIDE DEF upTo
<1>3. \A k \in 0 .. n :
        upTo[k] = IF k = 0 THEN <<>> ELSE IF k \in S THEN Append(upTo[k - 1], k) ELSE upTo[k - 1]
  BY <1>2 DEF Chosen
<1>4. 0 \in holds
  <2>1. upTo[0] = <<>>
    BY <1>3
  <2>2. Enumerates(<<>>, S, 0)
    BY DEF Enumerates, Rising
  <2> QED BY <2>1, <2>2
<1>5. ASSUME NEW k \in 1 .. n, k - 1 \in holds PROVE k \in holds
  <2>1. Enumerates(upTo[k - 1], S, k - 1)
    BY <1>5
  <2>2. k \in Nat \ {0} /\ k \in 0 .. n
    OBVIOUS
  <2> QED BY <1>3, <2>1, <2>2, EnumeratesNext
<1> HIDE DEF holds
<1>6. \A k \in 0 .. n : k \in holds
  BY <1>4, <1>5, UpTo
<1>7. n \in holds
  BY <1>6
<1> QED BY <1>1, <1>7 DEF holds

\* ms are the places up to n, after e, of the messages of stream s.
Lists(ms, n, all, s, e) ==
  /\ ms \in Seq(1 .. n) /\ Rising(ms)
  /\ \A k \in DOMAIN ms : ms[k] > e /\ all[ms[k]].stream = s
  /\ \A i \in 1 .. n : i > e /\ all[i].stream = s => \E k \in DOMAIN ms : ms[k] = i

LEMMA PlacesList ==
  ASSUME NEW all, Len(all) \in Nat, NEW s, NEW e \in Nat
  PROVE  Lists(Places(all, s, e), Len(all), all, s, e)
<1> DEFINE S == {i \in 1 .. Len(all) : i > e /\ all[i].stream = s}
<1>1. Enumerates(Places(all, s, e), S, Len(all))
  BY AscendingIs DEF Places
<1> QED BY <1>1 DEF Enumerates, Lists

-----------------------------------------------------------------------------
(***************************************************************************)
(* The parts of the server's invariant.                                    *)
(***************************************************************************)
ExchSet ==
  [at : ExchStates, method : {"GET", "POST"}, stream : StreamIds, after : {None} \cup DOMAIN log]

Entries == [to : Exchanges \cup {None}, replayed : SUBSET DOMAIN log]

ServerTypes ==
  /\ setting \in Settings /\ (setting.primes => setting.store) /\ closed \in BOOLEAN
  /\ stream \in [StreamIds -> Entries]
  /\ inflight \subseteq Reqs /\ responded \subseteq Reqs
  /\ handler \in [Reqs -> {"none", "running", "answered", "aborted"}]
  /\ log \in Seq(Messages) /\ sending \in Seq(DOMAIN log)
  /\ exch \in [Exchanges -> ExchSet]
  /\ wire \in [Exchanges -> BOOLEAN]
  /\ read \in [Exchanges -> Seq(DOMAIN log)]

ClientTypes ==
  /\ at \in [Channels -> ChannelStates]
  /\ using \in [Channels -> Exchanges \cup {None}]
  /\ token \in [Channels -> {None} \cup DOMAIN log]
  /\ attempt \in [Channels -> Nat]
  /\ past \in [Channels -> Seq(DOMAIN log)]
  /\ strayed \subseteq Channels /\ aborted \in BOOLEAN
  /\ drops \in 0 .. MaxDrops
  /\ \A s \in Channels : at[s] \in {"waiting", "reconnecting"} => attempt[s] < MaxRetries

\* An exchange that awaits what only a POST awaits is one; it stays on the
\* stream of its POST, and its record is blank when the server is through.
Exchanged ==
  \A c \in Exchanges :
    /\ exch[c].method = "GET" => exch[c].stream = Standalone
    /\ exch[c].method = "POST" => exch[c].stream # Standalone /\ exch[c].after = None
    /\ exch[c].at \in {"challenged", "priming", "json"} => exch[c].method = "POST"
    /\ exch[c].at \in {"over", "refused", "replaying"} => exch[c].method = "GET"

Posted(c, p) == exch[c].method = "POST" /\ exch[c].stream = p

\* The POST p is made once, and its requests are dispatched once: before that
\* nothing is sent for it but its priming event.
Waits(c, p) == Posted(c, p) /\ exch[c].at \in {"asked", "challenged", "priming"}

Undispatched(p) == at[p] = "idle" \/ \E c \in Exchanges : Waits(c, p)

Begun ==
  /\ \A c, d \in Exchanges, p \in Posts : Posted(c, p) /\ Posted(d, p) => c = d
  /\ \A c \in Exchanges, p \in Posts : Posted(c, p) => at[p] # "idle"
  /\ \A p \in Posts, r \in Reqs : Undispatched(p) /\ PostOf[r] = p => handler[r] = "none"
  /\ \A p \in Posts, i \in DOMAIN log : at[p] = "idle" => log[i].stream # p
  /\ \A c \in Exchanges, i \in DOMAIN log :
       Waits(c, log[i].stream) => exch[c].at = "priming" /\ log[i].what = "priming"
  /\ \A c \in Exchanges : Primes /\ exch[c].at = "priming" =>
       \E i \in DOMAIN log : log[i].stream = exch[c].stream /\ log[i].what = "priming"

\* A request is answered once, on the stream of its POST; JSON mode has no
\* other messages there.
LogShape ==
  /\ \A i \in DOMAIN log :
       /\ IsResponse(i) => /\ log[i].req \in Reqs /\ log[i].stream = PostOf[log[i].req]
                           /\ handler[log[i].req] = "answered"
       /\ setting.json /\ log[i].stream # Standalone => IsResponse(i)
  /\ \A i, j \in DOMAIN log : IsResponse(i) /\ IsResponse(j) /\ log[i].req = log[j].req => i = j

\* The sends that await the store are in order, and only a store is awaited;
\* in JSON mode only the standalone stream has events to store.
Queue ==
  /\ Rising(sending)
  /\ \A k \in DOMAIN sending : log[sending[k]].what # "priming"
  /\ ~setting.store => sending = <<>>
  /\ setting.json => \A k \in DOMAIN sending : log[sending[k]].stream = Standalone

Stored(r) == \E k \in DOMAIN sending : IsResponse(sending[k]) /\ log[sending[k]].req = r

\* What the books hold until close(): a POST is in them with a request that
\* has no response yet, and an answered request with its response or with a send
\* that will bring it.
Books ==
  ~closed =>
    /\ responded \subseteq inflight
    /\ \A r \in inflight : r \in Carried(PostOf[r])
    /\ \A r \in responded : handler[r] = "answered"
    /\ \A r \in inflight : \E q \in inflight \ responded : PostOf[q] = PostOf[r]
    /\ \A r \in inflight : handler[r] = "answered" => r \in responded \/ Stored(r)
    /\ \A r \in Reqs : Stored(r) => r \in inflight \ responded

\* What the books hold of a request is in the log.
Replied == \A r \in responded : \E i \in DOMAIN log : IsResponse(i) /\ log[i].req = r

\* A response that is open is mapped, and so is, until close(), one that waits
\* for its priming event or its JSON.
Mapping ==
  /\ \A c \in Exchanges : exch[c].at = "open" => stream[OnStream(c)].to = c
  /\ \A s \in StreamIds : Mapped(s) =>
       exch[stream[s].to].at \in {"open", "priming", "json"} /\ OnStream(stream[s].to) = s
  /\ ~closed => \A c \in Exchanges : exch[c].at \in {"priming", "json"} => stream[exch[c].stream].to = c
  /\ \A c \in Exchanges : exch[c].at = "json" => setting.json

\* Until then no client knows an event of its stream, so no resumption can
\* take the place of such a response.
Awaits(c, s) == exch[c].at \in {"priming", "json"} /\ exch[c].stream = s

Unseen ==
  ~closed => \A c \in Exchanges :
    /\ \A d \in Exchanges : \A k \in DOMAIN read[d] : ~Awaits(c, log[read[d][k]].stream)
    /\ \A d \in Exchanges : exch[d].after # None => ~Awaits(c, log[exch[d].after].stream)
    /\ \A s \in Channels : token[s] # None => ~Awaits(c, log[token[s]].stream)

SessionInv ==
  /\ ServerTypes /\ ClientTypes /\ Exchanged /\ Begun /\ LogShape /\ Queue /\ Replied /\ Books /\ Mapping /\ Unseen

-----------------------------------------------------------------------------
(***************************************************************************)
(* Constants, and exchanges that are free.                                 *)
(***************************************************************************)
LEMMA Sets ==
  /\ MaxExch \in Nat /\ MaxPosts \in Nat /\ MaxRetries \in Nat /\ MaxDrops \in Nat
  /\ Exchanges \subseteq Nat /\ None \notin Exchanges /\ None = 0
  /\ Standalone = 0 /\ StreamIds = 0 .. MaxPosts /\ Posts = StreamIds \ {Standalone}
  /\ Channels = StreamIds /\ PostOf \in [Reqs -> Posts]
  /\ MaxReqs \in Nat /\ Reqs = 1 .. MaxReqs /\ Reqs \subseteq Nat
BY StreamableHTTPServerAssumption, StreamableHTTPAssumption
   DEF Reqs, Exchanges, None, Standalone, StreamIds, Posts, Channels

\* The exchanges of one channel.
Slots(s) == s * MaxExch + 1 .. (s + 1) * MaxExch

LEMMA SlotsApart ==
  /\ \A s \in Channels : Slots(s) \subseteq Exchanges
  /\ \A s, t \in Channels : s # t => Slots(s) \cap Slots(t) = {}
<1>1. \A s, t \in Nat : s <= t => s * MaxExch <= t * MaxExch
  BY Sets
<1>2. ASSUME NEW s \in Channels PROVE Slots(s) \subseteq Exchanges
  <2>1. s \in Nat /\ s + 1 <= MaxPosts + 1 /\ 0 <= s * MaxExch /\ s * MaxExch \in Nat
    BY Sets
  <2>2. (s + 1) * MaxExch <= (MaxPosts + 1) * MaxExch
    BY <1>1, <2>1, Sets
  <2>3. (MaxPosts + 1) * MaxExch = MaxExch * (MaxPosts + 1) /\ (MaxPosts + 1) * MaxExch \in Nat
        /\ (s + 1) * MaxExch \in Nat
    BY <2>1, Sets
  <2> QED BY <2>1, <2>2, <2>3 DEF Slots, Exchanges
<1>3. ASSUME NEW s \in Channels, NEW t \in Channels, s < t PROVE Slots(s) \cap Slots(t) = {}
  <2>1. (s + 1) * MaxExch <= t * MaxExch
    BY <1>1, <1>3, Sets
  <2>2. (s + 1) * MaxExch \in Nat /\ t * MaxExch \in Nat /\ s * MaxExch \in Nat
    BY Sets
  <2> QED BY <2>1, <2>2 DEF Slots
<1>4. \A s, t \in Channels : s # t => s < t \/ t < s
  BY Sets
<1> QED BY <1>2, <1>3, <1>4

LEMMA FreeIs ==
  ASSUME NEW s \in Channels, NEW c \in Free(s)
  PROVE  c \in Slots(s) /\ c \in Exchanges /\ exch[c].at = "over"
BY SlotsApart DEF Free, Slots

-----------------------------------------------------------------------------
(***************************************************************************)
(* Type correctness of a step.                                             *)
(***************************************************************************)
LogGrows == log' = log \/ \E m \in Messages : log' = Append(log, m)

LEMMA Grown ==
  ASSUME ServerTypes, LogGrows
  PROVE  /\ log' \in Seq(Messages) /\ Len(log) \in Nat /\ Len(log') \in Nat /\ Len(log) <= Len(log')
         /\ DOMAIN log = 1 .. Len(log) /\ DOMAIN log' = 1 .. Len(log')
         /\ DOMAIN log \subseteq DOMAIN log' /\ \A i \in DOMAIN log : log'[i] = log[i]
         /\ \A i \in DOMAIN log' : i \in DOMAIN log \/ (i = Len(log') /\ log' # log)
         /\ log' # log => Len(log') \in DOMAIN log' /\ Len(log') \notin DOMAIN log
         /\ Seq(DOMAIN log) \subseteq Seq(DOMAIN log')
         /\ Entries \subseteq Entries' /\ ExchSet \subseteq ExchSet'
<1>1. log \in Seq(Messages) /\ Len(log) \in Nat /\ DOMAIN log = 1 .. Len(log)
  BY DEF ServerTypes
<1>2. CASE log' = log
  <2>1. Entries' = Entries /\ ExchSet' = ExchSet
    BY <1>2 DEF Entries, ExchSet
  <2> QED BY <1>1, <1>2, <2>1
<1>3. ASSUME NEW m \in Messages, log' = Append(log, m)
      PROVE  /\ log' \in Seq(Messages) /\ Len(log') = Len(log) + 1 /\ DOMAIN log' = 1 .. Len(log')
             /\ \A i \in DOMAIN log : log'[i] = log[i]
  BY <1>1, <1>3
<1>4. CASE log' # log
  <2>1. /\ log' \in Seq(Messages) /\ Len(log') = Len(log) + 1 /\ DOMAIN log' = 1 .. Len(log')
        /\ \A i \in DOMAIN log : log'[i] = log[i]
    BY <1>3, <1>4 DEF LogGrows
  <2>2. DOMAIN log \subseteq DOMAIN log'
    BY <1>1, <2>1
  <2>3. Entries \subseteq Entries' /\ ExchSet \subseteq ExchSet'
    BY <2>2 DEF Entries, ExchSet
  <2>4. Seq(DOMAIN log) \subseteq Seq(DOMAIN log')
    <3> SUFFICES ASSUME NEW q \in Seq(DOMAIN log) PROVE q \in Seq(DOMAIN log')
      OBVIOUS
    <3>1. Len(q) \in Nat /\ q = [k \in 1 .. Len(q) |-> q[k]] /\ \A k \in 1 .. Len(q) : q[k] \in DOMAIN log'
      BY <2>2
    <3> QED BY <3>1
  <2> QED BY <1>1, <1>4, <2>1, <2>2, <2>3, <2>4
<1> QED BY <1>2, <1>4

LEMMA Blank ==
  /\ Over \in ExchSet
  /\ \A how : [Over EXCEPT !.at = how] = [at |-> how, method |-> "GET", stream |-> Standalone, after |-> None]
  /\ \A how \in {"over", "refused"} : [Over EXCEPT !.at = how] \in ExchSet
BY Sets DEF Over, ExchSet, ExchStates

\* A stage that changes, and a stream that is ended.
LEMMA Stage ==
  ASSUME NEW x \in ExchSet, NEW stage \in ExchStates
  PROVE  /\ [x EXCEPT !.at = stage] \in ExchSet
         /\ [x EXCEPT !.at = stage].at = stage /\ [x EXCEPT !.at = stage].method = x.method
         /\ [x EXCEPT !.at = stage].stream = x.stream /\ [x EXCEPT !.at = stage].after = x.after
BY DEF ExchSet

LEMMA Ending ==
  ASSUME ServerTypes, NEW S
  PROVE  /\ Ended(S) \in [Exchanges -> ExchSet]
         /\ \A c \in Exchanges :
              \/ Ended(S)[c] = exch[c] /\ ~(exch[c].at = "open" /\ \E s \in S : stream[s].to = c)
              \/ /\ exch[c].at = "open" /\ \E s \in S : stream[s].to = c
                 /\ Ended(S)[c] = CloseController(c)
<1>1. \A c \in Exchanges : exch[c] \in ExchSet /\ CloseController(c) \in ExchSet
  BY Blank, Stage DEF ServerTypes, CloseController, ExchStates
<1> QED BY <1>1 DEF Ended

\* Frames are appended to what an exchange carries.
LEMMA ReadingIs ==
  ASSUME ServerTypes, LogGrows, NEW c, NEW ms \in Seq(DOMAIN log')
  PROVE  /\ Reading(c, ms) \in [Exchanges -> Seq(DOMAIN log')]
         /\ \A d \in Exchanges :
              Reading(c, ms)[d] = IF d = c /\ wire[c] THEN read[d] \o ms ELSE read[d]
<1>1. read \in [Exchanges -> Seq(DOMAIN log')]
  BY Grown DEF ServerTypes
<1>2. \A d \in Exchanges : read[d] \o ms \in Seq(DOMAIN log')
  BY <1>1
<1> QED BY <1>1, <1>2 DEF Reading

LEMMA EventsAre ==
  ASSUME ServerTypes, NEW e \in DOMAIN log
  PROVE  /\ EventsAfter(e) \in Seq(DOMAIN log)
         /\ Lists(EventsAfter(e), Len(log), log, log[e].stream, e)
<1>1. Len(log) \in Nat /\ DOMAIN log = 1 .. Len(log) /\ e \in Nat
  BY DEF ServerTypes
<1>2. Lists(EventsAfter(e), Len(log), log, log[e].stream, e)
  BY <1>1, PlacesList DEF EventsAfter
<1> QED BY <1>1, <1>2 DEF Lists

\* What the end of a send changes besides frames: nothing, or the response
\* becomes known, or its POST is over.
Completes(r) ==
  /\ \A q \in inflight : PostOf[q] = PostOf[r] => q \in responded \cup {r}
  /\ exch' = [c \in Exchanges |-> IF c = stream[PostOf[r]].to THEN CloseController(c) ELSE exch[c]]
  /\ stream' = [stream EXCEPT ![PostOf[r]] = Unmapped]
  /\ inflight' = {q \in inflight : PostOf[q] # PostOf[r]}
  /\ responded' = (responded \cup {r}) \ {q \in inflight : PostOf[q] = PostOf[r]}

Partly(r) ==
  /\ \E q \in inflight : PostOf[q] = PostOf[r] /\ q \notin responded \cup {r}
  /\ responded' = responded \cup {r} /\ UNCHANGED <<exch, stream, inflight>>

LEMMA FinishIs == ASSUME NEW r, Finish(r) PROVE Completes(r) \/ Partly(r)
BY DEF Finish, Completes, Partly, Retired, Related, Unmap

\* When a POST is over its body has the responses of its requests in their order.
LEMMA BodyIs ==
  ASSUME ServerTypes, Replied, LogGrows, NEW i \in DOMAIN log', log'[i].what = "response",
         Completes(log'[i].req), NEW p, p = PostOf[log'[i].req]
  PROVE  /\ Body(p) \in Seq(DOMAIN log')
         /\ \A k \in DOMAIN Body(p) :
              log'[Body(p)[k]].what = "response" /\ log'[Body(p)[k]].req \in Related(p)
         /\ \A j, k \in DOMAIN Body(p) : j < k => log'[Body(p)[j]].req < log'[Body(p)[k]].req
<1> DEFINE ids == Ascending(Related(p), MaxReqs)
<1>1. Enumerates(ids, Related(p), MaxReqs)
  BY AscendingIs, Sets
<1>2. Body(p) = [k \in 1 .. Len(ids) |-> ResponseTo(ids[k])]
  BY DEF Body
<1> HIDE DEF ids
<1>3. /\ Len(ids) \in Nat /\ DOMAIN ids = 1 .. Len(ids) /\ Rising(ids)
      /\ \A k \in DOMAIN ids : ids[k] \in Related(p)
  BY <1>1 DEF Enumerates
<1>4. ASSUME NEW q \in Related(p)
      PROVE  ResponseTo(q) \in DOMAIN log' /\ log'[ResponseTo(q)].what = "response" /\ log'[ResponseTo(q)].req = q
  <2>1. q \in responded \/ q = log'[i].req
    BY DEF Related, Completes
  <2>2. \E n \in DOMAIN log' : log'[n].what = "response" /\ log'[n].req = q
    <3>1. CASE q \in responded
      <4>1. PICK n \in DOMAIN log : IsResponse(n) /\ log[n].req = q
        BY <3>1 DEF Replied
      <4> QED BY <4>1, Grown DEF IsResponse
    <3> QED BY <2>1, <3>1
  <2> QED BY <2>2 DEF ResponseTo
<1>5. DOMAIN Body(p) = 1 .. Len(ids) /\ \A k \in 1 .. Len(ids) : Body(p)[k] = ResponseTo(ids[k])
  BY <1>2
<1>6. Body(p) \in Seq(DOMAIN log')
  <2>1. \A k \in 1 .. Len(ids) : ResponseTo(ids[k]) \in DOMAIN log'
    BY <1>3, <1>4
  <2> QED BY <1>2, <1>3, <2>1
<1>7. \A k \in DOMAIN Body(p) :
        log'[Body(p)[k]].what = "response" /\ log'[Body(p)[k]].req = ids[k] /\ ids[k] \in Related(p)
  BY <1>3, <1>4, <1>5
<1>8. \A j, k \in DOMAIN Body(p) : j < k => log'[Body(p)[j]].req < log'[Body(p)[k]].req
  BY <1>3, <1>5, <1>7 DEF Rising
<1> QED BY <1>6, <1>7, <1>8

LEMMA DeliverTypes ==
  ASSUME ServerTypes, Replied, LogGrows, NEW i \in DOMAIN log', Deliver(i),
         log'[i].what = "response" => log'[i].req \in Reqs,
         setting.json /\ log'[i].what = "response" =>
           log'[i].req \in inflight /\ log'[i].stream = PostOf[log'[i].req]
  PROVE  /\ exch' \in [Exchanges -> ExchSet] /\ stream' \in [StreamIds -> Entries]
         /\ inflight' \subseteq Reqs /\ responded' \subseteq Reqs
         /\ read' \in [Exchanges -> Seq(DOMAIN log')]
<1>1. \A c \in Exchanges : exch[c] \in ExchSet /\ CloseController(c) \in ExchSet
  BY Blank, Stage DEF ServerTypes, CloseController, ExchStates
<1>2. Unmapped \in Entries
  BY DEF Unmapped, Entries
<1>3. /\ exch' \in [Exchanges -> ExchSet] /\ stream' \in [StreamIds -> Entries]
      /\ inflight' \subseteq Reqs /\ responded' \subseteq Reqs
  <2>1. CASE log'[i].what = "response"
    <3>1. Completes(log'[i].req) \/ Partly(log'[i].req)
      BY <2>1, FinishIs DEF Deliver
    <3>2. CASE Completes(log'[i].req)
      BY <1>1, <1>2, <2>1, <3>2 DEF Completes, ServerTypes
    <3>3. CASE Partly(log'[i].req)
      BY <2>1, <3>3 DEF Partly, ServerTypes
    <3> QED BY <3>1, <3>2, <3>3
  <2>2. CASE log'[i].what # "response"
    BY <2>2 DEF Deliver, ServerTypes, book
  <2> QED BY <2>1, <2>2
<1>4. read' \in [Exchanges -> Seq(DOMAIN log')]
  <2>1. read \in [Exchanges -> Seq(DOMAIN log')] /\ <<i>> \in Seq(DOMAIN log')
    BY Grown DEF ServerTypes
  <2>2. \/ read' = read
        \/ \E c : read' = Reading(c, <<i>>)
        \/ /\ setting.json /\ log'[i].what = "response" /\ log'[i].req \notin inflight'
           /\ \E c : read' = Reading(c, Body(log'[i].stream))
    BY DEF Deliver, Written
  <2>3. \A c : Reading(c, <<i>>) \in [Exchanges -> Seq(DOMAIN log')]
    BY <2>1, ReadingIs
  <2>4. ASSUME setting.json, log'[i].what = "response", log'[i].req \notin inflight'
        PROVE  \A c : Reading(c, Body(log'[i].stream)) \in [Exchanges -> Seq(DOMAIN log')]
    <3>1. Completes(log'[i].req) /\ log'[i].stream = PostOf[log'[i].req]
      BY <2>4, FinishIs DEF Deliver, Partly
    <3>2. Body(log'[i].stream) \in Seq(DOMAIN log')
      BY <2>4, <3>1, BodyIs
    <3> QED BY <3>2, ReadingIs
  <2> QED BY <2>1, <2>2, <2>3, <2>4
<1> QED BY <1>3, <1>4

\* A server step leaves the client's variables in types that have only grown.
LEMMA ClientWidens ==
  ASSUME ServerTypes, ClientTypes, LogGrows, UNCHANGED client PROVE ClientTypes'
BY Grown DEF ClientTypes, client

\* The messages a step sends are well formed, and what a send that resumes
\* brings is in the log.
LEMMA MessageIs ==
  ASSUME ServerTypes, NEW s \in StreamIds, NEW r \in Reqs \cup {None},
         NEW what \in {"priming", "note", "response"}
  PROVE  LET m == [stream |-> s, req |-> r, what |-> what] IN
         m \in Messages /\ Logged(s, r, what) = Append(log, m)
BY DEF Messages, Logged

LEMMA LoggedIs ==
  ASSUME ServerTypes, NEW s \in StreamIds, NEW r \in Reqs \cup {None},
         NEW what \in {"priming", "note", "response"}, log' = Logged(s, r, what)
  PROVE  /\ LogGrows /\ log' # log /\ Len(log') \in DOMAIN log'
         /\ log'[Len(log')] = [stream |-> s, req |-> r, what |-> what]
<1>1. LogGrows
  BY MessageIs DEF LogGrows
<1>2. log \in Seq(Messages) /\ Len(log) \in Nat
  BY DEF ServerTypes
<1> DEFINE m == [stream |-> s, req |-> r, what |-> what]
<1>3. Len(log') = Len(log) + 1 /\ log'[Len(log')] = m
  <2>1. log' = Append(log, m) /\ m \in Messages
    BY MessageIs
  <2> HIDE DEF m
  <2> QED BY <1>2, <2>1
<1> QED BY <1>1, <1>2, <1>3, Grown

LEMMA SendTypes ==
  ASSUME ServerTypes, Replied, NEW s \in StreamIds, NEW r \in Reqs \cup {None},
         NEW what \in {"note", "response"}, Send(s, r, what),
         what = "response" => r \in Reqs /\ r \in inflight /\ s = PostOf[r],
         handler' \in [Reqs -> {"none", "running", "answered", "aborted"}]
  PROVE  ServerTypes' /\ LogGrows
<1>1. /\ LogGrows /\ Len(log') \in DOMAIN log'
      /\ log'[Len(log')] = [stream |-> s, req |-> r, what |-> what]
  BY LoggedIs DEF Send
<1>2. UNCHANGED <<setting, closed, wire>>
  BY DEF Send
<1>3. CASE UNCHANGED <<stream, book, exch, read>> /\ sending' = Append(sending, Len(log'))
  <2>1. sending' \in Seq(DOMAIN log')
    <3>1. sending \in Seq(DOMAIN log')
      BY <1>1, Grown DEF ServerTypes
    <3> QED BY <1>1, <1>3, <3>1
  <2>2. stream' \in [StreamIds -> Entries'] /\ exch' \in [Exchanges -> ExchSet']
        /\ read' \in [Exchanges -> Seq(DOMAIN log')]
    BY <1>1, <1>3, Grown DEF ServerTypes
  <2> QED BY <1>1, <1>2, <1>3, <2>1, <2>2, Grown DEF ServerTypes, book
<1>4. CASE Deliver(Len(log')) /\ UNCHANGED sending
  <2>1. /\ exch' \in [Exchanges -> ExchSet] /\ stream' \in [StreamIds -> Entries]
        /\ inflight' \subseteq Reqs /\ responded' \subseteq Reqs
        /\ read' \in [Exchanges -> Seq(DOMAIN log')]
    BY <1>1, <1>4, DeliverTypes
  <2>2. stream' \in [StreamIds -> Entries'] /\ exch' \in [Exchanges -> ExchSet']
    BY <1>1, <2>1, Grown
  <2>3. sending' \in Seq(DOMAIN log')
    BY <1>1, <1>4, Grown DEF ServerTypes
  <2> QED BY <1>1, <1>2, <2>1, <2>2, <2>3, Grown DEF ServerTypes
<1> QED BY <1>1, <1>3, <1>4 DEF Send

LEMMA ServerTypeStep ==
  ASSUME SessionInv, ServerNext, UNCHANGED client PROVE ServerTypes' /\ ClientTypes' /\ LogGrows
<1>0. ServerTypes /\ ClientTypes /\ Exchanged /\ Begun /\ LogShape /\ Replied /\ Queue
  BY DEF SessionInv
<1> SUFFICES ServerTypes' /\ LogGrows
  BY <1>0, ClientWidens
<1>e. \A c \in Exchanges : /\ exch[c] \in ExchSet /\ exch[c].stream \in StreamIds
                           /\ exch[c].method \in {"GET", "POST"}
                           /\ exch[c].after \in {None} \cup DOMAIN log
  BY <1>0 DEF ServerTypes, ExchSet
<1>l. \A i \in DOMAIN log : log[i].stream \in StreamIds
  <2>1. \A i \in DOMAIN log : log[i] \in Messages
    BY <1>0 DEF ServerTypes
  <2> QED BY <2>1 DEF Messages
<1>s. \A c \in Exchanges : OnStream(c) \in StreamIds
  BY <1>e, <1>l DEF OnStream
<1>f. ASSUME NEW c \in Exchanges, NEW how \in {"over", "refused"}, Finished(c, how)
      PROVE  exch' \in [Exchanges -> ExchSet]
  <2>1. [Over EXCEPT !.at = how] \in ExchSet
    BY Blank
  <2> QED BY <1>0, <1>f, <2>1 DEF ServerTypes, Finished
<1>b. ASSUME NEW c \in Exchanges, Refuse(c) PROVE ServerTypes'
  <2>1. exch' \in [Exchanges -> ExchSet] /\ log' = log
    BY <1>b, <1>f DEF Refuse, server
  <2> QED BY <1>0, <1>b, <2>1 DEF ServerTypes, Refuse, server, book, Entries, ExchSet
<1>g. ASSUME NEW c \in Exchanges, NEW stage \in ExchStates, Goto(c, stage)
      PROVE  exch' \in [Exchanges -> ExchSet]
  <2>1. [exch[c] EXCEPT !.at = stage] \in ExchSet
    BY <1>e, Stage
  <2> QED BY <1>0, <1>g, <2>1 DEF ServerTypes, Goto
<1>m. ASSUME NEW s \in StreamIds,
             Unmap(s) \/ \E c \in Exchanges, ids \in SUBSET DOMAIN log : Map(s, c, ids)
      PROVE  stream' \in [StreamIds -> Entries]
  <2>1. \A c \in Exchanges, ids \in SUBSET DOMAIN log : [to |-> c, replayed |-> ids] \in Entries
    BY DEF Entries
  <2>2. Unmapped \in Entries
    BY DEF Entries, Unmapped
  <2>3. PICK entry \in Entries : stream' = [stream EXCEPT ![s] = entry]
    BY <1>m, <2>1, <2>2 DEF Map, Unmap
  <2> QED BY <1>0, <2>3 DEF ServerTypes
<1>x. {"challenged", "json", "priming", "open", "replaying"} \subseteq ExchStates
  BY DEF ExchStates
<1>1. ASSUME NEW c \in Exchanges, PostArrives(c) PROVE ServerTypes' /\ LogGrows
  <2>1. log' = log
    BY <1>1 DEF PostArrives, Refuse, server
  <2>2. CASE closed
    BY <1>1, <1>b, <2>1, <2>2 DEF PostArrives, LogGrows
  <2>3. CASE ~closed
    <3>1. exch' \in [Exchanges -> ExchSet]
      BY <1>1, <1>g, <1>x, <2>3 DEF PostArrives
    <3> QED BY <1>0, <1>1, <2>1, <2>3, <3>1
            DEF PostArrives, LogGrows, ServerTypes, server, book, Entries, ExchSet
  <2> QED BY <2>2, <2>3
<1>2. ASSUME NEW c \in Exchanges, PostRegisters(c) PROVE ServerTypes' /\ LogGrows
  <2> DEFINE p == exch[c].stream
  <2>1. p \in StreamIds /\ {} \in SUBSET DOMAIN log
    BY <1>e
  <2>2. LogGrows
    BY <1>0, <1>2, <2>1, LoggedIs DEF PostRegisters, LogGrows
  <2>3. stream' \in [StreamIds -> Entries] /\ exch' \in [Exchanges -> ExchSet]
    BY <1>2, <1>m, <1>g, <1>x, <2>1 DEF PostRegisters
  <2>4. stream' \in [StreamIds -> Entries'] /\ exch' \in [Exchanges -> ExchSet']
    BY <1>0, <2>2, <2>3, Grown
  <2>5. sending' \in Seq(DOMAIN log') /\ read' \in [Exchanges -> Seq(DOMAIN log')] /\ log' \in Seq(Messages)
    BY <1>0, <1>2, <2>2, Grown DEF PostRegisters, ServerTypes
  <2>6. handler' \in [Reqs -> {"none", "running", "answered", "aborted"}] /\ inflight' \subseteq Reqs
    BY <1>0, <1>2 DEF PostRegisters, Dispatch, ServerTypes, Carried
  <2> QED BY <1>0, <1>2, <2>2, <2>4, <2>5, <2>6 DEF PostRegisters, ServerTypes
<1>3. ASSUME NEW c \in Exchanges, PostDispatched(c) PROVE ServerTypes' /\ LogGrows
  <2> DEFINE p == exch[c].stream
  <2>1. log' = log
    BY <1>3 DEF PostDispatched, Refuse, server
  <2>2. LogGrows
    BY <2>1 DEF LogGrows
  <2>3. CASE Primes /\ stream[p].to # c
    BY <1>3, <1>b, <2>1, <2>2, <2>3 DEF PostDispatched
  <2>4. CASE ~(Primes /\ stream[p].to # c)
    <3>1. exch' \in [Exchanges -> ExchSet]
      BY <1>3, <1>f, <1>g, <1>x, <2>4 DEF PostDispatched
    <3>2. Primes => PrimingEvent(p) \in DOMAIN log
      BY <1>0, <1>3 DEF Begun, PostDispatched, PrimingEvent
    <3>3. read' \in [Exchanges -> Seq(DOMAIN log')]
      <4>1. CASE Primes
        <5>1. <<PrimingEvent(p)>> \in Seq(DOMAIN log')
          BY <2>1, <3>2, <4>1
        <5> QED BY <1>0, <1>3, <2>2, <2>4, <4>1, <5>1, ReadingIs DEF PostDispatched
      <4>2. CASE ~Primes
        BY <1>0, <1>3, <2>1, <2>4, <4>2 DEF PostDispatched, ServerTypes
      <4> QED BY <4>1, <4>2
    <3>4. handler' \in [Reqs -> {"none", "running", "answered", "aborted"}]
      BY <1>0, <1>3, <2>4 DEF PostDispatched, Dispatch, ServerTypes
    <3> QED BY <1>0, <1>3, <2>1, <2>2, <2>4, <3>1, <3>3, <3>4
            DEF PostDispatched, ServerTypes, book, Entries, ExchSet
  <2> QED BY <2>3, <2>4
<1>4. ASSUME NEW c \in Exchanges, GetOpens(c) PROVE ServerTypes' /\ LogGrows
  <2>1. log' = log
    BY <1>4 DEF GetOpens, Refuse, server
  <2>2. CASE closed \/ Mapped(Standalone)
    BY <1>4, <1>b, <2>1, <2>2 DEF GetOpens, LogGrows
  <2>3. CASE ~(closed \/ Mapped(Standalone))
    <3>1. stream' \in [StreamIds -> Entries] /\ exch' \in [Exchanges -> ExchSet]
      <4>1. Standalone \in StreamIds /\ {} \in SUBSET DOMAIN log
        BY Sets
      <4> QED BY <1>4, <1>m, <1>g, <1>x, <2>3, <4>1 DEF GetOpens
    <3> QED BY <1>0, <1>4, <2>1, <2>3, <3>1 DEF GetOpens, LogGrows, ServerTypes, book, Entries, ExchSet
  <2> QED BY <2>2, <2>3
<1>5. ASSUME NEW c \in Exchanges, GetReplays(c) PROVE ServerTypes' /\ LogGrows
  <2>1. log' = log
    BY <1>5 DEF GetReplays, Refuse, server
  <2>2. CASE closed \/ (setting.knows /\ Mapped(OnStream(c)))
    BY <1>5, <1>b, <2>1, <2>2 DEF GetReplays, LogGrows
  <2>3. CASE ~(closed \/ (setting.knows /\ Mapped(OnStream(c))))
    <3>1. EventsAfter(exch[c].after) \in Seq(DOMAIN log)
      BY <1>0, <1>5, <1>e, EventsAre DEF GetReplays
    <3>2. read' \in [Exchanges -> Seq(DOMAIN log)] /\ exch' \in [Exchanges -> ExchSet]
      BY <1>0, <1>5, <1>g, <1>x, <2>3, <3>1 DEF GetReplays, ServerTypes
    <3> QED BY <1>0, <1>5, <2>1, <2>3, <3>2 DEF GetReplays, LogGrows, ServerTypes, server, book, Entries, ExchSet
  <2> QED BY <2>2, <2>3
<1>6. ASSUME NEW c \in Exchanges, GetRegisters(c) PROVE ServerTypes' /\ LogGrows
  <2> DEFINE x == OnStream(c)
  <2>1. log' = log
    BY <1>6 DEF GetRegisters, Refuse, server
  <2>2. CASE closed
    BY <1>6, <1>b, <2>1, <2>2 DEF GetRegisters, LogGrows
  <2>3. CASE ~closed
    <3>1. Ended({x}) \in [Exchanges -> ExchSet] /\ "open" \in ExchStates
      BY <1>0, Ending DEF ExchStates
    <3>2. \A d \in Exchanges : Ended({x})[d] \in ExchSet
      BY <3>1
    <3>3. {read[c][k] : k \in DOMAIN read[c]} \in SUBSET DOMAIN log
      <4>1. read[c] \in Seq(DOMAIN log)
        BY <1>0 DEF ServerTypes
      <4> QED BY <4>1
    <3>4. exch' \in [Exchanges -> ExchSet]
      <4>1. \E y \in ExchSet : exch' = [Ended({x}) EXCEPT ![c] = y]
        <5>1. [Ended({x})[c] EXCEPT !.at = "open"] \in ExchSet /\ Over \in ExchSet
          BY <3>1, <3>2, Stage, Blank
        <5>2. CASE Registered(c)
          <6>1. exch' = [Ended({x}) EXCEPT ![c].at = "open"]
            BY <1>6, <2>3, <5>2 DEF GetRegisters
          <6>2. exch' = [Ended({x}) EXCEPT ![c] = [Ended({x})[c] EXCEPT !.at = "open"]]
            BY <6>1
          <6> QED BY <5>1, <6>2
        <5>3. CASE ~Registered(c)
          BY <1>6, <2>3, <5>1, <5>3 DEF GetRegisters
        <5> QED BY <5>2, <5>3
      <4> QED BY <3>1, <4>1
    <3>5. stream' \in [StreamIds -> Entries]
      BY <1>6, <1>m, <1>s, <2>3, <3>3 DEF GetRegisters
    <3> QED BY <1>0, <1>6, <2>1, <2>3, <3>4, <3>5 DEF GetRegisters, LogGrows, ServerTypes, book, Entries, ExchSet
  <2> QED BY <2>2, <2>3
<1>7. ASSUME NEW c \in Exchanges, Cancel(c) PROVE ServerTypes' /\ LogGrows
  <2>1. exch' \in [Exchanges -> ExchSet]
    BY <1>7, <1>f DEF Cancel
  <2>2. stream' \in [StreamIds -> Entries] /\ log' = log
    BY <1>0, <1>7, <1>m, <1>s DEF Cancel, ServerTypes
  <2> QED BY <1>0, <1>7, <2>1, <2>2 DEF Cancel, LogGrows, ServerTypes, book, Entries, ExchSet
<1>8. CASE SendResumes
  <2> DEFINE i == Head(sending)
  <2>1. log' = log /\ LogGrows /\ i \in DOMAIN log' /\ sending' \in Seq(DOMAIN log)
    BY <1>0, <1>8 DEF SendResumes, LogGrows, ServerTypes
  <2>2. /\ log'[i].what = "response" => log'[i].req \in Reqs
        /\ ~(setting.json /\ log'[i].what = "response")
    <3>1. log'[i].what = "response" => log'[i].req \in Reqs /\ log'[i].stream = PostOf[log'[i].req]
      BY <1>0, <2>1 DEF LogShape, IsResponse
    <3>2. setting.json => log'[i].stream = Standalone
      <4>1. 1 \in DOMAIN sending /\ i = sending[1]
        BY <1>0, <1>8 DEF SendResumes, ServerTypes
      <4> QED BY <1>0, <2>1, <4>1 DEF Queue
    <3> QED BY <3>1, <3>2, Sets
  <2>3. /\ exch' \in [Exchanges -> ExchSet] /\ stream' \in [StreamIds -> Entries]
        /\ inflight' \subseteq Reqs /\ responded' \subseteq Reqs
        /\ read' \in [Exchanges -> Seq(DOMAIN log')]
    BY <1>0, <1>8, <2>1, <2>2, DeliverTypes DEF SendResumes
  <2> QED BY <1>0, <1>8, <2>1, <2>3 DEF SendResumes, ServerTypes, Entries, ExchSet
<1>9. ASSUME NEW r \in Reqs, Notify(r) PROVE ServerTypes' /\ LogGrows
  BY <1>0, <1>9, SendTypes, Sets DEF Notify, ServerTypes
<1>10. ASSUME NEW r \in Reqs, Respond(r) PROVE ServerTypes' /\ LogGrows
  BY <1>0, <1>10, SendTypes, Sets DEF Respond, ServerTypes
<1>11. CASE NotifyStandalone
  <2>1. Standalone \in StreamIds /\ None \in Reqs \cup {None}
    BY Sets
  <2> QED BY <1>0, <1>11, <2>1, SendTypes DEF NotifyStandalone, ServerTypes
<1>12. ASSUME NEW r \in Reqs, NEW s \in StreamIds, CloseStream(r, s) PROVE ServerTypes' /\ LogGrows
  <2>1. exch' \in [Exchanges -> ExchSet] /\ stream' \in [StreamIds -> Entries] /\ log' = log
    BY <1>0, <1>12, <1>m, Ending DEF CloseStream
  <2> QED BY <1>0, <1>12, <2>1 DEF CloseStream, LogGrows, ServerTypes, book, Entries, ExchSet
<1>13. CASE Close
  <2>1. exch' \in [Exchanges -> ExchSet] /\ stream' \in [StreamIds -> Entries] /\ log' = log
    BY <1>0, <1>13, Ending DEF Close, Entries, Unmapped
  <2> QED BY <1>0, <1>13, <2>1 DEF Close, LogGrows, ServerTypes, Entries, ExchSet
<1> QED
  BY <1>1, <1>2, <1>3, <1>4, <1>5, <1>6, <1>7, <1>8, <1>9, <1>10, <1>11, <1>12, <1>13
     DEF ServerNext, ServerStep

\* What the client does to the exchanges.
LEMMA AskTypes ==
  ASSUME ServerTypes, NEW c \in Exchanges, NEW method \in {"GET", "POST"}, NEW s \in StreamIds,
         NEW after \in {None} \cup DOMAIN log, Ask(c, method, s, after)
  PROVE  ServerTypes' /\ UNCHANGED <<setting, server>>
<1>1. [at |-> "asked", method |-> method, stream |-> s, after |-> after] \in ExchSet
  BY DEF ExchSet, ExchStates
<1>2. <<>> \in Seq(DOMAIN log)
  OBVIOUS
<1> QED BY <1>1, <1>2 DEF Ask, ServerTypes, server, book, Entries, ExchSet

LEMMA LeaveTypes ==
  ASSUME ServerTypes, ClientTypes, NEW s \in Channels, using[s] # None, Leave(s)
  PROVE  ServerTypes' /\ using' \in [Channels -> Exchanges \cup {None}] /\ UNCHANGED <<setting, server>>
<1>1. using[s] \in Exchanges /\ exch[using[s]] \in ExchSet /\ <<>> \in Seq(DOMAIN log)
  BY DEF ClientTypes, ServerTypes
<1>2. exch' \in [Exchanges -> ExchSet]
  BY <1>1, Blank DEF Leave, ServerTypes
<1>3. using' \in [Channels -> Exchanges \cup {None}]
  BY DEF Leave, ClientTypes
<1> QED BY <1>1, <1>2, <1>3 DEF Leave, ServerTypes, server, book, Entries, ExchSet

LEMMA ScheduleTypes ==
  ASSUME ClientTypes, NEW s \in Channels, NEW n \in Nat, Schedule(s, n)
  PROVE  /\ at' \in [Channels -> ChannelStates] /\ attempt' \in [Channels -> Nat]
         /\ \A t \in Channels : at'[t] \in {"waiting", "reconnecting"} => attempt'[t] < MaxRetries
         /\ at'[s] \in {"gaveUp", "waiting"}
<1>1. {"gaveUp", "waiting"} \subseteq ChannelStates
  BY DEF ChannelStates
<1> QED BY <1>1, Sets DEF Schedule, Exhausted, ClientTypes

LEMMA DeliveredIs ==
  ASSUME ServerTypes, ClientTypes, NEW s \in Channels PROVE Delivered(s) \in Seq(DOMAIN log)
<1>1. past[s] \in Seq(DOMAIN log) /\ (Reads(s) => read[using[s]] \in Seq(DOMAIN log))
  BY DEF ServerTypes, ClientTypes, Reads
<1>2. CASE Reads(s)
  <2>1. past[s] \o read[using[s]] \in Seq(DOMAIN log)
    BY <1>1, <1>2
  <2> QED BY <1>2, <2>1 DEF Delivered
<1>3. CASE ~Reads(s)
  BY <1>1, <1>3 DEF Delivered
<1> QED BY <1>2, <1>3

LEMMA LastIs ==
  ASSUME ServerTypes, NEW c \in Exchanges
  PROVE  /\ LastEventId(c) \in {None} \cup DOMAIN log
         /\ LastEventId(c) # None => \E k \in DOMAIN read[c] : LastEventId(c) = read[c][k]
<1>1. read[c] \in Seq(DOMAIN log)
  BY DEF ServerTypes
<1>2. read[c] # <<>> => Len(read[c]) \in DOMAIN read[c]
  BY <1>1
<1> QED BY <1>1, <1>2 DEF LastEventId

\* The end of a fetch or of a stream.
LEMMA OverTypes ==
  ASSUME ServerTypes, ClientTypes, NEW s \in Channels, using[s] # None, FetchFailed(s) \/ StreamEnded(s)
  PROVE  /\ at' \in [Channels -> ChannelStates] /\ attempt' \in [Channels -> Nat]
         /\ \A t \in Channels : at'[t] \in {"waiting", "reconnecting"} => attempt'[t] < MaxRetries
         /\ token' \in [Channels -> {None} \cup DOMAIN log] /\ past' \in [Channels -> Seq(DOMAIN log)]
         /\ at'[s] \notin {"idle", "posting", "opening", "reconnecting"}
<1>1. {"failed", "ended"} \subseteq ChannelStates
  BY DEF ChannelStates
<1>2. CASE FetchFailed(s)
  <2>1. CASE at[s] = "reconnecting"
    <3>1. Schedule(s, attempt[s] + 1) /\ attempt[s] + 1 \in Nat
      BY <1>2, <2>1 DEF FetchFailed, ClientTypes
    <3> QED BY <1>2, <3>1, ScheduleTypes DEF FetchFailed, ClientTypes
  <2>2. CASE at[s] # "reconnecting"
    BY <1>1, <1>2, <2>2 DEF FetchFailed, ClientTypes
  <2> QED BY <2>1, <2>2
<1>3. CASE StreamEnded(s)
  <2>1. past' \in [Channels -> Seq(DOMAIN log)]
    BY <1>3, DeliveredIs DEF StreamEnded, ClientTypes
  <2>2. CASE NeedsReconnect(s)
    <3>1. LastEventId(using[s]) \in {None} \cup DOMAIN log
      BY LastIs DEF ClientTypes
    <3> QED BY <1>3, <2>1, <2>2, <3>1, ScheduleTypes DEF StreamEnded, ClientTypes
  <2>3. CASE ~NeedsReconnect(s)
    BY <1>1, <1>3, <2>1, <2>3 DEF StreamEnded, ClientTypes
  <2> QED BY <2>2, <2>3
<1> QED BY <1>2, <1>3

ClientNext ==
  \/ \E p \in Posts : Post(p)
  \/ OpenStandalone
  \/ \E s \in Channels : ClientStep(s) \/ Drop(s)
  \/ ClientClose

LEMMA ClientTypeStep ==
  ASSUME SessionInv, ClientNext PROVE ServerTypes' /\ ClientTypes' /\ UNCHANGED <<setting, server>>
<1>0. ServerTypes /\ ClientTypes
  BY DEF SessionInv
<1>x. {"posting", "opening", "reconnecting", "closed"} \subseteq ChannelStates
  BY DEF ChannelStates
<1>1. ASSUME NEW p \in Posts, Post(p) PROVE ServerTypes' /\ ClientTypes' /\ UNCHANGED <<setting, server>>
  <2>1. PICK c \in Free(p) : /\ Ask(c, "POST", p, None) /\ at' = [at EXCEPT ![p] = "posting"]
                             /\ using' = [using EXCEPT ![p] = c]
                             /\ UNCHANGED <<token, attempt, past, strayed, aborted, drops>>
    BY <1>1 DEF Post
  <2>2. c \in Exchanges /\ p \in StreamIds /\ p \in Channels
    BY <2>1, FreeIs, Sets
  <2>3. ServerTypes' /\ UNCHANGED <<setting, server>>
    BY <1>0, <2>1, <2>2, AskTypes
  <2>4. log' = log
    BY <2>3 DEF server
  <2> QED BY <1>0, <1>x, <2>1, <2>2, <2>3, <2>4 DEF ClientTypes
<1>2. ASSUME OpenStandalone PROVE ServerTypes' /\ ClientTypes' /\ UNCHANGED <<setting, server>>
  <2>1. PICK c \in Free(Standalone) : /\ Ask(c, "GET", Standalone, None)
                                      /\ at' = [at EXCEPT ![Standalone] = "opening"]
                                      /\ using' = [using EXCEPT ![Standalone] = c]
                                      /\ UNCHANGED <<token, attempt, past, strayed, aborted, drops>>
    BY <1>2 DEF OpenStandalone
  <2>2. Standalone \in StreamIds /\ Standalone \in Channels
    BY Sets
  <2>3. c \in Exchanges
    BY <2>1, <2>2, FreeIs
  <2>4. ServerTypes' /\ UNCHANGED <<setting, server>>
    BY <1>0, <2>1, <2>2, <2>3, AskTypes
  <2>5. log' = log
    BY <2>4 DEF server
  <2> QED BY <1>0, <1>x, <2>1, <2>2, <2>3, <2>4, <2>5 DEF ClientTypes
<1>3. ASSUME NEW s \in Channels, Reconnect(s)
      PROVE  ServerTypes' /\ ClientTypes' /\ UNCHANGED <<setting, server>>
  <2>1. PICK c \in Free(s) : /\ Ask(c, "GET", Standalone, token[s])
                             /\ at' = [at EXCEPT ![s] = "reconnecting"]
                             /\ using' = [using EXCEPT ![s] = c]
                             /\ UNCHANGED <<token, attempt, past, aborted, drops>>
    BY <1>3 DEF Reconnect
  <2>2. Standalone \in StreamIds /\ c \in Exchanges /\ token[s] \in {None} \cup DOMAIN log
    BY <1>0, <2>1, FreeIs, Sets DEF ClientTypes
  <2>3. ServerTypes' /\ UNCHANGED <<setting, server>>
    BY <1>0, <2>1, <2>2, AskTypes
  <2>4. log' = log /\ strayed' \subseteq Channels /\ at[s] = "waiting"
    BY <1>0, <1>3, <2>3 DEF server, Reconnect, ClientTypes
  <2> QED BY <1>0, <1>x, <2>1, <2>2, <2>3, <2>4 DEF ClientTypes
<1>4. ASSUME NEW s \in Channels, Ends(s) \/ Drop(s)
      PROVE  ServerTypes' /\ ClientTypes' /\ UNCHANGED <<setting, server>>
  <2>1. /\ using[s] # None /\ Leave(s) /\ (FetchFailed(s) \/ StreamEnded(s))
        /\ UNCHANGED <<strayed, aborted>> /\ (drops' = drops \/ (drops < MaxDrops /\ drops' = drops + 1))
    BY <1>4 DEF Ends, Drop
  <2>2. ServerTypes' /\ using' \in [Channels -> Exchanges \cup {None}] /\ UNCHANGED <<setting, server>>
    BY <1>0, <2>1, LeaveTypes
  <2>3. /\ at' \in [Channels -> ChannelStates] /\ attempt' \in [Channels -> Nat]
        /\ \A t \in Channels : at'[t] \in {"waiting", "reconnecting"} => attempt'[t] < MaxRetries
        /\ token' \in [Channels -> {None} \cup DOMAIN log] /\ past' \in [Channels -> Seq(DOMAIN log)]
    BY <1>0, <2>1, OverTypes
  <2>4. log' = log /\ drops' \in 0 .. MaxDrops
    BY <1>0, <2>1, <2>2, Sets DEF server, ClientTypes
  <2> QED BY <1>0, <2>1, <2>2, <2>3, <2>4 DEF ClientTypes
<1>5. ASSUME ClientClose PROVE ServerTypes' /\ ClientTypes' /\ UNCHANGED <<setting, server>>
  <2>1. UNCHANGED <<setting, server, exch, token, attempt, strayed, drops>> /\ log' = log
    BY <1>5 DEF ClientClose, server
  <2>2. <<>> \in Seq(DOMAIN log)
    OBVIOUS
  <2>3. ServerTypes'
    BY <1>0, <1>5, <2>1, <2>2 DEF ClientClose, ServerTypes, server, book, Entries, ExchSet
  <2>4. past' \in [Channels -> Seq(DOMAIN log)]
    BY <1>0, <1>5, DeliveredIs DEF ClientClose
  <2>5. /\ at' \in [Channels -> ChannelStates] /\ using' \in [Channels -> Exchanges \cup {None}]
        /\ \A t \in Channels : at'[t] \notin {"waiting", "reconnecting"}
        /\ aborted' \in BOOLEAN
    BY <1>0, <1>5, <1>x DEF ClientClose, ClientTypes
  <2>6. /\ token' \in [Channels -> {None} \cup DOMAIN log'] /\ attempt' \in [Channels -> Nat]
        /\ strayed' \subseteq Channels /\ drops' \in 0 .. MaxDrops
        /\ past' \in [Channels -> Seq(DOMAIN log')]
    BY <1>0, <2>1, <2>4 DEF ClientTypes
  <2>7. \A t \in Channels : at'[t] \in {"waiting", "reconnecting"} => attempt'[t] < MaxRetries
    BY <2>5
  <2>8. ClientTypes'
    BY <2>5, <2>6, <2>7 DEF ClientTypes
  <2> QED BY <2>1, <2>3, <2>8
<1> QED BY <1>1, <1>2, <1>3, <1>4, <1>5 DEF ClientNext, ClientStep

-----------------------------------------------------------------------------
(***************************************************************************)
(* What a step of the server may do to an exchange, a handler and the log. *)
(***************************************************************************)
Through(d) ==
  /\ exch'[d].at \in {"over", "refused"}
  /\ exch'[d].method = "GET" /\ exch'[d].stream = Standalone /\ exch'[d].after = None

Restaged(d) ==
  exch'[d].method = exch[d].method /\ exch'[d].stream = exch[d].stream /\ exch'[d].after = exch[d].after

Turns ==
  {<<"asked", "POST", "challenged">>, <<"challenged", "POST", "json">>, <<"challenged", "POST", "priming">>,
   <<"priming", "POST", "open">>, <<"asked", "GET", "open">>, <<"asked", "GET", "replaying">>,
   <<"replaying", "GET", "open">>, <<"json", "POST", "closing">>, <<"open", "POST", "closing">>,
   <<"open", "GET", "closing">>}

Moves(d) ==
  \/ exch'[d] = exch[d]
  \/ exch[d].at # "over" /\ Through(d)
  \/ Restaged(d) /\ <<exch[d].at, exch[d].method, exch'[d].at>> \in Turns

Handled(r) ==
  \/ handler'[r] = handler[r]
  \/ handler[r] = "running" /\ handler'[r] \in {"answered", "aborted"}
  \/ /\ handler[r] = "none" /\ handler'[r] = "running" /\ ~closed /\ r \in Carried(PostOf[r])
     /\ \E c \in Exchanges : Waits(c, PostOf[r]) /\ exch'[c] # exch[c] /\ exch'[c].at \notin {"asked", "challenged", "priming"}

Extended ==
  \/ log' = log
  \/ \E c \in Exchanges :
       /\ log' = Logged(exch[c].stream, None, "priming") /\ Primes /\ ~setting.json
       /\ exch[c].at = "challenged" /\ exch'[c].at = "priming"
  \/ log' = Logged(Standalone, None, "note")
  \/ \E r \in Reqs : log' = Logged(PostOf[r], r, "note") /\ handler[r] = "running" /\ ~setting.json
  \/ \E r \in Reqs : log' = Logged(PostOf[r], r, "response") /\ handler[r] = "running" /\ handler'[r] = "answered"

ServerMoves ==
  /\ \A d \in Exchanges : Moves(d)
  /\ \A d \in Exchanges : exch'[d].at = "priming" /\ exch[d].at # "priming" =>
       ~setting.json /\ (Primes => log' = Logged(exch[d].stream, None, "priming"))
  /\ \A r \in Reqs : Handled(r)
  /\ Extended
  /\ setting' = setting /\ (closed => closed')

\* The mapped response of a POST whose requests were dispatched.
LEMMA MappedIs ==
  ASSUME ServerTypes, Exchanged, Begun, Mapping, NEW s \in StreamIds, Mapped(s)
  PROVE  /\ stream[s].to \in Exchanges /\ OnStream(stream[s].to) = s
         /\ exch[stream[s].to].at \in {"open", "priming", "json"}
         /\ \A r \in Reqs : PostOf[r] = s /\ handler[r] # "none" => exch[stream[s].to].at # "priming"
<1>1. stream[s].to \in Exchanges /\ OnStream(stream[s].to) = s
      /\ exch[stream[s].to].at \in {"open", "priming", "json"}
  BY DEF ServerTypes, Mapping, Mapped, Entries
<1>2. ASSUME NEW r \in Reqs, PostOf[r] = s, handler[r] # "none", exch[stream[s].to].at = "priming" PROVE FALSE
  <2>1. s \in Posts /\ exch[stream[s].to].method = "POST" /\ exch[stream[s].to].after = None
    BY <1>1, <1>2, Sets DEF Exchanged
  <2>2. Waits(stream[s].to, s)
    BY <1>1, <1>2, <2>1 DEF OnStream, Waits, Posted
  <2> QED BY <1>1, <1>2, <2>1, <2>2 DEF Begun, Undispatched
<1> QED BY <1>1, <1>2

\* controller.close() of an open stream or a waiting JSON response.
LEMMA ClosesMoves ==
  ASSUME ServerTypes, Exchanged, NEW d \in Exchanges, exch[d].at \in {"open", "json"}, exch'[d] = CloseController(d)
  PROVE  Moves(d) /\ exch'[d].at \in {"over", "closing"}
<1>1. exch[d] \in ExchSet /\ exch[d].method \in {"GET", "POST"} /\ "closing" \in ExchStates
  BY DEF ServerTypes, ExchSet, ExchStates
<1>2. CASE wire[d]
  BY <1>2 DEF CloseController, Moves, Through, Over
<1>3. CASE ~wire[d]
  <2>1. exch'[d] = [exch[d] EXCEPT !.at = "closing"]
    BY <1>3 DEF CloseController
  <2>2. exch'[d].at = "closing" /\ Restaged(d)
    BY <1>1, <2>1, Stage DEF Restaged
  <2>3. exch[d].at = "json" => exch[d].method = "POST"
    BY DEF Exchanged
  <2>4. <<exch[d].at, exch[d].method, exch'[d].at>> \in Turns
    BY <1>1, <2>2, <2>3 DEF Turns
  <2> QED BY <2>2, <2>4 DEF Moves
<1> QED BY <1>2, <1>3

LEMMA FinishMoves ==
  ASSUME SessionInv, NEW r \in Reqs, handler[r] # "none", Finish(r)
  PROVE  \A d \in Exchanges : Moves(d) /\ (exch'[d].at = "priming" => exch[d].at = "priming")
<1>0. ServerTypes /\ Exchanged /\ Begun /\ Mapping
  BY DEF SessionInv
<1> SUFFICES ASSUME NEW d \in Exchanges, exch'[d] # exch[d]
             PROVE  Moves(d) /\ (exch'[d].at = "priming" => exch[d].at = "priming")
  BY DEF Moves
<1>1. Completes(r)
  BY FinishIs DEF Partly
<1>2. d = stream[PostOf[r]].to /\ exch'[d] = CloseController(d) /\ PostOf[r] \in StreamIds
  BY <1>1, Sets DEF Completes
<1>3. Mapped(PostOf[r])
  BY <1>2, Sets DEF Mapped
<1>4. exch[d].at \in {"open", "json"}
  BY <1>0, <1>2, <1>3, MappedIs
<1> QED BY <1>0, <1>2, <1>4, ClosesMoves

LEMMA DeliverMoves ==
  ASSUME SessionInv, NEW i, Deliver(i),
         log'[i].what = "response" => log'[i].req \in Reqs /\ handler[log'[i].req] # "none"
  PROVE  \A d \in Exchanges : Moves(d) /\ (exch'[d].at = "priming" => exch[d].at = "priming")
<1>1. CASE log'[i].what = "response"
  BY <1>1, FinishMoves DEF Deliver
<1>2. CASE log'[i].what # "response"
  BY <1>2 DEF Deliver, Moves
<1> QED BY <1>1, <1>2

LEMMA SendMoves ==
  ASSUME SessionInv, NEW s \in StreamIds, NEW r \in Reqs \cup {None},
         NEW what \in {"note", "response"}, Send(s, r, what),
         what = "response" => r \in Reqs /\ handler[r] = "running"
  PROVE  /\ \A d \in Exchanges : Moves(d) /\ (exch'[d].at = "priming" => exch[d].at = "priming")
         /\ log' = Logged(s, r, what) /\ setting' = setting /\ (closed => closed')
<1>1. log' = Logged(s, r, what) /\ setting' = setting /\ closed' = closed
  BY DEF Send
<1>2. log'[Len(log')] = [stream |-> s, req |-> r, what |-> what]
  BY <1>1, LoggedIs DEF SessionInv
<1>3. CASE UNCHANGED exch
  BY <1>1, <1>3 DEF Moves
<1>4. CASE Deliver(Len(log'))
  BY <1>1, <1>2, <1>4, DeliverMoves
<1> QED BY <1>1, <1>3, <1>4 DEF Send

LEMMA EndingMoves ==
  ASSUME SessionInv, NEW S
  PROVE  \A d \in Exchanges : exch'[d] = Ended(S)[d] =>
           Moves(d) /\ (exch'[d].at = "priming" => exch[d].at = "priming")
<1> SUFFICES ASSUME NEW d \in Exchanges, exch'[d] = Ended(S)[d]
             PROVE  Moves(d) /\ (exch'[d].at = "priming" => exch[d].at = "priming")
  OBVIOUS
<1>1. CASE exch'[d] = exch[d]
  BY <1>1 DEF Moves
<1>2. CASE exch[d].at = "open" /\ exch'[d] = CloseController(d)
  BY <1>2, ClosesMoves DEF SessionInv
<1> QED BY <1>1, <1>2, Ending DEF SessionInv

\* Requests are dispatched once, by the exchange of their POST.
LEMMA DispatchHandles ==
  ASSUME SessionInv, NEW c \in Exchanges, exch[c].method = "POST",
         exch[c].at \in {"challenged", "priming"}, exch'[c].at \notin {"asked", "challenged", "priming"},
         Dispatch(exch[c].stream)
  PROVE  \A r \in Reqs : Handled(r)
<1> SUFFICES ASSUME NEW r \in Reqs PROVE Handled(r)
  OBVIOUS
<1>1. Waits(c, exch[c].stream) /\ exch[c].stream \in Posts
  BY Sets DEF Waits, Posted, SessionInv, Exchanged, ServerTypes, ExchSet
<1>2. r \in Carried(exch[c].stream) => PostOf[r] = exch[c].stream
  BY DEF Carried
<1>3. r \in Carried(exch[c].stream) => handler[r] = "none"
  BY <1>1, <1>2 DEF SessionInv, Begun, Undispatched
<1>4. exch'[c] # exch[c]
  OBVIOUS
<1> QED BY <1>1, <1>2, <1>3, <1>4 DEF Dispatch, Handled, SessionInv, ServerTypes

LEMMA ServerMovesStep ==
  ASSUME SessionInv, ServerNext PROVE ServerMoves
<1>0. ServerTypes /\ Exchanged /\ Begun /\ LogShape
  BY DEF SessionInv
<1>e. \A d \in Exchanges : exch[d] \in ExchSet
  BY <1>0 DEF ServerTypes
<1>g. ASSUME NEW c \in Exchanges, NEW stage \in ExchStates, Goto(c, stage),
             <<exch[c].at, exch[c].method, stage>> \in Turns
      PROVE  /\ \A d \in Exchanges : Moves(d) /\ (d # c => exch'[d] = exch[d])
             /\ exch'[c].at = stage /\ exch'[c].method = exch[c].method /\ exch'[c].stream = exch[c].stream
  <2>1. exch'[c] = [exch[c] EXCEPT !.at = stage] /\ \A d \in Exchanges \ {c} : exch'[d] = exch[d]
    BY <1>0, <1>g DEF Goto, ServerTypes
  <2>2. /\ exch'[c].at = stage /\ exch'[c].method = exch[c].method
        /\ exch'[c].stream = exch[c].stream /\ exch'[c].after = exch[c].after
    BY <1>e, <2>1, Stage
  <2> QED BY <1>g, <2>1, <2>2 DEF Moves, Restaged
<1>f. ASSUME NEW c \in Exchanges, NEW how \in {"over", "refused"}, Finished(c, how), exch[c].at # "over"
      PROVE  /\ \A d \in Exchanges : Moves(d) /\ (d # c => exch'[d] = exch[d])
             /\ exch'[c].at = how
  <2>1. exch'[c] = [at |-> how, method |-> "GET", stream |-> Standalone, after |-> None]
        /\ \A d \in Exchanges \ {c} : exch'[d] = exch[d]
    BY <1>0, <1>f, Blank DEF Finished, ServerTypes
  <2> QED BY <1>f, <2>1 DEF Moves, Through
<1>r. ASSUME NEW c \in Exchanges, Refuse(c), exch[c].at # "over" PROVE ServerMoves
  <2>1. /\ \A d \in Exchanges : Moves(d) /\ (exch'[d].at = "priming" => exch[d].at = "priming")
    BY <1>r, <1>f DEF Refuse
  <2> QED BY <1>r, <2>1 DEF Refuse, ServerMoves, Extended, Handled, server
<1>x. {"challenged", "json", "priming", "open", "replaying"} \subseteq ExchStates
  BY DEF ExchStates
<1>u. ASSUME \A d \in Exchanges : Moves(d) /\ (exch'[d].at = "priming" => exch[d].at = "priming"),
             UNCHANGED <<setting, closed, log, handler>>
      PROVE  ServerMoves
  BY <1>u DEF ServerMoves, Extended, Handled
<1>1. ASSUME NEW c \in Exchanges, PostArrives(c) PROVE ServerMoves
  <2>1. CASE closed
    BY <1>1, <1>r, <2>1 DEF PostArrives, Asks
  <2>2. CASE ~closed
    <3>1. <<exch[c].at, exch[c].method, "challenged">> \in Turns
      BY <1>1 DEF PostArrives, Asks, Turns
    <3>2. \A d \in Exchanges : Moves(d) /\ (exch'[d].at = "priming" => exch[d].at = "priming")
      BY <1>1, <1>g, <1>x, <2>2, <3>1 DEF PostArrives
    <3> QED BY <1>1, <1>u, <2>2, <3>2 DEF PostArrives, server
  <2> QED BY <2>1, <2>2
<1>2. ASSUME NEW c \in Exchanges, PostRegisters(c) PROVE ServerMoves
  <2>1. exch[c].at = "challenged" /\ exch[c].method = "POST"
        /\ UNCHANGED <<setting, closed, responded, sending, wire, read>>
    BY <1>0, <1>2 DEF PostRegisters, Exchanged
  <2>2. CASE setting.json
    <3>1. <<exch[c].at, exch[c].method, "json">> \in Turns
      BY <2>1 DEF Turns
    <3>2. (\A d \in Exchanges : Moves(d) /\ (exch'[d].at = "priming" => exch[d].at = "priming"))
          /\ exch'[c].at = "json"
      BY <1>2, <1>g, <1>x, <2>2, <3>1 DEF PostRegisters
    <3>3. \A r \in Reqs : Handled(r)
      BY <1>2, <2>1, <2>2, <3>2, DispatchHandles DEF PostRegisters
    <3> QED BY <1>2, <2>1, <2>2, <3>2, <3>3 DEF PostRegisters, ServerMoves, Extended
  <2>3. CASE ~setting.json
    <3>1. <<exch[c].at, exch[c].method, "priming">> \in Turns
      BY <2>1 DEF Turns
    <3>2. (\A d \in Exchanges : Moves(d) /\ (d # c => exch'[d] = exch[d])) /\ exch'[c].at = "priming"
      BY <1>2, <1>g, <1>x, <2>3, <3>1 DEF PostRegisters
    <3>3. log' = (IF Primes THEN Logged(exch[c].stream, None, "priming") ELSE log) /\ handler' = handler
      BY <1>2, <2>3 DEF PostRegisters
    <3>4. Extended
      BY <2>1, <2>3, <3>2, <3>3 DEF Extended
    <3>5. \A d \in Exchanges : exch'[d].at = "priming" /\ exch[d].at # "priming" => d = c
      BY <3>2
    <3>6. \A d \in Exchanges : exch'[d].at = "priming" /\ exch[d].at # "priming" =>
            ~setting.json /\ (Primes => log' = Logged(exch[d].stream, None, "priming"))
      BY <2>3, <3>3, <3>5
    <3>7. \A r \in Reqs : Handled(r)
      BY <3>3 DEF Handled
    <3> QED BY <2>1, <3>2, <3>4, <3>6, <3>7 DEF ServerMoves
  <2> QED BY <2>2, <2>3
<1>3. ASSUME NEW c \in Exchanges, PostDispatched(c) PROVE ServerMoves
  <2>1. exch[c].at = "priming" /\ exch[c].method = "POST"
    BY <1>0, <1>3 DEF PostDispatched, Exchanged
  <2>2. CASE Primes /\ stream[exch[c].stream].to # c
    BY <1>3, <1>r, <2>1, <2>2 DEF PostDispatched
  <2>3. CASE ~(Primes /\ stream[exch[c].stream].to # c)
    <3>1. Goto(c, "open") \/ Finished(c, "over")
      BY <1>3, <2>3 DEF PostDispatched
    <3>2. <<exch[c].at, exch[c].method, "open">> \in Turns
      BY <2>1 DEF Turns
    <3>3. (\A d \in Exchanges : Moves(d) /\ (d # c => exch'[d] = exch[d])) /\ exch'[c].at \in {"open", "over"}
      BY <1>f, <1>g, <1>x, <2>1, <3>1, <3>2
    <3>4. \A r \in Reqs : Handled(r)
      BY <1>3, <2>1, <2>3, <3>3, DispatchHandles DEF PostDispatched
    <3> QED BY <1>3, <2>3, <3>3, <3>4 DEF PostDispatched, ServerMoves, Extended
  <2> QED BY <2>2, <2>3
<1>4. ASSUME NEW c \in Exchanges, GetOpens(c) PROVE ServerMoves
  <2>1. CASE closed \/ Mapped(Standalone)
    BY <1>4, <1>r, <2>1 DEF GetOpens, Asks
  <2>2. CASE ~(closed \/ Mapped(Standalone))
    <3>1. <<exch[c].at, exch[c].method, "open">> \in Turns
      BY <1>4 DEF GetOpens, Asks, Turns
    <3>2. \A d \in Exchanges : Moves(d) /\ (exch'[d].at = "priming" => exch[d].at = "priming")
      BY <1>4, <1>g, <1>x, <2>2, <3>1 DEF GetOpens
    <3> QED BY <1>4, <1>u, <2>2, <3>2 DEF GetOpens
  <2> QED BY <2>1, <2>2
<1>5. ASSUME NEW c \in Exchanges, GetReplays(c) PROVE ServerMoves
  <2>1. CASE closed \/ (setting.knows /\ Mapped(OnStream(c)))
    BY <1>5, <1>r, <2>1 DEF GetReplays, Asks
  <2>2. CASE ~(closed \/ (setting.knows /\ Mapped(OnStream(c))))
    <3>1. <<exch[c].at, exch[c].method, "replaying">> \in Turns
      BY <1>5 DEF GetReplays, Asks, Turns
    <3>2. \A d \in Exchanges : Moves(d) /\ (exch'[d].at = "priming" => exch[d].at = "priming")
      BY <1>5, <1>g, <1>x, <2>2, <3>1 DEF GetReplays
    <3> QED BY <1>5, <1>u, <2>2, <3>2 DEF GetReplays, server
  <2> QED BY <2>1, <2>2
<1>6. ASSUME NEW c \in Exchanges, GetRegisters(c) PROVE ServerMoves
  <2>1. exch[c].at = "replaying" /\ exch[c].method = "GET"
    BY <1>0, <1>6 DEF GetRegisters, Exchanged
  <2>2. CASE closed
    BY <1>6, <1>r, <2>1, <2>2 DEF GetRegisters
  <2>3. CASE ~closed
    <3> DEFINE ended == Ended({OnStream(c)})
    <3>1. ended \in [Exchanges -> ExchSet] /\ ended[c] = exch[c]
      BY <1>0, <2>1, Ending
    <3>2. \A d \in Exchanges \ {c} : exch'[d] = ended[d]
      BY <1>6, <2>3, <3>1 DEF GetRegisters
    <3>3. exch'[c] = Over \/ exch'[c] = [exch[c] EXCEPT !.at = "open"]
      BY <1>6, <2>3, <3>1 DEF GetRegisters
    <3>4. Moves(c) /\ exch'[c].at # "priming"
      <4>1. CASE exch'[c] = Over
        BY <2>1, <4>1 DEF Moves, Through, Over
      <4>2. CASE exch'[c] = [exch[c] EXCEPT !.at = "open"]
        <5>1. Restaged(c) /\ exch'[c].at = "open"
          BY <1>e, <1>x, <4>2, Stage DEF Restaged
        <5>2. <<exch[c].at, exch[c].method, exch'[c].at>> \in Turns
          BY <2>1, <5>1 DEF Turns
        <5> QED BY <5>1, <5>2 DEF Moves
      <4> QED BY <3>3, <4>1, <4>2
    <3>5. \A d \in Exchanges : Moves(d) /\ (exch'[d].at = "priming" => exch[d].at = "priming")
      BY <3>2, <3>4, EndingMoves
    <3> QED BY <1>6, <1>u, <2>3, <3>5 DEF GetRegisters
  <2> QED BY <2>2, <2>3
<1>7. ASSUME NEW c \in Exchanges, Cancel(c) PROVE ServerMoves
  <2>1. \A d \in Exchanges : Moves(d) /\ (exch'[d].at = "priming" => exch[d].at = "priming")
    BY <1>7, <1>f DEF Cancel
  <2> QED BY <1>7, <1>u, <2>1 DEF Cancel
<1>8. CASE SendResumes
  <2>1. log' = log /\ Head(sending) \in DOMAIN log /\ UNCHANGED <<setting, closed, handler, wire>>
    BY <1>0, <1>8 DEF SendResumes, ServerTypes
  <2>2. log'[Head(sending)].what = "response" =>
          log'[Head(sending)].req \in Reqs /\ handler[log'[Head(sending)].req] # "none"
    BY <1>0, <2>1 DEF LogShape, IsResponse
  <2>3. \A d \in Exchanges : Moves(d) /\ (exch'[d].at = "priming" => exch[d].at = "priming")
    BY <1>8, <2>2, DeliverMoves DEF SendResumes
  <2> QED BY <1>u, <2>1, <2>3
<1>9. ASSUME NEW r \in Reqs, Notify(r) PROVE ServerMoves
  <2>1. /\ \A d \in Exchanges : Moves(d) /\ (exch'[d].at = "priming" => exch[d].at = "priming")
        /\ log' = Logged(PostOf[r], r, "note") /\ setting' = setting /\ (closed => closed')
    BY <1>9, SendMoves, Sets DEF Notify
  <2> QED BY <1>9, <2>1 DEF Notify, ServerMoves, Handled, Extended
<1>10. ASSUME NEW r \in Reqs, Respond(r) PROVE ServerMoves
  <2>1. /\ \A d \in Exchanges : Moves(d) /\ (exch'[d].at = "priming" => exch[d].at = "priming")
        /\ log' = Logged(PostOf[r], r, "response") /\ setting' = setting /\ (closed => closed')
    BY <1>10, SendMoves, Sets DEF Respond
  <2>2. \A q \in Reqs : Handled(q)
    BY <1>0, <1>10 DEF Respond, Handled, ServerTypes
  <2>3. handler[r] = "running" /\ handler'[r] = "answered"
    BY <1>0, <1>10 DEF Respond, ServerTypes
  <2> QED BY <2>1, <2>2, <2>3 DEF ServerMoves, Extended
<1>11. CASE NotifyStandalone
  <2>1. Standalone \in StreamIds /\ None \in Reqs \cup {None}
    BY Sets
  <2>2. /\ \A d \in Exchanges : Moves(d) /\ (exch'[d].at = "priming" => exch[d].at = "priming")
        /\ log' = Logged(Standalone, None, "note") /\ setting' = setting /\ (closed => closed')
    BY <1>11, <2>1, SendMoves DEF NotifyStandalone
  <2> QED BY <1>11, <2>2 DEF NotifyStandalone, ServerMoves, Handled, Extended
<1>12. ASSUME NEW r \in Reqs, NEW s \in StreamIds, CloseStream(r, s) PROVE ServerMoves
  <2>1. \A d \in Exchanges : Moves(d) /\ (exch'[d].at = "priming" => exch[d].at = "priming")
    BY <1>12, EndingMoves DEF CloseStream
  <2> QED BY <1>12, <1>u, <2>1 DEF CloseStream
<1>13. CASE Close
  <2>1. \A d \in Exchanges : Moves(d) /\ (exch'[d].at = "priming" => exch[d].at = "priming")
    BY <1>13, EndingMoves DEF Close
  <2> QED BY <1>13, <2>1 DEF Close, ServerMoves, Handled, Extended
<1> QED
  BY <1>1, <1>2, <1>3, <1>4, <1>5, <1>6, <1>7, <1>8, <1>9, <1>10, <1>11, <1>12, <1>13
     DEF ServerNext, ServerStep

-----------------------------------------------------------------------------
(***************************************************************************)
(* What a step of the client may do.                                       *)
(***************************************************************************)
Asked(d) ==
  \/ \E after \in {None} \cup {token[s] : s \in Channels} :
       exch'[d] = [at |-> "asked", method |-> "GET", stream |-> Standalone, after |-> after]
  \/ \E p \in Posts :
       /\ exch'[d] = [at |-> "asked", method |-> "POST", stream |-> p, after |-> None]
       /\ at[p] = "idle" /\ at'[p] # "idle"
       /\ \A c \in Exchanges \ {d} : exch'[c] = exch[c]

ClientMoves ==
  /\ UNCHANGED <<setting, server>>
  /\ \A d \in Exchanges :
       \/ exch'[d] = exch[d]
       \/ exch[d].at = "refused" /\ Through(d) /\ exch'[d].at = "over"
       \/ exch[d].at = "over" /\ Asked(d)
  /\ \A s \in Channels : at'[s] = "idle" => at[s] = "idle"
  /\ \A d \in Exchanges : read'[d] \in {read[d], <<>>}
  /\ \A s \in Channels : \/ token'[s] \in {token[s], None}
                         \/ \E d \in Exchanges : \E k \in DOMAIN read[d] : token'[s] = read[d][k]

LEMMA ClientMovesStep ==
  ASSUME SessionInv, ClientNext PROVE ClientMoves
<1>0. ServerTypes /\ ClientTypes
  BY DEF SessionInv
<1>s. UNCHANGED <<setting, server>>
  BY ClientTypeStep
<1>1. ASSUME NEW p \in Posts, Post(p) PROVE ClientMoves
  <2>1. PICK c \in Free(p) : /\ Ask(c, "POST", p, None) /\ at' = [at EXCEPT ![p] = "posting"] /\ token' = token
    BY <1>1 DEF Post
  <2>2. c \in Exchanges /\ exch[c].at = "over" /\ at[p] = "idle" /\ p \in Channels
    BY <1>1, <2>1, FreeIs, Sets DEF Post
  <2>3. /\ exch'[c] = [at |-> "asked", method |-> "POST", stream |-> p, after |-> None]
        /\ \A d \in Exchanges \ {c} : exch'[d] = exch[d]
        /\ \A d \in Exchanges : read'[d] \in {read[d], <<>>}
    BY <1>0, <2>1, <2>2 DEF Ask, ServerTypes
  <2>4. at'[p] = "posting" /\ \A s \in Channels : at'[s] = "idle" => at[s] = "idle"
    BY <1>0, <2>1, <2>2 DEF ClientTypes
  <2>5. Asked(c)
    BY <2>2, <2>3, <2>4 DEF Asked
  <2> QED BY <1>s, <2>1, <2>2, <2>3, <2>4, <2>5 DEF ClientMoves
<1>2. ASSUME NEW s \in Channels, NEW c \in Free(s), NEW after \in {None} \cup {token[t] : t \in Channels},
             NEW stage \in ChannelStates \ {"idle"},
             Ask(c, "GET", Standalone, after), at' = [at EXCEPT ![s] = stage], token' = token
      PROVE  ClientMoves
  <2>2. c \in Exchanges /\ exch[c].at = "over"
    BY <1>2, FreeIs
  <2>3. /\ exch'[c] = [at |-> "asked", method |-> "GET", stream |-> Standalone, after |-> after]
        /\ \A d \in Exchanges \ {c} : exch'[d] = exch[d]
        /\ \A d \in Exchanges : read'[d] \in {read[d], <<>>}
    BY <1>0, <1>2, <2>2 DEF Ask, ServerTypes
  <2>4. \A t \in Channels : at'[t] = "idle" => at[t] = "idle"
    BY <1>0, <1>2 DEF ClientTypes
  <2>5. Asked(c)
    BY <2>3 DEF Asked
  <2> QED BY <1>s, <1>2, <2>2, <2>3, <2>4, <2>5 DEF ClientMoves
<1>x. {"opening", "reconnecting"} \subseteq ChannelStates \ {"idle"} /\ Standalone \in Channels
  BY Sets DEF ChannelStates
<1>3. CASE OpenStandalone
  BY <1>2, <1>3, <1>x DEF OpenStandalone
<1>4. ASSUME NEW s \in Channels, Reconnect(s) PROVE ClientMoves
  BY <1>2, <1>4, <1>x DEF Reconnect
<1>5. ASSUME NEW s \in Channels, Ends(s) \/ Drop(s) PROVE ClientMoves
  <2>1. using[s] # None /\ Leave(s) /\ (FetchFailed(s) \/ StreamEnded(s))
    BY <1>5 DEF Ends, Drop
  <2>2. using[s] \in Exchanges
    BY <1>0, <2>1 DEF ClientTypes
  <2>3. /\ \A d \in Exchanges : exch'[d] = exch[d] \/ (exch[d].at = "refused" /\ exch'[d] = Over)
        /\ \A d \in Exchanges : read'[d] \in {read[d], <<>>}
    BY <1>0, <2>1, <2>2 DEF Leave, ServerTypes
  <2>4. at'[s] # "idle" /\ \A t \in Channels \ {s} : at'[t] = at[t]
    <3>1. at'[s] # "idle"
      BY <1>0, <2>1, OverTypes
    <3> QED BY <1>0, <2>1, <3>1 DEF FetchFailed, StreamEnded, Schedule, ClientTypes
  <2>5. \A t \in Channels : token'[t] \in {token[t], LastEventId(using[s])}
    BY <1>0, <2>1 DEF FetchFailed, StreamEnded, ClientTypes
  <2>6. \A t \in Channels : \/ token'[t] \in {token[t], None}
                            \/ \E k \in DOMAIN read[using[s]] : token'[t] = read[using[s]][k]
    BY <1>0, <2>2, <2>5, LastIs
  <2> QED BY <1>s, <2>2, <2>3, <2>4, <2>6 DEF ClientMoves, Through, Over
<1>6. CASE ClientClose
  <2>1. \A s \in Channels : at'[s] # "idle"
    BY <1>6 DEF ClientClose
  <2>2. \A d \in Exchanges : read'[d] = <<>>
    BY <1>6 DEF ClientClose
  <2>3. exch' = exch /\ token' = token
    BY <1>6 DEF ClientClose
  <2> QED BY <1>s, <2>1, <2>2, <2>3 DEF ClientMoves
<1> QED BY <1>1, <1>3, <1>4, <1>5, <1>6 DEF ClientNext, ClientStep

-----------------------------------------------------------------------------
(***************************************************************************)
(* Exchanges, POSTs and the log.                                           *)
(***************************************************************************)
LEMMA AskedIs ==
  ASSUME NEW d \in Exchanges, Asked(d)
  PROVE  /\ exch'[d].at = "asked"
         /\ \/ exch'[d].method = "GET" /\ exch'[d].stream = Standalone
            \/ /\ exch'[d].method = "POST" /\ exch'[d].stream \in Posts /\ exch'[d].stream # Standalone
               /\ exch'[d].after = None /\ at[exch'[d].stream] = "idle" /\ at'[exch'[d].stream] # "idle"
               /\ \A c \in Exchanges \ {d} : exch'[c] = exch[c]
<1>1. \A p \in Posts : p # Standalone
  BY Sets
<1>2. CASE \E after : exch'[d] = [at |-> "asked", method |-> "GET", stream |-> Standalone, after |-> after]
  BY <1>2
<1>3. ASSUME NEW p \in Posts, exch'[d] = [at |-> "asked", method |-> "POST", stream |-> p, after |-> None]
      PROVE  /\ exch'[d].at = "asked" /\ exch'[d].method = "POST" /\ exch'[d].stream = p
             /\ exch'[d].after = None
  BY <1>3
<1> QED BY <1>1, <1>2, <1>3 DEF Asked

LEMMA ExchangedStep ==
  ASSUME SessionInv, ServerMoves \/ ClientMoves PROVE Exchanged'
<1>0. ServerTypes /\ Exchanged
  BY DEF SessionInv
<1> SUFFICES ASSUME NEW d \in Exchanges
             PROVE  /\ exch'[d].method = "GET" => exch'[d].stream = Standalone
                    /\ exch'[d].method = "POST" => exch'[d].stream # Standalone /\ exch'[d].after = None
                    /\ exch'[d].at \in {"challenged", "priming", "json"} => exch'[d].method = "POST"
                    /\ exch'[d].at \in {"over", "refused", "replaying"} => exch'[d].method = "GET"
  BY DEF Exchanged
<1>1. CASE exch'[d] = exch[d]
  BY <1>0, <1>1 DEF Exchanged
<1>2. CASE Through(d)
  BY <1>2 DEF Through
<1>3. CASE Restaged(d) /\ <<exch[d].at, exch[d].method, exch'[d].at>> \in Turns
  BY <1>0, <1>3 DEF Exchanged, Restaged, Turns
<1>4. CASE Asked(d)
  BY <1>4, AskedIs
<1> QED BY <1>1, <1>2, <1>3, <1>4 DEF ServerMoves, ClientMoves, Moves

\* The exchange a client has just made of a POST.
New(c, p) ==
  at[p] = "idle" /\ at'[p] # "idle" /\ exch'[c].at = "asked" /\ \A d \in Exchanges \ {c} : exch'[d] = exch[d]

LEMMA Older ==
  ASSUME SessionInv, (ServerMoves /\ UNCHANGED client) \/ ClientMoves, NEW c \in Exchanges, NEW p \in Posts
  PROVE  /\ Posted(c, p)' => Posted(c, p) \/ New(c, p)
         /\ Waits(c, p)' => \/ Waits(c, p) /\ (exch[c].at = "priming" => exch'[c].at = "priming")
                            \/ New(c, p)
         /\ at'[p] = "idle" => at[p] = "idle"
<1>0. p # Standalone /\ p \in Channels
  BY Sets
<1>1. CASE exch'[c] = exch[c]
  BY <1>0, <1>1 DEF Posted, Waits, ClientMoves, client
<1>2. CASE Through(c)
  BY <1>0, <1>2 DEF Posted, Waits, Through, ClientMoves, client
<1>3. CASE Restaged(c) /\ <<exch[c].at, exch[c].method, exch'[c].at>> \in Turns
  BY <1>0, <1>3 DEF Posted, Waits, Restaged, Turns, ClientMoves, client
<1>4. CASE Asked(c) /\ ClientMoves
  BY <1>0, <1>4, AskedIs DEF Posted, Waits, New, ClientMoves
<1> QED BY <1>1, <1>2, <1>3, <1>4 DEF ServerMoves, ClientMoves, Moves

LEMMA StaysIdle ==
  ASSUME (ServerMoves /\ UNCHANGED client) \/ ClientMoves, NEW p \in Posts, at'[p] = "idle"
  PROVE  at[p] = "idle"
BY Sets DEF ClientMoves, client

LEMMA StillUndispatched ==
  ASSUME SessionInv, (ServerMoves /\ UNCHANGED client) \/ ClientMoves, NEW p \in Posts, Undispatched(p)'
  PROVE  Undispatched(p)
<1>1. CASE at'[p] = "idle"
  BY <1>1, StaysIdle DEF Undispatched
<1>2. ASSUME NEW c \in Exchanges, Waits(c, p)' PROVE Undispatched(p)
  BY <1>2, Older DEF Undispatched, New
<1> QED BY <1>1, <1>2 DEF Undispatched

\* The message a step sends.
LEMMA ExtendedIs ==
  ASSUME SessionInv, Extended
  PROVE  /\ LogGrows
         /\ log' # log =>
              LET m == log'[Len(log')] IN
              \/ \E c \in Exchanges :
                   /\ m.stream = exch[c].stream /\ m.what = "priming" /\ Primes /\ ~setting.json
                   /\ exch[c].at = "challenged" /\ exch'[c].at = "priming" /\ Waits(c, m.stream)
              \/ m.stream = Standalone /\ m.what = "note"
              \/ \E r \in Reqs : /\ m.stream = PostOf[r] /\ m.what = "note" /\ handler[r] = "running"
                                 /\ ~setting.json
              \/ \E r \in Reqs : /\ m.stream = PostOf[r] /\ m.req = r /\ m.what = "response"
                                 /\ handler[r] = "running" /\ handler'[r] = "answered"
<1>0. ServerTypes /\ Exchanged
  BY DEF SessionInv
<1>k. {"priming", "note", "response"} = {"priming"} \cup {"note", "response"} /\ None \in Reqs \cup {None}
      /\ Standalone \in StreamIds /\ \A r \in Reqs : PostOf[r] \in StreamIds
  BY Sets
<1>1. CASE log' = log
  BY <1>1 DEF LogGrows
<1>2. ASSUME NEW c \in Exchanges, log' = Logged(exch[c].stream, None, "priming"), Primes, ~setting.json,
             exch[c].at = "challenged", exch'[c].at = "priming"
      PROVE  /\ LogGrows
             /\ LET m == log'[Len(log')] IN
                /\ m.stream = exch[c].stream /\ m.what = "priming" /\ Waits(c, m.stream)
  <2>1. exch[c].stream \in StreamIds /\ exch[c].method = "POST"
    BY <1>0, <1>2 DEF ServerTypes, ExchSet, Exchanged
  <2>2. LogGrows /\ log'[Len(log')] = [stream |-> exch[c].stream, req |-> None, what |-> "priming"]
    BY <1>0, <1>2, <1>k, <2>1, LoggedIs
  <2> QED BY <1>2, <2>1, <2>2 DEF Waits, Posted
<1>3. ASSUME log' = Logged(Standalone, None, "note")
      PROVE  LogGrows /\ log'[Len(log')] = [stream |-> Standalone, req |-> None, what |-> "note"]
  BY <1>0, <1>3, <1>k, LoggedIs
<1>4. ASSUME NEW r \in Reqs, NEW what \in {"note", "response"}, log' = Logged(PostOf[r], r, what)
      PROVE  LogGrows /\ log'[Len(log')] = [stream |-> PostOf[r], req |-> r, what |-> what]
  BY <1>0, <1>4, <1>k, LoggedIs
<1>5. LogGrows
  BY <1>1, <1>2, <1>3, <1>4 DEF Extended
<1>6. ASSUME log' # log
      PROVE  LET m == log'[Len(log')] IN
              \/ \E c \in Exchanges :
                   /\ m.stream = exch[c].stream /\ m.what = "priming" /\ Primes /\ ~setting.json
                   /\ exch[c].at = "challenged" /\ exch'[c].at = "priming" /\ Waits(c, m.stream)
              \/ m.stream = Standalone /\ m.what = "note"
              \/ \E r \in Reqs : /\ m.stream = PostOf[r] /\ m.what = "note" /\ handler[r] = "running"
                                 /\ ~setting.json
              \/ \E r \in Reqs : /\ m.stream = PostOf[r] /\ m.req = r /\ m.what = "response"
                                 /\ handler[r] = "running" /\ handler'[r] = "answered"
  <2>1. CASE \E c \in Exchanges :
               /\ log' = Logged(exch[c].stream, None, "priming") /\ Primes /\ ~setting.json
               /\ exch[c].at = "challenged" /\ exch'[c].at = "priming"
    BY <1>2, <2>1
  <2>2. CASE log' = Logged(Standalone, None, "note")
    BY <1>3, <2>2
  <2>3. CASE \E r \in Reqs : log' = Logged(PostOf[r], r, "note") /\ handler[r] = "running" /\ ~setting.json
    <3>1. PICK r \in Reqs : log' = Logged(PostOf[r], r, "note") /\ handler[r] = "running" /\ ~setting.json
      BY <2>3
    <3>2. log'[Len(log')] = [stream |-> PostOf[r], req |-> r, what |-> "note"]
      BY <1>4, <3>1
    <3> QED BY <3>1, <3>2
  <2>4. CASE \E r \in Reqs : /\ log' = Logged(PostOf[r], r, "response")
                             /\ handler[r] = "running" /\ handler'[r] = "answered"
    <3>1. PICK r \in Reqs : /\ log' = Logged(PostOf[r], r, "response")
                           /\ handler[r] = "running" /\ handler'[r] = "answered"
      BY <2>4
    <3>2. log'[Len(log')] = [stream |-> PostOf[r], req |-> r, what |-> "response"]
      BY <1>4, <3>1
    <3> QED BY <3>1, <3>2
  <2> QED BY <1>6, <2>1, <2>2, <2>3, <2>4 DEF Extended
<1> QED BY <1>5, <1>6

\* What a step sends is for no POST that is yet to be dispatched, its priming
\* event excepted.
LEMMA NewIsDispatched ==
  ASSUME SessionInv, Extended, log' # log, NEW p \in Posts, log'[Len(log')].stream = p
  PROVE  \/ ~Undispatched(p)
         \/ /\ at[p] # "idle" /\ log'[Len(log')].what = "priming"
            /\ \E c \in Exchanges : Waits(c, p) /\ exch[c].at = "challenged" /\ exch'[c].at = "priming"
<1>1. p # Standalone
  BY Sets
<1>2. \A r \in Reqs : PostOf[r] = p /\ handler[r] = "running" => ~Undispatched(p)
  BY DEF SessionInv, Begun
<1>3. \A c \in Exchanges : Waits(c, p) => at[p] # "idle"
  BY DEF SessionInv, Begun, Waits
<1> QED BY <1>1, <1>2, <1>3, ExtendedIs

LEMMA BegunStep ==
  ASSUME SessionInv, (ServerMoves /\ UNCHANGED client) \/ ClientMoves PROVE Begun'
<1>0. ServerTypes /\ Begun /\ Exchanged /\ Exchanged'
  BY ExchangedStep DEF SessionInv
<1>x. Extended /\ setting' = setting /\ LogGrows
  <2>1. Extended /\ setting' = setting
    BY DEF ServerMoves, ClientMoves, Extended, server
  <2> QED BY <2>1, ExtendedIs
<1>l. \A i \in DOMAIN log' : (i \in DOMAIN log /\ log'[i] = log[i]) \/ (i = Len(log') /\ log' # log)
  BY <1>0, <1>x, Grown
<1>1. ASSUME NEW c \in Exchanges, NEW d \in Exchanges, NEW p \in Posts, Posted(c, p)', Posted(d, p)' PROVE c = d
  <2>1. Posted(c, p) /\ Posted(d, p) => c = d
    BY <1>0 DEF Begun
  <2>2. ASSUME New(c, p), c # d PROVE FALSE
    <3>1. Posted(d, p)
      BY <1>1, <2>2 DEF New, Posted
    <3> QED BY <1>0, <2>2, <3>1 DEF Begun, New
  <2>3. ASSUME New(d, p), c # d PROVE FALSE
    <3>1. Posted(c, p)
      BY <1>1, <2>3 DEF New, Posted
    <3> QED BY <1>0, <2>3, <3>1 DEF Begun, New
  <2> QED BY <1>1, <2>1, <2>2, <2>3, Older
<1>2. ASSUME NEW c \in Exchanges, NEW p \in Posts, Posted(c, p)' PROVE at'[p] # "idle"
  <2>1. Posted(c, p) => at[p] # "idle"
    BY <1>0 DEF Begun
  <2> QED BY <1>2, <2>1, Older DEF New
<1>3. ASSUME NEW p \in Posts, NEW r \in Reqs, Undispatched(p)', PostOf[r] = p PROVE handler'[r] = "none"
  <2>1. Undispatched(p) /\ handler[r] = "none"
    BY <1>0, <1>3, StillUndispatched DEF Begun
  <2>2. CASE ClientMoves
    BY <2>1, <2>2 DEF ClientMoves, server
  <2>3. CASE ServerMoves /\ UNCHANGED client
    <3> SUFFICES ASSUME handler'[r] # "none" PROVE FALSE
      OBVIOUS
    <3>1. PICK c \in Exchanges : Waits(c, p) /\ exch'[c].at \notin {"asked", "challenged", "priming"}
      BY <1>3, <2>1, <2>3 DEF ServerMoves, Handled
    <3>2. at'[p] # "idle"
      BY <1>0, <2>3, <3>1 DEF Begun, Waits, client
    <3>3. PICK d \in Exchanges : Waits(d, p)'
      BY <1>3, <3>2 DEF Undispatched
    <3>4. Posted(d, p) \/ New(d, p)
      BY <2>3, <3>3, Older DEF Waits
    <3>5. ~New(d, p)
      BY <3>2, <2>3 DEF New, client
    <3>6. d = c
      BY <1>0, <3>1, <3>4, <3>5 DEF Begun, Waits
    <3> QED BY <3>1, <3>3, <3>6 DEF Waits
  <2> QED BY <2>2, <2>3
<1>4. ASSUME NEW p \in Posts, NEW i \in DOMAIN log', at'[p] = "idle" PROVE log'[i].stream # p
  <2>1. at[p] = "idle" /\ Undispatched(p)
    BY <1>4, StaysIdle DEF Undispatched
  <2>2. CASE i \in DOMAIN log /\ log'[i] = log[i]
    BY <1>0, <2>1, <2>2 DEF Begun
  <2>3. CASE i = Len(log') /\ log' # log
    BY <1>x, <2>1, <2>3, NewIsDispatched
  <2> QED BY <1>l, <2>2, <2>3
<1>5. ASSUME NEW c \in Exchanges, NEW i \in DOMAIN log', Waits(c, log[i].stream)'
      PROVE  exch'[c].at = "priming" /\ log'[i].what = "priming"
  <2> DEFINE p == log'[i].stream
  <2>0. p \in Posts
    <3>1. log' \in Seq(Messages)
      BY <1>0, <1>x, Grown
    <3>2. log'[i] \in Messages
      BY <3>1
    <3>3. exch'[c].method = "POST" /\ exch'[c].stream = p
      BY <1>5 DEF Waits, Posted
    <3>4. p # Standalone
      BY <1>0, <3>3 DEF Exchanged
    <3> QED BY <3>2, <3>4, Sets DEF Messages
  <2>1. (Waits(c, p) /\ (exch[c].at = "priming" => exch'[c].at = "priming")) \/ New(c, p)
    <3>1. PICK q \in Posts : q = p
      BY <2>0
    <3>2. Waits(c, q)'
      BY <1>5, <3>1
    <3> HIDE DEF p
    <3>3. (Waits(c, q) /\ (exch[c].at = "priming" => exch'[c].at = "priming")) \/ New(c, q)
      BY <3>2, Older
    <3> QED BY <3>1, <3>3
  <2>2. CASE i \in DOMAIN log /\ log'[i] = log[i]
    BY <1>0, <2>0, <2>1, <2>2 DEF Begun, New
  <2>3. CASE i = Len(log') /\ log' # log
    <3>1. Undispatched(p)
      BY <2>1 DEF Undispatched, New
    <3>2. PICK d \in Exchanges : Waits(d, p) /\ exch'[d].at = "priming"
      BY <1>x, <2>0, <2>3, <3>1, NewIsDispatched
    <3>3. at[p] # "idle" /\ log'[i].what = "priming"
      BY <1>x, <2>0, <2>3, <3>1, NewIsDispatched
    <3>4. c = d
      BY <1>0, <2>0, <2>1, <3>2, <3>3 DEF Begun, Waits, New
    <3> QED BY <3>2, <3>3, <3>4
  <2> QED BY <1>l, <2>2, <2>3
<1>6. ASSUME NEW c \in Exchanges, Primes', exch'[c].at = "priming"
      PROVE  \E i \in DOMAIN log' : log'[i].stream = exch'[c].stream /\ log'[i].what = "priming"
  <2>1. Primes
    BY <1>6, <1>x DEF Primes
  <2>2. CASE exch[c].at = "priming" /\ exch'[c].stream = exch[c].stream
    BY <1>0, <1>x, <2>1, <2>2, Grown DEF Begun
  <2>3. CASE ServerMoves /\ exch[c].at # "priming" /\ exch'[c].stream = exch[c].stream
    <3>1. log' = Logged(exch[c].stream, None, "priming")
      BY <1>6, <2>1, <2>3 DEF ServerMoves
    <3>2. exch[c].stream \in StreamIds
      BY <1>0 DEF ServerTypes, ExchSet
    <3>3. Len(log') \in DOMAIN log' /\ log'[Len(log')] = [stream |-> exch[c].stream, req |-> None, what |-> "priming"]
      BY <1>0, <3>1, <3>2, LoggedIs
    <3> QED BY <2>3, <3>3
  <2>4. exch'[c].stream = exch[c].stream /\ (ClientMoves => exch[c].at = "priming")
    BY <1>6, AskedIs DEF ServerMoves, ClientMoves, Moves, Through, Restaged
  <2> QED BY <2>2, <2>3, <2>4
<1>7. /\ \A c, d \in Exchanges, p \in Posts : Posted(c, p)' /\ Posted(d, p)' => c = d
      /\ \A c \in Exchanges, p \in Posts : Posted(c, p)' => at'[p] # "idle"
      /\ \A p \in Posts, r \in Reqs : Undispatched(p)' /\ PostOf[r] = p => handler'[r] = "none"
  BY <1>1, <1>2, <1>3
<1>8. /\ \A p \in Posts, i \in DOMAIN log' : at'[p] = "idle" => log'[i].stream # p
      /\ \A c \in Exchanges, i \in DOMAIN log' :
           Waits(c, log[i].stream)' => exch'[c].at = "priming" /\ log'[i].what = "priming"
      /\ \A c \in Exchanges : Primes' /\ exch'[c].at = "priming" =>
           \E i \in DOMAIN log' : log'[i].stream = exch'[c].stream /\ log'[i].what = "priming"
  BY <1>4, <1>5, <1>6
<1> QED BY <1>7, <1>8 DEF Begun

LEMMA LogShapeStep ==
  ASSUME SessionInv, ServerMoves \/ ClientMoves PROVE LogShape'
<1>0. ServerTypes /\ LogShape
  BY DEF SessionInv
<1>1. CASE ClientMoves
  <2>1. UNCHANGED <<setting, log, handler>>
    BY <1>1 DEF ClientMoves, server
  <2> QED BY <1>0, <2>1 DEF LogShape, IsResponse
<1>2. CASE ServerMoves
  <2>1. Extended /\ setting' = setting /\ LogGrows
    BY <1>2, ExtendedIs DEF ServerMoves
  <2>2. \A r \in Reqs : handler[r] = "answered" => handler'[r] = "answered"
    BY <1>2 DEF ServerMoves, Handled
  <2>3. \A i \in DOMAIN log' : (i \in DOMAIN log /\ log'[i] = log[i]) \/ (i = Len(log') /\ log' # log)
    BY <1>0, <2>1, Grown
  <2>4. ASSUME log' # log, log'[Len(log')].what = "response"
        PROVE  LET m == log'[Len(log')] IN
               m.req \in Reqs /\ m.stream = PostOf[m.req] /\ handler[m.req] = "running" /\ handler'[m.req] = "answered"
    BY <2>1, <2>4, ExtendedIs
  <2>5. log' # log /\ setting.json /\ log'[Len(log')].stream # Standalone => log'[Len(log')].what = "response"
    BY <2>1, ExtendedIs
  <2>6. ASSUME NEW i \in DOMAIN log', log'[i].what = "response"
        PROVE  /\ log'[i].req \in Reqs /\ log'[i].stream = PostOf[log'[i].req]
               /\ handler'[log'[i].req] = "answered"
    BY <1>0, <2>2, <2>3, <2>4, <2>6 DEF LogShape, IsResponse
  <2>7. ASSUME NEW i \in DOMAIN log', setting.json, log'[i].stream # Standalone PROVE log'[i].what = "response"
    BY <1>0, <2>3, <2>5, <2>7 DEF LogShape, IsResponse
  <2>8. ASSUME NEW i \in DOMAIN log', NEW j \in DOMAIN log',
               log'[i].what = "response", log'[j].what = "response", log'[i].req = log'[j].req
        PROVE  i = j
    <3>1. \A k \in DOMAIN log : log[k].what = "response" => handler[log[k].req] = "answered"
      BY <1>0 DEF LogShape, IsResponse
    <3>2. CASE i \in DOMAIN log /\ log'[i] = log[i] /\ j \in DOMAIN log /\ log'[j] = log[j]
      BY <1>0, <2>8, <3>2 DEF LogShape, IsResponse
    <3>3. CASE i \in DOMAIN log /\ log'[i] = log[i] /\ j = Len(log') /\ log' # log
      BY <2>4, <2>8, <3>1, <3>3
    <3>4. CASE j \in DOMAIN log /\ log'[j] = log[j] /\ i = Len(log') /\ log' # log
      BY <2>4, <2>8, <3>1, <3>4
    <3> QED BY <2>3, <3>2, <3>3, <3>4
  <2> QED BY <2>1, <2>6, <2>7, <2>8 DEF LogShape, IsResponse
<1> QED BY <1>1, <1>2

-----------------------------------------------------------------------------
(***************************************************************************)
(* The sends that await the store.                                         *)
(***************************************************************************)
Queued ==
  \/ sending' = sending
  \/ sending # <<>> /\ sending' = Tail(sending) /\ log' = log
  \/ /\ sending' = Append(sending, Len(log')) /\ setting.store
     /\ log' # log /\ log'[Len(log')].what # "priming"

LEMMA SendQueues ==
  ASSUME ServerTypes, NEW s \in StreamIds, NEW r \in Reqs \cup {None},
         NEW what \in {"note", "response"}, Send(s, r, what)
  PROVE  Queued
<1>1. log' # log /\ log'[Len(log')] = [stream |-> s, req |-> r, what |-> what]
  BY LoggedIs DEF Send
<1> QED BY <1>1 DEF Send, Queued

LEMMA QueuedStep == ASSUME SessionInv, ServerNext PROVE Queued
<1>0. ServerTypes
  BY DEF SessionInv
<1>1. ASSUME NEW c \in Exchanges, ServerStep(c) PROVE sending' = sending
  BY <1>1 DEF ServerStep, PostArrives, PostRegisters, PostDispatched, GetOpens, GetReplays, GetRegisters,
              Cancel, Refuse, server
<1>2. CASE SendResumes
  BY <1>2 DEF SendResumes, Queued
<1>3. ASSUME NEW r \in Reqs, Notify(r) \/ Respond(r) PROVE Queued
  BY <1>0, <1>3, SendQueues, Sets DEF Notify, Respond
<1>4. CASE NotifyStandalone
  <2>1. Standalone \in StreamIds /\ None \in Reqs \cup {None}
    BY Sets
  <2> QED BY <1>0, <1>4, <2>1, SendQueues DEF NotifyStandalone
<1>5. ASSUME Close \/ \E r \in Reqs, s \in StreamIds : CloseStream(r, s) PROVE sending' = sending
  BY <1>5 DEF Close, CloseStream
<1> QED BY <1>1, <1>2, <1>3, <1>4, <1>5 DEF ServerNext, Queued

\* What is queued stays so but for the first; what is added is last.
LEMMA QueueIs ==
  ASSUME ServerTypes, LogGrows, Queued
  PROVE  /\ \A k \in DOMAIN sending' :
              \/ \E j \in DOMAIN sending : sending'[k] = sending[j]
              \/ log' # log /\ sending'[k] = Len(log') /\ k = Len(sending')
         /\ Rising(sending) => Rising(sending')
<1>1. /\ sending \in Seq(DOMAIN log) /\ Len(sending) \in Nat /\ DOMAIN sending = 1 .. Len(sending)
      /\ \A k \in DOMAIN sending : sending[k] \in DOMAIN log
  BY DEF ServerTypes
<1>2. CASE sending' = sending
  BY <1>2 DEF Rising
<1>3. CASE sending # <<>> /\ sending' = Tail(sending)
  <2>1. /\ DOMAIN Tail(sending) = 1 .. Len(sending) - 1
        /\ \A k \in DOMAIN Tail(sending) : k + 1 \in DOMAIN sending /\ Tail(sending)[k] = sending[k + 1]
    BY <1>1, <1>3
  <2>2. Rising(sending) => Rising(Tail(sending))
    BY <1>1, <2>1 DEF Rising
  <2> QED BY <1>3, <2>1, <2>2
<1>4. CASE sending' = Append(sending, Len(log')) /\ log' # log
  <2> DEFINE n == Len(log')
  <2>1. n \in Nat /\ n \notin DOMAIN log /\ \A i \in DOMAIN log : i < n
    BY <1>4, Grown
  <2> HIDE DEF n
  <2>2. /\ DOMAIN Append(sending, n) = 1 .. Len(sending) + 1 /\ Len(Append(sending, n)) = Len(sending) + 1
        /\ \A k \in DOMAIN sending : Append(sending, n)[k] = sending[k]
        /\ Append(sending, n)[Len(sending) + 1] = n
    BY <1>1, <2>1
  <2>3. \A k \in DOMAIN Append(sending, n) : k \in DOMAIN sending \/ k = Len(sending) + 1
    BY <1>1, <2>2
  <2>4. Rising(sending) => Rising(Append(sending, n))
    <3>1. \A j, k \in DOMAIN Append(sending, n) : j < k => j \in DOMAIN sending
      BY <1>1, <2>2
    <3> QED BY <1>1, <2>1, <2>2, <2>3, <3>1 DEF Rising
  <2> QED BY <1>4, <2>2, <2>3, <2>4 DEF n
<1> QED BY <1>2, <1>3, <1>4 DEF Queued

\* In JSON mode only what goes to the standalone stream is queued.
LEMMA JsonQueue ==
  ASSUME SessionInv, setting.json, ServerNext
  PROVE  \/ sending' = sending
         \/ sending # <<>> /\ sending' = Tail(sending) /\ log' = log
         \/ log' # log /\ log'[Len(log')].stream = Standalone
<1>0. ServerTypes
  BY DEF SessionInv
<1>1. ASSUME NEW c \in Exchanges, ServerStep(c) PROVE sending' = sending
  BY <1>1 DEF ServerStep, PostArrives, PostRegisters, PostDispatched, GetOpens, GetReplays, GetRegisters,
              Cancel, Refuse, server
<1>2. CASE SendResumes
  BY <1>2 DEF SendResumes
<1>3. ASSUME NEW r \in Reqs, Notify(r) \/ Respond(r) PROVE sending' = sending
  BY <1>3, Sets DEF Notify, Respond, Send
<1>4. CASE NotifyStandalone
  <2>1. Standalone \in StreamIds /\ None \in Reqs \cup {None} /\ log' = Logged(Standalone, None, "note")
    BY <1>4, Sets DEF NotifyStandalone, Send
  <2>2. log' # log /\ log'[Len(log')] = [stream |-> Standalone, req |-> None, what |-> "note"]
    BY <1>0, <2>1, LoggedIs
  <2> QED BY <2>2
<1>5. ASSUME Close \/ \E r \in Reqs, s \in StreamIds : CloseStream(r, s) PROVE sending' = sending
  BY <1>5 DEF Close, CloseStream
<1> QED BY <1>1, <1>2, <1>3, <1>4, <1>5 DEF ServerNext

LEMMA QueueStep ==
  ASSUME SessionInv, (Queued /\ ServerNext) \/ ClientMoves, LogGrows, setting' = setting PROVE Queue'
<1>0. ServerTypes /\ Queue
  BY DEF SessionInv
<1>1. Queued
  BY DEF ClientMoves, Queued, server
<1>2. \A k \in DOMAIN sending : sending[k] \in DOMAIN log
  BY <1>0 DEF ServerTypes
<1>3. Rising(sending')
  BY <1>0, <1>1, QueueIs DEF Queue
<1>4. ASSUME NEW k \in DOMAIN sending' PROVE log'[sending'[k]].what # "priming"
  <2>1. CASE \E j \in DOMAIN sending : sending'[k] = sending[j]
    BY <1>0, <1>2, <2>1, Grown DEF Queue
  <2>2. CASE log' # log /\ sending'[k] = Len(log') /\ k = Len(sending') /\ ~\E j \in DOMAIN sending : sending'[k] = sending[j]
    BY <1>0, <1>1, <1>4, <2>2 DEF Queued
  <2> QED BY <1>0, <1>1, <2>1, <2>2, QueueIs
<1>5. ~setting.store => sending' = <<>>
  BY <1>0, <1>1 DEF Queue, Queued
<1>6. ASSUME setting.json, NEW k \in DOMAIN sending' PROVE log'[sending'[k]].stream = Standalone
  <2>1. CASE \E j \in DOMAIN sending : sending'[k] = sending[j]
    BY <1>0, <1>2, <1>6, <2>1, Grown DEF Queue
  <2>2. CASE log' # log /\ sending'[k] = Len(log') /\ ~\E j \in DOMAIN sending : sending'[k] = sending[j]
    <3>1. ~(sending' = sending) /\ ~(log' = log)
      BY <1>6, <2>2
    <3>2. ServerNext
      BY <3>1 DEF ClientMoves, server
    <3> QED BY <1>6, <2>2, <3>1, <3>2, JsonQueue
  <2> QED BY <1>0, <1>1, <2>1, <2>2, QueueIs
<1> QED BY <1>3, <1>4, <1>5, <1>6 DEF Queue, Rising

\* A request is marked responded when its response is in the log.
LEMMA DeliverReplies ==
  ASSUME ServerTypes, Replied, LogGrows, NEW i \in DOMAIN log', Deliver(i) PROVE Replied'
<1>1. \A q \in responded' : q \in responded \/ (log'[i].what = "response" /\ q = log'[i].req)
  <2>1. CASE log'[i].what = "response"
    BY <2>1, FinishIs DEF Deliver, Completes, Partly
  <2>2. CASE log'[i].what # "response"
    BY <2>2 DEF Deliver, book
  <2> QED BY <2>1, <2>2
<1>2. ASSUME NEW q \in responded PROVE \E n \in DOMAIN log' : log'[n].what = "response" /\ log'[n].req = q
  <2>1. PICK n \in DOMAIN log : IsResponse(n) /\ log[n].req = q
    BY DEF Replied
  <2> QED BY <2>1, Grown DEF IsResponse
<1> QED BY <1>1, <1>2 DEF Replied, IsResponse

LEMMA RepliedStep ==
  ASSUME SessionInv, ServerNext \/ ClientMoves, LogGrows PROVE Replied'
<1>0. ServerTypes /\ Replied
  BY DEF SessionInv
<1>1. ASSUME responded' \subseteq responded PROVE Replied'
  <2>1. ASSUME NEW q \in responded PROVE \E n \in DOMAIN log' : log'[n].what = "response" /\ log'[n].req = q
    <3>1. PICK n \in DOMAIN log : IsResponse(n) /\ log[n].req = q
      BY <1>0 DEF Replied
    <3> QED BY <1>0, <3>1, Grown DEF IsResponse
  <2> QED BY <1>1, <2>1 DEF Replied, IsResponse
<1>2. ASSUME NEW c \in Exchanges, ServerStep(c) PROVE responded' = responded
  BY <1>2 DEF ServerStep, PostArrives, PostRegisters, PostDispatched, GetOpens, GetReplays, GetRegisters,
              Cancel, Refuse, server, book
<1>3. CASE SendResumes
  <2>1. Head(sending) \in DOMAIN log' /\ Deliver(Head(sending))
    BY <1>0, <1>3 DEF SendResumes, ServerTypes
  <2> QED BY <1>0, <2>1, DeliverReplies
<1>4. ASSUME NEW s \in StreamIds, NEW r \in Reqs \cup {None}, NEW what \in {"note", "response"}, Send(s, r, what)
      PROVE  Replied'
  <2>1. Len(log') \in DOMAIN log'
    BY <1>0, <1>4, LoggedIs DEF Send
  <2>2. CASE UNCHANGED book
    BY <1>1, <2>2 DEF book
  <2> QED BY <1>0, <1>4, <2>1, <2>2, DeliverReplies DEF Send
<1>5. ASSUME NEW r \in Reqs, Notify(r) \/ Respond(r) PROVE Replied'
  BY <1>4, <1>5, Sets DEF Notify, Respond
<1>6. CASE NotifyStandalone
  BY <1>4, <1>6, Sets DEF NotifyStandalone
<1>7. ASSUME Close \/ \E r \in Reqs, s \in StreamIds : CloseStream(r, s) PROVE responded' \subseteq responded
  BY <1>7 DEF Close, CloseStream, book
<1>8. ClientMoves => responded' = responded
  BY DEF ClientMoves, server, book
<1> QED BY <1>1, <1>2, <1>3, <1>5, <1>6, <1>7, <1>8 DEF ServerNext

-----------------------------------------------------------------------------
(***************************************************************************)
(* The books.                                                              *)
(***************************************************************************)
LEMMA StoredIs ==
  ASSUME SessionInv, LogGrows, NEW q
  PROVE  /\ sending' = sending => (Stored(q)' <=> Stored(q))
         /\ sending' = Append(sending, Len(log')) /\ log' # log =>
              (Stored(q)' <=> Stored(q) \/ (log'[Len(log')].what = "response" /\ log'[Len(log')].req = q))
         /\ sending # <<>> /\ sending' = Tail(sending) /\ log' = log =>
              (Stored(q)' <=> Stored(q) /\ ~(log[Head(sending)].what = "response" /\ log[Head(sending)].req = q))
<1>0. ServerTypes /\ LogShape /\ Rising(sending)
  BY DEF SessionInv, Queue
<1>1. /\ sending \in Seq(DOMAIN log) /\ Len(sending) \in Nat /\ DOMAIN sending = 1 .. Len(sending)
      /\ \A k \in DOMAIN sending : sending[k] \in DOMAIN log /\ log'[sending[k]] = log[sending[k]]
  <2>1. sending \in Seq(DOMAIN log)
    BY <1>0 DEF ServerTypes
  <2> QED BY <1>0, <2>1, Grown
<1>2. ASSUME sending' = sending PROVE Stored(q)' <=> Stored(q)
  BY <1>1, <1>2 DEF Stored, IsResponse
<1>3. ASSUME sending' = Append(sending, Len(log')), log' # log
      PROVE  Stored(q)' <=> Stored(q) \/ (log'[Len(log')].what = "response" /\ log'[Len(log')].req = q)
  <2> DEFINE n == Len(log')
  <2>1. n \in Nat
    BY <1>0, Grown
  <2> HIDE DEF n
  <2>2. /\ DOMAIN Append(sending, n) = 1 .. Len(sending) + 1
        /\ \A k \in DOMAIN sending : Append(sending, n)[k] = sending[k]
        /\ Append(sending, n)[Len(sending) + 1] = n
    BY <1>1, <2>1
  <2>3. \A k \in DOMAIN Append(sending, n) : k \in DOMAIN sending \/ k = Len(sending) + 1
    BY <1>1, <2>2
  <2>4. Len(sending) + 1 \in DOMAIN Append(sending, n) /\ \A k \in DOMAIN sending : k \in DOMAIN Append(sending, n)
    BY <1>1, <2>2
  <2>5. sending' = Append(sending, n)
    BY <1>3 DEF n
  <2> QED BY <1>1, <2>2, <2>3, <2>4, <2>5 DEF Stored, IsResponse, n
<1>4. ASSUME sending # <<>>, sending' = Tail(sending), log' = log
      PROVE  Stored(q)' <=> Stored(q) /\ ~(log[Head(sending)].what = "response" /\ log[Head(sending)].req = q)
  <2>1. /\ DOMAIN Tail(sending) = 1 .. Len(sending) - 1 /\ 1 \in DOMAIN sending /\ Head(sending) = sending[1]
        /\ \A k \in DOMAIN Tail(sending) : k + 1 \in DOMAIN sending /\ 1 < k + 1 /\ Tail(sending)[k] = sending[k + 1]
    BY <1>1, <1>4
  <2>2. \A k \in DOMAIN sending : k = 1 \/ (k - 1 \in DOMAIN Tail(sending) /\ Tail(sending)[k - 1] = sending[k])
    BY <1>1, <2>1
  <2>3. \A k \in DOMAIN sending : 1 < k => sending[k] # sending[1]
    BY <1>0, <1>1, <2>1 DEF Rising
  <2>4. ASSUME Stored(q)' PROVE Stored(q) /\ ~(log[Head(sending)].what = "response" /\ log[Head(sending)].req = q)
    <3>1. PICK k \in DOMAIN Tail(sending) : log[Tail(sending)[k]].what = "response" /\ log[Tail(sending)[k]].req = q
      BY <1>4, <2>4 DEF Stored, IsResponse
    <3>2. /\ k + 1 \in DOMAIN sending /\ sending[k + 1] # sending[1]
          /\ log[sending[k + 1]].what = "response" /\ log[sending[k + 1]].req = q
      BY <2>1, <2>3, <3>1
    <3> QED BY <1>0, <1>1, <2>1, <3>2 DEF Stored, IsResponse, LogShape
  <2>5. ASSUME Stored(q), ~(log[Head(sending)].what = "response" /\ log[Head(sending)].req = q) PROVE Stored(q)'
    <3>1. PICK k \in DOMAIN sending : log[sending[k]].what = "response" /\ log[sending[k]].req = q
      BY <2>5 DEF Stored, IsResponse
    <3>2. k # 1
      BY <2>1, <2>5, <3>1
    <3>3. k - 1 \in DOMAIN sending' /\ sending'[k - 1] = sending[k]
      BY <1>4, <2>2, <3>2
    <3> QED BY <1>4, <3>1, <3>3 DEF Stored, IsResponse
  <2> QED BY <2>4, <2>5
<1> QED BY <1>2, <1>3, <1>4

\* The end of the send of a response.
LEMMA BooksRetire ==
  ASSUME SessionInv, ~closed, setting' = setting, NEW r \in inflight \ responded,
         Completes(r) \/ Partly(r), handler'[r] = "answered", ~Stored(r)',
         \A q \in Reqs \ {r} : handler'[q] = handler[q] /\ (Stored(q)' <=> Stored(q))
  PROVE  Books'
<1>0. Books /\ inflight \subseteq Reqs /\ responded \subseteq Reqs
  BY DEF SessionInv, ServerTypes
<1>1. \A p : Carried(p)' = Carried(p)
  BY DEF Carried
<1>2. CASE Completes(r)
  <2>1. \A q \in inflight : PostOf[q] = PostOf[r] => q \in responded \cup {r}
    BY <1>2 DEF Completes
  <2>2. \A q : q \in inflight' <=> q \in inflight /\ PostOf[q] # PostOf[r]
    BY <1>2 DEF Completes
  <2>3. \A q : q \in responded' <=> q \in responded /\ PostOf[q] # PostOf[r]
    BY <1>0, <1>2 DEF Completes, Books
  <2>4. \A q \in inflight' : q \in Carried(PostOf[q])'
    BY <1>0, <1>1, <2>2 DEF Books
  <2>5. responded' \subseteq inflight' /\ \A q \in responded' : handler'[q] = "answered"
    BY <1>0, <2>2, <2>3 DEF Books
  <2>6. \A q \in inflight' : \E t \in inflight' \ responded' : PostOf[t] = PostOf[q]
    BY <1>0, <2>2, <2>3 DEF Books
  <2>7. \A q \in inflight' : handler'[q] = "answered" => q \in responded' \/ Stored(q)'
    BY <1>0, <2>2, <2>3 DEF Books
  <2>8. \A q \in Reqs : Stored(q)' => q \in inflight' \ responded'
    BY <1>0, <2>1, <2>2, <2>3 DEF Books
  <2> QED BY <2>4, <2>5, <2>6, <2>7, <2>8 DEF Books
<1>3. CASE Partly(r)
  <2>1. inflight' = inflight /\ responded' = responded \cup {r}
    BY <1>3 DEF Partly
  <2>2. \A q \in inflight' : \E t \in inflight' \ responded' : PostOf[t] = PostOf[q]
    <3>1. PICK u \in inflight : PostOf[u] = PostOf[r] /\ u \notin responded \cup {r}
      BY <1>3 DEF Partly
    <3> SUFFICES ASSUME NEW q \in inflight PROVE \E t \in inflight \ (responded \cup {r}) : PostOf[t] = PostOf[q]
      BY <2>1
    <3>2. PICK t \in inflight \ responded : PostOf[t] = PostOf[q]
      BY <1>0 DEF Books
    <3> QED BY <3>1, <3>2
  <2>3. \A q \in inflight' : q \in Carried(PostOf[q])'
    BY <1>0, <1>1, <2>1 DEF Books
  <2>4. responded' \subseteq inflight' /\ \A q \in responded' : handler'[q] = "answered"
    BY <1>0, <2>1 DEF Books
  <2>5. \A q \in inflight' : handler'[q] = "answered" => q \in responded' \/ Stored(q)'
    BY <1>0, <2>1 DEF Books
  <2>6. \A q \in Reqs : Stored(q)' => q \in inflight' \ responded'
    BY <1>0, <2>1 DEF Books
  <2> QED BY <2>2, <2>3, <2>4, <2>5, <2>6 DEF Books
<1> QED BY <1>2, <1>3

\* Any other step: what was answered since waits for the store.
LEMMA BooksKeep ==
  ASSUME SessionInv, ~closed, setting' = setting, UNCHANGED book,
         \A q \in Reqs : /\ handler[q] = "answered" => handler'[q] = "answered"
                         /\ handler'[q] = "answered" => handler[q] = "answered" \/ Stored(q)'
                         /\ Stored(q) => Stored(q)'
                         /\ Stored(q)' => Stored(q) \/ q \in inflight \ responded
  PROVE  Books'
<1>0. Books /\ inflight \subseteq Reqs /\ responded \subseteq Reqs
  BY DEF SessionInv, ServerTypes
<1>1. \A p : Carried(p)' = Carried(p)
  BY DEF Carried
<1>2. inflight' = inflight /\ responded' = responded
  BY DEF book
<1>3. /\ responded' \subseteq inflight'
      /\ \A r \in inflight' : r \in Carried(PostOf[r])'
      /\ \A r \in inflight' : \E q \in inflight' \ responded' : PostOf[q] = PostOf[r]
  BY <1>0, <1>1, <1>2 DEF Books
<1>4. /\ \A r \in responded' : handler'[r] = "answered"
      /\ \A r \in inflight' : handler'[r] = "answered" => r \in responded' \/ Stored(r)'
      /\ \A r \in Reqs : Stored(r)' => r \in inflight' \ responded'
  BY <1>0, <1>2 DEF Books
<1> QED BY <1>3, <1>4 DEF Books

LEMMA BooksStep ==
  ASSUME SessionInv, (ServerNext /\ ServerMoves) \/ ClientMoves, LogGrows PROVE Books'
<1>0. ServerTypes /\ Exchanged /\ Begun /\ LogShape /\ Queue /\ Books
  BY DEF SessionInv
<1>s. setting' = setting
  BY DEF ServerMoves, ClientMoves
<1> SUFFICES ASSUME ~closed, ~closed' PROVE Books'
  BY DEF Books, ServerMoves, ClientMoves, server
<1>h. ServerMoves => \A q \in Reqs : handler[q] = "answered" => handler'[q] = "answered"
  BY DEF ServerMoves, Handled
<1>k. ASSUME UNCHANGED <<book, sending>>,
             \A q \in Reqs : handler[q] = "answered" <=> handler'[q] = "answered"
      PROVE  Books'
  BY <1>s, <1>k, BooksKeep, StoredIs
<1>1. CASE ClientMoves
  BY <1>1, <1>k DEF ClientMoves, server
<1>2. ASSUME NEW c \in Exchanges, PostArrives(c) \/ GetOpens(c) \/ GetReplays(c) \/ GetRegisters(c) \/ Cancel(c)
      PROVE  Books'
  <2>1. UNCHANGED <<book, sending, handler>>
    BY <1>2 DEF PostArrives, GetOpens, GetReplays, GetRegisters, Cancel, Refuse, server
  <2> QED BY <1>k, <2>1
<1>3. ASSUME NEW c \in Exchanges, PostDispatched(c), ServerMoves PROVE Books'
  <2>1. UNCHANGED <<book, sending>>
    BY <1>3 DEF PostDispatched, Refuse, server
  <2>2. \A q \in Reqs : handler'[q] = handler[q] \/ handler'[q] = "running"
    BY <1>0, <1>3 DEF PostDispatched, Refuse, server, Dispatch, ServerTypes
  <2> QED BY <1>3, <1>h, <1>k, <2>1, <2>2
<1>4. ASSUME NEW c \in Exchanges, PostRegisters(c), ServerMoves PROVE Books'
  <2> DEFINE p == exch[c].stream
  <2>1. /\ inflight' = inflight \cup Carried(p) /\ responded' = responded /\ sending' = sending
        /\ exch[c].at = "challenged" /\ exch[c].method = "POST"
    BY <1>0, <1>4 DEF PostRegisters, Exchanged
  <2>2. p \in Posts
    BY <1>0, <2>1, Sets DEF ServerTypes, ExchSet, Exchanged
  <2>3. \A q \in Carried(p) : q \in Reqs /\ PostOf[q] = p /\ handler[q] = "none"
    <3>1. Waits(c, p)
      BY <2>1 DEF Waits, Posted
    <3>2. \A q \in Carried(p) : q \in Reqs /\ PostOf[q] = p
      BY DEF Carried
    <3> QED BY <1>0, <2>2, <3>1, <3>2 DEF Begun, Undispatched
  <2>4. \A q \in Reqs : handler'[q] = handler[q] \/ handler'[q] = "running"
    BY <1>0, <1>4 DEF PostRegisters, Dispatch, ServerTypes
  <2>5. \A q : Carried(q)' = Carried(q)
    BY <1>s DEF Carried
  <2>6. \A q : Stored(q)' <=> Stored(q)
    BY <2>1, StoredIs
  <2>7. \A q \in Carried(p) : q \notin responded /\ handler'[q] # "answered"
    BY <1>0, <2>3, <2>4 DEF Books
  <2> HIDE DEF p
  <2>8. responded' \subseteq inflight' /\ \A q \in inflight' : q \in Carried(PostOf[q])'
    BY <1>0, <2>1, <2>3, <2>5 DEF Books
  <2>9. \A q \in inflight' : \E t \in inflight' \ responded' : PostOf[t] = PostOf[q]
    BY <1>0, <2>1, <2>7 DEF Books
  <2>10. \A q \in responded' : handler'[q] = "answered"
    BY <1>0, <1>4, <1>h, <2>1 DEF Books, ServerTypes
  <2>11. \A q \in inflight' : handler'[q] = "answered" => q \in responded' \/ Stored(q)'
    BY <1>0, <2>1, <2>4, <2>6, <2>7 DEF Books, ServerTypes
  <2>12. \A q \in Reqs : Stored(q)' => q \in inflight' \ responded'
    BY <1>0, <2>1, <2>6 DEF Books
  <2> QED BY <2>8, <2>9, <2>10, <2>11, <2>12 DEF Books
<1>5. CASE SendResumes
  <2> DEFINE i == Head(sending)
  <2>1. /\ sending # <<>> /\ sending' = Tail(sending) /\ log' = log /\ handler' = handler /\ Deliver(i)
    BY <1>5 DEF SendResumes
  <2>2. 1 \in DOMAIN sending /\ i = sending[1] /\ i \in DOMAIN log
    BY <1>0, <2>1 DEF ServerTypes
  <2>3. \A q : Stored(q)' <=> Stored(q) /\ ~(log[i].what = "response" /\ log[i].req = q)
    BY <2>1, StoredIs
  <2>4. CASE log[i].what = "response"
    <3>0. log[i].req \in Reqs
      BY <1>0, <2>2, <2>4 DEF LogShape, IsResponse
    <3> PICK r \in Reqs : r = log[i].req
      BY <3>0
    <3>1. handler[r] = "answered" /\ Stored(r)
      BY <1>0, <2>2, <2>4 DEF LogShape, IsResponse, Stored
    <3>2. r \in inflight \ responded
      BY <1>0, <3>1 DEF Books
    <3>3. Completes(r) \/ Partly(r)
      BY <2>1, <2>4, FinishIs DEF Deliver
    <3>4. ~Stored(r)' /\ \A q \in Reqs \ {r} : Stored(q)' <=> Stored(q)
      BY <2>3, <2>4
    <3> QED BY <1>s, <2>1, <3>1, <3>2, <3>3, <3>4, BooksRetire
  <2>5. CASE log[i].what # "response"
    <3>1. UNCHANGED book
      BY <2>1, <2>5 DEF Deliver
    <3>2. \A q : Stored(q)' <=> Stored(q)
      BY <2>3, <2>5
    <3> QED BY <1>s, <2>1, <3>1, <3>2, BooksKeep
  <2> QED BY <2>4, <2>5
<1>6. ASSUME NEW s \in StreamIds, NEW r \in Reqs \cup {None}, Send(s, r, "note"), UNCHANGED handler PROVE Books'
  <2>1. log' # log /\ log'[Len(log')] = [stream |-> s, req |-> r, what |-> "note"]
    BY <1>0, <1>6, LoggedIs DEF Send
  <2>2. UNCHANGED book
    BY <1>6, <2>1 DEF Send, Deliver, book
  <2>3. sending' = sending \/ sending' = Append(sending, Len(log'))
    BY <1>6 DEF Send
  <2>4. \A q : Stored(q)' <=> Stored(q)
    BY <2>1, <2>3, StoredIs
  <2> QED BY <1>s, <1>6, <2>2, <2>4, BooksKeep
<1>7. ASSUME NEW r \in Reqs, Respond(r) PROVE Books'
  <2>1. /\ handler[r] = "running" /\ r \in inflight /\ Send(PostOf[r], r, "response")
        /\ handler'[r] = "answered" /\ \A q \in Reqs \ {r} : handler'[q] = handler[q]
    BY <1>0, <1>7 DEF Respond, ServerTypes
  <2>2. log' # log /\ log'[Len(log')] = [stream |-> PostOf[r], req |-> r, what |-> "response"]
    BY <1>0, <2>1, LoggedIs, Sets DEF Send
  <2>3. r \in inflight \ responded
    BY <1>0, <2>1 DEF Books
  <2>4. CASE sending' = Append(sending, Len(log')) /\ UNCHANGED <<stream, book, exch, read>>
    <3>1. \A q : Stored(q)' <=> Stored(q) \/ q = r
      BY <2>2, <2>4, StoredIs
    <3> QED BY <1>s, <2>1, <2>3, <2>4, <3>1, BooksKeep
  <2>5. CASE Deliver(Len(log')) /\ sending' = sending
    <3>1. \A q : Stored(q)' <=> Stored(q)
      BY <2>5, StoredIs
    <3>2. ~Stored(r)
      BY <1>0, <2>1 DEF Stored, LogShape, ServerTypes
    <3>3. Completes(r) \/ Partly(r)
      BY <2>2, <2>5, FinishIs DEF Deliver
    <3> QED BY <1>s, <2>1, <2>3, <3>1, <3>2, <3>3, BooksRetire
  <2> QED BY <2>1, <2>4, <2>5 DEF Send
<1>8. ASSUME NEW r \in Reqs, Notify(r) PROVE Books'
  BY <1>6, <1>8, Sets DEF Notify
<1>9. CASE NotifyStandalone
  BY <1>6, <1>9, Sets DEF NotifyStandalone
<1>10. ASSUME NEW r \in Reqs, NEW s \in StreamIds, CloseStream(r, s) PROVE Books'
  BY <1>10, <1>k DEF CloseStream
<1>11. ~Close
  BY DEF Close
<1> QED
  BY <1>1, <1>2, <1>3, <1>4, <1>5, <1>7, <1>8, <1>9, <1>10, <1>11 DEF ServerNext, ServerStep

-----------------------------------------------------------------------------
(***************************************************************************)
(* The stream mapping.                                                     *)
(***************************************************************************)
Active == {"open", "priming", "json"}

LEMMA OnStreamIs ==
  ASSUME SessionInv, NEW c \in Exchanges
  PROVE  /\ OnStream(c) \in StreamIds
         /\ exch[c].method = "POST" => OnStream(c) = exch[c].stream
         /\ exch[c].at \in {"priming", "json", "challenged"} => exch[c].method = "POST"
         /\ LogGrows /\ exch'[c].stream = exch[c].stream /\ exch'[c].after = exch[c].after =>
              OnStream(c)' = OnStream(c)
         /\ exch[c].at = "open" => stream[OnStream(c)].to = c
         /\ ~closed /\ exch[c].at \in {"priming", "json"} => stream[OnStream(c)].to = c
<1>1. exch[c] \in ExchSet /\ log \in Seq(Messages)
  BY DEF SessionInv, ServerTypes
<1>2. exch[c].after # None => exch[c].after \in DOMAIN log /\ log[exch[c].after] \in Messages
  BY <1>1 DEF ExchSet
<1>3. OnStream(c) \in StreamIds
  BY <1>1, <1>2 DEF ExchSet, Messages, OnStream
<1>4. LogGrows /\ exch'[c].stream = exch[c].stream /\ exch'[c].after = exch[c].after => OnStream(c)' = OnStream(c)
  BY <1>2, Grown DEF OnStream, SessionInv
<1> QED BY <1>3, <1>4 DEF SessionInv, Exchanged, Mapping, OnStream

LEMMA MappedTo ==
  ASSUME SessionInv, NEW s \in StreamIds, stream[s].to # None
  PROVE  /\ stream[s].to \in Exchanges /\ OnStream(stream[s].to) = s
         /\ exch[stream[s].to].at \in Active
BY MappedIs DEF SessionInv, Mapped, Active

\* An exchange that is active is what it was, or it has just been mapped.
LEMMA MappingFrom ==
  ASSUME SessionInv, LogGrows, closed => closed', setting' = setting,
         ServerTypes', Exchanged',
         \A d \in Exchanges : exch'[d].at \in Active =>
           \/ /\ exch'[d] = exch[d]
              /\ \/ stream'[OnStream(d)].to = stream[OnStream(d)].to
                 \/ closed' /\ exch[d].at # "open"
           \/ stream'[OnStream(d)'].to = d /\ (exch'[d].at = "json" => setting.json),
         \A s \in StreamIds : stream'[s].to # None =>
           \/ stream'[s].to = stream[s].to /\ exch'[stream[s].to] = exch[stream[s].to]
           \/ exch'[stream'[s].to].at \in Active /\ \E d \in Exchanges : d = stream'[s].to /\ OnStream(d)' = s
  PROVE  Mapping'
<1>0. \A d \in Exchanges : exch'[d] = exch[d] => OnStream(d)' = OnStream(d)
  BY OnStreamIs
<1>1. ASSUME NEW d \in Exchanges, exch'[d].at = "open" PROVE stream'[OnStream(d)'].to = d
  BY <1>0, <1>1, OnStreamIs DEF Active
<1>2. ASSUME NEW s \in StreamIds, stream'[s].to # None
      PROVE  /\ exch'[stream'[s].to].at \in Active
             /\ \E d \in Exchanges : d = stream'[s].to /\ OnStream(d)' = s
  <2>1. CASE stream'[s].to = stream[s].to /\ exch'[stream[s].to] = exch[stream[s].to]
    BY <1>0, <1>2, <2>1, MappedTo
  <2> QED BY <1>2, <2>1
<1>3. ASSUME NEW d \in Exchanges, ~closed', exch'[d].at \in {"priming", "json"}
      PROVE  stream'[exch'[d].stream].to = d
  <2>1. CASE exch'[d] = exch[d] /\ stream'[OnStream(d)].to = stream[OnStream(d)].to
    BY <1>0, <1>3, <2>1, OnStreamIs DEF Active
  <2>2. CASE stream'[OnStream(d)'].to = d
    <3>1. exch'[d].after = None
      BY <1>3 DEF Exchanged
    <3>2. OnStream(d)' = exch'[d].stream
      BY <3>1 DEF OnStream
    <3> QED BY <2>2, <3>2
  <2> QED BY <1>3, <2>1, <2>2 DEF Active
<1>4. ASSUME NEW d \in Exchanges, exch'[d].at = "json" PROVE setting'.json
  BY <1>4 DEF Active, SessionInv, Mapping
<1>5. \A d \in Exchanges : exch'[d].at = "open" => (stream[OnStream(d)].to)' = d
  BY <1>1
<1>6. ASSUME NEW s \in StreamIds, Mapped(s)'
      PROVE  exch'[stream'[s].to].at \in {"open", "priming", "json"} /\ OnStream(stream[s].to)' = s
  <2>1. stream'[s].to # None
    BY <1>6 DEF Mapped
  <2>2. PICK d \in Exchanges : d = stream'[s].to /\ OnStream(d)' = s
    BY <1>2, <2>1
  <2>3. OnStream(stream[s].to)' = s
    BY <2>2 DEF OnStream
  <2> QED BY <1>2, <2>1, <2>3 DEF Active
<1> QED BY <1>3, <1>4, <1>5, <1>6 DEF Mapping

Grows == LogGrows /\ (closed => closed') /\ setting' = setting /\ ServerTypes' /\ Exchanged'

\* The mapping is left alone.
LEMMA MappingKept ==
  ASSUME SessionInv, Grows, stream' = stream,
         \A d \in Exchanges : exch'[d] = exch[d] \/ {exch[d].at, exch'[d].at} \cap Active = {}
  PROVE  Mapping'
<1>1. \A d \in Exchanges : exch'[d].at \in Active => exch'[d] = exch[d]
  OBVIOUS
<1>2. \A s \in StreamIds : stream[s].to # None => exch'[stream[s].to] = exch[stream[s].to]
  BY MappedTo
<1> QED BY <1>1, <1>2, MappingFrom DEF Grows

\* Stream s is mapped to c, which takes the place of the one it was mapped to.
LEMMA MappingSet ==
  ASSUME SessionInv, Grows, NEW s \in StreamIds, NEW c \in Exchanges,
         stream'[s].to = c, \A t \in StreamIds \ {s} : stream'[t] = stream[t],
         OnStream(c)' = s, exch'[c].at \in Active, exch'[c].at = "json" => setting.json,
         exch[c].at \in Active => OnStream(c) = s,
         \A d \in Exchanges \ {c} :
           \/ exch'[d] = exch[d] /\ (d = stream[s].to => exch[d].at \notin Active)
           \/ exch'[d].at \notin Active /\ (d = stream[s].to \/ exch[d].at \notin Active)
  PROVE  Mapping'
<1>1. ASSUME NEW d \in Exchanges, exch'[d].at \in Active
      PROVE  \/ /\ exch'[d] = exch[d]
                /\ \/ stream'[OnStream(d)].to = stream[OnStream(d)].to
                   \/ closed' /\ exch[d].at # "open"
             \/ stream'[OnStream(d)'].to = d /\ (exch'[d].at = "json" => setting.json)
  <2>1. CASE d = c
    BY <2>1
  <2>2. CASE d # c
    <3>1. exch'[d] = exch[d] /\ d # stream[s].to
      BY <1>1, <2>2
    <3>2. CASE OnStream(d) # s
      BY <3>1, <3>2, OnStreamIs
    <3>3. CASE OnStream(d) = s
      BY <1>1, <3>1, <3>3, OnStreamIs DEF Active, Grows
    <3> QED BY <3>2, <3>3
  <2> QED BY <2>1, <2>2
<1>2. ASSUME NEW t \in StreamIds, stream'[t].to # None
      PROVE  \/ stream'[t].to = stream[t].to /\ exch'[stream[t].to] = exch[stream[t].to]
             \/ exch'[stream'[t].to].at \in Active /\ \E d \in Exchanges : d = stream'[t].to /\ OnStream(d)' = t
  <2>1. CASE t = s
    BY <2>1
  <2>2. CASE t # s
    <3>1. stream'[t] = stream[t]
      BY <2>2
    <3>2. PICK d \in Exchanges : d = stream[t].to /\ OnStream(d) = t /\ exch[d].at \in Active
      BY <1>2, <3>1, MappedTo
    <3>3. d # c
      BY <2>2, <3>2
    <3>4. d # stream[s].to
      BY <2>2, <3>2, MappedTo, Sets
    <3> QED BY <3>1, <3>2, <3>3, <3>4
  <2> QED BY <2>1, <2>2
<1> QED BY <1>1, <1>2, MappingFrom DEF Grows

\* The streams in S are unmapped.
LEMMA MappingUnset ==
  ASSUME SessionInv, Grows, NEW S,
         \A s \in StreamIds : IF s \in S THEN stream'[s].to = None ELSE stream'[s] = stream[s],
         \A d \in Exchanges :
           \/ exch'[d] = exch[d] /\ (exch[d].at = "open" => OnStream(d) \notin S)
              /\ (exch[d].at \in {"priming", "json"} => OnStream(d) \notin S \/ closed')
           \/ exch'[d].at \notin Active /\ \A s \in StreamIds \ S : stream[s].to # d
  PROVE  Mapping'
<1>1. ASSUME NEW d \in Exchanges, exch'[d].at \in Active
      PROVE  /\ exch'[d] = exch[d]
             /\ \/ stream'[OnStream(d)].to = stream[OnStream(d)].to
                \/ closed' /\ exch[d].at # "open"
  <2>1. exch'[d] = exch[d] /\ (OnStream(d) \notin S \/ (closed' /\ exch[d].at # "open"))
    BY <1>1 DEF Active
  <2> QED BY <2>1, OnStreamIs
<1>2. ASSUME NEW t \in StreamIds, stream'[t].to # None
      PROVE  stream'[t].to = stream[t].to /\ exch'[stream[t].to] = exch[stream[t].to]
  <2>1. t \notin S /\ stream'[t] = stream[t]
    BY <1>2
  <2> QED BY <1>2, <2>1, MappedTo
<1> QED BY <1>1, <1>2, MappingFrom DEF Grows

\* The end of a send that is a response completes its POST, or changes no stream.
LEMMA MappingDeliver ==
  ASSUME SessionInv, Grows, NEW i, Deliver(i),
         log'[i].what = "response" => log'[i].req \in Reqs /\ handler[log'[i].req] # "none"
  PROVE  Mapping'
<1>1. CASE UNCHANGED <<exch, stream>>
  BY <1>1, MappingKept
<1>2. CASE log'[i].what = "response" /\ Completes(log'[i].req)
  <2> DEFINE p == PostOf[log'[i].req]
  <2>1. /\ exch' = [c \in Exchanges |-> IF c = stream[p].to THEN CloseController(c) ELSE exch[c]]
        /\ stream' = [stream EXCEPT ![p] = Unmapped] /\ p \in StreamIds
    BY <1>2, Sets DEF Completes
  <2>2. \A s \in StreamIds : IF s \in {p} THEN stream'[s].to = None ELSE stream'[s] = stream[s]
    BY <2>1 DEF SessionInv, ServerTypes, Unmapped
  <2>3. ASSUME NEW d \in Exchanges, d = stream[p].to
        PROVE  exch'[d].at \notin Active /\ \A s \in StreamIds \ {p} : stream[s].to # d
    <3>1. OnStream(d) = p /\ exch[d].at \in {"open", "json"}
      BY <1>2, <2>1, <2>3, Sets, MappedIs DEF SessionInv, Mapped
    <3>2. exch'[d].at \in {"over", "closing"}
      BY <2>1, <2>3, <3>1, ClosesMoves DEF SessionInv
    <3>3. \A s \in StreamIds : stream[s].to = d => s = p
      BY <3>1, MappedTo, Sets
    <3> QED BY <3>2, <3>3 DEF Active
  <2>4. ASSUME NEW d \in Exchanges, d # stream[p].to
        PROVE  /\ exch'[d] = exch[d] /\ (exch[d].at = "open" => OnStream(d) # p)
               /\ (exch[d].at \in {"priming", "json"} => OnStream(d) # p \/ closed')
    BY <2>1, <2>4, OnStreamIs DEF Grows
  <2> HIDE DEF p
  <2> QED BY <2>2, <2>3, <2>4, MappingUnset
<1> QED BY <1>1, <1>2, FinishIs DEF Deliver, Partly

LEMMA MappingSend ==
  ASSUME SessionInv, Grows, NEW s \in StreamIds, NEW r \in Reqs \cup {None},
         NEW what \in {"note", "response"}, Send(s, r, what),
         what = "response" => r \in Reqs /\ handler[r] = "running"
  PROVE  Mapping'
<1>1. log'[Len(log')] = [stream |-> s, req |-> r, what |-> what]
  BY LoggedIs DEF Send, SessionInv
<1>2. CASE Deliver(Len(log'))
  BY <1>1, <1>2, MappingDeliver
<1>3. CASE UNCHANGED <<stream, book, exch, read>>
  BY <1>3, MappingKept
<1> QED BY <1>2, <1>3 DEF Send

\* cleanup() of stream s.
LEMMA MappingEnded ==
  ASSUME SessionInv, NEW s \in StreamIds, NEW d \in Exchanges,
         exch'[d] = Ended({s})[d]
  PROVE  /\ d = stream[s].to => exch[d].at \in {"priming", "json"} \/ exch'[d].at \notin Active
         /\ d # stream[s].to => exch'[d] = exch[d] /\ (exch[d].at = "open" => OnStream(d) # s)
                                /\ (exch[d].at \in {"priming", "json"} => OnStream(d) # s \/ closed)
<1>0. ServerTypes /\ Exchanged
  BY DEF SessionInv
<1>1. \/ exch'[d] = exch[d] /\ ~(exch[d].at = "open" /\ stream[s].to = d)
      \/ exch[d].at = "open" /\ stream[s].to = d /\ exch'[d] = CloseController(d)
  BY <1>0, Ending
<1>2. CASE d = stream[s].to
  <2>1. exch[d].at \in Active
    BY <1>2, MappedTo, Sets
  <2>2. exch[d].at = "open" => exch'[d].at \in {"over", "closing"}
    BY <1>0, <1>1, <1>2, ClosesMoves
  <2> QED BY <1>2, <2>1, <2>2 DEF Active
<1>3. CASE d # stream[s].to
  BY <1>1, <1>3, OnStreamIs
<1> QED BY <1>2, <1>3

\* A GET is for no stream that is awaited.
LEMMA NotAwaited ==
  ASSUME SessionInv, ~closed, NEW c \in Exchanges, exch[c].method = "GET", NEW d \in Exchanges
  PROVE  ~Awaits(d, OnStream(c))
<1>1. CASE exch[c].after # None
  BY <1>1 DEF SessionInv, Unseen, OnStream
<1>2. CASE exch[c].after = None
  BY <1>2 DEF SessionInv, Exchanged, OnStream, Awaits
<1> QED BY <1>1, <1>2

\* The stream of a POST that is not dispatched is mapped to its exchange at most.
LEMMA OwnOnly ==
  ASSUME SessionInv, NEW c \in Exchanges, exch[c].at = "challenged", NEW d \in Exchanges
  PROVE  d # stream[exch[c].stream].to
<1>0. ServerTypes /\ Exchanged /\ Begun
  BY DEF SessionInv
<1> SUFFICES ASSUME d = stream[exch[c].stream].to PROVE FALSE
  OBVIOUS
<1>1. exch[c].method = "POST" /\ exch[c].stream \in Posts
  BY <1>0, Sets DEF Exchanged, ServerTypes, ExchSet
<1>2. OnStream(d) = exch[c].stream /\ exch[d].at \in Active
  BY <1>1, MappedTo, Sets
<1>3. CASE exch[d].after = None
  <2>1. exch[d].stream = exch[c].stream /\ exch[d].stream # Standalone
    BY <1>1, <1>2, <1>3, Sets DEF OnStream
  <2>2. exch[d].method = "POST"
    BY <1>0, <2>1 DEF Exchanged, ServerTypes, ExchSet
  <2> QED BY <1>0, <1>1, <1>2, <2>1, <2>2 DEF Begun, Posted, Active
<1>4. CASE exch[d].after # None
  <2>1. exch[d].after \in DOMAIN log /\ log[exch[d].after].stream = exch[c].stream
    BY <1>0, <1>2, <1>4 DEF ServerTypes, ExchSet, OnStream
  <2> QED BY <1>0, <1>1, <2>1 DEF Begun, Waits, Posted
<1> QED BY <1>3, <1>4

LEMMA MappingStep ==
  ASSUME SessionInv, Grows, (ServerNext /\ ServerMoves) \/ ClientMoves PROVE Mapping'
<1>0. ServerTypes /\ Exchanged /\ Mapping
  BY DEF SessionInv
<1>e. \A d \in Exchanges : exch[d] \in ExchSet
  BY <1>0 DEF ServerTypes
<1>l. LogGrows
  BY DEF Grows
<1>g. ASSUME NEW c \in Exchanges, NEW stage \in ExchStates, Goto(c, stage)
      PROVE  /\ \A d \in Exchanges : d # c => exch'[d] = exch[d]
             /\ exch'[c].at = stage /\ OnStream(c)' = OnStream(c)
  <2>1. exch'[c] = [exch[c] EXCEPT !.at = stage] /\ \A d \in Exchanges \ {c} : exch'[d] = exch[d]
    BY <1>0, <1>g DEF Goto, ServerTypes
  <2>2. exch'[c].at = stage /\ exch'[c].stream = exch[c].stream /\ exch'[c].after = exch[c].after
    BY <1>e, <2>1, Stage
  <2> QED BY <1>l, <2>1, <2>2, OnStreamIs
<1>f. ASSUME NEW c \in Exchanges, NEW how \in {"over", "refused"}, Finished(c, how)
      PROVE  exch'[c].at = how /\ \A d \in Exchanges : d # c => exch'[d] = exch[d]
  BY <1>0, <1>f, Blank DEF Finished, ServerTypes
<1>r. ASSUME NEW c \in Exchanges, Refuse(c)
      PROVE  /\ exch'[c].at \notin Active /\ stream' = stream
             /\ \A d \in Exchanges : d # c => exch'[d] = exch[d]
  BY <1>r, <1>f DEF Refuse, server, Active
<1>x. {"challenged", "json", "priming", "open", "replaying"} \subseteq ExchStates
  BY DEF ExchStates
<1>m. ASSUME NEW s \in StreamIds, NEW c, NEW ids, Map(s, c, ids)
      PROVE  stream'[s].to = c /\ \A t \in StreamIds \ {s} : stream'[t] = stream[t]
  BY <1>0, <1>m DEF Map, ServerTypes
<1>u. ASSUME NEW s \in StreamIds, Unmap(s)
      PROVE  \A t \in StreamIds : IF t \in {s} THEN stream'[t].to = None ELSE stream'[t] = stream[t]
  BY <1>0, <1>u DEF Unmap, Unmapped, ServerTypes
<1>1. CASE ClientMoves
  <2>1. \A d \in Exchanges : exch'[d] = exch[d] \/ {exch[d].at, exch'[d].at} \cap Active = {}
    BY <1>1, AskedIs DEF ClientMoves, Active
  <2> QED BY <1>1, <2>1, MappingKept DEF ClientMoves, server
<1>2. ASSUME NEW c \in Exchanges, PostArrives(c) PROVE Mapping'
  <2>1. /\ exch'[c].at \notin Active /\ stream' = stream
        /\ \A d \in Exchanges : d # c => exch'[d] = exch[d]
    BY <1>2, <1>r, <1>g, <1>x DEF PostArrives, server, Active
  <2> QED BY <1>2, <2>1, MappingKept DEF PostArrives, Asks, Active
<1>3. ASSUME NEW c \in Exchanges, PostRegisters(c) PROVE Mapping'
  <2> DEFINE p == exch[c].stream
  <2>1. p \in StreamIds /\ OnStream(c) = p
    BY <1>e, <1>3, OnStreamIs DEF PostRegisters, ExchSet
  <2>2. stream'[p].to = c /\ \A t \in StreamIds \ {p} : stream'[t] = stream[t]
    BY <1>3, <1>m, <2>1 DEF PostRegisters
  <2>3. /\ \A d \in Exchanges : d # c => exch'[d] = exch[d]
        /\ exch'[c].at \in {"json", "priming"} /\ (exch'[c].at = "json" => setting.json)
        /\ OnStream(c)' = OnStream(c)
    BY <1>3, <1>g, <1>x DEF PostRegisters
  <2>4. \A d \in Exchanges : d # stream[p].to
    BY <1>3, OwnOnly DEF PostRegisters
  <2>5. PICK q \in StreamIds : q = p
    BY <2>1
  <2> HIDE DEF p
  <2> QED BY <2>1, <2>2, <2>3, <2>4, <2>5, MappingSet DEF Active
<1>4. ASSUME NEW c \in Exchanges, PostDispatched(c) PROVE Mapping'
  <2> DEFINE p == exch[c].stream
  <2>1. p \in StreamIds /\ OnStream(c) = p /\ exch[c].at = "priming"
    BY <1>e, <1>4, OnStreamIs DEF PostDispatched, ExchSet
  <2>2. CASE stream[p].to # c
    <3>1. /\ exch'[c].at \notin Active /\ stream' = stream
          /\ \A d \in Exchanges : d # c => exch'[d] = exch[d]
      BY <1>4, <1>r, <1>f, <2>2 DEF PostDispatched, Active
    <3>2. \A s \in StreamIds : stream[s].to # c
      BY <2>1, <2>2, MappedTo, Sets
    <3> HIDE DEF p
    <3>3. \A s \in StreamIds : IF s \in {} THEN stream'[s].to = None ELSE stream'[s] = stream[s]
      BY <3>1
    <3>4. \A d \in Exchanges :
            \/ exch'[d] = exch[d] /\ (exch[d].at = "open" => OnStream(d) \notin {})
               /\ (exch[d].at \in {"priming", "json"} => OnStream(d) \notin {} \/ closed')
            \/ exch'[d].at \notin Active /\ \A s \in StreamIds \ {} : stream[s].to # d
      BY <3>1, <3>2
    <3> QED BY <3>3, <3>4, MappingUnset
  <2>3. CASE stream[p].to = c
    <3>1. /\ \A d \in Exchanges : d # c => exch'[d] = exch[d]
          /\ exch'[c].at = "open" /\ OnStream(c)' = OnStream(c) /\ stream' = stream
      BY <1>4, <1>g, <1>x, <2>3 DEF PostDispatched
    <3>2. PICK q \in StreamIds : q = p
      BY <2>1
    <3> HIDE DEF p
    <3> QED BY <2>1, <2>3, <3>1, <3>2, MappingSet DEF Active
  <2> QED BY <2>2, <2>3
<1>5. ASSUME NEW c \in Exchanges, GetOpens(c) PROVE Mapping'
  <2>0. exch[c].at = "asked" /\ exch[c].method = "GET" /\ exch[c].after = None
    BY <1>5 DEF GetOpens, Asks
  <2>1. CASE closed \/ Mapped(Standalone)
    BY <1>5, <1>r, <2>0, <2>1, MappingKept DEF GetOpens, Active
  <2>2. CASE ~(closed \/ Mapped(Standalone))
    <3>1. OnStream(c) = Standalone /\ Standalone \in StreamIds
      BY <1>0, <2>0, Sets DEF Exchanged, OnStream
    <3>2. /\ \A d \in Exchanges : d # c => exch'[d] = exch[d]
          /\ exch'[c].at = "open" /\ OnStream(c)' = OnStream(c)
      BY <1>5, <1>g, <1>x, <2>2 DEF GetOpens
    <3>3. stream'[Standalone].to = c /\ \A t \in StreamIds \ {Standalone} : stream'[t] = stream[t]
      BY <1>5, <1>m, <2>2, <3>1 DEF GetOpens
    <3>4. stream[Standalone].to = None
      BY <2>2 DEF Mapped
    <3> QED BY <2>0, <3>1, <3>2, <3>3, <3>4, Sets, MappingSet DEF Active
  <2> QED BY <2>1, <2>2
<1>6. ASSUME NEW c \in Exchanges, GetReplays(c) PROVE Mapping'
  <2>1. /\ exch'[c].at \notin Active /\ stream' = stream
        /\ \A d \in Exchanges : d # c => exch'[d] = exch[d]
    BY <1>6, <1>r, <1>g, <1>x DEF GetReplays, server, Active
  <2> QED BY <1>6, <2>1, MappingKept DEF GetReplays, Asks, Active
<1>7. ASSUME NEW c \in Exchanges, GetRegisters(c) PROVE Mapping'
  <2>0. exch[c].at = "replaying" /\ exch[c].method = "GET"
    BY <1>0, <1>7 DEF GetRegisters, Exchanged
  <2>1. CASE closed
    BY <1>7, <1>r, <2>0, <2>1, MappingKept DEF GetRegisters, Active
  <2>2. CASE ~closed
    <3>1. PICK s \in StreamIds : s = OnStream(c)
      BY OnStreamIs
    <3>2. Ended({s}) \in [Exchanges -> ExchSet] /\ Ended({s})[c] = exch[c]
      BY <1>0, <2>0, Ending
    <3>3. \A d \in Exchanges : d # c => exch'[d] = Ended({s})[d]
      BY <1>7, <2>2, <3>1, <3>2 DEF GetRegisters
    <3>4. \A d \in Exchanges : d = stream[s].to => exch[d].at \notin {"priming", "json"}
      <4>1. \A d \in Exchanges : ~Awaits(d, s)
        BY <2>0, <2>2, <3>1, NotAwaited
      <4>2. \A d \in Exchanges : d = stream[s].to => OnStream(d) = s
        BY MappedTo, Sets
      <4> QED BY <4>1, <4>2, OnStreamIs DEF Awaits
    <3>5. \A d \in Exchanges \ {c} :
            /\ d = stream[s].to => exch'[d].at \notin Active
            /\ d # stream[s].to => exch'[d] = exch[d] /\ (exch[d].at = "open" => OnStream(d) # s)
                                   /\ (exch[d].at \in {"priming", "json"} => OnStream(d) # s)
      BY <2>2, <3>3, <3>4, MappingEnded
    <3>6. CASE Registered(c)
      <4>1. exch'[c] = [exch[c] EXCEPT !.at = "open"]
        BY <1>7, <2>2, <3>1, <3>2, <3>6 DEF GetRegisters
      <4>2. exch'[c].at = "open" /\ exch'[c].stream = exch[c].stream /\ exch'[c].after = exch[c].after
        BY <1>e, <1>x, <4>1, Stage
      <4>3. OnStream(c)' = s
        BY <1>l, <3>1, <4>2, OnStreamIs
      <4>4. stream'[s].to = c /\ \A t \in StreamIds \ {s} : stream'[t] = stream[t]
        BY <1>7, <1>m, <2>2, <3>1, <3>6 DEF GetRegisters
      <4> QED BY <2>0, <3>5, <4>2, <4>3, <4>4, MappingSet DEF Active
    <3>7. CASE ~Registered(c)
      <4>1. exch'[c] = Over
        BY <1>7, <2>2, <3>1, <3>2, <3>7 DEF GetRegisters
      <4>2. exch'[c].at \notin Active /\ \A t \in StreamIds : stream[t].to # c
        BY <2>0, <4>1, MappedTo, Sets DEF Active, Over
      <4>3. \A t \in StreamIds : IF t \in {s} THEN stream'[t].to = None ELSE stream'[t] = stream[t]
        BY <1>7, <1>u, <2>2, <3>1, <3>7 DEF GetRegisters
      <4>4. \A d \in Exchanges : d = stream[s].to => \A t \in StreamIds \ {s} : stream[t].to # d
        BY MappedTo, Sets
      <4>5. \A d \in Exchanges :
              \/ exch'[d] = exch[d] /\ (exch[d].at = "open" => OnStream(d) \notin {s})
                 /\ (exch[d].at \in {"priming", "json"} => OnStream(d) \notin {s} \/ closed')
              \/ exch'[d].at \notin Active /\ \A t \in StreamIds \ {s} : stream[t].to # d
        BY <3>5, <4>2, <4>4
      <4> QED BY <4>3, <4>5, MappingUnset
    <3> QED BY <3>6, <3>7
  <2> QED BY <2>1, <2>2
<1>8. ASSUME NEW c \in Exchanges, Cancel(c) PROVE Mapping'
  <2>1. /\ exch[c].at \in {"open", "closing"} /\ exch'[c].at = "over" /\ closed' = closed
        /\ \A d \in Exchanges : d # c => exch'[d] = exch[d]
    BY <1>8, <1>f DEF Cancel
  <2>2. PICK s \in StreamIds : s = OnStream(c)
    BY OnStreamIs
  <2>3. CASE Own(c)
    <3>1. stream[s].to = c /\ \A t \in StreamIds : IF t \in {s} THEN stream'[t].to = None ELSE stream'[t] = stream[t]
      BY <1>8, <1>u, <2>2, <2>3 DEF Cancel, Own
    <3>2. \A t \in StreamIds \ {s} : stream[t].to # c
      BY <2>2, MappedTo, Sets
    <3>3. \A d \in Exchanges \ {c} : /\ exch[d].at = "open" => OnStream(d) # s
                                     /\ exch[d].at \in {"priming", "json"} => OnStream(d) # s \/ closed'
      BY <2>1, <3>1, OnStreamIs
    <3>4. \A d \in Exchanges :
            \/ exch'[d] = exch[d] /\ (exch[d].at = "open" => OnStream(d) \notin {s})
               /\ (exch[d].at \in {"priming", "json"} => OnStream(d) \notin {s} \/ closed')
            \/ exch'[d].at \notin Active /\ \A t \in StreamIds \ {s} : stream[t].to # d
      BY <2>1, <3>2, <3>3 DEF Active
    <3> QED BY <3>1, <3>4, MappingUnset
  <2>4. CASE ~Own(c)
    <3>1. exch[c].at = "closing" /\ stream' = stream
      BY <1>8, <2>1, <2>4, OnStreamIs DEF Cancel, Own
    <3> QED BY <2>1, <3>1, MappingKept DEF Active
  <2> QED BY <2>3, <2>4
<1>9. CASE SendResumes
  <2>1. log' = log /\ Head(sending) \in DOMAIN log /\ Deliver(Head(sending))
    BY <1>0, <1>9 DEF SendResumes, ServerTypes
  <2>2. log'[Head(sending)].what = "response" =>
          log'[Head(sending)].req \in Reqs /\ handler[log'[Head(sending)].req] # "none"
    BY <2>1 DEF LogShape, IsResponse, SessionInv
  <2> QED BY <2>1, <2>2, MappingDeliver
<1>10. ASSUME NEW r \in Reqs, Notify(r) PROVE Mapping'
  BY <1>10, MappingSend, Sets DEF Notify
<1>11. ASSUME NEW r \in Reqs, Respond(r) PROVE Mapping'
  BY <1>11, MappingSend, Sets DEF Respond
<1>12. CASE NotifyStandalone
  <2>1. Standalone \in StreamIds /\ None \in Reqs \cup {None}
    BY Sets
  <2> QED BY <1>12, <2>1, MappingSend DEF NotifyStandalone
<1>13. ASSUME NEW r \in Reqs, NEW s \in StreamIds, CloseStream(r, s) PROVE Mapping'
  <2>1. /\ handler[r] = "running" /\ ~setting.json /\ s \in {PostOf[r], Standalone}
        /\ exch' = Ended({s}) /\ Unmap(s) /\ closed' = closed
    BY <1>13 DEF CloseStream
  <2>2. \A t \in StreamIds : IF t \in {s} THEN stream'[t].to = None ELSE stream'[t] = stream[t]
    BY <1>u, <2>1
  <2>3. ASSUME NEW d \in Exchanges, d = stream[s].to PROVE exch[d].at \notin {"priming", "json"}
    <3>1. OnStream(d) = s /\ Mapped(s)
      BY <2>3, MappedTo, Sets DEF Mapped
    <3>2. exch[d].at # "json"
      BY <1>0, <2>1 DEF Mapping
    <3>3. s = PostOf[r] => exch[d].at # "priming"
      BY <2>1, <2>3, <3>1, MappedIs DEF SessionInv
    <3>4. s = Standalone => exch[d].at # "priming"
      BY <1>0, <3>1, OnStreamIs DEF Exchanged
    <3> QED BY <2>1, <3>2, <3>3, <3>4
  <2>4. \A d \in Exchanges : d = stream[s].to =>
          exch'[d].at \notin Active /\ \A t \in StreamIds \ {s} : stream[t].to # d
    <3>1. \A d \in Exchanges : d = stream[s].to => exch'[d].at \notin Active
      BY <2>1, <2>3, MappingEnded
    <3>2. \A d \in Exchanges : d = stream[s].to => \A t \in StreamIds \ {s} : stream[t].to # d
      BY MappedTo, Sets
    <3> QED BY <3>1, <3>2
  <2>5. \A d \in Exchanges : d # stream[s].to =>
          /\ exch'[d] = exch[d] /\ (exch[d].at = "open" => OnStream(d) # s)
          /\ (exch[d].at \in {"priming", "json"} => OnStream(d) # s \/ closed')
    BY <2>1, MappingEnded
  <2>6. \A d \in Exchanges :
          \/ exch'[d] = exch[d] /\ (exch[d].at = "open" => OnStream(d) \notin {s})
             /\ (exch[d].at \in {"priming", "json"} => OnStream(d) \notin {s} \/ closed')
          \/ exch'[d].at \notin Active /\ \A t \in StreamIds \ {s} : stream[t].to # d
    BY <2>4, <2>5
  <2> QED BY <2>2, <2>6, MappingUnset
<1>14. CASE Close
  <2>1. closed' /\ exch' = Ended(StreamIds) /\ \A t \in StreamIds : stream'[t].to = None
    BY <1>14 DEF Close, Unmapped
  <2>2. ASSUME NEW d \in Exchanges
        PROVE  \/ exch'[d] = exch[d] /\ exch[d].at # "open"
               \/ exch'[d].at \notin Active
    <3>1. CASE exch[d].at = "open"
      <4>1. stream[OnStream(d)].to = d /\ OnStream(d) \in StreamIds
        BY <3>1, OnStreamIs
      <4>2. exch'[d] = CloseController(d)
        BY <1>0, <2>1, <3>1, <4>1, Ending
      <4> QED BY <1>0, <3>1, <4>2, ClosesMoves DEF Active
    <3>2. CASE exch[d].at # "open"
      BY <1>0, <2>1, <3>2, Ending
    <3> QED BY <3>1, <3>2
  <2> QED BY <2>1, <2>2, MappingUnset
<1> QED
  BY <1>1, <1>2, <1>3, <1>4, <1>5, <1>6, <1>7, <1>8, <1>9, <1>10, <1>11, <1>12, <1>13, <1>14
     DEF ServerNext, ServerStep

-----------------------------------------------------------------------------
(***************************************************************************)
(* What the client knows.                                                  *)
(***************************************************************************)
Known(i) ==
  \/ \E d \in Exchanges : \E k \in DOMAIN read[d] : read[d][k] = i
  \/ i # None /\ \E d \in Exchanges : exch[d].after = i
  \/ i # None /\ \E s \in Channels : token[s] = i

LEMMA UnseenIs == Unseen <=> (~closed => \A i : Known(i) => \A c \in Exchanges : ~Awaits(c, log[i].stream))
BY DEF Unseen, Known

LEMMA KnownIs == ASSUME SessionInv, NEW i, Known(i) PROVE i \in DOMAIN log
<1>0. ServerTypes /\ ClientTypes
  BY DEF SessionInv
<1>1. \A d \in Exchanges : read[d] \in Seq(DOMAIN log) /\ exch[d] \in ExchSet
  BY <1>0 DEF ServerTypes
<1> QED BY <1>0, <1>1 DEF Known, ExchSet, ClientTypes

\* What a step makes known, and what begins to be awaited.
LEMMA UnseenFrom ==
  ASSUME SessionInv, LogGrows, closed => closed',
         \A i : Known(i)' =>
           Known(i) \/ (i \in DOMAIN log' /\ (~closed' => \A c \in Exchanges : ~Awaits(c, log[i].stream)')),
         \A c \in Exchanges :
           \/ exch'[c].at \notin {"priming", "json"}
           \/ exch'[c] = exch[c]
           \/ exch[c].at = "challenged" /\ exch'[c].stream = exch[c].stream
  PROVE  Unseen'
<1>0. ServerTypes /\ Begun /\ Exchanged
  BY DEF SessionInv
<1> SUFFICES ASSUME ~closed', NEW i, Known(i)', NEW c \in Exchanges PROVE ~Awaits(c, log[i].stream)'
  BY DEF Unseen, Known
<1>1. CASE Known(i)
  <2>1. i \in DOMAIN log /\ log'[i] = log[i]
    BY <1>0, <1>1, KnownIs, Grown
  <2>2. CASE exch'[c].at \notin {"priming", "json"}
    BY <2>2 DEF Awaits
  <2>3. CASE exch'[c] = exch[c]
    <3>1. ~Awaits(c, log[i].stream)
      BY <1>1, UnseenIs DEF SessionInv
    <3> QED BY <2>1, <2>3, <3>1 DEF Awaits
  <2>4. CASE exch[c].at = "challenged" /\ exch'[c].stream = exch[c].stream
    <3>1. log[i].stream # exch[c].stream
      <4>1. exch[c].method = "POST" /\ exch[c].stream \in StreamIds
        BY <1>0, <2>4 DEF Exchanged, ServerTypes, ExchSet
      <4> QED BY <1>0, <2>1, <2>4, <4>1 DEF Begun, Waits, Posted
    <3> QED BY <2>1, <2>4, <3>1 DEF Awaits
  <2> QED BY <2>2, <2>3, <2>4
<1>2. CASE ~Known(i)
  BY <1>2
<1> QED BY <1>1, <1>2

\* What is written to an exchange that carries a stream is for nobody who waits.
LEMMA ReadingKnown ==
  ASSUME ServerTypes, LogGrows, NEW c, NEW ms \in Seq(DOMAIN log'), read' = Reading(c, ms),
         NEW d \in Exchanges, NEW k \in DOMAIN read'[d]
  PROVE  (\E j \in DOMAIN read[d] : read'[d][k] = read[d][j]) \/ (\E j \in DOMAIN ms : read'[d][k] = ms[j])
<1>1. read[d] \in Seq(DOMAIN log') /\ Len(read[d]) \in Nat /\ Len(ms) \in Nat
      /\ DOMAIN read[d] = 1 .. Len(read[d]) /\ DOMAIN ms = 1 .. Len(ms)
  <2>1. read[d] \in Seq(DOMAIN log')
    BY Grown DEF ServerTypes
  <2> QED BY <2>1
<1>2. read'[d] = read[d] \/ read'[d] = read[d] \o ms
  BY ReadingIs
<1>3. CASE read'[d] = read[d] \o ms
  <2>1. k \in 1 .. Len(read[d]) + Len(ms)
    BY <1>1, <1>3
  <2>2. CASE k <= Len(read[d])
    BY <1>1, <1>3, <2>1, <2>2
  <2>3. CASE k > Len(read[d])
    <3>1. k - Len(read[d]) \in 1 .. Len(ms) /\ read'[d][k] = ms[k - Len(read[d])]
      BY <1>1, <1>3, <2>1, <2>3
    <3> QED BY <1>1, <3>1
  <2> QED BY <2>1, <2>2, <2>3, <1>1
<1> QED BY <1>2, <1>3

\* What send() writes goes to a stream that is open, or is the JSON of a POST
\* that waits no longer.
LEMMA DeliverReads ==
  ASSUME SessionInv, LogGrows, LogShape', ~closed, NEW i \in DOMAIN log', Deliver(i),
         log'[i].what = "response" =>
           /\ log'[i].req \in inflight /\ handler[log'[i].req] # "none"
           /\ log'[i].stream = PostOf[log'[i].req],
         NEW d \in Exchanges, NEW k \in DOMAIN read'[d], NEW n, n = read'[d][k]
  PROVE  \/ \E j \in DOMAIN read[d] : read[d][j] = n
         \/ n \in DOMAIN log' /\ \A c \in Exchanges : ~Awaits(c, log[n].stream)'
<1>0. ServerTypes /\ Exchanged /\ Mapping /\ Replied /\ inflight \subseteq Reqs
  BY DEF SessionInv, ServerTypes
<1> DEFINE s == log'[i].stream
<1>1. \A c \in Exchanges : Awaits(c, s) => stream[s].to = c
  BY <1>0 DEF Mapping, Awaits
<1>2. CASE read' = read
  BY <1>2
<1>3. CASE /\ setting.json /\ log'[i].what = "response" /\ log'[i].req \notin inflight'
           /\ read' = Reading(stream[s].to, Body(s))
  <2>1. Completes(log'[i].req)
    BY <1>3, FinishIs DEF Deliver, Partly
  <2>2. /\ s \in StreamIds /\ s = PostOf[log'[i].req]
        /\ exch' = [c \in Exchanges |-> IF c = stream[s].to THEN CloseController(c) ELSE exch[c]]
    BY <1>0, <1>3, <2>1, Sets DEF Completes
  <2>3. ASSUME NEW c \in Exchanges, exch'[c].at \in {"priming", "json"} PROVE exch'[c].stream # s
    <3>1. CASE c = stream[s].to
      <4>1. Mapped(s) /\ exch[c].at # "priming"
        BY <1>0, <1>3, <2>2, <3>1, Sets, MappedIs DEF Mapped, SessionInv
      <4>2. exch[c].at \in {"open", "json"}
        BY <4>1, <3>1, <2>2, <1>0, MappedIs DEF SessionInv
      <4>3. exch'[c].at \in {"over", "closing"}
        BY <1>0, <2>2, <3>1, <4>2, ClosesMoves
      <4> QED BY <2>3, <4>3
    <3>2. CASE c # stream[s].to
      BY <1>1, <2>2, <2>3, <3>2 DEF Awaits
    <3> QED BY <3>1, <3>2
  <2>4. /\ Body(s) \in Seq(DOMAIN log')
        /\ \A j \in DOMAIN Body(s) : log'[Body(s)[j]].what = "response" /\ log'[Body(s)[j]].req \in Related(s)
    BY <1>0, <1>3, <2>1, <2>2, BodyIs
  <2>5. \A j \in DOMAIN Body(s) : Body(s)[j] \in DOMAIN log' /\ log'[Body(s)[j]].stream = s
    <3> HIDE DEF s
    <3>1. \A j \in DOMAIN Body(s) : Body(s)[j] \in DOMAIN log'
      BY <2>4
    <3> QED BY <2>4, <3>1 DEF LogShape, IsResponse, Related
  <2>6. (\E j \in DOMAIN read[d] : n = read[d][j]) \/ (\E j \in DOMAIN Body(s) : n = Body(s)[j])
    BY <1>0, <1>3, <2>4, ReadingKnown
  <2>7. CASE \E j \in DOMAIN Body(s) : n = Body(s)[j]
    <3>1. n \in DOMAIN log' /\ log'[n].stream = s
      BY <2>5, <2>7
    <3>2. \A c \in Exchanges : ~Awaits(c, log[n].stream)'
      BY <2>3, <3>1 DEF Awaits
    <3> QED BY <3>1, <3>2
  <2> QED BY <2>6, <2>7
<1>4. CASE /\ stream[s].to # None /\ exch[stream[s].to].at = "open"
           /\ read' = Reading(stream[s].to, <<i>>)
  <2>1. \A c \in Exchanges : ~Awaits(c, s)
    BY <1>1, <1>4 DEF Awaits
  <2>2. ASSUME NEW c \in Exchanges, exch'[c].at \in {"priming", "json"} PROVE exch'[c] = exch[c]
    <3>1. CASE log'[i].what = "response" /\ Completes(log'[i].req) /\ c = stream[PostOf[log'[i].req]].to
      <4>1. exch[c].at = "open" /\ exch'[c] = CloseController(c)
        BY <1>4, <3>1 DEF Completes, Deliver
      <4>2. exch'[c].at \in {"over", "closing"}
        BY <1>0, <4>1, ClosesMoves
      <4> QED BY <2>2, <4>2
    <3>2. CASE ~(log'[i].what = "response" /\ Completes(log'[i].req) /\ c = stream[PostOf[log'[i].req]].to)
      BY <3>2, FinishIs DEF Deliver, Completes, Partly
    <3> QED BY <3>1, <3>2
  <2>3. (\E j \in DOMAIN read[d] : n = read[d][j]) \/ n = i
    <3>1. <<i>> \in Seq(DOMAIN log')
      OBVIOUS
    <3>2. (\E j \in DOMAIN read[d] : n = read[d][j]) \/ (\E j \in DOMAIN <<i>> : n = <<i>>[j])
      BY <1>0, <1>4, <3>1, ReadingKnown
    <3>3. \A j \in DOMAIN <<i>> : <<i>>[j] = i
      OBVIOUS
    <3> QED BY <3>2, <3>3
  <2>4. CASE n = i
    <3>1. \A c \in Exchanges : ~Awaits(c, log[n].stream)'
      BY <2>1, <2>2, <2>4 DEF Awaits
    <3> QED BY <2>4, <3>1
  <2> QED BY <2>3, <2>4
<1> QED BY <1>2, <1>3, <1>4 DEF Deliver, Written, Mapped

LEMMA UnseenStep ==
  ASSUME SessionInv, Grows, LogShape', (ServerNext /\ ServerMoves /\ UNCHANGED client) \/ ClientMoves
  PROVE  Unseen'
<1>0. ServerTypes /\ Exchanged /\ Begun /\ LogShape /\ Books /\ Mapping /\ Unseen /\ LogGrows
  BY DEF SessionInv, Grows
<1>l. \A i \in DOMAIN log : i \in DOMAIN log' /\ log'[i] = log[i]
  BY <1>0, Grown
<1>a. \A c \in Exchanges :
        \/ exch'[c].at \notin {"priming", "json"}
        \/ exch'[c] = exch[c]
        \/ exch[c].at = "challenged" /\ exch'[c].stream = exch[c].stream
  BY AskedIs DEF ServerMoves, ClientMoves, Moves, Through, Restaged, Turns
<1>1. CASE ClientMoves
  <2>1. ASSUME NEW i, Known(i)' PROVE Known(i)
    <3>1. CASE \E d \in Exchanges : \E k \in DOMAIN read'[d] : read'[d][k] = i
      BY <1>1, <3>1 DEF ClientMoves, Known
    <3>2. CASE i # None /\ \E d \in Exchanges : exch'[d].after = i
      <4>1. PICK d \in Exchanges : i # None /\ exch'[d].after = i
        BY <3>2
      <4>2. CASE exch'[d] = exch[d] \/ Through(d)
        BY <4>1, <4>2 DEF Known, Through
      <4>3. CASE Asked(d)
        <5>1. ASSUME NEW after, NEW method, NEW s,
                     exch'[d] = [at |-> "asked", method |-> method, stream |-> s, after |-> after]
              PROVE  after = i
          BY <4>1, <5>1
        <5>2. \E s \in Channels : token[s] = i
          BY <4>1, <4>3, <5>1 DEF Asked
        <5> QED BY <4>1, <5>2 DEF Known
      <4> QED BY <1>1, <4>2, <4>3 DEF ClientMoves
    <3>3. CASE i # None /\ \E s \in Channels : token'[s] = i
      BY <1>1, <3>3 DEF ClientMoves, Known
    <3> QED BY <2>1, <3>1, <3>2, <3>3 DEF Known
  <2> QED BY <1>0, <1>1, <1>a, <2>1, UnseenFrom DEF Grows
<1>2. ASSUME ServerMoves, UNCHANGED client,
             \A d \in Exchanges : \A k \in DOMAIN read'[d] : \A n :
               n = read'[d][k] =>
                 \/ \E e \in Exchanges : \E j \in DOMAIN read[e] : read[e][j] = n
                 \/ n \in DOMAIN log' /\ (~closed' => \A c \in Exchanges : ~Awaits(c, log[n].stream)')
      PROVE  Unseen'
  <2>1. ASSUME NEW i, Known(i)'
        PROVE  Known(i) \/ (i \in DOMAIN log' /\ (~closed' => \A c \in Exchanges : ~Awaits(c, log[i].stream)'))
    <3>1. CASE \E d \in Exchanges : \E k \in DOMAIN read'[d] : read'[d][k] = i
      BY <1>2, <3>1 DEF Known
    <3>2. CASE i # None /\ \E d \in Exchanges : exch'[d].after = i
      BY <1>2, <3>2 DEF ServerMoves, Moves, Through, Restaged, Known
    <3>3. CASE i # None /\ \E s \in Channels : token'[s] = i
      BY <1>2, <3>3 DEF client, Known
    <3> QED BY <2>1, <3>1, <3>2, <3>3 DEF Known
  <2> QED BY <1>0, <1>a, <2>1, UnseenFrom DEF Grows
<1>3. ASSUME ServerMoves, UNCHANGED client, read' = read PROVE Unseen'
  BY <1>2, <1>3
<1>4. ASSUME NEW c \in Exchanges, ServerMoves, UNCHANGED client,
             PostArrives(c) \/ PostRegisters(c) \/ GetOpens(c) \/ GetRegisters(c) \/ Cancel(c)
      PROVE  Unseen'
  BY <1>3, <1>4 DEF PostArrives, PostRegisters, GetOpens, GetRegisters, Cancel, Refuse
<1>5. ASSUME NEW c \in Exchanges, ServerMoves, UNCHANGED client, PostDispatched(c) PROVE Unseen'
  <2> DEFINE p == exch[c].stream
  <2>1. CASE read' = read
    BY <1>3, <1>5, <2>1
  <2>2. CASE Primes /\ exch'[c].at \notin {"priming", "json"} /\ read' = Reading(c, <<PrimingEvent(p)>>)
    <3>1. PICK m : m = PrimingEvent(p)
      OBVIOUS
    <3>2. m \in DOMAIN log /\ log[m].stream = p
      BY <1>0, <1>5, <2>2, <3>1 DEF Begun, PostDispatched, PrimingEvent
    <3>3. \A d \in Exchanges : ~Awaits(d, log[m].stream)'
      <4> SUFFICES ASSUME NEW d \in Exchanges, exch'[d].at \in {"priming", "json"}, exch'[d].stream = p PROVE FALSE
        BY <1>l, <3>2 DEF Awaits
      <4>1. d # c
        BY <2>2
      <4>2. exch'[d] = exch[d]
        <5>1. Goto(c, "open") \/ Finished(c, "over") \/ Refuse(c)
          BY <1>5 DEF PostDispatched
        <5> QED BY <1>0, <4>1, <5>1 DEF Goto, Finished, Refuse, ServerTypes
      <4>3. exch[c].method = "POST" /\ exch[d].method = "POST" /\ p \in Posts
        BY <1>0, <1>5, <4>2, Sets DEF PostDispatched, Exchanged, ServerTypes, ExchSet
      <4> QED BY <1>0, <4>1, <4>2, <4>3 DEF Begun, Posted
    <3>4. <<m>> \in Seq(DOMAIN log') /\ \A j \in DOMAIN <<m>> : <<m>>[j] = m
      BY <1>l, <3>2
    <3>5. read' = Reading(c, <<m>>)
      BY <2>2, <3>1
    <3>6. \A d \in Exchanges : \A k \in DOMAIN read'[d] :
            (\E j \in DOMAIN read[d] : read'[d][k] = read[d][j]) \/ read'[d][k] = m
      <4>1. \A d \in Exchanges : \A k \in DOMAIN read'[d] :
              \/ \E j \in DOMAIN read[d] : read'[d][k] = read[d][j]
              \/ \E j \in DOMAIN <<m>> : read'[d][k] = <<m>>[j]
        BY <1>0, <3>4, <3>5, ReadingKnown
      <4> QED BY <3>4, <4>1
    <3> QED BY <1>2, <1>5, <1>l, <3>2, <3>3, <3>6
  <2>3. CASE Primes /\ stream[p].to # c
    BY <1>5, <2>1, <2>3 DEF PostDispatched, Refuse
  <2>4. ~(Primes /\ stream[p].to # c) => exch'[c].at \notin {"priming", "json"}
    <3>1. exch[c] \in ExchSet /\ "open" \in ExchStates
      BY <1>0 DEF ServerTypes, ExchStates
    <3>2. Goto(c, "open") => exch'[c].at = "open"
      BY <1>0, <3>1, Stage DEF Goto, ServerTypes
    <3>3. Finished(c, "over") => exch'[c].at = "over"
      BY <1>0, Blank DEF Finished, ServerTypes
    <3> QED BY <1>5, <3>2, <3>3 DEF PostDispatched
  <2> QED BY <1>5, <2>1, <2>2, <2>3, <2>4 DEF PostDispatched
<1>6. ASSUME NEW c \in Exchanges, ServerMoves, UNCHANGED client, GetReplays(c) PROVE Unseen'
  <2>1. CASE read' = read
    BY <1>3, <1>6, <2>1
  <2>2. CASE read' = [read EXCEPT ![c] = EventsAfter(exch[c].after)] /\ ~closed /\ Goto(c, "replaying")
    <3>1. exch[c].after \in DOMAIN log /\ exch[c].method = "GET" /\ OnStream(c) = log[exch[c].after].stream
      BY <1>0, <1>6 DEF GetReplays, Asks, ServerTypes, ExchSet, OnStream
    <3>2. EventsAfter(exch[c].after) \in Seq(DOMAIN log)
          /\ \A k \in DOMAIN EventsAfter(exch[c].after) : log[EventsAfter(exch[c].after)[k]].stream = OnStream(c)
      BY <1>0, <3>1, EventsAre DEF Lists
    <3>3. \A d \in Exchanges : exch'[d].at \in {"priming", "json"} => exch'[d] = exch[d]
      <4>1. exch'[c].at = "replaying"
        <5>1. exch[c] \in ExchSet /\ "replaying" \in ExchStates
          BY <1>0 DEF ServerTypes, ExchStates
        <5> QED BY <1>0, <2>2, <5>1, Stage DEF Goto, ServerTypes
      <4> QED BY <1>0, <2>2, <4>1 DEF Goto, ServerTypes
    <3>4. ASSUME NEW n \in DOMAIN log, log[n].stream = OnStream(c), NEW d \in Exchanges
          PROVE  ~Awaits(d, log[n].stream)'
      <4>1. ~Awaits(d, OnStream(c))
        BY <2>2, <3>1, NotAwaited
      <4> QED BY <1>l, <3>3, <3>4, <4>1 DEF Awaits
    <3>5. ASSUME NEW d \in Exchanges, NEW k \in DOMAIN read'[d], NEW n, n = read'[d][k]
          PROVE  \/ \E e \in Exchanges : \E j \in DOMAIN read[e] : read[e][j] = n
                 \/ n \in DOMAIN log' /\ (~closed' => \A e \in Exchanges : ~Awaits(e, log[n].stream)')
      <4>1. CASE d = c
        <5>1. read'[d] = EventsAfter(exch[c].after)
          BY <1>0, <2>2, <4>1 DEF ServerTypes
        <5>2. n \in DOMAIN log /\ log[n].stream = OnStream(c)
          BY <3>2, <3>5, <5>1
        <5> QED BY <1>l, <3>4, <5>2
      <4>2. CASE d # c
        <5>1. read'[d] = read[d]
          BY <1>0, <2>2, <4>2 DEF ServerTypes
        <5> QED BY <3>5, <5>1
      <4> QED BY <4>1, <4>2
    <3> QED BY <1>2, <1>6, <3>5
  <2> QED BY <1>6, <2>1, <2>2 DEF GetReplays, Refuse
<1>7. ASSUME ServerMoves, UNCHANGED client, NEW i \in DOMAIN log', Deliver(i),
             log'[i].what = "response" =>
               /\ ~closed => log'[i].req \in inflight
               /\ handler[log'[i].req] # "none" /\ log'[i].stream = PostOf[log'[i].req]
      PROVE  Unseen'
  <2>1. CASE closed'
    BY <2>1 DEF Unseen
  <2>2. CASE ~closed'
    <3>1. ~closed
      BY <1>7, <2>2 DEF ServerMoves
    <3> QED BY <1>0, <1>2, <1>7, <3>1, DeliverReads
  <2> QED BY <2>1, <2>2
<1>8. ASSUME ServerMoves, UNCHANGED client, SendResumes PROVE Unseen'
  <2> DEFINE i == Head(sending)
  <2>1. log' = log /\ i = sending[1] /\ 1 \in DOMAIN sending /\ i \in DOMAIN log /\ Deliver(i)
    BY <1>0, <1>8 DEF SendResumes, ServerTypes
  <2>2. ASSUME log[i].what = "response"
        PROVE  /\ ~closed => log[i].req \in inflight
               /\ handler[log[i].req] # "none" /\ log[i].stream = PostOf[log[i].req]
    <3>1. log[i].req \in Reqs /\ handler[log[i].req] = "answered" /\ log[i].stream = PostOf[log[i].req]
      BY <1>0, <2>1, <2>2 DEF LogShape, IsResponse
    <3>2. PICK r \in Reqs : r = log[i].req
      BY <3>1
    <3>3. Stored(r)
      BY <2>1, <2>2, <3>2 DEF Stored, IsResponse
    <3> QED BY <1>0, <3>1, <3>2, <3>3 DEF Books
  <2> HIDE DEF i
  <2> QED BY <1>7, <1>8, <2>1, <2>2
<1>9. ASSUME NEW s \in StreamIds, NEW r \in Reqs \cup {None}, NEW what \in {"note", "response"}, Send(s, r, what),
             ServerMoves, UNCHANGED client, what = "response" => r \in inflight /\ handler[r] = "running" /\ s = PostOf[r]
      PROVE  Unseen'
  <2>1. Len(log') \in DOMAIN log' /\ log'[Len(log')] = [stream |-> s, req |-> r, what |-> what]
    BY <1>0, <1>9, LoggedIs DEF Send
  <2>2. CASE read' = read
    BY <1>3, <1>9, <2>2
  <2>3. CASE Deliver(Len(log'))
    <3>1. PICK i \in DOMAIN log' : i = Len(log')
      BY <2>1
    <3>2. log'[i].what = what /\ log'[i].req = r /\ log'[i].stream = s /\ Deliver(i)
      BY <2>1, <2>3, <3>1
    <3> QED BY <1>7, <1>9, <3>2
  <2> QED BY <1>9, <2>2, <2>3 DEF Send
<1>10. ASSUME NEW r \in Reqs, Notify(r) \/ Respond(r), ServerMoves, UNCHANGED client PROVE Unseen'
  BY <1>9, <1>10, Sets DEF Notify, Respond
<1>11. ASSUME NotifyStandalone, ServerMoves, UNCHANGED client PROVE Unseen'
  <2>1. Standalone \in StreamIds /\ None \in Reqs \cup {None}
    BY Sets
  <2> QED BY <1>9, <1>11, <2>1 DEF NotifyStandalone
<1>12. ASSUME Close \/ \E r \in Reqs, s \in StreamIds : CloseStream(r, s), ServerMoves, UNCHANGED client PROVE Unseen'
  BY <1>3, <1>12 DEF Close, CloseStream
<1> QED
  BY <1>1, <1>4, <1>5, <1>6, <1>8, <1>10, <1>11, <1>12 DEF ServerNext, ServerStep

-----------------------------------------------------------------------------
(***************************************************************************)
(* The theorems.                                                           *)
(***************************************************************************)
LEMMA SessionInit == Init => SessionInv
<1> SUFFICES ASSUME Init PROVE SessionInv
  OBVIOUS
<1>0. /\ ServerInit /\ log = <<>> /\ sending = <<>> /\ DOMAIN log = {} /\ DOMAIN sending = {}
      /\ DOMAIN <<>> = {}
      /\ inflight = {} /\ responded = {} /\ exch = [c \in Exchanges |-> Over]
      /\ read = [c \in Exchanges |-> <<>>] /\ stream = [s \in StreamIds |-> Unmapped]
      /\ handler = [r \in Reqs |-> "none"] /\ token = [s \in Channels |-> None]
  BY DEF Init, ServerInit
<1>1. \A c \in Exchanges : exch[c] = Over /\ exch[c].at = "over" /\ exch[c].method = "GET"
                           /\ exch[c].stream = Standalone /\ exch[c].after = None /\ read[c] = <<>>
  BY <1>0 DEF Over
<1>2. ServerTypes
  <2>1. Over \in ExchSet /\ Unmapped \in Entries /\ <<>> \in Seq(DOMAIN log) /\ log \in Seq(Messages)
    BY <1>0, Blank DEF Unmapped, Entries
  <2>2. setting \in Settings /\ (setting.primes => setting.store)
    BY <1>0, StreamableHTTPServerAssumption DEF ServerInit
  <2> QED BY <1>0, <2>1, <2>2 DEF ServerTypes, ServerInit
<1>3. ClientTypes
  <2>1. "idle" \in ChannelStates /\ 0 \in 0 .. MaxDrops /\ <<>> \in Seq(DOMAIN log)
    BY Sets DEF ChannelStates
  <2>2. /\ at = [s \in Channels |-> "idle"] /\ using = [s \in Channels |-> None]
        /\ attempt = [s \in Channels |-> 0] /\ past = [s \in Channels |-> <<>>]
        /\ strayed = {} /\ aborted = FALSE /\ drops = 0
    BY DEF Init
  <2> QED BY <1>0, <2>1, <2>2 DEF ClientTypes
<1>4. Exchanged
  BY <1>1 DEF Exchanged
<1>5. Begun
  BY <1>0, <1>1 DEF Begun, Posted, Waits
<1>6. LogShape /\ Queue /\ Replied
  BY <1>0 DEF LogShape, Queue, Rising, Replied
<1>7. Books
  BY <1>0 DEF Books, Stored
<1>8. Mapping
  BY <1>0, <1>1 DEF Mapping, Mapped, Unmapped
<1>9. Unseen
  BY <1>0, <1>1 DEF Unseen
<1> QED BY <1>2, <1>3, <1>4, <1>5, <1>6, <1>7, <1>8, <1>9 DEF SessionInv

LEMMA SessionStep == SessionInv /\ [Next]_vars => SessionInv'
<1> SUFFICES ASSUME SessionInv, [Next]_vars PROVE SessionInv'
  OBVIOUS
<1>1. ASSUME (ServerNext /\ ServerMoves /\ UNCHANGED client) \/ ClientMoves,
             ServerTypes', ClientTypes', LogGrows, Queued \/ ClientMoves
      PROVE  SessionInv'
  <2>1. setting' = setting /\ (closed => closed')
    BY <1>1 DEF ServerMoves, ClientMoves, server
  <2>2. Exchanged' /\ LogShape'
    BY <1>1, ExchangedStep, LogShapeStep
  <2>3. Begun'
    BY <1>1, BegunStep
  <2>4. Queue' /\ Replied'
    BY <1>1, <2>1, QueueStep, RepliedStep
  <2>5. Books'
    BY <1>1, BooksStep
  <2>6. Grows
    BY <1>1, <2>1, <2>2 DEF Grows
  <2>7. Mapping' /\ Unseen'
    BY <1>1, <2>2, <2>6, MappingStep, UnseenStep
  <2> QED BY <1>1, <2>2, <2>3, <2>4, <2>5, <2>7 DEF SessionInv
<1>2. CASE ServerNext /\ UNCHANGED client
  BY <1>1, <1>2, ServerTypeStep, ServerMovesStep, QueuedStep
<1>3. CASE ClientNext
  <2>1. ServerTypes' /\ ClientTypes' /\ ClientMoves
    BY <1>3, ClientTypeStep, ClientMovesStep
  <2>2. LogGrows
    BY <2>1 DEF ClientMoves, server, LogGrows
  <2> QED BY <1>1, <2>1, <2>2
<1>4. CASE UNCHANGED vars
  <2>1. UNCHANGED <<setting, closed, stream, inflight, responded, handler, log, sending, exch, wire, read>>
    BY <1>4 DEF vars, serverVars, server, book, exchange
  <2>2. UNCHANGED <<at, using, token, attempt, past, strayed, aborted, drops>>
    BY <1>4 DEF vars, client
  <2>3. ServerTypes' /\ ClientTypes'
    BY <2>1, <2>2 DEF SessionInv, ServerTypes, ClientTypes, ExchSet, Entries
  <2>4. Exchanged' /\ Begun' /\ LogShape' /\ Queue' /\ Replied'
    BY <2>1, <2>2 DEF SessionInv, Exchanged, Begun, Posted, Waits, Undispatched, Primes, LogShape, IsResponse,
                      Queue, Replied
  <2>5. Books' /\ Mapping' /\ Unseen'
    BY <2>1, <2>2 DEF SessionInv, Books, Stored, IsResponse, Carried, Mapping, Mapped, OnStream, Unseen, Awaits
  <2> QED BY <2>3, <2>4, <2>5 DEF SessionInv
<1> QED BY <1>2, <1>3, <1>4 DEF Next, ClientNext

\* The invariant of the session: the books, the mapping and what either side
\* may rely on while the handler of a POST awaits.
THEOREM SessionHolds == Spec => []SessionInv
<1>1. Init => SessionInv
  BY SessionInit
<1>2. SessionInv /\ [Next]_vars => SessionInv'
  BY SessionStep
<1> QED BY <1>1, <1>2, PTL DEF Spec

LEMMA TypesMean == SessionInv => TypeOK
<1> SUFFICES ASSUME SessionInv PROVE TypeOK
  OBVIOUS
<1>0. ServerTypes /\ ClientTypes
  BY DEF SessionInv
<1>1. \A s \in StreamIds : stream[s].to \in Exchanges \cup {None} /\ stream[s].replayed \subseteq DOMAIN log
  <2>1. \A s \in StreamIds : stream[s] \in Entries
    BY <1>0 DEF ServerTypes
  <2> QED BY <2>1 DEF Entries
<1>2. \A k \in DOMAIN sending : sending[k] \in DOMAIN log
  BY <1>0 DEF ServerTypes
<1>3. \A c \in Exchanges :
        /\ exch[c] \in [at : ExchStates, method : {"GET", "POST"}, stream : StreamIds, after : Nat]
        /\ exch[c].after = None \/ exch[c].after \in DOMAIN log
  <2>1. {None} \cup DOMAIN log \subseteq Nat
    BY <1>0, Sets DEF ServerTypes
  <2>2. \A c \in Exchanges : exch[c] \in ExchSet
    BY <1>0 DEF ServerTypes
  <2> QED BY <2>1, <2>2 DEF ExchSet
<1>4. \A c \in Exchanges : \A k \in DOMAIN read[c] : read[c][k] \in DOMAIN log
  <2>1. \A c \in Exchanges : read[c] \in Seq(DOMAIN log)
    BY <1>0 DEF ServerTypes
  <2> QED BY <2>1
<1> QED BY <1>0, <1>1, <1>2, <1>3, <1>4 DEF TypeOK, ServerTypes, ClientTypes

\* Both transports keep what they keep well formed, and no channel is
\* reconnected more than maxRetries times in a row (_scheduleReconnection).
THEOREM TypeCorrect == Spec => []TypeOK
BY SessionHolds, TypesMean, PTL

\* No response stream that is open is unmapped, and none that is mapped is over
\* (replayEvents, cancel(), closeSSEStream), in whatever order a connection is
\* lost, noticed and resumed.
THEOREM NeverOrphaned == Spec => []NoOrphanStream
<1>1. SessionInv => NoOrphanStream
  BY DEF SessionInv, Mapping, NoOrphanStream
<1> QED BY <1>1, SessionHolds, PTL

\* Until close(), the books keep a request id only while some request of its
\* POST has no response, or one whose send awaits the event store (send()).
THEOREM RequestsAreRetired == Spec => []RequestsRetired
<1>1. SessionInv => RequestsRetired
  <2> SUFFICES ASSUME SessionInv, ~closed
               PROVE  /\ responded \subseteq inflight
                      /\ \A r \in inflight : \E q \in Carried(PostOf[r]) :
                           \/ handler[q] # "answered"
                           \/ \E k \in DOMAIN sending : log[sending[k]].req = q /\ IsResponse(sending[k])
    BY DEF RequestsRetired
  <2>1. Books
    BY DEF SessionInv
  <2>2. ASSUME NEW r \in inflight
        PROVE  \E q \in Carried(PostOf[r]) :
                 \/ handler[q] # "answered"
                 \/ \E k \in DOMAIN sending : log[sending[k]].req = q /\ IsResponse(sending[k])
    <3>1. PICK q \in inflight \ responded : PostOf[q] = PostOf[r]
      BY <2>1 DEF Books
    <3>2. q \in Carried(PostOf[r])
      BY <2>1, <3>1 DEF Books
    <3>3. handler[q] = "answered" => Stored(q)
      BY <2>1, <3>1 DEF Books
    <3> QED BY <3>2, <3>3 DEF Stored
  <2> QED BY <2>1, <2>2 DEF Books
<1> QED BY <1>1, SessionHolds, PTL

-----------------------------------------------------------------------------
(***************************************************************************)
(* The invariant of the channels.                                          *)
(***************************************************************************)
\* A channel that is asking or reading has an exchange of its own, and that
\* exchange its connection.
Holding ==
  /\ \A s \in Channels : using[s] # None <=> at[s] \in {"posting", "opening", "reconnecting"}
  /\ \A s \in Channels : using[s] # None => using[s] \in Slots(s)
  /\ \A c \in Exchanges : wire[c] <=> \E s \in Channels : using[s] = c

\* All that a channel has read, a replay that is not answered yet included.
Full(s) == IF using[s] # None THEN past[s] \o read[using[s]] ELSE past[s]

Fits(ms, s, all) == Rising(ms) /\ \A k \in DOMAIN ms : all[ms[k]].stream \in {s, Standalone}

\* The channel of a POST in JSON mode reads one body, every other one a stream.
Streamed(s) == ~(setting.json /\ s \in Posts)

InTurn == \A s \in Channels : Streamed(s) => Fits(Full(s), s, log)

\* ms are answers of the POST p, in the order of its requests.
Replies(ms, p, all) ==
  /\ \A k \in DOMAIN ms : all[ms[k]].what = "response" /\ all[ms[k]].stream = p
  /\ \A j, k \in DOMAIN ms : j < k => all[ms[j]].req < all[ms[k]].req

\* A POST in JSON mode is never resumed, and what it reads is one body.
Bodies ==
  \A p \in Posts : ~Streamed(p) =>
    /\ at[p] \notin {"opening", "waiting", "reconnecting"}
    /\ using[p] # None => \/ exch[using[p]].at \in {"over", "refused"}
                          \/ exch[using[p]].method = "POST"
    /\ Replies(Full(p), p, log)

\* Nothing is read before an answer; the first read of a channel finds it empty,
\* and a resumption names the last event the channel read.
Unread == {"asked", "challenged", "priming", "json"}

Asking ==
  /\ \A s \in Channels, c \in Exchanges : using[s] = c =>
       /\ exch[c].at # "over" => OnStream(c) \in {s, Standalone}
       /\ exch[c].method = "POST" => at[s] = "posting"
       /\ exch[c].after # None => at[s] = "reconnecting" /\ exch[c].after = token[s]
       /\ exch[c].at \in Unread => read[c] = <<>>
  /\ \A s \in Channels :
       /\ at[s] \in {"idle", "posting", "opening"} => past[s] = <<>>
       /\ at[s] \in {"waiting", "reconnecting"} /\ token[s] # None =>
            past[s] # <<>> /\ token[s] = past[s][Len(past[s])]

\* In JSON mode a POST has no stream, and only the standalone one is resumed.
JsonMode ==
  setting.json =>
    /\ \A c \in Exchanges : /\ exch[c].at # "priming"
                            /\ exch[c].at = "open" => exch[c].method = "GET"
                            /\ exch[c].after # None => log[exch[c].after].stream = Standalone
    /\ \A s \in Channels : token[s] # None => log[token[s]].stream = Standalone

Before(ms, i) == \A k \in DOMAIN ms : ms[k] < i

\* With a prompt store, what a channel read before its present exchange precedes
\* every message that awaits the store.
Behind ==
  \A s \in Channels, k \in DOMAIN sending :
    using[s] # None \/ (at[s] = "waiting" /\ token[s] = None) => Before(past[s], sending[k])

\* And what it reads in that exchange precedes them too, unless it is replayed.
Live ==
  \A c \in Exchanges, k \in DOMAIN sending :
    wire[c] /\ log[sending[k]].stream = OnStream(c) =>
      /\ exch[c].at = "replaying" => Before(read[c], sending[k]) \/ \E j \in DOMAIN read[c] : read[c][j] = sending[k]
      /\ exch[c].at = "open" => Before(read[c], sending[k]) \/ sending[k] \in stream[OnStream(c)].replayed

DeliveryInv == Holding /\ InTurn /\ Bodies /\ Asking /\ JsonMode /\ Behind /\ Live
-----------------------------------------------------------------------------
(***************************************************************************)
(* Sequences that rise.                                                    *)
(***************************************************************************)
LEMMA JoinIs ==
  ASSUME NEW S, NEW a \in Seq(S), NEW b \in Seq(S)
  PROVE  /\ a \o b \in Seq(S) /\ Len(a \o b) = Len(a) + Len(b)
         /\ DOMAIN a = 1 .. Len(a) /\ DOMAIN b = 1 .. Len(b) /\ DOMAIN (a \o b) = 1 .. Len(a) + Len(b)
         /\ Len(a) \in Nat /\ Len(b) \in Nat
         /\ \A k \in DOMAIN a : k \in DOMAIN (a \o b) /\ (a \o b)[k] = a[k]
         /\ \A k \in DOMAIN b : Len(a) + k \in DOMAIN (a \o b) /\ (a \o b)[Len(a) + k] = b[k]
         /\ \A k \in DOMAIN (a \o b) : k \in DOMAIN a \/ (k - Len(a) \in DOMAIN b /\ k = Len(a) + (k - Len(a)))
OBVIOUS

LEMMA RisingJoin ==
  ASSUME NEW a \in Seq(Nat), NEW b \in Seq(Nat)
  PROVE  Rising(a \o b) <=> Rising(a) /\ Rising(b) /\ \A j \in DOMAIN a, k \in DOMAIN b : a[j] < b[k]
<1> DEFINE ab == a \o b
<1>1. /\ Len(a) \in Nat /\ Len(b) \in Nat
      /\ DOMAIN a = 1 .. Len(a) /\ DOMAIN b = 1 .. Len(b) /\ DOMAIN ab = 1 .. Len(a) + Len(b)
      /\ \A k \in DOMAIN a : k \in DOMAIN ab /\ ab[k] = a[k]
      /\ \A k \in DOMAIN b : Len(a) + k \in DOMAIN ab /\ ab[Len(a) + k] = b[k]
      /\ \A k \in DOMAIN ab : k \in DOMAIN a \/ (k - Len(a) \in DOMAIN b /\ ab[k] = b[k - Len(a)])
  BY JoinIs
<1> HIDE DEF ab
<1>2. ASSUME Rising(ab) PROVE Rising(a) /\ Rising(b) /\ \A j \in DOMAIN a, k \in DOMAIN b : a[j] < b[k]
  <2>1. \A j, k \in DOMAIN b : j < k => Len(a) + j < Len(a) + k
    BY <1>1
  <2>2. \A j \in DOMAIN a, k \in DOMAIN b : j < Len(a) + k
    BY <1>1
  <2> QED BY <1>1, <1>2, <2>1, <2>2 DEF Rising
<1>3. ASSUME Rising(a), Rising(b), \A j \in DOMAIN a, k \in DOMAIN b : a[j] < b[k] PROVE Rising(ab)
  <2> SUFFICES ASSUME NEW j \in DOMAIN ab, NEW k \in DOMAIN ab, j < k PROVE ab[j] < ab[k]
    BY DEF Rising
  <2>1. CASE j \in DOMAIN a /\ k \in DOMAIN a
    BY <1>1, <1>3, <2>1 DEF Rising
  <2>2. CASE j \in DOMAIN a /\ k \notin DOMAIN a
    BY <1>1, <1>3, <2>2
  <2>3. CASE j \notin DOMAIN a
    <3>1. k \notin DOMAIN a /\ j - Len(a) < k - Len(a)
      BY <1>1, <2>3
    <3> QED BY <1>1, <1>3, <2>3, <3>1 DEF Rising
  <2> QED BY <2>1, <2>2, <2>3
<1> QED BY <1>2, <1>3 DEF ab

LEMMA JoinNone == ASSUME NEW S, NEW a \in Seq(S) PROVE a \o <<>> = a /\ <<>> \o a = a
OBVIOUS

LEMMA JoinThree ==
  ASSUME NEW a \in Seq(Nat), NEW b \in Seq(Nat), NEW c \in Seq(Nat)
  PROVE  a \o (b \o c) = (a \o b) \o c
OBVIOUS

-----------------------------------------------------------------------------
(***************************************************************************)
(* What a step of the client does to each channel.                         *)
(***************************************************************************)
Kept(t) ==
  /\ at'[t] = at[t] /\ using'[t] = using[t] /\ token'[t] = token[t] /\ past'[t] = past[t]
  /\ using[t] # None => exch'[using[t]] = exch[using[t]] /\ read'[using[t]] = read[using[t]]

Begins(t) ==
  /\ using[t] = None /\ past'[t] = past[t] /\ token'[t] = token[t]
  /\ using'[t] \in Slots(t) /\ read'[using'[t]] = <<>>
  /\ \/ /\ at[t] = "idle" /\ at'[t] = "posting" /\ t \in Posts
        /\ exch'[using'[t]] = [at |-> "asked", method |-> "POST", stream |-> t, after |-> None]
     \/ /\ at[t] = "idle" /\ at'[t] = "opening" /\ t = Standalone
        /\ exch'[using'[t]] = [at |-> "asked", method |-> "GET", stream |-> Standalone, after |-> None]
     \/ /\ at[t] = "waiting" /\ at'[t] = "reconnecting"
        /\ PromptStore => \A k \in DOMAIN sending : sending[k] > token[t]
        /\ exch'[using'[t]] = [at |-> "asked", method |-> "GET", stream |-> Standalone, after |-> token[t]]

Stops(t) ==
  /\ using'[t] = None /\ past'[t] = Delivered(t)
  /\ at'[t] \in {"waiting", "failed", "gaveUp", "ended", "closed"}
  /\ \/ token'[t] = token[t] /\ at'[t] # "waiting"
     \/ token'[t] = token[t] /\ past'[t] = past[t] /\ at[t] = "reconnecting"
     \/ Reads(t) /\ NeedsReconnect(t) /\ token'[t] = LastEventId(using[t])

Wired == \A c \in Exchanges : wire'[c] <=> \E t \in Channels : using'[t] = c

\* A fetch of channel t for which the exchange c begins as x.
Goes(t, c, x, stage) ==
  /\ exch' = [exch EXCEPT ![c] = x] /\ wire' = [wire EXCEPT ![c] = TRUE] /\ read' = [read EXCEPT ![c] = <<>>]
  /\ at' = [at EXCEPT ![t] = stage] /\ using' = [using EXCEPT ![t] = c] /\ UNCHANGED <<token, past>>

LEMMA AskTurns ==
  ASSUME SessionInv, Holding, NEW t \in Channels, using[t] = None, NEW c \in Free(t), NEW x, NEW stage,
         Goes(t, c, x, stage)
  PROVE  /\ using'[t] = c /\ c \in Slots(t) /\ at'[t] = stage /\ past'[t] = past[t] /\ token'[t] = token[t]
         /\ exch'[c] = x /\ read'[c] = <<>> /\ \A u \in Channels \ {t} : Kept(u)
         /\ Wired
<1>0. ServerTypes /\ ClientTypes
  BY DEF SessionInv
<1>1. c \in Slots(t) /\ c \in Exchanges
  BY FreeIs
<1>2. /\ exch'[c] = x /\ read'[c] = <<>>
      /\ \A d \in Exchanges \ {c} : exch'[d] = exch[d] /\ read'[d] = read[d] /\ wire'[d] = wire[d]
      /\ wire'[c] = TRUE
  BY <1>0, <1>1 DEF Goes, ServerTypes
<1>3. using'[t] = c /\ at'[t] = stage /\ \A u \in Channels \ {t} : using'[u] = using[u] /\ at'[u] = at[u]
  BY <1>0 DEF Goes, ClientTypes
<1>4. \A u \in Channels \ {t} : using[u] # c
  BY <1>1, SlotsApart, Sets DEF Holding
<1>5. \A u \in Channels \ {t} : Kept(u)
  BY <1>0, <1>2, <1>3, <1>4 DEF Goes, Kept, ClientTypes
<1>6. Wired
  BY <1>1, <1>2, <1>3, <1>4, Sets DEF Wired, Holding
<1> QED BY <1>1, <1>2, <1>3, <1>5, <1>6 DEF Goes

LEMMA LeaveTurns ==
  ASSUME SessionInv, Holding, NEW t \in Channels, using[t] # None, Leave(t), FetchFailed(t) \/ StreamEnded(t)
  PROVE  /\ \A u \in Channels \ {t} : Kept(u)
         /\ using'[t] = None
         /\ FetchFailed(t) => /\ past'[t] = past[t] /\ token'[t] = token[t]
                              /\ \/ at'[t] = "failed"
                                 \/ at[t] = "reconnecting" /\ at'[t] \in {"waiting", "gaveUp"}
         /\ StreamEnded(t) => /\ past'[t] = Delivered(t)
                              /\ \/ at'[t] = "ended" /\ token'[t] = token[t]
                                 \/ /\ at'[t] \in {"waiting", "gaveUp"} /\ NeedsReconnect(t)
                                    /\ token'[t] = LastEventId(using[t])
         /\ Wired
<1>0. ServerTypes /\ ClientTypes
  BY DEF SessionInv
<1>1. using[t] \in Exchanges /\ using[t] \in Slots(t)
  BY <1>0 DEF ClientTypes, Holding
<1>2. /\ \A d \in Exchanges \ {using[t]} : exch'[d] = exch[d] /\ read'[d] = read[d] /\ wire'[d] = wire[d]
      /\ wire'[using[t]] = FALSE
  BY <1>0, <1>1 DEF Leave, ServerTypes
<1>3. using'[t] = None /\ \A u \in Channels \ {t} : using'[u] = using[u]
  BY <1>0 DEF Leave, ClientTypes
<1>4. \A u \in Channels \ {t} : using[u] # using[t]
  BY <1>1, SlotsApart, Sets DEF Holding
<1>5. \A u \in Channels \ {t} : at'[u] = at[u] /\ token'[u] = token[u] /\ past'[u] = past[u]
  BY <1>0 DEF FetchFailed, StreamEnded, Schedule, ClientTypes
<1>6. \A u \in Channels \ {t} : Kept(u)
  BY <1>0, <1>2, <1>3, <1>4, <1>5 DEF Kept, ClientTypes
<1>7. Wired
  BY <1>1, <1>2, <1>3, <1>4, Sets DEF Wired, Holding
<1>8. FetchFailed(t) => /\ past'[t] = past[t] /\ token'[t] = token[t]
                        /\ \/ at'[t] = "failed"
                           \/ at[t] = "reconnecting" /\ at'[t] \in {"waiting", "gaveUp"}
  BY <1>0 DEF FetchFailed, Schedule, ClientTypes
<1>9. StreamEnded(t) => /\ past'[t] = Delivered(t)
                        /\ \/ at'[t] = "ended" /\ token'[t] = token[t]
                           \/ /\ at'[t] \in {"waiting", "gaveUp"} /\ NeedsReconnect(t)
                              /\ token'[t] = LastEventId(using[t])
  BY <1>0 DEF StreamEnded, Schedule, ClientTypes
<1> QED BY <1>3, <1>6, <1>7, <1>8, <1>9

LEMMA ClientTurns ==
  ASSUME SessionInv, Holding, ClientNext
  PROVE  Wired /\ \A t \in Channels : Kept(t) \/ Begins(t) \/ Stops(t)
<1>0. ServerTypes /\ ClientTypes
  BY DEF SessionInv
<1>1. ASSUME NEW p \in Posts, Post(p) PROVE Wired /\ \A t \in Channels : Kept(t) \/ Begins(t) \/ Stops(t)
  <2>1. PICK c \in Free(p) : /\ at[p] = "idle" /\ Ask(c, "POST", p, None) /\ at' = [at EXCEPT ![p] = "posting"]
                             /\ using' = [using EXCEPT ![p] = c]
                             /\ UNCHANGED <<token, attempt, past, strayed, aborted, drops>>
    BY <1>1 DEF Post
  <2>2. p \in Channels /\ using[p] = None
    BY <2>1, Sets DEF Holding
  <2> DEFINE x == [at |-> "asked", method |-> "POST", stream |-> p, after |-> None]
  <2>x. Goes(p, c, x, "posting")
    BY <2>1 DEF Goes, Ask
  <2> HIDE DEF x
  <2>3. /\ using'[p] = c /\ c \in Slots(p) /\ at'[p] = "posting" /\ past'[p] = past[p] /\ token'[p] = token[p]
        /\ exch'[c] = x /\ read'[c] = <<>> /\ \A u \in Channels \ {p} : Kept(u)
        /\ Wired
    BY <2>2, <2>x, AskTurns
  <2>4. Begins(p)
    BY <2>1, <2>2, <2>3 DEF Begins, x
  <2> QED BY <2>3, <2>4
<1>2. ASSUME OpenStandalone PROVE Wired /\ \A t \in Channels : Kept(t) \/ Begins(t) \/ Stops(t)
  <2> DEFINE p == Standalone
  <2>1. PICK c \in Free(p) : /\ at[p] = "idle" /\ Ask(c, "GET", p, None) /\ at' = [at EXCEPT ![p] = "opening"]
                             /\ using' = [using EXCEPT ![p] = c]
                             /\ UNCHANGED <<token, attempt, past, strayed, aborted, drops>>
    BY <1>2 DEF OpenStandalone
  <2>2. p \in Channels /\ using[p] = None
    BY <2>1, Sets DEF Holding
  <2> DEFINE x == [at |-> "asked", method |-> "GET", stream |-> Standalone, after |-> None]
  <2>x. Goes(p, c, x, "opening")
    BY <2>1 DEF Goes, Ask
  <2> HIDE DEF x
  <2>3. /\ using'[p] = c /\ c \in Slots(p) /\ at'[p] = "opening" /\ past'[p] = past[p] /\ token'[p] = token[p]
        /\ exch'[c] = x /\ read'[c] = <<>> /\ \A u \in Channels \ {p} : Kept(u)
        /\ Wired
    BY <2>2, <2>x, AskTurns
  <2>4. Begins(p)
    BY <2>1, <2>2, <2>3 DEF Begins, x
  <2> QED BY <2>3, <2>4
<1>3. ASSUME NEW s \in Channels, Reconnect(s) PROVE Wired /\ \A t \in Channels : Kept(t) \/ Begins(t) \/ Stops(t)
  <2>1. PICK c \in Free(s) : /\ at[s] = "waiting" /\ Ask(c, "GET", Standalone, token[s])
                             /\ PromptStore => \A k \in DOMAIN sending : sending[k] > token[s]
                             /\ at' = [at EXCEPT ![s] = "reconnecting"]
                             /\ using' = [using EXCEPT ![s] = c]
                             /\ UNCHANGED <<token, attempt, past, aborted, drops>>
    BY <1>3 DEF Reconnect
  <2>2. using[s] = None
    BY <2>1, Sets DEF Holding
  <2> DEFINE x == [at |-> "asked", method |-> "GET", stream |-> Standalone, after |-> token[s]]
  <2>x. Goes(s, c, x, "reconnecting")
    BY <2>1 DEF Goes, Ask
  <2> HIDE DEF x
  <2>3. /\ using'[s] = c /\ c \in Slots(s) /\ at'[s] = "reconnecting" /\ past'[s] = past[s] /\ token'[s] = token[s]
        /\ exch'[c] = x /\ read'[c] = <<>> /\ \A u \in Channels \ {s} : Kept(u)
        /\ Wired
    BY <2>2, <2>x, AskTurns
  <2>4. Begins(s)
    BY <2>1, <2>2, <2>3 DEF Begins, x
  <2> QED BY <2>3, <2>4
<1>4. ASSUME NEW s \in Channels, Ends(s) \/ Drop(s)
      PROVE  Wired /\ \A t \in Channels : Kept(t) \/ Begins(t) \/ Stops(t)
  <2>1. /\ using[s] # None /\ Leave(s)
        /\ (FetchFailed(s) /\ ~Reads(s)) \/ (StreamEnded(s) /\ Reads(s))
    BY <1>4 DEF Ends, Drop, Reads
  <2>2. Wired /\ using'[s] = None /\ \A u \in Channels \ {s} : Kept(u)
    BY <2>1, LeaveTurns
  <2>3. CASE FetchFailed(s) /\ ~Reads(s)
    <3>1. /\ past'[s] = past[s] /\ token'[s] = token[s]
          /\ at'[s] = "failed" \/ (at[s] = "reconnecting" /\ at'[s] \in {"waiting", "gaveUp"})
      BY <2>1, <2>3, LeaveTurns
    <3>2. Delivered(s) = past[s]
      BY <2>3 DEF Delivered
    <3>3. Stops(s)
      BY <2>2, <3>1, <3>2 DEF Stops
    <3> QED BY <2>2, <3>3
  <2>4. CASE StreamEnded(s) /\ Reads(s)
    <3>1. /\ past'[s] = Delivered(s)
          /\ \/ at'[s] = "ended" /\ token'[s] = token[s]
             \/ at'[s] \in {"waiting", "gaveUp"} /\ NeedsReconnect(s) /\ token'[s] = LastEventId(using[s])
      BY <2>1, <2>4, LeaveTurns
    <3>2. Stops(s)
      BY <2>2, <2>4, <3>1 DEF Stops
    <3> QED BY <2>2, <3>2
  <2> QED BY <2>1, <2>3, <2>4
<1>5. ASSUME ClientClose PROVE Wired /\ \A t \in Channels : Kept(t) \/ Begins(t) \/ Stops(t)
  <2>1. \A t \in Channels : /\ using'[t] = None /\ past'[t] = Delivered(t) /\ token'[t] = token[t]
                            /\ at'[t] \in {"failed", "gaveUp", "ended", "closed"}
    BY <1>5 DEF ClientClose
  <2>2. \A c \in Exchanges : wire'[c] = FALSE
    BY <1>5 DEF ClientClose
  <2>3. Wired
    BY <2>1, <2>2, Sets DEF Wired
  <2>4. \A t \in Channels : Stops(t)
    BY <2>1 DEF Stops
  <2> QED BY <2>3, <2>4
<1> QED BY <1>1, <1>2, <1>3, <1>4, <1>5 DEF ClientNext, ClientStep

-----------------------------------------------------------------------------
(***************************************************************************)
(* What a channel has read.                                                *)
(***************************************************************************)
LEMMA BeforeJoin ==
  ASSUME NEW a \in Seq(Nat), NEW b \in Seq(Nat), NEW i
  PROVE  Before(a \o b, i) <=> Before(a, i) /\ Before(b, i)
<1> DEFINE ab == a \o b
<1>1. /\ Len(a) \in Nat
      /\ \A k \in DOMAIN a : k \in DOMAIN ab /\ ab[k] = a[k]
      /\ \A k \in DOMAIN b : Len(a) + k \in DOMAIN ab /\ ab[Len(a) + k] = b[k]
      /\ \A k \in DOMAIN ab : k \in DOMAIN a \/ (k - Len(a) \in DOMAIN b /\ ab[k] = b[k - Len(a)])
  BY JoinIs
<1> HIDE DEF ab
<1>2. Before(ab, i) <=> Before(a, i) /\ Before(b, i)
  BY <1>1 DEF Before
<1> QED BY <1>2 DEF ab

LEMMA FitsJoin ==
  ASSUME NEW a \in Seq(Nat), NEW b \in Seq(Nat), NEW s, NEW all
  PROVE  Fits(a \o b, s, all) <=>
           Fits(a, s, all) /\ Fits(b, s, all) /\ \A k \in DOMAIN b : Before(a, b[k])
<1> DEFINE ab == a \o b
<1>1. /\ Len(a) \in Nat
      /\ \A k \in DOMAIN a : k \in DOMAIN ab /\ ab[k] = a[k]
      /\ \A k \in DOMAIN b : Len(a) + k \in DOMAIN ab /\ ab[Len(a) + k] = b[k]
      /\ \A k \in DOMAIN ab : k \in DOMAIN a \/ (k - Len(a) \in DOMAIN b /\ ab[k] = b[k - Len(a)])
  BY JoinIs
<1>2. Rising(ab) <=> Rising(a) /\ Rising(b) /\ \A j \in DOMAIN a, k \in DOMAIN b : a[j] < b[k]
  BY RisingJoin
<1> HIDE DEF ab
<1>3. (\A k \in DOMAIN ab : all[ab[k]].stream \in {s, Standalone}) <=>
        /\ \A k \in DOMAIN a : all[a[k]].stream \in {s, Standalone}
        /\ \A k \in DOMAIN b : all[b[k]].stream \in {s, Standalone}
  <2>1. ASSUME \A k \in DOMAIN ab : all[ab[k]].stream \in {s, Standalone}
        PROVE  /\ \A k \in DOMAIN a : all[a[k]].stream \in {s, Standalone}
               /\ \A k \in DOMAIN b : all[b[k]].stream \in {s, Standalone}
    BY <1>1, <2>1
  <2>2. ASSUME \A k \in DOMAIN a : all[a[k]].stream \in {s, Standalone},
               \A k \in DOMAIN b : all[b[k]].stream \in {s, Standalone}
        PROVE  \A k \in DOMAIN ab : all[ab[k]].stream \in {s, Standalone}
    BY <1>1, <2>2
  <2> QED BY <2>1, <2>2
<1>4. Fits(ab, s, all) <=> Fits(a, s, all) /\ Fits(b, s, all) /\ \A k \in DOMAIN b : Before(a, b[k])
  BY <1>2, <1>3 DEF Fits, Before
<1> QED BY <1>4 DEF ab

LEMMA FitsNone == ASSUME NEW s, NEW all, NEW i PROVE Fits(<<>>, s, all) /\ Before(<<>>, i)
BY DEF Fits, Rising, Before

LEMMA FitsOne ==
  ASSUME NEW s, NEW all, NEW i \in Nat, all[i].stream \in {s, Standalone}
  PROVE  Fits(<<i>>, s, all) /\ <<i>> \in Seq(Nat) /\ DOMAIN <<i>> = {1} /\ <<i>>[1] = i
BY DEF Fits, Rising

LEMMA LastRises ==
  ASSUME NEW ms \in Seq(Nat), ms # <<>>, Rising(ms)
  PROVE  /\ Len(ms) \in DOMAIN ms /\ ms[Len(ms)] \in Nat
         /\ \A k \in DOMAIN ms : ms[k] <= ms[Len(ms)]
         /\ \A i \in Nat : ms[Len(ms)] < i => Before(ms, i)
<1>1. /\ Len(ms) \in DOMAIN ms /\ \A k \in DOMAIN ms : ms[k] \in Nat /\ (k = Len(ms) \/ k < Len(ms))
  OBVIOUS
<1>2. \A k \in DOMAIN ms : ms[k] <= ms[Len(ms)]
  BY <1>1 DEF Rising
<1>3. ASSUME NEW i \in Nat, ms[Len(ms)] < i PROVE Before(ms, i)
  BY <1>1, <1>2, <1>3 DEF Before
<1> QED BY <1>1, <1>2, <1>3

LEMMA LastJoin ==
  ASSUME NEW a \in Seq(Nat), NEW b \in Seq(Nat), b # <<>>
  PROVE  a \o b # <<>> /\ (a \o b)[Len(a \o b)] = b[Len(b)]
OBVIOUS

LEMMA PlacesAre ==
  ASSUME ServerTypes, ClientTypes
  PROVE  /\ DOMAIN log \subseteq Nat /\ None \notin DOMAIN log
         /\ \A s \in Channels : /\ past[s] \in Seq(Nat) /\ past[s] \in Seq(DOMAIN log)
                                /\ using[s] = None \/ using[s] \in Exchanges
                                /\ token[s] \in Nat
         /\ \A c \in Exchanges : read[c] \in Seq(Nat) /\ read[c] \in Seq(DOMAIN log)
         /\ \A k \in DOMAIN sending : sending[k] \in DOMAIN log
<1>1. DOMAIN log \subseteq Nat /\ 0 \notin DOMAIN log
  BY DEF ServerTypes
<1>2. ASSUME NEW ms \in Seq(DOMAIN log) PROVE ms \in Seq(Nat)
  BY <1>1
<1>3. sending \in Seq(DOMAIN log)
  BY DEF ServerTypes
<1>4. \A s \in Channels : past[s] \in Seq(DOMAIN log) /\ (using[s] = None \/ using[s] \in Exchanges) /\ token[s] \in {None} \cup DOMAIN log
  BY DEF ClientTypes
<1>5. \A c \in Exchanges : read[c] \in Seq(DOMAIN log)
  BY DEF ServerTypes
<1> QED BY <1>1, <1>2, <1>3, <1>4, <1>5, Sets

\* What is delivered is all that was read but for a replay not answered yet.
LEMMA FullIs ==
  ASSUME ServerTypes, ClientTypes, NEW s \in Channels
  PROVE  /\ using[s] = None => Full(s) = past[s] /\ Delivered(s) = past[s]
         /\ using[s] # None => Full(s) = past[s] \o read[using[s]]
         /\ Delivered(s) = past[s] \/ (using[s] # None /\ Delivered(s) = Full(s))
         /\ InTurn /\ Streamed(s) => Fits(past[s], s, log) /\ Fits(Delivered(s), s, log)
         /\ InTurn /\ Streamed(s) /\ using[s] # None =>
              /\ Fits(read[using[s]], s, log)
              /\ \A k \in DOMAIN read[using[s]] : Before(past[s], read[using[s]][k])
<1>1. past[s] \in Seq(Nat) /\ (using[s] # None => read[using[s]] \in Seq(Nat))
  BY PlacesAre
<1>2. /\ using[s] = None => Full(s) = past[s] /\ Delivered(s) = past[s]
      /\ using[s] # None => Full(s) = past[s] \o read[using[s]]
      /\ Delivered(s) = past[s] \/ (using[s] # None /\ Delivered(s) = Full(s))
  BY DEF Full, Delivered, Reads
<1>3. ASSUME InTurn, Streamed(s), using[s] # None
      PROVE  /\ Fits(past[s], s, log) /\ Fits(read[using[s]], s, log)
             /\ \A k \in DOMAIN read[using[s]] : Before(past[s], read[using[s]][k])
  <2>1. Fits(past[s] \o read[using[s]], s, log)
    BY <1>2, <1>3 DEF InTurn
  <2> QED BY <1>1, <1>3, <2>1, FitsJoin
<1>4. InTurn /\ Streamed(s) => Fits(past[s], s, log) /\ Fits(Full(s), s, log)
  BY <1>2, <1>3 DEF InTurn
<1> QED BY <1>2, <1>3, <1>4

-----------------------------------------------------------------------------
(***************************************************************************)
(* Steps of the client.                                                    *)
(***************************************************************************)
\* A client step delivers nothing; it keeps what was delivered.
LEMMA ClientDelivers ==
  ASSUME SessionInv, Holding, ClientNext, NEW s \in Channels
  PROVE  /\ Delivered(s)' = Delivered(s)
         /\ Kept(s) => Full(s)' = Full(s)
         /\ Begins(s) => Full(s)' = past[s] /\ Full(s) = past[s]
         /\ Stops(s) => Full(s)' = Delivered(s)
<1>1. Kept(s) \/ Begins(s) \/ Stops(s)
  BY ClientTurns
<1>t. ServerTypes' /\ ClientTypes' /\ ServerTypes /\ ClientTypes
  BY ClientTypeStep DEF SessionInv
<1>p. past[s] \in Seq(DOMAIN log)
  BY <1>t DEF ClientTypes
<1>2. CASE Kept(s)
  BY <1>2 DEF Kept, Begins, Stops, Full, Delivered, Reads
<1>3. CASE Begins(s)
  <2>1. using'[s] # None /\ exch'[using'[s]].at = "asked" /\ read'[using'[s]] = <<>> /\ past'[s] = past[s] /\ using[s] = None
    BY <1>3, SlotsApart, Sets DEF Begins
  <2>2. Delivered(s)' = past[s] /\ Delivered(s) = past[s]
    BY <2>1 DEF Delivered, Reads
  <2>3. Full(s)' = past[s] \o <<>> /\ Full(s) = past[s]
    BY <2>1 DEF Full
  <2>4. past[s] \o <<>> = past[s]
    BY <1>p, JoinNone
  <2>5. ~Kept(s) /\ ~Stops(s)
    BY <2>1 DEF Kept, Stops
  <2> QED BY <2>2, <2>3, <2>4, <2>5
<1>4. CASE Stops(s)
  <2>1. Delivered(s)' = past'[s] /\ Full(s)' = past'[s]
    BY <1>4 DEF Stops, Delivered, Reads, Full
  <2>2. past'[s] = Delivered(s) /\ ~Begins(s)
    BY <1>4, SlotsApart, Sets DEF Stops, Begins
  <2>3. CASE Kept(s)
    BY <1>2, <2>3, <2>1, <2>2
  <2> QED BY <2>1, <2>2, <2>3
<1> QED BY <1>1, <1>2, <1>3, <1>4

LEMMA ClientHolding ==
  ASSUME SessionInv, Holding, ClientNext PROVE Holding'
<1>1. Wired /\ \A t \in Channels : Kept(t) \/ Begins(t) \/ Stops(t)
  BY ClientTurns
<1>2. ASSUME NEW s \in Channels
      PROVE  /\ using'[s] # None <=> at'[s] \in {"posting", "opening", "reconnecting"}
             /\ using'[s] # None => using'[s] \in Slots(s)
  <2>1. CASE Kept(s)
    BY <2>1 DEF Kept, Holding
  <2>2. CASE Begins(s)
    <3>1. using'[s] \in Slots(s) /\ using'[s] # None
      BY <2>2, SlotsApart, Sets DEF Begins
    <3> QED BY <2>2, <3>1 DEF Begins
  <2>3. CASE Stops(s)
    BY <2>3 DEF Stops
  <2> QED BY <1>1, <2>1, <2>2, <2>3
<1> QED BY <1>1, <1>2 DEF Holding, Wired

LEMMA ClientInTurn ==
  ASSUME SessionInv, Holding, InTurn, ClientNext PROVE InTurn'
<1>1. \A t \in Channels : Kept(t) \/ Begins(t) \/ Stops(t)
  BY ClientTurns
<1>2. log' = log /\ setting' = setting
  BY ClientTypeStep DEF server
<1>3. ASSUME NEW s \in Channels, Streamed(s) PROVE Fits(Full(s)', s, log')
  <2>1. Fits(Delivered(s), s, log) /\ Fits(Full(s), s, log)
    BY <1>3, FullIs DEF SessionInv, InTurn
  <2>2. Full(s)' = Full(s) \/ Full(s)' = Delivered(s)
    BY <1>1, ClientDelivers
  <2> QED BY <1>2, <2>1, <2>2
<1>4. \A s : Streamed(s)' <=> Streamed(s)
  BY <1>2 DEF Streamed
<1> QED BY <1>3, <1>4 DEF InTurn

\* A POST in JSON mode ends with its body, or without one.
LEMMA ClientBodies ==
  ASSUME SessionInv, Holding, Asking, Bodies, ClientNext PROVE Bodies'
<1>0. ServerTypes /\ ClientTypes
  BY DEF SessionInv
<1>1. \A t \in Channels : Kept(t) \/ Begins(t) \/ Stops(t)
  BY ClientTurns
<1>2. log' = log /\ setting' = setting
  BY ClientTypeStep DEF server
<1> SUFFICES ASSUME NEW p \in Posts, ~Streamed(p)
             PROVE  /\ at'[p] \notin {"opening", "waiting", "reconnecting"}
                    /\ using'[p] # None => \/ exch'[using'[p]].at \in {"over", "refused"}
                                           \/ exch'[using'[p]].method = "POST"
                    /\ Replies(Full(p)', p, log)
  BY <1>2 DEF Bodies, Streamed
<1>3. p \in Channels /\ p # Standalone
  BY Sets
<1>4. /\ at[p] \notin {"opening", "waiting", "reconnecting"} /\ Replies(Full(p), p, log)
      /\ using[p] # None => exch[using[p]].at \in {"over", "refused"} \/ exch[using[p]].method = "POST"
  BY DEF Bodies
<1>5. CASE Kept(p)
  <2>1. Full(p)' = Full(p)
    BY <1>3, <1>5, ClientDelivers
  <2> QED BY <1>4, <1>5, <2>1 DEF Kept
<1>6. CASE Begins(p)
  <2>1. Full(p)' = Full(p)
    BY <1>3, <1>6, ClientDelivers
  <2> QED BY <1>3, <1>4, <1>6, <2>1 DEF Begins
<1>7. CASE Stops(p)
  <2>1. Full(p)' = Delivered(p) /\ using'[p] = None
    BY <1>3, <1>7, ClientDelivers DEF Stops
  <2>2. Delivered(p) = Full(p) \/ Delivered(p) = <<>>
    <3>1. using[p] # None => past[p] = <<>>
      BY <1>3, <1>4 DEF Holding, Asking
    <3> QED BY <1>0, <1>3, <3>1, FullIs
  <2>3. Replies(Full(p)', p, log)
    BY <1>4, <2>1, <2>2 DEF Replies
  <2>4. at'[p] # "waiting"
    <3>1. ASSUME Reads(p), NeedsReconnect(p) PROVE FALSE
      <4>1. at[p] = "posting" /\ using[p] # None /\ using[p] \in Exchanges
        BY <1>0, <1>3, <1>4, <3>1 DEF Reads, Holding, ClientTypes
      <4> DEFINE ms == read[using[p]]
      <4>2. ms # <<>> /\ ms \in Seq(DOMAIN log) /\ past[p] = <<>>
        BY <1>0, <1>3, <3>1, <4>1 DEF NeedsReconnect, LastEventId, ServerTypes, Asking
      <4>3. Full(p) = ms
        BY <1>0, <4>1, <4>2, JoinNone DEF Full
      <4>4. 1 \in DOMAIN ms
        BY <4>2
      <4>5. log[ms[1]].what = "response"
        BY <1>4, <4>3, <4>4 DEF Replies
      <4> QED BY <3>1, <4>4, <4>5 DEF NeedsReconnect, IsResponse
    <3> QED BY <1>4, <1>7, <3>1 DEF Stops
  <2> QED BY <1>7, <2>1, <2>3, <2>4 DEF Stops
<1> QED BY <1>1, <1>3, <1>5, <1>6, <1>7

\* What a channel resumes after is the last event it read.
LEMMA ResumesIn ==
  ASSUME SessionInv, InTurn, Bodies, Asking, NEW s \in Channels, at[s] \in {"waiting", "reconnecting"},
         token[s] # None
  PROVE  /\ token[s] \in DOMAIN log /\ log[token[s]].stream \in {s, Standalone}
         /\ \A i \in Nat : token[s] < i => Before(past[s], i)
<1>1. past[s] # <<>> /\ token[s] = past[s][Len(past[s])]
  BY DEF Asking
<1>2. past[s] \in Seq(Nat) /\ Fits(past[s], s, log)
  <2>1. Streamed(s)
    BY DEF Bodies, Streamed
  <2> QED BY <2>1, PlacesAre, FullIs DEF SessionInv
<1>3. Len(past[s]) \in DOMAIN past[s] /\ \A i \in Nat : token[s] < i => Before(past[s], i)
  BY <1>1, <1>2, LastRises DEF Fits
<1>4. token[s] \in DOMAIN log
  BY DEF SessionInv, ClientTypes
<1> QED BY <1>1, <1>2, <1>3, <1>4 DEF Fits

\* The token a channel takes with it when a stream ends.
LEMMA TokenIs ==
  ASSUME SessionInv, Holding, ClientNext, NEW s \in Channels, Stops(s),
         Reads(s), NeedsReconnect(s), token'[s] = LastEventId(using[s])
  PROVE  /\ token'[s] = None => past'[s] = past[s] \/ sending = <<>>
         /\ token'[s] # None =>
              /\ past'[s] # <<>> /\ token'[s] = past'[s][Len(past'[s])]
              /\ token'[s] \in DOMAIN log /\ ~IsResponse(token'[s])
<1>1. past[s] \in Seq(Nat) /\ using[s] \in Exchanges /\ past'[s] = past[s] \o read[using[s]]
  BY PlacesAre DEF SessionInv, Reads, Stops, Delivered
<1>2. read[using[s]] \in Seq(Nat) /\ read[using[s]] \in Seq(DOMAIN log)
  BY <1>1, PlacesAre DEF SessionInv
<1> DEFINE ms == read[using[s]]
<1>3. ms # <<>> => Len(ms) \in DOMAIN ms /\ ms[Len(ms)] \in DOMAIN log
  BY <1>2
<1>4. CASE token'[s] = None
  <2>1. CASE ~setting.store
    BY <2>1, <1>4 DEF SessionInv, Queue
  <2>2. CASE setting.store
    <3>1. ms = <<>>
      <4>1. ms # <<>> => token'[s] = ms[Len(ms)]
        BY <2>2 DEF LastEventId
      <4>2. None \notin DOMAIN log
        BY PlacesAre DEF SessionInv
      <4> QED BY <1>3, <1>4, <4>1, <4>2
    <3> QED BY <1>1, <1>4, <3>1, JoinNone
  <2> QED BY <2>1, <2>2
<1>5. CASE token'[s] # None
  <2>1. ms # <<>> /\ token'[s] = ms[Len(ms)]
    BY <1>5 DEF LastEventId
  <2>2. past'[s] # <<>> /\ past'[s][Len(past'[s])] = ms[Len(ms)]
    <3> HIDE DEF ms
    <3>1. past'[s] = past[s] \o ms /\ ms \in Seq(Nat)
      BY <1>1, <1>2 DEF ms
    <3> QED BY <1>1, <2>1, <3>1, LastJoin
  <2>3. ~IsResponse(ms[Len(ms)])
    BY <1>3, <2>1 DEF NeedsReconnect
  <2> QED BY <1>3, <1>5, <2>1, <2>2, <2>3
<1> QED BY <1>4, <1>5

LEMMA ClientAsking ==
  ASSUME SessionInv, Holding, InTurn, Bodies, Asking, ClientNext PROVE Asking'
<1>1. \A t \in Channels : Kept(t) \/ Begins(t) \/ Stops(t)
  BY ClientTurns
<1>2. log' = log
  BY ClientTypeStep DEF server
<1>3. ASSUME NEW s \in Channels, NEW c \in Exchanges, using'[s] = c
      PROVE  /\ exch'[c].at # "over" => OnStream(c)' \in {s, Standalone}
             /\ exch'[c].method = "POST" => at'[s] = "posting"
             /\ exch'[c].after # None => at'[s] = "reconnecting" /\ exch'[c].after = token'[s]
             /\ exch'[c].at \in Unread => read'[c] = <<>>
  <2>1. CASE Kept(s)
    <3>1. using[s] = c /\ exch'[c] = exch[c] /\ read'[c] = read[c] /\ at'[s] = at[s] /\ token'[s] = token[s]
      BY <1>3, <2>1, Sets DEF Kept
    <3>2. OnStream(c)' = OnStream(c)
      BY <1>2, <3>1 DEF OnStream
    <3> QED BY <3>1, <3>2 DEF Asking
  <2>2. CASE Begins(s)
    <3>1. read'[c] = <<>> /\ token'[s] = token[s]
      BY <1>3, <2>2 DEF Begins
    <3>2. CASE exch'[c] = [at |-> "asked", method |-> "POST", stream |-> s, after |-> None] /\ at'[s] = "posting"
      BY <3>1, <3>2 DEF OnStream
    <3>3. CASE exch'[c] = [at |-> "asked", method |-> "GET", stream |-> Standalone, after |-> None]
      BY <3>1, <3>3 DEF OnStream
    <3>4. CASE /\ at[s] = "waiting" /\ at'[s] = "reconnecting"
               /\ exch'[c] = [at |-> "asked", method |-> "GET", stream |-> Standalone, after |-> token[s]]
      <4>1. OnStream(c)' = IF token[s] # None THEN log[token[s]].stream ELSE Standalone
        BY <1>2, <3>4 DEF OnStream
      <4>2. OnStream(c)' \in {s, Standalone}
        BY <3>4, <4>1, ResumesIn
      <4> QED BY <3>1, <3>4, <4>2
    <3> QED BY <1>3, <2>2, <3>2, <3>3, <3>4 DEF Begins
  <2>3. CASE Stops(s)
    BY <1>3, <2>3, Sets DEF Stops
  <2> QED BY <1>1, <2>1, <2>2, <2>3
<1>4. ASSUME NEW s \in Channels
      PROVE  /\ at'[s] \in {"idle", "posting", "opening"} => past'[s] = <<>>
             /\ at'[s] \in {"waiting", "reconnecting"} /\ token'[s] # None =>
                  past'[s] # <<>> /\ token'[s] = past'[s][Len(past'[s])]
  <2>1. CASE Kept(s)
    BY <2>1 DEF Kept, Asking
  <2>2. CASE Begins(s)
    BY <2>2 DEF Begins, Asking
  <2>3. CASE Stops(s)
    <3>1. at'[s] = "waiting" \/ at'[s] \notin {"idle", "posting", "opening", "waiting", "reconnecting"}
      BY <2>3 DEF Stops
    <3>2. CASE at'[s] = "waiting" /\ Reads(s) /\ NeedsReconnect(s) /\ token'[s] = LastEventId(using[s])
      BY <2>3, <3>2, TokenIs
    <3>3. CASE token'[s] = token[s] /\ past'[s] = past[s] /\ at[s] = "reconnecting"
      BY <3>1, <3>3 DEF Asking
    <3> QED BY <2>3, <3>1, <3>2, <3>3 DEF Stops
  <2> QED BY <1>1, <2>1, <2>2, <2>3
<1>5. \A s \in Channels, c \in Exchanges : using'[s] = c =>
        /\ exch'[c].at # "over" => OnStream(c)' \in {s, Standalone}
        /\ exch'[c].method = "POST" => at'[s] = "posting"
        /\ exch'[c].after # None => at'[s] = "reconnecting" /\ exch'[c].after = token'[s]
        /\ exch'[c].at \in Unread => read'[c] = <<>>
  BY <1>3
<1>6. \A s \in Channels :
        /\ at'[s] \in {"idle", "posting", "opening"} => past'[s] = <<>>
        /\ at'[s] \in {"waiting", "reconnecting"} /\ token'[s] # None =>
             past'[s] # <<>> /\ token'[s] = past'[s][Len(past'[s])]
  BY <1>4
<1> QED BY <1>5, <1>6 DEF Asking, Unread

LEMMA ClientJsonMode ==
  ASSUME SessionInv, Holding, JsonMode, ClientNext PROVE JsonMode'
<1>1. \A t \in Channels : Kept(t) \/ Begins(t) \/ Stops(t)
  BY ClientTurns
<1>2. log' = log /\ setting' = setting /\ sending' = sending /\ ClientMoves
  BY ClientTypeStep, ClientMovesStep DEF server
<1> SUFFICES ASSUME setting.json
             PROVE  /\ \A c \in Exchanges :
                         /\ exch'[c].at # "priming"
                         /\ exch'[c].at = "open" => exch'[c].method = "GET"
                         /\ exch'[c].after # None => log[exch'[c].after].stream = Standalone
                    /\ \A s \in Channels : token'[s] # None => log[token'[s]].stream = Standalone
  BY <1>2 DEF JsonMode
<1>3. ASSUME NEW c \in Exchanges
      PROVE  /\ exch'[c].at # "priming"
             /\ exch'[c].at = "open" => exch'[c].method = "GET"
             /\ exch'[c].after # None => log[exch'[c].after].stream = Standalone
  <2>1. CASE exch'[c] = exch[c]
    BY <2>1 DEF JsonMode
  <2>2. CASE Through(c)
    BY <2>2 DEF Through
  <2>3. ASSUME NEW after \in {None} \cup {token[s] : s \in Channels},
               exch'[c] = [at |-> "asked", method |-> "GET", stream |-> Standalone, after |-> after]
        PROVE  /\ exch'[c].at = "asked" /\ exch'[c].after # None => log[exch'[c].after].stream = Standalone
    BY <2>3 DEF JsonMode
  <2>4. ASSUME NEW p \in Posts,
               exch'[c] = [at |-> "asked", method |-> "POST", stream |-> p, after |-> None]
        PROVE  exch'[c].at = "asked" /\ exch'[c].after = None
    BY <2>4
  <2>5. CASE Asked(c)
    <3>1. CASE \E after \in {None} \cup {token[s] : s \in Channels} :
                 exch'[c] = [at |-> "asked", method |-> "GET", stream |-> Standalone, after |-> after]
      BY <2>3, <3>1
    <3>2. CASE \E p \in Posts : exch'[c] = [at |-> "asked", method |-> "POST", stream |-> p, after |-> None]
      BY <2>4, <3>2
    <3> QED BY <2>5, <3>1, <3>2 DEF Asked
  <2> QED BY <1>2, <2>1, <2>2, <2>5 DEF ClientMoves
<1>4. ASSUME NEW s \in Channels, token'[s] # None PROVE log[token'[s]].stream = Standalone
  <2>1. CASE token'[s] = token[s]
    BY <1>4, <2>1 DEF JsonMode
  <2>2. CASE Stops(s) /\ Reads(s) /\ NeedsReconnect(s) /\ token'[s] = LastEventId(using[s])
    <3>1. token'[s] \in DOMAIN log /\ ~IsResponse(token'[s])
      BY <1>4, <2>2, TokenIs
    <3>2. \A i \in DOMAIN log : log[i].stream # Standalone => IsResponse(i)
      BY DEF SessionInv, LogShape
    <3> QED BY <3>1, <3>2
  <2> QED BY <1>1, <2>1, <2>2 DEF Kept, Begins, Stops
<1> QED BY <1>3, <1>4

LEMMA ClientBehind ==
  ASSUME PromptStore, SessionInv, Holding, InTurn, Bodies, Asking, Behind, ClientNext PROVE Behind'
<1>1. \A t \in Channels : Kept(t) \/ Begins(t) \/ Stops(t)
  BY ClientTurns
<1>2. sending' = sending
  BY ClientTypeStep DEF server
<1> SUFFICES ASSUME NEW s \in Channels, NEW k \in DOMAIN sending,
                    using'[s] # None \/ (at'[s] = "waiting" /\ token'[s] = None)
             PROVE  Before(past'[s], sending[k])
  BY <1>2 DEF Behind
<1>3. sending[k] \in Nat
  BY PlacesAre DEF SessionInv
<1>4. CASE Kept(s)
  BY <1>4 DEF Kept, Behind
<1>5. CASE Begins(s)
  <2>1. CASE at[s] = "idle"
    BY <1>5, <2>1, FitsNone DEF Begins, Asking
  <2>2. CASE at[s] = "waiting" /\ token[s] = None
    BY <1>5, <2>2 DEF Begins, Behind
  <2>3. CASE at[s] = "waiting" /\ token[s] # None
    <3>1. sending[k] > token[s] /\ past'[s] = past[s]
      BY <1>5, <2>3 DEF Begins
    <3>2. token[s] \in Nat
      BY PlacesAre DEF SessionInv
    <3> QED BY <1>3, <2>3, <3>1, <3>2, ResumesIn
  <2> QED BY <1>5, <2>1, <2>2, <2>3 DEF Begins
<1>6. CASE Stops(s)
  <2>1. at'[s] = "waiting" /\ token'[s] = None
    BY <1>6 DEF Stops
  <2>2. CASE token'[s] = token[s] /\ past'[s] = past[s] /\ at[s] = "reconnecting"
    BY <2>2 DEF Holding, Behind
  <2>3. CASE Reads(s) /\ NeedsReconnect(s) /\ token'[s] = LastEventId(using[s])
    <3>1. using[s] # None /\ past'[s] = past[s]
      <4>1. past'[s] = past[s] \/ sending = <<>>
        BY <1>6, <2>1, <2>3, TokenIs
      <4> QED BY <2>3, <4>1 DEF Reads
    <3> QED BY <3>1 DEF Behind
  <2> QED BY <1>6, <2>1, <2>2, <2>3 DEF Stops
<1> QED BY <1>1, <1>4, <1>5, <1>6

LEMMA ClientLive ==
  ASSUME SessionInv, Holding, Live, ClientNext PROVE Live'
<1>1. Wired /\ \A t \in Channels : Kept(t) \/ Begins(t) \/ Stops(t)
  BY ClientTurns
<1>2. sending' = sending /\ log' = log /\ stream' = stream
  BY ClientTypeStep DEF server
<1>3. ASSUME NEW c \in Exchanges, wire'[c]
      PROVE  \/ exch'[c].at = "asked"
             \/ wire[c] /\ exch'[c] = exch[c] /\ read'[c] = read[c]
  <2>1. PICK t \in Channels : using'[t] = c
    BY <1>1, <1>3 DEF Wired
  <2>2. c # None
    BY Sets
  <2>3. CASE Kept(t)
    BY <2>1, <2>2, <2>3 DEF Kept, Holding
  <2>4. CASE Begins(t)
    BY <2>1, <2>4 DEF Begins
  <2>5. CASE Stops(t)
    BY <2>1, <2>2, <2>5 DEF Stops
  <2> QED BY <1>1, <2>3, <2>4, <2>5
<1>4. ASSUME NEW c \in Exchanges, NEW k \in DOMAIN sending, wire'[c], log[sending[k]].stream = OnStream(c)'
      PROVE  /\ exch'[c].at = "replaying" => Before(read'[c], sending[k]) \/ \E j \in DOMAIN read'[c] : read'[c][j] = sending[k]
             /\ exch'[c].at = "open" => Before(read'[c], sending[k]) \/ sending[k] \in stream[OnStream(c)'].replayed
  <2>1. CASE exch'[c].at = "asked"
    BY <2>1
  <2>2. CASE wire[c] /\ exch'[c] = exch[c] /\ read'[c] = read[c]
    <3>1. OnStream(c)' = OnStream(c)
      BY <1>2, <2>2 DEF OnStream
    <3> QED BY <1>4, <2>2, <3>1 DEF Live
  <2> QED BY <1>3, <1>4, <2>1, <2>2
<1> QED BY <1>2, <1>4 DEF Live

LEMMA ClientDelivery ==
  ASSUME PromptStore, SessionInv, DeliveryInv, ClientNext
  PROVE  DeliveryInv' /\ \A s \in Channels : Delivered(s)' = Delivered(s)
BY ClientHolding, ClientInTurn, ClientBodies, ClientAsking, ClientJsonMode, ClientBehind, ClientLive, ClientDelivers
   DEF DeliveryInv

-----------------------------------------------------------------------------
(***************************************************************************)
(* What a step of the server does to an exchange whose wire is up.         *)
(***************************************************************************)
Flowing == {"open", "over"}

Settled(c) ==
  /\ read'[c] = read[c]
  /\ exch[c].at \in Flowing => exch'[c].at \in Flowing
  /\ exch'[c].at = "replaying" => exch[c].at = "replaying"

Primed(c, m) ==
  /\ exch[c].at = "priming" /\ exch'[c].at \in Flowing /\ read'[c] = read[c] \o <<m>>
  /\ m \in DOMAIN log /\ log[m].stream = exch[c].stream /\ \A k \in DOMAIN sending : sending[k] > m
  /\ log' = log /\ sending' = sending

Replays(c) ==
  /\ exch[c].at = "asked" /\ exch[c].after # None /\ exch'[c].at = "replaying"
  /\ read'[c] = EventsAfter(exch[c].after) /\ log' = log /\ sending' = sending

Frame(c, i) ==
  /\ exch[c].at = "open" /\ exch'[c].at \in Flowing /\ read'[c] = read[c] \o <<i>>
  /\ i \in DOMAIN log' /\ log'[i].stream = OnStream(c) /\ i \notin stream[OnStream(c)].replayed
  /\ \/ i = Len(log') /\ log' # log /\ sending = <<>> /\ sending' = <<>>
     \/ sending # <<>> /\ i = Head(sending) /\ sending' = Tail(sending) /\ log' = log

Whole(c) ==
  LET p == OnStream(c) IN
  /\ exch[c].at = "json" /\ exch'[c].at = "over" /\ read'[c] = read[c] \o Body(p)
  /\ Body(p) \in Seq(DOMAIN log') /\ Replies(Body(p), p, log')

ReadStep(c) ==
  Settled(c) \/ (\E m : Primed(c, m)) \/ Replays(c) \/ (\E i : Frame(c, i)) \/ Whole(c)

LEMMA SameSettles == ASSUME NEW c, exch'[c] = exch[c], read'[c] = read[c] PROVE Settled(c)
BY DEF Settled

\* Where an exchange stands after a stage, an answer and an end.
LEMMA GotoIs ==
  ASSUME ServerTypes, NEW c \in Exchanges, NEW stage \in ExchStates, Goto(c, stage)
  PROVE  exch'[c].at = stage /\ \A d \in Exchanges \ {c} : exch'[d] = exch[d]
<1>1. exch[c] \in ExchSet /\ exch'[c] = [exch[c] EXCEPT !.at = stage] /\ \A d \in Exchanges \ {c} : exch'[d] = exch[d]
  BY DEF Goto, ServerTypes
<1> QED BY <1>1, Stage

LEMMA FinishedAt ==
  ASSUME ServerTypes, NEW c \in Exchanges, NEW how \in {"over", "refused"}, Finished(c, how)
  PROVE  exch'[c].at = how /\ \A d \in Exchanges \ {c} : exch'[d] = exch[d]
<1>1. exch'[c] = [at |-> how, method |-> "GET", stream |-> Standalone, after |-> None]
      /\ \A d \in Exchanges \ {c} : exch'[d] = exch[d]
  BY Blank DEF Finished, ServerTypes
<1> QED BY <1>1

LEMMA ClosedAt == ASSUME NEW c, wire[c] PROVE CloseController(c) = Over /\ Over.at = "over"
BY DEF CloseController, Over

LEMMA EndedSettles ==
  ASSUME ServerTypes, NEW S, NEW c \in Exchanges, wire[c], exch'[c] = Ended(S)[c], read'[c] = read[c]
  PROVE  Settled(c)
<1>1. exch'[c] = exch[c] \/ (exch[c].at = "open" /\ exch'[c] = Over /\ Over.at = "over")
  BY Ending, ClosedAt
<1> QED BY <1>1 DEF Settled, Flowing

LEMMA StepReads ==
  ASSUME SessionInv, NEW d \in Exchanges, ServerStep(d), NEW c \in Exchanges, wire[c]
  PROVE  ReadStep(c)
<1>0. ServerTypes /\ Begun /\ Exchanged
  BY DEF SessionInv
<1>x. {"challenged", "json", "priming", "open", "replaying"} \subseteq ExchStates
  BY DEF ExchStates
<1>r. ASSUME Refuse(d), exch[d].at \notin Flowing PROVE Settled(c)
  <2>1. exch'[d].at \in {"over", "refused"} /\ \A e \in Exchanges \ {d} : exch'[e] = exch[e]
    BY <1>0, <1>r, FinishedAt DEF Refuse
  <2>2. read' = read
    BY <1>r DEF Refuse
  <2> QED BY <1>r, <2>1, <2>2 DEF Settled
<1>g. ASSUME NEW stage \in ExchStates \ {"replaying"}, Goto(d, stage), read' = read,
             exch[d].at \notin Flowing
      PROVE  Settled(c)
  <2>1. exch'[d].at = stage /\ \A e \in Exchanges \ {d} : exch'[e] = exch[e]
    BY <1>0, <1>g, GotoIs
  <2> QED BY <1>g, <2>1 DEF Settled
<1>1. CASE PostArrives(d)
  <2>1. exch[d].at \notin Flowing /\ (Refuse(d) \/ (Goto(d, "challenged") /\ read' = read))
    BY <1>1 DEF PostArrives, Asks, Flowing
  <2>2. Settled(c)
    BY <2>1, <1>r, <1>g, <1>x
  <2> QED BY <2>2 DEF ReadStep
<1>2. CASE PostRegisters(d)
  <2>1. exch[d].at \notin Flowing /\ read' = read /\ (Goto(d, "json") \/ Goto(d, "priming"))
    BY <1>2 DEF PostRegisters, Flowing
  <2>2. Settled(c)
    BY <2>1, <1>g, <1>x
  <2> QED BY <2>2 DEF ReadStep
<1>3. CASE PostDispatched(d)
  <2> DEFINE p == exch[d].stream
             m == PrimingEvent(p)
  <2>1. exch[d].at = "priming" /\ exch[d].at \notin Flowing
    BY <1>3 DEF PostDispatched, Flowing
  <2>2. CASE Refuse(d)
    BY <1>r, <2>1, <2>2 DEF ReadStep
  <2>3. CASE ~(Primes /\ stream[p].to # d)
    <3>1. /\ Goto(d, "open") \/ Finished(d, "over")
          /\ read' = IF Primes THEN Reading(d, <<m>>) ELSE read
          /\ Primes => \A k \in DOMAIN sending : sending[k] > m
          /\ log' = log /\ sending' = sending
      BY <1>3, <2>3 DEF PostDispatched
    <3>2. exch'[d].at \in Flowing /\ \A e \in Exchanges \ {d} : exch'[e] = exch[e]
      BY <1>0, <1>x, <3>1, GotoIs, FinishedAt DEF Flowing
    <3>3. CASE ~Primes
      <4>1. Settled(c)
        BY <2>1, <3>1, <3>2, <3>3 DEF Settled, Flowing
      <4> QED BY <4>1 DEF ReadStep
    <3>4. CASE Primes
      <4>1. m \in DOMAIN log /\ log[m].stream = p
        BY <1>0, <2>1, <3>4 DEF Begun, PrimingEvent
      <4>2. LogGrows /\ <<m>> \in Seq(DOMAIN log')
        BY <3>1, <4>1 DEF LogGrows
      <4> HIDE DEF m
      <4>3. read'[c] = IF c = d THEN read[c] \o <<m>> ELSE read[c]
        BY <1>0, <3>1, <3>4, <4>2, ReadingIs
      <4>4. CASE c = d
        <5>1. Primed(c, m)
          BY <2>1, <3>1, <3>2, <3>4, <4>1, <4>3, <4>4 DEF Primed
        <5> QED BY <5>1 DEF ReadStep
      <4>5. CASE c # d
        BY <3>2, <4>3, <4>5, SameSettles DEF ReadStep
      <4> QED BY <4>4, <4>5
    <3> QED BY <3>3, <3>4 DEF ReadStep
  <2> QED BY <1>3, <2>2, <2>3 DEF PostDispatched, ReadStep
<1>4. CASE GetOpens(d)
  <2>1. exch[d].at \notin Flowing /\ (Refuse(d) \/ (Goto(d, "open") /\ read' = read))
    BY <1>4 DEF GetOpens, Asks, Flowing
  <2>2. Settled(c)
    BY <2>1, <1>r, <1>g, <1>x
  <2> QED BY <2>2 DEF ReadStep
<1>5. CASE GetReplays(d)
  <2>1. exch[d].at = "asked" /\ exch[d].after # None
    BY <1>5 DEF GetReplays, Asks
  <2>2. CASE Refuse(d)
    BY <1>r, <2>1, <2>2 DEF Flowing, ReadStep
  <2>3. CASE ~Refuse(d)
    <3>1. /\ read' = [read EXCEPT ![d] = EventsAfter(exch[d].after)] /\ Goto(d, "replaying")
          /\ log' = log /\ sending' = sending
      BY <1>5, <2>3 DEF GetReplays, server
    <3>2. exch'[d].at = "replaying" /\ \A e \in Exchanges \ {d} : exch'[e] = exch[e]
      BY <1>0, <1>x, <3>1, GotoIs
    <3>3. read'[d] = EventsAfter(exch[d].after) /\ \A e \in Exchanges \ {d} : read'[e] = read[e]
      BY <1>0, <3>1 DEF ServerTypes
    <3>4. CASE c = d
      BY <2>1, <3>1, <3>2, <3>3, <3>4 DEF Replays, ReadStep
    <3>5. CASE c # d
      BY <3>2, <3>3, <3>5, SameSettles DEF ReadStep
    <3> QED BY <3>4, <3>5
  <2> QED BY <2>2, <2>3
<1>6. CASE GetRegisters(d)
  <2>1. exch[d].at = "replaying"
    BY <1>6 DEF GetRegisters
  <2>2. CASE Refuse(d)
    BY <1>r, <2>1, <2>2 DEF Flowing, ReadStep
  <2>3. CASE ~Refuse(d)
    <3> DEFINE ended == Ended({OnStream(d)})
    <3>1. ended \in [Exchanges -> ExchSet]
      BY <1>0, Ending
    <3>2. read' = read /\ (exch' = [ended EXCEPT ![d].at = "open"] \/ exch' = [ended EXCEPT ![d] = Over])
      BY <1>6, <2>3 DEF GetRegisters
    <3>3. (\A e \in Exchanges \ {d} : exch'[e] = ended[e]) /\ exch'[d].at # "replaying"
      <4> HIDE DEF ended
      <4>1. CASE exch' = [ended EXCEPT ![d].at = "open"]
        <5>1. exch'[d] = [ended[d] EXCEPT !.at = "open"] /\ ended[d] \in ExchSet
          BY <3>1, <4>1
        <5> QED BY <1>x, <3>1, <4>1, <5>1, Stage
      <4>2. CASE exch' = [ended EXCEPT ![d] = Over]
        BY <3>1, <4>2 DEF Over
      <4> QED BY <3>2, <4>1, <4>2
    <3>4. CASE c = d
      BY <2>1, <3>2, <3>3, <3>4 DEF Settled, Flowing, ReadStep
    <3>5. CASE c # d
      BY <1>0, <3>2, <3>3, <3>5, EndedSettles DEF ReadStep
    <3> QED BY <3>4, <3>5
  <2> QED BY <2>2, <2>3
<1>7. CASE Cancel(d)
  <2>1. Finished(d, "over") /\ read' = read /\ c # d
    BY <1>7 DEF Cancel
  <2>2. \A e \in Exchanges \ {d} : exch'[e] = exch[e]
    BY <1>0, <2>1, FinishedAt
  <2> QED BY <2>1, <2>2, SameSettles DEF ReadStep
<1> QED BY <1>1, <1>2, <1>3, <1>4, <1>5, <1>6, <1>7 DEF ServerStep

\* In JSON mode an open stream is the standalone one.
LEMMA JsonOpens ==
  ASSUME SessionInv, JsonMode, setting.json, NEW c \in Exchanges, exch[c].at = "open"
  PROVE  OnStream(c) = Standalone
<1>1. exch[c].method = "GET" /\ (exch[c].after # None => log[exch[c].after].stream = Standalone)
  BY DEF JsonMode
<1>2. exch[c].stream = Standalone
  BY <1>1 DEF SessionInv, Exchanged
<1> QED BY <1>1, <1>2 DEF OnStream

LEMMA DeliverSteps ==
  ASSUME SessionInv, LogShape', JsonMode, LogGrows, NEW i \in DOMAIN log', Deliver(i), log'[i].stream \in StreamIds,
         log'[i].what = "response" =>
           log'[i].req \in Reqs /\ log'[i].stream = PostOf[log'[i].req] /\ handler[log'[i].req] # "none",
         setting.json /\ log'[i].what = "response" => log'[i].req \in inflight,
         \/ i = Len(log') /\ log' # log /\ sending = <<>> /\ sending' = <<>>
         \/ setting.json /\ log'[i].what = "response"
         \/ sending # <<>> /\ i = Head(sending) /\ sending' = Tail(sending) /\ log' = log,
         NEW c \in Exchanges, wire[c]
  PROVE  ReadStep(c)
<1>0. ServerTypes
  BY DEF SessionInv
<1> DEFINE s == log'[i].stream
           r == log'[i].req
<1>1. \/ exch'[c] = exch[c]
      \/ c = stream[s].to /\ exch[c].at \in {"open", "json"} /\ exch'[c].at = "over"
  <2>1. CASE log'[i].what = "response" /\ Completes(r) /\ c = stream[s].to
    <3>1. exch'[c] = Over /\ Over.at = "over"
      BY <2>1, ClosedAt DEF Completes
    <3>2. Mapped(s)
      BY <2>1, Sets DEF Mapped
    <3>3. exch[c].at \in {"open", "json"}
      BY <2>1, <3>2, MappedIs DEF SessionInv
    <3> QED BY <2>1, <3>1, <3>3
  <2>2. CASE log'[i].what = "response" /\ ~(Completes(r) /\ c = stream[s].to)
    BY <2>2, FinishIs DEF Deliver, Completes, Partly
  <2>3. CASE log'[i].what # "response"
    BY <2>3 DEF Deliver
  <2> QED BY <2>1, <2>2, <2>3
<1>2. CASE read'[c] = read[c]
  <2>1. Settled(c)
    BY <1>1, <1>2 DEF Settled, Flowing
  <2> QED BY <2>1 DEF ReadStep
<1>3. CASE /\ setting.json /\ log'[i].what = "response" /\ r \notin inflight'
           /\ read' = Reading(stream[s].to, Body(s)) /\ read'[c] # read[c]
  <2>3. Completes(r)
    BY <1>3, FinishIs DEF Deliver, Partly
  <2>1. Body(s) \in Seq(DOMAIN log') /\ Replies(Body(s), s, log')
    <3>1. /\ Body(s) \in Seq(DOMAIN log')
          /\ \A k \in DOMAIN Body(s) : log'[Body(s)[k]].what = "response" /\ log'[Body(s)[k]].req \in Related(s)
          /\ \A j, k \in DOMAIN Body(s) : j < k => log'[Body(s)[j]].req < log'[Body(s)[k]].req
      BY <1>0, <1>3, <2>3, BodyIs DEF SessionInv
    <3> HIDE DEF s
    <3>2. \A k \in DOMAIN Body(s) : Body(s)[k] \in DOMAIN log'
      BY <3>1
    <3>3. \A k \in DOMAIN Body(s) : log'[Body(s)[k]].stream = s
      BY <3>1, <3>2 DEF LogShape, IsResponse, Related
    <3> QED BY <3>1, <3>3 DEF Replies
  <2>2. c = stream[s].to /\ read'[c] = read[c] \o Body(s)
    <3> HIDE DEF s
    <3>1. Reading(stream[s].to, Body(s))[c] = IF c = stream[s].to THEN read[c] \o Body(s) ELSE read[c]
      BY <1>0, <2>1, ReadingIs
    <3> QED BY <1>3, <3>1
  <2>4. OnStream(c) = s /\ s # Standalone
    BY <1>3, <2>2, MappedTo, Sets
  <2>5. exch[c].at \in {"open", "json"} /\ exch'[c].at = "over"
    <3>1. exch'[c] = Over /\ Over.at = "over"
      BY <1>3, <2>2, <2>3, ClosedAt DEF Completes
    <3>2. Mapped(s)
      BY <2>2, Sets DEF Mapped
    <3>3. exch[c].at \in {"open", "json"}
      BY <1>3, <2>2, <3>2, MappedIs DEF SessionInv
    <3> QED BY <3>1, <3>3
  <2>6. exch[c].at = "json"
    BY <1>3, <2>4, <2>5, JsonOpens
  <2> QED BY <2>1, <2>2, <2>4, <2>5, <2>6 DEF Whole, ReadStep
<1>4. CASE /\ ~(setting.json /\ log'[i].what = "response")
           /\ Mapped(s) /\ exch[stream[s].to].at = "open" /\ NotReplayed(s, i)
           /\ read' = Reading(stream[s].to, <<i>>) /\ read'[c] # read[c]
  <2>1. <<i>> \in Seq(DOMAIN log')
    OBVIOUS
  <2>2. c = stream[s].to /\ read'[c] = read[c] \o <<i>>
    BY <1>0, <1>4, <2>1, ReadingIs
  <2>3. OnStream(c) = s
    BY <2>2, MappedTo, Sets
  <2>4. i \notin stream[OnStream(c)].replayed
    BY <1>4, <2>3 DEF NotReplayed
  <2>5. exch[c].at = "open" /\ exch'[c].at \in Flowing
    BY <1>1, <1>4, <2>2 DEF Flowing
  <2>6. Frame(c, i)
    BY <1>4, <2>2, <2>3, <2>4, <2>5 DEF Frame
  <2> QED BY <2>6 DEF ReadStep
<1> QED BY <1>2, <1>3, <1>4 DEF Deliver, Written

LEMMA SendReads ==
  ASSUME SessionInv, LogShape', JsonMode, NEW s \in StreamIds, NEW r \in Reqs \cup {None},
         NEW what \in {"note", "response"}, Send(s, r, what),
         what = "response" => r \in inflight /\ s = PostOf[r] /\ handler[r] = "running",
         setting.json /\ s # Standalone => what = "response",
         NEW c \in Exchanges, wire[c]
  PROVE  ReadStep(c)
<1>0. ServerTypes /\ Queue
  BY DEF SessionInv
<1>1. LogGrows /\ log' # log /\ Len(log') \in DOMAIN log'
      /\ log'[Len(log')] = [stream |-> s, req |-> r, what |-> what]
  BY <1>0, LoggedIs DEF Send
<1>2. CASE UNCHANGED <<stream, book, exch, read>>
  BY <1>2, SameSettles DEF ReadStep
<1>3. CASE ~(setting.store /\ ~(setting.json /\ s # Standalone))
  <2>1. Deliver(Len(log')) /\ sending' = sending
    BY <1>3 DEF Send
  <2> DEFINE i == Len(log')
  <2>2. log'[i].stream = s /\ log'[i].req = r /\ log'[i].what = what
    BY <1>1
  <2>3. what = "response" => r \in Reqs
    BY <1>0 DEF ServerTypes
  <2>4. (i = Len(log') /\ log' # log /\ sending = <<>> /\ sending' = <<>>) \/ (setting.json /\ what = "response")
    BY <1>0, <1>1, <1>3, <2>1 DEF Queue
  <2>5. i \in DOMAIN log' /\ Deliver(i)
    BY <1>1, <2>1
  <2> HIDE DEF i
  <2> QED BY <1>1, <2>2, <2>3, <2>4, <2>5, DeliverSteps
<1> QED BY <1>2, <1>3 DEF Send

\* Every step of the server, seen by a client that still reads.
LEMMA ServerReads ==
  ASSUME SessionInv, LogShape', JsonMode, ServerNext, NEW c \in Exchanges, wire[c]
  PROVE  ReadStep(c)
<1>0. ServerTypes /\ LogShape
  BY DEF SessionInv
<1>1. CASE \E d \in Exchanges : ServerStep(d)
  BY <1>1, StepReads
<1>2. CASE SendResumes
  <2> DEFINE i == Head(sending)
  <2>1. /\ log' = log /\ sending # <<>> /\ sending' = Tail(sending) /\ Deliver(i)
        /\ i \in DOMAIN log /\ Len(sending) \in Nat /\ 1 \in DOMAIN sending /\ i = sending[1]
    BY <1>0, <1>2 DEF SendResumes, ServerTypes
  <2> HIDE DEF i
  <2>2. LogGrows /\ i \in DOMAIN log' /\ log'[i].stream \in StreamIds
    <3>1. log \in Seq(Messages)
      BY <1>0 DEF ServerTypes
    <3>2. log[i] \in Messages
      BY <2>1, <3>1
    <3> QED BY <2>1, <3>2 DEF LogGrows, Messages
  <2>3. IsResponse(i) => log[i].req \in Reqs /\ log[i].stream = PostOf[log[i].req] /\ handler[log[i].req] # "none"
    BY <1>0, <2>1 DEF LogShape
  <2>4. log'[i].what = "response" =>
          log'[i].req \in Reqs /\ log'[i].stream = PostOf[log'[i].req] /\ handler[log'[i].req] # "none"
    BY <2>1, <2>3 DEF IsResponse
  <2>5. ~(setting.json /\ log'[i].what = "response")
    <3>1. setting.json => log[i].stream = Standalone
      BY <2>1 DEF SessionInv, Queue
    <3> QED BY <2>1, <2>4, <3>1, Sets
  <2> QED BY <2>1, <2>2, <2>4, <2>5, DeliverSteps DEF i
<1>3. ASSUME NEW r \in Reqs, Notify(r) PROVE ReadStep(c)
  <2>1. Send(PostOf[r], r, "note") /\ PostOf[r] \in StreamIds /\ ~setting.json
    BY <1>3, Sets DEF Notify
  <2> QED BY <2>1, SendReads
<1>4. ASSUME NEW r \in Reqs, Respond(r) PROVE ReadStep(c)
  <2>1. Send(PostOf[r], r, "response") /\ PostOf[r] \in StreamIds /\ r \in inflight /\ handler[r] = "running"
    BY <1>4, Sets DEF Respond
  <2> QED BY <2>1, SendReads
<1>5. CASE NotifyStandalone
  <2>1. Send(Standalone, None, "note") /\ Standalone \in StreamIds /\ None \in Reqs \cup {None}
    BY <1>5, Sets DEF NotifyStandalone
  <2> QED BY <2>1, SendReads
<1>6. CASE Close \/ \E r \in Reqs, s \in StreamIds : CloseStream(r, s)
  <2>1. read' = read /\ (exch' = Ended(StreamIds) \/ \E s \in StreamIds : exch' = Ended({s}))
    BY <1>6 DEF Close, CloseStream
  <2>2. Settled(c)
    BY <1>0, <2>1, EndedSettles
  <2> QED BY <2>2 DEF ReadStep
<1> QED BY <1>1, <1>2, <1>3, <1>4, <1>5, <1>6 DEF ServerNext

-----------------------------------------------------------------------------
(***************************************************************************)
(* What a step of the server does to the mapping and the queue.            *)
(***************************************************************************)
Remaps(s) ==
  \/ stream'[s] = stream[s]
  \/ stream'[s].to = None
  \/ \E d \in Exchanges :
       /\ stream'[s].to = d
       /\ \/ exch[d].at \in {"asked", "challenged"}
          \/ exch[d].at = "replaying" /\ stream'[s].replayed = {read[d][k] : k \in DOMAIN read[d]}

LEMMA MapIs ==
  ASSUME ServerTypes, NEW s \in StreamIds, NEW p, NEW d, NEW ids, Map(p, d, ids) \/ Unmap(p)
  PROVE  \/ stream'[s] = stream[s]
         \/ stream'[s].to = None
         \/ Map(p, d, ids) /\ stream'[s].to = d /\ stream'[s].replayed = ids
<1>1. stream \in [StreamIds -> Entries]
  BY DEF ServerTypes
<1>2. CASE Map(p, d, ids)
  <2>1. stream'[s] = stream[s] \/ stream'[s] = [to |-> d, replayed |-> ids]
    BY <1>1, <1>2 DEF Map
  <2> QED BY <1>2, <2>1
<1>3. CASE Unmap(p)
  <2>1. stream'[s] = stream[s] \/ stream'[s] = [to |-> None, replayed |-> {}]
    BY <1>1, <1>3 DEF Unmap, Unmapped
  <2> QED BY <2>1
<1> QED BY <1>2, <1>3

LEMMA DeliverRemaps == ASSUME ServerTypes, NEW i, Deliver(i), NEW s \in StreamIds PROVE Remaps(s)
<1>1. stream' = stream \/ \E p : Unmap(p)
  BY DEF Deliver, Finish
<1>2. ASSUME NEW p, Unmap(p) PROVE stream'[s] = stream[s] \/ stream'[s].to = None
  <2>1. stream'[s] = stream[s] \/ stream'[s] = [to |-> None, replayed |-> {}]
    BY <1>2 DEF Unmap, Unmapped, ServerTypes
  <2> QED BY <2>1
<1> QED BY <1>1, <1>2 DEF Remaps

LEMMA ServerRemaps == ASSUME SessionInv, ServerNext, NEW s \in StreamIds PROVE Remaps(s)
<1>0. ServerTypes
  BY DEF SessionInv
<1>k. ASSUME stream' = stream PROVE Remaps(s)
  BY <1>k DEF Remaps
<1>1. ASSUME NEW d \in Exchanges, PostArrives(d) \/ PostDispatched(d) \/ GetReplays(d) PROVE Remaps(s)
  <2>1. stream' = stream
    BY <1>1 DEF PostArrives, PostDispatched, GetReplays, Refuse, server
  <2> QED BY <1>k, <2>1
<1>2. ASSUME NEW d \in Exchanges, PostRegisters(d) PROVE Remaps(s)
  <2>1. Map(exch[d].stream, d, {}) /\ exch[d].at = "challenged"
    BY <1>2 DEF PostRegisters
  <2> QED BY <1>0, <2>1, MapIs DEF Remaps
<1>3. ASSUME NEW d \in Exchanges, GetOpens(d) PROVE Remaps(s)
  <2>1. (Map(Standalone, d, {}) /\ exch[d].at = "asked") \/ stream' = stream
    BY <1>3 DEF GetOpens, Asks, Refuse, server
  <2> QED BY <1>0, <1>k, <2>1, MapIs DEF Remaps
<1>4. ASSUME NEW d \in Exchanges, GetRegisters(d) PROVE Remaps(s)
  <2> DEFINE ids == {read[d][k] : k \in DOMAIN read[d]}
  <2>1. exch[d].at = "replaying" /\ (Map(OnStream(d), d, ids) \/ Unmap(OnStream(d)) \/ stream' = stream)
    BY <1>4 DEF GetRegisters, Refuse, server
  <2>2. CASE stream' = stream
    BY <1>k, <2>2
  <2>3. CASE Map(OnStream(d), d, ids) \/ Unmap(OnStream(d))
    <3>1. \/ stream'[s] = stream[s]
          \/ stream'[s].to = None
          \/ stream'[s].to = d /\ stream'[s].replayed = ids
      <4> HIDE DEF ids
      <4> QED BY <1>0, <2>3, MapIs
    <3> QED BY <2>1, <3>1 DEF Remaps
  <2> QED BY <2>1, <2>2, <2>3
<1>5. ASSUME NEW p, Unmap(p) PROVE Remaps(s)
  <2>1. stream'[s] = stream[s] \/ stream'[s].to = None
    <3>1. stream'[s] = stream[s] \/ stream'[s] = [to |-> None, replayed |-> {}]
      BY <1>0, <1>5 DEF Unmap, Unmapped, ServerTypes
    <3> QED BY <3>1
  <2> QED BY <2>1 DEF Remaps
<1>6. ASSUME NEW d \in Exchanges, Cancel(d) PROVE Remaps(s)
  BY <1>6, <1>5, <1>k DEF Cancel
<1>7. ASSUME SendResumes \/ NotifyStandalone \/ \E r \in Reqs : Notify(r) \/ Respond(r) PROVE Remaps(s)
  <2>1. stream' = stream \/ \E i : Deliver(i)
    BY <1>7 DEF SendResumes, NotifyStandalone, Notify, Respond, Send
  <2> QED BY <1>0, <1>k, <2>1, DeliverRemaps
<1>8. ASSUME NEW r \in Reqs, NEW p \in StreamIds, CloseStream(r, p) PROVE Remaps(s)
  BY <1>8, <1>5 DEF CloseStream
<1>9. CASE Close
  <2>1. stream'[s] = Unmapped
    BY <1>9 DEF Close
  <2> QED BY <2>1 DEF Remaps, Unmapped
<1> QED BY <1>1, <1>2, <1>3, <1>4, <1>6, <1>7, <1>8, <1>9 DEF ServerNext, ServerStep

\* In JSON mode the store is awaited for messages of the standalone stream.
-----------------------------------------------------------------------------
(***************************************************************************)
(* Steps of the server.                                                    *)
(***************************************************************************)
ServerTakes ==
  /\ SessionInv /\ SessionInv' /\ ServerNext /\ UNCHANGED client

LEMMA WireKept == ASSUME ServerNext PROVE wire' = wire
BY DEF ServerNext, ServerStep, PostArrives, PostRegisters, PostDispatched, GetOpens, GetReplays, GetRegisters,
       Cancel, Refuse, SendResumes, Notify, Respond, NotifyStandalone, Send, CloseStream, Close

LEMMA TakesAre ==
  ASSUME ServerTakes
  PROVE  /\ SessionInv /\ ServerTypes /\ ClientTypes /\ Exchanged /\ Mapping /\ Queue /\ Begun
         /\ ServerTypes' /\ ClientTypes' /\ Exchanged' /\ Mapping' /\ Queue'
         /\ LogGrows /\ Queued /\ ServerMoves /\ wire' = wire /\ setting' = setting
         /\ at' = at /\ using' = using /\ token' = token /\ past' = past
<1>1. SessionInv /\ SessionInv' /\ ServerNext /\ UNCHANGED client
  BY DEF ServerTakes
<1>2. ServerMoves /\ Queued /\ wire' = wire
  BY <1>1, ServerMovesStep, QueuedStep, WireKept
<1>3. LogGrows
  BY <1>1, <1>2, ExtendedIs DEF ServerMoves, SessionInv
<1> QED BY <1>1, <1>2, <1>3 DEF SessionInv, ServerMoves, client

LEMMA ServerHolding == ASSUME ServerTakes, Holding PROVE Holding'
<1>1. wire' = wire /\ using' = using /\ at' = at
  BY TakesAre
<1> QED BY <1>1 DEF Holding

LEMMA FitsGrown ==
  ASSUME ServerTypes, LogGrows, NEW ms \in Seq(DOMAIN log), NEW s, Fits(ms, s, log)
  PROVE  Fits(ms, s, log')
<1>1. \A k \in DOMAIN ms : ms[k] \in DOMAIN log
  OBVIOUS
<1>2. \A i \in DOMAIN log : log'[i] = log[i]
  BY Grown
<1> QED BY <1>1, <1>2 DEF Fits

\* All that was sent before precedes a message that is new.
LEMMA NewIsLast ==
  ASSUME ServerTypes, LogGrows, log' # log, NEW ms \in Seq(DOMAIN log)
  PROVE  Before(ms, Len(log'))
<1>1. \A k \in DOMAIN ms : ms[k] \in DOMAIN log
  OBVIOUS
<1>2. \A i \in DOMAIN log : i < Len(log')
  BY Grown
<1> QED BY <1>1, <1>2 DEF Before

More(s, c, x) ==
  /\ x \in Seq(DOMAIN log') /\ read'[c] = read[c] \o x
  /\ Streamed(s) => Fits(x, s, log') /\ \A k \in DOMAIN x : Before(past[s], x[k]) /\ Before(read[c], x[k])
  /\ x # <<>> => exch'[c].at \notin Unread

\* A body comes on the channel of its POST.
LEMMA WholeIs ==
  ASSUME ServerTakes, NEW s \in Channels, NEW c \in Exchanges, exch[c].at = "json", OnStream(c) \in {s, Standalone}
  PROVE  /\ s \in Posts /\ OnStream(c) = s /\ ~Streamed(s)
         /\ exch[c].method = "POST"
<1>1. setting.json /\ exch[c].method = "POST"
  BY TakesAre DEF Mapping, Exchanged
<1>2. OnStream(c) = exch[c].stream /\ OnStream(c) # Standalone
  BY <1>1, TakesAre DEF Exchanged, OnStream
<1> QED BY <1>1, <1>2, Sets DEF Streamed

\* What a step of the server adds to what a channel reads comes after all that
\* the channel has read.
LEMMA ReadsMore ==
  ASSUME PromptStore, ServerTakes, DeliveryInv, NEW s \in Channels, NEW c \in Exchanges, using[s] = c
  PROVE  \E x : More(s, c, x)
<1>0. /\ SessionInv /\ LogShape' /\ Bodies /\ ServerTypes /\ ClientTypes /\ Exchanged /\ Queue /\ LogGrows /\ ServerTypes'
      /\ InTurn /\ Asking /\ JsonMode /\ Behind /\ Live /\ wire[c] /\ using[s] # None /\ ServerNext
  BY TakesAre, Sets DEF DeliveryInv, Holding, ServerTakes, SessionInv
<1>p. /\ past[s] \in Seq(DOMAIN log) /\ read[c] \in Seq(DOMAIN log) /\ read[c] \in Seq(DOMAIN log')
      /\ past[s] \in Seq(Nat) /\ read[c] \in Seq(Nat) /\ DOMAIN log' \subseteq Nat
  BY <1>0, PlacesAre, Grown DEF ServerTypes
<1>s. exch[c].at # "over" => OnStream(c) \in {s, Standalone}
  BY <1>0 DEF Asking
<1>u. exch[c].at \in Unread => read[c] = <<>>
  BY <1>0 DEF Asking
<1>m. exch[c].method = "POST" => past[s] = <<>>
  BY <1>0 DEF Asking
<1>1. CASE Settled(c)
  <2>1. read[c] \o <<>> = read[c]
    BY <1>p, JoinNone
  <2>2. More(s, c, <<>>)
    BY <1>1, <2>1, FitsNone DEF Settled, More
  <2> QED BY <2>2
<1>2. ASSUME NEW m, Primed(c, m) PROVE \E x : More(s, c, x)
  <2>1. /\ exch[c].method = "POST" /\ read[c] = <<>> /\ past[s] = <<>> /\ exch[c].after = None
        /\ OnStream(c) \in {s, Standalone} /\ OnStream(c) = exch[c].stream
    BY <1>0, <1>2, <1>s, <1>u, <1>m DEF Primed, Exchanged, Unread, OnStream
  <2>2. m \in DOMAIN log' /\ m \in Nat /\ log'[m].stream \in {s, Standalone}
    BY <1>0, <1>p, <1>2, <2>1, Grown DEF Primed
  <2>3. Fits(<<m>>, s, log') /\ <<m>> \in Seq(DOMAIN log')
    BY <2>2, FitsOne
  <2>4. More(s, c, <<m>>)
    BY <1>2, <2>1, <2>3, FitsNone DEF More, Primed, Flowing, Unread
  <2> QED BY <2>4
<1>3. CASE Replays(c)
  <2> DEFINE e == exch[c].after
             x == EventsAfter(e)
  <2>1. /\ at[s] = "reconnecting" /\ e = token[s] /\ e # None /\ read[c] = <<>> /\ read'[c] = x /\ log' = log
        /\ exch'[c].at = "replaying"
    BY <1>0, <1>3, <1>u DEF Replays, Asking, Unread
  <2>2. /\ e \in DOMAIN log /\ log[e].stream \in {s, Standalone}
        /\ \A i \in Nat : e < i => Before(past[s], i)
    BY <1>0, <2>1, ResumesIn
  <2>3. x \in Seq(DOMAIN log) /\ Lists(x, Len(log), log, log[e].stream, e)
    BY <1>0, <2>2, EventsAre
  <2> HIDE DEF x
  <2>4. \A k \in DOMAIN x : x[k] \in DOMAIN log /\ x[k] \in Nat /\ x[k] > e /\ log[x[k]].stream = log[e].stream
    BY <1>0, <2>3, PlacesAre DEF Lists
  <2>5. Fits(x, s, log)
    BY <2>2, <2>3, <2>4 DEF Fits, Lists
  <2>6. e \in Nat
    BY <1>0, <2>2, PlacesAre
  <2>7. \A k \in DOMAIN x : Before(past[s], x[k])
    BY <2>2, <2>4, <2>6
  <2>8. read'[c] = read[c] \o x
    BY <2>1, <2>3, JoinNone
  <2>9. More(s, c, x)
    BY <2>1, <2>3, <2>5, <2>7, <2>8, FitsNone DEF More, Unread
  <2> QED BY <2>9
<1>4. ASSUME NEW i, Frame(c, i) PROVE \E x : More(s, c, x)
  <2>1. OnStream(c) \in {s, Standalone} /\ i \in DOMAIN log' /\ i \in Nat /\ log'[i].stream \in {s, Standalone}
    BY <1>p, <1>s, <1>4 DEF Frame
  <2>2. Fits(<<i>>, s, log') /\ <<i>> \in Seq(DOMAIN log') /\ DOMAIN <<i>> = {1} /\ <<i>>[1] = i
    BY <2>1, FitsOne
  <2>3. Before(past[s], i) /\ Before(read[c], i)
    <3>1. CASE i = Len(log') /\ log' # log
      BY <1>0, <1>p, <3>1, NewIsLast
    <3>2. CASE sending # <<>> /\ i = Head(sending) /\ log' = log
      <4>1. 1 \in DOMAIN sending /\ i = sending[1]
        BY <1>0, <3>2 DEF ServerTypes
      <4>2. Before(past[s], i)
        BY <1>0, <4>1 DEF Behind
      <4>3. exch[c].at = "open" /\ log[i].stream = OnStream(c) /\ i \notin stream[OnStream(c)].replayed
        BY <1>4, <3>2 DEF Frame
      <4> QED BY <1>0, <4>1, <4>2, <4>3 DEF Live
    <3> QED BY <1>4, <3>1, <3>2 DEF Frame
  <2>4. More(s, c, <<i>>)
    BY <1>4, <2>2, <2>3 DEF More, Frame, Flowing, Unread
  <2> QED BY <2>4
<1>5. CASE Whole(c)
  <2>1. Body(OnStream(c)) \in Seq(DOMAIN log') /\ read'[c] = read[c] \o Body(OnStream(c)) /\ exch'[c].at = "over"
    BY <1>5 DEF Whole
  <2>2. ~Streamed(s)
    BY <1>0, <1>5, <1>s, WholeIs DEF Whole
  <2> QED BY <2>1, <2>2 DEF More, Unread
<1>6. ReadStep(c)
  BY <1>0, ServerReads
<1> QED BY <1>1, <1>2, <1>3, <1>4, <1>5, <1>6 DEF ReadStep

LEMMA ServerInTurn ==
  ASSUME PromptStore, ServerTakes, DeliveryInv, NEW s \in Channels, Streamed(s)
  PROVE  Fits(Full(s)', s, log')
<1>0. /\ ServerTypes /\ ClientTypes /\ LogGrows /\ using' = using /\ past' = past /\ InTurn /\ ServerTypes'
  BY TakesAre DEF DeliveryInv
<1>1. /\ past[s] \in Seq(DOMAIN log) /\ past[s] \in Seq(Nat) /\ Fits(past[s], s, log')
      /\ (using[s] = None \/ using[s] \in Exchanges)
  <2>1. Fits(past[s], s, log) /\ past[s] \in Seq(DOMAIN log)
    BY <1>0, FullIs, PlacesAre
  <2>2. past[s] \in Seq(Nat) /\ (using[s] = None \/ using[s] \in Exchanges)
    BY <1>0, PlacesAre
  <2>3. Fits(past[s], s, log')
    BY <1>0, <2>1, FitsGrown
  <2> QED BY <2>1, <2>2, <2>3
<1>2. CASE using[s] = None
  BY <1>0, <1>1, <1>2 DEF Full
<1>3. ASSUME NEW c \in Exchanges, using[s] = c PROVE Fits(Full(s)', s, log')
  <2>1. PICK x : More(s, c, x)
    BY <1>3, ReadsMore
  <2>2. /\ x \in Seq(Nat) /\ read[c] \in Seq(Nat) /\ read[c] \in Seq(DOMAIN log)
        /\ Fits(x, s, log') /\ read'[c] = read[c] \o x
        /\ \A k \in DOMAIN x : Before(past[s], x[k]) /\ Before(read[c], x[k])
    <3>1. DOMAIN log' \subseteq Nat /\ read[c] \in Seq(Nat) /\ read[c] \in Seq(DOMAIN log)
      BY <1>0, PlacesAre DEF ServerTypes
    <3> QED BY <2>1, <3>1 DEF More
  <2>3. using[s] # None
    BY <1>3, Sets
  <2>4. Fits(read[c], s, log') /\ \A k \in DOMAIN read[c] : Before(past[s], read[c][k])
    <3>1. Fits(read[c], s, log) /\ \A k \in DOMAIN read[c] : Before(past[s], read[c][k])
      BY <1>0, <1>3, <2>3, FullIs
    <3> QED BY <1>0, <2>2, <3>1, FitsGrown
  <2>5. Full(s)' = past[s] \o (read[c] \o x)
    BY <1>0, <1>3, <2>2, <2>3 DEF Full
  <2> DEFINE b == past[s] \o read[c]
  <2>6. b \in Seq(Nat) /\ Fits(b, s, log')
    BY <1>1, <2>2, <2>4, FitsJoin
  <2>7. \A k \in DOMAIN x : Before(b, x[k])
    BY <1>1, <2>2, BeforeJoin
  <2>8. Full(s)' = b \o x
    <3>1. past[s] \o (read[c] \o x) = (past[s] \o read[c]) \o x
      BY <1>1, <2>2, JoinThree
    <3> QED BY <2>5, <3>1
  <2> HIDE DEF b
  <2> QED BY <2>2, <2>6, <2>7, <2>8, FitsJoin
<1> QED BY <1>1, <1>2, <1>3

\* In JSON mode a POST reads nothing but its body.
LEMMA ServerBodies == ASSUME ServerTakes, DeliveryInv PROVE Bodies'
<1>0. /\ SessionInv /\ LogShape' /\ ServerTypes /\ ClientTypes /\ Exchanged /\ LogGrows /\ ServerMoves /\ ServerNext
      /\ setting' = setting /\ at' = at /\ using' = using /\ past' = past
      /\ Holding /\ Bodies /\ Asking /\ JsonMode
  BY TakesAre DEF DeliveryInv, ServerTakes, SessionInv
<1> SUFFICES ASSUME NEW p \in Posts, ~Streamed(p)
             PROVE  /\ using[p] # None => \/ exch'[using[p]].at \in {"over", "refused"}
                                          \/ exch'[using[p]].method = "POST"
                    /\ Replies(Full(p)', p, log')
  BY <1>0 DEF Bodies, Streamed
<1>1. p \in Channels /\ past[p] \in Seq(DOMAIN log) /\ (using[p] = None \/ using[p] \in Exchanges) /\ setting.json
  BY <1>0, Sets, PlacesAre DEF Streamed
<1>2. /\ Replies(Full(p), p, log) /\ at[p] \notin {"opening", "waiting", "reconnecting"}
      /\ using[p] # None => exch[using[p]].at \in {"over", "refused"} \/ exch[using[p]].method = "POST"
  BY <1>0 DEF Bodies
<1>3. Full(p)' = Full(p) => Replies(Full(p)', p, log')
  <2>1. Full(p) \in Seq(DOMAIN log)
    <3>1. using[p] # None => read[using[p]] \in Seq(DOMAIN log)
      BY <1>0, <1>1, PlacesAre
    <3> QED BY <1>1, <3>1, JoinIs DEF Full
  <2>2. \A k \in DOMAIN Full(p) : Full(p)[k] \in DOMAIN log /\ log'[Full(p)[k]] = log[Full(p)[k]]
    <3>1. \A k \in DOMAIN Full(p) : Full(p)[k] \in DOMAIN log
      BY <2>1
    <3> QED BY <1>0, <3>1, Grown
  <2> QED BY <1>2, <2>2 DEF Replies
<1>4. CASE using[p] = None
  <2>1. Full(p)' = Full(p)
    BY <1>0, <1>4 DEF Full
  <2> QED BY <1>3, <1>4, <2>1
<1>5. ASSUME NEW c \in Exchanges, using[p] = c
      PROVE  /\ exch'[c].at \in {"over", "refused"} \/ exch'[c].method = "POST"
             /\ Replies(Full(p)', p, log')
  <2>0. using[p] # None /\ wire[c] /\ at[p] = "posting" /\ past[p] = <<>>
    BY <1>0, <1>1, <1>2, <1>5, Sets DEF Holding, Asking
  <2>1. exch'[c].at \in {"over", "refused"} \/ exch'[c].method = "POST"
    <3>1. exch[c].at \in {"over", "refused"} => exch'[c].at \in {"over", "refused"}
      BY <1>0 DEF ServerMoves, Moves, Turns, Through
    <3> QED BY <1>0, <1>2, <1>5, <2>0, <3>1 DEF ServerMoves, Moves, Through, Restaged
  <2>2. ReadStep(c)
    BY <1>0, <2>0, ServerReads
  <2>3. CASE Settled(c)
    <3>1. Full(p)' = Full(p)
      BY <1>0, <1>5, <2>3 DEF Settled, Full
    <3> QED BY <1>3, <2>1, <3>1
  <2>4. CASE Whole(c)
    <3>1. /\ OnStream(c) = p /\ read[c] = <<>>
      BY <1>0, <1>1, <1>5, <2>4, WholeIs DEF Whole, Asking, Unread
    <3>2. read'[c] = read[c] \o Body(p) /\ Body(p) \in Seq(DOMAIN log') /\ Replies(Body(p), p, log')
      BY <2>4, <3>1 DEF Whole
    <3>3. Full(p)' = Body(p)
      <4>1. Full(p)' = <<>> \o (<<>> \o Body(p))
        BY <1>0, <1>5, <2>0, <3>1, <3>2 DEF Full
      <4> QED BY <3>2, <4>1, JoinNone
    <3> QED BY <2>1, <3>2, <3>3
  <2>5. exch[c].at \in {"asked", "priming", "open"} => exch[c].method = "POST"
    BY <1>2, <1>5, <2>0
  <2>6. ~(\E m : Primed(c, m)) /\ ~Replays(c) /\ ~(\E i : Frame(c, i))
    BY <1>0, <1>1, <2>5 DEF Primed, Replays, Frame, JsonMode, Exchanged
  <2> QED BY <2>2, <2>3, <2>4, <2>6 DEF ReadStep
<1> QED BY <1>1, <1>4, <1>5

LEMMA ServerDelivers ==
  ASSUME PromptStore, ServerTakes, DeliveryInv, NEW s \in Channels
  PROVE  \E x \in Seq(Nat) : Delivered(s)' = Delivered(s) \o x
<1>0. /\ SessionInv /\ LogShape' /\ ServerTypes /\ ClientTypes /\ LogGrows /\ using' = using /\ past' = past
      /\ ServerTypes' /\ Holding /\ JsonMode /\ ServerNext
  BY TakesAre DEF DeliveryInv, ServerTakes, SessionInv
<1>1. past[s] \in Seq(Nat) /\ (using[s] = None \/ using[s] \in Exchanges)
  BY <1>0, PlacesAre
<1>2. past[s] \o <<>> = past[s] /\ <<>> \in Seq(Nat)
  BY <1>1, JoinNone
<1>3. CASE using[s] = None
  <2>1. Delivered(s)' = past[s] /\ Delivered(s) = past[s]
    BY <1>0, <1>3 DEF Delivered, Reads
  <2> QED BY <1>2, <2>1
<1>4. ASSUME NEW c \in Exchanges, using[s] = c PROVE \E x \in Seq(Nat) : Delivered(s)' = Delivered(s) \o x
  <2>1. using[s] # None /\ using'[s] = c /\ wire[c]
    BY <1>0, <1>4, Sets DEF Holding
  <2>2. PICK x : More(s, c, x)
    BY <1>4, ReadsMore
  <2>3. /\ x \in Seq(Nat) /\ read[c] \in Seq(Nat) /\ read'[c] = read[c] \o x /\ read'[c] \in Seq(Nat)
    <3>1. DOMAIN log' \subseteq Nat /\ read[c] \in Seq(Nat)
      BY <1>0, PlacesAre DEF ServerTypes
    <3>2. x \in Seq(Nat) /\ read'[c] = read[c] \o x
      BY <2>2, <3>1 DEF More
    <3> QED BY <3>1, <3>2, JoinIs
  <2>4. exch[c].at \in Flowing => exch'[c].at \in Flowing
    <3>1. ReadStep(c)
      BY <1>0, <2>1, ServerReads
    <3> QED BY <3>1 DEF ReadStep, Settled, Primed, Replays, Frame, Whole, Flowing
  <2>5. CASE exch[c].at \in Flowing
    <3>1. Delivered(s) = past[s] \o read[c] /\ Delivered(s)' = past[s] \o (read[c] \o x)
      BY <1>0, <1>4, <2>1, <2>3, <2>4, <2>5 DEF Delivered, Reads, Flowing
    <3>2. past[s] \o (read[c] \o x) = (past[s] \o read[c]) \o x
      BY <1>1, <2>3, JoinThree
    <3>3. Delivered(s)' = Delivered(s) \o x
      BY <3>1, <3>2
    <3> QED BY <2>3, <3>3
  <2>6. CASE exch[c].at \notin Flowing
    <3>1. Delivered(s) = past[s] /\ Delivered(s)' \in {past[s], past[s] \o read'[c]}
      BY <1>0, <1>4, <2>1, <2>6 DEF Delivered, Reads, Flowing
    <3> QED BY <1>2, <2>3, <3>1
  <2> QED BY <2>5, <2>6
<1> QED BY <1>1, <1>3, <1>4

LEMMA ServerAsking == ASSUME PromptStore, ServerTakes, DeliveryInv PROVE Asking'
<1>0. /\ SessionInv /\ ServerTypes /\ ClientTypes /\ LogGrows /\ ServerMoves /\ ServerNext /\ Asking /\ Holding
      /\ using' = using /\ past' = past /\ at' = at /\ token' = token /\ JsonMode
  BY TakesAre DEF DeliveryInv, ServerTakes
<1>1. ASSUME NEW s \in Channels, NEW c \in Exchanges, using[s] = c
      PROVE  /\ exch'[c].at # "over" => OnStream(c)' \in {s, Standalone}
             /\ exch'[c].method = "POST" => at'[s] = "posting"
             /\ exch'[c].after # None => at'[s] = "reconnecting" /\ exch'[c].after = token'[s]
             /\ exch'[c].at \in Unread => read'[c] = <<>>
  <2>1. CASE exch'[c] = exch[c] \/ (Restaged(c) /\ <<exch[c].at, exch[c].method, exch'[c].at>> \in Turns)
    <3>1. /\ exch'[c].method = exch[c].method /\ exch'[c].after = exch[c].after
          /\ OnStream(c)' = OnStream(c)
          /\ exch'[c].at # "over" => exch[c].at # "over"
          /\ exch'[c].at \in Unread => exch[c].at \in Unread
      BY <1>0, <2>1, OnStreamIs DEF Restaged, Turns, Unread
    <3>2. exch'[c].at \in Unread => read'[c] = <<>>
      <4>1. PICK x : More(s, c, x)
        BY <1>1, ReadsMore
      <4>2. exch'[c].at \in Unread => read[c] = <<>> /\ x = <<>>
        BY <1>0, <1>1, <3>1, <4>1 DEF More, Asking
      <4> QED BY <4>1, <4>2 DEF More
    <3> QED BY <1>0, <1>1, <3>1, <3>2 DEF Asking
  <2>2. CASE Through(c)
    BY <2>2 DEF Through, OnStream, Unread
  <2> QED BY <1>0, <2>1, <2>2 DEF ServerMoves, Moves
<1> QED BY <1>0, <1>1 DEF Asking

LEMMA ServerJsonMode == ASSUME ServerTakes, JsonMode PROVE JsonMode'
<1>0. /\ SessionInv /\ ServerTypes /\ ClientTypes /\ Exchanged' /\ LogGrows /\ ServerMoves /\ ServerNext /\ Queued
      /\ token' = token /\ setting' = setting
  BY TakesAre DEF ServerTakes
<1> SUFFICES ASSUME setting.json
             PROVE  /\ \A c \in Exchanges :
                         /\ exch'[c].at # "priming"
                         /\ exch'[c].at = "open" => exch'[c].method = "GET"
                         /\ exch'[c].after # None => log'[exch'[c].after].stream = Standalone
                    /\ \A s \in Channels : token[s] # None => log'[token[s]].stream = Standalone
  BY <1>0 DEF JsonMode
<1>1. \A i \in DOMAIN log : log'[i] = log[i]
  BY <1>0, Grown
<1>2. ASSUME NEW c \in Exchanges
      PROVE  /\ exch'[c].at # "priming"
             /\ exch'[c].at = "open" => exch'[c].method = "GET"
             /\ exch'[c].after # None => log'[exch'[c].after].stream = Standalone
  <2>1. exch[c].at # "priming" /\ (exch[c].after # None => log'[exch[c].after].stream = Standalone)
    <3>1. exch[c].after # None => exch[c].after \in DOMAIN log
      BY <1>0 DEF ServerTypes, ExchSet
    <3> QED BY <1>1, <3>1 DEF JsonMode
  <2>2. exch'[c].at # "priming"
    BY <1>0, <2>1 DEF ServerMoves
  <2>3. CASE exch'[c] = exch[c]
    BY <2>1, <2>3 DEF JsonMode
  <2>4. CASE Through(c)
    BY <2>4 DEF Through
  <2>5. CASE Restaged(c) /\ <<exch[c].at, exch[c].method, exch'[c].at>> \in Turns
    <3>1. exch'[c].at = "open" => exch[c].method = "GET"
      BY <2>1, <2>5 DEF Turns
    <3> QED BY <2>1, <2>2, <2>5, <3>1 DEF Restaged
  <2> QED BY <1>0, <2>3, <2>4, <2>5 DEF ServerMoves, Moves
<1>3. ASSUME NEW s \in Channels, token[s] # None PROVE log'[token[s]].stream = Standalone
  <2>1. token[s] \in DOMAIN log
    BY <1>0, <1>3 DEF ClientTypes
  <2> QED BY <1>1, <1>3, <2>1 DEF JsonMode
<1> QED BY <1>2, <1>3

\* A message that awaits the store did so before, or is the last one.
LEMMA AwaitedIs ==
  ASSUME ServerTakes, NEW k \in DOMAIN sending'
  PROVE  /\ sending'[k] \in DOMAIN log' /\ sending'[k] \in Nat
         /\ \/ \E j \in DOMAIN sending :
                 /\ sending'[k] = sending[j] /\ sending[j] \in DOMAIN log
                 /\ log'[sending[j]] = log[sending[j]]
            \/ \A ms \in Seq(DOMAIN log) : Before(ms, sending'[k])
<1>0. ServerTypes /\ ClientTypes /\ ServerTypes' /\ LogGrows /\ Queued
  BY TakesAre
<1>1. sending'[k] \in DOMAIN log' /\ DOMAIN log' \subseteq Nat
  BY <1>0 DEF ServerTypes
<1>2. ASSUME NEW j \in DOMAIN sending PROVE sending[j] \in DOMAIN log /\ log'[sending[j]] = log[sending[j]]
  BY <1>0, <1>2, PlacesAre, Grown
<1>3. CASE log' # log /\ sending'[k] = Len(log')
  BY <1>0, <1>1, <1>3, NewIsLast
<1> QED BY <1>0, <1>1, <1>2, <1>3, QueueIs

LEMMA ServerBehind == ASSUME ServerTakes, Behind PROVE Behind'
<1>0. /\ ServerTypes /\ ClientTypes /\ using' = using /\ past' = past /\ at' = at /\ token' = token
  BY TakesAre
<1> SUFFICES ASSUME NEW s \in Channels, NEW k \in DOMAIN sending',
                    using[s] # None \/ (at[s] = "waiting" /\ token[s] = None)
             PROVE  Before(past[s], sending'[k])
  BY <1>0 DEF Behind
<1>1. past[s] \in Seq(DOMAIN log)
  BY <1>0, PlacesAre
<1> QED BY <1>1, AwaitedIs DEF Behind

\* A replay brings what still awaits the store.
LEMMA ReplayHolds ==
  ASSUME ServerTakes, DeliveryInv, NEW s \in Channels, NEW c \in Exchanges, using[s] = c, Replays(c),
         NEW k \in DOMAIN sending, log[sending[k]].stream = OnStream(c)
  PROVE  \E j \in DOMAIN read'[c] : read'[c][j] = sending[k]
<1>0. /\ SessionInv /\ ServerTypes /\ ClientTypes /\ InTurn /\ Bodies /\ Asking /\ Behind /\ using[s] # None
  BY TakesAre, Sets DEF DeliveryInv
<1> DEFINE e == exch[c].after
           q == sending[k]
<1>1. at[s] = "reconnecting" /\ e = token[s] /\ e # None /\ read'[c] = EventsAfter(e)
  BY <1>0 DEF Replays, Asking
<1>2. e \in DOMAIN log /\ e \in Nat /\ q \in DOMAIN log /\ q \in 1 .. Len(log) /\ q \in Nat
  <2>1. DOMAIN log = 1 .. Len(log)
    BY <1>0 DEF ServerTypes
  <2> QED BY <1>0, <1>1, <2>1, ResumesIn, PlacesAre
<1>3. e < q
  <2>1. past[s] # <<>> /\ e = past[s][Len(past[s])] /\ past[s] \in Seq(Nat)
    BY <1>0, <1>1, PlacesAre DEF Asking
  <2>2. Before(past[s], q)
    BY <1>0 DEF Behind
  <2>3. Len(past[s]) \in DOMAIN past[s]
    BY <2>1
  <2> QED BY <2>1, <2>2, <2>3 DEF Before
<1>4. log[q].stream = log[e].stream
  BY <1>1 DEF OnStream
<1>5. Lists(EventsAfter(e), Len(log), log, log[e].stream, e)
  BY <1>0, <1>2, EventsAre
<1> HIDE DEF e, q
<1>6. \E j \in DOMAIN EventsAfter(e) : EventsAfter(e)[j] = q
  BY <1>2, <1>3, <1>4, <1>5 DEF Lists
<1> QED BY <1>1, <1>6 DEF q

\* What an open stream has been given since it opened stays with it, and a
\* resumed one is given what its replay read.
LEMMA OpensWith ==
  ASSUME ServerTakes, NEW c \in Exchanges, exch'[c].at = "open"
  PROVE  /\ OnStream(c)' = OnStream(c)
         /\ exch[c].at \in {"open", "priming", "asked", "replaying"}
         /\ exch[c].at = "open" => stream'[OnStream(c)] = stream[OnStream(c)]
         /\ exch[c].at = "replaying" => stream'[OnStream(c)].replayed = {read[c][j] : j \in DOMAIN read[c]}
<1>0. SessionInv /\ ServerNext /\ ServerMoves /\ LogGrows /\ Mapping /\ Mapping'
  BY TakesAre DEF ServerTakes
<1>1. exch'[c] = exch[c] \/ (Restaged(c) /\ <<exch[c].at, exch[c].method, exch'[c].at>> \in Turns)
  BY <1>0 DEF ServerMoves, Moves, Through
<1>2. exch[c].at \in {"open", "priming", "asked", "replaying"}
  BY <1>1 DEF Turns
<1>3. OnStream(c)' = OnStream(c) /\ OnStream(c) \in StreamIds
  BY <1>0, <1>1, OnStreamIs DEF Restaged
<1>4. stream'[OnStream(c)].to = c
  BY <1>0, <1>3 DEF Mapping
<1>5. Remaps(OnStream(c))
  BY <1>0, <1>3, ServerRemaps
<1>6. c # None
  BY Sets
<1>7. \/ stream'[OnStream(c)] = stream[OnStream(c)]
      \/ exch[c].at \in {"asked", "challenged"}
      \/ exch[c].at = "replaying" /\ stream'[OnStream(c)].replayed = {read[c][k] : k \in DOMAIN read[c]}
  BY <1>4, <1>5, <1>6 DEF Remaps
<1>8. exch[c].at = "replaying" => stream'[OnStream(c)] # stream[OnStream(c)]
  <2>1. stream[OnStream(c)].to = c => exch[c].at \in Active
    BY <1>0, <1>3, <1>6, MappedTo
  <2> QED BY <1>4, <2>1 DEF Active
<1> QED BY <1>2, <1>3, <1>7, <1>8

LEMMA ServerLive == ASSUME PromptStore, ServerTakes, DeliveryInv PROVE Live'
<1>0. /\ SessionInv /\ LogShape' /\ ServerTypes /\ ClientTypes /\ LogGrows /\ wire' = wire /\ ServerNext
      /\ ServerMoves /\ Holding /\ Asking /\ Live /\ JsonMode /\ Queue
  BY TakesAre DEF DeliveryInv, ServerTakes, SessionInv
<1> SUFFICES ASSUME NEW c \in Exchanges, NEW k \in DOMAIN sending', wire[c],
                    log'[sending'[k]].stream = OnStream(c)'
             PROVE  /\ exch'[c].at = "replaying" =>
                         Before(read'[c], sending'[k]) \/ \E j \in DOMAIN read'[c] : read'[c][j] = sending'[k]
                    /\ exch'[c].at = "open" =>
                         Before(read'[c], sending'[k]) \/ sending'[k] \in stream'[OnStream(c)'].replayed
  BY <1>0 DEF Live
<1> DEFINE q == sending'[k]
<1>1. PICK s \in Channels : using[s] = c
  BY <1>0 DEF Holding
<1>2. ReadStep(c)
  BY <1>0, ServerReads
<1>3. read[c] \in Seq(DOMAIN log) /\ read[c] \in Seq(Nat)
  BY <1>0, PlacesAre
<1>4. \/ \E j \in DOMAIN sending : q = sending[j] /\ log'[sending[j]] = log[sending[j]]
      \/ Before(read[c], q)
  BY <1>3, AwaitedIs
<1>e. exch[c].at \in Unread => read[c] = <<>>
  BY <1>0, <1>1 DEF Asking
<1>5. ASSUME exch'[c].at = "replaying"
      PROVE  Before(read'[c], q) \/ \E j \in DOMAIN read'[c] : read'[c][j] = q
  <2>1. OnStream(c)' = OnStream(c)
    <3>1. exch'[c] = exch[c] \/ Restaged(c)
      BY <1>0, <1>5 DEF ServerMoves, Moves, Through
    <3> QED BY <1>0, <3>1, OnStreamIs DEF Restaged
  <2>2. CASE Settled(c)
    <3>1. exch[c].at = "replaying" /\ read'[c] = read[c]
      BY <1>5, <2>2 DEF Settled
    <3> QED BY <1>0, <1>4, <2>1, <3>1 DEF Live
  <2>3. CASE Replays(c)
    <3>1. log' = log /\ sending' = sending
      BY <2>3 DEF Replays
    <3> QED BY <1>1, <2>1, <2>3, <3>1, ReplayHolds
  <2> QED BY <1>2, <1>5, <2>2, <2>3 DEF ReadStep, Primed, Frame, Whole, Flowing
<1>6. ASSUME exch'[c].at = "open"
      PROVE  Before(read'[c], q) \/ q \in stream'[OnStream(c)'].replayed
  <2>0. /\ OnStream(c)' = OnStream(c)
        /\ exch[c].at \in {"open", "priming", "asked", "replaying"}
        /\ exch[c].at = "open" => stream'[OnStream(c)] = stream[OnStream(c)]
        /\ exch[c].at = "replaying" => stream'[OnStream(c)].replayed = {read[c][j] : j \in DOMAIN read[c]}
    BY <1>6, OpensWith
  <2>1. CASE Settled(c)
    <3>1. read'[c] = read[c]
      BY <2>1 DEF Settled
    <3>2. CASE exch[c].at \in Unread
      BY <1>e, <3>1, <3>2, FitsNone
    <3>3. CASE exch[c].at = "open"
      BY <1>0, <1>4, <2>0, <3>1, <3>3 DEF Live
    <3>4. CASE exch[c].at = "replaying"
      <4>1. Before(read[c], q) \/ \E j \in DOMAIN read[c] : read[c][j] = q
        BY <1>0, <1>4, <2>0, <3>4 DEF Live
      <4> QED BY <2>0, <3>1, <3>4, <4>1
    <3> QED BY <2>0, <3>2, <3>3, <3>4 DEF Unread
  <2>2. ASSUME NEW m, Primed(c, m) PROVE Before(read'[c], q)
    <3>1. read[c] = <<>> /\ m \in Nat /\ m < q
      <4>1. m \in Nat /\ \A j \in DOMAIN sending : sending[j] \in Nat
        BY <1>0, <2>2, PlacesAre DEF Primed
      <4> QED BY <1>e, <2>2, <4>1 DEF Primed, Unread
    <3>2. read'[c] = <<m>>
      BY <2>2, <3>1 DEF Primed
    <3> QED BY <3>1, <3>2 DEF Before
  <2>3. ASSUME NEW i, Frame(c, i) PROVE Before(read'[c], q) \/ q \in stream'[OnStream(c)'].replayed
    <3>1. exch[c].at = "open" /\ read'[c] = read[c] \o <<i>>
      BY <2>3 DEF Frame
    <3>2. /\ sending # <<>> /\ i = Head(sending) /\ sending' = Tail(sending) /\ log' = log
      <4>1. sending' # <<>>
        OBVIOUS
      <4> QED BY <2>3, <4>1 DEF Frame
    <3>3. /\ k + 1 \in DOMAIN sending /\ q = sending[k + 1] /\ i = sending[1] /\ 1 \in DOMAIN sending /\ 1 < k + 1
          /\ i \in Nat /\ q \in Nat
      <4>1. sending \in Seq(DOMAIN log)
        BY <1>0 DEF ServerTypes
      <4>2. k + 1 \in DOMAIN sending /\ q = sending[k + 1] /\ i = sending[1] /\ 1 \in DOMAIN sending /\ 1 < k + 1
        BY <3>2, <4>1
      <4> QED BY <1>0, <4>2, PlacesAre
    <3> HIDE DEF q
    <3>4. i < q
      BY <1>0, <3>3 DEF Queue, Rising
    <3>5. CASE Before(read[c], q)
      <4>1. <<i>> \in Seq(Nat) /\ Before(<<i>>, q)
        BY <3>3, <3>4 DEF Before
      <4>2. Before(read[c] \o <<i>>, q)
        BY <1>3, <3>5, <4>1, BeforeJoin
      <4> QED BY <3>1, <4>2
    <3>6. Before(read[c], q) \/ q \in stream[OnStream(c)].replayed
      <4>1. log[q].stream = OnStream(c)
        BY <2>0, <3>2 DEF q
      <4> QED BY <1>0, <3>1, <3>3, <4>1 DEF Live
    <3> QED BY <2>0, <3>1, <3>5, <3>6
  <2> QED BY <1>2, <1>6, <2>0, <2>1, <2>2, <2>3 DEF ReadStep, Replays, Whole
<1> QED BY <1>5, <1>6

-----------------------------------------------------------------------------
(***************************************************************************)
(* Delivery in order.                                                      *)
(***************************************************************************)
LEMMA DeliveryInit == Init => DeliveryInv
<1> SUFFICES ASSUME Init PROVE DeliveryInv
  OBVIOUS
<1>0. /\ DOMAIN <<>> = {} /\ log = <<>> /\ sending = <<>>
      /\ \A c \in Exchanges : exch[c] = Over /\ exch[c].at = "over" /\ exch[c].method = "GET" /\ exch[c].after = None
                              /\ ~wire[c] /\ read[c] = <<>>
      /\ \A s \in Channels : at[s] = "idle" /\ using[s] = None /\ token[s] = None /\ past[s] = <<>>
  BY DEF Init, ServerInit, Over
<1>1. Holding
  BY <1>0, Sets DEF Holding
<1>2. InTurn
  BY <1>0, FitsNone DEF InTurn, Full
<1>5. Bodies
  BY <1>0, Sets DEF Bodies, Full, Replies
<1>3. Asking
  BY <1>0, Sets DEF Asking
<1>4. JsonMode /\ Behind /\ Live
  BY <1>0 DEF JsonMode, Behind, Live
<1> QED BY <1>1, <1>2, <1>3, <1>4, <1>5 DEF DeliveryInv

LEMMA DeliveryStep ==
  ASSUME PromptStore, SessionInv, SessionInv', DeliveryInv, [Next]_vars
  PROVE  /\ DeliveryInv' /\ LogGrows
         /\ \A s \in Channels : \E x \in Seq(Nat) : Delivered(s)' = Delivered(s) \o x
<1>0. \A s \in Channels : Delivered(s) \o <<>> = Delivered(s) /\ <<>> \in Seq(Nat)
  BY DeliveredIs, JoinNone DEF SessionInv
<1>1. CASE ServerNext /\ UNCHANGED client
  <2>1. ServerTakes
    BY <1>1 DEF ServerTakes
  <2>2. Holding' /\ Bodies' /\ Asking' /\ JsonMode' /\ Behind' /\ Live' /\ LogGrows
    BY <2>1, TakesAre, ServerHolding, ServerBodies, ServerAsking, ServerJsonMode, ServerBehind, ServerLive DEF DeliveryInv
  <2>3. InTurn'
    <3>1. \A s \in Channels : Streamed(s) => Fits(Full(s)', s, log')
      BY <2>1, ServerInTurn
    <3>2. \A s \in Channels : Streamed(s)' <=> Streamed(s)
      BY <2>1, TakesAre DEF Streamed
    <3> QED BY <3>1, <3>2 DEF InTurn
  <2>4. \A s \in Channels : \E x \in Seq(Nat) : Delivered(s)' = Delivered(s) \o x
    BY <2>1, ServerDelivers
  <2> QED BY <2>2, <2>3, <2>4 DEF DeliveryInv
<1>2. CASE ClientNext
  <2>1. DeliveryInv' /\ \A s \in Channels : Delivered(s)' = Delivered(s)
    BY <1>2, ClientDelivery
  <2>2. LogGrows
    BY <1>2, ClientTypeStep DEF server, LogGrows
  <2> QED BY <1>0, <2>1, <2>2
<1>3. CASE UNCHANGED vars
  <2>1. UNCHANGED <<setting, closed, stream, inflight, responded, handler, log, sending, exch, wire, read>>
    BY <1>3 DEF vars, serverVars, server, book, exchange
  <2>2. UNCHANGED <<at, using, token, attempt, past, strayed, aborted, drops>>
    BY <1>3 DEF vars, client
  <2>3. \A s \in Channels : Delivered(s)' = Delivered(s) /\ Full(s)' = Full(s)
    BY <2>1, <2>2 DEF Delivered, Reads, Full
  <2>4. \A c \in Exchanges : OnStream(c)' = OnStream(c)
    BY <2>1 DEF OnStream
  <2>5. InTurn' /\ Bodies'
    <3>1. \A s : Streamed(s)' <=> Streamed(s)
      BY <2>1 DEF Streamed
    <3>2. InTurn'
      BY <2>1, <2>3, <3>1 DEF InTurn, DeliveryInv
    <3>3. \A p \in Posts : Replies(Full(p), p, log)' <=> Replies(Full(p), p, log)
      BY <2>1, <2>3, Sets DEF Replies
    <3> QED BY <2>1, <2>2, <3>1, <3>2, <3>3 DEF Bodies, DeliveryInv
  <2>6. Holding' /\ JsonMode' /\ Behind'
    BY <2>1, <2>2 DEF DeliveryInv, Holding, JsonMode, Behind
  <2>7. Asking' /\ Live'
    BY <2>1, <2>2, <2>4 DEF DeliveryInv, Asking, Live
  <2> QED BY <1>0, <2>1, <2>3, <2>5, <2>6, <2>7 DEF DeliveryInv, LogGrows
<1> QED BY <1>1, <1>2, <1>3 DEF Next, ClientNext

\* A log whose responses stand on the stream of their POST, and a channel that
\* receives more of it: in order, and responses to its own requests only.
Answers(all) ==
  /\ Len(all) \in Nat /\ DOMAIN all = 1 .. Len(all)
  /\ \A i \in DOMAIN all : all[i].what = "response" => all[i].req \in Reqs /\ all[i].stream = PostOf[all[i].req]
  /\ \A i \in DOMAIN all : setting.json /\ all[i].what = "response" => all[i].stream \in Posts

Ahead(all, i, j) ==
  IF setting.json /\ all[i].what = "response" /\ all[j].what = "response" THEN all[i].req < all[j].req ELSE i < j

InTheirOrder(ms, s, all) ==
  /\ \A k \in DOMAIN ms : all[ms[k]].stream \in {s, Standalone}
  /\ \A j, k \in DOMAIN ms : j < k /\ all[ms[j]].stream = all[ms[k]].stream => Ahead(all, ms[j], ms[k])

Gains(s, all, old, new) ==
  /\ Len(new) >= Len(old) /\ SubSeq(new, 1, Len(old)) = old
  /\ \A k \in Len(old) + 1 .. Len(new) :
       /\ new[k] \in 1 .. Len(all)
       /\ all[new[k]].what = "response" => s = PostOf[all[new[k]].req]
  /\ \A k \in 1 .. Len(new) : \A j \in 1 .. k - 1 :
       all[new[j]].stream = all[new[k]].stream => Ahead(all, new[j], new[k])

LEMMA ReceivedIs ==
  ASSUME NEW all, Answers(all), NEW s \in Channels, NEW old \in Seq(Nat), NEW x \in Seq(Nat),
         old \o x \in Seq(DOMAIN all), InTheirOrder(old \o x, s, all)
  PROVE  Gains(s, all, old, old \o x)
<1> DEFINE new == old \o x
<1>1. Len(old) \in Nat /\ Len(new) \in Nat /\ Len(new) >= Len(old) /\ DOMAIN new = 1 .. Len(new)
  BY JoinIs
<1>2. SubSeq(new, 1, Len(old)) = old
  OBVIOUS
<1>3. ASSUME NEW k \in Len(old) + 1 .. Len(new)
      PROVE  /\ new[k] \in 1 .. Len(all)
             /\ all[new[k]].what = "response" => s = PostOf[all[new[k]].req]
  <2> HIDE DEF new
  <2>1. k \in DOMAIN new /\ new[k] \in DOMAIN all
    BY <1>1, <1>3 DEF new
  <2>2. all[new[k]].stream \in {s, Standalone}
    BY <2>1 DEF InTheirOrder, new
  <2> QED BY <2>1, <2>2, Sets DEF Answers
<1>4. ASSUME NEW k \in 1 .. Len(new), NEW j \in 1 .. k - 1, all[new[j]].stream = all[new[k]].stream
      PROVE  Ahead(all, new[j], new[k])
  <2> HIDE DEF new
  <2>1. j \in DOMAIN new /\ k \in DOMAIN new /\ j < k
    BY <1>1
  <2> QED BY <1>4, <2>1 DEF InTheirOrder, new
<1> HIDE DEF new
<1>5. Gains(s, all, old, new)
  BY <1>1, <1>2, <1>3, <1>4 DEF Gains
<1> QED BY <1>5 DEF new

LEMMA AnswersAre == ASSUME SessionInv PROVE Answers(log)
<1>1. log \in Seq(Messages)
  BY DEF SessionInv, ServerTypes
<1> QED BY <1>1, Sets DEF SessionInv, LogShape, IsResponse, Answers

\* A stream is read as it was sent; in JSON mode it holds no responses, or
\* nothing else.
LEMMA DeliveredInTheirOrder ==
  SessionInv /\ DeliveryInv =>
    \A s \in Channels : /\ Delivered(s) \in Seq(DOMAIN log) /\ Delivered(s) \in Seq(Nat)
                         /\ InTheirOrder(Delivered(s), s, log)
<1> SUFFICES ASSUME SessionInv, DeliveryInv, NEW s \in Channels
             PROVE  /\ Delivered(s) \in Seq(DOMAIN log) /\ Delivered(s) \in Seq(Nat)
                    /\ InTheirOrder(Delivered(s), s, log)
  OBVIOUS
<1>1. ServerTypes /\ ClientTypes /\ Holding /\ InTurn /\ Bodies /\ Asking
  BY DEF SessionInv, DeliveryInv
<1>2. Delivered(s) \in Seq(DOMAIN log) /\ DOMAIN log \subseteq Nat
  BY <1>1, DeliveredIs, PlacesAre
<1>3. CASE Streamed(s)
  <2>1. Fits(Delivered(s), s, log)
    BY <1>1, <1>3, FullIs
  <2>2. ASSUME NEW j \in DOMAIN Delivered(s), NEW k \in DOMAIN Delivered(s), j < k
        PROVE  Ahead(log, Delivered(s)[j], Delivered(s)[k])
    <3>1. Delivered(s)[j] < Delivered(s)[k] /\ Delivered(s)[j] \in DOMAIN log
      BY <1>2, <2>1, <2>2 DEF Fits, Rising
    <3>2. ~(setting.json /\ log[Delivered(s)[j]].what = "response")
      <4>1. setting.json => s = Standalone
        BY <1>3, Sets DEF Streamed
      <4>2. log[Delivered(s)[j]].stream \in {s, Standalone}
        BY <2>1 DEF Fits
      <4> QED BY <3>1, <4>1, <4>2, AnswersAre, Sets DEF Answers
    <3> QED BY <3>1, <3>2 DEF Ahead
  <2> DEFINE ms == Delivered(s)
  <2>3. \A k \in DOMAIN ms : log[ms[k]].stream \in {s, Standalone}
    BY <2>1 DEF Fits
  <2>4. \A j, k \in DOMAIN ms : j < k => Ahead(log, ms[j], ms[k])
    BY <2>2
  <2> HIDE DEF ms
  <2>5. InTheirOrder(ms, s, log)
    BY <2>3, <2>4, Zenon DEF InTheirOrder
  <2> QED BY <1>2, <2>5 DEF ms
<1>4. CASE ~Streamed(s)
  <2>1. s \in Posts /\ Replies(Full(s), s, log) /\ setting.json
    BY <1>1, <1>4 DEF Bodies, Streamed
  <2>2. Delivered(s) = Full(s) \/ Delivered(s) = <<>>
    <3>1. using[s] # None => past[s] = <<>>
      BY <1>1, <1>4, <2>1 DEF Holding, Asking, Bodies
    <3> QED BY <1>1, <3>1, FullIs
  <2>3. Replies(Delivered(s), s, log)
    BY <2>1, <2>2 DEF Replies
  <2> DEFINE ms == Delivered(s)
  <2>4. \A j, k \in DOMAIN ms : j < k => Ahead(log, ms[j], ms[k])
    BY <2>1, <2>3 DEF Replies, Ahead
  <2>5. \A k \in DOMAIN ms : log[ms[k]].stream \in {s, Standalone}
    BY <2>3 DEF Replies
  <2> HIDE DEF ms
  <2>6. InTheirOrder(ms, s, log)
    BY <2>4, <2>5, Zenon DEF InTheirOrder
  <2> QED BY <1>2, <2>6 DEF ms
<1> QED BY <1>2, <1>3, <1>4

LEMMA SettingKept == ASSUME SessionInv, [Next]_vars PROVE setting' = setting
<1>1. ServerNext => setting' = setting
  BY ServerMovesStep DEF ServerMoves
<1>2. ClientNext => setting' = setting
  BY ClientTypeStep DEF server
<1>3. UNCHANGED vars => setting' = setting
  BY DEF vars, serverVars
<1> QED BY <1>1, <1>2, <1>3 DEF Next, ClientNext

LEMMA ImplementsStep ==
  ASSUME PromptStore, SessionInv, SessionInv', DeliveryInv, [Next]_vars
  PROVE  DeliveryInv' /\ Delivery!Next
<1>1. /\ DeliveryInv' /\ LogGrows
      /\ \A s \in Channels : \E x \in Seq(Nat) : Delivered(s)' = Delivered(s) \o x
  BY DeliveryStep
<1>2. log' = log \/ \E m \in {log'[Len(log')]} : log' = Append(log, m)
  <2>1. ASSUME NEW m, log' = Append(log, m) PROVE log'[Len(log')] = m
    BY <2>1 DEF SessionInv, ServerTypes
  <2> QED BY <1>1, <2>1 DEF LogGrows
<1>3. \A s \in Channels : Delivered(s) \in Seq(DOMAIN log) /\ Delivered(s) \in Seq(Nat)
  BY DeliveredInTheirOrder
<1>4. \A s \in Channels : /\ Delivered(s)' \in Seq(DOMAIN log') /\ Delivered(s)' \in Seq(Nat)
                            /\ InTheirOrder(Delivered(s), s, log)'
  <2>1. (SessionInv /\ DeliveryInv =>
           \A s \in Channels : /\ Delivered(s) \in Seq(DOMAIN log) /\ Delivered(s) \in Seq(Nat)
                                /\ InTheirOrder(Delivered(s), s, log))'
    BY DeliveredInTheirOrder, PTL
  <2> QED BY <1>1, <2>1
<1>5. Answers(log)'
  <2>1. (SessionInv => Answers(log))'
    BY AnswersAre, PTL
  <2> QED BY <2>1
<1>6. setting' = setting
  BY SettingKept
<1>7. ASSUME NEW s \in Channels PROVE Delivery!ReceivedMore(s)
  <2>1. PICK x \in Seq(Nat) : Delivered(s)' = Delivered(s) \o x
    BY <1>1
  <2>2. Gains(s, log', Delivered(s), Delivered(s) \o x)
    <3>1. Delivered(s) \in Seq(Nat)
      BY <1>3
    <3>2. Delivered(s) \o x \in Seq(DOMAIN log') /\ InTheirOrder(Delivered(s)', s, log')
      <4>1. InTheirOrder(Delivered(s), s, log)' /\ Delivered(s)' \in Seq(DOMAIN log')
        BY <1>4
      <4> DEFINE ms == Delivered(s)
      <4>2. InTheirOrder(ms, s, log)' => InTheirOrder(ms', s, log')
        <5> HIDE DEF ms
        <5> QED BY <1>6 DEF InTheirOrder, Ahead
      <4> QED BY <2>1, <4>1, <4>2
    <3>3. Answers(log')
      BY <1>5, <1>6 DEF Answers
    <3> QED BY <2>1, <3>1, <3>2, <3>3, ReceivedIs
  <2> DEFINE got == [t \in Channels |-> Delivered(t)]
  <2>3. got[s] = Delivered(s) /\ got'[s] = Delivered(s)'
    OBVIOUS
  <2>4. Gains(s, log', got[s], got'[s])
    BY <2>1, <2>2, <2>3
  <2> QED BY <2>4 DEF Delivery!ReceivedMore, Delivery!InOrder, Delivery!Precedes, Gains, Ahead
<1> QED BY <1>1, <1>2, <1>6, <1>7 DEF Delivery!Next, Delivery!Sent

LEMMA ImplementsInit == Init => Delivery!Init
<1>1. Init => setting \in Settings
  BY StreamableHTTPServerAssumption DEF Init, ServerInit
<1> QED BY <1>1 DEF Init, ServerInit, Settings, Delivery!Init, Delivered, Reads

\* While the event store answers before a reconnection delay is over, every
\* channel receives what was sent in order and each message once, responses
\* only on the channel of their POST, over drops, replays (replayEvents, the
\* replayedEventIds that send() looks at), reconnections and close().  A JSON
\* body brings the responses of a batch in the order of its requests.
THEOREM DeliversInOrder == ASSUME PromptStore PROVE Spec => DeliveredInOrder
<1>1. SessionInv /\ SessionInv' /\ DeliveryInv /\ [Next]_vars =>
        DeliveryInv' /\ [Delivery!Next]_<<setting.json, log, [s \in Channels |-> Delivered(s)]>>
  BY ImplementsStep
<1>2. Init => Delivery!Init /\ DeliveryInv
  BY ImplementsInit, DeliveryInit
<1> QED BY <1>1, <1>2, SessionHolds, PTL DEF Spec, DeliveredInOrder, Delivery!Spec

=============================================================================
