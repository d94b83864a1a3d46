-------------------------- MODULE ServeStdioProofs --------------------------
(***************************************************************************)
(* Theorems about ServeStdio for every number of messages, every mixture   *)
(* of kinds and every bound.  They rest on one inductive invariant,        *)
(* EntryInv, in parts: the pump is at one message at a time and in order;  *)
(* what an await of the pump may rely on when it goes on; which instance   *)
(* is alive; what becomes of a delivered request; and what is written for  *)
(* a listen.                                                               *)
(***************************************************************************)
EXTENDS ServeStdio, FiniteSetTheorems, TLAPS

-----------------------------------------------------------------------------
(***************************************************************************)
(* The parts of the invariant.                                             *)
(***************************************************************************)
\* The pump takes the messages in the order they came in and is through with
\* one before it takes the next; a cancellation names an earlier request.
InOrder ==
  \A n \in Msgs :
    /\ at[n] = "unsent" <=> kind[n] = "unsent"
    /\ kind[n] = "cancel" => target[n] \in Msgs /\ target[n] < n
    /\ at[n] = "writing" => kind[n] # "cancel"
    /\ \A m \in Msgs : m < n =>
         /\ at[n] # "unsent" => at[m] # "unsent"
         /\ at[n] \notin {"unsent", "queued"} => at[m] = "done"

\* How the teardown relates to the phase, the wire and the subscriptions.
TeardownOrder ==
  /\ closing <=> phase = "closed"
  /\ ~closing => wireOpen /\ closer = "none"
  /\ closer # "none" => subs = {}
  /\ farewell # {} => closer = "sending"
  /\ Negotiating \/ era = "legacy" => subs = {}

\* What still holds when an await of processMessage goes on, unless the
\* connection was torn down meanwhile.
AwaitFinds(m) ==
  /\ at[m] \in {"building", "connected"} /\ ~closing => phase = "opening"
  /\ at[m] \in {"draining", "discarded"} /\ ~closing => phase = "probe"
  /\ at[m] \in {"draining", "discarded"} => discarding = instance
  /\ at[m] = "discarded" => instance \notin live

AwaitsFind == \A m \in Msgs : AwaitFinds(m)

\* An instance is built once, and is the entry's own or just connected.
OneInstance ==
  /\ \A m \in Msgs : at[m] \in {"unsent", "queued", "building", "draining", "discarded"}
                       => m \notin built
  /\ \A i \in live : i = instance \/ at[i] = "connected"

\* A message is delivered once and then the pump is through with it; a request
\* is pending at a live instance until it is settled, and answered at most once.
Deliveries ==
  /\ \A i, m \in Msgs : <<i, m>> \in delivered => at[m] = "done"
  /\ \A i, j, m \in Msgs : <<i, m>> \in delivered /\ <<j, m>> \in delivered => i = j
  /\ \A i, m \in Msgs : <<i, m>> \in pending => i \in live /\ ~CancelledAt(i, m)
  /\ \A i, m \in Msgs : <<i, m>> \in working => answers[m] = 0
  /\ \A m \in abandoned :
       at[m] = "done" /\ \A i \in Msgs : <<i, m>> \in delivered => i \notin live /\ ~CancelledAt(i, m)
  /\ \A i, m \in Msgs : ~closing /\ <<i, m>> \in delivered /\ kind[m] \in RequestKinds =>
       <<i, m>> \in pending \/ answers[m] = 1 \/ CancelledAt(i, m) \/ m \in abandoned

\* Nothing is written for a message the pump has not come to, or for a request
\* an instance is to answer; a listen the entry serves is delivered to nobody.
Unwritten ==
  /\ \A m \in Msgs : at[m] \notin {"writing", "done"} => answers[m] = 0 /\ frames[m] = <<>>
  /\ \A m \in subs \cup farewell :
       at[m] \in {"writing", "done"} /\ \A i \in Msgs : <<i, m>> \notin delivered

\* What is written for a listen; a subscription that is open has had its
\* acknowledgement and no result yet.
FramesOf(m) ==
  /\ \A j \in DOMAIN frames[m] : /\ frames[m][j] = "ack" <=> j = 1
                                 /\ frames[m][j] = "result" => j = Len(frames[m])
  /\ m \in subs \cup farewell => frames[m] # <<>> /\ frames[m][Len(frames[m])] # "result"
  /\ frames[m] # <<>> /\ wireOpen =>
       \/ m \in subs \cup farewell
       \/ frames[m][Len(frames[m])] = "result"
       \/ \E n \in Msgs : Cancels(n, m)

FrameOrder == \A m \in Msgs : FramesOf(m)

\* A cancellation the pump is past leaves no subscription of its target.
CancelledListens ==
  \A m, n \in Msgs :
    ~closing /\ Cancels(n, m) /\ at[n] \in {"routing", "done"} => m \notin subs

Frames == frames \in [Msgs -> Seq({"ack", "note", "result"})]

EntryInv ==
  /\ TypeOK /\ Frames /\ InOrder /\ TeardownOrder /\ AwaitsFind /\ OneInstance
  /\ Deliveries /\ Unwritten /\ FrameOrder /\ CancelledListens

-----------------------------------------------------------------------------
(***************************************************************************)
(* Type correctness of a step.                                             *)
(***************************************************************************)
USE DEF input, entry, close, work, out, TornDown, Disposed, AfterListen, FarewellsSent, AtCapacity,
        FactoryAnswers

LEMMA MsgFacts == Msgs \subseteq Nat /\ None \notin Msgs /\ IsFiniteSet(Msgs)
<1>1. IsFiniteSet(1 .. MaxMessages)
  BY ServeStdioAssumption, FS_Interval
<1> QED BY <1>1, ServeStdioAssumption DEF Msgs, None

\* What deliver() does to the books of the channels.
LEMMA DeliverBooks ==
  ASSUME TypeOK, NEW i, NEW m \in Msgs, Deliver(i, m)
  PROVE  /\ UNCHANGED <<built, live>>
         /\ delivered' = IF i \in live THEN delivered \cup {<<i, m>>} ELSE delivered
         /\ delivered' \subseteq built \X Msgs
         /\ pending' \subseteq delivered' /\ working' \subseteq delivered'
BY DEF Deliver, TypeOK

LEMMA ClosesBooks ==
  ASSUME TypeOK, NEW S, CloseInstances(S)
  PROVE  /\ UNCHANGED <<built, delivered>> /\ live' = live \ S
         /\ pending' \subseteq delivered' /\ working' \subseteq delivered'
BY DEF CloseInstances, TypeOK

\* A subscription is only added below the limit.
LEMMA SubsBounded ==
  ASSUME TypeOK,
         \/ subs' \subseteq subs
         \/ \E m \in Msgs : subs' = subs \cup {m} /\ ~AtCapacity
  PROVE  subs' \subseteq Msgs /\ Cardinality(subs') <= MaxSubscriptions
<1>1. subs \in SUBSET Msgs /\ Cardinality(subs) <= MaxSubscriptions /\ MaxSubscriptions \in Nat
  BY ServeStdioAssumption DEF TypeOK
<1>2. IsFiniteSet(subs) /\ Cardinality(subs) \in Nat
  BY <1>1, MsgFacts, FS_Subset, FS_CardinalityType
<1>3. CASE subs' \subseteq subs
  <2>1. IsFiniteSet(subs') /\ Cardinality(subs') <= Cardinality(subs)
    BY <1>2, <1>3, FS_Subset
  <2>2. Cardinality(subs') \in Nat
    BY <2>1, FS_CardinalityType
  <2> QED BY <1>1, <1>2, <1>3, <2>1, <2>2
<1>4. ASSUME NEW m \in Msgs, subs' = subs \cup {m}, ~AtCapacity
      PROVE  subs' \subseteq Msgs /\ Cardinality(subs') <= MaxSubscriptions
  <2>1. Cardinality(subs') = IF m \in subs THEN Cardinality(subs) ELSE Cardinality(subs) + 1
    BY <1>2, <1>4, FS_AddElement
  <2> QED BY <1>1, <1>2, <1>4, <2>1
<1> QED BY <1>3, <1>4

\* What serving a message at the listen router does.
LEMMA ListenBooks ==
  ASSUME TypeOK, NEW m \in Msgs, TryServeListen(m)
  PROVE  /\ at' = [at EXCEPT ![m] = at'[m]] /\ at'[m] \in {"writing", "routing", "done"}
         /\ answers' \in [Msgs -> Nat]
         /\ subs' \subseteq Msgs /\ Cardinality(subs') <= MaxSubscriptions
<1>1. subs' \subseteq subs \/ (subs' = subs \cup {m} /\ ~AtCapacity)
  BY DEF TryServeListen, ServeListen
<1>2. subs' \subseteq Msgs /\ Cardinality(subs') <= MaxSubscriptions
  BY <1>1, SubsBounded
<1> QED
  BY <1>2 DEF TryServeListen, ServeListen, Goto, Answered, TypeOK

LEMMA TypeStep == EntryInv /\ [Next]_vars => TypeOK'
<1> SUFFICES ASSUME EntryInv, [Next]_vars PROVE TypeOK'
  OBVIOUS
<1>0. TypeOK /\ InOrder /\ TeardownOrder /\ AwaitsFind /\ OneInstance
  BY DEF EntryInv
<1>k. /\ Vocabulary \subseteq Kinds /\ MaxPublished \in Nat
      /\ {"writing", "done", "queued", "building", "connected", "draining", "discarded", "routing"}
           \subseteq Stages
  BY ServeStdioAssumption DEF Stages
<1> DEFINE Books == /\ built' \subseteq Msgs /\ live' \subseteq built'
                    /\ delivered' \subseteq built' \X Msgs
                    /\ pending' \subseteq delivered' /\ working' \subseteq delivered'
           Router == subs' \subseteq Msgs /\ Cardinality(subs') <= MaxSubscriptions
<1>b. ASSUME NEW i, NEW m \in Msgs, Deliver(i, m) PROVE Books
  BY <1>0, <1>b, DeliverBooks DEF TypeOK
<1>c. ASSUME NEW S, CloseInstances(S) PROVE Books
  BY <1>0, <1>c, ClosesBooks DEF TypeOK
<1>s. ASSUME UNCHANGED subs \/ subs' = {} PROVE Router
  BY <1>0, <1>s, SubsBounded
<1> USE <1>0, <1>k, MsgFacts DEF Goto, Answered
<1>1. ASSUME NEW m \in Msgs, NEW k \in Vocabulary, NEW t \in Msgs \cup {None}, Arrive(m, k, t)
      PROVE  TypeOK'
  <2>1. k \in Kinds /\ "queued" \in Stages
    OBVIOUS
  <2>2. at' \in [Msgs -> Stages] /\ kind' \in [Msgs -> Kinds \cup {"unsent"}]
    BY <1>1, <2>1 DEF Arrive, TypeOK
  <2>3. target' \in [Msgs -> Msgs \cup {None}]
    BY <1>1 DEF Arrive, TypeOK
  <2> QED BY <1>1, <2>2, <2>3 DEF Arrive, TypeOK, Negotiating
<1>2. ASSUME NEW m \in Msgs, ProcessPinned(m) PROVE TypeOK'
  <2>1. Books
    BY <1>2, <1>b DEF ProcessPinned, TypeOK
  <2>2. Router /\ answers' \in [Msgs -> Nat] /\ at' \in [Msgs -> Stages]
    BY <1>2, <1>s, ListenBooks DEF ProcessPinned, TypeOK
  <2> QED BY <1>2, <2>1, <2>2 DEF ProcessPinned, TypeOK, Negotiating
<1>3. ASSUME NEW m \in Msgs, Route(m) \/ ProcessProbe(m) PROVE TypeOK'
  <2>1. Books
    BY <1>3, <1>b DEF Route, ProcessProbe, TypeOK
  <2>2. at' \in [Msgs -> Stages]
    BY <1>3 DEF Route, ProcessProbe, TypeOK
  <2>3. UNCHANGED <<input, entry, close, discarding, abandoned, wireOpen, subs, out, published>>
    BY <1>3 DEF Route, ProcessProbe
  <2> QED BY <2>1, <2>2, <2>3 DEF TypeOK, Negotiating
<1>4. ASSUME NEW m \in Msgs, Written(m) \/ ProcessClosed(m) \/ ProcessFallback(m) \/ ProcessOpening(m)
      PROVE  TypeOK'
  <2>1. at' \in [Msgs -> Stages]
    BY <1>4 DEF Written, ProcessClosed, ProcessFallback, ProcessOpening, TypeOK
  <2>2. UNCHANGED <<input, entry, close, work, abandoned, wireOpen, subs, out, published>>
    BY <1>4 DEF Written, ProcessClosed, ProcessFallback, ProcessOpening
  <2>3. discarding' \in {discarding, instance}
    BY <1>4 DEF Written, ProcessClosed, ProcessFallback, ProcessOpening
  <2> QED BY <2>1, <2>2, <2>3 DEF TypeOK, Negotiating
<1>5. ASSUME NEW m \in Msgs, ProcessRefused(m) \/ FactoryFails(m) PROVE TypeOK'
  <2>1. at' \in [Msgs -> Stages] /\ answers' \in [Msgs -> Nat]
    BY <1>5 DEF ProcessRefused, FactoryFails, TypeOK
  <2>2. UNCHANGED <<input, entry, close, discarding, work, abandoned, wireOpen, subs, frames, published>>
    BY <1>5 DEF ProcessRefused, FactoryFails
  <2> QED BY <2>1, <2>2 DEF TypeOK, Negotiating
<1>6. ASSUME NEW m \in Msgs, ProcessCommit(m) PROVE TypeOK'
  BY <1>6, ListenBooks DEF ProcessCommit, TypeOK, Negotiating
<1>7. ASSUME NEW m \in Msgs, FactoryBuilds(m) PROVE TypeOK'
  BY <1>7 DEF FactoryBuilds, TypeOK, Negotiating
<1>8. ASSUME NEW m \in Msgs, DisposeLate(m) PROVE TypeOK'
  BY <1>8, <1>c DEF DisposeLate, TypeOK, Negotiating
<1>9. ASSUME NEW m \in Msgs, Connected(m) PROVE TypeOK'
  <2>1. Books
    BY <1>9, <1>b DEF Connected, TypeOK
  <2>2. Router /\ answers' \in [Msgs -> Nat] /\ at' \in [Msgs -> Stages]
    BY <1>9, <1>s, ListenBooks DEF Connected, TypeOK
  <2>3. phase = "opening"
    BY <1>9 DEF Connected, AwaitsFind, AwaitFinds
  <2> QED BY <1>9, <2>1, <2>2, <2>3 DEF Connected, TypeOK, Negotiating, EraOf
<1>10. ASSUME NEW m \in Msgs, DiscardProbe(m) \/ DrainTimesOut(m) PROVE TypeOK'
  <2>1. Books
    BY <1>10, <1>c DEF DiscardProbe, DrainTimesOut, Discarded
  <2>2. UNCHANGED <<close, entry, subs>>
    BY <1>10 DEF DiscardProbe, DrainTimesOut, Discarded, InstanceClosed, EndsConnection, AwaitsFind, AwaitFinds
  <2>3. at' \in [Msgs -> Stages]
    BY <1>10 DEF DiscardProbe, DrainTimesOut, TypeOK
  <2>5. abandoned' \subseteq abandoned \cup PendingOf(instance) /\ PendingOf(instance) \subseteq Msgs
    BY <1>10 DEF DiscardProbe, DrainTimesOut, PendingOf
  <2>4. UNCHANGED <<input, discarding, wireOpen, out, published>>
    BY <1>10 DEF DiscardProbe, DrainTimesOut
  <2> QED BY <2>1, <2>2, <2>3, <2>4, <2>5 DEF TypeOK, Negotiating
<1>11. ASSUME NEW m \in Msgs, AfterDiscard(m) PROVE TypeOK'
  BY <1>11 DEF AfterDiscard, AwaitsFind, AwaitFinds, TypeOK, Negotiating
<1>12. CASE HandleClose
  BY <1>12, <1>s DEF HandleClose, CloseAll, TypeOK, Negotiating
<1>13. ASSUME NEW i \in Msgs, InstanceCloses(i) PROVE TypeOK'
  <2>1. Books
    BY <1>13, <1>c DEF InstanceCloses
  <2>2. Router
    BY <1>13, <1>s DEF InstanceCloses, InstanceClosed, CloseAll
  <2> QED BY <1>13, <2>1, <2>2 DEF InstanceCloses, InstanceClosed, CloseAll, PendingOf, TypeOK, Negotiating
<1>14. ASSUME NEW m \in Msgs, Farewell(m) PROVE TypeOK'
  BY <1>14 DEF Farewell, TypeOK, Negotiating
<1>15. CASE CloseAllContinues
  <2>1. Books
    BY <1>15, <1>c DEF CloseAllContinues, CloserGoesOn, TypeOK
  <2> QED BY <1>15, <2>1 DEF CloseAllContinues, CloserGoesOn, TypeOK, Negotiating
<1>16. CASE WireCloses
  <2>1. Books
    BY <1>16, <1>c DEF WireCloses, TypeOK
  <2> QED BY <1>16, <2>1 DEF WireCloses, TypeOK, Negotiating
<1>17. ASSUME NEW i \in Msgs, NEW m \in Msgs, InstanceAnswers(i, m) \/ InstanceDrops(i, m)
       PROVE  TypeOK'
  <2>1. answers' \in [Msgs -> Nat]
    BY <1>17 DEF InstanceAnswers, InstanceDrops, TypeOK
  <2>2. pending' \subseteq pending /\ working' \subseteq working
    BY <1>17 DEF InstanceAnswers, InstanceDrops
  <2>3. UNCHANGED <<input, at, entry, close, discarding, built, live, delivered, abandoned, wireOpen,
                    subs, frames, published>>
    BY <1>17 DEF InstanceAnswers, InstanceDrops
  <2> QED BY <2>1, <2>2, <2>3 DEF TypeOK, Negotiating
<1>18. ASSUME NEW i \in Msgs, Publish(i) PROVE TypeOK'
  BY <1>18 DEF Publish, TypeOK, Negotiating
<1>19. CASE UNCHANGED vars
  BY <1>19 DEF vars, TypeOK, Negotiating
<1> QED
  BY <1>1, <1>2, <1>3, <1>4, <1>5, <1>6, <1>7, <1>8, <1>9, <1>10, <1>11, <1>12, <1>13, <1>14,
     <1>15, <1>16, <1>17, <1>18, <1>19 DEF Next, Process, Continue

-----------------------------------------------------------------------------
(***************************************************************************)
(* The pump.  A step brings in a message, takes one further, or leaves the *)
(* queue alone.                                                            *)
(***************************************************************************)
Arrived(m) ==
  /\ at[m] = "unsent" /\ \A n \in Msgs : n < m => at[n] # "unsent"
  /\ at' = [at EXCEPT ![m] = "queued"]
  /\ \E k \in Kinds : /\ kind' = [kind EXCEPT ![m] = k]
                      /\ k = "cancel" => target'[m] \in Msgs /\ target'[m] < m
  /\ target' = [target EXCEPT ![m] = target'[m]]

Moved(m) ==
  /\ at[m] \notin {"unsent", "done"} /\ \A n \in Msgs : n < m => at[n] = "done"
  /\ at' = [at EXCEPT ![m] = at'[m]] /\ at'[m] \in Stages \ {"unsent", "queued"}
  /\ at[m] = "writing" => at'[m] = "done"
  /\ at'[m] = "writing" => kind[m] # "cancel"
  /\ UNCHANGED <<kind, target>>

LEMMA HeadOfQueue ==
  ASSUME TypeOK, InOrder, NEW m \in Msgs,
         AtHead(m) \/ at[m] \notin {"unsent", "queued", "done"}
  PROVE  at[m] \notin {"unsent", "done"} /\ \A n \in Msgs : n < m => at[n] = "done"
<1>1. CASE AtHead(m)
  <2> SUFFICES ASSUME NEW n \in Msgs, n < m PROVE at[n] = "done"
    BY <1>1 DEF AtHead
  <2>1. n \in 1 .. m - 1
    BY ServeStdioAssumption DEF Msgs
  <2> QED BY <1>1, <2>1 DEF AtHead, PumpIdle, InOrder
<1> QED BY <1>1 DEF InOrder

LEMMA PumpStep ==
  ASSUME EntryInv, [Next]_vars
  PROVE  \/ UNCHANGED <<at, kind, target>>
         \/ \E m \in Msgs : Arrived(m) \/ Moved(m)
<1>0. TypeOK /\ InOrder
  BY DEF EntryInv
<1>1. ASSUME NEW m \in Msgs, NEW k \in Vocabulary, NEW t \in Msgs \cup {None}, Arrive(m, k, t)
      PROVE  Arrived(m)
  <2>1. \A n \in Msgs : n < m => n \in 1 .. m - 1
    BY ServeStdioAssumption DEF Msgs
  <2>2. \A n \in 1 .. m - 1 : n \in Msgs /\ n < m
    BY ServeStdioAssumption DEF Msgs
  <2>3. at[m] = "unsent" /\ \A n \in Msgs : n < m => at[n] # "unsent"
    BY <1>0, <1>1, <2>1 DEF Arrive, InOrder
  <2>4. k \in Kinds
    BY ServeStdioAssumption
  <2>5. k = "cancel" => target'[m] \in Msgs /\ target'[m] < m
    BY <1>0, <1>1, <2>2 DEF Arrive, TypeOK
  <2> QED BY <1>0, <1>1, <2>3, <2>4, <2>5 DEF Arrive, Arrived, TypeOK
<1>2. ASSUME NEW m \in Msgs, Process(m) PROVE Moved(m)
  <2>1. AtHead(m)
    BY <1>2 DEF Process, ProcessPinned, ProcessClosed, ProcessRefused, ProcessProbe, ProcessCommit,
                ProcessFallback, ProcessOpening
  <2>2. /\ at[m] = "queued" /\ at[m] \notin {"unsent", "done"}
        /\ \A n \in Msgs : n < m => at[n] = "done"
    BY <1>0, <2>1, HeadOfQueue DEF AtHead
  <2>3. /\ at' = [at EXCEPT ![m] = at'[m]] /\ at'[m] \in Stages \ {"unsent", "queued"}
        /\ at'[m] = "writing" => kind[m] # "cancel"
        /\ UNCHANGED <<kind, target>>
    <3> USE <1>0 DEF TypeOK, Goto, Stages
    <3>1. CASE ProcessPinned(m)
      BY <3>1 DEF ProcessPinned, TryServeListen
    <3>2. CASE ProcessClosed(m)
      BY <3>2 DEF ProcessClosed
    <3>3. CASE ProcessRefused(m)
      BY <3>3 DEF ProcessRefused, RequestKinds
    <3>4. CASE ProcessProbe(m) \/ ProcessFallback(m) \/ ProcessOpening(m)
      BY <3>4 DEF ProcessProbe, ProcessFallback, ProcessOpening
    <3>5. CASE ProcessCommit(m)
      BY <3>5 DEF ProcessCommit, TryServeListen
    <3> QED BY <1>2, <3>1, <3>2, <3>3, <3>4, <3>5 DEF Process
  <2> QED BY <2>2, <2>3 DEF Moved
<1>3. ASSUME NEW m \in Msgs,
             Continue(m) \/ FactoryBuilds(m) \/ FactoryFails(m) \/ DrainTimesOut(m)
      PROVE  Moved(m)
  <2>1. at[m] \notin {"unsent", "queued", "done"}
    BY <1>3 DEF Continue, Route, Written, DisposeLate, Connected, DiscardProbe, AfterDiscard,
                FactoryBuilds, FactoryFails, DrainTimesOut
  <2>2. at[m] \notin {"unsent", "done"} /\ \A n \in Msgs : n < m => at[n] = "done"
    BY <1>0, <2>1, HeadOfQueue
  <2>3. /\ at' = [at EXCEPT ![m] = at'[m]] /\ at'[m] \in Stages \ {"unsent", "queued"}
        /\ at[m] = "writing" => at'[m] = "done"
        /\ at'[m] = "writing" => kind[m] # "cancel"
        /\ UNCHANGED <<kind, target>>
    <3> USE <1>0 DEF TypeOK, Goto, Stages
    <3>1. CASE Route(m) \/ Written(m) \/ DisposeLate(m)
      BY <3>1 DEF Route, Written, DisposeLate
    <3>2. CASE Connected(m)
      BY <3>2 DEF Connected, TryServeListen
    <3>3. CASE DiscardProbe(m) \/ DrainTimesOut(m)
      BY <3>3 DEF DiscardProbe, DrainTimesOut
    <3>4. CASE AfterDiscard(m) \/ FactoryBuilds(m)
      BY <3>4 DEF AfterDiscard, FactoryBuilds
    <3>5. CASE FactoryFails(m)
      BY <3>5 DEF FactoryFails, RequestKinds
    <3> QED BY <1>3, <3>1, <3>2, <3>3, <3>4, <3>5 DEF Continue
  <2> QED BY <2>2, <2>3 DEF Moved
<1>4. ASSUME \/ HandleClose \/ WireCloses \/ CloseAllContinues \/ UNCHANGED vars
             \/ \E i \in Msgs : InstanceCloses(i) \/ Publish(i) \/ Farewell(i)
             \/ \E i, m \in Msgs : InstanceAnswers(i, m) \/ InstanceDrops(i, m)
      PROVE  UNCHANGED <<at, kind, target>>
  BY <1>4 DEF HandleClose, WireCloses, CloseAllContinues, vars, InstanceCloses, Publish, Farewell,
              InstanceAnswers, InstanceDrops
<1> QED BY <1>1, <1>2, <1>3, <1>4 DEF Next

LEMMA InOrderStep == EntryInv /\ [Next]_vars => InOrder'
<1> SUFFICES ASSUME EntryInv, [Next]_vars PROVE InOrder'
  OBVIOUS
<1> USE MsgFacts
<1>0. TypeOK /\ InOrder
  BY DEF EntryInv
<1>1. ASSUME NEW p \in Msgs, Arrived(p) PROVE InOrder'
  <2> PICK k \in Kinds : /\ kind' = [kind EXCEPT ![p] = k]
                         /\ k = "cancel" => target'[p] \in Msgs /\ target'[p] < p
    BY <1>1 DEF Arrived
  <2>1. k # "unsent"
    BY DEF Kinds, LegacyKinds, ModernKinds
  <2>2. /\ at'[p] = "queued" /\ kind'[p] = k
        /\ \A n \in Msgs : n # p => at'[n] = at[n] /\ kind'[n] = kind[n] /\ target'[n] = target[n]
    BY <1>0, <1>1 DEF Arrived, TypeOK
  <2>3. \A n, m \in Msgs : m < n =>
          /\ at'[n] # "unsent" => at'[m] # "unsent"
          /\ at'[n] \notin {"unsent", "queued"} => at'[m] = "done"
    BY <1>0, <1>1, <2>2 DEF Arrived, InOrder
  <2> QED BY <1>0, <2>1, <2>2, <2>3 DEF InOrder
<1>2. ASSUME NEW p \in Msgs, Moved(p) PROVE InOrder'
  <2>1. /\ at'[p] \notin {"unsent", "queued"} /\ UNCHANGED <<kind, target>>
        /\ \A n \in Msgs : n # p => at'[n] = at[n]
    BY <1>0, <1>2 DEF Moved, TypeOK
  <2>2. \A n, m \in Msgs : m < n =>
          /\ at'[n] # "unsent" => at'[m] # "unsent"
          /\ at'[n] \notin {"unsent", "queued"} => at'[m] = "done"
    BY <1>0, <1>2, <2>1 DEF Moved, InOrder
  <2> QED BY <1>0, <1>2, <2>1, <2>2 DEF InOrder, Moved
<1>3. CASE UNCHANGED <<at, kind, target>>
  BY <1>0, <1>3 DEF InOrder
<1> QED BY <1>1, <1>2, <1>3, PumpStep

\* What a step cannot take back: what a message is, and how far the pump is.
LEMMA Settled ==
  ASSUME EntryInv, [Next]_vars, NEW m \in Msgs
  PROVE  /\ at[m] # "unsent" => at'[m] # "unsent" /\ kind'[m] = kind[m] /\ target'[m] = target[m]
         /\ at[m] = "done" => at'[m] = "done"
         /\ at[m] \in {"writing", "done"} => at'[m] \in {"writing", "done"}
<1>0. TypeOK
  BY DEF EntryInv
<1> QED BY <1>0, PumpStep DEF Arrived, Moved, TypeOK

-----------------------------------------------------------------------------
(***************************************************************************)
(* The teardown, the awaits and the instances.                             *)
(***************************************************************************)
\* What closeAll, and the two steps that may call it, do to the connection.
LEMMA EndBooks ==
  ASSUME CloseAll \/ (\E i : InstanceClosed(i))
  PROVE  \/ closing' = TRUE /\ phase' = "closed" /\ farewell' = subs /\ subs' = {}
              /\ closer' = "sending" /\ UNCHANGED <<era, instance>>
         \/ UNCHANGED <<close, entry, subs>>
BY DEF CloseAll, InstanceClosed

\* The pump's own discard does not end the connection.
LEMMA DiscardSpares ==
  ASSUME EntryInv, NEW m \in Msgs, at[m] = "draining", Discarded(instance)
  PROVE  UNCHANGED <<close, entry, subs>>
BY DEF EntryInv, AwaitsFind, AwaitFinds, Discarded, InstanceClosed, EndsConnection

LEMMA TeardownStep == EntryInv /\ [Next]_vars => TeardownOrder'
<1> SUFFICES ASSUME EntryInv, [Next]_vars PROVE TeardownOrder'
  OBVIOUS
<1>0. TypeOK /\ TeardownOrder /\ AwaitsFind
  BY DEF EntryInv
<1> USE <1>0 DEF TeardownOrder, Negotiating
<1>q. ASSUME UNCHANGED <<close, entry, wireOpen, subs>> PROVE TeardownOrder'
  BY <1>q
<1>1. ASSUME NEW m \in Msgs, Process(m) PROVE TeardownOrder'
  <2>1. CASE ProcessPinned(m)
    BY <2>1 DEF ProcessPinned
  <2>2. CASE ProcessCommit(m)
    BY <2>2 DEF ProcessCommit
  <2>3. CASE ProcessClosed(m) \/ ProcessRefused(m) \/ ProcessProbe(m) \/ ProcessFallback(m)
                \/ ProcessOpening(m)
    BY <1>q, <2>3 DEF ProcessClosed, ProcessRefused, ProcessProbe, ProcessFallback, ProcessOpening
  <2> QED BY <1>1, <2>1, <2>2, <2>3 DEF Process
<1>2. ASSUME NEW m \in Msgs, Continue(m) PROVE TeardownOrder'
  <2>1. CASE Route(m) \/ Written(m) \/ DisposeLate(m)
    BY <1>q, <2>1 DEF Route, Written, DisposeLate
  <2>2. CASE Connected(m)
    <3>1. phase = "opening" /\ subs = {} /\ ~closing
      BY <2>2 DEF Connected, AwaitsFind, AwaitFinds
    <3> QED BY <2>2, <3>1 DEF Connected
  <2>3. CASE DiscardProbe(m)
    BY <1>q, <2>3, DiscardSpares DEF DiscardProbe
  <2>4. CASE AfterDiscard(m)
    <3>1. ~closing => phase = "probe"
      BY <2>4 DEF AfterDiscard, AwaitsFind, AwaitFinds
    <3> QED BY <2>4, <3>1 DEF AfterDiscard
  <2> QED BY <1>2, <2>1, <2>2, <2>3, <2>4 DEF Continue
<1>3. ASSUME NEW m \in Msgs, FactoryBuilds(m) \/ FactoryFails(m) \/ DrainTimesOut(m)
      PROVE  TeardownOrder'
  BY <1>q, <1>3, DiscardSpares DEF FactoryBuilds, FactoryFails, DrainTimesOut
<1>4. ASSUME NEW m \in Msgs, Farewell(m) PROVE TeardownOrder'
  BY <1>4 DEF Farewell
<1>5. CASE HandleClose
  BY <1>5 DEF HandleClose, CloseAll
<1>6. ASSUME NEW i \in Msgs, InstanceCloses(i) PROVE TeardownOrder'
  <2>1. InstanceClosed(i) /\ UNCHANGED wireOpen
    BY <1>6 DEF InstanceCloses
  <2>2. CASE UNCHANGED <<close, entry, subs>>
    BY <1>q, <2>1, <2>2
  <2>3. CASE CloseAll
    BY <2>1, <2>3 DEF CloseAll
  <2> QED BY <2>1, <2>2, <2>3 DEF InstanceClosed
<1>7. CASE CloseAllContinues
  BY <1>7 DEF CloseAllContinues, CloserGoesOn
<1>8. CASE WireCloses
  BY <1>8 DEF WireCloses
<1>9. ASSUME \/ \E m \in Msgs : \E k \in Vocabulary, t \in Msgs \cup {None} : Arrive(m, k, t)
             \/ \E i \in Msgs : Publish(i)
             \/ \E i, m \in Msgs : InstanceAnswers(i, m) \/ InstanceDrops(i, m)
             \/ UNCHANGED vars
      PROVE  TeardownOrder'
  BY <1>q, <1>9 DEF Arrive, Publish, InstanceAnswers, InstanceDrops, vars
<1> QED BY <1>1, <1>2, <1>3, <1>4, <1>5, <1>6, <1>7, <1>8, <1>9 DEF Next

\* One message at a time is between the queue and the end.
LEMMA OneAtATime ==
  ASSUME InOrder, NEW m \in Msgs, NEW n \in Msgs, m # n, at[m] \notin {"unsent", "queued", "done"}
  PROVE  at[n] \in {"unsent", "queued", "done"}
BY MsgFacts DEF InOrder

LEMMA AwaitsStep == EntryInv /\ [Next]_vars => AwaitsFind'
<1> SUFFICES ASSUME EntryInv, [Next]_vars, NEW m \in Msgs PROVE AwaitFinds(m)'
  BY DEF AwaitsFind
<1>0. /\ TypeOK /\ InOrder /\ AwaitFinds(m) /\ AwaitsFind
      /\ closing <=> phase = "closed"
  BY DEF EntryInv, AwaitsFind, TeardownOrder
<1>t. at \in [Msgs -> Stages]
  BY <1>0 DEF TypeOK
<1> USE DEF Goto
\* A step elsewhere in the pump finds m in no await.
<1>e. ASSUME NEW p \in Msgs, p # m, at[p] \notin {"unsent", "done"}, \/ AtHead(p)
                                                               \/ at[p] # "queued",
             at' = [at EXCEPT ![p] = at'[p]]
      PROVE  AwaitFinds(m)'
  <2>1. at[m] \in {"unsent", "queued", "done"}
    BY <1>0, <1>e, OneAtATime DEF AtHead, PumpIdle
  <2>2. at'[m] = at[m]
    BY <1>e, <1>t
  <2> QED BY <2>1, <2>2 DEF AwaitFinds
<1>1. ASSUME NEW p \in Msgs, Process(p) PROVE AwaitFinds(m)'
  <2>1. AtHead(p) /\ at[p] = "queued"
    BY <1>1 DEF Process, ProcessPinned, ProcessClosed, ProcessRefused, ProcessProbe, ProcessCommit,
                ProcessFallback, ProcessOpening, AtHead
  <2>2. /\ at' = [at EXCEPT ![p] = at'[p]]
        /\ at'[p] \in {"building", "draining", "writing", "routing", "done"}
        /\ at'[p] = "building" => phase' = "opening"
        /\ at'[p] = "draining" => phase' = "probe" /\ discarding' = instance'
    <3> USE <1>t
    <3>1. CASE ProcessPinned(p)
      BY <3>1 DEF ProcessPinned, TryServeListen
    <3>2. CASE ProcessClosed(p) \/ ProcessRefused(p) \/ ProcessProbe(p)
      BY <3>2 DEF ProcessClosed, ProcessRefused, ProcessProbe
    <3>3. CASE ProcessCommit(p)
      BY <3>3 DEF ProcessCommit, TryServeListen
    <3>4. CASE ProcessFallback(p) \/ ProcessOpening(p)
      BY <3>4 DEF ProcessFallback, ProcessOpening
    <3> QED BY <1>1, <3>1, <3>2, <3>3, <3>4 DEF Process
  <2> QED BY <1>e, <2>1, <2>2 DEF AwaitFinds
<1>2. ASSUME NEW p \in Msgs, Route(p) \/ Written(p) \/ DisposeLate(p) \/ FactoryFails(p)
      PROVE  AwaitFinds(m)'
  <2>1. /\ at[p] \notin {"unsent", "queued", "done"} /\ at' = [at EXCEPT ![p] = at'[p]]
        /\ at'[p] \in {"writing", "done"}
    BY <1>t, <1>2 DEF Route, Written, DisposeLate, FactoryFails
  <2> QED BY <1>e, <2>1 DEF AwaitFinds
<1>3. ASSUME NEW p \in Msgs, Connected(p) PROVE AwaitFinds(m)'
  <2>1. /\ at[p] = "connected" /\ at' = [at EXCEPT ![p] = at'[p]]
        /\ at'[p] \in {"writing", "routing", "done"}
    BY <1>t, <1>3 DEF Connected, TryServeListen
  <2> QED BY <1>e, <2>1 DEF AwaitFinds
<1>4. ASSUME NEW p \in Msgs, DiscardProbe(p) \/ DrainTimesOut(p) PROVE AwaitFinds(m)'
  <2>1. /\ at[p] = "draining" /\ at' = [at EXCEPT ![p] = at'[p]] /\ at'[p] = "discarded"
        /\ UNCHANGED discarding /\ Discarded(instance)
    BY <1>t, <1>4 DEF DiscardProbe, DrainTimesOut
  <2>2. UNCHANGED <<close, entry, subs>> /\ instance \notin live'
    BY <2>1, DiscardSpares DEF Discarded, CloseInstances
  <2>3. p = m => AwaitFinds(m)'
    BY <1>0, <2>1, <2>2 DEF AwaitFinds
  <2> QED BY <1>e, <2>1, <2>3
<1>5. ASSUME NEW p \in Msgs, AfterDiscard(p) PROVE AwaitFinds(m)'
  <2>1. /\ at[p] = "discarded" /\ at' = [at EXCEPT ![p] = at'[p]] /\ at'[p] \in {"building", "done"}
        /\ at'[p] = "building" => phase' = "opening"
    BY <1>t, <1>5 DEF AfterDiscard
  <2> QED BY <1>e, <2>1 DEF AwaitFinds
<1>6. ASSUME NEW p \in Msgs, FactoryBuilds(p) PROVE AwaitFinds(m)'
  <2>1. /\ at[p] = "building" /\ at' = [at EXCEPT ![p] = at'[p]] /\ at'[p] = "connected"
        /\ UNCHANGED <<entry, close>>
    BY <1>t, <1>6 DEF FactoryBuilds
  <2>2. p = m => AwaitFinds(m)'
    BY <1>0, <2>1 DEF AwaitFinds
  <2> QED BY <1>e, <2>1, <2>2
\* Steps outside the pump close instances, or the connection.
<1>q. ASSUME at'[m] = at[m], UNCHANGED discarding, live' \subseteq live,
             \/ UNCHANGED <<phase, instance>> /\ closing' = closing
             \/ closing' = TRUE /\ UNCHANGED instance
      PROVE  AwaitFinds(m)'
  BY <1>0, <1>q DEF AwaitFinds
<1>7. ASSUME NEW p \in Msgs, NEW k \in Vocabulary, NEW t \in Msgs \cup {None}, Arrive(p, k, t)
      PROVE  AwaitFinds(m)'
  BY <1>0, <1>t, <1>7 DEF Arrive, AwaitFinds
<1>8. CASE HandleClose
  BY <1>q, <1>8 DEF HandleClose, CloseAll
<1>9. ASSUME NEW i \in Msgs, InstanceCloses(i) PROVE AwaitFinds(m)'
  BY <1>q, <1>9, EndBooks DEF InstanceCloses, CloseInstances
<1>10. CASE CloseAllContinues
  BY <1>q, <1>10 DEF CloseAllContinues, CloserGoesOn, CloseInstances
<1>11. CASE WireCloses
  BY <1>q, <1>11 DEF WireCloses, CloseInstances
<1>12. ASSUME \/ \E p \in Msgs : Farewell(p) \/ Publish(p)
              \/ \E i, p \in Msgs : InstanceAnswers(i, p) \/ InstanceDrops(i, p)
              \/ UNCHANGED vars
       PROVE  AwaitFinds(m)'
  BY <1>q, <1>12 DEF Farewell, Publish, InstanceAnswers, InstanceDrops, vars
<1> QED
  BY <1>1, <1>2, <1>3, <1>4, <1>5, <1>6, <1>7, <1>8, <1>9, <1>10, <1>11, <1>12 DEF Next, Continue

LEMMA InstanceStep == EntryInv /\ [Next]_vars => OneInstance'
<1> SUFFICES ASSUME EntryInv, [Next]_vars PROVE OneInstance'
  OBVIOUS
<1>0. TypeOK /\ InOrder /\ AwaitsFind /\ OneInstance /\ at \in [Msgs -> Stages]
  BY DEF EntryInv, TypeOK
<1> DEFINE Early == {"unsent", "queued", "building", "draining", "discarded"}
<1> USE DEF Goto
\* A step that builds nothing and leaves the entry its instance.
<1>q. ASSUME UNCHANGED <<built, instance>>, live' \subseteq live,
             \A n \in Msgs : /\ at'[n] \in Early => at[n] \in Early
                             /\ n \in live' /\ at[n] = "connected" => at'[n] = "connected"
      PROVE  OneInstance'
  <2>1. \A n \in Msgs : at'[n] \in Early => n \notin built'
    <3> TAKE n \in Msgs
    <3>1. at'[n] \in Early => at[n] \in Early
      BY <1>q
    <3> QED BY <1>0, <1>q, <3>1 DEF OneInstance
  <2>2. \A i \in live' : i = instance' \/ at'[i] = "connected"
    <3> TAKE i \in live'
    <3>1. i \in live /\ i \in Msgs
      BY <1>0, <1>q DEF TypeOK
    <3>2. at[i] = "connected" => at'[i] = "connected"
      BY <1>q, <3>1
    <3> QED BY <1>0, <1>q, <3>1, <3>2 DEF OneInstance
  <2> QED BY <2>1, <2>2 DEF OneInstance
<1>1. ASSUME NEW m \in Msgs, Process(m) PROVE OneInstance'
  <2>1. AtHead(m) /\ UNCHANGED <<built, instance, live>> /\ at' = [at EXCEPT ![m] = at'[m]]
    BY <1>1 DEF Process, ProcessPinned, ProcessClosed, ProcessRefused, ProcessProbe, ProcessCommit,
                ProcessFallback, ProcessOpening, TryServeListen, Deliver
  <2> QED BY <1>0, <1>q, <2>1 DEF AtHead
<1>2. ASSUME NEW m \in Msgs, \/ Route(m) \/ Written(m) \/ DisposeLate(m) \/ FactoryFails(m)
                             \/ DiscardProbe(m) \/ DrainTimesOut(m)
      PROVE  OneInstance'
  <2>1. UNCHANGED instance
    BY <1>2, DiscardSpares DEF Route, Written, DisposeLate, FactoryFails, DiscardProbe, DrainTimesOut
  <2>2. UNCHANGED built /\ live' \subseteq live
    BY <1>2 DEF Route, Written, DisposeLate, FactoryFails, DiscardProbe, DrainTimesOut, Deliver,
                Discarded, CloseInstances
  <2>3. /\ at[m] \in {"routing", "writing", "connected", "building", "draining"}
        /\ at' = [at EXCEPT ![m] = at'[m]]
        /\ at'[m] \in Early => at[m] \in Early
        /\ at[m] = "connected" => m \notin live'
    BY <1>0, <1>2 DEF Route, Written, DisposeLate, FactoryFails, DiscardProbe, DrainTimesOut,
                      CloseInstances
  <2> QED BY <1>0, <1>q, <2>1, <2>2, <2>3
<1>3. ASSUME NEW m \in Msgs, Connected(m) PROVE OneInstance'
  <2>1. phase = "opening" /\ instance = None
    BY <1>0, <1>3 DEF Connected, AwaitsFind, AwaitFinds, TypeOK
  <2>2. \A n \in Msgs : n # m => at[n] # "connected"
    BY <1>0, <1>3, OneAtATime DEF Connected
  <2>3. /\ instance' = m /\ UNCHANGED <<built, live>> /\ at' = [at EXCEPT ![m] = at'[m]]
        /\ at'[m] \in {"writing", "routing", "done"}
    BY <1>0, <1>3 DEF Connected, TryServeListen, Deliver
  <2>4. live \subseteq Msgs
    BY <1>0 DEF TypeOK
  <2> QED BY <1>0, <2>1, <2>2, <2>3, <2>4, MsgFacts DEF OneInstance
<1>4. ASSUME NEW m \in Msgs, AfterDiscard(m) PROVE OneInstance'
  <2>1. instance \notin live /\ at[m] = "discarded"
    BY <1>0, <1>4 DEF AfterDiscard, AwaitsFind, AwaitFinds
  <2>2. /\ UNCHANGED <<built, live>> /\ at' = [at EXCEPT ![m] = at'[m]]
        /\ at'[m] \in {"done", "building"}
    BY <1>0, <1>4 DEF AfterDiscard
  <2> QED BY <1>0, <2>1, <2>2 DEF OneInstance, TypeOK
<1>5. ASSUME NEW m \in Msgs, FactoryBuilds(m) PROVE OneInstance'
  BY <1>0, <1>5 DEF FactoryBuilds, OneInstance, TypeOK
<1>6. ASSUME NEW m \in Msgs, NEW k \in Vocabulary, NEW t \in Msgs \cup {None}, Arrive(m, k, t)
      PROVE  OneInstance'
  <2>1. at[m] = "unsent"
    BY <1>0, <1>6 DEF Arrive, InOrder
  <2> QED BY <1>0, <1>q, <1>6, <2>1 DEF Arrive
<1>7. ASSUME \/ HandleClose \/ CloseAllContinues \/ WireCloses \/ UNCHANGED vars
             \/ \E i \in Msgs : Farewell(i) \/ Publish(i) \/ InstanceCloses(i)
             \/ \E i, m \in Msgs : InstanceAnswers(i, m) \/ InstanceDrops(i, m)
      PROVE  OneInstance'
  <2>1. UNCHANGED <<at, instance>>
    BY <1>7, EndBooks DEF HandleClose, CloseAll, CloseAllContinues, WireCloses, vars, Farewell, Publish,
       InstanceCloses, InstanceAnswers, InstanceDrops
  <2>2. UNCHANGED built /\ live' \subseteq live
    BY <1>7 DEF HandleClose, CloseAllContinues, CloserGoesOn, WireCloses, vars, Farewell, Publish,
       InstanceCloses, InstanceAnswers, InstanceDrops, CloseInstances
  <2> QED BY <1>q, <2>1, <2>2
<1> QED
  BY <1>1, <1>2, <1>3, <1>4, <1>5, <1>6, <1>7 DEF Next, Continue

-----------------------------------------------------------------------------
(***************************************************************************)
(* What becomes of a delivered request.                                    *)
(***************************************************************************)
\* Nothing is delivered to i: what is cancelled there stays as it is.
LEMMA CancelledSame ==
  ASSUME EntryInv, [Next]_vars, UNCHANGED delivered, NEW i \in Msgs, NEW m \in Msgs
  PROVE  CancelledAt(i, m)' = CancelledAt(i, m)
<1>1. \A n \in Msgs : <<i, n>> \in delivered => at[n] # "unsent"
  BY DEF EntryInv, Deliveries
<1>2. \A n \in Msgs : <<i, n>> \in delivered => Cancels(n, m)' = Cancels(n, m)
  BY <1>1, Settled DEF Cancels
<1>3. \A n \in Msgs : <<i, n>> \in delivered' <=> <<i, n>> \in delivered
  OBVIOUS
<1> QED BY <1>2, <1>3 DEF CancelledAt

LEMMA CancelledMore ==
  ASSUME EntryInv, [Next]_vars, NEW i \in Msgs, NEW m \in Msgs, NEW j \in Msgs, NEW p \in Msgs,
         at[p] # "unsent", delivered' = delivered \cup {<<j, p>>}
  PROVE  CancelledAt(i, m)' <=> CancelledAt(i, m) \/ (i = j /\ Cancels(p, m))
<1>1. \A n \in Msgs : <<i, n>> \in delivered => at[n] # "unsent"
  BY DEF EntryInv, Deliveries
<1>2. \A n \in Msgs : <<i, n>> \in delivered \/ n = p => Cancels(n, m)' = Cancels(n, m)
  BY <1>1, Settled DEF Cancels
<1>3. \A n \in Msgs : <<i, n>> \in delivered' <=> <<i, n>> \in delivered \/ (i = j /\ n = p)
  OBVIOUS
<1> QED BY <1>2, <1>3 DEF CancelledAt

\* Nothing is delivered to the channels, and none of them closes.
LEMMA QuietKeeps ==
  ASSUME EntryInv, [Next]_vars, UNCHANGED <<delivered, pending, working, abandoned>>,
         live \subseteq live', live' \cap built \subseteq live, closing => closing',
         \/ UNCHANGED answers
         \/ \E q \in Msgs : /\ answers' = [answers EXCEPT ![q] = answers[q] + 1]
                            /\ \A j \in Msgs : <<j, q>> \notin delivered
  PROVE  Deliveries'
<1>0. TypeOK /\ Deliveries
  BY DEF EntryInv
<1>1. \A i, m \in Msgs : <<i, m>> \in delivered => i \in built /\ answers'[m] = answers[m]
  BY <1>0 DEF TypeOK
<1>2. \A i, m \in Msgs : CancelledAt(i, m)' = CancelledAt(i, m)
  BY CancelledSame
<1>3. \A i, m \in Msgs : <<i, m>> \in delivered => at[m] = "done" /\ at'[m] = "done" /\ kind'[m] = kind[m]
  BY <1>0, Settled DEF Deliveries
<1>4. \A m \in Msgs : at[m] = "done" => at'[m] = "done"
  BY Settled
<1>5. pending \subseteq delivered /\ working \subseteq delivered /\ abandoned \subseteq Msgs
  BY <1>0 DEF TypeOK
<1> QED BY <1>0, <1>1, <1>2, <1>3, <1>4, <1>5 DEF Deliveries

\* Some instances close; what they still owed is theirs to give up on.
LEMMA CloseKeeps ==
  ASSUME EntryInv, [Next]_vars, NEW S, CloseInstances(S), UNCHANGED answers, closing => closing',
         \A m \in abandoned' : m \in abandoned \/ \E i \in S \cap Msgs : m \in PendingOf(i),
         abandoned \subseteq abandoned',
         ~closing' => \A i \in S \cap Msgs : PendingOf(i) \subseteq abandoned'
  PROVE  Deliveries'
<1>0. TypeOK /\ Deliveries
  BY DEF EntryInv
<1>1. /\ UNCHANGED <<delivered, built>> /\ live' = live \ S
      /\ \A i, m \in Msgs : /\ <<i, m>> \in pending' <=> <<i, m>> \in pending /\ i \notin S
                            /\ <<i, m>> \in working' => <<i, m>> \in working
  BY DEF CloseInstances
<1>2. \A i, m \in Msgs : CancelledAt(i, m)' = CancelledAt(i, m)
  BY <1>1, CancelledSame
<1>3. \A i, m \in Msgs : <<i, m>> \in delivered => at[m] = "done" /\ at'[m] = "done" /\ kind'[m] = kind[m]
  BY <1>0, Settled DEF Deliveries
<1>4. \A m \in Msgs : at[m] = "done" => at'[m] = "done"
  BY Settled
<1>5. pending \subseteq delivered /\ working \subseteq delivered /\ abandoned \subseteq Msgs
  BY <1>0 DEF TypeOK
<1>6. /\ \A i, m \in Msgs : <<i, m>> \in delivered' => at'[m] = "done"
      /\ \A i, j, m \in Msgs : <<i, m>> \in delivered' /\ <<j, m>> \in delivered' => i = j
      /\ \A i, m \in Msgs : <<i, m>> \in working' => answers'[m] = 0
  BY <1>0, <1>1, <1>3 DEF Deliveries
<1>7. \A i, m \in Msgs : <<i, m>> \in pending' => i \in live' /\ ~CancelledAt(i, m)'
  BY <1>0, <1>1, <1>2 DEF Deliveries
<1>8. ASSUME NEW m \in abandoned'
      PROVE  /\ at'[m] = "done"
             /\ \A i \in Msgs : <<i, m>> \in delivered' => i \notin live' /\ ~CancelledAt(i, m)'
  <2>1. CASE m \in abandoned
    BY <1>0, <1>1, <1>2, <1>4, <1>5, <2>1 DEF Deliveries
  <2>2. ASSUME NEW j \in S \cap Msgs, m \in PendingOf(j)
        PROVE  /\ at'[m] = "done"
               /\ \A i \in Msgs : <<i, m>> \in delivered' => i \notin live' /\ ~CancelledAt(i, m)'
    <3>1. m \in Msgs /\ <<j, m>> \in pending /\ <<j, m>> \in delivered
      BY <1>5, <2>2 DEF PendingOf
    <3>2. ~CancelledAt(j, m)
      BY <1>0, <3>1 DEF Deliveries
    <3>3. \A i \in Msgs : <<i, m>> \in delivered => i = j
      BY <1>0, <3>1 DEF Deliveries
    <3> QED BY <1>1, <1>2, <1>3, <3>1, <3>2, <3>3
  <2> QED BY <1>8, <2>1, <2>2
<1>9. ASSUME NEW i \in Msgs, NEW m \in Msgs, ~closing', <<i, m>> \in delivered', kind'[m] \in RequestKinds
      PROVE  <<i, m>> \in pending' \/ answers'[m] = 1 \/ CancelledAt(i, m)' \/ m \in abandoned'
  <2>1. <<i, m>> \in pending \/ answers[m] = 1 \/ CancelledAt(i, m) \/ m \in abandoned
    BY <1>0, <1>1, <1>3, <1>9 DEF Deliveries
  <2>2. <<i, m>> \in pending /\ i \in S => m \in abandoned'
    BY <1>9 DEF PendingOf
  <2> QED BY <1>1, <1>2, <2>1, <2>2
<1> QED BY <1>6, <1>7, <1>8, <1>9 DEF Deliveries

\* A message is handed to an instance.
LEMMA DeliverKeeps ==
  ASSUME EntryInv, [Next]_vars, NEW i \in Msgs \cup {None}, NEW p \in Msgs, Deliver(i, p),
         at[p] \notin {"unsent", "writing", "done"}, at'[p] = "done",
         UNCHANGED <<kind, target, answers, abandoned, closing>>
  PROVE  Deliveries'
<1>0. TypeOK /\ Deliveries /\ Unwritten /\ InOrder
  BY DEF EntryInv
<1>1. CASE i \notin live
  BY <1>1, QuietKeeps DEF Deliver
<1>2. CASE i \in live
  <2>0. i \in Msgs
    BY <1>0, <1>2 DEF TypeOK
  <2>1. /\ delivered' = delivered \cup {<<i, p>>} /\ UNCHANGED <<built, live>>
        /\ \A j, m \in Msgs : <<j, m>> \in working' =>
             <<j, m>> \in working \/ <<j, m>> = <<i, p>>
    BY <1>2 DEF Deliver
  <2>2. \A j, m \in Msgs : <<j, m>> \in pending' <=>
          /\ <<j, m>> \in pending \/ (j = i /\ m = p /\ kind[p] \in RequestKinds)
          /\ ~(j = i /\ Cancels(p, m))
    BY <1>2 DEF Deliver, SettledBy, Cancels
  <2>3. \A j, m \in Msgs : CancelledAt(j, m)' <=> CancelledAt(j, m) \/ (j = i /\ Cancels(p, m))
    BY <2>0, <2>1, CancelledMore
  <2>4. \A j, m \in Msgs : <<j, m>> \in delivered => at[m] = "done" /\ at'[m] = "done" /\ m # p
    BY <1>0, Settled DEF Deliveries
  <2>5. pending \subseteq delivered /\ working \subseteq delivered /\ abandoned \subseteq Msgs
    BY <1>0 DEF TypeOK
  <2>6. \A j \in Msgs : ~CancelledAt(j, p)
    <3> SUFFICES ASSUME NEW j \in Msgs, NEW n \in Msgs, <<j, n>> \in delivered, Cancels(n, p)
                 PROVE  FALSE
      BY DEF CancelledAt
    <3>1. at[n] = "done" /\ p < n
      BY <1>0 DEF Deliveries, Cancels, InOrder
    <3> QED BY <1>0, <3>1 DEF InOrder
  <2>7. ~(Cancels(p, p)) /\ (kind[p] \in RequestKinds => \A m \in Msgs : ~Cancels(p, m))
    BY <1>0, MsgFacts DEF InOrder, Cancels, RequestKinds
  <2>8. answers[p] = 0
    BY <1>0 DEF Unwritten
  <2>9. \A m \in Msgs : at[m] = "done" => at'[m] = "done"
    BY Settled
  <2>10. /\ \A j, m \in Msgs : <<j, m>> \in delivered' => at'[m] = "done"
         /\ \A j, k, m \in Msgs : <<j, m>> \in delivered' /\ <<k, m>> \in delivered' => j = k
    BY <1>0, <2>1, <2>4 DEF Deliveries
  <2>11. \A j, m \in Msgs : <<j, m>> \in pending' => j \in live' /\ ~CancelledAt(j, m)'
    BY <1>0, <1>2, <2>1, <2>2, <2>3, <2>6 DEF Deliveries
  <2>12. \A j, m \in Msgs : <<j, m>> \in working' => answers'[m] = 0
    BY <1>0, <2>1, <2>8 DEF Deliveries
  <2>13. ASSUME NEW m \in abandoned'
         PROVE  /\ at'[m] = "done"
                /\ \A j \in Msgs : <<j, m>> \in delivered' => j \notin live' /\ ~CancelledAt(j, m)'
    BY <1>0, <1>2, <2>1, <2>3, <2>5, <2>9, <2>13 DEF Deliveries
  <2>14. ASSUME NEW j \in Msgs, NEW m \in Msgs, ~closing', <<j, m>> \in delivered', kind'[m] \in RequestKinds
         PROVE  <<j, m>> \in pending' \/ answers'[m] = 1 \/ CancelledAt(j, m)' \/ m \in abandoned'
    BY <1>0, <2>1, <2>2, <2>3, <2>7, <2>14 DEF Deliveries
  <2> QED BY <2>10, <2>11, <2>12, <2>13, <2>14 DEF Deliveries
<1> QED BY <1>1, <1>2

\* The handler of a request returns.
LEMMA SettleKeeps ==
  ASSUME EntryInv, [Next]_vars, NEW i \in Msgs, NEW p \in Msgs,
         InstanceAnswers(i, p) \/ InstanceDrops(i, p)
  PROVE  Deliveries'
<1>0. TypeOK /\ Deliveries /\ TeardownOrder
  BY DEF EntryInv
<1>1. /\ <<i, p>> \in working /\ working' = working \ {<<i, p>>}
      /\ UNCHANGED <<at, kind, delivered, live, abandoned, closing>>
      /\ \/ pending' = pending /\ UNCHANGED answers /\ CancelledAt(i, p)
         \/ pending' = pending \ {<<i, p>>} /\ Answered(p)
  BY DEF InstanceAnswers, InstanceDrops
<1>2. \A j, m \in Msgs : CancelledAt(j, m)' = CancelledAt(j, m)
  BY <1>1, CancelledSame
<1>3. <<i, p>> \in delivered /\ answers[p] = 0
  BY <1>0, <1>1 DEF TypeOK, Deliveries
<1>4. /\ \A m \in Msgs : m # p => answers'[m] = answers[m]
      /\ ~closing /\ ~UNCHANGED answers => answers'[p] = 1
      /\ ~closing /\ ~UNCHANGED pending => answers'[p] = 1
  BY <1>0, <1>1, <1>3 DEF Answered, TypeOK, TeardownOrder
<1>5. \A j, m \in Msgs : <<j, m>> \in working' => m # p
  BY <1>0, <1>1, <1>3 DEF Deliveries, TypeOK
<1>6. \A j, m \in Msgs : <<j, m>> \in working' => answers'[m] = 0
  BY <1>0, <1>1, <1>4, <1>5 DEF Deliveries
<1>7. \A j, m \in Msgs : <<j, m>> \in pending' => j \in live' /\ ~CancelledAt(j, m)'
  BY <1>0, <1>1, <1>2 DEF Deliveries
<1>8. ASSUME NEW j \in Msgs, NEW m \in Msgs, ~closing', <<j, m>> \in delivered', kind'[m] \in RequestKinds
      PROVE  <<j, m>> \in pending' \/ answers'[m] = 1 \/ CancelledAt(j, m)' \/ m \in abandoned'
  <2>1. <<j, m>> \in pending \/ answers[m] = 1 \/ CancelledAt(j, m) \/ m \in abandoned
    BY <1>0, <1>1, <1>8 DEF Deliveries
  <2>2. m = p => j = i
    BY <1>0, <1>1, <1>3, <1>8 DEF Deliveries
  <2> QED BY <1>1, <1>2, <1>3, <1>4, <1>8, <2>1, <2>2
<1>9. \A m \in abandoned' :
        /\ at'[m] = "done"
        /\ \A j \in Msgs : <<j, m>> \in delivered' => j \notin live' /\ ~CancelledAt(j, m)'
  BY <1>0, <1>1, <1>2 DEF Deliveries, TypeOK
<1> QED BY <1>0, <1>1, <1>6, <1>7, <1>8, <1>9 DEF Deliveries

LEMMA DeliveriesStep == EntryInv /\ [Next]_vars => Deliveries'
<1> SUFFICES ASSUME EntryInv, [Next]_vars PROVE Deliveries'
  OBVIOUS
<1>0. TypeOK /\ Deliveries /\ TeardownOrder /\ Unwritten /\ OneInstance /\ at \in [Msgs -> Stages]
  BY DEF EntryInv, TypeOK
<1>i. instance \in Msgs \cup {None} /\ (closing <=> phase = "closed")
  BY <1>0 DEF TypeOK, TeardownOrder
<1> USE DEF Goto
\* The pump writes an answer itself only for what it delivers to nobody.
<1>q. ASSUME UNCHANGED <<work, abandoned>>, closing => closing',
             UNCHANGED answers \/ \E m \in Msgs : Answered(m) /\ \A j \in Msgs : <<j, m>> \notin delivered
      PROVE  Deliveries'
  BY <1>q, QuietKeeps DEF Answered
<1>n. ASSUME NEW m \in Msgs, at[m] # "done" PROVE \A j \in Msgs : <<j, m>> \notin delivered
  BY <1>0, <1>n DEF Deliveries
<1>l. ASSUME NEW m \in Msgs, TryServeListen(m), at[m] # "done", UNCHANGED <<work, abandoned, closing>>
      PROVE  Deliveries'
  BY <1>n, <1>l, <1>q DEF TryServeListen, ServeListen
<1>1. ASSUME NEW m \in Msgs, Process(m) PROVE Deliveries'
  <2>1. at[m] = "queued"
    BY <1>1 DEF Process, ProcessPinned, ProcessClosed, ProcessRefused, ProcessProbe, ProcessCommit,
                ProcessFallback, ProcessOpening, AtHead
  <2>2. CASE ProcessPinned(m)
    <3>1. CASE era = "modern" /\ kind[m] = "initialize"
      BY <1>n, <1>q, <2>1, <2>2, <3>1 DEF ProcessPinned
    <3>2. CASE era = "modern" /\ kind[m] # "initialize"
      BY <1>l, <2>1, <2>2, <3>2 DEF ProcessPinned
    <3>3. CASE era = "legacy"
      <4>1. Deliver(instance, m) /\ at'[m] = "done" /\ UNCHANGED <<kind, target, answers, abandoned, closing>>
        BY <1>0, <2>2, <3>3 DEF ProcessPinned
      <4> QED BY <1>i, <2>1, <4>1, DeliverKeeps
    <3> QED BY <2>2, <3>1, <3>2, <3>3 DEF ProcessPinned
  <2>3. CASE ProcessProbe(m)
    <3>1. Deliver(instance, m) /\ at'[m] = "done" /\ UNCHANGED <<kind, target, answers, abandoned, closing>>
      BY <1>0, <2>3 DEF ProcessProbe
    <3> QED BY <1>i, <2>1, <3>1, DeliverKeeps
  <2>4. CASE ProcessCommit(m)
    BY <1>l, <2>1, <2>4 DEF ProcessCommit
  <2>5. CASE ProcessRefused(m)
    BY <1>n, <1>q, <2>1, <2>5 DEF ProcessRefused
  <2>6. CASE ProcessClosed(m) \/ ProcessFallback(m) \/ ProcessOpening(m)
    BY <1>q, <2>6 DEF ProcessClosed, ProcessFallback, ProcessOpening
  <2> QED BY <1>1, <2>2, <2>3, <2>4, <2>5, <2>6 DEF Process
<1>2. ASSUME NEW m \in Msgs, Route(m) PROVE Deliveries'
  <2>1. CASE TornDown
    BY <1>2, <1>q, <2>1 DEF Route
  <2>2. CASE ~TornDown
    <3>1. /\ Deliver(instance, m) /\ at'[m] = "done" /\ at[m] = "routing"
          /\ UNCHANGED <<kind, target, answers, abandoned, closing>>
      BY <1>0, <1>2, <2>2 DEF Route
    <3> QED BY <1>i, <3>1, DeliverKeeps
  <2> QED BY <2>1, <2>2
<1>3. ASSUME NEW m \in Msgs, Connected(m) PROVE Deliveries'
  <2>1. at[m] = "connected" /\ UNCHANGED <<kind, target, abandoned, closing>>
    BY <1>3 DEF Connected
  <2>2. CASE EraOf(m) = "legacy" \/ kind[m] = "discover"
    <3>1. Deliver(m, m) /\ at'[m] = "done" /\ UNCHANGED answers
      BY <1>0, <1>3, <2>2 DEF Connected
    <3> QED BY <2>1, <3>1, DeliverKeeps
  <2>3. CASE ~(EraOf(m) = "legacy" \/ kind[m] = "discover")
    BY <1>3, <1>l, <2>1, <2>3 DEF Connected
  <2> QED BY <2>2, <2>3
<1>4. ASSUME NEW m \in Msgs, Written(m) \/ AfterDiscard(m) PROVE Deliveries'
  BY <1>4, <1>q DEF Written, AfterDiscard
<1>5. ASSUME NEW m \in Msgs, FactoryFails(m) PROVE Deliveries'
  BY <1>5, <1>n, <1>q DEF FactoryFails
<1>6. ASSUME NEW m \in Msgs, FactoryBuilds(m) PROVE Deliveries'
  <2>1. m \notin built
    BY <1>0, <1>6 DEF FactoryBuilds, OneInstance
  <2>2. /\ UNCHANGED <<delivered, pending, working, abandoned, answers, closing>>
        /\ live' = live \cup {m}
    BY <1>6 DEF FactoryBuilds
  <2> QED BY <2>1, <2>2, QuietKeeps
<1>7. ASSUME NEW m \in Msgs, DisposeLate(m) PROVE Deliveries'
  <2>1. CloseInstances({m}) /\ closing /\ UNCHANGED <<answers, abandoned, closing>>
    BY <1>7, <1>i DEF DisposeLate
  <2> QED BY <2>1, CloseKeeps
<1>8. ASSUME NEW m \in Msgs, DiscardProbe(m) PROVE Deliveries'
  <2>1. CloseInstances({instance}) /\ Drained(instance) /\ UNCHANGED <<answers, abandoned, closing>>
    BY <1>8, DiscardSpares DEF DiscardProbe, Discarded
  <2>2. PendingOf(instance) = {}
    <3>1. \A n \in Msgs : <<instance, n>> \in pending => instance \in Msgs /\ instance \in live
      BY <1>0 DEF Deliveries, TypeOK
    <3> QED BY <2>1, <3>1 DEF Drained, PendingOf
  <2> QED BY <2>1, <2>2, CloseKeeps
<1>9. ASSUME NEW m \in Msgs, DrainTimesOut(m) PROVE Deliveries'
  <2>1. /\ CloseInstances({instance}) /\ abandoned' = abandoned \cup PendingOf(instance)
        /\ UNCHANGED <<answers, closing>>
    BY <1>9, DiscardSpares DEF DrainTimesOut, Discarded
  <2>2. instance = None => PendingOf(instance) = {}
    BY <1>0, MsgFacts DEF PendingOf, TypeOK
  <2> QED BY <1>i, <2>1, <2>2, CloseKeeps
<1>10. ASSUME NEW i \in Msgs, InstanceCloses(i) PROVE Deliveries'
  <2>1. /\ CloseInstances({i}) /\ abandoned' = abandoned \cup PendingOf(i) /\ UNCHANGED answers
        /\ InstanceClosed(i)
    BY <1>10 DEF InstanceCloses
  <2>2. closing => closing'
    BY <2>1, EndBooks
  <2> QED BY <2>1, <2>2, CloseKeeps
<1>11. CASE CloseAllContinues
  <2>1. closing /\ UNCHANGED <<closing, answers, abandoned>>
    BY <1>0, <1>11 DEF CloseAllContinues, CloserGoesOn, TeardownOrder
  <2>2. CASE UNCHANGED work
    BY <1>q, <2>1, <2>2
  <2>3. CASE CloseInstances(Current)
    BY <2>1, <2>3, CloseKeeps
  <2> QED BY <1>11, <2>2, <2>3 DEF CloseAllContinues, CloserGoesOn
<1>12. CASE WireCloses
  <2>1. UNCHANGED <<answers, abandoned>>
    BY <1>12 DEF WireCloses
  <2>2. CASE TornDown
    BY <1>12, <1>q, <2>1, <2>2 DEF WireCloses
  <2>3. CASE ~TornDown
    <3>1. closing' /\ CloseInstances(Current)
      BY <1>12, <2>3 DEF WireCloses
    <3> QED BY <2>1, <3>1, CloseKeeps
  <2> QED BY <2>2, <2>3
<1>13. CASE HandleClose
  BY <1>13, <1>q DEF HandleClose, CloseAll
<1>14. ASSUME NEW m \in Msgs, Farewell(m) PROVE Deliveries'
  <2>1. \A j \in Msgs : <<j, m>> \notin delivered
    BY <1>0, <1>14 DEF Farewell, Unwritten
  <2> QED BY <1>14, <1>q, <2>1 DEF Farewell
<1>15. ASSUME \/ \E m \in Msgs : \E k \in Vocabulary, t \in Msgs \cup {None} : Arrive(m, k, t)
              \/ \E i \in Msgs : Publish(i)
              \/ UNCHANGED vars
       PROVE  Deliveries'
  BY <1>15, <1>q DEF Arrive, Publish, vars
<1> QED
  BY <1>1, <1>2, <1>3, <1>4, <1>5, <1>6, <1>7, <1>8, <1>9, <1>10, <1>11, <1>12, <1>13, <1>14, <1>15,
     SettleKeeps DEF Next, Continue

-----------------------------------------------------------------------------
(***************************************************************************)
(* What is written.                                                        *)
(***************************************************************************)
\* What a step may do to the frames of one listen: nothing, an acknowledgement
\* of one it had not come to, a change while it is subscribed, or the farewell.
Kept(m) ==
  /\ frames'[m] = frames[m]
  /\ m \in subs' \cup farewell' => m \in subs \cup farewell
  /\ m \in subs \cup farewell => \/ m \in subs' \cup farewell'
                                 \/ ~wireOpen' \/ \E n \in Msgs : Cancels(n, m)

Acknowledged(m) ==
  /\ at[m] \notin {"unsent", "writing", "done"} /\ at'[m] = "writing"
  /\ frames'[m] = Append(frames[m], "ack") /\ m \in subs' /\ UNCHANGED delivered

Noted(m) ==
  m \in subs /\ m \in subs' /\ frames'[m] = Append(frames[m], "note")

Dismissed(m) ==
  m \in farewell /\ m \notin subs' \cup farewell' /\ frames'[m] = Append(frames[m], "result")

LEMMA ListenMoves ==
  ASSUME EntryInv, NEW p \in Msgs, TryServeListen(p), at[p] \notin {"unsent", "writing", "done"},
         ~closing, UNCHANGED <<farewell, wireOpen, delivered>>, NEW m \in Msgs
  PROVE  Kept(m) \/ Acknowledged(m)
<1>0. TypeOK /\ Frames /\ wireOpen
  BY DEF EntryInv, TeardownOrder
<1>1. CASE kind[p] = "listen" /\ ~AtCapacity
  <2>1. /\ subs' = subs \cup {p} /\ frames' = [frames EXCEPT ![p] = Append(frames[p], "ack")]
        /\ at'[p] = "writing"
    BY <1>0, <1>1 DEF TryServeListen, ServeListen, Framed, Goto, TypeOK
  <2>2. m = p => Acknowledged(m)
    BY <1>0, <2>1 DEF Acknowledged, Frames
  <2>3. m # p => Kept(m)
    BY <1>0, <2>1 DEF Kept, Frames
  <2> QED BY <2>2, <2>3
<1>2. CASE kind[p] = "listen" /\ AtCapacity
  BY <1>2 DEF TryServeListen, ServeListen, Kept
<1>3. CASE kind[p] # "listen"
  <2>1. CASE CancelsListen(p)
    BY <1>3, <2>1 DEF TryServeListen, Kept, CancelsListen, Cancels
  <2>2. CASE ~CancelsListen(p)
    BY <1>3, <2>2 DEF TryServeListen, Kept
  <2> QED BY <2>1, <2>2
<1> QED BY <1>1, <1>2, <1>3

LEMMA FrameMoves ==
  ASSUME EntryInv, [Next]_vars, NEW m \in Msgs
  PROVE  Kept(m) \/ Acknowledged(m) \/ Noted(m) \/ Dismissed(m)
<1>0. /\ TypeOK /\ Frames /\ TeardownOrder
      /\ closing <=> phase = "closed"
  BY DEF EntryInv, TeardownOrder
<1>q. ASSUME UNCHANGED <<frames, subs, farewell>> PROVE Kept(m)
  BY <1>q DEF Kept
<1>c. ASSUME UNCHANGED frames, CloseAll, ~closing PROVE Kept(m)
  <2>1. farewell = {}
    BY <1>0, <1>c DEF TeardownOrder
  <2> QED BY <1>c, <2>1 DEF CloseAll, Kept
<1>1. ASSUME NEW p \in Msgs, Process(p) PROVE Kept(m) \/ Acknowledged(m)
  <2>1. at[p] = "queued" /\ UNCHANGED <<farewell, wireOpen>>
    BY <1>1 DEF Process, ProcessPinned, ProcessClosed, ProcessRefused, ProcessProbe, ProcessCommit,
                ProcessFallback, ProcessOpening, AtHead
  <2>2. CASE TryServeListen(p) /\ phase # "closed" /\ UNCHANGED delivered
    BY <1>0, <2>1, <2>2, ListenMoves
  <2>3. CASE UNCHANGED <<subs, frames>>
    BY <1>q, <2>1, <2>3
  <2> QED
    BY <1>1, <2>2, <2>3 DEF Process, ProcessPinned, ProcessClosed, ProcessRefused, ProcessProbe,
       ProcessCommit, ProcessFallback, ProcessOpening
<1>2. ASSUME NEW p \in Msgs, Connected(p) PROVE Kept(m) \/ Acknowledged(m)
  <2>1. at[p] = "connected" /\ ~closing /\ UNCHANGED <<farewell, wireOpen>>
    BY <1>2 DEF Connected
  <2>2. CASE TryServeListen(p) /\ UNCHANGED delivered
    BY <2>1, <2>2, ListenMoves
  <2>3. CASE UNCHANGED <<subs, frames>>
    BY <1>q, <2>1, <2>3
  <2> QED BY <1>2, <2>2, <2>3 DEF Connected
<1>3. ASSUME NEW p \in Msgs, \/ Route(p) \/ Written(p) \/ DisposeLate(p) \/ AfterDiscard(p)
                             \/ FactoryBuilds(p) \/ FactoryFails(p)
                             \/ DiscardProbe(p) \/ DrainTimesOut(p)
      PROVE  Kept(m)
  BY <1>3, <1>q, DiscardSpares DEF Route, Written, DisposeLate, AfterDiscard, FactoryBuilds,
     FactoryFails, DiscardProbe, DrainTimesOut
<1>4. ASSUME NEW p \in Msgs, Farewell(p) PROVE Kept(m) \/ Dismissed(m)
  <2>1. /\ p \in farewell /\ farewell' = farewell \ {p} /\ UNCHANGED <<subs, wireOpen>>
        /\ frames' = IF wireOpen THEN [frames EXCEPT ![p] = Append(frames[p], "result")] ELSE frames
        /\ subs = {}
    BY <1>0, <1>4 DEF Farewell, Framed, TeardownOrder
  <2>2. CASE p = m /\ wireOpen
    BY <1>0, <2>1, <2>2 DEF Dismissed, Frames
  <2>3. CASE p # m \/ ~wireOpen
    BY <1>0, <2>1, <2>3 DEF Kept, Frames
  <2> QED BY <2>2, <2>3
<1>5. ASSUME NEW i \in Msgs, Publish(i) PROVE Kept(m) \/ Noted(m)
  BY <1>0, <1>5 DEF Publish, Kept, Noted, Frames
<1>6. CASE HandleClose
  BY <1>c, <1>6 DEF HandleClose
<1>7. ASSUME NEW i \in Msgs, InstanceCloses(i) PROVE Kept(m)
  BY <1>c, <1>q, <1>7 DEF InstanceCloses, InstanceClosed, EndsConnection
<1>8. CASE CloseAllContinues \/ WireCloses
  BY <1>q, <1>8 DEF CloseAllContinues, WireCloses
<1>9. ASSUME \/ \E p \in Msgs : \E k \in Vocabulary, t \in Msgs \cup {None} : Arrive(p, k, t)
             \/ \E i, p \in Msgs : InstanceAnswers(i, p) \/ InstanceDrops(i, p)
             \/ UNCHANGED vars
      PROVE  Kept(m)
  BY <1>9, <1>q DEF Arrive, InstanceAnswers, InstanceDrops, vars
<1> QED
  BY <1>1, <1>2, <1>3, <1>4, <1>5, <1>6, <1>7, <1>8, <1>9 DEF Next, Continue

LEMMA ClosingStays == EntryInv /\ [Next]_vars => (closing => closing')
<1> SUFFICES ASSUME EntryInv, [Next]_vars PROVE closing => closing'
  OBVIOUS
<1>1. ASSUME NEW m \in Msgs, Process(m) \/ Route(m) \/ Written(m) \/ DisposeLate(m) \/ Connected(m)
                            \/ AfterDiscard(m)
      PROVE  closing => closing'
  BY <1>1 DEF Process, ProcessPinned, ProcessClosed, ProcessRefused, ProcessProbe, ProcessCommit,
     ProcessFallback, ProcessOpening, Route, Written, DisposeLate, Connected, AfterDiscard
<1>2. ASSUME NEW m \in Msgs, DiscardProbe(m) \/ DrainTimesOut(m) \/ InstanceCloses(m)
      PROVE  closing => closing'
  <2>1. \E i : InstanceClosed(i)
    BY <1>2 DEF DiscardProbe, DrainTimesOut, InstanceCloses, Discarded
  <2> QED BY <2>1, EndBooks
<1>3. ASSUME NEW m \in Msgs, \/ \E k \in Vocabulary, t \in Msgs \cup {None} : Arrive(m, k, t)
                             \/ FactoryBuilds(m) \/ FactoryFails(m) \/ Farewell(m) \/ Publish(m)
                             \/ \E i \in Msgs : InstanceAnswers(i, m) \/ InstanceDrops(i, m)
      PROVE  closing => closing'
  BY <1>3 DEF Arrive, FactoryBuilds, FactoryFails, Farewell, Publish, InstanceAnswers, InstanceDrops
<1>4. CASE HandleClose \/ WireCloses \/ CloseAllContinues \/ UNCHANGED vars
  BY <1>4 DEF HandleClose, CloseAll, WireCloses, CloseAllContinues, vars
<1> QED BY <1>1, <1>2, <1>3, <1>4 DEF Next, Continue

LEMMA WireStaysClosed == EntryInv /\ [Next]_vars => (wireOpen' => wireOpen)
<1> SUFFICES ASSUME EntryInv, [Next]_vars, ~wireOpen PROVE wireOpen' = wireOpen
  BY DEF EntryInv, TypeOK
<1>1. ASSUME NEW m \in Msgs, Process(m) \/ Continue(m) PROVE UNCHANGED wireOpen
  BY <1>1 DEF Process, Continue, ProcessPinned, ProcessClosed, ProcessRefused, ProcessProbe,
     ProcessCommit, ProcessFallback, ProcessOpening, Route, Written, DisposeLate, Connected,
     DiscardProbe, AfterDiscard
<1>2. ASSUME NEW m \in Msgs, \/ \E k \in Vocabulary, t \in Msgs \cup {None} : Arrive(m, k, t)
                             \/ FactoryBuilds(m) \/ FactoryFails(m) \/ DrainTimesOut(m) \/ Farewell(m)
                             \/ InstanceCloses(m) \/ Publish(m)
                             \/ \E i \in Msgs : InstanceAnswers(i, m) \/ InstanceDrops(i, m)
      PROVE  UNCHANGED wireOpen
  BY <1>2 DEF Arrive, FactoryBuilds, FactoryFails, DrainTimesOut, Farewell, InstanceCloses, Publish,
     InstanceAnswers, InstanceDrops
<1>3. CASE HandleClose \/ WireCloses \/ CloseAllContinues \/ UNCHANGED vars
  <2>1. wireOpen \in BOOLEAN
    BY DEF EntryInv, TypeOK
  <2> QED BY <1>3, <2>1 DEF HandleClose, WireCloses, CloseAllContinues, CloserGoesOn, vars
<1> QED BY <1>1, <1>2, <1>3 DEF Next

\* A sequence that grows by one keeps its order if what is added is in order.
LEMMA GrowsInOrder ==
  ASSUME NEW f \in Seq({"ack", "note", "result"}), NEW x \in {"ack", "note", "result"},
         \A j \in DOMAIN f : (f[j] = "ack" <=> j = 1) /\ (f[j] = "result" => j = Len(f)),
         f # <<>> => f[Len(f)] # "result" /\ x # "ack",
         f = <<>> => x = "ack",
         NEW g, g = Append(f, x)
  PROVE  /\ g \in Seq({"ack", "note", "result"}) /\ g # <<>> /\ g[Len(g)] = x
         /\ \A j \in DOMAIN g : (g[j] = "ack" <=> j = 1) /\ (g[j] = "result" => j = Len(g))
<1>1. /\ g \in Seq({"ack", "note", "result"}) /\ Len(g) = Len(f) + 1 /\ Len(f) \in Nat
      /\ DOMAIN g = 1 .. Len(g) /\ DOMAIN f = 1 .. Len(f)
      /\ g[Len(g)] = x /\ \A j \in 1 .. Len(f) : g[j] = f[j]
  OBVIOUS
<1>2. g # <<>>
  BY <1>1
<1>3. f = <<>> <=> Len(f) = 0
  OBVIOUS
<1>4. ASSUME NEW j \in DOMAIN g
      PROVE  (g[j] = "ack" <=> j = 1) /\ (g[j] = "result" => j = Len(g))
  <2>1. CASE j = Len(g)
    BY <1>1, <1>3, <2>1
  <2>2. CASE j # Len(g)
    <3>1. j \in 1 .. Len(f) /\ g[j] = f[j]
      BY <1>1, <2>2
    <3>2. f # <<>>
      BY <1>1, <1>3, <3>1
    <3>3. f[j] # "result"
      BY <1>1, <3>1, <3>2
    <3> QED BY <1>1, <3>1, <3>3
  <2> QED BY <2>1, <2>2
<1> QED BY <1>1, <1>2, <1>4

LEMMA FramesStep == EntryInv /\ [Next]_vars => Frames'
<1> SUFFICES ASSUME EntryInv, [Next]_vars PROVE Frames'
  OBVIOUS
<1>0. Frames
  BY DEF EntryInv
<1>q. ASSUME UNCHANGED frames PROVE Frames'
  BY <1>0, <1>q DEF Frames
<1>f. ASSUME NEW m \in Msgs, NEW f \in {"ack", "note", "result"}, Framed(m, f) PROVE Frames'
  BY <1>0, <1>f DEF Frames, Framed
<1>l. ASSUME NEW m \in Msgs, TryServeListen(m) PROVE Frames'
  BY <1>f, <1>l, <1>q DEF TryServeListen, ServeListen
<1>1. ASSUME NEW m \in Msgs, Process(m) PROVE Frames'
  BY <1>1, <1>l, <1>q DEF Process, ProcessPinned, ProcessClosed, ProcessRefused, ProcessProbe,
     ProcessCommit, ProcessFallback, ProcessOpening
<1>2. ASSUME NEW m \in Msgs, Connected(m) PROVE Frames'
  BY <1>2, <1>l, <1>q DEF Connected
<1>3. ASSUME NEW m \in Msgs, Farewell(m) PROVE Frames'
  BY <1>3, <1>f DEF Farewell
<1>4. ASSUME NEW i \in Msgs, Publish(i) PROVE Frames'
  BY <1>0, <1>4 DEF Publish, Frames
<1>5. ASSUME NEW m \in Msgs, \/ Route(m) \/ Written(m) \/ DisposeLate(m) \/ AfterDiscard(m)
                             \/ FactoryBuilds(m) \/ FactoryFails(m)
                             \/ DiscardProbe(m) \/ DrainTimesOut(m)
      PROVE  Frames'
  BY <1>5, <1>q DEF Route, Written, DisposeLate, AfterDiscard, FactoryBuilds, FactoryFails,
     DiscardProbe, DrainTimesOut
<1>6. ASSUME \/ \E p \in Msgs : \E k \in Vocabulary, t \in Msgs \cup {None} : Arrive(p, k, t)
             \/ \E i, p \in Msgs : InstanceAnswers(i, p) \/ InstanceDrops(i, p)
             \/ \E i \in Msgs : InstanceCloses(i)
             \/ HandleClose \/ WireCloses \/ CloseAllContinues \/ UNCHANGED vars
      PROVE  Frames'
  BY <1>6, <1>q DEF Arrive, InstanceAnswers, InstanceDrops, InstanceCloses, HandleClose, WireCloses,
     CloseAllContinues, vars
<1> QED BY <1>1, <1>2, <1>3, <1>4, <1>5, <1>6 DEF Next, Continue

LEMMA FrameOrderStep == EntryInv /\ [Next]_vars => Frames' /\ FrameOrder'
<1> SUFFICES ASSUME EntryInv, [Next]_vars
             PROVE  /\ Frames'
                    /\ \A m \in Msgs : FramesOf(m)'
  BY DEF FrameOrder
<1>0. /\ TypeOK /\ Frames /\ Unwritten /\ InOrder /\ (wireOpen' => wireOpen)
      /\ \A m \in Msgs : FramesOf(m)
  BY WireStaysClosed DEF EntryInv, FrameOrder
<1>1. ASSUME NEW m \in Msgs
      PROVE  frames'[m] \in Seq({"ack", "note", "result"}) /\ FramesOf(m)'
  <2>0. FramesOf(m) /\ frames[m] \in Seq({"ack", "note", "result"})
    BY <1>0 DEF Frames
  <2>o. /\ \A j \in DOMAIN frames[m] : /\ frames[m][j] = "ack" <=> j = 1
                                       /\ frames[m][j] = "result" => j = Len(frames[m])
        /\ m \in subs \cup farewell => frames[m] # <<>> /\ frames[m][Len(frames[m])] # "result"
    BY <2>0 DEF FramesOf
  <2>g. ASSUME NEW x \in {"ack", "note", "result"}, frames'[m] = Append(frames[m], x),
               frames[m] # <<>> => frames[m][Len(frames[m])] # "result" /\ x # "ack",
               frames[m] = <<>> => x = "ack"
        PROVE  /\ frames'[m] \in Seq({"ack", "note", "result"}) /\ frames'[m] # <<>>
               /\ frames'[m][Len(frames'[m])] = x
               /\ \A j \in DOMAIN frames'[m] : /\ frames'[m][j] = "ack" <=> j = 1
                                               /\ frames'[m][j] = "result" => j = Len(frames'[m])
    <3>1. frames[m] \in Seq({"ack", "note", "result"})
      BY <2>0
    <3> QED BY <2>g, <2>o, <3>1, GrowsInOrder
  <2>c. ASSUME NEW n \in Msgs, Cancels(n, m) PROVE Cancels(n, m)'
    <3>1. at[n] # "unsent"
      BY <1>0, <2>c DEF Cancels, InOrder, Kinds
    <3> QED BY <2>c, <3>1, Settled DEF Cancels
  <2>1. CASE Kept(m)
    BY <1>0, <2>0, <2>c, <2>1 DEF Kept, FramesOf
  <2>2. CASE Acknowledged(m)
    <3>1. frames[m] = <<>>
      BY <1>0, <2>2 DEF Acknowledged, Unwritten
    <3>2. frames'[m] = Append(frames[m], "ack") /\ m \in subs'
      BY <2>2 DEF Acknowledged
    <3>3. /\ frames'[m] \in Seq({"ack", "note", "result"}) /\ frames'[m] # <<>>
          /\ frames'[m][Len(frames'[m])] = "ack"
          /\ \A j \in DOMAIN frames'[m] : /\ frames'[m][j] = "ack" <=> j = 1
                                          /\ frames'[m][j] = "result" => j = Len(frames'[m])
      BY <2>o, <3>1, <3>2, <2>g
    <3> QED BY <3>2, <3>3 DEF FramesOf
  <2>3. CASE Noted(m)
    <3>1. frames'[m] = Append(frames[m], "note") /\ m \in subs' /\ m \in subs \cup farewell
      BY <2>3 DEF Noted
    <3>3. /\ frames'[m] \in Seq({"ack", "note", "result"}) /\ frames'[m] # <<>>
          /\ frames'[m][Len(frames'[m])] = "note"
          /\ \A j \in DOMAIN frames'[m] : /\ frames'[m][j] = "ack" <=> j = 1
                                          /\ frames'[m][j] = "result" => j = Len(frames'[m])
      BY <2>o, <3>1, <2>g
    <3> QED BY <3>1, <3>3 DEF FramesOf
  <2>4. CASE Dismissed(m)
    <3>1. /\ frames'[m] = Append(frames[m], "result") /\ m \notin subs' \cup farewell'
          /\ m \in subs \cup farewell
      BY <2>4 DEF Dismissed
    <3>3. /\ frames'[m] \in Seq({"ack", "note", "result"}) /\ frames'[m] # <<>>
          /\ frames'[m][Len(frames'[m])] = "result"
          /\ \A j \in DOMAIN frames'[m] : /\ frames'[m][j] = "ack" <=> j = 1
                                          /\ frames'[m][j] = "result" => j = Len(frames'[m])
      BY <2>o, <3>1, <2>g
    <3> QED BY <3>1, <3>3 DEF FramesOf
  <2> QED BY <2>1, <2>2, <2>3, <2>4, FrameMoves
<1> QED BY <1>1, FramesStep DEF Frames

\* A message gets an answer when the pump is done with it, or when an instance
\* it was delivered to, or the subscription it opened, settles it.
LEMMA AnswerMoves ==
  ASSUME EntryInv, [Next]_vars, NEW m \in Msgs, at'[m] \notin {"writing", "done"}
  PROVE  answers'[m] = answers[m]
<1>0. TypeOK /\ Deliveries /\ Unwritten
  BY DEF EntryInv
<1>s. at[m] \notin {"writing", "done"}
  BY Settled
<1> USE DEF Goto
<1>a. ASSUME NEW p \in Msgs, Answered(p), p # m PROVE answers'[m] = answers[m]
  BY <1>0, <1>a DEF Answered, TypeOK
<1>g. ASSUME NEW p \in Msgs, Answered(p), at' = [at EXCEPT ![p] = "writing"]
      PROVE  answers'[m] = answers[m]
  BY <1>0, <1>a, <1>g DEF TypeOK
<1>l. ASSUME NEW p \in Msgs, TryServeListen(p) PROVE answers'[m] = answers[m]
  BY <1>g, <1>l DEF TryServeListen, ServeListen
<1>1. ASSUME NEW p \in Msgs, Process(p) PROVE answers'[m] = answers[m]
  BY <1>1, <1>l, <1>g DEF Process, ProcessPinned, ProcessClosed, ProcessRefused, ProcessProbe,
     ProcessCommit, ProcessFallback, ProcessOpening
<1>2. ASSUME NEW p \in Msgs, Connected(p) PROVE answers'[m] = answers[m]
  BY <1>2, <1>l DEF Connected
<1>3. ASSUME NEW p \in Msgs, FactoryFails(p) PROVE answers'[m] = answers[m]
  BY <1>3, <1>g DEF FactoryFails
<1>4. ASSUME NEW p \in Msgs, Farewell(p) PROVE answers'[m] = answers[m]
  <2>1. p # m /\ Answered(p)
    BY <1>0, <1>4, <1>s DEF Farewell, Unwritten
  <2> QED BY <1>a, <2>1
<1>5. ASSUME NEW i \in Msgs, NEW p \in Msgs, InstanceAnswers(i, p) PROVE answers'[m] = answers[m]
  <2>1. p # m /\ Answered(p)
    BY <1>0, <1>5, <1>s DEF InstanceAnswers, Deliveries, TypeOK
  <2> QED BY <1>a, <2>1
<1>6. ASSUME \/ \E p \in Msgs : \/ \E k \in Vocabulary, t \in Msgs \cup {None} : Arrive(p, k, t)
                              \/ Route(p) \/ Written(p) \/ DisposeLate(p) \/ AfterDiscard(p)
                              \/ FactoryBuilds(p) \/ DiscardProbe(p) \/ DrainTimesOut(p)
                              \/ Publish(p) \/ InstanceCloses(p)
                              \/ \E i \in Msgs : InstanceDrops(i, p)
             \/ HandleClose \/ WireCloses \/ CloseAllContinues \/ UNCHANGED vars
      PROVE  UNCHANGED answers
  BY <1>6 DEF Arrive, Route, Written, DisposeLate, AfterDiscard, FactoryBuilds, DiscardProbe,
     DrainTimesOut, Publish, InstanceCloses, InstanceDrops, HandleClose, WireCloses,
     CloseAllContinues, vars
<1> QED BY <1>1, <1>2, <1>3, <1>4, <1>5, <1>6 DEF Next, Continue

\* Only what the pump has at hand is delivered.
LEMMA DeliveryMoves ==
  ASSUME EntryInv, [Next]_vars, NEW i \in Msgs, NEW m \in Msgs,
         <<i, m>> \in delivered', <<i, m>> \notin delivered
  PROVE  at[m] \notin {"writing", "done"}
<1>0. ASSUME NEW j, NEW p \in Msgs, Deliver(j, p), at[p] \notin {"writing", "done"}
      PROVE  at[m] \notin {"writing", "done"}
  BY <1>0 DEF Deliver
<1>1. ASSUME NEW p \in Msgs, Process(p) PROVE at[m] \notin {"writing", "done"}
  <2>1. at[p] = "queued" /\ (UNCHANGED delivered \/ Deliver(instance, p))
    BY <1>1 DEF Process, ProcessPinned, ProcessClosed, ProcessRefused, ProcessProbe,
       ProcessCommit, ProcessFallback, ProcessOpening, AtHead
  <2> QED BY <1>0, <2>1
<1>2. ASSUME NEW p \in Msgs, Connected(p) PROVE at[m] \notin {"writing", "done"}
  BY <1>0, <1>2 DEF Connected
<1>3. ASSUME NEW p \in Msgs, Route(p) PROVE at[m] \notin {"writing", "done"}
  BY <1>0, <1>3 DEF Route
<1>4. ASSUME \/ \E p \in Msgs : \/ \E k \in Vocabulary, t \in Msgs \cup {None} : Arrive(p, k, t)
                              \/ Written(p) \/ DisposeLate(p) \/ AfterDiscard(p)
                              \/ FactoryBuilds(p) \/ FactoryFails(p) \/ DiscardProbe(p)
                              \/ DrainTimesOut(p) \/ Publish(p) \/ InstanceCloses(p) \/ Farewell(p)
                              \/ \E k \in Msgs : InstanceAnswers(k, p) \/ InstanceDrops(k, p)
             \/ HandleClose \/ WireCloses \/ CloseAllContinues \/ UNCHANGED vars
      PROVE  UNCHANGED delivered
  BY <1>4 DEF Arrive, Written, DisposeLate, AfterDiscard, FactoryBuilds, FactoryFails, DiscardProbe,
     Discarded, DrainTimesOut, Publish, InstanceCloses, Farewell, InstanceAnswers, InstanceDrops,
     HandleClose, WireCloses, CloseAllContinues, CloserGoesOn, CloseInstances, vars
<1> QED BY <1>1, <1>2, <1>3, <1>4 DEF Next, Continue

LEMMA UnwrittenStep == EntryInv /\ [Next]_vars => Unwritten'
<1> SUFFICES ASSUME EntryInv, [Next]_vars PROVE Unwritten'
  OBVIOUS
<1>0. TypeOK /\ Deliveries /\ Unwritten /\ TeardownOrder
  BY DEF EntryInv
<1>1. ASSUME NEW m \in Msgs, at'[m] \notin {"writing", "done"}
      PROVE  answers'[m] = 0 /\ frames'[m] = <<>>
  <2>1. at[m] \notin {"writing", "done"}
    BY <1>1, Settled
  <2>2. answers'[m] = 0
    BY <1>0, <1>1, <2>1, AnswerMoves DEF Unwritten
  <2>3. m \notin subs \cup farewell
    BY <1>0, <2>1 DEF Unwritten
  <2>4. frames'[m] = frames[m]
    BY <1>1, <2>3, FrameMoves DEF Kept, Acknowledged, Noted, Dismissed
  <2> QED BY <1>0, <2>1, <2>2, <2>4 DEF Unwritten
<1>2. ASSUME NEW m \in Msgs, m \in subs' \cup farewell'
      PROVE  at'[m] \in {"writing", "done"} /\ \A i \in Msgs : <<i, m>> \notin delivered'
  <2>1. CASE m \in subs \cup farewell
    BY <1>0, <2>1, Settled, DeliveryMoves DEF Unwritten
  <2>2. CASE m \notin subs \cup farewell
    <3>1. Acknowledged(m)
      BY <1>2, <2>2, FrameMoves DEF Kept, Noted, Dismissed
    <3> QED BY <1>0, <3>1 DEF Acknowledged, Deliveries
  <2> QED BY <2>1, <2>2
<1>3. TypeOK'
  BY TypeStep
<1> QED BY <1>1, <1>2, <1>3 DEF Unwritten, TypeOK

\* When the pump comes to be past a cancellation, its target has left the
\* subscriptions.
LEMMA CancelledListensStep == EntryInv /\ [Next]_vars => CancelledListens'
<1> SUFFICES ASSUME EntryInv, [Next]_vars, NEW m \in Msgs, NEW n \in Msgs,
                    ~closing', Cancels(n, m)', at'[n] \in {"routing", "done"}, m \in subs'
             PROVE  FALSE
  BY DEF CancelledListens
<1>0. TypeOK /\ InOrder /\ InOrder' /\ TeardownOrder /\ CancelledListens /\ Unwritten
  BY InOrderStep DEF EntryInv
<1>1. at[n] # "unsent" /\ Cancels(n, m) /\ m < n
  <2>1. at[n] # "unsent"
    BY <1>0, PumpStep DEF Arrived, Moved, TypeOK
  <2> QED BY <1>0, <2>1, Settled DEF Cancels, InOrder
<1>2. at'[m] = "done"
  BY <1>0, <1>1 DEF InOrder
<1>3. m \in subs /\ ~closing
  <2>1. m \in subs \cup farewell
    BY <1>2, FrameMoves DEF Kept, Acknowledged, Noted, Dismissed
  <2>2. ~closing
    BY ClosingStays
  <2> QED BY <1>0, <2>1, <2>2 DEF TeardownOrder
\* n was not past the router yet, and this is the step that takes it there.
<1>4. at[n] \notin {"routing", "done"}
  BY <1>0, <1>1, <1>3 DEF CancelledListens
<1>5. subs # {} /\ kind[n] = "cancel" /\ target[n] = m
  BY <1>1, <1>3 DEF Cancels
<1>6. ~Negotiating /\ era # "legacy" /\ phase # "closed"
  BY <1>0, <1>3 DEF TeardownOrder
<1>7. at[n] # "writing"
  BY <1>0, <1>1 DEF InOrder, Cancels
<1>8. at'[n] # at[n]
  BY <1>4
<1>9. ASSUME NEW p \in Msgs, p # n, at' = [at EXCEPT ![p] = at'[p]] PROVE FALSE
  BY <1>0, <1>8, <1>9 DEF TypeOK
<1>10. ASSUME Process(n) PROVE FALSE
  BY <1>3, <1>5, <1>6, <1>10 DEF Process, ProcessPinned, ProcessClosed, ProcessRefused, ProcessProbe,
     ProcessCommit, ProcessFallback, ProcessOpening, Negotiating, TryServeListen, CancelsListen,
     TypeOK
<1>11. ASSUME \/ Continue(n) \/ FactoryBuilds(n) \/ FactoryFails(n) \/ DrainTimesOut(n)
       PROVE  FALSE
  <2>1. at[n] \notin {"building", "connected"}
    BY <1>3, <1>6 DEF EntryInv, AwaitsFind, AwaitFinds, Negotiating
  <2>2. at[n] \in {"draining", "discarded"}
    BY <1>4, <1>7, <1>11, <2>1 DEF Continue, Route, Written, DisposeLate, Connected, DiscardProbe,
       AfterDiscard, FactoryBuilds, FactoryFails, DrainTimesOut
  <2>3. at'[n] \in {"discarded", "building"}
    BY <1>0, <1>3, <1>6, <1>11, <2>2 DEF Continue, Route, Written, DisposeLate, Connected,
       DiscardProbe, AfterDiscard, FactoryBuilds, FactoryFails, DrainTimesOut, Goto, TypeOK
  <2> QED BY <2>3
<1>12. ASSUME NEW p \in Msgs, p # n,
              \/ Process(p) \/ Continue(p) \/ FactoryBuilds(p) \/ FactoryFails(p) \/ DrainTimesOut(p)
              \/ \E k \in Vocabulary, t \in Msgs \cup {None} : Arrive(p, k, t)
       PROVE  FALSE
  <2>1. at' = [at EXCEPT ![p] = at'[p]]
    <3> USE <1>0 DEF Goto, TypeOK
    <3>1. CASE Process(p)
      BY <3>1 DEF Process, ProcessPinned, ProcessClosed, ProcessRefused, ProcessProbe, ProcessCommit,
         ProcessFallback, ProcessOpening, TryServeListen
    <3>2. CASE Continue(p)
      BY <3>2 DEF Continue, Route, Written, DisposeLate, Connected, DiscardProbe, AfterDiscard,
         TryServeListen
    <3>3. CASE \/ FactoryBuilds(p) \/ FactoryFails(p) \/ DrainTimesOut(p)
               \/ \E k \in Vocabulary, t \in Msgs \cup {None} : Arrive(p, k, t)
      BY <3>3 DEF FactoryBuilds, FactoryFails, DrainTimesOut, Arrive
    <3> QED BY <1>12, <3>1, <3>2, <3>3
  <2> QED BY <1>9, <1>12, <2>1
<1>13. ASSUME NEW k \in Vocabulary, NEW t \in Msgs \cup {None}, Arrive(n, k, t) PROVE FALSE
  BY <1>0, <1>1, <1>13 DEF Arrive, InOrder
<1>14. ASSUME \/ HandleClose \/ WireCloses \/ CloseAllContinues \/ UNCHANGED vars
              \/ \E i \in Msgs : InstanceCloses(i) \/ Publish(i) \/ Farewell(i)
              \/ \E i, p \in Msgs : InstanceAnswers(i, p) \/ InstanceDrops(i, p)
       PROVE  FALSE
  BY <1>8, <1>14 DEF HandleClose, WireCloses, CloseAllContinues, vars, InstanceCloses, Publish,
     Farewell, InstanceAnswers, InstanceDrops
<1> QED
  BY <1>10, <1>11, <1>12, <1>13, <1>14 DEF Next

-----------------------------------------------------------------------------
(***************************************************************************)
(* The theorems.                                                           *)
(***************************************************************************)
LEMMA EntryInit == Init => EntryInv
<1> SUFFICES ASSUME Init PROVE EntryInv
  OBVIOUS
<1> USE MsgFacts, ServeStdioAssumption DEF Init
<1>1. Cardinality(subs) <= MaxSubscriptions
  <2>1. Cardinality({}) = 0
    BY FS_EmptySet
  <2> QED BY <2>1
<1>2. TypeOK
  <2>1. /\ kind \in [Msgs -> Kinds \cup {"unsent"}] /\ target \in [Msgs -> Msgs \cup {None}]
        /\ at \in [Msgs -> Stages] /\ answers \in [Msgs -> Nat] /\ published \in 0 .. MaxPublished
    BY DEF Stages
  <2>2. built \subseteq Msgs /\ live \subseteq built /\ delivered \subseteq built \X Msgs
    OBVIOUS
  <2> QED BY <1>1, <2>1, <2>2 DEF TypeOK, Negotiating
<1>3. Frames /\ InOrder /\ TeardownOrder /\ AwaitsFind /\ OneInstance
  BY DEF Frames, InOrder, TeardownOrder, AwaitsFind, AwaitFinds, OneInstance, Negotiating
<1>4. Deliveries /\ Unwritten /\ FrameOrder /\ CancelledListens
  BY DEF Deliveries, Unwritten, FrameOrder, FramesOf, CancelledListens
<1> QED BY <1>2, <1>3, <1>4 DEF EntryInv

LEMMA EntryStep == EntryInv /\ [Next]_vars => EntryInv'
BY TypeStep, InOrderStep, TeardownStep, AwaitsStep, InstanceStep, DeliveriesStep, UnwrittenStep,
   FrameOrderStep, CancelledListensStep DEF EntryInv

\* The parts together are invariant.
THEOREM EntryHolds == Spec => []EntryInv
<1>1. Init => EntryInv
  BY EntryInit
<1>2. EntryInv /\ [Next]_vars => EntryInv'
  BY EntryStep
<1> QED BY <1>1, <1>2, PTL DEF Spec

\* For every number of messages and every limit: serveStdio's state keeps its
\* type - in particular it has an instance exactly while it probes or is pinned,
\* an era exactly from the pin on, and never more than maxSubscriptions
\* subscriptions.
THEOREM TypeCorrect == Spec => []TypeOK
<1>1. EntryInv => TypeOK
  BY DEF EntryInv
<1> QED BY <1>1, EntryHolds, PTL

\* "A probe request the entry accepted must never go silently unanswered",
\* however many probes came in before the fallback, and whatever closes when:
\* what a discarded instance did not answer was cancelled, or outlived the wait.
THEOREM NoneForgotten == Spec => []DiscardAnswers
<1>1. EntryInv => DiscardAnswers
  <2> SUFFICES ASSUME EntryInv PROVE DiscardAnswers
    OBVIOUS
  <2>0. TypeOK /\ Deliveries /\ (closing <=> phase = "closed")
    BY DEF EntryInv, TeardownOrder
  <2>1. ASSUME NEW i \in built, NEW m \in abandoned, <<i, m>> \in delivered PROVE ~CancelledAt(i, m)
    BY <2>0, <2>1 DEF Deliveries, TypeOK
  <2>2. ASSUME NEW i \in built \ live, NEW m \in Msgs, ~TornDown, <<i, m>> \in delivered,
               kind[m] \in RequestKinds
        PROVE  answers[m] = 1 \/ CancelledAt(i, m) \/ m \in abandoned
    BY <2>0, <2>2 DEF Deliveries, TypeOK
  <2> QED BY <2>1, <2>2 DEF DiscardAnswers
<1> QED BY <1>1, EntryHolds, PTL

\* No continuation of an await brings back a connection that was torn down
\* meanwhile, changes a pinned era or instance, hands anything to an instance of
\* a connection that is over, or ends the connection itself; and no instance but
\* the one the entry serves with, or has just connected, is alive.
THEOREM NothingResurrected == Spec => NoResurrection
<1> DEFINE Step ==
      /\ phase = "closed" => phase' = "closed"
      /\ phase = "pinned" => phase' \in {"pinned", "closed"} /\ instance' = instance /\ era' = era
      /\ closing => delivered' = delivered
      /\ \A i \in live' : i = instance' \/ at'[i] = "connected"
      /\ at' # at => closing' = closing
<1>1. EntryInv /\ [Next]_vars => Step
  <2> SUFFICES ASSUME EntryInv, [Next]_vars PROVE Step
    OBVIOUS
  <2>0. /\ TypeOK /\ AwaitsFind /\ OneInstance'
        /\ closing <=> phase = "closed"
    BY InstanceStep DEF EntryInv, TeardownOrder
  <2>1. \A i \in live' : i = instance' \/ at'[i] = "connected"
    BY <2>0 DEF OneInstance
  <2> SUFFICES \/ UNCHANGED <<entry, closing>> /\ (closing => delivered' = delivered)
               \/ ~closing /\ phase # "pinned" /\ UNCHANGED closing
               \/ UNCHANGED <<at, delivered, era, instance>> /\ phase' = "closed"
    BY <2>0, <2>1
  <2>2. ASSUME NEW m \in Msgs, Process(m)
        PROVE  \/ UNCHANGED <<entry, closing>> /\ (closing => delivered' = delivered)
               \/ ~closing /\ phase # "pinned" /\ UNCHANGED closing
    BY <2>0, <2>2 DEF Process, ProcessPinned, ProcessClosed, ProcessRefused, ProcessProbe,
       ProcessCommit, ProcessFallback, ProcessOpening
  <2>3. ASSUME NEW m \in Msgs, \/ Route(m) \/ Written(m) \/ DisposeLate(m)
                              \/ FactoryBuilds(m) \/ FactoryFails(m)
        PROVE  UNCHANGED <<entry, closing>> /\ (closing => delivered' = delivered)
    BY <2>3 DEF Route, Written, DisposeLate, CloseInstances, FactoryBuilds, FactoryFails
  <2>4. ASSUME NEW m \in Msgs, Connected(m)
        PROVE  ~closing /\ phase # "pinned" /\ UNCHANGED closing
    BY <2>0, <2>4 DEF Connected, AwaitsFind, AwaitFinds
  <2>5. ASSUME NEW m \in Msgs, DiscardProbe(m) \/ DrainTimesOut(m)
        PROVE  UNCHANGED <<entry, closing, delivered>>
    BY <2>5, DiscardSpares DEF DiscardProbe, DrainTimesOut, Discarded, CloseInstances
  <2>6. ASSUME NEW m \in Msgs, AfterDiscard(m)
        PROVE  \/ UNCHANGED <<entry, closing, delivered>>
               \/ ~closing /\ phase # "pinned" /\ UNCHANGED closing
    BY <2>0, <2>6 DEF AfterDiscard, AwaitsFind, AwaitFinds
  <2>7. CASE HandleClose
    BY <2>7 DEF HandleClose, CloseAll
  <2>8. ASSUME NEW i \in Msgs, InstanceCloses(i)
        PROVE  \/ UNCHANGED <<entry, closing, delivered>>
               \/ UNCHANGED <<at, delivered, era, instance>> /\ phase' = "closed"
    BY <2>8, EndBooks DEF InstanceCloses, CloseInstances
  <2>9. CASE WireCloses
    BY <2>9 DEF WireCloses, CloseInstances
  <2>10. ASSUME \/ CloseAllContinues \/ UNCHANGED vars
                \/ \E m \in Msgs : \/ \E k \in Vocabulary, t \in Msgs \cup {None} : Arrive(m, k, t)
                                 \/ Farewell(m) \/ Publish(m)
                                 \/ \E i \in Msgs : InstanceAnswers(i, m) \/ InstanceDrops(i, m)
         PROVE  UNCHANGED <<entry, closing, delivered>>
    BY <2>10 DEF CloseAllContinues, CloserGoesOn, CloseInstances, vars, Arrive, Farewell, Publish,
       InstanceAnswers, InstanceDrops
  <2> QED
    BY <2>2, <2>3, <2>4, <2>5, <2>6, <2>7, <2>8, <2>9, <2>10 DEF Next, Continue
<1> QED BY <1>1, EntryHolds, PTL DEF Spec, NoResurrection

\* What a listen request gets, in order: its acknowledgement, the changes, at
\* most one result - which closeAll has written for every subscription by the
\* time it closes the wire - and nothing once its cancellation was dealt with.
THEOREM ListenIsServed == Spec => ListenFrames
<1> DEFINE Always ==
      \A m \in Msgs :
        /\ \A j \in DOMAIN frames[m] : /\ frames[m][j] = "ack" <=> j = 1
                                       /\ frames[m][j] = "result" => j = Len(frames[m])
        /\ closer = "instance" /\ wireOpen /\ frames[m] # <<>>
             => frames[m][Len(frames[m])] = "result" \/ \E n \in Msgs : Cancels(n, m)
    Step == \A m, n \in Msgs : ~TornDown /\ Cancels(n, m) /\ at[n] \in {"routing", "done"}
              => frames'[m] = frames[m]
<1>1. EntryInv => Always
  <2> SUFFICES ASSUME EntryInv PROVE Always
    OBVIOUS
  <2>1. TeardownOrder /\ \A m \in Msgs : FramesOf(m)
    BY DEF EntryInv, FrameOrder
  <2>2. closer = "instance" => subs \cup farewell = {}
    BY <2>1 DEF TeardownOrder
  <2> QED BY <2>1, <2>2 DEF FramesOf
<1>2. EntryInv /\ [Next]_vars => Step
  <2> SUFFICES ASSUME EntryInv, [Next]_vars, NEW m \in Msgs, NEW n \in Msgs,
                      ~TornDown, Cancels(n, m), at[n] \in {"routing", "done"}
               PROVE  frames'[m] = frames[m]
    OBVIOUS
  <2>1. InOrder /\ TeardownOrder /\ CancelledListens
    BY DEF EntryInv
  <2>2. at[m] = "done"
    BY <2>1 DEF InOrder, Cancels
  <2>3. farewell = {} /\ m \notin subs
    BY <2>1 DEF TeardownOrder, CancelledListens
  <2> QED BY <2>2, <2>3, FrameMoves DEF Kept, Acknowledged, Noted, Dismissed
<1> QED BY <1>1, <1>2, EntryHolds, PTL DEF Spec, ListenFrames

=============================================================================
