--------------------------- MODULE ClientAuthProofs ---------------------------
(***************************************************************************)
(* Theorems about ClientAuth for every set of requests, every set of       *)
(* scopes and every bound.  The inductive invariant AuthInv says what each *)
(* flow may hold of the numbers the authorization server has given out,    *)
(* how often a request can have been sent, and that the tokens a flow has  *)
(* been granted and not yet stored are known to nobody else.               *)
(***************************************************************************)
EXTENDS ClientAuth, TLAPS

-----------------------------------------------------------------------------
(***************************************************************************)
(* The parts of the invariant.                                             *)
(***************************************************************************)
Numbers == 0 .. Len(grants)

TokenSet == [n : Numbers, scope : SUBSET Scopes, refresh : Numbers]

RequestSet ==
  [token : Numbers, shown : SUBSET Numbers, attempts : Nat, authRetry : BOOLEAN,
   stepUps : 0 .. MaxStepUpRetries]

RunSet ==
  [wants : SUBSET Scopes, force : BOOLEAN, again : BOOLEAN, client : 0 .. clients,
   proof : Nat \X Nat, got : TokenSet]

\* The provider, the transport and the authorization server.
Stores ==
  /\ interactive \in BOOLEAN
  /\ tokens \in TokenSet
  /\ clients \in Nat /\ registered \in 0 .. clients
  /\ verifier \in 0 .. Len(redirects) /\ asked \subseteq Scopes
  /\ grants \in Seq(SUBSET Scopes) /\ Len(grants) > 0
  /\ redirects \in Seq([client : Nat, scope : SUBSET Scopes])
  /\ valid \cup live \subseteq 1 .. Len(grants) /\ redeemed \subseteq DOMAIN redirects
  /\ at \in [Flows -> Stages] /\ DOMAIN request = Flows /\ DOMAIN run = Flows

\* A flow holds numbers that were given out; a callback that is under way has
\* the code of an authorization request.
Holds(f) ==
  /\ request[f] \in RequestSet /\ run[f] \in RunSet
  /\ f # Callback => run[f].proof[1] \in Numbers
  /\ f = Callback /\ at[f] \notin {"idle", "done", "failed"} => run[f].proof[1] \in DOMAIN redirects

\* Why a request was sent again: once for a 401, once for every step-up.
Returns(r) == r.stepUps + IF r.authRetry THEN 1 ELSE 0

Accounted(f) ==
  /\ at[f] \in {"idle", "done", "failed"} \/ f = Callback => request[f] = Unsent
  /\ at[f] = "sent" => f \in Sends
  /\ request[f].attempts = Returns(request[f]) + IF at[f] = "sent" THEN 1 ELSE 0

\* Tokens that are granted and not stored have been seen by nobody; a request
\* that is about to be sent again finds tokens it was not turned away with.
FreshTokens(f) ==
  /\ at[f] = "granted" =>
       /\ run[f].got.n # 0 /\ run[f].got.n # tokens.n
       /\ \A g \in Flows : /\ run[f].got.n \notin request[g].shown \cup {request[g].token}
                           /\ g # f /\ at[g] = "granted" => run[g].got.n # run[f].got.n
  /\ at[f] = "retrying" /\ tokens.n # 0 => tokens.n \notin request[f].shown

AuthInv == Stores /\ \A f \in Flows : Holds(f) /\ Accounted(f) /\ FreshTokens(f)

-----------------------------------------------------------------------------
(***************************************************************************)
(* What the server gives out only grows.                                   *)
(***************************************************************************)
Grows ==
  /\ clients <= clients' /\ Len(grants) <= Len(grants') /\ Len(redirects) <= Len(redirects')

LEMMA Bounds == MaxStepUpRetries \in Nat /\ Callback \notin Sends /\ Callback \in Flows /\ Sends \subseteq Flows
BY ClientAuthAssumption DEF Flows

LEMMA Widening ==
  ASSUME Stores, Stores', Grows
  PROVE  /\ Numbers \subseteq Numbers' /\ TokenSet \subseteq TokenSet'
         /\ RequestSet \subseteq RequestSet' /\ RunSet \subseteq RunSet'
         /\ DOMAIN redirects \subseteq DOMAIN redirects'
<1>1. /\ Len(grants) \in Nat /\ Len(grants') \in Nat /\ Len(grants) <= Len(grants')
      /\ clients \in Nat /\ clients' \in Nat /\ clients <= clients'
  BY DEF Stores, Grows
<1>2. Numbers \subseteq Numbers' /\ 0 .. clients \subseteq 0 .. clients'
  BY <1>1 DEF Numbers
<1>3. TokenSet \subseteq TokenSet'
  BY <1>2 DEF TokenSet
<1>4. RequestSet \subseteq RequestSet'
  BY <1>2 DEF RequestSet
<1>5. RunSet \subseteq RunSet'
  BY <1>2, <1>3 DEF RunSet
<1>6. DOMAIN redirects = 1 .. Len(redirects) /\ DOMAIN redirects' = 1 .. Len(redirects')
  BY DEF Stores
<1>7. Len(redirects) \in Nat /\ Len(redirects') \in Nat
  BY DEF Stores
<1> QED BY <1>2, <1>3, <1>4, <1>5, <1>6, <1>7 DEF Grows

\* A step of one flow leaves the others where they are.
Alone(f) ==
  \A g \in Flows \ {f} : at'[g] = at[g] /\ request'[g] = request[g] /\ run'[g] = run[g]

LEMMA OthersKeep ==
  ASSUME AuthInv, Stores', Grows, NEW f, Alone(f), NEW g \in Flows \ {f}
  PROVE  Holds(g)' /\ Accounted(g)'
<1>1. at'[g] = at[g] /\ request'[g] = request[g] /\ run'[g] = run[g]
  BY DEF Alone
<1>2. Stores /\ Holds(g) /\ Accounted(g)
  BY DEF AuthInv
<1>3. Holds(g)'
  BY <1>1, <1>2, Widening DEF Holds
<1> QED BY <1>1, <1>2, <1>3 DEF Accounted

\* A step that stores and grants no tokens, and at most presents those stored.
LEMMA TokensKeep ==
  ASSUME AuthInv, NEW f \in Flows, Alone(f), tokens'.n \in {tokens.n, 0},
         at'[f] \notin {"granted", "retrying"} \/ UNCHANGED flows,
         request'[f].token \in {request[f].token, tokens.n, 0},
         request'[f].shown \subseteq request[f].shown \cup {request[f].token}
  PROVE  \A g \in Flows : FreshTokens(g)'
<1> SUFFICES ASSUME NEW g \in Flows PROVE FreshTokens(g)'
  OBVIOUS
<1>1. FreshTokens(g)
  BY DEF AuthInv
<1>2. at'[g] \in {"granted", "retrying"} =>
        /\ at'[g] = at[g] /\ request'[g].shown = request[g].shown /\ run'[g] = run[g]
  BY DEF Alone, flows
<1>3. ASSUME at[g] = "granted", NEW h \in Flows
      PROVE  run[g].got.n \notin request'[h].shown \cup {request'[h].token}
  BY <1>1, <1>3 DEF FreshTokens, Alone
<1>4. ASSUME at[g] = "granted", at'[g] = "granted", NEW h \in Flows \ {g}, at'[h] = "granted"
      PROVE  run'[g].got.n # run'[h].got.n
  BY <1>1, <1>4 DEF FreshTokens, Alone, flows
<1> QED BY <1>1, <1>2, <1>3, <1>4 DEF FreshTokens

-----------------------------------------------------------------------------
(***************************************************************************)
(* The stores: the provider's, the transport's and the server's.           *)
(***************************************************************************)
LEMMA Blank ==
  ASSUME Stores
  PROVE  /\ NoTokens \in TokenSet /\ Unsent \in RequestSet /\ NoRun \in RunSet
         /\ \A scope \in SUBSET Scopes, forced \in BOOLEAN, r \in Nat :
              Run(scope, forced, <<r, 0>>) \in RunSet
<1>1. Len(grants) \in Nat /\ clients \in Nat /\ MaxStepUpRetries \in Nat
  BY Bounds DEF Stores
<1>2. 0 \in Numbers /\ 0 \in 0 .. clients /\ 0 \in 0 .. MaxStepUpRetries
  BY <1>1 DEF Numbers
<1>3. NoTokens \in TokenSet
  BY <1>2 DEF NoTokens, Tokens, TokenSet
<1>4. Unsent \in RequestSet
  BY <1>2 DEF Unsent, RequestSet
<1> QED BY <1>2, <1>3, <1>4 DEF NoRun, NoProof, Run, RunSet

LEMMA EndsKeep ==
  ASSUME AuthInv, Stores', Grows, NEW f \in Flows, NEW s \in {"done", "failed"}, Ends(f, s)
  PROVE  /\ Alone(f) /\ at'[f] = s /\ request'[f] = Unsent /\ Holds(f)' /\ Accounted(f)'
<1>1. /\ Alone(f) /\ at'[f] = s /\ request'[f] = Unsent /\ run'[f] = NoRun
  BY DEF AuthInv, Stores, Ends, Goes, Alone
<1>2. Unsent \in RequestSet' /\ NoRun \in RunSet'
  BY Blank, Widening DEF AuthInv
<1>3. NoRun.proof[1] = 0 /\ 0 \in Numbers'
  <2>1. Len(grants') \in Nat
    BY DEF Stores
  <2> QED BY <2>1 DEF NoRun, Run, NoProof, Numbers
<1>4. Holds(f)'
  BY <1>1, <1>2, <1>3 DEF Holds
<1> QED BY <1>1, <1>4 DEF Accounted, Unsent, Returns

\* An authorization request is numbered and remembered.
LEMMA RedirectStores ==
  ASSUME AuthInv, NEW f \in Flows, NEW c \in Nat, Redirect(f, c)
  PROVE  /\ redirects' \in Seq([client : Nat, scope : SUBSET Scopes])
         /\ Len(redirects) <= Len(redirects') /\ verifier' \in 0 .. Len(redirects')
         /\ DOMAIN redirects \subseteq DOMAIN redirects'
<1>1. run[f].wants \in SUBSET Scopes /\ redirects \in Seq([client : Nat, scope : SUBSET Scopes])
  BY DEF AuthInv, Stores, Holds, RunSet
<1>2. [client |-> c, scope |-> run[f].wants] \in [client : Nat, scope : SUBSET Scopes]
  BY <1>1
<1> HIDE DEF RunSet
<1>3. /\ redirects' \in Seq([client : Nat, scope : SUBSET Scopes])
      /\ Len(redirects') = Len(redirects) + 1 /\ Len(redirects) \in Nat
  BY <1>1, <1>2 DEF Redirect
<1>4. DOMAIN redirects = 1 .. Len(redirects) /\ DOMAIN redirects' = 1 .. Len(redirects')
  BY <1>1, <1>3
<1> QED BY <1>3, <1>4 DEF Redirect

LEMMA GrantStores ==
  ASSUME AuthInv, NEW f \in Flows, NEW c \in Nat, Grant(f, c)
  PROVE  /\ redirects' \in Seq([client : Nat, scope : SUBSET Scopes])
         /\ Len(redirects) <= Len(redirects') /\ verifier' \in 0 .. Len(redirects')
         /\ DOMAIN redirects \subseteq DOMAIN redirects'
<1>1. CASE Redirect(f, c)
  BY <1>1, RedirectStores
<1>2. CASE Ask(f, c)
  BY <1>2 DEF Ask, AuthInv, Stores
<1> QED BY <1>1, <1>2 DEF Grant

\* Where the flows stand stays in its type.
Placed == at' \in [Flows -> Stages] /\ DOMAIN request' = Flows /\ DOMAIN run' = Flows

LEMMA Element == ASSUME NEW S, NEW s \in Seq(S), NEW i \in DOMAIN s PROVE s[i] \in S
OBVIOUS

\* The server grants no scope that nobody knows.
LEMMA GrantableScope ==
  ASSUME AuthInv, NEW f \in Flows, at[f] = "asking", Admitted(f), NEW scope \in Grantable(f)
  PROVE  scope \subseteq Scopes
<1>0. Stores /\ run[f] \in RunSet
  BY DEF AuthInv, Holds
<1>1. CASE Refreshes(f)
  <2>1. run[f].proof[1] \in 1 .. Len(grants)
    BY <1>0, <1>1 DEF Admitted, Refreshes, Stores
  <2> QED BY <1>0, <1>1, <2>1 DEF Grantable, Stores
<1>2. CASE ~Refreshes(f) /\ f = Callback
  <2>1. run[f].proof[1] \in DOMAIN redirects
    BY <1>2 DEF AuthInv, Holds
  <2>2. redirects[run[f].proof[1]] \in [client : Nat, scope : SUBSET Scopes]
    <3>1. redirects \in Seq([client : Nat, scope : SUBSET Scopes])
      BY <1>0 DEF Stores
    <3> QED BY <2>1, <3>1, Element
  <2> QED BY <1>2, <2>2 DEF Grantable
<1>3. CASE ~Refreshes(f) /\ f # Callback
  BY <1>0, <1>3 DEF Grantable, RunSet
<1> QED BY <1>1, <1>2, <1>3

LEMMA StoresStep ==
  ASSUME AuthInv, [Next]_vars
  PROVE  Stores' /\ Grows
<1>0. Stores /\ \A f \in Flows : request[f] \in RequestSet /\ run[f] \in RunSet
  BY DEF AuthInv, Holds
<1>n. Len(grants) \in Nat /\ Len(redirects) \in Nat /\ clients \in Nat
  BY <1>0 DEF Stores
<1>s. \A f, s : /\ Goes(f, s) /\ s \in Stages => at' \in [Flows -> Stages]
                /\ Ends(f, s) /\ s \in Stages => Placed
  BY <1>0 DEF Goes, Ends, Stores, Placed
<1>g. \A f, c : Grant(f, c) => Placed
  BY <1>0, <1>s DEF Grant, Redirect, Ask, Goes, Placed, Stages, Stores
<1>q. ASSUME Placed, tokens' \in TokenSet, registered' \in 0 .. clients, asked' \subseteq Scopes,
             UNCHANGED <<interactive, verifier, grants, clients, redirects, redeemed>>,
             valid' \subseteq valid, live' \subseteq live
      PROVE  Stores' /\ Grows
  BY <1>0, <1>n, <1>q DEF Stores, Grows, TokenSet, Numbers, Placed
<1>p. tokens \in TokenSet /\ registered \in 0 .. clients /\ asked \subseteq Scopes
  BY <1>0 DEF Stores
<1>1. ASSUME NEW f \in Flows, Present(f) PROVE Stores' /\ Grows
  BY <1>0, <1>p, <1>q, <1>s, <1>1 DEF Present, Placed, Stages, Stores, provider, server
<1>2. ASSUME NEW f \in Flows, Accepted(f) PROVE Stores' /\ Grows
  BY <1>p, <1>q, <1>s, <1>2 DEF Accepted, Stages, provider, server
<1>3. ASSUME NEW f \in Flows, Unauthorized(f) PROVE Stores' /\ Grows
  <2>1. asked' \subseteq Scopes
    <3>1. f \in Sends
      BY <1>3 DEF AuthInv, Accounted, Unauthorized
    <3>2. Needs[f] \subseteq Scopes
      BY <3>1, ClientAuthAssumption
    <3> QED BY <1>p, <1>3, <3>2 DEF Unauthorized
  <2>2. Placed
    BY <1>0, <1>s, <1>3 DEF Unauthorized, Authorize, Goes, Placed, Stages, Stores
  <2> QED BY <1>p, <1>q, <1>3, <2>1, <2>2 DEF Unauthorized, provider, server
<1>4. ASSUME NEW f \in Flows, Forbidden(f) PROVE Stores' /\ Grows
  <2>1. f \in Sends
    BY <1>4 DEF AuthInv, Accounted, Forbidden
  <2>2. asked' \subseteq Scopes
    BY <1>p, <1>4, <2>1, ClientAuthAssumption DEF Forbidden, TokenSet
  <2>3. Placed
    BY <1>0, <1>s, <1>4 DEF Forbidden, Authorize, Goes, Placed, Stages, Stores
  <2> QED BY <1>p, <1>q, <1>4, <2>2, <2>3 DEF Forbidden, provider, server
<1>r. ASSUME Placed,
             /\ redirects' \in Seq([client : Nat, scope : SUBSET Scopes])
             /\ Len(redirects) <= Len(redirects') /\ verifier' \in 0 .. Len(redirects')
             /\ DOMAIN redirects \subseteq DOMAIN redirects',
             UNCHANGED <<interactive, tokens, asked, answers, grants, valid, live, redeemed>>,
             clients' \in Nat, clients <= clients', registered' \in 0 .. clients'
      PROVE  Stores' /\ Grows
  BY <1>0, <1>n, <1>r DEF Stores, Grows, TokenSet, Numbers, Placed
<1>v. /\ redirects \in Seq([client : Nat, scope : SUBSET Scopes])
      /\ verifier \in 0 .. Len(redirects)
  BY <1>0 DEF Stores
<1>5. ASSUME NEW f \in Flows, Proceed(f) PROVE Stores' /\ Grows
  <2>1. UNCHANGED <<interactive, tokens, registered, asked, answers, grants, valid, live, clients, redeemed>>
    BY <1>5 DEF Proceed
  <2>2. CASE Grant(f, registered)
    <3>1. registered \in Nat /\ clients' = clients /\ registered' = registered
      BY <1>p, <1>n, <2>1
    <3>2. Placed
      BY <1>g, <2>2
    <3>3. /\ redirects' \in Seq([client : Nat, scope : SUBSET Scopes])
          /\ Len(redirects) <= Len(redirects') /\ verifier' \in 0 .. Len(redirects')
          /\ DOMAIN redirects \subseteq DOMAIN redirects'
      BY <2>2, <3>1, GrantStores
    <3> QED BY <1>p, <1>n, <1>r, <2>1, <3>1, <3>2, <3>3
  <2>3. CASE UNCHANGED <<verifier, redirects>> /\ Placed
    BY <1>p, <1>n, <1>v, <1>r, <2>1, <2>3
  <2>4. Grant(f, registered) \/ (UNCHANGED <<verifier, redirects>> /\ Placed)
    <3>1. CASE Goes(f, "registering") /\ UNCHANGED <<request, run, verifier, redirects>>
      BY <1>0, <1>s, <3>1 DEF Placed, Stages, Stores
    <3>2. CASE Ends(f, "failed") /\ UNCHANGED <<verifier, redirects>>
      BY <1>s, <3>2 DEF Stages
    <3>3. \/ Grant(f, registered)
          \/ Goes(f, "registering") /\ UNCHANGED <<request, run, verifier, redirects>>
          \/ Ends(f, "failed") /\ UNCHANGED <<verifier, redirects>>
      BY <1>5 DEF Proceed
    <3> QED BY <3>1, <3>2, <3>3
  <2> QED BY <2>2, <2>3, <2>4
<1>6. ASSUME NEW f \in Flows, Register(f) PROVE Stores' /\ Grows
  <2>1. UNCHANGED <<interactive, tokens, asked, answers, grants, valid, live, redeemed>>
    BY <1>6 DEF Register
  <2>2. CASE clients' = clients + 1 /\ registered' = clients' /\ Grant(f, clients')
    <3>1. clients' \in Nat /\ clients <= clients' /\ registered' \in 0 .. clients'
      BY <1>n, <2>2
    <3> QED BY <1>g, <1>r, <2>1, <2>2, <3>1, GrantStores
  <2>3. CASE Ends(f, "failed") /\ UNCHANGED <<clients, registered, verifier, redirects>>
    BY <1>p, <1>n, <1>v, <1>r, <1>s, <2>1, <2>3 DEF Stages
  <2> QED BY <1>6, <2>2, <2>3 DEF Register
<1>7. ASSUME NEW f \in Flows, Save(f) PROVE Stores' /\ Grows
  <2>1. run[f].got \in TokenSet /\ (f # Callback => run[f].proof[1] \in Numbers)
    BY <1>0 DEF RunSet, AuthInv, Holds
  <2>2. tokens' \in TokenSet
    BY <1>7, <2>1 DEF Save, Stored, Answer, Refreshes, TokenSet
  <2>3. Placed
    BY <1>0, <1>s, <1>7 DEF Save, Placed, Stages, Stores
  <2> QED BY <1>p, <1>q, <1>7, <2>2, <2>3 DEF Save, server
<1>8. ASSUME NEW f \in Flows, Recover(f) PROVE Stores' /\ Grows
  <2>1. tokens' \in TokenSet /\ registered' \in 0 .. clients
    BY <1>0, <1>n, <1>p, <1>8, Blank DEF Recover
  <2>2. Placed
    BY <1>0, <1>s, <1>8 DEF Recover, Goes, Placed, Stages, Stores
  <2> QED BY <1>p, <1>q, <1>8, <2>1, <2>2 DEF Recover, server
<1>9. ASSUME NEW f \in Flows, GiveUp(f) PROVE Stores' /\ Grows
  <2>1. UNCHANGED <<interactive, tokens, registered, asked, answers, grants, valid, live, clients, redeemed>>
    BY <1>9 DEF GiveUp
  <2>2. CASE Redirect(f, run[f].client)
    <3>1. run[f].client \in Nat
      BY <1>0, <1>n DEF RunSet
    <3>2. Placed
      BY <1>s, <2>2 DEF Redirect, Stages
    <3>3. /\ redirects' \in Seq([client : Nat, scope : SUBSET Scopes])
          /\ Len(redirects) <= Len(redirects') /\ verifier' \in 0 .. Len(redirects')
          /\ DOMAIN redirects \subseteq DOMAIN redirects'
      BY <2>2, <3>1, RedirectStores
    <3>4. clients' \in Nat /\ clients <= clients' /\ registered' \in 0 .. clients'
      BY <1>p, <1>n, <2>1
    <3> QED BY <1>r, <2>1, <3>2, <3>3, <3>4
  <2>3. CASE Ends(f, "failed") /\ UNCHANGED <<verifier, redirects>>
    BY <1>p, <1>n, <1>v, <1>r, <1>s, <2>1, <2>3 DEF Stages
  <2> QED BY <1>9, <2>2, <2>3 DEF GiveUp
<1>10. CASE FinishAuth
  <2>1. Placed
    BY <1>0, <1>s, <1>10, Bounds DEF FinishAuth, Placed, Stages, Stores
  <2> QED BY <1>p, <1>q, <1>10, <2>1 DEF FinishAuth, provider, server
<1>11. ASSUME NEW f \in Flows, Refuses(f) PROVE Stores' /\ Grows
  <2>1. Placed
    BY <1>0, <1>s, <1>11 DEF Refuses, Placed, Stages, Stores
  <2> QED BY <1>p, <1>q, <1>11, <2>1 DEF Refuses, provider
<1>12. CASE Fault
  <2>1. Placed
    BY <1>0, <1>12 DEF Fault, Placed, Stores, flows
  <2> QED BY <1>p, <1>q, <1>12, <2>1 DEF Fault, provider, flows
<1>13. CASE UNCHANGED vars
  <2>1. Placed
    BY <1>0, <1>13 DEF vars, Placed, Stores, flows
  <2> QED BY <1>p, <1>q, <1>13, <2>1 DEF vars, provider, flows, server
<1>14. ASSUME NEW f \in Flows, Grants(f) PROVE Stores' /\ Grows
  <2> DEFINE n == Len(grants) + 1
             p == run[f].proof[1]
  <2>1. /\ Admitted(f) /\ Goes(f, "granted")
        /\ UNCHANGED <<interactive, provider, asked, request, clients, redirects, faults>>
    BY <1>14 DEF Grants
  <2>2. PICK scope \in Grantable(f), accepted \in {{n}, {}}, refresh \in {0, n} :
          /\ grants' = Append(grants, scope)
          /\ valid' = valid \cup accepted
          /\ live' \subseteq live \cup ({refresh} \ {0})
          /\ redeemed' = redeemed \cup (IF f = Callback THEN {p} ELSE {})
          /\ run' = [run EXCEPT ![f].got = Tokens(n, scope, refresh)]
    BY <1>14 DEF Grants
  <2>3. scope \subseteq Scopes
    BY <1>14, GrantableScope DEF Grants, Asked
  <2>4. /\ grants' \in Seq(SUBSET Scopes) /\ Len(grants') = n
    BY <1>0, <2>2, <2>3 DEF Stores
  <2>5. f = Callback => p \in DOMAIN redirects
    BY <1>14 DEF AuthInv, Holds, Grants, Asked
  <2>6. Placed
    BY <1>0, <1>s, <2>1, <2>2 DEF Placed, Stages, Stores
  <2>7. Numbers \subseteq Numbers' /\ TokenSet \subseteq TokenSet'
    BY <1>n, <2>4 DEF Numbers, TokenSet
  <2>8. valid' \cup live' \subseteq 1 .. Len(grants')
    BY <1>0, <1>n, <2>2, <2>4 DEF Stores
  <2>9. redeemed' \subseteq DOMAIN redirects'
    BY <1>0, <2>1, <2>2, <2>5 DEF Stores
  <2> QED BY <1>0, <1>n, <1>p, <2>1, <2>4, <2>6, <2>7, <2>8, <2>9 DEF Stores, Grows, Placed, provider
<1> QED
  BY <1>1, <1>2, <1>3, <1>4, <1>5, <1>6, <1>7, <1>8, <1>9, <1>10, <1>11, <1>12, <1>13, <1>14
  DEF Next, Continues

-----------------------------------------------------------------------------
(***************************************************************************)
(* The flow that takes the step.                                           *)
(***************************************************************************)
LEMMA FlowStep ==
  ASSUME AuthInv, Stores', Grows, NEW f \in Flows, Present(f) \/ Continues(f)
  PROVE  Alone(f) /\ Holds(f)' /\ Accounted(f)'
<1>0. /\ Stores /\ Holds(f) /\ Accounted(f) /\ request[f] \in RequestSet /\ run[f] \in RunSet
      /\ at \in [Flows -> Stages] /\ DOMAIN request = Flows /\ DOMAIN run = Flows
  BY DEF AuthInv, Holds, Stores
<1>w. /\ RequestSet \subseteq RequestSet' /\ RunSet \subseteq RunSet' /\ Numbers \subseteq Numbers'
      /\ DOMAIN redirects \subseteq DOMAIN redirects' /\ TokenSet \subseteq TokenSet'
  BY <1>0, Widening
<1>b. /\ Unsent \in RequestSet /\ NoRun \in RunSet /\ NoRun.proof[1] = 0 /\ 0 \in Numbers
      /\ \A scope \in SUBSET Scopes, forced \in BOOLEAN : Run(scope, forced, NoProof) \in RunSet
      /\ \A scope, forced : Run(scope, forced, NoProof).proof[1] = 0
  <2>1. 0 \in Numbers
    BY <1>0 DEF Numbers, Stores
  <2> QED BY <1>0, <2>1, Blank DEF NoRun, NoProof, Run
\* The request stays as it is, and so does what the run goes by.
<1>q. ASSUME NEW s \in Stages, Goes(f, s), at[f] \notin {"idle", "sent", "done", "failed"},
             s \notin {"idle", "sent", "done", "failed"},
             UNCHANGED request, \A g \in Flows \ {f} : run'[g] = run[g],
             run'[f] \in RunSet', f = Callback => run'[f].proof[1] = run[f].proof[1],
             f # Callback => run'[f].proof[1] \in Numbers'
      PROVE  Alone(f) /\ Holds(f)' /\ Accounted(f)'
  <2>1. Alone(f) /\ at'[f] = s
    BY <1>0, <1>q DEF Alone, Goes
  <2>2. Holds(f)'
    BY <1>0, <1>w, <1>q, <2>1 DEF Holds
  <2> QED BY <1>0, <1>q, <2>1, <2>2 DEF Accounted
<1>k. ASSUME NEW s \in Stages, Goes(f, s), at[f] \notin {"idle", "sent", "done", "failed"},
             s \notin {"idle", "sent", "done", "failed"}, UNCHANGED <<request, run>>
      PROVE  Alone(f) /\ Holds(f)' /\ Accounted(f)'
  BY <1>0, <1>w, <1>k, <1>q DEF Holds
<1>1. CASE Present(f)
  <2>1. /\ f \in Sends /\ at'[f] = "sent" /\ at[f] \in {"idle", "retrying"} /\ run' = run
        /\ request'[f] = [request[f] EXCEPT !.token = tokens.n, !.attempts = @ + 1]
        /\ Alone(f)
    BY <1>0, <1>1 DEF Present, Goes, Alone
  <2>2. tokens.n \in Numbers
    BY <1>0 DEF Stores, TokenSet
  <2>3. /\ request'[f] \in RequestSet /\ request'[f].attempts = request[f].attempts + 1
        /\ Returns(request'[f]) = Returns(request[f])
    <3>1. /\ request'[f].attempts = request[f].attempts + 1 /\ request'[f].token = tokens.n
          /\ request'[f].stepUps = request[f].stepUps /\ request'[f].authRetry = request[f].authRetry
      BY <1>0, <2>1 DEF RequestSet
    <3>2. request'[f] \in RequestSet
      <4>1. request[f].attempts + 1 \in Nat
        BY <1>0 DEF RequestSet
      <4>2. request'[f] = [request[f] EXCEPT !.token = tokens.n, !.attempts = request[f].attempts + 1]
        BY <2>1
      <4> QED BY <1>0, <2>2, <4>1, <4>2 DEF RequestSet
    <3> QED BY <3>1, <3>2 DEF Returns
  <2>4. f # Callback
    BY <2>1, Bounds
  <2>5. Holds(f)'
    BY <1>0, <1>w, <2>1, <2>3, <2>4 DEF Holds
  <2>6. Returns(request[f]) \in Nat
    BY <1>0, Bounds DEF RequestSet, Returns
  <2> QED BY <1>0, <2>1, <2>3, <2>4, <2>5, <2>6 DEF Accounted
<1>2. CASE Accepted(f)
  BY <1>2, EndsKeep DEF Accepted
\* auth() is called for a request that was turned away.
<1>a. ASSUME NEW r \in RequestSet, NEW scope \in SUBSET Scopes, NEW forced \in BOOLEAN,
             at[f] = "sent", Authorize(f, scope, forced), request' = [request EXCEPT ![f] = r],
             r.attempts = request[f].attempts, Returns(r) = Returns(request[f]) + 1
      PROVE  Alone(f) /\ Holds(f)' /\ Accounted(f)'
  <2>1. /\ at'[f] = "discovering" /\ run'[f] = Run(scope, forced, NoProof) /\ request'[f] = r
        /\ Alone(f)
    BY <1>0, <1>a DEF Authorize, Goes, Alone
  <2>2. f # Callback
    BY <1>0, <1>a, Bounds DEF Accounted
  <2>3. Holds(f)'
    BY <1>b, <1>w, <2>1, <2>2 DEF Holds
  <2>4. Returns(request[f]) \in Nat
    BY <1>0, Bounds DEF RequestSet, Returns
  <2> QED BY <1>0, <1>a, <2>1, <2>2, <2>3, <2>4 DEF Accounted
<1>t. TurnedAway(f) \in RequestSet
  BY <1>0 DEF TurnedAway, RequestSet
<1>3. CASE Unauthorized(f)
  <2>1. CASE Retried(f)
    BY <1>3, <2>1, EndsKeep DEF Unauthorized
  <2>2. CASE ~Retried(f)
    <3> DEFINE r == [TurnedAway(f) EXCEPT !.authRetry = TRUE]
    <3>1. f \in Sends /\ Needs[f] \subseteq Scopes
      BY <1>0, <1>3, ClientAuthAssumption DEF Accounted, Unauthorized
    <3>2. PICK scope \in {{}, Needs[f]} : Authorize(f, scope, FALSE) /\ request' = [request EXCEPT ![f] = r]
      BY <1>3, <2>2 DEF Unauthorized
    <3>3. /\ r \in RequestSet /\ r.attempts = request[f].attempts /\ r.stepUps = request[f].stepUps
          /\ r.authRetry = TRUE /\ request[f].authRetry = FALSE
      BY <1>0, <1>t, <2>2 DEF TurnedAway, RequestSet, Retried
    <3>4. Returns(r) = Returns(request[f]) + 1
      BY <1>0, <3>3, Bounds DEF Returns, RequestSet
    <3>5. at[f] = "sent"
      BY <1>3 DEF Unauthorized
    <3> QED BY <1>a, <3>1, <3>2, <3>3, <3>4, <3>5
  <2> QED BY <2>1, <2>2
<1>4. CASE Forbidden(f)
  <2>1. CASE Exhausted(f)
    BY <1>4, <2>1, EndsKeep DEF Forbidden
  <2>2. CASE ~Exhausted(f)
    <3> DEFINE r == [TurnedAway(f) EXCEPT !.stepUps = @ + 1]
    <3>1. asked' \in SUBSET Scopes
      BY DEF Stores
    <3>2. /\ Authorize(f, asked', ~(asked' \subseteq tokens.scope)) /\ request' = [request EXCEPT ![f] = r]
          /\ at[f] = "sent"
      BY <1>4, <2>2 DEF Forbidden
    <3>3. request[f].stepUps \in 0 .. MaxStepUpRetries /\ request[f].stepUps < MaxStepUpRetries
      BY <1>0, <2>2, Bounds DEF RequestSet, Exhausted
    <3>4. /\ r \in RequestSet /\ r.attempts = request[f].attempts
          /\ r.stepUps = request[f].stepUps + 1 /\ r.authRetry = request[f].authRetry
      <4>1. request[f].stepUps + 1 \in 0 .. MaxStepUpRetries
        BY <3>3, Bounds
      <4>2. /\ TurnedAway(f).stepUps = request[f].stepUps
            /\ TurnedAway(f).attempts = request[f].attempts
            /\ TurnedAway(f).authRetry = request[f].authRetry
        BY <1>0 DEF TurnedAway, RequestSet
      <4>3. r = [TurnedAway(f) EXCEPT !.stepUps = request[f].stepUps + 1]
        BY <4>2
      <4> QED BY <1>t, <4>1, <4>2, <4>3 DEF RequestSet
    <3>5. Returns(r) = Returns(request[f]) + 1
      BY <1>0, <3>3, <3>4, Bounds DEF Returns, RequestSet
    <3> QED BY <1>a, <3>1, <3>2, <3>4, <3>5
  <2> QED BY <2>1, <2>2
\* The grant: the browser, or the token endpoint.
<1>g. ASSUME NEW c \in 0 .. clients', Grant(f, c), at[f] \in {"discovering", "registering"}
      PROVE  Alone(f) /\ Holds(f)' /\ Accounted(f)'
  <2>1. CASE Redirect(f, c)
    BY <2>1, EndsKeep DEF Redirect
  <2>2. CASE Ask(f, c)
    <3> DEFINE proof == IF Refreshes(f) THEN <<tokens.refresh, 0>> ELSE <<run[f].proof[1], verifier>>
    <3>1. /\ Goes(f, "asking") /\ UNCHANGED request
          /\ run' = [run EXCEPT ![f] = [run[f] EXCEPT !.client = c, !.proof = proof]]
      BY <1>0, <2>2 DEF Ask
    <3>2. /\ tokens.refresh \in Numbers /\ verifier \in Nat /\ run[f].proof[1] \in Nat
          /\ Numbers \subseteq Nat
      BY <1>0 DEF Stores, TokenSet, RunSet, Numbers
    <3>3. proof \in Nat \X Nat /\ (proof[1] = run[f].proof[1] \/ (proof[1] \in Numbers /\ f # Callback))
      BY <3>2 DEF Refreshes
    <3>4. run[f] \in RunSet'
      BY <1>0, <1>w
    <3>5. run'[f] = [run[f] EXCEPT !.client = c, !.proof = proof]
      BY <1>0, <3>1
    <3>6. run'[f] \in RunSet' /\ run'[f].proof = proof
      BY <3>3, <3>4, <3>5 DEF RunSet
    <3>7. f # Callback => run[f].proof[1] \in Numbers
      BY <1>0 DEF Holds
    <3>8. f # Callback => run'[f].proof[1] \in Numbers'
      BY <1>w, <3>3, <3>6, <3>7
    <3>9. f = Callback => run'[f].proof[1] = run[f].proof[1]
      BY <3>3, <3>6
    <3>10. \A g \in Flows \ {f} : run'[g] = run[g]
      BY <1>0, <3>1
    <3> QED BY <1>g, <1>q, <3>1, <3>6, <3>8, <3>9, <3>10 DEF Stages
  <2> QED BY <1>g, <2>1, <2>2 DEF Grant
<1>5. CASE Proceed(f)
  <2>1. at[f] = "discovering" /\ registered \in 0 .. clients'
    BY <1>0, <1>5 DEF Proceed, Stores
  <2>2. CASE Grant(f, registered)
    BY <1>g, <2>1, <2>2
  <2>3. CASE Goes(f, "registering") /\ UNCHANGED <<request, run>>
    BY <1>k, <2>1, <2>3 DEF Stages
  <2>4. CASE Ends(f, "failed")
    BY <2>4, EndsKeep
  <2> QED BY <1>5, <2>2, <2>3, <2>4 DEF Proceed
<1>6. CASE Register(f)
  <2>1. clients' \in 0 .. clients'
    BY DEF Stores
  <2> QED BY <1>6, <1>g, <2>1, EndsKeep DEF Register
<1>7. CASE Grants(f)
  <2> DEFINE n == Len(grants) + 1
  <2>1. PICK scope \in Grantable(f), refresh \in {0, n} :
          /\ grants' = Append(grants, scope)
          /\ run' = [run EXCEPT ![f].got = Tokens(n, scope, refresh)]
    BY <1>7 DEF Grants
  <2>2. at[f] = "asking" /\ Goes(f, "granted") /\ UNCHANGED request /\ Admitted(f)
    BY <1>7 DEF Grants, Asked
  <2>3. scope \subseteq Scopes
    BY <2>2, GrantableScope
  <2>4. n \in Numbers' /\ 0 \in Numbers'
    BY <1>0, <2>1, <2>3 DEF Numbers, Stores
  <2>5. Tokens(n, scope, refresh) \in TokenSet'
    BY <2>3, <2>4 DEF Tokens, TokenSet
  <2>6. run'[f] = [run[f] EXCEPT !.got = Tokens(n, scope, refresh)] /\ run[f] \in RunSet'
    BY <1>0, <1>w, <2>1
  <2>7. run'[f] \in RunSet' /\ run'[f].proof = run[f].proof
    BY <2>5, <2>6 DEF RunSet
  <2>8. \A g \in Flows \ {f} : run'[g] = run[g]
    BY <1>0, <2>1
  <2>9. f # Callback => run'[f].proof[1] \in Numbers'
    BY <1>0, <1>w, <2>7 DEF Holds
  <2> QED BY <1>q, <2>2, <2>7, <2>8, <2>9 DEF Stages
<1>8. CASE Refuses(f)
  BY <1>8, <1>k DEF Refuses, Asked, Stages
<1>9. CASE Save(f)
  <2>1. CASE f = Callback
    BY <1>9, <2>1, EndsKeep DEF Save
  <2>2. CASE f # Callback
    <3>1. /\ at[f] = "granted" /\ Goes(f, "retrying") /\ run' = [run EXCEPT ![f] = NoRun]
          /\ UNCHANGED request
      BY <1>9, <2>2 DEF Save
    <3>2. run'[f] = NoRun /\ \A g \in Flows \ {f} : run'[g] = run[g]
      BY <1>0, <3>1
    <3> QED BY <1>b, <1>q, <1>w, <2>2, <3>1, <3>2 DEF Stages
  <2> QED BY <2>1, <2>2
<1>10. CASE Recover(f)
  <2>1. CASE TriedTwice(f)
    BY <1>10, <2>1, EndsKeep DEF Recover
  <2>2. CASE ~TriedTwice(f)
    <3>1. /\ at[f] \in {"invalid_client", "invalid_grant"} /\ Goes(f, "discovering") /\ UNCHANGED request
          /\ run' = [run EXCEPT ![f].again = TRUE]
      BY <1>10, <2>2 DEF Recover
    <3>2. run'[f] = [run[f] EXCEPT !.again = TRUE]
      BY <1>0, <3>1
    <3>3. run'[f] \in RunSet /\ run'[f].proof = run[f].proof
      BY <1>0, <3>2 DEF RunSet
    <3>4. \A g \in Flows \ {f} : run'[g] = run[g]
      BY <1>0, <3>1
    <3>5. f # Callback => run'[f].proof[1] \in Numbers'
      BY <1>0, <1>w, <3>3 DEF Holds
    <3> QED BY <1>q, <1>w, <3>1, <3>3, <3>4, <3>5 DEF Stages
  <2> QED BY <2>1, <2>2
<1>11. CASE GiveUp(f)
  BY <1>11, EndsKeep DEF GiveUp, Redirect
<1> QED
  BY <1>1, <1>2, <1>3, <1>4, <1>5, <1>6, <1>7, <1>8, <1>9, <1>10, <1>11 DEF Continues

LEMMA CallbackStep ==
  ASSUME AuthInv, Stores', Grows, FinishAuth
  PROVE  Alone(Callback) /\ Holds(Callback)' /\ Accounted(Callback)'
<1>0. /\ Stores /\ Holds(Callback) /\ Accounted(Callback) /\ Callback \in Flows
      /\ at \in [Flows -> Stages] /\ DOMAIN request = Flows /\ DOMAIN run = Flows
  BY Bounds DEF AuthInv, Stores
<1>1. PICK r \in DOMAIN redirects : run' = [run EXCEPT ![Callback] = Run(asked, FALSE, <<r, 0>>)]
  BY DEF FinishAuth
<1>2. /\ Goes(Callback, "discovering") /\ UNCHANGED <<request, redirects>>
  BY DEF FinishAuth, provider, server
<1>3. /\ at'[Callback] = "discovering" /\ run'[Callback] = Run(asked, FALSE, <<r, 0>>) /\ Alone(Callback)
  BY <1>0, <1>1, <1>2 DEF Goes, Alone
<1>4. r \in Nat /\ asked \in SUBSET Scopes
  BY <1>0 DEF Stores
<1>5. run'[Callback] \in RunSet /\ run'[Callback].proof[1] = r
  <2>1. Run(asked, FALSE, <<r, 0>>) \in RunSet
    BY <1>0, <1>4, Blank
  <2>2. Run(asked, FALSE, <<r, 0>>).proof[1] = r
    BY DEF Run
  <2> QED BY <1>3, <2>1, <2>2
<1>6. Holds(Callback)'
  BY <1>0, <1>2, <1>3, <1>5, Widening DEF Holds
<1>7. request'[Callback] = Unsent
  BY <1>0, <1>2 DEF Accounted
<1> QED BY <1>3, <1>6, <1>7, Bounds DEF Accounted, Unsent, Returns

-----------------------------------------------------------------------------
(***************************************************************************)
(* Tokens that nobody has seen.                                            *)
(***************************************************************************)
\* The number of an answer was not given out before.
LEMMA GrantedIsNew ==
  ASSUME AuthInv, NEW f \in Flows, Alone(f), Grants(f)
  PROVE  \A g \in Flows : FreshTokens(g)'
<1>0. Stores /\ \A g \in Flows : Holds(g) /\ FreshTokens(g)
  BY DEF AuthInv
<1> DEFINE n == Len(grants) + 1
<1>1. n \notin Numbers /\ n # 0
  BY <1>0 DEF Numbers, Stores
<1>2. /\ at[f] = "asking" /\ at'[f] = "granted" /\ UNCHANGED <<tokens, request>>
      /\ run'[f].got.n = n
  BY <1>0 DEF Grants, Asked, Goes, Stores, provider, Holds, RunSet, Tokens
<1>3. \A g \in Flows : /\ n \notin request[g].shown \cup {request[g].token}
                       /\ run[g].got.n # n
  BY <1>0, <1>1 DEF Holds, RequestSet, RunSet, TokenSet
<1>4. tokens.n # n
  BY <1>0, <1>1 DEF Stores, TokenSet
<1>5. \A g \in Flows \ {f} : at'[g] = at[g] /\ run'[g] = run[g]
  BY DEF Alone
<1> SUFFICES ASSUME NEW g \in Flows PROVE FreshTokens(g)'
  OBVIOUS
<1>6. CASE g = f
  BY <1>1, <1>2, <1>3, <1>4, <1>5, <1>6 DEF FreshTokens
<1>7. CASE g # f
  BY <1>0, <1>2, <1>3, <1>5, <1>7 DEF FreshTokens
<1> QED BY <1>6, <1>7

\* What one flow stores, no other has been granted, and nobody was turned away with.
LEMMA SavedIsNew ==
  ASSUME AuthInv, NEW f \in Flows, Alone(f), Save(f)
  PROVE  \A g \in Flows : FreshTokens(g)'
<1>0. Stores /\ \A g \in Flows : Holds(g) /\ FreshTokens(g)
  BY DEF AuthInv
<1>1. at[f] = "granted" /\ tokens' = Answer(f)
  BY DEF Save, Stored
<1>2. tokens'.n = run[f].got.n
  <2>1. run[f].got \in TokenSet
    BY <1>0 DEF Holds, RunSet
  <2> QED BY <1>1, <2>1 DEF Answer, TokenSet
<1>3. at'[f] \in {"done", "retrying"} /\ (request'[f] = request[f] \/ request'[f] = Unsent)
  BY <1>0 DEF Save, Ends, Goes, Stores
<1>4. /\ run[f].got.n # 0
      /\ \A g \in Flows : /\ run[f].got.n \notin request[g].shown \cup {request[g].token}
                          /\ g # f /\ at[g] = "granted" => run[g].got.n # run[f].got.n
  BY <1>0, <1>1 DEF FreshTokens
<1>5. \A g \in Flows \ {f} : at'[g] = at[g] /\ run'[g] = run[g] /\ request'[g] = request[g]
  BY DEF Alone
<1>6. \A g \in Flows : request'[g].shown \cup {request'[g].token}
                         \subseteq request[g].shown \cup {request[g].token, 0}
  BY <1>3, <1>5 DEF Unsent
<1> SUFFICES ASSUME NEW g \in Flows PROVE FreshTokens(g)'
  OBVIOUS
<1>7. CASE g = f
  BY <1>2, <1>3, <1>4, <1>7 DEF FreshTokens, Unsent
<1>8. CASE g # f
  BY <1>0, <1>2, <1>3, <1>4, <1>5, <1>6, <1>8 DEF FreshTokens
<1> QED BY <1>7, <1>8

LEMMA FreshStep ==
  ASSUME AuthInv, [Next]_vars, Stores', Grows
  PROVE  \A g \in Flows : FreshTokens(g)'
<1>0. /\ Stores /\ at \in [Flows -> Stages] /\ DOMAIN request = Flows /\ DOMAIN run = Flows
      /\ \A f \in Flows : Holds(f) /\ Accounted(f)
  BY DEF AuthInv, Stores
<1>e. ASSUME NEW f \in Flows, NEW s \in {"done", "failed"}, Ends(f, s), tokens'.n \in {tokens.n, 0}
      PROVE  \A g \in Flows : FreshTokens(g)'
  BY <1>e, EndsKeep, TokensKeep DEF Unsent
\* A step that leaves the request as it is.
<1>k. ASSUME NEW f \in Flows, NEW s \in Stages \ {"granted", "retrying"}, Goes(f, s), Alone(f),
             UNCHANGED request, tokens'.n \in {tokens.n, 0}
      PROVE  \A g \in Flows : FreshTokens(g)'
  <2>1. at'[f] = s
    BY <1>0, <1>k DEF Goes
  <2> QED BY <1>k, <2>1, TokensKeep
<1>1. ASSUME NEW f \in Flows, Present(f) PROVE \A g \in Flows : FreshTokens(g)'
  <2>1. Alone(f)
    BY <1>1, FlowStep
  <2>2. /\ at'[f] = "sent" /\ request'[f].token = tokens.n /\ request'[f].shown = request[f].shown
        /\ UNCHANGED tokens
    BY <1>0, <1>1 DEF Present, Goes, provider, Holds, RequestSet
  <2> QED BY <2>1, <2>2, TokensKeep
<1>2. ASSUME NEW f \in Flows, Accepted(f) PROVE \A g \in Flows : FreshTokens(g)'
  BY <1>2, <1>e DEF Accepted, provider
<1>3. ASSUME NEW f \in Flows, Unauthorized(f) \/ Forbidden(f)
      PROVE  \A g \in Flows : FreshTokens(g)'
  <2>1. Alone(f) /\ UNCHANGED tokens
    BY <1>3, FlowStep DEF Continues, Unauthorized, Forbidden, provider
  <2>2. CASE \E s \in {"done", "failed"} : Ends(f, s)
    BY <1>e, <2>1, <2>2
  <2>3. ASSUME NEW r, request' = [request EXCEPT ![f] = r], r.token = request[f].token,
               r.shown = request[f].shown \cup {request[f].token},
               NEW scope, NEW forced, Authorize(f, scope, forced)
        PROVE  \A g \in Flows : FreshTokens(g)'
    <3>1. at'[f] = "discovering" /\ request'[f] = r
      BY <1>0, <2>3 DEF Authorize, Goes
    <3> QED BY <2>1, <2>3, <3>1, TokensKeep
  <2>4. request[f] \in RequestSet
    BY <1>0 DEF Holds
  <2>5. CASE Unauthorized(f)
    <3>1. [TurnedAway(f) EXCEPT !.authRetry = TRUE].token = request[f].token
      BY <2>4 DEF TurnedAway, RequestSet
    <3>2. [TurnedAway(f) EXCEPT !.authRetry = TRUE].shown = request[f].shown \cup {request[f].token}
      BY <2>4 DEF TurnedAway, RequestSet
    <3> QED BY <2>2, <2>3, <2>5, <3>1, <3>2 DEF Unauthorized
  <2>6. CASE Forbidden(f)
    <3>1. [TurnedAway(f) EXCEPT !.stepUps = @ + 1].token = request[f].token
      BY <2>4 DEF TurnedAway, RequestSet
    <3>2. [TurnedAway(f) EXCEPT !.stepUps = @ + 1].shown = request[f].shown \cup {request[f].token}
      BY <2>4 DEF TurnedAway, RequestSet
    <3> QED BY <2>2, <2>3, <2>6, <3>1, <3>2 DEF Forbidden
  <2> QED BY <1>3, <2>5, <2>6
<1>4. ASSUME NEW f \in Flows, NEW c, Grant(f, c), Alone(f), UNCHANGED tokens
      PROVE  \A g \in Flows : FreshTokens(g)'
  BY <1>4, <1>e, <1>k DEF Grant, Redirect, Ask, Stages
<1>5. ASSUME NEW f \in Flows, Proceed(f) \/ Register(f) PROVE \A g \in Flows : FreshTokens(g)'
  <2>1. Alone(f) /\ UNCHANGED tokens
    BY <1>5, FlowStep DEF Continues, Proceed, Register
  <2>2. \/ \E c : Grant(f, c)
        \/ Goes(f, "registering") /\ UNCHANGED request
        \/ Ends(f, "failed")
    BY <1>5 DEF Proceed, Register
  <2> QED BY <1>e, <1>k, <1>4, <2>1, <2>2 DEF Stages
<1>6. ASSUME NEW f \in Flows, Refuses(f) PROVE \A g \in Flows : FreshTokens(g)'
  <2>1. Alone(f) /\ UNCHANGED <<tokens, request>>
    BY <1>6, FlowStep DEF Continues, Refuses, provider
  <2> QED BY <1>6, <1>k, <2>1 DEF Refuses, Stages
<1>7. ASSUME NEW f \in Flows, Recover(f) PROVE \A g \in Flows : FreshTokens(g)'
  <2>1. Alone(f)
    BY <1>7, FlowStep DEF Continues
  <2>2. tokens'.n \in {tokens.n, 0}
    BY <1>7 DEF Recover, NoTokens, Tokens
  <2> QED BY <1>7, <1>e, <1>k, <2>1, <2>2 DEF Recover, Stages
<1>8. ASSUME NEW f \in Flows, GiveUp(f) PROVE \A g \in Flows : FreshTokens(g)'
  BY <1>8, <1>e DEF GiveUp, Redirect
<1>9. ASSUME NEW f \in Flows, Grants(f) \/ Save(f) PROVE \A g \in Flows : FreshTokens(g)'
  BY <1>9, FlowStep, GrantedIsNew, SavedIsNew DEF Continues
<1>10. CASE FinishAuth
  <2>1. Alone(Callback) /\ Goes(Callback, "discovering") /\ UNCHANGED <<tokens, request>>
    BY <1>10, CallbackStep DEF FinishAuth, provider
  <2> QED BY <1>k, <2>1, Bounds DEF Stages
<1>11. CASE Fault \/ UNCHANGED vars
  <2>1. UNCHANGED <<tokens, at, request, run>>
    BY <1>11 DEF Fault, vars, provider, flows
  <2> QED BY <2>1 DEF AuthInv, FreshTokens
<1> QED
  BY <1>1, <1>2, <1>3, <1>5, <1>6, <1>7, <1>8, <1>9, <1>10, <1>11 DEF Next, Continues

-----------------------------------------------------------------------------
(***************************************************************************)
(* The theorems.                                                           *)
(***************************************************************************)
LEMMA AuthInit == Init => AuthInv
<1> SUFFICES ASSUME Init PROVE AuthInv
  OBVIOUS
<1> USE DEF Init
<1>1. Len(grants) = 1 /\ grants \in Seq(SUBSET Scopes) /\ Len(redirects) = 0
  OBVIOUS
<1>2. 0 \in Numbers /\ 1 \in Numbers
  BY <1>1 DEF Numbers
<1>3. tokens \in TokenSet
  BY <1>2 DEF TokenSet, NoTokens, Tokens
<1>4. Stores
  <2>1. registered \in 0 .. clients
    OBVIOUS
  <2>2. valid \cup live \subseteq 1 .. Len(grants)
    BY <1>1 DEF NoTokens, Tokens
  <2>3. at \in [Flows -> Stages]
    BY DEF Stages
  <2> QED BY <1>1, <1>3, <2>1, <2>2, <2>3 DEF Stores
<1>5. ASSUME NEW f \in Flows PROVE Holds(f) /\ Accounted(f) /\ FreshTokens(f)
  <2>1. NoRun.proof[1] = 0
    BY DEF NoRun, Run, NoProof
  <2>2. Holds(f)
    BY <1>2, <1>4, <2>1, Blank DEF Holds
  <2> QED BY <2>2 DEF Accounted, FreshTokens, Unsent, Returns
<1> QED BY <1>4, <1>5 DEF AuthInv

LEMMA AuthStep == AuthInv /\ [Next]_vars => AuthInv'
<1> SUFFICES ASSUME AuthInv, [Next]_vars PROVE AuthInv'
  OBVIOUS
<1>1. Stores' /\ Grows
  BY StoresStep
<1>2. \A g \in Flows : FreshTokens(g)'
  BY <1>1, FreshStep
<1>3. \A g \in Flows : Holds(g)' /\ Accounted(g)'
  <2>1. ASSUME NEW f \in Flows, Present(f) \/ Continues(f)
        PROVE  \A g \in Flows : Holds(g)' /\ Accounted(g)'
    BY <1>1, <2>1, FlowStep, OthersKeep
  <2>2. CASE FinishAuth
    BY <1>1, <2>2, CallbackStep, OthersKeep, Bounds
  <2>3. CASE Fault \/ UNCHANGED vars
    <3>1. UNCHANGED <<at, request, run>>
      BY <2>3 DEF Fault, vars, flows
    <3>2. Stores /\ \A g \in Flows : Holds(g) /\ Accounted(g)
      BY DEF AuthInv
    <3> QED BY <1>1, <3>1, <3>2, Widening DEF Holds, Accounted
  <2> QED BY <2>1, <2>2, <2>3 DEF Next
<1> QED BY <1>1, <1>2, <1>3 DEF AuthInv

\* The parts together are invariant.
THEOREM AuthHolds == Spec => []AuthInv
<1>1. Init => AuthInv
  BY AuthInit
<1>2. AuthInv /\ [Next]_vars => AuthInv'
  BY AuthStep
<1> QED BY <1>1, <1>2, PTL DEF Spec

\* For every number of flows, answers and faults: the state keeps its type, and
\* whatever mixture of 401 and 403 it meets, no request is sent more often than
\* once, once more after a 401, and once more for every step-up.
THEOREM TypeCorrect == Spec => []TypeOK
<1>1. AuthInv => TypeOK
  <2> SUFFICES ASSUME AuthInv PROVE TypeOK
    OBVIOUS
  <2>0. Stores /\ \A f \in Flows : Holds(f) /\ Accounted(f)
    BY DEF AuthInv
  <2>1. ASSUME NEW f \in Flows
        PROVE  /\ request[f].attempts \in 0 .. 2 + MaxStepUpRetries
               /\ request[f].token \in 0 .. Len(grants) /\ request[f].stepUps \in 0 .. MaxStepUpRetries
               /\ run[f].wants \subseteq Scopes /\ run[f].client \in 0 .. clients
    <3>1. request[f] \in RequestSet /\ run[f] \in RunSet
      BY <2>0 DEF Holds
    <3>2. /\ request[f].token \in 0 .. Len(grants) /\ request[f].stepUps \in 0 .. MaxStepUpRetries
          /\ request[f].authRetry \in BOOLEAN
          /\ run[f].wants \subseteq Scopes /\ run[f].client \in 0 .. clients
      BY <3>1 DEF RequestSet, RunSet, Numbers
    <3>3. \/ request[f].attempts = Returns(request[f])
          \/ request[f].attempts = Returns(request[f]) + 1
      BY <2>0, <3>2, Bounds DEF Accounted, Returns
    <3>4. Returns(request[f]) \in 0 .. MaxStepUpRetries + 1
      BY <3>2, Bounds DEF Returns
    <3> QED BY <3>2, <3>3, <3>4, Bounds
  <2> QED BY <2>0, <2>1 DEF TypeOK, Stores, TokenSet, Numbers
<1> QED BY <1>1, AuthHolds, PTL

\* However the flows that share a provider interleave, a request never presents a
\* token again that it was turned away with.
THEOREM RetriesAreWorthIt == Spec => NoTokenTwice
<1> DEFINE Step == \A f \in Sends : at'[f] = "sent" /\ at[f] # "sent" /\ tokens.n # 0
                     => tokens.n \notin request[f].shown
<1>1. AuthInv /\ [Next]_vars => Step
  <2> SUFFICES ASSUME AuthInv, [Next]_vars, NEW f \in Sends, at'[f] = "sent", at[f] # "sent",
                      tokens.n # 0
               PROVE  tokens.n \notin request[f].shown
    OBVIOUS
  <2>1. f \in Flows /\ at[f] \in Stages
    BY Bounds DEF AuthInv, Stores
  <2>2. at[f] \in {"idle", "retrying"}
    <3> USE <2>1 DEF Goes, AuthInv, Stores
    <3>1. ASSUME NEW g \in Flows, Present(g) PROVE at[f] \in {"idle", "retrying"}
      BY <3>1 DEF Present
    <3>e. ASSUME NEW g \in Flows, NEW s \in {"done", "failed"}, Ends(g, s) PROVE FALSE
      BY <3>e DEF Ends
    <3>g. ASSUME NEW g \in Flows, NEW s \in Stages \ {"sent"}, Goes(g, s) PROVE FALSE
      BY <3>g
    <3>2. ASSUME NEW g \in Flows, Accepted(g) \/ Unauthorized(g) \/ Forbidden(g) PROVE FALSE
      BY <3>2, <3>e, <3>g DEF Accepted, Unauthorized, Forbidden, Authorize, Stages
    <3>3. ASSUME NEW g \in Flows, NEW c, Grant(g, c) PROVE FALSE
      BY <3>3, <3>e, <3>g DEF Grant, Redirect, Ask, Stages
    <3>4. ASSUME NEW g \in Flows, Proceed(g) \/ Register(g) PROVE FALSE
      BY <3>4, <3>3, <3>e, <3>g DEF Proceed, Register, Stages
    <3>5. ASSUME NEW g \in Flows, Grants(g) \/ Refuses(g) PROVE FALSE
      BY <3>5, <3>g DEF Grants, Refuses, Stages
    <3>6. ASSUME NEW g \in Flows, Save(g) \/ Recover(g) \/ GiveUp(g) PROVE FALSE
      BY <3>6, <3>e, <3>g DEF Save, Recover, GiveUp, Redirect, Stages
    <3>7. ~FinishAuth
      BY <3>g, Bounds DEF FinishAuth, Stages
    <3>8. ~Fault /\ ~UNCHANGED vars
      BY DEF Fault, vars, flows
    <3> QED BY <3>1, <3>2, <3>4, <3>5, <3>6, <3>7, <3>8 DEF Next, Continues
  <2> QED BY <2>1, <2>2 DEF AuthInv, FreshTokens, Accounted, Unsent
<1> QED BY <1>1, AuthHolds, PTL DEF Spec, NoTokenTwice
=============================================================================
