------------------------------ MODULE ClientAuth ------------------------------
(***************************************************************************)
(* OAuth at the client: auth() (packages/client/src/client/auth.ts) as the *)
(* 401 and 403 paths of StreamableHTTPClientTransport and finishAuth() run *)
(* it, for several requests that share a provider and a transport.         *)
(*                                                                         *)
(* There is one authorization server, so that the issuer stamps, the gate  *)
(* of the callback and the cache of the discovery decide nothing here.     *)
(* The provider implements every optional method, and what it stores, it   *)
(* stores at once.  A step runs up to the next HTTP request; the token     *)
(* endpoint answers in one and the answer arrives in another.              *)
(***************************************************************************)
EXTENDS Naturals, Sequences, FiniteSets

CONSTANTS
  Sends,            \* requests of the transport, a GET of a stream included
  Callback,         \* finishAuth()
  Scopes,
  Needs,            \* the scopes the server asks of each request
  MaxStepUpRetries, \* maxStepUpRetries
  MaxAnswers,       \* bound: answers of the token endpoint
  MaxFaults         \* bound: tokens that expire or are revoked

Flows == Sends \cup {Callback}

ASSUME ClientAuthAssumption ==
  /\ Callback \notin Sends
  /\ Needs \in [Sends -> SUBSET Scopes]
  /\ MaxStepUpRetries \in Nat /\ MaxAnswers \in Nat \ {0} /\ MaxFaults \in Nat

VARIABLES
  interactive, \* the provider has a redirectUrl
  tokens,      \* the provider: tokens(), numbered; number 0 is none
  registered,  \* clientInformation(), a registration; 0 is none
  verifier,    \* codeVerifier(), by the redirect it was made for
  asked,       \* the transport: _scope
  at,          \* where each flow stands
  request,     \* its request: the token it presented, those it was turned away
               \* with, how often it was sent, isAuthRetry, stepUpRetries
  run,         \* its auth(): the scope, forceReauthorization, whether it is the
               \* second try, the client, the refresh token or the code and its
               \* verifier, and the answer of the token endpoint on its way
  answers,     \* the authorization server: answers of its token endpoint
  grants,      \* the scope of each access token, by number
  valid,       \* access tokens the server accepts
  live,        \* refresh tokens that can be used
  clients,     \* registrations
  redirects,   \* authorization requests: their client and scope
  redeemed,    \* those whose code was used
  faults

provider == <<tokens, registered, verifier>>
flows    == <<asked, at, request, run>>
server   == <<answers, grants, valid, live, clients, redirects, redeemed, faults>>
vars     == <<interactive, provider, flows, server>>

Tokens(n, scope, refresh) == [n |-> n, scope |-> scope, refresh |-> refresh]

NoTokens == Tokens(0, {}, 0)
NoProof  == <<0, 0>>

Unsent == [token |-> 0, shown |-> {}, attempts |-> 0, authRetry |-> FALSE, stepUps |-> 0]

Run(scope, forced, proof) ==
  [wants |-> scope, force |-> forced, again |-> FALSE, client |-> 0, proof |-> proof, got |-> NoTokens]

NoRun == Run({}, FALSE, NoProof)

\* What an earlier session left: nothing, or tokens that may have expired since.
Init ==
  /\ interactive \in BOOLEAN
  /\ tokens \in {NoTokens} \cup {Tokens(1, {}, r) : r \in IF interactive THEN {0, 1} ELSE {0}}
  /\ registered \in IF tokens = NoTokens THEN {0, 1} ELSE {1}
  /\ verifier = 0 /\ asked = {}
  /\ at = [f \in Flows |-> "idle"]
  /\ request = [f \in Flows |-> Unsent] /\ run = [f \in Flows |-> NoRun]
  /\ answers = 0 /\ grants = <<{}>>
  /\ valid \in SUBSET ({tokens.n} \ {0}) /\ live = {tokens.refresh} \ {0}
  /\ clients = 1 /\ redirects = <<>> /\ redeemed = {} /\ faults = 0

Goes(f, stage) == at' = [at EXCEPT ![f] = stage]

\* The local variables of what is over are gone.
Ends(f, stage) ==
  /\ Goes(f, stage)
  /\ request' = [request EXCEPT ![f] = Unsent] /\ run' = [run EXCEPT ![f] = NoRun]

(***************************************************************************)
(* A request of the transport.                                             *)
(***************************************************************************)
\* _commonHeaders reads the token anew for every attempt.
Present(f) ==
  /\ f \in Sends /\ at[f] \in {"idle", "retrying"}
  /\ Goes(f, "sent")
  /\ request' = [request EXCEPT ![f].token = tokens.n, ![f].attempts = @ + 1]
  /\ UNCHANGED <<interactive, provider, asked, run, server>>

IsValid(f) == request[f].token \in valid

Suffices(f) == Needs[f] \subseteq grants[request[f].token]

Accepted(f) ==
  /\ at[f] = "sent" /\ IsValid(f) /\ Suffices(f)
  /\ Ends(f, "done")
  /\ UNCHANGED <<interactive, provider, asked, server>>

\* auth() is called.
Authorize(f, scope, forced) ==
  /\ Goes(f, "discovering")
  /\ run' = [run EXCEPT ![f] = Run(scope, forced, NoProof)]

TurnedAway(f) == [request[f] EXCEPT !.shown = @ \cup {request[f].token}]

MutRetried(f) == FALSE  \* mutant: the retry does not know that it is one
Retried(f) == request[f].authRetry

\* 401; the challenge may name the scope.
Unauthorized(f) ==
  /\ at[f] = "sent" /\ ~IsValid(f)
  /\ \E scope \in {{}, Needs[f]} :
       /\ asked' = asked \cup scope
       /\ IF Retried(f) THEN Ends(f, "failed")
          ELSE /\ Authorize(f, scope, FALSE)
               /\ request' = [request EXCEPT ![f] = [TurnedAway(f) EXCEPT !.authRetry = TRUE]]
  /\ UNCHANGED <<interactive, provider, server>>

Exhausted(f) == request[f].stepUps >= MaxStepUpRetries

\* 403 insufficient_scope: step up to the union of what was asked for, what is
\* granted and what is missing, with a fresh authorization if that is more.
Forbidden(f) ==
  /\ at[f] = "sent" /\ IsValid(f) /\ ~Suffices(f)
  /\ IF Exhausted(f) THEN Ends(f, "failed") /\ UNCHANGED asked
     ELSE /\ asked' = asked \cup tokens.scope \cup Needs[f]
          /\ Authorize(f, asked', ~(asked' \subseteq tokens.scope))
          /\ request' = [request EXCEPT ![f] = [TurnedAway(f) EXCEPT !.stepUps = @ + 1]]
  /\ UNCHANGED <<interactive, provider, server>>

(***************************************************************************)
(* auth().                                                                 *)
(***************************************************************************)
Refreshes(f) == interactive /\ f # Callback

\* The user is sent to the browser: for the request, that is a failure.
Redirect(f, c) ==
  /\ redirects' = Append(redirects, [client |-> c, scope |-> run[f].wants])
  /\ verifier' = Len(redirects')
  /\ Ends(f, "failed")

\* The token endpoint is asked: with a refresh token, or as a machine or a
\* callback does, and then the code goes with the verifier that is stored.
Ask(f, c) ==
  /\ Goes(f, "asking")
  /\ run' = [run EXCEPT ![f].client = c,
                        ![f].proof = IF Refreshes(f) THEN <<tokens.refresh, 0>> ELSE <<@[1], verifier>>]
  /\ UNCHANGED <<request, verifier, redirects>>

Grant(f, c) ==
  IF Refreshes(f) /\ (tokens.refresh = 0 \/ run[f].force) THEN Redirect(f, c) ELSE Ask(f, c)

\* The metadata is there.  A callback never registers.
Proceed(f) ==
  /\ at[f] = "discovering"
  /\ \/ registered # 0 /\ Grant(f, registered)
     \/ registered = 0 /\ f # Callback /\ Goes(f, "registering")
        /\ UNCHANGED <<request, run, verifier, redirects>>
     \/ registered = 0 /\ f = Callback /\ Ends(f, "failed") /\ UNCHANGED <<verifier, redirects>>
  /\ UNCHANGED <<interactive, tokens, registered, asked, answers, grants, valid, live, clients,
                 redeemed, faults>>

\* Dynamic registration.
Register(f) ==
  /\ at[f] = "registering"
  /\ \/ clients' = clients + 1 /\ registered' = clients' /\ Grant(f, clients')
     \/ Ends(f, "failed") /\ UNCHANGED <<clients, registered, verifier, redirects>>
  /\ UNCHANGED <<interactive, tokens, asked, answers, grants, valid, live, redeemed, faults>>

\* "Preserve original refresh token if server didn't return a new one."
Answer(f) ==
  IF Refreshes(f) /\ run[f].got.refresh = 0 THEN [run[f].got EXCEPT !.refresh = run[f].proof[1]]
  ELSE run[f].got

MutStored(f) == tokens  \* mutant: AUTHORIZED comes before the tokens are stored
Stored(f) == Answer(f)

\* saveTokens; the request is sent again.
Save(f) ==
  /\ at[f] = "granted"
  /\ tokens' = Stored(f)
  /\ IF f = Callback THEN Ends(f, "done")
     ELSE Goes(f, "retrying") /\ run' = [run EXCEPT ![f] = NoRun] /\ UNCHANGED request
  /\ UNCHANGED <<interactive, registered, verifier, asked, server>>

MutTriedTwice(f) == FALSE  \* mutant: auth() tries for ever
TriedTwice(f) == run[f].again

\* What cannot be used any more is dropped, and auth() tries once more.
Recover(f) ==
  /\ at[f] \in {"invalid_client", "invalid_grant"}
  /\ IF TriedTwice(f) THEN Ends(f, "failed") /\ UNCHANGED <<tokens, registered>>
     ELSE /\ Goes(f, "discovering")
          /\ run' = [run EXCEPT ![f].again = TRUE]
          /\ tokens' = NoTokens
          /\ registered' = IF at[f] = "invalid_client" THEN 0 ELSE registered
          /\ UNCHANGED request
  /\ UNCHANGED <<interactive, verifier, asked, server>>

\* A refresh that failed for an unknown reason sends the user to the browser;
\* everything else is thrown.
GiveUp(f) ==
  /\ at[f] \in {"server_error", "invalid_request"}
  /\ IF Refreshes(f) /\ at[f] = "server_error" THEN Redirect(f, run[f].client)
     ELSE Ends(f, "failed") /\ UNCHANGED <<verifier, redirects>>
  /\ UNCHANGED <<interactive, tokens, registered, asked, answers, grants, valid, live, clients,
                 redeemed, faults>>

\* The user is back from the browser with the code of an authorization request.
FinishAuth ==
  /\ at[Callback] = "idle"
  /\ Goes(Callback, "discovering")
  /\ \E r \in DOMAIN redirects : run' = [run EXCEPT ![Callback] = Run(asked, FALSE, <<r, 0>>)]
  /\ UNCHANGED <<interactive, provider, asked, request, server>>

(***************************************************************************)
(* The authorization server.                                               *)
(***************************************************************************)
\* A refresh token must be live; a code is bound to its client and its verifier
\* and is used once; a machine has its own credentials.
Admitted(f) ==
  LET p == run[f].proof IN
  CASE Refreshes(f) -> p[1] \in live
    [] f = Callback -> p[2] = p[1] /\ p[1] \notin redeemed /\ redirects[p[1]].client = run[f].client
    [] OTHER        -> TRUE

\* A refresh cannot widen the scope.
Grantable(f) ==
  LET p == run[f].proof
      scope == IF f = Callback THEN redirects[p[1]].scope ELSE run[f].wants IN
  CASE Refreshes(f) -> {grants[p[1]]}
    [] OTHER        -> SUBSET scope

Asked(f) == at[f] = "asking" /\ answers < MaxAnswers /\ answers' = answers + 1

\* The tokens are numbered n; the MCP server need not accept them.  A refresh
\* token may be rotated, a code may give one.
Grants(f) ==
  /\ Asked(f) /\ Admitted(f)
  /\ Goes(f, "granted")
  /\ LET n == Len(grants) + 1
         p == run[f].proof[1]
     IN \E scope \in Grantable(f), accepted \in {{n}, {}},
           refresh \in IF interactive THEN {0, n} ELSE {0} :
          /\ grants' = Append(grants, scope)
          /\ valid' = valid \cup accepted
          /\ live' = (live \ (IF Refreshes(f) /\ refresh = n THEN {p} ELSE {})) \cup ({refresh} \ {0})
          /\ redeemed' = redeemed \cup (IF f = Callback THEN {p} ELSE {})
          /\ run' = [run EXCEPT ![f].got = Tokens(n, scope, refresh)]
  /\ UNCHANGED <<interactive, provider, asked, request, clients, redirects, faults>>

\* Any error; only what is not admitted is an invalid grant.
Refuses(f) ==
  /\ Asked(f)
  /\ \/ Goes(f, "invalid_request")
     \/ Refreshes(f) /\ Goes(f, "server_error")
     \/ Goes(f, "invalid_client")
     \/ ~Admitted(f) /\ Goes(f, "invalid_grant")
  /\ UNCHANGED <<interactive, provider, asked, request, run, grants, valid, live, clients,
                 redirects, redeemed, faults>>

\* Access tokens expire, grants are revoked.
Fault ==
  /\ faults < MaxFaults /\ faults' = faults + 1
  /\ \/ \E n \in valid : valid' = valid \ {n} /\ UNCHANGED live
     \/ \E n \in live : live' = live \ {n} /\ UNCHANGED valid
  /\ UNCHANGED <<interactive, provider, flows, answers, grants, clients, redirects, redeemed>>

Continues(f) ==
  \/ Accepted(f) \/ Unauthorized(f) \/ Forbidden(f)
  \/ Proceed(f) \/ Register(f) \/ Grants(f) \/ Refuses(f)
  \/ Save(f) \/ Recover(f) \/ GiveUp(f)
  \/ at[f] = "retrying" /\ Present(f)

Next == FinishAuth \/ Fault \/ \E f \in Flows : Present(f) \/ Continues(f)

Spec == Init /\ [][Next]_vars

\* Every HTTP request is answered or fails, and the continuation runs.
Fairness == \A f \in Flows : WF_vars(Continues(f))

FairSpec == Spec /\ Fairness

(***************************************************************************)
(* Properties.                                                             *)
(***************************************************************************)
Stages ==
  {"idle", "sent", "discovering", "registering", "asking", "granted", "invalid_client",
   "invalid_grant", "server_error", "invalid_request", "retrying", "done", "failed"}

\* Every variable stays in its type; whatever mixture of 401 and 403 it meets,
\* no request is sent more often than once, once more after a 401, and once more
\* for every step-up.
TypeOK ==
  /\ tokens \in [n : 0 .. Len(grants), scope : SUBSET Scopes, refresh : 0 .. Len(grants)]
  /\ registered \in 0 .. clients /\ verifier \in 0 .. Len(redirects) /\ asked \subseteq Scopes
  /\ at \in [Flows -> Stages]
  /\ \A f \in Flows :
       /\ request[f].attempts \in 0 .. 2 + MaxStepUpRetries
       /\ request[f].token \in 0 .. Len(grants) /\ request[f].stepUps \in 0 .. MaxStepUpRetries
       /\ run[f].wants \subseteq Scopes /\ run[f].client \in 0 .. clients
  /\ valid \cup live \subseteq 1 .. Len(grants) /\ redeemed \subseteq DOMAIN redirects

\* A retry is worth its request: however the flows of the others interleave, a
\* request never presents a token again that it was turned away with.
NoTokenTwice ==
  [][\A f \in Sends : at'[f] = "sent" /\ at[f] # "sent" /\ tokens.n # 0
       => tokens.n \notin request[f].shown]_vars

\* Every request ends, whatever the servers grant, refuse, accept and revoke,
\* and so does every finishAuth(): a time comes when none is under way.
FlowsSettle == <>[](\A f \in Flows : at[f] \in {"idle", "done", "failed"})
=============================================================================
