-------------------------- MODULE ClientResponseCache --------------------------
(***************************************************************************)
(* The response cache of a client (packages/client/src/client/             *)
(* responseCache.ts) and the list*() calls it serves (client.ts): the      *)
(* entries of one list method in the partitions of its servers, evictions, *)
(* and the generation that keeps a call from writing back what an eviction *)
(* has dropped.                                                            *)
(*                                                                         *)
(* A list is the number of its version at the server it comes from.  The   *)
(* store (external) applies a call when it is made and answers later, in   *)
(* the order of the calls or not: what follows an awaited call of the      *)
(* store is a step of its own.                                             *)
(***************************************************************************)
EXTENDS Naturals, SequencesExt

CONSTANTS
  Servers,    \* the servers, by the identity they report
  Calls,      \* bound: list*() calls at a time
  MaxVersion, \* bound: versions of a list
  Stores      \* the settings looked at

None   == 0          \* no connection
Nobody == "nobody"   \* the identity before a server is known

Settings == [supplied : BOOLEAN, partitioned : BOOLEAN, ordered : BOOLEAN, prompt : BOOLEAN]

ASSUME CacheAssumption ==
  MaxVersion \in Nat \ {0} /\ IsFiniteSet(Servers) /\ Nobody \notin Servers /\ Stores \subseteq Settings

VARIABLES
  setting,    \* whether the application supplied the store, and a cachePartition, and
              \* whether the store answers in order, and it and the transports promptly
  version,    \* of the list at each server
  identity,   \* _serverIdentity
  entries,    \* the store: the list in each partition
  generation, \* _evictionGeneration of the method
  awaiting,   \* the calls of the store that are awaited, each by the list*() call
              \* that made it or, for an eviction, by the server of its partition
  call        \* where each list*() call stands

cacheVars == <<setting, version, identity, entries, generation, awaiting, call>>

Identities == Servers \cup {Nobody}
Scopes     == {"private", "public"}
Lists      == [of : Identities, v : 0 .. MaxVersion]
NoList     == [of |-> Nobody, v |-> 0]

\* The awaited calls of the store that may be the next to answer.
Answers == {i \in DOMAIN awaiting : setting.ordered => i = 1}

\* The answer to the call of the store that `who' awaits.
Answer(who) ==
  \E i \in Answers : awaiting[i] = who /\ awaiting' = RemoveAt(awaiting, i)

\* mutant: the shared partition is visited although it is the own one
MutApart == TRUE

\* The own and the shared partition differ.
Apart == setting.partitioned

\* _partitionFor: without a cachePartition both scopes share one partition.
Partition(id, scope) == <<id, IF setting.partitioned THEN scope ELSE "public">>

Opposite(scope) == IF scope = "public" THEN "private" ELSE "public"

\* A call: the server and the version it may not fall behind, the identity the
\* cache is probed or written under, the connection its request went out on,
\* the generation, the list it got and the scope of that list.
Idle ==
  [at |-> "idle", from |-> Nobody, seen |-> 0, id |-> Nobody, on |-> None, gen |-> 0,
   got |-> NoList, scope |-> "public"]

CacheInit ==
  /\ setting \in Stores
  /\ version = [s \in Servers |-> 1]
  /\ identity = Nobody
  /\ entries = [p \in Identities \X Scopes |-> NoList]
  /\ generation = 0
  /\ awaiting = <<>>
  /\ call = [w \in Calls |-> Idle]

Delete(p) == entries' = [entries EXCEPT ![p] = NoList]

(***************************************************************************)
(* A call: the cache is probed, the request goes out, the answer is        *)
(* written.                                                                *)
(***************************************************************************)
\* No entry is served: the request goes out on connection t with the generation
\* of that moment, and is rejected when there is none.
Asking(c, t) ==
  [c EXCEPT !.at = IF t = None THEN "failed" ELSE "asking", !.on = t, !.gen = generation, !.from = Nobody, !.seen = 0]

Got(c, list) == [c EXCEPT !.at = "done", !.got = list]

\* _serveFromCache in the own partition; an entry that is no longer fresh is a miss.
ProbeOwn(w, start, t, fresh) ==
  LET held == entries[Partition(identity, "private")]
      c == [start EXCEPT !.id = identity]
  IN IF held = NoList /\ Apart
     THEN awaiting' = Append(awaiting, <<"call", w>>) /\ call' = [call EXCEPT ![w] = [c EXCEPT !.at = "probing"]]
     ELSE /\ call' = [call EXCEPT ![w] = IF held # NoList /\ fresh THEN Got(c, held) ELSE Asking(c, t)]
          /\ UNCHANGED awaiting

\* The shared partition, after the own one was found empty: that of the server
\* the client has come to know meanwhile.
ProbeShared(w, t, fresh) ==
  LET held == entries[Partition(identity, "public")]
      c == [call[w] EXCEPT !.id = identity]
  IN /\ c.at = "probing" /\ Answer(<<"call", w>>)
     /\ call' = [call EXCEPT ![w] = IF held # NoList /\ fresh THEN Got(c, held) ELSE Asking(c, t)]

\* The server reads the first page of its list; the answer is on its way.
Serve(w, s) ==
  /\ call[w].at = "asking"
  /\ \E scope \in Scopes :
       call' = [call EXCEPT ![w] =
         [@ EXCEPT !.at = "served", !.got = [of |-> s, v |-> version[s]],
                   !.scope = IF Apart THEN scope ELSE "public"]]

\* The last page is read; the caller goes on in a microtask.
Reply(w) == call[w].at = "served" /\ call' = [call EXCEPT ![w].at = "replied"]

\* mutant: an eviction since the request went out is overlooked
MutCurrent(w) == TRUE

Current(w) == generation = call[w].gen

\* write(): unless the generation moved, the list is stored in the partition
\* of the scope its server gave it.
Write(w) ==
  /\ call[w].at = "replied"
  /\ IF Current(w)
     THEN /\ entries' = [entries EXCEPT ![Partition(identity, call[w].scope)] = call[w].got]
          /\ call' = [call EXCEPT ![w].at = IF Apart THEN "writing" ELSE "done", ![w].id = identity]
          /\ awaiting' = IF Apart THEN Append(awaiting, <<"call", w>>) ELSE awaiting
     ELSE call' = [call EXCEPT ![w].at = "done"] /\ UNCHANGED <<entries, awaiting>>

\* write(), after the store has answered: the opposite partition is cleared.
ClearOpposite(w) ==
  /\ call[w].at = "writing" /\ Answer(<<"call", w>>)
  /\ Delete(Partition(call[w].id, Opposite(call[w].scope)))
  /\ call' = [call EXCEPT ![w].at = "done"]

\* _onclose rejects the requests.
Rejected == [w \in Calls |-> IF call[w].at \in {"asking", "served"} THEN [call[w] EXCEPT !.at = "failed"] ELSE call[w]]

(***************************************************************************)
(* Evictions.                                                              *)
(***************************************************************************)
\* evict(): the generation first, then the own partition, and the shared one
\* once the store has answered.
Evict ==
  /\ generation' = generation + 1
  /\ Delete(Partition(identity, "private"))
  /\ awaiting' = IF Apart THEN Append(awaiting, <<"eviction", identity>>) ELSE awaiting

EvictShared ==
  /\ \E id \in Identities : Answer(<<"eviction", id>>) /\ Delete(Partition(id, "public"))
  /\ UNCHANGED <<setting, version, identity, generation, call>>

\* resetForReconnect: only a store of its own is cleared.
ResetForReconnect ==
  /\ entries' = IF setting.supplied THEN entries ELSE [p \in Identities \X Scopes |-> NoList]
  /\ generation' = 0
  /\ identity' = Nobody
=============================================================================
