--------------------------- MODULE MCStreamableHTTP ---------------------------
(* Instances of StreamableHTTP: one POST and the standalone stream. *)
EXTENDS StreamableHTTP, TLC

Batch == [r \in Reqs |-> 1]

\* JSON responses, and streams without an event store, for batches; an event
\* store with a client that cannot and with one that can resume, and one with
\* getStreamIdForEventId.
Plain == [json |-> FALSE, store |-> FALSE, primes |-> FALSE, knows |-> FALSE, batches |-> TRUE]
Json == [Plain EXCEPT !.json = TRUE]
Stored == [Plain EXCEPT !.store = TRUE, !.batches = FALSE]
Resumable == [Stored EXCEPT !.primes = TRUE]
Strict == [Resumable EXCEPT !.knows = TRUE]
StrictOnly == {Strict}
ResumableOnly == {Resumable}
Every == {Json, Plain, Stored, Resumable}
=============================================================================
