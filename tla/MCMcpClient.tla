---------------------------- MODULE MCMcpClient ----------------------------
(***************************************************************************)
(* Instances of McpClient for TLC.                                         *)
(***************************************************************************)
EXTENDS McpClient, TLC

Permuted == Permutations(Servers)

\* The client's own store, and one the application supplied and partitioned, with
\* transports that are prompt; and transports that take their time.
OwnStore    == {[supplied |-> FALSE, partitioned |-> FALSE, ordered |-> TRUE, prompt |-> TRUE]}
SharedStore == {[supplied |-> TRUE, partitioned |-> TRUE, ordered |-> TRUE, prompt |-> TRUE]}
Processes   == {[supplied |-> FALSE, partitioned |-> FALSE, ordered |-> TRUE, prompt |-> FALSE]}
Every       == OwnStore \cup SharedStore \cup Processes
=============================================================================
