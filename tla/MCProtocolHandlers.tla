------------------------- MODULE MCProtocolHandlers -------------------------
(***************************************************************************)
(* Two connections.  The peer of the first makes two requests, the peer of *)
(* the second numbers its one like the first of those.                     *)
(***************************************************************************)
EXTENDS ProtocolHandlers

CONSTANTS T1, T2

MCTransports == {T1, T2}

MCHandlers == {<<T1, 1>>, <<T1, 2>>, <<T2, 1>>}
=============================================================================
