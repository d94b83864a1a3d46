------------------------- MODULE MCProtocolRequests -------------------------
(***************************************************************************)
(* Small instances of ProtocolRequests for TLC: two requests, two          *)
(* connections one after the other, a clock long enough for a timer to be  *)
(* restarted and for a total to be exceeded.                               *)
(***************************************************************************)
EXTENDS ProtocolRequestsRefinement

CONSTANTS T1, T2

MCTransports == {T1, T2}

Opt(timeout, total, reset, progress, handshake) ==
  [timeout |-> timeout, maxTotal |-> total, reset |-> reset,
   onprogress |-> progress, handshake |-> handshake]

\* A plain call, one that progress keeps alive up to a total, and `initialize'.
MCOptions == {Opt(1, 0, FALSE, TRUE, FALSE), Opt(1, 1, TRUE, TRUE, FALSE),
              Opt(1, 0, FALSE, FALSE, TRUE)}

\* Calls that live on progress - with a total longer and one shorter than the
\* timer, and with none - and one whose timer progress leaves alone.
MCTimerOptions == {Opt(1, 2, TRUE, TRUE, FALSE), Opt(2, 1, TRUE, TRUE, FALSE),
                   Opt(1, 0, TRUE, TRUE, FALSE), Opt(2, 0, FALSE, TRUE, FALSE)}
=============================================================================
