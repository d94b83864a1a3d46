---------------------------- MODULE MCClientAuth ----------------------------
(***************************************************************************)
(* Instances of ClientAuth for TLC.                                        *)
(***************************************************************************)
EXTENDS ClientAuth, TLC

CONSTANTS s1, s2, write

\* One request that has to step up, and one that needs no scope.
MCNeeds == (s1 :> {write}) @@ (s2 :> {})
=============================================================================
