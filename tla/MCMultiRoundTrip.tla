-------------------------- MODULE MCMultiRoundTrip --------------------------
(***************************************************************************)
(* Instances of MultiRoundTrip for TLC.                                    *)
(***************************************************************************)
EXTENDS MultiRoundTrip

\* Calls of both eras: with a total that one leg can outlast, and without.
MCCalls ==
  [modern : BOOLEAN, timeout : {2}, total : {3}, resets : {TRUE}]
    \cup [modern : BOOLEAN, timeout : {1}, total : {0}, resets : {FALSE}]
=============================================================================
