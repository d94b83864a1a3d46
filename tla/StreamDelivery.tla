---------------------------- MODULE StreamDelivery ----------------------------
(***************************************************************************)
(* What a session promises: the server's messages are a log, and a channel *)
(* of the client reads each stream of it from left to right.  It may miss  *)
(* what another one reads or what is lost; it never reads a message twice  *)
(* or out of order, and a response only on the channel of its POST.  Where *)
(* a POST is answered by one body, the responses in it stand in the order  *)
(* of their requests instead.                                              *)
(***************************************************************************)
EXTENDS Naturals, Sequences

CONSTANTS Channels, PostOf

VARIABLES
  whole, \* a POST is answered by one body
  log,   \* the messages sent
  got    \* the places of those each channel received

Init == whole \in BOOLEAN /\ log = <<>> /\ got = [s \in Channels |-> <<>>]

Sent == log' = log \/ \E m \in {log'[Len(log')]} : log' = Append(log, m)

\* A channel may read message i before message j of the same stream.
Precedes(i, j) ==
  IF whole /\ log'[i].what = "response" /\ log'[j].what = "response"
  THEN log'[i].req < log'[j].req
  ELSE i < j

InOrder(ms) ==
  \A k \in 1 .. Len(ms) : \A j \in 1 .. k - 1 :
    log'[ms[j]].stream = log'[ms[k]].stream => Precedes(ms[j], ms[k])

\* Channel s received what stands in its new sequence after the old one.
ReceivedMore(s) ==
  LET n == Len(got[s]) IN
  /\ Len(got'[s]) >= n /\ SubSeq(got'[s], 1, n) = got[s]
  /\ \A k \in n + 1 .. Len(got'[s]) :
       /\ got'[s][k] \in 1 .. Len(log')
       /\ log'[got'[s][k]].what = "response" => s = PostOf[log'[got'[s][k]].req]
  /\ InOrder(got'[s])

Next == whole' = whole /\ Sent /\ \A s \in Channels : ReceivedMore(s)

Spec == Init /\ [][Next]_<<whole, log, got>>
=============================================================================
