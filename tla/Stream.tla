-------------------------------- MODULE Stream --------------------------------
(***************************************************************************)
(* What TLS is promised by the control channel of the VPN client           *)
(* (synology-filestation-openvpn): the messages it hands in come out at    *)
(* the other end, each once and in order.  Messages are numbered as they   *)
(* are handed in, so a stream is how many went in and which came out.      *)
(***************************************************************************)
EXTENDS Integers, Sequences

VARIABLES accepted,   \* messages handed in: 0 .. accepted - 1
          delivered   \* messages handed up, in the order they were

Init == accepted = 0 /\ delivered = <<>>

Accept == accepted' = accepted + 1 /\ UNCHANGED delivered

\* The messages that come next, several at once where one packet closes a gap behind
\* which others have been waiting.
Deliver ==
    \E n \in Len(delivered) + 1 .. accepted :
        /\ delivered' = delivered \o [k \in 1 .. n - Len(delivered) |-> Len(delivered) + k - 1]
        /\ UNCHANGED accepted

Next == Accept \/ Deliver

Spec == Init /\ [][Next]_<<accepted, delivered>>
=============================================================================
