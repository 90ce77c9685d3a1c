------------------------------ MODULE LossyRelay ------------------------------
(***************************************************************************)
(* What the client and the server promise between them, from send to the    *)
(* server's list, through cut connections, restarts and resends: units may  *)
(* be lost, but none comes out twice, out of order, or before it was sent.  *)
(***************************************************************************)
EXTENDS Integers, Sequences

VARIABLES
    sent,           \* how many units have been sent; they are 1 .. sent
    delivered       \* the units that have come out, in order

vars == <<sent, delivered>>

Last == IF delivered = <<>> THEN 0 ELSE delivered[Len(delivered)]

Init == sent = 0 /\ delivered = <<>>

Send == sent' = sent + 1 /\ UNCHANGED delivered

\* Some of the units that are left come out together; the others before them
\* never will.
Deliver ==
    /\ Len(delivered') > Len(delivered)
    /\ SubSeq(delivered', 1, Len(delivered)) = delivered
    /\ delivered'[Len(delivered) + 1] > Last
    /\ \A i \in Len(delivered) + 1 .. Len(delivered') - 1 :
            delivered'[i] < delivered'[i + 1]
    /\ delivered'[Len(delivered')] <= sent
    /\ UNCHANGED sent

Next == Send \/ Deliver

Spec == Init /\ [][Next]_vars
===============================================================================
