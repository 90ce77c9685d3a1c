-------------------------------- MODULE Relay --------------------------------
(***************************************************************************)
(* What every stage of the server promises to the stage before it: a       *)
(* relay.  Chunks are accepted in some order and come out at the other     *)
(* side in that same order, each of them once, none of them invented.      *)
(*                                                                         *)
(* The promise is stated over two sequences that only grow: all the chunks *)
(* ever accepted, and all the chunks ever delivered.  What the stage still *)
(* holds is the difference.  LinkList implements a relay from the          *)
(* receiving thread to the saving thread; Server implements a relay from   *)
(* the receiving thread to the bytes of RPIO.txt and its rotated copies.   *)
(***************************************************************************)
EXTENDS Integers, Sequences

CONSTANT Chunk      \* the units of data that are relayed

VARIABLES
    accepted,       \* every chunk taken in so far, in order
    delivered       \* every chunk handed out so far, in order

vars == <<accepted, delivered>>

Init ==
    /\ accepted = <<>>
    /\ delivered = <<>>

Accept ==
    /\ \E c \in Chunk : accepted' = Append(accepted, c)
    /\ UNCHANGED delivered

\* One or more of the chunks that are held come out together: a batch.
Deliver ==
    /\ \E n \in Len(delivered) + 1 .. Len(accepted) :
            delivered' = SubSeq(accepted, 1, n)
    /\ UNCHANGED accepted

Next == Accept \/ Deliver

Spec == Init /\ [][Next]_vars
==============================================================================
