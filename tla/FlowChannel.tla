---------------------------- MODULE FlowChannel ----------------------------
(***************************************************************************)
(* What a load balancer promises to one RDMA flow: the packets a source    *)
(* host hands to its top-of-rack switch reach the destination host once    *)
(* each, in the order they were sent, and in the end all of them.  Packets *)
(* are numbered 1, 2, 3, ... in sending order; a reordering buffer may     *)
(* release several of them in one go.                                      *)
(***************************************************************************)
EXTENDS Integers, Sequences

VARIABLES
    sent,       \* number of packets handed over by the source host
    delivered   \* sequence of packet numbers handed to the destination host

vars == <<sent, delivered>>

\* The next n packets after those already delivered.
Following(n) == [i \in 1..n |-> Len(delivered) + i]

Init ==
    /\ sent = 0
    /\ delivered = <<>>

Send ==
    /\ sent' = sent + 1
    /\ UNCHANGED delivered

Deliver ==
    /\ \E n \in 1..(sent - Len(delivered)) :
           delivered' = delivered \o Following(n)
    /\ UNCHANGED sent

Next == Send \/ Deliver

Spec == Init /\ [][Next]_vars

FairSpec == Spec /\ WF_vars(Deliver)
=============================================================================
