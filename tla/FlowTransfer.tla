---------------------------- MODULE FlowTransfer ----------------------------
(***************************************************************************)
(* What the RDMA transport promises to one flow: each of its packets       *)
(* reaches the receiving host, in whatever order, and the flow completes   *)
(* once, when all of them have.                                            *)
(***************************************************************************)
EXTENDS Naturals

CONSTANT Packets

VARIABLES
    arrived,    \* the packets that have reached the receiving host
    done        \* the sending host has reported the flow's completion

vars == <<arrived, done>>

Init == arrived = {} /\ done = FALSE

Arrive ==
    /\ \E p \in Packets \ arrived : arrived' = arrived \cup {p}
    /\ UNCHANGED done

Complete ==
    /\ arrived = Packets /\ ~done
    /\ done' = TRUE
    /\ UNCHANGED arrived

Next == Arrive \/ Complete

Spec == Init /\ [][Next]_vars

FairSpec == Spec /\ WF_vars(Next)

=============================================================================
