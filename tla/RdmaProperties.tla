--------------------------- MODULE RdmaProperties ---------------------------
(***************************************************************************)
(* What the RDMA transport promises.                                       *)
(***************************************************************************)
EXTENDS RdmaTransport, FiniteSets

Acknowledgement == [nack : BOOLEAN, cum : 0..NumPackets, sacked : SUBSET Packets]

\* Every variable is of its type.
RdmaTypeOK ==
    /\ irn \in BOOLEAN
    /\ una \in 0..NumPackets /\ nxt \in 0..NumPackets
    /\ sack \subseteq Packets
    /\ highestAck \in 0..NumPackets /\ maxSeq \in 0..NumPackets
    /\ recovery \in BOOLEAN /\ recoverySeq \in 0..(NumPackets + 1)
    /\ timer \in BOOLEAN /\ done \in BOOLEAN
    /\ expected \in 0..NumPackets /\ lastNack \in 0..NumPackets
    /\ rxSack \subseteq Packets
    /\ data \in Seq(Packets) /\ acks \in Seq(Acknowledgement)
    /\ faults \in 0..MaxFaults
    /\ arrived \subseteq Packets

-----------------------------------------------------------------------------

Before(seq) == 0..(seq - 1)

\* No hole is ever acknowledged: what the receiver counts as received, and
\* what the sender takes for acknowledged, cumulatively or selectively, has
\* arrived, whatever was dropped, overtaken or sent again.
AckedMeansArrived ==
    /\ Before(expected) \cup rxSack \subseteq arrived
    /\ Before(una) \cup sack \subseteq arrived

\* The assertions of the code: GetOnTheFly's "snd_nxt >= snd_una" and
\* "SACK blocks must be larger than expected".
AssertionsHold ==
    /\ ~done => una <= nxt
    /\ \A q \in rxSack : q > expected

\* Sent, not acknowledged cumulatively, and not yet arrived.
OnTheWay == {q \in highestAck..maxSeq : q \notin arrived}

\* The window bounds the packets the fabric holds of the flow, duplicates
\* apart.  With IRN the sender asks it before it skips what has been
\* acknowledged selectively, so that m_max_seq may run ahead of
\* m_highest_ack + m_bdp; the packets on their way still fit.
WindowRespected ==
    /\ ~irn /\ Win # 0 /\ ~done => nxt - una <= Win
    /\ irn /\ ~done => Cardinality(OnTheWay) <= Bdp

Transfer == INSTANCE FlowTransfer

\* Drops, overtakings, timeouts and late acknowledgements are invisible to the
\* application: the flow completes once, when everything has arrived.
ReliableTransfer == Transfer!Spec

\* Faults that end do not keep the flow from completing: no NACK that is
\* suppressed, no recovery that is not left and no timer that is not restarted
\* leaves the sender waiting for ever.
FlowCompletes == <>done

=============================================================================
