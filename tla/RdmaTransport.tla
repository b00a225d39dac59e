--------------------------- MODULE RdmaTransport ---------------------------
(***************************************************************************)
(* One RDMA flow from host to host: RdmaHw, RdmaQueuePair and              *)
(* RdmaRxQueuePair (src/conweave-ns3-main/src/point-to-point/model).       *)
(* Either go-back-N (with PFC) or IRN, selective acknowledgement (without  *)
(* PFC); the scripts refuse the other combinations.                        *)
(*                                                                         *)
(* A sequence number counts packets: 0, ..., NumPackets - 1.  An           *)
(* IrnSackManager is the set of the packets its blocks cover; its front    *)
(* block is the run of numbers that starts with the least.                 *)
(*                                                                         *)
(* The fabric may drop data and let it overtake.  Acknowledgements travel  *)
(* in the class without admission control and on one path: they are        *)
(* neither lost nor reordered.                                             *)
(***************************************************************************)
EXTENDS Integers, Sequences, FiniteSetsExt

CONSTANTS
    NumPackets,     \* m_size
    Modes,          \* subset of BOOLEAN: values of m_irn
    Win,            \* m_win; 0 stands for no window
    Bdp,            \* irn.m_bdp
    MaxFaults,      \* bound: drops and overtakings
    MaxInFlight     \* bound: data and acknowledgements on their way

ASSUME RdmaAssumption ==
    /\ NumPackets \in Nat \ {0} /\ Modes \subseteq BOOLEAN
    /\ Win \in Nat /\ Bdp \in Nat \ {0}
    /\ MaxFaults \in Nat /\ MaxInFlight \in Nat \ {0}

Packets == 0..(NumPackets - 1)

VARIABLES
    irn,            \* irn.m_enabled
    \* the sender's queue pair
    una,            \* snd_una
    nxt,            \* snd_nxt
    sack,           \* irn.m_sack
    highestAck,     \* irn.m_highest_ack
    maxSeq,         \* irn.m_max_seq
    recovery,       \* irn.m_recovery
    recoverySeq,    \* irn.m_recovery_seq
    timer,          \* m_retransmit is running
    done,           \* the flow is complete, the queue pair deleted
    \* the receiver's queue pair
    expected,       \* ReceiverNextExpectedSeq
    lastNack,       \* m_lastNACK
    rxSack,         \* m_irn_sack_
    \* the fabric
    data, acks,
    faults,
    arrived         \* the packets that have reached the receiver (history)

sendVars == <<una, nxt, sack, highestAck, maxSeq, recovery, recoverySeq, timer>>
rxVars == <<expected, lastNack, rxSack>>
netVars == <<data, acks, faults, arrived>>
vars == <<irn, sendVars, done, rxVars, netVars>>

\* The constructor leaves m_recovery_seq as it finds it.
Init ==
    /\ irn \in Modes
    /\ una = 0 /\ nxt = 0 /\ sack = {} /\ highestAck = 0 /\ maxSeq = 0
    /\ recovery = FALSE /\ recoverySeq \in 0..(NumPackets + 1)
    /\ timer = FALSE /\ done = FALSE
    /\ expected = 0 /\ lastNack = 0 /\ rxSack = {}
    /\ data = <<>> /\ acks = <<>> /\ faults = 0 /\ arrived = {}

Larger(m, n) == IF m < n THEN n ELSE m
Smaller(m, n) == IF m < n THEN m ELSE n

-----------------------------------------------------------------------------
(* IrnSackManager.                                                         *)

\* The front block starts at pos.
FrontAt(set, pos) == pos \in set /\ \A q \in set : pos <= q

\* Mutant: the end of a block is taken one too far.
RunEndOffByOne(set, pos) == Min({q \in pos..NumPackets : q \notin set}) + 1

\* The end of the run of numbers that starts at pos.
RunEnd(set, pos) == Min({q \in pos..NumPackets : q \notin set})

\* discardUpTo
Discarded(set, pos) == {q \in set : q >= pos}

\* "snd_nxt == sack_seq": a position at the front block moves to its end.
Past(set, pos) == IF FrontAt(set, pos) THEN RunEnd(set, pos) ELSE pos

\* ... and the block is discarded.
Passed(set, pos) ==
    IF FrontAt(set, pos) THEN Discarded(set, RunEnd(set, pos)) ELSE set

-----------------------------------------------------------------------------
(* The sender.                                                             *)

WinBound == Win # 0 /\ nxt - una >= Win

\* Mutant: the window is not asked.
CanIrnTransmitAlways == TRUE

\* The 32-bit difference of m_max_seq and m_highest_ack wraps when everything
\* sent has been acknowledged, and is then no less than any window.
CanIrnTransmit ==
    \/ /\ maxSeq >= highestAck
       /\ (maxSeq - highestAck) + Smaller(NumPackets - nxt, 1) < Bdp
    \/ highestAck + Bdp > nxt

MaySend == ~WinBound /\ (irn => CanIrnTransmit)

\* GetNextQindex and GetNxtPacket: the window is asked before GetBytesLeft
\* passes what has been acknowledged selectively.
Transmit ==
    /\ ~done /\ MaySend
    /\ Len(data) + Len(acks) < MaxInFlight
    /\ LET seq == Past(sack, nxt)
       IN  /\ seq < NumPackets
           /\ data' = Append(data, seq)
           /\ nxt' = seq + 1
           /\ sack' = Passed(sack, nxt)
           /\ maxSeq' = IF irn THEN Larger(maxSeq, seq) ELSE maxSeq
    /\ timer' = TRUE
    /\ UNCHANGED <<irn, una, highestAck, recovery, recoverySeq, done, rxVars,
                   acks, faults, arrived>>

\* GetBytesLeft is called although nothing can be sent.
Poll ==
    /\ ~done /\ FrontAt(sack, nxt)
    /\ nxt' = Past(sack, nxt)
    /\ sack' = Passed(sack, nxt)
    /\ UNCHANGED <<irn, una, highestAck, maxSeq, recovery, recoverySeq, timer, done,
                   rxVars, netVars>>

\* Mutant: the pointer is left where it is.
RecoverQueueNone(acked, next) == next

\* RecoverQueue
RecoverQueue(acked, next) == acked

\* HandleTimeout
HandleTimeout ==
    /\ timer /\ ~done
    /\ timer' = FALSE
    /\ sack' = Passed(sack, nxt)
    /\ nxt' = RecoverQueue(una, Past(sack, nxt))
    /\ recovery' = (irn \/ recovery)
    /\ UNCHANGED <<irn, una, highestAck, maxSeq, recoverySeq, done, rxVars, netVars>>

\* QpComplete cancels the timer and deletes both queue pairs.
Completes(acked) ==
    IF acked >= NumPackets
    THEN /\ done' = TRUE
         /\ expected' = 0 /\ lastNack' = 0 /\ rxSack' = {}
    ELSE UNCHANGED <<done, rxVars>>

\* "As long as there are outstanding expected responses."
TimerAfter(acked, next) == acked < NumPackets /\ (next > acked \/ timer)

\* ReceiveAck without IRN.
AckGoBackN(ack) ==
    LET acked == Larger(una, ack.cum)
        next  == Larger(nxt, acked)
    IN  /\ una' = acked
        /\ nxt' = IF ack.nack THEN RecoverQueue(acked, next) ELSE next
        /\ timer' = TimerAfter(acked, next)
        /\ Completes(acked)
        /\ UNCHANGED <<sack, highestAck, maxSeq, recovery, recoverySeq>>

\* Mutant: a packet acknowledged selectively counts for all before it.
SackedUpToAll(set, acked) ==
    IF set # {} /\ acked <= Min(set) THEN RunEnd(set, Min(set)) ELSE acked

\* snd_una after Acknowledge and a look at the front block.
SackedUpTo(set, acked) == Past(set, acked)

\* ReceiveAck with IRN.
AckIrn(ack) ==
    LET known == sack \cup ack.sacked
        acked == SackedUpTo(known, Larger(una, ack.cum))
        kept  == Discarded(known, acked)
        next  == Past(kept, Larger(nxt, acked))
        still == recovery /\ acked < recoverySeq
        start == ack.sacked # {} /\ ~still
    IN  /\ una' = acked
        /\ highestAck' = Larger(highestAck, ack.cum)
        /\ sack' = Passed(kept, Larger(nxt, acked))
        /\ nxt' = IF start THEN RecoverQueue(acked, next) ELSE next
        /\ recovery' = (ack.sacked # {})
        /\ recoverySeq' = IF start THEN next ELSE recoverySeq
        /\ timer' = TimerAfter(acked, next)
        /\ Completes(acked)
        /\ UNCHANGED maxSeq

ReceiveAck ==
    /\ ~done /\ acks # <<>>
    /\ IF irn THEN AckIrn(Head(acks)) ELSE AckGoBackN(Head(acks))
    /\ acks' = Tail(acks)
    /\ UNCHANGED <<irn, data, faults, arrived>>

\* The queue pair is gone: its key is in akashic_Qp.
ReceiveLateAck ==
    /\ done /\ acks # <<>>
    /\ acks' = Tail(acks)
    /\ UNCHANGED <<irn, sendVars, done, rxVars, data, faults, arrived>>

-----------------------------------------------------------------------------
(* The receiver: ReceiveUdp and ReceiverCheckSeq.  A queue pair that has   *)
(* been deleted is created anew.                                           *)

Reply(nack, cum, sacked) ==
    acks' = Append(acks, [nack |-> nack, cum |-> cum, sacked |-> sacked])

\* In order, or a duplicate that ends where the next packet starts.
InOrder(seq) == seq = expected \/ seq + 1 = expected

\* Every in-order packet is acknowledged: L2_ACK_INTERVAL is less than one.
CheckSeqGoBackN(seq, elapsed) ==
    /\ expected' = IF seq = expected THEN expected + 1 ELSE expected
    /\ IF seq <= expected
       THEN Reply(FALSE, expected', {}) /\ UNCHANGED lastNack
       ELSE IF elapsed \/ lastNack # expected
            THEN Reply(TRUE, expected, {}) /\ lastNack' = expected
            ELSE UNCHANGED <<acks, lastNack>>
    /\ UNCHANGED rxSack

\* Mutant: the front block is added wherever it starts.
AdvancedAny(set, next) == IF set # {} THEN RunEnd(set, Min(set)) ELSE next

\* ReceiverNextExpectedSeq moves over a front block that starts there.
Advanced(set, next) ==
    IF set # {} /\ Min(set) <= next THEN RunEnd(set, Min(set)) ELSE next

\* Mutant: the blocks that have been passed are kept.
SackAfterAll(next) == rxSack

SackAfter(next) == Discarded(rxSack, next)

\* In order or late: the reply says whether packets are still missing, and
\* repeats the packet if so.
CheckSeqIrnInOrder(seq) ==
    LET next == Advanced(rxSack, IF seq = expected THEN expected + 1 ELSE expected)
    IN  /\ expected' = IF InOrder(seq) THEN next ELSE expected
        /\ rxSack' = IF InOrder(seq) THEN SackAfter(next) ELSE rxSack
        /\ Reply(TRUE, expected', IF rxSack' = {} THEN {} ELSE {seq})

\* Too early: a selective acknowledgement, unless this packet has had one and
\* the NACK timer runs.
CheckSeqIrnEarly(seq, elapsed) ==
    /\ UNCHANGED expected
    /\ IF seq \in rxSack /\ ~elapsed
       THEN UNCHANGED <<acks, rxSack>>
       ELSE rxSack' = rxSack \cup {seq} /\ Reply(TRUE, expected, {seq})

\* elapsed: the NACK timer has expired.
ReceiveUdp(seq, elapsed) ==
    /\ arrived' = arrived \cup {seq}
    /\ IF ~irn THEN CheckSeqGoBackN(seq, elapsed)
       ELSE /\ IF seq <= expected THEN CheckSeqIrnInOrder(seq)
                                  ELSE CheckSeqIrnEarly(seq, elapsed)
            /\ UNCHANGED lastNack
    /\ UNCHANGED <<irn, sendVars, done>>

-----------------------------------------------------------------------------
(* The fabric (external).                                                  *)

Without(seq, i) == SubSeq(seq, 1, i - 1) \o SubSeq(seq, i + 1, Len(seq))

\* The packet at position i arrives; if it is not the first, it overtakes.
Deliver(i) ==
    /\ i \in DOMAIN data /\ (i > 1 => faults < MaxFaults)
    /\ data' = Without(data, i)
    /\ faults' = IF i > 1 THEN faults + 1 ELSE faults
    /\ \E elapsed \in BOOLEAN : ReceiveUdp(data[i], elapsed)

Drop(i) ==
    /\ i \in DOMAIN data /\ faults < MaxFaults
    /\ data' = Without(data, i)
    /\ faults' = faults + 1
    /\ UNCHANGED <<irn, sendVars, done, rxVars, acks, arrived>>

-----------------------------------------------------------------------------

Next ==
    \/ Transmit \/ Poll \/ HandleTimeout \/ ReceiveAck \/ ReceiveLateAck
    \/ \E i \in 1..MaxInFlight : Deliver(i) \/ Drop(i)

Spec == Init /\ [][Next]_vars

\* The device sends when it may, the fabric and the timer go on.
FairSpec ==
    /\ Spec
    /\ WF_vars(Transmit) /\ WF_vars(HandleTimeout)
    /\ WF_vars(ReceiveAck) /\ WF_vars(Deliver(1))

=============================================================================
