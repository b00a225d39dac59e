----------------------------- MODULE RdmaProofs -----------------------------
(***************************************************************************)
(* For every size of the flow, window, mode and number of faults: no hole  *)
(* is acknowledged, the code's assertions hold, the window is respected,   *)
(* and the transport implements FlowTransfer.                              *)
(*                                                                         *)
(* The invariant adds what is on its way to what the two ends know: every  *)
(* acknowledgement in the fabric speaks of packets that have arrived.  The *)
(* window needs one more: nothing has arrived, and no pointer has moved,   *)
(* past the largest number that was sent.                                  *)
(***************************************************************************)
EXTENDS RdmaProperties, SequenceTheorems, FiniteSetTheorems, WellFoundedInduction, TLAPS

-----------------------------------------------------------------------------
(* The blocks of an IrnSackManager.                                        *)

\* A packet's number is a number below m_size.
LEMMA PacketNumbers ==
    /\ NumPackets \in Nat \ {0}
    /\ Packets \subseteq 0..NumPackets
    /\ \A q \in 0..NumPackets : q < NumPackets => q \in Packets /\ q + 1 \in 0..NumPackets
    /\ \A q \in Packets : q \in 0..NumPackets /\ q + 1 \in 0..NumPackets
    /\ \A q : q \in Packets <=> q \in Nat /\ q < NumPackets
  BY RdmaAssumption DEF Packets

\* A set of sequence numbers that is not empty has a least one.
LEMMA MinOfPositions ==
    ASSUME NEW S, S \subseteq Nat, S # {}
    PROVE  Min(S) \in S /\ \A q \in S : Min(S) <= q
  <1> DEFINE less == {pair \in Nat \X Nat : pair[1] < pair[2]}
  <1>1. PICK x \in S : \A y \in S : <<y, x>> \notin less
    <2> HIDE DEF less
    <2>1. IsWellFoundedOn(less, Nat)
      BY NatLessThanWellFounded DEF less, OpToRel
    <2> QED BY <2>1, WFMin
  <1>2. ASSUME NEW y \in S PROVE x <= y
    <2>1. x \in Nat /\ y \in Nat
      OBVIOUS
    <2>2. <<y, x>> \notin less
      BY <1>1
    <2> QED BY <2>1, <2>2
  <1> QED BY <1>2 DEF Min

\* A block covers everything from its start to its end, and no more.
LEMMA RunCovers ==
    ASSUME NEW set, set \subseteq Packets, NEW pos \in 0..NumPackets
    PROVE  /\ RunEnd(set, pos) \in pos..NumPackets
           /\ RunEnd(set, pos) \notin set
           /\ Before(RunEnd(set, pos)) \subseteq Before(pos) \cup set
  <1> DEFINE free == {q \in pos..NumPackets : q \notin set}
  <1>1. NumPackets \in free /\ free \subseteq Nat
    BY RdmaAssumption DEF Packets
  <1>2. RunEnd(set, pos) = Min(free)
    BY DEF RunEnd
  <1>3. Min(free) \in free /\ \A q \in free : Min(free) <= q
    BY <1>1, MinOfPositions
  <1>4. ASSUME NEW q \in Before(Min(free)), q \notin Before(pos) PROVE q \in set
    BY <1>3, <1>4, RdmaAssumption DEF Before
  <1> QED BY <1>2, <1>3, <1>4

\* A position that passes the front block has everything before it.
LEMMA PastCovers ==
    ASSUME NEW set, set \subseteq Packets, NEW pos \in 0..NumPackets
    PROVE  /\ Past(set, pos) \in pos..NumPackets
           /\ Before(Past(set, pos)) \subseteq Before(pos) \cup set
           /\ Passed(set, pos) \subseteq set
  BY RunCovers, RdmaAssumption DEF Past, Passed, Discarded

\* So has the receiver's next expected number; unless the front block starts
\* right there, it is left alone, and it is never itself in the blocks.
LEMMA AdvancedCovers ==
    ASSUME NEW set, set \subseteq Packets, NEW next \in 0..NumPackets
    PROVE  /\ Advanced(set, next) \in 0..NumPackets
           /\ Before(Advanced(set, next)) \subseteq Before(next) \cup set
           /\ Advanced(set, next) \notin set
  <1> USE RdmaAssumption
  <1> set \subseteq Nat
    BY DEF Packets
  <1>1. CASE set # {} /\ Min(set) <= next
    <2>1. Min(set) \in 0..NumPackets
      <3>1. Min(set) \in set
        BY <1>1, MinOfPositions
      <3> QED BY <3>1, PacketNumbers
    <2>2. Before(Min(set)) \subseteq Before(next)
      BY <1>1, <2>1 DEF Before
    <2>3. Advanced(set, next) = RunEnd(set, Min(set))
      BY <1>1 DEF Advanced
    <2>4. /\ RunEnd(set, Min(set)) \in Min(set)..NumPackets
          /\ RunEnd(set, Min(set)) \notin set
          /\ Before(RunEnd(set, Min(set))) \subseteq Before(Min(set)) \cup set
      BY <2>1, RunCovers
    <2> HIDE DEF Before
    <2> QED BY <2>1, <2>2, <2>3, <2>4
  <1>2. CASE set # {} /\ ~(Min(set) <= next)
    BY <1>2, MinOfPositions DEF Advanced
  <1>3. CASE set = {}
    BY <1>3 DEF Advanced
  <1> QED BY <1>1, <1>2, <1>3

-----------------------------------------------------------------------------
(* The inductive invariant.                                                *)

\* What an acknowledgement on its way may say.
Honest == {ack \in Acknowledgement : Before(ack.cum) \cup ack.sacked \subseteq arrived}

IInv ==
    /\ RdmaTypeOK
    /\ AckedMeansArrived
    /\ AssertionsHold
    /\ acks \in Seq(Honest)
    /\ ~irn => rxSack = {}

\* A packet that leaves the fabric was one of the flow's; the others stay.
LEMMA WithoutIsSeq ==
    ASSUME NEW S, NEW seq \in Seq(S), NEW i \in DOMAIN seq
    PROVE  Without(seq, i) \in Seq(S) /\ seq[i] \in S
  <1>1. Len(seq) \in Nat /\ DOMAIN seq = 1..Len(seq) /\ \A k \in 1..Len(seq) : seq[k] \in S
    BY LenProperties, ElementOfSeq
  <1>2. SubSeq(seq, 1, i - 1) \in Seq(S)
    BY <1>1, SubSeqProperties
  <1>3. SubSeq(seq, i + 1, Len(seq)) \in Seq(S)
    BY <1>1, SubSeqProperties
  <1> QED BY <1>1, <1>2, <1>3, ConcatProperties DEF Without

\* The invariant of the acknowledgements survives a packet's arrival.
LEMMA HonestStays ==
    ASSUME arrived \subseteq arrived', acks \in Seq(Honest)
    PROVE  acks \in Seq(Honest') /\ Honest \subseteq Honest'
  <1>1. Honest \subseteq Honest'
    BY DEF Honest, Acknowledgement
  <1> QED BY <1>1, SeqMonotonic

LEMMA InitIInv == Init => IInv
  <1> SUFFICES ASSUME Init PROVE IInv
    OBVIOUS
  <1>1. data \in Seq(Packets) /\ acks \in Seq(Acknowledgement) /\ acks \in Seq(Honest)
    BY EmptySeq DEF Init
  <1>2. RdmaTypeOK
    <2>1. irn \in BOOLEAN
      BY RdmaAssumption DEF Init
    <2>2. 0 \in 0..NumPackets /\ 0 \in 0..MaxFaults
      BY RdmaAssumption
    <2> QED BY <1>1, <2>1, <2>2 DEF Init, RdmaTypeOK
  <1>3. AckedMeansArrived
    BY DEF Init, AckedMeansArrived, Before
  <1>4. AssertionsHold
    BY DEF Init, AssertionsHold
  <1>5. rxSack = {}
    BY DEF Init
  <1> QED BY <1>1, <1>2, <1>3, <1>4, <1>5 DEF IInv

-----------------------------------------------------------------------------
(* The sender's steps.                                                     *)

LEMMA TransmitInv == IInv /\ Transmit => IInv'
  <1> SUFFICES ASSUME IInv, Transmit PROVE IInv'
    OBVIOUS
  <1> DEFINE seq == Past(sack, nxt)
  <1>1. /\ seq \in nxt..NumPackets /\ Passed(sack, nxt) \subseteq sack
        /\ nxt \in 0..NumPackets
    BY PastCovers DEF IInv, RdmaTypeOK
  <1>2. /\ seq < NumPackets
        /\ data' = Append(data, seq) /\ nxt' = seq + 1 /\ sack' = Passed(sack, nxt)
        /\ maxSeq' = IF irn THEN Larger(maxSeq, seq) ELSE maxSeq
        /\ timer' = TRUE
        /\ UNCHANGED <<irn, una, highestAck, recovery, recoverySeq, done, expected,
                       lastNack, rxSack, acks, faults, arrived>>
    BY DEF Transmit, rxVars
  <1> HIDE DEF seq
  <1>3. seq \in Packets /\ seq \in 0..NumPackets /\ seq + 1 \in 0..NumPackets
    BY <1>1, <1>2, PacketNumbers
  <1>4. data' \in Seq(Packets)
    BY <1>2, <1>3, AppendProperties DEF IInv, RdmaTypeOK
  <1>5. RdmaTypeOK'
    BY <1>1, <1>2, <1>3, <1>4 DEF IInv, RdmaTypeOK, Larger, Acknowledgement
  <1>6. AckedMeansArrived'
    BY <1>1, <1>2 DEF IInv, AckedMeansArrived, Before
  <1>7. AssertionsHold'
    BY <1>1, <1>2, PacketNumbers DEF IInv, AssertionsHold, RdmaTypeOK
  <1> QED BY <1>2, <1>5, <1>6, <1>7 DEF IInv, Honest

LEMMA PollInv == IInv /\ Poll => IInv'
  <1> SUFFICES ASSUME IInv, Poll PROVE IInv'
    OBVIOUS
  <1>1. /\ Past(sack, nxt) \in nxt..NumPackets /\ Passed(sack, nxt) \subseteq sack
        /\ nxt \in 0..NumPackets
    BY PastCovers DEF IInv, RdmaTypeOK
  <1>2. /\ nxt' = Past(sack, nxt) /\ sack' = Passed(sack, nxt)
        /\ UNCHANGED <<irn, una, highestAck, maxSeq, recovery, recoverySeq, timer, done,
                       expected, lastNack, rxSack, data, acks, faults, arrived>>
    BY DEF Poll, rxVars, netVars
  <1>3. nxt' \in 0..NumPackets
    BY <1>1, <1>2, RdmaAssumption
  <1>4. RdmaTypeOK'
    BY <1>1, <1>2, <1>3 DEF IInv, RdmaTypeOK, Acknowledgement
  <1>5. AckedMeansArrived'
    BY <1>1, <1>2 DEF IInv, AckedMeansArrived, Before
  <1>6. AssertionsHold'
    BY <1>1, <1>2, RdmaAssumption DEF IInv, AssertionsHold, RdmaTypeOK
  <1> QED BY <1>2, <1>4, <1>5, <1>6 DEF IInv, Honest

LEMMA HandleTimeoutInv == IInv /\ HandleTimeout => IInv'
  <1> SUFFICES ASSUME IInv, HandleTimeout PROVE IInv'
    OBVIOUS
  <1>1. Passed(sack, nxt) \subseteq sack
    BY PastCovers DEF IInv, RdmaTypeOK
  <1>2. /\ timer' = FALSE /\ sack' = Passed(sack, nxt) /\ nxt' = una
        /\ recovery' = (irn \/ recovery)
        /\ UNCHANGED <<irn, una, highestAck, maxSeq, recoverySeq, done,
                       expected, lastNack, rxSack, data, acks, faults, arrived>>
    BY DEF HandleTimeout, RecoverQueue, rxVars, netVars
  <1>3. RdmaTypeOK'
    BY <1>1, <1>2 DEF IInv, RdmaTypeOK, Acknowledgement
  <1>4. AckedMeansArrived'
    BY <1>1, <1>2 DEF IInv, AckedMeansArrived, Before
  <1>5. AssertionsHold'
    BY <1>2, RdmaAssumption DEF IInv, AssertionsHold, RdmaTypeOK
  <1> QED BY <1>2, <1>3, <1>4, <1>5 DEF IInv, Honest


\* The acknowledgement at the head of the queue tells the truth.
LEMMA HeadIsHonest ==
    ASSUME IInv, acks # <<>>
    PROVE  /\ Head(acks) \in Honest
           /\ Tail(acks) \in Seq(Honest) /\ Tail(acks) \in Seq(Acknowledgement)
  <1>1. acks \in Seq(Honest) /\ acks \in Seq(Acknowledgement)
    BY DEF IInv, RdmaTypeOK
  <1> QED BY <1>1, HeadTailProperties

LEMMA AckGoBackNInv ==
    ASSUME IInv, ~done, NEW ack \in Honest, AckGoBackN(ack),
           acks' \in Seq(Honest), acks' \in Seq(Acknowledgement),
           UNCHANGED <<irn, data, faults, arrived>>
    PROVE  IInv'
  <1> DEFINE acked == Larger(una, ack.cum)
             next  == Larger(nxt, acked)
  <1>1. /\ acked \in 0..NumPackets /\ next \in 0..NumPackets /\ acked <= next
        /\ acked = una \/ acked = ack.cum
        /\ Before(ack.cum) \subseteq arrived
    BY RdmaAssumption DEF IInv, RdmaTypeOK, Honest, Acknowledgement, Larger
  <1>2. /\ una' = acked
        /\ nxt' = IF ack.nack THEN acked ELSE next
        /\ timer' = TimerAfter(acked, next)
        /\ Completes(acked)
        /\ UNCHANGED <<sack, highestAck, maxSeq, recovery, recoverySeq>>
    BY DEF AckGoBackN, RecoverQueue
  <1> HIDE DEF acked, next
  <1>3. timer' \in BOOLEAN
    BY <1>2 DEF TimerAfter
  <1>4. /\ done' \in BOOLEAN
        /\ \/ expected' = 0 /\ lastNack' = 0 /\ rxSack' = {}
           \/ UNCHANGED <<expected, lastNack, rxSack>>
    BY <1>2 DEF Completes, rxVars, IInv, RdmaTypeOK
  <1>5. nxt' \in 0..NumPackets /\ una' \in 0..NumPackets /\ una' <= nxt'
    BY <1>1, <1>2, RdmaAssumption
  <1>6. RdmaTypeOK'
    <2>1. expected' \in 0..NumPackets /\ lastNack' \in 0..NumPackets /\ rxSack' \subseteq Packets
      BY <1>4, RdmaAssumption DEF IInv, RdmaTypeOK
    <2> QED BY <1>2, <1>3, <1>4, <1>5, <2>1 DEF IInv, RdmaTypeOK, Acknowledgement
  <1>7. AckedMeansArrived'
    BY <1>1, <1>2, <1>4 DEF IInv, AckedMeansArrived, Before
  <1>8. AssertionsHold'
    BY <1>4, <1>5 DEF IInv, AssertionsHold
  <1> QED BY <1>4, <1>6, <1>7, <1>8 DEF IInv, Honest

LEMMA AckIrnInv ==
    ASSUME IInv, ~done, NEW ack \in Honest, AckIrn(ack),
           acks' \in Seq(Honest), acks' \in Seq(Acknowledgement),
           UNCHANGED <<irn, data, faults, arrived>>
    PROVE  IInv'
  <1> DEFINE known == sack \cup ack.sacked
             cum   == Larger(una, ack.cum)
             acked == SackedUpTo(known, cum)
             kept  == Discarded(known, acked)
             top   == Larger(nxt, acked)
             next  == Past(kept, top)
  <1>1. /\ known \subseteq Packets /\ known \subseteq arrived
        /\ cum \in 0..NumPackets /\ Before(cum) \subseteq arrived
        /\ ack.cum \in 0..NumPackets
    <2>1. cum = una \/ cum = ack.cum
      BY DEF Larger
    <2>2. /\ ack.sacked \subseteq Packets /\ ack.cum \in 0..NumPackets
          /\ Before(ack.cum) \cup ack.sacked \subseteq arrived
      BY DEF Honest, Acknowledgement
    <2>3. /\ sack \subseteq Packets /\ una \in 0..NumPackets
          /\ Before(una) \cup sack \subseteq arrived
      BY DEF IInv, RdmaTypeOK, AckedMeansArrived
    <2> HIDE DEF cum, Before
    <2> QED BY <2>1, <2>2, <2>3
  <1>2. acked \in 0..NumPackets /\ Before(acked) \subseteq arrived
    <2> HIDE DEF known, cum, Before
    <2>1. acked \in cum..NumPackets /\ Before(acked) \subseteq Before(cum) \cup known
      BY <1>1, PastCovers DEF SackedUpTo
    <2> QED BY <1>1, <2>1, RdmaAssumption
  <1>3. kept \subseteq known
    BY DEF Discarded
  <1>4. top \in 0..NumPackets /\ acked <= top
    <2> HIDE DEF acked
    <2> QED BY <1>2, RdmaAssumption DEF IInv, RdmaTypeOK, Larger
  <1>5. next \in top..NumPackets /\ Passed(kept, top) \subseteq kept
    <2> HIDE DEF top, kept, known
    <2> QED BY <1>1, <1>3, <1>4, PastCovers
  <1> DEFINE start == ack.sacked # {} /\ ~(recovery /\ acked < recoverySeq)
  <1>6. /\ una' = acked
        /\ highestAck' = Larger(highestAck, ack.cum)
        /\ sack' = Passed(kept, top)
        /\ nxt' = IF start THEN acked ELSE next
        /\ recovery' = (ack.sacked # {})
        /\ recoverySeq' = IF start THEN next ELSE recoverySeq
        /\ timer' = TimerAfter(acked, next)
        /\ Completes(acked)
        /\ UNCHANGED maxSeq
    BY DEF AckIrn, RecoverQueue
  <1> HIDE DEF known, cum, acked, kept, top, next, start
  <1>7. timer' \in BOOLEAN /\ recovery' \in BOOLEAN
    BY <1>6 DEF TimerAfter
  <1>8. /\ done' \in BOOLEAN
        /\ \/ expected' = 0 /\ lastNack' = 0 /\ rxSack' = {}
           \/ UNCHANGED <<expected, lastNack, rxSack>>
    BY <1>6 DEF Completes, rxVars, IInv, RdmaTypeOK
  <1>9. /\ nxt' \in 0..NumPackets /\ una' \in 0..NumPackets /\ una' <= nxt'
        /\ recoverySeq' \in 0..(NumPackets + 1)
    BY <1>2, <1>4, <1>5, <1>6, RdmaAssumption DEF IInv, RdmaTypeOK
  <1>10. highestAck' \in 0..NumPackets
    BY <1>1, <1>6 DEF IInv, RdmaTypeOK, Larger
  <1>11. sack' \subseteq Packets /\ sack' \subseteq arrived
    BY <1>1, <1>3, <1>5, <1>6
  <1>12. RdmaTypeOK'
    <2>1. expected' \in 0..NumPackets /\ lastNack' \in 0..NumPackets /\ rxSack' \subseteq Packets
      BY <1>8, RdmaAssumption DEF IInv, RdmaTypeOK
    <2> QED BY <1>6, <1>7, <1>8, <1>9, <1>10, <1>11, <2>1
            DEF IInv, RdmaTypeOK, Acknowledgement
  <1>13. AckedMeansArrived'
    BY <1>2, <1>6, <1>8, <1>11 DEF IInv, AckedMeansArrived, Before
  <1>14. AssertionsHold'
    BY <1>8, <1>9 DEF IInv, AssertionsHold
  <1> QED BY <1>8, <1>12, <1>13, <1>14 DEF IInv, Honest

LEMMA ReceiveAckInv == IInv /\ ReceiveAck => IInv'
  <1> SUFFICES ASSUME IInv, ReceiveAck PROVE IInv'
    OBVIOUS
  <1>1. /\ ~done /\ acks # <<>> /\ acks' = Tail(acks)
        /\ UNCHANGED <<irn, data, faults, arrived>>
        /\ IF irn THEN AckIrn(Head(acks)) ELSE AckGoBackN(Head(acks))
    BY DEF ReceiveAck
  <1>2. /\ Head(acks) \in Honest
        /\ acks' \in Seq(Honest) /\ acks' \in Seq(Acknowledgement)
    BY <1>1, HeadIsHonest
  <1>3. CASE irn
    BY <1>1, <1>2, <1>3, AckIrnInv
  <1>4. CASE ~irn
    BY <1>1, <1>2, <1>4, AckGoBackNInv
  <1> QED BY <1>3, <1>4

LEMMA ReceiveLateAckInv == IInv /\ ReceiveLateAck => IInv'
  <1> SUFFICES ASSUME IInv, ReceiveLateAck PROVE IInv'
    OBVIOUS
  <1>1. /\ acks # <<>> /\ acks' = Tail(acks)
        /\ UNCHANGED <<irn, una, nxt, sack, highestAck, maxSeq, recovery, recoverySeq,
                       timer, done, expected, lastNack, rxSack, data, faults, arrived>>
    BY DEF ReceiveLateAck, sendVars, rxVars
  <1>2. acks' \in Seq(Honest) /\ acks' \in Seq(Acknowledgement)
    BY <1>1, HeadIsHonest
  <1> QED BY <1>1, <1>2 DEF IInv, RdmaTypeOK, AckedMeansArrived, AssertionsHold, Honest,
                            Acknowledgement, Before

-----------------------------------------------------------------------------
(* The receiver's steps.                                                   *)

\* An honest reply keeps the replies honest.
LEMMA ReplyStaysHonest ==
    ASSUME acks \in Seq(Acknowledgement), acks \in Seq(Honest),
           arrived \subseteq arrived',
           NEW nack \in BOOLEAN, NEW cum \in 0..NumPackets, NEW sacked \in SUBSET Packets,
           Before(cum) \cup sacked \subseteq arrived',
           Reply(nack, cum, sacked)
    PROVE  acks' \in Seq(Acknowledgement) /\ acks' \in Seq(Honest')
  <1> DEFINE ack == [nack |-> nack, cum |-> cum, sacked |-> sacked]
  <1>1. ack \in Acknowledgement /\ ack.cum = cum /\ ack.sacked = sacked
    BY DEF Acknowledgement
  <1>2. acks' = Append(acks, ack)
    BY DEF Reply
  <1> HIDE DEF ack
  <1>3. ack \in Honest'
    BY <1>1 DEF Honest, Acknowledgement, Before
  <1>4. acks \in Seq(Honest')
    BY HonestStays
  <1> QED BY <1>1, <1>2, <1>3, <1>4, AppendProperties

\* What ReceiveUdp changes, and what it has to keep.
ReceiverOK ==
    /\ expected \in 0..NumPackets /\ lastNack \in 0..NumPackets
    /\ rxSack \subseteq Packets
    /\ Before(expected) \cup rxSack \subseteq arrived
    /\ \A q \in rxSack : q > expected
    /\ acks \in Seq(Acknowledgement) /\ acks \in Seq(Honest)

LEMMA CheckSeqGoBackNInv ==
    ASSUME ReceiverOK, NEW seq \in Packets, NEW elapsed \in BOOLEAN,
           rxSack = {}, arrived' = arrived \cup {seq}, CheckSeqGoBackN(seq, elapsed)
    PROVE  ReceiverOK' /\ rxSack' = {}
  <1>1. /\ expected' = IF seq = expected THEN expected + 1 ELSE expected
        /\ rxSack' = {}
    BY DEF CheckSeqGoBackN
  <1>2. expected' \in 0..NumPackets /\ Before(expected') \subseteq arrived'
    BY <1>1, PacketNumbers DEF ReceiverOK, Before
  <1>3. CASE seq <= expected
    <2>1. Reply(FALSE, expected', {}) /\ lastNack' = lastNack
      BY <1>3 DEF CheckSeqGoBackN
    <2>2. acks' \in Seq(Acknowledgement) /\ acks' \in Seq(Honest')
      <3> HIDE DEF Before
      <3> QED BY <1>2, <2>1, ReplyStaysHonest DEF ReceiverOK
    <2> QED BY <1>1, <1>2, <2>1, <2>2 DEF ReceiverOK
  <1>4. CASE ~(seq <= expected)
    <2>1. CASE elapsed \/ lastNack # expected
      <3>0. expected' = expected
        BY <1>1, <1>4, PacketNumbers DEF ReceiverOK
      <3>1. Reply(TRUE, expected', {}) /\ lastNack' = expected'
        BY <1>4, <2>1, <3>0 DEF CheckSeqGoBackN
      <3>2. acks' \in Seq(Acknowledgement) /\ acks' \in Seq(Honest')
        BY <1>2, <3>1, ReplyStaysHonest DEF ReceiverOK
      <3> QED BY <1>1, <1>2, <3>1, <3>2 DEF ReceiverOK
    <2>2. CASE ~(elapsed \/ lastNack # expected)
      <3>1. acks' = acks /\ lastNack' = lastNack
        BY <1>4, <2>2 DEF CheckSeqGoBackN
      <3>2. acks' \in Seq(Acknowledgement) /\ acks' \in Seq(Honest')
        BY <3>1, HonestStays DEF ReceiverOK
      <3> QED BY <1>1, <1>2, <3>1, <3>2 DEF ReceiverOK
    <2> QED BY <2>1, <2>2
  <1> QED BY <1>3, <1>4

LEMMA CheckSeqIrnInOrderInv ==
    ASSUME ReceiverOK, NEW seq \in Packets, seq <= expected,
           lastNack' = lastNack,
           arrived' = arrived \cup {seq}, CheckSeqIrnInOrder(seq)
    PROVE  ReceiverOK'
  <1> DEFINE first == IF seq = expected THEN expected + 1 ELSE expected
             next  == Advanced(rxSack, first)
  <1>1. /\ expected' = IF InOrder(seq) THEN next ELSE expected
        /\ rxSack' = IF InOrder(seq) THEN SackAfter(next) ELSE rxSack
        /\ Reply(TRUE, expected', IF rxSack' = {} THEN {} ELSE {seq})
    BY DEF CheckSeqIrnInOrder
  <1>2. first \in 0..NumPackets /\ Before(first) \subseteq arrived'
    BY PacketNumbers DEF ReceiverOK, Before
  <1>3. /\ next \in 0..NumPackets /\ next \notin rxSack
        /\ Before(next) \subseteq Before(first) \cup rxSack
    <2> HIDE DEF first, Before
    <2> QED BY <1>2, AdvancedCovers DEF ReceiverOK
  <1> HIDE DEF first, next
  <1>4. expected' \in 0..NumPackets /\ Before(expected') \subseteq arrived'
    <2>1. Before(expected) \subseteq arrived' /\ rxSack \subseteq arrived'
      BY DEF ReceiverOK
    <2> HIDE DEF Before
    <2> QED BY <1>1, <1>2, <1>3, <2>1 DEF ReceiverOK
  <1>5. rxSack' \subseteq rxSack
    BY <1>1 DEF SackAfter, Discarded
  <1>6. \A q \in rxSack' : q > expected'
    BY <1>1, <1>3, PacketNumbers DEF SackAfter, Discarded, ReceiverOK
  <1>7. acks' \in Seq(Acknowledgement) /\ acks' \in Seq(Honest')
    <2> DEFINE sacked == IF rxSack' = {} THEN {} ELSE {seq}
    <2>1. sacked \in SUBSET Packets /\ sacked \subseteq arrived'
      OBVIOUS
    <2>2. Reply(TRUE, expected', sacked)
      BY <1>1
    <2> HIDE DEF sacked, Before
    <2> QED BY <1>4, <2>1, <2>2, ReplyStaysHonest DEF ReceiverOK
  <1> QED BY <1>4, <1>5, <1>6, <1>7 DEF ReceiverOK

LEMMA CheckSeqIrnEarlyInv ==
    ASSUME ReceiverOK, NEW seq \in Packets, ~(seq <= expected), NEW elapsed \in BOOLEAN,
           lastNack' = lastNack,
           arrived' = arrived \cup {seq}, CheckSeqIrnEarly(seq, elapsed)
    PROVE  ReceiverOK'
  <1>1. expected' = expected /\ seq > expected
    BY PacketNumbers DEF CheckSeqIrnEarly, ReceiverOK
  <1>2. CASE seq \in rxSack /\ ~elapsed
    <2>1. acks' = acks /\ rxSack' = rxSack
      BY <1>2 DEF CheckSeqIrnEarly
    <2>2. acks' \in Seq(Acknowledgement) /\ acks' \in Seq(Honest')
      BY <2>1, HonestStays DEF ReceiverOK
    <2> QED BY <1>1, <2>1, <2>2 DEF ReceiverOK
  <1>3. CASE ~(seq \in rxSack /\ ~elapsed)
    <2>1. rxSack' = rxSack \cup {seq} /\ Reply(TRUE, expected, {seq})
      BY <1>3 DEF CheckSeqIrnEarly
    <2>2. acks' \in Seq(Acknowledgement) /\ acks' \in Seq(Honest')
      BY <2>1, ReplyStaysHonest DEF ReceiverOK
    <2> QED BY <1>1, <2>1, <2>2 DEF ReceiverOK
  <1> QED BY <1>2, <1>3

\* A packet that arrives, and its handler.
LEMMA ReceiveUdpInv ==
    ASSUME IInv, NEW seq \in Packets, NEW elapsed \in BOOLEAN,
           ReceiveUdp(seq, elapsed),
           data' \in Seq(Packets), faults' \in 0..MaxFaults
    PROVE  IInv'
  <1>1. /\ arrived' = arrived \cup {seq}
        /\ UNCHANGED <<irn, una, nxt, sack, highestAck, maxSeq, recovery, recoverySeq,
                       timer, done>>
    BY DEF ReceiveUdp, sendVars
  <1>2. ReceiverOK
    BY DEF IInv, RdmaTypeOK, AckedMeansArrived, AssertionsHold, ReceiverOK
  <1>3. ReceiverOK' /\ (~irn => rxSack' = {})
    <2>1. CASE ~irn
      <3>1. rxSack = {} /\ CheckSeqGoBackN(seq, elapsed)
        BY <2>1 DEF IInv, ReceiveUdp
      <3> QED BY <1>1, <1>2, <3>1, CheckSeqGoBackNInv
    <2>2. CASE irn /\ seq <= expected
      <3>1. lastNack' = lastNack /\ CheckSeqIrnInOrder(seq)
        BY <2>2 DEF ReceiveUdp
      <3> QED BY <1>1, <1>2, <2>2, <3>1, CheckSeqIrnInOrderInv
    <2>3. CASE irn /\ ~(seq <= expected)
      <3>1. lastNack' = lastNack /\ CheckSeqIrnEarly(seq, elapsed)
        BY <2>3 DEF ReceiveUdp
      <3> QED BY <1>1, <1>2, <2>3, <3>1, CheckSeqIrnEarlyInv
    <2> QED BY <2>1, <2>2, <2>3
  <1>4. RdmaTypeOK'
    BY <1>1, <1>3 DEF IInv, RdmaTypeOK, ReceiverOK, Acknowledgement
  <1>5. AckedMeansArrived'
    <2>1. (Before(expected) \cup rxSack)' \subseteq arrived'
      BY <1>3 DEF ReceiverOK
    <2>2. (Before(una) \cup sack)' \subseteq arrived'
      BY <1>1 DEF IInv, AckedMeansArrived, Before
    <2> QED BY <2>1, <2>2 DEF AckedMeansArrived
  <1>6. AssertionsHold'
    BY <1>1, <1>3 DEF IInv, AssertionsHold, ReceiverOK
  <1> QED BY <1>1, <1>3, <1>4, <1>5, <1>6 DEF IInv, ReceiverOK

LEMMA DeliverInv ==
    ASSUME NEW i \in 1..MaxInFlight, IInv, Deliver(i)
    PROVE  IInv'
  <1>1. /\ i \in DOMAIN data /\ (i > 1 => faults < MaxFaults)
        /\ data' = Without(data, i)
        /\ faults' = IF i > 1 THEN faults + 1 ELSE faults
        /\ \E elapsed \in BOOLEAN : ReceiveUdp(data[i], elapsed)
    BY DEF Deliver
  <1>2. data' \in Seq(Packets) /\ data[i] \in Packets
    BY <1>1, WithoutIsSeq DEF IInv, RdmaTypeOK
  <1>3. faults' \in 0..MaxFaults
    BY <1>1, RdmaAssumption DEF IInv, RdmaTypeOK
  <1> QED BY <1>1, <1>2, <1>3, ReceiveUdpInv

LEMMA DropInv ==
    ASSUME NEW i \in 1..MaxInFlight, IInv, Drop(i)
    PROVE  IInv'
  <1>1. /\ i \in DOMAIN data /\ faults < MaxFaults
        /\ data' = Without(data, i) /\ faults' = faults + 1
        /\ UNCHANGED <<irn, una, nxt, sack, highestAck, maxSeq, recovery, recoverySeq,
                       timer, done, expected, lastNack, rxSack, acks, arrived>>
    BY DEF Drop, sendVars, rxVars
  <1>2. data' \in Seq(Packets)
    BY <1>1, WithoutIsSeq DEF IInv, RdmaTypeOK
  <1>3. faults' \in 0..MaxFaults
    BY <1>1, RdmaAssumption DEF IInv, RdmaTypeOK
  <1> QED BY <1>1, <1>2, <1>3 DEF IInv, RdmaTypeOK, AckedMeansArrived, AssertionsHold,
                                  Honest, Acknowledgement, Before

-----------------------------------------------------------------------------
(* The theorems.                                                           *)

LEMMA StepInv == IInv /\ [Next]_vars => IInv'
  <1> SUFFICES ASSUME IInv, [Next]_vars PROVE IInv'
    OBVIOUS
  <1>1. CASE Transmit
    BY <1>1, TransmitInv
  <1>2. CASE Poll
    BY <1>2, PollInv
  <1>3. CASE HandleTimeout
    BY <1>3, HandleTimeoutInv
  <1>4. CASE ReceiveAck
    BY <1>4, ReceiveAckInv
  <1>5. CASE ReceiveLateAck
    BY <1>5, ReceiveLateAckInv
  <1>6. ASSUME NEW i \in 1..MaxInFlight, Deliver(i) PROVE IInv'
    BY <1>6, DeliverInv
  <1>7. ASSUME NEW i \in 1..MaxInFlight, Drop(i) PROVE IInv'
    BY <1>7, DropInv
  <1>8. CASE UNCHANGED vars
    BY <1>8 DEF vars, sendVars, rxVars, netVars, IInv, RdmaTypeOK, AckedMeansArrived,
                AssertionsHold, Honest, Acknowledgement, Before
  <1> QED BY <1>1, <1>2, <1>3, <1>4, <1>5, <1>6, <1>7, <1>8 DEF Next

\* The invariant holds in every reachable state.
THEOREM Invariance == Spec => []IInv
  BY InitIInv, StepInv, PTL DEF Spec

\* Every variable is of its type.
THEOREM TypeCorrect == Spec => []RdmaTypeOK
  <1>1. IInv => RdmaTypeOK
    BY DEF IInv
  <1> QED BY <1>1, Invariance, PTL

\* No hole is ever acknowledged, by the receiver or to the sender.
THEOREM NoHoleAcknowledged == Spec => []AckedMeansArrived
  <1>1. IInv => AckedMeansArrived
    BY DEF IInv
  <1> QED BY <1>1, Invariance, PTL

\* The assertions of GetOnTheFly and of the receiver's blocks hold.
THEOREM AssertionsAreSafe == Spec => []AssertionsHold
  <1>1. IInv => AssertionsHold
    BY DEF IInv
  <1> QED BY <1>1, Invariance, PTL

\* A step of the transport is a packet's arrival, the completion of the whole
\* flow, or nothing to the application.
LEMMA StepRefines == IInv /\ [Next]_vars => [Transfer!Next]_<<arrived, done>>
  <1> SUFFICES ASSUME IInv, [Next]_vars PROVE [Transfer!Next]_<<arrived, done>>
    OBVIOUS
  <1> USE DEF Transfer!Next, Transfer!Arrive, Transfer!Complete
  <1>1. CASE Transmit \/ Poll \/ HandleTimeout \/ ReceiveLateAck
    BY <1>1 DEF Transmit, Poll, HandleTimeout, ReceiveLateAck, netVars
  <1>2. CASE ReceiveAck
    <2>1. /\ ~done /\ arrived' = arrived
          /\ \/ done' = done
             \/ done' = TRUE /\ una' >= NumPackets
      BY <1>2 DEF ReceiveAck, AckIrn, AckGoBackN, Completes
    <2>2. una' \in 0..NumPackets /\ Before(una') \subseteq arrived' /\ arrived' \subseteq Packets
      BY <1>2, StepInv DEF IInv, RdmaTypeOK, AckedMeansArrived
    <2>3. CASE done' = TRUE /\ una' >= NumPackets
      <3>1. arrived = Packets
        <4>1. una' = NumPackets
          BY <2>2, <2>3, RdmaAssumption
        <4>2. Before(una') = Packets
          BY <4>1 DEF Before, Packets
        <4> QED BY <2>1, <2>2, <4>2
      <3> QED BY <2>1, <2>3, <3>1
    <2> QED BY <2>1, <2>3
  <1>3. ASSUME NEW i \in 1..MaxInFlight, Deliver(i)
        PROVE  [Transfer!Next]_<<arrived, done>>
    <2>1. data[i] \in Packets
      BY <1>3, WithoutIsSeq DEF IInv, RdmaTypeOK, Deliver
    <2>2. arrived' = arrived \cup {data[i]} /\ done' = done
      BY <1>3 DEF Deliver, ReceiveUdp
    <2> QED BY <2>1, <2>2
  <1>4. ASSUME NEW i \in 1..MaxInFlight, Drop(i)
        PROVE  [Transfer!Next]_<<arrived, done>>
    BY <1>4 DEF Drop
  <1>5. CASE UNCHANGED vars
    BY <1>5 DEF vars, netVars
  <1> QED BY <1>1, <1>2, <1>3, <1>4, <1>5 DEF Next

\* The transport implements FlowTransfer: drops, overtakings, retransmissions
\* and late acknowledgements are invisible to the application.
THEOREM Implements == Spec => ReliableTransfer
  <1>1. Init => Transfer!Init
    BY DEF Init, Transfer!Init
  <1>2. IInv /\ [Next]_vars => [Transfer!Next]_Transfer!vars
    BY StepRefines DEF Transfer!vars
  <1> QED BY <1>1, <1>2, Invariance, PTL DEF Spec, ReliableTransfer, Transfer!Spec


-----------------------------------------------------------------------------
(* The window.                                                             *)

\* Go-back-N never acknowledges selectively; with IRN nothing lies beyond the
\* largest number that has been sent.
Sent ==
    IF irn THEN /\ nxt <= maxSeq + 1 /\ arrived \subseteq 0..maxSeq
                /\ data \in Seq(0..maxSeq)
           ELSE sack = {}

\* A position with everything before it among the numbers up to m.
LEMMA NotBeyond ==
    ASSUME NEW m \in Nat, NEW pos \in Nat, Before(pos) \subseteq 0..m
    PROVE  pos <= m + 1
  <1>1. CASE pos = 0
    BY <1>1
  <1>2. CASE pos # 0
    <2>1. pos - 1 \in Before(pos)
      BY <1>2 DEF Before
    <2> QED BY <2>1
  <1> QED BY <1>1, <1>2

LEMMA PastNotBeyond ==
    ASSUME NEW m \in Nat, NEW set, set \subseteq Packets, set \subseteq 0..m,
           NEW pos \in 0..NumPackets, pos <= m + 1
    PROVE  Past(set, pos) <= m + 1
  <1>1. Before(Past(set, pos)) \subseteq Before(pos) \cup set /\ Past(set, pos) \in pos..NumPackets
    BY PastCovers
  <1>2. Before(pos) \subseteq 0..m
    BY DEF Before
  <1>3. Past(set, pos) \in Nat
    BY <1>1, RdmaAssumption
  <1> HIDE DEF Before
  <1> QED BY <1>1, <1>2, <1>3, NotBeyond

\* Neither ahead of the highest acknowledgement nor to come: the set shrinks.
LEMMA OnTheWayIsFinite ==
    ASSUME RdmaTypeOK
    PROVE  IsFiniteSet(OnTheWay) /\ Cardinality(OnTheWay) \in Nat
  <1>1. highestAck \in Nat /\ maxSeq \in Nat
    BY DEF RdmaTypeOK
  <1>2. IsFiniteSet(highestAck..maxSeq)
    BY <1>1, FS_Interval
  <1>3. OnTheWay \subseteq highestAck..maxSeq
    BY DEF OnTheWay
  <1> QED BY <1>2, <1>3, FS_Subset, FS_CardinalityType

LEMMA WindowShrinks ==
    ASSUME RdmaTypeOK, RdmaTypeOK', OnTheWay' \subseteq OnTheWay,
           Cardinality(OnTheWay) <= Bdp
    PROVE  Cardinality(OnTheWay)' <= Bdp
  <1>1. IsFiniteSet(OnTheWay) /\ Cardinality(OnTheWay) \in Nat
    BY OnTheWayIsFinite
  <1>2. /\ IsFiniteSet(OnTheWay') /\ Cardinality(OnTheWay') \in Nat
        /\ Cardinality(OnTheWay') <= Cardinality(OnTheWay)
    BY <1>1, FS_Subset, FS_CardinalityType
  <1> QED BY <1>1, <1>2, RdmaAssumption

\* The interval and one more.
LEMMA OneMore ==
    ASSUME NEW a \in Nat, NEW b \in Int, NEW q, NEW S, S \subseteq (a..b) \cup {q},
           NEW n \in Nat \ {0}, b - a + 1 < n
    PROVE  Cardinality(S) <= n
  <1>1. /\ IsFiniteSet(a..b)
        /\ Cardinality(a..b) = IF a > b THEN 0 ELSE b - a + 1
    BY FS_Interval
  <1>2. Cardinality(a..b) \in Nat /\ Cardinality(a..b) < n
    BY <1>1
  <1>3. /\ IsFiniteSet((a..b) \cup {q})
        /\ \/ Cardinality((a..b) \cup {q}) = Cardinality(a..b)
           \/ Cardinality((a..b) \cup {q}) = Cardinality(a..b) + 1
    <2> HIDE DEF Cardinality
    <2>1. /\ IsFiniteSet((a..b) \cup {q})
          /\ Cardinality((a..b) \cup {q}) =
               IF q \in a..b THEN Cardinality(a..b) ELSE Cardinality(a..b) + 1
      BY <1>1, FS_AddElement
    <2> QED BY <2>1
  <1>4. Cardinality(S) \in Nat /\ Cardinality(S) <= Cardinality((a..b) \cup {q})
    BY <1>3, FS_Subset, FS_CardinalityType
  <1> DEFINE c == Cardinality(a..b)
             d == Cardinality((a..b) \cup {q})
             e == Cardinality(S)
  <1>5. c \in Nat /\ c < n /\ (d = c \/ d = c + 1) /\ e \in Nat /\ e <= d
    BY <1>2, <1>3, <1>4
  <1> HIDE DEF c, d
  <1>6. e <= n
    <2> HIDE DEF e
    <2> QED BY <1>5
  <1> QED BY <1>6

LEMMA SenderFacts ==
    ASSUME IInv
    PROVE  /\ una \in 0..NumPackets /\ una \in Nat
           /\ nxt \in 0..NumPackets /\ maxSeq \in Nat /\ highestAck \in Nat
           /\ sack \subseteq Packets /\ sack \subseteq arrived
           /\ Before(una) \subseteq arrived
  BY DEF IInv, RdmaTypeOK, AckedMeansArrived

LEMMA TransmitSent == IInv /\ Sent /\ Transmit => Sent'
  <1> SUFFICES ASSUME IInv, Sent, Transmit PROVE Sent'
    OBVIOUS
  <1> DEFINE seq == Past(sack, nxt)
  <1>1. /\ data' = Append(data, seq) /\ nxt' = seq + 1
        /\ seq \in nxt..NumPackets /\ seq < NumPackets /\ nxt \in 0..NumPackets
        /\ maxSeq' = IF irn THEN Larger(maxSeq, seq) ELSE maxSeq
        /\ sack' \subseteq sack /\ sack \subseteq Packets /\ sack \subseteq arrived
        /\ irn' = irn /\ arrived' = arrived
    BY PastCovers DEF Transmit, IInv, RdmaTypeOK, AckedMeansArrived
  <1>2. CASE irn
    <2>1. /\ maxSeq \in Nat /\ arrived \subseteq 0..maxSeq /\ data \in Seq(0..maxSeq)
          /\ seq <= maxSeq + 1
      <3>1. /\ maxSeq \in Nat /\ arrived \subseteq 0..maxSeq /\ data \in Seq(0..maxSeq)
            /\ nxt <= maxSeq + 1
        BY <1>2, SenderFacts DEF Sent
      <3>2. sack \subseteq 0..maxSeq
        BY <1>1, <3>1
      <3> QED BY <1>1, <3>1, <3>2, PastNotBeyond
    <2> HIDE DEF seq
    <2>2. maxSeq' \in Nat /\ maxSeq <= maxSeq' /\ seq \in 0..maxSeq' /\ nxt' <= maxSeq' + 1
      BY <1>1, <1>2, <2>1, RdmaAssumption DEF Larger
    <2>3. 0..maxSeq \subseteq 0..maxSeq'
      BY <2>1, <2>2
    <2>4. data \in Seq(0..maxSeq')
      BY <2>1, <2>3, SeqMonotonic
    <2>5. data' \in Seq(0..maxSeq')
      BY <1>1, <2>2, <2>4, AppendProperties
    <2> QED BY <1>1, <1>2, <2>1, <2>2, <2>3, <2>5 DEF Sent
  <1>3. CASE ~irn
    BY <1>1, <1>3 DEF Sent
  <1> QED BY <1>2, <1>3

\* The other steps of the sender only move the pointer over what has arrived.
LEMMA PointerSent ==
    ASSUME IInv, Sent, UNCHANGED <<irn, data, arrived>>, maxSeq' = maxSeq,
           irn => nxt' <= maxSeq + 1, ~irn => sack' = {}
    PROVE  Sent'
  BY DEF Sent

LEMMA PollSent == IInv /\ Sent /\ Poll => Sent'
  <1> SUFFICES ASSUME IInv, Sent, Poll PROVE Sent'
    OBVIOUS
  <1>1. /\ nxt' = Past(sack, nxt) /\ sack' \subseteq sack
        /\ maxSeq' = maxSeq /\ UNCHANGED <<irn, data, arrived>>
    BY PastCovers, SenderFacts DEF Poll, netVars
  <1>2. ASSUME irn PROVE nxt' <= maxSeq + 1
    <2>1. sack \subseteq 0..maxSeq /\ nxt <= maxSeq + 1
      BY <1>2, SenderFacts DEF Sent
    <2> QED BY <1>1, <2>1, PastNotBeyond, SenderFacts
  <1> QED BY <1>1, <1>2, PointerSent DEF Sent

LEMMA HandleTimeoutSent == IInv /\ Sent /\ HandleTimeout => Sent'
  <1> SUFFICES ASSUME IInv, Sent, HandleTimeout PROVE Sent'
    OBVIOUS
  <1>1. /\ nxt' = una /\ sack' \subseteq sack
        /\ maxSeq' = maxSeq /\ UNCHANGED <<irn, data, arrived>>
    <2>1. Passed(sack, nxt) \subseteq sack
      BY PastCovers, SenderFacts
    <2> QED BY <2>1 DEF HandleTimeout, RecoverQueue, netVars
  <1>2. ASSUME irn PROVE nxt' <= maxSeq + 1
    <2>1. Before(una) \subseteq 0..maxSeq
      BY <1>2, SenderFacts DEF Sent
    <2> QED BY <1>1, <2>1, NotBeyond, SenderFacts
  <1> QED BY <1>1, <1>2, PointerSent DEF Sent

\* What is acknowledged has arrived, and so has been sent.
LEMMA AckIrnSent ==
    ASSUME IInv, IInv', Sent, irn, NEW ack \in Honest, AckIrn(ack),
           UNCHANGED <<irn, data, faults, arrived>>
    PROVE  Sent'
  <1> DEFINE known == sack \cup ack.sacked
             acked == SackedUpTo(known, Larger(una, ack.cum))
             kept  == Discarded(known, acked)
             top   == Larger(nxt, acked)
             next  == Past(kept, top)
  <1>1. /\ una' = acked /\ maxSeq' = maxSeq
        /\ nxt' = acked \/ nxt' = next
    BY DEF AckIrn, RecoverQueue
  <1>2. known \subseteq Packets /\ known \subseteq arrived
    BY DEF IInv, RdmaTypeOK, AckedMeansArrived, Honest, Acknowledgement
  <1>3. kept \subseteq known
    BY DEF Discarded
  <1> HIDE DEF known, acked, kept, next
  <1>4. acked \in 0..NumPackets /\ Before(acked) \subseteq arrived
    BY <1>1 DEF IInv, RdmaTypeOK, AckedMeansArrived, Before
  <1>5. maxSeq \in Nat /\ nxt \in 0..NumPackets /\ nxt <= maxSeq + 1 /\ arrived \subseteq 0..maxSeq
    BY DEF IInv, RdmaTypeOK, Sent
  <1>6. acked <= maxSeq + 1
    <2>1. Before(acked) \subseteq 0..maxSeq
      BY <1>4, <1>5
    <2>2. acked \in Nat
      BY <1>4
    <2> QED BY <1>5, <2>1, <2>2, NotBeyond
  <1>7. top \in 0..NumPackets /\ top <= maxSeq + 1
    BY <1>4, <1>5, <1>6 DEF Larger
  <1>8. next <= maxSeq + 1
    <2> HIDE DEF top
    <2> QED BY <1>2, <1>3, <1>5, <1>7, PastNotBeyond DEF next
  <1> QED BY <1>1, <1>6, <1>8, PointerSent

LEMMA ReceiveAckSent == IInv /\ IInv' /\ Sent /\ ReceiveAck => Sent'
  <1> SUFFICES ASSUME IInv, IInv', Sent, ReceiveAck PROVE Sent'
    OBVIOUS
  <1>1. /\ acks # <<>> /\ UNCHANGED <<irn, data, faults, arrived>>
        /\ IF irn THEN AckIrn(Head(acks)) ELSE AckGoBackN(Head(acks))
    BY DEF ReceiveAck
  <1>2. Head(acks) \in Honest
    BY <1>1, HeadIsHonest
  <1>3. CASE irn
    BY <1>1, <1>2, <1>3, AckIrnSent
  <1>4. CASE ~irn
    BY <1>1, <1>4, PointerSent DEF AckGoBackN, Sent
  <1> QED BY <1>3, <1>4

LEMMA FabricSent ==
    ASSUME IInv, Sent, NEW i \in 1..MaxInFlight, Deliver(i) \/ Drop(i)
    PROVE  Sent'
  <1>1. /\ i \in DOMAIN data /\ data' = Without(data, i)
        /\ UNCHANGED <<irn, nxt, sack, maxSeq>>
        /\ arrived' = arrived \/ arrived' = arrived \cup {data[i]}
    BY DEF Deliver, ReceiveUdp, Drop, sendVars
  <1>2. irn => data' \in Seq(0..maxSeq) /\ data[i] \in 0..maxSeq
    BY <1>1, WithoutIsSeq DEF Sent
  <1> QED BY <1>1, <1>2 DEF Sent

LEMMA SentStep == IInv /\ IInv' /\ Sent /\ [Next]_vars => Sent'
  <1> SUFFICES ASSUME IInv, IInv', Sent, [Next]_vars PROVE Sent'
    OBVIOUS
  <1>1. CASE ReceiveLateAck \/ UNCHANGED vars
    BY <1>1 DEF ReceiveLateAck, vars, sendVars, netVars, Sent
  <1> QED BY <1>1, TransmitSent, PollSent, HandleTimeoutSent, ReceiveAckSent, FabricSent
          DEF Next

\* A number that is sent for the first time fits, whichever way it was let through.
LEMMA TransmitIrnFits ==
    ASSUME IInv, IInv', Sent, irn, ~done, Transmit, Cardinality(OnTheWay) <= Bdp
    PROVE  Cardinality(OnTheWay)' <= Bdp
  <1> DEFINE seq == Past(sack, nxt)
  <1>1. /\ seq \in nxt..NumPackets /\ seq < NumPackets /\ seq \in Nat
        /\ Before(seq) \subseteq Before(nxt) \cup arrived
        /\ maxSeq' = Larger(maxSeq, seq)
        /\ highestAck' = highestAck /\ arrived' = arrived
        /\ CanIrnTransmit
    <2>1. /\ seq \in nxt..NumPackets /\ Before(seq) \subseteq Before(nxt) \cup sack
      BY PastCovers, SenderFacts
    <2> HIDE DEF Before
    <2> QED BY <2>1, SenderFacts DEF Transmit, MaySend
  <1>2. seq <= maxSeq + 1
    <2>1. sack \subseteq 0..maxSeq /\ nxt <= maxSeq + 1
      BY SenderFacts DEF Sent
    <2> QED BY <2>1, PastNotBeyond, SenderFacts
  <1> HIDE DEF seq
  <1>3. nxt \in 0..NumPackets /\ maxSeq \in Nat /\ highestAck \in Nat /\ NumPackets \in Nat
    BY SenderFacts, RdmaAssumption
  <1>4. CASE seq <= maxSeq
    <2>1. maxSeq' = maxSeq
      BY <1>1, <1>3, <1>4 DEF Larger
    <2>2. OnTheWay' = OnTheWay
      BY <1>1, <2>1 DEF OnTheWay
    <2> QED BY <2>2, WindowShrinks DEF IInv
  <1>5. CASE ~(seq <= maxSeq)
    <2>1. seq = maxSeq + 1 /\ maxSeq' = seq
      BY <1>1, <1>2, <1>3, <1>5 DEF Larger
    <2>2. OnTheWay' = {q \in highestAck..seq : q \notin arrived}
      BY <1>1, <2>1 DEF OnTheWay
    <2>3. CASE (maxSeq - highestAck) + Smaller(NumPackets - nxt, 1) < Bdp
      <3>1. Smaller(NumPackets - nxt, 1) = 1
        BY <1>1, <1>3 DEF Smaller
      <3>2. maxSeq - highestAck + 1 < Bdp
        BY <2>3, <3>1
      <3>3. OnTheWay' \subseteq (highestAck..maxSeq) \cup {seq}
        BY <1>3, <2>1, <2>2
      <3>4. maxSeq \in Int /\ Bdp \in Nat \ {0}
        BY <1>3, RdmaAssumption
      <3> HIDE DEF Cardinality, OnTheWay
      <3> QED BY <1>3, <3>2, <3>3, <3>4, OneMore
    <2>4. CASE highestAck + Bdp > nxt
      <3>1. OnTheWay' \subseteq (highestAck..(nxt - 1)) \cup {seq}
        <4>1. SUFFICES ASSUME NEW q \in OnTheWay', q # seq
                       PROVE  q \in highestAck..(nxt - 1)
          OBVIOUS
        <4>2. q \in highestAck..seq /\ q \notin arrived /\ q \in Nat
          BY <1>3, <2>2, <4>1
        <4>3. q \in Before(seq)
          BY <1>1, <4>1, <4>2 DEF Before
        <4>4. q \in Before(nxt)
          BY <1>1, <4>2, <4>3
        <4> QED BY <1>3, <4>2, <4>4 DEF Before
      <3>2. (nxt - 1) - highestAck + 1 < Bdp /\ nxt - 1 \in Int
        BY <1>3, <2>4, RdmaAssumption
      <3> QED BY <1>3, <3>1, <3>2, OneMore, RdmaAssumption
    <2> QED BY <1>1, <2>3, <2>4 DEF CanIrnTransmit
  <1> QED BY <1>4, <1>5

\* Any other step leaves fewer packets on their way.
LEMMA OthersFit ==
    ASSUME IInv, IInv', Cardinality(OnTheWay) <= Bdp,
           highestAck' >= highestAck, maxSeq' = maxSeq, arrived \subseteq arrived'
    PROVE  Cardinality(OnTheWay)' <= Bdp
  <1>1. highestAck \in Nat /\ highestAck' \in Nat /\ maxSeq \in Nat
    BY DEF IInv, RdmaTypeOK
  <1>2. OnTheWay' \subseteq OnTheWay
    BY <1>1 DEF OnTheWay
  <1> QED BY <1>2, WindowShrinks DEF IInv

LEMMA TransmitWindow ==
    IInv /\ IInv' /\ Sent /\ WindowRespected /\ Transmit => WindowRespected'
  <1> SUFFICES ASSUME IInv, IInv', Sent, WindowRespected, Transmit PROVE WindowRespected'
    OBVIOUS
  <1>1. /\ ~done /\ done' = done /\ irn' = irn /\ una' = una /\ ~WinBound
        /\ nxt' = Past(sack, nxt) + 1
    BY DEF Transmit, MaySend
  <1>2. CASE irn
    <2>1. Cardinality(OnTheWay)' <= Bdp
      BY <1>1, <1>2, TransmitIrnFits DEF WindowRespected
    <2> QED BY <1>1, <1>2, <2>1 DEF WindowRespected
  <1>3. CASE ~irn
    <2>1. nxt' = nxt + 1
      BY <1>1, <1>3 DEF Sent, Past, FrontAt
    <2>2. Win # 0 => nxt' - una' <= Win
      BY <1>1, <2>1, SenderFacts, RdmaAssumption DEF WinBound
    <2> QED BY <1>1, <1>3, <2>2 DEF WindowRespected
  <1> QED BY <1>2, <1>3

LEMMA ReceiveAckWindow ==
    IInv /\ IInv' /\ WindowRespected /\ ReceiveAck => WindowRespected'
  <1> SUFFICES ASSUME IInv, IInv', WindowRespected, ReceiveAck PROVE WindowRespected'
    OBVIOUS
  <1>1. /\ ~done /\ acks # <<>> /\ UNCHANGED <<irn, arrived>>
        /\ IF irn THEN AckIrn(Head(acks)) ELSE AckGoBackN(Head(acks))
    BY DEF ReceiveAck
  <1>2. Head(acks).cum \in 0..NumPackets
    BY <1>1, HeadIsHonest DEF Honest, Acknowledgement
  <1>3. CASE irn
    <2>1. highestAck' = Larger(highestAck, Head(acks).cum) /\ maxSeq' = maxSeq
      BY <1>1, <1>3 DEF AckIrn
    <2>2. highestAck' >= highestAck
      BY <1>2, <2>1, SenderFacts DEF Larger
    <2>3. Cardinality(OnTheWay)' <= Bdp
      BY <1>1, <1>3, <2>1, <2>2, OthersFit DEF WindowRespected
    <2> QED BY <1>1, <1>3, <2>3 DEF WindowRespected
  <1>4. CASE ~irn
    <2> DEFINE acked == Larger(una, Head(acks).cum)
    <2>1. /\ una' = acked
          /\ nxt' = acked \/ nxt' = Larger(nxt, acked)
      BY <1>1, <1>4 DEF AckGoBackN, RecoverQueue
    <2>2. acked \in Nat /\ acked >= una
      BY <1>2, SenderFacts DEF Larger
    <2> HIDE DEF acked
    <2>3. (Win # 0 /\ nxt - una <= Win) => nxt' - una' <= Win
      BY <2>1, <2>2, SenderFacts, RdmaAssumption DEF Larger
    <2> QED BY <1>1, <1>4, <2>3 DEF WindowRespected
  <1> QED BY <1>3, <1>4

LEMMA WindowStep ==
    IInv /\ IInv' /\ Sent /\ WindowRespected /\ [Next]_vars => WindowRespected'
  <1> SUFFICES ASSUME IInv, IInv', Sent, WindowRespected, [Next]_vars
               PROVE  WindowRespected'
    OBVIOUS
  <1>1. CASE Poll
    <2>1. UNCHANGED <<irn, una, done, highestAck, maxSeq, arrived>> /\ nxt \in sack
      BY <1>1 DEF Poll, netVars, FrontAt
    <2>2. irn
      BY <2>1 DEF Sent
    <2>3. ~done => Cardinality(OnTheWay)' <= Bdp
      BY <2>1, <2>2, SenderFacts, OthersFit DEF WindowRespected
    <2> QED BY <2>1, <2>2, <2>3 DEF WindowRespected
  <1>2. CASE HandleTimeout
    <2>1. UNCHANGED <<irn, una, done, highestAck, maxSeq, arrived>> /\ nxt' = una
      BY <1>2 DEF HandleTimeout, RecoverQueue, netVars
    <2>2. (irn /\ ~done) => Cardinality(OnTheWay)' <= Bdp
      BY <2>1, SenderFacts, OthersFit DEF WindowRespected
    <2>3. nxt' - una' <= Win
      BY <2>1, SenderFacts, RdmaAssumption
    <2> QED BY <2>1, <2>2, <2>3 DEF WindowRespected
  <1>3. CASE ReceiveLateAck
    BY <1>3 DEF ReceiveLateAck, WindowRespected
  <1>4. ASSUME NEW i \in 1..MaxInFlight, Deliver(i) \/ Drop(i) PROVE WindowRespected'
    <2>1. UNCHANGED <<irn, una, nxt, done, highestAck, maxSeq>> /\ arrived \subseteq arrived'
      BY <1>4 DEF Deliver, ReceiveUdp, Drop, sendVars
    <2>2. (irn /\ ~done) => Cardinality(OnTheWay)' <= Bdp
      BY <2>1, SenderFacts, OthersFit DEF WindowRespected
    <2> QED BY <2>1, <2>2 DEF WindowRespected
  <1>5. CASE UNCHANGED vars
    BY <1>5 DEF vars, sendVars, netVars, WindowRespected, OnTheWay
  <1> QED BY <1>1, <1>2, <1>3, <1>4, <1>5, TransmitWindow, ReceiveAckWindow DEF Next

\* The fabric never holds more of the flow than the window: without IRN the
\* pointers are at most m_win apart, and with IRN at most m_bdp packets are on
\* their way, although m_max_seq may run ahead of m_highest_ack + m_bdp.
THEOREM WindowIsRespected == Spec => []WindowRespected
  <1>1. Init => Sent /\ WindowRespected
    <2> SUFFICES ASSUME Init PROVE Sent /\ WindowRespected
      OBVIOUS
    <2>1. data \in Seq(0..maxSeq)
      BY EmptySeq DEF Init
    <2>2. OnTheWay = {0} /\ Cardinality({0}) = 1
      <3>1. OnTheWay = {0}
        BY DEF Init, OnTheWay
      <3> QED BY <3>1, FS_Singleton
    <2>3. Sent
      BY <2>1 DEF Init, Sent
    <2>4. Cardinality(OnTheWay) <= Bdp
      BY <2>2, RdmaAssumption
    <2>5. nxt - una <= Win
      BY RdmaAssumption DEF Init
    <2> QED BY <2>3, <2>4, <2>5 DEF WindowRespected
  <1>2. IInv /\ IInv' /\ Sent /\ WindowRespected /\ [Next]_vars => (Sent /\ WindowRespected)'
    BY SentStep, WindowStep
  <1> QED BY <1>1, <1>2, Invariance, PTL DEF Spec
=============================================================================
