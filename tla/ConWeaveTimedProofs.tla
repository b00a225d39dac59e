------------------------- MODULE ConWeaveTimedProofs -------------------------
(***************************************************************************)
(* Proofs about module ConWeave that rest on its timers: no assertion of   *)
(* either ToR fails, and the host sees the packets in order.               *)
(***************************************************************************)
EXTENDS ConWeaveProofs, FiniteSetTheorems

(***************************************************************************)
(* The invariant.                                                          *)
(***************************************************************************)

\* An idle source expires only after its packets have arrived and its VOQ, if
\* there is one, has been flushed.
TimersCover ==
    /\ \A r \in Paths :
          MaxDelay[r] + DefaultVOQWaitingTime + ExtraVOQFlushTime <= TxExpiryTime
    /\ ExtraVOQFlushTime > 0

\* What was sent before the phase 1 of the current epoch.
Front(p) == p.epoch < tx.epoch \/ p.phase = 0

FrontGone == \A p \in net : ~Front(p)

\* It is all on one path, ahead of the others, and ends with the TAIL.
FrontOrdered ==
    /\ \A p, q \in net : Front(p) /\ Front(q) => p.path = q.path
    /\ tx.phase = 0 => \A p \in net : p.path = tx.pathId
    /\ \A p, q \in net : Front(p) /\ ~Front(q) => p.id < q.id
    /\ \A p, q \in net : Front(p) /\ q.flag = "TAIL" /\ q.epoch = tx.epoch => p.id <= q.id

\* Whoever has seen the TAIL has seen all of it.
FrontSeen ==
    /\ \A r \in replies : r.epoch = tx.epoch /\ r.phase = 1 => FrontGone
    /\ TxStabilized /\ tx.phase = 1 => FrontGone

\* The times on the tags: that of the TAIL lies between the two phases.
TagTimes ==
    /\ \A p \in net : p.tsTail <= p.tsTx /\ (p.flag = "TAIL" => p.tsTail = p.tsTx)
    /\ \A p \in net : p.epoch = tx.epoch /\ (p.phase = 1 \/ p.flag = "TAIL")
                        => p.tsTail = tx.tailTime
    /\ \A p, q \in net :
          p.phase = 0 /\ q.phase = 1 /\ p.epoch <= q.epoch => p.tsTx <= q.tsTail
    /\ tx.phase = 1 => \A p \in net : Front(p) => p.tsTx <= tx.tailTime

\* The times in the entries.
EntryTimes ==
    /\ tx.phase = 1 => rx.phase0TxTime <= tx.tailTime /\ tx.tailTime <= tx.activeTime
    /\ \A p \in net :
          p.phase = 1 /\ rx.epoch <= p.epoch => rx.phase0TxTime <= p.tsTail
    /\ rx.phase0Cache =>
          \E r \in Paths : rx.phase0RxTime <= rx.phase0TxTime + MaxDelay[r]

\* A VOQ holds packets of the current phase 1 only, and is flushed before either
\* end forgets the flow.
VoqInTime ==
    /\ rx.reordering = voq.exists
    /\ voq.exists =>
          /\ rx.known /\ rx.phase = 0 /\ rx.epoch = tx.epoch /\ tx.phase = 1
          /\ rx.tailTime = tx.tailTime
          /\ voq.flushAt <= tx.activeTime + TxExpiryTime
          /\ voq.flushAt <= rx.activeTime + TxExpiryTime

\* The packets of an earlier epoch are let through.
OldPass ==
    \A p \in net : p.epoch < tx.epoch =>
        /\ p.tsTx <= rx.activeTime + MaxCtlDelay
        /\ p.phase = 1 => p.epoch < rx.epoch \/ (p.epoch = rx.epoch /\ rx.phase = 1)

TimedInv ==
    FrontOrdered /\ FrontSeen /\ TagTimes /\ EntryTimes /\ VoqInTime /\ OldPass

-----------------------------------------------------------------------------
(***************************************************************************)
(* What the steps change.                                                  *)
(***************************************************************************)

LEMMA PacketFacts ==
    ASSUME TInv, NEW p \in net
    PROVE  /\ p.id \in Nat /\ p.id <= nsent /\ nsent \in Nat
           /\ p.path \in Paths /\ MaxDelay[p.path] \in Nat
           /\ p.epoch \in Nat /\ p.phase \in {0, 1} /\ p.flag \in {"DATA", "INIT", "TAIL"}
           /\ p.tsTx \in Nat /\ p.tsTx <= now /\ p.tsTail \in Nat /\ p.tsTail <= now
  BY PathsAssumption DEF TInv, TypeOK, DataPacket, Times

\* The times in the entries and the timers.
LEMMA TimeFacts ==
    ASSUME TInv
    PROVE  /\ tx.tailTime \in Nat /\ tx.tailTime <= now /\ tx.known \in BOOLEAN
           /\ rx.tailTime \in Nat /\ rx.tailTime <= now /\ rx.known \in BOOLEAN
           /\ rx.phase0TxTime \in Nat /\ rx.phase0TxTime <= now
           /\ rx.phase0RxTime \in Nat /\ rx.phase0RxTime <= now
           /\ rx.phase0Cache \in BOOLEAN
           /\ ExtraVOQFlushTime \in Nat /\ DefaultVOQWaitingTime \in Nat
  BY TimesAssumption DEF TInv, TypeOK, TxEntry, RxEntry, Times

\* What is under way has been sent by an entry that has not expired.
LEMMA ExpiredIsEmpty ==
    ASSUME TInv, SettleInv, TimersCover, TxExpired PROVE net = {}
<1> SUFFICES ASSUME NEW p \in net PROVE FALSE
  OBVIOUS
<1>1. p.tsTx <= tx.activeTime /\ now <= p.tsTx + MaxDelay[p.path]
  BY DEF SettleInv, PathInv
<1>2. MaxDelay[p.path] + DefaultVOQWaitingTime + ExtraVOQFlushTime <= TxExpiryTime
  BY PacketFacts DEF TimersCover
<1> QED
  BY <1>1, <1>2, PacketFacts, TimeFacts, EntryFacts DEF TxExpired

\* A packet enters the fabric: it opens an epoch, is the TAIL of one, or is of
\* the current phase.
OpensEpoch(k) ==
    /\ TxExpired \/ (TxStabilized /\ k.path = tx.pathId)
    /\ k.epoch = tx.epoch + 1 /\ k.phase = 0 /\ k.flag = "INIT" /\ k.tsTail = 0
    /\ tx'.phase = 0

EndsPhase0(k) ==
    /\ tx.phase = 0 /\ ~tx.stabilized
    /\ k.epoch = tx.epoch /\ k.phase = 0 /\ k.flag = "TAIL" /\ k.path = tx.pathId
    /\ k.tsTail = now /\ tx'.phase = 1 /\ tx'.tailTime = now

StaysInPhase(k) ==
    /\ ~tx.stabilized
    /\ k.epoch = tx.epoch /\ k.phase = tx.phase /\ k.flag = "DATA" /\ k.path = tx.pathId
    /\ k.tsTail = tx.tailTime
    /\ tx'.phase = tx.phase /\ tx'.tailTime = tx.tailTime /\ tx'.pathId = tx.pathId

Enters(k) ==
    /\ net' = net \cup {k} /\ k.id = nsent + 1 /\ k.tsTx = now
    /\ nsent' = nsent + 1 /\ UNCHANGED <<rx, voq, replies, now, delivered>>
    /\ tx'.activeTime = now /\ tx'.known = TRUE /\ tx'.stabilized = FALSE
    /\ tx'.epoch = k.epoch
    /\ k.phase = tx'.phase => k.path = tx'.pathId

\* What Emit does with a packet, by the tags of the entry.
LEMMA EmitEnters ==
    ASSUME NEW path, NEW phase, NEW flag, NEW entry, Emit(path, phase, flag, entry)
    PROVE  \E k : /\ net' = net \cup {k} /\ k.id = nsent + 1 /\ k.tsTx = now
                  /\ k.path = path /\ k.phase = phase /\ k.flag = flag
                  /\ k.epoch = entry.epoch /\ k.tsTail = entry.tailTime
                  /\ nsent' = nsent + 1 /\ tx' = entry
                  /\ UNCHANGED <<rx, voq, replies, now, delivered>>
<1> DEFINE k == [id |-> nsent + 1, path |-> path, epoch |-> entry.epoch,
                 phase |-> phase, flag |-> flag, tsTx |-> now,
                 tsTail |-> entry.tailTime]
<1>1. net' = net \cup {k}
  BY DEF Emit
<1>2. /\ k.id = nsent + 1 /\ k.path = path /\ k.phase = phase /\ k.flag = flag
      /\ k.epoch = entry.epoch /\ k.tsTail = entry.tailTime /\ k.tsTx = now
  OBVIOUS
<1> HIDE DEF k
<1>3. nsent' = nsent + 1 /\ UNCHANGED <<rx, voq, replies, now, delivered>> /\ tx' = entry
  BY DEF Emit
<1> QED
  BY <1>1, <1>2, <1>3

LEMMA SourceSendsCases ==
    ASSUME TInv, TxData
    PROVE  \E k : /\ Enters(k)
                  /\ OpensEpoch(k) \/ EndsPhase0(k) \/ StaysInPhase(k)
<1>1. tx \in TxEntry /\ now \in Times
  BY DEF TInv, TypeOK, Times
<1>2. ASSUME NEW path \in Paths, Emit(path, 0, "INIT", NewRoundEntry(path)),
             TxExpired \/ (TxStabilized /\ path = tx.pathId)
      PROVE  \E k : Enters(k) /\ OpensEpoch(k)
  <2> DEFINE entry == NewRoundEntry(path)
  <2>1. /\ entry.activeTime = now /\ entry.stabilized = FALSE /\ entry.tailTime = 0
        /\ entry.known = TRUE /\ entry.phase = 0 /\ entry.pathId = path
        /\ entry.epoch = tx.epoch + 1
    BY <1>1 DEF NewRoundEntry, TxEntry
  <2>2. Emit(path, 0, "INIT", entry)
    BY <1>2
  <2> HIDE DEF entry
  <2>3. PICK k : /\ net' = net \cup {k} /\ k.id = nsent + 1 /\ k.tsTx = now
                 /\ k.path = path /\ k.phase = 0 /\ k.flag = "INIT"
                 /\ k.epoch = entry.epoch /\ k.tsTail = entry.tailTime
                 /\ nsent' = nsent + 1 /\ tx' = entry
                 /\ UNCHANGED <<rx, voq, replies, now, delivered>>
    BY <2>2, EmitEnters
  <2>4. Enters(k)
    BY <2>1, <2>3 DEF Enters
  <2> QED
    BY <1>2, <2>1, <2>3, <2>4 DEF OpensEpoch
<1>3. ASSUME NEW r1 \in Paths, NEW r2 \in Paths, TxNewFlowlet(r1, r2)
      PROVE  \E k : Enters(k) /\ OpensEpoch(k)
  <2> DEFINE path == ReroutedPath(r1, r2)
  <2>1. path \in Paths
    BY PathChosen
  <2>2. Emit(path, 0, "INIT", NewRoundEntry(path)) /\ TxExpired
    BY <1>3 DEF TxNewFlowlet
  <2> HIDE DEF path
  <2> QED
    BY <1>2, <2>1, <2>2
<1>4. CASE TxNextEpoch
  <2>1. tx.pathId \in Paths /\ TxStabilized
    BY <1>4, NotExpiredKnown DEF TxNextEpoch, TxStabilized
  <2>2. Emit(tx.pathId, 0, "INIT", NewRoundEntry(tx.pathId))
    BY <1>4 DEF TxNextEpoch
  <2> QED
    BY <1>2, <2>1, <2>2
<1>5. ASSUME NEW r1 \in Paths, NEW r2 \in Paths, TxReroute(r1, r2)
      PROVE  \E k : Enters(k) /\ EndsPhase0(k)
  <2> DEFINE new   == ReroutedPath(r1, r2)
             entry == TailEntry(new)
  <2>1. tx.known /\ tx.pathId \in Paths
    BY <1>5, NotExpiredKnown DEF TxReroute, ReplyTimedOut
  <2>2. Emit(tx.pathId, 0, "TAIL", entry)
    BY <1>5, <2>1, PathsAssumption DEF TxReroute, HeldPath
  <2>3. tx.phase = 0 /\ ~tx.stabilized
    BY <1>5, TimesAssumption
       DEF TxReroute, ReplyTimedOut, TxStabilized, TInv, TypeOK, TxWellFormed, TxEntry
  <2>4. /\ entry.activeTime = now /\ entry.stabilized = tx.stabilized
        /\ entry.known = tx.known
        /\ entry.tailTime = now /\ entry.phase = 1 /\ entry.epoch = tx.epoch
    BY <1>1 DEF TailEntry, TxEntry
  <2> HIDE DEF entry
  <2>6. entry.stabilized = FALSE /\ entry.known = TRUE
    BY <1>1, <2>1, <2>3, <2>4 DEF TxEntry
  <2>7. PICK k : /\ net' = net \cup {k} /\ k.id = nsent + 1 /\ k.tsTx = now
                 /\ k.path = tx.pathId /\ k.phase = 0 /\ k.flag = "TAIL"
                 /\ k.epoch = entry.epoch /\ k.tsTail = entry.tailTime
                 /\ nsent' = nsent + 1 /\ tx' = entry
                 /\ UNCHANGED <<rx, voq, replies, now, delivered>>
    BY <2>2, EmitEnters
  <2>8. Enters(k)
    BY <2>4, <2>6, <2>7 DEF Enters
  <2> QED
    BY <2>3, <2>4, <2>7, <2>8 DEF EndsPhase0
<1>6. ASSUME TxOrdinary
      PROVE  \E k : Enters(k) /\ StaysInPhase(k)
  <2> DEFINE entry == [tx EXCEPT !.activeTime = now]
  <2>1. tx.known /\ tx.pathId \in Paths
    BY <1>6, NotExpiredKnown DEF TxOrdinary
  <2>2. Emit(tx.pathId, tx.phase, "DATA", entry) /\ ~tx.stabilized
    BY <1>6 DEF TxOrdinary, TxStabilized
  <2>3. /\ entry.activeTime = now /\ entry.stabilized = tx.stabilized
        /\ entry.known = tx.known /\ entry.pathId = tx.pathId
        /\ entry.tailTime = tx.tailTime /\ entry.phase = tx.phase
        /\ entry.epoch = tx.epoch
    BY <1>1 DEF TxEntry
  <2> HIDE DEF entry
  <2>5. entry.stabilized = FALSE /\ entry.known = TRUE
    BY <1>1, <2>1, <2>2, <2>3 DEF TxEntry
  <2>6. PICK k : /\ net' = net \cup {k} /\ k.id = nsent + 1 /\ k.tsTx = now
                 /\ k.path = tx.pathId /\ k.phase = tx.phase /\ k.flag = "DATA"
                 /\ k.epoch = entry.epoch /\ k.tsTail = entry.tailTime
                 /\ nsent' = nsent + 1 /\ tx' = entry
                 /\ UNCHANGED <<rx, voq, replies, now, delivered>>
    BY <2>2, EmitEnters
  <2>7. Enters(k)
    BY <2>3, <2>5, <2>6 DEF Enters
  <2> QED
    BY <2>2, <2>3, <2>6, <2>7 DEF StaysInPhase
<1> QED
  BY <1>3, <1>4, <1>5, <1>6 DEF TxData

-----------------------------------------------------------------------------
(***************************************************************************)
(* The source sends.                                                       *)
(***************************************************************************)
SendContext ==
    AgingOutlastsReplies /\ TimersCover /\ TInv /\ SettleInv /\ TimedInv

\* The packets under way belong to the current epoch and phase, or to older ones.
LEMMA NotAhead ==
    ASSUME TInv, SettleInv, NEW p \in net
    PROVE  /\ p.epoch <= tx.epoch
           /\ p.epoch = tx.epoch => p.phase <= tx.phase
           /\ p.epoch = tx.epoch /\ p.flag = "TAIL" => tx.phase = 1
           /\ p.epoch = tx.epoch /\ p.phase = tx.phase => p.path = tx.pathId
           /\ p.flag = "TAIL" => p.phase = 0
           /\ p.tsTx <= tx.activeTime /\ now <= p.tsTx + MaxDelay[p.path]
  BY DEF SettleInv, PathInv, TailIsLast

\* A new epoch finds the packets of the last one on the path it takes.
LEMMA OpensOnOnePath ==
    ASSUME SendContext, NEW k, Enters(k), OpensEpoch(k), NEW p \in net
    PROVE  p.path = k.path
<1>1. TxStabilized /\ k.path = tx.pathId
  BY ExpiredIsEmpty DEF SendContext, OpensEpoch
<1>2. CASE tx.phase = 0
  BY <1>1, <1>2 DEF SendContext, TimedInv, FrontOrdered
<1>3. CASE tx.phase = 1
  <2>1. ~Front(p)
    BY <1>1, <1>3 DEF SendContext, TimedInv, FrontSeen, FrontGone
  <2>2. p.phase = 1 /\ p.epoch = tx.epoch
    BY <2>1, PacketFacts, NotAhead, EntryFacts DEF Front, SendContext
  <2> QED
    BY <1>1, <1>3, <2>2, NotAhead DEF SendContext
<1> QED
  BY <1>2, <1>3, EntryFacts DEF SendContext

\* Front only grows by what is sent before a phase 1.
LEMMA FrontAfterSend ==
    ASSUME SendContext, NEW k, Enters(k)
    PROVE  /\ OpensEpoch(k) => \A p \in net' : Front(p)'
           /\ EndsPhase0(k) => \A p \in net' : Front(p)'
           /\ StaysInPhase(k) => /\ \A p \in net : Front(p)' <=> Front(p)
                                 /\ Front(k)' <=> tx.phase = 0
<1>1. net' = net \cup {k} /\ tx'.epoch = k.epoch /\ tx.epoch \in Nat /\ tx.phase \in {0, 1}
  BY EntryFacts DEF Enters, SendContext
<1>2. ASSUME OpensEpoch(k), NEW p \in net' PROVE Front(p)'
  <2>1. CASE p = k
    BY <1>2, <2>1 DEF OpensEpoch, Front
  <2>2. CASE p \in net
    <3>1. p.epoch <= tx.epoch /\ p.epoch \in Nat
      BY <2>2, NotAhead, PacketFacts DEF SendContext
    <3>2. tx'.epoch = tx.epoch + 1
      BY <1>1, <1>2 DEF OpensEpoch
    <3>3. p.epoch < tx'.epoch
      BY <1>1, <3>1, <3>2
    <3> QED
      BY <3>3 DEF Front
  <2> QED
    BY <1>1, <2>1, <2>2
<1>3. ASSUME EndsPhase0(k), NEW p \in net' PROVE Front(p)'
  <2>1. CASE p = k
    BY <1>3, <2>1 DEF EndsPhase0, Front
  <2>2. CASE p \in net
    <3>1. /\ p.epoch <= tx.epoch /\ p.epoch \in Nat /\ p.phase \in {0, 1}
          /\ p.epoch = tx.epoch => p.phase <= tx.phase
      BY <2>2, NotAhead, PacketFacts DEF SendContext
    <3>2. tx'.epoch = tx.epoch /\ tx.phase = 0
      BY <1>1, <1>3 DEF EndsPhase0
    <3>3. p.epoch < tx'.epoch \/ p.phase = 0
      BY <1>1, <3>1, <3>2
    <3> QED
      BY <3>3 DEF Front
  <2> QED
    BY <1>1, <2>1, <2>2
<1>4. ASSUME StaysInPhase(k)
      PROVE  /\ \A p \in net : Front(p)' <=> Front(p)
             /\ Front(k)' <=> tx.phase = 0
  BY <1>1, <1>4 DEF StaysInPhase, Front
<1> QED
  BY <1>2, <1>3, <1>4

LEMMA SendFrontOrdered ==
    ASSUME SendContext, NEW k, Enters(k), OpensEpoch(k) \/ EndsPhase0(k) \/ StaysInPhase(k)
    PROVE  FrontOrdered'
<1>1. /\ net' = net \cup {k} /\ k.id = nsent + 1 /\ tx'.epoch = k.epoch
      /\ k.phase = tx'.phase => k.path = tx'.pathId
  BY DEF Enters
<1>2. /\ \A p \in net : p.id \in Nat /\ p.id <= nsent /\ nsent \in Nat
      /\ tx.epoch \in Nat /\ tx.phase \in {0, 1} /\ nsent \in Nat
  BY PacketFacts, EntryFacts DEF SendContext, TInv, TypeOK
<1>3. CASE OpensEpoch(k)
  <2>1. \A p \in net' : Front(p)' /\ p.path = k.path
    BY <1>1, <1>3, FrontAfterSend, OpensOnOnePath
  <2>2. tx'.pathId = k.path
    BY <1>1, <1>3 DEF OpensEpoch
  <2>3. ASSUME NEW q \in net', q.flag = "TAIL", q.epoch = tx'.epoch PROVE FALSE
    <3>1. q # k
      BY <1>3, <2>3 DEF OpensEpoch
    <3>2. q \in net /\ q.epoch <= tx.epoch /\ q.epoch \in Nat
      BY <1>1, <3>1, NotAhead, PacketFacts DEF SendContext
    <3>3. q.epoch = tx.epoch + 1
      BY <1>1, <1>3, <2>3 DEF OpensEpoch
    <3> QED
      BY <1>2, <3>2, <3>3
  <2> QED
    BY <2>1, <2>2, <2>3 DEF FrontOrdered
<1>4. CASE EndsPhase0(k)
  <2>1. \A p \in net' : Front(p)'
    BY <1>4, FrontAfterSend
  <2>2. \A p \in net' : p.path = k.path
    BY <1>1, <1>4 DEF EndsPhase0, SendContext, TimedInv, FrontOrdered
  <2>3. tx'.phase = 1
    BY <1>4 DEF EndsPhase0
  <2>4. ASSUME NEW q \in net', q.flag = "TAIL", q.epoch = tx'.epoch PROVE q = k
    <3>1. ASSUME q # k PROVE FALSE
      <4>1. q \in net /\ tx'.epoch = tx.epoch /\ tx.phase = 0
        BY <1>1, <1>4, <3>1 DEF EndsPhase0
      <4> QED
        BY <2>4, <4>1, NotAhead DEF SendContext
    <3> QED
      BY <3>1
  <2>5. \A p \in net' : p.id <= k.id
    BY <1>1, <1>2
  <2> QED
    BY <2>1, <2>2, <2>3, <2>4, <2>5 DEF FrontOrdered
<1>5. CASE StaysInPhase(k)
  <2>0. /\ \A p \in net : Front(p)' <=> Front(p)
        /\ Front(k)' <=> tx.phase = 0
        /\ k.path = tx.pathId /\ tx'.phase = tx.phase /\ tx'.pathId = tx.pathId
        /\ tx'.epoch = tx.epoch /\ k.flag = "DATA"
    BY <1>1, <1>5, FrontAfterSend DEF StaysInPhase
  <2>1. ASSUME tx.phase = 0, NEW p \in net' PROVE p.path = tx.pathId /\ Front(p)'
    <3>1. CASE p = k
      BY <2>0, <2>1, <3>1
    <3>2. CASE p \in net
      <4>1. p.path = tx.pathId
        BY <2>1, <3>2 DEF SendContext, TimedInv, FrontOrdered
      <4>2. p.epoch <= tx.epoch /\ (p.epoch = tx.epoch => p.phase <= 0)
            /\ p.epoch \in Nat /\ p.phase \in {0, 1}
        BY <2>1, <3>2, NotAhead, PacketFacts DEF SendContext
      <4>3. Front(p)
        BY <1>2, <4>2 DEF Front
      <4> QED
        BY <2>0, <3>2, <4>1, <4>3
    <3> QED
      BY <1>1, <3>1, <3>2
  <2>2. ASSUME NEW p \in net', NEW q \in net', Front(p)', Front(q)' PROVE p.path = q.path
    <3>1. CASE tx.phase = 0
      BY <2>1, <3>1
    <3>2. CASE tx.phase # 0
      <4>1. p \in net /\ q \in net /\ Front(p) /\ Front(q)
        BY <1>1, <2>0, <2>2, <3>2
      <4> QED
        BY <4>1 DEF SendContext, TimedInv, FrontOrdered
    <3> QED
      BY <3>1, <3>2
  <2>3. ASSUME NEW p \in net', NEW q \in net', Front(p)', ~Front(q)' PROVE p.id < q.id
    <3>1. tx.phase # 0
      BY <2>1, <2>3
    <3>2. p \in net /\ Front(p)
      BY <1>1, <2>0, <2>3, <3>1
    <3>3. CASE q = k
      BY <1>1, <1>2, <3>2, <3>3
    <3>4. CASE q \in net
      BY <2>0, <2>3, <3>2, <3>4 DEF SendContext, TimedInv, FrontOrdered
    <3> QED
      BY <1>1, <3>3, <3>4
  <2>4. ASSUME NEW p \in net', NEW q \in net', Front(p)', q.flag = "TAIL", q.epoch = tx'.epoch
        PROVE  p.id <= q.id
    <3>1. q \in net
      BY <1>1, <2>0, <2>4
    <3>2. tx.phase = 1
      BY <2>0, <2>4, <3>1, NotAhead DEF SendContext
    <3>3. p \in net /\ Front(p)
      BY <1>1, <2>0, <2>4, <3>2
    <3> QED
      BY <2>0, <2>4, <3>1, <3>3 DEF SendContext, TimedInv, FrontOrdered
  <2>5. tx'.phase = 0 => \A p \in net' : p.path = tx'.pathId
    BY <2>0, <2>1
  <2> QED
    BY <2>2, <2>3, <2>4, <2>5 DEF FrontOrdered
<1> QED
  BY <1>3, <1>4, <1>5

LEMMA SendFrontSeen ==
    ASSUME SendContext, NEW k, Enters(k), OpensEpoch(k) \/ EndsPhase0(k) \/ StaysInPhase(k)
    PROVE  FrontSeen'
<1>1. /\ net' = net \cup {k} /\ tx'.epoch = k.epoch /\ replies' = replies
      /\ tx'.stabilized = FALSE
  BY DEF Enters
<1>2. ~TxStabilized'
  BY <1>1 DEF TxStabilized
<1>3. ASSUME NEW r \in replies', r.epoch = tx'.epoch, r.phase = 1 PROVE FrontGone'
  <2>1. r \in replies /\ r.epoch <= tx.epoch /\ r.epoch \in Nat /\ tx.epoch \in Nat
        /\ (r.epoch = tx.epoch => tx.phase = 1)
    BY <1>1, <1>3, ReplyFacts, EntryFacts DEF SendContext, SettleInv, RepliesTrue, TailSeen
  <2>2. ~OpensEpoch(k)
    BY <1>1, <1>3, <2>1 DEF OpensEpoch
  <2>3. ~EndsPhase0(k)
    BY <1>1, <1>3, <2>1 DEF EndsPhase0
  <2>4. StaysInPhase(k) /\ tx'.epoch = tx.epoch
    BY <1>1, <2>2, <2>3 DEF StaysInPhase
  <2>5. FrontGone
    BY <1>3, <2>1, <2>4 DEF SendContext, TimedInv, FrontSeen
  <2>6. ASSUME NEW p \in net' PROVE ~Front(p)'
    <3>1. (\A x \in net : Front(x)' <=> Front(x)) /\ (Front(k)' <=> tx.phase = 0)
      BY <2>4, FrontAfterSend
    <3>2. tx.phase = 1
      BY <1>3, <2>1, <2>4
    <3> QED
      BY <1>1, <2>5, <3>1, <3>2 DEF FrontGone
  <2> QED
    BY <2>6 DEF FrontGone
<1> QED
  BY <1>2, <1>3 DEF FrontSeen

LEMMA SendTagTimes ==
    ASSUME SendContext, NEW k, Enters(k), OpensEpoch(k) \/ EndsPhase0(k) \/ StaysInPhase(k)
    PROVE  TagTimes'
<1>1. net' = net \cup {k} /\ k.tsTx = now /\ tx'.epoch = k.epoch
  BY DEF Enters
<1>2. /\ now \in Nat /\ tx.epoch \in Nat /\ tx.phase \in {0, 1}
      /\ tx.tailTime \in Nat /\ tx.tailTime <= now
  BY EntryFacts, TimeFacts DEF SendContext
<1>3. \A p \in net : /\ p.epoch \in Nat /\ p.phase \in {0, 1} /\ p.epoch <= tx.epoch
                     /\ p.epoch = tx.epoch => p.phase <= tx.phase
                     /\ p.epoch = tx.epoch /\ p.flag = "TAIL" => tx.phase = 1
                     /\ p.flag = "TAIL" => p.phase = 0
                     /\ p.tsTx \in Nat /\ p.tsTx <= now /\ p.tsTail \in Nat
  BY PacketFacts, NotAhead DEF SendContext
<1>4. ASSUME NEW p \in net'
      PROVE  p.tsTail <= p.tsTx /\ (p.flag = "TAIL" => p.tsTail = p.tsTx)
  <2>1. CASE p \in net
    BY <2>1 DEF SendContext, TimedInv, TagTimes
  <2>2. CASE p = k
    BY <1>1, <1>2, <2>2 DEF OpensEpoch, EndsPhase0, StaysInPhase
  <2> QED
    BY <1>1, <2>1, <2>2
<1>5. ASSUME NEW p \in net', p.epoch = tx'.epoch, p.phase = 1 \/ p.flag = "TAIL"
      PROVE  p.tsTail = tx'.tailTime
  <2>1. CASE OpensEpoch(k)
    BY <1>1, <1>2, <1>3, <1>5, <2>1 DEF OpensEpoch
  <2>2. CASE EndsPhase0(k)
    BY <1>1, <1>2, <1>3, <1>5, <2>2 DEF EndsPhase0
  <2>3. CASE StaysInPhase(k)
    <3>1. /\ tx'.epoch = tx.epoch /\ tx'.tailTime = tx.tailTime /\ k.tsTail = tx.tailTime
      BY <1>1, <2>3 DEF StaysInPhase
    <3>2. p \in net => p.tsTail = tx.tailTime
      BY <1>5, <3>1 DEF SendContext, TimedInv, TagTimes
    <3> QED
      BY <1>1, <3>1, <3>2
  <2> QED
    BY <2>1, <2>2, <2>3
<1>6. ASSUME NEW p \in net', NEW q \in net', p.phase = 0, q.phase = 1, p.epoch <= q.epoch
      PROVE  p.tsTx <= q.tsTail
  <2>1. CASE p \in net /\ q \in net
    BY <1>6, <2>1 DEF SendContext, TimedInv, TagTimes
  <2>2. CASE q = k
    <3>1. StaysInPhase(k) /\ tx.phase = 1 /\ k.tsTail = tx.tailTime
      BY <1>6, <2>2 DEF OpensEpoch, EndsPhase0, StaysInPhase
    <3>2. p \in net /\ Front(p)
      BY <1>1, <1>6, <2>2 DEF Front
    <3> QED
      BY <2>2, <3>1, <3>2 DEF SendContext, TimedInv, TagTimes
  <2>3. CASE p = k /\ q \in net
    <3>1. q.epoch <= tx.epoch /\ q.epoch \in Nat /\ (q.epoch = tx.epoch => tx.phase = 1)
      BY <1>2, <1>3, <1>6, <2>3
    <3> QED
      BY <1>2, <1>6, <2>3, <3>1 DEF OpensEpoch, EndsPhase0, StaysInPhase
  <2> QED
    BY <1>1, <2>1, <2>2, <2>3
<1>7. ASSUME tx'.phase = 1, NEW p \in net', Front(p)' PROVE p.tsTx <= tx'.tailTime
  <2>1. ~OpensEpoch(k)
    BY <1>7 DEF OpensEpoch
  <2>2. CASE EndsPhase0(k)
    BY <1>1, <1>2, <1>3, <2>2 DEF EndsPhase0
  <2>3. CASE StaysInPhase(k)
    <3>1. p \in net /\ Front(p) /\ tx.phase = 1 /\ tx'.tailTime = tx.tailTime
      <4>1. tx.phase = 1 /\ tx'.tailTime = tx.tailTime
        BY <1>7, <2>3 DEF StaysInPhase
      <4> QED
        BY <1>1, <1>7, <2>3, <4>1, FrontAfterSend
    <3> QED
      BY <3>1 DEF SendContext, TimedInv, TagTimes
  <2> QED
    BY <2>1, <2>2, <2>3
<1> QED
  BY <1>4, <1>5, <1>6, <1>7 DEF TagTimes

LEMMA SendEntryTimes ==
    ASSUME SendContext, NEW k, Enters(k), OpensEpoch(k) \/ EndsPhase0(k) \/ StaysInPhase(k)
    PROVE  EntryTimes'
<1>1. net' = net \cup {k} /\ k.tsTx = now /\ rx' = rx /\ tx'.activeTime = now
  BY DEF Enters
<1>2. /\ now \in Nat /\ tx.phase \in {0, 1} /\ tx.tailTime \in Nat /\ tx.tailTime <= now
      /\ rx.phase0TxTime \in Nat /\ rx.phase0TxTime <= now
  BY EntryFacts, TimeFacts DEF SendContext
<1>3. tx'.phase = 1 => rx'.phase0TxTime <= tx'.tailTime /\ tx'.tailTime <= tx'.activeTime
  <2>1. CASE OpensEpoch(k)
    BY <2>1 DEF OpensEpoch
  <2>2. CASE EndsPhase0(k)
    BY <1>1, <1>2, <2>2 DEF EndsPhase0
  <2>3. CASE StaysInPhase(k)
    BY <1>1, <1>2, <2>3 DEF StaysInPhase, SendContext, TimedInv, EntryTimes
  <2> QED
    BY <2>1, <2>2, <2>3
<1>4. ASSUME NEW p \in net', p.phase = 1, rx'.epoch <= p.epoch
      PROVE  rx'.phase0TxTime <= p.tsTail
  <2>1. CASE p \in net
    BY <1>1, <1>4, <2>1 DEF SendContext, TimedInv, EntryTimes
  <2>2. CASE p = k
    BY <1>1, <1>4, <2>2
       DEF OpensEpoch, EndsPhase0, StaysInPhase, SendContext, TimedInv, EntryTimes
  <2> QED
    BY <1>1, <2>1, <2>2
<1>5. rx'.phase0Cache => \E r \in Paths : rx'.phase0RxTime <= rx'.phase0TxTime + MaxDelay[r]
  BY <1>1 DEF SendContext, TimedInv, EntryTimes
<1> QED
  BY <1>3, <1>4, <1>5 DEF EntryTimes

LEMMA SendVoqInTime ==
    ASSUME SendContext, NEW k, Enters(k), OpensEpoch(k) \/ EndsPhase0(k) \/ StaysInPhase(k)
    PROVE  VoqInTime'
<1>1. rx' = rx /\ voq' = voq /\ tx'.activeTime = now /\ tx'.epoch = k.epoch
  BY DEF Enters
<1>2. rx.reordering = voq.exists
  BY DEF SendContext, TimedInv, VoqInTime
<1>3. ASSUME voq.exists
      PROVE  /\ rx.known /\ rx.phase = 0 /\ rx.epoch = tx'.epoch /\ tx'.phase = 1
             /\ rx.tailTime = tx'.tailTime
             /\ voq.flushAt <= tx'.activeTime + TxExpiryTime
             /\ voq.flushAt <= rx.activeTime + TxExpiryTime
  <2>1. /\ rx.known /\ rx.phase = 0 /\ rx.epoch = tx.epoch /\ tx.phase = 1
        /\ rx.tailTime = tx.tailTime
        /\ voq.flushAt <= tx.activeTime + TxExpiryTime
        /\ voq.flushAt <= rx.activeTime + TxExpiryTime
    BY <1>3 DEF SendContext, TimedInv, VoqInTime
  <2>2. ~TxStabilized
    BY <1>2, <1>3, <2>1 DEF SendContext, SettleInv, Settled
  <2>3. ~TxExpired
    <3>1. now <= voq.flushAt
      BY <1>3 DEF SendContext, SettleInv, FlushAhead
    <3> QED
      BY <2>1, <3>1, EntryFacts DEF SendContext, TxExpired
  <2>4. StaysInPhase(k)
    BY <2>1, <2>2, <2>3 DEF OpensEpoch, EndsPhase0
  <2>5. voq.flushAt <= now + TxExpiryTime
    BY <2>1, EntryFacts DEF SendContext
  <2> QED
    BY <1>1, <2>1, <2>4, <2>5 DEF StaysInPhase
<1> QED
  BY <1>1, <1>2, <1>3 DEF VoqInTime

LEMMA SendOldPass ==
    ASSUME SendContext, NEW k, Enters(k), OpensEpoch(k) \/ EndsPhase0(k) \/ StaysInPhase(k)
    PROVE  OldPass'
<1>1. net' = net \cup {k} /\ rx' = rx /\ tx'.epoch = k.epoch
  BY DEF Enters
<1> SUFFICES ASSUME NEW p \in net', p.epoch < tx'.epoch
             PROVE  /\ p.tsTx <= rx.activeTime + MaxCtlDelay
                    /\ p.phase = 1 => p.epoch < rx.epoch \/ (p.epoch = rx.epoch /\ rx.phase = 1)
  BY <1>1 DEF OldPass
<1>2. tx.epoch \in Nat /\ tx.phase \in {0, 1}
  BY EntryFacts DEF SendContext
<1>3. p \in net /\ p.epoch \in Nat /\ p.phase \in {0, 1} /\ p.tsTx \in Nat
  <2>1. k.epoch \in Nat
    BY <1>2 DEF OpensEpoch, EndsPhase0, StaysInPhase
  <2>2. p # k
    BY <1>1, <2>1
  <2> QED
    BY <1>1, <2>2, PacketFacts DEF SendContext
<1>4. CASE p.epoch < tx.epoch
  BY <1>3, <1>4 DEF SendContext, TimedInv, OldPass
<1>5. CASE ~(p.epoch < tx.epoch)
  <2>1. OpensEpoch(k) /\ p.epoch = tx.epoch /\ p.tsTx <= tx.activeTime
        /\ p.phase <= tx.phase
    <3>1. p.epoch <= tx.epoch /\ p.tsTx <= tx.activeTime
          /\ (p.epoch = tx.epoch => p.phase <= tx.phase)
      BY <1>3, NotAhead DEF SendContext
    <3>2. p.epoch = tx.epoch
      BY <1>2, <1>3, <1>5, <3>1
    <3> QED
      BY <1>1, <1>2, <3>1, <3>2 DEF EndsPhase0, StaysInPhase
  <2>2. TxStabilized
    BY <1>3, <2>1, ExpiredIsEmpty DEF OpensEpoch, SendContext
  <2>3. /\ rx.epoch = tx.epoch /\ tx.activeTime <= rx.activeTime + MaxCtlDelay
        /\ tx.phase = 1 => rx.phase = 1
    BY <2>2 DEF SendContext, SettleInv, Settled, TailSeen
  <2>4. p.tsTx <= rx.activeTime + MaxCtlDelay
    BY <1>3, <2>1, <2>3, EntryFacts DEF SendContext
  <2>5. p.phase = 1 => rx.phase = 1
    BY <1>2, <2>1, <2>3
  <2> QED
    BY <2>1, <2>3, <2>4, <2>5
<1> QED
  BY <1>4, <1>5

LEMMA TxDataTimed ==
    ASSUME SendContext, TxData PROVE TimedInv'
<1>1. PICK k : Enters(k) /\ (OpensEpoch(k) \/ EndsPhase0(k) \/ StaysInPhase(k))
  BY SourceSendsCases DEF SendContext
<1> QED
  BY <1>1, SendFrontOrdered, SendFrontSeen, SendTagTimes, SendEntryTimes, SendVoqInTime,
     SendOldPass DEF TimedInv

-----------------------------------------------------------------------------
(***************************************************************************)
(* The receiver.                                                           *)
(***************************************************************************)

\* Steps that send nothing and leave the source's epoch alone.
LEMMA FewerPackets ==
    ASSUME TimedInv, net' \subseteq net, tx'.epoch = tx.epoch, tx'.phase = tx.phase,
           tx'.pathId = tx.pathId, tx'.tailTime = tx.tailTime
    PROVE  /\ \A p : Front(p)' <=> Front(p)
           /\ FrontGone => FrontGone'
           /\ FrontOrdered' /\ TagTimes'
<1>1. \A p : Front(p)' <=> Front(p)
  BY DEF Front
<1>2. FrontGone => FrontGone'
  BY <1>1 DEF FrontGone
<1>3. FrontOrdered'
  BY <1>1 DEF TimedInv, FrontOrdered
<1>4. TagTimes'
  <2>1. tx'.phase = 1 => \A p \in net' : Front(p)' => p.tsTx <= tx'.tailTime
    BY <1>1 DEF TimedInv, TagTimes
  <2> QED
    BY <2>1 DEF TimedInv, TagTimes
<1> QED
  BY <1>1, <1>2, <1>3, <1>4

\* What a packet that arrives leaves in the times of the entry.
LEMMA RxTimes ==
    ASSUME TInv, NEW p \in net, RxReceive(p)
    PROVE  /\ rx'.known
           /\ PrevEpoch(p) =>
                 /\ rx'.tailTime = rx.tailTime
                 /\ rx'.phase0TxTime = rx.phase0TxTime /\ rx'.phase0RxTime = rx.phase0RxTime
                 /\ rx'.phase0Cache = rx.phase0Cache
           /\ ~PrevEpoch(p) =>
                 /\ rx'.tailTime = IF IsTail(p) \/ p.phase = 1 THEN p.tsTail ELSE rx.tailTime
                 /\ p.phase = 0 => /\ rx'.phase0TxTime = p.tsTx /\ rx'.phase0RxTime = now
                                   /\ rx'.phase0Cache
                 /\ p.phase = 1 => /\ rx'.phase0TxTime = rx.phase0TxTime
                                   /\ rx'.phase0RxTime = rx.phase0RxTime
                                   /\ rx'.phase0Cache <=> rx.phase0Cache /\ ~NewEpoch(p)
<1>1. rx \in RxEntry /\ RxAfter(p) \in RxEntry /\ p.phase \in {0, 1}
  BY RxAfterTyped, PacketFacts DEF TInv, TypeOK
<1>2. CASE PrevEpoch(p)
  <2>1. rx' = [rx EXCEPT !.known = TRUE, !.activeTime = now]
    BY <1>2 DEF RxReceive, RxPrevEpoch, RxPhase0, RxPhase1InOrder, RxPhase1OutOfOrder
  <2> QED
    BY <1>1, <1>2, <2>1 DEF RxEntry
<1>3. CASE ~PrevEpoch(p)
  <2>1. rx' = RxAfter(p) \/ rx' = [RxAfter(p) EXCEPT !.reordering = TRUE]
    BY <1>3 DEF RxReceive, RxPrevEpoch, RxPhase0, RxPhase1InOrder, RxPhase1OutOfOrder
  <2>2. /\ rx'.known = RxAfter(p).known /\ rx'.tailTime = RxAfter(p).tailTime
        /\ rx'.phase0TxTime = RxAfter(p).phase0TxTime
        /\ rx'.phase0RxTime = RxAfter(p).phase0RxTime
        /\ rx'.phase0Cache = RxAfter(p).phase0Cache
    BY <1>1, <2>1 DEF RxEntry
  <2>3. RxAfter(p).known = TRUE
    BY <1>1 DEF RxAfter, RxEntry
  <2>4. RxAfter(p).tailTime = IF IsTail(p) \/ p.phase = 1 THEN p.tsTail ELSE rx.tailTime
    BY <1>1 DEF RxAfter, RxEntry
  <2>5. /\ RxAfter(p).phase0TxTime = IF p.phase = 0 THEN p.tsTx ELSE rx.phase0TxTime
        /\ RxAfter(p).phase0RxTime = IF p.phase = 0 THEN now ELSE rx.phase0RxTime
    BY <1>1 DEF RxAfter, RxEntry
  <2>6. RxAfter(p).phase0Cache = (p.phase = 0 \/ (rx.phase0Cache /\ ~NewEpoch(p)))
    BY <1>1 DEF RxAfter, RxEntry
  <2>7. rx'.known /\ (p.phase = 0 => rx'.phase0Cache)
    BY <2>2, <2>3, <2>6, Zenon
  <2>8. p.phase = 1 => (rx'.phase0Cache <=> rx.phase0Cache /\ ~NewEpoch(p))
    <3>1. p.phase = 1 => ~(p.phase = 0)
      OBVIOUS
    <3> QED
      BY <2>2, <2>6, <3>1, Zenon
  <2> QED
    BY <1>3, <2>2, <2>4, <2>5, <2>7, <2>8
<1> QED
  BY <1>2, <1>3

\* The epochs of the packet and of the two entries.
LEMMA ArrivalEpochs ==
    ASSUME TInv, SettleInv, NEW p \in net
    PROVE  /\ p.epoch \in Nat /\ rx.epoch \in Nat /\ tx.epoch \in Nat /\ p.epoch <= tx.epoch
           /\ PrevEpoch(p) <=> p.epoch < rx.epoch
           /\ ~PrevEpoch(p) => rx.epoch <= p.epoch
           /\ NewEpoch(p) <=> rx.epoch < p.epoch
           /\ rx.epoch = tx.epoch /\ ~PrevEpoch(p) => p.epoch = tx.epoch /\ ~NewEpoch(p)
  BY PacketFacts, EntryFacts, NotAhead DEF PrevEpoch, NewEpoch

LEMMA RxFrontSeen ==
    ASSUME SendContext, NEW p \in net, RxReceive(p) PROVE FrontSeen'
<1>1. net' = net \ {p} /\ UNCHANGED <<tx, now>> /\ Arrives(p)
  BY RxCases DEF SendContext
<1>2. FrontGone => FrontGone'
  BY <1>1, FewerPackets DEF SendContext
<1>3. TxStabilized' /\ tx'.phase = 1 => FrontGone'
  BY <1>1, <1>2 DEF SendContext, TimedInv, FrontSeen, TxStabilized, TxExpired
<1>4. ASSUME NEW r \in replies', r.epoch = tx'.epoch, r.phase = 1 PROVE FrontGone'
  <2>1. CASE r \in replies
    BY <1>1, <1>2, <1>4, <2>1 DEF SendContext, TimedInv, FrontSeen
  <2>2. CASE r \notin replies
    <3>1. Reply(p) /\ p.phase = 0
      BY <2>2, <1>4, RxCases DEF SendContext
    <3>2. r = [id |-> p.id, flag |-> p.flag, epoch |-> p.epoch,
               phase |-> IF IsTail(p) THEN 1 ELSE 0, sentAt |-> now]
      BY <1>4, <2>2, <3>1 DEF Reply
    <3>3. IsTail(p) /\ p.epoch = tx.epoch
      BY <1>1, <1>4, <3>2
    <3>4. ASSUME NEW q \in net, Front(q) PROVE q = p
      <4>1. q.id <= p.id
        BY <3>3, <3>4 DEF SendContext, TimedInv, FrontOrdered, IsTail
      <4>2. q.path = p.path
        BY <3>1, <3>4 DEF SendContext, TimedInv, FrontOrdered, Front
      <4>3. p.id <= q.id
        BY <1>1, <4>2 DEF Arrives
      <4>4. p.id = q.id
        BY <4>1, <4>3, PacketFacts DEF SendContext
      <4> QED
        BY <4>4 DEF SendContext, SettleInv, EachPacketOnce
    <3>5. \A q \in net' : ~Front(q)
      BY <1>1, <3>4
    <3> QED
      BY <1>1, <3>5 DEF FrontGone, Front
  <2> QED
    BY <2>1, <2>2
<1> QED
  BY <1>3, <1>4 DEF FrontSeen

LEMMA RxEntryTimes ==
    ASSUME SendContext, NEW p \in net, RxReceive(p) PROVE EntryTimes'
<1>1. net' = net \ {p} /\ UNCHANGED <<tx, now>>
  BY RxCases DEF SendContext
<1>2. CASE PrevEpoch(p)
  <2>1. /\ rx'.epoch = rx.epoch /\ rx'.phase0TxTime = rx.phase0TxTime
        /\ rx'.phase0RxTime = rx.phase0RxTime /\ rx'.phase0Cache = rx.phase0Cache
    BY <1>2, RxCases, RxTimes DEF SendContext
  <2> QED
    BY <1>1, <2>1 DEF SendContext, TimedInv, EntryTimes
<1>3. CASE ~PrevEpoch(p) /\ p.phase = 0
  <2>1. /\ rx'.epoch = p.epoch /\ rx'.phase0TxTime = p.tsTx /\ rx'.phase0RxTime = now
    BY <1>3, RxCases, RxTimes DEF SendContext
  <2>2. tx.phase = 1 => p.tsTx <= tx.tailTime /\ tx.tailTime <= tx.activeTime
    BY <1>3 DEF SendContext, TimedInv, TagTimes, EntryTimes, Front
  <2>3. \A q \in net : q.phase = 1 /\ p.epoch <= q.epoch => p.tsTx <= q.tsTail
    BY <1>3 DEF SendContext, TimedInv, TagTimes
  <2>4. now <= p.tsTx + MaxDelay[p.path] /\ p.path \in Paths
    BY NotAhead, PacketFacts DEF SendContext
  <2> QED
    BY <1>1, <2>1, <2>2, <2>3, <2>4 DEF EntryTimes
<1>4. CASE ~PrevEpoch(p) /\ p.phase = 1
  <2>1. /\ rx'.epoch = p.epoch /\ rx'.phase0TxTime = rx.phase0TxTime
        /\ rx'.phase0RxTime = rx.phase0RxTime
        /\ rx'.phase0Cache => rx.phase0Cache
    BY <1>4, RxCases, RxTimes DEF SendContext
  <2>2. rx.epoch <= p.epoch /\ rx.epoch \in Nat /\ p.epoch \in Nat
    BY <1>4, ArrivalEpochs DEF SendContext
  <2>3. ASSUME NEW q \in net, q.phase = 1, p.epoch <= q.epoch
        PROVE  rx.phase0TxTime <= q.tsTail
    <3>1. rx.epoch <= q.epoch
      BY <2>2, <2>3, PacketFacts DEF SendContext
    <3> QED
      BY <2>3, <3>1 DEF SendContext, TimedInv, EntryTimes
  <2>4. tx'.phase = 1 => rx'.phase0TxTime <= tx'.tailTime /\ tx'.tailTime <= tx'.activeTime
    BY <1>1, <2>1 DEF SendContext, TimedInv, EntryTimes
  <2>5. rx'.phase0Cache => \E r \in Paths : rx'.phase0RxTime <= rx'.phase0TxTime + MaxDelay[r]
    BY <2>1 DEF SendContext, TimedInv, EntryTimes
  <2> QED
    BY <1>1, <2>1, <2>3, <2>4, <2>5 DEF EntryTimes
<1> QED
  BY <1>2, <1>3, <1>4, PacketFacts DEF SendContext

LEMMA RxOldPass ==
    ASSUME SendContext, NEW p \in net, RxReceive(p) PROVE OldPass'
<1>1. net' = net \ {p} /\ UNCHANGED <<tx, now>> /\ rx'.activeTime = now
  BY RxCases DEF SendContext
<1> SUFFICES ASSUME NEW q \in net', q.epoch < tx'.epoch
             PROVE  /\ q.tsTx <= rx'.activeTime + MaxCtlDelay
                    /\ q.phase = 1 => q.epoch < rx'.epoch \/ (q.epoch = rx'.epoch /\ rx'.phase = 1)
  BY DEF OldPass
<1>2. q \in net
  BY <1>1
<1>3. q.tsTx <= rx'.activeTime + MaxCtlDelay
  BY <1>1, <1>2, PacketFacts, EntryFacts DEF SendContext
<1>4. ASSUME q.phase = 1
      PROVE  q.epoch < rx'.epoch \/ (q.epoch = rx'.epoch /\ rx'.phase = 1)
  <2>1. q.epoch < rx.epoch \/ (q.epoch = rx.epoch /\ rx.phase = 1)
    BY <1>1, <1>2, <1>4 DEF SendContext, TimedInv, OldPass
  <2>2. CASE PrevEpoch(p)
    <3>1. rx'.epoch = rx.epoch /\ rx'.phase = rx.phase
      BY <2>2, RxCases DEF SendContext
    <3> QED
      BY <2>1, <3>1
  <2>3. CASE ~PrevEpoch(p)
    <3>1. rx'.epoch = p.epoch /\ rx'.phase = PhaseAfter(p)
      BY <2>3, RxCases DEF SendContext
    <3>2. CASE NewEpoch(p)
      BY <1>2, <2>1, <3>1, <3>2, ArrivalEpochs, PacketFacts DEF SendContext
    <3>3. CASE ~NewEpoch(p)
      <4>1. p.epoch = rx.epoch
        BY <2>3, <3>3, ArrivalEpochs DEF SendContext
      <4>2. rx.phase = 1 => PhaseAfter(p) = 1
        BY <3>3 DEF PhaseAfter
      <4> QED
        BY <2>1, <3>1, <4>1, <4>2
    <3> QED
      BY <3>2, <3>3
  <2> QED
    BY <2>2, <2>3
<1> QED
  BY <1>3, <1>4

\* The times in the entry that decide on the flush.
LEMMA RxAfterTimes ==
    ASSUME TInv, NEW p \in net
    PROVE  LET e == RxAfter(p)
           IN  /\ e.tailTime = IF IsTail(p) \/ p.phase = 1 THEN p.tsTail ELSE rx.tailTime
               /\ e.phase0TxTime = IF p.phase = 0 THEN p.tsTx ELSE rx.phase0TxTime
               /\ e.phase0RxTime = IF p.phase = 0 THEN now ELSE rx.phase0RxTime
               /\ p.phase = 0 => e.phase0Cache
               /\ p.phase = 1 => (e.phase0Cache <=> rx.phase0Cache /\ ~NewEpoch(p))
<1>1. rx \in RxEntry
  BY DEF TInv, TypeOK
<1>2. RxAfter(p).tailTime = IF IsTail(p) \/ p.phase = 1 THEN p.tsTail ELSE rx.tailTime
  BY <1>1 DEF RxAfter, RxEntry
<1>3. /\ RxAfter(p).phase0TxTime = IF p.phase = 0 THEN p.tsTx ELSE rx.phase0TxTime
      /\ RxAfter(p).phase0RxTime = IF p.phase = 0 THEN now ELSE rx.phase0RxTime
  BY <1>1 DEF RxAfter, RxEntry
<1>4. RxAfter(p).phase0Cache = (p.phase = 0 \/ (rx.phase0Cache /\ ~NewEpoch(p)))
  BY <1>1 DEF RxAfter, RxEntry
<1>5. p.phase = 0 => RxAfter(p).phase0Cache
  BY <1>4, Zenon
<1>6. p.phase = 1 => (RxAfter(p).phase0Cache <=> rx.phase0Cache /\ ~NewEpoch(p))
  <2>1. p.phase = 1 => ~(p.phase = 0)
    OBVIOUS
  <2> QED
    BY <1>4, <2>1, Zenon
<1> QED
  BY <1>2, <1>3, <1>5, <1>6

\* The expected time of the TAIL, by what is known of the old path.
LEMMA FlushTimeCases ==
    ASSUME TInv, NEW p \in net
    PROVE  LET f == FlushTime(p, RxAfter(p))
           IN  /\ IsTail(p) => f = now + 1
               /\ ~IsTail(p) /\ p.phase = 0
                     => f = now + Later(rx.tailTime - p.tsTx, 0) + ExtraVOQFlushTime
               /\ ~IsTail(p) /\ p.phase = 1 /\ rx.phase0Cache /\ ~NewEpoch(p)
                     => f = rx.phase0RxTime + Later(p.tsTail - rx.phase0TxTime, 0)
                              + ExtraVOQFlushTime
               /\ ~IsTail(p) /\ p.phase = 1 /\ ~(rx.phase0Cache /\ ~NewEpoch(p))
                     => f = now + DefaultVOQWaitingTime + ExtraVOQFlushTime
<1> DEFINE e == RxAfter(p)
<1>1. /\ e.tailTime = IF IsTail(p) \/ p.phase = 1 THEN p.tsTail ELSE rx.tailTime
      /\ e.phase0TxTime = IF p.phase = 0 THEN p.tsTx ELSE rx.phase0TxTime
      /\ e.phase0RxTime = IF p.phase = 0 THEN now ELSE rx.phase0RxTime
      /\ p.phase = 0 => e.phase0Cache
      /\ p.phase = 1 => (e.phase0Cache <=> rx.phase0Cache /\ ~NewEpoch(p))
  BY RxAfterTimes
<1> HIDE DEF e
<1>2. IsTail(p) => FlushTime(p, e) = now + 1
  BY DEF FlushTime
<1>3. ASSUME ~IsTail(p), p.phase = 0
      PROVE  FlushTime(p, e) = now + Later(rx.tailTime - p.tsTx, 0) + ExtraVOQFlushTime
  BY <1>1, <1>3 DEF FlushTime, TimegapAtTx
<1>4. ASSUME ~IsTail(p), p.phase = 1, rx.phase0Cache, ~NewEpoch(p)
      PROVE  FlushTime(p, e) = rx.phase0RxTime + Later(p.tsTail - rx.phase0TxTime, 0)
                                  + ExtraVOQFlushTime
  BY <1>1, <1>4 DEF FlushTime, TimegapAtTx
<1>5. ASSUME ~IsTail(p), p.phase = 1, ~(rx.phase0Cache /\ ~NewEpoch(p))
      PROVE  FlushTime(p, e) = now + DefaultVOQWaitingTime + ExtraVOQFlushTime
  BY <1>1, <1>5 DEF FlushTime, TimegapAtTx
<1> QED
  BY <1>2, <1>3, <1>4, <1>5 DEF e

\* A packet that waits in the VOQ, or moves its flush, is of the current epoch.
LEMMA WaitsInEpoch ==
    ASSUME SendContext, NEW p \in net, ~PrevEpoch(p),
           voq.exists \/ (p.phase = 1 /\ OutOfOrder(p))
    PROVE  /\ p.epoch = tx.epoch /\ tx.phase = 1 /\ PhaseAfter(p) = 0
           /\ voq.exists => ~NewEpoch(p)
<1>1. CASE voq.exists
  <2>1. rx.epoch = tx.epoch /\ rx.phase = 0 /\ tx.phase = 1 /\ rx.reordering
    BY <1>1 DEF SendContext, TimedInv, VoqInTime
  <2>2. p.epoch = tx.epoch /\ ~NewEpoch(p)
    BY <2>1, ArrivalEpochs DEF SendContext
  <2> QED
    BY <2>1, <2>2 DEF PhaseAfter
<1>2. CASE ~voq.exists
  <2>1. p.phase = 1 /\ PhaseAfter(p) < 1
    BY <1>2 DEF OutOfOrder
  <2>2. PhaseAfter(p) = 0
    BY <2>1, RxAfterTyped DEF SendContext
  <2>3. p.epoch = tx.epoch
    <3>1. CASE p.epoch < tx.epoch
      <4>1. p.epoch < rx.epoch \/ (p.epoch = rx.epoch /\ rx.phase = 1)
        BY <2>1, <3>1 DEF SendContext, TimedInv, OldPass
      <4>2. p.epoch = rx.epoch /\ rx.phase = 1 /\ ~NewEpoch(p)
        BY <4>1, ArrivalEpochs DEF SendContext
      <4> QED
        BY <2>2, <4>2 DEF PhaseAfter
    <3>2. CASE ~(p.epoch < tx.epoch)
      BY <3>2, ArrivalEpochs DEF SendContext
    <3> QED
      BY <3>1, <3>2
  <2>4. tx.phase = 1
    BY <2>1, <2>3, NotAhead, EntryFacts DEF SendContext
  <2> QED
    BY <1>2, <2>2, <2>3, <2>4
<1> QED
  BY <1>1, <1>2

\* The flush comes before the source or the receiver forgets the flow.
LEMMA FlushInTime ==
    ASSUME SendContext, NEW p \in net, ~PrevEpoch(p),
           (p.phase = 0 /\ voq.exists) \/ (p.phase = 1 /\ OutOfOrder(p) /\ ~voq.exists)
    PROVE  LET time == Later(FlushTime(p, RxAfter(p)), now)
           IN  time <= tx.activeTime + TxExpiryTime /\ time <= now + TxExpiryTime
<1> DEFINE f == FlushTime(p, RxAfter(p))
<1>1. p.epoch = tx.epoch /\ tx.phase = 1 /\ (voq.exists => ~NewEpoch(p))
  BY WaitsInEpoch
<1>2. /\ p.tsTx \in Nat /\ p.tsTail \in Nat /\ MaxDelay[p.path] \in Nat
      /\ now \in Nat /\ tx.activeTime \in Nat /\ tx.activeTime <= now
      /\ rx.phase0RxTime \in Nat /\ rx.phase0TxTime \in Nat
      /\ rx.tailTime \in Nat /\ tx.tailTime \in Nat
      /\ ExtraVOQFlushTime \in Nat /\ DefaultVOQWaitingTime \in Nat /\ TxExpiryTime \in Nat
  BY PacketFacts, EntryFacts, TimeFacts DEF SendContext
<1>3. /\ p.tsTx <= tx.activeTime /\ now <= p.tsTx + MaxDelay[p.path] /\ p.path \in Paths
      /\ tx.tailTime <= tx.activeTime
  BY <1>1, NotAhead, PacketFacts DEF SendContext, TimedInv, EntryTimes
<1>4. /\ ExtraVOQFlushTime > 0
      /\ \A r \in Paths : /\ MaxDelay[r] \in Nat
                          /\ MaxDelay[r] + DefaultVOQWaitingTime + ExtraVOQFlushTime
                                <= TxExpiryTime
  BY PathsAssumption DEF SendContext, TimersCover
<1>5. now <= tx.activeTime + TxExpiryTime /\ now <= now + TxExpiryTime
  BY <1>2, <1>3, <1>4
<1>6. f <= tx.activeTime + TxExpiryTime /\ f <= now + TxExpiryTime /\ f \in Int
  <2>1. CASE IsTail(p)
    <3>1. f = now + 1
      BY <2>1, FlushTimeCases DEF SendContext
    <3> HIDE DEF f
    <3> QED
      BY <1>2, <1>3, <1>4, <3>1
  <2>2. CASE ~IsTail(p) /\ p.phase = 0
    <3>1. f = now + Later(rx.tailTime - p.tsTx, 0) + ExtraVOQFlushTime
      BY <2>2, FlushTimeCases DEF SendContext
    <3> HIDE DEF f
    <3>2. rx.tailTime = tx.tailTime /\ p.tsTx <= tx.tailTime
      BY <1>1, <2>2 DEF SendContext, TimedInv, VoqInTime, TagTimes, Front
    <3>3. Later(rx.tailTime - p.tsTx, 0) = tx.tailTime - p.tsTx
      BY <1>2, <3>2 DEF Later
    <3> QED
      BY <1>2, <1>3, <1>4, <3>1, <3>2, <3>3
  <2>3. CASE ~IsTail(p) /\ p.phase = 1 /\ rx.phase0Cache /\ ~NewEpoch(p)
    <3>1. f = rx.phase0RxTime + Later(p.tsTail - rx.phase0TxTime, 0) + ExtraVOQFlushTime
      BY <2>3, FlushTimeCases DEF SendContext
    <3> HIDE DEF f
    <3>2. rx.epoch <= p.epoch
      BY ArrivalEpochs DEF SendContext
    <3>3. p.tsTail = tx.tailTime /\ rx.phase0TxTime <= p.tsTail
      BY <1>1, <2>3, <3>2 DEF SendContext, TimedInv, TagTimes, EntryTimes
    <3>4. PICK r \in Paths : rx.phase0RxTime <= rx.phase0TxTime + MaxDelay[r]
      BY <2>3 DEF SendContext, TimedInv, EntryTimes
    <3>5. Later(p.tsTail - rx.phase0TxTime, 0) = tx.tailTime - rx.phase0TxTime
      BY <1>2, <3>3 DEF Later
    <3>6. MaxDelay[r] \in Nat /\ MaxDelay[r] + DefaultVOQWaitingTime + ExtraVOQFlushTime
                                   <= TxExpiryTime
      BY <1>4
    <3>7. f <= tx.activeTime + TxExpiryTime /\ f \in Int
      BY <1>2, <1>3, <3>1, <3>3, <3>4, <3>5, <3>6
    <3> QED
      BY <1>2, <3>7
  <2>4. CASE ~IsTail(p) /\ p.phase = 1 /\ ~(rx.phase0Cache /\ ~NewEpoch(p))
    <3>1. f = now + DefaultVOQWaitingTime + ExtraVOQFlushTime
      BY <2>4, FlushTimeCases DEF SendContext
    <3> HIDE DEF f
    <3> QED
      BY <1>2, <1>3, <1>4, <3>1
  <2> QED
    BY <2>1, <2>2, <2>3, <2>4
<1> HIDE DEF f
<1>7. Later(f, now) \in {f, now}
  BY DEF Later
<1>8. Later(f, now) <= tx.activeTime + TxExpiryTime /\ Later(f, now) <= now + TxExpiryTime
  BY <1>5, <1>6, <1>7
<1> QED
  BY <1>8 DEF f

\* The cases of a packet that is not of an older epoch.
LEMMA RxSplit ==
    ASSUME TInv, NEW p \in net, RxReceive(p), ~PrevEpoch(p)
    PROVE  /\ rx'.epoch = p.epoch /\ rx'.phase = PhaseAfter(p)
           /\ p.phase = 0 =>
                 /\ rx'.reordering = rx.reordering /\ voq'.exists = voq.exists
                 /\ voq'.flushAt = IF rx.reordering
                                   THEN Later(FlushTime(p, RxAfter(p)), now)
                                   ELSE voq.flushAt
           /\ p.phase = 1 /\ ~OutOfOrder(p) =>
                 rx'.reordering = rx.reordering /\ UNCHANGED voq
           /\ p.phase = 1 /\ OutOfOrder(p) =>
                 /\ rx'.reordering = TRUE /\ voq'.exists = TRUE
                 /\ voq'.flushAt = IF rx.reordering THEN voq.flushAt
                                   ELSE Later(FlushTime(p, RxAfter(p)), now)
<1> DEFINE time == Later(FlushTime(p, RxAfter(p)), now)
<1>1. \/ /\ p.phase = 0
         /\ rx'.epoch = p.epoch /\ rx'.phase = PhaseAfter(p)
         /\ rx'.reordering = rx.reordering /\ voq'.exists = voq.exists
         /\ voq'.flushAt = IF rx.reordering THEN time ELSE voq.flushAt
      \/ /\ p.phase = 1 /\ ~OutOfOrder(p)
         /\ rx'.epoch = p.epoch /\ rx'.phase = PhaseAfter(p)
         /\ UNCHANGED voq /\ rx'.reordering = rx.reordering
      \/ /\ p.phase = 1 /\ OutOfOrder(p)
         /\ rx'.epoch = p.epoch /\ rx'.phase = PhaseAfter(p)
         /\ rx'.reordering = TRUE /\ voq'.exists = TRUE
         /\ voq'.flushAt = IF rx.reordering THEN voq.flushAt ELSE time
  BY RxCases, Zenon
<1>2. ~(p.phase = 0 /\ p.phase = 1)
  OBVIOUS
<1> HIDE DEF time
<1>3. /\ rx'.epoch = p.epoch /\ rx'.phase = PhaseAfter(p)
      /\ p.phase = 0 =>
            /\ rx'.reordering = rx.reordering /\ voq'.exists = voq.exists
            /\ voq'.flushAt = IF rx.reordering THEN time ELSE voq.flushAt
      /\ p.phase = 1 /\ ~OutOfOrder(p) =>
            rx'.reordering = rx.reordering /\ UNCHANGED voq
      /\ p.phase = 1 /\ OutOfOrder(p) =>
            /\ rx'.reordering = TRUE /\ voq'.exists = TRUE
            /\ voq'.flushAt = IF rx.reordering THEN voq.flushAt ELSE time
  BY <1>1, <1>2, Zenon
<1> QED
  BY <1>3 DEF time

LEMMA RxVoqInTime ==
    ASSUME SendContext, NEW p \in net, RxReceive(p) PROVE VoqInTime'
<1>1. UNCHANGED <<tx, now>> /\ rx'.activeTime = now /\ rx'.known
  BY RxCases, RxTimes DEF SendContext
<1>2. /\ rx.reordering = voq.exists
      /\ voq.exists =>
            /\ rx.phase = 0 /\ rx.epoch = tx.epoch /\ tx.phase = 1
            /\ rx.tailTime = tx.tailTime
            /\ voq.flushAt <= tx.activeTime + TxExpiryTime
            /\ voq.flushAt <= rx.activeTime + TxExpiryTime
  BY DEF SendContext, TimedInv, VoqInTime
<1>3. voq.exists => voq.flushAt <= now + TxExpiryTime
  BY <1>2, EntryFacts DEF SendContext
<1>4. CASE PrevEpoch(p)
  <2>1. /\ UNCHANGED voq /\ rx'.epoch = rx.epoch /\ rx'.phase = rx.phase
        /\ rx'.reordering = rx.reordering /\ rx'.tailTime = rx.tailTime
    BY <1>4, RxCases, RxTimes DEF SendContext
  <2> QED
    BY <1>1, <1>2, <1>3, <2>1 DEF VoqInTime
<1>5. CASE ~PrevEpoch(p) /\ p.phase = 0
  <2>1. /\ rx'.epoch = p.epoch /\ rx'.phase = PhaseAfter(p)
        /\ rx'.reordering = rx.reordering /\ voq'.exists = voq.exists
        /\ rx'.tailTime = IF IsTail(p) THEN p.tsTail ELSE rx.tailTime
    <3>1. p.phase # 1 /\ TInv
      BY <1>5 DEF SendContext
    <3>2. rx'.tailTime = IF IsTail(p) THEN p.tsTail ELSE rx.tailTime
      BY <1>5, <3>1, RxTimes
    <3> QED
      BY <1>5, <3>1, <3>2, RxSplit, Zenon
  <2>2. rx'.reordering = voq'.exists
    BY <1>2, <2>1, Zenon
  <2>3. ASSUME voq'.exists
        PROVE  /\ rx'.phase = 0 /\ rx'.epoch = tx'.epoch /\ tx'.phase = 1
               /\ rx'.tailTime = tx'.tailTime
               /\ voq'.flushAt <= tx'.activeTime + TxExpiryTime
               /\ voq'.flushAt <= rx'.activeTime + TxExpiryTime
    <3>1. voq.exists /\ rx.reordering
      BY <1>2, <2>1, <2>3, Zenon
    <3>2. p.epoch = tx.epoch /\ tx.phase = 1 /\ PhaseAfter(p) = 0
      BY <1>5, <3>1, WaitsInEpoch
    <3>3. voq'.flushAt = Later(FlushTime(p, RxAfter(p)), now)
      BY <1>5, <3>1, RxSplit DEF SendContext
    <3>4. IsTail(p) => p.tsTail = tx.tailTime
      BY <3>2 DEF SendContext, TimedInv, TagTimes, IsTail
    <3>5. /\ voq'.flushAt <= tx.activeTime + TxExpiryTime
          /\ voq'.flushAt <= now + TxExpiryTime
      BY <1>5, <3>1, <3>3, FlushInTime
    <3> QED
      BY <1>1, <1>2, <2>1, <3>1, <3>2, <3>4, <3>5
  <2> QED
    BY <1>1, <2>2, <2>3 DEF VoqInTime
<1>6. CASE ~PrevEpoch(p) /\ p.phase = 1 /\ ~OutOfOrder(p)
  <2>1. ~voq.exists
    <3>1. ASSUME voq.exists PROVE FALSE
      <4>1. PhaseAfter(p) = 0
        BY <1>6, <3>1, WaitsInEpoch
      <4> QED
        BY <1>6, <4>1 DEF OutOfOrder
    <3> QED
      BY <3>1
  <2>2. UNCHANGED voq /\ rx'.reordering = rx.reordering
    BY <1>6, RxSplit DEF SendContext
  <2>3. ~voq'.exists /\ rx'.reordering = voq'.exists
    BY <1>2, <2>1, <2>2, Zenon
  <2> QED
    BY <2>3 DEF VoqInTime
<1>7. CASE ~PrevEpoch(p) /\ p.phase = 1 /\ OutOfOrder(p)
  <2>1. /\ rx'.epoch = p.epoch /\ rx'.phase = PhaseAfter(p)
        /\ rx'.reordering = TRUE /\ voq'.exists = TRUE
        /\ rx'.tailTime = p.tsTail
        /\ voq'.flushAt = IF rx.reordering THEN voq.flushAt
                          ELSE Later(FlushTime(p, RxAfter(p)), now)
    BY <1>7, RxSplit, RxTimes DEF SendContext
  <2>2. p.epoch = tx.epoch /\ tx.phase = 1 /\ PhaseAfter(p) = 0
    BY <1>7, WaitsInEpoch
  <2>3. p.tsTail = tx.tailTime
    BY <1>7, <2>2 DEF SendContext, TimedInv, TagTimes
  <2>4. voq'.flushAt <= tx.activeTime + TxExpiryTime /\ voq'.flushAt <= now + TxExpiryTime
    <3>1. CASE rx.reordering
      BY <1>2, <1>3, <2>1, <3>1
    <3>2. CASE ~rx.reordering
      <4>1. ~voq.exists
        BY <1>2, <3>2, Zenon
      <4>2. voq'.flushAt = Later(FlushTime(p, RxAfter(p)), now)
        BY <2>1, <3>2
      <4> QED
        BY <1>7, <4>1, <4>2, FlushInTime
    <3> QED
      BY <3>1, <3>2
  <2>5. rx'.reordering = voq'.exists
    BY <2>1
  <2> QED
    BY <1>1, <2>1, <2>2, <2>3, <2>4, <2>5 DEF VoqInTime
<1> QED
  BY <1>4, <1>5, <1>6, <1>7, PacketFacts DEF SendContext

LEMMA RxTimed ==
    ASSUME SendContext, NEW p \in net, RxReceive(p) PROVE TimedInv'
<1>1. net' \subseteq net /\ tx' = tx
  BY RxCases DEF SendContext
<1>2. FrontOrdered' /\ TagTimes'
  BY <1>1, FewerPackets DEF SendContext
<1> QED
  BY <1>2, RxFrontSeen, RxEntryTimes, RxOldPass, RxVoqInTime DEF TimedInv

LEMMA VOQFlushTimed ==
    ASSUME SendContext, VOQFlush PROVE TimedInv'
<1>1. /\ UNCHANGED <<tx, net, replies, now>> /\ voq'.exists = FALSE
      /\ rx' = [rx EXCEPT !.reordering = FALSE, !.phase = 1]
  BY DEF VOQFlush, NoVOQ
<1>2. /\ rx'.reordering = FALSE /\ rx'.phase = 1 /\ rx'.epoch = rx.epoch
      /\ rx'.activeTime = rx.activeTime /\ rx'.phase0TxTime = rx.phase0TxTime
      /\ rx'.phase0RxTime = rx.phase0RxTime /\ rx'.phase0Cache = rx.phase0Cache
  BY <1>1 DEF SendContext, TInv, TypeOK, RxEntry
<1>3. FrontOrdered' /\ TagTimes' /\ (FrontGone => FrontGone')
  BY <1>1, FewerPackets DEF SendContext
<1>4. FrontSeen'
  BY <1>1, <1>3 DEF SendContext, TimedInv, FrontSeen, TxStabilized, TxExpired
<1>5. EntryTimes'
  BY <1>1, <1>2 DEF SendContext, TimedInv, EntryTimes
<1>6. VoqInTime'
  BY <1>1, <1>2 DEF VoqInTime
<1>7. OldPass'
  BY <1>1, <1>2 DEF SendContext, TimedInv, OldPass
<1> QED
  BY <1>3, <1>4, <1>5, <1>6, <1>7 DEF TimedInv

LEMMA TxReplyTimed ==
    ASSUME SendContext, NEW r \in replies, TxReply(r) PROVE TimedInv'
<1>1. /\ UNCHANGED <<net, now, rx, voq>> /\ replies' = replies \ {r}
      /\ tx' = IF ReplySettles(r)
               THEN [tx EXCEPT !.stabilized = TRUE, !.replyTimer = CwMaxTime]
               ELSE tx
  BY DEF TxReply
<1>2. /\ tx'.epoch = tx.epoch /\ tx'.phase = tx.phase /\ tx'.activeTime = tx.activeTime
      /\ tx'.pathId = tx.pathId /\ tx'.tailTime = tx.tailTime
      /\ tx'.stabilized => (tx.stabilized \/ ReplySettles(r))
  BY <1>1 DEF SendContext, TInv, TypeOK, TxEntry
<1>3. FrontOrdered' /\ TagTimes' /\ (FrontGone => FrontGone')
  BY <1>1, <1>2, FewerPackets DEF SendContext
<1>4. FrontSeen'
  <2>1. ASSUME TxStabilized', tx'.phase = 1 PROVE FrontGone
    <3>1. CASE tx.stabilized
      BY <1>1, <1>2, <2>1, <3>1 DEF SendContext, TimedInv, FrontSeen, TxStabilized, TxExpired
    <3>2. CASE ~tx.stabilized
      <4>1. r.epoch = tx.epoch /\ r.phase = 1
        BY <1>2, <2>1, <3>2 DEF TxStabilized, ReplySettles
      <4> QED
        BY <4>1 DEF SendContext, TimedInv, FrontSeen
    <3> QED
      BY <3>1, <3>2
  <2>2. \A s \in replies' : s.epoch = tx'.epoch /\ s.phase = 1 => FrontGone
    BY <1>1, <1>2 DEF SendContext, TimedInv, FrontSeen
  <2> QED
    BY <1>3, <2>1, <2>2 DEF FrontSeen
<1>5. EntryTimes'
  BY <1>1, <1>2 DEF SendContext, TimedInv, EntryTimes
<1>6. VoqInTime'
  BY <1>1, <1>2 DEF SendContext, TimedInv, VoqInTime
<1>7. OldPass'
  BY <1>1, <1>2 DEF SendContext, TimedInv, OldPass
<1> QED
  BY <1>3, <1>4, <1>5, <1>6, <1>7 DEF TimedInv

\* A source that is forgotten has nothing under way and nothing in a VOQ.
LEMMA TxAgingTimed ==
    ASSUME SendContext, TxAging PROVE TimedInv'
<1>1. UNCHANGED <<net, now, rx, voq, replies>>
  BY DEF TxAging
<1>2. CASE now - tx.activeTime > AgingTime
  <2>1. TxExpiryTime <= AgingTime
    BY EntryFacts DEF SendContext, AgingOutlastsReplies
  <2>2. TxExpired
    BY <1>2, <2>1, EntryFacts DEF SendContext, TxExpired
  <2>3. net' = {}
    BY <1>1, <2>2, ExpiredIsEmpty DEF SendContext
  <2>4. ~voq.exists
    <3>1. ASSUME voq.exists PROVE FALSE
      <4>1. now <= voq.flushAt /\ voq.flushAt <= tx.activeTime + TxExpiryTime
        BY <3>1 DEF SendContext, SettleInv, FlushAhead, TimedInv, VoqInTime
      <4> QED
        BY <1>2, <2>1, <4>1, EntryFacts DEF SendContext
    <3> QED
      BY <3>1
  <2>5. tx'.phase = 0
    BY <1>2 DEF TxAging, NewTxEntry
  <2>6. FrontOrdered' /\ FrontSeen' /\ TagTimes' /\ OldPass'
    BY <2>3, <2>5 DEF FrontOrdered, FrontSeen, FrontGone, TagTimes, OldPass
  <2>7. EntryTimes' /\ VoqInTime'
    BY <1>1, <2>3, <2>4, <2>5 DEF SendContext, TimedInv, EntryTimes, VoqInTime
  <2> QED
    BY <2>6, <2>7 DEF TimedInv
<1>3. CASE ~(now - tx.activeTime > AgingTime)
  <2>1. tx' = tx
    BY <1>3 DEF TxAging
  <2>2. FrontOrdered' /\ TagTimes' /\ (FrontGone => FrontGone')
    BY <1>1, <2>1, FewerPackets DEF SendContext
  <2> QED
    BY <1>1, <2>1, <2>2 DEF SendContext, TimedInv, FrontSeen, EntryTimes, VoqInTime, OldPass,
                            TxStabilized, TxExpired
<1> QED
  BY <1>2, <1>3

\* A receiver that is forgotten has no VOQ, and no packet of an older epoch to
\* come.
LEMMA RxAgingTimed ==
    ASSUME SendContext, RxAging PROVE TimedInv'
<1>1. UNCHANGED <<net, now, tx, voq, replies>>
  BY DEF RxAging
<1>2. FrontOrdered' /\ TagTimes' /\ (FrontGone => FrontGone')
  BY <1>1, FewerPackets DEF SendContext
<1>3. FrontSeen'
  BY <1>1, <1>2 DEF SendContext, TimedInv, FrontSeen, TxStabilized, TxExpired
<1>4. CASE now - rx.activeTime > AgingTime
  <2>1. rx' = NewRxEntry
    BY <1>4 DEF RxAging
  <2>2. TxExpiryTime <= AgingTime
    BY EntryFacts DEF SendContext, AgingOutlastsReplies
  <2>3. ~voq.exists
    <3>1. ASSUME voq.exists PROVE FALSE
      <4>1. now <= voq.flushAt /\ voq.flushAt <= rx.activeTime + TxExpiryTime
        BY <3>1 DEF SendContext, SettleInv, FlushAhead, TimedInv, VoqInTime
      <4> QED
        BY <1>4, <2>2, <4>1, EntryFacts DEF SendContext
    <3> QED
      BY <3>1
  <2>4. VoqInTime'
    <3>1. voq.exists = FALSE
      BY <2>3, EntryFacts DEF SendContext
    <3> QED
      BY <1>1, <2>1, <3>1 DEF NewRxEntry, VoqInTime
  <2>5. EntryTimes'
    <3>1. rx'.phase0TxTime = 0 /\ ~rx'.phase0Cache
      BY <2>1 DEF NewRxEntry
    <3>2. tx.tailTime <= tx.activeTime \/ tx.phase # 1
      BY DEF SendContext, TimedInv, EntryTimes
    <3>3. 0 <= tx.tailTime /\ \A p \in net : 0 <= p.tsTail
      BY PacketFacts, TimeFacts DEF SendContext
    <3> QED
      BY <1>1, <3>1, <3>2, <3>3 DEF EntryTimes
  <2>6. ASSUME NEW p \in net, p.epoch < tx.epoch PROVE FALSE
    <3>1. p.tsTx <= rx.activeTime + MaxCtlDelay /\ now <= p.tsTx + MaxDelay[p.path]
      BY <2>6, NotAhead DEF SendContext, TimedInv, OldPass
    <3>2. MaxDelay[p.path] + MaxCtlDelay <= AgingTime
      BY PacketFacts DEF SendContext, AgingOutlastsReplies
    <3> QED
      BY <1>4, <3>1, <3>2, PacketFacts, EntryFacts DEF SendContext
  <2>7. OldPass'
    BY <1>1, <2>6 DEF OldPass
  <2> QED
    BY <1>2, <1>3, <2>4, <2>5, <2>7 DEF TimedInv
<1>5. CASE ~(now - rx.activeTime > AgingTime)
  <2>1. rx' = rx
    BY <1>5 DEF RxAging
  <2> QED
    BY <1>1, <1>2, <1>3, <2>1 DEF SendContext, TimedInv, EntryTimes, VoqInTime, OldPass
<1> QED
  BY <1>4, <1>5

\* Steps that leave the two entries, the VOQ and the replies alone.
LEMMA OthersTimed ==
    ASSUME SendContext, UNCHANGED <<tx, rx, voq, replies>>, net' \subseteq net,
           now \in Nat, now' \in Nat, now <= now'
    PROVE  TimedInv'
<1>1. FrontOrdered' /\ TagTimes' /\ (FrontGone => FrontGone')
  BY FewerPackets DEF SendContext
<1>2. TxStabilized' => TxStabilized
  BY EntryFacts DEF SendContext, TxStabilized, TxExpired
<1>3. FrontSeen'
  BY <1>1, <1>2 DEF SendContext, TimedInv, FrontSeen
<1> QED
  BY <1>1, <1>3 DEF SendContext, TimedInv, EntryTimes, VoqInTime, OldPass

LEMMA StepTimed ==
    ASSUME SendContext, [Next]_vars PROVE TimedInv'
<1>1. now \in Nat
  BY EntryFacts DEF SendContext
<1>2. (\E p \in net : Drop(p)) \/ (\E n \in notifies : TxNotify(n)) \/ UNCHANGED vars
         => UNCHANGED <<now, tx, rx, voq, replies>> /\ net' \subseteq net
  BY DEF Drop, Consume, TxNotify, vars
<1>3. (\E p \in net : Drop(p)) \/ (\E n \in notifies : TxNotify(n)) \/ UNCHANGED vars
         => TimedInv'
  BY <1>1, <1>2, OthersTimed
<1>4. Tick => /\ UNCHANGED <<tx, rx, voq, replies, net>>
              /\ now' = now + 1
  BY DEF Tick
<1>5. Tick => TimedInv'
  BY <1>1, <1>4, OthersTimed
<1> QED
  BY <1>3, <1>5, TxDataTimed, RxTimed, VOQFlushTimed, TxReplyTimed, TxAgingTimed, RxAgingTimed
     DEF Next, Events

-----------------------------------------------------------------------------
(***************************************************************************)
(* The assertions.                                                         *)
(***************************************************************************)

LEMMA AssertionsFollow ==
    ASSUME SendContext, TxAssertions PROVE AssertionsHold
<1>1. rx.reordering = voq.exists
  BY DEF SendContext, TimedInv, VoqInTime
<1>2. ASSUME NEW p \in net, ~PrevEpoch(p) PROVE RxAssertions(p)
  <2>1. NewEpoch(p) => rx.reordering = voq.exists
    BY <1>1
  <2>2. rx.reordering => voq.exists
    BY <1>1, Zenon
  <2>3. ASSUME p.phase = 1, ~OutOfOrder(p) PROVE ~rx.reordering /\ ~voq.exists
    <3>1. ASSUME voq.exists PROVE FALSE
      <4>1. PhaseAfter(p) = 0
        BY <1>2, <3>1, WaitsInEpoch
      <4> QED
        BY <2>3, <4>1 DEF OutOfOrder
    <3> QED
      BY <1>1, <3>1, Zenon
  <2> QED
    BY <2>1, <2>2, <2>3 DEF RxAssertions
<1>3. TailAfterPhase0
  <2> SUFFICES ASSUME NEW p \in net, ~PrevEpoch(p), p.phase = 1 \/ IsTail(p)
               PROVE  RxAfter(p).phase0TxTime <= RxAfter(p).tailTime
    BY DEF TailAfterPhase0
  <2>1. /\ RxAfter(p).tailTime = p.tsTail
        /\ RxAfter(p).phase0TxTime = IF p.phase = 0 THEN p.tsTx ELSE rx.phase0TxTime
    BY RxAfterTimes DEF SendContext
  <2>2. CASE p.phase = 0
    <3>1. p.tsTail = p.tsTx /\ p.tsTx \in Nat
      BY <2>2, PacketFacts DEF SendContext, TimedInv, TagTimes, IsTail
    <3> QED
      BY <2>1, <2>2, <3>1
  <2>3. CASE p.phase = 1
    <3>1. rx.epoch <= p.epoch
      BY ArrivalEpochs DEF SendContext
    <3> QED
      BY <2>1, <2>3, <3>1 DEF SendContext, TimedInv, EntryTimes
  <2> QED
    BY <2>2, <2>3, PacketFacts DEF SendContext
<1>4. FlushAssertions
  <2>1. voq.exists => rx.known
    BY DEF SendContext, TimedInv, VoqInTime
  <2>2. voq.exists => rx.reordering
    BY <1>1, Zenon
  <2> QED
    BY <2>1, <2>2 DEF FlushAssertions
<1> QED
  BY <1>2, <1>3, <1>4 DEF AssertionsHold

\* The invariant TimedInv with all that it rests on, for timers that cover the
\* fabric's delays.
LEMMA TimedInvariant ==
    ASSUME AgingOutlastsReplies, TimersCover
    PROVE  Spec => [](TInv /\ SettleInv /\ TimedInv)
<1>1. Init => PathInv /\ SettleRest /\ TimedInv
  <2> SUFFICES ASSUME Init PROVE PathInv /\ SettleRest /\ TimedInv
    OBVIOUS
  <2>1. /\ net = {} /\ replies = {} /\ rx.reordering = FALSE /\ voq.exists = FALSE
        /\ tx.phase = 0 /\ rx.phase0Cache = FALSE
    BY DEF Init, NewTxEntry, NewRxEntry, NoVOQ
  <2>2. ~TxStabilized
    BY InitTInv, NotExpiredKnown DEF Init, NewTxEntry, TxStabilized
  <2>3. PathInv /\ SettleRest
    BY <2>1, <2>2 DEF PathInv, OnePathPerPhase, SettleRest, TailIsLast, FlushAhead,
                      RepliesTrue, Settled
  <2>4. FrontOrdered /\ FrontSeen /\ TagTimes /\ OldPass
    <3>1. FrontOrdered
      <4>1. tx.phase = 0 => \A p \in net : p.path = tx.pathId
        BY <2>1
      <4> QED
        BY <2>1, <4>1 DEF FrontOrdered
    <3> QED
      BY <2>1, <3>1 DEF FrontSeen, FrontGone, TagTimes, OldPass
  <2>5. EntryTimes /\ VoqInTime
    <3>1. ~rx.phase0Cache /\ ~voq.exists /\ rx.reordering = voq.exists
      BY <2>1, Zenon
    <3>2. tx.phase # 1 /\ net = {}
      BY <2>1
    <3>3. EntryTimes
      BY <3>1, <3>2 DEF EntryTimes
    <3> QED
      BY <3>1, <3>3, Zenon DEF VoqInTime
  <2> QED
    BY <2>3, <2>4, <2>5 DEF TimedInv
<1>2. TInv /\ PathInv /\ [Next]_vars => PathInv'
  BY AgingBounds, StepPath
<1>3. TInv /\ EachPacketOnce /\ PathInv /\ SettleRest /\ [Next]_vars => SettleRest'
  BY StepSettle DEF SettleInv, SettleRest
<1>4. TInv /\ EachPacketOnce /\ PathInv /\ SettleRest /\ TimedInv /\ [Next]_vars => TimedInv'
  BY StepTimed DEF SendContext, SettleInv, SettleRest
<1>5. EachPacketOnce /\ PathInv /\ SettleRest => SettleInv
  BY DEF SettleInv, SettleRest
<1> QED
  BY <1>1, <1>2, <1>3, <1>4, <1>5, InitTInv, NextTInv, PacketsConserved, PTL DEF Spec

\* No assert() of conweave-routing.cc fails and its fatal exit is not taken,
\* whatever the fabric loses or delays, provided an idle flow expires at the
\* source only after its packets and its VOQ are gone, and is forgotten later
\* still.
THEOREM AssertionsAreSafe ==
    ASSUME AgingOutlastsReplies, TimersCover PROVE Spec => []AssertionsHold
<1>1. TInv /\ SettleInv /\ TimedInv /\ TxAssertions => AssertionsHold
  BY AssertionsFollow DEF SendContext
<1> QED
  BY <1>1, TimedInvariant, SourceAssertionsHold, PTL

-----------------------------------------------------------------------------
(***************************************************************************)
(* The order the host sees.                                                *)
(***************************************************************************)

\* The VOQ waits for the slowest TAIL: the last phase-0 packet is at most as
\* much faster than the TAIL as the slack of the prediction.
JitterCovered ==
    /\ \A r \in Paths : MaxDelay[r] < MinDelay[r] + ExtraVOQFlushTime
    /\ \A r, s \in Paths :
          MaxDelay[r] < MinDelay[s] + DefaultVOQWaitingTime + ExtraVOQFlushTime

\* A step in which the source does not forget the flow.
Remembers == tx.known => tx'.known

\* The receiver does not know more epochs than the source.
EpochsKnown ==
    /\ tx.known => rx.epoch <= tx.epoch
    /\ ~tx.known => /\ net = {} /\ rx.epoch = 1 /\ rx.phase = 0
                    /\ ~rx.phase0Cache /\ delivered = <<>>

\* A flush waits for the packets before the TAIL, and the timestamps that
\* predict it are those of the current epoch.
FlushWaits ==
    /\ voq.exists => \A p \in net : Front(p) => p.tsTx + MaxDelay[p.path] < voq.flushAt
    /\ rx.epoch = tx.epoch /\ rx.phase0Cache =>
          /\ tx.phase = 0 => rx.phase0TxTime + MinDelay[tx.pathId] <= rx.phase0RxTime
          /\ \A p \in net : Front(p) => rx.phase0TxTime + MinDelay[p.path] <= rx.phase0RxTime
    /\ rx.epoch = tx.epoch /\ rx.phase = 1 => tx.phase = 1 /\ FrontGone

Rising(s) == \A i, j \in DOMAIN s : i < j => s[i] < s[j]

\* The host's packets come before those of the VOQ and of the fabric; those of
\* the VOQ come between the fabric's old and its new ones.
IdsInOrder ==
    /\ Rising(delivered) /\ Rising(voq.fifo)
    /\ \A x \in Range(delivered) : /\ \A y \in Range(voq.fifo) : x < y
                                   /\ \A p \in net : x < p.id
    /\ \A y \in Range(voq.fifo) : \A p \in net : IF Front(p) THEN p.id < y ELSE y < p.id
    /\ ~voq.exists => voq.fifo = <<>>

OrderInv == EpochsKnown /\ FlushWaits /\ IdsInOrder

OrderContext == SendContext /\ JitterCovered /\ OrderInv

\* Growing a rising sequence at its end.
LEMMA RisingAppend ==
    ASSUME NEW s \in Seq(Nat), NEW e \in Nat, Rising(s), \A x \in Range(s) : x < e
    PROVE  Rising(Append(s, e)) /\ Range(Append(s, e)) = Range(s) \cup {e}
<1>1. /\ Len(s) \in Nat /\ DOMAIN s = 1..Len(s)
      /\ DOMAIN Append(s, e) = 1..(Len(s) + 1)
      /\ \A i \in 1..Len(s) : Append(s, e)[i] = s[i]
      /\ Append(s, e)[Len(s) + 1] = e
  OBVIOUS
<1>2. ASSUME NEW i \in DOMAIN Append(s, e), NEW j \in DOMAIN Append(s, e), i < j
      PROVE  Append(s, e)[i] < Append(s, e)[j]
  <2>1. i \in 1..Len(s) /\ Append(s, e)[i] = s[i] /\ s[i] \in Range(s)
    BY <1>1, <1>2 DEF Range
  <2>2. CASE j \in 1..Len(s)
    BY <1>1, <1>2, <2>1, <2>2 DEF Rising
  <2>3. CASE j = Len(s) + 1
    BY <1>1, <2>1, <2>3
  <2> QED
    BY <1>1, <2>2, <2>3
<1> QED
  BY <1>2, RangeOfAppend DEF Rising

LEMMA RisingConcat ==
    ASSUME NEW s \in Seq(Nat), NEW t \in Seq(Nat), Rising(s), Rising(t),
           \A x \in Range(s) : \A y \in Range(t) : x < y
    PROVE  Rising(s \o t) /\ Range(s \o t) = Range(s) \cup Range(t)
<1> DEFINE m == Len(s)
           n == Len(t)
           u == s \o t
<1>1. /\ m \in Nat /\ n \in Nat /\ DOMAIN s = 1..m /\ DOMAIN t = 1..n
      /\ DOMAIN u = 1..(m + n)
      /\ \A i \in 1..(m + n) : u[i] = IF i <= m THEN s[i] ELSE t[i - m]
  BY ConcatProperties, LenProperties
<1>2. \A i \in DOMAIN u : IF i <= m THEN i \in 1..m /\ u[i] = s[i]
                          ELSE i - m \in 1..n /\ u[i] = t[i - m]
  BY <1>1
<1> HIDE DEF m, n, u
<1>3. ASSUME NEW i \in DOMAIN u, NEW j \in DOMAIN u, i < j PROVE u[i] < u[j]
  <2>1. CASE j <= m
    <3>1. i \in 1..m /\ j \in 1..m /\ u[i] = s[i] /\ u[j] = s[j]
      BY <1>1, <1>2, <1>3, <2>1
    <3> QED
      BY <1>1, <1>3, <3>1 DEF Rising
  <2>2. CASE ~(i <= m)
    <3>1. ~(j <= m) /\ i - m < j - m
      BY <1>1, <1>3, <2>2
    <3>2. i - m \in 1..n /\ j - m \in 1..n /\ u[i] = t[i - m] /\ u[j] = t[j - m]
      BY <1>2, <2>2, <3>1
    <3> QED
      BY <1>1, <3>1, <3>2 DEF Rising
  <2>3. CASE i <= m /\ ~(j <= m)
    <3>1. i \in 1..m /\ j - m \in 1..n /\ u[i] = s[i] /\ u[j] = t[j - m]
      BY <1>2, <2>3
    <3> QED
      BY <1>1, <3>1 DEF Range
  <2> QED
    BY <2>1, <2>2, <2>3
<1>4. Range(u) = Range(s) \cup Range(t)
  BY RangeConcatenation, Zenon DEF u
<1> QED
  BY <1>3, <1>4 DEF Rising, u

\* The numbers with the host and in the VOQ.
LEMMA SequenceFacts ==
    ASSUME TInv
    PROVE  /\ delivered \in Seq(Nat) /\ voq.fifo \in Seq(Nat) /\ nsent \in Nat
           /\ \A x \in Range(delivered) : x \in Nat /\ 1 <= x /\ x <= nsent
           /\ \A y \in Range(voq.fifo) : y \in Nat /\ 1 <= y /\ y <= nsent
<1>1. delivered \in Seq(1..nsent) /\ voq.fifo \in Seq(1..nsent) /\ nsent \in Nat
  BY DEF TInv, TypeOK
<1>2. 1..nsent \subseteq Nat
  BY <1>1
<1>3. delivered \in Seq(Nat) /\ voq.fifo \in Seq(Nat)
  BY <1>1, <1>2, SeqMonotonic
<1>4. Range(delivered) \subseteq 1..nsent /\ Range(voq.fifo) \subseteq 1..nsent
  BY <1>1 DEF Range
<1> QED
  BY <1>1, <1>3, <1>4

\* Of what is under way, the packet that arrives comes first: all of Front if it
\* is of it, everything once Front is gone.
LEMMA FrontArrivesFirst ==
    ASSUME SendContext, NEW p \in net, Arrives(p), Front(p) \/ FrontGone,
           NEW q \in net, q # p
    PROVE  p.id < q.id
<1>1. p.id # q.id /\ p.id \in Nat /\ q.id \in Nat
  BY PacketFacts DEF SendContext, SettleInv, EachPacketOnce
<1>2. CASE Front(p) /\ ~Front(q)
  BY <1>2 DEF SendContext, TimedInv, FrontOrdered
<1>3. CASE Front(p) /\ Front(q)
  <2>1. q.path = p.path
    BY <1>3 DEF SendContext, TimedInv, FrontOrdered
  <2> QED
    BY <1>1, <2>1 DEF Arrives
<1>4. CASE FrontGone
  <2>1. ~Front(p) /\ ~Front(q)
    BY <1>4 DEF FrontGone
  <2>2. p.epoch = tx.epoch /\ q.epoch = tx.epoch /\ p.phase = 1 /\ q.phase = 1
    BY <2>1, NotAhead, PacketFacts, EntryFacts DEF SendContext, Front
  <2>3. q.path = p.path
    BY <2>2 DEF SendContext, SettleInv, PathInv, OnePathPerPhase
  <2> QED
    BY <1>1, <2>3 DEF Arrives
<1> QED
  BY <1>2, <1>3, <1>4

\* Two packets of the current phase 1 arrive in order.
LEMMA PhaseArrivesInOrder ==
    ASSUME SendContext, NEW p \in net, Arrives(p), ~Front(p),
           NEW q \in net, q # p, ~Front(q)
    PROVE  p.id < q.id
<1>1. p.id # q.id /\ p.id \in Nat /\ q.id \in Nat
  BY PacketFacts DEF SendContext, SettleInv, EachPacketOnce
<1>2. \A x \in net : ~Front(x) => x.epoch = tx.epoch /\ x.phase = 1
  <2> SUFFICES ASSUME NEW x \in net, ~Front(x) PROVE x.epoch = tx.epoch /\ x.phase = 1
    OBVIOUS
  <2>1. /\ x.epoch \in Nat /\ tx.epoch \in Nat /\ x.epoch <= tx.epoch /\ x.phase \in {0, 1}
    BY NotAhead, PacketFacts, EntryFacts DEF SendContext
  <2> QED
    BY <2>1 DEF Front
<1>3. q.path = p.path
  BY <1>2 DEF SendContext, SettleInv, PathInv, OnePathPerPhase
<1> QED
  BY <1>1, <1>3 DEF Arrives

\* A flow that has not been seen has nothing to send on with.
LEMMA UnknownIsNew ==
    ASSUME TInv, ~tx.known
    PROVE  tx.stabilized = TRUE /\ tx.phase = 0 /\ tx.epoch = 0
  BY DEF TInv, TxWellFormed, NewTxEntry

LEMMA SendEpochsKnown ==
    ASSUME OrderContext, NEW k, Enters(k), OpensEpoch(k) \/ EndsPhase0(k) \/ StaysInPhase(k)
    PROVE  EpochsKnown'
<1>1. tx'.known = TRUE /\ rx' = rx /\ tx'.epoch = k.epoch
  BY DEF Enters
<1>2. tx.epoch \in Nat /\ rx.epoch \in Nat
  BY EntryFacts DEF OrderContext, SendContext
<1>3. rx.epoch <= k.epoch
  <2>1. CASE tx.known
    <3>1. rx.epoch <= tx.epoch
      BY <2>1 DEF OrderContext, OrderInv, EpochsKnown
    <3> QED
      BY <1>2, <3>1 DEF OpensEpoch, EndsPhase0, StaysInPhase
  <2>2. CASE ~tx.known
    <3>1. rx.epoch = 1 /\ tx.epoch = 0 /\ tx.stabilized
      BY <2>2, UnknownIsNew DEF OrderContext, SendContext, OrderInv, EpochsKnown
    <3> QED
      BY <3>1 DEF OpensEpoch, EndsPhase0, StaysInPhase
  <2> QED
    BY <2>1, <2>2
<1> QED
  BY <1>1, <1>3 DEF EpochsKnown

LEMMA SendFlushWaits ==
    ASSUME OrderContext, NEW k, Enters(k), OpensEpoch(k) \/ EndsPhase0(k) \/ StaysInPhase(k)
    PROVE  FlushWaits'
<1>1. net' = net \cup {k} /\ UNCHANGED <<rx, voq>> /\ tx'.epoch = k.epoch
  BY DEF Enters
<1>2. tx.epoch \in Nat /\ rx.epoch \in Nat /\ tx.phase \in {0, 1}
  BY EntryFacts DEF OrderContext, SendContext
<1>3. voq.exists => tx'.phase = 1 /\ tx.phase = 1
  <2>1. VoqInTime'
    BY SendVoqInTime DEF OrderContext
  <2> QED
    BY <1>1, <2>1 DEF VoqInTime, OrderContext, SendContext, TimedInv
<1>4. CASE OpensEpoch(k)
  <2>1. ~voq.exists
    BY <1>3, <1>4 DEF OpensEpoch
  <2>2. rx.epoch = tx.epoch + 1 => rx.phase # 1 /\ ~rx.phase0Cache
    <3>1. ASSUME rx.epoch = tx.epoch + 1 PROVE ~tx.known
      <4>1. ~(rx.epoch <= tx.epoch)
        BY <1>2, <3>1
      <4> QED
        BY <4>1 DEF OrderContext, OrderInv, EpochsKnown
    <3> QED
      BY <3>1 DEF OrderContext, OrderInv, EpochsKnown
  <2>3. tx'.epoch = tx.epoch + 1
    BY <1>1, <1>4 DEF OpensEpoch
  <2> QED
    BY <1>1, <2>1, <2>2, <2>3 DEF FlushWaits
<1>5. CASE EndsPhase0(k)
  <2>1. ~voq.exists
    BY <1>3, <1>5 DEF EndsPhase0
  <2>2. /\ tx'.epoch = tx.epoch /\ tx'.phase = 1 /\ tx.phase = 0
        /\ k.path = tx.pathId
    BY <1>1, <1>5 DEF EndsPhase0
  <2>3. \A p \in net' : p.path = tx.pathId
    BY <1>1, <2>2 DEF OrderContext, SendContext, TimedInv, FrontOrdered
  <2>4. ~(rx.epoch = tx.epoch /\ rx.phase = 1)
    BY <2>2 DEF OrderContext, OrderInv, FlushWaits
  <2>5. rx.epoch = tx.epoch /\ rx.phase0Cache =>
           rx.phase0TxTime + MinDelay[tx.pathId] <= rx.phase0RxTime
    BY <2>2 DEF OrderContext, OrderInv, FlushWaits
  <2> QED
    BY <1>1, <2>1, <2>2, <2>3, <2>4, <2>5 DEF FlushWaits
<1>6. CASE StaysInPhase(k)
  <2>1. /\ tx'.epoch = tx.epoch /\ tx'.phase = tx.phase /\ k.path = tx.pathId
        /\ tx'.pathId = tx.pathId
    BY <1>1, <1>6 DEF StaysInPhase
  <2>2. /\ \A p \in net : Front(p)' <=> Front(p)
        /\ Front(k)' <=> tx.phase = 0
    BY <1>6, FrontAfterSend DEF OrderContext
  <2>3. ASSUME voq.exists, NEW p \in net', Front(p)'
        PROVE  p.tsTx + MaxDelay[p.path] < voq.flushAt
    <3>1. p \in net /\ Front(p)
      BY <1>1, <1>3, <2>2, <2>3
    <3> QED
      BY <2>3, <3>1 DEF OrderContext, OrderInv, FlushWaits
  <2>4. ASSUME rx.epoch = tx.epoch, rx.phase0Cache
        PROVE  /\ tx.phase = 0 => rx.phase0TxTime + MinDelay[tx.pathId] <= rx.phase0RxTime
               /\ \A p \in net' : Front(p)' =>
                     rx.phase0TxTime + MinDelay[p.path] <= rx.phase0RxTime
    BY <1>1, <2>1, <2>2, <2>4 DEF OrderContext, OrderInv, FlushWaits
  <2>5. ASSUME rx.epoch = tx.epoch, rx.phase = 1 PROVE tx.phase = 1 /\ FrontGone'
    <3>1. tx.phase = 1 /\ FrontGone
      BY <2>5 DEF OrderContext, OrderInv, FlushWaits
    <3> QED
      BY <1>1, <2>2, <3>1 DEF FrontGone
  <2> QED
    BY <1>1, <2>1, <2>3, <2>4, <2>5 DEF FlushWaits
<1> QED
  BY <1>4, <1>5, <1>6

LEMMA SendIdsInOrder ==
    ASSUME OrderContext, NEW k, Enters(k), OpensEpoch(k) \/ EndsPhase0(k) \/ StaysInPhase(k)
    PROVE  IdsInOrder'
<1>1. net' = net \cup {k} /\ k.id = nsent + 1 /\ UNCHANGED <<voq, delivered>>
  BY DEF Enters
<1>2. /\ nsent \in Nat
      /\ \A x \in Range(delivered) : x \in Nat /\ x <= nsent
      /\ \A y \in Range(voq.fifo) : y \in Nat /\ y <= nsent
  BY SequenceFacts DEF OrderContext, SendContext
<1>3. ASSUME NEW y \in Range(voq.fifo), NEW p \in net'
      PROVE  IF Front(p)' THEN p.id < y ELSE y < p.id
  <2>1. voq.exists
    <3>1. ASSUME ~voq.exists PROVE FALSE
      <4>1. voq.fifo = <<>>
        BY <3>1 DEF OrderContext, OrderInv, IdsInOrder
      <4> QED
        BY <4>1 DEF Range
    <3> QED
      BY <3>1
  <2>2. tx.phase = 1 /\ tx'.phase = 1
    <3>1. VoqInTime'
      BY SendVoqInTime DEF OrderContext
    <3> QED
      BY <1>1, <2>1, <3>1 DEF VoqInTime, OrderContext, SendContext, TimedInv
  <2>3. StaysInPhase(k)
    BY <2>2 DEF OpensEpoch, EndsPhase0
  <2>4. /\ \A q \in net : Front(q)' <=> Front(q)
        /\ ~Front(k)'
    BY <2>2, <2>3, FrontAfterSend DEF OrderContext
  <2>5. CASE p = k
    BY <1>1, <1>2, <2>4, <2>5
  <2>6. CASE p \in net
    BY <2>4, <2>6 DEF OrderContext, OrderInv, IdsInOrder
  <2> QED
    BY <1>1, <2>5, <2>6
<1>4. ASSUME NEW x \in Range(delivered), NEW p \in net' PROVE x < p.id
  <2>1. CASE p = k
    BY <1>1, <1>2, <2>1
  <2>2. CASE p \in net
    BY <2>2 DEF OrderContext, OrderInv, IdsInOrder
  <2> QED
    BY <1>1, <2>1, <2>2
<1> QED
  BY <1>1, <1>3, <1>4 DEF OrderContext, OrderInv, IdsInOrder


\* A packet that arrives goes to the host, or to the end of the VOQ.
LEMMA RxQueues ==
    ASSUME TInv, NEW p \in net, RxReceive(p)
    PROVE  /\ PrevEpoch(p) \/ p.phase = 0 \/ ~OutOfOrder(p) =>
                 /\ delivered' = Append(delivered, p.id)
                 /\ voq'.fifo = voq.fifo /\ voq'.exists = voq.exists
           /\ ~PrevEpoch(p) /\ p.phase = 1 /\ OutOfOrder(p) =>
                 /\ delivered' = delivered
                 /\ voq'.fifo = Append(voq.fifo, p.id) /\ voq'.exists = TRUE
           /\ nsent' = nsent
<1>1. voq \in [exists : BOOLEAN, fifo : Seq(1..nsent), flushAt : Nat]
  BY DEF TInv, TypeOK
<1>2. RxPrevEpoch(p) => /\ PrevEpoch(p) /\ delivered' = Append(delivered, p.id)
                        /\ voq' = voq /\ nsent' = nsent
  BY DEF RxPrevEpoch, ToHost, RxRest
<1>3. ASSUME NEW ecn \in EcnMarks, RxPhase0(p, ecn)
      PROVE  /\ p.phase = 0 /\ delivered' = Append(delivered, p.id) /\ nsent' = nsent
             /\ voq'.fifo = voq.fifo /\ voq'.exists = voq.exists
  BY <1>1, <1>3 DEF RxPhase0, ToHost, RxRest
<1>4. ASSUME NEW ecn \in EcnMarks, RxPhase1InOrder(p, ecn)
      PROVE  /\ ~OutOfOrder(p) /\ delivered' = Append(delivered, p.id) /\ nsent' = nsent
             /\ voq' = voq
  BY <1>4 DEF RxPhase1InOrder, ToHost, RxRest
<1>5. ASSUME NEW ecn \in EcnMarks, RxPhase1OutOfOrder(p, ecn)
      PROVE  /\ ~PrevEpoch(p) /\ p.phase = 1 /\ OutOfOrder(p) /\ nsent' = nsent
             /\ delivered' = delivered
             /\ voq'.fifo = Append(voq.fifo, p.id) /\ voq'.exists = TRUE
  BY <1>5 DEF RxPhase1OutOfOrder, RxRest
<1>6. CASE RxPrevEpoch(p)
  BY <1>2, <1>6
<1>7. CASE ~RxPrevEpoch(p)
  <2>1. PICK ecn \in EcnMarks : RxPhase0(p, ecn) \/ RxPhase1InOrder(p, ecn)
                                \/ RxPhase1OutOfOrder(p, ecn)
    BY <1>7 DEF RxReceive
  <2>2. CASE RxPhase0(p, ecn)
    BY <1>3, <2>2
  <2>3. CASE RxPhase1InOrder(p, ecn)
    BY <1>4, <2>3
  <2>4. CASE RxPhase1OutOfOrder(p, ecn)
    <3>1. /\ ~PrevEpoch(p) /\ p.phase = 1 /\ OutOfOrder(p) /\ nsent' = nsent
          /\ delivered' = delivered
          /\ voq'.fifo = Append(voq.fifo, p.id) /\ voq'.exists = TRUE
      BY <1>5, <2>4
    <3>2. p.phase # 0
      BY <3>1
    <3> QED
      BY <3>1, <3>2, Zenon
  <2> QED
    BY <2>1, <2>2, <2>3, <2>4
<1> QED
  BY <1>6, <1>7

LEMMA RxEpochsKnown ==
    ASSUME OrderContext, NEW p \in net, RxReceive(p) PROVE EpochsKnown'
<1>1. tx' = tx
  BY RxCases DEF OrderContext, SendContext
<1>0. tx.known = TRUE
  BY TimeFacts DEF OrderContext, SendContext, OrderInv, EpochsKnown
<1>2. CASE PrevEpoch(p)
  <2>1. rx'.epoch = rx.epoch
    BY <1>2, RxCases DEF OrderContext, SendContext
  <2> QED
    BY <1>0, <1>1, <2>1 DEF OrderContext, OrderInv, EpochsKnown
<1>3. CASE ~PrevEpoch(p)
  <2>1. rx'.epoch = p.epoch /\ p.epoch <= tx.epoch
    BY <1>3, RxSplit, ArrivalEpochs DEF OrderContext, SendContext
  <2> QED
    BY <1>0, <1>1, <2>1 DEF EpochsKnown
<1> QED
  BY <1>2, <1>3

\* What has arrived since the TAIL was sent leaves no older packet behind.
LEMMA TailClearsFront ==
    ASSUME SendContext, NEW p \in net, Arrives(p), IsTail(p), p.epoch = tx.epoch,
           NEW q \in net, q # p
    PROVE  ~Front(q)
<1> SUFFICES ASSUME Front(q) PROVE FALSE
  OBVIOUS
<1>1. p.phase = 0 /\ p.flag = "TAIL" /\ Front(p)
  BY NotAhead DEF SendContext, IsTail, Front
<1>2. q.id <= p.id /\ q.path = p.path
  BY <1>1 DEF SendContext, TimedInv, FrontOrdered
<1>3. p.id <= q.id
  BY <1>2 DEF Arrives
<1>4. p.id # q.id /\ p.id \in Nat /\ q.id \in Nat
  BY PacketFacts DEF SendContext, SettleInv, EachPacketOnce
<1> QED
  BY <1>2, <1>3, <1>4

\* A packet of phase 1 that is let through has nothing older behind it.
LEMMA PassedIsFront ==
    ASSUME OrderContext, NEW p \in net, RxReceive(p),
           PrevEpoch(p) \/ p.phase = 0 \/ ~OutOfOrder(p)
    PROVE  /\ Front(p) \/ FrontGone
           /\ voq.exists => Front(p)
<1>1. tx.known
  BY DEF OrderContext, OrderInv, EpochsKnown
<1>2. rx.epoch <= tx.epoch
  BY <1>1 DEF OrderContext, OrderInv, EpochsKnown
<1>3. CASE PrevEpoch(p)
  <2>1. p.epoch < tx.epoch
    BY <1>2, <1>3, ArrivalEpochs DEF OrderContext, SendContext
  <2> QED
    BY <2>1 DEF Front
<1>4. CASE p.phase = 0
  BY <1>4 DEF Front
<1>5. CASE ~PrevEpoch(p) /\ p.phase = 1 /\ ~OutOfOrder(p)
  <2>1. PhaseAfter(p) \in {0, 1} /\ PhaseAfter(p) # 0
    BY <1>5, EntryFacts DEF OrderContext, SendContext, OutOfOrder, PhaseAfter
  <2>2. ~voq.exists
    BY <1>5, <2>1, WaitsInEpoch DEF OrderContext
  <2>3. ~IsTail(p)
    BY <1>5, NotAhead DEF OrderContext, SendContext, IsTail
  <2>4. ~NewEpoch(p) /\ rx.phase = 1
    BY <2>1, <2>3, EntryFacts DEF OrderContext, SendContext, PhaseAfter
  <2>5. rx.epoch = p.epoch /\ p.epoch <= tx.epoch /\ p.epoch \in Nat /\ tx.epoch \in Nat
    BY <1>5, <2>4, ArrivalEpochs DEF OrderContext, SendContext
  <2>6. CASE p.epoch = tx.epoch
    BY <2>2, <2>4, <2>5, <2>6 DEF OrderContext, OrderInv, FlushWaits
  <2>7. CASE p.epoch < tx.epoch
    BY <2>2, <2>7 DEF Front
  <2> QED
    BY <2>5, <2>6, <2>7
<1> QED
  BY <1>3, <1>4, <1>5, PacketFacts DEF OrderContext, SendContext

LEMMA RxIdsInOrder ==
    ASSUME OrderContext, NEW p \in net, RxReceive(p) PROVE IdsInOrder'
<1>1. net' = net \ {p} /\ tx' = tx /\ Arrives(p)
  BY RxCases DEF OrderContext, SendContext
<1>2. \A q : Front(q)' <=> Front(q)
  BY <1>1 DEF Front
<1>3. /\ delivered \in Seq(Nat) /\ voq.fifo \in Seq(Nat) /\ p.id \in Nat
      /\ \A x \in Range(delivered) : x \in Nat
      /\ \A y \in Range(voq.fifo) : y \in Nat
  BY SequenceFacts, PacketFacts DEF OrderContext, SendContext
<1>4. /\ Rising(delivered) /\ Rising(voq.fifo)
      /\ \A x \in Range(delivered) : /\ \A y \in Range(voq.fifo) : x < y
                                     /\ \A q \in net : x < q.id
      /\ \A y \in Range(voq.fifo) : \A q \in net : IF Front(q) THEN q.id < y ELSE y < q.id
      /\ ~voq.exists => voq.fifo = <<>>
  BY DEF OrderContext, OrderInv, IdsInOrder
<1>5. CASE PrevEpoch(p) \/ p.phase = 0 \/ ~OutOfOrder(p)
  <2>1. /\ delivered' = Append(delivered, p.id)
        /\ voq'.fifo = voq.fifo /\ voq'.exists = voq.exists
    BY <1>5, RxQueues DEF OrderContext, SendContext
  <2>2. Rising(delivered') /\ Range(delivered') = Range(delivered) \cup {p.id}
    BY <1>3, <1>4, <2>1, RisingAppend
  <2>3. ASSUME NEW y \in Range(voq.fifo) PROVE p.id < y
    <3>1. voq.exists
      BY <1>4, <2>3 DEF Range
    <3>2. Front(p)
      BY <1>5, <3>1, PassedIsFront
    <3> QED
      BY <1>4, <3>2
  <2>4. ASSUME NEW q \in net' PROVE p.id < q.id
    <3>1. q \in net /\ q # p
      BY <1>1
    <3>2. Front(p) \/ FrontGone
      BY <1>5, PassedIsFront
    <3> QED
      BY <1>1, <3>1, <3>2, FrontArrivesFirst DEF OrderContext
  <2> QED
    BY <1>1, <1>2, <1>4, <2>1, <2>2, <2>3, <2>4 DEF IdsInOrder
<1>6. CASE ~PrevEpoch(p) /\ p.phase = 1 /\ OutOfOrder(p)
  <2>1. /\ delivered' = delivered
        /\ voq'.fifo = Append(voq.fifo, p.id) /\ voq'.exists = TRUE
    BY <1>6, RxQueues DEF OrderContext, SendContext
  <2>2. ~Front(p)
    <3>1. p.epoch = tx.epoch /\ tx.epoch \in Nat
      BY <1>6, WaitsInEpoch, EntryFacts DEF OrderContext, SendContext
    <3> QED
      BY <1>6, <3>1 DEF Front
  <2>3. Rising(voq'.fifo) /\ Range(voq'.fifo) = Range(voq.fifo) \cup {p.id}
    BY <1>3, <1>4, <2>1, <2>2, RisingAppend
  <2>4. ASSUME NEW q \in net' PROVE IF Front(q) THEN q.id < p.id ELSE p.id < q.id
    <3>1. q \in net /\ q # p
      BY <1>1
    <3>2. CASE Front(q)
      BY <2>2, <3>1, <3>2 DEF OrderContext, SendContext, TimedInv, FrontOrdered
    <3>3. CASE ~Front(q)
      BY <1>1, <2>2, <3>1, <3>3, PhaseArrivesInOrder DEF OrderContext
    <3> QED
      BY <3>2, <3>3
  <2> QED
    BY <1>1, <1>2, <1>4, <2>1, <2>3, <2>4 DEF IdsInOrder
<1> QED
  BY <1>5, <1>6, PacketFacts DEF OrderContext, SendContext


\* Where the flush of a VOQ is set, it is set behind Front.
LEMMA FlushBehindFront ==
    ASSUME OrderContext, NEW p \in net, Arrives(p), ~PrevEpoch(p),
           (p.phase = 0 /\ voq.exists) \/ (p.phase = 1 /\ OutOfOrder(p) /\ ~voq.exists),
           NEW q \in net, q # p, Front(q)
    PROVE  q.tsTx + MaxDelay[q.path] < Later(FlushTime(p, RxAfter(p)), now)
<1> DEFINE f == FlushTime(p, RxAfter(p))
<1>1. p.epoch = tx.epoch /\ tx.phase = 1 /\ (voq.exists => ~NewEpoch(p))
  BY WaitsInEpoch DEF OrderContext
<1>2. /\ p.tsTx \in Nat /\ p.tsTail \in Nat /\ q.tsTx \in Nat /\ now \in Nat
      /\ p.path \in Paths /\ q.path \in Paths
      /\ MaxDelay[q.path] \in Nat /\ MinDelay[p.path] \in Nat /\ MinDelay[q.path] \in Nat
      /\ rx.phase0RxTime \in Nat /\ rx.phase0TxTime \in Nat
      /\ rx.tailTime \in Nat /\ tx.tailTime \in Nat
      /\ ExtraVOQFlushTime \in Nat /\ DefaultVOQWaitingTime \in Nat
  BY PacketFacts, EntryFacts, TimeFacts, PathsAssumption DEF OrderContext, SendContext
<1>3. /\ MaxDelay[q.path] < MinDelay[q.path] + ExtraVOQFlushTime
      /\ MaxDelay[q.path] < MinDelay[p.path] + DefaultVOQWaitingTime + ExtraVOQFlushTime
  BY <1>2 DEF OrderContext, JitterCovered
<1>4. ~IsTail(p)
  BY <1>1, TailClearsFront DEF OrderContext
<1>5. q.tsTx <= tx.tailTime /\ p.tsTx + MinDelay[p.path] <= now
  BY <1>1 DEF OrderContext, SendContext, TimedInv, TagTimes, Arrives
<1>6. f \in Int /\ q.tsTx + MaxDelay[q.path] < f
  <2>1. CASE p.phase = 0 /\ voq.exists
    <3>1. p.tsTx <= tx.tailTime /\ q.path = p.path /\ rx.tailTime = tx.tailTime
      BY <1>1, <2>1
         DEF OrderContext, SendContext, TimedInv, TagTimes, FrontOrdered, VoqInTime, Front
    <3>2. f = now + Later(rx.tailTime - p.tsTx, 0) + ExtraVOQFlushTime
      BY <1>4, <2>1, FlushTimeCases DEF OrderContext, SendContext
    <3>3. Later(rx.tailTime - p.tsTx, 0) = tx.tailTime - p.tsTx
      BY <1>2, <3>1 DEF Later
    <3> HIDE DEF f
    <3> QED
      BY <1>2, <1>3, <1>5, <3>1, <3>2, <3>3
  <2>2. CASE p.phase = 1 /\ rx.phase0Cache /\ ~NewEpoch(p)
    <3>1. p.tsTail = tx.tailTime
      BY <1>1, <2>2 DEF OrderContext, SendContext, TimedInv, TagTimes
    <3>2. rx.epoch = tx.epoch
      <4>1. rx.epoch = p.epoch
        BY <2>2, ArrivalEpochs DEF OrderContext, SendContext
      <4> QED
        BY <1>1, <4>1
    <3>3. rx.phase0TxTime + MinDelay[q.path] <= rx.phase0RxTime
      BY <2>2, <3>2 DEF OrderContext, OrderInv, FlushWaits
    <3>4. f = rx.phase0RxTime + Later(p.tsTail - rx.phase0TxTime, 0) + ExtraVOQFlushTime
      BY <1>4, <2>2, FlushTimeCases DEF OrderContext, SendContext
    <3>5. /\ Later(p.tsTail - rx.phase0TxTime, 0) \in Int
          /\ Later(p.tsTail - rx.phase0TxTime, 0) >= tx.tailTime - rx.phase0TxTime
      BY <1>2, <3>1 DEF Later
    <3> HIDE DEF f
    <3> QED
      BY <1>2, <1>3, <1>5, <3>3, <3>4, <3>5
  <2>3. CASE p.phase = 1 /\ ~(rx.phase0Cache /\ ~NewEpoch(p))
    <3>1. p.tsTail = tx.tailTime /\ p.tsTail <= p.tsTx
      BY <1>1, <2>3 DEF OrderContext, SendContext, TimedInv, TagTimes
    <3>2. f = now + DefaultVOQWaitingTime + ExtraVOQFlushTime
      BY <1>4, <2>3, FlushTimeCases DEF OrderContext, SendContext
    <3> HIDE DEF f
    <3> QED
      BY <1>2, <1>3, <1>5, <3>1, <3>2
  <2> QED
    BY <2>1, <2>2, <2>3
<1> HIDE DEF f
<1>7. q.tsTx + MaxDelay[q.path] < Later(f, now)
  BY <1>2, <1>6 DEF Later
<1> QED
  BY <1>7 DEF f

LEMMA RxFlushWaits ==
    ASSUME OrderContext, NEW p \in net, RxReceive(p) PROVE FlushWaits'
<1>1. net' = net \ {p} /\ tx' = tx /\ Arrives(p)
  BY RxCases DEF OrderContext, SendContext
<1>2. (\A q : Front(q)' <=> Front(q)) /\ (FrontGone => FrontGone')
  BY <1>1, FewerPackets DEF OrderContext, SendContext
<1>3. rx.reordering = voq.exists
  BY DEF OrderContext, SendContext, TimedInv, VoqInTime
<1>4. PrevEpoch(p) => /\ UNCHANGED voq /\ rx'.epoch = rx.epoch /\ rx'.phase = rx.phase
                      /\ rx'.phase0TxTime = rx.phase0TxTime
                      /\ rx'.phase0RxTime = rx.phase0RxTime
                      /\ rx'.phase0Cache = rx.phase0Cache
  BY RxCases, RxTimes DEF OrderContext, SendContext
<1>5. ASSUME voq'.exists, NEW q \in net', Front(q)'
      PROVE  q.tsTx + MaxDelay[q.path] < voq'.flushAt
  <2>1. q \in net /\ q # p /\ Front(q)
    BY <1>1, <1>2, <1>5
  <2>2. CASE voq.exists /\ voq'.flushAt = voq.flushAt
    BY <2>1, <2>2 DEF OrderContext, OrderInv, FlushWaits
  <2>3. CASE /\ ~PrevEpoch(p) /\ voq'.flushAt = Later(FlushTime(p, RxAfter(p)), now)
             /\ (p.phase = 0 /\ voq.exists) \/ (p.phase = 1 /\ OutOfOrder(p) /\ ~voq.exists)
    BY <1>1, <2>1, <2>3, FlushBehindFront
  <2>4. CASE PrevEpoch(p)
    BY <1>4, <1>5, <2>2, <2>4
  <2>5. CASE ~PrevEpoch(p) /\ p.phase = 0
    BY <1>3, <1>5, <2>3, <2>5, RxSplit DEF OrderContext, SendContext
  <2>6. CASE ~PrevEpoch(p) /\ p.phase = 1 /\ ~OutOfOrder(p)
    BY <1>5, <2>2, <2>6, RxSplit DEF OrderContext, SendContext
  <2>7. CASE ~PrevEpoch(p) /\ p.phase = 1 /\ OutOfOrder(p)
    BY <1>3, <2>2, <2>3, <2>7, RxSplit DEF OrderContext, SendContext
  <2> QED
    BY <2>4, <2>5, <2>6, <2>7, PacketFacts DEF OrderContext, SendContext
<1>6. ASSUME rx'.epoch = tx.epoch, rx'.phase0Cache
      PROVE  /\ tx.phase = 0 => rx'.phase0TxTime + MinDelay[tx.pathId] <= rx'.phase0RxTime
             /\ \A q \in net' : Front(q) => rx'.phase0TxTime + MinDelay[q.path] <= rx'.phase0RxTime
  <2>1. CASE PrevEpoch(p) \/ (~PrevEpoch(p) /\ p.phase = 1)
    <3>1. /\ rx.epoch = tx.epoch /\ rx.phase0Cache
          /\ rx'.phase0TxTime = rx.phase0TxTime /\ rx'.phase0RxTime = rx.phase0RxTime
      <4>1. CASE PrevEpoch(p)
        BY <1>4, <1>6, <4>1
      <4>2. CASE ~PrevEpoch(p) /\ p.phase = 1
        <5>1. /\ rx.phase0Cache /\ ~NewEpoch(p)
              /\ rx'.phase0TxTime = rx.phase0TxTime /\ rx'.phase0RxTime = rx.phase0RxTime
          BY <1>6, <4>2, RxTimes DEF OrderContext, SendContext
        <5>2. rx'.epoch = p.epoch
          BY <4>2, RxSplit DEF OrderContext, SendContext
        <5>3. rx.epoch = p.epoch
          BY <4>2, <5>1, ArrivalEpochs DEF OrderContext, SendContext
        <5> QED
          BY <1>6, <5>1, <5>2, <5>3
      <4> QED
        BY <2>1, <4>1, <4>2
    <3> QED
      BY <1>1, <3>1 DEF OrderContext, OrderInv, FlushWaits
  <2>2. CASE ~PrevEpoch(p) /\ p.phase = 0
    <3>1. rx'.phase0TxTime = p.tsTx /\ rx'.phase0RxTime = now
      BY <2>2, RxTimes DEF OrderContext, SendContext
    <3>2. p.tsTx + MinDelay[p.path] <= now
      BY <1>1 DEF Arrives
    <3>3. tx.phase = 0 => p.path = tx.pathId
      BY DEF OrderContext, SendContext, TimedInv, FrontOrdered
    <3>4. \A q \in net' : Front(q) => q.path = p.path
      BY <1>1, <2>2 DEF OrderContext, SendContext, TimedInv, FrontOrdered, Front
    <3> QED
      BY <3>1, <3>2, <3>3, <3>4
  <2> QED
    BY <2>1, <2>2, PacketFacts DEF OrderContext, SendContext
<1>7. ASSUME rx'.epoch = tx.epoch, rx'.phase = 1 PROVE tx.phase = 1 /\ FrontGone'
  <2>1. CASE rx.epoch = tx.epoch /\ rx.phase = 1
    BY <1>2, <2>1 DEF OrderContext, OrderInv, FlushWaits
  <2>2. CASE PrevEpoch(p)
    BY <1>4, <1>7, <2>1, <2>2
  <2>3. CASE ~PrevEpoch(p)
    <3>1. p.epoch = tx.epoch /\ PhaseAfter(p) = 1
      BY <1>7, <2>3, RxSplit DEF OrderContext, SendContext
    <3>2. CASE IsTail(p)
      <4>1. tx.phase = 1
        BY <3>1, <3>2, NotAhead DEF OrderContext, SendContext, IsTail
      <4>2. \A q \in net' : ~Front(q)'
        BY <1>1, <1>2, <3>1, <3>2, TailClearsFront DEF OrderContext
      <4> QED
        BY <4>1, <4>2 DEF FrontGone
    <3>3. CASE ~IsTail(p)
      <4>1. ~NewEpoch(p) /\ rx.phase = 1
        BY <3>1, <3>3 DEF PhaseAfter
      <4>2. rx.epoch = p.epoch
        BY <2>3, <4>1, ArrivalEpochs DEF OrderContext, SendContext
      <4> QED
        BY <2>1, <3>1, <4>1, <4>2
    <3> QED
      BY <3>2, <3>3
  <2> QED
    BY <2>2, <2>3
<1> QED
  BY <1>1, <1>2, <1>5, <1>6, <1>7 DEF FlushWaits


LEMMA VOQFlushOrder ==
    ASSUME OrderContext, VOQFlush PROVE OrderInv'
<1>1. /\ UNCHANGED <<tx, net>> /\ voq.exists /\ voq.flushAt = now
      /\ delivered' = delivered \o voq.fifo
      /\ voq'.exists = FALSE /\ voq'.fifo = <<>>
      /\ rx' = [rx EXCEPT !.reordering = FALSE, !.phase = 1]
  BY DEF VOQFlush, NoVOQ
<1>2. /\ rx'.phase = 1 /\ rx'.epoch = rx.epoch
      /\ rx'.phase0TxTime = rx.phase0TxTime /\ rx'.phase0RxTime = rx.phase0RxTime
      /\ rx'.phase0Cache = rx.phase0Cache
  BY <1>1 DEF OrderContext, SendContext, TInv, TypeOK, RxEntry
<1>3. tx.phase = 1 /\ rx.epoch = tx.epoch
  BY <1>1 DEF OrderContext, SendContext, TimedInv, VoqInTime
<1>4. tx.known = TRUE
  <2>1. ASSUME ~tx.known PROVE FALSE
    BY <1>3, <2>1, UnknownIsNew DEF OrderContext, SendContext
  <2> QED
    BY <2>1, TimeFacts DEF OrderContext, SendContext
<1>5. \A p \in net : ~Front(p)
  <2> SUFFICES ASSUME NEW p \in net, Front(p) PROVE FALSE
    OBVIOUS
  <2>1. p.tsTx + MaxDelay[p.path] < now
    BY <1>1 DEF OrderContext, OrderInv, FlushWaits
  <2>2. now <= p.tsTx + MaxDelay[p.path]
    BY NotAhead DEF OrderContext, SendContext
  <2> QED
    BY <2>1, <2>2, PacketFacts, EntryFacts DEF OrderContext, SendContext
<1>6. FrontGone'
  BY <1>1, <1>5 DEF FrontGone, Front
<1>7. EpochsKnown'
  BY <1>1, <1>2, <1>4 DEF OrderContext, OrderInv, EpochsKnown
<1>8. FlushWaits'
  BY <1>1, <1>2, <1>3, <1>6 DEF OrderContext, OrderInv, FlushWaits, Front
<1>9. IdsInOrder'
  <2>1. /\ Rising(delivered) /\ Rising(voq.fifo)
        /\ \A x \in Range(delivered) : /\ \A y \in Range(voq.fifo) : x < y
                                       /\ \A p \in net : x < p.id
        /\ \A y \in Range(voq.fifo) : \A p \in net : IF Front(p) THEN p.id < y ELSE y < p.id
    BY DEF OrderContext, OrderInv, IdsInOrder
  <2>2. delivered \in Seq(Nat) /\ voq.fifo \in Seq(Nat)
    BY SequenceFacts DEF OrderContext, SendContext
  <2>3. Rising(delivered') /\ Range(delivered') = Range(delivered) \cup Range(voq.fifo)
    BY <1>1, <2>1, <2>2, RisingConcat
  <2>4. \A x \in Range(delivered') : \A p \in net' : x < p.id
    BY <1>1, <1>5, <2>1, <2>3
  <2>5. Range(voq'.fifo) = {} /\ Rising(voq'.fifo)
    BY <1>1 DEF Range, Rising
  <2> QED
    BY <1>1, <2>3, <2>4, <2>5 DEF IdsInOrder
<1> QED
  BY <1>7, <1>8, <1>9 DEF OrderInv

\* Steps that send nothing, receive nothing and leave the epoch alone.
LEMMA OthersOrder ==
    ASSUME OrderContext, UNCHANGED <<rx, voq, delivered>>, net' \subseteq net,
           tx'.known = tx.known, tx'.epoch = tx.epoch, tx'.phase = tx.phase,
           tx'.pathId = tx.pathId
    PROVE  OrderInv'
<1>1. \A p : Front(p)' <=> Front(p)
  BY DEF Front
<1>2. FrontGone => FrontGone'
  BY <1>1 DEF FrontGone
<1>3. EpochsKnown'
  <2>1. CASE tx.known
    BY <2>1 DEF OrderContext, OrderInv, EpochsKnown
  <2>2. CASE ~tx.known
    <3>1. net = {} /\ rx.epoch = 1 /\ rx.phase = 0 /\ ~rx.phase0Cache /\ delivered = <<>>
      BY <2>2 DEF OrderContext, OrderInv, EpochsKnown
    <3> QED
      BY <2>2, <3>1 DEF EpochsKnown
  <2> QED
    BY <2>1, <2>2
<1>4. FlushWaits'
  BY <1>1, <1>2 DEF OrderContext, OrderInv, FlushWaits
<1>5. IdsInOrder'
  BY <1>1 DEF OrderContext, OrderInv, IdsInOrder
<1> QED
  BY <1>3, <1>4, <1>5 DEF OrderInv

LEMMA RxAgingOrder ==
    ASSUME OrderContext, RxAging PROVE OrderInv'
<1>1. UNCHANGED <<tx, net, voq, delivered>>
  BY DEF RxAging
<1>2. CASE now - rx.activeTime > AgingTime
  <2>1. rx' = NewRxEntry
    BY <1>2 DEF RxAging
  <2>2. rx'.epoch = 1 /\ rx'.phase = 0 /\ rx'.phase0Cache = FALSE
    BY <2>1 DEF NewRxEntry
  <2>3. \A p : Front(p)' <=> Front(p)
    BY <1>1 DEF Front
  <2>4. EpochsKnown'
    <3>1. CASE tx.known
      <4>1. tx.epoch # 0 /\ tx.epoch \in Nat
        BY <3>1, EntryFacts DEF OrderContext, SendContext, TInv, TxWellFormed
      <4> QED
        BY <1>1, <2>2, <3>1, <4>1 DEF EpochsKnown
    <3>2. CASE ~tx.known
      <4>1. net = {} /\ delivered = <<>>
        BY <3>2 DEF OrderContext, OrderInv, EpochsKnown
      <4> QED
        BY <1>1, <2>2, <3>2, <4>1 DEF EpochsKnown
    <3> QED
      BY <3>1, <3>2
  <2>5. FlushWaits'
    BY <1>1, <2>2, <2>3 DEF OrderContext, OrderInv, FlushWaits
  <2>6. IdsInOrder'
    BY <1>1, <2>3 DEF OrderContext, OrderInv, IdsInOrder
  <2> QED
    BY <2>4, <2>5, <2>6 DEF OrderInv
<1>3. CASE ~(now - rx.activeTime > AgingTime)
  <2>1. rx' = rx
    BY <1>3 DEF RxAging
  <2> QED
    BY <1>1, <2>1, OthersOrder
<1> QED
  BY <1>2, <1>3

LEMMA TxAgingOrder ==
    ASSUME OrderContext, Remembers, TxAging PROVE OrderInv'
<1>1. UNCHANGED <<net, rx, voq, delivered>> /\ (tx' = NewTxEntry \/ tx' = tx)
  BY DEF TxAging
<1>2. tx' = tx
  <2>1. CASE tx' = NewTxEntry
    <3>1. ~tx'.known
      BY <2>1 DEF NewTxEntry
    <3>2. ~tx.known
      BY <3>1 DEF Remembers
    <3> QED
      BY <2>1, <3>2 DEF OrderContext, SendContext, TInv, TxWellFormed
  <2> QED
    BY <1>1, <2>1
<1> QED
  BY <1>1, <1>2, OthersOrder

LEMMA TxDataOrder ==
    ASSUME OrderContext, TxData PROVE OrderInv'
<1>1. PICK k : Enters(k) /\ (OpensEpoch(k) \/ EndsPhase0(k) \/ StaysInPhase(k))
  BY SourceSendsCases DEF OrderContext, SendContext
<1> QED
  BY <1>1, SendEpochsKnown, SendFlushWaits, SendIdsInOrder DEF OrderInv

LEMMA StepOrder ==
    ASSUME OrderContext, Remembers, [Next]_vars PROVE OrderInv'
<1>1. (\E p \in net : Drop(p)) \/ (\E n \in notifies : TxNotify(n)) \/ Tick \/ UNCHANGED vars
         => UNCHANGED <<tx, rx, voq, delivered>> /\ net' \subseteq net
  BY DEF Drop, Consume, TxNotify, Tick, vars
<1>2. (\E p \in net : Drop(p)) \/ (\E n \in notifies : TxNotify(n)) \/ Tick \/ UNCHANGED vars
         => OrderInv'
  BY <1>1, OthersOrder
<1>3. ASSUME NEW r \in replies, TxReply(r) PROVE OrderInv'
  <2>1. /\ UNCHANGED <<net, rx, voq, delivered>>
        /\ tx' = IF ReplySettles(r)
                 THEN [tx EXCEPT !.stabilized = TRUE, !.replyTimer = CwMaxTime]
                 ELSE tx
    BY <1>3 DEF TxReply
  <2>2. /\ tx'.known = tx.known /\ tx'.epoch = tx.epoch /\ tx'.phase = tx.phase
        /\ tx'.pathId = tx.pathId
    BY <2>1 DEF OrderContext, SendContext, TInv, TypeOK, TxEntry
  <2> QED
    BY <2>1, <2>2, OthersOrder
<1>4. ASSUME NEW p \in net, RxReceive(p) PROVE OrderInv'
  BY <1>4, RxEpochsKnown, RxFlushWaits, RxIdsInOrder DEF OrderInv
<1> QED
  BY <1>2, <1>3, <1>4, TxDataOrder, VOQFlushOrder, TxAgingOrder, RxAgingOrder
     DEF Next, Events

\* The invariant OrderInv with all that it rests on.
LEMMA OrderInvariant ==
    ASSUME AgingOutlastsReplies, TimersCover, JitterCovered
    PROVE  Spec /\ [][Remembers]_vars => [](TInv /\ SettleInv /\ TimedInv /\ OrderInv)
<1>1. Init => OrderInv
  <2> SUFFICES ASSUME Init PROVE OrderInv
    OBVIOUS
  <2>1. /\ net = {} /\ delivered = <<>> /\ tx = NewTxEntry /\ rx = NewRxEntry /\ voq = NoVOQ
    BY DEF Init
  <2>2. /\ tx.known = FALSE /\ rx.epoch = 1 /\ rx.phase = 0 /\ rx.phase0Cache = FALSE
        /\ voq.exists = FALSE /\ voq.fifo = <<>>
    BY <2>1 DEF NewTxEntry, NewRxEntry, NoVOQ
  <2>3. Range(delivered) = {} /\ Range(voq.fifo) = {} /\ Rising(delivered) /\ Rising(voq.fifo)
    BY <2>1, <2>2 DEF Range, Rising
  <2>4. EpochsKnown
    BY <2>1, <2>2 DEF EpochsKnown
  <2>5. FlushWaits
    BY <2>2 DEF FlushWaits
  <2>6. IdsInOrder
    BY <2>2, <2>3 DEF IdsInOrder
  <2> QED
    BY <2>4, <2>5, <2>6 DEF OrderInv
<1>2. TInv /\ SettleInv /\ TimedInv /\ OrderInv /\ [Next]_vars /\ [Remembers]_vars => OrderInv'
  <2> SUFFICES ASSUME TInv, SettleInv, TimedInv, OrderInv, [Next]_vars, [Remembers]_vars
               PROVE  OrderInv'
    OBVIOUS
  <2>1. OrderContext
    BY DEF OrderContext, SendContext
  <2>2. Remembers
    BY DEF Remembers, vars
  <2> QED
    BY <2>1, <2>2, StepOrder
<1> QED
  BY <1>1, <1>2, TimedInvariant, PTL DEF Spec

\* The destination host never sees a packet after a later one of its flow, as
\* long as the source does not forget the flow, whatever the fabric loses, if
\* the VOQ's timers cover the jitter of the fabric.
THEOREM HostSeesOrderAlways ==
    ASSUME AgingOutlastsReplies, TimersCover, JitterCovered
    PROVE  Spec /\ [][Remembers]_vars => []HostSeesOrder
<1>1. OrderInv => HostSeesOrder
  BY DEF OrderInv, IdsInOrder, Rising, HostSeesOrder
<1> QED
  BY <1>1, OrderInvariant, PTL


-----------------------------------------------------------------------------
(***************************************************************************)
(* The switches implement FlowChannel when the fabric drops nothing.       *)
(***************************************************************************)

\* No number is skipped, with the host and in the VOQ.
Consecutive ==
    /\ lost = {}
    /\ \A i \in DOMAIN delivered : delivered[i] = i
    /\ \A i \in DOMAIN voq.fifo : voq.fifo[i] = voq.fifo[1] + (i - 1)

ChannelContext == OrderContext /\ Consecutive /\ MaxLosses = 0

LEMMA NothingLost ==
    ASSUME MaxLosses = 0, lost = {}, [Next]_vars PROVE lost' = {}
<1>1. \A p \in net : ~Drop(p)
  BY FS_EmptySet DEF Drop
<1>2. TxData => lost' = lost
  BY DEF TxData, TxNewFlowlet, TxReroute, TxNextEpoch, TxOrdinary, Emit
<1>3. \A p \in net : RxReceive(p) => lost' = lost
  BY DEF RxReceive, RxPrevEpoch, RxPhase0, RxPhase1InOrder, RxPhase1OutOfOrder, RxRest
<1>4. Events => lost' = lost
  BY <1>3 DEF Events, VOQFlush, TxReply, TxNotify, TxAging, RxAging, Tick
<1> QED
  BY <1>1, <1>2, <1>4 DEF Next, vars

\* Every number is somewhere; the delivered ones are the first.
LEMMA NumberSomewhere ==
    ASSUME ChannelContext, NEW n \in 1..nsent
    PROVE  \/ \E q \in net : q.id = n
           \/ n \in Range(voq.fifo)
           \/ n \in Range(delivered)
  BY DEF ChannelContext, Consecutive, OrderContext, SendContext, SettleInv,
         EachPacketOnce, NetIds

LEMMA ConsecutiveFacts ==
    ASSUME ChannelContext
    PROVE  /\ delivered \in Seq(Nat) /\ voq.fifo \in Seq(Nat)
           /\ Len(delivered) \in Nat /\ Len(voq.fifo) \in Nat /\ nsent \in Nat
           /\ DOMAIN delivered = 1..Len(delivered) /\ DOMAIN voq.fifo = 1..Len(voq.fifo)
           /\ Range(delivered) = 1..Len(delivered)
           /\ \A y \in Range(voq.fifo) : y \in Nat /\ y <= nsent /\ Len(delivered) < y
           /\ \A q \in net : q.id \in Nat /\ q.id <= nsent /\ Len(delivered) < q.id
<1>1. /\ delivered \in Seq(Nat) /\ voq.fifo \in Seq(Nat) /\ nsent \in Nat
      /\ \A y \in Range(voq.fifo) : y \in Nat /\ 1 <= y /\ y <= nsent
  BY SequenceFacts DEF ChannelContext, OrderContext, SendContext
<1>2. /\ Len(delivered) \in Nat /\ Len(voq.fifo) \in Nat
      /\ DOMAIN delivered = 1..Len(delivered) /\ DOMAIN voq.fifo = 1..Len(voq.fifo)
  BY <1>1
<1>3. Range(delivered) = 1..Len(delivered)
  BY <1>2 DEF Range, ChannelContext, Consecutive
<1>4. ASSUME NEW y \in Range(voq.fifo) PROVE Len(delivered) < y
  <2>1. y \notin 1..Len(delivered)
    BY <1>3, <1>4 DEF ChannelContext, OrderContext, SendContext, SettleInv, EachPacketOnce
  <2> QED
    BY <1>1, <1>2, <2>1
<1>5. ASSUME NEW q \in net PROVE q.id \in Nat /\ q.id <= nsent /\ Len(delivered) < q.id
  <2>1. q.id \in 1..nsent
    BY DEF ChannelContext, OrderContext, SendContext, TInv, TypeOK, DataPacket
  <2>2. q.id \notin 1..Len(delivered)
    BY <1>3, <1>5
       DEF ChannelContext, OrderContext, SendContext, SettleInv, EachPacketOnce, NetIds
  <2> QED
    BY <1>1, <1>2, <2>1, <2>2
<1> QED
  BY <1>1, <1>2, <1>3, <1>4, <1>5

\* What passes to the host is the next number.
LEMMA PassedIsNext ==
    ASSUME ChannelContext, NEW p \in net, RxReceive(p),
           PrevEpoch(p) \/ p.phase = 0 \/ ~OutOfOrder(p)
    PROVE  p.id = Len(delivered) + 1
<1> DEFINE n == Len(delivered) + 1
<1>1. n \in Nat /\ p.id \in Nat /\ n <= p.id /\ p.id <= nsent /\ nsent \in Nat /\ 1 <= n
  BY ConsecutiveFacts
<1>2. n \notin Range(delivered)
  BY ConsecutiveFacts
<1> HIDE DEF n
<1> SUFFICES ASSUME n < p.id PROVE FALSE
  BY <1>1 DEF n
<1>3. CASE \E q \in net : q.id = n
  <2>1. PICK q \in net : q.id = n
    BY <1>3
  <2>2. q # p
    BY <1>1, <2>1
  <2>3. Arrives(p) /\ (Front(p) \/ FrontGone)
    BY RxCases, PassedIsFront DEF ChannelContext, OrderContext, SendContext
  <2>4. p.id < q.id
    BY <2>2, <2>3, FrontArrivesFirst DEF ChannelContext, OrderContext
  <2> QED
    BY <1>1, <2>1, <2>4
<1>4. CASE n \in Range(voq.fifo)
  <2>1. voq.exists
    BY <1>4 DEF Range, ChannelContext, OrderContext, OrderInv, IdsInOrder
  <2>2. Front(p)
    BY <2>1, PassedIsFront DEF ChannelContext
  <2>3. p.id < n
    BY <1>4, <2>2 DEF ChannelContext, OrderContext, OrderInv, IdsInOrder
  <2> QED
    BY <1>1, <2>3
<1> QED
  BY <1>1, <1>2, <1>3, <1>4, NumberSomewhere

\* What joins a VOQ that is not empty is the number after its last one.
LEMMA WaitsIsNext ==
    ASSUME ChannelContext, NEW p \in net, RxReceive(p),
           ~PrevEpoch(p), p.phase = 1, OutOfOrder(p), Len(voq.fifo) # 0
    PROVE  p.id = voq.fifo[1] + Len(voq.fifo)
<1> DEFINE m == Len(voq.fifo)
           n == voq.fifo[1] + m
<1>1. m \in Nat /\ m # 0 /\ DOMAIN voq.fifo = 1..m /\ voq.fifo \in Seq(Nat)
  BY ConsecutiveFacts
<1>2. voq.fifo[1] \in Range(voq.fifo) /\ voq.fifo[m] \in Range(voq.fifo)
  BY <1>1 DEF Range
<1>3. voq.fifo[1] \in Nat /\ voq.fifo[m] = n - 1 /\ n \in Nat
  <2>1. voq.fifo[1] \in Nat
    BY <1>2, ConsecutiveFacts
  <2>2. voq.fifo[m] = voq.fifo[1] + (m - 1)
    BY <1>1 DEF ChannelContext, Consecutive
  <2> QED
    BY <1>1, <2>1, <2>2
<1>4. ~Front(p)
  <2>1. p.epoch = tx.epoch /\ tx.epoch \in Nat
    BY WaitsInEpoch, EntryFacts DEF ChannelContext, OrderContext, SendContext
  <2> QED
    BY <2>1 DEF Front
<1>5. voq.fifo[m] < p.id /\ p.id \in Nat /\ p.id <= nsent /\ nsent \in Nat
  BY <1>2, <1>4, ConsecutiveFacts DEF ChannelContext, OrderContext, OrderInv, IdsInOrder
<1>6. \A x \in Range(delivered) : x < voq.fifo[m]
  BY <1>2 DEF ChannelContext, OrderContext, OrderInv, IdsInOrder
<1>7. \A y \in Range(voq.fifo) : y < n
  <2> SUFFICES ASSUME NEW i \in 1..m PROVE voq.fifo[i] < n
    BY <1>1 DEF Range
  <2>1. voq.fifo[i] = voq.fifo[1] + (i - 1)
    BY <1>1 DEF ChannelContext, Consecutive
  <2> QED
    BY <1>1, <1>3, <2>1
<1> HIDE DEF n, m
<1> SUFFICES ASSUME n < p.id PROVE FALSE
  BY <1>3, <1>5 DEF n, m
<1>8. n \in 1..nsent
  <2>1. 0 < voq.fifo[m]
    BY <1>2, ConsecutiveFacts
  <2> QED
    BY <1>3, <1>5, <2>1
<1>9. CASE \E q \in net : q.id = n
  <2>1. PICK q \in net : q.id = n
    BY <1>9
  <2>2. q # p
    BY <1>3, <2>1
  <2>3. CASE Front(q)
    <3>1. q.id < voq.fifo[m]
      BY <1>2, <2>3 DEF ChannelContext, OrderContext, OrderInv, IdsInOrder
    <3> QED
      BY <1>3, <2>1, <3>1
  <2>4. CASE ~Front(q)
    <3>1. Arrives(p)
      BY RxCases DEF ChannelContext, OrderContext, SendContext
    <3>2. p.id < q.id
      BY <1>4, <2>2, <2>4, <3>1, PhaseArrivesInOrder DEF ChannelContext, OrderContext
    <3> QED
      BY <1>3, <1>5, <2>1, <3>2
  <2> QED
    BY <2>3, <2>4
<1>10. CASE n \in Range(voq.fifo)
  BY <1>3, <1>7, <1>10
<1>11. CASE n \in Range(delivered)
  BY <1>3, <1>6, <1>11
<1> QED
  BY <1>8, <1>9, <1>10, <1>11, NumberSomewhere

\* A VOQ is flushed when its first packet is the host's next one.
LEMMA FlushIsNext ==
    ASSUME ChannelContext, VOQFlush, Len(voq.fifo) # 0
    PROVE  voq.fifo[1] = Len(delivered) + 1
<1> DEFINE n == Len(delivered) + 1
           f == voq.fifo[1]
<1>1. f \in Range(voq.fifo)
  <2>1. 1 \in DOMAIN voq.fifo
    BY ConsecutiveFacts
  <2> QED
    BY <2>1 DEF Range
<1>2. n \in Nat /\ f \in Nat /\ n <= f /\ f <= nsent /\ 1 <= n /\ nsent \in Nat
  BY <1>1, ConsecutiveFacts
<1>3. n \notin Range(delivered)
  BY ConsecutiveFacts
<1>4. n \in Range(voq.fifo) => f <= n
  <2> SUFFICES ASSUME NEW i \in DOMAIN voq.fifo PROVE f <= voq.fifo[i]
    BY DEF Range
  <2>1. voq.fifo[i] = f + (i - 1) /\ i \in Nat /\ 1 <= i
    BY ConsecutiveFacts DEF ChannelContext, Consecutive
  <2> QED
    BY <1>2, <2>1
<1>5. ASSUME NEW q \in net PROVE f < q.id
  <2>1. ~Front(q)
    <3> SUFFICES ASSUME Front(q) PROVE FALSE
      OBVIOUS
    <3>1. q.tsTx + MaxDelay[q.path] < now
      BY DEF VOQFlush, ChannelContext, OrderContext, OrderInv, FlushWaits
    <3>2. now <= q.tsTx + MaxDelay[q.path]
      BY NotAhead DEF ChannelContext, OrderContext, SendContext
    <3> QED
      BY <3>1, <3>2, PacketFacts, EntryFacts DEF ChannelContext, OrderContext, SendContext
  <2> QED
    BY <1>1, <2>1 DEF ChannelContext, OrderContext, OrderInv, IdsInOrder
<1> HIDE DEF n, f
<1>6. n \in 1..nsent
  BY <1>2
<1>7. f = n
  BY <1>2, <1>3, <1>4, <1>5, <1>6, NumberSomewhere
<1> QED
  BY <1>7 DEF n, f


\* Sequences of successive numbers.
LEMMA FollowingIs ==
    ASSUME NEW s \in Seq(Nat), NEW d \in Seq(Nat), NEW n \in Nat, n = Len(s),
           \A i \in 1..n : s[i] = Len(d) + i
    PROVE  s = [i \in 1..n |-> Len(d) + i]
  OBVIOUS

\* The source hands over one packet, and nothing else does.
LEMMA WhoSends ==
    ASSUME TInv, [Next]_vars
    PROVE  /\ TxData => nsent' = nsent + 1 /\ UNCHANGED <<delivered, voq>>
           /\ \/ TxData
              \/ \E p \in net : RxReceive(p)
              \/ VOQFlush
              \/ UNCHANGED <<nsent, delivered, voq>>
<1>1. ASSUME TxData PROVE nsent' = nsent + 1 /\ UNCHANGED <<delivered, voq>>
  <2>1. PICK k : Enters(k)
    BY <1>1, SourceSendsCases
  <2> QED
    BY <2>1 DEF Enters
<1>2. \A r \in replies : TxReply(r) => UNCHANGED <<nsent, delivered, voq>>
  BY DEF TxReply
<1>3. \A n \in notifies : TxNotify(n) => UNCHANGED <<nsent, delivered, voq>>
  BY DEF TxNotify
<1>4. TxAging \/ RxAging \/ Tick \/ UNCHANGED vars => UNCHANGED <<nsent, delivered, voq>>
  BY DEF TxAging, RxAging, Tick, vars
<1>5. \A p \in net : Drop(p) => UNCHANGED <<nsent, delivered, voq>>
  BY DEF Drop
<1> QED
  BY <1>1, <1>2, <1>3, <1>4, <1>5 DEF Next, Events

LEMMA RxConsecutive ==
    ASSUME ChannelContext, NEW p \in net, RxReceive(p), lost' = {} PROVE Consecutive'
<1>1. CASE PrevEpoch(p) \/ p.phase = 0 \/ ~OutOfOrder(p)
  <2>1. delivered' = Append(delivered, p.id) /\ voq'.fifo = voq.fifo
    BY <1>1, RxQueues DEF ChannelContext, OrderContext, SendContext
  <2>2. p.id = Len(delivered) + 1
    BY <1>1, PassedIsNext
  <2>3. \A i \in DOMAIN delivered' : delivered'[i] = i
    <3>1. \A i \in DOMAIN delivered : delivered[i] = i
      BY DEF ChannelContext, Consecutive
    <3> QED
      BY <2>1, <2>2, <3>1, ConsecutiveFacts
  <2> QED
    BY <2>1, <2>3 DEF ChannelContext, Consecutive
<1>2. CASE ~PrevEpoch(p) /\ p.phase = 1 /\ OutOfOrder(p)
  <2> DEFINE s == voq.fifo
             m == Len(s)
             t == Append(s, p.id)
  <2>1. delivered' = delivered /\ voq'.fifo = t
    BY <1>2, RxQueues DEF ChannelContext, OrderContext, SendContext
  <2>2. m # 0 => p.id = s[1] + m
    BY <1>2, WaitsIsNext
  <2>3. \A i \in 1..m : s[i] = s[1] + (i - 1)
    BY ConsecutiveFacts DEF ChannelContext, Consecutive
  <2>4. s \in Seq(Nat) /\ m \in Nat /\ p.id \in Nat /\ (m # 0 => s[1] \in Nat)
    BY ConsecutiveFacts
  <2>5. /\ DOMAIN t = 1..(m + 1) /\ t[m + 1] = p.id
        /\ \A i \in 1..m : t[i] = s[i]
    BY <2>4
  <2> HIDE DEF s, m, t
  <2>6. ASSUME NEW i \in DOMAIN t PROVE t[i] = t[1] + (i - 1)
    <3>1. CASE m = 0
      <4>1. i = 1 /\ t[1] = p.id
        BY <2>5, <3>1
      <4> QED
        BY <2>4, <4>1
    <3>2. CASE m # 0
      <4>1. t[1] = s[1]
        BY <2>4, <2>5, <3>2
      <4>2. CASE i \in 1..m
        BY <2>3, <2>5, <4>1, <4>2
      <4>3. CASE i = m + 1
        BY <2>2, <2>4, <2>5, <3>2, <4>1, <4>3
      <4> QED
        BY <2>4, <2>5, <4>2, <4>3
    <3> QED
      BY <3>1, <3>2
  <2> QED
    BY <2>1, <2>6 DEF ChannelContext, Consecutive
<1> QED
  BY <1>1, <1>2, PacketFacts DEF ChannelContext, OrderContext, SendContext

\* A flush continues the host's numbers with those of the VOQ.
LEMMA FlushFollows ==
    ASSUME ChannelContext, VOQFlush
    PROVE  /\ Len(voq.fifo) \in 0..(nsent - Len(delivered))
           /\ voq.fifo = Channel!Following(Len(voq.fifo))
<1> DEFINE s == voq.fifo
           m == Len(s)
           d == Len(delivered)
<1>1. /\ s \in Seq(Nat) /\ m \in Nat /\ d \in Nat /\ nsent \in Nat
      /\ \A y \in Range(s) : y \in Nat /\ y <= nsent
      /\ delivered \in Seq(Nat) /\ DOMAIN s = 1..m /\ Range(delivered) = 1..d
      /\ \A i \in DOMAIN s : s[i] = s[1] + (i - 1)
  BY ConsecutiveFacts DEF ChannelContext, Consecutive
<1>2. m # 0 => s[1] = d + 1
  BY FlushIsNext
<1>3. ASSUME NEW i \in 1..m PROVE s[i] = d + i
  <2>1. s[i] = s[1] + (i - 1)
    BY <1>1, <1>3
  <2>2. m # 0 /\ i \in Int
    BY <1>1, <1>3
  <2> HIDE DEF s, m, d
  <2> QED
    BY <1>1, <1>2, <2>1, <2>2
<1>4. d <= nsent
  <2>1. d # 0 => d \in Range(delivered)
    BY <1>1
  <2>2. \A x \in Range(delivered) : x <= nsent
    BY SequenceFacts DEF ChannelContext, OrderContext, SendContext
  <2> QED
    BY <1>1, <2>1, <2>2
<1>5. m \in 0..(nsent - d)
  <2>1. CASE m = 0
    BY <1>1, <1>4, <2>1
  <2>2. CASE m # 0
    <3>1. s[m] \in Range(s) /\ s[m] = d + m
      BY <1>1, <1>3, <2>2 DEF Range
    <3>2. d + m <= nsent
      BY <1>1, <3>1
    <3> HIDE DEF s, m, d
    <3> QED
      BY <1>1, <3>2
  <2> QED
    BY <2>1, <2>2
<1>6. s = [i \in 1..m |-> Len(delivered) + i]
  BY <1>1, <1>3, FollowingIs
<1> QED
  BY <1>5, <1>6 DEF Channel!Following

LEMMA FlushConsecutive ==
    ASSUME ChannelContext, VOQFlush, lost' = {} PROVE Consecutive'
<1> DEFINE s == voq.fifo
           m == Len(s)
           d == Len(delivered)
           u == delivered \o s
<1>1. delivered' = u /\ voq'.fifo = <<>>
  BY DEF VOQFlush, NoVOQ
<1>2. /\ s \in Seq(Nat) /\ delivered \in Seq(Nat) /\ m \in Nat /\ d \in Nat
      /\ DOMAIN delivered = 1..d
      /\ \A i \in 1..d : delivered[i] = i
  BY ConsecutiveFacts DEF ChannelContext, Consecutive
<1>3. ASSUME NEW i \in 1..m PROVE s[i] = d + i
  <2>1. s = [j \in 1..m |-> d + j]
    BY FlushFollows DEF Channel!Following
  <2> HIDE DEF s, m, d
  <2> QED
    BY <2>1
<1>4. /\ DOMAIN u = 1..(d + m)
      /\ \A i \in 1..(d + m) : u[i] = IF i <= d THEN delivered[i] ELSE s[i - d]
  BY <1>2, ConcatProperties, LenProperties
<1> HIDE DEF s, m, d, u
<1>5. ASSUME NEW i \in DOMAIN u PROVE u[i] = i
  <2>1. CASE i <= d
    BY <1>2, <1>4, <2>1
  <2>2. CASE ~(i <= d)
    <3>1. i - d \in 1..m /\ u[i] = s[i - d]
      BY <1>2, <1>4, <2>2
    <3>2. s[i - d] = d + (i - d)
      BY <1>3, <3>1
    <3> QED
      BY <1>2, <1>4, <3>1, <3>2
  <2> QED
    BY <2>1, <2>2
<1>6. \A i \in DOMAIN voq'.fifo : voq'.fifo[i] = voq'.fifo[1] + (i - 1)
  BY <1>1
<1> QED
  BY <1>1, <1>5, <1>6 DEF Consecutive

LEMMA StepConsecutive ==
    ASSUME ChannelContext, [Next]_vars PROVE Consecutive'
<1>1. lost' = {}
  BY NothingLost DEF ChannelContext, Consecutive
<1>2. CASE UNCHANGED <<delivered, voq>>
  BY <1>1, <1>2 DEF ChannelContext, Consecutive
<1> QED
  BY <1>1, <1>2, RxConsecutive, FlushConsecutive, WhoSends
     DEF ChannelContext, OrderContext, SendContext

\* Every step is one of FlowChannel's, or none.
LEMMA StepRefines ==
    ASSUME ChannelContext, [Next]_vars PROVE [Channel!Next]_(Channel!vars)
<1>1. CASE TxData
  BY <1>1, WhoSends
     DEF Channel!Next, Channel!Send, ChannelContext, OrderContext, SendContext
<1>2. ASSUME NEW p \in net, RxReceive(p) PROVE [Channel!Next]_(Channel!vars)
  <2>1. nsent' = nsent
    BY <1>2, RxQueues DEF ChannelContext, OrderContext, SendContext
  <2>2. CASE PrevEpoch(p) \/ p.phase = 0 \/ ~OutOfOrder(p)
    <3>1. delivered' = Append(delivered, Len(delivered) + 1) /\ Len(delivered) + 1 <= nsent
      <4>1. delivered' = Append(delivered, p.id)
        BY <1>2, <2>2, RxQueues DEF ChannelContext, OrderContext, SendContext
      <4>2. p.id = Len(delivered) + 1 /\ p.id <= nsent
        BY <1>2, <2>2, PassedIsNext, ConsecutiveFacts
      <4> QED
        BY <4>1, <4>2
    <3>2. Channel!Following(1) = <<Len(delivered) + 1>>
      BY ConsecutiveFacts DEF Channel!Following
    <3>3. delivered' = delivered \o Channel!Following(1)
      <4>1. delivered \in Seq(Nat) /\ Len(delivered) + 1 \in Nat
        BY ConsecutiveFacts
      <4> QED
        BY <3>1, <3>2, <4>1, AppendIsConcat
    <3>4. 1 \in 1..(nsent - Len(delivered))
      BY <3>1, ConsecutiveFacts
    <3> QED
      BY <2>1, <3>3, <3>4 DEF Channel!Next, Channel!Deliver
  <2>3. CASE ~PrevEpoch(p) /\ p.phase = 1 /\ OutOfOrder(p)
    <3>1. delivered' = delivered
      BY <1>2, <2>3, RxQueues DEF ChannelContext, OrderContext, SendContext
    <3> QED
      BY <2>1, <3>1 DEF Channel!vars
  <2> QED
    BY <2>2, <2>3, PacketFacts DEF ChannelContext, OrderContext, SendContext
<1>3. CASE VOQFlush
  <2> DEFINE m == Len(voq.fifo)
  <2>1. delivered' = delivered \o voq.fifo /\ nsent' = nsent
    BY <1>3 DEF VOQFlush
  <2>2. m \in 0..(nsent - Len(delivered)) /\ voq.fifo = Channel!Following(m)
    BY <1>3, FlushFollows
  <2>3. CASE m = 0
    <3>1. voq.fifo = <<>>
      BY <2>3, ConsecutiveFacts, EmptySeq
    <3>2. delivered' = delivered
      BY <2>1, <3>1, ConsecutiveFacts
    <3> QED
      BY <2>1, <3>2 DEF Channel!vars
  <2>4. CASE m # 0
    <3>1. m \in 1..(nsent - Len(delivered))
      BY <2>2, <2>4, ConsecutiveFacts
    <3> QED
      BY <2>1, <2>2, <3>1 DEF Channel!Next, Channel!Deliver
  <2> QED
    BY <2>3, <2>4
<1>4. CASE UNCHANGED <<nsent, delivered, voq>>
  BY <1>4 DEF Channel!vars
<1> QED
  BY <1>1, <1>2, <1>3, <1>4, WhoSends DEF ChannelContext, OrderContext, SendContext

\* When the fabric drops nothing and the timers cover its delays, the two ToRs
\* implement a channel that delivers every packet once and in order, as long as
\* the source does not forget the flow.
THEOREM ChannelIsImplemented ==
    ASSUME AgingOutlastsReplies, TimersCover, JitterCovered, MaxLosses = 0
    PROVE  Spec /\ [][Remembers]_vars => DeliversInOrder
<1>1. Init => Channel!Init /\ Consecutive
  BY DEF Init, Channel!Init, Consecutive, NoVOQ
<1>2. TInv /\ SettleInv /\ TimedInv /\ OrderInv /\ Consecutive /\ [Next]_vars => Consecutive'
  BY StepConsecutive DEF ChannelContext, OrderContext, SendContext
<1>3. TInv /\ SettleInv /\ TimedInv /\ OrderInv /\ Consecutive /\ [Next]_vars
         => [Channel!Next]_(Channel!vars)
  BY StepRefines DEF ChannelContext, OrderContext, SendContext
<1> QED
  BY <1>1, <1>2, <1>3, OrderInvariant, PTL DEF Spec, DeliversInOrder, Channel!Spec
=============================================================================
