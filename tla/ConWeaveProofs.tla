--------------------------- MODULE ConWeaveProofs ---------------------------
(***************************************************************************)
(* Proofs about module ConWeave, for every number of packets, every set of *)
(* paths and every setting of the timers.                                  *)
(***************************************************************************)
EXTENDS ConWeaveProperties, SequenceTheorems, TLAPS

(***************************************************************************)
(* What holds of the source ToR's entry between any two events.            *)
(***************************************************************************)
TxWellFormed ==
    /\ StartTime <= now /\ now < CwMaxTime
    /\ ~tx.known => tx = NewTxEntry
    /\ tx.known => tx.pathId \in Paths /\ tx.epoch # 0
    /\ tx.phase = 1 => tx.replyTimer = CwMaxTime

TInv == TypeOK /\ TxWellFormed

\* A longer history only enlarges the types.
LEMMA TypesGrow ==
    ASSUME now \in Nat, now' \in Nat, now <= now',
           nsent \in Nat, nsent' \in Nat, nsent <= nsent'
    PROVE  /\ Times \subseteq Times'
           /\ TxEntry \subseteq TxEntry'
           /\ RxEntry \subseteq RxEntry'
           /\ DataPacket \subseteq DataPacket'
           /\ ReplyPacket \subseteq ReplyPacket'
           /\ NotifyPacket \subseteq NotifyPacket'
           /\ Seq(1..nsent) \subseteq Seq((1..nsent)')
<1>1. Times \subseteq Times' /\ 1..nsent \subseteq (1..nsent)'
  BY DEF Times
<1>2. Seq(1..nsent) \subseteq Seq((1..nsent)')
  BY <1>1
<1>3. TxEntry \subseteq TxEntry' /\ RxEntry \subseteq RxEntry'
  BY <1>1 DEF TxEntry, RxEntry
<1>4. DataPacket \subseteq DataPacket'
  BY <1>1 DEF DataPacket
<1>5. ReplyPacket \subseteq ReplyPacket' /\ NotifyPacket \subseteq NotifyPacket'
  BY <1>1 DEF ReplyPacket, NotifyPacket
<1> QED
  BY <1>1, <1>2, <1>3, <1>4, <1>5

LEMMA InitTInv == Init => TInv
<1> SUFFICES ASSUME Init PROVE TInv
  OBVIOUS
<1>1. tx \in TxEntry /\ rx \in RxEntry
  BY TimesAssumption DEF Init, NewTxEntry, NewRxEntry, TxEntry, RxEntry, Times
<1>2. pathTable \in [Slots -> PathEntry]
  BY DEF Init, NewPathEntry, PathEntry
<1>3. voq \in [exists : BOOLEAN, fifo : Seq(1..nsent), flushAt : Nat]
  BY DEF Init, NoVOQ
<1>4. agingAt \in [{"tx", "rx"} -> Nat]
  BY TimesAssumption DEF Init
<1>5. TypeOK
  BY <1>1, <1>2, <1>3, <1>4, TimesAssumption DEF Init, TypeOK
<1>6. TxWellFormed
  BY TimesAssumption DEF Init, TxWellFormed, NewTxEntry
<1> QED
  BY <1>5, <1>6 DEF TInv

-----------------------------------------------------------------------------
(***************************************************************************)
(* Steps of the source ToR.                                                *)
(***************************************************************************)

\* Both ways to choose a path yield a real one.
LEMMA PathChosen ==
    ASSUME TInv, NEW r1 \in Paths, NEW r2 \in Paths
    PROVE  HeldPath(r1, r2) \in Paths /\ ReroutedPath(r1, r2) \in Paths
<1>1. SampledPath(r1, r2) \in Paths
  BY DEF SampledPath
<1>2. HeldPath(r1, r2) \in Paths
  BY <1>1 DEF HeldPath, TInv, TypeOK, TxEntry
<1> QED
  BY <1>1, <1>2 DEF ReroutedPath

\* An entry that has not expired belongs to a flow that has sent.
LEMMA NotExpiredKnown ==
    ASSUME TInv, ~TxExpired
    PROVE  tx.known /\ tx.pathId \in Paths /\ tx.epoch # 0
  BY TimesAssumption DEF TInv, TypeOK, TxWellFormed, TxExpired, NewTxEntry

\* Sending a well-tagged packet and storing a well-formed entry.
LEMMA EmitTInv ==
    ASSUME TInv,
           NEW path \in Paths, NEW phase \in {0, 1},
           NEW flag \in {"DATA", "INIT", "TAIL"}, NEW entry \in TxEntry,
           entry.known, entry.pathId \in Paths, entry.epoch # 0,
           entry.phase = 1 => entry.replyTimer = CwMaxTime,
           Emit(path, phase, flag, entry)
    PROVE  TInv'
<1> DEFINE packet == [id |-> nsent + 1, path |-> path, epoch |-> entry.epoch,
                      phase |-> phase, flag |-> flag, tsTx |-> now,
                      tsTail |-> entry.tailTime]
<1>1. now' = now /\ nsent' = nsent + 1 /\ now \in Nat /\ nsent \in Nat
  BY DEF Emit, TInv, TypeOK
<1>2. /\ Times \subseteq Times'
      /\ TxEntry \subseteq TxEntry'
      /\ RxEntry \subseteq RxEntry'
      /\ DataPacket \subseteq DataPacket'
      /\ ReplyPacket \subseteq ReplyPacket'
      /\ NotifyPacket \subseteq NotifyPacket'
      /\ Seq(1..nsent) \subseteq Seq((1..nsent)')
  BY <1>1, TypesGrow
<1>3. packet \in DataPacket'
  BY <1>1 DEF DataPacket, Times, TxEntry
<1>4. net' \subseteq DataPacket'
  BY <1>2, <1>3 DEF Emit, TInv, TypeOK
<1>5. /\ tx' = entry /\ pathTable' = pathTable /\ rx' = rx /\ voq' = voq
      /\ lost' = lost /\ replies' = replies /\ notifies' = notifies
      /\ delivered' = delivered /\ agingAt' = agingAt
  BY DEF Emit
<1>6. lost' \subseteq 1..nsent'
  BY <1>1, <1>5 DEF TInv, TypeOK
<1>7. voq' \in [exists : BOOLEAN, fifo : Seq(1..nsent'), flushAt : Nat]
  BY <1>2, <1>5 DEF TInv, TypeOK
<1>8. pathTable' \in [Slots -> PathEntry]
  BY <1>5 DEF TInv, TypeOK
<1>9. TypeOK'
  BY <1>1, <1>2, <1>4, <1>5, <1>6, <1>7, <1>8
     DEF TInv, TypeOK, Slots, PathEntry
<1>10. TxWellFormed'
  BY <1>1, <1>5 DEF TInv, TxWellFormed
<1> QED
  BY <1>9, <1>10 DEF TInv

LEMMA NewRoundTyped ==
    ASSUME TInv, NEW path \in Paths
    PROVE  LET e == NewRoundEntry(path)
           IN  /\ e \in TxEntry /\ e.known /\ e.pathId = path
               /\ e.epoch = tx.epoch + 1 /\ e.phase = 0
<1>1. ReplyDeadline \in Nat /\ now \in Times /\ 0 \in Times
  BY TimesAssumption DEF ReplyDeadline, Times, TInv, TypeOK
<1>2. tx \in TxEntry /\ tx.epoch + 1 \in Nat
  BY DEF TInv, TypeOK, TxEntry
<1>3. path \in Paths \cup {DefaultPath} /\ 0 \in {0, 1} /\ {TRUE, FALSE} \subseteq BOOLEAN
  OBVIOUS
<1> QED
  BY <1>1, <1>2, <1>3 DEF NewRoundEntry, TxEntry

LEMMA TailTyped ==
    ASSUME TInv, NEW path \in Paths
    PROVE  LET e == TailEntry(path)
           IN  /\ e \in TxEntry /\ e.known = tx.known /\ e.pathId = path
               /\ e.epoch = tx.epoch /\ e.replyTimer = CwMaxTime
<1>1. now \in Times
  BY DEF Times, TInv, TypeOK
<1> QED
  BY <1>1, TimesAssumption DEF TailEntry, TxEntry, TInv, TypeOK

LEMMA TxDataTInv ==
    ASSUME TInv, TxData PROVE TInv'
<1>1. tx \in TxEntry /\ tx.epoch \in Nat /\ now \in Times
  BY DEF TInv, TypeOK, TxEntry, Times
<1>2. ASSUME NEW r1 \in Paths, NEW r2 \in Paths, TxNewFlowlet(r1, r2)
      PROVE  TInv'
  <2> DEFINE path == ReroutedPath(r1, r2)
  <2>1. path \in Paths
    BY PathChosen
  <2>2. Emit(path, 0, "INIT", NewRoundEntry(path))
    BY <1>2 DEF TxNewFlowlet
  <2> HIDE DEF path
  <2>3. /\ NewRoundEntry(path) \in TxEntry /\ NewRoundEntry(path).known
        /\ NewRoundEntry(path).pathId \in Paths
        /\ NewRoundEntry(path).epoch # 0 /\ NewRoundEntry(path).phase = 0
    BY <1>1, <2>1, NewRoundTyped
  <2> QED
    BY <2>1, <2>2, <2>3, EmitTInv
<1>3. ASSUME NEW r1 \in Paths, NEW r2 \in Paths, TxReroute(r1, r2)
      PROVE  TInv'
  <2> DEFINE old == HeldPath(r1, r2)
             new == ReroutedPath(r1, r2)
  <2>1. old \in Paths /\ new \in Paths
    BY PathChosen
  <2>2. Emit(old, 0, "TAIL", TailEntry(new))
    BY <1>3 DEF TxReroute
  <2>3. tx.known /\ tx.epoch # 0
    BY <1>3, NotExpiredKnown DEF TxReroute, ReplyTimedOut
  <2>4. /\ TailEntry(new) \in TxEntry /\ TailEntry(new).known
        /\ TailEntry(new).pathId \in Paths
        /\ TailEntry(new).epoch # 0
        /\ TailEntry(new).replyTimer = CwMaxTime
    BY <2>1, <2>3, TailTyped
  <2> HIDE DEF old, new
  <2> QED
    BY <2>1, <2>2, <2>4, EmitTInv
<1>4. CASE TxNextEpoch
  <2>1. tx.pathId \in Paths
    BY <1>4, NotExpiredKnown DEF TxNextEpoch, TxStabilized
  <2>2. Emit(tx.pathId, 0, "INIT", NewRoundEntry(tx.pathId))
    BY <1>4 DEF TxNextEpoch
  <2> DEFINE e == NewRoundEntry(tx.pathId)
  <2>3. /\ e \in TxEntry /\ e.known /\ e.pathId \in Paths
        /\ e.epoch # 0 /\ e.phase = 0
    BY <1>1, <2>1, NewRoundTyped
  <2> HIDE DEF e
  <2> QED
    BY <2>1, <2>2, <2>3, EmitTInv DEF e
<1>5. CASE TxOrdinary
  <2> DEFINE e == [tx EXCEPT !.activeTime = now]
  <2>1. tx.known /\ tx.pathId \in Paths /\ tx.epoch # 0
    BY <1>5, NotExpiredKnown DEF TxOrdinary
  <2>2. /\ e \in TxEntry /\ e.known /\ e.pathId = tx.pathId
        /\ e.epoch = tx.epoch /\ e.phase = tx.phase
        /\ e.replyTimer = tx.replyTimer
    BY <1>1, <2>1 DEF TxEntry
  <2>3. tx.phase \in {0, 1} /\ (tx.phase = 1 => tx.replyTimer = CwMaxTime)
    BY <1>1 DEF TxEntry, TInv, TxWellFormed
  <2>4. Emit(tx.pathId, tx.phase, "DATA", e)
    BY <1>5 DEF TxOrdinary
  <2> HIDE DEF e
  <2> QED
    BY <2>1, <2>2, <2>3, <2>4, EmitTInv
<1> QED
  BY <1>2, <1>3, <1>4, <1>5 DEF TxData

-----------------------------------------------------------------------------
(***************************************************************************)
(* Steps of the destination ToR.                                           *)
(***************************************************************************)

\* Steps that neither take time nor send a packet leave the types as they are.
LEMMA TypesStay ==
    ASSUME TInv, now' = now, nsent' = nsent
    PROVE  /\ Times' = Times
           /\ TxEntry' = TxEntry
           /\ RxEntry' = RxEntry
           /\ DataPacket' = DataPacket
           /\ ReplyPacket' = ReplyPacket
           /\ NotifyPacket' = NotifyPacket
           /\ now \in Times
  BY DEF Times, TxEntry, RxEntry, DataPacket, ReplyPacket, NotifyPacket,
         TInv, TypeOK

\* The receiver's entry stays well typed under an arriving packet.
LEMMA RxAfterTyped ==
    ASSUME TInv, NEW p \in net
    PROVE  RxAfter(p) \in RxEntry /\ PhaseAfter(p) \in {0, 1}
<1>1. p \in DataPacket /\ rx \in RxEntry
  BY DEF TInv, TypeOK
<1>2. /\ p.tsTx \in Times /\ p.tsTail \in Times /\ p.epoch \in Nat
      /\ p.phase \in {0, 1}
  BY <1>1 DEF DataPacket
<1>3. PhaseAfter(p) \in {0, 1}
  BY <1>1 DEF PhaseAfter, RxEntry
<1>4. now \in Times
  BY DEF TInv, TypeOK, Times
<1>5. /\ rx.phase0TxTime \in Times /\ rx.phase0RxTime \in Times
      /\ rx.tailTime \in Times /\ rx.phase0Cache \in BOOLEAN
      /\ rx.reordering \in BOOLEAN
  BY <1>1 DEF RxEntry
<1> DEFINE tx0 == IF p.phase = 0 THEN p.tsTx ELSE rx.phase0TxTime
           rx0 == IF p.phase = 0 THEN now ELSE rx.phase0RxTime
           cache == p.phase = 0 \/ (rx.phase0Cache /\ ~NewEpoch(p))
           tail == IF IsTail(p) \/ p.phase = 1 THEN p.tsTail ELSE rx.tailTime
<1>6. tx0 \in Times /\ rx0 \in Times /\ tail \in Times
  BY <1>2, <1>4, <1>5
<1>7. cache \in BOOLEAN
  BY <1>5 DEF NewEpoch
<1>8. RxAfter(p) =
         [rx EXCEPT !.known = TRUE, !.activeTime = now, !.epoch = p.epoch,
                    !.phase = PhaseAfter(p), !.phase0TxTime = tx0,
                    !.phase0RxTime = rx0, !.phase0Cache = cache,
                    !.tailTime = tail]
  BY Zenon DEF RxAfter
<1> HIDE DEF tx0, rx0, cache, tail
<1>9. RxAfter(p) \in RxEntry
  BY <1>1, <1>2, <1>3, <1>4, <1>6, <1>7, <1>8 DEF RxEntry
<1> QED
  BY <1>3, <1>9

LEMMA FlushTimeTyped ==
    ASSUME TInv, NEW p \in net
    PROVE  Later(FlushTime(p, RxAfter(p)), now) \in Nat
<1> DEFINE e == RxAfter(p)
<1>1. e \in RxEntry
  BY RxAfterTyped
<1>2. /\ e.phase0RxTime \in Nat /\ e.phase0TxTime \in Nat /\ e.tailTime \in Nat
      /\ now \in Nat
  BY <1>1 DEF RxEntry, Times, TInv, TypeOK
<1> HIDE DEF e
<1>3. TimegapAtTx(e) \in Nat
  BY <1>2, TimesAssumption DEF TimegapAtTx, Later
<1>4. FlushTime(p, e) \in Nat
  BY <1>2, <1>3, TimesAssumption DEF FlushTime
<1> QED
  BY <1>2, <1>4 DEF Later, e

LEMMA RxReceiveTInv ==
    ASSUME TInv, NEW p \in net, RxReceive(p) PROVE TInv'
<1>1. /\ now' = now /\ nsent' = nsent /\ tx' = tx /\ pathTable' = pathTable
      /\ lost' = lost /\ agingAt' = agingAt /\ net' = net \ {p}
  BY DEF RxReceive, RxPrevEpoch, RxPhase0, RxPhase1InOrder,
         RxPhase1OutOfOrder, RxRest, Consume
<1>2. /\ Times' = Times
      /\ TxEntry' = TxEntry
      /\ RxEntry' = RxEntry
      /\ DataPacket' = DataPacket
      /\ ReplyPacket' = ReplyPacket
      /\ NotifyPacket' = NotifyPacket
      /\ now \in Times
  BY <1>1, TypesStay
<1>3. p \in DataPacket /\ rx \in RxEntry /\ p.id \in 1..nsent
  BY DEF TInv, TypeOK, DataPacket
<1>4. rx' \in RxEntry
  <2>1. RxAfter(p) \in RxEntry
    BY RxAfterTyped
  <2>2. [RxAfter(p) EXCEPT !.reordering = TRUE] \in RxEntry
    BY <2>1 DEF RxEntry
  <2>3. [rx EXCEPT !.known = TRUE, !.activeTime = now] \in RxEntry
    BY <1>2, <1>3 DEF RxEntry
  <2> QED
    BY <2>1, <2>2, <2>3 DEF RxReceive, RxPrevEpoch, RxPhase0, RxPhase1InOrder,
                            RxPhase1OutOfOrder
<1>5. voq' \in [exists : BOOLEAN, fifo : Seq(1..nsent), flushAt : Nat]
  <2> DEFINE at == Later(FlushTime(p, RxAfter(p)), now)
  <2>1. at \in Nat
    BY FlushTimeTyped
  <2>2. voq \in [exists : BOOLEAN, fifo : Seq(1..nsent), flushAt : Nat]
    BY DEF TInv, TypeOK
  <2>3. Append(voq.fifo, p.id) \in Seq(1..nsent)
    BY <1>3, <2>2
  <2> DEFINE moved == [voq EXCEPT !.flushAt = at]
             queued == [exists |-> TRUE, fifo |-> Append(voq.fifo, p.id),
                        flushAt |-> IF rx.reordering THEN voq.flushAt ELSE at]
  <2>4. voq' \in {voq, moved, queued}
    BY DEF RxReceive, RxPrevEpoch, RxPhase0, RxPhase1InOrder,
           RxPhase1OutOfOrder
  <2> HIDE DEF at
  <2>5. moved \in [exists : BOOLEAN, fifo : Seq(1..nsent), flushAt : Nat]
    BY <2>1, <2>2
  <2>6. queued \in [exists : BOOLEAN, fifo : Seq(1..nsent), flushAt : Nat]
    BY <2>1, <2>2, <2>3
  <2> QED
    BY <2>2, <2>4, <2>5, <2>6
<1>6. replies' \subseteq ReplyPacket
  <2>1. p.flag # "DATA" =>
           [id |-> p.id, flag |-> p.flag, epoch |-> p.epoch,
            phase |-> IF IsTail(p) THEN 1 ELSE 0, sentAt |-> now]
              \in ReplyPacket
    BY <1>2, <1>3 DEF DataPacket, ReplyPacket
  <2>2. replies' = replies \/ Reply(p)
    BY DEF RxReceive, RxPrevEpoch, RxPhase0, RxPhase1InOrder,
           RxPhase1OutOfOrder
  <2> QED
    BY <2>1, <2>2 DEF Reply, TInv, TypeOK
<1>7. notifies' \subseteq NotifyPacket
  <2>1. [id |-> p.id, path |-> p.path, sentAt |-> now] \in NotifyPacket
    BY <1>2, <1>3 DEF DataPacket, NotifyPacket
  <2>2. notifies' = notifies \/ \E ecn \in EcnMarks : Notify(p, ecn)
    BY DEF RxReceive, RxPrevEpoch, RxPhase0, RxPhase1InOrder,
           RxPhase1OutOfOrder
  <2> QED
    BY <2>1, <2>2 DEF Notify, TInv, TypeOK
<1>8. delivered' \in Seq(1..nsent)
  <2>1. delivered' = delivered \/ ToHost(p)
    BY DEF RxReceive, RxPrevEpoch, RxPhase0, RxPhase1InOrder,
           RxPhase1OutOfOrder
  <2>2. delivered \in Seq(1..nsent)
    BY DEF TInv, TypeOK
  <2>3. Append(delivered, p.id) \in Seq(1..nsent)
    BY <1>3, <2>2
  <2> QED
    BY <2>1, <2>2, <2>3 DEF ToHost
<1>9. pathTable' \in [Slots -> PathEntry]
  BY <1>1 DEF TInv, TypeOK
<1>10. TypeOK'
  BY <1>1, <1>2, <1>4, <1>5, <1>6, <1>7, <1>8, <1>9
     DEF TInv, TypeOK, Slots, PathEntry
<1>11. TxWellFormed'
  BY <1>1 DEF TInv, TxWellFormed
<1> QED
  BY <1>10, <1>11 DEF TInv

LEMMA VOQFlushTInv ==
    ASSUME TInv, VOQFlush PROVE TInv'
<1>1. /\ now' = now /\ nsent' = nsent /\ tx' = tx /\ pathTable' = pathTable
      /\ lost' = lost /\ agingAt' = agingAt /\ net' = net
      /\ replies' = replies /\ notifies' = notifies /\ voq' = NoVOQ
  BY DEF VOQFlush
<1>2. /\ TxEntry' = TxEntry /\ RxEntry' = RxEntry /\ DataPacket' = DataPacket
      /\ ReplyPacket' = ReplyPacket /\ NotifyPacket' = NotifyPacket
  BY <1>1, TypesStay
<1>3. rx' \in RxEntry
  BY DEF VOQFlush, TInv, TypeOK, RxEntry
<1>4. delivered' \in Seq(1..nsent)
  <2>1. voq.fifo \in Seq(1..nsent) /\ delivered \in Seq(1..nsent)
    BY DEF TInv, TypeOK
  <2> QED
    BY <2>1, ConcatProperties DEF VOQFlush
<1>5. voq' \in [exists : BOOLEAN, fifo : Seq(1..nsent), flushAt : Nat]
  BY <1>1 DEF NoVOQ
<1>6. TypeOK'
  BY <1>1, <1>2, <1>3, <1>4, <1>5 DEF TInv, TypeOK, Slots, PathEntry
<1>7. TxWellFormed'
  BY <1>1 DEF TInv, TxWellFormed
<1> QED
  BY <1>6, <1>7 DEF TInv

-----------------------------------------------------------------------------
(***************************************************************************)
(* Control packets, aging, drops and the clock.                            *)
(***************************************************************************)
LEMMA TxReplyTInv ==
    ASSUME TInv, NEW r \in replies, TxReply(r) PROVE TInv'
<1>1. /\ now' = now /\ nsent' = nsent /\ rx' = rx /\ pathTable' = pathTable
      /\ lost' = lost /\ agingAt' = agingAt /\ net' = net /\ voq' = voq
      /\ replies' = replies \ {r} /\ notifies' = notifies
      /\ delivered' = delivered
  BY DEF TxReply
<1>2. /\ TxEntry' = TxEntry /\ RxEntry' = RxEntry /\ DataPacket' = DataPacket
      /\ ReplyPacket' = ReplyPacket /\ NotifyPacket' = NotifyPacket
  BY <1>1, TypesStay
<1>3. tx \in TxEntry /\ r.epoch # 0
  BY DEF TInv, TypeOK, ReplyPacket
<1>4. tx' \in TxEntry
  BY <1>3, TimesAssumption DEF TxReply, TxEntry
<1>5. TypeOK'
  BY <1>1, <1>2, <1>4 DEF TInv, TypeOK, Slots, PathEntry
<1>6. TxWellFormed'
  <2>1. CASE ~ReplySettles(r)
    BY <1>1, <2>1 DEF TxReply, TInv, TxWellFormed
  <2>2. CASE ReplySettles(r)
    <3>1. tx' = [tx EXCEPT !.stabilized = TRUE, !.replyTimer = CwMaxTime]
      BY <2>2 DEF TxReply
    <3>2. tx.known
      BY <1>3, <2>2 DEF ReplySettles, TInv, TxWellFormed, NewTxEntry
    <3>3. /\ tx'.known = tx.known /\ tx'.pathId = tx.pathId
          /\ tx'.epoch = tx.epoch /\ tx'.replyTimer = CwMaxTime
      BY <1>3, <3>1 DEF TxEntry
    <3> QED
      BY <1>1, <3>2, <3>3 DEF TInv, TxWellFormed
  <2> QED
    BY <2>1, <2>2
<1> QED
  BY <1>5, <1>6 DEF TInv

LEMMA TxNotifyTInv ==
    ASSUME TInv, NEW n \in notifies, TxNotify(n) PROVE TInv'
<1>1. /\ now' = now /\ nsent' = nsent /\ rx' = rx /\ tx' = tx
      /\ lost' = lost /\ agingAt' = agingAt /\ net' = net /\ voq' = voq
      /\ replies' = replies /\ notifies' = notifies \ {n}
      /\ delivered' = delivered
  BY DEF TxNotify
<1>2. /\ TxEntry' = TxEntry /\ RxEntry' = RxEntry /\ DataPacket' = DataPacket
      /\ ReplyPacket' = ReplyPacket /\ NotifyPacket' = NotifyPacket
  BY <1>1, TypesStay
<1>3. [pathId |-> n.path, invalidTime |-> now + PathPauseTime] \in PathEntry
  BY TimesAssumption DEF TInv, TypeOK, NotifyPacket, PathEntry
<1>4. pathTable' \in [Slots -> PathEntry]
  BY <1>3 DEF TxNotify, TInv, TypeOK
<1>5. TypeOK'
  BY <1>1, <1>2, <1>4 DEF TInv, TypeOK, Slots, PathEntry
<1>6. TxWellFormed'
  BY <1>1 DEF TInv, TxWellFormed
<1> QED
  BY <1>5, <1>6 DEF TInv

LEMMA AgingTInv ==
    ASSUME TInv, TxAging \/ RxAging PROVE TInv'
<1>1. /\ now' = now /\ nsent' = nsent /\ pathTable' = pathTable
      /\ lost' = lost /\ net' = net /\ voq' = voq
      /\ replies' = replies /\ notifies' = notifies /\ delivered' = delivered
      /\ tx' \in {tx, NewTxEntry} /\ rx' \in {rx, NewRxEntry}
  BY DEF TxAging, RxAging
<1>2. /\ TxEntry' = TxEntry /\ RxEntry' = RxEntry /\ DataPacket' = DataPacket
      /\ ReplyPacket' = ReplyPacket /\ NotifyPacket' = NotifyPacket
  BY <1>1, TypesStay
<1>3. tx' \in TxEntry /\ rx' \in RxEntry
  <2>1. 0 \in Times /\ tx \in TxEntry /\ rx \in RxEntry
    BY DEF Times, TInv, TypeOK
  <2>2. NewTxEntry \in TxEntry
    BY <2>1 DEF NewTxEntry, TxEntry
  <2>3. NewRxEntry \in RxEntry
    BY <2>1 DEF NewRxEntry, RxEntry
  <2> QED
    BY <1>1, <2>1, <2>2, <2>3
<1>4. agingAt' \in [{"tx", "rx"} -> Nat]
  <2>1. now + AgingTime \in Nat /\ agingAt \in [{"tx", "rx"} -> Nat]
    BY TimesAssumption DEF TInv, TypeOK
  <2> QED
    BY <2>1 DEF TxAging, RxAging
<1>5. TypeOK'
  BY <1>1, <1>2, <1>3, <1>4 DEF TInv, TypeOK, Slots, PathEntry
<1>6. TxWellFormed'
  BY <1>1 DEF TInv, TxWellFormed, NewTxEntry
<1> QED
  BY <1>5, <1>6 DEF TInv

LEMMA DropTInv ==
    ASSUME TInv, NEW p \in net, Drop(p) PROVE TInv'
<1>1. /\ now' = now /\ nsent' = nsent /\ pathTable' = pathTable
      /\ lost' = lost \cup {p.id} /\ net' = net \ {p} /\ voq' = voq
      /\ replies' = replies /\ notifies' = notifies /\ delivered' = delivered
      /\ tx' = tx /\ rx' = rx /\ agingAt' = agingAt
  BY DEF Drop, Consume
<1>2. /\ TxEntry' = TxEntry /\ RxEntry' = RxEntry /\ DataPacket' = DataPacket
      /\ ReplyPacket' = ReplyPacket /\ NotifyPacket' = NotifyPacket
  BY <1>1, TypesStay
<1>3. p.id \in 1..nsent
  BY DEF TInv, TypeOK, DataPacket
<1>4. TypeOK'
  BY <1>1, <1>2, <1>3 DEF TInv, TypeOK, Slots, PathEntry
<1>5. TxWellFormed'
  BY <1>1 DEF TInv, TxWellFormed
<1> QED
  BY <1>4, <1>5 DEF TInv

LEMMA TickTInv ==
    ASSUME TInv, Tick PROVE TInv'
<1>1. /\ now' = now + 1 /\ nsent' = nsent /\ pathTable' = pathTable
      /\ lost' = lost /\ net' = net /\ voq' = voq
      /\ replies' = replies /\ notifies' = notifies /\ delivered' = delivered
      /\ tx' = tx /\ rx' = rx /\ agingAt' = agingAt
      /\ now \in Nat /\ now' \in Nat /\ nsent \in Nat /\ now' < CwMaxTime
  BY DEF Tick, TInv, TypeOK
<1>2. /\ TxEntry \subseteq TxEntry' /\ RxEntry \subseteq RxEntry'
      /\ DataPacket \subseteq DataPacket' /\ ReplyPacket \subseteq ReplyPacket'
      /\ NotifyPacket \subseteq NotifyPacket'
  BY <1>1, TypesGrow
<1>3. TypeOK'
  BY <1>1, <1>2 DEF TInv, TypeOK, Slots, PathEntry
<1>4. TxWellFormed'
  BY <1>1, TimesAssumption DEF TInv, TxWellFormed
<1> QED
  BY <1>3, <1>4 DEF TInv

LEMMA NextTInv == TInv /\ [Next]_vars => TInv'
<1> SUFFICES ASSUME TInv, [Next]_vars PROVE TInv'
  OBVIOUS
<1>1. CASE TxData
  BY <1>1, TxDataTInv
<1>2. CASE \E p \in net : RxReceive(p)
  BY <1>2, RxReceiveTInv
<1>3. CASE VOQFlush
  BY <1>3, VOQFlushTInv
<1>4. CASE \E r \in replies : TxReply(r)
  BY <1>4, TxReplyTInv
<1>5. CASE \E n \in notifies : TxNotify(n)
  BY <1>5, TxNotifyTInv
<1>6. CASE TxAging \/ RxAging
  BY <1>6, AgingTInv
<1>7. CASE Tick
  BY <1>7, TickTInv
<1>8. CASE \E p \in net : Drop(p)
  BY <1>8, DropTInv
<1>9. CASE UNCHANGED vars
  BY <1>9 DEF vars, TInv, TypeOK, TxWellFormed, Times, TxEntry, RxEntry,
              DataPacket, ReplyPacket, NotifyPacket, Slots, PathEntry
<1> QED
  BY <1>1, <1>2, <1>3, <1>4, <1>5, <1>6, <1>7, <1>8, <1>9 DEF Next, Events

\* For every setting of the constants each variable keeps its type: recorded
\* instants never lie in the future and a tagged packet carries a real path.
THEOREM TypeCorrect == Spec => []TypeOK
<1>1. TInv => TypeOK
  BY DEF TInv
<1> QED
  BY <1>1, InitTInv, NextTInv, PTL DEF Spec

\* The assertions of the source ToR (conweave-routing.cc:470-518) never fail: a
\* flow it does not know counts as expired, the reply timer runs in phase 0
\* only, and only an unknown flow has no path.
THEOREM SourceAssertionsHold == Spec => []TxAssertions
<1>1. TInv => TxAssertions
  <2> SUFFICES ASSUME TInv PROVE TxAssertions
    OBVIOUS
  <2>1. ~tx.known => TxExpired
    BY NotExpiredKnown
  <2>2. ReplyTimedOut => tx.phase = 0
    BY TimesAssumption
       DEF ReplyTimedOut, TInv, TypeOK, TxWellFormed, TxEntry
  <2>3. tx.pathId = DefaultPath => ~tx.known
    BY PathsAssumption DEF TInv, TxWellFormed
  <2> QED
    BY <2>1, <2>2, <2>3 DEF TxAssertions
<1> QED
  BY <1>1, InitTInv, NextTInv, PTL DEF Spec

-----------------------------------------------------------------------------
(***************************************************************************)
(* Each packet is in one place.                                            *)
(***************************************************************************)
LEMMA RangeOfAppend ==
    ASSUME NEW S, NEW s \in Seq(S), NEW e \in S
    PROVE  Range(Append(s, e)) = Range(s) \cup {e}
<1>1. /\ Len(s) \in Nat /\ DOMAIN s = 1..Len(s)
      /\ DOMAIN Append(s, e) = 1..(Len(s) + 1)
      /\ \A i \in 1..Len(s) : Append(s, e)[i] = s[i]
      /\ Append(s, e)[Len(s) + 1] = e
  OBVIOUS
<1> QED
  BY <1>1 DEF Range

LEMMA AppendFresh ==
    ASSUME NEW S, NEW s \in Seq(S), NEW e \in S,
           IsInjective(s), e \notin Range(s)
    PROVE  IsInjective(Append(s, e))
<1>1. /\ Len(s) \in Nat /\ DOMAIN s = 1..Len(s)
      /\ DOMAIN Append(s, e) = 1..(Len(s) + 1)
      /\ \A i \in 1..Len(s) : Append(s, e)[i] = s[i]
      /\ Append(s, e)[Len(s) + 1] = e
  OBVIOUS
<1> QED
  BY <1>1 DEF Range, IsInjective

LEMMA ConcatDisjoint ==
    ASSUME NEW S, NEW s \in Seq(S), NEW t \in Seq(S)
    PROVE  /\ Range(s \o t) = Range(s) \cup Range(t)
           /\ IsInjective(s) /\ IsInjective(t) /\ Range(s) \cap Range(t) = {}
                 => IsInjective(s \o t)
<1> DEFINE m == Len(s)
           n == Len(t)
           u == s \o t
<1>1. /\ m \in Nat /\ n \in Nat /\ DOMAIN s = 1..m /\ DOMAIN t = 1..n
      /\ DOMAIN u = 1..(m + n)
      /\ \A i \in 1..(m + n) : u[i] = IF i <= m THEN s[i] ELSE t[i - m]
  BY ConcatProperties, LenProperties
<1>2. \A i \in 1..m : i \in DOMAIN u /\ u[i] = s[i]
  BY <1>1
<1>3. \A i \in 1..n : i + m \in DOMAIN u /\ u[i + m] = t[i]
  BY <1>1
<1>4. \A i \in DOMAIN u : IF i <= m THEN i \in 1..m /\ u[i] = s[i]
                          ELSE i - m \in 1..n /\ u[i] = t[i - m]
  BY <1>1
<1> HIDE DEF m, n, u
<1>5. Range(u) = Range(s) \cup Range(t)
  BY RangeConcatenation, Zenon DEF u
<1>6. ASSUME IsInjective(s), IsInjective(t), Range(s) \cap Range(t) = {},
             NEW i \in DOMAIN u, NEW j \in DOMAIN u, u[i] = u[j]
      PROVE  i = j
  <2>1. CASE i <= m /\ j <= m
    BY <1>1, <1>4, <1>6, <2>1 DEF IsInjective
  <2>2. CASE ~(i <= m) /\ ~(j <= m)
    <3>1. i - m = j - m
      BY <1>1, <1>4, <1>6, <2>2 DEF IsInjective
    <3> QED
      BY <1>1, <3>1
  <2>3. CASE i <= m /\ ~(j <= m)
    BY <1>1, <1>4, <1>6, <2>3 DEF Range
  <2>4. CASE ~(i <= m) /\ j <= m
    BY <1>1, <1>4, <1>6, <2>4 DEF Range
  <2> QED
    BY <2>1, <2>2, <2>3, <2>4
<1> QED
  BY <1>5, <1>6 DEF IsInjective, u

\* A packet taken from the fabric leaves a gap there that one other place fills.
LEMMA TakenFromNet ==
    ASSUME EachPacketOnce, NEW p \in net, net' = net \ {p}
    PROVE  /\ NetIds' = NetIds \ {p.id} /\ p.id \in NetIds
           /\ \A q, r \in net' : q.id = r.id => q = r
  BY DEF EachPacketOnce, NetIds

LEMMA EmitOnce ==
    ASSUME TInv, EachPacketOnce, TxData PROVE EachPacketOnce'
<1>1. PICK packet :
          packet.id = nsent + 1 /\ net' = net \cup {packet}
  <2>1. ASSUME NEW path, NEW phase, NEW flag, NEW entry,
               Emit(path, phase, flag, entry)
        PROVE  \E packet : packet.id = nsent + 1 /\ net' = net \cup {packet}
    <3> DEFINE k == [id |-> nsent + 1, path |-> path, epoch |-> entry.epoch,
                     phase |-> phase, flag |-> flag, tsTx |-> now,
                     tsTail |-> entry.tailTime]
    <3>1. k.id = nsent + 1 /\ net' = net \cup {k}
      BY <2>1 DEF Emit
    <3> QED
      BY <3>1
  <2> QED
    BY <2>1 DEF TxData, TxNewFlowlet, TxReroute, TxNextEpoch, TxOrdinary
<1>2. /\ nsent' = nsent + 1 /\ voq' = voq /\ lost' = lost
      /\ delivered' = delivered /\ nsent \in Nat
  BY DEF TxData, TxNewFlowlet, TxReroute, TxNextEpoch, TxOrdinary, Emit,
         TInv, TypeOK
<1>3. NetIds' = NetIds \cup {nsent + 1}
  BY <1>1 DEF NetIds
<1>4. nsent + 1 \notin 1..nsent /\ 1..(nsent + 1) = 1..nsent \cup {nsent + 1}
  BY <1>2
<1>5. /\ NetIds \subseteq 1..nsent /\ lost \subseteq 1..nsent
      /\ Range(voq.fifo) \subseteq 1..nsent
      /\ Range(delivered) \subseteq 1..nsent
  BY DEF EachPacketOnce
<1>6. \A q, r \in net' : q.id = r.id => q = r
  BY <1>1, <1>4, <1>5 DEF EachPacketOnce, NetIds
<1> QED
  BY <1>2, <1>3, <1>4, <1>5, <1>6 DEF EachPacketOnce

LEMMA RxReceiveOnce ==
    ASSUME TInv, EachPacketOnce, NEW p \in net, RxReceive(p)
    PROVE  EachPacketOnce'
<1>1. net' = net \ {p} /\ nsent' = nsent /\ lost' = lost
  BY DEF RxReceive, RxPrevEpoch, RxPhase0, RxPhase1InOrder,
         RxPhase1OutOfOrder, RxRest, Consume
<1>2. /\ NetIds' = NetIds \ {p.id} /\ p.id \in NetIds
      /\ \A q, r \in net' : q.id = r.id => q = r
  BY <1>1, TakenFromNet
<1> DEFINE Ids == 1..nsent
<1>3. voq.fifo \in Seq(Ids) /\ delivered \in Seq(Ids) /\ p.id \in Ids
  BY DEF TInv, TypeOK, DataPacket
<1> HIDE DEF Ids
<1> DEFINE d == Append(delivered, p.id)
           f == Append(voq.fifo, p.id)
<1>4. CASE ToHost(p) /\ voq'.fifo = voq.fifo
  <2>1. delivered' = d
    BY <1>4 DEF ToHost
  <2>2. Range(d) = Range(delivered) \cup {p.id}
    BY <1>3, RangeOfAppend
  <2>3. IsInjective(delivered) /\ p.id \notin Range(delivered)
    BY <1>2 DEF EachPacketOnce
  <2>4. IsInjective(d)
    BY <1>3, <2>3, AppendFresh, Zenon
  <2> HIDE DEF d
  <2> QED
    BY <1>1, <1>2, <1>4, <2>1, <2>2, <2>4 DEF EachPacketOnce
<1>5. CASE delivered' = delivered /\ voq'.fifo = f
  <2>1. Range(f) = Range(voq.fifo) \cup {p.id}
    BY <1>3, RangeOfAppend
  <2>2. IsInjective(voq.fifo) /\ p.id \notin Range(voq.fifo)
    BY <1>2 DEF EachPacketOnce
  <2>3. IsInjective(f)
    BY <1>3, <2>2, AppendFresh, Zenon
  <2> HIDE DEF f
  <2> QED
    BY <1>1, <1>2, <1>5, <2>1, <2>3 DEF EachPacketOnce
<1>6. voq \in [exists : BOOLEAN, fifo : Seq(1..nsent), flushAt : Nat]
  BY DEF TInv, TypeOK
<1>7. RxPrevEpoch(p) => ToHost(p) /\ voq'.fifo = voq.fifo
  BY DEF RxPrevEpoch
<1>8. \A ecn \in EcnMarks :
         RxPhase0(p, ecn) => ToHost(p) /\ voq'.fifo = voq.fifo
  BY <1>6 DEF RxPhase0
<1>9. \A ecn \in EcnMarks :
         RxPhase1InOrder(p, ecn) => ToHost(p) /\ voq'.fifo = voq.fifo
  BY DEF RxPhase1InOrder
<1>10. \A ecn \in EcnMarks :
         RxPhase1OutOfOrder(p, ecn)
            => delivered' = delivered /\ voq'.fifo = Append(voq.fifo, p.id)
  BY DEF RxPhase1OutOfOrder
<1> QED
  BY <1>4, <1>5, <1>7, <1>8, <1>9, <1>10 DEF RxReceive

LEMMA VOQFlushOnce ==
    ASSUME TInv, EachPacketOnce, VOQFlush PROVE EachPacketOnce'
<1>1. /\ net' = net /\ nsent' = nsent /\ lost' = lost
      /\ delivered' = delivered \o voq.fifo /\ voq'.fifo = <<>>
  BY DEF VOQFlush, NoVOQ
<1>2. voq.fifo \in Seq(1..nsent) /\ delivered \in Seq(1..nsent)
  BY DEF TInv, TypeOK
<1>3. /\ Range(delivered') = Range(delivered) \cup Range(voq.fifo)
      /\ IsInjective(delivered')
  BY <1>1, <1>2, ConcatDisjoint DEF EachPacketOnce
<1>4. Range(voq'.fifo) = {} /\ IsInjective(voq'.fifo)
  BY <1>1 DEF Range, IsInjective
<1>5. NetIds' = NetIds
  BY <1>1 DEF NetIds
<1> QED
  BY <1>1, <1>3, <1>4, <1>5 DEF EachPacketOnce

LEMMA DropOnce ==
    ASSUME TInv, EachPacketOnce, NEW p \in net, Drop(p) PROVE EachPacketOnce'
<1>1. /\ net' = net \ {p} /\ nsent' = nsent /\ lost' = lost \cup {p.id}
      /\ delivered' = delivered /\ voq' = voq
  BY DEF Drop, Consume
<1>2. /\ NetIds' = NetIds \ {p.id} /\ p.id \in NetIds
      /\ \A q, r \in net' : q.id = r.id => q = r
  BY <1>1, TakenFromNet
<1> QED
  BY <1>1, <1>2 DEF EachPacketOnce

\* Rerouting and buffering neither lose nor duplicate a packet, whatever the
\* delays, the timers and the drops of the fabric.
THEOREM PacketsConserved == Spec => []EachPacketOnce
<1>1. Init => EachPacketOnce
  <2> SUFFICES ASSUME Init PROVE EachPacketOnce
    OBVIOUS
  <2>1. net = {} /\ lost = {} /\ voq.fifo = <<>> /\ delivered = <<>> /\ nsent = 0
    BY DEF Init, NoVOQ
  <2>2. Range(voq.fifo) = {} /\ Range(delivered) = {}
    BY <2>1 DEF Range
  <2>3. IsInjective(voq.fifo) /\ IsInjective(delivered)
    BY <2>1 DEF IsInjective
  <2> QED
    BY <2>1, <2>2, <2>3 DEF EachPacketOnce, NetIds
<1>2. TInv /\ EachPacketOnce /\ [Next]_vars => EachPacketOnce'
  <2> SUFFICES ASSUME TInv, EachPacketOnce, [Next]_vars PROVE EachPacketOnce'
    OBVIOUS
  <2>1. CASE TxData
    BY <2>1, EmitOnce
  <2>2. CASE \E p \in net : RxReceive(p)
    BY <2>2, RxReceiveOnce
  <2>3. CASE VOQFlush
    BY <2>3, VOQFlushOnce
  <2>4. CASE \E p \in net : Drop(p)
    BY <2>4, DropOnce
  <2>5. CASE UNCHANGED <<net, nsent, lost, voq, delivered>>
    BY <2>5 DEF EachPacketOnce, NetIds
  <2>6. (\E r \in replies : TxReply(r)) \/ (\E n \in notifies : TxNotify(n))
           \/ TxAging \/ RxAging \/ Tick \/ UNCHANGED vars
        => UNCHANGED <<net, nsent, lost, voq, delivered>>
    BY DEF TxReply, TxNotify, TxAging, RxAging, Tick, vars
  <2> QED
    BY <2>1, <2>2, <2>3, <2>4, <2>5, <2>6 DEF Next, Events
<1> QED
  BY <1>1, <1>2, InitTInv, NextTInv, PTL DEF Spec

-----------------------------------------------------------------------------
(***************************************************************************)
(* The choice of a path.                                                   *)
(***************************************************************************)

\* A path that is sampled because one of the two is good is good itself.
LEMMA SampledIsGood ==
    ASSUME NEW r1 \in Paths, NEW r2 \in Paths, FoundGoodPath(r1, r2)
    PROVE  GoodPath(SampledPath(r1, r2))
  BY DEF FoundGoodPath, SampledPath

\* A flow that is moved goes to a good path.
LEMMA MovedToGood ==
    ASSUME NEW r1 \in Paths, NEW r2 \in Paths, tx.pathId \in Paths,
           ReroutedPath(r1, r2) # tx.pathId
    PROVE  GoodPath(ReroutedPath(r1, r2))
<1>1. HeldPath(r1, r2) = tx.pathId
  BY PathsAssumption DEF HeldPath
<1>2. FoundGoodPath(r1, r2)
  BY <1>1 DEF ReroutedPath
<1> QED
  BY <1>2, SampledIsGood DEF ReroutedPath

\* The path that the step chooses for a flow that already has one.
LEMMA StepAvoidsPaused ==
    ASSUME TInv, [Next]_vars,
           tx.pathId \in Paths, tx'.pathId \in Paths \ {tx.pathId}
    PROVE  GoodPath(tx'.pathId)
<1>1. CASE TxData
  <2>1. ASSUME NEW r1 \in Paths, NEW r2 \in Paths, TxNewFlowlet(r1, r2)
        PROVE  GoodPath(tx'.pathId)
    <3>1. tx' = NewRoundEntry(ReroutedPath(r1, r2))
      BY <2>1 DEF TxNewFlowlet, Emit
    <3>2. tx'.pathId = ReroutedPath(r1, r2)
      BY <3>1, PathChosen, NewRoundTyped
    <3> QED
      BY <3>2, MovedToGood
  <2>2. ASSUME NEW r1 \in Paths, NEW r2 \in Paths, TxReroute(r1, r2)
        PROVE  GoodPath(tx'.pathId)
    <3>1. tx' = TailEntry(ReroutedPath(r1, r2))
      BY <2>2 DEF TxReroute, Emit
    <3>2. tx'.pathId = ReroutedPath(r1, r2)
      BY <3>1, PathChosen, TailTyped
    <3> QED
      BY <3>2, MovedToGood
  <2>3. CASE TxNextEpoch
    <3>1. tx' = NewRoundEntry(tx.pathId)
      BY <2>3 DEF TxNextEpoch, Emit
    <3>2. tx'.pathId = tx.pathId
      BY <3>1, NewRoundTyped
    <3> QED
      BY <3>2
  <2>4. CASE TxOrdinary
    <3>1. tx' = [tx EXCEPT !.activeTime = now] /\ tx \in TxEntry
      BY <2>4 DEF TxOrdinary, Emit, TInv, TypeOK
    <3>2. tx'.pathId = tx.pathId
      BY <3>1 DEF TxEntry
    <3> QED
      BY <3>2
  <2> QED
    BY <1>1, <2>1, <2>2, <2>3, <2>4 DEF TxData
<1>2. ASSUME NEW r \in replies, TxReply(r) PROVE GoodPath(tx'.pathId)
  <2>1. tx' \in {tx, [tx EXCEPT !.stabilized = TRUE, !.replyTimer = CwMaxTime]}
    BY <1>2 DEF TxReply
  <2>2. tx'.pathId = tx.pathId
    BY <2>1 DEF TInv, TypeOK, TxEntry
  <2> QED
    BY <2>2
<1>3. CASE TxAging
  <2>1. tx' \in {tx, NewTxEntry}
    BY <1>3 DEF TxAging
  <2> QED
    BY <2>1, PathsAssumption DEF NewTxEntry
<1>4. CASE UNCHANGED tx
  BY <1>4
<1>5. (\E p \in net : RxReceive(p) \/ Drop(p)) \/ VOQFlush \/ RxAging \/ Tick
         \/ (\E n \in notifies : TxNotify(n)) \/ UNCHANGED vars
      => UNCHANGED tx
  BY DEF RxReceive, RxPrevEpoch, RxPhase0, RxPhase1InOrder, RxPhase1OutOfOrder,
         RxRest, Drop, VOQFlush, RxAging, Tick, TxNotify, vars
<1> QED
  BY <1>1, <1>2, <1>3, <1>4, <1>5 DEF Next, Events

\* A flow that has a path is never moved to one whose NOTIFY is still in force,
\* whatever the two samples are.
THEOREM PausedPathsAvoided == Spec => PausedPathAvoided
<1> DEFINE Avoids ==
             tx.pathId \in Paths /\ tx'.pathId \in Paths \ {tx.pathId}
               => LET entry == pathTable[SlotOf[tx'.pathId]]
                  IN  entry.pathId = tx'.pathId => entry.invalidTime <= now
<1>1. TInv /\ [Next]_vars => Avoids
  <2> SUFFICES ASSUME TInv, [Next]_vars,
                      tx.pathId \in Paths, tx'.pathId \in Paths \ {tx.pathId}
               PROVE  LET entry == pathTable[SlotOf[tx'.pathId]]
                      IN  entry.pathId = tx'.pathId => entry.invalidTime <= now
    OBVIOUS
  <2>1. GoodPath(tx'.pathId)
    BY StepAvoidsPaused
  <2>2. pathTable[SlotOf[tx'.pathId]].invalidTime \in Nat /\ now \in Nat
    BY PathsAssumption DEF TInv, TypeOK, Slots, PathEntry
  <2> QED
    BY <2>1, <2>2 DEF GoodPath
<1>2. Avoids => [Avoids]_tx
  OBVIOUS
<1> HIDE DEF Avoids
<1>3. TInv /\ [Next]_vars => [Avoids]_tx
  BY <1>1, <1>2
<1>4. Spec => [][Avoids]_tx
  BY <1>3, InitTInv, NextTInv, PTL DEF Spec
<1> QED
  BY <1>4 DEF PausedPathAvoided, Avoids

-----------------------------------------------------------------------------
(***************************************************************************)
(* One path for each phase of an epoch.                                    *)
(***************************************************************************)

\* A flow is not forgotten while its packets may still be under way.
AgingOutlastsFabric == \A r \in Paths : MaxDelay[r] <= AgingTime

\* What is under way was sent no later than the source's last packet and is not
\* overdue; what belongs to the current epoch is on the path of its phase.
PathInv ==
    /\ \A p \in net :
          /\ p.tsTx <= tx.activeTime /\ now <= p.tsTx + MaxDelay[p.path]
          /\ p.epoch <= tx.epoch
          /\ p.epoch = tx.epoch =>
                p.phase <= tx.phase /\ (p.phase = tx.phase => p.path = tx.pathId)
    /\ OnePathPerPhase

\* The numbers that PathInv compares.
LEMMA PathFacts ==
    ASSUME TInv, NEW p \in net
    PROVE  /\ p.path \in Paths /\ MaxDelay[p.path] \in Nat
           /\ p.tsTx \in Nat /\ p.epoch \in Nat /\ p.phase \in {0, 1}
           /\ now \in Nat /\ tx.epoch \in Nat /\ tx.activeTime \in Nat
           /\ tx.activeTime <= now /\ tx.phase \in {0, 1}
  BY PathsAssumption DEF TInv, TypeOK, DataPacket, TxEntry, Times

\* A packet of a new epoch.
LEMMA NewRoundPath ==
    ASSUME TInv, PathInv, NEW path \in Paths,
           Emit(path, 0, "INIT", NewRoundEntry(path))
    PROVE  PathInv'
<1> DEFINE tagged == [id |-> nsent + 1, path |-> path, epoch |-> NewRoundEntry(path).epoch,
                      phase |-> 0, flag |-> "INIT", tsTx |-> now,
                      tsTail |-> NewRoundEntry(path).tailTime]
<1>1. PICK k : /\ net' = net \cup {k}
               /\ k.tsTx = now /\ k.epoch = tx.epoch + 1 /\ k.phase = 0 /\ k.path = path
  <2>1. net' = net \cup {tagged}
    BY DEF Emit
  <2>2. /\ tagged.tsTx = now /\ tagged.epoch = tx.epoch + 1 /\ tagged.phase = 0
        /\ tagged.path = path
    BY NewRoundTyped
  <2> HIDE DEF tagged
  <2> QED
    BY <2>1, <2>2
<1>2. /\ now' = now /\ now \in Nat /\ MaxDelay[path] \in Nat /\ tx.epoch \in Nat
      /\ tx'.activeTime = now /\ tx'.epoch = tx.epoch + 1 /\ tx'.phase = 0
      /\ tx'.pathId = path
  BY NewRoundTyped, PathsAssumption DEF Emit, TInv, TypeOK, TxEntry, NewRoundEntry
<1>3. ASSUME NEW p \in net'
      PROVE  /\ p.tsTx <= tx'.activeTime /\ now' <= p.tsTx + MaxDelay[p.path]
             /\ p.epoch <= tx'.epoch
             /\ p.epoch = tx'.epoch => p = k
  <2>1. CASE p = k
    BY <1>1, <1>2, <2>1
  <2>2. CASE p \in net
    BY <1>1, <1>2, <2>2, PathFacts DEF PathInv
  <2> QED
    BY <1>1, <2>1, <2>2
<1>4. OnePathPerPhase'
  <2> SUFFICES ASSUME NEW p \in net', NEW q \in net', p.epoch = q.epoch, p.phase = q.phase
               PROVE  p.path = q.path
    BY DEF OnePathPerPhase
  <2>1. CASE p.epoch = tx'.epoch
    BY <1>3, <2>1
  <2>2. CASE p.epoch # tx'.epoch
    <3>1. p \in net /\ q \in net
      BY <1>1, <1>2, <2>2
    <3> QED
      BY <3>1 DEF PathInv, OnePathPerPhase
  <2> QED
    BY <2>1, <2>2
<1> QED
  BY <1>1, <1>2, <1>3, <1>4 DEF PathInv

\* A packet of the epoch and phase of the entry, on the entry's path.
LEMMA SamePhasePath ==
    ASSUME TInv, PathInv, tx.pathId \in Paths,
           NEW flag, NEW entry \in TxEntry, NEW phase \in {0, 1}, phase = tx.phase,
           entry.epoch = tx.epoch, entry.activeTime = now,
           (entry.phase = phase /\ entry.pathId = tx.pathId) \/ phase < entry.phase,
           Emit(tx.pathId, phase, flag, entry)
    PROVE  PathInv'
<1> DEFINE tagged == [id |-> nsent + 1, path |-> tx.pathId, epoch |-> entry.epoch,
                      phase |-> phase, flag |-> flag, tsTx |-> now,
                      tsTail |-> entry.tailTime]
<1>1. PICK k : /\ net' = net \cup {k}
               /\ k.tsTx = now /\ k.epoch = tx.epoch /\ k.phase = tx.phase
               /\ k.path = tx.pathId
  <2>1. net' = net \cup {tagged}
    BY DEF Emit
  <2>2. /\ tagged.tsTx = now /\ tagged.epoch = tx.epoch /\ tagged.phase = tx.phase
        /\ tagged.path = tx.pathId
    OBVIOUS
  <2> HIDE DEF tagged
  <2> QED
    BY <2>1, <2>2
<1>2. /\ now' = now /\ now \in Nat /\ MaxDelay[tx.pathId] \in Nat /\ tx.epoch \in Nat
      /\ tx'.activeTime = now /\ tx'.epoch = tx.epoch /\ tx' = entry
      /\ entry.phase \in {0, 1} /\ tx.phase \in {0, 1}
  BY PathsAssumption DEF Emit, TInv, TypeOK, TxEntry
<1>3. ASSUME NEW p \in net', p.epoch = tx.epoch
      PROVE  p.phase \in {0, 1} /\ p.phase <= tx.phase /\ (p.phase = tx.phase => p.path = tx.pathId)
  <2>1. CASE p = k
    BY <1>1, <1>2, <2>1
  <2>2. CASE p \in net
    BY <1>2, <1>3, <2>2, PathFacts DEF PathInv
  <2> QED
    BY <1>1, <2>1, <2>2
<1>4. ASSUME NEW p \in net'
      PROVE  /\ p.tsTx <= tx'.activeTime /\ now' <= p.tsTx + MaxDelay[p.path]
             /\ p.epoch <= tx'.epoch
  <2>1. CASE p = k
    BY <1>1, <1>2, <2>1
  <2>2. CASE p \in net
    BY <1>2, <2>2, PathFacts DEF PathInv
  <2> QED
    BY <1>1, <2>1, <2>2
<1>5. ASSUME NEW p \in net', p.epoch = tx'.epoch
      PROVE  p.phase <= tx'.phase /\ (p.phase = tx'.phase => p.path = tx'.pathId)
  BY <1>2, <1>3, <1>5
<1>6. OnePathPerPhase'
  <2> SUFFICES ASSUME NEW p \in net', NEW q \in net', p.epoch = q.epoch, p.phase = q.phase
               PROVE  p.path = q.path
    BY DEF OnePathPerPhase
  <2>1. CASE p \in net /\ q \in net
    BY <2>1 DEF PathInv, OnePathPerPhase
  <2>2. CASE p = k \/ q = k
    BY <1>1, <1>3, <2>2
  <2> QED
    BY <1>1, <2>1, <2>2
<1> QED
  BY <1>4, <1>5, <1>6 DEF PathInv

LEMMA TxDataPath ==
    ASSUME TInv, PathInv, TxData PROVE PathInv'
<1>1. tx \in TxEntry /\ now \in Times
  BY DEF TInv, TypeOK, Times
<1>2. ASSUME NEW r1 \in Paths, NEW r2 \in Paths, TxNewFlowlet(r1, r2)
      PROVE  PathInv'
  <2> DEFINE path == ReroutedPath(r1, r2)
  <2>1. path \in Paths
    BY PathChosen
  <2>2. Emit(path, 0, "INIT", NewRoundEntry(path))
    BY <1>2 DEF TxNewFlowlet
  <2> HIDE DEF path
  <2> QED
    BY <2>1, <2>2, NewRoundPath
<1>3. ASSUME NEW r1 \in Paths, NEW r2 \in Paths, TxReroute(r1, r2)
      PROVE  PathInv'
  <2> DEFINE new == ReroutedPath(r1, r2)
  <2>1. new \in Paths /\ tx.pathId \in Paths
    BY <1>3, PathChosen, NotExpiredKnown DEF TxReroute, ReplyTimedOut
  <2>2. Emit(tx.pathId, 0, "TAIL", TailEntry(new))
    BY <1>3, <2>1, PathsAssumption DEF TxReroute, HeldPath
  <2>3. tx.phase = 0
    BY <1>3, TimesAssumption DEF TxReroute, ReplyTimedOut, TInv, TypeOK, TxWellFormed, TxEntry
  <2> HIDE DEF new
  <2>4. /\ TailEntry(new) \in TxEntry /\ TailEntry(new).epoch = tx.epoch
        /\ TailEntry(new).activeTime = now /\ TailEntry(new).phase = 1
    <3>1. TailEntry(new) \in TxEntry /\ TailEntry(new).epoch = tx.epoch
      BY <2>1, TailTyped
    <3>2. TailEntry(new).activeTime = now /\ TailEntry(new).phase = 1
      BY <1>1 DEF TailEntry, TxEntry
    <3> QED
      BY <3>1, <3>2
  <2>5. 0 < TailEntry(new).phase /\ 0 \in {0, 1} /\ 0 = tx.phase
    BY <2>3, <2>4
  <2> QED
    BY <2>1, <2>2, <2>4, <2>5, SamePhasePath
<1>4. CASE TxNextEpoch
  <2>1. tx.pathId \in Paths
    BY <1>4, NotExpiredKnown DEF TxNextEpoch, TxStabilized
  <2>2. Emit(tx.pathId, 0, "INIT", NewRoundEntry(tx.pathId))
    BY <1>4 DEF TxNextEpoch
  <2> QED
    BY <2>1, <2>2, NewRoundPath
<1>5. CASE TxOrdinary
  <2> DEFINE e == [tx EXCEPT !.activeTime = now]
  <2>1. tx.pathId \in Paths
    BY <1>5, NotExpiredKnown DEF TxOrdinary
  <2>2. /\ e \in TxEntry /\ e.pathId = tx.pathId /\ e.activeTime = now
        /\ e.epoch = tx.epoch /\ e.phase = tx.phase /\ tx.phase \in {0, 1}
    BY <1>1 DEF TxEntry
  <2>3. Emit(tx.pathId, tx.phase, "DATA", e)
    BY <1>5 DEF TxOrdinary
  <2> HIDE DEF e
  <2> QED
    BY <2>1, <2>2, <2>3, SamePhasePath
<1> QED
  BY <1>2, <1>3, <1>4, <1>5 DEF TxData

\* An idle source has nothing under way when its entry is cleared.
LEMMA TxAgingPath ==
    ASSUME AgingOutlastsFabric, TInv, PathInv, TxAging PROVE PathInv'
<1>1. net' = net /\ now' = now
  BY DEF TxAging
<1>2. CASE now - tx.activeTime > AgingTime
  <2>1. ASSUME NEW p \in net PROVE FALSE
    <3>1. /\ p.tsTx <= tx.activeTime /\ now <= p.tsTx + MaxDelay[p.path]
          /\ MaxDelay[p.path] <= AgingTime
      BY PathFacts DEF PathInv, AgingOutlastsFabric
    <3> QED
      BY <1>2, <3>1, PathFacts, TimesAssumption
  <2>2. net' = {}
    BY <1>1, <2>1
  <2> QED
    BY <2>2 DEF PathInv, OnePathPerPhase
<1>3. CASE ~(now - tx.activeTime > AgingTime)
  <2>1. tx' = tx
    BY <1>3 DEF TxAging
  <2> QED
    BY <1>1, <2>1 DEF PathInv, OnePathPerPhase
<1> QED
  BY <1>2, <1>3

LEMMA StepPath ==
    ASSUME AgingOutlastsFabric, TInv, PathInv, [Next]_vars PROVE PathInv'
<1>1. CASE TxData
  BY <1>1, TxDataPath
<1>2. CASE TxAging
  BY <1>2, TxAgingPath
<1>3. CASE /\ net' \subseteq net /\ now' = now
           /\ \A field \in {"activeTime", "epoch", "phase", "pathId"} :
                 tx'[field] = tx[field]
  <2>1. /\ tx'.activeTime = tx.activeTime /\ tx'.epoch = tx.epoch
        /\ tx'.phase = tx.phase /\ tx'.pathId = tx.pathId
    BY <1>3
  <2> QED
    BY <1>3, <2>1 DEF PathInv, OnePathPerPhase
<1>4. CASE Tick
  <2>1. net' = net /\ tx' = tx /\ now' = now + 1 /\ ~Due
    BY <1>4 DEF Tick
  <2>2. ASSUME NEW p \in net PROVE now' <= p.tsTx + MaxDelay[p.path]
    BY <2>1, PathFacts DEF Due
  <2> QED
    BY <2>1, <2>2 DEF PathInv, OnePathPerPhase
<1>5. ASSUME NEW r \in replies, TxReply(r) PROVE PathInv'
  <2>1. tx' \in {tx, [tx EXCEPT !.stabilized = TRUE, !.replyTimer = CwMaxTime]}
    BY <1>5 DEF TxReply
  <2>2. /\ tx'.activeTime = tx.activeTime /\ tx'.epoch = tx.epoch
        /\ tx'.phase = tx.phase /\ tx'.pathId = tx.pathId
    BY <2>1 DEF TInv, TypeOK, TxEntry
  <2> QED
    BY <1>5, <2>2 DEF TxReply, PathInv, OnePathPerPhase
<1>6. (\E p \in net : RxReceive(p) \/ Drop(p)) \/ VOQFlush \/ RxAging
         \/ (\E n \in notifies : TxNotify(n)) \/ UNCHANGED vars
      => net' \subseteq net /\ now' = now /\ tx' = tx
  BY DEF RxReceive, RxPrevEpoch, RxPhase0, RxPhase1InOrder, RxPhase1OutOfOrder,
         RxRest, Consume, Drop, VOQFlush, RxAging, TxNotify, vars
<1> QED
  BY <1>1, <1>2, <1>3, <1>4, <1>5, <1>6 DEF Next, Events

\* Within an epoch and a phase a flow keeps to one path, provided a flow is not
\* forgotten while its packets may be under way: a new count of epochs would
\* meet packets of the old one.
THEOREM PhasesKeepToOnePath ==
    ASSUME AgingOutlastsFabric PROVE Spec => []OnePathPerPhase
<1>1. Init => PathInv
  BY DEF Init, PathInv, OnePathPerPhase
<1>2. TInv /\ PathInv /\ [Next]_vars => PathInv'
  BY StepPath
<1>3. PathInv => OnePathPerPhase
  BY DEF PathInv
<1> QED
  BY <1>1, <1>2, <1>3, InitTInv, NextTInv, PTL DEF Spec

-----------------------------------------------------------------------------
(***************************************************************************)
(* A settled epoch.                                                        *)
(***************************************************************************)

\* A flow is forgotten, at either end, only when what it sent and its replies
\* are gone and the source would start anew; a reply takes longer than the
\* instant after a TAIL at which the VOQ is flushed.
AgingOutlastsReplies ==
    /\ \A r \in Paths : MaxDelay[r] + MaxCtlDelay <= AgingTime
    /\ MaxCtlDelay + TxExpiryTime <= AgingTime
    /\ MinCtlDelay > 1

\* The TAIL is the last packet of its phase 0, and the source is past it.
TailIsLast ==
    \A p \in net : p.flag = "TAIL" =>
        /\ p.phase = 0
        /\ p.epoch = tx.epoch => tx.phase = 1
        /\ \A q \in net : q.epoch = p.epoch /\ q.phase = 0 => q.id <= p.id

\* Reordering needs a VOQ, whose flush is not overdue.
FlushAhead ==
    /\ rx.reordering => voq.exists
    /\ voq.exists => now <= voq.flushAt

\* The receiver has seen the TAIL of the current epoch; a VOQ, if there still is
\* one, is flushed by the given time.
TailSeen(time) ==
    /\ tx.phase = 1
    /\ \A p \in net : p.epoch = tx.epoch => p.phase = 1
    /\ IF rx.reordering THEN voq.exists /\ voq.flushAt <= time ELSE rx.phase = 1

\* What a reply under way tells of the receiver.
RepliesTrue ==
    \A r \in replies :
        /\ now <= r.sentAt + MaxCtlDelay
        /\ r.sentAt + MaxCtlDelay <= tx.activeTime + AgingTime
        /\ r.epoch <= tx.epoch
        /\ r.epoch = tx.epoch =>
              /\ rx.epoch = tx.epoch /\ r.sentAt <= rx.activeTime
              /\ r.phase = 1 => TailSeen(r.sentAt + 1)

\* What the source takes for settled is.
Settled ==
    TxStabilized =>
        /\ rx.epoch = tx.epoch /\ tx.activeTime <= rx.activeTime + MaxCtlDelay
        /\ tx.phase = 1 => ~rx.reordering /\ TailSeen(0)

SettleInv == PathInv /\ EachPacketOnce /\ TailIsLast /\ FlushAhead /\ RepliesTrue /\ Settled

\* What the comparisons of SettleInv are about.
LEMMA EntryFacts ==
    ASSUME TInv
    PROVE  /\ now \in Nat /\ tx.epoch \in Nat /\ tx.phase \in {0, 1}
           /\ tx.activeTime \in Nat /\ tx.activeTime <= now /\ tx.stabilized \in BOOLEAN
           /\ rx.epoch \in Nat /\ rx.phase \in {0, 1}
           /\ rx.activeTime \in Nat /\ rx.activeTime <= now
           /\ rx.reordering \in BOOLEAN /\ voq.exists \in BOOLEAN /\ voq.flushAt \in Nat
           /\ MaxCtlDelay \in Nat /\ MinCtlDelay \in Nat /\ AgingTime \in Nat
           /\ TxExpiryTime \in Nat
  BY TimesAssumption DEF TInv, TypeOK, TxEntry, RxEntry, Times

LEMMA ReplyFacts ==
    ASSUME TInv, NEW r \in replies
    PROVE  /\ r.epoch \in Nat /\ r.phase \in {0, 1} /\ r.sentAt \in Nat /\ r.sentAt <= now
  BY DEF TInv, TypeOK, ReplyPacket, Times

LEMMA AgingBounds ==
    ASSUME AgingOutlastsReplies PROVE AgingOutlastsFabric
<1> SUFFICES ASSUME NEW r \in Paths PROVE MaxDelay[r] <= AgingTime
  BY DEF AgingOutlastsFabric
<1>1. MaxDelay[r] \in Nat /\ MaxCtlDelay \in Nat /\ AgingTime \in Nat
  BY PathsAssumption, TimesAssumption
<1> QED
  BY <1>1 DEF AgingOutlastsReplies

\* The rest of SettleInv.
SettleRest == TailIsLast /\ FlushAhead /\ RepliesTrue /\ Settled

\* A packet is added to the fabric.
LEMMA EmitAdds ==
    ASSUME TInv, NEW path, NEW phase, NEW flag, NEW entry, Emit(path, phase, flag, entry)
    PROVE  /\ \E k : /\ net' = net \cup {k} /\ k.id = nsent + 1 /\ k.flag = flag
                     /\ k.epoch = entry.epoch /\ k.phase = phase
           /\ UNCHANGED <<rx, voq, replies, now>> /\ tx' = entry
           /\ \A p \in net : p.id \in Nat /\ p.id <= nsent /\ nsent \in Nat
<1> DEFINE k == [id |-> nsent + 1, path |-> path, epoch |-> entry.epoch,
                 phase |-> phase, flag |-> flag, tsTx |-> now,
                 tsTail |-> entry.tailTime]
<1>1. net' = net \cup {k}
  BY DEF Emit
<1>2. k.id = nsent + 1 /\ k.flag = flag /\ k.epoch = entry.epoch /\ k.phase = phase
  OBVIOUS
<1> HIDE DEF k
<1>3. UNCHANGED <<rx, voq, replies, now>> /\ tx' = entry
  BY DEF Emit
<1>4. \A p \in net : p.id \in Nat /\ p.id <= nsent /\ nsent \in Nat
  BY DEF TInv, TypeOK, DataPacket
<1> QED
  BY <1>1, <1>2, <1>3, <1>4

LEMMA NewRoundSettle ==
    ASSUME TInv, SettleInv, NEW path \in Paths,
           Emit(path, 0, "INIT", NewRoundEntry(path))
    PROVE  SettleRest'
<1>1. PICK k : /\ net' = net \cup {k} /\ k.id = nsent + 1 /\ k.flag = "INIT"
               /\ k.epoch = NewRoundEntry(path).epoch /\ k.phase = 0
  BY EmitAdds
<1>2. UNCHANGED <<rx, voq, replies, now>> /\ tx' = NewRoundEntry(path)
  BY EmitAdds
<1>3. /\ tx'.epoch = tx.epoch + 1 /\ tx'.phase = 0 /\ k.epoch = tx.epoch + 1
      /\ tx'.activeTime = now /\ tx'.stabilized = FALSE
  BY <1>1, <1>2, NewRoundTyped DEF NewRoundEntry, TInv, TypeOK, TxEntry
<1>4. TailIsLast'
  <2> SUFFICES ASSUME NEW p \in net', p.flag = "TAIL"
               PROVE  /\ p.phase = 0
                      /\ p.epoch = tx'.epoch => tx'.phase = 1
                      /\ \A q \in net' : q.epoch = p.epoch /\ q.phase = 0 => q.id <= p.id
    BY DEF TailIsLast
  <2>1. p \in net /\ p.epoch <= tx.epoch /\ p.epoch \in Nat /\ tx.epoch \in Nat
    BY <1>1, PathFacts DEF SettleInv, PathInv
  <2> QED
    BY <1>1, <1>3, <2>1 DEF SettleInv, TailIsLast
<1>5. FlushAhead'
  BY <1>2 DEF SettleInv, FlushAhead
<1>6. RepliesTrue'
  <2> SUFFICES ASSUME NEW r \in replies'
               PROVE  /\ now' <= r.sentAt + MaxCtlDelay
                      /\ r.sentAt + MaxCtlDelay <= tx'.activeTime + AgingTime
                      /\ r.epoch <= tx'.epoch /\ r.epoch # tx'.epoch
    BY DEF RepliesTrue
  <2>1. r \in replies
    BY <1>2
  <2> QED
    BY <1>2, <1>3, <2>1, EntryFacts, ReplyFacts DEF SettleInv, RepliesTrue
<1>7. Settled'
  BY <1>3 DEF Settled, TxStabilized
<1> QED
  BY <1>4, <1>5, <1>6, <1>7 DEF SettleRest

\* A packet of the current epoch; a TAIL ends phase 0.
LEMMA SameRoundSettle ==
    ASSUME TInv, SettleInv, ~tx.stabilized,
           NEW path, NEW flag, NEW entry, NEW phase, phase = tx.phase,
           entry.epoch = tx.epoch, entry.activeTime = now, entry.stabilized = tx.stabilized,
           \/ flag = "DATA" /\ entry.phase = tx.phase
           \/ flag = "TAIL" /\ tx.phase = 0 /\ entry.phase = 1,
           Emit(path, phase, flag, entry)
    PROVE  SettleRest'
<1>1. PICK k : /\ net' = net \cup {k} /\ k.id = nsent + 1 /\ k.flag = flag
               /\ k.epoch = entry.epoch /\ k.phase = phase
  BY EmitAdds
<1>2. UNCHANGED <<rx, voq, replies, now>> /\ tx' = entry
  BY EmitAdds
<1>3. \A p \in net : p.id \in Nat /\ p.id <= nsent /\ nsent \in Nat
  BY EmitAdds
<1>4. TailIsLast'
  <2> SUFFICES ASSUME NEW p \in net', p.flag = "TAIL"
               PROVE  /\ p.phase = 0
                      /\ p.epoch = tx'.epoch => tx'.phase = 1
                      /\ \A q \in net' : q.epoch = p.epoch /\ q.phase = 0 => q.id <= p.id
    BY DEF TailIsLast
  <2>1. CASE p = k
    <3>0. flag = "TAIL"
      BY <1>1, <2>1
    <3>1. p.phase = 0 /\ tx'.phase = 1
      BY <1>1, <1>2, <2>1, <3>0
    <3>2. ASSUME NEW q \in net' PROVE q.id <= p.id
      <4>0. nsent + 1 <= nsent + 1
        BY DEF TInv, TypeOK
      <4>1. CASE q = k
        BY <1>1, <2>1, <4>0, <4>1
      <4>2. CASE q \in net
        BY <1>1, <1>3, <2>1, <4>2
      <4> QED
        BY <1>1, <4>1, <4>2
    <3> QED
      BY <3>1, <3>2
  <2>2. CASE p \in net
    <3>1. /\ p.phase = 0
          /\ p.epoch = tx.epoch => tx.phase = 1
          /\ \A q \in net : q.epoch = p.epoch /\ q.phase = 0 => q.id <= p.id
      BY <2>2 DEF SettleInv, TailIsLast
    <3>2. p.epoch = tx'.epoch => tx'.phase = 1
      BY <1>2, <3>1
    <3>3. ASSUME NEW q \in net', q.epoch = p.epoch, q.phase = 0 PROVE q.id <= p.id
      <4>1. CASE q = k
        BY <1>1, <1>2, <3>1, <3>3, <4>1
      <4>2. CASE q \in net
        BY <3>1, <3>3, <4>2
      <4> QED
        BY <1>1, <4>1, <4>2
    <3> QED
      BY <3>1, <3>2, <3>3
  <2> QED
    BY <1>1, <2>1, <2>2
<1>5. FlushAhead'
  BY <1>2 DEF SettleInv, FlushAhead
<1>6. RepliesTrue'
  <2> SUFFICES ASSUME NEW r \in replies'
               PROVE  /\ now' <= r.sentAt + MaxCtlDelay
                      /\ r.sentAt + MaxCtlDelay <= tx'.activeTime + AgingTime
                      /\ r.epoch <= tx'.epoch
                      /\ r.epoch = tx'.epoch =>
                            /\ rx'.epoch = tx'.epoch /\ r.sentAt <= rx'.activeTime
                            /\ r.phase = 1 => TailSeen(r.sentAt + 1)'
    BY DEF RepliesTrue
  <2>1. r \in replies
    BY <1>2
  <2>2. /\ now <= r.sentAt + MaxCtlDelay
        /\ r.sentAt + MaxCtlDelay <= tx.activeTime + AgingTime
        /\ r.epoch <= tx.epoch
        /\ r.epoch = tx.epoch =>
              /\ rx.epoch = tx.epoch /\ r.sentAt <= rx.activeTime
              /\ r.phase = 1 => TailSeen(r.sentAt + 1)
    BY <2>1 DEF SettleInv, RepliesTrue
  <2>3. r.sentAt + MaxCtlDelay <= tx'.activeTime + AgingTime
    BY <1>2, <2>1, <2>2, EntryFacts, ReplyFacts
  <2>4. TailSeen(r.sentAt + 1) => TailSeen(r.sentAt + 1)'
    BY <1>1, <1>2 DEF TailSeen
  <2> QED
    BY <1>2, <2>2, <2>3, <2>4
<1>7. Settled'
  BY <1>2 DEF Settled, TxStabilized
<1> QED
  BY <1>4, <1>5, <1>6, <1>7 DEF SettleRest

LEMMA TxDataSettle ==
    ASSUME TInv, SettleInv, TxData PROVE SettleRest'
<1>1. tx \in TxEntry /\ now \in Times
  BY DEF TInv, TypeOK, Times
<1>2. ASSUME NEW r1 \in Paths, NEW r2 \in Paths, TxNewFlowlet(r1, r2)
      PROVE  SettleRest'
  <2> DEFINE path == ReroutedPath(r1, r2)
  <2>1. path \in Paths
    BY PathChosen
  <2>2. Emit(path, 0, "INIT", NewRoundEntry(path))
    BY <1>2 DEF TxNewFlowlet
  <2> HIDE DEF path
  <2> QED
    BY <2>1, <2>2, NewRoundSettle
<1>3. ASSUME NEW r1 \in Paths, NEW r2 \in Paths, TxReroute(r1, r2)
      PROVE  SettleRest'
  <2> DEFINE path  == HeldPath(r1, r2)
             entry == TailEntry(ReroutedPath(r1, r2))
  <2>1. tx.phase = 0 /\ ~tx.stabilized
    BY <1>3, TimesAssumption
       DEF TxReroute, ReplyTimedOut, TxStabilized, TInv, TypeOK, TxWellFormed, TxEntry
  <2>2. Emit(path, 0, "TAIL", entry)
    BY <1>3 DEF TxReroute
  <2>3. /\ entry.epoch = tx.epoch /\ entry.activeTime = now
        /\ entry.stabilized = tx.stabilized /\ entry.phase = 1
    BY <1>1 DEF TailEntry, TxEntry
  <2> HIDE DEF path, entry
  <2> QED
    BY <2>1, <2>2, <2>3, SameRoundSettle
<1>4. CASE TxNextEpoch
  <2>1. tx.pathId \in Paths
    BY <1>4, NotExpiredKnown DEF TxNextEpoch, TxStabilized
  <2>2. Emit(tx.pathId, 0, "INIT", NewRoundEntry(tx.pathId))
    BY <1>4 DEF TxNextEpoch
  <2> QED
    BY <2>1, <2>2, NewRoundSettle
<1>5. CASE TxOrdinary
  <2> DEFINE entry == [tx EXCEPT !.activeTime = now]
  <2>1. ~tx.stabilized
    BY <1>5 DEF TxOrdinary, TxStabilized
  <2>2. Emit(tx.pathId, tx.phase, "DATA", entry)
    BY <1>5 DEF TxOrdinary
  <2>3. /\ entry.epoch = tx.epoch /\ entry.activeTime = now
        /\ entry.stabilized = tx.stabilized /\ entry.phase = tx.phase
    BY <1>1 DEF TxEntry
  <2> HIDE DEF entry
  <2> QED
    BY <2>1, <2>2, <2>3, SameRoundSettle
<1> QED
  BY <1>2, <1>3, <1>4, <1>5 DEF TxData

\* The entry that a packet leaves behind.
LEMMA RxAfterFields ==
    ASSUME TInv, NEW p \in net
    PROVE  /\ RxAfter(p).epoch = p.epoch /\ RxAfter(p).phase = PhaseAfter(p)
           /\ RxAfter(p).activeTime = now /\ RxAfter(p).reordering = rx.reordering
  BY DEF RxAfter, TInv, TypeOK, RxEntry

\* What a packet that arrives changes at the receiver, case by case.
LEMMA RxCases ==
    ASSUME TInv, NEW p \in net, RxReceive(p)
    PROVE  /\ net' = net \ {p} /\ UNCHANGED <<tx, now>> /\ rx'.activeTime = now
           /\ Arrives(p)
           /\ \/ /\ PrevEpoch(p) /\ UNCHANGED <<voq, replies>>
                 /\ rx'.epoch = rx.epoch /\ rx'.phase = rx.phase
                 /\ rx'.reordering = rx.reordering
              \/ /\ ~PrevEpoch(p) /\ p.phase = 0
                 /\ rx'.epoch = p.epoch /\ rx'.phase = PhaseAfter(p)
                 /\ rx'.reordering = rx.reordering
                 /\ voq'.exists = voq.exists
                 /\ voq'.flushAt = IF rx.reordering
                                   THEN Later(FlushTime(p, RxAfter(p)), now)
                                   ELSE voq.flushAt
                 /\ Reply(p)
              \/ /\ ~PrevEpoch(p) /\ p.phase = 1
                 /\ rx'.epoch = p.epoch /\ rx'.phase = PhaseAfter(p)
                 /\ UNCHANGED replies
                 /\ \/ /\ ~OutOfOrder(p) /\ UNCHANGED voq
                       /\ rx'.reordering = rx.reordering
                    \/ /\ OutOfOrder(p) /\ rx'.reordering = TRUE /\ voq'.exists = TRUE
                       /\ voq'.flushAt = IF rx.reordering THEN voq.flushAt
                                         ELSE Later(FlushTime(p, RxAfter(p)), now)
<1>0. /\ net' = net \ {p} /\ UNCHANGED <<tx, now>> /\ Arrives(p)
      /\ rx \in RxEntry /\ RxAfter(p) \in RxEntry
      /\ voq \in [exists : BOOLEAN, fifo : Seq(1..nsent), flushAt : Nat]
  BY RxAfterTyped DEF RxReceive, RxPrevEpoch, RxPhase0, RxPhase1InOrder,
         RxPhase1OutOfOrder, RxRest, Consume, TInv, TypeOK
<1>1. CASE RxPrevEpoch(p)
  <2>1. rx' = [rx EXCEPT !.known = TRUE, !.activeTime = now]
    BY <1>1 DEF RxPrevEpoch
  <2>2. /\ rx'.activeTime = now /\ rx'.epoch = rx.epoch /\ rx'.phase = rx.phase
        /\ rx'.reordering = rx.reordering
    BY <1>0, <2>1 DEF RxEntry
  <2> QED
    BY <1>0, <1>1, <2>2 DEF RxPrevEpoch
<1>2. ASSUME NEW ecn \in EcnMarks, RxPhase0(p, ecn)
      PROVE  /\ ~PrevEpoch(p) /\ p.phase = 0 /\ rx'.activeTime = now
             /\ rx'.epoch = p.epoch /\ rx'.phase = PhaseAfter(p)
             /\ rx'.reordering = rx.reordering
             /\ voq'.exists = voq.exists
             /\ voq'.flushAt = IF rx.reordering
                               THEN Later(FlushTime(p, RxAfter(p)), now)
                               ELSE voq.flushAt
             /\ Reply(p)
  <2>1. /\ ~PrevEpoch(p) /\ p.phase = 0 /\ Reply(p) /\ rx' = RxAfter(p)
        /\ voq' = IF rx.reordering
                  THEN [voq EXCEPT !.flushAt = Later(FlushTime(p, RxAfter(p)), now)]
                  ELSE voq
    BY <1>2 DEF RxPhase0
  <2>2. /\ voq'.exists = voq.exists
        /\ voq'.flushAt = IF rx.reordering
                          THEN Later(FlushTime(p, RxAfter(p)), now)
                          ELSE voq.flushAt
    BY <1>0, <2>1
  <2> QED
    BY <2>1, <2>2, RxAfterFields
<1>3. ASSUME NEW ecn \in EcnMarks, RxPhase1InOrder(p, ecn)
      PROVE  /\ ~PrevEpoch(p) /\ p.phase = 1 /\ rx'.activeTime = now
             /\ rx'.epoch = p.epoch /\ rx'.phase = PhaseAfter(p)
             /\ UNCHANGED replies /\ ~OutOfOrder(p) /\ UNCHANGED voq
             /\ rx'.reordering = rx.reordering
  BY <1>3, RxAfterFields DEF RxPhase1InOrder
<1>4. ASSUME NEW ecn \in EcnMarks, RxPhase1OutOfOrder(p, ecn)
      PROVE  /\ ~PrevEpoch(p) /\ p.phase = 1 /\ rx'.activeTime = now
             /\ rx'.epoch = p.epoch /\ rx'.phase = PhaseAfter(p)
             /\ UNCHANGED replies /\ OutOfOrder(p)
             /\ rx'.reordering = TRUE /\ voq'.exists = TRUE
             /\ voq'.flushAt = IF rx.reordering THEN voq.flushAt
                               ELSE Later(FlushTime(p, RxAfter(p)), now)
  <2>1. rx' = [RxAfter(p) EXCEPT !.reordering = TRUE]
    BY <1>4 DEF RxPhase1OutOfOrder
  <2>2. /\ rx'.activeTime = RxAfter(p).activeTime /\ rx'.epoch = RxAfter(p).epoch
        /\ rx'.phase = RxAfter(p).phase /\ rx'.reordering = TRUE
    BY <1>0, <2>1 DEF RxEntry
  <2> QED
    BY <1>4, <2>2, RxAfterFields DEF RxPhase1OutOfOrder
<1> QED
  BY <1>0, <1>1, <1>2, <1>3, <1>4 DEF RxReceive

\* A flush that is set lies ahead; a TAIL sets it to the next instant.
LEMMA FlushSetAhead ==
    ASSUME TInv, NEW p \in net
    PROVE  LET time == Later(FlushTime(p, RxAfter(p)), now)
           IN  now <= time /\ (IsTail(p) => time = now + 1)
<1> DEFINE f == FlushTime(p, RxAfter(p))
<1>1. Later(f, now) \in Nat /\ now \in Nat
  BY FlushTimeTyped, EntryFacts
<1>2. IsTail(p) => f = now + 1
  BY DEF FlushTime
<1> HIDE DEF f
<1>3. Later(f, now) = f \/ Later(f, now) = now
  BY DEF Later
<1>4. now <= Later(f, now)
  <2>1. CASE f > now
    BY <1>1, <2>1 DEF Later
  <2>2. CASE ~(f > now)
    BY <1>1, <2>2 DEF Later
  <2> QED
    BY <2>1, <2>2
<1>5. IsTail(p) => Later(f, now) = now + 1
  BY <1>1, <1>2 DEF Later
<1> QED
  BY <1>4, <1>5 DEF f

\* A packet of the current epoch, or an older one, does not undo a settled phase.
LEMMA RxKeeps ==
    ASSUME TInv, SettleInv, NEW p \in net, RxReceive(p), rx.epoch = tx.epoch
    PROVE  /\ rx'.epoch = tx'.epoch
           /\ \A time : TailSeen(time) => TailSeen(time)'
           /\ TailSeen(0) /\ ~rx.reordering => ~rx'.reordering
<1>1. /\ net' = net \ {p} /\ UNCHANGED <<tx, now>>
      /\ p.epoch \in Nat /\ tx.epoch \in Nat /\ p.epoch <= tx.epoch
      /\ p.phase \in {0, 1} /\ rx.phase \in {0, 1}
  BY RxCases, PathFacts, EntryFacts DEF SettleInv, PathInv
<1>2. ~PrevEpoch(p) => p.epoch = rx.epoch
  BY <1>1 DEF PrevEpoch
<1>3. rx'.epoch = rx.epoch
  BY <1>2, RxCases
<1>4. ASSUME NEW time, TailSeen(time)
      PROVE  TailSeen(time)' /\ (~rx.reordering => ~rx'.reordering)
  <2>1. /\ tx'.phase = 1
        /\ \A q \in net' : q.epoch = tx'.epoch => q.phase = 1
    BY <1>1, <1>4 DEF TailSeen
  <2>2. p.epoch = tx.epoch => p.phase = 1
    BY <1>4 DEF TailSeen
  <2>3. p.phase = 1 => ~IsTail(p)
    BY DEF SettleInv, TailIsLast, IsTail
  <2>4. CASE PrevEpoch(p)
    <3>1. rx'.phase = rx.phase /\ rx'.reordering = rx.reordering /\ voq' = voq
      BY <2>4, RxCases
    <3> QED
      BY <1>4, <2>1, <3>1 DEF TailSeen
  <2>5. CASE ~PrevEpoch(p)
    <3>1. p.phase = 1 /\ p.epoch = rx.epoch /\ ~IsTail(p)
      BY <1>2, <2>2, <2>3, <2>5
    <3>2. PhaseAfter(p) = rx.phase
      BY <1>1, <3>1 DEF PhaseAfter, NewEpoch
    <3>3. CASE rx.reordering
      <4>0. voq.exists
        BY <1>4, <3>3 DEF TailSeen
      <4>1. rx'.reordering /\ voq'.exists /\ voq'.flushAt = voq.flushAt
        <5>0. /\ \/ /\ ~OutOfOrder(p) /\ UNCHANGED voq
                    /\ rx'.reordering = rx.reordering
                 \/ /\ OutOfOrder(p) /\ rx'.reordering = TRUE /\ voq'.exists = TRUE
                    /\ voq'.flushAt = IF rx.reordering THEN voq.flushAt
                                      ELSE Later(FlushTime(p, RxAfter(p)), now)
          <6>1. p.phase # 0
            BY <3>1
          <6> QED
            BY <2>5, <6>1, RxCases, Zenon
        <5>1. CASE OutOfOrder(p)
          <6>1. rx'.reordering = TRUE /\ voq'.exists = TRUE /\ voq'.flushAt = voq.flushAt
            BY <3>3, <5>0, <5>1, Zenon
          <6> QED
            BY <6>1
        <5>2. CASE ~OutOfOrder(p)
          <6>1. voq' = voq /\ rx'.reordering = rx.reordering
            BY <5>0, <5>2, Zenon
          <6> QED
            BY <3>3, <4>0, <6>1, Zenon
        <5> QED
          BY <5>1, <5>2
      <4> QED
        BY <1>4, <2>1, <3>3, <4>1 DEF TailSeen
    <3>4. CASE ~rx.reordering
      <4>1. rx.phase = 1 /\ ~OutOfOrder(p)
        BY <1>4, <3>1, <3>2, <3>4 DEF TailSeen, OutOfOrder
      <4>2. rx'.phase = 1 /\ rx'.reordering = rx.reordering
        BY <2>5, <3>1, <3>2, <4>1, RxCases
      <4> QED
        BY <2>1, <3>4, <4>2 DEF TailSeen
    <3> QED
      BY <3>3, <3>4
  <2> QED
    BY <2>4, <2>5
<1> QED
  BY <1>1, <1>3, <1>4

\* The reply to a packet tells the truth.
LEMMA NewReplyTrue ==
    ASSUME AgingOutlastsReplies, TInv, SettleInv, NEW p \in net, RxReceive(p),
           NEW r, r \in replies', r \notin replies
    PROVE  /\ now' <= r.sentAt + MaxCtlDelay
           /\ r.sentAt + MaxCtlDelay <= tx'.activeTime + AgingTime
           /\ r.epoch <= tx'.epoch
           /\ r.epoch = tx'.epoch =>
                 /\ rx'.epoch = tx'.epoch /\ r.sentAt <= rx'.activeTime
                 /\ r.phase = 1 => TailSeen(r.sentAt + 1)'
<1>1. /\ ~PrevEpoch(p) /\ p.phase = 0
      /\ rx'.epoch = p.epoch /\ rx'.phase = PhaseAfter(p)
      /\ rx'.reordering = rx.reordering
      /\ voq'.exists = voq.exists
      /\ voq'.flushAt = IF rx.reordering
                        THEN Later(FlushTime(p, RxAfter(p)), now)
                        ELSE voq.flushAt
      /\ Reply(p)
  BY RxCases
<1>2. /\ net' = net \ {p} /\ UNCHANGED <<tx, now>> /\ rx'.activeTime = now /\ Arrives(p)
  BY RxCases
<1>3. /\ r.sentAt = now /\ r.epoch = p.epoch
      /\ r.phase = 1 => IsTail(p)
  <2>1. r = [id |-> p.id, flag |-> p.flag, epoch |-> p.epoch,
             phase |-> IF IsTail(p) THEN 1 ELSE 0, sentAt |-> now]
    BY <1>1 DEF Reply
  <2> QED
    BY <2>1
<1>4. /\ p.tsTx <= tx.activeTime /\ now <= p.tsTx + MaxDelay[p.path] /\ p.epoch <= tx.epoch
      /\ MaxDelay[p.path] + MaxCtlDelay <= AgingTime
  BY PathFacts DEF SettleInv, PathInv, AgingOutlastsReplies
<1>5. now + MaxCtlDelay <= tx.activeTime + AgingTime /\ now <= now + MaxCtlDelay /\ now <= now
  BY <1>4, PathFacts, EntryFacts
<1>6. ASSUME p.epoch = tx.epoch, IsTail(p) PROVE TailSeen(r.sentAt + 1)'
  <2>1. tx'.phase = 1
    BY <1>2, <1>6 DEF SettleInv, TailIsLast, IsTail
  <2>2. ASSUME NEW q \in net', q.epoch = tx'.epoch PROVE q.phase = 1
    <3>1. q \in net /\ q # p /\ q.epoch = p.epoch /\ q.phase \in {0, 1}
      BY <1>2, <1>6, <2>2, PathFacts
    <3>2. CASE q.phase = 0
      <4>1. q.path = p.path
        BY <1>1, <3>1, <3>2 DEF SettleInv, PathInv, OnePathPerPhase
      <4>2. p.id <= q.id
        BY <1>2, <3>1, <4>1 DEF Arrives
      <4>3. q.id <= p.id
        BY <1>6, <3>1, <3>2 DEF SettleInv, TailIsLast, IsTail
      <4>4. p.id \in Nat /\ q.id \in Nat
        BY <3>1 DEF TInv, TypeOK, DataPacket
      <4>5. q.id = p.id
        BY <4>2, <4>3, <4>4
      <4> QED
        BY <3>1, <4>5 DEF SettleInv, EachPacketOnce
    <3> QED
      BY <3>1, <3>2
  <2>3. CASE rx.reordering
    <3>1. voq.exists
      BY <2>3 DEF SettleInv, FlushAhead
    <3>2. voq'.flushAt = now + 1
      BY <1>1, <1>6, <2>3, FlushSetAhead
    <3>3. voq'.flushAt <= r.sentAt + 1
      BY <1>3, <3>2, EntryFacts
    <3>4. voq'.exists /\ rx'.reordering
      BY <1>1, <2>3, <3>1, Zenon
    <3> QED
      BY <2>1, <2>2, <3>3, <3>4 DEF TailSeen
  <2>4. CASE ~rx.reordering
    <3>1. PhaseAfter(p) = 1
      BY <1>6, <2>4 DEF PhaseAfter
    <3> QED
      BY <1>1, <2>1, <2>2, <2>4, <3>1 DEF TailSeen
  <2> QED
    BY <2>3, <2>4
<1> QED
  BY <1>1, <1>2, <1>3, <1>4, <1>5, <1>6

LEMMA RxSettle ==
    ASSUME AgingOutlastsReplies, TInv, SettleInv, NEW p \in net, RxReceive(p)
    PROVE  SettleRest'
<1>1. /\ net' = net \ {p} /\ UNCHANGED <<tx, now>> /\ rx'.activeTime = now
  BY RxCases
<1>2. TailIsLast'
  BY <1>1 DEF SettleInv, TailIsLast
<1>3. FlushAhead'
  <2> DEFINE time == Later(FlushTime(p, RxAfter(p)), now)
  <2>1. now <= time
    BY FlushSetAhead
  <2> HIDE DEF time
  <2>2. \/ voq' = voq /\ rx'.reordering = rx.reordering
        \/ /\ voq'.exists = voq.exists /\ rx'.reordering = rx.reordering
           /\ voq'.flushAt = time \/ voq'.flushAt = voq.flushAt
        \/ /\ voq'.exists = TRUE /\ rx'.reordering = TRUE
           /\ voq'.flushAt = IF rx.reordering THEN voq.flushAt ELSE time
    BY RxCases, Zenon DEF time
  <2>3. /\ rx.reordering => voq.exists
        /\ voq.exists => now <= voq.flushAt
    BY DEF SettleInv, FlushAhead
  <2>4. CASE voq' = voq /\ rx'.reordering = rx.reordering
    BY <1>1, <2>3, <2>4, Zenon DEF FlushAhead
  <2>5. CASE /\ voq'.exists = voq.exists /\ rx'.reordering = rx.reordering
             /\ voq'.flushAt = time \/ voq'.flushAt = voq.flushAt
    BY <1>1, <2>1, <2>3, <2>5, Zenon DEF FlushAhead
  <2>6. CASE /\ voq'.exists = TRUE /\ rx'.reordering = TRUE
             /\ voq'.flushAt = IF rx.reordering THEN voq.flushAt ELSE time
    BY <1>1, <2>1, <2>3, <2>6 DEF FlushAhead
  <2> QED
    BY <2>2, <2>4, <2>5, <2>6
<1>4. RepliesTrue'
  <2> SUFFICES ASSUME NEW r \in replies'
               PROVE  /\ now' <= r.sentAt + MaxCtlDelay
                      /\ r.sentAt + MaxCtlDelay <= tx'.activeTime + AgingTime
                      /\ r.epoch <= tx'.epoch
                      /\ r.epoch = tx'.epoch =>
                            /\ rx'.epoch = tx'.epoch /\ r.sentAt <= rx'.activeTime
                            /\ r.phase = 1 => TailSeen(r.sentAt + 1)'
    BY DEF RepliesTrue
  <2>1. CASE r \notin replies
    BY <2>1, NewReplyTrue
  <2>2. CASE r \in replies
    <3>1. /\ now <= r.sentAt + MaxCtlDelay
          /\ r.sentAt + MaxCtlDelay <= tx.activeTime + AgingTime
          /\ r.epoch <= tx.epoch
          /\ r.epoch = tx.epoch =>
                /\ rx.epoch = tx.epoch /\ r.sentAt <= rx.activeTime
                /\ r.phase = 1 => TailSeen(r.sentAt + 1)
      BY <2>2 DEF SettleInv, RepliesTrue
    <3>2. r.sentAt <= now
      BY <2>2, ReplyFacts
    <3> QED
      BY <1>1, <3>1, <3>2, RxKeeps
  <2> QED
    BY <2>1, <2>2
<1>5. Settled'
  <2> SUFFICES ASSUME TxStabilized'
               PROVE  /\ rx'.epoch = tx'.epoch /\ tx'.activeTime <= rx'.activeTime + MaxCtlDelay
                      /\ tx'.phase = 1 => ~rx'.reordering /\ TailSeen(0)'
    BY DEF Settled
  <2>1. TxStabilized
    BY <1>1 DEF TxStabilized, TxExpired
  <2>2. /\ rx.epoch = tx.epoch
        /\ tx.phase = 1 => ~rx.reordering /\ TailSeen(0)
    BY <2>1 DEF SettleInv, Settled
  <2>3. tx'.activeTime <= rx'.activeTime + MaxCtlDelay
    BY <1>1, EntryFacts
  <2> QED
    BY <1>1, <2>2, <2>3, RxKeeps
<1> QED
  BY <1>2, <1>3, <1>4, <1>5 DEF SettleRest

LEMMA VOQFlushSettle ==
    ASSUME TInv, SettleInv, VOQFlush PROVE SettleRest'
<1>1. /\ UNCHANGED <<net, tx, now, replies>> /\ voq'.exists = FALSE
      /\ rx' = [rx EXCEPT !.reordering = FALSE, !.phase = 1]
  BY DEF VOQFlush, NoVOQ
<1>2. /\ rx'.epoch = rx.epoch /\ rx'.activeTime = rx.activeTime /\ rx'.reordering = FALSE
      /\ rx'.phase = 1
  BY <1>1 DEF TInv, TypeOK, RxEntry
<1>3. \A time : TailSeen(time) => TailSeen(time)'
  BY <1>1, <1>2 DEF TailSeen
<1>4. TailIsLast'
  BY <1>1 DEF SettleInv, TailIsLast
<1>5. FlushAhead'
  BY <1>1, <1>2 DEF FlushAhead
<1>6. RepliesTrue'
  BY <1>1, <1>2, <1>3 DEF SettleInv, RepliesTrue
<1>7. Settled'
  BY <1>1, <1>2, <1>3 DEF SettleInv, Settled, TxStabilized, TxExpired
<1> QED
  BY <1>4, <1>5, <1>6, <1>7 DEF SettleRest

\* The reply that settles the epoch: a VOQ that waited for its TAIL is gone.
LEMMA TxReplySettle ==
    ASSUME AgingOutlastsReplies, TInv, SettleInv, NEW r \in replies, TxReply(r)
    PROVE  SettleRest'
<1>1. /\ UNCHANGED <<net, now, rx, voq>> /\ replies' = replies \ {r}
      /\ r.sentAt + MinCtlDelay <= now
      /\ tx' = IF ReplySettles(r)
               THEN [tx EXCEPT !.stabilized = TRUE, !.replyTimer = CwMaxTime]
               ELSE tx
  BY DEF TxReply, CtlArrives
<1>2. /\ tx'.epoch = tx.epoch /\ tx'.phase = tx.phase /\ tx'.activeTime = tx.activeTime
      /\ tx'.stabilized => (tx.stabilized \/ ReplySettles(r))
  BY <1>1 DEF TInv, TypeOK, TxEntry
<1>3. \A time : TailSeen(time) => TailSeen(time)'
  BY <1>1, <1>2 DEF TailSeen
<1>4. TailIsLast'
  BY <1>1, <1>2 DEF SettleInv, TailIsLast
<1>5. FlushAhead'
  BY <1>1 DEF SettleInv, FlushAhead
<1>6. RepliesTrue'
  BY <1>1, <1>2, <1>3 DEF SettleInv, RepliesTrue
<1>7. ASSUME TxStabilized'
      PROVE  /\ rx.epoch = tx.epoch /\ tx.activeTime <= rx.activeTime + MaxCtlDelay
             /\ tx.phase = 1 => ~rx.reordering /\ TailSeen(0)
  <2>1. CASE tx.stabilized
    <3>1. TxStabilized
      BY <1>1, <1>2, <1>7, <2>1 DEF TxStabilized, TxExpired
    <3> QED
      BY <3>1 DEF SettleInv, Settled
  <2>2. CASE ~tx.stabilized
    <3>1. r.epoch = tx.epoch /\ r.phase = tx.phase
      BY <1>2, <1>7, <2>2 DEF TxStabilized, ReplySettles
    <3>2. /\ now <= r.sentAt + MaxCtlDelay
          /\ rx.epoch = tx.epoch /\ r.sentAt <= rx.activeTime
          /\ r.phase = 1 => TailSeen(r.sentAt + 1)
      BY <3>1 DEF SettleInv, RepliesTrue
    <3>3. tx.activeTime <= rx.activeTime + MaxCtlDelay
      BY <3>2, EntryFacts, ReplyFacts
    <3>4. ASSUME tx.phase = 1 PROVE ~rx.reordering /\ TailSeen(0)
      <4>1. TailSeen(r.sentAt + 1)
        BY <3>1, <3>2, <3>4
      <4>2. CASE rx.reordering
        <5>1. voq.exists /\ voq.flushAt <= r.sentAt + 1
          BY <4>1, <4>2 DEF TailSeen
        <5>2. now <= voq.flushAt
          BY <5>1 DEF SettleInv, FlushAhead
        <5> QED
          BY <1>1, <5>1, <5>2, EntryFacts, ReplyFacts DEF AgingOutlastsReplies
      <4>3. CASE ~rx.reordering
        BY <4>1, <4>3 DEF TailSeen
      <4> QED
        BY <4>2, <4>3
    <3> QED
      BY <3>2, <3>3, <3>4
  <2> QED
    BY <2>1, <2>2
<1>8. Settled'
  BY <1>1, <1>2, <1>3, <1>7 DEF Settled
<1> QED
  BY <1>4, <1>5, <1>6, <1>8 DEF SettleRest

\* The source forgets a flow: nothing of it is under way any more.
LEMMA TxAgingSettle ==
    ASSUME AgingOutlastsReplies, TInv, SettleInv, TxAging PROVE SettleRest'
<1>1. UNCHANGED <<net, now, rx, voq, replies>>
  BY DEF TxAging
<1>2. CASE now - tx.activeTime > AgingTime
  <2>1. ASSUME NEW p \in net PROVE FALSE
    <3>1. /\ p.tsTx <= tx.activeTime /\ now <= p.tsTx + MaxDelay[p.path]
          /\ MaxDelay[p.path] <= AgingTime
      BY AgingBounds, PathFacts DEF SettleInv, PathInv, AgingOutlastsFabric
    <3> QED
      BY <1>2, <3>1, PathFacts, EntryFacts
  <2>2. ASSUME NEW r \in replies PROVE FALSE
    <3>1. now <= r.sentAt + MaxCtlDelay /\ r.sentAt + MaxCtlDelay <= tx.activeTime + AgingTime
      BY DEF SettleInv, RepliesTrue
    <3> QED
      BY <1>2, <3>1, EntryFacts, ReplyFacts
  <2>3. net' = {} /\ replies' = {}
    BY <1>1, <2>1, <2>2
  <2>4. ~TxStabilized'
    <3>1. TInv'
      BY AgingTInv
    <3>2. ~tx'.known
      BY <1>2 DEF TxAging, NewTxEntry
    <3>3. TxExpired'
      BY <1>1, <3>1, <3>2, TimesAssumption DEF TInv, TxWellFormed, TxExpired, NewTxEntry, TypeOK
    <3> QED
      BY <3>3 DEF TxStabilized
  <2> QED
    BY <1>1, <2>3, <2>4 DEF SettleRest, SettleInv, TailIsLast, FlushAhead, RepliesTrue, Settled
<1>3. CASE ~(now - tx.activeTime > AgingTime)
  <2>1. tx' = tx
    BY <1>3 DEF TxAging
  <2> QED
    BY <1>1, <2>1 DEF SettleRest, SettleInv, TailIsLast, FlushAhead, RepliesTrue, Settled,
                      TailSeen, TxStabilized, TxExpired
<1> QED
  BY <1>2, <1>3

\* The receiver forgets a flow: no reply is under way, and the source's entry
\* has expired.
LEMMA RxAgingSettle ==
    ASSUME AgingOutlastsReplies, TInv, SettleInv, RxAging PROVE SettleRest'
<1>1. UNCHANGED <<net, now, tx, voq, replies>>
  BY DEF RxAging
<1>2. CASE now - rx.activeTime > AgingTime
  <2>0. MaxCtlDelay + TxExpiryTime <= AgingTime
    BY DEF AgingOutlastsReplies
  <2>1. ASSUME NEW r \in replies PROVE r.epoch # tx.epoch
    <3>1. /\ now <= r.sentAt + MaxCtlDelay
          /\ r.epoch = tx.epoch => r.sentAt <= rx.activeTime
      BY DEF SettleInv, RepliesTrue
    <3> QED
      BY <1>2, <2>0, <3>1, EntryFacts, ReplyFacts
  <2>2. ~TxStabilized
    <3>1. TxStabilized => tx.activeTime <= rx.activeTime + MaxCtlDelay
      BY DEF SettleInv, Settled
    <3>2. TxStabilized => now <= tx.activeTime + TxExpiryTime
      BY EntryFacts DEF TxStabilized, TxExpired
    <3> QED
      BY <1>2, <2>0, <3>1, <3>2, EntryFacts
  <2>3. rx'.reordering = FALSE
    BY <1>2 DEF RxAging, NewRxEntry
  <2>4. ~TxStabilized'
    BY <1>1, <2>2 DEF TxStabilized, TxExpired
  <2>5. FlushAhead'
    BY <1>1, <2>3 DEF SettleInv, FlushAhead
  <2>6. RepliesTrue'
    BY <1>1, <2>1 DEF SettleInv, RepliesTrue
  <2> QED
    BY <1>1, <2>4, <2>5, <2>6 DEF SettleRest, SettleInv, TailIsLast, Settled
<1>3. CASE ~(now - rx.activeTime > AgingTime)
  <2>1. rx' = rx
    BY <1>3 DEF RxAging
  <2> QED
    BY <1>1, <2>1 DEF SettleRest, SettleInv, TailIsLast, FlushAhead, RepliesTrue, Settled,
                      TailSeen, TxStabilized, TxExpired
<1> QED
  BY <1>2, <1>3

LEMMA TickSettle ==
    ASSUME TInv, SettleInv, Tick PROVE SettleRest'
<1>1. /\ UNCHANGED <<net, tx, rx, voq, replies>> /\ now' = now + 1 /\ ~Due
  BY DEF Tick
<1>2. TailIsLast'
  BY <1>1 DEF SettleInv, TailIsLast
<1>3. FlushAhead'
  BY <1>1, EntryFacts DEF SettleInv, FlushAhead, Due
<1>4. ASSUME NEW r \in replies PROVE now' <= r.sentAt + MaxCtlDelay
  <2>1. ~(r.sentAt + MaxCtlDelay <= now)
    BY <1>1 DEF Due
  <2> QED
    BY <1>1, <2>1, EntryFacts, ReplyFacts
<1>5. RepliesTrue'
  BY <1>1, <1>4 DEF SettleInv, RepliesTrue, TailSeen
<1>6. TxStabilized' => TxStabilized
  BY <1>1, EntryFacts DEF TxStabilized, TxExpired
<1>7. Settled'
  BY <1>1, <1>6 DEF SettleInv, Settled, TailSeen
<1> QED
  BY <1>2, <1>3, <1>5, <1>7 DEF SettleRest

\* Steps that leave the two entries and the replies alone.
LEMMA OthersSettle ==
    ASSUME SettleInv, UNCHANGED <<now, tx, rx, voq, replies>>, net' \subseteq net
    PROVE  SettleRest'
<1>1. TailIsLast'
  BY DEF SettleInv, TailIsLast
<1>2. FlushAhead'
  BY DEF SettleInv, FlushAhead
<1>3. \A time : TailSeen(time) => TailSeen(time)'
  BY DEF TailSeen
<1>4. RepliesTrue'
  BY <1>3 DEF SettleInv, RepliesTrue
<1>5. Settled'
  BY <1>3 DEF SettleInv, Settled, TxStabilized, TxExpired
<1> QED
  BY <1>1, <1>2, <1>4, <1>5 DEF SettleRest

LEMMA StepSettle ==
    ASSUME AgingOutlastsReplies, TInv, SettleInv, [Next]_vars PROVE SettleRest'
<1>1. (\E p \in net : Drop(p)) \/ (\E n \in notifies : TxNotify(n)) \/ UNCHANGED vars
         => UNCHANGED <<now, tx, rx, voq, replies>> /\ net' \subseteq net
  BY DEF Drop, Consume, TxNotify, vars
<1> QED
  BY <1>1, TxDataSettle, RxSettle, VOQFlushSettle, TxReplySettle, TxAgingSettle,
     RxAgingSettle, TickSettle, OthersSettle DEF Next, Events

\* A source that may start a new epoch knows that the last one is over at the
\* receiver, and after a reroute that its old path is empty, whatever is lost or
\* delayed, provided the two ends do not forget a flow that is still in use.
THEOREM StabilizedIsSettled ==
    ASSUME AgingOutlastsReplies PROVE Spec => []StabilizedMeansSettled
<1>1. Init => PathInv /\ SettleRest
  <2> SUFFICES ASSUME Init PROVE PathInv /\ SettleRest
    OBVIOUS
  <2>1. net = {} /\ replies = {} /\ ~rx.reordering /\ ~voq.exists
    BY DEF Init, NewRxEntry, NoVOQ
  <2>2. ~TxStabilized
    BY InitTInv, NotExpiredKnown DEF Init, NewTxEntry, TxStabilized
  <2> QED
    BY <2>1, <2>2 DEF PathInv, OnePathPerPhase, SettleRest, TailIsLast, FlushAhead,
                      RepliesTrue, Settled
<1>2. TInv /\ PathInv /\ [Next]_vars => PathInv'
  BY AgingBounds, StepPath
<1>3. TInv /\ EachPacketOnce /\ PathInv /\ SettleRest /\ [Next]_vars => SettleRest'
  BY StepSettle DEF SettleInv, SettleRest
<1>4. SettleRest => StabilizedMeansSettled
  <2> SUFFICES ASSUME SettleRest, TxStabilized
               PROVE  /\ rx.epoch = tx.epoch
                      /\ tx.phase = 1 =>
                            /\ \A p \in net : p.epoch = tx.epoch => p.phase = 1
                            /\ ~rx.reordering
    BY DEF StabilizedMeansSettled
  <2> QED
    BY DEF SettleRest, Settled, TailSeen
<1> QED
  BY <1>1, <1>2, <1>3, <1>4, InitTInv, NextTInv, PacketsConserved, PTL DEF Spec
=============================================================================
