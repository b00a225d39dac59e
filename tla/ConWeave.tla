------------------------------ MODULE ConWeave ------------------------------
(***************************************************************************)
(* ConWeave load balancing of one flow between two top-of-rack switches:   *)
(* conweave-routing.cc (TxToR and RxToR branches of RouteInput, the aging  *)
(* event) and conweave-voq.cc (the virtual output queue that holds         *)
(* packets that overtook the TAIL of their epoch).                         *)
(*                                                                         *)
(* Time is the simulator's integer clock; an action happens at one instant *)
(* and Tick advances the clock, never past an event that is due.  The      *)
(* fabric between the ToRs is a FIFO channel per path whose delay varies   *)
(* between two bounds; control packets (REPLY, NOTIFY) take any delay up   *)
(* to a bound and may overtake each other.  Packets are identified by the  *)
(* number in which the source host sent them.                              *)
(***************************************************************************)
EXTENDS Integers, Sequences, FiniteSets

CONSTANTS
    Paths,              \* m_ConWeaveRoutingTable[dstToRId]
    DefaultPath,        \* CW_DEFAULT_32BIT, no path
    SlotOf,             \* path |-> index in m_conweavePathTable (DoHash % size)
    MinDelay, MaxDelay, \* path |-> bounds of the fabric's delay
    MinCtlDelay,        \* bounds of a control packet's delay
    MaxCtlDelay,
    BaseRTT,            \* m_rxToRId2BaseRTT
    ExtraReplyDeadline, \* m_extraReplyDeadline
    ExtraVOQFlushTime,  \* m_extraVOQFlushTime
    TxExpiryTime,       \* m_txExpiryTime
    DefaultVOQWaitingTime, \* m_defaultVOQWaitingTime
    PathPauseTime,      \* m_pathPauseTime
    AgingTime,          \* m_agingTime
    CwMaxTime,          \* CW_MAX_TIME, later than any simulation
    StartTime,          \* when the first packet may be sent
    AgingPhases,        \* first AgingEvent of a ToR: StartTime + one of these
    EcnMarks,           \* ECN congestion marks the fabric may set
    MaxPkts,            \* bound: packets sent
    MaxLosses,          \* bound: packets dropped by switches of the fabric
    Horizon             \* bound: last instant of the source host

ASSUME PathsAssumption ==
    /\ DefaultPath \notin Paths
    /\ MinDelay \in [Paths -> Nat]
    /\ MaxDelay \in [Paths -> Nat]
    /\ DOMAIN SlotOf = Paths
    /\ EcnMarks \subseteq BOOLEAN

ASSUME TimesAssumption ==
    /\ MinCtlDelay \in Nat /\ MaxCtlDelay \in Nat
    /\ BaseRTT \in Nat /\ ExtraReplyDeadline \in Nat
    /\ ExtraVOQFlushTime \in Nat /\ DefaultVOQWaitingTime \in Nat
    /\ TxExpiryTime \in Nat /\ PathPauseTime \in Nat
    /\ AgingTime \in Nat \ {0}       \* SetAgingTime refuses others
    /\ CwMaxTime \in Nat /\ StartTime \in Nat
    /\ AgingPhases \subseteq Nat \ {0}
    /\ MaxPkts \in Nat /\ MaxLosses \in Nat /\ Horizon \in Nat
    /\ StartTime < CwMaxTime
    /\ TxExpiryTime < StartTime      \* flows start long after time 0

VARIABLES
    now,        \* Simulator::Now()
    nsent,      \* packets of the flow that entered the source ToR
    tx,         \* m_conweaveTxTable[flow] at the source ToR
    pathTable,  \* m_conweavePathTable at the source ToR
    rx,         \* m_conweaveRxTable[flow] at the destination ToR
    voq,        \* m_voqMap[flow] at the destination ToR
    net,        \* data packets between the ToRs
    lost,       \* numbers of the data packets dropped on the way
    replies,    \* REPLY packets on their way to the source ToR
    notifies,   \* NOTIFY packets on their way to the source ToR
    delivered,  \* packets handed to the destination host
    agingAt     \* when AgingEvent runs next at each ToR

vars == <<now, nsent, tx, pathTable, rx, voq, net, lost, replies, notifies,
          delivered, agingAt>>

Later(a, b) == IF a > b THEN a ELSE b

(***************************************************************************)
(* Table entries as operator[] of the maps creates them; known stands for  *)
(* _flowkey # 0.                                                           *)
(***************************************************************************)
NewTxEntry ==
    [known |-> FALSE, stabilized |-> TRUE, activeTime |-> 0, replyTimer |-> 0,
     epoch |-> 0, phase |-> 0, pathId |-> DefaultPath, tailTime |-> 0]

NewRxEntry ==
    [known |-> FALSE, activeTime |-> 0, epoch |-> 1, phase |-> 0,
     phase0TxTime |-> 0, phase0RxTime |-> 0, phase0Cache |-> FALSE,
     tailTime |-> 0, reordering |-> FALSE]

NewPathEntry == [pathId |-> DefaultPath, invalidTime |-> 0]

NoVOQ == [exists |-> FALSE, fifo |-> <<>>, flushAt |-> 0]

Slots == {SlotOf[r] : r \in Paths}

Init ==
    /\ now = StartTime
    /\ nsent = 0
    /\ tx = NewTxEntry
    /\ pathTable = [s \in Slots |-> NewPathEntry]
    /\ rx = NewRxEntry
    /\ voq = NoVOQ
    /\ net = {}
    /\ lost = {}
    /\ replies = {}
    /\ notifies = {}
    /\ delivered = <<>>
    /\ agingAt \in [{"tx", "rx"} -> {StartTime + a : a \in AgingPhases}]

-----------------------------------------------------------------------------
(***************************************************************************)
(* Source ToR: a data packet arrives from the host.                        *)
(***************************************************************************)
TxExpired == tx.activeTime + TxExpiryTime < now

TxStabilized == ~TxExpired /\ tx.stabilized

ReplyTimedOut == ~TxExpired /\ ~TxStabilized /\ tx.replyTimer < now

\* A path is good unless a NOTIFY about it is still in force.
GoodPath(r) ==
    LET entry == pathTable[SlotOf[r]]
    IN  ~(entry.pathId = r /\ entry.invalidTime > now)

FoundGoodPath(r1, r2) == GoodPath(r1) \/ GoodPath(r2)

\* Mutant: the second sample is never looked at.
SampledFirst(r1, r2) == r1

SampledPath(r1, r2) == IF ~GoodPath(r1) /\ GoodPath(r2) THEN r2 ELSE r1

\* The entry's path once a new connection got its initial one.
HeldPath(r1, r2) ==
    IF tx.pathId = DefaultPath THEN SampledPath(r1, r2) ELSE tx.pathId

\* The entry's path after a decision to reroute.
ReroutedPath(r1, r2) ==
    IF FoundGoodPath(r1, r2) THEN SampledPath(r1, r2) ELSE HeldPath(r1, r2)

ReplyDeadline == now + BaseRTT + ExtraReplyDeadline

NewRoundEntry(path) ==
    [tx EXCEPT !.known = TRUE, !.stabilized = FALSE, !.activeTime = now,
               !.replyTimer = ReplyDeadline, !.epoch = @ + 1, !.phase = 0,
               !.pathId = path, !.tailTime = 0]

\* Mutants of TailEntry: tailTime copied from the timer just cleared; the timer
\* left running.
TailEntryOfTimer(path) ==
    [tx EXCEPT !.activeTime = now, !.replyTimer = CwMaxTime, !.phase = 1,
               !.pathId = path, !.tailTime = CwMaxTime]

TailEntryTimerRuns(path) ==
    [tx EXCEPT !.activeTime = now, !.phase = 1, !.pathId = path,
               !.tailTime = now]

TailEntry(path) ==
    [tx EXCEPT !.activeTime = now, !.replyTimer = CwMaxTime, !.phase = 1,
               !.pathId = path, !.tailTime = now]

\* Tag the packet and put it on its path; the tags of entry but for phase.
Emit(path, phase, flag, entry) ==
    /\ nsent' = nsent + 1
    /\ net' = net \cup {[id |-> nsent + 1, path |-> path,
                         epoch |-> entry.epoch, phase |-> phase,
                         flag |-> flag, tsTx |-> now,
                         tsTail |-> entry.tailTime]}
    /\ tx' = entry
    /\ UNCHANGED <<now, pathTable, rx, voq, lost, replies, notifies, delivered,
                   agingAt>>

SourceSends == nsent < MaxPkts /\ now <= Horizon

\* No traffic for TxExpiryTime: a new epoch on a freshly sampled path.
TxNewFlowlet(r1, r2) ==
    /\ SourceSends
    /\ TxExpired
    /\ LET path == ReroutedPath(r1, r2)
       IN  Emit(path, 0, "INIT", NewRoundEntry(path))

\* The last epoch settled: a new one on the same path.
TxNextEpoch ==
    /\ SourceSends
    /\ TxStabilized
    /\ Emit(tx.pathId, 0, "INIT", NewRoundEntry(tx.pathId))

\* Mutant: the TAIL already takes the new path.
TxRerouteTail(r1, r2) ==
    /\ SourceSends
    /\ ReplyTimedOut
    /\ Emit(ReroutedPath(r1, r2), 0, "TAIL", TailEntry(ReroutedPath(r1, r2)))

\* INIT was not answered in time: TAIL on the old path, then the new path.
TxReroute(r1, r2) ==
    /\ SourceSends
    /\ ReplyTimedOut
    /\ Emit(HeldPath(r1, r2), 0, "TAIL", TailEntry(ReroutedPath(r1, r2)))

TxOrdinary ==
    /\ SourceSends
    /\ ~TxExpired /\ ~TxStabilized /\ ~ReplyTimedOut
    /\ Emit(tx.pathId, tx.phase, "DATA", [tx EXCEPT !.activeTime = now])

-----------------------------------------------------------------------------
(***************************************************************************)
(* Destination ToR: a data packet arrives from the fabric.                 *)
(***************************************************************************)
\* The fabric hands over the oldest packet of a path, within its delays.
Arrives(p) ==
    /\ p.tsTx + MinDelay[p.path] <= now
    /\ \A q \in net : q.path = p.path => p.id <= q.id

PrevEpoch(p) == p.epoch < rx.epoch

NewEpoch(p) == rx.epoch < p.epoch

IsTail(p) == p.flag = "TAIL"

\* A TAIL that meets a reordering of its own epoch leaves the phase alone: the
\* flush will set it.
PhaseAfter(p) ==
    IF NewEpoch(p) THEN IF IsTail(p) THEN 1 ELSE 0
    ELSE IF IsTail(p) /\ ~rx.reordering THEN 1 ELSE rx.phase

RxAfter(p) ==
    [rx EXCEPT !.known = TRUE, !.activeTime = now, !.epoch = p.epoch,
               !.phase = PhaseAfter(p),
               !.phase0TxTime = IF p.phase = 0 THEN p.tsTx ELSE @,
               !.phase0RxTime = IF p.phase = 0 THEN now ELSE @,
               !.phase0Cache = p.phase = 0 \/ (@ /\ ~NewEpoch(p)),
               !.tailTime = IF IsTail(p) \/ p.phase = 1 THEN p.tsTail ELSE @]

OutOfOrder(p) == PhaseAfter(p) < p.phase

\* Predicted distance from the last phase-0 packet to the TAIL.
TimegapAtTx(e) ==
    IF e.phase0Cache THEN Later(e.tailTime - e.phase0TxTime, 0)
                     ELSE DefaultVOQWaitingTime

\* Mutant: no slack for the jitter of the TAIL.
FlushTimeNoSlack(p, e) ==
    IF IsTail(p) THEN now + 1
    ELSE (IF p.phase = 1 /\ e.phase0Cache THEN e.phase0RxTime ELSE now)
         + TimegapAtTx(e)

\* timeExpectedToFlush, from the entry e that p leaves behind.
FlushTime(p, e) ==
    IF IsTail(p) THEN now + 1
    ELSE (IF p.phase = 1 /\ e.phase0Cache THEN e.phase0RxTime ELSE now)
         + TimegapAtTx(e) + ExtraVOQFlushTime

Consume(p) == net' = net \ {p}

\* Mutant: a TAIL is not answered.
ReplyInitOnly(p) ==
    replies' = IF p.flag # "INIT" THEN replies
               ELSE replies \cup {[id |-> p.id, flag |-> p.flag,
                                   epoch |-> p.epoch, phase |-> 0,
                                   sentAt |-> now]}

\* SendReply: INIT and TAIL are answered.
Reply(p) ==
    replies' = IF p.flag = "DATA" THEN replies
               ELSE replies \cup {[id |-> p.id, flag |-> p.flag,
                                   epoch |-> p.epoch,
                                   phase |-> IF IsTail(p) THEN 1 ELSE 0,
                                   sentAt |-> now]}

\* SendNotify: an ECN mark is reported.
Notify(p, ecn) ==
    notifies' = IF ecn
                THEN notifies \cup {[id |-> p.id, path |-> p.path,
                                     sentAt |-> now]}
                ELSE notifies

ToHost(p) == delivered' = Append(delivered, p.id)

RxRest == UNCHANGED <<now, nsent, tx, pathTable, lost, agingAt>>

\* A packet of an older epoch goes straight to the host.
RxPrevEpoch(p) ==
    /\ Arrives(p)
    /\ PrevEpoch(p)
    /\ rx' = [rx EXCEPT !.known = TRUE, !.activeTime = now]
    /\ Consume(p)
    /\ ToHost(p)
    /\ UNCHANGED <<voq, replies, notifies>>
    /\ RxRest

\* A packet of the old path passes, and moves the flush of a VOQ.
RxPhase0(p, ecn) ==
    /\ Arrives(p)
    /\ ~PrevEpoch(p)
    /\ p.phase = 0
    /\ rx' = RxAfter(p)
    /\ voq' = IF rx.reordering
              THEN [voq EXCEPT
                      !.flushAt = Later(FlushTime(p, RxAfter(p)), now)]
              ELSE voq
    /\ Consume(p)
    /\ Notify(p, ecn)
    /\ Reply(p)
    /\ ToHost(p)
    /\ RxRest

\* A packet of the new path after the TAIL, or after the flush, passes.
RxPhase1InOrder(p, ecn) ==
    /\ Arrives(p)
    /\ ~PrevEpoch(p)
    /\ p.phase = 1
    /\ ~OutOfOrder(p)
    /\ rx' = RxAfter(p)
    /\ Consume(p)
    /\ Notify(p, ecn)
    /\ ToHost(p)
    /\ UNCHANGED <<voq, replies>>
    /\ RxRest

\* Mutant: the flush timer is armed only from the second packet on.
RxPhase1OutOfOrderUnarmed(p, ecn) ==
    /\ Arrives(p)
    /\ ~PrevEpoch(p)
    /\ p.phase = 1
    /\ OutOfOrder(p)
    /\ rx' = [RxAfter(p) EXCEPT !.reordering = TRUE]
    /\ voq' = [exists |-> rx.reordering,
               fifo |-> Append(voq.fifo, p.id),
               flushAt |-> Later(FlushTime(p, RxAfter(p)), now)]
    /\ Consume(p)
    /\ Notify(p, ecn)
    /\ UNCHANGED <<replies, delivered>>
    /\ RxRest

\* A packet of the new path before the TAIL waits in the VOQ.
RxPhase1OutOfOrder(p, ecn) ==
    /\ Arrives(p)
    /\ ~PrevEpoch(p)
    /\ p.phase = 1
    /\ OutOfOrder(p)
    /\ rx' = [RxAfter(p) EXCEPT !.reordering = TRUE]
    /\ voq' = [exists |-> TRUE,
               fifo |-> Append(voq.fifo, p.id),
               flushAt |-> IF rx.reordering
                           THEN voq.flushAt
                           ELSE Later(FlushTime(p, RxAfter(p)), now)]
    /\ Consume(p)
    /\ Notify(p, ecn)
    /\ UNCHANGED <<replies, delivered>>
    /\ RxRest

RxReceive(p) ==
    \/ RxPrevEpoch(p)
    \/ \E ecn \in EcnMarks :
          \/ RxPhase0(p, ecn)
          \/ RxPhase1InOrder(p, ecn)
          \/ RxPhase1OutOfOrder(p, ecn)

\* Mutants of VOQFlush: the flag of the entry stays; only one packet leaves.
VOQFlushKeepsFlag ==
    /\ voq.exists
    /\ voq.flushAt = now
    /\ rx' = [rx EXCEPT !.phase = 1]
    /\ delivered' = delivered \o voq.fifo
    /\ voq' = NoVOQ
    /\ UNCHANGED <<now, nsent, tx, pathTable, net, lost, replies, notifies,
                   agingAt>>

VOQFlushOne ==
    /\ voq.exists
    /\ voq.flushAt = now
    /\ rx' = [rx EXCEPT !.reordering = FALSE, !.phase = 1]
    /\ delivered' = Append(delivered, Head(voq.fifo))
    /\ voq' = NoVOQ
    /\ UNCHANGED <<now, nsent, tx, pathTable, net, lost, replies, notifies,
                   agingAt>>

\* EnforceFlushAll: the callback marks the entry, the packets go to the host,
\* the VOQ is deleted.
VOQFlush ==
    /\ voq.exists
    /\ voq.flushAt = now
    /\ rx' = [rx EXCEPT !.reordering = FALSE, !.phase = 1]
    /\ delivered' = delivered \o voq.fifo
    /\ voq' = NoVOQ
    /\ UNCHANGED <<now, nsent, tx, pathTable, net, lost, replies, notifies,
                   agingAt>>

-----------------------------------------------------------------------------
(***************************************************************************)
(* Source ToR: control packets arrive.                                     *)
(***************************************************************************)
CtlArrives(c) == c.sentAt + MinCtlDelay <= now

\* The reply settles the epoch it belongs to; a late INIT reply does not.
ReplySettles(r) ==
    /\ r.epoch = tx.epoch
    /\ r.phase = tx.phase
    /\ r.flag = "INIT" => now < tx.replyTimer /\ tx.replyTimer # CwMaxTime

TxReply(r) ==
    /\ CtlArrives(r)
    /\ tx' = IF ReplySettles(r)
             THEN [tx EXCEPT !.stabilized = TRUE, !.replyTimer = CwMaxTime]
             ELSE tx
    /\ replies' = replies \ {r}
    /\ UNCHANGED <<now, nsent, pathTable, rx, voq, net, lost, notifies,
                   delivered, agingAt>>

TxNotify(n) ==
    /\ CtlArrives(n)
    /\ pathTable' = [pathTable EXCEPT
                       ![SlotOf[n.path]] = [pathId |-> n.path,
                                            invalidTime |-> now + PathPauseTime]]
    /\ notifies' = notifies \ {n}
    /\ UNCHANGED <<now, nsent, tx, rx, voq, net, lost, replies, delivered,
                   agingAt>>

-----------------------------------------------------------------------------
(***************************************************************************)
(* AgingEvent of each ToR: forget the flow if it has been idle.            *)
(***************************************************************************)
TxAging ==
    /\ agingAt["tx"] = now
    /\ tx' = IF now - tx.activeTime > AgingTime THEN NewTxEntry ELSE tx
    /\ agingAt' = [agingAt EXCEPT !["tx"] = now + AgingTime]
    /\ UNCHANGED <<now, nsent, pathTable, rx, voq, net, lost, replies,
                   notifies, delivered>>

RxAging ==
    /\ agingAt["rx"] = now
    /\ rx' = IF now - rx.activeTime > AgingTime THEN NewRxEntry ELSE rx
    /\ agingAt' = [agingAt EXCEPT !["rx"] = now + AgingTime]
    /\ UNCHANGED <<now, nsent, tx, pathTable, voq, net, lost, replies,
                   notifies, delivered>>

-----------------------------------------------------------------------------
\* A switch of the fabric has no buffer for a data packet.  Control packets
\* have the highest priority and are admitted without a check.
Drop(p) ==
    /\ Cardinality(lost) < MaxLosses
    /\ Consume(p)
    /\ lost' = lost \cup {p.id}
    /\ UNCHANGED <<now, nsent, tx, pathTable, rx, voq, replies, notifies,
                   delivered, agingAt>>

-----------------------------------------------------------------------------
\* Something in the network or in the VOQ is still to happen.
Pending == net # {} \/ replies # {} \/ notifies # {} \/ voq.exists

\* An event that must run before the clock moves on.
Due ==
    \/ voq.exists /\ voq.flushAt <= now
    \/ \E p \in net : p.tsTx + MaxDelay[p.path] <= now
    \/ \E c \in replies \cup notifies : c.sentAt + MaxCtlDelay <= now
    \/ \E tor \in {"tx", "rx"} : agingAt[tor] <= now

Tick ==
    /\ now < Horizon \/ Pending
    /\ now + 1 < CwMaxTime
    /\ ~Due
    /\ now' = now + 1
    /\ UNCHANGED <<nsent, tx, pathTable, rx, voq, net, lost, replies,
                   notifies, delivered, agingAt>>

TxData ==
    \/ \E r1, r2 \in Paths : TxNewFlowlet(r1, r2) \/ TxReroute(r1, r2)
    \/ TxNextEpoch
    \/ TxOrdinary

\* What the simulator's event loop runs by itself.
Events ==
    \/ \E p \in net : RxReceive(p)
    \/ VOQFlush
    \/ \E r \in replies : TxReply(r)
    \/ \E n \in notifies : TxNotify(n)
    \/ TxAging
    \/ RxAging
    \/ Tick

Next ==
    \/ TxData
    \/ Events
    \/ \E p \in net : Drop(p)

Spec == Init /\ [][Next]_vars

\* Simulator::Run takes the next event as long as there is one; only the
\* source host may fall silent.
FairSpec == Spec /\ WF_vars(Events)
=============================================================================
