------------------------- MODULE ConWeaveProperties -------------------------
(***************************************************************************)
(* What the ConWeave load balancer has to guarantee, over the state of     *)
(* module ConWeave.                                                        *)
(***************************************************************************)
EXTENDS ConWeave, Functions

Times == 0..now

TxEntry ==
    [known : BOOLEAN, stabilized : BOOLEAN, activeTime : Times,
     replyTimer : Nat, epoch : Nat, phase : {0, 1},
     pathId : Paths \cup {DefaultPath}, tailTime : Times]

PathEntry == [pathId : Paths \cup {DefaultPath}, invalidTime : Nat]

RxEntry ==
    [known : BOOLEAN, activeTime : Times, epoch : Nat, phase : {0, 1},
     phase0TxTime : Times, phase0RxTime : Times, phase0Cache : BOOLEAN,
     tailTime : Times, reordering : BOOLEAN]

DataPacket ==
    [id : 1..nsent, path : Paths, epoch : Nat \ {0}, phase : {0, 1},
     flag : {"DATA", "INIT", "TAIL"}, tsTx : Times, tsTail : Times]

ReplyPacket ==
    [id : 1..nsent, flag : {"INIT", "TAIL"}, epoch : Nat \ {0},
     phase : {0, 1}, sentAt : Times]

NotifyPacket == [id : 1..nsent, path : Paths, sentAt : Times]

\* Every variable has its type; no recorded instant lies in the future (the
\* deadlines replyTimer, invalidTime, flushAt and agingAt may).
TypeOK ==
    /\ now \in Nat
    /\ nsent \in Nat
    /\ tx \in TxEntry
    /\ pathTable \in [Slots -> PathEntry]
    /\ rx \in RxEntry
    /\ voq \in [exists : BOOLEAN, fifo : Seq(1..nsent), flushAt : Nat]
    /\ net \subseteq DataPacket
    /\ lost \subseteq 1..nsent
    /\ replies \subseteq ReplyPacket
    /\ notifies \subseteq NotifyPacket
    /\ delivered \in Seq(1..nsent)
    /\ agingAt \in [{"tx", "rx"} -> Nat]

\* The assertions of the source ToR hold whenever a packet could arrive: a new
\* connection counts as expired, a reply timeout happens in phase 0 only, and
\* only a new connection has no path yet.
TxAssertions ==
    /\ ~tx.known => TxExpired
    /\ ReplyTimedOut => tx.phase = 0
    /\ tx.pathId = DefaultPath => ~tx.known

\* The assertions of the destination ToR about the packet p that arrives next.
RxAssertions(p) ==
    /\ NewEpoch(p) => rx.reordering = voq.exists
    /\ p.phase = 0 /\ rx.reordering => voq.exists
    /\ p.phase = 1 =>
          IF OutOfOrder(p) THEN rx.reordering => voq.exists
                           ELSE ~rx.reordering /\ ~voq.exists

\* The assertions of CallbackByVOQFlush when the flush timer fires.
FlushAssertions == voq.exists /\ voq.flushAt = now => rx.known /\ rx.reordering

\* The simulation never stops with "the tailTime is before Phase0-TxTime": a
\* packet that carries the time of its epoch's TAIL is never combined with a
\* phase-0 packet sent after that TAIL.
TailAfterPhase0 ==
    \A p \in net :
        LET e == RxAfter(p)
        IN  Arrives(p) /\ ~PrevEpoch(p) /\ (p.phase = 1 \/ IsTail(p))
                /\ e.phase0Cache
            => e.phase0TxTime <= e.tailTime

\* No assert() of conweave-routing.cc fails and its fatal exit is not taken,
\* whatever arrives next.
AssertionsHold ==
    /\ TxAssertions
    /\ \A p \in net : Arrives(p) /\ ~PrevEpoch(p) => RxAssertions(p)
    /\ TailAfterPhase0
    /\ FlushAssertions

NetIds == {p.id : p \in net}

\* No packet is lost or duplicated by the rerouting and the reordering buffer:
\* each one is in the fabric, dropped there, in the VOQ or with the host, once.
EachPacketOnce ==
    /\ NetIds \cup lost \cup Range(voq.fifo) \cup Range(delivered) = 1..nsent
    /\ NetIds \cap (lost \cup Range(voq.fifo) \cup Range(delivered)) = {}
    /\ lost \cap (Range(voq.fifo) \cup Range(delivered)) = {}
    /\ Range(voq.fifo) \cap Range(delivered) = {}
    /\ \A p, q \in net : p.id = q.id => p = q
    /\ IsInjective(voq.fifo) /\ IsInjective(delivered)

\* A stabilized flow that has not expired starts a new epoch: the receiver has
\* then seen the last one, and after a reroute its TAIL, so no phase-0 packet is
\* still under way.
StabilizedMeansSettled ==
    TxStabilized =>
        /\ rx.epoch = tx.epoch
        /\ tx.phase = 1 =>
              /\ \A p \in net : p.epoch = tx.epoch => p.phase = 1
              /\ ~rx.reordering

\* Within an epoch and a phase a flow keeps to one path.
OnePathPerPhase ==
    \A p, q \in net : p.epoch = q.epoch /\ p.phase = q.phase => p.path = q.path

\* The switches implement the promise made to the flow.
Channel == INSTANCE FlowChannel WITH sent <- nsent

DeliversInOrder == Channel!Spec

\* The destination host never sees a packet after a later one of its flow.
HostSeesOrder ==
    \A i, j \in DOMAIN delivered : i < j => delivered[i] < delivered[j]

\* A flow is never moved to a path whose NOTIFY is still in force.
PausedPathAvoided ==
    [][tx.pathId \in Paths /\ tx'.pathId \in Paths \ {tx.pathId}
          => LET entry == pathTable[SlotOf[tx'.pathId]]
             IN  entry.pathId = tx'.pathId => entry.invalidTime <= now]_tx

\* A NOTIFY replaces the entry of another path only when that entry expired.
PausedPathKept ==
    [][\A s \in Slots :
          pathTable[s].invalidTime > now
              => pathTable'[s].pathId = pathTable[s].pathId]_pathTable

DeliversEverything == Channel!FairSpec

\* A rerouted flow does not stay in phase 1 as long as the fabric drops nothing:
\* its TAIL is answered and the CLEAR settles the epoch.
RerouteSettles == (tx.phase = 1) ~> (tx.stabilized \/ tx.phase = 0)
=============================================================================
