--------------------------- MODULE PfcProperties ----------------------------
(***************************************************************************)
(* What the buffer accounting and the flow control of a switch promise.    *)
(***************************************************************************)
EXTENDS PfcSwitch

Timers(longest) == 0..After(longest)

\* Every counter is a number of bytes, every timer at most its interval.
PfcTypeOK ==
    /\ ingress \in [total : Nat, sp : [Pools -> Nat], port : [Ports -> Nat],
                    pg : [Ports -> [Classes -> Nat]],
                    hdrm : [Ports -> [Classes -> Nat]]]
    /\ egress \in [qmin : [Ports -> [Classes -> 0..QMin]],
                   shared : [Ports -> [Classes -> Nat]],
                   port : [Ports -> Nat], sp : [Pools -> Nat]]
    /\ pfc \in [paused : [Ports -> [Classes -> BOOLEAN]],
                remote : [Ports -> [Classes -> BOOLEAN]],
                resumeIn : [Ports -> [Classes -> Timers(PauseTime)]]]
    /\ dev \in [Ports -> [queue : [Classes -> Seq([inDev : Ports, size : PktSizes])],
                          bytes : [Classes -> Nat],
                          ctrl : Seq([class : Classes, pause : BOOLEAN]),
                          rrlast : Classes \cup {0},
                          busy : Timers(TxTime),
                          paused : [Classes -> BOOLEAN],
                          resumeIn : [Classes -> Timers(PauseTime)]]]
    /\ peer \in [Ports -> [paused : [Classes -> BOOLEAN],
                           resumeIn : [Classes -> Timers(PauseTime)],
                           busy : 0..PeerTxTime]]
    /\ toPeer \in [Ports -> Seq([class : Classes, pause : BOOLEAN,
                                 left : Timers(Delay)])]
    /\ toSwitch \in [Ports -> Seq([out : Ports, class : Classes, size : PktSizes,
                                   left : Timers(PeerTxTime + Delay)])]

-----------------------------------------------------------------------------
(* Accounting.                                                             *)

Bytes(packets) == SumFunction([i \in DOMAIN packets |-> packets[i].size])

\* The bytes of the packets that came in by port p.
BytesFrom(p, packets) ==
    SumFunction([i \in DOMAIN packets |->
                   IF packets[i].inDev = p THEN packets[i].size ELSE 0])

\* Bytes in the buffer that came in by port p in class c.
BufferedFrom(p, c) ==
    SumFunction([out \in Ports |-> BytesFrom(p, dev[out].queue[c])])

SumOf(f, S) == SumFunctionOnSet(f, S)
InPool(pool) == {c \in Classes : IngressSP(c) = pool}

\* The ingress counters (ports, classes, pools and total) say what is in the
\* buffer, through every order of arrivals, drops and transmissions: nothing
\* leaks and no release finds less than it takes ("Illegal Remove").
IngressAccounted ==
    /\ \A p \in Ports, c \in Classes : ingress.pg[p][c] = BufferedFrom(p, c)
    /\ \A p \in Ports : ingress.port[p] = SumOf(ingress.pg[p], Classes)
    /\ \A s \in Pools : ingress.sp[s] =
         SumFunction([p \in Ports |-> SumOf(ingress.pg[p], InPool(s))])
    /\ ingress.total = SumOf(ingress.port, Ports)

\* The MMU and the device count a queue's bytes separately, in two ways: the
\* MMU's guaranteed and shared parts add up to the device's m_bytesInQueue,
\* and the shared part begins only where the guarantee is used up, whatever
\* packets share a queue and in whatever order they leave.
EgressMatchesQueue ==
    \A p \in Ports, c \in Classes :
      /\ egress.qmin[p][c] + egress.shared[p][c] = dev[p].bytes[c]
      /\ egress.qmin[p][c] <= QMin
      /\ egress.qmin[p][c] < QMin => egress.shared[p][c] = 0

\* The egress counters agree with what the queues hold, queue by queue, and
\* add up over ports and pools, so no release overflows ("STOP overflow").
EgressAccounted ==
    /\ EgressMatchesQueue
    /\ \A p \in Ports, c \in Classes : dev[p].bytes[c] = Bytes(dev[p].queue[c])
    /\ \A p \in Ports : egress.port[p] = SumOf(dev[p].bytes, Classes)
    /\ \A s \in Pools : egress.sp[s] =
         SumFunction([p \in Ports |->
           SumOf(egress.shared[p], {c \in Classes : EgressSP(c) = s})])

\* Whatever a pool holds above its limit is charged to the headroom of some
\* class of it, and no class has more headroom charged than it has bytes: the
\* next packets of the classes that cause the excess meet the headroom limit.
ExcessInHeadroom ==
    /\ \A p \in Ports, c \in Classes : ingress.hdrm[p][c] <= ingress.pg[p][c]
    /\ \A s \in Pools : ingress.sp[s] - BufferLimit <=
         SumFunction([p \in Ports |-> SumOf(ingress.hdrm[p], InPool(s))])

-----------------------------------------------------------------------------
(* Flow control.                                                           *)

\* No arriving packet finds the headroom of its class used up: the PAUSE
\* frames are early enough for what is under way and what follows when a
\* pause runs out.
HeadroomSuffices ==
    \A p \in Ports : FirstDue(toSwitch[p]) =>
      LET pkt == Head(toSwitch[p])
      IN  EgressAdmits(egress, pkt.out, pkt.class, pkt.size) =>
            IngressAdmits(ingress, p, pkt.class, pkt.size)

\* A packet that the egress side admits finds room in the buffer, however the
\* headroom of the ports was summed up: what the ingress limits leave out of the
\* shared pool is not what keeps the buffer from filling up.
BufferSuffices ==
    \A p \in Ports : FirstDue(toSwitch[p]) =>
      LET pkt == Head(toSwitch[p])
      IN  EgressAdmits(egress, pkt.out, pkt.class, pkt.size) =>
            ~BufferFull(ingress, pkt.size)

InHeadroom(p, c) == ingress.hdrm[p][c] # 0 /\ AboveMin(ingress, p, c) > 0

\* No sender's pause runs out while its class is above its minimum and uses
\* headroom: the PAUSE frames that further packets trigger and the draining
\* queues come before m_pausetime ends.
PausesOutlast ==
    \A p \in Ports, c \in Classes :
      Due(peer[p].resumeIn[c]) => ~InHeadroom(p, c)

Receives(p) == \E r \in Routes : r[1] = p
Transmits(p) == \E r \in Routes : r[2] = p

\* A PAUSE waits for the data packet that its port is transmitting.
PauseWait(p) == IF Transmits(p) THEN TxTime ELSE 0

\* What a class may need: two packets before it is above its minimum, the one
\* that lifts it there, and what its sender transmits until the PAUSE arrives
\* and what is then still on the way.
HeadroomAssumption ==
    \A p \in Ports : Receives(p) =>
      MTU * (PauseWait(p) + 2 * Delay + 4 * PeerTxTime) <= PeerTxTime * HdrmLimit[p]

\* What is held back for a port covers the guarantees of its queues.
ReserveAssumption == Cardinality(Classes) * QMin <= QCnt * PgMin

Pending(p, c) ==
    \/ \E i \in 1..Len(toPeer[p]) : toPeer[p][i].class = c
    \/ \E i \in 1..Len(dev[p].ctrl) : dev[p].ctrl[i].class = c

\* While the MMU's pause timer runs and no frame is under way, the peer holds
\* the class: the switch never counts on a pause that has already run out.
PauseObeyed ==
    \A p \in Ports, c \in Classes :
      pfc.resumeIn[p][c] # 0 /\ ~Pending(p, c) => peer[p].paused[c]

\* Every pause of a sender ends, whatever the switch does afterwards.
PauseEnds == \A p \in Ports, c \in Classes : []<>(~peer[p].paused[c])

\* The device starts to transmit a packet of class c.
JustServed(d, c) == d.rrlast = c /\ d.busy = After(TxTime)

\* A class that stays unpaused and queued is served again and again, though
\* another class of the port always has packets too.
NoClassStarves ==
    \A p \in Ports, c \in Classes :
      []<>(dev[p].queue[c] = <<>> \/ JustServed(dev[p], c))

Released(p, c) == ingress'.pg[p][c] < ingress.pg[p][c]

\* "Only send RESUME if really paused", else "Skip RESUME: queue not paused":
\* when a class that just lost bytes may resume and no RESUME is sent, its
\* sender is not paused.
SkipMeansNotPaused ==
    [][\A p \in Ports, c \in Classes :
         Released(p, c) /\ pfc.paused[p][c] /\ pfc'.paused[p][c]
           /\ BelowResume(ingress', p, c)
         => ~peer[p].paused[c]]_vars

=============================================================================
