----------------------------- MODULE PfcSwitch ------------------------------
(***************************************************************************)
(* One switch with priority flow control and the senders at the far ends   *)
(* of its links: SwitchNode (DoSwitchSend, SwitchNotifyDequeue,            *)
(* CheckAndSendPfc, CheckAndSendResume), the MMU's counters and pause      *)
(* timers, QbbNetDevice (Receive, Resume, DequeueAndTransmit) and          *)
(* BEgressQueue.                                                           *)
(*                                                                         *)
(* Handlers call one another within one event of the simulator: admitting  *)
(* a packet may send a PAUSE, start a transmission, release its bytes and  *)
(* send a RESUME.  They are operators from a state of the switch to the    *)
(* state after the call; an action is one event.                           *)
(*                                                                         *)
(* Time: a timer counts the ticks to its event plus one; 0 means not       *)
(* scheduled and 1 means due.  Tick waits for every event that is due.     *)
(***************************************************************************)
EXTENDS SwitchMmu, SequencesExt

CONSTANTS
    PktSizes,       \* sizes of data packets
    Routes,         \* pairs <<inDev, outDev>> that traffic takes
    TxTime,         \* ticks a port of the switch transmits a data packet
    PeerTxTime,     \* the same for a sender, whose link may be faster
    Delay,          \* propagation delay of a link
    PauseTime,      \* m_pausetime
    Garbage,        \* values of memory that is read before it is written
    PausedFromBelow \* <<port, class>> the peer of the port may PAUSE

ASSUME PfcAssumption ==
    /\ PktSizes \subseteq 1..MTU
    /\ Routes \subseteq {r \in Ports \X Ports : r[1] # r[2]}
    /\ TxTime \in Nat \ {0} /\ PeerTxTime \in Nat \ {0}
    /\ Delay \in Nat
    /\ PauseTime \in Nat \ {0}
    /\ Garbage \in {{FALSE}, {TRUE}, BOOLEAN}
    /\ PausedFromBelow \subseteq Ports \X Classes

VARIABLES
    ingress, egress, \* the MMU's counters
    pfc,       \* the MMU's view of its peers: paused, remote, resumeIn
    dev,       \* the switch's devices with their egress queues
    peer,      \* the devices at the other ends: paused, resumeIn, busy
    toPeer,    \* PFC frames on the wire, per port
    toSwitch   \* data packets on the wire, per port

vars == <<ingress, egress, pfc, dev, peer, toPeer, toSwitch>>

After(ticks) == ticks + 1
Due(timer) == timer = 1
ForEach(v) == [c \in Classes |-> v]

\* paused and m_pause_remote are never initialized.
Init ==
    /\ ingress = NoIngress
    /\ egress = NoEgress
    /\ \E paused, remote \in [Ports -> [Classes -> Garbage]] :
         pfc = [paused |-> paused, remote |-> remote,
                resumeIn |-> [p \in Ports |-> ForEach(0)]]
    /\ dev = [p \in Ports |->
                [queue |-> ForEach(<<>>), bytes |-> ForEach(0), ctrl |-> <<>>,
                 rrlast |-> 0, busy |-> 0,
                 paused |-> ForEach(FALSE), resumeIn |-> ForEach(0)]]
    /\ peer = [p \in Ports |->
                 [paused |-> ForEach(FALSE), resumeIn |-> ForEach(0), busy |-> 0]]
    /\ toPeer = [p \in Ports |-> <<>>]
    /\ toSwitch = [p \in Ports |-> <<>>]

\* What the handlers read and write.
Switch == [ingress |-> ingress, egress |-> egress, pfc |-> pfc,
           dev |-> dev, toPeer |-> toPeer]

Become(s) ==
    /\ ingress' = s.ingress
    /\ egress' = s.egress
    /\ pfc' = s.pfc
    /\ dev' = s.dev
    /\ toPeer' = s.toPeer

-----------------------------------------------------------------------------
(* PFC frames.  They take queue 0, which no pause stops and which is served *)
(* before any data; their transmission time is neglected.                  *)

ControlSent(d) == [d EXCEPT !.ctrl = Tail(@), !.busy = After(0)]

SendControl(s, p) ==
    LET f == Head(s.dev[p].ctrl)
    IN  [s EXCEPT
           !.dev[p] = ControlSent(@),
           !.toPeer[p] = Append(@, [class |-> f.class, pause |-> f.pause,
                                    left |-> After(Delay)])]

\* The loops over the classes go upwards.
Upwards(classes) ==
    CHOOSE order \in [1..Cardinality(classes) -> classes] :
      \A i, j \in DOMAIN order : i < j => order[i] < order[j]

Frames(classes, pause) ==
    [i \in 1..Cardinality(classes) |->
       [class |-> Upwards(classes)[i], pause |-> pause]]

ControlQueued(d, frames) == [d EXCEPT !.ctrl = @ \o frames]

\* SendPfc: enqueue, and transmit if the device is idle.
SendPfc(s, p, frames) ==
    LET queued == [s EXCEPT !.dev[p] = ControlQueued(@, frames)]
    IN  IF s.dev[p].busy = 0 /\ frames # <<>> THEN SendControl(queued, p)
        ELSE queued

SetPause(v, p, classes) ==
    [v EXCEPT
       !.paused[p] = [c \in Classes |-> c \in classes \/ @[c]],
       !.resumeIn[p] =
          [c \in Classes |-> IF c \in classes THEN After(PauseTime) ELSE @[c]]]

SetResume(v, p, classes) ==
    [v EXCEPT
       !.paused[p] = [c \in Classes |-> c \notin classes /\ @[c]],
       !.resumeIn[p] = [c \in Classes |-> IF c \in classes THEN 0 ELSE @[c]]]

SetRemote(v, p, classes, value) ==
    [v EXCEPT !.remote[p] =
       [c \in Classes |-> IF c \in classes THEN value ELSE @[c]]]

\* GetResumeClasses
ResumeClass(s, p, c) == s.pfc.paused[p][c] /\ BelowResume(s.ingress, p, c)

\* Mutant: a class that is paused is not paused again.
ToPauseOnce(s, p, q) ==
    {c \in PauseClasses(s.ingress, p, q) : ~s.pfc.paused[p][c]}

\* Every packet of a class above its threshold sends another PAUSE.
ToPause(s, p, q) == PauseClasses(s.ingress, p, q)

\* Mutant: the MMU restarts its timer, but only the first PAUSE is sent.
CheckAndSendPfcOneFrame(s, p, q) ==
    SendPfc([s EXCEPT !.pfc =
               SetRemote(SetPause(@, p, ToPause(s, p, q)), p, ToPause(s, p, q), TRUE)],
            p, Frames(ToPauseOnce(s, p, q), TRUE))

CheckAndSendPfc(s, p, q) ==
    LET pauses  == ToPause(s, p, q)
        told    == [s EXCEPT !.pfc =
                      SetRemote(SetPause(@, p, pauses), p, pauses, TRUE)]
        resumes == {c \in Classes :
                      told.pfc.remote[p][c] /\ ResumeClass(told, p, c)}
    IN  SendPfc([told EXCEPT !.pfc =
                   SetRemote(SetResume(@, p, resumes), p, resumes, FALSE)],
                p, Frames(pauses, TRUE) \o Frames(resumes, FALSE))

\* IsPaused is asked of this switch's own device.
CheckAndSendResume(s, p, c) ==
    IF ResumeClass(s, p, c) /\ s.dev[p].paused[c]
    THEN SendPfc([s EXCEPT !.pfc = SetResume(@, p, {c})], p, Frames({c}, FALSE))
    ELSE s

-----------------------------------------------------------------------------
(* The transmitter of a device.                                            *)

Sendable(d) == {c \in Classes : ~d.paused[c] /\ d.queue[c] # <<>>}

\* Mutant: the lowest class first, without m_rrlast.
NextClassLowest(d) == CHOOSE c \in Sendable(d) : \A e \in Sendable(d) : c <= e

\* DequeueRR: the first class after m_rrlast, modulo qCnt.
NextClass(d) ==
    CHOOSE c \in Sendable(d) :
      \A e \in Sendable(d) :
        (c - d.rrlast - 1) % QCnt <= (e - d.rrlast - 1) % QCnt

\* DoDequeueRR and TransmitStart.
DataSent(d, c) ==
    [d EXCEPT !.queue[c] = Tail(@),
              !.bytes[c] = @ - Head(d.queue[c]).size,
              !.rrlast = c,
              !.busy = After(TxTime)]

\* SwitchNotifyDequeue.
SendData(s, p, c) ==
    LET pkt == Head(s.dev[p].queue[c])
        out == [s EXCEPT
                  !.dev[p] = DataSent(@, c),
                  !.ingress = ReleaseIngress(@, pkt.inDev, c, pkt.size),
                  !.egress = ReleaseEgress(@, p, c, pkt.size)]
    IN  CheckAndSendResume(out, pkt.inDev, c)

DequeueAndTransmit(s, p) ==
    IF s.dev[p].busy # 0 THEN s
    ELSE IF s.dev[p].ctrl # <<>> THEN SendControl(s, p)
    ELSE IF Sendable(s.dev[p]) # {} THEN SendData(s, p, NextClass(s.dev[p]))
    ELSE s

-----------------------------------------------------------------------------
(* Packets from the peers.                                                 *)

Admitted(s, in, out, c, size) ==
    EgressAdmits(s.egress, out, c, size) /\ IngressAdmits(s.ingress, in, c, size)

\* DoEnqueue
Queued(d, in, c, size) ==
    [d EXCEPT !.queue[c] = Append(@, [inDev |-> in, size |-> size]),
              !.bytes[c] = @ + size]

\* Mutant: ingress is charged before the egress check drops the packet.
DoSwitchSendChargeFirst(s, in, out, c, size) ==
    LET charged == [s EXCEPT !.ingress = ChargeIngress(@, in, c, size)]
        told    == CheckAndSendPfc([charged EXCEPT
                     !.egress = ChargeEgress(@, out, c, size)], in, c)
    IN  IF ~IngressAdmits(s.ingress, in, c, size) THEN s
        ELSE IF ~EgressAdmits(s.egress, out, c, size) THEN charged
        ELSE DequeueAndTransmit([told EXCEPT
               !.dev[out] = Queued(@, in, c, size)], out)

DoSwitchSend(s, in, out, c, size) ==
    IF ~Admitted(s, in, out, c, size) THEN s
    ELSE LET charged == [s EXCEPT
                           !.ingress = ChargeIngress(@, in, c, size),
                           !.egress = ChargeEgress(@, out, c, size)]
             told    == CheckAndSendPfc(charged, in, c)
         IN  DequeueAndTransmit([told EXCEPT
               !.dev[out] = Queued(@, in, c, size)], out)

\* A sender's device takes only classes that are not paused (GetNextQindex);
\* it is busy until PeerTxTime has passed.
PeerSend(p, out, c, size) ==
    /\ <<p, out>> \in Routes
    /\ peer[p].busy = 0
    /\ ~peer[p].paused[c]
    /\ peer' = [peer EXCEPT ![p].busy = PeerTxTime]
    /\ toSwitch' = [toSwitch EXCEPT ![p] =
         Append(@, [out |-> out, class |-> c, size |-> size,
                    left |-> After(PeerTxTime + Delay)])]
    /\ UNCHANGED <<ingress, egress, pfc, dev, toPeer>>

FirstDue(wire) == wire # <<>> /\ Due(Head(wire).left)

SwitchReceive(p) ==
    /\ FirstDue(toSwitch[p])
    /\ LET pkt == Head(toSwitch[p])
       IN  Become(DoSwitchSend(Switch, p, pkt.out, pkt.class, pkt.size))
    /\ toSwitch' = [toSwitch EXCEPT ![p] = Tail(@)]
    /\ UNCHANGED peer

Ready(d) == [d EXCEPT !.busy = 0]

TransmitComplete(p) ==
    /\ Due(dev[p].busy)
    /\ Become(DequeueAndTransmit([Switch EXCEPT !.dev[p] = Ready(@)], p))
    /\ UNCHANGED <<peer, toSwitch>>

-----------------------------------------------------------------------------
(* Pause and resume.                                                       *)

Paused(d, c) == [d EXCEPT !.paused[c] = TRUE, !.resumeIn[c] = After(PauseTime)]
Unpaused(d, c) == [d EXCEPT !.paused[c] = FALSE, !.resumeIn[c] = 0]

\* A PAUSE or a RESUME from the peer reaches the switch's own device.
DevicePause(p, c) ==
    /\ <<p, c>> \in PausedFromBelow
    /\ dev' = [dev EXCEPT ![p] = Paused(@, c)]
    /\ UNCHANGED <<ingress, egress, pfc, peer, toPeer, toSwitch>>

Resume(p, c) ==
    /\ Become(DequeueAndTransmit([Switch EXCEPT !.dev[p] = Unpaused(@, c)], p))
    /\ UNCHANGED <<peer, toSwitch>>

DeviceResume(p, c) ==
    <<p, c>> \in PausedFromBelow /\ dev[p].paused[c] /\ Resume(p, c)
DevicePauseExpires(p, c) == Due(dev[p].resumeIn[c]) /\ Resume(p, c)

\* The event SetPause scheduled.
PauseExpires(p, c) ==
    /\ Due(pfc.resumeIn[p][c])
    /\ pfc' = SetResume(pfc, p, {c})
    /\ UNCHANGED <<ingress, egress, dev, peer, toPeer, toSwitch>>

\* Mutant: no event is scheduled to end the pause.
PeerReceiveNoTimer(p) ==
    /\ FirstDue(toPeer[p])
    /\ peer' = [peer EXCEPT
         ![p].paused[Head(toPeer[p]).class] = Head(toPeer[p]).pause]
    /\ toPeer' = [toPeer EXCEPT ![p] = Tail(@)]
    /\ UNCHANGED <<ingress, egress, pfc, dev, toSwitch>>

\* QbbNetDevice::Receive of a PFC frame, at the peer.
PeerReceive(p) ==
    /\ FirstDue(toPeer[p])
    /\ LET f == Head(toPeer[p])
       IN  peer' = [peer EXCEPT
             ![p].paused[f.class] = f.pause,
             ![p].resumeIn[f.class] = IF f.pause THEN After(PauseTime) ELSE 0]
    /\ toPeer' = [toPeer EXCEPT ![p] = Tail(@)]
    /\ UNCHANGED <<ingress, egress, pfc, dev, toSwitch>>

PeerResume(p, c) ==
    /\ Due(peer[p].resumeIn[c])
    /\ peer' = [peer EXCEPT ![p].paused[c] = FALSE, ![p].resumeIn[c] = 0]
    /\ UNCHANGED <<ingress, egress, pfc, dev, toPeer, toSwitch>>

-----------------------------------------------------------------------------
(* The clock.                                                              *)

Earlier(timer) == IF timer = 0 THEN 0 ELSE timer - 1
EarlierAll(timers) == [c \in Classes |-> Earlier(timers[c])]
EarlierWire(wire) ==
    [i \in 1..Len(wire) |-> [wire[i] EXCEPT !.left = Earlier(@)]]

Elapsed(d) == [d EXCEPT !.busy = Earlier(@), !.resumeIn = EarlierAll(@)]

NothingDue ==
    \A p \in Ports :
      /\ ~Due(dev[p].busy)
      /\ ~FirstDue(toPeer[p]) /\ ~FirstDue(toSwitch[p])
      /\ \A c \in Classes : /\ ~Due(pfc.resumeIn[p][c])
                            /\ ~Due(dev[p].resumeIn[c])
                            /\ ~Due(peer[p].resumeIn[c])

Tick ==
    /\ NothingDue
    /\ pfc' = [pfc EXCEPT !.resumeIn = [p \in Ports |-> EarlierAll(@[p])]]
    /\ dev' = [p \in Ports |-> Elapsed(dev[p])]
    /\ peer' = [p \in Ports |-> Elapsed(peer[p])]
    /\ toPeer' = [p \in Ports |-> EarlierWire(toPeer[p])]
    /\ toSwitch' = [p \in Ports |-> EarlierWire(toSwitch[p])]
    /\ UNCHANGED <<ingress, egress>>

Next ==
    \/ \E p \in Ports : \/ SwitchReceive(p)
                        \/ TransmitComplete(p)
                        \/ PeerReceive(p)
    \/ \E p \in Ports, c \in Classes : \/ PauseExpires(p, c)
                                       \/ PeerResume(p, c)
                                       \/ DevicePauseExpires(p, c)
                                       \/ DevicePause(p, c)
                                       \/ DeviceResume(p, c)
    \/ \E p, out \in Ports, c \in Classes, size \in PktSizes : PeerSend(p, out, c, size)
    \/ Tick

Spec == Init /\ [][Next]_vars
\* The event loop runs every event of an instant, then the clock advances.
FairSpec == Spec /\ []<>NothingDue /\ WF_vars(Tick)

=============================================================================
