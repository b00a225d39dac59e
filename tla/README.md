# Verification of the RDMA load-balancing simulator (ConWeave / PRISMA)

This directory holds TLA+ models of the program in `src/`, the TLC
configurations that check them, and proofs checked by TLAPS.  The program is an
ns-3 simulation of an RDMA data-centre network (`conweave-ns3-main/`) with
several load balancers, among them ConWeave with its in-network reordering, plus
the PRISMA reinforcement-learning agents (`prisma/`) that route packets or
choose paths.  ns-3 itself is third-party code.

Below, `P2P` is `src/conweave-ns3-main/src/point-to-point/model`.

## Inventory

| component | state | operations | interacts with |
|---|---|---|---|
| ConWeave routing (`P2P/conweave-routing.cc`, `conweave-voq.cc`) | per flow: Tx entry (epoch, phase, path, reply timer), Rx entry (epoch, phase, TAIL and phase-0 times), VOQ with a flush timer; per switch: path table, aging timer | `RouteInput` at the source ToR, the destination ToR and in the fabric, `SendReply`, `SendNotify`, `EnforceFlushAll`, `AgingEvent` | switch node (callbacks `SwitchSend`, `SwitchSendToDev`), simulator clock |
| Switch MMU (`P2P/switch-mmu.cc`) | bytes per ingress and egress queue, per port, shared pool, headroom, paused flags | admission checks, charging and releasing, PFC and ECN thresholds | switch node |
| Switch node (`P2P/switch-node.cc`) | bytes per in/out port pair, ECMP and preference caches, measurements | `SwitchReceiveFromDevice`, `DoSwitchSend`, `SwitchNotifyDequeue`, `CheckAndSendPfc/Resume` | MMU, devices, every routing |
| PFC device (`P2P/qbb-net-device.cc`, `broadcom-egress-queue.cc`) | paused flag per class, transmit state, round-robin index | `Receive` of PAUSE/RESUME, `DequeueAndTransmit`, `TakeDown` | switch node, RDMA hardware, channel |
| RDMA transport (`P2P/rdma-hw.cc`, `rdma-queue-pair.cc`) | sender: next and unacknowledged sequence, window, SACK blocks, recovery, retransmission timer; receiver: expected sequence, last NACK, SACK blocks | `GetNxtPacket`, `ReceiveAck`, `ReceiveUdp`, `ReceiverCheckSeq`, `RecoverQueue`, `HandleTimeout`, `QpComplete` | PFC device |
| LetFlow, CONGA, DRILL, ECMP | flowlet tables, congestion tables | `RouteInput`, aging | switch node |
| Learned path selection (`route-learning.inc`, `flow-actor-critic.inc`, `coordinated-path.inc`, `route-feedback.h`) | path reports, reservations, weights | choice at flow start, report reception and expiry | switch node, driver |
| OpenGym bridge (`src/opengym/model`) | per leaf: held packet, whether an action is awaited, the last action's flag and number | handshake, blocking request and reply, `ApplyAction`, the last message | gym client, over one socket per leaf |
| PRISMA forwarders (`prisma/source/forwarder.py`, `agent.py`, `utils.py`) | per leaf: last observation and action, counters; shared class variables of `Agent`: packet tracking, cached observations, event queues, clock | `run`, `step`, `treat_info`, `reset`, signalling events | gym client, replay buffers, one thread per leaf |
| PRISMA learning (`replay_buffer.py`, `learner.py`, `models.py`, `trainer.py`) | per leaf: ring of samples, count of samples, gradient steps, target updates | `add`, `sample`, `train_available`, `drain`, `save_all_models` | forwarder and trainer threads share the buffers without a lock |
| PRISMA runner and gym client (`prisma/main.py`, `run_ns3.py`, `ns3_model/ns3env.py`) | episodes, threads, the simulator's process, REP sockets and their ports | start an episode, bind, handshake, poll, reap, stop and join trainers, `finally` | simulator process, forwarders, trainers |
| Drivers (`scratch/network-load-balance.cc`, `run.py`) | configuration | start-up | all |
| Offline search (`path_rollout.py`, `path_policy_*.py`, `routing_experiments.py`) | results of batches | start simulations, compare numbers | runner |

Hard behaviours: packets of one flow on two paths of different and varying
delay; timers that race with packets and control packets; entries of two
switches aged independently; packets dropped by a full switch; PFC messages that
cross data; retransmission against late acknowledgements; threads that share
dictionaries and buffers without a lock; a strictly alternating socket; a
simulator that dies while a thread waits for it; threads that must be joined before a
checkpoint is written.  `PROJECT.json` lists each as a hazard at its line with the
properties that cover it.

What makes each component correct: ConWeave hides its rerouting from the host
(in order, nothing lost or duplicated, every reroute settles); the MMU's counters
agree with the bytes in the buffer and never wrap; PFC loses nothing within the
headroom and every pause ends; the transport acknowledges only what has arrived and
completes each flow once; a forwarder's transitions are the decisions the simulator
carried out, each once; a checkpoint contains exactly the learning its samples imply; the
program ends with its simulator.

## Modules

| module | content |
|---|---|
| `FlowChannel` | abstract specification: the channel a flow is promised - in order, lossless, eventually everything |
| `ConWeave` | one flow between two ToRs: source ToR, destination ToR, VOQ, control packets, aging, drops, clock |
| `ConWeaveProperties` | type invariant, safety, action and liveness properties; the refinement of `FlowChannel` |
| `MCConWeave` | values of the constants for TLC |
| `ConWeaveProofs` | theorems about ConWeave that need no more of the timers than that entries age late: types, conservation, one path per phase, settled flows |
| `ConWeaveTimedProofs` | theorems that rest on the timers: no assertion fails, the host sees the order, the refinement of `FlowChannel` |
| `SwitchMmu` | the MMU's counters: admission checks, charging, releasing, thresholds - operators on the two counter records |
| `PfcSwitch` | one switch with flow control and the senders at its links: MMU, devices, egress queues, wires, timers; uses `SwitchMmu` |
| `PfcProperties` | type invariant, accounting, flow control and liveness properties |
| `MCPfc` | values of the constants for TLC |
| `PfcProofs` | laws of finite sums; theorems about the MMU's accounts: egress queues, ingress counters, pools, headroom, the buffer as a whole |
| `PfcTimingProofs` | theorems about the pause timers of the switch and of its senders, and about all types |
| `HeadroomProofs` | theorem that no arriving packet finds its class's headroom used up, and the horizon argument for it |
| `FlowTransfer` | abstract specification: packets arrive in any order, and the flow completes once, after all of them |
| `RdmaTransport` | one flow between two hosts: go-back-N and IRN, window, SACK blocks, timeout, completion; a fabric that drops and reorders data |
| `RdmaProperties` | type invariant, safety, liveness; the refinement of `FlowTransfer` |
| `MCRdma` | the module TLC runs |
| `RdmaProofs` | theorems about all the safety properties of the transport, the refinement and the window among them |
| `GymBridge` | the runner, a forwarder thread per leaf, the sockets and the simulator's side of the bridge, over several episodes |
| `BridgeProperties` | type invariant, safety of sockets, threads, transitions and ports, termination |
| `MCBridge` | the module TLC runs |
| `BridgeProofs` | theorems about all the safety properties of the bridge: sockets, threads, ports, transitions, counters, dictionaries |
| `ReplayTraining` | forwarders that fill replay buffers, trainers that read them, and the main thread that stops, joins, drains and saves |
| `TrainingProperties` | type invariant, the ring, the schedule, the checkpoint, liveness |
| `MCTraining` | the module TLC runs |
| `TrainingProofs` | theorems about all the safety properties of training |

### ConWeave: state and actions against the code

* `tx` is the flow's `conweaveTxState`; `known` stands for `_flowkey # 0`, so an
  absent entry and the one `operator[]` creates are the same value.
  `TxNewFlowlet`, `TxNextEpoch`, `TxReroute` and `TxOrdinary` are the four outcomes
  of the source branch of `RouteInput` (expired, stabilized, reply timeout, usual),
  each the whole pipeline from CHECK to the tag written on the packet.  The two
  calls of `rand()` are `r1` and `r2`; an unused initial sample is left out.
* `pathTable` has one entry per hash slot; `SlotOf` is `DoHash(path) % size`.  An
  initial entry has `invalidTime` 0 and excludes no path.
* `rx` is `conweaveRxState`.  `RxAfter(p)` is the entry as the pipeline leaves it
  (ROUND, PHASE, TAIL).  `RxPrevEpoch`, `RxPhase0`, `RxPhase1InOrder` and
  `RxPhase1OutOfOrder` are the branches of RESCHEDULE with the calls that follow
  (NOTIFY, REPLY, ENQUEUE, SEND) in the same action, as one event runs them.
* `voq` is the flow's `ConWeaveVOQ`; `flushAt` is the time of `m_checkFlushEvent`.
  `VOQFlush` is `EnforceFlushAll` with the callback that updates `rx` and the one that
  deletes the queue.
* `TxReply` and `TxNotify` receive control packets at the source ToR.
* `TxAging` and `RxAging` are `AgingEvent` at the two switches.  The first event of
  a switch is scheduled by its first packet, of any flow, so its phase is a constant.
* `net` holds tagged packets.  The fabric is a FIFO queue per path with a delay
  between `MinDelay` and `MaxDelay`; `Drop` is a switch without buffer
  (`SwitchNode::DoSwitchSend`).  Control packets take queue 0, which `DoSwitchSend`
  admits without a check, so they are never dropped; they may overtake each other.
* Time is an integer.  `Tick` may not pass an event that is due, and the order of
  the events of one instant is free.  A TAIL schedules the flush one unit later as the
  code does with one nanosecond, the shortest delay there is.

Hash collisions between flow keys, statistics and logging are left out, and the
unused mode without path awareness (`SetConstants` asserts against it).

### PfcSwitch: state and actions against the code

* `ingress` and `egress` are the arrays of `SwitchMmu`: bytes per port and class, per
  port, per service pool, in total, and per class in the headroom; on the egress side the
  guaranteed part (`m_usedEgressQMinBytes`) and the shared part of each queue.
  `ChargeIngress`, `ReleaseIngress`, `ChargeEgress` and `ReleaseEgress` are the four
  `Update`/`Remove` functions, `IngressAdmits` and `EgressAdmits` the two checks.
  A dynamic threshold is a fraction of what a pool has left
  (`AlphaNum / AlphaDen`, `EgressNum / EgressDen`).
* `pfc` holds `paused`, the events of `SetPause` as timers, and `m_pause_remote`.  The
  first and the last are never initialized in C++, so `Init` chooses them from
  `Garbage`.
* `dev` holds per port the transmitter, its data queues, the control queue
  (queue 0), `m_rrlast`, `m_paused` and `m_resumeEvt`.  `peer` is the same for the
  sender at the other end, reduced to what PFC does to it.
* The handlers call one another inside one event: `DoSwitchSend` charges a packet, may
  send PAUSE frames, queues the packet and may start a transmission, which
  releases bytes and may send a RESUME.  They are operators from a switch state to
  the state after the call (`DoSwitchSend`, `CheckAndSendPfc`, `CheckAndSendResume`,
  `SendPfc`, `DequeueAndTransmit`); the actions `SwitchReceive`, `TransmitComplete`,
  `DeviceResume`, `DevicePauseExpires` and `PauseExpires` are the events that start
  them and assign the result with `Become`.
* `DevicePause` and `DeviceResume` are PFC frames of the peer to the switch; the peer is
  free to send them at any time (`PausedFromBelow` says for which queues).
  `PeerReceive` and `PeerResume` are the same handler at the sender.
* `PeerSend` starts any packet of an unpaused class when the sender's link is free.
* A timer counts ticks to its event plus one: 0 is not scheduled, 1 is due.
  `Tick` waits for every due event, the order within an instant is free.

Left out: ECN marking (a random draw that changes no counter), the static
thresholds (`DynamicThreshold` is true in every configuration), link failure, ACK
and CNP traffic in queue 0, `QbbEnabled = false`, and the transmission time of a PFC frame
(64 bytes against an MTU).

### RdmaTransport: state and actions against the code

* `una`, `nxt`, `sack`, `highestAck`, `maxSeq`, `recovery`, `recoverySeq` and `timer` are
  the sender's `RdmaQueuePair` with its `irn` record; `expected`, `lastNack` and `rxSack` the
  receiver's `RdmaRxQueuePair`.  Sequence numbers count packets, not bytes: all packets
  are of one size, and the last, shorter one behaves like the others.
* An `IrnSackManager` is a list of disjoint blocks; the model keeps the set of the packets the
  blocks cover.  `Past` and `Passed` are the idiom "if snd_nxt is at the front block, jump to
  its end and discard the block", which `GetBytesLeft` and `ReceiveAck` repeat.
* `Transmit` is `GetNextQindex` with `GetNxtPacket` and the retransmission timer; `Poll` is
  the side effect of `GetBytesLeft` when nothing can be sent.  `HandleTimeout`,
  `ReceiveAck` (with `AckGoBackN` or `AckIrn`) and `ReceiveUdp` (with `CheckSeqGoBackN`,
  `CheckSeqIrnInOrder` or `CheckSeqIrnEarly`) are the handlers of those names.  Whether the
  NACK timer has expired is free (`elapsed`).
* `Completes` is `QpComplete`, which deletes both queue pairs; `ReceiveLateAck` finds
  none.  A late duplicate finds none either, and creates a receiver's queue pair anew,
  since `GetRxQp` is called with `create = true` (the "just drop" branch at
  `rdma-hw.cc:315-320` cannot be reached).
* `m_recovery_seq` is never initialized, so `Init` chooses it from all values.
* The 32-bit difference `m_max_seq - m_highest_ack` wraps when everything sent has been
  acknowledged; it is then larger than any window, which the first disjunct of
  `CanIrnTransmit` says.
* The fabric may drop data packets and deliver them out of order (`Drop`, `Deliver`);
  acknowledgements share queue 0 and one path, are never refused there, and so are neither
  lost nor reordered.

Left out: the congestion controls (rates, CNPs), pacing, several flows of one NIC (each has
its own queue pair), `L2_BACK_TO_ZERO` (0 in `run.py`) and what is logged on completion.

### GymBridge: state and actions against the code

* The simulator is one thread.  `SimInit` to `SimFirstAction` are the handshake and the
  first exchange of each leaf's environment, in the order of the leaves; `SimDecision` holds
  the first packet of a flowlet, sends its state and blocks; `SimAction` is `ApplyAction`;
  `SimEndSend` is the last message of an interface; `SimCrash` is an exit with an error at any moment.
* A state is named by the packet that waits (`created`), the placeholder by `NoPacket`.  `mgr`
  holds what `extraInfo` reports: whether the last action was executed and its number.
* `rep` is what the REP socket allows next.  `SocketSend` and `Receive` record a call out of
  turn in `misused`, as ZMQ raises EFSM.
* A forwarder's iteration is `StepSend` (choose and send), `Receive` (`rx_env_state`) and
  `Body` (`treat_info`, the transition, the packet dictionaries); `CloseCommand` follows the
  loop.  Another thread may run between any two of them.
* `tracking` and `temp` are the keys of the class variables `pkt_tracking_dict` and `temp_obs`.
* `main` is the script: `RunNs3`, then for each leaf `Bind`, `InitializeEnv` and
  `StartForwarder` (each constructor blocks until the simulator has reached that leaf), then
  `CloseEnvs`, `Reap`, the next episode, and `StopOwnedProcess` and `Exit` from the `finally` clause.
  Another program may hold some ports from the start.

Left out: the observation's features and rewards, policies (every action is tried), the
list of lost packets and done packets (the simulator reports none),
`max_nb_arrived_pkts` (-1 by default), the stop request, target signalling between
neighbours, the non-RL baselines.  A refused ("dead") action leaves
`awaitingAction` set and the held packet in the simulator (`conweave-obs-manager.cc:1534`);
the model has the refusal and its flag, not what becomes of that packet's flow.

### ReplayTraining: state and actions against the code

* A sample is the number of its transition.  `Respond` is a forwarder's iteration that closes
  a transition at a later clock; with NN signalling `GetUpcomingEvent` and
  `PushUpcomingEvent` are the event queue in between.
* `ReplayBuffer.add` is three steps, `AddCount`, `AddStore` and `AddAdvance`, because the
  trainer reads `total_samples` and the storage without a lock.
* `TrainerIterate` is an iteration of `Trainer.run` with `train_available(max_steps=8)`;
  `Sample` and `GradientStep` are its rounds.  With NN signalling the trainer calls
  `_get_upcoming_events`, a method of `Forwarder` only (`trainer.py:45-46`): the thread dies
  of an `AttributeError`, and so it does in the model.
* `StopTrainers`, `Joined`, `JoinTimeout`, `Drain` and `SaveAllModels` are the end of `main`.

Left out: networks and losses, the prioritized buffer and its segment trees, snapshots, the
condition that skips saving when nothing was learned.

## Runs

### ConWeave

Every ConWeave run uses two paths, one flow and 4 to 5 packets: a reroute needs an INIT, a
TAIL and one packet of the new path, a second epoch one or two more.  A path of
delay 1 beside one of delay 1 to 3 lets the new path overtake the old one
by several packets.  `Horizon` bounds the time at which the source may send; what
is under way then still arrives.  These runs set `CHECK_DEADLOCK FALSE` since the
simulation stops when its queue of events is empty.

| run | question | setting |
|---|---|---|
| `conweave_progress` | Do the two ToRs implement `FlowChannel`: in order, and in the end everything? Does every reroute settle, are paused paths avoided? | timers cover the delays: delays 1 and up to 3, waiting time 2, extra flush time 3, expiry 8, so the spread of the delay is below the extra flush time, and an idle flow expires only after its packets have arrived and its VOQ has been flushed (the hypotheses of `ChannelIsImplemented`); paths paused for 12, ECN marks, no loss, aging out of reach; `FairSpec` |
| `conweave_stress` | Which guarantees survive when they do not? | delays up to 4 on both paths, extra flush time 1, expiry 5, aging time 7, one packet lost; the order is not claimed, the assertions of the code, the fatal exit, conservation, one path per phase and that a stabilized flow has nothing outstanding are |
| `conweave_collision` | Does a NOTIFY keep another path's pause, as the comment says? | both paths in one slot; violated |
| `conweave_aging` | Does order survive independent aging? | aging after 10, otherwise the timers of the progress run (the hypotheses of `HostSeesOrderAlways` but `Remembers`); violated |

Bounds: `MaxPkts`, `MaxLosses`, `Horizon`.  `CwMaxTime` (100 s in the code) is later
than any run, as in every configuration of the repository.

Fairness: `FairSpec` is weak fairness of `Events`, the disjunction of all that the
event loop runs by itself.  `Simulator::Run` takes the next event while there is
one, so this holds; the source host is free to fall silent, which is why the
action that sends is not included.  Since `Tick` waits for due events, a packet
can neither stay in the fabric nor in the VOQ for ever.

### Flow control

Two ports and one direction of traffic are the smallest switch on which a pool is
shared and a queue builds up (the outgoing link is half as fast as the incoming one);
two classes are needed for one to fill the pool of the other.  Sizes are scaled:
`MTU = 2`, a buffer of 11 to 19 packets, thresholds of a half or a third of what is left.
The entry of no port in `HdrmLimit`, which the sum of `TotalHdrmLimit` counts instead of the last port's,
keeps the default of the attribute `PGHeadroomLimit` (`switch-mmu.cc:47`, `12500 + 2 * MTU`): one
`rate * delay` of a link with 100Gbps and 1000ns and two MTU, less than the driver sets for a port with
such a link, so that the shared pool is larger than the headroom of the ports would leave it.
The buffer bounds every counter and the PFC frames bound the wires, so these models are
finite without a horizon, and TLC checks them for deadlock too.

| run | question | setting |
|---|---|---|
| `pfc_sizes` | Do the ingress and egress counters equal what is in the buffer and the queues? | packets of one and two units, egress factor 1/3 so that both checks drop, arbitrary initial flags, the outgoing port paused by its peer |
| `pfc_headroom` | Is what exceeds a pool charged to headrooms, is no packet refused, does no pause run out while its class uses headroom, does the switch's pause timer never outlive the sender's pause, does every pause end, is every class served? | headroom two MTU above the configured one, pauses that outlast the congestion, `FairSpec` |
| `pfc_lossless` | The same with the headroom of `network-load-balance.cc`; violated | as before, headroom `rate * delay * 2 + 2 * MTU` |
| `pfc_resume` | Is a RESUME skipped only if the sender is not paused, as the comment says? | one class; violated |

`HeadroomSuffices` also depends on `PauseTime`: a pause is refreshed only by the next packet
of the class, so when it runs out before the congestion ends the sender adds more
packets, and then even the larger headroom is not enough.  `PausesOutlast` says that this does
not happen: no sender's pause ends while its class is above its minimum and uses headroom.  The runs
use `PauseTime = 12`, longer than the queues take to fall below the threshold.  The constants of
`pfc_headroom` satisfy the assumptions of `HeadroomIsEnough` (`HeadroomAssumption` and
`ReserveAssumption`, see Proofs), which `MCPfc` states as an `ASSUME`, with no byte to spare in the
headroom.

`NoClassStarves` says that time and again a queue is either empty or the device starts to transmit a
packet of it (`JustServed`): that it was once served is not enough.

Fairness: `FairSpec` is `[]<>NothingDue /\ WF_vars(Tick)`: the event loop runs all
events of an instant, which are finitely many, and then the clock advances.  It does
not make a sender send, nor a peer pause or resume.

### RDMA transport

| run | question | setting |
|---|---|---|
| `rdma_faults` | Is nothing acknowledged that has not arrived, do the assertions hold, does the window bound what is under way, does the flow complete, once and only when everything has arrived? | 4 packets, go-back-N with a window of 3 and IRN with a window of 2, two drops or overtakings, at most 4 packets under way, timeouts at any moment, any initial `m_recovery_seq`; `FairSpec` |

Four packets are the least with which a hole, a SACK block beyond it, a packet still to be
sent and a retransmission coexist; two faults let the retransmission be lost too, or a
NACK refer to a hole that a duplicate has filled.  With `NumPackets = 5` and IRN windows
of 1 to 3 `WindowRespected` holds as well.  The stronger claim `maxSeq < highestAck + Bdp` is
false: the window is asked before `GetBytesLeft` skips a SACKed block, so `m_max_seq` runs
ahead, but what it skips has arrived.  `CHECK_DEADLOCK FALSE`: the flow ends.

Fairness: the device sends while it may (`Transmit`), a running timer fires
(`HandleTimeout`), acknowledgements are processed, and the oldest data packet in the fabric
is delivered unless a fault takes it (`Deliver(1)`).  All are events in the simulator's queue.
`MaxFaults` is the assumption that loss stops at some time.

### PRISMA

| run | question | setting |
|---|---|---|
| `bridge_episodes` | Do the threads keep to the sockets' order, is one of them active at a time, are transitions and counters those of the simulator's decisions, are dictionaries pruned and ports released, does the program end and take its simulator with it? | 3 leaves, 2 episodes, 4 decisions, one action that is refused, two ports another program may hold, pruning above one entry (the code prunes above 5000), a simulator that may crash; `FairSpec` |
| `bridge_crash` | Does a crash of the simulator end the program? | 2 leaves; violated |
| `training` | Does the ring hold the latest samples, is learning never ahead of its schedule, is a checkpoint exact or refused, is every update that a sample makes due made in the end? | 2 leaves, 2 episodes, 4 samples in a ring of 2, learning from the second sample, at most 2 steps a round and so up to 3 due at its start, target update every 2 steps, both kinds of signalling; `FairSpec` |

Three leaves are needed for a leaf that is neither the first nor the last to be set up
while another already serves; two episodes for the reuse of agents, ports and class
variables.  In training four samples fill the ring twice, and the second to the fourth make
updates due: one sample may be added while another is trained on, and a round may find more due than it
may make.  What passes between two samples (`Elapsed`) matters only to events on their way, so
with ideal signalling the clock stands still.  `bridge_*` set `CHECK_DEADLOCK FALSE`: after a
crash the program may wait for ever, which `bridge_crash` reports; `training` is checked for
deadlock too.

Fairness: the operating system runs every thread and the simulator's process whenever they can
move (`WF` of `Main`, of `Simulator` and of each `Forwarder(l)`; of `MainEnd` and each
`ForwarderStep(l)` and `Trainer(l)`).  A crash and the expiry of the join deadline are not
fair: they may or may not happen.  In training, that the simulation goes on (`Respond`,
`NextEpisode`) or ends (`StopTrainers`) is not promised, which is why
`StopEnds` starts with a stop.  Nor is it promised that a trainer catches up: a forwarder that is
faster than it leaves a backlog for ever.  `EveryUpdateMade` speaks of each update by itself: once
`Schedule(total)` has reached `n` the `n`th gradient step is made, by a later round or by the drain
(`trainer.py:50-52`), unless the join deadline refuses the checkpoint.  It holds with any number of samples
behind it.  With NN signalling the trainer dies in its first round, and the drain
after a stop is all there is; `CheckpointExact` covers it.

### Findings

* *Path table collision* (`conweave-routing.cc:1008-1011`): the comment says that an
  expired entry is overwritten; the code overwrites any entry.  Two paths with one
  slot erase each other's pause.
* *Aging* (`conweave-routing.cc:1135-1157`): the two ToRs forget a flow separately.  The
  source restarts with epoch 1 while the receiver may still hold epoch 1 in phase
  1, so a later reroute bypasses the VOQ.  The experiments of the repository that use
  slow links set the aging time to 2 s instead of 2 ms, which hides the effect.
* *Skipped RESUME* (`switch-node.cc:432`): the comment wants a RESUME only for a queue that
  is paused, but `IsPaused` is asked of the switch's own device, which the peer pauses,
  not of the sender that the switch paused.  The sender then waits for its timer or for
  another packet of the port; `PauseEnds` still holds, so this costs time, not
  progress.
* *Headroom* (`network-load-balance.cc:1784`): while a pool is above its limit every
  byte counts against the headroom, but a class is not paused before it exceeds its
  own minimum.  The first 2 MTU of a small class in a full pool therefore use headroom
  without a PAUSE, and the configured value is short by that amount.  The model's numbers
  are scaled and the case needs a full pool, so it shows a gap in the argument that PFC
  is lossless, not that the shipped experiments drop packets.
* *Crash of the simulator* (`main.py:292`): the runner polls until no forwarder is alive and
  asks for the simulator's status only afterwards, where it would raise "ns-3 launcher exited with
  status".  A forwarder that waits in `recv` (without a timeout) for a simulator that has
  died never ends, so the status is never looked at.

Other differences met while reading, which no run states:

* `forwarder.py:775` says that leaving the loop early would lose the last transition; the
  transition of the last decision is never stored, since the last message brings no new
  `extraInfo`.  `TransitionsAligned` states what is stored.
* `rdma-hw.cc:315-320` ("just drop") cannot be reached, see above; the queue pair created by a late
  duplicate is counted by `getIrnBufferOverhead` (line 584) until the end of the run.
* `trainer.py:45-46`: with NN signalling the trainer threads die at once.  `CheckpointExact` holds
  nevertheless, since the main thread drains every backlog before saving.
* `replay_buffer.py:32` counts a sample before it stores it, while `argument_parser.py:100` speaks of
  the samples required before the first update: the first batch may be drawn from one less
  (`BatchLargeEnough` says so).
* When the last message is treated, the clock of `Agent` is set from the info of the message
  before, and may go back.
* The `finally` clause calls `Agent.envs.values()` although `envs` is a list; no close
  command is sent, the process is killed.

## Proofs

### ConWeave

`ConWeaveProofs` proves, for every set of paths, every delay, every timer, any drops and marks
that satisfy `PathsAssumption` and `TimesAssumption`:

* `TypeCorrect`: `Spec => []TypeOK`;
* `SourceAssertionsHold`: the assertions of the source branch never fail;
* `PacketsConserved`: `Spec => []EachPacketOnce`;
* `PausedPathsAvoided`: `Spec => PausedPathAvoided`, an action property;
* `PhasesKeepToOnePath`: `Spec => []OnePathPerPhase`, if `AgingOutlastsFabric`: no packet
  is under way for longer than the aging time;
* `StabilizedIsSettled`: `Spec => []StabilizedMeansSettled`, if `AgingOutlastsReplies`: the
  aging time also covers a REPLY on its way, and that plus the expiry of an idle flow; a
  control packet takes longer than the unit that stands for one nanosecond.

The aging time is 2 ms in the code (`conweave-routing.cc:188`), the delays and timers some hundred
microseconds.

The inductive invariant of the first three is `TInv == TypeOK /\ TxWellFormed`.  `TypeOK` alone is
not inductive: a tagged packet has a real path only because an entry that has not
expired belongs to a flow that has already sent (`NotExpiredKnown`), which in turn needs
that the simulated flows start later than `TxExpiryTime`, and that a reply never
revives a forgotten entry (its epoch 0 matches no reply).  `EachPacketOnce` is
inductive relative to `TInv`; its argument is that each action moves a packet number
from one of four disjoint places to another (`RangeOfAppend`, `AppendFresh`,
`ConcatDisjoint`, `TakenFromNet`).  `PathInv` adds when each packet was sent: none is overdue,
none is younger than the source's last activity, so an entry that ages leaves an empty fabric
and epoch 1 can start again.  `SettleInv` adds what a REPLY proves: that the TAIL of its
phase is the last packet of it (`TailIsLast`), that a flush is still ahead where a VOQ is
(`FlushAhead`), that a REPLY of phase 1 means that the receiver has seen the TAIL
(`RepliesTrue`).

`ConWeaveTimedProofs` adds the timers:

* `AssertionsAreSafe`: `Spec => []AssertionsHold`, no assertion of either ToR fails and the
  fatal exit (`conweave-routing.cc:731`) is not taken, if `TimersCover`: the slowest
  path's delay, the default waiting time of a VOQ and the extra flush time together do not
  exceed `TxExpiryTime`;
* `HostSeesOrderAlways`: `Spec /\ [][Remembers]_vars => []HostSeesOrder`, if also `JitterCovered`:
  the extra flush time exceeds the variation of one path's delay, and the waiting time with it
  the difference between paths;
* `ChannelIsImplemented`: `Spec /\ [][Remembers]_vars => DeliversInOrder`, the refinement of
  `FlowChannel`, if also no packet is dropped (`MaxLosses = 0`).

The presets of `run.py:424-444` are of this shape: for two tiers the waiting time is 200, the flush time
16 and the expiry 300 microseconds, so packets may take up to 84 and vary by less
than 16; the code itself asks to increase `cwh_txExpiryTime` when it takes the fatal exit.
`Remembers` says that the source's aging event does not meet an entry that is in use again later;
it cannot be dropped: the constants of `conweave_aging` satisfy all the other hypotheses, and the
run reaches a disorder.  Those of `conweave_progress` satisfy all hypotheses of the
refinement.  Those of `conweave_stress` violate `TimersCover` and `JitterCovered`: there the run, with
four packets, reaches beyond the theorems.

The invariant splits what is under way at the TAIL: the *front* is what was sent before the current
phase 1.  `TimedInv` says that the front is on one path, ahead of the rest and ends with the TAIL
(`FrontOrdered`); that whoever has seen the TAIL has seen all of the front (`FrontSeen`); that the
times on the tags and in the entries are those of the TAIL and of phase 0 (`TagTimes`,
`EntryTimes`); that a VOQ belongs to the current reroute and is flushed before either
end forgets the flow (`VoqInTime`); and that packets of an earlier epoch are let through (`OldPass`).
`OrderInv` adds that a flush waits for every packet of the front (`FlushWaits`, from the
prediction with the timestamps of phase 0) and that the numbers delivered, in the VOQ and
in the fabric rise in this order, the front between the delivered ones and those in the VOQ
(`IdsInOrder`).  The refinement follows with `EachPacketOnce`: without losses what has been
delivered is a prefix of what was sent, so a delivery is of the next numbers.

### PFC

`PfcProofs` proves, for every packet size, threshold, pool limit, timer and any number
of ports and classes that satisfy `MmuAssumption` and `PfcAssumption`:

* `EgressMatches`: `Spec => []EgressMatchesQueue`, the first part of `EgressAccounted`;
* `IngressIsAccounted`: `Spec => []IngressAccounted`;
* `EgressIsAccounted`: `Spec => []EgressAccounted`;
* `ExcessIsInHeadroom`: `Spec => []ExcessInHeadroom`;
* `TypeCorrect` (in `PfcTimingProofs`): `Spec => []PfcTypeOK`;
* `PausesAreObeyed` (in `PfcTimingProofs`): `Spec => []PauseObeyed` if `Delay > 0`, as on every link
  of the topologies in `config/` (1000ns).  With no delay both timers are due in one
  instant, and the sender's may be served first;
* `BufferNeverFull`: `Spec => []BufferSuffices` if `ReserveAssumption` holds, for every `HdrmLimit`;
* `HeadroomIsEnough` (in `HeadroomProofs`): `Spec /\ []PausesOutlast => []HeadroomSuffices` if
  `HeadroomAssumption` and `ReserveAssumption` hold.

The handlers are operators on switch states, and so is the invariant: `Counted(s, owed)`
says that in state `s` each queue's two MMU counters make up the device's
`m_bytesInQueue` plus `owed`, the bytes charged but not yet queued.  Between the charge
and the enqueue of `DoSwitchSend`, while `CheckAndSendPfc` queues and sends control frames,
`owed` is the packet's size; between events it is `NothingOwed`.  One lemma per
handler shows that it keeps `Counted` (`ChargeSplits` and `ReleaseSplits` for the
counters, `CheckAndSendPfcCounted`, `SendDataCounted`, `DequeueCounted`,
`DoSwitchSendCounted`), and one step per action applies them (`StepCounted`).
`NextClassSendable` shows that the round robin's `CHOOSE` has a witness, from the
well-foundedness of `<` on the naturals.

The other accounts are sums, over the packets of a queue, the queues of a port, the ports.
`AccountInv` adds `Accounted(Switch, NothingOwed)` to `CountInv`: a port's counter is the sum over
its classes, a pool's the sum over the ports and classes that use it, the total the sum over the
ports (`IngressSums`, `EgressSums`), each ingress queue's counter is what the egress queues
hold of its packets plus what is owed (`Buffered`), and the device's bytes are those of its
queue.  A charge or release puts one new term into each
of these sums (`Put`, `OverPortsChange`), and a packet that is queued or taken changes one
queue's bytes by its size (`WeightLaws`).  That a release never takes more than there is
(`IngressBounds`) follows from the sums themselves: a packet at the head of a queue is one of the terms.
That what exceeds a pool is in headrooms is one more conjunct: a charge beyond the limit adds as much to
the headroom, and a release takes no more from the headroom than from the pool.

`TotalHdrmLimit` leaves out the last port, so the shared pool may grow into that port's headroom, and a
packet whose headroom is free could find the whole buffer full.  `BufferNeverFull` shows that it does not.  The
two sides are tied by `Balanced`, a conjunct of `Accounted`: the ingress total is the egress pool's shared
bytes and the queues' guaranteed ones, since each charge and release moves both by the same number.
The shared bytes stay below `EgressLimit`, which leaves `Reserved`, and a queue's guarantee is at most
`QMin`; so a packet that the egress side admits fits if what is held back for a port covers the guarantees of
its queues (`ReserveAssumption`: `Cardinality(Classes) * QMin <= QCnt * PgMin`).  With `QCnt = 8` it says
7 * (MTU + 1) <= 8 * MTU, true of every MTU above 6.  The instances of TLC are too small for the buffer
to fill, so this is a matter for the proof.
The laws of `SumFunctionOnSet` are proved without induction: of the sets for which a
law fails a smallest one is taken, and an element removed from it.

`PfcTimingProofs` follows the frames of one class.  `Told` says: while the switch's timer of
class `c` runs, the last frame of `c` in the control queue says PAUSE; if none is queued, the last one
on the wire does, and with the time it still needs the sender's timer will end
later than the switch's; if none is on the wire, the sender is paused and its timer ends later now.
`PauseObeyed` alone is not inductive: it says nothing of frames under way.  `Announced(s)` is `Told`
for all ports and classes, again a predicate that each handler keeps; `CheckAndSendPfc` first sets
timers and then queues frames, PAUSEs before RESUMEs, so a class that is paused and
resumed in one call has no timer left.  That every class concerned gets its frame needs
the loops' ascending order to exist (`UpwardsLists`): of a smallest set without one, the least
element is taken away (`CanAscend`, a minimal counterexample in place of induction).

That no counter is ever negative, so that the code's unsigned subtractions do not wrap, follows from the
accounts: each is a sum of bytes.  `TypeCorrect` adds `Typed` to `AccountInv`, once more a predicate
that every handler keeps: the flags, frames and timers of the devices, the MMU and the wires, no timer above
its interval.

`HeadroomProofs` shows how much headroom is enough, for every routing, rate and delay.
`HeadroomAssumption` asks of each port that receives data a headroom of
`MTU * (PauseWait + 2 * Delay + 4 * PeerTxTime) / PeerTxTime`: two packets that use headroom while
the class is below its minimum and is not paused, the one that lifts it above, and what the sender
transmits while the PAUSE waits for the packet in transmission (`PauseWait`, the transmission time if
the port sends data) and crosses the link, and what is then on the way.  The `rate * delay * 2 + 2 * MTU` of
`network-load-balance.cc:1784` has neither the wait nor the last two packets, which is what
`pfc_lossless` shows.  That the buffer's total does not refuse what the headroom admits is
`BufferHasRoom`, the lemma behind `BufferNeverFull`; nothing is asked of the sum of the headrooms.
The hypothesis `[]PausesOutlast` is a property of the queues' draining, not of the
headroom: a peer may pause the switch itself for ever, a queue then never drains, and every pause of
a sender it feeds runs out in the end.  It is not proved; `pfc_headroom` checks it beside
`HeadroomSuffices`, and with one byte less of headroom than the assumption asks for the same run
finds a packet refused although `PausesOutlast` holds.

`HorizonInv` says that each class that uses headroom and is above its minimum has a *horizon*, an instant
after which no packet of it arrives (`Stopping`: a PAUSE is queued, on the wire or received,
nothing that un-pauses the sender comes after it, and the horizon is its arrival and a `Delay` later),
and that the bytes charged and one packet for every `PeerTxTime` until the horizon fit into the headroom
(`Budget`, `Coverage`).  A class that is not above its minimum has not used more than two packets of it.
The handlers keep the horizon of every class, or send the PAUSE that sets one
(`CheckAndSendPfcStops`, `DoSwitchSendStops`, `DequeueStops`); packets of one sender are at least
`PeerTxTime` apart (`Spacing`), so each arrival spends what its time has earned (`BudgetSpent`).
`Lines` says that frames and packets on a wire arrive in order.  A pause that ends is
where `PausesOutlast` is needed (`ResumeHorizon`): the class then no longer uses headroom.

### RDMA transport

`RdmaProofs` proves, for every number of packets, both modes, every window and every bound
on faults that satisfy `RdmaAssumption`:

* `TypeCorrect`: `Spec => []RdmaTypeOK`;
* `NoHoleAcknowledged`: `Spec => []AckedMeansArrived`;
* `AssertionsAreSafe`: `Spec => []AssertionsHold`;
* `Implements`: `Spec => ReliableTransfer`, the refinement of `FlowTransfer`;
* `WindowIsRespected`: `Spec => []WindowRespected`, with go-back-N `snd_nxt - snd_una`, with IRN
  the packets up to `m_max_seq` that have not arrived and lie beyond the highest acknowledgement,
  stay within the window.

The inductive invariant is `IInv`: the three properties above, and that every
acknowledgement under way is honest - what it acknowledges, cumulatively or selectively, has
arrived (`Honest`) - and that without IRN there are no SACK blocks.  `AckedMeansArrived` alone
is not inductive, since `ReceiveAck` believes what the acknowledgement says.  Lemmas about
`Past`, `Passed` and `RunEnd` say that moving over a block whose packets have arrived keeps
everything below the pointer arrived; the minimum that `RunEnd` takes exists by the
well-foundedness of `<`.  The refinement follows from the invariant: `Completes`
happens when `una` has reached `NumPackets`, so everything has arrived, and a late
duplicate is a stutter.  The window of IRN bounds a cardinality: `Transmit` adds at most one
packet, an acknowledgement or an arrival only takes packets out (`WindowShrinks`), and what
`GetBytesLeft` skips has arrived; `Sent` says that nothing beyond `m_max_seq` is under way or has
arrived.

### PRISMA

`BridgeProofs` proves, for every number of leaves, episodes and decisions, whatever ports others
hold, whatever actions are refused and whenever the simulator crashes, all from
`BridgeAssumption`:

* `TypeCorrect`: `Spec => []BridgeTypeOK`;
* `SocketsInTurn`: `Spec => []NoSocketMisuse`;
* `OneHandler`: `Spec => []OneHandlerAtATime`;
* `PortsReleased`: `Spec => []OwnPortsFree`;
* `TransitionsAreAligned`: `Spec => []TransitionsAligned`;
* `DiagnosticsAreExact`: `Spec => []DiagnosticsExact`;
* `NoZombiesEver`: `Spec => []NoZombies`.

`Exchange(l)` ties each socket to its forwarder and to the simulator: at the leaf for which the
simulator waits, the message, the forwarder that has it or the reply is under way, exactly one of
them; at every other leaf nothing is.  `NoSocketMisuse` and `OneHandlerAtATime` follow.  It is inductive
only with `Setup`, which says how far the main thread and the simulator are apart while the leaves
are started one by one, and where each stands when a bind fails (`SetupBefore`, `SetupFirst`,
`SetupBeyond`).  `Learning` gives the five points of an iteration (`Between`, `Reading`,
`Deciding`, `Decided`, `Over`) and what a forwarder knows at each: with the action on its way the
transitions written are one ahead of the decisions (`AlignedNow`), afterwards they are exactly those
that have a successor (`Aligned`).  `Tracking` is `NoZombies` with the fact that the
placeholder packet is never tracked.

`TrainingProofs` proves, for every set of leaves, buffer size, schedule and bound that satisfies
`TrainingAssumption`:

* `TypeCorrect`: `Spec => []TrainTypeOK`;
* `LearningNeverAhead`: `Spec => []NeverAhead`;
* `OneTrainer`: `Spec => []OneTrainerPerModel`;
* `CheckpointIsExact`: `Spec => []CheckpointExact`;
* `RingIsExact`: `Spec => []RingHoldsLatest`;
* `BatchesAreLargeEnough`: `Spec => []BatchLargeEnough`, if `LearningStarts > 1`: with 1, a trainer
  may sample an empty ring between the count and the store of the first sample, and dies
  (the default is 256, `argument_parser.py:268`).

`IInv` adds to the type invariant and `NeverAhead` that the steps a trainer has taken on are
still due (`WorkIsDue`: `steps + left <= Schedule(total)`, because nobody else trains while it
is alive and `Schedule` is monotone) and what is over once `main` has gone on (`Shutdown`:
no forwarder is in the middle of an `add`, no trainer alive).  A checkpoint is exact because
`Drain` leaves no backlog and nobody is ahead.  `RInv` serves the ring: the queue of events
holds the transitions not yet stored, in order, and each slot of the storage
holds the sample its distance from the index says, also between the three steps
of an `add`.  Facts about `%` and `\div` are lemmas of their own.

### Only model-checked

* `PausesOutlast`, the hypothesis of `HeadroomIsEnough`, depends on how long a pause lasts against the
  time a queue takes to drain, and fails with a shorter `PauseTime`.
* Liveness (`DeliversEverything`, `RerouteSettles`, `PauseEnds`, `FlowCompletes`, `ProgramEnds`,
  `NoClassStarves`, `EveryUpdateMade` and the like) is out of the prover's reach: fairness and ENABLED.

Induction over data and recursive operators are out of its reach too.  The models use none of the
latter; where a sum or a list needs the former, a minimal counterexample takes its place.

## Plan

Modelled and checked: ConWeave's reordering, the flow control of a switch, the RDMA
transport, the bridge between simulator and agents, and the learning beside it.  Every safety
property that these modules check is a theorem but `PausesOutlast`, under which the headroom is proved
to be enough.  Next: a bound on the time a queue takes to drain when no peer pauses the
switch, from which `PausesOutlast` would follow for a `PauseTime` above it; and the baselines.

## Not modelled

* *LetFlow, CONGA, DRILL, ECMP*: baselines.  Their tables are local to a switch, a flowlet may be
  reordered by design, and little is promised that could break.
* *Learned path selection in the simulator*, with the path reports of `route-feedback.h` and the
  reservations of `coordinated-path.inc`: floating-point actor and critic updates; reports and
  reservations are switched off unless an experiment asks for them.
* *Congestion control* (DCQCN, HPCC, TIMELY, DCTCP): numeric rate laws without a discrete promise.
* *Networks, losses, the prioritized buffer* (off by default), TensorBoard, plots, manifests.
* *Drivers and offline search scripts*: they read configuration, start simulations and compare
  numbers; the parameters they set are the constants of the models.
* *ns-3*: third-party code, with generated Python bindings that make up most of the
  Python lines of the repository.  The models cover the program's own C++ and Python, which
  is a small share of the whole tree for this reason.
