---------------------------- MODULE BridgeProofs ----------------------------
(***************************************************************************)
(* For every number of leaves, episodes and decisions, whatever ports      *)
(* others hold, whatever actions are refused and whenever the simulator    *)
(* crashes: the sockets are used in turn, one forwarder is active at a     *)
(* time, ports are released, and the transitions are the simulator's       *)
(* decisions.                                                              *)
(*                                                                         *)
(* Exchange ties each socket to its forwarder and to the simulator;        *)
(* Setup says how far the main thread and the simulator are apart while    *)
(* the leaves start; Learning says what a forwarder knows at each point of *)
(* an iteration.                                                           *)
(***************************************************************************)
EXTENDS BridgeProperties, SequenceTheorems, FiniteSetTheorems, TLAPS

-----------------------------------------------------------------------------
(* The sockets.                                                            *)

\* Nothing is on its way at leaf l.
Quiet(l) ==
    toPy[l] = <<>> /\ toSim[l] = <<>> /\ rep[l] = "recv" /\ ~Handling(l)

\* The simulator's message is on its way, ...
Asked(l) ==
    Len(toPy[l]) = 1 /\ toSim[l] = <<>> /\ rep[l] = "recv" /\ ~Handling(l)

\* ... a forwarder has it, ...
Handled(l) ==
    toPy[l] = <<>> /\ toSim[l] = <<>> /\ rep[l] = "reply" /\ Handling(l)

\* ... and the reply is on its way.
Answered(l) ==
    toPy[l] = <<>> /\ Len(toSim[l]) = 1 /\ rep[l] = "recv" /\ ~Handling(l)

Exchange(l) ==
    IF awaiting /\ simLeaf = l THEN Asked(l) \/ Handled(l) \/ Answered(l)
                               ELSE Quiet(l)

Exchanges == misused = {} /\ \A l \in Leaves : Exchange(l)

-----------------------------------------------------------------------------
(* The main thread and the simulator.                                      *)

\* The main thread stands before the handshake with its leaf.
Before == main \in {"bind", "handshake"} \/ outcome = "bind"

\* It has started all forwarders.
Beyond == main \in {"poll", "reap"} \/ outcome \in {"ok", "status", "timeout"}

\* The simulator is in the first exchange of simLeaf, whose forwarder has the
\* first state.
FirstTaken == awaiting /\ toPy[simLeaf] = <<>> /\ fwd[simLeaf] \in {"top", "receive"}

SetupBefore ==
    /\ sim \in {"init", "first", "error", "killed"}
    /\ sim = "init" => simLeaf = leaf /\ toSim[leaf] = <<>>
    /\ sim = "first" => simLeaf + 1 = leaf /\ FirstTaken

SetupFirst ==
    /\ sim \in {"init", "first", "error", "killed"}
    /\ simLeaf = leaf
    /\ sim = "init" => awaiting /\ toPy[leaf] = <<>>
    /\ sim = "first" /\ awaiting => toPy[leaf] # <<>> /\ Head(toPy[leaf]).uid = NoPacket

SetupBeyond ==
    /\ leaf = NLeaves - 1 /\ sim \notin {"none", "init"}
    /\ sim = "first" => simLeaf = leaf /\ FirstTaken

Setup ==
    /\ main \in {"spawn", "bind", "handshake", "first", "poll", "reap"} <=> outcome = "none"
    /\ main = "spawn" => sim \in {"none", "ok"}
    /\ sim \in {"none", "ok"} => ~awaiting
    /\ Before => SetupBefore
    /\ main = "first" => SetupFirst
    /\ Beyond => SetupBeyond

Resting(l) == fwd[l] \in {"none", "done"}

\* Where no forwarder runs, and where no port is bound.
NotStarted ==
    /\ Before \/ main = "first" => \A l \in Leaves : leaf <= l => Resting(l)
    /\ main \in {"spawn", "reap"} => \A l \in Leaves : Resting(l)
    /\ main = "bind" => \A l \in Leaves : leaf <= l => port[l] # "bridge"
    /\ main \in {"handshake", "first"} => \A l \in Leaves : leaf < l => port[l] # "bridge"
    /\ main \in {"spawn", "reap"} => \A l \in Leaves : port[l] # "bridge"

\* A port that could not be bound is another program's.
BindInv == outcome = "bind" => port[leaf] = "other"

-----------------------------------------------------------------------------
(* Learning.                                                               *)

\* Each decision is for a packet of its own and has the next number.
Numbers ==
    \A l \in Leaves :
      /\ mgr[l].seq = Len(decided[l]) /\ mgr[l].seq <= created
      /\ sim = "run" /\ awaiting => mgr[l].seq < created

\* Leaf l's forwarder has not seen a packet of this simulation.
Fresh(l) ==
    /\ written[l] = <<>>
    /\ env[l].connected /\ env[l].obs = NoPacket /\ env[l].info.uid = NoPacket
    /\ agent[l].prev = NoPacket /\ agent[l].pkt = NoPacket
    /\ ~agent[l].signaling /\ agent[l].steps = 0
    /\ agent[l].lastSeq = 0 /\ agent[l].mismatches = 0 /\ agent[l].counted = 0

\* While the leaves start nothing has been learned.
Starting ==
    sim \in {"init", "first"} =>
      /\ created = 0 /\ tracking = {} /\ temp = <<>>
      /\ \A l \in Leaves : ~mgr[l].applied /\ decided[l] = <<>>
      /\ \A l \in Leaves : l < simLeaf => Fresh(l) /\ fwd[l] = "receive"
      /\ sim = "first" /\ FirstTaken => Fresh(simLeaf)

Simulating == sim \in {"run", "end", "ok"}

Latest(l) ==
    IF decided[l] = <<>> THEN NoPacket ELSE decided[l][Len(decided[l])].uid

\* The numbers of actions and the jumps in them.
Records(l) ==
    LET n == Len(decided[l])
    IN  /\ mgr[l].applied <=> n > 0 /\ decided[l][n].applied
        /\ \A i \in 1..n : decided[l][i].uid # NoPacket
        /\ agent[l].lastSeq <= n
        /\ agent[l].mismatches > 0 => \E i \in 1..n : ~decided[l][i].applied

\* Since the last action the policy knows of all but the last m were refused.
RefusedSince(l, m) ==
    \A i \in 1..(Len(decided[l]) - m) :
      agent[l].lastSeq < i => ~decided[l][i].applied

\* The forwarder has not learned what the last action led to.
Waiting(l) ==
    /\ agent[l].prev = Latest(l) /\ agent[l].pkt = Latest(l)
    /\ ~agent[l].signaling
    /\ decided[l] # <<>> => agent[l].action = decided[l][Len(decided[l])].act
    /\ agent[l].counted = Len(decided[l])
    /\ Aligned(l)
    /\ decided[l] # <<>> => agent[l].lastSeq < Len(decided[l])
    /\ RefusedSince(l, 1)

\* The decisions that were applied, when the present packet is a successor of
\* the last one.
KnownNow(l) == {i \in 1..Len(decided[l]) : decided[l][i].applied}

Successor(l, i) == IF i = Len(decided[l]) THEN created ELSE decided[l][i + 1].uid

AlignedNow(l) ==
    /\ Len(written[l]) = Cardinality(KnownNow(l))
    /\ \A i \in KnownNow(l) :
         written[l][Rank(KnownNow(l), i)] = Decision(decided[l][i], Successor(l, i))

\* It has learned it, and the present packet waits for an action.
Learned(l) ==
    /\ sim = "run" /\ created # NoPacket
    /\ env[l].connected /\ env[l].obs = created
    /\ agent[l].pkt = created /\ ~agent[l].signaling /\ agent[l].steps = 1
    /\ AlignedNow(l)
    /\ RefusedSince(l, 0)

PresentInfo(l, info) ==
    info.uid = created /\ info.applied = mgr[l].applied /\ info.seq = mgr[l].seq

\* The message for leaf l is a state that waits or the last message.
Message(l) ==
    toPy[l] # <<>> =>
      \/ Head(toPy[l]).kind = "end" /\ sim # "run"
      \/ /\ Head(toPy[l]).kind = "state" /\ sim = "run" /\ created # NoPacket
         /\ PresentInfo(l, Head(toPy[l]))

Seen(l) ==
    IF env[l].connected
    THEN /\ sim = "run" /\ created # NoPacket /\ env[l].obs = created
         /\ PresentInfo(l, env[l].info)
    ELSE sim # "run" /\ env[l].info.uid = agent[l].pkt

Ended(l) == sim # "run" /\ agent[l].counted = Len(decided[l]) /\ Aligned(l)

\* The points of an iteration: between two decisions, ...
Between(l) ==
    /\ fwd[l] = "receive" /\ toSim[l] = <<>>
    /\ Waiting(l) /\ env[l].info.uid = agent[l].pkt /\ Message(l)

\* ... with a message received, ...
Reading(l) == fwd[l] = "body" /\ Waiting(l) /\ Seen(l)

\* ... with a packet that waits for an action, ...
Deciding(l) ==
    /\ fwd[l] = "top" /\ Learned(l) /\ env[l].info.uid = agent[l].pkt
    /\ agent[l].counted = Len(decided[l])

\* ... with the action on its way, ...
Decided(l) ==
    /\ fwd[l] = "receive" /\ toSim[l] # <<>>
    /\ Learned(l) /\ env[l].info.uid = agent[l].pkt
    /\ agent[l].counted = Len(decided[l]) + 1 /\ agent[l].prev = created
    /\ Head(toSim[l]).kind = "act" /\ Head(toSim[l]).act = agent[l].action

\* ... and out of the loop.
Over(l) == fwd[l] \in {"closing", "done"} /\ Ended(l)

LeafLearning(l) ==
    Records(l) /\ (Between(l) \/ Reading(l) \/ Deciding(l) \/ Decided(l) \/ Over(l))

Learning == Simulating => \A l \in Leaves : LeafLearning(l)

Tracking == Simulating =>
    /\ NoPacket \notin tracking
    /\ tracking \subseteq Range(temp) \cup {agent[l].pkt : l \in Leaves} \cup Refused

IInv ==
    /\ BridgeTypeOK /\ Numbers /\ Exchanges /\ Setup /\ NotStarted /\ BindInv
    /\ Starting /\ Learning /\ Tracking

-----------------------------------------------------------------------------
(* The types, part by part.                                                *)

MainTypes ==
    /\ main \in {"spawn", "bind", "handshake", "first", "poll", "reap", "finally",
                 "stopped", "exited"}
    /\ episode \in 1..NumEpisodes /\ leaf \in Leaves
    /\ outcome \in {"none", "ok", "bind", "status", "timeout"}

SimTypes ==
    /\ sim \in Running \cup {"none", "ok", "error", "killed"}
    /\ simLeaf \in Leaves /\ awaiting \in BOOLEAN /\ created \in Uids

RecordTypes ==
    /\ mgr \in [Leaves -> [applied : BOOLEAN, seq : 0..MaxPkts]]
    /\ decided \in [Leaves -> Seq([uid : Uids, act : Actions, applied : BOOLEAN])]

SocketTypes ==
    /\ port \in [Leaves -> {"free", "bridge", "other"}]
    /\ rep \in [Leaves -> {"recv", "reply"}]
    /\ toPy \in [Leaves -> Seq(ToPython)]
    /\ toSim \in [Leaves -> Seq(ToSimulator)]
    /\ misused \subseteq Leaves

AgentState == [prev : Uids, action : Actions, pkt : Uids, signaling : BOOLEAN,
               steps : 0..1, lastSeq : 0..MaxPkts, mismatches : Nat, counted : Nat]
EnvState == [connected : BOOLEAN, obs : Uids, info : Info]

ForwarderTypes ==
    /\ fwd \in [Leaves -> {"none", "top", "receive", "body", "closing", "done"}]
    /\ env \in [Leaves -> EnvState]
    /\ agent \in [Leaves -> AgentState]
    /\ written \in [Leaves -> Seq([obs : Uids, act : Actions, next : Uids])]

SharedTypes == tracking \subseteq Uids /\ temp \in Seq(Uids)

LEMMA TypeParts ==
    BridgeTypeOK <=> /\ MainTypes /\ SimTypes /\ RecordTypes /\ SocketTypes
                     /\ ForwarderTypes /\ SharedTypes
  BY DEF BridgeTypeOK, MainTypes, SimTypes, RecordTypes, SocketTypes, ForwarderTypes,
         SharedTypes, AgentState, EnvState

\* The constants, as the proofs use them.
LEMMA Constants ==
    /\ NLeaves \in Nat \ {0} /\ 0 \in Leaves /\ NLeaves - 1 \in Leaves
    /\ NoPacket \in Uids /\ 0 \in 0..MaxPkts /\ 0 \in Actions
    /\ Leaves \subseteq Nat /\ Uids \subseteq Nat
    /\ \A l \in Leaves : 0 <= l /\ l <= NLeaves - 1
  BY BridgeAssumption DEF Leaves, NoPacket, Uids, Actions

\* The leaf after simLeaf.
LEMMA NextLeafIs ==
    ASSUME simLeaf \in Leaves
    PROVE  /\ NextLeaf \in Leaves
           /\ simLeaf = NLeaves - 1 => NextLeaf = 0
           /\ simLeaf # NLeaves - 1 => NextLeaf = simLeaf + 1
           /\ NextLeaf = 0 <=> simLeaf = NLeaves - 1
  <1>1. NLeaves \in Nat \ {0} /\ simLeaf \in 0..(NLeaves - 1)
    BY BridgeAssumption DEF Leaves
  <1>2. /\ simLeaf = NLeaves - 1 => (simLeaf + 1) % NLeaves = 0
        /\ simLeaf # NLeaves - 1 => (simLeaf + 1) % NLeaves = simLeaf + 1
    BY <1>1, Z3
  <1> QED BY <1>1, <1>2 DEF NextLeaf, Leaves

LEMMA InitTypes == Init => BridgeTypeOK /\ Numbers
  <1> SUFFICES ASSUME Init PROVE BridgeTypeOK /\ Numbers
    OBVIOUS
  <1> USE Constants
  <1>1. MainTypes /\ SimTypes
    BY BridgeAssumption DEF Init, MainTypes, SimTypes
  <1>2. RecordTypes
    BY EmptySeq DEF Init, RecordTypes, NewManager
  <1>3. SocketTypes
    BY EmptySeq DEF Init, SocketTypes
  <1>4. NewEnv \in EnvState /\ NewAgent \in AgentState
    BY DEF NewEnv, NewAgent, EnvState, AgentState, NoInfo, Info, NoPacket
  <1>5. ForwarderTypes
    BY <1>4, EmptySeq DEF Init, ForwarderTypes
  <1>6. SharedTypes
    BY EmptySeq DEF Init, SharedTypes
  <1>7. Numbers
    BY EmptySeq DEF Init, Numbers, NewManager
  <1> QED BY <1>1, <1>2, <1>3, <1>5, <1>6, <1>7, TypeParts

\* A queue that holds one message.
LEMMA OneMessage ==
    ASSUME NEW S, NEW s \in Seq(S)
    PROVE  /\ Len(s) = 1 => s # <<>> /\ Tail(s) = <<>>
           /\ s # <<>> => Head(s) \in S /\ Tail(s) \in Seq(S)
           /\ Len(s) \in Nat /\ (Len(s) = 0 <=> s = <<>>)
  <1>1. Len(s) = 1 => s # <<>> /\ Tail(s) = <<>>
    <2>1. HAVE Len(s) = 1
    <2>2. s # <<>>
      BY <2>1, EmptySeq
    <2>3. Tail(s) \in Seq(S) /\ Len(Tail(s)) = 0
      BY <2>1, <2>2, HeadTailProperties
    <2> QED BY <2>2, <2>3, EmptySeq
  <1> QED BY <1>1, HeadTailProperties, LenProperties, EmptySeq

LEMMA SentMessage ==
    ASSUME NEW S, NEW s \in Seq(S), NEW m \in S
    PROVE  /\ Append(s, m) \in Seq(S)
           /\ s = <<>> => Len(Append(s, m)) = 1 /\ Head(Append(s, m)) = m
                          /\ Append(s, m) # <<>>
  <1>1. /\ Append(s, m) \in Seq(S)
        /\ Len(Append(s, m)) = Len(s) + 1 /\ Append(s, m)[Len(s) + 1] = m
    BY AppendProperties
  <1>2. s = <<>> => Len(s) = 0
    BY EmptySeq
  <1>3. Append(s, m) # <<>> => Head(Append(s, m)) = Append(s, m)[1]
    BY <1>1, HeadTailProperties
  <1>4. s = <<>> => Append(s, m) # <<>>
    BY <1>1, <1>2, EmptySeq
  <1> QED BY <1>1, <1>2, <1>3, <1>4

-----------------------------------------------------------------------------
(* The simulator keeps the types.                                          *)

\* It moves its own state and the queues.
SimulatorEffect ==
    /\ UNCHANGED mainVars /\ UNCHANGED fwdVars /\ UNCHANGED sharedVars
    /\ UNCHANGED <<port, rep, misused>>

LEMMA SimulatorLeavesTheRest == Simulator => SimulatorEffect
  BY DEF Simulator, SimulatorEffect, SimInit, SimInitAcked, SimFirst, SimFirstAction,
         SimDecision, SimAction, SimEnd, SimEndSend, SimEndReply, SimSend, SimReply, sockVars

\* What is left to show of a step of the simulator.
LEMMA SimulatorTypes ==
    ASSUME BridgeTypeOK, SimulatorEffect, SimTypes', RecordTypes',
           toPy' \in [Leaves -> Seq(ToPython)], toSim' \in [Leaves -> Seq(ToSimulator)]
    PROVE  BridgeTypeOK'
  <1>1. MainTypes /\ ForwarderTypes /\ SharedTypes /\ SocketTypes
    BY TypeParts
  <1>2. MainTypes' /\ ForwarderTypes' /\ SharedTypes'
    BY <1>1 DEF SimulatorEffect, mainVars, fwdVars, sharedVars, MainTypes, ForwarderTypes,
                SharedTypes
  <1>3. SocketTypes'
    BY <1>1 DEF SimulatorEffect, SocketTypes
  <1> QED BY <1>2, <1>3, TypeParts DEF BridgeTypeOK, MainTypes, SimTypes, RecordTypes,
             SocketTypes, ForwarderTypes, SharedTypes, AgentState, EnvState

LEMMA SendTypes ==
    ASSUME BridgeTypeOK, NEW l \in Leaves, NEW msg \in ToPython, SimSend(l, msg)
    PROVE  /\ toPy' \in [Leaves -> Seq(ToPython)] /\ toSim' \in [Leaves -> Seq(ToSimulator)]
           /\ simLeaf' = l /\ awaiting'
  <1>1. toPy[l] \in Seq(ToPython)
    BY DEF BridgeTypeOK
  <1>2. Append(toPy[l], msg) \in Seq(ToPython)
    BY <1>1, SentMessage
  <1> QED BY <1>2 DEF BridgeTypeOK, SimSend

LEMMA ReplyTypes ==
    ASSUME BridgeTypeOK, NEW kind, SimReply(kind)
    PROVE  /\ toPy' \in [Leaves -> Seq(ToPython)] /\ toSim' \in [Leaves -> Seq(ToSimulator)]
           /\ awaiting /\ awaiting' = FALSE
           /\ Head(toSim[simLeaf]) \in ToSimulator
  <1>1. toSim[simLeaf] \in Seq(ToSimulator) /\ toSim[simLeaf] # <<>>
    BY DEF BridgeTypeOK, SimReply
  <1>2. Head(toSim[simLeaf]) \in ToSimulator /\ Tail(toSim[simLeaf]) \in Seq(ToSimulator)
    BY <1>1, OneMessage
  <1> QED BY <1>2 DEF BridgeTypeOK, SimReply

LEMMA MessagesAreTyped ==
    ASSUME BridgeTypeOK, NEW l \in Leaves, NEW u \in Uids
    PROVE  /\ InitMsg \in ToPython
           /\ \A kind \in {"init", "state", "end"} : StateMsg(kind, u, l) \in ToPython
           /\ Ack \in ToSimulator /\ Stop \in ToSimulator
           /\ \A a \in Actions : Act(a) \in ToSimulator
  <1>1. mgr[l] \in [applied : BOOLEAN, seq : 0..MaxPkts]
    BY DEF BridgeTypeOK
  <1> QED BY <1>1, Constants DEF InitMsg, StateMsg, Ack, Stop, Act, ToPython, ToSimulator

LEMMA SimInitTypes ==
    ASSUME BridgeTypeOK, Numbers, SimInit \/ SimFirst \/ SimEndSend
    PROVE  BridgeTypeOK' /\ Numbers'
  <1>0. simLeaf \in Leaves /\ SimTypes /\ RecordTypes
    BY TypeParts DEF SimTypes
  <1>1. SimulatorEffect
    BY SimulatorLeavesTheRest DEF Simulator
  <1>2. PICK msg \in ToPython : SimSend(simLeaf, msg)
    BY <1>0, Constants, MessagesAreTyped DEF SimInit, SimFirst, SimEndSend
  <1>3. /\ toPy' \in [Leaves -> Seq(ToPython)] /\ toSim' \in [Leaves -> Seq(ToSimulator)]
        /\ simLeaf' = simLeaf /\ awaiting' = TRUE
    BY <1>0, <1>2, SendTypes DEF SimSend
  <1>4. UNCHANGED <<sim, created, mgr, decided>> /\ sim # "run"
    BY DEF SimInit, SimFirst, SimEndSend
  <1>5. SimTypes' /\ RecordTypes' /\ Numbers'
    BY <1>0, <1>3, <1>4 DEF SimTypes, RecordTypes, Numbers
  <1> QED BY <1>1, <1>3, <1>5, SimulatorTypes

LEMMA SimReplyTypes ==
    ASSUME BridgeTypeOK, Numbers, SimInitAcked \/ SimFirstAction \/ SimEndReply
    PROVE  BridgeTypeOK' /\ Numbers'
  <1>0. simLeaf \in Leaves /\ SimTypes /\ RecordTypes
    BY TypeParts DEF SimTypes
  <1>1. SimulatorEffect
    BY SimulatorLeavesTheRest DEF Simulator
  <1>2. /\ toPy' \in [Leaves -> Seq(ToPython)] /\ toSim' \in [Leaves -> Seq(ToSimulator)]
        /\ awaiting' = FALSE
    BY ReplyTypes DEF SimInitAcked, SimFirstAction, SimEndReply
  <1>3. simLeaf' \in Leaves
    BY <1>0, NextLeafIs DEF SimInitAcked, SimFirstAction, SimEndReply
  <1>4. UNCHANGED <<created, decided>> /\ sim' \in Running \cup {"ok"}
    BY DEF SimInitAcked, SimFirstAction, SimEndReply, Running
  <1>5. SimTypes'
    BY <1>0, <1>2, <1>3, <1>4 DEF SimTypes, Running
  <1>6. RecordTypes' /\ \A l \in Leaves : mgr'[l].seq = mgr[l].seq
    <2>1. CASE mgr' = mgr
      BY <1>0, <1>4, <2>1 DEF RecordTypes
    <2>2. CASE mgr' = [mgr EXCEPT ![simLeaf].applied = FALSE]
      BY <1>0, <1>4, <2>2 DEF RecordTypes
    <2> QED BY <2>1, <2>2 DEF SimInitAcked, SimFirstAction, SimEndReply
  <1>7. Numbers'
    BY <1>2, <1>4, <1>6 DEF Numbers
  <1> QED BY <1>1, <1>2, <1>5, <1>6, <1>7, SimulatorTypes

LEMMA SimDecisionTypes ==
    ASSUME BridgeTypeOK, Numbers, NEW l \in Leaves, SimDecision(l)
    PROVE  BridgeTypeOK' /\ Numbers'
  <1>0. SimTypes /\ RecordTypes
    BY TypeParts
  <1>1. SimulatorEffect
    BY SimulatorLeavesTheRest DEF Simulator
  <1>2. created' \in Uids /\ created' = created + 1 /\ created \in Nat
    BY <1>0, Constants, BridgeAssumption DEF SimTypes, SimDecision, Uids
  <1>3. StateMsg("state", created + 1, l) \in ToPython
    BY <1>2, MessagesAreTyped
  <1>4. /\ toPy' \in [Leaves -> Seq(ToPython)] /\ toSim' \in [Leaves -> Seq(ToSimulator)]
        /\ simLeaf' = l /\ awaiting' = TRUE
    BY <1>3, SendTypes DEF SimDecision, SimSend
  <1>5. UNCHANGED <<sim, mgr, decided>>
    BY DEF SimDecision
  <1>6. SimTypes' /\ RecordTypes'
    BY <1>0, <1>2, <1>4, <1>5 DEF SimTypes, RecordTypes
  <1>7. Numbers'
    <2>1. ASSUME NEW k \in Leaves PROVE mgr[k].seq \in Nat
      BY <1>0 DEF RecordTypes
    <2> QED BY <1>2, <1>5, <2>1 DEF Numbers
  <1> QED BY <1>1, <1>4, <1>6, <1>7, SimulatorTypes

\* What SimAction does with the answer.
LEMMA SimActionEffect ==
    ASSUME BridgeTypeOK, Numbers, SimAction
    PROVE  LET a == Head(toSim[simLeaf]).act
               applied == a \notin DeadActions
               d == [uid |-> created, act |-> a, applied |-> applied]
           IN  /\ simLeaf \in Leaves /\ a \in Actions /\ applied \in BOOLEAN
               /\ d \in [uid : Uids, act : Actions, applied : BOOLEAN]
               /\ Append(decided[simLeaf], d)
                    \in Seq([uid : Uids, act : Actions, applied : BOOLEAN])
               /\ Len(decided[simLeaf]) \in Nat
               /\ Len(Append(decided[simLeaf], d)) = Len(decided[simLeaf]) + 1
               /\ decided' = [decided EXCEPT ![simLeaf] = Append(decided[simLeaf], d)]
               /\ mgr' = [mgr EXCEPT ![simLeaf] =
                            [applied |-> applied, seq |-> mgr[simLeaf].seq + 1]]
  <1> DEFINE a == Head(toSim[simLeaf]).act
             applied == a \notin DeadActions
             d == [uid |-> created, act |-> a, applied |-> applied]
             S == [uid : Uids, act : Actions, applied : BOOLEAN]
  <1>1. a \in Actions /\ simLeaf \in Leaves /\ created \in Uids
    BY ReplyTypes DEF SimAction, ToSimulator, BridgeTypeOK
  <1>2. applied \in BOOLEAN
    OBVIOUS
  <1>3. d \in S
    BY <1>1, <1>2
  <1>4. decided' = [decided EXCEPT ![simLeaf] = Append(decided[simLeaf], d)]
    BY DEF SimAction
  <1>5. mgr' = [mgr EXCEPT ![simLeaf] = [applied |-> applied, seq |-> mgr[simLeaf].seq + 1]]
    BY DEF SimAction
  <1>6. decided[simLeaf] \in Seq(S)
    BY <1>1 DEF BridgeTypeOK
  <1> HIDE DEF applied, d, S
  <1>7. Append(decided[simLeaf], d) \in Seq(S)
        /\ Len(Append(decided[simLeaf], d)) = Len(decided[simLeaf]) + 1
        /\ Len(decided[simLeaf]) \in Nat
    BY <1>3, <1>6, AppendProperties, LenProperties
  <1> HIDE DEF a
  <1> QED BY <1>1, <1>2, <1>3, <1>4, <1>5, <1>7 DEF S, d, applied, a

LEMMA SimActionTypes ==
    ASSUME BridgeTypeOK, Numbers, SimAction
    PROVE  BridgeTypeOK' /\ Numbers'
  <1> DEFINE applied == Head(toSim[simLeaf]).act \notin DeadActions
             ds == Append(decided[simLeaf], [uid |-> created, act |-> Head(toSim[simLeaf]).act,
                                             applied |-> applied])
             S == [uid : Uids, act : Actions, applied : BOOLEAN]
  <1>0. SimTypes /\ RecordTypes
    BY TypeParts
  <1>1. SimulatorEffect
    BY SimulatorLeavesTheRest DEF Simulator
  <1>2. /\ toPy' \in [Leaves -> Seq(ToPython)] /\ toSim' \in [Leaves -> Seq(ToSimulator)]
        /\ awaiting /\ awaiting' = FALSE
    BY ReplyTypes DEF SimAction
  <1>3. UNCHANGED <<sim, simLeaf, created>> /\ sim = "run"
    BY DEF SimAction
  <1>4. SimTypes'
    BY <1>0, <1>2, <1>3 DEF SimTypes
  <1>5. /\ ds \in Seq(S) /\ Len(ds) = Len(decided[simLeaf]) + 1
        /\ Len(decided[simLeaf]) \in Nat
        /\ decided' = [decided EXCEPT ![simLeaf] = ds] /\ applied \in BOOLEAN
        /\ mgr' = [mgr EXCEPT ![simLeaf] = [applied |-> applied, seq |-> mgr[simLeaf].seq + 1]]
        /\ simLeaf \in Leaves
    BY SimActionEffect
  <1> HIDE DEF applied, ds
  <1>6. mgr[simLeaf].seq \in 0..MaxPkts /\ mgr[simLeaf].seq < created /\ created \in 0..MaxPkts
    BY <1>0, <1>2, <1>3, <1>5 DEF RecordTypes, SimTypes, Numbers, Uids
  <1>7. mgr[simLeaf].seq + 1 \in 0..MaxPkts /\ mgr[simLeaf].seq + 1 <= created
    BY <1>6, BridgeAssumption
  <1>8. RecordTypes'
    BY <1>0, <1>5, <1>7 DEF RecordTypes
  <1>9. Numbers'
    BY <1>0, <1>2, <1>3, <1>5, <1>7 DEF Numbers, RecordTypes
  <1> QED BY <1>1, <1>2, <1>4, <1>8, <1>9, SimulatorTypes

LEMMA SimEndTypes ==
    ASSUME BridgeTypeOK, Numbers, SimEnd \/ SimCrash
    PROVE  BridgeTypeOK' /\ Numbers'
  <1>1. /\ UNCHANGED <<awaiting, created, mgr, decided, sockVars, mainVars, fwdVars, sharedVars>>
        /\ sim' \in Running \cup {"error"} /\ sim' # "run" /\ simLeaf' \in {0, simLeaf}
    BY DEF SimEnd, SimCrash, Running
  <1>2. SimulatorEffect
    BY <1>1 DEF SimulatorEffect, sockVars
  <1>3. toPy' \in [Leaves -> Seq(ToPython)] /\ toSim' \in [Leaves -> Seq(ToSimulator)]
    BY <1>1 DEF sockVars, BridgeTypeOK
  <1>4. SimTypes' /\ RecordTypes'
    BY <1>1, Constants, TypeParts DEF SimTypes, RecordTypes
  <1>5. Numbers'
    BY <1>1 DEF Numbers
  <1> QED BY <1>2, <1>3, <1>4, <1>5, SimulatorTypes

-----------------------------------------------------------------------------
(* The forwarders keep the types.                                          *)

LEMMA TypeSplit ==
    ASSUME MainTypes', SimTypes', RecordTypes', SocketTypes', ForwarderTypes', SharedTypes'
    PROVE  BridgeTypeOK'
  BY DEF BridgeTypeOK, MainTypes, SimTypes, RecordTypes, SocketTypes, ForwarderTypes,
         SharedTypes, AgentState, EnvState

\* What is left to show of a step of a forwarder.
LEMMA ForwarderLeavesTheRest ==
    ASSUME BridgeTypeOK, Numbers, UNCHANGED mainVars, UNCHANGED simVars,
           SocketTypes', ForwarderTypes', SharedTypes'
    PROVE  BridgeTypeOK' /\ Numbers'
  <1>1. MainTypes' /\ SimTypes' /\ RecordTypes' /\ Numbers'
    BY TypeParts DEF MainTypes, SimTypes, RecordTypes, Numbers, mainVars, simVars
  <1> QED BY <1>1, TypeSplit

LEMMA SocketSendTypes ==
    ASSUME SocketTypes, NEW l \in Leaves, NEW msg \in ToSimulator, SocketSend(l, msg),
           UNCHANGED <<port, toPy>>
    PROVE  SocketTypes'
  <1>1. toSim[l] \in Seq(ToSimulator)
    BY DEF SocketTypes
  <1>2. Append(toSim[l], msg) \in Seq(ToSimulator)
    BY <1>1, SentMessage
  <1> QED BY <1>2 DEF SocketTypes, SocketSend

\* dict.pop removes one key.
LEMMA PoppedKeeps ==
    ASSUME NEW S, NEW keys \in Seq(S), NEW uid
    PROVE  /\ Popped(keys, uid) \in Seq(S)
           /\ Range(keys) \subseteq Range(Popped(keys, uid)) \cup {uid}
  <1>1. CASE uid \notin Range(keys)
    BY <1>1 DEF Popped
  <1>2. CASE uid \in Range(keys)
    <2>1. DOMAIN keys = 1..Len(keys) /\ Len(keys) \in Nat
      BY LenProperties
    <2> DEFINE i == CHOOSE j \in DOMAIN keys : keys[j] = uid
               low == SubSeq(keys, 1, i - 1)
               high == SubSeq(keys, i + 1, Len(keys))
    <2>2. i \in 1..Len(keys) /\ keys[i] = uid
      BY <1>2, <2>1 DEF Range
    <2>3. Popped(keys, uid) = low \o high
      BY <1>2 DEF Popped, RemoveAt
    <2> HIDE DEF i
    <2>4. /\ low \in Seq(S) /\ Len(low) = i - 1
          /\ \A j \in 1..(i - 1) : low[j] = keys[j]
      <3>1. /\ Len(low) = IF 1 <= i - 1 THEN i - 1 ELSE 0
            /\ low \in Seq(S) /\ \A j \in 1..(i - 1) : low[j] = keys[j]
        BY <2>1, <2>2, SubSeqProperties
      <3> QED BY <2>1, <2>2, <3>1
    <2>5. /\ high \in Seq(S) /\ Len(high) = Len(keys) - i
          /\ \A j \in 1..(Len(keys) - i) : high[j] = keys[i + j]
      <3>1. /\ \A j \in (i + 1)..Len(keys) : keys[j] \in S
            /\ Len(high) = IF i + 1 <= Len(keys) THEN Len(keys) - i ELSE 0
            /\ high \in Seq(S)
            /\ \A j \in 1..(Len(keys) - i) : high[j] = keys[i + j]
        BY <2>1, <2>2, SubSeqProperties, ElementOfSeq
      <3> QED BY <2>1, <2>2, <3>1
    <2> HIDE DEF low, high
    <2>6. /\ low \o high \in Seq(S) /\ Len(low \o high) = Len(keys) - 1
          /\ \A j \in 1..(Len(keys) - 1) :
               (low \o high)[j] = IF j <= i - 1 THEN low[j] ELSE high[j - (i - 1)]
      <3>1. /\ low \o high \in Seq(S) /\ Len(low \o high) = Len(low) + Len(high)
            /\ \A j \in 1..(Len(low) + Len(high)) :
                 (low \o high)[j] = IF j <= Len(low) THEN low[j] ELSE high[j - Len(low)]
        BY <2>4, <2>5, ConcatProperties
      <3>2. Len(low) + Len(high) = Len(keys) - 1
        BY <2>1, <2>2, <2>4, <2>5
      <3> QED BY <2>4, <3>1, <3>2
    <2>7. ASSUME NEW j \in 1..Len(keys), j # i
          PROVE  \E k \in 1..(Len(keys) - 1) : (low \o high)[k] = keys[j]
      <3>1. CASE j < i
        <4>1. j \in 1..(Len(keys) - 1) /\ j <= i - 1 /\ j \in 1..(i - 1)
          BY <2>1, <2>2, <3>1
        <4> QED BY <2>4, <2>6, <4>1
      <3>2. CASE j > i
        <4>1. /\ j - 1 \in 1..(Len(keys) - 1) /\ ~(j - 1 <= i - 1)
              /\ j - 1 - (i - 1) \in 1..(Len(keys) - i) /\ i + (j - 1 - (i - 1)) = j
          BY <2>1, <2>2, <3>2
        <4> QED BY <2>5, <2>6, <4>1
      <3>3. j < i \/ j > i
        BY <2>1, <2>2, <2>7
      <3> QED BY <3>1, <3>2, <3>3
    <2>8. DOMAIN (low \o high) = 1..(Len(keys) - 1)
      BY <2>6, LenProperties
    <2>9. Range(keys) \subseteq Range(low \o high) \cup {uid}
      BY <2>1, <2>2, <2>7, <2>8 DEF Range
    <2> QED BY <2>3, <2>6, <2>9
  <1> QED BY <1>1, <1>2

\* A key is stored once.
LEMMA StoredKeeps ==
    ASSUME NEW S, NEW keys \in Seq(S), NEW uid \in S
    PROVE  /\ Stored(keys, uid) \in Seq(S)
           /\ Range(keys) \subseteq Range(Stored(keys, uid)) /\ uid \in Range(Stored(keys, uid))
  <1>1. CASE uid \in Range(keys)
    BY <1>1 DEF Stored
  <1>2. CASE uid \notin Range(keys)
    <2>1. /\ Append(keys, uid) \in Seq(S) /\ Len(Append(keys, uid)) = Len(keys) + 1
          /\ \A j \in 1..Len(keys) : Append(keys, uid)[j] = keys[j]
          /\ Append(keys, uid)[Len(keys) + 1] = uid
      BY AppendProperties
    <2>2. DOMAIN keys = 1..Len(keys) /\ Len(keys) \in Nat
          /\ DOMAIN Append(keys, uid) = 1..(Len(keys) + 1)
      BY <2>1, LenProperties
    <2>3. ASSUME NEW j \in 1..Len(keys) PROVE j \in 1..(Len(keys) + 1)
      BY <2>2
    <2>4. Len(keys) + 1 \in 1..(Len(keys) + 1)
      BY <2>2
    <2> QED BY <1>2, <2>1, <2>2, <2>3, <2>4 DEF Stored, Range
  <1> QED BY <1>1, <1>2

\* Pruning drops the oldest entries, all of them forgotten.
LEMMA PrunedKeeps ==
    ASSUME SharedTypes
    PROVE  /\ SubSeq(temp, Len(Pruned) + 1, Len(temp)) \in Seq(Uids)
           /\ Range(temp) \subseteq
                Range(SubSeq(temp, Len(Pruned) + 1, Len(temp))) \cup Forgotten
  <1> DEFINE n == Len(temp)
             p == Len(Pruned)
             rest == SubSeq(temp, p + 1, n)
  <1>0. temp \in Seq(Uids) /\ n \in Nat /\ DOMAIN temp = 1..n
    BY LenProperties DEF SharedTypes
  <1>1. /\ Pruned \in Seq(Uids) /\ p \in 0..n
        /\ \A j \in 1..p : Pruned[j] = temp[j]
    <2>1. CASE n > TempLimit
      <3> DEFINE m == Least(TempDrop, n)
      <3>1. m \in 1..n
        BY <1>0, <2>1, BridgeAssumption DEF Least
      <3> HIDE DEF m
      <3>2. \A j \in 1..m : j \in 1..n
        BY <1>0, <3>1
      <3>3. \A j \in 1..m : temp[j] \in Uids
        BY <1>0, <3>2, ElementOfSeq
      <3>4. /\ SubSeq(temp, 1, m) \in Seq(Uids) /\ Len(SubSeq(temp, 1, m)) = m
            /\ \A j \in 1..m : SubSeq(temp, 1, m)[j] = temp[j]
        <4>1. /\ Len(SubSeq(temp, 1, m)) = IF 1 <= m THEN m - 1 + 1 ELSE 0
              /\ SubSeq(temp, 1, m) \in Seq(Uids)
              /\ \A j \in 1..(m - 1 + 1) : SubSeq(temp, 1, m)[j] = temp[1 + j - 1]
          BY <1>0, <3>1, <3>3, SubSeqProperties
        <4> QED BY <3>1, <4>1
      <3>5. Pruned = SubSeq(temp, 1, m)
        BY <2>1 DEF Pruned, m
      <3> QED BY <1>0, <3>1, <3>4, <3>5
    <2>2. CASE ~(n > TempLimit)
      <3>1. Pruned = <<>>
        BY <2>2 DEF Pruned
      <3> QED BY <1>0, <3>1, EmptySeq
    <2> QED BY <2>1, <2>2
  <1> HIDE DEF p
  <1>2. \A j \in (p + 1)..n : j \in 1..n
    BY <1>0, <1>1
  <1>3. /\ rest \in Seq(Uids) /\ Len(rest) = n - p
        /\ \A j \in 1..(n - p) : rest[j] = temp[p + j]
    <2>1. \A j \in (p + 1)..n : temp[j] \in Uids
      BY <1>0, <1>2, ElementOfSeq
    <2>2. /\ Len(rest) = IF p + 1 <= n THEN n - (p + 1) + 1 ELSE 0
          /\ rest \in Seq(Uids)
          /\ \A j \in 1..(n - (p + 1) + 1) : rest[j] = temp[p + 1 + j - 1]
      BY <1>0, <1>1, <2>1, SubSeqProperties
    <2> HIDE DEF rest
    <2>3. Len(rest) = n - p /\ n - (p + 1) + 1 = n - p
      <3> HIDE DEF n
      <3>1. n \in Nat /\ p \in 0..n
        BY <1>0, <1>1
      <3>2. p + 1 <= n => n - (p + 1) + 1 = n - p
        BY <3>1
      <3>3. ~(p + 1 <= n) => n - p = 0 /\ n - (p + 1) + 1 = 0
        BY <3>1
      <3>4. n - (p + 1) + 1 = n - p
        BY <3>1
      <3> QED BY <2>2, <3>2, <3>3, <3>4
    <2>4. ASSUME NEW j \in 1..(n - p) PROVE rest[j] = temp[p + j]
      <3>1. rest[j] = temp[p + 1 + j - 1]
        BY <2>2, <2>3
      <3>2. p + 1 + j - 1 = p + j
        BY <1>0, <1>1
      <3> QED BY <3>1, <3>2
    <2> QED BY <2>2, <2>3, <2>4
  <1>4. DOMAIN rest = 1..(n - p) /\ DOMAIN Pruned = 1..p
    BY <1>1, <1>3, LenProperties DEF p
  <1> HIDE DEF rest
  <1>5. ASSUME NEW j \in 1..n PROVE temp[j] \in Range(rest) \cup Forgotten
    <2>1. CASE j <= p
      <3>1. j \in 1..p
        BY <1>0, <1>1, <2>1
      <3> QED BY <1>1, <1>4, <3>1 DEF Forgotten, Range
    <2>2. CASE j > p
      <3>1. j - p \in 1..(n - p) /\ p + (j - p) = j
        BY <1>0, <1>1, <2>2
      <3> QED BY <1>3, <1>4, <3>1 DEF Range
    <2> QED BY <1>0, <1>1, <2>1, <2>2
  <1>6. Range(temp) \subseteq Range(rest) \cup Forgotten
    BY <1>0, <1>5 DEF Range
  <1> QED BY <1>3, <1>6 DEF rest, p

LEMMA ForwarderIsTyped ==
    ASSUME ForwarderTypes, NEW l \in Leaves
    PROVE  /\ env[l] \in EnvState /\ agent[l] \in AgentState
           /\ env[l].connected \in BOOLEAN /\ env[l].obs \in Uids /\ env[l].info \in Info
           /\ env[l].info.uid \in Uids /\ env[l].info.applied \in BOOLEAN
           /\ env[l].info.seq \in 0..MaxPkts
           /\ agent[l].prev \in Uids /\ agent[l].action \in Actions /\ agent[l].pkt \in Uids
           /\ agent[l].signaling \in BOOLEAN /\ agent[l].steps \in 0..1
           /\ agent[l].lastSeq \in 0..MaxPkts
           /\ agent[l].mismatches \in Nat /\ agent[l].counted \in Nat
  <1>1. env[l] \in EnvState /\ agent[l] \in AgentState
    BY DEF ForwarderTypes
  <1> QED BY <1>1 DEF EnvState, AgentState, Info

\* What StepSend does.
LEMMA StepSendEffect ==
    ASSUME BridgeTypeOK, NEW l \in Leaves, StepSend(l)
    PROVE  /\ fwd[l] = "top" /\ fwd' = [fwd EXCEPT ![l] = "receive"]
           /\ UNCHANGED <<mainVars, simVars, port, toPy, env, written>>
           /\ \E a \in Actions :
                /\ SocketSend(l, Act(a))
                /\ agent' = [agent EXCEPT ![l] =
                     [agent[l] EXCEPT !.prev = env[l].obs, !.action = a,
                        !.counted = IF TakesAction(l) THEN agent[l].counted + 1
                                                      ELSE agent[l].counted]]
           /\ \/ UNCHANGED sharedVars
              \/ /\ temp' = SubSeq(temp, Len(Pruned) + 1, Len(temp))
                 /\ tracking' = tracking \ Forgotten
  <1>1. PICK a \in IF TakesAction(l) THEN Actions ELSE {0} :
         /\ SocketSend(l, Act(a))
         /\ agent' = [agent EXCEPT ![l].prev = env[l].obs, ![l].action = a,
              ![l].counted = IF TakesAction(l) THEN @ + 1 ELSE @]
    BY DEF StepSend
  <1>2. a \in Actions
    BY Constants
  <1>3. agent' = [agent EXCEPT ![l] =
                     [agent[l] EXCEPT !.prev = env[l].obs, !.action = a,
                        !.counted = IF TakesAction(l) THEN agent[l].counted + 1
                                                      ELSE agent[l].counted]]
    <2> DEFINE c == IF TakesAction(l) THEN agent[l].counted + 1 ELSE agent[l].counted
    <2>1. agent \in [Leaves -> AgentState]
      BY TypeParts DEF ForwarderTypes
    <2>2. agent' = [agent EXCEPT ![l].prev = env[l].obs, ![l].action = a, ![l].counted = c]
      BY <1>1, <2>1
    <2> HIDE DEF c
    <2>3. agent' = [agent EXCEPT ![l] =
                     [agent[l] EXCEPT !.prev = env[l].obs, !.action = a, !.counted = c]]
      BY <2>1, <2>2
    <2> QED BY <2>3 DEF c
  <1>4. \/ UNCHANGED sharedVars
        \/ /\ temp' = SubSeq(temp, Len(Pruned) + 1, Len(temp))
           /\ tracking' = tracking \ Forgotten
    BY DEF StepSend
  <1>5. /\ fwd[l] = "top" /\ fwd' = [fwd EXCEPT ![l] = "receive"]
        /\ UNCHANGED <<mainVars, simVars, port, toPy, env, written>>
    BY DEF StepSend
  <1> QED BY <1>1, <1>2, <1>3, <1>4, <1>5

LEMMA StepSendTypes ==
    ASSUME BridgeTypeOK, Numbers, NEW l \in Leaves, StepSend(l)
    PROVE  BridgeTypeOK' /\ Numbers'
  <1>0. SocketTypes /\ ForwarderTypes /\ SharedTypes
    BY TypeParts
  <1>1. PICK a \in Actions :
                /\ SocketSend(l, Act(a))
                /\ agent' = [agent EXCEPT ![l] =
                     [agent[l] EXCEPT !.prev = env[l].obs, !.action = a,
                        !.counted = IF TakesAction(l) THEN agent[l].counted + 1
                                                      ELSE agent[l].counted]]
    BY StepSendEffect
  <1>2. /\ fwd' = [fwd EXCEPT ![l] = "receive"]
        /\ UNCHANGED <<mainVars, simVars, port, toPy, env, written>>
    BY StepSendEffect
  <1>3. UNCHANGED mainVars /\ UNCHANGED simVars
    BY <1>2
  <1>4. SocketTypes'
    BY <1>0, <1>1, <1>2, MessagesAreTyped, Constants, SocketSendTypes
  <1>5. ForwarderTypes'
    <2> DEFINE c == IF TakesAction(l) THEN agent[l].counted + 1 ELSE agent[l].counted
               new == [agent[l] EXCEPT !.prev = env[l].obs, !.action = a, !.counted = c]
    <2>1. c \in Nat
      BY <1>0, ForwarderIsTyped
    <2> HIDE DEF c
    <2>2. new \in AgentState
      BY <1>0, <2>1, ForwarderIsTyped DEF AgentState
    <2>3. agent' = [agent EXCEPT ![l] = new]
      BY <1>1 DEF c
    <2> HIDE DEF new
    <2> QED BY <1>0, <1>2, <2>2, <2>3 DEF ForwarderTypes
  <1>6. SharedTypes'
    <2>1. SubSeq(temp, Len(Pruned) + 1, Len(temp)) \in Seq(Uids)
      BY <1>0, PrunedKeeps
    <2> QED BY <1>0, <2>1, StepSendEffect DEF SharedTypes, sharedVars
  <1> QED BY <1>3, <1>4, <1>5, <1>6, ForwarderLeavesTheRest

LEMMA ReceivedIsTyped ==
    ASSUME ForwarderTypes, NEW l \in Leaves, NEW msg \in ToPython
    PROVE  Received(l, msg) \in EnvState
  <1>1. /\ msg.uid \in Uids /\ msg.applied \in BOOLEAN /\ msg.seq \in 0..MaxPkts
    BY DEF ToPython
  <1> QED BY <1>1, ForwarderIsTyped DEF Received, EnvState, InfoOf, Info

LEMMA ReceiveTypes ==
    ASSUME BridgeTypeOK, Numbers, NEW l \in Leaves, Receive(l)
    PROVE  BridgeTypeOK' /\ Numbers'
  <1>0. SocketTypes /\ ForwarderTypes /\ SharedTypes
    BY TypeParts
  <1>1. /\ fwd' = [fwd EXCEPT ![l] = "body"]
        /\ UNCHANGED <<port, agent, written>>
        /\ UNCHANGED mainVars /\ UNCHANGED simVars /\ UNCHANGED sharedVars
    BY DEF Receive
  <1>2. SocketTypes' /\ env' \in [Leaves -> EnvState]
    <2>1. CASE rep[l] = "recv"
      <3>1. toPy[l] # <<>> /\ toPy[l] \in Seq(ToPython)
        BY <1>0, <2>1 DEF Receive, SocketRecv, MayReceive, SocketTypes
      <3>2. Head(toPy[l]) \in ToPython /\ Tail(toPy[l]) \in Seq(ToPython)
        BY <3>1, OneMessage
      <3>3. Received(l, Head(toPy[l])) \in EnvState
        BY <1>0, <3>2, ReceivedIsTyped
      <3>4. /\ env' = [env EXCEPT ![l] = Received(l, Head(toPy[l]))]
            /\ toPy' = [toPy EXCEPT ![l] = Tail(toPy[l])]
            /\ rep' = [rep EXCEPT ![l] = "reply"]
            /\ UNCHANGED <<toSim, misused>>
        BY <2>1 DEF Receive, SocketRecv
      <3> QED BY <1>0, <1>1, <3>2, <3>3, <3>4 DEF SocketTypes, ForwarderTypes
    <2>2. CASE rep[l] # "recv"
      <3>1. /\ misused' = misused \cup {l}
            /\ env' = [env EXCEPT ![l] = [env[l] EXCEPT !.connected = FALSE]]
            /\ UNCHANGED <<rep, toPy, toSim>>
        BY <1>0, <2>2 DEF Receive, ForwarderTypes
      <3>2. [env[l] EXCEPT !.connected = FALSE] \in EnvState
        BY <1>0, ForwarderIsTyped DEF EnvState
      <3> QED BY <1>0, <1>1, <3>1, <3>2 DEF SocketTypes, ForwarderTypes
    <2> QED BY <2>1, <2>2
  <1>3. ForwarderTypes' /\ SharedTypes'
    BY <1>0, <1>1, <1>2 DEF ForwarderTypes, SharedTypes, sharedVars
  <1> QED BY <1>1, <1>2, <1>3, ForwarderLeavesTheRest

\* What Body does to the agent.
LEMMA IteratedIs ==
    ASSUME ForwarderTypes, NEW l \in Leaves
    PROVE  /\ Iterated(l) \in AgentState
           /\ Iterated(l).prev = agent[l].prev /\ Iterated(l).action = agent[l].action
           /\ Iterated(l).counted = agent[l].counted
           /\ Iterated(l).pkt = env[l].info.uid /\ Iterated(l).steps = 1
           /\ Iterated(l).signaling = IsCtrl(l)
           /\ ValidStep(l) => Iterated(l).lastSeq = env[l].info.seq
           /\ ~ValidStep(l) => Iterated(l).lastSeq = agent[l].lastSeq
           /\ SeqMismatch(l) => Iterated(l).mismatches = agent[l].mismatches + 1
           /\ ~SeqMismatch(l) => Iterated(l).mismatches = agent[l].mismatches
  <1> DEFINE s == IF ValidStep(l) THEN env[l].info.seq ELSE agent[l].lastSeq
             m == IF SeqMismatch(l) THEN agent[l].mismatches + 1 ELSE agent[l].mismatches
             i == IsCtrl(l)
             new == [agent[l] EXCEPT !.pkt = env[l].info.uid, !.signaling = i, !.steps = 1,
                                     !.lastSeq = s, !.mismatches = m]
  <1>1. Iterated(l) = new
    BY DEF Iterated
  <1>2. s \in 0..MaxPkts /\ m \in Nat
    BY ForwarderIsTyped
  <1>3. i \in BOOLEAN
    BY DEF IsCtrl
  <1>4. /\ ValidStep(l) => s = env[l].info.seq
        /\ ~ValidStep(l) => s = agent[l].lastSeq
        /\ SeqMismatch(l) => m = agent[l].mismatches + 1
        /\ ~SeqMismatch(l) => m = agent[l].mismatches
    OBVIOUS
  <1> HIDE DEF s, m, i
  <1>5. new \in AgentState /\ new.prev = agent[l].prev /\ new.action = agent[l].action
        /\ new.counted = agent[l].counted /\ new.pkt = env[l].info.uid /\ new.steps = 1
        /\ new.signaling = i /\ new.lastSeq = s /\ new.mismatches = m
    <2>1. agent[l] \in AgentState /\ env[l].info.uid \in Uids /\ 1 \in 0..1
      BY ForwarderIsTyped
    <2> QED BY <1>2, <1>3, <2>1 DEF AgentState
  <1> HIDE DEF new
  <1> QED BY <1>1, <1>4, <1>5 DEF i

LEMMA BodyTypes ==
    ASSUME BridgeTypeOK, Numbers, NEW l \in Leaves, Body(l)
    PROVE  BridgeTypeOK' /\ Numbers'
  <1>0. SocketTypes /\ ForwarderTypes /\ SharedTypes
    BY TypeParts
  <1>1. /\ UNCHANGED sockVars /\ UNCHANGED env
        /\ UNCHANGED mainVars /\ UNCHANGED simVars
    BY DEF Body
  <1>2. SocketTypes'
    BY <1>0, <1>1 DEF SocketTypes, sockVars
  <1>3. written' \in [Leaves -> Seq([obs : Uids, act : Actions, next : Uids])]
    <2>1. Transition(l) \in [obs : Uids, act : Actions, next : Uids]
      BY <1>0, ForwarderIsTyped DEF Transition
    <2>2. written[l] \in Seq([obs : Uids, act : Actions, next : Uids])
      BY <1>0 DEF ForwarderTypes
    <2>3. Append(written[l], Transition(l)) \in Seq([obs : Uids, act : Actions, next : Uids])
      BY <2>1, <2>2, AppendProperties
    <2>4. written' = written \/ written' = [written EXCEPT ![l] = Append(written[l], Transition(l))]
      BY DEF Body
    <2> QED BY <1>0, <2>3, <2>4 DEF ForwarderTypes
  <1>4. fwd' \in [Leaves -> {"none", "top", "receive", "body", "closing", "done"}]
    <2>1. fwd' = [fwd EXCEPT ![l] = "top"] \/ fwd' = [fwd EXCEPT ![l] = "closing"]
      BY DEF Body
    <2> QED BY <1>0, <2>1 DEF ForwarderTypes
  <1>5. ForwarderTypes'
    <2>1. agent' = [agent EXCEPT ![l] = Iterated(l)]
      BY DEF Body
    <2>2. Iterated(l) \in AgentState
      BY <1>0, IteratedIs
    <2> QED BY <1>0, <1>1, <1>3, <1>4, <2>1, <2>2 DEF ForwarderTypes
  <1>6. SharedTypes'
    <2>1. Untransited(l) \in Seq(Uids)
      BY <1>0, PoppedKeeps DEF Untransited, SharedTypes
    <2>2. Stored(Untransited(l), agent[l].pkt) \in Seq(Uids)
      BY <1>0, <2>1, StoredKeeps, ForwarderIsTyped
    <2>3. Tracked(l) \subseteq Uids
      BY <1>0, ForwarderIsTyped DEF Tracked, SharedTypes
    <2> QED BY <1>0, <2>1, <2>2, <2>3 DEF Body, SharedTypes, sharedVars
  <1> QED BY <1>1, <1>2, <1>5, <1>6, ForwarderLeavesTheRest

LEMMA CloseCommandTypes ==
    ASSUME BridgeTypeOK, Numbers, NEW l \in Leaves, CloseCommand(l)
    PROVE  BridgeTypeOK' /\ Numbers'
  <1>0. SocketTypes /\ ForwarderTypes /\ SharedTypes
    BY TypeParts
  <1>1. /\ SocketSend(l, Stop) /\ fwd' = [fwd EXCEPT ![l] = "done"]
        /\ UNCHANGED <<port, toPy, env, agent, written>>
        /\ UNCHANGED mainVars /\ UNCHANGED simVars /\ UNCHANGED sharedVars
    BY DEF CloseCommand
  <1>2. SocketTypes'
    BY <1>0, <1>1, MessagesAreTyped, Constants, SocketSendTypes
  <1>3. ForwarderTypes' /\ SharedTypes'
    BY <1>0, <1>1 DEF ForwarderTypes, SharedTypes, sharedVars
  <1> QED BY <1>1, <1>2, <1>3, ForwarderLeavesTheRest

-----------------------------------------------------------------------------
(* The main thread keeps the types.                                        *)

LEMMA MainThreadTypes ==
    ASSUME BridgeTypeOK, Numbers,
           BindFails \/ CloseEnvs \/ Reap \/ ReapFails \/ StopOwnedProcess \/ Exit
    PROVE  BridgeTypeOK' /\ Numbers'
  <1>0. MainTypes /\ SimTypes /\ RecordTypes /\ SocketTypes /\ ForwarderTypes /\ SharedTypes
    BY TypeParts
  <1>1. /\ UNCHANGED <<leaf, simLeaf, awaiting, created, mgr, decided,
                       rep, toPy, toSim, misused, fwd, env, agent, written, tracking, temp>>
    BY DEF BindFails, CloseEnvs, Reap, ReapFails, StopOwnedProcess, Exit, simVars, sockVars,
           fwdVars, sharedVars
  <1>2. MainTypes'
    <2>1. episode \in 1..NumEpisodes /\ episode < NumEpisodes => episode + 1 \in 1..NumEpisodes
      BY BridgeAssumption
    <2> QED BY <1>0, <1>1, <2>1 DEF MainTypes, BindFails, CloseEnvs, Reap, ReapFails,
               StopOwnedProcess, Exit
  <1>3. SimTypes' /\ (sim' = sim \/ sim' = "killed")
    BY <1>0, <1>1 DEF SimTypes, simVars, BindFails, CloseEnvs, Reap, ReapFails,
                      StopOwnedProcess, Exit
  <1>4. SocketTypes'
    <2>1. port' = port \/ port' = Closed
      BY DEF BindFails, CloseEnvs, Reap, ReapFails, StopOwnedProcess, Exit, sockVars
    <2> QED BY <1>0, <1>1, <2>1 DEF SocketTypes, Closed
  <1>5. RecordTypes' /\ ForwarderTypes' /\ SharedTypes' /\ Numbers'
    BY <1>0, <1>1, <1>3 DEF RecordTypes, ForwarderTypes, SharedTypes, Numbers
  <1> QED BY <1>2, <1>3, <1>4, <1>5, TypeSplit

LEMMA RunNs3Types ==
    ASSUME BridgeTypeOK, Numbers, RunNs3
    PROVE  BridgeTypeOK' /\ Numbers'
  <1>0. MainTypes /\ SimTypes /\ RecordTypes /\ SocketTypes /\ ForwarderTypes /\ SharedTypes
    BY TypeParts
  <1>1. MainTypes'
    BY <1>0, Constants DEF RunNs3, MainTypes
  <1>2. SimTypes'
    BY Constants DEF RunNs3, SimTypes, Running, NoPacket
  <1>3. RecordTypes' /\ Numbers'
    <2>1. NewManager \in [applied : BOOLEAN, seq : 0..MaxPkts] /\ NewManager.seq = 0
      BY Constants DEF NewManager
    <2>2. <<>> \in Seq([uid : Uids, act : Actions, applied : BOOLEAN]) /\ Len(<<>>) = 0
      BY EmptySeq
    <2> QED BY <2>1, <2>2 DEF RunNs3, RecordTypes, Numbers
  <1>4. SocketTypes' /\ ForwarderTypes'
    BY <1>0 DEF RunNs3, SocketTypes, ForwarderTypes, sockVars, fwdVars
  <1>5. SharedTypes'
    BY EmptySeq DEF RunNs3, SharedTypes
  <1> QED BY <1>1, <1>2, <1>3, <1>4, <1>5, TypeSplit

LEMMA BindTypes ==
    ASSUME BridgeTypeOK, Numbers, Bind \/ InitializeEnv
    PROVE  BridgeTypeOK' /\ Numbers'
  <1>0. /\ MainTypes /\ SimTypes /\ RecordTypes /\ SocketTypes /\ ForwarderTypes /\ SharedTypes
        /\ leaf \in Leaves
    BY TypeParts DEF MainTypes
  <1>1. /\ UNCHANGED <<episode, leaf, outcome, misused>>
        /\ UNCHANGED simVars /\ UNCHANGED fwdVars /\ UNCHANGED sharedVars
        /\ main' \in {"handshake", "first"}
    BY DEF Bind, InitializeEnv
  <1>2. SocketTypes'
    <2>1. CASE Bind
      BY <1>0, <2>1 DEF Bind, SocketTypes
    <2>2. CASE InitializeEnv
      <3>1. toPy[leaf] # <<>> /\ toPy[leaf] \in Seq(ToPython) /\ toSim[leaf] \in Seq(ToSimulator)
        BY <1>0, <2>2 DEF InitializeEnv, MayReceive, SocketTypes
      <3>2. Tail(toPy[leaf]) \in Seq(ToPython) /\ Append(toSim[leaf], Ack) \in Seq(ToSimulator)
        BY <1>0, <3>1, OneMessage, SentMessage, MessagesAreTyped, Constants
      <3> QED BY <1>0, <2>2, <3>2 DEF InitializeEnv, SocketTypes
    <2> QED BY <2>1, <2>2
  <1>3. MainTypes' /\ SimTypes' /\ RecordTypes' /\ ForwarderTypes' /\ SharedTypes' /\ Numbers'
    BY <1>0, <1>1 DEF MainTypes, SimTypes, RecordTypes, ForwarderTypes, SharedTypes, Numbers,
                      simVars, fwdVars, sharedVars
  <1> QED BY <1>2, <1>3, TypeSplit

LEMMA StartForwarderTypes ==
    ASSUME BridgeTypeOK, Numbers, StartForwarder
    PROVE  BridgeTypeOK' /\ Numbers'
  <1> DEFINE msg == Head(toPy[leaf])
             new == [connected |-> TRUE, obs |-> msg.uid, info |-> InfoOf(msg)]
  <1>0. /\ MainTypes /\ SimTypes /\ RecordTypes /\ SocketTypes /\ ForwarderTypes /\ SharedTypes
        /\ leaf \in Leaves
    BY TypeParts DEF MainTypes
  <1>1. toPy[leaf] # <<>> /\ toPy[leaf] \in Seq(ToPython)
    BY <1>0 DEF StartForwarder, SocketRecv, MayReceive, SocketTypes
  <1>2. msg \in ToPython /\ Tail(toPy[leaf]) \in Seq(ToPython)
    BY <1>1, OneMessage
  <1>3. SocketTypes'
    BY <1>0, <1>2 DEF StartForwarder, SocketRecv, SocketTypes
  <1>4. ForwarderTypes'
    <2>1. msg.uid \in Uids /\ msg.applied \in BOOLEAN /\ msg.seq \in 0..MaxPkts
      BY <1>2 DEF ToPython
    <2>2. new \in EnvState
      BY <2>1 DEF EnvState, InfoOf, Info
    <2>3. NewAgent \in AgentState /\ <<>> \in Seq([obs : Uids, act : Actions, next : Uids])
      BY Constants, EmptySeq DEF NewAgent, AgentState, NoPacket
    <2>4. /\ env' = [env EXCEPT ![leaf] = new]
          /\ agent' = [agent EXCEPT ![leaf] = NewAgent]
          /\ written' = [written EXCEPT ![leaf] = <<>>]
          /\ fwd' = [fwd EXCEPT ![leaf] = "top"]
      BY DEF StartForwarder, ResetAgent
    <2> HIDE DEF new, msg
    <2> QED BY <1>0, <2>2, <2>3, <2>4 DEF ForwarderTypes
  <1>5. MainTypes'
    <2>1. leaf # NLeaves - 1 => leaf + 1 \in Leaves
      BY <1>0, BridgeAssumption DEF Leaves
    <2> QED BY <1>0, <2>1 DEF StartForwarder, MainTypes
  <1>6. SimTypes' /\ RecordTypes' /\ SharedTypes' /\ Numbers'
    BY <1>0 DEF StartForwarder, SimTypes, RecordTypes, SharedTypes, Numbers, simVars, sharedVars
  <1> QED BY <1>3, <1>4, <1>5, <1>6, TypeSplit

LEMMA UnchangedTypes ==
    ASSUME BridgeTypeOK, Numbers, UNCHANGED vars
    PROVE  BridgeTypeOK' /\ Numbers'
  BY DEF BridgeTypeOK, Numbers, vars, mainVars, simVars, sockVars, fwdVars, sharedVars

LEMMA NextTypes ==
    ASSUME BridgeTypeOK, Numbers, [Next]_vars
    PROVE  BridgeTypeOK' /\ Numbers'
  <1>1. CASE Main
    BY <1>1, RunNs3Types, BindTypes, StartForwarderTypes, MainThreadTypes DEF Main
  <1>2. CASE Simulator \/ SimCrash
    BY <1>2, SimInitTypes, SimReplyTypes, SimDecisionTypes, SimActionTypes, SimEndTypes
       DEF Simulator
  <1>3. ASSUME NEW l \in Leaves, Forwarder(l) PROVE BridgeTypeOK' /\ Numbers'
    BY <1>3, StepSendTypes, ReceiveTypes, BodyTypes, CloseCommandTypes DEF Forwarder
  <1>4. CASE UNCHANGED vars
    BY <1>4, UnchangedTypes
  <1> QED BY <1>1, <1>2, <1>3, <1>4 DEF Next, Done

\* The bridge, the forwarders and the simulator keep their variables in their
\* types; a packet number and an action number never pass the packets created.
THEOREM TypeCorrect == Spec => []BridgeTypeOK
  <1>1. BridgeTypeOK /\ Numbers /\ [Next]_vars => (BridgeTypeOK /\ Numbers)'
    BY NextTypes
  <1>2. Spec => [](BridgeTypeOK /\ Numbers)
    BY <1>1, InitTypes, PTL DEF Spec
  <1> QED BY <1>2, PTL

-----------------------------------------------------------------------------
(* The exchanges.                                                          *)

LEMMA QueuesAreTyped ==
    ASSUME BridgeTypeOK, NEW l \in Leaves
    PROVE  toPy[l] \in Seq(ToPython) /\ toSim[l] \in Seq(ToSimulator)
  BY DEF BridgeTypeOK

\* Who handles a request is the leaf the simulator waits for, ...
LEMMA HandlerIs ==
    ASSUME Exchanges, NEW l \in Leaves, Handling(l)
    PROVE  awaiting /\ simLeaf = l /\ Handled(l)
  BY DEF Exchanges, Exchange, Quiet, Asked, Handled, Answered

\* ... and so is who receives one, ...
LEMMA ReceiverIs ==
    ASSUME Exchanges, NEW l \in Leaves, toPy[l] # <<>>
    PROVE  awaiting /\ simLeaf = l /\ Asked(l)
  BY DEF Exchanges, Exchange, Quiet, Asked, Handled, Answered

\* ... or has replied.
LEMMA ReplierIs ==
    ASSUME Exchanges, NEW l \in Leaves, toSim[l] # <<>>
    PROVE  awaiting /\ simLeaf = l /\ Answered(l)
  BY DEF Exchanges, Exchange, Quiet, Asked, Handled, Answered

LEMMA SendExchange ==
    ASSUME BridgeTypeOK, Exchanges, ~awaiting, NEW l \in Leaves, NEW msg \in ToPython,
           SimSend(l, msg), UNCHANGED fwd
    PROVE  /\ Exchanges' /\ awaiting' = TRUE /\ simLeaf' = l
           /\ toPy'[l] # <<>> /\ Head(toPy'[l]) = msg
           /\ \A k \in Leaves : toSim'[k] = <<>>
           /\ \A k \in Leaves : k # l => toPy'[k] = <<>>
           /\ \A k \in Leaves : ~Handling(k)
  <1>1. \A k \in Leaves : Quiet(k)
    BY DEF Exchanges, Exchange
  <1>2. toPy[l] \in Seq(ToPython) /\ toPy[l] = <<>>
    BY <1>1, QueuesAreTyped DEF Quiet
  <1>3. /\ Append(toPy[l], msg) # <<>> /\ Head(Append(toPy[l], msg)) = msg
        /\ Len(Append(toPy[l], msg)) = 1
    BY <1>2, SentMessage
  <1>4. /\ toPy' = [toPy EXCEPT ![l] = Append(toPy[l], msg)]
        /\ simLeaf' = l /\ awaiting' = TRUE /\ UNCHANGED <<toSim, port, rep, misused>>
    BY DEF SimSend
  <1>5. /\ toPy'[l] = Append(toPy[l], msg) /\ \A k \in Leaves : k # l => toPy'[k] = toPy[k]
    BY <1>4 DEF BridgeTypeOK
  <1>6. Exchanges'
    BY <1>1, <1>3, <1>4, <1>5 DEF Exchanges, Exchange, Asked, Quiet, Handling
  <1> QED BY <1>1, <1>3, <1>4, <1>5, <1>6 DEF Quiet

LEMMA ReplyExchange ==
    ASSUME BridgeTypeOK, Exchanges, NEW kind, SimReply(kind), UNCHANGED fwd
    PROVE  /\ Exchanges' /\ awaiting /\ awaiting' = FALSE
           /\ toSim[simLeaf] # <<>> /\ simLeaf \in Leaves /\ Answered(simLeaf)
           /\ Head(toSim[simLeaf]).kind \in kind
           /\ \A k \in Leaves : toPy[k] = <<>> /\ toPy'[k] = <<>> /\ toSim'[k] = <<>>
           /\ \A k \in Leaves : k # simLeaf => toSim[k] = <<>>
  <1>1. /\ awaiting /\ toSim[simLeaf] # <<>> /\ simLeaf \in Leaves
        /\ toSim' = [toSim EXCEPT ![simLeaf] = Tail(toSim[simLeaf])]
        /\ awaiting' = FALSE /\ UNCHANGED <<toPy, port, rep, misused>>
        /\ Head(toSim[simLeaf]).kind \in kind
    BY DEF SimReply, BridgeTypeOK
  <1>2. Answered(simLeaf)
    BY <1>1, ReplierIs
  <1>3. Tail(toSim[simLeaf]) = <<>>
    BY <1>1, <1>2, QueuesAreTyped, OneMessage DEF Answered
  <1>4. \A k \in Leaves : k # simLeaf => Quiet(k)
    BY DEF Exchanges, Exchange
  <1>5. toSim'[simLeaf] = <<>> /\ \A k \in Leaves : k # simLeaf => toSim'[k] = toSim[k]
    BY <1>1, <1>3 DEF BridgeTypeOK
  <1>6. Exchanges'
    BY <1>1, <1>2, <1>4, <1>5 DEF Exchanges, Exchange, Answered, Quiet, Handling
  <1> QED BY <1>1, <1>2, <1>4, <1>5, <1>6 DEF Quiet, Answered

\* The thread that handles a request answers it.
LEMMA AnswerExchange ==
    ASSUME BridgeTypeOK, Exchanges, NEW l \in Leaves, Handling(l), NEW msg \in ToSimulator,
           SocketSend(l, msg), UNCHANGED <<toPy, simLeaf, awaiting>>,
           NEW s \in {"receive", "done"}, fwd' = [fwd EXCEPT ![l] = s]
    PROVE  /\ Exchanges' /\ awaiting /\ simLeaf = l
           /\ toPy[l] = <<>> /\ toSim[l] = <<>>
           /\ toSim'[l] # <<>> /\ Head(toSim'[l]) = msg
           /\ \A k \in Leaves : k # l => toSim'[k] = toSim[k]
  <1>1. awaiting /\ simLeaf = l /\ Handled(l) /\ misused = {}
    BY HandlerIs DEF Exchanges
  <1>2. /\ toSim' = [toSim EXCEPT ![l] = Append(toSim[l], msg)]
        /\ rep' = [rep EXCEPT ![l] = "recv"] /\ misused' = misused
    BY <1>1 DEF SocketSend, Handled
  <1>3. toSim[l] \in Seq(ToSimulator) /\ toSim[l] = <<>>
    BY <1>1, QueuesAreTyped DEF Handled
  <1>4. /\ Append(toSim[l], msg) # <<>> /\ Head(Append(toSim[l], msg)) = msg
        /\ Len(Append(toSim[l], msg)) = 1
    BY <1>3, SentMessage
  <1>5. /\ toSim'[l] = Append(toSim[l], msg) /\ rep'[l] = "recv" /\ fwd'[l] = s
        /\ \A k \in Leaves : k # l => toSim'[k] = toSim[k] /\ rep'[k] = rep[k] /\ fwd'[k] = fwd[k]
    BY <1>2 DEF BridgeTypeOK
  <1>6. Exchange(l)'
    BY <1>1, <1>4, <1>5 DEF Exchange, Answered, Handled, Handling
  <1>7. ASSUME NEW k \in Leaves, k # l PROVE Exchange(k)'
    BY <1>1, <1>5, <1>7 DEF Exchanges, Exchange, Quiet, Handling
  <1> QED BY <1>1, <1>2, <1>3, <1>4, <1>5, <1>6, <1>7 DEF Exchanges, Handled

\* A request is taken by one thread.
LEMMA TakeExchange ==
    ASSUME BridgeTypeOK, Exchanges, NEW l \in Leaves, SocketRecv(l),
           UNCHANGED <<simLeaf, awaiting>>,
           NEW s \in {"top", "body"}, fwd' = [fwd EXCEPT ![l] = s]
    PROVE  /\ Exchanges' /\ awaiting /\ simLeaf = l
           /\ toPy[l] # <<>> /\ toPy'[l] = <<>> /\ toSim[l] = <<>>
           /\ \A k \in Leaves : k # l => toPy'[k] = toPy[k]
  <1>1. awaiting /\ simLeaf = l /\ Asked(l) /\ misused = {} /\ toPy[l] # <<>>
    BY ReceiverIs DEF Exchanges, SocketRecv, MayReceive
  <1>2. /\ toPy' = [toPy EXCEPT ![l] = Tail(toPy[l])]
        /\ rep' = [rep EXCEPT ![l] = "reply"] /\ UNCHANGED <<toSim, misused>>
    BY DEF SocketRecv
  <1>3. Tail(toPy[l]) = <<>>
    BY <1>1, QueuesAreTyped, OneMessage DEF Asked
  <1>4. /\ toPy'[l] = <<>> /\ rep'[l] = "reply" /\ fwd'[l] = s
        /\ \A k \in Leaves : k # l => toPy'[k] = toPy[k] /\ rep'[k] = rep[k] /\ fwd'[k] = fwd[k]
    BY <1>2, <1>3 DEF BridgeTypeOK
  <1>5. Exchange(l)'
    BY <1>1, <1>2, <1>4 DEF Exchange, Asked, Handled, Handling
  <1>6. ASSUME NEW k \in Leaves, k # l PROVE Exchange(k)'
    BY <1>1, <1>2, <1>4, <1>6 DEF Exchanges, Exchange, Quiet, Handling
  <1> QED BY <1>1, <1>2, <1>4, <1>5, <1>6 DEF Exchanges, Asked

-----------------------------------------------------------------------------
(* The main thread and the simulator: where they stand to each other.      *)

Control == Exchanges /\ Setup /\ NotStarted /\ BindInv

LEMMA InitControl == Init => Control
  <1> SUFFICES ASSUME Init PROVE Control
    OBVIOUS
  <1>1. Exchanges
    BY DEF Init, Exchanges, Exchange, Quiet, Handling
  <1>2. Setup
    BY DEF Init, Setup, Before, Beyond
  <1>3. NotStarted /\ BindInv
    BY DEF Init, NotStarted, BindInv, Resting, Before
  <1> QED BY <1>1, <1>2, <1>3 DEF Control

\* The main thread is in one of four phases.
LEMMA Phases ==
    ASSUME BridgeTypeOK, Setup
    PROVE  main = "spawn" \/ Before \/ main = "first" \/ Beyond
  BY DEF BridgeTypeOK, Setup, Before, Beyond

\* A step that leaves the main thread and the forwarders alone.
LEMMA SetupKept ==
    ASSUME Control, UNCHANGED mainVars, UNCHANGED <<fwd, port>>, Exchanges',
           main = "spawn" => sim' \in {"none", "ok"},
           sim' \in {"none", "ok"} => ~awaiting',
           Before => SetupBefore', main = "first" => SetupFirst', Beyond => SetupBeyond'
    PROVE  Control'
  <1>1. UNCHANGED <<main, outcome, leaf, fwd, port>>
    BY DEF mainVars
  <1>2. (Before <=> Before') /\ (Beyond <=> Beyond')
    BY <1>1 DEF Before, Beyond
  <1>3. Setup'
    BY <1>1, <1>2 DEF Control, Setup
  <1>4. NotStarted' /\ BindInv'
    BY <1>1, <1>2 DEF Control, NotStarted, BindInv, Resting
  <1> QED BY <1>3, <1>4 DEF Control

LEMMA SimInitControl ==
    ASSUME BridgeTypeOK, Control, SimInit
    PROVE  Control'
  <1>1. /\ sim = "init" /\ ~awaiting /\ SimSend(simLeaf, InitMsg)
        /\ UNCHANGED sim /\ UNCHANGED mainVars /\ UNCHANGED <<fwd, port>>
        /\ simLeaf \in Leaves /\ leaf \in Leaves /\ UNCHANGED leaf
    BY DEF SimInit, SimSend, fwdVars, mainVars, BridgeTypeOK
  <1>2. /\ Exchanges' /\ awaiting' = TRUE /\ simLeaf' = simLeaf
        /\ \A k \in Leaves : toSim'[k] = <<>>
    BY <1>1, SendExchange, MessagesAreTyped, Constants DEF Control
  <1>3. Before => SetupBefore'
    BY <1>1, <1>2 DEF Control, Setup, SetupBefore
  <1>4. main # "first" /\ main # "spawn" /\ ~Beyond
    BY <1>1 DEF Control, Setup, SetupFirst, SetupBeyond
  <1> QED BY <1>1, <1>2, <1>3, <1>4, SetupKept

LEMMA SimInitAckedControl ==
    ASSUME BridgeTypeOK, Control, SimInitAcked
    PROVE  Control'
  <1>1. /\ sim = "init" /\ SimReply({"ack"}) /\ sim' = "first" /\ UNCHANGED simLeaf
        /\ UNCHANGED mainVars /\ UNCHANGED <<fwd, port>> /\ UNCHANGED leaf
    BY DEF SimInitAcked, SimReply, fwdVars, mainVars
  <1>2. /\ Exchanges' /\ awaiting' = FALSE /\ toSim[simLeaf] # <<>>
    BY <1>1, ReplyExchange DEF Control
  <1>3. ~Before /\ main # "spawn" /\ ~Beyond
    BY <1>1, <1>2 DEF Control, Setup, SetupBefore, SetupBeyond
  <1>4. main = "first" => SetupFirst'
    BY <1>1, <1>2 DEF Control, Setup, SetupFirst
  <1> QED BY <1>1, <1>2, <1>3, <1>4, SetupKept

LEMMA SimFirstControl ==
    ASSUME BridgeTypeOK, Control, SimFirst
    PROVE  Control' /\ main = "first"
  <1> DEFINE msg == StateMsg("state", NoPacket, simLeaf)
  <1>1. /\ sim = "first" /\ ~awaiting /\ SimSend(simLeaf, msg)
        /\ UNCHANGED sim /\ UNCHANGED mainVars /\ UNCHANGED <<fwd, port>>
        /\ simLeaf \in Leaves /\ leaf \in Leaves /\ UNCHANGED leaf
    BY DEF SimFirst, SimSend, fwdVars, mainVars, BridgeTypeOK
  <1>2. msg \in ToPython /\ msg.uid = NoPacket
    BY <1>1, MessagesAreTyped, Constants DEF StateMsg
  <1> HIDE DEF msg
  <1>3. /\ Exchanges' /\ awaiting' = TRUE /\ simLeaf' = simLeaf
        /\ toPy'[simLeaf] # <<>> /\ Head(toPy'[simLeaf]) = msg
    BY <1>1, <1>2, SendExchange DEF Control
  <1>4. ~Before /\ main # "spawn" /\ ~Beyond
    BY <1>1 DEF Control, Setup, SetupBefore, SetupBeyond, FirstTaken
  <1>5. main = "first" => SetupFirst'
    BY <1>1, <1>2, <1>3 DEF Control, Setup, SetupFirst
  <1>6. main = "first"
    BY <1>4, Phases DEF Control
  <1> QED BY <1>1, <1>3, <1>4, <1>5, <1>6, SetupKept

\* Leaf by leaf: the next one starts, or all have started.
LEMMA SimFirstActionIs ==
    ASSUME BridgeTypeOK, Control, SimFirstAction
    PROVE  /\ FirstTaken /\ fwd[simLeaf] = "receive"
           /\ simLeaf' \in Leaves
           /\ \/ Before /\ simLeaf' = leaf /\ simLeaf' = simLeaf + 1 /\ sim' = "init"
              \/ Beyond /\ simLeaf = NLeaves - 1 /\ sim' = "run"
  <1>1. /\ sim = "first" /\ simLeaf' = NextLeaf /\ SimReply({"act"}) /\ UNCHANGED fwd
        /\ simLeaf \in Leaves /\ leaf \in Leaves
        /\ sim' = IF NextLeaf = 0 THEN "run" ELSE "init"
    BY DEF SimFirstAction, fwdVars, BridgeTypeOK
  <1>2. /\ awaiting /\ toPy[simLeaf] = <<>> /\ ~Handling(simLeaf)
    BY <1>1, ReplyExchange DEF Control, Answered
  <1>3. main # "first" /\ main # "spawn"
    BY <1>1, <1>2 DEF Control, Setup, SetupFirst
  <1>4. Before \/ Beyond
    BY <1>3, Phases DEF Control
  <1>5. FirstTaken
    BY <1>1, <1>4 DEF Control, Setup, SetupBefore, SetupBeyond
  <1>6. fwd[simLeaf] = "receive"
    BY <1>2, <1>5 DEF FirstTaken, Handling
  <1>7. Before => simLeaf + 1 = leaf /\ simLeaf # NLeaves - 1
    <2>1. Before => simLeaf + 1 = leaf
      BY <1>1 DEF Control, Setup, SetupBefore
    <2> QED BY <1>1, <2>1, Constants
  <1>8. Beyond => simLeaf = NLeaves - 1
    BY <1>1 DEF Control, Setup, SetupBeyond
  <1> QED BY <1>1, <1>4, <1>5, <1>6, <1>7, <1>8, NextLeafIs

LEMMA SimFirstActionControl ==
    ASSUME BridgeTypeOK, Control, SimFirstAction
    PROVE  Control'
  <1>1. /\ sim = "first" /\ SimReply({"act"}) /\ leaf \in Leaves
        /\ UNCHANGED mainVars /\ UNCHANGED <<fwd, port>> /\ UNCHANGED leaf
    BY DEF SimFirstAction, SimReply, fwdVars, mainVars, BridgeTypeOK
  <1>2. /\ Exchanges' /\ awaiting' = FALSE /\ \A k \in Leaves : toSim'[k] = <<>>
    BY <1>1, ReplyExchange DEF Control
  <1>3. main # "first" /\ main # "spawn"
    <2>1. FirstTaken /\ toPy[simLeaf] = <<>> /\ awaiting
      BY SimFirstActionIs DEF FirstTaken
    <2> QED BY <1>1, <2>1 DEF Control, Setup, SetupFirst
  <1>4. CASE Before /\ simLeaf' = leaf /\ sim' = "init"
    <2>1. SetupBefore' /\ ~Beyond
      BY <1>1, <1>2, <1>4 DEF SetupBefore, Before, Beyond, Control, Setup
    <2> QED BY <1>1, <1>2, <1>3, <1>4, <2>1, SetupKept
  <1>5. CASE Beyond /\ sim' = "run"
    <2>1. SetupBeyond' /\ ~Before
      BY <1>1, <1>2, <1>5 DEF SetupBeyond, Before, Beyond, Control, Setup
    <2> QED BY <1>1, <1>2, <1>3, <1>5, <2>1, SetupKept
  <1> QED BY <1>4, <1>5, SimFirstActionIs

\* A simulation that runs has all forwarders started.
LEMMA RunsBeyond ==
    ASSUME BridgeTypeOK, Control, sim \in {"run", "end"}
    PROVE  Beyond /\ leaf = NLeaves - 1 /\ ~Before /\ main # "first" /\ main # "spawn"
  <1>1. ~Before /\ main # "first" /\ main # "spawn"
    BY DEF Control, Setup, SetupBefore, SetupFirst
  <1>2. Beyond
    BY <1>1, Phases DEF Control
  <1> QED BY <1>1, <1>2 DEF Control, Setup, SetupBeyond

LEMMA SimRunControl ==
    ASSUME BridgeTypeOK, Control,
           SimAction \/ SimEnd \/ SimEndSend \/ SimEndReply \/ \E l \in Leaves : SimDecision(l)
    PROVE  Control'
  <1>1. /\ sim \in {"run", "end"} /\ sim' \in {"run", "end", "ok"}
        /\ UNCHANGED mainVars /\ UNCHANGED <<fwd, port>> /\ UNCHANGED leaf /\ simLeaf \in Leaves
    BY DEF SimAction, SimEnd, SimEndSend, SimEndReply, SimDecision, SimSend, SimReply,
           fwdVars, sockVars, mainVars, BridgeTypeOK
  <1>2. Beyond /\ leaf = NLeaves - 1 /\ ~Before /\ main # "first" /\ main # "spawn"
    BY <1>1, RunsBeyond
  <1>3. SetupBeyond'
    BY <1>1, <1>2 DEF SetupBeyond
  <1>4. Exchanges' /\ (sim' = "ok" => ~awaiting')
    <2>1. CASE SimAction \/ SimEndReply
      <3>1. \E kind : SimReply(kind)
        BY <2>1 DEF SimAction, SimEndReply
      <3> QED BY <1>1, <3>1, ReplyExchange DEF Control
    <2>2. CASE SimEndSend \/ \E l \in Leaves : SimDecision(l)
      <3>1. PICK l \in Leaves, u \in Uids, kind \in {"state", "end"} :
               ~awaiting /\ SimSend(l, StateMsg(kind, u, l)) /\ sim' = sim
        <4>1. created < MaxPkts => created + 1 \in Uids
          BY BridgeAssumption DEF BridgeTypeOK, Uids
        <4> QED BY <1>1, <2>2, <4>1, Constants DEF SimEndSend, SimDecision
      <3> QED BY <1>1, <3>1, SendExchange, MessagesAreTyped DEF Control
    <2>3. CASE SimEnd
      <3>1. UNCHANGED <<awaiting, rep, toPy, toSim, misused>> /\ ~awaiting
        BY <2>3 DEF SimEnd, sockVars
      <3> QED BY <1>1, <3>1 DEF Control, Exchanges, Exchange, Quiet, Handling
    <2> QED BY <2>1, <2>2, <2>3
  <1> QED BY <1>1, <1>2, <1>3, <1>4, SetupKept

LEMMA SimCrashControl ==
    ASSUME BridgeTypeOK, Control, SimCrash
    PROVE  Control'
  <1>1. /\ sim \in Running /\ sim' = "error"
        /\ UNCHANGED mainVars /\ UNCHANGED <<fwd, port>> /\ UNCHANGED leaf
        /\ UNCHANGED <<simLeaf, awaiting, rep, toPy, toSim, misused>>
    BY DEF SimCrash, sockVars, fwdVars, mainVars
  <1>2. Exchanges'
    BY <1>1 DEF Control, Exchanges, Exchange, Quiet, Asked, Handled, Answered, Handling
  <1>3. main # "spawn"
    BY <1>1 DEF Control, Setup, Running
  <1>4. /\ Before => SetupBefore'
        /\ main = "first" => SetupFirst'
        /\ Beyond => SetupBeyond'
    BY <1>1 DEF Control, Setup, SetupBefore, SetupFirst, SetupBeyond, Running
  <1> QED BY <1>1, <1>2, <1>3, <1>4, SetupKept

\* A step of a forwarder that is not resting.
LEMMA ForwarderControl ==
    ASSUME BridgeTypeOK, Control, NEW l \in Leaves, ~Resting(l),
           UNCHANGED mainVars, UNCHANGED simVars, UNCHANGED port, Exchanges',
           awaiting, simLeaf = l,
           \A k \in Leaves : k # l => fwd'[k] = fwd[k] /\ toSim'[k] = toSim[k],
           sim = "first" /\ toPy[l] = <<>> /\ fwd[l] \in {"top", "receive"} =>
             toPy'[l] = <<>> /\ fwd'[l] \in {"top", "receive"}
    PROVE  Control'
  <1>1. UNCHANGED <<main, outcome, leaf, port, sim, simLeaf, awaiting>> /\ leaf \in Leaves
    BY DEF mainVars, simVars, BridgeTypeOK
  <1>2. (Before <=> Before') /\ (Beyond <=> Beyond')
    BY <1>1 DEF Before, Beyond
  <1>3. /\ main # "spawn" /\ main # "reap"
        /\ Before \/ main = "first" => l < leaf /\ l # leaf
    BY Constants, <1>1 DEF Control, NotStarted
  <1>4. FirstTaken /\ sim = "first" => FirstTaken'
    BY <1>1 DEF FirstTaken
  <1>5. Before => SetupBefore'
    BY <1>1, <1>3, <1>4 DEF Control, Setup, SetupBefore
  <1>6. main = "first" => SetupFirst'
    BY <1>1, <1>3 DEF Control, Setup, SetupFirst
  <1>7. Beyond => SetupBeyond'
    BY <1>1, <1>4 DEF Control, Setup, SetupBeyond
  <1>8. Setup'
    BY <1>1, <1>2, <1>5, <1>6, <1>7 DEF Control, Setup
  <1>9. NotStarted'
    <2>1. \A k \in Leaves : k # l => (Resting(k) <=> Resting(k)')
      BY DEF Resting
    <2>2. Before \/ main = "first" => \A k \in Leaves : leaf <= k => Resting(k) /\ k # l
      BY DEF Control, NotStarted
    <2> QED BY <1>1, <1>2, <1>3, <2>1, <2>2 DEF Control, NotStarted
  <1>10. BindInv'
    BY <1>1 DEF Control, BindInv
  <1> QED BY <1>8, <1>9, <1>10 DEF Control

LEMMA StepSendControl ==
    ASSUME BridgeTypeOK, Control, NEW l \in Leaves, StepSend(l)
    PROVE  /\ Control' /\ awaiting /\ simLeaf = l
           /\ toPy[l] = <<>> /\ toSim[l] = <<>> /\ toSim'[l] # <<>>
           /\ \E a \in Actions :
                /\ Head(toSim'[l]) = Act(a)
                /\ agent' = [agent EXCEPT ![l] =
                     [agent[l] EXCEPT !.prev = env[l].obs, !.action = a,
                        !.counted = IF TakesAction(l) THEN agent[l].counted + 1
                                                      ELSE agent[l].counted]]
           /\ \A k \in Leaves : k # l => toSim'[k] = toSim[k]
  <1>1. PICK a \in Actions :
                /\ SocketSend(l, Act(a))
                /\ agent' = [agent EXCEPT ![l] =
                     [agent[l] EXCEPT !.prev = env[l].obs, !.action = a,
                        !.counted = IF TakesAction(l) THEN agent[l].counted + 1
                                                      ELSE agent[l].counted]]
    BY StepSendEffect
  <1>2. /\ fwd[l] = "top" /\ fwd' = [fwd EXCEPT ![l] = "receive"]
        /\ UNCHANGED mainVars /\ UNCHANGED simVars /\ UNCHANGED <<port, toPy>>
        /\ UNCHANGED <<simLeaf, awaiting>>
    BY StepSendEffect DEF simVars
  <1>3. Act(a) \in ToSimulator /\ Handling(l) /\ ~Resting(l)
    BY <1>2, MessagesAreTyped, Constants DEF Handling, Resting
  <1>4. /\ Exchanges' /\ awaiting /\ simLeaf = l
        /\ toPy[l] = <<>> /\ toSim[l] = <<>>
        /\ toSim'[l] # <<>> /\ Head(toSim'[l]) = Act(a)
        /\ \A k \in Leaves : k # l => toSim'[k] = toSim[k]
    BY <1>1, <1>2, <1>3, AnswerExchange DEF Control
  <1>5. fwd'[l] = "receive" /\ \A k \in Leaves : k # l => fwd'[k] = fwd[k]
    BY <1>2 DEF BridgeTypeOK
  <1>6. Control'
    BY <1>2, <1>3, <1>4, <1>5, ForwarderControl
  <1> QED BY <1>1, <1>4, <1>6

\* A forwarder that receives does so in its turn.
LEMMA ReceiveControl ==
    ASSUME BridgeTypeOK, Control, NEW l \in Leaves, Receive(l)
    PROVE  /\ Control' /\ awaiting /\ simLeaf = l /\ sim \notin {"init", "first"}
           /\ toPy[l] # <<>> /\ toPy'[l] = <<>> /\ toSim[l] = <<>>
           /\ env' = [env EXCEPT ![l] = Received(l, Head(toPy[l]))]
           /\ UNCHANGED toSim
  <1>1. rep[l] = "recv"
    BY DEF Receive, Control, Exchanges, Exchange, Quiet, Asked, Handled, Answered, Handling
  <1>2. /\ fwd[l] = "receive" /\ fwd' = [fwd EXCEPT ![l] = "body"] /\ SocketRecv(l)
        /\ env' = [env EXCEPT ![l] = Received(l, Head(toPy[l]))]
        /\ UNCHANGED mainVars /\ UNCHANGED simVars /\ UNCHANGED port
        /\ UNCHANGED <<simLeaf, awaiting, toSim>>
    BY <1>1 DEF Receive, SocketRecv, simVars
  <1>3. /\ Exchanges' /\ awaiting /\ simLeaf = l
        /\ toPy[l] # <<>> /\ toPy'[l] = <<>> /\ toSim[l] = <<>>
    BY <1>2, TakeExchange DEF Control
  <1>4. fwd'[l] = "body" /\ \A k \in Leaves : k # l => fwd'[k] = fwd[k]
    BY <1>2 DEF BridgeTypeOK
  <1>5. Control'
    BY <1>2, <1>3, <1>4, ForwarderControl DEF Resting
  <1>6. sim \notin {"init", "first"}
    <2>1. ~Resting(l) /\ leaf \in Leaves
      BY <1>2 DEF Resting, BridgeTypeOK
    <2>2. CASE Before
      BY <1>2, <1>3, <2>1, <2>2, Constants
         DEF Control, Setup, NotStarted, SetupBefore, FirstTaken
    <2>3. CASE main = "first"
      BY <1>3, <2>1, <2>3, Constants DEF Control, Setup, NotStarted, SetupFirst
    <2>4. CASE Beyond
      BY <1>3, <2>4 DEF Control, Setup, SetupBeyond, FirstTaken
    <2>5. CASE main = "spawn"
      BY <2>5 DEF Control, Setup
    <2> QED BY <2>2, <2>3, <2>4, <2>5, Phases DEF Control
  <1> QED BY <1>2, <1>3, <1>5, <1>6

LEMMA BodyControl ==
    ASSUME BridgeTypeOK, Control, NEW l \in Leaves, Body(l)
    PROVE  Control' /\ awaiting /\ simLeaf = l /\ toPy[l] = <<>> /\ toSim[l] = <<>>
  <1>1. /\ fwd[l] = "body" /\ UNCHANGED mainVars /\ UNCHANGED simVars /\ UNCHANGED port
        /\ UNCHANGED <<simLeaf, awaiting, toSim, toPy, rep, misused>>
        /\ fwd' = [fwd EXCEPT ![l] = IF env[l].connected THEN "top" ELSE "closing"]
    BY DEF Body, simVars, sockVars
  <1>2. Handling(l) /\ ~Resting(l)
    BY <1>1 DEF Handling, Resting
  <1>3. awaiting /\ simLeaf = l /\ Handled(l)
    BY <1>2, HandlerIs DEF Control
  <1>4. fwd'[l] \in {"top", "closing"} /\ \A k \in Leaves : k # l => fwd'[k] = fwd[k]
    BY <1>1 DEF BridgeTypeOK
  <1>5. Exchanges'
    BY <1>1, <1>3, <1>4 DEF Control, Exchanges, Exchange, Handled, Quiet, Handling
  <1>6. Control'
    BY <1>1, <1>2, <1>3, <1>4, <1>5, ForwarderControl
  <1> QED BY <1>3, <1>6 DEF Handled

LEMMA CloseCommandControl ==
    ASSUME BridgeTypeOK, Control, NEW l \in Leaves, CloseCommand(l)
    PROVE  Control' /\ awaiting /\ simLeaf = l
  <1>1. /\ fwd[l] = "closing" /\ UNCHANGED mainVars /\ UNCHANGED simVars /\ UNCHANGED port
        /\ UNCHANGED <<simLeaf, awaiting, toPy>>
        /\ fwd' = [fwd EXCEPT ![l] = "done"] /\ SocketSend(l, Stop)
    BY DEF CloseCommand, simVars
  <1>2. Handling(l) /\ ~Resting(l) /\ Stop \in ToSimulator
    BY <1>1, MessagesAreTyped, Constants DEF Handling, Resting
  <1>3. /\ Exchanges' /\ awaiting /\ simLeaf = l
        /\ \A k \in Leaves : k # l => toSim'[k] = toSim[k]
    BY <1>1, <1>2, AnswerExchange DEF Control
  <1>4. \A k \in Leaves : k # l => fwd'[k] = fwd[k]
    BY <1>1 DEF BridgeTypeOK
  <1>5. Control'
    BY <1>1, <1>2, <1>3, <1>4, ForwarderControl
  <1> QED BY <1>3, <1>5

LEMMA RunNs3Control ==
    ASSUME BridgeTypeOK, Control, RunNs3
    PROVE  Control'
  <1>1. /\ main = "spawn" /\ main' = "bind" /\ leaf' = 0 /\ sim' = "init" /\ simLeaf' = 0
        /\ awaiting' = FALSE /\ UNCHANGED <<outcome, port, rep, toPy, toSim, misused, fwd>>
    BY DEF RunNs3, sockVars, fwdVars
  <1>2. ~awaiting /\ outcome = "none"
    BY <1>1 DEF Control, Setup
  <1>3. Exchanges' /\ toSim[0] = <<>>
    BY <1>1, <1>2, Constants DEF Control, Exchanges, Exchange, Quiet, Handling
  <1>4. Setup'
    BY <1>1, <1>2, <1>3 DEF Setup, SetupBefore, Beyond
  <1>5. NotStarted' /\ BindInv'
    BY <1>1, <1>2 DEF Control, NotStarted, BindInv, Resting
  <1> QED BY <1>3, <1>4, <1>5 DEF Control

LEMMA BindControl ==
    ASSUME BridgeTypeOK, Control, Bind
    PROVE  Control'
  <1>1. /\ main = "bind" /\ main' = "handshake" /\ leaf \in Leaves
        /\ UNCHANGED <<leaf, outcome, toPy, toSim, misused, fwd>> /\ UNCHANGED simVars
        /\ UNCHANGED <<sim, simLeaf, awaiting>>
        /\ rep' = [rep EXCEPT ![leaf] = "recv"] /\ port' = [port EXCEPT ![leaf] = "bridge"]
    BY DEF Bind, simVars, fwdVars, BridgeTypeOK
  <1>2. Before /\ Before' /\ outcome = "none"
    BY <1>1 DEF Before, Control, Setup
  <1>3. rep[leaf] = "recv"
    <2>1. ~Handling(leaf)
      BY <1>1, <1>2, Constants DEF Control, NotStarted, Resting, Handling
    <2> QED BY <1>1, <2>1 DEF Control, Exchanges, Exchange, Quiet, Asked, Handled, Answered
  <1>4. rep' = rep
    BY <1>1, <1>3 DEF BridgeTypeOK
  <1>5. Exchanges'
    BY <1>1, <1>4 DEF Control, Exchanges, Exchange, Quiet, Asked, Handled, Answered, Handling
  <1>6. Setup'
    BY <1>1, <1>2 DEF Control, Setup, SetupBefore, FirstTaken, Beyond
  <1>7. NotStarted'
    <2>1. \A k \in Leaves : Resting(k) <=> Resting(k)'
      BY <1>1 DEF Resting
    <2>2. \A k \in Leaves : leaf < k => port'[k] # "bridge"
      <3>1. ASSUME NEW k \in Leaves, leaf < k PROVE leaf <= k /\ k # leaf
        BY <1>1, <3>1, Constants
      <3> QED BY <1>1, <3>1 DEF Control, NotStarted, BridgeTypeOK
    <2> QED BY <1>1, <1>2, <2>1, <2>2 DEF Control, NotStarted
  <1>8. BindInv'
    BY <1>1, <1>2 DEF BindInv
  <1> QED BY <1>5, <1>6, <1>7, <1>8 DEF Control

LEMMA InitializeEnvControl ==
    ASSUME BridgeTypeOK, Control, InitializeEnv
    PROVE  Control' /\ simLeaf = leaf /\ sim # "first"
  <1>1. /\ main = "handshake" /\ main' = "first" /\ leaf \in Leaves /\ MayReceive(leaf)
        /\ UNCHANGED <<leaf, outcome, rep, port, misused, fwd>> /\ UNCHANGED simVars
        /\ UNCHANGED <<sim, simLeaf, awaiting>>
        /\ toPy' = [toPy EXCEPT ![leaf] = Tail(toPy[leaf])]
        /\ toSim' = [toSim EXCEPT ![leaf] = Append(toSim[leaf], Ack)]
    BY DEF InitializeEnv, simVars, fwdVars, BridgeTypeOK
  <1>2. Before /\ outcome = "none" /\ SetupBefore
    BY <1>1 DEF Before, Control, Setup
  <1>3. awaiting /\ simLeaf = leaf /\ Asked(leaf)
    BY <1>1, ReceiverIs DEF Control, MayReceive
  <1>4. /\ toPy[leaf] \in Seq(ToPython) /\ toSim[leaf] \in Seq(ToSimulator)
        /\ Ack \in ToSimulator
    BY <1>1, QueuesAreTyped, MessagesAreTyped, Constants
  <1>5. Tail(toPy[leaf]) = <<>> /\ Len(Append(toSim[leaf], Ack)) = 1
    BY <1>3, <1>4, OneMessage, SentMessage DEF Asked
  <1>6. /\ toPy'[leaf] = <<>> /\ toSim'[leaf] = Append(toSim[leaf], Ack)
        /\ \A k \in Leaves : k # leaf => toPy'[k] = toPy[k] /\ toSim'[k] = toSim[k]
    BY <1>1, <1>5 DEF BridgeTypeOK
  <1>7. Exchanges'
    BY <1>1, <1>3, <1>5, <1>6 DEF Control, Exchanges, Exchange, Asked, Answered, Quiet, Handling
  <1>8. sim # "first"
    BY <1>1, <1>2, <1>3, Constants DEF SetupBefore
  <1>9. Setup'
    BY <1>1, <1>2, <1>3, <1>6, <1>8
       DEF Control, Setup, SetupBefore, SetupFirst, Before, Beyond
  <1>10. NotStarted' /\ BindInv'
    BY <1>1, <1>2 DEF Control, NotStarted, BindInv, Before, Resting
  <1> QED BY <1>3, <1>7, <1>8, <1>9, <1>10 DEF Control

LEMMA StartForwarderControl ==
    ASSUME BridgeTypeOK, Control, StartForwarder
    PROVE  /\ Control' /\ awaiting /\ simLeaf = leaf /\ sim \in {"first", "error", "killed"}
           /\ toPy'[leaf] = <<>>
           /\ sim = "first" => Head(toPy[leaf]).uid = NoPacket
  <1>1. /\ main = "first" /\ SocketRecv(leaf) /\ leaf \in Leaves
        /\ UNCHANGED <<outcome, port, sim, simLeaf, awaiting, toSim>>
        /\ fwd' = [fwd EXCEPT ![leaf] = "top"]
        /\ \/ leaf = NLeaves - 1 /\ main' = "poll" /\ leaf' = leaf
           \/ leaf # NLeaves - 1 /\ main' = "bind" /\ leaf' = leaf + 1
    BY DEF StartForwarder, SocketRecv, simVars, BridgeTypeOK
  <1>2. /\ Exchanges' /\ awaiting /\ simLeaf = leaf
        /\ toPy[leaf] # <<>> /\ toPy'[leaf] = <<>> /\ toSim[leaf] = <<>>
    BY <1>1, TakeExchange DEF Control
  <1>3. outcome = "none" /\ SetupFirst
    BY <1>1 DEF Control, Setup
  <1>4. /\ sim \in {"first", "error", "killed"}
        /\ sim = "first" => Head(toPy[leaf]).uid = NoPacket
    BY <1>2, <1>3 DEF SetupFirst
  <1>5. fwd'[leaf] = "top" /\ \A k \in Leaves : k # leaf => fwd'[k] = fwd[k]
    BY <1>1 DEF BridgeTypeOK
  <1>6. CASE leaf = NLeaves - 1 /\ main' = "poll" /\ leaf' = leaf
    <2>1. ~Before' /\ Beyond'
      BY <1>1, <1>3, <1>6 DEF Before, Beyond
    <2>2. SetupBeyond'
      BY <1>1, <1>2, <1>4, <1>5, <1>6 DEF SetupBeyond, FirstTaken
    <2>3. Setup'
      BY <1>1, <1>3, <1>4, <1>6, <2>1, <2>2 DEF Setup
    <2>4. NotStarted' /\ BindInv'
      BY <1>1, <1>3, <1>6, <2>1 DEF NotStarted, BindInv
    <2> QED BY <1>2, <1>4, <2>3, <2>4 DEF Control
  <1>7. CASE leaf # NLeaves - 1 /\ main' = "bind" /\ leaf' = leaf + 1
    <2>1. Before' /\ ~Beyond'
      BY <1>1, <1>3, <1>7 DEF Before, Beyond
    <2>2. SetupBefore'
      BY <1>1, <1>2, <1>4, <1>5, <1>7 DEF SetupBefore, FirstTaken
    <2>3. Setup'
      BY <1>1, <1>3, <1>4, <1>7, <2>1, <2>2 DEF Setup
    <2>4. ASSUME NEW k \in Leaves, leaf + 1 <= k PROVE leaf <= k /\ leaf < k /\ k # leaf
      BY <1>1, <2>4, Constants
    <2>5. NotStarted'
      BY <1>1, <1>5, <1>7, <2>4 DEF Control, NotStarted, Resting
    <2>6. BindInv'
      BY <1>1, <1>3 DEF BindInv
    <2> QED BY <1>2, <1>4, <2>3, <2>5, <2>6 DEF Control
  <1> QED BY <1>1, <1>6, <1>7

LEMMA CloseEnvsControl ==
    ASSUME BridgeTypeOK, Control, CloseEnvs
    PROVE  Control'
  <1>1. /\ main = "poll" /\ \A l \in Leaves : fwd[l] = "done"
        /\ port' = [l \in Leaves |-> "free"] /\ main' = "reap"
        /\ UNCHANGED <<leaf, outcome, rep, toPy, toSim, misused, fwd, sim, simLeaf, awaiting>>
    BY DEF CloseEnvs, Closed, simVars, fwdVars
  <1>2. Exchanges'
    BY <1>1 DEF Control, Exchanges, Exchange, Quiet, Asked, Handled, Answered, Handling
  <1>3. outcome = "none" /\ Beyond /\ Beyond' /\ ~Before'
    BY <1>1 DEF Control, Setup, Before, Beyond
  <1>4. Setup'
    BY <1>1, <1>3 DEF Control, Setup, SetupBeyond, FirstTaken
  <1>5. NotStarted' /\ BindInv'
    BY <1>1, <1>3 DEF NotStarted, BindInv, Resting
  <1> QED BY <1>2, <1>4, <1>5 DEF Control

LEMMA EndControl ==
    ASSUME BridgeTypeOK, Control, BindFails \/ Reap \/ ReapFails \/ StopOwnedProcess \/ Exit
    PROVE  Control'
  <1>1. /\ UNCHANGED <<leaf, simLeaf, awaiting>>
        /\ UNCHANGED <<port, rep, toPy, toSim, misused, fwd>> /\ leaf \in Leaves
    BY DEF BindFails, Reap, ReapFails, StopOwnedProcess, Exit, simVars, sockVars, fwdVars,
           BridgeTypeOK
  <1>2. Exchanges'
    BY <1>1 DEF Control, Exchanges, Exchange, Quiet, Asked, Handled, Answered, Handling
  <1>3. CASE BindFails
    <2>1. /\ main = "bind" /\ main' = "finally" /\ outcome' = "bind" /\ sim' = sim
          /\ port[leaf] # "free" /\ outcome = "none"
      BY <1>3 DEF BindFails, simVars, Control, Setup
    <2>2. Setup'
      BY <1>1, <2>1 DEF Control, Setup, SetupBefore, FirstTaken, Before, Beyond
    <2>3. port[leaf] \notin {"free", "bridge"}
      BY <1>1, <2>1, Constants DEF Control, NotStarted
    <2>4. NotStarted'
      BY <1>1, <2>1 DEF Control, NotStarted, Before, Resting
    <2>5. BindInv'
      <3>1. port[leaf] = "other"
        BY <1>1, <2>3 DEF BridgeTypeOK
      <3> QED BY <1>1, <3>1 DEF BindInv
    <2> QED BY <1>2, <2>2, <2>4, <2>5 DEF Control
  <1>4. CASE Reap \/ ReapFails
    <2>1. main = "reap" /\ sim' = sim /\ outcome = "none"
      BY <1>4 DEF Reap, ReapFails, simVars, Control, Setup
    <2>2. \/ main' = "spawn" /\ outcome' = "none" /\ sim = "ok"
          \/ main' = "finally" /\ outcome' \in {"ok", "status", "timeout"}
      BY <1>4, <2>1 DEF Reap, ReapFails
    <2>3. Setup'
      BY <1>1, <2>1, <2>2 DEF Control, Setup, SetupBeyond, FirstTaken, Before, Beyond
    <2>4. NotStarted' /\ BindInv'
      BY <1>1, <2>1, <2>2 DEF Control, NotStarted, BindInv, Before, Resting
    <2> QED BY <1>2, <2>3, <2>4 DEF Control
  <1>5. CASE StopOwnedProcess \/ Exit
    <2>1. /\ main \in {"finally", "stopped"} /\ main' \in {"stopped", "exited"}
          /\ UNCHANGED outcome
          /\ sim' = sim \/ (sim \in Running /\ sim' = "killed")
      BY <1>5 DEF StopOwnedProcess, Exit, OwnedProcess, simVars
    <2>2. Setup'
      <3>1. /\ outcome # "none" /\ (Before <=> Before') /\ (Beyond <=> Beyond')
        BY <2>1 DEF Control, Setup, Before, Beyond
      <3>2. FirstTaken => FirstTaken'
        BY <1>1 DEF FirstTaken
      <3>3. Before => SetupBefore'
        BY <1>1, <2>1, <3>2 DEF Control, Setup, SetupBefore
      <3>4. Beyond => SetupBeyond'
        BY <1>1, <2>1, <3>2 DEF Control, Setup, SetupBeyond, Running
      <3>5. sim' \in {"none", "ok"} => ~awaiting'
        BY <1>1, <2>1 DEF Control, Setup
      <3> QED BY <2>1, <3>1, <3>3, <3>4, <3>5 DEF Setup
    <2>3. NotStarted' /\ BindInv'
      BY <1>1, <2>1 DEF Control, NotStarted, BindInv, Before, Resting
    <2> QED BY <1>2, <2>2, <2>3 DEF Control
  <1> QED BY <1>3, <1>4, <1>5

LEMMA UnchangedControl ==
    ASSUME Control, UNCHANGED vars
    PROVE  Control'
  BY DEF Control, Exchanges, Exchange, Quiet, Asked, Handled, Answered, Handling, Setup, Before,
         Beyond, SetupBefore, SetupFirst, SetupBeyond, FirstTaken, NotStarted, Resting, BindInv,
         vars, mainVars, simVars, sockVars, fwdVars, sharedVars

LEMMA NextControl ==
    ASSUME BridgeTypeOK, Control, [Next]_vars
    PROVE  Control'
  <1>1. CASE Main
    BY <1>1, RunNs3Control, BindControl, InitializeEnvControl, StartForwarderControl,
       CloseEnvsControl, EndControl DEF Main
  <1>2. CASE Simulator
    BY <1>2, SimInitControl, SimInitAckedControl, SimFirstControl, SimFirstActionControl,
       SimRunControl DEF Simulator
  <1>3. CASE SimCrash
    BY <1>3, SimCrashControl
  <1>4. ASSUME NEW l \in Leaves, Forwarder(l) PROVE Control'
    BY <1>4, StepSendControl, ReceiveControl, BodyControl, CloseCommandControl DEF Forwarder
  <1>5. CASE UNCHANGED vars
    BY <1>5, UnchangedControl
  <1> QED BY <1>1, <1>2, <1>3, <1>4, <1>5 DEF Next, Done

LEMMA ControlInvariant == Spec => [](BridgeTypeOK /\ Numbers /\ Control)
  <1>1. BridgeTypeOK /\ Numbers /\ Control /\ [Next]_vars => (BridgeTypeOK /\ Numbers /\ Control)'
    BY NextTypes, NextControl
  <1>2. Init => BridgeTypeOK /\ Numbers /\ Control
    BY InitTypes, InitControl
  <1> QED BY <1>1, <1>2, PTL DEF Spec

\* However the threads and the simulator interleave, and wherever the simulator
\* crashes, no thread sends or receives out of turn: send_close_command needs
\* no guard.
THEOREM SocketsInTurn == Spec => []NoSocketMisuse
  <1>1. Control => NoSocketMisuse
    BY DEF Control, Exchanges, NoSocketMisuse
  <1> QED BY <1>1, ControlInvariant, PTL

\* At most one forwarder is between a receive and its reply, so that the class
\* variables of Agent need no lock.
THEOREM OneHandler == Spec => []OneHandlerAtATime
  <1>1. Control => OneHandlerAtATime
    BY HandlerIs DEF Control, OneHandlerAtATime
  <1> QED BY <1>1, ControlInvariant, PTL

\* An episode fails to bind a port only if another program holds it.
THEOREM PortsReleased == Spec => []OwnPortsFree
  <1>1. Control => OwnPortsFree
    BY DEF Control, BindInv, OwnPortsFree
  <1> QED BY <1>1, ControlInvariant, PTL

-----------------------------------------------------------------------------
(* While the leaves start.                                                 *)

LEMMA InitStarting == Init => Starting
  BY DEF Init, Starting

\* A forwarder that is up while the leaves start has the first state.
LEMMA FirstForwarder ==
    ASSUME BridgeTypeOK, Control, sim \in {"init", "first"}, awaiting, ~Resting(simLeaf)
    PROVE  sim = "first" /\ FirstTaken
  <1>1. simLeaf \in Leaves /\ leaf \in Leaves
    BY DEF BridgeTypeOK
  <1>2. CASE Before
    BY <1>1, <1>2, Constants DEF Control, Setup, NotStarted, SetupBefore
  <1>3. CASE main = "first"
    BY <1>1, <1>3, Constants DEF Control, Setup, NotStarted, SetupFirst
  <1>4. CASE Beyond
    BY <1>4 DEF Control, Setup, SetupBeyond
  <1>5. CASE main = "spawn"
    BY <1>5 DEF Control, Setup
  <1> QED BY <1>2, <1>3, <1>4, <1>5, Phases DEF Control

\* A step that leaves the leaves' records alone.
LEMMA StartingKept ==
    ASSUME Starting, UNCHANGED <<created, tracking, temp, mgr, decided, fwdVars>>,
           sim' \in {"init", "first"} => sim \in {"init", "first"} /\ UNCHANGED simLeaf,
           sim' = "first" /\ FirstTaken' => sim = "first" /\ FirstTaken
    PROVE  Starting'
  <1>1. UNCHANGED <<fwd, env, agent, written>>
    BY DEF fwdVars
  <1>2. \A l \in Leaves : Fresh(l) => Fresh(l)'
    BY <1>1 DEF Fresh
  <1>3. Fresh(simLeaf) /\ UNCHANGED simLeaf => Fresh(simLeaf)'
    BY <1>1 DEF Fresh
  <1> QED BY <1>1, <1>2, <1>3 DEF Starting

LEMMA SimulatorStarting ==
    ASSUME BridgeTypeOK, Control, Starting, Simulator, ~SimFirstAction
    PROVE  Starting'
  <1>1. CASE SimInit
    BY <1>1, StartingKept DEF SimInit, SimSend, sharedVars
  <1>2. CASE SimInitAcked
    BY <1>2, StartingKept DEF SimInitAcked, SimReply, sharedVars, FirstTaken
  <1>3. CASE SimFirst
    <2>1. /\ ~awaiting /\ SimSend(simLeaf, StateMsg("state", NoPacket, simLeaf))
          /\ UNCHANGED fwd /\ simLeaf \in Leaves /\ simLeaf' = simLeaf
          /\ UNCHANGED <<sim, created, tracking, temp, mgr, decided, fwdVars>>
      BY <1>3 DEF SimFirst, SimSend, fwdVars, sharedVars, BridgeTypeOK
    <2>2. toPy'[simLeaf'] # <<>>
      BY <2>1, SendExchange, MessagesAreTyped, Constants DEF Control
    <2> QED BY <1>3, <2>1, <2>2, StartingKept DEF FirstTaken, SimFirst
  <1>4. CASE sim' \in {"run", "end", "ok"}
    BY <1>4 DEF Starting
  <1>5. SimAction \/ SimEnd \/ SimEndSend \/ SimEndReply \/ (\E l \in Leaves : SimDecision(l))
          => sim' \in {"run", "end", "ok"}
    BY DEF SimAction, SimEnd, SimEndSend, SimEndReply, SimDecision
  <1> QED BY <1>1, <1>2, <1>3, <1>4, <1>5 DEF Simulator

LEMMA SimFirstActionStarting ==
    ASSUME BridgeTypeOK, Control, Starting, SimFirstAction
    PROVE  /\ Starting'
           /\ created = 0 /\ tracking = {} /\ temp = <<>>
           /\ \A l \in Leaves : ~mgr'[l].applied /\ decided[l] = <<>>
           /\ \A l \in Leaves : l <= simLeaf => Fresh(l) /\ fwd[l] = "receive"
  <1>1. /\ sim = "first" /\ mgr' = [mgr EXCEPT ![simLeaf].applied = FALSE]
        /\ UNCHANGED <<created, tracking, temp, decided, fwd, env, agent, written>>
        /\ simLeaf \in Leaves
    BY DEF SimFirstAction, fwdVars, sharedVars, BridgeTypeOK
  <1>2. FirstTaken /\ fwd[simLeaf] = "receive" /\ Fresh(simLeaf)
    BY <1>1, SimFirstActionIs DEF Starting
  <1>3. \A l \in Leaves : l <= simLeaf => l < simLeaf \/ l = simLeaf
    BY <1>1, Constants
  <1>4. /\ created = 0 /\ tracking = {} /\ temp = <<>>
        /\ \A l \in Leaves : ~mgr[l].applied /\ decided[l] = <<>>
        /\ \A l \in Leaves : l <= simLeaf => Fresh(l) /\ fwd[l] = "receive"
    BY <1>1, <1>2, <1>3 DEF Starting
  <1>5. \A l \in Leaves : ~mgr'[l].applied
    BY <1>1, <1>4 DEF BridgeTypeOK
  <1>6. Starting'
    <2>1. CASE simLeaf' = simLeaf + 1 /\ sim' = "init"
      <3>1. \A l \in Leaves : l < simLeaf' => l <= simLeaf
        BY <1>1, <2>1, Constants
      <3>2. \A l \in Leaves : Fresh(l) => Fresh(l)'
        BY <1>1 DEF Fresh
      <3> QED BY <1>1, <1>4, <1>5, <2>1, <3>1, <3>2 DEF Starting
    <2>2. CASE sim' = "run"
      BY <2>2 DEF Starting
    <2> QED BY <2>1, <2>2, SimFirstActionIs
  <1> QED BY <1>4, <1>5, <1>6

LEMMA StepSendStarting ==
    ASSUME BridgeTypeOK, Control, Starting, NEW l \in Leaves, StepSend(l)
    PROVE  Starting'
  <1> SUFFICES ASSUME sim \in {"init", "first"} PROVE Starting'
    <2>1. UNCHANGED sim
      BY DEF StepSend, simVars
    <2> QED BY <2>1 DEF Starting
  <1>1. awaiting /\ simLeaf = l /\ fwd[l] = "top"
    BY StepSendControl DEF StepSend
  <1>2. sim = "first" /\ FirstTaken
    BY <1>1, FirstForwarder DEF Resting
  <1>3. Fresh(l)
    BY <1>1, <1>2 DEF Starting
  <1>4. agent[l].steps = 0 /\ env[l].obs = NoPacket
    BY <1>3 DEF Fresh
  <1>5. ~TakesAction(l)
    BY <1>4 DEF TakesAction
  <1>6. UNCHANGED <<tracking, temp>>
    BY <1>5 DEF StepSend, sharedVars
  <1>7. PICK a \in Actions : agent' = [agent EXCEPT ![l] =
                     [agent[l] EXCEPT !.prev = env[l].obs, !.action = a,
                        !.counted = IF TakesAction(l) THEN agent[l].counted + 1
                                                      ELSE agent[l].counted]]
    BY StepSendEffect
  <1>8. /\ agent'[l] = [agent[l] EXCEPT !.prev = env[l].obs, !.action = a,
                                        !.counted = agent[l].counted]
        /\ \A k \in Leaves : k # l => agent'[k] = agent[k]
    BY <1>5, <1>7 DEF BridgeTypeOK
  <1>9. agent[l] \in AgentState
    BY ForwarderIsTyped, TypeParts
  <1>10. /\ agent'[l].prev = NoPacket /\ agent'[l].pkt = agent[l].pkt
         /\ agent'[l].signaling = agent[l].signaling /\ agent'[l].steps = agent[l].steps
         /\ agent'[l].lastSeq = agent[l].lastSeq
         /\ agent'[l].mismatches = agent[l].mismatches
         /\ agent'[l].counted = agent[l].counted
    BY <1>4, <1>8, <1>9 DEF AgentState
  <1>11. /\ UNCHANGED <<env, written, sim, simLeaf, created, mgr, decided>>
         /\ \A k \in Leaves : k # l => fwd'[k] = fwd[k]
    <2>1. UNCHANGED simVars /\ UNCHANGED <<env, written>> /\ fwd' = [fwd EXCEPT ![l] = "receive"]
      BY StepSendEffect
    <2>2. \A k \in Leaves : k # l => fwd'[k] = fwd[k]
      BY <2>1 DEF BridgeTypeOK
    <2> QED BY <2>1, <2>2 DEF simVars
  <1>12. Fresh(l)'
    BY <1>3, <1>10, <1>11 DEF Fresh
  <1>13. ASSUME NEW k \in Leaves, k < simLeaf PROVE Fresh(k)' /\ fwd'[k] = "receive"
    <2>1. k # l /\ Fresh(k) /\ fwd[k] = "receive"
      BY <1>1, <1>13, Constants DEF Starting
    <2> QED BY <1>8, <1>11, <2>1 DEF Fresh
  <1> QED BY <1>1, <1>6, <1>11, <1>12, <1>13 DEF Starting

LEMMA ForwarderStarting ==
    ASSUME BridgeTypeOK, Control, Starting, NEW l \in Leaves, Forwarder(l)
    PROVE  Starting'
  <1>1. CASE StepSend(l)
    BY <1>1, StepSendStarting
  <1>2. CASE Receive(l)
    <2>1. sim' = sim /\ sim \notin {"init", "first"}
      BY <1>2, ReceiveControl DEF Receive, simVars
    <2> QED BY <2>1 DEF Starting
  <1>3. CASE Body(l) \/ CloseCommand(l)
    <2>1. awaiting /\ simLeaf = l /\ sim' = sim /\ fwd[l] \in {"body", "closing"}
      BY <1>3, BodyControl, CloseCommandControl DEF Body, CloseCommand, simVars
    <2>2. sim \notin {"init", "first"}
      BY <2>1, FirstForwarder DEF Resting, FirstTaken
    <2> QED BY <2>1, <2>2 DEF Starting
  <1> QED BY <1>1, <1>2, <1>3 DEF Forwarder

LEMMA StartForwarderStarting ==
    ASSUME BridgeTypeOK, Control, Starting, StartForwarder
    PROVE  Starting'
  <1> DEFINE msg == Head(toPy[leaf])
             new == [connected |-> TRUE, obs |-> msg.uid, info |-> InfoOf(msg)]
  <1> SUFFICES ASSUME sim = "first" PROVE Starting'
    <2>1. UNCHANGED sim /\ sim # "init"
      BY StartForwarderControl DEF StartForwarder, simVars
    <2> QED BY <2>1 DEF Starting
  <1>1. /\ UNCHANGED <<sim, simLeaf, created, mgr, decided, tracking, temp>> /\ leaf \in Leaves
        /\ env' = [env EXCEPT ![leaf] = new]
        /\ agent' = [agent EXCEPT ![leaf] = NewAgent]
        /\ written' = [written EXCEPT ![leaf] = <<>>]
        /\ fwd' = [fwd EXCEPT ![leaf] = "top"]
    BY DEF StartForwarder, ResetAgent, simVars, sharedVars, BridgeTypeOK
  <1>2. simLeaf = leaf /\ msg.uid = NoPacket
    BY StartForwarderControl
  <1>3. new.connected = TRUE /\ new.obs = NoPacket /\ new.info.uid = NoPacket
    BY <1>2 DEF InfoOf
  <1> HIDE DEF new, msg
  <1>4. /\ env'[leaf] = new /\ agent'[leaf] = NewAgent /\ written'[leaf] = <<>>
        /\ \A k \in Leaves : k # leaf => /\ env'[k] = env[k] /\ agent'[k] = agent[k]
                                         /\ written'[k] = written[k] /\ fwd'[k] = fwd[k]
    BY <1>1 DEF BridgeTypeOK
  <1>5. PICK l \in Leaves : l = leaf
    BY <1>1
  <1>6. Fresh(l)'
    <2>1. /\ agent'[l].prev = NoPacket /\ agent'[l].pkt = NoPacket
          /\ agent'[l].signaling = FALSE /\ agent'[l].steps = 0
          /\ agent'[l].lastSeq = 0 /\ agent'[l].mismatches = 0
          /\ agent'[l].counted = 0
      BY <1>4, <1>5 DEF NewAgent
    <2>2. /\ env'[l].connected = TRUE /\ env'[l].obs = NoPacket
          /\ env'[l].info.uid = NoPacket /\ written'[l] = <<>>
      BY <1>3, <1>4, <1>5
    <2> QED BY <2>1, <2>2 DEF Fresh
  <1>7. ASSUME NEW k \in Leaves, k < simLeaf PROVE Fresh(k)' /\ fwd'[k] = "receive"
    <2>1. k # leaf /\ Fresh(k) /\ fwd[k] = "receive"
      BY <1>1, <1>2, <1>7, Constants DEF Starting
    <2> QED BY <1>4, <2>1 DEF Fresh
  <1>8. simLeaf' = l
    BY <1>1, <1>2, <1>5
  <1>9. Fresh(simLeaf)'
    BY <1>6, <1>8 DEF Fresh
  <1> QED BY <1>1, <1>7, <1>9 DEF Starting

LEMMA MainStarting ==
    ASSUME BridgeTypeOK, Control, Starting, Main, ~StartForwarder
    PROVE  Starting'
  <1>1. CASE RunNs3
    <2>1. /\ sim' = "init" /\ simLeaf' = 0 /\ created' = 0 /\ tracking' = {} /\ temp' = <<>>
          /\ mgr' = [l \in Leaves |-> NewManager] /\ decided' = [l \in Leaves |-> <<>>]
      BY <1>1 DEF RunNs3
    <2>2. \A l \in Leaves : ~(l < 0)
      BY Constants
    <2> QED BY <2>1, <2>2 DEF Starting, NewManager
  <1>2. CASE Bind \/ BindFails \/ InitializeEnv \/ CloseEnvs \/ Reap \/ ReapFails \/ Exit
    <2>1. /\ UNCHANGED <<sim, simLeaf, awaiting, created, tracking, temp, mgr, decided, fwdVars>>
          /\ UNCHANGED fwd
          /\ toPy' = toPy \/ InitializeEnv
      BY <1>2 DEF Bind, BindFails, InitializeEnv, CloseEnvs, Reap, ReapFails, Exit, simVars,
                  sockVars, fwdVars, sharedVars
    <2>2. FirstTaken' /\ sim' = "first" => FirstTaken
      BY <2>1, InitializeEnvControl DEF FirstTaken
    <2> QED BY <2>1, <2>2, StartingKept
  <1>3. CASE StopOwnedProcess
    <2>1. sim' \notin {"init", "first"}
      BY <1>3 DEF StopOwnedProcess, OwnedProcess, Running
    <2> QED BY <2>1 DEF Starting
  <1> QED BY <1>1, <1>2, <1>3 DEF Main

LEMMA NextStarting ==
    ASSUME BridgeTypeOK, Control, Starting, [Next]_vars
    PROVE  Starting'
  <1>1. CASE Main
    BY <1>1, MainStarting, StartForwarderStarting
  <1>2. CASE Simulator
    BY <1>2, SimulatorStarting, SimFirstActionStarting
  <1>3. CASE SimCrash
    BY <1>3 DEF SimCrash, Starting
  <1>4. ASSUME NEW l \in Leaves, Forwarder(l) PROVE Starting'
    BY <1>4, ForwarderStarting
  <1>5. CASE UNCHANGED vars
    <2>1. UNCHANGED <<sim, simLeaf, awaiting, created, tracking, temp, mgr, decided, fwdVars>>
          /\ UNCHANGED <<fwd, toPy>>
      BY <1>5 DEF vars, simVars, sockVars, fwdVars, sharedVars
    <2>2. FirstTaken' => FirstTaken
      BY <2>1 DEF FirstTaken
    <2> QED BY <2>1, <2>2, StartingKept
  <1> QED BY <1>1, <1>2, <1>3, <1>4, <1>5 DEF Next, Done

-----------------------------------------------------------------------------
(* Ranks: which transition belongs to which decision.                      *)

LEMMA RankInside ==
    ASSUME NEW n \in Nat, NEW S \in SUBSET (1..n), NEW i \in S
    PROVE  Rank(S, i) \in 1..Cardinality(S) /\ Cardinality(S) \in Nat
  <1> DEFINE R == {j \in S : j <= i}
  <1>1. IsFiniteSet(1..n)
    BY FS_Interval
  <1>2. IsFiniteSet(S) /\ Cardinality(S) \in Nat
    BY <1>1, FS_Subset, FS_CardinalityType
  <1>3. IsFiniteSet(R) /\ Cardinality(R) \in Nat /\ Cardinality(R) <= Cardinality(S)
    BY <1>2, FS_Subset, FS_CardinalityType
  <1>4. i \in R
    <2>1. i \in Nat
      OBVIOUS
    <2> QED BY <2>1
  <1>5. Cardinality(R) # 0
    BY <1>3, <1>4, FS_EmptySet
  <1> QED BY <1>2, <1>3, <1>5 DEF Rank

\* The next decision comes after all others.
LEMMA RankNext ==
    ASSUME NEW n \in Nat \ {0}, NEW S \in SUBSET (1..(n - 1))
    PROVE  /\ Cardinality(S \cup {n}) = Cardinality(S) + 1
           /\ Rank(S \cup {n}, n) = Cardinality(S) + 1
           /\ \A i \in S : Rank(S \cup {n}, i) = Rank(S, i)
           /\ Cardinality(S) \in Nat
  <1>1. IsFiniteSet(1..(n - 1)) /\ n \notin S
    BY FS_Interval
  <1>2. IsFiniteSet(S) /\ Cardinality(S) \in Nat
    BY <1>1, FS_Subset, FS_CardinalityType
  <1>3. Cardinality(S \cup {n}) = Cardinality(S) + 1
    BY <1>1, <1>2, FS_AddElement
  <1>4. {j \in S \cup {n} : j <= n} = S \cup {n}
    <2>1. \A j \in S \cup {n} : j <= n
      OBVIOUS
    <2> QED BY <2>1
  <1>5. ASSUME NEW i \in S PROVE {j \in S \cup {n} : j <= i} = {j \in S : j <= i}
    <2>1. ~(n <= i)
      OBVIOUS
    <2>2. \A j : j \in S \cup {n} /\ j <= i <=> j \in S /\ j <= i
      BY <2>1
    <2> QED BY <2>2, Zenon
  <1> QED BY <1>2, <1>3, <1>4, <1>5 DEF Rank

-----------------------------------------------------------------------------
(* Learning: what steps leave alone.                                       *)

DecisionRecord == [uid : Uids, act : Actions, applied : BOOLEAN]
TransitionRecord == [obs : Uids, act : Actions, next : Uids]

LEMMA DecisionsAreTyped ==
    ASSUME BridgeTypeOK, NEW l \in Leaves
    PROVE  /\ decided[l] \in Seq(DecisionRecord) /\ Len(decided[l]) \in Nat
           /\ decided[l] = <<>> <=> Len(decided[l]) = 0
           /\ \A i \in 1..Len(decided[l]) :
                /\ decided[l][i].uid \in Uids /\ decided[l][i].act \in Actions
                /\ decided[l][i].applied \in BOOLEAN
           /\ written[l] \in Seq(TransitionRecord) /\ Len(written[l]) \in Nat
  <1>1. decided[l] \in Seq(DecisionRecord) /\ written[l] \in Seq(TransitionRecord)
    BY DEF BridgeTypeOK, DecisionRecord, TransitionRecord
  <1>2. \A i \in 1..Len(decided[l]) : decided[l][i] \in DecisionRecord
    BY <1>1, ElementOfSeq
  <1> QED BY <1>1, <1>2, OneMessage, LenProperties DEF DecisionRecord

LEMMA LeafSame ==
    ASSUME NEW k \in Leaves, decided'[k] = decided[k], written'[k] = written[k],
           agent'[k] = agent[k]
    PROVE  /\ Latest(k)' = Latest(k)
           /\ Aligned(k)' <=> Aligned(k)
           /\ RefusedSince(k, 0)' <=> RefusedSince(k, 0)
           /\ RefusedSince(k, 1)' <=> RefusedSince(k, 1)
           /\ Waiting(k)' <=> Waiting(k)
           /\ Ended(k)' <=> sim' # "run" /\ agent[k].counted = Len(decided[k]) /\ Aligned(k)
  <1>1. Latest(k)' = Latest(k)
    BY DEF Latest
  <1>2. Known(k)' = Known(k)
    BY DEF Known
  <1>3. Aligned(k)' <=> Aligned(k)
    BY <1>2 DEF Aligned, Rank, Decision
  <1>4. /\ RefusedSince(k, 0)' <=> RefusedSince(k, 0)
        /\ RefusedSince(k, 1)' <=> RefusedSince(k, 1)
    BY DEF RefusedSince
  <1>5. Waiting(k)' <=> Waiting(k)
    BY <1>1, <1>3, <1>4 DEF Waiting
  <1>6. Ended(k)' <=> sim' # "run" /\ agent[k].counted = Len(decided[k]) /\ Aligned(k)
    BY <1>3 DEF Ended
  <1> QED BY <1>1, <1>3, <1>4, <1>5, <1>6

\* Nothing of leaf k has changed but perhaps what it is sent.
SameLeaf(k) ==
    /\ decided'[k] = decided[k] /\ written'[k] = written[k] /\ agent'[k] = agent[k]
    /\ env'[k] = env[k] /\ fwd'[k] = fwd[k] /\ mgr'[k] = mgr[k]

\* The leaf the simulator does not talk to.
LEMMA QuietKept ==
    ASSUME NEW k \in Leaves, LeafLearning(k), Quiet(k), SameLeaf(k),
           toPy'[k] = <<>>, toSim'[k] = <<>>, sim' = "run" => sim = "run"
    PROVE  LeafLearning(k)'
  <1>1. Records(k)'
    BY DEF LeafLearning, Records, SameLeaf
  <1>2. Between(k) \/ (fwd[k] = "done" /\ Ended(k))
    BY DEF LeafLearning, Between, Reading, Deciding, Decided, Over, Quiet, Handling
  <1>3. Between(k) => Between(k)'
    <2>1. Message(k)'
      BY DEF Message
    <2> QED BY <2>1, LeafSame DEF Between, SameLeaf
  <1>4. fwd[k] = "done" /\ Ended(k) => Over(k)'
    BY LeafSame DEF Ended, Over, SameLeaf
  <1> QED BY <1>1, <1>2, <1>3, <1>4 DEF LeafLearning

\* Nothing happens to leaf k.
LEMMA LeafKept ==
    ASSUME NEW k \in Leaves, LeafLearning(k), SameLeaf(k), UNCHANGED <<sim, created>>,
           toPy'[k] = toPy[k], toSim'[k] = toSim[k]
    PROVE  LeafLearning(k)'
  <1>1. Records(k)'
    BY DEF LeafLearning, Records, SameLeaf
  <1>2. AlignedNow(k)' <=> AlignedNow(k)
    <2>1. KnownNow(k)' = KnownNow(k)
      BY DEF KnownNow, SameLeaf
    <2>2. \A i : Successor(k, i)' = Successor(k, i)
      BY DEF Successor, SameLeaf
    <2> QED BY <2>1, <2>2 DEF AlignedNow, Rank, Decision, SameLeaf
  <1>3. Learned(k) => Learned(k)'
    BY <1>2, LeafSame DEF Learned, SameLeaf
  <1>4. Message(k) => Message(k)'
    BY DEF Message, PresentInfo, SameLeaf
  <1>5. Seen(k) => Seen(k)'
    BY DEF Seen, PresentInfo, SameLeaf
  <1>6. (Waiting(k) => Waiting(k)') /\ (Ended(k) => Ended(k)')
    BY LeafSame DEF Ended, SameLeaf
  <1>7. /\ Between(k) => Between(k)'
        /\ Reading(k) => Reading(k)'
        /\ Deciding(k) => Deciding(k)'
        /\ Decided(k) => Decided(k)'
        /\ Over(k) => Over(k)'
    BY <1>3, <1>4, <1>5, <1>6
       DEF Between, Reading, Deciding, Decided, Over, SameLeaf
  <1> QED BY <1>1, <1>7 DEF LeafLearning

\* A step of leaf l leaves the others alone.
LEMMA OthersKept ==
    ASSUME Learning, Simulating', Simulating, Exchanges, NEW l \in Leaves,
           awaiting, simLeaf = l, sim' = "run" => sim = "run",
           \A k \in Leaves : k # l => SameLeaf(k) /\ toPy'[k] = toPy[k] /\ toSim'[k] = toSim[k],
           LeafLearning(l)'
    PROVE  Learning'
  <1>1. ASSUME NEW k \in Leaves, k # l PROVE LeafLearning(k)'
    <2>1. Quiet(k) /\ LeafLearning(k)
      BY <1>1 DEF Exchanges, Exchange, Learning
    <2> QED BY <1>1, <2>1, QuietKept DEF Quiet
  <1> QED BY <1>1 DEF Learning

-----------------------------------------------------------------------------
(* Learning: the simulator's steps.                                        *)

\* The leaves have started.
LEMMA SimFirstActionLearning ==
    ASSUME BridgeTypeOK, Control, Starting, SimFirstAction
    PROVE  Learning'
  <1> SUFFICES ASSUME sim' = "run", NEW l \in Leaves PROVE LeafLearning(l)'
    <2>1. sim' \in {"run", "init"}
      BY DEF SimFirstAction
    <2> QED BY <2>1 DEF Learning, Simulating
  <1>1. simLeaf = NLeaves - 1
    BY SimFirstActionIs
  <1>2. Fresh(l) /\ fwd[l] = "receive" /\ decided[l] = <<>> /\ ~mgr'[l].applied
    BY <1>1, SimFirstActionStarting, Constants
  <1>3. UNCHANGED <<fwd, env, agent, written, decided, created>>
    BY DEF SimFirstAction, fwdVars
  <1>4. toPy'[l] = <<>> /\ toSim'[l] = <<>>
    BY ReplyExchange DEF SimFirstAction, fwdVars, Control
  <1>5. Len(decided[l]) = 0 /\ Len(written[l]) = 0
    BY <1>2, EmptySeq DEF Fresh
  <1>6. Records(l)'
    BY <1>2, <1>3, <1>5 DEF Records, Fresh
  <1>7. Aligned(l)
    <2>1. Known(l) = {}
      BY <1>5 DEF Known
    <2> QED BY <1>5, <2>1, FS_EmptySet DEF Aligned
  <1>8. Waiting(l)
    <2>1. RefusedSince(l, 1)
      BY <1>5 DEF RefusedSince
    <2> QED BY <1>2, <1>5, <1>7, <2>1 DEF Waiting, Latest, Fresh
  <1>9. Waiting(l)'
    BY <1>3, <1>8, LeafSame
  <1>10. Between(l)'
    BY <1>2, <1>3, <1>4, <1>9 DEF Between, Message, Fresh
  <1> QED BY <1>6, <1>10 DEF LeafLearning

\* A packet needs a decision at leaf l, or its last message is sent.
LEMMA MessageLearning ==
    ASSUME BridgeTypeOK, Exchanges, Learning, Simulating, ~awaiting,
           NEW l \in Leaves, NEW msg \in ToPython, SimSend(l, msg),
           UNCHANGED <<sim, mgr, decided, fwd, env, agent, written>>,
           \/ msg.kind = "end" /\ sim # "run"
           \/ /\ msg.kind = "state" /\ sim = "run" /\ created' # NoPacket
              /\ msg.uid = created' /\ msg.applied = mgr[l].applied /\ msg.seq = mgr[l].seq
    PROVE  Learning'
  <1>1. \A k \in Leaves : Quiet(k) /\ SameLeaf(k) /\ LeafLearning(k)
    BY DEF Exchanges, Exchange, SameLeaf, Learning
  <1>2. /\ toPy'[l] # <<>> /\ Head(toPy'[l]) = msg
        /\ \A k \in Leaves : toSim'[k] = <<>>
        /\ \A k \in Leaves : k # l => toPy'[k] = <<>>
    BY SendExchange
  <1>3. ASSUME NEW k \in Leaves, k # l PROVE LeafLearning(k)'
    BY <1>1, <1>2, <1>3, QuietKept
  <1>4. LeafLearning(l)'
    <2>1. Records(l)'
      BY <1>1 DEF LeafLearning, Records
    <2>2. Between(l) \/ (fwd[l] = "done" /\ Ended(l))
      BY <1>1 DEF LeafLearning, Between, Reading, Deciding, Decided, Over, Quiet, Handling
    <2>3. Message(l)'
      BY <1>2 DEF Message, PresentInfo
    <2>4. Between(l) => Between(l)'
      BY <1>2, <2>3, LeafSame DEF Between
    <2>5. fwd[l] = "done" /\ Ended(l) => Over(l)'
      BY LeafSame DEF Ended, Over
    <2> QED BY <2>1, <2>2, <2>4, <2>5 DEF LeafLearning
  <1> QED BY <1>3, <1>4 DEF Learning

LEMMA SimSendLearning ==
    ASSUME BridgeTypeOK, Control, Learning, SimEndSend \/ \E l \in Leaves : SimDecision(l)
    PROVE  Learning'
  <1>1. CASE SimEndSend
    <2> DEFINE msg == StateMsg("end", NoPacket, simLeaf)
    <2>1. /\ sim = "end" /\ ~awaiting /\ SimSend(simLeaf, msg) /\ simLeaf \in Leaves
          /\ UNCHANGED <<sim, mgr, decided, fwd, env, agent, written>>
      BY <1>1 DEF SimEndSend, fwdVars, BridgeTypeOK
    <2>2. msg \in ToPython /\ msg.kind = "end"
      BY <2>1, MessagesAreTyped, Constants DEF StateMsg
    <2> HIDE DEF msg
    <2> QED BY <2>1, <2>2, MessageLearning DEF Simulating, Control
  <1>2. ASSUME NEW l \in Leaves, SimDecision(l) PROVE Learning'
    <2> DEFINE msg == StateMsg("state", created + 1, l)
    <2>1. /\ sim = "run" /\ ~awaiting /\ SimSend(l, msg) /\ created' = created + 1
          /\ UNCHANGED <<sim, mgr, decided, fwd, env, agent, written>>
          /\ created + 1 \in Uids /\ created + 1 # NoPacket
      BY <1>2, BridgeAssumption DEF SimDecision, fwdVars, BridgeTypeOK, Uids, NoPacket
    <2>2. msg \in ToPython
      BY <2>1, MessagesAreTyped
    <2>3. /\ msg.kind = "state" /\ msg.uid = created + 1
          /\ msg.applied = mgr[l].applied /\ msg.seq = mgr[l].seq
      BY DEF StateMsg
    <2> HIDE DEF msg
    <2> QED BY <2>1, <2>2, <2>3, MessageLearning DEF Simulating, Control
  <1> QED BY <1>1, <1>2

\* The stop time: nothing is on its way.
LEMMA SimEndLearning ==
    ASSUME BridgeTypeOK, Control, Learning, SimEnd
    PROVE  Learning'
  <1>1. /\ sim = "run" /\ ~awaiting /\ sim' = "end"
        /\ UNCHANGED <<mgr, decided, fwd, env, agent, written, toPy, toSim>>
    BY DEF SimEnd, fwdVars, sockVars
  <1>2. ASSUME NEW k \in Leaves PROVE LeafLearning(k)'
    <2>1. Quiet(k) /\ LeafLearning(k) /\ SameLeaf(k)
      BY <1>1 DEF Control, Exchanges, Exchange, SameLeaf, Learning, Simulating
    <2> QED BY <1>1, <2>1, QuietKept DEF Quiet
  <1> QED BY <1>2 DEF Learning

\* The last reply of a leaf.
LEMMA SimEndReplyLearning ==
    ASSUME BridgeTypeOK, Control, Learning, SimEndReply
    PROVE  Learning'
  <1>1. /\ sim = "end" /\ sim' \in {"end", "ok"} /\ SimReply({"act", "stop"})
        /\ UNCHANGED <<mgr, decided, fwd, env, agent, written>>
    BY DEF SimEndReply, fwdVars
  <1>2. /\ toSim[simLeaf] # <<>> /\ simLeaf \in Leaves /\ Answered(simLeaf) /\ awaiting
        /\ \A k \in Leaves : toPy[k] = <<>> /\ toPy'[k] = <<>> /\ toSim'[k] = <<>>
        /\ \A k \in Leaves : k # simLeaf => toSim[k] = <<>>
    BY <1>1, ReplyExchange DEF Control
  <1>3. \A k \in Leaves : LeafLearning(k) /\ SameLeaf(k)
    BY <1>1 DEF Learning, Simulating, SameLeaf
  <1>4. ASSUME NEW k \in Leaves PROVE LeafLearning(k)'
    <2>1. CASE k = simLeaf
      <3>1. fwd[k] = "done" /\ Ended(k)
        BY <1>1, <1>2, <1>3, <2>1
           DEF LeafLearning, Between, Reading, Deciding, Decided, Over, Learned, Answered, Handling
      <3>2. Over(k)'
        BY <1>1, <3>1, LeafSame DEF Over, Ended
      <3>3. Records(k)'
        BY <1>1, <1>3 DEF LeafLearning, Records
      <3> QED BY <3>2, <3>3 DEF LeafLearning
    <2>2. CASE k # simLeaf
      <3>1. Quiet(k)
        BY <2>2 DEF Control, Exchanges, Exchange
      <3> QED BY <1>1, <1>2, <1>3, <3>1, QuietKept
    <2> QED BY <2>1, <2>2
  <1> QED BY <1>4 DEF Learning

\* An action is executed: the packet that waited is the last decision's.
LEMMA SimActionLeaf ==
    ASSUME BridgeTypeOK, Numbers, Control, Learning, SimAction,
           NEW l \in Leaves, l = simLeaf
    PROVE  LeafLearning(l)'
  <1> DEFINE n == Len(decided[l])
             a == Head(toSim[simLeaf]).act
             applied == a \notin DeadActions
             d == [uid |-> created, act |-> a, applied |-> applied]
             ds == Append(decided[l], d)
  <1>1. /\ sim = "run" /\ SimReply({"act"}) /\ UNCHANGED <<sim, simLeaf, created>>
        /\ UNCHANGED <<fwd, env, agent, written>>
    BY DEF SimAction, fwdVars
  <1>2. /\ toSim[l] # <<>> /\ Answered(l) /\ awaiting
        /\ \A k \in Leaves : toPy'[k] = <<>> /\ toSim'[k] = <<>>
    BY <1>1, ReplyExchange DEF Control
  <1>3. LeafLearning(l)
    BY <1>1 DEF Learning, Simulating
  <1>4. Records(l) /\ Decided(l)
    BY <1>1, <1>2, <1>3
       DEF LeafLearning, Between, Reading, Deciding, Over, Ended, Answered, Handling
  <1>5. /\ decided[l] \in Seq(DecisionRecord) /\ n \in Nat
        /\ \A i \in 1..n : /\ decided[l][i].uid \in Uids /\ decided[l][i].act \in Actions
                           /\ decided[l][i].applied \in BOOLEAN
    BY DecisionsAreTyped
  <1>6. /\ d \in DecisionRecord /\ decided' = [decided EXCEPT ![l] = ds]
        /\ mgr' = [mgr EXCEPT ![l] = [applied |-> applied, seq |-> mgr[l].seq + 1]]
        /\ applied \in BOOLEAN /\ a = agent[l].action
    BY <1>4, SimActionEffect DEF DecisionRecord, Decided
  <1>7. d.uid = created /\ d.act = agent[l].action /\ d.applied = applied
    BY <1>6
  <1> HIDE DEF applied, d
  <1>8. /\ decided'[l] = ds /\ mgr'[l] = [applied |-> applied, seq |-> mgr[l].seq + 1]
    BY <1>6 DEF BridgeTypeOK
  <1>9. /\ Len(ds) = n + 1 /\ ds[n + 1] = d /\ \A i \in 1..n : ds[i] = decided[l][i]
        /\ ds \in Seq(DecisionRecord)
    BY <1>5, <1>6, AppendProperties
  <1> HIDE DEF ds, a, n
  <1>10. ds # <<>>
    BY <1>5, <1>9, EmptySeq
  <1>11. Latest(l)' = created
    BY <1>7, <1>8, <1>9, <1>10 DEF Latest
  <1>12. Aligned(l)'
    <2>1. Known(l)' = KnownNow(l)
      <3>1. \A i : i \in Known(l)' <=> i \in 1..(Len(decided'[l]) - 1) /\ decided'[l][i].applied
        BY DEF Known
      <3>2. \A i : i \in KnownNow(l) <=> i \in 1..n /\ decided[l][i].applied
        BY DEF KnownNow, n
      <3>3. Len(decided'[l]) - 1 = n
        BY <1>5, <1>8, <1>9
      <3>4. \A i \in 1..n : decided'[l][i] = decided[l][i]
        BY <1>8, <1>9
      <3>5. \A i : i \in Known(l)' <=> i \in KnownNow(l)
        BY <3>1, <3>2, <3>3, <3>4
      <3> QED BY <3>5 DEF Known, KnownNow
    <2>2. ASSUME NEW i \in KnownNow(l)
          PROVE  Decision(ds[i], ds[i + 1].uid) = Decision(decided[l][i], Successor(l, i))
      <3>1. i \in 1..n /\ ds[i] = decided[l][i]
        BY <1>9 DEF KnownNow, n
      <3>2. CASE i = n
        BY <1>5, <1>7, <1>9, <3>1, <3>2 DEF Successor, n
      <3>3. CASE i # n
        <4>1. i + 1 \in 1..n
          BY <1>5, <3>1, <3>3
        <4> QED BY <1>9, <3>1, <3>3, <4>1 DEF Successor, n
      <3> QED BY <3>2, <3>3
    <2>3. AlignedNow(l) /\ written'[l] = written[l]
      BY <1>1, <1>4 DEF Decided, Learned
    <2> QED BY <1>8, <2>1, <2>2, <2>3 DEF Aligned, AlignedNow, Rank
  <1>13. agent[l].lastSeq \in Nat /\ agent[l].lastSeq <= n /\ agent[l].mismatches \in Nat
    BY <1>4, ForwarderIsTyped, TypeParts DEF Records, n
  <1>14. RefusedSince(l, 1)'
    <2>1. \A i \in 1..n : agent[l].lastSeq < i => ~decided[l][i].applied
      BY <1>4, <1>5 DEF Decided, Learned, RefusedSince, n
    <2>3. ASSUME NEW i \in 1..(Len(decided'[l]) - 1), agent'[l].lastSeq < i
          PROVE  ~decided'[l][i].applied
      <3>1. Len(decided'[l]) - 1 = n
        BY <1>5, <1>8, <1>9
      <3>2. i \in 1..n /\ agent[l].lastSeq < i
        BY <1>1, <2>3, <3>1
      <3> QED BY <1>8, <1>9, <2>1, <3>2
    <2> QED BY <2>3 DEF RefusedSince
  <1>15. Waiting(l)'
    <2>1. /\ agent[l].prev = created /\ agent[l].pkt = created /\ ~agent[l].signaling
          /\ agent[l].counted = n + 1
      BY <1>4 DEF Decided, Learned, n
    <2>2. agent[l].lastSeq < n + 1
      BY <1>5, <1>13
    <2> QED BY <1>1, <1>7, <1>8, <1>9, <1>11, <1>12, <1>14, <2>1, <2>2 DEF Waiting
  <1>16. Between(l)'
    BY <1>1, <1>2, <1>4, <1>15 DEF Between, Decided, Message
  <1>17. Records(l)'
    <2>1. created # NoPacket
      BY <1>4 DEF Decided, Learned
    <2>2. mgr'[l].applied = applied /\ n + 1 > 0
      BY <1>5, <1>8
    <2>3. \A i \in 1..n : decided[l][i].uid # NoPacket
      BY <1>4 DEF Records, n
    <2>4. \A i \in 1..(n + 1) : i \in 1..n \/ i = n + 1
      BY <1>5
    <2>5. agent[l].mismatches > 0 => \E i \in 1..n : ~decided[l][i].applied
      BY <1>4 DEF Records, n
    <2>6. \A i \in 1..n : i \in 1..(n + 1)
      BY <1>5
    <2>7. agent[l].lastSeq <= n + 1
      BY <1>5, <1>13
    <2>8. \A i \in 1..(n + 1) : ds[i].uid # NoPacket
      BY <1>7, <1>9, <2>1, <2>3, <2>4
    <2>9. agent[l].mismatches > 0 => \E i \in 1..(n + 1) : ~ds[i].applied
      BY <1>9, <2>5, <2>6
    <2>10. mgr'[l].applied <=> n + 1 > 0 /\ ds[n + 1].applied
      BY <1>7, <1>9, <2>2
    <2> QED BY <1>1, <1>8, <1>9, <2>7, <2>8, <2>9, <2>10 DEF Records
  <1> QED BY <1>16, <1>17 DEF LeafLearning

LEMMA SimActionLearning ==
    ASSUME BridgeTypeOK, Numbers, Control, Learning, SimAction
    PROVE  Learning'
  <1>1. /\ sim = "run" /\ SimReply({"act"}) /\ UNCHANGED <<sim, simLeaf, created>>
        /\ UNCHANGED <<fwd, env, agent, written>> /\ simLeaf \in Leaves
        /\ \A k \in Leaves : k # simLeaf => decided'[k] = decided[k] /\ mgr'[k] = mgr[k]
    BY SimActionEffect DEF SimAction, fwdVars, BridgeTypeOK
  <1>2. /\ awaiting /\ \A k \in Leaves : toPy[k] = <<>> /\ toPy'[k] = <<>> /\ toSim'[k] = <<>>
        /\ \A k \in Leaves : k # simLeaf => toSim[k] = <<>>
    BY <1>1, ReplyExchange DEF Control
  <1>3. LeafLearning(simLeaf)'
    <2>1. PICK l \in Leaves : l = simLeaf
      BY <1>1
    <2>2. LeafLearning(l)' /\ simLeaf' = l
      BY <1>1, <2>1, SimActionLeaf
    <2> QED BY <2>2
  <1>4. ASSUME NEW k \in Leaves, k # simLeaf PROVE LeafLearning(k)'
    <2>1. Quiet(k) /\ LeafLearning(k) /\ SameLeaf(k)
      BY <1>1, <1>4 DEF Control, Exchanges, Exchange, SameLeaf, Learning, Simulating
    <2> QED BY <1>1, <1>2, <2>1, QuietKept
  <1>5. ASSUME NEW k \in Leaves PROVE LeafLearning(k)'
    <2>1. CASE k = simLeaf
      BY <1>1, <2>1, SimActionLeaf
    <2> QED BY <1>4, <2>1
  <1> QED BY <1>5 DEF Learning

-----------------------------------------------------------------------------
(* Learning: the forwarder's steps.                                        *)

LEMMA ReceiveLearning ==
    ASSUME BridgeTypeOK, Control, Learning, Simulating, NEW l \in Leaves, Receive(l)
    PROVE  Learning'
  <1> DEFINE msg == Head(toPy[l])
             new == Received(l, msg)
  <1>1. /\ fwd[l] = "receive" /\ fwd' = [fwd EXCEPT ![l] = "body"]
        /\ UNCHANGED <<agent, written, sim, simLeaf, created, mgr, decided>>
    BY DEF Receive, simVars
  <1>2. /\ awaiting /\ simLeaf = l
        /\ toPy[l] # <<>> /\ toPy'[l] = <<>> /\ toSim[l] = <<>>
        /\ env' = [env EXCEPT ![l] = new] /\ UNCHANGED toSim
    BY ReceiveControl
  <1>3. LeafLearning(l)
    BY DEF Learning
  <1>4. Between(l) /\ Records(l)
    BY <1>1, <1>2, <1>3 DEF LeafLearning, Between, Reading, Deciding, Decided, Over
  <1>5. /\ fwd'[l] = "body" /\ env'[l] = new
        /\ \A k \in Leaves : k # l => fwd'[k] = fwd[k] /\ env'[k] = env[k]
    BY <1>1, <1>2 DEF BridgeTypeOK
  <1>6. Seen(l)'
    <2>1. env[l] \in EnvState /\ env[l].info.uid = agent[l].pkt
      BY <1>4, ForwarderIsTyped, TypeParts DEF Between
    <2>2. CASE msg.kind = "end" /\ sim # "run"
      <3>1. new = [env[l] EXCEPT !.connected = FALSE, !.obs = msg.uid]
        BY <2>2 DEF Received
      <3>2. new.connected = FALSE /\ new.info = env[l].info
        BY <2>1, <3>1 DEF EnvState
      <3> HIDE DEF new, msg
      <3> QED BY <1>1, <1>5, <2>1, <2>2, <3>2 DEF Seen
    <2>3. CASE /\ msg.kind = "state" /\ sim = "run" /\ created # NoPacket
               /\ PresentInfo(l, msg)
      <3>1. /\ new.connected = TRUE /\ new.obs = msg.uid /\ new.info.uid = msg.uid
            /\ new.info.applied = msg.applied /\ new.info.seq = msg.seq
        BY <2>3 DEF Received, InfoOf
      <3> HIDE DEF new, msg
      <3> QED BY <1>1, <1>5, <2>3, <3>1 DEF Seen, PresentInfo
    <2>4. Message(l)
      BY <1>4 DEF Between
    <2> QED BY <1>2, <2>2, <2>3, <2>4 DEF Message
  <1>7. Waiting(l)'
    BY <1>1, <1>4, LeafSame DEF Between
  <1>8. Records(l)'
    BY <1>1, <1>4 DEF Records
  <1>9. LeafLearning(l)'
    BY <1>5, <1>6, <1>7, <1>8 DEF LeafLearning, Reading
  <1>10. \A k \in Leaves : k # l => SameLeaf(k) /\ toPy'[k] = toPy[k] /\ toSim'[k] = toSim[k]
    <2>1. toPy' = [toPy EXCEPT ![l] = Tail(toPy[l])] \/ toPy' = toPy
      BY DEF Receive, SocketRecv
    <2>2. \A k \in Leaves : k # l => toPy'[k] = toPy[k]
      BY <2>1 DEF BridgeTypeOK
    <2> QED BY <1>1, <1>2, <1>5, <2>2 DEF SameLeaf
  <1>11. Simulating'
    BY <1>1 DEF Simulating
  <1> QED BY <1>1, <1>2, <1>9, <1>10, <1>11, OthersKept DEF Control

LEMMA StepSendLearning ==
    ASSUME BridgeTypeOK, Control, Learning, Simulating, NEW l \in Leaves, StepSend(l)
    PROVE  Learning'
  <1>1. PICK a \in Actions :
                /\ Head(toSim'[l]) = Act(a)
                /\ agent' = [agent EXCEPT ![l] =
                     [agent[l] EXCEPT !.prev = env[l].obs, !.action = a,
                        !.counted = IF TakesAction(l) THEN agent[l].counted + 1
                                                      ELSE agent[l].counted]]
    BY StepSendControl
  <1>2. /\ awaiting /\ simLeaf = l /\ toPy[l] = <<>> /\ toSim[l] = <<>> /\ toSim'[l] # <<>>
        /\ \A k \in Leaves : k # l => toSim'[k] = toSim[k]
    BY StepSendControl
  <1>3. /\ fwd[l] = "top" /\ fwd' = [fwd EXCEPT ![l] = "receive"] /\ UNCHANGED simVars
        /\ UNCHANGED <<toPy, env, written>>
    BY StepSendEffect
  <1>4. UNCHANGED <<sim, simLeaf, created, mgr, decided>>
    BY <1>3 DEF simVars
  <1>5. Deciding(l) /\ Records(l)
    BY <1>3 DEF Learning, LeafLearning, Between, Reading, Deciding, Decided, Over
  <1>6. TakesAction(l)
    BY <1>5 DEF Deciding, Learned, TakesAction, DecisionState
  <1>7. agent'[l] = [agent[l] EXCEPT !.prev = env[l].obs, !.action = a,
                                     !.counted = agent[l].counted + 1]
        /\ \A k \in Leaves : k # l => agent'[k] = agent[k]
    BY <1>1, <1>6 DEF BridgeTypeOK
  <1>8. agent[l] \in AgentState
    BY ForwarderIsTyped, TypeParts
  <1>9. /\ agent'[l].prev = env[l].obs /\ agent'[l].pkt = agent[l].pkt
        /\ agent'[l].action = a /\ agent'[l].counted = agent[l].counted + 1
        /\ agent'[l].signaling = agent[l].signaling /\ agent'[l].steps = agent[l].steps
        /\ agent'[l].lastSeq = agent[l].lastSeq
        /\ agent'[l].mismatches = agent[l].mismatches
    BY <1>7, <1>8 DEF AgentState
  <1>10. fwd'[l] = "receive" /\ \A k \in Leaves : k # l => fwd'[k] = fwd[k]
    BY <1>3 DEF BridgeTypeOK
  <1>11. Learned(l)'
    <2>1. AlignedNow(l)' <=> AlignedNow(l)
      BY <1>3, <1>4 DEF AlignedNow, KnownNow, Rank, Successor, Decision
    <2>2. RefusedSince(l, 0)' <=> RefusedSince(l, 0)
      BY <1>4, <1>9 DEF RefusedSince
    <2> QED BY <1>3, <1>4, <1>5, <1>9, <2>1, <2>2 DEF Deciding, Learned
  <1>12. Records(l)'
    BY <1>4, <1>5, <1>9 DEF Records
  <1>13. Decided(l)'
    <2>1. Head(toSim'[l]).kind = "act" /\ Head(toSim'[l]).act = a
      BY <1>1 DEF Act
    <2> QED BY <1>2, <1>3, <1>4, <1>5, <1>9, <1>10, <1>11, <2>1 DEF Deciding, Decided, Learned
  <1>14. LeafLearning(l)'
    BY <1>12, <1>13 DEF LeafLearning
  <1>15. \A k \in Leaves : k # l => SameLeaf(k) /\ toPy'[k] = toPy[k] /\ toSim'[k] = toSim[k]
    BY <1>2, <1>3, <1>4, <1>7, <1>10 DEF SameLeaf
  <1>16. Simulating'
    BY <1>4 DEF Simulating
  <1> QED BY <1>2, <1>4, <1>14, <1>15, <1>16, OthersKept DEF Control

LEMMA CloseCommandLearning ==
    ASSUME BridgeTypeOK, Control, Learning, Simulating, NEW l \in Leaves, CloseCommand(l)
    PROVE  Learning'
  <1>1. /\ fwd[l] = "closing" /\ fwd' = [fwd EXCEPT ![l] = "done"] /\ SocketSend(l, Stop)
        /\ UNCHANGED <<toPy, env, agent, written, sim, simLeaf, awaiting, created, mgr, decided>>
    BY DEF CloseCommand, simVars
  <1>2. awaiting /\ simLeaf = l
    BY CloseCommandControl
  <1>3. \A k \in Leaves : k # l => toSim'[k] = toSim[k]
    <2>1. toSim' = toSim \/ toSim' = [toSim EXCEPT ![l] = Append(toSim[l], Stop)]
      BY <1>1 DEF SocketSend
    <2> QED BY <2>1 DEF BridgeTypeOK
  <1>4. fwd'[l] = "done" /\ \A k \in Leaves : k # l => fwd'[k] = fwd[k]
    BY <1>1 DEF BridgeTypeOK
  <1>5. Over(l) /\ Records(l)
    BY <1>1 DEF Learning, LeafLearning, Between, Reading, Deciding, Decided, Over
  <1>6. Over(l)'
    BY <1>1, <1>4, <1>5, LeafSame DEF Over, Ended
  <1>7. Records(l)'
    BY <1>1, <1>5 DEF Records
  <1>8. \A k \in Leaves : k # l => SameLeaf(k) /\ toPy'[k] = toPy[k] /\ toSim'[k] = toSim[k]
    BY <1>1, <1>3, <1>4 DEF SameLeaf
  <1>9. LeafLearning(l)'
    BY <1>6, <1>7 DEF LeafLearning
  <1>10. Simulating'
    BY <1>1 DEF Simulating
  <1> QED BY <1>1, <1>2, <1>8, <1>9, <1>10, OthersKept DEF Control

\* What a forwarder that reads a state knows, and whether it is valid.
LEMMA ReadingIs ==
    ASSUME BridgeTypeOK, Numbers, Learning, Simulating, NEW l \in Leaves, Body(l)
    PROVE  /\ Reading(l) /\ Records(l) /\ Waiting(l)
           /\ env[l].connected =>
                /\ sim = "run" /\ created # NoPacket /\ env[l].obs = created
                /\ env[l].info.uid = created /\ env[l].info.seq = Len(decided[l])
                /\ ~IsCtrl(l)
                /\ ValidStep(l) <=> decided[l] # <<>> /\ decided[l][Len(decided[l])].applied
           /\ ~env[l].connected =>
                ~ValidStep(l) /\ sim # "run" /\ env[l].info.uid = agent[l].pkt
  <1>1. Reading(l) /\ Records(l)
    BY DEF Body, Learning, LeafLearning, Between, Reading, Deciding, Decided, Over
  <1>2. Seen(l) /\ Waiting(l)
    BY <1>1 DEF Reading
  <1>3. Len(decided[l]) \in Nat /\ (decided[l] = <<>> <=> Len(decided[l]) = 0)
    BY DecisionsAreTyped
  <1>4. /\ env[l].connected \in BOOLEAN /\ env[l].info.applied \in BOOLEAN
        /\ mgr[l].applied \in BOOLEAN
    BY ForwarderIsTyped, TypeParts DEF RecordTypes
  <1>5. CASE env[l].connected
    <2>1. /\ sim = "run" /\ created # NoPacket /\ env[l].obs = created
          /\ env[l].info.uid = created /\ env[l].info.applied = mgr[l].applied
          /\ env[l].info.seq = mgr[l].seq
      BY <1>2, <1>5 DEF Seen, PresentInfo
    <2>2. ~IsCtrl(l)
      BY <2>1 DEF IsCtrl
    <2>3. ValidStep(l) <=> mgr[l].applied
      BY <1>4, <1>5, <2>1, <2>2 DEF ValidStep
    <2>4. mgr[l].applied <=> decided[l] # <<>> /\ decided[l][Len(decided[l])].applied
      BY <1>1, <1>3 DEF Records
    <2>5. mgr[l].seq = Len(decided[l])
      BY DEF Numbers
    <2> QED BY <1>1, <1>2, <1>5, <2>1, <2>2, <2>3, <2>4, <2>5
  <1>6. CASE ~env[l].connected
    BY <1>1, <1>2, <1>6 DEF Seen, ValidStep
  <1> QED BY <1>5, <1>6

\* The transition of a valid state is the one of the last decision.
LEMMA BodyAligned ==
    ASSUME BridgeTypeOK, Numbers, Learning, Simulating, NEW l \in Leaves, Body(l),
           env[l].connected
    PROVE  AlignedNow(l)'
  <1> DEFINE n == Len(decided[l])
             f == [i \in 1..n |-> Decision(decided[l][i], Successor(l, i))]
  <1>1. /\ UNCHANGED <<sim, created, decided>>
        /\ written' = IF ValidStep(l) /\ DecisionState(l, agent[l].prev)
                      THEN [written EXCEPT ![l] = Append(written[l], Transition(l))]
                      ELSE written
    BY DEF Body, simVars
  <1>2. /\ n \in Nat /\ decided[l] \in Seq(DecisionRecord)
        /\ decided[l] = <<>> <=> n = 0
        /\ written[l] \in Seq(TransitionRecord)
    BY DecisionsAreTyped
  <1>3. /\ Waiting(l) /\ Records(l) /\ env[l].obs = created
        /\ ValidStep(l) <=> n > 0 /\ decided[l][n].applied
    BY <1>2, ReadingIs
  <1>4. Aligned(l)
    BY <1>3 DEF Waiting
  <1>5. \A i \in Known(l) : i \in 1..n /\ i # n /\ f[i] = Decision(decided[l][i], decided[l][i + 1].uid)
    BY <1>2 DEF Known, Successor
  <1>6. Known(l) \subseteq 1..(n - 1)
    BY DEF Known
  <1>7. \A i \in Known(l) : written[l][Rank(Known(l), i)] = f[i]
    BY <1>4, <1>5 DEF Aligned
  <1>8. \A i \in 1..n : f[i] = Decision(decided[l][i], Successor(l, i))
    OBVIOUS
  <1>9. KnownNow(l)' = KnownNow(l) /\ \A i : Successor(l, i)' = Successor(l, i)
    BY <1>1 DEF KnownNow, Successor
  <1> HIDE DEF f, n
  <1>10. CASE ValidStep(l)
    <2>1. n > 0 /\ n \in Nat \ {0} /\ decided[l][n].applied /\ n \in 1..n
      BY <1>2, <1>3, <1>10
    <2>2. /\ agent[l].prev = decided[l][n].uid /\ agent[l].action = decided[l][n].act
          /\ decided[l][n].uid # NoPacket
      BY <1>2, <1>3, <2>1 DEF Waiting, Latest, Records, n
    <2>3. Transition(l) = f[n]
      BY <1>3, <1>8, <2>1, <2>2 DEF Transition, Decision, Successor, n
    <2>4. written'[l] = Append(written[l], Transition(l))
      BY <1>1, <1>10, <2>2 DEF DecisionState, BridgeTypeOK
    <2>5. Transition(l) \in TransitionRecord
      BY ForwarderIsTyped, TypeParts DEF Transition, TransitionRecord
    <2>6. KnownNow(l) = Known(l) \cup {n}
      <3>1. \A i : i \in 1..n <=> i \in 1..(n - 1) \/ i = n
        BY <2>1
      <3>2. \A i : i \in KnownNow(l) <=> i \in 1..n /\ decided[l][i].applied
        BY DEF KnownNow, n
      <3>3. \A i : i \in Known(l) <=> i \in 1..(n - 1) /\ decided[l][i].applied
        BY DEF Known, n
      <3>4. \A i : i \in KnownNow(l) <=> i \in Known(l) \cup {n}
        BY <2>1, <3>1, <3>2, <3>3
      <3> QED BY <3>4 DEF KnownNow
    <2>7. /\ Len(Append(written[l], Transition(l))) = Cardinality(Known(l) \cup {n})
          /\ \A i \in Known(l) \cup {n} :
               Append(written[l], Transition(l))[Rank(Known(l) \cup {n}, i)] = f[i]
      <3> DEFINE S == Known(l)
                 w == written[l]
                 x == Transition(l)
      <3>1. S \in SUBSET (1..(n - 1)) /\ Len(w) = Cardinality(S) /\ n - 1 \in Nat
        BY <1>4, <1>6, <2>1 DEF Aligned
      <3>2. w \in Seq(TransitionRecord) /\ x \in TransitionRecord /\ x = f[n]
        BY <1>2, <2>3, <2>5
      <3>3. \A i \in S : w[Rank(S, i)] = f[i]
        BY <1>7
      <3> HIDE DEF S, w, x
      <3>4. /\ Len(Append(w, x)) = Len(w) + 1
            /\ \A j \in 1..Len(w) : Append(w, x)[j] = w[j]
            /\ Append(w, x)[Len(w) + 1] = x
        BY <3>2, AppendProperties
      <3>5. /\ Cardinality(S \cup {n}) = Cardinality(S) + 1
            /\ Rank(S \cup {n}, n) = Cardinality(S) + 1
            /\ \A i \in S : Rank(S \cup {n}, i) = Rank(S, i)
        BY <2>1, <3>1, RankNext
      <3>6. ASSUME NEW i \in S PROVE Append(w, x)[Rank(S \cup {n}, i)] = f[i]
        <4>1. Rank(S, i) \in 1..Cardinality(S)
          BY <3>1, RankInside
        <4>2. Append(w, x)[Rank(S, i)] = w[Rank(S, i)]
          BY <3>1, <3>4, <4>1
        <4> QED BY <3>3, <3>5, <4>2
      <3>7. Append(w, x)[Rank(S \cup {n}, n)] = f[n]
        BY <3>1, <3>2, <3>4, <3>5
      <3>8. /\ Len(Append(w, x)) = Cardinality(S \cup {n})
            /\ \A i \in S \cup {n} : Append(w, x)[Rank(S \cup {n}, i)] = f[i]
        BY <3>1, <3>4, <3>5, <3>6, <3>7
      <3> QED BY <3>8 DEF S, w, x
    <2>8. \A i \in KnownNow(l) : i \in 1..n
      BY DEF KnownNow, n
    <2>9. /\ Len(written'[l]) = Cardinality(KnownNow(l))
          /\ \A i \in KnownNow(l) :
               written'[l][Rank(KnownNow(l), i)] = Decision(decided[l][i], Successor(l, i))
      BY <1>8, <2>4, <2>6, <2>7, <2>8
    <2> QED BY <1>1, <1>9, <2>9 DEF AlignedNow, Rank, Decision
  <1>11. CASE ~ValidStep(l)
    <2>1. KnownNow(l) = Known(l)
      <3>1. \A i : i \in 1..n <=> i \in 1..(n - 1) \/ (i = n /\ n > 0)
        BY <1>2
      <3>2. \A i : i \in KnownNow(l) <=> i \in 1..n /\ decided[l][i].applied
        BY DEF KnownNow, n
      <3>3. \A i : i \in Known(l) <=> i \in 1..(n - 1) /\ decided[l][i].applied
        BY DEF Known, n
      <3>4. \A i : i \in KnownNow(l) <=> i \in Known(l)
        BY <1>3, <1>11, <3>1, <3>2, <3>3
      <3> QED BY <3>4 DEF KnownNow, Known
    <2>2. written' = written
      BY <1>1, <1>11
    <2>3. /\ Len(written'[l]) = Cardinality(KnownNow(l))
          /\ \A i \in KnownNow(l) :
               written'[l][Rank(KnownNow(l), i)] = Decision(decided[l][i], Successor(l, i))
      BY <1>4, <1>5, <1>7, <1>8, <2>1, <2>2 DEF Aligned
    <2> QED BY <1>1, <1>9, <2>3 DEF AlignedNow, Rank, Decision
  <1> QED BY <1>10, <1>11

\* The numbers a forwarder remembers, and the jumps it counts.
LEMMA BodyNumbers ==
    ASSUME BridgeTypeOK, Numbers, Learning, Simulating, NEW l \in Leaves, Body(l)
    PROVE  /\ Records(l)'
           /\ env[l].connected => RefusedSince(l, 0)'
  <1> DEFINE n == Len(decided[l])
  <1>1. /\ UNCHANGED <<mgr, decided>> /\ agent' = [agent EXCEPT ![l] = Iterated(l)]
    BY DEF Body, simVars
  <1>2. /\ n \in Nat /\ (decided[l] = <<>> <=> n = 0)
        /\ \A i \in 1..n : decided[l][i].applied \in BOOLEAN
    BY DecisionsAreTyped
  <1>3. /\ Waiting(l) /\ Records(l)
        /\ env[l].connected => /\ env[l].info.seq = n
                               /\ ValidStep(l) <=> n > 0 /\ decided[l][n].applied
        /\ ~env[l].connected => ~ValidStep(l)
    BY <1>2, ReadingIs
  <1>4. agent'[l] = Iterated(l)
    BY <1>1 DEF BridgeTypeOK
  <1>5. /\ ValidStep(l) => agent'[l].lastSeq = env[l].info.seq
        /\ ~ValidStep(l) => agent'[l].lastSeq = agent[l].lastSeq
        /\ SeqMismatch(l) => agent'[l].mismatches = agent[l].mismatches + 1
        /\ ~SeqMismatch(l) => agent'[l].mismatches = agent[l].mismatches
    BY <1>4, IteratedIs, TypeParts
  <1>6. agent[l].lastSeq \in Nat /\ agent[l].mismatches \in Nat /\ agent[l].lastSeq <= n
    BY <1>3, ForwarderIsTyped, TypeParts DEF Records
  <1>7. n > 0 => agent[l].lastSeq < n
    BY <1>2, <1>3 DEF Waiting
  <1>8. \A i \in 1..(n - 1) : agent[l].lastSeq < i => ~decided[l][i].applied
    BY <1>3 DEF Waiting, RefusedSince
  <1>9. agent[l].mismatches > 0 => \E i \in 1..n : ~decided[l][i].applied
    BY <1>3 DEF Records
  <1> HIDE DEF n
  <1>10. SeqMismatch(l) => \E i \in 1..n : ~decided[l][i].applied
    <2> SUFFICES ASSUME SeqMismatch(l) PROVE \E i \in 1..n : ~decided[l][i].applied
      OBVIOUS
    <2>1. ValidStep(l) /\ agent[l].lastSeq # 0 /\ env[l].info.seq # agent[l].lastSeq + 1
      BY DEF SeqMismatch
    <2>2. n > 0 /\ n # agent[l].lastSeq + 1
      BY <1>3, <2>1
    <2>3. n - 1 \in 1..(n - 1) /\ agent[l].lastSeq < n - 1 /\ n - 1 \in 1..n
      BY <1>2, <1>6, <1>7, <2>1, <2>2
    <2> QED BY <1>8, <2>3
  <1>11. agent'[l].mismatches > 0 => \E i \in 1..n : ~decided[l][i].applied
    BY <1>5, <1>9, <1>10
  <1>12. agent'[l].lastSeq <= n
    BY <1>2, <1>3, <1>5, <1>6
  <1>13. Records(l)'
    <2>1. /\ mgr[l].applied <=> n > 0 /\ decided[l][n].applied
          /\ \A i \in 1..n : decided[l][i].uid # NoPacket
      BY <1>3 DEF Records, n
    <2> QED BY <1>1, <1>11, <1>12, <2>1 DEF Records, n
  <1>14. ASSUME env[l].connected PROVE RefusedSince(l, 0)'
    <2>1. ASSUME NEW i \in 1..n, agent'[l].lastSeq < i PROVE ~decided[l][i].applied
      <3>1. CASE ValidStep(l)
        BY <1>2, <1>3, <1>5, <1>14, <2>1, <3>1
      <3>2. CASE ~ValidStep(l)
        <4>1. agent[l].lastSeq < i
          BY <1>5, <2>1, <3>2
        <4>2. CASE i = n
          BY <1>2, <1>3, <1>14, <3>2, <4>2
        <4>3. CASE i # n
          <5>1. i \in 1..(n - 1)
            BY <1>2, <4>3
          <5> QED BY <1>8, <4>1, <5>1
        <4> QED BY <4>2, <4>3
      <3> QED BY <3>1, <3>2
    <2>2. Len(decided[l]) - 0 = n
      BY <1>2 DEF n
    <2> QED BY <1>1, <2>1, <2>2 DEF RefusedSince
  <1> QED BY <1>13, <1>14

LEMMA BodyLearning ==
    ASSUME BridgeTypeOK, Numbers, Control, Learning, Simulating, NEW l \in Leaves, Body(l)
    PROVE  Learning'
  <1>1. /\ UNCHANGED <<sim, simLeaf, awaiting, created, mgr, decided, toPy, toSim, env>>
        /\ agent' = [agent EXCEPT ![l] = Iterated(l)]
        /\ fwd' = [fwd EXCEPT ![l] = IF env[l].connected THEN "top" ELSE "closing"]
        /\ written' = written \/ written' = [written EXCEPT ![l] = Append(@, Transition(l))]
        /\ ~ValidStep(l) => written' = written
    BY DEF Body, simVars, sockVars
  <1>2. awaiting /\ simLeaf = l
    BY BodyControl
  <1>3. /\ agent'[l] = Iterated(l)
        /\ fwd'[l] = IF env[l].connected THEN "top" ELSE "closing"
        /\ \A k \in Leaves : k # l =>
             agent'[k] = agent[k] /\ fwd'[k] = fwd[k] /\ written'[k] = written[k]
    <2>1. /\ agent'[l] = Iterated(l) /\ \A k \in Leaves : k # l => agent'[k] = agent[k]
      BY <1>1 DEF BridgeTypeOK
    <2>2. /\ fwd'[l] = IF env[l].connected THEN "top" ELSE "closing"
          /\ \A k \in Leaves : k # l => fwd'[k] = fwd[k]
      BY <1>1 DEF BridgeTypeOK
    <2>3. \A k \in Leaves : k # l => written'[k] = written[k]
      BY <1>1 DEF BridgeTypeOK
    <2> QED BY <2>1, <2>2, <2>3
  <1>4. /\ agent'[l].pkt = env[l].info.uid /\ agent'[l].steps = 1
        /\ agent'[l].signaling = IsCtrl(l) /\ agent'[l].counted = agent[l].counted
    BY <1>3, IteratedIs, TypeParts
  <1>5. Waiting(l)
    BY ReadingIs
  <1>6. Records(l)'
    BY BodyNumbers
  <1>7. LeafLearning(l)'
    <2>1. CASE env[l].connected
      <3>1. Deciding(l)'
        <4>1. /\ sim = "run" /\ created # NoPacket /\ env[l].obs = created
              /\ env[l].info.uid = created /\ ~IsCtrl(l)
          BY <2>1, ReadingIs
        <4>2. AlignedNow(l)' /\ RefusedSince(l, 0)'
          BY <2>1, BodyAligned, BodyNumbers
        <4>3. Learned(l)'
          BY <1>1, <1>4, <2>1, <4>1, <4>2 DEF Learned
        <4>4. agent'[l].counted = Len(decided'[l])
          BY <1>1, <1>4, <1>5 DEF Waiting
        <4> QED BY <1>1, <1>3, <1>4, <2>1, <4>3, <4>4 DEF Deciding
      <3> QED BY <1>6, <3>1 DEF LeafLearning
    <2>2. CASE ~env[l].connected
      <3>1. sim # "run" /\ ~ValidStep(l)
        BY <2>2, ReadingIs
      <3>2. written' = written
        BY <1>1, <3>1
      <3>3. Aligned(l)'
        <4>1. Known(l)' = Known(l)
          BY <1>1 DEF Known
        <4> QED BY <1>1, <1>5, <3>2, <4>1 DEF Waiting, Aligned, Rank, Decision
      <3>4. Over(l)'
        BY <1>1, <1>3, <1>4, <1>5, <2>2, <3>1, <3>3 DEF Over, Ended, Waiting
      <3> QED BY <1>6, <3>4 DEF LeafLearning
    <2> QED BY <2>1, <2>2
  <1>8. \A k \in Leaves : k # l => SameLeaf(k) /\ toPy'[k] = toPy[k] /\ toSim'[k] = toSim[k]
    BY <1>1, <1>3 DEF SameLeaf
  <1>9. Simulating'
    BY <1>1 DEF Simulating
  <1> QED BY <1>1, <1>2, <1>7, <1>8, <1>9, OthersKept DEF Control


-----------------------------------------------------------------------------
(* Learning: everything.                                                   *)

LEMMA InitLearning == Init => Learning /\ Tracking
  BY DEF Init, Learning, Tracking, Simulating

\* The main thread and a crash touch no leaf of a simulation that runs.
LEMMA OtherLearning ==
    ASSUME BridgeTypeOK, Control, Learning, Main \/ SimCrash \/ UNCHANGED vars, Simulating'
    PROVE  /\ Simulating
           /\ UNCHANGED <<sim, created, mgr, decided, fwd, env, agent, written, tracking, temp>>
           /\ Learning'
  <1>1. ~RunNs3 /\ ~SimCrash
    BY DEF RunNs3, SimCrash, Simulating
  <1>2. ~StartForwarder /\ ~InitializeEnv
    <2>1. ASSUME StartForwarder PROVE FALSE
      <3>1. sim \in {"first", "error", "killed"} /\ sim' = sim
        BY <2>1, StartForwarderControl DEF StartForwarder, simVars
      <3> QED BY <3>1 DEF Simulating
    <2>2. ASSUME InitializeEnv PROVE FALSE
      <3>1. main = "handshake" /\ sim' = sim
        BY <2>2 DEF InitializeEnv, simVars
      <3>2. SetupBefore
        BY <3>1 DEF Control, Setup, Before
      <3> QED BY <3>1, <3>2 DEF Simulating, SetupBefore
    <2> QED BY <2>1, <2>2
  <1>3. ~Bind
    <2>1. ASSUME Bind PROVE FALSE
      <3>1. main = "bind" /\ sim' = sim
        BY <2>1 DEF Bind, simVars
      <3>2. SetupBefore
        BY <3>1 DEF Control, Setup, Before
      <3> QED BY <3>1, <3>2 DEF Simulating, SetupBefore
    <2> QED BY <2>1
  <1>4. /\ UNCHANGED <<sim, created, mgr, decided, fwd, env, agent, written, tracking, temp>>
        /\ UNCHANGED <<toPy, toSim>>
    <2>1. CASE BindFails \/ CloseEnvs \/ Reap \/ ReapFails \/ Exit
      BY <2>1 DEF BindFails, CloseEnvs, Reap, ReapFails, Exit, simVars, sockVars, fwdVars,
                  sharedVars
    <2>2. CASE StopOwnedProcess
      BY <2>2 DEF StopOwnedProcess, Simulating, sockVars, fwdVars, sharedVars
    <2>3. CASE UNCHANGED vars
      BY <2>3 DEF vars, simVars, sockVars, fwdVars, sharedVars
    <2> QED BY <1>1, <1>2, <1>3, <2>1, <2>2, <2>3 DEF Main
  <1>5. Simulating
    BY <1>4 DEF Simulating
  <1>6. ASSUME NEW k \in Leaves PROVE LeafLearning(k)'
    BY <1>4, <1>5, LeafKept DEF Learning, SameLeaf
  <1> QED BY <1>4, <1>5, <1>6 DEF Learning

LEMMA ForwarderLearning ==
    ASSUME BridgeTypeOK, Numbers, Control, Learning, NEW l \in Leaves, Forwarder(l)
    PROVE  Learning'
  <1> SUFFICES ASSUME Simulating' PROVE Learning'
    BY DEF Learning
  <1>1. Simulating
    BY DEF Simulating, Forwarder, StepSend, Receive, Body, CloseCommand, simVars
  <1> QED BY <1>1, StepSendLearning, ReceiveLearning, BodyLearning, CloseCommandLearning
          DEF Forwarder

LEMMA NextLearning ==
    ASSUME BridgeTypeOK, Numbers, Control, Starting, Learning, [Next]_vars
    PROVE  Learning'
  <1>1. CASE Main \/ SimCrash \/ UNCHANGED vars
    BY <1>1, OtherLearning DEF Learning
  <1>2. CASE Simulator
    <2>1. CASE SimInit \/ SimInitAcked \/ SimFirst
      <3>1. ~Simulating'
        BY <2>1 DEF SimInit, SimInitAcked, SimFirst, Simulating
      <3> QED BY <3>1 DEF Learning
    <2> QED BY <1>2, <2>1, SimFirstActionLearning, SimSendLearning, SimEndLearning,
               SimEndReplyLearning, SimActionLearning DEF Simulator
  <1>3. ASSUME NEW l \in Leaves, Forwarder(l) PROVE Learning'
    BY <1>3, ForwarderLearning
  <1> QED BY <1>1, <1>2, <1>3 DEF Next, Done

\* At rest a leaf waits for its next message or has had its last one.
LEMMA RestingLeaf ==
    ASSUME Learning, NEW l \in Leaves, AtRest(l)
    PROVE  Records(l) /\ Aligned(l) /\ agent[l].counted = Len(decided[l])
  <1>1. Simulating /\ fwd[l] \in {"receive", "done"} /\ toSim[l] = <<>>
    BY DEF AtRest, Simulating
  <1>2. Records(l) /\ (Between(l) \/ Over(l))
    BY <1>1 DEF Learning, LeafLearning, Reading, Deciding, Decided
  <1> QED BY <1>2 DEF Between, Over, Waiting, Ended

-----------------------------------------------------------------------------
(* The tracked packets.                                                    *)

\* Leaf l's action for packet u was refused.
RefusedAt(l, u) ==
    \E i \in DOMAIN decided[l] : decided[l][i].uid = u /\ ~decided[l][i].applied

LEMMA RefusedIs ==
    ASSUME NEW u
    PROVE  /\ u \in Refused <=> \E l \in Leaves : RefusedAt(l, u)
           /\ u \in Refused' <=> \E l \in Leaves : RefusedAt(l, u)'
  <1>1. \A l \in Leaves : \A d :
          /\ d \in Range(decided[l]) <=> \E i \in DOMAIN decided[l] : decided[l][i] = d
          /\ d \in Range(decided[l])' <=> \E i \in DOMAIN decided'[l] : decided'[l][i] = d
    BY DEF Range
  <1>2. u \in Refused <=> \E l \in Leaves : \E d \in Range(decided[l]) : d.uid = u /\ ~d.applied
    BY DEF Refused
  <1>3. u \in Refused' <=>
          \E l \in Leaves : \E d \in Range(decided[l])' : d.uid = u /\ ~d.applied
    BY DEF Refused
  <1>4. \A l \in Leaves :
          RefusedAt(l, u) <=> \E d \in Range(decided[l]) : d.uid = u /\ ~d.applied
    BY <1>1 DEF RefusedAt
  <1>5. \A l \in Leaves :
          RefusedAt(l, u)' <=> \E d \in Range(decided[l])' : d.uid = u /\ ~d.applied
    BY <1>1 DEF RefusedAt
  <1> QED BY <1>2, <1>3, <1>4, <1>5

\* The packet has a reason to be tracked.
Covered(u) ==
    u \in Range(temp) \/ (\E l \in Leaves : u = agent[l].pkt) \/ u \in Refused

LEMMA TrackingIs ==
    Tracking <=> (Simulating => \A u \in tracking : u # NoPacket /\ Covered(u))
  BY DEF Tracking, Covered

\* A step that tracks nothing new keeps what it does not forget.
LEMMA TrackingKept ==
    ASSUME Tracking, Simulating, UNCHANGED <<tracking, temp, decided>>,
           \A l \in Leaves : agent'[l].pkt = agent[l].pkt
    PROVE  Tracking'
  <1>1. Refused' = Refused
    BY DEF Refused
  <1> QED BY <1>1 DEF Tracking

LEMMA SimActionTracking ==
    ASSUME BridgeTypeOK, Numbers, Tracking, SimAction
    PROVE  Tracking'
  <1> DEFINE d == [uid |-> created, act |-> Head(toSim[simLeaf]).act,
                   applied |-> Head(toSim[simLeaf]).act \notin DeadActions]
             ds == Append(decided[simLeaf], d)
             n == Len(decided[simLeaf])
  <1>1. /\ d \in DecisionRecord /\ simLeaf \in Leaves
        /\ decided' = [decided EXCEPT ![simLeaf] = ds]
    BY SimActionEffect DEF DecisionRecord
  <1> HIDE DEF d
  <1>2. decided[simLeaf] \in Seq(DecisionRecord) /\ n \in Nat
        /\ DOMAIN decided[simLeaf] = 1..n
    BY <1>1, DecisionsAreTyped, LenProperties
  <1>3. /\ Len(ds) = n + 1 /\ \A i \in 1..n : ds[i] = decided[simLeaf][i]
        /\ ds \in Seq(DecisionRecord)
    BY <1>1, <1>2, AppendProperties
  <1>4. DOMAIN ds = 1..(n + 1)
    BY <1>3, LenProperties
  <1> HIDE DEF ds
  <1>5. decided'[simLeaf] = ds /\ \A l \in Leaves : l # simLeaf => decided'[l] = decided[l]
    BY <1>1 DEF BridgeTypeOK
  <1>6. ASSUME NEW l \in Leaves, NEW u, RefusedAt(l, u) PROVE RefusedAt(l, u)'
    <2>1. CASE l = simLeaf
      <3>1. PICK i \in 1..n : decided[simLeaf][i].uid = u /\ ~decided[simLeaf][i].applied
        BY <1>2, <1>6, <2>1 DEF RefusedAt
      <3>2. i \in 1..(n + 1)
        BY <1>2
      <3> QED BY <1>3, <1>4, <1>5, <2>1, <3>1, <3>2 DEF RefusedAt
    <2>2. CASE l # simLeaf
      BY <1>5, <1>6, <2>2 DEF RefusedAt
    <2> QED BY <2>1, <2>2
  <1>7. \A u : u \in Refused => u \in Refused'
    BY <1>6, RefusedIs
  <1>8. sim = "run" /\ UNCHANGED <<tracking, temp, agent>> /\ Simulating
    BY DEF SimAction, fwdVars, sharedVars, Simulating
  <1> QED BY <1>7, <1>8 DEF Tracking


\* Pruning forgets a packet with its entry.
LEMMA StepSendTracking ==
    ASSUME BridgeTypeOK, Tracking, NEW l \in Leaves, StepSend(l)
    PROVE  Tracking'
  <1>1. PICK a : agent' = [agent EXCEPT ![l] =
                     [agent[l] EXCEPT !.prev = env[l].obs, !.action = a,
                        !.counted = IF TakesAction(l) THEN agent[l].counted + 1
                                                      ELSE agent[l].counted]]
    BY StepSendEffect
  <1>2. UNCHANGED simVars
    BY StepSendEffect
  <1>3. UNCHANGED <<sim, decided>> /\ agent[l] \in AgentState
    BY <1>2, ForwarderIsTyped, TypeParts DEF simVars
  <1>4. \A k \in Leaves : agent'[k].pkt = agent[k].pkt
    <2>1. agent'[l].pkt = agent[l].pkt
      <3> DEFINE c == IF TakesAction(l) THEN agent[l].counted + 1 ELSE agent[l].counted
      <3> HIDE DEF c
      <3>1. agent'[l] = [agent[l] EXCEPT !.prev = env[l].obs, !.action = a, !.counted = c]
        BY <1>1 DEF BridgeTypeOK, c
      <3> QED BY <1>3, <3>1 DEF AgentState
    <2>2. \A k \in Leaves : k # l => agent'[k] = agent[k]
      BY <1>1 DEF BridgeTypeOK
    <2> QED BY <2>1, <2>2
  <1>5. Refused' = Refused /\ (Simulating' <=> Simulating)
    BY <1>3 DEF Refused, Simulating
  <1>6. CASE UNCHANGED sharedVars
    BY <1>4, <1>5, <1>6 DEF Tracking, sharedVars
  <1>7. CASE /\ temp' = SubSeq(temp, Len(Pruned) + 1, Len(temp))
             /\ tracking' = tracking \ Forgotten
    <2>1. Range(temp) \subseteq Range(temp') \cup Forgotten
      BY <1>7, PrunedKeeps, TypeParts
    <2>2. {agent'[k].pkt : k \in Leaves} = {agent[k].pkt : k \in Leaves}
      BY <1>4
    <2>3. ASSUME Simulating', NEW u \in tracking'
          PROVE  /\ u # NoPacket
                 /\ u \in Range(temp') \cup {agent'[k].pkt : k \in Leaves} \cup Refused'
      BY <1>5, <1>7, <2>1, <2>2, <2>3 DEF Tracking
    <2> QED BY <2>3 DEF Tracking
  <1> QED BY <1>6, <1>7, StepSendEffect

\* The packet a forwarder turns away from is in temp_obs, or its action was
\* refused.
LEMMA BodyTracking ==
    ASSUME BridgeTypeOK, Numbers, Learning, Tracking, Simulating, NEW l \in Leaves, Body(l)
    PROVE  Tracking'
  <1>1. /\ UNCHANGED <<sim, created, decided>> /\ agent' = [agent EXCEPT ![l] = Iterated(l)]
        /\ ValidStep(l) =>
             /\ tracking' = Tracked(l)
             /\ temp' = IF StoresState(l) THEN Stored(Untransited(l), agent[l].pkt)
                                          ELSE Untransited(l)
        /\ ~ValidStep(l) => UNCHANGED <<tracking, temp>>
    BY DEF Body, simVars, sharedVars
  <1>2. /\ agent'[l].pkt = env[l].info.uid
        /\ \A k \in Leaves : k # l => agent'[k].pkt = agent[k].pkt
    <2>1. agent'[l] = Iterated(l) /\ \A k \in Leaves : k # l => agent'[k] = agent[k]
      BY <1>1 DEF BridgeTypeOK
    <2> QED BY <2>1, IteratedIs, TypeParts
  <1>3. Refused' = Refused
    BY <1>1 DEF Refused
  <1>4. /\ Waiting(l) /\ Records(l)
        /\ Len(decided[l]) \in Nat /\ (decided[l] = <<>> <=> Len(decided[l]) = 0)
        /\ DOMAIN decided[l] = 1..Len(decided[l])
    BY ReadingIs, DecisionsAreTyped, LenProperties
  <1>5. CASE ValidStep(l)
    <2>1. env[l].connected
      BY <1>5 DEF ValidStep
    <2>2. /\ env[l].info.uid # NoPacket /\ decided[l] # <<>>
      BY <1>5, <2>1, ReadingIs
    <2>3. agent[l].prev = agent[l].pkt /\ agent[l].pkt # NoPacket /\ ~agent[l].signaling
      BY <1>4, <2>2 DEF Waiting, Latest, Records
    <2>4. StoresState(l)
      BY <2>3 DEF StoresState, DecisionState
    <2>5. temp' = Stored(Untransited(l), agent[l].pkt)
          /\ tracking' = tracking \cup {env[l].info.uid}
      BY <1>1, <1>5, <2>4 DEF Tracked
    <2>6. temp \in Seq(Uids) /\ agent[l].pkt \in Uids
      BY ForwarderIsTyped, TypeParts DEF SharedTypes
    <2>7. Untransited(l) \in Seq(Uids)
          /\ Range(temp) \subseteq Range(Untransited(l)) \cup {env[l].info.uid}
      BY <2>6, PoppedKeeps DEF Untransited
    <2>8. /\ Range(Untransited(l)) \subseteq Range(temp') /\ agent[l].pkt \in Range(temp')
      BY <2>5, <2>6, <2>7, StoredKeeps
    <2>9. ASSUME NEW u \in tracking'
          PROVE  /\ u # NoPacket
                 /\ u \in Range(temp') \cup {agent'[k].pkt : k \in Leaves} \cup Refused'
      <3>1. CASE u = env[l].info.uid
        BY <1>2, <2>2, <3>1
      <3>2. CASE u # env[l].info.uid
        <4>1. u \in tracking
          BY <2>5, <3>2
        <4>2. u # NoPacket /\ u \in Range(temp) \cup {agent[k].pkt : k \in Leaves} \cup Refused
          BY <4>1 DEF Tracking
        <4>3. ASSUME NEW k \in Leaves, u = agent[k].pkt
              PROVE  u \in Range(temp') \cup {agent'[j].pkt : j \in Leaves}
          BY <1>2, <2>8, <4>3
        <4> QED BY <1>3, <2>7, <2>8, <3>2, <4>2, <4>3
      <3> QED BY <3>1, <3>2
    <2> QED BY <2>9 DEF Tracking
  <1>6. CASE ~ValidStep(l)
    <2>1. UNCHANGED <<tracking, temp>>
      BY <1>1, <1>6
    <2>2. ASSUME NEW u \in tracking, u = agent[l].pkt
          PROVE  u \in {agent'[k].pkt : k \in Leaves} \cup Refused
      <3>1. CASE env[l].connected
        <4>1. u # NoPacket /\ u = Latest(l)
          BY <1>4, <2>2 DEF Tracking, Waiting
        <4>2. decided[l] # <<>> /\ u = decided[l][Len(decided[l])].uid
          BY <4>1 DEF Latest
        <4>3. ~decided[l][Len(decided[l])].applied
          BY <1>6, <3>1, <4>2, ReadingIs
        <4>4. Len(decided[l]) \in DOMAIN decided[l]
          BY <1>4, <4>2
        <4>5. RefusedAt(l, u)
          BY <4>2, <4>3, <4>4 DEF RefusedAt
        <4> QED BY <4>5, RefusedIs
      <3>2. CASE ~env[l].connected
        <4>1. env[l].info.uid = agent[l].pkt
          BY <3>2, ReadingIs
        <4> QED BY <1>2, <2>2, <4>1
      <3> QED BY <3>1, <3>2
    <2>3. ASSUME NEW u \in tracking'
          PROVE  /\ u # NoPacket
                 /\ u \in Range(temp') \cup {agent'[k].pkt : k \in Leaves} \cup Refused'
      <3>1. /\ u \in tracking /\ u # NoPacket
            /\ u \in Range(temp) \cup {agent[k].pkt : k \in Leaves} \cup Refused
        BY <2>1, <2>3 DEF Tracking
      <3>2. ASSUME NEW k \in Leaves, u = agent[k].pkt
            PROVE  u \in {agent'[j].pkt : j \in Leaves} \cup Refused
        BY <1>2, <2>2, <3>1, <3>2
      <3> QED BY <1>3, <2>1, <3>1, <3>2
    <2> QED BY <2>3 DEF Tracking
  <1> QED BY <1>5, <1>6

LEMMA NextTracking ==
    ASSUME BridgeTypeOK, Numbers, Control, Starting, Learning, Tracking, [Next]_vars
    PROVE  Tracking'
  <1>1. CASE Main \/ SimCrash \/ UNCHANGED vars
    <2>1. ASSUME Simulating' PROVE Tracking'
      BY <1>1, <2>1, OtherLearning, TrackingKept
    <2> QED BY <2>1 DEF Tracking
  <1>2. CASE Simulator
    <2>1. CASE SimInit \/ SimInitAcked \/ SimFirst
      BY <2>1 DEF SimInit, SimInitAcked, SimFirst, Simulating, Tracking
    <2>2. CASE SimFirstAction
      <3>1. tracking' = {}
        BY <2>2, SimFirstActionStarting DEF SimFirstAction, sharedVars
      <3> QED BY <3>1 DEF Tracking
    <2>3. CASE SimEnd \/ SimEndSend \/ SimEndReply \/ \E l \in Leaves : SimDecision(l)
      BY <2>3, TrackingKept
         DEF SimEnd, SimEndSend, SimEndReply, SimDecision, Simulating, fwdVars, sharedVars
    <2> QED BY <1>2, <2>1, <2>2, <2>3, SimActionTracking DEF Simulator
  <1>3. ASSUME NEW l \in Leaves, Forwarder(l) PROVE Tracking'
    <2>1. CASE StepSend(l)
      BY <2>1, StepSendTracking
    <2>2. CASE Body(l)
      <3>1. Simulating' => Simulating
        BY <2>2 DEF Body, simVars, Simulating
      <3>2. ~Simulating' => Tracking'
        BY DEF Tracking
      <3> QED BY <2>2, <3>1, <3>2, BodyTracking
    <2>3. CASE Receive(l) \/ CloseCommand(l)
      <3>1. /\ UNCHANGED <<sim, tracking, temp, decided, agent>>
        BY <2>3 DEF Receive, CloseCommand, simVars, sharedVars
      <3>2. ASSUME Simulating' PROVE Tracking'
        BY <3>1, <3>2, TrackingKept DEF Simulating
      <3> QED BY <3>2 DEF Tracking
    <2> QED BY <1>3, <2>1, <2>2, <2>3 DEF Forwarder
  <1> QED BY <1>1, <1>2, <1>3 DEF Next, Done

\* The inductive invariant.
THEOREM BridgeInvariant == Spec => []IInv
  <1> DEFINE Inv == BridgeTypeOK /\ Numbers /\ Control /\ Starting /\ Learning /\ Tracking
  <1>1. Init => Inv
    BY InitTypes, InitControl, InitStarting, InitLearning
  <1>2. Inv /\ [Next]_vars => Inv'
    BY NextTypes, NextControl, NextStarting, NextLearning, NextTracking
  <1>3. Inv => IInv
    BY DEF IInv, Control
  <1> HIDE DEF Inv
  <1> QED BY <1>1, <1>2, <1>3, PTL DEF Spec

\* Whatever the interleaving of the leaves, whichever actions are refused and
\* however the simulation ends: every transition in the replay buffer joins a
\* packet, the action executed for it and the packet of the leaf's next
\* decision; none is stored twice and none is missing.
THEOREM TransitionsAreAligned == Spec => []TransitionsAligned
  <1>1. IInv => TransitionsAligned
    BY RestingLeaf DEF IInv, TransitionsAligned
  <1> QED BY <1>1, BridgeInvariant, PTL

\* The policy's counters are the simulator's decisions, and a jump of the action
\* number reports a refusal.
THEOREM DiagnosticsAreExact == Spec => []DiagnosticsExact
  <1>1. ASSUME BridgeTypeOK, Learning PROVE DiagnosticsExact
    <2>1. SUFFICES ASSUME NEW l \in Leaves, AtRest(l)
                   PROVE  /\ agent[l].counted = Len(decided[l])
                          /\ agent[l].mismatches > 0 => \E d \in Range(decided[l]) : ~d.applied
      BY DEF DiagnosticsExact
    <2>2. Records(l) /\ agent[l].counted = Len(decided[l])
      BY <1>1, <2>1, RestingLeaf
    <2>3. DOMAIN decided[l] = 1..Len(decided[l])
      BY <1>1, DecisionsAreTyped, LenProperties
    <2>4. agent[l].mismatches > 0 => \E i \in DOMAIN decided[l] : ~decided[l][i].applied
      BY <2>2, <2>3 DEF Records
    <2> QED BY <2>2, <2>4 DEF Range
  <1>2. IInv => DiagnosticsExact
    BY <1>1 DEF IInv
  <1> QED BY <1>2, BridgeInvariant, PTL

\* pkt_tracking_dict grows no faster than temp_obs: besides the packets there it
\* holds each leaf's last one and those whose action was refused.
THEOREM NoZombiesEver == Spec => []NoZombies
  <1>1. IInv => NoZombies
    BY DEF IInv, Tracking, Simulating, NoZombies
  <1> QED BY <1>1, BridgeInvariant, PTL
=============================================================================
