----------------------------- MODULE GymBridge -----------------------------
(***************************************************************************)
(* The runner, its forwarder threads and the simulator, joined by one      *)
(* REQ/REP socket per leaf switch (src/prisma: main.py, forwarder.py,      *)
(* ns3env.py; the simulator's side is the OpenGym interface of             *)
(* src/conweave-ns3-main).                                                 *)
(*                                                                         *)
(* The simulator is one thread: when a leaf needs a decision it sends the  *)
(* state and blocks until the reply of that leaf.  The main thread binds   *)
(* the sockets one after the other, each constructor blocking until the    *)
(* simulator has reached that leaf, and starts a forwarder thread before   *)
(* it goes on to the next leaf.                                            *)
(*                                                                         *)
(* A state is named by the uid of the packet that waits for the decision;  *)
(* NoPacket names the all-zero placeholder the simulator sends when no     *)
(* packet waits (the first message of a leaf, and the last).               *)
(***************************************************************************)
EXTENDS Naturals, SequencesExt

CONSTANTS
    NLeaves,        \* leaf switches; their overlay indices are 0..NLeaves-1
    NumEpisodes,
    MaxPkts,        \* bound: decisions of one simulation
    NumActions,
    DeadActions,    \* actions whose neighbour has no egress interface
    MayBeTaken,     \* leaves whose port another process may hold
    CanCrash,       \* may the simulator exit with an error?
    TempLimit,      \* temp_obs is pruned above TempLimit entries (5000) ...
    TempDrop        \* ... of its TempDrop oldest (2000)

ASSUME BridgeAssumption ==
    /\ NLeaves \in Nat \ {0} /\ NumEpisodes \in Nat \ {0} /\ MaxPkts \in Nat
    /\ NumActions \in Nat \ {0} /\ DeadActions \subseteq 0..(NumActions - 1)
    /\ MayBeTaken \subseteq 0..(NLeaves - 1) /\ CanCrash \in BOOLEAN
    /\ TempLimit \in Nat /\ TempDrop \in Nat \ {0}

Leaves == 0..(NLeaves - 1)
Actions == 0..(NumActions - 1)
NoPacket == 0
Uids == 0..MaxPkts

VARIABLES
    \* the main thread
    main,       \* where it is
    episode,
    leaf,       \* the leaf it is setting up
    outcome,    \* how main() ended
    \* the simulator
    sim,        \* what it is doing
    simLeaf,    \* the leaf it talks to
    awaiting,   \* it has sent to simLeaf and waits for the reply
    created,    \* packets that have needed a decision
    mgr,        \* per leaf: the last action's flag and number
    decided,    \* per leaf: every decision of this simulation (history)
    \* the sockets
    port,       \* per leaf: who holds the port
    rep,        \* per leaf: what the REP socket allows next
    toPy, toSim,
    misused,    \* leaves where a call raised ZMQError(EFSM) (history)
    \* the forwarders
    fwd,        \* per leaf: where the thread is
    env,        \* per leaf: Ns3Env and its bridge
    agent,      \* per leaf: the fields of the Forwarder
    written,    \* per leaf: transitions put into the replay buffer
    \* the class variables of Agent
    tracking,   \* the keys of pkt_tracking_dict
    temp        \* the keys of temp_obs, oldest first

mainVars == <<main, episode, leaf, outcome>>
simVars == <<sim, simLeaf, awaiting, created, mgr, decided>>
sockVars == <<port, rep, toPy, toSim, misused>>
fwdVars == <<fwd, env, agent, written>>
sharedVars == <<tracking, temp>>
vars == <<mainVars, simVars, sockVars, fwdVars, sharedVars>>

\* Messages: what the simulator sends and what the Python side answers.
InitMsg == [kind |-> "init", uid |-> NoPacket, applied |-> FALSE, seq |-> 0]
StateMsg(kind, uid, l) ==
    [kind |-> kind, uid |-> uid, applied |-> mgr[l].applied, seq |-> mgr[l].seq]
Ack == [kind |-> "ack", act |-> 0]
Act(a) == [kind |-> "act", act |-> a]
Stop == [kind |-> "stop", act |-> 0]

NoInfo == [uid |-> NoPacket, applied |-> FALSE, seq |-> 0]
InfoOf(msg) == [uid |-> msg.uid, applied |-> msg.applied, seq |-> msg.seq]

NewManager == [applied |-> FALSE, seq |-> 0]
NewEnv == [connected |-> TRUE, obs |-> NoPacket, info |-> NoInfo]
NewAgent == [prev |-> NoPacket, action |-> 0, pkt |-> NoPacket, signaling |-> FALSE,
             steps |-> 0, lastSeq |-> 0, mismatches |-> 0, counted |-> 0]

Init ==
    /\ main = "spawn" /\ episode = 1 /\ leaf = 0 /\ outcome = "none"
    /\ sim = "none" /\ simLeaf = 0 /\ awaiting = FALSE /\ created = 0
    /\ mgr = [l \in Leaves |-> NewManager]
    /\ decided = [l \in Leaves |-> <<>>]
    /\ \E taken \in SUBSET MayBeTaken :
         port = [l \in Leaves |-> IF l \in taken THEN "other" ELSE "free"]
    /\ rep = [l \in Leaves |-> "recv"]
    /\ toPy = [l \in Leaves |-> <<>>]
    /\ toSim = [l \in Leaves |-> <<>>]
    /\ misused = {}
    /\ fwd = [l \in Leaves |-> "none"]
    /\ env = [l \in Leaves |-> NewEnv]
    /\ agent = [l \in Leaves |-> NewAgent]
    /\ written = [l \in Leaves |-> <<>>]
    /\ tracking = {} /\ temp = <<>>

-----------------------------------------------------------------------------
(* The simulator (external).                                               *)

\* It sends to leaf l and blocks.
SimSend(l, msg) ==
    /\ toPy' = [toPy EXCEPT ![l] = Append(@, msg)]
    /\ simLeaf' = l
    /\ awaiting' = TRUE
    /\ UNCHANGED <<toSim, port, rep, misused>>

\* The reply it waits for has come.
SimReply(kind) ==
    /\ awaiting
    /\ toSim[simLeaf] # <<>> /\ Head(toSim[simLeaf]).kind \in kind
    /\ toSim' = [toSim EXCEPT ![simLeaf] = Tail(@)]
    /\ awaiting' = FALSE
    /\ UNCHANGED <<toPy, port, rep, misused>>

Least(m, n) == IF m < n THEN m ELSE n

\* Mutant: the last leaf has a successor.
NextLeafUnwrapped == simLeaf + 1

NextLeaf == (simLeaf + 1) % NLeaves

\* The environments are initialized in the order of the leaves, each with a
\* handshake and a first state for which no packet waits.
SimInit ==
    /\ sim = "init" /\ ~awaiting
    /\ SimSend(simLeaf, InitMsg)
    /\ UNCHANGED <<sim, created, mgr, decided, mainVars, fwdVars, sharedVars>>

SimInitAcked ==
    /\ sim = "init" /\ SimReply({"ack"})
    /\ sim' = "first"
    /\ UNCHANGED <<simLeaf, created, mgr, decided, mainVars, fwdVars, sharedVars>>

SimFirst ==
    /\ sim = "first" /\ ~awaiting
    /\ SimSend(simLeaf, StateMsg("state", NoPacket, simLeaf))
    /\ UNCHANGED <<sim, created, mgr, decided, mainVars, fwdVars, sharedVars>>

\* ApplyAction with nothing held.
SimFirstAction ==
    /\ sim = "first" /\ SimReply({"act"})
    /\ mgr' = [mgr EXCEPT ![simLeaf].applied = FALSE]
    /\ simLeaf' = NextLeaf
    /\ sim' = IF NextLeaf = 0 THEN "run" ELSE "init"
    /\ UNCHANGED <<created, decided, mainVars, fwdVars, sharedVars>>

\* The first packet of a flowlet is held at leaf l until the decision.
SimDecision(l) ==
    /\ sim = "run" /\ ~awaiting /\ created < MaxPkts
    /\ created' = created + 1
    /\ SimSend(l, StateMsg("state", created + 1, l))
    /\ UNCHANGED <<sim, mgr, decided, mainVars, fwdVars, sharedVars>>

\* ApplyAction with a packet held.
SimAction ==
    /\ sim = "run" /\ SimReply({"act"})
    /\ LET a       == Head(toSim[simLeaf]).act
           applied == a \notin DeadActions
       IN  /\ mgr' = [mgr EXCEPT ![simLeaf] =
                        [applied |-> applied, seq |-> @.seq + 1]]
           /\ decided' = [decided EXCEPT ![simLeaf] =
                Append(@, [uid |-> created, act |-> a, applied |-> applied])]
    /\ UNCHANGED <<sim, simLeaf, created, mainVars, fwdVars, sharedVars>>

\* The stop time is reached: every interface sends a last message in turn.
SimEnd ==
    /\ sim = "run" /\ ~awaiting
    /\ sim' = "end" /\ simLeaf' = 0
    /\ UNCHANGED <<awaiting, created, mgr, decided, sockVars,
                   mainVars, fwdVars, sharedVars>>

SimEndSend ==
    /\ sim = "end" /\ ~awaiting
    /\ SimSend(simLeaf, StateMsg("end", NoPacket, simLeaf))
    /\ UNCHANGED <<sim, created, mgr, decided, mainVars, fwdVars, sharedVars>>

SimEndReply ==
    /\ sim = "end" /\ SimReply({"act", "stop"})
    /\ simLeaf' = NextLeaf
    /\ sim' = IF NextLeaf = 0 THEN "ok" ELSE "end"
    /\ UNCHANGED <<created, mgr, decided, mainVars, fwdVars, sharedVars>>

Running == {"init", "first", "run", "end"}

SimCrash ==
    /\ CanCrash /\ sim \in Running
    /\ sim' = "error"
    /\ UNCHANGED <<simLeaf, awaiting, created, mgr, decided, sockVars,
                   mainVars, fwdVars, sharedVars>>

Simulator ==
    \/ SimInit \/ SimInitAcked \/ SimFirst \/ SimFirstAction
    \/ \E l \in Leaves : SimDecision(l)
    \/ SimAction \/ SimEnd \/ SimEndSend \/ SimEndReply

-----------------------------------------------------------------------------
(* The REP socket of a leaf.                                               *)

SocketSend(l, msg) ==
    IF rep[l] = "reply"
    THEN /\ toSim' = [toSim EXCEPT ![l] = Append(@, msg)]
         /\ rep' = [rep EXCEPT ![l] = "recv"]
         /\ UNCHANGED misused
    ELSE /\ misused' = misused \cup {l}
         /\ UNCHANGED <<toSim, rep>>

MayReceive(l) == rep[l] = "recv" /\ toPy[l] # <<>>

SocketRecv(l) ==
    /\ MayReceive(l)
    /\ toPy' = [toPy EXCEPT ![l] = Tail(@)]
    /\ rep' = [rep EXCEPT ![l] = "reply"]
    /\ UNCHANGED <<toSim, misused>>

-----------------------------------------------------------------------------
(* The forwarder thread of a leaf: Forwarder.run.                          *)

\* The destination in an observation is this leaf only for the placeholder,
\* whose zeros read as leaf 0.
DecisionState(l, obs) == obs # NoPacket \/ l # 0

TakesAction(l) == agent[l].steps >= 1 /\ DecisionState(l, env[l].obs)

\* Above the limit the oldest entries leave temp_obs, and the tracking of
\* their packets with them.
Pruned == IF Len(temp) > TempLimit THEN SubSeq(temp, 1, Least(TempDrop, Len(temp)))
                                   ELSE <<>>

\* Mutant: only temp_obs is pruned.
ForgottenNone == {}

Forgotten == Range(Pruned)

\* Forwarder.step up to the send: choose an action and answer the state.
StepSend(l) ==
    /\ fwd[l] = "top" /\ env[l].connected
    /\ \E a \in IF TakesAction(l) THEN Actions ELSE {0} :
         /\ SocketSend(l, Act(a))
         /\ agent' = [agent EXCEPT ![l].prev = env[l].obs, ![l].action = a,
              ![l].counted = IF TakesAction(l) THEN @ + 1 ELSE @]
    /\ IF TakesAction(l)
       THEN /\ temp' = SubSeq(temp, Len(Pruned) + 1, Len(temp))
            /\ tracking' = tracking \ Forgotten
       ELSE UNCHANGED sharedVars
    /\ fwd' = [fwd EXCEPT ![l] = "receive"]
    /\ UNCHANGED <<mainVars, simVars, port, toPy, env, written>>

\* rx_env_state: the last message of a simulation brings an observation but
\* leaves extraInfo as it was.
Received(l, msg) ==
    IF msg.kind = "end"
    THEN [env[l] EXCEPT !.connected = FALSE, !.obs = msg.uid]
    ELSE [connected |-> TRUE, obs |-> msg.uid, info |-> InfoOf(msg)]

\* Mutant: rx_env_state answers the last message itself.
ReceiveAnswersEnd(l) ==
    /\ fwd[l] = "receive" /\ MayReceive(l)
    /\ env' = [env EXCEPT ![l] = Received(l, Head(toPy[l]))]
    /\ toPy' = [toPy EXCEPT ![l] = Tail(@)]
    /\ IF Head(toPy[l]).kind = "end"
       THEN /\ toSim' = [toSim EXCEPT ![l] = Append(@, Stop)]
            /\ UNCHANGED <<rep, misused>>
       ELSE /\ rep' = [rep EXCEPT ![l] = "reply"]
            /\ UNCHANGED <<toSim, misused>>
    /\ fwd' = [fwd EXCEPT ![l] = "body"]
    /\ UNCHANGED <<mainVars, simVars, port, agent, written, sharedVars>>

\* A recv out of turn raises, which rx_env_state turns into "not connected".
Receive(l) ==
    /\ fwd[l] = "receive"
    /\ IF rep[l] = "recv"
       THEN /\ SocketRecv(l)
            /\ env' = [env EXCEPT ![l] = Received(l, Head(toPy[l]))]
       ELSE /\ misused' = misused \cup {l}
            /\ env' = [env EXCEPT ![l].connected = FALSE]
            /\ UNCHANGED <<rep, toPy, toSim>>
    /\ fwd' = [fwd EXCEPT ![l] = "body"]
    /\ UNCHANGED <<mainVars, simVars, port, agent, written, sharedVars>>

IsCtrl(l) == env[l].info.uid = NoPacket

\* Mutant: the connection is not asked.
ValidStepStale(l) == ~IsCtrl(l) /\ env[l].info.applied

\* is_valid_environment_step
ValidStep(l) == env[l].connected /\ ~IsCtrl(l) /\ env[l].info.applied

\* env.step(a_t) has returned s_(t+1): the transition that starts in prev.
Transition(l) == [obs |-> agent[l].prev, act |-> agent[l].action, next |-> env[l].obs]

SeqMismatch(l) ==
    /\ ValidStep(l) /\ agent[l].lastSeq # 0
    /\ env[l].info.seq # agent[l].lastSeq + 1

\* dict.pop: a key has one place.
Popped(keys, uid) ==
    IF uid \in Range(keys)
    THEN RemoveAt(keys, CHOOSE i \in DOMAIN keys : keys[i] = uid)
    ELSE keys

\* handle_new_packet, or handle_transit_packet, which pops temp_obs.
Tracked(l) == tracking \cup {env[l].info.uid}
Untransited(l) ==
    IF env[l].info.uid \in tracking THEN Popped(temp, env[l].info.uid) ELSE temp

\* A key keeps its place in a dict.
Stored(keys, uid) == IF uid \in Range(keys) THEN keys ELSE Append(keys, uid)

StoresState(l) == DecisionState(l, agent[l].prev) /\ ~agent[l].signaling

\* treat_info and the diagnostics
Iterated(l) ==
    [agent[l] EXCEPT !.pkt = env[l].info.uid, !.signaling = IsCtrl(l), !.steps = 1,
       !.lastSeq = IF ValidStep(l) THEN env[l].info.seq ELSE @,
       !.mismatches = IF SeqMismatch(l) THEN @ + 1 ELSE @]

\* The rest of an iteration: the agent's fields, the transition, the
\* bookkeeping of the packets.
Body(l) ==
    /\ fwd[l] = "body"
    /\ agent' = [agent EXCEPT ![l] = Iterated(l)]
    /\ written' = IF ValidStep(l) /\ DecisionState(l, agent[l].prev)
                  THEN [written EXCEPT ![l] = Append(@, Transition(l))]
                  ELSE written
    /\ IF ValidStep(l)
       THEN /\ tracking' = Tracked(l)
            /\ temp' = IF StoresState(l) THEN Stored(Untransited(l), agent[l].pkt)
                                         ELSE Untransited(l)
       ELSE UNCHANGED sharedVars
    /\ fwd' = [fwd EXCEPT ![l] = IF env[l].connected THEN "top" ELSE "closing"]
    /\ UNCHANGED <<mainVars, simVars, sockVars, env>>

\* After the loop: send_close_command, and the thread ends.
CloseCommand(l) ==
    /\ fwd[l] = "closing"
    /\ SocketSend(l, Stop)
    /\ fwd' = [fwd EXCEPT ![l] = "done"]
    /\ UNCHANGED <<mainVars, simVars, port, toPy, env, agent, written, sharedVars>>

Forwarder(l) ==
    /\ main # "exited"
    /\ StepSend(l) \/ Receive(l) \/ Body(l) \/ CloseCommand(l)

-----------------------------------------------------------------------------
(* The main thread: main() and the finally clause of the script.           *)

\* run_ns3 and Agent.reset.
RunNs3 ==
    /\ main = "spawn"
    /\ main' = "bind" /\ leaf' = 0
    /\ sim' = "init" /\ simLeaf' = 0 /\ awaiting' = FALSE /\ created' = 0
    /\ mgr' = [l \in Leaves |-> NewManager]
    /\ decided' = [l \in Leaves |-> <<>>]
    /\ tracking' = {} /\ temp' = <<>>
    /\ UNCHANGED <<episode, outcome, sockVars, fwdVars>>

\* Forwarder(index) or reset(init=False): a new Ns3Env binds the port.
Bind ==
    /\ main = "bind" /\ port[leaf] = "free"
    /\ port' = [port EXCEPT ![leaf] = "bridge"]
    /\ rep' = [rep EXCEPT ![leaf] = "recv"]
    /\ main' = "handshake"
    /\ UNCHANGED <<episode, leaf, outcome, simVars, toPy, toSim, misused,
                   fwdVars, sharedVars>>

BindFails ==
    /\ main = "bind" /\ port[leaf] # "free"
    /\ outcome' = "bind" /\ main' = "finally"
    /\ UNCHANGED <<episode, leaf, simVars, sockVars, fwdVars, sharedVars>>

\* initialize_env: receive SimInitMsg and acknowledge it.
InitializeEnv ==
    /\ main = "handshake" /\ MayReceive(leaf)
    /\ toPy' = [toPy EXCEPT ![leaf] = Tail(@)]
    /\ toSim' = [toSim EXCEPT ![leaf] = Append(@, Ack)]
    /\ main' = "first"
    /\ UNCHANGED <<episode, leaf, outcome, simVars, port, rep, misused,
                   fwdVars, sharedVars>>

\* Mutant: an agent that is used again keeps its counters.
ResetAgentKeeps(l) == [NewAgent EXCEPT !.lastSeq = agent[l].lastSeq]

ResetAgent(l) == NewAgent

\* The first state; the rest of Forwarder.reset; the thread starts.
StartForwarder ==
    /\ main = "first" /\ SocketRecv(leaf)
    /\ env' = [env EXCEPT ![leaf] =
         [connected |-> TRUE, obs |-> Head(toPy[leaf]).uid,
          info |-> InfoOf(Head(toPy[leaf]))]]
    /\ agent' = [agent EXCEPT ![leaf] = ResetAgent(leaf)]
    /\ written' = [written EXCEPT ![leaf] = <<>>]
    /\ fwd' = [fwd EXCEPT ![leaf] = "top"]
    /\ IF leaf = NLeaves - 1 THEN main' = "poll" /\ UNCHANGED leaf
                             ELSE main' = "bind" /\ leaf' = leaf + 1
    /\ UNCHANGED <<episode, outcome, simVars, port, sharedVars>>

\* Mutant: the sockets stay bound.
ClosedNone == port

Closed == [l \in Leaves |-> "free"]

\* No forwarder is alive: every env is closed, which drops its socket.
CloseEnvs ==
    /\ main = "poll" /\ \A l \in Leaves : fwd[l] = "done"
    /\ port' = Closed
    /\ main' = "reap"
    /\ UNCHANGED <<episode, leaf, outcome, simVars, rep, toPy, toSim, misused,
                   fwdVars, sharedVars>>

\* ns3_proc.wait(120) returned status 0: the next episode, if any.
Reap ==
    /\ main = "reap" /\ sim = "ok"
    /\ IF episode < NumEpisodes
       THEN episode' = episode + 1 /\ main' = "spawn" /\ UNCHANGED outcome
       ELSE outcome' = "ok" /\ main' = "finally" /\ UNCHANGED episode
    /\ UNCHANGED <<leaf, simVars, sockVars, fwdVars, sharedVars>>

ReapFails ==
    /\ main = "reap" /\ sim # "ok"
    /\ outcome' = IF sim = "error" THEN "status" ELSE "timeout"
    /\ main' = "finally"
    /\ UNCHANGED <<episode, leaf, simVars, sockVars, fwdVars, sharedVars>>

OwnedProcess == Running

\* The finally clause finds no close command to send (Agent.envs is a list
\* and has no values()); _stop_owned_process kills what still runs.
StopOwnedProcess ==
    /\ main = "finally"
    /\ sim' = IF sim \in OwnedProcess THEN "killed" ELSE sim
    /\ main' = "stopped"
    /\ UNCHANGED <<episode, leaf, outcome, simLeaf, awaiting, created, mgr, decided,
                   sockVars, fwdVars, sharedVars>>

\* Mutant: the threads are not daemons.
DaemonThreadsNot == FALSE

\* The interpreter waits for the threads that are not daemons.
DaemonThreads == TRUE

Exit ==
    /\ main = "stopped"
    /\ DaemonThreads \/ \A l \in Leaves : fwd[l] \in {"none", "done"}
    /\ main' = "exited"
    /\ UNCHANGED <<episode, leaf, outcome, simVars, sockVars, fwdVars, sharedVars>>

Main ==
    \/ RunNs3 \/ Bind \/ BindFails \/ InitializeEnv \/ StartForwarder
    \/ CloseEnvs \/ Reap \/ ReapFails \/ StopOwnedProcess \/ Exit

Done == main = "exited" /\ UNCHANGED vars

Next ==
    \/ Main
    \/ Simulator
    \/ SimCrash
    \/ \E l \in Leaves : Forwarder(l)
    \/ Done

Spec == Init /\ [][Next]_vars

\* The operating system runs every thread and process that can run.
Fairness ==
    /\ WF_vars(Main) /\ WF_vars(Simulator)
    /\ \A l \in Leaves : WF_vars(Forwarder(l))

FairSpec == Spec /\ Fairness

=============================================================================
