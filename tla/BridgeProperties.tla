-------------------------- MODULE BridgeProperties --------------------------
(***************************************************************************)
(* What the runner, its forwarders and the simulator promise each other.   *)
(***************************************************************************)
EXTENDS GymBridge

Info == [uid : Uids, applied : BOOLEAN, seq : 0..MaxPkts]
ToPython == [kind : {"init", "state", "end"}, uid : Uids, applied : BOOLEAN,
             seq : 0..MaxPkts]
ToSimulator == [kind : {"ack", "act", "stop"}, act : Actions]

\* Every variable is of its type.
BridgeTypeOK ==
    /\ main \in {"spawn", "bind", "handshake", "first", "poll", "reap", "finally",
                 "stopped", "exited"}
    /\ episode \in 1..NumEpisodes /\ leaf \in Leaves
    /\ outcome \in {"none", "ok", "bind", "status", "timeout"}
    /\ sim \in Running \cup {"none", "ok", "error", "killed"}
    /\ simLeaf \in Leaves /\ awaiting \in BOOLEAN /\ created \in Uids
    /\ mgr \in [Leaves -> [applied : BOOLEAN, seq : 0..MaxPkts]]
    /\ decided \in [Leaves -> Seq([uid : Uids, act : Actions, applied : BOOLEAN])]
    /\ port \in [Leaves -> {"free", "bridge", "other"}]
    /\ rep \in [Leaves -> {"recv", "reply"}]
    /\ toPy \in [Leaves -> Seq(ToPython)]
    /\ toSim \in [Leaves -> Seq(ToSimulator)]
    /\ misused \subseteq Leaves
    /\ fwd \in [Leaves -> {"none", "top", "receive", "body", "closing", "done"}]
    /\ env \in [Leaves -> [connected : BOOLEAN, obs : Uids, info : Info]]
    /\ agent \in [Leaves -> [prev : Uids, action : Actions, pkt : Uids,
                             signaling : BOOLEAN, steps : 0..1, lastSeq : 0..MaxPkts,
                             mismatches : Nat, counted : Nat]]
    /\ written \in [Leaves -> Seq([obs : Uids, act : Actions, next : Uids])]
    /\ tracking \subseteq Uids /\ temp \in Seq(Uids)

-----------------------------------------------------------------------------
(* The sockets.                                                            *)

\* No thread sends without a request to answer or receives before it has
\* answered: send_close_command, which nothing guards, never raises.
NoSocketMisuse == misused = {}

Handling(l) == fwd[l] \in {"top", "body", "closing"}

\* The forwarders share the class variables of Agent without a lock.  That is
\* safe because at most one of them is between a receive and its reply: the
\* simulator waits for one leaf at a time.
OneHandlerAtATime ==
    \A l, k \in Leaves : Handling(l) /\ Handling(k) => l = k

-----------------------------------------------------------------------------
(* Learning.                                                               *)

Decision(d, next) == [obs |-> d.uid, act |-> d.act, next |-> next]

\* How many elements of S come before n, n included.
Rank(S, n) == Cardinality({i \in S : i <= n})

\* The decisions whose action was applied and whose successor is known.
Known(l) == {i \in 1..(Len(decided[l]) - 1) : decided[l][i].applied}

\* Leaf l's transitions are the simulator's known decisions in their order:
\* each applied action with the packet it was for and the packet of the leaf's
\* next decision.
Aligned(l) ==
    /\ Len(written[l]) = Cardinality(Known(l))
    /\ \A i \in Known(l) :
         written[l][Rank(Known(l), i)] = Decision(decided[l][i], decided[l][i + 1].uid)

\* Leaf l is up in this simulation and its last answer has been executed.
AtRest(l) ==
    /\ sim \in {"run", "end", "ok"}
    /\ fwd[l] \in {"receive", "done"} /\ toSim[l] = <<>>

\* What is stored is what was done: in every transition state, action and
\* successor belong together, none is stored twice (the last message repeats
\* the info of the one before) and none is missing but that of the last
\* decision, which has no successor.
TransitionsAligned == \A l \in Leaves : AtRest(l) => Aligned(l)

\* "Exact counts for real routing decisions": the policy's counters count the
\* packets the simulator routed by them, and a jump of the action number means
\* that an action was refused in between, in this episode.
DiagnosticsExact ==
    \A l \in Leaves : AtRest(l) =>
      /\ agent[l].counted = Len(decided[l])
      /\ agent[l].mismatches > 0 => \E d \in Range(decided[l]) : ~d.applied

Refused == {d.uid : d \in {e \in UNION {Range(decided[l]) : l \in Leaves} : ~e.applied}}

\* pkt_tracking_dict grows no faster than temp_obs, which is pruned: besides
\* the packets there it holds the last one of each leaf and those whose action
\* was refused.
NoZombies ==
    sim \in {"run", "end", "ok"} =>
      tracking \subseteq Range(temp) \cup {agent[l].pkt : l \in Leaves} \cup Refused

-----------------------------------------------------------------------------
(* Starting and ending.                                                    *)

\* An episode fails to bind a port only if another program holds it: what an
\* earlier episode bound has been released.
OwnPortsFree == outcome = "bind" => port[leaf] = "other"

\* Unless the simulator crashes the program ends and leaves no simulator behind:
\* after its episodes, or when a port is taken although forwarders that have
\* started wait for a simulator that will never call them.
ProgramEnds == <>((main = "exited" /\ sim \notin Running) \/ sim = "error")

\* "wait until simulation complete": a simulator that has exited with an error
\* ends the program too.
CrashEndsRun == sim = "error" ~> main = "exited"

=============================================================================
