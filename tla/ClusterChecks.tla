--------------------------- MODULE ClusterChecks ---------------------------
(***************************************************************************)
(* The cluster checks of the cluster agent: the dispatcher of the leader   *)
(* (pkg/clusteragent/clusterchecks), which assigns check configurations to *)
(* nodes, and the config provider of the node agents                       *)
(* (comp/core/autodiscovery/providers/clusterchecks.go), which polls it.   *)
(*                                                                         *)
(* Actors: the autodiscovery goroutine that calls Schedule and Unschedule  *)
(* (one at a time, under the controller's mutex); the dispatcher's run     *)
(* loop; a rebalance (the ticker's or an API call's); the HTTP handlers of *)
(* the node agents' requests; the node agents.  One action is one section  *)
(* under the store's mutex: what an actor read in one section and uses in  *)
(* the next is kept in its local state.                                    *)
(*                                                                         *)
(* A configuration stands for its digest.  Timestamps of heartbeats are    *)
(* abstracted to whether they are older than node_expiration_timeout; the  *)
(* stamps of lastConfigChange are only ever compared with stamps of the    *)
(* same node, so each node draws them from its own counter.                *)
(***************************************************************************)
EXTENDS Naturals, FiniteSets

CONSTANTS
    Nodes,                  \* names of the node agents
    Configs,                \* digests of cluster check configurations
    NoNode,                 \* the empty node name
    NodeAgents,             \* the nodes that are node agents, not CLC runners
    AdvancedDispatching,    \* cluster_checks.advanced_dispatching_enabled
    MaxChanges,             \* bound: Schedule and Unschedule calls
    MaxFaults,              \* bound: crashes, cut links, late heartbeats, failovers
    MaxMoves                \* bound: configurations moved by rebalances

ASSUME NoNodeAssumption == NoNode \notin Nodes \cup Configs
ASSUME NodeAgentsAssumption == NodeAgents \subseteq Nodes
ASSUME AdvancedAssumption == AdvancedDispatching \in BOOLEAN

VARIABLES
    scheduled,          \* the autodiscovery controller's scheduledConfigs
    ad,                 \* the autodiscovery goroutine inside the dispatcher
    \* the leader's clusterStore
    active,
    digestToConfig,     \* the digests registered
    digestToNode,
    danglingConfigs,
    nodes,              \* the nodes that have a nodeStore
    \* the nodeStores; a node without one has the values newNodeStore gives
    heartbeat,          \* TRUE: younger than the expiration timeout
    lastConfigChange,
    nodeConfigs,        \* digestToConfig of the nodeStore
    runnerStats,        \* the configurations clcRunnerStats reports running
    \* the leader's other goroutines
    leading,            \* "warmup", "registering", "dispatching"
    loop,               \* the dispatcher's run goroutine
    advanced,           \* dispatcher.advancedDispatching
    move,               \* the rebalance: the move picked and not yet made
    \* the node agents
    agent,              \* "down", "starting", "idle", "collecting"
    running,            \* the configurations the agent runs
    lastChange,         \* the stamp the agent holds
    linked,             \* the agent reaches the leader
    \* counters of the bounds, and of the stamps
    stamp, changes, faults, moves

storeVars == <<active, digestToConfig, digestToNode, danglingConfigs, nodes,
               heartbeat, lastConfigChange, nodeConfigs, runnerStats, stamp>>
agentVars == <<agent, running, lastChange, linked>>
boundVars == <<changes, faults, moves>>
vars == <<scheduled, ad, storeVars, leading, loop, advanced, move,
          agentVars, boundVars>>

----------------------------------------------------------------------------
(* Local state of the goroutines.                                          *)

NoStamp == 0            \* lastConfigChange of a new nodeStore, lastChange of a new provider

\* Schedule(configs): the configurations still to add and the target picked
\* for the one being added.
AdIdle == [todo |-> {}, config |-> NoNode, target |-> NoNode]

\* One cleanup tick: the dangling configurations still to re-dispatch, the
\* target of the one being added, and the digests that were added.
LoopIdle == [pc |-> "idle", todo |-> {}, config |-> NoNode, target |-> NoNode, added |-> {}]
LoopOff == [LoopIdle EXCEPT !.pc = "off"]

NoMove == [pc |-> "idle", config |-> NoNode, src |-> NoNode, dest |-> NoNode]

\* What an agent does after its status request: the provider's start always
\* collects, a poll only when it was told it is not up to date.
AfterStatus(n, upToDate) ==
    IF agent[n] = "starting" \/ ~upToDate THEN "collecting" ELSE "idle"

Adding == ad.config # NoNode
Registered == leading \in {"registering", "dispatching"}

Init ==
    /\ scheduled = {}
    /\ ad = AdIdle
    /\ active = FALSE
    /\ digestToConfig = {}
    /\ digestToNode = [c \in Configs |-> NoNode]
    /\ danglingConfigs = {}
    /\ nodes = {}
    /\ heartbeat = [n \in Nodes |-> FALSE]
    /\ lastConfigChange = [n \in Nodes |-> NoStamp]
    /\ nodeConfigs = [n \in Nodes |-> {}]
    /\ runnerStats = [n \in Nodes |-> {}]
    /\ leading = "warmup"
    /\ loop = LoopOff
    /\ advanced = AdvancedDispatching
    /\ move = NoMove
    /\ agent = [n \in Nodes |-> "down"]
    /\ running = [n \in Nodes |-> {}]
    /\ lastChange = [n \in Nodes |-> NoStamp]
    /\ linked = [n \in Nodes |-> TRUE]
    /\ stamp = [n \in Nodes |-> NoStamp]
    /\ changes = 0 /\ faults = 0 /\ moves = 0

----------------------------------------------------------------------------
(* The store.                                                              *)

\* getNodeToScheduleCheck: any node under advanced dispatching, one with the
\* fewest configurations otherwise; the empty name when no node is known.
Targets ==
    IF nodes = {} THEN {NoNode}
    ELSE IF advanced THEN nodes
    ELSE {n \in nodes : \A m \in nodes :
                Cardinality(nodeConfigs[n]) <= Cardinality(nodeConfigs[m])}

\* Mutant: removeConfig leaves the stamp as it was.
ReassignStampsAddOnly(c, add, drop) ==
    /\ nodeConfigs' = [n \in Nodes |->
            IF n \in add THEN nodeConfigs[n] \cup {c}
            ELSE IF n \in drop THEN nodeConfigs[n] \ {c} ELSE nodeConfigs[n]]
    /\ stamp' = [n \in Nodes |-> IF n \in add THEN stamp[n] + 1 ELSE stamp[n]]
    /\ lastConfigChange' = [n \in Nodes |->
            IF n \in add THEN stamp[n] + 1 ELSE lastConfigChange[n]]

\* nodeStore.addConfig on node add and nodeStore.removeConfig on the nodes of
\* drop that hold c: each nodeStore changed gets a new stamp.
Reassign(c, add, drop) ==
    LET dropped == {n \in drop : c \in nodeConfigs[n]}
        changed == add \cup dropped
    IN /\ nodeConfigs' = [n \in Nodes |->
                            IF n \in add THEN nodeConfigs[n] \cup {c}
                            ELSE IF n \in dropped THEN nodeConfigs[n] \ {c}
                            ELSE nodeConfigs[n]]
       /\ stamp' = [n \in Nodes |-> IF n \in changed THEN stamp[n] + 1 ELSE stamp[n]]
       /\ lastConfigChange' = [n \in Nodes |->
                            IF n \in changed THEN stamp[n] + 1 ELSE lastConfigChange[n]]

\* Mutant: the empty target is taken for a node's name.
AddConfigToEmptyName(c, target) ==
    /\ digestToConfig' = digestToConfig \cup {c}
    /\ nodes' = nodes \cup {target}
    /\ digestToNode' = [digestToNode EXCEPT ![c] = target]
    /\ Reassign(c, {target}, {digestToNode[c]} \cap (nodes \ {target}))
    /\ UNCHANGED <<danglingConfigs, active, heartbeat, runnerStats>>

\* dispatcher.addConfig: a configuration without a target is dangling; one
\* with a target is added there, whose nodeStore is created if it is gone,
\* and then removed from the node that had it.
AddConfig(c, target) ==
    /\ digestToConfig' = digestToConfig \cup {c}
    /\ IF target = NoNode
         THEN /\ danglingConfigs' = danglingConfigs \cup {c}
              /\ UNCHANGED <<digestToNode, nodes, nodeConfigs, stamp, lastConfigChange>>
         ELSE /\ nodes' = nodes \cup {target}
              /\ digestToNode' = [digestToNode EXCEPT ![c] = target]
              /\ Reassign(c, {target}, {digestToNode[c]} \cap (nodes \ {target}))
              /\ UNCHANGED danglingConfigs
    /\ UNCHANGED <<active, heartbeat, runnerStats>>

\* dispatcher.removeConfig.
RemoveConfig(c) ==
    /\ digestToConfig' = digestToConfig \ {c}
    /\ digestToNode' = [digestToNode EXCEPT ![c] = NoNode]
    /\ danglingConfigs' = danglingConfigs \ {c}
    /\ Reassign(c, {}, {digestToNode[c]} \cap nodes)
    /\ UNCHANGED <<active, nodes, heartbeat, runnerStats>>

----------------------------------------------------------------------------
(* Autodiscovery.  Before the dispatcher is registered the controller only *)
(* records what is scheduled; registering replays it.                      *)

\* Schedule is called with a new configuration.
ScheduleCall(c) ==
    /\ changes < MaxChanges
    /\ ad = AdIdle
    /\ c \notin scheduled
    /\ changes' = changes + 1
    /\ scheduled' = scheduled \cup {c}
    /\ ad' = IF Registered THEN [AdIdle EXCEPT !.todo = {c}] ELSE AdIdle
    /\ UNCHANGED <<storeVars, leading, loop, advanced, move, agentVars, faults, moves>>

\* dispatcher.add, first section: getNodeToScheduleCheck.
SchedulePick(c) ==
    /\ ~Adding
    /\ c \in ad.todo
    /\ \E t \in Targets : ad' = [ad EXCEPT !.config = c, !.target = t]
    /\ UNCHANGED <<scheduled, storeVars, leading, loop, advanced, move, agentVars, boundVars>>

\* dispatcher.add, second section: addConfig.
ScheduleAdd ==
    /\ Adding
    /\ AddConfig(ad.config, ad.target)
    /\ ad' = [AdIdle EXCEPT !.todo = ad.todo \ {ad.config}]
    /\ UNCHANGED <<scheduled, leading, loop, advanced, move, agentVars, boundVars>>

\* Unschedule is called with a configuration that was scheduled.
Unschedule(c) ==
    /\ changes < MaxChanges
    /\ ad = AdIdle
    /\ c \in scheduled
    /\ changes' = changes + 1
    /\ scheduled' = scheduled \ {c}
    /\ IF Registered THEN RemoveConfig(c) ELSE UNCHANGED storeVars
    /\ UNCHANGED <<ad, leading, loop, advanced, move, agentVars, faults, moves>>

----------------------------------------------------------------------------
(* Leadership.                                                             *)

\* The warm-up is over: runDispatch registers with autodiscovery, which
\* replays the scheduled configurations before it returns; the mode is
\* determined first (UpdateAdvancedDispatchingMode).
WarmupOver ==
    /\ leading = "warmup"
    /\ ad = AdIdle
    /\ leading' = "registering"
    /\ ad' = [AdIdle EXCEPT !.todo = scheduled]
    /\ advanced' = (advanced /\ nodes \cap NodeAgents = {})
    /\ UNCHANGED <<scheduled, storeVars, loop, move, agentVars, boundVars>>

\* The replay is done: dispatcher.run marks the store active.
RunStarts ==
    /\ leading = "registering"
    /\ ad = AdIdle
    /\ leading' = "dispatching"
    /\ active' = TRUE
    /\ loop' = LoopIdle
    /\ UNCHANGED <<scheduled, ad, digestToConfig, digestToNode, danglingConfigs, nodes, heartbeat,
                   lastConfigChange, nodeConfigs, runnerStats, stamp, advanced, move,
                   agentVars, boundVars>>

\* The leader crashes or loses its lease: another cluster agent leads, with
\* the store clusterStore.reset leaves.
Failover ==
    /\ faults < MaxFaults
    /\ faults' = faults + 1
    /\ leading' = "warmup"
    /\ ad' = AdIdle
    /\ loop' = LoopOff
    /\ move' = NoMove
    /\ advanced' = AdvancedDispatching
    /\ active' = FALSE
    /\ digestToConfig' = {}
    /\ digestToNode' = [c \in Configs |-> NoNode]
    /\ danglingConfigs' = {}
    /\ nodes' = {}
    /\ heartbeat' = [n \in Nodes |-> FALSE]
    /\ lastConfigChange' = [n \in Nodes |-> NoStamp]
    /\ nodeConfigs' = [n \in Nodes |-> {}]
    /\ runnerStats' = [n \in Nodes |-> {}]
    /\ UNCHANGED <<scheduled, agentVars, stamp, changes, moves>>

----------------------------------------------------------------------------
(* The dispatcher's run loop: one cleanup tick.                            *)

\* Mutant: digestToNode keeps the expired node.
ExpireNodesKeepsOwner ==
    LET expired == {n \in nodes : ~heartbeat[n]}
    IN /\ loop.pc = "idle"
       /\ loop' = [LoopIdle EXCEPT !.pc = "expired"]
       /\ nodes' = nodes \ expired
       /\ danglingConfigs' = danglingConfigs \cup UNION {nodeConfigs[n] : n \in expired}
       /\ nodeConfigs' = [n \in Nodes |-> IF n \in expired THEN {} ELSE nodeConfigs[n]]
       /\ runnerStats' = [n \in Nodes |-> IF n \in expired THEN {} ELSE runnerStats[n]]
       /\ lastConfigChange' = [n \in Nodes |->
                IF n \in expired THEN NoStamp ELSE lastConfigChange[n]]
       /\ UNCHANGED <<scheduled, ad, active, digestToConfig, digestToNode, heartbeat, stamp,
                      leading, advanced, move, agentVars, boundVars>>

\* expireNodes: the nodes with an old heartbeat go, their configurations dangle.
ExpireNodes ==
    LET expired == {n \in nodes : ~heartbeat[n]}
        lost == UNION {nodeConfigs[n] : n \in expired}
    IN /\ loop.pc = "idle"
       /\ loop' = [LoopIdle EXCEPT !.pc = "expired"]
       /\ nodes' = nodes \ expired
       /\ digestToNode' = [c \in Configs |-> IF c \in lost THEN NoNode ELSE digestToNode[c]]
       /\ danglingConfigs' = danglingConfigs \cup lost
       /\ nodeConfigs' = [n \in Nodes |-> IF n \in expired THEN {} ELSE nodeConfigs[n]]
       /\ runnerStats' = [n \in Nodes |-> IF n \in expired THEN {} ELSE runnerStats[n]]
       /\ lastConfigChange' = [n \in Nodes |->
                IF n \in expired THEN NoStamp ELSE lastConfigChange[n]]
       /\ UNCHANGED <<scheduled, ad, active, digestToConfig, heartbeat, stamp, leading, advanced,
                      move, agentVars, boundVars>>

\* shouldDispatchDangling and retrieveDangling.  The two read sections are
\* one step: what the first saw decides nothing the second does not see again.
RetrieveDangling ==
    /\ loop.pc = "expired"
    /\ loop' = IF danglingConfigs # {} /\ nodes # {}
                 THEN [LoopIdle EXCEPT !.pc = "dispatch", !.todo = danglingConfigs]
                 ELSE LoopIdle
    /\ UNCHANGED <<scheduled, ad, storeVars, leading, advanced, move, agentVars, boundVars>>

\* reschedule: dispatcher.add, first section.
ReschedulePick(c) ==
    /\ loop.pc = "dispatch" /\ loop.config = NoNode
    /\ c \in loop.todo
    /\ \E t \in Targets : loop' = [loop EXCEPT !.config = c, !.target = t]
    /\ UNCHANGED <<scheduled, ad, storeVars, leading, advanced, move, agentVars, boundVars>>

\* reschedule: dispatcher.add, second section.
RescheduleAdd ==
    /\ loop.pc = "dispatch" /\ loop.config # NoNode
    /\ AddConfig(loop.config, loop.target)
    /\ loop' = [loop EXCEPT !.todo = @ \ {loop.config}, !.config = NoNode, !.target = NoNode,
                            !.added = IF loop.target = NoNode THEN @ ELSE @ \cup {loop.config}]
    /\ UNCHANGED <<scheduled, ad, leading, advanced, move, agentVars, boundVars>>

\* Mutant: danglingConfigs is emptied instead.
DeleteDanglingAll ==
    /\ loop.pc = "dispatch" /\ loop.config = NoNode /\ loop.todo = {}
    /\ danglingConfigs' = {}
    /\ loop' = LoopIdle
    /\ UNCHANGED <<scheduled, ad, active, digestToConfig, digestToNode, nodes, heartbeat,
                   lastConfigChange, nodeConfigs, runnerStats, stamp, leading, advanced, move,
                   agentVars, boundVars>>

\* The digests that were added leave danglingConfigs.
DeleteDangling ==
    /\ loop.pc = "dispatch" /\ loop.config = NoNode /\ loop.todo = {}
    /\ danglingConfigs' = danglingConfigs \ loop.added
    /\ loop' = LoopIdle
    /\ UNCHANGED <<scheduled, ad, active, digestToConfig, digestToNode, nodes, heartbeat,
                   lastConfigChange, nodeConfigs, runnerStats, stamp, leading, advanced, move, agentVars, boundVars>>

----------------------------------------------------------------------------
(* Rebalancing, when advanced dispatching is on.  Busyness and utilization *)
(* are abstracted: any configuration a node reports may be moved to any    *)
(* other node.                                                             *)

\* updateRunnersStats: the nodes that answer report what they run now, those
\* that do not keep their last statistics.
UpdateRunnersStats ==
    /\ advanced
    /\ move = NoMove
    /\ move' = [NoMove EXCEPT !.pc = "picking"]
    /\ runnerStats' = [n \in Nodes |->
            IF n \in nodes /\ agent[n] # "down" /\ linked[n]
              THEN running[n] \cap digestToConfig
              ELSE runnerStats[n]]
    /\ UNCHANGED <<scheduled, ad, active, digestToConfig, digestToNode, danglingConfigs, nodes,
                   heartbeat, lastConfigChange, nodeConfigs, stamp, leading, loop, advanced, agentVars, boundVars>>

\* pickConfigToMove and pickNode, or one entry of the proposed distribution.
PickMove(c, src, dest) ==
    /\ moves < MaxMoves
    /\ move.pc = "picking"
    /\ src \in nodes /\ dest \in nodes \ {src}
    /\ c \in runnerStats[src] \cap digestToConfig
    /\ move' = [pc |-> "moving", config |-> c, src |-> src, dest |-> dest]
    /\ moves' = moves + 1
    /\ UNCHANGED <<scheduled, ad, storeVars, leading, loop, advanced, agentVars, changes, faults>>

\* moveConfig: it wants both nodes, the configuration and the source's
\* statistics; it does not ask whether the source is the assigned node.
MoveConfig ==
    LET c == move.config
        src == move.src
        dest == move.dest
    IN /\ move.pc = "moving"
       /\ move' = [NoMove EXCEPT !.pc = "picking"]
       /\ IF src \in nodes /\ dest \in nodes /\ c \in digestToConfig /\ c \in runnerStats[src]
            THEN /\ digestToNode' = [digestToNode EXCEPT ![c] = dest]
                 /\ runnerStats' = [runnerStats EXCEPT ![src] = @ \ {c}, ![dest] = @ \cup {c}]
                 /\ Reassign(c, {dest}, {src})
            ELSE UNCHANGED <<digestToNode, runnerStats, nodeConfigs, stamp, lastConfigChange>>
       /\ UNCHANGED <<scheduled, ad, active, digestToConfig, danglingConfigs, nodes, heartbeat,
                      leading, loop, advanced, agentVars, boundVars>>

RebalanceDone ==
    /\ move.pc = "picking"
    /\ move' = NoMove
    /\ UNCHANGED <<scheduled, ad, storeVars, leading, loop, advanced, agentVars, boundVars>>

----------------------------------------------------------------------------
(* The node agents' requests.                                              *)

\* Mutant: an agent with a later stamp than the nodeStore's is up to date.
IsUpToDateIfLater(n) == lastConfigChange[n] <= lastChange[n] \/ ~active

\* processNodeStatus: the answer to a status whose stamp is lastChange[n].
IsUpToDate(n) == lastConfigChange[n] = lastChange[n] \/ ~active

\* processNodeStatus: getOrCreateNodeStore, the heartbeat and the mode.
NodeSeen(n) ==
    /\ nodes' = nodes \cup {n}
    /\ heartbeat' = [heartbeat EXCEPT ![n] = TRUE]
    /\ advanced' = (advanced /\ n \notin NodeAgents)
    /\ UNCHANGED <<active, digestToConfig, digestToNode, danglingConfigs, lastConfigChange,
                   nodeConfigs, runnerStats, stamp>>

\* The provider posts its status and gets the answer.  When the leader cannot
\* be reached the provider either says it is up to date (grace period) or
\* returns an error, after which the poller does nothing: no state changes.
PostStatus(n) ==
    /\ agent[n] \in {"starting", "idle"}
    /\ linked[n]
    /\ NodeSeen(n)
    /\ agent' = [agent EXCEPT ![n] = AfterStatus(n, IsUpToDate(n))]
    /\ UNCHANGED <<scheduled, ad, leading, loop, move, running, lastChange, linked, boundVars>>

\* The status reaches the leader, the answer is lost.
StatusAnswerLost(n) ==
    /\ faults < MaxFaults
    /\ agent[n] \in {"starting", "idle"}
    /\ NodeSeen(n)
    /\ agent' = [agent EXCEPT ![n] = AfterStatus(n, TRUE)]
    /\ faults' = faults + 1
    /\ UNCHANGED <<scheduled, ad, leading, loop, move, running, lastChange, linked, changes, moves>>

\* processNodeStatus takes the store's mutex to find the nodeStore and the
\* nodeStore's to use it: when expireNodes removes the nodeStore in between,
\* the answer comes from the removed nodeStore and the heartbeat is lost.
StatusOfExpired(n) ==
    /\ faults < MaxFaults
    /\ agent[n] \in {"starting", "idle"}
    /\ linked[n]
    /\ ~heartbeat[n]
    /\ agent' = [agent EXCEPT ![n] = AfterStatus(n, IsUpToDate(n))]
    /\ faults' = faults + 1
    /\ UNCHANGED <<scheduled, ad, storeVars, leading, loop, advanced, move, running, lastChange,
                   linked, changes, moves>>

\* heartbeatSender, when the polling loop is blocked.
ExtraHeartbeat(n) ==
    /\ agent[n] = "collecting"
    /\ linked[n]
    /\ ~heartbeat[n]
    /\ NodeSeen(n)
    /\ UNCHANGED <<scheduled, ad, leading, loop, move, agentVars, boundVars>>

\* Collect: getClusterCheckConfigs answers with the configurations and their
\* stamp; an unknown node or a broken link is an error, and the provider then
\* keeps the configurations (degraded mode, without a deadline by default).
Collect(n) ==
    /\ agent[n] = "collecting"
    /\ agent' = [agent EXCEPT ![n] = "idle"]
    /\ IF linked[n] /\ n \in nodes
         THEN /\ running' = [running EXCEPT ![n] = nodeConfigs[n]]
              /\ lastChange' = [lastChange EXCEPT ![n] = lastConfigChange[n]]
         ELSE UNCHANGED <<running, lastChange>>
    /\ UNCHANGED <<scheduled, ad, storeVars, leading, loop, advanced, move, linked, boundVars>>

----------------------------------------------------------------------------
(* The environment.                                                        *)

\* A node agent starts: its provider registers as soon as possible.
AgentStart(n) ==
    /\ agent[n] = "down"
    /\ agent' = [agent EXCEPT ![n] = "starting"]
    /\ UNCHANGED <<scheduled, ad, storeVars, leading, loop, advanced, move, running,
                   lastChange, linked, boundVars>>

\* A node agent stops or crashes, and with it the checks it runs.
AgentCrash(n) ==
    /\ faults < MaxFaults
    /\ agent[n] # "down"
    /\ faults' = faults + 1
    /\ agent' = [agent EXCEPT ![n] = "down"]
    /\ running' = [running EXCEPT ![n] = {}]
    /\ lastChange' = [lastChange EXCEPT ![n] = NoStamp]
    /\ UNCHANGED <<scheduled, ad, storeVars, leading, loop, advanced, move, linked, changes, moves>>

CutLink(n) ==
    /\ faults < MaxFaults
    /\ linked[n]
    /\ faults' = faults + 1
    /\ linked' = [linked EXCEPT ![n] = FALSE]
    /\ UNCHANGED <<scheduled, ad, storeVars, leading, loop, advanced, move, agent, running,
                   lastChange, changes, moves>>

HealLink(n) ==
    /\ ~linked[n]
    /\ linked' = [linked EXCEPT ![n] = TRUE]
    /\ UNCHANGED <<scheduled, ad, storeVars, leading, loop, advanced, move, agent, running,
                   lastChange, boundVars>>

\* node_expiration_timeout passes without a status of the node: it is down,
\* cut off, or late.
HeartbeatOld(n) ==
    /\ heartbeat[n]
    /\ heartbeat' = [heartbeat EXCEPT ![n] = FALSE]
    /\ IF agent[n] = "down" \/ ~linked[n]
         THEN UNCHANGED faults
         ELSE faults < MaxFaults /\ faults' = faults + 1
    /\ UNCHANGED <<scheduled, ad, active, digestToConfig, digestToNode, danglingConfigs, nodes,
                   lastConfigChange, nodeConfigs, runnerStats, stamp, leading, loop, advanced, move, agentVars, changes, moves>>

----------------------------------------------------------------------------
Autodiscovery ==
    \/ \E c \in Configs : ScheduleCall(c) \/ SchedulePick(c) \/ Unschedule(c)
    \/ ScheduleAdd

Leadership == WarmupOver \/ RunStarts \/ Failover

Cleanup ==
    \/ ExpireNodes \/ RetrieveDangling \/ RescheduleAdd \/ DeleteDangling
    \/ \E c \in Configs : ReschedulePick(c)

Rebalance ==
    \/ UpdateRunnersStats \/ MoveConfig \/ RebalanceDone
    \/ \E c \in Configs, src, dest \in Nodes : PickMove(c, src, dest)

Requests == \E n \in Nodes : 
        PostStatus(n) \/ StatusAnswerLost(n) \/ StatusOfExpired(n) \/ ExtraHeartbeat(n) \/ Collect(n)

Environment ==
    \E n \in Nodes :
        AgentStart(n) \/ AgentCrash(n) \/ CutLink(n) \/ HealLink(n) \/ HeartbeatOld(n)

Next == Autodiscovery \/ Leadership \/ Cleanup \/ Rebalance \/ Requests \/ Environment

\* The goroutines of the leader keep running, and an agent that is up keeps
\* polling; nothing makes a crashed agent return or a cut link heal.
Fairness ==
    /\ WF_vars(\E c \in Configs : SchedulePick(c)) /\ WF_vars(\E c \in Configs : ReschedulePick(c))
    /\ WF_vars(ScheduleAdd) /\ WF_vars(WarmupOver) /\ WF_vars(RunStarts)
    /\ WF_vars(ExpireNodes) /\ WF_vars(RetrieveDangling) /\ WF_vars(RescheduleAdd)
    /\ WF_vars(DeleteDangling)
    /\ \A n \in Nodes :
         WF_vars(PostStatus(n)) /\ WF_vars(Collect(n))
         /\ WF_vars(HeartbeatOld(n) /\ (agent[n] = "down" \/ ~linked[n]))

Spec == Init /\ [][Next]_vars /\ Fairness
----------------------------------------------------------------------------
(* Properties.                                                             *)

\* Every variable of the store has its type.
StoreTypeOK ==
    /\ active \in BOOLEAN
    /\ digestToConfig \subseteq Configs
    /\ digestToNode \in [Configs -> Nodes \cup {NoNode}]
    /\ danglingConfigs \subseteq Configs
    /\ nodes \subseteq Nodes
    /\ heartbeat \in [Nodes -> BOOLEAN]
    /\ lastConfigChange \in [Nodes -> Nat]
    /\ nodeConfigs \in [Nodes -> SUBSET Configs]
    /\ runnerStats \in [Nodes -> SUBSET Configs]
    /\ stamp \in [Nodes -> Nat]

\* Every variable has its type.
TypeOK ==
    /\ StoreTypeOK
    /\ scheduled \subseteq Configs
    /\ ad \in [todo : SUBSET Configs, config : Configs \cup {NoNode}, target : Nodes \cup {NoNode}]
    /\ advanced \in BOOLEAN
    /\ leading \in {"warmup", "registering", "dispatching"}
    /\ loop \in [pc : {"off", "idle", "expired", "dispatch"}, todo : SUBSET Configs,
                 config : Configs \cup {NoNode}, target : Nodes \cup {NoNode}, added : SUBSET Configs]
    /\ move \in [pc : {"idle", "picking", "moving"}, config : Configs \cup {NoNode},
                 src : Nodes \cup {NoNode}, dest : Nodes \cup {NoNode}]
    /\ agent \in [Nodes -> {"down", "starting", "idle", "collecting"}]
    /\ running \in [Nodes -> SUBSET Configs]
    /\ lastChange \in [Nodes -> Nat]
    /\ linked \in [Nodes -> BOOLEAN]
    /\ changes \in Nat /\ faults \in Nat /\ moves \in Nat

Owners(c) == {n \in nodes : c \in nodeConfigs[n]}

\* digestToNode and the nodeStores agree on c: it is served to the node
\* digestToNode names and to no other, and only while it is registered.
Agree(c) ==
    /\ Owners(c) = IF digestToNode[c] = NoNode THEN {} ELSE {digestToNode[c]}
    /\ Owners(c) # {} \/ c \in danglingConfigs => c \in digestToConfig

\* README.md of the package: the stores' methods "make sure the state stays
\* consistent", in particular a configuration has one assigned node.
OneOwner == \A c \in Configs : Agree(c)

\* Without a rebalance the store stays consistent, whichever node expires,
\* joins or comes back between the choice of a target and its use.
OneOwnerUntilMoved == moves = 0 => OneOwner

\* Whatever happens between two locked sections, every registered
\* configuration is assigned to a node or waits in danglingConfigs for the
\* next cleanup.
NothingForgotten == \A c \in digestToConfig : c \in danglingConfigs \/ Owners(c) # {}

\* The stamp an agent holds stands for what it runs: an agent the dispatcher
\* would answer "up to date" runs exactly the configurations assigned to it,
\* also after its nodeStore expired and was created anew, after it restarted,
\* and under another leader.
StampMeansConfigs ==
    \A n \in nodes :
        agent[n] # "down" /\ lastChange[n] = lastConfigChange[n] => running[n] = nodeConfigs[n]

\* A configuration autodiscovery removed leaves the store for good: the store
\* holds no configuration that is neither scheduled nor being scheduled.
RemovedStaysRemoved == digestToConfig \subseteq scheduled

Reachable(n) == agent[n] # "down" /\ linked[n]

\* The reachable agents that run c.
Runners(c) == {n \in Nodes : Reachable(n) /\ c \in running[n]}

\* A configuration that stays scheduled is, in the end, run by a reachable
\* agent, if some agent stays reachable: no crash, cut link, late heartbeat,
\* failover or rebalance leaves it dangling or on a dead node.  Without a
\* rebalance exactly one reachable agent runs it.
EventuallyRuns ==
    \A c \in Configs :
        <>[](c \in scheduled) /\ (\E n \in Nodes : <>[]Reachable(n))
            => <>[](IF moves = 0 THEN Cardinality(Runners(c)) = 1 ELSE Runners(c) # {})
============================================================================
