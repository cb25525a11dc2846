------------------------ MODULE ClusterChecksProofs ------------------------
(***************************************************************************)
(* Proofs about ClusterChecks, for any nodes, configurations, number of    *)
(* faults and number of moves: the store stays consistent until a          *)
(* rebalance, no configuration is forgotten, and a stamp stands for the    *)
(* configurations it was given with.                                       *)
(***************************************************************************)
EXTENDS ClusterChecks, TLAPS

\* A node without a nodeStore has the values of a new one.
GoneIsNew == \A n \in Nodes \ nodes : nodeConfigs[n] = {} /\ lastConfigChange[n] = NoStamp

\* Stamps are never ahead of the counter, and a new nodeStore is empty.
StampsOfStore ==
    \A n \in Nodes :
        /\ lastConfigChange[n] <= stamp[n]
        /\ lastConfigChange[n] = NoStamp => nodeConfigs[n] = {}

\* The same of the stamps of the agents, and what equal stamps mean.
StampsOfAgents ==
    \A n \in Nodes :
        /\ lastChange[n] <= stamp[n]
        /\ lastChange[n] = NoStamp => running[n] = {}
        /\ lastChange[n] = lastConfigChange[n] => running[n] = nodeConfigs[n]

\* digestToNode and the nodeStores agree on every configuration.
Consistent ==
    \A c \in Configs :
        /\ \A n \in Nodes : c \in nodeConfigs[n] <=> digestToNode[c] = n
        /\ digestToNode[c] # NoNode \/ c \in danglingConfigs => c \in digestToConfig

ConsistentUntilMoved == moves = 0 => Consistent /\ move.pc # "moving"

\* What the cleanup tick has added is assigned, or was removed since and is
\* not being added without a target.
AddedIsOwned ==
    loop.pc = "dispatch" =>
        /\ nodes # {}
        /\ loop.config # NoNode => loop.target # NoNode
        /\ \A c \in loop.added :
              \/ Owners(c) # {}
              \/ c \notin digestToConfig /\ ~(ad.config = c /\ ad.target = NoNode)

StoreInv == GoneIsNew /\ StampsOfStore /\ NothingForgotten
Inv == TypeOK /\ StoreInv /\ StampsOfAgents /\ ConsistentUntilMoved /\ AddedIsOwned

-----------------------------------------------------------------------------
(* The store.                                                               *)

\* What a change of nodeStores does to their configurations and stamps.
LEMMA ReassignDoes ==
    ASSUME StoreTypeOK, NEW c \in Configs, NEW add \in SUBSET Nodes, NEW drop \in SUBSET Nodes,
           Reassign(c, add, drop)
    PROVE  /\ nodeConfigs' \in [Nodes -> SUBSET Configs]
           /\ lastConfigChange' \in [Nodes -> Nat]
           /\ stamp' \in [Nodes -> Nat]
           /\ \A n \in Nodes : n \notin add /\ n \notin drop =>
                nodeConfigs'[n] = nodeConfigs[n] /\ lastConfigChange'[n] = lastConfigChange[n]
           /\ \A n \in Nodes, d \in Configs : d # c => (d \in nodeConfigs'[n] <=> d \in nodeConfigs[n])
           /\ \A n \in Nodes : c \in nodeConfigs'[n] <=> n \in add \/ (c \in nodeConfigs[n] /\ n \notin drop)
           /\ \A n \in Nodes :
                \/ /\ stamp'[n] = stamp[n] /\ lastConfigChange'[n] = lastConfigChange[n]
                   /\ nodeConfigs'[n] = nodeConfigs[n]
                \/ stamp'[n] = stamp[n] + 1 /\ lastConfigChange'[n] = stamp[n] + 1
  <1>1. nodeConfigs' \in [Nodes -> SUBSET Configs]
    BY DEF Reassign, StoreTypeOK
  <1>2. lastConfigChange' \in [Nodes -> Nat] /\ stamp' \in [Nodes -> Nat]
    BY DEF Reassign, StoreTypeOK
  <1>3. ASSUME NEW n \in Nodes
        PROVE  /\ n \notin add /\ n \notin drop =>
                    nodeConfigs'[n] = nodeConfigs[n] /\ lastConfigChange'[n] = lastConfigChange[n]
               /\ \A d \in Configs : d # c => (d \in nodeConfigs'[n] <=> d \in nodeConfigs[n])
               /\ c \in nodeConfigs'[n] <=> n \in add \/ (c \in nodeConfigs[n] /\ n \notin drop)
    BY DEF Reassign, StoreTypeOK
  <1>4. ASSUME NEW n \in Nodes
        PROVE  \/ /\ stamp'[n] = stamp[n] /\ lastConfigChange'[n] = lastConfigChange[n]
                  /\ nodeConfigs'[n] = nodeConfigs[n]
               \/ stamp'[n] = stamp[n] + 1 /\ lastConfigChange'[n] = stamp[n] + 1
    BY DEF Reassign, StoreTypeOK
  <1>. QED
    BY <1>1, <1>2, <1>3, <1>4

\* A nodeStore that changes gets a stamp nobody holds.
LEMMA ReassignStamps ==
    ASSUME StoreTypeOK, lastChange \in [Nodes -> Nat], StampsOfStore, StampsOfAgents,
           UNCHANGED <<running, lastChange>>,
           \A n \in Nodes :
              \/ /\ stamp'[n] = stamp[n] /\ lastConfigChange'[n] = lastConfigChange[n]
                 /\ nodeConfigs'[n] = nodeConfigs[n]
              \/ stamp'[n] = stamp[n] + 1 /\ lastConfigChange'[n] = stamp[n] + 1
    PROVE  StampsOfStore' /\ StampsOfAgents'
  <1>. SUFFICES ASSUME NEW n \in Nodes
                PROVE  /\ lastConfigChange'[n] <= stamp'[n]
                       /\ lastConfigChange'[n] = NoStamp => nodeConfigs'[n] = {}
                       /\ lastChange'[n] <= stamp'[n]
                       /\ lastChange'[n] = NoStamp => running'[n] = {}
                       /\ lastChange'[n] = lastConfigChange'[n] => running'[n] = nodeConfigs'[n]
    BY DEF StampsOfStore, StampsOfAgents
  <1>1. stamp[n] \in Nat /\ lastConfigChange[n] \in Nat /\ lastChange[n] \in Nat
    BY DEF StoreTypeOK
  <1>2. /\ lastConfigChange[n] <= stamp[n] /\ lastChange[n] <= stamp[n]
        /\ lastConfigChange[n] = NoStamp => nodeConfigs[n] = {}
        /\ lastChange[n] = NoStamp => running[n] = {}
        /\ lastChange[n] = lastConfigChange[n] => running[n] = nodeConfigs[n]
    BY DEF StampsOfStore, StampsOfAgents
  <1>3. CASE /\ stamp'[n] = stamp[n] /\ lastConfigChange'[n] = lastConfigChange[n]
             /\ nodeConfigs'[n] = nodeConfigs[n]
    BY <1>2, <1>3
  <1>4. CASE stamp'[n] = stamp[n] + 1 /\ lastConfigChange'[n] = stamp[n] + 1
    BY <1>1, <1>2, <1>4 DEF NoStamp
  <1>. QED
    BY <1>3, <1>4

\* dispatcher.addConfig keeps the store.
LEMMA AddConfigStore ==
    ASSUME TypeOK, StoreInv, StampsOfAgents, NEW c \in Configs, NEW t \in Nodes \cup {NoNode},
           AddConfig(c, t), UNCHANGED <<running, lastChange>>
    PROVE  /\ StoreTypeOK' /\ StoreInv' /\ StampsOfAgents'
           /\ nodes \subseteq nodes'
           /\ digestToConfig' = digestToConfig \cup {c}
           /\ \A d \in Configs : Owners(d) # {} => Owners(d)' # {}
           /\ t # NoNode => Owners(c)' # {}
           /\ Consistent => Consistent'
  <1>1. StoreTypeOK
    BY DEF TypeOK
  <1>2. CASE t = NoNode
    <2>1. /\ digestToConfig' = digestToConfig \cup {c} /\ danglingConfigs' = danglingConfigs \cup {c}
          /\ UNCHANGED <<digestToNode, nodes, nodeConfigs, stamp, lastConfigChange, active, heartbeat, runnerStats>>
      BY <1>2 DEF AddConfig
    <2>2. StoreTypeOK'
      BY <1>1, <2>1 DEF StoreTypeOK
    <2>3. GoneIsNew' /\ StampsOfStore' /\ StampsOfAgents' /\ NothingForgotten'
      BY <2>1 DEF StoreInv, GoneIsNew, StampsOfStore, StampsOfAgents, NothingForgotten, Owners
    <2>4. Consistent => Consistent'
      BY <2>1 DEF Consistent
    <2>. QED
      BY <1>2, <2>1, <2>2, <2>3, <2>4 DEF StoreInv, Owners
  <1>3. CASE t # NoNode
    <2>. DEFINE drop == {digestToNode[c]} \cap (nodes \ {t})
    <2>1. t \in Nodes /\ {t} \in SUBSET Nodes /\ drop \in SUBSET Nodes /\ t \notin drop
      BY <1>1, <1>3 DEF StoreTypeOK
    <2>2. /\ digestToConfig' = digestToConfig \cup {c} /\ nodes' = nodes \cup {t}
          /\ digestToNode' = [digestToNode EXCEPT ![c] = t] /\ Reassign(c, {t}, drop)
          /\ UNCHANGED <<danglingConfigs, active, heartbeat, runnerStats>>
      BY <1>3 DEF AddConfig
    <2>. HIDE DEF drop
    <2>3. /\ nodeConfigs' \in [Nodes -> SUBSET Configs]
          /\ lastConfigChange' \in [Nodes -> Nat] /\ stamp' \in [Nodes -> Nat]
          /\ \A n \in Nodes : n # t /\ n \notin drop =>
               nodeConfigs'[n] = nodeConfigs[n] /\ lastConfigChange'[n] = lastConfigChange[n]
          /\ \A n \in Nodes, d \in Configs : d # c => (d \in nodeConfigs'[n] <=> d \in nodeConfigs[n])
          /\ \A n \in Nodes : c \in nodeConfigs'[n] <=> n = t \/ (c \in nodeConfigs[n] /\ n \notin drop)
      <3>. DEFINE add == {t}
      <3>1. add \in SUBSET Nodes /\ Reassign(c, add, drop) /\ \A n : n \in add <=> n = t
        BY <2>1, <2>2
      <3>. HIDE DEF add
      <3>2. nodeConfigs' \in [Nodes -> SUBSET Configs] /\ lastConfigChange' \in [Nodes -> Nat] /\ stamp' \in [Nodes -> Nat]
        BY <1>1, <2>1, <3>1, ReassignDoes
      <3>3. \A n \in Nodes : n \notin add /\ n \notin drop =>
               nodeConfigs'[n] = nodeConfigs[n] /\ lastConfigChange'[n] = lastConfigChange[n]
        BY <1>1, <2>1, <3>1, ReassignDoes
      <3>4. \A n \in Nodes, d \in Configs : d # c => (d \in nodeConfigs'[n] <=> d \in nodeConfigs[n])
        BY <1>1, <2>1, <3>1, ReassignDoes
      <3>5. \A n \in Nodes : c \in nodeConfigs'[n] <=> n \in add \/ (c \in nodeConfigs[n] /\ n \notin drop)
        BY <1>1, <2>1, <3>1, ReassignDoes
      <3>. QED
        BY <3>1, <3>2, <3>3, <3>4, <3>5
    <2>4. StampsOfStore' /\ StampsOfAgents'
      BY <1>1, <2>1, <2>2, ReassignDoes, ReassignStamps DEF TypeOK, StoreInv
    <2>5. StoreTypeOK'
      BY <1>1, <2>1, <2>2, <2>3 DEF StoreTypeOK
    <2>6. GoneIsNew'
      BY <2>2, <2>3 DEF drop, GoneIsNew, StoreInv
    <2>7. \A d \in Configs : Owners(d) # {} => Owners(d)' # {}
      BY <1>1, <2>1, <2>2, <2>3 DEF Owners, StoreTypeOK
    <2>8. Owners(c)' # {}
      BY <2>1, <2>2, <2>3 DEF Owners
    <2>9. NothingForgotten'
      BY <1>1, <2>2, <2>7, <2>8 DEF StoreInv, NothingForgotten, StoreTypeOK
    <2>10. Consistent => Consistent'
      <3>. SUFFICES ASSUME Consistent, NEW d \in Configs
                    PROVE  /\ \A n \in Nodes : d \in nodeConfigs'[n] <=> digestToNode'[d] = n
                           /\ digestToNode'[d] # NoNode \/ d \in danglingConfigs' => d \in digestToConfig'
        BY DEF Consistent
      <3>1. CASE d # c
        BY <1>1, <2>2, <2>3, <3>1 DEF Consistent, StoreTypeOK
      <3>2. CASE d = c
        <4>1. digestToNode'[c] = t /\ c \in digestToConfig'
          BY <1>1, <2>2 DEF StoreTypeOK
        <4>2. ASSUME NEW n \in Nodes, c \in nodeConfigs[n], n # t PROVE n \in drop
          BY <4>2 DEF Consistent, drop, StoreInv, GoneIsNew
        <4>. QED
          BY <2>3, <3>2, <4>1, <4>2
      <3>. QED
        BY <3>1, <3>2
    <2>. QED
      BY <2>2, <2>4, <2>5, <2>6, <2>7, <2>8, <2>9, <2>10 DEF StoreInv
  <1>. QED
    BY <1>2, <1>3

\* dispatcher.removeConfig keeps the store.
LEMMA RemoveConfigStore ==
    ASSUME TypeOK, StoreInv, StampsOfAgents, NEW c \in Configs, RemoveConfig(c),
           UNCHANGED <<running, lastChange>>
    PROVE  /\ StoreTypeOK' /\ StoreInv' /\ StampsOfAgents'
           /\ nodes' = nodes
           /\ digestToConfig' = digestToConfig \ {c}
           /\ \A d \in Configs : d # c /\ Owners(d) # {} => Owners(d)' # {}
           /\ Consistent => Consistent'
  <1>. DEFINE drop == {digestToNode[c]} \cap nodes
  <1>1. StoreTypeOK
    BY DEF TypeOK
  <1>2. {} \in SUBSET Nodes /\ drop \in SUBSET Nodes
    BY <1>1 DEF StoreTypeOK
  <1>3. /\ digestToConfig' = digestToConfig \ {c} /\ digestToNode' = [digestToNode EXCEPT ![c] = NoNode]
        /\ danglingConfigs' = danglingConfigs \ {c} /\ Reassign(c, {}, drop)
        /\ UNCHANGED <<active, nodes, heartbeat, runnerStats>>
    BY DEF RemoveConfig
  <1>. HIDE DEF drop
  <1>4. /\ nodeConfigs' \in [Nodes -> SUBSET Configs]
        /\ lastConfigChange' \in [Nodes -> Nat] /\ stamp' \in [Nodes -> Nat]
        /\ \A n \in Nodes : n \notin drop =>
             nodeConfigs'[n] = nodeConfigs[n] /\ lastConfigChange'[n] = lastConfigChange[n]
        /\ \A n \in Nodes, d \in Configs : d # c => (d \in nodeConfigs'[n] <=> d \in nodeConfigs[n])
        /\ \A n \in Nodes : c \in nodeConfigs'[n] <=> c \in nodeConfigs[n] /\ n \notin drop
    <2>. DEFINE add == {}
    <2>1. add \in SUBSET Nodes /\ Reassign(c, add, drop) /\ \A n : n \notin add
      BY <1>3
    <2>. HIDE DEF add
    <2>2. nodeConfigs' \in [Nodes -> SUBSET Configs] /\ lastConfigChange' \in [Nodes -> Nat] /\ stamp' \in [Nodes -> Nat]
      BY <1>1, <1>2, <2>1, ReassignDoes
    <2>3. \A n \in Nodes : n \notin add /\ n \notin drop =>
             nodeConfigs'[n] = nodeConfigs[n] /\ lastConfigChange'[n] = lastConfigChange[n]
      BY <1>1, <1>2, <2>1, ReassignDoes
    <2>4. \A n \in Nodes, d \in Configs : d # c => (d \in nodeConfigs'[n] <=> d \in nodeConfigs[n])
      BY <1>1, <1>2, <2>1, ReassignDoes
    <2>5. \A n \in Nodes : c \in nodeConfigs'[n] <=> n \in add \/ (c \in nodeConfigs[n] /\ n \notin drop)
      BY <1>1, <1>2, <2>1, ReassignDoes
    <2>. QED
      BY <2>1, <2>2, <2>3, <2>4, <2>5
  <1>5. StampsOfStore' /\ StampsOfAgents'
    BY <1>1, <1>2, <1>3, ReassignDoes, ReassignStamps DEF TypeOK, StoreInv
  <1>6. StoreTypeOK'
    BY <1>1, <1>3, <1>4 DEF StoreTypeOK
  <1>7. GoneIsNew'
    BY <1>3, <1>4 DEF drop, GoneIsNew, StoreInv
  <1>8. \A d \in Configs : d # c /\ Owners(d) # {} => Owners(d)' # {}
    BY <1>1, <1>3, <1>4 DEF Owners, StoreTypeOK
  <1>9. NothingForgotten'
    BY <1>1, <1>3, <1>8 DEF StoreInv, NothingForgotten, StoreTypeOK
  <1>10. Consistent => Consistent'
    <2>. SUFFICES ASSUME Consistent, NEW d \in Configs
                  PROVE  /\ \A n \in Nodes : d \in nodeConfigs'[n] <=> digestToNode'[d] = n
                         /\ digestToNode'[d] # NoNode \/ d \in danglingConfigs' => d \in digestToConfig'
      BY DEF Consistent
    <2>1. CASE d # c
      BY <1>1, <1>3, <1>4, <2>1 DEF Consistent, StoreTypeOK
    <2>2. CASE d = c
      <3>1. digestToNode'[c] = NoNode /\ c \notin danglingConfigs'
        BY <1>1, <1>3 DEF StoreTypeOK
      <3>2. ASSUME NEW n \in Nodes, c \in nodeConfigs[n] PROVE n \in drop
        BY <3>2 DEF Consistent, drop, StoreInv, GoneIsNew
      <3>. QED
        BY <1>4, <2>2, <3>1, <3>2, NoNodeAssumption
    <2>. QED
      BY <2>1, <2>2
  <1>. QED
    BY <1>3, <1>5, <1>6, <1>7, <1>8, <1>9, <1>10 DEF StoreInv

\* What a step keeps of the store when it changes neither an assignment nor a stamp.
LEMMA StoreFrame ==
    ASSUME StoreInv, StampsOfAgents,
           UNCHANGED <<digestToConfig, digestToNode, danglingConfigs, nodes, lastConfigChange,
                       nodeConfigs, stamp, running, lastChange>>
    PROVE  /\ StoreInv' /\ StampsOfAgents' /\ (Consistent => Consistent')
           /\ \A d \in Configs : Owners(d)' = Owners(d)
  BY DEF StoreInv, GoneIsNew, StampsOfStore, NothingForgotten, StampsOfAgents, Consistent, Owners

\* getOrCreateNodeStore keeps the store: a node without a nodeStore gets a new one.
LEMMA NodeSeenStore ==
    ASSUME TypeOK, StoreInv, StampsOfAgents, NEW n \in Nodes, NodeSeen(n),
           UNCHANGED <<running, lastChange>>
    PROVE  /\ StoreTypeOK' /\ advanced' \in BOOLEAN /\ StoreInv' /\ StampsOfAgents'
           /\ nodes \subseteq nodes' /\ digestToConfig' = digestToConfig
           /\ Consistent => Consistent'
           /\ \A d \in Configs : Owners(d) # {} => Owners(d)' # {}
  <1>1. /\ nodes' = nodes \cup {n}
        /\ UNCHANGED <<active, digestToConfig, digestToNode, danglingConfigs, lastConfigChange,
                       nodeConfigs, runnerStats, stamp>>
    BY DEF NodeSeen
  <1>2. StoreTypeOK' /\ advanced' \in BOOLEAN
    BY DEF NodeSeen, TypeOK, StoreTypeOK
  <1>3. GoneIsNew' /\ StampsOfStore' /\ StampsOfAgents' /\ (Consistent => Consistent')
    BY <1>1 DEF StoreInv, GoneIsNew, StampsOfStore, StampsOfAgents, Consistent
  <1>4. \A d \in Configs : Owners(d) # {} => Owners(d)' # {}
    BY <1>1 DEF Owners
  <1>5. NothingForgotten'
    BY <1>1, <1>4 DEF StoreInv, NothingForgotten, TypeOK, StoreTypeOK
  <1>. QED
    BY <1>1, <1>2, <1>3, <1>4, <1>5 DEF StoreInv

\* expireNodes keeps the store: what an expired node had is dangling.
LEMMA ExpireNodesStore ==
    ASSUME TypeOK, StoreInv, StampsOfAgents, ExpireNodes
    PROVE  /\ StoreTypeOK' /\ StoreInv' /\ StampsOfAgents'
           /\ Consistent => Consistent'
  <1>. DEFINE expired == {n \in nodes : ~heartbeat[n]}
              lost == UNION {nodeConfigs[n] : n \in expired}
  <1>1. StoreTypeOK
    BY DEF TypeOK
  <1>2. expired \subseteq nodes /\ lost \subseteq Configs
        /\ \A c : c \in lost <=> \E n \in expired : c \in nodeConfigs[n]
    BY <1>1 DEF StoreTypeOK
  <1>3. /\ nodes' = nodes \ expired
        /\ digestToNode' = [c \in Configs |-> IF c \in lost THEN NoNode ELSE digestToNode[c]]
        /\ danglingConfigs' = danglingConfigs \cup lost
        /\ nodeConfigs' = [n \in Nodes |-> IF n \in expired THEN {} ELSE nodeConfigs[n]]
        /\ runnerStats' = [n \in Nodes |-> IF n \in expired THEN {} ELSE runnerStats[n]]
        /\ lastConfigChange' = [n \in Nodes |-> IF n \in expired THEN NoStamp ELSE lastConfigChange[n]]
        /\ UNCHANGED <<active, digestToConfig, heartbeat, stamp, running, lastChange>>
    BY DEF ExpireNodes, agentVars
  <1>. HIDE DEF expired, lost
  <1>4. StoreTypeOK'
    BY <1>1, <1>2, <1>3 DEF StoreTypeOK, NoStamp
  <1>5. \A n \in Nodes : /\ n \in expired => nodeConfigs'[n] = {} /\ lastConfigChange'[n] = NoStamp
                         /\ n \notin expired => nodeConfigs'[n] = nodeConfigs[n] /\ lastConfigChange'[n] = lastConfigChange[n]
    BY <1>3
  <1>6. GoneIsNew'
    BY <1>3, <1>5 DEF StoreInv, GoneIsNew
  <1>7. StampsOfStore' /\ StampsOfAgents'
    <2>. SUFFICES ASSUME NEW n \in Nodes
                  PROVE  /\ lastConfigChange'[n] <= stamp[n]
                         /\ lastConfigChange'[n] = NoStamp => nodeConfigs'[n] = {}
                         /\ lastChange[n] <= stamp[n]
                         /\ lastChange[n] = NoStamp => running[n] = {}
                         /\ lastChange[n] = lastConfigChange'[n] => running[n] = nodeConfigs'[n]
      BY <1>3 DEF StampsOfStore, StampsOfAgents
    <2>1. stamp[n] \in Nat
      BY <1>1 DEF StoreTypeOK
    <2>. QED
      BY <1>5, <2>1 DEF StoreInv, StampsOfStore, StampsOfAgents, NoStamp
  <1>8. NothingForgotten'
    <2>. SUFFICES ASSUME NEW c \in digestToConfig, c \notin danglingConfigs, c \notin lost
                  PROVE  \E n \in nodes \ expired : c \in nodeConfigs'[n]
      BY <1>3 DEF NothingForgotten, Owners
    <2>1. PICK n \in nodes : c \in nodeConfigs[n]
      BY DEF StoreInv, NothingForgotten, Owners
    <2>. QED
      BY <1>1, <1>2, <1>5, <2>1 DEF StoreTypeOK
  <1>9. Consistent => Consistent'
    <2>. SUFFICES ASSUME Consistent, NEW c \in Configs
                  PROVE  /\ \A n \in Nodes : c \in nodeConfigs'[n] <=> digestToNode'[c] = n
                         /\ digestToNode'[c] # NoNode \/ c \in danglingConfigs' => c \in digestToConfig'
      BY DEF Consistent
    <2>1. CASE c \in lost
      <3>1. digestToNode'[c] = NoNode
        BY <1>3, <2>1
      <3>2. PICK m \in expired : c \in nodeConfigs[m]
        BY <1>2, <2>1
      <3>3. m \in Nodes /\ digestToNode[c] = m /\ m # NoNode
        BY <1>1, <1>2, <3>2, NoNodeAssumption DEF StoreTypeOK, Consistent
      <3>4. ASSUME NEW n \in Nodes PROVE c \notin nodeConfigs'[n]
        BY <1>5, <3>2, <3>3 DEF Consistent
      <3>5. c \in digestToConfig
        BY <3>3 DEF Consistent
      <3>. QED
        BY <1>3, <3>1, <3>4, <3>5, NoNodeAssumption
    <2>2. CASE c \notin lost
      <3>1. digestToNode'[c] = digestToNode[c]
        BY <1>3, <2>2
      <3>2. ASSUME NEW n \in Nodes PROVE c \in nodeConfigs'[n] <=> c \in nodeConfigs[n]
        BY <1>2, <1>5, <2>2
      <3>. QED
        BY <1>3, <2>2, <3>1, <3>2 DEF Consistent
    <2>. QED
      BY <2>1, <2>2
  <1>. QED
    BY <1>4, <1>6, <1>7, <1>8, <1>9 DEF StoreInv

\* moveConfig keeps the store, except that it stays consistent only when the
\* source is the node digestToNode names.
LEMMA MoveConfigStore ==
    ASSUME TypeOK, StoreInv, StampsOfAgents, MoveConfig
    PROVE  /\ StoreTypeOK' /\ StoreInv' /\ StampsOfAgents'
           /\ nodes' = nodes /\ digestToConfig' = digestToConfig
           /\ \A d \in Configs : Owners(d) # {} => Owners(d)' # {}
  <1>. DEFINE c == move.config
              src == move.src
              dest == move.dest
              legal == src \in nodes /\ dest \in nodes /\ c \in digestToConfig /\ c \in runnerStats[src]
  <1>1. StoreTypeOK
    BY DEF TypeOK
  <1>2. UNCHANGED <<active, digestToConfig, danglingConfigs, nodes, heartbeat, running, lastChange>>
    BY DEF MoveConfig, agentVars
  <1>3. CASE ~legal
    <2>1. UNCHANGED <<digestToNode, runnerStats, nodeConfigs, stamp, lastConfigChange>>
      BY <1>3 DEF MoveConfig
    <2>2. StoreTypeOK'
      BY <1>1, <1>2, <2>1 DEF StoreTypeOK
    <2>3. /\ StoreInv' /\ StampsOfAgents'
          /\ \A d \in Configs : Owners(d)' = Owners(d)
      BY <1>2, <2>1, StoreFrame
    <2>. QED
      BY <1>2, <2>2, <2>3
  <1>4. CASE legal
    <2>1. c \in Configs /\ src \in Nodes /\ dest \in Nodes /\ src \in nodes /\ dest \in nodes
      BY <1>1, <1>4 DEF StoreTypeOK
    <2>2. /\ digestToNode' = [digestToNode EXCEPT ![c] = dest]
          /\ runnerStats' = [runnerStats EXCEPT ![src] = @ \ {c}, ![dest] = @ \cup {c}]
          /\ Reassign(c, {dest}, {src})
      BY <1>4 DEF MoveConfig
    <2>. HIDE DEF c, src, dest, legal
    <2>. DEFINE add == {dest}
                drop == {src}
    <2>3. /\ add \in SUBSET Nodes /\ drop \in SUBSET Nodes /\ Reassign(c, add, drop)
          /\ \A n : n \in add <=> n = dest
          /\ \A n : n \in drop <=> n = src
      BY <2>1, <2>2
    <2>. HIDE DEF add, drop
    <2>4. /\ nodeConfigs' \in [Nodes -> SUBSET Configs] /\ lastConfigChange' \in [Nodes -> Nat]
          /\ stamp' \in [Nodes -> Nat]
      BY <1>1, <2>1, <2>3, ReassignDoes
    <2>5. \A n \in Nodes : n \notin add /\ n \notin drop =>
             nodeConfigs'[n] = nodeConfigs[n] /\ lastConfigChange'[n] = lastConfigChange[n]
      BY <1>1, <2>1, <2>3, ReassignDoes
    <2>6. \A n \in Nodes, d \in Configs : d # c => (d \in nodeConfigs'[n] <=> d \in nodeConfigs[n])
      BY <1>1, <2>1, <2>3, ReassignDoes
    <2>7. c \in nodeConfigs'[dest]
      BY <1>1, <2>1, <2>2 DEF Reassign, StoreTypeOK
    <2>8. StampsOfStore' /\ StampsOfAgents'
      BY <1>1, <1>2, <2>1, <2>3, ReassignDoes, ReassignStamps DEF TypeOK, StoreInv
    <2>9. StoreTypeOK'
      <3>1. runnerStats' \in [Nodes -> SUBSET Configs]
        BY <1>1, <2>1, <2>2 DEF StoreTypeOK
      <3>2. digestToNode' \in [Configs -> Nodes \cup {NoNode}]
        BY <1>1, <2>1, <2>2 DEF StoreTypeOK
      <3>. QED
        BY <1>1, <1>2, <2>4, <3>1, <3>2 DEF StoreTypeOK
    <2>10. GoneIsNew'
      BY <1>2, <2>1, <2>3, <2>5 DEF GoneIsNew, StoreInv
    <2>11. ASSUME NEW d \in Configs, Owners(d) # {} PROVE Owners(d)' # {}
      BY <1>1, <1>2, <2>1, <2>6, <2>7, <2>11 DEF Owners, StoreTypeOK
    <2>12. NothingForgotten'
      BY <1>1, <1>2, <2>11 DEF StoreInv, NothingForgotten, StoreTypeOK
    <2>. QED
      BY <1>2, <2>8, <2>9, <2>10, <2>11, <2>12 DEF StoreInv
  <1>. QED
    BY <1>3, <1>4

-----------------------------------------------------------------------------
(* The steps.                                                               *)

\* getNodeToScheduleCheck finds a node when one is known.
LEMMA TargetsKnown ==
    ASSUME TypeOK, NEW t \in Targets
    PROVE  t \in Nodes \cup {NoNode} /\ (nodes # {} => t # NoNode)
  BY NoNodeAssumption DEF Targets, TypeOK, StoreTypeOK

\* The cleanup tick when only the store and autodiscovery move.
LEMMA AddedFrame ==
    ASSUME TypeOK, AddedIsOwned, UNCHANGED loop, nodes \subseteq nodes',
           \A d \in Configs : Owners(d) # {} => Owners(d)' # {},
           digestToConfig' = digestToConfig, UNCHANGED ad
    PROVE  AddedIsOwned'
  BY DEF AddedIsOwned, TypeOK

\* The cleanup tick outside its dispatch.
LEMMA AddedIdle ==
    ASSUME loop'.pc # "dispatch"
    PROVE  AddedIsOwned'
  BY DEF AddedIsOwned

\* The idle states of the goroutines have their types.
LEMMA IdleRecords ==
    /\ AdIdle.todo = {} /\ AdIdle.config = NoNode /\ AdIdle.target = NoNode
    /\ AdIdle \in [todo : SUBSET Configs, config : Configs \cup {NoNode}, target : Nodes \cup {NoNode}]
    /\ LoopIdle.pc = "idle" /\ LoopOff.pc = "off"
    /\ LoopIdle \in [pc : {"off", "idle", "expired", "dispatch"}, todo : SUBSET Configs,
                     config : Configs \cup {NoNode}, target : Nodes \cup {NoNode}, added : SUBSET Configs]
    /\ LoopOff \in [pc : {"off", "idle", "expired", "dispatch"}, todo : SUBSET Configs,
                    config : Configs \cup {NoNode}, target : Nodes \cup {NoNode}, added : SUBSET Configs]
    /\ NoMove.pc = "idle"
    /\ NoMove \in [pc : {"idle", "picking", "moving"}, config : Configs \cup {NoNode},
                   src : Nodes \cup {NoNode}, dest : Nodes \cup {NoNode}]
  BY DEF AdIdle, LoopIdle, LoopOff, NoMove

\* A leader that starts, before any agent is known.
LEMMA InitInv == Init => Inv
  <1>. SUFFICES ASSUME Init PROVE Inv
    OBVIOUS
  <1>1. TypeOK
    BY IdleRecords, AdvancedAssumption DEF Init, TypeOK, StoreTypeOK, NoStamp
  <1>2. StoreInv /\ StampsOfAgents
    BY DEF Init, StoreInv, GoneIsNew, StampsOfStore, NothingForgotten, StampsOfAgents, NoStamp
  <1>3. ConsistentUntilMoved
    BY IdleRecords, NoNodeAssumption DEF Init, ConsistentUntilMoved, Consistent
  <1>4. AddedIsOwned
    BY IdleRecords DEF Init, AddedIsOwned
  <1>. QED
    BY <1>1, <1>2, <1>3, <1>4 DEF Inv

\* Schedule and Unschedule, section by section.
LEMMA AutodiscoveryStep ==
    ASSUME Inv, Autodiscovery
    PROVE  Inv'
  <1>. USE DEF Inv
  <1>1. ASSUME NEW c \in Configs, ScheduleCall(c) PROVE Inv'
    <2>1. /\ UNCHANGED <<storeVars, leading, loop, advanced, move, agentVars, faults, moves>>
          /\ ad = AdIdle /\ scheduled' = scheduled \cup {c} /\ changes' = changes + 1
          /\ ad' = IF Registered THEN [AdIdle EXCEPT !.todo = {c}] ELSE AdIdle
      BY <1>1 DEF ScheduleCall
    <2>2. ad' \in [todo : SUBSET Configs, config : Configs \cup {NoNode}, target : Nodes \cup {NoNode}]
          /\ ad'.config = NoNode
      BY <2>1 DEF AdIdle
    <2>3. TypeOK'
      BY <2>1, <2>2 DEF TypeOK, StoreTypeOK, storeVars, agentVars
    <2>4. /\ StoreInv' /\ StampsOfAgents' /\ (Consistent => Consistent')
          /\ \A d \in Configs : Owners(d)' = Owners(d)
      BY <2>1, StoreFrame DEF storeVars, agentVars
    <2>5. ConsistentUntilMoved'
      BY <2>1, <2>4 DEF ConsistentUntilMoved
    <2>6. AddedIsOwned'
      BY <2>1, <2>2, <2>4, NoNodeAssumption DEF AddedIsOwned, TypeOK, storeVars
    <2>. QED
      BY <2>3, <2>4, <2>5, <2>6
  <1>2. ASSUME NEW c \in Configs, SchedulePick(c) PROVE Inv'
    <2>1. UNCHANGED <<scheduled, storeVars, leading, loop, advanced, move, agentVars, boundVars>>
      BY <1>2 DEF SchedulePick
    <2>2. PICK t \in Targets : ad' = [ad EXCEPT !.config = c, !.target = t]
      BY <1>2 DEF SchedulePick
    <2>3. t \in Nodes \cup {NoNode} /\ (nodes # {} => t # NoNode)
      BY TargetsKnown
    <2>4. ad' \in [todo : SUBSET Configs, config : Configs \cup {NoNode}, target : Nodes \cup {NoNode}]
          /\ ad'.target = t
      BY <2>2, <2>3 DEF TypeOK
    <2>5. TypeOK'
      BY <2>1, <2>4 DEF TypeOK, StoreTypeOK, storeVars, agentVars, boundVars
    <2>6. /\ StoreInv' /\ StampsOfAgents' /\ (Consistent => Consistent')
          /\ \A d \in Configs : Owners(d)' = Owners(d)
      BY <2>1, StoreFrame DEF storeVars, agentVars
    <2>7. ConsistentUntilMoved'
      BY <2>1, <2>6 DEF ConsistentUntilMoved, boundVars
    <2>8. AddedIsOwned'
      BY <2>1, <2>3, <2>4, <2>6 DEF AddedIsOwned, TypeOK, storeVars
    <2>. QED
      BY <2>5, <2>6, <2>7, <2>8
  <1>3. ASSUME ScheduleAdd PROVE Inv'
    <2>1. /\ UNCHANGED <<scheduled, leading, loop, advanced, move, agentVars, boundVars>>
          /\ AddConfig(ad.config, ad.target) /\ ad' = [AdIdle EXCEPT !.todo = ad.todo \ {ad.config}]
      BY <1>3 DEF ScheduleAdd
    <2>2. PICK c \in Configs, t \in Nodes \cup {NoNode} : c = ad.config /\ t = ad.target
      BY <1>3 DEF ScheduleAdd, Adding, TypeOK
    <2>3. /\ StoreTypeOK' /\ StoreInv' /\ StampsOfAgents'
          /\ nodes \subseteq nodes' /\ digestToConfig' = digestToConfig \cup {c}
          /\ \A d \in Configs : Owners(d) # {} => Owners(d)' # {}
          /\ t # NoNode => Owners(c)' # {}
          /\ Consistent => Consistent'
      BY <2>1, <2>2, AddConfigStore DEF agentVars
    <2>4. ad' \in [todo : SUBSET Configs, config : Configs \cup {NoNode}, target : Nodes \cup {NoNode}]
          /\ ad'.config = NoNode
      BY <2>1 DEF AdIdle, TypeOK
    <2>5. TypeOK'
      BY <2>1, <2>3, <2>4 DEF TypeOK, agentVars, boundVars
    <2>6. ConsistentUntilMoved'
      BY <2>1, <2>3 DEF ConsistentUntilMoved, boundVars
    <2>7. AddedIsOwned'
      <3>. SUFFICES ASSUME loop.pc = "dispatch"
                    PROVE  /\ nodes' # {}
                           /\ loop.config # NoNode => loop.target # NoNode
                           /\ \A d \in loop.added :
                                \/ Owners(d)' # {}
                                \/ d \notin digestToConfig' /\ ~(ad'.config = d /\ ad'.target = NoNode)
        BY <2>1 DEF AddedIsOwned
      <3>1. nodes' # {} /\ (loop.config # NoNode => loop.target # NoNode)
        BY <2>3 DEF AddedIsOwned
      <3>2. ASSUME NEW d \in loop.added, Owners(d)' = {}
            PROVE  d \notin digestToConfig' /\ ad'.config # d
        <4>1. d \in Configs /\ d # NoNode
          BY NoNodeAssumption DEF TypeOK
        <4>2. Owners(d) = {}
          BY <2>3, <3>2, <4>1
        <4>3. d \notin digestToConfig /\ ~(ad.config = d /\ ad.target = NoNode)
          BY <4>2 DEF AddedIsOwned
        <4>4. d # c
          BY <2>2, <2>3, <3>2, <4>3
        <4>. QED
          BY <2>3, <2>4, <4>1, <4>3, <4>4
      <3>. QED
        BY <3>1, <3>2
    <2>. QED
      BY <2>3, <2>5, <2>6, <2>7
  <1>4. ASSUME NEW c \in Configs, Unschedule(c) PROVE Inv'
    <2>1. /\ UNCHANGED <<ad, leading, loop, advanced, move, agentVars, faults, moves>>
          /\ scheduled' = scheduled \ {c} /\ changes' = changes + 1 /\ ad.config = NoNode
      BY <1>4, IdleRecords DEF Unschedule
    <2>2. /\ StoreTypeOK' /\ StoreInv' /\ StampsOfAgents' /\ (Consistent => Consistent')
          /\ nodes' = nodes /\ digestToConfig' \subseteq digestToConfig
          /\ \A d \in Configs : Owners(d) # {} => Owners(d)' # {} \/ d \notin digestToConfig'
      <3>1. CASE Registered
        BY <1>4, <2>1, <3>1, RemoveConfigStore DEF Unschedule, agentVars
      <3>2. CASE ~Registered
        <4>1. UNCHANGED storeVars
          BY <1>4, <3>2 DEF Unschedule
        <4>2. StoreTypeOK'
          BY <4>1 DEF TypeOK, StoreTypeOK, storeVars
        <4>. QED
          BY <2>1, <4>1, <4>2, StoreFrame DEF storeVars, agentVars
      <3>. QED
        BY <3>1, <3>2
    <2>3. TypeOK'
      BY <2>1, <2>2 DEF TypeOK, agentVars
    <2>4. ConsistentUntilMoved'
      BY <2>1, <2>2 DEF ConsistentUntilMoved
    <2>5. AddedIsOwned'
      <3>. SUFFICES ASSUME loop.pc = "dispatch"
                    PROVE  /\ nodes # {}
                           /\ loop.config # NoNode => loop.target # NoNode
                           /\ \A d \in loop.added :
                                \/ Owners(d)' # {}
                                \/ d \notin digestToConfig' /\ ~(ad.config = d /\ ad.target = NoNode)
        BY <2>1, <2>2 DEF AddedIsOwned
      <3>1. nodes # {} /\ (loop.config # NoNode => loop.target # NoNode)
        BY DEF AddedIsOwned
      <3>2. ASSUME NEW d \in loop.added, Owners(d)' = {}
            PROVE  d \notin digestToConfig' /\ ad.config # d
        <4>1. d \in Configs /\ d # NoNode
          BY NoNodeAssumption DEF TypeOK
        <4>2. Owners(d) # {} \/ d \notin digestToConfig
          BY DEF AddedIsOwned
        <4>. QED
          BY <2>1, <2>2, <3>2, <4>1, <4>2
      <3>. QED
        BY <3>1, <3>2
    <2>. QED
      BY <2>2, <2>3, <2>4, <2>5
  <1>. QED
    BY <1>1, <1>2, <1>3, <1>4 DEF Autodiscovery

\* The warm-up, the start of the run loop and a failover.
LEMMA LeadershipStep ==
    ASSUME Inv, Leadership
    PROVE  Inv'
  <1>. USE DEF Inv
  <1>1. ASSUME WarmupOver PROVE Inv'
    <2>1. /\ UNCHANGED <<scheduled, storeVars, loop, move, agentVars, boundVars>>
          /\ leading' = "registering" /\ ad' = [AdIdle EXCEPT !.todo = scheduled]
          /\ advanced' = (advanced /\ nodes \cap NodeAgents = {})
      BY <1>1 DEF WarmupOver
    <2>2. ad' \in [todo : SUBSET Configs, config : Configs \cup {NoNode}, target : Nodes \cup {NoNode}]
          /\ ad'.config = NoNode
      BY <2>1 DEF AdIdle, TypeOK
    <2>3. TypeOK'
      BY <2>1, <2>2 DEF TypeOK, StoreTypeOK, storeVars, agentVars, boundVars
    <2>4. /\ StoreInv' /\ StampsOfAgents' /\ (Consistent => Consistent')
          /\ \A d \in Configs : Owners(d)' = Owners(d)
      BY <2>1, StoreFrame DEF storeVars, agentVars
    <2>5. ConsistentUntilMoved'
      BY <2>1, <2>4 DEF ConsistentUntilMoved, boundVars
    <2>6. AddedIsOwned'
      BY <2>1, <2>2, <2>4, NoNodeAssumption DEF AddedIsOwned, TypeOK, storeVars
    <2>. QED
      BY <2>3, <2>4, <2>5, <2>6
  <1>2. ASSUME RunStarts PROVE Inv'
    <2>1. /\ UNCHANGED <<scheduled, ad, digestToConfig, digestToNode, danglingConfigs, nodes, heartbeat,
                         lastConfigChange, nodeConfigs, runnerStats, stamp, advanced, move,
                         agentVars, boundVars>>
          /\ leading' = "dispatching" /\ active' = TRUE /\ loop' = LoopIdle
      BY <1>2 DEF RunStarts
    <2>2. TypeOK'
      BY <2>1, IdleRecords DEF TypeOK, StoreTypeOK, agentVars, boundVars
    <2>3. /\ StoreInv' /\ StampsOfAgents' /\ (Consistent => Consistent')
      BY <2>1, StoreFrame DEF agentVars
    <2>4. ConsistentUntilMoved'
      BY <2>1, <2>3 DEF ConsistentUntilMoved, boundVars
    <2>5. AddedIsOwned'
      BY <2>1, AddedIdle, IdleRecords
    <2>. QED
      BY <2>2, <2>3, <2>4, <2>5
  <1>3. ASSUME Failover PROVE Inv'
    <2>1. UNCHANGED <<scheduled, agentVars, stamp, changes, moves>> /\ faults' = faults + 1
      BY <1>3 DEF Failover
    <2>2. TypeOK'
      <3>1. StoreTypeOK'
        BY <1>3, <2>1 DEF Failover, TypeOK, StoreTypeOK, NoStamp
      <3>2. /\ leading' = "warmup" /\ ad' = AdIdle /\ loop' = LoopOff /\ move' = NoMove
            /\ advanced' = AdvancedDispatching
        BY <1>3 DEF Failover
      <3>. QED
        BY <2>1, <3>1, <3>2, IdleRecords, AdvancedAssumption DEF TypeOK, agentVars
    <2>3. GoneIsNew' /\ NothingForgotten' /\ Consistent'
      BY <1>3, NoNodeAssumption DEF Failover, GoneIsNew, NothingForgotten, Consistent
    <2>4. StampsOfStore' /\ StampsOfAgents'
      <3>. SUFFICES ASSUME NEW n \in Nodes
                    PROVE  /\ lastConfigChange'[n] <= stamp[n]
                           /\ lastConfigChange'[n] = NoStamp => nodeConfigs'[n] = {}
                           /\ lastChange[n] <= stamp[n]
                           /\ lastChange[n] = NoStamp => running[n] = {}
                           /\ lastChange[n] = lastConfigChange'[n] => running[n] = nodeConfigs'[n]
        BY <2>1 DEF StampsOfStore, StampsOfAgents, agentVars
      <3>1. lastConfigChange'[n] = NoStamp /\ nodeConfigs'[n] = {} /\ stamp[n] \in Nat
        BY <1>3 DEF Failover, TypeOK, StoreTypeOK
      <3>. QED
        BY <3>1 DEF StampsOfAgents, NoStamp
    <2>5. ConsistentUntilMoved'
      BY <1>3, <2>3, IdleRecords DEF ConsistentUntilMoved, Failover
    <2>6. AddedIsOwned'
      BY <1>3, AddedIdle, IdleRecords DEF Failover
    <2>. QED
      BY <2>2, <2>3, <2>4, <2>5, <2>6 DEF StoreInv
  <1>. QED
    BY <1>1, <1>2, <1>3 DEF Leadership

\* One cleanup tick: what it added it may forget, the rest stays dangling.
LEMMA CleanupStep ==
    ASSUME Inv, Cleanup
    PROVE  Inv'
  <1>. USE DEF Inv
  <1>1. ASSUME ExpireNodes PROVE Inv'
    <2>1. /\ UNCHANGED <<scheduled, ad, leading, advanced, move, agentVars, boundVars>>
          /\ loop' = [LoopIdle EXCEPT !.pc = "expired"]
      BY <1>1 DEF ExpireNodes
    <2>2. StoreTypeOK' /\ StoreInv' /\ StampsOfAgents' /\ (Consistent => Consistent')
      BY <1>1, ExpireNodesStore
    <2>3. loop' \in [pc : {"off", "idle", "expired", "dispatch"}, todo : SUBSET Configs,
                    config : Configs \cup {NoNode}, target : Nodes \cup {NoNode}, added : SUBSET Configs]
          /\ loop'.pc = "expired"
      BY <2>1 DEF LoopIdle
    <2>4. TypeOK'
      BY <2>1, <2>2, <2>3 DEF TypeOK, agentVars, boundVars
    <2>5. ConsistentUntilMoved'
      BY <2>1, <2>2 DEF ConsistentUntilMoved, boundVars
    <2>6. AddedIsOwned'
      BY <2>3, AddedIdle
    <2>. QED
      BY <2>2, <2>4, <2>5, <2>6
  <1>2. ASSUME RetrieveDangling PROVE Inv'
    <2>1. /\ UNCHANGED <<scheduled, ad, storeVars, leading, advanced, move, agentVars, boundVars>>
          /\ loop' = IF danglingConfigs # {} /\ nodes # {}
                       THEN [LoopIdle EXCEPT !.pc = "dispatch", !.todo = danglingConfigs]
                       ELSE LoopIdle
      BY <1>2 DEF RetrieveDangling
    <2>2. /\ loop' \in [pc : {"off", "idle", "expired", "dispatch"}, todo : SUBSET Configs,
                    config : Configs \cup {NoNode}, target : Nodes \cup {NoNode}, added : SUBSET Configs]
          /\ loop'.added = {} /\ loop'.config = NoNode
          /\ loop'.pc = "dispatch" => nodes # {}
      BY <2>1 DEF LoopIdle, TypeOK, StoreTypeOK
    <2>3. TypeOK'
      BY <2>1, <2>2 DEF TypeOK, StoreTypeOK, storeVars, agentVars, boundVars
    <2>4. StoreInv' /\ StampsOfAgents' /\ (Consistent => Consistent')
      BY <2>1, StoreFrame DEF storeVars, agentVars
    <2>5. ConsistentUntilMoved'
      BY <2>1, <2>4 DEF ConsistentUntilMoved, boundVars
    <2>6. AddedIsOwned'
      BY <2>1, <2>2 DEF AddedIsOwned, storeVars
    <2>. QED
      BY <2>3, <2>4, <2>5, <2>6
  <1>3. ASSUME NEW c \in Configs, ReschedulePick(c) PROVE Inv'
    <2>1. /\ UNCHANGED <<scheduled, ad, storeVars, leading, advanced, move, agentVars, boundVars>>
          /\ loop.pc = "dispatch"
      BY <1>3 DEF ReschedulePick
    <2>2. PICK t \in Targets : loop' = [loop EXCEPT !.config = c, !.target = t]
      BY <1>3 DEF ReschedulePick
    <2>3. nodes # {} /\ t \in Nodes
      BY <2>1, TargetsKnown DEF AddedIsOwned
    <2>4. /\ loop' \in [pc : {"off", "idle", "expired", "dispatch"}, todo : SUBSET Configs,
                    config : Configs \cup {NoNode}, target : Nodes \cup {NoNode}, added : SUBSET Configs]
          /\ loop'.added = loop.added /\ loop'.target = t
      BY <2>2, <2>3 DEF TypeOK
    <2>5. TypeOK'
      BY <2>1, <2>4 DEF TypeOK, StoreTypeOK, storeVars, agentVars, boundVars
    <2>6. /\ StoreInv' /\ StampsOfAgents' /\ (Consistent => Consistent')
          /\ \A d \in Configs : Owners(d)' = Owners(d)
      BY <2>1, StoreFrame DEF storeVars, agentVars
    <2>7. ConsistentUntilMoved'
      BY <2>1, <2>6 DEF ConsistentUntilMoved, boundVars
    <2>8. AddedIsOwned'
      BY <2>1, <2>3, <2>4, <2>6, NoNodeAssumption DEF AddedIsOwned, TypeOK, storeVars
    <2>. QED
      BY <2>5, <2>6, <2>7, <2>8
  <1>4. ASSUME RescheduleAdd PROVE Inv'
    <2>1. /\ UNCHANGED <<scheduled, ad, leading, advanced, move, agentVars, boundVars>>
          /\ loop.pc = "dispatch" /\ loop.config # NoNode
          /\ AddConfig(loop.config, loop.target)
          /\ loop' = [loop EXCEPT !.todo = @ \ {loop.config}, !.config = NoNode, !.target = NoNode,
                                  !.added = IF loop.target = NoNode THEN @ ELSE @ \cup {loop.config}]
      BY <1>4 DEF RescheduleAdd
    <2>2. PICK c \in Configs, t \in Nodes : c = loop.config /\ t = loop.target /\ t # NoNode
      BY <2>1 DEF TypeOK, AddedIsOwned
    <2>3. /\ StoreTypeOK' /\ StoreInv' /\ StampsOfAgents'
          /\ nodes \subseteq nodes' /\ digestToConfig' = digestToConfig \cup {c}
          /\ \A d \in Configs : Owners(d) # {} => Owners(d)' # {}
          /\ Owners(c)' # {}
          /\ Consistent => Consistent'
      BY <2>1, <2>2, AddConfigStore DEF agentVars
    <2>4. /\ loop' \in [pc : {"off", "idle", "expired", "dispatch"}, todo : SUBSET Configs,
                    config : Configs \cup {NoNode}, target : Nodes \cup {NoNode}, added : SUBSET Configs]
          /\ loop'.added = loop.added \cup {c} /\ loop'.config = NoNode
      BY <2>1, <2>2 DEF TypeOK
    <2>5. TypeOK'
      BY <2>1, <2>3, <2>4 DEF TypeOK, agentVars, boundVars
    <2>6. ConsistentUntilMoved'
      BY <2>1, <2>3 DEF ConsistentUntilMoved, boundVars
    <2>7. AddedIsOwned'
      <3>1. ASSUME NEW d \in loop.added \cup {c}, Owners(d)' = {}
            PROVE  d \notin digestToConfig' /\ ~(ad.config = d /\ ad.target = NoNode)
        <4>1. d # c /\ d \in loop.added /\ d \in Configs
          BY <2>3, <3>1 DEF TypeOK
        <4>2. Owners(d) = {}
          BY <2>3, <3>1, <4>1
        <4>. QED
          BY <2>1, <2>3, <4>1, <4>2 DEF AddedIsOwned
      <3>2. nodes' # {}
        BY <2>1, <2>3 DEF AddedIsOwned
      <3>. QED
        BY <2>1, <2>4, <3>1, <3>2 DEF AddedIsOwned
    <2>. QED
      BY <2>3, <2>5, <2>6, <2>7
  <1>5. ASSUME DeleteDangling PROVE Inv'
    <2>1. /\ UNCHANGED <<scheduled, ad, active, digestToConfig, digestToNode, nodes, heartbeat,
                         lastConfigChange, nodeConfigs, runnerStats, stamp, leading, advanced, move,
                         agentVars, boundVars>>
          /\ loop.pc = "dispatch" /\ loop' = LoopIdle
          /\ danglingConfigs' = danglingConfigs \ loop.added
      BY <1>5 DEF DeleteDangling
    <2>2. TypeOK'
      BY <2>1, IdleRecords DEF TypeOK, StoreTypeOK, agentVars, boundVars
    <2>3. GoneIsNew' /\ StampsOfStore' /\ StampsOfAgents' /\ (Consistent => Consistent')
      BY <2>1 DEF StoreInv, GoneIsNew, StampsOfStore, StampsOfAgents, Consistent, agentVars
    <2>4. NothingForgotten'
      BY <2>1 DEF StoreInv, NothingForgotten, AddedIsOwned, Owners
    <2>5. ConsistentUntilMoved'
      BY <2>1, <2>3 DEF ConsistentUntilMoved, boundVars
    <2>6. AddedIsOwned'
      BY <2>1, AddedIdle, IdleRecords
    <2>. QED
      BY <2>2, <2>3, <2>4, <2>5, <2>6 DEF StoreInv
  <1>. QED
    BY <1>1, <1>2, <1>3, <1>4, <1>5 DEF Cleanup

\* A rebalance: from its first pick on only the agreement of
\* digestToNode with the nodeStores is given up.
LEMMA RebalanceStep ==
    ASSUME Inv, Rebalance
    PROVE  Inv'
  <1>. USE DEF Inv
  <1>1. ASSUME UpdateRunnersStats PROVE Inv'
    <2>1. /\ UNCHANGED <<scheduled, ad, active, digestToConfig, digestToNode, danglingConfigs, nodes,
                         heartbeat, lastConfigChange, nodeConfigs, stamp, leading, loop, advanced,
                         agentVars, boundVars>>
          /\ move' = [NoMove EXCEPT !.pc = "picking"]
          /\ runnerStats' = [n \in Nodes |-> IF n \in nodes /\ agent[n] # "down" /\ linked[n]
                                               THEN running[n] \cap digestToConfig ELSE runnerStats[n]]
      BY <1>1 DEF UpdateRunnersStats
    <2>2. runnerStats' \in [Nodes -> SUBSET Configs]
      BY <2>1 DEF TypeOK, StoreTypeOK
    <2>3. move' \in [pc : {"idle", "picking", "moving"}, config : Configs \cup {NoNode},
                    src : Nodes \cup {NoNode}, dest : Nodes \cup {NoNode}]
          /\ move'.pc = "picking"
      BY <2>1 DEF NoMove
    <2>4. TypeOK'
      BY <2>1, <2>2, <2>3 DEF TypeOK, StoreTypeOK, agentVars, boundVars
    <2>5. /\ StoreInv' /\ StampsOfAgents' /\ (Consistent => Consistent')
          /\ \A d \in Configs : Owners(d)' = Owners(d)
      BY <2>1, StoreFrame DEF agentVars
    <2>6. ConsistentUntilMoved'
      BY <2>1, <2>3, <2>5 DEF ConsistentUntilMoved, boundVars
    <2>7. AddedIsOwned'
      BY <2>1, <2>5, AddedFrame
    <2>. QED
      BY <2>4, <2>5, <2>6, <2>7
  <1>2. ASSUME NEW c \in Configs, NEW src \in Nodes, NEW dest \in Nodes, PickMove(c, src, dest)
        PROVE  Inv'
    <2>1. /\ UNCHANGED <<scheduled, ad, storeVars, leading, loop, advanced, agentVars, changes, faults>>
          /\ move' = [pc |-> "moving", config |-> c, src |-> src, dest |-> dest]
          /\ moves' = moves + 1
      BY <1>2 DEF PickMove
    <2>2. TypeOK'
      BY <2>1 DEF TypeOK, StoreTypeOK, storeVars, agentVars
    <2>3. /\ StoreInv' /\ StampsOfAgents'
          /\ \A d \in Configs : Owners(d)' = Owners(d)
      BY <2>1, StoreFrame DEF storeVars, agentVars
    <2>4. ConsistentUntilMoved'
      BY <2>1 DEF ConsistentUntilMoved, TypeOK
    <2>5. AddedIsOwned'
      BY <2>1, <2>3, AddedFrame DEF storeVars
    <2>. QED
      BY <2>2, <2>3, <2>4, <2>5
  <1>3. ASSUME MoveConfig PROVE Inv'
    <2>1. /\ UNCHANGED <<scheduled, ad, leading, loop, advanced, agentVars, boundVars>>
          /\ move.pc = "moving" /\ move' = [NoMove EXCEPT !.pc = "picking"]
      BY <1>3 DEF MoveConfig
    <2>2. /\ StoreTypeOK' /\ StoreInv' /\ StampsOfAgents'
          /\ nodes' = nodes /\ digestToConfig' = digestToConfig
          /\ \A d \in Configs : Owners(d) # {} => Owners(d)' # {}
      BY <1>3, MoveConfigStore
    <2>3. move' \in [pc : {"idle", "picking", "moving"}, config : Configs \cup {NoNode},
                    src : Nodes \cup {NoNode}, dest : Nodes \cup {NoNode}]
      BY <2>1 DEF NoMove
    <2>4. TypeOK'
      BY <2>1, <2>2, <2>3 DEF TypeOK, agentVars, boundVars
    <2>5. ConsistentUntilMoved'
      BY <2>1 DEF ConsistentUntilMoved, boundVars
    <2>6. AddedIsOwned'
      BY <2>1, <2>2, AddedFrame
    <2>. QED
      BY <2>2, <2>4, <2>5, <2>6
  <1>4. ASSUME RebalanceDone PROVE Inv'
    <2>1. /\ UNCHANGED <<scheduled, ad, storeVars, leading, loop, advanced, agentVars, boundVars>>
          /\ move' = NoMove
      BY <1>4 DEF RebalanceDone
    <2>2. TypeOK'
      BY <2>1, IdleRecords DEF TypeOK, StoreTypeOK, storeVars, agentVars, boundVars
    <2>3. /\ StoreInv' /\ StampsOfAgents' /\ (Consistent => Consistent')
          /\ \A d \in Configs : Owners(d)' = Owners(d)
      BY <2>1, StoreFrame DEF storeVars, agentVars
    <2>4. ConsistentUntilMoved'
      BY <2>1, <2>3, IdleRecords DEF ConsistentUntilMoved, boundVars
    <2>5. AddedIsOwned'
      BY <2>1, <2>3, AddedFrame DEF storeVars
    <2>. QED
      BY <2>2, <2>3, <2>4, <2>5
  <1>. QED
    BY <1>1, <1>2, <1>3, <1>4 DEF Rebalance

\* A request of a node agent that reaches the leader.
LEMMA NodeSeenStep ==
    ASSUME Inv, NEW n \in Nodes, NodeSeen(n),
           UNCHANGED <<scheduled, ad, leading, loop, move, running, lastChange, linked, changes, moves>>,
           agent' \in [Nodes -> {"down", "starting", "idle", "collecting"}], faults' \in Nat
    PROVE  Inv'
  <1>. USE DEF Inv
  <1>1. /\ StoreTypeOK' /\ advanced' \in BOOLEAN /\ StoreInv' /\ StampsOfAgents'
        /\ nodes \subseteq nodes' /\ digestToConfig' = digestToConfig
        /\ Consistent => Consistent'
        /\ \A d \in Configs : Owners(d) # {} => Owners(d)' # {}
    BY NodeSeenStore
  <1>2. TypeOK'
    BY <1>1 DEF TypeOK
  <1>3. ConsistentUntilMoved'
    BY <1>1 DEF ConsistentUntilMoved
  <1>4. AddedIsOwned'
    BY <1>1, AddedFrame
  <1>. QED
    BY <1>1, <1>2, <1>3, <1>4

\* A step of a node agent or of the environment that leaves the leader alone.
LEMMA AgentStep ==
    ASSUME Inv,
           UNCHANGED <<scheduled, ad, active, digestToConfig, digestToNode, danglingConfigs, nodes,
                       lastConfigChange, nodeConfigs, runnerStats, stamp, leading, loop, advanced, move,
                       changes, moves>>,
           heartbeat' \in [Nodes -> BOOLEAN], linked' \in [Nodes -> BOOLEAN],
           agent' \in [Nodes -> {"down", "starting", "idle", "collecting"}], faults' \in Nat,
           running' \in [Nodes -> SUBSET Configs], lastChange' \in [Nodes -> Nat],
           StampsOfAgents'
    PROVE  Inv'
  <1>. USE DEF Inv
  <1>1. TypeOK'
    BY DEF TypeOK, StoreTypeOK
  <1>2. /\ StoreInv' /\ (Consistent => Consistent')
        /\ \A d \in Configs : Owners(d)' = Owners(d)
    BY DEF StoreInv, GoneIsNew, StampsOfStore, NothingForgotten, Consistent, Owners
  <1>3. ConsistentUntilMoved'
    BY <1>2 DEF ConsistentUntilMoved
  <1>4. AddedIsOwned'
    BY <1>2, AddedFrame
  <1>. QED
    BY <1>1, <1>2, <1>3, <1>4

\* The requests of the node agents.
LEMMA RequestsStep ==
    ASSUME Inv, Requests
    PROVE  Inv'
  <1>. DEFINE Pcs == {"down", "starting", "idle", "collecting"}
  <1>0. TypeOK /\ StampsOfStore /\ StampsOfAgents
    BY DEF Inv, StoreInv
  <1>1. \A n \in Nodes, u \in BOOLEAN : AfterStatus(n, u) \in Pcs
    BY DEF AfterStatus
  <1>2. ASSUME NEW n \in Nodes, PostStatus(n) PROVE Inv'
    <2>1. agent' \in [Nodes -> Pcs] /\ faults' \in Nat
      BY <1>0, <1>2 DEF PostStatus, AfterStatus, TypeOK, boundVars
    <2>. QED
      BY <1>2, <2>1, NodeSeenStep DEF PostStatus, boundVars
  <1>3. ASSUME NEW n \in Nodes, StatusAnswerLost(n) PROVE Inv'
    <2>1. agent' \in [Nodes -> Pcs] /\ faults' \in Nat
      BY <1>0, <1>3 DEF StatusAnswerLost, AfterStatus, TypeOK
    <2>. QED
      BY <1>3, <2>1, NodeSeenStep DEF StatusAnswerLost
  <1>4. ASSUME NEW n \in Nodes, StatusOfExpired(n) PROVE Inv'
    <2>1. agent' \in [Nodes -> Pcs] /\ faults' \in Nat
      BY <1>0, <1>4 DEF StatusOfExpired, AfterStatus, TypeOK
    <2>2. /\ UNCHANGED <<scheduled, ad, storeVars, leading, loop, advanced, move, running, lastChange,
                         linked, changes, moves>>
      BY <1>4 DEF StatusOfExpired
    <2>3. StampsOfAgents'
      BY <1>0, <2>2 DEF StampsOfAgents, storeVars
    <2>. QED
      BY <1>0, <2>1, <2>2, <2>3, AgentStep DEF storeVars, TypeOK, StoreTypeOK
  <1>5. ASSUME NEW n \in Nodes, ExtraHeartbeat(n) PROVE Inv'
    <2>1. agent' \in [Nodes -> Pcs] /\ faults' \in Nat
      BY <1>0, <1>5 DEF ExtraHeartbeat, TypeOK, agentVars, boundVars
    <2>. QED
      BY <1>5, <2>1, NodeSeenStep DEF ExtraHeartbeat, agentVars, boundVars
  <1>6. ASSUME NEW n \in Nodes, Collect(n) PROVE Inv'
    <2>1. /\ UNCHANGED <<scheduled, ad, storeVars, leading, loop, advanced, move, linked, boundVars>>
          /\ agent' = [agent EXCEPT ![n] = "idle"]
      BY <1>6 DEF Collect
    <2>2. agent' \in [Nodes -> Pcs] /\ faults' \in Nat
      BY <1>0, <2>1 DEF TypeOK, boundVars
    <2>3. \/ UNCHANGED <<running, lastChange>>
          \/ /\ running' = [running EXCEPT ![n] = nodeConfigs[n]]
             /\ lastChange' = [lastChange EXCEPT ![n] = lastConfigChange[n]]
      BY <1>6 DEF Collect
    <2>4. running' \in [Nodes -> SUBSET Configs] /\ lastChange' \in [Nodes -> Nat]
      BY <1>0, <2>3 DEF TypeOK, StoreTypeOK
    <2>5. StampsOfAgents'
      BY <1>0, <2>1, <2>3 DEF StampsOfAgents, StampsOfStore, TypeOK, storeVars
    <2>. QED
      BY <1>0, <2>1, <2>2, <2>4, <2>5, AgentStep DEF storeVars, boundVars, TypeOK, StoreTypeOK
  <1>. QED
    BY <1>2, <1>3, <1>4, <1>5, <1>6 DEF Requests

\* Crashes, cut links and old heartbeats.
LEMMA EnvironmentStep ==
    ASSUME Inv, Environment
    PROVE  Inv'
  <1>. DEFINE Pcs == {"down", "starting", "idle", "collecting"}
  <1>0. TypeOK /\ StampsOfAgents
    BY DEF Inv
  <1>1. ASSUME NEW n \in Nodes, AgentStart(n) PROVE Inv'
    <2>1. UNCHANGED <<scheduled, ad, storeVars, leading, loop, advanced, move, running,
                      lastChange, linked, boundVars>> /\ agent' = [agent EXCEPT ![n] = "starting"]
      BY <1>1 DEF AgentStart
    <2>2. StampsOfAgents'
      BY <1>0, <2>1 DEF StampsOfAgents, storeVars
    <2>. QED
      BY <1>0, <2>1, <2>2, AgentStep DEF storeVars, boundVars, TypeOK, StoreTypeOK
  <1>2. ASSUME NEW n \in Nodes, AgentCrash(n) PROVE Inv'
    <2>1. /\ UNCHANGED <<scheduled, ad, storeVars, leading, loop, advanced, move, linked, changes, moves>>
          /\ faults' = faults + 1 /\ agent' = [agent EXCEPT ![n] = "down"]
          /\ running' = [running EXCEPT ![n] = {}] /\ lastChange' = [lastChange EXCEPT ![n] = NoStamp]
      BY <1>2 DEF AgentCrash
    <2>2. running' \in [Nodes -> SUBSET Configs] /\ lastChange' \in [Nodes -> Nat] /\ faults' \in Nat
          /\ agent' \in [Nodes -> Pcs]
      BY <1>0, <2>1 DEF TypeOK, NoStamp
    <2>3. StampsOfAgents'
      <3>1. StampsOfStore
        BY DEF Inv, StoreInv
      <3>. QED
        BY <1>0, <2>1, <3>1 DEF StampsOfAgents, StampsOfStore, TypeOK, StoreTypeOK, storeVars, NoStamp
    <2>. QED
      BY <1>0, <2>1, <2>2, <2>3, AgentStep DEF storeVars, TypeOK, StoreTypeOK
  <1>3. ASSUME NEW n \in Nodes, CutLink(n) \/ HealLink(n) PROVE Inv'
    <2>1. /\ UNCHANGED <<scheduled, ad, storeVars, leading, loop, advanced, move, agent, running,
                         lastChange, changes, moves>>
          /\ faults' \in Nat /\ linked' \in [Nodes -> BOOLEAN]
      <3>1. CASE CutLink(n)
        BY <1>0, <3>1 DEF CutLink, TypeOK
      <3>2. CASE HealLink(n)
        BY <1>0, <3>2 DEF HealLink, TypeOK, boundVars
      <3>. QED
        BY <1>3, <3>1, <3>2
    <2>2. StampsOfAgents'
      BY <1>0, <2>1 DEF StampsOfAgents, storeVars
    <2>. QED
      BY <1>0, <2>1, <2>2, AgentStep DEF storeVars, TypeOK, StoreTypeOK
  <1>4. ASSUME NEW n \in Nodes, HeartbeatOld(n) PROVE Inv'
    <2>1. UNCHANGED <<scheduled, ad, active, digestToConfig, digestToNode, danglingConfigs, nodes,
                      lastConfigChange, nodeConfigs, runnerStats, stamp, leading, loop, advanced, move,
                      agentVars, changes, moves>>
      BY <1>4 DEF HeartbeatOld
    <2>2. faults' \in Nat /\ heartbeat' \in [Nodes -> BOOLEAN]
      BY <1>0, <1>4 DEF HeartbeatOld, TypeOK, StoreTypeOK
    <2>3. StampsOfAgents'
      BY <1>0, <2>1 DEF StampsOfAgents, agentVars
    <2>. QED
      BY <1>0, <2>1, <2>2, <2>3, AgentStep DEF agentVars, TypeOK
  <1>. QED
    BY <1>1, <1>2, <1>3, <1>4 DEF Environment

\* A stuttering step.
LEMMA StutterStep ==
    ASSUME Inv, UNCHANGED vars
    PROVE  Inv'
  <1>. USE DEF vars, storeVars, agentVars, boundVars
  <1>1. /\ StoreInv' /\ StampsOfAgents' /\ (Consistent => Consistent')
        /\ \A d \in Configs : Owners(d)' = Owners(d)
    BY StoreFrame DEF Inv
  <1>2. TypeOK'
    BY DEF Inv, TypeOK, StoreTypeOK
  <1>3. ConsistentUntilMoved'
    BY <1>1 DEF Inv, ConsistentUntilMoved
  <1>4. AddedIsOwned'
    BY <1>1, AddedFrame DEF Inv
  <1>. QED
    BY <1>1, <1>2, <1>3, <1>4 DEF Inv

-----------------------------------------------------------------------------
(* The theorems.                                                            *)

\* The inductive invariant of the dispatcher, its store and the node agents.
THEOREM StoreCorrect == Spec => []Inv
  <1>1. Init => Inv
    BY InitInv
  <1>2. Inv /\ [Next]_vars => Inv'
    BY AutodiscoveryStep, LeadershipStep, CleanupStep, RebalanceStep, RequestsStep,
       EnvironmentStep, StutterStep DEF Next
  <1>. QED
    BY <1>1, <1>2, PTL DEF Spec

\* Every variable of the model keeps its type.
THEOREM TypeCorrect == Spec => []TypeOK
  <1>1. Inv => TypeOK
    BY DEF Inv
  <1>. QED
    BY <1>1, StoreCorrect, PTL

\* Until a rebalance moves a configuration, the node digestToNode names is the
\* one that is served it, and a configuration the store serves is registered.
THEOREM OneOwnerCorrect == Spec => []OneOwnerUntilMoved
  <1>1. Inv => OneOwnerUntilMoved
    <2>. SUFFICES ASSUME Inv, moves = 0, NEW c \in Configs PROVE Agree(c)
      BY DEF OneOwnerUntilMoved, OneOwner
    <2>1. Consistent /\ GoneIsNew /\ StoreTypeOK
      BY DEF Inv, StoreInv, TypeOK, ConsistentUntilMoved
    <2>2. \A n \in Nodes : c \in nodeConfigs[n] <=> digestToNode[c] = n
      BY <2>1 DEF Consistent
    <2>3. \A n \in Nodes : c \in nodeConfigs[n] => n \in nodes
      BY <2>1 DEF GoneIsNew
    <2>4. Owners(c) = IF digestToNode[c] = NoNode THEN {} ELSE {digestToNode[c]}
      BY <2>1, <2>2, <2>3, NoNodeAssumption DEF Owners, StoreTypeOK
    <2>. QED
      BY <2>1, <2>4 DEF Agree, Consistent
  <1>. QED
    BY <1>1, StoreCorrect, PTL

\* No interleaving of Schedule, Unschedule, cleanup ticks, requests, expired
\* nodes, rebalances and failovers makes the dispatcher forget a registered
\* configuration.
THEOREM NothingIsForgotten == Spec => []NothingForgotten
  <1>1. Inv => NothingForgotten
    BY DEF Inv, StoreInv
  <1>. QED
    BY <1>1, StoreCorrect, PTL

\* An agent that is told it is up to date runs what it is assigned.
THEOREM StampCorrect == Spec => []StampMeansConfigs
  <1>1. Inv => StampMeansConfigs
    BY DEF Inv, StampsOfAgents, StampMeansConfigs, TypeOK, StoreTypeOK
  <1>. QED
    BY <1>1, StoreCorrect, PTL

=============================================================================
