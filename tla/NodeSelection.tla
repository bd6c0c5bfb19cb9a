--------------------------- MODULE NodeSelection ---------------------------
(***************************************************************************)
(* Which node a C++ client asks (GCluster.cpp, Client.cpp).  A request for *)
(* a new id goes to the nodes in turn; one that refuses a connection is    *)
(* left alone for a while (IsReady).  Every other request goes to the node *)
(* its id belongs to (FindNode), whatever its state.  The map of the nodes *)
(* makes an entry for every node it is asked for, with no address.         *)
(*                                                                         *)
(* Time is in units of which Wait are the 300 seconds of IsReady.          *)
(***************************************************************************)
EXTENDS Naturals, FiniteSets

CONSTANTS
  NodeIds,   \* ids of the nodes: 1 .. n
  Wait,
  MaxDown,   \* bound of the model: how often nodes go down, or do not answer
  NoNode

ASSUME NodesAssumption ==
  /\ NodeIds = 1 .. Cardinality(NodeIds) /\ IsFiniteSet(NodeIds)
  /\ Wait \in Nat \ {0} /\ MaxDown \in Nat /\ NoNode \notin Nat

VARIABLES
  nodes,       \* ids in m_nodes
  address,     \* those with an address
  isConnected, \* m_isConnected: "no", "yes", or "lost" when the node has closed it
  lastFailed,  \* time since m_lastConnectFailed, up to Wait
  itNext,      \* m_itNextNode
  turn,        \* NextNode: how many nodes it has tried, or NoNode
  chosen,      \* the node NextNode returned last, or NoNode
  up,          \* nodes that take connections
  downs,
  lastDown,    \* time since the node was down, up to Wait (history)
  excused,     \* nodes that refused the current turn and have no address or were
               \* down less than Wait ago (history)
  passedOver   \* turns in which the node was not asked, in a row (history)

nodesVars == <<nodes, address, isConnected, lastFailed, itNext, turn, chosen, up, downs,
               lastDown, excused, passedOver>>

Earliest(S)   == CHOOSE n \in S : \A m \in S : n <= m
After(n)      == LET later == {m \in nodes : m > n}
                 IN Earliest(IF later = {} THEN nodes ELSE later)
Older(age)    == IF age = Wait THEN Wait ELSE age + 1
CanConnect(n) == n \in address /\ n \in up
InTurn        == turn # NoNode

NodesInit ==
  /\ nodes = {} /\ address = {} /\ itNext = NoNode /\ turn = NoNode /\ chosen = NoNode
  /\ isConnected = [n \in NodeIds |-> "no"]
  /\ lastFailed  = [n \in NodeIds |-> Wait]
  /\ up \in SUBSET NodeIds /\ downs = 0
  /\ lastDown = [n \in NodeIds |-> IF n \in up THEN Wait ELSE 0]
  /\ excused = {} /\ passedOver = [n \in NodeIds |-> 0]

(* AddNode changes nothing when the map has the node.                      *)
AddClusterNode(n) ==
  /\ ~InTurn /\ chosen = NoNode /\ n \notin nodes
  /\ nodes' = nodes \union {n} /\ address' = address \union {n}
  /\ itNext' = Earliest(nodes')
  /\ passedOver' = [m \in NodeIds |-> 0]
  /\ UNCHANGED <<isConnected, lastFailed, turn, chosen, up, downs, lastDown, excused>>

NextNode ==
  /\ ~InTurn /\ chosen = NoNode /\ nodes # {}
  /\ turn' = 0 /\ excused' = {}
  /\ UNCHANGED <<nodes, address, isConnected, lastFailed, itNext, chosen, up, downs, lastDown, passedOver>>

(* NextNode returns the node it is at: itSelect follows m_itNextNode.      *)
NextNodeReturns ==
  /\ chosen' = itNext /\ turn' = NoNode /\ itNext' = After(itNext)
  /\ passedOver' = [n \in NodeIds |-> IF n \in nodes \ {itNext} /\ n \notin excused
                                      THEN passedOver[n] + 1 ELSE 0]

IsReady ==
  /\ InTurn /\ turn < Cardinality(nodes)
  /\ \/ isConnected[itNext] # "no" /\ UNCHANGED isConnected
     \/ isConnected[itNext] = "no" /\ lastFailed[itNext] = Wait /\ CanConnect(itNext)
        /\ isConnected' = [isConnected EXCEPT ![itNext] = "yes"]
  /\ NextNodeReturns
  /\ UNCHANGED <<nodes, address, lastFailed, up, downs, lastDown, excused>>

IsNotReady ==
  /\ InTurn /\ turn < Cardinality(nodes) /\ isConnected[itNext] = "no"
  /\ \/ lastFailed[itNext] < Wait /\ UNCHANGED lastFailed
     \/ lastFailed[itNext] = Wait /\ ~CanConnect(itNext)
        /\ lastFailed' = [lastFailed EXCEPT ![itNext] = 0]
  /\ turn' = turn + 1 /\ itNext' = After(itNext)
  /\ excused' = IF lastDown[itNext] < Wait \/ itNext \notin address
              THEN excused \union {itNext} ELSE excused
  /\ UNCHANGED <<nodes, address, isConnected, chosen, up, downs, lastDown, passedOver>>

NoneReady ==
  /\ InTurn /\ turn = Cardinality(nodes)
  /\ NextNodeReturns
  /\ UNCHANGED <<nodes, address, isConnected, lastFailed, up, downs, lastDown, excused>>

(* A request and its answer.  A connection the node has closed is made     *)
(* again when sending shows it, and closed when only the answer does.      *)
QueryReturns(n, ok) ==
  /\ ok => isConnected[n] = "yes" \/ CanConnect(n)
  /\ isConnected' = [isConnected EXCEPT ![n] = IF ok THEN "yes" ELSE "no"]

Busy(n) == CanConnect(n) /\ isConnected[n] # "lost" \* answers too late, or not at all

QueryEnds(n) ==
  /\ \E ok \in BOOLEAN :
       /\ QueryReturns(n, ok)
       /\ IF ~ok /\ Busy(n) THEN downs < MaxDown /\ downs' = downs + 1 ELSE UNCHANGED downs
  /\ UNCHANGED <<lastFailed, turn, up, lastDown, excused, passedOver>>

\* NewId: the node NextNode returned is asked at once.
NewId ==
  /\ ~InTurn /\ chosen # NoNode /\ QueryEnds(chosen) /\ chosen' = NoNode
  /\ UNCHANGED <<nodes, address, itNext>>

FindNode(n) ==
  /\ ~InTurn /\ chosen = NoNode /\ nodes # {} /\ n <= Cardinality(nodes)
  /\ nodes' = nodes \union {n}
  /\ QueryEnds(n)
  /\ UNCHANGED <<address, itNext, chosen>>

CloseCluster ==
  /\ ~InTurn /\ chosen = NoNode
  /\ isConnected' = [n \in NodeIds |-> "no"]
  /\ UNCHANGED <<nodes, address, lastFailed, itNext, turn, chosen, up, downs, lastDown, excused,
                 passedOver>>

(* A node stops, and its connections are closed; it is started again.      *)
GoDown(n) ==
  /\ n \in up /\ downs < MaxDown
  /\ up' = up \ {n} /\ downs' = downs + 1 /\ lastDown' = [lastDown EXCEPT ![n] = 0]
  /\ isConnected' = [isConnected EXCEPT ![n] = IF @ = "yes" THEN "lost" ELSE @]
  /\ UNCHANGED <<nodes, address, lastFailed, itNext, turn, chosen, excused, passedOver>>

ComeUp(n) ==
  /\ n \notin up
  /\ up' = up \union {n}
  /\ UNCHANGED <<nodes, address, isConnected, lastFailed, itNext, turn, chosen, downs, lastDown,
                 excused, passedOver>>

TimePasses ==
  /\ lastFailed' = [n \in NodeIds |-> Older(lastFailed[n])]
  /\ lastDown'   = [n \in NodeIds |-> IF n \in up THEN Older(lastDown[n]) ELSE 0]
  /\ UNCHANGED <<nodes, address, isConnected, itNext, turn, chosen, up, downs, excused, passedOver>>

NodesNext ==
  \/ NextNode \/ IsReady \/ IsNotReady \/ NoneReady \/ NewId \/ CloseCluster \/ TimePasses
  \/ \E n \in NodeIds : AddClusterNode(n) \/ FindNode(n) \/ GoDown(n) \/ ComeUp(n)

NodesSpec == NodesInit /\ [][NodesNext]_nodesVars
-----------------------------------------------------------------------------
(* NextNode returns a node without a connection only when every node has   *)
(* refused it in this turn, each after being down (or never having had an  *)
(* address) within the 300 seconds for which IsReady leaves it alone.      *)
RefusedByAll ==
  chosen # NoNode /\ isConnected[chosen] = "no" => excused = nodes

(* NextNode goes round: of as many turns in a row as there are nodes, each *)
(* node is tried in one.                                                   *)
GoesRound == \A n \in nodes : passedOver[n] < Cardinality(nodes)

NodesInv == RefusedByAll /\ GoesRound
=============================================================================
