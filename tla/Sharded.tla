------------------------------ MODULE Sharded -------------------------------
(***************************************************************************)
(* One Sharded object: the map of virtual nodes and the connections, built *)
(* host by host by init, freed by destroy, read by getShard.  The object   *)
(* has no lock: its users see every state below, and DataCenter has to     *)
(* keep readers out while init and destroy run.                            *)
(***************************************************************************)
EXTENDS HashRing

CONSTANT Names          \* hosts, numbered in the order of their names

ASSUME NamesAssumption == Names \subseteq Nat

VARIABLES
    points,         \* what MD5 makes of each host's virtual nodes: constant
    todo,           \* the shard_infos init has yet to visit
    nodes,          \* _nodes
    resources,      \* the hosts in _resources
    phase           \* "idle", or "init" while the loop runs

vars == <<points, todo, nodes, resources, phase>>

NoNodes == [x \in {} |-> x]

Init ==
    /\ points \in [Names -> (SUBSET Hashes) \ {{}}]
    /\ todo = {}
    /\ nodes = NoNodes
    /\ resources = {}
    /\ phase = "idle"

(* Sharded::destroy, alone: from ~Sharded and from HandleNormal.           *)
Destroy ==
    /\ phase = "idle"
    /\ nodes' = NoNodes
    /\ resources' = {}
    /\ UNCHANGED <<points, todo, phase>>

(* Faulty variant of BeginInit: _nodes is not cleared.                     *)
BeginInitKeepingNodes ==
    /\ phase = "idle"
    /\ \E N \in (SUBSET Names) \ {{}} : todo' = N
    /\ resources' = {}
    /\ phase' = "init"
    /\ UNCHANGED <<points, nodes>>

(* init_sharded destroys the ring and calls init with the hosts that have  *)
(* a usable address, at least one (DataCenter.cpp:167-169).                *)
BeginInit ==
    /\ phase = "idle"
    /\ \E N \in (SUBSET Names) \ {{}} : todo' = N
    /\ nodes' = NoNodes
    /\ resources' = {}
    /\ phase' = "init"
    /\ UNCHANGED points

(* Faulty variant of SkipHost: the virtual nodes are added before the      *)
(* connection is tried.                                                    *)
SkipHostTooLate ==
    /\ phase = "init"
    /\ todo # {}
    /\ nodes' = Insert(nodes, points, Least(todo))
    /\ todo' = todo \ {Least(todo)}
    /\ UNCHANGED <<points, resources, phase>>

(* createResource gave no connection: the host is skipped.                 *)
SkipHost ==
    /\ phase = "init"
    /\ todo # {}
    /\ todo' = todo \ {Least(todo)}
    /\ UNCHANGED <<points, nodes, resources, phase>>

(* A connected host gets its virtual nodes and its resource.               *)
AddHost ==
    /\ phase = "init"
    /\ todo # {}
    /\ LET host == Least(todo)
       IN  /\ nodes' = Insert(nodes, points, host)
           /\ resources' = resources \cup {host}
           /\ todo' = todo \ {host}
    /\ UNCHANGED <<points, phase>>

(* The end of the loop; the result says whether anything was connected.    *)
EndInit ==
    /\ phase = "init"
    /\ todo = {}
    /\ phase' = "idle"
    /\ UNCHANGED <<points, todo, nodes, resources>>

Next == Destroy \/ BeginInit \/ SkipHost \/ AddHost \/ EndInit

Spec == Init /\ [][Next]_vars

-----------------------------------------------------------------------------
(* Every variable holds a value of its type.                               *)
TypeOK ==
    /\ points \in [Names -> (SUBSET Hashes) \ {{}}]
    /\ todo \subseteq Names
    /\ resources \subseteq Names
    /\ DOMAIN nodes \subseteq -Half .. (Half - 1)
    /\ phase \in {"idle", "init"}

(* After any sequence of failed and successful connections the map is the  *)
(* one its hosts determine: a host that was skipped, or freed, leaves no   *)
(* virtual node behind, and colliding nodes go to the first host.          *)
RingIsReference == nodes = RingNodes(points, resources)

(* getShard never meets a host without a connection: _resources[info]      *)
(* would then insert a NULL Jedis (sharded.cpp:79).                        *)
LookupHasResource ==
    nodes # NoNodes =>
        \A h \in Hashes : Lookup(nodes, HashValue(h)) \in resources

(* getShard gives every key to the clockwise nearest host of the unsigned  *)
(* circle, although the map is ordered by sign-extended numbers.           *)
LookupIsNearest ==
    nodes # NoNodes =>
        \A h \in Hashes :
            IsNearest(points, resources, h, Lookup(nodes, HashValue(h)))

(* What a re-sharding relies on: between two rings a key moves only away   *)
(* from a host that left or to a host that joined.                         *)
MinimalDisruption ==
    \A N \in (SUBSET Names) \ {{}}, h \in Hashes :
        resources # {} =>
            LET old == Lookup(nodes, HashValue(h))
                new == Place(points, N, h)
            IN  old = new \/ old \notin N \/ new \notin resources
=============================================================================
