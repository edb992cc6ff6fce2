--------------------------- MODULE ShardedProofs ----------------------------
(***************************************************************************)
(* Proofs about Sharded for every width of the hash, every set of hosts    *)
(* and every outcome of MD5.                                               *)
(***************************************************************************)
EXTENDS Sharded, TLAPS, WellFoundedInduction

(* A set of integers with a lower bound has a least element.               *)
LEMMA LeastExists ==
    ASSUME NEW S, S \subseteq Int, S # {}, NEW low \in Int, \A x \in S : low <= x
    PROVE  Least(S) \in S /\ \A y \in S : Least(S) <= y
PROOF
<1> DEFINE T == {x - low : x \in S}
<1>1. T \subseteq Nat /\ T # {}
  <2>1. ASSUME NEW x \in S PROVE x - low \in Nat
    <3>1. x \in Int /\ low <= x
      OBVIOUS
    <3> QED
      BY <3>1
  <2>2. PICK x \in S : TRUE
    OBVIOUS
  <2>3. x - low \in T
    OBVIOUS
  <2> QED
    BY <2>1, <2>3
<1>2. PICK t \in T : \A u \in T : ~(<<u, t>> \in OpToRel(<, Nat))
  BY <1>1, NatLessThanWellFounded, WFMin
<1>3. PICK x \in S : t = x - low
  OBVIOUS
<1>4. ASSUME NEW y \in S PROVE x <= y
  <2>1. y - low \in T
    OBVIOUS
  <2>2. ~(y - low < t)
    BY <1>1, <1>2, <2>1 DEF OpToRel
  <2> QED
    BY <1>3, <2>2
<1> QED
  BY <1>4 DEF Least

(* It is the only one.                                                     *)
LEMMA LeastUnique ==
    ASSUME NEW S, S \subseteq Int, NEW x \in S, \A y \in S : x <= y
    PROVE  Least(S) = x
PROOF
<1>1. Least(S) \in S /\ \A y \in S : Least(S) <= y
  BY DEF Least
<1>2. Least(S) <= x /\ x <= Least(S) /\ x \in Int /\ Least(S) \in Int
  BY <1>1
<1> QED
  BY <1>2

(* Hash::hash keeps the distances of the unsigned circle: the sign         *)
(* extension only turns it.                                                *)
LEMMA HashValueIsRotation ==
    ASSUME NEW a \in Hashes, NEW b \in Hashes
    PROVE  /\ HashValue(a) \in -Half .. (Half - 1)
           /\ Distance(HashValue(a), HashValue(b)) = Distance(a, b)
           /\ HashValue(a) = HashValue(b) => a = b
  BY HalfAssumption DEF Hashes, HashValue, Distance

(* getShardInfo returns the value of the first node clockwise.             *)
LEMMA LookupClockwise ==
    ASSUME NEW nodes_, DOMAIN nodes_ \subseteq -Half .. (Half - 1),
           DOMAIN nodes_ # {}, NEW h \in -Half .. (Half - 1)
    PROVE  \E x \in DOMAIN nodes_ :
              /\ Lookup(nodes_, h) = nodes_[x]
              /\ \A y \in DOMAIN nodes_ : Distance(h, x) <= Distance(h, y)
PROOF
<1> DEFINE D == DOMAIN nodes_
           above == {x \in D : x > h}
<1> USE HalfAssumption
<1>0. D \subseteq Int /\ (\A x \in D : -Half <= x /\ x < Half) /\ -Half \in Int
  OBVIOUS
<1>1. CASE h \in D
  BY <1>0, <1>1 DEF Lookup, Distance
<1>2. CASE h \notin D /\ above # {}
  <2>1. Least(above) \in above /\ \A y \in above : Least(above) <= y
    BY <1>0, <1>2, LeastExists
  <2>2. Lookup(nodes_, h) = nodes_[Least(above)]
    BY <1>2 DEF Lookup
  <2>3. ASSUME NEW y \in D PROVE Distance(h, Least(above)) <= Distance(h, y)
    <3>1. CASE y > h
      BY <1>0, <2>1, <3>1 DEF Distance
    <3>2. CASE y < h
      BY <1>0, <2>1, <3>2 DEF Distance
    <3> QED
      BY <1>0, <1>2, <3>1, <3>2
  <2> QED
    BY <2>1, <2>2, <2>3
<1>3. CASE h \notin D /\ above = {}
  <2>1. Least(D) \in D /\ \A y \in D : Least(D) <= y
    BY <1>0, LeastExists
  <2>2. Lookup(nodes_, h) = nodes_[Least(D)]
    BY <1>3 DEF Lookup
  <2>3. ASSUME NEW y \in D PROVE y < h
    BY <1>0, <1>3
  <2>4. ASSUME NEW y \in D PROVE Distance(h, Least(D)) <= Distance(h, y)
    BY <1>0, <2>1, <2>3 DEF Distance
  <2> QED
    BY <2>1, <2>2, <2>4
<1> QED
  BY <1>1, <1>2, <1>3

Points == [Names -> (SUBSET Hashes) \ {{}}]

LEMMA NodeKeysType ==
    ASSUME NEW P \in Points, NEW n \in Names
    PROVE  NodeKeys(P, n) \subseteq -Half .. (Half - 1) /\ NodeKeys(P, n) # {}
PROOF
<1>1. P[n] \subseteq Hashes /\ P[n] # {}
  BY DEF Points
<1> QED
  BY <1>1, HashValueIsRotation DEF NodeKeys

(* A node of the reference ring belongs to the first host that has it.     *)
LEMMA RingNodesOwner ==
    ASSUME NEW P \in Points, NEW N \in SUBSET Names,
           NEW x \in DOMAIN RingNodes(P, N)
    PROVE  LET n == RingNodes(P, N)[x]
           IN  n \in N /\ x \in NodeKeys(P, n)
               /\ \A m \in N : x \in NodeKeys(P, m) => n <= m
PROOF
<1> DEFINE H == {n \in N : x \in NodeKeys(P, n)}
<1>1. H # {} /\ RingNodes(P, N)[x] = Least(H)
  BY DEF RingNodes
<1>2. H \subseteq Int /\ \A n \in H : 0 <= n
  <2>1. H \subseteq Nat
    BY NamesAssumption
  <2> QED
    BY <2>1
<1>3. Least(H) \in H /\ \A m \in H : Least(H) <= m
  BY <1>1, <1>2, LeastExists
<1> QED
  BY <1>1, <1>3

(* The ring over a set of hosts gives a key to the nearest of them.        *)
LEMMA PlaceIsNearest ==
    ASSUME NEW P \in Points, NEW N \in SUBSET Names, N # {}, NEW h \in Hashes
    PROVE  IsNearest(P, N, h, Place(P, N, h))
PROOF
<1> DEFINE ringn == RingNodes(P, N)
           g == HashValue(h)
<1>1. DOMAIN ringn = UNION {NodeKeys(P, n) : n \in N}
  BY DEF RingNodes
<1>2. DOMAIN ringn # {} /\ DOMAIN ringn \subseteq -Half .. (Half - 1)
  BY <1>1, NodeKeysType
<1>3. g \in -Half .. (Half - 1)
  BY HashValueIsRotation
<1>4. PICK x \in DOMAIN ringn :
          /\ Lookup(ringn, g) = ringn[x]
          /\ \A y \in DOMAIN ringn : Distance(g, x) <= Distance(g, y)
  <2> HIDE DEF ringn, g
  <2> QED
    BY <1>2, <1>3, LookupClockwise
<1> DEFINE n == ringn[x]
<1>5. n \in N /\ x \in NodeKeys(P, n) /\ \A m \in N : x \in NodeKeys(P, m) => n <= m
  BY RingNodesOwner
<1>6. PICK u \in P[n] : x = HashValue(u)
  BY <1>5 DEF NodeKeys
<1>7. ASSUME NEW m \in N, NEW v \in P[m]
      PROVE  Distance(h, u) < Distance(h, v) \/ (u = v /\ n <= m)
  <2>1. u \in Hashes /\ v \in Hashes
    BY <1>5, <1>6 DEF Points
  <2>2. HashValue(v) \in NodeKeys(P, m)
    BY DEF NodeKeys
  <2>3. Distance(g, x) <= Distance(g, HashValue(v))
    BY <1>1, <1>4, <2>2
  <2>4. Distance(h, u) <= Distance(h, v)
    BY <1>6, <2>1, <2>3, HashValueIsRotation
  <2>5. Distance(h, u) = Distance(h, v) => u = v
    BY <2>1, HalfAssumption DEF Distance, Hashes
  <2>6. u = v => n <= m
    BY <1>5, <1>6, <2>2
  <2>7. Distance(h, u) \in Int /\ Distance(h, v) \in Int
    BY <2>1, HalfAssumption DEF Distance, Hashes
  <2> QED
    BY <2>4, <2>5, <2>6, <2>7
<1>8. Place(P, N, h) = n
  BY <1>4 DEF Place
<1> QED
  BY <1>5, <1>7, <1>8 DEF IsNearest

(* Only one host is the nearest.                                           *)
LEMMA NearestUnique ==
    ASSUME NEW P \in Points, NEW N \in SUBSET Names, NEW h \in Hashes,
           NEW n, NEW m, IsNearest(P, N, h, n), IsNearest(P, N, h, m)
    PROVE  n = m
PROOF
<1>1. n \in N /\ m \in N /\ n \in Int /\ m \in Int
  BY NamesAssumption DEF IsNearest
<1>2. PICK u \in P[n] : \A k \in N : \A v \in P[k] :
          Distance(h, u) < Distance(h, v) \/ (u = v /\ n <= k)
  BY DEF IsNearest
<1>3. PICK w \in P[m] : \A k \in N : \A v \in P[k] :
          Distance(h, w) < Distance(h, v) \/ (w = v /\ m <= k)
  BY DEF IsNearest
<1>4. u \in Hashes /\ w \in Hashes
  BY <1>1 DEF Points
<1>5. Distance(h, u) \in Int /\ Distance(h, w) \in Int
  BY <1>4, HalfAssumption DEF Distance, Hashes
<1>6. Distance(h, u) < Distance(h, w) \/ (u = w /\ n <= m)
  BY <1>1, <1>2
<1>7. Distance(h, w) < Distance(h, u) \/ (w = u /\ m <= n)
  BY <1>1, <1>3
<1> QED
  BY <1>1, <1>5, <1>6, <1>7

(* What DataCenter assumes of its constant Owner (ClientAssumption) holds  *)
(* of the placement by this hash: any non-empty ring has an owner for every*)
(* key, and the owner is a host of that ring.                              *)
THEOREM PlacementIsAnOwner ==
    ASSUME NEW P \in Points, NEW Keys, NEW hash \in [Keys -> Hashes], NEW Owner,
           Owner = [N \in (SUBSET Names) \ {{}} |-> [k \in Keys |-> Place(P, N, hash[k])]]
    PROVE  /\ Owner \in [(SUBSET Names) \ {{}} -> [Keys -> Names]]
           /\ \A N \in (SUBSET Names) \ {{}}, k \in Keys : Owner[N][k] \in N
PROOF
<1>1. ASSUME NEW N \in (SUBSET Names) \ {{}}, NEW k \in Keys
      PROVE  Place(P, N, hash[k]) \in N
  BY PlaceIsNearest DEF IsNearest
<1>2. \A N \in (SUBSET Names) \ {{}} :
          [k \in Keys |-> Place(P, N, hash[k])] \in [Keys -> Names]
  BY <1>1
<1> QED
  BY <1>1, <1>2

(* Consistency of the hash: between two rings a key moves only away from a *)
(* host that left or to a host that joined.                                *)
THEOREM PlaceMovesLittle ==
    ASSUME NEW P \in Points, NEW M \in SUBSET Names, NEW N \in SUBSET Names,
           M # {}, N # {}, NEW h \in Hashes
    PROVE  \/ Place(P, M, h) = Place(P, N, h)
           \/ Place(P, M, h) \notin N
           \/ Place(P, N, h) \notin M
PROOF
<1> DEFINE old == Place(P, M, h)
           new == Place(P, N, h)
<1>1. IsNearest(P, M, h, old) /\ IsNearest(P, N, h, new)
  BY PlaceIsNearest
<1>2. SUFFICES ASSUME old \in N, new \in M
               PROVE  old = new
  OBVIOUS
<1>3. IsNearest(P, M \cap N, h, old) /\ IsNearest(P, M \cap N, h, new)
  <2> HIDE DEF old, new
  <2> QED
    BY <1>1, <1>2 DEF IsNearest
<1>4. M \cap N \in SUBSET Names
  OBVIOUS
<1> QED
  <2> HIDE DEF old, new
  <2> QED
    BY <1>3, <1>4, NearestUnique
-----------------------------------------------------------------------------
(* The inductive invariant: hosts are visited in the order of their names, *)
(* so the host being added loses every collision, as Insert has it.        *)
Ordered == \A n \in resources, m \in todo : n < m

RingInv ==
    /\ points \in Points
    /\ todo \subseteq Names
    /\ resources \subseteq Names
    /\ phase \in {"idle", "init"}
    /\ phase = "idle" => todo = {}
    /\ RingIsReference
    /\ Ordered

(* A ring without hosts has no nodes.                                      *)
LEMMA EmptyRing ==
    ASSUME NEW P
    PROVE  RingNodes(P, {}) = NoNodes
PROOF
<1>1. UNION {NodeKeys(P, n) : n \in {}} = {}
  OBVIOUS
<1> QED
  BY <1>1 DEF RingNodes, NoNodes

(* Adding the host with the greatest name is one step of the reference.    *)
LEMMA InsertIsReference ==
    ASSUME NEW P \in Points, NEW N \in SUBSET Names, NEW host \in Names,
           \A n \in N : n < host
    PROVE  Insert(RingNodes(P, N), P, host) = RingNodes(P, N \cup {host})
PROOF
<1> DEFINE ringn == RingNodes(P, N)
           Have(x) == {n \in N : x \in NodeKeys(P, n)}
           HaveNow(x) == {n \in N \cup {host} : x \in NodeKeys(P, n)}
           D == UNION {NodeKeys(P, n) : n \in N}
           DNow == UNION {NodeKeys(P, n) : n \in N \cup {host}}
<1>1. DOMAIN ringn = D
  BY DEF RingNodes
<1>2. DNow = D \cup NodeKeys(P, host)
  OBVIOUS
<1>3. ASSUME NEW x \in D PROVE Least(HaveNow(x)) = Least(Have(x))
  <2>1. Have(x) # {} /\ Have(x) \subseteq HaveNow(x)
    OBVIOUS
  <2>2. HaveNow(x) \subseteq Nat /\ Have(x) \subseteq Nat
    BY NamesAssumption
  <2>3. Have(x) \subseteq Int /\ HaveNow(x) \subseteq Int /\ \A n \in Have(x) : 0 <= n
    BY <2>2
  <2>4. Least(Have(x)) \in Have(x) /\ \A n \in Have(x) : Least(Have(x)) <= n
    <3> HIDE DEF Have
    <3> QED
      BY <2>1, <2>3, LeastExists
  <2>5. \A n \in HaveNow(x) : Least(Have(x)) <= n
    <3> SUFFICES ASSUME NEW n \in HaveNow(x) PROVE Least(Have(x)) <= n
      OBVIOUS
    <3>1. CASE n \in N
      BY <2>4, <3>1
    <3>2. CASE n = host
      <4>1. Least(Have(x)) < host
        BY <2>4
      <4>2. Least(Have(x)) \in Int /\ host \in Int
        BY <2>2, <2>4, NamesAssumption
      <4> QED
        BY <3>2, <4>1, <4>2
    <3> QED
      BY <3>1, <3>2
  <2>6. Least(Have(x)) \in HaveNow(x)
    BY <2>1, <2>4
  <2> QED
    <3> HIDE DEF Have, HaveNow
    <3> QED
      BY <2>3, <2>5, <2>6, LeastUnique
<1>4. ASSUME NEW x \in NodeKeys(P, host), x \notin D PROVE Least(HaveNow(x)) = host
  <2>1. HaveNow(x) = {host}
    BY <1>4
  <2>2. host \in Int
    BY NamesAssumption
  <2> QED
    <3> HIDE DEF HaveNow
    <3> QED
      BY <2>1, <2>2, LeastUnique
<1>5. Insert(ringn, P, host) = [x \in DNow |-> IF x \in D THEN ringn[x] ELSE host]
  <2> HIDE DEF ringn, D, DNow
  <2> QED
    BY <1>1, <1>2 DEF Insert
<1>6. RingNodes(P, N \cup {host}) = [x \in DNow |-> Least(HaveNow(x))]
  BY DEF RingNodes
<1>7. \A x \in D : ringn[x] = Least(Have(x))
  BY DEF RingNodes
<1>8. \A x \in DNow : (IF x \in D THEN ringn[x] ELSE host) = Least(HaveNow(x))
  <2> HIDE DEF ringn, D, DNow, Have, HaveNow
  <2> QED
    BY <1>2, <1>3, <1>4, <1>7
<1>9. ringn = RingNodes(P, N)
  OBVIOUS
<1> QED
  <2> HIDE DEF ringn, D, DNow, Have, HaveNow
  <2> QED
    BY <1>5, <1>6, <1>8, <1>9

LEMMA RingInvInit == Init => RingInv
PROOF
<1> SUFFICES ASSUME Init PROVE RingInv
  OBVIOUS
<1>1. RingIsReference
  BY EmptyRing DEF Init, RingIsReference
<1> QED
  BY <1>1 DEF Init, RingInv, Ordered, Points

LEMMA RingInvNext == RingInv /\ [Next]_vars => RingInv'
PROOF
<1> SUFFICES ASSUME RingInv, [Next]_vars PROVE RingInv'
  OBVIOUS
<1> USE DEF RingInv
<1>1. CASE Destroy
  <2>1. RingIsReference'
    BY <1>1, EmptyRing DEF Destroy, RingIsReference
  <2> QED
    BY <1>1, <2>1 DEF Destroy, Ordered
<1>2. CASE BeginInit
  <2>1. RingIsReference'
    BY <1>2, EmptyRing DEF BeginInit, RingIsReference
  <2> QED
    BY <1>2, <2>1 DEF BeginInit, Ordered
<1>3. CASE SkipHost
  BY <1>3 DEF SkipHost, Ordered, RingIsReference
<1>4. CASE AddHost
  <2> DEFINE host == Least(todo)
  <2>1. host \in todo /\ \A m \in todo : host <= m
    <3>1. todo \subseteq Nat
      BY NamesAssumption
    <3>2. todo \subseteq Int /\ \A m \in todo : 0 <= m
      BY <3>1
    <3>3. todo # {} /\ 0 \in Int
      BY <1>4 DEF AddHost
    <3> QED
      BY <3>2, <3>3, LeastExists
  <2>2. nodes' = Insert(nodes, points, host) /\ resources' = resources \cup {host}
        /\ todo' = todo \ {host} /\ points' = points
        /\ phase = "init" /\ phase' = phase
    BY <1>4 DEF AddHost
  <2> HIDE DEF host
  <2>3. host \in Names /\ \A n \in resources : n < host
    BY <2>1 DEF Ordered
  <2>4. RingIsReference'
    BY <2>2, <2>3, InsertIsReference DEF RingIsReference
  <2>5. Ordered'
    <3> SUFFICES ASSUME NEW n \in resources', NEW m \in todo' PROVE n < m
      BY DEF Ordered
    <3>1. CASE n \in resources
      BY <2>2, <3>1 DEF Ordered
    <3>2. CASE n = host
      <4>1. host <= m /\ host # m /\ host \in Nat /\ m \in Nat
        BY <2>1, <2>2, NamesAssumption
      <4> QED
        BY <3>2, <4>1
    <3> QED
      BY <2>2, <3>1, <3>2
  <2> QED
    BY <2>2, <2>3, <2>4, <2>5
<1>5. CASE EndInit
  BY <1>5 DEF EndInit, Ordered, RingIsReference
<1>6. CASE UNCHANGED vars
  BY <1>6 DEF vars, Ordered, RingIsReference
<1> QED
  BY <1>1, <1>2, <1>3, <1>4, <1>5, <1>6 DEF Next

LEMMA RingInvariant == Spec => []RingInv
PROOF
<1>1. QED
  BY RingInvInit, RingInvNext, PTL DEF Spec

(* Whatever connections failed and whatever was built and freed before,    *)
(* the map holds exactly the virtual nodes of the connected hosts.         *)
THEOREM RingCorrect == Spec => []RingIsReference
PROOF
<1>1. RingInv => RingIsReference
  BY DEF RingInv
<1> QED
  BY <1>1, RingInvariant, PTL

(* The nodes of a ring that has hosts; what the look-up gives on it.       *)
LEMMA BuiltRing ==
    ASSUME RingInv
    PROVE  /\ nodes # NoNodes => resources # {}
           /\ resources # {} => nodes # NoNodes
           /\ \A h \in Hashes : Lookup(nodes, HashValue(h)) = Place(points, resources, h)
PROOF
<1>1. resources = {} => nodes = NoNodes
  BY EmptyRing DEF RingInv, RingIsReference
<1>2. ASSUME resources # {} PROVE nodes # NoNodes
  <2>1. PICK n \in resources : TRUE
    BY <1>2
  <2>2. NodeKeys(points, n) # {}
    BY NodeKeysType DEF RingInv
  <2>3. DOMAIN nodes = UNION {NodeKeys(points, m) : m \in resources}
    BY DEF RingInv, RingIsReference, RingNodes
  <2>4. DOMAIN nodes # {}
    BY <2>2, <2>3
  <2> QED
    BY <2>4 DEF NoNodes
<1>3. \A h \in Hashes : Lookup(nodes, HashValue(h)) = Place(points, resources, h)
  BY DEF RingInv, RingIsReference, Place
<1> QED
  BY <1>1, <1>2, <1>3

(* The type invariant.                                                     *)
THEOREM RingTypeCorrect == Spec => []TypeOK
PROOF
<1>1. ASSUME RingInv PROVE TypeOK
  <2>1. DOMAIN nodes = UNION {NodeKeys(points, n) : n \in resources}
    BY <1>1 DEF RingInv, RingIsReference, RingNodes
  <2>2. DOMAIN nodes \subseteq -Half .. (Half - 1)
    BY <1>1, <2>1, NodeKeysType DEF RingInv
  <2> QED
    BY <1>1, <2>2 DEF RingInv, TypeOK, Points
<1> QED
  BY <1>1, RingInvariant, PTL

(* getShard gives every key to the clockwise nearest connected host.       *)
THEOREM LookupCorrect == Spec => []LookupIsNearest
PROOF
<1>1. ASSUME RingInv PROVE LookupIsNearest
  <2> SUFFICES ASSUME nodes # NoNodes, NEW h \in Hashes
               PROVE  IsNearest(points, resources, h, Lookup(nodes, HashValue(h)))
    BY DEF LookupIsNearest
  <2>1. resources # {} /\ Lookup(nodes, HashValue(h)) = Place(points, resources, h)
    BY <1>1, BuiltRing
  <2> QED
    BY <1>1, <2>1, PlaceIsNearest DEF RingInv
<1> QED
  BY <1>1, RingInvariant, PTL

(* getShard never inserts a NULL connection.                               *)
THEOREM LookupFindsResource == Spec => []LookupHasResource
PROOF
<1>1. LookupIsNearest => LookupHasResource
  BY DEF LookupIsNearest, LookupHasResource, IsNearest
<1> QED
  BY <1>1, LookupCorrect, PTL

(* A re-sharding moves only the keys it has to.                            *)
THEOREM DisruptionIsMinimal == Spec => []MinimalDisruption
PROOF
<1>1. ASSUME RingInv PROVE MinimalDisruption
  <2> SUFFICES ASSUME NEW N \in (SUBSET Names) \ {{}}, NEW h \in Hashes, resources # {}
               PROVE  \/ Lookup(nodes, HashValue(h)) = Place(points, N, h)
                      \/ Lookup(nodes, HashValue(h)) \notin N
                      \/ Place(points, N, h) \notin resources
    BY DEF MinimalDisruption
  <2>1. Lookup(nodes, HashValue(h)) = Place(points, resources, h)
    BY <1>1, BuiltRing
  <2> QED
    BY <1>1, <2>1, PlaceMovesLittle DEF RingInv
<1> QED
  BY <1>1, RingInvariant, PTL
=============================================================================
