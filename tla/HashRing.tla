------------------------------ MODULE HashRing ------------------------------
(***************************************************************************)
(* The consistent hash of sharded.cpp and hash.h, as operators.            *)
(*                                                                         *)
(* The strings are left out.  A host is a number, in the order in which    *)
(* std::set<string> gives the names to init_sharded; what MD5 makes of the *)
(* host's virtual nodes is an arbitrary set of 32-bit numbers points[n],   *)
(* and what it makes of a key is an arbitrary 32-bit number.  The width is *)
(* the constant Half, which is 2^31 in the code.                           *)
(***************************************************************************)
EXTENDS Integers

CONSTANT Half           \* the weight of the sign bit

ASSUME HalfAssumption == Half \in Nat \ {0}

(* The first four bytes of the digest, as an unsigned number.              *)
Hashes == 0 .. (2 * Half - 1)

(* Faulty variant of HashValue: off by one at the sign bit.                *)
HashValueOffByOne(u) == IF u > Half THEN u - 2 * Half ELSE u

(* Hash::hash.  (md5[3] & 0xFF) << 24 is an int: when the top bit is set   *)
(* it is negative, and the conversion to long long extends the sign.       *)
HashValue(u) == IF u >= Half THEN u - 2 * Half ELSE u

Least(S) == CHOOSE x \in S : \A y \in S : x <= y

(* Faulty variant of Lookup: past the last node the last one is kept.      *)
LookupWithoutWrap(nodes, h) ==
    LET above == {x \in DOMAIN nodes : x >= h}
    IN  IF above # {} THEN nodes[Least(above)]
        ELSE nodes[CHOOSE x \in DOMAIN nodes : \A y \in DOMAIN nodes : y <= x]

(* Sharded::getShardInfo on a std::map that is not empty: find, else       *)
(* upper_bound, else begin.                                                *)
Lookup(nodes, h) ==
    LET above == {x \in DOMAIN nodes : x > h}
    IN  IF h \in DOMAIN nodes THEN nodes[h]
        ELSE IF above # {} THEN nodes[Least(above)]
        ELSE nodes[Least(DOMAIN nodes)]

(* The keys that the virtual nodes of host n have in the map.              *)
NodeKeys(points, n) == {HashValue(u) : u \in points[n]}

(* Faulty variant of Insert: map::operator[] replaces what is there.       *)
InsertReplacing(nodes, points, n) ==
    [x \in DOMAIN nodes \cup NodeKeys(points, n) |->
        IF x \in NodeKeys(points, n) THEN n ELSE nodes[x]]

(* One iteration of Sharded::init: map::insert keeps what is already there.*)
Insert(nodes, points, n) ==
    [x \in DOMAIN nodes \cup NodeKeys(points, n) |->
        IF x \in DOMAIN nodes THEN nodes[x] ELSE n]

-----------------------------------------------------------------------------
(* Reference definitions: what consistent hashing means.                   *)

(* The map a ring over the hosts N should be: where virtual nodes of two   *)
(* hosts collide, the host that comes first has the node.                  *)
RingNodes(points, N) ==
    [x \in UNION {NodeKeys(points, n) : n \in N} |->
        Least({n \in N : x \in NodeKeys(points, n)})]

(* How far clockwise the unsigned number u is from h on the circle.        *)
Distance(h, u) == IF u >= h THEN u - h ELSE u - h + 2 * Half

(* The host whose virtual node is met first going clockwise from h.        *)
IsNearest(points, N, h, n) ==
    /\ n \in N
    /\ \E u \in points[n] :
          \A m \in N : \A v \in points[m] :
              \/ Distance(h, u) < Distance(h, v)
              \/ u = v /\ n <= m

(* The host that a ring over N gives the hash h to.                        *)
Place(points, N, h) == Lookup(RingNodes(points, N), HashValue(h))
=============================================================================
