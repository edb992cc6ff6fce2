---------------------------- MODULE MCDataCenter ----------------------------
(* Values of the constants of DataCenter for model checking.               *)
EXTENDS DataCenter, TLC

(* Placement is the consistent hash of HashRing on a circle of 8 hashes:   *)
(* alone each host has every key, together each host has one of the two.   *)
Hash == INSTANCE HashRing WITH Half <- 4
MCPoints == 1 :> {1, 6} @@ 2 :> {3}
MCKeyHash == <<2, 5>>
MCOwner ==
    [N \in (SUBSET Names) \ {{}} |->
        [k \in Keys |-> Hash!Place([n \in N |-> MCPoints[n]], N, MCKeyHash[k])]]

(* One host that moves: enough for rings that disagree on every key.       *)
OneHost == {1 :> "s1", 1 :> "s2"}

(* The two are alike.  The status "change" is as "normal" is, and then the *)
(* old addresses play no part.                                             *)
MCInit ==
    /\ Init
    /\ cfg.address = 1 :> "s1"
    /\ cfg.status # "change"
    /\ cfg.status = "normal" => cfg.oldaddress = cfg.address

MCFairSpec == MCInit /\ [][Next]_vars /\ Fairness
=============================================================================
