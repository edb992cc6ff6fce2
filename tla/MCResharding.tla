---------------------------- MODULE MCResharding ----------------------------
(* Values of the constants of Resharding for model checking.               *)
EXTENDS Resharding, TLC

(* The commands that may do most: each may also be refused, so setvalue may*)
(* do whatever a write may do, but for setex.                              *)
MCUsed == {"setvalue", "setex", "getSet", "expire"}

(* Whatever a command of the table may make of a key, one of these may with*)
(* the same flag.                                                          *)
ASSUME UsedIsComplete ==
    \A c \in Commands \ Counters : \E u \in MCUsed :
        /\ Table[u].iswrite = Table[c].iswrite
        /\ \A x \in Items : Outcomes(c, x, NoCommand) \subseteq Outcomes(u, x, NoCommand)

(* The status "change" is as "normal" is, and then the old addresses play   *)
(* no part.                                                                *)
MCInit ==
    /\ Init
    /\ cfg.status # "change"
    /\ cfg.status = "normal" => cfg.oldaddress = cfg.address

MCSpec == MCInit /\ [][Next]_vars

(* Clients are alike, and so are servers.                                  *)
Symmetry == Permutations(Clients) \cup Permutations(Servers)
=============================================================================
