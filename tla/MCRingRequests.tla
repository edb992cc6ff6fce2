--------------------------- MODULE MCRingRequests ---------------------------
(* Values of the constants of RingRequests for model checking.             *)
EXTENDS RingRequests, TLC

(* Two addresses, one whose port is no number, and one without a port.     *)
MCServers == {<<"a", ":", "1">>, <<"a", ":", "2">>, <<"b", ":", "x">>}
MCBadAddr == <<"b", ":">>

(* A ring grows by a host, and another one lists an address nobody can     *)
(* parse.                                                                  *)
MCTables ==
    {1 :> <<"a", ":", "1">>,
     1 :> <<"a", ":", "1">> @@ 2 :> <<"a", ":", "2">>,
     1 :> <<"a", ":", "2">> @@ 2 :> MCBadAddr}

(* The first host has every key.                                           *)
MCOwner ==
    [N \in (SUBSET Names) \ {{}} |->
        [k \in Keys |-> CHOOSE n \in N : \A m \in N : n <= m]]

(* split2vec takes apart exactly the addresses, and as they are written,   *)
(* among all strings of at most six characters.                            *)
Texts == UNION {[1 .. n -> {"a", ":"}] : n \in 0 .. 6}
Plain(str) == ":" \notin {str[i] : i \in DOMAIN str}
Parts(str) == {SubSeq(str, i, j) : i \in 1 .. Len(str) + 1, j \in 0 .. Len(str)}

ASSUME SplitIsReference ==
    \A str \in Texts :
        LET result == Split(str, ":", 2)
            splits == {part \in Parts(str) \X Parts(str) :
                          /\ Plain(part[1]) /\ Plain(part[2])
                          /\ IsAddress(str, ":", part[1], part[2])}
        IN  IF result.ok
            THEN splits = {<<result.vec[1], result.vec[2]>>}
            ELSE splits = {}
=============================================================================
