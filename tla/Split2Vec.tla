----------------------------- MODULE Split2Vec ------------------------------
(***************************************************************************)
(* utility::split2vec, which DataCenter::init_sharded uses to take the     *)
(* address "host:port" of a redis server apart.  A string is a sequence of *)
(* characters, and the separator is one character, as in its only call.    *)
(***************************************************************************)
EXTENDS Naturals, Sequences

(* string::find: the first separator at or after a position, 0 for npos.   *)
Find(str, split, from) ==
    LET at == {i \in from .. Len(str) : str[i] = split}
    IN  IF at = {} THEN 0 ELSE CHOOSE i \in at : \A j \in at : i <= j

(* The while loop: cut[i] is what its first i iterations leave in end,     *)
(* index and vec.  count 0 means that every separator is used.             *)
Cut(str, split, count) ==
    LET cut[i \in 0 .. Len(str)] ==
            IF i = 0 THEN [end |-> 1, index |-> 0, vec |-> <<>>]
            ELSE LET before == cut[i - 1]
                     pos    == Find(str, split, before.end)
                 IN  IF pos = 0 \/ (count > 0 /\ before.index = count)
                     THEN before
                     ELSE [end   |-> pos + 1,
                           index |-> IF count > 0 THEN before.index + 1 ELSE 0,
                           vec   |-> Append(before.vec, SubSeq(str, before.end, pos - 1))]
    IN  cut[Len(str)]

(* The rest of the string, unless empty, is one more part.  The result is  *)
(* good when there were as many parts, or more, as count asks for.         *)
Split(str, split, count) ==
    LET cut   == Cut(str, split, count)
        rest  == SubSeq(str, cut.end, Len(str))
        index == IF rest # <<>> /\ cut.index # count THEN cut.index + 1 ELSE cut.index
    IN  IF str = <<>> THEN [ok |-> FALSE, vec |-> <<>>]
        ELSE [ok  |-> count = 0 \/ index = count,
              vec |-> IF rest = <<>> THEN cut.vec ELSE Append(cut.vec, rest)]

-----------------------------------------------------------------------------
(* Reference definitions: what an address is.                              *)

(* An address has a host, which may be empty, a separator, and a port,     *)
(* which may be empty only when a second separator follows.                *)
IsAddress(str, split, host, port) ==
    \/ str = host \o <<split>> \o port /\ port # <<>>
    \/ \E rest \in {SubSeq(str, i, Len(str)) : i \in 1 .. Len(str) + 1} :
          str = host \o <<split>> \o port \o <<split>> \o rest
=============================================================================
