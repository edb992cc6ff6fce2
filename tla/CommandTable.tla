---------------------------- MODULE CommandTable ----------------------------
(***************************************************************************)
(* The methods of JedisCommand: which of them hand their command to        *)
(* execute as a write (the flag iswrite, which decides on the expiry and   *)
(* on the repetition during a re-sharding), and what the redis server does *)
(* to the key.  The wording of the commands and the results are left out;  *)
(* overloads of a method are one entry.                                    *)
(*                                                                         *)
(* The effects are those of the redis server, which is external:           *)
(*   read    the key is as it was                                          *)
(*   assign  the key has a new value, and no expiry                        *)
(*   setex   the key has a new value, and an expiry                        *)
(*   add     a missing key is created without an expiry; an existing one   *)
(*           may change, and keeps its expiry                              *)
(*   modify  an existing key may change, a missing one stays missing       *)
(*   shrink  an existing key may change, or lose its last element and go   *)
(*   delete  the key goes                                                  *)
(*   expire  an existing key has an expiry, or goes if that has passed     *)
(***************************************************************************)

Effects == {"read", "assign", "setex", "add", "modify", "shrink", "delete", "expire"}

Flagged(effect) == [iswrite |-> TRUE, effect |-> effect]
Unflagged(effect) == [iswrite |-> FALSE, effect |-> effect]
Read == Unflagged("read")

(* Keys and strings.                                                       *)
StringCommands == [
    del |-> Unflagged("delete"), exists |-> Read, type |-> Read,
    expire |-> Unflagged("expire"), expireAt |-> Unflagged("expire"), ttl |-> Read,
    setvalue |-> Flagged("assign"), get |-> Read, getSet |-> Unflagged("assign"),
    setex |-> Flagged("setex"), setnx |-> Flagged("add"),
    setbit |-> Flagged("add"), getbit |-> Read,
    setrange |-> Flagged("add"), getrange |-> Read, substr |-> Read,
    append |-> Unflagged("add"),
    decrBy |-> Unflagged("add"), decr |-> Unflagged("add"),
    incrBy |-> Unflagged("add"), incr |-> Unflagged("add")]

(* Hashes.                                                                 *)
HashCommands == [
    hset |-> Flagged("add"), hsetnx |-> Flagged("add"), hmset |-> Flagged("add"),
    hget |-> Read, hmget |-> Read, hexists |-> Read, hlen |-> Read,
    hkeys |-> Read, hvals |-> Read, hgetAll |-> Read,
    hincrBy |-> Unflagged("add"), hdel |-> Unflagged("shrink")]

(* Lists.                                                                  *)
ListCommands == [
    rpush |-> Flagged("add"), lpush |-> Flagged("add"), lset |-> Flagged("modify"),
    llen |-> Read, lrange |-> Read, lindex |-> Read,
    ltrim |-> Unflagged("shrink"), lrem |-> Unflagged("shrink"),
    lpop |-> Unflagged("shrink"), rpop |-> Unflagged("shrink")]

(* Pushes on a list that exists.                                           *)
ListPushxCommands == [lpushx |-> Unflagged("modify"), rpushx |-> Unflagged("modify")]

(* Sets.                                                                   *)
SetCommands == [
    sadd |-> Flagged("add"), smembers |-> Read, scard |-> Read, sismember |-> Read,
    srandmember |-> Read, srem |-> Unflagged("shrink"), spop |-> Unflagged("shrink")]

(* Sorted sets, by member.                                                 *)
SortedSetCommands == [
    zadd |-> Flagged("add"), zincrby |-> Unflagged("add"), zrem |-> Unflagged("shrink"),
    zrange |-> Read, zrevrange |-> Read, zrank |-> Read, zrevrank |-> Read,
    zcard |-> Read, zscore |-> Read]

(* Sorted sets, by range of scores or ranks.                               *)
SortedSetRangeCommands == [
    zcount |-> Read, zrangeByScore |-> Read, zrevrangeByScore |-> Read,
    zremrangeByRank |-> Unflagged("shrink"), zremrangeByScore |-> Unflagged("shrink")]

Families == {StringCommands, HashCommands, ListCommands, ListPushxCommands,
             SetCommands, SortedSetCommands, SortedSetRangeCommands}

Commands == UNION {DOMAIN family : family \in Families}

(* The entry of a command.                                                 *)
Table == [c \in Commands |-> (CHOOSE family \in Families : c \in DOMAIN family)[c]]

(* The methods RedisTable overrides: counters live on the configuration    *)
(* server.                                                                 *)
Counters == {"decrBy", "decr", "incrBy", "incr"}
=============================================================================
