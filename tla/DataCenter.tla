----------------------------- MODULE DataCenter -----------------------------
(***************************************************************************)
(* A client process of the redis cluster: one DataCenter object with its   *)
(* two hash rings, the thread that follows the configuration server, and   *)
(* the application threads that run commands through RedisTable.           *)
(*                                                                         *)
(* The subscriber process first runs DataCenter::init (in the application  *)
(* thread that created the object), then run_thread (in the pool): pc is   *)
(* the control point of that one sequential activity.  The application     *)
(* threads start when init has returned, whatever it returned: no caller   *)
(* in the repository looks at the result.                                  *)
(*                                                                         *)
(* Abstractions.  A Jedis is the address it is connected to (get_name()    *)
(* returns that address, jedis.cpp:48-49) and the ring that owns it.  A    *)
(* ring is the partial function from host names to addresses its           *)
(* resources stand for; which host owns a key is the constant Owner, whose *)
(* definition is module Sharded.  A command is its key and its iswrite     *)
(* flag.  The requests of one call of init_sharded are one step: they run  *)
(* in init or under the write lock, so only the operator can interleave.   *)
(***************************************************************************)
EXTENDS Naturals, Sequences, Functions

CONSTANTS
    Names, Servers, BadAddr, Tables, NoMessage, MaxPublish, \* see ConfigCenter
    Keys,           \* keys of commands
    Threads,        \* application threads
    Subscriber,     \* the subscription thread, as a user of the lock
    Owner,          \* Owner[N][k]: the host of N that a ring over N gives k to
    NoJedis,        \* NULL
    Timeout         \* RedisTable::_timeout

ASSUME ConfigAssumption ==
    /\ BadAddr \notin Servers
    /\ NoMessage \notin {"syning", "normal", "change", "toconvert", "ack", "error"}
    /\ Tables \subseteq UNION {[N -> Servers \cup {BadAddr}] : N \in SUBSET Names}
    /\ MaxPublish \in Nat

ASSUME ClientAssumption ==
    /\ Subscriber \notin Threads
    /\ Keys # {}
    /\ Owner \in [(SUBSET Names) \ {{}} -> [Keys -> Names]]
    /\ \A N \in (SUBSET Names) \ {{}}, k \in Keys : Owner[N][k] \in N
    /\ NoJedis \notin [addr : Servers, ring : {1, 2}, freed : Nat]
    /\ Timeout \in Nat

VARIABLES
    cfg, pending, published,    \* the configuration server: see ConfigCenter
    lock,           \* _wrlock
    pc,             \* control of init and of run_thread
    msg,            \* the message handle_subs works on
    stream,         \* what the server has sent on _subs_jedis, unread
    subscribed,     \* the server knows the subscription
    state,          \* _state
    ring,           \* the two Sharded objects
    sharded,        \* _sharded, the number of a ring
    sharded_new,    \* _sharded_new
    tpc,            \* control of each application thread
    cmd,            \* the command each thread runs
    jedis,          \* the Jedis * each thread has resolved
    sent,           \* what the thread's command has sent, in order
    excuse          \* history: why the client may not follow the configuration

configVars == <<cfg, pending, published>>
subsVars   == <<pc, msg, stream, subscribed>>
ringVars   == <<state, ring, sharded, sharded_new>>
threadVars == <<tpc, cmd, jedis, sent>>
vars == <<configVars, lock, subsVars, ringVars, threadVars, excuse>>

Config == INSTANCE ConfigCenter
Lock == INSTANCE RWLock WITH Procs <- Threads \cup {Subscriber}

-----------------------------------------------------------------------------
(* Data.                                                                   *)

Rings == {1, 2}

(* A Sharded object: its resources, and how often destroy() has freed them.*)
RingState == [hosts : UNION {[N -> Servers] : N \in SUBSET Names}, freed : Nat]

(* A Jedis pointer: the connection it means, the ring that owns it, and    *)
(* the generation of that ring's resources it belongs to.                  *)
Jedis == [addr : Servers, ring : Rings, freed : Nat]

NoHosts == [n \in {} |-> n]
NoCommand == [key |-> CHOOSE key \in Keys : TRUE, iswrite |-> FALSE]

(* The pointer still points to an object: its ring has not freed it.       *)
Live(j) == j.freed = ring[j.ring].freed

(* Sharded::getShard.                                                      *)
GetShard(r, key) ==
    LET hosts == ring[r].hosts
    IN  IF DOMAIN hosts = {}
        THEN NoJedis
        ELSE [addr |-> hosts[Owner[DOMAIN hosts][key]],
              ring |-> r,
              freed |-> ring[r].freed]

(* The hosts whose address init_sharded can use.                           *)
WellFormed(table) == {n \in DOMAIN table : table[n] # BadAddr}
Usable(table) == [n \in WellFormed(table) |-> table[n]]

(* DataCenter::init_sharded on ring r with an address hash: the possible   *)
(* results and the ring afterwards.  Empty hash, or HKEYS without answer:  *)
(* false.  No HGET gives a usable address: true, and the ring is as it     *)
(* was.  Otherwise the ring is destroyed and holds the hosts that accepted *)
(* a connection, which may be none.                                        *)
InitOutcomes(r, table) ==
    {[ok |-> answer, ring |-> ring[r]] : answer \in {FALSE, DOMAIN table # {}}}
    \cup {[ok |-> up # {},
           ring |-> [hosts |-> [n \in up |-> table[n]],
                     freed |-> ring[r].freed + 1]] :
          up \in {u \in SUBSET WellFormed(table) : WellFormed(table) # {}}}

(* Everything the hash lists is in the ring.                               *)
Complete(outcome, table) ==
    outcome.ok /\ WellFormed(table) # {} /\ outcome.ring.hosts = Usable(table)

(* The first thing that went wrong for this client.                        *)
Excuse(reason, cond) ==
    excuse' = IF cond /\ excuse = "none" THEN reason ELSE excuse

InitSharded(r, table, out) ==
    /\ ring' = [ring EXCEPT ![r] = out.ring]
    /\ Excuse("degraded", ~Complete(out, table))

-----------------------------------------------------------------------------
(* DataCenter::init.                                                       *)

Init ==
    /\ Config!Init
    /\ Lock!Init
    /\ pc = "connect"
    /\ msg = NoMessage
    /\ stream = <<>>
    /\ subscribed = FALSE
    /\ state = "normal"
    /\ ring = [r \in Rings |-> [hosts |-> NoHosts, freed |-> 0]]
    /\ sharded = 1
    /\ sharded_new = 2
    /\ tpc = [t \in Threads |-> "idle"]
    /\ cmd = [t \in Threads |-> NoCommand]
    /\ jedis = [t \in Threads |-> NoJedis]
    /\ sent = [t \in Threads |-> <<>>]
    /\ excuse = "none"

(* _jedis.init_obj(cfgip, cfgport).                                        *)
Connect ==
    /\ pc = "connect"
    /\ \/ pc' = "status" /\ UNCHANGED excuse
       \/ pc' = "failed" /\ Excuse("degraded", TRUE)
    /\ UNCHANGED <<configVars, lock, msg, stream, subscribed, ringVars, threadVars>>

(* init_sharded_state(): the key may be missing or unreadable.             *)
InitShardedState ==
    /\ pc = "status"
    /\ \/ /\ state' = cfg.status
          /\ pc' = IF cfg.status = "syning" THEN "ring_new" ELSE "ring"
          /\ IF pending # NoMessage
             THEN Excuse("raced", TRUE)
             ELSE Excuse("late", cfg.status = "toconvert")
       \/ /\ pc' = "failed"
          /\ Excuse("degraded", TRUE)
          /\ UNCHANGED state
    /\ UNCHANGED <<configVars, lock, msg, stream, subscribed, ring, sharded,
                   sharded_new, threadVars>>

(* Faulty variant of InitNewRing: the old ring is not built.               *)
InitNewRingOnly ==
    /\ pc = "ring_new"
    /\ \E out \in InitOutcomes(sharded_new, cfg.address) :
          /\ InitSharded(sharded_new, cfg.address, out)
          /\ pc' = IF out.ok THEN "subs" ELSE "failed"
    /\ UNCHANGED <<configVars, lock, msg, stream, subscribed, state, sharded,
                   sharded_new, threadVars>>

(* init_sharded(_sharded_new, address), when a re-sharding is going on.    *)
InitNewRing ==
    /\ pc = "ring_new"
    /\ \E out \in InitOutcomes(sharded_new, cfg.address) :
          /\ InitSharded(sharded_new, cfg.address, out)
          /\ pc' = IF out.ok THEN "ring" ELSE "failed"
    /\ UNCHANGED <<configVars, lock, msg, stream, subscribed, state, sharded,
                   sharded_new, threadVars>>

(* init_sharded(_sharded, oldaddress or address).                          *)
InitRing ==
    /\ pc = "ring"
    /\ LET table == IF state = "syning" THEN cfg.oldaddress ELSE cfg.address
       IN \E out \in InitOutcomes(sharded, table) :
             /\ InitSharded(sharded, table, out)
             /\ pc' = IF out.ok THEN "subs" ELSE "failed"
    /\ UNCHANGED <<configVars, lock, msg, stream, subscribed, state, sharded,
                   sharded_new, threadVars>>

(* _subs_jedis.init_obj(cfgip, cfgport), then the pool thread is started.  *)
ConnectSubs ==
    /\ pc = "subs"
    /\ \/ pc' = "subscribe" /\ UNCHANGED excuse
       \/ pc' = "failed" /\ Excuse("degraded", TRUE)
    /\ UNCHANGED <<configVars, lock, msg, stream, subscribed, ringVars, threadVars>>

-----------------------------------------------------------------------------
(* DataCenter::run_thread.                                                 *)

(* What the server sends on the subscription connection.                   *)
Acknowledgements == {"ack", "error"}
Replies == Config!Status \cup Acknowledgements

(* One SUBSCRIBE: the server accepts or refuses it, and execute takes the  *)
(* next thing on the connection for the answer, be it a message.           *)
SendSubscribe(reply) ==
    /\ subscribed' = (subscribed \/ reply = "ack")
    /\ stream' = Tail(Append(stream, reply))
    /\ UNCHANGED <<configVars, lock, msg, ringVars, threadVars, excuse>>

(* Jedis::subscribe sends SUBSCRIBE through the variadic execute, which    *)
(* runs the command twice and ignores the first result (jedis.cpp:137-138).*)
Subscribe ==
    /\ pc = "subscribe"
    /\ \E reply \in Acknowledgements : SendSubscribe(reply)
    /\ pc' = "subscribe_again"

(* The subscription is tried again until the second one reads something    *)
(* that is no error.                                                       *)
SubscribeAgain ==
    /\ pc = "subscribe_again"
    /\ \E reply \in Acknowledgements :
          /\ SendSubscribe(reply)
          /\ pc' = IF Head(Append(stream, reply)) = "error" THEN "subscribe" ELSE "receive"

(* The subscription connection fails: the server or the network closes it, *)
(* before or after SUBSCRIBE.  A Jedis never reconnects, whatever the      *)
(* comment jedis.h:5-7 announces, so the thread hears nothing any more.    *)
SubsBreak ==
    /\ pc \in {"subscribe", "subscribe_again", "receive"}
    /\ pc' = "deaf"
    /\ subscribed' = FALSE
    /\ stream' = <<>>
    /\ UNCHANGED <<configVars, lock, msg, ringVars, threadVars, excuse>>

(* Faulty variant of Receive: only the last message counts.                *)
ReceiveLatest ==
    /\ pc = "receive"
    /\ stream # <<>>
    /\ stream' = <<>>
    /\ IF stream[Len(stream)] \in {"syning", "normal", "change"}
       THEN pc' = "wrlock" /\ msg' = stream[Len(stream)]
       ELSE UNCHANGED <<pc, msg>>
    /\ UNCHANGED <<configVars, lock, subscribed, ringVars, threadVars, excuse>>

(* subscribe_get_reply, and the tests of handle_subs: a reply that is not  *)
(* a message, or whose value has no case, changes nothing.                 *)
Receive ==
    /\ pc = "receive"
    /\ stream # <<>>
    /\ stream' = Tail(stream)
    /\ IF Head(stream) \in {"syning", "normal", "change"}
       THEN pc' = "wrlock" /\ msg' = Head(stream)
       ELSE UNCHANGED <<pc, msg>>
    /\ UNCHANGED <<configVars, lock, subscribed, ringVars, threadVars, excuse>>

(* CAutoGuardWR wrlock(_wrlock).                                           *)
LockWrite ==
    /\ pc = "wrlock"
    /\ Lock!LockWrite(Subscriber)
    /\ pc' = "handle"
    /\ UNCHANGED <<configVars, msg, stream, subscribed, ringVars, threadVars, excuse>>

(* SHARD_START_STATUS: a second ring is built from the new hosts.          *)
HandleStart ==
    /\ pc = "handle"
    /\ msg = "syning"
    /\ \E out \in InitOutcomes(sharded_new, cfg.address) :
          /\ InitSharded(sharded_new, cfg.address, out)
          /\ state' = IF out.ok THEN "syning" ELSE state
    /\ pc' = "unlock"
    /\ UNCHANGED <<configVars, lock, msg, stream, subscribed, sharded,
                   sharded_new, threadVars>>

(* Faulty variant of HandleNormal: swapped first and destroyed then.       *)
HandleNormalSwapFirst ==
    /\ pc = "handle"
    /\ msg = "normal"
    /\ ring' = [ring EXCEPT ![sharded_new] =
                    [hosts |-> NoHosts, freed |-> @.freed + 1]]
    /\ sharded' = sharded_new
    /\ sharded_new' = sharded
    /\ state' = "normal"
    /\ pc' = "unlock"
    /\ UNCHANGED <<configVars, lock, msg, stream, subscribed, threadVars, excuse>>

(* SHARD_NORMAL_STATUS: the ring in use is freed, the other one takes its  *)
(* place, whatever it holds.                                               *)
HandleNormal ==
    /\ pc = "handle"
    /\ msg = "normal"
    /\ ring' = [ring EXCEPT ![sharded] = [hosts |-> NoHosts, freed |-> @.freed + 1]]
    /\ sharded' = sharded_new
    /\ sharded_new' = sharded
    /\ state' = "normal"
    /\ pc' = "unlock"
    /\ UNCHANGED <<configVars, lock, msg, stream, subscribed, threadVars, excuse>>

(* SHARD_CHANGE_STATUS: the ring in use is rebuilt.                        *)
HandleChange ==
    /\ pc = "handle"
    /\ msg = "change"
    /\ \E out \in InitOutcomes(sharded, cfg.address) :
          InitSharded(sharded, cfg.address, out)
    /\ pc' = "unlock"
    /\ UNCHANGED <<configVars, lock, msg, stream, subscribed, state, sharded,
                   sharded_new, threadVars>>

(* Faulty variant of UnlockWrite: the lock is kept.                        *)
UnlockWriteForgotten ==
    /\ pc = "unlock"
    /\ pc' = "receive"
    /\ msg' = NoMessage
    /\ UNCHANGED <<configVars, lock, stream, subscribed, ringVars, threadVars, excuse>>

(* The destructor of wrlock.                                               *)
UnlockWrite ==
    /\ pc = "unlock"
    /\ Lock!UnlockWrite(Subscriber)
    /\ pc' = "receive"
    /\ msg' = NoMessage
    /\ UNCHANGED <<configVars, stream, subscribed, ringVars, threadVars, excuse>>

SubscriberStep ==
    \/ Connect \/ InitShardedState \/ InitNewRing \/ InitRing \/ ConnectSubs
    \/ Subscribe \/ SubscribeAgain \/ Receive
    \/ LockWrite \/ HandleStart \/ HandleNormal \/ HandleChange \/ UnlockWrite

-----------------------------------------------------------------------------
(* RedisTable, in an application thread t.                                 *)

Startup == {"connect", "status", "ring_new", "ring", "subs"}

Requests == [op : {"command", "expire"}, to : Servers]
Request(op, j) == [op |-> op, to |-> j.addr]

(* What RedisTable::set_expire sends.                                      *)
SetExpire(j) == IF Timeout > 0 THEN <<Request("expire", j)>> ELSE <<>>

(* A crash ends every thread of the process.                               *)
Crashes == {"null_dereference", "memory_fault"}

Crash(kind) ==
    /\ pc' = kind
    /\ tpc' = [t \in Threads |-> kind]

(* Faulty variant of BeginExecute: no lock.                                *)
BeginExecuteUnlocked(t) ==
    /\ pc \notin Startup
    /\ tpc[t] = "idle"
    /\ \E key \in Keys, iswrite \in BOOLEAN :
          /\ cmd' = [cmd EXCEPT ![t] = [key |-> key, iswrite |-> iswrite]]
          /\ jedis' = [jedis EXCEPT ![t] = GetShard(sharded, key)]
    /\ tpc' = [tpc EXCEPT ![t] = "execute"]
    /\ UNCHANGED <<configVars, lock, subsVars, ringVars, sent, excuse>>

(* RedisTable::execute takes the read lock and asks the ring in use for    *)
(* the owner of the key.                                                   *)
BeginExecute(t) ==
    /\ pc \notin Startup
    /\ tpc[t] = "idle"
    /\ Lock!LockRead(t)
    /\ \E key \in Keys, iswrite \in BOOLEAN :
          /\ cmd' = [cmd EXCEPT ![t] = [key |-> key, iswrite |-> iswrite]]
          /\ jedis' = [jedis EXCEPT ![t] = GetShard(sharded, key)]
    /\ tpc' = [tpc EXCEPT ![t] = "execute"]
    /\ UNCHANGED <<configVars, subsVars, ringVars, sent, excuse>>

(* The command on the owner, and the expiry of a write.                    *)
ExecuteOnOwner(t) ==
    /\ tpc[t] = "execute"
    /\ sent' = [sent EXCEPT ![t] =
          IF jedis[t] = NoJedis THEN <<>>
          ELSE <<Request("command", jedis[t])>>
               \o (IF cmd[t].iswrite THEN SetExpire(jedis[t]) ELSE <<>>)]
    /\ tpc' = [tpc EXCEPT ![t] = "mirror"]
    /\ UNCHANGED <<configVars, lock, subsVars, ringVars, cmd, jedis, excuse>>

(* The owner of the thread's key in the ring being filled.                 *)
NewOwner(t) == GetShard(sharded_new, cmd[t].key)

(* While a re-sharding is going on a write is repeated.  The names of the  *)
(* two owners are compared although there may be no old one; the command   *)
(* goes to the old owner again, the expiry to the new one.                 *)
Mirror(t) ==
    /\ tpc[t] = "mirror"
    /\ LET mirrored == state = "syning" /\ cmd[t].iswrite /\ NewOwner(t) # NoJedis
       IN  \/ /\ mirrored
              /\ jedis[t] = NoJedis
              /\ Crash("null_dereference")
              /\ UNCHANGED sent
           \/ /\ mirrored => jedis[t] # NoJedis
              /\ tpc' = [tpc EXCEPT ![t] = "finish"]
              /\ sent' = [sent EXCEPT ![t] =
                    IF mirrored /\ NewOwner(t).addr # jedis[t].addr
                    THEN @ \o (<<Request("command", jedis[t])>>
                               \o SetExpire(NewOwner(t)))
                    ELSE @]
              /\ UNCHANGED pc
    /\ UNCHANGED <<configVars, lock, msg, stream, subscribed, ringVars, cmd, jedis,
                   excuse>>

(* The destructor of rdlock.                                               *)
EndExecute(t) ==
    /\ tpc[t] = "finish"
    /\ Lock!UnlockRead(t)
    /\ tpc' = [tpc EXCEPT ![t] = "idle"]
    /\ cmd' = [cmd EXCEPT ![t] = NoCommand]
    /\ jedis' = [jedis EXCEPT ![t] = NoJedis]
    /\ sent' = [sent EXCEPT ![t] = <<>>]
    /\ UNCHANGED <<configVars, subsVars, ringVars, excuse>>

(* RedisTable::get_jedis_addr looks the owner up without the lock.  While  *)
(* the subscriber is changing the ring the look-up itself is a data race.  *)
ResolveAddr(t) ==
    /\ pc \notin Startup
    /\ tpc[t] = "idle"
    /\ \/ /\ \E key \in Keys : jedis' = [jedis EXCEPT ![t] = GetShard(sharded, key)]
          /\ tpc' = [tpc EXCEPT ![t] = IF jedis'[t] = NoJedis THEN "idle" ELSE "addr"]
          /\ UNCHANGED pc
       \/ /\ lock.writers # {}
          /\ Crash("memory_fault")
          /\ UNCHANGED jedis
    /\ UNCHANGED <<configVars, lock, msg, stream, subscribed, ringVars, cmd, sent,
                   excuse>>

(* jedis->get_addr() reads the connection, which may have been freed.      *)
ReadAddr(t) ==
    /\ tpc[t] = "addr"
    /\ \/ tpc' = [tpc EXCEPT ![t] = "idle"] /\ UNCHANGED pc
       \/ ~Live(jedis[t]) /\ Crash("memory_fault")
    /\ jedis' = [jedis EXCEPT ![t] = NoJedis]
    /\ UNCHANGED <<configVars, lock, msg, stream, subscribed, ringVars, cmd, sent,
                   excuse>>

(* The steps of a call that has begun.                                     *)
ThreadStep(t) == ExecuteOnOwner(t) \/ Mirror(t) \/ EndExecute(t) \/ ReadAddr(t)

-----------------------------------------------------------------------------
(* The configuration server, seen from this client.                        *)

StartWindow == {"ring_new", "ring", "subs", "subscribe", "subscribe_again"}

(* Messages the client was sent and whose handler has yet to read the      *)
(* address hash.                                                           *)
Unread == Range(stream) \cup (IF pc \in {"wrlock", "handle"} THEN {msg} ELSE {})

(* An operator step is a race for a client that is starting, and overtakes *)
(* a client that has yet to read the addresses it replaces.                *)
OperatorStep ==
    /\ Config!OperatorStep
    /\ IF pc \in StartWindow
       THEN Excuse("raced", TRUE)
       ELSE Excuse("overtaken", /\ cfg'.address # cfg.address
                                /\ Unread \cap {"syning", "change"} # {})
    /\ UNCHANGED <<lock, subsVars, ringVars, threadVars>>

(* A message reaches the clients that are subscribed and no others.        *)
Publish ==
    /\ Config!Publish
    /\ stream' = IF subscribed THEN Append(stream, pending) ELSE stream
    /\ Excuse("raced", pc \in StartWindow)
    /\ UNCHANGED <<lock, pc, msg, subscribed, ringVars, threadVars>>

-----------------------------------------------------------------------------
(* Nothing of a crashed process moves any more.                            *)
Terminated == pc \in Crashes /\ UNCHANGED vars

Next ==
    \/ SubscriberStep
    \/ SubsBreak
    \/ \E t \in Threads : BeginExecute(t) \/ ResolveAddr(t) \/ ThreadStep(t)
    \/ OperatorStep
    \/ Publish
    \/ Terminated

Spec == Init /\ [][Next]_vars

(* The threads of the process are scheduled: the subscriber and a call     *)
(* that has begun go on when they can.  Nothing makes an application call, *)
(* an operator act or a connection break.                                  *)
Fairness ==
    /\ WF_vars(SubscriberStep)
    /\ \A t \in Threads : WF_vars(ThreadStep(t))

FairSpec == Spec /\ Fairness

-----------------------------------------------------------------------------
(* Properties.                                                             *)

InCommand(t) == tpc[t] \in {"execute", "mirror", "finish"}

(* Every variable holds a value of its type.                               *)
TypeOK ==
    /\ Config!TypeOK
    /\ Lock!TypeOK
    /\ pc \in Startup \cup StartWindow
             \cup {"receive", "wrlock", "handle", "unlock", "failed", "deaf"}
             \cup Crashes
    /\ msg \in Config!Status \cup {NoMessage}
    /\ stream \in Seq(Replies)
    /\ subscribed \in BOOLEAN
    /\ state \in Config!Status
    /\ ring \in [Rings -> RingState]
    /\ sharded \in Rings
    /\ sharded_new \in Rings
    /\ tpc \in [Threads -> {"idle", "execute", "mirror", "finish", "addr"} \cup Crashes]
    /\ cmd \in [Threads -> [key : Keys, iswrite : BOOLEAN]]
    /\ jedis \in [Threads -> Jedis \cup {NoJedis}]
    /\ sent \in [Threads -> Seq(Requests)]
    /\ excuse \in {"none", "degraded", "raced", "late", "overtaken"}

(* A command in flight never holds a connection that handle_subs has       *)
(* freed, however messages and commands interleave: this is what _wrlock   *)
(* is for (DataCenter.cpp:104).                                            *)
CommandSeesLiveJedis ==
    \A t \in Threads : InCommand(t) /\ jedis[t] # NoJedis => Live(jedis[t])

(* Between its two look-ups a command sees one configuration: the rings,   *)
(* the state and the roles of the rings do not change under it.            *)
OneViewPerCommand ==
    [][\A t \in Threads : InCommand(t) /\ InCommand(t)' => UNCHANGED ringVars]_vars

(* The client has handled everything the operator did.                     *)
CaughtUp == pc = "receive" /\ stream = <<>> /\ pending = NoMessage

Resharding == cfg.status \in {"syning", "toconvert"}

(* A client that started in a quiet moment outside the conversion phase,   *)
(* reached every host and was not overtaken uses, once it has caught up,   *)
(* the hosts of the configuration: the old ones during a re-sharding, with *)
(* the new ones in the second ring, and the current ones otherwise.  It    *)
(* mirrors writes exactly during a re-sharding (DataCenter.cpp:98-125).    *)
FollowsConfig ==
    CaughtUp /\ excuse = "none" =>
        /\ ring[sharded].hosts = Usable(IF Resharding THEN cfg.oldaddress ELSE cfg.address)
        /\ state = "syning" <=> Resharding
        /\ Resharding => ring[sharded_new].hosts = Usable(cfg.address)

(* At every moment, caught up or not, such a client has an owner for every *)
(* key, and during a re-sharding also a new owner: no order of messages    *)
(* that the operator can produce swaps in an empty ring.                   *)
AlwaysHasOwner ==
    excuse = "none" /\ pc \notin Startup =>
        /\ ring[sharded].hosts # NoHosts
        /\ state = "syning" => ring[sharded_new].hosts # NoHosts

(* Such a client never compares the name of a new owner with that of an    *)
(* old owner that does not exist (DataCenter.cpp:319).                     *)
NoNullDereference ==
    excuse = "none" => pc # "null_dereference"

(* The subscriber has nothing left to do, or can do nothing any more, or   *)
(* the server still refuses the subscription.                              *)
Settled ==
    pc \in {"subscribe", "failed", "deaf"} \cup Crashes \/ (pc = "receive" /\ stream = <<>>)

(* If commands eventually pause, every message is eventually handled: the  *)
(* subscriber is never left waiting for a lock nobody gives back.          *)
MessagesHandled == <>[](lock.readers = {}) => []<>Settled

-----------------------------------------------------------------------------
(* What comments of the code say of the program, and the program does not  *)
(* do.  Each is refuted by a run of its own.                               *)

(* DataCenter.cpp:288 and 319: unless the key has the same Jedis on the    *)
(* old and the new ring, the write is also executed on the new one.        *)
MirrorReachesNewOwner ==
    \A t \in Threads :
        /\ tpc[t] = "finish"
        /\ state = "syning"
        /\ cmd[t].iswrite
        /\ NoJedis \notin {jedis[t], NewOwner(t)}
        /\ NewOwner(t).addr # jedis[t].addr
        => Request("command", NewOwner(t)) \in Range(sent[t])

(* DataCenter.cpp:104 and 110: while the subscriber changes the rings under*)
(* the write lock, look-ups of an owner block.                             *)
LookupsBlocked ==
    [][\A t \in Threads :
          lock.writers # {} /\ tpc[t] = "idle" => tpc'[t] = "idle"]_vars

(* DataCenter.h:49: in the state toconvert the client is ready for the     *)
(* switch.  A client that has done all it is told, and started in that     *)
(* state at worst, has hosts after the switch.                             *)
ConvertKeepsHosts ==
    excuse \in {"none", "late"} /\ msg = "normal" /\ pc = "unlock" =>
        ring[sharded].hosts # NoHosts
=============================================================================
