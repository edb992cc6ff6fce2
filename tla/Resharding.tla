----------------------------- MODULE Resharding -----------------------------
(***************************************************************************)
(* Several client processes, the redis servers and one key, while the      *)
(* operator re-shards.  Each client follows the configuration at its own   *)
(* pace, runs the commands of JedisCommand through RedisTable::execute     *)
(* request by request, and may crash between any two of them and be        *)
(* started again.                                                          *)
(*                                                                         *)
(* A client is what DataCenter is to one key when every host can be        *)
(* reached: its rings are the owners they give the key.  One thread of the *)
(* client runs commands.  A message is handled between commands, which is  *)
(* what the lock is for (CommandSeesLiveJedis, OneViewPerCommand of        *)
(* DataCenter).  Of a stored value only its expiry counts, and of one      *)
(* without expiry where it came from.  The counters of RedisTable are kept *)
(* by the configuration server and take no part in a re-sharding.          *)
(***************************************************************************)
EXTENDS Naturals, Sequences, Functions, CommandTable

CONSTANTS
    Clients,        \* client processes
    Servers,        \* addresses of redis servers
    BadAddr,        \* see ConfigCenter
    NoMessage,      \* see ConfigCenter
    NoServer,       \* the owner in a ring without hosts
    NoItem,         \* a key that is not there
    Expiring,       \* a key with an expiry
    Abandoned,      \* a key whose expiry is lost
    NoCommand,      \* no command is running
    Used,           \* the commands that the clients run
    Timeout,        \* RedisTable::_timeout
    MaxPublish,     \* bound: number of operator steps
    MaxStarts       \* bound: number of starts of clients

ASSUME ReshardingAssumption ==
    /\ {NoServer, BadAddr} \cap Servers = {}
    /\ NoMessage \notin {"normal", "syning", "toconvert", "change"}
    /\ Used \subseteq Commands \ Counters
    /\ {NoItem, Expiring, Abandoned, NoCommand} \cap Used = {}
    /\ NoItem # Expiring /\ NoItem # Abandoned /\ Expiring # Abandoned
    /\ Timeout \in Nat /\ MaxPublish \in Nat /\ MaxStarts \in Nat

VARIABLES
    cfg, pending, published,    \* the configuration server: see ConfigCenter
    phase,          \* how far each client has come in DataCenter::init
    starts,         \* how many clients were started
    state,          \* _state of each client
    owner,          \* the owner of the key in _sharded
    owner_new,      \* the owner of the key in _sharded_new
    stream,         \* messages the client has yet to handle
    step,           \* the next request of the client's command
    cmd,            \* the command, while it is yet to be repeated
    item,           \* what each server has stored for the key
    excuse          \* history: whether a client may not follow the configuration

configVars == <<cfg, pending, published>>
ringVars   == <<state, owner, owner_new, stream>>
vars == <<configVars, phase, starts, ringVars, step, cmd, item, excuse>>

(* One host is enough: it is the one that has the key.                     *)
Host == 1
Config == INSTANCE ConfigCenter
            WITH Names <- {Host}, Tables <- [{Host} -> Servers]

Owner(table) == table[Host]

(* The key at one server.  Without an expiry it is the command that left it*)
(* so, or Abandoned when no EXPIRE follows, because the command was a      *)
(* repetition or its client has crashed.                                   *)
Items == Used \cup {NoItem, Expiring, Abandoned}

Init ==
    /\ Config!Init
    /\ phase = [c \in Clients |-> "down"]
    /\ starts = 0
    /\ state = [c \in Clients |-> "normal"]
    /\ owner = [c \in Clients |-> NoServer]
    /\ owner_new = [c \in Clients |-> NoServer]
    /\ stream = [c \in Clients |-> <<>>]
    /\ step = [c \in Clients |-> "idle"]
    /\ cmd = [c \in Clients |-> NoCommand]
    /\ item = [s \in Servers |-> NoItem]
    /\ excuse = [c \in Clients |-> "none"]

-----------------------------------------------------------------------------
(* A client and its messages.                                              *)

(* DataCenter::init reads the status.  A start between the two steps of the*)
(* operator (raced), or after the copying (late), is excused as in         *)
(* DataCenter; here one excuse is as good as another.                      *)
Start(c) ==
    /\ phase[c] = "down"
    /\ starts < MaxStarts
    /\ phase' = [phase EXCEPT ![c] = IF cfg.status = "syning" THEN "ring_new" ELSE "ring"]
    /\ starts' = starts + 1
    /\ state' = [state EXCEPT ![c] = cfg.status]
    /\ excuse' = [excuse EXCEPT ![c] =
          IF pending # NoMessage \/ cfg.status = "toconvert" THEN "some" ELSE "none"]
    /\ UNCHANGED <<configVars, owner, owner_new, stream, step, cmd, item>>

Begin(c, from, to) ==
    /\ phase[c] = from
    /\ phase' = [phase EXCEPT ![c] = to]
    /\ UNCHANGED <<configVars, starts, state, stream, step, cmd, item, excuse>>

(* In the state "syning" both rings are built, the second one first.       *)
InitNew(c) ==
    /\ Begin(c, "ring_new", "ring")
    /\ owner_new' = [owner_new EXCEPT ![c] = Owner(cfg.address)]
    /\ UNCHANGED owner

InitRing(c) ==
    /\ Begin(c, "ring", "subscribe")
    /\ owner' = [owner EXCEPT ![c] =
          Owner(IF state[c] = "syning" THEN cfg.oldaddress ELSE cfg.address)]
    /\ UNCHANGED owner_new

(* The thread that init has started has subscribed.  Until then the client *)
(* gets no messages, though it runs commands.  The one that the second     *)
(* SUBSCRIBE swallows (DataCenter) counts as published before this step.   *)
Subscribe(c) ==
    /\ Begin(c, "subscribe", "running")
    /\ UNCHANGED <<owner, owner_new>>

(* A start, and those of its steps that an operator step may fall between. *)
Starting(c) == Start(c) \/ InitNew(c) \/ InitRing(c) \/ Subscribe(c)
StartWindow == {"ring_new", "ring", "subscribe"}

(* init has returned.                                                      *)
Up(c) == phase[c] \in {"subscribe", "running"}

(* The process ends, wherever it is.  A key that its EXPIRE would have     *)
(* reached stays as it is.                                                 *)
Stop(c) ==
    /\ phase' = [phase EXCEPT ![c] = "down"]
    /\ state' = [state EXCEPT ![c] = "normal"]
    /\ owner' = [owner EXCEPT ![c] = NoServer]
    /\ owner_new' = [owner_new EXCEPT ![c] = NoServer]
    /\ stream' = [stream EXCEPT ![c] = <<>>]
    /\ excuse' = [excuse EXCEPT ![c] = "none"]
    /\ step' = [step EXCEPT ![c] = "idle"]
    /\ cmd' = [cmd EXCEPT ![c] = NoCommand]
    /\ item' = [s \in Servers |->
          IF step[c] = "expire" /\ s = owner[c] /\ item[s] \in Used
          THEN Abandoned ELSE item[s]]
    /\ UNCHANGED <<configVars, starts>>

Crash(c) == phase[c] # "down" /\ starts < MaxStarts /\ Stop(c)

Handles(c, message) ==
    /\ phase[c] = "running"
    /\ step[c] = "idle"
    /\ stream[c] # <<>>
    /\ Head(stream[c]) = message
    /\ stream' = [stream EXCEPT ![c] = Tail(@)]
    /\ UNCHANGED <<configVars, phase, starts, step, cmd, item, excuse>>

(* Faulty variant of HandleStart: the new ring is used at once.            *)
HandleStartAtOnce(c) ==
    /\ Handles(c, "syning")
    /\ owner_new' = [owner_new EXCEPT ![c] = owner[c]]
    /\ owner' = [owner EXCEPT ![c] = Owner(cfg.address)]
    /\ state' = [state EXCEPT ![c] = "syning"]

(* SHARD_START_STATUS.                                                     *)
HandleStart(c) ==
    /\ Handles(c, "syning")
    /\ owner_new' = [owner_new EXCEPT ![c] = Owner(cfg.address)]
    /\ state' = [state EXCEPT ![c] = "syning"]
    /\ UNCHANGED owner

(* Faulty variant of HandleNormal: the state is not reset.                 *)
HandleNormalKeepingState(c) ==
    /\ Handles(c, "normal")
    /\ owner' = [owner EXCEPT ![c] = owner_new[c]]
    /\ UNCHANGED <<state, owner_new>>

(* SHARD_NORMAL_STATUS: the ring in use is emptied, and the rings change   *)
(* places.                                                                 *)
HandleNormal(c) ==
    /\ Handles(c, "normal")
    /\ owner' = [owner EXCEPT ![c] = owner_new[c]]
    /\ owner_new' = [owner_new EXCEPT ![c] = NoServer]
    /\ state' = [state EXCEPT ![c] = "normal"]

(* SHARD_CHANGE_STATUS.                                                    *)
HandleChange(c) ==
    /\ Handles(c, "change")
    /\ owner' = [owner EXCEPT ![c] = Owner(cfg.address)]
    /\ UNCHANGED <<state, owner_new>>

(* SHARD_END_STATUS has no case in handle_subs.                            *)
HandleEnd(c) ==
    /\ Handles(c, "toconvert")
    /\ UNCHANGED <<state, owner, owner_new>>

Handle(c) == HandleStart(c) \/ HandleNormal(c) \/ HandleChange(c) \/ HandleEnd(c)

-----------------------------------------------------------------------------
(* A command.                                                              *)

(* What the command u may make of the item x, and of a key it creates      *)
(* without expiry; it may also be refused.                                 *)
Outcomes(u, x, new) ==
    {x} \cup
    CASE Table[u].effect = "assign" -> {new}
      [] Table[u].effect = "setex" -> {Expiring}
      [] Table[u].effect = "add" -> {IF x = NoItem THEN new ELSE x}
      [] Table[u].effect \in {"shrink", "delete"} -> {NoItem}
      [] Table[u].effect = "expire" -> {NoItem, IF x = NoItem THEN x ELSE Expiring}
      [] OTHER -> {x}

(* Faulty variant of Expired: the value of a missing key is taken for one. *)
ExpiredOrCreated(x) == IF x = Expiring THEN x ELSE NoCommand

(* EXPIRE key _timeout.                                                    *)
Expired(x) == IF x = NoItem THEN x ELSE Expiring

(* A client repeats the command u: a re-sharding is going on, it is a      *)
(* write, and the new ring gives the key to somebody else.                 *)
Mirrored(c, u) ==
    /\ state[c] = "syning"
    /\ Table[u].iswrite
    /\ owner_new[c] \notin {NoServer, owner[c]}

(* The next request is sent.  The state and the rings stay as they are     *)
(* until the command is over, so whether u is repeated is known at once.   *)
Continue(c, request, u) ==
    /\ step' = [step EXCEPT ![c] = request]
    /\ cmd' = [cmd EXCEPT ![c] = u]
    /\ UNCHANGED <<configVars, phase, starts, ringVars, excuse>>

AfterExpire(u) == IF u = NoCommand THEN "idle" ELSE "again"

(* A method of RedisTable is called: the owner is looked up and executes   *)
(* the command.  The two are one step, for the look-up is seen by nobody.  *)
Execute(c) ==
    /\ Up(c)
    /\ step[c] = "idle"
    /\ owner[c] # NoServer
    /\ \E u \in Used :
          /\ \E x \in Outcomes(u, item[owner[c]], u) :
                item' = [item EXCEPT ![owner[c]] = x]
          /\ LET repeat == IF Mirrored(c, u) THEN u ELSE NoCommand
             IN  Continue(c, IF Table[u].iswrite /\ Timeout > 0
                             THEN "expire" ELSE AfterExpire(repeat), repeat)

(* Without an owner nothing is sent, but a repetition looks at its name.   *)
ExecuteNowhere(c) ==
    /\ Up(c)
    /\ step[c] = "idle"
    /\ owner[c] = NoServer
    /\ \E u \in Used : Mirrored(c, u)
    /\ Stop(c)

(* Faulty variant of Expire: a write that is repeated gets its expiry on   *)
(* the new owner only.                                                     *)
ExpireOnce(c) ==
    /\ step[c] = "expire"
    /\ item' = IF cmd[c] = NoCommand THEN [item EXCEPT ![owner[c]] = Expired(@)] ELSE item
    /\ Continue(c, AfterExpire(cmd[c]), cmd[c])

(* set_expire(jedis, key).                                                 *)
Expire(c) ==
    /\ step[c] = "expire"
    /\ item' = [item EXCEPT ![owner[c]] = Expired(@)]
    /\ Continue(c, AfterExpire(cmd[c]), cmd[c])

(* The repetition, on the same server.                                     *)
ExecuteAgain(c) ==
    /\ step[c] = "again"
    /\ \E x \in Outcomes(cmd[c], item[owner[c]], Abandoned) :
          item' = [item EXCEPT ![owner[c]] = x]
    /\ Continue(c, IF Timeout > 0 THEN "expire_new" ELSE "idle", NoCommand)

(* set_expire(j, key).                                                     *)
ExpireNew(c) ==
    /\ step[c] = "expire_new"
    /\ item' = [item EXCEPT ![owner_new[c]] = Expired(@)]
    /\ Continue(c, "idle", NoCommand)

(* The rest of a command that has begun.                                   *)
CommandStep(c) == Expire(c) \/ ExecuteAgain(c) \/ ExpireNew(c)

-----------------------------------------------------------------------------
(* The operator, the servers.                                              *)

Messages(c) == Range(stream[c])

Overtaken(c) == cfg'.address # cfg.address /\ Messages(c) \cap {"syning", "change"} # {}

OperatorStep ==
    /\ Config!OperatorStep
    /\ excuse' = [c \in Clients |->
          IF phase[c] \in StartWindow \/ Overtaken(c) THEN "some" ELSE excuse[c]]
    /\ UNCHANGED <<phase, starts, ringVars, step, cmd, item>>

Publish ==
    /\ Config!Publish
    /\ stream' = [c \in Clients |->
          IF phase[c] = "running" THEN Append(stream[c], pending) ELSE stream[c]]
    /\ UNCHANGED <<phase, starts, state, owner, owner_new, step, cmd, item, excuse>>

(* An expiry is reached.                                                   *)
Vanish ==
    /\ \E s \in Servers :
          /\ item[s] = Expiring
          /\ item' = [item EXCEPT ![s] = NoItem]
    /\ UNCHANGED <<configVars, phase, starts, ringVars, step, cmd, excuse>>

Next ==
    \/ \E c \in Clients :
          Starting(c) \/ Crash(c) \/ Handle(c) \/ Execute(c) \/ ExecuteNowhere(c) \/ CommandStep(c)
    \/ OperatorStep \/ Publish \/ Vanish

Spec == Init /\ [][Next]_vars

-----------------------------------------------------------------------------
(* Properties.                                                             *)

(* Every variable holds a value of its type.                               *)
TypeOK ==
    /\ Config!TypeOK
    /\ phase \in [Clients -> {"down", "running"} \cup StartWindow]
    /\ starts \in 0 .. MaxStarts
    /\ state \in [Clients -> Config!Status]
    /\ owner \in [Clients -> Servers \cup {NoServer}]
    /\ owner_new \in [Clients -> Servers \cup {NoServer}]
    /\ stream \in [Clients -> Seq(Config!Status)]
    /\ step \in [Clients -> {"idle", "expire", "again", "expire_new"}]
    /\ cmd \in [Clients -> Used \cup {NoCommand}]
    /\ item \in [Servers -> Items]
    /\ excuse \in [Clients -> {"none", "some"}]

(* A client that runs and had no bad luck.                                 *)
Good(c) == Up(c) /\ excuse[c] = "none"

(* Messages that have yet to reach the rings of the client.                *)
Unread(c) == Messages(c) \cup {pending}

(* Two such clients use the same owner for the key at every moment, however*)
(* far each of them is through a re-sharding, unless one of them has yet to*)
(* hear of a switch or of a moved host: data written by one is found by the*)
(* other (DataCenter.cpp:98-125).                                          *)
OneOwner ==
    \A c, d \in Clients :
        Good(c) /\ Good(d) /\ (Unread(c) \cup Unread(d)) \cap {"normal", "change"} = {}
            => owner[c] = owner[d]

(* Such a client repeats a write only during a re-sharding, or as long as  *)
(* it has not heard of its end (DataCenter.cpp:317-328).                   *)
RepeatsOnlyInResharding ==
    \A c \in Clients :
        Good(c) /\ step[c] \in {"again", "expire_new"} =>
            cfg.status \in {"syning", "toconvert"} \/ "normal" \in Unread(c)

(* The commands that may create or replace a key and leave it without an   *)
(* expiry, although the table has a timeout.                               *)
Unguarded == {"getSet", "append", "hincrBy", "zincrby"}

(* In a table with a timeout a key stays without expiry only if it was made*)
(* by one of these commands, by the repetition of a write, or by a client  *)
(* that crashed before its EXPIRE: no interleaving of the commands of      *)
(* several clients, and no other entry of the command table, leaves a key  *)
(* for ever (DataCenter.cpp:306-328, 469-474).  The last two are Abandoned.*)
OnlyTheseStay ==
    Timeout > 0 =>
        \A s \in Servers :
            item[s] \in Used =>
                \/ item[s] \in Unguarded
                \/ \E c \in Clients : step[c] = "expire" /\ owner[c] = s
=============================================================================
