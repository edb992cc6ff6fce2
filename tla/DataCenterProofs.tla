-------------------------- MODULE DataCenterProofs --------------------------
(***************************************************************************)
(* Proofs about DataCenter for every set of hosts, addresses, keys and     *)
(* threads, every placement, and every number of operator steps.           *)
(***************************************************************************)
EXTENDS DataCenter, FollowerProofs

-----------------------------------------------------------------------------
(* The values the operators build have the types they should.              *)

Hosts == UNION {[N -> Servers] : N \in SUBSET Names}

LEMMA RingStateType ==
    ASSUME NEW hosts \in Hosts, NEW n \in Nat
    PROVE  [hosts |-> hosts, freed |-> n] \in RingState
  BY DEF RingState, Hosts

LEMMA NoHostsType == NoHosts \in Hosts
PROOF
<1>1. NoHosts \in [{} -> Servers]
  BY DEF NoHosts
<1> QED
  BY <1>1 DEF Hosts

(* The addresses that init_sharded connects to make a ring.                *)
LEMMA UpType ==
    ASSUME NEW table \in Config!AllTables, NEW up \in SUBSET WellFormed(table)
    PROVE  [n \in up |-> table[n]] \in Hosts
PROOF
<1>1. PICK N \in SUBSET Names : table \in [N -> Servers \cup {BadAddr}]
  BY DEF Config!AllTables
<1>2. [n \in up |-> table[n]] \in [up -> Servers] /\ up \in SUBSET Names
  BY <1>1 DEF WellFormed
<1> QED
  BY <1>2 DEF Hosts

(* Every outcome of init_sharded is a ring, and frees at most once.        *)
LEMMA OutcomeType ==
    ASSUME NEW r \in Rings, NEW table \in Config!AllTables,
           ring \in [Rings -> RingState], NEW out \in InitOutcomes(r, table)
    PROVE  out.ring \in RingState /\ out.ok \in BOOLEAN
PROOF
<1> DEFINE Same(answer) == [ok |-> answer, ring |-> ring[r]]
           Rebuilt(up) == [ok |-> up # {},
                           ring |-> [hosts |-> [n \in up |-> table[n]],
                                     freed |-> ring[r].freed + 1]]
<1>1. ring[r] \in RingState /\ ring[r].freed \in Nat
  BY DEF RingState
<1>2. \/ \E answer \in {FALSE, DOMAIN table # {}} : out = Same(answer)
      \/ \E up \in {u \in SUBSET WellFormed(table) : WellFormed(table) # {}} :
             out = Rebuilt(up)
  BY DEF InitOutcomes
<1>3. ASSUME NEW answer \in BOOLEAN, out = Same(answer)
      PROVE  out.ring \in RingState /\ out.ok \in BOOLEAN
  BY <1>1, <1>3
<1>4. ASSUME NEW up \in SUBSET WellFormed(table), out = Rebuilt(up)
      PROVE  out.ring \in RingState /\ out.ok \in BOOLEAN
  <2>1. [n \in up |-> table[n]] \in Hosts /\ ring[r].freed + 1 \in Nat
    BY <1>1, UpType
  <2> QED
    BY <1>4, <2>1, RingStateType
<1> HIDE DEF Same, Rebuilt
<1> QED
  BY <1>2, <1>3, <1>4

(* A look-up gives NULL or a live connection of the ring it looked in.     *)
LEMMA GetShardType ==
    ASSUME NEW r \in Rings, NEW key \in Keys, ring \in [Rings -> RingState]
    PROVE  /\ GetShard(r, key) \in Jedis \cup {NoJedis}
           /\ GetShard(r, key) # NoJedis => Live(GetShard(r, key))
PROOF
<1>1. ring[r] \in RingState
  OBVIOUS
<1>2. PICK N \in SUBSET Names : ring[r].hosts \in [N -> Servers]
  BY <1>1 DEF RingState
<1>3. CASE N = {}
  BY <1>2, <1>3 DEF GetShard
<1>4. CASE N # {}
  <2>1. Owner[N][key] \in N
    BY <1>4, ClientAssumption
  <2>2. GetShard(r, key) = [addr |-> ring[r].hosts[Owner[N][key]],
                            ring |-> r, freed |-> ring[r].freed]
    BY <1>2, <1>4 DEF GetShard
  <2>3. GetShard(r, key) \in Jedis
    BY <1>1, <1>2, <2>1, <2>2 DEF Jedis, RingState
  <2> QED
    BY <2>2, <2>3 DEF Live
<1> QED
  BY <1>3, <1>4

-----------------------------------------------------------------------------
(* The type invariant.                                                     *)

LEMMA NoCommandType == NoCommand \in [key : Keys, iswrite : BOOLEAN]
  BY ClientAssumption DEF NoCommand

LEMMA TypeInit == Init => TypeOK
PROOF
<1> SUFFICES ASSUME Init PROVE TypeOK
  OBVIOUS
<1> USE DEF Init
<1>1. Config!TypeOK
  BY ConfigAssumption DEF Config!Init, Config!TypeOK, Config!AllTables, Config!Status
<1>2. Lock!TypeOK
  BY DEF Lock!Init, Lock!TypeOK
<1>3. ring \in [Rings -> RingState]
  BY NoHostsType, RingStateType
<1>4. cmd \in [Threads -> [key : Keys, iswrite : BOOLEAN]]
  BY NoCommandType
<1>5. stream \in Seq(Replies)
  OBVIOUS
<1>6. /\ tpc \in [Threads -> {"idle", "execute", "mirror", "finish", "addr"} \cup Crashes]
      /\ jedis \in [Threads -> Jedis \cup {NoJedis}]
  OBVIOUS
<1>7. sent \in [Threads -> Seq(Requests)]
  OBVIOUS
<1>8. /\ pc \in Startup /\ msg = NoMessage /\ subscribed \in BOOLEAN
      /\ state \in Config!Status /\ sharded \in Rings /\ sharded_new \in Rings
      /\ excuse = "none"
  BY DEF Config!Status, Startup, Rings
<1> QED
  BY <1>1, <1>2, <1>3, <1>4, <1>5, <1>6, <1>7, <1>8 DEF TypeOK

(* The next thing on the connection is taken for the answer.               *)
LEMMA TailOfAppend ==
    ASSUME NEW S, NEW q \in Seq(S), NEW e \in S
    PROVE  Tail(Append(q, e)) \in Seq(S)
PROOF
<1>1. Append(q, e) \in Seq(S) /\ Append(q, e) # <<>>
  BY AppendProperties
<1> QED
  BY <1>1, HeadTailProperties

LEMMA SubscribeKeepsType ==
    ASSUME stream \in Seq(Replies), NEW reply \in Acknowledgements, SendSubscribe(reply)
    PROVE  stream' \in Seq(Replies)
PROOF
<1>1. reply \in Replies
  BY DEF Replies
<1> QED
  BY <1>1, TailOfAppend DEF SendSubscribe

(* The groups of variables that most actions leave alone.                  *)
LEMMA TypeOfUnchanged ==
    ASSUME TypeOK
    PROVE  /\ UNCHANGED configVars => Config!TypeOK'
           /\ UNCHANGED lock => Lock!TypeOK'
  BY DEF TypeOK, configVars, Config!TypeOK, Lock!TypeOK

LEMMA ExcuseType ==
    ASSUME TypeOK, NEW cond,
           NEW reason \in {"degraded", "raced", "late", "overtaken"},
           Excuse(reason, cond)
    PROVE  excuse' \in {"none", "degraded", "raced", "late", "overtaken"}
  BY DEF TypeOK, Excuse

LEMMA AddressType ==
    ASSUME TypeOK
    PROVE  cfg.address \in Config!AllTables /\ cfg.oldaddress \in Config!AllTables
           /\ cfg.status \in Config!Status
  BY DEF TypeOK, Config!TypeOK

(* Building a ring, in init or in a handler.                               *)
LEMMA InitShardedType ==
    ASSUME TypeOK, NEW r \in Rings, NEW table \in Config!AllTables,
           NEW out \in InitOutcomes(r, table), InitSharded(r, table, out)
    PROVE  /\ ring' \in [Rings -> RingState]
           /\ excuse' \in {"none", "degraded", "raced", "late", "overtaken"}
           /\ out.ok \in BOOLEAN
PROOF
<1>1. out.ring \in RingState /\ out.ok \in BOOLEAN
  BY OutcomeType DEF TypeOK
<1>2. ring' = [ring EXCEPT ![r] = out.ring]
  BY DEF InitSharded
<1>3. ring' \in [Rings -> RingState]
  BY <1>1, <1>2 DEF TypeOK
<1>4. Excuse("degraded", ~Complete(out, table))
  BY DEF InitSharded
<1> QED
  BY <1>1, <1>3, <1>4, ExcuseType

(* An operator step.                                                       *)
LEMMA ConfigStepType ==
    ASSUME TypeOK, Config!OperatorStep
    PROVE  Config!TypeOK'
PROOF
<1> USE DEF TypeOK, Config!TypeOK
<1> DEFINE A == Config!AllTables
<1>1. ASSUME NEW status \in Config!Status, NEW address \in A, NEW oldaddress \in A,
             Config!Step(status, address, oldaddress)
      PROVE  Config!TypeOK'
  <2>1. published' \in 0 .. MaxPublish
    BY <1>1, ConfigAssumption DEF Config!Step
  <2>2. cfg' = [status |-> status, address |-> address, oldaddress |-> oldaddress]
    BY <1>1 DEF Config!Step
  <2>3. pending' = status
    BY <1>1 DEF Config!Step
  <2> HIDE DEF A
  <2>4. cfg' \in [status : Config!Status, address : A, oldaddress : A]
    BY <1>1, <2>2
  <2> QED
    BY <1>1, <2>1, <2>3, <2>4 DEF A
<1>2. Tables \subseteq A
  BY ConfigAssumption DEF Config!AllTables
<1>3. cfg.address \in A /\ cfg.oldaddress \in A
  BY AddressType
<1>4. CASE Config!StartSync
  <2>1. PICK table \in Tables : Config!Step("syning", table, cfg.address)
    BY <1>4 DEF Config!StartSync
  <2> QED
    BY <1>1, <1>2, <1>3, <2>1 DEF Config!Status
<1>5. CASE Config!EndSync
  BY <1>1, <1>3, <1>5 DEF Config!EndSync, Config!Status
<1>6. CASE Config!Convert
  BY <1>1, <1>3, <1>6 DEF Config!Convert, Config!Status
<1>7. CASE Config!ReplaceHost
  <2>1. PICK name \in DOMAIN cfg.address, server \in Servers :
            Config!Step("change", [cfg.address EXCEPT ![name] = server], cfg.oldaddress)
    BY <1>7 DEF Config!ReplaceHost
  <2>2. [cfg.address EXCEPT ![name] = server] \in A
    <3>1. PICK N \in SUBSET Names : cfg.address \in [N -> Servers \cup {BadAddr}]
      BY <1>3 DEF Config!AllTables
    <3>2. [cfg.address EXCEPT ![name] = server] \in [N -> Servers \cup {BadAddr}]
      BY <3>1
    <3> QED
      BY <3>2 DEF Config!AllTables
  <2> QED
    BY <1>1, <1>3, <2>1, <2>2 DEF Config!Status
<1> QED
  BY <1>4, <1>5, <1>6, <1>7 DEF Config!OperatorStep

(* What a command sends.                                                   *)
LEMMA RequestType ==
    ASSUME NEW j \in Jedis
    PROVE  /\ Request("command", j) \in Requests
           /\ SetExpire(j) \in Seq(Requests)
PROOF
<1>1. j.addr \in Servers
  BY DEF Jedis
<1>2. Request("command", j) \in Requests /\ Request("expire", j) \in Requests
  BY <1>1 DEF Request, Requests
<1>3. <<Request("expire", j)>> \in Seq(Requests) /\ <<>> \in Seq(Requests)
  BY <1>2
<1>4. SetExpire(j) \in Seq(Requests)
  BY <1>3 DEF SetExpire
<1> QED
  BY <1>2, <1>4

(* Every step keeps the types.                                             *)
LEMMA TypeNext == TypeOK /\ [Next]_vars => TypeOK'
PROOF
<1> SUFFICES ASSUME TypeOK, [Next]_vars PROVE TypeOK'
  OBVIOUS
<1> DEFINE ExcuseOK == excuse \in {"none", "degraded", "raced", "late", "overtaken"}
           CommandsOK == cmd \in [Threads -> [key : Keys, iswrite : BOOLEAN]]
           JedisOK == jedis \in [Threads -> Jedis \cup {NoJedis}]
           SentOK == sent \in [Threads -> Seq(Requests)]
<1> USE DEF TypeOK
<1>c. CASE Connect
  <2>1. ExcuseOK'
    BY <1>c, ExcuseType DEF Connect
  <2> QED
    BY <1>c, <2>1, TypeOfUnchanged
    DEF Connect, ringVars, threadVars, Startup
<1>i. CASE InitShardedState
  <2>1. ExcuseOK'
    BY <1>i, ExcuseType DEF InitShardedState
  <2>2. state' \in Config!Status
    BY <1>i, AddressType DEF InitShardedState
  <2> QED
    BY <1>i, <2>1, <2>2, TypeOfUnchanged
    DEF InitShardedState, threadVars, Startup
<1>n. CASE InitNewRing
  <2>1. PICK out \in InitOutcomes(sharded_new, cfg.address) :
          /\ InitSharded(sharded_new, cfg.address, out)
          /\ pc' = IF out.ok THEN "ring" ELSE "failed"
    BY <1>n DEF InitNewRing
  <2>2. ring' \in [Rings -> RingState] /\ ExcuseOK' /\ out.ok \in BOOLEAN
    BY <2>1, AddressType, InitShardedType
  <2> QED
    BY <1>n, <2>1, <2>2, TypeOfUnchanged
    DEF InitNewRing, threadVars, Startup
<1>r. CASE InitRing
  <2> DEFINE table == IF state = "syning" THEN cfg.oldaddress ELSE cfg.address
  <2>1. PICK out \in InitOutcomes(sharded, table) :
          /\ InitSharded(sharded, table, out)
          /\ pc' = IF out.ok THEN "subs" ELSE "failed"
    BY <1>r DEF InitRing
  <2>2. table \in Config!AllTables
    BY AddressType
  <2> HIDE DEF table
  <2>3. ring' \in [Rings -> RingState] /\ ExcuseOK' /\ out.ok \in BOOLEAN
    BY <2>1, <2>2, InitShardedType
  <2> QED
    BY <1>r, <2>1, <2>3, TypeOfUnchanged
    DEF InitRing, threadVars, Startup
<1>s. CASE ConnectSubs
  <2>1. ExcuseOK'
    BY <1>s, ExcuseType DEF ConnectSubs
  <2> QED
    BY <1>s, <2>1, TypeOfUnchanged
    DEF ConnectSubs, ringVars, threadVars, StartWindow
<1>u. CASE Subscribe
  <2>1. stream' \in Seq(Replies)
    BY <1>u, SubscribeKeepsType DEF Subscribe
  <2> QED
    BY <1>u, <2>1, TypeOfUnchanged
    DEF Subscribe, SendSubscribe, ringVars, threadVars, StartWindow
<1>a. CASE SubscribeAgain
  <2>1. PICK reply \in Acknowledgements :
            /\ SendSubscribe(reply)
            /\ pc' = IF Head(Append(stream, reply)) = "error" THEN "subscribe" ELSE "receive"
    BY <1>a DEF SubscribeAgain
  <2>2. stream' \in Seq(Replies) /\ pc' \in {"subscribe", "receive"}
    BY <2>1, SubscribeKeepsType
  <2>3. /\ subscribed' \in BOOLEAN
        /\ UNCHANGED <<configVars, lock, msg, ringVars, threadVars, excuse>>
    BY <2>1 DEF SendSubscribe
  <2> QED
    BY <2>2, <2>3, TypeOfUnchanged DEF ringVars, threadVars, StartWindow
<1>b. CASE SubsBreak
  <2>1. stream' \in Seq(Replies)
    BY <1>b DEF SubsBreak
  <2> QED
    BY <1>b, <2>1, TypeOfUnchanged DEF SubsBreak, ringVars, threadVars
<1>v. CASE Receive
  <2>1. stream' \in Seq(Replies)
    BY <1>v DEF Receive
  <2>2. msg' \in Config!Status \cup {NoMessage}
    BY <1>v DEF Receive, Config!Status
  <2> QED
    BY <1>v, <2>1, <2>2, TypeOfUnchanged DEF Receive, ringVars, threadVars
<1>l. CASE LockWrite
  <2>1. Lock!TypeOK'
    BY <1>l DEF LockWrite, Lock!LockWrite, Lock!TypeOK
  <2> QED
    BY <1>l, <2>1, TypeOfUnchanged DEF LockWrite, ringVars, threadVars
<1>h1. CASE HandleStart
  <2>1. PICK out \in InitOutcomes(sharded_new, cfg.address) :
          /\ InitSharded(sharded_new, cfg.address, out)
          /\ state' = IF out.ok THEN "syning" ELSE state
    BY <1>h1 DEF HandleStart
  <2>2. ring' \in [Rings -> RingState] /\ ExcuseOK' /\ out.ok \in BOOLEAN
    BY <2>1, AddressType, InitShardedType
  <2>3. state' \in Config!Status
    BY <2>1, <2>2 DEF Config!Status
  <2> QED
    BY <1>h1, <2>2, <2>3, TypeOfUnchanged DEF HandleStart, threadVars
<1>h2. CASE HandleNormal
  <2>1. ring' \in [Rings -> RingState]
    <3>1. [hosts |-> NoHosts, freed |-> ring[sharded].freed + 1] \in RingState
      BY NoHostsType, RingStateType DEF RingState
    <3> QED
      BY <1>h2, <3>1 DEF HandleNormal
  <2>2. state' \in Config!Status
    BY <1>h2 DEF HandleNormal, Config!Status
  <2> QED
    BY <1>h2, <2>1, <2>2, TypeOfUnchanged DEF HandleNormal, threadVars
<1>h3. CASE HandleChange
  <2>1. PICK out \in InitOutcomes(sharded, cfg.address) :
          InitSharded(sharded, cfg.address, out)
    BY <1>h3 DEF HandleChange
  <2>2. ring' \in [Rings -> RingState] /\ ExcuseOK'
    BY <2>1, AddressType, InitShardedType
  <2> QED
    BY <1>h3, <2>2, TypeOfUnchanged DEF HandleChange, threadVars
<1>w. CASE UnlockWrite
  <2>1. Lock!TypeOK'
    BY <1>w DEF UnlockWrite, Lock!UnlockWrite, Lock!TypeOK
  <2> QED
    BY <1>w, <2>1, TypeOfUnchanged DEF UnlockWrite, ringVars, threadVars
<1>t1. ASSUME NEW t \in Threads, BeginExecute(t) PROVE TypeOK'
  <2>1. Lock!TypeOK'
    BY <1>t1 DEF BeginExecute, Lock!LockRead, Lock!TypeOK
  <2>2. PICK key \in Keys, iswrite \in BOOLEAN :
          /\ cmd' = [cmd EXCEPT ![t] = [key |-> key, iswrite |-> iswrite]]
          /\ jedis' = [jedis EXCEPT ![t] = GetShard(sharded, key)]
    BY <1>t1 DEF BeginExecute
  <2>3. CommandsOK' /\ JedisOK'
    BY <2>2, GetShardType
  <2>4. tpc' \in [Threads -> {"idle", "execute", "mirror", "finish", "addr"} \cup Crashes]
    BY <1>t1 DEF BeginExecute
  <2> QED
    BY <1>t1, <2>1, <2>3, <2>4, TypeOfUnchanged DEF BeginExecute, subsVars, ringVars
<1>t2. ASSUME NEW t \in Threads, ExecuteOnOwner(t) PROVE TypeOK'
  <2> DEFINE first == IF cmd[t].iswrite THEN SetExpire(jedis[t]) ELSE <<>>
  <2>1. ASSUME jedis[t] # NoJedis
        PROVE  <<Request("command", jedis[t])>> \o first \in Seq(Requests)
    <3>1. /\ SetExpire(jedis[t]) \in Seq(Requests)
          /\ Request("command", jedis[t]) \in Requests
      BY <2>1, RequestType
    <3>2. first \in Seq(Requests) /\ Request("command", jedis[t]) \in Requests
      BY <3>1
    <3> HIDE DEF first
    <3> QED
      BY <3>2
  <2>2. SentOK'
    BY <1>t2, <2>1 DEF ExecuteOnOwner
  <2>3. tpc' \in [Threads -> {"idle", "execute", "mirror", "finish", "addr"} \cup Crashes]
    BY <1>t2 DEF ExecuteOnOwner
  <2> QED
    BY <1>t2, <2>2, <2>3, TypeOfUnchanged DEF ExecuteOnOwner, subsVars, ringVars
<1>t3. ASSUME NEW t \in Threads, Mirror(t) PROVE TypeOK'
  <2> DEFINE mirrored == state = "syning" /\ cmd[t].iswrite /\ NewOwner(t) # NoJedis
             again == <<Request("command", jedis[t])>> \o SetExpire(NewOwner(t))
  <2>1. NewOwner(t) \in Jedis \cup {NoJedis}
    BY GetShardType DEF NewOwner
  <2>2. ASSUME NewOwner(t) # NoJedis, jedis[t] # NoJedis
        PROVE  sent[t] \o again \in Seq(Requests)
    <3>2. SetExpire(NewOwner(t)) \in Seq(Requests)
          /\ Request("command", jedis[t]) \in Requests
      BY <2>1, <2>2, RequestType
    <3>3. again \in Seq(Requests)
      BY <3>2
    <3>4. sent[t] \in Seq(Requests)
      OBVIOUS
    <3> HIDE DEF again
    <3> QED
      BY <3>3, <3>4
  <2>3. \/ Crash("null_dereference") /\ UNCHANGED sent
        \/ /\ mirrored => jedis[t] # NoJedis
           /\ tpc' = [tpc EXCEPT ![t] = "finish"]
           /\ sent' = [sent EXCEPT ![t] =
                 IF mirrored /\ NewOwner(t).addr # jedis[t].addr
                 THEN sent[t] \o again ELSE sent[t]]
           /\ UNCHANGED pc
    BY <1>t3 DEF Mirror
  <2>4. SentOK'
    <3> HIDE DEF again
    <3> QED
      BY <2>2, <2>3
  <2>5. /\ tpc' \in [Threads -> {"idle", "execute", "mirror", "finish", "addr"} \cup Crashes]
        /\ pc' \in {pc} \cup Crashes
    <3> HIDE DEF mirrored, again
    <3> QED
      BY <2>3 DEF Crash, Crashes
  <2>6. UNCHANGED <<configVars, lock, msg, stream, subscribed, ringVars, cmd, jedis, excuse>>
    BY <1>t3 DEF Mirror
  <2> QED
    BY <2>4, <2>5, <2>6, TypeOfUnchanged DEF ringVars
<1>t4. ASSUME NEW t \in Threads, EndExecute(t) PROVE TypeOK'
  <2>1. Lock!TypeOK'
    BY <1>t4 DEF EndExecute, Lock!UnlockRead, Lock!TypeOK
  <2>2. CommandsOK' /\ JedisOK'
    BY <1>t4, NoCommandType DEF EndExecute
  <2>4. SentOK'
    <3>1. <<>> \in Seq(Requests)
      OBVIOUS
    <3> QED
      BY <1>t4, <3>1 DEF EndExecute
  <2>3. tpc' \in [Threads -> {"idle", "execute", "mirror", "finish", "addr"} \cup Crashes]
    BY <1>t4 DEF EndExecute
  <2> QED
    BY <1>t4, <2>1, <2>2, <2>3, <2>4, TypeOfUnchanged DEF EndExecute, subsVars, ringVars
<1>t5. ASSUME NEW t \in Threads, ResolveAddr(t) PROVE TypeOK'
  <2>1. JedisOK'
    <3>1. CASE \E key \in Keys : jedis' = [jedis EXCEPT ![t] = GetShard(sharded, key)]
      <4>1. PICK key \in Keys : jedis' = [jedis EXCEPT ![t] = GetShard(sharded, key)]
        BY <3>1
      <4> QED
        BY <4>1, GetShardType
    <3>2. CASE UNCHANGED jedis
      BY <3>2
    <3> QED
      BY <1>t5, <3>1, <3>2 DEF ResolveAddr
  <2>2. /\ tpc' \in [Threads -> {"idle", "execute", "mirror", "finish", "addr"} \cup Crashes]
        /\ pc' \in {pc} \cup Crashes
    BY <1>t5 DEF ResolveAddr, Crash, Crashes
  <2> QED
    BY <1>t5, <2>1, <2>2, TypeOfUnchanged DEF ResolveAddr, ringVars
<1>t6. ASSUME NEW t \in Threads, ReadAddr(t) PROVE TypeOK'
  <2>1. JedisOK'
    BY <1>t6 DEF ReadAddr
  <2>2. /\ tpc' \in [Threads -> {"idle", "execute", "mirror", "finish", "addr"} \cup Crashes]
        /\ pc' \in {pc} \cup Crashes
    BY <1>t6 DEF ReadAddr, Crash, Crashes
  <2> QED
    BY <1>t6, <2>1, <2>2, TypeOfUnchanged DEF ReadAddr, ringVars
<1>o. CASE OperatorStep
  <2>1. Config!TypeOK'
    BY <1>o, ConfigStepType DEF OperatorStep
  <2>2. ExcuseOK'
    BY <1>o, ExcuseType DEF OperatorStep
  <2> QED
    BY <1>o, <2>1, <2>2, TypeOfUnchanged DEF OperatorStep, subsVars, ringVars, threadVars
<1>p. CASE Publish
  <2>1. pending \in Config!Status
    BY <1>p DEF Publish, Config!Publish, Config!TypeOK
  <2>2. stream' \in Seq(Replies)
    BY <1>p, <2>1 DEF Publish, Replies
  <2>3. Config!TypeOK'
    BY <1>p DEF Publish, Config!Publish, Config!TypeOK
  <2>4. ExcuseOK'
    BY <1>p, ExcuseType DEF Publish
  <2> QED
    BY <1>p, <2>2, <2>3, <2>4, TypeOfUnchanged DEF Publish, ringVars, threadVars
<1>x. CASE UNCHANGED vars
  BY <1>x, TypeOfUnchanged DEF vars, subsVars, ringVars, threadVars
<1> HIDE DEF TypeOK
<1> QED
  BY <1>c, <1>i, <1>n, <1>r, <1>s, <1>u, <1>a, <1>b, <1>v, <1>l, <1>h1, <1>h2, <1>h3,
     <1>w, <1>t1, <1>t2, <1>t3, <1>t4, <1>t5, <1>t6, <1>o, <1>p, <1>x
  DEF Next, SubscriberStep, ThreadStep, Terminated

(* The type invariant of the client.                                       *)
THEOREM TypeCorrect == Spec => []TypeOK
PROOF
<1>1. QED
  BY TypeInit, TypeNext, PTL DEF Spec
-----------------------------------------------------------------------------
(* The lock.  The inductive invariant says who holds _wrlock at which      *)
(* control point; that a command's connection is live follows because only *)
(* a writer, or init before any thread runs, changes a ring.               *)

LockHeld ==
    /\ pc \in {"handle", "unlock"} => Subscriber \in lock.writers
    /\ lock.writers # {} => lock.readers = {}
    /\ pc \in Startup => \A t \in Threads : tpc[t] = "idle"
    /\ \A t \in Threads : InCommand(t) => t \in lock.readers

LockInv == TypeOK /\ LockHeld /\ CommandSeesLiveJedis

LEMMA LockInit == Init => LockInv
PROOF
<1> SUFFICES ASSUME Init PROVE LockInv
  OBVIOUS
<1>1. LockHeld /\ CommandSeesLiveJedis
  BY DEF Init, Lock!Init, LockHeld, CommandSeesLiveJedis, InCommand
<1> QED
  BY <1>1, TypeInit DEF LockInv

(* The steps that change a ring, the roles of the rings, or the state.     *)
RingStep ==
    \/ InitShardedState \/ InitNewRing \/ InitRing
    \/ HandleStart \/ HandleNormal \/ HandleChange

(* No command is in flight when a ring changes.                            *)
LEMMA RingStepAlone ==
    ASSUME LockHeld, RingStep
    PROVE  \A t \in Threads : ~InCommand(t) /\ ~InCommand(t)'
PROOF
<1>1. CASE InitShardedState \/ InitNewRing \/ InitRing
  BY <1>1 DEF InitShardedState, InitNewRing, InitRing, LockHeld, InCommand, Startup, threadVars
<1>2. CASE HandleStart \/ HandleNormal \/ HandleChange
  BY <1>2 DEF HandleStart, HandleNormal, HandleChange, LockHeld, InCommand, threadVars
<1> QED
  BY <1>1, <1>2 DEF RingStep

(* Every other step leaves the rings alone.                                *)
LEMMA OtherSteps ==
    ASSUME Next \/ UNCHANGED vars, ~RingStep
    PROVE  UNCHANGED ringVars
PROOF
<1>1. CASE SubscriberStep \/ SubsBreak
  BY <1>1 DEF SubscriberStep, RingStep, Connect, ConnectSubs, Subscribe, SubscribeAgain,
     SendSubscribe, Receive, LockWrite, UnlockWrite, SubsBreak
<1>2. ASSUME NEW t \in Threads, BeginExecute(t) \/ ResolveAddr(t) \/ ThreadStep(t)
      PROVE  UNCHANGED ringVars
  BY <1>2 DEF BeginExecute, ResolveAddr, ThreadStep, ExecuteOnOwner, Mirror, EndExecute,
     ReadAddr
<1>3. CASE OperatorStep \/ Publish \/ Terminated \/ UNCHANGED vars
  BY <1>3 DEF OperatorStep, Publish, Terminated, vars, ringVars
<1> QED
  BY <1>1, <1>2, <1>3 DEF Next

LEMMA LockNext == LockInv /\ [Next]_vars => LockInv'
PROOF
<1> SUFFICES ASSUME LockInv, [Next]_vars PROVE LockHeld' /\ CommandSeesLiveJedis'
  BY TypeNext DEF LockInv
<1> USE DEF LockInv
<1>t. tpc \in [Threads -> {"idle", "execute", "mirror", "finish", "addr"} \cup Crashes]
      /\ jedis \in [Threads -> Jedis \cup {NoJedis}] /\ ring \in [Rings -> RingState]
      /\ sharded \in Rings /\ Lock!TypeOK
  BY DEF TypeOK
<1>1. ASSUME UNCHANGED <<lock, threadVars>>,
             \/ UNCHANGED ringVars
             \/ \A t \in Threads : ~InCommand(t)',
             pc' \in {"handle", "unlock"} => pc \in {"handle", "unlock"},
             pc' \in Startup => pc \in Startup
      PROVE  LockHeld' /\ CommandSeesLiveJedis'
  BY <1>1 DEF LockHeld, CommandSeesLiveJedis, InCommand, Live, threadVars, ringVars
<1>2. CASE RingStep
  <2>1. \A t \in Threads : ~InCommand(t)'
    BY <1>2, RingStepAlone
  <2>2. UNCHANGED <<lock, threadVars>>
    BY <1>2 DEF RingStep, InitShardedState, InitNewRing, InitRing,
       HandleStart, HandleNormal, HandleChange
  <2>3. /\ pc' \in {"handle", "unlock"} => pc \in {"handle", "unlock"}
        /\ pc' \in Startup => pc \in Startup
    BY <1>2 DEF RingStep, InitShardedState, InitNewRing, InitRing,
       HandleStart, HandleNormal, HandleChange, Startup
  <2> QED
    BY <1>1, <2>1, <2>2, <2>3
<1>3. CASE Connect \/ ConnectSubs \/ Subscribe \/ SubscribeAgain \/ Receive \/ SubsBreak
  <2>1. UNCHANGED <<lock, threadVars>> /\ UNCHANGED ringVars
    BY <1>3 DEF Connect, ConnectSubs, Subscribe, SubscribeAgain, SendSubscribe, Receive, SubsBreak
  <2>2. /\ pc' \in {"handle", "unlock"} => pc \in {"handle", "unlock"}
        /\ pc' \in Startup => pc \in Startup
    BY <1>3 DEF Connect, ConnectSubs, Subscribe, SubscribeAgain, SendSubscribe, Receive, SubsBreak, Startup
  <2> QED
    BY <1>1, <2>1, <2>2
<1>4. CASE LockWrite
  BY <1>t, <1>4 DEF LockWrite, Lock!LockWrite, Lock!TypeOK, LockHeld,
     CommandSeesLiveJedis, InCommand, Live, Startup, threadVars, ringVars
<1>5. CASE UnlockWrite
  BY <1>t, <1>5 DEF UnlockWrite, Lock!UnlockWrite, Lock!TypeOK, LockHeld,
     CommandSeesLiveJedis, InCommand, Live, Startup, threadVars, ringVars
<1>6. CASE OperatorStep \/ Publish \/ UNCHANGED vars \/ Terminated
  BY <1>1, <1>6 DEF OperatorStep, Publish, Terminated, vars, subsVars
<1>7. ASSUME NEW t \in Threads, BeginExecute(t)
      PROVE  LockHeld' /\ CommandSeesLiveJedis'
  <2>1. PICK key \in Keys : jedis' = [jedis EXCEPT ![t] = GetShard(sharded, key)]
    BY <1>7 DEF BeginExecute
  <2>2. GetShard(sharded, key) # NoJedis => Live(GetShard(sharded, key))
    BY <1>t, GetShardType
  <2>3. /\ lock' = [lock EXCEPT !.readers = lock.readers \cup {t}] /\ lock.writers = {}
        /\ tpc' = [tpc EXCEPT ![t] = "execute"]
        /\ pc \notin Startup /\ pc' = pc /\ ring' = ring
    BY <1>7 DEF BeginExecute, Lock!LockRead, subsVars, ringVars
  <2>4. LockHeld'
    BY <1>t, <2>3 DEF LockHeld, InCommand, Lock!TypeOK
  <2>5. CommandSeesLiveJedis'
    BY <1>t, <2>1, <2>2, <2>3 DEF CommandSeesLiveJedis, InCommand, Live
  <2> QED
    BY <2>4, <2>5
<1>8. ASSUME NEW t \in Threads, ExecuteOnOwner(t)
      PROVE  LockHeld' /\ CommandSeesLiveJedis'
  BY <1>t, <1>8 DEF ExecuteOnOwner, LockHeld, CommandSeesLiveJedis, InCommand, Live,
     subsVars, ringVars
<1>9. ASSUME NEW t \in Threads, Mirror(t)
      PROVE  LockHeld' /\ CommandSeesLiveJedis'
  <2>1. \/ Crash("null_dereference")
        \/ tpc' = [tpc EXCEPT ![t] = "finish"] /\ pc' = pc
    BY <1>9 DEF Mirror
  <2>2. UNCHANGED <<lock, ringVars, jedis>> /\ InCommand(t)
    BY <1>9 DEF Mirror, InCommand
  <2>3. CASE Crash("null_dereference")
    BY <2>2, <2>3 DEF Crash, LockHeld, CommandSeesLiveJedis, InCommand, Startup
  <2>4. CASE tpc' = [tpc EXCEPT ![t] = "finish"] /\ pc' = pc
    BY <1>t, <2>2, <2>4 DEF LockHeld, CommandSeesLiveJedis, InCommand, Live, ringVars
  <2> QED
    BY <2>1, <2>3, <2>4
<1>10. ASSUME NEW t \in Threads, EndExecute(t)
       PROVE  LockHeld' /\ CommandSeesLiveJedis'
  <2>1. /\ lock' = [lock EXCEPT !.readers = lock.readers \ {t}]
        /\ tpc' = [tpc EXCEPT ![t] = "idle"]
        /\ jedis' = [jedis EXCEPT ![t] = NoJedis]
        /\ pc' = pc /\ ring' = ring
    BY <1>10 DEF EndExecute, Lock!UnlockRead, subsVars, ringVars
  <2> QED
    BY <1>t, <2>1 DEF LockHeld, CommandSeesLiveJedis, InCommand, Live, Lock!TypeOK
<1>11. ASSUME NEW t \in Threads, ResolveAddr(t) \/ ReadAddr(t)
       PROVE  LockHeld' /\ CommandSeesLiveJedis'
  <2>1. \/ Crash("memory_fault")
        \/ /\ tpc' \in {[tpc EXCEPT ![t] = "idle"], [tpc EXCEPT ![t] = "addr"]}
           /\ pc' = pc
    BY <1>11 DEF ResolveAddr, ReadAddr
  <2>2. UNCHANGED <<lock, ringVars>> /\ \A u \in Threads : u # t => jedis'[u] = jedis[u]
    BY <1>t, <1>11 DEF ResolveAddr, ReadAddr
  <2>3. CASE Crash("memory_fault")
    BY <2>2, <2>3 DEF Crash, LockHeld, CommandSeesLiveJedis, InCommand, Startup
  <2>4. CASE /\ tpc' \in {[tpc EXCEPT ![t] = "idle"], [tpc EXCEPT ![t] = "addr"]}
             /\ pc' = pc
    <3>1. pc \in Startup => tpc' = [tpc EXCEPT ![t] = "idle"]
      BY <1>t, <1>11, <2>4 DEF ResolveAddr, ReadAddr, LockHeld
    <3> QED
      BY <1>t, <2>2, <2>4, <3>1 DEF LockHeld, CommandSeesLiveJedis, InCommand, Live, ringVars
  <2> QED
    BY <2>1, <2>3, <2>4
<1> HIDE DEF LockInv
<1> QED
  BY <1>2, <1>3, <1>4, <1>5, <1>6, <1>7, <1>8, <1>9, <1>10, <1>11
  DEF Next, SubscriberStep, ThreadStep, RingStep

LEMMA LockInvariant == Spec => []LockInv
PROOF
<1>1. QED
  BY LockInit, LockNext, PTL DEF Spec

(* A command in flight never holds a freed connection.                     *)
THEOREM CommandsAreSafe == Spec => []CommandSeesLiveJedis
PROOF
<1>1. LockInv => CommandSeesLiveJedis
  BY DEF LockInv
<1> QED
  BY <1>1, LockInvariant, PTL

(* A command sees one configuration from its first to its last step.       *)
THEOREM CommandsSeeOneView == Spec => OneViewPerCommand
PROOF
<1> DEFINE OneView == \A t \in Threads : InCommand(t) /\ InCommand(t)' => UNCHANGED ringVars
<1>1. LockInv /\ [Next]_vars => [OneView]_vars
  <2> SUFFICES ASSUME LockInv, [Next]_vars PROVE OneView
    OBVIOUS
  <2>1. CASE RingStep
    BY <2>1, RingStepAlone DEF LockInv
  <2>2. CASE ~RingStep
    BY <2>2, OtherSteps
  <2> QED
    BY <2>1, <2>2
<1> QED
  BY <1>1, LockInvariant, PTL DEF Spec, OneViewPerCommand

-----------------------------------------------------------------------------
(* Following the configuration.  For a client that had no bad luck, Phase  *)
(* says at each control point of init and of run_thread what is built, and *)
(* that it Follows the configuration from then on.                         *)

Listening == {"receive", "wrlock", "handle", "unlock"}

Unhandled == IF pc \in {"wrlock", "handle"} THEN <<msg>> \o stream ELSE stream

Queue == IF pending = NoMessage THEN Unhandled ELSE Append(Unhandled, pending)

KeepsUp ==
    Follows(Queue, cfg.status, Usable(cfg.address), Usable(cfg.oldaddress),
            state = "syning", ring[sharded].hosts, ring[sharded_new].hosts)

HasHosts ==
    /\ ring[sharded].hosts # NoHosts
    /\ state = "syning" => ring[sharded_new].hosts # NoHosts

(* What has been received, at each control point.                          *)
Messages ==
    /\ stream \in Seq(Status)
    /\ pc \in Startup \cup StartWindow => stream = <<>>
    /\ pc \in Startup => ~subscribed
    /\ pc \in Listening => subscribed
    /\ pc \in {"wrlock", "handle"} => msg \in {"syning", "normal", "change"}

(* What has been built.                                                    *)
Built ==
    /\ sharded # sharded_new
    /\ pc \in StartWindow =>
          pending = NoMessage /\ state = cfg.status /\ cfg.status # "toconvert"
    /\ pc = "ring_new" => state = "syning"
    /\ pc = "ring" /\ state = "syning" =>
          /\ ring[sharded_new].hosts = Usable(cfg.address)
          /\ ring[sharded_new].hosts # NoHosts
    /\ pc \in {"subs", "subscribe", "subscribe_again"} \cup Listening => KeepsUp
    /\ pc = "subs" \/ pc \notin Startup => HasHosts

Phase == pc # "failed" /\ Messages /\ Built

PhaseInv == excuse = "none" => Phase

(* Addresses and rings.                                                    *)
LEMMA HostsOfTable ==
    ASSUME NEW table \in Config!AllTables
    PROVE  /\ Usable(table) \in Hosts
           /\ WellFormed(table) # {} => Usable(table) # NoHosts
PROOF
<1>1. Usable(table) \in Hosts
  BY UpType DEF Usable
<1>2. DOMAIN NoHosts = {} /\ DOMAIN Usable(table) = WellFormed(table)
  BY DEF NoHosts, Usable
<1> QED
  BY <1>1, <1>2

LEMMA HostsInUse ==
    ASSUME TypeOK, NEW r \in Rings
    PROVE  /\ ring[r].hosts \in Hosts
           /\ ring[r].hosts # NoHosts => DOMAIN ring[r].hosts # {}
PROOF
<1>0. ring[r] \in RingState
  BY DEF TypeOK
<1>1. PICK N \in SUBSET Names : ring[r].hosts \in [N -> Servers]
  BY <1>0 DEF RingState
<1>2. N = {} => ring[r].hosts = NoHosts
  BY <1>1 DEF NoHosts
<1> QED
  BY <1>1, <1>2 DEF Hosts

(* With hosts, every key has an owner.                                     *)
LEMMA OwnerExists ==
    ASSUME TypeOK, NEW r \in Rings, NEW key \in Keys, ring[r].hosts # NoHosts
    PROVE  GetShard(r, key) # NoJedis
PROOF
<1>0. ring[r] \in RingState
  BY DEF TypeOK
<1>1. PICK N \in SUBSET Names : ring[r].hosts \in [N -> Servers]
  BY <1>0 DEF RingState
<1>2. N # {}
  BY <1>1, HostsInUse
<1>3. Owner[N][key] \in N
  BY <1>2, ClientAssumption
<1>4. GetShard(r, key) = [addr |-> ring[r].hosts[Owner[N][key]],
                          ring |-> r, freed |-> ring[r].freed]
  BY <1>1, <1>2 DEF GetShard
<1>5. GetShard(r, key) \in Jedis
  BY <1>0, <1>1, <1>3, <1>4 DEF RingState, Jedis
<1> QED
  BY <1>5, ClientAssumption DEF Jedis, Rings

(* A build that leaves no excuse has reached every host.                   *)
LEMMA BuildIsComplete ==
    ASSUME TypeOK, NEW r \in Rings, NEW table \in Config!AllTables, NEW out,
           InitSharded(r, table, out), excuse' = "none"
    PROVE  /\ out.ok /\ excuse = "none"
           /\ ring'[r].hosts = Usable(table) /\ ring'[r].hosts # NoHosts
           /\ \A q \in Rings : q # r => ring'[q] = ring[q]
PROOF
<1>1. ring' = [ring EXCEPT ![r] = out.ring] /\ ring \in [Rings -> RingState]
  BY DEF InitSharded, TypeOK
<1>2. Complete(out, table) /\ excuse = "none"
  BY DEF InitSharded, Excuse
<1>3. out.ok /\ WellFormed(table) # {} /\ out.ring.hosts = Usable(table)
  BY <1>2 DEF Complete
<1> QED
  BY <1>1, <1>2, <1>3, HostsOfTable

(* An operator step is a Config!Step.                                      *)
LEMMA OperatorSteps ==
    ASSUME TypeOK, Config!OperatorStep
    PROVE  \E next, now, old :
              /\ next \in Successors(cfg.status)
              /\ Config!Step(next, now, old)
              /\ next \notin Reads => now = cfg.address /\ old = cfg.oldaddress
              /\ next = "syning" => old = cfg.address
              /\ next = "change" => now # cfg.address
PROOF
<1>1. cfg.status \in Status
  BY DEF TypeOK, Config!TypeOK, Config!Status, Status
<1>2. CASE Config!StartSync
  <2>1. PICK table \in Tables : Config!Step("syning", table, cfg.address)
    BY <1>2 DEF Config!StartSync
  <2> QED
    BY <1>1, <1>2, <2>1 DEF Config!StartSync, Successors, Reads
<1>3. CASE Config!EndSync
  <2>1. "toconvert" \in Successors(cfg.status) /\ "toconvert" \notin Reads
    BY <1>3 DEF Config!EndSync, Successors, Reads
  <2> QED
    BY <1>3, <2>1 DEF Config!EndSync
<1>4. CASE Config!Convert
  <2>1. "normal" \in Successors(cfg.status) /\ "normal" \notin Reads
    BY <1>4 DEF Config!Convert, Successors, Reads
  <2> QED
    BY <1>4, <2>1 DEF Config!Convert
<1>5. CASE Config!ReplaceHost
  <2>1. PICK name \in DOMAIN cfg.address, server \in Servers :
          /\ cfg.address[name] # server
          /\ Config!Step("change", [cfg.address EXCEPT ![name] = server], cfg.oldaddress)
    BY <1>5 DEF Config!ReplaceHost
  <2> DEFINE now == [cfg.address EXCEPT ![name] = server]
  <2>2. now[name] = server
    <3>1. PICK N \in SUBSET Names : cfg.address \in [N -> Servers \cup {BadAddr}]
      BY AddressType DEF Config!AllTables
    <3> QED
      BY <2>1, <3>1
  <2>3. now # cfg.address
    BY <2>1, <2>2
  <2> HIDE DEF now
  <2>4. Config!Step("change", now, cfg.oldaddress)
    BY <2>1 DEF now
  <2> QED
    BY <1>1, <1>5, <2>3, <2>4 DEF Config!ReplaceHost, Successors, Reads
<1> QED
  BY <1>2, <1>3, <1>4, <1>5 DEF Config!OperatorStep

LEMMA PhaseInit == Init => PhaseInv
  BY DEF Init, PhaseInv, Phase, Messages, Built, Startup, StartWindow, Listening

(* An excuse is for ever.                                                  *)
LEMMA ExcuseStays ==
    ASSUME [Next]_vars, excuse' = "none"
    PROVE  excuse = "none"
PROOF
<1>1. CASE UNCHANGED excuse
  BY <1>1
<1>2. ASSUME NEW reason, NEW cond, Excuse(reason, cond) PROVE excuse = "none"
  BY <1>2 DEF Excuse
<1>3. CASE SubscriberStep
  BY <1>1, <1>2, <1>3 DEF SubscriberStep, Connect, InitShardedState, InitNewRing, InitRing,
     InitSharded, ConnectSubs, Subscribe, SubscribeAgain, SendSubscribe, Receive, LockWrite, HandleStart,
     HandleNormal, HandleChange, UnlockWrite
<1>4. ASSUME NEW t \in Threads, BeginExecute(t) \/ ResolveAddr(t) \/ ThreadStep(t)
      PROVE  excuse = "none"
  BY <1>1, <1>4 DEF BeginExecute, ResolveAddr, ThreadStep, ExecuteOnOwner, Mirror,
     EndExecute, ReadAddr
<1>5. CASE SubsBreak \/ OperatorStep \/ Publish \/ Terminated \/ UNCHANGED vars
  BY <1>1, <1>2, <1>5 DEF SubsBreak, OperatorStep, Publish, Terminated, vars
<1> QED
  BY <1>3, <1>4, <1>5 DEF Next

(* The messages of the queue are the unread ones.                          *)
LEMMA QueueElements ==
    ASSUME KeepsUp, TypeOK
    PROVE  /\ Queue \in Seq(Status)
           /\ pending = NoMessage => \A i \in 1 .. Len(Queue) : Queue[i] \in Unread
PROOF
<1>1. Queue \in Seq(Status)
  BY DEF KeepsUp, Follows, Path
<1>2. \A i \in 1 .. Len(stream) : stream[i] \in Range(stream)
  <2>1. DOMAIN stream = 1 .. Len(stream)
    BY LenProperties DEF TypeOK
  <2> QED
    BY <2>1 DEF Range
<1>3. CASE pc \in {"wrlock", "handle"} /\ pending = NoMessage
  <2> DEFINE T == Replies \cup {NoMessage}
  <2>1. msg \in T /\ stream \in Seq(T)
    BY SeqMonotonic DEF TypeOK, Replies
  <2> HIDE DEF T
  <2>2. Queue = <<msg>> \o stream
    BY <1>3 DEF Queue, Unhandled
  <2>3. \A i \in 1 .. Len(Queue) : Queue[i] = msg \/ \E j \in 1 .. Len(stream) :
            Queue[i] = stream[j]
    BY <2>1, <2>2, MessageInHand
  <2> QED
    BY <1>1, <1>2, <1>3, <2>3 DEF Unread
<1>4. CASE pc \notin {"wrlock", "handle"} /\ pending = NoMessage
  BY <1>1, <1>2, <1>4 DEF Queue, Unhandled, Unread
<1> QED
  BY <1>1, <1>3, <1>4

LEMMA PendingType ==
    ASSUME TypeOK
    PROVE  pending \in Status \cup {NoMessage} /\ NoMessage \notin Status
  BY ConfigAssumption DEF TypeOK, Config!TypeOK, Config!Status, Status

(* Taking a message from the stream into the hand leaves the queue as it   *)
(* is; handling it, or passing over it, takes it off the queue.            *)
LEMMA QueueTaken ==
    ASSUME TypeOK, stream \in Seq(Status), stream # <<>>, pc = "receive", pc' = "wrlock",
           msg' = Head(stream), stream' = Tail(stream), pending' = pending
    PROVE  Queue' = Queue
PROOF
<1>1. <<Head(stream)>> \o Tail(stream) = stream
  BY TakeMessage
<1>2. Unhandled' = stream /\ Unhandled = stream
  BY <1>1 DEF Unhandled
<1> QED
  BY <1>2 DEF Queue

LEMMA QueuePassed ==
    ASSUME TypeOK, stream \in Seq(Status), stream # <<>>, pc = "receive", pc' = "receive",
           stream' = Tail(stream), pending' = pending
    PROVE  Queue # <<>> /\ Head(Queue) = Head(stream) /\ Queue' = Tail(Queue)
PROOF
<1>1. Unhandled' = Tail(stream) /\ Unhandled = stream
  BY DEF Unhandled
<1>2. CASE pending = NoMessage
  BY <1>1, <1>2 DEF Queue
<1>3. CASE pending # NoMessage
  <2>1. pending \in Status
    BY <1>3, PendingType
  <2>2. /\ Head(Append(stream, pending)) = Head(stream)
        /\ Tail(Append(stream, pending)) = Append(Tail(stream), pending)
        /\ Append(stream, pending) # <<>>
    BY <2>1, AppendMessage
  <2> QED
    BY <1>1, <1>3, <2>2 DEF Queue
<1> QED
  BY <1>2, <1>3

LEMMA QueueHandled ==
    ASSUME TypeOK, stream \in Seq(Status), msg \in Status, pc = "handle", pc' = "unlock",
           stream' = stream, pending' = pending
    PROVE  Queue # <<>> /\ Head(Queue) = msg /\ Queue' = Tail(Queue)
PROOF
<1>1. Unhandled' = stream /\ Unhandled = <<msg>> \o stream
  BY DEF Unhandled
<1>2. CASE pending = NoMessage
  BY <1>1, <1>2, MessageInHand DEF Queue
<1>3. CASE pending # NoMessage
  <2>1. pending \in Status
    BY <1>3, PendingType
  <2>2. /\ Append(<<msg>> \o stream, pending) = <<msg>> \o Append(stream, pending)
        /\ Append(stream, pending) \in Seq(Status)
    BY <2>1, AppendMessage, AppendProperties
  <2>3. /\ Queue = <<msg>> \o Append(stream, pending)
        /\ Queue' = Append(stream, pending)
    BY <1>1, <1>3, <2>2 DEF Queue
  <2> QED
    BY <2>2, <2>3, MessageInHand
<1> QED
  BY <1>2, <1>3

LEMMA QueuePublished ==
    ASSUME TypeOK, stream \in Seq(Status), pc \in {"wrlock", "handle"} => msg \in Status,
           pending # NoMessage, pending' = NoMessage, stream' = Append(stream, pending),
           pc' = pc, msg' = msg
    PROVE  Queue' = Queue
PROOF
<1>1. pending \in Status
  BY PendingType
<1>2. CASE pc \in {"wrlock", "handle"}
  <2>1. Append(<<msg>> \o stream, pending) = <<msg>> \o Append(stream, pending)
    BY <1>1, <1>2, AppendMessage
  <2> QED
    BY <1>2, <2>1 DEF Queue, Unhandled
<1>3. CASE pc \notin {"wrlock", "handle"}
  BY <1>3 DEF Queue, Unhandled
<1> QED
  BY <1>2, <1>3

(* The steps of init.                                                      *)
LEMMA PhaseStartup ==
    ASSUME TypeOK, Phase, excuse = "none", excuse' = "none",
           \/ Connect \/ InitShardedState \/ InitNewRing \/ InitRing
           \/ ConnectSubs \/ Subscribe \/ SubscribeAgain
    PROVE  Phase'
PROOF
<1> USE DEF Phase
<1>t. /\ sharded \in Rings /\ sharded_new \in Rings /\ cfg.status \in Status
      /\ cfg.address \in Config!AllTables /\ cfg.oldaddress \in Config!AllTables
  BY AddressType DEF TypeOK, Config!Status, Status
<1>1. CASE Connect
  <2>1. pc' = "status" /\ UNCHANGED <<configVars, stream, subscribed, ringVars>>
    BY <1>1 DEF Connect, Excuse
  <2> QED
    BY <1>1, <2>1 DEF Connect, Messages, Built, Startup, StartWindow, Listening, ringVars
<1>2. CASE InitShardedState
  <2>1. /\ state' = cfg.status /\ pc' = IF cfg.status = "syning" THEN "ring_new" ELSE "ring"
        /\ pending = NoMessage /\ cfg.status # "toconvert"
        /\ UNCHANGED <<configVars, stream, subscribed, ring, sharded, sharded_new>>
        /\ pc = "status"
    BY <1>2 DEF InitShardedState, Excuse
  <2>2. Messages'
    BY <2>1 DEF Messages, Startup, StartWindow, Listening
  <2>3. Built'
    BY <2>1 DEF Built, Startup, StartWindow, Listening, configVars
  <2> QED
    BY <2>1, <2>2, <2>3
<1>3. CASE InitNewRing
  <2>1. PICK out \in InitOutcomes(sharded_new, cfg.address) :
          /\ InitSharded(sharded_new, cfg.address, out)
          /\ pc' = IF out.ok THEN "ring" ELSE "failed"
    BY <1>3 DEF InitNewRing
  <2>2. /\ out.ok /\ ring'[sharded_new].hosts = Usable(cfg.address)
        /\ ring'[sharded_new].hosts # NoHosts
    BY <1>t, <2>1, BuildIsComplete
  <2>3. /\ pc = "ring_new" /\ pc' = "ring"
        /\ UNCHANGED <<configVars, stream, subscribed, state, sharded, sharded_new>>
    BY <1>3, <2>1, <2>2 DEF InitNewRing
  <2>4. Messages'
    BY <2>3 DEF Messages, Startup, StartWindow, Listening
  <2>5. Built'
    BY <2>2, <2>3 DEF Built, Startup, StartWindow, Listening, configVars
  <2> QED
    BY <2>3, <2>4, <2>5
<1>4. CASE InitRing
  <2> DEFINE table == IF state = "syning" THEN cfg.oldaddress ELSE cfg.address
  <2>1. PICK out \in InitOutcomes(sharded, table) :
          /\ InitSharded(sharded, table, out)
          /\ pc' = IF out.ok THEN "subs" ELSE "failed"
    BY <1>4 DEF InitRing
  <2>2. table \in Config!AllTables
    BY <1>t
  <2>3. /\ out.ok /\ ring'[sharded].hosts = Usable(table)
        /\ ring'[sharded].hosts # NoHosts /\ sharded # sharded_new
        /\ ring'[sharded_new] = ring[sharded_new]
    <3>1. sharded # sharded_new
      BY DEF Built
    <3> HIDE DEF table
    <3> QED
      BY <1>t, <2>1, <2>2, <3>1, BuildIsComplete
  <2>4. /\ pc = "ring" /\ pc' = "subs"
        /\ UNCHANGED <<configVars, stream, subscribed, state, sharded, sharded_new>>
    BY <1>4, <2>1, <2>3 DEF InitRing
  <2>5. /\ pending = NoMessage /\ state = cfg.status /\ cfg.status # "toconvert"
        /\ stream = <<>>
        /\ state = "syning" => /\ ring[sharded_new].hosts = Usable(cfg.address)
                               /\ ring[sharded_new].hosts # NoHosts
    BY <2>4 DEF Built, Messages, Startup, StartWindow
  <2>6. Queue' = <<>>
    BY <2>4, <2>5 DEF Queue, Unhandled, configVars
  <2>7. KeepsUp'
    <3> DEFINE use == ring'[sharded].hosts
               new == ring'[sharded_new].hosts
    <3>1. IF cfg.status = "syning"
          THEN use = Usable(cfg.oldaddress) /\ new = Usable(cfg.address)
          ELSE use = Usable(cfg.address)
      BY <2>3, <2>5
    <3> HIDE DEF use, new
    <3>2. Follows(<<>>, cfg.status, Usable(cfg.address), Usable(cfg.oldaddress),
                  cfg.status = "syning", use, new)
      BY <1>t, <2>5, <3>1, FollowsFromStart
    <3> QED
      BY <2>4, <2>5, <2>6, <3>2 DEF KeepsUp, configVars, use, new
  <2>8. HasHosts'
    BY <2>3, <2>4, <2>5 DEF HasHosts
  <2>9. Messages'
    BY <2>4 DEF Messages, Startup, StartWindow, Listening
  <2>10. Built'
    BY <2>3, <2>4, <2>5, <2>7, <2>8 DEF Built, Startup, StartWindow, Listening, configVars
  <2> QED
    BY <2>4, <2>9, <2>10
<1>5. CASE ConnectSubs \/ Subscribe \/ SubscribeAgain
  <2>1. /\ pc \in {"subs", "subscribe", "subscribe_again"}
        /\ pc' \in {"subscribe", "subscribe_again", "receive"}
        /\ UNCHANGED <<configVars, ringVars>>
    BY <1>5 DEF ConnectSubs, Subscribe, SubscribeAgain, SendSubscribe, Excuse
  <2>2. stream = <<>> /\ stream' = <<>>
    <3>1. stream = <<>>
      BY <2>1 DEF Messages, Startup, StartWindow
    <3>2. \A reply \in Acknowledgements : Tail(Append(<<>>, reply)) = <<>>
      OBVIOUS
    <3> QED
      BY <1>5, <3>1, <3>2 DEF ConnectSubs, Subscribe, SubscribeAgain, SendSubscribe
  <2>3. KeepsUp /\ HasHosts
    BY <2>1 DEF Built, Startup
  <2>4. Queue' = Queue
    BY <2>1, <2>2 DEF Queue, Unhandled, configVars
  <2>5. KeepsUp' /\ HasHosts'
    BY <2>1, <2>3, <2>4 DEF KeepsUp, HasHosts, configVars, ringVars
  <2>6. Messages'
    <3>1. <<>> \in Seq(Status)
      OBVIOUS
    <3>2. pc' = "receive" => subscribed'
      <4>1. \A reply \in Acknowledgements :
                Head(Append(<<>>, reply)) # "error" => reply = "ack"
        BY DEF Acknowledgements
      <4> QED
        BY <1>5, <2>2, <4>1 DEF ConnectSubs, Subscribe, SubscribeAgain, SendSubscribe
    <3> QED
      BY <2>1, <2>2, <3>1, <3>2 DEF Messages, Startup, StartWindow, Listening
  <2>7. Built'
    BY <2>1, <2>5 DEF Built, Startup, StartWindow, Listening, configVars, ringVars
  <2> QED
    BY <2>1, <2>6, <2>7
<1> QED
  BY <1>1, <1>2, <1>3, <1>4, <1>5

(* The steps of run_thread.                                                *)
LEMMA PhaseReceive ==
    ASSUME TypeOK, Phase, Receive
    PROVE  Phase'
PROOF
<1> USE DEF Phase
<1>1. /\ pc = "receive" /\ stream # <<>> /\ stream' = Tail(stream)
      /\ UNCHANGED <<configVars, subscribed, ringVars>>
      /\ stream \in Seq(Status)
  BY DEF Receive, Messages
<1>2. Head(stream) \in Status /\ Tail(stream) \in Seq(Status)
  BY <1>1, TakeMessage
<1>3. KeepsUp /\ HasHosts /\ sharded # sharded_new
  BY <1>1 DEF Built, Listening, Startup
<1>4. CASE Head(stream) \in {"syning", "normal", "change"}
  <2>1. pc' = "wrlock" /\ msg' = Head(stream)
    BY <1>4 DEF Receive
  <2>2. Queue' = Queue
    BY <1>1, <2>1, QueueTaken DEF configVars
  <2>3. KeepsUp' /\ HasHosts'
    BY <1>1, <1>3, <2>2 DEF KeepsUp, HasHosts, configVars, ringVars
  <2>4. Messages'
    BY <1>1, <1>2, <1>4, <2>1 DEF Messages, Startup, StartWindow, Listening
  <2>5. Built'
    BY <1>1, <1>3, <2>1, <2>3 DEF Built, Startup, StartWindow, Listening, ringVars
  <2> QED
    BY <2>1, <2>4, <2>5
<1>5. CASE Head(stream) \notin {"syning", "normal", "change"}
  <2>1. pc' = "receive" /\ Head(stream) = "toconvert"
    BY <1>1, <1>2, <1>5 DEF Receive, Status
  <2>2. Queue # <<>> /\ Head(Queue) = "toconvert" /\ Queue' = Tail(Queue)
    BY <1>1, <2>1, QueuePassed DEF configVars
  <2>3. KeepsUp'
    <3> DEFINE syn == state = "syning"
               use == ring[sharded].hosts
               new == ring[sharded_new].hosts
    <3>1. Follows(Queue, cfg.status, Usable(cfg.address), Usable(cfg.oldaddress), syn, use, new)
      BY <1>3 DEF KeepsUp
    <3>2. syn \in BOOLEAN
      OBVIOUS
    <3> HIDE DEF syn, use, new
    <3>3. Follows(Tail(Queue), cfg.status, Usable(cfg.address), Usable(cfg.oldaddress),
                  syn, use, new)
      BY <2>2, <3>1, <3>2, FollowsToconvert
    <3> QED
      BY <1>1, <2>2, <3>3 DEF KeepsUp, configVars, ringVars, syn, use, new
  <2>4. HasHosts'
    BY <1>1, <1>3 DEF HasHosts, ringVars
  <2>5. Messages'
    BY <1>1, <1>2, <2>1 DEF Messages, Startup, StartWindow, Listening
  <2>6. Built'
    BY <1>1, <1>3, <2>1, <2>3, <2>4 DEF Built, Startup, StartWindow, Listening, ringVars
  <2> QED
    BY <2>1, <2>5, <2>6
<1> QED
  BY <1>4, <1>5

LEMMA PhaseHandle ==
    ASSUME TypeOK, Phase, excuse' = "none", HandleStart \/ HandleNormal \/ HandleChange
    PROVE  Phase'
PROOF
<1> DEFINE syn == state = "syning"
           use == ring[sharded].hosts
           new == ring[sharded_new].hosts
           now == Usable(cfg.address)
           old == Usable(cfg.oldaddress)
<1>1. /\ pc = "handle" /\ pc' = "unlock" /\ msg \in Status
      /\ UNCHANGED <<configVars, stream, subscribed>>
      /\ subscribed /\ stream \in Seq(Status)
  BY DEF HandleStart, HandleNormal, HandleChange, Phase, Messages, Listening, Status
<1>2. KeepsUp /\ HasHosts /\ sharded # sharded_new
  BY <1>1 DEF Phase, Built, Listening, Startup
<1>3. /\ sharded \in Rings /\ sharded_new \in Rings /\ ring \in [Rings -> RingState]
      /\ cfg.address \in Config!AllTables /\ syn \in BOOLEAN
  BY AddressType DEF TypeOK
<1>4. Queue # <<>> /\ Head(Queue) = msg /\ Queue' = Tail(Queue)
  BY <1>1, QueueHandled DEF configVars
<1>5. Follows(Queue, cfg.status, now, old, syn, use, new)
  BY <1>2 DEF KeepsUp
<1>6. ASSUME Follows(Tail(Queue), cfg.status, now, old, state' = "syning",
                     ring'[sharded'].hosts, ring'[sharded_new'].hosts),
             HasHosts', sharded' # sharded_new'
      PROVE  Phase'
  <2>1. KeepsUp'
    BY <1>1, <1>4, <1>6 DEF KeepsUp, configVars
  <2>2. Messages'
    BY <1>1 DEF Messages, Startup, StartWindow, Listening
  <2>3. Built'
    BY <1>1, <1>6, <2>1 DEF Built, Startup, StartWindow, Listening
  <2> QED
    BY <1>1, <2>2, <2>3 DEF Phase
<1> HIDE DEF syn, use, new, now, old
<1>7. CASE HandleStart
  <2>1. PICK out \in InitOutcomes(sharded_new, cfg.address) :
          /\ InitSharded(sharded_new, cfg.address, out)
          /\ state' = IF out.ok THEN "syning" ELSE state
    BY <1>7 DEF HandleStart
  <2>2. /\ out.ok /\ ring'[sharded_new].hosts = now /\ ring'[sharded_new].hosts # NoHosts
        /\ ring'[sharded] = ring[sharded]
    BY <1>2, <1>3, <2>1, BuildIsComplete DEF now
  <2>3. /\ state' = "syning" /\ ring'[sharded].hosts = use
        /\ sharded' = sharded /\ sharded_new' = sharded_new /\ Head(Queue) = "syning"
    BY <1>4, <1>7, <2>1, <2>2 DEF HandleStart, use
  <2>4. Follows(Tail(Queue), cfg.status, now, old, TRUE, use, now)
    BY <1>3, <1>4, <1>5, <2>3, FollowsRead DEF Reads
  <2>5. HasHosts'
    BY <1>2, <2>2, <2>3 DEF HasHosts
  <2> QED
    BY <1>2, <1>6, <2>2, <2>3, <2>4, <2>5
<1>8. CASE HandleNormal
  <2>1. /\ ring' = [ring EXCEPT ![sharded] = [hosts |-> NoHosts, freed |-> ring[sharded].freed + 1]]
        /\ sharded' = sharded_new /\ sharded_new' = sharded /\ state' = "normal"
        /\ Head(Queue) = "normal"
    BY <1>4, <1>8 DEF HandleNormal
  <2>2. ring'[sharded'].hosts = new /\ ring'[sharded_new'].hosts = NoHosts
    BY <1>2, <1>3, <2>1 DEF new
  <2>3. syn /\ Follows(Tail(Queue), cfg.status, now, old, FALSE, new, NoHosts)
    BY <1>3, <1>4, <1>5, <2>1, FollowsNormal
  <2>4. HasHosts'
    BY <1>2, <2>1, <2>2, <2>3 DEF HasHosts, syn, new
  <2>5. (state' = "syning") = FALSE
    BY <2>1
  <2> QED
    BY <1>2, <1>6, <2>1, <2>2, <2>3, <2>4, <2>5
<1>9. CASE HandleChange
  <2>1. PICK out \in InitOutcomes(sharded, cfg.address) :
          InitSharded(sharded, cfg.address, out)
    BY <1>9 DEF HandleChange
  <2>2. /\ ring'[sharded].hosts = now /\ ring'[sharded].hosts # NoHosts
        /\ ring'[sharded_new] = ring[sharded_new]
    BY <1>2, <1>3, <2>1, BuildIsComplete DEF now
  <2>3. /\ state' = state /\ ring'[sharded_new].hosts = new
        /\ sharded' = sharded /\ sharded_new' = sharded_new /\ Head(Queue) = "change"
    BY <1>4, <1>9, <2>2 DEF HandleChange, new
  <2>4. ~syn /\ Follows(Tail(Queue), cfg.status, now, old, FALSE, now, new)
    BY <1>3, <1>4, <1>5, <2>3, FollowsRead DEF Reads
  <2>5. HasHosts' /\ (state' = "syning") = FALSE
    BY <2>2, <2>3, <2>4 DEF HasHosts, syn
  <2> QED
    BY <1>2, <1>6, <2>2, <2>3, <2>4, <2>5
<1> QED
  BY <1>7, <1>8, <1>9

LEMMA PhaseLocks ==
    ASSUME TypeOK, Phase, LockWrite \/ UnlockWrite \/ SubsBreak
    PROVE  Phase'
PROOF
<1> USE DEF Phase
<1>1. UNCHANGED <<configVars, ringVars>>
  BY DEF LockWrite, UnlockWrite, SubsBreak
<1>2. HasHosts'
  BY <1>1 DEF Built, HasHosts, LockWrite, UnlockWrite, SubsBreak, Startup, ringVars
<1>3. CASE LockWrite \/ UnlockWrite
  <2>1. /\ \/ pc = "wrlock" /\ pc' = "handle" /\ msg' = msg
           \/ pc = "unlock" /\ pc' = "receive"
        /\ UNCHANGED <<stream, subscribed>>
    BY <1>3 DEF LockWrite, UnlockWrite
  <2>2. Queue' = Queue
    BY <1>1, <2>1 DEF Queue, Unhandled, configVars
  <2>3. KeepsUp /\ sharded # sharded_new
    BY <2>1 DEF Built, Listening
  <2>4. KeepsUp'
    BY <1>1, <2>2, <2>3 DEF KeepsUp, configVars, ringVars
  <2>5. Messages'
    BY <2>1 DEF Messages, Startup, StartWindow, Listening
  <2>6. Built'
    BY <1>1, <1>2, <2>1, <2>3, <2>4 DEF Built, Startup, StartWindow, Listening, ringVars
  <2> QED
    BY <2>1, <2>5, <2>6
<1>4. CASE SubsBreak
  <2>1. pc' = "deaf" /\ stream' = <<>> /\ <<>> \in Seq(Status)
    BY <1>4 DEF SubsBreak
  <2>2. Messages'
    BY <2>1 DEF Messages, Startup, StartWindow, Listening
  <2>3. Built'
    BY <1>1, <1>2, <2>1 DEF Built, Startup, StartWindow, Listening, ringVars
  <2> QED
    BY <2>1, <2>2, <2>3
<1> QED
  BY <1>3, <1>4

(* The configuration server.                                               *)
LEMMA PhaseOperator ==
    ASSUME TypeOK, Phase, excuse = "none", excuse' = "none", OperatorStep
    PROVE  Phase'
PROOF
<1> USE DEF Phase
<1>1. PICK next, address, oldaddress :
          /\ next \in Successors(cfg.status)
          /\ Config!Step(next, address, oldaddress)
          /\ next \notin Reads => address = cfg.address /\ oldaddress = cfg.oldaddress
          /\ next = "syning" => oldaddress = cfg.address
          /\ next = "change" => address # cfg.address
  BY OperatorSteps DEF OperatorStep
<1>2. /\ pending = NoMessage /\ pending' = next
      /\ cfg' = [status |-> next, address |-> address, oldaddress |-> oldaddress]
      /\ UNCHANGED <<subsVars, ringVars>>
  BY <1>1 DEF OperatorStep, Config!Step
<1>3. next \in Status /\ next # NoMessage
  BY <1>1, ConfigAssumption
  DEF TypeOK, Config!TypeOK, Config!Status, Status, Successors
<1>4. pc \notin StartWindow
  BY DEF OperatorStep, Excuse
<1>5. Messages' /\ HasHosts' = HasHosts
  BY <1>2 DEF Messages, HasHosts, subsVars, ringVars
<1>6. CASE pc \notin Listening
  <2>1. Built'
    BY <1>2, <1>4, <1>5, <1>6 DEF Built, StartWindow, subsVars, ringVars
  <2> QED
    BY <1>2, <1>5, <2>1 DEF subsVars
<1>7. CASE pc \in Listening
  <2> DEFINE syn == state = "syning"
             use == ring[sharded].hosts
             new == ring[sharded_new].hosts
             now == Usable(cfg.address)
             old == Usable(cfg.oldaddress)
             now_next == Usable(address)
             old_next == Usable(oldaddress)
  <2>1. Queue' = Append(Queue, next)
    BY <1>2, <1>3 DEF Queue, Unhandled, subsVars
  <2>2. KeepsUp
    BY <1>7 DEF Built
  <2>3. ASSUME NEW i \in 1 .. Len(Queue), Queue[i] \in Reads PROVE address = cfg.address
    <3>1. Queue[i] \in Unread
      BY <1>2, <2>2, QueueElements
    <3>2. Unread \cap {"syning", "change"} # {}
      BY <2>3, <3>1 DEF Reads
    <3> QED
      BY <1>2, <1>4, <3>2 DEF OperatorStep, Excuse
  <2>4. /\ syn \in BOOLEAN
        /\ next \notin Reads => now_next = now /\ old_next = old
        /\ next = "syning" => old_next = now
        /\ (\E i \in 1 .. Len(Queue) : Queue[i] \in Reads) =>
              next # "change" /\ now_next = now
    BY <1>1, <2>3
  <2>5. Follows(Queue, cfg.status, now, old, syn, use, new)
    BY <2>2 DEF KeepsUp
  <2>6. KeepsUp'
    <3> HIDE DEF syn, use, new, now, old, now_next, old_next
    <3>1. Follows(Append(Queue, next), next, now_next, old_next, syn, use, new)
      BY <1>1, <2>4, <2>5, FollowsOperator
    <3> QED
      BY <1>2, <2>1, <3>1 DEF KeepsUp, ringVars, syn, use, new, now_next, old_next
  <2>7. Built'
    BY <1>2, <1>4, <1>5, <2>6 DEF Built, StartWindow, Startup, subsVars, ringVars
  <2> QED
    BY <1>2, <1>5, <2>7 DEF subsVars
<1> QED
  BY <1>6, <1>7

LEMMA PhasePublish ==
    ASSUME TypeOK, Phase, excuse = "none", excuse' = "none", Publish
    PROVE  Phase'
PROOF
<1> USE DEF Phase
<1>1. /\ pending # NoMessage /\ pending' = NoMessage
      /\ stream' = IF subscribed THEN Append(stream, pending) ELSE stream
      /\ UNCHANGED <<cfg, pc, msg, subscribed, ringVars>>
      /\ pc \notin StartWindow
  BY DEF Publish, Config!Publish, Excuse
<1>2. pending \in Status
  BY <1>1, PendingType
<1>3. stream' \in Seq(Status)
  BY <1>1, <1>2, AppendProperties DEF Messages
<1>4. pc \in Startup => stream' = <<>>
  BY <1>1 DEF Messages
<1>5. Messages'
  BY <1>1, <1>3, <1>4 DEF Messages
<1>6. HasHosts' = HasHosts
  BY <1>1 DEF HasHosts, ringVars
<1>7. pc \in Listening => KeepsUp'
  <2> SUFFICES ASSUME pc \in Listening PROVE KeepsUp'
    OBVIOUS
  <2>1. stream' = Append(stream, pending) /\ stream \in Seq(Status)
        /\ (pc \in {"wrlock", "handle"} => msg \in Status)
    BY <1>1 DEF Messages, Status
  <2>2. Queue' = Queue
    BY <1>1, <2>1, QueuePublished
  <2>3. KeepsUp
    BY DEF Built
  <2> QED
    BY <1>1, <2>2, <2>3 DEF KeepsUp, ringVars
<1>8. Built'
  BY <1>1, <1>6, <1>7 DEF Built, StartWindow, Startup, ringVars
<1> QED
  BY <1>1, <1>5, <1>8

(* The application threads can only crash the process, and not before init *)
(* has returned.                                                           *)
LEMMA PhaseThreads ==
    ASSUME TypeOK, Phase, NEW t \in Threads,
           pc \in Startup => tpc[t] = "idle",
           BeginExecute(t) \/ ResolveAddr(t) \/ ThreadStep(t)
    PROVE  Phase'
PROOF
<1> USE DEF Phase
<1>1. UNCHANGED <<configVars, msg, stream, subscribed, ringVars>>
  BY DEF BeginExecute, ResolveAddr, ThreadStep, ExecuteOnOwner, Mirror, EndExecute,
     ReadAddr, subsVars
<1>2. pc' = pc \/ (pc' \in Crashes /\ pc \notin Startup)
  BY DEF BeginExecute, ResolveAddr, ThreadStep, ExecuteOnOwner, Mirror, EndExecute,
     ReadAddr, subsVars, Crash, Crashes
<1>3. Queue' = Queue \/ pc' # pc
  BY <1>1 DEF Queue, Unhandled, configVars
<1>4. HasHosts' = HasHosts /\ (pc' = pc => KeepsUp' = KeepsUp)
  BY <1>1, <1>3 DEF HasHosts, KeepsUp, configVars, ringVars
<1>5. CASE pc' = pc
  <2>1. Messages' /\ Built'
    BY <1>1, <1>4, <1>5 DEF Messages, Built, configVars, ringVars
  <2> QED
    BY <1>5, <2>1
<1>6. CASE pc' \in Crashes /\ pc \notin Startup
  <2>1. Messages'
    BY <1>1, <1>6 DEF Messages, Crashes, Startup, StartWindow, Listening
  <2>2. Built'
    BY <1>1, <1>4, <1>6 DEF Built, Crashes, Startup, StartWindow, Listening, ringVars
  <2> QED
    BY <1>6, <2>1, <2>2 DEF Crashes
<1> QED
  BY <1>2, <1>5, <1>6

LEMMA PhaseNext ==
    ASSUME TypeOK, PhaseInv, [Next]_vars,
           pc \in Startup => \A t \in Threads : tpc[t] = "idle"
    PROVE  PhaseInv'
PROOF
<1> SUFFICES ASSUME excuse' = "none" PROVE Phase'
  BY DEF PhaseInv
<1>1. excuse = "none" /\ Phase
  BY ExcuseStays DEF PhaseInv
<1>2. CASE SubscriberStep
  BY <1>1, <1>2, PhaseStartup, PhaseReceive, PhaseHandle, PhaseLocks DEF SubscriberStep
<1>3. CASE SubsBreak
  BY <1>1, <1>3, PhaseLocks
<1>4. ASSUME NEW t \in Threads, BeginExecute(t) \/ ResolveAddr(t) \/ ThreadStep(t)
      PROVE  Phase'
  BY <1>1, <1>4, PhaseThreads
<1>5. CASE OperatorStep \/ Publish
  BY <1>1, <1>5, PhaseOperator, PhasePublish
<1>6. CASE Terminated \/ UNCHANGED vars
  <2>1. UNCHANGED <<configVars, subsVars, ringVars>>
    BY <1>6 DEF Terminated, vars
  <2>2. Queue' = Queue
    BY <2>1 DEF Queue, Unhandled, configVars, subsVars
  <2>3. KeepsUp' = KeepsUp /\ HasHosts' = HasHosts
    BY <2>1, <2>2 DEF KeepsUp, HasHosts, configVars, ringVars
  <2> QED
    BY <1>1, <2>1, <2>3 DEF Phase, Messages, Built, configVars, subsVars, ringVars
<1> QED
  BY <1>2, <1>3, <1>4, <1>5, <1>6 DEF Next

LEMMA PhaseInvariant == Spec => [](LockInv /\ PhaseInv)
PROOF
<1>1. LockInv /\ PhaseInv /\ [Next]_vars => PhaseInv'
  BY PhaseNext DEF LockInv, LockHeld
<1> QED
  BY <1>1, LockInit, LockNext, PhaseInit, PTL DEF Spec

(* What the phases mean for a client that has caught up.                   *)
LEMMA PhaseFollows == PhaseInv => FollowsConfig
PROOF
<1> SUFFICES ASSUME PhaseInv, CaughtUp, excuse = "none"
             PROVE  /\ ring[sharded].hosts =
                          Usable(IF Resharding THEN cfg.oldaddress ELSE cfg.address)
                    /\ state = "syning" <=> Resharding
                    /\ Resharding => ring[sharded_new].hosts = Usable(cfg.address)
  BY DEF FollowsConfig
<1>1. pc = "receive" /\ stream = <<>> /\ pending = NoMessage
  BY DEF CaughtUp
<1>2. KeepsUp /\ Queue = <<>>
  BY <1>1 DEF PhaseInv, Phase, Built, Listening, Queue, Unhandled
<1> DEFINE syn == state = "syning"
           use == ring[sharded].hosts
           new == ring[sharded_new].hosts
<1>3. syn \in BOOLEAN /\ Follows(<<>>, cfg.status, Usable(cfg.address),
                                 Usable(cfg.oldaddress), syn, use, new)
  BY <1>2 DEF KeepsUp
<1>4. /\ syn <=> cfg.status \in InResharding
      /\ IF syn THEN new = Usable(cfg.address) /\ use = Usable(cfg.oldaddress)
         ELSE use = Usable(cfg.address)
  <2> HIDE DEF syn, use, new
  <2> QED
    BY <1>3, FollowsToEnd
<1> QED
  BY <1>4 DEF Resharding, InResharding

LEMMA PhaseHasOwner == PhaseInv => AlwaysHasOwner
  BY DEF PhaseInv, Phase, Built, HasHosts, AlwaysHasOwner

(* A client that started in a quiet moment, reached every host and was not *)
(* overtaken uses, once it has caught up, the hosts of the configuration.  *)
THEOREM ClientFollowsConfig == Spec => []FollowsConfig
PROOF
<1>1. QED
  BY PhaseInvariant, PhaseFollows, PTL

(* At every moment such a client has an owner for every key, and during a  *)
(* re-sharding a new owner.                                                *)
THEOREM ClientHasOwner == Spec => []AlwaysHasOwner
PROOF
<1>1. QED
  BY PhaseInvariant, PhaseHasOwner, PTL

-----------------------------------------------------------------------------
(* The commands of such a client have an owner.                            *)

HasJedis ==
    excuse = "none" =>
        /\ pc # "null_dereference"
        /\ \A t \in Threads : InCommand(t) => jedis[t] # NoJedis

LEMMA HasJedisNext == LockInv /\ PhaseInv /\ HasJedis /\ [Next]_vars => HasJedis'
PROOF
<1> SUFFICES ASSUME LockInv, PhaseInv, HasJedis, [Next]_vars, excuse' = "none"
             PROVE  /\ pc' # "null_dereference"
                    /\ \A t \in Threads : InCommand(t)' => jedis'[t] # NoJedis
  BY DEF HasJedis
<1>t. TypeOK /\ jedis \in [Threads -> Jedis \cup {NoJedis}]
      /\ tpc \in [Threads -> {"idle", "execute", "mirror", "finish", "addr"} \cup Crashes]
  BY DEF LockInv, TypeOK
<1>1. /\ Phase /\ pc # "null_dereference"
      /\ \A t \in Threads : InCommand(t) => jedis[t] # NoJedis
  BY ExcuseStays DEF PhaseInv, HasJedis
<1>2. CASE SubscriberStep \/ SubsBreak
  <2>1. pc' # "null_dereference" /\ UNCHANGED threadVars
    BY <1>2 DEF SubscriberStep, Connect, InitShardedState, InitNewRing, InitRing,
       ConnectSubs, Subscribe, SubscribeAgain, SendSubscribe, Receive, LockWrite, HandleStart,
       HandleNormal, HandleChange, UnlockWrite, SubsBreak
  <2> QED
    BY <1>1, <2>1 DEF threadVars, InCommand
<1>3. ASSUME NEW t \in Threads, BeginExecute(t)
      PROVE  /\ pc' # "null_dereference"
             /\ \A u \in Threads : InCommand(u)' => jedis'[u] # NoJedis
  <2>1. PICK key \in Keys : jedis' = [jedis EXCEPT ![t] = GetShard(sharded, key)]
    BY <1>3 DEF BeginExecute
  <2>2. ring[sharded].hosts # NoHosts /\ sharded \in Rings
    BY <1>1, <1>3, <1>t DEF BeginExecute, Phase, Built, HasHosts, TypeOK
  <2>3. GetShard(sharded, key) # NoJedis
    BY <1>t, <2>2, OwnerExists
  <2>4. pc' = pc /\ tpc' = [tpc EXCEPT ![t] = "execute"]
    BY <1>3 DEF BeginExecute, subsVars
  <2> QED
    BY <1>1, <1>t, <2>1, <2>3, <2>4 DEF InCommand
<1>4. ASSUME NEW t \in Threads, ResolveAddr(t) \/ ReadAddr(t)
      PROVE  /\ pc' # "null_dereference"
             /\ \A u \in Threads : InCommand(u)' => jedis'[u] # NoJedis
  <2>1. \/ pc' = "memory_fault" /\ tpc' = [u \in Threads |-> "memory_fault"]
        \/ pc' = pc /\ tpc' \in {[tpc EXCEPT ![t] = "idle"], [tpc EXCEPT ![t] = "addr"]}
    BY <1>4 DEF ResolveAddr, ReadAddr, Crash
  <2>2. \A u \in Threads : u # t => jedis'[u] = jedis[u]
    BY <1>4, <1>t DEF ResolveAddr, ReadAddr
  <2> QED
    BY <1>1, <1>t, <2>1, <2>2 DEF InCommand
<1>5. ASSUME NEW t \in Threads, ExecuteOnOwner(t) \/ EndExecute(t)
      PROVE  /\ pc' # "null_dereference"
             /\ \A u \in Threads : InCommand(u)' => jedis'[u] # NoJedis
  BY <1>1, <1>t, <1>5 DEF ExecuteOnOwner, EndExecute, InCommand, subsVars
<1>6. ASSUME NEW t \in Threads, Mirror(t)
      PROVE  /\ pc' # "null_dereference"
             /\ \A u \in Threads : InCommand(u)' => jedis'[u] # NoJedis
  <2>1. jedis[t] # NoJedis
    BY <1>1, <1>6 DEF Mirror, InCommand
  <2>2. tpc' = [tpc EXCEPT ![t] = "finish"] /\ pc' = pc /\ jedis' = jedis
        /\ tpc[t] = "mirror"
    BY <1>6, <2>1 DEF Mirror
  <2> QED
    BY <1>1, <1>t, <2>2 DEF InCommand
<1>7. CASE OperatorStep \/ Publish \/ Terminated \/ UNCHANGED vars
  <2>1. pc' = pc /\ UNCHANGED threadVars
    BY <1>7 DEF OperatorStep, Publish, Terminated, vars, subsVars
  <2> QED
    BY <1>1, <2>1 DEF threadVars, InCommand
<1> QED
  BY <1>2, <1>3, <1>4, <1>5, <1>6, <1>7 DEF Next, ThreadStep

(* Such a client never compares the name of a new owner with that of an    *)
(* old owner that does not exist.                                          *)
THEOREM OwnersAreThere == Spec => []NoNullDereference
PROOF
<1>1. Init => HasJedis
  BY DEF Init, HasJedis, InCommand
<1>2. HasJedis => NoNullDereference
  BY DEF HasJedis, NoNullDereference
<1> QED
  BY <1>1, <1>2, LockInit, LockNext, PhaseInit, PhaseInvariant, HasJedisNext, PTL DEF Spec
=============================================================================
