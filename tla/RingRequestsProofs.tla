------------------------- MODULE RingRequestsProofs -------------------------
(***************************************************************************)
(* Proofs about RingRequests, where the operator may act between any two   *)
(* requests of init_sharded.  What split2vec does is used through          *)
(* AddressAssumption only.                                                 *)
(***************************************************************************)
EXTENDS RingRequests, DataCenterProofs

-----------------------------------------------------------------------------
(* The steps, and what they are to a reader of DataCenter.                 *)

ThreadsIdle == \A t \in Threads : tpc[t] = "idle"

(* An address that split2vec accepts is taken apart; put together again it *)
(* is the same, unless nothing listens there.                              *)
LEMMA AnswerIsAddress ==
    ASSUME NEW table \in Config!AllTables, NEW n \in DOMAIN table
    PROVE  /\ Split(table[n], ":", 2).ok <=> n \in WellFormed(table)
           /\ n \in WellFormed(table) =>
                 LET info == ShardInfo(Split(table[n], ":", 2).vec)
                 IN  /\ info \in Infos /\ n \in Names
                     /\ Port(info) # 0 => Address(info) = table[n]
PROOF
<1>1. n \in Names /\ table[n] \in Servers \cup {BadAddr}
  BY DEF Config!AllTables
<1>2. n \in WellFormed(table) <=> table[n] # BadAddr
  BY DEF WellFormed
<1> QED
  BY <1>1, <1>2, AddressAssumption DEF Infos

LEMMA InfoType ==
    ASSUME NEW info \in Infos, Port(info) # 0
    PROVE  Address(info) \in Servers
  BY AddressAssumption DEF Infos

LEMMA AddressHashType ==
    ASSUME TypeOK
    PROVE  AddressHash \in Config!AllTables
  BY AddressType DEF AddressHash

(* The host a HGET adds.                                                   *)
LEMMA HostFound ==
    ASSUME TypeOK, AskHost, ~UNCHANGED infos
    PROVE  LET info == ShardInfo(Split(AddressHash[NextName], ":", 2).vec)
           IN  /\ NextName \in WellFormed(AddressHash) /\ NextName \in Names
               /\ info \in Infos
               /\ infos' = [n \in DOMAIN infos \cup {NextName} |->
                               IF n = NextName THEN info ELSE infos[n]]
               /\ repaired' = repaired
PROOF
<1> DEFINE name == NextName
           Info(n) == ShardInfo(Split(AddressHash[n], ":", 2).vec)
<1>1. /\ name \in DOMAIN AddressHash /\ Split(AddressHash[name], ":", 2).ok
      /\ infos' = [n \in DOMAIN infos \cup {name} |->
                      IF n = name THEN Info(n) ELSE infos[n]]
      /\ repaired' = repaired
  BY DEF AskHost
<1>2. name \in WellFormed(AddressHash)
  BY <1>1, AddressHashType, AnswerIsAddress
<1>3. Info(name) \in Infos /\ name \in Names
  BY <1>1, <1>2, AddressHashType, AnswerIsAddress
<1>4. infos' = [n \in DOMAIN infos \cup {name} |->
                   IF n = name THEN Info(name) ELSE infos[n]]
  BY <1>1
<1> QED
  BY <1>1, <1>2, <1>3, <1>4

(* One that finds nothing new.                                             *)
LEMMA HostNotFound ==
    ASSUME TypeOK, AskHost, UNCHANGED infos, repaired'
    PROVE  repaired /\ (NextName \in WellFormed(AddressHash) => NextName \in DOMAIN infos)
PROOF
<1> DEFINE name == NextName
           readable == name \in DOMAIN AddressHash /\ Split(AddressHash[name], ":", 2).ok
           more == [n \in DOMAIN infos \cup {name} |->
                       IF n = name THEN ShardInfo(Split(AddressHash[n], ":", 2).vec)
                       ELSE infos[n]]
<1>0. \/ repaired' = (repaired /\ ~readable)
      \/ infos' = more /\ repaired' = repaired
  BY DEF AskHost
<1>1. \/ repaired /\ ~readable
      \/ name \in DOMAIN infos /\ repaired
  <2>1. DOMAIN more = DOMAIN infos \cup {name}
    OBVIOUS
  <2> HIDE DEF name, readable, more
  <2> QED
    BY <1>0, <2>1
<1>2. name \in WellFormed(AddressHash) => readable
  BY AddressHashType, AnswerIsAddress DEF WellFormed
<1> QED
  BY <1>1, <1>2

(* Every step of DataCenter's subscriber and surroundings, seen from here. *)
LEMMA StepsOfRequests ==
    ASSUME [NextRequests]_<<vars, buildVars>>
    PROVE  \/ UNCHANGED vars
           \/ FinishBuild
           \/ ~Building /\ SubscriberStep /\ UNCHANGED buildVars
           \/ SubsBreak /\ UNCHANGED buildVars
           \/ Publish /\ UNCHANGED buildVars
           \/ OperatorBetween
  BY DEF NextRequests, ListHosts, AskHost

(* The application threads do nothing.                                     *)
LEMMA ThreadsStayIdle ==
    ASSUME ThreadsIdle, [NextRequests]_<<vars, buildVars>>
    PROVE  ThreadsIdle'
PROOF
<1>1. UNCHANGED threadVars
  <2>1. CASE SubscriberStep
    BY <2>1 DEF SubscriberStep, Connect, InitShardedState, InitNewRing, InitRing,
       ConnectSubs, Subscribe, SubscribeAgain, SendSubscribe, Receive, LockWrite, HandleStart,
       HandleNormal, HandleChange, UnlockWrite
  <2>2. CASE FinishBuild \/ SubsBreak \/ Publish \/ OperatorBetween \/ UNCHANGED vars
    BY <2>2 DEF FinishBuild, SubsBreak, Publish, OperatorBetween, OperatorStep, vars
  <2> QED
    BY <2>1, <2>2, StepsOfRequests
<1> QED
  BY <1>1 DEF ThreadsIdle, threadVars

-----------------------------------------------------------------------------
(* The type invariant.                                                     *)

InfosOK == infos \in UNION {[N -> Infos] : N \in SUBSET Names}

BuildTypeOK == TypeOK /\ InfosOK

LEMMA FinishType ==
    ASSUME TypeOK, InfosOK, FinishBuild
    PROVE  TypeOK'
PROOF
<1> DEFINE r == TargetRing
           Same == [ok |-> adds # {}, ring |-> ring[r]]
           listening == {n \in DOMAIN infos : Port(infos[n]) # 0}
           Rebuilt(up) == [ok |-> up # {},
                           ring |-> [hosts |-> [n \in up |-> Address(infos[n])],
                                     freed |-> ring[r].freed + 1]]
<1>1. PICK out \in BuildOutcomes(r) :
          /\ InitSharded(r, AddressHash, out)
          /\ pc' = IF Handling THEN "unlock"
                   ELSE IF ~out.ok THEN "failed"
                   ELSE IF pc = "ring_new" THEN "ring" ELSE "subs"
          /\ state' = IF Handling /\ msg = "syning" /\ out.ok THEN "syning" ELSE state
  BY DEF FinishBuild
<1>2. r \in Rings
  BY DEF TypeOK, TargetRing
<1>3. ring[r] \in RingState /\ ring[r].freed \in Nat
  BY <1>2 DEF TypeOK, RingState
<1>4. out = Same \/ \E up \in SUBSET listening : out = Rebuilt(up)
  BY <1>1 DEF BuildOutcomes
<1>5. out.ring \in RingState
  <2>1. CASE out = Same
    BY <1>3, <2>1
  <2>2. ASSUME NEW up \in SUBSET listening, out = Rebuilt(up) PROVE out.ring \in RingState
    <3>1. PICK N \in SUBSET Names : infos \in [N -> Infos]
      BY DEF InfosOK
    <3>2. \A n \in up : Address(infos[n]) \in Servers /\ n \in Names
      BY <3>1, InfoType
    <3>3. [n \in up |-> Address(infos[n])] \in Hosts /\ ring[r].freed + 1 \in Nat
      BY <1>3, <3>2 DEF Hosts
    <3> QED
      BY <2>2, <3>3, RingStateType
  <2> HIDE DEF Same, Rebuilt
  <2> QED
    BY <1>4, <2>1, <2>2
<1>6. ring' \in [Rings -> RingState]
  BY <1>1, <1>2, <1>5 DEF InitSharded, TypeOK
<1>7. excuse' \in {"none", "degraded", "raced", "late", "overtaken"}
  BY <1>1, ExcuseType DEF InitSharded
<1>8. state' \in Config!Status /\ pc' \in {"unlock", "failed", "ring", "subs"}
  BY <1>1 DEF TypeOK, Config!Status
<1>9. UNCHANGED <<configVars, lock, msg, stream, subscribed, sharded, sharded_new,
                  threadVars>>
  BY DEF FinishBuild
<1> HIDE DEF r, Same, Rebuilt
<1> QED
  BY <1>6, <1>7, <1>8, <1>9, TypeOfUnchanged DEF TypeOK, threadVars, Startup

LEMMA NoInfos == NoHosts \in UNION {[N -> Infos] : N \in SUBSET Names}
PROOF
<1>1. NoHosts \in [{} -> Infos]
  BY DEF NoHosts
<1> QED
  BY <1>1

LEMMA BuildTypeNext ==
    ASSUME BuildTypeOK, [NextRequests]_<<vars, buildVars>>
    PROVE  BuildTypeOK'
PROOF
<1> USE DEF BuildTypeOK
<1>1. TypeOK'
  <2>1. CASE UNCHANGED vars \/ SubscriberStep \/ SubsBreak \/ Publish \/ OperatorBetween
    <3>1. [Next]_vars
      BY <2>1 DEF Next, OperatorBetween
    <3> QED
      BY <3>1, TypeNext
  <2>2. CASE FinishBuild
    BY <2>2, FinishType
  <2> QED
    BY <2>1, <2>2, StepsOfRequests
<1>2. InfosOK'
  <2>1. CASE AskHost /\ ~UNCHANGED infos
    <3> DEFINE name == NextName
               info == ShardInfo(Split(AddressHash[name], ":", 2).vec)
    <3>1. /\ name \in Names /\ info \in Infos
          /\ infos' = [n \in DOMAIN infos \cup {name} |->
                          IF n = name THEN info ELSE infos[n]]
      BY <2>1, HostFound
    <3> HIDE DEF name, info
    <3>2. PICK N \in SUBSET Names : infos \in [N -> Infos]
      BY DEF InfosOK
    <3>3. N \cup {name} \in SUBSET Names
      BY <3>1, <3>2
    <3>4. infos' \in [N \cup {name} -> Infos]
      BY <3>1, <3>2
    <3> QED
      BY <3>3, <3>4 DEF InfosOK
  <2>2. CASE FinishBuild
    BY <2>2, NoInfos DEF FinishBuild, InfosOK
  <2>3. UNCHANGED infos \/ FinishBuild \/ AskHost
    BY DEF NextRequests, ListHosts, OperatorBetween, buildVars
  <2> QED
    BY <2>1, <2>2, <2>3 DEF InfosOK
<1> QED
  BY <1>1, <1>2

LEMMA BuildTypeInit == InitRequests => BuildTypeOK /\ ThreadsIdle
  BY TypeInit, NoInfos DEF InitRequests, BuildTypeOK, InfosOK, ThreadsIdle, Init

LEMMA BuildTypeInvariant == SpecRequests => [](BuildTypeOK /\ ThreadsIdle)
PROOF
<1>1. QED
  BY BuildTypeInit, BuildTypeNext, ThreadsStayIdle, PTL DEF SpecRequests

(* The type invariant, when the requests are apart.                        *)
THEOREM RequestsTypeCorrect == SpecRequests => []TypeOK
PROOF
<1>1. BuildTypeOK => TypeOK
  BY DEF BuildTypeOK
<1> QED
  BY <1>1, BuildTypeInvariant, PTL

-----------------------------------------------------------------------------
(* A build without an excuse.  What was found so far is part of the hash   *)
(* as it is now, and of no other: an operator step that is no race does not*)
(* touch the hash that is being read.                                      *)

FoundNow ==
    /\ adds \in {{}, DOMAIN AddressHash}
    /\ \A n \in DOMAIN infos :
          /\ n \in WellFormed(AddressHash)
          /\ infos[n] = ShardInfo(Split(AddressHash[n], ":", 2).vec)

BuildInv ==
    /\ ~listed => infos = NoHosts
    /\ listed => Building
    /\ listed /\ excuse = "none" => FoundNow

LEMMA BuildInit == InitRequests => BuildInv
  BY DEF InitRequests, BuildInv

(* An operator step that is no excuse.                                     *)
LEMMA OperatorKeepsHash ==
    ASSUME OperatorStep, Building, excuse' = "none"
    PROVE  AddressHash' = AddressHash /\ Building' /\ excuse = "none"
PROOF
<1>1. UNCHANGED <<subsVars, ringVars>>
  BY DEF OperatorStep
<1>2. pc \notin {"ring_new", "ring"}
  BY DEF OperatorStep, Excuse, StartWindow
<1>3. pc = "handle" /\ msg \in {"syning", "change"}
  BY <1>2 DEF Building, Starting, Handling
<1>4. Unread \cap {"syning", "change"} # {} /\ pc \notin StartWindow
  BY <1>3 DEF Unread, StartWindow
<1>5. cfg'.address = cfg.address /\ excuse = "none"
  BY <1>4 DEF OperatorStep, Excuse
<1> QED
  BY <1>1, <1>3, <1>5 DEF AddressHash, Building, Starting, Handling, subsVars

LEMMA BuildNext ==
    ASSUME BuildTypeOK, BuildInv, [NextRequests]_<<vars, buildVars>>
    PROVE  BuildInv'
PROOF
<1> USE DEF BuildInv
<1>1. CASE ListHosts
  <2>1. /\ Building /\ listed' /\ infos' = infos /\ infos = NoHosts
        /\ adds' \in {{}, DOMAIN AddressHash} /\ UNCHANGED vars
    BY <1>1 DEF ListHosts
  <2>2. Building' /\ AddressHash' = AddressHash
    BY <2>1 DEF Building, Starting, Handling, AddressHash, vars, subsVars, configVars, ringVars
  <2>3. DOMAIN NoHosts = {}
    BY DEF NoHosts
  <2> QED
    BY <2>1, <2>2, <2>3 DEF FoundNow
<1>2. CASE AskHost
  <2>1. Building /\ listed /\ listed' = listed /\ adds' = adds /\ UNCHANGED vars
    BY <1>2 DEF AskHost
  <2>2. Building' /\ AddressHash' = AddressHash /\ excuse' = excuse
    BY <2>1 DEF Building, Starting, Handling, AddressHash, vars, subsVars, configVars, ringVars
  <2>3. CASE UNCHANGED infos
    BY <2>1, <2>2, <2>3 DEF FoundNow
  <2>4. CASE ~UNCHANGED infos
    <3> DEFINE name == NextName
    <3>1. /\ name \in WellFormed(AddressHash)
          /\ infos' = [n \in DOMAIN infos \cup {name} |->
                          IF n = name THEN ShardInfo(Split(AddressHash[name], ":", 2).vec)
                          ELSE infos[n]]
      BY <1>2, <2>4, HostFound DEF BuildTypeOK
    <3> HIDE DEF name
    <3> QED
      BY <2>1, <2>2, <3>1 DEF FoundNow
  <2> QED
    BY <2>3, <2>4
<1>3. CASE FinishBuild
  BY <1>3 DEF FinishBuild
<1>4. CASE OperatorBetween
  <2>1. UNCHANGED <<listed, adds, infos>> /\ OperatorStep
    BY <1>4 DEF OperatorBetween, buildVars
  <2>2. Building' = Building
    BY <2>1 DEF OperatorStep, Building, Starting, Handling, subsVars
  <2>3. ASSUME listed, excuse' = "none" PROVE FoundNow'
    <3>1. AddressHash' = AddressHash /\ excuse = "none"
      BY <2>1, <2>3, OperatorKeepsHash
    <3> QED
      BY <2>1, <2>3, <3>1 DEF FoundNow
  <2> QED
    BY <2>1, <2>2, <2>3
<1>5. CASE ~Building /\ UNCHANGED buildVars
  BY <1>5 DEF buildVars
<1>6. CASE (SubsBreak \/ Publish) /\ UNCHANGED buildVars
  <2>1. CASE SubsBreak
    <3>1. ~Building
      BY <2>1 DEF SubsBreak, Building, Starting, Handling
    <3> QED
      BY <1>6, <3>1 DEF buildVars
  <2>2. CASE Publish
    <3>1. UNCHANGED <<pc, msg, cfg, state>>
      BY <2>2 DEF Publish, Config!Publish, ringVars
    <3>2. Building' = Building /\ AddressHash' = AddressHash
      BY <3>1 DEF Building, Starting, Handling, AddressHash
    <3>3. excuse' = "none" => excuse = "none"
      BY <2>2 DEF Publish, Excuse
    <3> QED
      BY <1>6, <3>2, <3>3 DEF FoundNow, buildVars
  <2> QED
    BY <1>6, <2>1, <2>2
<1>7. CASE UNCHANGED <<vars, buildVars>>
  <2>1. Building' = Building /\ AddressHash' = AddressHash /\ excuse' = excuse
    BY <1>7 DEF Building, Starting, Handling, AddressHash, vars, subsVars, configVars, ringVars
  <2> QED
    BY <1>7, <2>1 DEF FoundNow, buildVars
<1> QED
  BY <1>1, <1>2, <1>3, <1>4, <1>5, <1>6, <1>7 DEF NextRequests

LEMMA BuildInvariant == SpecRequests => [](BuildTypeOK /\ ThreadsIdle /\ BuildInv)
PROOF
<1>1. QED
  BY BuildInit, BuildNext, BuildTypeInvariant, PTL DEF SpecRequests

(* Then the outcome is one of those that a build in one step has.          *)
LEMMA OutcomeIsAtomic ==
    ASSUME TypeOK, FoundNow, InfosOK, NEW r \in Rings, NEW out \in BuildOutcomes(r)
    PROVE  out \in InitOutcomes(r, AddressHash)
PROOF
<1> DEFINE table == AddressHash
<1>1. CASE infos = NoHosts
  <2>1. out = [ok |-> adds # {}, ring |-> ring[r]]
    BY <1>1 DEF BuildOutcomes
  <2>2. (adds # {}) \in {FALSE, DOMAIN table # {}}
    BY DEF FoundNow
  <2> HIDE DEF table
  <2> QED
    BY <2>1, <2>2 DEF InitOutcomes, table
<1>2. CASE infos # NoHosts
  <2>1. PICK up \in SUBSET {n \in DOMAIN infos : Port(infos[n]) # 0} :
            out = [ok |-> up # {},
                   ring |-> [hosts |-> [n \in up |-> Address(infos[n])],
                             freed |-> ring[r].freed + 1]]
    BY <1>2 DEF BuildOutcomes
  <2>2. up \in SUBSET WellFormed(table)
    BY DEF FoundNow
  <2>3. [n \in up |-> Address(infos[n])] = [n \in up |-> table[n]]
    <3>1. \A n \in up : Address(infos[n]) = table[n]
      BY AddressHashType, AnswerIsAddress DEF FoundNow, WellFormed
    <3> QED
      BY <3>1
  <2> HIDE DEF table
  <2>4. CASE WellFormed(table) # {}
    <3>1. up \in {u \in SUBSET WellFormed(table) : WellFormed(table) # {}}
      BY <2>2, <2>4
    <3> QED
      BY <2>1, <2>3, <3>1 DEF InitOutcomes, table
  <2>5. CASE WellFormed(table) = {}
    <3>1. PICK N \in SUBSET Names : infos \in [N -> Infos]
      BY DEF InfosOK
    <3>2. N = {}
      BY <2>5, <3>1 DEF FoundNow, table
    <3> QED
      BY <1>2, <3>1, <3>2 DEF NoHosts
  <2> QED
    BY <2>4, <2>5
<1> QED
  BY <1>1, <1>2

(* So the end of a build without an excuse is one step of DataCenter.      *)
LEMMA FinishIsAtomic ==
    ASSUME BuildTypeOK, FoundNow, FinishBuild
    PROVE  InitNewRing \/ InitRing \/ HandleStart \/ HandleChange
PROOF
<1>1. PICK out \in BuildOutcomes(TargetRing) :
          /\ InitSharded(TargetRing, AddressHash, out)
          /\ pc' = IF Handling THEN "unlock"
                   ELSE IF ~out.ok THEN "failed"
                   ELSE IF pc = "ring_new" THEN "ring" ELSE "subs"
          /\ state' = IF Handling /\ msg = "syning" /\ out.ok THEN "syning" ELSE state
  BY DEF FinishBuild
<1>2. TargetRing \in Rings
  BY DEF BuildTypeOK, TypeOK, TargetRing
<1>3. out \in InitOutcomes(TargetRing, AddressHash)
  BY <1>2, OutcomeIsAtomic DEF BuildTypeOK
<1>4. /\ Building
      /\ UNCHANGED <<configVars, lock, msg, stream, subscribed, sharded, sharded_new,
                     threadVars>>
  BY DEF FinishBuild
<1>5. CASE pc = "ring_new"
  <2>1. TargetRing = sharded_new /\ AddressHash = cfg.address /\ ~Handling
    BY <1>5 DEF TargetRing, AddressHash, Handling
  <2>2. pc' = (IF out.ok THEN "ring" ELSE "failed") /\ state' = state
    BY <1>1, <1>5, <2>1
  <2> QED
    BY <1>1, <1>3, <1>4, <1>5, <2>1, <2>2 DEF InitNewRing
<1>6. CASE pc = "ring"
  <2>1. TargetRing = sharded /\ ~Handling
        /\ AddressHash = IF state = "syning" THEN cfg.oldaddress ELSE cfg.address
    BY <1>6 DEF TargetRing, AddressHash, Handling
  <2>2. pc' = (IF out.ok THEN "subs" ELSE "failed") /\ state' = state
    BY <1>1, <1>6, <2>1
  <2> QED
    BY <1>1, <1>3, <1>4, <1>6, <2>1, <2>2 DEF InitRing
<1>7. CASE pc = "handle" /\ msg = "syning"
  <2>1. TargetRing = sharded_new /\ AddressHash = cfg.address /\ Handling
    BY <1>7 DEF TargetRing, AddressHash, Handling
  <2> QED
    BY <1>1, <1>3, <1>4, <1>7, <2>1 DEF HandleStart
<1>8. CASE pc = "handle" /\ msg = "change"
  <2>1. TargetRing = sharded /\ AddressHash = cfg.address /\ Handling
    BY <1>8 DEF TargetRing, AddressHash, Handling
  <2>2. state' = state
    BY <1>1, <1>8
  <2> QED
    BY <1>1, <1>3, <1>4, <1>8, <2>1, <2>2 DEF HandleChange
<1> QED
  BY <1>4, <1>5, <1>6, <1>7, <1>8 DEF Building, Starting, Handling

LEMMA NextWithoutExcuse ==
    ASSUME BuildTypeOK, BuildInv, [NextRequests]_<<vars, buildVars>>, excuse = "none"
    PROVE  [Next]_vars
PROOF
<1>1. CASE FinishBuild
  <2>1. FoundNow
    BY <1>1 DEF FinishBuild, BuildInv
  <2> QED
    BY <1>1, <2>1, FinishIsAtomic DEF Next, SubscriberStep
<1>2. CASE UNCHANGED vars \/ SubscriberStep \/ SubsBreak \/ Publish \/ OperatorBetween
  BY <1>2 DEF Next, OperatorBetween
<1> QED
  BY <1>1, <1>2, StepsOfRequests

(* A client that neither raced with the operator nor was overtaken cannot  *)
(* tell that a ring is built from several requests.                        *)
THEOREM BuildsLookAtomic == SpecRequests => LooksAtomic
PROOF
<1>1. BuildTypeOK /\ BuildInv /\ [NextRequests]_<<vars, buildVars>>
        => [excuse = "none" => Next \/ UNCHANGED vars]_<<vars, buildVars>>
  BY NextWithoutExcuse
<1> QED
  BY <1>1, BuildInvariant, PTL DEF SpecRequests, LooksAtomic

-----------------------------------------------------------------------------
(* What is proved of a client without an excuse in DataCenter holds here.  *)

LEMMA ExcuseStaysHere ==
    ASSUME [NextRequests]_<<vars, buildVars>>, excuse' = "none"
    PROVE  excuse = "none"
PROOF
<1>1. CASE FinishBuild
  BY <1>1 DEF FinishBuild, InitSharded, Excuse
<1>2. CASE UNCHANGED vars \/ SubscriberStep \/ SubsBreak \/ Publish \/ OperatorBetween
  <2>1. [Next]_vars
    BY <1>2 DEF Next, OperatorBetween
  <2> QED
    BY <2>1, ExcuseStays
<1> QED
  BY <1>1, <1>2, StepsOfRequests

LEMMA PhaseOfRequests == SpecRequests => []PhaseInv
PROOF
<1>1. InitRequests => PhaseInv
  BY PhaseInit DEF InitRequests
<1>2. BuildTypeOK /\ ThreadsIdle /\ BuildInv /\ PhaseInv
        /\ [NextRequests]_<<vars, buildVars>> => PhaseInv'
  <2> SUFFICES ASSUME BuildTypeOK, ThreadsIdle, BuildInv, PhaseInv,
                      [NextRequests]_<<vars, buildVars>>
               PROVE  PhaseInv'
    OBVIOUS
  <2>1. CASE excuse = "none"
    <3>1. [Next]_vars
      BY <2>1, NextWithoutExcuse
    <3> QED
      BY <3>1, PhaseNext DEF BuildTypeOK, ThreadsIdle
  <2>2. CASE excuse # "none"
    <3>1. excuse' # "none"
      BY <2>2, ExcuseStaysHere
    <3> QED
      BY <3>1 DEF PhaseInv
  <2> QED
    BY <2>1, <2>2
<1> QED
  BY <1>1, <1>2, BuildInvariant, PTL DEF SpecRequests

(* A client that started in a quiet moment, reached every host and was not *)
(* overtaken uses, once it has caught up, the hosts of the configuration,  *)
(* although its rings are built request by request.                        *)
THEOREM RequestsFollowConfig == SpecRequests => []FollowsConfig
PROOF
<1>1. QED
  BY PhaseOfRequests, PhaseFollows, PTL

(* At every moment such a client has an owner for every key.               *)
THEOREM RequestsHaveOwner == SpecRequests => []AlwaysHasOwner
PROOF
<1>1. QED
  BY PhaseOfRequests, PhaseHasOwner, PTL

-----------------------------------------------------------------------------
(* Repair.  Excuses play no part any more.  The order of the messages: what*)
(* the client has yet to hear of is in its stream or about to be published,*)
(* and its last build is right unless another one is still to come.        *)

(* No message after the i-th one has a handler that reads the addresses.   *)
Silent(q, i) == \A j \in i + 1 .. Len(q) : q[j] \notin Reads

(* A later message swaps the rings.                                        *)
Swaps(q, i) == \E j \in i + 1 .. Len(q) : q[j] = "normal"

(* The same of all that is sent or will be.                                *)
LastBuild(i)  == Silent(stream, i) /\ pending \notin Reads
SwapsAfter(i) == Swaps(stream, i) \/ pending = "normal"

(* How the status can have gone on since message m, if nothing after it    *)
(* asks for a build.                                                       *)
Ends(m, i) ==
    LastBuild(i) =>
        /\ m \in {"normal", "change"} => cfg.status = m /\ ~SwapsAfter(i)
        /\ m \in InResharding => cfg.status \in InResharding \/ SwapsAfter(i)

OrderInv ==
    /\ pending # NoMessage => cfg.status = pending
    /\ ~subscribed => stream = <<>>
    /\ pc \in Listening => subscribed
    /\ \A i \in 1 .. Len(stream) : Ends(stream[i], i)
    /\ pc \in {"wrlock", "handle"} =>
          msg \in {"syning", "normal", "change"} /\ Ends(msg, 0)

InHand(messages) == pc \in {"wrlock", "handle"} /\ msg \in messages

(* The hosts are, or after the swap will be, where they are looked for.    *)
Right ==
    IF SwapsAfter(0) \/ InHand({"normal"}) \/ cfg.status \in InResharding
    THEN state = "syning" /\ ring[sharded_new].hosts = Usable(cfg.address)
    ELSE /\ ring[sharded].hosts = Usable(cfg.address)
         /\ cfg.status = "normal" => state = "normal"

(* So far the build left out nothing.                                      *)
FoundAll ==
    /\ adds = DOMAIN cfg.address
    /\ \A n \in asked : n \in WellFormed(cfg.address) => n \in DOMAIN infos
    /\ \A n \in DOMAIN infos :
          /\ n \in WellFormed(cfg.address)
          /\ infos[n] = ShardInfo(Split(cfg.address[n], ":", 2).vec)

RepairInv ==
    /\ sharded # sharded_new
    /\ ~listed => asked = {}
    /\ repaired => pc \in Listening \cup {"deaf"}
    /\ repaired /\ pc \in Listening /\ LastBuild(0) =>
          IF InHand(Reads) THEN listed => FoundAll ELSE Right

-----------------------------------------------------------------------------
(* Messages that come and go.                                              *)

LEMMA AfterTail ==
    ASSUME NEW S, NEW q \in Seq(S), q # <<>>, NEW i \in Nat
    PROVE  /\ Silent(Tail(q), i) <=> Silent(q, i + 1)
           /\ Swaps(Tail(q), i) <=> Swaps(q, i + 1)
           /\ Silent(q, 0) <=> Head(q) \notin Reads /\ Silent(q, 1)
           /\ Swaps(q, 0) <=> Head(q) = "normal" \/ Swaps(q, 1)
PROOF
<1>1. /\ Len(q) \in Nat \ {0} /\ Len(Tail(q)) = Len(q) - 1 /\ Head(q) = q[1]
      /\ \A j \in 1 .. Len(Tail(q)) : Tail(q)[j] = q[j + 1]
  BY HeadTailProperties, EmptySeq
<1> DEFINE t == Tail(q)
<1>2. \A j \in i + 1 .. Len(t) : j + 1 \in i + 1 + 1 .. Len(q) /\ t[j] = q[j + 1]
  BY <1>1
<1>3. \A j \in i + 1 + 1 .. Len(q) : j - 1 \in i + 1 .. Len(t) /\ t[j - 1] = q[j]
  <2> SUFFICES ASSUME NEW j \in i + 1 + 1 .. Len(q)
               PROVE  j - 1 \in i + 1 .. Len(t) /\ t[j - 1] = q[j]
    OBVIOUS
  <2>1. j - 1 \in 1 .. Len(t) /\ j - 1 \in i + 1 .. Len(t) /\ (j - 1) + 1 = j
    BY <1>1
  <2> QED
    BY <1>1, <2>1
<1> HIDE DEF t
<1>4. Silent(t, i) <=> Silent(q, i + 1)
  BY <1>2, <1>3 DEF Silent
<1>5. Swaps(t, i) <=> Swaps(q, i + 1)
  BY <1>2, <1>3 DEF Swaps
<1>6. 0 + 1 .. Len(q) = {1} \cup (1 + 1 .. Len(q))
  BY <1>1
<1> QED
  BY <1>1, <1>4, <1>5, <1>6 DEF Silent, Swaps, t

LEMMA AfterAppend ==
    ASSUME NEW S, NEW q \in Seq(S), NEW e \in S, NEW i \in 0 .. Len(q)
    PROVE  /\ Silent(Append(q, e), i) <=> Silent(q, i) /\ e \notin Reads
           /\ Swaps(Append(q, e), i) <=> Swaps(q, i) \/ e = "normal"
           /\ Silent(Append(q, e), Len(q) + 1)
           /\ ~Swaps(Append(q, e), Len(q) + 1)
PROOF
<1> DEFINE n == Len(q)
           p == Append(q, e)
<1>1. /\ n \in Nat /\ Len(p) = n + 1 /\ p[n + 1] = e
      /\ \A j \in 1 .. n : p[j] = q[j]
  BY AppendProperties, LenProperties
<1>2. i + 1 .. n + 1 = (i + 1 .. n) \cup {n + 1} /\ n + 1 + 1 .. n + 1 = {}
  BY <1>1
<1>3. \A j \in i + 1 .. n : p[j] = q[j]
  BY <1>1
<1> HIDE DEF n, p
<1> QED
  BY <1>1, <1>2, <1>3 DEF Silent, Swaps, n, p

LEMMA StatusValues ==
    ASSUME TypeOK
    PROVE  /\ stream \in Seq(Replies) /\ cfg.status \in Status
           /\ pending \in Status \cup {NoMessage}
           /\ NoMessage \notin Status /\ NoMessage \notin Reads
           /\ Status \subseteq Replies
  BY PendingType, ConfigAssumption
  DEF TypeOK, Config!TypeOK, Config!Status, Status, Reads, Replies

(* A step that neither hears anything nor lets anything be heard.          *)
LEMMA OrderStays ==
    ASSUME OrderInv, UNCHANGED <<configVars, stream, subscribed>>,
           pc' \in Listening => pc \in Listening,
           pc' \in {"wrlock", "handle"} => pc \in {"wrlock", "handle"} /\ msg' = msg
    PROVE  OrderInv'
PROOF
<1>1. \A m : \A i : Ends(m, i)' <=> Ends(m, i)
  BY DEF Ends, LastBuild, SwapsAfter, configVars
<1> QED
  BY <1>1 DEF OrderInv, configVars

(* A refused or repeated subscription reads the first thing on the         *)
(* connection, and what it adds is no message.                             *)
LEMMA OrderSubscribe ==
    ASSUME TypeOK, OrderInv, NEW reply \in Acknowledgements, SendSubscribe(reply),
           pc' \in {"subscribe", "subscribe_again", "receive"},
           pc' = "receive" => Head(Append(stream, reply)) # "error"
    PROVE  OrderInv'
PROOF
<1> DEFINE more == Append(stream, reply)
<1>1. /\ reply \in Replies /\ reply \notin Reads /\ reply # "normal"
      /\ reply \notin InResharding /\ reply \notin {"normal", "change"}
  BY DEF Acknowledgements, Replies, Reads, InResharding
<1>2. /\ stream \in Seq(Replies) /\ Len(stream) \in Nat
      /\ stream' = Tail(more) /\ UNCHANGED <<configVars, msg>>
      /\ subscribed' = (subscribed \/ reply = "ack")
  BY StatusValues, LenProperties DEF SendSubscribe
<1>3. /\ more \in Seq(Replies) /\ more # <<>> /\ Len(more) = Len(stream) + 1
      /\ more[Len(stream) + 1] = reply
      /\ \A j \in 1 .. Len(stream) : more[j] = stream[j]
  BY <1>1, <1>2, AppendProperties
<1>4. Len(Tail(more)) = Len(stream) /\ \A j \in 1 .. Len(stream) : Tail(more)[j] = more[j + 1]
  BY <1>2, <1>3, HeadTailProperties
<1>5. ASSUME NEW i \in 1 .. Len(stream') PROVE Ends(stream[i], i)'
  <2>1. i \in 1 .. Len(stream) /\ i + 1 \in 1 .. Len(stream) + 1 /\ stream'[i] = more[i + 1]
    BY <1>2, <1>4, <1>5
  <2>2. CASE i + 1 = Len(stream) + 1
    <3>1. stream'[i] = reply
      BY <1>3, <2>1, <2>2
    <3> QED
      BY <1>1, <3>1 DEF Ends
  <2>3. CASE i + 1 # Len(stream) + 1
    <3>1. i + 1 \in 1 .. Len(stream) /\ stream'[i] = stream[i + 1]
      BY <1>2, <1>3, <2>1, <2>3
    <3>2. Ends(stream[i + 1], i + 1)
      BY <3>1 DEF OrderInv
    <3>3. /\ Silent(stream', i) <=> Silent(more, i + 1)
          /\ Swaps(stream', i) <=> Swaps(more, i + 1)
      <4>1. i \in Nat
        BY <1>2, <2>1
      <4> QED
        BY <1>2, <1>3, <4>1, AfterTail
    <3>4. /\ Silent(more, i + 1) <=> Silent(stream, i + 1)
          /\ Swaps(more, i + 1) <=> Swaps(stream, i + 1)
      <4>1. i + 1 \in 0 .. Len(stream)
        BY <1>2, <3>1
      <4> QED
        BY <1>1, <1>2, <4>1, AfterAppend
    <3>5. /\ LastBuild(i)' <=> LastBuild(i + 1)
          /\ SwapsAfter(i)' <=> SwapsAfter(i + 1)
      BY <1>2, <3>3, <3>4 DEF LastBuild, SwapsAfter, configVars
    <3> QED
      BY <1>2, <3>1, <3>2, <3>5 DEF Ends, configVars
  <2> QED
    BY <2>2, <2>3
<1>6. ~subscribed' => stream' = <<>>
  <2> SUFFICES ASSUME ~subscribed' PROVE stream' = <<>>
    OBVIOUS
  <2>1. stream = <<>>
    BY <1>2 DEF OrderInv
  <2> QED
    BY <1>2, <1>4, <1>3, <2>1, EmptySeq, HeadTailProperties
<1>7. pc' = "receive" => subscribed'
  <2> SUFFICES ASSUME pc' = "receive", ~subscribed PROVE reply = "ack"
    BY <1>2
  <2>1. stream = <<>>
    BY DEF OrderInv
  <2>2. Head(more) = reply
    BY <1>1, <2>1
  <2> QED
    BY <2>2 DEF Acknowledgements
<1> QED
  BY <1>2, <1>5, <1>6, <1>7 DEF OrderInv, Listening, configVars

LEMMA OrderReceive ==
    ASSUME TypeOK, OrderInv, Receive
    PROVE  OrderInv'
PROOF
<1>1. /\ pc = "receive" /\ stream # <<>> /\ stream' = Tail(stream)
      /\ UNCHANGED <<configVars, subscribed>>
      /\ \/ /\ Head(stream) \in {"syning", "normal", "change"}
            /\ pc' = "wrlock" /\ msg' = Head(stream)
         \/ pc' = "receive"
  BY DEF Receive
<1>2. /\ stream \in Seq(Replies) /\ Len(stream) \in Nat \ {0}
      /\ Len(Tail(stream)) = Len(stream) - 1 /\ Head(stream) = stream[1]
      /\ \A j \in 1 .. Len(Tail(stream)) : Tail(stream)[j] = stream[j + 1]
  BY <1>1, StatusValues, LenProperties, EmptySeq, HeadTailProperties
<1>3. ASSUME NEW i \in 0 .. Len(stream) - 1
      PROVE  (LastBuild(i)' <=> LastBuild(i + 1)) /\ (SwapsAfter(i)' <=> SwapsAfter(i + 1))
  <2>1. /\ Silent(stream', i) <=> Silent(stream, i + 1)
        /\ Swaps(stream', i) <=> Swaps(stream, i + 1)
    <3>1. i \in Nat
      BY <1>2
    <3> QED
      BY <1>1, <1>2, <3>1, AfterTail
  <2> QED
    BY <1>1, <2>1 DEF LastBuild, SwapsAfter, configVars
<1>4. ASSUME NEW i \in 1 .. Len(stream') PROVE Ends(stream[i], i)'
  <2>1. stream'[i] = stream[i + 1] /\ i + 1 \in 1 .. Len(stream) /\ i \in 0 .. Len(stream) - 1
    BY <1>1, <1>2
  <2>2. Ends(stream[i + 1], i + 1)
    BY <2>1 DEF OrderInv
  <2>3. (LastBuild(i)' <=> LastBuild(i + 1)) /\ (SwapsAfter(i)' <=> SwapsAfter(i + 1))
    BY <1>3, <2>1
  <2> QED
    BY <1>1, <2>1, <2>2, <2>3 DEF Ends, configVars
<1>5. pc' = "wrlock" => Ends(msg, 0)'
  <2>1. Ends(stream[1], 1) /\ 0 \in 0 .. Len(stream) - 1 /\ 0 + 1 = 1
    BY <1>2 DEF OrderInv
  <2>2. (LastBuild(0)' <=> LastBuild(0 + 1)) /\ (SwapsAfter(0)' <=> SwapsAfter(0 + 1))
    BY <1>3, <2>1
  <2> QED
    BY <1>1, <1>2, <2>1, <2>2 DEF Ends, configVars
<1>6. subscribed
  BY <1>1 DEF OrderInv, Listening
<1> QED
  BY <1>1, <1>4, <1>5, <1>6 DEF OrderInv, configVars

LEMMA OrderOperator ==
    ASSUME TypeOK, OrderInv, OperatorStep
    PROVE  OrderInv'
PROOF
<1>1. PICK next, now, old :
          next \in Successors(cfg.status) /\ Config!Step(next, now, old)
  BY OperatorSteps DEF OperatorStep
<1>2. /\ pending = NoMessage /\ pending' = next /\ cfg'.status = next
      /\ UNCHANGED <<subsVars, ringVars>>
  BY <1>1 DEF OperatorStep, Config!Step
<1>3. /\ cfg.status \in Status /\ NoMessage \notin Reads /\ NoMessage \notin Status
  BY StatusValues
<1>4. \/ next \in Reads
      \/ next = "toconvert" /\ cfg.status = "syning"
      \/ next = "normal" /\ cfg.status = "toconvert"
  BY <1>1 DEF Successors, Reads
<1>5. ASSUME NEW m, NEW i, Ends(m, i)
      PROVE  LastBuild(i)' =>
                /\ m \in {"normal", "change"} => cfg'.status = m /\ ~SwapsAfter(i)'
                /\ m \in InResharding => cfg'.status \in InResharding \/ SwapsAfter(i)'
  <2> SUFFICES ASSUME LastBuild(i)'
               PROVE  /\ m \in {"normal", "change"} => cfg'.status = m /\ ~SwapsAfter(i)'
                      /\ m \in InResharding => cfg'.status \in InResharding \/ SwapsAfter(i)'
    OBVIOUS
  <2>1. next \notin Reads /\ LastBuild(i)
    BY <1>2, <1>3 DEF LastBuild, subsVars
  <2>2. m \notin {"normal", "change"}
    BY <1>4, <1>5, <2>1 DEF Ends
  <2>3. cfg'.status \in InResharding \/ SwapsAfter(i)'
    BY <1>2, <1>4, <2>1 DEF InResharding, SwapsAfter
  <2> QED
    BY <2>2, <2>3
<1>6. \A i \in 1 .. Len(stream) : Ends(stream[i], i)'
  BY <1>2, <1>5 DEF OrderInv, Ends, subsVars
<1>7. pc \in {"wrlock", "handle"} => Ends(msg, 0)'
  BY <1>2, <1>5 DEF OrderInv, Ends, subsVars
<1> QED
  BY <1>2, <1>6, <1>7 DEF OrderInv, subsVars

LEMMA OrderPublish ==
    ASSUME TypeOK, OrderInv, Publish
    PROVE  /\ OrderInv'
           /\ subscribed => (LastBuild(0)' <=> LastBuild(0))
           /\ subscribed => (SwapsAfter(0)' <=> SwapsAfter(0))
PROOF
<1>1. /\ pending # NoMessage /\ pending' = NoMessage
      /\ stream' = IF subscribed THEN Append(stream, pending) ELSE stream
      /\ UNCHANGED <<cfg, pc, msg, subscribed, ringVars>>
  BY DEF Publish, Config!Publish
<1>2. /\ stream \in Seq(Replies) /\ Len(stream) \in Nat /\ pending \in Replies
      /\ pending \in Status /\ cfg.status = pending /\ NoMessage \notin Reads
      /\ NoMessage # "normal"
  BY <1>1, StatusValues, LenProperties DEF OrderInv, Status
<1>3. CASE subscribed
  <2> DEFINE n == Len(stream)
  <2>1. /\ stream' = Append(stream, pending) /\ Len(stream') = n + 1
        /\ stream'[n + 1] = pending /\ \A i \in 1 .. n : stream'[i] = stream[i]
    BY <1>1, <1>2, <1>3, AppendProperties
  <2>2. ASSUME NEW i \in 0 .. n
        PROVE  (LastBuild(i)' <=> LastBuild(i)) /\ (SwapsAfter(i)' <=> SwapsAfter(i))
    <3>1. /\ Silent(stream', i) <=> Silent(stream, i) /\ pending \notin Reads
          /\ Swaps(stream', i) <=> Swaps(stream, i) \/ pending = "normal"
      BY <1>2, <2>1, AfterAppend
    <3> QED
      BY <1>1, <1>2, <3>1 DEF LastBuild, SwapsAfter
  <2>3. ~Swaps(stream', n + 1)
    <3>1. 0 \in 0 .. n
      BY <1>2
    <3> QED
      BY <1>2, <2>1, <3>1, AfterAppend
  <2>4. ASSUME NEW i \in 1 .. Len(stream') PROVE Ends(stream[i], i)'
    <3>1. CASE i \in 1 .. n
      <4>1. Ends(stream[i], i) /\ i \in 0 .. n
        BY <1>2, <3>1 DEF OrderInv
      <4> QED
        BY <1>1, <2>1, <2>2, <3>1, <4>1 DEF Ends
    <3>2. CASE i = n + 1
      <4>1. stream'[i] = pending /\ cfg'.status = pending /\ ~SwapsAfter(i)'
        BY <1>1, <1>2, <2>1, <2>3, <3>2 DEF SwapsAfter
      <4> QED
        BY <4>1 DEF Ends
    <3> QED
      BY <1>2, <2>1, <3>1, <3>2
  <2>5. 0 \in 0 .. n
    BY <1>2
  <2>6. pc \in {"wrlock", "handle"} => Ends(msg, 0)'
    BY <1>1, <2>2, <2>5 DEF OrderInv, Ends
  <2> QED
    BY <1>1, <1>3, <2>2, <2>4, <2>5, <2>6 DEF OrderInv
<1>4. CASE ~subscribed
  <2>1. stream = <<>> /\ stream' = <<>> /\ pc \notin Listening
    BY <1>1, <1>4 DEF OrderInv
  <2> QED
    BY <1>1, <1>4, <2>1 DEF OrderInv, Listening
<1> QED
  BY <1>3, <1>4

LEMMA OrderBreak ==
    ASSUME SubsBreak
    PROVE  OrderInv' <=> (pending # NoMessage => cfg.status = pending)
PROOF
<1>1. /\ pc' = "deaf" /\ ~subscribed' /\ stream' = <<>> /\ UNCHANGED configVars
  BY DEF SubsBreak
<1>2. 1 .. Len(stream') = {}
  BY <1>1
<1> QED
  BY <1>1, <1>2 DEF OrderInv, Listening, configVars

LEMMA OrderNext ==
    ASSUME TypeOK, OrderInv, [NextRequests]_<<vars, buildVars>>
    PROVE  OrderInv'
PROOF
<1>1. CASE UNCHANGED vars
  BY <1>1, OrderStays DEF vars, subsVars
<1>2. CASE FinishBuild
  <2>1. /\ UNCHANGED <<configVars, msg, stream, subscribed>>
        /\ pc' \in {"unlock", "failed", "ring", "subs"}
        /\ pc' = "unlock" => pc = "handle"
    BY <1>2 DEF FinishBuild, Handling
  <2> QED
    BY <2>1, OrderStays DEF Listening
<1>3. CASE Connect \/ InitShardedState \/ InitNewRing \/ InitRing \/ ConnectSubs
  <2>1. /\ UNCHANGED <<configVars, msg, stream, subscribed>>
        /\ pc' \in {"status", "ring_new", "ring", "subs", "subscribe", "failed"}
    BY <1>3 DEF Connect, InitShardedState, InitNewRing, InitRing, ConnectSubs
  <2> QED
    BY <2>1, OrderStays DEF Listening
<1>4. CASE LockWrite \/ HandleStart \/ HandleNormal \/ HandleChange \/ UnlockWrite
  <2>1. /\ UNCHANGED <<configVars, stream, subscribed>> /\ pc \in Listening
        /\ pc' \in {"wrlock", "handle"} => pc \in {"wrlock", "handle"} /\ msg' = msg
    BY <1>4 DEF LockWrite, HandleStart, HandleNormal, HandleChange, UnlockWrite, Listening
  <2> QED
    BY <2>1, OrderStays
<1>5. CASE Subscribe
  <2>1. PICK reply \in Acknowledgements : SendSubscribe(reply) /\ pc' = "subscribe_again"
    BY <1>5 DEF Subscribe
  <2> QED
    BY <2>1, OrderSubscribe
<1>6. CASE SubscribeAgain
  <2>1. PICK reply \in Acknowledgements :
            /\ SendSubscribe(reply)
            /\ pc' = IF Head(Append(stream, reply)) = "error" THEN "subscribe" ELSE "receive"
    BY <1>6 DEF SubscribeAgain
  <2> QED
    BY <2>1, OrderSubscribe
<1>7. CASE SubsBreak
  BY <1>7, OrderBreak DEF OrderInv
<1>8. CASE OperatorBetween
  BY <1>8, OrderOperator DEF OperatorBetween
<1> QED
  BY <1>1, <1>2, <1>3, <1>4, <1>5, <1>6, <1>7, <1>8, OrderReceive, OrderPublish,
     StepsOfRequests DEF SubscriberStep

-----------------------------------------------------------------------------
(* The last build.                                                         *)

(* Handling a message that asks for a build is Building.                   *)
LEMMA HandlingReads ==
    ASSUME pc = "handle"
    PROVE  /\ Building <=> InHand(Reads)
           /\ Handling <=> InHand(Reads)
           /\ Handling => AddressHash = cfg.address
  BY DEF Building, Starting, Handling, InHand, Reads, AddressHash

LEMMA RepairRequests ==
    ASSUME BuildTypeOK, BuildInv, RepairInv, ListHosts \/ AskHost
    PROVE  RepairInv'
PROOF
<1>1. UNCHANGED vars /\ Building /\ listed'
  BY DEF ListHosts, AskHost
<1>2. UNCHANGED <<configVars, pc, msg, stream, state, ring, sharded, sharded_new>>
  BY <1>1 DEF vars, subsVars, ringVars
<1>3. CASE Starting
  <2>1. pc \in {"ring_new", "ring"} /\ ~Handling /\ pc \notin Listening
    BY <1>3 DEF Starting, Handling, Listening
  <2>2. ~repaired'
    BY <2>1 DEF RepairInv, ListHosts, AskHost
  <2> QED
    BY <1>1, <1>2, <2>2 DEF RepairInv
<1>4. CASE Handling
  <2>1. pc = "handle" /\ InHand(Reads) /\ AddressHash = cfg.address /\ pc \in Listening
    BY <1>4, HandlingReads DEF Handling, Listening
  <2>2. InHand(Reads)' /\ (LastBuild(0)' <=> LastBuild(0)) /\ AddressHash' = cfg'.address
    BY <1>2, <2>1 DEF InHand, LastBuild, configVars, AddressHash
  <2>3. ASSUME repaired', LastBuild(0) PROVE FoundAll'
    <3>1. CASE ListHosts
      <4>1. /\ adds' = DOMAIN cfg.address /\ asked' = {} /\ infos' = NoHosts
            /\ DOMAIN NoHosts = {}
        BY <2>1, <2>3, <3>1 DEF ListHosts, RepairInv, BuildInv, NoHosts
      <4> QED
        BY <1>2, <4>1 DEF FoundAll, configVars
    <3>2. CASE AskHost
      <4>1. /\ listed /\ adds' = adds /\ asked' = asked \cup {NextName}
        BY <3>2 DEF AskHost
      <4>2. CASE UNCHANGED infos
        <5>1. repaired /\ (NextName \in WellFormed(cfg.address) => NextName \in DOMAIN infos)
          BY <2>1, <2>3, <3>2, <4>2, HostNotFound DEF BuildTypeOK
        <5>2. FoundAll
          BY <2>1, <2>3, <4>1, <5>1 DEF RepairInv
        <5> QED
          BY <1>2, <4>1, <4>2, <5>1, <5>2 DEF FoundAll, configVars
      <4>3. CASE ~UNCHANGED infos
        <5> DEFINE name == NextName
        <5>1. /\ repaired /\ name \in WellFormed(cfg.address)
              /\ infos' = [n \in DOMAIN infos \cup {name} |->
                              IF n = name
                              THEN ShardInfo(Split(cfg.address[name], ":", 2).vec)
                              ELSE infos[n]]
          BY <2>1, <2>3, <3>2, <4>3, HostFound DEF BuildTypeOK
        <5>2. FoundAll
          BY <2>1, <2>3, <4>1, <5>1 DEF RepairInv
        <5>3. asked' = asked \cup {name}
          BY <4>1
        <5> HIDE DEF name
        <5> QED
          BY <1>2, <4>1, <5>1, <5>2, <5>3 DEF FoundAll, configVars
      <4> QED
        BY <4>2, <4>3
    <3> QED
      BY <3>1, <3>2
  <2> QED
    BY <1>1, <1>2, <2>1, <2>2, <2>3 DEF RepairInv
<1> QED
  BY <1>1, <1>3, <1>4 DEF Building

(* Everything was found, and every host of it was connected.               *)
LEMMA AllHosts ==
    ASSUME BuildTypeOK, FoundAll, asked = adds,
           NEW out \in BuildOutcomes(TargetRing), infos # NoHosts,
           DOMAIN out.ring.hosts = DOMAIN infos
    PROVE  out.ok /\ out.ring.hosts = Usable(cfg.address)
PROOF
<1>1. DOMAIN infos = WellFormed(cfg.address)
  BY DEF FoundAll, WellFormed
<1>2. PICK up \in SUBSET {n \in DOMAIN infos : Port(infos[n]) # 0} :
          out = [ok |-> up # {},
                 ring |-> [hosts |-> [n \in up |-> Address(infos[n])],
                           freed |-> ring[TargetRing].freed + 1]]
  BY DEF BuildOutcomes
<1>3. up = WellFormed(cfg.address)
  BY <1>1, <1>2
<1>4. \A n \in up : Address(infos[n]) = cfg.address[n]
  BY <1>2, <1>3, AddressType, AnswerIsAddress DEF FoundAll, BuildTypeOK, WellFormed
<1>5. out.ring.hosts = Usable(cfg.address)
  BY <1>2, <1>3, <1>4 DEF Usable
<1>6. up # {}
  <2>1. PICK N \in SUBSET Names : infos \in [N -> Infos]
    BY DEF BuildTypeOK, InfosOK
  <2> QED
    BY <1>1, <1>3, <2>1 DEF NoHosts
<1> QED
  BY <1>2, <1>5, <1>6

LEMMA RepairFinish ==
    ASSUME BuildTypeOK, BuildInv, OrderInv, RepairInv, FinishBuild
    PROVE  RepairInv'
PROOF
<1>1. PICK out \in BuildOutcomes(TargetRing) :
          /\ InitSharded(TargetRing, AddressHash, out)
          /\ pc' = IF Handling THEN "unlock"
                   ELSE IF ~out.ok THEN "failed"
                   ELSE IF pc = "ring_new" THEN "ring" ELSE "subs"
          /\ state' = IF Handling /\ msg = "syning" /\ out.ok THEN "syning" ELSE state
          /\ repaired' = (repaired /\ infos # NoHosts /\ DOMAIN out.ring.hosts = DOMAIN infos)
  BY DEF FinishBuild
<1>2. /\ Building /\ listed /\ asked = adds /\ ~listed' /\ asked' = {}
      /\ UNCHANGED <<configVars, msg, stream, sharded, sharded_new>>
      /\ pc' \notin {"wrlock", "handle"}
  BY <1>1 DEF FinishBuild
<1>3. sharded' # sharded_new'
  BY <1>2 DEF RepairInv
<1>4. CASE Starting
  <2>1. pc \in {"ring_new", "ring"} /\ ~Handling /\ pc \notin Listening
    BY <1>4 DEF Starting, Handling, Listening
  <2>2. ~repaired'
    BY <1>1, <2>1 DEF RepairInv
  <2> QED
    BY <1>2, <1>3, <2>2 DEF RepairInv
<1>5. CASE Handling
  <2>1. pc = "handle" /\ InHand(Reads) /\ AddressHash = cfg.address /\ msg \in {"syning", "change"}
    BY <1>5, HandlingReads DEF Handling
  <2>2. pc' = "unlock" /\ pc' \in Listening /\ pc \in Listening /\ ~InHand(Reads)'
    BY <1>1, <1>2, <1>5, <2>1 DEF Listening, InHand
  <2>3. ASSUME repaired', LastBuild(0)' PROVE Right'
    <3>1. /\ repaired /\ infos # NoHosts /\ DOMAIN out.ring.hosts = DOMAIN infos
      BY <1>1, <2>3
    <3>2. LastBuild(0) /\ (SwapsAfter(0)' <=> SwapsAfter(0))
      BY <1>2, <2>3 DEF LastBuild, SwapsAfter, configVars
    <3>3. FoundAll
      BY <1>2, <2>1, <2>2, <3>1, <3>2 DEF RepairInv
    <3>4. out.ok /\ out.ring.hosts = Usable(cfg.address)
      BY <1>2, <3>1, <3>3, AllHosts
    <3>5. ring'[TargetRing] = out.ring
      BY <1>1 DEF InitSharded, BuildTypeOK, TypeOK, TargetRing
    <3>6. Ends(msg, 0)
      BY <2>1 DEF OrderInv
    <3>7. CASE msg = "syning"
      <4>1. /\ cfg.status \in InResharding \/ SwapsAfter(0)
            /\ TargetRing = sharded_new /\ state' = "syning"
        BY <1>1, <1>5, <2>1, <3>2, <3>4, <3>6, <3>7 DEF Ends, InResharding, TargetRing
      <4> QED
        BY <1>2, <3>2, <3>4, <3>5, <4>1 DEF Right, configVars
    <3>8. CASE msg = "change"
      <4>1. /\ cfg.status = "change" /\ ~SwapsAfter(0) /\ TargetRing = sharded
        BY <2>1, <3>2, <3>6, <3>8 DEF Ends, TargetRing
      <4>2. ~InHand({"normal"})'
        BY <1>2 DEF InHand
      <4> QED
        BY <1>2, <3>2, <3>4, <3>5, <4>1, <4>2 DEF Right, configVars, InResharding
    <3> QED
      BY <2>1, <3>7, <3>8
  <2> QED
    BY <1>2, <1>3, <2>2, <2>3 DEF RepairInv
<1> QED
  BY <1>2, <1>4, <1>5 DEF Building

(* A step that is no part of a build, or changes nothing it looks at.      *)
LEMMA RepairStays ==
    ASSUME RepairInv, UNCHANGED <<configVars, stream, ringVars>>, UNCHANGED buildVars,
           pc' \in Listening => pc \in Listening,
           pc \in Listening => pc' \in Listening \cup {"deaf"},
           pc = "deaf" => pc' = "deaf",
           pc \in Listening => \A messages : InHand(messages)' <=> InHand(messages)
    PROVE  RepairInv'
PROOF
<1>1. (LastBuild(0)' <=> LastBuild(0)) /\ (SwapsAfter(0)' <=> SwapsAfter(0))
  BY DEF LastBuild, SwapsAfter, configVars
<1>2. FoundAll' <=> FoundAll
  BY DEF FoundAll, buildVars, configVars
<1>3. pc \in Listening => (Right' <=> Right)
  BY <1>1 DEF Right, configVars, ringVars
<1>4. pc \in Listening => (InHand(Reads)' <=> InHand(Reads))
  OBVIOUS
<1> HIDE DEF Right
<1> QED
  BY <1>1, <1>2, <1>3, <1>4 DEF RepairInv, buildVars, ringVars

(* Taking a message: what it asks for is now in hand.                      *)
LEMMA RepairReceive ==
    ASSUME BuildTypeOK, BuildInv, OrderInv, RepairInv, Receive, UNCHANGED buildVars
    PROVE  RepairInv'
PROOF
<1>1. /\ pc = "receive" /\ stream # <<>> /\ stream' = Tail(stream)
      /\ UNCHANGED <<configVars, ringVars>>
      /\ \/ /\ Head(stream) \in {"syning", "normal", "change"}
            /\ pc' = "wrlock" /\ msg' = Head(stream)
         \/ /\ Head(stream) \notin {"syning", "normal", "change"}
            /\ pc' = "receive"
  BY DEF Receive
<1>2. stream \in Seq(Replies)
  BY StatusValues DEF BuildTypeOK
<1>3. /\ Silent(stream, 0) <=> Head(stream) \notin Reads /\ Silent(stream', 0)
      /\ Swaps(stream, 0) <=> Head(stream) = "normal" \/ Swaps(stream', 0)
  BY <1>1, <1>2, AfterTail
<1>4. ~Building /\ ~listed /\ ~listed' /\ asked' = asked
  BY <1>1 DEF Building, Starting, Handling, BuildInv, buildVars
<1>5. pc \in Listening /\ pc' \in Listening /\ \A messages : ~InHand(messages)
  BY <1>1 DEF Listening, InHand
<1>6. ASSUME repaired', LastBuild(0)', ~InHand(Reads)' PROVE Right'
  <2>1. Head(stream) \notin Reads
    BY <1>1, <1>6 DEF InHand, Reads
  <2>2. LastBuild(0)
    BY <1>1, <1>3, <1>6, <2>1 DEF LastBuild, configVars
  <2>3. Right
    BY <1>5, <1>6, <2>2 DEF RepairInv, buildVars
  <2>4. SwapsAfter(0) <=> SwapsAfter(0)' \/ InHand({"normal"})'
    BY <1>1, <1>3 DEF SwapsAfter, InHand, configVars
  <2> QED
    BY <1>1, <1>5, <2>3, <2>4 DEF Right, configVars, ringVars
<1> QED
  BY <1>1, <1>4, <1>5, <1>6 DEF RepairInv, ringVars

(* The swap.                                                               *)
LEMMA RepairSwap ==
    ASSUME BuildTypeOK, BuildInv, OrderInv, RepairInv, HandleNormal, UNCHANGED buildVars
    PROVE  RepairInv'
PROOF
<1>1. /\ pc = "handle" /\ msg = "normal" /\ pc' = "unlock"
      /\ ring' = [ring EXCEPT ![sharded] = [hosts |-> NoHosts, freed |-> @.freed + 1]]
      /\ sharded' = sharded_new /\ sharded_new' = sharded /\ state' = "normal"
      /\ UNCHANGED <<configVars, msg, stream>>
  BY DEF HandleNormal
<1>2. /\ sharded \in Rings /\ sharded_new \in Rings /\ sharded # sharded_new
      /\ ring'[sharded_new] = ring[sharded_new]
  BY <1>1 DEF BuildTypeOK, TypeOK, RepairInv
<1>3. /\ pc \in Listening /\ pc' \in Listening
      /\ InHand({"normal"}) /\ ~InHand(Reads) /\ \A messages : ~InHand(messages)'
  BY <1>1 DEF Listening, InHand, Reads
<1>4. (LastBuild(0)' <=> LastBuild(0)) /\ (SwapsAfter(0)' <=> SwapsAfter(0))
  BY <1>1 DEF LastBuild, SwapsAfter, configVars
<1>5. ASSUME repaired', LastBuild(0)' PROVE Right'
  <2>1. Right /\ Ends("normal", 0) /\ LastBuild(0)
    BY <1>1, <1>3, <1>4, <1>5 DEF RepairInv, OrderInv, buildVars
  <2>2. ring[sharded_new].hosts = Usable(cfg.address)
    BY <1>3, <2>1 DEF Right
  <2>3. cfg.status = "normal" /\ ~SwapsAfter(0)
    BY <2>1 DEF Ends
  <2> QED
    BY <1>1, <1>2, <1>3, <1>4, <2>2, <2>3 DEF Right, configVars, InResharding
<1> QED
  BY <1>1, <1>2, <1>3, <1>5 DEF RepairInv, buildVars

(* The operator: a step that changes the addresses asks for a build.       *)
LEMMA RepairOperator ==
    ASSUME BuildTypeOK, RepairInv, OperatorBetween
    PROVE  RepairInv'
PROOF
<1>1. PICK next, now, old :
          /\ next \in Successors(cfg.status) /\ Config!Step(next, now, old)
          /\ next \notin Reads => now = cfg.address
  BY OperatorSteps DEF OperatorBetween, OperatorStep, BuildTypeOK
<1>2. /\ pending = NoMessage /\ pending' = next
      /\ cfg'.status = next /\ cfg'.address = now
      /\ UNCHANGED <<subsVars, ringVars>> /\ UNCHANGED buildVars
  BY <1>1 DEF OperatorBetween, OperatorStep, Config!Step
<1>3. NoMessage \notin Reads /\ NoMessage # "normal" /\ cfg.status \in Status
  BY StatusValues DEF BuildTypeOK, Status
<1>4. UNCHANGED <<pc, msg, stream, state, ring, sharded, sharded_new>>
      /\ UNCHANGED <<listed, adds, asked, infos, repaired>>
  BY <1>2 DEF subsVars, ringVars, buildVars
<1>5. ASSUME LastBuild(0)'
      PROVE  /\ LastBuild(0) /\ cfg'.address = cfg.address
             /\ \/ next = "toconvert" /\ cfg.status = "syning"
                \/ next = "normal" /\ cfg.status = "toconvert"
  <2>1. next \notin Reads
    BY <1>2, <1>5 DEF LastBuild
  <2> QED
    BY <1>1, <1>2, <1>3, <1>4, <1>5, <2>1 DEF LastBuild, Successors, Reads
<1>6. ASSUME LastBuild(0)', Right PROVE Right'
  <2>1. \A messages : InHand(messages)' <=> InHand(messages)
    BY <1>4 DEF InHand
  <2>2. cfg.status \in InResharding /\ (cfg'.status \in InResharding \/ SwapsAfter(0)')
    BY <1>2, <1>5, <1>6 DEF InResharding, SwapsAfter
  <2> QED
    BY <1>4, <1>5, <1>6, <2>1, <2>2 DEF Right
<1>7. InHand(Reads)' <=> InHand(Reads)
  BY <1>4 DEF InHand
<1>8. LastBuild(0)' /\ FoundAll => FoundAll'
  BY <1>4, <1>5 DEF FoundAll
<1> QED
  BY <1>4, <1>5, <1>6, <1>7, <1>8 DEF RepairInv

LEMMA RepairPublish ==
    ASSUME BuildTypeOK, OrderInv, RepairInv, Publish, UNCHANGED buildVars
    PROVE  RepairInv'
PROOF
<1>1. UNCHANGED <<cfg, pc, msg, state, ring, sharded, sharded_new>>
  BY DEF Publish, Config!Publish, ringVars
<1>2. UNCHANGED <<listed, adds, asked, infos, repaired>>
  BY DEF buildVars
<1>3. /\ pc \in Listening => (LastBuild(0)' <=> LastBuild(0))
      /\ pc \in Listening => (SwapsAfter(0)' <=> SwapsAfter(0))
  BY OrderPublish DEF OrderInv, BuildTypeOK
<1>4. \A messages : InHand(messages)' <=> InHand(messages)
  BY <1>1 DEF InHand
<1>5. pc \in Listening => (Right' <=> Right)
  BY <1>1, <1>3, <1>4 DEF Right
<1>6. FoundAll' <=> FoundAll
  BY <1>1, <1>2 DEF FoundAll
<1> QED
  BY <1>1, <1>2, <1>3, <1>4, <1>5, <1>6 DEF RepairInv

LEMMA RepairNext ==
    ASSUME BuildTypeOK, BuildInv, OrderInv, RepairInv, [NextRequests]_<<vars, buildVars>>
    PROVE  RepairInv'
PROOF
<1>1. CASE UNCHANGED <<vars, buildVars>>
  <2>1. UNCHANGED <<configVars, stream, ringVars, pc, msg>> /\ UNCHANGED buildVars
    BY <1>1 DEF vars, subsVars
  <2>2. \A messages : InHand(messages)' <=> InHand(messages)
    BY <2>1 DEF InHand
  <2> QED
    BY <2>1, <2>2, RepairStays
<1>2. CASE /\ Connect \/ InitShardedState \/ ConnectSubs \/ Subscribe \/ SubscribeAgain
           /\ UNCHANGED buildVars
  <2>1. pc \in {"connect", "status", "subs", "subscribe", "subscribe_again"} /\ ~repaired'
    BY <1>2 DEF Connect, InitShardedState, ConnectSubs, Subscribe, SubscribeAgain,
       RepairInv, Listening, buildVars
  <2>2. UNCHANGED <<sharded, sharded_new, listed, asked>>
    BY <1>2 DEF Connect, InitShardedState, ConnectSubs, Subscribe, SubscribeAgain,
       SendSubscribe, ringVars, buildVars
  <2> QED
    BY <2>1, <2>2 DEF RepairInv
<1>3. CASE (LockWrite \/ UnlockWrite) /\ UNCHANGED buildVars
  <2>1. /\ UNCHANGED <<configVars, stream, ringVars>> /\ pc \in Listening /\ pc' \in Listening
        /\ \/ pc = "wrlock" /\ pc' = "handle" /\ msg' = msg
           \/ pc = "unlock" /\ pc' = "receive"
    BY <1>3 DEF LockWrite, UnlockWrite, Listening
  <2>2. \A messages : InHand(messages)' <=> InHand(messages)
    BY <2>1 DEF InHand
  <2>3. pc # "deaf"
    BY <2>1
  <2> QED
    BY <1>3, <2>1, <2>2, <2>3, RepairStays
<1>4. CASE SubsBreak /\ UNCHANGED buildVars
  <2>1. pc' \notin Listening /\ pc' = "deaf" /\ UNCHANGED <<sharded, sharded_new>>
    BY <1>4 DEF SubsBreak, Listening, ringVars
  <2> QED
    BY <1>4, <2>1 DEF RepairInv, buildVars
<1>5. InitNewRing \/ InitRing \/ HandleStart \/ HandleChange => Building
  BY DEF InitNewRing, InitRing, HandleStart, HandleChange, Building, Starting, Handling
<1> QED
  BY <1>1, <1>2, <1>3, <1>4, <1>5, RepairRequests, RepairFinish, RepairOperator,
     RepairReceive, RepairSwap, RepairPublish DEF NextRequests, SubscriberStep

LEMMA RepairInit == InitRequests => OrderInv /\ RepairInv
  BY DEF InitRequests, Init, Config!Init, OrderInv, RepairInv, Listening

LEMMA RepairInvariant ==
    SpecRequests => [](BuildTypeOK /\ ThreadsIdle /\ BuildInv /\ OrderInv /\ RepairInv)
PROOF
<1>1. BuildTypeOK /\ OrderInv /\ [NextRequests]_<<vars, buildVars>> => OrderInv'
  BY OrderNext DEF BuildTypeOK
<1> QED
  BY <1>1, RepairInit, RepairNext, BuildInvariant, PTL DEF SpecRequests

(* Whatever a client missed, raced with, was overtaken by or could not     *)
(* connect to: after a build for a message that left nothing out it has,   *)
(* whenever it has caught up, the hosts of the configuration where         *)
(* commands and mirrored writes look for them (DataCenter.cpp:98-125).     *)
THEOREM ClientsRepairThemselves == SpecRequests => []RepairsItself
PROOF
<1>1. BuildTypeOK /\ RepairInv => RepairsItself
  <2> SUFFICES ASSUME BuildTypeOK, RepairInv, CaughtUp, repaired
               PROVE  IF Resharding
                      THEN state = "syning" /\ ring[sharded_new].hosts = Usable(cfg.address)
                      ELSE /\ ring[sharded].hosts = Usable(cfg.address)
                           /\ cfg.status = "normal" => state = "normal"
    BY DEF RepairsItself
  <2>1. pc = "receive" /\ stream = <<>> /\ pending = NoMessage
    BY DEF CaughtUp
  <2>2. LastBuild(0) /\ ~SwapsAfter(0) /\ \A messages : ~InHand(messages)
    <3>1. 0 + 1 .. Len(stream) = {}
      BY <2>1
    <3> QED
      BY <2>1, <3>1, StatusValues
      DEF LastBuild, SwapsAfter, Silent, Swaps, InHand, BuildTypeOK, Status
  <2>3. Right
    BY <2>1, <2>2 DEF RepairInv, Listening
  <2> QED
    BY <2>2, <2>3 DEF Right, Resharding, InResharding
<1> QED
  BY <1>1, RepairInvariant, PTL
=============================================================================
