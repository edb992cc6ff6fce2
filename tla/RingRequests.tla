---------------------------- MODULE RingRequests ----------------------------
(***************************************************************************)
(* DataCenter with init_sharded taken apart into its requests: HKEYS, one  *)
(* HGET per host in the order of their names, then destroy and init of the *)
(* ring.  The operator may write the address hashes between any two of     *)
(* them; the steps of DataCenter that build a ring are atomic and leave    *)
(* that out.  The subscriber is otherwise as in DataCenter; there are no   *)
(* application threads.  An address is a string here, a sequence of        *)
(* characters: it is taken apart, its port made a number and a string      *)
(* again.                                                                  *)
(***************************************************************************)
EXTENDS DataCenter, Split2Vec

VARIABLES
    listed,         \* HKEYS was answered, or failed
    adds,           \* the names it answered
    asked,          \* those whose HGET was sent
    infos,          \* vec_infos: the hosts found usable
    repaired        \* history: the last build for a message left nothing out

buildVars == <<listed, adds, asked, infos, repaired>>

Digits == <<"0", "1", "2", "3", "4", "5", "6", "7", "8", "9">>
Digit(char) == (CHOOSE i \in DOMAIN Digits : Digits[i] = char) - 1

(* atoi: the number that the leading digits make, 0 without any.  Blanks   *)
(* and signs before it, and more digits than an int holds, are left out.   *)
Atoi(str) ==
    LET Leading == {i \in DOMAIN str : \A j \in 1 .. i : str[j] \in Range(Digits)}
        value[i \in {0} \cup Leading] ==
            IF i = 0 THEN 0 ELSE 10 * value[i - 1] + Digit(str[i])
    IN  value[CHOOSE i \in {0} \cup Leading : \A j \in Leading : j <= i]

(* %d of a port.                                                           *)
Decimal[port \in 0 .. 65535] ==
    IF port < 10 THEN <<Digits[port + 1]>>
    ELSE Append(Decimal[port \div 10], Digits[(port % 10) + 1])

(* ShardInfo(vec[0], atoi(vec[1])), and what Jedis::init_obj connects to:  *)
(* its parameter is an unsigned short.                                     *)
ShardInfo(vec) == [host |-> vec[1], port |-> Atoi(vec[2])]
Port(info) == info.port % 65536
Address(info) == info.host \o <<":">> \o Decimal[Port(info)]

Infos == {ShardInfo(Split(server, ":", 2).vec) : server \in Servers}

(* The addresses of DataCenter are those that split2vec accepts.  They are *)
(* written as a connection prints them, unless there is none: nothing      *)
(* listens at port 0.                                                      *)
ASSUME AddressAssumption ==
    /\ \A server \in Servers :
          LET parts == Split(server, ":", 2)
              info  == ShardInfo(parts.vec)
          IN  parts.ok /\ (Port(info) # 0 => Address(info) = server)
    /\ ~Split(BadAddr, ":", 2).ok

InitRequests ==
    /\ Init
    /\ listed = FALSE
    /\ adds = {}
    /\ asked = {}
    /\ infos = NoHosts
    /\ repaired = FALSE

-----------------------------------------------------------------------------
(* The calls of init_sharded, and their parameters.                        *)

Starting == pc \in {"ring_new", "ring"}
Handling == pc = "handle" /\ msg \in {"syning", "change"}
Building == Starting \/ Handling

(* Faulty variant of TargetRing: the new addresses go into the ring in use.*)
TargetRingInUse == sharded

TargetRing ==
    IF pc = "ring_new" \/ (pc = "handle" /\ msg = "syning") THEN sharded_new ELSE sharded

(* Faulty variant of AddressHash: always the current addresses.            *)
AddressHashCurrent == cfg.address

AddressHash == IF pc = "ring" /\ state = "syning" THEN cfg.oldaddress ELSE cfg.address

(* HKEYS; without an answer the set is empty.                              *)
ListHosts ==
    /\ Building /\ ~listed
    /\ listed' = TRUE
    /\ adds' \in {{}, DOMAIN AddressHash}
    /\ repaired' = (Handling /\ adds' = DOMAIN AddressHash)
    /\ UNCHANGED <<vars, asked, infos>>

NextName == CHOOSE n \in adds \ asked : \A m \in adds \ asked : n <= m

(* Faulty variant of AskHost: the result of split2vec is not looked at,    *)
(* and a port that is not there is Protocol::DEFAULT_PORT.                 *)
AskHostUnchecked ==
    /\ Building /\ listed /\ asked # adds
    /\ asked' = asked \cup {NextName}
    /\ \/ UNCHANGED <<infos, repaired>>
       \/ /\ NextName \in DOMAIN AddressHash
          /\ LET vec == Split(AddressHash[NextName], ":", 2).vec \o <<<<"6", "3", "7", "9">>>>
             IN  infos' = [n \in DOMAIN infos \cup {NextName} |->
                    IF n = NextName THEN ShardInfo(vec) ELSE infos[n]]
          /\ UNCHANGED repaired
    /\ UNCHANGED <<vars, listed, adds>>

(* HGET of the next name.  The host is left out when the request fails,    *)
(* the field is gone by now, or the address cannot be taken apart.         *)
AskHost ==
    /\ Building /\ listed /\ asked # adds
    /\ asked' = asked \cup {NextName}
    /\ LET readable == /\ NextName \in DOMAIN AddressHash
                       /\ Split(AddressHash[NextName], ":", 2).ok
       IN  \/ infos' = infos /\ repaired' = (repaired /\ ~readable)
           \/ /\ readable
              /\ infos' = [n \in DOMAIN infos \cup {NextName} |->
                     IF n = NextName THEN ShardInfo(Split(AddressHash[n], ":", 2).vec)
                     ELSE infos[n]]
              /\ UNCHANGED repaired
    /\ UNCHANGED <<vars, listed, adds>>

(* The ring and the result: as before unless some host is usable, else the *)
(* hosts that accept a connection.                                         *)
BuildOutcomes(r) ==
    IF infos = NoHosts THEN {[ok |-> adds # {}, ring |-> ring[r]]}
    ELSE {[ok |-> up # {},
           ring |-> [hosts |-> [n \in up |-> Address(infos[n])],
                     freed |-> ring[r].freed + 1]] :
          up \in SUBSET {n \in DOMAIN infos : Port(infos[n]) # 0}}

(* The end of init_sharded, and what its caller does with the result.      *)
FinishBuild ==
    /\ Building /\ listed /\ asked = adds
    /\ \E out \in BuildOutcomes(TargetRing) :
          /\ InitSharded(TargetRing, AddressHash, out)
          /\ pc' = IF Handling THEN "unlock"
                   ELSE IF ~out.ok THEN "failed"
                   ELSE IF pc = "ring_new" THEN "ring" ELSE "subs"
          /\ state' = IF Handling /\ msg = "syning" /\ out.ok THEN "syning" ELSE state
          /\ repaired' = (repaired /\ infos # NoHosts /\ DOMAIN out.ring.hosts = DOMAIN infos)
    /\ listed' = FALSE
    /\ adds' = {}
    /\ asked' = {}
    /\ infos' = NoHosts
    /\ UNCHANGED <<configVars, lock, msg, stream, subscribed, sharded, sharded_new,
                   threadVars>>

(* The operator, between any two requests.                                 *)
OperatorBetween == OperatorStep /\ UNCHANGED buildVars

(* Application threads take no steps here: apart from crashing they change *)
(* nothing that a build or the properties below look at.                   *)
NextRequests ==
    \/ ListHosts \/ AskHost \/ FinishBuild \/ OperatorBetween
    \/ ~Building /\ SubscriberStep /\ UNCHANGED buildVars
    \/ (SubsBreak \/ Publish) /\ UNCHANGED buildVars

SpecRequests == InitRequests /\ [][NextRequests]_<<vars, buildVars>>

-----------------------------------------------------------------------------
(* Properties.                                                             *)

(* A client that neither raced with the operator nor was overtaken cannot  *)
(* tell that init_sharded is several requests: its steps are those of      *)
(* DataCenter, where a ring is built from one state of the hash            *)
(* (DataCenter.cpp:143-176).                                               *)
LooksAtomic == [][excuse = "none" => Next \/ UNCHANGED vars]_<<vars, buildVars>>

(* What went wrong before does not last.  Whatever this client missed,     *)
(* raced with, was overtaken by or could not connect to: if the last build *)
(* that a message asked for left out nothing it found, then the client, as *)
(* soon as it has caught up, has the hosts of the configuration where a    *)
(* command or a mirrored write looks for them.  A ring of two              *)
(* configurations, or with hosts missing, is gone by then: the operator    *)
(* writes before he publishes, and a handler reads after the receipt, so   *)
(* that what it cannot have read is still announced (DataCenter.cpp:105,   *)
(* 122).                                                                   *)
RepairsItself ==
    CaughtUp /\ repaired =>
        IF Resharding
        THEN state = "syning" /\ ring[sharded_new].hosts = Usable(cfg.address)
        ELSE /\ ring[sharded].hosts = Usable(cfg.address)
             /\ cfg.status = "normal" => state = "normal"
=============================================================================
