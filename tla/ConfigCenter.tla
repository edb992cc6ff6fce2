---------------------------- MODULE ConfigCenter ----------------------------
(***************************************************************************)
(* The configuration server and the operator who drives a re-sharding.     *)
(* Neither is in this repository; both are modelled from how DataCenter    *)
(* uses them: the keys it reads (DataCenter.h:20-26), the status values it *)
(* knows (DataCenter.h:30-33, 48-50) and the messages it handles           *)
(* (DataCenter.cpp:98-125).                                                *)
(*                                                                         *)
(* A re-sharding is  normal -> syning -> toconvert -> normal;  between     *)
(* re-shardings the operator may replace the address of one host           *)
(* (change).  Each step writes the keys and then publishes the new status  *)
(* on the channel, as two separate steps: a client may start in between.   *)
(***************************************************************************)
EXTENDS Naturals

CONSTANTS
    Names,          \* fields of the address hashes: names of redis hosts
    Servers,        \* host:port values a client can parse
    BadAddr,        \* a value that split2vec(addr, vec, ":", 2) refuses
    Tables,         \* contents an address hash may have
    NoMessage,      \* nothing to be published
    MaxPublish      \* bound: number of operator steps

Status == {"normal", "syning", "toconvert", "change"}

(* The address hashes: a host's name, and where it is reached.             *)
AllTables == UNION {[N -> Servers \cup {BadAddr}] : N \in SUBSET Names}

VARIABLES
    cfg,            \* the keys shardchannelstatus, address and oldaddress
    pending,        \* the status written but not yet published
    published       \* how many operator steps were taken

vars == <<cfg, pending, published>>

TypeOK ==
    /\ cfg \in [status : Status, address : AllTables, oldaddress : AllTables]
    /\ pending \in Status \cup {NoMessage}
    /\ published \in 0 .. MaxPublish

(* A client may meet the configuration in any phase of a re-sharding.      *)
Init ==
    /\ cfg \in [status : Status, address : Tables, oldaddress : Tables]
    /\ pending = NoMessage
    /\ published = 0

Step(status, address, oldaddress) ==
    /\ pending = NoMessage
    /\ published < MaxPublish
    /\ cfg' = [status |-> status, address |-> address, oldaddress |-> oldaddress]
    /\ pending' = status
    /\ published' = published + 1

(* A new set of hosts is announced; the hosts start to copy the data.      *)
StartSync ==
    /\ cfg.status \in {"normal", "change"}
    /\ \E table \in Tables : Step("syning", table, cfg.address)

(* The data is copied; clients keep writing to both places.                *)
EndSync ==
    /\ cfg.status = "syning"
    /\ Step("toconvert", cfg.address, cfg.oldaddress)

(* Clients are to forget the old hosts.                                    *)
Convert ==
    /\ cfg.status = "toconvert"
    /\ Step("normal", cfg.address, cfg.oldaddress)

(* One host moves to another address under the same name.                  *)
ReplaceHost ==
    /\ cfg.status \in {"normal", "change"}
    /\ \E name \in DOMAIN cfg.address, server \in Servers :
          /\ cfg.address[name] # server
          /\ Step("change", [cfg.address EXCEPT ![name] = server], cfg.oldaddress)

OperatorStep == StartSync \/ EndSync \/ Convert \/ ReplaceHost

(* PUBLISH shardchannel <status>.                                          *)
Publish ==
    /\ pending # NoMessage
    /\ pending' = NoMessage
    /\ UNCHANGED <<cfg, published>>
=============================================================================
