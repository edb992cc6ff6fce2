-------------------------- MODULE ReshardingProofs --------------------------
(***************************************************************************)
(* Proofs about Resharding for every set of clients, servers and commands, *)
(* every timeout, and every number of operator steps and starts.           *)
(***************************************************************************)
EXTENDS Resharding, FollowerProofs

-----------------------------------------------------------------------------
(* The command table.  Of the commands that create or replace a key        *)
(* without an expiry and are not flagged as writes, each is a counter or   *)
(* is in Unguarded.                                                        *)

Guarded(family) ==
    \A u \in DOMAIN family :
        ~family[u].iswrite /\ family[u].effect \in {"assign", "add"} =>
            u \in Unguarded \cup Counters

LEMMA GuardedStrings == Guarded(StringCommands)
  BY DEF Guarded, Unguarded, Counters, StringCommands, Flagged, Unflagged, Read

LEMMA GuardedHashes == Guarded(HashCommands)
  BY DEF Guarded, Unguarded, Counters, HashCommands, Flagged, Unflagged, Read

LEMMA GuardedLists == Guarded(ListCommands) /\ Guarded(ListPushxCommands)
  BY DEF Guarded, Unguarded, Counters, ListCommands, ListPushxCommands,
     Flagged, Unflagged, Read

LEMMA GuardedSets ==
    Guarded(SetCommands) /\ Guarded(SortedSetCommands) /\ Guarded(SortedSetRangeCommands)
  BY DEF Guarded, Unguarded, Counters, SetCommands, SortedSetCommands,
     SortedSetRangeCommands, Flagged, Unflagged, Read

LEMMA TableIsGuarded ==
    ASSUME NEW u \in Commands \ Counters,
           ~Table[u].iswrite, Table[u].effect \in {"assign", "add"}
    PROVE  u \in Unguarded
PROOF
<1>1. \E family \in Families : u \in DOMAIN family
  BY DEF Commands
<1>2. PICK family \in Families : u \in DOMAIN family /\ Table[u] = family[u]
  BY <1>1 DEF Table
<1>3. Guarded(family)
  BY GuardedStrings, GuardedHashes, GuardedLists, GuardedSets DEF Families
<1> QED
  BY <1>2, <1>3 DEF Guarded

(* What a command may make of a key.                                       *)
LEMMA OutcomeValues ==
    ASSUME NEW u, NEW x, NEW new, NEW y \in Outcomes(u, x, new)
    PROVE  \/ y \in {x, Expiring, NoItem}
           \/ y = new /\ Table[u].effect \in {"assign", "add"}
  BY DEF Outcomes

-----------------------------------------------------------------------------
(* The types.  Before init has returned no command runs, and the hash of   *)
(* addresses always names a server for the one host of the model.          *)

Tables == [{Host} -> Servers]

Idle ==
    /\ \A c \in Clients : ~Up(c) => step[c] = "idle"
    /\ cfg.address \in Tables /\ cfg.oldaddress \in Tables

TypeInv == TypeOK /\ Idle

LEMMA TablesAreTables ==
    ASSUME NEW table \in Tables
    PROVE  table \in Config!AllTables /\ Owner(table) \in Servers
  BY DEF Tables, Config!AllTables, Owner

LEMMA TypeInit == Init => TypeInv
PROOF
<1> SUFFICES ASSUME Init PROVE TypeInv
  OBVIOUS
<1>1. cfg.address \in Tables /\ cfg.oldaddress \in Tables
      /\ cfg \in [status : Config!Status, address : Tables, oldaddress : Tables]
  BY DEF Init, Config!Init, Tables
<1>2. Config!TypeOK
  BY <1>1, TablesAreTables, ReshardingAssumption DEF Init, Config!Init, Config!TypeOK
<1>3. stream \in [Clients -> Seq(Config!Status)]
  BY DEF Init
<1> QED
  BY <1>1, <1>2, <1>3, ReshardingAssumption
  DEF Init, TypeInv, TypeOK, Idle, Items, Config!Status

(* An operator step is Config!Step with tables of servers.                 *)
LEMMA OperatorSteps ==
    ASSUME TypeInv, Config!OperatorStep
    PROVE  \E next \in Successors(cfg.status), now \in Tables, old \in Tables :
              /\ Config!Step(next, now, old)
              /\ next \notin Reads => now = cfg.address /\ old = cfg.oldaddress
              /\ next = "syning" => old = cfg.address
              /\ next = "change" => now # cfg.address
PROOF
<1>1. cfg.status \in Status /\ cfg.address \in Tables /\ cfg.oldaddress \in Tables
  BY DEF TypeInv, TypeOK, Idle, Config!TypeOK, Config!Status, Status
<1>2. CASE Config!StartSync
  <2>1. PICK table \in Tables : Config!Step("syning", table, cfg.address)
    BY <1>2 DEF Config!StartSync, Tables
  <2> QED
    BY <1>1, <1>2, <2>1 DEF Config!StartSync, Successors, Reads
<1>3. CASE Config!EndSync
  BY <1>1, <1>3 DEF Config!EndSync, Successors, Reads
<1>4. CASE Config!Convert
  BY <1>1, <1>4 DEF Config!Convert, Successors, Reads
<1>5. CASE Config!ReplaceHost
  <2>1. PICK name \in DOMAIN cfg.address, server \in Servers :
          /\ cfg.address[name] # server
          /\ Config!Step("change", [cfg.address EXCEPT ![name] = server], cfg.oldaddress)
    BY <1>5 DEF Config!ReplaceHost
  <2> DEFINE now == [cfg.address EXCEPT ![name] = server]
  <2>2. now \in Tables /\ now # cfg.address
    BY <1>1, <2>1 DEF Tables
  <2> QED
    BY <1>1, <1>5, <2>1, <2>2 DEF Config!ReplaceHost, Successors, Reads
<1> QED
  BY <1>2, <1>3, <1>4, <1>5 DEF Config!OperatorStep

LEMMA ConfigType ==
    ASSUME TypeInv, Config!OperatorStep
    PROVE  Config!TypeOK' /\ cfg'.address \in Tables /\ cfg'.oldaddress \in Tables
PROOF
<1>1. PICK next \in Successors(cfg.status), now \in Tables, old \in Tables :
          Config!Step(next, now, old)
  BY OperatorSteps
<1>2. cfg.status \in Config!Status /\ published \in 0 .. MaxPublish
  BY DEF TypeInv, TypeOK, Config!TypeOK
<1>3. next \in Config!Status
  BY <1>2 DEF Successors, Config!Status
<1>4. cfg' = [status |-> next, address |-> now, oldaddress |-> old] /\ pending' = next
  BY <1>1 DEF Config!Step
<1>5. published' \in 0 .. MaxPublish
  BY <1>1, <1>2, ReshardingAssumption DEF Config!Step
<1>6. now \in Config!AllTables /\ old \in Config!AllTables
  BY TablesAreTables
<1>7. cfg' \in [status : Config!Status, address : Config!AllTables,
                oldaddress : Config!AllTables]
  BY <1>3, <1>4, <1>6
<1> QED
  BY <1>3, <1>4, <1>5, <1>7 DEF Config!TypeOK

(* The steps that are about one client.                                    *)
ClientStep(c) ==
    Starting(c) \/ Crash(c) \/ Handle(c) \/ Execute(c) \/ ExecuteNowhere(c) \/ CommandStep(c)

(* What a step of a client stores is an item.                              *)
LEMMA ItemType ==
    ASSUME TypeInv, NEW c \in Clients, ClientStep(c)
    PROVE  item' \in [Servers -> Items]
PROOF
<1>1. /\ item \in [Servers -> Items] /\ owner \in [Clients -> Servers \cup {NoServer}]
      /\ NoServer \notin Servers /\ {NoItem, Expiring, Abandoned} \subseteq Items
      /\ Used \subseteq Items
  BY ReshardingAssumption DEF TypeInv, TypeOK, Items
<1>2. CASE Starting(c) \/ Handle(c)
  BY <1>1, <1>2 DEF Starting, Start, InitNew, InitRing, Subscribe, Begin, Handle, HandleStart, HandleNormal, HandleChange, HandleEnd, Handles
<1>3. CASE Crash(c) \/ ExecuteNowhere(c)
  BY <1>1, <1>3 DEF Crash, ExecuteNowhere, Stop
<1>4. CASE Execute(c)
  <2>0. PICK u \in Used : \E x \in Outcomes(u, item[owner[c]], u) :
          item' = [item EXCEPT ![owner[c]] = x]
    BY <1>4 DEF Execute
  <2>1. PICK x \in Outcomes(u, item[owner[c]], u) : item' = [item EXCEPT ![owner[c]] = x]
    BY <2>0
  <2>2. owner[c] \in Servers
    BY <1>1, <1>4 DEF Execute
  <2>3. x \in Items
    BY <1>1, <2>2, OutcomeValues
  <2> QED
    BY <1>1, <2>1, <2>3
<1>5. CASE Expire(c)
  <2>1. item' = [item EXCEPT ![owner[c]] = Expired(item[owner[c]])]
    BY <1>5 DEF Expire
  <2>2. Expired(item[owner[c]]) \in Items
    BY <1>1 DEF Expired
  <2> QED
    BY <1>1, <2>1, <2>2
<1>6. CASE ExecuteAgain(c)
  <2>1. PICK x \in Outcomes(cmd[c], item[owner[c]], Abandoned) :
          item' = [item EXCEPT ![owner[c]] = x]
    BY <1>6 DEF ExecuteAgain
  <2>2. owner[c] \in Servers => x \in Items
    BY <1>1, OutcomeValues
  <2> QED
    BY <1>1, <2>1, <2>2
<1>7. CASE ExpireNew(c)
  <2>1. item' = [item EXCEPT ![owner_new[c]] = Expired(item[owner_new[c]])]
    BY <1>7 DEF ExpireNew
  <2>2. Expired(item[owner_new[c]]) \in Items
    BY <1>1 DEF Expired
  <2> QED
    BY <1>1, <2>1, <2>2
<1> QED
  BY <1>2, <1>3, <1>4, <1>5, <1>6, <1>7 DEF ClientStep, CommandStep

LEMMA TypeOfUnchanged ==
    ASSUME TypeInv, UNCHANGED configVars
    PROVE  Config!TypeOK' /\ cfg'.address \in Tables /\ cfg'.oldaddress \in Tables
  BY DEF TypeInv, TypeOK, Idle, configVars, Config!TypeOK

LEMMA TypeClient ==
    ASSUME TypeInv, NEW c \in Clients, ClientStep(c)
    PROVE  TypeInv'
PROOF
<1> USE DEF TypeInv, TypeOK, Idle
<1>c. Config!TypeOK' /\ cfg'.address \in Tables /\ cfg'.oldaddress \in Tables
  <2>1. UNCHANGED configVars
    BY DEF ClientStep, Starting, Start, InitNew, InitRing, Subscribe, Begin, Crash, ExecuteNowhere, Stop, Handle, HandleStart, HandleNormal,
       HandleChange, HandleEnd, Handles, Execute, CommandStep, Expire, ExecuteAgain,
       ExpireNew, Continue
  <2> QED
    BY <2>1, TypeOfUnchanged
<1>i. item' \in [Servers -> Items]
  BY ItemType
<1>o. /\ cfg.status \in Config!Status
      /\ Owner(cfg.address) \in Servers /\ Owner(cfg.oldaddress) \in Servers
  BY TablesAreTables DEF Config!TypeOK
<1>s. <<>> \in Seq(Config!Status)
  OBVIOUS
<1>u. \A p \in StartWindow : p # "down" /\ p # "running"
  BY DEF StartWindow
<1>1. CASE Starting(c)
  <2>1. CASE Start(c)
    <3>1. starts' \in 0 .. MaxStarts
      BY <2>1, ReshardingAssumption DEF Start
    <3> QED
      BY <1>c, <1>i, <1>o, <2>1, <3>1 DEF Start, Up, StartWindow
  <2>2. CASE InitNew(c)
    BY <1>c, <1>i, <1>o, <2>2 DEF InitNew, Begin, Up, StartWindow
  <2>3. CASE InitRing(c)
    BY <1>c, <1>i, <1>o, <2>3 DEF InitRing, Begin, Up, StartWindow
  <2>4. CASE Subscribe(c)
    BY <1>c, <1>i, <2>4 DEF Subscribe, Begin, Up, StartWindow
  <2> QED
    BY <1>1, <2>1, <2>2, <2>3, <2>4 DEF Starting
<1>2. CASE Crash(c) \/ ExecuteNowhere(c)
  <2>1. Stop(c)
    BY <1>2 DEF Crash, ExecuteNowhere
  <2>2. /\ phase' \in [Clients -> {"down", "running"} \cup StartWindow]
        /\ starts' = starts
        /\ step' \in [Clients -> {"idle", "expire", "again", "expire_new"}]
        /\ \A d \in Clients : ~Up(d)' => step'[d] = "idle"
    BY <2>1 DEF Stop, Up
  <2>3. /\ state' \in [Clients -> Config!Status]
        /\ owner' \in [Clients -> Servers \cup {NoServer}]
        /\ owner_new' \in [Clients -> Servers \cup {NoServer}]
    BY <2>1 DEF Stop, Config!Status
  <2>4. /\ stream' \in [Clients -> Seq(Config!Status)]
        /\ cmd' \in [Clients -> Used \cup {NoCommand}]
        /\ excuse' \in [Clients -> {"none", "some"}]
    BY <1>s, <2>1 DEF Stop
  <2> QED
    BY <1>c, <1>i, <2>2, <2>3, <2>4
<1>3. CASE Handle(c)
  <2>1. Handles(c, Head(stream[c]))
    BY <1>3 DEF Handle, HandleStart, HandleNormal, HandleChange, HandleEnd, Handles
  <2>2. stream' \in [Clients -> Seq(Config!Status)]
    <3>1. stream[c] \in Seq(Config!Status) /\ stream[c] # <<>>
      BY <2>1 DEF Handles
    <3>2. Tail(stream[c]) \in Seq(Config!Status)
      BY <3>1, HeadTailProperties
    <3> QED
      BY <2>1, <3>2 DEF Handles
  <2>3. /\ state' \in [Clients -> Config!Status]
        /\ owner' \in [Clients -> Servers \cup {NoServer}]
        /\ owner_new' \in [Clients -> Servers \cup {NoServer}]
    <3>1. {"normal", "syning"} \subseteq Config!Status
      BY DEF Config!Status
    <3>2. CASE HandleStart(c)
      BY <1>o, <3>1, <3>2 DEF HandleStart
    <3>3. CASE HandleNormal(c)
      BY <3>1, <3>3 DEF HandleNormal
    <3>4. CASE HandleChange(c)
      BY <1>o, <3>4 DEF HandleChange
    <3>5. CASE HandleEnd(c)
      BY <3>5 DEF HandleEnd
    <3> QED
      BY <1>3, <3>2, <3>3, <3>4, <3>5 DEF Handle
  <2> QED
    BY <1>c, <1>i, <2>1, <2>2, <2>3 DEF Handles, Up
<1>4. ASSUME NEW request \in {"idle", "expire", "again", "expire_new"},
             NEW u \in Used \cup {NoCommand}, Up(c), Continue(c, request, u)
      PROVE  TypeInv'
  BY <1>c, <1>i, <1>4 DEF Continue, ringVars, Up
<1>5. CASE Execute(c)
  <2>1. PICK u \in Used :
          LET repeat == IF Mirrored(c, u) THEN u ELSE NoCommand
          IN  Continue(c, IF Table[u].iswrite /\ Timeout > 0
                          THEN "expire" ELSE AfterExpire(repeat), repeat)
    BY <1>5 DEF Execute
  <2> QED
    BY <1>4, <1>5, <2>1 DEF Execute, AfterExpire
<1>6. CASE CommandStep(c)
  <2>1. step[c] # "idle"
    BY <1>6 DEF CommandStep, Expire, ExecuteAgain, ExpireNew
  <2> QED
    BY <1>4, <1>6, <2>1 DEF CommandStep, Expire, ExecuteAgain, ExpireNew, AfterExpire
<1> HIDE DEF TypeInv
<1> QED
  BY <1>1, <1>2, <1>3, <1>5, <1>6 DEF ClientStep

LEMMA TypeNext == TypeInv /\ [Next]_vars => TypeInv'
PROOF
<1> SUFFICES ASSUME TypeInv, [Next]_vars PROVE TypeInv'
  OBVIOUS
<1> USE DEF TypeInv, TypeOK, Idle
<1>1. ASSUME NEW c \in Clients, ClientStep(c) PROVE TypeInv'
  BY <1>1, TypeClient
<1>2. CASE OperatorStep
  <2>1. Config!TypeOK' /\ cfg'.address \in Tables /\ cfg'.oldaddress \in Tables
    BY <1>2, ConfigType DEF OperatorStep
  <2> QED
    BY <1>2, <2>1 DEF OperatorStep, ringVars, Up
<1>3. CASE Publish
  <2>1. pending \in Config!Status
    BY <1>3 DEF Publish, Config!Publish, Config!TypeOK
  <2>2. Config!TypeOK' /\ cfg' = cfg
    BY <1>3 DEF Publish, Config!Publish, Config!TypeOK
  <2>3. stream' \in [Clients -> Seq(Config!Status)]
    <3>1. ASSUME NEW c \in Clients PROVE Append(stream[c], pending) \in Seq(Config!Status)
      BY <2>1, AppendProperties
    <3> QED
      BY <1>3, <3>1 DEF Publish
  <2> QED
    BY <1>3, <2>2, <2>3 DEF Publish, Up
<1>4. CASE Vanish
  <2>1. Config!TypeOK' /\ cfg' = cfg
    BY <1>4, TypeOfUnchanged DEF Vanish, configVars
  <2>2. item' \in [Servers -> Items]
    BY <1>4 DEF Vanish, Items
  <2> QED
    BY <1>4, <2>1, <2>2 DEF Vanish, ringVars, Up
<1>5. CASE UNCHANGED vars
  BY <1>5, TypeOfUnchanged DEF vars, ringVars, configVars, Up
<1> HIDE DEF TypeInv
<1> QED
  BY <1>1, <1>2, <1>3, <1>4, <1>5 DEF Next, ClientStep

(* The type invariant of the clients and the servers.                      *)
THEOREM TypeCorrect == Spec => []TypeOK
PROOF
<1>1. TypeInv => TypeOK
  BY DEF TypeInv
<1> QED
  BY <1>1, TypeInit, TypeNext, PTL DEF Spec

-----------------------------------------------------------------------------
(* Keys without an expiry.                                                 *)

LEMMA OnlyTheseStayNext ==
    ASSUME TypeInv, OnlyTheseStay, [Next]_vars
    PROVE  OnlyTheseStay'
PROOF
<1> SUFFICES ASSUME Timeout > 0, NEW s \in Servers, item'[s] \in Used
             PROVE  \/ item'[s] \in Unguarded
                    \/ \E c \in Clients : step'[c] = "expire" /\ owner'[c] = s
  BY DEF OnlyTheseStay
<1>t. /\ item \in [Servers -> Items] /\ owner \in [Clients -> Servers \cup {NoServer}]
      /\ step \in [Clients -> {"idle", "expire", "again", "expire_new"}]
      /\ NoServer \notin Servers
      /\ NoItem \notin Used /\ Expiring \notin Used /\ Abandoned \notin Used
  BY ReshardingAssumption DEF TypeInv, TypeOK
<1>h. item[s] \in Used => \/ item[s] \in Unguarded
                          \/ \E d \in Clients : step[d] = "expire" /\ owner[d] = s
  BY DEF OnlyTheseStay
(* What was there stays, and whoever is about to send its EXPIRE still is. *)
<1>1. ASSUME NEW c \in Clients, item'[s] = item[s],
             step[c] = "expire" => owner[c] # s,
             \A d \in Clients : d # c => step'[d] = step[d] /\ owner'[d] = owner[d]
      PROVE  \/ item'[s] \in Unguarded
             \/ \E d \in Clients : step'[d] = "expire" /\ owner'[d] = s
  BY <1>h, <1>1
<1>2. ASSUME NEW c \in Clients, Starting(c)
      PROVE  \/ item'[s] \in Unguarded
             \/ \E d \in Clients : step'[d] = "expire" /\ owner'[d] = s
  <2>1. UNCHANGED <<step, item>>
    BY <1>2 DEF Starting, Start, InitNew, InitRing, Subscribe, Begin
  <2>2. CASE owner' = owner
    BY <1>h, <2>1, <2>2
  <2>3. CASE InitRing(c)
    <3>1. step[c] = "idle"
      BY <2>3 DEF InitRing, Begin, TypeInv, Idle, Up
    <3>2. \A d \in Clients : d # c => owner'[d] = owner[d]
      BY <1>t, <2>3 DEF InitRing
    <3> QED
      BY <1>1, <2>1, <3>1, <3>2
  <2> QED
    BY <1>2, <2>2, <2>3 DEF Starting, Start, InitNew, Subscribe
<1>3. ASSUME NEW c \in Clients, Handle(c)
      PROVE  \/ item'[s] \in Unguarded
             \/ \E d \in Clients : step'[d] = "expire" /\ owner'[d] = s
  <2>1. UNCHANGED <<step, item>> /\ step[c] = "idle"
    BY <1>3 DEF Handle, HandleStart, HandleNormal, HandleChange, HandleEnd, Handles
  <2>2. \A d \in Clients : d # c => owner'[d] = owner[d]
    BY <1>3, <1>t DEF Handle, HandleStart, HandleNormal, HandleChange, HandleEnd
  <2> QED
    BY <1>1, <2>1, <2>2
<1>4. ASSUME NEW c \in Clients, Stop(c)
      PROVE  \/ item'[s] \in Unguarded
             \/ \E d \in Clients : step'[d] = "expire" /\ owner'[d] = s
  <2>1. item'[s] = item[s] /\ (step[c] = "expire" => owner[c] # s)
    BY <1>4, <1>t DEF Stop
  <2>2. \A d \in Clients : d # c => step'[d] = step[d] /\ owner'[d] = owner[d]
    BY <1>4, <1>t DEF Stop
  <2> QED
    BY <1>1, <2>1, <2>2
<1>5. ASSUME NEW c \in Clients, Execute(c)
      PROVE  \/ item'[s] \in Unguarded
             \/ \E d \in Clients : step'[d] = "expire" /\ owner'[d] = s
  <2>1. PICK u \in Used :
          /\ \E x \in Outcomes(u, item[owner[c]], u) : item' = [item EXCEPT ![owner[c]] = x]
          /\ step' = [step EXCEPT ![c] =
                 IF Table[u].iswrite /\ Timeout > 0 THEN "expire"
                 ELSE AfterExpire(IF Mirrored(c, u) THEN u ELSE NoCommand)]
          /\ owner' = owner
    BY <1>5 DEF Execute, Continue, ringVars
  <2>2. PICK x \in Outcomes(u, item[owner[c]], u) : item' = [item EXCEPT ![owner[c]] = x]
    BY <2>1
  <2>3. step[c] = "idle" /\ owner[c] \in Servers
    BY <1>5, <1>t DEF Execute
  <2>4. CASE item'[s] = item[s]
    BY <1>1, <1>t, <2>1, <2>3, <2>4
  <2>5. CASE item'[s] # item[s]
    <3>1. owner[c] = s /\ item'[s] = x /\ x # item[s] /\ x \in Used
      BY <1>t, <2>2, <2>5
    <3>2. x = u /\ Table[u].effect \in {"assign", "add"}
      BY <1>t, <2>2, <3>1, OutcomeValues
    <3>3. CASE Table[u].iswrite
      BY <1>t, <2>1, <3>1, <3>3
    <3>4. CASE ~Table[u].iswrite
      <4>1. u \in Commands \ Counters
        BY ReshardingAssumption
      <4> QED
        BY <3>1, <3>2, <3>4, <4>1, TableIsGuarded
    <3> QED
      BY <3>3, <3>4
  <2> QED
    BY <2>4, <2>5
<1>6. ASSUME NEW c \in Clients, CommandStep(c)
      PROVE  \/ item'[s] \in Unguarded
             \/ \E d \in Clients : step'[d] = "expire" /\ owner'[d] = s
  <2>1. owner' = owner /\ \A d \in Clients : d # c => step'[d] = step[d]
    BY <1>6, <1>t DEF CommandStep, Expire, ExecuteAgain, ExpireNew, Continue, ringVars
  <2>2. item'[s] = item[s] /\ (step[c] = "expire" => owner[c] # s)
    <3>1. CASE Expire(c)
      <4>1. item' = [item EXCEPT ![owner[c]] = Expired(item[owner[c]])]
        BY <3>1 DEF Expire
      <4> QED
        BY <1>t, <4>1 DEF Expired
    <3>2. CASE ExecuteAgain(c)
      <4>1. PICK x \in Outcomes(cmd[c], item[owner[c]], Abandoned) :
              item' = [item EXCEPT ![owner[c]] = x] /\ step[c] = "again"
        BY <3>2 DEF ExecuteAgain
      <4>2. x \in {item[owner[c]], Expiring, NoItem, Abandoned}
        BY OutcomeValues
      <4> QED
        BY <1>t, <4>1, <4>2
    <3>3. CASE ExpireNew(c)
      <4>1. /\ item' = [item EXCEPT ![owner_new[c]] = Expired(item[owner_new[c]])]
            /\ step[c] = "expire_new"
        BY <3>3 DEF ExpireNew
      <4> QED
        BY <1>t, <4>1 DEF Expired
    <3> QED
      BY <1>6, <3>1, <3>2, <3>3 DEF CommandStep
  <2> QED
    BY <1>1, <2>1, <2>2
<1>7. CASE OperatorStep \/ Publish \/ Vanish \/ UNCHANGED vars
  <2>1. UNCHANGED <<step, owner>>
    BY <1>7 DEF OperatorStep, Publish, Vanish, vars, ringVars
  <2>2. item'[s] = item[s]
    BY <1>7, <1>t DEF OperatorStep, Publish, Vanish, vars
  <2> QED
    BY <1>h, <2>1, <2>2
<1> QED
  BY <1>2, <1>3, <1>4, <1>5, <1>6, <1>7 DEF Next, Crash, ExecuteNowhere

(* In a table with a timeout a key stays without expiry only if one of     *)
(* these commands made it, or a repetition, or a client that crashed.      *)
THEOREM OnlyTheseKeysStay == Spec => []OnlyTheseStay
PROOF
<1>1. Init => OnlyTheseStay
  BY ReshardingAssumption DEF Init, OnlyTheseStay
<1> QED
  BY <1>1, TypeInit, TypeNext, OnlyTheseStayNext, PTL DEF Spec

-----------------------------------------------------------------------------
(* Keeping up with the operator.  Every client that had no bad luck Follows*)
(* the configuration with the messages it has yet to handle, the one that  *)
(* is written and not yet published included; and it repeats a command     *)
(* only in the state "syning", which cannot change before the command ends.*)

Queue(c) == IF pending = NoMessage THEN stream[c] ELSE Append(stream[c], pending)

KeepsUp(c) ==
    Follows(Queue(c), cfg.status, Owner(cfg.address), Owner(cfg.oldaddress),
            state[c] = "syning", owner[c], owner_new[c])

Repeats(c) == step[c] \in {"again", "expire_new"} \/ cmd[c] # NoCommand

(* A client is given no message before it has subscribed, and the operator *)
(* has not moved since it read the status, or it is excused.               *)
Begun(c) ==
    /\ phase[c] # "running" => stream[c] = <<>>
    /\ excuse[c] = "none" /\ phase[c] \in StartWindow => pending = NoMessage
    /\ excuse[c] = "none" /\ phase[c] \in {"ring_new", "ring"} =>
          /\ state[c] = cfg.status /\ cfg.status # "toconvert"
          /\ phase[c] = "ring" /\ cfg.status = "syning" => owner_new[c] = Owner(cfg.address)

FollowInv ==
    /\ \A c \in Clients : Begun(c)
    /\ \A c \in Clients : Good(c) => KeepsUp(c)
    /\ \A c \in Clients : Repeats(c) => state[c] = "syning"
    /\ \A c \in Clients : step[c] = "idle" => cmd[c] = NoCommand

(* The messages of the queue are the unread ones.                          *)
LEMMA QueueElements ==
    ASSUME TypeInv, NEW c \in Clients
    PROVE  /\ Queue(c) \in Seq(Status)
           /\ \A i \in 1 .. Len(Queue(c)) : Queue(c)[i] \in Unread(c)
           /\ pending = NoMessage =>
                 \A m \in Messages(c) : \E i \in 1 .. Len(Queue(c)) : Queue(c)[i] = m
PROOF
<1>1. /\ stream[c] \in Seq(Status) /\ pending \in Status \cup {NoMessage}
      /\ NoMessage \notin Status
  BY ReshardingAssumption DEF TypeInv, TypeOK, Config!TypeOK, Config!Status, Status
<1>2. /\ Len(stream[c]) \in Nat /\ DOMAIN stream[c] = 1 .. Len(stream[c])
      /\ Messages(c) = {stream[c][i] : i \in 1 .. Len(stream[c])}
  BY <1>1, LenProperties DEF Messages, Range
<1>3. CASE pending = NoMessage
  BY <1>1, <1>2, <1>3 DEF Queue, Unread
<1>4. CASE pending # NoMessage
  <2>1. pending \in Status /\ Queue(c) = Append(stream[c], pending)
    BY <1>1, <1>4 DEF Queue
  <2>2. /\ Queue(c) \in Seq(Status) /\ Len(Queue(c)) = Len(stream[c]) + 1
        /\ \A i \in 1 .. Len(stream[c]) : Queue(c)[i] = stream[c][i]
        /\ Queue(c)[Len(stream[c]) + 1] = pending
    BY <1>1, <2>1, AppendProperties
  <2>3. ASSUME NEW i \in 1 .. Len(Queue(c)) PROVE Queue(c)[i] \in Unread(c)
    <3>1. CASE i = Len(stream[c]) + 1
      BY <2>2, <3>1 DEF Unread
    <3>2. CASE i # Len(stream[c]) + 1
      <4>1. i \in 1 .. Len(stream[c])
        BY <1>2, <2>2, <3>2
      <4> QED
        BY <1>2, <2>2, <4>1 DEF Unread
    <3> QED
      BY <3>1, <3>2
  <2> QED
    BY <1>4, <2>2, <2>3
<1> QED
  BY <1>3, <1>4

(* Of two steps of the queue, handling takes the first message off it, and *)
(* publishing leaves it alone.                                             *)
LEMMA QueueTail ==
    ASSUME TypeInv, NEW c \in Clients, NEW message, Handles(c, message)
    PROVE  /\ Queue(c) # <<>> /\ Head(Queue(c)) = message
           /\ Queue(c)' = Tail(Queue(c))
PROOF
<1> DEFINE s == stream[c]
<1>1. /\ s \in Seq(Status) /\ pending \in Status \cup {NoMessage}
      /\ NoMessage \notin Status
  BY ReshardingAssumption DEF TypeInv, TypeOK, Config!TypeOK, Config!Status, Status
<1>2. s # <<>> /\ Head(s) = message /\ stream' = [stream EXCEPT ![c] = Tail(s)]
      /\ pending' = pending
  BY DEF Handles, configVars
<1>3. stream'[c] = Tail(s)
  BY <1>2 DEF TypeInv, TypeOK
<1>4. CASE pending = NoMessage
  BY <1>2, <1>3, <1>4 DEF Queue
<1>5. CASE pending # NoMessage
  <2>1. pending \in Status
    BY <1>1, <1>5
  <2>2. Queue(c) = Append(s, pending) /\ Queue(c)' = Append(Tail(s), pending)
    BY <1>2, <1>3, <1>5 DEF Queue
  <2> HIDE DEF s
  <2>3. Append(s, pending) # <<>> /\ Head(Append(s, pending)) = Head(s)
        /\ Tail(Append(s, pending)) = Append(Tail(s), pending)
    BY <1>1, <1>2, <2>1
  <2> QED
    BY <1>2, <2>2, <2>3
<1> QED
  BY <1>4, <1>5

LEMMA FollowInit == Init => FollowInv
  BY DEF Init, FollowInv, Begun, Good, Up, StartWindow, Repeats

(* The steps of the client itself.                                         *)
LEMMA FollowHandle ==
    ASSUME TypeInv, NEW c \in Clients, KeepsUp(c), Handle(c)
    PROVE  KeepsUp(c)'
PROOF
<1> DEFINE syn == state[c] = "syning"
           now == Owner(cfg.address)
           old == Owner(cfg.oldaddress)
<1>1. Follows(Queue(c), cfg.status, now, old, syn, owner[c], owner_new[c])
  BY DEF KeepsUp
<1>2. /\ state \in [Clients -> Config!Status]
      /\ owner \in [Clients -> Servers \cup {NoServer}]
      /\ owner_new \in [Clients -> Servers \cup {NoServer}]
      /\ syn \in BOOLEAN
  BY DEF TypeInv, TypeOK
<1>3. PICK message \in Status : Handles(c, message) /\
           \/ message = "syning" /\ HandleStart(c)
           \/ message = "normal" /\ HandleNormal(c)
           \/ message = "change" /\ HandleChange(c)
           \/ message = "toconvert" /\ HandleEnd(c)
  BY DEF Handle, HandleStart, HandleNormal, HandleChange, HandleEnd, Status
<1>4. Queue(c) # <<>> /\ Head(Queue(c)) = message /\ Queue(c)' = Tail(Queue(c))
  BY <1>3, QueueTail
<1>5. cfg' = cfg
  BY <1>3 DEF Handles, configVars
<1> SUFFICES Follows(Tail(Queue(c)), cfg.status, now, old,
                     state'[c] = "syning", owner'[c], owner_new'[c])
  BY <1>4, <1>5 DEF KeepsUp
<1> HIDE DEF now, old
<1>6. CASE message = "syning"
  <2>1. Follows(Tail(Queue(c)), cfg.status, now, old, TRUE, owner[c], now)
    BY <1>1, <1>2, <1>4, <1>6, FollowsRead DEF Reads
  <2>2. (state'[c] = "syning") = TRUE /\ owner'[c] = owner[c] /\ owner_new'[c] = now
    BY <1>2, <1>3, <1>6 DEF HandleStart, now
  <2> QED
    BY <2>1, <2>2
<1>7. CASE message = "normal"
  <2>1. Follows(Tail(Queue(c)), cfg.status, now, old, FALSE, owner_new[c], NoServer)
    BY <1>1, <1>2, <1>4, <1>7, FollowsNormal
  <2>2. (state'[c] = "syning") = FALSE /\ owner'[c] = owner_new[c]
        /\ owner_new'[c] = NoServer
    BY <1>2, <1>3, <1>7 DEF HandleNormal
  <2> QED
    BY <2>1, <2>2
<1>8. CASE message = "change"
  <2>1. ~syn /\ Follows(Tail(Queue(c)), cfg.status, now, old, FALSE, now, owner_new[c])
    BY <1>1, <1>2, <1>4, <1>8, FollowsRead DEF Reads
  <2>2. (state'[c] = "syning") = FALSE /\ owner'[c] = now /\ owner_new'[c] = owner_new[c]
    BY <1>2, <1>3, <1>8, <2>1 DEF HandleChange, now
  <2> QED
    BY <2>1, <2>2
<1>9. CASE message = "toconvert"
  <2>1. Follows(Tail(Queue(c)), cfg.status, now, old, syn, owner[c], owner_new[c])
    BY <1>1, <1>2, <1>4, <1>9, FollowsToconvert
  <2>2. state'[c] = state[c] /\ owner'[c] = owner[c] /\ owner_new'[c] = owner_new[c]
    BY <1>3, <1>9 DEF HandleEnd
  <2> QED
    BY <2>1, <2>2
<1> QED
  BY <1>6, <1>7, <1>8, <1>9 DEF Status

LEMMA FollowUnchanged ==
    ASSUME NEW c \in Clients, KeepsUp(c),
           cfg' = cfg, pending' = pending, state'[c] = state[c], owner'[c] = owner[c],
           owner_new'[c] = owner_new[c], stream'[c] = stream[c]
    PROVE  KeepsUp(c)'
  BY DEF KeepsUp, Queue

(* A step of init, and the subscription.                                   *)
LEMMA FollowStart ==
    ASSUME TypeInv, NEW c \in Clients, Begun(c), Good(c) => KeepsUp(c), Starting(c)
    PROVE  Begun(c)' /\ (Good(c) => KeepsUp(c))'
PROOF
<1>t. /\ phase \in [Clients -> {"down", "running"} \cup StartWindow]
      /\ state \in [Clients -> Config!Status]
      /\ owner \in [Clients -> Servers \cup {NoServer}]
      /\ owner_new \in [Clients -> Servers \cup {NoServer}]
      /\ excuse \in [Clients -> {"none", "some"}]
      /\ cfg.status \in Status /\ Config!Status = Status
      /\ StartWindow = {"ring_new", "ring", "subscribe"}
  BY DEF TypeInv, TypeOK, Config!TypeOK, Config!Status, Status, StartWindow
<1>c. UNCHANGED <<cfg, pending, stream>>
  BY DEF Starting, Start, InitNew, InitRing, Subscribe, Begin, configVars
<1>1. CASE Start(c)
  <2>1. phase'[c] \in {"ring_new", "ring"} /\ stream[c] = <<>>
    BY <1>t, <1>1 DEF Start, Begun
  <2>2. excuse'[c] = "none" => pending = NoMessage /\ cfg.status # "toconvert"
    BY <1>t, <1>1 DEF Start
  <2>3. state'[c] = cfg.status /\ (cfg.status = "syning" => phase'[c] = "ring_new")
    BY <1>t, <1>1 DEF Start
  <2>4. Begun(c)'
    BY <1>c, <2>1, <2>2, <2>3 DEF Begun
  <2> QED
    BY <2>1, <2>4 DEF Good, Up
<1>2. CASE InitNew(c)
  <2>1. /\ phase[c] = "ring_new" /\ phase'[c] = "ring" /\ owner_new'[c] = Owner(cfg.address)
        /\ UNCHANGED <<state, excuse>>
    BY <1>t, <1>2 DEF InitNew, Begin
  <2> QED
    BY <1>t, <1>c, <2>1 DEF Begun, Good, Up
<1>3. CASE InitRing(c)
  <2>1. /\ phase[c] = "ring" /\ phase'[c] = "subscribe"
        /\ owner'[c] = Owner(IF state[c] = "syning" THEN cfg.oldaddress ELSE cfg.address)
        /\ UNCHANGED <<state, owner_new, excuse>>
    BY <1>t, <1>3 DEF InitRing, Begin
  <2>2. Begun(c)'
    BY <1>t, <1>c, <2>1 DEF Begun
  <2>3. SUFFICES ASSUME excuse[c] = "none" PROVE KeepsUp(c)'
    BY <2>1, <2>2 DEF Good
  <2>4. /\ pending = NoMessage /\ stream[c] = <<>>
        /\ state[c] = cfg.status /\ cfg.status # "toconvert"
        /\ cfg.status = "syning" => owner_new[c] = Owner(cfg.address)
    BY <1>t, <2>1, <2>3 DEF Begun
  <2>5. Queue(c)' = <<>>
    BY <1>c, <2>4 DEF Queue
  <2>6. Follows(<<>>, cfg.status, Owner(cfg.address), Owner(cfg.oldaddress),
                cfg.status = "syning", owner'[c], owner_new'[c])
    BY <1>t, <2>1, <2>4, FollowsFromStart
  <2> QED
    BY <1>c, <2>1, <2>4, <2>5, <2>6 DEF KeepsUp
<1>4. CASE Subscribe(c)
  <2>1. /\ phase[c] = "subscribe" /\ phase'[c] = "running"
        /\ UNCHANGED <<state, owner, owner_new, excuse>>
    BY <1>t, <1>4 DEF Subscribe, Begin
  <2> QED
    BY <1>t, <1>c, <2>1, FollowUnchanged DEF Begun, Good, Up
<1> QED
  BY <1>1, <1>2, <1>3, <1>4 DEF Starting

(* An operator step that does not overtake the client.                     *)
LEMMA FollowOperator ==
    ASSUME TypeInv, NEW c \in Clients, KeepsUp(c), OperatorStep,
           excuse[c] = "none", excuse'[c] = "none"
    PROVE  KeepsUp(c)'
PROOF
<1> DEFINE syn == state[c] = "syning"
<1>1. PICK next \in Successors(cfg.status), address \in Tables, oldaddress \in Tables :
          /\ Config!Step(next, address, oldaddress)
          /\ next \notin Reads => address = cfg.address /\ oldaddress = cfg.oldaddress
          /\ next = "syning" => oldaddress = cfg.address
          /\ next = "change" => address # cfg.address
  BY OperatorSteps DEF OperatorStep
<1>2. /\ pending = NoMessage /\ pending' = next
      /\ cfg' = [status |-> next, address |-> address, oldaddress |-> oldaddress]
      /\ UNCHANGED <<state, owner, owner_new, stream>>
  BY <1>1 DEF OperatorStep, Config!Step, ringVars
<1>3. next \in Status /\ next # NoMessage
  BY ReshardingAssumption DEF TypeInv, TypeOK, Config!TypeOK, Config!Status, Status, Successors
<1>4. Queue(c)' = Append(Queue(c), next)
  BY <1>2, <1>3 DEF Queue
<1>5. (\E i \in 1 .. Len(Queue(c)) : Queue(c)[i] \in Reads) =>
          next # "change" /\ Owner(address) = Owner(cfg.address)
  <2> SUFFICES ASSUME NEW i \in 1 .. Len(Queue(c)), Queue(c)[i] \in Reads
               PROVE  address = cfg.address
    BY <1>1
  <2>1. Queue(c)[i] \in Messages(c)
    <3>1. Queue(c)[i] \in Unread(c) /\ Queue(c)[i] # NoMessage
      BY QueueElements, ReshardingAssumption DEF Reads
    <3> QED
      BY <1>2, <3>1 DEF Unread
  <2>2. cfg'.address = cfg.address
    BY <2>1 DEF OperatorStep, Overtaken, Reads
  <2> QED
    BY <1>2, <2>2
<1>6. Follows(Queue(c), cfg.status, Owner(cfg.address), Owner(cfg.oldaddress),
              syn, owner[c], owner_new[c])
  BY DEF KeepsUp
<1>7. Follows(Append(Queue(c), next), next, Owner(address), Owner(oldaddress),
              syn, owner[c], owner_new[c])
  <2> DEFINE now == Owner(cfg.address)
             old == Owner(cfg.oldaddress)
             now_next == Owner(address)
             old_next == Owner(oldaddress)
  <2>1. /\ next \notin Reads => now_next = now /\ old_next = old
        /\ next = "syning" => old_next = now
        /\ syn \in BOOLEAN
    BY <1>1
  <2> HIDE DEF now, old, now_next, old_next, syn
  <2>2. /\ (\E i \in 1 .. Len(Queue(c)) : Queue(c)[i] \in Reads) =>
              next # "change" /\ now_next = now
        /\ Follows(Queue(c), cfg.status, now, old, syn, owner[c], owner_new[c])
    BY <1>5, <1>6 DEF now, old, now_next
  <2>3. Follows(Append(Queue(c), next), next, now_next, old_next,
                syn, owner[c], owner_new[c])
    BY <2>1, <2>2, FollowsOperator
  <2> QED
    BY <2>3 DEF now_next, old_next
<1> QED
  BY <1>2, <1>4, <1>7 DEF KeepsUp

LEMMA FollowNext == TypeInv /\ FollowInv /\ [Next]_vars => FollowInv'
PROOF
<1> DEFINE Holds(c) == /\ Begun(c)
                       /\ Good(c) => KeepsUp(c)
                       /\ Repeats(c) => state[c] = "syning"
                       /\ step[c] = "idle" => cmd[c] = NoCommand
<1> SUFFICES ASSUME TypeInv, FollowInv, [Next]_vars,
                    NEW c \in Clients
             PROVE  Holds(c)'
  BY DEF FollowInv
<1>h. Holds(c)
  BY DEF FollowInv
<1>t. /\ phase \in [Clients -> {"down", "running"} \cup StartWindow]
      /\ step \in [Clients -> {"idle", "expire", "again", "expire_new"}]
      /\ cmd \in [Clients -> Used \cup {NoCommand}]
      /\ excuse \in [Clients -> {"none", "some"}]
      /\ \A d \in Clients : ~Up(d) => step[d] = "idle"
      /\ StartWindow = {"ring_new", "ring", "subscribe"}
      /\ NoCommand \notin Used
  BY ReshardingAssumption DEF TypeInv, TypeOK, Idle, StartWindow
<1> DEFINE Same == /\ cfg' = cfg /\ pending' = pending
                   /\ state'[c] = state[c] /\ owner'[c] = owner[c]
                   /\ owner_new'[c] = owner_new[c] /\ stream'[c] = stream[c]
                   /\ phase'[c] = phase[c] /\ excuse'[c] = excuse[c]
           SameCommand == step'[c] = step[c] /\ cmd'[c] = cmd[c]
<1>1. ASSUME Same PROVE Begun(c)' /\ (Good(c) => KeepsUp(c))'
  BY <1>h, <1>1, FollowUnchanged DEF Begun, Good, Up
<1>2. ASSUME Same, SameCommand PROVE Holds(c)'
  BY <1>h, <1>1, <1>2 DEF Repeats
(* A step of another client.                                               *)
<1>3. ASSUME NEW d \in Clients, d # c, ClientStep(d) PROVE Same /\ SameCommand
  <2>1. CASE Starting(d)
    BY <1>3, <2>1 DEF Starting, Start, InitNew, InitRing, Subscribe, Begin,
       configVars, TypeInv, TypeOK
  <2>2. CASE Crash(d) \/ ExecuteNowhere(d)
    <3>1. Stop(d)
      BY <2>2 DEF Crash, ExecuteNowhere
    <3> QED
      BY <1>3, <3>1 DEF Stop, configVars, TypeInv, TypeOK
  <2>3. CASE Handle(d)
    <3>1. PICK message \in Status : Handles(d, message)
      BY <2>3 DEF Handle, HandleStart, HandleNormal, HandleChange, HandleEnd, Status
    <3>2. state'[c] = state[c] /\ owner'[c] = owner[c] /\ owner_new'[c] = owner_new[c]
      BY <1>3, <2>3 DEF Handle, HandleStart, HandleNormal, HandleChange, HandleEnd,
         TypeInv, TypeOK
    <3> QED
      BY <1>3, <3>1, <3>2 DEF Handles, configVars, TypeInv, TypeOK
  <2>4. CASE Execute(d) \/ CommandStep(d)
    <3>1. \E request, u : Continue(d, request, u)
      BY <2>4 DEF Execute, CommandStep, Expire, ExecuteAgain, ExpireNew
    <3> QED
      BY <1>3, <3>1 DEF Continue, configVars, ringVars, TypeInv, TypeOK
  <2> QED
    BY <1>3, <2>1, <2>2, <2>3, <2>4 DEF ClientStep
(* Its own steps.                                                          *)
<1>4. CASE Starting(c)
  <2>1. Begun(c)' /\ (Good(c) => KeepsUp(c))'
    BY <1>4, <1>h, FollowStart
  <2>2. UNCHANGED <<step, cmd>>
    BY <1>4 DEF Starting, Start, InitNew, InitRing, Subscribe, Begin
  <2>3. state'[c] = state[c] \/ step[c] = "idle"
    BY <1>4, <1>t DEF Starting, Start, InitNew, InitRing, Subscribe, Begin, Up
  <2> QED
    BY <1>h, <2>1, <2>2, <2>3 DEF Repeats
<1>5. CASE Crash(c) \/ ExecuteNowhere(c)
  <2>1. /\ phase'[c] = "down" /\ step'[c] = "idle" /\ cmd'[c] = NoCommand
        /\ stream'[c] = <<>>
    BY <1>5, <1>t DEF Crash, ExecuteNowhere, Stop, TypeInv, TypeOK
  <2> QED
    BY <1>t, <2>1 DEF Repeats, Begun, Good, Up
<1>6. CASE Handle(c)
  <2>1. /\ UNCHANGED <<phase, step, cmd, excuse>>
        /\ phase[c] = "running" /\ step[c] = "idle"
    BY <1>6 DEF Handle, HandleStart, HandleNormal, HandleChange, HandleEnd, Handles
  <2>2. (Good(c) => KeepsUp(c))'
    BY <1>6, <1>h, <2>1, FollowHandle DEF Good, Up
  <2> QED
    BY <1>h, <1>t, <2>1, <2>2 DEF Begun, Repeats
<1>7. CASE Execute(c)
  <2>1. PICK u \in Used :
          LET repeat == IF Mirrored(c, u) THEN u ELSE NoCommand
          IN  Continue(c, IF Table[u].iswrite /\ Timeout > 0
                          THEN "expire" ELSE AfterExpire(repeat), repeat)
    BY <1>7 DEF Execute
  <2> DEFINE repeat == IF Mirrored(c, u) THEN u ELSE NoCommand
  <2>2. /\ cmd'[c] = repeat
        /\ step'[c] = IF Table[u].iswrite /\ Timeout > 0 THEN "expire" ELSE AfterExpire(repeat)
        /\ Same
    BY <1>t, <2>1 DEF Continue, configVars, ringVars
  <2>3. repeat # NoCommand => state[c] = "syning"
    BY DEF Mirrored
  <2> HIDE DEF repeat
  <2>4. /\ Repeats(c)' => state'[c] = "syning"
        /\ step'[c] = "idle" => cmd'[c] = NoCommand
    BY <2>2, <2>3 DEF Repeats, AfterExpire
  <2> QED
    BY <1>1, <2>2, <2>4
<1>8. CASE CommandStep(c)
  <2>1. /\ Same
        /\ \/ step[c] = "expire" /\ step'[c] = AfterExpire(cmd[c]) /\ cmd'[c] = cmd[c]
           \/ /\ step[c] \in {"again", "expire_new"}
              /\ step'[c] \in {"expire_new", "idle"} /\ cmd'[c] = NoCommand
    BY <1>8, <1>t DEF CommandStep, Expire, ExecuteAgain, ExpireNew, Continue,
       configVars, ringVars
  <2>2. /\ Repeats(c)' => state'[c] = "syning"
        /\ step'[c] = "idle" => cmd'[c] = NoCommand
    BY <1>h, <2>1 DEF Repeats, AfterExpire
  <2> QED
    BY <1>1, <2>1, <2>2
(* The operator and the servers.                                           *)
<1>9. CASE OperatorStep
  <2>1. SameCommand /\ UNCHANGED <<state, stream, phase>>
    BY <1>9 DEF OperatorStep, ringVars
  <2>2. excuse'[c] = "none" => excuse[c] = "none" /\ phase[c] \notin StartWindow
    BY <1>9 DEF OperatorStep
  <2>3. (Good(c) => KeepsUp(c))'
    BY <1>9, <1>h, <2>1, <2>2, FollowOperator DEF Good, Up
  <2>4. Begun(c)'
    BY <1>h, <1>t, <2>1, <2>2 DEF Begun
  <2> QED
    BY <1>h, <2>1, <2>3, <2>4 DEF Repeats
<1>10. CASE Publish
  <2>1. SameCommand /\ UNCHANGED <<state, owner, owner_new, phase, excuse, cfg>>
    BY <1>10 DEF Publish, Config!Publish
  <2>2. /\ pending # NoMessage /\ pending' = NoMessage
        /\ stream'[c] = IF phase[c] = "running" THEN Append(stream[c], pending) ELSE stream[c]
    BY <1>10 DEF Publish, Config!Publish
  <2>3. Good(c) => Queue(c)' = Queue(c)
    BY <1>h, <1>t, <2>2 DEF Queue, Begun, Good, Up
  <2>4. (Good(c) => KeepsUp(c))'
    BY <1>h, <2>1, <2>3 DEF Good, Up, KeepsUp
  <2>5. Begun(c)'
    BY <1>h, <1>t, <2>1, <2>2 DEF Begun
  <2> QED
    BY <1>h, <2>1, <2>4, <2>5 DEF Repeats
<1>11. CASE Vanish \/ UNCHANGED vars
  BY <1>2, <1>11 DEF Vanish, vars, configVars, ringVars
<1> HIDE DEF Holds, Same, SameCommand
<1> QED
  BY <1>2, <1>3, <1>4, <1>5, <1>6, <1>7, <1>8, <1>9, <1>10, <1>11 DEF Next, ClientStep

LEMMA FollowInvariant == Spec => [](TypeInv /\ FollowInv)
PROOF
<1>1. QED
  BY TypeInit, TypeNext, FollowInit, FollowNext, PTL DEF Spec

(* Clients without bad luck use the same owner for the key, unless one has *)
(* yet to hear of a switch or of a moved host.                             *)
THEOREM OwnersAgree == Spec => []OneOwner
PROOF
<1>1. TypeInv /\ FollowInv => OneOwner
  <2> SUFFICES ASSUME TypeInv, FollowInv, NEW c \in Clients, NEW d \in Clients,
                      Good(c), Good(d),
                      (Unread(c) \cup Unread(d)) \cap {"normal", "change"} = {}
               PROVE  owner[c] = owner[d]
    BY DEF OneOwner
  <2>1. ASSUME NEW e \in Clients, Good(e), Unread(e) \cap {"normal", "change"} = {}
        PROVE  owner[e] = IF cfg.status \in InResharding
                          THEN Owner(cfg.oldaddress) ELSE Owner(cfg.address)
    <3>1. \A i \in 1 .. Len(Queue(e)) : Queue(e)[i] \notin {"normal", "change"}
      BY <2>1, QueueElements
    <3>2. KeepsUp(e)
      BY <2>1 DEF FollowInv
    <3> DEFINE syn == state[e] = "syning"
    <3>3. syn \in BOOLEAN
      OBVIOUS
    <3> QED
      BY <3>1, <3>2, <3>3, FollowsInUse DEF KeepsUp
  <2> QED
    BY <2>1
<1> QED
  BY <1>1, FollowInvariant, PTL

(* Such a client repeats a write only during a re-sharding, or as long as  *)
(* it has not heard of its end.                                            *)
THEOREM RepetitionsEnd == Spec => []RepeatsOnlyInResharding
PROOF
<1>1. TypeInv /\ FollowInv => RepeatsOnlyInResharding
  <2> SUFFICES ASSUME TypeInv, FollowInv, NEW c \in Clients, Good(c),
                      step[c] \in {"again", "expire_new"}, "normal" \notin Unread(c)
               PROVE  cfg.status \in InResharding
    BY DEF RepeatsOnlyInResharding, InResharding
  <2>1. \A i \in 1 .. Len(Queue(c)) : Queue(c)[i] # "normal"
    BY QueueElements
  <2>2. KeepsUp(c) /\ state[c] = "syning"
    BY DEF FollowInv, Repeats
  <2>3. Follows(Queue(c), cfg.status, Owner(cfg.address), Owner(cfg.oldaddress),
                TRUE, owner[c], owner_new[c])
    BY <2>2 DEF KeepsUp
  <2> QED
    BY <2>1, <2>3, FollowsToNormal
<1> QED
  BY <1>1, FollowInvariant, PTL
=============================================================================
