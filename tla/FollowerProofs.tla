--------------------------- MODULE FollowerProofs ---------------------------
(***************************************************************************)
(* How a client of the configuration server keeps up with re-shardings:    *)
(* the part of the argument that DataCenter and Resharding share.  It is   *)
(* about one client and the values of a moment:                            *)
(*   q         the messages that have yet to change the client's rings,    *)
(*             those still to be published included                        *)
(*   status    the status on the configuration server                      *)
(*   now, old  what rings over the current and the old addresses would be  *)
(*   syn       the client believes that a re-sharding is going on          *)
(*   use, new  what the ring in use and the second ring are                *)
(* It is for a client that has reached every host, that started in step    *)
(* with the operator, and whose unread messages find the addresses they    *)
(* were sent for.                                                          *)
(***************************************************************************)
EXTENDS Naturals, Sequences, SequenceTheorems, TLAPS

Status == {"normal", "syning", "toconvert", "change"}
InResharding == {"syning", "toconvert"}

(* The messages whose handlers read the addresses.                         *)
Reads == {"syning", "change"}

(* The statuses an operator may go on to.                                  *)
Successors(status) ==
    IF status = "syning" THEN {"toconvert"}
    ELSE IF status = "toconvert" THEN {"normal"}
    ELSE {"syning", "change"}

(* The messages are a way the operator went, up to the status.             *)
Path(q, status) ==
    /\ status \in Status
    /\ q \in Seq(Status)
    /\ \A i \in 1 .. Len(q) : i + 1 \in 1 .. Len(q) => q[i + 1] \in Successors(q[i])
    /\ q # <<>> => q[Len(q)] = status

(* The client is where that way begins.                                    *)
InStep(q, status, syn) ==
    syn <=> IF q = <<>> THEN status \in InResharding
            ELSE q[1] \in {"toconvert", "normal"}

(* What the rings are.  While a single "syning" is unread, the ring that   *)
(* is in use when it is read is the old one.  When more than one message   *)
(* is to read the addresses, they have not changed since the first, so the *)
(* later ones are no "change", and the old addresses are the current ones. *)
RingsFit(q, now, old, syn, use, new) ==
    /\ (\A i \in 1 .. Len(q) : q[i] \notin Reads) =>
          IF syn THEN new = now /\ use = old ELSE use = now
    /\ \A i \in 1 .. Len(q) :
          q[i] = "syning" /\ (\A j \in 1 .. Len(q) : q[j] \in Reads => j = i) =>
              IF syn THEN new = old ELSE use = old
    /\ \A i, j \in 1 .. Len(q) :
          i < j /\ q[i] \in Reads /\ q[j] \in Reads => q[j] = "syning" /\ old = now

Follows(q, status, now, old, syn, use, new) ==
    /\ Path(q, status)
    /\ InStep(q, status, syn)
    /\ RingsFit(q, now, old, syn, use, new)

-----------------------------------------------------------------------------
(* A client that starts between two steps of the operator, but not in      *)
(* "toconvert".                                                            *)
LEMMA FollowsFromStart ==
    ASSUME NEW status \in Status, status # "toconvert",
           NEW now, NEW old, NEW use, NEW new,
           IF status = "syning" THEN use = old /\ new = now ELSE use = now
    PROVE  Follows(<<>>, status, now, old, status = "syning", use, new)
PROOF
<1>1. Len(<<>>) = 0 /\ <<>> \in Seq(Status)
  OBVIOUS
<1>2. Path(<<>>, status)
  BY <1>1 DEF Path
<1>3. InStep(<<>>, status, status = "syning")
  BY DEF InStep, InResharding, Status
<1>4. RingsFit(<<>>, now, old, status = "syning", use, new)
  BY <1>1 DEF RingsFit
<1> QED
  BY <1>2, <1>3, <1>4 DEF Follows

(* An operator step that the client is not overtaken by.                   *)
LEMMA FollowsOperator ==
    ASSUME NEW status, NEW now, NEW old, NEW syn \in BOOLEAN, NEW use, NEW new, NEW q,
           Follows(q, status, now, old, syn, use, new),
           NEW next \in Successors(status), NEW now_next, NEW old_next,
           next \notin Reads => now_next = now /\ old_next = old,
           next = "syning" => old_next = now,
           (\E i \in 1 .. Len(q) : q[i] \in Reads) =>
               next # "change" /\ now_next = now
    PROVE  Follows(Append(q, next), next, now_next, old_next, syn, use, new)
PROOF
<1> DEFINE r == Append(q, next)
           n == Len(q)
<1>1. status \in Status /\ q \in Seq(Status) /\ next \in Status
  BY DEF Follows, Path, Successors, Status
<1>2. /\ n \in Nat /\ Len(r) = n + 1 /\ r \in Seq(Status) /\ r # <<>>
      /\ \A i \in 1 .. n : r[i] = q[i]
      /\ r[n + 1] = next
      /\ q = <<>> <=> n = 0
  BY <1>1, AppendProperties, LenProperties, EmptySeq
<1> HIDE DEF r, n
<1>3. \A i \in 1 .. n : q[i] \in Status
  BY <1>1, ElementOfSeq DEF n
<1>4. Path(r, next)
  <2>1. ASSUME NEW i \in 1 .. n PROVE r[i + 1] \in Successors(r[i])
    <3>1. CASE i = n
      <4>1. r[i] = status
        BY <1>1, <1>2, <3>1 DEF Follows, Path, n
      <4> QED
        BY <1>2, <3>1, <4>1
    <3>2. CASE i # n
      <4>1. i + 1 \in 1 .. n
        BY <1>2, <3>2
      <4> QED
        BY <1>2, <4>1 DEF Follows, Path, n
    <3> QED
      BY <3>1, <3>2
  <2>2. \A i \in 1 .. Len(r) : i + 1 \in 1 .. Len(r) => i \in 1 .. n
    BY <1>2
  <2> QED
    BY <1>1, <1>2, <2>1, <2>2 DEF Path
<1>5. InStep(r, next, syn)
  <2>1. CASE n = 0
    BY <1>1, <1>2, <2>1 DEF Follows, InStep, InResharding, Successors, Status
  <2>2. CASE n # 0
    BY <1>2, <2>2 DEF Follows, InStep
  <2> QED
    BY <2>1, <2>2
<1>6. RingsFit(r, now_next, old_next, syn, use, new)
  <2>0. RingsFit(q, now, old, syn, use, new)
    BY DEF Follows
  <2>1. CASE next \notin Reads
    <3>1. now_next = now /\ old_next = old
      BY <2>1
    <3>2. \A i \in 1 .. n + 1 : r[i] \in Reads => i \in 1 .. n
      BY <1>2, <2>1
    <3>3. n = Len(q)
      BY DEF n
    <3> QED
      BY <1>2, <2>0, <3>1, <3>2, <3>3 DEF RingsFit, Reads
  <2>2. CASE next \in Reads /\ \E i \in 1 .. n : q[i] \in Reads
    <3>1. next = "syning" /\ now_next = now /\ old_next = now
      BY <2>2 DEF Reads, n
    <3>2. PICK k \in 1 .. n : q[k] \in Reads
      BY <2>2
    <3>3. r[k] \in Reads /\ r[n + 1] \in Reads /\ k # n + 1 /\ n + 1 \in 1 .. Len(r)
      BY <1>2, <2>2, <3>2
    <3>4. \A i, j \in 1 .. n :
              i < j /\ q[i] \in Reads /\ q[j] \in Reads => q[j] = "syning"
      BY <2>0 DEF RingsFit, n
    <3>5. \A i, j \in 1 .. n + 1 :
              i < j /\ r[i] \in Reads /\ r[j] \in Reads => r[j] = "syning"
      BY <1>2, <3>1, <3>4
    <3> QED
      BY <1>2, <3>1, <3>3, <3>5, <3>2 DEF RingsFit
  <2>3. CASE next \in Reads /\ ~\E i \in 1 .. n : q[i] \in Reads
    <3>1. \A i \in 1 .. n + 1 : r[i] \in Reads => i = n + 1
      BY <1>2, <2>3
    <3>2. IF syn THEN new = now ELSE use = now
      BY <2>0, <2>3 DEF RingsFit, n
    <3>3. n + 1 \in 1 .. Len(r) /\ r[n + 1] \in Reads
      BY <1>2, <2>3
    <3> QED
      BY <1>2, <3>1, <3>2, <3>3 DEF RingsFit
  <2> QED
    BY <2>1, <2>2, <2>3
<1> QED
  BY <1>4, <1>5, <1>6 DEF Follows, r

(* What is left of the messages when the first one is handled.             *)
LEMMA TailOfMessages ==
    ASSUME NEW q \in Seq(Status), q # <<>>
    PROVE  /\ Tail(q) \in Seq(Status)
           /\ Len(q) \in Nat \ {0} /\ Len(Tail(q)) = Len(q) - 1
           /\ Tail(q) = <<>> <=> Len(q) = 1
           /\ Head(q) = q[1] /\ q[1] \in Status
           /\ \A i \in 1 .. Len(Tail(q)) : i + 1 \in 1 .. Len(q) /\ Tail(q)[i] = q[i + 1]
           /\ \A i \in 1 .. Len(q) : i # 1 => i - 1 \in 1 .. Len(Tail(q)) /\ (i - 1) + 1 = i
PROOF
<1>1. /\ Tail(q) \in Seq(Status) /\ Len(Tail(q)) = Len(q) - 1
      /\ \A i \in 1 .. Len(Tail(q)) : Tail(q)[i] = q[i + 1]
  BY HeadTailProperties
<1>2. Len(q) \in Nat \ {0}
  BY EmptySeq
<1>3. Tail(q) = <<>> <=> Len(Tail(q)) = 0
  BY <1>1, EmptySeq
<1>4. Head(q) = q[1] /\ q[1] \in Status
  BY <1>2, ElementOfSeq
<1> QED
  BY <1>1, <1>2, <1>3, <1>4

LEMMA TailOfPath ==
    ASSUME NEW q, NEW status, Path(q, status), q # <<>>
    PROVE  /\ Path(Tail(q), status)
           /\ Tail(q) # <<>> => Tail(q)[1] \in Successors(q[1])
           /\ Tail(q) = <<>> => q[1] = status
PROOF
<1>1. q \in Seq(Status)
  BY DEF Path
<1> DEFINE n == Len(q)
           r == Tail(q)
           m == Len(r)
<1>2. /\ r \in Seq(Status) /\ n \in Nat \ {0} /\ m = n - 1 /\ (r = <<>> <=> n = 1)
      /\ \A i \in 1 .. m : r[i] = q[i + 1]
  BY <1>1, TailOfMessages
<1>3. \A i \in 1 .. n : i + 1 \in 1 .. n => q[i + 1] \in Successors(q[i])
  BY DEF Path
<1>4. q[n] = status /\ status \in Status
  BY DEF Path
<1> HIDE DEF n, r, m
<1>5. \A i \in 1 .. m : i + 1 \in 1 .. m => r[i + 1] \in Successors(r[i])
  BY <1>2, <1>3
<1>6. r # <<>> => r[m] = status /\ r[1] \in Successors(q[1])
  BY <1>2, <1>3, <1>4
<1>7. r = <<>> => q[1] = status
  BY <1>2, <1>4
<1>8. Path(r, status)
  BY <1>2, <1>4, <1>5, <1>6 DEF Path, m
<1> QED
  BY <1>6, <1>7, <1>8 DEF r

(* Whether a re-sharding goes on after a message is what the message says. *)
LEMMA StepOfTail ==
    ASSUME NEW q, NEW status, Path(q, status), q # <<>>,
           NEW syn \in BOOLEAN, syn <=> q[1] \in InResharding
    PROVE  InStep(Tail(q), status, syn)
  BY TailOfPath, TailOfMessages DEF Path, InStep, InResharding, Successors, Status

(* The end of the copying.                                                 *)
LEMMA FollowsToconvert ==
    ASSUME NEW q, NEW status, NEW now, NEW old, NEW syn \in BOOLEAN, NEW use, NEW new,
           Follows(q, status, now, old, syn, use, new),
           q # <<>>, Head(q) = "toconvert"
    PROVE  Follows(Tail(q), status, now, old, syn, use, new)
PROOF
<1> DEFINE n == Len(q)
           r == Tail(q)
           m == Len(r)
<1>1. Path(q, status) /\ q \in Seq(Status) /\ RingsFit(q, now, old, syn, use, new)
  BY DEF Follows, Path
<1>2. /\ n \in Nat \ {0} /\ m = n - 1 /\ q[1] = "toconvert"
      /\ \A i \in 1 .. m : i + 1 \in 1 .. n /\ r[i] = q[i + 1]
      /\ \A i \in 1 .. n : i # 1 => i - 1 \in 1 .. m /\ (i - 1) + 1 = i
  BY <1>1, TailOfMessages
<1>3. syn
  BY <1>2 DEF Follows, InStep
<1>4. InStep(r, status, syn)
  BY <1>1, <1>2, <1>3, StepOfTail DEF InResharding
<1>5. RingsFit(r, now, old, syn, use, new)
  <2> HIDE DEF n, r, m
  <2>1. \A i \in 1 .. n : q[i] \in Reads => i # 1
    BY <1>2 DEF Reads
  <2>2. \A i \in 1 .. n : q[i] \in Reads => i - 1 \in 1 .. m /\ r[i - 1] = q[i]
    BY <1>2, <2>1
  <2>3. (\A i \in 1 .. m : r[i] \notin Reads) => new = now /\ use = old
    BY <1>1, <1>3, <2>2 DEF RingsFit, n
  <2>4. ASSUME NEW i \in 1 .. m, r[i] = "syning",
               \A j \in 1 .. m : r[j] \in Reads => j = i
        PROVE  new = old
    <3>1. i + 1 \in 1 .. n /\ q[i + 1] = "syning"
      BY <1>2, <2>4
    <3>2. \A j \in 1 .. n : q[j] \in Reads => j = i + 1
      BY <1>2, <2>2, <2>4
    <3> QED
      BY <1>1, <1>3, <3>1, <3>2 DEF RingsFit, n
  <2>5. ASSUME NEW i \in 1 .. m, NEW j \in 1 .. m, i < j, r[i] \in Reads, r[j] \in Reads
        PROVE  r[j] = "syning" /\ old = now
    BY <1>1, <1>2, <2>5 DEF RingsFit, n
  <2> QED
    BY <1>3, <2>3, <2>4, <2>5 DEF RingsFit, m
<1> QED
  BY <1>1, <1>4, <1>5, TailOfPath DEF Follows

(* The conversion: the second ring is the one in use now.                  *)
LEMMA FollowsNormal ==
    ASSUME NEW q, NEW status, NEW now, NEW old, NEW syn \in BOOLEAN, NEW use, NEW new,
           Follows(q, status, now, old, syn, use, new),
           q # <<>>, Head(q) = "normal", NEW emptied
    PROVE  /\ syn
           /\ Follows(Tail(q), status, now, old, FALSE, new, emptied)
PROOF
<1> DEFINE n == Len(q)
           r == Tail(q)
           m == Len(r)
<1>1. Path(q, status) /\ q \in Seq(Status) /\ RingsFit(q, now, old, syn, use, new)
  BY DEF Follows, Path
<1>2. /\ n \in Nat \ {0} /\ m = n - 1 /\ q[1] = "normal"
      /\ \A i \in 1 .. m : i + 1 \in 1 .. n /\ r[i] = q[i + 1]
      /\ \A i \in 1 .. n : i # 1 => i - 1 \in 1 .. m /\ (i - 1) + 1 = i
  BY <1>1, TailOfMessages
<1>3. syn
  BY <1>2 DEF Follows, InStep
<1>4. InStep(r, status, FALSE)
  BY <1>1, <1>2, StepOfTail DEF InResharding
<1>5. RingsFit(r, now, old, FALSE, new, emptied)
  <2> HIDE DEF n, r, m
  <2>1. \A i \in 1 .. n : q[i] \in Reads => i # 1
    BY <1>2 DEF Reads
  <2>2. \A i \in 1 .. n : q[i] \in Reads => i - 1 \in 1 .. m /\ r[i - 1] = q[i]
    BY <1>2, <2>1
  <2>3. (\A i \in 1 .. m : r[i] \notin Reads) => new = now
    BY <1>1, <1>3, <2>2 DEF RingsFit, n
  <2>4. ASSUME NEW i \in 1 .. m, r[i] = "syning",
               \A j \in 1 .. m : r[j] \in Reads => j = i
        PROVE  new = old
    <3>1. i + 1 \in 1 .. n /\ q[i + 1] = "syning"
      BY <1>2, <2>4
    <3>2. \A j \in 1 .. n : q[j] \in Reads => j = i + 1
      BY <1>2, <2>2, <2>4
    <3> QED
      BY <1>1, <1>3, <3>1, <3>2 DEF RingsFit, n
  <2>5. ASSUME NEW i \in 1 .. m, NEW j \in 1 .. m, i < j, r[i] \in Reads, r[j] \in Reads
        PROVE  r[j] = "syning" /\ old = now
    BY <1>1, <1>2, <2>5 DEF RingsFit, n
  <2> QED
    BY <2>3, <2>4, <2>5 DEF RingsFit, m
<1> QED
  BY <1>1, <1>3, <1>4, <1>5, TailOfPath DEF Follows

(* After a message that reads the addresses, the rest of the messages can  *)
(* only repeat them.                                                       *)
LEMMA FollowsRead ==
    ASSUME NEW q, NEW status, NEW now, NEW old, NEW syn \in BOOLEAN, NEW use, NEW new,
           Follows(q, status, now, old, syn, use, new),
           q # <<>>, Head(q) \in Reads
    PROVE  /\ ~syn
           /\ Head(q) = "syning" => Follows(Tail(q), status, now, old, TRUE, use, now)
           /\ Head(q) = "change" => Follows(Tail(q), status, now, old, FALSE, now, new)
PROOF
<1> DEFINE n == Len(q)
           r == Tail(q)
           m == Len(r)
<1>1. Path(q, status) /\ q \in Seq(Status) /\ RingsFit(q, now, old, syn, use, new)
  BY DEF Follows, Path
<1>2. /\ n \in Nat \ {0} /\ m = n - 1 /\ q[1] \in Reads /\ q[1] = Head(q)
      /\ \A i \in 1 .. m : i + 1 \in 1 .. n /\ r[i] = q[i + 1]
      /\ \A i \in 1 .. n : i # 1 => i - 1 \in 1 .. m /\ (i - 1) + 1 = i
  BY <1>1, TailOfMessages
<1>3. ~syn
  BY <1>2 DEF Follows, InStep, Reads
<1>4. /\ Head(q) = "syning" => InStep(r, status, TRUE)
      /\ Head(q) = "change" => InStep(r, status, FALSE)
  BY <1>1, <1>2, StepOfTail DEF InResharding
<1>5. \A i \in 1 .. m : r[i] \in Reads => r[i] = "syning" /\ old = now
  <2> HIDE DEF n, r, m
  <2> SUFFICES ASSUME NEW i \in 1 .. m, r[i] \in Reads PROVE r[i] = "syning" /\ old = now
    OBVIOUS
  <2>1. i + 1 \in 1 .. n /\ 1 \in 1 .. n /\ 1 < i + 1 /\ q[i + 1] \in Reads /\ r[i] = q[i + 1]
    BY <1>2
  <2> QED
    BY <1>1, <1>2, <2>1 DEF RingsFit, n
<1>6. (\A i \in 1 .. m : r[i] \notin Reads) /\ Head(q) = "syning" => use = old
  <2> HIDE DEF r, m
  <2>1. (\A i \in 1 .. m : r[i] \notin Reads) => \A i \in 1 .. n : q[i] \in Reads => i = 1
    BY <1>2
  <2>2. 1 \in 1 .. n
    BY <1>2
  <2> QED
    BY <1>1, <1>2, <1>3, <2>1, <2>2 DEF RingsFit
<1>7. Head(q) = "syning" => RingsFit(r, now, old, TRUE, use, now)
  <2> HIDE DEF n, r
  <2> QED
    BY <1>5, <1>6 DEF RingsFit, Reads
<1>8. Head(q) = "change" => RingsFit(r, now, old, FALSE, now, new)
  <2> HIDE DEF n, r
  <2> QED
    BY <1>5, <1>6 DEF RingsFit, Reads
<1> QED
  BY <1>1, <1>3, <1>4, <1>7, <1>8, TailOfPath DEF Follows

-----------------------------------------------------------------------------
(* A client that has handled everything is where the operator is.          *)
LEMMA FollowsToEnd ==
    ASSUME NEW status, NEW now, NEW old, NEW syn \in BOOLEAN, NEW use, NEW new,
           Follows(<<>>, status, now, old, syn, use, new)
    PROVE  /\ syn <=> status \in InResharding
           /\ IF syn THEN new = now /\ use = old ELSE use = now
PROOF
<1>1. Len(<<>>) = 0
  OBVIOUS
<1> QED
  BY <1>1 DEF Follows, InStep, RingsFit

(* A client that believes in a re-sharding is right, or will hear of its   *)
(* end.                                                                    *)
LEMMA FollowsToNormal ==
    ASSUME NEW q, NEW status, NEW now, NEW old, NEW use, NEW new,
           Follows(q, status, now, old, TRUE, use, new),
           \A i \in 1 .. Len(q) : q[i] # "normal"
    PROVE  status \in InResharding
PROOF
<1>1. Path(q, status) /\ q \in Seq(Status) /\ InStep(q, status, TRUE)
  BY DEF Follows, Path
<1>2. CASE q = <<>>
  BY <1>1, <1>2 DEF InStep
<1>3. CASE q # <<>>
  <2>1. Len(q) \in Nat \ {0} /\ (Tail(q) = <<>> <=> Len(q) = 1) /\ Len(Tail(q)) = Len(q) - 1
        /\ \A i \in 1 .. Len(Tail(q)) : i + 1 \in 1 .. Len(q) /\ Tail(q)[i] = q[i + 1]
    BY <1>1, <1>3, TailOfMessages
  <2>2. q[1] = "toconvert"
    BY <1>1, <1>3, <2>1 DEF InStep
  <2>3. ASSUME Tail(q) # <<>> PROVE FALSE
    <3>1. Tail(q)[1] = "normal"
      BY <1>1, <1>3, <2>2, <2>3, TailOfPath DEF Successors
    <3>2. 1 \in 1 .. Len(Tail(q))
      BY <2>1, <2>3
    <3>3. 1 + 1 \in 1 .. Len(q) /\ q[1 + 1] = "normal"
      BY <2>1, <3>1, <3>2
    <3> QED
      BY <3>3
  <2> QED
    BY <1>1, <1>3, <2>2, <2>3, TailOfPath DEF InResharding
<1> QED
  BY <1>2, <1>3

(* Unless a switch or a moved host is unread, the ring in use is the one   *)
(* the status asks for, wherever the client is on its way.                 *)
LEMMA FollowsInUse ==
    ASSUME NEW q, NEW status, NEW now, NEW old, NEW syn \in BOOLEAN, NEW use, NEW new,
           Follows(q, status, now, old, syn, use, new),
           \A i \in 1 .. Len(q) : q[i] \notin {"normal", "change"}
    PROVE  use = IF status \in InResharding THEN old ELSE now
PROOF
<1> DEFINE n == Len(q)
<1>1. /\ status \in Status /\ q \in Seq(Status) /\ n \in Nat
      /\ \A i \in 1 .. n : i + 1 \in 1 .. n => q[i + 1] \in Successors(q[i])
      /\ n # 0 => q[n] = status
      /\ q = <<>> <=> n = 0
      /\ RingsFit(q, now, old, syn, use, new) /\ InStep(q, status, syn)
  BY LenProperties, EmptySeq DEF Follows, Path
<1>2. CASE n = 0
  BY <1>1, <1>2, FollowsToEnd
<1>3. CASE n # 0
  <2>1. \A i \in 1 .. n : q[i] \in {"syning", "toconvert"}
    BY <1>1, ElementOfSeq DEF Status
  <2>2. status \in InResharding
    BY <1>1, <1>3, <2>1 DEF InResharding
  <2>3. \A i \in 1 .. n : q[i] \in Reads => i = 1
    <3> SUFFICES ASSUME NEW i \in 1 .. n, q[i] \in Reads, i # 1 PROVE FALSE
      OBVIOUS
    <3>1. i - 1 \in 1 .. n /\ (i - 1) + 1 = i
      BY <1>1
    <3>2. q[i] \in Successors(q[i - 1]) /\ q[i - 1] \in {"syning", "toconvert"}
      BY <1>1, <2>1, <3>1
    <3> QED
      BY <3>2 DEF Successors, Reads
  <2>4. 1 \in 1 .. n
    BY <1>1, <1>3
  <2>5. CASE q[1] = "syning"
    <3>1. ~syn
      BY <1>1, <1>3, <2>5 DEF InStep
    <3> QED
      BY <1>1, <2>2, <2>3, <2>4, <2>5, <3>1 DEF RingsFit
  <2>6. CASE q[1] = "toconvert"
    <3>1. syn
      BY <1>1, <1>3, <2>6 DEF InStep
    <3>2. \A i \in 1 .. n : q[i] \notin Reads
      BY <2>3, <2>6 DEF Reads
    <3> QED
      BY <1>1, <2>2, <3>1, <3>2 DEF RingsFit
  <2> QED
    BY <2>1, <2>4, <2>5, <2>6
<1> QED
  BY <1>2, <1>3

-----------------------------------------------------------------------------
(* Queues of messages with one in hand.                                    *)

LEMMA MessageInHand ==
    ASSUME NEW T, NEW m \in T, NEW s \in Seq(T)
    PROVE  /\ <<m>> \o s \in Seq(T) /\ <<m>> \o s # <<>>
           /\ Head(<<m>> \o s) = m /\ Tail(<<m>> \o s) = s
           /\ \A i \in 1 .. Len(<<m>> \o s) :
                 \/ (<<m>> \o s)[i] = m
                 \/ \E j \in 1 .. Len(s) : (<<m>> \o s)[i] = s[j]
PROOF
<1> DEFINE q == <<m>> \o s
<1>1. /\ <<m>> \in Seq(T) /\ Len(<<m>>) = 1 /\ <<m>>[1] = m
  OBVIOUS
<1>2. /\ q \in Seq(T) /\ Len(q) = 1 + Len(s) /\ Len(s) \in Nat
      /\ \A i \in 1 .. 1 + Len(s) : q[i] = IF i <= 1 THEN <<m>>[i] ELSE s[i - 1]
  BY <1>1, ConcatProperties, LenProperties
<1> HIDE DEF q
<1>3. q[1] = m /\ \A i \in 1 .. Len(s) : q[i + 1] = s[i]
  BY <1>1, <1>2
<1>4. q # <<>>
  BY <1>2, EmptySeq
<1>5. /\ Head(q) = m /\ Tail(q) \in Seq(T) /\ Len(Tail(q)) = Len(s)
      /\ \A i \in 1 .. Len(s) : Tail(q)[i] = s[i]
  BY <1>2, <1>3, <1>4, HeadTailProperties
<1>6. Tail(q) = s
  BY <1>5, SeqEqual
<1>7. ASSUME NEW i \in 1 .. Len(q)
      PROVE  q[i] = m \/ \E j \in 1 .. Len(s) : q[i] = s[j]
  <2>1. CASE i = 1
    BY <1>3, <2>1
  <2>2. CASE i # 1
    <3>1. i - 1 \in 1 .. Len(s) /\ q[i] = s[i - 1]
      BY <1>2, <2>2
    <3> QED
      BY <3>1
  <2> QED
    BY <2>1, <2>2
<1> QED
  BY <1>2, <1>4, <1>5, <1>6, <1>7 DEF q

LEMMA TakeMessage ==
    ASSUME NEW T, NEW s \in Seq(T), s # <<>>
    PROVE  Head(s) \in T /\ Tail(s) \in Seq(T) /\ <<Head(s)>> \o Tail(s) = s
PROOF
<1> DEFINE q == <<Head(s)>> \o Tail(s)
<1>1. /\ Head(s) \in T /\ Tail(s) \in Seq(T) /\ Len(Tail(s)) = Len(s) - 1
      /\ \A i \in 1 .. Len(Tail(s)) : Tail(s)[i] = s[i + 1]
      /\ Len(s) \in Nat \ {0} /\ Head(s) = s[1]
  BY HeadTailProperties, EmptySeq
<1>2. /\ <<Head(s)>> \in Seq(T) /\ Len(<<Head(s)>>) = 1 /\ <<Head(s)>>[1] = s[1]
  BY <1>1
<1>3. /\ q \in Seq(T) /\ Len(q) = 1 + Len(Tail(s))
      /\ \A i \in 1 .. 1 + Len(Tail(s)) :
            q[i] = IF i <= 1 THEN <<Head(s)>>[i] ELSE Tail(s)[i - 1]
  BY <1>1, <1>2, ConcatProperties
<1> HIDE DEF q
<1>4. ASSUME NEW i \in 1 .. Len(q) PROVE q[i] = s[i]
  <2>1. CASE i = 1
    BY <1>2, <1>3, <1>1, <2>1
  <2>2. CASE i # 1
    <3>1. i - 1 \in 1 .. Len(Tail(s)) /\ q[i] = Tail(s)[i - 1] /\ (i - 1) + 1 = i
      BY <1>1, <1>3, <2>2
    <3> QED
      BY <1>1, <3>1
  <2> QED
    BY <2>1, <2>2
<1>5. q = s
  BY <1>1, <1>3, <1>4, SeqEqual
<1> QED
  BY <1>1, <1>5 DEF q

(* A message that arrives changes nothing at the front.                    *)
LEMMA AppendMessage ==
    ASSUME NEW T, NEW s \in Seq(T), NEW m \in T, NEW p \in T
    PROVE  /\ Append(<<m>> \o s, p) = <<m>> \o Append(s, p)
           /\ s # <<>> => /\ Head(Append(s, p)) = Head(s)
                          /\ Tail(Append(s, p)) = Append(Tail(s), p)
                          /\ Append(s, p) # <<>>
  BY Z3
=============================================================================
