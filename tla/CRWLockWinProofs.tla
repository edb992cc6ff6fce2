--------------------------- MODULE CRWLockWinProofs ---------------------------
(***************************************************************************)
(* The Windows branch of CRWLock is a readers-writer lock, for any number  *)
(* of threads: its counters are right, it loses no wake-up, and it         *)
(* implements RWLock.                                                      *)
(***************************************************************************)
EXTENDS CRWLockWin, FiniteSetTheorems, TLAPS

(* When thread p goes from one place to another, the number of threads in  *)
(* a set of places changes by what p's two places say.                     *)
LEMMA CountOfStep ==
    ASSUME NEW places, NEW p \in Procs, NEW place, Goto(p, place),
           DOMAIN pc = Procs, pc = [q \in Procs |-> pc[q]]
    PROVE  LET n == Cardinality(At(places))
               m == Cardinality(At(places)')
           IN  /\ n \in Nat
               /\ m \in Nat
               /\ pc[p] \in places /\ place \in places => m = n
               /\ pc[p] \notin places /\ place \notin places => m = n
               /\ pc[p] \notin places /\ place \in places => m = n + 1
               /\ pc[p] \in places /\ place \notin places => n = m + 1
<1> DEFINE A == At(places)
           B == At(places)'
<1>1. pc' = [pc EXCEPT ![p] = place]
  BY DEF Goto
<1>2. A = {q \in Procs : pc[q] \in places} /\ B = {q \in Procs : pc'[q] \in places}
  BY DEF At
<1>3. \A q \in Procs : pc'[q] = IF q = p THEN place ELSE pc[q]
  BY <1>1
<1>4. IsFiniteSet(A) /\ IsFiniteSet(B)
  BY <1>2, ProcsAssumption, FS_Subset
<1>5. Cardinality(A) \in Nat /\ Cardinality(B) \in Nat
  BY <1>4, FS_CardinalityType
<1>6. pc[p] \in places /\ place \in places => A = B
  BY <1>2, <1>3
<1>7. pc[p] \notin places /\ place \notin places => A = B
  BY <1>2, <1>3
<1>8. ASSUME pc[p] \notin places, place \in places
      PROVE  Cardinality(B) = Cardinality(A) + 1
  <2>1. B = A \cup {p} /\ p \notin A
    BY <1>2, <1>3, <1>8
  <2> QED BY <2>1, <1>4, FS_AddElement
<1>9. ASSUME pc[p] \in places, place \notin places
      PROVE  Cardinality(A) = Cardinality(B) + 1
  <2>1. A = B \cup {p} /\ p \notin B
    BY <1>2, <1>3, <1>9
  <2> QED BY <2>1, <1>4, FS_AddElement
<1> HIDE DEF A, B
<1>10. /\ Cardinality(A) \in Nat
       /\ Cardinality(B) \in Nat
       /\ pc[p] \in places /\ place \in places => Cardinality(B) = Cardinality(A)
       /\ pc[p] \notin places /\ place \notin places => Cardinality(B) = Cardinality(A)
       /\ pc[p] \notin places /\ place \in places => Cardinality(B) = Cardinality(A) + 1
       /\ pc[p] \in places /\ place \notin places => Cardinality(A) = Cardinality(B) + 1
  BY <1>5, <1>6, <1>7, <1>8, <1>9
<1> QED BY <1>10 DEF A, B

-----------------------------------------------------------------------------
(* The counters.                                                           *)

In(place, places) == IF place \in places THEN 1 ELSE 0

(* A step that moves thread p and changes every counter by what p's two    *)
(* places say keeps the counters right.                                    *)
LEMMA CountersFollow ==
    ASSUME TypeOK, CountsAreTrue, NEW p \in Procs, NEW place, Goto(p, place),
           m_rdcnt' = m_rdcnt + In(place, {"reading"}) - In(pc[p], {"reading"}),
           m_wrcnt' = m_wrcnt + In(place, {"writing"}) - In(pc[p], {"writing"}),
           m_rdwaitcnt' = m_rdwaitcnt
               + In(place, {"rd_wait", "rd_again", "rd_giveup"})
               - In(pc[p], {"rd_wait", "rd_again", "rd_giveup"}),
           m_wrwaitcnt' = m_wrwaitcnt
               + In(place, {"wr_wait", "wr_again", "wr_giveup"})
               - In(pc[p], {"wr_wait", "wr_again", "wr_giveup"})
    PROVE  /\ CountsAreTrue'
           /\ {m_rdcnt', m_wrcnt', m_rdwaitcnt', m_wrwaitcnt'} \subseteq Nat
<1>1. DOMAIN pc = Procs /\ pc = [q \in Procs |-> pc[q]]
  BY DEF TypeOK
<1>2. ASSUME NEW places
      PROVE  /\ Cardinality(At(places)) \in Nat
             /\ Cardinality(At(places)') \in Nat
             /\ Cardinality(At(places)') =
                    Cardinality(At(places)) + In(place, places) - In(pc[p], places)
  BY <1>1, CountOfStep DEF In
<1>3. /\ m_rdcnt' = Cardinality(At({"reading"})')
      /\ m_rdcnt' \in Nat
  BY <1>2 DEF CountsAreTrue
<1>4. /\ m_wrcnt' = Cardinality(At({"writing"})')
      /\ m_wrcnt' \in Nat
  BY <1>2 DEF CountsAreTrue
<1>5. /\ m_rdwaitcnt' = Cardinality(WaitingReaders')
      /\ m_rdwaitcnt' \in Nat
  BY <1>2 DEF CountsAreTrue, WaitingReaders
<1>6. /\ m_wrwaitcnt' = Cardinality(WaitingWriters')
      /\ m_wrwaitcnt' \in Nat
  BY <1>2 DEF CountsAreTrue, WaitingWriters
<1> QED BY <1>3, <1>4, <1>5, <1>6 DEF CountsAreTrue

(* In the beginning the types are right and nothing is counted.            *)
LEMMA CountsInit == Init => TypeOK /\ CountsAreTrue
<1> SUFFICES ASSUME Init PROVE TypeOK /\ CountsAreTrue
  OBVIOUS
<1>1. TypeOK
  BY DEF Init, TypeOK
<1>2. /\ At({"reading"}) = {} /\ At({"writing"}) = {}
      /\ WaitingReaders = {} /\ WaitingWriters = {}
  BY DEF Init, At, WaitingReaders, WaitingWriters
<1> QED BY <1>1, <1>2, FS_EmptySet DEF Init, CountsAreTrue

(* No step makes a counter wrong or a value leave its type.                *)
LEMMA CountsNext == TypeOK /\ CountsAreTrue /\ [Next]_vars => (TypeOK /\ CountsAreTrue)'
<1> SUFFICES ASSUME TypeOK, CountsAreTrue, [Next]_vars PROVE TypeOK' /\ CountsAreTrue'
  OBVIOUS
<1> DEFINE Places == {"idle", "reading", "rd_wait", "rd_again", "rd_giveup",
                      "writing", "wr_wait", "wr_again", "wr_giveup"}
<1>t. /\ m_rdcnt \in Nat /\ m_wrcnt \in Nat
      /\ m_rdwaitcnt \in Nat /\ m_wrwaitcnt \in Nat
      /\ rdEv \in BOOLEAN /\ wrEv \in BOOLEAN
      /\ pc \in [Procs -> Places]
  BY DEF TypeOK
<1>u. CASE UNCHANGED vars
  BY <1>u DEF vars, rdVars, wrVars, TypeOK, CountsAreTrue, At, WaitingReaders,
              WaitingWriters
<1> DEFINE Moved(p, place) ==
       /\ Goto(p, place)
       /\ m_rdcnt' = m_rdcnt + In(place, {"reading"}) - In(pc[p], {"reading"})
       /\ m_wrcnt' = m_wrcnt + In(place, {"writing"}) - In(pc[p], {"writing"})
       /\ m_rdwaitcnt' = m_rdwaitcnt
            + In(place, {"rd_wait", "rd_again", "rd_giveup"})
            - In(pc[p], {"rd_wait", "rd_again", "rd_giveup"})
       /\ m_wrwaitcnt' = m_wrwaitcnt
            + In(place, {"wr_wait", "wr_again", "wr_giveup"})
            - In(pc[p], {"wr_wait", "wr_again", "wr_giveup"})
       /\ rdEv' \in BOOLEAN
       /\ wrEv' \in BOOLEAN
<1>m. ASSUME NEW p \in Procs, NEW place \in Places, Moved(p, place)
      PROVE  TypeOK' /\ CountsAreTrue'
  <2>1. CountsAreTrue' /\ {m_rdcnt', m_wrcnt', m_rdwaitcnt', m_wrwaitcnt'} \subseteq Nat
    BY <1>m, CountersFollow
  <2>2. pc' \in [Procs -> Places]
    BY <1>t, <1>m DEF Goto
  <2>3. TypeOK'
    BY <1>m, <2>1, <2>2 DEF TypeOK
  <2> QED BY <2>1, <2>3
<1>n. CASE Next
  <2>1. PICK p \in Procs : ReadStep(p) \/ WriteStep(p)
    BY <1>n DEF Next
  <2>2. CASE EnterRead(p)
    <3>1. Moved(p, "reading")
      <4>1. CASE pc[p] = "idle"
        BY <1>t, <2>2, <4>1 DEF EnterRead, In, wrVars
      <4>2. CASE pc[p] = "rd_again"
        BY <1>t, <2>2, <4>2 DEF EnterRead, In, wrVars
      <4> QED BY <2>2, <4>1, <4>2 DEF EnterRead
    <3> QED BY <1>m, <3>1
  <2>3. CASE QueueRead(p)
    <3>1. Moved(p, "rd_wait")
      <4>1. /\ m_rdcnt' = m_rdcnt /\ m_wrcnt' = m_wrcnt
            /\ m_wrwaitcnt' = m_wrwaitcnt
            /\ m_rdwaitcnt' = IF pc[p] = "idle" THEN m_rdwaitcnt + 1 ELSE m_rdwaitcnt
            /\ Goto(p, "rd_wait") /\ rdEv' \in BOOLEAN /\ wrEv' \in BOOLEAN
        BY <1>t, <2>3 DEF QueueRead, wrVars
      <4>2. pc[p] \in {"idle", "rd_again"}
        BY <2>3 DEF QueueRead
      <4> QED BY <1>t, <4>1, <4>2 DEF In
    <3> QED BY <1>m, <3>1
  <2>4. CASE WakeRead(p)
    <3>1. Moved(p, "rd_again")
      <4>1. /\ m_rdcnt' = m_rdcnt /\ m_wrcnt' = m_wrcnt
            /\ m_rdwaitcnt' = m_rdwaitcnt /\ m_wrwaitcnt' = m_wrwaitcnt
            /\ Goto(p, "rd_again") /\ rdEv' \in BOOLEAN /\ wrEv' \in BOOLEAN
        BY <1>t, <2>4 DEF WakeRead, wrVars, rdVars
      <4>2. pc[p] = "rd_wait"
        BY <2>4 DEF WakeRead
      <4> QED BY <1>t, <4>1, <4>2 DEF In
    <3> QED BY <1>m, <3>1
  <2>5. CASE TimeoutRead(p)
    <3>1. Moved(p, "rd_giveup")
      BY <1>t, <2>5 DEF TimeoutRead, In, wrVars, rdVars
    <3> QED BY <1>m, <3>1
  <2>6. CASE GiveUpRead(p)
    <3>1. Moved(p, "idle")
      BY <1>t, <2>6 DEF GiveUpRead, In, wrVars
    <3> QED BY <1>m, <3>1
  <2>7. CASE UnlockRead(p)
    <3>1. Moved(p, "idle")
      BY <1>t, <2>7 DEF UnlockRead, WakeNext, In, wrVars
    <3> QED BY <1>m, <3>1
  <2>8. CASE EnterWrite(p)
    <3>1. Moved(p, "writing")
      <4>1. CASE pc[p] = "idle"
        BY <1>t, <2>8, <4>1 DEF EnterWrite, In, rdVars
      <4>2. CASE pc[p] = "wr_again"
        BY <1>t, <2>8, <4>2 DEF EnterWrite, In, rdVars
      <4> QED BY <2>8, <4>1, <4>2 DEF EnterWrite
    <3> QED BY <1>m, <3>1
  <2>9. CASE QueueWrite(p)
    <3>1. Moved(p, "wr_wait")
      <4>1. /\ m_wrcnt' = m_wrcnt /\ m_rdcnt' = m_rdcnt
            /\ m_rdwaitcnt' = m_rdwaitcnt
            /\ m_wrwaitcnt' = IF pc[p] = "idle" THEN m_wrwaitcnt + 1 ELSE m_wrwaitcnt
            /\ Goto(p, "wr_wait") /\ rdEv' \in BOOLEAN /\ wrEv' \in BOOLEAN
        BY <1>t, <2>9 DEF QueueWrite, rdVars
      <4>2. pc[p] \in {"idle", "wr_again"}
        BY <2>9 DEF QueueWrite
      <4> QED BY <1>t, <4>1, <4>2 DEF In
    <3> QED BY <1>m, <3>1
  <2>10. CASE WakeWrite(p)
    <3>1. Moved(p, "wr_again")
      <4>1. /\ m_rdcnt' = m_rdcnt /\ m_wrcnt' = m_wrcnt
            /\ m_rdwaitcnt' = m_rdwaitcnt /\ m_wrwaitcnt' = m_wrwaitcnt
            /\ Goto(p, "wr_again") /\ rdEv' \in BOOLEAN /\ wrEv' \in BOOLEAN
        BY <1>t, <2>10 DEF WakeWrite, wrVars, rdVars
      <4>2. pc[p] = "wr_wait"
        BY <2>10 DEF WakeWrite
      <4> QED BY <1>t, <4>1, <4>2 DEF In
    <3> QED BY <1>m, <3>1
  <2>11. CASE TimeoutWrite(p)
    <3>1. Moved(p, "wr_giveup")
      BY <1>t, <2>11 DEF TimeoutWrite, In, wrVars, rdVars
    <3> QED BY <1>m, <3>1
  <2>12. CASE GiveUpWrite(p)
    <3>1. Moved(p, "idle")
      BY <1>t, <2>12 DEF GiveUpWrite, In, rdVars
    <3> QED BY <1>m, <3>1
  <2>13. CASE UnlockWrite(p)
    <3>1. Moved(p, "idle")
      BY <1>t, <2>13 DEF UnlockWrite, WakeNext, In, rdVars
    <3> QED BY <1>m, <3>1
  <2> QED
    BY <2>1, <2>2, <2>3, <2>4, <2>5, <2>6, <2>7, <2>8, <2>9, <2>10, <2>11, <2>12,
       <2>13 DEF ReadStep, WriteStep
<1> QED BY <1>u, <1>n

(* Every value keeps its type, and no counter passes below zero.           *)
THEOREM LockTypeCorrect == Spec => []TypeOK
<1>1. TypeOK /\ CountsAreTrue /\ [Next]_vars => (TypeOK /\ CountsAreTrue)'
  BY CountsNext
<1> QED BY <1>1, CountsInit, PTL DEF Spec

(* The four counters of the lock always say how many threads are active    *)
(* and waiting (vos_lock.h:76-79).                                         *)
THEOREM CountersCorrect == Spec => []CountsAreTrue
<1>1. TypeOK /\ CountsAreTrue /\ [Next]_vars => (TypeOK /\ CountsAreTrue)'
  BY CountsNext
<1> QED BY <1>1, CountsInit, PTL DEF Spec

-----------------------------------------------------------------------------
(* A counter is zero when nobody is in the places it counts.               *)
LEMMA ZeroMeansNobody ==
    ASSUME CountsAreTrue
    PROVE  /\ m_rdcnt = 0 <=> \A q \in Procs : pc[q] # "reading"
           /\ m_wrcnt = 0 <=> \A q \in Procs : pc[q] # "writing"
           /\ m_rdwaitcnt = 0 <=>
                 \A q \in Procs : pc[q] \notin {"rd_wait", "rd_again", "rd_giveup"}
           /\ m_wrwaitcnt = 0 <=>
                 \A q \in Procs : pc[q] \notin {"wr_wait", "wr_again", "wr_giveup"}
<1>1. ASSUME NEW places
      PROVE  Cardinality(At(places)) = 0 <=> \A q \in Procs : pc[q] \notin places
  <2>1. At(places) \subseteq Procs
    BY DEF At
  <2>2. IsFiniteSet(At(places))
    BY <2>1, ProcsAssumption, FS_Subset
  <2>3. Cardinality(At(places)) = 0 <=> At(places) = {}
    BY <2>2, FS_EmptySet
  <2>4. At(places) = {} <=> \A q \in Procs : pc[q] \notin places
    BY DEF At
  <2> QED BY <2>3, <2>4
<1>2. m_rdcnt = 0 <=> \A q \in Procs : pc[q] \notin {"reading"}
  BY <1>1 DEF CountsAreTrue
<1>3. m_wrcnt = 0 <=> \A q \in Procs : pc[q] \notin {"writing"}
  BY <1>1 DEF CountsAreTrue
<1>4. m_rdwaitcnt = 0 <=>
          \A q \in Procs : pc[q] \notin {"rd_wait", "rd_again", "rd_giveup"}
  BY <1>1 DEF CountsAreTrue, WaitingReaders
<1>5. m_wrwaitcnt = 0 <=>
          \A q \in Procs : pc[q] \notin {"wr_wait", "wr_again", "wr_giveup"}
  BY <1>1 DEF CountsAreTrue, WaitingWriters
<1> QED BY <1>2, <1>3, <1>4, <1>5

(* Why nobody waits in vain.  A waiting writer has its event, or somebody  *)
(* who holds the lock, or a writer on its way to it or giving up.  A       *)
(* waiting reader has its event, or a holder, or a reader on its way or    *)
(* giving up, or a waiting writer, for which the former holds.             *)
Someone(places) == \E q \in Procs : pc[q] \in places

WritersHope ==
    Someone({"wr_wait"}) =>
        wrEv \/ Someone({"reading", "writing", "wr_again", "wr_giveup"})

ReadersHope ==
    Someone({"rd_wait"}) =>
        rdEv \/ Someone({"reading", "writing", "rd_again", "rd_giveup",
                         "wr_wait", "wr_again", "wr_giveup"})

WakeInv == TypeOK /\ CountsAreTrue /\ WritersHope /\ ReadersHope

(* At first nobody waits, so nobody needs a wake-up.                       *)
LEMMA HopeInit == Init => WritersHope /\ ReadersHope
  BY DEF Init, WritersHope, ReadersHope, Someone

(* No step takes hope away: only a thread that finds the lock busy, or a   *)
(* writer waiting, resets an event.                                        *)
LEMMA HopeNext == WakeInv /\ [Next]_vars => (WritersHope /\ ReadersHope)'
<1> SUFFICES ASSUME WakeInv, [Next]_vars PROVE WritersHope' /\ ReadersHope'
  OBVIOUS
<1> DEFINE Places == {"idle", "reading", "rd_wait", "rd_again", "rd_giveup",
                      "writing", "wr_wait", "wr_again", "wr_giveup"}
<1>t. /\ rdEv \in BOOLEAN /\ wrEv \in BOOLEAN
      /\ pc \in [Procs -> Places]
  BY DEF WakeInv, TypeOK
<1>h. WritersHope /\ ReadersHope
  BY DEF WakeInv
<1>z. /\ m_rdcnt = 0 <=> \A q \in Procs : pc[q] # "reading"
      /\ m_wrcnt = 0 <=> \A q \in Procs : pc[q] # "writing"
      /\ m_rdwaitcnt = 0 <=>
            \A q \in Procs : pc[q] \notin {"rd_wait", "rd_again", "rd_giveup"}
      /\ m_wrwaitcnt = 0 <=>
            \A q \in Procs : pc[q] \notin {"wr_wait", "wr_again", "wr_giveup"}
  BY ZeroMeansNobody DEF WakeInv
<1>u. CASE UNCHANGED vars
  <2>1. UNCHANGED <<rdEv, wrEv, pc>>
    BY <1>u DEF vars
  <2> QED BY <1>h, <2>1 DEF WritersHope, ReadersHope, Someone
<1>n. ASSUME NEW p \in Procs, ReadStep(p) \/ WriteStep(p)
      PROVE  WritersHope' /\ ReadersHope'
  <2>g. ASSUME NEW place, Goto(p, place)
        PROVE  pc'[p] = place /\ \A q \in Procs : q # p => pc'[q] = pc[q]
    BY <1>t, <2>g DEF Goto
  <2>1. CASE EnterRead(p) \/ EnterWrite(p)
    <3>1. pc'[p] \in {"reading", "writing"}
      BY <2>1, <2>g DEF EnterRead, EnterWrite
    <3> QED BY <3>1 DEF WritersHope, ReadersHope, Someone
  <2>2. CASE QueueRead(p)
    <3>1. /\ pc[p] \in {"idle", "rd_again"} /\ Goto(p, "rd_wait") /\ wrEv' = wrEv
          /\ m_wrcnt # 0 \/ m_wrwaitcnt # 0
      BY <2>2 DEF QueueRead
    <3>2. pc'[p] = "rd_wait" /\ \A q \in Procs : q # p => pc'[q] = pc[q]
      BY <2>g, <3>1
    <3>3. Someone({"writing", "wr_wait", "wr_again", "wr_giveup"})
      BY <1>z, <3>1 DEF Someone
    <3> QED BY <1>h, <3>1, <3>2, <3>3 DEF WritersHope, ReadersHope, Someone
  <2>3. CASE QueueWrite(p)
    <3>1. /\ pc[p] \in {"idle", "wr_again"} /\ Goto(p, "wr_wait")
          /\ m_rdcnt # 0 \/ m_wrcnt # 0
      BY <2>3 DEF QueueWrite
    <3>2. pc'[p] = "wr_wait" /\ \A q \in Procs : q # p => pc'[q] = pc[q]
      BY <2>g, <3>1
    <3>3. Someone({"reading", "writing"})
      BY <1>z, <3>1 DEF Someone
    <3> QED BY <3>1, <3>2, <3>3 DEF WritersHope, ReadersHope, Someone
  <2>4. CASE WakeRead(p) \/ TimeoutRead(p)
    <3>1. /\ pc[p] = "rd_wait" /\ wrEv' = wrEv
          /\ Goto(p, "rd_again") \/ Goto(p, "rd_giveup")
      BY <2>4 DEF WakeRead, TimeoutRead
    <3>2. /\ pc'[p] \in {"rd_again", "rd_giveup"}
          /\ \A q \in Procs : q # p => pc'[q] = pc[q]
      BY <2>g, <3>1
    <3> QED BY <1>h, <3>1, <3>2 DEF WritersHope, ReadersHope, Someone
  <2>5. CASE WakeWrite(p) \/ TimeoutWrite(p)
    <3>1. /\ pc[p] = "wr_wait"
          /\ Goto(p, "wr_again") \/ Goto(p, "wr_giveup")
      BY <2>5 DEF WakeWrite, TimeoutWrite
    <3>2. /\ pc'[p] \in {"wr_again", "wr_giveup"}
          /\ \A q \in Procs : q # p => pc'[q] = pc[q]
      BY <2>g, <3>1
    <3> QED BY <3>2 DEF WritersHope, ReadersHope, Someone
  <2>6. CASE GiveUpRead(p) \/ GiveUpWrite(p)
    BY <2>6 DEF GiveUpRead, GiveUpWrite, WritersHope, ReadersHope
  <2>7. CASE UnlockRead(p) \/ UnlockWrite(p)
    <3>1. WakeNext /\ Goto(p, "idle") /\ pc[p] \in {"reading", "writing"}
      BY <2>7 DEF UnlockRead, UnlockWrite
    <3>2. pc'[p] = "idle" /\ \A q \in Procs : q # p => pc'[q] = pc[q]
      BY <2>g, <3>1
    <3>3. ASSUME Someone({"wr_wait"})' PROVE wrEv'
      <4>1. m_wrwaitcnt # 0
        BY <1>z, <3>2, <3>3 DEF Someone
      <4> QED BY <3>1, <4>1 DEF WakeNext
    <3>4. ASSUME Someone({"rd_wait"})'
          PROVE  rdEv' \/ Someone({"wr_wait", "wr_again", "wr_giveup"})'
      <4>1. m_rdwaitcnt # 0
        BY <1>z, <3>2, <3>4 DEF Someone
      <4>2. CASE m_wrwaitcnt = 0
        BY <3>1, <4>1, <4>2 DEF WakeNext
      <4>3. CASE m_wrwaitcnt # 0
        BY <1>z, <3>1, <3>2, <4>3 DEF Someone
      <4> QED BY <4>2, <4>3
    <3> QED BY <3>3, <3>4 DEF WritersHope, ReadersHope, Someone
  <2> QED
    BY <1>n, <2>1, <2>2, <2>3, <2>4, <2>5, <2>6, <2>7 DEF ReadStep, WriteStep
<1> QED BY <1>u, <1>n DEF Next

(* No interleaving of timeouts, resets and wake-ups leaves everyone        *)
(* waiting for a lock that is free.                                        *)
THEOREM NoWakeupIsLost == Spec => []NoLostWakeup
<1>1. Init => WakeInv
  BY CountsInit, HopeInit DEF WakeInv
<1>2. WakeInv /\ [Next]_vars => WakeInv'
  BY CountsNext, HopeNext DEF WakeInv
<1>3. WakeInv => NoLostWakeup
  BY DEF WakeInv, WritersHope, ReadersHope, Someone, NoLostWakeup, Moving, At
<1> QED BY <1>1, <1>2, <1>3, PTL DEF Spec

-----------------------------------------------------------------------------
(* Refinement.                                                             *)

(* Every step of the Windows branch is a step of the lock it promises, or  *)
(* leaves that lock as it is.                                              *)
LEMMA LockStep ==
    TypeOK /\ CountsAreTrue /\ [Next]_vars =>
        [Lock!Next]_[readers |-> At({"reading"}), writers |-> At({"writing"})]
<1> DEFINE lock == [readers |-> At({"reading"}), writers |-> At({"writing"})]
<1> SUFFICES ASSUME TypeOK, CountsAreTrue, [Next]_vars PROVE Lock!Next \/ lock' = lock
  OBVIOUS
<1>t. pc \in [Procs -> {"idle", "reading", "rd_wait", "rd_again", "rd_giveup",
                        "writing", "wr_wait", "wr_again", "wr_giveup"}]
  BY DEF TypeOK
<1>l. /\ lock.readers = {q \in Procs : pc[q] = "reading"}
      /\ lock.writers = {q \in Procs : pc[q] = "writing"}
      /\ lock' = [readers |-> {q \in Procs : pc'[q] = "reading"},
                  writers |-> {q \in Procs : pc'[q] = "writing"}]
  BY DEF At
<1>u. CASE UNCHANGED vars
  BY <1>u DEF vars, At
<1>n. ASSUME NEW p \in Procs, ReadStep(p) \/ WriteStep(p)
      PROVE  Lock!Next \/ lock' = lock
  <2>g. ASSUME NEW place, Goto(p, place)
        PROVE  pc'[p] = place /\ \A q \in Procs : q # p => pc'[q] = pc[q]
    BY <1>t, <2>g DEF Goto
  <2>1. CASE EnterRead(p)
    <3>1. /\ pc[p] \in {"idle", "rd_again"}
          /\ pc'[p] = "reading" /\ \A q \in Procs : q # p => pc'[q] = pc[q]
          /\ m_wrcnt = 0
      BY <2>1, <2>g DEF EnterRead
    <3>2. At({"writing"}) = {}
      BY <3>1, ZeroMeansNobody DEF At
    <3>3. /\ At({"reading"})' = At({"reading"}) \cup {p}
          /\ At({"writing"})' = At({"writing"})
          /\ p \notin At({"reading"})
      BY <3>1 DEF At
    <3>4. Lock!LockRead(p)
      BY <3>2, <3>3 DEF Lock!LockRead
    <3>5. p \notin lock.readers
      BY <3>3
    <3> QED BY <3>4, <3>5 DEF Lock!Next
  <2>2. CASE EnterWrite(p)
    <3>1. /\ pc[p] \in {"idle", "wr_again"}
          /\ pc'[p] = "writing" /\ \A q \in Procs : q # p => pc'[q] = pc[q]
          /\ m_wrcnt = 0 /\ m_rdcnt = 0
      BY <2>2, <2>g DEF EnterWrite
    <3>2. At({"writing"}) = {} /\ At({"reading"}) = {}
      BY <3>1, ZeroMeansNobody DEF At
    <3>3. /\ At({"writing"})' = At({"writing"}) \cup {p}
          /\ At({"reading"})' = At({"reading"})
      BY <3>1 DEF At
    <3>4. Lock!LockWrite(p)
      BY <3>2, <3>3 DEF Lock!LockWrite
    <3> QED BY <3>4 DEF Lock!Next
  <2>3. CASE UnlockRead(p)
    <3>1. /\ pc[p] = "reading"
          /\ pc'[p] = "idle" /\ \A q \in Procs : q # p => pc'[q] = pc[q]
      BY <2>3, <2>g DEF UnlockRead
    <3>2. /\ At({"reading"})' = At({"reading"}) \ {p}
          /\ At({"writing"})' = At({"writing"})
          /\ p \in At({"reading"})
      BY <3>1 DEF At
    <3>3. Lock!UnlockRead(p)
      BY <3>2 DEF Lock!UnlockRead
    <3> QED BY <3>3 DEF Lock!Next
  <2>4. CASE UnlockWrite(p)
    <3>1. /\ pc[p] = "writing"
          /\ pc'[p] = "idle" /\ \A q \in Procs : q # p => pc'[q] = pc[q]
      BY <2>4, <2>g DEF UnlockWrite
    <3>2. /\ At({"writing"})' = At({"writing"}) \ {p}
          /\ At({"reading"})' = At({"reading"})
          /\ p \in At({"writing"})
      BY <3>1 DEF At
    <3>3. Lock!UnlockWrite(p)
      BY <3>2 DEF Lock!UnlockWrite
    <3> QED BY <3>3 DEF Lock!Next
  <2>5. CASE QueueRead(p) \/ WakeRead(p) \/ TimeoutRead(p) \/ GiveUpRead(p)
             \/ QueueWrite(p) \/ WakeWrite(p) \/ TimeoutWrite(p) \/ GiveUpWrite(p)
    <3>1. /\ pc[p] \notin {"reading", "writing"}
          /\ \E place \in {"idle", "rd_wait", "rd_again", "rd_giveup",
                           "wr_wait", "wr_again", "wr_giveup"} : Goto(p, place)
      BY <2>5 DEF QueueRead, WakeRead, TimeoutRead, GiveUpRead,
                  QueueWrite, WakeWrite, TimeoutWrite, GiveUpWrite
    <3>2. /\ pc'[p] \notin {"reading", "writing"}
          /\ \A q \in Procs : q # p => pc'[q] = pc[q]
      BY <3>1, <2>g
    <3>3. At({"reading"})' = At({"reading"}) /\ At({"writing"})' = At({"writing"})
      BY <3>1, <3>2 DEF At
    <3> QED BY <3>3
  <2> QED BY <1>n, <2>1, <2>2, <2>3, <2>4, <2>5 DEF ReadStep, WriteStep
<1> QED BY <1>u, <1>n DEF Next

(* The Windows branch implements the lock that DataCenter is verified      *)
(* with: readers share it, a writer has it alone.                          *)
THEOREM WindowsBranchCorrect == Spec => ImplementsRWLock
<1>1. Init => Lock!Init
  BY DEF Init, Lock!Init, At
<1>2. TypeOK /\ CountsAreTrue /\ [Next]_vars => (TypeOK /\ CountsAreTrue)'
  BY CountsNext
<1>3. TypeOK /\ CountsAreTrue /\ [Next]_vars =>
          [Lock!Next]_[readers |-> At({"reading"}), writers |-> At({"writing"})]
  BY LockStep
<1> QED
  BY <1>1, <1>2, <1>3, CountsInit, PTL DEF Spec, ImplementsRWLock, Lock!Spec
=============================================================================
