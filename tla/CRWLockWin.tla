----------------------------- MODULE CRWLockWin -----------------------------
(***************************************************************************)
(* The Windows branch of vos::CRWLock (vos_lock.h:74-209): a lock made of  *)
(* four counters, a critical section and two auto-reset events.            *)
(*                                                                         *)
(* What a thread does inside the critical section rwcs is one step; the    *)
(* wait for an event lies between two such steps.  The local variable wait *)
(* of the two lock functions is part of pc: it is true from the first      *)
(* unsuccessful pass of the loop on.  SetEvent leaves the event signaled   *)
(* until a waiting thread takes it: a thread that is about to wait and one *)
(* that already waits are the same here, so a ResetEvent may undo a        *)
(* SetEvent that a real waiter would already have got.                     *)
(***************************************************************************)
EXTENDS Integers, FiniteSets

CONSTANTS
    Readers,        \* threads that call lock_read
    Writers,        \* threads that call lock_write
    Timed           \* threads that give a timeout other than INFINITE

Procs == Readers \cup Writers

ASSUME ProcsAssumption == IsFiniteSet(Procs) /\ Timed \subseteq Procs

VARIABLES
    m_rdcnt,        \* number of active readers
    m_rdwaitcnt,    \* number of waiting readers
    m_wrcnt,        \* number of active writers
    m_wrwaitcnt,    \* number of waiting writers
    rdEv, wrEv,     \* the reader and the writer event: signaled or not
    pc              \* where each thread is

rdVars == <<m_rdcnt, m_rdwaitcnt>>
wrVars == <<m_wrcnt, m_wrwaitcnt>>
vars == <<rdVars, wrVars, rdEv, wrEv, pc>>

At(places) == {p \in Procs : pc[p] \in places}
Goto(p, place) == pc' = [pc EXCEPT ![p] = place]

(* Threads counted as waiting: the wait, or the pass after it, is ahead.   *)
WaitingReaders == At({"rd_wait", "rd_again", "rd_giveup"})
WaitingWriters == At({"wr_wait", "wr_again", "wr_giveup"})

Init ==
    /\ m_rdcnt = 0
    /\ m_rdwaitcnt = 0
    /\ m_wrcnt = 0
    /\ m_wrwaitcnt = 0
    /\ rdEv = TRUE
    /\ wrEv = TRUE
    /\ pc = [p \in Procs |-> "idle"]

-----------------------------------------------------------------------------
(* lock_read().                                                            *)

(* Faulty variant of EnterRead: it does not let waiting writers pass.      *)
EnterReadPassingWriters(p) ==
    /\ p \in Readers
    /\ pc[p] \in {"idle", "rd_again"}
    /\ m_wrcnt = 0
    /\ m_rdwaitcnt' = IF pc[p] = "rd_again" THEN m_rdwaitcnt - 1 ELSE m_rdwaitcnt
    /\ m_rdcnt' = m_rdcnt + 1
    /\ Goto(p, "reading")
    /\ UNCHANGED <<wrVars, rdEv, wrEv>>

(* Faulty variant of EnterRead: nobody is asked whether he has waited.     *)
EnterReadUncounting(p) ==
    /\ p \in Readers
    /\ pc[p] \in {"idle", "rd_again"}
    /\ m_wrcnt = 0
    /\ m_wrwaitcnt = 0
    /\ m_rdwaitcnt' = m_rdwaitcnt - 1
    /\ m_rdcnt' = m_rdcnt + 1
    /\ Goto(p, "reading")
    /\ UNCHANGED <<wrVars, rdEv, wrEv>>

(* No writer is active or waiting: the lock is taken.                      *)
EnterRead(p) ==
    /\ p \in Readers
    /\ pc[p] \in {"idle", "rd_again"}
    /\ m_wrcnt = 0
    /\ m_wrwaitcnt = 0
    /\ m_rdwaitcnt' = IF pc[p] = "rd_again" THEN m_rdwaitcnt - 1 ELSE m_rdwaitcnt
    /\ m_rdcnt' = m_rdcnt + 1
    /\ Goto(p, "reading")
    /\ UNCHANGED <<wrVars, rdEv, wrEv>>

(* Faulty variant of QueueRead: counted as waiting in every pass.          *)
QueueReadEveryPass(p) ==
    /\ p \in Readers
    /\ pc[p] \in {"idle", "rd_again"}
    /\ m_wrcnt # 0 \/ m_wrwaitcnt # 0
    /\ m_rdwaitcnt' = m_rdwaitcnt + 1
    /\ rdEv' = FALSE
    /\ Goto(p, "rd_wait")
    /\ UNCHANGED <<m_rdcnt, wrVars, wrEv>>

(* Otherwise the reader resets the event and is going to wait for it.      *)
QueueRead(p) ==
    /\ p \in Readers
    /\ pc[p] \in {"idle", "rd_again"}
    /\ m_wrcnt # 0 \/ m_wrwaitcnt # 0
    /\ m_rdwaitcnt' = IF pc[p] = "idle" THEN m_rdwaitcnt + 1 ELSE m_rdwaitcnt
    /\ rdEv' = FALSE
    /\ Goto(p, "rd_wait")
    /\ UNCHANGED <<m_rdcnt, wrVars, wrEv>>

(* WaitForSingleObject(rdEv) returns WAIT_OBJECT_0, and resets the event.  *)
WakeRead(p) ==
    /\ pc[p] = "rd_wait"
    /\ rdEv
    /\ rdEv' = FALSE
    /\ Goto(p, "rd_again")
    /\ UNCHANGED <<rdVars, wrVars, wrEv>>

(* ... or WAIT_TIMEOUT.                                                    *)
TimeoutRead(p) ==
    /\ p \in Timed
    /\ pc[p] = "rd_wait"
    /\ ~rdEv
    /\ Goto(p, "rd_giveup")
    /\ UNCHANGED <<rdVars, wrVars, rdEv, wrEv>>

(* After a timeout the reader passes the wake-up it may have cost somebody *)
(* on to both kinds of waiters, and returns false.                         *)
GiveUpRead(p) ==
    /\ pc[p] = "rd_giveup"
    /\ m_rdwaitcnt' = m_rdwaitcnt - 1
    /\ rdEv' = TRUE
    /\ wrEv' = TRUE
    /\ Goto(p, "idle")
    /\ UNCHANGED <<m_rdcnt, wrVars>>

(* unlock_read() and unlock_write() wake a writer, else a reader.          *)
WakeNext ==
    /\ wrEv' = (wrEv \/ m_wrwaitcnt # 0)
    /\ rdEv' = (rdEv \/ (m_wrwaitcnt = 0 /\ m_rdwaitcnt # 0))

UnlockRead(p) ==
    /\ pc[p] = "reading"
    /\ m_rdcnt' = m_rdcnt - 1
    /\ WakeNext
    /\ Goto(p, "idle")
    /\ UNCHANGED <<m_rdwaitcnt, wrVars>>

-----------------------------------------------------------------------------
(* lock_write().                                                           *)

(* Faulty variant of EnterWrite: only other writers are waited for.        *)
EnterWritePassingReaders(p) ==
    /\ p \in Writers
    /\ pc[p] \in {"idle", "wr_again"}
    /\ m_wrcnt = 0
    /\ m_wrwaitcnt' = IF pc[p] = "wr_again" THEN m_wrwaitcnt - 1 ELSE m_wrwaitcnt
    /\ m_wrcnt' = m_wrcnt + 1
    /\ Goto(p, "writing")
    /\ UNCHANGED <<rdVars, rdEv, wrEv>>

(* Nobody is active: the lock is taken.                                    *)
EnterWrite(p) ==
    /\ p \in Writers
    /\ pc[p] \in {"idle", "wr_again"}
    /\ m_rdcnt = 0
    /\ m_wrcnt = 0
    /\ m_wrwaitcnt' = IF pc[p] = "wr_again" THEN m_wrwaitcnt - 1 ELSE m_wrwaitcnt
    /\ m_wrcnt' = m_wrcnt + 1
    /\ Goto(p, "writing")
    /\ UNCHANGED <<rdVars, rdEv, wrEv>>

QueueWrite(p) ==
    /\ p \in Writers
    /\ pc[p] \in {"idle", "wr_again"}
    /\ m_rdcnt # 0 \/ m_wrcnt # 0
    /\ m_wrwaitcnt' = IF pc[p] = "idle" THEN m_wrwaitcnt + 1 ELSE m_wrwaitcnt
    /\ wrEv' = FALSE
    /\ Goto(p, "wr_wait")
    /\ UNCHANGED <<rdVars, m_wrcnt, rdEv>>

WakeWrite(p) ==
    /\ pc[p] = "wr_wait"
    /\ wrEv
    /\ wrEv' = FALSE
    /\ Goto(p, "wr_again")
    /\ UNCHANGED <<rdVars, wrVars, rdEv>>

TimeoutWrite(p) ==
    /\ p \in Timed
    /\ pc[p] = "wr_wait"
    /\ ~wrEv
    /\ Goto(p, "wr_giveup")
    /\ UNCHANGED <<rdVars, wrVars, rdEv, wrEv>>

(* Faulty variant of GiveUpWrite: nobody is told that a writer has gone.   *)
GiveUpWriteSilently(p) ==
    /\ pc[p] = "wr_giveup"
    /\ m_wrwaitcnt' = m_wrwaitcnt - 1
    /\ Goto(p, "idle")
    /\ UNCHANGED <<rdVars, m_wrcnt, rdEv, wrEv>>

GiveUpWrite(p) ==
    /\ pc[p] = "wr_giveup"
    /\ m_wrwaitcnt' = m_wrwaitcnt - 1
    /\ rdEv' = TRUE
    /\ wrEv' = TRUE
    /\ Goto(p, "idle")
    /\ UNCHANGED <<rdVars, m_wrcnt>>

UnlockWrite(p) ==
    /\ pc[p] = "writing"
    /\ m_wrcnt' = m_wrcnt - 1
    /\ WakeNext
    /\ Goto(p, "idle")
    /\ UNCHANGED <<rdVars, m_wrwaitcnt>>

-----------------------------------------------------------------------------
ReadStep(p) ==
    EnterRead(p) \/ QueueRead(p) \/ WakeRead(p) \/ TimeoutRead(p)
        \/ GiveUpRead(p) \/ UnlockRead(p)

WriteStep(p) ==
    EnterWrite(p) \/ QueueWrite(p) \/ WakeWrite(p) \/ TimeoutWrite(p)
        \/ GiveUpWrite(p) \/ UnlockWrite(p)

Next == \E p \in Procs : ReadStep(p) \/ WriteStep(p)

Spec == Init /\ [][Next]_vars

(* A thread that has asked for the lock or holds it goes on when it can;   *)
(* nothing makes a thread ask for it.                                      *)
Fairness == \A p \in Procs : WF_vars(pc[p] # "idle" /\ (ReadStep(p) \/ WriteStep(p)))

FairSpec == Spec /\ Fairness

-----------------------------------------------------------------------------
(* Every variable holds a value of its type: the DWORD counters never pass *)
(* below zero.                                                             *)
TypeOK ==
    /\ m_rdcnt \in Nat
    /\ m_rdwaitcnt \in Nat
    /\ m_wrcnt \in Nat
    /\ m_wrwaitcnt \in Nat
    /\ rdEv \in BOOLEAN
    /\ wrEv \in BOOLEAN
    /\ pc \in [Procs -> {"idle", "reading", "rd_wait", "rd_again", "rd_giveup",
                         "writing", "wr_wait", "wr_again", "wr_giveup"}]

(* Whatever wakes up, times out or tries again, the counters say how many  *)
(* threads are active and waiting (vos_lock.h:76-79).                      *)
CountsAreTrue ==
    /\ m_rdcnt = Cardinality(At({"reading"}))
    /\ m_wrcnt = Cardinality(At({"writing"}))
    /\ m_rdwaitcnt = Cardinality(WaitingReaders)
    /\ m_wrwaitcnt = Cardinality(WaitingWriters)

(* Somebody who waits will be woken: a thread holds the lock, or is on its *)
(* way through lock_read or lock_write, or the event a thread waits for is *)
(* signaled.  No timeout, reset or stolen wake-up leaves everyone waiting  *)
(* for a lock that is free.                                                *)
Moving == At({"reading", "writing", "rd_again", "rd_giveup", "wr_again", "wr_giveup"})
NoLostWakeup ==
    At({"rd_wait", "wr_wait"}) # {} =>
        \/ Moving # {}
        \/ rdEv /\ At({"rd_wait"}) # {}
        \/ wrEv /\ At({"wr_wait"}) # {}

(* The lock keeps the promise of CRWLock.                                  *)
Lock == INSTANCE RWLock WITH
            lock <- [readers |-> At({"reading"}), writers |-> At({"writing"})]
ImplementsRWLock == Lock!Spec

(* Readers do not pass a waiting writer: the lock goes to a writer then,   *)
(* however busy the readers are.  Where one thread writes, as in           *)
(* DataCenter, it is the one that waits.                                   *)
WriterGetsIn ==
    \A p \in Writers \ Timed : pc[p] = "wr_wait" ~> At({"writing"}) # {}
=============================================================================
