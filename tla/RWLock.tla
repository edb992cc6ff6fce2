------------------------------- MODULE RWLock -------------------------------
(***************************************************************************)
(* What vos::CRWLock (vos_lock.h) promises its users: any number of        *)
(* readers or one writer.  The pthread branch of the class is four calls   *)
(* of pthread_rwlock_*, so this module is the semantics of those calls     *)
(* together with the scope guards CAutoGuardRD and CAutoGuardWR.  A call   *)
(* that blocks is an action that is not enabled.                           *)
(*                                                                         *)
(* Both fields are sets of processes so that a lock that let two writers   *)
(* in would be representable, and is not excluded by the types.            *)
(***************************************************************************)
CONSTANT Procs          \* the threads that use the lock
VARIABLE lock           \* pthread_rwlock_t m_lock

TypeOK == lock \in [readers : SUBSET Procs, writers : SUBSET Procs]

Init == lock = [readers |-> {}, writers |-> {}]

(* lock_read(): blocks while a writer holds the lock.  The attributes of   *)
(* the lock are the default ones, so waiting writers do not hold readers   *)
(* back.                                                                   *)
LockRead(p) ==
    /\ lock.writers = {}
    /\ lock' = [lock EXCEPT !.readers = @ \cup {p}]

UnlockRead(p) ==
    /\ p \in lock.readers
    /\ lock' = [lock EXCEPT !.readers = @ \ {p}]

(* Faulty variant of LockWrite: only other writers are waited for.         *)
LockWriteIgnoringReaders(p) ==
    /\ lock.writers = {}
    /\ lock' = [lock EXCEPT !.writers = @ \cup {p}]

(* lock_write(): blocks while anybody holds the lock.                      *)
LockWrite(p) ==
    /\ lock.readers = {}
    /\ lock.writers = {}
    /\ lock' = [lock EXCEPT !.writers = @ \cup {p}]

UnlockWrite(p) ==
    /\ p \in lock.writers
    /\ lock' = [lock EXCEPT !.writers = @ \ {p}]

Next ==
    \E p \in Procs :
        \/ p \notin lock.readers /\ LockRead(p)
        \/ UnlockRead(p)
        \/ LockWrite(p)
        \/ UnlockWrite(p)

Spec == Init /\ [][Next]_lock

(* A writer excludes readers and other writers.                            *)
Exclusive ==
    /\ lock.writers # {} => lock.readers = {}
    /\ \A p, q \in lock.writers : p = q
=============================================================================
