----------------------------- MODULE ThreadPool -----------------------------
(***************************************************************************)
(* vos::ThreadPool, its Threads and the Event with which a thread tells    *)
(* that it has ended, from ThreadPool::start to the destructor of          *)
(* DataCenter, which stops the pool and then frees the rings its thread    *)
(* works on.                                                               *)
(*                                                                         *)
(* The owner of the pool is one sequential activity with control point     *)
(* mpc; cur is the thread it starts or stops.  A worker is between two     *)
(* calls that block ("busy") or inside one ("blocked"): cancellation is    *)
(* deferred, so only there does pthread_cancel end it.  Time is in         *)
(* milliseconds; a second has Second of them, 1000 in the code.            *)
(***************************************************************************)
EXTENDS Naturals

CONSTANTS
    Count,          \* number of registered threads
    Returning,      \* the threads whose run_thread returns by itself
    Second,         \* milliseconds in a second
    Timeout,        \* argument of stop, in milliseconds
    MaxTime         \* bound: the clock runs on past it for a wait only

Workers == 1 .. Count

ASSUME PoolAssumption ==
    /\ Count \in Nat \ {0}
    /\ Returning \subseteq Workers
    /\ Second \in Nat \ {0}
    /\ Timeout \in Nat
    /\ MaxTime \in Nat

VARIABLES
    mpc,            \* control of the owner
    cur,            \* _vec_thread[cur - 1]
    wpc,            \* control of each worker
    state,          \* Thread::_state
    cancel,         \* pthread_cancel was called for the worker
    count,          \* Event::_set_event_count of _stop_event
    signaled,       \* the owner was signaled while it waits
    now,            \* the clock
    deadline,       \* m_timv
    intime          \* history: the worker told of its end before the deadline

ownerVars  == <<mpc, cur, deadline>>
workerVars == <<wpc, state>>
eventVars  == <<count, signaled>>
vars == <<ownerVars, workerVars, cancel, eventVars, now, intime>>

Init ==
    /\ mpc = "start"
    /\ cur = 1
    /\ wpc = [i \in Workers |-> "none"]
    /\ state = [i \in Workers |-> "init"]
    /\ cancel = [i \in Workers |-> FALSE]
    /\ count = [i \in Workers |-> 0]
    /\ signaled = FALSE
    /\ now \in 0 .. (Second - 1)
    /\ deadline = 0
    /\ intime = [i \in Workers |-> FALSE]

(* The owner goes on with the next thread, or is done with all of them.    *)
NextThread(again, finished) ==
    IF cur < Count
    THEN cur' = cur + 1 /\ mpc' = again
    ELSE cur' = 1 /\ mpc' = finished

-----------------------------------------------------------------------------
(* The owner: ThreadPool::start and stop.                                  *)

(* Thread::start.  Nobody looks at the result of pthread_create.           *)
Start ==
    /\ mpc = "start"
    /\ \/ wpc' = [wpc EXCEPT ![cur] = "created"]
       \/ UNCHANGED wpc
    /\ NextThread("start", "use")
    /\ UNCHANGED <<state, cancel, eventVars, now, deadline, intime>>

(* ~DataCenter.                                                            *)
Destroy ==
    /\ mpc = "use"
    /\ mpc' = "stop"
    /\ UNCHANGED <<cur, workerVars, cancel, eventVars, now, deadline, intime>>

(* Faulty variant of WaitEvent: it sleeps although the event was set.      *)
WaitEventBlindly ==
    /\ mpc = "stop"
    /\ mpc' = "wait"
    /\ deadline' = (now \div Second) * Second + Timeout
    /\ UNCHANGED <<cur, count>>
    /\ UNCHANGED <<workerVars, cancel, signaled, now, intime>>

(* Thread::stop sets the flag _exit, which no run_thread looks at, and     *)
(* waits.  An event that is set already is taken at once; otherwise the    *)
(* deadline is the clock in whole seconds plus the timeout.                *)
WaitEvent ==
    /\ mpc = "stop"
    /\ IF count[cur] = 0
       THEN /\ mpc' = "wait"
            /\ deadline' = (now \div Second) * Second + Timeout
            /\ UNCHANGED <<cur, count>>
       ELSE /\ count' = [count EXCEPT ![cur] = @ - 1]
            /\ NextThread("stop", "stopped")
            /\ UNCHANGED deadline
    /\ UNCHANGED <<workerVars, cancel, signaled, now, intime>>

(* Faulty variant of Woken: the event is taken even if nobody set it.      *)
WokenUnchecked ==
    /\ mpc = "wait"
    /\ signaled' = FALSE
    /\ count' = [count EXCEPT ![cur] = @ - 1]
    /\ NextThread("stop", "stopped")
    /\ UNCHANGED <<workerVars, cancel, now, deadline, intime>>

(* pthread_cond_timedwait returns 0: the owner takes it for the event.     *)
Woken ==
    /\ mpc = "wait"
    /\ signaled' = FALSE
    /\ count' = [count EXCEPT ![cur] = IF @ > 0 THEN @ - 1 ELSE @]
    /\ NextThread("stop", "stopped")
    /\ UNCHANGED <<workerVars, cancel, now, deadline, intime>>

(* It does so because of the signal, or spuriously.                        *)
Wake == signaled /\ Woken
SpuriousWake == ~signaled /\ Woken

(* Faulty variant of TimeoutWait: wait_event_always() in its place.        *)
TimeoutWaitNever == FALSE /\ UNCHANGED vars

(* ... or ETIMEDOUT.                                                       *)
TimeoutWait ==
    /\ mpc = "wait"
    /\ ~signaled
    /\ now >= deadline
    /\ mpc' = "exit"
    /\ UNCHANGED <<cur, workerVars, cancel, eventVars, now, deadline, intime>>

(* Thread::exit after a timeout.  To cancel a thread that has ended, or    *)
(* was never created, is undefined: nothing happens or the process fails.  *)
Exit ==
    /\ mpc = "exit"
    /\ \/ /\ cancel' = [cancel EXCEPT ![cur] = TRUE]
          /\ state' = [state EXCEPT ![cur] = "exited"]
          /\ NextThread("stop", "stopped")
       \/ /\ wpc[cur] \in {"none", "done"}
          /\ mpc' = "crashed"
          /\ UNCHANGED <<cur, cancel, state>>
    /\ UNCHANGED <<wpc, eventVars, now, deadline, intime>>

(* The rest of ~DataCenter frees the rings.                                *)
Free ==
    /\ mpc = "stopped"
    /\ mpc' = "freed"
    /\ UNCHANGED <<cur, workerVars, cancel, eventVars, now, deadline, intime>>

OwnerStep == Start \/ WaitEvent \/ Wake \/ TimeoutWait \/ Exit \/ Free

-----------------------------------------------------------------------------
(* A worker: Thread::the_thread.  What it does after the rings were freed  *)
(* is not followed.                                                        *)

Alive(i) == wpc[i] \in {"created", "busy", "blocked", "returned"}
Followed == mpc \notin {"freed", "crashed"}

Begin(i) ==
    /\ wpc[i] = "created"
    /\ wpc' = [wpc EXCEPT ![i] = "busy"]
    /\ state' = [state EXCEPT ![i] = "running"]
    /\ UNCHANGED <<ownerVars, cancel, eventVars, now, intime>>

(* run_thread enters and leaves calls that block, among them the one in    *)
(* which it waits for a message.                                           *)
Block(i) ==
    /\ wpc[i] = "busy"
    /\ wpc' = [wpc EXCEPT ![i] = "blocked"]
    /\ UNCHANGED <<ownerVars, state, cancel, eventVars, now, intime>>

Unblock(i) ==
    /\ wpc[i] = "blocked"
    /\ wpc' = [wpc EXCEPT ![i] = IF cancel[i] THEN "cancelled" ELSE "busy"]
    /\ UNCHANGED <<ownerVars, state, cancel, eventVars, now, intime>>

(* run_thread returns.                                                     *)
Return(i) ==
    /\ i \in Returning
    /\ wpc[i] = "busy"
    /\ wpc' = [wpc EXCEPT ![i] = "returned"]
    /\ state' = [state EXCEPT ![i] = "stopped"]
    /\ UNCHANGED <<ownerVars, cancel, eventVars, now, intime>>

(* What the owner does not know when a worker sets the event in time.      *)
BeforeDeadline(i) ==
    \/ mpc \in {"start", "use"}
    \/ mpc \in {"stop", "wait", "exit"} /\ cur < i
    \/ cur = i /\ mpc = "stop"
    \/ cur = i /\ mpc = "wait" /\ now < deadline

(* _stop_event.set_event().                                                *)
SetEvent(i) ==
    /\ wpc[i] = "returned"
    /\ wpc' = [wpc EXCEPT ![i] = "done"]
    /\ count' = [count EXCEPT ![i] = @ + 1]
    /\ signaled' = (signaled \/ (mpc = "wait" /\ cur = i))
    /\ intime' = [intime EXCEPT ![i] = BeforeDeadline(i)]
    /\ UNCHANGED <<ownerVars, state, cancel, now>>

WorkerStep(i) ==
    Followed /\ (Begin(i) \/ Block(i) \/ Unblock(i) \/ Return(i) \/ SetEvent(i))

-----------------------------------------------------------------------------
Tick ==
    /\ now < MaxTime \/ (mpc = "wait" /\ now < deadline)
    /\ Followed
    /\ now' = now + 1
    /\ UNCHANGED <<ownerVars, workerVars, cancel, eventVars, intime>>

Terminated == ~Followed /\ UNCHANGED vars

Next ==
    \/ OwnerStep
    \/ SpuriousWake
    \/ Destroy
    \/ \E i \in Workers : WorkerStep(i)
    \/ Tick
    \/ Terminated

Spec == Init /\ [][Next]_vars

(* Time passes and the owner is scheduled; nothing makes it destroy the    *)
(* object or wake up without a reason, and nothing is assumed of the       *)
(* workers.                                                                *)
Fairness == WF_vars(OwnerStep) /\ WF_vars(Tick)

FairSpec == Spec /\ Fairness

-----------------------------------------------------------------------------
(* Every variable holds a value of its type.                               *)
TypeOK ==
    /\ mpc \in {"start", "use", "stop", "wait", "exit", "stopped", "freed", "crashed"}
    /\ cur \in Workers
    /\ wpc \in [Workers -> {"none", "created", "busy", "blocked", "returned", "done",
                            "cancelled"}]
    /\ state \in [Workers -> {"init", "running", "exited", "stopped"}]
    /\ cancel \in [Workers -> BOOLEAN]
    /\ count \in [Workers -> {0, 1}]
    /\ signaled \in BOOLEAN
    /\ now \in Nat /\ deadline \in Nat
    /\ intime \in [Workers -> BOOLEAN]

(* A thread that has told of its end before the owner's deadline is never  *)
(* killed, whenever the owner begins to wait (vos_thread.cpp:78-87): the   *)
(* event is not lost.                                                      *)
FinishedIsNotKilled == \A i \in Workers : intime[i] => ~cancel[i]

(* stop() returns, even if a thread never ends.                            *)
StopReturns == mpc = "stop" ~> ~Followed

-----------------------------------------------------------------------------
(* What a comment says, and the code does not do: refuted by a run of its  *)
(* own.                                                                    *)

(* vos_thread.cpp:122: a thread that has not ended when the timeout is     *)
(* over is killed.  So none is at work when the rings are freed.           *)
KilledAfterStop == mpc = "freed" => \A i \in Workers : wpc[i] # "busy"
=============================================================================
