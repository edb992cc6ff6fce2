-------------------------- MODULE ThreadPoolProofs --------------------------
(***************************************************************************)
(* Proofs about ThreadPool for every number of threads, every timeout and  *)
(* every resolution of the clock.                                          *)
(***************************************************************************)
EXTENDS ThreadPool, TLAPS

(* A worker's event is set once, when the worker is done; and a worker that*)
(* the owner has yet to start is not there.                                *)
SetOnce ==
    /\ \A i \in Workers : count[i] = 1 => wpc[i] = "done"
    /\ mpc = "start" => \A i \in Workers : cur <= i => wpc[i] = "none"

TypeInv == TypeOK /\ SetOnce

LEMMA TypeInit == Init => TypeInv
PROOF
<1> SUFFICES ASSUME Init PROVE TypeInv
  OBVIOUS
<1>1. 1 \in Workers /\ now \in Nat
  BY PoolAssumption DEF Init, Workers
<1>2. /\ mpc = "start" /\ cur = 1 /\ signaled = FALSE /\ deadline = 0
      /\ wpc = [i \in Workers |-> "none"] /\ count = [i \in Workers |-> 0]
  BY DEF Init
<1>3. /\ cancel \in [Workers -> BOOLEAN] /\ intime \in [Workers -> BOOLEAN]
      /\ state \in [Workers -> {"init", "running", "exited", "stopped"}]
  BY DEF Init
<1>4. SetOnce
  BY <1>2 DEF SetOnce
<1> QED
  BY <1>1, <1>2, <1>3, <1>4 DEF TypeInv, TypeOK

(* The owner goes on with a worker.                                        *)
LEMMA NextThreadType ==
    ASSUME cur \in Workers, NEW again, NEW finished, NextThread(again, finished)
    PROVE  cur' \in Workers /\ mpc' \in {again, finished}
           /\ (mpc' = again /\ again # finished => cur' = cur + 1)
  BY PoolAssumption DEF NextThread, Workers

LEMMA TypeNext == TypeInv /\ [Next]_vars => TypeInv'
PROOF
<1> SUFFICES ASSUME TypeInv, [Next]_vars PROVE TypeInv'
  OBVIOUS
<1> USE DEF TypeInv, TypeOK, SetOnce
<1>1. CASE Start
  <2>1. /\ cur' \in Workers /\ mpc' \in {"start", "use"}
        /\ mpc' = "start" => cur' = cur + 1
    BY <1>1, NextThreadType DEF Start
  <2>2. /\ wpc' \in [Workers -> {"none", "created", "busy", "blocked", "returned", "done",
                                 "cancelled"}]
        /\ \A i \in Workers : i # cur => wpc'[i] = wpc[i]
        /\ wpc[cur] = "none"
    <3>1. mpc = "start" /\ cur <= cur
      BY <1>1 DEF Start, Workers
    <3>2. wpc' = [wpc EXCEPT ![cur] = "created"] \/ wpc' = wpc
      BY <1>1 DEF Start
    <3> QED
      BY <3>1, <3>2
  <2>3. mpc' = "start" => \A i \in Workers : cur' <= i => cur <= i /\ i # cur
    BY <2>1 DEF Workers
  <2>4. UNCHANGED <<state, cancel, eventVars, now, deadline, intime>> /\ mpc = "start"
    BY <1>1 DEF Start
  <2> QED
    BY <2>1, <2>2, <2>3, <2>4 DEF eventVars
<1>2. CASE WaitEvent
  <2>1. CASE count[cur] = 0
    <3>1. deadline' \in Nat
      <4> DEFINE seconds == now \div Second
      <4>1. seconds \in Nat
        BY PoolAssumption
      <4>2. deadline' = seconds * Second + Timeout
        BY <1>2, <2>1 DEF WaitEvent
      <4> HIDE DEF seconds
      <4> QED
        BY <4>1, <4>2, PoolAssumption
    <3> QED
      BY <1>2, <2>1, <3>1 DEF WaitEvent, workerVars
  <2>2. CASE count[cur] # 0
    <3>1. cur' \in Workers /\ mpc' \in {"stop", "stopped"}
      BY <1>2, <2>2, NextThreadType DEF WaitEvent
    <3> QED
      BY <1>2, <2>2, <3>1 DEF WaitEvent, workerVars
  <2> QED
    BY <2>1, <2>2
<1>3. CASE Wake \/ SpuriousWake
  <2>1. cur' \in Workers /\ mpc' \in {"stop", "stopped"}
    BY <1>3, NextThreadType DEF Wake, SpuriousWake, Woken
  <2>2. /\ count' = [count EXCEPT ![cur] = IF count[cur] > 0 THEN count[cur] - 1 ELSE count[cur]]
        /\ signaled' = FALSE
        /\ UNCHANGED <<wpc, state, cancel, now, deadline, intime>>
    BY <1>3 DEF Wake, SpuriousWake, Woken, workerVars
  <2>3. count' \in [Workers -> {0, 1}] /\ \A i \in Workers : count'[i] = 1 => count[i] = 1
    BY <2>2
  <2> QED
    BY <2>1, <2>2, <2>3
<1>4. CASE Exit
  <2>1. cur' \in Workers /\ mpc' \in {"stop", "stopped", "crashed"}
    BY <1>4, NextThreadType DEF Exit
  <2>2. /\ cancel' \in [Workers -> BOOLEAN]
        /\ state' \in [Workers -> {"init", "running", "exited", "stopped"}]
        /\ UNCHANGED <<wpc, eventVars, now, deadline, intime>>
    BY <1>4 DEF Exit
  <2> QED
    BY <2>1, <2>2 DEF eventVars
<1>5. CASE TimeoutWait \/ Free \/ Destroy
  BY <1>5 DEF TimeoutWait, Free, Destroy, workerVars, eventVars
<1>6. ASSUME NEW i \in Workers, WorkerStep(i) PROVE TypeInv'
  <2>1. CASE Begin(i) \/ Block(i) \/ Unblock(i) \/ Return(i)
    <3>1. /\ UNCHANGED <<ownerVars, cancel, eventVars, now, intime>>
          /\ wpc' \in [Workers -> {"none", "created", "busy", "blocked", "returned", "done",
                                   "cancelled"}]
          /\ state' \in [Workers -> {"init", "running", "exited", "stopped"}]
          /\ wpc[i] \notin {"none", "done"}
          /\ \A j \in Workers : j # i => wpc'[j] = wpc[j]
      BY <2>1 DEF Begin, Block, Unblock, Return
    <3> QED
      BY <3>1 DEF ownerVars, eventVars
  <2>2. CASE SetEvent(i)
    <3>1. /\ UNCHANGED <<ownerVars, state, cancel, now>>
          /\ wpc[i] = "returned" /\ wpc' = [wpc EXCEPT ![i] = "done"]
          /\ count' = [count EXCEPT ![i] = count[i] + 1]
      BY <2>2 DEF SetEvent
    <3>2. intime' \in [Workers -> BOOLEAN] /\ signaled' \in BOOLEAN
      <4>1. BeforeDeadline(i) \in BOOLEAN
        BY DEF BeforeDeadline
      <4> QED
        BY <2>2, <4>1 DEF SetEvent
    <3>3. count[i] = 0
      BY <3>1
    <3>4. count' \in [Workers -> {0, 1}] /\ \A j \in Workers : j # i => count'[j] = count[j]
      BY <3>1, <3>3
    <3>5. /\ wpc' \in [Workers -> {"none", "created", "busy", "blocked", "returned", "done",
                                   "cancelled"}]
          /\ \A j \in Workers : j # i => wpc'[j] = wpc[j]
          /\ wpc'[i] = "done"
      BY <3>1
    <3>6. mpc = "start" => cur > i
      BY <3>1 DEF Workers
    <3>7. SetOnce'
      BY <3>1, <3>4, <3>5, <3>6 DEF ownerVars, Workers
    <3> QED
      BY <3>1, <3>2, <3>4, <3>5, <3>7 DEF ownerVars
  <2> QED
    BY <1>6, <2>1, <2>2 DEF WorkerStep
<1>7. CASE Tick \/ Terminated \/ UNCHANGED vars
  BY <1>7 DEF Tick, Terminated, vars, ownerVars, workerVars, eventVars
<1> HIDE DEF TypeInv
<1> QED
  BY <1>1, <1>2, <1>3, <1>4, <1>5, <1>6, <1>7 DEF Next, OwnerStep

(* The type invariant of the pool.                                         *)
THEOREM TypeCorrect == Spec => []TypeOK
PROOF
<1>1. TypeInv => TypeOK
  BY DEF TypeInv
<1> QED
  BY <1>1, TypeInit, TypeNext, PTL DEF Spec

-----------------------------------------------------------------------------
(* No event is lost.  Until the owner has stopped a worker that told of its*)
(* end in time, the event of the worker is set; and if the owner waits for *)
(* this worker it has been signaled, so the wait cannot time out.          *)

Stopped(i) ==
    \/ mpc \in {"stopped", "freed"}
    \/ mpc \in {"stop", "wait", "exit", "crashed"} /\ i < cur

Told(i) ==
    /\ cancel[i] => Stopped(i)
    /\ intime[i] => ~cancel[i]
    /\ intime[i] /\ ~Stopped(i) =>
          /\ count[i] = 1
          /\ cur = i => mpc \notin {"exit", "crashed"}
          /\ cur = i /\ mpc = "wait" => signaled

EventInv == \A i \in Workers : Told(i)

LEMMA EventInit == Init => EventInv
  BY DEF Init, EventInv, Told

(* The owner has stopped one worker more.                                  *)
LEMMA StoppedNext ==
    ASSUME TypeOK, mpc \in {"stop", "wait", "exit"}, NextThread("stop", "stopped"),
           NEW i \in Workers
    PROVE  Stopped(i)' <=> Stopped(i) \/ i = cur \/ mpc' = "stopped"
  BY PoolAssumption DEF TypeOK, NextThread, Stopped, Workers

LEMMA EventNext == TypeInv /\ EventInv /\ [Next]_vars => EventInv'
PROOF
<1> SUFFICES ASSUME TypeInv, EventInv, [Next]_vars, NEW i \in Workers PROVE Told(i)'
  BY DEF EventInv
<1>h. Told(i) /\ Told(cur) /\ TypeOK /\ SetOnce /\ cur \in Workers
  BY DEF EventInv, TypeInv, TypeOK
<1>t. /\ count \in [Workers -> {0, 1}] /\ cancel \in [Workers -> BOOLEAN]
      /\ intime \in [Workers -> BOOLEAN] /\ signaled \in BOOLEAN
  BY <1>h DEF TypeOK
(* Nothing but the control of the owner changes.                           *)
<1>1. ASSUME UNCHANGED <<cancel, intime, count, signaled>>,
             Stopped(i)' <=> Stopped(i),
             cur' = i => cur = i \/ mpc' \notin {"exit", "crashed", "wait"},
             cur' = i /\ mpc' = "wait" => mpc = "wait",
             cur' = i /\ mpc' \in {"exit", "crashed"} => mpc \in {"exit", "crashed"}
      PROVE  Told(i)'
  BY <1>h, <1>t, <1>1 DEF Told
<1>2. CASE Start
  <2>1. /\ mpc = "start" /\ mpc' \in {"start", "use"}
        /\ UNCHANGED <<cancel, intime, count, signaled>>
    BY <1>h, <1>2, NextThreadType DEF Start, eventVars
  <2> QED
    BY <1>1, <2>1 DEF Stopped
<1>3. CASE Destroy
  <2>1. /\ mpc = "use" /\ mpc' = "stop" /\ cur' = cur
        /\ UNCHANGED <<cancel, intime, count, signaled>>
    BY <1>3 DEF Destroy, eventVars
  <2> QED
    BY <1>h, <1>t, <2>1 DEF Told, Stopped
<1>4. CASE WaitEvent
  <2>1. CASE count[cur] = 0
    <3>1. /\ mpc = "stop" /\ mpc' = "wait" /\ cur' = cur
          /\ UNCHANGED <<cancel, intime, count, signaled>>
      BY <1>4, <2>1 DEF WaitEvent
    <3>2. ~Stopped(cur) => ~intime[cur]
      BY <1>h, <2>1 DEF Told
    <3> QED
      BY <1>h, <1>t, <3>1, <3>2 DEF Told, Stopped
  <2>2. CASE count[cur] # 0
    <3>1. /\ mpc = "stop" /\ NextThread("stop", "stopped")
          /\ UNCHANGED <<cancel, intime, signaled>>
          /\ i # cur => count'[i] = count[i]
      BY <1>h, <1>t, <1>4, <2>2 DEF WaitEvent
    <3>2. /\ Stopped(i)' <=> Stopped(i) \/ i = cur \/ mpc' = "stopped"
          /\ mpc' \in {"stop", "stopped"}
      BY <1>h, <3>1, StoppedNext, NextThreadType
    <3> QED
      BY <1>h, <1>t, <3>1, <3>2 DEF Told
  <2> QED
    BY <2>1, <2>2
<1>5. CASE Wake \/ SpuriousWake
  <2>1. /\ mpc = "wait" /\ NextThread("stop", "stopped") /\ UNCHANGED <<cancel, intime>>
        /\ i # cur => count'[i] = count[i]
    BY <1>h, <1>t, <1>5 DEF Wake, SpuriousWake, Woken
  <2>2. /\ Stopped(i)' <=> Stopped(i) \/ i = cur \/ mpc' = "stopped"
        /\ mpc' \in {"stop", "stopped"}
    BY <1>h, <2>1, StoppedNext, NextThreadType
  <2> QED
    BY <1>h, <1>t, <2>1, <2>2 DEF Told
<1>6. CASE TimeoutWait
  <2>1. /\ mpc = "wait" /\ mpc' = "exit" /\ cur' = cur /\ ~signaled
        /\ UNCHANGED <<cancel, intime, count, signaled>>
    BY <1>6 DEF TimeoutWait, eventVars
  <2> QED
    BY <1>h, <1>t, <2>1 DEF Told, Stopped
<1>7. CASE Exit
  <2>1. /\ mpc = "exit" /\ UNCHANGED <<intime, count, signaled>>
        /\ \/ cancel' = [cancel EXCEPT ![cur] = TRUE] /\ NextThread("stop", "stopped")
           \/ cancel' = cancel /\ mpc' = "crashed" /\ cur' = cur
    BY <1>7 DEF Exit, eventVars
  <2>2. ~intime[cur]
    <3>1. ~Stopped(cur)
      BY <1>h, <2>1 DEF Stopped, Workers
    <3> QED
      BY <1>h, <2>1, <3>1 DEF Told
  <2>3. CASE cancel' = [cancel EXCEPT ![cur] = TRUE] /\ NextThread("stop", "stopped")
    <3>1. /\ Stopped(i)' <=> Stopped(i) \/ i = cur \/ mpc' = "stopped"
          /\ mpc' \in {"stop", "stopped"}
      BY <1>h, <2>1, <2>3, StoppedNext, NextThreadType
    <3> QED
      BY <1>h, <1>t, <2>1, <2>2, <2>3, <3>1 DEF Told
  <2>4. CASE cancel' = cancel /\ mpc' = "crashed" /\ cur' = cur
    BY <1>h, <1>t, <2>1, <2>2, <2>4 DEF Told, Stopped
  <2> QED
    BY <2>1, <2>3, <2>4
<1>8. CASE Free
  BY <1>1, <1>8 DEF Free, Stopped, eventVars
<1>9. ASSUME NEW j \in Workers, WorkerStep(j) PROVE Told(i)'
  <2>1. CASE Begin(j) \/ Block(j) \/ Unblock(j) \/ Return(j)
    <3>1. UNCHANGED <<mpc, cur, cancel, intime, count, signaled>>
      BY <2>1 DEF Begin, Block, Unblock, Return, ownerVars, eventVars
    <3> QED
      BY <1>1, <3>1 DEF Stopped
  <2>2. CASE SetEvent(j)
    <3>1. /\ UNCHANGED <<mpc, cur, cancel>>
          /\ wpc[j] = "returned"
          /\ count' = [count EXCEPT ![j] = count[j] + 1]
          /\ signaled' = (signaled \/ (mpc = "wait" /\ cur = j))
          /\ intime' = [intime EXCEPT ![j] = BeforeDeadline(j)]
      BY <2>2 DEF SetEvent, ownerVars
    <3>2. count[j] = 0 /\ count'[j] = 1
      BY <1>h, <1>t, <3>1 DEF SetOnce
    <3>3. Stopped(i)' <=> Stopped(i)
      BY <3>1 DEF Stopped
    <3>4. CASE i # j
      BY <1>h, <1>t, <3>1, <3>3, <3>4 DEF Told
    <3>5. CASE i = j
      <4>1. BeforeDeadline(j) => ~Stopped(j) /\ (cur = j => mpc \notin {"exit", "crashed"})
        BY <1>h DEF BeforeDeadline, Stopped, Workers
      <4>2. intime'[j] = BeforeDeadline(j) /\ cancel' = cancel
        BY <1>t, <3>1
      <4> QED
        BY <1>h, <3>1, <3>2, <3>3, <3>5, <4>1, <4>2 DEF Told
    <3> QED
      BY <3>4, <3>5
  <2> QED
    BY <1>9, <2>1, <2>2 DEF WorkerStep
<1>10. CASE Tick \/ Terminated \/ UNCHANGED vars
  <2>1. UNCHANGED <<mpc, cur, cancel, intime, count, signaled>>
    BY <1>10 DEF Tick, Terminated, vars, ownerVars, eventVars
  <2> QED
    BY <1>1, <2>1 DEF Stopped
<1> QED
  BY <1>2, <1>3, <1>4, <1>5, <1>6, <1>7, <1>8, <1>9, <1>10 DEF Next, OwnerStep

(* A thread that has told of its end before the owner's deadline is never  *)
(* killed.                                                                 *)
THEOREM NoEventIsLost == Spec => []FinishedIsNotKilled
PROOF
<1>1. EventInv => FinishedIsNotKilled
  BY DEF EventInv, Told, FinishedIsNotKilled
<1> QED
  BY <1>1, TypeInit, TypeNext, EventInit, EventNext, PTL DEF Spec
=============================================================================
