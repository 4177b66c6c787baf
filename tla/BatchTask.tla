----------------------------- MODULE BatchTask -----------------------------
(***************************************************************************)
(* pthread/pthread_condition1.cpp: task2 counts up, one at a time, and     *)
(* signals; task1 waits for a batch of counts and takes it.  After its     *)
(* last count task2 clears is_running and signals once more.               *)
(* pthread/pthread_create.cpp is the same program; pthread_condition.cpp   *)
(* has no is_running: task1 goes on for ever.                              *)
(*                                                                         *)
(* The steps are the calls of the two functions; what a thread does while  *)
(* it holds the mutex is one step with the test that leads to it.          *)
(***************************************************************************)
EXTENDS Integers, Programs

CONSTANTS
    Goal,       \* how often task2 counts (100)
    Batch       \* how much task1 takes at once (10)

ASSUME Sizes == Goal \in Nat /\ Batch \in Nat \ {0}

VARIABLES
    count, is_running,
    mutex,      \* the task that holds the mutex, or 0
    pc,         \* pc[1], pc[2]: what task1 and task2 do next
    i           \* the loop counter of task2

batchVars == <<count, is_running, mutex, pc, i>>

StopFlag == program \in {"pthread_condition1", "pthread_create"}
Batching == StopFlag \/ program = "pthread_condition"

\* What is in memory is well typed; a batch is never taken that is not there.
TypeOK ==
    /\ count \in Nat /\ is_running \in BOOLEAN
    /\ mutex \in 0..2 /\ i \in 0..Goal
    /\ pc \in [1..2 -> {"loop", "lock", "test", "waiting", "woken", "unlock",
                        "signal", "stop", "last", "done"}]

Init == /\ count = 0 /\ is_running = TRUE
        /\ mutex = 0 /\ i = 0
        /\ pc = [t \in 1..2 |-> "loop"]

GoTo(t, place) == pc' = [pc EXCEPT ![t] = place]

Acquire(t) == mutex = 0 /\ mutex' = t
Release(t) == mutex = t /\ mutex' = 0

----------------------------------------------------------------------------
(* task1 *)

Running == /\ pc[1] = "loop"
           /\ GoTo(1, IF is_running THEN "lock" ELSE "done")
           /\ UNCHANGED <<count, is_running, mutex, i>>

\* pthread_mutex_lock, and the end of pthread_cond_wait
Lock == /\ pc[1] \in {"lock", "woken"}
        /\ Acquire(1)
        /\ GoTo(1, "test")
        /\ UNCHANGED <<count, is_running, i>>

Wait == /\ pc[1] = "test" /\ count < Batch
        /\ Release(1)
        /\ GoTo(1, "waiting")
        /\ UNCHANGED <<count, is_running, i>>

\* POSIX lets pthread_cond_wait return without a signal.
SpuriousWakeup == /\ pc[1] = "waiting"
                  /\ GoTo(1, "woken")
                  /\ UNCHANGED <<count, is_running, mutex, i>>

\* Mutant of Take: the condition is tested before the wait only (if for while).
TakeUntested == /\ \/ pc[1] = "test" /\ count >= Batch /\ UNCHANGED mutex
                   \/ pc[1] = "woken" /\ Acquire(1)
                /\ count' = count - Batch
                /\ GoTo(1, "unlock")
                /\ UNCHANGED <<is_running, i>>

Take == /\ pc[1] = "test" /\ count >= Batch
        /\ count' = count - Batch
        /\ GoTo(1, "unlock")
        /\ UNCHANGED <<is_running, mutex, i>>

\* Mutant of Unlock: the mutex stays locked.
UnlockForgotten == /\ pc[1] = "unlock"
                   /\ GoTo(1, "loop")
                   /\ UNCHANGED <<count, is_running, mutex, i>>

Unlock == /\ pc[1] = "unlock"
          /\ Release(1)
          /\ GoTo(1, "loop")
          /\ UNCHANGED <<count, is_running, i>>

Task1 == Running \/ Lock \/ Wait \/ Take \/ Unlock

----------------------------------------------------------------------------
(* task2 *)

Count == /\ pc[2] = "loop" /\ i < Goal
         /\ Acquire(2)
         /\ count' = count + 1
         /\ GoTo(2, "unlock")
         /\ UNCHANGED <<is_running, i>>

Unlock2 == /\ pc[2] = "unlock"
           /\ Release(2)
           /\ GoTo(2, "signal")
           /\ UNCHANGED <<count, is_running, i>>

\* pthread_cond_signal wakes the task that waits at this moment, if one does.
Woken(t) == IF pc[t] = "waiting" THEN "woken" ELSE pc[t]

\* Mutant of Signal: only what is thought a full batch is signalled.
SignalPastBatch == /\ pc[2] = "signal"
                   /\ i' = i + 1
                   /\ pc' = [pc EXCEPT ![1] = IF count > Batch THEN Woken(1) ELSE @,
                                       ![2] = "loop"]
                   /\ UNCHANGED <<count, is_running, mutex>>

Signal == /\ pc[2] = "signal"
          /\ i' = i + 1
          /\ pc' = [pc EXCEPT ![1] = Woken(1), ![2] = "loop"]
          /\ UNCHANGED <<count, is_running, mutex>>

\* is_running is neither atomic nor under the mutex: task1 reads TRUE or FALSE.
Stop == /\ StopFlag
        /\ pc[2] = "loop" /\ i = Goal
        /\ is_running' = FALSE
        /\ GoTo(2, "last")
        /\ UNCHANGED <<count, mutex, i>>

LastSignal == /\ pc[2] = "last"
              /\ pc' = [pc EXCEPT ![1] = Woken(1), ![2] = "done"]
              /\ UNCHANGED <<count, is_running, mutex, i>>

\* Without the flag task2 returns after its last count.
Return2 == /\ ~StopFlag
           /\ pc[2] = "loop" /\ i = Goal
           /\ GoTo(2, "done")
           /\ UNCHANGED <<count, is_running, mutex, i>>

Task2 == Count \/ Unlock2 \/ Signal \/ Stop \/ LastSignal \/ Return2

Next == Batching /\ (Task1 \/ Task2 \/ SpuriousWakeup)

vars == <<program, batchVars>>

Spec == Init /\ StopFlag /\ [][Next /\ UNCHANGED program]_vars

\* The kernel runs both threads; nothing promises a spurious wake-up.
FairSpec == /\ Spec
            /\ WF_vars(Task1 /\ UNCHANGED program)
            /\ WF_vars(Task2 /\ UNCHANGED program)

----------------------------------------------------------------------------
\* task1 does not sleep on a full batch: if one is there, its signal is to come,
\* though count changes under the mutex and the signal is sent after it.
NoForgottenBatch ==
    Batching /\ pc[1] = "waiting" /\ count >= Batch => pc[2] \in {"unlock", "signal"}

\* Every full batch is taken, unless task1 has seen is_running cleared.
EveryBatchTaken == count >= Batch ~> count < Batch \/ pc[1] = "done"

\* "send the signal one last time, so that task1 can leave its wait" (line 56):
\* when task2 has returned, task1 returns too, and main's pthread_join with it.
LastSignalEndsTask1 == pc[2] = "done" ~> pc[1] = "done"
===========================================================================
