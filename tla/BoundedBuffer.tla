--------------------------- MODULE BoundedBuffer ---------------------------
(***************************************************************************)
(* producer_and_consumer/producerAndConsumer1.cpp: one producer and eight  *)
(* consumers share a counter of items behind a mutex.  Consumers wait on   *)
(* cond1 while it is 0, the producer on cond2 while it is the capacity.    *)
(*                                                                         *)
(* The steps are the calls of the two loops: pthread_mutex_lock,           *)
(* pthread_cond_wait (which releases the mutex and, once woken, locks it   *)
(* again before the loop tests its condition anew), the change of index,   *)
(* the wake-up call, pthread_mutex_unlock.  Sleeping is left out.          *)
(***************************************************************************)
EXTENDS Integers, Programs

CONSTANTS
    Producer,   \* the thread of tid1
    Consumers,  \* the threads started into tid2
    Free,       \* the owner of a mutex nobody holds
    capicity,   \* how many items fit (the name is the code's)
    MaxSpurious \* bound: wake-ups that nobody called for

ASSUME BufferThreads == Producer \notin Consumers /\ Free \notin Consumers \cup {Producer}
ASSUME BufferLimits == capicity \in Nat \ {0} /\ MaxSpurious \in Nat

Tid == {Producer} \cup Consumers

VARIABLES
    index,      \* how many items there are
    mutex1,     \* the thread that holds it, or Free
    at,         \* at[t]: what t does next
    spurious    \* wake-ups so far that nobody called for

bufferVars == <<index, mutex1, at, spurious>>

\* "sleep": outside the critical section.  "test": holds the mutex, at the while.
\* "waiting": in pthread_cond_wait.  "woken": in it, about to lock again.
\* "changed": has changed index.  "signalled": has made its wake-up call.
Holding == {"test", "changed", "signalled"}

\* The counter never falls below 0, and the threads are where their loops go.
BufferTypeOK ==
    /\ index \in Nat
    /\ mutex1 \in Tid \cup {Free}
    /\ at \in [Tid -> Holding \cup {"sleep", "waiting", "woken"}]
    /\ spurious \in 0..MaxSpurious

BufferInit == /\ index = 0
              /\ mutex1 = Free
              /\ at = [t \in Tid |-> "sleep"]
              /\ spurious = 0

MoveOn(t, place) == at' = [at EXCEPT ![t] = place]

MutexLock(t) ==
    /\ at[t] \in {"sleep", "woken"}
    /\ mutex1 = Free
    /\ mutex1' = t
    /\ MoveOn(t, "test")
    /\ UNCHANGED <<index, spurious>>

\* The conditions of the two while loops.
Full == index >= capicity
Empty == index <= 0

CondWait(t) ==
    /\ at[t] = "test"
    /\ IF t = Producer THEN Full ELSE Empty
    /\ mutex1' = Free
    /\ MoveOn(t, "waiting")
    /\ UNCHANGED <<index, spurious>>

\* Mutant of Produce: the condition is tested before the wait only (if for while).
ProduceUntested ==
    /\ at[Producer] \in {"test", "woken"}
    /\ at[Producer] = "test" => ~Full
    /\ mutex1 \in {Producer, Free} /\ mutex1' = Producer
    /\ index' = index + 1
    /\ MoveOn(Producer, "changed")
    /\ UNCHANGED spurious

Produce ==
    /\ at[Producer] = "test" /\ ~Full
    /\ index' = index + 1
    /\ MoveOn(Producer, "changed")
    /\ UNCHANGED <<mutex1, spurious>>

\* Mutant of Consume: the condition is tested before the wait only (if for while).
ConsumeUntested(c) ==
    /\ at[c] \in {"test", "woken"}
    /\ at[c] = "test" => ~Empty
    /\ mutex1 \in {c, Free} /\ mutex1' = c
    /\ index' = index - 1
    /\ MoveOn(c, "changed")
    /\ UNCHANGED spurious

Consume(c) ==
    /\ at[c] = "test" /\ ~Empty
    /\ index' = index - 1
    /\ MoveOn(c, "changed")
    /\ UNCHANGED <<mutex1, spurious>>

\* Mutant of Broadcast: pthread_cond_signal, which wakes one consumer only.
CondBroadcastToOne ==
    /\ at[Producer] = "changed"
    /\ LET asleep == {c \in Consumers : at[c] = "waiting"} IN
       \/ /\ asleep = {} /\ MoveOn(Producer, "signalled")
       \/ \E c \in asleep :
              at' = [at EXCEPT ![c] = "woken", ![Producer] = "signalled"]
    /\ UNCHANGED <<index, mutex1, spurious>>

\* pthread_cond_broadcast(&cond1)
CondBroadcast ==
    /\ at[Producer] = "changed"
    /\ at' = [t \in Tid |-> IF t = Producer THEN "signalled"
                            ELSE IF at[t] = "waiting" THEN "woken" ELSE at[t]]
    /\ UNCHANGED <<index, mutex1, spurious>>

\* Mutant of Signal: the consumer forgets the producer.
CondSignalNobody(c) ==
    /\ at[c] = "changed"
    /\ MoveOn(c, "signalled")
    /\ UNCHANGED <<index, mutex1, spurious>>

\* pthread_cond_signal(&cond2); only the producer ever waits on cond2.
CondSignal(c) ==
    /\ at[c] = "changed"
    /\ at' = [at EXCEPT ![c] = "signalled",
                        ![Producer] = IF @ = "waiting" THEN "woken" ELSE @]
    /\ UNCHANGED <<index, mutex1, spurious>>

MutexUnlock(t) ==
    /\ at[t] = "signalled"
    /\ mutex1' = Free
    /\ MoveOn(t, "sleep")
    /\ UNCHANGED <<index, spurious>>

\* POSIX lets pthread_cond_wait return without a wake-up call.
WokenByNobody(t) ==
    /\ at[t] = "waiting"
    /\ spurious < MaxSpurious
    /\ spurious' = spurious + 1
    /\ MoveOn(t, "woken")
    /\ UNCHANGED <<index, mutex1>>

BufferStep(t) ==
    \/ MutexLock(t) \/ CondWait(t) \/ MutexUnlock(t)
    \/ t = Producer /\ (Produce \/ CondBroadcast)
    \/ t \in Consumers /\ (Consume(t) \/ CondSignal(t))

BufferNext == /\ program = "producerAndConsumer1"
              /\ \E t \in Tid : BufferStep(t) \/ WokenByNobody(t)

\* The threads alone.
BufferSpec == BufferInit /\ [][BufferNext]_bufferVars

----------------------------------------------------------------------------
\* The counter stays in its range though between the wake-up of a thread and its
\* next test any other thread may change it.
IndexInBounds == index \in 0..capicity

\* Nobody sleeps on a condition that holds: when a consumer waits although there
\* are items, the producer is about to broadcast.
NoForgottenConsumer ==
    (\E c \in Consumers : at[c] = "waiting") /\ ~Empty => at[Producer] = "changed"

\* When the producer waits although there is room, a consumer is about to signal.
NoForgottenProducer ==
    at[Producer] = "waiting" /\ ~Full => \E c \in Consumers : at[c] = "changed"

\* The program never comes to rest: items are produced and consumed forever,
\* whichever thread the mutex prefers.
KeepsMoving ==
    program = "producerAndConsumer1" =>
        /\ []<><<Produce>>_bufferVars
        /\ []<><<\E c \in Consumers : Consume(c)>>_bufferVars
===========================================================================
