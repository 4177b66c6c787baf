------------------------ MODULE BoundedBufferProofs ------------------------
(* The safety of BoundedBuffer for every number of consumers and capacity. *)
EXTENDS BoundedBuffer, TLAPS

\* A condition is tested and the counter changed in one critical section, so the
\* bounds need no more than the tests; that nobody is forgotten needs the bounds.
BufferInv == BufferTypeOK /\ IndexInBounds /\ NoForgottenConsumer /\ NoForgottenProducer

\* A program starts with an empty buffer and nobody waiting.
LEMMA BufferStarts == BufferInit => BufferInv
  BY BufferThreads, BufferLimits
  DEF BufferInit, BufferInv, BufferTypeOK, IndexInBounds, NoForgottenConsumer,
      NoForgottenProducer, Tid, Holding

\* No call of a producer, a consumer or the kernel breaks the invariant.
LEMMA BufferGoesOn == BufferInv /\ [BufferNext]_bufferVars => BufferInv'
<1> USE BufferThreads, BufferLimits DEF BufferInv, Tid, Holding, Full, Empty, MoveOn
<1> SUFFICES ASSUME BufferInv, [BufferNext]_bufferVars PROVE BufferInv'
  OBVIOUS
<1> USE DEF BufferTypeOK
<1>1. ASSUME NEW t \in Tid, MutexLock(t) PROVE BufferInv'
  BY <1>1 DEF MutexLock, IndexInBounds, NoForgottenConsumer, NoForgottenProducer
<1>2. ASSUME NEW t \in Tid, CondWait(t) PROVE BufferInv'
  BY <1>2 DEF CondWait, IndexInBounds, NoForgottenConsumer, NoForgottenProducer
<1>3. ASSUME NEW t \in Tid, MutexUnlock(t) PROVE BufferInv'
  BY <1>3 DEF MutexUnlock, IndexInBounds, NoForgottenConsumer, NoForgottenProducer
<1>4. ASSUME Produce PROVE BufferInv'
  BY <1>4 DEF Produce, IndexInBounds, NoForgottenConsumer, NoForgottenProducer
<1>5. ASSUME CondBroadcast PROVE BufferInv'
  BY <1>5 DEF CondBroadcast, IndexInBounds, NoForgottenConsumer, NoForgottenProducer
<1>6. ASSUME NEW c \in Consumers, Consume(c) PROVE BufferInv'
  BY <1>6 DEF Consume, IndexInBounds, NoForgottenConsumer, NoForgottenProducer
<1>7. ASSUME NEW c \in Consumers, CondSignal(c) PROVE BufferInv'
  BY <1>7 DEF CondSignal, IndexInBounds, NoForgottenConsumer, NoForgottenProducer
<1>8. ASSUME NEW t \in Tid, WokenByNobody(t) PROVE BufferInv'
  BY <1>8 DEF WokenByNobody, IndexInBounds, NoForgottenConsumer, NoForgottenProducer
<1>9. ASSUME UNCHANGED bufferVars PROVE BufferInv'
  BY <1>9 DEF bufferVars, IndexInBounds, NoForgottenConsumer, NoForgottenProducer
<1> QED
  BY <1>1, <1>2, <1>3, <1>4, <1>5, <1>6, <1>7, <1>8, <1>9 DEF BufferNext, BufferStep

\* The invariant holds in every state of the program.
THEOREM BufferCorrect == BufferSpec => []BufferInv
  BY BufferStarts, BufferGoesOn, PTL DEF BufferSpec

\* A thread is between two of its calls, and only one of them holds the mutex.
THEOREM BufferTyped == BufferSpec => []BufferTypeOK
<1>1. BufferInv => BufferTypeOK
  BY DEF BufferInv
<1> QED
  BY <1>1, BufferCorrect, PTL

\* The counter stays in its range, whoever is woken when and for whatever reason.
THEOREM BufferBounded == BufferSpec => []IndexInBounds
<1>1. BufferInv => IndexInBounds
  BY DEF BufferInv
<1> QED
  BY <1>1, BufferCorrect, PTL

\* No broadcast is lost: a consumer sleeps while there are items only as long as the
\* producer is on its way to its call.
THEOREM ConsumersRemembered == BufferSpec => []NoForgottenConsumer
<1>1. BufferInv => NoForgottenConsumer
  BY DEF BufferInv
<1> QED
  BY <1>1, BufferCorrect, PTL

\* No signal is lost: the producer sleeps while there is room only as long as a
\* consumer is on its way to its call.
THEOREM ProducerRemembered == BufferSpec => []NoForgottenProducer
<1>1. BufferInv => NoForgottenProducer
  BY DEF BufferInv
<1> QED
  BY <1>1, BufferCorrect, PTL
\* Whoever is in the critical section holds the mutex, and nobody else does.
MutexHeld == \A t \in Tid : mutex1 = t <=> at[t] \in Holding

\* The two critical sections exclude each other, though pthread_cond_wait gives the
\* mutex up in the middle of both and takes it back.
THEOREM OneInside == BufferSpec => []MutexHeld
<1> DEFINE Inv == BufferTypeOK /\ MutexHeld
<1> USE BufferThreads DEF BufferTypeOK, MutexHeld, Tid, Holding, MoveOn
<1>1. BufferInit => Inv
  BY BufferLimits DEF BufferInit
<1>2. Inv /\ BufferTypeOK' /\ [BufferNext]_bufferVars => Inv'
  <2> SUFFICES ASSUME Inv, [BufferNext]_bufferVars, BufferTypeOK' PROVE MutexHeld'
    OBVIOUS
  <2>1. ASSUME NEW t \in Tid, MutexLock(t) PROVE MutexHeld'
    BY <2>1 DEF MutexLock
  <2>2. ASSUME NEW t \in Tid, CondWait(t) \/ MutexUnlock(t) PROVE MutexHeld'
    BY <2>2 DEF CondWait, MutexUnlock
  <2>3. CASE Produce \/ CondBroadcast
    BY <2>3 DEF Produce, CondBroadcast
  <2>4. ASSUME NEW c \in Consumers, Consume(c) \/ CondSignal(c) PROVE MutexHeld'
    BY <2>4 DEF Consume, CondSignal
  <2>5. ASSUME NEW t \in Tid, WokenByNobody(t) PROVE MutexHeld'
    BY <2>5 DEF WokenByNobody
  <2>6. CASE UNCHANGED bufferVars
    BY <2>6 DEF bufferVars
  <2> QED
    BY <2>1, <2>2, <2>3, <2>4, <2>5, <2>6 DEF BufferNext, BufferStep
<1> QED
  BY <1>1, <1>2, BufferTyped, PTL DEF BufferSpec

\* Thread t need not wait for anybody: it is inside, or the mutex it wants is free.
GoesOn(t) ==
    \/ mutex1 = t /\ at[t] \in Holding
    \/ mutex1 = Free /\ at[t] \in {"sleep", "woken"}

\* The program cannot come to rest, with any capacity and any consumers: when all are
\* outside, somebody is not asleep.  Were they all in pthread_cond_wait, the buffer
\* would be empty and full, for nobody is about to wake those who need not wait.
THEOREM NeverAtRest == Consumers # {} => (BufferSpec => [](\E t \in Tid : GoesOn(t)))
<1> SUFFICES ASSUME Consumers # {} PROVE BufferSpec => [](\E t \in Tid : GoesOn(t))
  OBVIOUS
<1>1. BufferInv /\ MutexHeld => \E t \in Tid : GoesOn(t)
  <2> SUFFICES ASSUME BufferInv, MutexHeld PROVE \E t \in Tid : GoesOn(t)
    OBVIOUS
  <2>1. CASE mutex1 # Free
    BY <2>1 DEF BufferInv, BufferTypeOK, MutexHeld, GoesOn
  <2>2. CASE mutex1 = Free /\ \A t \in Tid : at[t] = "waiting"
    <3>1. at[Producer] = "waiting" /\ \E c \in Consumers : at[c] = "waiting"
      BY <2>2 DEF Tid
    <3>2. Empty /\ Full
      BY <2>2, <3>1 DEF BufferInv, NoForgottenConsumer, NoForgottenProducer, Tid
    <3> QED
      BY <3>2, BufferLimits DEF BufferInv, BufferTypeOK, Empty, Full
  <2>3. CASE mutex1 = Free /\ \E t \in Tid : at[t] # "waiting"
    <3>1. \A t \in Tid : at[t] \notin Holding
      BY <2>3, BufferThreads DEF MutexHeld, Tid
    <3>2. PICK t \in Tid : at[t] \in {"sleep", "woken"}
      BY <2>3, <3>1 DEF BufferInv, BufferTypeOK
    <3> QED
      BY <2>3, <3>2 DEF GoesOn
  <2> QED
    BY <2>1, <2>2, <2>3
<1> QED
  BY <1>1, BufferCorrect, OneInside, PTL
=============================================================================
