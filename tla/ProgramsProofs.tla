--------------------------- MODULE ProgramsProofs ---------------------------
(***************************************************************************)
(* The safety of the small programs, for every number of clients, threads  *)
(* and counts: theorems of the same specification that TLC checks.         *)
(***************************************************************************)
EXTENDS MCPrograms, BoundedBufferProofs, FiniteSetTheorems, SequenceTheorems,
        WellFoundedInduction, TLAPS

\* A step of the run is one of a program, or leaves that program's variables alone.
LEMMA StepsApart ==
    [ProgramsNext]_allVars =>
        /\ UNCHANGED program
        /\ [Next]_batchVars /\ [BufferNext]_bufferVars
        /\ [ForkNext]_forkVars /\ [DaemonNext]_daemonVars
        /\ [PipeNext]_pipeVars /\ [DatagramNext]_datagramVars /\ [EchoNext]_echoVars
        /\ [SingletonNext]_singletonVars /\ [PointerNext]_pointerVars
        /\ [PoolNext]_poolVars /\ [StationNext]_stationVars /\ [ThreadNext]_threadVars
  BY Zenon DEF ProgramsNext, allVars, threadingVars, systemVars, sampleVars

\* Whichever program runs, the producer and the consumers behave as BoundedBuffer
\* says: what BoundedBufferProofs proves of them holds in the run.
THEOREM ThreadsOfTheBuffer == ProgramsSpec => BufferSpec
<1>1. ProgramsInit => BufferInit
  BY DEF ProgramsInit
<1> QED
  BY <1>1, StepsApart, PTL DEF ProgramsSpec, BufferSpec

----------------------------------------------------------------------------
(* ForkServer *)

\* Between two turns of its loop the server has no client in hand.
ForkTypes ==
    /\ serving \subseteq Client
    /\ handler \in BOOLEAN /\ sigchld \in BOOLEAN
    /\ child \in [Client -> {"none", "close listener", "read", "write", "close client",
                             "sleep", "zombie", "reaped"}]
    /\ holders \in [Client \cup {Listener} -> SUBSET (Client \cup {Server})]
    /\ server \in {"listen", "accept"} => serving = {}

\* A zombie is one whose signal is pending or whose handler runs; the holders of a
\* connection are told by `serving', which is empty when the next one is accepted.
ForkInv == ForkTypes /\ NoChildForgotten /\ OwnClientOnly

\* At first there are no children, and nobody holds a connection.
LEMMA ForkStarts == ProgramsInit => ForkInv
  BY ForkNames, Zenon DEF ProgramsInit, ForkInit, ForkInv, ForkTypes, NoChildForgotten, OwnClientOnly

\* No step of the server's main, of a child, of a client or of the handler leaves
\* the types.
LEMMA ForkTyped == ForkTypes /\ [ForkNext]_forkVars => ForkTypes'
<1> SUFFICES ASSUME ForkTypes, [ForkNext]_forkVars PROVE ForkTypes'
  OBVIOUS
<1> USE DEF ForkTypes, Main, Closed
<1>1. CASE Listen \/ ListenFails \/ SleeperFails
  BY <1>1 DEF Listen, ListenFails, SleeperFails, clientVars
<1>2. ASSUME NEW k \in Client, Accept(k) \/ AcceptFails(k) PROVE ForkTypes'
  BY <1>2 DEF Accept, AcceptFails, processVars
<1>3. ASSUME NEW k \in Client, Fork(k) PROVE ForkTypes'
  BY <1>3 DEF Fork
<1>4. ASSUME NEW k \in Client, ForkFails(k) \/ CloseClient(k) PROVE ForkTypes'
  BY <1>4 DEF ForkFails, CloseClient
<1>5. ASSUME NEW k \in Client, Connect(k) \/ Request(k) \/ HangUp(k) PROVE ForkTypes'
  BY <1>5 DEF Connect, Request, HangUp, processVars
<1>6. ASSUME NEW k \in Client, CloseListener(k) \/ Read(k) \/ Write(k) PROVE ForkTypes'
  BY <1>6 DEF CloseListener, Read, Write
<1>7. ASSUME NEW k \in Client, Ends(k) PROVE ForkTypes'
  BY <1>7 DEF Ends
<1>8. CASE Deliver \/ Return
  BY <1>8 DEF Deliver, Return
<1>9. ASSUME NEW k \in Client, Reap(k) \/ ForkSleeper(k) PROVE ForkTypes'
  BY <1>9 DEF Reap, ForkSleeper
<1>10. CASE UNCHANGED forkVars
  BY <1>10 DEF forkVars, processVars
<1> QED
  BY <1>1, <1>2, <1>3, <1>4, <1>5, <1>6, <1>7, <1>8, <1>9, <1>10
  DEF ForkNext, HttpNext, ZombieNext, Serve, Handler, HandleClient, ReadError,
      BrokenPipe, Exit, SleeperEnds

\* Every step that makes a zombie makes the signal pending; only Deliver takes the
\* signal, and starts the handler; only Return ends it, when no zombie is left.
LEMMA ZombiesKnown == ForkTypes /\ NoChildForgotten /\ [ForkNext]_forkVars => NoChildForgotten'
<1> SUFFICES ASSUME ForkTypes, NoChildForgotten, [ForkNext]_forkVars PROVE NoChildForgotten'
  OBVIOUS
<1> USE DEF ForkTypes, NoChildForgotten
<1>1. CASE UNCHANGED <<child, sigchld, handler>>
  BY <1>1
<1>2. ASSUME NEW k \in Client, NEW next \in {"close listener", "read", "write", "close client",
                                             "sleep", "reaped"},
             child' = [child EXCEPT ![k] = next], UNCHANGED <<sigchld, handler>>
      PROVE  NoChildForgotten'
  BY <1>2
<1>3. ASSUME NEW k \in Client, Ends(k) PROVE NoChildForgotten'
  BY <1>3 DEF Ends
<1>4. CASE Deliver \/ Return
  BY <1>4 DEF Deliver, Return
<1>5. ASSUME NEW k \in Client, Fork(k) \/ CloseListener(k) \/ Read(k) \/ Write(k)
                                  \/ Reap(k) \/ ForkSleeper(k)
      PROVE  NoChildForgotten'
  BY <1>2, <1>5 DEF Fork, CloseListener, Read, Write, Reap, ForkSleeper
<1>6. ASSUME NEW k \in Client, Accept(k) \/ AcceptFails(k) \/ ForkFails(k) \/ CloseClient(k)
                                  \/ Connect(k) \/ Request(k) \/ HangUp(k)
      PROVE  NoChildForgotten'
  BY <1>1, <1>6 DEF Accept, AcceptFails, ForkFails, CloseClient, Connect, Request, HangUp,
                    processVars
<1>7. CASE Listen \/ ListenFails \/ SleeperFails \/ UNCHANGED forkVars
  BY <1>1, <1>7 DEF Listen, ListenFails, SleeperFails, forkVars, processVars
<1> QED
  BY <1>3, <1>4, <1>5, <1>6, <1>7
  DEF ForkNext, HttpNext, ZombieNext, Serve, Handler, HandleClient, ReadError,
      BrokenPipe, Exit, SleeperEnds

\* A fork() copies one connection, that of `serving', since the server holds no other.
LEMMA ConnectionsKept == ForkTypes /\ OwnClientOnly /\ [ForkNext]_forkVars => OwnClientOnly'
<1> SUFFICES ASSUME ForkTypes, OwnClientOnly, [ForkNext]_forkVars PROVE OwnClientOnly'
  OBVIOUS
<1> USE ForkNames DEF ForkTypes, OwnClientOnly
<1>1. CASE UNCHANGED <<holders, serving>>
  BY <1>1
<1>2. ASSUME NEW k \in Client, Accept(k) PROVE OwnClientOnly'
  <2> SUFFICES ASSUME NEW s \in Client
               PROVE  holders'[s] \subseteq {Server, s} /\ (Server \in holders'[s] => serving' = {s})
    OBVIOUS
  <2>1. serving = {} /\ serving' = {k} /\ holders' = [holders EXCEPT ![k] = {Server}]
    BY <1>2 DEF Accept, Main
  <2>2. Server \notin holders[s]
    BY <2>1
  <2>3. holders'[s] = IF s = k THEN {Server} ELSE holders[s]
    BY <2>1
  <2> QED
    BY <2>1, <2>2, <2>3
<1>3. ASSUME NEW k \in Client, Fork(k) PROVE OwnClientOnly'
  <2> SUFFICES ASSUME NEW s \in Client
               PROVE  holders'[s] \subseteq {Server, s} /\ (Server \in holders'[s] => serving' = {s})
    OBVIOUS
  <2>1. serving = {k} /\ serving' = serving
    BY <1>3 DEF Fork
  <2>2. holders'[s] = IF Server \in holders[s] THEN holders[s] \cup {k} ELSE holders[s]
    BY <1>3 DEF Fork
  <2>3. holders[s] \subseteq {Server, s} /\ (Server \in holders[s] => serving = {s})
    OBVIOUS
  <2> HIDE DEF ForkTypes, OwnClientOnly
  <2>4. Server \in holders[s] => s = k
    BY <2>1, <2>3
  <2>5. CASE Server \in holders[s]
    BY <2>1, <2>2, <2>3, <2>5, <2>4
  <2>6. CASE Server \notin holders[s]
    BY <2>2, <2>3, <2>6
  <2> QED
    BY <2>5, <2>6
<1>4. ASSUME NEW k \in Client, ForkFails(k) \/ CloseClient(k) PROVE OwnClientOnly'
  <2> SUFFICES ASSUME NEW s \in Client
               PROVE  holders'[s] \subseteq {Server, s} /\ (Server \in holders'[s] => serving' = {s})
    OBVIOUS
  <2>1. serving = {k} /\ holders' = [holders EXCEPT ![k] = @ \ {Server}]
    BY <1>4 DEF ForkFails, CloseClient, Closed
  <2>2. holders'[s] = IF s = k THEN holders[s] \ {Server} ELSE holders[s]
    BY <2>1
  <2>3. holders[s] \subseteq {Server, s} /\ (Server \in holders[s] => serving = {s})
    OBVIOUS
  <2> HIDE DEF ForkTypes, OwnClientOnly
  <2>4. Server \in holders[s] => s = k
    BY <2>1, <2>3
  <2>5. Server \notin holders'[s]
    BY <2>2, <2>4
  <2> QED
    BY <2>2, <2>3, <2>5
<1>5. ASSUME NEW k \in Client, CloseListener(k) PROVE OwnClientOnly'
  BY <1>5 DEF CloseListener, Closed
<1>6. ASSUME NEW k \in Client, Ends(k) PROVE OwnClientOnly'
  BY <1>6 DEF Ends
<1>7. CASE Listen
  BY <1>7 DEF Listen, Main
<1>8. CASE ListenFails \/ SleeperFails \/ Deliver \/ Return \/ UNCHANGED forkVars
  BY <1>1, <1>8 DEF ListenFails, SleeperFails, Deliver, Return, forkVars, processVars
<1>9. ASSUME NEW k \in Client, AcceptFails(k) \/ Connect(k) \/ Request(k) \/ HangUp(k) \/ Read(k)
                                  \/ Write(k) \/ Reap(k) \/ ForkSleeper(k)
      PROVE  OwnClientOnly'
  BY <1>1, <1>9 DEF AcceptFails, Connect, Request, HangUp, Read, Write, Reap, ForkSleeper,
                    processVars
<1> QED
  BY <1>2, <1>3, <1>4, <1>5, <1>6, <1>7, <1>8, <1>9
  DEF ForkNext, HttpNext, ZombieNext, Serve, Handler, HandleClient, ReadError,
      BrokenPipe, Exit, SleeperEnds

\* The invariant holds in every state of the run.
LEMMA ForkCorrect == ProgramsSpec => []ForkInv
  BY ForkStarts, ForkTyped, ZombiesKnown, ConnectionsKept, StepsApart, PTL
  DEF ProgramsSpec, ForkInv

\* Signals that merge lose no child: for any number of clients, whoever ends while
\* the handler runs or its signal is pending is still to be reaped.
THEOREM ChildrenReaped == ProgramsSpec => []NoChildForgotten
<1>1. ForkInv => NoChildForgotten
  BY DEF ForkInv
<1> QED
  BY <1>1, ForkCorrect, PTL

\* No child inherits another client's connection, and the server keeps none.
THEOREM ConnectionsApart == ProgramsSpec => []OwnClientOnly
<1>1. ForkInv => OwnClientOnly
  BY DEF ForkInv
<1> QED
  BY <1>1, ForkCorrect, PTL

----------------------------------------------------------------------------
(* BatchTask *)

\* Only the types that the test of a batch needs.
BatchInv ==
    /\ count \in Int /\ DOMAIN pc = 1..2
    /\ NoForgottenBatch

\* No call of task1, of task2 or of the kernel breaks it.
LEMMA BatchGoesOn == BatchInv /\ UNCHANGED program /\ [Next]_batchVars => BatchInv'
<1> SUFFICES ASSUME BatchInv, UNCHANGED program, [Next]_batchVars PROVE BatchInv'
  OBVIOUS
<1> USE Sizes DEF BatchInv, NoForgottenBatch, Batching, StopFlag, GoTo
<1>1. CASE Task1
  BY <1>1 DEF Task1, Running, Lock, Wait, Take, Unlock
<1>2. CASE Task2
  BY <1>2 DEF Task2, Count, Unlock2, Signal, Stop, LastSignal, Return2, Woken
<1>3. CASE SpuriousWakeup \/ UNCHANGED batchVars
  BY <1>3 DEF SpuriousWakeup, batchVars
<1> QED
  BY <1>1, <1>2, <1>3 DEF Next

\* task1 sleeps on a full batch only while its signal is to come, for every size of
\* a batch and every number of counts.
THEOREM BatchesSignalled == ProgramsSpec => []NoForgottenBatch
<1>1. ProgramsInit => BatchInv
  BY DEF ProgramsInit, Init, BatchInv, NoForgottenBatch
<1>2. BatchInv => NoForgottenBatch
  BY DEF BatchInv
<1> QED
  BY <1>1, <1>2, BatchGoesOn, StepsApart, PTL DEF ProgramsSpec

----------------------------------------------------------------------------
(* Singleton *)

\* Who holds the lock is alone behind it; a store waits in a buffer only between
\* `new' and the unlock; what a thread has seen is in memory when it returns.
SingletonInv ==
    /\ instance \in 0..1 /\ constructed \in 0..1 /\ holder \subseteq Thread
    /\ stored \in [Thread -> 0..1] /\ DOMAIN got = Thread
    /\ getting \in [Thread -> {"test", "lock", "retest", "new", "unlock", "return", "done"}]
    /\ instance <= constructed
    /\ constructed = 1 => instance = 1 \/ \E t \in Thread : stored[t] = 1
    /\ \A t \in Thread :
        /\ getting[t] \in {"retest", "new", "unlock"} => holder = {t}
        /\ getting[t] = "new" => constructed = 0
        /\ getting[t] = "unlock" => Seen(t) = 1
        /\ stored[t] = 1 => getting[t] = "unlock" /\ constructed = 1
        /\ getting[t] \in {"return", "done"} => instance = 1
        /\ getting[t] = "done" => got[t] = 1

\* No access of a thread, and no buffer that drains, breaks it.
LEMMA SingletonGoesOn == SingletonInv /\ [SingletonNext]_singletonVars => SingletonInv'
<1> SUFFICES ASSUME SingletonInv, [SingletonNext]_singletonVars PROVE SingletonInv'
  OBVIOUS
<1> USE DEF SingletonInv, Seen, Then
<1>1. ASSUME NEW t \in Thread, Test(t) PROVE SingletonInv'
  BY <1>1 DEF Test
<1>2. ASSUME NEW t \in Thread, LockGuard(t) PROVE SingletonInv'
  BY <1>2 DEF LockGuard
<1>3. ASSUME NEW t \in Thread, Retest(t) PROVE SingletonInv'
  <2>1. holder = {t} /\ stored[t] = 0
    BY <1>3 DEF Retest
  <2>2. instance = 0 => constructed = 0
    BY <2>1, <1>3 DEF Retest
  <2> QED
    BY <2>1, <2>2, <1>3 DEF Retest
<1>4. ASSUME NEW t \in Thread, New(t) PROVE SingletonInv'
  BY <1>4 DEF New
<1>5. ASSUME NEW t \in Thread, Drain(t) PROVE SingletonInv'
  BY <1>5 DEF Drain
<1>6. ASSUME NEW t \in Thread, UnlockGuard(t) PROVE SingletonInv'
  BY <1>6 DEF UnlockGuard
<1>7. ASSUME NEW t \in Thread, ReturnInstance(t) PROVE SingletonInv'
  BY <1>7 DEF ReturnInstance
<1>8. CASE UNCHANGED singletonVars
  BY <1>8 DEF singletonVars
<1> QED
  BY <1>1, <1>2, <1>3, <1>4, <1>5, <1>6, <1>7, <1>8 DEF SingletonNext, Get

\* Double-checked locking with store buffers: any number of threads get one instance.
THEOREM OneForAll == ProgramsSpec => []OneInstance
<1>1. ProgramsInit => SingletonInv
  BY DEF ProgramsInit, SingletonInit, SingletonInv, Seen, Eager
<1>2. SingletonInv => OneInstance
  BY DEF SingletonInv, OneInstance
<1> QED
  BY <1>1, <1>2, SingletonGoesOn, StepsApart, PTL DEF ProgramsSpec

----------------------------------------------------------------------------
(* SmartPointers *)

PointerTypes ==
    /\ object \in [Object -> {"none", "live", "deleted", "deleted twice"}]
    /\ raw \subseteq Object
    /\ ref \in [Pointer -> Object \cup {Null, Gone}]
    /\ counter \in [Object -> Int]

Owners(o) == {s \in Pointer : ref[s] = o}

\* OwnedOnce for object o: the count for shared pointers, the one owner for unique ones.
Owned(o) ==
    /\ object[o] = "live" <=> o \in raw \/ \E s \in Pointer : ref[s] = o
    /\ o \in raw => \A s \in Pointer : ref[s] # o
    /\ Shared => counter[o] = Cardinality(Owners(o))
    /\ ~Shared => \A s, t \in Pointer : ref[s] = o /\ ref[t] = o => s = t

PointerInv == PointerTypes /\ \A o \in Object : Owned(o)

\* One pointer is redirected: the owners of an object gain it, lose it or neither.
LEMMA OwnersCounted ==
    ASSUME PointerTypes, NEW o \in Object, NEW s \in Pointer,
           NEW p \in Object \cup {Null, Gone}, ref' = [ref EXCEPT ![s] = p]
    PROVE  /\ Cardinality(Owners(o)) \in Nat
           /\ p = o /\ ref[s] # o => Cardinality(Owners(o)') = Cardinality(Owners(o)) + 1
           /\ p # o /\ ref[s] = o => Cardinality(Owners(o)') = Cardinality(Owners(o)) - 1
           /\ (p = o <=> ref[s] = o) => Cardinality(Owners(o)') = Cardinality(Owners(o))
<1>1. IsFiniteSet(Owners(o))
  BY PointerNames, FS_Subset DEF Owners
<1>2. CASE p = o /\ ref[s] # o
  <2>1. Owners(o)' = Owners(o) \cup {s} /\ s \notin Owners(o)
    BY <1>2 DEF Owners, PointerTypes
  <2> QED
    BY <1>1, <1>2, <2>1, FS_AddElement, FS_CardinalityType
<1>3. CASE p # o /\ ref[s] = o
  <2>1. Owners(o)' = Owners(o) \ {s} /\ s \in Owners(o)
    BY <1>3 DEF Owners, PointerTypes
  <2> QED
    BY <1>1, <1>3, <2>1, FS_RemoveElement, FS_CardinalityType
<1>4. CASE p = o <=> ref[s] = o
  <2>1. Owners(o)' = Owners(o)
    BY <1>4 DEF Owners, PointerTypes
  <2> QED
    BY <1>1, <1>4, <2>1, FS_CardinalityType
<1> QED
  BY <1>2, <1>3, <1>4

\* A count of 1 is that of the only owner, and a pointer that refers is counted.
LEMMA OnlyOwner ==
    ASSUME PointerTypes, NEW o \in Object, NEW s \in Pointer, ref[s] = o
    PROVE  /\ Cardinality(Owners(o)) = 1 <=> \A t \in Pointer : ref[t] = o => t = s
           /\ Cardinality(Owners(o)) >= 1
<1>1. IsFiniteSet(Owners(o)) /\ s \in Owners(o)
  BY PointerNames, FS_Subset DEF Owners
<1>2. /\ Cardinality(Owners(o) \ {s}) = Cardinality(Owners(o)) - 1
      /\ Cardinality(Owners(o) \ {s}) \in Nat /\ Cardinality(Owners(o)) \in Nat
      /\ IsFiniteSet(Owners(o) \ {s})
  BY <1>1, FS_RemoveElement, FS_CardinalityType
<1>3. Cardinality(Owners(o) \ {s}) = 0 <=> Owners(o) \ {s} = {}
  BY <1>2, FS_EmptySet
<1>4. Owners(o) \ {s} = {} <=> \A t \in Pointer : ref[t] = o => t = s
  BY DEF Owners
<1> QED
  BY <1>2, <1>3, <1>4

\* A function that is changed at one place.
LEMMA ChangedAt ==
    ASSUME NEW S, NEW T, NEW f \in [S -> T], NEW x \in S, NEW v \in T
    PROVE  /\ [f EXCEPT ![x] = v] \in [S -> T]
           /\ \A y \in S : [f EXCEPT ![x] = v][y] = IF y = x THEN v ELSE f[y]
  OBVIOUS

\* What is left of the counts and the objects when s lets go.
LEMMA LetGoOfOne ==
    ASSUME PointerTypes, NEW s \in Pointer, Exists(s)
    PROVE  /\ LetGo(s) \in [Object -> Int]
           /\ AfterLetGo(s) \in [Object -> {"none", "live", "deleted", "deleted twice"}]
           /\ \A o \in Object :
               /\ LetGo(s)[o] = IF ref[s] = o THEN counter[o] - 1 ELSE counter[o]
               /\ AfterLetGo(s)[o] = IF ref[s] = o /\ counter[o] = 1 THEN Deleted(o) ELSE object[o]
<1> USE PointerNames DEF PointerTypes, Exists
<1>1. CASE ref[s] = Null
  BY <1>1 DEF LetGo, AfterLetGo
<1>2. CASE ref[s] \in Object
  <2>1. LetGo(s) = [counter EXCEPT ![ref[s]] = counter[ref[s]] - 1]
    BY <1>2 DEF LetGo
  <2>2. AfterLetGo(s) = IF counter[ref[s]] = 1 THEN [object EXCEPT ![ref[s]] = Deleted(ref[s])]
                        ELSE object
    BY <1>2 DEF AfterLetGo, AfterDelete
  <2>3. LetGo(s) \in [Object -> Int] /\ \A o \in Object :
            LetGo(s)[o] = IF ref[s] = o THEN counter[o] - 1 ELSE counter[o]
    <3>1. counter \in [Object -> Int]
      OBVIOUS
    <3> HIDE DEF PointerTypes, Exists
    <3>2. counter[ref[s]] - 1 \in Int
      BY <1>2, <3>1
    <3> QED
      BY <1>2, <2>1, <3>1, <3>2, ChangedAt
  <2>4. Deleted(ref[s]) \in {"deleted", "deleted twice"}
    BY DEF Deleted
  <2>5. AfterLetGo(s) \in [Object -> {"none", "live", "deleted", "deleted twice"}]
    BY <1>2, <2>2, <2>4
  <2>6. \A o \in Object :
            AfterLetGo(s)[o] = IF ref[s] = o /\ counter[o] = 1 THEN Deleted(o) ELSE object[o]
    <3>1. CASE counter[ref[s]] = 1
      <4>1. AfterLetGo(s) = [object EXCEPT ![ref[s]] = Deleted(ref[s])]
        BY <2>2, <3>1
      <4>2. object \in [Object -> {"none", "live", "deleted", "deleted twice"}]
        OBVIOUS
      <4> HIDE DEF PointerTypes, Exists
      <4>3. \A o \in Object : AfterLetGo(s)[o] = IF o = ref[s] THEN Deleted(ref[s]) ELSE object[o]
        BY <1>2, <2>4, <4>1, <4>2, ChangedAt
      <4> QED
        BY <3>1, <4>3
    <3>2. CASE counter[ref[s]] # 1
      BY <1>2, <2>2, <3>2
    <3> QED
      BY <3>1, <3>2
  <2> QED
    BY <2>3, <2>5, <2>6
<1> QED
  BY <1>1, <1>2

\* The counts when a pointer to p is added.
LEMMA OneMoreCounted ==
    ASSUME NEW f \in [Object -> Int], NEW p \in Object \cup {Null}
    PROVE  LET g == IF p = Null THEN f ELSE [f EXCEPT ![p] = @ + 1]
           IN /\ g \in [Object -> Int]
              /\ \A o \in Object : g[o] = IF p = o THEN f[o] + 1 ELSE f[o]
  BY PointerNames

\* Nothing but members of the two classes and the program touches the heap; each
\* leaves the types.
LEMMA PointerTyped == PointerTypes /\ [PointerNext]_pointerVars => PointerTypes'
<1> SUFFICES ASSUME PointerTypes, [PointerNext]_pointerVars PROVE PointerTypes'
  OBVIOUS
<1> USE PointerNames DEF PointerTypes, AfterDelete, Deleted
<1>1. ASSUME NEW o \in Object, Allocate(o) \/ DeleteRaw(o) PROVE PointerTypes'
  BY <1>1 DEF Allocate, DeleteRaw
<1>2. ASSUME NEW s \in Pointer, ConstructNull(s) \/ ReleaseRaw(s) PROVE PointerTypes'
  BY <1>2 DEF ConstructNull, ReleaseRaw
<1>3. ASSUME NEW s \in Pointer, DestroyShared(s) PROVE PointerTypes'
  BY <1>3, LetGoOfOne DEF DestroyShared
<1>4. ASSUME NEW s \in Pointer, DestroyUnique(s) PROVE PointerTypes'
  BY <1>4 DEF DestroyUnique, Exists
<1>5. ASSUME NEW s \in Pointer, NEW o \in Object, ConstructShared(s, o) \/ ConstructUnique(s, o)
      PROVE  PointerTypes'
  <2>1. CASE ConstructShared(s, o)
    <3>1. counter' = [counter EXCEPT ![o] = 1]
      BY <2>1 DEF ConstructShared
    <3>2. counter \in [Object -> Int]
      OBVIOUS
    <3> HIDE DEF PointerTypes
    <3>3. counter' \in [Object -> Int]
      BY <3>1, <3>2, ChangedAt
    <3> QED
      BY <2>1, <3>3 DEF ConstructShared, PointerTypes
  <2>2. CASE ConstructUnique(s, o)
    BY <2>2 DEF ConstructUnique
  <2> QED
    BY <1>5, <2>1, <2>2
<1>6. ASSUME NEW s \in Pointer, NEW t \in Pointer, CopyShared(s, t) PROVE PointerTypes'
  <2>1. ref[t] \in Object \cup {Null}
    BY <1>6 DEF CopyShared, Exists
  <2> QED
    BY <1>6, <2>1, OneMoreCounted DEF CopyShared
<1>7. ASSUME NEW s \in Pointer, NEW t \in Pointer, AssignShared(s, t) PROVE PointerTypes'
  <2>1. Exists(s) /\ ref[t] \in Object \cup {Null}
    BY <1>7 DEF AssignShared, Exists
  <2>2. counter' \in [Object -> Int]
    BY <1>7, <2>1, LetGoOfOne, OneMoreCounted DEF AssignShared
  <2> QED
    BY <1>7, <2>1, <2>2, LetGoOfOne DEF AssignShared
<1>8. ASSUME NEW s \in Pointer, NEW t \in Pointer, MoveUnique(s, t) \/ MoveAssign(s, t)
      PROVE  PointerTypes'
  BY <1>8 DEF MoveUnique, MoveAssign, Exists
<1>9. ASSUME NEW s \in Pointer, NEW q \in raw \cup {Null}, Reset(s, q) PROVE PointerTypes'
  BY <1>9 DEF Reset, Exists
<1>10. CASE UNCHANGED pointerVars
  BY <1>10 DEF pointerVars
<1> QED
  BY <1>1, <1>2, <1>3, <1>4, <1>5, <1>6, <1>7, <1>8, <1>9, <1>10
  DEF PointerNext, SharedNext, UniqueNext

\* A member of SharedPtr keeps every object owned as its count says.
LEMMA SharedOwned ==
    ASSUME PointerInv, Shared, UNCHANGED program, SharedNext, NEW o \in Object
    PROVE  Owned(o)'
<1> USE PointerNames DEF PointerInv
<1>0. Owned(o) /\ Shared' /\ PointerTypes
  BY DEF Shared
<1>1. ASSUME NEW s \in Pointer, ConstructNull(s) PROVE Owned(o)'
  <2>1. ref[s] # o /\ ref' = [ref EXCEPT ![s] = Null] /\ Null # o
    BY <1>1 DEF ConstructNull, Exists
  <2>2. Cardinality(Owners(o)') = Cardinality(Owners(o))
    BY <1>0, <2>1, OwnersCounted
  <2>3. \A u \in Pointer : ref'[u] = o <=> ref[u] = o
    BY <1>0, <2>1 DEF PointerTypes
  <2> QED
    BY <1>0, <1>1, <2>2, <2>3 DEF ConstructNull, Owned
<1>2. ASSUME NEW s \in Pointer, NEW p \in Object, ConstructShared(s, p) PROVE Owned(o)'
  <2>1. ref[s] \notin Object /\ ref' = [ref EXCEPT ![s] = p]
    BY <1>2 DEF ConstructShared, Exists
  <2>2. CASE o = p
    <3>1. Owners(o) = {}
      BY <1>0, <1>2, <2>2 DEF ConstructShared, Owned, Owners
    <3>2. Cardinality(Owners(o)') = Cardinality(Owners(o)) + 1
      BY <1>0, <2>1, <2>2, OwnersCounted
    <3>3. Cardinality(Owners(o)') = 1
      BY <3>1, <3>2, FS_EmptySet
    <3>4. counter'[o] = 1 /\ ref'[s] = o
      BY <1>0, <1>2, <2>1, <2>2 DEF ConstructShared, PointerTypes
    <3>5. object'[o] = "live" /\ o \notin raw'
      BY <1>0, <1>2, <2>2 DEF ConstructShared, Owned
    <3> QED
      BY <1>0, <3>3, <3>4, <3>5 DEF Owned
  <2>3. CASE o # p
    <3>1. Cardinality(Owners(o)') = Cardinality(Owners(o))
      BY <1>0, <2>1, <2>3, OwnersCounted
    <3>2. \A u \in Pointer : ref'[u] = o <=> ref[u] = o
      BY <1>0, <2>1, <2>3 DEF PointerTypes
    <3>3. counter'[o] = counter[o]
      BY <1>0, <1>2, <2>3 DEF ConstructShared, PointerTypes
    <3> QED
      BY <1>0, <1>2, <2>3, <3>1, <3>2, <3>3 DEF ConstructShared, Owned
  <2> QED
    BY <2>2, <2>3
<1>3. ASSUME NEW s \in Pointer, NEW t \in Pointer, CopyShared(s, t) PROVE Owned(o)'
  <2>1. ref[s] \notin Object /\ ref' = [ref EXCEPT ![s] = ref[t]]
    BY <1>3 DEF CopyShared, Exists
  <2>2. Cardinality(Owners(o)') = IF ref[t] = o THEN Cardinality(Owners(o)) + 1
                                  ELSE Cardinality(Owners(o))
    BY <1>0, <2>1, OwnersCounted DEF PointerTypes
  <2>3. counter'[o] = Cardinality(Owners(o)')
    <3>1. ref[t] \in Object \cup {Null} /\ counter \in [Object -> Int]
      BY <1>0, <1>3 DEF CopyShared, Exists, PointerTypes
    <3>2. counter'[o] = IF ref[t] = o THEN counter[o] + 1 ELSE counter[o]
      BY <1>3, <3>1, OneMoreCounted DEF CopyShared
    <3>3. counter[o] = Cardinality(Owners(o))
      BY <1>0 DEF Owned
    <3> QED
      BY <2>2, <3>2, <3>3
  <2>4. (\E u \in Pointer : ref'[u] = o) <=> \E u \in Pointer : ref[u] = o
    BY <1>0, <2>1 DEF PointerTypes
  <2> QED
    BY <1>0, <1>3, <2>3, <2>4 DEF CopyShared, Owned
<1>4. ASSUME NEW s \in Pointer, NEW t \in Pointer, AssignShared(s, t) PROVE Owned(o)'
  <2>1. s # t /\ Exists(s) /\ Exists(t) /\ ref' = [ref EXCEPT ![s] = ref[t]]
    BY <1>4 DEF AssignShared
  <2>2. Cardinality(Owners(o)') =
            IF ref[t] = o /\ ref[s] # o THEN Cardinality(Owners(o)) + 1
            ELSE IF ref[t] # o /\ ref[s] = o THEN Cardinality(Owners(o)) - 1
            ELSE Cardinality(Owners(o))
    BY <1>0, <2>1, OwnersCounted DEF PointerTypes
  <2>3. counter'[o] = Cardinality(Owners(o)')
    <3>0. ref[t] \in Object \cup {Null}
      BY <1>0, <2>1 DEF Exists, PointerTypes
    <3>1. LetGo(s) \in [Object -> Int]
      BY <1>0, <2>1, LetGoOfOne
    <3>2. counter'[o] = IF ref[t] = o THEN LetGo(s)[o] + 1 ELSE LetGo(s)[o]
      BY <1>4, <3>0, <3>1, OneMoreCounted DEF AssignShared
    <3>3. counter[o] = Cardinality(Owners(o)) /\ counter[o] \in Int
      BY <1>0 DEF Owned, PointerTypes
    <3>4. LetGo(s)[o] = IF ref[s] = o THEN counter[o] - 1 ELSE counter[o]
      BY <1>0, <2>1, LetGoOfOne
    <3> QED
      BY <2>2, <3>2, <3>3, <3>4
  <2>4. CASE ref[s] = o /\ counter[o] = 1
    <3>1. \A u \in Pointer : ref[u] = o => u = s
      BY <1>0, <2>4, OnlyOwner DEF Owned
    <3>2. \A u \in Pointer : ref'[u] # o
      BY <1>0, <2>1, <3>1 DEF PointerTypes
    <3>3. object'[o] # "live"
      BY <1>0, <1>4, <2>1, <2>4, LetGoOfOne DEF AssignShared, Deleted
    <3> QED
      BY <1>0, <1>4, <2>3, <2>4, <3>2, <3>3 DEF AssignShared, Owned
  <2>5. CASE ~(ref[s] = o /\ counter[o] = 1)
    <3>1. (\E u \in Pointer : ref'[u] = o) <=> \E u \in Pointer : ref[u] = o
      <4>1. ref[s] = o => \E u \in Pointer : u # s /\ ref[u] = o
        BY <1>0, <2>5, OnlyOwner DEF Owned
      <4> QED
        BY <1>0, <2>1, <4>1 DEF PointerTypes
    <3>2. object'[o] = object[o]
      BY <1>0, <1>4, <2>1, <2>5, LetGoOfOne DEF AssignShared
    <3> QED
      BY <1>0, <1>4, <2>3, <3>1, <3>2 DEF AssignShared, Owned
  <2> QED
    BY <2>4, <2>5
<1>5. ASSUME NEW s \in Pointer, DestroyShared(s) PROVE Owned(o)'
  <2>1. Exists(s) /\ ref' = [ref EXCEPT ![s] = Gone]
    BY <1>5 DEF DestroyShared
  <2>2. Cardinality(Owners(o)') = IF ref[s] = o THEN Cardinality(Owners(o)) - 1
                                  ELSE Cardinality(Owners(o))
    BY <1>0, <2>1, OwnersCounted
  <2>3. counter'[o] = Cardinality(Owners(o)')
    <3>1. counter'[o] = IF ref[s] = o THEN counter[o] - 1 ELSE counter[o]
      BY <1>0, <1>5, <2>1, LetGoOfOne DEF DestroyShared
    <3>2. counter[o] = Cardinality(Owners(o))
      BY <1>0 DEF Owned
    <3> QED
      BY <2>2, <3>1, <3>2
  <2>4. CASE ref[s] = o /\ counter[o] = 1
    <3>1. \A u \in Pointer : ref[u] = o => u = s
      BY <1>0, <2>4, OnlyOwner DEF Owned
    <3>2. \A u \in Pointer : ref'[u] # o
      BY <1>0, <2>1, <3>1 DEF PointerTypes
    <3>3. object'[o] # "live"
      BY <1>0, <1>5, <2>1, <2>4, LetGoOfOne DEF DestroyShared, Deleted
    <3> QED
      BY <1>0, <1>5, <2>3, <2>4, <3>2, <3>3 DEF DestroyShared, Owned
  <2>5. CASE ~(ref[s] = o /\ counter[o] = 1)
    <3>1. (\E u \in Pointer : ref'[u] = o) <=> \E u \in Pointer : ref[u] = o
      <4>1. ref[s] = o => \E u \in Pointer : u # s /\ ref[u] = o
        BY <1>0, <2>5, OnlyOwner DEF Owned
      <4> QED
        BY <1>0, <2>1, <4>1 DEF PointerTypes
    <3>2. object'[o] = object[o]
      BY <1>0, <1>5, <2>1, <2>5, LetGoOfOne DEF DestroyShared
    <3> QED
      BY <1>0, <1>5, <2>3, <3>1, <3>2 DEF DestroyShared, Owned
  <2> QED
    BY <2>4, <2>5
<1> QED
  BY <1>1, <1>2, <1>3, <1>4, <1>5 DEF SharedNext

\* A member of UniquePtr keeps every object with one owner.
LEMMA UniqueOwned ==
    ASSUME PointerInv, ~Shared, UNCHANGED program, UniqueNext, NEW o \in Object
    PROVE  Owned(o)'
<1>0. Owned(o) /\ ~Shared' /\ PointerTypes
  BY DEF PointerInv, Shared
<1>1. ASSUME NEW u \in Pointer, ConstructNull(u) PROVE Owned(o)'
  <2>1. \A w \in Pointer : ref'[w] = IF w = u THEN Null ELSE ref[w]
    BY <1>0, <1>1 DEF ConstructNull, PointerTypes
  <2>2. object'[o] = object[o]
    BY <1>0, <1>1, PointerNames DEF ConstructNull, PointerTypes, AfterDelete, Exists
  <2>3. o \in raw' <=> o \in raw
    BY <1>1, PointerNames DEF ConstructNull
  <2> QED
    BY <1>0, <1>1, <2>1, <2>2, <2>3, PointerNames DEF ConstructNull, Owned, Deleted, Exists
<1>2. ASSUME NEW u \in Pointer, ReleaseRaw(u) PROVE Owned(o)'
  <2>1. \A w \in Pointer : ref'[w] = IF w = u THEN Null ELSE ref[w]
    BY <1>0, <1>2 DEF ReleaseRaw, PointerTypes
  <2>2. object'[o] = object[o]
    BY <1>0, <1>2, PointerNames DEF ReleaseRaw, PointerTypes, AfterDelete, Exists
  <2>3. o \in raw' <=> o \in raw \/ ref[u] = o
    BY <1>2, PointerNames DEF ReleaseRaw
  <2> QED
    BY <1>0, <1>2, <2>1, <2>2, <2>3, PointerNames DEF ReleaseRaw, Owned, Deleted, Exists
<1>3. ASSUME NEW u \in Pointer, DestroyUnique(u) PROVE Owned(o)'
  <2>1. \A w \in Pointer : ref'[w] = IF w = u THEN Gone ELSE ref[w]
    BY <1>0, <1>3 DEF DestroyUnique, PointerTypes
  <2>2. object'[o] = IF ref[u] = o THEN Deleted(o) ELSE object[o]
    BY <1>0, <1>3, PointerNames DEF DestroyUnique, PointerTypes, AfterDelete, Exists
  <2>3. o \in raw' <=> o \in raw
    BY <1>3, PointerNames DEF DestroyUnique
  <2>4. CASE ref[u] = o
    <3>1. \A w \in Pointer : ref'[w] # o
      BY <1>0, <2>1, <2>4, PointerNames DEF Owned
    <3>2. object'[o] # "live" /\ o \notin raw
      BY <1>0, <2>2, <2>4 DEF Deleted, Owned
    <3> QED
      BY <1>0, <2>3, <3>1, <3>2 DEF Owned
  <2>5. CASE ref[u] # o
    <3>1. \A w \in Pointer : ref'[w] = o <=> ref[w] = o
      BY <2>1, <2>5, PointerNames
    <3> QED
      BY <1>0, <2>2, <2>3, <2>5, <3>1 DEF Owned
  <2> QED
    BY <2>4, <2>5
<1>4. ASSUME NEW u \in Pointer, NEW p \in Object, ConstructUnique(u, p) PROVE Owned(o)'
  <2>1. \A w \in Pointer : ref'[w] = IF w = u THEN p ELSE ref[w]
    BY <1>0, <1>4 DEF ConstructUnique, PointerTypes
  <2>2. object'[o] = object[o]
    BY <1>0, <1>4, PointerNames DEF ConstructUnique, PointerTypes, AfterDelete, Exists
  <2>3. o \in raw' <=> o \in raw /\ o # p
    BY <1>4, PointerNames DEF ConstructUnique
  <2> QED
    BY <1>0, <1>4, <2>1, <2>2, <2>3, PointerNames DEF ConstructUnique, Owned, Deleted, Exists
<1>5. ASSUME NEW u \in Pointer, NEW v \in Pointer, MoveUnique(u, v) PROVE Owned(o)'
  <2>1. \A w \in Pointer : ref'[w] = IF w = v THEN Null ELSE IF w = u THEN ref[v] ELSE ref[w]
    BY <1>0, <1>5 DEF MoveUnique, PointerTypes
  <2>2. object'[o] = object[o]
    BY <1>0, <1>5, PointerNames DEF MoveUnique, PointerTypes, AfterDelete, Exists
  <2>3. o \in raw' <=> o \in raw
    BY <1>5, PointerNames DEF MoveUnique
  <2>4. ref[u] # o /\ u # v
    BY <1>5, PointerNames DEF MoveUnique, Exists
  <2>5. (\E w \in Pointer : ref'[w] = o) <=> \E w \in Pointer : ref[w] = o
    BY <2>1, <2>4, PointerNames
  <2>6. \A w, x \in Pointer : ref'[w] = o /\ ref'[x] = o => w = x
    BY <1>0, <2>1, <2>4, PointerNames DEF Owned
  <2>7. o \in raw => \A w \in Pointer : ref'[w] # o
    BY <1>0, <2>5 DEF Owned
  <2> QED
    BY <1>0, <2>2, <2>3, <2>5, <2>6, <2>7 DEF Owned
<1>6. ASSUME NEW u \in Pointer, NEW v \in Pointer, MoveAssign(u, v) PROVE Owned(o)'
  <2>1. \A w \in Pointer : ref'[w] = IF w = v THEN Null ELSE IF w = u THEN ref[v] ELSE ref[w]
    BY <1>0, <1>6 DEF MoveAssign, PointerTypes
  <2>2. object'[o] = IF ref[u] = o THEN Deleted(o) ELSE object[o]
    BY <1>0, <1>6, PointerNames DEF MoveAssign, PointerTypes, AfterDelete, Exists
  <2>3. o \in raw' <=> o \in raw
    BY <1>6, PointerNames DEF MoveAssign
  <2>4. u # v
    BY <1>6 DEF MoveAssign
  <2>5. CASE ref[u] = o
    <3>1. \A w \in Pointer : ref'[w] # o
      BY <1>0, <2>1, <2>4, <2>5, PointerNames DEF Owned
    <3>2. object'[o] # "live" /\ o \notin raw
      BY <1>0, <2>2, <2>5 DEF Deleted, Owned
    <3> QED
      BY <1>0, <2>3, <3>1, <3>2 DEF Owned
  <2>6. CASE ref[u] # o
    <3>1. (\E w \in Pointer : ref'[w] = o) <=> \E w \in Pointer : ref[w] = o
      BY <2>1, <2>4, <2>6, PointerNames
    <3>2. \A w, x \in Pointer : ref'[w] = o /\ ref'[x] = o => w = x
      BY <1>0, <2>1, <2>4, <2>6, PointerNames DEF Owned
    <3>3. o \in raw => \A w \in Pointer : ref'[w] # o
      BY <1>0, <3>1 DEF Owned
    <3> QED
      BY <1>0, <2>2, <2>3, <2>6, <3>1, <3>2, <3>3 DEF Owned
  <2> QED
    BY <2>5, <2>6
<1>7. ASSUME NEW u \in Pointer, NEW p \in raw \cup {Null}, Reset(u, p) PROVE Owned(o)'
  <2>1. \A w \in Pointer : ref'[w] = IF w = u THEN p ELSE ref[w]
    BY <1>0, <1>7 DEF Reset, PointerTypes
  <2>2. object'[o] = IF ref[u] = o THEN Deleted(o) ELSE object[o]
    BY <1>0, <1>7, PointerNames DEF Reset, PointerTypes, AfterDelete, Exists
  <2>3. o \in raw' <=> o \in raw /\ o # p
    BY <1>7, PointerNames DEF Reset
  <2>4. p # ref[u]
    BY <1>7 DEF Reset
  <2>5. CASE p = o
    <3>1. o \in raw /\ \A w \in Pointer : ref[w] # o
      BY <1>0, <2>5, PointerNames DEF Owned
    <3>2. \A w \in Pointer : ref'[w] = o <=> w = u
      BY <2>1, <2>5, <3>1
    <3>3. object'[o] = "live" /\ o \notin raw'
      BY <1>0, <2>2, <2>3, <2>5, <3>1 DEF Owned
    <3> QED
      BY <1>0, <3>2, <3>3 DEF Owned
  <2>6. CASE p # o /\ ref[u] = o
    <3>1. \A w \in Pointer : ref'[w] # o
      BY <1>0, <2>1, <2>6 DEF Owned
    <3>2. object'[o] # "live" /\ o \notin raw
      BY <1>0, <2>2, <2>6 DEF Deleted, Owned
    <3> QED
      BY <1>0, <2>3, <3>1, <3>2 DEF Owned
  <2>7. CASE p # o /\ ref[u] # o
    <3>1. \A w \in Pointer : ref'[w] = o <=> ref[w] = o
      BY <2>1, <2>7
    <3> QED
      BY <1>0, <2>2, <2>3, <2>7, <3>1 DEF Owned
  <2> QED
    BY <2>5, <2>6, <2>7
<1> QED
  BY <1>1, <1>2, <1>3, <1>4, <1>5, <1>6, <1>7 DEF UniqueNext

\* So does what the program does with its own pointers.
LEMMA RawOwned ==
    ASSUME PointerInv, UNCHANGED program, NEW p \in Object, Allocate(p) \/ DeleteRaw(p),
           NEW o \in Object
    PROVE  Owned(o)'
<1> USE DEF PointerInv, PointerTypes
<1>1. Owned(o) /\ (Shared' <=> Shared)
  BY DEF Shared
<1>2. Owners(o)' = Owners(o)
  BY DEF Allocate, DeleteRaw, Owners
<1>3. CASE Allocate(p)
  <2>1. object'[o] = IF p = o THEN "live" ELSE object[o]
    BY <1>3 DEF Allocate
  <2>2. object[p] = "none" /\ raw' = raw \cup {p} /\ ref' = ref /\ counter' = counter
    BY <1>3 DEF Allocate
  <2> HIDE DEF PointerInv, PointerTypes
  <2> QED
    BY <1>1, <1>2, <2>1, <2>2 DEF Owned
<1>4. CASE DeleteRaw(p)
  <2>1. object'[o] = IF p = o THEN Deleted(o) ELSE object[o]
    BY <1>4, PointerNames DEF DeleteRaw, AfterDelete
  <2>2. p \in raw /\ raw' = raw \ {p} /\ ref' = ref /\ counter' = counter
    BY <1>4 DEF DeleteRaw
  <2> HIDE DEF PointerInv, PointerTypes
  <2> QED
    BY <1>1, <1>2, <2>1, <2>2 DEF Deleted, Owned
<1> QED
  BY <1>3, <1>4

\* The counts are right, or the owner is alone, after every call.
LEMMA PointersGoOn ==
    PointerInv /\ UNCHANGED program /\ [PointerNext]_pointerVars => PointerInv'
<1> SUFFICES ASSUME PointerInv, UNCHANGED program, [PointerNext]_pointerVars PROVE PointerInv'
  OBVIOUS
<1>1. PointerTypes'
  BY PointerTyped DEF PointerInv
<1>2. ASSUME NEW o \in Object, PointerNext PROVE Owned(o)'
  BY <1>2, SharedOwned, UniqueOwned, RawOwned DEF PointerNext, SharedNext, UniqueNext, Shared, Unique
<1>3. ASSUME NEW o \in Object, UNCHANGED pointerVars PROVE Owned(o)'
  BY <1>3 DEF pointerVars, PointerInv, Owned, Owners, Shared
<1> QED
  BY <1>1, <1>2, <1>3 DEF PointerInv

\* At first there are no objects, and no pointers.
LEMMA PointersStart == ProgramsInit => PointerInv
<1> SUFFICES ASSUME PointerInit PROVE PointerInv
  BY DEF ProgramsInit
<1>1. ASSUME NEW o \in Object PROVE Owners(o) = {}
  BY PointerNames DEF PointerInit, Owners
<1> QED
  BY <1>1, PointerNames, FS_EmptySet DEF PointerInit, PointerInv, PointerTypes, Owned

\* No program that hands each raw pointer over once leaks an object, deletes one
\* twice or keeps a pointer to one that is gone, however many there are.
THEOREM EachOwnedOnce == ProgramsSpec => []OwnedOnce
<1>1. PointerInv => OwnedOnce
  <2> SUFFICES ASSUME PointerInv, NEW o \in Object
               PROVE  LET owners == Owners(o) IN
                      /\ object[o] = "live" <=> o \in raw \/ owners # {}
                      /\ o \in raw => owners = {}
                      /\ IF Shared THEN counter[o] = Cardinality(owners)
                         ELSE Cardinality(owners) <= 1
    BY DEF OwnedOnce, Owners
  <2>1. Owned(o) /\ PointerTypes
    BY DEF PointerInv
  <2>2. CASE \E s \in Pointer : ref[s] = o
    <3>1. PICK s \in Pointer : ref[s] = o
      BY <2>2
    <3>2. ~Shared => Cardinality(Owners(o)) = 1
      BY <2>1, <3>1, OnlyOwner DEF Owned
    <3> QED
      BY <2>1, <3>1, <3>2 DEF Owned, Owners
  <2>3. CASE ~\E s \in Pointer : ref[s] = o
    <3>1. Owners(o) = {} /\ Cardinality({}) = 0
      BY <2>3, FS_EmptySet DEF Owners
    <3> QED
      BY <2>1, <2>3, <3>1 DEF Owned
  <2> QED
    BY <2>2, <2>3
<1> QED
  BY <1>1, PointersStart, PointersGoOn, StepsApart, PTL DEF ProgramsSpec
----------------------------------------------------------------------------
(* JoinedThreads *)

\* How far main is with its threads: it has joined those before its turn, or all.
Joined == {t \in created : main = "print" \/ (main = "join" /\ t < turn)}

\* How far thread t is: the mutex is held from its first line to its last, and what it
\* has multiplied is its slice up to where it is.
Working(t) ==
    /\ t \in task_mutex => program = "pthread_mutex" /\ t \notin returned
    /\ program = "pthread_mutex" /\ element[t] \in 1..(Slice - 1) => t \in task_mutex
    /\ program = "pthread_join" => \A e \in 1..Slice : a[t][e] = IF e <= element[t] THEN 1 ELSE 0
    /\ t \in returned /\ program # "pthread_exit_retval" => element[t] = Slice

ThreadInv ==
    /\ main \in {"create", "join", "print", "crashed", "done"} /\ turn \in 1..Workers
    /\ created \subseteq Worker /\ returned \subseteq created
    /\ element \in [Worker -> 0..Slice] /\ a \in [Worker -> [1..Slice -> Nat]]
    /\ DOMAIN result = Worker
    /\ task_mutex \subseteq created /\ \A t, u \in task_mutex : t = u
    /\ main = "create" => \A t \in created : t < turn
    /\ \A t \in Joined :
          t \in returned /\ (program = "pthread_exit_retval" => result[t] = "string")
    /\ \A t \in Worker : Working(t)

\* At first main has created nothing.
LEMMA ThreadStarts == ProgramsInit => ThreadInv
<1> SUFFICES ASSUME ThreadInit PROVE ThreadInv
  BY DEF ProgramsInit
<1>1. Workers \in Nat \ {0} /\ Slice \in Nat \ {0}
  BY ThreadCounts
<1>2. Joined = {}
  BY DEF ThreadInit, Joined
<1>3. ASSUME NEW t \in Worker PROVE Working(t)
  BY <1>1 DEF ThreadInit, Working
<1>4. turn \in 1..Workers
  BY <1>1 DEF ThreadInit
<1>5. element \in [Worker -> 0..Slice] /\ a \in [Worker -> [1..Slice -> Nat]]
  BY <1>1 DEF ThreadInit
<1> QED
  BY <1>2, <1>3, <1>4, <1>5 DEF ThreadInit, ThreadInv

\* The calls of main, which do not touch what the threads do.
LEMMA MainGoesOn ==
    ASSUME ThreadInv, UNCHANGED program, Create \/ Join \/ JoinNobody \/ ShowResults
    PROVE  ThreadInv'
<1>0. Workers \in Nat \ {0} /\ turn \in 1..Workers /\ turn \in Int /\ Worker = 1..Workers
  BY ThreadCounts DEF ThreadInv, Worker
<1>1. ASSUME UNCHANGED <<element, a, task_mutex, returned>> PROVE \A t \in Worker : Working(t)'
  BY <1>1 DEF ThreadInv, Working
<1>2. CASE Create
  <2>1. /\ created' \in {created, created \cup {turn}} /\ main = "create"
        /\ UNCHANGED <<element, a, result, task_mutex, returned>>
        /\ \/ turn' = turn + 1 /\ turn < Workers /\ main' = "create"
           \/ turn' = 1 /\ main' = "join"
    BY <1>2 DEF Create
  <2>2. turn' \in 1..Workers /\ created' \subseteq Worker
    BY <1>0, <2>1 DEF ThreadInv
  <2>3. main' = "create" => \A t \in created' : t < turn'
    BY <1>0, <2>1 DEF ThreadInv
  <2>4. ASSUME NEW t \in Joined' PROVE FALSE
    <3>1. main' = "join" /\ turn' = 1 /\ t < 1 /\ t \in created'
      BY <2>1 DEF Joined
    <3> QED
      BY <1>0, <2>2, <3>1
  <2> QED
    BY <1>1, <2>1, <2>2, <2>3, <2>4 DEF ThreadInv
<1>3. ASSUME Turned("print"), main = "join", UNCHANGED <<created, element, a, task_mutex, returned>>,
             DOMAIN result' = Worker, \A t \in Worker : t # turn => result'[t] = result[t],
             turn \in created => /\ turn \in returned
                                 /\ program = "pthread_exit_retval" => result'[turn] = "string"
      PROVE  ThreadInv'
  <2>1. \/ turn' = turn + 1 /\ turn < Workers /\ main' = "join"
        \/ turn = Workers /\ turn' = 1 /\ main' = "print"
    BY <1>0, <1>3 DEF Turned
  <2>2. turn' \in 1..Workers
    BY <1>0, <2>1
  <2>3. ASSUME NEW t \in Joined' PROVE t \in Joined \/ t = turn
    BY <1>0, <1>3, <2>1, <2>3 DEF Joined, ThreadInv
  <2>4. ASSUME NEW t \in Joined'
        PROVE  t \in returned /\ (program = "pthread_exit_retval" => result'[t] = "string")
    <3>1. t \in created
      BY <1>3 DEF Joined
    <3> QED
      BY <1>3, <2>3, <3>1 DEF ThreadInv
  <2> QED
    BY <1>1, <1>3, <2>1, <2>2, <2>4 DEF ThreadInv
<1>4. CASE Join
  BY <1>0, <1>3, <1>4 DEF Join, ThreadInv
<1>5. CASE JoinNobody
  <2>1. CASE Turned("print")
    BY <1>3, <1>5, <2>1 DEF JoinNobody, ThreadInv
  <2>2. CASE main' = "crashed" /\ UNCHANGED turn
    BY <1>1, <1>5, <2>2 DEF JoinNobody, ThreadInv, Joined
  <2> QED
    BY <1>5, <2>1, <2>2 DEF JoinNobody
<1>6. CASE ShowResults
  BY <1>1, <1>6 DEF ShowResults, ThreadInv, Joined
<1> QED
  BY <1>2, <1>4, <1>5, <1>6

\* The steps of a thread, which main waits for.
LEMMA TaskGoesOn ==
    ASSUME ThreadInv, UNCHANGED program, NEW t \in Worker, Task(t)
    PROVE  ThreadInv'
<1>0. Slice \in Nat \ {0} /\ element[t] \in 0..Slice /\ \A e \in 1..Slice : a[t][e] \in Nat
  BY ThreadCounts DEF ThreadInv
<1>1. UNCHANGED <<main, turn, created, result>> /\ Joined' = Joined
  BY DEF Task, Multiply, LockMutex, PrintLine, UnlockMutex, ThreadReturns, Joined
<1>2. CASE Multiply(t)
  <2>1. /\ program = "pthread_join" /\ element[t] < Slice
        /\ element' = [element EXCEPT ![t] = @ + 1]
        /\ a' = [a EXCEPT ![t][element[t] + 1] = @ + 1]
        /\ UNCHANGED <<task_mutex, returned>>
    BY <1>2 DEF Multiply, ThreadInv
  <2>2. element[t] + 1 \in 1..Slice
    BY <1>0, <2>1
  <2>3. element' \in [Worker -> 0..Slice] /\ a' \in [Worker -> [1..Slice -> Nat]]
    BY <1>0, <2>1, <2>2 DEF ThreadInv
  <2>4. t \notin returned
    BY <1>0, <2>1 DEF ThreadInv, Working
  <2>5. ASSUME NEW e \in 1..Slice PROVE a'[t][e] = IF e <= element'[t] THEN 1 ELSE 0
    <3>1. a[t][e] = IF e <= element[t] THEN 1 ELSE 0
      BY <2>1 DEF ThreadInv, Working
    <3>2. element'[t] = element[t] + 1
      BY <2>1 DEF ThreadInv
    <3>3. a'[t][e] = IF e = element[t] + 1 THEN a[t][e] + 1 ELSE a[t][e]
      BY <2>1, <2>2 DEF ThreadInv
    <3> QED
      BY <1>0, <3>1, <3>2, <3>3
  <2>6. ASSUME NEW u \in Worker PROVE Working(u)'
    BY <2>1, <2>3, <2>4, <2>5 DEF ThreadInv, Working
  <2> QED
    BY <1>1, <2>1, <2>3, <2>6 DEF ThreadInv
<1>3. CASE LockMutex(t)
  <2>1. /\ program = "pthread_mutex" /\ t \in created /\ element[t] = 0 /\ task_mutex = {}
        /\ task_mutex' = {t} /\ UNCHANGED <<element, a, returned>>
    BY <1>3 DEF LockMutex
  <2>2. t \notin returned
    BY <1>0, <2>1 DEF ThreadInv, Working
  <2>3. ASSUME NEW u \in Worker PROVE Working(u)'
    BY <2>1, <2>2 DEF ThreadInv, Working
  <2> QED
    BY <1>1, <2>1, <2>3 DEF ThreadInv
<1>4. CASE PrintLine(t)
  <2>1. /\ program = "pthread_mutex" /\ t \in task_mutex /\ element[t] < Slice
        /\ element' = [element EXCEPT ![t] = @ + 1] /\ UNCHANGED <<a, task_mutex, returned>>
    BY <1>4 DEF PrintLine
  <2>2. t \notin returned /\ element' \in [Worker -> 0..Slice]
    BY <1>0, <2>1 DEF ThreadInv, Working
  <2>3. ASSUME NEW u \in Worker PROVE Working(u)'
    BY <2>1, <2>2 DEF ThreadInv, Working
  <2> QED
    BY <1>1, <2>1, <2>2, <2>3 DEF ThreadInv
<1>5. CASE UnlockMutex(t)
  <2>1. /\ t \in task_mutex /\ element[t] = Slice /\ task_mutex' = {}
        /\ UNCHANGED <<element, a, returned>>
    BY <1>5 DEF UnlockMutex
  <2>2. ASSUME NEW u \in Worker PROVE Working(u)'
    BY <1>0, <2>1 DEF ThreadInv, Working
  <2> QED
    BY <1>1, <2>1, <2>2 DEF ThreadInv
<1>6. CASE ThreadReturns(t)
  <2>1. /\ t \in created /\ returned' = returned \cup {t} /\ UNCHANGED <<element, a, task_mutex>>
        /\ program # "pthread_exit_retval" => element[t] = Slice /\ t \notin task_mutex
    BY <1>6 DEF ThreadReturns
  <2>2. t \notin task_mutex
    BY <2>1 DEF ThreadInv, Working
  <2>3. ASSUME NEW u \in Worker PROVE Working(u)'
    BY <2>1, <2>2 DEF ThreadInv, Working
  <2> QED
    BY <1>1, <2>1, <2>3 DEF ThreadInv
<1> QED
  BY <1>2, <1>3, <1>4, <1>5, <1>6 DEF Task

\* No call of main or of a thread breaks it.
LEMMA ThreadGoesOn ==
    ThreadInv /\ UNCHANGED program /\ [ThreadNext]_threadVars => ThreadInv'
<1>1. ThreadInv /\ UNCHANGED <<program, threadVars>> => ThreadInv'
  BY DEF threadVars, ThreadInv, Working, Joined
<1> QED
  BY <1>1, MainGoesOn, TaskGoesOn DEF ThreadNext

\* For any number of threads and any slice: what main prints is finished, and the
\* lines of two threads do not mix, whichever threads could not be created.
THEOREM JoinedBeforePrinted == ProgramsSpec => []PrintedWhenJoined
<1>1. ThreadInv => PrintedWhenJoined
  <2> SUFFICES ASSUME ThreadInv PROVE PrintedWhenJoined
    OBVIOUS
  <2>1. Slice \in Nat \ {0}
    BY ThreadCounts
  <2>2. ASSUME main = "print"
        PROVE  /\ returned = created /\ task_mutex = {}
               /\ \A t \in created :
                    /\ program = "pthread_join" => \A e \in 1..Slice : a[t][e] = 1
                    /\ program = "pthread_exit_retval" => result[t] = "string"
    <3>1. Joined = created
      BY <2>2 DEF Joined
    <3>2. created \subseteq returned /\ returned \subseteq created /\ created \subseteq Worker
      BY <3>1 DEF ThreadInv
    <3>3. task_mutex = {}
      BY <3>2 DEF ThreadInv, Working
    <3>4. ASSUME NEW t \in created, program = "pthread_join", NEW e \in 1..Slice
          PROVE  a[t][e] = 1
      BY <2>1, <3>2, <3>4 DEF ThreadInv, Working
    <3> QED
      BY <3>1, <3>2, <3>3, <3>4 DEF ThreadInv
  <2>3. ASSUME NEW t \in Worker, NEW u \in Worker, program = "pthread_mutex",
               element[t] \in 1..(Slice - 1), element[u] \in 1..(Slice - 1)
        PROVE  t = u
    BY <2>3 DEF ThreadInv, Working
  <2> QED
    BY <2>2, <2>3 DEF PrintedWhenJoined
<1> QED
  BY <1>1, ThreadStarts, ThreadGoesOn, StepsApart, PTL DEF ProgramsSpec
----------------------------------------------------------------------------
(* Datagrams *)

\* One whole line, or nothing yet.
OneLine(r) ==
    \/ shown[r] = <<>>
    \/ \E line \in 1..Len(lines) :
          lines[line] # 0 /\ shown[r] = [b \in 1..lines[line] |-> line]

DatagramInv ==
    /\ lines \in Seq(0..MaxLength)
    /\ flying \subseteq [to : Receiver, line : 1..Len(lines)]
    /\ DOMAIN text = Receiver /\ DOMAIN shown = Receiver
    /\ \A r \in Receiver : OneLine(r)

\* memset() has left a NUL after the line, so cout prints the line.
LEMMA PrintsTheLine ==
    ASSUME lines \in Seq(0..MaxLength), NEW line \in 1..Len(lines), NEW old
    PROVE  Printed(Filled(old, line)) = [b \in 1..lines[line] |-> line]
<1> DEFINE n == lines[line]
           buffer == Filled(old, line)
           zeros == {b \in Byte : buffer[b] = 0}
<1>1. n \in 0..MaxLength /\ n \in Nat /\ MaxLength \in Nat /\ line \in Nat \ {0}
  BY DatagramBounds
<1>2. buffer = [b \in Byte |-> IF b <= n THEN line ELSE 0] /\ Byte = 1..(MaxLength + 1)
  BY DEF Filled, Byte
<1> HIDE DEF n, buffer
<1>3. \A b \in Byte : buffer[b] = 0 <=> b > n
  BY <1>1, <1>2
<1>4. n + 1 \in zeros /\ \A b \in zeros : n + 1 <= b
  BY <1>1, <1>2, <1>3
<1>5. Min(zeros) = n + 1
  <2>1. \A b \in zeros : b \in Int
    BY <1>2
  <2> HIDE DEF zeros
  <2>2. Min(zeros) \in zeros /\ \A b \in zeros : Min(zeros) <= b
    BY <1>4, Zenon DEF Min
  <2> QED
    BY <1>1, <1>4, <2>1, <2>2
<1>6. Printed(buffer) = SubSeq(buffer, 1, n)
  <2>1. Printed(buffer) = SubSeq(buffer, 1, Min(zeros) - 1)
    BY DEF Printed
  <2> HIDE DEF zeros
  <2>2. Min(zeros) - 1 = n
    BY <1>1, <1>5
  <2> QED
    BY <2>1, <2>2
<1>7. \A b \in 1..n : buffer[b] = line
  BY <1>1, <1>2
<1> DEFINE printed_ == SubSeq(buffer, 1, n)
<1>8. printed_ \in Seq(Nat) /\ Len(printed_) = n /\ \A b \in 1..n : printed_[b] = line
  <2>1. /\ printed_ \in Seq(Nat)
        /\ Len(printed_) = IF 1 <= n THEN n - 1 + 1 ELSE 0
        /\ \A e \in 1..(n - 1 + 1) : printed_[e] = buffer[1 + e - 1]
    BY <1>1, <1>7, SubSeqProperties
  <2> HIDE DEF printed_
  <2>2. n - 1 + 1 = n /\ \A e \in 1..n : 1 + e - 1 = e
    BY <1>1
  <2>3. \A e \in 1..n : printed_[e] = buffer[e]
    BY <2>1, <2>2
  <2>4. Len(printed_) = n
    BY <1>1, <2>1
  <2> QED
    BY <1>7, <2>1, <2>3, <2>4
<1> HIDE DEF printed_
<1>9. printed_ = [b \in 1..n |-> line]
  BY <1>1, <1>8
<1> QED
  BY <1>6, <1>9 DEF printed_, n, buffer

\* No call of a sender or a receiver breaks it, whatever the network does.
LEMMA DatagramGoesOn == DatagramInv /\ [DatagramNext]_datagramVars => DatagramInv'
<1> SUFFICES ASSUME DatagramInv, [DatagramNext]_datagramVars PROVE DatagramInv'
  OBVIOUS
<1>1. ASSUME UNCHANGED <<lines, flying, text, shown>> PROVE DatagramInv'
  BY <1>1 DEF DatagramInv, OneLine
<1>2. CASE OpenSender \/ EnterIp \/ TypeExit
  BY <1>1, <1>2 DEF OpenSender, EnterIp, TypeExit
<1>3. ASSUME NEW r \in Receiver, OpenReceiver(r) PROVE DatagramInv'
  BY <1>1, <1>3 DEF OpenReceiver
<1>4. ASSUME NEW length \in 0..MaxLength, SendLine(length) \/ SendFails(length)
      PROVE  DatagramInv'
  <2>1. lines' = Append(lines, length) /\ UNCHANGED <<text, shown>>
    BY <1>4 DEF SendLine, SendFails
  <2>2. /\ lines' \in Seq(0..MaxLength) /\ Len(lines') = Len(lines) + 1 /\ Len(lines) \in Nat
        /\ \A line \in 1..Len(lines) : lines'[line] = lines[line]
    BY <2>1, AppendProperties DEF DatagramInv
  <2>3. flying' \subseteq [to : Receiver, line : 1..Len(lines')]
    <3>1. 1..Len(lines) \subseteq 1..Len(lines') /\ Len(lines) + 1 \in 1..Len(lines')
      BY <2>2
    <3>2. CASE SendFails(length)
      BY <3>1, <3>2 DEF SendFails, DatagramInv
    <3>3. CASE SendLine(length)
      <4>1. PICK reached \in SUBSET Heard :
                flying' = flying \cup [to : reached, line : {Len(lines) + 1}]
        BY <3>3 DEF SendLine
      <4>2. reached \subseteq Receiver
        BY DEF Heard
      <4> QED
        BY <3>1, <4>1, <4>2 DEF DatagramInv
    <3> QED
      BY <1>4, <3>2, <3>3
  <2>4. ASSUME NEW r \in Receiver PROVE OneLine(r)'
    BY <2>1, <2>2 DEF DatagramInv, OneLine
  <2> QED
    BY <2>1, <2>2, <2>3, <2>4 DEF DatagramInv
<1>5. ASSUME NEW d \in flying, Receive(d) PROVE DatagramInv'
  <2>0. /\ UNCHANGED lines /\ flying' \in {flying, flying \ {d}}
        /\ text' = [text EXCEPT ![d.to] = Filled(@, d.line)]
    BY <1>5 DEF Receive
  <2>1. /\ d.to \in Receiver /\ d.line \in 1..Len(lines) /\ lines[d.line] \in 0..MaxLength
        /\ flying' \subseteq flying
    <3>1. d \in [to : Receiver, line : 1..Len(lines)]
      BY DEF DatagramInv
    <3>2. d.to \in Receiver /\ d.line \in 1..Len(lines)
      BY <3>1
    <3>3. lines[d.line] \in 0..MaxLength
      <4>1. \A k \in 1..Len(lines) : lines[k] \in 0..MaxLength
        <5>1. lines \in Seq(0..MaxLength)
          BY DEF DatagramInv
        <5> QED
          BY <5>1, ElementOfSeq
      <4> QED
        BY <3>2, <4>1
    <3> QED
      BY <2>0, <3>2, <3>3
  <2>2. text'[d.to] = Filled(text[d.to], d.line)
    BY <2>0, <2>1 DEF DatagramInv
  <2>3. shown' = shown \/ shown' = [shown EXCEPT ![d.to] = Printed(text'[d.to])]
    BY <1>5 DEF Receive
  <2>4. Printed(text'[d.to]) = [b \in 1..lines[d.line] |-> d.line]
    BY <2>1, <2>2, PrintsTheLine DEF DatagramInv
  <2>5. lines[d.line] = 0 => Printed(text'[d.to]) = <<>>
    BY <2>4
  <2>6. ASSUME NEW r \in Receiver PROVE OneLine(r)'
    <3>1. CASE shown'[r] = shown[r]
      BY <2>0, <3>1 DEF DatagramInv, OneLine
    <3>2. CASE shown'[r] = [b \in 1..lines[d.line] |-> d.line]
      BY <2>0, <2>1, <2>4, <2>5, <3>2 DEF OneLine
    <3> QED
      BY <2>3, <2>4, <3>1, <3>2 DEF DatagramInv
  <2> QED
    BY <2>0, <2>1, <2>3, <2>6 DEF DatagramInv
<1>6. CASE UNCHANGED datagramVars
  BY <1>1, <1>6 DEF datagramVars
<1> QED
  BY <1>2, <1>3, <1>4, <1>5, <1>6 DEF DatagramNext

\* For any number of receivers, lines and bytes, and a network that loses, repeats
\* and reorders: what a receiver prints is one line that was sent, and all of it.
THEOREM LinesPrintedWhole == ProgramsSpec => []PrintedAsSent
<1>1. ProgramsInit => DatagramInv
  BY DEF ProgramsInit, DatagramInit, DatagramInv, OneLine
<1>2. DatagramInv => PrintedAsSent
  <2> SUFFICES ASSUME DatagramInv, NEW r \in Receiver, shown[r] # <<>>
               PROVE  shown[r] = [b \in 1..lines[Head(shown[r])] |-> Head(shown[r])]
    BY DEF PrintedAsSent
  <2>1. PICK line \in 1..Len(lines) :
            lines[line] # 0 /\ shown[r] = [b \in 1..lines[line] |-> line]
    BY DEF DatagramInv, OneLine
  <2>2. lines[line] \in Nat \ {0}
    BY <2>1, DatagramBounds DEF DatagramInv
  <2>3. Head(shown[r]) = line
    BY <2>1, <2>2
  <2> QED
    BY <2>1, <2>3
<1> QED
  BY <1>1, <1>2, DatagramGoesOn, StepsApart, PTL DEF ProgramsSpec

----------------------------------------------------------------------------
(* EchoServer *)

EchoTypes ==
    /\ thread \in [EchoClient -> {"none", "recv", "send", "done"}]
    /\ user \in [EchoClient -> {"away", "cin", "recv", "gone"}]
    /\ typed \in [EchoClient -> Seq(WordLength)]
    /\ DOMAIN read_buf = EchoClient /\ DOMAIN buf = EchoClient
    /\ DOMAIN up = EchoClient /\ DOMAIN down = EchoClient

\* The one word that client k waits for is on its way up, with the thread, or on its
\* way down; nobody has a word that the client does not wait for, unless it has gone.
WordOnItsWay(k) ==
    \/ up[k] = LastWord(k) /\ down[k] = <<>> /\ thread[k] \in {"none", "recv"}
    \/ up[k] = <<>> /\ down[k] = <<>> /\ thread[k] = "send"
    \/ down[k] = Answer(LastWord(k)) /\ up[k] = <<>> /\ thread[k] # "send"

\* A client whose words fit.
InStep(k) ==
    /\ k \notin smashed
    /\ up[k] = <<>> \/ (typed[k] # <<>> /\ up[k] = LastWord(k))
    /\ thread[k] = "send" =>
          k \notin reset /\ up[k] = <<>> /\ typed[k] # <<>> /\ read_buf[k] = LastWord(k)
    /\ k \in reset => up[k] = <<>>
    /\ user[k] # "gone" => k \notin reset /\ thread[k] # "done"
    /\ user[k] \in {"away", "cin"} => up[k] = <<>> /\ down[k] = <<>> /\ thread[k] # "send"
    /\ user[k] = "cin" /\ typed[k] # <<>> => buf[k] = Answer(LastWord(k))
    /\ user[k] = "recv" => typed[k] # <<>> /\ WordOnItsWay(k)

\* Any client.
InTurn(k) ==
    /\ echo = "setup" => user[k] \in {"away", "gone"}
    /\ k \in backlog => thread[k] = "none"
    /\ user[k] = "away" => thread[k] = "none" /\ typed[k] = <<>> /\ k \notin backlog
    /\ Fits(k) => InStep(k)

\* Once the process has ended its threads have, too, and clients read end of file.
EchoInv ==
    /\ EchoTypes
    /\ (\A k \in EchoClient : Fits(k)) => echo \notin {"SIGPIPE", "crashed"}
    /\ echo \in {"setup", "accept"} => \A k \in EchoClient : InTurn(k)

\* A recv() takes all of a stream that fits into the buffer.
LEMMA AllTaken ==
    ASSUME NEW S, NEW stream \in Seq(S), Len(stream) <= Room
    PROVE  Taken(stream) = stream /\ Left(stream) = <<>>
<1>1. Room \in Nat
  BY EchoBounds
<1>2. Taken(stream) = [b \in 1..Len(stream) |-> stream[b]]
  BY <1>1 DEF Taken
<1>3. Taken(stream) = stream
  BY <1>2
<1>4. Room + 1 > Len(stream)
  BY <1>1
<1>5. SubSeq(stream, Room + 1, Len(stream)) = <<>>
  BY <1>1, <1>4
<1> QED
  BY <1>3, <1>5 DEF Left

\* A word that fits, and its answer: both are sequences of bytes, and no longer than
\* a buffer.
LEMMA WordFits ==
    ASSUME EchoTypes, NEW k \in EchoClient, typed[k] # <<>>, Fits(k)
    PROVE  /\ LastWord(k) \in Seq(Nat) /\ LastWord(k) # <<>> /\ Len(LastWord(k)) <= Room
           /\ Prefix + Len(LastWord(k)) < Room
           /\ Answer(LastWord(k)) \in Seq(Nat) /\ Answer(LastWord(k)) # <<>>
           /\ Len(Answer(LastWord(k))) <= Room
<1> DEFINE n == Len(typed[k])
           len == typed[k][n]
<1>1. Room \in Nat /\ Prefix \in Nat /\ WordLength \subseteq 1..(Room - 1)
  BY EchoBounds
<1>2. typed[k] \in Seq(WordLength)
  BY DEF EchoTypes
<1>3. n \in Nat /\ n \in DOMAIN typed[k] /\ len \in WordLength
  BY <1>2
<1>4. len \in Nat /\ len >= 1 /\ Prefix + len < Room
  BY <1>1, <1>3 DEF Fits
<1>5. LastWord(k) = [b \in 1..len |-> n]
  BY DEF LastWord, WordBytes
<1> HIDE DEF n, len
<1>6. LastWord(k) \in Seq(Nat) /\ Len(LastWord(k)) = len
  BY <1>3, <1>4, <1>5
<1>7. WordBytes(0, Prefix) \in Seq(Nat) /\ Len(WordBytes(0, Prefix)) = Prefix
  BY <1>1 DEF WordBytes
<1>8. Answer(LastWord(k)) \in Seq(Nat) /\ Len(Answer(LastWord(k))) = Prefix + len
  BY <1>6, <1>7, ConcatProperties DEF Answer
<1>9. LastWord(k) # <<>> /\ Answer(LastWord(k)) # <<>>
  BY <1>1, <1>4, <1>6, <1>8
<1> QED
  BY <1>1, <1>4, <1>6, <1>8, <1>9

\* At first nobody has connected.
LEMMA EchoStarts == ProgramsInit => EchoInv
  BY DEF ProgramsInit, EchoInit, EchoInv, EchoTypes, InTurn, InStep

\* No call of the server's main, of a thread or of a client leaves the types.
LEMMA EchoTyped == EchoTypes /\ [EchoNext]_echoVars => EchoTypes'
<1> SUFFICES ASSUME EchoTypes, [EchoNext]_echoVars PROVE EchoTypes'
  OBVIOUS
<1> USE DEF EchoTypes
<1>1. CASE SetUp \/ AcceptError \/ UNCHANGED echoVars
  BY <1>1 DEF SetUp, AcceptError, echoVars, serverVars
<1>2. ASSUME NEW k \in EchoClient, AcceptClient(k) \/ RecvWord(k) \/ RecvEnds(k) \/ SendWord(k)
      PROVE  EchoTypes'
  BY <1>2 DEF AcceptClient, RecvWord, RecvEnds, SendWord
<1>3. ASSUME NEW k \in EchoClient, ConnectClient(k) \/ Answered(k) \/ Leaves(k)
      PROVE  EchoTypes'
  BY <1>3 DEF ConnectClient, Answered, Leaves, serverVars
<1>4. ASSUME NEW k \in EchoClient, SendTyped(k) PROVE EchoTypes'
  <2>1. PICK len \in WordLength :
            /\ typed' = [typed EXCEPT ![k] = Append(@, len)]
            /\ up' = [up EXCEPT ![k] = @ \o WordBytes(Len(typed'[k]), len)]
    BY <1>4 DEF SendTyped
  <2>2. Append(typed[k], len) \in Seq(WordLength)
    BY AppendProperties
  <2>3. typed' \in [EchoClient -> Seq(WordLength)] /\ DOMAIN up' = EchoClient
    BY <2>1, <2>2
  <2> QED
    BY <1>4, <2>3 DEF SendTyped, serverVars
<1> QED
  BY <1>1, <1>2, <1>3, <1>4 DEF EchoNext, ClientHandler

\* A step of one client or its thread, seen from any client.
LEMMA EchoGoesOn == EchoInv /\ [EchoNext]_echoVars => EchoInv'
<1> SUFFICES ASSUME EchoInv, [EchoNext]_echoVars PROVE EchoInv'
  OBVIOUS
<1>0. EchoTypes /\ EchoTypes'
  BY EchoTyped DEF EchoInv
<1>1. ASSUME NEW k \in EchoClient, UNCHANGED echo, Fits(k)' => Fits(k),
             echo \in {"setup", "accept"} => InTurn(k)',
             \A s \in EchoClient \ {k} :
                 /\ thread'[s] = thread[s] /\ user'[s] = user[s] /\ typed'[s] = typed[s]
                 /\ read_buf'[s] = read_buf[s] /\ up'[s] = up[s] /\ down'[s] = down[s]
                 /\ buf'[s] = buf[s]
                 /\ s \in reset' <=> s \in reset
                 /\ s \in smashed' <=> s \in smashed
                 /\ s \in backlog' <=> s \in backlog
      PROVE  EchoInv'
  <2>1. ASSUME NEW s \in EchoClient PROVE Fits(s)' => Fits(s)
    <3>1. CASE s = k
      BY <1>1, <3>1
    <3>2. CASE s # k
      BY <1>1, <3>2 DEF Fits
    <3> QED
      BY <3>1, <3>2
  <2>2. ASSUME echo \in {"setup", "accept"}, NEW s \in EchoClient PROVE InTurn(s)'
    <3>1. CASE s = k
      BY <1>1, <2>2, <3>1
    <3>2. CASE s # k
      <4>1. InTurn(s)
        BY <2>2 DEF EchoInv
      <4> QED
        BY <1>1, <3>2, <4>1 DEF InTurn, InStep, WordOnItsWay, Fits, LastWord
    <3> QED
      BY <3>1, <3>2
  <2>3. (\A s \in EchoClient : Fits(s)') => echo' \notin {"SIGPIPE", "crashed"}
    BY <1>1, <2>1 DEF EchoInv
  <2> QED
    BY <1>0, <1>1, <2>2, <2>3 DEF EchoInv
<1>a. ASSUME NEW k \in EchoClient, ~Fits(k), UNCHANGED typed, echo' \in {"SIGPIPE", "crashed"}
      PROVE  EchoInv'
  <2>1. ~Fits(k)'
    BY <1>a DEF Fits
  <2> QED
    BY <1>0, <1>a, <2>1 DEF EchoInv
<1>2. CASE SetUp
  BY <1>0, <1>2 DEF SetUp, EchoInv, InTurn, InStep, WordOnItsWay, Fits, LastWord
<1>3. CASE AcceptError
  BY <1>0, <1>3 DEF AcceptError, EchoInv
<1>4. ASSUME NEW k \in EchoClient, AcceptClient(k) PROVE EchoInv'
  <2>1. echo \in {"setup", "accept"} => InTurn(k)
    BY <1>4 DEF AcceptClient, EchoInv
  <2>2. echo \in {"setup", "accept"} => InTurn(k)'
    BY <1>0, <1>4, <2>1 DEF AcceptClient, EchoTypes, InTurn, InStep, WordOnItsWay, Fits, LastWord
  <2> QED
    BY <1>0, <1>1, <1>4, <2>2 DEF AcceptClient, EchoTypes, Fits
<1>5. ASSUME NEW k \in EchoClient, RecvWord(k) PROVE EchoInv'
  <2>1. InTurn(k) /\ echo = "accept" /\ thread[k] = "recv" /\ up[k] # <<>>
    BY <1>5 DEF RecvWord, EchoInv
  <2>2. /\ read_buf'[k] = Taken(up[k]) /\ up'[k] = Left(up[k]) /\ thread'[k] = "send"
        /\ UNCHANGED <<echo, backlog, smashed, down, reset, user, typed, buf>>
    BY <1>0, <1>5 DEF RecvWord, EchoTypes
  <2>3. ASSUME Fits(k) PROVE InStep(k)'
    <3>1. InStep(k) /\ typed[k] # <<>> /\ up[k] = LastWord(k)
      BY <2>1, <2>3 DEF InTurn, InStep
    <3>2. Taken(LastWord(k)) = LastWord(k) /\ Left(LastWord(k)) = <<>>
      BY <1>0, <2>3, <3>1, AllTaken, WordFits
    <3>3. read_buf'[k] = LastWord(k) /\ up'[k] = <<>>
      BY <2>2, <3>1, <3>2
    <3>4. LastWord(k)' = LastWord(k) /\ LastWord(k) # <<>>
      BY <1>0, <2>2, <2>3, <3>1, WordFits DEF LastWord
    <3> QED
      BY <2>1, <2>2, <3>1, <3>3, <3>4 DEF InStep, WordOnItsWay
  <2>4. Fits(k)' <=> Fits(k)
    BY <2>2 DEF Fits
  <2>5. InTurn(k)'
    BY <1>0, <1>5, <2>1, <2>2, <2>3, <2>4 DEF RecvWord, EchoTypes, InTurn
  <2> QED
    BY <1>0, <1>1, <1>5, <2>4, <2>5 DEF RecvWord, EchoTypes
<1>6. ASSUME NEW k \in EchoClient, RecvEnds(k) PROVE EchoInv'
  <2>1. InTurn(k) /\ echo = "accept" /\ UNCHANGED typed
    BY <1>6 DEF RecvEnds, EchoInv
  <2>2. CASE UNCHANGED echo
    <3>1. InTurn(k)'
      BY <1>0, <1>6, <2>1, <2>2
      DEF RecvEnds, EchoTypes, InTurn, InStep, WordOnItsWay, Fits, LastWord
    <3> QED
      BY <1>0, <1>1, <1>6, <2>2, <3>1 DEF RecvEnds, EchoTypes, Fits
  <2>3. CASE k \in smashed /\ echo' = "crashed"
    BY <1>a, <2>1, <2>3 DEF InTurn, InStep
  <2> QED
    BY <1>6, <2>2, <2>3 DEF RecvEnds
<1>7. ASSUME NEW k \in EchoClient, SendWord(k) PROVE EchoInv'
  <2>1. InTurn(k) /\ echo = "accept" /\ thread[k] = "send" /\ UNCHANGED <<up, user, typed, read_buf>>
    BY <1>7 DEF SendWord, EchoInv
  <2>2. ASSUME Fits(k) PROVE InStep(k) /\ k \notin reset /\ ~Overflows(k)
    <3>1. InStep(k) /\ k \notin reset /\ typed[k] # <<>> /\ read_buf[k] = LastWord(k)
      BY <2>1, <2>2 DEF InTurn, InStep
    <3>2. Prefix + Len(LastWord(k)) < Room /\ Len(LastWord(k)) \in Nat
      BY <1>0, <2>2, <3>1, WordFits
    <3>3. Room \in Nat /\ Prefix \in Nat
      BY EchoBounds
    <3> QED
      BY <3>1, <3>2, <3>3 DEF Overflows
  <2>3. CASE UNCHANGED echo
    <3>1. ASSUME Fits(k), user[k] = "gone" PROVE InStep(k)'
      BY <1>0, <1>7, <2>1, <2>2, <3>1 DEF SendWord, EchoTypes, InStep, LastWord
    <3>2. ASSUME Fits(k), user[k] # "gone" PROVE InStep(k)'
      <4>1. user[k] = "recv"
        BY <1>0, <2>1, <2>2, <3>2 DEF EchoTypes, InStep
      <4>2. up[k] = <<>> /\ down[k] = <<>> /\ typed[k] # <<>> /\ read_buf[k] = LastWord(k)
        <5>1. LastWord(k) # <<>> /\ Answer(LastWord(k)) # <<>>
          BY <1>0, <2>1, <2>2, <3>2, WordFits DEF InStep
        <5> QED
          BY <2>1, <2>2, <3>2, <4>1, <5>1 DEF InStep, WordOnItsWay
      <4>3. down'[k] = <<>> \o Answer(LastWord(k))
        BY <1>0, <1>7, <3>2, <4>2 DEF SendWord, EchoTypes
      <4>4. down'[k] = Answer(LastWord(k))
        BY <1>0, <3>2, <4>2, <4>3, WordFits, ConcatEmptySeq
      <4>5. thread'[k] = "recv" /\ UNCHANGED <<reset, smashed, backlog, buf>>
        BY <1>0, <1>7, <2>2, <3>2 DEF SendWord, EchoTypes
      <4>6. LastWord(k)' = LastWord(k)
        BY <2>1 DEF LastWord
      <4> QED
        BY <2>1, <2>2, <3>2, <4>1, <4>2, <4>4, <4>5, <4>6 DEF InStep, WordOnItsWay
    <3>3. Fits(k)' <=> Fits(k)
      BY <2>1 DEF Fits
    <3>4. InTurn(k)'
      BY <1>0, <1>7, <2>1, <2>3, <3>1, <3>2, <3>3 DEF SendWord, EchoTypes, InTurn
    <3> QED
      BY <1>0, <1>1, <1>7, <2>3, <3>3, <3>4 DEF SendWord, EchoTypes
  <2>4. CASE echo' \in {"SIGPIPE", "crashed"} /\ (k \in reset \/ Overflows(k))
    BY <1>a, <2>1, <2>2, <2>4
  <2> QED
    BY <1>7, <2>3, <2>4 DEF SendWord
<1>8. ASSUME NEW k \in EchoClient, ConnectClient(k) PROVE EchoInv'
  <2>1. echo \in {"setup", "accept"} => InTurn(k)
    BY <1>8 DEF ConnectClient, EchoInv
  <2>2. echo \in {"setup", "accept"} => InTurn(k)'
    BY <1>0, <1>8, <2>1 DEF ConnectClient, EchoTypes, InTurn, InStep, WordOnItsWay, Fits, LastWord
  <2> QED
    BY <1>0, <1>1, <1>8, <2>2 DEF ConnectClient, EchoTypes, Fits
<1>9. ASSUME NEW k \in EchoClient, SendTyped(k) PROVE EchoInv'
  <2>1. PICK len \in WordLength :
            /\ typed' = [typed EXCEPT ![k] = Append(@, len)]
            /\ up' = [up EXCEPT ![k] = @ \o WordBytes(Len(typed'[k]), len)]
    BY <1>9 DEF SendTyped
  <2>2. InTurn(k) /\ user[k] = "cin" /\ echo = "accept" /\ UNCHANGED <<serverVars, down, reset, buf>>
        /\ user' = [user EXCEPT ![k] = "recv"]
    BY <1>9 DEF SendTyped, EchoInv
  <2>3. typed[k] \in Seq(WordLength) /\ typed'[k] = Append(typed[k], len) /\ user'[k] = "recv"
        /\ up'[k] = up[k] \o WordBytes(Len(typed'[k]), len)
    BY <1>0, <2>1, <2>2 DEF EchoTypes
  <2>4. /\ typed'[k] # <<>> /\ typed'[k][Len(typed'[k])] = len
        /\ \A n \in DOMAIN typed[k] : n \in DOMAIN typed'[k] /\ typed'[k][n] = typed[k][n]
    BY <2>3
  <2>5. Fits(k)' => Fits(k)
    BY <2>4 DEF Fits
  <2>6. LastWord(k)' = WordBytes(Len(typed'[k]), len)
    BY <2>4 DEF LastWord
  <2>7. ASSUME Fits(k) PROVE InStep(k)'
    <3>1. InStep(k) /\ up[k] = <<>> /\ down[k] = <<>> /\ thread[k] \in {"none", "recv"}
      BY <1>0, <2>2, <2>7 DEF InTurn, InStep, EchoTypes
    <3>2. WordBytes(Len(typed'[k]), len) \in Seq(Nat)
      <4>1. len \in Nat
        BY EchoBounds
      <4>2. Len(typed'[k]) \in Nat
        BY <2>3
      <4> QED
        BY <4>1, <4>2 DEF WordBytes
    <3>3. up'[k] = LastWord(k)'
      BY <2>3, <2>6, <3>1, <3>2, ConcatEmptySeq
    <3> QED
      BY <2>2, <2>3, <2>4, <3>1, <3>3 DEF InStep, WordOnItsWay, serverVars
  <2>8. InTurn(k)'
    BY <2>2, <2>3, <2>5, <2>7 DEF InTurn, serverVars
  <2>9. \A s \in EchoClient \ {k} : typed'[s] = typed[s] /\ up'[s] = up[s] /\ user'[s] = user[s]
    BY <1>0, <2>1, <2>2 DEF EchoTypes
  <2> QED
    BY <1>1, <2>2, <2>5, <2>8, <2>9 DEF serverVars
<1>10. ASSUME NEW k \in EchoClient, Answered(k) PROVE EchoInv'
  <2>1. echo \in {"setup", "accept"} => InTurn(k)
    BY <1>10 DEF EchoInv
  <2>2. /\ user[k] = "recv" /\ user'[k] = "cin" /\ buf'[k] = Taken(down[k]) /\ down'[k] = Left(down[k])
        /\ UNCHANGED <<echo, backlog, thread, read_buf, smashed, up, reset, typed>>
    BY <1>0, <1>10 DEF Answered, EchoTypes, serverVars
  <2>3. echo \in {"setup", "accept"} => echo = "accept" /\ down[k] # <<>>
    BY <1>10, <2>1, <2>2 DEF Answered, InTurn
  <2>4. ASSUME echo = "accept", Fits(k) PROVE InStep(k)'
    <3>1. InStep(k) /\ typed[k] # <<>>
      BY <2>1, <2>2, <2>4 DEF InTurn, InStep
    <3>2. down[k] = Answer(LastWord(k)) /\ up[k] = <<>> /\ thread[k] # "send"
      BY <2>2, <2>3, <2>4, <3>1 DEF InStep, WordOnItsWay
    <3>3. Taken(down[k]) = down[k] /\ Left(down[k]) = <<>>
      BY <1>0, <2>4, <3>1, <3>2, AllTaken, WordFits
    <3>4. LastWord(k)' = LastWord(k)
      BY <2>2 DEF LastWord
    <3> QED
      BY <2>2, <3>1, <3>2, <3>3, <3>4 DEF InStep
  <2>5. Fits(k)' <=> Fits(k)
    BY <2>2 DEF Fits
  <2>6. echo \in {"setup", "accept"} => InTurn(k)'
    BY <2>1, <2>2, <2>3, <2>4, <2>5 DEF InTurn
  <2> QED
    BY <1>0, <1>1, <1>10, <2>5, <2>6 DEF Answered, EchoTypes, serverVars
<1>11. ASSUME NEW k \in EchoClient, Leaves(k) PROVE EchoInv'
  <2>1. echo \in {"setup", "accept"} => InTurn(k)
    BY <1>11 DEF Leaves, EchoInv
  <2>2. echo \in {"setup", "accept"} => InTurn(k)'
    BY <1>0, <1>11, <2>1 DEF Leaves, EchoTypes, InTurn, InStep, WordOnItsWay, Fits, LastWord, serverVars
  <2> QED
    BY <1>0, <1>1, <1>11, <2>2 DEF Leaves, EchoTypes, Fits, serverVars
<1>12. CASE UNCHANGED echoVars
  BY <1>0, <1>12 DEF echoVars, serverVars, EchoInv, InTurn, InStep, WordOnItsWay, Fits, LastWord
<1> QED
  BY <1>2, <1>3, <1>4, <1>5, <1>6, <1>7, <1>8, <1>9, <1>10, <1>11, <1>12
  DEF EchoNext, ClientHandler

\* For any number of clients and descriptors and any sizes: who types only words that
\* fit gets the whole answer to the word just typed, whatever the others type; and when
\* all do, no client that is killed once it is connected ends the server by SIGPIPE.
THEOREM AnswersInStep == ProgramsSpec => []EchoInStep
<1>1. EchoInv => EchoInStep
  BY DEF EchoInv, EchoInStep, InTurn, InStep
<1> QED
  BY <1>1, EchoStarts, EchoGoesOn, StepsApart, PTL DEF ProgramsSpec

----------------------------------------------------------------------------
(* Daemon *)

\* Process 2 is born of a process 1 that led a session of its own and does nothing more.
Descent ==
    /\ stage[1] # "unborn" => stage[0] \in {"exit", "gone"}
    /\ stage[2] # "unborn" => stage[1] \in {"exit", "gone"} /\ session[2] = 1
    /\ stage[1] = "fork" => session[1] = 1

DaemonTypes ==
    /\ stage \in [Generation -> {"start", "unborn", "fork", "setsid", "chdir", "close",
            "open log", "stdin", "stdout", "stderr", "log", "exit", "gone"}]
    /\ session \in [Generation -> Generation \cup {Shell}]
    /\ DOMAIN cwd = Generation /\ DOMAIN table = Generation
    /\ \A q \in Generation : DOMAIN table[q] \subseteq 0..MaxFd

\* Process 2 has opened n files, all since it closed what it had inherited.
Opened(n) ==
    /\ DOMAIN table[2] = 0..(n - 1)
    /\ \A fd \in 0..(n - 1) : table[2][fd] # Terminal
    /\ n > 0 => log_fd = 0 /\ table[2][0] = "/tmp/daemon.log"

\* One to n files: the log, and of the calls for /dev/null those that did not fail.
OpenedUpTo(n) == \E m \in 1..n : Opened(m)

\* What process 2 has done before each call.
Grandchild ==
    /\ stage[2] \in {"close", "open log", "stdin", "stdout", "stderr", "log"} => cwd[2] = "/"
    /\ stage[2] = "open log" => Opened(0)
    /\ stage[2] = "stdin" => OpenedUpTo(1)
    /\ stage[2] = "stdout" => OpenedUpTo(2)
    /\ stage[2] = "stderr" => OpenedUpTo(3)
    /\ stage[2] = "log" => OpenedUpTo(4)
    /\ logged \in {"nothing", "/tmp/daemon.log"}

DaemonInv == DaemonTypes /\ Descent /\ Grandchild

\* At first only process 0 exists.
LEMMA DaemonStarts == ProgramsInit => DaemonInv
<1> SUFFICES ASSUME DaemonInit PROVE DaemonInv
  BY DEF ProgramsInit
<1>1. DOMAIN <<>> \subseteq 0..MaxFd
  BY DaemonBound
<1> QED
  BY <1>1 DEF DaemonInit, DaemonInv, DaemonTypes, Descent, Grandchild, Generation, Shell

LEMMA Generations == Generation = {0, 1, 2}
  BY DEF Generation

\* The lowest free number is the number of files that are open, when they have the
\* lowest ones.
LEMMA LowestIsNext ==
    ASSUME NEW n \in 0..3, DOMAIN table[2] = 0..(n - 1)
    PROVE  Lowest = n
<1> DEFINE free == 0..MaxFd \ DOMAIN table[2]
<1>1. MaxFd \in Nat /\ MaxFd > 3
  BY DaemonBound
<1>2. n \in Int /\ n \in free /\ \A fd \in free : fd \in Int /\ n <= fd
  BY <1>1
<1>3. Lowest = Min(free)
  BY DEF Lowest
<1> HIDE DEF free
<1>4. Min(free) \in free /\ \A fd \in free : Min(free) <= fd
  BY <1>2, Zenon DEF Min
<1>5. Min(free) \in Int /\ n <= Min(free) /\ Min(free) <= n
  BY <1>2, <1>4
<1> QED
  BY <1>2, <1>3, <1>5

\* A call of open() that succeeds, one more file.
LEMMA OpensNext ==
    ASSUME DaemonTypes, NEW n \in 0..3, Opened(n), NEW file, file # Terminal, Opens(file),
           IF n = 0 THEN file = "/tmp/daemon.log" /\ log_fd' = Lowest ELSE UNCHANGED log_fd
    PROVE  Opened(n + 1)' /\ DOMAIN table' = Generation
                          /\ \A q \in Generation : DOMAIN table'[q] \subseteq 0..MaxFd
<1>1. Lowest = n
  BY LowestIsNext DEF Opened
<1>2. table' = [table EXCEPT ![2] =
          [fd \in DOMAIN @ \cup {n} |-> IF fd = n THEN file ELSE @[fd]]]
  BY <1>1 DEF Opens
<1>3. DOMAIN table = Generation /\ 2 \in Generation
  BY Generations DEF DaemonTypes
<1>4. table'[2] = [fd \in DOMAIN table[2] \cup {n} |-> IF fd = n THEN file ELSE table[2][fd]]
  BY <1>2, <1>3
<1>5. DOMAIN table[2] \cup {n} = 0..n /\ n + 1 - 1 = n
  BY DEF Opened
<1>6. DOMAIN table'[2] = 0..n
  BY <1>4, <1>5
<1>7. \A fd \in 0..n : table'[2][fd] = IF fd = n THEN file ELSE table[2][fd]
  BY <1>4, <1>5
<1>8. \A fd \in 0..n : fd # n => fd \in 0..(n - 1)
  OBVIOUS
<1>9. log_fd' = 0 /\ table'[2][0] = "/tmp/daemon.log"
  <2>1. CASE n = 0
    BY <1>1, <1>7, <2>1
  <2>2. CASE n # 0
    BY <1>7, <2>2 DEF Opened
  <2> QED
    BY <2>1, <2>2
<1>10. Opened(n + 1)'
  BY <1>5, <1>6, <1>7, <1>8, <1>9 DEF Opened, Terminal
<1>11. n <= MaxFd /\ MaxFd \in Nat
  BY DaemonBound
<1>12. ASSUME NEW q \in Generation PROVE DOMAIN table'[q] \subseteq 0..MaxFd
  <2>1. CASE q = 2
    BY <1>6, <1>11, <2>1
  <2>2. CASE q # 2
    <3>1. table'[q] = table[q]
      BY <1>2, <1>3, <2>2
    <3> QED
      BY <3>1 DEF DaemonTypes
  <2> QED
    BY <2>1, <2>2
<1> QED
  BY <1>2, <1>3, <1>10, <1>12

\* A call of open() that may fail.
LEMMA OpensOrFails ==
    ASSUME DaemonTypes, NEW n \in 1..3, NEW more, more = n + 1, OpenedUpTo(n),
           NEW file, file # Terminal,
           Opens(file) \/ table' = table, log_fd' = log_fd
    PROVE  OpenedUpTo(more)' /\ DOMAIN table' = Generation
                              /\ \A q \in Generation : DOMAIN table'[q] \subseteq 0..MaxFd
<1>1. PICK m \in 1..n : Opened(m)
  BY DEF OpenedUpTo
<1>2. m \in 0..3 /\ m # 0 /\ m \in 1..more /\ m + 1 \in 1..more
  OBVIOUS
<1>3. CASE Opens(file)
  <2>1. Opened(m + 1)' /\ DOMAIN table' = Generation
        /\ \A q \in Generation : DOMAIN table'[q] \subseteq 0..MaxFd
    BY <1>1, <1>2, <1>3, OpensNext
  <2> QED
    BY <1>2, <2>1 DEF OpenedUpTo
<1>4. CASE table' = table
  <2>1. Opened(m)'
    BY <1>1, <1>4 DEF Opened
  <2>2. DOMAIN table' = Generation /\ \A q \in Generation : DOMAIN table'[q] \subseteq 0..MaxFd
    BY <1>4 DEF DaemonTypes
  <2> QED
    BY <1>2, <2>1, <2>2 DEF OpenedUpTo
<1> QED
  BY <1>3, <1>4

\* A call of one of the three processes.
LEMMA DaemonGoesOn == DaemonInv /\ [DaemonNext]_daemonVars => DaemonInv'
<1> SUFFICES ASSUME DaemonInv, [DaemonNext]_daemonVars PROVE DaemonInv'
  OBVIOUS
<1>0. DaemonTypes /\ Descent /\ Grandchild /\ Generation = {0, 1, 2}
  BY Generations DEF DaemonInv
<1>a. \A q \in {0, 1, 2} : /\ q \in DOMAIN stage /\ q \in DOMAIN table
                           /\ q \in DOMAIN cwd /\ q \in DOMAIN session
  BY <1>0 DEF DaemonTypes
<1>1. ASSUME UNCHANGED <<cwd, log_fd, logged>>, stage'[2] = stage[2], table'[2] = table[2]
      PROVE  Grandchild'
  BY <1>0, <1>1 DEF Grandchild, OpenedUpTo, Opened
<1>2. \A fd \in DOMAIN <<>> : fd \in 0..MaxFd
  OBVIOUS
<1>3. ASSUME NEW q \in 0..1, Quit(q), stage[q] \in {"setsid", "fork", "exit"} PROVE DaemonInv'
  <2>1. DaemonTypes'
    BY <1>0, <1>2, <1>3 DEF Quit, GoOn, DaemonTypes
  <2>2. Descent'
    BY <1>0, <1>3 DEF Quit, GoOn, DaemonTypes, Descent
  <2>3. UNCHANGED <<cwd, log_fd, logged>> /\ stage'[2] = stage[2] /\ table'[2] = table[2]
    BY <1>a, <1>3 DEF Quit, GoOn
  <2>4. Grandchild'
    BY <1>1, <2>3
  <2> QED
    BY <2>1, <2>2, <2>4 DEF DaemonInv
<1>4. ASSUME Quit(2), stage[2] \in {"chdir", "open log"} PROVE DaemonInv'
  <2>1. DaemonTypes'
    BY <1>0, <1>2, <1>4 DEF Quit, GoOn, DaemonTypes
  <2>2. Descent'
    BY <1>0, <1>4 DEF Quit, GoOn, DaemonTypes, Descent
  <2>3. Grandchild'
    BY <1>0, <1>4 DEF Quit, GoOn, DaemonTypes, Grandchild
  <2> QED
    BY <2>1, <2>2, <2>3 DEF DaemonInv
<1>5. CASE Start
  <2>1. PICK inherited \in Inherited : table' = [table EXCEPT ![0] = inherited]
    BY <1>5 DEF Start
  <2>2. DOMAIN inherited \subseteq 0..MaxFd
    BY DaemonBound DEF Inherited
  <2>3. DaemonTypes'
    BY <1>0, <1>5, <2>1, <2>2 DEF Start, GoOn, DaemonTypes
  <2>4. Descent'
    BY <1>0, <1>5 DEF Start, GoOn, DaemonTypes, Descent
  <2>5. UNCHANGED <<cwd, log_fd, logged>> /\ stage'[2] = stage[2] /\ table'[2] = table[2]
    BY <1>a, <1>5, <2>1 DEF Start, GoOn
  <2>6. Grandchild'
    BY <1>1, <2>5
  <2> QED
    BY <2>3, <2>4, <2>6 DEF DaemonInv
<1>6. CASE Fork1
  <2>0. /\ stage' = [stage EXCEPT ![0] = "exit", ![1] = "setsid"] /\ stage[0] = "fork"
        /\ session' = [session EXCEPT ![1] = session[0]]
        /\ table' = [table EXCEPT ![1] = table[0]] /\ cwd' = [cwd EXCEPT ![1] = cwd[0]]
    <3>1. 0 + 1 = 1
      OBVIOUS
    <3> QED
      BY <1>6, <3>1 DEF Fork1, Forked
  <2>1. DaemonTypes'
    BY <1>0, <2>0 DEF DaemonTypes
  <2>2. /\ stage'[0] = "exit" /\ stage'[1] = "setsid" /\ stage'[2] = stage[2]
        /\ session'[2] = session[2]
    BY <1>a, <2>0
  <2>3. Descent'
    BY <1>0, <2>0, <2>2 DEF Descent
  <2>4. table'[2] = table[2] /\ cwd'[2] = cwd[2]
    BY <1>a, <2>0
  <2>5. UNCHANGED <<log_fd, logged>>
    BY <1>6 DEF Fork1, Forked
  <2>6. Grandchild'
    BY <1>0, <2>2, <2>4, <2>5 DEF Grandchild, OpenedUpTo, Opened
  <2> QED
    BY <2>1, <2>3, <2>6 DEF DaemonInv
<1>7. CASE SetSid
  <2>1. CASE Quit(1)
    BY <1>3, <1>7, <2>1 DEF SetSid
  <2>2. CASE ~Quit(1)
    <3>1. /\ session' = [session EXCEPT ![1] = 1] /\ stage' = [stage EXCEPT ![1] = "fork"]
          /\ stage[1] = "setsid" /\ UNCHANGED <<table, cwd, log_fd, logged>>
      BY <1>7, <2>2 DEF SetSid, GoOn
    <3>2. DaemonTypes' /\ Descent'
      BY <1>0, <3>1 DEF DaemonTypes, Descent
    <3>3. stage'[2] = stage[2]
      BY <1>a, <3>1
    <3>4. Grandchild'
      BY <1>1, <3>1, <3>3
    <3> QED
      BY <3>2, <3>4 DEF DaemonInv
  <2> QED
    BY <2>1, <2>2
<1>8. CASE Fork2
  <2>0. /\ stage' = [stage EXCEPT ![1] = "exit", ![2] = "chdir"] /\ stage[1] = "fork"
        /\ session' = [session EXCEPT ![2] = session[1]]
        /\ table' = [table EXCEPT ![2] = table[1]] /\ cwd' = [cwd EXCEPT ![2] = cwd[1]]
        /\ UNCHANGED logged
    <3>1. 1 + 1 = 2
      OBVIOUS
    <3> QED
      BY <1>8, <3>1 DEF Fork2, Forked
  <2>1. DaemonTypes'
    BY <1>0, <2>0 DEF DaemonTypes
  <2>2. Descent'
    BY <1>0, <2>0 DEF DaemonTypes, Descent
  <2>3. stage'[2] = "chdir" /\ UNCHANGED logged
    BY <1>0, <2>0 DEF DaemonTypes
  <2>4. Grandchild'
    BY <1>0, <2>3 DEF Grandchild
  <2> QED
    BY <2>1, <2>2, <2>4 DEF DaemonInv
<1>9. ASSUME NEW next \in {"close", "open log", "stdin", "stdout", "stderr", "log"},
             GoOn(2, next), UNCHANGED session,
             stage[2] \in {"chdir", "close", "open log", "stdin", "stdout", "stderr"},
             DOMAIN table' = Generation, DOMAIN cwd' = Generation,
             \A q \in Generation : DOMAIN table'[q] \subseteq 0..MaxFd
      PROVE  DaemonTypes' /\ Descent' /\ stage'[2] = next
  BY <1>0, <1>9 DEF GoOn, DaemonTypes, Descent
<1>10. CASE ChangeDirectory
  <2>1. DaemonTypes' /\ Descent' /\ stage'[2] = "close"
    BY <1>0, <1>9, <1>10 DEF ChangeDirectory, DaemonTypes
  <2>2. cwd'[2] = "/" /\ UNCHANGED logged
    BY <1>0, <1>10 DEF ChangeDirectory, DaemonTypes
  <2> QED
    BY <1>0, <2>1, <2>2 DEF DaemonInv, Grandchild
<1>11. CASE CloseAll
  <2>1. DOMAIN table[2] \ 0..MaxFd = {}
    BY <1>0 DEF DaemonTypes
  <2>2. table' = [table EXCEPT ![2] = Restrict(@, DOMAIN @ \ 0..MaxFd)] /\ GoOn(2, "open log")
        /\ UNCHANGED <<session, cwd, logged>> /\ stage[2] = "close"
    BY <1>11 DEF CloseAll
  <2>3. table'[2] = Restrict(table[2], {}) /\ DOMAIN table' = Generation
        /\ \A q \in Generation \ {2} : table'[q] = table[q]
    BY <1>0, <2>1, <2>2 DEF DaemonTypes
  <2>4. DOMAIN table'[2] = {}
    BY <2>3 DEF Restrict
  <2>5. DaemonTypes' /\ Descent' /\ stage'[2] = "open log"
    BY <1>0, <1>9, <2>2, <2>3, <2>4 DEF DaemonTypes
  <2>6. Opened(0)'
    BY <2>4 DEF Opened
  <2> QED
    BY <1>0, <2>2, <2>5, <2>6 DEF DaemonInv, Grandchild
<1>12. ASSUME UNCHANGED <<session, cwd, logged>>, cwd[2] = "/", NEW next, GoOn(2, next),
              stage[2] \in {"open log", "stdin", "stdout", "stderr"},
              DOMAIN table' = Generation,
              \A q \in Generation : DOMAIN table'[q] \subseteq 0..MaxFd,
              \/ next = "stdin" /\ OpenedUpTo(1)'
              \/ next = "stdout" /\ OpenedUpTo(2)'
              \/ next = "stderr" /\ OpenedUpTo(3)'
              \/ next = "log" /\ OpenedUpTo(4)'
      PROVE  DaemonInv'
  <2>1. DaemonTypes' /\ Descent' /\ stage'[2] = next
    BY <1>0, <1>9, <1>12 DEF DaemonTypes
  <2>2. cwd'[2] = "/" /\ logged' \in {"nothing", "/tmp/daemon.log"}
    BY <1>0, <1>12 DEF Grandchild
  <2>3. Grandchild'
    BY <1>12, <2>1, <2>2 DEF Grandchild
  <2> QED
    BY <2>1, <2>3 DEF DaemonInv
<1>13. CASE OpenLog
  <2>1. Opened(0) /\ cwd[2] = "/"
    BY <1>0, <1>13 DEF OpenLog, Grandchild
  <2>2. /\ GoOn(2, "stdin") /\ stage[2] = "open log" /\ UNCHANGED <<session, cwd, logged>>
        /\ Opens("/tmp/daemon.log") /\ "/tmp/daemon.log" # Terminal /\ log_fd' = Lowest
    BY <1>13 DEF OpenLog, Terminal
  <2>3. Opened(1)' /\ DOMAIN table' = Generation
        /\ \A q \in Generation : DOMAIN table'[q] \subseteq 0..MaxFd
    <3>1. 0 \in 0..3 /\ 0 + 1 = 1
      OBVIOUS
    <3>2. Opened(0 + 1)' /\ DOMAIN table' = Generation
          /\ \A q \in Generation : DOMAIN table'[q] \subseteq 0..MaxFd
      BY <1>0, <2>1, <2>2, <3>1, OpensNext
    <3> QED
      BY <3>1, <3>2
  <2>4. OpenedUpTo(1)'
    <3>1. 1 \in 1..1
      OBVIOUS
    <3> QED
      BY <2>3, <3>1 DEF OpenedUpTo
  <2> QED
    BY <1>12, <2>1, <2>2, <2>3, <2>4
<1>14. CASE OpenNull("stdin", "/dev/null to read", "stdout")
  <2>1. OpenedUpTo(1) /\ cwd[2] = "/"
    BY <1>0, <1>14 DEF OpenNull, Grandchild
  <2>2. /\ GoOn(2, "stdout") /\ stage[2] = "stdin" /\ UNCHANGED <<session, cwd, logged>>
        /\ log_fd' = log_fd
        /\ Opens("/dev/null to read") \/ table' = table
    BY <1>14 DEF OpenNull
  <2>3. OpenedUpTo(2)' /\ DOMAIN table' = Generation
        /\ \A q \in Generation : DOMAIN table'[q] \subseteq 0..MaxFd
    <3>1. 1 \in 1..3 /\ 2 = 1 + 1
      OBVIOUS
    <3>2. PICK file : file # Terminal /\ (Opens(file) \/ table' = table)
      <4>1. "/dev/null to read" # Terminal
        BY DEF Terminal
      <4> QED
        BY <2>2, <4>1
    <3>3. DaemonTypes /\ OpenedUpTo(1) /\ log_fd' = log_fd
      BY <1>0, <2>1, <2>2
    <3> QED
      BY <3>1, <3>2, <3>3, OpensOrFails
  <2> QED
    BY <1>12, <2>1, <2>2, <2>3
<1>15. CASE OpenNull("stdout", "/dev/null to write", "stderr")
  <2>1. OpenedUpTo(2) /\ cwd[2] = "/"
    BY <1>0, <1>15 DEF OpenNull, Grandchild
  <2>2. /\ GoOn(2, "stderr") /\ stage[2] = "stdout" /\ UNCHANGED <<session, cwd, logged>>
        /\ log_fd' = log_fd
        /\ Opens("/dev/null to write") \/ table' = table
    BY <1>15 DEF OpenNull
  <2>3. OpenedUpTo(3)' /\ DOMAIN table' = Generation
        /\ \A q \in Generation : DOMAIN table'[q] \subseteq 0..MaxFd
    <3>1. 2 \in 1..3 /\ 3 = 2 + 1
      OBVIOUS
    <3>2. PICK file : file # Terminal /\ (Opens(file) \/ table' = table)
      <4>1. "/dev/null to write" # Terminal
        BY DEF Terminal
      <4> QED
        BY <2>2, <4>1
    <3>3. DaemonTypes /\ OpenedUpTo(2) /\ log_fd' = log_fd
      BY <1>0, <2>1, <2>2
    <3> QED
      BY <3>1, <3>2, <3>3, OpensOrFails
  <2> QED
    BY <1>12, <2>1, <2>2, <2>3
<1>16. CASE OpenNull("stderr", "/dev/null to write", "log")
  <2>1. OpenedUpTo(3) /\ cwd[2] = "/"
    BY <1>0, <1>16 DEF OpenNull, Grandchild
  <2>2. /\ GoOn(2, "log") /\ stage[2] = "stderr" /\ UNCHANGED <<session, cwd, logged>>
        /\ log_fd' = log_fd
        /\ Opens("/dev/null to write") \/ table' = table
    BY <1>16 DEF OpenNull
  <2>3. OpenedUpTo(4)' /\ DOMAIN table' = Generation
        /\ \A q \in Generation : DOMAIN table'[q] \subseteq 0..MaxFd
    <3>1. 3 \in 1..3 /\ 4 = 3 + 1
      OBVIOUS
    <3>2. PICK file : file # Terminal /\ (Opens(file) \/ table' = table)
      <4>1. "/dev/null to write" # Terminal
        BY DEF Terminal
      <4> QED
        BY <2>2, <4>1
    <3>3. DaemonTypes /\ OpenedUpTo(3) /\ log_fd' = log_fd
      BY <1>0, <2>1, <2>2
    <3> QED
      BY <3>1, <3>2, <3>3, OpensOrFails
  <2> QED
    BY <1>12, <2>1, <2>2, <2>3
<1>17. CASE Log
  <2>1. logged' = "/tmp/daemon.log"
    BY <1>0, <1>17 DEF Log, Grandchild, OpenedUpTo, Opened
  <2>2. DaemonTypes' /\ Descent'
    BY <1>0, <1>17 DEF Log, DaemonTypes, Descent
  <2>3. Grandchild'
    BY <1>0, <1>17, <2>1 DEF Log, Grandchild, OpenedUpTo, Opened
  <2> QED
    BY <2>2, <2>3 DEF DaemonInv
<1>18. CASE UNCHANGED daemonVars
  <2>1. DaemonTypes' /\ Descent'
    BY <1>0, <1>18 DEF daemonVars, DaemonTypes, Descent
  <2>2. Grandchild'
    BY <1>1, <1>18 DEF daemonVars
  <2> QED
    BY <2>1, <2>2 DEF DaemonInv
<1>19. CASE \E q \in 0..1 : ForkFailed(q) \/ ParentExits(q)
  BY <1>3, <1>19 DEF ForkFailed, ParentExits
<1>20. CASE ChdirFailed \/ OpenLogFailed
  BY <1>4, <1>20 DEF ChdirFailed, OpenLogFailed
<1> QED
  BY <1>5, <1>6, <1>7, <1>8, <1>10, <1>11, <1>13, <1>14, <1>15, <1>16, <1>17, <1>18, <1>19, <1>20
  DEF DaemonNext, Redirect

\* For every limit of descriptors and whatever is inherited: the process that logs
\* has no way to the terminal, and its lines reach the log.
THEOREM DaemonDetached == ProgramsSpec => []Detached
<1>1. DaemonInv => Detached
  <2> SUFFICES ASSUME DaemonInv, stage[2] = "log" PROVE
        /\ session[2] = 1 /\ cwd[2] = "/"
        /\ Terminal \notin Range(table[2])
        /\ log_fd \in DOMAIN table[2] /\ DOMAIN table[2] \subseteq 0..3
        /\ logged \in {"nothing", "/tmp/daemon.log"}
    BY DEF Detached, Shell
  <2>1. PICK m \in 1..4 : Opened(m)
    BY DEF DaemonInv, Grandchild, OpenedUpTo
  <2>2. /\ DOMAIN table[2] = 0..(m - 1) /\ log_fd = 0
        /\ \A fd \in 0..(m - 1) : table[2][fd] # Terminal
    BY <2>1 DEF Opened
  <2>3. log_fd \in DOMAIN table[2] /\ DOMAIN table[2] \subseteq 0..3
    BY <2>2
  <2>4. Terminal \notin Range(table[2])
    BY <2>2 DEF Range
  <2> QED
    BY <2>3, <2>4 DEF DaemonInv, Descent, Grandchild
<1> QED
  BY <1>1, DaemonStarts, DaemonGoesOn, StepsApart, PTL DEF ProgramsSpec

----------------------------------------------------------------------------
(* MemoryPool *)

\* One user has block b and no entry of the list, or one entry and no user.
InOnePlace(b) ==
    \/ /\ \E u \in User : block[u] = b /\ \A t \in User : block[t] = b => t = u
       /\ \A k \in 1..Len(freeList) : freeList[k] # b
    \/ /\ \A u \in User : block[u] # b
       /\ \E k \in 1..Len(freeList) :
              freeList[k] = b /\ \A n \in 1..Len(freeList) : freeList[n] = b => n = k

PoolInv ==
    /\ PoolTypeOK
    /\ ~destroyed => \A b \in Block : InOnePlace(b)

\* The constructor puts every block on the list, once.
LEMMA PoolStarts == ProgramsInit => PoolInv
<1> SUFFICES ASSUME PoolInit PROVE PoolInv
  BY DEF ProgramsInit
<1> DEFINE Indices == 1..Cardinality(Block)
<1>0. IsFiniteSet(Block) /\ "none" \notin Block
  BY BlockNames
<1>1. Cardinality(Block) \in Nat /\ ExistsBijection(Indices, Block)
  BY <1>0, FS_CardinalityType
<1>2. IsFiniteSet(Indices) /\ Cardinality(Indices) = Cardinality(Block)
  BY <1>1, FS_Interval
<1>3. \E f \in [Indices -> Block] : IsInjective(f)
  BY <1>1 DEF ExistsBijection, Bijection, Injection
<1>4. freeList \in [Indices -> Block] /\ IsInjective(freeList)
  <2>1. freeList = CHOOSE f \in [Indices -> Block] : IsInjective(f)
    BY DEF PoolInit, SetToSeq
  <2> HIDE DEF Indices
  <2> QED
    BY <1>3, <2>1
<1>5. freeList \in Injection(Indices, Block)
  BY <1>4 DEF Injection
<1>6. freeList \in Surjection(Indices, Block)
  <2> HIDE DEF Indices
  <2> QED
    BY <1>0, <1>2, <1>5, FS_Injection
<1>7. freeList \in Seq(Block \cup {NoBlock}) /\ Len(freeList) = Cardinality(Block)
  BY <1>1, <1>4
<1>8. \A b \in Block : \E k \in Indices : freeList[k] = b
  BY <1>6 DEF Surjection
<1>9. \A k, n \in Indices : freeList[k] = freeList[n] => k = n
  BY <1>4 DEF IsInjective
<1>10. block = [u \in User |-> "none"] /\ destroyed = FALSE
  BY DEF PoolInit
<1>11. ASSUME NEW b \in Block PROVE InOnePlace(b)
  <2>1. PICK k \in Indices : freeList[k] = b
    BY <1>8
  <2>2. \A n \in Indices : freeList[n] = b => n = k
    BY <1>9, <2>1
  <2>3. \A u \in User : block[u] # b
    BY <1>0, <1>10
  <2> QED
    BY <1>7, <2>1, <2>2, <2>3 DEF InOnePlace
<1> QED
  BY <1>7, <1>10, <1>11 DEF PoolInv, PoolTypeOK

\* A block that nobody gets or gives stays where it is.
LEMMA StaysInPlace ==
    ASSUME NEW b, InOnePlace(b),
           \A t \in User : block'[t] = b <=> block[t] = b,
           \A k \in 1..Len(freeList') : freeList'[k] = b => k \in 1..Len(freeList) /\ freeList[k] = b,
           \A k \in 1..Len(freeList) : freeList[k] = b => k \in 1..Len(freeList') /\ freeList'[k] = b
    PROVE  InOnePlace(b)'
<1>1. CASE /\ \E s \in User : block[s] = b /\ \A t \in User : block[t] = b => t = s
           /\ \A k \in 1..Len(freeList) : freeList[k] # b
  <2>1. \A k \in 1..Len(freeList') : freeList'[k] # b
    BY <1>1
  <2>2. \E s \in User : block'[s] = b /\ \A t \in User : block'[t] = b => t = s
    BY <1>1
  <2> QED
    BY <2>1, <2>2 DEF InOnePlace
<1>2. CASE /\ \A s \in User : block[s] # b
           /\ \E k \in 1..Len(freeList) :
                  freeList[k] = b /\ \A m \in 1..Len(freeList) : freeList[m] = b => m = k
  <2>1. PICK k \in 1..Len(freeList) :
                freeList[k] = b /\ \A m \in 1..Len(freeList) : freeList[m] = b => m = k
    BY <1>2
  <2>2. /\ k \in 1..Len(freeList') /\ freeList'[k] = b
        /\ \A m \in 1..Len(freeList') : freeList'[m] = b => m = k
    BY <2>1
  <2>3. \A s \in User : block'[s] # b
    BY <1>2
  <2> QED
    BY <2>2, <2>3 DEF InOnePlace
<1> QED
  BY <1>1, <1>2 DEF InOnePlace

\* allocate() moves the last block to the user, or gives a null pointer.
LEMMA AllocateMoves ==
    ASSUME PoolInv, NEW u \in User, AllocateBlock(u)
    PROVE  PoolInv'
<1> DEFINE n == Len(freeList)
<1>1. /\ freeList \in Seq(Block \cup {NoBlock}) /\ n \in Nat /\ block[u] = "none" /\ ~destroyed
      /\ block \in [User -> Block \cup {NoBlock, "none"}]
      /\ destroyed' = destroyed /\ \A b \in Block : InOnePlace(b)
  BY DEF PoolInv, PoolTypeOK, AllocateBlock
<1>2. CASE freeList = <<>>
  <2>1. freeList' = freeList /\ block' = [block EXCEPT ![u] = NoBlock]
    BY <1>2 DEF AllocateBlock
  <2>2. ASSUME NEW b \in Block PROVE InOnePlace(b)'
    <3>1. b # "none" /\ b # NoBlock
      BY BlockNames
    <3> QED
      BY <1>1, <2>1, <3>1 DEF InOnePlace
  <2> QED
    BY <1>1, <2>1, <2>2 DEF PoolInv, PoolTypeOK
<1>3. CASE freeList # <<>>
  <2>1. n > 0 /\ freeList[n] \in Block \cup {NoBlock}
    BY <1>1, <1>3
  <2>2. freeList' = SubSeq(freeList, 1, n - 1) /\ block' = [block EXCEPT ![u] = freeList[n]]
    BY <1>3 DEF AllocateBlock, Front, Last
  <2>3. /\ freeList' \in Seq(Block \cup {NoBlock}) /\ Len(freeList') = n - 1
        /\ \A k \in 1..(n - 1) : freeList'[k] = freeList[k]
    <3>1. 1 \in 1..(n + 1) /\ n - 1 \in 0..n /\ \A k \in 1..n : freeList[k] \in Block \cup {NoBlock}
      BY <1>1, <2>1
    <3>2. /\ SubSeq(freeList, 1, n - 1) \in Seq(Block \cup {NoBlock})
          /\ Len(SubSeq(freeList, 1, n - 1)) = IF 1 <= n - 1 THEN n - 1 - 1 + 1 ELSE 0
          /\ \A k \in 1..(n - 1 - 1 + 1) : SubSeq(freeList, 1, n - 1)[k] = freeList[1 + k - 1]
      BY <1>1, <3>1, SubSeqProperties
    <3>3. n - 1 - 1 + 1 = n - 1 /\ \A k \in 1..(n - 1) : 1 + k - 1 = k
      BY <1>1
    <3>4. (IF 1 <= n - 1 THEN n - 1 ELSE 0) = n - 1
      <4>1. n \in Nat /\ n > 0
        BY <1>1, <2>1
      <4> HIDE DEF n
      <4> QED
        BY <4>1
    <3> QED
      BY <2>2, <3>2, <3>3, <3>4
  <2>4. ASSUME NEW b \in Block PROVE InOnePlace(b)'
    <3>1. b # "none" /\ InOnePlace(b)
      BY <1>1, BlockNames
    <3>2. \A t \in User : block'[t] = IF t = u THEN freeList[n] ELSE block[t]
      BY <1>1, <2>2
    <3>3. \A k \in 1..n : k \in 1..(n - 1) \/ k = n
      BY <1>1
    <3>4. n \in 1..n /\ 1..(n - 1) \subseteq 1..n /\ n \notin 1..(n - 1)
      BY <1>1, <2>1
    <3> HIDE DEF n
    <3>5. InOnePlace(b) <=>
              \/ /\ \E s \in User : block[s] = b /\ \A t \in User : block[t] = b => t = s
                 /\ \A k \in 1..n : freeList[k] # b
              \/ /\ \A s \in User : block[s] # b
                 /\ \E k \in 1..n : freeList[k] = b /\ \A m \in 1..n : freeList[m] = b => m = k
      BY DEF InOnePlace, n
    <3>6. CASE b = freeList[n]
      BY <1>1, <2>3, <3>1, <3>2, <3>3, <3>4, <3>5, <3>6 DEF InOnePlace
    <3>7. CASE b # freeList[n]
      <4>1. \A t \in User : block'[t] = b <=> block[t] = b
        BY <1>1, <3>1, <3>2, <3>7
      <4>2. \A k \in 1..(n - 1) : freeList'[k] = freeList[k]
        BY <2>3
      <4>3. Len(freeList') = n - 1 /\ Len(freeList) = n
        BY <2>3 DEF n
      <4>4. \A k \in 1..n : freeList[k] = b => k \in 1..(n - 1) /\ freeList'[k] = b
        BY <3>3, <3>7, <4>2
      <4>5. \A k \in 1..(n - 1) : freeList'[k] = b => k \in 1..n /\ freeList[k] = b
        BY <3>4, <4>2
      <4> QED
        BY <3>1, <4>1, <4>3, <4>4, <4>5, StaysInPlace
    <3> QED
      BY <3>6, <3>7
  <2>5. block' \in [User -> Block \cup {NoBlock, "none"}]
    BY <1>1, <2>1, <2>2
  <2> QED
    BY <1>1, <2>3, <2>4, <2>5 DEF PoolInv, PoolTypeOK
<1> QED
  BY <1>2, <1>3

\* deallocate() moves it back, or puts a null pointer on the list.
LEMMA DeallocateMoves ==
    ASSUME PoolInv, NEW u \in User, Deallocate(u), block[u] \in Block \cup {NoBlock}
    PROVE  PoolInv'
<1> DEFINE n == Len(freeList)
<1>1. /\ freeList \in Seq(Block \cup {NoBlock}) /\ n \in Nat /\ block[u] # "none" /\ ~destroyed
      /\ block \in [User -> Block \cup {NoBlock, "none"}]
      /\ destroyed' = destroyed /\ \A b \in Block : InOnePlace(b)
  BY DEF PoolInv, PoolTypeOK, Deallocate
<1>2. freeList' = Append(freeList, block[u]) /\ block' = [block EXCEPT ![u] = "none"]
  BY DEF Deallocate
<1>3. /\ freeList' \in Seq(Block \cup {NoBlock}) /\ Len(freeList') = n + 1
      /\ \A k \in 1..n : freeList'[k] = freeList[k]
      /\ freeList'[n + 1] = block[u]
  BY <1>1, <1>2, AppendProperties
<1>4. ASSUME NEW b \in Block PROVE InOnePlace(b)'
  <2>1. b # "none" /\ InOnePlace(b)
    BY <1>1, BlockNames
  <2>2. \A t \in User : block'[t] = IF t = u THEN "none" ELSE block[t]
    BY <1>1, <1>2
  <2>3. \A k \in 1..(n + 1) : k \in 1..n \/ k = n + 1
    BY <1>1
  <2>4. n + 1 \in 1..(n + 1) /\ 1..n \subseteq 1..(n + 1) /\ n + 1 \notin 1..n
    BY <1>1
  <2> HIDE DEF n
  <2>5. InOnePlace(b) <=>
            \/ /\ \E s \in User : block[s] = b /\ \A t \in User : block[t] = b => t = s
               /\ \A k \in 1..n : freeList[k] # b
            \/ /\ \A s \in User : block[s] # b
               /\ \E k \in 1..n : freeList[k] = b /\ \A m \in 1..n : freeList[m] = b => m = k
    BY DEF InOnePlace, n
  <2>6. CASE b = block[u]
    <3>1. /\ \A t \in User : block[t] = b => t = u
          /\ \A k \in 1..n : freeList[k] # b
      BY <2>1, <2>5, <2>6
    <3>2. \A t \in User : block'[t] # b
      BY <2>1, <2>2, <3>1
    <3>3. freeList'[n + 1] = b /\ \A k \in 1..(n + 1) : freeList'[k] = b => k = n + 1
      BY <1>3, <2>3, <2>6, <3>1
    <3> QED
      BY <1>3, <2>4, <3>2, <3>3 DEF InOnePlace
  <2>7. CASE b # block[u]
    <3>1. \A t \in User : block'[t] = b <=> block[t] = b
      BY <2>1, <2>2, <2>7
    <3>2. Len(freeList') = n + 1 /\ Len(freeList) = n
      BY <1>3 DEF n
    <3>3. \A k \in 1..(n + 1) : freeList'[k] = b => k \in 1..n /\ freeList[k] = b
      BY <1>3, <2>3, <2>7
    <3>4. \A k \in 1..n : freeList[k] = b => k \in 1..(n + 1) /\ freeList'[k] = b
      BY <1>3, <2>4
    <3> QED
      BY <2>1, <3>1, <3>2, <3>3, <3>4, StaysInPlace
  <2> QED
    BY <2>6, <2>7
<1>5. block' \in [User -> Block \cup {NoBlock, "none"}]
  BY <1>1, <1>2
<1> QED
  BY <1>1, <1>3, <1>4, <1>5 DEF PoolInv, PoolTypeOK

\* No call of a user breaks it, nor the destructor.
LEMMA PoolGoesOn == PoolInv /\ [PoolNext]_poolVars => PoolInv'
<1> SUFFICES ASSUME PoolInv, [PoolNext]_poolVars PROVE PoolInv'
  OBVIOUS
<1>1. CASE DestroyPool
  BY <1>1 DEF DestroyPool, PoolInv, PoolTypeOK
<1>2. CASE UNCHANGED poolVars
  BY <1>2 DEF poolVars, PoolInv, PoolTypeOK, InOnePlace
<1>3. ASSUME NEW u \in User, Deallocate(u) PROVE block[u] \in Block \cup {NoBlock}
  BY <1>3 DEF Deallocate, PoolInv, PoolTypeOK
<1> QED
  BY <1>1, <1>2, <1>3, AllocateMoves, DeallocateMoves DEF PoolNext

\* For any number of blocks and users: no block is handed out twice, and none is lost
\* to the null pointers that come back.
THEOREM BlocksHeldOnce == ProgramsSpec => []BlockHeldOnce
<1>1. PoolInv => BlockHeldOnce
  <2> SUFFICES ASSUME PoolInv, ~destroyed, NEW b \in Block
               PROVE  Cardinality({u \in User : block[u] = b})
                        + Cardinality({k \in DOMAIN freeList : freeList[k] = b}) = 1
    BY DEF BlockHeldOnce
  <2> DEFINE users == {u \in User : block[u] = b}
             entries == {k \in DOMAIN freeList : freeList[k] = b}
  <2>1. InOnePlace(b) /\ DOMAIN freeList = 1..Len(freeList)
    BY DEF PoolInv, PoolTypeOK
  <2>2. \/ (\E u \in User : users = {u}) /\ entries = {}
        \/ users = {} /\ \E k \in 1..Len(freeList) : entries = {k}
    BY <2>1 DEF InOnePlace
  <2> HIDE DEF users, entries
  <2>3. CASE users = {} /\ Cardinality(entries) = 1
    BY <2>3, FS_EmptySet DEF users, entries
  <2>4. CASE entries = {} /\ Cardinality(users) = 1
    BY <2>4, FS_EmptySet DEF users, entries
  <2> QED
    BY <2>2, <2>3, <2>4, FS_Singleton, Zenon
<1> QED
  BY <1>1, PoolStarts, PoolGoesOn, StepsApart, PTL DEF ProgramsSpec

----------------------------------------------------------------------------
(* Pipes *)

ReaderCall == step["reader"]
WriterCall == step["writer"]

\* A pipe holds what was sent as long as a reader may still take it; the end of the
\* pipe means that nobody will send, since a writer that can still send has it open
\* (unnamed_pipe) or the reader came in with it (named_pipe).
PipeInv ==
    /\ step \in [Process -> Calls] /\ bytes \in Nat
    /\ program \notin Piping => printed = "nothing"
    /\ program \in {"unnamed_pipe", "named_pipe"} =>
        /\ offset = 0 /\ printed \in {"nothing", "whole", "stale"}
        /\ sent => WriterCall \in {"exit", "gone"}
        /\ sent /\ (\/ ReaderCall \in {"close", "read"}
                    \/ "writer" \in writers /\ ReaderCall \notin {"exit", "gone"}) => bytes > 0
        /\ ReaderCall \in {"fork", "close", "read"} => "reader" \in readers
        /\ printed # "nothing" => ReaderCall \in {"exit", "gone"}
        /\ printed = "stale" => ~sent /\ WriterCall \in {"none", "gone"}
    /\ program = "unnamed_pipe" =>
        /\ ReaderCall \in {"none", "pipe", "fork", "close", "read", "exit", "gone"}
        /\ WriterCall \in {"none", "type", "close", "write", "exit", "gone"}
        /\ ReaderCall \in {"pipe", "fork"} => WriterCall = "none"
        /\ WriterCall \notin {"none", "gone"} => "writer" \in writers
    /\ program = "named_pipe" =>
        /\ ReaderCall \in {"none", "open", "opening", "read", "exit", "gone"}
        /\ WriterCall \in {"none", "mkfifo", "fork", "open", "type", "write", "exit", "gone"}
        /\ WriterCall \in {"mkfifo", "fork"} => ReaderCall = "none"
        /\ ReaderCall = "read" => WriterCall \notin {"mkfifo", "fork", "open"}
        /\ writers \subseteq {"writer"}
        /\ "writer" \in writers <=> WriterCall \in {"type", "write", "exit"}

\* At first there is no pipe.
LEMMA PipesStart == ProgramsInit => PipeInv
<1> SUFFICES ASSUME PipeInit PROVE PipeInv
  BY DEF ProgramsInit
<1>1. "reader" \in Process /\ "writer" \in Process /\ "reader" # "writer"
  BY DEF Process
<1>2. step \in [Process -> Calls]
  BY DEF PipeInit, Process, Calls
<1>3. program = "unnamed_pipe" => ReaderCall = "pipe" /\ WriterCall = "none"
  BY <1>1 DEF PipeInit, ReaderCall, WriterCall
<1>4. program = "named_pipe" => ReaderCall = "none" /\ WriterCall = "mkfifo"
  BY <1>1 DEF PipeInit, ReaderCall, WriterCall
<1> QED
  BY <1>2, <1>3, <1>4 DEF PipeInit, PipeInv

\* What a read() takes is there.
LEMMA TakesLess ==
    ASSUME bytes \in Nat
    PROVE  Min({bytes, Buffer}) \in Nat /\ bytes - Min({bytes, Buffer}) \in Nat
<1> DEFINE both == {bytes, Buffer}
<1>1. Buffer \in Nat
  BY PipeSizes
<1>2. \E b \in both : \A e \in both : b <= e
  BY <1>1
<1>3. Min(both) \in both /\ \A e \in both : Min(both) <= e
  <2> HIDE DEF both
  <2> QED
    BY <1>2, Zenon DEF Min
<1>4. Min(both) \in Nat /\ Min(both) <= bytes
  BY <1>1, <1>3
<1> HIDE DEF both
<1>5. bytes - Min(both) \in Nat
  BY <1>4
<1> QED
  BY <1>4, <1>5 DEF both

\* No system call of a reader or a writer breaks it, and no kill.
LEMMA PipeGoesOn == PipeInv /\ UNCHANGED program /\ [PipeNext]_pipeVars => PipeInv'
<1> SUFFICES ASSUME PipeInv, UNCHANGED program, [PipeNext]_pipeVars PROVE PipeInv'
  OBVIOUS
<1> USE DEF At, To
<1>0. /\ DOMAIN step = Process /\ step \in [Process -> Calls] /\ Process = {"reader", "writer"}
      /\ bytes \in Nat
  BY DEF PipeInv, Process
<1>1. CASE UNCHANGED pipeVars
  BY <1>1 DEF pipeVars, PipeInv, ReaderCall, WriterCall
<1>2. ASSUME Ended("reader"), step["reader"] # "none", program \in Piping PROVE PipeInv'
  <2>1. /\ ReaderCall' = "gone" /\ WriterCall' = WriterCall /\ step' \in [Process -> Calls]
        /\ writers' = writers \ {"reader"} /\ UNCHANGED <<offset, sent, printed>>
        /\ bytes' \in Nat
    BY <1>0, <1>2 DEF Ended, ReaderCall, WriterCall, Calls
  <2> QED
    BY <1>2, <2>1 DEF PipeInv, ReaderCall
<1>3. ASSUME Ended("writer"), step["writer"] # "none", program \in Piping PROVE PipeInv'
  <2>1. /\ WriterCall' = "gone" /\ ReaderCall' = ReaderCall /\ step' \in [Process -> Calls]
        /\ writers' = writers \ {"writer"} /\ UNCHANGED <<offset, sent, printed>>
        /\ "reader" \in readers => "reader" \in readers' /\ bytes' = bytes
        /\ bytes' \in Nat
    BY <1>0, <1>3 DEF Ended, ReaderCall, WriterCall, Calls
  <2> QED
    BY <1>3, <2>1 DEF PipeInv, WriterCall
<1>4. ASSUME MakePipe \/ ForkWriter \/ NoWriter, program \in Piping PROVE PipeInv'
  <2>1. step' \in [Process -> Calls] /\ UNCHANGED <<bytes, offset, sent, printed>>
    BY <1>0, <1>4 DEF MakePipe, ForkWriter, NoWriter, Calls
  <2>2. CASE MakePipe
    <3>1. /\ ReaderCall = "pipe" /\ ReaderCall' = "fork" /\ WriterCall' = WriterCall
          /\ readers' = {"reader"} /\ writers' = {"reader"}
      BY <1>0, <2>2 DEF MakePipe, ReaderCall, WriterCall
    <3> QED
      BY <1>4, <2>1, <3>1 DEF PipeInv
  <2>3. CASE ForkWriter
    <3>1. /\ ReaderCall = "fork" /\ ReaderCall' = "close" /\ WriterCall' = "type"
          /\ "reader" \in readers' /\ "writer" \in writers'
      BY <1>0, <2>3 DEF ForkWriter, ReaderCall, WriterCall
    <3> QED
      BY <1>4, <2>1, <3>1 DEF PipeInv
  <2>4. CASE NoWriter
    <3>1. /\ ReaderCall = "fork" /\ ReaderCall' = "close" /\ WriterCall' = WriterCall
          /\ UNCHANGED <<readers, writers>>
      BY <1>0, <2>4 DEF NoWriter, ReaderCall, WriterCall
    <3> QED
      BY <1>4, <2>1, <3>1 DEF PipeInv
  <2> QED
    BY <1>4, <2>2, <2>3, <2>4
<1>5. ASSUME CloseUnused("reader"), program \in Piping PROVE PipeInv'
  <2>1. /\ ReaderCall = "close" /\ ReaderCall' = "read" /\ WriterCall' = WriterCall
        /\ step' \in [Process -> Calls] /\ UNCHANGED <<readers, bytes, offset, sent, printed>>
        /\ writers' = writers \ {"reader"}
    BY <1>0, <1>5 DEF CloseUnused, ReaderCall, WriterCall, Calls
  <2> QED
    BY <1>5, <2>1 DEF PipeInv
<1>6. ASSUME CloseUnused("writer"), program \in Piping PROVE PipeInv'
  <2>1. /\ WriterCall = "close" /\ WriterCall' = "write" /\ ReaderCall' = ReaderCall
        /\ step' \in [Process -> Calls] /\ UNCHANGED <<writers, bytes, offset, sent, printed>>
        /\ readers' = readers \ {"writer"}
    BY <1>0, <1>6 DEF CloseUnused, ReaderCall, WriterCall, Calls
  <2> QED
    BY <1>6, <2>1 DEF PipeInv
<1>7. ASSUME Access \/ MkFifo \/ ForkReader \/ NoReader, program \in Piping PROVE PipeInv'
  <2>1. /\ step' \in [Process -> Calls] /\ UNCHANGED <<readers, writers, bytes, offset, sent, printed>>
        /\ \/ WriterCall = "access"
           \/ /\ WriterCall = "mkfifo" /\ ReaderCall' = ReaderCall
              /\ WriterCall' = IF program = "named_pipe" THEN "fork" ELSE "open"
           \/ /\ WriterCall = "fork" /\ WriterCall' = "open"
              /\ ReaderCall' \in {ReaderCall, "open"}
    BY <1>0, <1>7 DEF Access, MkFifo, ForkReader, NoReader, ReaderCall, WriterCall, Calls
  <2> QED
    BY <1>7, <2>1 DEF PipeInv
<1>8. ASSUME Open("reader"), program \in Piping PROVE PipeInv'
  <2>1. /\ ReaderCall = "open" /\ step' \in [Process -> Calls]
        /\ UNCHANGED <<bytes, offset, sent, printed>>
    BY <1>0, <1>8 DEF Open, ReaderCall, Ready, Calls
  <2>2. CASE program = "named_pipe"
    <3>1. WriterCall # "opening"
      BY <2>2 DEF PipeInv
    <3>2. {"reader"} \cup {q \in Process : Waits(q)} = {"reader"}
      BY <1>0, <2>1, <3>1 DEF Waits, WriterCall
    <3>3. /\ WriterCall' = WriterCall /\ writers' = writers
          /\ \/ ReaderCall' = "opening" /\ UNCHANGED readers
             \/ ReaderCall' = "read" /\ "reader" \in readers' /\ writers # {}
      BY <1>0, <1>8, <3>1, <3>2 DEF Open, Meets, Waits, Ready, ReaderCall, WriterCall
    <3>4. writers # {} => "writer" \in writers
      BY <2>2 DEF PipeInv
    <3> QED
      BY <2>1, <2>2, <3>3, <3>4 DEF PipeInv
  <2>3. CASE program # "named_pipe"
    BY <1>8, <2>1, <2>3 DEF PipeInv
  <2> QED
    BY <2>2, <2>3
<1>9. ASSUME Open("writer"), program \in Piping PROVE PipeInv'
  <2>1. /\ WriterCall = "open" /\ step' \in [Process -> Calls]
        /\ UNCHANGED <<bytes, offset, sent, printed>>
    BY <1>0, <1>9 DEF Open, WriterCall, Ready, Calls
  <2>2. CASE program = "named_pipe"
    <3>1. /\ WriterCall' = "type"
          /\ ReaderCall' = IF ReaderCall = "opening" THEN "read" ELSE ReaderCall
          /\ writers' = writers \cup {"writer"}
          /\ ReaderCall' = "read" /\ ReaderCall # "read" => "reader" \in readers'
          /\ readers \subseteq readers'
      BY <1>0, <1>9, <2>2 DEF Open, Meets, Waits, Ready, ReaderCall, WriterCall
    <3> QED
      BY <2>1, <2>2, <3>1 DEF PipeInv
  <2>3. CASE program # "named_pipe"
    BY <1>9, <2>1, <2>3 DEF PipeInv
  <2> QED
    BY <2>2, <2>3
<1>10. ASSUME Type, program \in Piping PROVE PipeInv'
  <2>1. /\ WriterCall = "type" /\ ReaderCall' = ReaderCall /\ step' \in [Process -> Calls]
        /\ WriterCall' = IF program = "unnamed_pipe" THEN "close" ELSE "write"
        /\ UNCHANGED <<readers, writers, bytes, offset, sent, printed>>
    BY <1>0, <1>10 DEF Type, ReaderCall, WriterCall, Calls
  <2> QED
    BY <1>10, <2>1 DEF PipeInv
<1>11. ASSUME Put, program \in Piping PROVE PipeInv'
  <2>1. Message \in Nat \ {0} /\ Buffer \in Nat \ {0}
    BY PipeSizes
  <2>2. bytes' = bytes + (IF program = "name_pipe" THEN Message ELSE Buffer)
    BY <1>11 DEF Put
  <2>3. bytes' \in Nat /\ bytes' > 0
    BY <1>0, <2>1, <2>2
  <2>4. /\ WriterCall = "write" /\ ReaderCall' = ReaderCall /\ step' \in [Process -> Calls]
        /\ WriterCall' = IF program = "name_pipe" THEN "write" ELSE "exit"
        /\ UNCHANGED <<readers, writers, offset, printed>>
    BY <1>0, <1>11 DEF Put, ReaderCall, WriterCall, Calls
  <2> QED
    BY <1>11, <2>3, <2>4 DEF PipeInv
<1>12. ASSUME GetBytes, program \in Piping PROVE PipeInv'
  <2>1. bytes' \in Nat
    BY <1>0, <1>12, TakesLess DEF GetBytes
  <2>2. /\ ReaderCall = "read" /\ WriterCall' = WriterCall /\ step' \in [Process -> Calls]
        /\ ReaderCall' = IF program = "name_pipe" THEN "read" ELSE "exit"
        /\ UNCHANGED <<readers, writers, sent>>
    BY <1>0, <1>12 DEF GetBytes, ReaderCall, WriterCall, Calls
  <2>3. program # "name_pipe" => offset' = 0 /\ (offset = 0 => printed' = "whole")
    BY <1>12 DEF GetBytes
  <2> QED
    BY <1>12, <2>1, <2>2, <2>3 DEF PipeInv
<1>13. ASSUME EndOfPipe, program \in Piping PROVE PipeInv'
  <2>1. /\ ReaderCall = "read" /\ WriterCall' = WriterCall /\ step' \in [Process -> Calls]
        /\ ReaderCall' = IF program = "name_pipe" THEN "read" ELSE "exit"
        /\ UNCHANGED <<readers, writers, bytes, offset, sent>>
        /\ printed' = "stale" /\ bytes = 0 /\ writers = {}
    BY <1>0, <1>13 DEF EndOfPipe, ReaderCall, WriterCall, Calls
  <2>2. program \in {"unnamed_pipe", "named_pipe"} => ~sent /\ WriterCall \in {"none", "gone"}
    BY <2>1 DEF PipeInv
  <2> QED
    BY <1>13, <2>1, <2>2 DEF PipeInv
<1>14. ASSUME NEW p \in Process, Ended(p), step[p] # "none", program \in Piping PROVE PipeInv'
  BY <1>0, <1>2, <1>3, <1>14
<1>15. ASSUME FifoExists \/ OpenFails("reader") \/ OpenFails("writer") \/ NobodyReads
              \/ Leave("reader") \/ Leave("writer") \/ \E p \in Process : Kill(p), program \in Piping
       PROVE  PipeInv'
  BY <1>0, <1>14, <1>15 DEF FifoExists, OpenFails, NobodyReads, Leave, Kill
<1> QED
  BY <1>1, <1>4, <1>5, <1>6, <1>7, <1>8, <1>9, <1>10, <1>11, <1>12, <1>13, <1>15
  DEF PipeNext, Reads, Writes

\* For every size of buffer, message and pipe: no reader of the programs that fork
\* prints a buffer that was not written, while somebody has written or will.
THEOREM BuffersPrinted == ProgramsSpec => []StaleOnlyUnsent
<1>1. PipeInv => StaleOnlyUnsent
  BY DEF PipeInv, StaleOnlyUnsent, WriterCall, Piping
<1> QED
  BY <1>1, PipesStart, PipeGoesOn, StepsApart, PTL DEF ProgramsSpec
----------------------------------------------------------------------------
(* WeatherStation *)

\* A set of numbers that is not empty has a least one.
LEMMA LeastNumber ==
    ASSUME NEW S \in SUBSET Nat, S # {}
    PROVE  \E m \in S : \A n \in S : m <= n
<1>1. PICK m \in S : \A n \in S : ~(<<n, m>> \in OpToRel(<, Nat))
  BY NatLessThanWellFounded, WFMin, Zenon
<1>2. ASSUME NEW n \in S PROVE m <= n
  <2>1. m \in Nat /\ n \in Nat
    OBVIOUS
  <2>2. n < m => <<n, m>> \in OpToRel(<, Nat)
    BY <2>1 DEF OpToRel
  <2>3. ~(n < m)
    BY <1>1, <2>2
  <2> QED
    BY <2>1, <2>3
<1> QED
  BY <1>2

\* What holds of 0 and goes from each number to the next holds of all.
LEMMA CountUp ==
    ASSUME NEW S, 0 \in S, \A n \in Nat : n \in S => n + 1 \in S
    PROVE  Nat \subseteq S
<1> SUFFICES ASSUME Nat \ S # {} PROVE FALSE
  OBVIOUS
<1>1. PICK m \in Nat \ S : \A n \in Nat \ S : m <= n
  BY LeastNumber
<1>2. m # 0 /\ m - 1 \in Nat
  BY <1>1
<1>3. m - 1 \in S
  BY <1>1, <1>2
<1>4. m - 1 + 1 = m
  BY <1>1
<1> QED
  BY <1>1, <1>2, <1>3, <1>4

\* The loop passes over each place once, and knows there whether it has just erased.
LEMMA ErasedDecided ==
    ASSUME NEW s \in Seq(Observer), NEW o
    PROVE  /\ Erased(s, o) \subseteq DOMAIN s
           /\ \A n \in DOMAIN s : n \in Erased(s, o) <=> s[n] = o /\ n - 1 \notin Erased(s, o)
<1> DEFINE UpTo(k, erased) ==
              \A n \in 1..k : n \in erased <=> s[n] = o /\ n - 1 \notin erased
           Decided == {k \in Nat : \E erased \in SUBSET (1..k) : UpTo(k, erased)}
<1>1. 0 \in Decided
  <2>1. {} \in SUBSET (1..0) /\ UpTo(0, {})
    OBVIOUS
  <2> QED
    BY <2>1
<1>2. ASSUME NEW k \in Nat, k \in Decided PROVE k + 1 \in Decided
  <2>1. PICK erased \in SUBSET (1..k) : UpTo(k, erased)
    BY <1>2
  <2>2. k + 1 \notin erased /\ \A n \in 1..(k + 1) : n \in 1..k \/ n = k + 1
    OBVIOUS
  <2>3. CASE s[k + 1] = o /\ k \notin erased
    <3>1. erased \cup {k + 1} \in SUBSET (1..(k + 1))
      OBVIOUS
    <3>2. \A n \in 1..k : /\ n \in erased \cup {k + 1} <=> n \in erased
                          /\ n - 1 \in erased \cup {k + 1} <=> n - 1 \in erased
      OBVIOUS
    <3>3. k + 1 - 1 = k /\ k \notin erased \cup {k + 1}
      BY <2>3
    <3>4. UpTo(k + 1, erased \cup {k + 1})
      BY <2>1, <2>2, <2>3, <3>2, <3>3
    <3>5. k + 1 \in Nat
      OBVIOUS
    <3> HIDE DEF UpTo
    <3> QED
      BY <3>1, <3>4, <3>5
  <2>4. CASE ~(s[k + 1] = o /\ k \notin erased)
    <3>1. erased \in SUBSET (1..(k + 1)) /\ k + 1 - 1 = k
      OBVIOUS
    <3>2. UpTo(k + 1, erased)
      BY <2>1, <2>2, <2>4, <3>1
    <3> QED
      BY <3>1, <3>2
  <2> QED
    BY <2>3, <2>4
<1>3. Len(s) \in Nat /\ DOMAIN s = 1..Len(s)
  OBVIOUS
<1>4. Len(s) \in Decided
  <2> HIDE DEF Decided
  <2> QED
    BY <1>1, <1>2, <1>3, CountUp
<1>5. \E erased \in SUBSET DOMAIN s :
          \A n \in DOMAIN s : n \in erased <=> s[n] = o /\ n - 1 \notin erased
  BY <1>3, <1>4
<1> QED
  BY <1>5, Zenon DEF Erased

\* The numbers of a finite set can be listed in their order.
LEMMA ListedInOrder ==
    ASSUME NEW k \in Nat, NEW R \in SUBSET (1..k)
    PROVE  \E f \in [1..Cardinality(R) -> R] : Increasing(f)
<1> DEFINE Listed == {n \in Nat : \A S \in SUBSET (1..n) :
                                      \E f \in [1..Cardinality(S) -> S] : Increasing(f)}
<1>1. 0 \in Listed
  <2> SUFFICES ASSUME NEW S \in SUBSET (1..0)
               PROVE  \E f \in [1..Cardinality(S) -> S] : Increasing(f)
    OBVIOUS
  <2>0. S = {}
    OBVIOUS
  <2>1. Cardinality(S) = 0
    BY <2>0, FS_EmptySet
  <2>2. <<>> \in [1..0 -> S] /\ Increasing(<<>>)
    BY DEF Increasing
  <2> QED
    BY <2>0, <2>1, <2>2
<1>2. ASSUME NEW n \in Nat, n \in Listed PROVE n + 1 \in Listed
  <2> SUFFICES ASSUME NEW S \in SUBSET (1..(n + 1))
               PROVE  \E f \in [1..Cardinality(S) -> S] : Increasing(f)
    OBVIOUS
  <2>1. CASE n + 1 \notin S
    <3>1. S \in SUBSET (1..n)
      BY <2>1
    <3> QED
      BY <1>2, <3>1
  <2>2. CASE n + 1 \in S
    <3> DEFINE T == S \ {n + 1}
               c == Cardinality(T)
    <3>1. T \in SUBSET (1..n)
      OBVIOUS
    <3>2. PICK f \in [1..c -> T] : Increasing(f)
      BY <1>2, <3>1
    <3>3. IsFiniteSet(T) /\ c \in Nat
      <4>1. IsFiniteSet(1..n)
        BY FS_Interval
      <4> HIDE DEF T
      <4>2. IsFiniteSet(T)
        BY <3>1, <4>1, FS_Subset
      <4> QED
        BY <4>2, FS_CardinalityType
    <3>4. Cardinality(S) = c + 1
      <4>1. S = T \cup {n + 1} /\ n + 1 \notin T
        BY <2>2
      <4> HIDE DEF T
      <4> QED
        BY <3>3, <4>1, FS_AddElement
    <3> HIDE DEF c, T
    <3> DEFINE g == [j \in 1..(c + 1) |-> IF j = c + 1 THEN n + 1 ELSE f[j]]
    <3>5. g \in [1..(c + 1) -> S]
      <4>1. T \subseteq S
        BY DEF T
      <4>2. \A j \in 1..(c + 1) : j # c + 1 => j \in 1..c
        BY <3>3
      <4> QED
        BY <2>2, <4>1, <4>2
    <3>6. ASSUME NEW p \in 1..(c + 1), NEW j \in 1..(c + 1), p < j PROVE g[p] < g[j]
      <4>1. p \in 1..c /\ g[p] = f[p] /\ f[p] \in 1..n
        <5>1. p \in 1..c /\ p # c + 1
          BY <3>3, <3>6
        <5>2. f[p] \in T
          BY <3>2, <5>1
        <5> QED
          BY <3>1, <5>1, <5>2
      <4>2. CASE j = c + 1
        BY <4>1, <4>2
      <4>3. CASE j \in 1..c
        <5>1. g[j] = f[j]
          BY <3>3, <4>3
        <5> QED
          BY <3>2, <3>6, <4>1, <4>3, <5>1 DEF Increasing
      <4> QED
        BY <3>3, <4>2, <4>3
    <3>7. DOMAIN g = 1..(c + 1)
      OBVIOUS
    <3> HIDE DEF g
    <3>8. Increasing(g)
      BY <3>6, <3>7 DEF Increasing
    <3> QED
      BY <3>4, <3>5, <3>8
  <2> QED
    BY <2>1, <2>2
<1> HIDE DEF Listed
<1>3. k \in Listed
  BY <1>1, <1>2, CountUp
<1> QED
  BY <1>3 DEF Listed

\* What erase() leaves: the entries of all other places, in their order.
LEMMA OthersKept ==
    ASSUME NEW s \in Seq(Observer), NEW places
    PROVE  \E from \in [DOMAIN Without(s, places) -> DOMAIN s] :
              /\ Increasing(from)
              /\ \A n \in DOMAIN Without(s, places) : Without(s, places)[n] = s[from[n]]
              /\ Range(from) = DOMAIN s \ places
              /\ Without(s, places) \in Seq(Observer)
              /\ Len(Without(s, places)) <= Len(s)
<1> DEFINE rest == DOMAIN s \ places
           kept == CHOOSE f \in [1..Cardinality(rest) -> rest] : Increasing(f)
           c == Cardinality(rest)
<1>1. Len(s) \in Nat /\ DOMAIN s = 1..Len(s) /\ rest \in SUBSET (1..Len(s))
  OBVIOUS
<1>a. \A n \in rest : n \in Nat /\ n \in 1..Len(s)
  BY <1>1
<1>2. IsFiniteSet(rest) /\ c \in Nat /\ c <= Len(s)
  <2>1. ASSUME NEW n \in Nat, NEW R \in SUBSET (1..n)
        PROVE  IsFiniteSet(R) /\ Cardinality(R) \in Nat /\ Cardinality(R) <= n
    <3>1. IsFiniteSet(1..n) /\ Cardinality(1..n) = n
      BY FS_Interval
    <3> QED
      BY <3>1, FS_Subset, FS_CardinalityType
  <2> HIDE DEF rest
  <2> QED
    BY <1>1, <2>1
<1> HIDE DEF rest
<1>3. kept \in [1..c -> rest] /\ Increasing(kept)
  BY <1>1, ListedInOrder, Zenon
<1>4. Without(s, places) = [n \in DOMAIN kept |-> s[kept[n]]]
  BY DEF Without, rest
<1> HIDE DEF kept, c
<1>5. Range(kept) = rest
  <2>1. ASSUME NEW p \in 1..c, NEW j \in 1..c, kept[p] = kept[j] PROVE p = j
    <3>1. kept[p] \in Nat /\ kept[j] \in Nat
      <4>1. kept[p] \in rest /\ kept[j] \in rest
        BY <1>3
      <4> QED
        BY <1>a, <4>1
    <3>2. DOMAIN kept = 1..c
      BY <1>3
    <3>3. p < j => kept[p] < kept[j]
      BY <1>3, <3>2 DEF Increasing
    <3>4. j < p => kept[j] < kept[p]
      BY <1>3, <3>2 DEF Increasing
    <3> QED
      BY <2>1, <3>1, <3>3, <3>4
  <2>2. kept \in Injection(1..c, rest)
    BY <1>3, <2>1 DEF Injection, IsInjective
  <2>3. Cardinality(1..c) = Cardinality(rest)
    BY <1>2, FS_Interval DEF c
  <2>4. kept \in Surjection(1..c, rest)
    BY <1>2, <2>2, <2>3, FS_Injection
  <2> QED
    BY <1>3, <2>4 DEF Surjection, Range
<1>6. Without(s, places) \in [1..c -> Observer]
  <2>1. DOMAIN kept = 1..c
    BY <1>3
  <2>2. ASSUME NEW n \in 1..c PROVE s[kept[n]] \in Observer
    <3>1. kept[n] \in rest
      BY <1>3
    <3>2. kept[n] \in 1..Len(s)
      BY <1>1, <3>1
    <3> QED
      BY <3>2
  <2> QED
    BY <1>4, <2>1, <2>2
<1>7. Without(s, places) \in Seq(Observer) /\ Len(Without(s, places)) = c
  BY <1>2, <1>6
<1>8. kept \in [DOMAIN Without(s, places) -> DOMAIN s]
  BY <1>1, <1>3, <1>4
<1>9. \A n \in DOMAIN Without(s, places) : Without(s, places)[n] = s[kept[n]]
  BY <1>4
<1> QED
  BY <1>2, <1>3, <1>5, <1>7, <1>8, <1>9 DEF rest

\* No call of main leaves the types: what is left by erase() is not longer.
LEMMA StationGoesOn == StationTypeOK /\ [StationNext]_stationVars => StationTypeOK'
<1> SUFFICES ASSUME StationTypeOK, [StationNext]_stationVars PROVE StationTypeOK'
  OBVIOUS
<1>1. ASSUME NEW o \in Observer, AddObserver(o) PROVE StationTypeOK'
  <2>1. /\ observers \in Seq(Observer) /\ Len(observers) < MaxEntries
        /\ observers' = Append(observers, o) /\ UNCHANGED <<weather, display>>
    BY <1>1 DEF AddObserver, StationTypeOK
  <2>2. observers' \in Seq(Observer) /\ Len(observers') = Len(observers) + 1 /\ Len(observers) \in Nat
    BY <2>1, AppendProperties
  <2> QED
    BY <2>1, <2>2, StationBound DEF StationTypeOK
<1>2. ASSUME NEW o \in Observer, RemoveObserver(o) PROVE StationTypeOK'
  <2>1. /\ observers \in Seq(Observer) /\ Len(observers) <= MaxEntries
        /\ observers' = Without(observers, Erased(observers, o)) /\ UNCHANGED <<weather, display>>
    BY <1>2 DEF RemoveObserver, StationTypeOK
  <2>2. observers' \in Seq(Observer) /\ Len(observers') <= Len(observers)
    BY <2>1, OthersKept
  <2>3. Len(observers') \in Nat /\ Len(observers) \in Nat
    BY <2>1, <2>2
  <2> QED
    BY <2>1, <2>2, <2>3, StationBound DEF StationTypeOK
<1>3. ASSUME NEW w \in Weather, SetWeatherData(w) PROVE StationTypeOK'
  BY <1>3 DEF SetWeatherData, StationTypeOK
<1>4. CASE UNCHANGED stationVars
  BY <1>4 DEF stationVars, StationTypeOK
<1> QED
  BY <1>1, <1>2, <1>3, <1>4 DEF StationNext

\* The vector is one of observers, not longer than its bound.
LEMMA StationTyped == ProgramsSpec => []StationTypeOK
<1>1. ProgramsInit => StationTypeOK
  BY StationBound DEF ProgramsInit, StationInit, StationTypeOK
<1> QED
  BY <1>1, StationGoesOn, StepsApart, PTL DEF ProgramsSpec

\* For any number of observers, however often and in whatever order they were added:
\* the loop of removeObserver disturbs none of the others, and it misses an entry of its
\* own exactly when two of them are neighbours.
THEOREM RemovedAndKept == ProgramsSpec => RemovalComplete
<1>1. ASSUME StationTypeOK, NEW o \in Observer, RemoveObserver(o)
      PROVE  OthersInOrder(o) /\ (Contains(observers', o) <=> SideBySide(o))
  <2> DEFINE erased == Erased(observers, o)
  <2>1. observers \in Seq(Observer) /\ observers' = Without(observers, erased)
    BY <1>1 DEF RemoveObserver, StationTypeOK
  <2>2. \A n \in DOMAIN observers : n \in erased <=> observers[n] = o /\ n - 1 \notin erased
    BY <2>1, ErasedDecided
  <2>3. erased \subseteq DOMAIN observers
    BY <2>1, ErasedDecided
  <2> HIDE DEF erased
  <2>4. PICK from \in [DOMAIN observers' -> DOMAIN observers] :
              /\ Increasing(from)
              /\ \A n \in DOMAIN observers' : observers'[n] = observers[from[n]]
              /\ Range(from) = DOMAIN observers \ erased
              /\ observers' \in Seq(Observer)
    <3>1. \E from \in [DOMAIN Without(observers, erased) -> DOMAIN observers] :
              /\ Increasing(from)
              /\ \A n \in DOMAIN Without(observers, erased) :
                    Without(observers, erased)[n] = observers[from[n]]
              /\ Range(from) = DOMAIN observers \ erased
              /\ Without(observers, erased) \in Seq(Observer)
      BY <2>1, OthersKept
    <3> QED
      BY <2>1, <3>1
  <2>5. ASSUME NEW m \in DOMAIN observers, observers[m] # o PROVE m \in Range(from)
    BY <2>2, <2>4, <2>5
  <2>6. ASSUME Contains(observers', o)
        PROVE  SideBySide(o)
    <3>1. PICK n \in 1..Len(observers') : observers'[n] = o
      BY <2>6 DEF Contains
    <3>2. n \in DOMAIN observers' /\ DOMAIN observers = 1..Len(observers) /\ Len(observers) \in Nat
      BY <2>1, <2>4
    <3> DEFINE m == from[n]
    <3>3. m \in DOMAIN observers \ erased /\ observers[m] = o
      BY <2>4, <3>1, <3>2 DEF Range
    <3>4. m - 1 \in erased
      BY <2>2, <3>3
    <3>5. m - 1 \in 1..Len(observers) /\ m \in 1..Len(observers)
      BY <2>3, <3>2, <3>3, <3>4
    <3> HIDE DEF m
    <3>6. m \in 2..Len(observers)
      BY <3>2, <3>5
    <3>7. observers[m - 1] = o
      BY <2>2, <3>2, <3>4, <3>5
    <3> QED
      BY <3>3, <3>6, <3>7 DEF SideBySide
  <2>8. ASSUME SideBySide(o)
        PROVE  Contains(observers', o)
    <3>1. PICK n \in 2..Len(observers) : observers[n] = o /\ observers[n - 1] = o
      BY <2>8 DEF SideBySide
    <3>2. Len(observers) \in Nat /\ DOMAIN observers = 1..Len(observers)
      BY <2>1
    <3>3. n \in DOMAIN observers /\ n - 1 \in DOMAIN observers
      BY <3>1, <3>2
    <3>4. PICK m \in DOMAIN observers : observers[m] = o /\ m \notin erased
      BY <2>2, <3>1, <3>3
    <3>5. PICK k \in DOMAIN observers' : from[k] = m
      BY <2>4, <3>4 DEF Range
    <3>6. observers'[k] = o /\ k \in 1..Len(observers')
      BY <2>4, <3>4, <3>5
    <3> QED
      BY <3>6 DEF Contains
  <2>7. OthersInOrder(o)
    BY <2>4, <2>5 DEF OthersInOrder
  <2> QED
    BY <2>6, <2>7, <2>8
<1>2. StationTypeOK /\ [ProgramsNext]_allVars =>
          [\A o \in Observer : RemoveObserver(o) =>
              OthersInOrder(o) /\ (Contains(observers', o) <=> SideBySide(o))]_stationVars
  BY <1>1, Zenon
<1> QED
  BY <1>2, StationTyped, PTL DEF ProgramsSpec, RemovalComplete

----------------------------------------------------------------------------
(* Types *)

\* task2 has counted its last once i is Goal: it is at its loop or past it.
BatchTypes == TypeOK /\ (pc[2] \in {"unlock", "signal"} => i < Goal)

\* The flag, the counts and the calls of the two tasks are well typed.
LEMMA BatchTyped == ProgramsSpec => []TypeOK
<1> USE Sizes DEF BatchTypes, TypeOK, GoTo
<1>1. ProgramsInit => BatchTypes
  BY DEF ProgramsInit, Init
<1>2. BatchTypes /\ [Next]_batchVars => BatchTypes'
  <2> SUFFICES ASSUME BatchTypes, [Next]_batchVars PROVE BatchTypes'
    OBVIOUS
  <2>1. CASE Running \/ Lock \/ Wait \/ Unlock \/ SpuriousWakeup
    BY <2>1 DEF Running, Lock, Wait, Unlock, SpuriousWakeup, Acquire, Release
  <2>2. CASE Take
    BY <2>2 DEF Take
  <2>3. CASE Count \/ Unlock2
    BY <2>3 DEF Count, Unlock2, Acquire, Release
  <2>4. CASE Signal
    BY <2>4 DEF Signal, Woken
  <2>5. CASE Stop \/ Return2
    BY <2>5 DEF Stop, Return2
  <2>7. CASE LastSignal
    BY <2>7 DEF LastSignal, Woken
  <2>6. CASE UNCHANGED batchVars
    BY <2>6 DEF batchVars
  <2> QED
    BY <2>1, <2>2, <2>3, <2>4, <2>5, <2>6, <2>7 DEF Next, Task1, Task2
<1>3. BatchTypes => TypeOK
  BY DEF BatchTypes
<1> QED
  BY <1>1, <1>2, <1>3, StepsApart, PTL DEF ProgramsSpec

\* The rest of what ForkTypes says of the server, and the clients.
ForkRest ==
    /\ ForkTypes
    /\ server \in {"listen", "accept", "fork", "close", "sleep", "failed"}
    /\ serving = {} \/ \E k \in Client : serving = {k}
    /\ client \in [Client -> {"away", "connected", "sent", "left"}]
    /\ queue \subseteq Client /\ answered \subseteq Client /\ refused \subseteq Client

\* So are the processes of the forking server and its clients; it serves one at most.
LEMMA ServerTyped == ProgramsSpec => []ForkTypeOK
<1>1. ProgramsInit => ForkRest
  BY ForkStarts DEF ProgramsInit, ForkInit, ForkInv, ForkRest
<1>2. ForkRest /\ [ForkNext]_forkVars => ForkRest'
  <2> SUFFICES ASSUME ForkRest, [ForkNext]_forkVars, ForkTypes' PROVE ForkRest'
    BY ForkTyped DEF ForkRest
  <2> USE DEF ForkRest, processVars, clientVars, Ends
  <2>1. CASE Listen \/ ListenFails \/ SleeperFails \/ Deliver \/ Return
    BY <2>1 DEF Listen, ListenFails, SleeperFails, Deliver, Return
  <2>2. ASSUME NEW k \in Client, Accept(k) \/ AcceptFails(k) PROVE ForkRest'
    BY <2>2 DEF Accept, AcceptFails
  <2>3. ASSUME NEW k \in Client, Fork(k) \/ ForkFails(k) \/ CloseClient(k) PROVE ForkRest'
    BY <2>3 DEF Fork, ForkFails, CloseClient
  <2>4. ASSUME NEW k \in Client, Connect(k) \/ Request(k) \/ HangUp(k) PROVE ForkRest'
    BY <2>4 DEF Connect, Request, HangUp
  <2>5. ASSUME NEW k \in Client, CloseListener(k) \/ Read(k) \/ Write(k) PROVE ForkRest'
    BY <2>5 DEF CloseListener, Read, Write
  <2>6. ASSUME NEW k \in Client, ReadError(k) \/ BrokenPipe(k) \/ Exit(k) PROVE ForkRest'
    BY <2>6 DEF ReadError, BrokenPipe, Exit
  <2>7. ASSUME NEW k \in Client, Reap(k) \/ ForkSleeper(k) \/ SleeperEnds(k) PROVE ForkRest'
    BY <2>7 DEF Reap, ForkSleeper, SleeperEnds
  <2>8. CASE UNCHANGED forkVars
    BY <2>8 DEF forkVars
  <2> QED
    BY <2>1, <2>2, <2>3, <2>4, <2>5, <2>6, <2>7, <2>8
    DEF ForkNext, HttpNext, ZombieNext, Serve, Handler, HandleClient
<1>3. ForkRest => ForkTypeOK
  <2>1. \A k \in Client : IsFiniteSet({k}) /\ Cardinality({k}) = 1
    BY FS_Singleton
  <2>2. Cardinality({}) = 0
    BY FS_EmptySet
  <2>3. ForkRest => Cardinality(serving) <= 1
    BY <2>1, <2>2 DEF ForkRest
  <2> QED
    BY <2>3 DEF ForkRest, ForkTypes, ForkTypeOK
<1> QED
  BY <1>1, <1>2, <1>3, StepsApart, PTL DEF ProgramsSpec

\* The threads of a singleton program: an address is a count of constructions.
LEMMA SingletonsTyped == ProgramsSpec => []SingletonTypeOK
<1> DEFINE Types == SingletonInv /\ got \in [Thread -> Nat]
<1>1. ProgramsInit => Types
  BY DEF ProgramsInit, SingletonInit, SingletonInv
<1>2. Types /\ [SingletonNext]_singletonVars => Types'
  <2> SUFFICES ASSUME Types, [SingletonNext]_singletonVars, SingletonInv' PROVE got' \in [Thread -> Nat]
    BY SingletonGoesOn
  <2>1. ASSUME NEW t \in Thread, ReturnInstance(t) PROVE got' \in [Thread -> Nat]
    <3>1. Seen(t) \in Nat
      BY DEF Seen, SingletonInv
    <3> QED
      BY <2>1, <3>1 DEF ReturnInstance
  <2>2. CASE UNCHANGED got
    BY <2>2
  <2> QED
    BY <2>1, <2>2
    DEF SingletonNext, Get, Drain, Test, LockGuard, Retest, New, UnlockGuard, singletonVars
<1>3. Types => SingletonTypeOK
  BY DEF SingletonInv, SingletonTypeOK
<1> QED
  BY <1>1, <1>2, <1>3, StepsApart, PTL DEF ProgramsSpec

\* An element is multiplied at most once, and main's turn does not run past its threads.
LEMMA ThreadsTyped == ProgramsSpec => []ThreadTypeOK
<1> DEFINE Types == /\ ThreadInv
                    /\ a \in [Worker -> [1..Slice -> 0..1]]
                    /\ result \in [Worker -> {"unset", "string"}]
<1>1. ProgramsInit => Types
  BY ThreadStarts DEF ProgramsInit, ThreadInit
<1>2. Types /\ UNCHANGED program /\ [ThreadNext]_threadVars => Types'
  <2> SUFFICES ASSUME Types, UNCHANGED program, [ThreadNext]_threadVars, ThreadInv'
               PROVE  /\ a' \in [Worker -> [1..Slice -> 0..1]]
                      /\ result' \in [Worker -> {"unset", "string"}]
    BY ThreadGoesOn
  <2>1. CASE Join
    <3>1. a' = a
      BY <2>1 DEF Join
    <3>2. result' = [result EXCEPT ![turn] =
                        IF program = "pthread_exit_retval" THEN "string" ELSE result[turn]]
      BY <2>1 DEF Join
    <3>3. result' \in [Worker -> {"unset", "string"}]
      BY <3>2
    <3> QED
      BY <3>1, <3>3
  <2>2. ASSUME NEW t \in Worker, Multiply(t)
        PROVE  /\ a' \in [Worker -> [1..Slice -> 0..1]]
               /\ result' \in [Worker -> {"unset", "string"}]
    <3>1. result' = result /\ program' = "pthread_join"
      BY <2>2 DEF Multiply
    <3>2. a' \in [Worker -> [1..Slice -> Nat]]
      BY DEF ThreadInv
    <3>3. \A u \in Worker : \A e \in 1..Slice : a'[u][e] \in 0..1
      BY <3>1 DEF ThreadInv, Working
    <3> QED
      BY <3>1, <3>2, <3>3
  <2>3. CASE UNCHANGED <<a, result>>
    BY <2>3
  <2> QED
    BY <2>1, <2>2, <2>3
    DEF ThreadNext, Create, JoinNobody, ShowResults, Task, LockMutex, PrintLine, UnlockMutex,
        ThreadReturns, threadVars
<1>3. Types => ThreadTypeOK
  <2> SUFFICES ASSUME Types PROVE ThreadTypeOK
    OBVIOUS
  <2>1. turn \in 1..Workers + 1
    BY ThreadCounts DEF ThreadInv
  <2> QED
    BY <2>1 DEF ThreadInv, ThreadTypeOK
<1> QED
  BY <1>1, <1>2, <1>3, StepsApart, PTL DEF ProgramsSpec

\* The pool's list and its users hold blocks and null pointers only.
LEMMA PoolTyped == ProgramsSpec => []PoolTypeOK
<1>1. PoolInv => PoolTypeOK
  BY DEF PoolInv
<1> QED
  BY <1>1, PoolStarts, PoolGoesOn, StepsApart, PTL DEF ProgramsSpec

\* What PipeInv leaves out: nobody but the two processes has the pipe, which never
\* holds more than it can, and a reader is in the middle of a message at most.
PipeRest ==
    /\ fifo \in BOOLEAN /\ sent \in BOOLEAN
    /\ readers \subseteq Process /\ writers \subseteq Process
    /\ bytes <= Capacity /\ offset \in 0..Message - 1
    /\ printed \in {"nothing", "whole", "rest", "stale"}

\* The pipe programs: no read takes what is not there, no write puts what does not fit.
LEMMA PipesTyped == ProgramsSpec => []PipeTypeOK
<1> DEFINE Types == PipeInv /\ PipeRest
<1>1. Message \in Nat \ {0} /\ Buffer \in Nat \ {0} /\ Capacity \in Nat
  BY PipeSizes
<1>2. ProgramsInit => Types
  <2> SUFFICES ASSUME PipeInit PROVE PipeRest
    BY PipesStart DEF ProgramsInit
  <2>1. fifo \in BOOLEAN
    BY Zenon DEF PipeInit
  <2>2. sent = FALSE /\ readers = {} /\ writers = {} /\ bytes = 0 /\ offset = 0 /\ printed = "nothing"
    BY Zenon DEF PipeInit
  <2>3. bytes <= Capacity /\ offset \in 0..Message - 1
    BY <1>1, <2>2
  <2> QED
    BY <2>1, <2>2, <2>3, Zenon DEF PipeRest
<1>3. Types /\ UNCHANGED program /\ [PipeNext]_pipeVars => Types'
  <2> SUFFICES ASSUME PipeInv, PipeRest, [PipeNext]_pipeVars PROVE PipeRest'
    BY PipeGoesOn
  <2>0. bytes \in Nat /\ offset \in 0..Message - 1
    BY DEF PipeInv, PipeRest
  <2>1. ASSUME NEW p, Ended(p) PROVE PipeRest'
    BY <1>1, <2>0, <2>1 DEF Ended, PipeRest
  <2>2. CASE MakePipe \/ ForkWriter \/ NoWriter \/ Access \/ MkFifo \/ ForkReader \/ NoReader
    BY <2>2 DEF MakePipe, ForkWriter, NoWriter, Access, MkFifo, ForkReader, NoReader,
                PipeRest, Process
  <2>3. ASSUME NEW p \in Process, CloseUnused(p) PROVE PipeRest'
    BY <2>3 DEF CloseUnused, PipeRest
  <2>4. ASSUME NEW p \in Process, Open(p) PROVE PipeRest'
    <3>1. UNCHANGED <<fifo, bytes, offset, sent, printed>>
      BY <2>4 DEF Open
    <3>2. readers' \subseteq Process /\ writers' \subseteq Process
      BY <2>4 DEF Open, PipeRest, Process
    <3> QED
      BY <3>1, <3>2 DEF PipeRest
  <2>5. CASE Put
    BY <1>1, <2>0, <2>5 DEF Put, PipeRest
  <2>6. CASE GetBytes
    <3> DEFINE taken == Min({bytes, Buffer})
    <3>1. taken \in Nat /\ bytes - taken \in Nat
      BY <2>0, TakesLess
    <3>2. /\ bytes' = bytes - taken /\ UNCHANGED <<fifo, readers, writers, sent>>
          /\ offset' \in {(offset + taken) % Message, 0} /\ printed' \in {"whole", "rest"}
      BY <2>6 DEF GetBytes
    <3> HIDE DEF taken
    <3>3. bytes' <= Capacity
      BY <1>1, <2>0, <3>1, <3>2 DEF PipeRest
    <3>4. offset' \in 0..Message - 1
      <4>1. offset + taken \in Nat
        BY <1>1, <2>0, <3>1
      <4> QED
        BY <1>1, <3>2, <4>1
    <3> QED
      BY <3>2, <3>3, <3>4 DEF PipeRest
  <2>7. CASE EndOfPipe \/ Type
    BY <2>7 DEF EndOfPipe, Type, PipeRest
  <2>8. CASE UNCHANGED pipeVars
    BY <2>8 DEF pipeVars, PipeRest
  <2>9. CASE FifoExists \/ OpenFails("reader") \/ OpenFails("writer") \/ NobodyReads
              \/ Leave("reader") \/ Leave("writer") \/ \E p \in Process : Kill(p)
    BY <2>1, <2>9 DEF FifoExists, OpenFails, NobodyReads, Leave, Kill
  <2> QED
    BY <2>2, <2>3, <2>4, <2>5, <2>6, <2>7, <2>8, <2>9 DEF PipeNext, Reads, Writes, Process
<1>4. Types => PipeTypeOK
  BY <1>1 DEF PipeInv, PipeRest, PipeTypeOK
<1> QED
  BY <1>2, <1>3, <1>4, StepsApart, PTL DEF ProgramsSpec

\* What DatagramInv leaves out.
DatagramRest ==
    /\ sender \in {"socket", "ip", "getline", "recvfrom", "closed"}
    /\ Len(lines) <= MaxLines
    /\ receiver \in [Receiver -> {"socket", "recvfrom", "deaf", "failed"}]
    /\ text \in [Receiver -> [Byte -> 0..MaxLines]]
    /\ shown \in [Receiver -> Seq(1..MaxLines)]

\* A sequence of n times the same.
LEMMA OneEverywhere ==
    ASSUME NEW n \in Nat, NEW S, NEW e \in S
    PROVE  [b \in 1..n |-> e] \in Seq(S)
  OBVIOUS

\* The UDP programs: a buffer that is received into ends, and its line was sent.
LEMMA DatagramsTyped == ProgramsSpec => []DatagramTypeOK
<1> DEFINE Types == DatagramInv /\ DatagramRest
<1>1. MaxLines \in Nat /\ MaxLength \in Nat
  BY DatagramBounds
<1>2. ProgramsInit => Types
  <2> SUFFICES ASSUME DatagramInit PROVE DatagramInv /\ DatagramRest
    BY DEF ProgramsInit
  <2>1. DatagramInv
    BY DEF DatagramInit, DatagramInv, OneLine
  <2>2. DatagramRest
    BY <1>1 DEF DatagramInit, DatagramRest
  <2> QED
    BY <2>1, <2>2
<1>3. Types /\ [DatagramNext]_datagramVars => Types'
  <2> SUFFICES ASSUME DatagramInv, DatagramRest, [DatagramNext]_datagramVars PROVE DatagramRest'
    BY DatagramGoesOn
  <2>0. Len(lines) \in Nat
    BY LenProperties DEF DatagramInv
  <2>1. CASE OpenSender \/ EnterIp \/ TypeExit
    BY <2>1 DEF OpenSender, EnterIp, TypeExit, DatagramRest
  <2>2. ASSUME NEW r \in Receiver, OpenReceiver(r) PROVE DatagramRest'
    <3>1. PICK next \in {"recvfrom", "failed", "deaf"} : receiver' = [receiver EXCEPT ![r] = next]
      BY <2>2 DEF OpenReceiver
    <3> QED
      BY <2>2, <3>1 DEF OpenReceiver, DatagramRest
  <2>3. ASSUME NEW length \in 0..MaxLength, SendLine(length) \/ SendFails(length)
        PROVE  DatagramRest'
    <3>1. lines' = Append(lines, length) /\ Len(lines) < MaxLines
      BY <2>3 DEF SendLine, SendFails
    <3>2. Len(lines') = Len(lines) + 1
      BY <3>1, AppendProperties DEF DatagramInv
    <3>3. Len(lines') <= MaxLines
      BY <1>1, <2>0, <3>1, <3>2
    <3> QED
      BY <2>3, <3>3 DEF SendLine, SendFails, DatagramRest
  <2>4. ASSUME NEW d \in flying, Receive(d) PROVE DatagramRest'
    <3>1. d.to \in Receiver /\ d.line \in 1..Len(lines)
      BY DEF DatagramInv
    <3>2. d.line \in 1..MaxLines
      BY <1>1, <2>0, <3>1 DEF DatagramRest
    <3> DEFINE arrived == Filled(text[d.to], d.line)
    <3>3. arrived \in [Byte -> 0..MaxLines]
      <4>1. \A b \in Byte : (IF b <= lines[d.line] THEN d.line ELSE 0) \in 0..MaxLines
        BY <1>1, <3>2
      <4> HIDE DEF Byte
      <4> QED
        BY <4>1, Zenon DEF Filled
    <3>4. Printed(arrived) \in Seq(1..MaxLines)
      <4>1. Printed(arrived) = [b \in 1..lines[d.line] |-> d.line]
        BY <3>1, PrintsTheLine DEF DatagramInv
      <4>2. lines[d.line] \in Nat
        BY <1>1, <3>1, ElementOfSeq DEF DatagramInv
      <4> QED
        BY <3>2, <4>1, <4>2, OneEverywhere
    <3>5. text' = [text EXCEPT ![d.to] = arrived]
      BY <2>4 DEF Receive
    <3> HIDE DEF arrived
    <3>6. text' \in [Receiver -> [Byte -> 0..MaxLines]] /\ text'[d.to] = arrived
      BY <3>1, <3>3, <3>5 DEF DatagramRest
    <3>7. shown' = shown \/ shown' = [shown EXCEPT ![d.to] = Printed(text'[d.to])]
      BY <2>4 DEF Receive
    <3>8. shown' \in [Receiver -> Seq(1..MaxLines)]
      BY <3>1, <3>4, <3>6, <3>7 DEF DatagramRest
    <3> QED
      BY <2>4, <3>6, <3>8 DEF Receive, DatagramRest
  <2>5. CASE UNCHANGED datagramVars
    BY <2>5 DEF datagramVars, DatagramRest
  <2> QED
    BY <2>1, <2>2, <2>3, <2>4, <2>5 DEF DatagramNext
<1>4. Types => DatagramTypeOK
  BY DEF DatagramInv, DatagramRest, DatagramTypeOK
<1> QED
  BY <1>2, <1>3, <1>4, StepsApart, PTL DEF ProgramsSpec

\* What a recv() takes and what it leaves is from the stream, and fits into the buffer.
LEMMA PartsTyped ==
    ASSUME NEW S, NEW stream \in Seq(S)
    PROVE  /\ Taken(stream) \in Seq(S) /\ Len(Taken(stream)) <= Room
           /\ Left(stream) \in Seq(S)
<1>1. Room \in Nat /\ Len(stream) \in Nat
  BY EchoBounds
<1>2. CASE Len(stream) <= Room
  <2>1. <<>> \in Seq(S)
    OBVIOUS
  <2> QED
    BY <1>2, <2>1, AllTaken
<1>3. CASE Len(stream) > Room
  <2>1. Taken(stream) = [b \in 1..Room |-> stream[b]]
    BY <1>1, <1>3 DEF Taken
  <2>2. \A b \in 1..Room : stream[b] \in S
    BY <1>1, <1>3
  <2>3. Taken(stream) \in Seq(S) /\ Len(Taken(stream)) = Room
    BY <1>1, <2>1, <2>2
  <2>4. Left(stream) \in Seq(S)
    BY <1>1, <1>3, SubSeqProperties DEF Left
  <2> QED
    BY <1>1, <2>3, <2>4
<1> QED
  BY <1>1, <1>2, <1>3

\* What EchoTypes leaves out.
EchoRest ==
    /\ echo \in {"setup", "accept", "deaf", "failed", "aborted", "SIGPIPE", "crashed"}
    /\ backlog \subseteq EchoClient /\ client_fds \subseteq EchoClient
    /\ reset \subseteq EchoClient /\ smashed \subseteq EchoClient
    /\ IsFiniteSet(client_fds) /\ Cardinality(client_fds) <= MaxClients
    /\ \A k \in EchoClient : /\ Len(typed[k]) <= MaxWords
                            /\ Len(read_buf[k]) <= Room /\ Len(buf[k]) <= Room
    /\ read_buf \in [EchoClient -> Seq(0..MaxWords)] /\ buf \in [EchoClient -> Seq(0..MaxWords)]
    /\ up \in [EchoClient -> Seq(0..MaxWords)] /\ down \in [EchoClient -> Seq(0..MaxWords)]

\* The echo server: what flies is of words that were typed, what was received fits into
\* the buffers, and there are no more sockets than the server can have.
LEMMA EchoesTyped == ProgramsSpec => []EchoTypeOK
<1> DEFINE Types == EchoTypes /\ EchoRest
           Bytes == 0..MaxWords
<1>1. MaxClients \in Nat /\ MaxWords \in Nat /\ Room \in Nat /\ Prefix \in Nat
  BY EchoBounds
<1>2. ProgramsInit => Types
  <2> SUFFICES ASSUME EchoInit PROVE EchoTypes /\ EchoRest
    BY DEF ProgramsInit
  <2>1. IsFiniteSet({}) /\ Cardinality({}) = 0
    BY FS_EmptySet
  <2>2. \A S : <<>> \in Seq(S) /\ Len(<<>>) = 0
    OBVIOUS
  <2> QED
    BY <1>1, <2>1, <2>2 DEF EchoInit, EchoTypes, EchoRest
<1>3. Types /\ [EchoNext]_echoVars => Types'
  <2> SUFFICES ASSUME EchoTypes, EchoRest, [EchoNext]_echoVars PROVE EchoRest'
    BY EchoTyped
  <2>0. \A k \in EchoClient : /\ read_buf[k] \in Seq(Bytes) /\ buf[k] \in Seq(Bytes)
                             /\ up[k] \in Seq(Bytes) /\ down[k] \in Seq(Bytes)
    BY DEF EchoRest
  <2>1. CASE SetUp \/ AcceptError
    BY <2>1 DEF SetUp, AcceptError, EchoRest
  <2>2. ASSUME NEW k \in EchoClient, AcceptClient(k) PROVE EchoRest'
    <3>1. IsFiniteSet(client_fds) /\ Cardinality(client_fds) \in Nat
      BY FS_CardinalityType DEF EchoRest
    <3>2. /\ client_fds' = client_fds \cup {k} /\ Cardinality(client_fds) < MaxClients
          /\ UNCHANGED <<echo, read_buf, smashed, up, down, reset, typed, buf>>
          /\ backlog' = backlog \ {k}
      BY <2>2 DEF AcceptClient
    <3>3. IsFiniteSet(client_fds') /\ Cardinality(client_fds') <= Cardinality(client_fds) + 1
      <4> DEFINE more == client_fds \cup {k}
      <4>1. /\ IsFiniteSet(more)
            /\ Cardinality(more) = IF k \in client_fds THEN Cardinality(client_fds)
                                   ELSE Cardinality(client_fds) + 1
        BY <3>1, FS_AddElement
      <4> HIDE DEF more
      <4>2. Cardinality(more) <= Cardinality(client_fds) + 1
        BY <3>1, <4>1
      <4> QED
        BY <3>2, <4>1, <4>2 DEF more
    <3>4. Cardinality(client_fds') <= MaxClients
      BY <1>1, <3>1, <3>2, <3>3, FS_CardinalityType
    <3> QED
      BY <3>2, <3>3, <3>4 DEF EchoRest
  <2>3. ASSUME NEW k \in EchoClient, RecvWord(k) PROVE EchoRest'
    <3> DEFINE taken == Taken(up[k])
               left == Left(up[k])
    <3>1. taken \in Seq(Bytes) /\ Len(taken) <= Room /\ left \in Seq(Bytes)
      BY <2>0, PartsTyped
    <3>2. /\ UNCHANGED <<echo, backlog, client_fds, smashed, down, reset, typed, buf>>
          /\ read_buf' = [read_buf EXCEPT ![k] = taken] /\ up' = [up EXCEPT ![k] = left]
      BY <2>3 DEF RecvWord
    <3> HIDE DEF taken, left
    <3>3. /\ read_buf' \in [EchoClient -> Seq(Bytes)] /\ up' \in [EchoClient -> Seq(Bytes)]
          /\ \A s \in EchoClient : Len(read_buf'[s]) <= Room
      BY <3>1, <3>2 DEF EchoRest
    <3> QED
      BY <3>2, <3>3 DEF EchoRest
  <2>4. ASSUME NEW k \in EchoClient, RecvEnds(k) PROVE EchoRest'
    BY <2>4 DEF RecvEnds, EchoRest
  <2>5. ASSUME NEW k \in EchoClient, SendWord(k) PROVE EchoRest'
    <3> DEFINE longer == down[k] \o Answer(read_buf[k])
    <3>1. longer \in Seq(Bytes)
      <4>1. WordBytes(0, Prefix) \in Seq(Bytes)
        <5>1. 0 \in Bytes
          BY <1>1
        <5> HIDE DEF Bytes
        <5> QED
          BY <1>1, <5>1 DEF WordBytes
      <4>2. Answer(read_buf[k]) \in Seq(Bytes)
        BY <2>0, <4>1, ConcatProperties DEF Answer
      <4> QED
        BY <2>0, <4>2, ConcatProperties
    <3>2. /\ UNCHANGED <<backlog, client_fds, read_buf, up, typed, buf>>
          /\ echo' \in {echo, "SIGPIPE", "crashed"}
          /\ smashed' \subseteq smashed \cup {k} /\ reset' \subseteq reset \cup {k}
          /\ down' = down \/ down' = [down EXCEPT ![k] = longer]
      BY <2>5 DEF SendWord
    <3> HIDE DEF longer
    <3>3. down' \in [EchoClient -> Seq(Bytes)]
      BY <3>1, <3>2 DEF EchoRest
    <3> QED
      BY <3>2, <3>3 DEF EchoRest
  <2>6. ASSUME NEW k \in EchoClient, ConnectClient(k) \/ Leaves(k) PROVE EchoRest'
    BY <2>6 DEF ConnectClient, Leaves, serverVars, EchoRest
  <2>7. ASSUME NEW k \in EchoClient, Answered(k) PROVE EchoRest'
    <3> DEFINE taken == Taken(down[k])
               left == Left(down[k])
    <3>1. taken \in Seq(Bytes) /\ Len(taken) <= Room /\ left \in Seq(Bytes)
      BY <2>0, PartsTyped
    <3>2. /\ UNCHANGED <<echo, backlog, client_fds, smashed, read_buf, up, reset, typed>>
          /\ buf' = [buf EXCEPT ![k] = taken] /\ down' = [down EXCEPT ![k] = left]
      BY <2>7 DEF Answered, serverVars
    <3> HIDE DEF taken, left
    <3>3. /\ buf' \in [EchoClient -> Seq(Bytes)] /\ down' \in [EchoClient -> Seq(Bytes)]
          /\ \A s \in EchoClient : Len(buf'[s]) <= Room
      BY <3>1, <3>2 DEF EchoRest
    <3> QED
      BY <3>2, <3>3 DEF EchoRest
  <2>8. ASSUME NEW k \in EchoClient, SendTyped(k) PROVE EchoRest'
    <3>1. PICK len \in WordLength :
              /\ typed' = [typed EXCEPT ![k] = Append(@, len)]
              /\ up' = [up EXCEPT ![k] = @ \o WordBytes(Len(typed'[k]), len)]
      BY <2>8 DEF SendTyped
    <3>2. /\ Len(typed[k]) < MaxWords /\ typed[k] \in Seq(WordLength)
          /\ UNCHANGED <<serverVars, down, reset, buf>>
      BY <2>8 DEF SendTyped, EchoTypes
    <3>3. typed'[k] = Append(typed[k], len) /\ \A s \in EchoClient : s # k => typed'[s] = typed[s]
      BY <3>1 DEF EchoTypes
    <3>4. Len(typed'[k]) = Len(typed[k]) + 1 /\ Len(typed'[k]) \in Bytes /\ Len(typed'[k]) <= MaxWords
      BY <1>1, <3>2, <3>3
    <3>5. \A s \in EchoClient : Len(typed'[s]) <= MaxWords
      BY <3>3, <3>4 DEF EchoRest
    <3> DEFINE word == WordBytes(Len(typed'[k]), len)
    <3>6. word \in Seq(Bytes)
      <4>1. len \in Nat
        BY EchoBounds
      <4> HIDE DEF Bytes
      <4> QED
        BY <3>4, <4>1 DEF WordBytes
    <3>7. up' = [up EXCEPT ![k] = @ \o word]
      BY <3>1
    <3> HIDE DEF word
    <3>8. up[k] \o word \in Seq(Bytes)
      BY <2>0, <3>6, ConcatProperties
    <3>9. up' \in [EchoClient -> Seq(Bytes)]
      BY <3>7, <3>8 DEF EchoRest
    <3> QED
      BY <3>2, <3>5, <3>9 DEF serverVars, EchoRest
  <2>9. CASE UNCHANGED echoVars
    BY <2>9 DEF echoVars, serverVars, EchoRest
  <2> QED
    BY <2>1, <2>2, <2>3, <2>4, <2>5, <2>6, <2>7, <2>8, <2>9 DEF EchoNext, ClientHandler
<1>4. Types => EchoTypeOK
  BY DEF EchoTypes, EchoRest, EchoTypeOK
<1> QED
  BY <1>2, <1>3, <1>4, StepsApart, PTL DEF ProgramsSpec

\* What DaemonInv leaves out: the descriptors are of the four files.
DaemonRest ==
    /\ group \in [Generation -> Generation]
    /\ cwd \in [Generation -> {"anywhere", "/"}]
    /\ log_fd \in -1..MaxFd
    /\ \A q \in Generation : \A fd \in DOMAIN table[q] : table[q][fd] \in File

\* The daemon: every descriptor of its three processes is one of the four files.
LEMMA DaemonsTyped == ProgramsSpec => []DaemonTypeOK
<1> DEFINE Types == DaemonInv /\ DaemonRest
<1>1. MaxFd \in Nat /\ MaxFd > 3 /\ Generation = {0, 1, 2}
  BY DaemonBound, Generations
<1>2. DOMAIN <<>> = {}
  OBVIOUS
<1>3. ProgramsInit => Types
  <2> SUFFICES ASSUME DaemonInit PROVE DaemonRest
    BY DaemonStarts DEF ProgramsInit
  <2> QED
    BY <1>1, <1>2 DEF DaemonInit, DaemonRest
<1>4. Types /\ [DaemonNext]_daemonVars => Types'
  <2> SUFFICES ASSUME DaemonInv, DaemonRest, [DaemonNext]_daemonVars PROVE DaemonRest'
    BY DaemonGoesOn
  <2>0. DOMAIN table = {0, 1, 2} /\ {"/tmp/daemon.log", "/dev/null to read", "/dev/null to write"} \subseteq File
    BY <1>1 DEF DaemonInv, DaemonTypes, File
  <2>1. ASSUME NEW q \in {0, 1, 2}, Quit(q) PROVE DaemonRest'
    <3>1. UNCHANGED <<group, cwd, log_fd>> /\ table' = [table EXCEPT ![q] = <<>>]
      BY <2>1 DEF Quit
    <3> QED
      BY <1>1, <1>2, <2>0, <3>1 DEF DaemonRest
  <2>2. CASE Start
    <3>1. PICK inherited \in Inherited : table' = [table EXCEPT ![0] = inherited]
      BY <2>2 DEF Start
    <3>2. \A fd \in DOMAIN inherited : inherited[fd] \in File
      BY DEF Inherited, File
    <3> QED
      BY <1>1, <2>0, <2>2, <3>1, <3>2 DEF Start, DaemonRest
  <2>3. ASSUME NEW q \in 0..1, NEW call, Forked(q, call) PROVE DaemonRest'
    <3>1. q \in {0, 1, 2} /\ q + 1 \in {0, 1, 2}
      OBVIOUS
    <3>2. /\ group' = [group EXCEPT ![q + 1] = group[q]] /\ cwd' = [cwd EXCEPT ![q + 1] = cwd[q]]
          /\ table' = [table EXCEPT ![q + 1] = table[q]] /\ UNCHANGED log_fd
      BY <2>3 DEF Forked
    <3> QED
      BY <1>1, <2>0, <3>1, <3>2 DEF DaemonRest
  <2>4. CASE SetSid
    <3>1. CASE Quit(1)
      BY <2>1, <3>1
    <3>2. CASE group' = [group EXCEPT ![1] = 1] /\ UNCHANGED <<table, cwd, log_fd>>
      BY <1>1, <3>2 DEF DaemonRest
    <3> QED
      BY <2>4, <3>1, <3>2 DEF SetSid
  <2>5. CASE ChangeDirectory
    BY <1>1, <2>5 DEF ChangeDirectory, DaemonRest
  <2>6. CASE CloseAll
    <3>1. /\ table' = [table EXCEPT ![2] = Restrict(table[2], DOMAIN table[2] \ 0..MaxFd)]
          /\ UNCHANGED <<group, cwd, log_fd>>
      BY <2>6 DEF CloseAll
    <3>2. table'[2] = [fd \in DOMAIN table[2] \ 0..MaxFd |-> table[2][fd]]
      BY <2>0, <3>1 DEF Restrict
    <3>3. \A fd \in DOMAIN table'[2] : table'[2][fd] \in File
      BY <1>1, <3>2 DEF DaemonRest
    <3> QED
      BY <1>1, <2>0, <3>1, <3>3 DEF DaemonRest
  <2>7. ASSUME NEW file \in File, Opens(file)
        PROVE  \A q \in Generation : \A fd \in DOMAIN table'[q] : table'[q][fd] \in File
    <3>1. table'[2] = [fd \in DOMAIN table[2] \cup {Lowest} |-> IF fd = Lowest THEN file ELSE table[2][fd]]
      BY <2>0, <2>7 DEF Opens
    <3> HIDE DEF Lowest
    <3>2. \A fd \in DOMAIN table'[2] : table'[2][fd] \in File
      BY <1>1, <3>1 DEF DaemonRest
    <3>3. \A q \in DOMAIN table : q # 2 => table'[q] = table[q]
      <4>1. PICK descriptors : table' = [table EXCEPT ![2] = descriptors]
        BY <2>7 DEF Opens
      <4> QED
        BY <4>1
    <3> QED
      BY <1>1, <2>0, <3>2, <3>3 DEF DaemonRest
  <2>8. CASE OpenLog
    <3>1. Opened(0) /\ Opens("/tmp/daemon.log") /\ log_fd' = Lowest /\ UNCHANGED <<group, cwd>>
      BY <2>8 DEF OpenLog, DaemonInv, Grandchild
    <3>2. Lowest = 0
      BY <3>1, LowestIsNext DEF Opened
    <3>3. "/tmp/daemon.log" \in File
      BY DEF File
    <3>4. \A q \in Generation : \A fd \in DOMAIN table'[q] : table'[q][fd] \in File
      BY <2>7, <3>1, <3>3
    <3>5. log_fd' \in -1..MaxFd
      BY <1>1, <3>1, <3>2
    <3> QED
      BY <3>1, <3>4, <3>5 DEF DaemonRest
  <2>9. CASE Redirect
    <3>1. PICK file \in File : /\ Opens(file) \/ UNCHANGED table
                              /\ UNCHANGED <<group, cwd, log_fd>>
      BY <2>0, <2>9 DEF Redirect, OpenNull
    <3> QED
      BY <2>7, <3>1 DEF DaemonRest
  <2>10. CASE Log \/ UNCHANGED daemonVars
    BY <2>10 DEF Log, daemonVars, DaemonRest
  <2>11. ASSUME NEW q \in 0..1, ForkFailed(q) \/ ParentExits(q) PROVE DaemonRest'
    <3>1. q \in {0, 1, 2}
      OBVIOUS
    <3> QED
      BY <2>1, <2>11, <3>1 DEF ForkFailed, ParentExits
  <2>12. CASE Fork1 \/ Fork2
    BY <2>3, <2>12 DEF Fork1, Fork2
  <2>13. CASE ChdirFailed \/ OpenLogFailed
    BY <2>1, <2>13 DEF ChdirFailed, OpenLogFailed
  <2> QED
    BY <2>2, <2>4, <2>5, <2>6, <2>8, <2>9, <2>10, <2>11, <2>12, <2>13 DEF DaemonNext
<1>5. Types => DaemonTypeOK
  <2> SUFFICES ASSUME DaemonInv, DaemonRest PROVE DaemonTypeOK
    OBVIOUS
  <2>1. \A q \in Generation : Range(table[q]) \subseteq File
    BY DEF DaemonRest, Range
  <2> QED
    BY <2>1 DEF DaemonInv, DaemonTypes, DaemonRest, DaemonTypeOK, Grandchild, File
<1> QED
  BY <1>3, <1>4, <1>5, StepsApart, PTL DEF ProgramsSpec

\* Nobody counts but shared pointers, and never more than there are pointers.
LEMMA PointersTyped == ProgramsSpec => []PointerTypeOK
<1> DEFINE Types == PointerInv /\ (~Shared => \A o \in Object : counter[o] = 0)
<1>1. ProgramsInit => Types
  BY PointersStart DEF ProgramsInit, PointerInit
<1>2. Types /\ UNCHANGED program /\ [PointerNext]_pointerVars => Types'
  <2> SUFFICES ASSUME Types, UNCHANGED program, [PointerNext]_pointerVars, ~Shared
               PROVE  UNCHANGED counter
    BY PointersGoOn DEF Shared
  <2>1. ASSUME NEW o \in Object, Allocate(o) \/ DeleteRaw(o) PROVE UNCHANGED counter
    BY <2>1 DEF Allocate, DeleteRaw
  <2>2. CASE UniqueNext
    BY <2>2 DEF UniqueNext, ConstructNull, ReleaseRaw, DestroyUnique, ConstructUnique,
                MoveUnique, MoveAssign, Reset
  <2> QED
    BY <2>1, <2>2 DEF PointerNext, SharedNext, pointerVars
<1>3. Types => PointerTypeOK
  <2> SUFFICES ASSUME Types PROVE counter \in [Object -> 0..Cardinality(Pointer)]
    BY DEF PointerInv, PointerTypes, PointerTypeOK
  <2>1. Cardinality(Pointer) \in Nat
    BY PointerNames, FS_CardinalityType
  <2>2. ASSUME NEW o \in Object PROVE Cardinality(Owners(o)) \in 0..Cardinality(Pointer)
    <3>1. Owners(o) \subseteq Pointer
      BY DEF Owners
    <3>2. IsFiniteSet(Owners(o)) /\ Cardinality(Owners(o)) <= Cardinality(Pointer)
      BY <3>1, PointerNames, FS_Subset
    <3> QED
      BY <2>1, <3>2, FS_CardinalityType
  <2>3. ASSUME NEW o \in Object PROVE counter[o] \in 0..Cardinality(Pointer)
    BY <2>1, <2>2 DEF PointerInv, Owned
  <2> QED
    BY <2>3 DEF PointerInv, PointerTypes
<1> QED
  BY <1>1, <1>2, <1>3, StepsApart, PTL DEF ProgramsSpec

\* For every number of processes, threads, clients, blocks, words and bytes: the state
\* of every small program is well typed.  Among the rest that bounds what each holds:
\* the bytes in a pipe, the sockets of the echo server, the client in the forking
\* server's hand, the count of a shared pointer.
THEOREM AllTyped == ProgramsSpec => []ProgramsTyped
<1>1. ProgramsSpec => [](program \in Repertoire)
  <2>1. ProgramsInit => program \in Repertoire
    BY DEF ProgramsInit
  <2>2. program \in Repertoire /\ UNCHANGED program => (program \in Repertoire)'
    OBVIOUS
  <2> QED
    BY <2>1, <2>2, StepsApart, PTL DEF ProgramsSpec
<1>2. /\ program \in Repertoire
      /\ TypeOK /\ BufferTypeOK /\ ForkTypeOK /\ DaemonTypeOK /\ PipeTypeOK /\ DatagramTypeOK
      /\ EchoTypeOK
      /\ SingletonTypeOK /\ PointerTypeOK /\ PoolTypeOK /\ StationTypeOK /\ ThreadTypeOK
      => ProgramsTyped
  BY DEF ProgramsTyped
<1> QED
  BY <1>1, <1>2, BatchTyped, ThreadsOfTheBuffer, BufferTyped, ServerTyped,
     DaemonsTyped, PipesTyped, DatagramsTyped, EchoesTyped,
     SingletonsTyped, PointersTyped, PoolTyped, StationTyped, ThreadsTyped, PTL
=============================================================================
