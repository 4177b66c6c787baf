------------------------- MODULE ProcessPoolProofs -------------------------
(***************************************************************************)
(* ProcessPool for every number of workers and tasks: a pipe is read by    *)
(* its own worker only, no worker is gone while the owner can still write  *)
(* to it, and the tasks go round the workers in turn.                      *)
(***************************************************************************)
EXTENDS ProcessPool, SequenceTheorems, TLAPS

----------------------------------------------------------------------------
(* Descriptor tables *)

\* What open(), here pipe(), adds to a table.
LEMMA OpenedFiles ==
    ASSUME NEW table, NEW file, NEW f \in Range(Opened(table, file))
    PROVE  f \in Range(table) \/ f = file
  BY DEF Range, Opened

\* What close() takes from a table.
LEMMA ClosedFiles ==
    ASSUME NEW table, NEW file, NEW f \in Range(Closed(table, file))
    PROVE  f \in Range(table) /\ f # file
  BY DEF Range, Closed, Restrict

\* exit() leaves nothing open.
LEMMA NothingOpen == Range(<<>>) = {}
  BY DEF Range

\* The ends of different pipes are different files.
LEMMA EndsDiffer ==
    ASSUME NEW v, NEW w
    PROVE  /\ ReadEnd(v) = ReadEnd(w) <=> v = w
           /\ WriteEnd(v) = WriteEnd(w) <=> v = w
           /\ ReadEnd(v) # WriteEnd(w)
  BY DEF ReadEnd, WriteEnd

----------------------------------------------------------------------------
\* The types of all variables.
PoolTypes ==
    /\ pc \in [Proc -> Calls]
    /\ DOMAIN fds = Proc
    /\ numWorkers \in 1..MaxWorkers
    /\ built \in 0..numWorkers /\ reaped \in 0..numWorkers
    /\ submitted \in 0..MaxTasks /\ nextWorker \in Worker
    /\ pipe \in [Worker -> Seq(Nat)]
    /\ \A w \in Worker : Len(pipe[w]) <= PipeTasks

\* How far the constructor is, and that the workers still to come have nothing.
Stage ==
    /\ pc[Parent] \in {"pipe", "fork", "close read end"} => built < numWorkers
    /\ pc[Parent] \in {"submit", "close", "wait"} => built = numWorkers
    /\ pc[Parent] \in {"close", "wait"} => reaped < numWorkers
    /\ reaped = numWorkers => pc[Parent] = "gone"
    /\ \A w \in Worker :
          w > built \/ (w = built /\ pc[Parent] # "close read end") => pc[w] = "unborn"

PoolInv == PoolTypes /\ Stage /\ OneReader /\ NoBrokenPipe

\* A pool starts with no pipe and no worker.
LEMMA PoolInit == Init => PoolInv
  BY Sizes, Bounds, ParentIsNoWorker, NothingOpen
  DEF Init, PoolInv, PoolTypes, Stage, OneReader, NoBrokenPipe, Holds, Proc,
      Worker, Calls

\* pipe(), fork() and their failure.
LEMMA ConstructorKeeps == PoolInv /\ (Build \/ Fails) => PoolInv'
<1> SUFFICES ASSUME PoolInv, Build \/ Fails PROVE PoolInv'
  OBVIOUS
<1>a. PoolTypes /\ Stage /\ OneReader /\ NoBrokenPipe
  BY DEF PoolInv
<1>b. /\ built \in 0..numWorkers /\ numWorkers \in 1..MaxWorkers /\ Parent \in Proc
      /\ \A w \in Worker : w \in Proc /\ w # Parent /\ w \in Int
      /\ DOMAIN fds = Proc /\ pc \in [Proc -> Calls]
  BY <1>a, Sizes, ParentIsNoWorker DEF PoolTypes, Proc, Worker
<1>e. built \in Int /\ numWorkers \in Int /\ 0 <= built /\ built <= numWorkers
  BY <1>b
<1>f. \A i \in Int : 0 <= i /\ i < numWorkers => i \in Worker
  BY <1>b, Sizes DEF Worker
<1>g. \A w \in Worker : w \in Int
  BY DEF Worker
<1>c. pc[Parent] \in {"pipe", "fork"} =>
         built < numWorkers /\ built \in Worker /\ pc[built] = "unborn"
  <2>1. SUFFICES ASSUME pc[Parent] \in {"pipe", "fork"}
                 PROVE  built < numWorkers /\ built \in Worker /\ pc[built] = "unborn"
    OBVIOUS
  <2>2. built < numWorkers /\ built \in Worker
    <3>1. built < numWorkers
      BY <1>a, <2>1 DEF Stage
    <3> QED
      BY <1>e, <1>f, <3>1
  <2>3. built = built /\ pc[Parent] # "close read end"
    BY <2>1
  <2> QED
    BY <1>a, <2>2, <2>3 DEF Stage
<1>d. pc[Parent] = "close read end" => built < numWorkers
  BY <1>a DEF Stage
<1>1. CASE Pipe
  <2>1. pc[Parent] = "pipe" /\ pc' = [pc EXCEPT ![Parent] = "fork"]
    BY <1>1 DEF Pipe, GoTo
  <2>2. UNCHANGED <<numWorkers, built, reaped, pipe, submitted, nextWorker>> /\ DOMAIN fds' = Proc
    BY <1>1, <1>b DEF Pipe, buildVars, taskVars
  <2>3. ASSUME NEW q \in Proc, NEW f \in Range(fds'[q])
        PROVE  f \in Range(fds[q]) \/ (q = Parent /\ f \in {ReadEnd(built), WriteEnd(built)})
    BY <1>1, <1>b, <2>3, OpenedFiles DEF Pipe
  <2>4. PoolTypes'
    BY <1>a, <1>b, <2>1, <2>2 DEF PoolTypes, Calls
  <2>5. Stage'
    BY <1>a, <1>b, <1>c, <2>1, <2>2 DEF Stage
  <2>6. OneReader'
    BY <1>a, <2>2, <2>3, EndsDiffer DEF OneReader, Holds
  <2>7. NoBrokenPipe'
    BY <1>a, <1>b, <1>c, <2>1, <2>3, EndsDiffer DEF NoBrokenPipe, Holds
  <2> QED
    BY <2>4, <2>5, <2>6, <2>7 DEF PoolInv
<1>2. CASE Fork
  <2>1. /\ pc[Parent] = "fork"
        /\ pc' = [pc EXCEPT ![Parent] = "close read end", ![built] = "close write end"]
    BY <1>2 DEF Fork
  <2>2. /\ UNCHANGED <<numWorkers, built, reaped, pipe, submitted, nextWorker>>
        /\ fds' = [fds EXCEPT ![built] = fds[Parent]]
    BY <1>2 DEF Fork, buildVars, taskVars
  <2>3. PoolTypes'
    BY <1>a, <1>b, <1>c, <2>1, <2>2 DEF PoolTypes, Calls
  <2>4. Stage'
    <3>1. pc'[Parent] = "close read end" /\ built < numWorkers /\ reaped # numWorkers
      BY <1>a, <1>b, <1>c, <2>1, Zenon DEF Stage
    <3>2. ASSUME NEW w \in Worker, w > built PROVE pc'[w] = "unborn"
      <4>0. w # built
        BY <1>e, <1>g, <3>2
      <4>1. w # built /\ pc[w] = "unborn"
        BY <1>a, <4>0, <3>2 DEF Stage
      <4> QED
        BY <1>b, <2>1, <4>1
    <3> QED
      BY <1>b, <2>2, <3>1, <3>2 DEF Stage
  <2>5. OneReader'
    BY <1>a, <1>b, <1>c, <2>1, <2>2 DEF OneReader, Holds
  <2>6. NoBrokenPipe'
    BY <1>a, <1>b, <1>c, <2>1, <2>2 DEF NoBrokenPipe, Holds
  <2> QED
    BY <2>3, <2>4, <2>5, <2>6 DEF PoolInv
<1>3. CASE CloseReadEnd
  <2>1. /\ pc[Parent] = "close read end" /\ built' = built + 1
        /\ pc' = [pc EXCEPT ![Parent] = IF built' = numWorkers THEN "submit" ELSE "pipe"]
    BY <1>3 DEF CloseReadEnd, GoTo
  <2>2. UNCHANGED <<numWorkers, reaped, pipe, submitted, nextWorker>> /\ DOMAIN fds' = Proc
    BY <1>3, <1>b DEF CloseReadEnd, taskVars
  <2>3. ASSUME NEW q \in Proc, NEW f \in Range(fds'[q])
        PROVE  f \in Range(fds[q]) /\ ~(q = Parent /\ f = ReadEnd(built))
    BY <1>3, <1>b, <2>3, ClosedFiles DEF CloseReadEnd
  <2>4. PoolTypes'
    <3>1. built' \in 0..numWorkers
      <4>1. built < numWorkers /\ built' = built + 1
        BY <1>d, <2>1
      <4> QED
        BY <1>e, <4>1
    <3>2. pc' \in [Proc -> Calls]
      BY <1>b, <2>1 DEF Calls
    <3> QED
      BY <1>a, <2>2, <3>1, <3>2 DEF PoolTypes
  <2>5. Stage'
    <3>1. reaped # numWorkers /\ built < numWorkers
      BY <1>a, <1>d, <2>1 DEF Stage
    <3>2. pc'[Parent] = IF built' = numWorkers THEN "submit" ELSE "pipe"
      BY <1>b, <2>1
    <3>0. built' = built + 1
      BY <2>1
    <3>3. built' \in Int /\ built' = built + 1
      BY <1>e, <3>0
    <3>4. ASSUME NEW w \in Worker, w > built' \/ w = built' PROVE pc'[w] = "unborn"
      <4>1. w > built
        BY <1>e, <1>g, <3>3, <3>4
      <4>2. pc[w] = "unborn"
        BY <1>a, <4>1 DEF Stage
      <4> QED
        BY <1>b, <2>1, <4>2
    <3>5. built' = numWorkers \/ built' < numWorkers
      BY <1>e, <3>1, <3>3
    <3> QED
      BY <2>2, <3>1, <3>2, <3>4, <3>5 DEF Stage
  <2>6. OneReader'
    BY <1>a, <2>1, <2>3 DEF OneReader, Holds
  <2>7. NoBrokenPipe'
    BY <1>a, <1>b, <2>1, <2>3 DEF NoBrokenPipe, Holds
  <2> QED
    BY <2>4, <2>5, <2>6, <2>7 DEF PoolInv
<1>4. CASE Fails
  <2>1. /\ pc[Parent] \in {"pipe", "fork"} /\ pc' = [pc EXCEPT ![Parent] = "gone"]
        /\ fds' = [fds EXCEPT ![Parent] = <<>>]
        /\ UNCHANGED <<numWorkers, built, reaped, pipe, submitted, nextWorker>>
    BY <1>4 DEF Fails, Exit, GoTo, buildVars, taskVars
  <2>2. PoolTypes'
    BY <1>a, <1>b, <2>1 DEF PoolTypes, Calls
  <2>3. Stage'
    BY <1>a, <1>b, <1>c, <2>1 DEF Stage
  <2>4. OneReader' /\ NoBrokenPipe'
    BY <1>a, <1>b, <2>1, NothingOpen DEF OneReader, NoBrokenPipe, Holds
  <2> QED
    BY <2>2, <2>3, <2>4 DEF PoolInv
<1> QED
  BY <1>1, <1>2, <1>3, <1>4 DEF Build

\* submit and the destructor.
LEMMA OwnerKeeps == PoolInv /\ (Submit \/ Destroy) => PoolInv'
<1> SUFFICES ASSUME PoolInv, Submit \/ Destroy PROVE PoolInv'
  OBVIOUS
<1>a. PoolTypes /\ Stage /\ OneReader /\ NoBrokenPipe
  BY DEF PoolInv
<1>b. /\ Parent \in Proc /\ DOMAIN fds = Proc /\ pc \in [Proc -> Calls]
      /\ \A w \in Worker : w \in Proc /\ w # Parent
  BY <1>a, ParentIsNoWorker DEF PoolTypes, Proc
<1>e. reaped \in Int /\ numWorkers \in Int /\ 0 <= reaped /\ reaped <= numWorkers
  BY <1>a, Sizes DEF PoolTypes
<1>1. CASE Submit
  <2>1. UNCHANGED <<fds, pc, numWorkers, built, reaped>>
    BY <1>1 DEF Submit, buildVars
  <2>2. submitted' \in 0..MaxTasks /\ submitted' \in Nat
    BY <1>1, <1>a, Bounds DEF Submit, PoolTypes
  <2>3. nextWorker' \in Worker
    BY <1>1, <1>a, Sizes DEF Submit, PoolTypes, Worker
  <2>4. pipe' \in [Worker -> Seq(Nat)] /\ \A w \in Worker : Len(pipe'[w]) <= PipeTasks
    BY <1>1, <1>a, <2>2, Bounds DEF Submit, PoolTypes
  <2>5. PoolTypes'
    BY <1>a, <2>1, <2>2, <2>3, <2>4 DEF PoolTypes
  <2> QED
    BY <1>a, <2>1, <2>5 DEF PoolInv, Stage, OneReader, NoBrokenPipe, Holds
<1>2. CASE CloseWriteEnd
  <2>1. /\ pc[Parent] \in {"submit", "close"} /\ pc' = [pc EXCEPT ![Parent] = "wait"]
        /\ UNCHANGED <<numWorkers, built, reaped, pipe, submitted, nextWorker>> /\ DOMAIN fds' = Proc
    BY <1>2, <1>b DEF CloseWriteEnd, GoTo, buildVars, taskVars
  <2>2. ASSUME NEW q \in Proc, NEW f \in Range(fds'[q]) PROVE f \in Range(fds[q])
    BY <1>2, <1>b, <2>2, ClosedFiles DEF CloseWriteEnd
  <2>3. PoolTypes'
    BY <1>a, <1>b, <2>1 DEF PoolTypes, Calls
  <2>4. reaped # numWorkers
    BY <1>a, <2>1 DEF Stage
  <2>5. reaped < numWorkers
    BY <1>e, <2>4
  <2>6. Stage'
    BY <1>a, <1>b, <2>1, <2>4, <2>5 DEF Stage
  <2>7. OneReader' /\ NoBrokenPipe'
    BY <1>a, <1>b, <2>1, <2>2 DEF OneReader, NoBrokenPipe, Holds
  <2> QED
    BY <2>3, <2>6, <2>7 DEF PoolInv
<1>3. CASE Wait
  <2>1. /\ pc[Parent] = "wait" /\ UNCHANGED <<numWorkers, built, pipe, submitted, nextWorker>>
        /\ pc' = [pc EXCEPT ![Parent] = IF reaped' = numWorkers THEN "gone" ELSE "close"]
        /\ fds' = fds \/ fds' = [fds EXCEPT ![Parent] = <<>>]
    BY <1>3 DEF Wait, Exit, GoTo, taskVars
  <2>2. reaped' = reaped + 1
    BY <1>3 DEF Wait
  <2>3. reaped < numWorkers
    BY <1>a, <2>1 DEF Stage
  <2>4. reaped' \in 0..numWorkers /\ (reaped' = numWorkers \/ (reaped' < numWorkers /\ reaped' # numWorkers))
    BY <1>e, <2>2, <2>3
  <2>5. PoolTypes'
    BY <1>a, <1>b, <2>1, <2>4 DEF PoolTypes, Calls
  <2>6. pc'[Parent] = IF reaped' = numWorkers THEN "gone" ELSE "close"
    BY <1>b, <2>1
  <2>7. \A w \in Worker : pc'[w] = pc[w]
    BY <1>b, <2>1
  <2>8. Stage'
    <3>1. /\ built = numWorkers
          /\ \A w \in Worker : w > built \/ w = built => pc[w] = "unborn"
      BY <1>a, <2>1 DEF Stage
    <3>2. CASE reaped' = numWorkers
      <4>1. pc'[Parent] = "gone" /\ built' = built /\ numWorkers' = numWorkers
        BY <2>1, <2>6, <3>2
      <4> QED
        BY <2>7, <3>1, <4>1 DEF Stage
    <3>3. CASE reaped' < numWorkers /\ reaped' # numWorkers
      <4>1. pc'[Parent] = "close" /\ built' = built /\ numWorkers' = numWorkers
        BY <2>1, <2>6, <3>3
      <4> QED
        BY <2>7, <3>1, <3>3, <4>1 DEF Stage
    <3> QED
      BY <2>4, <3>2, <3>3
  <2>9. OneReader' /\ NoBrokenPipe'
    BY <1>a, <1>b, <2>1, <2>7, NothingOpen DEF OneReader, NoBrokenPipe, Holds
  <2> QED
    BY <2>5, <2>8, <2>9 DEF PoolInv
<1> QED
  BY <1>1, <1>2, <1>3 DEF Destroy

\* A worker's steps.
LEMMA WorkerKeeps ==
    ASSUME PoolInv, NEW w \in Worker, WorkerStep(w)
    PROVE  PoolInv'
<1>a. PoolTypes /\ Stage /\ OneReader /\ NoBrokenPipe
  BY DEF PoolInv
<1>b. /\ Parent \in Proc /\ DOMAIN fds = Proc /\ pc \in [Proc -> Calls]
      /\ w \in Proc /\ w # Parent
  BY <1>a, ParentIsNoWorker DEF PoolTypes, Proc
<1>1. /\ pc[w] # "unborn"
      /\ \E call \in {"read", "run", "gone"} : pc' = [pc EXCEPT ![w] = call]
      /\ UNCHANGED <<numWorkers, built, reaped, submitted, nextWorker>> /\ DOMAIN fds' = Proc
  BY <1>b DEF WorkerStep, Start, Take, Run, EndOfFile, Exit, GoTo, buildVars, taskVars
<1>2. ASSUME NEW q \in Proc, NEW f \in Range(fds'[q]) PROVE f \in Range(fds[q])
  <2>1. CASE Start(w)
    BY <2>1, <1>b, <1>2, ClosedFiles DEF Start
  <2>2. CASE Take(w) \/ Run(w)
    BY <2>2, <1>2 DEF Take, Run
  <2>3. CASE EndOfFile(w)
    BY <2>3, <1>b, <1>2, NothingOpen DEF EndOfFile, Exit
  <2> QED
    BY <2>1, <2>2, <2>3 DEF WorkerStep
<1>3. pipe' \in [Worker -> Seq(Nat)] /\ \A v \in Worker : Len(pipe'[v]) <= PipeTasks
  <2>1. CASE Start(w) \/ Run(w) \/ EndOfFile(w)
    BY <2>1, <1>a DEF Start, Run, EndOfFile, PoolTypes, taskVars
  <2>2. CASE Take(w)
    <3>1. pipe' = [pipe EXCEPT ![w] = Tail(@)] /\ pipe[w] \in Seq(Nat) /\ pipe[w] # <<>>
      BY <2>2, <1>a DEF Take, PoolTypes
    <3>2. Tail(pipe[w]) \in Seq(Nat) /\ Len(Tail(pipe[w])) <= Len(pipe[w])
      BY <3>1
    <3>3. \A v \in Worker : Len(pipe[v]) <= PipeTasks /\ Len(pipe[v]) \in Nat
      BY <1>a DEF PoolTypes
    <3>4. Len(Tail(pipe[w])) \in Nat /\ PipeTasks \in Nat
      BY <3>2, Bounds
    <3>5. Len(Tail(pipe[w])) <= PipeTasks
      BY <3>2, <3>3, <3>4
    <3> QED
      BY <3>1, <3>2, <3>3, <3>5, <1>a DEF PoolTypes
  <2> QED
    BY <2>1, <2>2 DEF WorkerStep
<1>4. PoolTypes'
  BY <1>a, <1>b, <1>1, <1>3 DEF PoolTypes, Calls
<1>5. pc'[Parent] = pc[Parent] /\ \A v \in Worker \ {w} : pc'[v] = pc[v]
  BY <1>b, <1>1 DEF Proc
<1>6. Stage'
  <2>1. ~(w > built \/ (w = built /\ pc[Parent] # "close read end"))
    BY <1>a, <1>1 DEF Stage
  <2> QED
    BY <1>a, <1>1, <1>5, <2>1 DEF Stage
<1>7. OneReader'
  BY <1>a, <1>1, <1>2 DEF OneReader, Holds
<1>8. NoBrokenPipe'
  <2>1. pc'[w] = "gone" => ~Holds(Parent, WriteEnd(w))
    <3>1. CASE EndOfFile(w)
      BY <3>1, <1>b DEF EndOfFile, Writers
    <3>2. CASE Start(w) \/ Take(w) \/ Run(w)
      BY <3>2, <1>b DEF Start, Take, Run, GoTo
    <3> QED
      BY <3>1, <3>2 DEF WorkerStep
  <2> QED
    BY <1>a, <1>b, <1>2, <1>5, <2>1 DEF NoBrokenPipe, Holds
<1> QED
  BY <1>4, <1>6, <1>7, <1>8 DEF PoolInv

\* The invariant holds in every state of a pool.
THEOREM PoolCorrect == Spec => []PoolInv
<1>1. ASSUME PoolInv, UNCHANGED vars PROVE PoolInv'
  <2>1. UNCHANGED <<fds, pc, numWorkers, built, reaped, pipe, submitted, nextWorker>>
    BY <1>1 DEF vars, buildVars, taskVars
  <2>2. PoolTypes' /\ Stage'
    BY <1>1, <2>1 DEF PoolInv, PoolTypes, Stage
  <2>3. OneReader' /\ NoBrokenPipe'
    BY <1>1, <2>1 DEF PoolInv, OneReader, NoBrokenPipe, Holds
  <2> QED
    BY <2>2, <2>3 DEF PoolInv
<1>2. PoolInv /\ [Next]_vars => PoolInv'
  BY <1>1, ConstructorKeeps, OwnerKeeps, WorkerKeeps DEF Next
<1> QED
  BY <1>2, PoolInit, PTL DEF Spec

\* Types, and no pipe overfilled.
THEOREM PoolTyped == Spec => []TypeOK
<1>1. PoolInv => TypeOK
  BY DEF PoolInv, PoolTypes, TypeOK
<1> QED
  BY <1>1, PoolCorrect, PTL

\* A task can be read by no process but the worker it was submitted to.
THEOREM EachWorkerReadsItsOwn == Spec => []OneReader
<1>1. PoolInv => OneReader
  BY DEF PoolInv
<1> QED
  BY <1>1, PoolCorrect, PTL

\* submit never writes to a pipe nobody reads.
THEOREM SubmitIsHeard == Spec => []NoBrokenPipe
<1>1. PoolInv => NoBrokenPipe
  BY DEF PoolInv
<1> QED
  BY <1>1, PoolCorrect, PTL
----------------------------------------------------------------------------
(* The tasks *)

\* A worker holds a task only while it runs it, and the owner's turn goes round.
TaskInv ==
    /\ ran \in [Worker -> Seq(Nat)] /\ current \in [Worker -> Seq(Nat)]
    /\ pipe \in [Worker -> Seq(Nat)]
    /\ \A w \in Worker : pc[w] # "run" => current[w] = <<>>
    /\ nextWorker = submitted % numWorkers
    /\ TasksInTurn

\* Counting on and wrapping wraps like counting on from the wrapped number.
LEMMA NextTurn ==
    ASSUME NEW n \in Nat \ {0}, NEW k \in Nat
    PROVE  ((k % n) + 1) % n = (k + 1) % n
<1> DEFINE q == k \div n
           r == k % n
<1>1. q \in Nat /\ r \in 0..(n - 1) /\ k = q * n + r
  OBVIOUS
<1> HIDE DEF q, r
<1>2. ASSUME NEW a \in Int, NEW m \in Int, NEW e \in 0..(n - 1), a = m * n + e
      PROVE  a % n = e
  BY <1>2, SMT
<1>3. CASE r + 1 < n
  <2>1. r + 1 \in 0..(n - 1) /\ k + 1 = q * n + (r + 1) /\ k + 1 \in Int /\ r + 1 \in Int
    BY <1>1, <1>3
  <2>2. (k + 1) % n = r + 1
    BY <1>1, <1>2, <2>1
  <2>3. (r + 1) % n = r + 1
    <3>1. r + 1 = 0 * n + (r + 1)
      BY <2>1
    <3> QED
      BY <1>2, <2>1, <3>1
  <2> QED
    BY <2>2, <2>3 DEF r
<1>4. CASE r + 1 = n
  <2>1. k + 1 = (q + 1) * n + 0 /\ k + 1 \in Int /\ q + 1 \in Int /\ 0 \in 0..(n - 1)
    BY <1>1, <1>4
  <2>2. (k + 1) % n = 0
    BY <1>2, <2>1
  <2>3. (r + 1) % n = 0
    BY <1>4
  <2> QED
    BY <2>2, <2>3 DEF r
<1> QED
  BY <1>1, <1>3, <1>4

\* Where three sequences of tasks are cut does not matter.
LEMMA Associates == \A a, b, c \in Seq(Nat) : (a \o b) \o c = a \o (b \o c)
<1> SUFFICES ASSUME NEW a \in Seq(Nat), NEW b \in Seq(Nat), NEW c \in Seq(Nat)
             PROVE  (a \o b) \o c = a \o (b \o c)
  OBVIOUS
<1> QED
  OBVIOUS

\* What is appended to the last of three sequences comes after all of them.
LEMMA AppendLast ==
    ASSUME NEW a \in Seq(Nat), NEW b \in Seq(Nat), NEW c \in Seq(Nat), NEW k \in Nat
    PROVE  (a \o b) \o Append(c, k) = Append((a \o b) \o c, k)
<1> DEFINE d == a \o b
<1>1. d \in Seq(Nat) /\ d \o c \in Seq(Nat) /\ <<k>> \in Seq(Nat)
  BY ConcatProperties
<1> HIDE DEF d
<1>2. d \o (c \o <<k>>) = (d \o c) \o <<k>>
  BY <1>1, Associates
<1>3. Append(c, k) = c \o <<k>> /\ Append(d \o c, k) = (d \o c) \o <<k>>
  BY <1>1, AppendIsConcat
<1> QED
  BY <1>2, <1>3 DEF d

\* Moving the head of a sequence before its tail changes nothing.
LEMMA HeadMoves ==
    ASSUME NEW a \in Seq(Nat), NEW p \in Seq(Nat), p # <<>>
    PROVE  (a \o <<Head(p)>>) \o Tail(p) = a \o p
<1>1. <<Head(p)>> \in Seq(Nat) /\ Tail(p) \in Seq(Nat) /\ <<Head(p)>> \o Tail(p) = p
  OBVIOUS
<1>2. (a \o <<Head(p)>>) \o Tail(p) = a \o (<<Head(p)>> \o Tail(p))
  BY <1>1, Associates, Zenon
<1> QED
  BY <1>1, <1>2, Zenon

\* A number greater than all in an increasing sequence goes to its end.
LEMMA AppendGreatest ==
    ASSUME NEW T \in Seq(Nat), NEW k \in Nat, \A x \in Range(T) : x < k,
           \A i, j \in DOMAIN T : i < j => T[i] < T[j]
    PROVE  /\ Range(Append(T, k)) = Range(T) \cup {k}
           /\ \A i, j \in DOMAIN Append(T, k) : i < j => Append(T, k)[i] < Append(T, k)[j]
<1> DEFINE new == Append(T, k)
<1>1. /\ Len(T) \in Nat /\ DOMAIN T = 1..Len(T) /\ DOMAIN new = 1..(Len(T) + 1)
      /\ new[Len(T) + 1] = k /\ \A i \in 1..Len(T) : new[i] = T[i]
  BY AppendProperties
<1>2. \A i \in 1..Len(T) : T[i] < k
  BY <1>1 DEF Range
<1> HIDE DEF new
<1>3. Range(new) = Range(T) \cup {k}
  <2>1. 1..(Len(T) + 1) = (1..Len(T)) \cup {Len(T) + 1}
    BY <1>1
  <2> QED
    BY <1>1, <2>1 DEF Range
<1>4. ASSUME NEW i \in DOMAIN new, NEW j \in DOMAIN new, i < j
      PROVE  new[i] < new[j]
  <2>1. i \in 1..Len(T) /\ (j \in 1..Len(T) \/ j = Len(T) + 1)
    BY <1>1, <1>4
  <2> QED
    BY <1>1, <1>2, <1>4, <2>1
<1> QED
  BY <1>3, <1>4 DEF new

\* Nothing is submitted at first.
LEMMA TaskInit == Init => TaskInv
<1> SUFFICES ASSUME Init PROVE TaskInv
  OBVIOUS
<1>1. \A w \in Worker : Tasks(w) = <<>> /\ Turns(w) = {}
  BY DEF Init, Tasks, Turns
<1>2. nextWorker = submitted % numWorkers
  BY Sizes DEF Init
<1>3. TasksInTurn
  BY <1>1, NothingOpen DEF TasksInTurn
<1>4. \A w \in Worker : current[w] = <<>>
  BY DEF Init
<1>5. <<>> \in Seq(Nat)
  OBVIOUS
<1>6. ran \in [Worker -> Seq(Nat)] /\ current \in [Worker -> Seq(Nat)] /\ pipe \in [Worker -> Seq(Nat)]
  BY <1>5 DEF Init
<1> QED
  BY <1>2, <1>3, <1>4, <1>6 DEF TaskInv

\* Whose turn each task was does not change as long as no task moves.
LEMMA TurnsKept ==
    ASSUME TasksInTurn, UNCHANGED <<ran, current, pipe, submitted, numWorkers>>
    PROVE  TasksInTurn'
<1>1. ASSUME NEW w PROVE Tasks(w)' = Tasks(w) /\ Turns(w)' = Turns(w)
  BY DEF Tasks, Turns
<1> HIDE DEF Tasks, Turns
<1> QED
  BY <1>1 DEF TasksInTurn

\* The constructor and the destructor leave the tasks alone.
LEMMA BuildKeepsTasks ==
    ASSUME PoolInv, TaskInv, Build \/ Fails \/ Destroy \/ UNCHANGED vars
    PROVE  TaskInv'
<1>1. UNCHANGED <<numWorkers, taskVars>>
  BY DEF Build, Fails, Destroy, Pipe, Fork, CloseReadEnd, CloseWriteEnd, Wait, vars, buildVars
<1>2. ASSUME NEW w \in Worker, pc'[w] # "run" PROVE pc[w] # "run"
  <2>1. pc \in [Proc -> Calls] /\ w \in Proc /\ w # Parent
    BY ParentIsNoWorker DEF PoolInv, PoolTypes, Proc
  <2>2. CASE Pipe \/ Fails \/ CloseReadEnd \/ Destroy \/ UNCHANGED vars
    BY <1>2, <2>1, <2>2
    DEF Pipe, Fails, CloseReadEnd, Destroy, CloseWriteEnd, Wait, Exit, GoTo, vars
  <2>3. CASE Fork
    <3>1. built < numWorkers /\ pc[Parent] # "close read end"
      BY <2>3 DEF Fork, PoolInv, Stage
    <3>2. w = built => pc[w] = "unborn"
      BY <3>1 DEF PoolInv, Stage
    <3> QED
      BY <1>2, <2>1, <2>3, <3>2 DEF Fork
  <2> QED
    BY <2>2, <2>3 DEF Build
<1> QED
  BY <1>1, <1>2, TurnsKept DEF TaskInv, taskVars

\* submit adds the next task to the worker whose turn it is.
LEMMA SubmitKeepsTasks ==
    ASSUME PoolInv, TaskInv, Submit
    PROVE  TaskInv'
<1> DEFINE k == submitted + 1
<1>1. /\ submitted \in Nat /\ numWorkers \in Nat \ {0} /\ nextWorker \in Worker
      /\ \A w \in Worker : ran[w] \in Seq(Nat) /\ current[w] \in Seq(Nat) /\ pipe[w] \in Seq(Nat)
      /\ nextWorker = submitted % numWorkers
  BY Bounds DEF PoolInv, PoolTypes, TaskInv
<1>2. /\ UNCHANGED <<pc, numWorkers, ran, current>> /\ submitted' = k
      /\ pipe' = [pipe EXCEPT ![nextWorker] = Append(@, k)]
      /\ nextWorker' = (nextWorker + 1) % numWorkers
  BY DEF Submit, buildVars
<1>3. k \in Nat /\ submitted < k /\ k - 1 = submitted /\ 1..k = (1..submitted) \cup {k}
  <2>1. submitted \in Nat
    BY <1>1
  <2>2. k \in Nat /\ submitted < k /\ k - 1 = submitted
    BY <2>1
  <2>3. \A i : i \in 1..k <=> i \in 1..submitted \/ i = k
    BY <2>1
  <2> QED
    BY <2>2, <2>3
<1>4. nextWorker' = submitted' % numWorkers'
  BY <1>1, <1>2, NextTurn
<1> HIDE DEF k
<1>5. pipe' \in [Worker -> Seq(Nat)] /\ pipe \in [Worker -> Seq(Nat)]
  <2>1. pipe \in [Worker -> Seq(Nat)]
    BY DEF TaskInv
  <2>2. Append(pipe[nextWorker], k) \in Seq(Nat)
    BY <1>1, <1>3, AppendProperties
  <2> QED
    BY <1>1, <1>2, <2>1, <2>2
<1>6. ASSUME NEW w \in Worker
      PROVE  /\ Range(Tasks(w)') = Turns(w)'
             /\ \A i, j \in DOMAIN Tasks(w)' : i < j => Tasks(w)'[i] < Tasks(w)'[j]
  <2> DEFINE T == Tasks(w)
             new == Tasks(w)'
  <2>1. T \in Seq(Nat) /\ Range(T) = Turns(w) /\ \A i, j \in DOMAIN T : i < j => T[i] < T[j]
    BY <1>1, ConcatProperties DEF Tasks, TaskInv, TasksInTurn
  <2>2. CASE w # nextWorker
    <3>1. new = T
      BY <1>2, <1>5, <2>2 DEF Tasks
    <3>2. Turns(w)' = Turns(w)
      <4>1. (k - 1) % numWorkers # w
        BY <1>1, <1>3, <2>2
      <4> QED
        BY <1>2, <1>3, <4>1 DEF Turns
    <3> QED
      BY <2>1, <3>1, <3>2
  <2>3. CASE w = nextWorker
    <3>1. new = Append(T, k)
      <4>1. pipe'[w] = Append(pipe[w], k)
        BY <1>2, <1>5, <2>3
      <4>2. (ran[w] \o current[w]) \o Append(pipe[w], k)
                = Append((ran[w] \o current[w]) \o pipe[w], k)
        <5>1. ran[w] \in Seq(Nat) /\ current[w] \in Seq(Nat) /\ pipe[w] \in Seq(Nat)
          BY <1>1
        <5> QED
          BY <1>3, <5>1, AppendLast, ZenonT(30)
      <4> QED
        BY <1>2, <4>1, <4>2 DEF Tasks
    <3>2. Turns(w)' = Turns(w) \cup {k}
      <4>1. (k - 1) % numWorkers = w
        BY <1>1, <1>3, <2>3
      <4> QED
        BY <1>2, <1>3, <4>1 DEF Turns
    <3>3. \A x \in Range(T) : x < k
      BY <1>1, <1>3, <2>1 DEF Turns
    <3>4. /\ Range(Append(T, k)) = Range(T) \cup {k}
          /\ \A i, j \in DOMAIN Append(T, k) : i < j => Append(T, k)[i] < Append(T, k)[j]
      <4> HIDE DEF T
      <4> QED
        BY <1>3, <2>1, <3>3, AppendGreatest
    <3> QED
      BY <2>1, <3>1, <3>2, <3>4
  <2> QED
    BY <2>2, <2>3
<1>7. TasksInTurn'
  BY <1>6 DEF TasksInTurn
<1>8. ran' \in [Worker -> Seq(Nat)] /\ current' \in [Worker -> Seq(Nat)]
  BY <1>2 DEF TaskInv
<1> QED
  BY <1>2, <1>4, <1>5, <1>7, <1>8 DEF TaskInv

\* What a worker reads it takes from its pipe, runs and keeps among what it has run.
LEMMA WorkerKeepsTasks ==
    ASSUME PoolInv, TaskInv, NEW w \in Worker, WorkerStep(w)
    PROVE  TaskInv'
<1>1. /\ pc \in [Proc -> Calls] /\ w \in Proc /\ w # Parent
      /\ ran \in [Worker -> Seq(Nat)] /\ current \in [Worker -> Seq(Nat)]
      /\ pipe \in [Worker -> Seq(Nat)]
      /\ ran[w] \in Seq(Nat) /\ current[w] \in Seq(Nat) /\ pipe[w] \in Seq(Nat)
      /\ \A v \in Worker : v \in Proc
  BY ParentIsNoWorker DEF PoolInv, PoolTypes, TaskInv, Proc
<1>2. UNCHANGED <<numWorkers, submitted, nextWorker>>
  BY DEF WorkerStep, Start, Take, Run, EndOfFile, Exit, GoTo, buildVars, taskVars
<1>3. CASE Start(w) \/ EndOfFile(w)
  <2>1. UNCHANGED taskVars
    BY <1>3 DEF Start, EndOfFile
  <2>2. ASSUME NEW v \in Worker, pc'[v] # "run" PROVE pc[v] # "run"
    BY <1>1, <1>3, <2>2 DEF Start, EndOfFile, Exit, GoTo
  <2>3. TasksInTurn'
    BY <1>2, <2>1, TurnsKept DEF TaskInv, taskVars
  <2>4. nextWorker' = submitted' % numWorkers'
    BY <1>2 DEF TaskInv
  <2>5. \A v \in Worker : pc'[v] # "run" => current'[v] = <<>>
    BY <2>1, <2>2 DEF TaskInv, taskVars
  <2>6. UNCHANGED <<ran, current, pipe>>
    BY <2>1 DEF taskVars
  <2> QED
    BY <1>1, <2>3, <2>4, <2>5, <2>6 DEF TaskInv
<1>4. CASE Take(w)
  <2> DEFINE head == Head(pipe[w])
             tail == Tail(pipe[w])
  <2>1. /\ pc[w] = "read" /\ pipe[w] # <<>> /\ current' = [current EXCEPT ![w] = <<head>>]
        /\ pipe' = [pipe EXCEPT ![w] = tail] /\ pc' = [pc EXCEPT ![w] = "run"] /\ ran' = ran
    BY <1>4 DEF Take, GoTo
  <2>2. head \in Nat /\ tail \in Seq(Nat) /\ <<head>> \in Seq(Nat) /\ <<head>> \o tail = pipe[w]
    BY <1>1, <2>1
  <2> HIDE DEF head, tail
  <2>3. /\ ran' \in [Worker -> Seq(Nat)] /\ current' \in [Worker -> Seq(Nat)]
        /\ pipe' \in [Worker -> Seq(Nat)]
    BY <1>1, <2>1, <2>2
  <2>4. current[w] = <<>>
    BY <2>1 DEF TaskInv
  <2>5. Tasks(w)' = Tasks(w)
    <3>1. Tasks(w)' = (ran[w] \o <<head>>) \o tail
      BY <1>1, <2>1 DEF Tasks
    <3>2. (ran[w] \o <<head>>) \o tail = ran[w] \o pipe[w]
      BY <1>1, <2>1, HeadMoves DEF head, tail
    <3>3. ran[w] \o <<>> = ran[w]
      BY <1>1, ConcatEmptySeq
    <3> QED
      BY <2>4, <3>1, <3>2, <3>3 DEF Tasks
  <2>6. ASSUME NEW v \in Worker PROVE Tasks(v)' = Tasks(v) /\ Turns(v)' = Turns(v)
    BY <1>1, <1>2, <2>1, <2>5 DEF Tasks, Turns
  <2>7. ASSUME NEW v \in Worker, pc'[v] # "run" PROVE current'[v] = <<>>
    BY <1>1, <2>1, <2>7 DEF TaskInv
  <2> QED
    BY <1>2, <2>3, <2>6, <2>7 DEF TaskInv, TasksInTurn
<1>5. CASE Run(w)
  <2>1. /\ ran' = [ran EXCEPT ![w] = @ \o current[w]] /\ current' = [current EXCEPT ![w] = <<>>]
        /\ pc' = [pc EXCEPT ![w] = "read"] /\ pipe' = pipe
    BY <1>5 DEF Run, GoTo
  <2>2. ran[w] \o current[w] \in Seq(Nat) /\ <<>> \in Seq(Nat)
    BY <1>1, ConcatProperties
  <2>3. /\ ran' \in [Worker -> Seq(Nat)] /\ current' \in [Worker -> Seq(Nat)]
        /\ pipe' \in [Worker -> Seq(Nat)]
    BY <1>1, <2>1, <2>2
  <2>4. Tasks(w)' = Tasks(w)
    <3>1. Tasks(w)' = ((ran[w] \o current[w]) \o <<>>) \o pipe[w]
      BY <1>1, <2>1 DEF Tasks
    <3>2. (ran[w] \o current[w]) \o <<>> = ran[w] \o current[w]
      BY <2>2, ConcatEmptySeq
    <3> QED
      BY <3>1, <3>2 DEF Tasks
  <2>5. ASSUME NEW v \in Worker PROVE Tasks(v)' = Tasks(v) /\ Turns(v)' = Turns(v)
    BY <1>1, <1>2, <2>1, <2>4 DEF Tasks, Turns
  <2>6. ASSUME NEW v \in Worker, pc'[v] # "run" PROVE current'[v] = <<>>
    BY <1>1, <2>1, <2>6 DEF TaskInv
  <2> QED
    BY <1>2, <2>3, <2>5, <2>6 DEF TaskInv, TasksInTurn
<1> QED
  BY <1>3, <1>4, <1>5 DEF WorkerStep

\* Every task goes to one worker, once and in order, to every one in its turn, for
\* every size of the pool and whatever the workers' pace.
THEOREM TasksGoRound == Spec => []TasksInTurn
<1>1. TaskInv => TasksInTurn
  BY DEF TaskInv
<1>2. PoolInv /\ TaskInv /\ [Next]_vars => TaskInv'
  BY BuildKeepsTasks, SubmitKeepsTasks, WorkerKeepsTasks DEF Next
<1> QED
  BY <1>1, <1>2, TaskInit, PoolCorrect, PTL DEF Spec
=============================================================================
