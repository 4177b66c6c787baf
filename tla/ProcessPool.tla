---------------------------- MODULE ProcessPool ----------------------------
(***************************************************************************)
(* multi_process/2process_pool.cpp: a process forks its workers one after  *)
(* the other, each with a pipe of its own, and writes tasks to the pipes   *)
(* in turn.  A worker runs what it reads and exits at end of file, which   *)
(* comes when NO process holds the write end of its pipe any more.         *)
(*                                                                         *)
(* The steps are the system calls.  File descriptors are modelled as the   *)
(* kernel keeps them: a table per process, from number to open file, which *)
(* fork() copies and exit() closes.  A task is its number in the order of  *)
(* submission; its bytes are written and read in one piece.                *)
(***************************************************************************)
EXTENDS Integers, Sequences, FiniteSetsExt, Functions

CONSTANTS
    Parent,     \* the process that owns the pool
    MaxWorkers, \* bound: workers of a pool
    FirstFd,    \* the lowest number free before the pool is built
    PipeTasks,  \* bound: tasks that fit into a pipe before write() blocks
    MaxTasks    \* bound: tasks submitted

ASSUME Sizes == MaxWorkers \in Nat \ {0} /\ FirstFd \in Nat
ASSUME Bounds == PipeTasks \in Nat \ {0} /\ MaxTasks \in Nat

Worker == 0..(MaxWorkers - 1)
Proc == {Parent} \cup Worker

ASSUME ParentIsNoWorker == Parent \notin Worker

VARIABLES
    fds,        \* fds[p]: file descriptor -> open file, for those p has open
    pc,         \* pc[p]: the next system call of p
    numWorkers, \* the size the constructor was asked for
    built,      \* workers the constructor has finished
    reaped,     \* workers the destructor has waited for
    pipe,       \* pipe[w]: the tasks in the pipe of worker w
    current,    \* current[w]: the task worker w runs, as a sequence of at most one
    submitted,  \* tasks submitted so far
    nextWorker,
    ran         \* history: ran[w], the tasks worker w has run

buildVars == <<numWorkers, built, reaped>>
taskVars == <<pipe, current, submitted, nextWorker, ran>>
vars == <<fds, pc, buildVars, taskVars>>

ReadEnd(w) == <<"read end", w>>
WriteEnd(w) == <<"write end", w>>

Holds(p, file) == file \in Range(fds[p])
Writers(w) == {p \in Proc : Holds(p, WriteEnd(w))}

\* The two lowest numbers that are free in the parent.
FreeFd(table) == Min((FirstFd..(FirstFd + MaxWorkers + MaxTasks + 1)) \ DOMAIN table)
Opened(table, file) ==
    [fd \in DOMAIN table \cup {FreeFd(table)} |->
        IF fd \in DOMAIN table THEN table[fd] ELSE file]

Closed(table, file) == Restrict(table, {fd \in DOMAIN table : table[fd] # file})

Init ==
    /\ fds = [p \in Proc |-> <<>>]
    /\ pc = [p \in Proc |-> IF p = Parent THEN "pipe" ELSE "unborn"]
    /\ numWorkers \in 1..MaxWorkers
    /\ built = 0 /\ reaped = 0
    /\ pipe = [w \in Worker |-> <<>>]
    /\ current = [w \in Worker |-> <<>>]
    /\ submitted = 0 /\ nextWorker = 0
    /\ ran = [w \in Worker |-> <<>>]

GoTo(p, call) == pc' = [pc EXCEPT ![p] = call]

\* exit(): the kernel closes everything the process has open.
Exit(p) == /\ GoTo(p, "gone")
           /\ fds' = [fds EXCEPT ![p] = <<>>]

----------------------------------------------------------------------------
(* The constructor *)

Pipe == /\ pc[Parent] = "pipe"
        /\ fds' = [fds EXCEPT ![Parent] =
               Opened(Opened(@, ReadEnd(built)), WriteEnd(built))]
        /\ GoTo(Parent, "fork")
        /\ UNCHANGED <<buildVars, taskVars>>

Fork == /\ pc[Parent] = "fork"
        /\ fds' = [fds EXCEPT ![built] = fds[Parent]]
        /\ pc' = [pc EXCEPT ![Parent] = "close read end", ![built] = "close write end"]
        /\ UNCHANGED <<buildVars, taskVars>>

\* pipe() or fork() fails: exit(1), with no destructor.
Fails == /\ pc[Parent] \in {"pipe", "fork"}
         /\ Exit(Parent)
         /\ UNCHANGED <<buildVars, taskVars>>

\* Mutant of CloseReadEnd: the parent keeps it.
KeepReadEnd == /\ pc[Parent] = "close read end"
               /\ built' = built + 1
               /\ GoTo(Parent, IF built' = numWorkers THEN "submit" ELSE "pipe")
               /\ UNCHANGED <<fds, numWorkers, reaped, taskVars>>

CloseReadEnd == /\ pc[Parent] = "close read end"
                /\ fds' = [fds EXCEPT ![Parent] = Closed(@, ReadEnd(built))]
                /\ built' = built + 1
                /\ GoTo(Parent, IF built' = numWorkers THEN "submit" ELSE "pipe")
                /\ UNCHANGED <<numWorkers, reaped, taskVars>>

----------------------------------------------------------------------------
(* submit *)

\* Mutant of Submit: it writes beyond what the pipe holds.
SubmitUnblocked ==
    /\ pc[Parent] = "submit" /\ submitted < MaxTasks
    /\ submitted' = submitted + 1
    /\ pipe' = [pipe EXCEPT ![nextWorker] = Append(@, submitted')]
    /\ nextWorker' = (nextWorker + 1) % numWorkers
    /\ UNCHANGED <<fds, pc, buildVars, current, ran>>

\* write() blocks while the pipe is full.
Submit ==
    /\ pc[Parent] = "submit" /\ submitted < MaxTasks
    /\ Len(pipe[nextWorker]) < PipeTasks
    /\ submitted' = submitted + 1
    /\ pipe' = [pipe EXCEPT ![nextWorker] = Append(@, submitted')]
    /\ nextWorker' = (nextWorker + 1) % numWorkers
    /\ UNCHANGED <<fds, pc, buildVars, current, ran>>

----------------------------------------------------------------------------
(* The destructor *)

CloseWriteEnd == /\ pc[Parent] = "submit" \/ pc[Parent] = "close"
                 /\ fds' = [fds EXCEPT ![Parent] = Closed(@, WriteEnd(reaped))]
                 /\ GoTo(Parent, "wait")
                 /\ UNCHANGED <<buildVars, taskVars>>

\* waitpid() of the worker whose pipe was closed
Wait == /\ pc[Parent] = "wait" /\ pc[reaped] = "gone"
        /\ reaped' = reaped + 1
        /\ IF reaped' = numWorkers THEN Exit(Parent)
                                   ELSE GoTo(Parent, "close") /\ UNCHANGED fds
        /\ UNCHANGED <<numWorkers, built, taskVars>>

----------------------------------------------------------------------------
(* A worker *)

\* Mutant of Start: the worker keeps the write end of its own pipe.
KeepWriteEnd(w) == /\ pc[w] = "close write end"
                   /\ GoTo(w, "read")
                   /\ UNCHANGED <<fds, buildVars, taskVars>>

Start(w) == /\ pc[w] = "close write end"
            /\ fds' = [fds EXCEPT ![w] = Closed(@, WriteEnd(w))]
            /\ GoTo(w, "read")
            /\ UNCHANGED <<buildVars, taskVars>>

\* Mutant of Take: the buffer holds more than one task.
TakeAll(w) == /\ pc[w] = "read" /\ pipe[w] # <<>>
              /\ current' = [current EXCEPT ![w] = <<Head(pipe[w])>>]
              /\ pipe' = [pipe EXCEPT ![w] = <<>>]
              /\ GoTo(w, "run")
              /\ UNCHANGED <<fds, buildVars, submitted, nextWorker, ran>>

Take(w) == /\ pc[w] = "read" /\ pipe[w] # <<>>
           /\ current' = [current EXCEPT ![w] = <<Head(pipe[w])>>]
           /\ pipe' = [pipe EXCEPT ![w] = Tail(@)]
           /\ GoTo(w, "run")
           /\ UNCHANGED <<fds, buildVars, submitted, nextWorker, ran>>

Run(w) == /\ pc[w] = "run"
          /\ ran' = [ran EXCEPT ![w] = @ \o current[w]]
          /\ current' = [current EXCEPT ![w] = <<>>]
          /\ GoTo(w, "read")
          /\ UNCHANGED <<fds, buildVars, pipe, submitted, nextWorker>>

\* Mutant of EndOfFile: read() does not block on an empty pipe.
EndWhenEmpty(w) == /\ pc[w] = "read" /\ pipe[w] = <<>>
                   /\ Exit(w)
                   /\ UNCHANGED <<buildVars, taskVars>>

\* read() returns 0
EndOfFile(w) == /\ pc[w] = "read" /\ pipe[w] = <<>> /\ Writers(w) = {}
                /\ Exit(w)
                /\ UNCHANGED <<buildVars, taskVars>>

Build == Pipe \/ Fork \/ CloseReadEnd
Destroy == CloseWriteEnd \/ Wait
WorkerStep(w) == Start(w) \/ Take(w) \/ Run(w) \/ EndOfFile(w)

Next == Build \/ Fails \/ Submit \/ Destroy \/ \E w \in Worker : WorkerStep(w)

Spec == Init /\ [][Next]_vars

\* The kernel runs every process; the owner need not submit, and pipe() and
\* fork() need not fail.  Once begun, the destructor goes on.
FairSpec ==
    /\ Spec
    /\ WF_vars(Build)
    /\ WF_vars(pc[Parent] # "submit" /\ Destroy)
    /\ \A w \in Worker : WF_vars(WorkerStep(w))

----------------------------------------------------------------------------
Calls == {"pipe", "fork", "close read end", "submit", "close", "wait", "gone",
          "unborn", "close write end", "read", "run"}

\* Types, and a pipe never holds more than the kernel gives it.
TypeOK ==
    /\ pc \in [Proc -> Calls]
    /\ DOMAIN fds = Proc
    /\ numWorkers \in 1..MaxWorkers
    /\ built \in 0..numWorkers /\ reaped \in 0..numWorkers
    /\ submitted \in 0..MaxTasks /\ nextWorker \in Worker
    /\ DOMAIN pipe = Worker /\ \A w \in Worker : Len(pipe[w]) <= PipeTasks

\* What worker w has run, runs and is to read, and what it should get.
Tasks(w) == ran[w] \o current[w] \o pipe[w]
Turns(w) == {k \in 1..submitted : (k - 1) % numWorkers = w}

\* Each task reaches one worker, once, in the order of submission, whatever the
\* workers' pace, and the load is even: worker w gets every numWorkers-th task.
TasksInTurn ==
    \A w \in Worker :
        /\ Range(Tasks(w)) = Turns(w)
        /\ \A i, j \in DOMAIN Tasks(w) : i < j => Tasks(w)[i] < Tasks(w)[j]

\* Only worker w reads its pipe: the copies of the read end that fork() could
\* spread are closed before the next fork().
OneReader ==
    \A w \in Worker : \A p \in Proc :
        Holds(p, ReadEnd(w)) => p = w \/ (p = Parent /\ built = w)

\* No worker is gone while tasks can still be submitted to it: the owner would
\* be killed by SIGPIPE in submit.
NoBrokenPipe == \A w \in Worker : pc[w] = "gone" => ~Holds(Parent, WriteEnd(w))

\* A task that was submitted is run, also when the owner has gone.
TasksRun ==
    \A k \in 1..MaxTasks :
        submitted >= k ~> \E w \in Worker : k \in Range(ran[w])

\* When the owner exits in the middle of its constructor, the workers it has
\* forked exit too, the last one first: they hold each other's write ends.
WorkersFollow ==
    pc[Parent] = "gone" ~> \A w \in Worker : pc[w] \in {"unborn", "gone"}

\* "the destructor reaps the workers" (line 69)
DestructorReaps == pc[Parent] = "wait" ~> reaped = numWorkers
===========================================================================
