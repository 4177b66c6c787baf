------------------------------- MODULE Pipes -------------------------------
(***************************************************************************)
(* The programs of pipe/.  Each has a process that writes and one that     *)
(* reads, and they meet in a pipe:                                         *)
(*   unnamed_pipe  the reader makes the pipe and forks the writer;         *)
(*   named_pipe    the writer makes a FIFO in the directory and forks the  *)
(*                 reader; nobody ever removes the FIFO;                   *)
(*   name_pipe     name_pipe_write and name_pipe_read, two programs that   *)
(*                 are started one by one, in either order.                *)
(*                                                                         *)
(* The steps are the system calls.  A pipe is a number of bytes; open()    *)
(* of a FIFO to read or to write waits for the other side.                 *)
(***************************************************************************)
EXTENDS Integers, FiniteSetsExt, Programs

CONSTANTS
    Buffer,     \* what one read takes at most, and one write of a buffer (1024)
    Message,    \* what name_pipe_write writes at once (14)
    Capacity    \* what a pipe holds (64 KB)

ASSUME PipeSizes == /\ Buffer \in Nat \ {0} /\ Message \in Nat \ {0}
                    /\ Capacity \in Nat /\ Message <= Buffer /\ Buffer <= Capacity

VARIABLES
    step,       \* step[p]: the next call of process p
    fifo,       \* whether the FIFO is in the directory
    readers,    \* the processes that have the pipe open to read
    writers,    \* the processes that have it open to write
    bytes,      \* what is in the pipe
    offset,     \* where in a message the first of them is
    sent,       \* whether the writer has written
    printed     \* what the reader has printed last

pipeVars == <<step, fifo, readers, writers, bytes, offset, sent, printed>>

Piping == {"unnamed_pipe", "named_pipe", "name_pipe"}
Process == {"reader", "writer"}

Calls == {"none", "pipe", "fork", "close", "type", "access", "mkfifo", "open",
          "opening", "read", "write", "exit", "gone"}

PipeTypeOK ==
    /\ step \in [Process -> Calls] /\ fifo \in BOOLEAN
    /\ readers \subseteq Process /\ writers \subseteq Process
    /\ bytes \in 0..Capacity /\ offset \in 0..Message - 1
    /\ sent \in BOOLEAN /\ printed \in {"nothing", "whole", "rest", "stale"}

\* An earlier run may have left its FIFO.
PipeInit ==
    /\ step = [p \in Process |->
           CASE program = "unnamed_pipe" -> IF p = "reader" THEN "pipe" ELSE "none"
             [] program = "named_pipe" -> IF p = "writer" THEN "mkfifo" ELSE "none"
             [] program = "name_pipe" -> IF p = "writer" THEN "access" ELSE "open"
             [] OTHER -> "none"]
    /\ fifo \in IF program \in {"named_pipe", "name_pipe"} THEN BOOLEAN ELSE {FALSE}
    /\ readers = {} /\ writers = {}
    /\ bytes = 0 /\ offset = 0
    /\ sent = FALSE /\ printed = "nothing"

At(p, call) == step[p] = call
To(p, call) == step' = [step EXCEPT ![p] = call]

\* The kernel closes what p has open; a pipe nobody has open is empty.
Ended(p) ==
    /\ To(p, "gone")
    /\ readers' = readers \ {p} /\ writers' = writers \ {p}
    /\ bytes' = IF readers' \cup writers' = {} THEN 0 ELSE bytes
    /\ UNCHANGED <<fifo, offset, sent, printed>>

----------------------------------------------------------------------------
(* unnamed_pipe: the pipe and the fork() *)

MakePipe == /\ At("reader", "pipe")
            /\ readers' = {"reader"} /\ writers' = {"reader"}
            /\ To("reader", "fork")
            /\ UNCHANGED <<fifo, bytes, offset, sent, printed>>

ForkWriter ==
    /\ At("reader", "fork")
    /\ step' = [step EXCEPT !["reader"] = "close", !["writer"] = "type"]
    /\ readers' = Process /\ writers' = Process
    /\ UNCHANGED <<fifo, bytes, offset, sent, printed>>

\* -1 is not 0: the parent goes on, without a writer.
NoWriter == /\ At("reader", "fork")
            /\ To("reader", "close")
            /\ UNCHANGED <<fifo, readers, writers, bytes, offset, sent, printed>>

\* Mutant of CloseUnused: the parent keeps the write end.
CloseReadOnly(p) ==
    /\ At(p, "close")
    /\ To(p, IF p = "reader" THEN "read" ELSE "write")
    /\ readers' = IF p = "writer" THEN readers \ {p} ELSE readers
    /\ UNCHANGED <<fifo, writers, bytes, offset, sent, printed>>

\* Mutant of CloseUnused: the child closes the end it is going to write to as well.
CloseBothEnds(p) ==
    /\ At(p, "close")
    /\ To(p, IF p = "reader" THEN "read" ELSE "write")
    /\ readers' = IF p = "writer" THEN readers \ {p} ELSE readers
    /\ writers' = writers \ {p}
    /\ UNCHANGED <<fifo, bytes, offset, sent, printed>>

\* Each closes the end it does not use.
CloseUnused(p) ==
    /\ At(p, "close")
    /\ To(p, IF p = "reader" THEN "read" ELSE "write")
    /\ readers' = IF p = "writer" THEN readers \ {p} ELSE readers
    /\ writers' = IF p = "reader" THEN writers \ {p} ELSE writers
    /\ UNCHANGED <<fifo, bytes, offset, sent, printed>>

----------------------------------------------------------------------------
(* named_pipe and name_pipe: the FIFO *)

Access == /\ At("writer", "access")
          /\ To("writer", IF fifo THEN "open" ELSE "mkfifo")
          /\ UNCHANGED <<fifo, readers, writers, bytes, offset, sent, printed>>

MkFifo == /\ At("writer", "mkfifo") /\ ~fifo
          /\ fifo' = TRUE
          /\ To("writer", IF program = "named_pipe" THEN "fork" ELSE "open")
          /\ UNCHANGED <<readers, writers, bytes, offset, sent, printed>>

FifoExists == At("writer", "mkfifo") /\ fifo /\ Ended("writer")

ForkReader ==
    /\ At("writer", "fork")
    /\ step' = [step EXCEPT !["reader"] = "open", !["writer"] = "open"]
    /\ UNCHANGED <<fifo, readers, writers, bytes, offset, sent, printed>>

NoReader == /\ At("writer", "fork")
            /\ To("writer", "open")
            /\ UNCHANGED <<fifo, readers, writers, bytes, offset, sent, printed>>

\* O_RDONLY and O_WRONLY wait for the other side; O_RDWR, in named_pipe, is both.
\* Whoever waits in open() goes on together with the process it has waited for.
Waits(p) == At(p, "opening")
Ready(p) == IF p = "reader" THEN "read"
            ELSE IF program = "named_pipe" THEN "type" ELSE "write"

Meets(p) == IF p = "reader" THEN writers # {} \/ Waits("writer")
            ELSE program = "named_pipe" \/ "reader" \in readers \/ Waits("reader")

Open(p) ==
    /\ At(p, "open") /\ fifo
    /\ IF Meets(p)
       THEN LET in == {p} \cup {q \in Process : Waits(q)}
            IN /\ step' = [q \in Process |-> IF q \in in THEN Ready(q) ELSE step[q]]
               /\ readers' = readers \cup (in \cap {"reader"})
                      \cup (IF program = "named_pipe" THEN in \cap {"writer"} ELSE {})
               /\ writers' = writers \cup (in \cap {"writer"})
       ELSE To(p, "opening") /\ UNCHANGED <<readers, writers>>
    /\ UNCHANGED <<fifo, bytes, offset, sent, printed>>

\* There is no FIFO, or no permission: perror() and exit(1).
OpenFails(p) == At(p, "open") /\ Ended(p)

----------------------------------------------------------------------------
(* Input, write and read *)

\* cin >> buffer: whatever is typed, or the end of the input, fills the buffer.
Type == /\ At("writer", "type")
        /\ To("writer", IF program = "unnamed_pipe" THEN "close" ELSE "write")
        /\ UNCHANGED <<fifo, readers, writers, bytes, offset, sent, printed>>

\* name_pipe_write never stops.
Put == LET size == IF program = "name_pipe" THEN Message ELSE Buffer IN
    /\ At("writer", "write") /\ readers # {}
    /\ bytes + size <= Capacity
    /\ bytes' = bytes + size
    /\ sent' = TRUE
    /\ To("writer", IF program = "name_pipe" THEN "write" ELSE "exit")
    /\ UNCHANGED <<fifo, readers, writers, offset, printed>>

\* SIGPIPE
NobodyReads == At("writer", "write") /\ readers = {} /\ Ended("writer")

\* One read() takes what is there, up to a buffer, and printf prints the text up
\* to its first NUL; the rest of the buffer is dropped.  name_pipe_read reads
\* again, and its next buffer may begin in the middle of a message.
GetBytes == LET taken == Min({bytes, Buffer}) IN
    /\ At("reader", "read") /\ bytes > 0
    /\ bytes' = bytes - taken
    /\ offset' = IF program = "name_pipe" THEN (offset + taken) % Message ELSE 0
    /\ printed' = IF offset = 0 THEN "whole" ELSE "rest"
    /\ To("reader", IF program = "name_pipe" THEN "read" ELSE "exit")
    /\ UNCHANGED <<fifo, readers, writers, sent>>

\* End of file: read() leaves the buffer as it was, and it is printed.
EndOfPipe ==
    /\ At("reader", "read") /\ bytes = 0 /\ writers = {}
    /\ printed' = "stale"
    /\ To("reader", IF program = "name_pipe" THEN "read" ELSE "exit")
    /\ UNCHANGED <<fifo, readers, writers, bytes, offset, sent>>

Leave(p) == At(p, "exit") /\ Ended(p)

\* From outside, at any time.
Kill(p) == step[p] \notin {"none", "gone"} /\ Ended(p)

Reads == \/ MakePipe \/ ForkWriter \/ NoWriter \/ CloseUnused("reader")
         \/ Open("reader") \/ OpenFails("reader") \/ GetBytes \/ EndOfPipe \/ Leave("reader")

Writes == \/ Access \/ MkFifo \/ FifoExists \/ ForkReader \/ NoReader
          \/ CloseUnused("writer") \/ Open("writer") \/ OpenFails("writer")
          \/ Put \/ NobodyReads \/ Leave("writer")

PipeNext == /\ program \in Piping
            /\ Reads \/ Writes \/ Type \/ \E p \in Process : Kill(p)

----------------------------------------------------------------------------
\* In the two programs that fork, the reader prints the buffer of the writer and
\* nothing else, unless the writer is gone before it wrote: then what is printed is
\* whatever the reader's own buffer held.
StaleOnlyUnsent ==
    program # "name_pipe" /\ printed \in {"rest", "stale"} =>
        ~sent /\ step["writer"] \in {"none", "gone"}

\* Their reader always returns once the writer is gone: no write end is left that
\* would keep read() waiting.
PipeDelivers ==
    program # "name_pipe" =>
        (step["writer"] \in {"none", "gone"} /\ step["reader"] \in {"close", "read"}
            ~> step["reader"] = "gone")
===========================================================================
