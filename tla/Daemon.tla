------------------------------ MODULE Daemon -------------------------------
(***************************************************************************)
(* deamon_process/deamon.cpp: a process started from a terminal forks, its *)
(* child leaves the session, forks again, and the grandchild drops what it *)
(* has inherited and writes to a log for ever.                             *)
(*                                                                         *)
(* Process 0 is the one the shell starts, 1 its child, 2 its grandchild;   *)
(* the steps are the system calls.  A descriptor table maps a number to    *)
(* an open file; open() takes the lowest free number.  Numbers that the    *)
(* shell or its parents left open are inherited like the standard ones.    *)
(***************************************************************************)
EXTENDS Integers, FiniteSetsExt, Functions, Programs

CONSTANT MaxFd      \* bound: sysconf(_SC_OPEN_MAX), the largest number

ASSUME DaemonBound == MaxFd \in Nat \ 0..3

VARIABLES
    stage,      \* stage[q]: the next call of process q
    session,    \* session[q]: the leader of q's session, or Shell
    group,      \* group[q]: the leader of q's process group
    table,      \* table[q]: descriptor -> open file
    cwd,        \* cwd[q]: the directory q works in
    log_fd,     \* what open() of the log returned in process 2
    logged      \* what the last dprintf() has reached

daemonVars == <<stage, session, group, table, cwd, log_fd, logged>>

Generation == 0..2
Terminal == "terminal"
Shell == -1

\* What the shell gives to process 0: any descriptors may be open, standard streams or
\* leaked ones.  Each counts as the terminal, the worst it can be.
Inherited == {[fd \in open |-> Terminal] : open \in SUBSET (0..MaxFd)}

File == {Terminal, "/tmp/daemon.log", "/dev/null to read", "/dev/null to write"}

DaemonTypeOK ==
    /\ stage \in [Generation -> {"start", "unborn", "fork", "setsid", "chdir", "close",
            "open log", "stdin", "stdout", "stderr", "log", "exit", "gone"}]
    /\ session \in [Generation -> Generation \cup {Shell}]
    /\ group \in [Generation -> Generation]
    /\ \A q \in Generation : DOMAIN table[q] \subseteq 0..MaxFd /\ Range(table[q]) \subseteq File
    /\ cwd \in [Generation -> {"anywhere", "/"}]
    /\ log_fd \in -1..MaxFd /\ logged \in {"nothing"} \cup File

DaemonInit ==
    /\ stage = [q \in Generation |-> IF q = 0 THEN "start" ELSE "unborn"]
    /\ session = [q \in Generation |-> Shell]
    /\ group = [q \in Generation |-> 0]
    /\ table = [q \in Generation |-> <<>>]
    /\ cwd = [q \in Generation |-> "anywhere"]
    /\ log_fd = -1 /\ logged = "nothing"

GoOn(q, call) == stage' = [stage EXCEPT ![q] = call]

\* exit(): its descriptors are closed.
Quit(q) == /\ GoOn(q, "gone")
           /\ table' = [table EXCEPT ![q] = <<>>]
           /\ UNCHANGED <<session, group, cwd, log_fd, logged>>

Start == /\ stage[0] = "start"
         /\ \E inherited \in Inherited : table' = [table EXCEPT ![0] = inherited]
         /\ GoOn(0, "fork")
         /\ UNCHANGED <<session, group, cwd, log_fd, logged>>

\* The child has its parent's session, group, descriptors and directory.
Forked(q, call) ==
    /\ stage' = [stage EXCEPT ![q] = "exit", ![q + 1] = call]
    /\ session' = [session EXCEPT ![q + 1] = session[q]]
    /\ group' = [group EXCEPT ![q + 1] = group[q]]
    /\ table' = [table EXCEPT ![q + 1] = table[q]]
    /\ cwd' = [cwd EXCEPT ![q + 1] = cwd[q]]
    /\ UNCHANGED <<log_fd, logged>>

Fork1 == stage[0] = "fork" /\ Forked(0, "setsid")

\* setsid() makes a new session and a new group; the leader of a group may not.
SetSid ==
    /\ stage[1] = "setsid"
    /\ IF group[1] = 1
       THEN Quit(1)
       ELSE /\ session' = [session EXCEPT ![1] = 1]
            /\ group' = [group EXCEPT ![1] = 1]
            /\ GoOn(1, "fork")
            /\ UNCHANGED <<table, cwd, log_fd, logged>>

\* Mutant of Fork2: the leader of the session goes on itself, as if it were 2.
NoSecondFork ==
    /\ stage[1] = "fork"
    /\ stage' = [stage EXCEPT ![1] = "exit", ![2] = "chdir"]
    /\ session' = [session EXCEPT ![2] = 2]
    /\ group' = [group EXCEPT ![2] = 2]
    /\ table' = [table EXCEPT ![2] = table[1]]
    /\ cwd' = [cwd EXCEPT ![2] = cwd[1]]
    /\ UNCHANGED <<log_fd, logged>>

Fork2 == stage[1] = "fork" /\ Forked(1, "chdir")

\* fork() fails in 0 or 1: EXIT_FAILURE, as if it were the parent.
ForkFailed(q) == stage[q] = "fork" /\ Quit(q)

ParentExits(q) == stage[q] = "exit" /\ Quit(q)

\* umask(0) and chdir("/")
ChangeDirectory == /\ stage[2] = "chdir"
                   /\ cwd' = [cwd EXCEPT ![2] = "/"]
                   /\ GoOn(2, "close")
                   /\ UNCHANGED <<session, group, table, log_fd, logged>>

ChdirFailed == stage[2] = "chdir" /\ Quit(2)

\* for (int x = sysconf(_SC_OPEN_MAX); x >= 0; x--) close(x)
CloseAll ==
    /\ stage[2] = "close"
    /\ table' = [table EXCEPT ![2] = Restrict(@, DOMAIN @ \ 0..MaxFd)]
    /\ GoOn(2, "open log")
    /\ UNCHANGED <<session, group, cwd, log_fd, logged>>

Lowest == Min(0..MaxFd \ DOMAIN table[2])
Opens(file) ==
    table' = [table EXCEPT ![2] =
        [fd \in DOMAIN @ \cup {Lowest} |-> IF fd = Lowest THEN file ELSE @[fd]]]

\* The first open() after all is closed: the log takes the number of standard input.
OpenLog == /\ stage[2] = "open log"
           /\ Opens("/tmp/daemon.log")
           /\ log_fd' = Lowest
           /\ GoOn(2, "stdin")
           /\ UNCHANGED <<session, group, cwd, logged>>

OpenLogFailed == stage[2] = "open log" /\ Quit(2)

\* Three opens of /dev/null: nobody looks at their numbers, nor whether they fail.
OpenNull(here, mode, next) ==
    /\ stage[2] = here
    /\ Opens(mode) \/ UNCHANGED table
    /\ GoOn(2, next)
    /\ UNCHANGED <<session, group, cwd, log_fd, logged>>

Redirect == \/ OpenNull("stdin", "/dev/null to read", "stdout")
            \/ OpenNull("stdout", "/dev/null to write", "stderr")
            \/ OpenNull("stderr", "/dev/null to write", "log")

\* dprintf(log_fd, ...), and sleep
Log == /\ stage[2] = "log"
       /\ logged' = table[2][log_fd]
       /\ UNCHANGED <<stage, session, group, table, cwd, log_fd>>

DaemonNext ==
    /\ program = "deamon"
    /\ \/ Start \/ Fork1 \/ SetSid \/ Fork2 \/ ChangeDirectory \/ ChdirFailed
       \/ CloseAll \/ OpenLog \/ OpenLogFailed \/ Redirect \/ Log
       \/ \E q \in 0..1 : ForkFailed(q) \/ ParentExits(q)

----------------------------------------------------------------------------
\* Whatever the shell left open, whichever process exits first and whichever open() of
\* /dev/null fails, the process that logs cannot get at the terminal: its session is
\* new, it does not lead it (a leader that opens a terminal would get it back), no
\* descriptor survives from before, and what it writes reaches the log.
Detached ==
    stage[2] = "log" =>
        /\ session[2] \notin {Shell, 2}
        /\ cwd[2] = "/"
        /\ Terminal \notin Range(table[2])
        /\ log_fd \in DOMAIN table[2] /\ DOMAIN table[2] \subseteq 0..3
        /\ logged \in {"nothing", "/tmp/daemon.log"}
===========================================================================
