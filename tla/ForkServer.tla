---------------------------- MODULE ForkServer -----------------------------
(***************************************************************************)
(* Two programs that fork and learn of the end of their children from      *)
(* SIGCHLD.  multi_process/3http_server.cpp forks a process for each       *)
(* client; signal/process_zombie_with_signal.cpp forks one that sleeps.    *)
(*                                                                         *)
(* The steps are the system calls.  A standard signal is pending or not:   *)
(* two children that end while it is pending are one signal.  The handler  *)
(* runs between any two steps of the main loop, also in the middle of a    *)
(* blocked accept(), which goes on afterwards (SA_RESTART); SIGCHLD is     *)
(* blocked while it runs.                                                  *)
(***************************************************************************)
EXTENDS Naturals, FiniteSets, Programs

CONSTANTS
    Server,     \* the process that listens
    Client,     \* bound: the clients that ever come; child k serves client k
    Listener    \* the listening socket

ASSUME ForkNames == Server \notin Client /\ Listener \notin Client

Forking == {"3http_server", "process_zombie_with_signal"}

VARIABLES
    server,     \* the next call of main
    serving,    \* clientSocket: the client of this turn, as a set of at most one
    handler,    \* whether the SIGCHLD handler runs
    sigchld,    \* whether SIGCHLD is pending
    child,      \* child[k]: the next call of the process forked for client k
    client,     \* client[k]: what the other end of the connection has done
    queue,      \* connections that accept() has not returned
    holders,    \* holders[s]: the processes that have a descriptor of socket s
    answered,   \* clients the response has been written to
    refused     \* clients that were closed because fork() failed

processVars == <<server, serving, handler, sigchld, child, holders>>
clientVars == <<client, queue, answered, refused>>
forkVars == <<processVars, clientVars>>

ForkTypeOK ==
    /\ server \in {"listen", "accept", "fork", "close", "sleep", "failed"}
    /\ serving \subseteq Client /\ Cardinality(serving) <= 1
    /\ handler \in BOOLEAN /\ sigchld \in BOOLEAN
    /\ child \in [Client -> {"none", "close listener", "read", "write", "close client",
                             "sleep", "zombie", "reaped"}]
    /\ client \in [Client -> {"away", "connected", "sent", "left"}]
    /\ queue \subseteq Client /\ answered \subseteq Client /\ refused \subseteq Client
    /\ holders \in [Client \cup {Listener} -> SUBSET (Client \cup {Server})]

ForkInit ==
    /\ server = IF program = "3http_server" THEN "listen" ELSE "fork"
    /\ serving = {}
    /\ handler = FALSE /\ sigchld = FALSE
    /\ child = [k \in Client |-> "none"]
    /\ client = [k \in Client |-> "away"]
    /\ queue = {} /\ answered = {} /\ refused = {}
    /\ holders = [s \in Client \cup {Listener} |-> {}]

----------------------------------------------------------------------------
(* The clients: they connect, send a request or never do, and may hang up. *)

Connect(k) == /\ client[k] = "away" /\ Server \in holders[Listener]
              /\ client' = [client EXCEPT ![k] = "connected"]
              /\ queue' = queue \cup {k}
              /\ UNCHANGED <<processVars, answered, refused>>

Request(k) == /\ client[k] = "connected"
              /\ client' = [client EXCEPT ![k] = "sent"]
              /\ UNCHANGED <<processVars, queue, answered, refused>>

HangUp(k) == /\ client[k] \in {"connected", "sent"}
             /\ client' = [client EXCEPT ![k] = "left"]
             /\ UNCHANGED <<processVars, queue, answered, refused>>

----------------------------------------------------------------------------
(* main, which the handler interrupts *)

Main(call) == server = call /\ ~handler

\* socket(), bind(), listen() and signal()
Listen == /\ Main("listen")
          /\ holders' = [holders EXCEPT ![Listener] = {Server}]
          /\ server' = "accept"
          /\ UNCHANGED <<serving, handler, sigchld, child, clientVars>>

ListenFails == /\ Main("listen")
               /\ server' = "failed"
               /\ UNCHANGED <<serving, handler, sigchld, child, holders, clientVars>>

Accept(k) ==
    /\ Main("accept") /\ k \in queue
    /\ queue' = queue \ {k}
    /\ serving' = {k}
    /\ holders' = [holders EXCEPT ![k] = {Server}]
    /\ server' = "fork"
    /\ UNCHANGED <<handler, sigchld, child, client, answered, refused>>

\* Mutant of AcceptFails: an error of accept() ends main.
AcceptGivesUp(k) ==
    /\ Main("accept") /\ k \in queue /\ client[k] = "left"
    /\ server' = "failed"
    /\ UNCHANGED <<serving, handler, sigchld, child, holders, clientVars>>

\* The client has left before its turn: accept() fails, and the loop goes on.
AcceptFails(k) ==
    /\ Main("accept") /\ k \in queue /\ client[k] = "left"
    /\ queue' = queue \ {k}
    /\ UNCHANGED <<processVars, client, answered, refused>>

Closed(p, s) == [holders EXCEPT ![s] = @ \ {p}]

\* The child has all the descriptors of the server.
Fork(k) ==
    /\ Main("fork") /\ serving = {k}
    /\ child' = [child EXCEPT ![k] = "close listener"]
    /\ holders' = [s \in DOMAIN holders |->
           IF Server \in holders[s] THEN holders[s] \cup {k} ELSE holders[s]]
    /\ server' = "close"
    /\ UNCHANGED <<serving, handler, sigchld, clientVars>>

ForkFails(k) ==
    /\ Main("fork") /\ serving = {k}
    /\ holders' = Closed(Server, k)
    /\ serving' = {} /\ refused' = refused \cup {k}
    /\ server' = "accept"
    /\ UNCHANGED <<handler, sigchld, child, client, queue, answered>>

\* Mutant of CloseClient: the server keeps the descriptor.
KeepClient(k) ==
    /\ Main("close") /\ serving = {k}
    /\ serving' = {}
    /\ server' = "accept"
    /\ UNCHANGED <<handler, sigchld, child, holders, clientVars>>

CloseClient(k) ==
    /\ Main("close") /\ serving = {k}
    /\ holders' = Closed(Server, k)
    /\ serving' = {}
    /\ server' = "accept"
    /\ UNCHANGED <<handler, sigchld, child, clientVars>>

----------------------------------------------------------------------------
(* A child *)

\* The process is gone but for its exit status: the kernel closes what it has
\* open and sends SIGCHLD to the server.
Ends(k) == /\ child' = [child EXCEPT ![k] = "zombie"]
           /\ holders' = [s \in DOMAIN holders |-> holders[s] \ {k}]
           /\ sigchld' = TRUE
           /\ UNCHANGED <<server, serving, handler>>

CloseListener(k) ==
    /\ child[k] = "close listener"
    /\ holders' = Closed(k, Listener)
    /\ child' = [child EXCEPT ![k] = "read"]
    /\ UNCHANGED <<server, serving, handler, sigchld, clientVars>>

\* read() returns the request, or nothing when the client has left: both are
\* answered.
Read(k) ==
    /\ child[k] = "read" /\ client[k] \in {"sent", "left"}
    /\ child' = [child EXCEPT ![k] = "write"]
    /\ UNCHANGED <<server, serving, handler, sigchld, holders, clientVars>>

\* The connection was reset: handleClient closes it and returns to exit(0).
ReadError(k) == /\ child[k] = "read" /\ client[k] = "left"
                /\ Ends(k)
                /\ UNCHANGED clientVars

Write(k) ==
    /\ child[k] = "write"
    /\ child' = [child EXCEPT ![k] = "close client"]
    /\ answered' = IF client[k] = "left" THEN answered ELSE answered \cup {k}
    /\ UNCHANGED <<server, serving, handler, sigchld, holders, client, queue, refused>>

\* The client has left: SIGPIPE ends the child, and only the child.
BrokenPipe(k) == /\ child[k] = "write" /\ client[k] = "left"
                 /\ Ends(k)
                 /\ UNCHANGED clientVars

\* close(clientSocket), and exit(0) with what else is open.
Exit(k) == /\ child[k] = "close client"
           /\ Ends(k)
           /\ UNCHANGED clientVars

HandleClient(k) ==
    CloseListener(k) \/ Read(k) \/ ReadError(k) \/ Write(k) \/ BrokenPipe(k) \/ Exit(k)

----------------------------------------------------------------------------
(* The handler *)

Deliver == /\ sigchld /\ ~handler
           /\ handler' = TRUE /\ sigchld' = FALSE
           /\ UNCHANGED <<server, serving, child, holders, clientVars>>

\* Mutant of Reap: if for while, one waitpid() for each signal.
ReapOne(k) == /\ handler /\ child[k] = "zombie"
              /\ child' = [child EXCEPT ![k] = "reaped"]
              /\ handler' = FALSE
              /\ UNCHANGED <<server, serving, sigchld, holders, clientVars>>

\* waitpid(-1, WNOHANG) > 0
Reap(k) == /\ handler /\ child[k] = "zombie"
           /\ child' = [child EXCEPT ![k] = "reaped"]
           /\ UNCHANGED <<server, serving, handler, sigchld, holders, clientVars>>

\* waitpid() finds no zombie: 0, or -1 when there is no child at all.
Return == /\ handler /\ \A k \in Client : child[k] # "zombie"
          /\ handler' = FALSE
          /\ UNCHANGED <<server, serving, sigchld, child, holders, clientVars>>

Handler == Deliver \/ Return \/ \E k \in Client : Reap(k)

Serve == \E k \in Client :
    Accept(k) \/ AcceptFails(k) \/ Fork(k) \/ ForkFails(k) \/ CloseClient(k)

HttpNext ==
    /\ program = "3http_server"
    /\ \/ Listen \/ ListenFails \/ Serve \/ Handler
       \/ \E k \in Client : Connect(k) \/ Request(k) \/ HangUp(k) \/ HandleClient(k)

----------------------------------------------------------------------------
(* process_zombie_with_signal.cpp: main forks one process and sleeps forever. *)

ForkSleeper(k) ==
    /\ Main("fork")
    /\ child' = [child EXCEPT ![k] = "sleep"]
    /\ server' = "sleep"
    /\ UNCHANGED <<serving, handler, sigchld, holders, clientVars>>

SleeperFails == /\ Main("fork")
                /\ server' = "failed"
                /\ UNCHANGED <<serving, handler, sigchld, child, holders, clientVars>>

\* It returns 42, or a signal kills it: the handler is told either way.
SleeperEnds(k) == child[k] = "sleep" /\ Ends(k) /\ UNCHANGED clientVars

ZombieNext ==
    /\ program = "process_zombie_with_signal"
    /\ \/ SleeperFails \/ Handler
       \/ \E k \in Client : ForkSleeper(k) \/ SleeperEnds(k)

ForkNext == HttpNext \/ ZombieNext

----------------------------------------------------------------------------
\* However many children end while the handler runs or its signal is pending, a
\* zombie is never forgotten: the handler has still to look for it.
NoChildForgotten ==
    (\E k \in Client : child[k] = "zombie") => sigchld \/ handler

\* A connection ends when the child that serves it closes it: no other child has
\* inherited it, and the server gives it up before the next client's fork().
OwnClientOnly ==
    \A k \in Client :
        /\ holders[k] \subseteq {Server, k}
        /\ Server \in holders[k] => serving = {k}

\* A client that has sent its request gets its answer and the end of its
\* connection, though others connect and never send: fork() failing is the only
\* way out.
EveryClientServed ==
    \A k \in Client :
        client[k] = "sent" ~> /\ holders[k] = {}
                              /\ k \in answered \cup refused \/ client[k] = "left"
===========================================================================
