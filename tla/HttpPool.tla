----------------------------- MODULE HttpPool ------------------------------
(***************************************************************************)
(* multi_process/httpserver.cpp over the pool of 2process_pool.cpp.  The   *)
(* server accepts a client and submits a task that holds the NUMBER of the *)
(* client's descriptor; a worker looks that number up in a table of its    *)
(* own, copied before the client came.                                     *)
(*                                                                         *)
(* Task k is that of the k-th client.  The listening socket is number 3,   *)
(* so FirstFd is 4.  A read() of handleClient takes all tasks in a pipe:   *)
(* 1023 bytes are 31 of them, and PipeTasks stays below that.              *)
(***************************************************************************)
EXTENDS ProcessPool

VARIABLES
    clientFd,   \* clientFd[k]: what accept() returned for the k-th client
    answered    \* the clients that have got a response

httpVars == <<vars, clientFd, answered>>

Client(k) == <<"client", k>>

HttpInit == Init /\ clientFd = <<>> /\ answered = {}

Accept ==
    /\ pc[Parent] = "submit" /\ Len(clientFd) = submitted /\ submitted < MaxTasks
    /\ clientFd' = Append(clientFd, FreeFd(fds[Parent]))
    /\ fds' = [fds EXCEPT ![Parent] = Opened(@, Client(submitted + 1))]
    /\ UNCHANGED <<pc, buildVars, taskVars, answered>>

SubmitClient ==
    /\ Len(clientFd) > submitted
    /\ \E p \in Proc : Holds(p, ReadEnd(nextWorker))
    /\ Submit
    /\ UNCHANGED <<clientFd, answered>>

\* write() to a pipe nobody can read: SIGPIPE, whose default action nobody changed.
BrokenPipe ==
    /\ pc[Parent] = "submit" /\ Len(clientFd) > submitted
    /\ \A p \in Proc : ~Holds(p, ReadEnd(nextWorker))
    /\ Exit(Parent)
    /\ UNCHANGED <<buildVars, taskVars, clientFd, answered>>

----------------------------------------------------------------------------
(* handleClient in worker w, for the number in its task *)

Number(w) == clientFd[Head(current[w])]
IsOpen(w, file) == Number(w) \in DOMAIN fds[w] /\ fds[w][Number(w)] = file

\* Back in the loop of the worker, the number closed.
Return(w) ==
    /\ pc[w] = "run"
    /\ fds' = [fds EXCEPT ![w] = Restrict(@, DOMAIN @ \ {Number(w)})]
    /\ ran' = [ran EXCEPT ![w] = @ \o current[w]]
    /\ current' = [current EXCEPT ![w] = <<>>]
    /\ GoTo(w, "read")
    /\ UNCHANGED <<buildVars, submitted, nextWorker, clientFd>>

Respond(w, k) == /\ pc[w] = "run" /\ IsOpen(w, Client(k))
                 /\ answered' = answered \cup {k}
                 /\ Return(w)
                 /\ UNCHANGED pipe

\* The number is the read end of a pipe: its tasks are the request, the
\* response cannot be written.
ReadTasks(w, v) == /\ pc[w] = "run" /\ IsOpen(w, ReadEnd(v))
                   /\ pipe[v] # <<>> \/ Writers(v) = {}
                   /\ pipe' = [pipe EXCEPT ![v] = <<>>]
                   /\ Return(w)
                   /\ UNCHANGED answered

\* read() fails: the number is not open in the worker, or open for writing only.
ReadError(w) == /\ pc[w] = "run"
                /\ \A k \in 1..MaxTasks : ~IsOpen(w, Client(k))
                /\ \A v \in Worker : ~IsOpen(w, ReadEnd(v))
                /\ Return(w)
                /\ UNCHANGED <<pipe, answered>>

HandleClient(w) == \/ \E k \in 1..MaxTasks : Respond(w, k)
                   \/ \E v \in Worker : ReadTasks(w, v)
                   \/ ReadError(w)

\* read() of the worker loop fails: its descriptor is closed.
LoopReadError(w) == /\ pc[w] = "read" /\ ~Holds(w, ReadEnd(w))
                    /\ Exit(w)
                    /\ UNCHANGED <<buildVars, taskVars, clientFd, answered>>

HttpWorker(w) ==
    \/ /\ Start(w) \/ (Holds(w, ReadEnd(w)) /\ (Take(w) \/ EndOfFile(w)))
       /\ UNCHANGED <<clientFd, answered>>
    \/ HandleClient(w) \/ LoopReadError(w)

HttpNext ==
    \/ (Build \/ Fails) /\ UNCHANGED <<clientFd, answered>>
    \/ Accept \/ SubmitClient \/ BrokenPipe
    \/ \E w \in Worker : HttpWorker(w)

HttpSpec == HttpInit /\ [][HttpNext]_httpVars

----------------------------------------------------------------------------
\* "main loop, accepts client connections continuously" (line 88): once the pool
\* is built, the server goes on, whatever its workers do with the clients.
ServerGoesOn == built = numWorkers => pc[Parent] # "gone"
===========================================================================
