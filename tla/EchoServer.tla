---------------------------- MODULE EchoServer -----------------------------
(***************************************************************************)
(* socket/: sock_server_navie starts a thread for each client and sends    *)
(* back what it receives; sock_client_navie sends a word and prints what   *)
(* it receives, again and again.  Each direction of a connection is the    *)
(* sequence of the bytes in it; a byte stands for the number of the word   *)
(* it is from, or 0 for the server's prefix.  Everything runs on one host, *)
(* where what one send() takes arrives in one piece, and a recv() takes    *)
(* what is there, at most its buffer.                                      *)
(***************************************************************************)
EXTENDS Integers, Sequences, FiniteSets, Programs

CONSTANTS
    EchoClient, \* bound: the clients that are ever started
    MaxClients, \* how many sockets the server can have open beside its own
    MaxWords,   \* bound: the words each user types
    WordLength, \* bound: how long they are; cin >> buf leaves room for a NUL
    Room,       \* sizeof of all four buffers, 1024
    Prefix      \* strlen("server: "), 8

ASSUME EchoBounds == /\ MaxClients \in Nat /\ MaxWords \in Nat
                     /\ Room \in Nat \ {0} /\ Prefix \in Nat
                     /\ WordLength \subseteq 1..Room - 1

VARIABLES
    echo,       \* the server: "setup", "accept", or how it ended
    backlog,    \* connections that wait for accept()
    client_fds, \* the clients accepted so far, whose sockets are never closed
    thread,     \* thread[k]: the next call of client_handler for client k
    read_buf,   \* read_buf[k]: what the thread has received
    smashed,    \* the clients whose thread has written behind its write_buf
    up, down,   \* up[k], down[k]: the bytes on their way to and from the server
    reset,      \* the connections that the client's end has reset
    user,       \* user[k]: the next call of client k
    typed,      \* typed[k]: the lengths of the words its user has typed
    buf         \* buf[k]: what it has received last

serverVars == <<echo, backlog, client_fds, thread, read_buf, smashed>>
echoVars == <<serverVars, up, down, reset, user, typed, buf>>

EchoTypeOK ==
    /\ echo \in {"setup", "accept", "deaf", "failed", "aborted", "SIGPIPE", "crashed"}
    /\ backlog \subseteq EchoClient /\ client_fds \subseteq EchoClient
    /\ reset \subseteq EchoClient /\ smashed \subseteq EchoClient
    /\ Cardinality(client_fds) <= MaxClients
    /\ thread \in [EchoClient -> {"none", "recv", "send", "done"}]
    /\ user \in [EchoClient -> {"away", "cin", "recv", "gone"}]
    /\ typed \in [EchoClient -> Seq(WordLength)]
    /\ \A stream \in {read_buf, up, down, buf} : stream \in [EchoClient -> Seq(0..MaxWords)]
    /\ \A k \in EchoClient : /\ Len(typed[k]) <= MaxWords
                            /\ Len(read_buf[k]) <= Room /\ Len(buf[k]) <= Room

EchoInit ==
    /\ echo = "setup"
    /\ backlog = {} /\ client_fds = {} /\ reset = {} /\ smashed = {}
    /\ thread = [k \in EchoClient |-> "none"]
    /\ user = [k \in EchoClient |-> "away"]
    /\ typed = [k \in EchoClient |-> <<>>]
    /\ read_buf = [k \in EchoClient |-> <<>>]
    /\ up = [k \in EchoClient |-> <<>>] /\ down = [k \in EchoClient |-> <<>>]
    /\ buf = [k \in EchoClient |-> <<>>]

\* What a recv() of a whole buffer takes of a stream, and what it leaves.
Taken(stream) == [b \in 1..(IF Len(stream) < Room THEN Len(stream) ELSE Room) |-> stream[b]]
Left(stream) == SubSeq(stream, Room + 1, Len(stream))

WordBytes(n, len) == [b \in 1..len |-> n]
Answer(word) == WordBytes(0, Prefix) \o word

----------------------------------------------------------------------------
(* The server's main: only socket() is tested.  If bind() fails, listen()  *)
(* takes any port, and no client finds it.                                 *)

SetUp == /\ echo = "setup"
         /\ echo' \in {"accept", "deaf", "failed"}
         /\ UNCHANGED <<backlog, client_fds, thread, read_buf, smashed, up, down, reset, user, typed, buf>>

AcceptClient(k) ==
    /\ echo = "accept" /\ k \in backlog
    /\ Cardinality(client_fds) < MaxClients
    /\ backlog' = backlog \ {k}
    /\ client_fds' = client_fds \cup {k}
    /\ thread' = [thread EXCEPT ![k] = "recv"]
    /\ UNCHANGED <<echo, read_buf, smashed, up, down, reset, user, typed, buf>>

\* No descriptor is left, or the client has gone: main returns, and as its threads
\* can still be joined their destructors abort the process.
AcceptError ==
    /\ echo = "accept"
    /\ \E k \in backlog : Cardinality(client_fds) = MaxClients \/ user[k] = "gone"
    /\ echo' = "aborted"
    /\ UNCHANGED <<backlog, client_fds, thread, read_buf, smashed, up, down, reset, user, typed, buf>>

----------------------------------------------------------------------------
(* client_handler, while the process lives *)

\* What came before the connection was reset can still be received.
RecvWord(k) ==
    /\ echo = "accept" /\ thread[k] = "recv" /\ up[k] # <<>>
    /\ read_buf' = [read_buf EXCEPT ![k] = Taken(up[k])]
    /\ up' = [up EXCEPT ![k] = Left(up[k])]
    /\ thread' = [thread EXCEPT ![k] = "send"]
    /\ UNCHANGED <<echo, backlog, client_fds, smashed, down, reset, user, typed, buf>>

\* 0 or -1: the thread returns, and the process may crash when it has written over
\* what its stack frame returns to.
RecvEnds(k) ==
    /\ echo = "accept" /\ thread[k] = "recv"
    /\ up[k] = <<>> /\ (k \in reset \/ user[k] = "gone")
    /\ UNCHANGED echo \/ (k \in smashed /\ echo' = "crashed")
    /\ thread' = [thread EXCEPT ![k] = "done"]
    /\ UNCHANGED <<backlog, client_fds, read_buf, smashed, up, down, reset, user, typed, buf>>

\* The prefix, what was received and a NUL do not fit into write_buf.
Overflows(k) == Prefix + Len(read_buf[k]) >= Room

\* Both strcat() and send().  A second strcat() that overflows writes over the rest of
\* the thread's frame: that ends the process, now or when the thread returns, or does
\* no harm, as where read_buf comes next and is cleared, and the longer answer is sent.
\* send() on a connection that is reset is SIGPIPE, for the whole process, or an error
\* nobody looks at.  The first one to a client that has gone succeeds, and resets it.
SendWord(k) ==
    /\ echo = "accept" /\ thread[k] = "send"
    /\ thread' = [thread EXCEPT ![k] = "recv"]
    /\ \/ UNCHANGED echo
       \/ k \in reset /\ echo' = "SIGPIPE"
       \/ Overflows(k) /\ echo' = "crashed"
    /\ smashed' = IF Overflows(k) THEN smashed \cup {k} ELSE smashed
    /\ reset' = IF user[k] = "gone" THEN reset \cup {k} ELSE reset
    /\ down' = IF user[k] = "gone" THEN down
               ELSE [down EXCEPT ![k] = @ \o Answer(read_buf[k])]
    /\ UNCHANGED <<backlog, client_fds, read_buf, up, user, typed, buf>>

ClientHandler(k) == RecvWord(k) \/ RecvEnds(k) \/ SendWord(k)

----------------------------------------------------------------------------
(* A client *)

ConnectClient(k) ==
    /\ user[k] = "away"
    /\ IF echo = "accept"
       THEN backlog' = backlog \cup {k} /\ user' = [user EXCEPT ![k] = "cin"]
       ELSE user' = [user EXCEPT ![k] = "gone"] /\ UNCHANGED backlog
    /\ UNCHANGED <<echo, client_fds, thread, read_buf, smashed, up, down, reset, typed, buf>>

\* Mutant of SendTyped: the client does not wait for its answer.
SendAhead(k) ==
    /\ user[k] \in {"cin", "recv"} /\ Len(typed[k]) < MaxWords /\ echo = "accept"
    /\ \E len \in WordLength :
           /\ typed' = [typed EXCEPT ![k] = Append(@, len)]
           /\ up' = [up EXCEPT ![k] = @ \o WordBytes(Len(typed'[k]), len)]
    /\ user' = [user EXCEPT ![k] = "recv"]
    /\ UNCHANGED <<serverVars, down, reset, buf>>

\* cin >> buf and send(): a word of as many bytes as fit, the rest of a longer one
\* is the next word.  At the end of the input nothing is sent, as if nobody typed.
SendTyped(k) ==
    /\ user[k] = "cin" /\ Len(typed[k]) < MaxWords /\ echo = "accept"
    /\ \E len \in WordLength :
           /\ typed' = [typed EXCEPT ![k] = Append(@, len)]
           /\ up' = [up EXCEPT ![k] = @ \o WordBytes(Len(typed'[k]), len)]
    /\ user' = [user EXCEPT ![k] = "recv"]
    /\ UNCHANGED <<serverVars, down, reset, buf>>

\* memset() and recv(): what has come, at most a buffer of it, or nothing when the
\* server is gone.  The rest of a longer answer is what the next recv() takes.
Answered(k) ==
    /\ down[k] # <<>> \/ echo # "accept"
    /\ user[k] = "recv"
    /\ buf' = [buf EXCEPT ![k] = Taken(down[k])]
    /\ down' = [down EXCEPT ![k] = Left(down[k])]
    /\ user' = [user EXCEPT ![k] = "cin"]
    /\ UNCHANGED <<serverVars, up, reset, typed>>

\* Killed, or SIGPIPE when it sends to a server that is gone: the kernel closes the
\* connection, and resets it if there is something unread.
Leaves(k) ==
    /\ user[k] \in {"cin", "recv"}
    /\ user' = [user EXCEPT ![k] = "gone"]
    /\ reset' = IF down[k] # <<>> THEN reset \cup {k} ELSE reset
    /\ UNCHANGED <<serverVars, up, down, typed, buf>>

EchoNext ==
    /\ program = "sock"
    /\ \/ SetUp \/ AcceptError
       \/ \E k \in EchoClient :
              \/ AcceptClient(k) \/ ClientHandler(k)
              \/ ConnectClient(k) \/ SendTyped(k) \/ Answered(k) \/ Leaves(k)

----------------------------------------------------------------------------
\* The answers to all that the user of client k has typed fit into the buffers.
Fits(k) == \A n \in DOMAIN typed[k] : Prefix + typed[k][n] < Room

LastWord(k) == WordBytes(Len(typed[k]), typed[k][Len(typed[k])])

\* What a client prints is the whole answer to the word its user has just typed, as
\* long as its own words fit, whatever the others type; and when the words of all fit,
\* no client that is killed once it is connected ends the server by SIGPIPE.  (A word
\* that does not fit may do both: crash it, and leave a rest that later answers follow.)
EchoInStep ==
    /\ (\A k \in EchoClient : Fits(k)) => echo \notin {"SIGPIPE", "crashed"}
    /\ \A k \in EchoClient :
           Fits(k) /\ user[k] = "cin" /\ typed[k] # <<>> /\ echo = "accept" =>
               buf[k] = Answer(LastWord(k))
===========================================================================
