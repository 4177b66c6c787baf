--------------------------- MODULE FileTransfer ----------------------------
(***************************************************************************)
(* The programs sender.cpp and receiver.cpp on top of KCPWrapper: a sender *)
(* cuts files into chunks and hands each to ikcp_send as one message; the  *)
(* receivers append what arrives to files of the same names.               *)
(*                                                                         *)
(* KCP is taken at its best here: what ikcp_update flushes reaches every   *)
(* receiver at once, in order (KcpArq shows that much of one peer).  What  *)
(* is kept is who calls what, and when: the set-up of each process and its *)
(* failures, KCPWrapper::send, which only queues, and KCPWrapper::update,  *)
(* which alone flushes.  The receivers are started before the sender.      *)
(***************************************************************************)
EXTENDS Integers, Sequences

CONSTANTS
    Sender, Receivers,  \* the processes
    Size,               \* Size[f]: the length of file f, in units
    ChunkSize           \* CHUNK_SIZE, in the same unit

File == DOMAIN Size
Process == {Sender} \cup Receivers

VARIABLES
    pc,         \* "init", then "loop" of a receiver or "next file", "chunk", "sleep"
                \* of the sender; main has returned: "exit" with 0, "failed" with -1
    bound,      \* the processes whose socket is bound to the port of the group
    unsent,     \* files the sender has not come to
    file, pos,  \* the file it reads, and how far it has read
    snd_queue,  \* snd_queue[p]: messages handed to ikcp_send, not flushed
    inbox,      \* inbox[r]: messages ikcp_recv has for r
    saved       \* saved[r][f]: what receiver r has written to f

vars == <<pc, bound, unsent, file, pos, snd_queue, inbox, saved>>

Content(f) == [i \in 1..Size[f] |-> i]

Init ==
    /\ pc = [p \in Process |-> "init"]
    /\ bound = {}
    /\ unsent = File
    /\ file \in File /\ pos = 0
    /\ snd_queue = [p \in Process |-> <<>>]
    /\ inbox = [r \in Receivers |-> <<>>]
    /\ saved = [r \in Receivers |-> [f \in File |-> <<>>]]

\* The sender sets the top bit of conv, and init then leaves out the bind: the
\* socket joins the group but hears nothing of it.
Initialise(p) ==
    /\ pc[p] = "init"
    /\ p = Sender => \A r \in Receivers : pc[r] # "init"
    /\ bound' = IF p = Sender THEN bound ELSE bound \cup {p}
    /\ pc' = [pc EXCEPT ![p] = IF p = Sender THEN "next file" ELSE "loop"]
    /\ UNCHANGED <<unsent, file, pos, snd_queue, inbox, saved>>

\* main returns: ~KCPWrapper releases the control block with all its queues and
\* closes the socket.
Return(p, end) ==
    /\ pc' = [pc EXCEPT ![p] = end]
    /\ bound' = bound \ {p}
    /\ snd_queue' = [snd_queue EXCEPT ![p] = <<>>]
    /\ inbox' = [r \in Receivers |-> IF r = p THEN <<>> ELSE inbox[r]]
    /\ UNCHANGED <<unsent, file, pos, saved>>

\* One of the calls of init fails: no socket, no interface, port in use.
InitFails(p) == pc[p] = "init" /\ Return(p, "failed")

SenderGoes(place) == pc' = [pc EXCEPT ![Sender] = place]

\* recursive_directory_iterator comes to the files in any order.
OpenFile(f) ==
    /\ pc[Sender] = "next file" /\ f \in unsent
    /\ file' = f /\ pos' = 0
    /\ unsent' = unsent \ {f}
    /\ SenderGoes("chunk")
    /\ UNCHANGED <<bound, snd_queue, inbox, saved>>

\* A file cannot be opened: FILE_NOT_FOUND, and main returns at once.
OpenFails == pc[Sender] = "next file" /\ unsent # {} /\ Return(Sender, "failed")

\* eof() holds only after a read that came short: a file of whole chunks ends in
\* an empty one, and an empty file is one empty chunk.
SendChunk ==
    /\ pc[Sender] = "chunk"
    /\ LET rest == Size[file] - pos
           len == IF rest < ChunkSize THEN rest ELSE ChunkSize
           data == SubSeq(Content(file), pos + 1, pos + len)
       IN /\ snd_queue' = [snd_queue EXCEPT ![Sender] =
                 Append(@, [filename |-> file, data |-> data])]
          /\ pos' = pos + len
          /\ SenderGoes(IF len < ChunkSize THEN "next file" ELSE "chunk")
    /\ UNCHANGED <<bound, unsent, file, inbox, saved>>

\* After the last file main sleeps for a second,
Sleep == /\ pc[Sender] = "next file" /\ unsent = {}
         /\ SenderGoes("sleep")
         /\ UNCHANGED <<bound, unsent, file, pos, snd_queue, inbox, saved>>

\* and returns.
Exit == pc[Sender] = "sleep" /\ Return(Sender, "exit")

\* onDataReceived opens the file for appending.
Written(files, messages) ==
    [f \in File |->
        LET append[i \in 0..Len(messages)] ==
                IF i = 0 THEN files[f]
                ELSE append[i - 1] \o
                     (IF messages[i].filename = f THEN messages[i].data ELSE <<>>)
        IN append[Len(messages)]]

\* What p has queued goes to the group; only the processes bound to the port hear.
Output(p) == [r \in Receivers |-> IF r \in bound THEN inbox[r] \o snd_queue[p]
                                                ELSE inbox[r]]

\* KCPWrapper::update of a process in its main loop: ikcp_update flushes, then
\* handleReceive takes in what has come.
Update(p) ==
    /\ pc[p] = "loop"
    /\ snd_queue' = [snd_queue EXCEPT ![p] = <<>>]
    /\ IF p \in Receivers
       THEN /\ saved' = [saved EXCEPT ![p] = Written(@, Output(p)[p])]
            /\ inbox' = [Output(p) EXCEPT ![p] = <<>>]
       ELSE inbox' = Output(p) /\ UNCHANGED saved
    /\ UNCHANGED <<pc, bound, unsent, file, pos>>

SenderStep == (\E f \in File : OpenFile(f)) \/ SendChunk \/ Sleep \/ Exit

Next == \/ SenderStep \/ OpenFails
        \/ \E p \in Process : Initialise(p) \/ InitFails(p) \/ Update(p)

\* The processes start, the sender runs to its end, the receivers go round their
\* loops.
FairSpec == /\ Init /\ [][Next]_vars
            /\ WF_vars(SenderStep)
            /\ \A p \in Process : WF_vars(Initialise(p)) /\ WF_vars(Update(p))

----------------------------------------------------------------------------
\* "wait for a while to make sure the data have been sent" (line 60): when the
\* sender has slept and gone, its files come to every receiver that was there.
SentIsSaved ==
    \A r \in Receivers :
        pc[Sender] = "exit" /\ pc[r] = "loop" ~>
            \A f \in File : saved[r][f] = Content(f)
===========================================================================
