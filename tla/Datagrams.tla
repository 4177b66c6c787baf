----------------------------- MODULE Datagrams -----------------------------
(***************************************************************************)
(* The programs of udp/: udp_sender and udp_receiver, multicast_sender and *)
(* multicast_receiver.  A sender sends each line its user types; every     *)
(* receiver prints what arrives.  udp_sender then waits for an answer,     *)
(* which no receiver of this repository gives.                             *)
(*                                                                         *)
(* A line is its number and its length: what matters of a buffer is which  *)
(* line each of its bytes is from, 0 for a NUL.  The network loses,        *)
(* repeats and reorders datagrams.                                         *)
(***************************************************************************)
EXTENDS Integers, Sequences, FiniteSetsExt, Programs

CONSTANTS
    Receiver,   \* the receiving processes
    MaxLines,   \* bound: the lines that are ever typed
    MaxLength   \* bound: the longest of them; a buffer has room for one byte more

ASSUME DatagramBounds == MaxLines \in Nat /\ MaxLength \in Nat

VARIABLES
    sender,     \* the next call of the sender
    lines,      \* the lengths of the lines it has sent
    flying,     \* the datagrams on their way, each to one receiver
    receiver,   \* receiver[r]: the next call of r
    text,       \* text[r]: the buffer of r
    shown       \* shown[r]: what r has printed last

datagramVars == <<sender, lines, flying, receiver, text, shown>>

UdpPrograms == {"udp", "multicast"}
Byte == 1..MaxLength + 1

DatagramTypeOK ==
    /\ sender \in {"socket", "ip", "getline", "recvfrom", "closed"}
    /\ lines \in Seq(0..MaxLength) /\ Len(lines) <= MaxLines
    /\ flying \subseteq [to : Receiver, line : 1..Len(lines)]
    /\ receiver \in [Receiver -> {"socket", "recvfrom", "deaf", "failed"}]
    /\ text \in [Receiver -> [Byte -> 0..MaxLines]]
    /\ shown \in [Receiver -> Seq(1..MaxLines)]

DatagramInit ==
    /\ sender = "socket" /\ lines = <<>> /\ flying = {}
    /\ receiver = [r \in Receiver |-> "socket"]
    /\ text = [r \in Receiver |-> [b \in Byte |-> 0]]
    /\ shown = [r \in Receiver |-> <<>>]

----------------------------------------------------------------------------
(* The senders *)

OpenSender == /\ sender = "socket"
              /\ sender' \in {IF program = "udp" THEN "ip" ELSE "getline", "closed"}
              /\ UNCHANGED <<lines, flying, receiver, text, shown>>

\* cin >> server_ip leaves the end of its line, which the first getline() takes
\* for a message: usually an empty one.
EnterIp == /\ sender = "ip"
           /\ sender' = "getline"
           /\ UNCHANGED <<lines, flying, receiver, text, shown>>

Heard == {r \in Receiver : receiver[r] = "recvfrom"}

\* The line goes to one socket, or to each member of the group; some copies are lost.
SendLine(length) ==
    /\ sender = "getline" /\ Len(lines) < MaxLines
    /\ lines' = Append(lines, length)
    /\ \E reached \in SUBSET Heard :
           flying' = flying \cup [to : reached, line : {Len(lines) + 1}]
    /\ sender' = IF program = "udp" THEN "recvfrom" ELSE "getline"
    /\ UNCHANGED <<receiver, text, shown>>

\* sendto() itself fails: nothing leaves, and nobody waits for an answer.
SendFails(length) ==
    /\ sender = "getline" /\ Len(lines) < MaxLines
    /\ lines' = Append(lines, length)
    /\ UNCHANGED <<sender, flying, receiver, text, shown>>

\* udp_sender only
TypeExit == /\ sender = "getline" /\ program = "udp"
            /\ sender' = "closed"
            /\ UNCHANGED <<lines, flying, receiver, text, shown>>

----------------------------------------------------------------------------
(* The receivers *)

\* A second udp_receiver cannot bind the port; SO_REUSEADDR lets receivers of the
\* group share theirs.  A join that fails goes unnoticed: nothing ever arrives.
OpenReceiver(r) ==
    /\ receiver[r] = "socket"
    /\ \E next \in {"recvfrom", "failed"} \cup (IF program = "multicast" THEN {"deaf"} ELSE {}) :
           /\ next = "recvfrom" /\ program = "udp" => Heard = {}
           /\ receiver' = [receiver EXCEPT ![r] = next]
    /\ UNCHANGED <<sender, lines, flying, text, shown>>

\* Mutant of Filled: no memset() before recvfrom().
Overwritten(old, line) == [b \in Byte |-> IF b <= lines[line] THEN line ELSE old[b]]

\* memset() and recvfrom(), which ends no text
Filled(old, line) == [b \in Byte |-> IF b <= lines[line] THEN line ELSE 0]

\* What cout makes of a buffer: its bytes up to the first NUL.
Printed(buffer) == SubSeq(buffer, 1, Min({b \in Byte : buffer[b] = 0}) - 1)

\* A datagram may come again.  multicast_receiver does not print an empty one.
Receive(d) == LET r == d.to IN
    /\ d \in flying /\ receiver[r] = "recvfrom"
    /\ flying' \in {flying, flying \ {d}}
    /\ text' = [text EXCEPT ![r] = Filled(@, d.line)]
    /\ shown' = IF program = "multicast" /\ lines[d.line] = 0 THEN shown
                ELSE [shown EXCEPT ![r] = Printed(text'[r])]
    /\ UNCHANGED <<sender, lines, receiver>>

DatagramNext ==
    /\ program \in UdpPrograms
    /\ \/ OpenSender \/ EnterIp \/ TypeExit
       \/ \E length \in 0..MaxLength : SendLine(length) \/ SendFails(length)
       \/ \E r \in Receiver : OpenReceiver(r)
       \/ \E d \in flying : Receive(d)

----------------------------------------------------------------------------
\* Whatever was in the buffer before, and however datagrams overtake each other, a
\* receiver prints one line, whole, and nothing of another.
PrintedAsSent ==
    \A r \in Receiver : shown[r] # <<>> =>
        LET line == Head(shown[r])
        IN shown[r] = [b \in 1..lines[line] |-> line]
===========================================================================
