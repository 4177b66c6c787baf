----------------------------- MODULE KcpArqInv -----------------------------
(***************************************************************************)
(* The inductive invariant of KcpArq: why what is delivered is what was    *)
(* sent.  Every fragment on its way, in a queue, a buffer or a segment, is *)
(* the fragment the sender's stream has at its sequence number, and a      *)
(* fragment leaves snd_buf only when the peer holds it.                    *)
(***************************************************************************)
EXTENDS KcpArq

\* A sending half: what has a number, then what waits in queue for one, is the
\* stream `all'; buf has fragments of the stream numbered between una and nxt.
Sends(queue, buf, una, nxt, all) ==
    /\ una <= nxt
    /\ nxt + Len(queue) = Len(all)
    /\ \A i \in 1..Len(queue) : queue[i] = all[nxt + i]
    /\ \A sn \in DOMAIN buf : una <= sn /\ sn < nxt /\ buf[sn] = all[sn + 1]

\* A receiving half: what was read, then queue, is the peer's stream up to nxt;
\* buf has what belongs there, and no number the peer has not reached.
Receives(queue, buf, nxt, all, limit) ==
    /\ nxt <= limit
    /\ Len(queue) <= nxt
    /\ \A i \in 1..Len(queue) : queue[i] = all[nxt - Len(queue) + i]
    /\ \A sn \in DOMAIN buf : sn < limit /\ buf[sn] = all[sn + 1]

\* A segment tells the truth: una and ACK name only what its sender, with nxt
\* and buf, holds; PUSH carries the fragment of that number.
Truthful(s, nxt, buf, all, limit) ==
    /\ s.una <= nxt
    /\ s.cmd = "ACK" => s.sn < nxt \/ s.sn \in DOMAIN buf
    /\ s.cmd = "PUSH" => s.sn < limit /\ s.frag = all[s.sn + 1]

SenderInv ==
    \A n \in Node : Sends(snd_queue[n], snd_buf[n], snd_una[n], snd_nxt[n], stream[n])

ReceiverInv ==
    \A n \in Node : Receives(rcv_queue[n], rcv_buf[n], rcv_nxt[n],
                            stream[Peer(n)], snd_nxt[Peer(n)])

NetInv ==
    \A s \in net : LET from == Peer(s.dst) IN
        Truthful(s, rcv_nxt[from], rcv_buf[from], stream[from], snd_nxt[from])

AckInv == \A n \in Node : \A sn \in acklist[n] : Held(n, sn)

TransferInv == /\ SenderInv /\ ReceiverInv /\ NetInv /\ AckInv
               /\ NoFragmentLost

\* How many fragments the user of n has read.
ReadSoFar(n) == rcv_nxt[n] - Len(rcv_queue[n])

\* Where message m of a sender begins in its stream.
Begin(list, m) == list[m][1].data - 1

\* The messages of `list' follow one another in the stream `all' without a gap.
Messages(list, all) ==
    /\ Len(list) = 0 => Len(all) = 0
    /\ \A m \in 1..Len(list) :
        LET first == Begin(list, m)
            size == Len(list[m])
        IN /\ first \in Nat /\ size \in Nat \ {0} /\ first + size <= Len(all)
           /\ list[m] = Fragments(first, size)
           /\ \A i \in 1..size : all[first + i] = list[m][i]
           /\ m = 1 => first = 0
           /\ m < Len(list) => Begin(list, m + 1) = first + size
           /\ m = Len(list) => Len(all) = first + size

\* A reader that got `count' messages stands at the beginning of the next one.
Reads(position, count, list, all) ==
    /\ count <= Len(list)
    /\ count < Len(list) => position = Begin(list, count + 1)
    /\ count = Len(list) => position = Len(all)

MessagesInv == \A n \in Node : Messages(sent[n], stream[n])

ReaderInv ==
    \A n \in Node : Reads(ReadSoFar(n), Len(delivered[n]), sent[Peer(n)], stream[Peer(n)])

DeliveryInv == MessagesInv /\ ReaderInv /\ DeliveredIsPrefix

IInv == TypeOK /\ WindowsRespected /\ TransferInv /\ DeliveryInv
===========================================================================
