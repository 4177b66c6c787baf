------------------------- MODULE ReliableChannel -------------------------
(***************************************************************************)
(* What a KCP session promises its two users (ikcp_send and ikcp_recv):    *)
(* every message one side is accepted for sending is handed to the other   *)
(* side once, whole, and in the order it was sent.  Nothing of windows,    *)
(* acknowledgements or retransmission is visible here.                     *)
(***************************************************************************)
EXTENDS Naturals, Sequences

CONSTANTS
    Node,       \* the two ends of the session
    Message     \* what can be sent

VARIABLES
    sent,       \* sent[n]: the messages n has sent, in order
    delivered   \* delivered[n]: the messages n has received, in order

vars == <<sent, delivered>>

Init == /\ sent = [n \in Node |-> <<>>]
        /\ delivered = [n \in Node |-> <<>>]

Send(n) == \E m \in Message :
    /\ sent' = [sent EXCEPT ![n] = Append(@, m)]
    /\ UNCHANGED delivered

Deliver(n, peer) ==
    /\ peer # n
    /\ Len(delivered[n]) < Len(sent[peer])
    /\ delivered' = [delivered EXCEPT ![n] = Append(@, sent[peer][Len(@) + 1])]
    /\ UNCHANGED sent

Next == \E n \in Node : Send(n) \/ \E peer \in Node : Deliver(n, peer)

Spec == Init /\ [][Next]_vars

FairSpec == Spec /\ \A n, peer \in Node : WF_vars(Deliver(n, peer))
===========================================================================
