------------------------------ MODULE KcpArq ------------------------------
(***************************************************************************)
(* The retransmission protocol of third_party/kcp/ikcp.c: two control      *)
(* blocks that exchange segments over UDP.  The functions modelled are     *)
(* ikcp_send, ikcp_recv, ikcp_input and ikcp_flush with everything they    *)
(* call, in the configuration of kcp_wrapper.cpp: no congestion window     *)
(* (nocwnd = 1) and no stream mode (stream = 0).                           *)
(*                                                                         *)
(* Abstracted: bytes (a fragment is a token with its frg number), sequence *)
(* numbers that wrap at 2^32 (they are naturals here), and time.  Whether  *)
(* a timer of ikcp_flush has expired is a parameter of the action: `late'  *)
(* is the set of segments whose resendts has passed or whose fastack       *)
(* count has reached fastresend, `due' says that ts_probe has passed.      *)
(* Segments that share a datagram in the code travel separately here,      *)
(* which allows every order the code allows and more.                      *)
(***************************************************************************)
EXTENDS Integers, Sequences, FiniteSets, FiniteSetsExt, Functions

CONSTANTS
    Node,       \* the two ends of the session
    SndWnd,     \* kcp->snd_wnd
    RcvWnd,     \* kcp->rcv_wnd
    WndRcv,     \* IKCP_WND_RCV: first value of rmt_wnd, limit of ikcp_send
    MaxFrags,   \* bound: fragments of a message offered to ikcp_send
    MaxStream,  \* bound: MaxStream[n] fragments sent by n in all
    MaxFaults,  \* bound: segments the network loses or duplicates
    MaxNet      \* bound: n flushes while fewer than MaxNet[n] segments are on their way

ASSUME TwoNodes == \E a, b \in Node : a # b /\ Node = {a, b}

\* ikcp_wndsize keeps rcv_wnd at IKCP_WND_RCV or more.
ASSUME Windows == /\ SndWnd \in Nat \ {0}
                  /\ WndRcv \in Nat \ {0}
                  /\ RcvWnd \in Nat /\ RcvWnd >= WndRcv

ASSUME Bounds == /\ MaxFrags \in Nat /\ MaxStream \in [Node -> Nat]
                 /\ MaxFaults \in Nat /\ MaxNet \in [Node -> Nat]

VARIABLES
    snd_queue,  \* snd_queue[n]: fragments not yet given a sequence number
    snd_buf,    \* snd_buf[n]: sequence number -> fragment sent, not acknowledged
    snd_una,    \* first unacknowledged sequence number
    snd_nxt,    \* next sequence number to assign
    rcv_buf,    \* rcv_buf[n]: sequence number -> fragment received out of order
    rcv_queue,  \* rcv_queue[n]: fragments in order, not yet read
    rcv_nxt,    \* next sequence number to put in rcv_queue
    rmt_wnd,    \* the window the peer last advertised
    acklist,    \* sequence numbers to acknowledge at the next flush
    probe,      \* window commands to send at the next flush
    probing,    \* probe_wait # 0: the window probe timer runs
    net,        \* segments in flight, in no order
    faults,     \* segments lost or duplicated so far
    stream,     \* history: stream[n], every fragment n sent, in order
    sent,       \* history: sent[n], every message n sent
    delivered   \* history: delivered[n], every message ikcp_recv gave n

sndVars  == <<snd_queue, snd_buf, snd_una, snd_nxt>>
rcvVars  == <<rcv_buf, rcv_queue, rcv_nxt>>
wndVars  == <<rmt_wnd, probe, probing>>
netVars  == <<net, faults>>
userVars == <<stream, sent, delivered>>
vars == <<sndVars, rcvVars, wndVars, acklist, netVars, userVars>>

Peer(n) == CHOOSE m \in Node : m # n

\* The fragment in the payload of a segment; "frg" counts down to 0.
Fragment == [data : Nat, frg : Nat]
NoFragment == [data |-> 0, frg |-> 0]

\* The fragments ikcp_send cuts a message into when `first' fragments went before.
Fragments(first, count) ==
    [i \in 1..count |-> [data |-> first + i, frg |-> count - i]]

Message == UNION {{Fragments(first, count) : first \in 0..MaxStream[n],
                                             count \in 1..MaxFrags} : n \in Node}

Segment == [dst : Node, cmd : {"PUSH", "ACK", "WASK", "WINS"},
            sn : Nat, una : Nat, wnd : Nat, frag : Fragment]

\* Mutant of WndUnused: rcv_buf is charged to the window as well.
WndUnusedLessBuf(n) == RcvWnd - Len(rcv_queue[n]) - Cardinality(DOMAIN rcv_buf[n])

\* ikcp_wnd_unused
WndUnused(n) ==
    IF Len(rcv_queue[n]) < RcvWnd THEN RcvWnd - Len(rcv_queue[n]) ELSE 0

Init ==
    /\ snd_queue = [n \in Node |-> <<>>]
    /\ snd_buf = [n \in Node |-> <<>>]
    /\ snd_una = [n \in Node |-> 0]
    /\ snd_nxt = [n \in Node |-> 0]
    /\ rcv_buf = [n \in Node |-> <<>>]
    /\ rcv_queue = [n \in Node |-> <<>>]
    /\ rcv_nxt = [n \in Node |-> 0]
    /\ rmt_wnd = [n \in Node |-> WndRcv]
    /\ acklist = [n \in Node |-> {}]
    /\ probe = [n \in Node |-> {}]
    /\ probing = [n \in Node |-> FALSE]
    /\ net = {} /\ faults = 0
    /\ stream = [n \in Node |-> <<>>]
    /\ sent = [n \in Node |-> <<>>]
    /\ delivered = [n \in Node |-> <<>>]

----------------------------------------------------------------------------
(* The user's calls *)

\* The code rejects a message of IKCP_WND_RCV fragments or more.
Accepts(count) == count < WndRcv

Send(n, count) ==
    /\ Accepts(count)
    /\ Len(stream[n]) + count <= MaxStream[n]
    /\ LET m == Fragments(Len(stream[n]), count) IN
       /\ snd_queue' = [snd_queue EXCEPT ![n] = @ \o m]
       /\ stream' = [stream EXCEPT ![n] = @ \o m]
       /\ sent' = [sent EXCEPT ![n] = Append(@, m)]
    /\ UNCHANGED <<snd_buf, snd_una, snd_nxt, rcvVars, wndVars, acklist,
                   netVars, delivered>>

\* How many fragments of buf, from sequence number nxt on without a gap, go
\* to rcv_queue when it has room for `room' more.
ReadyCount(buf, nxt, room) ==
    Min({room} \cup {i \in 0..room : nxt + i \notin DOMAIN buf})

\* "move available data from rcv_buf -> rcv_queue", for both its callers.
MoveReady(n, buf, queue) ==
    LET k == ReadyCount(buf, rcv_nxt[n], RcvWnd - Len(queue))
        ready == [i \in 1..k |-> buf[rcv_nxt[n] + i - 1]]
    IN /\ rcv_queue' = [rcv_queue EXCEPT ![n] = queue \o ready]
       /\ rcv_nxt' = [rcv_nxt EXCEPT ![n] = @ + k]
       /\ rcv_buf' = [rcv_buf EXCEPT ![n] =
              Restrict(buf, {sn \in DOMAIN buf : sn >= rcv_nxt[n] + k})]

\* ikcp_peeksize: the fragments of the message at the head are all there.
HeadComplete(n) == /\ rcv_queue[n] # <<>>
                   /\ rcv_queue[n][1].frg < Len(rcv_queue[n])

\* Mutant of HeadLength: the merge loop does not stop at frg = 0.
HeadLengthAll(n) == Len(rcv_queue[n])

\* ikcp_recv takes fragments up to the first whose frg is 0, or all.
HeadLength(n) ==
    Min({Len(rcv_queue[n])} \cup {i \in 1..Len(rcv_queue[n]) : rcv_queue[n][i].frg = 0})

\* Mutant of Recv: it leaves rcv_buf alone.
RecvNoMove(n) ==
    /\ HeadComplete(n)
    /\ LET k == HeadLength(n) IN
       /\ delivered' = [delivered EXCEPT ![n] =
              Append(@, SubSeq(rcv_queue[n], 1, k))]
       /\ rcv_queue' = [rcv_queue EXCEPT ![n] = SubSeq(@, k + 1, Len(@))]
    /\ UNCHANGED <<sndVars, rcv_buf, rcv_nxt, wndVars, acklist, netVars, stream, sent>>

Recv(n) ==
    /\ HeadComplete(n)
    /\ LET k == HeadLength(n)
           rest == SubSeq(rcv_queue[n], k + 1, Len(rcv_queue[n]))
           recover == Len(rcv_queue[n]) >= RcvWnd
       IN /\ delivered' = [delivered EXCEPT ![n] =
                 Append(@, SubSeq(rcv_queue[n], 1, k))]
          /\ MoveReady(n, rcv_buf[n], rest)
          /\ probe' = [probe EXCEPT ![n] =
                 IF recover /\ Len(rcv_queue'[n]) < RcvWnd
                 THEN @ \cup {"ASK_TELL"} ELSE @]
    /\ UNCHANGED <<sndVars, rmt_wnd, probing, acklist, netVars, stream, sent>>

----------------------------------------------------------------------------
(* ikcp_flush *)

Ack(n, sn) == [dst |-> Peer(n), cmd |-> "ACK", sn |-> sn, una |-> rcv_nxt[n],
               wnd |-> WndUnused(n), frag |-> NoFragment]

Window(n, cmd) == [dst |-> Peer(n), cmd |-> cmd, sn |-> 0, una |-> rcv_nxt[n],
                   wnd |-> WndUnused(n), frag |-> NoFragment]

Push(n, sn, frag) == [dst |-> Peer(n), cmd |-> "PUSH", sn |-> sn,
                      una |-> rcv_nxt[n], wnd |-> WndUnused(n), frag |-> frag]

\* The probe timer starts in the first flush that sees a zero window and asks
\* in a later one that finds it expired.
Asked(n, due) == probe[n] \cup
    (IF rmt_wnd[n] = 0 /\ probing[n] /\ due THEN {"ASK_SEND"} ELSE {})

\* Mutant of WindowSegments: a zero window is never probed.
WindowSegmentsNoAsk(n, asked) ==
    IF "ASK_TELL" \in asked THEN {Window(n, "WINS")} ELSE {}

WindowSegments(n, asked) ==
    (IF "ASK_SEND" \in asked THEN {Window(n, "WASK")} ELSE {}) \cup
    (IF "ASK_TELL" \in asked THEN {Window(n, "WINS")} ELSE {})

\* Mutant of Admitted: the window opens anew at snd_nxt in every flush.
AdmittedAnew(n) == Min({Len(snd_queue[n]), SndWnd, rmt_wnd[n]})

\* How many fragments the send window lets out of snd_queue.
Admitted(n) ==
    LET cwnd == Min({SndWnd, rmt_wnd[n]})
    IN Min({Len(snd_queue[n]), Max({0, snd_una[n] + cwnd - snd_nxt[n]})})

\* snd_buf after "move data from snd_queue to snd_buf".
Numbered(n) ==
    [sn \in DOMAIN snd_buf[n] \cup snd_nxt[n]..(snd_nxt[n] + Admitted(n) - 1) |->
        IF sn \in DOMAIN snd_buf[n] THEN snd_buf[n][sn]
                                    ELSE snd_queue[n][sn - snd_nxt[n] + 1]]

Flush(n, late, due) ==
    /\ Cardinality({s \in net : s.dst # n}) < MaxNet[n]
    /\ LET k == Admitted(n)
           buf == Numbered(n)
           fresh == snd_nxt[n]..(snd_nxt[n] + k - 1)
       IN /\ snd_queue' = [snd_queue EXCEPT ![n] = SubSeq(@, k + 1, Len(@))]
          /\ snd_buf' = [snd_buf EXCEPT ![n] = buf]
          /\ snd_nxt' = [snd_nxt EXCEPT ![n] = @ + k]
          /\ net' = net \cup {Ack(n, sn) : sn \in acklist[n]}
                        \cup WindowSegments(n, Asked(n, due))
                        \cup {Push(n, sn, buf[sn]) : sn \in fresh \cup late}
    /\ acklist' = [acklist EXCEPT ![n] = {}]
    /\ probe' = [probe EXCEPT ![n] = {}]
    /\ probing' = [probing EXCEPT ![n] = (rmt_wnd[n] = 0)]
    /\ UNCHANGED <<snd_una, rcvVars, rmt_wnd, faults, userVars>>

----------------------------------------------------------------------------
(* ikcp_input, one segment; the network keeps a copy when it duplicates *)

Arrive(s) ==
    \/ /\ net' = net \ {s}
       /\ UNCHANGED faults
    \/ /\ faults < MaxFaults
       /\ faults' = faults + 1
       /\ UNCHANGED net

\* Mutant of AfterUna: una itself is taken for received.
AfterUnaToo(buf, una) == Restrict(buf, {sn \in DOMAIN buf : sn > una})

\* ikcp_parse_una
AfterUna(buf, una) == Restrict(buf, {sn \in DOMAIN buf : sn >= una})

\* Mutant of FirstUnacked: the other end of snd_buf.
LastUnacked(buf, nxt) == IF DOMAIN buf = {} THEN nxt ELSE Max(DOMAIN buf)

\* ikcp_shrink_buf
FirstUnacked(buf, nxt) == IF DOMAIN buf = {} THEN nxt ELSE Min(DOMAIN buf)

\* ikcp_parse_ack, with the range check against snd_una and snd_nxt
AfterAck(buf, sn, nxt) ==
    IF FirstUnacked(buf, nxt) <= sn /\ sn < nxt
    THEN Restrict(buf, DOMAIN buf \ {sn}) ELSE buf

\* What ikcp_input does for every command; `buf' is what is left of snd_buf.
Header(n, s, buf) ==
    /\ rmt_wnd' = [rmt_wnd EXCEPT ![n] = s.wnd]
    /\ snd_buf' = [snd_buf EXCEPT ![n] = buf]
    /\ snd_una' = [snd_una EXCEPT ![n] = FirstUnacked(buf, snd_nxt[n])]
    /\ UNCHANGED <<snd_queue, snd_nxt, probing, userVars>>

InputAck(n, s) ==
    /\ s.cmd = "ACK"
    /\ Arrive(s)
    /\ Header(n, s, AfterAck(AfterUna(snd_buf[n], s.una), s.sn, snd_nxt[n]))
    /\ UNCHANGED <<rcvVars, acklist, probe>>

\* The receive window of ikcp_input and of ikcp_parse_data.
InWindow(n, sn) == sn < rcv_nxt[n] + RcvWnd

\* ikcp_parse_data drops a segment it has.
WithSegment(n, s) ==
    IF s.sn \in DOMAIN rcv_buf[n] THEN rcv_buf[n]
    ELSE [sn \in DOMAIN rcv_buf[n] \cup {s.sn} |->
             IF sn = s.sn THEN s.frag ELSE rcv_buf[n][sn]]

\* The fate of the data of a PUSH: out of the window, already passed, or kept.
Beyond(n, s) == /\ ~InWindow(n, s.sn)
                /\ UNCHANGED <<rcvVars, acklist>>

Acknowledge(n, s) == /\ InWindow(n, s.sn)
                     /\ acklist' = [acklist EXCEPT ![n] = @ \cup {s.sn}]

\* Mutant of Repeated: what was received before is not acknowledged again.
RepeatedNoAck(n, s) == /\ InWindow(n, s.sn)
                       /\ s.sn < rcv_nxt[n]
                       /\ UNCHANGED <<rcvVars, acklist>>

Repeated(n, s) == /\ Acknowledge(n, s)
                  /\ s.sn < rcv_nxt[n]
                  /\ UNCHANGED rcvVars

Accepted(n, s) == /\ Acknowledge(n, s)
                  /\ s.sn >= rcv_nxt[n]
                  /\ MoveReady(n, WithSegment(n, s), rcv_queue[n])

InputPush(n, s) ==
    /\ s.cmd = "PUSH"
    /\ Arrive(s)
    /\ Header(n, s, AfterUna(snd_buf[n], s.una))
    /\ Beyond(n, s) \/ Repeated(n, s) \/ Accepted(n, s)
    /\ UNCHANGED probe

InputWask(n, s) ==
    /\ s.cmd = "WASK"
    /\ Arrive(s)
    /\ Header(n, s, AfterUna(snd_buf[n], s.una))
    /\ probe' = [probe EXCEPT ![n] = @ \cup {"ASK_TELL"}]
    /\ UNCHANGED <<rcvVars, acklist>>

InputWins(n, s) ==
    /\ s.cmd = "WINS"
    /\ Arrive(s)
    /\ Header(n, s, AfterUna(snd_buf[n], s.una))
    /\ UNCHANGED <<rcvVars, acklist, probe>>

Input(n, s) == /\ s.dst = n
               /\ \/ InputAck(n, s)  \/ InputPush(n, s)
                  \/ InputWask(n, s) \/ InputWins(n, s)

----------------------------------------------------------------------------
\* The network drops a datagram.
Lose(s) ==
    /\ faults < MaxFaults
    /\ faults' = faults + 1
    /\ net' = net \ {s}
    /\ UNCHANGED <<sndVars, rcvVars, wndVars, acklist, userVars>>

Next ==
    \/ \E n \in Node :
        \/ \E count \in 1..MaxFrags : Send(n, count)
        \/ Recv(n)
        \/ \E late \in SUBSET DOMAIN snd_buf[n], due \in BOOLEAN :
              Flush(n, late, due)
        \/ \E s \in net : Input(n, s)
    \/ \E s \in net : Lose(s)

Spec == Init /\ [][Next]_vars

----------------------------------------------------------------------------
(* Safety *)

Buffer(buf) == DOMAIN buf \subseteq Nat /\ buf \in [DOMAIN buf -> Fragment]

\* The types of the control blocks, of the segments and of the histories.
TypeOK ==
    /\ snd_queue \in [Node -> Seq(Fragment)] /\ rcv_queue \in [Node -> Seq(Fragment)]
    /\ snd_una \in [Node -> Nat] /\ snd_nxt \in [Node -> Nat]
    /\ rcv_nxt \in [Node -> Nat] /\ rmt_wnd \in [Node -> Nat]
    /\ DOMAIN snd_buf = Node /\ \A n \in Node : Buffer(snd_buf[n])
    /\ DOMAIN rcv_buf = Node /\ \A n \in Node : Buffer(rcv_buf[n])
    /\ DOMAIN acklist = Node /\ \A n \in Node : acklist[n] \subseteq Nat
    /\ probe \in [Node -> SUBSET {"ASK_SEND", "ASK_TELL"}]
    /\ probing \in [Node -> BOOLEAN]
    /\ net \subseteq Segment /\ faults \in 0..MaxFaults
    /\ stream \in [Node -> Seq(Fragment)]
    /\ sent \in [Node -> Seq(Seq(Fragment))]
    /\ delivered \in [Node -> Seq(Seq(Fragment))]

\* ikcp_recv hands over the messages of the peer's ikcp_send calls: each whole,
\* once, in order, whatever the network lost, repeated or reordered.
DeliveredIsPrefix ==
    \A n \in Node :
        /\ Len(delivered[n]) <= Len(sent[Peer(n)])
        /\ \A i \in 1..Len(delivered[n]) : delivered[n][i] = sent[Peer(n)][i]

Held(n, sn) == sn < rcv_nxt[n] \/ sn \in DOMAIN rcv_buf[n]

\* parse_ack and parse_una forget a fragment only when the peer holds it: a
\* fragment that no acknowledgement covers can still be retransmitted.
NoFragmentLost ==
    \A n \in Node : \A sn \in 0..(snd_nxt[n] - 1) :
        sn \in DOMAIN snd_buf[n] \/ Held(Peer(n), sn)

\* The memory a control block may fill: the peer's stale or reordered window
\* advertisements never let more than snd_wnd fragments out, and never make
\* rcv_queue or rcv_buf grow past rcv_wnd.
WindowsRespected ==
    \A n \in Node :
        /\ snd_nxt[n] - snd_una[n] <= SndWnd
        /\ Len(rcv_queue[n]) <= RcvWnd
        /\ \A sn \in DOMAIN rcv_buf[n] : sn \in rcv_nxt[n]..(rcv_nxt[n] + RcvWnd - 1)

\* ikcp_recv and ikcp_parse_data leave nothing in rcv_buf that rcv_queue has
\* room for: otherwise a reader waits for data that has arrived.
NothingStranded ==
    \A n \in Node : rcv_nxt[n] \in DOMAIN rcv_buf[n] => Len(rcv_queue[n]) >= RcvWnd

\* What was acknowledged or received stays so: snd_una and rcv_nxt never go
\* back, also when an old segment comes after a newer one.
NeverBackward ==
    [][\A n \in Node : snd_una[n] <= snd_una'[n] /\ rcv_nxt[n] <= rcv_nxt'[n]]_vars

----------------------------------------------------------------------------
(* Liveness.  Both sides call ikcp_update and ikcp_recv forever, so a timer  *)
(* expires and its flush comes; the network loses MaxFaults segments at most. *)

Resend(n, sn) ==
    \E late \in SUBSET DOMAIN snd_buf[n], due \in BOOLEAN :
        sn \in late /\ Flush(n, late, due)

DueFlush(n) == \E late \in SUBSET DOMAIN snd_buf[n] : Flush(n, late, TRUE)

Arrival(n, cmd, sn) ==
    \E s \in net : s.cmd = cmd /\ s.sn = sn /\ Input(n, s)

FairSpec ==
    /\ Spec
    /\ \A n \in Node :
        /\ WF_vars(Recv(n))
        /\ WF_vars(DueFlush(n))
        /\ WF_vars(Arrival(n, "WASK", 0)) /\ WF_vars(Arrival(n, "WINS", 0))
        /\ \A sn \in 0..(MaxStream[n] - 1) :
            WF_vars(Resend(n, sn)) /\ WF_vars(Arrival(n, "ACK", sn))
        /\ \A sn \in 0..(MaxStream[Peer(n)] - 1) : WF_vars(Arrival(n, "PUSH", sn))

\* The two histories are what the users see of it; the rest is hidden.
Channel == INSTANCE ReliableChannel
               WITH Node <- Node, Message <- Message, sent <- sent, delivered <- delivered

\* The protocol implements the reliable channel, its delivery included: no
\* message waits forever, not behind a closed window whose reopening was lost.
ImplementsChannel == Channel!FairSpec

\* ikcp_waitsnd falls to 0: acknowledgements that were lost are sent again, so
\* every sender forgets all it sent in the end.
SendersDrain ==
    \A n \in Node : []<>(snd_queue[n] = <<>> /\ DOMAIN snd_buf[n] = {})
===========================================================================
