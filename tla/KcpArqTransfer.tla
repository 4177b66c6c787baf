-------------------------- MODULE KcpArqTransfer --------------------------
(***************************************************************************)
(* No fragment is lost: TransferInv is an invariant of KcpArq.  A step of  *)
(* one end changes one half of its control block; the other halves and the *)
(* segments in flight keep their place in the invariant because streams,   *)
(* numbers and what an end holds only grow.                                *)
(***************************************************************************)
EXTENDS KcpArqProofs

\* Nothing the other end or a segment may refer to goes away in a step.
Grows ==
    \A n \in Node :
        /\ snd_nxt[n] <= snd_nxt'[n]
        /\ \A i \in 1..Len(stream[n]) : stream'[n][i] = stream[n][i]
        /\ rcv_nxt[n] <= rcv_nxt'[n]
        /\ \A sn \in Nat : Held(n, sn) => Held(n, sn)'

\* A segment is truthful now.
Holds(s) == LET from == Peer(s.dst) IN
    Truthful(s, rcv_nxt[from], rcv_buf[from], stream[from], snd_nxt[from])

\* Numbers in use lie inside the stream of their sender.
LEMMA NumberedInStream ==
    ASSUME TypeInv, TransferInv, NEW n \in Node
    PROVE  /\ snd_nxt[n] \in Nat /\ snd_una[n] \in Nat /\ rcv_nxt[n] \in Nat
           /\ Buffer(snd_buf[n]) /\ Buffer(rcv_buf[n])
           /\ snd_queue[n] \in Seq(Fragment) /\ rcv_queue[n] \in Seq(Fragment)
           /\ stream[n] \in Seq(Fragment)
           /\ Len(stream[n]) \in Nat /\ snd_nxt[n] <= Len(stream[n])
           /\ Sends(snd_queue[n], snd_buf[n], snd_una[n], snd_nxt[n], stream[n])
           /\ Peer(n) \in Node /\ Peer(n) # n /\ Peer(Peer(n)) = n
           /\ Receives(rcv_queue[n], rcv_buf[n], rcv_nxt[n],
                       stream[Peer(n)], snd_nxt[Peer(n)])
<1>1. /\ snd_nxt[n] \in Nat /\ snd_una[n] \in Nat /\ rcv_nxt[n] \in Nat
      /\ Buffer(snd_buf[n]) /\ Buffer(rcv_buf[n])
      /\ snd_queue[n] \in Seq(Fragment) /\ rcv_queue[n] \in Seq(Fragment)
      /\ stream[n] \in Seq(Fragment)
    BY DEF TypeInv, TypeOK
<1>2. Len(stream[n]) \in Nat /\ Len(snd_queue[n]) \in Nat
    BY <1>1, LenProperties
<1>3. Sends(snd_queue[n], snd_buf[n], snd_una[n], snd_nxt[n], stream[n])
    BY DEF TransferInv, SenderInv
<1>4. snd_nxt[n] <= Len(stream[n])
    BY <1>1, <1>2, <1>3 DEF Sends
<1>5. Receives(rcv_queue[n], rcv_buf[n], rcv_nxt[n], stream[Peer(n)], snd_nxt[Peer(n)])
    BY DEF TransferInv, ReceiverInv
<1> QED
    BY <1>1, <1>2, <1>3, <1>4, <1>5, PeerFacts

\* A segment in flight stays truthful.
LEMMA SegmentsKept ==
    ASSUME TypeInv, TransferInv, TypeInv', Grows, NEW s \in net
    PROVE  Holds(s)'
<1> DEFINE from == Peer(s.dst)
<1>1. s.dst \in Node /\ s.sn \in Nat /\ s.una \in Nat /\ s \in Segment
    BY DEF TypeInv, TypeOK, Segment
<1>2. from \in Node
    BY <1>1, PeerFacts
<1>3. Truthful(s, rcv_nxt[from], rcv_buf[from], stream[from], snd_nxt[from])
    BY DEF TransferInv, NetInv
<1>4. Holds(s)' = Truthful(s, rcv_nxt'[from], rcv_buf'[from], stream'[from],
                           snd_nxt'[from])
    BY DEF Holds
<1> HIDE DEF from
<1>5. /\ rcv_nxt[from] \in Nat /\ rcv_nxt'[from] \in Nat
      /\ snd_nxt[from] \in Nat /\ snd_nxt'[from] \in Nat
      /\ Len(stream[from]) \in Nat /\ snd_nxt[from] <= Len(stream[from])
    BY <1>2, NumberedInStream DEF TypeInv, TypeOK
<1>6. s.una <= rcv_nxt'[from]
    BY <1>1, <1>2, <1>3, <1>5 DEF Truthful, Grows
<1>7. s.cmd = "ACK" => s.sn < rcv_nxt'[from] \/ s.sn \in DOMAIN rcv_buf'[from]
    BY <1>1, <1>2, <1>3 DEF Truthful, Grows, Held
<1>8. ASSUME s.cmd = "PUSH"
      PROVE  s.sn < snd_nxt'[from] /\ s.frag = stream'[from][s.sn + 1]
  <2>1. s.sn < snd_nxt[from] /\ s.frag = stream[from][s.sn + 1]
    BY <1>3, <1>8 DEF Truthful
  <2>2. s.sn + 1 \in 1..Len(stream[from])
    BY <1>1, <1>5, <2>1
  <2>3. stream'[from][s.sn + 1] = stream[from][s.sn + 1] /\ snd_nxt[from] <= snd_nxt'[from]
    BY <1>2, <2>2 DEF Grows
  <2> QED
    BY <1>1, <1>5, <2>1, <2>3
<1> QED
    BY <1>4, <1>6, <1>7, <1>8 DEF Truthful

\* So do the receiving half of an end that a step leaves alone.
LEMMA ReceiverKept ==
    ASSUME TypeInv, TransferInv, TypeInv', Grows, NEW n \in Node,
           rcv_queue'[n] = rcv_queue[n], rcv_buf'[n] = rcv_buf[n],
           rcv_nxt'[n] = rcv_nxt[n]
    PROVE  Receives(rcv_queue'[n], rcv_buf'[n], rcv_nxt'[n],
                    stream'[Peer(n)], snd_nxt'[Peer(n)])
<1> DEFINE p == Peer(n)
<1>1. /\ rcv_queue[n] \in Seq(Fragment) /\ Buffer(rcv_buf[n]) /\ rcv_nxt[n] \in Nat
      /\ p \in Node /\ Receives(rcv_queue[n], rcv_buf[n], rcv_nxt[n], stream[p], snd_nxt[p])
    BY NumberedInStream
<1> HIDE DEF p
<1>2. stream[p] \in Seq(Fragment) /\ snd_nxt[p] \in Nat /\ snd_nxt[p] <= Len(stream[p])
    BY <1>1, NumberedInStream
<1>3. stream'[p] \in Seq(Fragment) /\ snd_nxt'[p] \in Nat
    BY <1>1 DEF TypeInv, TypeOK
<1>4. snd_nxt[p] <= snd_nxt'[p] /\ \A i \in 1..Len(stream[p]) : stream'[p][i] = stream[p][i]
    BY <1>1 DEF Grows
<1>5. Receives(rcv_queue[n], rcv_buf[n], rcv_nxt[n], stream'[p], snd_nxt'[p])
    BY <1>1, <1>2, <1>3, <1>4, ReceivesMore
<1> QED
    BY <1>5 DEF p

\* Acknowledgements waiting in acklist stay true.
LEMMA AcksKept ==
    ASSUME TypeInv, TransferInv, Grows, NEW n \in Node, NEW sn \in acklist[n]
    PROVE  Held(n, sn)'
<1>1. sn \in Nat /\ Held(n, sn)
    BY DEF TypeInv, TypeOK, TransferInv, AckInv
<1> QED
    BY <1>1 DEF Grows

\* What was numbered is in snd_buf or with the peer, and stays with the peer.
LEMMA FragmentsKept ==
    ASSUME TypeInv, TransferInv, Grows, snd_nxt' = snd_nxt,
           \A n \in Node : \A sn \in DOMAIN snd_buf[n] :
              sn \in DOMAIN snd_buf'[n] \/ Held(Peer(n), sn)'
    PROVE  NoFragmentLost'
<1> SUFFICES ASSUME NEW n \in Node, NEW sn \in 0..(snd_nxt[n] - 1)
             PROVE  sn \in DOMAIN snd_buf'[n] \/ Held(Peer(n), sn)'
    BY DEF NoFragmentLost
<1>1. sn \in Nat /\ Peer(n) \in Node
    BY NumberedInStream
<1>2. sn \in DOMAIN snd_buf[n] \/ Held(Peer(n), sn)
    BY DEF TransferInv, NoFragmentLost
<1> QED
    BY <1>1, <1>2 DEF Grows

\* ikcp_send: the new fragments go to the end of the queue and of the stream.
LEMMA SendTransfer ==
    ASSUME TypeInv, TypeInv', TransferInv, NEW n \in Node,
           NEW count \in 1..MaxFrags, Send(n, count)
    PROVE  TransferInv'
<1> DEFINE m == Fragments(Len(stream[n]), count)
<1>1. Len(stream[n]) \in Nat /\ count \in Nat
    BY Bounds, NumberedInStream
<1>2. m \in Seq(Fragment)
    BY <1>1, FragmentsFacts
<1>3. /\ snd_queue' = [snd_queue EXCEPT ![n] = snd_queue[n] \o m]
      /\ stream' = [stream EXCEPT ![n] = stream[n] \o m]
      /\ snd_buf' = snd_buf /\ snd_una' = snd_una /\ snd_nxt' = snd_nxt
      /\ rcv_buf' = rcv_buf /\ rcv_queue' = rcv_queue /\ rcv_nxt' = rcv_nxt
      /\ acklist' = acklist /\ net' = net
    BY DEF Send, rcvVars, netVars
<1> HIDE DEF m
<1>4. stream[n] \in Seq(Fragment)
    BY NumberedInStream
<1>5. \A i \in 1..Len(stream[n]) : (stream[n] \o m)[i] = stream[n][i]
    BY <1>2, <1>4, ExtendedStream
<1>6. Grows
  <2> SUFFICES ASSUME NEW x \in Node
               PROVE  \A i \in 1..Len(stream[x]) : stream'[x][i] = stream[x][i]
    <3>1. \A x \in Node : snd_nxt[x] \in Nat /\ rcv_nxt[x] \in Nat
      BY NumberedInStream
    <3> QED
      BY <1>3, <3>1 DEF Grows, Held
  <2>1. stream'[x] = IF x = n THEN stream[n] \o m ELSE stream[x]
    BY <1>3 DEF TypeInv, TypeOK
  <2> QED
    BY <1>5, <2>1
<1>7. SenderInv'
  <2> SUFFICES ASSUME NEW x \in Node
               PROVE  Sends(snd_queue'[x], snd_buf'[x], snd_una'[x], snd_nxt'[x], stream'[x])
    BY DEF SenderInv
  <2>1. /\ snd_queue[x] \in Seq(Fragment) /\ stream[x] \in Seq(Fragment)
        /\ Buffer(snd_buf[x]) /\ snd_una[x] \in Nat /\ snd_nxt[x] \in Nat
        /\ Sends(snd_queue[x], snd_buf[x], snd_una[x], snd_nxt[x], stream[x])
    BY NumberedInStream
  <2>2. CASE x = n
    <3>1. Sends(snd_queue[x] \o m, snd_buf[x], snd_una[x], snd_nxt[x], stream[x] \o m)
      BY <1>2, <2>1, SendsAppend
    <3>2. snd_queue'[x] = snd_queue[x] \o m /\ stream'[x] = stream[x] \o m
      BY <1>3, <2>2 DEF TypeInv, TypeOK
    <3> QED
      BY <1>3, <3>1, <3>2
  <2>3. CASE x # n
    BY <1>3, <2>1, <2>3
  <2> QED
    BY <2>2, <2>3
<1>8. ReceiverInv'
    BY <1>3, <1>6, ReceiverKept DEF ReceiverInv
<1>9. NetInv'
    BY <1>3, <1>6, SegmentsKept DEF NetInv, Holds
<1>10. AckInv'
    BY <1>3, <1>6, AcksKept DEF AckInv
<1>11. NoFragmentLost'
    BY <1>3, <1>6, FragmentsKept
<1> QED
    BY <1>7, <1>8, <1>9, <1>10, <1>11 DEF TransferInv

\* MoveReady: the receiving half of n takes in order what buf and queue hold.
LEMMA MovedKept ==
    ASSUME TypeInv, TypeInv', TransferInv, NEW n \in Node,
           NEW buf, Buffer(buf), DOMAIN rcv_buf[n] \subseteq DOMAIN buf,
           NEW queue \in Seq(Fragment), NEW k \in Nat, NEW q \in Seq(Fragment), NEW b,
           Receives(queue, buf, rcv_nxt[n], stream[Peer(n)], snd_nxt[Peer(n)]),
           Moved(n, buf, queue, k, q, b), snd_nxt' = snd_nxt, stream' = stream
    PROVE  /\ Grows /\ ReceiverInv'
           /\ \A sn \in DOMAIN buf : Held(n, sn)'
<1>1. /\ rcv_queue'[n] = q /\ rcv_nxt'[n] = rcv_nxt[n] + k /\ rcv_buf'[n] = b
      /\ \A x \in Node \ {n} : /\ rcv_queue'[x] = rcv_queue[x]
                               /\ rcv_nxt'[x] = rcv_nxt[x]
                               /\ rcv_buf'[x] = rcv_buf[x]
    BY DEF Moved, TypeInv, TypeOK
<1>2. Takes(buf, queue, rcv_nxt[n], k, q, b)
    BY DEF Moved
<1>3. rcv_nxt[n] \in Nat /\ snd_nxt[Peer(n)] \in Nat /\ Peer(n) \in Node
    BY NumberedInStream
<1>4. /\ Receives(q, b, rcv_nxt[n] + k, stream[Peer(n)], snd_nxt[Peer(n)])
      /\ \A sn \in Nat : sn < rcv_nxt[n] \/ sn \in DOMAIN buf
                          => sn < rcv_nxt[n] + k \/ sn \in DOMAIN b
    BY <1>2, <1>3, ReceivesTaken
<1>5. \A sn \in Nat : sn < rcv_nxt[n] \/ sn \in DOMAIN buf => Held(n, sn)'
    BY <1>1, <1>4 DEF Held
<1>6. Grows
  <2> SUFFICES ASSUME NEW x \in Node
               PROVE  /\ rcv_nxt[x] <= rcv_nxt'[x]
                      /\ \A sn \in Nat : Held(x, sn) => Held(x, sn)'
    <3>1. \A x \in Node : snd_nxt[x] \in Nat
      BY NumberedInStream
    <3> QED
      BY <3>1 DEF Grows
  <2>1. CASE x = n
    BY <1>1, <1>3, <1>5, <2>1 DEF Held
  <2>2. CASE x # n
    <3>1. rcv_nxt[x] \in Nat
      BY NumberedInStream
    <3> QED
      BY <1>1, <2>2, <3>1 DEF Held
  <2> QED
    BY <2>1, <2>2
<1>7. ReceiverInv'
  <2> SUFFICES ASSUME NEW x \in Node
               PROVE  Receives(rcv_queue'[x], rcv_buf'[x], rcv_nxt'[x],
                               stream'[Peer(x)], snd_nxt'[Peer(x)])
    BY DEF ReceiverInv
  <2>1. CASE x = n
    BY <1>1, <1>4, <2>1
  <2>2. CASE x # n
    BY <1>1, <1>6, <2>2, ReceiverKept
  <2> QED
    BY <2>1, <2>2
<1>8. \A sn \in DOMAIN buf : sn \in Nat
    BY DEF Buffer
<1> QED
    BY <1>5, <1>6, <1>7, <1>8

\* ikcp_recv: reading makes room, and rcv_buf moves up in order.
LEMMA RecvTransfer ==
    ASSUME TypeInv, TypeInv', TransferInv, NEW n \in Node, Recv(n)
    PROVE  TransferInv'
<1> DEFINE k == HeadLength(n)
           rest == SubSeq(rcv_queue[n], k + 1, Len(rcv_queue[n]))
<1>1. HeadComplete(n) /\ MoveReady(n, rcv_buf[n], rest)
    BY DEF Recv
<1>2. /\ rest \in Seq(Fragment) /\ Len(rest) <= RcvWnd
      /\ k \in 0..Len(rcv_queue[n]) /\ Len(rest) = Len(rcv_queue[n]) - k
      /\ \A i \in 1..Len(rest) : rest[i] = rcv_queue[n][k + i]
    BY <1>1, RestFacts, HeadFacts
<1>3. /\ snd_queue' = snd_queue /\ snd_buf' = snd_buf
      /\ snd_una' = snd_una /\ snd_nxt' = snd_nxt
      /\ stream' = stream /\ acklist' = acklist /\ net' = net
    BY DEF Recv, sndVars, netVars
<1> HIDE DEF k, rest
<1>4a. PICK j \in 0..(RcvWnd - Len(rest)), q \in Seq(Fragment) :
             \E b : Moved(n, rcv_buf[n], rest, j, q, b)
    BY <1>1, <1>2, MoveReadyFacts DEF TypeInv, TypeOK
<1>4. PICK b : Moved(n, rcv_buf[n], rest, j, q, b)
  BY <1>4a
<1>5. Receives(rest, rcv_buf[n], rcv_nxt[n], stream[Peer(n)], snd_nxt[Peer(n)])
  <2>1. /\ rcv_queue[n] \in Seq(Fragment) /\ rcv_nxt[n] \in Nat
        /\ Receives(rcv_queue[n], rcv_buf[n], rcv_nxt[n],
                    stream[Peer(n)], snd_nxt[Peer(n)])
    BY NumberedInStream
  <2> QED
    BY <1>2, <2>1, ReceivesRest
<1>6. Buffer(rcv_buf[n]) /\ j \in Nat
  <2>1. Len(rest) \in Nat /\ RcvWnd \in Nat
    BY <1>2, Windows, LenProperties
  <2> QED
    BY <2>1, NumberedInStream
<1>7. Grows /\ ReceiverInv'
    BY <1>2, <1>3, <1>4, <1>5, <1>6, MovedKept
<1>8. SenderInv'
    BY <1>3 DEF TransferInv, SenderInv
<1>9. NetInv'
    BY <1>3, <1>7, SegmentsKept DEF NetInv, Holds
<1>10. AckInv'
    BY <1>3, <1>7, AcksKept DEF AckInv
<1>11. NoFragmentLost'
    BY <1>3, <1>7, FragmentsKept
<1> QED
    BY <1>7, <1>8, <1>9, <1>10, <1>11 DEF TransferInv

\* ikcp_flush: numbers for the fragments the window admits, and segments that
\* tell what n holds.
LEMMA FlushTransfer ==
    ASSUME TypeInv, TypeInv', TransferInv, NEW n \in Node,
           NEW late \in SUBSET DOMAIN snd_buf[n], NEW due \in BOOLEAN,
           Flush(n, late, due)
    PROVE  TransferInv'
<1> DEFINE k == Admitted(n)
           buf == Numbered(n)
           fresh == snd_nxt[n]..(snd_nxt[n] + k - 1)
           rest == SubSeq(snd_queue[n], k + 1, Len(snd_queue[n]))
           pushed == {Push(n, sn, buf[sn]) : sn \in fresh \cup late}
           acks == {Ack(n, sn) : sn \in acklist[n]}
           asks == WindowSegments(n, Asked(n, due))
<1>1. /\ snd_queue' = [snd_queue EXCEPT ![n] = rest]
      /\ snd_buf' = [snd_buf EXCEPT ![n] = buf]
      /\ snd_nxt' = [snd_nxt EXCEPT ![n] = snd_nxt[n] + k]
      /\ net' = net \cup acks \cup asks \cup pushed
      /\ acklist' = [acklist EXCEPT ![n] = {}]
      /\ snd_una' = snd_una /\ stream' = stream
      /\ rcv_buf' = rcv_buf /\ rcv_queue' = rcv_queue /\ rcv_nxt' = rcv_nxt
    BY DEF Flush, rcvVars, userVars
<1>2. /\ Buffer(buf) /\ DOMAIN buf = DOMAIN snd_buf[n] \cup fresh
      /\ \A sn \in DOMAIN snd_buf[n] : buf[sn] = snd_buf[n][sn]
      /\ \A sn \in fresh \ DOMAIN snd_buf[n] :
            buf[sn] = snd_queue[n][sn - snd_nxt[n] + 1]
    BY NumberedFacts
<1>3. k \in 0..Len(snd_queue[n]) /\ k \in Nat
  <2>1. k \in 0..Len(snd_queue[n])
    BY AdmittedFacts DEF TypeInv
  <2>2. Len(snd_queue[n]) \in Nat
    BY NumberedInStream, LenProperties
  <2> QED
    BY <2>1, <2>2
<1> HIDE DEF k, buf
<1>4. Sends(rest, buf, snd_una[n], snd_nxt[n] + k, stream[n])
    BY <1>2, <1>3, NumberedInStream, SendsNumber
<1> HIDE DEF rest, pushed, acks, asks
<1>5. /\ snd_queue'[n] = rest /\ snd_buf'[n] = buf /\ snd_nxt'[n] = snd_nxt[n] + k
      /\ \A x \in Node \ {n} : /\ snd_queue'[x] = snd_queue[x]
                               /\ snd_buf'[x] = snd_buf[x]
                               /\ snd_nxt'[x] = snd_nxt[x]
    BY <1>1 DEF TypeInv, TypeOK
<1>6. Grows
  <2> SUFFICES ASSUME NEW x \in Node PROVE snd_nxt[x] <= snd_nxt'[x]
    <3>1. \A x \in Node : rcv_nxt[x] \in Nat
      BY NumberedInStream
    <3> QED
      BY <1>1, <3>1 DEF Grows, Held
  <2>1. snd_nxt[x] \in Nat
    BY NumberedInStream
  <2> QED
    BY <1>3, <1>5, <2>1
<1>7. SenderInv'
    BY <1>1, <1>4, <1>5 DEF SenderInv, TransferInv
<1>8. ReceiverInv'
    BY <1>1, <1>6, ReceiverKept DEF ReceiverInv
<1>9. NetInv'
  <2> SUFFICES ASSUME NEW s \in net' PROVE Holds(s)'
    BY DEF NetInv, Holds
  <2>1. /\ Peer(Peer(n)) = n /\ rcv_nxt[n] \in Nat /\ snd_nxt[n] \in Nat
    BY NumberedInStream
  <2>2. CASE s \in net
    BY <1>6, <2>2, SegmentsKept
  <2>3. CASE s \in acks
    <3>1. PICK sn \in acklist[n] : s = Ack(n, sn)
      BY <2>3 DEF acks
    <3>2. /\ s.una = rcv_nxt[n] /\ s.cmd = "ACK" /\ s.sn = sn /\ s.dst = Peer(n)
      BY <3>1 DEF Ack
    <3>3. Held(n, sn)
      BY DEF TransferInv, AckInv
    <3> QED
      BY <1>1, <2>1, <3>2, <3>3 DEF Holds, Truthful, Held
  <2>4. CASE s \in asks
    <3>1. /\ s.una = rcv_nxt[n] /\ s.cmd \in {"WASK", "WINS"} /\ s.dst = Peer(n)
      BY <2>4 DEF asks, WindowSegments, Window
    <3> QED
      BY <1>1, <2>1, <3>1 DEF Holds, Truthful
  <2>5. CASE s \in pushed
    <3>1. PICK sn \in fresh \cup late : s = Push(n, sn, buf[sn])
      BY <2>5 DEF pushed
    <3>2. /\ s.una = rcv_nxt[n] /\ s.cmd = "PUSH" /\ s.sn = sn
          /\ s.frag = buf[sn] /\ s.dst = Peer(n)
      BY <3>1 DEF Push
    <3>3. sn \in DOMAIN buf
      BY <1>2
    <3>4. sn < snd_nxt[n] + k /\ buf[sn] = stream[n][sn + 1]
      BY <1>4, <3>3 DEF Sends
    <3> QED
      BY <1>1, <1>5, <2>1, <3>2, <3>4 DEF Holds, Truthful
  <2> QED
    BY <1>1, <2>2, <2>3, <2>4, <2>5
<1>10. AckInv'
  <2> SUFFICES ASSUME NEW x \in Node, NEW sn \in acklist'[x] PROVE Held(x, sn)'
    BY DEF AckInv
  <2>1. x # n /\ sn \in acklist[x]
    BY <1>1 DEF TypeInv, TypeOK
  <2> QED
    BY <1>6, <2>1, AcksKept
<1>11. NoFragmentLost'
  <2> SUFFICES ASSUME NEW x \in Node, NEW sn \in 0..(snd_nxt'[x] - 1)
               PROVE  sn \in DOMAIN snd_buf'[x] \/ Held(Peer(x), sn)'
    BY DEF NoFragmentLost
  <2>1. snd_nxt[x] \in Nat /\ sn \in Nat /\ Peer(x) \in Node
    BY NumberedInStream
  <2>2. CASE sn < snd_nxt[x]
    <3>1. sn \in DOMAIN snd_buf[x] \/ Held(Peer(x), sn)
      BY <2>1, <2>2 DEF TransferInv, NoFragmentLost
    <3>2. sn \in DOMAIN snd_buf[x] => sn \in DOMAIN snd_buf'[x]
      BY <1>2, <1>5
    <3> QED
      BY <1>6, <2>1, <3>1, <3>2 DEF Grows
  <2>3. CASE ~(sn < snd_nxt[x])
    <3>1. x = n
      BY <1>5, <2>1, <2>3
    <3>2. sn \in fresh
      BY <1>3, <1>5, <2>1, <2>3, <3>1
    <3> QED
      BY <1>2, <1>5, <3>1, <3>2
  <2> QED
    BY <2>2, <2>3
<1> QED
    BY <1>7, <1>8, <1>9, <1>10, <1>11 DEF TransferInv

\* A truthful segment acknowledges only what its sender holds.
LEMMA Acknowledged ==
    ASSUME TypeInv, TransferInv, NEW n \in Node, NEW s \in net, s.dst = n,
           NEW sn \in Nat, sn < s.una \/ (s.cmd = "ACK" /\ sn = s.sn)
    PROVE  Held(Peer(n), sn)
<1>1. Truthful(s, rcv_nxt[Peer(n)], rcv_buf[Peer(n)], stream[Peer(n)], snd_nxt[Peer(n)])
    BY DEF TransferInv, NetInv
<1>2. s.una \in Nat /\ rcv_nxt[Peer(n)] \in Nat
    BY LeftBuffers, NumberedInStream
<1> QED
    BY <1>1, <1>2 DEF Truthful, Held

\* The sending half after any segment: snd_buf shrinks to `buf'.
LEMMA HeaderKept ==
    ASSUME TypeInv, TransferInv, NEW n \in Node, NEW s \in net, NEW buf,
           Buffer(buf), DOMAIN buf \subseteq DOMAIN snd_buf[n],
           \A sn \in DOMAIN buf : buf[sn] = snd_buf[n][sn], Header(n, s, buf)
    PROVE  /\ SenderInv' /\ snd_una[n] <= snd_una'[n]
           /\ snd_buf'[n] = buf
           /\ \A x \in Node \ {n} : /\ snd_buf'[x] = snd_buf[x]
                                    /\ snd_una'[x] = snd_una[x]
           /\ snd_nxt' = snd_nxt /\ snd_queue' = snd_queue /\ stream' = stream
<1> DEFINE una == FirstUnacked(buf, snd_nxt[n])
<1>1. /\ snd_buf' = [snd_buf EXCEPT ![n] = buf]
      /\ snd_una' = [snd_una EXCEPT ![n] = una]
      /\ snd_nxt' = snd_nxt /\ snd_queue' = snd_queue /\ stream' = stream
    BY DEF Header, userVars
<1>2. Sends(snd_queue[n], buf, una, snd_nxt[n], stream[n]) /\ snd_una[n] <= una
  <2>1. /\ Buffer(snd_buf[n]) /\ snd_una[n] \in Nat /\ snd_nxt[n] \in Nat
        /\ Sends(snd_queue[n], snd_buf[n], snd_una[n], snd_nxt[n], stream[n])
    BY NumberedInStream
  <2> QED
    BY <2>1, SendsAcked
<1> HIDE DEF una
<1>3. /\ snd_buf'[n] = buf /\ snd_una'[n] = una
      /\ \A x \in Node \ {n} : snd_buf'[x] = snd_buf[x] /\ snd_una'[x] = snd_una[x]
    BY <1>1 DEF TypeInv, TypeOK
<1>4. SenderInv'
    BY <1>1, <1>2, <1>3 DEF SenderInv, TransferInv
<1> QED
    BY <1>1, <1>2, <1>3, <1>4

\* What the handlers leave in snd_buf, and what they take out of it.
LEMMA LeftKept ==
    ASSUME TypeInv, TransferInv, NEW n \in Node, NEW s \in net, s.dst = n
    PROVE  LET passed == AfterUna(snd_buf[n], s.una)
               acked == AfterAck(passed, s.sn, snd_nxt[n])
           IN /\ Buffer(passed) /\ DOMAIN passed \subseteq DOMAIN snd_buf[n]
              /\ \A sn \in DOMAIN passed : passed[sn] = snd_buf[n][sn]
              /\ \A sn \in DOMAIN snd_buf[n] \ DOMAIN passed : Held(Peer(n), sn)
              /\ Buffer(acked) /\ DOMAIN acked \subseteq DOMAIN snd_buf[n]
              /\ \A sn \in DOMAIN acked : acked[sn] = snd_buf[n][sn]
              /\ s.cmd = "ACK" => \A sn \in DOMAIN snd_buf[n] \ DOMAIN acked :
                                     Held(Peer(n), sn)
<1> DEFINE passed == AfterUna(snd_buf[n], s.una)
           acked == AfterAck(passed, s.sn, snd_nxt[n])
<1>1. /\ s.una \in Nat /\ s.sn \in Nat /\ Buffer(snd_buf[n]) /\ snd_nxt[n] \in Nat
      /\ Buffer(passed) /\ Buffer(acked)
    BY LeftBuffers
<1>2. /\ DOMAIN passed = {sn \in DOMAIN snd_buf[n] : sn >= s.una}
      /\ \A sn \in DOMAIN passed : passed[sn] = snd_buf[n][sn]
    BY <1>1, AfterUnaFacts
<1> HIDE DEF passed
<1>3. /\ DOMAIN acked \subseteq DOMAIN passed
      /\ DOMAIN passed \ DOMAIN acked \subseteq {s.sn}
      /\ \A sn \in DOMAIN acked : acked[sn] = passed[sn]
  <2>1. Buffer(passed) /\ s.sn \in Nat /\ snd_nxt[n] \in Nat
    BY <1>1
  <2> DEFINE k == s.sn
             nxt == snd_nxt[n]
  <2>2. k \in Nat /\ nxt \in Nat
    BY <2>1
  <2> HIDE DEF k, nxt
  <2>3. /\ DOMAIN AfterAck(passed, k, nxt) \subseteq DOMAIN passed
        /\ DOMAIN passed \ DOMAIN AfterAck(passed, k, nxt) \subseteq {k}
    BY <2>1, <2>2, AfterAckFacts
  <2>4. \A sn \in DOMAIN AfterAck(passed, k, nxt) :
           AfterAck(passed, k, nxt)[sn] = passed[sn]
    BY <2>1, <2>2, AfterAckFacts
  <2> QED
    BY <2>3, <2>4 DEF k, nxt
<1> HIDE DEF acked
<1>4. \A sn \in DOMAIN snd_buf[n] : sn \in Nat
    BY <1>1 DEF Buffer
<1>5. \A sn \in DOMAIN snd_buf[n] \ DOMAIN passed : sn \in Nat /\ sn < s.una
    BY <1>1, <1>2, <1>4
<1>6. \A sn \in DOMAIN snd_buf[n] \ DOMAIN passed : Held(Peer(n), sn)
    BY <1>5, Acknowledged
<1>7. ASSUME s.cmd = "ACK"
      PROVE  \A sn \in DOMAIN snd_buf[n] \ DOMAIN acked : Held(Peer(n), sn)
    BY <1>1, <1>3, <1>6, <1>7, Acknowledged
<1> QED
    BY <1>1, <1>2, <1>3, <1>6, <1>7 DEF passed, acked

\* A segment handled: the sending half as the header says, the receiving half
\* and acklist as the command says.
LEMMA InputKept ==
    ASSUME TypeInv, TypeInv', TransferInv, NEW n \in Node, NEW s \in net, NEW buf,
           Buffer(buf), DOMAIN buf \subseteq DOMAIN snd_buf[n],
           \A sn \in DOMAIN buf : buf[sn] = snd_buf[n][sn],
           \A sn \in DOMAIN snd_buf[n] \ DOMAIN buf : Held(Peer(n), sn),
           Arrive(s), Header(n, s, buf), Grows, ReceiverInv',
           \A x \in Node : \A sn \in acklist'[x] : sn \in acklist[x] \/ Held(x, sn)'
    PROVE  TransferInv'
<1>1. /\ SenderInv' /\ snd_buf'[n] = buf /\ snd_nxt' = snd_nxt
      /\ \A x \in Node \ {n} : snd_buf'[x] = snd_buf[x]
    BY HeaderKept
<1>2. net' \subseteq net
    BY DEF Arrive
<1>3. NetInv'
    BY <1>2, SegmentsKept DEF NetInv, Holds
<1>4. AckInv'
    BY AcksKept DEF AckInv
<1>5. ASSUME NEW x \in Node, NEW sn \in DOMAIN snd_buf[x]
      PROVE  sn \in DOMAIN snd_buf'[x] \/ Held(Peer(x), sn)'
  <2>1. CASE x = n /\ sn \notin DOMAIN buf
    <3>1. Peer(x) \in Node /\ sn \in Nat /\ Held(Peer(x), sn)
      BY <2>1, NumberedInStream DEF Buffer
    <3> QED
      BY <3>1 DEF Grows
  <2>2. CASE x # n \/ sn \in DOMAIN buf
    BY <1>1, <2>2
  <2> QED
    BY <2>1, <2>2
<1>6. NoFragmentLost'
    BY <1>1, <1>5, FragmentsKept
<1> QED
    BY <1>1, <1>3, <1>4, <1>6 DEF TransferInv

\* A step that leaves every receiving half alone.
LEMMA NothingReceived ==
    ASSUME TypeInv, TypeInv', TransferInv, UNCHANGED rcvVars,
           snd_nxt' = snd_nxt, stream' = stream
    PROVE  Grows /\ ReceiverInv'
<1>1. rcv_buf' = rcv_buf /\ rcv_queue' = rcv_queue /\ rcv_nxt' = rcv_nxt
    BY DEF rcvVars
<1>2. \A x \in Node : snd_nxt[x] \in Nat /\ rcv_nxt[x] \in Nat
    BY NumberedInStream
<1>3. Grows
    BY <1>1, <1>2 DEF Grows, Held
<1> QED
    BY <1>1, <1>3, ReceiverKept DEF ReceiverInv

\* A PUSH: its fragment is dropped, known already, or put at its place.
LEMMA InputPushTransfer ==
    ASSUME TypeInv, TypeInv', TransferInv, NEW n \in Node, NEW s \in net,
           s.dst = n, InputPush(n, s)
    PROVE  TransferInv'
<1> DEFINE buf == AfterUna(snd_buf[n], s.una)
<1>1. s.cmd = "PUSH" /\ Arrive(s) /\ Header(n, s, buf)
    BY DEF InputPush
<1>2. /\ Buffer(buf) /\ DOMAIN buf \subseteq DOMAIN snd_buf[n]
      /\ \A sn \in DOMAIN buf : buf[sn] = snd_buf[n][sn]
      /\ \A sn \in DOMAIN snd_buf[n] \ DOMAIN buf : Held(Peer(n), sn)
    BY LeftKept
<1> HIDE DEF buf
<1>3. snd_nxt' = snd_nxt /\ stream' = stream
    BY <1>1, <1>2, HeaderKept
<1>4. CASE Beyond(n, s) \/ Repeated(n, s)
  <2>1. UNCHANGED rcvVars
    BY <1>4 DEF Beyond, Repeated
  <2>2. Grows /\ ReceiverInv'
    BY <1>3, <2>1, NothingReceived
  <2>3. ASSUME NEW x \in Node, NEW sn \in acklist'[x]
        PROVE  sn \in acklist[x] \/ Held(x, sn)'
    <3>1. CASE Beyond(n, s)
      BY <3>1 DEF Beyond
    <3>2. CASE Repeated(n, s)
      <4>1. acklist' = [acklist EXCEPT ![n] = acklist[n] \cup {s.sn}]
        BY <3>2 DEF Repeated, Acknowledge
      <4>2. sn \in acklist[x] \/ (x = n /\ sn = s.sn)
        BY <4>1 DEF TypeInv, TypeOK
      <4>3. rcv_nxt' = rcv_nxt /\ s.sn < rcv_nxt[n]
        BY <2>1, <3>2 DEF Repeated, rcvVars
      <4> QED
        BY <4>2, <4>3 DEF Held
    <3> QED
      BY <1>4, <3>1, <3>2
  <2> QED
    BY <1>1, <1>2, <2>2, <2>3, InputKept
<1>5. CASE Accepted(n, s)
  <2> DEFINE w == WithSegment(n, s)
  <2>1. /\ acklist' = [acklist EXCEPT ![n] = acklist[n] \cup {s.sn}]
        /\ MoveReady(n, w, rcv_queue[n])
    BY <1>5 DEF Accepted, Acknowledge
  <2>2. /\ Buffer(w) /\ DOMAIN w = DOMAIN rcv_buf[n] \cup {s.sn}
        /\ \A sn \in DOMAIN rcv_buf[n] : w[sn] = rcv_buf[n][sn]
        /\ s.sn \notin DOMAIN rcv_buf[n] => w[s.sn] = s.frag
    BY WithSegmentFacts
  <2> HIDE DEF w
  <2>3. /\ rcv_queue[n] \in Seq(Fragment) /\ Len(rcv_queue[n]) <= RcvWnd
        /\ Len(rcv_queue[n]) \in Nat /\ RcvWnd \in Nat /\ TypeOK
    BY Windows, LenProperties DEF TypeInv, TypeOK, QueueBound
  <2>4a. PICK j \in 0..(RcvWnd - Len(rcv_queue[n])), q \in Seq(Fragment) :
            \E b : Moved(n, w, rcv_queue[n], j, q, b)
    BY <2>1, <2>2, <2>3, MoveReadyFacts
  <2>4. PICK b : Moved(n, w, rcv_queue[n], j, q, b)
    BY <2>4a
  <2>5. j \in Nat
    BY <2>3
  <2>6. Receives(rcv_queue[n], w, rcv_nxt[n], stream[Peer(n)], snd_nxt[Peer(n)])
    <3>1. Receives(rcv_queue[n], rcv_buf[n], rcv_nxt[n], stream[Peer(n)], snd_nxt[Peer(n)])
      BY NumberedInStream
    <3>2. s.sn < snd_nxt[Peer(n)] /\ s.frag = stream[Peer(n)][s.sn + 1]
      BY <1>1 DEF TransferInv, NetInv, Truthful
    <3> QED
      BY <2>2, <3>1, <3>2 DEF Receives
  <2>7. /\ Grows /\ ReceiverInv'
        /\ \A sn \in DOMAIN w : Held(n, sn)'
    BY <1>3, <2>2, <2>3, <2>4, <2>5, <2>6, MovedKept
  <2>8. ASSUME NEW x \in Node, NEW sn \in acklist'[x]
        PROVE  sn \in acklist[x] \/ Held(x, sn)'
    <3>1. sn \in acklist[x] \/ (x = n /\ sn = s.sn)
      BY <2>1 DEF TypeInv, TypeOK
    <3> QED
      BY <2>2, <2>7, <3>1
  <2> QED
    BY <1>1, <1>2, <2>7, <2>8, InputKept
<1> QED
    BY <1>4, <1>5 DEF InputPush

\* ikcp_input: only what the peer holds leaves snd_buf.
LEMMA InputTransfer ==
    ASSUME TypeInv, TypeInv', TransferInv, NEW n \in Node, NEW s \in net, Input(n, s)
    PROVE  TransferInv'
<1>1. s.dst = n
    BY DEF Input
<1>2. ASSUME NEW buf, Buffer(buf), DOMAIN buf \subseteq DOMAIN snd_buf[n],
             \A sn \in DOMAIN buf : buf[sn] = snd_buf[n][sn],
             \A sn \in DOMAIN snd_buf[n] \ DOMAIN buf : Held(Peer(n), sn),
             Arrive(s), Header(n, s, buf), UNCHANGED <<rcvVars, acklist>>
      PROVE  TransferInv'
  <2>1. snd_nxt' = snd_nxt /\ stream' = stream
    BY <1>2, HeaderKept
  <2>2. Grows /\ ReceiverInv'
    BY <1>2, <2>1, NothingReceived
  <2> QED
    BY <1>2, <2>2, InputKept
<1>3. CASE InputAck(n, s)
  <2>1. /\ s.cmd = "ACK" /\ Arrive(s) /\ UNCHANGED <<rcvVars, acklist>>
        /\ Header(n, s, AfterAck(AfterUna(snd_buf[n], s.una), s.sn, snd_nxt[n]))
    BY <1>3 DEF InputAck
  <2> QED
    BY <1>1, <1>2, <2>1, LeftKept
<1>4. CASE InputPush(n, s)
    BY <1>1, <1>4, InputPushTransfer
<1>5. CASE InputWask(n, s) \/ InputWins(n, s)
  <2>1. /\ Arrive(s) /\ UNCHANGED <<rcvVars, acklist>>
        /\ Header(n, s, AfterUna(snd_buf[n], s.una))
    BY <1>5 DEF InputWask, InputWins
  <2> QED
    BY <1>1, <1>2, <2>1, LeftKept
<1> QED
    BY <1>3, <1>4, <1>5 DEF Input

\* A lost datagram takes no fragment with it.
LEMMA LoseTransfer ==
    ASSUME TypeInv, TypeInv', TransferInv, NEW s \in net, Lose(s)
    PROVE  TransferInv'
<1>1. /\ net' \subseteq net /\ UNCHANGED rcvVars /\ acklist' = acklist
      /\ snd_queue' = snd_queue /\ snd_buf' = snd_buf
      /\ snd_una' = snd_una /\ snd_nxt' = snd_nxt /\ stream' = stream
    BY DEF Lose, sndVars, userVars
<1>2. Grows /\ ReceiverInv'
    BY <1>1, NothingReceived
<1>3. SenderInv'
    BY <1>1 DEF TransferInv, SenderInv
<1>4. NetInv'
    BY <1>1, <1>2, SegmentsKept DEF NetInv, Holds
<1>5. AckInv'
    BY <1>1, <1>2, AcksKept DEF AckInv
<1>6. NoFragmentLost'
    BY <1>1, <1>2, FragmentsKept
<1> QED
    BY <1>2, <1>3, <1>4, <1>5, <1>6 DEF TransferInv

\* Every step keeps every fragment.
LEMMA NextTransfer == TypeInv /\ TypeInv' /\ TransferInv /\ [Next]_vars => TransferInv'
<1> SUFFICES ASSUME TypeInv, TypeInv', TransferInv, [Next]_vars PROVE TransferInv'
    OBVIOUS
<1>1. ASSUME NEW n \in Node, NEW count \in 1..MaxFrags, Send(n, count)
      PROVE  TransferInv'
    BY <1>1, SendTransfer
<1>2. ASSUME NEW n \in Node, Recv(n) PROVE TransferInv'
    BY <1>2, RecvTransfer
<1>3. ASSUME NEW n \in Node, NEW late \in SUBSET DOMAIN snd_buf[n],
             NEW due \in BOOLEAN, Flush(n, late, due)
      PROVE  TransferInv'
    BY <1>3, FlushTransfer
<1>4. ASSUME NEW n \in Node, NEW s \in net, Input(n, s) PROVE TransferInv'
    BY <1>4, InputTransfer
<1>5. ASSUME NEW s \in net, Lose(s) PROVE TransferInv'
    BY <1>5, LoseTransfer
<1>6. CASE UNCHANGED vars
    BY <1>6 DEF vars, sndVars, rcvVars, netVars, userVars, TransferInv, SenderInv,
                ReceiverInv, NetInv, AckInv, NoFragmentLost, Held
<1> QED
    BY <1>1, <1>2, <1>3, <1>4, <1>5, <1>6 DEF Next

\* What ikcp_send queued is neither lost nor changed on its way to rcv_queue,
\* for all windows and whatever the network does.
THEOREM TransferCorrect == Spec => []TransferInv
<1>1. Init => TypeInv /\ TransferInv
    BY InitTypes, InitTransfer
<1>2. TypeInv /\ TransferInv /\ [Next]_vars => TypeInv' /\ TransferInv'
    BY NextTypes, NextTransfer
<1> QED
    BY <1>1, <1>2, PTL DEF Spec

\* A fragment leaves snd_buf only when the peer holds it.
THEOREM NoFragmentIsLost == Spec => []NoFragmentLost
<1>1. TransferInv => NoFragmentLost
    BY DEF TransferInv
<1> QED
    BY <1>1, TransferCorrect, PTL
===========================================================================
