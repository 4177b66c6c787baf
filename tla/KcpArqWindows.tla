-------------------------- MODULE KcpArqWindows ---------------------------
(***************************************************************************)
(* The windows of KcpArq: how much a control block may hold, and that it   *)
(* never goes back nor leaves behind what it could hand over.              *)
(***************************************************************************)
EXTENDS KcpArqTransfer

SendWindow == \A n \in Node : snd_nxt[n] <= snd_una[n] + SndWnd

RecvWindow ==
    \A n \in Node : \A sn \in DOMAIN rcv_buf[n] :
        rcv_nxt[n] <= sn /\ sn < rcv_nxt[n] + RcvWnd

WindowInv == SendWindow /\ RecvWindow /\ NothingStranded

\* MoveReady moves the receive window up and leaves nothing it could have moved.
LEMMA MovedWindow ==
    ASSUME TypeInv, RecvWindow, NothingStranded, NEW n \in Node,
           NEW buf, Buffer(buf), \A sn \in DOMAIN buf : sn < rcv_nxt[n] + RcvWnd,
           NEW queue \in Seq(Fragment), NEW k \in Nat, NEW q \in Seq(Fragment), NEW b,
           Moved(n, buf, queue, k, q, b)
    PROVE  /\ RecvWindow' /\ NothingStranded'
           /\ \A x \in Node : rcv_nxt[x] <= rcv_nxt'[x]
<1>1. /\ rcv_queue'[n] = q /\ rcv_nxt'[n] = rcv_nxt[n] + k /\ rcv_buf'[n] = b
      /\ \A x \in Node \ {n} : /\ rcv_queue'[x] = rcv_queue[x]
                               /\ rcv_nxt'[x] = rcv_nxt[x]
                               /\ rcv_buf'[x] = rcv_buf[x]
    BY DEF Moved, TypeInv, TypeOK
<1>2. /\ DOMAIN b = {sn \in DOMAIN buf : sn >= rcv_nxt[n] + k}
      /\ Len(q) < RcvWnd => rcv_nxt[n] + k \notin DOMAIN b
    BY DEF Moved, Takes
<1>3. /\ \A x \in Node : rcv_nxt[x] \in Nat
      /\ RcvWnd \in Nat /\ Len(q) \in Nat /\ \A sn \in DOMAIN buf : sn \in Nat
    BY Windows, LenProperties DEF TypeInv, TypeOK, Buffer
<1>4. RecvWindow'
  <2> SUFFICES ASSUME NEW x \in Node, NEW sn \in DOMAIN rcv_buf'[x]
               PROVE  rcv_nxt'[x] <= sn /\ sn < rcv_nxt'[x] + RcvWnd
    BY DEF RecvWindow
  <2>1. CASE x = n
    <3>1. sn \in Nat /\ sn >= rcv_nxt[n] + k /\ sn < rcv_nxt[n] + RcvWnd
      BY <1>1, <1>2, <1>3, <2>1
    <3> QED
      BY <1>1, <1>3, <2>1, <3>1
  <2>2. CASE x # n
    BY <1>1, <2>2 DEF RecvWindow
  <2> QED
    BY <2>1, <2>2
<1>5. NothingStranded'
  <2> SUFFICES ASSUME NEW x \in Node, rcv_nxt'[x] \in DOMAIN rcv_buf'[x]
               PROVE  Len(rcv_queue'[x]) >= RcvWnd
    BY DEF NothingStranded
  <2>1. CASE x = n
    BY <1>1, <1>2, <1>3, <2>1
  <2>2. CASE x # n
    BY <1>1, <2>2 DEF NothingStranded
  <2> QED
    BY <2>1, <2>2
<1>6. \A x \in Node : rcv_nxt[x] <= rcv_nxt'[x]
    BY <1>1, <1>3
<1> QED
    BY <1>4, <1>5, <1>6

\* What every step does with the numbers of the two halves.
Forward == \A n \in Node : snd_una[n] <= snd_una'[n] /\ rcv_nxt[n] <= rcv_nxt'[n]

\* A step that leaves the receiving halves alone.
LEMMA RecvWindowKept ==
    ASSUME TypeInv, RecvWindow, NothingStranded, UNCHANGED rcvVars
    PROVE  /\ RecvWindow' /\ NothingStranded'
           /\ \A x \in Node : rcv_nxt[x] <= rcv_nxt'[x]
    BY DEF rcvVars, RecvWindow, NothingStranded, TypeInv, TypeOK

\* Fresh control blocks hold nothing.
LEMMA InitWindow == Init => WindowInv
<1> SUFFICES ASSUME Init PROVE WindowInv
    OBVIOUS
<1>1. DOMAIN <<>> = {}
    BY EmptySeq
<1>2. SndWnd \in Nat
    BY Windows
<1> QED
    BY <1>1, <1>2 DEF Init, WindowInv, SendWindow, RecvWindow, NothingStranded

\* ikcp_recv: reading opens the window.
LEMMA RecvStep ==
    ASSUME TypeInv, WindowInv, NEW n \in Node, Recv(n)
    PROVE  WindowInv' /\ Forward
<1> DEFINE k == HeadLength(n)
           rest == SubSeq(rcv_queue[n], k + 1, Len(rcv_queue[n]))
<1>1. /\ HeadComplete(n) /\ MoveReady(n, rcv_buf[n], rest)
      /\ snd_una' = snd_una /\ snd_nxt' = snd_nxt
    BY DEF Recv, sndVars
<1>2. rest \in Seq(Fragment) /\ Len(rest) <= RcvWnd
    BY <1>1, RestFacts
<1> HIDE DEF k, rest
<1>3. Buffer(rcv_buf[n]) /\ TypeOK
    BY DEF TypeInv, TypeOK
<1>4a. PICK j \in 0..(RcvWnd - Len(rest)), q \in Seq(Fragment) :
            \E b : Moved(n, rcv_buf[n], rest, j, q, b)
    BY <1>1, <1>2, <1>3, MoveReadyFacts
<1>4. PICK b : Moved(n, rcv_buf[n], rest, j, q, b)
  BY <1>4a
<1>5. j \in Nat
  <2>1. Len(rest) \in Nat /\ RcvWnd \in Nat
    BY <1>2, Windows, LenProperties
  <2> QED
    BY <2>1
<1>6. /\ RecvWindow' /\ NothingStranded'
      /\ \A x \in Node : rcv_nxt[x] <= rcv_nxt'[x]
  <2>1. /\ RecvWindow /\ NothingStranded
        /\ \A sn \in DOMAIN rcv_buf[n] : sn < rcv_nxt[n] + RcvWnd
    BY DEF WindowInv, RecvWindow
  <2> QED
    BY <1>2, <1>3, <1>4, <1>5, <2>1, MovedWindow
<1>7. SendWindow'
    BY <1>1 DEF WindowInv, SendWindow
<1>8. \A x \in Node : snd_una[x] <= snd_una'[x]
    BY <1>1 DEF TypeInv, TypeOK
<1> QED
    BY <1>6, <1>7, <1>8 DEF WindowInv, Forward

\* ikcp_flush: numbers are given out inside the send window only.
LEMMA FlushStep ==
    ASSUME TypeInv, WindowInv, NEW n \in Node, NEW late \in SUBSET DOMAIN snd_buf[n],
           NEW due \in BOOLEAN, Flush(n, late, due)
    PROVE  WindowInv' /\ Forward
<1> DEFINE k == Admitted(n)
<1>1. /\ snd_nxt' = [snd_nxt EXCEPT ![n] = snd_nxt[n] + k]
      /\ snd_una' = snd_una /\ UNCHANGED rcvVars
    BY DEF Flush
<1>2. k \in 0..Len(snd_queue[n]) /\ (k > 0 => snd_nxt[n] + k <= snd_una[n] + SndWnd)
    BY AdmittedFacts DEF TypeInv
<1>3. /\ \A x \in Node : snd_una[x] \in Nat /\ snd_nxt[x] \in Nat
      /\ Len(snd_queue[n]) \in Nat /\ SndWnd \in Nat
    BY Windows, LenProperties DEF TypeInv, TypeOK
<1> HIDE DEF k
<1>4. k \in Nat
    BY <1>2, <1>3
<1>5. SendWindow'
  <2> SUFFICES ASSUME NEW x \in Node PROVE snd_nxt'[x] <= snd_una[x] + SndWnd
    BY <1>1 DEF SendWindow
  <2>1. snd_nxt[x] <= snd_una[x] + SndWnd
    BY DEF WindowInv, SendWindow
  <2>2. snd_nxt'[x] = IF x = n THEN snd_nxt[n] + k ELSE snd_nxt[x]
    BY <1>1 DEF TypeInv, TypeOK
  <2>3. CASE x = n /\ k > 0
    BY <1>2, <2>2, <2>3
  <2>4. CASE x # n \/ k = 0
    BY <1>3, <2>1, <2>2, <2>4
  <2> QED
    BY <1>4, <2>3, <2>4
<1>6. /\ RecvWindow' /\ NothingStranded'
      /\ \A x \in Node : rcv_nxt[x] <= rcv_nxt'[x]
    BY <1>1, RecvWindowKept DEF WindowInv
<1>7. \A x \in Node : snd_una[x] <= snd_una'[x]
    BY <1>1, <1>3
<1> QED
    BY <1>5, <1>6, <1>7 DEF WindowInv, Forward

\* ikcp_input: snd_una moves up, and rcv_buf takes what is in the window only.
LEMMA InputStep ==
    ASSUME TypeInv, TransferInv, WindowInv, NEW n \in Node, NEW s \in net, Input(n, s)
    PROVE  WindowInv' /\ Forward
<1>1. s.dst = n
    BY DEF Input
<1>2. PICK buf : /\ Header(n, s, buf) /\ Buffer(buf)
                 /\ DOMAIN buf \subseteq DOMAIN snd_buf[n]
                 /\ \A sn \in DOMAIN buf : buf[sn] = snd_buf[n][sn]
  <2> DEFINE passed == AfterUna(snd_buf[n], s.una)
             acked == AfterAck(passed, s.sn, snd_nxt[n])
  <2>1. Header(n, s, passed) \/ Header(n, s, acked)
    BY DEF Input, InputAck, InputPush, InputWask, InputWins
  <2>2. /\ Buffer(passed) /\ DOMAIN passed \subseteq DOMAIN snd_buf[n]
        /\ \A sn \in DOMAIN passed : passed[sn] = snd_buf[n][sn]
        /\ Buffer(acked) /\ DOMAIN acked \subseteq DOMAIN snd_buf[n]
        /\ \A sn \in DOMAIN acked : acked[sn] = snd_buf[n][sn]
    BY <1>1, LeftKept
  <2> HIDE DEF passed, acked
  <2> QED
    BY <2>1, <2>2
<1>3. /\ snd_una[n] <= snd_una'[n] /\ snd_nxt' = snd_nxt
      /\ \A x \in Node \ {n} : snd_una'[x] = snd_una[x]
    BY <1>2, HeaderKept
<1>4. /\ \A x \in Node : snd_una[x] \in Nat /\ snd_nxt[x] \in Nat
      /\ SndWnd \in Nat /\ RcvWnd \in Nat
    BY Windows DEF TypeInv, TypeOK
<1>5. snd_una'[n] \in Nat
  <2>1. snd_una'[n] = FirstUnacked(buf, snd_nxt[n])
    BY <1>2 DEF Header, TypeInv, TypeOK
  <2> QED
    BY <1>2, <1>4, <2>1, FirstUnackedFacts DEF Buffer
<1>6. SendWindow' /\ \A x \in Node : snd_una[x] <= snd_una'[x]
  <2> SUFFICES ASSUME NEW x \in Node
               PROVE  snd_una[x] <= snd_una'[x] /\ snd_nxt[x] <= snd_una'[x] + SndWnd
    BY <1>3 DEF SendWindow
  <2>1. snd_nxt[x] <= snd_una[x] + SndWnd
    BY DEF WindowInv, SendWindow
  <2>2. CASE x = n
    BY <1>3, <1>4, <1>5, <2>1, <2>2
  <2>3. CASE x # n
    BY <1>3, <1>4, <2>1, <2>3
  <2> QED
    BY <2>2, <2>3
<1>7. /\ RecvWindow' /\ NothingStranded'
      /\ \A x \in Node : rcv_nxt[x] <= rcv_nxt'[x]
  <2>1. CASE UNCHANGED rcvVars
    BY <2>1, RecvWindowKept DEF WindowInv
  <2>2. CASE s.cmd = "PUSH" /\ Accepted(n, s)
    <3> DEFINE w == WithSegment(n, s)
    <3>1. MoveReady(n, w, rcv_queue[n]) /\ s.sn < rcv_nxt[n] + RcvWnd
      BY <2>2 DEF Accepted, Acknowledge, InWindow
    <3>2. Buffer(w) /\ DOMAIN w = DOMAIN rcv_buf[n] \cup {s.sn}
      BY <2>2, WithSegmentFacts
    <3>3. \A sn \in DOMAIN w : sn < rcv_nxt[n] + RcvWnd
      BY <3>1, <3>2 DEF WindowInv, RecvWindow
    <3> HIDE DEF w
    <3>4. /\ rcv_queue[n] \in Seq(Fragment) /\ Len(rcv_queue[n]) <= RcvWnd
          /\ Len(rcv_queue[n]) \in Nat /\ TypeOK
      BY LenProperties DEF TypeInv, TypeOK, QueueBound
    <3>5a. PICK j \in 0..(RcvWnd - Len(rcv_queue[n])), q \in Seq(Fragment) :
              \E b : Moved(n, w, rcv_queue[n], j, q, b)
      BY <3>1, <3>2, <3>4, MoveReadyFacts
    <3>5. PICK b : Moved(n, w, rcv_queue[n], j, q, b)
      BY <3>5a
    <3>6. j \in Nat
      BY <1>4, <3>4
    <3> QED
      BY <3>2, <3>3, <3>4, <3>5, <3>6, MovedWindow DEF WindowInv
  <2>3. UNCHANGED rcvVars \/ (s.cmd = "PUSH" /\ Accepted(n, s))
    BY DEF Input, InputAck, InputPush, InputWask, InputWins, Beyond, Repeated
  <2> QED
    BY <2>1, <2>2, <2>3
<1> QED
    BY <1>6, <1>7 DEF WindowInv, Forward

\* Every step respects the windows and moves forward.
LEMMA NextWindow ==
    TypeInv /\ TransferInv /\ WindowInv /\ [Next]_vars => WindowInv' /\ Forward
<1> SUFFICES ASSUME TypeInv, TransferInv, WindowInv, [Next]_vars
             PROVE  WindowInv' /\ Forward
    OBVIOUS
<1>1. ASSUME snd_una' = snd_una, snd_nxt' = snd_nxt, UNCHANGED rcvVars
      PROVE  WindowInv' /\ Forward
  <2>1. SendWindow' /\ \A x \in Node : snd_una[x] <= snd_una'[x]
    BY <1>1 DEF WindowInv, SendWindow, TypeInv, TypeOK
  <2> QED
    BY <1>1, <2>1, RecvWindowKept DEF WindowInv, Forward
<1>2. ASSUME NEW n \in Node, NEW count \in 1..MaxFrags, Send(n, count)
      PROVE  WindowInv' /\ Forward
    BY <1>1, <1>2 DEF Send
<1>3. ASSUME NEW n \in Node, Recv(n) PROVE WindowInv' /\ Forward
    BY <1>3, RecvStep
<1>4. ASSUME NEW n \in Node, NEW late \in SUBSET DOMAIN snd_buf[n],
             NEW due \in BOOLEAN, Flush(n, late, due)
      PROVE  WindowInv' /\ Forward
    BY <1>4, FlushStep
<1>5. ASSUME NEW n \in Node, NEW s \in net, Input(n, s) PROVE WindowInv' /\ Forward
    BY <1>5, InputStep
<1>6. ASSUME NEW s \in net, Lose(s) PROVE WindowInv' /\ Forward
    BY <1>1, <1>6 DEF Lose, sndVars
<1>7. CASE UNCHANGED vars
    BY <1>1, <1>7 DEF vars, sndVars
<1> QED
    BY <1>2, <1>3, <1>4, <1>5, <1>6, <1>7 DEF Next

\* The three parts of the window invariant, for all windows and any traffic.
THEOREM WindowCorrect == Spec => []WindowInv
<1>1. Init => TypeInv /\ TransferInv /\ WindowInv
    BY InitTypes, InitTransfer, InitWindow
<1>2. TypeInv /\ TransferInv /\ WindowInv /\ [Next]_vars
        => TypeInv' /\ TransferInv' /\ WindowInv'
    BY NextTypes, NextTransfer, NextWindow
<1> QED
    BY <1>1, <1>2, PTL DEF Spec

\* A control block never holds more than its windows, whatever window the peer
\* advertises and in whatever order the advertisements arrive.
THEOREM WindowsAlwaysRespected == Spec => []WindowsRespected
<1>1. TypeInv /\ WindowInv => WindowsRespected
  <2> SUFFICES ASSUME TypeInv, WindowInv, NEW n \in Node
               PROVE  /\ snd_nxt[n] - snd_una[n] <= SndWnd
                      /\ Len(rcv_queue[n]) <= RcvWnd
                      /\ \A sn \in DOMAIN rcv_buf[n] :
                            sn \in rcv_nxt[n]..(rcv_nxt[n] + RcvWnd - 1)
    BY DEF WindowsRespected
  <2>1. /\ snd_nxt[n] \in Nat /\ snd_una[n] \in Nat /\ rcv_nxt[n] \in Nat
        /\ SndWnd \in Nat /\ RcvWnd \in Nat /\ \A sn \in DOMAIN rcv_buf[n] : sn \in Nat
    BY Windows DEF TypeInv, TypeOK, Buffer
  <2>2. snd_nxt[n] - snd_una[n] <= SndWnd
    BY <2>1 DEF WindowInv, SendWindow
  <2>3. \A sn \in DOMAIN rcv_buf[n] : sn \in rcv_nxt[n]..(rcv_nxt[n] + RcvWnd - 1)
    BY <2>1 DEF WindowInv, RecvWindow
  <2> QED
    BY <2>2, <2>3 DEF TypeInv, QueueBound
<1> QED
    BY <1>1, TypeCorrect, WindowCorrect, PTL

\* Data that has arrived in order waits in rcv_buf only behind a full rcv_queue.
THEOREM NothingIsStranded == Spec => []NothingStranded
<1>1. WindowInv => NothingStranded
    BY DEF WindowInv
<1> QED
    BY <1>1, WindowCorrect, PTL

\* snd_una and rcv_nxt never go back, though segments arrive in any order.
THEOREM NumbersNeverBackward == Spec => NeverBackward
<1>1. TypeInv /\ TransferInv /\ WindowInv /\ [Next]_vars
        => [\A n \in Node : snd_una[n] <= snd_una'[n] /\ rcv_nxt[n] <= rcv_nxt'[n]]_vars
    BY NextWindow DEF Forward
<1> QED
    BY <1>1, TypeCorrect, TransferCorrect, WindowCorrect, PTL DEF Spec, NeverBackward
===========================================================================
