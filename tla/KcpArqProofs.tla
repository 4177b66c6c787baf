--------------------------- MODULE KcpArqProofs ---------------------------
(***************************************************************************)
(* The types of KcpArq for all windows, message sizes and numbers of       *)
(* messages and faults, and what its operators return: facts about minima, *)
(* peers and the buffers, which the safety proofs of the modules that      *)
(* extend this one cite too.                                               *)
(***************************************************************************)
EXTENDS KcpArqInv, SequenceTheorems, WellFoundedInduction, TLAPS

----------------------------------------------------------------------------
(* Operators *)

\* Two ends: each is the other's peer.
LEMMA PeerFacts ==
    ASSUME NEW n \in Node
    PROVE  /\ Peer(n) \in Node /\ Peer(n) # n /\ Peer(Peer(n)) = n
           /\ \A m \in Node : m = n \/ m = Peer(n)
<1>1. PICK a, b \in Node : a # b /\ Node = {a, b}
    BY TwoNodes
<1>2. \A m \in Node : \E p \in Node : p # m
    BY <1>1
<1>3. \A m \in Node : Peer(m) \in Node /\ Peer(m) # m
    BY <1>2 DEF Peer
<1> QED
    BY <1>1, <1>3

\* The minimum of a nonempty set of naturals.
LEMMA MinOfNats ==
    ASSUME NEW S, S \subseteq Nat, S # {}
    PROVE  Min(S) \in S /\ \A x \in S : Min(S) <= x
<1> DEFINE R == {ss \in Nat \X Nat : ss[1] < ss[2]}
<1>1. IsWellFoundedOn(R, Nat)
    BY NatLessThanWellFounded DEF OpToRel
<1> HIDE DEF R
<1>2. PICK m \in S : \A y \in S : ~ (<<y, m>> \in R)
    BY <1>1, WFMin
<1>3. \A x, y \in Nat : x < y => <<x, y>> \in R
    BY DEF R
<1>4. \A y \in S : m \in Nat /\ y \in Nat /\ ~ (y < m)
    BY <1>2, <1>3
<1>5. \A y \in S : m <= y
    BY <1>4
<1> QED
    BY <1>5 DEF Min

\* Minimum and maximum of two and of three integers.
LEMMA MinMaxOfTwo ==
    ASSUME NEW x \in Int, NEW y \in Int
    PROVE  /\ Min({x, y}) = IF x <= y THEN x ELSE y
           /\ Max({x, y}) = IF x <= y THEN y ELSE x
<1>1. \E m \in {x, y} : \A z \in {x, y} : m <= z
    BY SMT
<1>2. \E m \in {x, y} : \A z \in {x, y} : m >= z
    BY SMT
<1>3. Min({x, y}) \in {x, y} /\ \A z \in {x, y} : Min({x, y}) <= z
    BY <1>1 DEF Min
<1>4. Max({x, y}) \in {x, y} /\ \A z \in {x, y} : Max({x, y}) >= z
    BY <1>2 DEF Max
<1> QED
    BY <1>3, <1>4

\* ReadyCount: that many sequence numbers from nxt on are there, and the next
\* is not unless the room is used up.
LEMMA ReadyCountFacts ==
    ASSUME NEW buf, NEW nxt \in Nat, NEW room \in Nat
    PROVE  LET k == ReadyCount(buf, nxt, room)
           IN /\ k \in 0..room
              /\ \A i \in 0..(k - 1) : nxt + i \in DOMAIN buf
              /\ k < room => nxt + k \notin DOMAIN buf
<1> DEFINE S == {room} \cup {i \in 0..room : nxt + i \notin DOMAIN buf}
<1>1. S \subseteq Nat /\ S # {}
    OBVIOUS
<1>2. Min(S) \in S /\ \A x \in S : Min(S) <= x
    BY <1>1, MinOfNats
<1>3. \A i \in 0..(Min(S) - 1) : i \notin S
    BY <1>1, <1>2
<1> QED
    BY <1>2, <1>3 DEF ReadyCount

\* Restricting a buffer gives a buffer with the same fragments.
LEMMA RestrictFacts ==
    ASSUME NEW buf, Buffer(buf), NEW S, S \subseteq DOMAIN buf
    PROVE  /\ Buffer(Restrict(buf, S)) /\ DOMAIN Restrict(buf, S) = S
           /\ \A sn \in S : Restrict(buf, S)[sn] = buf[sn]
    BY DEF Restrict, Buffer

\* snd_una is below every unacknowledged sequence number.
LEMMA FirstUnackedFacts ==
    ASSUME NEW buf, DOMAIN buf \subseteq Nat, NEW nxt \in Nat
    PROVE  /\ FirstUnacked(buf, nxt) \in Nat
           /\ \A sn \in DOMAIN buf : FirstUnacked(buf, nxt) <= sn
           /\ FirstUnacked(buf, nxt) \in DOMAIN buf \cup {nxt}
    BY MinOfNats DEF FirstUnacked

\* ikcp_parse_una and ikcp_parse_ack remove what they acknowledge, only.
LEMMA AfterUnaFacts ==
    ASSUME NEW buf, Buffer(buf), NEW una \in Nat
    PROVE  /\ Buffer(AfterUna(buf, una))
           /\ DOMAIN AfterUna(buf, una) = {sn \in DOMAIN buf : sn >= una}
           /\ \A sn \in DOMAIN AfterUna(buf, una) : AfterUna(buf, una)[sn] = buf[sn]
<1>1. {sn \in DOMAIN buf : sn >= una} \subseteq DOMAIN buf
    OBVIOUS
<1> QED
    BY <1>1, RestrictFacts DEF AfterUna

\* ikcp_parse_ack removes one sequence number at most.
LEMMA AfterAckFacts ==
    ASSUME NEW buf, Buffer(buf), NEW k \in Nat, NEW nxt \in Nat
    PROVE  /\ Buffer(AfterAck(buf, k, nxt))
           /\ DOMAIN AfterAck(buf, k, nxt) \subseteq DOMAIN buf
           /\ DOMAIN buf \ DOMAIN AfterAck(buf, k, nxt) \subseteq {k}
           /\ \A sn \in DOMAIN AfterAck(buf, k, nxt) :
                 AfterAck(buf, k, nxt)[sn] = buf[sn]
<1>1. DOMAIN buf \ {k} \subseteq DOMAIN buf
    OBVIOUS
<1> QED
    BY <1>1, RestrictFacts DEF AfterAck

\* The fragments of one message are a sequence of fragments.
LEMMA FragmentsFacts ==
    ASSUME NEW first \in Nat, NEW count \in Nat
    PROVE  /\ Fragments(first, count) \in Seq(Fragment)
           /\ Len(Fragments(first, count)) = count
           /\ \A i \in 1..count :
                 Fragments(first, count)[i] = [data |-> first + i, frg |-> count - i]
<1>1. Fragments(first, count) \in [1..count -> Fragment]
    BY DEF Fragments, Fragment
<1>2. Fragments(first, count) \in Seq(Fragment)
    BY <1>1, SeqDef
<1>3. DOMAIN Fragments(first, count) = 1..count
    BY DEF Fragments
<1> QED
    BY <1>2, <1>3, LenProperties DEF Fragments

\* A suffix of a sequence, as SubSeq(s, k + 1, Len(s)) writes it.
LEMMA SuffixFacts ==
    ASSUME NEW S, NEW s \in Seq(S), NEW k \in 0..Len(s)
    PROVE  /\ SubSeq(s, k + 1, Len(s)) \in Seq(S)
           /\ Len(SubSeq(s, k + 1, Len(s))) = Len(s) - k
           /\ \A i \in 1..(Len(s) - k) : SubSeq(s, k + 1, Len(s))[i] = s[k + i]
<1>1. Len(s) \in Nat /\ \A i \in (k + 1)..Len(s) : s[i] \in S
    BY ElementOfSeq, LenProperties
<1>2. k + 1 \in Int /\ Len(s) \in Int
    BY <1>1
<1>3. /\ SubSeq(s, k + 1, Len(s)) \in Seq(S)
      /\ Len(SubSeq(s, k + 1, Len(s))) =
            IF k + 1 <= Len(s) THEN Len(s) - (k + 1) + 1 ELSE 0
      /\ \A i \in 1..(Len(s) - (k + 1) + 1) :
            SubSeq(s, k + 1, Len(s))[i] = s[(k + 1) + i - 1]
    BY <1>1, <1>2, SubSeqProperties
<1> QED
    BY <1>1, <1>3

\* What is appended changes nothing of what was there.
LEMMA ExtendedStream ==
    ASSUME NEW S, NEW all \in Seq(S), NEW m \in Seq(S)
    PROVE  /\ all \o m \in Seq(S)
           /\ \A i \in 1..Len(all) : (all \o m)[i] = all[i]
<1> DEFINE la == Len(all)
           lm == Len(m)
<1>1. /\ la \in Nat /\ lm \in Nat /\ all \o m \in Seq(S)
      /\ \A i \in 1..(la + lm) : (all \o m)[i] = IF i <= la THEN all[i] ELSE m[i - la]
    BY LenProperties, ConcatProperties
<1> HIDE DEF la, lm
<1>2. \A i \in 1..la : i \in 1..(la + lm) /\ i <= la
    BY <1>1
<1>3. \A i \in 1..la : (all \o m)[i] = all[i]
    BY <1>1, <1>2
<1> QED
    BY <1>1, <1>3 DEF la

\* ikcp_flush numbers fragments of snd_queue only, and only while the send
\* window has room.
LEMMA AdmittedFacts ==
    ASSUME NEW n \in Node, TypeOK
    PROVE  /\ Admitted(n) \in 0..Len(snd_queue[n])
           /\ Admitted(n) > 0 => snd_nxt[n] + Admitted(n) <= snd_una[n] + SndWnd
<1> DEFINE cwnd == Min({SndWnd, rmt_wnd[n]})
           gap == snd_una[n] + cwnd - snd_nxt[n]
           room == Max({0, gap})
<1>1. /\ SndWnd \in Int /\ rmt_wnd[n] \in Int
      /\ snd_una[n] \in Int /\ snd_nxt[n] \in Int /\ Len(snd_queue[n]) \in Nat
    BY Windows, LenProperties DEF TypeOK
<1>2. cwnd \in Int /\ cwnd <= SndWnd
    BY <1>1, MinMaxOfTwo
<1>3. gap \in Int /\ snd_nxt[n] + gap <= snd_una[n] + SndWnd
    BY <1>1, <1>2
<1>4. Admitted(n) = Min({Len(snd_queue[n]), room})
    BY DEF Admitted
<1> HIDE DEF gap
<1>5. room = IF 0 <= gap THEN gap ELSE 0
    BY <1>3, MinMaxOfTwo
<1> HIDE DEF room
<1>6. room \in Nat /\ (room > 0 => room = gap)
    BY <1>3, <1>5
<1>7. Admitted(n) = IF Len(snd_queue[n]) <= room THEN Len(snd_queue[n]) ELSE room
    BY <1>1, <1>4, <1>6, MinMaxOfTwo
<1> DEFINE len == Len(snd_queue[n])
<1>8. Admitted(n) \in 0..len /\ Admitted(n) <= room
    BY <1>1, <1>6, <1>7
<1>9. ASSUME Admitted(n) > 0 PROVE snd_nxt[n] + Admitted(n) <= snd_una[n] + SndWnd
  <2>1. Admitted(n) <= gap
    BY <1>6, <1>8, <1>9
  <2> HIDE DEF len
  <2> QED
    BY <1>1, <1>3, <1>8, <2>1
<1> QED
    BY <1>8, <1>9

\* q and b are queue and buf after the k fragments from number nxt on went from
\* buf to queue.
Takes(buf, queue, nxt, k, q, b) ==
    /\ Len(q) = Len(queue) + k
    /\ \A i \in 1..Len(queue) : q[i] = queue[i]
    /\ \A i \in 1..k : /\ nxt + i - 1 \in DOMAIN buf
                       /\ q[Len(queue) + i] = buf[nxt + i - 1]
    /\ Buffer(b) /\ DOMAIN b = {sn \in DOMAIN buf : sn >= nxt + k}
    /\ \A sn \in DOMAIN b : b[sn] = buf[sn]
    /\ Len(q) < RcvWnd => nxt + k \notin DOMAIN b

Moved(n, buf, queue, k, q, b) ==
    /\ rcv_queue' = [rcv_queue EXCEPT ![n] = q]
    /\ rcv_nxt' = [rcv_nxt EXCEPT ![n] = rcv_nxt[n] + k]
    /\ rcv_buf' = [rcv_buf EXCEPT ![n] = b]
    /\ Takes(buf, queue, rcv_nxt[n], k, q, b)

\* The fragments that MoveReady appends to rcv_queue.
LEMMA MoveReadyFacts ==
    ASSUME NEW n \in Node, TypeOK, NEW buf, Buffer(buf),
           NEW queue \in Seq(Fragment), Len(queue) <= RcvWnd,
           MoveReady(n, buf, queue)
    PROVE  \E k \in 0..(RcvWnd - Len(queue)), q \in Seq(Fragment) :
              \E b : Moved(n, buf, queue, k, q, b)
<1> DEFINE room == RcvWnd - Len(queue)
           k == ReadyCount(buf, rcv_nxt[n], room)
           ready == [i \in 1..k |-> buf[rcv_nxt[n] + i - 1]]
           q == queue \o ready
           b == Restrict(buf, {sn \in DOMAIN buf : sn >= rcv_nxt[n] + k})
<1>1. rcv_nxt[n] \in Nat /\ RcvWnd \in Nat /\ Len(queue) \in Nat
    BY Windows, LenProperties DEF TypeOK
<1>2. room \in Nat
    BY <1>1
<1>3. /\ k \in 0..room
      /\ \A i \in 0..(k - 1) : rcv_nxt[n] + i \in DOMAIN buf
      /\ k < room => rcv_nxt[n] + k \notin DOMAIN buf
    BY <1>1, <1>2, ReadyCountFacts
<1> HIDE DEF k
<1>4. k \in Nat
    BY <1>2, <1>3
<1>5. \A i \in 1..k : rcv_nxt[n] + i - 1 \in DOMAIN buf
  <2> TAKE i \in 1..k
  <2>1. i - 1 \in 0..(k - 1) /\ rcv_nxt[n] + (i - 1) = rcv_nxt[n] + i - 1
    BY <1>1, <1>4
  <2> QED
    BY <1>3, <2>1
<1>6. ready \in [1..k -> Fragment]
    BY <1>5 DEF Buffer
<1>7. ready \in Seq(Fragment) /\ Len(ready) = k
    BY <1>4, <1>6, SeqDef, LenProperties
<1>8. \A i \in 1..k : ready[i] = buf[rcv_nxt[n] + i - 1]
    OBVIOUS
<1> HIDE DEF ready
<1>9. /\ q \in Seq(Fragment) /\ Len(q) = Len(queue) + k
      /\ \A i \in 1..(Len(queue) + k) :
            q[i] = IF i <= Len(queue) THEN queue[i] ELSE ready[i - Len(queue)]
    BY <1>7, ConcatProperties
<1>10. /\ \A i \in 1..Len(queue) : q[i] = queue[i]
       /\ \A i \in 1..k : q[Len(queue) + i] = ready[i]
    BY <1>1, <1>4, <1>9
<1>11. {sn \in DOMAIN buf : sn >= rcv_nxt[n] + k} \subseteq DOMAIN buf
    OBVIOUS
<1>12. /\ Buffer(b) /\ DOMAIN b = {sn \in DOMAIN buf : sn >= rcv_nxt[n] + k}
       /\ \A sn \in DOMAIN b : b[sn] = buf[sn]
    BY <1>11, RestrictFacts
<1>13. Len(q) < RcvWnd => rcv_nxt[n] + k \notin DOMAIN b
    BY <1>1, <1>3, <1>4, <1>9, <1>12
<1>14. /\ rcv_queue' = [rcv_queue EXCEPT ![n] = q]
       /\ rcv_nxt' = [rcv_nxt EXCEPT ![n] = rcv_nxt[n] + k]
       /\ rcv_buf' = [rcv_buf EXCEPT ![n] = b]
    BY DEF MoveReady, k, ready
<1> HIDE DEF q, b
<1> QED
    BY <1>3, <1>5, <1>8, <1>9, <1>10, <1>12, <1>13, <1>14 DEF Moved, Takes
----------------------------------------------------------------------------
(* The two halves of a control block, one operation at a time *)

\* ikcp_send appends the same fragments to the queue and to the stream.
LEMMA SendsAppend ==
    ASSUME NEW queue \in Seq(Fragment), NEW all \in Seq(Fragment),
           NEW m \in Seq(Fragment), NEW buf, Buffer(buf),
           NEW una \in Nat, NEW nxt \in Nat, Sends(queue, buf, una, nxt, all)
    PROVE  Sends(queue \o m, buf, una, nxt, all \o m)
<1> DEFINE la == Len(all)
           ls == Len(queue)
           lm == Len(m)
<1>1. la \in Nat /\ ls \in Nat /\ lm \in Nat /\ nxt + ls = la /\ una <= nxt
    BY LenProperties DEF Sends
<1>2. /\ Len(all \o m) = la + lm
      /\ \A j \in 1..(la + lm) : (all \o m)[j] = IF j <= la THEN all[j] ELSE m[j - la]
    BY ConcatProperties
<1>3. /\ Len(queue \o m) = ls + lm
      /\ \A i \in 1..(ls + lm) : (queue \o m)[i] =
            IF i <= ls THEN queue[i] ELSE m[i - ls]
    BY ConcatProperties
<1>4. \A i \in 1..ls : queue[i] = all[nxt + i]
    BY DEF Sends
<1> HIDE DEF la, ls, lm
<1>5. ASSUME NEW i \in 1..(ls + lm)
      PROVE  (queue \o m)[i] = (all \o m)[nxt + i]
  <2>1. nxt + i \in 1..(la + lm)
    BY <1>1
  <2>2. CASE i <= ls
    <3>1. i \in 1..ls /\ nxt + i <= la
      BY <1>1, <2>2
    <3>2. (all \o m)[nxt + i] = all[nxt + i]
      BY <1>2, <2>1, <3>1
    <3> QED
      BY <1>3, <1>4, <2>2, <3>1, <3>2
  <2>3. CASE ~(i <= ls)
    <3>1. ~(nxt + i <= la) /\ (nxt + i) - la = i - ls
      BY <1>1, <2>3
    <3>2. (all \o m)[nxt + i] = m[(nxt + i) - la]
      BY <1>2, <2>1, <3>1
    <3> QED
      BY <1>3, <2>3, <3>1, <3>2
  <2> QED
    BY <2>2, <2>3
<1>6. ASSUME NEW sn \in DOMAIN buf
      PROVE  una <= sn /\ sn < nxt /\ buf[sn] = (all \o m)[sn + 1]
  <2>1. una <= sn /\ sn < nxt /\ buf[sn] = all[sn + 1] /\ sn \in Nat
    BY <1>6 DEF Sends, Buffer
  <2>2. sn + 1 \in 1..(la + lm) /\ sn + 1 <= la
    <3>1. sn \in Nat /\ sn < nxt /\ nxt \in Nat /\ nxt <= la /\ la \in Nat /\ lm \in Nat
      BY <1>1, <2>1
    <3> QED
      BY <3>1
  <2> QED
    BY <1>2, <2>1, <2>2
<1>7. nxt + (ls + lm) = la + lm
    BY <1>1
<1> QED
    BY <1>1, <1>2, <1>3, <1>5, <1>6, <1>7 DEF Sends

\* ikcp_flush gives numbers to the first k fragments of the queue.
LEMMA SendsNumber ==
    ASSUME NEW queue \in Seq(Fragment), NEW all \in Seq(Fragment),
           NEW buf, Buffer(buf), NEW una \in Nat, NEW nxt \in Nat,
           Sends(queue, buf, una, nxt, all), NEW k \in 0..Len(queue),
           NEW b, DOMAIN b = DOMAIN buf \cup nxt..(nxt + k - 1),
           \A sn \in DOMAIN buf : b[sn] = buf[sn],
           \A sn \in (nxt..(nxt + k - 1)) \ DOMAIN buf : b[sn] = queue[sn - nxt + 1]
    PROVE  Sends(SubSeq(queue, k + 1, Len(queue)), b, una, nxt + k, all)
<1> DEFINE rest == SubSeq(queue, k + 1, Len(queue))
           len == Len(queue)
<1>1. len \in Nat /\ k \in 0..len /\ nxt + len = Len(all) /\ una <= nxt
    BY LenProperties DEF Sends
<1>2. Len(rest) = len - k /\ \A i \in 1..(len - k) : rest[i] = queue[k + i]
    BY SuffixFacts
<1>3. \A i \in 1..len : queue[i] = all[nxt + i]
    BY DEF Sends
<1> HIDE DEF rest, len
<1>4. ASSUME NEW i \in 1..(len - k) PROVE rest[i] = all[(nxt + k) + i]
  <2>1. k + i \in 1..len /\ nxt + (k + i) = (nxt + k) + i
    BY <1>1
  <2> QED
    BY <1>2, <1>3, <2>1
<1>5. ASSUME NEW sn \in DOMAIN b
      PROVE  una <= sn /\ sn < nxt + k /\ b[sn] = all[sn + 1]
  <2>1. CASE sn \in DOMAIN buf
    <3>1. una <= sn /\ sn < nxt /\ buf[sn] = all[sn + 1] /\ sn \in Nat
      BY <2>1 DEF Sends, Buffer
    <3> QED
      BY <1>1, <2>1, <3>1
  <2>2. CASE sn \notin DOMAIN buf
    <3>1. sn \in nxt..(nxt + k - 1) /\ b[sn] = queue[sn - nxt + 1]
      BY <2>2
    <3>2. sn - nxt + 1 \in 1..len /\ nxt + (sn - nxt + 1) = sn + 1
      <4>1. sn \in nxt..(nxt + k - 1) /\ k \in Nat /\ len \in Nat /\ k <= len
        BY <1>1, <3>1
      <4> QED
        BY <4>1
    <3>3. queue[sn - nxt + 1] = all[sn + 1]
      BY <1>3, <3>2
    <3>4. una <= sn /\ sn < nxt + k
      BY <1>1, <3>1
    <3> QED
      BY <3>1, <3>3, <3>4
  <2> QED
    BY <2>1, <2>2
<1>6. una <= nxt + k /\ (nxt + k) + (len - k) = Len(all)
  <2>1. /\ len \in Int /\ k \in Int /\ 0 <= k /\ nxt \in Int
        /\ una \in Int /\ una <= nxt /\ nxt + len = Len(all)
    BY <1>1
  <2>2. una <= nxt + k
    BY <2>1
  <2>3. (nxt + k) + (len - k) = nxt + len
    BY <2>1
  <2> QED
    BY <2>1, <2>2, <2>3
<1> QED
    BY <1>2, <1>4, <1>5, <1>6 DEF Sends, rest, len

\* ikcp_input removes acknowledged fragments and moves snd_una up to the first left.
LEMMA SendsAcked ==
    ASSUME NEW queue, NEW all, NEW buf, Buffer(buf), NEW una \in Nat, NEW nxt \in Nat,
           Sends(queue, buf, una, nxt, all), NEW b, Buffer(b),
           DOMAIN b \subseteq DOMAIN buf, \A sn \in DOMAIN b : b[sn] = buf[sn]
    PROVE  /\ Sends(queue, b, FirstUnacked(b, nxt), nxt, all)
           /\ una <= FirstUnacked(b, nxt)
<1>1. /\ FirstUnacked(b, nxt) \in Nat
      /\ \A sn \in DOMAIN b : FirstUnacked(b, nxt) <= sn
      /\ FirstUnacked(b, nxt) \in DOMAIN b \cup {nxt}
    BY FirstUnackedFacts DEF Buffer
<1>2. una <= FirstUnacked(b, nxt) /\ FirstUnacked(b, nxt) <= nxt
    BY <1>1 DEF Sends
<1> QED
    BY <1>1, <1>2 DEF Sends

\* The peer's stream and its numbers grow: the receiving half stays in order.
LEMMA ReceivesMore ==
    ASSUME NEW queue \in Seq(Fragment), NEW buf, Buffer(buf), NEW nxt \in Nat,
           NEW all \in Seq(Fragment), NEW limit \in Nat, limit <= Len(all),
           Receives(queue, buf, nxt, all, limit),
           NEW more \in Seq(Fragment), \A i \in 1..Len(all) : more[i] = all[i],
           NEW limit2 \in Nat, limit <= limit2
    PROVE  Receives(queue, buf, nxt, more, limit2)
<1> DEFINE len == Len(queue)
           la == Len(all)
<1>1. /\ len \in Nat /\ la \in Nat /\ limit <= la /\ nxt <= limit /\ len <= nxt
      /\ \A i \in 1..len : queue[i] = all[nxt - len + i]
      /\ \A i \in 1..la : more[i] = all[i]
    BY LenProperties DEF Receives
<1> HIDE DEF len, la
<1>2. ASSUME NEW i \in 1..len PROVE queue[i] = more[nxt - len + i]
  <2>1. nxt - len + i \in 1..la
    BY <1>1
  <2> QED
    BY <1>1, <2>1
<1>3. ASSUME NEW sn \in DOMAIN buf PROVE sn < limit2 /\ buf[sn] = more[sn + 1]
  <2>1. sn \in Nat /\ sn < limit /\ buf[sn] = all[sn + 1]
    BY <1>3 DEF Receives, Buffer
  <2>2. sn + 1 \in 1..la /\ sn < limit2
    BY <1>1, <2>1
  <2> QED
    BY <1>1, <2>1, <2>2
<1>4. nxt <= limit2 /\ len <= nxt
    BY <1>1
<1> QED
    BY <1>2, <1>3, <1>4 DEF Receives, len

\* MoveReady keeps the receiving half in order and loses nothing.
LEMMA ReceivesTaken ==
    ASSUME NEW queue \in Seq(Fragment), NEW buf, Buffer(buf), NEW nxt \in Nat,
           NEW all, NEW limit \in Nat, Receives(queue, buf, nxt, all, limit),
           NEW k \in Nat, NEW q \in Seq(Fragment), NEW b,
           Takes(buf, queue, nxt, k, q, b)
    PROVE  /\ Receives(q, b, nxt + k, all, limit)
           /\ \A sn \in Nat : sn < nxt \/ sn \in DOMAIN buf
                               => sn < nxt + k \/ sn \in DOMAIN b
<1> DEFINE len == Len(queue)
           lq == Len(q)
<1>1. /\ len \in Nat /\ lq \in Nat /\ lq = len + k /\ len <= nxt /\ nxt <= limit
      /\ \A i \in 1..len : queue[i] = all[nxt - len + i] /\ q[i] = queue[i]
      /\ \A i \in 1..k : nxt + i - 1 \in DOMAIN buf /\ q[len + i] = buf[nxt + i - 1]
    BY LenProperties DEF Receives, Takes
<1>2. /\ \A sn \in DOMAIN buf : sn \in Nat /\ sn < limit /\ buf[sn] = all[sn + 1]
      /\ DOMAIN b = {sn \in DOMAIN buf : sn >= nxt + k}
      /\ \A sn \in DOMAIN b : b[sn] = buf[sn]
    BY DEF Receives, Takes, Buffer
<1> HIDE DEF len, lq
<1>3. nxt + k <= limit
  <2>1. CASE k = 0
    BY <1>1, <2>1
  <2>2. CASE k # 0
    <3>1. k \in 1..k
      BY <2>2
    <3>2. nxt + k - 1 \in DOMAIN buf
      BY <1>1, <3>1
    <3>3. nxt + k - 1 < limit
      BY <1>2, <3>2
    <3> QED
      BY <3>3
  <2> QED
    BY <2>1, <2>2
<1>4. ASSUME NEW i \in 1..lq PROVE q[i] = all[(nxt + k) - lq + i]
  <2>1. CASE i <= len
    <3>1. i \in 1..len /\ (nxt + k) - lq + i = nxt - len + i
      BY <1>1, <2>1
    <3> QED
      BY <1>1, <3>1
  <2>2. CASE ~(i <= len)
    <3>1. PICK j \in 1..k : i = len + j
      <4>1. i - len \in 1..k /\ i = len + (i - len)
        BY <1>1, <2>2
      <4> QED
        BY <4>1
    <3>2. q[i] = buf[nxt + j - 1] /\ nxt + j - 1 \in DOMAIN buf
      BY <1>1, <3>1
    <3>3. buf[nxt + j - 1] = all[(nxt + j - 1) + 1]
      BY <1>2, <3>2
    <3>4. (nxt + j - 1) + 1 = (nxt + k) - lq + i
      BY <1>1, <3>1
    <3> QED
      BY <3>2, <3>3, <3>4
  <2> QED
    BY <1>1, <2>1, <2>2
<1>5. lq <= nxt + k
    BY <1>1
<1>6. \A sn \in DOMAIN b : sn < limit /\ b[sn] = all[sn + 1]
    BY <1>2
<1>7. Receives(q, b, nxt + k, all, limit)
    BY <1>3, <1>4, <1>5, <1>6 DEF Receives, lq
<1>8. \A sn \in Nat : sn < nxt \/ sn \in DOMAIN buf
                      => sn < nxt + k \/ sn \in DOMAIN b
    BY <1>2
<1> QED
    BY <1>7, <1>8

\* ikcp_recv takes fragments away from the front of the queue.
LEMMA ReceivesRest ==
    ASSUME NEW queue \in Seq(Fragment), NEW buf, NEW nxt \in Nat, NEW all, NEW limit,
           Receives(queue, buf, nxt, all, limit), NEW k \in 0..Len(queue),
           NEW rest \in Seq(Fragment), Len(rest) = Len(queue) - k,
           \A i \in 1..Len(rest) : rest[i] = queue[k + i]
    PROVE  Receives(rest, buf, nxt, all, limit)
<1> DEFINE len == Len(queue)
           lr == Len(rest)
<1>1. /\ len \in Nat /\ lr \in Nat /\ k \in 0..len /\ lr = len - k /\ len <= nxt
      /\ \A i \in 1..len : queue[i] = all[nxt - len + i]
      /\ \A i \in 1..lr : rest[i] = queue[k + i]
    BY LenProperties DEF Receives
<1> HIDE DEF len, lr
<1>2. ASSUME NEW i \in 1..lr PROVE rest[i] = all[nxt - lr + i]
  <2>1. k + i \in 1..len /\ nxt - len + (k + i) = nxt - lr + i
    BY <1>1
  <2> QED
    BY <1>1, <2>1
<1>3. lr <= nxt
    BY <1>1
<1> QED
    BY <1>2, <1>3 DEF Receives, lr

----------------------------------------------------------------------------
(* Types *)

\* rcv_queue never grows past rcv_wnd, so the room MoveReady computes is a natural.
QueueBound == \A n \in Node : Len(rcv_queue[n]) <= RcvWnd

TypeInv == TypeOK /\ QueueBound

\* Two fresh control blocks (ikcp_create) have the right types.
LEMMA InitTypes == Init => TypeInv
<1> SUFFICES ASSUME Init PROVE TypeInv
    OBVIOUS
<1>1. /\ <<>> \in Seq(Fragment) /\ <<>> \in Seq(Seq(Fragment))
      /\ Len(<<>>) = 0 /\ DOMAIN <<>> = {} /\ <<>> \in [{} -> Fragment]
    BY EmptySeq
<1>2. Buffer(<<>>)
    BY <1>1 DEF Buffer
<1>3. WndRcv \in Nat /\ RcvWnd \in Nat /\ MaxFaults \in Nat
    BY Windows, Bounds
<1>4. TypeOK
    BY <1>1, <1>2, <1>3 DEF Init, TypeOK
<1> QED
    BY <1>1, <1>3, <1>4 DEF Init, TypeInv, QueueBound

\* ikcp_send keeps the types.
LEMMA SendTypes ==
    ASSUME TypeInv, NEW n \in Node, NEW count \in 1..MaxFrags, Send(n, count)
    PROVE  TypeInv'
<1> DEFINE m == Fragments(Len(stream[n]), count)
<1>1. Len(stream[n]) \in Nat /\ count \in Nat
    BY Bounds, LenProperties DEF TypeInv, TypeOK
<1>2. m \in Seq(Fragment)
    BY <1>1, FragmentsFacts
<1>3. /\ snd_queue' = [snd_queue EXCEPT ![n] = snd_queue[n] \o m]
      /\ stream' = [stream EXCEPT ![n] = stream[n] \o m]
      /\ sent' = [sent EXCEPT ![n] = Append(sent[n], m)]
    BY DEF Send
<1> HIDE DEF m
<1>4. /\ snd_queue[n] \o m \in Seq(Fragment) /\ stream[n] \o m \in Seq(Fragment)
      /\ Append(sent[n], m) \in Seq(Seq(Fragment))
    BY <1>2, ConcatProperties, AppendProperties DEF TypeInv, TypeOK
<1>5. /\ snd_queue' \in [Node -> Seq(Fragment)]
      /\ stream' \in [Node -> Seq(Fragment)]
      /\ sent' \in [Node -> Seq(Seq(Fragment))]
    BY <1>3, <1>4 DEF TypeInv, TypeOK
<1> QED
    BY <1>5 DEF Send, TypeInv, TypeOK, QueueBound, Buffer, rcvVars, wndVars, netVars

\* ikcp_recv takes at least one fragment and stops at the first frg = 0.
LEMMA HeadFacts ==
    ASSUME TypeInv, NEW n \in Node, HeadComplete(n)
    PROVE  /\ HeadLength(n) \in 1..Len(rcv_queue[n])
           /\ \A i \in 1..(HeadLength(n) - 1) : rcv_queue[n][i].frg # 0
           /\ HeadLength(n) < Len(rcv_queue[n]) => rcv_queue[n][HeadLength(n)].frg = 0
<1> DEFINE len == Len(rcv_queue[n])
           S == {len} \cup {i \in 1..len : rcv_queue[n][i].frg = 0}
<1>1. len \in Nat \ {0}
    BY EmptySeq DEF TypeInv, TypeOK, HeadComplete
<1>2. S \subseteq 1..len /\ S \subseteq Nat /\ S # {}
    BY <1>1
<1>3. Min(S) \in S /\ \A i \in S : Min(S) <= i
    BY <1>2, MinOfNats
<1>4. HeadLength(n) = Min(S)
    BY DEF HeadLength
<1> HIDE DEF len
<1>5. \A i \in 1..len : rcv_queue[n][i].frg = 0 => Min(S) <= i
    BY <1>3
<1>6. Min(S) \in 1..len /\ (Min(S) < len => rcv_queue[n][Min(S)].frg = 0)
    BY <1>1, <1>2, <1>3
<1>7. \A i \in 1..(Min(S) - 1) : i \in 1..len /\ ~(Min(S) <= i)
    BY <1>1, <1>6
<1> QED
    BY <1>4, <1>5, <1>6, <1>7 DEF len

\* What is left of rcv_queue after its head was read.
LEMMA RestFacts ==
    ASSUME TypeInv, NEW n \in Node, HeadComplete(n)
    PROVE  LET k == HeadLength(n)
               rest == SubSeq(rcv_queue[n], k + 1, Len(rcv_queue[n]))
               head == SubSeq(rcv_queue[n], 1, k)
           IN /\ rest \in Seq(Fragment) /\ Len(rest) = Len(rcv_queue[n]) - k
              /\ Len(rest) <= RcvWnd
              /\ \A i \in 1..Len(rest) : rest[i] = rcv_queue[n][k + i]
              /\ head \in Seq(Fragment) /\ Len(head) = k
              /\ \A i \in 1..k : head[i] = rcv_queue[n][i]
<1> DEFINE k == HeadLength(n)
<1>1. k \in 1..Len(rcv_queue[n])
    BY HeadFacts
<1>2. rcv_queue[n] \in Seq(Fragment) /\ Len(rcv_queue[n]) \in Nat
    BY LenProperties DEF TypeInv, TypeOK
<1>3. Len(rcv_queue[n]) <= RcvWnd /\ RcvWnd \in Nat
    BY Windows DEF TypeInv, QueueBound
<1> HIDE DEF k
<1>4. \A i \in 1..k : rcv_queue[n][i] \in Fragment
    BY <1>1, <1>2, ElementOfSeq
<1>5. /\ SubSeq(rcv_queue[n], 1, k) \in Seq(Fragment)
      /\ Len(SubSeq(rcv_queue[n], 1, k)) = k
      /\ \A i \in 1..k : SubSeq(rcv_queue[n], 1, k)[i] = rcv_queue[n][i]
  <2>1. /\ SubSeq(rcv_queue[n], 1, k) \in Seq(Fragment)
        /\ Len(SubSeq(rcv_queue[n], 1, k)) = IF 1 <= k THEN k - 1 + 1 ELSE 0
        /\ \A i \in 1..(k - 1 + 1) :
              SubSeq(rcv_queue[n], 1, k)[i] = rcv_queue[n][1 + i - 1]
    BY <1>1, <1>4, SubSeqProperties
  <2> QED
    BY <1>1, <1>2, <2>1
<1>6. k \in 0..Len(rcv_queue[n])
    BY <1>1
<1>7. /\ SubSeq(rcv_queue[n], k + 1, Len(rcv_queue[n])) \in Seq(Fragment)
      /\ Len(SubSeq(rcv_queue[n], k + 1, Len(rcv_queue[n]))) = Len(rcv_queue[n]) - k
      /\ \A i \in 1..(Len(rcv_queue[n]) - k) :
            SubSeq(rcv_queue[n], k + 1, Len(rcv_queue[n]))[i] = rcv_queue[n][k + i]
    BY <1>2, <1>6, SuffixFacts
<1> QED
    BY <1>1, <1>2, <1>3, <1>5, <1>7 DEF k

\* MoveReady keeps the types of the receiving half and the bound of rcv_queue.
LEMMA MovedTypes ==
    ASSUME TypeInv, NEW n \in Node, NEW buf, NEW queue \in Seq(Fragment),
           Len(queue) <= RcvWnd, NEW j \in 0..(RcvWnd - Len(queue)),
           NEW q \in Seq(Fragment), NEW b, Moved(n, buf, queue, j, q, b)
    PROVE  /\ rcv_queue' \in [Node -> Seq(Fragment)] /\ rcv_nxt' \in [Node -> Nat]
           /\ DOMAIN rcv_buf' = Node /\ \A m \in Node : Buffer(rcv_buf'[m])
           /\ \A m \in Node : Len(rcv_queue'[m]) <= RcvWnd
<1>1. Len(queue) \in Nat /\ RcvWnd \in Nat
    BY Windows, LenProperties
<1>2. Len(q) <= RcvWnd /\ j \in Nat
    BY <1>1 DEF Moved, Takes
<1>3. rcv_nxt[n] + j \in Nat
  <2>1. rcv_nxt[n] \in Nat
    BY DEF TypeInv, TypeOK
  <2> QED
    BY <1>2, <2>1
<1>4. rcv_queue' \in [Node -> Seq(Fragment)] /\ rcv_nxt' \in [Node -> Nat]
    BY <1>3 DEF Moved, TypeInv, TypeOK
<1>5. DOMAIN rcv_buf' = Node /\ \A m \in Node : Buffer(rcv_buf'[m])
    BY Zenon DEF Moved, Takes, TypeInv, TypeOK
<1>6. \A m \in Node : Len(rcv_queue'[m]) <= RcvWnd
    BY <1>2 DEF Moved, TypeInv, TypeOK, QueueBound
<1> QED
    BY <1>4, <1>5, <1>6

\* ikcp_recv keeps the types and does not overfill rcv_queue.
LEMMA RecvTypes ==
    ASSUME TypeInv, NEW n \in Node, Recv(n)
    PROVE  TypeInv'
<1> DEFINE k == HeadLength(n)
           rest == SubSeq(rcv_queue[n], k + 1, Len(rcv_queue[n]))
           head == SubSeq(rcv_queue[n], 1, k)
<1>1. HeadComplete(n) /\ MoveReady(n, rcv_buf[n], rest)
    BY DEF Recv
<1>2. rest \in Seq(Fragment) /\ Len(rest) <= RcvWnd /\ head \in Seq(Fragment)
    BY <1>1, RestFacts
<1>3. delivered' = [delivered EXCEPT ![n] = Append(delivered[n], head)]
    BY DEF Recv
<1>4. probe' \in [Node -> SUBSET {"ASK_SEND", "ASK_TELL"}]
    BY DEF Recv, TypeInv, TypeOK
<1>5. UNCHANGED <<sndVars, rmt_wnd, probing, acklist, netVars, stream, sent>>
    BY DEF Recv
<1> HIDE DEF k, rest, head
<1>6. delivered' \in [Node -> Seq(Seq(Fragment))]
    BY <1>2, <1>3, AppendProperties DEF TypeInv, TypeOK
<1>7. TypeOK /\ Buffer(rcv_buf[n])
    BY DEF TypeInv, TypeOK
<1>8a. PICK j \in 0..(RcvWnd - Len(rest)), q \in Seq(Fragment) :
             \E b : Moved(n, rcv_buf[n], rest, j, q, b)
    BY <1>1, <1>2, <1>7, MoveReadyFacts
<1>8. PICK b : Moved(n, rcv_buf[n], rest, j, q, b)
  BY <1>8a
<1> QED
    BY <1>2, <1>4, <1>5, <1>6, <1>8, MovedTypes
       DEF TypeInv, TypeOK, QueueBound, Buffer, sndVars, netVars

\* snd_buf after ikcp_flush: what it held and the fragments numbered now.
LEMMA NumberedFacts ==
    ASSUME TypeInv, NEW n \in Node
    PROVE  LET k == Admitted(n)
               fresh == snd_nxt[n]..(snd_nxt[n] + k - 1)
           IN /\ Buffer(Numbered(n))
              /\ DOMAIN Numbered(n) = DOMAIN snd_buf[n] \cup fresh
              /\ \A sn \in DOMAIN snd_buf[n] : Numbered(n)[sn] = snd_buf[n][sn]
              /\ \A sn \in fresh \ DOMAIN snd_buf[n] :
                    Numbered(n)[sn] = snd_queue[n][sn - snd_nxt[n] + 1]
<1> DEFINE k == Admitted(n)
           fresh == snd_nxt[n]..(snd_nxt[n] + k - 1)
<1>1. k \in 0..Len(snd_queue[n])
    BY AdmittedFacts DEF TypeInv
<1>2. snd_nxt[n] \in Nat /\ Len(snd_queue[n]) \in Nat /\ Buffer(snd_buf[n])
    BY LenProperties DEF TypeInv, TypeOK
<1>3. Numbered(n) = [sn \in DOMAIN snd_buf[n] \cup fresh |->
          IF sn \in DOMAIN snd_buf[n] THEN snd_buf[n][sn]
                                      ELSE snd_queue[n][sn - snd_nxt[n] + 1]]
    BY DEF Numbered
<1> HIDE DEF k
<1>4. \A sn \in fresh : sn \in Nat /\ sn - snd_nxt[n] + 1 \in 1..Len(snd_queue[n])
    BY <1>1, <1>2
<1>5. \A sn \in fresh : snd_queue[n][sn - snd_nxt[n] + 1] \in Fragment
    BY <1>4, ElementOfSeq DEF TypeInv, TypeOK
<1> HIDE DEF fresh
<1>6. Buffer(Numbered(n))
    BY <1>2, <1>3, <1>4, <1>5 DEF Buffer
<1> QED
    BY <1>3, <1>6 DEF k, fresh

\* The segments a flush makes are segments for the peer.
LEMMA FlushSegments ==
    ASSUME TypeInv, NEW n \in Node
    PROVE  /\ WndUnused(n) \in Nat
           /\ \A sn \in Nat : Ack(n, sn) \in Segment
           /\ \A cmd \in {"WASK", "WINS"} : Window(n, cmd) \in Segment
           /\ \A asked : WindowSegments(n, asked) \subseteq Segment
           /\ \A sn \in Nat, frag \in Fragment : Push(n, sn, frag) \in Segment
<1>1. WndUnused(n) \in Nat
    BY Windows, LenProperties DEF WndUnused, TypeInv, TypeOK
<1>2. Peer(n) \in Node /\ rcv_nxt[n] \in Nat /\ NoFragment \in Fragment
    BY PeerFacts DEF TypeInv, TypeOK, NoFragment, Fragment
<1>3. \A cmd \in {"WASK", "WINS"} : Window(n, cmd) \in Segment
    BY <1>1, <1>2 DEF Window, Segment
<1>4. \A sn \in Nat : Ack(n, sn) \in Segment
    BY <1>1, <1>2 DEF Ack, Segment
<1>5. \A sn \in Nat, frag \in Fragment : Push(n, sn, frag) \in Segment
    BY <1>1, <1>2 DEF Push, Segment
<1>6. \A asked : WindowSegments(n, asked) \subseteq Segment
    BY <1>3 DEF WindowSegments
<1> QED
    BY <1>1, <1>3, <1>4, <1>5, <1>6

\* ikcp_flush keeps the types.
LEMMA FlushTypes ==
    ASSUME TypeInv, NEW n \in Node, NEW late \in SUBSET DOMAIN snd_buf[n],
           NEW due \in BOOLEAN, Flush(n, late, due)
    PROVE  TypeInv'
<1> DEFINE k == Admitted(n)
           buf == Numbered(n)
           fresh == snd_nxt[n]..(snd_nxt[n] + k - 1)
           pushed == {Push(n, sn, buf[sn]) : sn \in fresh \cup late}
           acks == {Ack(n, sn) : sn \in acklist[n]}
<1>1. k \in 0..Len(snd_queue[n]) /\ snd_queue[n] \in Seq(Fragment)
    BY AdmittedFacts DEF TypeInv, TypeOK
<1>2. /\ snd_queue' = [snd_queue EXCEPT ![n] =
            SubSeq(snd_queue[n], k + 1, Len(snd_queue[n]))]
      /\ snd_buf' = [snd_buf EXCEPT ![n] = buf]
      /\ snd_nxt' = [snd_nxt EXCEPT ![n] = snd_nxt[n] + k]
      /\ net' = net \cup acks \cup WindowSegments(n, Asked(n, due)) \cup pushed
      /\ acklist' = [acklist EXCEPT ![n] = {}]
      /\ probe' = [probe EXCEPT ![n] = {}]
      /\ probing' = [probing EXCEPT ![n] = (rmt_wnd[n] = 0)]
      /\ UNCHANGED <<snd_una, rcvVars, rmt_wnd, faults, userVars>>
    BY DEF Flush
<1>3. /\ Buffer(buf) /\ DOMAIN buf = DOMAIN snd_buf[n] \cup fresh
    BY NumberedFacts
<1>4. pushed \subseteq Segment
    BY <1>3, FlushSegments DEF Buffer
<1>5. acks \subseteq Segment
    BY FlushSegments DEF TypeInv, TypeOK
<1> HIDE DEF k, buf, pushed, acks
<1>6. net' \subseteq Segment
    BY <1>2, <1>4, <1>5, FlushSegments DEF TypeInv, TypeOK
<1>7. SubSeq(snd_queue[n], k + 1, Len(snd_queue[n])) \in Seq(Fragment)
    BY <1>1, SuffixFacts
<1>8. snd_queue' \in [Node -> Seq(Fragment)]
    BY <1>2, <1>7 DEF TypeInv, TypeOK
<1>9. DOMAIN snd_buf' = Node /\ \A m \in Node : Buffer(snd_buf'[m])
    BY <1>2, <1>3, Zenon DEF TypeInv, TypeOK
<1>10. k \in Nat
    BY <1>1, LenProperties
<1>11. snd_nxt' \in [Node -> Nat]
  <2>1. snd_nxt \in [Node -> Nat] /\ snd_nxt[n] + k \in Nat
    BY <1>10 DEF TypeInv, TypeOK
  <2> QED
    BY <1>2, <2>1
<1>12. /\ DOMAIN acklist' = Node /\ \A m \in Node : acklist'[m] \subseteq Nat
       /\ probe' \in [Node -> SUBSET {"ASK_SEND", "ASK_TELL"}]
    BY <1>2 DEF TypeInv, TypeOK
<1>13. probing' \in [Node -> BOOLEAN]
    BY <1>2, Zenon DEF TypeInv, TypeOK
<1> QED
    BY <1>2, <1>6, <1>8, <1>9, <1>11, <1>12, <1>13
       DEF TypeInv, TypeOK, QueueBound, Buffer, rcvVars, userVars

\* What every segment does to the sending half and to the network.
LEMMA HeaderTypes ==
    ASSUME TypeInv, NEW n \in Node, NEW s \in net, NEW buf, Buffer(buf),
           Arrive(s), Header(n, s, buf)
    PROVE  /\ rmt_wnd' \in [Node -> Nat] /\ snd_una' \in [Node -> Nat]
           /\ DOMAIN snd_buf' = Node /\ \A m \in Node : Buffer(snd_buf'[m])
           /\ net' \subseteq Segment /\ net' \subseteq net /\ faults' \in 0..MaxFaults
           /\ UNCHANGED <<snd_queue, snd_nxt, probing, userVars>>
<1>1. s.wnd \in Nat /\ snd_nxt[n] \in Nat
    BY DEF TypeInv, TypeOK, Segment
<1>2. FirstUnacked(buf, snd_nxt[n]) \in Nat
    BY <1>1, FirstUnackedFacts DEF Buffer
<1>3. rmt_wnd' \in [Node -> Nat] /\ snd_una' \in [Node -> Nat]
    BY <1>1, <1>2 DEF Header, TypeInv, TypeOK
<1>4. DOMAIN snd_buf' = Node /\ \A m \in Node : Buffer(snd_buf'[m])
    BY Zenon DEF Header, TypeInv, TypeOK
<1>5. net' \subseteq Segment /\ net' \subseteq net /\ faults' \in 0..MaxFaults
  <2>1. net \subseteq Segment /\ faults \in 0..MaxFaults /\ MaxFaults \in Nat
    BY Bounds DEF TypeInv, TypeOK
  <2>2. net' \subseteq net
    BY DEF Arrive
  <2>3. faults' \in 0..MaxFaults
    BY <2>1 DEF Arrive
  <2> QED
    BY <2>1, <2>2, <2>3
<1> QED
    BY <1>3, <1>4, <1>5 DEF Header

\* The buffers that the four handlers leave in snd_buf are buffers.
LEMMA LeftBuffers ==
    ASSUME TypeInv, NEW n \in Node, NEW s \in net
    PROVE  /\ s.una \in Nat /\ s.sn \in Nat /\ s.frag \in Fragment
           /\ Buffer(snd_buf[n]) /\ snd_nxt[n] \in Nat
           /\ Buffer(AfterUna(snd_buf[n], s.una))
           /\ Buffer(AfterAck(AfterUna(snd_buf[n], s.una), s.sn, snd_nxt[n]))
<1>1. /\ s.una \in Nat /\ s.sn \in Nat /\ s.frag \in Fragment
      /\ Buffer(snd_buf[n]) /\ snd_nxt[n] \in Nat
    BY DEF TypeInv, TypeOK, Segment
<1>2. Buffer(AfterUna(snd_buf[n], s.una))
    BY <1>1, AfterUnaFacts
<1> QED
    BY <1>1, <1>2, AfterAckFacts

\* ikcp_parse_data puts the fragment of the segment into a buffer.
LEMMA WithSegmentFacts ==
    ASSUME TypeInv, NEW n \in Node, NEW s \in net
    PROVE  /\ Buffer(WithSegment(n, s))
           /\ DOMAIN WithSegment(n, s) = DOMAIN rcv_buf[n] \cup {s.sn}
           /\ \A sn \in DOMAIN rcv_buf[n] : WithSegment(n, s)[sn] = rcv_buf[n][sn]
           /\ s.sn \notin DOMAIN rcv_buf[n] => WithSegment(n, s)[s.sn] = s.frag
<1>1. s.sn \in Nat /\ s.frag \in Fragment /\ Buffer(rcv_buf[n])
    BY LeftBuffers DEF TypeInv, TypeOK
<1> QED
    BY <1>1 DEF WithSegment, Buffer

\* A PUSH handled by ikcp_input keeps the types and the bound of rcv_queue.
LEMMA InputPushTypes ==
    ASSUME TypeInv, NEW n \in Node, NEW s \in net, InputPush(n, s)
    PROVE  TypeInv'
<1>1. Arrive(s) /\ Header(n, s, AfterUna(snd_buf[n], s.una)) /\ UNCHANGED probe
    BY DEF InputPush
<1>2. /\ rmt_wnd' \in [Node -> Nat] /\ snd_una' \in [Node -> Nat]
      /\ DOMAIN snd_buf' = Node /\ \A m \in Node : Buffer(snd_buf'[m])
      /\ net' \subseteq Segment /\ faults' \in 0..MaxFaults
      /\ UNCHANGED <<snd_queue, snd_nxt, probing, userVars>>
    BY <1>1, LeftBuffers, HeaderTypes
<1>3. ASSUME acklist' = [acklist EXCEPT ![n] = acklist[n] \cup {s.sn}] \/ UNCHANGED acklist
      PROVE  DOMAIN acklist' = Node /\ \A m \in Node : acklist'[m] \subseteq Nat
  <2>1. s.sn \in Nat /\ acklist[n] \cup {s.sn} \subseteq Nat
    BY LeftBuffers DEF TypeInv, TypeOK
  <2> QED
    BY <1>3, <2>1, Zenon DEF TypeInv, TypeOK
<1>4. CASE Beyond(n, s) \/ Repeated(n, s)
  <2>1. DOMAIN acklist' = Node /\ \A m \in Node : acklist'[m] \subseteq Nat
    BY <1>3, <1>4 DEF Beyond, Repeated, Acknowledge
  <2>2. UNCHANGED rcvVars
    BY <1>4 DEF Beyond, Repeated
  <2> QED
    BY <1>1, <1>2, <2>1, <2>2 DEF TypeInv, TypeOK, QueueBound, Buffer, rcvVars, userVars
<1>5. CASE Accepted(n, s)
  <2>1. DOMAIN acklist' = Node /\ \A m \in Node : acklist'[m] \subseteq Nat
    BY <1>3, <1>5 DEF Accepted, Acknowledge
  <2>2. /\ rcv_queue[n] \in Seq(Fragment) /\ Len(rcv_queue[n]) <= RcvWnd
        /\ Buffer(WithSegment(n, s)) /\ TypeOK
        /\ MoveReady(n, WithSegment(n, s), rcv_queue[n])
    BY <1>5, WithSegmentFacts DEF Accepted, TypeInv, TypeOK, QueueBound
  <2>3a. PICK j \in 0..(RcvWnd - Len(rcv_queue[n])), q \in Seq(Fragment) :
            \E b : Moved(n, WithSegment(n, s), rcv_queue[n], j, q, b)
    BY <2>2, MoveReadyFacts
  <2>3. PICK b : Moved(n, WithSegment(n, s), rcv_queue[n], j, q, b)
    BY <2>3a
  <2>4. /\ rcv_queue' \in [Node -> Seq(Fragment)] /\ rcv_nxt' \in [Node -> Nat]
        /\ DOMAIN rcv_buf' = Node /\ \A m \in Node : Buffer(rcv_buf'[m])
        /\ \A m \in Node : Len(rcv_queue'[m]) <= RcvWnd
    BY <2>2, <2>3, MovedTypes
  <2> QED
    BY <1>1, <1>2, <2>1, <2>4 DEF TypeInv, TypeOK, QueueBound, Buffer, userVars
<1> QED
    BY <1>4, <1>5 DEF InputPush

\* ikcp_input keeps the types, whatever the command.
LEMMA InputTypes ==
    ASSUME TypeInv, NEW n \in Node, NEW s \in net, Input(n, s)
    PROVE  TypeInv'
<1>1. CASE InputAck(n, s)
  <2>1. /\ Arrive(s)
        /\ Header(n, s, AfterAck(AfterUna(snd_buf[n], s.una), s.sn, snd_nxt[n]))
        /\ UNCHANGED <<rcvVars, acklist, probe>>
    BY <1>1 DEF InputAck
  <2>2. /\ rmt_wnd' \in [Node -> Nat] /\ snd_una' \in [Node -> Nat]
        /\ DOMAIN snd_buf' = Node /\ \A m \in Node : Buffer(snd_buf'[m])
        /\ net' \subseteq Segment /\ faults' \in 0..MaxFaults
        /\ UNCHANGED <<snd_queue, snd_nxt, probing, userVars>>
    BY <2>1, LeftBuffers, HeaderTypes
  <2> QED
    BY <2>1, <2>2 DEF TypeInv, TypeOK, QueueBound, Buffer, rcvVars, userVars
<1>2. CASE InputPush(n, s)
    BY <1>2, InputPushTypes
<1>3. CASE InputWask(n, s) \/ InputWins(n, s)
  <2>1. /\ Arrive(s) /\ Header(n, s, AfterUna(snd_buf[n], s.una))
        /\ UNCHANGED <<rcvVars, acklist>>
    BY <1>3 DEF InputWask, InputWins
  <2>2. probe' \in [Node -> SUBSET {"ASK_SEND", "ASK_TELL"}]
    <3>1. probe[n] \cup {"ASK_TELL"} \in SUBSET {"ASK_SEND", "ASK_TELL"}
      BY DEF TypeInv, TypeOK
    <3>2. UNCHANGED probe \/ probe' = [probe EXCEPT ![n] = probe[n] \cup {"ASK_TELL"}]
      BY <1>3 DEF InputWask, InputWins
    <3> QED
      BY <3>1, <3>2 DEF TypeInv, TypeOK
  <2>3. /\ rmt_wnd' \in [Node -> Nat] /\ snd_una' \in [Node -> Nat]
        /\ DOMAIN snd_buf' = Node /\ \A m \in Node : Buffer(snd_buf'[m])
        /\ net' \subseteq Segment /\ faults' \in 0..MaxFaults
        /\ UNCHANGED <<snd_queue, snd_nxt, probing, userVars>>
    BY <2>1, LeftBuffers, HeaderTypes
  <2> QED
    BY <2>1, <2>2, <2>3 DEF TypeInv, TypeOK, QueueBound, Buffer, rcvVars, userVars
<1> QED
    BY <1>1, <1>2, <1>3 DEF Input

\* Losing a datagram keeps the types.
LEMMA LoseTypes ==
    ASSUME TypeInv, NEW s \in net, Lose(s)
    PROVE  TypeInv'
<1>1. net' \subseteq Segment /\ faults' \in 0..MaxFaults
    BY Bounds DEF Lose, TypeInv, TypeOK
<1> QED
    BY <1>1 DEF Lose, TypeInv, TypeOK, QueueBound, Buffer, sndVars, rcvVars,
                wndVars, userVars

\* Every step keeps the types.
LEMMA NextTypes == TypeInv /\ [Next]_vars => TypeInv'
<1> SUFFICES ASSUME TypeInv, [Next]_vars PROVE TypeInv'
    OBVIOUS
<1>1. ASSUME NEW n \in Node, NEW count \in 1..MaxFrags, Send(n, count)
      PROVE  TypeInv'
    BY <1>1, SendTypes
<1>2. ASSUME NEW n \in Node, Recv(n) PROVE TypeInv'
    BY <1>2, RecvTypes
<1>3. ASSUME NEW n \in Node, NEW late \in SUBSET DOMAIN snd_buf[n],
             NEW due \in BOOLEAN, Flush(n, late, due)
      PROVE  TypeInv'
    BY <1>3, FlushTypes
<1>4. ASSUME NEW n \in Node, NEW s \in net, Input(n, s) PROVE TypeInv'
    BY <1>4, InputTypes
<1>5. ASSUME NEW s \in net, Lose(s) PROVE TypeInv'
    BY <1>5, LoseTypes
<1>6. CASE UNCHANGED vars
    BY <1>6 DEF vars, TypeInv, TypeOK, QueueBound, Buffer, sndVars, rcvVars,
                wndVars, netVars, userVars
<1> QED
    BY <1>1, <1>2, <1>3, <1>4, <1>5, <1>6 DEF Next

\* The types, for every instance.
THEOREM TypeCorrect == Spec => []TypeInv
<1>1. Init => TypeInv
    BY InitTypes
<1>2. TypeInv /\ [Next]_vars => TypeInv'
    BY NextTypes
<1> QED
    BY <1>1, <1>2, PTL DEF Spec

\* The fields of the control blocks and the segments have their types in every
\* reachable state, for all windows and any amount of traffic.
THEOREM TypesHold == Spec => []TypeOK
<1>1. TypeInv => TypeOK
    BY DEF TypeInv
<1> QED
    BY <1>1, TypeCorrect, PTL
----------------------------------------------------------------------------
(* No fragment is lost *)

\* Fresh control blocks hold nothing that could be lost.
LEMMA InitTransfer == Init => TransferInv
<1> SUFFICES ASSUME Init PROVE TransferInv
    OBVIOUS
<1>1. Len(<<>>) = 0 /\ DOMAIN <<>> = {}
    BY EmptySeq
<1>2. \A n \in Node : Peer(n) \in Node
    BY PeerFacts
<1>3. SenderInv /\ ReceiverInv
    BY <1>1, <1>2 DEF Init, SenderInv, ReceiverInv, Sends, Receives
<1>4. NetInv /\ AckInv
    BY DEF Init, NetInv, AckInv
<1>5. NoFragmentLost
    BY DEF Init, NoFragmentLost
<1> QED
    BY <1>3, <1>4, <1>5 DEF TransferInv

===========================================================================
