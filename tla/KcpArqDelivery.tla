-------------------------- MODULE KcpArqDelivery --------------------------
(***************************************************************************)
(* What is delivered is a prefix of what was sent: DeliveryInv is an       *)
(* invariant of KcpArq, given that fragments arrive in order               *)
(* (TransferInv).  Only ikcp_send and ikcp_recv change the histories; a    *)
(* reader always stands at the beginning of a message, and the frg of the  *)
(* fragment there tells where the message ends.                            *)
(***************************************************************************)
EXTENDS KcpArqTransfer

\* What Append does to a list of messages.
LEMMA AppendedList ==
    ASSUME NEW S, NEW list \in Seq(S), NEW m \in S
    PROVE  /\ Append(list, m) \in Seq(S) /\ Len(list) \in Nat
           /\ Len(Append(list, m)) = Len(list) + 1
           /\ \A i \in 1..Len(list) : Append(list, m)[i] = list[i]
           /\ Append(list, m)[Len(list) + 1] = m
<1>1. Len(list) \in Nat
    BY LenProperties
<1> QED
    BY <1>1, AppendProperties

\* ikcp_send: the new message follows the last one in the stream.
LEMMA MessagesAppend ==
    ASSUME NEW list \in Seq(Seq(Fragment)), NEW all \in Seq(Fragment),
           Messages(list, all), NEW count \in Nat \ {0}
    PROVE  LET m == Fragments(Len(all), count)
           IN /\ Messages(Append(list, m), all \o m)
              /\ \A i \in 1..Len(list) : Begin(Append(list, m), i) = Begin(list, i)
              /\ Begin(Append(list, m), Len(list) + 1) = Len(all)
<1> DEFINE la == Len(all)
           ll == Len(list)
           m == Fragments(la, count)
           new == Append(list, m)
           more == all \o m
<1>1. la \in Nat /\ ll \in Nat
    BY LenProperties
<1> HIDE DEF la
<1>2. /\ m \in Seq(Fragment) /\ Len(m) = count
      /\ \A i \in 1..count : m[i] = [data |-> la + i, frg |-> count - i]
    BY <1>1, FragmentsFacts
<1> HIDE DEF m, ll
<1>3. m[1].data = la + 1
  <2>1. 1 \in 1..count
    OBVIOUS
  <2> QED
    BY <1>2, <2>1
<1>4. /\ Len(new) = ll + 1 /\ new[ll + 1] = m
      /\ \A i \in 1..ll : new[i] = list[i]
    BY <1>2, AppendedList DEF ll
<1>5. /\ Len(more) = la + count
      /\ \A i \in 1..(la + count) : more[i] = IF i <= la THEN all[i] ELSE m[i - la]
    BY <1>2, ConcatProperties DEF la
<1> HIDE DEF new, more
<1>6. /\ \A i \in 1..ll : Begin(new, i) = Begin(list, i)
      /\ Begin(new, ll + 1) = la
  <2>1. \A i \in 1..ll : new[i][1].data = list[i][1].data
    BY <1>4
  <2>2. \A i \in 1..ll : Begin(new, i) = Begin(list, i)
    BY <2>1 DEF Begin
  <2>3. new[ll + 1][1].data = la + 1
    BY <1>3, <1>4
  <2>4. Begin(new, ll + 1) = (la + 1) - 1
    BY <2>3 DEF Begin
  <2>5. (la + 1) - 1 = la
    BY <1>1
  <2> QED
    BY <2>2, <2>4, <2>5
<1>7. ASSUME NEW i \in 1..ll
      PROVE  LET first == Begin(new, i)
                 size == Len(new[i])
             IN /\ first \in Nat /\ size \in Nat \ {0} /\ first + size <= Len(more)
                /\ new[i] = Fragments(first, size)
                /\ \A j \in 1..size : more[first + j] = new[i][j]
                /\ i = 1 => first = 0
                /\ i < Len(new) => Begin(new, i + 1) = first + size
                /\ i = Len(new) => Len(more) = first + size
  <2> DEFINE first == Begin(list, i)
             size == Len(list[i])
  <2>1. /\ first \in Nat /\ size \in Nat \ {0} /\ first + size <= la
        /\ list[i] = Fragments(first, size)
        /\ \A j \in 1..size : all[first + j] = list[i][j]
        /\ i = 1 => first = 0
        /\ i < ll => Begin(list, i + 1) = first + size
        /\ i = ll => la = first + size
    BY DEF Messages, la, ll
  <2>2. Begin(new, i) = first /\ Len(new[i]) = size /\ new[i] = list[i]
    BY <1>4, <1>6
  <2> HIDE DEF first, size
  <2>3. \A j \in 1..size : first + j \in 1..(la + count) /\ first + j <= la
    BY <1>1, <2>1
  <2>4. \A j \in 1..size : more[first + j] = list[i][j]
    BY <1>5, <2>1, <2>3
  <2>5. Begin(new, i + 1) = first + size
    <3>1. CASE i < ll
      BY <1>1, <1>6, <2>1, <3>1
    <3>2. CASE i = ll
      BY <1>6, <2>1, <3>2
    <3> QED
      BY <1>1, <3>1, <3>2
  <2>6. first + size <= Len(more) /\ i # Len(new)
    BY <1>1, <1>4, <1>5, <2>1
  <2> QED
    BY <2>1, <2>2, <2>4, <2>5, <2>6
<1>8. /\ la \in Nat /\ Len(m) \in Nat \ {0} /\ la + Len(m) <= Len(more)
      /\ m = Fragments(la, Len(m))
      /\ \A j \in 1..Len(m) : more[la + j] = m[j]
      /\ ll + 1 = 1 => la = 0
      /\ Len(more) = la + Len(m)
  <2>1. m = Fragments(la, count)
    BY DEF m
  <2>2. \A j \in 1..count : la + j \in 1..(la + count) /\ ~(la + j <= la) /\ (la + j) - la = j
    BY <1>1
  <2>3. ll = 0 => la = 0
    BY DEF Messages, la, ll
  <2>4. la + count \in Nat
    BY <1>1
  <2> QED
    BY <1>1, <1>2, <1>5, <2>1, <2>2, <2>3, <2>4
<1>9. Messages(new, more)
  <2>1. Len(new) # 0
    BY <1>1, <1>4
  <2>2. \A i \in 1..Len(new) : i \in 1..ll \/ i = ll + 1
    BY <1>1, <1>4
  <2>3. ASSUME NEW i, i = ll + 1
        PROVE  LET first == Begin(new, i)
                   size == Len(new[i])
               IN /\ first \in Nat /\ size \in Nat \ {0} /\ first + size <= Len(more)
                  /\ new[i] = Fragments(first, size)
                  /\ \A j \in 1..size : more[first + j] = new[i][j]
                  /\ i = 1 => first = 0
                  /\ i < Len(new) => Begin(new, i + 1) = first + size
                  /\ i = Len(new) => Len(more) = first + size
    <3>1. Begin(new, i) = la /\ new[i] = m /\ ~(i < Len(new))
      BY <1>1, <1>4, <1>6, <2>3
    <3> QED
      BY <1>8, <2>3, <3>1
  <2> QED
    BY <1>7, <2>1, <2>2, <2>3 DEF Messages
<1> QED
    BY <1>6, <1>9 DEF la, ll, m, new, more

\* The frg of a fragment counts the fragments of its message that follow.
LEMMA FragmentsFrg ==
    ASSUME NEW first \in Nat, NEW count \in Nat
    PROVE  \A i \in 1..count : Fragments(first, count)[i].frg = count - i
    BY DEF Fragments

\* ikcp_recv at the beginning of message count + 1 takes exactly that message.
LEMMA HeadIsNext ==
    ASSUME NEW list \in Seq(Seq(Fragment)), NEW all \in Seq(Fragment),
           Messages(list, all), NEW position \in Nat, NEW count \in Nat,
           Reads(position, count, list, all),
           NEW queue \in Seq(Fragment), position + Len(queue) <= Len(all),
           \A i \in 1..Len(queue) : queue[i] = all[position + i],
           queue[1].frg < Len(queue), NEW k \in 1..Len(queue),
           \A i \in 1..(k - 1) : queue[i].frg # 0,
           k < Len(queue) => queue[k].frg = 0
    PROVE  /\ count + 1 \in 1..Len(list) /\ k = Len(list[count + 1])
           /\ \A i \in 1..k : queue[i] = list[count + 1][i]
           /\ Reads(position + k, count + 1, list, all)
<1> DEFINE len == Len(queue)
           la == Len(all)
           ll == Len(list)
           m == count + 1
           size == Len(list[m])
<1>1. len \in Nat /\ la \in Nat /\ ll \in Nat /\ 1 \in 1..len
  <2>1. len \in Nat /\ la \in Nat /\ ll \in Nat
    BY LenProperties
  <2> HIDE DEF len, la, ll
  <2> QED
    BY <2>1 DEF len
<1>2. /\ count <= ll /\ (count < ll => position = Begin(list, m))
      /\ (count = ll => position = la) /\ position + len <= la
    BY DEF Reads
<1>3. /\ k \in 1..len /\ \A i \in 1..len : queue[i] = all[position + i]
      /\ queue[1].frg < len /\ \A i \in 1..(k - 1) : queue[i].frg # 0
      /\ k < len => queue[k].frg = 0
    OBVIOUS
<1> HIDE DEF len, la
<1>4. m \in 1..ll /\ position = Begin(list, m)
  <2> HIDE DEF ll
  <2> QED
    BY <1>1, <1>2
<1>5. /\ size \in Nat \ {0}
      /\ list[m] = Fragments(position, size)
      /\ \A i \in 1..size : all[position + i] = list[m][i]
      /\ m < ll => Begin(list, m + 1) = position + size
      /\ m = ll => la = position + size
    BY <1>4 DEF Messages, la
<1> HIDE DEF ll, m
<1>6. \A i \in 1..size : list[m][i].frg = size - i
  <2>1. size \in Nat /\ list[m] = Fragments(position, size)
    BY <1>5
  <2> HIDE DEF size
  <2>2. \A i \in 1..size : Fragments(position, size)[i].frg = size - i
    BY <2>1, FragmentsFrg
  <2> QED
    BY <2>1, <2>2
<1> HIDE DEF size
<1>7. size <= len
  <2>1. 1 \in 1..size
    BY <1>5
  <2>2. queue[1] = list[m][1]
    BY <1>1, <1>3, <1>5, <2>1
  <2>3. queue[1].frg = size - 1
    BY <1>6, <2>1, <2>2
  <2> QED
    BY <1>1, <1>3, <1>5, <2>3
<1>8. \A i \in 1..size : queue[i] = list[m][i] /\ queue[i].frg = size - i
  <2> TAKE i \in 1..size
  <2>1. i \in 1..len
    BY <1>1, <1>5, <1>7
  <2>2. queue[i] = list[m][i]
    BY <1>3, <1>5, <2>1
  <2> QED
    BY <1>6, <2>2
<1>9. k = size
  <2>1. k \in Nat /\ size \in Nat \ {0}
    BY <1>1, <1>3, <1>5
  <2>2. ~(size < k)
    <3>1. SUFFICES ASSUME size < k PROVE FALSE
      OBVIOUS
    <3>2. size \in 1..(k - 1) /\ size \in 1..size /\ size - size = 0
      BY <2>1, <3>1
    <3>3. queue[size].frg = size - size
      BY <1>8, <3>2
    <3> QED
      BY <1>3, <3>2, <3>3
  <2>3. ~(k < size)
    <3>1. SUFFICES ASSUME k < size PROVE FALSE
      OBVIOUS
    <3>2. k \in 1..size /\ k < len
      <4>1. k \in 1..len /\ len \in Nat /\ size <= len /\ size \in Nat
        BY <1>1, <1>3, <1>7, <2>1
      <4> QED
        BY <3>1, <4>1
    <3>3. queue[k].frg = 0 /\ queue[k].frg = size - k
      BY <1>3, <1>8, <3>2
    <3> QED
      BY <2>1, <3>1, <3>3
  <2> QED
    BY <2>1, <2>2, <2>3
<1>10. Reads(position + k, m, list, all)
    BY <1>1, <1>4, <1>5, <1>9 DEF Reads, ll, la
<1> QED
    BY <1>4, <1>8, <1>9, <1>10 DEF m, ll, size

\* A reader of a stream that grows by a message stands where it stood.
LEMMA ReadsMore ==
    ASSUME NEW list \in Seq(Seq(Fragment)), NEW all \in Seq(Fragment),
           Messages(list, all), NEW count \in Nat \ {0},
           NEW position \in Nat, NEW read \in Nat, Reads(position, read, list, all)
    PROVE  LET m == Fragments(Len(all), count)
           IN Reads(position, read, Append(list, m), all \o m)
<1> DEFINE m == Fragments(Len(all), count)
           new == Append(list, m)
<1>1. Len(all) \in Nat /\ Len(list) \in Nat /\ count \in Nat
    BY LenProperties
<1>2. /\ \A i \in 1..Len(list) : Begin(new, i) = Begin(list, i)
      /\ Begin(new, Len(list) + 1) = Len(all)
    BY MessagesAppend
<1>3. m \in Seq(Fragment)
    BY <1>1, FragmentsFacts
<1> HIDE DEF m
<1>4. Len(new) = Len(list) + 1
    BY <1>3, AppendedList
<1> HIDE DEF new
<1>5. /\ read <= Len(list) /\ (read < Len(list) => position = Begin(list, read + 1))
      /\ (read = Len(list) => position = Len(all))
    BY DEF Reads
<1>6. read < Len(list) => read + 1 \in 1..Len(list)
    BY <1>1
<1>7. read <= Len(new) /\ read # Len(new)
    BY <1>1, <1>4, <1>5
<1>8. position = Begin(new, read + 1)
    BY <1>1, <1>2, <1>5, <1>6
<1> QED
    BY <1>7, <1>8 DEF Reads, new, m

\* What the histories and a reader's position are, and their types.
LEMMA HistoryTypes ==
    ASSUME TypeInv, TransferInv, DeliveryInv, NEW n \in Node
    PROVE  /\ sent[n] \in Seq(Seq(Fragment)) /\ delivered[n] \in Seq(Seq(Fragment))
           /\ stream[n] \in Seq(Fragment)
           /\ Len(sent[n]) \in Nat /\ Len(delivered[n]) \in Nat
           /\ ReadSoFar(n) \in Nat /\ Peer(n) \in Node /\ Peer(n) # n
           /\ Messages(sent[n], stream[n])
           /\ Reads(ReadSoFar(n), Len(delivered[n]), sent[Peer(n)], stream[Peer(n)])
           /\ Len(delivered[n]) <= Len(sent[Peer(n)])
           /\ \A i \in 1..Len(delivered[n]) : delivered[n][i] = sent[Peer(n)][i]
<1>1. /\ sent[n] \in Seq(Seq(Fragment)) /\ delivered[n] \in Seq(Seq(Fragment))
      /\ stream[n] \in Seq(Fragment) /\ rcv_queue[n] \in Seq(Fragment)
    BY DEF TypeInv, TypeOK
<1>2. /\ Len(sent[n]) \in Nat /\ Len(delivered[n]) \in Nat /\ Len(rcv_queue[n]) \in Nat
    BY <1>1, LenProperties
<1>3. rcv_nxt[n] \in Nat /\ Len(rcv_queue[n]) <= rcv_nxt[n]
    BY NumberedInStream DEF Receives
<1>4. ReadSoFar(n) \in Nat
    BY <1>2, <1>3 DEF ReadSoFar
<1>5. Peer(n) \in Node /\ Peer(n) # n
    BY PeerFacts
<1> QED
    BY <1>1, <1>2, <1>4, <1>5 DEF DeliveryInv, MessagesInv, ReaderInv, DeliveredIsPrefix

\* Nothing was sent or read yet.
LEMMA InitDelivery == Init => DeliveryInv
<1> SUFFICES ASSUME Init PROVE DeliveryInv
    OBVIOUS
<1>1. Len(<<>>) = 0 /\ \A n \in Node : Peer(n) \in Node
    BY EmptySeq, PeerFacts
<1>2. \A n \in Node : /\ sent[n] = <<>> /\ stream[n] = <<>> /\ delivered[n] = <<>>
                      /\ rcv_queue[n] = <<>> /\ rcv_nxt[n] = 0
    BY DEF Init
<1>3. \A i : i \notin 1..0
    OBVIOUS
<1>4. Messages(<<>>, <<>>) /\ Reads(0, 0, <<>>, <<>>)
    BY <1>1, <1>3 DEF Messages, Reads
<1>5. MessagesInv
    BY <1>2, <1>4 DEF MessagesInv
<1>6. \A n \in Node : ReadSoFar(n) = 0 /\ Len(delivered[n]) = 0
    BY <1>1, <1>2 DEF ReadSoFar
<1>7. ReaderInv
    BY <1>1, <1>2, <1>4, <1>6 DEF ReaderInv
<1>8. DeliveredIsPrefix
    BY <1>1, <1>2, <1>3 DEF DeliveredIsPrefix
<1> QED
    BY <1>5, <1>7, <1>8 DEF DeliveryInv

\* ikcp_send: a message more for the peer to read.
LEMMA SendDelivery ==
    ASSUME TypeInv, TransferInv, DeliveryInv, NEW n \in Node,
           NEW count \in 1..MaxFrags, Send(n, count)
    PROVE  DeliveryInv'
<1> DEFINE m == Fragments(Len(stream[n]), count)
           new == Append(sent[n], m)
           more == stream[n] \o m
<1>1. /\ stream' = [stream EXCEPT ![n] = more]
      /\ sent' = [sent EXCEPT ![n] = new]
      /\ rcv_queue' = rcv_queue /\ rcv_nxt' = rcv_nxt /\ delivered' = delivered
    BY DEF Send, rcvVars
<1>2. count \in Nat \ {0}
    BY Bounds
<1>3. Messages(new, more)
    BY <1>2, HistoryTypes, MessagesAppend
<1>4. ASSUME NEW x \in Node, Peer(x) = n
      PROVE  Reads(ReadSoFar(x), Len(delivered[x]), new, more)
  <2>1. /\ sent[n] \in Seq(Seq(Fragment)) /\ stream[n] \in Seq(Fragment)
        /\ Messages(sent[n], stream[n])
        /\ ReadSoFar(x) \in Nat /\ Len(delivered[x]) \in Nat
        /\ Reads(ReadSoFar(x), Len(delivered[x]), sent[n], stream[n])
    BY <1>4, HistoryTypes
  <2> QED
    BY <1>2, <2>1, ReadsMore
<1>5. Len(stream[n]) \in Nat /\ count \in Nat
    BY <1>2, NumberedInStream
<1>6. m \in Seq(Fragment)
    BY <1>5, FragmentsFacts
<1> HIDE DEF m
<1>7. /\ Len(sent[n]) \in Nat /\ Len(new) = Len(sent[n]) + 1
      /\ \A i \in 1..Len(sent[n]) : new[i] = sent[n][i]
  <2>1. sent[n] \in Seq(Seq(Fragment))
    BY HistoryTypes
  <2> QED
    BY <1>6, <2>1, AppendedList
<1> HIDE DEF new, more
<1>8. \A x \in Node : /\ sent'[x] = IF x = n THEN new ELSE sent[x]
                      /\ stream'[x] = IF x = n THEN more ELSE stream[x]
    BY <1>1 DEF TypeInv, TypeOK
<1>9. MessagesInv'
    BY <1>3, <1>8 DEF MessagesInv, DeliveryInv
<1>10. \A x \in Node : ReadSoFar(x)' = ReadSoFar(x) /\ delivered'[x] = delivered[x]
    BY <1>1 DEF ReadSoFar
<1>11. ReaderInv'
  <2> SUFFICES ASSUME NEW x \in Node
               PROVE  Reads(ReadSoFar(x)', Len(delivered'[x]), sent'[Peer(x)], stream'[Peer(x)])
    BY DEF ReaderInv
  <2>1. Peer(x) \in Node
    BY PeerFacts
  <2>2. CASE Peer(x) = n
    BY <1>4, <1>8, <1>10, <2>1, <2>2
  <2>3. CASE Peer(x) # n
    BY <1>8, <1>10, <2>1, <2>3 DEF DeliveryInv, ReaderInv
  <2> QED
    BY <2>2, <2>3
<1>12. DeliveredIsPrefix'
  <2> SUFFICES ASSUME NEW x \in Node
               PROVE  /\ Len(delivered[x]) <= Len(sent'[Peer(x)])
                      /\ \A i \in 1..Len(delivered[x]) : delivered[x][i] = sent'[Peer(x)][i]
    BY <1>10 DEF DeliveredIsPrefix
  <2>1. /\ Peer(x) \in Node /\ Len(delivered[x]) \in Nat
        /\ Len(delivered[x]) <= Len(sent[Peer(x)])
        /\ \A i \in 1..Len(delivered[x]) : delivered[x][i] = sent[Peer(x)][i]
    BY HistoryTypes
  <2>2. CASE Peer(x) = n
    <3>1. \A i \in 1..Len(delivered[x]) : i \in 1..Len(sent[n])
      BY <1>7, <2>1, <2>2
    <3> QED
      BY <1>7, <1>8, <2>1, <2>2, <3>1
  <2>3. CASE Peer(x) # n
    BY <1>8, <2>1, <2>3
  <2> QED
    BY <2>2, <2>3
<1> QED
    BY <1>9, <1>11, <1>12 DEF DeliveryInv

\* MoveReady reads nothing: rcv_nxt and rcv_queue grow together.
LEMMA MovedPosition ==
    ASSUME TypeInv, TransferInv, NEW n \in Node, NEW buf,
           NEW queue \in Seq(Fragment), NEW k \in Nat, NEW q \in Seq(Fragment), NEW b,
           Moved(n, buf, queue, k, q, b)
    PROVE  /\ ReadSoFar(n)' = rcv_nxt[n] - Len(queue)
           /\ \A x \in Node \ {n} : ReadSoFar(x)' = ReadSoFar(x)
<1>1. /\ rcv_queue'[n] = q /\ rcv_nxt'[n] = rcv_nxt[n] + k
      /\ \A x \in Node \ {n} : rcv_queue'[x] = rcv_queue[x] /\ rcv_nxt'[x] = rcv_nxt[x]
    BY DEF Moved, TypeInv, TypeOK
<1>2. Len(q) = Len(queue) + k
    BY DEF Moved, Takes
<1>3. Len(queue) \in Nat /\ rcv_nxt[n] \in Nat
    BY LenProperties, NumberedInStream
<1>4. (rcv_nxt[n] + k) - (Len(queue) + k) = rcv_nxt[n] - Len(queue)
    BY <1>3
<1> QED
    BY <1>1, <1>2, <1>4 DEF ReadSoFar

\* ikcp_recv: the message at the head of rcv_queue is the next one sent.
LEMMA RecvDelivery ==
    ASSUME TypeInv, TransferInv, DeliveryInv, NEW n \in Node, Recv(n)
    PROVE  DeliveryInv'
<1> DEFINE k == HeadLength(n)
           queue == rcv_queue[n]
           rest == SubSeq(queue, k + 1, Len(queue))
           head == SubSeq(queue, 1, k)
           p == Peer(n)
           read == Len(delivered[n])
           len == Len(queue)
<1>1. /\ HeadComplete(n) /\ MoveReady(n, rcv_buf[n], rest)
      /\ delivered' = [delivered EXCEPT ![n] = Append(delivered[n], head)]
      /\ sent' = sent /\ stream' = stream
    BY DEF Recv
<1>2. /\ k \in 1..len /\ \A i \in 1..(k - 1) : queue[i].frg # 0
      /\ k < len => queue[k].frg = 0
    BY <1>1, HeadFacts
<1>3. /\ rest \in Seq(Fragment) /\ Len(rest) = len - k /\ Len(rest) <= RcvWnd
      /\ head \in Seq(Fragment) /\ Len(head) = k
      /\ \A i \in 1..k : head[i] = queue[i]
    BY <1>1, RestFacts
<1>4. queue[1].frg < len
    BY <1>1 DEF HeadComplete
<1>5. /\ queue \in Seq(Fragment) /\ rcv_nxt[n] \in Nat /\ p \in Node
      /\ Receives(queue, rcv_buf[n], rcv_nxt[n], stream[p], snd_nxt[p])
      /\ Buffer(rcv_buf[n])
    BY NumberedInStream
<1>6a. PICK j \in 0..(RcvWnd - Len(rest)), q \in Seq(Fragment) :
            \E b : Moved(n, rcv_buf[n], rest, j, q, b)
    BY <1>1, <1>3, <1>5, MoveReadyFacts DEF TypeInv
<1>6. PICK b : Moved(n, rcv_buf[n], rest, j, q, b)
  BY <1>6a
<1> HIDE DEF k, queue, rest, head, p
<1>7. len \in Nat /\ Len(rest) \in Nat /\ RcvWnd \in Nat
    BY <1>3, <1>5, Windows, LenProperties
<1>8. /\ ReadSoFar(n)' = rcv_nxt[n] - Len(rest)
      /\ \A x \in Node \ {n} : ReadSoFar(x)' = ReadSoFar(x)
  <2>1. j \in Nat
    BY <1>7
  <2> QED
    BY <1>3, <1>6, <2>1, MovedPosition
<1>9. /\ sent[p] \in Seq(Seq(Fragment)) /\ stream[p] \in Seq(Fragment)
      /\ Messages(sent[p], stream[p]) /\ Len(sent[p]) \in Nat /\ Len(stream[p]) \in Nat
      /\ snd_nxt[p] \in Nat /\ snd_nxt[p] <= Len(stream[p])
    BY <1>5, HistoryTypes, NumberedInStream
<1>10. /\ ReadSoFar(n) \in Nat /\ read \in Nat /\ delivered[n] \in Seq(Seq(Fragment))
       /\ Reads(ReadSoFar(n), read, sent[p], stream[p])
       /\ \A i \in 1..read : delivered[n][i] = sent[p][i]
    BY HistoryTypes DEF p
<1>11. ReadSoFar(n) = rcv_nxt[n] - len
    BY DEF ReadSoFar, queue
<1>12. /\ ReadSoFar(n) + len <= Len(stream[p])
       /\ \A i \in 1..len : queue[i] = stream[p][ReadSoFar(n) + i]
    BY <1>5, <1>7, <1>9, <1>11 DEF Receives
<1> HIDE DEF read
<1>13. /\ read + 1 \in 1..Len(sent[p]) /\ k = Len(sent[p][read + 1])
       /\ \A i \in 1..k : queue[i] = sent[p][read + 1][i]
       /\ Reads(ReadSoFar(n) + k, read + 1, sent[p], stream[p])
  <2> HIDE DEF ReadSoFar
  <2> QED
    BY <1>2, <1>4, <1>5, <1>9, <1>10, <1>12, HeadIsNext
<1>14. head = sent[p][read + 1]
  <2> DEFINE next == sent[p][read + 1]
  <2>1. next \in Seq(Fragment) /\ Len(next) = k
    BY <1>9, <1>13, ElementOfSeq
  <2>2. \A i \in 1..k : head[i] = next[i]
    BY <1>3, <1>13
  <2>3. head \in Seq(Fragment) /\ Len(head) = k
    BY <1>3
  <2> HIDE DEF next, head
  <2>4. Len(head) = Len(next) /\ \A i \in 1..Len(head) : head[i] = next[i]
    BY <2>1, <2>2, <2>3
  <2>5. head = next
    BY <2>1, <2>3, <2>4, SeqEqual
  <2> QED
    BY <2>5 DEF next
<1>15. /\ Len(delivered'[n]) = read + 1 /\ delivered'[n][read + 1] = head
       /\ \A i \in 1..read : delivered'[n][i] = delivered[n][i]
       /\ \A x \in Node \ {n} : delivered'[x] = delivered[x]
  <2>1. delivered'[n] = Append(delivered[n], head)
    BY <1>1 DEF TypeInv, TypeOK
  <2>2. \A x \in Node \ {n} : delivered'[x] = delivered[x]
    BY <1>1 DEF TypeInv, TypeOK
  <2>3. /\ Len(Append(delivered[n], head)) = Len(delivered[n]) + 1
        /\ \A i \in 1..Len(delivered[n]) : Append(delivered[n], head)[i] = delivered[n][i]
        /\ Append(delivered[n], head)[Len(delivered[n]) + 1] = head
    BY <1>3, <1>10, AppendedList
  <2> QED
    BY <2>1, <2>2, <2>3 DEF read
<1>16. ReadSoFar(n)' = ReadSoFar(n) + k
    BY <1>2, <1>3, <1>5, <1>7, <1>8, <1>11
<1>17. MessagesInv'
    BY <1>1 DEF DeliveryInv, MessagesInv
<1>18. ReaderInv'
  <2> SUFFICES ASSUME NEW x \in Node
               PROVE  Reads(ReadSoFar(x)', Len(delivered'[x]), sent[Peer(x)], stream[Peer(x)])
    BY <1>1 DEF ReaderInv
  <2>1. CASE x = n
    BY <1>13, <1>15, <1>16, <2>1 DEF p
  <2>2. CASE x # n
    BY <1>8, <1>15, <2>2 DEF DeliveryInv, ReaderInv
  <2> QED
    BY <2>1, <2>2
<1>19. DeliveredIsPrefix'
  <2> SUFFICES ASSUME NEW x \in Node
               PROVE  /\ Len(delivered'[x]) <= Len(sent[Peer(x)])
                      /\ \A i \in 1..Len(delivered'[x]) : delivered'[x][i] = sent[Peer(x)][i]
    BY <1>1 DEF DeliveredIsPrefix
  <2>1. CASE x = n
    <3>1. read + 1 <= Len(sent[p])
      BY <1>9, <1>10, <1>13
    <3>2. \A i \in 1..(read + 1) : i \in 1..read \/ i = read + 1
      BY <1>10
    <3>3. \A i \in 1..(read + 1) : delivered'[n][i] = sent[p][i]
      BY <1>10, <1>14, <1>15, <3>2
    <3> QED
      BY <1>15, <2>1, <3>1, <3>3 DEF p
  <2>2. CASE x # n
    <3>1. delivered'[x] = delivered[x]
      BY <1>15, <2>2
    <3>2. /\ Len(delivered[x]) <= Len(sent[Peer(x)])
          /\ \A i \in 1..Len(delivered[x]) : delivered[x][i] = sent[Peer(x)][i]
      BY DEF DeliveryInv, DeliveredIsPrefix
    <3> QED
      BY <3>1, <3>2
  <2> QED
    BY <2>1, <2>2
<1> QED
    BY <1>17, <1>18, <1>19 DEF DeliveryInv

\* A step that neither sends nor reads a message.
LEMMA HistoriesKept ==
    ASSUME DeliveryInv, stream' = stream, sent' = sent, delivered' = delivered,
           \A x \in Node : ReadSoFar(x)' = ReadSoFar(x)
    PROVE  DeliveryInv'
<1>1. MessagesInv' /\ DeliveredIsPrefix'
    BY DEF DeliveryInv, MessagesInv, DeliveredIsPrefix
<1>2. ReaderInv'
    BY DEF DeliveryInv, ReaderInv
<1> QED
    BY <1>1, <1>2 DEF DeliveryInv

\* ikcp_input: what a PUSH brings goes to rcv_queue and is not read yet.
LEMMA InputDelivery ==
    ASSUME TypeInv, TransferInv, DeliveryInv, NEW n \in Node, NEW s \in net, Input(n, s)
    PROVE  DeliveryInv'
<1>1. stream' = stream /\ sent' = sent /\ delivered' = delivered
    BY DEF Input, InputAck, InputPush, InputWask, InputWins, Header, userVars
<1>2. CASE UNCHANGED rcvVars
    BY <1>1, <1>2, HistoriesKept DEF rcvVars, ReadSoFar
<1>3. CASE s.cmd = "PUSH" /\ Accepted(n, s)
  <2> DEFINE w == WithSegment(n, s)
  <2>1. MoveReady(n, w, rcv_queue[n])
    BY <1>3 DEF Accepted
  <2>2. Buffer(w)
    BY <1>3, WithSegmentFacts
  <2> HIDE DEF w
  <2>3. /\ rcv_queue[n] \in Seq(Fragment) /\ Len(rcv_queue[n]) <= RcvWnd
        /\ Len(rcv_queue[n]) \in Nat /\ RcvWnd \in Nat /\ TypeOK
    BY Windows, LenProperties DEF TypeInv, TypeOK, QueueBound
  <2>4a. PICK j \in 0..(RcvWnd - Len(rcv_queue[n])), q \in Seq(Fragment) :
            \E b : Moved(n, w, rcv_queue[n], j, q, b)
    BY <2>1, <2>2, <2>3, MoveReadyFacts
  <2>4. PICK b : Moved(n, w, rcv_queue[n], j, q, b)
    BY <2>4a
  <2>5. j \in Nat
    BY <2>3
  <2>6. \A x \in Node : ReadSoFar(x)' = ReadSoFar(x)
    BY <2>3, <2>4, <2>5, MovedPosition DEF ReadSoFar
  <2> QED
    BY <1>1, <2>6, HistoriesKept
<1>4. UNCHANGED rcvVars \/ (s.cmd = "PUSH" /\ Accepted(n, s))
    BY DEF Input, InputAck, InputPush, InputWask, InputWins, Beyond, Repeated
<1> QED
    BY <1>2, <1>3, <1>4

\* Every step keeps the histories in order.
LEMMA NextDelivery ==
    TypeInv /\ TransferInv /\ DeliveryInv /\ [Next]_vars => DeliveryInv'
<1> SUFFICES ASSUME TypeInv, TransferInv, DeliveryInv, [Next]_vars PROVE DeliveryInv'
    OBVIOUS
<1>1. ASSUME NEW n \in Node, NEW count \in 1..MaxFrags, Send(n, count)
      PROVE  DeliveryInv'
    BY <1>1, SendDelivery
<1>2. ASSUME NEW n \in Node, Recv(n) PROVE DeliveryInv'
    BY <1>2, RecvDelivery
<1>3. ASSUME NEW n \in Node, NEW late \in SUBSET DOMAIN snd_buf[n],
             NEW due \in BOOLEAN, Flush(n, late, due)
      PROVE  DeliveryInv'
    BY <1>3, HistoriesKept DEF Flush, rcvVars, userVars, ReadSoFar
<1>4. ASSUME NEW n \in Node, NEW s \in net, Input(n, s) PROVE DeliveryInv'
    BY <1>4, InputDelivery
<1>5. ASSUME NEW s \in net, Lose(s) PROVE DeliveryInv'
    BY <1>5, HistoriesKept DEF Lose, rcvVars, userVars, ReadSoFar
<1>6. CASE UNCHANGED vars
    BY <1>6, HistoriesKept DEF vars, rcvVars, userVars, ReadSoFar
<1> QED
    BY <1>1, <1>2, <1>3, <1>4, <1>5, <1>6 DEF Next

\* The messages are cut from the stream in order, and every reader stands at the
\* beginning of the message it reads next.
THEOREM DeliveryCorrect == Spec => []DeliveryInv
<1>1. Init => TypeInv /\ TransferInv /\ DeliveryInv
    BY InitTypes, InitTransfer, InitDelivery
<1>2. TypeInv /\ TransferInv /\ DeliveryInv /\ [Next]_vars
        => TypeInv' /\ TransferInv' /\ DeliveryInv'
    BY NextTypes, NextTransfer, NextDelivery
<1> QED
    BY <1>1, <1>2, PTL DEF Spec

\* ikcp_recv hands over what ikcp_send took: every message whole, once and in
\* order, for all windows, message sizes and losses.
THEOREM DeliveredInOrder == Spec => []DeliveredIsPrefix
<1>1. DeliveryInv => DeliveredIsPrefix
    BY DEF DeliveryInv
<1> QED
    BY <1>1, DeliveryCorrect, PTL
----------------------------------------------------------------------------
(* The protocol implements the reliable channel *)

\* ikcp_send is the channel's Send.
LEMMA SendRefines ==
    ASSUME TypeInv, TransferInv, NEW n \in Node, NEW count \in 1..MaxFrags, Send(n, count)
    PROVE  Channel!Send(n)
<1> DEFINE m == Fragments(Len(stream[n]), count)
<1>1. /\ sent' = [sent EXCEPT ![n] = Append(sent[n], m)] /\ delivered' = delivered
      /\ Len(stream[n]) + count <= MaxStream[n]
    BY DEF Send
<1>2. Len(stream[n]) \in Nat /\ count \in Nat /\ MaxStream[n] \in Nat
    BY Bounds, NumberedInStream
<1>3. Len(stream[n]) \in 0..MaxStream[n]
    BY <1>1, <1>2
<1>4. m \in Message
    BY <1>3 DEF Message
<1> HIDE DEF m
<1> QED
    BY <1>1, <1>4 DEF Channel!Send

\* ikcp_recv is the channel's Deliver.
LEMMA RecvRefines ==
    ASSUME TypeInv, TransferInv, DeliveryInv, NEW n \in Node, Recv(n)
    PROVE  Channel!Deliver(n, Peer(n))
<1> DEFINE k == HeadLength(n)
           head == SubSeq(rcv_queue[n], 1, k)
           p == Peer(n)
           read == Len(delivered[n])
<1>1. /\ delivered' = [delivered EXCEPT ![n] = Append(delivered[n], head)]
      /\ sent' = sent /\ HeadComplete(n)
    BY DEF Recv
<1>2. head \in Seq(Fragment)
    BY <1>1, RestFacts
<1>3. /\ delivered[n] \in Seq(Seq(Fragment)) /\ read \in Nat
      /\ p \in Node /\ p # n /\ Len(sent[p]) \in Nat
    BY HistoryTypes
<1> HIDE DEF head, p
<1>4. /\ Len(Append(delivered[n], head)) = read + 1
      /\ Append(delivered[n], head)[read + 1] = head
    BY <1>2, <1>3, AppendedList
<1>5. delivered'[n] = Append(delivered[n], head)
    BY <1>1 DEF TypeInv, TypeOK
<1>6. /\ Len(delivered'[n]) <= Len(sent[p])
      /\ \A i \in 1..Len(delivered'[n]) : delivered'[n][i] = sent[p][i]
  <2>1. DeliveryInv'
    BY RecvDelivery
  <2> QED
    BY <1>1, <2>1 DEF DeliveryInv, DeliveredIsPrefix, p
<1> HIDE DEF read
<1>7. read + 1 \in 1..(read + 1) /\ read < Len(sent[p])
    BY <1>3, <1>4, <1>5, <1>6
<1>8. head = sent[p][read + 1]
    BY <1>4, <1>5, <1>6, <1>7
<1> QED
    BY <1>1, <1>3, <1>7, <1>8 DEF Channel!Deliver, p, read

\* The retransmission protocol does for its users what a channel does that
\* neither loses nor reorders: every ikcp_recv that returns a message returns
\* the next one the peer sent.
THEOREM RefinesChannel == Spec => Channel!Spec
<1>1. Init => Channel!Init
    BY DEF Init, Channel!Init
<1>2. TypeInv /\ TransferInv /\ DeliveryInv /\ [Next]_vars => [Channel!Next]_(Channel!vars)
  <2> SUFFICES ASSUME TypeInv, TransferInv, DeliveryInv, [Next]_vars
               PROVE  Channel!Next \/ UNCHANGED <<sent, delivered>>
    BY DEF Channel!vars
  <2>1. ASSUME NEW n \in Node, NEW count \in 1..MaxFrags, Send(n, count)
        PROVE  Channel!Next
    BY <2>1, SendRefines DEF Channel!Next
  <2>2. ASSUME NEW n \in Node, Recv(n) PROVE Channel!Next
    BY <2>2, RecvRefines, PeerFacts DEF Channel!Next
  <2>3. ASSUME NEW n \in Node, NEW late \in SUBSET DOMAIN snd_buf[n],
               NEW due \in BOOLEAN, Flush(n, late, due)
        PROVE  UNCHANGED <<sent, delivered>>
    BY <2>3 DEF Flush, userVars
  <2>4. ASSUME NEW n \in Node, NEW s \in net, Input(n, s)
        PROVE  UNCHANGED <<sent, delivered>>
    BY <2>4 DEF Input, InputAck, InputPush, InputWask, InputWins, Header, userVars
  <2>5. ASSUME NEW s \in net, Lose(s) PROVE UNCHANGED <<sent, delivered>>
    BY <2>5 DEF Lose, userVars
  <2>6. CASE UNCHANGED vars
    BY <2>6 DEF vars, userVars
  <2> QED
    BY <2>1, <2>2, <2>3, <2>4, <2>5, <2>6 DEF Next
<1>3. Spec => []TypeInv /\ []TransferInv /\ []DeliveryInv
    BY TypeCorrect, TransferCorrect, DeliveryCorrect, PTL
<1> QED
    BY <1>1, <1>2, <1>3, PTL DEF Spec, Channel!Spec
===========================================================================
