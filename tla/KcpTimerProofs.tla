--------------------------- MODULE KcpTimerProofs ---------------------------
(***************************************************************************)
(* The clock of a control block for every width of the timestamps, every   *)
(* interval and every delay of the caller's loop.                          *)
(***************************************************************************)
EXTENDS KcpTimer, WellFoundedInduction, TLAPS

----------------------------------------------------------------------------
(* Arithmetic of timestamps *)

\* The remainder is the one number in range that differs by a multiple.
LEMMA Remainder ==
    ASSUME NEW a \in Int, NEW k \in Int, NEW r \in 0..(W - 1), a = k * W + r
    PROVE  a % W = r
  BY Clock, SMT

\* The clock has two halves.
LEMMA Halves == /\ W \in Nat \ {0} /\ W \div 2 \in Nat \ {0} /\ W = 2 * (W \div 2)
                /\ Jump \in 1..(W \div 2 - 1) /\ Interval \in 1..(Jump - 1)
  BY Clock

\* A timestamp has as many values as the clock.
LEMMA Stamped == ASSUME NEW a \in Int PROVE a % W \in 0..(W - 1)
  BY Clock

\* Multiples of W do not show.
LEMMA Wraps ==
    ASSUME NEW a \in Int, NEW k \in Int
    PROVE  (a + k * W) % W = a % W
<1> DEFINE q == a \div W
           r == a % W
<1>1. q \in Int /\ r \in 0..(W - 1) /\ a = q * W + r
  BY Clock
<1> HIDE DEF q, r
<1>2. a + k * W = (q + k) * W + r /\ q + k \in Int /\ a + k * W \in Int
  BY <1>1, Clock
<1>3. (a + k * W) % W = r
  BY <1>1, <1>2, Remainder
<1> QED
  BY <1>3 DEF r

\* Adding to a timestamp and wrapping is the timestamp of the later time.
LEMMA StampAdds ==
    ASSUME NEW a \in Int, NEW d \in Int
    PROVE  ((a % W) + d) % W = (a + d) % W
<1> DEFINE q == a \div W
           r == a % W
<1>1. q \in Int /\ r \in 0..(W - 1) /\ a = q * W + r
  BY Clock
<1> HIDE DEF q, r
<1>2. a + d = (r + d) + q * W /\ r + d \in Int
  BY <1>1, Clock
<1>3. (a + d) % W = (r + d) % W
  BY <1>1, <1>2, Wraps
<1> QED
  BY <1>3 DEF r

\* A difference is a signed number of the clock's width.
LEMMA DiffRange ==
    ASSUME NEW x \in Int, NEW y \in Int
    PROVE  TimeDiff(x, y) \in (-(W \div 2))..(W \div 2 - 1)
<1>1. x - y + W \div 2 \in Int
  BY Halves
<1>2. (x - y + W \div 2) % W \in 0..(W - 1)
  BY <1>1, Stamped
<1> QED
  BY <1>2, Halves DEF TimeDiff

\* _itimediff is exact for times less than half the clock apart, wherever it wraps.
LEMMA DiffExact ==
    ASSUME NEW a \in Int, NEW b \in Int, a - b \in (-(W \div 2))..(W \div 2 - 1)
    PROVE  TimeDiff(a % W, b % W) = a - b
<1> DEFINE p == a \div W
           q == b \div W
           H == W \div 2
           x == a % W
           y == b % W
<1>1. /\ p \in Int /\ q \in Int /\ H \in Int /\ x \in Int /\ y \in Int
      /\ a = p * W + x /\ b = q * W + y
  BY Clock
<1>2. a - b + H \in 0..(W - 1)
  BY Halves
<1> HIDE DEF p, q, x, y
<1>3. x - y + H = (q - p) * W + (a - b + H) /\ q - p \in Int /\ x - y + H \in Int
  BY <1>1, Clock
<1>4. (x - y + H) % W = a - b + H
  BY <1>2, <1>3, Remainder
<1>5. ((x - y + H) % W) - H = a - b
  BY <1>1, <1>4
<1> QED
  BY <1>5 DEF x, y, TimeDiff

\* So the difference of two readings of the clock is that of their times.
LEMMA StampDiff ==
    ASSUME origin \in Int, NEW a \in Int, NEW b \in Int, NEW d \in (-(W \div 2))..(W \div 2 - 1),
           a - b = d
    PROVE  TimeDiff(Stamp(a), Stamp(b)) = d
<1> DEFINE x == origin + a
           y == origin + b
<1>1. x \in Int /\ y \in Int /\ x - y = d
  BY Halves
<1> HIDE DEF x, y
<1>2. TimeDiff(x % W, y % W) = d
  BY <1>1, DiffExact
<1> QED
  BY <1>2 DEF x, y, Stamp

\* ikcp_update's limit for a jump of the clock is well inside its half.
LEMMA NoDeviation ==
    ASSUME NEW x \in Int, NEW y \in Int
    PROVE  Deviates(x, y) <=> TimeDiff(x, y) \notin (-Jump)..(Jump - 1)
<1>1. TimeDiff(x, y) \in Int /\ Jump \in Int
  BY DiffRange, Halves
<1> QED
  BY <1>1 DEF Deviates

----------------------------------------------------------------------------
(* Types *)

SegmentType == [xmit : Nat \ {0}, rto : Nat, ts : 0..(W - 1), resendts : 0..(W - 1),
                fastack : Nat]

ClockTypes ==
    /\ origin \in 0..(W - 1) /\ current \in 0..(W - 1) /\ ts_flush \in 0..(W - 1)
    /\ updated \in BOOLEAN /\ time \in 0..MaxTime /\ flushed \in -1..time

RttTypes == rx_srtt \in Nat /\ rx_rttval \in Nat /\ rx_rto \in RtoMin..RtoMax

BufferTypes ==
    /\ queued \in Nat /\ snd_nxt \in Nat
    /\ DOMAIN snd_buf \subseteq 0..(snd_nxt - 1)
    /\ snd_buf \in [DOMAIN snd_buf -> SegmentType]
    /\ sentAt \in [DOMAIN snd_buf -> Nat]
    /\ skips \in [DOMAIN snd_buf -> Nat]
    /\ inFlight \subseteq [sn : Nat, at : Nat]

Types == ClockTypes /\ RttTypes /\ BufferTypes

\* At first there are no segments.
LEMMA TypesInit == Init => Types
  BY Clock, Rto, Bounds
  DEF Init, Types, ClockTypes, RttTypes, BufferTypes, SegmentType

\* What ikcp_flush makes of a segment, old or new, is a segment.
LEMMA FlushedType ==
    ASSUME NEW seg \in [xmit : Nat, rto : Nat, ts : 0..(W - 1), resendts : 0..(W - 1),
                        fastack : Nat],
           NEW now \in 0..(W - 1), rx_rto \in Nat
    PROVE  Flushed(seg, now) \in SegmentType
<1>1. ASSUME NEW rto \in Nat PROVE Transmit(seg, now, rto) \in SegmentType
  <2>1. (now + rto) % W \in 0..(W - 1) /\ seg.xmit + 1 \in Nat \ {0}
    BY Stamped
  <2>2. \A stamp \in 0..(W - 1), n \in Nat \ {0} :
            [seg EXCEPT !.xmit = n, !.rto = rto, !.ts = now, !.resendts = stamp] \in SegmentType
    BY DEF SegmentType
  <2> QED
    BY <2>1, <2>2 DEF Transmit
<1>2. seg.rto + seg.rto \div 2 \in Nat
  OBVIOUS
<1>3. [Transmit(seg, now, seg.rto) EXCEPT !.fastack = 0] \in SegmentType
  BY <1>1 DEF SegmentType
<1>4. seg.xmit # 0 => seg \in SegmentType
  BY DEF SegmentType
<1> QED
  BY <1>1, <1>2, <1>3, <1>4 DEF Flushed
----------------------------------------------------------------------------
(* What one flush does to one segment *)

Sent(seg, old, now, rto) ==
    /\ seg.xmit = old.xmit + 1 /\ seg.rto = rto /\ seg.ts = now
    /\ seg.resendts = (now + rto) % W

FirstSent(sn, t, now) ==
    /\ sn \notin DOMAIN snd_buf
    /\ Sent(snd_buf'[sn], NewSegment(now), now, rx_rto) /\ snd_buf'[sn].fastack = 0
    /\ sentAt'[sn] = t /\ skips'[sn] = 0

TimedOut(sn, t, now) ==
    /\ sn \in DOMAIN snd_buf /\ Late(snd_buf[sn], now)
    /\ Sent(snd_buf'[sn], snd_buf[sn], now, snd_buf[sn].rto + snd_buf[sn].rto \div 2)
    /\ snd_buf'[sn].fastack = snd_buf[sn].fastack
    /\ sentAt'[sn] = t /\ skips'[sn] = skips[sn]

FastResent(sn, t, now) ==
    /\ sn \in DOMAIN snd_buf /\ ~Late(snd_buf[sn], now) /\ PassedOver(snd_buf[sn])
    /\ Sent(snd_buf'[sn], snd_buf[sn], now, snd_buf[sn].rto) /\ snd_buf'[sn].fastack = 0
    /\ sentAt'[sn] = t /\ skips'[sn] \in {0, skips[sn]}

LeftAlone(sn, now) ==
    /\ sn \in DOMAIN snd_buf /\ ~Late(snd_buf[sn], now)
    /\ snd_buf'[sn] = snd_buf[sn] /\ sentAt'[sn] = sentAt[sn] /\ skips'[sn] = skips[sn]

\* The segments after a flush are those before and the new ones, and each of them goes
\* out for one of three reasons or stays as it is.
LEMMA FlushCases ==
    ASSUME BufferTypes, rx_rto \in Nat \ {0}, NEW t \in Nat, NEW now \in 0..(W - 1), Flush(t, now)
    PROVE  /\ DOMAIN snd_buf' = DOMAIN snd_buf \cup snd_nxt..(snd_nxt + queued - 1)
           /\ snd_buf' \in [DOMAIN snd_buf' -> SegmentType]
           /\ sentAt' \in [DOMAIN snd_buf' -> Nat] /\ skips' \in [DOMAIN snd_buf' -> Nat]
           /\ \A sn \in DOMAIN snd_buf' :
                 \/ FirstSent(sn, t, now) \/ TimedOut(sn, t, now)
                 \/ FastResent(sn, t, now) \/ LeftAlone(sn, now)
<1> DEFINE D == DOMAIN snd_buf \cup snd_nxt..(snd_nxt + queued - 1)
           old(sn) == IF sn \in DOMAIN snd_buf THEN snd_buf[sn] ELSE NewSegment(now)
<1>1. /\ DOMAIN snd_buf' = D /\ DOMAIN sentAt' = D /\ DOMAIN skips' = D
      /\ snd_buf' = [sn \in D |-> Flushed(old(sn), now)]
      /\ \A sn \in D :
            /\ sentAt'[sn] = IF Flushed(old(sn), now).xmit > old(sn).xmit THEN t ELSE sentAt[sn]
            /\ skips'[sn] = IF sn \notin DOMAIN snd_buf \/ snd_buf'[sn].fastack < old(sn).fastack
                            THEN 0 ELSE skips[sn]
      /\ sentAt' = [sn \in D |-> sentAt'[sn]] /\ skips' = [sn \in D |-> skips'[sn]]
  BY DEF Flush, BufferTypes
<1>2. ASSUME NEW sn \in D
      PROVE  /\ snd_buf'[sn] = Flushed(old(sn), now) /\ snd_buf'[sn] \in SegmentType
             /\ old(sn) \in [xmit : Nat, rto : Nat, ts : 0..(W - 1), resendts : 0..(W - 1),
                             fastack : Nat]
             /\ sn \in DOMAIN snd_buf => old(sn) = snd_buf[sn] /\ snd_buf[sn] \in SegmentType
                                         /\ skips[sn] \in Nat
             /\ sn \notin DOMAIN snd_buf => old(sn) = NewSegment(now)
  <2>1. old(sn) \in [xmit : Nat, rto : Nat, ts : 0..(W - 1), resendts : 0..(W - 1),
                     fastack : Nat]
    BY DEF BufferTypes, NewSegment, SegmentType
  <2> QED
    BY <1>1, <2>1, FlushedType DEF BufferTypes
<1> HIDE DEF D, old
<1>3. ASSUME NEW sn \in D
      PROVE  \/ FirstSent(sn, t, now) \/ TimedOut(sn, t, now)
             \/ FastResent(sn, t, now) \/ LeftAlone(sn, now)
  <2> DEFINE seg == snd_buf'[sn]
  <2>1. ASSUME NEW o \in [xmit : Nat, rto : Nat, ts : 0..(W - 1), resendts : 0..(W - 1),
                          fastack : Nat], NEW rto \in Nat
        PROVE  Sent(Transmit(o, now, rto), o, now, rto) /\ Transmit(o, now, rto).fastack = o.fastack
    BY DEF Sent, Transmit
  <2>2. CASE sn \notin DOMAIN snd_buf
    <3>1. old(sn) = NewSegment(now) /\ old(sn).xmit = 0 /\ old(sn).fastack = 0
      BY <1>2, <2>2 DEF NewSegment
    <3>2. seg = Transmit(old(sn), now, rx_rto)
      BY <1>2, <3>1 DEF Flushed
    <3>3. Sent(seg, old(sn), now, rx_rto) /\ seg.fastack = 0
      BY <1>2, <2>1, <3>1, <3>2
    <3> QED
      BY <1>1, <1>2, <2>2, <3>1, <3>3 DEF FirstSent, Sent
  <2>3. CASE sn \in DOMAIN snd_buf
    <3>1. /\ old(sn) = snd_buf[sn] /\ snd_buf[sn].xmit \in Nat \ {0} /\ snd_buf[sn].rto \in Nat
          /\ snd_buf[sn].fastack \in Nat /\ skips[sn] \in Nat
      BY <1>2, <2>3 DEF SegmentType
    <3>2. CASE Late(snd_buf[sn], now)
      <4>1. seg = Transmit(old(sn), now, snd_buf[sn].rto + snd_buf[sn].rto \div 2)
        BY <1>2, <3>1, <3>2 DEF Flushed
      <4>2. snd_buf[sn].rto + snd_buf[sn].rto \div 2 \in Nat
        BY <3>1
      <4>3. /\ Sent(seg, old(sn), now, snd_buf[sn].rto + snd_buf[sn].rto \div 2)
            /\ seg.fastack = snd_buf[sn].fastack
        BY <1>2, <2>1, <3>1, <4>1, <4>2
      <4> QED
        BY <1>1, <1>2, <2>3, <3>1, <3>2, <4>3 DEF TimedOut, Sent
    <3>3. CASE ~Late(snd_buf[sn], now) /\ PassedOver(snd_buf[sn])
      <4>1. seg = [Transmit(old(sn), now, snd_buf[sn].rto) EXCEPT !.fastack = 0]
        BY <1>2, <3>1, <3>3 DEF Flushed
      <4>2. Sent(seg, old(sn), now, snd_buf[sn].rto) /\ seg.fastack = 0
        BY <1>2, <3>1, <4>1 DEF Sent, Transmit
      <4> QED
        BY <1>1, <1>2, <2>3, <3>1, <3>3, <4>2 DEF FastResent, Sent
    <3>4. CASE ~Late(snd_buf[sn], now) /\ ~PassedOver(snd_buf[sn])
      <4>1. seg = snd_buf[sn]
        BY <1>2, <3>1, <3>4 DEF Flushed
      <4> QED
        BY <1>1, <1>2, <2>3, <3>1, <3>4, <4>1 DEF LeftAlone
    <3> QED
      BY <3>2, <3>3, <3>4
  <2> QED
    BY <2>2, <2>3
<1>4. ASSUME NEW sn \in D PROVE sentAt'[sn] \in Nat /\ skips'[sn] \in Nat
  BY <1>3 DEF FirstSent, TimedOut, FastResent, LeftAlone, BufferTypes
<1> QED
  BY <1>1, <1>2, <1>3, <1>4 DEF D

\* The types survive a flush and what is sent by it.
LEMMA FlushTyped ==
    ASSUME BufferTypes, rx_rto \in Nat \ {0}, NEW t \in Nat, NEW now \in 0..(W - 1), Flush(t, now)
    PROVE  BufferTypes'
<1>1. queued' = 0 /\ snd_nxt' = snd_nxt + queued /\ snd_nxt' \in Nat
  BY DEF Flush, BufferTypes
<1>2. DOMAIN snd_buf' \subseteq 0..(snd_nxt' - 1)
  BY <1>1, FlushCases DEF BufferTypes
<1>3. inFlight' \subseteq [sn : Nat, at : Nat]
  <2>1. ASSUME NEW ack \in inFlight'
        PROVE  ack \in inFlight \/ \E sn \in DOMAIN snd_buf' : ack = [sn |-> sn, at |-> t]
    BY DEF Flush
  <2>2. DOMAIN snd_buf' \subseteq Nat
    BY <1>1, <1>2
  <2> QED
    BY <2>1, <2>2 DEF BufferTypes
<1> QED
  BY <1>1, <1>2, <1>3, FlushCases DEF BufferTypes
----------------------------------------------------------------------------
(* The other steps *)

\* The greatest and the least of two numbers.
LEMMA GreaterOf ==
    ASSUME NEW a \in Int, NEW b \in Int
    PROVE  Max({a, b}) \in {a, b} /\ Max({a, b}) >= a /\ Max({a, b}) >= b
<1>1. \E x \in {a, b} : \A y \in {a, b} : x >= y
  OBVIOUS
<1>2. Max({a, b}) \in {a, b} /\ \A y \in {a, b} : Max({a, b}) >= y
  BY <1>1, Zenon DEF Max
<1> QED
  BY <1>2

LEMMA LesserOf ==
    ASSUME NEW a \in Int, NEW b \in Int
    PROVE  Min({a, b}) \in {a, b} /\ Min({a, b}) <= a /\ Min({a, b}) <= b
<1>1. \E x \in {a, b} : \A y \in {a, b} : x <= y
  OBVIOUS
<1>2. Min({a, b}) \in {a, b} /\ \A y \in {a, b} : Min({a, b}) <= y
  BY <1>1, Zenon DEF Min
<1> QED
  BY <1>2

\* _ibound_ returns a number in its bounds.
LEMMA BoundedRange ==
    ASSUME NEW low \in Int, NEW x \in Int, NEW high \in Int, low <= high
    PROVE  Bounded(low, x, high) \in low..high
<1>1. Max({low, x}) \in Int /\ Max({low, x}) >= low
  BY GreaterOf
<1>2. Min({Max({low, x}), high}) \in {Max({low, x}), high} /\ Min({Max({low, x}), high}) <= high
  BY <1>1, LesserOf
<1>3. Bounded(low, x, high) = Min({Max({low, x}), high})
  BY DEF Bounded
<1> QED
  BY <1>1, <1>2, <1>3

\* ikcp_update_ack keeps rx_rto in its bounds.
LEMMA RttTyped ==
    ASSUME RttTypes, NEW rtt \in Nat, UpdateAck(rtt)
    PROVE  RttTypes'
<1> DEFINE delta == IF rtt >= rx_srtt THEN rtt - rx_srtt ELSE rx_srtt - rtt
           srtt == IF rx_srtt = 0 THEN rtt ELSE Max({1, (7 * rx_srtt + rtt) \div 8})
           rttval == IF rx_srtt = 0 THEN rtt \div 2 ELSE (3 * rx_rttval + delta) \div 4
<1>1. rx_srtt \in Nat /\ rx_rttval \in Nat
  BY DEF RttTypes
<1>2. delta \in Nat
  BY <1>1
<1>3. rttval \in Nat
  BY <1>1, <1>2
<1>4. (7 * rx_srtt + rtt) \div 8 \in Nat
  BY <1>1
<1>5. srtt \in Nat
  <2>1. ASSUME NEW n \in Nat PROVE Max({1, n}) \in Nat
    BY GreaterOf
  <2> QED
    BY <1>4, <2>1
<1>6. Max({Interval, 4 * rttval}) \in Int
  <2>1. ASSUME NEW n \in Int PROVE Max({Interval, n}) \in Int
    BY GreaterOf, Halves
  <2>2. 4 * rttval \in Int
    BY <1>3
  <2> QED
    BY <2>1, <2>2
<1>7. rx_srtt' = srtt /\ rx_rttval' = rttval
      /\ rx_rto' = Bounded(RtoMin, srtt + Max({Interval, 4 * rttval}), RtoMax)
  BY DEF UpdateAck
<1> HIDE DEF srtt, rttval
<1>8. rx_rto' \in RtoMin..RtoMax
  <2>1. RtoMin \in Int /\ RtoMax \in Int /\ RtoMin <= RtoMax
    BY Rto
  <2>2. srtt + Max({Interval, 4 * rttval}) \in Int
    BY <1>5, <1>6
  <2> QED
    BY <1>7, <2>1, <2>2, BoundedRange
<1> QED
  BY <1>3, <1>5, <1>7, <1>8 DEF RttTypes

\* An acknowledgement takes segments from snd_buf and changes of the others no more
\* than the count of those that passed them over.
LEMMA AckCases ==
    ASSUME Types, NEW ack \in inFlight, NEW una, InputAck(ack, una)
    PROVE  /\ UNCHANGED <<flushVars, queued, snd_nxt, origin>> /\ inFlight' \subseteq inFlight
           /\ DOMAIN snd_buf' \subseteq DOMAIN snd_buf
           /\ RttTypes' /\ BufferTypes'
           /\ \A sn \in DOMAIN snd_buf' :
                 /\ snd_buf'[sn].xmit = snd_buf[sn].xmit /\ snd_buf'[sn].rto = snd_buf[sn].rto
                 /\ snd_buf'[sn].ts = snd_buf[sn].ts
                 /\ snd_buf'[sn].resendts = snd_buf[sn].resendts
                 /\ sentAt'[sn] = sentAt[sn]
                 /\ snd_buf'[sn].fastack =
                        snd_buf[sn].fastack
                            + IF sn < ack.sn /\ Counts(snd_buf[sn], Stamp(ack.at)) THEN 1 ELSE 0
                 /\ skips'[sn] = skips[sn] + IF sn < ack.sn /\ ack.at >= sentAt[sn] THEN 1 ELSE 0
<1> DEFINE ts == Stamp(ack.at)
           rest == {sn \in DOMAIN snd_buf : sn >= una /\ sn # ack.sn}
<1>1. /\ UNCHANGED <<flushVars, queued, snd_nxt, origin>> /\ inFlight' \subseteq inFlight
      /\ DOMAIN snd_buf' = rest /\ rest \subseteq DOMAIN snd_buf
      /\ snd_buf' = [sn \in rest |->
              IF sn < ack.sn /\ Counts(snd_buf[sn], ts)
              THEN [snd_buf[sn] EXCEPT !.fastack = @ + 1] ELSE snd_buf[sn]]
      /\ sentAt' = [sn \in rest |-> sentAt[sn]]
      /\ skips' = [sn \in rest |->
              IF sn < ack.sn /\ ack.at >= sentAt[sn] THEN skips[sn] + 1 ELSE skips[sn]]
  BY DEF InputAck, Restrict
<1>2. \A sn \in DOMAIN snd_buf :
          /\ snd_buf[sn] \in SegmentType /\ sentAt[sn] \in Nat /\ skips[sn] \in Nat
          /\ [snd_buf[sn] EXCEPT !.fastack = @ + 1] \in SegmentType
  BY DEF Types, BufferTypes, SegmentType
<1>3. RttTypes'
  <2>1. ts \in Int /\ current \in Int
    <3>1. ack.at \in Nat /\ origin \in Nat
      BY Clock DEF Types, BufferTypes, ClockTypes
    <3> QED
      BY <3>1, Stamped DEF Types, ClockTypes, Stamp
  <2>2. TimeDiff(current, ts) \in Int
    BY <2>1, DiffRange
  <2>3. CASE TimeDiff(current, ts) >= 0
    BY <2>2, <2>3, RttTyped DEF InputAck, Types
  <2>4. CASE ~(TimeDiff(current, ts) >= 0)
    BY <2>4 DEF InputAck, Types, RttTypes, rttVars
  <2> QED
    BY <2>3, <2>4
<1> HIDE DEF rest, ts
<1>4. BufferTypes'
  BY <1>1, <1>2 DEF Types, BufferTypes
<1>5. ASSUME NEW sn \in DOMAIN snd_buf'
      PROVE  /\ snd_buf'[sn].xmit = snd_buf[sn].xmit /\ snd_buf'[sn].rto = snd_buf[sn].rto
             /\ snd_buf'[sn].ts = snd_buf[sn].ts
             /\ snd_buf'[sn].resendts = snd_buf[sn].resendts
             /\ sentAt'[sn] = sentAt[sn]
             /\ snd_buf'[sn].fastack =
                    snd_buf[sn].fastack + IF sn < ack.sn /\ Counts(snd_buf[sn], ts) THEN 1 ELSE 0
             /\ skips'[sn] = skips[sn] + IF sn < ack.sn /\ ack.at >= sentAt[sn] THEN 1 ELSE 0
  <2>1. snd_buf[sn].fastack \in Nat /\ skips[sn] \in Nat /\ sn \in rest
    BY <1>1, <1>2 DEF SegmentType
  <2>2. snd_buf[sn] \in SegmentType
    BY <1>1, <1>2
  <2> QED
    BY <1>1, <2>1, <2>2 DEF SegmentType
<1> QED
  BY <1>1, <1>3, <1>4, <1>5 DEF ts

\* No call of the program and no acknowledgement leaves the types.
LEMMA TypesNext == Types /\ [Next]_vars => Types'
<1> SUFFICES ASSUME Types, [Next]_vars PROVE Types'
  OBVIOUS
<1>1. CASE Send
  BY <1>1 DEF Send, Types, ClockTypes, RttTypes, BufferTypes, flushVars, rttVars
<1>2. ASSUME NEW gap \in Gaps, Update(gap) PROVE Types'
  <2>1. gap \in Nat /\ origin \in Nat /\ time \in Nat /\ current \in Int /\ ts_flush \in 0..(W - 1)
        /\ Interval \in Int /\ rx_rto \in Nat \ {0} /\ MaxTime \in Nat
    BY Clock, Rto, Bounds DEF Types, ClockTypes, RttTypes
  <2>2. Stamp(time + gap) \in 0..(W - 1)
    BY <2>1, Stamped DEF Stamp
  <2>3. \A due \in 0..(W - 1), now \in 0..(W - 1) : Schedule(due, now) \in 0..(W - 1)
    BY <2>1, Stamped DEF Schedule
  <2>4. ts_flush' \in 0..(W - 1)
    BY <1>2, <2>1, <2>2, <2>3 DEF Update
  <2>5. /\ time' = time + gap /\ time' \in 0..MaxTime /\ time' >= time
        /\ current' = Stamp(time + gap) /\ updated' = TRUE
        /\ UNCHANGED rttVars /\ origin' = origin
    BY <1>2, <2>1 DEF Update
  <2>6. flushed' \in {time', flushed} /\ BufferTypes'
    <3>1. CASE Flush(time + gap, Stamp(time + gap))
      <4>1. time + gap \in Nat /\ BufferTypes /\ rx_rto \in Nat \ {0}
        BY <2>1 DEF Types
      <4>2. BufferTypes'
        BY <2>2, <3>1, <4>1, FlushTyped
      <4> QED
        BY <2>5, <3>1, <4>2 DEF Flush
    <3>2. CASE UNCHANGED <<queued, snd_nxt, snd_buf, inFlight, sentAt, skips, flushed>>
      BY <3>2 DEF Types, BufferTypes
    <3> QED
      BY <1>2, <3>1, <3>2 DEF Update
  <2>7. ClockTypes'
    BY <2>1, <2>2, <2>4, <2>5, <2>6 DEF Types, ClockTypes
  <2> QED
    BY <2>5, <2>6, <2>7 DEF Types, RttTypes, rttVars
<1>3. ASSUME NEW ack \in inFlight, NEW una, InputAck(ack, una) PROVE Types'
  BY <1>3, AckCases DEF Types, ClockTypes, flushVars
<1>4. CASE UNCHANGED vars
  BY <1>4 DEF vars, Types, ClockTypes, RttTypes, BufferTypes, flushVars, rttVars
<1> QED
  BY <1>1, <1>2, <1>3, <1>4 DEF Next

\* Whatever the clock shows, whenever ikcp_update is called and whatever is acknowledged,
\* timestamps stay in their range and rx_rto in its bounds.
THEOREM TimerTyped == Spec => []TypeOK
<1>1. Types => TypeOK
  BY DEF Types, ClockTypes, RttTypes, BufferTypes, SegmentType, TypeOK
<1> QED
  BY <1>1, TypesInit, TypesNext, PTL DEF Spec
----------------------------------------------------------------------------
(* The pace of the flushes *)

\* A timestamp is as far from the reading of a as _itimediff says.
LEMMA Apart ==
    ASSUME NEW a \in Int, NEW y \in 0..(W - 1)
    PROVE  y = (a - TimeDiff(a % W, y)) % W
<1> DEFINE q == a \div W
           x == a % W
           H == W \div 2
           k == (x - y + H) \div W
           e == (x - y + H) % W
<1>1. q \in Int /\ x \in Int /\ H \in Int /\ a = q * W + x
  BY Clock
<1>2. x - y + H \in Int
  BY <1>1
<1>3. k \in Int /\ e \in Int /\ x - y + H = k * W + e
  BY <1>2, Clock
<1>4. TimeDiff(x, y) = e - H
  BY DEF TimeDiff
<1> HIDE DEF q, x, k, e, H
<1>5. a - (e - H) = (q + k) * W + y /\ q + k \in Int /\ a - (e - H) \in Int
  BY <1>1, <1>3, Clock
<1>6. (a - (e - H)) % W = y
  BY <1>5, Remainder
<1> QED
  BY <1>4, <1>6 DEF x

\* Once flushed, the plan is for one of the next Interval milliseconds, and no later
\* than Interval after the last flush.  The second half is what FlushesKeepPace lacks to
\* be inductive: a call that does not flush leaves less of the interval.
Planned ==
    flushed >= 0 =>
        /\ updated /\ current = Stamp(time)
        /\ \E d \in 1..Interval :
               ts_flush = Stamp(time + d) /\ time + d <= flushed + Interval

\* However late the call, the next flush is planned for the near future.
LEMMA ScheduleAhead ==
    ASSUME NEW t \in Int, origin \in Int, NEW due \in 0..(W - 1),
           TimeDiff(Stamp(t), due) \in 0..(Jump - 1)
    PROVE  \E d \in 1..Interval : Schedule(due, Stamp(t)) = Stamp(t + d)
<1> DEFINE e == TimeDiff(Stamp(t), due)
<1>1. e \in 0..(Jump - 1) /\ e \in Int /\ Interval \in 1..(Jump - 1) /\ Jump \in 1..(W \div 2 - 1)
      /\ W \div 2 \in Int
  BY Halves
<1>2. origin + t \in Int /\ due = (origin + t - e) % W
  <2>1. origin + t \in Int
    OBVIOUS
  <2> QED
    BY <2>1, Apart DEF Stamp
<1> HIDE DEF e
<1>3. (due + Interval) % W = (origin + t - e + Interval) % W
  BY <1>1, <1>2, StampAdds
<1>4. TimeDiff(Stamp(t), (due + Interval) % W) = e - Interval
  <2>1. (origin + t) - (origin + t - e + Interval) = e - Interval
    BY <1>1
  <2>2. origin + t - e + Interval \in Int /\ e - Interval \in (-(W \div 2))..(W \div 2 - 1)
    BY <1>1
  <2>3. TimeDiff((origin + t) % W, (origin + t - e + Interval) % W) = e - Interval
    BY <1>2, <2>1, <2>2, DiffExact
  <2> QED
    BY <1>3, <2>3 DEF Stamp
<1>5. CASE e >= Interval
  <2>1. Schedule(due, Stamp(t)) = (Stamp(t) + Interval) % W
    BY <1>1, <1>4, <1>5 DEF Schedule
  <2>2. (Stamp(t) + Interval) % W = (origin + t + Interval) % W
    BY <1>1, <1>2, StampAdds DEF Stamp
  <2>3. origin + t + Interval = origin + (t + Interval)
    BY <1>1
  <2>4. Interval \in 1..Interval
    BY <1>1
  <2> QED
    BY <2>1, <2>2, <2>3, <2>4 DEF Stamp
<1>6. CASE e < Interval
  <2>1. Schedule(due, Stamp(t)) = (due + Interval) % W
    BY <1>1, <1>4, <1>6 DEF Schedule
  <2>2. origin + t - e + Interval = origin + (t + (Interval - e)) /\ Interval - e \in 1..Interval
    BY <1>1, <1>6
  <2> QED
    BY <1>3, <2>1, <2>2 DEF Stamp
<1> QED
  BY <1>1, <1>5, <1>6

\* A call of ikcp_update keeps the plan, or flushes and makes the next one.
LEMMA UpdatePlans ==
    ASSUME Types, Planned, NEW gap \in Gaps, Update(gap)
    PROVE  Planned'
<1> DEFINE t == time + gap
           now == Stamp(t)
           due == IF ~updated \/ Deviates(now, ts_flush) THEN now ELSE ts_flush
<1>1. /\ time \in Nat /\ gap \in 1..(W \div 2 - Jump) /\ t \in Int /\ origin \in Int
      /\ ts_flush \in 0..(W - 1) /\ now \in 0..(W - 1) /\ flushed \in Int
      /\ Jump \in Int /\ Interval \in 1..(Jump - 1) /\ Jump \in 1..(W \div 2 - 1)
      /\ W \div 2 \in Int
  <2>1. time \in Nat /\ gap \in 1..(W \div 2 - Jump) /\ origin \in Int /\ flushed \in Int
    BY Clock, Bounds DEF Types, ClockTypes
  <2>2. t \in Int
    BY <2>1, Halves
  <2> QED
    BY <2>1, <2>2, Halves, Stamped DEF Types, ClockTypes, Stamp
<1>2. origin' = origin /\ time' = t /\ updated' = TRUE /\ current' = now
  BY DEF Update
<1>3. TimeDiff(now, now) = 0
  <2>1. t - t = 0 /\ 0 \in (-(W \div 2))..(W \div 2 - 1)
    BY <1>1
  <2> QED
    BY <1>1, <2>1, StampDiff
<1>4. due \in 0..(W - 1) /\ (due # now => updated /\ due = ts_flush /\ ~Deviates(now, ts_flush))
  BY <1>1
<1>5. TimeDiff(now, due) < Jump
  <2>1. CASE due = now
    BY <1>1, <1>3, <2>1
  <2>2. CASE due # now
    BY <1>1, <1>4, <2>2, NoDeviation
  <2> QED
    BY <2>1, <2>2
<1>6. TimeDiff(now, due) \in Int
  <2>1. now \in Int /\ due \in Int
    BY <1>1, <1>4
  <2>2. \A x, y \in Int : TimeDiff(x, y) \in Int
    BY <1>1, DiffRange
  <2> QED
    BY <2>1, <2>2
<1>7. \/ TimeDiff(now, due) >= 0 /\ ts_flush' = Schedule(due, now) /\ flushed' = t
      \/ TimeDiff(now, due) < 0 /\ ts_flush' = due /\ flushed' = flushed
  BY <1>6 DEF Update, Flush
<1> HIDE DEF due
<1>8. CASE TimeDiff(now, due) >= 0 /\ ts_flush' = Schedule(due, now) /\ flushed' = t
  <2>1. TimeDiff(Stamp(t), due) \in 0..(Jump - 1)
    BY <1>1, <1>5, <1>6, <1>8
  <2>2. PICK d \in 1..Interval : Schedule(due, Stamp(t)) = Stamp(t + d)
    BY <1>1, <1>4, <2>1, ScheduleAhead
  <2>3. t + d <= t + Interval
    BY <1>1
  <2> QED
    BY <1>2, <1>8, <2>2, <2>3 DEF Planned, Stamp
<1>9. CASE TimeDiff(now, due) < 0 /\ ts_flush' = due /\ flushed' = flushed
  <2> SUFFICES ASSUME flushed >= 0
               PROVE  \E d \in 1..Interval : ts_flush' = Stamp(t + d) /\ t + d <= flushed + Interval
    BY <1>2, <1>9 DEF Planned, Stamp
  <2>1. due = ts_flush
    BY <1>3, <1>4, <1>9
  <2>2. PICK d \in 1..Interval : ts_flush = Stamp(time + d) /\ time + d <= flushed + Interval
    BY DEF Planned
  <2>3. d \in Int /\ d <= Interval
    BY <1>1
  <2>4. TimeDiff(now, due) = gap - d
    <3>1. time + d \in Int /\ t - (time + d) = gap - d /\ gap - d \in (-(W \div 2))..(W \div 2 - 1)
      BY <1>1, <2>3
    <3>2. TimeDiff(Stamp(t), Stamp(time + d)) = gap - d
      BY <1>1, <3>1, StampDiff
    <3> QED
      BY <2>1, <2>2, <3>2
  <2>5. d - gap \in 1..Interval /\ t + (d - gap) = time + d
    BY <1>1, <1>9, <2>3, <2>4
  <2> QED
    BY <1>9, <2>1, <2>2, <2>5
<1> QED
  BY <1>7, <1>8, <1>9

\* Nothing but ikcp_update touches the plan.
LEMMA PlannedNext == Types /\ Planned /\ [Next]_vars => Planned'
<1> SUFFICES ASSUME Types, Planned, [Next]_vars PROVE Planned'
  OBVIOUS
<1>1. ASSUME UNCHANGED <<flushVars, origin>> PROVE Planned'
  BY <1>1 DEF flushVars, Planned, Stamp
<1>2. CASE Send
  BY <1>1, <1>2 DEF Send
<1>3. ASSUME NEW gap \in Gaps, Update(gap) PROVE Planned'
  BY <1>3, UpdatePlans
<1>4. ASSUME NEW ack \in inFlight, NEW una, InputAck(ack, una) PROVE Planned'
  BY <1>1, <1>4 DEF InputAck
<1>5. CASE UNCHANGED vars
  BY <1>1, <1>5 DEF vars
<1> QED
  BY <1>2, <1>3, <1>4, <1>5 DEF Next

\* Before the first flush there is nothing to keep up with.
LEMMA PlannedInit == Init => Planned
  BY DEF Init, Planned

\* A plan in the near future is what FlushesKeepPace asks for.
LEMMA PlannedKeepsPace == Types /\ Planned => FlushesKeepPace
<1> SUFFICES ASSUME Types, Planned, flushed >= 0
             PROVE  time - flushed < Interval /\ TimeDiff(ts_flush, current) \in 1..Interval
  BY DEF FlushesKeepPace
<1>1. PICK d \in 1..Interval : ts_flush = Stamp(time + d) /\ time + d <= flushed + Interval
  BY DEF Planned
<1>2. /\ time \in Int /\ flushed \in Int /\ origin \in Int /\ d \in 1..Interval
      /\ Interval \in 1..(Jump - 1) /\ Jump \in 1..(W \div 2 - 1) /\ W \div 2 \in Int
  BY Clock, Bounds, Halves DEF Types, ClockTypes
<1>3. time - flushed < Interval
  BY <1>1, <1>2
<1>4. time + d \in Int /\ (time + d) - time = d /\ d \in (-(W \div 2))..(W \div 2 - 1)
  BY <1>2
<1>5. TimeDiff(Stamp(time + d), Stamp(time)) = d
  BY <1>2, <1>4, StampDiff
<1> QED
  BY <1>1, <1>3, <1>5 DEF Planned

\* A block that flushes flushes on time for ever: no call ends with the last flush
\* Interval or more ago or leaves a plan for the past, wherever the clock wraps and
\* however late the calls are.
THEOREM FlushesOnTime == Spec => []FlushesKeepPace
<1>1. Init => Types /\ Planned
  BY TypesInit, PlannedInit
<1>2. Types /\ Planned /\ [Next]_vars => Types' /\ Planned'
  BY TypesNext, PlannedNext
<1> QED
  BY <1>1, <1>2, PlannedKeepsPace, PTL DEF Spec
----------------------------------------------------------------------------
(* Retransmission *)

\* What a segment's fields say of true time: its stamps are those of its last
\* transmission and of the end of its timer, which the last flush did not find run
\* out; every count of fastack is a true one.  The timer backs off by half of itself
\* each time it has run out, so it stays below one and a half times the age of the
\* program, or was never above its limit.
TimerSet(sn) ==
    LET seg == snd_buf[sn] IN
    /\ sentAt[sn] <= flushed /\ flushed <= sentAt[sn] + seg.rto
    /\ seg.ts = Stamp(sentAt[sn]) /\ seg.resendts = Stamp(sentAt[sn] + seg.rto)
    /\ seg.fastack <= skips[sn]
    /\ seg.rto <= RtoMax \/ 2 * seg.rto <= 3 * sentAt[sn]

TimersSet ==
    /\ \A sn \in DOMAIN snd_buf : TimerSet(sn)
    /\ \A ack \in inFlight : ack.at <= time

\* No timer and no acknowledgement is older than half the clock, 24.8 days.  Beyond it
\* the code compares timestamps wrongly.
WithinHalfClock ==
    /\ \A sn \in DOMAIN snd_buf : snd_buf[sn].rto <= W \div 2
    /\ \A ack \in inFlight : time - ack.at <= W \div 2
\* What the proofs below need of the types, in numbers.
LEMMA Numbers ==
    ASSUME Types, Planned, TimersSet, NEW sn \in DOMAIN snd_buf
    PROVE  /\ snd_buf[sn] \in SegmentType /\ snd_buf[sn].rto \in Nat /\ snd_buf[sn].fastack \in Nat
           /\ sentAt[sn] \in Nat /\ skips[sn] \in Nat /\ origin \in Int
           /\ time \in Nat /\ flushed \in Nat /\ time < flushed + Interval
           /\ sentAt[sn] <= flushed /\ flushed <= time
<1>1. /\ snd_buf[sn] \in SegmentType /\ sentAt[sn] \in Nat /\ skips[sn] \in Nat
      /\ time \in Nat /\ flushed \in -1..time /\ origin \in Int
  BY Clock, Bounds DEF Types, ClockTypes, BufferTypes
<1>2. sentAt[sn] <= flushed
  BY DEF TimersSet, TimerSet
<1>3. flushed \in Nat /\ flushed <= time
  BY <1>1, <1>2
<1>4. PICK d \in 1..Interval : time + d <= flushed + Interval
  BY <1>3 DEF Planned
<1>5. time < flushed + Interval
  BY <1>1, <1>3, <1>4, Halves
<1> QED
  BY <1>1, <1>2, <1>3, <1>5 DEF SegmentType

\* ikcp_flush finds a timer run out exactly when it has.
LEMMA LateExact ==
    ASSUME Types, Planned, TimersSet, WithinHalfClock, NEW gap \in Gaps, NEW sn \in DOMAIN snd_buf
    PROVE  Late(snd_buf[sn], Stamp(time + gap)) <=> time + gap >= sentAt[sn] + snd_buf[sn].rto
<1> DEFINE due == sentAt[sn] + snd_buf[sn].rto
           t == time + gap
           d == t - due
<1>1. /\ snd_buf[sn].rto \in Nat /\ sentAt[sn] \in Nat /\ time \in Nat /\ flushed \in Nat
      /\ sentAt[sn] <= flushed /\ flushed <= time /\ time < flushed + Interval /\ origin \in Int
  BY Numbers
<1>2. snd_buf[sn].rto <= W \div 2 /\ flushed <= due /\ snd_buf[sn].resendts = Stamp(due)
  BY DEF WithinHalfClock, TimersSet, TimerSet
<1>3. /\ gap \in 1..(W \div 2 - Jump) /\ W \div 2 \in Nat /\ Interval \in Nat /\ Jump \in Nat
      /\ Interval < Jump
  BY Clock, Halves
<1>4. /\ d \in (-(W \div 2))..(W \div 2 - 1) /\ t \in Int /\ due \in Int /\ t - due = d
      /\ t >= due <=> d >= 0
  BY <1>1, <1>2, <1>3
<1> HIDE DEF due, t, d
<1>5. TimeDiff(Stamp(t), Stamp(due)) = d
  BY <1>1, <1>4, StampDiff
<1>6. Late(snd_buf[sn], Stamp(t)) <=> t >= due
  BY <1>2, <1>4, <1>5 DEF Late
<1> QED
  BY <1>6 DEF due, t

\* A stamp and a delay make the stamp of the later time.
LEMMA StampLater ==
    ASSUME origin \in Int, NEW a \in Int, NEW d \in Int
    PROVE  (Stamp(a) + d) % W = Stamp(a + d)
<1>1. origin + a \in Int /\ (origin + a) + d = origin + (a + d)
  OBVIOUS
<1>2. (((origin + a) % W) + d) % W = ((origin + a) + d) % W
  BY <1>1, StampAdds
<1> QED
  BY <1>1, <1>2 DEF Stamp

\* After a flush every timer is set: those that went out start anew, and the others
\* have not run out.
LEMMA FlushSetsTimers ==
    ASSUME Types, Planned, TimersSet, WithinHalfClock, NEW gap \in Gaps,
           Flush(time + gap, Stamp(time + gap)), origin' = origin,
           NEW sn \in DOMAIN snd_buf'
    PROVE  TimerSet(sn)'
<1> DEFINE t == time + gap
           now == Stamp(t)
<1>1. /\ time \in Nat /\ gap \in Nat /\ t \in Nat /\ origin \in Int /\ now \in 0..(W - 1)
      /\ rx_rto \in Nat \ {0} /\ rx_rto <= RtoMax /\ RtoMax \in Nat
  <2>1. time \in Nat /\ gap \in Nat /\ origin \in Int /\ rx_rto \in Nat \ {0} /\ rx_rto <= RtoMax
        /\ RtoMax \in Nat
    BY Clock, Bounds, Rto DEF Types, ClockTypes, RttTypes
  <2>2. t \in Nat
    BY <2>1
  <2>3. now \in 0..(W - 1)
    BY <2>1, <2>2, Stamped DEF Stamp
  <2> QED
    BY <2>1, <2>2, <2>3
<1>2. flushed' = t
  BY DEF Flush
<1>3. \/ FirstSent(sn, t, now) \/ TimedOut(sn, t, now)
      \/ FastResent(sn, t, now) \/ LeftAlone(sn, now)
  BY <1>1, FlushCases DEF Types
<1> HIDE DEF t, now
<1>4. ASSUME NEW old, NEW rto \in Nat, Sent(snd_buf'[sn], old, now, rto), sentAt'[sn] = t,
             snd_buf'[sn].fastack <= skips'[sn], rto <= RtoMax \/ 2 * rto <= 3 * t
      PROVE  TimerSet(sn)'
  <2>1. snd_buf'[sn].rto = rto /\ snd_buf'[sn].ts = Stamp(t)
    BY <1>4 DEF Sent, now
  <2>2. snd_buf'[sn].resendts = Stamp(t + rto)
    BY <1>1, <1>4, StampLater DEF Sent, now
  <2>3. t <= t /\ t <= t + rto
    BY <1>1
  <2> QED
    BY <1>2, <1>4, <2>1, <2>2, <2>3 DEF TimerSet, Stamp
<1>5. CASE FirstSent(sn, t, now)
  BY <1>1, <1>4, <1>5 DEF FirstSent
<1>6. ASSUME sn \in DOMAIN snd_buf
      PROVE  /\ snd_buf[sn].rto \in Nat /\ snd_buf[sn].fastack \in Nat /\ skips[sn] \in Nat
             /\ sentAt[sn] \in Nat /\ flushed \in Nat /\ sentAt[sn] <= flushed /\ flushed <= t
             /\ snd_buf[sn].fastack <= skips[sn]
             /\ snd_buf[sn].rto <= RtoMax \/ 2 * snd_buf[sn].rto <= 3 * sentAt[sn]
             /\ Late(snd_buf[sn], now) <=> t >= sentAt[sn] + snd_buf[sn].rto
  <2>1. /\ snd_buf[sn].rto \in Nat /\ snd_buf[sn].fastack \in Nat /\ skips[sn] \in Nat
        /\ sentAt[sn] \in Nat /\ flushed \in Nat /\ sentAt[sn] <= flushed /\ flushed <= time
    BY <1>6, Numbers
  <2>2. /\ snd_buf[sn].fastack <= skips[sn]
        /\ snd_buf[sn].rto <= RtoMax \/ 2 * snd_buf[sn].rto <= 3 * sentAt[sn]
    BY <1>6 DEF TimersSet, TimerSet
  <2>3. flushed <= t
    BY <1>1, <2>1 DEF t
  <2> QED
    BY <1>6, <2>1, <2>2, <2>3, LateExact DEF t, now
<1>7. CASE TimedOut(sn, t, now)
  <2> DEFINE rto == snd_buf[sn].rto
             backoff == rto + rto \div 2
  <2>1. sn \in DOMAIN snd_buf /\ Late(snd_buf[sn], now)
    BY <1>7 DEF TimedOut
  <2>2. rto \in Nat /\ sentAt[sn] \in Nat /\ t >= sentAt[sn] + rto
    BY <1>6, <2>1
  <2>3. backoff \in Nat /\ 2 * backoff <= 3 * t
    BY <1>1, <2>2
  <2>4. /\ Sent(snd_buf'[sn], snd_buf[sn], now, backoff) /\ sentAt'[sn] = t
        /\ snd_buf'[sn].fastack = snd_buf[sn].fastack /\ skips'[sn] = skips[sn]
    BY <1>7 DEF TimedOut
  <2>5. snd_buf'[sn].fastack <= skips'[sn]
    BY <1>6, <2>1, <2>4
  <2> HIDE DEF backoff
  <2> QED
    BY <1>4, <2>3, <2>4, <2>5
<1>8. CASE FastResent(sn, t, now)
  <2>1. /\ sn \in DOMAIN snd_buf
        /\ Sent(snd_buf'[sn], snd_buf[sn], now, snd_buf[sn].rto) /\ snd_buf'[sn].fastack = 0
        /\ sentAt'[sn] = t /\ skips'[sn] \in {0, skips[sn]}
    BY <1>8 DEF FastResent
  <2>2. snd_buf'[sn].fastack <= skips'[sn]
    BY <1>6, <2>1
  <2>3. snd_buf[sn].rto <= RtoMax \/ 2 * snd_buf[sn].rto <= 3 * t
    BY <1>1, <1>6, <2>1
  <2> QED
    BY <1>4, <1>6, <2>1, <2>2, <2>3
<1>9. CASE LeftAlone(sn, now)
  <2>1. /\ sn \in DOMAIN snd_buf /\ ~Late(snd_buf[sn], now)
        /\ snd_buf'[sn] = snd_buf[sn] /\ sentAt'[sn] = sentAt[sn] /\ skips'[sn] = skips[sn]
    BY <1>9 DEF LeftAlone
  <2>2. sentAt[sn] <= t /\ t <= sentAt[sn] + snd_buf[sn].rto
    BY <1>1, <1>6, <2>1
  <2>3. /\ snd_buf[sn].ts = Stamp(sentAt[sn])
        /\ snd_buf[sn].resendts = Stamp(sentAt[sn] + snd_buf[sn].rto)
    BY <2>1 DEF TimersSet, TimerSet
  <2> QED
    BY <1>2, <1>6, <2>1, <2>2, <2>3 DEF TimerSet, Stamp
<1> QED
  BY <1>3, <1>5, <1>7, <1>8, <1>9

\* Nothing has been sent yet.
LEMMA TimersInit == Init => TimersSet
  BY DEF Init, TimersSet

\* An acknowledgement that is counted for a segment is not of an earlier time.
LEMMA CountsExact ==
    ASSUME Types, TimersSet, Planned, WithinHalfClock, NEW ack \in inFlight, NEW sn \in DOMAIN snd_buf,
           Counts(snd_buf[sn], Stamp(ack.at))
    PROVE  ack.at >= sentAt[sn]
<1> SUFFICES ASSUME ~(ack.at >= sentAt[sn]) PROVE FALSE
  OBVIOUS
<1> DEFINE d == ack.at - sentAt[sn]
           a == ack.at
           b == sentAt[sn]
<1>1. a \in Nat /\ b \in Nat /\ origin \in Int /\ time \in Nat /\ b <= time
  BY Numbers DEF Types, BufferTypes
<1>2. time - a <= W \div 2 /\ snd_buf[sn].ts = Stamp(b)
  BY DEF WithinHalfClock, TimersSet, TimerSet
<1>3. d \in (-(W \div 2))..(W \div 2 - 1) /\ a - b = d /\ d < 0
  BY <1>1, <1>2, Halves
<1> HIDE DEF a, b, d
<1>4. TimeDiff(Stamp(a), Stamp(b)) = d
  BY <1>1, <1>3, StampDiff
<1>5. TimeDiff(Stamp(a), Stamp(b)) >= 0
  BY <1>2 DEF Counts, a
<1> QED
  BY <1>3, <1>4, <1>5, Halves

\* Every step leaves the timers as the last transmissions set them.
LEMMA TimersNext == Types /\ Planned /\ TimersSet /\ WithinHalfClock /\ [Next]_vars => TimersSet'
<1> SUFFICES ASSUME Types, Planned, TimersSet, WithinHalfClock, [Next]_vars PROVE TimersSet'
  OBVIOUS
<1>1. ASSUME UNCHANGED <<snd_buf, sentAt, skips, flushed, inFlight, origin>>, time' >= time
      PROVE  TimersSet'
  <2>1. ASSUME NEW sn \in DOMAIN snd_buf' PROVE TimerSet(sn)'
    BY <1>1 DEF TimersSet, TimerSet, Stamp
  <2>2. ASSUME NEW ack \in inFlight' PROVE ack.at <= time'
    <3>1. ack.at \in Nat /\ time \in Nat /\ time' \in Nat
      BY <1>1, Bounds, TypesNext DEF Types, BufferTypes, ClockTypes
    <3> QED
      BY <1>1, <3>1 DEF TimersSet
  <2> QED
    BY <2>1, <2>2 DEF TimersSet
<1>2. CASE Send
  <2>1. time \in Nat /\ time' = time
    BY <1>2, Bounds DEF Types, ClockTypes, Send, flushVars
  <2> QED
    BY <1>1, <1>2, <2>1 DEF Send, flushVars
<1>3. ASSUME NEW gap \in Gaps, Update(gap) PROVE TimersSet'
  <2>1. /\ time \in Nat /\ gap \in Nat /\ time' = time + gap /\ origin' = origin
    BY <1>3, Clock, Bounds DEF Types, ClockTypes, Update
  <2>2. CASE UNCHANGED <<queued, snd_nxt, snd_buf, inFlight, sentAt, skips, flushed>>
    BY <1>1, <2>1, <2>2
  <2>3. CASE Flush(time + gap, Stamp(time + gap))
    <3>1. ASSUME NEW ack \in inFlight' PROVE ack.at <= time'
      <4>1. \/ ack \in inFlight
            \/ \E sn \in DOMAIN snd_buf' : ack = [sn |-> sn, at |-> time + gap]
        BY <2>3 DEF Flush
      <4>2. ack \in inFlight => ack.at \in Nat /\ ack.at <= time
        BY DEF Types, BufferTypes, TimersSet
      <4> QED
        BY <2>1, <4>1, <4>2
    <3> QED
      BY <2>1, <2>3, <3>1, FlushSetsTimers DEF TimersSet
  <2> QED
    BY <1>3, <2>2, <2>3 DEF Update
<1>4. ASSUME NEW ack \in inFlight, NEW una, InputAck(ack, una) PROVE TimersSet'
  <2>1. /\ UNCHANGED <<flushVars, origin>> /\ inFlight' \subseteq inFlight
        /\ DOMAIN snd_buf' \subseteq DOMAIN snd_buf
    BY <1>4, AckCases
  <2>2. ASSUME NEW sn \in DOMAIN snd_buf' PROVE TimerSet(sn)'
    <3>1. /\ snd_buf'[sn].rto = snd_buf[sn].rto /\ snd_buf'[sn].ts = snd_buf[sn].ts
          /\ snd_buf'[sn].resendts = snd_buf[sn].resendts /\ sentAt'[sn] = sentAt[sn]
          /\ snd_buf'[sn].fastack =
                 snd_buf[sn].fastack
                     + IF sn < ack.sn /\ Counts(snd_buf[sn], Stamp(ack.at)) THEN 1 ELSE 0
          /\ skips'[sn] = skips[sn] + IF sn < ack.sn /\ ack.at >= sentAt[sn] THEN 1 ELSE 0
      BY <1>4, <2>2, AckCases
    <3>2. sn \in DOMAIN snd_buf /\ snd_buf[sn].fastack \in Nat /\ skips[sn] \in Nat
      BY <2>1, <2>2, Numbers
    <3>3. TimerSet(sn)
      BY <3>2 DEF TimersSet
    <3>4. snd_buf'[sn].fastack <= skips'[sn]
      BY <3>1, <3>2, <3>3, CountsExact DEF TimerSet
    <3> QED
      BY <2>1, <3>1, <3>3, <3>4 DEF TimerSet, Stamp, flushVars
  <2> QED
    BY <2>1, <2>2 DEF TimersSet, flushVars
<1>5. CASE UNCHANGED vars
  <2>1. time \in Nat /\ time' = time
    BY <1>5, Bounds DEF Types, ClockTypes, vars, flushVars
  <2> QED
    BY <1>1, <1>5, <2>1 DEF vars, flushVars
<1> QED
  BY <1>2, <1>3, <1>4, <1>5 DEF Next

\* A timer that the last flush did not find run out has run out for less than the
\* interval to the next.
LEMMA TimersResend == Types /\ Planned /\ TimersSet => ResentInTime
<1> SUFFICES ASSUME Types, Planned, TimersSet, NEW sn \in DOMAIN snd_buf
             PROVE  time < sentAt[sn] + snd_buf[sn].rto + Interval
  BY DEF ResentInTime
<1>1. flushed <= sentAt[sn] + snd_buf[sn].rto
  BY DEF TimersSet, TimerSet
<1> QED
  BY <1>1, Numbers, Halves

\* As long as no timer runs, and no acknowledgement travels, for more than half the
\* clock, ikcp_flush sends a segment again before Interval has passed since its timer
\* ran out.
THEOREM ResendsOnTime == Spec /\ []WithinHalfClock => []ResentInTime
<1>1. Init => Types /\ Planned /\ TimersSet
  BY TypesInit, PlannedInit, TimersInit
<1>2. /\ Types /\ Planned /\ TimersSet /\ WithinHalfClock /\ [Next]_vars
      => Types' /\ Planned' /\ TimersSet'
  BY TypesNext, PlannedNext, TimersNext
<1>3. Types /\ Planned /\ TimersSet => ResentInTime
  BY TimersResend
<1> QED
  BY <1>1, <1>2, <1>3, PTL DEF Spec

\* Of one step: what goes out again had a reason.
ReasonToResend ==
    \A sn \in DOMAIN snd_buf \cap DOMAIN snd_buf' :
        snd_buf'[sn].xmit > snd_buf[sn].xmit =>
            \/ time' - sentAt[sn] >= snd_buf[sn].rto
            \/ skips[sn] >= FastResend

LEMMA ResentForReason ==
    Types /\ Planned /\ TimersSet /\ WithinHalfClock /\ [Next]_vars => ReasonToResend
<1> SUFFICES ASSUME Types, Planned, TimersSet, WithinHalfClock, [Next]_vars,
                    NEW sn \in DOMAIN snd_buf \cap DOMAIN snd_buf',
                    snd_buf'[sn].xmit > snd_buf[sn].xmit
             PROVE  time' - sentAt[sn] >= snd_buf[sn].rto \/ skips[sn] >= FastResend
  BY DEF ReasonToResend
<1>1. snd_buf'[sn].xmit # snd_buf[sn].xmit
  BY Numbers DEF SegmentType
<1>2. CASE Send
  BY <1>1, <1>2 DEF Send
<1>3. ASSUME NEW gap \in Gaps, Update(gap)
      PROVE  time' - sentAt[sn] >= snd_buf[sn].rto \/ skips[sn] >= FastResend
  <2> DEFINE t == time + gap
             now == Stamp(t)
  <2>1. time \in Nat /\ gap \in Nat /\ origin \in Int /\ time' = t /\ rx_rto \in Nat \ {0}
        /\ t \in Nat
    BY <1>3, Clock, Bounds, Rto DEF Types, ClockTypes, RttTypes, Update
  <2>2. now \in 0..(W - 1)
    BY <2>1, Stamped DEF Stamp
  <2>3. Flush(t, now)
    BY <1>1, <1>3 DEF Update
  <2>4. /\ snd_buf[sn].rto \in Nat /\ snd_buf[sn].fastack \in Nat /\ skips[sn] \in Nat
        /\ sentAt[sn] \in Nat /\ snd_buf[sn].fastack <= skips[sn]
    BY Numbers DEF TimersSet, TimerSet
  <2>5. Late(snd_buf[sn], now) => t >= sentAt[sn] + snd_buf[sn].rto
    BY LateExact
  <2> HIDE DEF t, now
  <2>6. TimedOut(sn, t, now) \/ FastResent(sn, t, now)
    BY <1>1, <2>1, <2>2, <2>3, FlushCases DEF Types, FirstSent, LeftAlone
  <2>7. CASE TimedOut(sn, t, now)
    BY <2>1, <2>4, <2>5, <2>7 DEF TimedOut
  <2>8. CASE FastResent(sn, t, now)
    BY <2>4, <2>8, Resend DEF FastResent, PassedOver
  <2> QED
    BY <2>6, <2>7, <2>8
<1>4. ASSUME NEW ack \in inFlight, NEW una, InputAck(ack, una)
      PROVE  FALSE
  BY <1>1, <1>4, AckCases
<1>5. CASE UNCHANGED vars
  BY <1>1, <1>5 DEF vars
<1> QED
  BY <1>2, <1>3, <1>4, <1>5 DEF Next

\* As long as no timer runs, and no acknowledgement travels, for more than half the
\* clock, ikcp_flush sends nothing again before its rto is over or FastResend later
\* acknowledgements have passed it over.
THEOREM ResendsWithReason == Spec /\ []WithinHalfClock => ResentWithReason
<1>1. Init => Types /\ Planned /\ TimersSet
  BY TypesInit, PlannedInit, TimersInit
<1>2. /\ Types /\ Planned /\ TimersSet /\ WithinHalfClock /\ [Next]_vars
      => Types' /\ Planned' /\ TimersSet'
  BY TypesNext, PlannedNext, TimersNext
<1>3. Types /\ Planned /\ TimersSet /\ WithinHalfClock /\ [Next]_vars => [ReasonToResend]_vars
  BY ResentForReason
<1>4. ResentWithReason <=> [][ReasonToResend]_vars
  BY DEF ResentWithReason, ReasonToResend
<1> QED
  BY <1>1, <1>2, <1>3, <1>4, PTL DEF Spec

\* A program that is done in a third of the clock, 16.5 days, is within half of it all
\* along: a timer is at most RtoMax, or half as long again as the program is old.
LEMMA ShortRuns ==
    ASSUME 3 * MaxTime <= W, 2 * RtoMax <= W, Types, Planned, TimersSet
    PROVE  WithinHalfClock
<1>1. /\ MaxTime \in Nat /\ RtoMax \in Nat /\ time \in 0..MaxTime
      /\ W \in Nat /\ W \div 2 \in Nat /\ W = 2 * (W \div 2)
  BY Bounds, Rto, Halves DEF Types, ClockTypes
<1>2. ASSUME NEW sn \in DOMAIN snd_buf PROVE snd_buf[sn].rto <= W \div 2
  <2>1. /\ snd_buf[sn].rto \in Nat /\ sentAt[sn] \in Nat /\ sentAt[sn] <= time
        /\ snd_buf[sn].rto <= RtoMax \/ 2 * snd_buf[sn].rto <= 3 * sentAt[sn]
    BY Numbers DEF TimersSet, TimerSet
  <2> QED
    BY <1>1, <2>1
<1>3. ASSUME NEW ack \in inFlight PROVE time - ack.at <= W \div 2
  <2>1. ack.at \in Nat
    BY DEF Types, BufferTypes
  <2> QED
    BY <1>1, <2>1
<1> QED
  BY <1>2, <1>3 DEF WithinHalfClock

\* So in such a program segments go out again on time, and for a reason, with nothing
\* assumed of the network: the clock may wrap in it wherever its start puts that.
THEOREM ShortRunsResend ==
    ASSUME 3 * MaxTime <= W, 2 * RtoMax <= W
    PROVE  Spec => []ResentInTime /\ ResentWithReason
<1>1. Init => Types /\ Planned /\ TimersSet
  BY TypesInit, PlannedInit, TimersInit
<1>2. Types /\ Planned /\ TimersSet => WithinHalfClock
  BY ShortRuns
<1>3. /\ Types /\ Planned /\ TimersSet /\ WithinHalfClock /\ [Next]_vars
      => Types' /\ Planned' /\ TimersSet'
  BY TypesNext, PlannedNext, TimersNext
<1>4. Spec => []WithinHalfClock
  BY <1>1, <1>2, <1>3, PTL DEF Spec
<1> QED
  BY <1>4, ResendsOnTime, ResendsWithReason, PTL
----------------------------------------------------------------------------
(* ikcp_check *)

\* A set of positive numbers has a least one.
LEMMA LeastOf ==
    ASSUME NEW S, S # {}, \A n \in S : n \in Int /\ n > 0
    PROVE  Min(S) \in S /\ \A n \in S : Min(S) <= n
<1>1. S \subseteq Nat
  OBVIOUS
<1>2. PICK m \in S : \A n \in S : ~(<<n, m>> \in OpToRel(<, Nat))
  BY <1>1, NatLessThanWellFounded, WFMin, Zenon
<1>3. ASSUME NEW n \in S PROVE m <= n
  <2>1. m \in Nat /\ n \in Nat
    BY <1>1
  <2>2. n < m => <<n, m>> \in OpToRel(<, Nat)
    BY <2>1 DEF OpToRel
  <2>3. ~(n < m)
    BY <1>2, <2>2
  <2> QED
    BY <2>1, <2>3
<1>4. \E x \in S : \A y \in S : x <= y
  BY <1>3
<1> QED
  BY <1>4, Zenon DEF Min

\* What ikcp_check advises is not after the plan.
LEMMA ChecksBeforePlan ==
    ASSUME Types, updated, ~Deviates(current, ts_flush), CheckTime(current) # current
    PROVE  TimeDiff(CheckTime(current), ts_flush) <= 0
<1> DEFINE waits == {TimeDiff(snd_buf[sn].resendts, current) : sn \in DOMAIN snd_buf}
           d == TimeDiff(current, ts_flush)
           S == waits \cup {TimeDiff(ts_flush, current), Interval}
           m == Min(S)
<1>1. /\ current \in Int /\ current \in 0..(W - 1) /\ ts_flush \in Int /\ ts_flush \in 0..(W - 1)
      /\ W \div 2 \in Int /\ Jump \in 1..(W \div 2 - 1) /\ Interval \in 1..(Jump - 1)
  BY Halves DEF Types, ClockTypes
<1>2. /\ ~(d >= 0) /\ \A w \in waits : ~(w <= 0)
      /\ CheckTime(current) = (current + m) % W
  BY DEF CheckTime
<1>3. d \in (-Jump)..(-1)
  <2>1. d \in (-Jump)..(Jump - 1)
    BY <1>1, NoDeviation
  <2> QED
    BY <1>1, <1>2, <2>1
<1>4. current % W = current /\ ts_flush % W = ts_flush
  BY <1>1, Remainder, Clock
<1> HIDE DEF d
<1>5. ts_flush = (current - d) % W
  BY <1>1, <1>4, Apart DEF d
<1>6. current - d \in Int /\ (current - d) - current = -d /\ -d \in (-(W \div 2))..(W \div 2 - 1)
  BY <1>1, <1>3
<1>7. TimeDiff(ts_flush, current) = -d
  <2>1. TimeDiff((current - d) % W, current % W) = (current - d) - current
    BY <1>1, <1>6, DiffExact
  <2> QED
    BY <1>4, <1>5, <1>6, <2>1
<1>8. \A n \in S : n \in Int /\ n > 0
  <2>1. ASSUME NEW sn \in DOMAIN snd_buf PROVE TimeDiff(snd_buf[sn].resendts, current) \in Int
    <3>1. snd_buf[sn].resendts \in Int
      BY Clock DEF Types, BufferTypes, SegmentType
    <3>2. \A x, y \in Int : TimeDiff(x, y) \in Int
      BY <1>1, DiffRange
    <3> QED
      BY <1>1, <3>1, <3>2
  <2>2. ASSUME NEW w \in waits PROVE w \in Int /\ w > 0
    BY <1>2, <2>1
  <2>3. Interval \in Int /\ Interval > 0 /\ -d \in Int /\ -d > 0
    BY <1>1, <1>3
  <2> QED
    BY <1>7, <2>2, <2>3
<1>9. m \in Int /\ m > 0 /\ m <= -d
  <2>1. S # {} /\ -d \in S
    BY <1>7
  <2> HIDE DEF S
  <2> QED
    BY <1>8, <2>1, LeastOf
<1> HIDE DEF m
<1>10. /\ current + m \in Int /\ current - d \in Int /\ (current + m) - (current - d) = m + d
       /\ m + d \in (-(W \div 2))..(W \div 2 - 1) /\ m + d <= 0
  BY <1>1, <1>3, <1>9
<1>11. TimeDiff((current + m) % W, (current - d) % W) = m + d
  BY <1>10, DiffExact
<1> QED
  BY <1>2, <1>5, <1>10, <1>11

\* A caller that sleeps until the time ikcp_check gives it does not miss the flush that
\* is planned, wherever the clock stands.
THEOREM ChecksOnTime == Spec => []CheckNeverLate
<1>1. Types => CheckNeverLate
  BY ChecksBeforePlan DEF CheckNeverLate
<1> QED
  BY <1>1, TypesInit, TypesNext, PTL DEF Spec
=============================================================================
