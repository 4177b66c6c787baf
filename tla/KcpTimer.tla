----------------------------- MODULE KcpTimer ------------------------------
(***************************************************************************)
(* The clock of one control block of ikcp.c: when ikcp_update flushes,     *)
(* when ikcp_flush sends a segment again and what ikcp_check advises.      *)
(* KcpArq leaves all this open (its parameter `late'); here it is          *)
(* computed, on timestamps that wrap at W (2^32 ms, 49.7 days).            *)
(*                                                                         *)
(* Timestamps of the code are in 0..W-1; the variables marked "history"    *)
(* hold true time, by which the properties judge them.  The clock is       *)
(* steady_clock: it starts anywhere, goes forward, and is read only in     *)
(* ikcp_update; ikcp_input measures round trips against that reading.      *)
(* The peer is whatever the acknowledgements say; the window is open, and  *)
(* nodelay = 1 as kcp_wrapper.cpp sets it.                                 *)
(***************************************************************************)
EXTENDS Integers, FiniteSetsExt, Functions

CONSTANTS
    W,          \* 2^32
    Interval,   \* kcp->interval
    Jump,       \* 10000: a deviation ikcp_update takes for a clock gone wrong
    FirstFlush, \* IKCP_INTERVAL, the ts_flush of ikcp_create
    RtoDef, RtoMin, RtoMax,
    FastResend, \* kcp->fastresend
    FastLimit,  \* kcp->fastlimit
    Origins,    \* bound: clock readings the program may start at
    Gaps,       \* bound: time from one call of ikcp_update to the next
    MaxTime,    \* bound: time of the last call
    MaxSegs     \* bound: segments sent

ASSUME Clock == /\ W \in Nat \ {0} /\ W % 2 = 0
                /\ Jump \in 1..(W \div 2 - 1) /\ Interval \in 1..(Jump - 1)
                /\ FirstFlush \in 0..(W - 1) /\ Origins \subseteq 0..(W - 1)
                /\ Gaps \subseteq 1..(W \div 2 - Jump)
ASSUME Rto == RtoMax \in Nat /\ RtoDef \in 1..RtoMax /\ RtoMin \in 1..RtoDef
ASSUME Resend == FastResend \in Nat /\ FastLimit \in Nat
ASSUME Bounds == MaxTime \in Nat /\ MaxSegs \in Nat

VARIABLES
    current, updated, ts_flush,     \* the fields of IKCPCB
    rx_srtt, rx_rttval, rx_rto,
    queued,     \* how many segments are in snd_queue
    snd_nxt,
    snd_buf,    \* sequence number -> segment
    inFlight,   \* acknowledgements on their way: sn, and the time the peer echoes
    origin,     \* what the clock showed when the program started
    time,       \* history: true time since then
    flushed,    \* history: true time of the last flush, or -1
    sentAt,     \* history: true time of a segment's last transmission
    skips       \* history: acknowledgements that passed a segment over

rttVars == <<rx_srtt, rx_rttval, rx_rto>>
flushVars == <<current, updated, ts_flush, time, flushed>>
vars == <<flushVars, rttVars, queued, snd_nxt, snd_buf, inFlight, origin, sentAt, skips>>

Stamp(t) == (origin + t) % W

\* Mutant of TimeDiff: timestamps are compared as plain numbers.
PlainDiff(later, earlier) == later - earlier

\* _itimediff: the difference as a signed number of 32 bits
TimeDiff(later, earlier) == ((later - earlier + W \div 2) % W) - W \div 2

\* ikcp_create does not write `updated': it is what was in the memory.
Init ==
    /\ origin \in Origins
    /\ current = 0
    /\ updated \in BOOLEAN
    /\ ts_flush = FirstFlush
    /\ rx_srtt = 0 /\ rx_rttval = 0 /\ rx_rto = RtoDef
    /\ queued = 0 /\ snd_nxt = 0
    /\ snd_buf = <<>> /\ inFlight = {}
    /\ time = 0 /\ flushed = -1
    /\ sentAt = <<>> /\ skips = <<>>

\* ikcp_send of one fragment
Send == /\ snd_nxt + queued < MaxSegs
        /\ queued' = queued + 1
        /\ UNCHANGED <<flushVars, rttVars, snd_nxt, snd_buf, inFlight, origin,
                       sentAt, skips>>

----------------------------------------------------------------------------
(* ikcp_update and ikcp_flush *)

\* Mutant of Late: a segment is late when its rto has passed but for one unit.
LateEarly(seg, now) == TimeDiff(now + 1, seg.resendts) >= 0

Late(seg, now) == TimeDiff(now, seg.resendts) >= 0

PassedOver(seg) == seg.fastack >= FastResend /\ seg.xmit <= FastLimit

Transmit(seg, now, rto) ==
    [seg EXCEPT !.xmit = @ + 1, !.rto = rto, !.ts = now, !.resendts = (now + rto) % W]

\* The step of the flush loop for one segment; xmit = 0 in a new one.
Flushed(seg, now) ==
    IF seg.xmit = 0 THEN Transmit(seg, now, rx_rto)
    ELSE IF Late(seg, now) THEN Transmit(seg, now, seg.rto + seg.rto \div 2)
    ELSE IF PassedOver(seg) THEN [Transmit(seg, now, seg.rto) EXCEPT !.fastack = 0]
    ELSE seg

NewSegment(now) == [xmit |-> 0, rto |-> rx_rto, ts |-> now, resendts |-> now, fastack |-> 0]

\* t is the true time, now the timestamp for it.
Flush(t, now) ==
    LET buf == [sn \in DOMAIN snd_buf \cup snd_nxt..(snd_nxt + queued - 1) |->
                   IF sn \in DOMAIN snd_buf THEN snd_buf[sn] ELSE NewSegment(now)]
        again == {sn \in DOMAIN buf : Flushed(buf[sn], now).xmit > buf[sn].xmit}
    IN /\ snd_buf' = [sn \in DOMAIN buf |-> Flushed(buf[sn], now)]
       /\ snd_nxt' = snd_nxt + queued
       /\ queued' = 0
       /\ inFlight' = inFlight \cup {[sn |-> sn, at |-> t] : sn \in again}
       /\ sentAt' = [sn \in DOMAIN buf |-> IF sn \in again THEN t ELSE sentAt[sn]]
       /\ skips' = [sn \in DOMAIN buf |->
              IF sn \notin DOMAIN skips \/ snd_buf'[sn].fastack < buf[sn].fastack
              THEN 0 ELSE skips[sn]]
       /\ flushed' = t

\* Mutant of Schedule: the plan is kept however late the call came.
ScheduleBehind(due, now) == (due + Interval) % W

\* ts_flush after a flush that was due at `due'.
Schedule(due, now) ==
    IF TimeDiff(now, (due + Interval) % W) >= 0 THEN (now + Interval) % W
                                                ELSE (due + Interval) % W

Deviates(now, due) == TimeDiff(now, due) >= Jump \/ TimeDiff(now, due) < -Jump

Update(gap) ==
    LET t == time + gap
        now == Stamp(t)
        due == IF ~updated \/ Deviates(now, ts_flush) THEN now ELSE ts_flush
    IN /\ t <= MaxTime
       /\ time' = t
       /\ current' = now
       /\ updated' = TRUE
       /\ IF TimeDiff(now, due) >= 0
          THEN ts_flush' = Schedule(due, now) /\ Flush(t, now)
          ELSE /\ ts_flush' = due
               /\ UNCHANGED <<queued, snd_nxt, snd_buf, inFlight, sentAt, skips, flushed>>
       /\ UNCHANGED <<rttVars, origin>>

----------------------------------------------------------------------------
(* ikcp_input of a datagram with one acknowledgement *)

\* Mutant of Bounded: no upper limit.
BoundedBelow(low, x, high) == Max({low, x})

\* _ibound_
Bounded(low, x, high) == Min({Max({low, x}), high})

\* ikcp_update_ack
UpdateAck(rtt) ==
    LET delta == IF rtt >= rx_srtt THEN rtt - rx_srtt ELSE rx_srtt - rtt
        srtt == IF rx_srtt = 0 THEN rtt ELSE Max({1, (7 * rx_srtt + rtt) \div 8})
        rttval == IF rx_srtt = 0 THEN rtt \div 2 ELSE (3 * rx_rttval + delta) \div 4
    IN /\ rx_srtt' = srtt
       /\ rx_rttval' = rttval
       /\ rx_rto' = Bounded(RtoMin, srtt + Max({Interval, 4 * rttval}), RtoMax)

\* Mutant of Counts: acknowledgements of older transmissions count as well.
CountsAll(seg, ts) == TRUE

\* ikcp_parse_fastack, with IKCP_FASTACK_CONSERVE
Counts(seg, ts) == TimeDiff(ts, seg.ts) >= 0

InputAck(ack, una) ==
    LET ts == Stamp(ack.at)
        rest == {sn \in DOMAIN snd_buf : sn >= una /\ sn # ack.sn}
    IN /\ inFlight' = inFlight \ {ack}
       /\ IF TimeDiff(current, ts) >= 0 THEN UpdateAck(TimeDiff(current, ts))
                                        ELSE UNCHANGED rttVars
       /\ snd_buf' = [sn \in rest |->
              IF sn < ack.sn /\ Counts(snd_buf[sn], ts)
              THEN [snd_buf[sn] EXCEPT !.fastack = @ + 1] ELSE snd_buf[sn]]
       /\ sentAt' = Restrict(sentAt, rest)
       /\ skips' = [sn \in rest |->
              IF sn < ack.sn /\ ack.at >= sentAt[sn] THEN skips[sn] + 1 ELSE skips[sn]]
       /\ UNCHANGED <<flushVars, queued, snd_nxt, origin>>

Next == \/ Send
        \/ \E gap \in Gaps : Update(gap)
        \/ \E ack \in inFlight, una \in 0..snd_nxt : InputAck(ack, una)

Spec == Init /\ [][Next]_vars

----------------------------------------------------------------------------
(* ikcp_check *)

\* Mutant of CheckTime: the plan counts only when a segment comes later.
CheckPacketOnly(now) ==
    IF \E sn \in DOMAIN snd_buf : Late(snd_buf[sn], now) THEN now
    ELSE (now + Min({Interval} \cup {TimeDiff(snd_buf[sn].resendts, now) :
                                        sn \in DOMAIN snd_buf})) % W

CheckTime(now) ==
    LET due == IF Deviates(now, ts_flush) THEN now ELSE ts_flush
        waits == {TimeDiff(snd_buf[sn].resendts, now) : sn \in DOMAIN snd_buf}
    IN IF ~updated \/ TimeDiff(now, due) >= 0 \/ \E d \in waits : d <= 0 THEN now
       ELSE (now + Min(waits \cup {TimeDiff(due, now), Interval})) % W

----------------------------------------------------------------------------
TypeOK ==
    /\ {current, ts_flush} \subseteq 0..(W - 1) /\ updated \in BOOLEAN
    /\ rx_srtt \in Nat /\ rx_rttval \in Nat /\ rx_rto \in RtoMin..RtoMax
    /\ \A sn \in DOMAIN snd_buf :
           /\ sn \in 0..(snd_nxt - 1) /\ snd_buf[sn].xmit \in Nat \ {0}
           /\ {snd_buf[sn].ts, snd_buf[sn].resendts} \subseteq 0..(W - 1)

\* Once it flushes, a control block flushes on time, also where the clock wraps or
\* jumps: no call of ikcp_update ends with the last flush Interval or more ago, or
\* leaves a plan for the past, which would make up for a pause with a burst.
FlushesKeepPace ==
    flushed >= 0 => /\ time - flushed < Interval
                    /\ TimeDiff(ts_flush, current) \in 1..Interval

\* No call of ikcp_update leaves a segment unsent for Interval or more after its
\* timer has run out.
ResentInTime ==
    \A sn \in DOMAIN snd_buf : time < sentAt[sn] + snd_buf[sn].rto + Interval

\* A segment goes out again only when its rto has truly passed, or when as many
\* acknowledgements as fastresend says, of segments sent at its time or later,
\* passed it over since it last was resent on their account.
ResentWithReason ==
    [][\A sn \in DOMAIN snd_buf \cap DOMAIN snd_buf' :
           snd_buf'[sn].xmit > snd_buf[sn].xmit =>
               \/ time' - sentAt[sn] >= snd_buf[sn].rto
               \/ skips[sn] >= FastResend]_vars

\* A caller that sleeps as ikcp_check advises does not miss the planned flush.
CheckNeverLate ==
    updated /\ ~Deviates(current, ts_flush) =>
        TimeDiff(CheckTime(current), ts_flush) <= 0 \/ CheckTime(current) = current

\* "initialise the flush time at the first update" (line 1227): the first call of
\* ikcp_update flushes, since it plans the flush for now.
FirstUpdateFlushes == time > 0 => flushed >= 0
===========================================================================
