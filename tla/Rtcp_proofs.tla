------------------------------ MODULE Rtcp_proofs ------------------------------
(***************************************************************************)
(* Proofs about RTCP for every resolution of the clocks, every offset      *)
(* between them and every bound on the delays: a session stays usable and  *)
(* knows where its reports go, and the round-trip time is measured right.  *)
(***************************************************************************)
EXTENDS Rtcp, TLAPS

-----------------------------------------------------------------------------
(* Arithmetic of the times in reports *)

(* Quotient and remainder.                                                 *)
LEMMA DivMod ==
  ASSUME NEW b \in Int, NEW m \in Nat \ {0}
  PROVE  /\ b % m \in 0 .. m - 1 /\ b \div m \in Int
         /\ b = m * (b \div m) + (b % m)
  OBVIOUS

(* They are unique.                                                        *)
LEMMA DivModUnique ==
  ASSUME NEW b \in Int, NEW m \in Nat \ {0}, NEW q \in Int, NEW r \in 0 .. m - 1,
         b = m * q + r
  PROVE  b \div m = q /\ b % m = r
  OBVIOUS

(* Cutting the seconds to their low bits is a remainder of the whole time. *)
LEMMA DlsrIsRemainder ==
  ASSUME NEW t \in Nat
  PROVE  /\ timeval2dlsr(t) \in Nat
         /\ timeval2dlsr(t) = t - (SEC * SEC_MOD) * (t \div (SEC * SEC_MOD))
         /\ timeval2dlsr(t) < SEC * SEC_MOD
<1> DEFINE s == t \div SEC
           f == t % SEC
           q == s \div SEC_MOD
           r == s % SEC_MOD
<1>0. SEC \in Nat \ {0} /\ SEC_MOD \in Nat \ {0}
  BY RtcpAssumption
<1>1. f \in 0 .. SEC - 1 /\ s \in Int /\ t = SEC * s + f
  BY <1>0, DivMod
<1>2. r \in 0 .. SEC_MOD - 1 /\ q \in Int /\ s = SEC_MOD * q + r
  BY <1>0, <1>1, DivMod
<1>3. timeval2dlsr(t) = r * SEC + f
  BY DEF timeval2dlsr
<1> HIDE DEF s, f, q, r
<1>4. r * SEC + f \in Nat /\ r * SEC + f <= (SEC_MOD - 1) * SEC + (SEC - 1)
  <2>1. r * SEC \in Nat /\ (SEC_MOD - 1 - r) * SEC \in Nat
    BY <1>0, <1>2
  <2>2. QED  BY <1>0, <1>1, <1>2, <2>1
<1>5. SEC * SEC_MOD \in Nat \ {0} /\ r * SEC + f < SEC * SEC_MOD
  BY <1>0, <1>1, <1>2, <1>4
<1>6. t = (SEC * SEC_MOD) * q + (r * SEC + f)
  <2>1. SEC * (SEC_MOD * q + r) = SEC * (SEC_MOD * q) + r * SEC
    BY <1>0, <1>2
  <2>2. SEC * (SEC_MOD * q) = (SEC * SEC_MOD) * q
    BY <1>0, <1>2
  <2>3. (SEC * SEC_MOD) * q \in Int /\ r * SEC \in Int
    BY <1>0, <1>2
  <2>4. SEC * s = (SEC * SEC_MOD) * q + r * SEC
    BY <1>2, <2>1, <2>2
  <2>5. QED  BY <1>1, <2>3, <2>4
<1>7. t \div (SEC * SEC_MOD) = q
  BY <1>2, <1>4, <1>5, <1>6, DivModUnique
<1>8. r * SEC + f = t - (SEC * SEC_MOD) * q
  <2>1. (SEC * SEC_MOD) * q \in Int
    BY <1>2, <1>5
  <2>2. QED  BY <1>4, <1>6, <2>1
<1>9. QED  BY <1>3, <1>4, <1>5, <1>7, <1>8

(* rtpTimestamp2ms rounds to the nearest millisecond.                      *)
LEMMA Rounding ==
  ASSUME NEW x \in Nat
  PROVE  /\ rtpTimestamp2ms(x) \in Int
         /\ 2 * (rtpTimestamp2ms(x) * SEC - x * MS) <= SEC
         /\ 2 * (rtpTimestamp2ms(x) * SEC - x * MS) > -SEC
<1> DEFINE q == x \div SEC
           r == x % SEC
           b == 2 * r * MS + SEC
           k == b \div (2 * SEC)
           j == b % (2 * SEC)
<1>0. SEC \in Nat \ {0} /\ MS \in Nat \ {0}
  BY RtcpAssumption
<1>1. r \in 0 .. SEC - 1 /\ q \in Int /\ x = SEC * q + r
  BY <1>0, DivMod
<1>2. b \in Int /\ 2 * SEC \in Nat \ {0}
  BY <1>0, <1>1
<1>3. j \in 0 .. (2 * SEC) - 1 /\ k \in Int /\ b = (2 * SEC) * k + j
  BY <1>2, DivMod
<1>4. rtpTimestamp2ms(x) = q * MS + k
  BY DEF rtpTimestamp2ms
<1> HIDE DEF q, r, k, j
<1>5. 2 * ((q * MS + k) * SEC - x * MS) = 2 * (k * SEC) - 2 * (r * MS)
  <2>1. x * MS = q * MS * SEC + r * MS
    BY <1>0, <1>1
  <2>2. (q * MS + k) * SEC = q * MS * SEC + k * SEC
    BY <1>0, <1>1, <1>3
  <2>3. q * MS * SEC \in Int /\ k * SEC \in Int /\ r * MS \in Int
    BY <1>0, <1>1, <1>3
  <2>4. QED  BY <2>1, <2>2, <2>3
<1>6. 2 * (k * SEC) + j = 2 * (r * MS) + SEC
  BY <1>0, <1>1, <1>3
<1>7. k * SEC \in Int /\ r * MS \in Int /\ q * MS + k \in Int
  BY <1>0, <1>1, <1>3
<1>8. QED  BY <1>0, <1>3, <1>4, <1>5, <1>6, <1>7

(* What calculateRTT computes before its result becomes a uint32_t.        *)
RttMs(lsr, dlsr, t) ==
  rtpTimestamp2ms(timeval2dlsr(t)) - rtpTimestamp2ms(lsr) - rtpTimestamp2ms(dlsr)

(* Three roundings, each by half a millisecond at most.                    *)
LEMMA RttRounding ==
  ASSUME NEW s \in Nat, NEW h \in Nat, NEW t \in Nat, s + h <= t,
         t \div (SEC * SEC_MOD) = s \div (SEC * SEC_MOD)
  PROVE  LET ms == RttMs(timeval2dlsr(s), timeval2dlsr(h), t)
         IN  /\ ms \in Int
             /\ 2 * (ms * SEC - (t - s - h) * MS) \in -3 * SEC .. 3 * SEC
<1> DEFINE P == SEC * SEC_MOD
           c == timeval2dlsr(t)
           l == timeval2dlsr(s)
           d == timeval2dlsr(h)
<1>0. SEC \in Nat \ {0} /\ MS \in Nat \ {0} /\ SEC_MOD \in Nat \ {0}
  BY RtcpAssumption
<1>1. P \in Nat \ {0}
  BY <1>0
<1>2. /\ c \in Nat /\ c = t - P * (t \div P) /\ c < P
      /\ l \in Nat /\ l = s - P * (s \div P) /\ l < P
  BY DlsrIsRemainder
<1>3. c - l = t - s
  <2>1. P * (t \div P) \in Int
    BY <1>1
  <2>2. P * (t \div P) = P * (s \div P)
    OBVIOUS
  <2>3. QED  BY <1>2, <2>1, <2>2
<1>4. h \div P = 0
  <2>1. h \in 0 .. P - 1 /\ h = P * 0 + h
    BY <1>1, <1>2, <1>3
  <2>2. QED  BY <1>1, <2>1, DivModUnique
<1>5. d = h
  <2>1. d = h - P * (h \div P)
    BY DlsrIsRemainder
  <2>2. QED  BY <1>1, <1>4, <2>1
<1> DEFINE rc == rtpTimestamp2ms(c)
           rl == rtpTimestamp2ms(l)
           rd == rtpTimestamp2ms(d)
<1>6. /\ rc \in Int /\ 2 * (rc * SEC - c * MS) <= SEC /\ 2 * (rc * SEC - c * MS) > -SEC
      /\ rl \in Int /\ 2 * (rl * SEC - l * MS) <= SEC /\ 2 * (rl * SEC - l * MS) > -SEC
      /\ rd \in Int /\ 2 * (rd * SEC - h * MS) <= SEC /\ 2 * (rd * SEC - h * MS) > -SEC
  BY <1>2, <1>5, Rounding
<1>7. RttMs(timeval2dlsr(s), timeval2dlsr(h), t) = rc - rl - rd
  BY DEF RttMs
<1> HIDE DEF P, c, l, d, rc, rl, rd
<1>8. (rc - rl - rd) * SEC = rc * SEC - rl * SEC - rd * SEC
  BY <1>0, <1>6
<1>9. (t - s - h) * MS = c * MS - l * MS - h * MS
  <2>1. t - s - h = c - l - h
    BY <1>2, <1>3
  <2>2. (c - l - h) * MS = c * MS - l * MS - h * MS
    BY <1>0, <1>2
  <2>3. QED  BY <2>1, <2>2
<1>10. /\ rc * SEC \in Int /\ rl * SEC \in Int /\ rd * SEC \in Int
       /\ c * MS \in Int /\ l * MS \in Int /\ h * MS \in Int
  BY <1>0, <1>2, <1>6
<1>11. 2 * ((rc - rl - rd) * SEC - (t - s - h) * MS) \in -3 * SEC .. 3 * SEC
  BY <1>0, <1>6, <1>8, <1>9, <1>10
<1>12. QED  BY <1>6, <1>7, <1>11

(* The result is a small number of milliseconds.                           *)
LEMMA RttRange ==
  ASSUME NEW ms \in Int, NEW took \in 0 .. 2 * MaxDelay,
         2 * (ms * SEC - took * MS) \in -3 * SEC .. 3 * SEC
  PROVE  ms \in -1 .. 2 * MaxDelay * MS + 1
<1>0. SEC \in Nat \ {0} /\ MS \in Nat \ {0} /\ MaxDelay \in Nat
  BY RtcpAssumption
<1> DEFINE X == 2 * MaxDelay * MS
<1>1. took * MS \in Nat /\ X \in Nat /\ took * MS <= X
  <2>1. (2 * MaxDelay - took) * MS \in Nat
    BY <1>0
  <2>2. QED  BY <1>0, <2>1
<1>2. ASSUME ms < -1  PROVE FALSE
  <2>1. (-2 - ms) * SEC \in Nat
    BY <1>0, <1>2
  <2>2. ms * SEC <= -2 * SEC
    BY <1>0, <2>1
  <2>3. ms * SEC \in Int
    BY <1>0
  <2>4. QED  BY <1>0, <1>1, <2>2, <2>3
<1>3. ASSUME ms > X + 1  PROVE FALSE
  <2>1. (ms - X - 2) * SEC \in Nat /\ X * (SEC - 1) \in Nat
    BY <1>0, <1>1, <1>3
  <2>2. ms * SEC >= X + 2 * SEC
    <3>1. X * SEC >= X
      BY <1>0, <1>1, <2>1
    <3>2. ms * SEC >= X * SEC + 2 * SEC
      BY <1>0, <1>1, <2>1
    <3>3. X * SEC \in Int /\ ms * SEC \in Int
      BY <1>0, <1>1
    <3>4. QED  BY <1>0, <1>1, <3>1, <3>2, <3>3
  <2>3. ms * SEC \in Int /\ took * MS \in Int
    BY <1>0, <1>1
  <2>4. QED  BY <1>0, <1>1, <2>2, <2>3
<1>4. QED  BY <1>1, <1>2, <1>3

-----------------------------------------------------------------------------
(* The inductive invariant *)

SenderRecord == [up : BOOLEAN, rtp_ssrc : Ssrc, rtcp_timer : Int,
                 rss_RTT_delay : Int, measured : BOOLEAN, took : Int,
                 wrapped : BOOLEAN]

RtcpTypeOK ==
  /\ clock \in Nat
  /\ sender \in SenderRecord

\* A datagram is under way since it was sent, and not for longer than MaxDelay.
UnderWay(d) == d.sent \in Nat /\ d.sent <= clock /\ clock <= d.sent + MaxDelay

\* What the receiver keeps of a sender report is that report's time and the
\* time it arrived, by the receiver's clock.
ReportKept ==
  /\ rrs.sr_sent \in Nat /\ rrs.sr_took \in 0 .. MaxDelay /\ rrs.seen \in BOOLEAN
  /\ rrs.sr_sent + rrs.sr_took <= clock
  /\ rrs.seen => /\ rrs.rrs_timestamp_SR = rrs.sr_sent + rrs.sr_took + Offset
                 /\ rrs.rrs_timestamp_SR_ntp = TV2NTP_64(rrs.sr_sent)
  /\ ~rrs.seen => rrs = NoReport

\* A receiver report tells the time of the sender report that it answers and
\* how long the receiver held that one.
AnswerRight(d) ==
  /\ d.answers \in BOOLEAN /\ d.lsr \in Nat /\ d.dlsr \in Nat
  /\ d.sr_sent \in Nat /\ d.sr_took \in 0 .. MaxDelay
  /\ d.sr_sent + d.sr_took <= d.sent
  /\ d.answers => /\ d.lsr = timeval2dlsr(d.sr_sent)
                  /\ d.dlsr = timeval2dlsr(d.sent - d.sr_sent - d.sr_took)

NetRight ==
  \A d \in rtcp_net :
    /\ UnderWay(d)
    /\ d.type = "RTCP_SR" => d.ntp = TV2NTP_64(d.sent)
    /\ d.type = "RTCP_RR" => AnswerRight(d)

\* Only the elapsed time counts, so that this holds whatever Offset is.
RttInv == RtcpTypeOK /\ ReportKept /\ NetRight /\ RttMeasured

(* A receiver that has just started has nothing to report.                 *)
LEMMA RttInit == RtcpInit => RttInv
<1> SUFFICES ASSUME RtcpInit PROVE RttInv
  OBVIOUS
<1>1. RtcpTypeOK
  BY SsrcAssumption DEF RtcpInit, RtcpTypeOK, SenderRecord
<1>2. ReportKept
  BY RtcpAssumption DEF RtcpInit, ReportKept, NoReport
<1>3. NetRight
  BY DEF RtcpInit, NetRight
<1>4. RttMeasured
  BY DEF RtcpInit, RttMeasured
<1>5. QED  BY <1>1, <1>2, <1>3, <1>4 DEF RttInv

(* Nothing but the reports and the clock changes the measurement.          *)
LEMMA RttUnchanged ==
  ASSUME RttInv, UNCHANGED <<clock, sender, rrs>>, rtcp_net' = rtcp_net
  PROVE  RttInv'
  BY DEF RttInv, RtcpTypeOK, ReportKept, NetRight, UnderWay, AnswerRight,
         RttMeasured

(* The sender starts or ends; a measurement of an earlier run is dropped.  *)
LEMMA RttSenderStarts ==
  ASSUME RttInv, NEW ssrc \in Ssrc, rtcp_send_init(ssrc) \/ SenderStops
  PROVE  RttInv'
<1>1. /\ sender' \in SenderRecord
      /\ sender'.measured => /\ sender.measured
                             /\ sender'.wrapped = sender.wrapped
                             /\ sender'.took = sender.took
                             /\ sender'.rss_RTT_delay = sender.rss_RTT_delay
  <2>0. clock + Report_interval \in Int
    BY RtcpAssumption DEF RttInv, RtcpTypeOK, Report_interval
  <2>1. CASE rtcp_send_init(ssrc)
    BY <2>0, <2>1 DEF rtcp_send_init, RttInv, RtcpTypeOK, SenderRecord
  <2>2. CASE SenderStops
    BY <2>2 DEF SenderStops, RttInv, RtcpTypeOK, SenderRecord
  <2>3. QED  BY <2>1, <2>2
<1>2. UNCHANGED <<clock, rrs, rtcp_net>>
  BY DEF rtcp_send_init, SenderStops
<1>3. RtcpTypeOK' /\ ReportKept' /\ NetRight'
  BY <1>1, <1>2 DEF RttInv, RtcpTypeOK, ReportKept, NetRight, UnderWay, AnswerRight
<1>4. RttMeasured'
  BY <1>1 DEF RttInv, RttMeasured
<1>5. QED  BY <1>3, <1>4 DEF RttInv

(* The fields of a sender report.                                          *)
LEMMA SRFields ==
  /\ rtcp_send_SR.type = "RTCP_SR" /\ rtcp_send_SR.sent = clock
  /\ rtcp_send_SR.ntp = TV2NTP_64(clock)
  BY DEF rtcp_send_SR, encode, rtcp_set_hdr

(* A sender report leaves.                                                 *)
LEMMA RttSenderReports ==
  ASSUME RttInv, NEW sendto \in BOOLEAN, rtcp_send_send_dispatch(sendto)
  PROVE  RttInv'
<1>0. UNCHANGED <<clock, rrs>>
  BY DEF rtcp_send_send_dispatch
<1>1. /\ sender' \in SenderRecord
      /\ sender'.measured = sender.measured /\ sender'.wrapped = sender.wrapped
      /\ sender'.took = sender.took /\ sender'.rss_RTT_delay = sender.rss_RTT_delay
  <2>1. sender \in SenderRecord /\ Report_interval \in Int
    BY RtcpAssumption DEF RttInv, RtcpTypeOK, Report_interval
  <2>2. CASE sender' = [sender EXCEPT !.rtcp_timer = @ + Report_interval]
    BY <2>1, <2>2 DEF SenderRecord
  <2>3. CASE sender' = [sender EXCEPT !.up = FALSE]
    BY <2>1, <2>3 DEF SenderRecord
  <2>4. QED  BY <2>2, <2>3 DEF rtcp_send_send_dispatch
<1>2. rtcp_net' \subseteq rtcp_net \cup {rtcp_send_SR}
  BY DEF rtcp_send_send_dispatch
<1>3. NetRight'
  <2> SUFFICES ASSUME NEW d \in rtcp_net'
               PROVE  /\ UnderWay(d)'
                      /\ d.type = "RTCP_SR" => d.ntp = TV2NTP_64(d.sent)
                      /\ d.type = "RTCP_RR" => AnswerRight(d)
    BY DEF NetRight, AnswerRight
  <2>1. CASE d \in rtcp_net
    BY <1>0, <2>1 DEF RttInv, NetRight, UnderWay
  <2>2. CASE d = rtcp_send_SR
    BY <1>0, <2>2, SRFields, RtcpAssumption DEF RttInv, RtcpTypeOK, UnderWay
  <2>3. QED  BY <1>2, <2>1, <2>2
<1>4. RtcpTypeOK' /\ ReportKept'
  BY <1>0, <1>1 DEF RttInv, RtcpTypeOK, ReportKept
<1>5. RttMeasured'
  BY <1>1 DEF RttInv, RttMeasured
<1>6. QED  BY <1>3, <1>4, <1>5 DEF RttInv

(* The fields of a receiver report.                                        *)
LEMMA RRFields ==
  /\ rtcp_send_RR.type = "RTCP_RR" /\ rtcp_send_RR.to = rtcp_dst_addr
  /\ rtcp_send_RR.lsr = ntp2lsr(rrs.rrs_timestamp_SR_ntp)
  /\ rtcp_send_RR.dlsr = timeval2dlsr(RcvClock - rrs.rrs_timestamp_SR)
  /\ rtcp_send_RR.answers = rrs.seen /\ rtcp_send_RR.sent = clock
  /\ rtcp_send_RR.sr_sent = rrs.sr_sent /\ rtcp_send_RR.sr_took = rrs.sr_took
  BY DEF rtcp_send_RR, encode, rtcp_set_hdr

(* A receiver report leaves: the receiver's clock cancels out of the time  *)
(* that the sender report was held.                                        *)
LEMMA RttReceiverReports ==
  ASSUME RttInv, NEW sendto \in BOOLEAN, rtcp_rcv_send_dispatch(sendto)
  PROVE  RttInv'
<1>0. UNCHANGED <<clock, rrs, sender>>
  BY DEF rtcp_rcv_send_dispatch
<1>1. rtcp_net' \subseteq rtcp_net \cup {rtcp_send_RR}
  BY DEF rtcp_rcv_send_dispatch
<1>2. AnswerRight(rtcp_send_RR)
  <2>1. /\ rrs.sr_sent \in Nat /\ rrs.sr_took \in 0 .. MaxDelay
        /\ rrs.seen \in BOOLEAN /\ rrs.sr_sent + rrs.sr_took <= clock
        /\ clock \in Nat /\ Offset \in Nat /\ MaxDelay \in Nat
    BY RtcpAssumption DEF RttInv, RtcpTypeOK, ReportKept
  <2>2. ASSUME rrs.seen
        PROVE  /\ ntp2lsr(rrs.rrs_timestamp_SR_ntp) = timeval2dlsr(rrs.sr_sent)
               /\ RcvClock - rrs.rrs_timestamp_SR = clock - rrs.sr_sent - rrs.sr_took
    <3>1. /\ rrs.rrs_timestamp_SR = rrs.sr_sent + rrs.sr_took + Offset
          /\ rrs.rrs_timestamp_SR_ntp = TV2NTP_64(rrs.sr_sent)
      BY <2>2 DEF RttInv, ReportKept
    <3>2. ntp2lsr(TV2NTP_64(rrs.sr_sent)) = timeval2dlsr(rrs.sr_sent)
      BY DEF ntp2lsr, TV2NTP_64, timeval2dlsr
    <3>3. RcvClock - rrs.rrs_timestamp_SR = clock - rrs.sr_sent - rrs.sr_took
      BY <2>1, <3>1 DEF RcvClock
    <3>4. QED  BY <3>1, <3>2, <3>3
  <2>3. ntp2lsr(rrs.rrs_timestamp_SR_ntp) \in Nat
    <3>1. CASE rrs.seen
      BY <2>1, <2>2, <3>1, DlsrIsRemainder
    <3>2. CASE ~rrs.seen
      <4>1. ntp2lsr([sec |-> 0, frac |-> 0]) = (0 % SEC_MOD) * SEC + 0
        BY DEF ntp2lsr
      <4>2. (0 % SEC_MOD) * SEC + 0 \in Nat
        BY RtcpAssumption
      <4>3. QED  BY <3>2, <4>1, <4>2 DEF RttInv, ReportKept, NoReport
    <3>3. QED  BY <2>1, <3>1, <3>2
  <2>4. timeval2dlsr(RcvClock - rrs.rrs_timestamp_SR) \in Nat
    <3>1. CASE rrs.seen
      <4>1. clock - rrs.sr_sent - rrs.sr_took \in Nat
        BY <2>1
      <4>2. QED  BY <2>2, <3>1, <4>1, DlsrIsRemainder
    <3>2. CASE ~rrs.seen
      <4>1. RcvClock - rrs.rrs_timestamp_SR \in Nat
        BY <2>1, <3>2 DEF RttInv, ReportKept, NoReport, RcvClock
      <4>2. QED  BY <4>1, DlsrIsRemainder
    <3>3. QED  BY <2>1, <3>1, <3>2
  <2>5. QED  BY <2>1, <2>2, <2>3, <2>4, RRFields DEF AnswerRight
<1>3. NetRight'
  <2> SUFFICES ASSUME NEW d \in rtcp_net'
               PROVE  /\ UnderWay(d)'
                      /\ d.type = "RTCP_SR" => d.ntp = TV2NTP_64(d.sent)
                      /\ d.type = "RTCP_RR" => AnswerRight(d)
    BY DEF NetRight, AnswerRight
  <2>1. CASE d \in rtcp_net
    BY <1>0, <2>1 DEF RttInv, NetRight, UnderWay
  <2>2. CASE d = rtcp_send_RR
    BY <1>0, <1>2, <2>2, RRFields, RtcpAssumption DEF RttInv, RtcpTypeOK, UnderWay
  <2>3. QED  BY <1>1, <2>1, <2>2
<1>4. RtcpTypeOK' /\ ReportKept' /\ RttMeasured'
  BY <1>0 DEF RttInv, RtcpTypeOK, ReportKept, RttMeasured
<1>5. QED  BY <1>3, <1>4 DEF RttInv

(* A sender report arrives.                                                *)
LEMMA RttReceiverHears ==
  ASSUME RttInv, NEW d \in rtcp_net, rtcp_rcv_rcv_dispatch(d)
  PROVE  RttInv'
<1>0. UNCHANGED <<clock, sender, rtcp_net>> /\ d.type = "RTCP_SR"
  BY DEF rtcp_rcv_rcv_dispatch, rtcp_receive
<1>1. RtcpTypeOK' /\ NetRight' /\ RttMeasured'
  BY <1>0 DEF RttInv, RtcpTypeOK, NetRight, UnderWay, AnswerRight, RttMeasured
<1>2. ReportKept'
  <2>1. CASE rtcp_receive_SR(d)
    <3>1. /\ d.sent \in Nat /\ d.sent <= clock /\ clock <= d.sent + MaxDelay
          /\ d.ntp = TV2NTP_64(d.sent) /\ clock \in Nat /\ Offset \in Nat
          /\ MaxDelay \in Nat
      BY <1>0, RtcpAssumption DEF RttInv, RtcpTypeOK, NetRight, UnderWay
    <3>2. QED  BY <1>0, <2>1, <3>1 DEF rtcp_receive_SR, ReportKept, RcvClock
  <2>2. CASE UNCHANGED rrs
    BY <1>0, <2>2 DEF RttInv, ReportKept
  <2>3. QED  BY <2>1, <2>2 DEF rtcp_rcv_rcv_dispatch, rtcp_receive
<1>3. QED  BY <1>1, <1>2 DEF RttInv

(* A receiver report arrives, and the round-trip time is computed.         *)
LEMMA RttSenderHears ==
  ASSUME RttInv, NEW d \in rtcp_net, rtcp_send_rcv_dispatch(d)
  PROVE  RttInv'
<1>0. UNCHANGED <<clock, rrs, rtcp_net>> /\ d.type = "RTCP_RR"
  BY DEF rtcp_send_rcv_dispatch
<1>1. /\ d.sent \in Nat /\ d.sent <= clock /\ clock <= d.sent + MaxDelay
      /\ AnswerRight(d) /\ clock \in Nat /\ MaxDelay \in Nat /\ sender \in SenderRecord
  BY <1>0, RtcpAssumption DEF RttInv, RtcpTypeOK, NetRight, UnderWay
<1>2. CASE UNCHANGED sender
  BY <1>0, <1>2, RttUnchanged
<1>3. CASE rtcp_receive_RR(d)
  <2> DEFINE h == d.sent - d.sr_sent - d.sr_took
             took == d.sr_took + (clock - d.sent)
             ms == RttMs(d.lsr, d.dlsr, clock)
  <2>1. /\ d.sr_sent \in Nat /\ d.sr_took \in 0 .. MaxDelay /\ d.answers \in BOOLEAN
        /\ d.sr_sent + d.sr_took <= d.sent
    BY <1>1 DEF AnswerRight
  <2>2. /\ h \in Nat /\ d.sr_sent + h <= clock /\ took \in 0 .. 2 * MaxDelay
        /\ clock - d.sr_sent - h = took
    BY <1>1, <2>1
  <2>3. calculateRTT(d.lsr, d.dlsr, clock) = ms % UINT_MOD
    BY DEF calculateRTT, RttMs
  <2>4. calculateRTT(d.lsr, d.dlsr, clock) \in Int
    <3>1. timeval2dlsr(clock) \in Nat /\ d.lsr \in Nat /\ d.dlsr \in Nat
      BY <1>1, DlsrIsRemainder DEF AnswerRight
    <3>2. ms \in Int
      BY <3>1, Rounding DEF RttMs
    <3>3. QED  BY <2>3, <3>2, RtcpAssumption
  <2> DEFINE wraps == clock \div (SEC * SEC_MOD) # d.sr_sent \div (SEC * SEC_MOD)
  <2>5. /\ sender' \in SenderRecord
        /\ sender'.rss_RTT_delay = ms % UINT_MOD
        /\ sender'.measured = d.answers /\ sender'.took = took
        /\ sender'.wrapped = wraps
    <3> DEFINE rtt == calculateRTT(d.lsr, d.dlsr, clock)
    <3>1. sender' = [sender EXCEPT !.rss_RTT_delay = rtt, !.measured = d.answers,
                                   !.took = took, !.wrapped = wraps]
      BY <1>3 DEF rtcp_receive_RR
    <3>2. wraps \in BOOLEAN /\ rtt \in Int /\ took \in Int /\ rtt = ms % UINT_MOD
      BY <2>2, <2>3, <2>4
    <3> HIDE DEF wraps, rtt, took, ms
    <3>3. QED  BY <1>1, <2>1, <3>1, <3>2 DEF SenderRecord
  <2>6. RttMeasured'
    <3> SUFFICES ASSUME sender'.measured, ~sender'.wrapped
                 PROVE  \E n \in -1 .. 2 * MaxDelay * MS + 1 :
                          /\ sender'.rss_RTT_delay = n % UINT_MOD
                          /\ 2 * (n * SEC - sender'.took * MS) \in -3 * SEC .. 3 * SEC
      BY DEF RttMeasured
    <3>1. d.lsr = timeval2dlsr(d.sr_sent) /\ d.dlsr = timeval2dlsr(h)
      BY <1>1, <2>5 DEF AnswerRight
    <3>2. clock \div (SEC * SEC_MOD) = d.sr_sent \div (SEC * SEC_MOD)
      BY <2>5
    <3> HIDE DEF h, took, ms, wraps
    <3>3. /\ ms \in Int
          /\ 2 * (ms * SEC - (clock - d.sr_sent - h) * MS) \in -3 * SEC .. 3 * SEC
      BY <1>1, <2>1, <2>2, <3>1, <3>2, RttRounding DEF ms
    <3>4. ms \in -1 .. 2 * MaxDelay * MS + 1
      BY <2>2, <3>3, RttRange
    <3>5. QED  BY <2>2, <2>5, <3>3, <3>4
  <2>7. QED
    BY <1>0, <2>5, <2>6 DEF RttInv, RtcpTypeOK, ReportKept, NetRight, UnderWay, AnswerRight
<1>4. QED  BY <1>2, <1>3 DEF rtcp_send_rcv_dispatch

(* The clock advances; what is under way for too long is lost.             *)
LEMMA RttTick ==
  ASSUME RttInv, Tick
  PROVE  RttInv'
<1>1. clock \in Nat /\ clock' = clock + 1
  BY DEF RttInv, RtcpTypeOK, Tick
<1>2. /\ UNCHANGED <<sender, rrs>>
      /\ rtcp_net' = {d \in rtcp_net : clock' <= d.sent + MaxDelay}
  BY DEF Tick
<1>3. NetRight'
  BY <1>1, <1>2 DEF RttInv, NetRight, UnderWay, AnswerRight
<1>4. ReportKept'
  BY <1>1, <1>2, RtcpAssumption DEF RttInv, ReportKept
<1>5. RtcpTypeOK' /\ RttMeasured'
  BY <1>1, <1>2 DEF RttInv, RtcpTypeOK, RttMeasured
<1>6. QED  BY <1>3, <1>4, <1>5 DEF RttInv

(* The RTP packets and failing input leave the measurement alone.          *)
LEMMA RttNext ==
  ASSUME RttInv, [RtpInput(Packet) \/ RtcpNext]_vars
  PROVE  RttInv'
<1>1. CASE RtpInput(Packet)
  BY <1>1, RttUnchanged DEF RtpInput, rtcpVars
<1>2. CASE RtcpInputFails
  BY <1>2, RttUnchanged DEF RtcpInputFails, rtcpVars
<1>3. CASE UNCHANGED vars
  BY <1>3, RttUnchanged DEF vars, rtcpVars
<1>4. CASE SenderStops
  BY <1>4, SsrcAssumption, RttSenderStarts
<1>5. CASE \E ssrc \in Ssrc : rtcp_send_init(ssrc)
  BY <1>5, RttSenderStarts
<1>6. CASE \E sendto \in BOOLEAN : \/ rtcp_send_send_dispatch(sendto)
                                   \/ rtcp_rcv_send_dispatch(sendto)
  BY <1>6, RttSenderReports, RttReceiverReports
<1>7. CASE \E d \in rtcp_net : rtcp_send_rcv_dispatch(d) \/ rtcp_rcv_rcv_dispatch(d)
  BY <1>7, RttSenderHears, RttReceiverHears
<1>8. CASE Tick
  BY <1>8, RttTick
<1>9. QED
  BY <1>1, <1>2, <1>3, <1>4, <1>5, <1>6, <1>7, <1>8 DEF RtcpNext

(* The round-trip time that calculateRTT computes is the time the sender   *)
(* report and its answer were under way, within one and a half             *)
(* milliseconds: for any resolution of the clocks, any offset between      *)
(* them, and any loss, duplication and reordering of the reports.          *)
THEOREM RoundTripIsMeasured == RtcpSpec => []RttMeasured
<1>1. RttInv /\ [RtpInput(Packet) \/ RtcpNext]_vars => RttInv'
  BY RttNext
<1>2. RttInv => RttMeasured
  BY DEF RttInv
<1>3. QED  BY RttInit, <1>1, <1>2, PTL DEF RtcpSpec

-----------------------------------------------------------------------------
(* Where the reports go *)

(* Every step keeps the address of the first source, and every report has  *)
(* one.                                                                    *)
LEMMA DestinationNext ==
  ASSUME ReportsHaveDestination, [RtpInput(Packet) \/ RtcpNext]_vars
  PROVE  ReportsHaveDestination'
<1> DEFINE Locked == rtp_ssrc # 0 => rtcp_dst_addr # {}
           Addressed == \A d \in rtcp_net : d.type = "RTCP_RR" => d.to # {}
<1>0. Locked /\ Addressed
  BY DEF ReportsHaveDestination
<1>1. CASE RtpInput(Packet)
  <2>1. UNCHANGED rtcp_net /\ RcvNext(Packet)
    BY <1>1 DEF RtpInput, rtcpVars
  <2>2. ASSUME UNCHANGED <<rtp_ssrc, rtcp_dst_addr>>  PROVE Locked'
    BY <1>0, <2>2
  <2>3. ASSUME NEW p, AcceptSender(p)  PROVE Locked'
    BY <1>0, <2>3 DEF AcceptSender
  <2>4. ASSUME NEW p, NEW failure, receive_and_playout(p, failure)
        PROVE  AcceptSender(p) \/ UNCHANGED <<rtp_ssrc, rtcp_dst_addr>>
    BY <2>4 DEF receive_and_playout, IgnoreHeader, DropEmpty, DropOutOfOrder,
                PlayPacket, FailPacket, ChangedCoding, AcceptPacket
  <2>5. Locked'
    BY <2>1, <2>2, <2>3, <2>4 DEF RcvNext, InputError, InputClosed
  <2>6. QED  BY <1>0, <2>1, <2>5 DEF ReportsHaveDestination
<1>2. ASSUME UNCHANGED <<rtp_ssrc, rtcp_dst_addr>>, rtcp_net' \subseteq rtcp_net
      PROVE  ReportsHaveDestination'
  BY <1>0, <1>2 DEF ReportsHaveDestination
<1>3. CASE \E ssrc \in Ssrc : rtcp_send_init(ssrc)
  BY <1>2, <1>3 DEF rtcp_send_init, rcvVars
<1>4. CASE SenderStops
  BY <1>2, <1>4 DEF SenderStops, rcvVars
<1>5. ASSUME NEW sendto \in BOOLEAN, rtcp_send_send_dispatch(sendto)
      PROVE  ReportsHaveDestination'
  <2>1. /\ UNCHANGED <<rtp_ssrc, rtcp_dst_addr>>
        /\ rtcp_net' \subseteq rtcp_net \cup {rtcp_send_SR}
    BY <1>5 DEF rtcp_send_send_dispatch, rcvVars
  <2>2. rtcp_send_SR.type # "RTCP_RR"
    BY SRFields
  <2>3. QED  BY <1>0, <2>1, <2>2 DEF ReportsHaveDestination
<1>6. ASSUME NEW sendto \in BOOLEAN, rtcp_rcv_send_dispatch(sendto)
      PROVE  ReportsHaveDestination'
  <2>1. /\ UNCHANGED <<rtp_ssrc, rtcp_dst_addr>>
        /\ \/ rtcp_net' = rtcp_net
           \/ rtp_ssrc # 0 /\ rtcp_net' = rtcp_net \cup {rtcp_send_RR}
    BY <1>6 DEF rtcp_rcv_send_dispatch, rtcp_send_RRwanted
  <2>2. rtcp_send_RR.to = rtcp_dst_addr
    BY RRFields
  <2>3. QED  BY <1>0, <2>1, <2>2 DEF ReportsHaveDestination
<1>7. ASSUME NEW d \in rtcp_net, rtcp_send_rcv_dispatch(d)
      PROVE  ReportsHaveDestination'
  BY <1>2, <1>7 DEF rtcp_send_rcv_dispatch, rcvVars
<1>8. ASSUME NEW d \in rtcp_net, rtcp_rcv_rcv_dispatch(d)
      PROVE  ReportsHaveDestination'
  <2>1. UNCHANGED rtcp_net /\ LockSource(d.ssrc, SenderAddr)
    BY <1>8 DEF rtcp_rcv_rcv_dispatch, rtcp_receive
  <2>2. QED  BY <1>0, <2>1 DEF LockSource, ReportsHaveDestination
<1>9. CASE RtcpInputFails
  BY <1>2, <1>9 DEF RtcpInputFails, rtcpVars
<1>10. CASE Tick
  BY <1>2, <1>10 DEF Tick, rcvVars
<1>11. CASE UNCHANGED vars
  BY <1>2, <1>11 DEF vars, rcvVars, rtcpVars
<1>12. QED
  BY <1>1, <1>3, <1>4, <1>5, <1>6, <1>7, <1>8, <1>9, <1>10, <1>11 DEF RtcpNext

(* Whichever of RTP and RTCP packets, of any sources and in any order, has *)
(* locked the session, its receiver reports have an address to go to.      *)
THEOREM ReportsReachSomeone == RtcpSpec => []ReportsHaveDestination
<1>1. RtcpInit => ReportsHaveDestination
  BY DEF RtcpInit, RcvInit, ReportsHaveDestination
<1>2. ReportsHaveDestination /\ [RtpInput(Packet) \/ RtcpNext]_vars
        => ReportsHaveDestination'
  BY DestinationNext
<1>3. QED  BY <1>1, <1>2, PTL DEF RtcpSpec

-----------------------------------------------------------------------------
(* The session between two callbacks *)

(* No call of receive_and_playout leaves a running session unusable.       *)
LEMMA ReceiveReusable ==
  ASSUME SessionReusable, NEW p, NEW failure, receive_and_playout(p, failure)
  PROVE  SessionReusable'
<1>1. CASE IgnoreHeader(p) \/ DropEmpty(p) \/ PlayPacket(p)
  BY <1>1 DEF IgnoreHeader, DropEmpty, PlayPacket, SessionReusable, ReturnOK, seqVars
<1>2. CASE DropOutOfOrder(p) \/ FailPacket(p, failure) \/ ChangedCoding(p)
  <2>1. sphone_exit' # 0
    BY <1>2 DEF DropOutOfOrder, FailPacket, ChangedCoding, AcceptPacket, AcceptSender,
                ReturnError, ErrorReturnOK, ErrorReturnError
  <2>2. QED  BY <2>1 DEF SessionReusable
<1>3. QED  BY <1>1, <1>2 DEF receive_and_playout

(* Nor does a callback of the RTCP socket or of its timer.                 *)
LEMMA ReusableNext ==
  ASSUME SessionReusable, [RtpInput(Packet) \/ RtcpNext]_vars
  PROVE  SessionReusable'
<1>1. ASSUME UNCHANGED <<sphone_exit, dec_buf, rs_freed, seq_cur, seq_prev>>
      PROVE  SessionReusable'
  BY <1>1 DEF SessionReusable
<1>2. CASE RtpInput(Packet)
  <2>1. CASE InputError
    BY <2>1 DEF InputError, SessionReusable, ReturnOK, seqVars
  <2>2. CASE InputClosed
    BY <2>2 DEF InputClosed, SessionReusable, ErrorReturnOK
  <2>3. QED  BY <1>2, <2>1, <2>2, ReceiveReusable DEF RtpInput, RcvNext
<1>3. CASE \E ssrc \in Ssrc : rtcp_send_init(ssrc)
  BY <1>1, <1>3 DEF rtcp_send_init, rcvVars
<1>4. CASE SenderStops \/ Tick \/ UNCHANGED vars
  BY <1>1, <1>4 DEF SenderStops, Tick, vars, rcvVars
<1>5. CASE \E sendto \in BOOLEAN : rtcp_send_send_dispatch(sendto)
  BY <1>1, <1>5 DEF rtcp_send_send_dispatch, rcvVars
<1>6. CASE \E sendto \in BOOLEAN : rtcp_rcv_send_dispatch(sendto)
  <2>1. UNCHANGED <<dec_buf, seq_cur, seq_prev>> /\ sphone_exit = 0
    BY <1>6 DEF rtcp_rcv_send_dispatch, rcvRest, seqVars
  <2>2. UNCHANGED <<rs_freed, sphone_exit>> \/ sphone_exit' = sphone_exit + 2
    BY <1>6 DEF rtcp_rcv_send_dispatch, ReturnOK, ErrorReturnError
  <2>3. QED  BY <2>1, <2>2 DEF SessionReusable
<1>7. CASE \E d \in rtcp_net : rtcp_send_rcv_dispatch(d)
  BY <1>1, <1>7 DEF rtcp_send_rcv_dispatch, rcvVars
<1>8. CASE \E d \in rtcp_net : rtcp_rcv_rcv_dispatch(d)
  BY <1>1, <1>8 DEF rtcp_rcv_rcv_dispatch, rcvRest, seqVars
<1>9. CASE RtcpInputFails
  BY <1>9 DEF RtcpInputFails, ReturnError, ErrorReturnError, SessionReusable
<1>10. QED
  BY <1>2, <1>3, <1>4, <1>5, <1>6, <1>7, <1>8, <1>9 DEF RtcpNext

(* The RTP socket, the RTCP socket and the report timer share a session:   *)
(* as long as the event loop runs, none of their callbacks finds it freed, *)
(* its decode buffer dangling, or its sequence numbers apart.              *)
THEOREM SharedSessionReusable == RtcpSpec => []SessionReusable
<1>1. RtcpInit => SessionReusable
  BY DEF RtcpInit, RcvInit, SessionReusable
<1>2. SessionReusable /\ [RtpInput(Packet) \/ RtcpNext]_vars => SessionReusable'
  BY ReusableNext
<1>3. QED  BY <1>1, <1>2, PTL DEF RtcpSpec
=============================================================================
