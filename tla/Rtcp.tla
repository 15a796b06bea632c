--------------------------------- MODULE Rtcp ----------------------------------
(***************************************************************************)
(* Sender and receiver reports: src/sphone_rtcp.c, sphone_rtcp_send.c and  *)
(* sphone_rtcp_rcv.c.  The receiver is the one of module Receiver; its RTP *)
(* and RTCP callbacks share rtp_ssrc and rtcp_dst_addr.  The sender is the *)
(* program send on another host, with another clock, and may be started    *)
(* again with a new ssrc.  RTCP datagrams are lost, duplicated, delayed    *)
(* and reordered.                                                          *)
(*                                                                         *)
(* Times are counted in ticks of 1/SEC of a second, the resolution of the  *)
(* times in reports; `clock' is the sender's.  Left out is what no code    *)
(* reads: packet counters, rrs_prev_* and the fraction lost, the contents  *)
(* of RR_block.lost, which is sent without having been set, and BYE, which *)
(* is never sent.                                                          *)
(***************************************************************************)
EXTENDS Receiver

CONSTANTS
  SEC,          \* 65536: ticks of a second
  MS,           \* 1000: milliseconds of a second
  SEC_MOD,      \* 2^16: reports carry 16 bits of the seconds
  UINT_MOD,     \* 2^32
  RTCP_REPORT_INTERVAL_S,
  Offset,       \* the receiver's clock minus the sender's, in ticks
  SenderAddr,   \* address of the sender's host
  MaxDelay,     \* bound: ticks that a datagram is under way
  MaxLate       \* bound: ticks that the event loop calls a timeout too late

ASSUME RtcpAssumption ==
  /\ {SEC, MS, SEC_MOD, UINT_MOD, RTCP_REPORT_INTERVAL_S} \subseteq Nat \ {0}
  /\ {Offset, MaxDelay, MaxLate} \subseteq Nat
  /\ SenderAddr \in Addr

VARIABLES
  clock,    \* the sender's gettimestamp()
  sender,   \* the sender's rtp_session and rtcp_send_stats
  rrs,      \* rtcp_rcv_stats of the receiver
  rtcp_timer,  \* the receiver's next report
  rtcp_net  \* RTCP datagrams under way

rtcpVars == <<clock, sender, rrs, rtcp_timer, rtcp_net>>
vars == <<rcvVars, rtcpVars>>

Report_interval == RTCP_REPORT_INTERVAL_S * SEC
RcvClock == clock + Offset

-----------------------------------------------------------------------------
(* Conversions of sphone_rtcp.c and sphone_rtp.c *)

\* The time as 16 bits of seconds and 16 bits of a fraction.
timeval2dlsr(t) == ((t \div SEC) % SEC_MOD) * SEC + (t % SEC)

\* TV2NTP_64 keeps all of the seconds and 32 bits of the fraction;
\* rtcp_receive_SR takes the middle 32 bits, ntp2lsr masks them once more.
TV2NTP_64(t) == [sec |-> t \div SEC, frac |-> t % SEC]
ntp2lsr(ntp) == (ntp.sec % SEC_MOD) * SEC + ntp.frac

\* Rounds the fraction to the nearest millisecond.
rtpTimestamp2ms(ts) ==
  (ts \div SEC) * MS + (2 * (ts % SEC) * MS + SEC) \div (2 * SEC)

\* uint32_t arithmetic.
calculateRTT(lsr, dlsr, t) ==
  (rtpTimestamp2ms(timeval2dlsr(t)) - rtpTimestamp2ms(lsr)
     - rtpTimestamp2ms(dlsr)) % UINT_MOD

-----------------------------------------------------------------------------
(* Datagrams; the fields sent, sr_sent and sr_took are history. *)

Report == {"RTCP_SR", "RTCP_RR"}

rtcp_set_hdr(packet_type, ssrc) == [type |-> packet_type, ssrc |-> ssrc]

\* Header and block as bytes in network order; decoding gives both again.
encode(hdr, block) ==
  [f \in DOMAIN hdr \cup DOMAIN block |-> IF f \in DOMAIN hdr THEN hdr[f] ELSE block[f]]

\* rtp_session_new and the memset of rtcp_rcv_stats_new.
NoReport == [rrs_timestamp_SR |-> 0, rrs_timestamp_SR_ntp |-> [sec |-> 0, frac |-> 0],
             seen |-> FALSE, sr_sent |-> 0, sr_took |-> 0]

RtcpInit ==
  /\ RcvInit
  /\ clock = 0
  /\ sender = [up |-> FALSE, rtp_ssrc |-> 0, rtcp_timer |-> 0,
               rss_RTT_delay |-> 0, measured |-> FALSE, took |-> 0, wrapped |-> FALSE]
  /\ rrs = NoReport
  /\ rtcp_timer = RcvClock + Report_interval   \* rtcp_rcv_init
  /\ rtcp_net = {}

-----------------------------------------------------------------------------
(* The sender *)

\* The program send is started: rtp_init draws an ssrc, rtcp_send_init sets
\* the timer.
rtcp_send_init(ssrc) ==
  /\ ~sender.up /\ ssrc \in Ssrc \ {0} /\ ssrc > sender.rtp_ssrc
  /\ sender' = [sender EXCEPT !.up = TRUE, !.rtp_ssrc = ssrc,
                  !.rtcp_timer = clock + Report_interval, !.measured = FALSE]
  /\ UNCHANGED <<rcvVars, clock, rrs, rtcp_timer, rtcp_net>>

\* It ends, with a new one to be started.
SenderStops ==
  /\ sender.up /\ sender' = [sender EXCEPT !.up = FALSE]
  /\ UNCHANGED <<rcvVars, clock, rrs, rtcp_timer, rtcp_net>>

rtcp_send_SR == encode(rtcp_set_hdr("RTCP_SR", sender.rtp_ssrc),
                       [ntp |-> TV2NTP_64(clock), sent |-> clock])

\* The timer is set again from its last value; when sendto fails sphone_error
\* ends the program.
rtcp_send_send_dispatch(sendto) ==
  /\ sender.up /\ clock >= sender.rtcp_timer
  /\ IF sendto
     THEN /\ rtcp_net' = rtcp_net \cup {rtcp_send_SR}
          /\ sender' = [sender EXCEPT !.rtcp_timer = @ + Report_interval]
     ELSE sender' = [sender EXCEPT !.up = FALSE] /\ UNCHANGED rtcp_net
  /\ UNCHANGED <<rcvVars, clock, rrs, rtcp_timer>>

rtcp_receive_RR(d) ==
  sender' = [sender EXCEPT
    !.rss_RTT_delay = calculateRTT(d.lsr, d.dlsr, clock),
    !.measured = d.answers,
    !.took = d.sr_took + (clock - d.sent),
    !.wrapped = clock \div (SEC * SEC_MOD) # d.sr_sent \div (SEC * SEC_MOD)]

\* rtcp_receive at the sender, which has its own ssrc from the start: another
\* one is dropped.  A sender report is not expected here.
rtcp_send_rcv_dispatch(d) ==
  /\ sender.up /\ d \in rtcp_net
  /\ d.type = "RTCP_RR" /\ d.to = {SenderAddr}
  /\ IF d.ssrc = sender.rtp_ssrc
     THEN rtcp_receive_RR(d) ELSE UNCHANGED sender
  /\ UNCHANGED <<rcvVars, clock, rrs, rtcp_timer, rtcp_net>>

-----------------------------------------------------------------------------
(* The receiver *)

rcvRest == <<seqVars, rst_lost_pkts, dec_buf, seq_type, historyVars, rs_reused>>

\* "We shouldn't send anything if no sender has registered with us."
rtcp_send_RRwanted == rtp_ssrc # 0

rtcp_send_RR ==
  encode(rtcp_set_hdr("RTCP_RR", rtp_ssrc),
         [last_seq |-> seq_cur, to |-> rtcp_dst_addr,
          lsr |-> ntp2lsr(rrs.rrs_timestamp_SR_ntp),
          dlsr |-> timeval2dlsr(RcvClock - rrs.rrs_timestamp_SR),
          answers |-> rrs.seen, sent |-> clock,
          sr_sent |-> rrs.sr_sent, sr_took |-> rrs.sr_took])

rtcp_rcv_send_dispatch(sendto) ==
  /\ sphone_exit = 0 /\ RcvClock >= rtcp_timer
  /\ IF rtcp_send_RRwanted
     THEN /\ rtcp_net' = IF sendto THEN rtcp_net \cup {rtcp_send_RR} ELSE rtcp_net
          /\ IF sendto THEN ReturnOK /\ UNCHANGED rs_freed ELSE ErrorReturnError
     ELSE UNCHANGED <<rtcp_net, sphone_exit, rs_freed>>
  /\ rtcp_timer' = IF sphone_exit' = 0 THEN rtcp_timer + Report_interval ELSE rtcp_timer
  /\ UNCHANGED <<rcvRest, rtp_ssrc, rtcp_dst_addr, clock, sender, rrs>>

\* Mutant: the source is locked and its address is not kept.
LockSourceOnly(ssrc, from) ==
  /\ rtp_ssrc' = IF rtp_ssrc = 0 THEN ssrc ELSE rtp_ssrc
  /\ UNCHANGED rtcp_dst_addr

\* "Accept any new sender, but if we have locked on a specific sender,
\* silently drop".
LockSource(ssrc, from) ==
  /\ rtp_ssrc' = IF rtp_ssrc = 0 THEN ssrc ELSE rtp_ssrc
  /\ rtcp_dst_addr' = IF rtp_ssrc = 0 THEN {from} ELSE rtcp_dst_addr

\* Mutant: the arrival is noted when the first report of a source arrives.
rtcp_receive_SRonce(d) ==
  rrs' = [rrs_timestamp_SR |-> IF rrs.seen THEN rrs.rrs_timestamp_SR ELSE RcvClock,
          rrs_timestamp_SR_ntp |-> d.ntp, seen |-> TRUE,
          sr_sent |-> d.sent, sr_took |-> clock - d.sent]

rtcp_receive_SR(d) ==
  rrs' = [rrs_timestamp_SR |-> RcvClock,
          rrs_timestamp_SR_ntp |-> d.ntp,
          seen |-> TRUE, sr_sent |-> d.sent, sr_took |-> clock - d.sent]

\* Datagrams of other types, which the sender does not send, would be locked
\* on and ignored.
rtcp_receive(d) ==
  /\ d.type = "RTCP_SR"
  /\ LockSource(d.ssrc, SenderAddr)
  /\ IF rtp_ssrc \in {0, d.ssrc} THEN rtcp_receive_SR(d) ELSE UNCHANGED rrs

rtcp_rcv_rcv_dispatch(d) ==
  /\ sphone_exit = 0 /\ d \in rtcp_net
  /\ rtcp_receive(d)
  /\ UNCHANGED <<rcvRest, rs_freed, sphone_exit, clock, sender, rtcp_timer, rtcp_net>>

\* Unlike on the RTP socket, a failing recvfrom ends the program.
RtcpInputFails ==
  /\ sphone_exit = 0
  /\ (ReturnError /\ UNCHANGED rs_freed) \/ ErrorReturnError
  /\ UNCHANGED <<rcvRest, rtp_ssrc, rtcp_dst_addr, rtcpVars>>

-----------------------------------------------------------------------------
\* Nothing is under way for longer than MaxDelay, nor a timeout later than
\* MaxLate.
Tick ==
  /\ clock' = clock + 1
  /\ sphone_exit = 0
  /\ sender.up => clock < sender.rtcp_timer + MaxLate
  /\ RcvClock < rtcp_timer + MaxLate
  /\ rtcp_net' = {d \in rtcp_net : clock' <= d.sent + MaxDelay}
  /\ UNCHANGED <<rcvVars, sender, rrs, rtcp_timer>>

RtpInput(P) == RcvNext(P) /\ UNCHANGED rtcpVars

RtcpNext ==
  \/ \E ssrc \in Ssrc : rtcp_send_init(ssrc)
  \/ SenderStops
  \/ \E sendto \in BOOLEAN : \/ rtcp_send_send_dispatch(sendto)
                             \/ rtcp_rcv_send_dispatch(sendto)
  \/ \E d \in rtcp_net : rtcp_send_rcv_dispatch(d) \/ rtcp_rcv_rcv_dispatch(d)
  \/ RtcpInputFails
  \/ Tick

\* A session that any packets reach, and its reports, without bounds.
RtcpSpec == RtcpInit /\ [][RtpInput(Packet) \/ RtcpNext]_vars

-----------------------------------------------------------------------------
(* Properties *)

(* Whichever of RTP and RTCP packets, of any source and in any order, has  *)
(* locked the session: a session with a source has the address that its    *)
(* reports go to (rtcp_send_RR sends without looking at it).               *)
ReportsHaveDestination ==
  /\ rtp_ssrc # 0 => rtcp_dst_addr # {}
  /\ \A d \in rtcp_net : d.type = "RTCP_RR" => d.to # {}

(* The round-trip time that the sender computes from a report is the time  *)
(* that the two reports were under way, within a millisecond and a half of *)
(* rounding: whatever the receiver's clock shows, which of the reports are *)
(* lost, duplicated or overtaken, and whether the sender was started again *)
(* in between.  Excepted are exchanges during which the 16 bits of seconds *)
(* wrap (once in 18 hours), and reports sent before a sender report came.  *)
RttMeasured ==
  (sender.measured /\ ~sender.wrapped) =>
    \E ms \in -1 .. 2 * MaxDelay * MS + 1 :
      /\ sender.rss_RTT_delay = ms % UINT_MOD
      /\ 2 * (ms * SEC - sender.took * MS) \in -3 * SEC .. 3 * SEC
=============================================================================
