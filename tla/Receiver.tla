------------------------------- MODULE Receiver -------------------------------
(***************************************************************************)
(* The RTP receiver of src/sphone_rcv.c: receive_and_playout, the callback *)
(* the event loop runs when a datagram is on the RTP socket, together with *)
(* update_seq, which classifies the sequence number of every packet.       *)
(*                                                                         *)
(* A packet's samples are abstracted to `id', the position of the packet   *)
(* in the stream of everything that was sent to this receiver (from 1 on). *)
(* The history variables `first', `before' and `last' hold the ids of the  *)
(* first packet, the last but one and the last one that playout_play       *)
(* accepted, 0 when there is none.  RTP timestamps and the byte counter    *)
(* rtcp_stats_bytes, which no code reads, are left out.                    *)
(***************************************************************************)
EXTENDS Integers, Sequences

CONSTANTS
  RTP_SEQ_MOD,    \* 2^16 in the code: sequence numbers are 0..RTP_SEQ_MOD-1
  MAX_DROPOUT,    \* 3000 in the code
  MAX_MISORDER,   \* 100 in the code
  COUNTER_MOD,    \* 2^32 in the code: rst_lost_pkts is a uint32_t
  Ssrc,           \* the synchronisation sources, 0 among them
  Addr            \* the addresses packets come from

ASSUME SeqAssumption ==
  /\ RTP_SEQ_MOD \in Nat /\ MAX_DROPOUT \in Nat /\ MAX_MISORDER \in Nat
  /\ COUNTER_MOD \in Nat \ {0}
  /\ 1 < MAX_DROPOUT /\ 0 < MAX_MISORDER
  /\ MAX_DROPOUT + MAX_MISORDER <= RTP_SEQ_MOD

ASSUME SsrcAssumption == 0 \in Ssrc

SeqNr == 0 .. RTP_SEQ_MOD - 1

\* enum seq_type; SEQ_TALK_START is declared by the code but never produced.
SeqType == {"SEQ_NORMAL", "SEQ_GAP", "SEQ_RESET", "SEQ_BAD", "SEQ_DUP"}

\* What is read of a datagram that holds at least an RTP header.
Packet == [id : Nat \ {0},     \* position in the stream (stands for the samples)
           seq : SeqNr,        \* hdr.seq
           ssrc : Ssrc,        \* hdr.ssrc
           from : Addr,        \* sender's address
           len : {0, 1},       \* payload bytes after the header: none or some
           version : {1, 2},   \* RTP version bits
           pt : {"agreed", "other"}]  \* payload type against rtp_payload

\* The call that fails, if any, while the payload is decoded and played.
Failures == {"none", "transformlen", "malloc", "decode", "play"}

VARIABLES
  seq_initial, seq_prev, seq_cur, seq_bad, seq_cycles,   \* rcv_session
  rtp_ssrc,        \* the source the session is locked on, 0 for none
  rtcp_dst_addr,   \* where receiver reports go, {} or {address}
  rst_lost_pkts,   \* rcv_stats
  dec_buf,         \* static buffer: "null", "live", or "dangling" after sfree
  rs_freed,        \* rcv_session_exit has run
  rs_reused,       \* the session was used after rcv_session_exit
  sphone_exit,
  seq_type,        \* classification of the last packet
  first, before, last   \* history: ids that playout_play accepted

historyVars == <<first, before, last>>
seqVars == <<seq_initial, seq_prev, seq_cur, seq_bad, seq_cycles>>
rcvVars == <<seq_initial, seq_prev, seq_cur, seq_bad, seq_cycles, rtp_ssrc,
             rtcp_dst_addr, rst_lost_pkts, dec_buf, rs_freed, rs_reused, sphone_exit,
             seq_type, first, before, last>>

(* rcv_session_new: everything memset to 0. *)
RcvInit ==
  /\ seq_initial = 0 /\ seq_prev = 0 /\ seq_cur = 0
  /\ seq_bad = 0 /\ seq_cycles = 0
  /\ rtp_ssrc = 0 /\ rtcp_dst_addr = {}
  /\ rst_lost_pkts = 0
  /\ dec_buf = "null" /\ rs_freed = FALSE /\ rs_reused = FALSE
  /\ sphone_exit = 0
  /\ seq_type = "SEQ_RESET"
  /\ first = 0 /\ before = 0 /\ last = 0

-----------------------------------------------------------------------------
(* update_seq *)

\* Mutant: the difference is taken as an int and clamped.
UdeltaNoWrap(seq) ==
  IF seq >= seq_prev THEN seq - seq_prev ELSE RTP_SEQ_MOD - 1

\* (uint16_t)(seq - rs->seq_prev)
Udelta(seq) == (seq - seq_prev) % RTP_SEQ_MOD

\* Mutant: any later number is taken for the next one.
IsSuccessorOrLater(seq) == seq >= seq_prev + 1

\* seq_prev + 1 is an int in the code: it does not wrap.
IsSuccessor(seq) == seq = seq_prev + 1

\* Mutant: the check for misordered packets is missing.
ClassifyNoMisorder(seq) ==
  IF seq_initial = 0 THEN "SEQ_RESET"
  ELSE IF IsSuccessor(seq) THEN "SEQ_NORMAL"
  ELSE IF Udelta(seq) < MAX_DROPOUT \/ Udelta(seq) > RTP_SEQ_MOD - MAX_MISORDER
       THEN "SEQ_GAP"
  ELSE IF seq = seq_bad THEN "SEQ_RESET"
  ELSE "SEQ_BAD"

\* What update_seq leaves in *seqt.
Classify(seq) ==
  IF seq_initial = 0 THEN "SEQ_RESET"
  ELSE IF IsSuccessor(seq) THEN "SEQ_NORMAL"
  ELSE IF Udelta(seq) < MAX_DROPOUT THEN "SEQ_GAP"
  ELSE IF Udelta(seq) > RTP_SEQ_MOD - MAX_MISORDER THEN "SEQ_DUP"
  ELSE IF seq = seq_bad THEN "SEQ_RESET"
  ELSE "SEQ_BAD"

\* What update_seq leaves in the session.
update_seq(seq) ==
  /\ seq_type' = Classify(seq)
  /\ seq_initial' = 1
  /\ seq_cycles' = IF Classify(seq) = "SEQ_GAP" /\ seq < seq_prev
                   THEN seq_cycles + RTP_SEQ_MOD ELSE seq_cycles
  /\ seq_bad' = IF Classify(seq) = "SEQ_BAD"
                THEN (seq + 1) % RTP_SEQ_MOD ELSE seq_bad

-----------------------------------------------------------------------------
(* The event loop calls the callback only while sphone_exit is 0, and      *)
(* increments sphone_exit when the callback returns a negative value.      *)

ReturnOK    == sphone_exit' = sphone_exit
ReturnError == sphone_exit' = sphone_exit + 1

\* sphone_error (it increments sphone_exit and runs rcv_session_exit)
\* followed by a return of 0 or of -1.
ErrorReturnOK    == rs_freed' = TRUE /\ sphone_exit' = sphone_exit + 1
ErrorReturnError == rs_freed' = TRUE /\ sphone_exit' = sphone_exit + 2

\* recvfrom failed: the callback returns 0 with the old buffers freed.
InputError ==
  /\ sphone_exit = 0
  /\ dec_buf' = "null"
  /\ ReturnOK
  /\ UNCHANGED <<seqVars, rtp_ssrc, rtcp_dst_addr, rst_lost_pkts, rs_freed,
                 rs_reused, seq_type, historyVars>>

\* A datagram without a byte: inet_input calls sphone_error.
InputClosed ==
  /\ sphone_exit = 0
  /\ dec_buf' = "null"
  /\ ErrorReturnOK
  /\ UNCHANGED <<seqVars, rtp_ssrc, rtcp_dst_addr, rst_lost_pkts, rs_reused,
                 seq_type, first, before, last>>

\* rtp_check_hdr refuses the version.
IgnoreHeader(p) ==
  /\ sphone_exit = 0
  /\ p.version # 2
  /\ dec_buf' = "null"
  /\ ReturnOK
  /\ UNCHANGED <<seqVars, rtp_ssrc, rtcp_dst_addr, rst_lost_pkts, rs_freed,
                 rs_reused, seq_type, historyVars>>

\* rs_accept_all_ssrc is 1 in every session: any new source is adopted, while
\* the destination of the reports stays that of the first one.
AcceptSender(p) ==
  /\ sphone_exit = 0
  /\ p.version = 2
  /\ rtp_ssrc' = p.ssrc
  /\ rtcp_dst_addr' = IF rtp_ssrc = 0 THEN {p.from} ELSE rtcp_dst_addr

\* A header and no payload: classified, then dropped.
DropEmpty(p) ==
  /\ AcceptSender(p)
  /\ update_seq(p.seq)
  /\ p.len = 0
  /\ dec_buf' = "null"
  /\ ReturnOK
  /\ UNCHANGED <<seq_prev, seq_cur, rst_lost_pkts, rs_freed, rs_reused,
                 historyVars>>

\* SEQ_BAD and SEQ_DUP: return -1.
DropOutOfOrder(p) ==
  /\ AcceptSender(p)
  /\ update_seq(p.seq)
  /\ p.len # 0
  /\ Classify(p.seq) \in {"SEQ_BAD", "SEQ_DUP"}
  /\ dec_buf' = "null"
  /\ ReturnError
  /\ UNCHANGED <<seq_prev, seq_cur, rst_lost_pkts, rs_freed, rs_reused,
                 historyVars>>

\* The part common to every packet that gets past the switch.  The (uint16_t)
\* truncation removes seq_cycles from seq_cur; the number of lost packets is
\* computed before seq_cur is set.
AcceptPacket(p) ==
  /\ AcceptSender(p)
  /\ update_seq(p.seq)
  /\ p.len # 0
  /\ Classify(p.seq) \in {"SEQ_GAP", "SEQ_NORMAL", "SEQ_RESET"}
  /\ rst_lost_pkts' =
       IF Classify(p.seq) = "SEQ_GAP"
       THEN (rst_lost_pkts + (seq_cur - seq_prev - 1)) % COUNTER_MOD
       ELSE rst_lost_pkts
  /\ seq_cur' = (seq_cycles' + p.seq) % RTP_SEQ_MOD

\* playout_play accepts the samples.
playout_play(p) ==
  /\ first' = IF first = 0 THEN p.id ELSE first
  /\ before' = last
  /\ last' = p.id

\* Mutant: the number of the packet played is not kept.
PlayPacketForgets(p) ==
  /\ AcceptPacket(p)
  /\ p.pt = "agreed"
  /\ dec_buf' = "live"
  /\ playout_play(p)
  /\ ReturnOK
  /\ UNCHANGED <<seq_prev, rs_freed, rs_reused>>

\* Decoded and handed to the playout module.
PlayPacket(p) ==
  /\ AcceptPacket(p)
  /\ p.pt = "agreed"
  /\ dec_buf' = "live"
  /\ playout_play(p)
  /\ seq_prev' = seq_cur'
  /\ ReturnOK
  /\ UNCHANGED <<rs_freed, rs_reused>>

\* Mutant: the decoder's error is taken for a packet to skip.
FailPacketContinues(p, failure) ==
  /\ AcceptPacket(p)
  /\ p.pt = "agreed"
  /\ failure # "none"
  /\ dec_buf' = IF failure = "decode" THEN "dangling" ELSE "null"
  /\ IF failure = "decode" THEN ReturnOK ELSE ReturnError
  /\ UNCHANGED <<seq_prev, rs_freed, rs_reused,
                 historyVars>>

\* Mutant: a packet whose decoding or playout fails is played all the same.
FailPacketPlays(p, failure) ==
  /\ AcceptPacket(p)
  /\ p.pt = "agreed"
  /\ failure # "none"
  /\ dec_buf' = "live"
  /\ ReturnError
  /\ playout_play(p)
  /\ UNCHANGED <<seq_prev, rs_freed, rs_reused>>

\* One of the calls between the switch and the assignment to seq_prev fails.
FailPacket(p, failure) ==
  /\ AcceptPacket(p)
  /\ p.pt = "agreed"
  /\ failure # "none"
  /\ dec_buf' = CASE failure = "decode" -> "dangling"   \* sfree(dec_buf) only
                  [] failure = "play"   -> "live"
                  [] OTHER              -> "null"
  /\ IF failure = "malloc" THEN ErrorReturnError
                           ELSE ReturnError /\ UNCHANGED rs_freed
  /\ UNCHANGED <<seq_prev, rs_reused,
                 historyVars>>

\* Changed payload type: sphone_error frees the session, the callback goes on
\* to decode and play with it.  The outcome of that is undefined.
ChangedCoding(p) ==
  /\ AcceptPacket(p)
  /\ p.pt = "other"
  /\ rs_reused' = TRUE
  /\ dec_buf' \in {"null", "live", "dangling"}
  /\ playout_play(p) \/ UNCHANGED historyVars
  /\ seq_prev' \in {seq_prev, seq_cur'}
  /\ (ErrorReturnOK \/ ErrorReturnError)

receive_and_playout(p, failure) ==
  \/ IgnoreHeader(p)
  \/ DropEmpty(p)
  \/ DropOutOfOrder(p)
  \/ failure = "none" /\ PlayPacket(p)
  \/ FailPacket(p, failure)
  \/ ChangedCoding(p)

\* The receiver with arbitrary packets from the set P on its socket.
RcvNext(P) ==
  \/ InputError
  \/ InputClosed
  \/ \E p \in P, failure \in Failures : receive_and_playout(p, failure)

-----------------------------------------------------------------------------
(* Properties of the receiver, whatever arrives *)

(* Type invariant: sequence numbers stay 16-bit, the lost counter 32-bit;  *)
(* sphone_exit grows by at most 2 in the last call of the callback.        *)
RcvTypeOK ==
  /\ seq_initial \in {0, 1}
  /\ seq_prev \in SeqNr /\ seq_cur \in SeqNr /\ seq_bad \in SeqNr
  /\ seq_cycles \in Nat
  /\ rtp_ssrc \in Ssrc /\ rtcp_dst_addr \subseteq Addr
  /\ rst_lost_pkts \in 0 .. COUNTER_MOD - 1
  /\ dec_buf \in {"null", "live", "dangling"}
  /\ rs_freed \in BOOLEAN /\ rs_reused \in BOOLEAN
  /\ sphone_exit \in 0 .. 2
  /\ seq_type \in SeqType
  /\ first \in Nat /\ before \in Nat /\ last \in Nat

(* Whenever the event loop may call receive_and_playout again, no earlier  *)
(* call has left it a static dec_buf that was freed without being reset    *)
(* (the next call would free it twice), nor a session that exit handlers   *)
(* have freed, nor a seq_cur that disagrees with seq_prev (a packet that   *)
(* was counted as current but never became the previous one).              *)
SessionReusable ==
  sphone_exit = 0 => /\ dec_buf # "dangling"
                     /\ ~rs_freed
                     /\ seq_cur = seq_prev
=============================================================================
