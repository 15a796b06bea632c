--------------------------- MODULE RtpStream_proofs ---------------------------
(***************************************************************************)
(* Proofs about the RTP stream for every sequence-number modulus, dropout  *)
(* and misorder threshold, and every number of packets and restarts.       *)
(***************************************************************************)
EXTENDS RtpStream, TLAPS

-----------------------------------------------------------------------------
(* Arithmetic of sequence numbers *)

(* Quotient and remainder by the sequence-number modulus.                  *)
LEMMA DivMod ==
  \A b \in Int : /\ b % RTP_SEQ_MOD \in 0 .. RTP_SEQ_MOD - 1
                 /\ b \div RTP_SEQ_MOD \in Int
                 /\ b = (b \div RTP_SEQ_MOD) * RTP_SEQ_MOD + (b % RTP_SEQ_MOD)
  BY SeqAssumption

(* The remainder is unique.                                                *)
LEMMA ModUnique ==
  ASSUME NEW b \in Int, NEW q \in Int, NEW r \in 0 .. RTP_SEQ_MOD - 1,
         b = q * RTP_SEQ_MOD + r
  PROVE  b % RTP_SEQ_MOD = r
  BY SeqAssumption

(* (uint16_t)(x) of a difference of two sequence numbers.                  *)
LEMMA ModSmall ==
  \A x \in Int : /\ x \in 0 .. RTP_SEQ_MOD - 1 => x % RTP_SEQ_MOD = x
                 /\ x \in -RTP_SEQ_MOD .. -1 => x % RTP_SEQ_MOD = x + RTP_SEQ_MOD
  BY SeqAssumption

(* The sequence number a few packets back, with or without a wrap.         *)
LEMMA ModBehind ==
  ASSUME NEW b \in Nat, NEW k \in 1 .. RTP_SEQ_MOD - 1
  PROVE  \/ (b - k) % RTP_SEQ_MOD = (b % RTP_SEQ_MOD) - k
         \/ (b - k) % RTP_SEQ_MOD = (b % RTP_SEQ_MOD) - k + RTP_SEQ_MOD
<1> DEFINE r == b % RTP_SEQ_MOD
           q == b \div RTP_SEQ_MOD
<1>1. r \in 0 .. RTP_SEQ_MOD - 1 /\ q \in Int /\ b = q * RTP_SEQ_MOD + r
  BY DivMod
<1> HIDE DEF r, q
<1>2. CASE r >= k
  <2>1. r - k \in 0 .. RTP_SEQ_MOD - 1 /\ b - k = q * RTP_SEQ_MOD + (r - k)
    BY <1>1, <1>2, SeqAssumption
  <2>2. (b - k) % RTP_SEQ_MOD = r - k
    BY <1>1, <2>1, ModUnique
  <2>3. QED  BY <2>2 DEF r
<1>3. CASE r < k
  <2>1. r - k + RTP_SEQ_MOD \in 0 .. RTP_SEQ_MOD - 1
    BY <1>1, <1>3, SeqAssumption
  <2>2. b - k = (q - 1) * RTP_SEQ_MOD + (r - k + RTP_SEQ_MOD)
    BY <1>1, SeqAssumption
  <2>3. (b - k) % RTP_SEQ_MOD = r - k + RTP_SEQ_MOD
    BY <1>1, <2>1, <2>2, ModUnique
  <2>4. QED  BY <2>3 DEF r
<1>4. QED  BY <1>1, <1>2, <1>3

(* update_seq calls a packet that is fewer than MAX_MISORDER positions     *)
(* behind the last one a duplicate or reordered packet.                    *)
LEMMA BehindIsDup ==
  ASSUME NEW a \in Nat, NEW b \in Nat, a < b, b - a < MAX_MISORDER,
         seq_initial = 1, seq_prev = b % RTP_SEQ_MOD
  PROVE  Classify(a % RTP_SEQ_MOD) = "SEQ_DUP"
<1> DEFINE k == b - a
           s == a % RTP_SEQ_MOD
<1>1. k \in 1 .. RTP_SEQ_MOD - 1 /\ k < MAX_MISORDER /\ a = b - k
  BY SeqAssumption
<1> HIDE DEF k
<1>2. s = seq_prev - k \/ s = seq_prev - k + RTP_SEQ_MOD
  BY <1>1, ModBehind
<1>3. s \in 0 .. RTP_SEQ_MOD - 1 /\ seq_prev \in 0 .. RTP_SEQ_MOD - 1
  BY DivMod
<1> HIDE DEF s
<1>4. (s - seq_prev) % RTP_SEQ_MOD = RTP_SEQ_MOD - k
  <2>1. CASE s = seq_prev - k
    <3>1. s - seq_prev \in -RTP_SEQ_MOD .. -1
      BY <1>1, <1>3, <2>1, SeqAssumption
    <3>2. s - seq_prev \in Int /\ s - seq_prev = -k
      BY <1>1, <1>3, <2>1, SeqAssumption
    <3>3. QED  BY <1>1, <3>1, <3>2, ModSmall, SeqAssumption
  <2>2. CASE s = seq_prev - k + RTP_SEQ_MOD
    <3>1. s - seq_prev \in 0 .. RTP_SEQ_MOD - 1
      BY <1>1, <1>3, <2>2, SeqAssumption
    <3>2. s - seq_prev \in Int /\ s - seq_prev = RTP_SEQ_MOD - k
      BY <1>1, <1>3, <2>2, SeqAssumption
    <3>3. QED  BY <3>1, <3>2, ModSmall
  <2>3. QED  BY <1>2, <2>1, <2>2
<1>5. Udelta(s) = RTP_SEQ_MOD - k
  BY <1>4 DEF Udelta
<1>6. ~(Udelta(s) < MAX_DROPOUT) /\ Udelta(s) > RTP_SEQ_MOD - MAX_MISORDER
  BY <1>1, <1>5, SeqAssumption
<1>7. ~IsSuccessor(s)
  BY <1>1, <1>2, <1>3, SeqAssumption DEF IsSuccessor
<1>8. QED  BY <1>6, <1>7 DEF Classify, s

-----------------------------------------------------------------------------
(* The receiver, with any packet *)

(* Every call of the callback keeps the receiver's types.                  *)
LEMMA ReceiveTypeOK ==
  ASSUME RcvTypeOK, NEW p \in Packet, NEW failure \in Failures,
         receive_and_playout(p, failure)
  PROVE  RcvTypeOK'
<1>1. p.seq \in SeqNr /\ p.id \in Nat /\ p.ssrc \in Ssrc /\ p.from \in Addr
  BY DEF Packet
<1>2. CASE IgnoreHeader(p)
  BY <1>2 DEF IgnoreHeader, RcvTypeOK, ReturnOK, seqVars, historyVars
<1>3. ASSUME AcceptSender(p)
      PROVE  rtp_ssrc' \in Ssrc /\ rtcp_dst_addr' \subseteq Addr /\ sphone_exit = 0
  BY <1>1, <1>3 DEF AcceptSender, RcvTypeOK
<1>4. ASSUME update_seq(p.seq)
      PROVE  /\ seq_initial' \in {0, 1} /\ seq_type' \in SeqType
             /\ seq_cycles' \in Nat /\ seq_bad' \in SeqNr
  BY <1>1, <1>4, SeqAssumption
     DEF update_seq, RcvTypeOK, Classify, SeqType, SeqNr
<1>5. CASE DropEmpty(p)
  BY <1>3, <1>4, <1>5 DEF DropEmpty, RcvTypeOK, ReturnOK, historyVars
<1>6. CASE DropOutOfOrder(p)
  BY <1>3, <1>4, <1>6 DEF DropOutOfOrder, RcvTypeOK, ReturnError, historyVars
<1>7. ASSUME AcceptPacket(p)
      PROVE  /\ seq_cur' \in SeqNr /\ rst_lost_pkts' \in 0 .. COUNTER_MOD - 1
             /\ AcceptSender(p) /\ update_seq(p.seq)
  <2>1. AcceptSender(p) /\ update_seq(p.seq)
    BY <1>7 DEF AcceptPacket
  <2>2. seq_cur' \in SeqNr
    BY <1>1, <1>4, <1>7, <2>1, SeqAssumption DEF AcceptPacket, SeqNr
  <2>3. rst_lost_pkts' \in 0 .. COUNTER_MOD - 1
    BY <1>7, SeqAssumption DEF AcceptPacket, RcvTypeOK, SeqNr
  <2>4. QED  BY <2>1, <2>2, <2>3
<1>8. CASE PlayPacket(p)
  <2>1. AcceptPacket(p) /\ playout_play(p)
    BY <1>8 DEF PlayPacket
  <2>2. first' \in Nat /\ before' \in Nat /\ last' \in Nat
    BY <1>1, <2>1 DEF playout_play, RcvTypeOK
  <2>3. QED
    BY <1>3, <1>4, <1>7, <1>8, <2>1, <2>2 DEF PlayPacket, RcvTypeOK, ReturnOK
<1>9. CASE FailPacket(p, failure)
  <2>1. AcceptPacket(p)
    BY <1>9 DEF FailPacket
  <2>2. dec_buf' \in {"null", "live", "dangling"}
    BY <1>9 DEF FailPacket
  <2>3. sphone_exit' \in 0 .. 2
    BY <1>3, <1>7, <1>9, <2>1 DEF FailPacket, ReturnError, ErrorReturnError
  <2>4. rs_freed' \in BOOLEAN
    BY <1>9, Zenon DEF FailPacket, ErrorReturnError, RcvTypeOK
  <2>5. QED
    BY <1>3, <1>4, <1>7, <1>9, <2>1, <2>2, <2>3, <2>4
       DEF FailPacket, RcvTypeOK, historyVars
<1>10. CASE ChangedCoding(p)
  <2>1. AcceptPacket(p)
    BY <1>10 DEF ChangedCoding
  <2>2. sphone_exit' \in 0 .. 2
    BY <1>3, <1>7, <1>10, <2>1
       DEF ChangedCoding, ErrorReturnOK, ErrorReturnError
  <2>3. rs_freed' \in BOOLEAN /\ rs_reused' \in BOOLEAN
    BY <1>10, Zenon DEF ChangedCoding, ErrorReturnOK, ErrorReturnError
  <2>4. first' \in Nat /\ before' \in Nat /\ last' \in Nat
    BY <1>1, <1>10 DEF ChangedCoding, playout_play, historyVars, RcvTypeOK
  <2>5. QED
    BY <1>3, <1>4, <1>7, <1>10, <2>1, <2>2, <2>3, <2>4
       DEF ChangedCoding, RcvTypeOK
<1>11. QED
  BY <1>2, <1>5, <1>6, <1>8, <1>9, <1>10 DEF receive_and_playout

(* No call leaves a running session unusable for the next one.             *)
LEMMA ReceiveReusable ==
  ASSUME RcvTypeOK, SessionReusable, NEW p \in Packet, NEW failure \in Failures,
         receive_and_playout(p, failure)
  PROVE  SessionReusable'
<1>1. CASE IgnoreHeader(p)
  BY <1>1 DEF IgnoreHeader, SessionReusable, ReturnOK, seqVars
<1>2. CASE DropEmpty(p)
  BY <1>2 DEF DropEmpty, SessionReusable, ReturnOK
<1>3. CASE DropOutOfOrder(p)
  BY <1>3 DEF DropOutOfOrder, SessionReusable, ReturnError, AcceptSender
<1>4. CASE PlayPacket(p)
  BY <1>4 DEF PlayPacket, SessionReusable, ReturnOK
<1>5. CASE FailPacket(p, failure)
  <2>1. sphone_exit' # 0
    BY <1>5 DEF FailPacket, AcceptPacket, AcceptSender, ReturnError,
                ErrorReturnError
  <2>2. QED  BY <2>1 DEF SessionReusable
<1>6. CASE ChangedCoding(p)
  <2>1. sphone_exit' # 0
    BY <1>6 DEF ChangedCoding, AcceptPacket, AcceptSender, ErrorReturnOK,
                ErrorReturnError
  <2>2. QED  BY <2>1 DEF SessionReusable
<1>7. QED
  BY <1>1, <1>2, <1>3, <1>4, <1>5, <1>6 DEF receive_and_playout

-----------------------------------------------------------------------------
(* The stream *)

(* seq_cycles stays a multiple of the modulus, so that adding it to a      *)
(* sequence number and truncating to 16 bits gives the number back.        *)
LEMMA CyclesTruncate ==
  ASSUME RcvTypeOK, seq_cycles % RTP_SEQ_MOD = 0, NEW seq \in SeqNr,
         update_seq(seq)
  PROVE  /\ seq_cycles' % RTP_SEQ_MOD = 0
         /\ (seq_cycles' + seq) % RTP_SEQ_MOD = seq
<1>1. PICK q \in Int : seq_cycles = q * RTP_SEQ_MOD
  <2>1. seq_cycles \in Int
    BY DEF RcvTypeOK
  <2>2. /\ seq_cycles \div RTP_SEQ_MOD \in Int
        /\ seq_cycles = (seq_cycles \div RTP_SEQ_MOD) * RTP_SEQ_MOD + 0
    BY <2>1, DivMod
  <2>3. seq_cycles = (seq_cycles \div RTP_SEQ_MOD) * RTP_SEQ_MOD
    BY <2>2, SeqAssumption
  <2>4. QED  BY <2>2, <2>3
<1>2. PICK n \in Int : seq_cycles' = n * RTP_SEQ_MOD
  <2>1. CASE seq_cycles' = seq_cycles
    BY <1>1, <2>1
  <2>2. CASE seq_cycles' = seq_cycles + RTP_SEQ_MOD
    <3>1. seq_cycles' = (q + 1) * RTP_SEQ_MOD
      BY <1>1, <2>2, SeqAssumption
    <3>2. QED  BY <3>1
  <2>3. QED  BY <2>1, <2>2 DEF update_seq
<1>3. seq_cycles' \in Int /\ 0 \in 0 .. RTP_SEQ_MOD - 1
      /\ seq_cycles' = n * RTP_SEQ_MOD + 0
  BY <1>2, SeqAssumption
<1>4. seq_cycles' % RTP_SEQ_MOD = 0
  BY <1>3, ModUnique
<1>5. /\ seq_cycles' + seq \in Int /\ seq \in 0 .. RTP_SEQ_MOD - 1
      /\ seq_cycles' + seq = n * RTP_SEQ_MOD + seq
  BY <1>2, <1>3, SeqAssumption DEF SeqNr
<1>6. (seq_cycles' + seq) % RTP_SEQ_MOD = seq
  BY <1>5, ModUnique
<1>7. QED  BY <1>4, <1>6

(* A delivered packet that is played is not older than the last one; it is *)
(* the last one again only if the network duplicates packets.              *)
LEMMA PlayedIsLater ==
  ASSUME Window < MAX_MISORDER, StreamInv, NEW p \in net, sphone_exit = 0,
         Classify(p.seq) # "SEQ_DUP"
  PROVE  last <= p.id /\ ("dup" \notin Faults => last < p.id)
<1>1. /\ p.id \in Nat /\ base \in Nat /\ last \in Nat /\ sent \in Nat
      /\ base < p.id /\ p.id <= sent /\ last <= sent
  BY DEF StreamInv, TypeOK, RcvTypeOK, NetInv, WellFormed, ReceiverInv,
         Packet
<1>2. last <= p.id
  <2>1. SUFFICES ASSUME p.id < last PROVE FALSE
    BY <1>1
  <2> DEFINE a == p.id - base - 1
             b == last - base - 1
  <2>2. a \in Nat /\ b \in Nat /\ a < b /\ b - a < MAX_MISORDER
    BY <1>1, <2>1, SeqAssumption, StreamAssumption DEF StreamInv, NetInv, WellFormed
  <2>3. seq_initial = 1 /\ seq_prev = b % RTP_SEQ_MOD
    BY <1>1, <2>1 DEF StreamInv, ReceiverInv, SeqAt
  <2>4. p.seq = a % RTP_SEQ_MOD
    BY DEF StreamInv, NetInv, WellFormed, SeqAt
  <2> HIDE DEF a, b
  <2>5. QED  BY <2>2, <2>3, <2>4, BehindIsDup
<1>3. "dup" \notin Faults => last # p.id
  BY DEF StreamInv, DistinctInv
<1>4. QED  BY <1>1, <1>2, <1>3

(* What a delivery does to the history and to seq_prev.                    *)
LEMMA DeliverEffect ==
  ASSUME Window < MAX_MISORDER, StreamInv, NEW p \in net,
         NEW failure \in Failures, receive_and_playout(p, failure)
  PROVE  /\ sphone_exit = 0
         /\ \/ /\ UNCHANGED <<before, last, seq_prev>>
               /\ seq_initial' = 1
            \/ /\ before' = last /\ last' = p.id /\ sphone_exit' = 0
               /\ seq_initial' = 1 /\ seq_prev' = p.seq
               /\ last <= p.id /\ ("dup" \notin Faults => last < p.id)
<1>1. p \in Packet /\ p.version = 2 /\ p.pt = "agreed"
  BY DEF StreamInv, TypeOK, NetInv, WellFormed
<1>2. CASE DropEmpty(p)
  BY <1>2 DEF DropEmpty, AcceptSender, update_seq, historyVars
<1>3. CASE DropOutOfOrder(p)
  BY <1>3 DEF DropOutOfOrder, AcceptSender, update_seq, historyVars
<1>4. CASE FailPacket(p, failure)
  BY <1>4 DEF FailPacket, AcceptPacket, AcceptSender, update_seq, historyVars
<1>5. CASE PlayPacket(p)
  <2>1. sphone_exit = 0 /\ sphone_exit' = 0 /\ seq_initial' = 1
    BY <1>5 DEF PlayPacket, AcceptPacket, AcceptSender, update_seq, ReturnOK
  <2>2. Classify(p.seq) # "SEQ_DUP"
    BY <1>5 DEF PlayPacket, AcceptPacket
  <2>3. last <= p.id /\ ("dup" \notin Faults => last < p.id)
    BY <2>1, <2>2, PlayedIsLater
  <2>4. before' = last /\ last' = p.id
    BY <1>5 DEF PlayPacket, playout_play
  <2>5. seq_prev' = p.seq
    <3>1. seq_prev' = (seq_cycles' + p.seq) % RTP_SEQ_MOD
      BY <1>5 DEF PlayPacket, AcceptPacket
    <3>2. p.seq \in SeqNr /\ update_seq(p.seq)
      BY <1>1, <1>5 DEF PlayPacket, AcceptPacket, Packet
    <3>3. RcvTypeOK /\ seq_cycles % RTP_SEQ_MOD = 0
      BY DEF StreamInv, TypeOK, ReceiverInv
    <3>4. QED  BY <3>1, <3>2, <3>3, CyclesTruncate
  <2>6. QED  BY <2>1, <2>3, <2>4, <2>5
<1>6. QED
  BY <1>1, <1>2, <1>3, <1>4, <1>5
     DEF receive_and_playout, IgnoreHeader, ChangedCoding

(* update_seq runs on every packet the stream delivers.                    *)
LEMMA DeliverCycles ==
  ASSUME StreamInv, NEW p \in net, NEW failure \in Failures,
         receive_and_playout(p, failure)
  PROVE  seq_cycles' % RTP_SEQ_MOD = 0
<1>1. p \in Packet /\ p.version = 2
  BY DEF StreamInv, TypeOK, NetInv, WellFormed
<1>2. update_seq(p.seq)
  BY <1>1 DEF receive_and_playout, IgnoreHeader, DropEmpty, DropOutOfOrder,
              PlayPacket, FailPacket, ChangedCoding, AcceptPacket
<1>3. QED
  BY <1>1, <1>2, CyclesTruncate DEF StreamInv, TypeOK, ReceiverInv, Packet

(* One lemma per group of actions: sending, restarting, losing, receiving. *)
LEMMA SendKeepsInv ==
  ASSUME StreamInv, NEW quiet \in BOOLEAN, NEW len \in {0, 1},
         SendPacket(quiet, len)
  PROVE  StreamInv'
<1> DEFINE new == rtp_packet(len)
<1>1. /\ sent \in Nat /\ base \in Nat /\ base <= sent /\ ss_seq = sent - base
      /\ ss_seq \in Nat /\ last \in Nat /\ last <= sent
  BY DEF StreamInv, TypeOK, RcvTypeOK, SenderInv, ReceiverInv, SendPacket
<1>2. /\ sent' = sent + 1 /\ base' = base /\ net' = net \cup {new}
      /\ UNCHANGED rcvVars
  BY DEF SendPacket
<1>3. new \in Packet
  <2>1. ss_seq % RTP_SEQ_MOD \in SeqNr
    BY <1>1, SeqAssumption DEF SeqNr
  <2>2. sender_addr \in Addr
    BY StreamAssumption DEF sender_addr
  <2>3. QED
    BY <1>1, <2>1, <2>2 DEF rtp_packet, Packet, StreamInv, TypeOK
<1>4. /\ new.id = sent + 1 /\ new.seq = ss_seq % RTP_SEQ_MOD
      /\ new.version = 2 /\ new.pt = "agreed"
  BY DEF rtp_packet
<1>5. TypeOK'
  <2>1. RcvTypeOK'
    BY <1>2 DEF StreamInv, TypeOK, RcvTypeOK, rcvVars
  <2>2. ss_silence_nr' \in Nat
    BY DEF SendPacket, silence, StreamInv, TypeOK
  <2>3. QED
    BY <1>1, <1>2, <1>3, <2>1, <2>2 DEF SendPacket, StreamInv, TypeOK
<1>6. SenderInv'
  BY <1>1, <1>2 DEF SendPacket, SenderInv
<1> HIDE DEF new
<1>7. NetInv'
  <2>1. ASSUME NEW p \in net
        PROVE  WellFormed(p, sent + 1, base)
    <3>1. p.id \in Nat /\ base < p.id /\ p.id <= sent /\ sent + 1 - p.id <= Window
      BY DEF SendPacket, NetworkBounds, StreamInv, NetInv, WellFormed, TypeOK,
             Packet
    <3>2. p.seq = SeqAt(p.id, base) /\ p.version = 2 /\ p.pt = "agreed"
      BY DEF StreamInv, NetInv, WellFormed
    <3>3. QED  BY <1>1, <3>1, <3>2 DEF WellFormed
  <2>2. WellFormed(new, sent + 1, base)
    <3>1. new.id - base - 1 = ss_seq
      BY <1>1, <1>4
    <3>2. new.seq = SeqAt(new.id, base)
      BY <1>4, <3>1 DEF SeqAt
    <3>3. QED  BY <1>1, <1>4, <3>2, StreamAssumption DEF WellFormed
  <2>3. QED  BY <1>2, <2>1, <2>2 DEF NetInv
<1>8. DistinctInv'
  <2>1. \A p \in net : p.id # new.id
    BY <1>1, <1>4 DEF StreamInv, NetInv, WellFormed, TypeOK, Packet
  <2>2. new.id # last /\ last' = last
    BY <1>1, <1>2, <1>4 DEF rcvVars
  <2>3. QED  BY <1>2, <2>1, <2>2 DEF StreamInv, DistinctInv
<1>9. ReceiverInv'
  BY <1>1, <1>2 DEF StreamInv, ReceiverInv, SeqAt, rcvVars
<1>10. SessionReusable' /\ PlayedInOrder'
  BY <1>2 DEF StreamInv, SessionReusable, PlayedInOrder, rcvVars
<1>11. QED
  BY <1>5, <1>6, <1>7, <1>8, <1>9, <1>10 DEF StreamInv

(* The sender's other steps put nothing into the network.                  *)
LEMMA SenderKeepsInv ==
  ASSUME StreamInv,
         \/ SendFails \/ SuppressSilence
         \/ \E quiet \in BOOLEAN : SendtoFails(quiet)
  PROVE  StreamInv'
<1>1. /\ UNCHANGED <<net, sent, base>> /\ UNCHANGED rcvVars
      /\ snd_exit' = 0 => (snd_exit = 0 /\ ss_seq' = ss_seq)
  <2>1. CASE SendFails
    BY <2>1 DEF SendFails
  <2>2. CASE SuppressSilence
    BY <2>2 DEF SuppressSilence
  <2>3. CASE \E quiet \in BOOLEAN : SendtoFails(quiet)
    BY <2>3 DEF SendtoFails
  <2>4. QED  BY <2>1, <2>2, <2>3
<1>2. /\ ss_seq' \in Nat /\ ss_silence_nr' \in Nat /\ snd_exit' \in 0 .. 2
      /\ ss_ssrc' \in Ssrc /\ sst_spkt' \in Nat /\ restarts' \in Nat
  BY DEF SendFails, SuppressSilence, SendtoFails, silence, StreamInv, TypeOK
<1>3. RcvTypeOK'
  BY <1>1 DEF StreamInv, TypeOK, RcvTypeOK, rcvVars
<1>4. TypeOK'
  BY <1>1, <1>2, <1>3 DEF StreamInv, TypeOK
<1>5. SenderInv' /\ NetInv' /\ DistinctInv'
  BY <1>1 DEF StreamInv, SenderInv, NetInv, DistinctInv, rcvVars
<1>6. ReceiverInv' /\ SessionReusable' /\ PlayedInOrder'
  BY <1>1 DEF StreamInv, ReceiverInv, SessionReusable, PlayedInOrder, rcvVars
<1>7. QED  BY <1>4, <1>5, <1>6 DEF StreamInv

(* A restart: positions go on, the new sender's base lies behind them all. *)
LEMMA RestartKeepsInv ==
  ASSUME StreamInv, RestartSender
  PROVE  StreamInv'
<1>1. /\ net' = {} /\ sent' = sent /\ base' = sent /\ ss_seq' = 0
      /\ UNCHANGED rcvVars
  BY DEF RestartSender
<1>2. sent \in Nat /\ last \in Nat /\ last <= sent
  BY DEF StreamInv, TypeOK, RcvTypeOK, ReceiverInv
<1>3. RcvTypeOK'
  BY <1>1 DEF StreamInv, TypeOK, RcvTypeOK, rcvVars
<1>4. TypeOK'
  BY <1>1, <1>2, <1>3 DEF RestartSender, StreamInv, TypeOK
<1>5. SenderInv' /\ NetInv' /\ DistinctInv'
  BY <1>1, <1>2 DEF SenderInv, NetInv, DistinctInv
<1>6. ReceiverInv'
  <2>1. last' = last /\ ~(base' < last') /\ seq_cycles' = seq_cycles
    BY <1>1, <1>2 DEF rcvVars
  <2>2. QED  BY <1>1, <1>2, <2>1 DEF StreamInv, ReceiverInv
<1>7. SessionReusable' /\ PlayedInOrder'
  BY <1>1 DEF StreamInv, SessionReusable, PlayedInOrder, rcvVars
<1>8. QED  BY <1>4, <1>5, <1>6, <1>7 DEF StreamInv

(* A lost packet.                                                          *)
LEMMA LoseKeepsInv ==
  ASSUME StreamInv, NEW p \in net, LosePacket(p)
  PROVE  StreamInv'
<1>1. net' \subseteq net /\ UNCHANGED rcvVars /\ UNCHANGED sndVars
  BY DEF LosePacket
<1>2. RcvTypeOK'
  BY <1>1 DEF StreamInv, TypeOK, RcvTypeOK, rcvVars
<1>3. TypeOK' /\ SenderInv'
  BY <1>1, <1>2 DEF StreamInv, TypeOK, SenderInv, sndVars
<1>4. NetInv' /\ DistinctInv'
  BY <1>1 DEF StreamInv, NetInv, DistinctInv, sndVars, rcvVars
<1>5. ReceiverInv' /\ SessionReusable' /\ PlayedInOrder'
  BY <1>1 DEF StreamInv, ReceiverInv, SessionReusable, PlayedInOrder, rcvVars,
              sndVars
<1>6. QED  BY <1>3, <1>4, <1>5 DEF StreamInv

(* A failing read on the RTP socket.                                       *)
LEMMA ErrorKeepsInv ==
  ASSUME StreamInv, ReceiveError
  PROVE  StreamInv'
<1>1. /\ UNCHANGED sndVars /\ net' = net
      /\ UNCHANGED <<seq_initial, seq_prev, seq_cur, seq_bad, seq_cycles,
                     rtp_ssrc, rtcp_dst_addr, rst_lost_pkts, rs_reused,
                     seq_type, first, before, last>>
      /\ dec_buf' = "null"
  BY DEF ReceiveError, InputError, InputClosed, seqVars, historyVars
<1>2. /\ sphone_exit = 0 /\ sphone_exit' \in 0 .. 2
      /\ sphone_exit' = 0 => rs_freed' = rs_freed
  BY DEF ReceiveError, InputError, InputClosed, ReturnOK, ErrorReturnOK
<1>3. rs_freed' \in BOOLEAN
  BY Zenon DEF ReceiveError, InputError, InputClosed, ErrorReturnOK, StreamInv,
               TypeOK, RcvTypeOK
<1>4. RcvTypeOK'
  BY <1>1, <1>2, <1>3 DEF StreamInv, TypeOK, RcvTypeOK
<1>5. TypeOK' /\ SenderInv'
  BY <1>1, <1>4 DEF StreamInv, TypeOK, SenderInv, sndVars
<1>6. NetInv' /\ DistinctInv'
  BY <1>1 DEF StreamInv, NetInv, DistinctInv, sndVars
<1>7. ReceiverInv' /\ PlayedInOrder'
  BY <1>1, <1>2 DEF StreamInv, ReceiverInv, PlayedInOrder, sndVars
<1>8. SessionReusable'
  BY <1>1, <1>2 DEF StreamInv, SessionReusable
<1>9. QED  BY <1>5, <1>6, <1>7, <1>8 DEF StreamInv

(* The receiver's callback.                                                *)
LEMMA DeliverKeepsInv ==
  ASSUME Window < MAX_MISORDER, StreamInv, NEW p \in net,
         NEW failure \in Failures, Deliver(p, failure)
  PROVE  StreamInv'
<1>1. /\ receive_and_playout(p, failure) /\ UNCHANGED sndVars
      /\ net' \subseteq net
      /\ "dup" \notin Faults => net' = net \ {p}
  BY DEF Deliver
<1>2. p \in Packet /\ RcvTypeOK /\ SessionReusable
  BY DEF StreamInv, TypeOK
<1>3. RcvTypeOK' /\ SessionReusable'
  BY <1>1, <1>2, ReceiveTypeOK, ReceiveReusable
<1>4. TypeOK' /\ SenderInv'
  BY <1>1, <1>3 DEF StreamInv, TypeOK, SenderInv, sndVars
<1>5. NetInv'
  BY <1>1 DEF StreamInv, NetInv, sndVars
<1>6. /\ sphone_exit = 0
      /\ \/ /\ UNCHANGED <<before, last, seq_prev>>
            /\ seq_initial' = 1
         \/ /\ before' = last /\ last' = p.id /\ sphone_exit' = 0
            /\ seq_initial' = 1 /\ seq_prev' = p.seq
            /\ last <= p.id /\ ("dup" \notin Faults => last < p.id)
  BY <1>1, DeliverEffect
<1>7. DistinctInv'
  BY <1>1, <1>6 DEF StreamInv, DistinctInv
<1>8. PlayedInOrder'
  BY <1>6 DEF StreamInv, PlayedInOrder
<1>9. ReceiverInv'
  <2>1. seq_cycles' % RTP_SEQ_MOD = 0
    BY <1>1, DeliverCycles
  <2>2. UNCHANGED <<sent, base>> /\ p.id <= sent /\ p.seq = SeqAt(p.id, base)
    BY <1>1 DEF sndVars, StreamInv, NetInv, WellFormed
  <2>3. last' <= sent'
    BY <1>6, <2>2 DEF StreamInv, ReceiverInv
  <2>4. base' < last' => seq_initial' = 1 /\ seq_prev' = SeqAt(last', base')
    BY <1>6, <2>2 DEF StreamInv, ReceiverInv
  <2>5. QED  BY <2>1, <2>3, <2>4 DEF ReceiverInv
<1>10. QED
  BY <1>3, <1>4, <1>5, <1>7, <1>8, <1>9 DEF StreamInv

(* The initial states satisfy the invariant.                               *)
LEMMA InitInv == Init => StreamInv
<1> SUFFICES ASSUME Init PROVE StreamInv
  OBVIOUS
<1>1. RcvTypeOK
  <2>1. rs_freed \in BOOLEAN /\ rs_reused \in BOOLEAN /\ rtcp_dst_addr \subseteq Addr
    BY Zenon DEF Init, RcvInit
  <2>2. 0 \in SeqNr /\ 0 \in 0 .. COUNTER_MOD - 1
    BY SeqAssumption DEF SeqNr
  <2>3. QED
    BY <2>1, <2>2, SsrcAssumption DEF Init, RcvInit, RcvTypeOK, SeqType
<1>2. TypeOK
  BY <1>1 DEF Init, TypeOK
<1>3. 0 % RTP_SEQ_MOD = 0
  BY SeqAssumption
<1>4. SenderInv /\ NetInv /\ DistinctInv /\ ReceiverInv
  BY <1>3 DEF Init, RcvInit, SenderInv, NetInv, DistinctInv, ReceiverInv
<1>5. SessionReusable /\ PlayedInOrder
  BY DEF Init, RcvInit, SessionReusable, PlayedInOrder
<1>6. QED  BY <1>2, <1>4, <1>5 DEF StreamInv

(* Every step preserves it, if no packet is delayed by MAX_MISORDER others.*)
LEMMA NextInv ==
  ASSUME Window < MAX_MISORDER, StreamInv, [Next]_vars
  PROVE  StreamInv'
<1>1. CASE Next
  BY <1>1, SendKeepsInv, SenderKeepsInv, RestartKeepsInv, LoseKeepsInv,
     DeliverKeepsInv, ErrorKeepsInv DEF Next
<1>2. CASE UNCHANGED vars
  <2>1. UNCHANGED rcvVars /\ UNCHANGED sndVars /\ net' = net
    BY <1>2 DEF vars
  <2>2. RcvTypeOK'
    BY <2>1 DEF StreamInv, TypeOK, RcvTypeOK, rcvVars
  <2>3. QED
    BY <2>1, <2>2 DEF StreamInv, TypeOK, SenderInv, NetInv, DistinctInv,
       ReceiverInv, SessionReusable, PlayedInOrder, rcvVars, sndVars
<1>3. QED  BY <1>1, <1>2

-----------------------------------------------------------------------------
(* StreamInv is an invariant: in particular every variable keeps its type  *)
(* and the session is usable whenever the callback is called again.        *)
THEOREM StreamInvariant ==
  ASSUME Window < MAX_MISORDER
  PROVE  Spec => []StreamInv
<1>1. Init => StreamInv
  BY InitInv
<1>2. StreamInv /\ [Next]_vars => StreamInv'
  BY NextInv
<1>3. QED  BY <1>1, <1>2, PTL DEF Spec

(* update_seq keeps the played stream in order across wraps of the         *)
(* sequence number, loss, duplication and restarts of the sender.          *)
THEOREM InOrder ==
  ASSUME Window < MAX_MISORDER
  PROVE  Spec => []PlayedInOrder
<1>1. StreamInv => PlayedInOrder
  BY DEF StreamInv
<1>2. QED  BY <1>1, StreamInvariant, PTL

(* sphone_send.c, the network and sphone_rcv.c together implement the      *)
(* abstract receiver PlayoutOrder.                                         *)
THEOREM Implementation ==
  ASSUME Window < MAX_MISORDER
  PROVE  Spec => ImplementsOrder
<1>1. Init => Order!Init
  BY DEF Init, RcvInit, Order!Init
<1>2. StreamInv /\ [Next]_vars => [Order!Next]_<<last, sphone_exit = 0>>
  <2> SUFFICES ASSUME StreamInv, [Next]_vars
               PROVE  [Order!Next]_<<last, sphone_exit = 0>>
    OBVIOUS
  <2>1. ASSUME NEW p \in net, NEW failure \in Failures, Deliver(p, failure)
        PROVE  [Order!Next]_<<last, sphone_exit = 0>>
    <3>1. receive_and_playout(p, failure)
      BY <2>1 DEF Deliver
    <3>2. p.id \in Nat
      BY DEF StreamInv, TypeOK, Packet
    <3>3. /\ sphone_exit = 0
          /\ \/ last' = last
             \/ /\ last' = p.id /\ sphone_exit' = 0
                /\ last <= p.id /\ ("dup" \notin Faults => last < p.id)
      BY <2>1, <3>1, DeliverEffect
    <3>4. CASE last' = last
      BY <3>3, <3>4 DEF Order!Next, Order!Stop
    <3>5. CASE /\ last' = p.id /\ sphone_exit' = 0 /\ last <= p.id
               /\ "dup" \notin Faults => last < p.id
      BY <3>2, <3>3, <3>5 DEF Order!Next, Order!Play
    <3>6. QED  BY <3>3, <3>4, <3>5
  <2>2. CASE ReceiveError
    BY <2>2 DEF ReceiveError, InputError, InputClosed, historyVars, Order!Next,
                Order!Stop
  <2>3. CASE UNCHANGED rcvVars
    BY <2>3 DEF rcvVars
  <2>4. QED
    BY <2>1, <2>2, <2>3 DEF Next, vars, SendFails, SuppressSilence, SendPacket,
       SendtoFails, RestartSender, LosePacket
<1>3. QED
  BY <1>1, <1>2, StreamInvariant, PTL DEF Spec, ImplementsOrder, Order!Spec

-----------------------------------------------------------------------------
(* Outages shorter than MAX_DROPOUT: the receiver follows the stream *)

\* The network delays and loses fewer packets than update_seq tolerates, one
\* sender runs throughout, and every packet has a payload.
Followable ==
  /\ Window < MAX_MISORDER /\ Window < MAX_DROPOUT /\ MaxLead < MAX_DROPOUT
  /\ MaxRestarts = 0 /\ "empty" \notin Faults

\* A receiver that has not played has counted nothing; one that has played is
\* at most an outage behind the sender.
LeadInv ==
  /\ base = 0 /\ restarts = 0
  /\ \A p \in net : p.len = 1
  /\ last = 0 => /\ first = 0
                 /\ sphone_exit = 0 => seq_initial = 0 /\ seq_cycles = 0
  /\ last # 0 => /\ first # 0
                 /\ sent - last <= MaxLead \/ sent - last <= Window

FollowInv == LeadInv /\ NormalIsConsecutive /\ CyclesTrackStream

(* A packet fewer than MAX_DROPOUT positions ahead of the last one is      *)
(* accepted, and the number wraps between the two only when update_seq     *)
(* calls it a gap, which is where wraps are counted.                       *)
LEMMA AheadIsAccepted ==
  ASSUME NEW a \in Nat, NEW b \in Nat, a <= b, b - a < MAX_DROPOUT,
         seq_initial = 1, seq_prev = a % RTP_SEQ_MOD
  PROVE  LET seq == b % RTP_SEQ_MOD
         IN  /\ Classify(seq) \in {"SEQ_NORMAL", "SEQ_GAP"}
             /\ \/ seq = seq_prev + (b - a)
                \/ /\ seq = seq_prev + (b - a) - RTP_SEQ_MOD /\ seq < seq_prev
                   /\ Classify(seq) = "SEQ_GAP"
<1> DEFINE M == RTP_SEQ_MOD
           q == a \div M
           d == b - a
           seq == b % M
<1>0. d \in 0 .. M - 1 /\ d < MAX_DROPOUT /\ M \in Nat \ {0} /\ MAX_DROPOUT \in Nat
  BY SeqAssumption
<1>1. seq_prev \in 0 .. M - 1 /\ q \in Int /\ a = q * M + seq_prev
  BY DivMod
<1>2. b = a + d
  OBVIOUS
<1> HIDE DEF q, d
<1>3. seq = seq_prev + d \/ (seq = seq_prev + d - M /\ seq < seq_prev)
  <2>1. CASE seq_prev + d < M
    <3> DEFINE r == seq_prev + d
    <3>1. r \in 0 .. RTP_SEQ_MOD - 1 /\ b = q * RTP_SEQ_MOD + r
      BY <1>0, <1>1, <1>2, <2>1
    <3> HIDE DEF r
    <3>2. seq = r
      BY <1>1, <3>1, ModUnique
    <3>3. QED  BY <3>2 DEF r
  <2>2. CASE seq_prev + d >= M
    <3> DEFINE r == seq_prev + d - M
               n == q + 1
    <3>1. /\ r \in 0 .. RTP_SEQ_MOD - 1 /\ b = n * RTP_SEQ_MOD + r
          /\ r < seq_prev /\ n \in Int
      BY <1>0, <1>1, <1>2, <2>2
    <3> HIDE DEF r, n
    <3>2. seq = r
      BY <3>1, ModUnique
    <3>3. QED  BY <3>1, <3>2 DEF r
  <2>3. QED  BY <1>0, <1>1, <2>1, <2>2
<1>4. seq \in 0 .. M - 1
  BY DivMod
<1> HIDE DEF seq
<1>5. (seq - seq_prev) % M = d
  <2>1. CASE seq = seq_prev + d
    <3>1. seq - seq_prev \in 0 .. M - 1 /\ seq - seq_prev = d
      BY <1>0, <1>1, <1>4, <2>1
    <3>2. QED  BY <3>1, ModSmall
  <2>2. CASE seq = seq_prev + d - M /\ seq < seq_prev
    <3>1. seq - seq_prev \in -RTP_SEQ_MOD .. -1
      BY <1>0, <1>1, <1>4, <2>2
    <3>2. \A x, y, z, m \in Int : x = y + z - m => x - y \in Int /\ x - y + m = z
      OBVIOUS
    <3>3. seq \in Int /\ seq_prev \in Int /\ d \in Int /\ RTP_SEQ_MOD \in Int
      BY <1>0, <1>1, <1>4
    <3>4. seq - seq_prev \in Int /\ seq - seq_prev + RTP_SEQ_MOD = d
      BY <2>2, <3>2, <3>3
    <3>5. QED  BY <3>1, <3>4, ModSmall
  <2>3. QED  BY <1>3, <2>1, <2>2
<1>6. Udelta(seq) < MAX_DROPOUT
  BY <1>0, <1>5 DEF Udelta
<1>7. Classify(seq) \in {"SEQ_NORMAL", "SEQ_GAP"}
  BY <1>6 DEF Classify
<1>8. seq < seq_prev => Classify(seq) = "SEQ_GAP"
  BY <1>1, <1>4, <1>6 DEF Classify, IsSuccessor
<1>9. QED  BY <1>3, <1>7, <1>8 DEF seq, d

(* What the receiver makes of any packet under way.                        *)
LEMMA FollowsPacket ==
  ASSUME Followable, StreamInv, LeadInv, NEW p \in net, sphone_exit = 0,
         last # 0, last <= p.id
  PROVE  /\ Classify(p.seq) \in {"SEQ_NORMAL", "SEQ_GAP"}
         /\ \/ p.seq = seq_prev + (p.id - last)
            \/ /\ p.seq = seq_prev + (p.id - last) - RTP_SEQ_MOD
               /\ p.seq < seq_prev /\ Classify(p.seq) = "SEQ_GAP"
<1> DEFINE a == last - 1
           b == p.id - 1
<1>1. /\ last \in Nat /\ p.id \in Nat /\ p.id <= sent /\ sent \in Nat
      /\ base = 0 /\ Window \in Nat /\ MaxLead \in Nat
      /\ MAX_DROPOUT \in Nat
  BY StreamAssumption, SeqAssumption
     DEF StreamInv, TypeOK, RcvTypeOK, NetInv, WellFormed, Packet, LeadInv
<1>2. a \in Nat /\ b \in Nat /\ a <= b /\ b - a = p.id - last
  BY <1>1
<1>3. sent - last < MAX_DROPOUT
  BY <1>1 DEF LeadInv, Followable
<1>4. b - a < MAX_DROPOUT
  BY <1>1, <1>3
<1>5. seq_initial = 1 /\ seq_prev = a % RTP_SEQ_MOD
  BY <1>1 DEF StreamInv, ReceiverInv, SeqAt
<1>6. p.seq = b % RTP_SEQ_MOD
  BY <1>1 DEF StreamInv, NetInv, WellFormed, SeqAt
<1> HIDE DEF a, b
<1>7. QED  BY <1>2, <1>4, <1>5, <1>6, AheadIsAccepted

(* A packet that is played advances the extended sequence number by as     *)
(* much as the position in the stream.                                     *)
LEMMA PlayFollows ==
  ASSUME Followable, StreamInv, FollowInv, NEW p \in net, PlayPacket(p)
  PROVE  NormalIsConsecutive' /\ CyclesTrackStream' /\ first' # 0
<1>1. /\ sphone_exit = 0 /\ Classify(p.seq) # "SEQ_DUP"
      /\ seq_type' = Classify(p.seq)
      /\ seq_cycles' = IF Classify(p.seq) = "SEQ_GAP" /\ p.seq < seq_prev
                       THEN seq_cycles + RTP_SEQ_MOD ELSE seq_cycles
      /\ first' = (IF first = 0 THEN p.id ELSE first) /\ before' = last /\ last' = p.id
  BY DEF PlayPacket, AcceptPacket, AcceptSender, update_seq, playout_play
<1>2. /\ p.id \in Nat \ {0} /\ last \in Nat /\ first \in Nat /\ seq_cycles \in Nat
      /\ seq_prev \in SeqNr /\ p.seq \in SeqNr /\ base = 0
      /\ p.seq = (p.id - 1) % RTP_SEQ_MOD
  BY DEF StreamInv, TypeOK, RcvTypeOK, NetInv, WellFormed, Packet, FollowInv,
         LeadInv, SeqAt
<1>3. seq_prev' = p.seq
  <2>1. seq_prev' = (seq_cycles' + p.seq) % RTP_SEQ_MOD /\ update_seq(p.seq)
    BY DEF PlayPacket, AcceptPacket
  <2>2. QED
    BY <1>2, <2>1, CyclesTruncate DEF StreamInv, TypeOK, ReceiverInv
<1>4. last <= p.id
  BY <1>1, PlayedIsLater DEF Followable
<1>5. CASE last = 0
  <2>1. first = 0 /\ seq_cycles = 0 /\ seq_initial = 0
    BY <1>1, <1>5 DEF FollowInv, LeadInv
  <2>2. Classify(p.seq) = "SEQ_RESET"
    BY <2>1 DEF Classify
  <2>3. CyclesTrackStream'
    BY <1>1, <1>2, <1>3, <2>1, <2>2 DEF CyclesTrackStream, SeqNr
  <2>4. NormalIsConsecutive'
    BY <1>1, <1>5 DEF NormalIsConsecutive
  <2>5. QED  BY <1>1, <1>2, <2>1, <2>3, <2>4
<1>6. CASE last # 0
  <2>1. first # 0 /\ (seq_cycles + seq_prev) - ((first - 1) % RTP_SEQ_MOD) = last - first
    BY <1>1, <1>6 DEF FollowInv, LeadInv, CyclesTrackStream
  <2>2. (first - 1) % RTP_SEQ_MOD \in Nat
    BY <1>2, SeqAssumption
  <2>3. \/ p.seq = seq_prev + (p.id - last)
        \/ /\ p.seq = seq_prev + (p.id - last) - RTP_SEQ_MOD
           /\ p.seq < seq_prev /\ Classify(p.seq) = "SEQ_GAP"
    BY <1>1, <1>4, <1>6, FollowsPacket DEF FollowInv
  <2>4. seq_cycles' + p.seq = seq_cycles + seq_prev + (p.id - last)
    BY <1>1, <1>2, <1>4, <2>3, SeqAssumption DEF SeqNr
  <2>5. first' = first
    BY <1>1, <2>1
  <2>6. CyclesTrackStream'
    <3>1. seq_cycles' \in Nat /\ p.seq \in Nat /\ seq_prev \in Nat
      BY <1>1, <1>2, SeqAssumption DEF SeqNr
    <3> DEFINE r == (first - 1) % RTP_SEQ_MOD
    <3>2. r \in Nat /\ (seq_cycles + seq_prev) - r = last - first
      BY <2>1, <2>2
    <3> HIDE DEF r
    <3>3. (seq_cycles' + p.seq) - r = p.id - first
      <4>1. p.id \in Nat /\ last \in Nat /\ first \in Nat /\ seq_cycles \in Nat
        BY <1>2
      <4>2. QED  BY <2>4, <3>1, <3>2, <4>1
    <3>4. (seq_cycles' + seq_prev') - ((first' - 1) % RTP_SEQ_MOD) = last' - first'
      BY <1>1, <1>3, <2>5, <3>3 DEF r
    <3>5. QED  BY <3>4 DEF CyclesTrackStream
  <2>7. Classify(p.seq) = "SEQ_NORMAL" => p.seq = seq_prev + 1
    BY DEF Classify, IsSuccessor
  <2>8. NormalIsConsecutive'
    BY <1>1, <1>2, <2>3, <2>7, SeqAssumption DEF NormalIsConsecutive, SeqNr
  <2>9. QED  BY <2>1, <2>5, <2>6, <2>8
<1>7. QED  BY <1>5, <1>6

(* A delivery is played or ends the receiver.                              *)
LEMMA DeliverFollows ==
  ASSUME Followable, StreamInv, FollowInv, NEW p \in net, NEW failure \in Failures,
         Deliver(p, failure)
  PROVE  FollowInv'
<1>1. /\ receive_and_playout(p, failure) /\ UNCHANGED <<base, restarts, sent>>
      /\ net' \subseteq net
  BY DEF Deliver, sndVars
<1>2. /\ p.version = 2 /\ p.pt = "agreed" /\ p.len = 1 /\ p.id \in Nat \ {0}
      /\ sent - p.id <= Window
  BY DEF StreamInv, TypeOK, NetInv, WellFormed, Packet, FollowInv, LeadInv
<1>3. CASE DropOutOfOrder(p) \/ FailPacket(p, failure)
  <2>1. sphone_exit' # 0 /\ UNCHANGED <<first, last>>
    BY <1>3 DEF DropOutOfOrder, FailPacket, AcceptPacket, AcceptSender, ReturnError,
                ErrorReturnError, historyVars
  <2>2. NormalIsConsecutive' /\ CyclesTrackStream'
    BY <2>1 DEF NormalIsConsecutive, CyclesTrackStream
  <2>3. LeadInv'
    BY <1>1, <2>1 DEF FollowInv, LeadInv
  <2>4. QED  BY <2>2, <2>3 DEF FollowInv
<1>4. CASE PlayPacket(p)
  <2>1. NormalIsConsecutive' /\ CyclesTrackStream' /\ first' # 0
    BY <1>4, PlayFollows
  <2>2. last' = p.id
    BY <1>4 DEF PlayPacket, playout_play
  <2>3. LeadInv'
    BY <1>1, <1>2, <2>1, <2>2 DEF FollowInv, LeadInv
  <2>4. QED  BY <2>1, <2>3 DEF FollowInv
<1>5. QED
  BY <1>1, <1>2, <1>3, <1>4
     DEF receive_and_playout, IgnoreHeader, DropEmpty, ChangedCoding

(* Every step keeps FollowInv.                                             *)
LEMMA FollowNext ==
  ASSUME Followable, StreamInv, FollowInv, [Next]_vars
  PROVE  FollowInv'
<1>1. ASSUME UNCHANGED rcvVars, UNCHANGED <<sent, base, restarts>>, net' \subseteq net
      PROVE  FollowInv'
  BY <1>1 DEF FollowInv, LeadInv, NormalIsConsecutive, CyclesTrackStream, rcvVars
<1>2. CASE SendFails \/ SuppressSilence \/ \E quiet \in BOOLEAN : SendtoFails(quiet)
  BY <1>1, <1>2 DEF SendFails, SuppressSilence, SendtoFails
<1>3. CASE \E p \in net : LosePacket(p)
  BY <1>1, <1>3 DEF LosePacket, sndVars
<1>4. CASE UNCHANGED vars
  BY <1>1, <1>4 DEF vars, sndVars
<1>5. CASE RestartSender
  BY <1>5, StreamAssumption DEF RestartSender, FollowInv, LeadInv, Followable
<1>6. ASSUME NEW quiet \in BOOLEAN, NEW len \in {0, 1}, SendPacket(quiet, len)
      PROVE  FollowInv'
  <2>1. /\ UNCHANGED rcvVars /\ UNCHANGED <<base, restarts>>
        /\ net' = net \cup {rtp_packet(len)} /\ sent' = sent + 1
        /\ last # 0 => sent + 1 - last <= MaxLead
    BY <1>6 DEF SendPacket, NetworkBounds
  <2>2. rtp_packet(len).len = 1
    BY <1>6 DEF SendPacket, rtp_packet, Followable
  <2>3. LeadInv'
    <3>1. \A p \in net' : p.len = 1
      BY <2>1, <2>2 DEF FollowInv, LeadInv
    <3>2. last' # 0 => sent' - last' <= MaxLead
      <4>1. last' = last /\ last \in Nat /\ sent \in Nat /\ MaxLead \in Nat
        BY <2>1, StreamAssumption DEF rcvVars, StreamInv, TypeOK, RcvTypeOK
      <4>2. QED  BY <2>1, <4>1
    <3>3. QED  BY <2>1, <3>1, <3>2 DEF FollowInv, LeadInv, rcvVars
  <2>4. NormalIsConsecutive' /\ CyclesTrackStream'
    BY <2>1 DEF FollowInv, NormalIsConsecutive, CyclesTrackStream, rcvVars
  <2>5. QED  BY <2>3, <2>4 DEF FollowInv
<1>7. CASE ReceiveError
  <2>1. /\ UNCHANGED <<sent, base, restarts, net>> /\ sphone_exit = 0
        /\ UNCHANGED <<seq_initial, seq_prev, seq_cycles, seq_type, first, before, last>>
    BY <1>7 DEF ReceiveError, InputError, InputClosed, sndVars, seqVars, historyVars
  <2>2. QED
    BY <2>1 DEF FollowInv, LeadInv, NormalIsConsecutive, CyclesTrackStream
<1>8. QED
  BY <1>2, <1>3, <1>4, <1>5, <1>6, <1>7, DeliverFollows DEF Next

(* Both invariants together.                                               *)
LEMMA FollowInvariant ==
  ASSUME Followable
  PROVE  Spec => [](StreamInv /\ FollowInv)
<1>1. Init => StreamInv /\ FollowInv
  BY InitInv DEF Init, RcvInit, FollowInv, LeadInv, NormalIsConsecutive,
                 CyclesTrackStream
<1>2. StreamInv /\ FollowInv /\ [Next]_vars => StreamInv' /\ FollowInv'
  BY NextInv, FollowNext DEF Followable
<1>3. QED  BY <1>1, <1>2, PTL DEF Spec

(* seq_cycles counts every wrap of the 16-bit numbers once: the extended   *)
(* number follows the position in the stream, whatever is lost, duplicated *)
(* or delayed within the thresholds of update_seq.                         *)
THEOREM WrapsAreCounted ==
  ASSUME Followable
  PROVE  Spec => []CyclesTrackStream
<1>1. FollowInv => CyclesTrackStream
  BY DEF FollowInv
<1>2. QED  BY <1>1, FollowInvariant, PTL

(* Nothing was lost before a packet that update_seq calls SEQ_NORMAL.      *)
THEOREM NormalMeansNext ==
  ASSUME Followable
  PROVE  Spec => []NormalIsConsecutive
<1>1. FollowInv => NormalIsConsecutive
  BY DEF FollowInv
<1>2. QED  BY <1>1, FollowInvariant, PTL

(* Outages shorter than MAX_DROPOUT never end the receiver, if packets are *)
(* not reordered and no call fails.                                        *)
THEOREM OutagesAreSurvived ==
  ASSUME Followable, Window = 0, "rcv_error" \notin Faults
  PROVE  Spec => []StreamSurvives
<1>1. Init => StreamSurvives
  BY DEF Init, RcvInit, StreamSurvives
<1>2. StreamInv /\ FollowInv /\ StreamSurvives /\ [Next]_vars => StreamSurvives'
  <2> SUFFICES ASSUME StreamInv, FollowInv, StreamSurvives, [Next]_vars
               PROVE  StreamSurvives'
    OBVIOUS
  <2>1. ASSUME UNCHANGED rcvVars  PROVE StreamSurvives'
    BY <2>1 DEF StreamSurvives, rcvVars
  <2>2. ASSUME NEW p \in net, NEW failure \in Failures, Deliver(p, failure)
        PROVE  StreamSurvives'
    <3>1. receive_and_playout(p, failure) /\ failure = "none" /\ sphone_exit = 0
      BY <2>2 DEF Deliver, StreamSurvives
    <3>2. p.version = 2 /\ p.pt = "agreed" /\ p.len = 1 /\ last <= p.id
      BY DEF StreamInv, TypeOK, RcvTypeOK, NetInv, WellFormed, Packet, ReceiverInv,
             FollowInv, LeadInv
    <3>3. Classify(p.seq) \notin {"SEQ_BAD", "SEQ_DUP"}
      <4>1. CASE last = 0
        BY <3>1, <4>1 DEF FollowInv, LeadInv, Classify
      <4>2. CASE last # 0
        BY <3>1, <3>2, <4>2, FollowsPacket DEF FollowInv
      <4>3. QED  BY <4>1, <4>2
    <3>4. PlayPacket(p)
      BY <3>1, <3>2, <3>3 DEF receive_and_playout, IgnoreHeader, DropEmpty,
         DropOutOfOrder, FailPacket, ChangedCoding
    <3>5. QED  BY <3>1, <3>4 DEF PlayPacket, ReturnOK, StreamSurvives
  <2>3. QED
    BY <2>1, <2>2 DEF Next, vars, SendFails, SuppressSilence, SendPacket,
       SendtoFails, RestartSender, LosePacket, ReceiveError
<1>3. QED  BY <1>1, <1>2, FollowInvariant, PTL DEF Spec
=============================================================================
