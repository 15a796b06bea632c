------------------------------ MODULE RtpStream -------------------------------
(***************************************************************************)
(* One RTP stream: the sender of src/sphone_send.c (record_and_send, the   *)
(* callback the recorder runs for every packet of samples), the network    *)
(* between the two UDP sockets, and the receiver of module Receiver.       *)
(*                                                                         *)
(* The network may lose, duplicate and reorder packets.  Two bounds state  *)
(* how badly: a packet is overtaken by at most Window later ones, and the  *)
(* receiver plays at least one of every MaxLead packets.                   *)
(***************************************************************************)
EXTENDS Receiver

CONSTANTS
  Window,            \* bound on reordering, in packets
  MaxLead,           \* bound on an outage, in packets
  MaxSent,           \* bound of the model: packets sent
  MaxCycles,         \* bound of the model: wraps the receiver counts
  MaxRestarts,       \* bound of the model: restarts of the sender
  SilenceThreshold,  \* SILENCE_THRESHOLD_MS/cp_size_ms
  Faults             \* what may go wrong in this instance

FaultKinds == {"loss", "dup", "empty", "rcv_error", "send_error", "silence"}

ASSUME StreamAssumption ==
  /\ Window \in Nat /\ MaxLead \in Nat /\ MaxSent \in Nat
  /\ MaxRestarts \in Nat /\ MaxCycles \in Nat /\ SilenceThreshold \in Nat
  /\ Faults \subseteq FaultKinds
  /\ Addr # {}

VARIABLES
  ss_seq,          \* send_session: number of the next packet
  ss_ssrc,         \* rtp_ssrc of the sender's rtp_session
  ss_silence_nr,   \* consecutive silent packets
  sst_spkt,        \* send_stats: packets sent
  snd_exit,        \* sphone_exit of the sending process
  sent,            \* history: packets sent since the first start
  base,            \* history: value of sent when this sender started
  restarts,        \* bound: restarts so far
  net              \* packets in flight

sndVars == <<ss_seq, ss_ssrc, ss_silence_nr, sst_spkt, snd_exit, sent, base,
             restarts>>
vars == <<rcvVars, sndVars, net>>

sender_addr == CHOOSE a \in Addr : TRUE

Init ==
  /\ RcvInit
  /\ ss_seq = 0 /\ ss_ssrc \in Ssrc /\ ss_silence_nr = 0
  /\ sst_spkt = 0 /\ snd_exit = 0
  /\ sent = 0 /\ base = 0 /\ restarts = 0
  /\ net = {}

-----------------------------------------------------------------------------
(* record_and_send *)

\* silence(): counts consecutive silent packets; more than the threshold of
\* them are "really silent".
silence(quiet) ==
  /\ ss_silence_nr' = IF quiet THEN ss_silence_nr + 1 ELSE 0
  /\ quiet => "silence" \in Faults

ReallySilent == ss_silence_nr' > SilenceThreshold

\* The bounds on the network, as a guard on what is put into it.
NetworkBounds ==
  /\ sent < MaxSent
  /\ \A p \in net : sent + 1 - p.id <= Window
  /\ last # 0 => sent + 1 - last <= MaxLead

\* transformlen or the encoder fails: return -1.
SendFails ==
  /\ snd_exit = 0
  /\ "send_error" \in Faults
  /\ snd_exit' = 1
  /\ UNCHANGED <<rcvVars, net, ss_seq, ss_ssrc, ss_silence_nr, sst_spkt, sent,
                 base, restarts>>

\* Mutant: the sequence number is taken before the silence is detected.
SuppressSilenceTakesNumber ==
  /\ snd_exit = 0
  /\ ss_silence_nr <= SilenceThreshold
  /\ silence(TRUE) /\ ReallySilent
  /\ ss_seq' = ss_seq + 1
  /\ UNCHANGED <<rcvVars, net, ss_ssrc, sst_spkt, snd_exit, sent, base,
                 restarts>>

\* Silence suppressed before the sequence number is taken.
SuppressSilence ==
  /\ snd_exit = 0
  /\ ss_silence_nr <= SilenceThreshold   \* bound of the model
  /\ silence(TRUE) /\ ReallySilent
  /\ UNCHANGED <<rcvVars, net, ss_seq, ss_ssrc, sst_spkt, snd_exit, sent, base,
                 restarts>>

\* The packet that record_and_send builds.
rtp_packet(len) ==
  [id |-> sent + 1, seq |-> ss_seq % RTP_SEQ_MOD, ssrc |-> ss_ssrc,
   from |-> sender_addr, len |-> len, version |-> 2, pt |-> "agreed"]

\* sst_spkt is not updated: the increment goes to sst_sbytes.
SendPacket(quiet, len) ==
  /\ snd_exit = 0
  /\ NetworkBounds
  /\ len = 0 => "empty" \in Faults
  /\ silence(quiet) /\ ~ReallySilent
  /\ net' = net \cup {rtp_packet(len)}
  /\ ss_seq' = ss_seq + 1
  /\ sent' = sent + 1
  /\ UNCHANGED <<rcvVars, ss_ssrc, sst_spkt, snd_exit, base, restarts>>

\* sendto fails: the sequence number is taken, sphone_error, return -1.
SendtoFails(quiet) ==
  /\ snd_exit = 0
  /\ "send_error" \in Faults
  /\ silence(quiet) /\ ~ReallySilent
  /\ ss_seq' = ss_seq + 1
  /\ snd_exit' = 2
  /\ UNCHANGED <<rcvVars, net, ss_ssrc, sst_spkt, sent, base, restarts>>

\* The sending process is started again, after its last packets have left the
\* network: send_session_new zeroes the session, rtp_init draws a new ssrc.
RestartSender ==
  /\ restarts < MaxRestarts
  /\ net = {}
  /\ ss_seq' = 0 /\ ss_ssrc' \in Ssrc /\ ss_silence_nr' = 0
  /\ sst_spkt' = 0 /\ snd_exit' = 0
  /\ base' = sent /\ restarts' = restarts + 1
  /\ UNCHANGED <<rcvVars, sent, net>>

-----------------------------------------------------------------------------
(* The network and the receiver's callback *)

LosePacket(p) ==
  /\ "loss" \in Faults
  /\ net' = net \ {p}
  /\ UNCHANGED <<rcvVars, sndVars>>

\* A duplicated packet stays in the network when it is delivered.
Deliver(p, failure) ==
  /\ failure # "none" => "rcv_error" \in Faults
  /\ seq_cycles <= MaxCycles * RTP_SEQ_MOD
  /\ receive_and_playout(p, failure)
  /\ net' \in {net \ {p}} \cup (IF "dup" \in Faults THEN {net} ELSE {})
  /\ UNCHANGED sndVars

ReceiveError ==
  /\ "rcv_error" \in Faults
  /\ InputError \/ InputClosed
  /\ UNCHANGED <<sndVars, net>>

Next ==
  \/ SendFails
  \/ SuppressSilence
  \/ \E quiet \in BOOLEAN, len \in {0, 1} : SendPacket(quiet, len)
  \/ \E quiet \in BOOLEAN : SendtoFails(quiet)
  \/ RestartSender
  \/ \E p \in net : LosePacket(p)
  \/ \E p \in net, failure \in Failures : Deliver(p, failure)
  \/ ReceiveError

Spec == Init /\ [][Next]_vars

-----------------------------------------------------------------------------
(* Properties *)

TypeOK ==
  /\ RcvTypeOK
  /\ ss_seq \in Nat /\ ss_ssrc \in Ssrc /\ ss_silence_nr \in Nat
  /\ sst_spkt \in Nat /\ snd_exit \in 0 .. 2
  /\ sent \in Nat /\ base \in Nat /\ restarts \in Nat
  /\ net \subseteq Packet

(* The classification of update_seq never lets an older packet of the      *)
(* stream be played after a newer one, across wraps of the sequence number *)
(* and restarts of the sender, as long as the network does not delay a     *)
(* packet by MAX_MISORDER others.                                          *)
PlayedInOrder == before <= last

Order == INSTANCE PlayoutOrder
           WITH running <- (sphone_exit = 0), Replay <- ("dup" \in Faults)

(* The stream implements the abstract receiver: under the same bound on    *)
(* reordering every step plays a later packet (or, with a duplicating      *)
(* network, the last one again), stops the receiver, or leaves it alone.   *)
ImplementsOrder == Order!Spec

(* A packet that arrives as SEQ_NORMAL directly follows the one played     *)
(* before it: nothing was lost between the two.                            *)
NormalIsConsecutive ==
  (before # 0 /\ sphone_exit = 0 /\ seq_type = "SEQ_NORMAL") => last = before + 1

(* seq_cycles + seq_prev, the extended sequence number, advances exactly   *)
(* as the position in the stream does: every wrap is counted once.         *)
CyclesTrackStream ==
  (last # 0 /\ sphone_exit = 0)
    => (seq_cycles + seq_prev) - ((first - 1) % RTP_SEQ_MOD) = last - first

(* A stream that the network keeps in order, with outages shorter than     *)
(* MAX_DROPOUT, never makes the receiver leave its event loop.             *)
StreamSurvives == sphone_exit = 0

(* "assume that the other side restarted without telling us so just        *)
(* re-sync": a packet classified as SEQ_BAD leaves the receiver running,   *)
(* for the next one to be compared with seq_bad.                           *)
BadPacketKeepsRunning == seq_type = "SEQ_BAD" => sphone_exit = 0

-----------------------------------------------------------------------------
(* The inductive invariant behind PlayedInOrder and ImplementsOrder: how   *)
(* packets in flight and the receiver's seq_prev relate to positions in    *)
(* the stream.                                                             *)

\* The sequence number of the packet at a position, of a sender that started
\* after position b.
SeqAt(id, b) == (id - b - 1) % RTP_SEQ_MOD

\* A packet of that sender, at most Window positions behind the n-th.
WellFormed(p, n, b) ==
  /\ b < p.id /\ p.id <= n /\ n - p.id <= Window
  /\ p.seq = SeqAt(p.id, b)
  /\ p.version = 2 /\ p.pt = "agreed"

\* A running sender has numbered the packets since its start.
SenderInv ==
  /\ base <= sent
  /\ snd_exit = 0 => ss_seq = sent - base

\* Packets in flight are recent, of the present sender and well formed.
NetInv == \A p \in net : WellFormed(p, sent, base)

\* A position is in flight once; without duplication it is not the last one
\* played as well.
DistinctInv ==
  /\ \A p, q \in net : p.id = q.id => p = q
  /\ "dup" \notin Faults => \A p \in net : p.id # last

\* A running receiver that has played a packet of the present sender knows
\* that packet's sequence number.
ReceiverInv ==
  /\ seq_cycles % RTP_SEQ_MOD = 0
  /\ last <= sent
  /\ (sphone_exit = 0 /\ base < last) => seq_initial = 1 /\ seq_prev = SeqAt(last, base)

(* Inductive for every Window below MAX_MISORDER.                          *)
StreamInv ==
  /\ TypeOK
  /\ SenderInv
  /\ NetInv
  /\ DistinctInv
  /\ ReceiverInv
  /\ SessionReusable
  /\ PlayedInOrder
=============================================================================
