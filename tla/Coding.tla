--------------------------------- MODULE Coding ---------------------------------
(***************************************************************************)
(* A packet between the recorder of one program and the player of another  *)
(* (coding/sphone_coding.c, called by record_and_send and                  *)
(* receive_and_playout).  Transmit is what the sender does with recorded     *)
(* audio, Receive what the receiver does with the payload.                  *)
(*                                                                         *)
(* A behaviour follows one job, which shows one side of the data:          *)
(*   alaw, ulaw   a sample through a companding law;                       *)
(*   a2u, u2a     a code through the tables to the other law and back;     *)
(*   ilbc         the indexes of an iLBC frame, packed and unpacked;       *)
(*   block        the order in which iLBC constructs a frame;              *)
(*   codebook     an index that iLBC finds in a codebook, and its vector;  *)
(*   channels     recorded bytes, reduced to one channel and expanded;     *)
(*   length       lengths, for all codings of audio and of the network.    *)
(***************************************************************************)
EXTENDS G711, Codebook

CONSTANTS
  SampleStep, Dense,  \* samples: all up to Dense, above it each SampleStep-th
  MaxFrames,          \* recorded samples per channel in a job channels
  Rates, Sizes        \* samples per second and ms of a packet in a job length

VARIABLES
  job,    \* what is coded
  stage,  \* "captured", "sent", "played"; or "refused", "aborted" (assert) or
          \* "overrun", a write beyond a buffer
  wire,   \* the payload
  heard   \* what is played

codingVars == <<job, stage, wire, heard>>

-----------------------------------------------------------------------------
(* Parameters and lengths *)

CodingTypes == {"LINEAR16", "ULAW", "ALAW", "LINEAR8", "iLBC"}
Companded == {"ULAW", "ALAW"}
ILBC_ENCODE_LEN == 480
ILBC_DECODE_LEN == 50
MAX_PKT_SIZE == 1472
sizeof_rtp_header == 12

\* coding_err in coding_mapping, for which coding_init fails.
coding_err(c1, c2) ==
  /\ c1 # c2
  /\ ~({c1, c2} \subseteq {"LINEAR16", "ULAW", "ALAW"})
  /\ {c1, c2} # {"LINEAR16", "iLBC"}

\* The product fits its 32 bits for all packets that fit MAX_PKT_SIZE.
ms2bytes(samp_sec, bits_samp, channels, ms) ==
  (samp_sec * bits_samp * channels * ms) \div 8000

\* coding_sanity, for the audio.  Nothing breaks after LINEAR8.
cp_precision(c) == CASE c \in {"LINEAR8", "LINEAR16"} -> 16
                     [] c \in Companded -> 8
                     [] c = "iLBC" -> 4

cp_bytes(c, samp_sec, ms) ==
  IF c = "iLBC" THEN ILBC_DECODE_LEN ELSE ms2bytes(samp_sec, cp_precision(c), 1, ms)

\* Mutant: the companded codings are taken for linear ones.
coding_lenfactorLinear(c) == 1

\* For the codings whose lengths are transformed with it.
coding_lenfactor(c) == IF c \in Companded THEN 2 ELSE 1

\* The assertion of ca_transformlen.
LengthAsserted(c1, c2, len1) ==
  "iLBC" \in {c1, c2} =>
    len1 = (IF c1 = "iLBC" THEN ILBC_DECODE_LEN ELSE ILBC_ENCODE_LEN)

coding_transformlen(c1, c2, len1) ==
  IF "iLBC" \in {c1, c2}
  THEN IF c1 = "iLBC" THEN ILBC_ENCODE_LEN ELSE ILBC_DECODE_LEN
  ELSE (len1 * coding_lenfactor(c1)) \div coding_lenfactor(c2)

\* The bytes that the function of coding_mapping reads of a packet of len1 and
\* writes of one of len2.  The conversions between the laws read their input as
\* 16-bit numbers.
coding_fn(c1, c2, len1, len2) ==
  CASE c1 = c2 -> [read |-> len1, written |-> len1]
    [] c1 # c2 /\ "iLBC" \in {c1, c2} -> [read |-> len1, written |-> len2]
    [] c1 # c2 /\ c2 \in Companded -> [read |-> 2 * len2, written |-> len2]
    [] c1 \in Companded /\ c2 = "LINEAR16" -> [read |-> len1, written |-> 2 * len1]

-----------------------------------------------------------------------------
(* Channels, in place.  The first byte is buf[0]. *)

memcpy(buf, to, from, n) ==
  [x \in DOMAIN buf |-> IF x \in to .. to + n - 1 THEN buf[from + x - to] ELSE buf[x]]

\* The first bytes of a buffer.
Upto(buf, len) == [x \in 0 .. len - 1 |-> buf[x]]

coding_reduce(buf, len, by_s, factor) ==
  LET steps == len \div (by_s * factor)
      b[k \in 0 .. steps] ==
        IF k = 0 THEN buf
        ELSE memcpy(b[k - 1], (k - 1) * by_s, (k - 1) * by_s * factor, by_s)
  IN  Upto(b[steps], len \div factor)

\* Mutant: from the first sample to the last.
coding_expandForwards(buf, len, by_s, factor) ==
  LET steps == (len \div by_s) * factor
      b[k \in 0 .. steps] ==
        IF k = 0 THEN [x \in 0 .. len * factor - 1 |-> IF x < len THEN buf[x] ELSE -1]
        ELSE LET i == ((k - 1) \div factor) * by_s
                 j == (k - 1) % factor
             IN  memcpy(b[k - 1], i * factor + j * by_s, i, by_s)
  IN  b[steps]

\* The buffer has place for the expanded samples; from the last to the first.
coding_expand(buf, len, by_s, factor) ==
  LET steps == (len \div by_s) * factor
      b[k \in 0 .. steps] ==
        IF k = 0 THEN [x \in 0 .. len * factor - 1 |-> IF x < len THEN buf[x] ELSE -1]
        ELSE LET i == len - by_s - ((k - 1) \div factor) * by_s
                 j == factor - 1 - ((k - 1) % factor)
             IN  memcpy(b[k - 1], i * factor + j * by_s, i, by_s)
  IN  b[steps]

-----------------------------------------------------------------------------
(* Jobs *)

SampleSet ==
  {-32768, 32767} \cup (-Dense .. Dense) \cup {s \in Short : s % SampleStep = 0}

\* The largest and the smallest index that the encoder may find for a field.
MaxIndex(k) == IF k = START THEN 5 ELSE IF Converted(k) THEN 255
               ELSE 2 ^ (ulp_bitsTbl[k][1] + ulp_bitsTbl[k][2] + ulp_bitsTbl[k][3]) - 1
MinIndex(k) == IF k = START THEN 1 ELSE 0

CodingInit ==
  /\ \/ \E k \in {"alaw", "ulaw"}, s \in SampleSet : job = [kind |-> k, x |-> s]
     \/ \E k \in {"a2u", "u2a"}, c \in Code : job = [kind |-> k, x |-> c]
     \/ \E f \in Fields, hot \in BOOLEAN :
          job = [kind |-> "ilbc",
                 x |-> [k \in Fields |-> IF (k = f) = hot THEN MaxIndex(k) ELSE MinIndex(k)]]
     \/ \E start \in 1 .. NSUB - 1, state_first \in {0, 1} :
          job = [kind |-> "block", start |-> start, state_first |-> state_first]
     \/ \E block \in 0 .. 2, st \in 0 .. CB_NSTAGES - 1 :   \* all sub-blocks but the
          job = [kind |-> "codebook", block |-> block, st |-> st]   \* first are alike
     \/ \E by_s \in {1, 2}, factor \in {2, 3}, n \in 1 .. MaxFrames :
          job = [kind |-> "channels", by_s |-> by_s, factor |-> factor,
                 len |-> n * by_s * factor]
     \/ \E c1, c2 \in CodingTypes, samp_sec \in Rates, ms \in Sizes, rec, play \in {1, 2} :
          job = [kind |-> "length", c1 |-> c1, c2 |-> c2, samp_sec |-> samp_sec,
                 ms |-> IF c2 = "iLBC" THEN 30 ELSE ms, rec |-> rec, play |-> play]
  /\ stage = "captured" /\ wire = <<>> /\ heard = <<>>

\* No packet is coded.
NoCoding == job = [kind |-> "none"] /\ stage = "played" /\ wire = <<>> /\ heard = <<>>

-----------------------------------------------------------------------------
(* Both ends *)

Put(v) == stage' = "sent" /\ wire' = v /\ UNCHANGED heard

Play(v) == stage' = "played" /\ heard' = v /\ UNCHANGED wire

Stop(how) == stage' = how /\ UNCHANGED <<wire, heard>>

\* record_and_send on a packet.  A device may have answered that it records two
\* channels, after coding_init has computed the length for one.  The encoded
\* bytes are written behind the place of the header in outbuf, which has
\* MAX_PKT_SIZE bytes.
SendLength ==
  LET len == cp_bytes(job.c1, job.samp_sec, job.ms) \div job.rec
      enc == coding_transformlen(job.c1, job.c2, len)
      use == coding_fn(job.c1, job.c2, len, enc)
  IN  IF coding_err(job.c1, job.c2) THEN Stop("refused")
      ELSE IF ~LengthAsserted(job.c1, job.c2, len) THEN Stop("aborted")
      ELSE IF enc > MAX_PKT_SIZE THEN Stop("refused")
      ELSE IF sizeof_rtp_header + use.written > MAX_PKT_SIZE THEN Stop("overrun")
      ELSE Put([had |-> len, len |-> enc, use |-> use])

\* One stage of a codebook search; the indexes of block 1 are converted.
SendIndex ==
  \E index \in iCBSearch(job.block, job.st) :
    Put([index |-> index,
         code |-> IF job.block = 1 /\ job.st > 0 THEN index_conv_enc(index) ELSE index,
         searched |-> SearchedVec(job.block, index),
         extracted |-> ExtractedVec(job.block, index)])

Transmit ==
  /\ stage = "captured"
  /\ UNCHANGED job
  /\ CASE job.kind = "alaw" -> Put(linear2alaw(job.x))
       [] job.kind = "ulaw" -> Put(linear2ulaw(job.x))
       [] job.kind = "a2u" -> Put(alaw2ulaw(job.x))
       [] job.kind = "u2a" -> Put(ulaw2alaw(job.x))
       [] job.kind = "ilbc" -> Put(iLBC_pack(job.x))
       [] job.kind = "block" -> Put(EncodeOrder(job.start, job.state_first))
       [] job.kind = "codebook" -> SendIndex
       [] job.kind = "channels" ->
            Put(coding_reduce([x \in 0 .. job.len - 1 |-> x], job.len, job.by_s, job.factor))
       [] job.kind = "length" -> SendLength

\* receive_and_playout on a packet.
ReceiveLength ==
  LET dec == coding_transformlen(job.c2, job.c1, wire.len)
  IN  IF ~LengthAsserted(job.c2, job.c1, wire.len) THEN Stop("aborted")
      ELSE Play([decoded |-> dec, len |-> dec * job.play,
                 use |-> coding_fn(job.c2, job.c1, wire.len, dec)])

Receive ==
  /\ stage = "sent"
  /\ UNCHANGED job
  /\ CASE job.kind = "alaw" -> Play(alaw2linear(wire))
       [] job.kind = "ulaw" -> Play(ulaw2linear(wire))
       [] job.kind = "a2u" -> Play(ulaw2alaw(wire))
       [] job.kind = "u2a" -> Play(alaw2ulaw(wire))
       [] job.kind = "ilbc" -> Play(iLBC_unpack(wire))
       [] job.kind = "block" -> Play(Decode(job.start, job.state_first))
       [] job.kind = "codebook" ->
            Play(getCBvec(IF job.block = 1 /\ job.st > 0 THEN index_conv_dec(wire.code)
                          ELSE wire.code, lMem(job.block), lTarget(job.block)))
       [] job.kind = "channels" ->
            Play(coding_expand(wire, job.len \div job.factor, job.by_s, job.factor))
       [] job.kind = "length" -> ReceiveLength

CodingNext == Transmit \/ Receive

-----------------------------------------------------------------------------
(* Properties *)

Played(kind) == stage = "played" /\ job.kind = kind

\* The distance of neighbouring values around a code.
AStep(a) == 16 * 2 ^ (IF Segment(a ^^ 85) < 2 THEN 0 ELSE Segment(a ^^ 85) - 1)
UStep(u) == 8 * 2 ^ Segment(255 - u)

Near(x, y, d) == x - y <= d /\ y - x <= d

(* The laws of G.711: a decoded sample is at most half a step from the     *)
(* recorded one (u-law: and 3, since two bits are dropped before the       *)
(* search; louder samples are clipped), a decoded sample is coded to the   *)
(* same code again (so that repeated coding does no harm; the negative     *)
(* zero of u-law excepted), and a code of the tables of conversion stands  *)
(* for the same value within a step.                                       *)
G711Accurate ==
  /\ Played("alaw") => /\ Near(heard, job.x, AStep(wire) \div 2)
                       /\ linear2alaw(heard) = wire
  /\ Played("ulaw") => /\ (Near(job.x, 0, 32635) =>
                             Near(heard, job.x, (UStep(wire) \div 2) + 3))
                       /\ wire # 127 => linear2ulaw(heard) = wire
  /\ Played("a2u") => Near(ulaw2linear(wire), alaw2linear(job.x), UStep(wire))
  /\ Played("u2a") => Near(alaw2linear(wire), ulaw2linear(job.x), AStep(wire))

(* A frame of iLBC is 50 bytes, and the decoder finds the indexes of the   *)
(* encoder in it, with the bits of each index spread over three classes    *)
(* and codes that cross the bytes.                                         *)
FrameKept ==
  Played("ilbc") => Len(wire) = NO_OF_BYTES /\ heard = job.x

(* Encoder and decoder of iLBC construct the samples of a frame in the     *)
(* same order from the same memory; each sample of the frame once, and     *)
(* from samples constructed before, of which the last is its neighbour.    *)
BlockDecoded ==
  Played("block") =>
    /\ heard = wire
    /\ Len(FlattenSeq([n \in DOMAIN heard |-> heard[n].to])) = BLOCKL
    /\ UNION {ToSet(heard[n].to) : n \in DOMAIN heard} = 0 .. BLOCKL - 1
    /\ \A n \in 2 .. Len(heard) :
         /\ ToSet(heard[n].from) \ {-1} \subseteq
              UNION {ToSet(heard[k].to) : k \in 1 .. n - 1}
         /\ Near(Last(heard[n].from), Head(heard[n].to), 1)

(* Whatever vector of the codebook the search of iLBC finds best: its      *)
(* index fits the bits of the frame, energies that later stages reuse were *)
(* computed by the first, and the vector compared with the target, the one *)
(* taken from the target and the one that the decoder constructs are the   *)
(* same combination of samples, all inside the memory.                     *)
CodebooksAgree ==
  Played("codebook") =>
    /\ wire.code \in 0 .. 2 ^ cb_bitsTbl(job.block, job.st) - 1
    /\ Interpolated(job.block, wire.index) \/ wire.index \in energy(job.block)
    /\ wire.searched = wire.extracted
    /\ wire.extracted = heard
    /\ \A j \in DOMAIN heard : \A n \in DOMAIN heard[j] :
         heard[j][n][2] \in 0 .. lMem(job.block) - 1

(* Reducing keeps the first channel, and expanding in place repeats each   *)
(* sample in all channels and overwrites none before it is copied.         *)
ChannelsKept ==
  Played("channels") =>
    \A x \in 0 .. job.len - 1 :
      LET frame == job.by_s * job.factor
      IN  heard[x] = (x \div frame) * frame + (x % job.by_s)

(* The lengths of a packet agree: no function of coding_mapping reads more *)
(* than the packet it is given or writes more than the length computed for *)
(* it, and what is played is as long as what was recorded, for each        *)
(* combination of codings for which coding_init does not fail, but for     *)
(* conversions between the laws.  An assertion fails only for iLBC, when   *)
(* the audio is iLBC too or is not 480 bytes per channel.  Whether outbuf  *)
(* has the place is what PacketFits says.                                  *)
LengthsAgree ==
  job.kind = "length" =>
    /\ stage = "aborted" =>
         /\ job.c2 = "iLBC" \/ job.c1 = "iLBC"
         /\ job.c1 # job.c2 => (job.samp_sec # 8000 \/ job.ms # 30 \/ job.rec # 1)
    /\ (stage = "played" /\ ~({job.c1, job.c2} = Companded)) =>
         /\ wire.use.read <= wire.had /\ wire.use.written = wire.len
         /\ heard.use.read <= wire.len /\ heard.use.written = heard.decoded
         /\ (wire.had * 8) % cp_precision(job.c1) = 0 /\ wire.had % 2 = 0
              => heard.len = wire.had * job.play

(* "Check if data too long": a packet that record_and_send does not refuse *)
(* has its place in outbuf, the "MTU-sized buffer", header included.  The  *)
(* code compares the length of the encoded audio alone.                    *)
PacketFits == stage # "overrun"
=============================================================================
