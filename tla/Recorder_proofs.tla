---------------------------- MODULE Recorder_proofs -----------------------------
(***************************************************************************)
(* Proofs about recording for every length of a packet, of a file and of   *)
(* the capture buffer: late polls add up to no delay, and the samples are  *)
(* handed over in the order of their recording.                            *)
(***************************************************************************)
EXTENDS Recorder, SequenceTheorems, TLAPS

-----------------------------------------------------------------------------
(* Arithmetic of positions *)

(* Quotient and remainder.                                                 *)
LEMMA DivMod ==
  ASSUME NEW b \in Int, NEW m \in Nat \ {0}
  PROVE  /\ b % m \in 0 .. m - 1 /\ b \div m \in Int
         /\ b = m * (b \div m) + (b % m)
  OBVIOUS

(* They are unique.                                                        *)
LEMMA DivModUnique ==
  ASSUME NEW b \in Int, NEW m \in Nat \ {0}, NEW q \in Int, NEW r \in 0 .. m - 1,
         b = m * q + r
  PROVE  b \div m = q /\ b % m = r
  OBVIOUS

(* Whole turns do not change a position.                                   *)
LEMMA ModTurns ==
  ASSUME NEW x \in Int, NEW m \in Nat \ {0}, NEW k \in Int
  PROVE  (x + m * k) % m = x % m
<1> DEFINE q == x \div m
           r == x % m
           n == q + k
<1>1. r \in 0 .. m - 1 /\ q \in Int /\ x = m * q + r
  BY DivMod
<1> HIDE DEF q, r
<1>2. x + m * k = m * n + r /\ n \in Int /\ x + m * k \in Int
  BY <1>1
<1> HIDE DEF n
<1>3. (x + m * k) % m = r
  BY <1>1, <1>2, DivModUnique
<1>4. QED  BY <1>3 DEF r

(* A remainder may be taken before an addition.                            *)
LEMMA ModAdd ==
  ASSUME NEW x \in Int, NEW m \in Nat \ {0}, NEW y \in Int
  PROVE  ((x % m) + y) % m = (x + y) % m
<1> DEFINE q == x \div m
           r == x % m
<1>1. r \in 0 .. m - 1 /\ q \in Int /\ x = m * q + r
  BY DivMod
<1> HIDE DEF q, r
<1>2. x + y = (r + y) + m * q /\ r + y \in Int
  BY <1>1
<1>3. ((r + y) + m * q) % m = (r + y) % m
  BY <1>1, <1>2, ModTurns
<1>4. QED  BY <1>2, <1>3 DEF r

(* A position inside the buffer is its own remainder.                      *)
LEMMA ModSmall ==
  ASSUME NEW m \in Nat \ {0}, NEW x \in 0 .. m - 1
  PROVE  x % m = x
  OBVIOUS

(* A sequence of samples that is given place by place.                     *)
LEMMA Samples ==
  ASSUME NEW n \in Nat, NEW s \in [1 .. n -> Int]
  PROVE  /\ s \in Seq(Int) /\ Len(s) = n
         /\ s = <<>> <=> n = 0
         /\ n # 0 => Last(s) = s[n] /\ s[n] \in Int
<1>1. s \in Seq(Int) /\ Len(s) = n
  OBVIOUS
<1>2. s = <<>> <=> n = 0
  BY <1>1, EmptySeq
<1>3. QED  BY <1>1, <1>2 DEF Last

-----------------------------------------------------------------------------
(* The inductive invariants *)

RecTypeOK ==
  /\ ra \in RecorderSet
  /\ rec_state \in {"open", "running", "stopped"}
  /\ now \in Nat /\ ar_T \in Nat /\ cursor \in Nat /\ ar_cap_nr \in Nat
  /\ sst_rpkt \in Nat

\* When the next poll is due.  The file counts from the start of recording,
\* the devices from their last poll.
Pace ==
  /\ rec_state = "open" => now = 0 /\ cursor = 0 /\ sst_rpkt = 0 /\ ar_cap_nr = 0
  /\ (rec_state = "running" /\ ra.type = "file")
       => ar_T = (sst_rpkt + 1) * P /\ now <= ar_T
  /\ (rec_state = "running" /\ ra.type = "devaudio")
       => cursor = sst_rpkt * P /\ ar_T = now + P /\ (MaxLate <= P => now - cursor <= P)
  /\ (rec_state = "running" /\ ra.type = "directsound") => ar_T = now + P

PaceInv == RecTypeOK /\ Pace

(* What is assumed of the constants, as the proofs use it.                 *)
LEMMA Constants ==
  /\ P \in Nat \ {0} /\ capbuflen \in Nat \ {0} /\ P <= capbuflen
  /\ capture_offset \in 0 .. capbuflen /\ MaxLate \in Nat
  BY RecorderAssumption DEF P

(* A recorder's file has a length.                                         *)
LEMMA FileLength ==
  ASSUME ra \in RecorderSet, ra.type = "file"
  PROVE  ra.len \in Nat \ {0}
  BY RecorderAssumption DEF RecorderSet

(* The file: after the poll the next packet is not over yet.               *)
LEMMA FilePace ==
  ASSUME PaceInv, ra.type = "file", UNCHANGED ra, rec_state = "running",
         NEW t \in Nat, audio_file_record_poll(t)
  PROVE  PaceInv'
<1> DEFINE due == IF t <= ar_T THEN 0 ELSE ((t - ar_T - 1) \div P) + 1
<1>0. ar_T \in Nat /\ sst_rpkt \in Nat /\ P \in Nat \ {0} /\ ar_T = (sst_rpkt + 1) * P
  BY Constants DEF PaceInv, RecTypeOK, Pace
<1>1. due \in Nat /\ t <= ar_T + due * P
  <2>1. CASE t <= ar_T
    BY <1>0, <2>1
  <2>2. CASE t > ar_T
    <3> DEFINE b == t - ar_T - 1
               q == b \div P
               r == b % P
    <3>1. b \in Nat
      BY <1>0, <2>2
    <3>2. r \in 0 .. P - 1 /\ q \in Int /\ b = P * q + r
      BY <1>0, <3>1, DivMod
    <3>3. due = q + 1
      BY <1>0, <2>2
    <3> HIDE DEF q, r
    <3>4. q \in Nat
      <4>1. ASSUME q < 0  PROVE FALSE
        <5>1. (-1 - q) * P \in Nat
          BY <1>0, <3>2, <4>1
        <5>2. P * q \in Int /\ P * q <= -P
          BY <1>0, <3>2, <5>1
        <5>3. QED  BY <1>0, <3>1, <3>2, <5>2
      <4>2. QED  BY <3>2, <4>1
    <3>5. (q + 1) * P = P * q + P /\ P * q \in Int
      BY <1>0, <3>4
    <3>6. t <= ar_T + (q + 1) * P
      BY <1>0, <3>1, <3>2, <3>5
    <3>7. QED  BY <3>3, <3>4, <3>6
  <2>3. QED  BY <1>0, <2>1, <2>2
<1>2. PICK n \in 0 .. due : \E off \in [0 .. n -> 0 .. ra.len] :
        /\ sst_rpkt' = sst_rpkt + n
        /\ rec_state' \in {"stopped"} \cup (IF n = due THEN {"running"} ELSE {})
        /\ cursor' = off[n] /\ now' = t /\ ar_T' = ar_T + n * P /\ UNCHANGED ar_cap_nr
  BY DEF audio_file_record_poll, HandOver, NextFilePoll
<1> HIDE DEF due
<1>3. n \in Nat /\ n * P \in Nat
  BY <1>0, <1>1
<1>4. cursor' \in Nat
  <2>1. ra.len \in Nat
    BY FileLength DEF PaceInv, RecTypeOK
  <2>2. QED  BY <1>2, <1>3, <2>1
<1>5. RecTypeOK'
  BY <1>0, <1>2, <1>3, <1>4 DEF PaceInv, RecTypeOK
<1>6. rec_state' = "running" => ar_T' = (sst_rpkt' + 1) * P /\ now' <= ar_T'
  <2>1. (sst_rpkt + n + 1) * P = (sst_rpkt + 1) * P + n * P
    BY <1>0, <1>3
  <2>2. rec_state' = "running" => n = due
    BY <1>2
  <2>3. QED  BY <1>0, <1>1, <1>2, <2>1, <2>2
<1>7. rec_state' # "open" /\ ra'.type = "file"
  BY <1>2
<1>8. Pace'
  BY <1>6, <1>7 DEF Pace
<1>9. QED  BY <1>5, <1>8 DEF PaceInv

(* /dev/audio: two packets are enough to make up for a late poll.          *)
LEMMA DevaudioPace ==
  ASSUME PaceInv, ra.type = "devaudio", UNCHANGED ra,
         NEW t \in Nat, cursor = sst_rpkt * P,
         MaxLate <= P => t - cursor <= 3 * P,
         audio_devaudio_record_poll(t)
  PROVE  PaceInv'
<1> DEFINE ready == (t - cursor) \div P
<1>0. cursor \in Nat /\ sst_rpkt \in Nat /\ P \in Nat \ {0}
  BY Constants DEF PaceInv, RecTypeOK
<1>1. PICK n \in 0 .. 2, wait \in BOOLEAN :
        /\ sst_rpkt' = sst_rpkt + n
        /\ rec_state' \in {"stopped"}
             \cup (IF n = (IF wait \/ ready >= 2 THEN 2 ELSE ready) THEN {"running"} ELSE {})
        /\ cursor' = cursor + n * P
        /\ now' = IF cursor' > t THEN cursor' ELSE t
        /\ ar_T' = now' + P
        /\ UNCHANGED ar_cap_nr
  BY DEF audio_devaudio_record_poll, HandOver
<1>2. /\ ready \in Int /\ t - cursor = P * ready + ((t - cursor) % P)
      /\ (t - cursor) % P \in 0 .. P - 1
  <2>1. t - cursor \in Int
    BY <1>0
  <2>2. QED  BY <1>0, <2>1, DivMod
<1> HIDE DEF ready
<1>3. /\ n * P \in Nat /\ cursor' = (sst_rpkt + n) * P
      /\ cursor' \in Nat /\ now' \in Nat /\ ar_T' \in Nat
  BY <1>0, <1>1
<1>4. RecTypeOK'
  BY <1>0, <1>1, <1>3 DEF PaceInv, RecTypeOK
<1>5. (rec_state' = "running" /\ MaxLate <= P) => now' - cursor' <= P
  <2> SUFFICES ASSUME rec_state' = "running", MaxLate <= P
               PROVE  now' - cursor' <= P
    OBVIOUS
  <2>1. n = 2 \/ n = ready
    BY <1>1
  <2>2. CASE cursor' > t
    BY <1>0, <1>1, <1>3, <2>2
  <2>3. CASE cursor' <= t /\ n = 2
    BY <1>0, <1>1, <1>3, <2>3
  <2>4. CASE cursor' <= t /\ n = ready
    <3>1. now' = t /\ cursor' = cursor + ready * P /\ ready * P = P * ready
      BY <1>0, <1>1, <1>2, <1>3, <2>4
    <3>2. P * ready \in Int
      BY <1>0, <1>2
    <3>3. QED  BY <1>0, <1>2, <3>1, <3>2
  <2>5. QED  BY <1>3, <2>1, <2>2, <2>3, <2>4
<1>6. rec_state' # "open" /\ ra'.type = "devaudio"
  BY <1>1
<1>7. Pace'
  BY <1>1, <1>3, <1>5, <1>6 DEF Pace
<1>8. QED  BY <1>4, <1>7 DEF PaceInv

(* DirectSound is polled a packet after each poll.                         *)
LEMMA DirectsoundPace ==
  ASSUME PaceInv, ra.type = "directsound", UNCHANGED ra,
         NEW t \in Nat, audio_directsound_record_poll(t)
  PROVE  PaceInv'
<1> DEFINE pos == CapturePos(t)
           nr == IF ar_cap_nr = 0 THEN 0 ELSE nr_send(pos)
<1>0. /\ cursor \in Nat /\ sst_rpkt \in Nat /\ ar_cap_nr \in Nat /\ P \in Nat \ {0}
      /\ capbuflen \in Nat \ {0} /\ capture_offset \in Nat
  BY Constants DEF PaceInv, RecTypeOK
<1>1. PICK n \in 0 .. nr :
        /\ sst_rpkt' = sst_rpkt + n
        /\ rec_state' \in {"stopped"} \cup (IF n = nr THEN {"running"} ELSE {})
        /\ cursor' = IF ar_cap_nr = 0 THEN (pos - P) % capbuflen
                     ELSE (cursor + n * P) % capbuflen
        /\ ar_cap_nr' = IF ar_cap_nr = 0 THEN 1 ELSE ar_cap_nr + n
        /\ now' = t /\ ar_T' = t + P
  BY DEF audio_directsound_record_poll, HandOver
<1>2. pos \in Int
  BY <1>0 DEF CapturePos
<1> HIDE DEF pos, nr
<1>3. n \in Nat /\ n * P \in Int
  BY <1>0, <1>1
<1>4. cursor' \in Nat
  <2>1. pos - P \in Int /\ cursor + n * P \in Int
    BY <1>0, <1>2, <1>3
  <2>2. (pos - P) % capbuflen \in Nat /\ (cursor + n * P) % capbuflen \in Nat
    BY <1>0, <2>1
  <2>3. QED  BY <1>1, <2>2
<1>5. RecTypeOK'
  BY <1>0, <1>1, <1>3, <1>4 DEF PaceInv, RecTypeOK
<1>6. rec_state' # "open" /\ ra'.type = "directsound"
  BY <1>1
<1>7. Pace'
  BY <1>1, <1>6 DEF Pace
<1>8. QED  BY <1>5, <1>7 DEF PaceInv

(* The time of a poll.                                                     *)
PollTime(late) == (IF now > ar_T THEN now ELSE ar_T) + late

(* Every step keeps the pace.                                              *)
LEMMA PaceNext ==
  ASSUME PaceInv, [RecNext]_recVars
  PROVE  PaceInv'
<1>0. P \in Nat \ {0} /\ now \in Nat /\ ar_T \in Nat /\ cursor \in Nat /\ MaxLate \in Nat
  BY Constants DEF PaceInv, RecTypeOK
<1>1. CASE audio_record_start
  <2>1. now = 0 /\ cursor = 0 /\ sst_rpkt = 0 /\ UNCHANGED ra /\ rec_state = "open"
    BY <1>1 DEF audio_record_start, PaceInv, Pace
  <2>2. CASE /\ ra.type = "file" /\ ar_T' = now + P /\ rec_state' = "running"
             /\ UNCHANGED <<now, cursor, ar_cap_nr, sst_rpkt, sent, prev>>
    <3>1. RecTypeOK'
      BY <1>0, <2>1, <2>2 DEF PaceInv, RecTypeOK
    <3>2. ar_T' = (sst_rpkt' + 1) * P /\ now' <= ar_T'
      BY <1>0, <2>1, <2>2
    <3>3. QED  BY <2>1, <2>2, <3>1, <3>2 DEF PaceInv, Pace
  <2>3. CASE ra.type = "devaudio" /\ audio_devaudio_record_poll(now)
    <3>1. cursor = sst_rpkt * P /\ now - cursor <= 3 * P
      BY <1>0, <2>1
    <3>2. QED  BY <1>0, <2>1, <2>3, <3>1, DevaudioPace
  <2>4. CASE ra.type = "directsound" /\ audio_directsound_record_poll(now)
    BY <1>0, <2>1, <2>4, DirectsoundPace
  <2>5. QED  BY <1>1, <2>2, <2>3, <2>4 DEF audio_record_start
<1>2. ASSUME NEW late \in 0 .. MaxLate, audio_record_poll_wrapper(late)
      PROVE  PaceInv'
  <2> DEFINE t == PollTime(late)
  <2>1. /\ rec_state = "running" /\ UNCHANGED ra
        /\ \/ ra.type = "file" /\ audio_file_record_poll(t)
           \/ ra.type = "devaudio" /\ audio_devaudio_record_poll(t)
           \/ ra.type = "directsound" /\ audio_directsound_record_poll(t)
    BY <1>2 DEF audio_record_poll_wrapper, PollTime
  <2>2. t \in Nat /\ (ar_T = now + P => t = now + P + late)
    BY <1>0 DEF PollTime
  <2> HIDE DEF t
  <2>3. CASE ra.type = "devaudio" /\ audio_devaudio_record_poll(t)
    <3>1. cursor = sst_rpkt * P /\ ar_T = now + P /\ (MaxLate <= P => now - cursor <= P)
      BY <2>1, <2>3 DEF PaceInv, Pace
    <3>2. MaxLate <= P => t - cursor <= 3 * P
      BY <1>0, <2>2, <3>1
    <3>3. QED  BY <2>1, <2>2, <2>3, <3>1, <3>2, DevaudioPace
  <2>4. QED
    BY <2>1, <2>2, <2>3, FilePace, DirectsoundPace
<1>3. CASE UNCHANGED recVars
  BY <1>3 DEF recVars, PaceInv, RecTypeOK, Pace
<1>4. QED  BY <1>1, <1>2, <1>3 DEF RecNext

(* A recorder that has been opened.                                        *)
LEMMA PaceInit == RecInit => PaceInv
  BY DEF RecInit, PaceInv, RecTypeOK, Pace

(* The file and /dev/audio are never more than a packet behind after a     *)
(* poll: the time by which polls are late does not add up.                 *)
THEOREM RecordersKeepUp == RecSpec => []KeepsUp
<1>1. PaceInv /\ [RecNext]_recVars => PaceInv'
  BY PaceNext
<1>2. PaceInv => KeepsUp
  <2> SUFFICES ASSUME PaceInv, rec_state = "running", ra.type # "directsound",
                      MaxLate <= P
               PROVE  now - sst_rpkt * P <= P
    BY DEF KeepsUp
  <2>0. /\ P \in Nat \ {0} /\ now \in Nat /\ ar_T \in Nat /\ sst_rpkt \in Nat
        /\ sst_rpkt * P \in Nat /\ ra.type \in {"file", "devaudio"}
    <3>1. ra \in RecorderSet /\ now \in Nat /\ ar_T \in Nat /\ sst_rpkt \in Nat
      BY DEF PaceInv, RecTypeOK
    <3>2. ra.type \in AudioTypes
      BY <3>1 DEF RecorderSet
    <3>3. P \in Nat \ {0} /\ sst_rpkt * P \in Nat
      BY <3>1, Constants
    <3>4. QED  BY <3>1, <3>2, <3>3, RecorderAssumption
  <2>1. CASE ra.type = "file"
    <3>1. now <= (sst_rpkt + 1) * P
      BY <2>1 DEF PaceInv, Pace
    <3>2. (sst_rpkt + 1) * P = sst_rpkt * P + P
      BY <2>0
    <3>3. QED  BY <2>0, <3>1, <3>2
  <2>2. CASE ra.type = "devaudio"
    BY <2>2 DEF PaceInv, Pace
  <2>3. QED  BY <2>0, <2>1, <2>2
<1>3. QED  BY PaceInit, <1>1, <1>2, PTL DEF RecSpec

-----------------------------------------------------------------------------
(* The order of the samples *)

\* The capture buffer holds what is recorded between two polls of which the
\* second is late, a packet that was not sent before, and the margin that is
\* kept from the position of the device.
CaptureRoom == 2 * P + MaxLate + capture_offset + 2 <= capbuflen

\* The last sample that was handed over, if any was.
HasLatest == sent # <<>> \/ prev # <<>>
Latest == IF sent # <<>> THEN Last(sent) ELSE prev[1]

\* The time up to which DirectSound may be read; CapturePos is its place.
Readable(t) == (t - capture_offset) - (((t - capture_offset) % capbuflen) % 2)

\* A poll reads on from the cursor after the sample that was read last.
Continues ==
  HasLatest =>
    /\ rec_state # "open"
    /\ ra.type = "file" => Follows(Latest, cursor % ra.len)
    /\ ra.type = "devaudio" => cursor = Latest + 1
    /\ ra.type = "directsound" => /\ ar_cap_nr # 0
                                  /\ cursor = (Latest + 1) % capbuflen
                                  /\ Latest + 1 <= Readable(now)

\* The reader of the capture buffer is a packet behind at most, or has found
\* nothing to send because of where the end of its next packet lies.
CaptureLag ==
  (rec_state = "running" /\ ra.type = "directsound" /\ ar_cap_nr # 0)
    => \/ (CapturePos(now) - cursor) % capbuflen <= P
       \/ CapturePos(now) <= (cursor + P) % capbuflen

\* What DirectSound reads was recorded after FirstCaptured.
SinceStart ==
  ra.type = "directsound" =>
    /\ HasLatest => FirstCaptured <= Latest
    /\ (ar_cap_nr # 0 /\ ~HasLatest) =>
         \E y \in Int : FirstCaptured <= y /\ y <= Readable(now) /\ cursor = y % capbuflen

HistoryOK == sent \in Seq(Int) /\ (prev = <<>> \/ \E x \in Int : prev = <<x>>)

OrderInv ==
  /\ PaceInv /\ HistoryOK /\ Continues /\ CaptureLag /\ SinceStart
  /\ ra.type = "file" => cursor \in 0 .. ra.len
  /\ ra.type = "directsound" => cursor \in 0 .. capbuflen - 1
  /\ SamplesInOrder

(* What handing over the samples s does to the history.                    *)
LEMMA HistoryStep ==
  ASSUME HistoryOK, NEW s \in Seq(Int), sent' = s,
         prev' = IF sent = <<>> THEN prev ELSE <<Last(sent)>>
  PROVE  /\ HistoryOK'
         /\ HasLatest => Latest \in Int
         /\ prev' # <<>> <=> HasLatest
         /\ HasLatest => prev'[1] = Latest
         /\ HasLatest' <=> (s # <<>> \/ HasLatest)
         /\ s # <<>> => Latest' = Last(s)
         /\ (s = <<>> /\ HasLatest) => Latest' = Latest
<1>1. sent # <<>> => Last(sent) \in Int
  BY EmptySeq, ElementOfSeq DEF HistoryOK, Last
<1>2. prev # <<>> => prev[1] \in Int
  BY DEF HistoryOK
<1>3. CASE sent = <<>>
  BY <1>2, <1>3 DEF HistoryOK, HasLatest, Latest
<1>4. CASE sent # <<>>
  <2>1. prev' = <<Last(sent)>> /\ prev' # <<>> /\ prev'[1] = Last(sent)
    BY <1>4
  <2>2. HasLatest /\ Latest = Last(sent)
    BY <1>4 DEF HasLatest, Latest
  <2>3. HistoryOK'
    BY <1>1, <1>4, <2>1 DEF HistoryOK
  <2>4. HasLatest'
    BY <2>1 DEF HasLatest
  <2>5. Latest' = IF s # <<>> THEN Last(s) ELSE Last(sent)
    BY <2>1 DEF Latest
  <2>6. QED  BY <1>1, <1>4, <2>1, <2>2, <2>3, <2>4, <2>5
<1>5. QED  BY <1>3, <1>4

(* Samples in order that go on from the latest one.                        *)
LEMMA OrderStep ==
  ASSUME HistoryOK, NEW s \in Seq(Int), sent' = s, UNCHANGED ra,
         prev' = IF sent = <<>> THEN prev ELSE <<Last(sent)>>,
         \A i \in 1 .. Len(s) - 1 : Follows(s[i], s[i + 1]),
         (s # <<>> /\ HasLatest) => IF ra.type = "directsound" THEN Latest < s[1]
                                    ELSE Follows(Latest, s[1]),
         (s # <<>> /\ ra.type = "directsound") => /\ Last(s) < now' - capture_offset
                                                 /\ FirstCaptured <= s[1]
  PROVE  SamplesInOrder'
<1>1. prev' # <<>> => HasLatest /\ prev'[1] = Latest
  BY HistoryStep
<1>2. QED  BY <1>1 DEF SamplesInOrder, Follows, FirstCaptured

-----------------------------------------------------------------------------
(* The order of a file *)

(* The sample after the one at x, over the end of the file.                *)
LEMMA NextSample ==
  ASSUME ra \in RecorderSet, ra.type = "file", NEW x \in Nat
  PROVE  /\ Follows(x % ra.len, (x + 1) % ra.len)
         /\ x + 1 >= ra.len => Follows(x % ra.len, (x + 1 - ra.len) % ra.len)
<1> DEFINE m == ra.len
<1>0. m \in Nat \ {0}
  BY FileLength
<1>1. ((x % m) + 1) % m = (x + 1) % m
  BY <1>0, ModAdd
<1>2. (x + 1) % m = (x + 1 - m) % m
  <2>1. ((x + 1) + m * (-1)) % m = (x + 1) % m
    BY <1>0, ModTurns
  <2>2. (x + 1) + m * (-1) = x + 1 - m
    BY <1>0
  <2>3. QED  BY <2>1, <2>2
<1>3. QED  BY <1>1, <1>2 DEF Follows

(* Place i of the samples: of which packet, and which of its samples.      *)
LEMMA PlaceInPackets ==
  ASSUME NEW n \in Nat, NEW i \in 1 .. n * P
  PROVE  /\ (i - 1) \div P \in 0 .. n - 1 /\ (i - 1) % P \in 0 .. P - 1
         /\ i = P * ((i - 1) \div P) + ((i - 1) % P) + 1
         /\ (i - 1) % P < P - 1 => /\ i \div P = (i - 1) \div P
                                   /\ i % P = ((i - 1) % P) + 1
         /\ (i - 1) % P = P - 1 => /\ i \div P = ((i - 1) \div P) + 1
                                   /\ i % P = 0
<1> DEFINE k == (i - 1) \div P
           j == (i - 1) % P
<1>0. P \in Nat \ {0} /\ n * P \in Nat /\ i \in Nat \ {0}
  BY Constants
<1>1. j \in 0 .. P - 1 /\ k \in Int /\ i - 1 = P * k + j
  <2>1. i - 1 \in Int
    BY <1>0
  <2>2. QED  BY <1>0, <2>1, DivMod
<1> HIDE DEF k, j
<1>2. k >= 0
  <2>1. ASSUME k < 0  PROVE FALSE
    <3>1. (-1 - k) * P \in Nat
      BY <1>0, <1>1, <2>1
    <3>2. P * k \in Int /\ P * k <= -P
      BY <1>0, <1>1, <3>1
    <3>3. QED  BY <1>0, <1>1, <3>2
  <2>2. QED  BY <1>1, <2>1
<1>3. k <= n - 1
  <2>1. ASSUME k >= n  PROVE FALSE
    <3>1. (k - n) * P \in Nat
      BY <1>0, <1>1, <2>1
    <3>2. P * k \in Int /\ P * k >= n * P
      BY <1>0, <1>1, <3>1
    <3>3. QED  BY <1>0, <1>1, <3>2
  <2>2. QED  BY <1>1, <2>1
<1>4. ASSUME j < P - 1  PROVE i \div P = k /\ i % P = j + 1
  <2>1. j + 1 \in 0 .. P - 1 /\ i = P * k + (j + 1)
    BY <1>0, <1>1, <1>4
  <2>2. QED  BY <1>0, <1>1, <2>1, DivModUnique
<1>5. ASSUME j = P - 1  PROVE i \div P = k + 1 /\ i % P = 0
  <2>1. 0 \in 0 .. P - 1 /\ i = P * (k + 1) + 0 /\ k + 1 \in Int
    BY <1>0, <1>1, <1>5
  <2>2. QED  BY <1>0, <1>1, <2>1, DivModUnique
<1>6. i = P * k + j + 1
  <2>1. P * k \in Int
    BY <1>0, <1>1
  <2>2. QED  BY <1>0, <1>1, <2>1
<1>7. QED  BY <1>1, <1>2, <1>3, <1>4, <1>5, <1>6 DEF k, j

(* A poll of the file goes on where the last one ended.                    *)
LEMMA FileOrder ==
  ASSUME OrderInv, ra.type = "file", UNCHANGED ra, rec_state = "running",
         NEW t \in Nat, audio_file_record_poll(t)
  PROVE  HistoryOK' /\ Continues' /\ SamplesInOrder' /\ cursor' \in 0 .. ra.len
<1> DEFINE due == IF t <= ar_T THEN 0 ELSE ((t - ar_T - 1) \div P) + 1
<1>0. /\ ra \in RecorderSet /\ ra.len \in Nat \ {0} /\ P \in Nat \ {0}
      /\ HistoryOK /\ cursor \in 0 .. ra.len
  BY FileLength, Constants DEF OrderInv, PaceInv, RecTypeOK
<1>1. PICK n \in 0 .. due : \E off \in [0 .. n -> 0 .. ra.len] :
        /\ off[0] = cursor
        /\ \A k \in 1 .. n : ~AddFails(off[k - 1]) /\ off[k] = NextOffset(off[k - 1])
        /\ HandOver(n, due, [i \in 1 .. n * P |->
                               add_buffer(off[(i - 1) \div P])[((i - 1) % P) + 1]])
        /\ cursor' = off[n]
  BY DEF audio_file_record_poll
<1>2. PICK off \in [0 .. n -> 0 .. ra.len] :
        /\ off[0] = cursor
        /\ \A k \in 1 .. n : ~AddFails(off[k - 1]) /\ off[k] = NextOffset(off[k - 1])
        /\ HandOver(n, due, [i \in 1 .. n * P |->
                               add_buffer(off[(i - 1) \div P])[((i - 1) % P) + 1]])
        /\ cursor' = off[n]
  BY <1>1
<1> DEFINE s == [i \in 1 .. n * P |->
                   add_buffer(off[(i - 1) \div P])[((i - 1) % P) + 1]]
<1>3. /\ sent' = s /\ prev' = IF sent = <<>> THEN prev ELSE <<Last(sent)>>
      /\ rec_state' # "open"
  BY <1>2 DEF HandOver
<1>4. due \in Int /\ n \in Nat
  <2>1. ar_T \in Nat
    BY DEF OrderInv, PaceInv, RecTypeOK
  <2>2. due \in Int
    BY <1>0, <2>1
  <2>3. QED  BY <2>2
<1> HIDE DEF due
<1>5. n * P \in Nat
  BY <1>0, <1>4
\* Sample i is at this offset of the file.
<1> DEFINE At(i) == off[(i - 1) \div P] + ((i - 1) % P)
<1>6. ASSUME NEW i \in 1 .. n * P
      PROVE  At(i) \in Nat /\ s[i] = At(i) % ra.len
  <2> DEFINE k == (i - 1) \div P
             j == (i - 1) % P
  <2>1. k \in 0 .. n - 1 /\ j \in 0 .. P - 1
    BY <1>4, PlaceInPackets
  <2>2. s[i] = add_buffer(off[k])[j + 1]
    OBVIOUS
  <2> HIDE DEF k, j, s
  <2>3. add_buffer(off[k])[j + 1] = (off[k] + (j + 1) - 1) % ra.len
    BY <1>0, <2>1 DEF add_buffer
  <2>4. off[k] \in Nat /\ off[k] + (j + 1) - 1 = off[k] + j /\ off[k] + j \in Nat
    BY <1>0, <1>4, <2>1
  <2>5. QED  BY <2>2, <2>3, <2>4 DEF k, j
<1>7. s \in [1 .. n * P -> Int]
  BY <1>0, <1>6
<1>8. /\ s \in Seq(Int) /\ Len(s) = n * P /\ (s = <<>> <=> n * P = 0)
      /\ n * P # 0 => Last(s) = s[n * P]
  BY <1>5, <1>7, Samples
<1> HIDE DEF s
\* Over the end of a packet, and of the file in it.
<1>9. ASSUME NEW i \in 1 .. n * P, (i - 1) % P = P - 1
      PROVE  /\ i \div P \in 1 .. n
             /\ Follows(s[i], off[i \div P] % ra.len)
  <2> DEFINE k == (i - 1) \div P
  <2>1. k \in 0 .. n - 1 /\ i \div P = k + 1
    BY <1>4, <1>9, PlaceInPackets
  <2>2. At(i) = off[k] + (P - 1)
    BY <1>9
  <2> HIDE DEF k
  <2>3. off[k] \in 0 .. ra.len /\ k + 1 \in 1 .. n
    BY <1>4, <2>1
  <2>4. off[k + 1] = NextOffset(off[k])
    <3>1. off[k + 1] = NextOffset(off[(k + 1) - 1])
      BY <1>2, <2>3
    <3>2. (k + 1) - 1 = k
      BY <1>4, <2>1
    <3>3. QED  BY <3>1, <3>2
  <2> DEFINE x == off[k] + (P - 1)
  <2>5. x \in Nat /\ s[i] = x % ra.len
    BY <1>6, <2>2
  <2>6. /\ off[k] + P <= ra.len => off[k + 1] = x + 1
        /\ ~(off[k] + P <= ra.len) => off[k + 1] = x + 1 - ra.len /\ x + 1 >= ra.len
    <3> DEFINE o == off[k]
    <3>1. o \in Nat /\ ra.len \in Nat /\ P \in Nat
      BY <1>0, <2>3
    <3>2. off[k + 1] = IF o + P <= ra.len THEN o + P ELSE o + P - ra.len
      BY <2>4 DEF NextOffset
    <3> HIDE DEF o
    <3>3. x = o + (P - 1)
      BY DEF o
    <3> HIDE DEF x
    <3>4. x \in Int /\ x + 1 = o + P
      BY <3>1, <3>3
    <3>5. CASE o + P <= ra.len
      <4>1. off[k + 1] = x + 1
        BY <3>2, <3>4, <3>5
      <4>2. QED  BY <3>5, <4>1 DEF o
    <3>6. CASE ~(o + P <= ra.len)
      <4>1. off[k + 1] = o + P - ra.len
        BY <3>2, <3>6, Zenon
      <4>2. o + P - ra.len = x + 1 - ra.len
        BY <3>1, <3>4
      <4>3. x + 1 >= ra.len
        BY <3>1, <3>4, <3>6
      <4>4. QED  BY <3>6, <4>1, <4>2, <4>3, Zenon DEF o
    <3>7. QED  BY <3>5, <3>6
  <2> HIDE DEF x
  <2>7. Follows(s[i], off[k + 1] % ra.len)
    BY <1>0, <2>5, <2>6, NextSample
  <2>8. QED  BY <2>1, <2>3, <2>7
<1>10. ASSUME NEW i \in 1 .. Len(s) - 1
       PROVE  Follows(s[i], s[i + 1])
  <2>1. i \in 1 .. n * P /\ i + 1 \in 1 .. n * P /\ (i + 1) - 1 = i
    BY <1>5, <1>8
  <2>2. s[i + 1] = (off[i \div P] + (i % P)) % ra.len
    BY <1>6, <2>1
  <2>3. (i - 1) % P \in 0 .. P - 1
    BY <1>4, <2>1, PlaceInPackets
  <2>4. CASE (i - 1) % P = P - 1
    <3>1. i % P = 0 /\ Follows(s[i], off[i \div P] % ra.len) /\ i \div P \in 1 .. n
      BY <1>4, <1>9, <2>1, <2>4, PlaceInPackets
    <3>2. off[i \div P] \in 0 .. ra.len
      BY <1>4, <3>1
    <3>3. off[i \div P] + 0 = off[i \div P]
      BY <1>0, <3>2
    <3>4. QED  BY <2>2, <3>1, <3>3
  <2>5. CASE (i - 1) % P < P - 1
    <3>1. i \div P = (i - 1) \div P /\ i % P = ((i - 1) % P) + 1
      BY <1>4, <2>1, <2>5, PlaceInPackets
    <3>2. At(i) \in Nat /\ s[i] = At(i) % ra.len
      BY <1>6, <2>1
    <3>3. off[i \div P] + (i % P) = At(i) + 1
      <4>1. (i - 1) \div P \in 0 .. n - 1
        BY <1>4, <2>1, PlaceInPackets
      <4>2. off[(i - 1) \div P] \in 0 .. ra.len
        BY <1>4, <4>1
      <4> DEFINE o == off[(i - 1) \div P]
                 j == (i - 1) % P
      <4>3. o \in Nat /\ j \in Nat
        BY <1>0, <2>3, <4>2
      <4>4. off[i \div P] + (i % P) = o + (j + 1) /\ At(i) = o + j
        BY <3>1
      <4> HIDE DEF o, j, At
      <4>5. QED  BY <4>3, <4>4
    <3> DEFINE x == At(i)
    <3>4. x \in Nat /\ s[i] = x % ra.len /\ s[i + 1] = (x + 1) % ra.len
      BY <2>2, <3>2, <3>3
    <3> HIDE DEF x, At
    <3>5. Follows(x % ra.len, (x + 1) % ra.len)
      BY <1>0, <3>4, NextSample
    <3>6. QED  BY <3>4, <3>5
  <2>6. \A j \in 0 .. P - 1 : j = P - 1 \/ j < P - 1
    BY <1>0
  <2>7. QED  BY <2>3, <2>4, <2>5, <2>6
<1>11. ASSUME n # 0
       PROVE  /\ s # <<>> /\ s[1] = cursor % ra.len
              /\ Follows(Last(s), cursor' % ra.len)
  <2> DEFINE N == n * P
  <2>1. N \in 1 .. N /\ 1 \in 1 .. N /\ N # 0
    <3>1. N >= P
      <4>1. (n - 1) * P \in Nat
        BY <1>0, <1>4, <1>11
      <4>2. QED  BY <1>0, <1>4, <4>1
    <3>2. QED  BY <1>0, <1>5, <3>1
  <2>2. s[1] = cursor % ra.len
    <3>1. 0 \div P = 0 /\ 0 % P = 0
      <4>1. 0 = P * 0 + 0 /\ 0 \in 0 .. P - 1
        BY <1>0
      <4>2. QED  BY <1>0, <4>1, DivModUnique
    <3>2. At(1) = off[0] + 0
      BY <3>1
    <3>3. off[0] + 0 = cursor
      BY <1>0, <1>2
    <3> HIDE DEF At
    <3>4. QED  BY <1>6, <2>1, <3>2, <3>3
  <2>3. (N - 1) % P = P - 1 /\ N \div P = n
    <3> DEFINE m == n - 1
    <3>1. N - 1 = P * m + (P - 1) /\ P - 1 \in 0 .. P - 1 /\ m \in Int /\ N - 1 \in Int
      BY <1>0, <1>4
    <3>2. N = P * n + 0 /\ 0 \in 0 .. P - 1 /\ N \in Int
      BY <1>0, <1>4
    <3> HIDE DEF m, N
    <3>3. (N - 1) % P = P - 1
      BY <1>0, <3>1, DivModUnique
    <3>4. N \div P = n
      BY <1>0, <1>4, <3>2, DivModUnique
    <3>5. QED  BY <3>3, <3>4
  <2>4. Follows(s[N], off[n] % ra.len)
    BY <1>9, <2>1, <2>3
  <2>5. QED  BY <1>2, <1>8, <2>1, <2>2, <2>4
<1>12. CASE n = 0
  <2>1. s = <<>> /\ cursor' = cursor
    BY <1>0, <1>2, <1>8, <1>12
  <2>2. HistoryOK' /\ (HasLatest' <=> HasLatest) /\ (HasLatest => Latest' = Latest)
    BY <1>0, <1>3, <1>8, <2>1, HistoryStep
  <2>3. Continues'
    BY <1>3, <2>1, <2>2 DEF OrderInv, Continues, Follows
  <2>4. SamplesInOrder'
    BY <1>0, <1>3, <1>8, <1>10, <2>1, OrderStep
  <2>5. QED  BY <1>0, <2>1, <2>2, <2>3, <2>4
<1>13. CASE n # 0
  <2>1. HistoryOK' /\ Latest' = Last(s)
    BY <1>0, <1>3, <1>8, <1>11, <1>13, HistoryStep
  <2>2. Continues'
    BY <1>3, <1>11, <1>13, <2>1 DEF Continues, Follows
  <2>3. HasLatest => Follows(Latest, s[1])
    BY <1>11, <1>13 DEF OrderInv, Continues
  <2>4. SamplesInOrder'
    BY <1>0, <1>3, <1>8, <1>10, <2>3, OrderStep
  <2>5. cursor' \in 0 .. ra.len
    BY <1>2, <1>4
  <2>6. QED  BY <2>1, <2>2, <2>4, <2>5
<1>14. QED  BY <1>12, <1>13

-----------------------------------------------------------------------------
(* The order of /dev/audio *)

(* A poll of the device goes on where the last one ended.                  *)
LEMMA DevaudioOrder ==
  ASSUME OrderInv, ra.type = "devaudio", UNCHANGED ra,
         NEW t \in Nat, audio_devaudio_record_poll(t)
  PROVE  HistoryOK' /\ Continues' /\ SamplesInOrder'
<1>0. P \in Nat \ {0} /\ HistoryOK /\ cursor \in Nat
  BY Constants DEF OrderInv, PaceInv, RecTypeOK
<1>1. PICK n \in 0 .. 2 :
        /\ sent' = [i \in 1 .. n * P |-> cursor + i - 1]
        /\ prev' = IF sent = <<>> THEN prev ELSE <<Last(sent)>>
        /\ rec_state' # "open"
        /\ cursor' = cursor + n * P
        /\ now' = IF cursor' > t THEN cursor' ELSE t
  BY DEF audio_devaudio_record_poll, HandOver
<1> DEFINE s == [i \in 1 .. n * P |-> cursor + i - 1]
<1>2. n * P \in Nat /\ (n * P = 0 <=> n = 0) /\ now' >= cursor' /\ cursor' \in Nat
  BY <1>0, <1>1
<1>3. s \in [1 .. n * P -> Int]
  BY <1>0, <1>2
<1>4. /\ s \in Seq(Int) /\ Len(s) = n * P /\ (s = <<>> <=> n = 0)
      /\ n # 0 => Last(s) = s[n * P]
  BY <1>2, <1>3, Samples
<1>5. \A i \in 1 .. n * P : s[i] = cursor + i - 1
  OBVIOUS
<1> HIDE DEF s
<1>6. \A i \in 1 .. Len(s) - 1 : Follows(s[i], s[i + 1])
  BY <1>0, <1>2, <1>4, <1>5 DEF Follows
<1>7. n # 0 => /\ s[1] = cursor /\ Last(s) = cursor' - 1
               /\ Last(s) < now' /\ cursor' = Last(s) + 1
  BY <1>0, <1>1, <1>2, <1>4, <1>5
<1>8. sent' = s
  BY <1>1 DEF s
<1>9. /\ HistoryOK' /\ (HasLatest' <=> (s # <<>> \/ HasLatest))
      /\ s # <<>> => Latest' = Last(s)
      /\ (s = <<>> /\ HasLatest) => Latest' = Latest
      /\ HasLatest => Latest \in Int
  BY <1>0, <1>1, <1>4, <1>8, HistoryStep
<1>10. HasLatest => cursor = Latest + 1
  BY DEF OrderInv, Continues
<1>11. Continues'
  <2>1. HasLatest' => cursor' = Latest' + 1
    BY <1>0, <1>1, <1>4, <1>7, <1>9, <1>10
  <2>2. QED  BY <1>1, <2>1 DEF Continues
<1>12. SamplesInOrder'
  <2>1. (s # <<>> /\ HasLatest) => Follows(Latest, s[1])
    BY <1>4, <1>7, <1>10 DEF Follows
  <2>2. QED  BY <1>0, <1>1, <1>4, <1>6, <1>7, <1>8, <2>1, OrderStep
<1>13. QED  BY <1>9, <1>11, <1>12

-----------------------------------------------------------------------------
(* The order of the capture buffer *)

C == capbuflen

(* The capture position is the place of a time shortly before now.         *)
LEMMA CaptureTime ==
  ASSUME NEW t \in Nat
  PROVE  /\ Readable(t) \in Int /\ CapturePos(t) \in 0 .. C - 1
         /\ CapturePos(t) = Readable(t) % C
         /\ t - capture_offset - 1 <= Readable(t) /\ Readable(t) <= t - capture_offset
<1> DEFINE b == t - capture_offset
           w == b % C
           q == b \div C
           r == w % 2
<1>0. C \in Nat \ {0} /\ capture_offset \in Nat
  BY Constants DEF C
<1>1. b \in Int /\ w \in 0 .. C - 1 /\ q \in Int /\ b = C * q + w
  <2>1. b \in Int
    BY <1>0
  <2>2. QED  BY <1>0, <2>1, DivMod
<1>2. Readable(t) = b - r /\ CapturePos(t) = w - r
  BY DEF Readable, CapturePos, C
<1> HIDE DEF b, w, q
<1>3. r \in 0 .. 1 /\ r <= w
  BY <1>1
<1> HIDE DEF r
<1>4. w - r \in 0 .. C - 1 /\ b - r \in Int
  BY <1>0, <1>1, <1>3
<1>5. b - r = C * q + (w - r)
  <2>1. C * q \in Int
    BY <1>0, <1>1
  <2>2. QED  BY <1>1, <1>3, <2>1
<1>6. (b - r) % C = w - r
  BY <1>0, <1>1, <1>4, <1>5, DivModUnique
<1>7. b - 1 <= b - r /\ b - r <= b
  BY <1>1, <1>3
<1>8. QED  BY <1>2, <1>4, <1>6, <1>7 DEF b

(* A place that was written less than a turn ago.                          *)
LEMMA CapturedAt ==
  ASSUME NEW t \in Nat, NEW y \in Int, y <= t - 1, t - 1 - y < C
  PROVE  Captured(y % C, t) = y
<1> DEFINE q == y \div C
           r == y % C
           d == t - 1 - y
<1>0. C \in Nat \ {0}
  BY Constants DEF C
<1>1. r \in 0 .. C - 1 /\ q \in Int /\ y = C * q + r /\ d \in 0 .. C - 1
  BY <1>0, DivMod
<1>2. Captured(r, t) = t - 1 - ((t - 1 - r) % C)
  BY DEF Captured, C
<1>3. t - 1 - r \in Int /\ t - 1 - r = C * q + d
  <2>1. C * q \in Int
    BY <1>0, <1>1
  <2>2. QED  BY <1>1, <2>1
<1> HIDE DEF q, r, d
<1>4. (t - 1 - r) % C = d
  BY <1>0, <1>1, <1>3, DivModUnique
<1>5. QED  BY <1>2, <1>4 DEF r, d

(* The distance of two places is that of their times, below a turn.        *)
LEMMA GapOf ==
  ASSUME NEW a \in Int, NEW y \in Int, a - y \in 0 .. C - 1
  PROVE  ((a % C) - (y % C)) % C = a - y
<1> DEFINE p == a \div C
           u == a % C
           q == y \div C
           v == y % C
           k == q - p
<1>0. C \in Nat \ {0}
  BY Constants DEF C
<1>1. u \in 0 .. C - 1 /\ p \in Int /\ a = C * p + u
  BY <1>0, DivMod
<1>2. v \in 0 .. C - 1 /\ q \in Int /\ y = C * q + v
  BY <1>0, DivMod
<1> HIDE DEF p, u, q, v
<1>3. u - v = C * k + (a - y) /\ k \in Int /\ u - v \in Int
  <2>1. C * k = C * q - C * p /\ C * q \in Int /\ C * p \in Int
    BY <1>0, <1>1, <1>2
  <2>2. QED  BY <1>1, <1>2, <2>1
<1> HIDE DEF k
<1> DEFINE d == a - y
<1>4. d \in 0 .. C - 1 /\ u - v = C * k + d
  BY <1>3
<1> HIDE DEF d
<1>5. (u - v) % C = d
  BY <1>0, <1>3, <1>4, DivModUnique
<1>6. QED  BY <1>5 DEF u, v, d

(* Going back by the distance of a place leads to the latest time, up to   *)
(* the present one, at that place.                                         *)
LEMMA GapBack ==
  ASSUME NEW a \in Int, NEW c \in 0 .. C - 1
  PROVE  LET g == ((a % C) - c) % C
         IN  /\ g \in 0 .. C - 1 /\ (a - g) % C = c
             /\ \A y \in Int : (y <= a /\ y % C = c) => y <= a - g
<1> DEFINE p == a \div C
           u == a % C
           b == u - c
           k == b \div C
           g == b % C
           m == p + k
           z == a - g
<1>0. C \in Nat \ {0}
  BY Constants DEF C
<1>1. u \in 0 .. C - 1 /\ p \in Int /\ a = C * p + u
  BY <1>0, DivMod
<1> HIDE DEF p, u
<1>2. b \in Int /\ g \in 0 .. C - 1 /\ k \in Int /\ b = C * k + g
  <2>1. b \in Int
    BY <1>0, <1>1
  <2>2. QED  BY <1>0, <2>1, DivMod
<1>3. u - c = C * k + g
  BY <1>2
<1> HIDE DEF b, g, k
<1>4. z = C * m + c /\ m \in Int /\ z \in Int
  <2>1. C * m = C * p + C * k /\ C * p \in Int /\ C * k \in Int
    BY <1>0, <1>1, <1>2
  <2>2. QED  BY <1>1, <1>2, <1>3, <2>1
<1>5. z % C = c
  BY <1>0, <1>4, DivModUnique
<1>6. ASSUME NEW y \in Int, y <= a, y % C = c  PROVE y <= z
  <2> DEFINE n == y \div C
  <2>1. n \in Int /\ y = C * n + c
    BY <1>0, <1>6, DivMod
  <2> HIDE DEF n, m, z
  <2>2. z > a - C
    BY <1>0, <1>2 DEF z
  <2>3. CASE n > m
    <3>1. C * (n - m - 1) \in Nat
      BY <1>0, <1>4, <2>1, <2>3
    <3>2. C * (n - m - 1) = C * n - C * m - C /\ C * n \in Int /\ C * m \in Int
      BY <1>0, <1>4, <2>1
    <3>3. y >= z + C
      BY <1>0, <1>4, <2>1, <3>1, <3>2
    <3>4. QED  BY <1>0, <1>4, <1>6, <2>2, <3>3
  <2>4. CASE n <= m
    <3>1. C * (m - n) \in Nat
      BY <1>0, <1>4, <2>1, <2>4
    <3>2. C * (m - n) = C * m - C * n /\ C * n \in Int /\ C * m \in Int
      BY <1>0, <1>4, <2>1
    <3>3. QED  BY <1>0, <1>4, <2>1, <3>1, <3>2
  <2>5. QED  BY <1>4, <2>1, <2>3, <2>4
<1>7. QED  BY <1>2, <1>5, <1>6 DEF g, b, u

(* When the poll at t sends, it is at most two packets and the delay of    *)
(* the poll behind, whatever the poll at t0 left.                          *)
LEMMA LagBound ==
  ASSUME CaptureRoom, NEW t0 \in Nat, NEW t \in Nat, NEW c \in 0 .. C - 1,
         t0 < t, t <= t0 + P + MaxLate,
         \/ (CapturePos(t0) - c) % C <= P
         \/ CapturePos(t0) <= (c + P) % C,
         (c + P) % C < CapturePos(t)
  PROVE  (CapturePos(t) - c) % C \in 0 .. 2 * P + MaxLate + 1
<1> DEFINE A0 == Readable(t0)
           A == Readable(t)
           pos0 == CapturePos(t0)
           pos == CapturePos(t)
           e == (c + P) % C
           d == A - A0
<1>0. /\ C \in Nat \ {0} /\ P \in Nat \ {0} /\ capture_offset \in Nat /\ MaxLate \in Nat
      /\ 2 * P + MaxLate + 2 <= C
  BY Constants DEF C, CaptureRoom
<1>1. /\ A0 \in Int /\ pos0 \in 0 .. C - 1 /\ pos0 = A0 % C
      /\ t0 - capture_offset - 1 <= A0 /\ A0 <= t0 - capture_offset
  BY CaptureTime
<1>2. /\ A \in Int /\ pos \in 0 .. C - 1 /\ pos = A % C
      /\ t - capture_offset - 1 <= A /\ A <= t - capture_offset
  BY CaptureTime
<1>3. e \in 0 .. C - 1 /\ c + P \in Int
  BY <1>0
<1>4. e < pos /\ ((pos0 - c) % C <= P \/ pos0 <= e)
  OBVIOUS
<1> HIDE DEF A0, A, pos0, pos, e
<1>5. d \in 0 .. P + MaxLate + 1
  BY <1>0, <1>1, <1>2
<1>6. CASE (pos0 - c) % C <= P
  <2> DEFINE g == (pos0 - c) % C
             y == A0 - g
  <2>1. g \in 0 .. C - 1 /\ y % C = c
    BY <1>0, <1>1, GapBack
  <2>2. g <= P
    BY <1>6
  <2> HIDE DEF g
  <2>3. y \in Int /\ A - y \in 0 .. 2 * P + MaxLate + 1
    BY <1>0, <1>1, <1>2, <1>5, <2>1, <2>2
  <2> HIDE DEF y
  <2>4. A - y \in 0 .. C - 1
    BY <1>0, <2>3
  <2>5. (pos - c) % C = A - y
    BY <1>2, <2>1, <2>3, <2>4, GapOf
  <2>6. QED  BY <2>3, <2>5 DEF pos
<1>7. CASE pos0 <= e
  <2>1. pos - pos0 = d
    <3>1. A - A0 \in 0 .. C - 1
      BY <1>0, <1>5
    <3>2. (pos - pos0) % C = A - A0
      BY <1>1, <1>2, <3>1, GapOf
    <3>3. pos - pos0 \in 0 .. C - 1
      BY <1>0, <1>1, <1>2, <1>3, <1>4, <1>7
    <3>4. (pos - pos0) % C = pos - pos0
      BY <1>0, <3>3, ModSmall
    <3>5. QED  BY <3>2, <3>4
  <2> DEFINE q == A \div C
             y == A - (pos - e) - P
  <2>2. q \in Int /\ A = C * q + pos
    BY <1>0, <1>2, DivMod
  <2> HIDE DEF q
  <2>3. y \in Int /\ y = (e + (-P)) + C * q /\ e + (-P) \in Int
    <3>1. C * q \in Int
      BY <1>0, <2>2
    <3>2. QED  BY <1>0, <1>2, <1>3, <2>2, <3>1
  <2>4. A - y \in 0 .. 2 * P + MaxLate + 1
    BY <1>0, <1>1, <1>2, <1>3, <1>4, <1>5, <1>7, <2>1
  <2> HIDE DEF y
  <2>5. y % C = c
    <3>1. y % C = (e + (-P)) % C
      BY <1>0, <2>2, <2>3, ModTurns
    <3>2. (e + (-P)) % C = ((c + P) + (-P)) % C
      <4> DEFINE x == c + P
                 z == -P
      <4>1. x \in Int /\ z \in Int /\ e = x % C
        BY <1>0, <1>3 DEF e
      <4> HIDE DEF x, z
      <4>2. ((x % C) + z) % C = (x + z) % C
        BY <1>0, <4>1, ModAdd
      <4>3. QED  BY <4>1, <4>2 DEF x, z
    <3>3. (c + P) + (-P) = c
      BY <1>0
    <3>4. c % C = c
      BY <1>0, ModSmall
    <3>5. QED  BY <3>1, <3>2, <3>3, <3>4
  <2>6. A - y \in 0 .. C - 1
    BY <1>0, <2>4
  <2>7. (pos - c) % C = A - y
    BY <1>2, <2>3, <2>5, <2>6, GapOf
  <2>8. QED  BY <2>4, <2>7 DEF pos
<1>8. QED  BY <1>4, <1>6, <1>7

(* What a poll of the capture buffer leaves when it sends nothing.         *)
LEMMA NothingSent ==
  ASSUME OrderInv, ra.type = "directsound", UNCHANGED ra, NEW t \in Nat, now <= t,
         sent' = <<>>, prev' = IF sent = <<>> THEN prev ELSE <<Last(sent)>>,
         rec_state' # "open", now' = t,
         HasLatest => cursor' = cursor /\ ar_cap_nr' # 0,
         HasLatest => Readable(now) <= Readable(t),
         ~HasLatest => ((ar_cap_nr' # 0) =>
           \E y \in Int : FirstCaptured <= y /\ y <= Readable(t) /\ cursor' = y % capbuflen)
  PROVE  HistoryOK' /\ Continues' /\ SamplesInOrder' /\ SinceStart'
<1>0. HistoryOK /\ now \in Nat
  BY DEF OrderInv, PaceInv, RecTypeOK
<1>1. <<>> \in Seq(Int) /\ Len(<<>>) = 0
  OBVIOUS
<1>2. /\ HistoryOK' /\ (HasLatest' <=> HasLatest)
      /\ HasLatest => Latest' = Latest /\ Latest \in Int
  BY <1>0, <1>1, HistoryStep
<1>3. SamplesInOrder'
  <2>1. Len(sent') - 1 = -1 /\ \A i \in 1 .. -1 : FALSE
    BY <1>1
  <2>2. QED  BY <2>1 DEF SamplesInOrder
<1>4. Continues'
  <2> SUFFICES ASSUME HasLatest
               PROVE  /\ ar_cap_nr' # 0 /\ cursor' = (Latest' + 1) % capbuflen
                      /\ Latest' + 1 <= Readable(now')
    BY <1>2 DEF Continues
  <2>1. cursor = (Latest + 1) % capbuflen /\ Latest + 1 <= Readable(now)
    BY DEF OrderInv, Continues
  <2>2. Readable(now) \in Int /\ Readable(t) \in Int
    BY <1>0, CaptureTime
  <2>3. Latest + 1 <= Readable(t)
    BY <1>2, <2>1, <2>2
  <2>4. QED  BY <1>2, <2>1, <2>3
<1>5. SinceStart'
  <2>1. HasLatest => FirstCaptured <= Latest
    BY DEF OrderInv, SinceStart
  <2>2. QED  BY <1>2, <2>1 DEF SinceStart, FirstCaptured, Readable
<1>6. QED  BY <1>2, <1>3, <1>4, <1>5

(* The first poll starts to read a packet before the capture position.     *)
LEMMA DirectsoundFirst ==
  ASSUME CaptureRoom, OrderInv, ra.type = "directsound", UNCHANGED ra,
         NEW t \in Nat, now <= t, ar_cap_nr = 0, audio_directsound_record_poll(t)
  PROVE  /\ HistoryOK' /\ Continues' /\ CaptureLag' /\ SinceStart' /\ SamplesInOrder'
         /\ cursor' \in 0 .. C - 1
<1> DEFINE A == Readable(t)
           pos == CapturePos(t)
<1>0. C \in Nat \ {0} /\ P \in Nat \ {0} /\ P \in 0 .. C - 1
  BY Constants DEF C, CaptureRoom
<1>1. A \in Int /\ pos \in 0 .. C - 1 /\ pos = A % C
  BY CaptureTime
<1>2. PICK n \in 0 .. 0 :
        /\ sent' = [i \in 1 .. n * P |-> Captured((cursor + i - 1) % capbuflen, t)]
        /\ prev' = IF sent = <<>> THEN prev ELSE <<Last(sent)>>
        /\ rec_state' # "open" /\ now' = t /\ ar_cap_nr' = 1
        /\ cursor' = (pos - P) % C
  BY DEF audio_directsound_record_poll, HandOver, C
<1> HIDE DEF A, pos
<1>3. sent' = <<>>
  <2>1. n * P = 0
    BY <1>0, <1>2
  <2>2. QED  BY <1>2, <2>1
<1>4. ~HasLatest
  BY DEF OrderInv, Continues
<1>5. cursor' \in 0 .. C - 1
  BY <1>0, <1>1, <1>2
<1>6. (pos - cursor') % C <= P /\ \E y \in Int : /\ FirstCaptured <= y /\ y <= A
                                                  /\ cursor' = y % C
  <2> DEFINE z == -P
             y == A + z
  <2>0. t - capture_offset - 1 <= A /\ capture_offset \in Nat
    BY CaptureTime, Constants DEF A
  <2>1. /\ z \in Int /\ y \in Int /\ A - y = P /\ pos - P = pos + z
        /\ FirstCaptured <= y /\ y <= A
    BY <1>0, <1>1, <2>0 DEF FirstCaptured
  <2> HIDE DEF z
  <2>2. (pos + z) % C = (A + z) % C
    BY <1>0, <1>1, <2>1, ModAdd
  <2>3. cursor' = y % C
    BY <1>2, <2>1, <2>2
  <2> HIDE DEF y
  <2>4. (pos - cursor') % C = A - y
    BY <1>0, <1>1, <2>1, <2>3, GapOf
  <2>5. QED  BY <1>0, <2>1, <2>3, <2>4
<1>7. CaptureLag'
  BY <1>2, <1>6 DEF CaptureLag, pos, C
<1>8. HistoryOK' /\ Continues' /\ SamplesInOrder' /\ SinceStart'
  BY <1>2, <1>3, <1>4, <1>6, NothingSent DEF A, C
<1>9. QED  BY <1>5, <1>7, <1>8

\* N samples from place c of the buffer on: the first is the latest that was
\* recorded there, at time base, and they were recorded one after the other.
ReadsInOrder(c, N, base, t) ==
  /\ base % C = c /\ base + N <= Readable(t) /\ Readable(t) <= t
  /\ \A y \in Int : (y <= Readable(t) /\ y % C = c) => y <= base
  /\ \A i \in 1 .. N : Captured((c + i - 1) % C, t) = base + i - 1

(* So it is for what lies between the cursor and the capture position:     *)
(* none of it has been overwritten.                                        *)
LEMMA CaptureRead ==
  ASSUME CaptureRoom, NEW t \in Nat, NEW c \in 0 .. C - 1,
         NEW g \in 0 .. 2 * P + MaxLate + 1, (CapturePos(t) - c) % C = g,
         NEW N \in Nat, N <= g, NEW base \in Int, Readable(t) - g = base
  PROVE  ReadsInOrder(c, N, base, t)
<1> DEFINE A == Readable(t)
           pos == CapturePos(t)
<1>0. /\ C \in Nat \ {0} /\ P \in Nat \ {0} /\ capture_offset \in Nat /\ MaxLate \in Nat
      /\ 2 * P + MaxLate + capture_offset + 2 <= C
  BY Constants DEF C, CaptureRoom
<1>1. /\ A \in Int /\ pos \in 0 .. C - 1 /\ pos = A % C
      /\ t - capture_offset - 1 <= A /\ A <= t - capture_offset
  BY CaptureTime
<1>2. /\ (A - g) % C = c
      /\ \A y \in Int : (y <= A /\ y % C = c) => y <= A - g
  BY <1>1, GapBack
<1>3. base = A - g
  OBVIOUS
<1> HIDE DEF A, pos
<1>4. A <= t /\ base + N <= A
  BY <1>0, <1>1, <1>3
<1>5. ASSUME NEW i \in 1 .. N
      PROVE  Captured((c + i - 1) % C, t) = base + i - 1
  <2> DEFINE j == i - 1
             y == base + j
  <2>1. j \in Int /\ y \in Int /\ c + i - 1 = c + j /\ base + i - 1 = y
    BY <1>0
  <2>2. y <= t - 1 /\ t - 1 - y < C
    BY <1>0, <1>1, <1>3, <1>4
  <2> HIDE DEF j
  <2>3. (c + j) % C = y % C
    <3>1. ((base % C) + j) % C = (base + j) % C
      BY <1>0, <2>1, ModAdd
    <3>2. QED  BY <1>2, <1>3, <3>1
  <2> HIDE DEF y
  <2>4. Captured(y % C, t) = y
    BY <2>1, <2>2, CapturedAt
  <2>5. QED  BY <2>1, <2>3, <2>4
<1>6. QED  BY <1>2, <1>3, <1>4, <1>5 DEF A, ReadsInOrder

(* A later poll sends what was recorded after the latest sample.           *)
LEMMA DirectsoundSends ==
  ASSUME CaptureRoom, OrderInv, ra.type = "directsound", UNCHANGED ra,
         rec_state = "running", ar_cap_nr # 0,
         NEW t \in Nat, now < t, t <= now + P + MaxLate,
         (cursor + P) % C < CapturePos(t), audio_directsound_record_poll(t)
  PROVE  /\ HistoryOK' /\ Continues' /\ CaptureLag' /\ SinceStart' /\ SamplesInOrder'
         /\ cursor' \in 0 .. C - 1
<1> DEFINE A == Readable(t)
           pos == CapturePos(t)
           g == (pos - cursor) % C
           nr == g \div P
           base == A - g
<1>0. /\ C \in Nat \ {0} /\ P \in Nat \ {0} /\ capture_offset \in Nat /\ MaxLate \in Nat
      /\ now \in Nat /\ cursor \in 0 .. C - 1 /\ HistoryOK /\ ar_cap_nr \in Nat \ {0}
      /\ 2 * P + MaxLate + 2 <= C
  BY Constants DEF C, OrderInv, PaceInv, RecTypeOK, CaptureRoom
<1>1. PICK n \in 0 .. nr :
        /\ sent' = [i \in 1 .. n * P |-> Captured((cursor + i - 1) % C, t)]
        /\ prev' = IF sent = <<>> THEN prev ELSE <<Last(sent)>>
        /\ rec_state' # "open" /\ (rec_state' = "running" => n = nr)
        /\ now' = t /\ ar_cap_nr' = ar_cap_nr + n
        /\ cursor' = (cursor + n * P) % C
  BY DEF audio_directsound_record_poll, HandOver, nr_send, C
<1>2. A \in Int /\ pos \in 0 .. C - 1 /\ pos = A % C /\ t - capture_offset - 1 <= A
      /\ A <= t - capture_offset
  BY CaptureTime
<1>3. g \in 0 .. 2 * P + MaxLate + 1
  <2>1. (CapturePos(now) - cursor) % C <= P \/ CapturePos(now) <= (cursor + P) % C
    BY DEF OrderInv, CaptureLag, C
  <2>2. QED  BY <1>0, <2>1, LagBound
<1>4. nr \in Int /\ g = P * nr + (g % P) /\ g % P \in 0 .. P - 1
  <2> HIDE DEF g
  <2>1. g \in Int
    BY <1>0, <1>3
  <2>2. QED  BY <1>0, <2>1, DivMod
<1> DEFINE N == n * P
           s == [i \in 1 .. N |-> Captured((cursor + i - 1) % C, t)]
<1>5. n \in Nat /\ n <= nr /\ sent' = s
  BY <1>1, <1>4
<1> HIDE DEF nr
<1>6. N \in Nat /\ N <= g /\ (N = 0 <=> n = 0)
  <2> DEFINE r == g % P
  <2>1. g = P * nr + r /\ r \in Nat
    BY <1>0, <1>4
  <2> HIDE DEF r, g
  <2>2. (nr - n) * P \in Nat
    BY <1>0, <1>4, <1>5
  <2>3. P * nr = (nr - n) * P + N /\ N \in Nat
    BY <1>0, <1>4, <1>5
  <2>4. N <= g
    BY <2>1, <2>2, <2>3
  <2>5. n # 0 => N # 0
    <3>1. n # 0 => (n - 1) * P \in Nat /\ N = (n - 1) * P + P
      BY <1>0, <1>5
    <3>2. QED  BY <1>0, <2>3, <3>1
  <2>6. QED  BY <1>0, <2>3, <2>4, <2>5
<1>7. base \in Int
  BY <1>2, <1>3
<1>8. /\ base % C = cursor /\ base + N <= A /\ A <= t
      /\ \A y \in Int : (y <= A /\ y % C = cursor) => y <= base
      /\ \A i \in 1 .. N : s[i] = base + i - 1
  <2>0. (CapturePos(t) - cursor) % C = g /\ Readable(t) - g = base /\ cursor \in 0 .. C - 1
    BY <1>0
  <2> HIDE DEF N, g, base
  <2>1. ReadsInOrder(cursor, N, base, t)
    BY <1>3, <1>6, <1>7, <2>0, CaptureRead
  <2>2. QED  BY <2>1 DEF ReadsInOrder
<1>9. base = A - g
  OBVIOUS
<1> HIDE DEF A, g, base, N
<1>10. s \in [1 .. N -> Int]
  BY <1>6, <1>7, <1>8
<1>11. /\ s \in Seq(Int) /\ Len(s) = N /\ (s = <<>> <=> N = 0)
       /\ N # 0 => Last(s) = s[N]
  BY <1>6, <1>10, Samples
<1> HIDE DEF s
<1>12. /\ HistoryOK' /\ (HasLatest' <=> (s # <<>> \/ HasLatest))
       /\ s # <<>> => Latest' = Last(s)
       /\ (s = <<>> /\ HasLatest) => Latest' = Latest
       /\ HasLatest => Latest \in Int
  BY <1>0, <1>1, <1>5, <1>11, HistoryStep
\* The latest sample was readable at the last poll, and so before base.
<1>13. HasLatest => Latest + 1 <= base /\ cursor = (Latest + 1) % C /\ Latest + 1 <= A
  <2> SUFFICES ASSUME HasLatest
               PROVE  Latest + 1 <= base /\ cursor = (Latest + 1) % C /\ Latest + 1 <= A
    OBVIOUS
  <2>1. cursor = (Latest + 1) % C /\ Latest + 1 <= Readable(now)
    BY DEF OrderInv, Continues, C
  <2>2. Readable(now) \in Int /\ Readable(now) <= now - capture_offset
    BY <1>0, CaptureTime
  <2> DEFINE l == Latest + 1
             r == Readable(now)
  <2>3. l \in Int /\ r \in Int /\ l <= r /\ r <= now - capture_offset
    BY <1>12, <2>1, <2>2
  <2> HIDE DEF l, r
  <2>4. l <= A
    BY <1>0, <1>2, <2>3
  <2>5. QED  BY <1>8, <2>1, <2>3, <2>4 DEF l
<1>14. ASSUME s # <<>>
       PROVE  s[1] = base /\ Last(s) = base + N - 1 /\ Last(s) + 1 = base + N
  <2>1. 1 \in 1 .. N /\ N \in 1 .. N
    BY <1>6, <1>11, <1>14
  <2>2. s[1] = base + 1 - 1 /\ s[N] = base + N - 1
    BY <1>8, <2>1
  <2>3. QED  BY <1>6, <1>7, <1>11, <1>14, <2>2
\* So was the place where the reader started.
<1>15. FirstCaptured <= base
  <2>0. FirstCaptured \in Int
    BY <1>0 DEF FirstCaptured
  <2>1. CASE HasLatest
    <3>1. FirstCaptured <= Latest
      BY <2>1 DEF OrderInv, SinceStart
    <3>2. QED  BY <1>7, <1>12, <1>13, <2>0, <2>1, <3>1
  <2>2. CASE ~HasLatest
    <3>1. PICK y \in Int : FirstCaptured <= y /\ y <= Readable(now) /\ cursor = y % C
      BY <1>0, <2>2 DEF OrderInv, SinceStart, C
    <3>2. Readable(now) \in Int /\ Readable(now) <= now - capture_offset
      BY <1>0, CaptureTime
    <3> DEFINE r == Readable(now)
    <3>3. r \in Int /\ y <= r /\ r <= now - capture_offset
      BY <3>1, <3>2
    <3> HIDE DEF r
    <3>4. y <= A
      BY <1>0, <1>2, <3>3
    <3>5. y <= base
      BY <1>8, <3>1, <3>4
    <3>6. QED  BY <1>7, <2>0, <3>1, <3>5
  <2>3. QED  BY <2>1, <2>2
<1>16. SamplesInOrder'
  <2>1. \A i \in 1 .. Len(s) - 1 : Follows(s[i], s[i + 1])
    <3> SUFFICES ASSUME NEW i \in 1 .. N - 1
                 PROVE  Follows(s[i], s[i + 1])
      BY <1>11
    <3>1. i \in 1 .. N /\ i + 1 \in 1 .. N
      BY <1>6
    <3>2. s[i] = base + i - 1 /\ s[i + 1] = base + (i + 1) - 1
      BY <1>8, <3>1
    <3>3. s[i + 1] = s[i] + 1
      BY <1>7, <3>2
    <3>4. QED  BY <3>3 DEF Follows
  <2>2. (s # <<>> /\ HasLatest) => Latest < s[1]
    BY <1>7, <1>12, <1>13, <1>14
  <2>3. s # <<>> => Last(s) < now' - capture_offset /\ FirstCaptured <= s[1]
    BY <1>0, <1>1, <1>2, <1>6, <1>7, <1>8, <1>14, <1>15
  <2>4. QED  BY <1>0, <1>1, <1>5, <1>11, <2>1, <2>2, <2>3, OrderStep
<1>17. cursor' = (base + N) % C /\ cursor' \in 0 .. C - 1
  <2>1. ((base % C) + N) % C = (base + N) % C
    <3>1. N \in Int
      BY <1>6
    <3>2. QED  BY <1>0, <1>7, <3>1, ModAdd
  <2>2. cursor' = (cursor + N) % C
    BY <1>1 DEF N
  <2>3. cursor + N \in Int
    BY <1>0, <1>6
  <2>4. QED  BY <1>0, <1>8, <2>1, <2>2, <2>3
<1>18. Continues'
  <2>1. ar_cap_nr' # 0
    BY <1>0, <1>1, <1>5
  <2>2. ASSUME HasLatest'
        PROVE  cursor' = (Latest' + 1) % C /\ Latest' + 1 <= A
    <3>1. CASE s # <<>>
      BY <1>8, <1>12, <1>14, <1>17, <3>1
    <3>2. CASE s = <<>>
      <4>1. N = 0 /\ Latest' = Latest /\ HasLatest
        BY <1>11, <1>12, <2>2, <3>2
      <4>2. base + N = base
        BY <1>7, <4>1
      <4>3. QED  BY <1>8, <1>13, <1>17, <4>1, <4>2
    <3>3. QED  BY <3>1, <3>2
  <2>3. QED  BY <1>1, <2>1, <2>2 DEF Continues, A, C
<1>19. CaptureLag'
  <2> SUFFICES ASSUME rec_state' = "running"
               PROVE  (pos - cursor') % C <= P
    BY <1>1 DEF CaptureLag, C
  <2> DEFINE y == base + N
             r == g % P
  <2>1. g = P * nr + r /\ r \in 0 .. P - 1 /\ n = nr
    BY <1>1, <1>4
  <2> HIDE DEF r
  <2>2. N = P * nr /\ N \in Nat
    BY <1>0, <1>4, <1>6, <2>1 DEF N
  <2>3. y \in Int /\ A - y = r
    BY <1>0, <1>2, <1>3, <1>6, <1>7, <1>9, <2>1, <2>2
  <2> HIDE DEF y
  <2>4. A - y \in 0 .. C - 1
    BY <1>0, <2>1, <2>3
  <2>5. cursor' = y % C
    BY <1>17 DEF y
  <2>6. (pos - cursor') % C = A - y
    BY <1>2, <2>3, <2>4, <2>5, GapOf
  <2>7. QED  BY <1>0, <2>1, <2>3, <2>6
<1>20. SinceStart'
  <2>0. FirstCaptured \in Int
    BY <1>0 DEF FirstCaptured
  <2>1. ASSUME HasLatest'  PROVE FirstCaptured <= Latest'
    <3>1. CASE s # <<>>
      BY <1>6, <1>7, <1>11, <1>12, <1>14, <1>15, <2>0, <3>1
    <3>2. CASE s = <<>>
      <4>1. Latest' = Latest /\ HasLatest
        BY <1>12, <2>1, <3>2
      <4>2. QED  BY <4>1 DEF OrderInv, SinceStart
    <3>3. QED  BY <3>1, <3>2
  <2>2. ASSUME ~HasLatest'
        PROVE  FirstCaptured <= base /\ base <= Readable(now') /\ cursor' = base % capbuflen
    <3>1. N = 0 /\ base + N = base
      BY <1>7, <1>11, <1>12, <2>2
    <3>2. QED  BY <1>1, <1>8, <1>17, <1>15, <3>1 DEF A, C
  <2>3. QED  BY <1>7, <2>1, <2>2 DEF SinceStart, FirstCaptured
<1>21. QED  BY <1>12, <1>16, <1>17, <1>18, <1>19, <1>20

(* A later poll that finds nothing to send.                                *)
LEMMA DirectsoundWaits ==
  ASSUME OrderInv, ra.type = "directsound", UNCHANGED ra, ar_cap_nr # 0,
         NEW t \in Nat, now < t,
         ~((cursor + P) % C < CapturePos(t)), audio_directsound_record_poll(t)
  PROVE  /\ HistoryOK' /\ Continues' /\ CaptureLag' /\ SinceStart' /\ SamplesInOrder'
         /\ cursor' \in 0 .. C - 1
<1> DEFINE A0 == Readable(now)
           A == Readable(t)
           pos == CapturePos(t)
           e == (cursor + P) % C
<1>0. /\ C \in Nat \ {0} /\ P \in Nat \ {0} /\ capture_offset \in Nat
      /\ now \in Nat /\ cursor \in 0 .. C - 1 /\ ar_cap_nr \in Nat \ {0}
  BY Constants DEF C, OrderInv, PaceInv, RecTypeOK
<1>1. PICK n \in 0 .. 0 :
        /\ sent' = [i \in 1 .. n * P |-> Captured((cursor + i - 1) % C, t)]
        /\ prev' = IF sent = <<>> THEN prev ELSE <<Last(sent)>>
        /\ rec_state' # "open" /\ now' = t /\ ar_cap_nr' = ar_cap_nr + n
        /\ cursor' = (cursor + n * P) % C
  BY DEF audio_directsound_record_poll, HandOver, nr_send, C
<1>2. n = 0 /\ n * P = 0 /\ ar_cap_nr' # 0 /\ cursor + n * P = cursor
  BY <1>0, <1>1
<1>3. sent' = <<>>
  BY <1>1, <1>2
<1>4. cursor' = cursor
  BY <1>0, <1>1, <1>2, ModSmall
<1>5. A0 \in Int /\ A0 <= now - capture_offset
  BY <1>0, CaptureTime
<1>6. A \in Int /\ t - capture_offset - 1 <= A /\ pos \in Int
  BY <1>0, CaptureTime
<1>7. ~(e < pos) /\ e \in Int
  BY <1>0
<1> HIDE DEF A0, A, pos, e
<1>8. A0 <= A /\ pos <= e /\ now <= t
  BY <1>0, <1>5, <1>6, <1>7
<1>9. ~HasLatest => \E y \in Int : /\ FirstCaptured <= y /\ y <= A
                                     /\ cursor' = y % capbuflen
  <2> SUFFICES ASSUME ~HasLatest
               PROVE  \E y \in Int : FirstCaptured <= y /\ y <= A /\ cursor' = y % capbuflen
    OBVIOUS
  <2>1. PICK y \in Int : FirstCaptured <= y /\ y <= A0 /\ cursor = y % capbuflen
    BY <1>0 DEF OrderInv, SinceStart, A0
  <2>2. y <= A
    BY <1>5, <1>6, <1>8, <2>1
  <2>3. QED  BY <1>4, <2>1, <2>2
<1>10. HistoryOK' /\ Continues' /\ SamplesInOrder' /\ SinceStart'
  BY <1>1, <1>2, <1>3, <1>4, <1>8, <1>9, NothingSent DEF A0, A
<1>11. CaptureLag'
  BY <1>1, <1>4, <1>8 DEF CaptureLag, pos, e, C
<1>12. QED  BY <1>0, <1>4, <1>10, <1>11

(* Every step keeps the order.                                             *)
LEMMA OrderNext ==
  ASSUME CaptureRoom, OrderInv, [RecNext]_recVars
  PROVE  OrderInv'
<1>0. /\ P \in Nat \ {0} /\ MaxLate \in Nat /\ now \in Nat /\ ar_T \in Nat
      /\ PaceInv /\ PaceInv'
  BY Constants, PaceNext DEF OrderInv, PaceInv, RecTypeOK
<1> DEFINE Ordered == /\ HistoryOK /\ Continues /\ CaptureLag /\ SinceStart
                      /\ SamplesInOrder
                      /\ ra.type = "file" => cursor \in 0 .. ra.len
                      /\ ra.type = "directsound" => cursor \in 0 .. C - 1
<1> SUFFICES Ordered'
  BY <1>0 DEF OrderInv, C
<1>1. ASSUME NEW t \in Nat, ra.type = "file", UNCHANGED ra, rec_state = "running",
             audio_file_record_poll(t)
      PROVE  Ordered'
  <2>1. HistoryOK' /\ Continues' /\ SamplesInOrder' /\ cursor' \in 0 .. ra.len
    BY <1>1, FileOrder
  <2>2. CaptureLag' /\ SinceStart'
    BY <1>1 DEF CaptureLag, SinceStart
  <2>3. QED  BY <1>1, <2>1, <2>2
<1>2. ASSUME NEW t \in Nat, ra.type = "devaudio", UNCHANGED ra,
             audio_devaudio_record_poll(t)
      PROVE  Ordered'
  <2>1. HistoryOK' /\ Continues' /\ SamplesInOrder'
    BY <1>2, DevaudioOrder
  <2>2. CaptureLag' /\ SinceStart'
    BY <1>2 DEF CaptureLag, SinceStart
  <2>3. QED  BY <1>2, <2>1, <2>2
<1>3. ASSUME NEW t \in Nat, now <= t, ra.type = "directsound", UNCHANGED ra,
             ar_cap_nr # 0 => rec_state = "running" /\ now < t /\ t <= now + P + MaxLate,
             audio_directsound_record_poll(t)
      PROVE  Ordered'
  <2>1. /\ HistoryOK' /\ Continues' /\ CaptureLag' /\ SinceStart' /\ SamplesInOrder'
        /\ cursor' \in 0 .. C - 1
    BY <1>3, DirectsoundFirst, DirectsoundSends, DirectsoundWaits
  <2>2. QED  BY <1>3, <2>1 DEF C
<1>4. CASE audio_record_start
  <2>1. now = 0 /\ cursor = 0 /\ ar_cap_nr = 0 /\ UNCHANGED ra /\ rec_state = "open"
    BY <1>0, <1>4 DEF audio_record_start, PaceInv, Pace
  <2>2. CASE /\ ra.type = "file" /\ ar_T' = now + P /\ rec_state' = "running"
             /\ UNCHANGED <<now, cursor, ar_cap_nr, sst_rpkt, sent, prev>>
    <3>1. /\ HistoryOK /\ Continues /\ SamplesInOrder
          /\ ra.type = "file" => cursor \in 0 .. ra.len
      BY DEF OrderInv
    <3>2. HistoryOK' /\ (HasLatest' <=> HasLatest) /\ Latest' = Latest
      BY <2>2, <3>1 DEF HistoryOK, HasLatest, Latest
    <3>3. ~HasLatest
      BY <2>1, <3>1 DEF Continues
    <3>4. Continues' /\ CaptureLag' /\ SinceStart'
      BY <2>1, <2>2, <3>2, <3>3 DEF Continues, CaptureLag, SinceStart
    <3>5. SamplesInOrder'
      BY <2>1, <2>2, <3>1 DEF SamplesInOrder, Follows
    <3>6. QED  BY <2>1, <2>2, <3>1, <3>2, <3>4, <3>5
  <2>3. CASE ra.type = "devaudio" /\ audio_devaudio_record_poll(now)
    <3> HIDE DEF Ordered
    <3>1. QED  BY <1>0, <1>2, <2>1, <2>3
  <2>4. CASE ra.type = "directsound" /\ audio_directsound_record_poll(now)
    <3> HIDE DEF Ordered
    <3>1. QED  BY <1>0, <1>3, <2>1, <2>4
  <2>5. QED  BY <1>4, <2>2, <2>3, <2>4 DEF audio_record_start
<1>5. ASSUME NEW late \in 0 .. MaxLate, audio_record_poll_wrapper(late)
      PROVE  Ordered'
  <2> DEFINE t == PollTime(late)
  <2>1. /\ rec_state = "running" /\ UNCHANGED ra
        /\ \/ ra.type = "file" /\ audio_file_record_poll(t)
           \/ ra.type = "devaudio" /\ audio_devaudio_record_poll(t)
           \/ ra.type = "directsound" /\ audio_directsound_record_poll(t)
    BY <1>5 DEF audio_record_poll_wrapper, PollTime
  <2>2. /\ t \in Nat /\ now <= t
        /\ ar_T = now + P => now < t /\ t <= now + P + MaxLate
    BY <1>0 DEF PollTime
  <2>3. ra.type = "directsound" => ar_T = now + P
    BY <1>0, <2>1 DEF PaceInv, Pace
  <2> HIDE DEF t, Ordered
  <2>4. QED  BY <1>1, <1>2, <1>3, <2>1, <2>2, <2>3
<1>6. CASE UNCHANGED recVars
  <2>1. OrderInv /\ UNCHANGED <<ra, rec_state, now, cursor, ar_cap_nr, sent, prev>>
    BY <1>6 DEF recVars
  <2>2. HistoryOK' /\ (HasLatest' <=> HasLatest) /\ Latest' = Latest
    BY <2>1 DEF OrderInv, HistoryOK, HasLatest, Latest
  <2>3. Continues'
    BY <2>1, <2>2 DEF OrderInv, Continues, Follows
  <2>4. CaptureLag' /\ SinceStart'
    BY <2>1, <2>2 DEF OrderInv, CaptureLag, SinceStart, FirstCaptured, Readable
  <2>5. SamplesInOrder'
    BY <2>1 DEF OrderInv, SamplesInOrder, Follows
  <2>6. QED  BY <2>1, <2>2, <2>3, <2>4, <2>5 DEF OrderInv, C
<1> HIDE DEF Ordered
<1>7. QED  BY <1>4, <1>5, <1>6 DEF RecNext

(* A recorder that has been opened has handed over nothing.                *)
LEMMA OrderInit == RecInit => OrderInv
<1> SUFFICES ASSUME RecInit  PROVE OrderInv
  OBVIOUS
<1>1. PaceInv /\ sent = <<>> /\ prev = <<>> /\ cursor = 0 /\ rec_state = "open"
  BY PaceInit DEF RecInit
<1>2. HistoryOK /\ Continues /\ CaptureLag /\ SinceStart
  BY <1>1 DEF HistoryOK, Continues, CaptureLag, HasLatest, SinceStart, RecInit
<1>3. SamplesInOrder
  <2>1. Len(sent) - 1 = -1 /\ \A i \in 1 .. -1 : FALSE
    BY <1>1
  <2>2. QED  BY <1>1, <2>1 DEF SamplesInOrder
<1>4. ra.type = "file" => 0 \in 0 .. ra.len
  <2>1. ra \in RecorderSet
    BY DEF RecInit
  <2>2. QED  BY <2>1, FileLength
<1>5. QED  BY <1>1, <1>2, <1>3, <1>4, Constants DEF OrderInv

(* The samples of every recorder are handed over in the order in which     *)
(* they were recorded, and those of the capture buffer behind its margin,  *)
(* whatever the length of a packet, of a file and of the capture buffer,   *)
(* if the buffer has room for what is recorded between two polls.          *)
THEOREM RecordedInOrder ==
  ASSUME CaptureRoom
  PROVE  RecSpec => []SamplesInOrder
<1>1. OrderInv /\ [RecNext]_recVars => OrderInv'
  BY OrderNext
<1>2. OrderInv => SamplesInOrder
  BY DEF OrderInv
<1>3. QED  BY OrderInit, <1>1, <1>2, PTL DEF RecSpec
=============================================================================
