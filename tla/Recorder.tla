-------------------------------- MODULE Recorder --------------------------------
(***************************************************************************)
(* Recording (audio/sphone_audio_*_record.c).  A recorder is polled from a *)
(* timeout of the event loop and hands every packet it has recorded to the *)
(* callback record_and_send.  There are three: a file that emulates a      *)
(* device in real time, /dev/audio, and the circular capture buffer of     *)
(* DirectSound.                                                            *)
(*                                                                         *)
(* A sample is one byte and is recorded in one unit of time.  A sample of  *)
(* a file is its offset, one of a device the time it was recorded at.  The *)
(* timeout is called up to MaxLate after its time ar_T.  The release of    *)
(* recorders is in module Phone.                                           *)
(***************************************************************************)
EXTENDS Integers, Sequences, SequencesExt

CONSTANTS
  AudioTypes,     \* enum audio_type
  cp_size_bytes,  \* length of a packet
  FileLens,       \* lengths of files
  capbuflen,      \* ar_ds_capbuflen
  capture_offset, \* ar_capture_offset
  MaxLate,        \* how late the event loop may call a timeout
  MaxTime         \* bound of the model: length of a recording

ASSUME RecorderAssumption ==
  /\ AudioTypes \subseteq {"file", "devaudio", "directsound"}
  /\ FileLens \subseteq Nat \ {0} /\ MaxLate \in Nat /\ capbuflen \in Nat
  /\ cp_size_bytes % 2 = 0 /\ capbuflen % 2 = 0   \* 16-bit samples
  /\ cp_size_bytes \in 1 .. capbuflen /\ capture_offset \in 0 .. capbuflen

VARIABLES
  ra,         \* the recorder: its type, ar_loop and the length of its file
  rec_state,  \* "open", "running" or "stopped"
  now,        \* the time, 0 when the recorder was opened
  ar_T,       \* when it is polled next
  cursor,     \* offset in the file, samples read, or ar_r
  ar_cap_nr,
  sst_rpkt,   \* packets handed to the callback
  sent,       \* history: samples handed over by the last poll
  prev        \* history: the last sample before those, in a sequence

recVars == <<ra, rec_state, now, ar_T, cursor, ar_cap_nr, sst_rpkt, sent, prev>>

P == cp_size_bytes

\* What is opened; only a file has a length and may be looped.
RecorderSet ==
  {r \in [type : AudioTypes, ar_loop : BOOLEAN, len : FileLens \cup {0}] :
     IF r.type = "file" THEN r.len # 0 ELSE r.len = 0 /\ ~r.ar_loop}

RecInit ==
  /\ ra \in RecorderSet
  /\ rec_state = "open"
  /\ now = 0 /\ ar_T = 0 /\ cursor = 0 /\ ar_cap_nr = 0 /\ sst_rpkt = 0
  /\ sent = <<>> /\ prev = <<>>

\* n of the packets that were due go to the callback; it fails, or the module
\* does, if these are not all, and may fail for the last one.
HandOver(n, due, samples) ==
  /\ sst_rpkt' = sst_rpkt + n
  /\ sent' = samples
  /\ prev' = IF sent = <<>> THEN prev ELSE <<Last(sent)>>
  /\ rec_state' \in {"stopped"} \cup (IF n = due THEN {"running"} ELSE {})

-----------------------------------------------------------------------------
(* File *)

\* Mutant: what was read before the end of the file is overwritten.
add_bufferRestarts(o) ==
  [i \in 1 .. P |-> IF o + P > ra.len THEN (i - 1) % ra.len ELSE o + i - 1]

\* add_buffer: reads go on at the start of a file that is looped.
add_buffer(o) == [i \in 1 .. P |-> (o + i - 1) % ra.len]

\* The end of the file, or the end twice in one packet ("double eof").
AddFails(o) == P > (IF ra.ar_loop THEN 2 * ra.len ELSE ra.len) - o

\* The file is rewound by the read that finds its end.
NextOffset(o) == IF o + P <= ra.len THEN o + P ELSE o + P - ra.len

\* Mutant: the next packet is expected a packet after this poll.
NextFilePollDrifts(t, n) == t + P

NextFilePoll(t, n) == ar_T + n * P

\* off[k] is the offset in the file after k of the packets.
audio_file_record_poll(t) ==
  LET due == IF t <= ar_T THEN 0 ELSE ((t - ar_T - 1) \div P) + 1
  IN  \E n \in 0 .. due : \E off \in [0 .. n -> 0 .. ra.len] :
        /\ off[0] = cursor
        /\ \A k \in 1 .. n : ~AddFails(off[k - 1]) /\ off[k] = NextOffset(off[k - 1])
        /\ HandOver(n, due, [i \in 1 .. n * P |->
                               add_buffer(off[(i - 1) \div P])[((i - 1) % P) + 1]])
        /\ cursor' = off[n]
        /\ now' = t
        /\ ar_T' = NextFilePoll(t, n)
        /\ UNCHANGED ar_cap_nr

-----------------------------------------------------------------------------
(* /dev/audio *)

\* At most two packets, "to avoid livelock"; read waits for a packet that is
\* not complete, or fails with EWOULDBLOCK and ends the loop.
audio_devaudio_record_poll(t) ==
  LET ready == (t - cursor) \div P
  IN  \E n \in 0 .. 2, wait \in BOOLEAN :
        /\ wait \/ n <= ready
        /\ HandOver(n, IF wait \/ ready >= 2 THEN 2 ELSE ready,
                    [i \in 1 .. n * P |-> cursor + i - 1])
        /\ cursor' = cursor + n * P
        /\ now' = IF cursor' > t THEN cursor' ELSE t
        /\ ar_T' = now' + P
        /\ UNCHANGED ar_cap_nr

-----------------------------------------------------------------------------
(* DirectSound *)

\* The position up to which the buffer may be read.
CapturePos(t) ==
  LET pos == (t - capture_offset) % capbuflen IN pos - (pos % 2)

\* The sample at place x of the buffer at time t; one before time 0 is what
\* the buffer held before anything was recorded there.
Captured(x, t) == t - 1 - ((t - 1 - x) % capbuflen)

\* Packets to read.  The comparison fails, too, when pos is beyond the end of
\* the buffer and the end of the next packet is not.
nr_send(pos) ==
  IF (cursor + P) % capbuflen < pos
  THEN ((pos - cursor) % capbuflen) \div P ELSE 0

audio_directsound_record_poll(t) ==
  LET pos == CapturePos(t)
      nr  == IF ar_cap_nr = 0 THEN 0 ELSE nr_send(pos)
  IN  \E n \in 0 .. nr :
        /\ HandOver(n, nr, [i \in 1 .. n * P |->
                              Captured((cursor + i - 1) % capbuflen, t)])
        /\ cursor' = IF ar_cap_nr = 0 THEN (pos - P) % capbuflen
                     ELSE (cursor + n * P) % capbuflen
        /\ ar_cap_nr' = IF ar_cap_nr = 0 THEN 1 ELSE ar_cap_nr + n
        /\ now' = t
        /\ ar_T' = t + P

-----------------------------------------------------------------------------

\* ra_start: devices are polled at once.
audio_record_start ==
  /\ rec_state = "open"
  /\ \/ /\ ra.type = "file"
        /\ ar_T' = now + P
        /\ rec_state' = "running"
        /\ UNCHANGED <<now, cursor, ar_cap_nr, sst_rpkt, sent, prev>>
     \/ ra.type = "devaudio" /\ audio_devaudio_record_poll(now)
     \/ ra.type = "directsound" /\ audio_directsound_record_poll(now)
  /\ UNCHANGED ra

\* The timeout.  A file that is polled at exactly ar_T has nothing ready and
\* is polled again at the same time.
audio_record_poll_wrapper(late) ==
  LET t == (IF now > ar_T THEN now ELSE ar_T) + late
  IN  /\ rec_state = "running"
      /\ t <= MaxTime
      /\ \/ ra.type = "file" /\ audio_file_record_poll(t)
         \/ ra.type = "devaudio" /\ audio_devaudio_record_poll(t)
         \/ ra.type = "directsound" /\ audio_directsound_record_poll(t)
      /\ UNCHANGED ra

RecNext == audio_record_start \/ \E late \in 0 .. MaxLate : audio_record_poll_wrapper(late)

RecSpec == RecInit /\ [][RecNext]_recVars

-----------------------------------------------------------------------------
(* Properties *)

(* "Read all ready samples": after each poll of the file or of /dev/audio  *)
(* at most one packet of what was recorded since the start is left, if no  *)
(* timeout is called later than a packet: late polls add up to no delay.   *)
KeepsUp ==
  (rec_state = "running" /\ ra.type # "directsound" /\ MaxLate <= P)
    => now - sst_rpkt * P <= P

\* Sample b is the one recorded after a.
Follows(a, b) == b = IF ra.type = "file" THEN (a + 1) % ra.len ELSE a + 1

\* The earliest place of the capture buffer that is read, as a time.
FirstCaptured == -(capture_offset + P + 1)

(* The samples handed to record_and_send are in the order of the file or   *)
(* of their recording, nothing is skipped inside a poll nor (but for       *)
(* DirectSound) between two, over the end of a looped file, of a packet    *)
(* and of the capture buffer.  DirectSound stays capture_offset behind the *)
(* device, also when either of them has wrapped; since it starts so far    *)
(* behind, it hands over what was never recorded, but no more than the     *)
(* margin and a packet of it.                                              *)
SamplesInOrder ==
  /\ \A i \in 1 .. Len(sent) - 1 : Follows(sent[i], sent[i + 1])
  /\ sent # <<>> =>
       /\ prev # <<>> => IF ra.type = "directsound" THEN prev[1] < sent[1]
                         ELSE Follows(prev[1], sent[1])
       /\ ra.type = "directsound" => /\ Last(sent) < now - capture_offset
                                     /\ FirstCaptured <= sent[1]
=============================================================================
