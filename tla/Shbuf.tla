--------------------------------- MODULE Shbuf ---------------------------------
(***************************************************************************)
(* Playout into the circular buffer of an audio device that plays it over  *)
(* and over: src/sphone_playout_shbuf.c.  playout_shbuf_play puts a packet *)
(* at ps_c, ahead of the device's write cursor; the timeout silentout_play *)
(* follows the play cursor and fills what has been played with background  *)
(* noise.                                                                  *)
(*                                                                         *)
(* A place of the buffer holds noise, fresh audio (to be played) or stale  *)
(* audio (played already).  The running mean ps_d_s and ps_cursor_w_prev   *)
(* are left out: they decide nothing but calls of queue_reset, which does  *)
(* nothing.  The position is the device's (mod its length).                *)
(***************************************************************************)
EXTENDS Integers

CONSTANTS
  PlayBufLen,     \* ps_playbuflen
  PktLen,         \* ps_len, the same for all packets of a session
  Qmean,          \* ps_qmean
  Lead,           \* distance of the device's write cursor from its play cursor
  SilentInterval, \* what the device plays between two calls of silentout_play
  MinAhead, MaxAhead   \* bound on the pace of the sender: where a packet
                       \* may start relative to the write cursor

ASSUME ShbufAssumption ==
  /\ PlayBufLen \in Nat /\ PlayBufLen >= 3 /\ PktLen \in Nat \ {0}
  /\ Qmean \in Nat /\ Lead \in Nat /\ SilentInterval \in Nat
  /\ MinAhead \in Int /\ MaxAhead \in Int
  /\ PktLen <= PlayBufLen

Pos == 0 .. PlayBufLen - 1
ps_silentlen == PlayBufLen \div 3

VARIABLES
  play_pos,        \* the device's play cursor
  since,           \* history: played since silentout_play was called
  ps_cursor_w,     \* the write cursor when the last packet was placed
  ps_c,            \* where it was placed (and ps_c_old)
  ps_nextsilence,
  ring,            \* contents of the buffer
  started,         \* a packet has been played (the first one is SEQ_RESET)
  running,         \* the receiver is in its event loop
  lost             \* history: fresh audio was overwritten with noise
vars == <<play_pos, since, ps_cursor_w, ps_c, ps_nextsilence, ring, started,
          running, lost>>

Init ==
  /\ play_pos \in Pos /\ since = 0
  /\ ps_cursor_w = 0 /\ ps_c = 0 /\ ps_nextsilence = 0
  /\ ring = [x \in Pos |-> "noise"]
  /\ started = FALSE /\ running = TRUE /\ lost = FALSE

\* The n places of the buffer from x on.
Places(x, n) == {(x + i) % PlayBufLen : i \in 0 .. n - 1}

-----------------------------------------------------------------------------
\* wrap: a difference of two positions, corrected for the end of the buffer
\* lying between them.
wrap(d, len) ==
  IF d < -(len \div 2) THEN d + len
  ELSE IF d > len \div 2 THEN d - len
  ELSE d

-----------------------------------------------------------------------------
(* The device *)

Device(k) ==
  /\ since + k <= SilentInterval
  /\ since' = since + k
  /\ play_pos' = (play_pos + k) % PlayBufLen
  /\ ring' = [x \in Pos |->
                IF x \in Places(play_pos, k) /\ ring[x] = "fresh" THEN "stale"
                ELSE ring[x]]
  /\ UNCHANGED <<ps_cursor_w, ps_c, ps_nextsilence, started, running, lost>>

WriteCursor == (play_pos + Lead) % PlayBufLen

-----------------------------------------------------------------------------
(* playout_shbuf_play *)

\* pa_play of the packet at ps_c'.
Write ==
  /\ ring' = [x \in Pos |-> IF x \in Places(ps_c', PktLen) THEN "fresh" ELSE ring[x]]
  /\ started' = TRUE
  /\ UNCHANGED <<play_pos, since, ps_nextsilence, running, lost>>

\* Mutant: the position runs past the end of the buffer.
ResetPositionUnwrapped == WriteCursor + Qmean

ResetPosition == (WriteCursor + Qmean) % PlayBufLen

\* shbuf_reset and shbuf_gap place the packet at a fixed distance.
shbuf_reset ==
  /\ running
  /\ ps_cursor_w' = WriteCursor
  /\ ps_c' = ResetPosition
  /\ Write

\* shbuf_normal places it behind the previous one.  The test for a late
\* packet is never true, as ps_d is unsigned.
shbuf_normal ==
  /\ running /\ started
  /\ ps_cursor_w' = WriteCursor
  /\ ps_c' = (ps_c + PktLen) % PlayBufLen
  /\ wrap(ps_c' - ps_cursor_w', PlayBufLen) \in MinAhead .. MaxAhead
  /\ Write

-----------------------------------------------------------------------------
(* silentout_play *)

\* ps_nextsilence is 0 the first time, and whenever it has come to 0.
FirstTime == ps_nextsilence = 0

Even(x) == IF x % 2 = 1 THEN x - 1 ELSE x

\* Where the noise starts.
SilenceFrom ==
  Even(IF FirstTime THEN (play_pos - ps_silentlen + PlayBufLen) % PlayBufLen
       ELSE ps_nextsilence)

\* Mutant: noise is written up to and over the play cursor.
SilenceCountAll ==
  IF FirstTime THEN 0
  ELSE (((play_pos - ps_nextsilence) % PlayBufLen) + ps_silentlen) \div ps_silentlen

\* How many noise buffers fit, with one to spare, before the play cursor.
SilenceCount ==
  IF FirstTime THEN 0
  ELSE LET tmp_len == (play_pos - ps_nextsilence) % PlayBufLen
       IN  IF tmp_len > ps_silentlen THEN (tmp_len - 1) \div ps_silentlen ELSE 0

silentout_play ==
  LET n == SilenceCount * ps_silentlen
  IN  /\ running
      /\ since' = 0
      /\ ring' = [x \in Pos |-> IF x \in Places(SilenceFrom, n) THEN "noise" ELSE ring[x]]
      /\ lost' = (lost \/ \E x \in Places(SilenceFrom, n) : ring[x] = "fresh")
      /\ ps_nextsilence' = (SilenceFrom + n) % PlayBufLen
      /\ UNCHANGED <<play_pos, ps_cursor_w, ps_c, started, running>>

\* pa_play_pos or pa_play fails: the callback returns -1.
DeviceFails ==
  /\ running
  /\ running' = FALSE
  /\ UNCHANGED <<play_pos, since, ps_cursor_w, ps_c, ps_nextsilence, ring,
                 started, lost>>

Next ==
  \/ \E k \in 1 .. SilentInterval : Device(k)
  \/ shbuf_reset
  \/ shbuf_normal
  \/ silentout_play
  \/ DeviceFails

Spec == Init /\ [][Next]_vars

-----------------------------------------------------------------------------
(* Properties *)

TypeOK ==
  /\ play_pos \in Pos /\ since \in 0 .. SilentInterval
  /\ ps_cursor_w \in Pos /\ ps_c \in Pos /\ ps_nextsilence \in Pos
  /\ ring \in [Pos -> {"noise", "fresh", "stale"}]
  /\ started \in BOOLEAN /\ running \in BOOLEAN
  /\ lost \in BOOLEAN

\* The furthest a packet is placed ahead of the write cursor.
Ahead == IF MaxAhead > Qmean THEN MaxAhead ELSE Qmean

\* The buffer has room for what silentout_play trails behind the play cursor
\* (one noise buffer, what is played between two calls, and two roundings to
\* an even position: one left by the call before, one of this call) and for
\* what is written ahead of it; and no packet is so late that it is placed
\* behind the play cursor.
Room ==
  /\ ps_silentlen + SilentInterval + 2 + Lead + Ahead + PktLen <= PlayBufLen
  /\ Lead + MinAhead >= 0

(* The background noise never overwrites audio that the device has still   *)
(* to play, wherever the cursors are when the timeout and the packets      *)
(* come, provided that the buffer has Room.                                *)
AudioKept == Room => ~lost
=============================================================================
