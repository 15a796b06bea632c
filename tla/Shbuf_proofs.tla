----------------------------- MODULE Shbuf_proofs ------------------------------
(***************************************************************************)
(* Positions never leave the circular buffer, whatever its length, the     *)
(* length of the packets, the pace of the sender and that of the timeout.  *)
(***************************************************************************)
EXTENDS Shbuf, TLAPS

(* A remainder by the length of the buffer is a position in it.            *)
LEMMA ModIsPos ==
  \A x \in Int : x % PlayBufLen \in Pos
  BY ShbufAssumption DEF Pos

(* The correction made by wrap (src/sphone_playout_shbuf.c:106) gives the  *)
(* signed distance between two positions: at most half a buffer long, and  *)
(* equal to their difference up to a turn of the buffer.                   *)
THEOREM WrapIsDistance ==
  ASSUME NEW a \in Pos, NEW b \in Pos
  PROVE  LET d == wrap(a - b, PlayBufLen)
         IN  /\ d \in Int
             /\ -PlayBufLen <= 2 * d /\ 2 * d <= PlayBufLen + 1
             /\ d \in {a - b, a - b + PlayBufLen, a - b - PlayBufLen}
  BY ShbufAssumption, SMT DEF wrap, Pos

(* Every write of playout_shbuf_play and of silentout_play starts inside   *)
(* the buffer, as all positions they keep are positions of the buffer.     *)
THEOREM PositionsInBuffer == Spec => []TypeOK
<1>1. Init => TypeOK
  <2>1. 0 \in Pos /\ 0 \in 0 .. SilentInterval
    BY ShbufAssumption DEF Pos
  <2> QED BY <2>1 DEF Init, TypeOK
<1>2. TypeOK /\ [Next]_vars => TypeOK'
  <2> SUFFICES ASSUME TypeOK, [Next]_vars PROVE TypeOK'
    OBVIOUS
  <2> USE ShbufAssumption
  <2>1. WriteCursor \in Pos /\ ResetPosition \in Pos
    <3>1. play_pos + Lead \in Int
      BY DEF TypeOK, Pos
    <3>2. WriteCursor \in Pos
      BY <3>1, ModIsPos DEF WriteCursor
    <3>3. WriteCursor + Qmean \in Int
      BY <3>2 DEF Pos
    <3> QED BY <3>2, <3>3, ModIsPos DEF ResetPosition
  <2>2. ASSUME NEW k \in 1 .. SilentInterval, Device(k) PROVE TypeOK'
    <3>1. play_pos' \in Pos
      BY <2>2, ModIsPos DEF Device, TypeOK, Pos
    <3>2. since' \in 0 .. SilentInterval
      BY <2>2 DEF Device, TypeOK
    <3>3. ring' \in [Pos -> {"noise", "fresh", "stale"}]
      BY <2>2 DEF Device, TypeOK
    <3> QED BY <2>2, <3>1, <3>2, <3>3 DEF Device, TypeOK
  <2>3. ASSUME Write PROVE ring' \in [Pos -> {"noise", "fresh", "stale"}]
    BY <2>3 DEF Write, TypeOK
  <2>4. CASE shbuf_reset
    BY <2>1, <2>3, <2>4 DEF shbuf_reset, Write, TypeOK
  <2>5. CASE shbuf_normal
    <3>1. ps_c' \in Pos
      <4>1. ps_c + PktLen \in Int
        BY DEF TypeOK, Pos
      <4>2. ps_c' = (ps_c + PktLen) % PlayBufLen
        BY <2>5 DEF shbuf_normal
      <4> QED BY <4>1, <4>2, ModIsPos
    <3> QED BY <2>1, <2>3, <2>5, <3>1 DEF shbuf_normal, Write, TypeOK
  <2>6. CASE silentout_play
    <3> DEFINE n == SilenceCount * ps_silentlen
    <3>1. SilenceFrom \in Int
      <4>1. (play_pos - ps_silentlen + PlayBufLen) % PlayBufLen \in Int
        BY DEF TypeOK, Pos, ps_silentlen
      <4> QED BY <4>1 DEF SilenceFrom, Even, TypeOK, Pos
    <3>2. n \in Int
      <4>0. ps_silentlen \in Nat \ {0}
        BY DEF ps_silentlen
      <4>1. (play_pos - ps_nextsilence) % PlayBufLen \in Nat
        BY DEF TypeOK, Pos
      <4>2. SilenceCount \in Int
        BY <4>0, <4>1 DEF SilenceCount, TypeOK, Pos
      <4> QED BY <4>0, <4>2
    <3>3. ps_nextsilence' \in Pos
      BY <2>6, <3>1, <3>2, ModIsPos DEF silentout_play
    <3>4. ring' \in [Pos -> {"noise", "fresh", "stale"}]
      BY <2>6 DEF silentout_play, TypeOK
    <3>5. lost' \in BOOLEAN
      BY <2>6 DEF silentout_play
    <3>6. since' \in 0 .. SilentInterval
      BY <2>6 DEF silentout_play
    <3> QED BY <2>6, <3>3, <3>4, <3>5, <3>6 DEF silentout_play, TypeOK
  <2>7. CASE DeviceFails
    BY <2>7 DEF DeviceFails, TypeOK
  <2>8. CASE UNCHANGED vars
    BY <2>8 DEF vars, TypeOK
  <2> QED BY <2>2, <2>4, <2>5, <2>6, <2>7, <2>8 DEF Next
<1> QED BY <1>1, <1>2, PTL DEF Spec

-----------------------------------------------------------------------------
(* Distances along the buffer *)

\* How far the device has to go from y to x.
Dist(x, y) == (x - y) % PlayBufLen

(* A distance is the difference of the positions, or a turn more.          *)
LEMMA DistCases ==
  ASSUME NEW x \in Pos, NEW y \in Pos
  PROVE  /\ Dist(x, y) = (IF x >= y THEN x - y ELSE x - y + PlayBufLen)
         /\ Dist(x, y) \in Pos
  BY ShbufAssumption DEF Dist, Pos

(* Going on from a position, with or without passing the end.              *)
LEMMA StepCases ==
  ASSUME NEW x \in Pos, NEW i \in 0 .. PlayBufLen
  PROVE  /\ (x + i) % PlayBufLen =
              (IF x + i < PlayBufLen THEN x + i ELSE x + i - PlayBufLen)
         /\ (x + i) % PlayBufLen \in Pos
  BY ShbufAssumption DEF Pos

(* A step ahead of x lengthens the distance from y to x ...                *)
LEMMA DistAhead ==
  ASSUME NEW x \in Pos, NEW y \in Pos, NEW i \in Nat, Dist(x, y) + i < PlayBufLen
  PROVE  Dist((x + i) % PlayBufLen, y) = Dist(x, y) + i
<1>1. Dist(x, y) \in Pos /\ Dist(x, y) = (IF x >= y THEN x - y ELSE x - y + PlayBufLen)
  BY DistCases
<1>2. i \in 0 .. PlayBufLen
  BY <1>1, ShbufAssumption DEF Pos
<1> DEFINE z == (x + i) % PlayBufLen
<1>3. z \in Pos /\ z = (IF x + i < PlayBufLen THEN x + i ELSE x + i - PlayBufLen)
  BY <1>2, StepCases
<1> HIDE DEF z
<1>4. Dist(z, y) = (IF z >= y THEN z - y ELSE z - y + PlayBufLen)
  BY <1>3, DistCases
<1>5. Dist(z, y) = Dist(x, y) + i
  BY <1>1, <1>2, <1>3, <1>4, ShbufAssumption DEF Pos
<1>6. QED  BY <1>5 DEF z

(* ... and shortens the distance from x to y.                              *)
LEMMA DistBehind ==
  ASSUME NEW x \in Pos, NEW y \in Pos, NEW i \in Nat, i <= Dist(y, x)
  PROVE  Dist(y, (x + i) % PlayBufLen) = Dist(y, x) - i
<1>1. Dist(y, x) \in Pos /\ Dist(y, x) = (IF y >= x THEN y - x ELSE y - x + PlayBufLen)
  BY DistCases
<1>2. i \in 0 .. PlayBufLen
  BY <1>1, ShbufAssumption DEF Pos
<1> DEFINE z == (x + i) % PlayBufLen
<1>3. z \in Pos /\ z = (IF x + i < PlayBufLen THEN x + i ELSE x + i - PlayBufLen)
  BY <1>2, StepCases
<1> HIDE DEF z
<1>4. Dist(y, z) = (IF y >= z THEN y - z ELSE y - z + PlayBufLen)
  BY <1>3, DistCases
<1>5. Dist(y, z) = Dist(y, x) - i
  BY <1>1, <1>2, <1>3, <1>4, ShbufAssumption DEF Pos
<1>6. QED  BY <1>5 DEF z

(* Two positions that are not the same are a turn apart, there and back.   *)
LEMMA DistBack ==
  ASSUME NEW x \in Pos, NEW y \in Pos, Dist(x, y) # 0
  PROVE  Dist(y, x) = PlayBufLen - Dist(x, y)
<1>1. /\ Dist(x, y) = (IF x >= y THEN x - y ELSE x - y + PlayBufLen)
      /\ Dist(y, x) = (IF y >= x THEN y - x ELSE y - x + PlayBufLen)
  BY DistCases
<1>2. QED  BY <1>1, ShbufAssumption DEF Pos

(* Quotient of the length to be filled and the length of a noise buffer.   *)
LEMMA WholeBuffers ==
  ASSUME NEW a \in Nat, NEW b \in Nat \ {0}
  PROVE  /\ (a \div b) * b \in Nat
         /\ (a \div b) * b <= a /\ a < (a \div b) * b + b
  OBVIOUS

-----------------------------------------------------------------------------
(* Noise and audio *)

\* Fresh audio lies ahead of the play cursor, no further than packets are
\* placed.
FreshAhead ==
  \A x \in Pos : ring[x] = "fresh" => Dist(x, play_pos) < Lead + Ahead + PktLen

\* The noise follows the play cursor at a bounded distance.
NoiseTrails ==
  ps_nextsilence # 0 => Dist(play_pos, ps_nextsilence) <= ps_silentlen + 1 + since

PlayoutInv == FreshAhead /\ NoiseTrails /\ ~lost

(* What Room says of the parameters.                                       *)
LEMMA RoomFacts ==
  ASSUME Room
  PROVE  /\ ps_silentlen \in Nat \ {0} /\ ps_silentlen + 1 < PlayBufLen
         /\ Ahead \in Int /\ Ahead >= Qmean /\ Ahead >= MaxAhead
         /\ ps_silentlen + SilentInterval + 2 + Lead + Ahead + PktLen <= PlayBufLen
<1>1. ps_silentlen \in Nat \ {0} /\ ps_silentlen + 1 < PlayBufLen
  BY ShbufAssumption DEF ps_silentlen
<1>2. QED  BY <1>1, ShbufAssumption DEF Room, Ahead

(* The device plays the fresh audio that its cursor passes, and the noise  *)
(* falls behind by as much.                                                *)
LEMMA DeviceInv ==
  ASSUME Room, TypeOK, PlayoutInv, NEW k \in 1 .. SilentInterval, Device(k)
  PROVE  PlayoutInv'
<1> USE ShbufAssumption
<1>1. /\ play_pos \in Pos /\ ps_nextsilence \in Pos /\ since \in 0 .. SilentInterval
      /\ since' \in 0 .. SilentInterval /\ since' = since + k /\ k \in Nat
      /\ play_pos' = (play_pos + k) % PlayBufLen
      /\ k <= PlayBufLen /\ ps_nextsilence' = ps_nextsilence
  BY RoomFacts DEF Device, TypeOK
<1>2. play_pos' \in Pos
  BY <1>1, StepCases
<1>3. FreshAhead'
  <2> SUFFICES ASSUME NEW x \in Pos, ring'[x] = "fresh"
               PROVE  Dist(x, play_pos') < Lead + Ahead + PktLen
    BY DEF FreshAhead, Dist
  <2>1. ring[x] = "fresh" /\ x \notin Places(play_pos, k)
    BY DEF Device, TypeOK
  <2>2. Dist(x, play_pos) < Lead + Ahead + PktLen /\ Dist(x, play_pos) \in Pos
    BY <1>1, <2>1, DistCases DEF PlayoutInv, FreshAhead
  <2>3. k <= Dist(x, play_pos)
    <3> SUFFICES ASSUME Dist(x, play_pos) < k
                 PROVE  x \in Places(play_pos, k)
      BY <1>1, <2>1, <2>2 DEF Pos
    <3>1. Dist(x, play_pos) \in 0 .. k - 1
      BY <1>1, <2>2 DEF Pos
    <3>2. x = (play_pos + Dist(x, play_pos)) % PlayBufLen
      <4> DEFINE d == Dist(x, play_pos)
      <4>1. d \in Pos /\ d = (IF x >= play_pos THEN x - play_pos ELSE x - play_pos + PlayBufLen)
        BY <1>1, DistCases
      <4> HIDE DEF d
      <4>2. d \in 0 .. PlayBufLen
        BY <4>1 DEF Pos
      <4>3. (play_pos + d) % PlayBufLen =
              (IF play_pos + d < PlayBufLen THEN play_pos + d ELSE play_pos + d - PlayBufLen)
        BY <1>1, <4>2, StepCases
      <4>4. x = (play_pos + d) % PlayBufLen
        BY <1>1, <4>1, <4>3 DEF Pos
      <4>5. QED  BY <4>4 DEF d
    <3>3. QED  BY <3>1, <3>2 DEF Places
  <2>4. Dist(x, play_pos') = Dist(x, play_pos) - k
    BY <1>1, <2>3, DistBehind
  <2>5. QED  BY <1>1, <2>2, <2>4, RoomFacts DEF Pos
<1>4. NoiseTrails'
  <2> SUFFICES ASSUME ps_nextsilence # 0
               PROVE  Dist(play_pos', ps_nextsilence) <= ps_silentlen + 1 + since'
    BY <1>1 DEF NoiseTrails, Dist
  <2>1. /\ Dist(play_pos, ps_nextsilence) <= ps_silentlen + 1 + since
        /\ Dist(play_pos, ps_nextsilence) \in Pos
    BY <1>1, DistCases DEF PlayoutInv, NoiseTrails
  <2>2. Dist(play_pos, ps_nextsilence) + k < PlayBufLen
    BY <1>1, <2>1, RoomFacts DEF Pos, Room
  <2>3. Dist(play_pos', ps_nextsilence) = Dist(play_pos, ps_nextsilence) + k
    BY <1>1, <2>2, DistAhead
  <2>4. QED  BY <1>1, <2>1, <2>3, RoomFacts DEF Pos
<1>5. QED  BY <1>3, <1>4 DEF PlayoutInv, Device

(* A packet at most Ahead of the write cursor is written within the room   *)
(* ahead of the play cursor.                                               *)
LEMMA WriteInv ==
  ASSUME Room, TypeOK, PlayoutInv, Write, ps_c' \in Pos,
         Dist(ps_c', play_pos) <= Lead + Ahead
  PROVE  PlayoutInv'
<1> USE ShbufAssumption
<1>1. play_pos \in Pos /\ play_pos' = play_pos /\ Dist(ps_c', play_pos) \in Pos
  BY DistCases DEF Write, TypeOK
<1>2. FreshAhead'
  <2> SUFFICES ASSUME NEW x \in Pos, ring'[x] = "fresh"
               PROVE  Dist(x, play_pos) < Lead + Ahead + PktLen
    BY <1>1 DEF FreshAhead, Dist
  <2>1. CASE x \in Places(ps_c', PktLen)
    <3>1. PICK i \in 0 .. PktLen - 1 : x = (ps_c' + i) % PlayBufLen
      BY <2>1 DEF Places
    <3>2. i \in Nat /\ Dist(ps_c', play_pos) + i < PlayBufLen
      BY <1>1, RoomFacts DEF Pos
    <3> DEFINE c == ps_c'
    <3> HIDE DEF c
    <3>3. c \in Pos /\ Dist(c, play_pos) + i < PlayBufLen
      BY <3>2 DEF c
    <3>4. Dist((c + i) % PlayBufLen, play_pos) = Dist(c, play_pos) + i
      BY <1>1, <3>2, <3>3, DistAhead
    <3>5. QED  BY <1>1, <3>1, <3>2, <3>4, RoomFacts DEF c, Pos
  <2>2. CASE x \notin Places(ps_c', PktLen)
    BY <2>2 DEF Write, TypeOK, PlayoutInv, FreshAhead
  <2>3. QED  BY <2>1, <2>2
<1>3. QED  BY <1>1, <1>2 DEF PlayoutInv, NoiseTrails, Write, Dist

(* The write cursor is Lead ahead of the play cursor.                      *)
LEMMA WriteCursorAhead ==
  ASSUME Room, TypeOK
  PROVE  WriteCursor \in Pos /\ Dist(WriteCursor, play_pos) = Lead
<1>1. play_pos \in Pos /\ Dist(play_pos, play_pos) = 0
  BY DistCases, ShbufAssumption DEF TypeOK, Pos
<1>2. 0 + Lead < PlayBufLen /\ Lead \in 0 .. PlayBufLen
  BY RoomFacts, ShbufAssumption
<1>3. QED  BY <1>1, <1>2, DistAhead, StepCases, ShbufAssumption DEF WriteCursor

(* shbuf_reset and shbuf_gap.                                              *)
LEMMA ResetInv ==
  ASSUME Room, TypeOK, PlayoutInv, shbuf_reset
  PROVE  PlayoutInv'
<1>1. play_pos \in Pos /\ WriteCursor \in Pos /\ Dist(WriteCursor, play_pos) = Lead
  BY WriteCursorAhead DEF TypeOK
<1>2. Lead + Qmean < PlayBufLen /\ Qmean \in 0 .. PlayBufLen
  BY RoomFacts, ShbufAssumption
<1>3. ResetPosition \in Pos /\ Dist(ResetPosition, play_pos) = Lead + Qmean
  BY <1>1, <1>2, DistAhead, StepCases, ShbufAssumption DEF ResetPosition
<1>4. ps_c' \in Pos /\ Dist(ps_c', play_pos) <= Lead + Ahead /\ Write
  BY <1>3, RoomFacts, ShbufAssumption DEF shbuf_reset
<1>5. QED  BY <1>4, WriteInv

(* shbuf_normal: the distance that wrap computes is the one that counts.   *)
LEMMA NormalInv ==
  ASSUME Room, TypeOK, PlayoutInv, shbuf_normal
  PROVE  PlayoutInv'
<1> DEFINE c == ps_c'
           w == WriteCursor
           d == wrap(c - w, PlayBufLen)
<1>1. play_pos \in Pos /\ w \in Pos /\ Dist(w, play_pos) = Lead
  BY WriteCursorAhead DEF TypeOK
<1>2. c \in Pos
  <2>1. ps_c + PktLen \in Int /\ c = (ps_c + PktLen) % PlayBufLen
    BY ShbufAssumption DEF shbuf_normal, TypeOK, Pos
  <2>2. QED  BY <2>1, ModIsPos
<1>3. d \in MinAhead .. MaxAhead /\ Write
  BY DEF shbuf_normal
<1> HIDE DEF c, w
<1>4. d \in {c - w, c - w + PlayBufLen, c - w - PlayBufLen}
  BY <1>1, <1>2, WrapIsDistance
<1> HIDE DEF d
<1>5. /\ Dist(w, play_pos) = (IF w >= play_pos THEN w - play_pos
                              ELSE w - play_pos + PlayBufLen)
      /\ Dist(c, play_pos) = (IF c >= play_pos THEN c - play_pos
                              ELSE c - play_pos + PlayBufLen)
  BY <1>1, <1>2, DistCases
<1>6. d \in Int /\ Lead + d >= 0 /\ d <= Ahead /\ Lead + d < PlayBufLen
  BY <1>3, RoomFacts, ShbufAssumption DEF Room
<1>7. Dist(c, play_pos) = Lead + d
  BY <1>1, <1>2, <1>4, <1>5, <1>6, ShbufAssumption DEF Pos
<1>8. Dist(c, play_pos) <= Lead + Ahead
  BY <1>6, <1>7, RoomFacts, ShbufAssumption
<1>9. QED  BY <1>2, <1>3, <1>8, WriteInv DEF c

(* silentout_play: the noise begins at most ps_silentlen + SilentInterval  *)
(* + 2 places behind the play cursor and ends behind it.                   *)
LEMMA SilenceInv ==
  ASSUME Room, TypeOK, PlayoutInv, silentout_play
  PROVE  PlayoutInv'
<1> USE ShbufAssumption
<1> DEFINE s == ps_silentlen
           n == SilenceCount * ps_silentlen
           from == SilenceFrom
<1>1. /\ play_pos \in Pos /\ ps_nextsilence \in Pos /\ since \in 0 .. SilentInterval
      /\ play_pos' = play_pos /\ since' = 0
  BY DEF silentout_play, TypeOK
<1>2. s \in Nat \ {0} /\ s + 1 < PlayBufLen
  BY RoomFacts
<1>3. /\ ring' = [x \in Pos |-> IF x \in Places(from, n) THEN "noise" ELSE ring[x]]
      /\ lost' = (lost \/ \E x \in Places(from, n) : ring[x] = "fresh")
      /\ ps_nextsilence' = (from + n) % PlayBufLen
  BY DEF silentout_play
<1>4. /\ from \in Pos /\ n \in Nat /\ n <= Dist(play_pos, from)
      /\ Dist(play_pos, from) <= s + SilentInterval + 2
      /\ Dist(play_pos, from) - n <= s + 1
  <2>1. \A x \in Pos : Even(x) \in Pos /\ (Even(x) = x \/ Even(x) = x - 1)
    BY DEF Even, Pos
  <2>2. CASE FirstTime
    <3> DEFINE y == (play_pos - s + PlayBufLen) % PlayBufLen
    <3>1. y \in Pos /\ y = (IF play_pos >= s THEN play_pos - s ELSE play_pos - s + PlayBufLen)
      BY <1>1, <1>2 DEF Pos
    <3>2. from = Even(y)
      BY <2>2 DEF SilenceFrom
    <3> HIDE DEF y
    <3>3. from \in Pos /\ (from = y \/ from = y - 1)
      BY <2>1, <3>1, <3>2
    <3> HIDE DEF from
    <3>4. Dist(play_pos, from) = (IF play_pos >= from THEN play_pos - from
                                  ELSE play_pos - from + PlayBufLen)
      BY <1>1, <3>3, DistCases
    <3> HIDE DEF s
    <3>5. Dist(play_pos, from) \in s .. s + 1
      BY <1>1, <1>2, <3>1, <3>3, <3>4 DEF Pos
    <3>6. n = 0
      BY <2>2, <1>2 DEF SilenceCount, s
    <3>7. QED  BY <1>2, <3>3, <3>5, <3>6
  <2>3. CASE ~FirstTime
    <3> DEFINE t == Dist(play_pos, ps_nextsilence)
    <3>1. ps_nextsilence # 0
      BY <2>3 DEF FirstTime
    <3>2. t \in Pos /\ t <= s + 1 + since
      BY <1>1, <3>1, DistCases DEF PlayoutInv, NoiseTrails
    <3>3. n = (IF t > s THEN ((t - 1) \div s) * s ELSE 0)
      BY <2>3, <1>2 DEF SilenceCount, Dist
    <3>4. t = (IF play_pos >= ps_nextsilence THEN play_pos - ps_nextsilence
               ELSE play_pos - ps_nextsilence + PlayBufLen)
      BY <1>1, DistCases
    <3> HIDE DEF t, s
    <3>5. n \in Nat /\ n <= t /\ t - n <= s
      <4>1. CASE t > s
        <5>1. t - 1 \in Nat
          BY <1>2, <3>2, <4>1 DEF Pos
        <5> DEFINE q == ((t - 1) \div s) * s
        <5>2. q \in Nat /\ q <= t - 1 /\ t - 1 < q + s
          BY <1>2, <5>1, WholeBuffers
        <5> HIDE DEF q
        <5>3. n = q
          BY <3>3, <4>1 DEF q
        <5> HIDE DEF n
        <5>4. QED  BY <1>2, <3>2, <5>2, <5>3 DEF Pos
      <4>2. CASE ~(t > s)
        <5>1. n = 0
          BY <3>3, <4>2
        <5> HIDE DEF n
        <5>2. QED  BY <1>2, <3>2, <4>2, <5>1 DEF Pos
      <4>3. QED  BY <4>1, <4>2
    <3> HIDE DEF n
    <3>6. from \in Pos /\ (from = ps_nextsilence \/ from = ps_nextsilence - 1)
      BY <1>1, <2>1, <2>3 DEF SilenceFrom
    <3> HIDE DEF from
    <3>7. Dist(play_pos, from) = (IF play_pos >= from THEN play_pos - from
                                  ELSE play_pos - from + PlayBufLen)
      BY <1>1, <3>6, DistCases
    <3>8. t + 1 < PlayBufLen
      BY <1>1, <1>2, <3>2, RoomFacts DEF s, Pos
    <3>9. Dist(play_pos, from) \in t .. t + 1
      BY <1>1, <3>2, <3>4, <3>6, <3>7, <3>8 DEF Pos
    <3>10. QED
      BY <1>1, <1>2, <3>2, <3>5, <3>6, <3>9 DEF Pos
  <2>4. QED  BY <2>2, <2>3
<1> HIDE DEF from, n
<1>5. Dist(play_pos, from) \in Pos
  BY <1>1, <1>4, DistCases
<1>6. ASSUME NEW x \in Places(from, n)
      PROVE  x \in Pos /\ ring[x] # "fresh"
  <2>1. PICK i \in 0 .. n - 1 : x = (from + i) % PlayBufLen
    BY DEF Places
  <2>2. i \in Nat /\ i < Dist(play_pos, from)
    BY <1>4, <1>5 DEF Pos
  <2>3. x \in Pos
    BY <1>4, <2>1, <2>2, ModIsPos DEF Pos
  <2>4. Dist(play_pos, x) = Dist(play_pos, from) - i
    BY <1>1, <1>4, <2>1, <2>2, <1>5, DistBehind DEF Pos
  <2>5. Dist(play_pos, x) # 0 /\ Dist(play_pos, x) <= s + SilentInterval + 2
    BY <1>2, <1>4, <1>5, <2>2, <2>4 DEF Pos
  <2>6. Dist(x, play_pos) = PlayBufLen - Dist(play_pos, x)
    BY <1>1, <2>3, <2>5, DistBack
  <2>7. Dist(x, play_pos) >= Lead + Ahead + PktLen /\ Dist(x, play_pos) \in Int
    BY <1>1, <1>2, <1>4, <1>5, <2>2, <2>4, <2>5, <2>6, RoomFacts DEF s, Pos
  <2>8. QED
    BY <2>3, <2>7, RoomFacts DEF PlayoutInv, FreshAhead
<1>7. ~lost'
  BY <1>3, <1>6 DEF PlayoutInv
<1>8. FreshAhead'
  BY <1>1, <1>3 DEF PlayoutInv, FreshAhead, Dist
<1>9. NoiseTrails'
  <2>1. Dist(play_pos, (from + n) % PlayBufLen) = Dist(play_pos, from) - n
    BY <1>1, <1>4, DistBehind
  <2>2. Dist(play_pos, ps_nextsilence') <= ps_silentlen + 1
    BY <1>3, <1>4, <2>1 DEF s
  <2>3. QED  BY <1>1, <1>2, <2>2 DEF NoiseTrails, Dist, s
<1>10. QED  BY <1>7, <1>8, <1>9 DEF PlayoutInv

(* The noise that silentout_play writes behind the play cursor never       *)
(* reaches audio that is still to be played, for every buffer with Room.   *)
THEOREM AudioIsKept == Spec => []AudioKept
<1>1. Room /\ Init => PlayoutInv
  BY DEF Init, PlayoutInv, FreshAhead, NoiseTrails
<1>2. Room /\ TypeOK /\ PlayoutInv /\ [Next]_vars => PlayoutInv'
  <2> SUFFICES ASSUME Room, TypeOK, PlayoutInv, [Next]_vars
               PROVE  PlayoutInv'
    OBVIOUS
  <2>1. CASE DeviceFails
    BY <2>1 DEF DeviceFails, PlayoutInv, FreshAhead, NoiseTrails, Dist
  <2>2. CASE UNCHANGED vars
    BY <2>2 DEF vars, PlayoutInv, FreshAhead, NoiseTrails, Dist
  <2>3. QED
    BY <2>1, <2>2, DeviceInv, ResetInv, NormalInv, SilenceInv DEF Next
<1>3. (Room => PlayoutInv) => AudioKept
  BY DEF PlayoutInv, AudioKept
<1>4. Init => (Room => PlayoutInv)
  BY <1>1
<1>5. TypeOK /\ (Room => PlayoutInv) /\ [Next]_vars => (Room => PlayoutInv)'
  BY <1>2 DEF Room
<1>6. QED
  BY <1>3, <1>4, <1>5, PositionsInBuffer, PTL DEF Spec
=============================================================================
