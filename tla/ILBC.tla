---------------------------------- MODULE ILBC ----------------------------------
(***************************************************************************)
(* The iLBC codec (coding/iLBC_1.1.0) without its signal processing: how   *)
(* the indexes of a frame of 240 samples are packed into 50 bytes, most    *)
(* important bits first, and in which order encoder and decoder construct  *)
(* the samples of a frame, each part predicted from a memory of samples    *)
(* constructed before.                                                     *)
(***************************************************************************)
EXTENDS Integers, Sequences, SequencesExt, ILBCDefine

-----------------------------------------------------------------------------
(* Packing *)

\* The bits of each index that are in ULP class 0, 1 and 2, in the order of
\* the bit stream: lsf_i, start, state_first, idxForMax, idxVec,
\* extra_cb_index, extra_gain_index, cb_index, gain_index.
ulp_bitsTbl ==
  [k \in 1 .. 6 |-> <<(<<6, 7, 7, 6, 7, 7>>)[k], 0, 0>>]
  \o <<<<3, 0, 0>>, <<1, 0, 0>>, <<6, 0, 0>>>>
  \o [k \in 1 .. STATE_SHORT_LEN |-> <<0, 1, 2>>]
  \o <<<<4, 2, 1>>, <<0, 0, 7>>, <<0, 0, 7>>, <<1, 1, 3>>, <<1, 1, 2>>, <<0, 0, 3>>>>
  \o <<<<6, 1, 1>>, <<0, 0, 7>>, <<0, 0, 7>>, <<0, 7, 1>>, <<0, 0, 8>>, <<0, 0, 8>>,
       <<0, 7, 1>>, <<0, 0, 8>>, <<0, 0, 8>>, <<0, 7, 1>>, <<0, 0, 8>>, <<0, 0, 8>>>>
  \o <<<<1, 2, 2>>, <<1, 2, 1>>, <<0, 0, 3>>, <<0, 2, 3>>, <<0, 2, 2>>, <<0, 0, 3>>,
       <<0, 1, 4>>, <<0, 1, 3>>, <<0, 0, 3>>, <<0, 1, 4>>, <<0, 1, 3>>, <<0, 0, 3>>>>

Fields == 1 .. 97
START == 7                        \* where start is
CB == 9 + STATE_SHORT_LEN + 2 * CB_NSTAGES   \* where cb_index begins
Slots == 3 * 97                   \* parts of a frame: three classes of all fields

\* Class and field of the i-th part.
UlpOf(i) == ((i - 1) \div 97) + 1
FieldOf(i) == ((i - 1) % 97) + 1
BitsOf(i) == ulp_bitsTbl[FieldOf(i)][UlpOf(i)]

\* Bits of a field in classes later than that of part i.
RestBits(i) ==
  LET b == ulp_bitsTbl[FieldOf(i)]
  IN  CASE UlpOf(i) = 1 -> b[2] + b[3] [] UlpOf(i) = 2 -> b[3] [] OTHER -> 0

packsplit(index, rest) == [first |-> index \div 2 ^ rest, rest |-> index % 2 ^ rest]

packcombine(index, rest, bitno) == index * 2 ^ bitno + rest

\* dopack: at most 8 bits, which go to one byte or to two.
dopack(s, index, bitno) ==
  LET bytes == IF s.pos = 8 THEN Append(s.bytes, 0) ELSE s.bytes
      pos   == s.pos % 8
      left  == 8 - pos
      over  == bitno - left
      last  == Len(bytes)
  IN  IF bitno = 0 THEN s
      ELSE IF over <= 0
      THEN [bytes |-> [bytes EXCEPT ![last] = @ + index * 2 ^ (left - bitno)],
            pos   |-> pos + bitno]
      ELSE [bytes |-> [bytes EXCEPT ![last] = @ + index \div 2 ^ over]
                        \o <<(index % 2 ^ over) * 2 ^ (8 - over)>>,
            pos   |-> over]

\* Mutant: the bits that are left in the first byte are not shifted up.
unpackUnshifted(bytes, s, bitno) ==
  LET at   == IF s.pos = 8 THEN s.at + 1 ELSE s.at
      pos  == s.pos % 8
      left == 8 - pos
      over == bitno - left
      Top(n) == ((bytes[at] * 2 ^ pos) % 256) \div 2 ^ (8 - n)
  IN  CASE bitno = 0 -> [s EXCEPT !.index = 0]
        [] bitno > 0 /\ over <= 0 -> [at |-> at, pos |-> pos + bitno, index |-> Top(bitno)]
        [] over > 0 -> [at |-> at + 1, pos |-> over,
                        index |-> Top(left) + bytes[at + 1] \div 2 ^ (8 - over)]

unpack(bytes, s, bitno) ==
  LET at   == IF s.pos = 8 THEN s.at + 1 ELSE s.at
      pos  == s.pos % 8
      left == 8 - pos
      over == bitno - left
      Top(n) == ((bytes[at] * 2 ^ pos) % 256) \div 2 ^ (8 - n)
  IN  CASE bitno = 0 -> [s EXCEPT !.index = 0]
        [] bitno > 0 /\ over <= 0 -> [at |-> at, pos |-> pos + bitno, index |-> Top(bitno)]
        [] over > 0 -> [at |-> at + 1, pos |-> over,
                        index |-> Top(bitno) + bytes[at + 1] \div 2 ^ (8 - over)]

\* Only the second and third index of the first sub-block have 7 bits.
Converted(k) == k \in {CB + 2, CB + 3}

index_conv_enc(index) ==
  IF index >= 108 /\ index < 172 THEN index - 64
  ELSE IF index >= 236 THEN index - 128 ELSE index

index_conv_dec(index) ==
  IF index >= 44 /\ index < 108 THEN index + 64
  ELSE IF index >= 108 /\ index < 128 THEN index + 128 ELSE index

\* The i-th part is split from its index and packed.
PackPart(b, i) ==
  LET k == FieldOf(i)
      p == packsplit(b.v[k], RestBits(i))
  IN  [v |-> [b.v EXCEPT ![k] = p.rest], s |-> dopack(b.s, p.first, BitsOf(i))]

\* The parts from lo to hi, one after the other: c is the only result of the
\* first half.
RECURSIVE PackParts(_, _, _)
PackParts(b, lo, hi) ==
  IF lo = hi THEN PackPart(b, lo)
  ELSE LET mid == (lo + hi) \div 2
       IN  CHOOSE r \in {PackParts(c, mid + 1, hi) : c \in {PackParts(b, lo, mid)}} : TRUE

\* The end of iLBC_encode: the indexes of a frame as bytes.
iLBC_pack(frame) ==
  LET b == PackParts([v |-> [k \in Fields |-> IF Converted(k) THEN index_conv_enc(frame[k])
                                       ELSE frame[k]],
                      s |-> [bytes |-> <<0>>, pos |-> 0]],
                     1, Slots)
  IN  dopack(b.s, 0, 1).bytes

\* The i-th part is unpacked and combined with what its index has so far.
UnpackPart(bytes, b, i) ==
  LET s == unpack(bytes, b.s, BitsOf(i))
  IN  [v |-> [b.v EXCEPT ![FieldOf(i)] = packcombine(@, s.index, BitsOf(i))], s |-> s]

RECURSIVE UnpackParts(_, _, _, _)
UnpackParts(bytes, b, lo, hi) ==
  IF lo = hi THEN UnpackPart(bytes, b, lo)
  ELSE LET mid == (lo + hi) \div 2
       IN  CHOOSE r \in {UnpackParts(bytes, c, mid + 1, hi) :
                           c \in {UnpackParts(bytes, b, lo, mid)}} : TRUE

\* The beginning of iLBC_decode: the indexes, or <<>> if start shows a bit
\* error and the loss of the frame is concealed.
iLBC_unpack(bytes) ==
  LET v == UnpackParts(bytes, [v |-> [k \in Fields |-> 0],
                               s |-> [at |-> 1, pos |-> 0, index |-> 0]], 1, Slots).v
  IN  IF v[START] \in 1 .. 5 
      THEN [k \in Fields |-> IF Converted(k) THEN index_conv_dec(v[k]) ELSE v[k]]
      ELSE <<>>

-----------------------------------------------------------------------------
(* Construction of a frame, as a sequence of steps: the samples to (in the *)
(* order of the step) are constructed from the memory from, in which -1 is *)
(* a zero.  Sample 0 is the first of the frame.                            *)

diff == STATE_LEN - STATE_SHORT_LEN

\* n samples from x on, forwards or (with dir = -1) backwards.
Samples(x, n, dir) == [i \in 1 .. n |-> x + dir * (i - 1)]

\* mem, filled from its end.
Memory(len, s) == [i \in 1 .. len - Len(s) |-> -1] \o s

\* The memory of a prediction: its last len samples.
Recent(mem, len) == SubSeq(mem, Len(mem) - len + 1, Len(mem))

\* Sub-blocks one after the other, each shifted into the memory afterwards.
Predict(mem, targets) ==
  [n \in DOMAIN targets |->
     [to |-> targets[n],
      from |-> Recent(mem \o FlattenSeq(SubSeq(targets, 1, n - 1)), memLfTbl)]]

start_pos(start, state_first) ==
  (start - 1) * SUBL + (IF state_first = 1 THEN 0 ELSE diff)

meml_gotten(start) ==
  IF SUBL * (NSUB + 1 - start) > CB_MEML THEN CB_MEML ELSE SUBL * (NSUB + 1 - start)

\* Decode: the start state, its adaptive part, the sub-blocks after it, and
\* those before it in reverse.
Decode(start, state_first) ==
  LET pos   == start_pos(start, state_first)
      state == [to |-> Samples(pos, STATE_SHORT_LEN, 1), from |-> <<>>]
      extra == IF state_first = 1
               THEN [to   |-> Samples(pos + STATE_SHORT_LEN, diff, 1),
                     from |-> Memory(stMemLTbl, Samples(pos, STATE_SHORT_LEN, 1))]
               ELSE [to   |-> Samples(pos - 1, diff, -1),
                     from |-> Memory(stMemLTbl,
                                Samples(pos + STATE_SHORT_LEN - 1, STATE_SHORT_LEN, -1))]
      forward == Predict(Memory(CB_MEML, Samples((start - 1) * SUBL, STATE_LEN, 1)),
                   [n \in 1 .. NSUB - start - 1 |-> Samples((start + n) * SUBL, SUBL, 1)])
      got     == meml_gotten(start)
      back    == Predict(Memory(CB_MEML, Samples((start - 1) * SUBL + got - 1, got, -1)),
                   [n \in 1 .. start - 1 |->
                      Samples(SUBL * (start - 1) - 1 - (n - 1) * SUBL, SUBL, -1)])
  IN  <<state, extra>> \o forward \o back

\* Mutant: the memory of the backward prediction ends a sample too early.
EncodeOrderShort(start, state_first) ==
  LET pos == start_pos(start, state_first)
      far == (start + 1) * SUBL - 1   \* the last sample of the start state
      got == meml_gotten(start) - 1
  IN  <<[to |-> Samples(pos, STATE_SHORT_LEN, 1), from |-> <<>>],
        IF state_first = 1
        THEN [to |-> Samples(pos + STATE_SHORT_LEN, diff, 1),
              from |-> Memory(stMemLTbl, Samples(pos, STATE_SHORT_LEN, 1))]
        ELSE [to |-> Samples(far - STATE_SHORT_LEN, diff, -1),
              from |-> Memory(stMemLTbl, Reverse(Samples(pos, STATE_SHORT_LEN, 1)))]>>
      \o Predict(Memory(CB_MEML, Samples((start - 1) * SUBL, STATE_LEN, 1)),
           [n \in 1 .. NSUB - start - 1 |-> Samples((start + n) * SUBL, SUBL, 1)])
      \o Predict(Memory(CB_MEML, Reverse(Samples((start - 1) * SUBL, got, 1))),
           [n \in 1 .. start - 1 |->
              Samples((start - 1) * SUBL - 1 - (n - 1) * SUBL, SUBL, -1)])

\* iLBC_encode: the samples whose residual each search matches, and the memory
\* that it searches.
EncodeOrder(start, state_first) ==
  LET pos == start_pos(start, state_first)
      far == (start + 1) * SUBL - 1   \* the last sample of the start state
      got == meml_gotten(start)
  IN  <<[to |-> Samples(pos, STATE_SHORT_LEN, 1), from |-> <<>>],
        IF state_first = 1
        THEN [to |-> Samples(pos + STATE_SHORT_LEN, diff, 1),
              from |-> Memory(stMemLTbl, Samples(pos, STATE_SHORT_LEN, 1))]
        ELSE [to |-> Samples(far - STATE_SHORT_LEN, diff, -1),
              from |-> Memory(stMemLTbl, Reverse(Samples(pos, STATE_SHORT_LEN, 1)))]>>
      \o Predict(Memory(CB_MEML, Samples((start - 1) * SUBL, STATE_LEN, 1)),
           [n \in 1 .. NSUB - start - 1 |-> Samples((start + n) * SUBL, SUBL, 1)])
      \o Predict(Memory(CB_MEML, Reverse(Samples((start - 1) * SUBL, got, 1))),
           [n \in 1 .. start - 1 |->
              Samples((start - 1) * SUBL - 1 - (n - 1) * SUBL, SUBL, -1)])
=============================================================================
