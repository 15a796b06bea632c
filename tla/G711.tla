---------------------------------- MODULE G711 ----------------------------------
(***************************************************************************)
(* The companding of coding/g711.c: 16-bit linear samples to A-law and     *)
(* u-law codes of 8 bits, back, and between the two laws.  A right shift   *)
(* of a negative short is arithmetic, as the compilers in use do it.       *)
(***************************************************************************)
EXTENDS Integers, Bitwise

Code == 0 .. 255
Short == -32768 .. 32767

seg_aend == [i \in 0 .. 7 |-> 2 ^ (i + 5) - 1]
seg_uend == [i \in 0 .. 7 |-> 2 ^ (i + 6) - 1]

\* The first segment whose end is not below val, or 8.
search(val, table) ==
  CHOOSE i \in 0 .. 8 : /\ i = 8 \/ val <= table[i]
                        /\ \A j \in 0 .. i - 1 : val > table[j]

\* Sign, segment and quantization fields of a code.
Positive(c) == c >= 128
Segment(c) == (c \div 16) % 8
Quant(c) == c % 16

linear2alaw(pcm) ==
  LET p    == pcm \div 8
      mask == IF p >= 0 THEN 213 ELSE 85
      val  == IF p >= 0 THEN p ELSE -p - 1
      seg  == search(val, seg_aend)
  IN  (IF seg >= 8 THEN 127
       ELSE seg * 16 + ((val \div 2 ^ (IF seg < 2 THEN 1 ELSE seg)) % 16)) ^^ mask

alaw2linear(code) ==
  LET a   == code ^^ 85
      seg == Segment(a)
      t   == CASE seg = 0 -> Quant(a) * 16 + 8
               [] seg = 1 -> Quant(a) * 16 + 264
               [] OTHER   -> (Quant(a) * 16 + 264) * 2 ^ (seg - 1)
  IN  IF Positive(a) THEN t ELSE -t

BIAS == 132
CLIP == 8159

\* Mutant: the magnitude is not biased before the segment is searched.
linear2ulawUnbiased(pcm) ==
  LET p    == pcm \div 4
      mask == IF p < 0 THEN 127 ELSE 255
      mag  == IF p < 0 THEN -p ELSE p
      val  == IF mag > CLIP THEN CLIP ELSE mag
      seg  == search(val, seg_uend)
  IN  (IF seg >= 8 THEN 127
       ELSE seg * 16 + ((val \div 2 ^ (seg + 1)) % 16)) ^^ mask

linear2ulaw(pcm) ==
  LET p    == pcm \div 4
      mask == IF p < 0 THEN 127 ELSE 255
      mag  == IF p < 0 THEN -p ELSE p
      val  == (IF mag > CLIP THEN CLIP ELSE mag) + BIAS \div 4
      seg  == search(val, seg_uend)
  IN  (IF seg >= 8 THEN 127
       ELSE seg * 16 + ((val \div 2 ^ (seg + 1)) % 16)) ^^ mask

ulaw2linear(code) ==
  LET u == 255 - code
      t == (Quant(u) * 8 + BIAS) * 2 ^ Segment(u)
  IN  IF Positive(u) THEN BIAS - t ELSE t - BIAS

\* The tables of the standard, from the code's 0 on.
_u2a == <<
    1,   1,   2,   2,   3,   3,   4,   4,   5,   5,   6,   6,   7,   7,   8,   8,
    9,  10,  11,  12,  13,  14,  15,  16,  17,  18,  19,  20,  21,  22,  23,  24,
   25,  27,  29,  31,  33,  34,  35,  36,  37,  38,  39,  40,  41,  42,  43,  44,
   46,  48,  49,  50,  51,  52,  53,  54,  55,  56,  57,  58,  59,  60,  61,  62,
   64,  65,  66,  67,  68,  69,  70,  71,  72,  73,  74,  75,  76,  77,  78,  79,
   80,  82,  83,  84,  85,  86,  87,  88,  89,  90,  91,  92,  93,  94,  95,  96,
   97,  98,  99, 100, 101, 102, 103, 104, 105, 106, 107, 108, 109, 110, 111, 112,
  113, 114, 115, 116, 117, 118, 119, 120, 121, 122, 123, 124, 125, 126, 127, 128>>

_a2u == <<
    1,   3,   5,   7,   9,  11,  13,  15,  16,  17,  18,  19,  20,  21,  22,  23,
   24,  25,  26,  27,  28,  29,  30,  31,  32,  32,  33,  33,  34,  34,  35,  35,
   36,  37,  38,  39,  40,  41,  42,  43,  44,  45,  46,  47,  48,  48,  49,  49,
   50,  51,  52,  53,  54,  55,  56,  57,  58,  59,  60,  61,  62,  63,  64,  64,
   65,  66,  67,  68,  69,  70,  71,  72,  73,  74,  75,  76,  77,  78,  79,  80,
   80,  81,  82,  83,  84,  85,  86,  87,  88,  89,  90,  91,  92,  93,  94,  95,
   96,  97,  98,  99, 100, 101, 102, 103, 104, 105, 106, 107, 108, 109, 110, 111,
  112, 113, 114, 115, 116, 117, 118, 119, 120, 121, 122, 123, 124, 125, 126, 127>>

alaw2ulaw(a) ==
  IF Positive(a) THEN 255 ^^ _a2u[(a ^^ 213) + 1] ELSE 127 ^^ _a2u[(a ^^ 85) + 1]

ulaw2alaw(u) ==
  IF Positive(u) THEN 213 ^^ (_u2a[(255 ^^ u) + 1] - 1)
  ELSE 85 ^^ (_u2a[(127 ^^ u) + 1] - 1)
=============================================================================
