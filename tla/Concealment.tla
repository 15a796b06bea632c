------------------------------ MODULE Concealment ------------------------------
(***************************************************************************)
(* The decoder of iLBC from frame to frame: the concealment of bad frames  *)
(* (doCPLC.c) and the enhancer (enhancer.c), as far as they keep state and *)
(* index their buffers.  coding_ilbc_2l16 decodes every packet with mode   *)
(* 1; a frame is bad if its start is not 1 to 5.                           *)
(*                                                                         *)
(* Samples and correlations are floating-point numbers and left out: any   *)
(* lag of a search may be the best, and the period of any stored block may *)
(* be the nearest.  A gain is "low" or "high" compared with                *)
(* PLC_GAINTHRESHOLD, or "unset" where an uninitialized variable is        *)
(* stored.  Positions in enh_buf are counted in quarters of a sample.      *)
(***************************************************************************)
EXTENDS Integers, FiniteSetsExt, ILBCDefine

CONSTANT PitchLags   \* bound: lags (downsampled) that the last block may have

ASSUME ConcealmentAssumption == PitchLags # {} /\ PitchLags \subseteq 10 .. 59

ENH_BLOCKL == 80
ENH_HL == 3
ENH_SLOP == 2
ENH_OVERHANG == 2
ENH_UPS0 == 4
ENH_FL0 == 3
ENH_NBLOCKS == 3
ENH_NBLOCKS_EXTRA == 5
ENH_BUFL == 640
ENH_VECTL == ENH_BLOCKL + 2 * ENH_FL0
ENH_CORRDIM == 2 * ENH_SLOP + 1

VARIABLES
  last_lag, prevLag, prevGain, consPLICount, prevPLI, prev_enh_pl,  \* iLBC_Dec_Inst_t
  access    \* history: what the last frame read and wrote of its buffers

decVars == <<last_lag, prevLag, prevGain, consPLICount, prevPLI, prev_enh_pl, access>>

initDecode ==
  /\ last_lag = 20 /\ prevLag = 120 /\ prevGain = "low"
  /\ consPLICount = 0 /\ prevPLI = 0 /\ prev_enh_pl = 0
  /\ access = {}

\* Elements lo to hi (none if lo > hi) of a buffer with size elements.
Use(buf, lo, hi, size) == [buf |-> buf, lo |-> lo, hi |-> hi, size |-> size]

\* The first and the last element of each buffer that are used.
Hull(uses) ==
  LET Of(u) == {v \in uses : v.buf = u.buf /\ v.size = u.size /\ v.lo <= v.hi}
  IN  {Use(u.buf, Min({v.lo : v \in Of(u)}), Max({v.hi : v \in Of(u)}), u.size) :
         u \in {u \in uses : u.lo <= u.hi}}

-----------------------------------------------------------------------------
(* Concealment *)

\* The last 60 samples and those a lag before.
compCorr(lag) == {Use("prevResidual", BLOCKL - 60 - lag, BLOCKL - 1, BLOCKL)}

\* n samples are repeated from a lag before, and mixed with samples from 50 to
\* 119 before: of the last frame, or of this one as far as it is computed.
Repeat(lag, n) ==
  {Use("prevResidual", BLOCKL - lag, BLOCKL - 1, BLOCKL),
   Use("prevResidual", BLOCKL - 119, BLOCKL - 1, BLOCKL),
   Use("PLCresidual", 0, (n - 1) - lag, n - 1),
   Use("randvec", 0, (n - 1) - 50, n - 1)}

\* The lag and the gain that a frame begins with.
LagAndGain(PLI) ==
  IF prevPLI = 1 THEN {<<prevLag, prevGain>>}
  ELSE IF PLI = 1 THEN (last_lag - 3 .. last_lag + 3) \X {"low", "high"}
  ELSE {<<20, "unset">>}

\* A gain is attenuated, and zero if the energy is low.
doThePLC(PLI, lag, gain) ==
  /\ <<lag, gain>> \in LagAndGain(PLI)
  /\ prevGain' \in (IF PLI = 1 THEN {gain, "low"} ELSE {gain})
  /\ prevLag' = lag
  /\ prevPLI' = PLI
  /\ consPLICount' = IF PLI = 1 THEN Min({consPLICount + 1, 2})   \* bound: 2
                     ELSE IF prevPLI = 1 THEN 0 ELSE consPLICount

PLCUse(PLI, lag, gain) ==
  (IF PLI = 1 /\ prevPLI # 1
   THEN UNION {compCorr(l) : l \in last_lag - 3 .. last_lag + 3} ELSE {})
  \cup (IF PLI = 1 THEN Repeat(lag, BLOCKL)
        ELSE IF prevPLI = 1 /\ gain = "high" THEN Repeat(lag, 3 * SUBL) ELSE {})

-----------------------------------------------------------------------------
(* The enhancer *)

\* enh_period: as initialized, or twice a lag of the search.
Periods == {40} \cup {2 * lag : lag \in 10 .. 59}

\* Mutant: the search may begin before the buffer.
refinerUnclipped(est) ==
  LET r == (est - 2) \div 4
  IN  [first |-> r - ENH_SLOP, last |-> r + ENH_SLOP]

\* refiner: where the segment near est is searched.
refiner(est) ==
  LET r == (est - 2) \div 4
  IN  [first |-> IF r - ENH_SLOP < 0 THEN 0 ELSE r - ENH_SLOP,
       last  |-> IF r + ENH_SLOP + ENH_BLOCKL >= ENH_BUFL THEN ENH_BUFL - ENH_BLOCKL - 1
                 ELSE r + ENH_SLOP]

corrdim(w) == w.last - w.first + 1

\* The updated start of the segment, at any place of the upsampled search.
updStartPos(w) ==
  {ENH_UPS0 * w.first + tloc + ENH_UPS0 : tloc \in 0 .. ENH_UPS0 * corrdim(w) - 1}

\* A correlation of dim1 values, upsampled with a filter that is shortened.
enh_upsample(dim1) ==
  LET hfl    == IF 2 * ENH_FL0 + 1 > dim1 THEN dim1 \div 2 ELSE ENH_FL0
      len    == 2 * hfl + 1
      middle == IF dim1 > len THEN dim1 - len ELSE 0
      out    == ENH_UPS0 * (len - hfl + middle + hfl)
  IN  {Use("corrVec", 0, len - 1, ENH_CORRDIM),
       Use("corrVec", dim1 - len + 1, dim1 - 1, ENH_CORRDIM),
       Use("polyphaserTbl", 0, 3 * (2 * ENH_FL0 + 1) + ENH_FL0 + hfl, 28),
       Use("corrVecUps", 0, out - 1, ENH_CORRDIM * ENH_UPS0),
       Use("corrVecUps", 0, ENH_UPS0 * dim1 - 1, out)}

\* vect is copied from st on, with zeros beside the buffer.
CopyVect(st) ==
  LET en == st + ENH_VECTL
  IN  {Use("enh_buf", IF st < 0 THEN 0 ELSE st, (IF en > ENH_BUFL THEN ENH_BUFL ELSE en) - 1,
           ENH_BUFL)}

RefinerUse(w) ==
  {Use("enh_buf", w.first, w.last + ENH_BLOCKL - 1, ENH_BUFL)}
  \cup enh_upsample(corrdim(w))
  \cup UNION {CopyVect(w.first + tloc2 - ENH_FL0) : tloc2 \in 0 .. corrdim(w)}

\* A segment at est is refined only if it is inside the buffer.
Refines(dir, est) ==
  IF dir = -1 THEN est - 4 * ENH_OVERHANG >= 0
  ELSE est + 4 * (ENH_BLOCKL + ENH_OVERHANG) < 4 * ENH_BUFL

\* Where a segment is found that was estimated at est.
Found(dir, est) == IF Refines(dir, est) THEN updStartPos(refiner(est)) ELSE {est}

\* getsseq: the estimates of the three segments before a block, or after it,
\* each a period from where the one before was found.
Estimates(block, dir) ==
  LET e[q \in 1 .. ENH_HL] ==
        {x + dir * 4 * p :
           x \in (IF q = 1 THEN {4 * (4 + block) * ENH_BLOCKL}
                  ELSE UNION {Found(dir, est) : est \in e[q - 1]}),
           p \in Periods}
  IN  {est \in UNION {e[q] : q \in 1 .. ENH_HL} : Refines(dir, est)}

getsseq ==
  Hull(UNION {RefinerUse(w) :
    w \in {refiner(est) :
      est \in UNION {Estimates(block, dir) : block \in 0 .. ENH_NBLOCKS - 1, dir \in {-1, 1}}}})

\* Each second of len samples from 280 on is filtered with 7 coefficients, the
\* last one without those after the end.
DownSample(len) ==
  LET out == ((len - 3 + 1) \div 2) + 1
  IN  {Use("enh_buf", 280, 280 + len - 1, ENH_BUFL), Use("lpState", 3, 5, 6),
       Use("downsampled", 0, out - 1, 180), Use("downsampled", 60 - 59, 179, out)}

\* After a bad frame, the block before this one is replaced by a block of this
\* one, a lag of 20 to 119 after its beginning.
Smooth ==
  Hull({Use("decresidual", 0, 119 + ENH_BLOCKL - 1, BLOCKL)}
  \cup UNION {LET start == IF lag > ENH_BLOCKL THEN ENH_BLOCKL ELSE lag
              IN  {Use("decresidual", lag - start, lag - 1, BLOCKL),
                   Use("enh_buf", 400 - start, 399, ENH_BUFL),
                   Use("enh_buf", 400 - start - (ENH_BLOCKL - lag), 399 - start, ENH_BUFL)} :
              lag \in 20 .. 119})

enhancerInterface ==
  (IF prev_enh_pl = 1 THEN Smooth ELSE {})
  \cup DownSample(ENH_NBLOCKS * ENH_BLOCKL + 120)
  \cup getsseq

-----------------------------------------------------------------------------
(* A frame; sphone always uses the enhancer. *)

iLBC_decode(PLI) ==
  \E lag \in {x[1] : x \in LagAndGain(PLI)}, gain \in {x[2] : x \in LagAndGain(PLI)} :
    /\ doThePLC(PLI, lag, gain)
    /\ access' = PLCUse(PLI, lag, gain) \cup enhancerInterface
    /\ last_lag' \in {2 * l : l \in PitchLags}
    /\ prev_enh_pl' = PLI

DecNext == \E PLI \in {0, 1} : iLBC_decode(PLI)

DecSpec == initDecode /\ [][DecNext]_decVars

-----------------------------------------------------------------------------
(* Whatever frames are bad and whatever lags the searches find, decoder    *)
(* and enhancer stay inside their buffers (one place of corrVec may be     *)
(* read that was not computed); the gain stored by a frame that had none   *)
(* is not used; and the count of bad frames, which attenuates the second   *)
(* one, is that of consecutive ones.                                       *)
DecoderInBounds ==
  /\ \A u \in access : u.lo >= 0 /\ u.hi < u.size
  /\ prevPLI = 1 => prevGain # "unset"
  /\ prevPLI = 1 <=> consPLICount > 0
=============================================================================
