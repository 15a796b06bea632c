-------------------------- MODULE Concealment_proofs --------------------------
(***************************************************************************)
(* The decoder of iLBC stays inside its buffers for every set of lags that *)
(* the enhancer may find in a frame.  The lags of a search are bounded, so *)
(* what is left is the chain of segments that getsseq follows through the  *)
(* enhancer's buffer: each is searched near where the one before was found *)
(* and may drift, but less than a period, so that the chain moves in one   *)
(* direction and is cut off where it would leave the buffer.               *)
(***************************************************************************)
EXTENDS Concealment, NaturalsInduction, WellFoundedInduction, TLAPS

-----------------------------------------------------------------------------
(* The first and the last element of a set of numbers *)

(* A non-empty set of natural numbers has a least element.                 *)
LEMMA LeastExists ==
  ASSUME NEW m \in SUBSET Nat, m # {}
  PROVE  \E i \in m : \A j \in m : i <= j
<1>1. PICK i \in m : \A j \in m : ~(<<j, i>> \in OpToRel(<, Nat))
  BY NatLessThanWellFounded, WFMin
<1>2. \A j \in m : ~(j < i)
  BY <1>1 DEF OpToRel
<1>3. QED  BY <1>2

(* It is what Min chooses.                                                 *)
LEMMA LeastNat ==
  ASSUME NEW S \in SUBSET Nat, S # {}
  PROVE  Min(S) \in S
BY LeastExists DEF Min

(* A non-empty set of integers with an upper bound has a greatest element. *)
LEMMA GreatestInt ==
  ASSUME NEW S \in SUBSET Int, S # {}, NEW n \in Int, \A x \in S : x < n
  PROVE  Max(S) \in S
<1> DEFINE D == {n - x : x \in S}
<1>1. D \in SUBSET Nat /\ D # {}
  <2>1. \A x \in S : n - x \in Nat
    OBVIOUS
  <2>2. D \in SUBSET Nat
    BY <2>1
  <2>3. PICK z : z \in S
    OBVIOUS
  <2>4. n - z \in D
    BY <2>3
  <2>5. QED  BY <2>2, <2>4
<1>2. PICK i \in D : \A j \in D : i <= j
  BY <1>1, LeastExists
<1>3. \A j \in D : i <= j
  BY <1>2
<1>4. PICK y \in S : i = n - y
  BY <1>2
<1>5. \A x \in S : y >= x
  <2>1. TAKE x \in S
  <2>2. i <= n - x
    BY <1>3
  <2>3. QED  BY <1>4, <2>2
<1>6. QED  BY <1>5 DEF Max

-----------------------------------------------------------------------------
(* Uses of a buffer *)

\* Uses are given by integers, and lie in their buffers if they are of any
\* element, or in any case.
IsUse(u) == u.lo \in Int /\ u.hi \in Int /\ u.size \in Int
Inside(uses) == \A u \in uses : IsUse(u) /\ (u.lo <= u.hi => u.lo >= 0 /\ u.hi < u.size)
InBounds(uses) == \A u \in uses : u.lo >= 0 /\ u.hi < u.size

(* Hull gives a use that lies in its buffer if all of them do.             *)
LEMMA HullInBounds ==
  ASSUME NEW uses, Inside(uses)
  PROVE  InBounds(Hull(uses))
<1> DEFINE Of(u) == {v \in uses : v.buf = u.buf /\ v.size = u.size /\ v.lo <= v.hi}
<1>1. SUFFICES ASSUME NEW u \in uses, u.lo <= u.hi
               PROVE  LET w == Use(u.buf, Min({v.lo : v \in Of(u)}), Max({v.hi : v \in Of(u)}), u.size)
                      IN  w.lo >= 0 /\ w.hi < w.size
  BY Zenon DEF InBounds, Hull
<1> DEFINE L == {v.lo : v \in Of(u)}
           H == {v.hi : v \in Of(u)}
<1>2. u \in Of(u) /\ u.size \in Int
  BY <1>1 DEF Inside, IsUse
<1>3. L \in SUBSET Nat /\ L # {}
  BY <1>2 DEF Inside, IsUse
<1>4. H \in SUBSET Int /\ H # {} /\ \A x \in H : x < u.size
  BY <1>2 DEF Inside, IsUse
<1> HIDE DEF L, H, Of
<1>5. Min(L) \in Nat
  BY <1>3, LeastNat
<1>6. Max(H) \in Int /\ Max(H) < u.size
  BY <1>2, <1>4, GreatestInt
<1>7. LET w == Use(u.buf, Min(L), Max(H), u.size) IN w.lo >= 0 /\ w.hi < w.size
  BY <1>5, <1>6 DEF Use
<1>8. QED  BY <1>7 DEF L, H

-----------------------------------------------------------------------------
(* The segments that getsseq follows *)

(* enh_period holds lags of 20 to 118 samples.                             *)
LEMMA PeriodRange ==
  ASSUME NEW p \in Periods
  PROVE  p \in 20 .. 118
BY DEF Periods

\* An estimate whose segment is refined, in quarters of a sample, and a search
\* in the buffer: it may be clipped to four places at the beginning.
Refinable(est) == est \in 8 .. 2231
Searchable(w) == w.first \in 0 .. 555 /\ w.last \in 3 .. 559 /\ corrdim(w) \in {4, 5}

(* refiner searches in the buffer.                                         *)
LEMMA RefinerRange ==
  ASSUME NEW est, Refinable(est)
  PROVE  Searchable(refiner(est))
<1> DEFINE r == (est - 2) \div 4
<1>1. r \in 1 .. 557
  BY DEF Refinable
<1> HIDE DEF r
<1>2. refiner(est) = [first |-> IF r - 2 < 0 THEN 0 ELSE r - 2,
                      last  |-> IF r + 2 + 80 >= 640 THEN 640 - 80 - 1 ELSE r + 2]
  BY DEF refiner, r, ENH_SLOP, ENH_BLOCKL, ENH_BUFL
<1>3. QED  BY <1>1, <1>2 DEF corrdim, Searchable

Near(est, x) == x \in est - 9 .. est + 13

(* A segment is found less than a period from its estimate.                *)
LEMMA FoundNear ==
  ASSUME NEW est, Refinable(est), NEW x \in updStartPos(refiner(est))
  PROVE  Near(est, x)
<1> DEFINE r == (est - 2) \div 4
           w == refiner(est)
<1>1. est \in 8 .. 2231 /\ r \in 1 .. 557 /\ 4 * r <= est - 2 /\ est - 5 <= 4 * r
  BY DEF Refinable
<1> HIDE DEF r
<1>2. w = [first |-> IF r - 2 < 0 THEN 0 ELSE r - 2,
           last  |-> IF r + 2 + 80 >= 640 THEN 640 - 80 - 1 ELSE r + 2]
  BY DEF refiner, r, ENH_SLOP, ENH_BLOCKL, ENH_BUFL
<1>3. /\ w.first \in Int /\ w.last \in Int /\ r - 2 <= w.first /\ w.last <= r + 2
      /\ corrdim(w) = w.last - w.first + 1
  BY <1>1, <1>2 DEF corrdim
<1> HIDE DEF w
<1>4. PICK tloc \in 0 .. 4 * corrdim(w) - 1 : x = 4 * w.first + tloc + 4
  BY DEF updStartPos, ENH_UPS0, w
<1>5. QED  BY <1>1, <1>3, <1>4 DEF Near

\* How far a chain of segments gets, to either side.
Limit(dir, est) == est \in Int /\ IF dir = -1 THEN est <= 1920 ELSE est >= 1280

(* A segment of the chain is refined only where the search is in the       *)
(* buffer,                                                                 *)
LEMMA RefinedRange ==
  ASSUME NEW dir \in {-1, 1}, NEW est, Limit(dir, est), Refines(dir, est)
  PROVE  Refinable(est)
BY DEF Refinable, Limit, Refines, ENH_OVERHANG, ENH_BLOCKL, ENH_BUFL

(* and the next one lies in the same direction.                            *)
LEMMA NextSegment ==
  ASSUME NEW dir \in {-1, 1}, NEW est, Limit(dir, est), NEW x \in Found(dir, est), NEW p \in Periods
  PROVE  Limit(dir, x + dir * 4 * p)
<1>1. p \in 20 .. 118 /\ est \in Int
  BY PeriodRange DEF Limit
<1>2. Near(est, x)
  <2>1. CASE Refines(dir, est)
    <3>1. Refinable(est) /\ x \in updStartPos(refiner(est))
      BY <2>1, RefinedRange DEF Found
    <3>2. QED  BY <3>1, FoundNear
  <2>2. CASE ~Refines(dir, est)
    BY <1>1, <2>2 DEF Found, Near
  <2>3. QED  BY <2>1, <2>2
<1>3. QED  BY <1>1, <1>2 DEF Limit, Near

\* The equation of the recursive function in Estimates.
Segments(block, dir, e) ==
  e = [q \in 1 .. ENH_HL |->
         {x + dir * 4 * p :
            x \in (IF q = 1 THEN {4 * (4 + block) * ENH_BLOCKL}
                   ELSE UNION {Found(dir, est) : est \in e[q - 1]}),
            p \in Periods}]

(* There is such a function.                                               *)
LEMMA SegmentsExist ==
  ASSUME NEW block, NEW dir
  PROVE  \E e : Segments(block, dir, e)
<1> DEFINE Go(X) == {x + dir * 4 * p : x \in X, p \in Periods}
           From(E) == UNION {Found(dir, est) : est \in E}
           e1 == Go({4 * (4 + block) * ENH_BLOCKL})
           e2 == Go(From(e1))
           e3 == Go(From(e2))
           e == [q \in 1 .. 3 |-> IF q = 1 THEN e1 ELSE IF q = 2 THEN e2 ELSE e3]
<1> HIDE DEF Go, From
<1>1. e[1] = e1 /\ e[2] = Go(From(e[1])) /\ e[3] = Go(From(e[2]))
  BY DEF e1, e2, e3
<1>2. e = [q \in 1 .. 3 |-> e[q]]
  OBVIOUS
<1>3. \A q \in 1 .. 3 : e[q] = Go(IF q = 1 THEN {4 * (4 + block) * ENH_BLOCKL} ELSE From(e[q - 1]))
  <2>1. TAKE q \in 1 .. 3
  <2>2. q = 1 \/ q = 2 \/ q = 3
    OBVIOUS
  <2> HIDE DEF e
  <2>3. CASE q = 1
    BY <1>1, <2>3 DEF e1
  <2>4. CASE q = 2
    BY <1>1, <2>4
  <2>5. CASE q = 3
    BY <1>1, <2>5
  <2>6. QED  BY <2>2, <2>3, <2>4, <2>5
<1> HIDE DEF e
<1>4. e = [q \in 1 .. 3 |-> Go(IF q = 1 THEN {4 * (4 + block) * ENH_BLOCKL} ELSE From(e[q - 1]))]
  BY <1>2, <1>3
<1>5. Segments(block, dir, e)
  BY <1>4 DEF Segments, Go, From, ENH_HL
<1>6. QED  BY <1>5

(* Every estimate that getsseq refines is where the search is in the buffer. *)
LEMMA EstimateRange ==
  ASSUME NEW block \in 0 .. ENH_NBLOCKS - 1, NEW dir \in {-1, 1}, NEW est \in Estimates(block, dir)
  PROVE  Refinable(est)
<1> DEFINE e == CHOOSE f : Segments(block, dir, f)
<1>1. Segments(block, dir, e)
  BY SegmentsExist
<1>2. est \in UNION {e[q] : q \in 1 .. 3} /\ Refines(dir, est)
  BY DEF Estimates, Segments, ENH_HL
<1> HIDE DEF e
<1>3. \A q \in 1 .. 3 : e[q] = {x + dir * 4 * p :
            x \in (IF q = 1 THEN {4 * (4 + block) * 80}
                   ELSE UNION {Found(dir, d) : d \in e[q - 1]}),
            p \in Periods}
  BY <1>1 DEF Segments, ENH_HL, ENH_BLOCKL
<1>4. \A d \in e[1] : Limit(dir, d)
  <2>1. TAKE d \in e[1]
  <2>2. PICK p \in Periods : d = 4 * (4 + block) * 80 + dir * 4 * p
    BY <1>3
  <2>3. QED  BY <2>2, PeriodRange DEF Limit, ENH_NBLOCKS
<1>5. ASSUME NEW q \in 2 .. 3, \A d \in e[q - 1] : Limit(dir, d), NEW d \in e[q]
      PROVE  Limit(dir, d)
  <2>1. PICK x \in UNION {Found(dir, f) : f \in e[q - 1]}, p \in Periods : d = x + dir * 4 * p
    BY <1>3
  <2>2. PICK f \in e[q - 1] : x \in Found(dir, f)
    BY <2>1
  <2>3. QED  BY <1>5, <2>1, <2>2, NextSegment
<1>6. \A d \in e[2] : Limit(dir, d)
  BY <1>4, <1>5
<1>7. \A d \in e[3] : Limit(dir, d)
  BY <1>5, <1>6
<1>8. PICK q \in 1 .. 3 : est \in e[q]
  BY <1>2
<1>9. Limit(dir, est)
  <2>1. q = 1 \/ q = 2 \/ q = 3
    OBVIOUS
  <2>2. QED  BY <1>4, <1>6, <1>7, <1>8, <2>1
<1>10. QED  BY <1>2, <1>9, RefinedRange

-----------------------------------------------------------------------------
(* The enhancer *)

(* enh_upsample, for the two lengths that a search has.                    *)
LEMMA UpsampleInside ==
  ASSUME NEW dim \in {4, 5}
  PROVE  Inside(enh_upsample(dim))
<1> DEFINE U == {Use("corrVec", 0, 4, 5), Use("corrVec", dim - 4, dim - 1, 5),
                 Use("polyphaserTbl", 0, 26, 28), Use("corrVecUps", 0, 19, 20),
                 Use("corrVecUps", 0, 4 * dim - 1, 20)}
<1>1. enh_upsample(dim) = U
  <2>1. CASE dim = 4
    BY <2>1 DEF enh_upsample, ENH_FL0, ENH_UPS0, ENH_CORRDIM, ENH_SLOP
  <2>2. CASE dim = 5
    BY <2>2 DEF enh_upsample, ENH_FL0, ENH_UPS0, ENH_CORRDIM, ENH_SLOP
  <2>3. QED  BY <2>1, <2>2
<1>2. Inside(U)
  BY DEF Inside, IsUse, Use
<1>3. QED  BY <1>1, <1>2

(* refiner reads its search and copies a segment of it.                    *)
LEMMA RefinerInside ==
  ASSUME NEW est, Refinable(est)
  PROVE  Inside(RefinerUse(refiner(est)))
<1> DEFINE w == refiner(est)
<1>1. w.first \in 0 .. 555 /\ w.last \in 3 .. 559 /\ corrdim(w) \in {4, 5}
  BY RefinerRange DEF Searchable
<1> HIDE DEF w
<1>2. Inside({Use("enh_buf", w.first, w.last + ENH_BLOCKL - 1, ENH_BUFL)})
  <2> DEFINE lo == w.first
             hi == w.last + 79
  <2>1. lo \in 0 .. 555 /\ hi \in 82 .. 638
    BY <1>1
  <2> HIDE DEF lo, hi
  <2>2. Inside({Use("enh_buf", lo, hi, 640)})
    BY <2>1 DEF Inside, IsUse, Use
  <2>3. w.last + ENH_BLOCKL - 1 = hi /\ ENH_BUFL = 640
    BY <1>1 DEF ENH_BLOCKL, ENH_BUFL, hi
  <2>4. QED  BY <2>2, <2>3 DEF lo
<1>3. Inside(enh_upsample(corrdim(w)))
  BY <1>1, UpsampleInside
<1>4. \A tloc2 \in 0 .. corrdim(w) : Inside(CopyVect(w.first + tloc2 - ENH_FL0))
  <2>1. TAKE tloc2 \in 0 .. corrdim(w)
  <2> DEFINE st == w.first + tloc2 - ENH_FL0
  <2>2. st \in -3 .. 557
    BY <1>1 DEF ENH_FL0
  <2> HIDE DEF st
  <2>3. CopyVect(st) = {Use("enh_buf", IF st < 0 THEN 0 ELSE st,
                            (IF st + 86 > 640 THEN 640 ELSE st + 86) - 1, 640)}
    BY DEF CopyVect, ENH_VECTL, ENH_BLOCKL, ENH_FL0, ENH_BUFL
  <2>4. Inside(CopyVect(st))
    BY <2>2, <2>3 DEF Inside, IsUse, Use
  <2>5. QED  BY <2>4 DEF st
<1>5. QED  BY <1>2, <1>3, <1>4 DEF RefinerUse, Inside, w

(* getsseq follows the chains of all blocks to both sides.                 *)
LEMMA GetsseqInBounds == InBounds(getsseq)
<1> DEFINE E == UNION {Estimates(block, dir) : block \in 0 .. ENH_NBLOCKS - 1, dir \in {-1, 1}}
           W == {refiner(est) : est \in E}
           A == UNION {RefinerUse(w) : w \in W}
<1>1. \A est \in E : Refinable(est)
  BY EstimateRange
<1> HIDE DEF E
<1>2. \A w \in W : Inside(RefinerUse(w))
  BY <1>1, RefinerInside
<1> HIDE DEF W
<1>3. Inside(A)
  BY <1>2 DEF Inside
<1> HIDE DEF A
<1>4. InBounds(Hull(A))
  BY <1>3, HullInBounds
<1>5. QED  BY <1>4 DEF getsseq, A, W, E

(* The block that is smoothed after a bad frame.                           *)
LEMMA SmoothInBounds == InBounds(Smooth)
<1> DEFINE Lag(lag) == LET start == IF lag > ENH_BLOCKL THEN ENH_BLOCKL ELSE lag
                       IN  {Use("decresidual", lag - start, lag - 1, BLOCKL),
                            Use("enh_buf", 400 - start, 399, ENH_BUFL),
                            Use("enh_buf", 400 - start - (ENH_BLOCKL - lag), 399 - start, ENH_BUFL)}
           A == {Use("decresidual", 0, 119 + ENH_BLOCKL - 1, BLOCKL)}
                  \cup UNION {Lag(lag) : lag \in 20 .. 119}
<1>1. \A lag \in 20 .. 119 : Inside(Lag(lag))
  BY DEF Inside, IsUse, Use, ENH_BLOCKL, ENH_BUFL, BLOCKL
<1>2. Inside({Use("decresidual", 0, 119 + ENH_BLOCKL - 1, BLOCKL)})
  BY DEF Inside, IsUse, Use, ENH_BLOCKL, BLOCKL
<1> HIDE DEF Lag
<1>3. Inside(A)
  BY <1>1, <1>2 DEF Inside
<1> HIDE DEF A
<1>4. InBounds(Hull(A))
  BY <1>3, HullInBounds
<1>5. QED  BY <1>4 DEF Smooth, A, Lag

(* enhancerInterface as a whole.                                           *)
LEMMA EnhancerInBounds == InBounds(enhancerInterface)
<1>1. InBounds(DownSample(ENH_NBLOCKS * ENH_BLOCKL + 120))
  <2>1. ((360 - 3 + 1) \div 2) + 1 = 180 /\ ENH_NBLOCKS * ENH_BLOCKL + 120 = 360
    BY DEF ENH_NBLOCKS, ENH_BLOCKL
  <2>2. QED  BY <2>1 DEF DownSample, InBounds, Use, ENH_BUFL
<1>2. QED  BY <1>1, SmoothInBounds, GetsseqInBounds DEF enhancerInterface, InBounds

-----------------------------------------------------------------------------
(* Frames *)

DecInv ==
  /\ last_lag \in 20 .. 118 /\ prevLag \in 17 .. 121
  /\ prevGain \in {"low", "high", "unset"}
  /\ consPLICount \in Nat /\ prevPLI \in {0, 1}
  /\ DecoderInBounds

(* The lag that a frame begins with, and that it gives to the next one.    *)
LEMMA LagRange ==
  ASSUME DecInv, NEW PLI \in {0, 1}, NEW lag, NEW gain, <<lag, gain>> \in LagAndGain(PLI)
  PROVE  /\ lag \in 17 .. 121 /\ gain \in {"low", "high", "unset"}
         /\ PLI = 1 => gain # "unset"
<1>1. CASE prevPLI = 1
  BY <1>1 DEF DecInv, DecoderInBounds, LagAndGain
<1>2. CASE prevPLI # 1 /\ PLI = 1
  <2>1. lag \in last_lag - 3 .. last_lag + 3 /\ gain \in {"low", "high"}
    BY <1>2 DEF LagAndGain
  <2>2. QED  BY <2>1 DEF DecInv
<1>3. CASE prevPLI # 1 /\ PLI = 0
  BY <1>3 DEF LagAndGain
<1>4. QED  BY <1>1, <1>2, <1>3

(* The concealment of a bad frame, and the merge of a good one with it.    *)
LEMMA PLCInBounds ==
  ASSUME DecInv, NEW PLI \in {0, 1}, NEW lag \in 17 .. 121, NEW gain
  PROVE  InBounds(PLCUse(PLI, lag, gain))
<1>1. \A l \in last_lag - 3 .. last_lag + 3 : InBounds(compCorr(l))
  BY DEF DecInv, InBounds, compCorr, Use, BLOCKL
<1>2. InBounds(Repeat(lag, BLOCKL)) /\ InBounds(Repeat(lag, 3 * SUBL))
  BY DEF InBounds, Repeat, Use, BLOCKL, SUBL
<1>3. InBounds(UNION {compCorr(l) : l \in last_lag - 3 .. last_lag + 3})
  BY <1>1 DEF InBounds
<1>4. QED  BY <1>2, <1>3 DEF PLCUse, InBounds

(* A frame, good or bad.                                                   *)
LEMMA FrameDecoded ==
  ASSUME DecInv, NEW PLI \in {0, 1}, iLBC_decode(PLI)
  PROVE  DecInv'
<1>1. PICK lag, gain : /\ doThePLC(PLI, lag, gain)
                       /\ access' = PLCUse(PLI, lag, gain) \cup enhancerInterface
                       /\ last_lag' \in {2 * l : l \in PitchLags}
  BY DEF iLBC_decode
<1>2. /\ lag \in 17 .. 121 /\ gain \in {"low", "high", "unset"}
      /\ PLI = 1 => gain # "unset"
  BY <1>1, LagRange DEF doThePLC
<1>3. last_lag' \in 20 .. 118
  BY <1>1, ConcealmentAssumption
<1>4. prevLag' \in 17 .. 121 /\ prevPLI' = PLI
  BY <1>1, <1>2 DEF doThePLC
<1>5. prevGain' \in {"low", "high", "unset"} /\ (PLI = 1 => prevGain' # "unset")
  BY <1>1, <1>2 DEF doThePLC
<1>6. consPLICount' \in Nat /\ (PLI = 1 <=> consPLICount' > 0)
  <2>1. consPLICount \in Nat /\ (prevPLI # 1 => consPLICount = 0)
    BY DEF DecInv, DecoderInBounds
  <2>2. {consPLICount + 1, 2} \in SUBSET Nat
    BY <2>1
  <2>3. Min({consPLICount + 1, 2}) \in {consPLICount + 1, 2}
    BY <2>2, LeastNat
  <2>4. consPLICount' = IF PLI = 1 THEN Min({consPLICount + 1, 2})
                        ELSE IF prevPLI = 1 THEN 0 ELSE consPLICount
    BY <1>1 DEF doThePLC
  <2>5. CASE PLI = 1
    BY <2>1, <2>3, <2>4, <2>5
  <2>6. CASE PLI = 0
    BY <2>1, <2>4, <2>6
  <2>7. QED  BY <2>5, <2>6
<1>7. \A u \in access' : u.lo >= 0 /\ u.hi < u.size
  BY <1>1, <1>2, PLCInBounds, EnhancerInBounds DEF InBounds
<1>8. DecoderInBounds'
  BY <1>4, <1>5, <1>6, <1>7 DEF DecoderInBounds
<1>9. QED  BY <1>3, <1>4, <1>5, <1>6, <1>8 DEF DecInv

(* The decoder of iLBC stays inside its buffers, whatever frames are bad   *)
(* and whatever lags and periods its searches find: doThePLC reads         *)
(* prevResidual a lag back that an earlier frame stored, and getsseq       *)
(* follows a chain of segments, each estimated from where the one before   *)
(* was found.  The gain that a good frame stores without having set it is  *)
(* not used, and consPLICount counts consecutive bad frames.               *)
THEOREM DecoderStaysInBounds == DecSpec => []DecoderInBounds
<1>1. initDecode => DecInv
  BY DEF initDecode, DecInv, DecoderInBounds
<1>2. DecInv /\ [DecNext]_decVars => DecInv'
  <2>1. CASE DecNext
    BY <2>1, FrameDecoded DEF DecNext
  <2>2. CASE UNCHANGED decVars
    BY <2>2 DEF decVars, DecInv, DecoderInBounds
  <2>3. QED  BY <2>1, <2>2
<1>3. DecInv => DecoderInBounds
  BY DEF DecInv
<1>4. QED  BY <1>1, <1>2, <1>3, PTL DEF DecSpec
=============================================================================
