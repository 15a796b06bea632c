-------------------------------- MODULE Codebook --------------------------------
(***************************************************************************)
(* The codebook search of iLBC (iCBSearch.c, createCB.c) and the decoder's *)
(* construction of the vector that was found (getCBvec.c).  The vectors of *)
(* a codebook are pieces of a memory of lMem samples: as they are, with a  *)
(* short lag interpolated, filtered, or filtered and interpolated.         *)
(*                                                                         *)
(* Measures are floating-point numbers; here any index that is searched    *)
(* may be the best.  A sample of a vector is a sequence of terms: a weight *)
(* in fifths, a position in the memory or in the filtered memory, and the  *)
(* samples of the memory (-1: a zero beside it) that this one is made of.  *)
(* Block 0 is the adaptive part of the start state, the sub-blocks are 1   *)
(* to NASUB.                                                               *)
(***************************************************************************)
EXTENDS ILBC

CB_FILTERLEN == 8
CB_HALFFILTERLEN == 4
CB_RESRANGE == 34

\* By block and stage, from 0.
search_rangeTbl(block, stage) ==
  CASE block = 0 -> 58 [] block = 1 /\ stage > 0 -> 44 [] OTHER -> 108
cb_bitsTbl(block, stage) == IF block = 0 \/ (block = 1 /\ stage > 0) THEN 7 ELSE 8

lMem(block) == IF block = 0 THEN stMemLTbl ELSE memLfTbl
lTarget(block) == IF block = 0 THEN diff ELSE SUBL
base_size(block) ==
  lMem(block) - lTarget(block) + 1 + (IF lTarget(block) = SUBL THEN SUBL \div 2 ELSE 0)

-----------------------------------------------------------------------------
(* Samples *)

In(x, lm) == IF x \in 0 .. lm - 1 THEN x ELSE -1

\* The memory and the memory filtered, at k.
Plain(k) == [at |-> k, of |-> <<k>>]
filteredCBvecs(k, lm) ==
  [at |-> k,
   of |-> [j \in 1 .. CB_FILTERLEN |-> In(k + (j - 1) - (CB_HALFFILTERLEN - 1), lm)]]

Term(w, s) == <<w, s.at, s.of>>
One(s) == <<Term(5, s)>>
\* (1 - alfa) * s + alfa * t
Mix(alfa, s, t) == IF alfa = 0 THEN One(s) ELSE <<Term(5 - alfa, s), Term(alfa, t)>>

\* What the encoder has at offset x of a buffer, filtered or not.
At(block, filtered, x) ==
  IF filtered THEN filteredCBvecs(x, lMem(block)) ELSE Plain(x)

-----------------------------------------------------------------------------
(* The search *)

\* The indexes of a full search of the first section.
FirstSection(block, stage) ==
  (0 .. search_rangeTbl(block, stage) - 1)
  \cup (IF lTarget(block) = SUBL
        THEN base_size(block) - 20 .. base_size(block) - 1 ELSE {})

\* Mutant: the window is not moved back from the end of the range.
WindowOverruns(block, stage, base_index) ==
  LET s == base_index - CB_RESRANGE \div 2
  IN  IF s < 0 THEN [s |-> 0, e |-> s + CB_RESRANGE, sAug |-> 40 + s, eAug |-> 39]
      ELSE [s |-> s, e |-> s + CB_RESRANGE, sAug |-> 0, eAug |-> 0]

\* Where the filtered section is searched around the best index of the first:
\* plain vectors from s to e - 1, interpolated ones with lags sAug to eAug.
Window(block, stage, base_index) ==
  LET range == search_rangeTbl(block, stage)
      aug   == base_size(block) - 20   \* first index of an interpolated vector
      s     == base_index - CB_RESRANGE \div 2
      e     == s + CB_RESRANGE
      Back(e1, s1) == IF e1 > range THEN [s |-> s1 - (e1 - range), e |-> range,
                                          sAug |-> 0, eAug |-> 0]
                      ELSE [s |-> s1, e |-> e1, sAug |-> 0, eAug |-> 0]
  IN  IF lTarget(block) # SUBL
      THEN IF s < 0 THEN Back(e - s, 0) ELSE Back(e, s)
      ELSE CASE s < 0 -> [s |-> 0, e |-> e, sAug |-> 40 + s, eAug |-> 39]
             [] s >= 0 /\ base_index < aug -> Back(e, s)
             [] base_index >= aug /\ s < aug ->
                  [s |-> 0, e |-> 19 + CB_RESRANGE - 39, sAug |-> 20, eAug |-> 39]
             [] s >= aug -> [s |-> 0, e |-> CB_RESRANGE - (aug + 20 - s),
                             sAug |-> 20 + s - aug, eAug |-> 39]

\* The indexes of the filtered section that are searched in the window.
HigherSection(block, w) ==
  LET bs == base_size(block)
  IN  (bs + w.s .. bs + w.e - 1)
      \cup (IF lTarget(block) = SUBL /\ w.sAug # 0
            THEN 2 * bs - 40 + w.sAug .. 2 * bs - 40 + w.eAug ELSE {})

\* All indexes that one stage may find.
iCBSearch(block, stage) ==
  FirstSection(block, stage)
  \cup UNION {HigherSection(block, Window(block, stage, b)) : b \in FirstSection(block, stage)}

\* The energies that later stages take from the first one.
energy(block) ==
  (0 .. search_rangeTbl(block, 0) - 1)
  \cup (base_size(block) .. base_size(block) + search_rangeTbl(block, 0) - 1)

Interpolated(block, index) ==
  lTarget(block) = SUBL /\ index % base_size(block) >= base_size(block) - 20

\* An interpolated vector as searchAugmentedCB compares it to the target.
searchAugmentedCB(block, filtered, lag) ==
  LET B(x) == At(block, filtered, lMem(block) + x)
  IN  [j \in 0 .. SUBL - 1 |->
         IF j < lag - 4 THEN One(B(-lag + j))
         ELSE IF j < lag THEN Mix(j - (lag - 4) + 1, B(-4 + j - (lag - 4)),
                                  B(-lag - 4 + j - (lag - 4)))
         ELSE One(B(-lag + j - lag))]

\* The vector that was compared for an index.
SearchedVec(block, index) ==
  LET bs       == base_size(block)
      filtered == index >= bs
  IN  IF Interpolated(block, index)
      THEN searchAugmentedCB(block, filtered, (index % bs) - bs + 40)
      ELSE [j \in 0 .. lTarget(block) - 1 |->
              One(At(block, filtered,
                     lMem(block) - lTarget(block) - (index % bs) + j))]

createAugmentedVec(block, filtered, index) ==
  LET B(x) == At(block, filtered, lMem(block) + x)
      ilow == index - 5
  IN  [j \in 0 .. SUBL - 1 |->
         IF j < ilow THEN One(B(-index + j))
         ELSE IF j < index THEN Mix(j - ilow, B(-5 + j - ilow), B(-index - 5 + j - ilow))
         ELSE One(B(-index + j - index))]

\* The vector that the encoder takes from the target for the next stage.
ExtractedVec(block, index) ==
  LET bs       == base_size(block)
      filterno == index \div bs
      lag_val  == index - filterno * bs
      filtered == filterno > 0
  IN  IF lTarget(block) = SUBL /\ lag_val >= bs - 20
      THEN createAugmentedVec(block, filtered, index - (filterno + 1) * bs + 40)
      ELSE [j \in 0 .. lTarget(block) - 1 |->
              One(At(block, filtered, lMem(block) - lTarget(block) - lag_val + j))]

-----------------------------------------------------------------------------
(* The decoder *)

\* The filter, run from sFilt on a copy of the memory between zeros.
DecoderFiltered(sFilt, n, lm) ==
  LET memInd == sFilt + 1 - CB_HALFFILTERLEN
  IN  [at |-> sFilt + n,
       of |-> [j \in 1 .. CB_FILTERLEN |-> In(memInd + n + (j - 1), lm)]]

getCBvec(index, lm, cbveclen) ==
  LET n    == lm - cbveclen + 1
      base == n + (IF cbveclen = SUBL THEN cbveclen \div 2 ELSE 0)
      filtered == index >= base
      i    == IF filtered THEN index - base ELSE index
      k    == IF i < n THEN i + cbveclen ELSE 2 * (i - n) + cbveclen
      B(x) == IF filtered THEN DecoderFiltered(lm - k, x - (lm - k), lm) ELSE Plain(x)
      ihigh == k \div 2
      ilow  == ihigh - 5
  IN  [j \in 0 .. cbveclen - 1 |->
         IF i < n THEN One(B(lm - k + j))
         ELSE IF j < ilow THEN One(B(lm - ihigh + j))
         ELSE IF j < ihigh THEN Mix(j - ilow, B(lm - ihigh + j), B(lm - k + j))
         ELSE One(B(lm - k + j))]
=============================================================================
