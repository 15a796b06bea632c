--------------------------- MODULE Eventloop_proofs ---------------------------
(***************************************************************************)
(* Proofs about the event loop for every set of descriptors and callbacks, *)
(* and every number of events, calls and clock values.                     *)
(***************************************************************************)
EXTENDS Eventloop, SequenceTheorems, WellFoundedInduction, NaturalsInduction, TLAPS

-----------------------------------------------------------------------------
(* Lists *)

(* A non-empty set of natural numbers has a least element: the CHOOSE of   *)
(* InsertPosition and WithoutFirst picks the element the walk over the     *)
(* list meets first.                                                       *)
LEMMA LeastExists ==
  ASSUME NEW m \in SUBSET Nat, m # {}
  PROVE  \E i \in m : \A j \in m : i <= j
<1>1. PICK i \in m : \A j \in m : ~(<<j, i>> \in OpToRel(<, Nat))
  BY NatLessThanWellFounded, WFMin
<1>2. \A j \in m : ~(j < i)
  BY <1>1 DEF OpToRel
<1>3. QED  BY <1>2

(* What a list holds after an insertion, place by place.                   *)
LEMMA InsertAtProperties ==
  ASSUME NEW S, NEW s \in Seq(S), NEW i \in 1 .. Len(s) + 1, NEW e \in S
  PROVE  /\ InsertAt(s, i, e) \in Seq(S)
         /\ Len(InsertAt(s, i, e)) = Len(s) + 1
         /\ \A j \in 1 .. Len(s) + 1 : InsertAt(s, i, e)[j] =
              IF j < i THEN s[j] ELSE IF j = i THEN e ELSE s[j - 1]
<1> DEFINE a == SubSeq(s, 1, i - 1)
           b == SubSeq(s, i, Len(s))
<1>1. Len(s) \in Nat /\ \A j \in 1 .. Len(s) : s[j] \in S
  BY LenProperties, ElementOfSeq
<1>2. /\ a \in Seq(S) /\ Len(a) = i - 1
      /\ \A j \in 1 .. i - 1 : a[j] = s[j]
  <2>1. \A j \in 1 .. i - 1 : s[j] \in S
    BY <1>1
  <2>2. 1 \in Int /\ i - 1 \in Int
    OBVIOUS
  <2>3. /\ a \in Seq(S) /\ Len(a) = (IF 1 <= i - 1 THEN i - 1 - 1 + 1 ELSE 0)
        /\ \A j \in 1 .. i - 1 - 1 + 1 : a[j] = s[1 + j - 1]
    BY <2>1, <2>2, SubSeqProperties
  <2>4. QED  BY <1>1, <2>3
<1>3. /\ b \in Seq(S) /\ Len(b) = Len(s) - i + 1
      /\ \A j \in 1 .. Len(s) - i + 1 : b[j] = s[i + j - 1]
  <2>1. \A j \in i .. Len(s) : s[j] \in S
    BY <1>1
  <2>2. i \in Int /\ Len(s) \in Int
    BY <1>1
  <2>3. /\ b \in Seq(S) /\ Len(b) = (IF i <= Len(s) THEN Len(s) - i + 1 ELSE 0)
        /\ \A j \in 1 .. Len(s) - i + 1 : b[j] = s[i + j - 1]
    BY <2>1, <2>2, SubSeqProperties
  <2>4. QED  BY <1>1, <2>3
<1>4. <<e>> \in Seq(S) /\ Len(<<e>>) = 1 /\ <<e>>[1] = e
  OBVIOUS
<1> HIDE DEF a, b
<1>5. /\ a \o <<e>> \in Seq(S) /\ Len(a \o <<e>>) = i
      /\ \A j \in 1 .. i : (a \o <<e>>)[j] = IF j < i THEN s[j] ELSE e
  <2>1. /\ a \o <<e>> \in Seq(S) /\ Len(a \o <<e>>) = Len(a) + Len(<<e>>)
        /\ \A j \in 1 .. Len(a) + Len(<<e>>) : (a \o <<e>>)[j] =
             IF j <= Len(a) THEN a[j] ELSE <<e>>[j - Len(a)]
    BY <1>2, <1>4, ConcatProperties
  <2>2. QED  BY <1>1, <1>2, <1>4, <2>1
<1> DEFINE c == a \o <<e>>
<1>6. c \in Seq(S) /\ Len(c) = i /\ \A j \in 1 .. i : c[j] = IF j < i THEN s[j] ELSE e
  BY <1>5 DEF c
<1> HIDE DEF c
<1>7. /\ c \o b \in Seq(S) /\ Len(c \o b) = Len(c) + Len(b)
      /\ \A j \in 1 .. Len(c) + Len(b) : (c \o b)[j] =
           IF j <= Len(c) THEN c[j] ELSE b[j - Len(c)]
  BY <1>3, <1>6, ConcatProperties
<1>8. \A j \in 1 .. Len(s) + 1 : (c \o b)[j] =
              IF j < i THEN s[j] ELSE IF j = i THEN e ELSE s[j - 1]
  BY <1>1, <1>3, <1>7, <1>6
<1>9. InsertAt(s, i, e) = c \o b
  BY DEF InsertAt, a, b, c
<1>10. QED  BY <1>1, <1>3, <1>7, <1>6, <1>8, <1>9

(* What a list holds after a removal, place by place.                      *)
LEMMA RemoveAtProperties ==
  ASSUME NEW S, NEW s \in Seq(S), NEW i \in 1 .. Len(s)
  PROVE  /\ RemoveAt(s, i) \in Seq(S)
         /\ Len(RemoveAt(s, i)) = Len(s) - 1
         /\ \A j \in 1 .. Len(s) - 1 : RemoveAt(s, i)[j] =
              IF j < i THEN s[j] ELSE s[j + 1]
<1> DEFINE a == SubSeq(s, 1, i - 1)
           b == SubSeq(s, i + 1, Len(s))
<1>1. Len(s) \in Nat /\ \A j \in 1 .. Len(s) : s[j] \in S
  BY LenProperties, ElementOfSeq
<1>2. /\ a \in Seq(S) /\ Len(a) = i - 1
      /\ \A j \in 1 .. i - 1 : a[j] = s[j]
  <2>1. \A j \in 1 .. i - 1 : s[j] \in S
    BY <1>1
  <2>2. 1 \in Int /\ i - 1 \in Int
    OBVIOUS
  <2>3. /\ a \in Seq(S) /\ Len(a) = (IF 1 <= i - 1 THEN i - 1 - 1 + 1 ELSE 0)
        /\ \A j \in 1 .. i - 1 - 1 + 1 : a[j] = s[1 + j - 1]
    BY <2>1, <2>2, SubSeqProperties
  <2>4. QED  BY <1>1, <2>3
<1>3. /\ b \in Seq(S) /\ Len(b) = Len(s) - i
      /\ \A j \in 1 .. Len(s) - i : b[j] = s[i + j]
  <2>1. \A j \in i + 1 .. Len(s) : s[j] \in S
    BY <1>1
  <2>2. i + 1 \in Int /\ Len(s) \in Int
    BY <1>1
  <2>3. /\ b \in Seq(S)
        /\ Len(b) = (IF i + 1 <= Len(s) THEN Len(s) - (i + 1) + 1 ELSE 0)
        /\ \A j \in 1 .. Len(s) - (i + 1) + 1 : b[j] = s[i + 1 + j - 1]
    BY <2>1, <2>2, SubSeqProperties
  <2>4. QED  BY <1>1, <2>3
<1> HIDE DEF a, b
<1>4. /\ a \o b \in Seq(S) /\ Len(a \o b) = Len(a) + Len(b)
      /\ \A j \in 1 .. Len(a) + Len(b) : (a \o b)[j] =
           IF j <= Len(a) THEN a[j] ELSE b[j - Len(a)]
  BY <1>2, <1>3, ConcatProperties
<1>5. RemoveAt(s, i) = a \o b
  BY DEF RemoveAt, a, b
<1>6. ASSUME NEW j \in 1 .. Len(s) - 1
      PROVE  (a \o b)[j] = IF j < i THEN s[j] ELSE s[j + 1]
  <2>1. (a \o b)[j] = IF j <= Len(a) THEN a[j] ELSE b[j - Len(a)]
    BY <1>1, <1>2, <1>3, <1>4
  <2>2. CASE j < i
    BY <1>2, <2>1, <2>2
  <2>3. CASE ~(j < i)
    <3>1. j - (i - 1) \in 1 .. Len(s) - i /\ i + (j - (i - 1)) = j + 1
      BY <1>1, <2>3
    <3>2. b[j - (i - 1)] = s[j + 1]
      BY <1>3, <3>1
    <3>3. QED  BY <1>1, <1>2, <2>1, <2>3, <3>2
  <2>4. QED  BY <2>2, <2>3
<1>7. Len(a \o b) = Len(s) - 1
  BY <1>1, <1>2, <1>3, <1>4
<1>8. QED  BY <1>4, <1>5, <1>6, <1>7

(* The walk over a list removes at most one place i of m, and the places   *)
(* after it move up by one.                                                *)
LEMMA WithoutFirstProperties ==
  ASSUME NEW S, NEW s \in Seq(S), NEW m \in SUBSET (DOMAIN s)
  PROVE  /\ WithoutFirst(s, m) \in Seq(S)
         /\ \/ m = {} /\ WithoutFirst(s, m) = s
            \/ \E i \in m :
                 /\ DOMAIN WithoutFirst(s, m) = 1 .. Len(s) - 1
                 /\ \A j \in 1 .. Len(s) - 1 : WithoutFirst(s, m)[j] =
                      IF j < i THEN s[j] ELSE s[j + 1]
<1>1. CASE m = {}
  BY <1>1 DEF WithoutFirst
<1>2. CASE m # {}
  <2> DEFINE i == CHOOSE i \in m : \A j \in m : i <= j
  <2>1. DOMAIN s = 1 .. Len(s) /\ m \in SUBSET Nat
    BY LenProperties
  <2>2. i \in m
    BY <1>2, <2>1, LeastExists
  <2>3. WithoutFirst(s, m) = RemoveAt(s, i)
    BY <1>2 DEF WithoutFirst
  <2> HIDE DEF i
  <2>4. i \in 1 .. Len(s)
    BY <2>1, <2>2
  <2>5. /\ RemoveAt(s, i) \in Seq(S) /\ Len(RemoveAt(s, i)) = Len(s) - 1
        /\ \A j \in 1 .. Len(s) - 1 : RemoveAt(s, i)[j] =
             IF j < i THEN s[j] ELSE s[j + 1]
    BY <2>4, RemoveAtProperties
  <2>6. DOMAIN RemoveAt(s, i) = 1 .. Len(s) - 1
    BY <2>5, LenProperties
  <2>7. QED  BY <1>2, <2>2, <2>3, <2>5, <2>6
<1>3. QED  BY <1>1, <1>2

(* What is left of a list after a removal is in the order it had, and      *)
(* everything outside m is left.                                           *)
LEMMA WithoutFirstKeepsOrder ==
  ASSUME NEW S, NEW s \in Seq(S), NEW m \in SUBSET (DOMAIN s)
  PROVE  LET t == WithoutFirst(s, m) IN
         /\ \A j \in DOMAIN t : \E k \in DOMAIN s : t[j] = s[k]
         /\ \A j1, j2 \in DOMAIN t : j1 < j2 =>
              \E k1, k2 \in DOMAIN s : k1 < k2 /\ t[j1] = s[k1] /\ t[j2] = s[k2]
         /\ \A k \in (DOMAIN s) \ m : \E j \in DOMAIN t : t[j] = s[k]
<1> DEFINE t == WithoutFirst(s, m)
<1>1. Len(s) \in Nat /\ DOMAIN s = 1 .. Len(s)
  BY LenProperties
<1>2. \/ m = {} /\ t = s
      \/ \E i \in m : /\ DOMAIN t = 1 .. Len(s) - 1
                      /\ \A j \in 1 .. Len(s) - 1 : t[j] =
                           IF j < i THEN s[j] ELSE s[j + 1]
  BY WithoutFirstProperties
<1> HIDE DEF t
<1>3. CASE m = {} /\ t = s
  BY <1>3 DEF t
<1>4. ASSUME NEW i \in m, DOMAIN t = 1 .. Len(s) - 1,
             \A j \in 1 .. Len(s) - 1 : t[j] = IF j < i THEN s[j] ELSE s[j + 1]
      PROVE  /\ \A j \in DOMAIN t : \E k \in DOMAIN s : t[j] = s[k]
             /\ \A j1, j2 \in DOMAIN t : j1 < j2 =>
                  \E k1, k2 \in DOMAIN s : k1 < k2 /\ t[j1] = s[k1] /\ t[j2] = s[k2]
             /\ \A k \in (DOMAIN s) \ m : \E j \in DOMAIN t : t[j] = s[k]
  <2> DEFINE g(j) == IF j < i THEN j ELSE j + 1
  <2>1. i \in 1 .. Len(s)
    BY <1>1
  <2>2. \A j \in DOMAIN t : g(j) \in DOMAIN s /\ t[j] = s[g(j)]
    BY <1>1, <1>4, <2>1
  <2>3. \A j1, j2 \in DOMAIN t : j1 < j2 => g(j1) < g(j2)
    BY <1>1, <1>4, <2>1
  <2>4. ASSUME NEW k \in (DOMAIN s) \ m
        PROVE  \E j \in DOMAIN t : g(j) = k
    <3>1. k # i /\ k \in 1 .. Len(s)
      BY <1>1
    <3>2. CASE k < i
      <4>1. k \in DOMAIN t /\ g(k) = k
        BY <1>1, <1>4, <2>1, <3>1, <3>2
      <4>2. QED  BY <4>1
    <3>3. CASE k > i
      <4>1. k - 1 \in DOMAIN t /\ g(k - 1) = k
        BY <1>1, <1>4, <2>1, <3>1, <3>3
      <4>2. QED  BY <4>1
    <3>4. QED  BY <2>1, <3>1, <3>2, <3>3
  <2> HIDE DEF g
  <2>5. QED  BY <2>2, <2>3, <2>4
<1>5. QED  BY <1>2, <1>3, <1>4 DEF t

-----------------------------------------------------------------------------
(* The inductive invariant *)

TypeOK ==
  /\ ee \in Seq(FdEvent) /\ ee_timers \in Seq(TimeEvent)
  /\ now \in 0 .. MaxTime
  /\ readable \subseteq Fds /\ fdset \subseteq Fds
  /\ e_next \in 0 .. MaxEvents
  /\ pc \in {"start", "loop", "dispatch", "fd_callback", "timer_callback", "left"}
  /\ ops \in 0 .. MaxOps /\ ids \in 0 .. MaxEvents
  /\ sphone_exit \in Nat
  /\ pc = "fd_callback" => cur \in FdEvent
  /\ pc = "timer_callback" => cur \in TimeEvent

\* An event that is registered now is younger than all registered ones.
IdsKnown ==
  /\ \A i \in DOMAIN ee : ee[i].id <= ids
  /\ \A i \in DOMAIN ee_timers : ee_timers[i].id <= ids

\* eventloop_reg_fd puts an event before all older ones, and a descriptor
\* has one event.
FdsOrdered ==
  \A i, j \in DOMAIN ee : i < j => ee[i].id > ee[j].id /\ ee[i].fd # ee[j].fd

\* The walk goes on with an event older than the one it calls.
NextOlder == pc = "fd_callback" => e_next < cur.id

\* What select returned is true of every event the walk has still to visit.
AnswerFresh ==
  pc \in {"dispatch", "fd_callback"} =>
    \A i \in DOMAIN ee : ee[i].id <= e_next /\ ee[i].fd \in fdset => ee[i].fd \in readable

\* The loop is left as soon as sphone_exit is set.
ExitLeaves == sphone_exit > 0 => pc = "left"

LoopInv ==
  /\ TypeOK /\ IdsKnown /\ FdsOrdered /\ TimersSorted
  /\ NextOlder /\ SavedNextLive /\ AnswerFresh /\ ExitLeaves

-----------------------------------------------------------------------------
(* One lemma per operation *)

(* What TypeOK says of a single event of the lists.                        *)
LEMMA EventTypes ==
  ASSUME TypeOK
  PROVE  /\ Len(ee) \in Nat /\ DOMAIN ee = 1 .. Len(ee)
         /\ Len(ee_timers) \in Nat /\ DOMAIN ee_timers = 1 .. Len(ee_timers)
         /\ \A i \in DOMAIN ee : /\ ee[i] \in FdEvent /\ ee[i].id \in Int
                                /\ ee[i].id \in 1 .. MaxEvents /\ ee[i].fd \in Fds
         /\ \A i \in DOMAIN ee_timers :
              /\ ee_timers[i] \in TimeEvent /\ ee_timers[i].id \in Int
              /\ ee_timers[i].time \in Int /\ ee_timers[i].time \in 0 .. MaxTime
<1>1. ee \in Seq(FdEvent) /\ ee_timers \in Seq(TimeEvent)
  BY DEF TypeOK
<1>2. /\ Len(ee) \in Nat /\ DOMAIN ee = 1 .. Len(ee)
      /\ Len(ee_timers) \in Nat /\ DOMAIN ee_timers = 1 .. Len(ee_timers)
  BY <1>1, LenProperties
<1>3. /\ \A i \in DOMAIN ee : ee[i] \in FdEvent
      /\ \A i \in DOMAIN ee_timers : ee_timers[i] \in TimeEvent
  BY <1>1, <1>2, ElementOfSeq
<1>4. QED  BY <1>2, <1>3 DEF FdEvent, TimeEvent

(* A registered timeout goes to the first place whose timeout is strictly  *)
(* later: all timeouts before it are due no later than the new one.        *)
LEMMA InsertPositionProperties ==
  ASSUME LoopInv, NEW time \in 0 .. MaxTime
  PROVE  /\ InsertPosition(time) \in 1 .. Len(ee_timers) + 1
         /\ \A i \in DOMAIN ee_timers : i < InsertPosition(time) => ee_timers[i].time <= time
         /\ \A i \in DOMAIN ee_timers : i >= InsertPosition(time) => time < ee_timers[i].time
<1> DEFINE later == {i \in DOMAIN ee_timers : time < ee_timers[i].time}
           p == CHOOSE i \in later : \A j \in later : i <= j
<1>1. Len(ee_timers) \in Nat /\ DOMAIN ee_timers = 1 .. Len(ee_timers)
  BY EventTypes DEF LoopInv
<1>2. \A i \in DOMAIN ee_timers : ee_timers[i].time \in 0 .. MaxTime
  BY EventTypes DEF LoopInv
<1>3. \A i, j \in DOMAIN ee_timers : i < j => ee_timers[i].time <= ee_timers[j].time
  BY <1>2, LoopAssumption DEF LoopInv, TimersSorted
<1>4. CASE later = {}
  <2>1. InsertPosition(time) = Len(ee_timers) + 1
    BY <1>4 DEF InsertPosition
  <2>2. \A i \in DOMAIN ee_timers : ~(time < ee_timers[i].time)
    BY <1>4
  <2>3. QED  BY <1>1, <1>2, <2>1, <2>2, LoopAssumption
<1>5. CASE later # {}
  <2>1. InsertPosition(time) = p
    BY <1>5 DEF InsertPosition
  <2>2. later \in SUBSET Nat
    BY <1>1
  <2>3. p \in later /\ \A j \in later : p <= j
    BY <1>5, <2>2, LeastExists
  <2> HIDE DEF p
  <2>4. p \in DOMAIN ee_timers /\ time < ee_timers[p].time
    BY <2>3
  <2>5. \A i \in DOMAIN ee_timers : i < p => ~(time < ee_timers[i].time)
    BY <1>1, <2>3, <2>4
  <2>6. \A i \in DOMAIN ee_timers : i >= p => time < ee_timers[i].time
    <3> SUFFICES ASSUME NEW i \in DOMAIN ee_timers, i >= p
                 PROVE  time < ee_timers[i].time
      OBVIOUS
    <3>1. i = p \/ p < i
      BY <1>1, <2>4
    <3>2. QED  BY <1>2, <1>3, <2>4, <3>1, LoopAssumption
  <2>7. QED  BY <1>1, <1>2, <2>1, <2>4, <2>5, <2>6, LoopAssumption
<1>6. QED  BY <1>4, <1>5

(* eventloop_reg_timeout keeps the list sorted: the new timeout is younger *)
(* than every timeout with the same deadline and goes behind them.         *)
LEMMA RegTimeoutInv ==
  ASSUME LoopInv, RegTimeout
  PROVE  LoopInv'
<1>1. PICK fn \in Callbacks, delay \in 1 .. 2,
           base \in {now} \cup (IF pc = "timer_callback" THEN {cur.time} ELSE {}) :
        base + delay <= MaxTime /\ eventloop_reg_timeout(base + delay, fn)
  BY DEF RegTimeout
<1> DEFINE time == base + delay
           new  == [id |-> ids + 1, time |-> time, fn |-> fn]
           p    == InsertPosition(time)
<1>2. time \in 0 .. MaxTime
  BY <1>1, LoopAssumption DEF LoopInv, TypeOK, TimeEvent
<1> HIDE DEF time
<1>3. eventloop_reg_timeout(time, fn)
  BY <1>1 DEF time
<1>4. /\ ids < MaxEvents /\ ids' = ids + 1 /\ ids \in Nat
      /\ ee_timers' = InsertAt(ee_timers, p, new)
      /\ UNCHANGED <<ee, now, readable, fdset, e_next, cur, pc, sphone_exit>>
      /\ ops' \in 0 .. MaxOps
  BY <1>3, LoopAssumption
     DEF eventloop_reg_timeout, MayCall, Called, LoopInv, TypeOK
<1>5. /\ ee_timers \in Seq(TimeEvent) /\ new \in TimeEvent
      /\ Len(ee_timers) \in Nat /\ DOMAIN ee_timers = 1 .. Len(ee_timers)
  BY <1>2, <1>4, LenProperties, LoopAssumption DEF LoopInv, TypeOK, TimeEvent
<1>6. /\ p \in 1 .. Len(ee_timers) + 1
      /\ \A i \in DOMAIN ee_timers : i < p => ee_timers[i].time <= time
      /\ \A i \in DOMAIN ee_timers : i >= p => time < ee_timers[i].time
  BY <1>2, InsertPositionProperties
<1> HIDE DEF p
<1>7. /\ ee_timers' \in Seq(TimeEvent) /\ Len(ee_timers') = Len(ee_timers) + 1
      /\ \A j \in 1 .. Len(ee_timers) + 1 : ee_timers'[j] =
           IF j < p THEN ee_timers[j] ELSE IF j = p THEN new ELSE ee_timers[j - 1]
  <2> HIDE DEF new
  <2>1. /\ InsertAt(ee_timers, p, new) \in Seq(TimeEvent)
        /\ Len(InsertAt(ee_timers, p, new)) = Len(ee_timers) + 1
        /\ \A j \in 1 .. Len(ee_timers) + 1 : InsertAt(ee_timers, p, new)[j] =
             IF j < p THEN ee_timers[j] ELSE IF j = p THEN new ELSE ee_timers[j - 1]
    BY <1>5, <1>6, InsertAtProperties
  <2>2. QED  BY <1>4, <2>1
<1>8. DOMAIN ee_timers' = 1 .. Len(ee_timers) + 1
  BY <1>7, LenProperties
<1>9. \A i \in DOMAIN ee_timers : /\ ee_timers[i].time \in Int
                                 /\ ee_timers[i].id \in Int /\ ee_timers[i].id <= ids
  BY EventTypes DEF LoopInv, IdsKnown
<1>10. TypeOK'
  BY <1>4, <1>7, LoopAssumption DEF LoopInv, TypeOK
<1>11. IdsKnown'
  <2>1. \A j \in DOMAIN ee_timers' : ee_timers'[j].id <= ids + 1
    <3> SUFFICES ASSUME NEW j \in 1 .. Len(ee_timers) + 1
                 PROVE  ee_timers'[j].id <= ids + 1
      BY <1>8
    <3>1. CASE j < p
      BY <1>4, <1>5, <1>6, <1>7, <1>9, <3>1
    <3>2. CASE j = p
      BY <1>4, <1>7, <3>2
    <3>3. CASE j > p
      <4>1. j - 1 \in DOMAIN ee_timers /\ ee_timers'[j] = ee_timers[j - 1]
        BY <1>5, <1>6, <1>7, <3>3
      <4>2. QED  BY <1>4, <1>9, <4>1
    <3>4. QED  BY <1>6, <3>1, <3>2, <3>3
  <2>2. QED
    <3>1. \A i \in DOMAIN ee : ee[i].id \in Int /\ ee[i].id <= ids
      BY EventTypes DEF LoopInv, IdsKnown
    <3>2. QED  BY <1>4, <2>1, <3>1 DEF IdsKnown
<1>12. TimersSorted'
  <2> DEFINE Before(a, b) == a.time < b.time \/ (a.time = b.time /\ a.id < b.id)
  <2>1. \A i, j \in DOMAIN ee_timers : i < j => Before(ee_timers[i], ee_timers[j])
    BY DEF LoopInv, TimersSorted
  <2>2. \A i \in DOMAIN ee_timers : i < p => Before(ee_timers[i], new)
    BY <1>2, <1>4, <1>6, <1>9
  <2>3. \A i \in DOMAIN ee_timers : i >= p => Before(new, ee_timers[i])
    BY <1>6
  <2> HIDE DEF Before, new
  <2>4. ASSUME NEW i \in 1 .. Len(ee_timers) + 1, NEW j \in 1 .. Len(ee_timers) + 1,
               i < j
        PROVE  Before(ee_timers'[i], ee_timers'[j])
    <3>1. CASE j < p
      BY <1>5, <1>6, <1>7, <2>1, <2>4, <3>1
    <3>2. CASE j = p
      BY <1>5, <1>6, <1>7, <2>2, <2>4, <3>2
    <3>3. CASE j > p
      <4>1. j - 1 \in DOMAIN ee_timers /\ ee_timers'[j] = ee_timers[j - 1]
        BY <1>5, <1>6, <1>7, <3>3
      <4>2. CASE i < p
        BY <1>5, <1>6, <1>7, <2>1, <2>4, <3>3, <4>1, <4>2
      <4>3. CASE i = p
        BY <1>5, <1>6, <1>7, <2>3, <2>4, <3>3, <4>1, <4>3
      <4>4. CASE i > p
        <5>1. i - 1 \in DOMAIN ee_timers /\ ee_timers'[i] = ee_timers[i - 1]
          BY <1>5, <1>6, <1>7, <4>4
        <5>2. QED  BY <2>1, <2>4, <4>1, <5>1
      <4>5. QED  BY <1>6, <4>2, <4>3, <4>4
    <3>4. QED  BY <1>6, <3>1, <3>2, <3>3
  <2>5. QED  BY <1>8, <2>4 DEF TimersSorted, Before
<1>13. QED
  BY <1>4, <1>10, <1>11, <1>12
     DEF LoopInv, FdsOrdered, NextOlder, SavedNextLive, Position, AnswerFresh, ExitLeaves

(* eventloop_reg_fd puts the event before the place where the walk is, so  *)
(* the walk does not meet it.                                              *)
LEMMA RegFdInv ==
  ASSUME LoopInv, RegFd
  PROVE  LoopInv'
<1>1. PICK fd \in Fds \ Registered, fn \in Callbacks : eventloop_reg_fd(fd, fn)
  BY DEF RegFd
<1> DEFINE new == [id |-> ids + 1, fd |-> fd, fn |-> fn]
<1>2. /\ ids < MaxEvents /\ ids' = ids + 1 /\ ids \in Nat
      /\ ee' = <<new>> \o ee
      /\ UNCHANGED <<ee_timers, now, readable, fdset, e_next, cur, pc, sphone_exit>>
      /\ ops' \in 0 .. MaxOps
  BY <1>1, LoopAssumption DEF eventloop_reg_fd, MayCall, Called, LoopInv, TypeOK
<1>3. /\ Len(ee) \in Nat /\ DOMAIN ee = 1 .. Len(ee)
      /\ \A i \in DOMAIN ee : ee[i].id \in Int /\ ee[i].id <= ids /\ ee[i].fd # fd
      /\ \A i \in DOMAIN ee_timers : ee_timers[i].id \in Int /\ ee_timers[i].id <= ids
  BY <1>1, EventTypes DEF LoopInv, IdsKnown, Registered
<1>4. ee \in Seq(FdEvent) /\ new \in FdEvent
  BY <1>1, <1>2, LoopAssumption DEF LoopInv, TypeOK, FdEvent
<1>5. /\ ee' \in Seq(FdEvent) /\ DOMAIN ee' = 1 .. Len(ee) + 1
      /\ ee'[1] = new
      /\ \A j \in 2 .. Len(ee) + 1 : ee'[j] = ee[j - 1]
  <2> HIDE DEF new
  <2>1. <<new>> \in Seq(FdEvent) /\ Len(<<new>>) = 1 /\ <<new>>[1] = new
    BY <1>4
  <2>2. /\ <<new>> \o ee \in Seq(FdEvent) /\ Len(<<new>> \o ee) = Len(<<new>>) + Len(ee)
        /\ \A i \in 1 .. Len(<<new>>) + Len(ee) : (<<new>> \o ee)[i] =
             IF i <= Len(<<new>>) THEN <<new>>[i] ELSE ee[i - Len(<<new>>)]
    BY <1>4, <2>1, ConcatProperties
  <2>3. ee' \in Seq(FdEvent) /\ Len(ee') = Len(ee) + 1
    BY <1>2, <1>3, <2>1, <2>2
  <2>4. QED  BY <1>2, <1>3, <2>1, <2>2, <2>3, LenProperties
<1>6. \A j \in DOMAIN ee' : \/ j = 1 /\ ee'[j] = new
                            \/ j - 1 \in DOMAIN ee /\ ee'[j] = ee[j - 1]
  BY <1>3, <1>5
<1>7. pc \in {"dispatch", "fd_callback"} => e_next < ids + 1 /\ e_next \in Int
  BY <1>2, <1>3 DEF LoopInv, TypeOK, SavedNextLive, Position
<1>8. TypeOK'
  BY <1>2, <1>5, LoopAssumption DEF LoopInv, TypeOK
<1>9. IdsKnown'
  BY <1>2, <1>3, <1>6 DEF IdsKnown
<1>10. FdsOrdered'
  <2> SUFFICES ASSUME NEW i \in DOMAIN ee', NEW j \in DOMAIN ee', i < j
               PROVE  ee'[i].id > ee'[j].id /\ ee'[i].fd # ee'[j].fd
    BY DEF FdsOrdered
  <2>1. j - 1 \in DOMAIN ee /\ ee'[j] = ee[j - 1]
    BY <1>3, <1>5, <1>6
  <2>2. CASE i = 1
    BY <1>2, <1>3, <1>5, <2>1, <2>2
  <2>3. CASE i # 1
    <3>1. i - 1 \in DOMAIN ee /\ ee'[i] = ee[i - 1]
      BY <1>6, <2>3
    <3>2. i - 1 < j - 1
      BY <1>5
    <3>3. QED  BY <2>1, <3>1, <3>2 DEF LoopInv, FdsOrdered
  <2>4. QED  BY <2>2, <2>3
<1>11. SavedNextLive'
  <2>1. ASSUME NEW i \in Position(ee, e_next)
        PROVE  i + 1 \in Position(ee', e_next')
    BY <1>2, <1>3, <1>5 DEF Position
  <2>2. QED  BY <1>2, <2>1 DEF LoopInv, SavedNextLive
<1>12. AnswerFresh'
  BY <1>2, <1>3, <1>6, <1>7 DEF LoopInv, AnswerFresh
<1>13. QED
  BY <1>2, <1>8, <1>9, <1>10, <1>11, <1>12
     DEF LoopInv, TimersSorted, NextOlder, ExitLeaves

(* eventloop_unreg removes no event older than the one whose callback      *)
(* runs, and so not the event that the walk goes on with.                  *)
LEMMA UnregInv ==
  ASSUME LoopInv, Unreg
  PROVE  LoopInv'
<1>1. PICK fd \in Fds, fn \in Callbacks : UnregDiscipline(fd, fn) /\ eventloop_unreg(fd, fn)
  BY DEF Unreg
<1> DEFINE mt == {i \in DOMAIN ee_timers : ee_timers[i].fn = fn}
           mf == {i \in DOMAIN ee : ee[i].fn = fn /\ ee[i].fd = fd}
<1>2. /\ ee_timers' = WithoutFirst(ee_timers, mt) /\ ee' = WithoutFirst(ee, mf)
      /\ UNCHANGED <<now, readable, fdset, e_next, cur, pc, ids, sphone_exit>>
      /\ ops' \in 0 .. MaxOps /\ pc \in {"start", "fd_callback", "timer_callback"}
  BY <1>1, LoopAssumption
     DEF eventloop_unreg, MayCall, InCallback, Called, LoopInv, TypeOK
<1>3. ee \in Seq(FdEvent) /\ ee_timers \in Seq(TimeEvent)
  BY DEF LoopInv, TypeOK
<1>4. pc = "fd_callback" =>
        /\ cur.id \in Int /\ e_next \in Int /\ e_next < cur.id
        /\ \A i \in mf : ee[i].id >= cur.id /\ ee[i].id \in Int
  BY <1>1, EventTypes DEF LoopInv, TypeOK, FdEvent, NextOlder, UnregDiscipline
<1>5. mt \in SUBSET (DOMAIN ee_timers) /\ mf \in SUBSET (DOMAIN ee)
  OBVIOUS
<1> HIDE DEF mt, mf
<1>6. ee_timers' \in Seq(TimeEvent) /\ ee' \in Seq(FdEvent)
  BY <1>2, <1>3, <1>5, WithoutFirstProperties
<1>7. /\ \A j \in DOMAIN ee_timers' : \E k \in DOMAIN ee_timers : ee_timers'[j] = ee_timers[k]
      /\ \A j1, j2 \in DOMAIN ee_timers' : j1 < j2 =>
           \E k1, k2 \in DOMAIN ee_timers :
             k1 < k2 /\ ee_timers'[j1] = ee_timers[k1] /\ ee_timers'[j2] = ee_timers[k2]
  BY <1>2, <1>3, <1>5, WithoutFirstKeepsOrder
<1>8. /\ \A j \in DOMAIN ee' : \E k \in DOMAIN ee : ee'[j] = ee[k]
      /\ \A j1, j2 \in DOMAIN ee' : j1 < j2 =>
           \E k1, k2 \in DOMAIN ee : k1 < k2 /\ ee'[j1] = ee[k1] /\ ee'[j2] = ee[k2]
      /\ \A k \in (DOMAIN ee) \ mf : \E j \in DOMAIN ee' : ee'[j] = ee[k]
  BY <1>2, <1>3, <1>5, WithoutFirstKeepsOrder
<1>9. TypeOK'
  BY <1>2, <1>6 DEF LoopInv, TypeOK
<1>10. IdsKnown'
  BY <1>2, <1>7, <1>8 DEF LoopInv, IdsKnown
<1>11. FdsOrdered'
  BY <1>8 DEF LoopInv, FdsOrdered
<1>12. TimersSorted'
  BY <1>7 DEF LoopInv, TimersSorted
<1>13. SavedNextLive'
  <2>1. ASSUME pc = "fd_callback", NEW i \in Position(ee, e_next)
        PROVE  Position(ee', e_next) # {}
    <3>1. i \in DOMAIN ee /\ ee[i].id = e_next
      BY <2>1 DEF Position
    <3>2. i \notin mf
      BY <1>4, <2>1, <3>1
    <3>3. PICK j \in DOMAIN ee' : ee'[j] = ee[i]
      BY <1>8, <3>1, <3>2
    <3>4. QED  BY <3>1, <3>3 DEF Position
  <2>2. QED  BY <1>2, <2>1 DEF LoopInv, SavedNextLive
<1>14. AnswerFresh'
  BY <1>2, <1>8 DEF LoopInv, AnswerFresh
<1>15. QED
  BY <1>2, <1>9, <1>10, <1>11, <1>12, <1>13, <1>14 DEF LoopInv, NextOlder, ExitLeaves

(* select returns descriptors that have input, and the walk starts at the  *)
(* head of the list.                                                       *)
LEMMA SelectReadyInv ==
  ASSUME LoopInv, SelectReady
  PROVE  LoopInv'
<1>1. /\ Len(ee) \in Nat /\ DOMAIN ee = 1 .. Len(ee)
      /\ \A i \in DOMAIN ee : ee[i].id \in 1 .. MaxEvents
  BY EventTypes DEF LoopInv
<1>2. 1 \in DOMAIN ee /\ Head(ee) = ee[1]
  BY <1>1 DEF SelectReady, Ready, Registered
<1>3. e_next' = ee[1].id /\ e_next' \in 0 .. MaxEvents
  BY <1>1, <1>2 DEF SelectReady
<1>4. TypeOK'
  BY <1>3 DEF SelectReady, LoopInv, TypeOK, Ready
<1>5. SavedNextLive'
  BY <1>2, <1>3 DEF SelectReady, SavedNextLive, Position
<1>6. AnswerFresh'
  BY DEF SelectReady, AnswerFresh, Ready
<1>7. QED
  BY <1>4, <1>5, <1>6
     DEF SelectReady, LoopInv, IdsKnown, FdsOrdered, TimersSorted, NextOlder, ExitLeaves

(* The head of the list of timeouts is taken off.                          *)
LEMMA FireTimerInv ==
  ASSUME LoopInv, FireTimer
  PROVE  LoopInv'
<1>1. ee_timers \in Seq(TimeEvent) /\ ee_timers # <<>> /\ ee_timers' = Tail(ee_timers)
  BY DEF FireTimer, LoopInv, TypeOK
<1>2. /\ cur' \in TimeEvent /\ ee_timers' \in Seq(TimeEvent)
      /\ Len(ee_timers') = Len(ee_timers) - 1
      /\ \A i \in 1 .. Len(ee_timers') : ee_timers'[i] = ee_timers[i + 1]
  BY <1>1, HeadTailProperties DEF FireTimer
<1>3. Len(ee_timers) \in Nat /\ DOMAIN ee_timers = 1 .. Len(ee_timers)
  BY <1>1, LenProperties
<1>4. \A i \in DOMAIN ee_timers' : /\ i \in Int /\ i + 1 \in DOMAIN ee_timers
                                  /\ ee_timers'[i] = ee_timers[i + 1]
  BY <1>2, <1>3, LenProperties
<1>5. TypeOK'
  BY <1>2, LoopAssumption DEF FireTimer, LoopInv, TypeOK
<1>6. IdsKnown'
  BY <1>4 DEF FireTimer, LoopInv, IdsKnown
<1>7. TimersSorted'
  <2> SUFFICES ASSUME NEW i \in DOMAIN ee_timers', NEW j \in DOMAIN ee_timers', i < j
               PROVE  \/ ee_timers'[i].time < ee_timers'[j].time
                      \/ /\ ee_timers'[i].time = ee_timers'[j].time
                         /\ ee_timers'[i].id < ee_timers'[j].id
    BY DEF TimersSorted
  <2>1. i + 1 < j + 1
    BY <1>4
  <2>2. QED  BY <1>4, <2>1 DEF LoopInv, TimersSorted
<1>8. QED
  BY <1>5, <1>6, <1>7
     DEF FireTimer, LoopInv, FdsOrdered, NextOlder, SavedNextLive, AnswerFresh, ExitLeaves

(* The walk fetches the next event, which is older, and consumes the input *)
(* of a descriptor that no other event is registered for.                  *)
LEMMA VisitInv ==
  ASSUME LoopInv, Visit
  PROVE  LoopInv'
<1>1. PICK i \in Position(ee, e_next) :
        /\ e_next' = NextOf(ee, i)
        /\ IF ee[i].fd \in fdset
           THEN /\ cur' = ee[i]
                /\ readable' = readable \ {ee[i].fd}
                /\ pc' = "fd_callback"
                /\ ops' = 0
           ELSE UNCHANGED <<cur, readable, pc, ops>>
  BY DEF Visit
<1>2. /\ Len(ee) \in Nat /\ DOMAIN ee = 1 .. Len(ee)
      /\ \A j \in DOMAIN ee : /\ ee[j] \in FdEvent /\ ee[j].id \in Int
                             /\ ee[j].id \in 1 .. MaxEvents /\ ee[j].fd \in Fds
  BY EventTypes DEF LoopInv
<1>3. i \in DOMAIN ee /\ ee[i].id = e_next
  BY DEF Position
<1>4. /\ pc = "dispatch" /\ pc' \in {"dispatch", "fd_callback"}
      /\ UNCHANGED <<ee, ee_timers, now, fdset, ids, sphone_exit>>
  BY <1>1 DEF Visit
<1>5. /\ e_next' \in 0 .. MaxEvents /\ e_next' < ee[i].id
      /\ e_next' = 0 \/ (i + 1 \in DOMAIN ee /\ e_next' = ee[i + 1].id)
  <2>1. CASE i < Len(ee)
    <3>1. i + 1 \in DOMAIN ee /\ e_next' = ee[i + 1].id /\ i < i + 1
      BY <1>1, <1>2, <1>3, <2>1 DEF NextOf
    <3>2. ee[i].id > ee[i + 1].id
      BY <1>3, <3>1 DEF LoopInv, FdsOrdered
    <3>3. QED  BY <1>2, <1>3, <3>1, <3>2
  <2>2. CASE ~(i < Len(ee))
    BY <1>1, <1>2, <1>3, <2>2, LoopAssumption DEF NextOf
  <2>3. QED  BY <2>1, <2>2
<1>6. TypeOK'
  BY <1>1, <1>2, <1>3, <1>4, <1>5, LoopAssumption DEF LoopInv, TypeOK
<1>7. NextOlder'
  BY <1>1, <1>4, <1>5 DEF NextOlder
<1>8. SavedNextLive'
  BY <1>4, <1>5 DEF SavedNextLive, Position
<1>9. AnswerFresh'
  <2> SUFFICES ASSUME NEW j \in DOMAIN ee, ee[j].id <= e_next', ee[j].fd \in fdset
               PROVE  ee[j].fd \in readable'
    BY <1>4 DEF AnswerFresh
  <2>1. ee[j].id < ee[i].id
    BY <1>2, <1>3, <1>5
  <2>2. ee[j].fd \in readable
    BY <1>2, <1>3, <1>4, <2>1 DEF LoopInv, AnswerFresh
  <2>3. i # j /\ i \in Int /\ j \in Int
    BY <1>2, <1>3, <2>1
  <2>4. ee[j].fd # ee[i].fd
    BY <1>2, <1>3, <2>3 DEF LoopInv, FdsOrdered
  <2>5. QED  BY <1>1, <2>2, <2>4
<1>10. QED
  BY <1>4, <1>6, <1>7, <1>8, <1>9
     DEF LoopInv, IdsKnown, FdsOrdered, TimersSorted, ExitLeaves

(* The callback returns; a set sphone_exit leaves the loop.                *)
LEMMA ReturnInv ==
  ASSUME LoopInv, NEW rc \in {0, -1}, NEW erred \in BOOLEAN, Return(rc, erred)
  PROVE  LoopInv'
<1>1. sphone_exit' \in Nat
  BY DEF Return, ExitAfter, LoopInv, TypeOK
<1>2. TypeOK'
  BY <1>1 DEF Return, LoopInv, TypeOK, InCallback
<1>3. ExitLeaves'
  BY DEF Return, ExitLeaves
<1>4. QED
  BY <1>2, <1>3
     DEF Return, InCallback, LoopInv, IdsKnown, FdsOrdered, TimersSorted, NextOlder,
         SavedNextLive, Position, AnswerFresh

(* Every step of the loop, its callbacks and its environment.              *)
LEMMA NextInv == LoopInv /\ [Next]_vars => LoopInv'
<1> SUFFICES ASSUME LoopInv, [Next]_vars
             PROVE  LoopInv'
  OBVIOUS
<1> USE DEF LoopInv, TypeOK, IdsKnown, FdsOrdered, TimersSorted, NextOlder,
            SavedNextLive, Position, AnswerFresh, ExitLeaves
<1>1. CASE StartLoop
  BY <1>1, LoopAssumption DEF StartLoop
<1>2. CASE SelectFails
  BY <1>2 DEF SelectFails
<1>3. CASE EndDispatch
  BY <1>3 DEF EndDispatch
<1>4. CASE Arrive
  BY <1>4 DEF Arrive
<1>5. CASE Tick
  BY <1>5, LoopAssumption DEF Tick
<1>6. CASE UNCHANGED vars
  BY <1>6 DEF vars
<1>7. QED
  BY <1>1, <1>2, <1>3, <1>4, <1>5, <1>6, RegTimeoutInv, RegFdInv, UnregInv,
     SelectReadyInv, FireTimerInv, VisitInv, ReturnInv DEF Next

LEMMA InitInv == Init => LoopInv
  BY LoopAssumption
     DEF Init, LoopInv, TypeOK, IdsKnown, FdsOrdered, TimersSorted, NextOlder,
         SavedNextLive, AnswerFresh, ExitLeaves

(* The inductive invariant of the loop.                                    *)
LEMMA LoopInvariant == Spec => []LoopInv
  BY InitInv, NextInv, PTL DEF Spec

-----------------------------------------------------------------------------
(* Results *)

(* However callbacks register and unregister events, the event that the    *)
(* walk over ee has saved in e_next is registered when the walk gets to it.*)
THEOREM WalkIsSafe == Spec => []SavedNextLive
<1>1. LoopInv => SavedNextLive
  BY DEF LoopInv
<1>2. QED  BY <1>1, LoopInvariant, PTL

(* The list of timeouts is sorted by deadline, and stable.                 *)
THEOREM TimersStaySorted == Spec => []TimersSorted
<1>1. LoopInv => TimersSorted
  BY DEF LoopInv
<1>2. QED  BY <1>1, LoopInvariant, PTL

(* No timeout is called before its deadline or before an earlier one.      *)
THEOREM TimersFireInOrder == Spec => TimersOnTime
<1> DEFINE A == (pc = "loop" /\ pc' = "timer_callback") =>
                  /\ cur'.time <= now
                  /\ \A i \in DOMAIN ee_timers' : cur'.time <= ee_timers'[i].time
<1>1. LoopInv /\ [Next]_vars => [A]_vars
  <2> SUFFICES ASSUME LoopInv, Next, pc = "loop", pc' = "timer_callback"
               PROVE  /\ cur'.time <= now
                      /\ \A i \in DOMAIN ee_timers' : cur'.time <= ee_timers'[i].time
    BY DEF vars
  <2>1. FireTimer
    BY DEF Next, RegTimeout, RegFd, Unreg, eventloop_reg_timeout, eventloop_reg_fd,
           eventloop_unreg, MayCall, InCallback, StartLoop, SelectReady, SelectFails,
           Visit, EndDispatch, Return, Arrive, Tick
  <2>2. /\ ee_timers \in Seq(TimeEvent) /\ ee_timers # <<>>
        /\ ee_timers' = Tail(ee_timers) /\ cur' = Head(ee_timers)
        /\ Head(ee_timers).time < now \/ Head(ee_timers).time = now
    BY <2>1 DEF FireTimer, Overdue, LoopInv, TypeOK
  <2>3. /\ Len(ee_timers) \in Nat /\ DOMAIN ee_timers = 1 .. Len(ee_timers)
        /\ \A i \in DOMAIN ee_timers : ee_timers[i].time \in Int
    BY EventTypes DEF LoopInv
  <2>4. 1 \in DOMAIN ee_timers /\ cur' = ee_timers[1]
    BY <2>2, <2>3
  <2>5. cur'.time <= now
    BY <2>2, <2>3, <2>4, LoopAssumption DEF LoopInv, TypeOK
  <2>6. ASSUME NEW i \in DOMAIN ee_timers'
        PROVE  cur'.time <= ee_timers'[i].time
    <3>1. i + 1 \in DOMAIN ee_timers /\ 1 < i + 1 /\ ee_timers'[i] = ee_timers[i + 1]
      BY <2>2, <2>3, HeadTailProperties, LenProperties
    <3>2. QED  BY <2>3, <2>4, <3>1 DEF LoopInv, TimersSorted
  <2>7. QED  BY <2>5, <2>6
<1>2. QED  BY <1>1, LoopInvariant, PTL DEF Spec, TimersOnTime

(* A callback is called only for a descriptor that still has input.        *)
THEOREM CallbacksHaveInput == Spec => NoSpuriousCallback
<1> DEFINE A == (pc = "dispatch" /\ pc' = "fd_callback") => cur'.fd \in readable
<1>1. LoopInv /\ [Next]_vars => [A]_vars
  <2> SUFFICES ASSUME LoopInv, Next, pc = "dispatch", pc' = "fd_callback"
               PROVE  cur'.fd \in readable
    BY DEF vars
  <2>1. Visit
    BY DEF Next, RegTimeout, RegFd, Unreg, eventloop_reg_timeout, eventloop_reg_fd,
           eventloop_unreg, MayCall, InCallback, StartLoop, SelectReady, SelectFails,
           FireTimer, EndDispatch, Return, Arrive, Tick
  <2>2. PICK i \in DOMAIN ee : ee[i].id = e_next /\ ee[i].fd \in fdset /\ cur' = ee[i]
    BY <2>1 DEF Visit, Position
  <2>3. e_next \in Int
    BY DEF LoopInv, TypeOK
  <2>4. QED  BY <2>2, <2>3 DEF LoopInv, AnswerFresh
<1>2. QED  BY <1>1, LoopInvariant, PTL DEF Spec, NoSpuriousCallback

(* No callback is called once the application is leaving.                  *)
THEOREM ExitIsFinal == Spec => NothingAfterExit
<1> DEFINE A == (pc' # pc /\ pc' \in {"fd_callback", "timer_callback"}) => sphone_exit = 0
<1>1. LoopInv /\ [Next]_vars => [A]_vars
  <2> SUFFICES ASSUME LoopInv, Next, pc' # pc, pc' \in {"fd_callback", "timer_callback"}
               PROVE  sphone_exit = 0
    BY DEF vars
  <2>1. pc # "left"
    BY DEF Next, RegTimeout, RegFd, Unreg, eventloop_reg_timeout, eventloop_reg_fd,
           eventloop_unreg, StartLoop, SelectReady, SelectFails, FireTimer, Visit,
           EndDispatch, Return, InCallback, Arrive, Tick
  <2>2. QED  BY <2>1 DEF LoopInv, ExitLeaves, TypeOK
<1>2. QED  BY <1>1, LoopInvariant, PTL DEF Spec, NothingAfterExit
=============================================================================
