-------------------------- MODULE SpProtocol_proofs ---------------------------
(***************************************************************************)
(* What is proved of the measurement server, its clients and the network   *)
(* between them.  The actions of SpProtocol are long, with several cases   *)
(* each, so first every step is shown to be one of a few flat steps that   *)
(* say what becomes of each variable (lemma Flat).  The invariants are     *)
(* built in layers, each of which uses those below:                        *)
(*   Base         types, and the two ends of every connection              *)
(*   ClientCalls  session and timeout of a client in a call                *)
(*   Tokens       on a connection there is at most one of an order, a call *)
(*                and a report, and none if the server takes the client    *)
(*                for idle                                                 *)
(*   Identities, StartsAddressed, AddressesRight                           *)
(*                who is meant by an entry, an order and a probe           *)
(*   Orderly, Logging                                                      *)
(*                timeouts belong to calls, measurements are in one place  *)
(***************************************************************************)
EXTENDS SpProtocol, SequenceTheorems, FiniteSetTheorems, WellFoundedInduction,
        NaturalsInduction, TLAPS

-----------------------------------------------------------------------------
(* Lists and queues *)

(* A non-empty set of natural numbers has a least element.                 *)
LEMMA LeastExists ==
  ASSUME NEW m \in SUBSET Nat, m # {}
  PROVE  \E i \in m : \A j \in m : i <= j
<1>1. PICK i \in m : \A j \in m : ~(<<j, i>> \in OpToRel(<, Nat))
  BY NatLessThanWellFounded, WFMin
<1>2. \A j \in m : ~(j < i)
  BY <1>1 DEF OpToRel
<1>3. QED  BY <1>2

\* What Without computes for the first n entries of the list.
Unlinked(list, S, E, f, n) ==
  /\ f[n] \in Seq(E)
  /\ \A x \in E : (\E j \in 1 .. Len(f[n]) : f[n][j] = x)
                    <=> (x \notin S /\ \E j \in 1 .. n : list[j] = x)

\* The equation of the recursive function in Without.
WalksTo(list, S, f, n) ==
  f = [k \in 0 .. n |->
         IF k = 0 THEN <<>>
         ELSE IF list[k] \in S THEN f[k - 1] ELSE Append(f[k - 1], list[k])]

(* The recursive function in Without exists.                                *)
LEMMA WalkExists ==
  ASSUME NEW E, NEW S, NEW list \in Seq(E)
  PROVE  \E f : WalksTo(list, S, f, Len(list))
<1> DEFINE bad == {n \in 0 .. Len(list) : ~\E f : WalksTo(list, S, f, n)}
<1>1. Len(list) \in Nat
  BY LenProperties
<1>2. SUFFICES bad = {}
  BY <1>1
<1>3. SUFFICES ASSUME bad # {} PROVE FALSE
  OBVIOUS
<1>4. PICK n \in bad : \A m \in bad : n <= m
  <2>1. bad \in SUBSET Nat
    BY <1>1
  <2>2. QED  BY <2>1, <1>3, LeastExists
<1>5. n \in 0 .. Len(list) /\ ~\E f : WalksTo(list, S, f, n)
  OBVIOUS
<1>6. n # 0
  <2>1. WalksTo(list, S, [k \in 0 .. 0 |-> <<>>], 0)
    BY DEF WalksTo
  <2>2. QED  BY <1>5, <2>1
<1>7. n - 1 \in 0 .. Len(list) /\ n - 1 \notin bad
  BY <1>1, <1>4, <1>5, <1>6
<1>8. PICK f : WalksTo(list, S, f, n - 1)
  BY <1>7
<1> HIDE DEF bad
<1> DEFINE g == [k \in 0 .. n |->
                   IF k < n THEN f[k]
                   ELSE IF list[n] \in S THEN f[n - 1] ELSE Append(f[n - 1], list[n])]
<1>9. \A k \in 0 .. n - 1 :
        f[k] = IF k = 0 THEN <<>>
               ELSE IF list[k] \in S THEN f[k - 1] ELSE Append(f[k - 1], list[k])
  BY <1>8 DEF WalksTo
<1>10. \A k \in 0 .. n :
        g[k] = IF k = 0 THEN <<>>
               ELSE IF list[k] \in S THEN g[k - 1] ELSE Append(g[k - 1], list[k])
  <2>1. TAKE k \in 0 .. n
  <2>2. CASE k = 0
    BY <2>2, <1>5, <1>6, <1>9
  <2>3. CASE k # 0 /\ k < n
    <3>1. g[k] = f[k] /\ g[k - 1] = f[k - 1] /\ k \in 0 .. n - 1
      BY <2>3, <1>5
    <3>2. QED  BY <2>3, <3>1, <1>9
  <2>4. CASE k = n
    BY <2>4, <1>5, <1>6
  <2>5. QED  BY <2>2, <2>3, <2>4, <1>5
<1>11. WalksTo(list, S, g, n)
  <2>1. g = [k \in 0 .. n |-> g[k]]
    OBVIOUS
  <2> HIDE DEF g
  <2>2. QED  BY <2>1, <1>10 DEF WalksTo
<1>12. QED  BY <1>5, <1>11

(* It computes what is left of the list, by induction over the list.        *)
LEMMA WalkProperties ==
  ASSUME NEW E, NEW S, NEW list \in Seq(E), NEW f, WalksTo(list, S, f, Len(list))
  PROVE  Unlinked(list, S, E, f, Len(list))
<1> DEFINE bad == {n \in 0 .. Len(list) : ~Unlinked(list, S, E, f, n)}
<1>1. Len(list) \in Nat /\ \A i \in 1 .. Len(list) : list[i] \in E
  BY LenProperties, ElementOfSeq
<1>2. SUFFICES bad = {}
  BY <1>1
<1>3. SUFFICES ASSUME bad # {} PROVE FALSE
  OBVIOUS
<1>4. PICK n \in bad : \A m \in bad : n <= m
  <2>1. bad \in SUBSET Nat
    BY <1>1
  <2>2. QED  BY <2>1, <1>3, LeastExists
<1>5. n \in 0 .. Len(list) /\ ~Unlinked(list, S, E, f, n)
  OBVIOUS
<1>6. f[n] = IF n = 0 THEN <<>>
             ELSE IF list[n] \in S THEN f[n - 1] ELSE Append(f[n - 1], list[n])
  BY <1>5 DEF WalksTo
<1>7. CASE n = 0
  <2>1. f[n] \in Seq(E) /\ Len(f[n]) = 0
    BY <1>6, <1>7, EmptySeq
  <2>2. QED  BY <1>5, <1>7, <2>1 DEF Unlinked
<1>8. CASE n # 0
  <2>1. Unlinked(list, S, E, f, n - 1)
    BY <1>1, <1>4, <1>5, <1>8
  <2> DEFINE g == f[n - 1]
  <2>2. /\ g \in Seq(E) /\ Len(g) \in Nat
        /\ \A x \in E : (\E j \in 1 .. Len(g) : g[j] = x)
                    <=> (x \notin S /\ \E j \in 1 .. n - 1 : list[j] = x)
    BY <2>1, LenProperties DEF Unlinked
  <2>3. /\ n \in 1 .. Len(list) /\ list[n] \in E
        /\ \A x : (\E j \in 1 .. n : list[j] = x) <=> (\E j \in 1 .. n - 1 : list[j] = x) \/ x = list[n]
    BY <1>1, <1>5, <1>8
  <2>4. CASE list[n] \in S
    <3>1. f[n] = g
      BY <1>6, <1>8, <2>4
    <3> HIDE DEF g
    <3>2. QED  BY <1>5, <2>2, <2>3, <2>4, <3>1 DEF Unlinked
  <2>5. CASE list[n] \notin S
    <3>1. f[n] = Append(g, list[n])
      BY <1>6, <1>8, <2>5
    <3> HIDE DEF g
    <3>2. /\ f[n] \in Seq(E) /\ Len(f[n]) = Len(g) + 1
          /\ \A i \in 1 .. Len(g) : f[n][i] = g[i]
          /\ f[n][Len(g) + 1] = list[n]
      BY <3>1, <2>2, <2>3, AppendProperties
    <3> DEFINE h == f[n]
               m == Len(g)
               y == list[n]
    <3>3. \A x \in E : (\E j \in 1 .. Len(f[n]) : f[n][j] = x)
                         <=> (\E j \in 1 .. Len(g) : g[j] = x) \/ x = list[n]
      <4>1. m \in Nat /\ Len(h) = m + 1 /\ (\A i \in 1 .. m : h[i] = g[i]) /\ h[m + 1] = y
        BY <3>2, <2>2
      <4> HIDE DEF h, m, y
      <4>2. \A x : (\E j \in 1 .. Len(h) : h[j] = x) => (\E j \in 1 .. m : g[j] = x) \/ x = y
        <5>1. \A j \in 1 .. Len(h) : j \in 1 .. m \/ j = m + 1
          BY <4>1
        <5>2. QED  BY <4>1, <5>1
      <4>3. \A x : (\E j \in 1 .. m : g[j] = x) \/ x = y => (\E j \in 1 .. Len(h) : h[j] = x)
        <5>1. m + 1 \in 1 .. Len(h) /\ \A j \in 1 .. m : j \in 1 .. Len(h)
          BY <4>1
        <5>2. QED  BY <4>1, <5>1
      <4>4. QED  BY <4>2, <4>3 DEF h, m, y
    <3> HIDE DEF h, m, y
    <3>4. QED  BY <1>5, <2>2, <2>3, <2>5, <3>2, <3>3 DEF Unlinked
  <2>6. QED  BY <2>4, <2>5
<1>9. QED  BY <1>7, <1>8

(* cfe_rm: the list holds what is left of it, and nothing else.            *)
LEMMA WithoutProperties ==
  ASSUME NEW E, NEW S, NEW list \in Seq(E)
  PROVE  /\ Without(list, S) \in Seq(E)
         /\ Range(Without(list, S)) = Range(list) \ S
<1> DEFINE f == CHOOSE f : WalksTo(list, S, f, Len(list))
<1>1. Without(list, S) = f[Len(list)]
  BY DEF Without, WalksTo
<1>2. WalksTo(list, S, f, Len(list))
  BY WalkExists
<1> HIDE DEF f
<1>3. Unlinked(list, S, E, f, Len(list))
  BY <1>2, WalkProperties
<1> DEFINE w == f[Len(list)]
<1>4. w \in Seq(E) /\ Range(w) = {w[i] : i \in 1 .. Len(w)}
  BY <1>3, LenProperties DEF Unlinked, Range
<1>5. Range(list) = {list[i] : i \in 1 .. Len(list)}
  BY LenProperties DEF Range
<1>6. \A i \in 1 .. Len(w) : w[i] \in E
  BY <1>4, ElementOfSeq
<1>7. \A i \in 1 .. Len(list) : list[i] \in E
  BY ElementOfSeq
<1>8. \A x \in E : (\E j \in 1 .. Len(w) : w[j] = x)
                    <=> (x \notin S /\ \E j \in 1 .. Len(list) : list[j] = x)
  BY <1>3 DEF Unlinked
<1> HIDE DEF w
<1>9. Range(w) = Range(list) \ S
  <2>1. \A x \in Range(w) : x \in E /\ \E j \in 1 .. Len(w) : w[j] = x
    BY <1>4, <1>6
  <2>2. \A x \in Range(list) : x \in E /\ \E j \in 1 .. Len(list) : list[j] = x
    BY <1>5, <1>7
  <2>3. QED  BY <2>1, <2>2, <1>4, <1>5, <1>8
<1>10. QED  BY <1>1, <1>4, <1>9 DEF w

-----------------------------------------------------------------------------
(* The inductive invariant *)

Start == {"START_SEND", "START_RCV"}
Report == {"REPORT_SEND", "REPORT_RCV"}

\* A queue without a message of a type in K, with at most one, and one whose
\* messages of a type in K carry an identity.
None(q, K) == \A i \in 1 .. Len(q) : q[i].type \notin K
Lone(q, K) ==
  \A i, j \in 1 .. Len(q) : q[i].type \in K /\ q[j].type \in K => i = j
Named(q, K, id) == \A i \in 1 .. Len(q) : q[i].type \in K => q[i].id = id
HasMessage(q, type, t) ==
  \E i \in 1 .. Len(q) : q[i].type = type /\ q[i].testid = t

(* What Append, Tail and \o do to these.                                   *)
LEMMA AppendQueue ==
  ASSUME NEW q \in Seq(SpProto), NEW m \in SpProto
  PROVE  /\ Append(q, m) \in Seq(SpProto) /\ Append(q, m) # <<>>
         /\ \A K : None(Append(q, m), K) <=> None(q, K) /\ m.type \notin K
         /\ \A K : Lone(q, K) /\ m.type \notin K => Lone(Append(q, m), K)
         /\ \A K : None(q, K) => Lone(Append(q, m), K)
         /\ \A K, id : Named(q, K, id) /\ (m.type \in K => m.id = id)
                          => Named(Append(q, m), K, id)
         /\ \A type, t : HasMessage(Append(q, m), type, t) =>
                           HasMessage(q, type, t) \/ (m.type = type /\ m.testid = t)
<1> DEFINE r == Append(q, m)
           n == Len(q)
<1>1. /\ n \in Nat /\ r \in Seq(SpProto) /\ r # <<>> /\ Len(r) = n + 1
      /\ \A i \in 1 .. n : r[i] = q[i]
      /\ r[n + 1] = m
  BY LenProperties, AppendProperties
<1>2. \A i \in 1 .. Len(r) : i \in 1 .. n \/ i = n + 1
  BY <1>1
<1>3. n + 1 \in 1 .. Len(r) /\ \A i \in 1 .. n : i \in 1 .. Len(r)
  BY <1>1
<1>4. Len(q) = n
  OBVIOUS
<1> HIDE DEF r, n
<1>5. \A K : None(r, K) <=> None(q, K) /\ m.type \notin K
  <2>1. \A K : None(r, K) => None(q, K) /\ m.type \notin K
    BY <1>1, <1>3, <1>4 DEF None
  <2>2. \A K : None(q, K) /\ m.type \notin K => None(r, K)
    BY <1>1, <1>2, <1>4 DEF None
  <2>3. QED  BY <2>1, <2>2
<1>6. \A K : Lone(q, K) /\ m.type \notin K => Lone(r, K)
  BY <1>1, <1>2, <1>4 DEF Lone
<1>7. \A K : None(q, K) => Lone(r, K)
  BY <1>1, <1>2, <1>4 DEF Lone, None
<1>8. \A K, id : Named(q, K, id) /\ (m.type \in K => m.id = id) => Named(r, K, id)
  BY <1>1, <1>2, <1>4 DEF Named
<1>9. \A type, t : HasMessage(r, type, t) =>
                     HasMessage(q, type, t) \/ (m.type = type /\ m.testid = t)
  BY <1>1, <1>2, <1>4 DEF HasMessage
<1>10. QED  BY <1>1, <1>5, <1>6, <1>7, <1>8, <1>9 DEF r

(* The first message is read.                                               *)
LEMMA TailQueue ==
  ASSUME NEW q \in Seq(SpProto), q # <<>>
  PROVE  /\ Tail(q) \in Seq(SpProto) /\ Head(q) \in SpProto
         /\ \A K : None(q, K) => None(Tail(q), K) /\ Head(q).type \notin K
         /\ \A K : Lone(q, K) => Lone(Tail(q), K)
         /\ \A K : Lone(q, K) /\ Head(q).type \in K => None(Tail(q), K)
         /\ \A K, id : Named(q, K, id) =>
              Named(Tail(q), K, id) /\ (Head(q).type \in K => Head(q).id = id)
         /\ \A type, t : HasMessage(Tail(q), type, t) => HasMessage(q, type, t)
         /\ HasMessage(q, Head(q).type, Head(q).testid)
<1> DEFINE r == Tail(q)
           n == Len(q)
           m == Head(q)
<1>1. /\ n \in Nat \ {0} /\ r \in Seq(SpProto) /\ Len(r) = n - 1
      /\ \A i \in 1 .. Len(r) : r[i] = q[i + 1]
      /\ m \in SpProto /\ m = q[1]
  BY LenProperties, HeadTailProperties, EmptySeq
<1>2. \A i \in 1 .. Len(r) : i + 1 \in 1 .. n /\ i + 1 # 1
  BY <1>1
<1>3. 1 \in 1 .. n
  BY <1>1
<1>4. Len(q) = n
  OBVIOUS
<1>0. \A i, j \in 1 .. Len(r) : i + 1 = j + 1 => i = j
  BY <1>1
<1> HIDE DEF r, n, m
<1>5. \A K : None(q, K) => None(r, K) /\ m.type \notin K
  BY <1>1, <1>2, <1>3, <1>4 DEF None
<1>6. \A K : Lone(q, K) => Lone(r, K)
  BY <1>0, <1>1, <1>2, <1>4 DEF Lone
<1>7. \A K : Lone(q, K) /\ m.type \in K => None(r, K)
  BY <1>1, <1>2, <1>3, <1>4 DEF Lone, None
<1>8. \A K, id : Named(q, K, id) => Named(r, K, id) /\ (m.type \in K => m.id = id)
  BY <1>1, <1>2, <1>3, <1>4 DEF Named
<1>9. \A type, t : HasMessage(r, type, t) => HasMessage(q, type, t)
  BY <1>1, <1>2, <1>4 DEF HasMessage
<1>10. HasMessage(q, m.type, m.testid)
  BY <1>1, <1>3, <1>4 DEF HasMessage
<1>11. QED  BY <1>1, <1>5, <1>6, <1>7, <1>8, <1>9, <1>10 DEF r, m

(* A connection without messages.                                           *)
LEMMA EmptyQueue ==
  /\ <<>> \in Seq(SpProto)
  /\ \A K : None(<<>>, K) /\ Lone(<<>>, K)
  /\ \A K, id : Named(<<>>, K, id)
  /\ \A type, t : ~HasMessage(<<>>, type, t)
BY EmptySeq DEF None, Lone, Named, HasMessage

\* r is q and messages of type EXIT.
Extends(r, q) ==
  /\ r \in Seq(SpProto)
  /\ \A K : "EXIT" \notin K => (None(r, K) <=> None(q, K))
  /\ \A K : "EXIT" \notin K /\ Lone(q, K) => Lone(r, K)
  /\ \A K, id : "EXIT" \notin K /\ Named(q, K, id) => Named(r, K, id)
  /\ \A type, t : HasMessage(r, type, t) => type = "EXIT" \/ HasMessage(q, type, t)

(* No message is added.                                                     *)
LEMMA ExtendsItself ==
  ASSUME NEW q \in Seq(SpProto)
  PROVE  Extends(q, q)
BY DEF Extends

(* kill_all_clients adds EXIT messages.                                     *)
LEMMA ExtendsByExits ==
  ASSUME NEW q \in Seq(SpProto), NEW x \in Seq(SpProto),
         \A i \in 1 .. Len(x) : x[i].type = "EXIT"
  PROVE  Extends(q \o x, q)
<1> DEFINE r == q \o x
           n == Len(q)
<1>1. /\ n \in Nat /\ Len(x) \in Nat /\ r \in Seq(SpProto) /\ Len(r) = n + Len(x)
      /\ \A i \in 1 .. n + Len(x) : r[i] = IF i <= n THEN q[i] ELSE x[i - n]
  BY LenProperties, ConcatProperties
<1>2. \A i \in 1 .. Len(r) : i \in 1 .. n \/ r[i].type = "EXIT"
  <2>1. TAKE i \in 1 .. Len(r)
  <2>2. CASE i > n
    <3>1. i - n \in 1 .. Len(x) /\ r[i] = x[i - n]
      BY <1>1, <2>2
    <3>2. QED  BY <3>1
  <2>3. QED  BY <1>1, <2>2
<1>3. \A i \in 1 .. n : i \in 1 .. Len(r) /\ r[i] = q[i]
  BY <1>1
<1>4. Len(q) = n
  OBVIOUS
<1> HIDE DEF r, n
<1>5. \A K : "EXIT" \notin K => (None(r, K) <=> None(q, K))
  BY <1>2, <1>3, <1>4 DEF None
<1>6. \A K : "EXIT" \notin K /\ Lone(q, K) => Lone(r, K)
  BY <1>2, <1>3, <1>4 DEF Lone
<1>7. \A K, id : "EXIT" \notin K /\ Named(q, K, id) => Named(r, K, id)
  BY <1>2, <1>3, <1>4 DEF Named
<1>8. \A type, t : HasMessage(r, type, t) => type = "EXIT" \/ HasMessage(q, type, t)
  BY <1>2, <1>3, <1>4 DEF HasMessage
<1>9. QED  BY <1>1, <1>5, <1>6, <1>7, <1>8 DEF Extends, r

(* The clients in the list, place by place.                                *)
LEMMA ClientsAreListed ==
  ASSUME cf_list \in Seq(Entry)
  PROVE  /\ Clients = {cf_list[i] : i \in 1 .. Len(cf_list)}
         /\ Clients \subseteq Entry /\ Len(cf_list) \in Nat
BY LenProperties, ElementOfSeq DEF Clients, Range

(* cfe_find returns nothing for an address that no client has.             *)
LEMMA FindNothing ==
  ASSUME cf_list \in Seq(Entry), NEW addr, \A e \in Clients : cfe[e].cf_addr # addr
  PROVE  cfe_find(addr) = {}
<1>1. {i \in 1 .. Len(cf_list) : cfe[cf_list[i]].cf_addr = addr} = {}
  BY ClientsAreListed
<1>2. QED  BY <1>1 DEF cfe_find, FirstEntry, SelectInSeq

(* cfe_find_byid returns a client of the list with that identity.          *)
LEMMA FindById ==
  ASSUME cf_list \in Seq(Entry), NEW id
  PROVE  cfe_find_byid(id) \subseteq {e \in Clients : cfe[e].cf_id = id}
<1> DEFINE I == {i \in 1 .. Len(cf_list) : cfe[cf_list[i]].cf_id = id}
<1>1. cfe_find_byid(id) = IF (IF I # {} THEN Min(I) ELSE 0) = 0 THEN {}
                          ELSE {cf_list[IF I # {} THEN Min(I) ELSE 0]}
  BY DEF cfe_find_byid, FirstEntry, SelectInSeq
<1>2. CASE I = {}
  BY <1>1, <1>2
<1>3. CASE I # {}
  <2>1. I \in SUBSET Nat
    BY ClientsAreListed
  <2>2. \E i \in I : \A j \in I : i <= j
    BY <1>3, <2>1, LeastExists
  <2>3. Min(I) \in I
    BY <2>2 DEF Min
  <2>4. cf_list[Min(I)] \in Clients /\ cfe[cf_list[Min(I)]].cf_id = id
    BY <2>3, ClientsAreListed
  <2> HIDE DEF I
  <2>5. QED  BY <1>1, <1>3, <2>4
<1>4. QED  BY <1>2, <1>3

(* The messages of kill_all_clients on one connection.                     *)
LEMMA KillMessages ==
  ASSUME cf_list \in Seq(Entry), cfe \in [Clients -> CfEntry], NEW S \in SUBSET Clients
  PROVE  LET order == SetToSeq(S)
             x == [i \in DOMAIN order |-> sp_proto("EXIT", cfe[order[i]].cf_id, FALSE, 0)]
         IN  x \in Seq(SpProto) /\ \A i \in 1 .. Len(x) : x[i].type = "EXIT"
<1> DEFINE order == SetToSeq(S)
           n == Cardinality(S)
           x == [i \in DOMAIN order |-> sp_proto("EXIT", cfe[order[i]].cf_id, FALSE, 0)]
<1>1. IsFiniteSet(S) 
  <2>1. MaxEntries \in Int /\ 1 \in Int
    BY ServerAssumption
  <2>2. IsFiniteSet(Entry)
    BY <2>1, FS_Interval DEF Entry
  <2>3. S \in SUBSET Entry
    BY ClientsAreListed
  <2>4. QED  BY <2>2, <2>3, FS_Subset
<1>2. n \in Nat /\ ExistsBijection(1 .. n, S)
  BY <1>1, FS_CardinalityType
<1>3. \E f \in [1 .. n -> S] : IsInjective(f)
  BY <1>2 DEF ExistsBijection, Bijection, Injection, IsInjective
<1>4. order \in [1 .. n -> S]
  BY <1>3 DEF SetToSeq
<1> HIDE DEF order, n
<1>5. \A i \in 1 .. n : cfe[order[i]].cf_id \in Nat
  BY <1>4 DEF CfEntry
<1>6. \A i \in 1 .. n : x[i] \in SpProto /\ x[i].type = "EXIT"
  BY <1>4, <1>5 DEF sp_proto, SpProto, SpType
<1>7. x = [i \in 1 .. n |-> x[i]]
  BY <1>4
<1> HIDE DEF x
<1>8. x \in Seq(SpProto) /\ Len(x) = n
  <2>1. x \in [1 .. n -> SpProto]
    BY <1>6, <1>7
  <2>2. QED  BY <1>2, <2>1
<1>9. QED  BY <1>6, <1>8 DEF x, order

\* What clients and the server send.
MessageTypes ==
  \A s \in Conns : /\ None(c2s[s], SpType \ ({"REGISTER"} \cup Report))
                   /\ None(s2c[s], SpType \ ({"EXIT"} \cup Start))

TypeInv == TypeOK /\ MessageTypes


\* The server's ends of the connections, of the clients in C and of those
\* that wait to be accepted.
ServerEndsOf(C) ==
  /\ events = {<<cfe[e].cf_s, e>> : e \in C} /\ freed = {}
  /\ \A e \in C : cfe[e].cf_s \in srv_open /\ cfe[e].cf_addr = cfe[e].cf_s
  /\ \A e, d \in C : cfe[e].cf_s = cfe[d].cf_s => e = d
  /\ \A i \in 1 .. Len(backlog) : backlog[i] \in srv_open
  /\ \A i, j \in 1 .. Len(backlog) : backlog[i] = backlog[j] => i = j
  /\ \A i \in 1 .. Len(backlog), e \in C : backlog[i] # cfe[e].cf_s

Sane == Running \/ srv_exit = 3

ServerSide ==
  /\ Sane => ServerEndsOf(Clients)
  /\ srv_exit = 3 => Clients = {} /\ backlog = <<>> /\ events = {} /\ freed = {}

-----------------------------------------------------------------------------
(* The steps *)

ClientsKeep == UNCHANGED <<cliVars, cli_open, histVars>>

\* Accept: the address of the connection is new.
NewClient(e) ==
  LET s == Head(backlog)
  IN  /\ Running /\ backlog # <<>> /\ e \in Entry \ Clients
      /\ cf_list' \in Seq(Entry) /\ Clients' = Clients \cup {e}
      /\ cfe' = [d \in Clients \cup {e} |-> IF d = e THEN cfe_new(s, s) ELSE cfe[d]]
      /\ events' = events \cup {<<s, e>>} /\ srv_open' = srv_open \cup {s}
      /\ backlog' = Tail(backlog)
      /\ UNCHANGED <<freed, test_id, logs, listening, srv_exit, srv_fault, s2c,
                     sp_state, sp_id, sp_ds, sp_s, sp_data, heap, timers, alive, udp,
                     c2s, cli_open, histVars>>

\* ReadMessage.
First(e) == Head(c2s[cfe[e].cf_s])

Reads(e) ==
  /\ Running /\ e \in Clients /\ c2s[cfe[e].cf_s] # <<>>
  /\ c2s' = [c2s EXCEPT ![cfe[e].cf_s] = Tail(@)]
  /\ UNCHANGED <<s2c, test_id, listening>> /\ ClientsKeep

ListKeeps == cf_list' = cf_list /\ Clients' = Clients /\ UNCHANGED <<freed, events, srv_open>>

ReadRegister(e) ==
  /\ Reads(e) /\ First(e).type = "REGISTER" /\ IdMatches(e, First(e)) /\ Register(e, First(e))
  /\ ListKeeps /\ UNCHANGED <<logs, srv_exit, srv_fault>>

Writes(e) ==
  \/ UNCHANGED logs
  \/ /\ First(e).type = "REPORT_SEND" /\ First(e).testid \in Tests
     /\ logs' = [logs EXCEPT ![First(e).testid] = @ + 1]

ReadReport(e) ==
  /\ Reads(e) /\ First(e).type \in Report /\ MarkIdle(e) /\ Writes(e)
  /\ ListKeeps /\ UNCHANGED <<srv_exit, srv_fault>>

ReadFails(e) ==
  /\ Reads(e) /\ First(e).type \in Report /\ Writes(e)
  /\ srv_exit' = 1 /\ ListKeeps /\ UNCHANGED <<cfe, srv_fault>>

ReadReset(e) ==
  /\ Reads(e) /\ First(e).type \in Report /\ Writes(e)
  /\ cf_list' \in Seq(Entry) /\ Clients' = Clients \ {e}
  /\ cfe' = [d \in Clients \ {e} |-> cfe[d]]
  /\ events' \subseteq events /\ srv_open' \subseteq srv_open /\ freed' = freed \ {e}
  /\ srv_fault' = "use_after_free" /\ UNCHANGED srv_exit

ReadIgnored(e) ==
  /\ Reads(e) /\ ListKeeps /\ UNCHANGED <<cfe, logs, srv_exit, srv_fault>>

\* ReadClose, Timeout and Kill.
SameFields(new, old) ==
  /\ new.cf_addr = old.cf_addr /\ new.cf_pub = old.cf_pub /\ new.cf_id = old.cf_id
  /\ new.cf_s = old.cf_s /\ new.cf_state = old.cf_state

Forget(S) ==
  /\ Running /\ S \subseteq Clients
  /\ cf_list' \in Seq(Entry) /\ Clients' = Clients \ S
  /\ cfe' \in [Clients \ S -> CfEntry]
  /\ \A e \in Clients \ S : SameFields(cfe'[e], cfe[e])
  /\ events' = events \ {<<cfe[e].cf_s, e>> : e \in S}
  /\ srv_open' = srv_open \ {cfe[e].cf_s : e \in S}
  /\ freed' = freed \ S
  /\ (\A e \in S : cfe[e].cf_s \notin cli_open) \/ "kill" \in Faults \/ "silent" \in Faults
  /\ s2c' = [s \in Conns |-> s2c'[s]]
  /\ \A s \in Conns : IF s \in cli_open THEN Extends(s2c'[s], s2c[s]) ELSE s2c'[s] = s2c[s]
  /\ UNCHANGED <<c2s, test_id, logs, listening, srv_exit, srv_fault>> /\ ClientsKeep

\* ReadProbe.
Probed(p, F) ==
  /\ Running /\ F \subseteq {e \in Clients : cfe[e].cf_id = p.id}
  /\ cfe' = [e \in Clients |->
               IF e \notin F \/ cfe[e].cf_pub = {p.from} THEN cfe[e]
               ELSE [cfe[e] EXCEPT
                       !.cf_timeout = SP_TIMEOUT_REG_NR,
                       !.cf_pub = {p.from},
                       !.cf_state = IF @ = "CS_INIT" THEN "CS_IDLE" ELSE @]]
  /\ ListKeeps
  /\ UNCHANGED <<c2s, s2c, test_id, logs, listening, srv_exit, srv_fault>> /\ ClientsKeep

\* StartCalls: the order goes to the connections S1 and S2.
Ordered(e1, e2, S1, S2) ==
  /\ Running /\ test_id \in Tests /\ test_id' = test_id + 1
  /\ e1 \in Clients /\ e2 \in Clients /\ e1 # e2
  /\ cfe[e1].cf_state = "CS_IDLE" /\ cfe[e2].cf_state = "CS_IDLE"
  /\ S1 \subseteq {cfe[e1].cf_s} \cap cli_open /\ S2 \subseteq {cfe[e2].cf_s} \cap cli_open
  /\ s2c' = [s \in Conns |->
               IF s \in S1 THEN Append(s2c[s], StartMessage(e1, "START_SEND"))
               ELSE IF s \in S2 THEN Append(s2c[s], StartMessage(e2, "START_RCV"))
               ELSE s2c[s]]
  /\ \/ /\ cfe' = [cfe EXCEPT ![e1].cf_state = "CS_SEND", ![e1].cf_peer = cfe[e2].cf_id,
                              ![e2].cf_state = "CS_RCV", ![e2].cf_peer = cfe[e1].cf_id]
        /\ UNCHANGED <<srv_exit, srv_open>>
     \/ cfe' = cfe /\ srv_exit' = 1 /\ srv_open' \subseteq srv_open
  /\ srv_fault' = srv_fault \/ srv_fault' = "assert"
  /\ cf_list' = cf_list /\ Clients' = Clients
  /\ UNCHANGED <<c2s, freed, events, logs, listening>> /\ ClientsKeep

\* ServerLeavesLoop.
Leaves ==
  /\ srv_exit = 1 /\ srv_exit' = 2 /\ listening' = FALSE
  /\ cf_list' = cf_list /\ Clients' = Clients
  /\ events' \subseteq events /\ srv_open' \subseteq srv_open /\ freed' \subseteq Clients
  /\ srv_fault' = srv_fault \/ srv_fault' = "double_free"
  /\ UNCHANGED <<cfe, test_id, logs, c2s, s2c>> /\ ClientsKeep

Ends == ServerEnds /\ Clients' = {}
Starts == ServerStarts /\ Clients' = Clients

ServerStep ==
  \/ \E e \in Entry : NewClient(e)
  \/ \E e \in Clients : ReadRegister(e) \/ ReadReport(e) \/ ReadFails(e) \/ ReadReset(e)
                        \/ ReadIgnored(e)
  \/ \E S \in SUBSET Clients : Forget(S)
  \/ \E p \in udp, F \in SUBSET Clients : Probed(p, F)
  \/ \E e1, e2 \in Clients, S1, S2 \in SUBSET Conns : Ordered(e1, e2, S1, S2)
  \/ Leaves \/ Ends \/ Starts

ServerKeeps == Clients' = Clients /\ UNCHANGED <<srvVars, histVars>>

Connects(c, s) ==
  /\ c \in alive /\ sp_state[c] = "SS_INIT" /\ Running /\ s \in FreeConns
  /\ sp_s' = [sp_s EXCEPT ![c] = s]
  /\ sp_state' = [sp_state EXCEPT ![c] = "SS_SERVER"]
  /\ cli_open' = cli_open \cup {s} /\ srv_open' = srv_open \cup {s}
  /\ backlog' = Append(backlog, s)
  /\ c2s' = [c2s EXCEPT ![s] = Append(<<>>, send_register(c).message)]
  /\ s2c' = [s2c EXCEPT ![s] = <<>>]
  /\ udp' = udp \cup {send_register(c).probe}
  /\ UNCHANGED <<sp_id, sp_ds, sp_data, heap, timers, alive>> /\ ServerKeeps

Updates(c) == UpdateRegistration(c) /\ ServerKeeps
Dies(c) == c \in alive /\ ProcessEnds(c) /\ ServerKeeps
Disconnects(c) == spc_state2init(c) /\ ServerKeeps

\* server_input.
Order(c) == Head(s2c[sp_s[c]])

TakesOrder(c) ==
  /\ c \in alive /\ sp_s[c] # 0 /\ s2c[sp_s[c]] # <<>>
  /\ s2c' = [s2c EXCEPT ![sp_s[c]] = Tail(@)]
  /\ ServerKeeps

Obeys(c, n, kind, state) ==
  /\ TakesOrder(c)
  /\ sp_state[c] = "SS_SERVER"
  /\ \/ Order(c).type = "START_SEND" /\ kind = "send" /\ state = "SS_DATA_SEND"
     \/ Order(c).type = "START_RCV" /\ kind = "rcv" /\ state = "SS_DATA_RCV"
  /\ heap[c][n] = {}
  /\ heap' = [heap EXCEPT ![c][n] = {[kind |-> kind, testid |-> Order(c).testid]}]
  /\ sp_data' = [sp_data EXCEPT ![c] = n]
  /\ timers' = [timers EXCEPT ![c][<<n, kind>>] = @ + 1]
  /\ sp_state' = [sp_state EXCEPT ![c] = state]
  /\ UNCHANGED <<sp_id, sp_ds, sp_s, alive, backlog, udp, c2s, srv_open, cli_open>>

Disobeys(c) == TakesOrder(c) /\ UNCHANGED <<cliVars, c2s, srv_open, cli_open>>

\* SessionTimeout.
CallEnds(c, n, kind, report) ==
  /\ c \in alive /\ timers[c][<<n, kind>>] > 0
  /\ \/ kind = "rcv" /\ sp_state[c] = "SS_DATA_RCV" /\ report.type = "REPORT_RCV"
     \/ kind = "send" /\ sp_state[c] = "SS_DATA_SEND_CLOSING" /\ report.type = "REPORT_SEND"
  /\ report \in SpProto /\ report.id = sp_id[c] /\ report.testid \in TestIds(c, n)
  /\ EndCall(c, n, kind, report) /\ ServerKeeps

Stops(c, n) ==
  /\ c \in alive /\ timers[c][<<n, "send">>] > 0 /\ sp_state[c] = "SS_DATA_SEND"
  /\ StopSending(c) /\ ServerKeeps

Expires(c, n, kind) ==
  /\ c \in alive /\ timers[c][<<n, kind>>] > 0
  /\ sp_state[c] \in DataState => kind # KindOf(sp_state[c])
  /\ TimerExpires(c, n, kind) /\ ServerKeeps

Restarts(c, id) ==
  /\ \E addr \in UdpAddrs : ClientRestarts(c, id, addr)
  /\ Clients' = Clients

ClientStep ==
  \/ \E c \in Client, s \in Conns : Connects(c, s)
  \/ \E c \in Client : Updates(c) \/ Dies(c) \/ Disconnects(c) \/ Disobeys(c)
  \/ \E c \in Client, n \in Address, kind \in Kind, state \in DataState : Obeys(c, n, kind, state)
  \/ \E c \in Client, n \in Address, kind \in Kind, report \in SpProto : CallEnds(c, n, kind, report)
  \/ \E c \in Client, n \in Address : Stops(c, n)
  \/ \E c \in Client, n \in Address, kind \in Kind : Expires(c, n, kind)
  \/ \E c \in Client, id \in Ids : Restarts(c, id)

Stutters == UNCHANGED vars /\ Clients' = Clients

-----------------------------------------------------------------------------
(* Every step is a flat step *)

(* RemoveClients, whatever the callback leaves in the entries.             *)
LEMMA RemoveFlat ==
  ASSUME TypeInv, NEW S \in SUBSET Clients, NEW contents, DOMAIN contents = Clients,
         RemoveClients(S, contents)
  PROVE  /\ cf_list' \in Seq(Entry) /\ Clients' = Clients \ S
         /\ cfe' = [e \in Clients \ S |-> contents[e]]
         /\ events' = events \ {<<cfe[e].cf_s, e>> : e \in S}
         /\ srv_open' = srv_open \ {cfe[e].cf_s : e \in S}
         /\ freed' = freed \ S
<1>1. cf_list \in Seq(Entry)
  BY DEF TypeInv, TypeOK, SrvTypeOK
<1>2. cf_list' = Without(cf_list, S)
  BY DEF RemoveClients
<1>3. cf_list' \in Seq(Entry) /\ Range(cf_list') = Range(cf_list) \ S
  BY <1>1, <1>2, WithoutProperties
<1>4. QED  BY <1>3 DEF RemoveClients, Clients

(* connect_input adds one entry, for an address that no entry has.          *)
LEMMA AcceptFlat ==
  ASSUME TypeInv, ServerSide, Accept
  PROVE  \E e \in Entry : NewClient(e)
<1> DEFINE s == Head(backlog)
           free == Entry \ Clients
           new == CHOOSE e \in free : \A d \in free : e <= d
<1>1. cf_list \in Seq(Entry) /\ backlog \in Seq(Conns) /\ backlog # <<>> /\ Running
      /\ cfe \in [Clients -> CfEntry]
  BY DEF TypeInv, TypeOK, SrvTypeOK, CliTypeOK, Accept, connect_input
<1>2. s = backlog[1] /\ 1 \in 1 .. Len(backlog)
  BY <1>1, EmptySeq
<1>3. \A e \in Clients : cfe[e].cf_addr # s
  BY <1>1, <1>2 DEF ServerSide, Sane, ServerEndsOf
<1>4. cfe_find(s) = {}
  BY <1>1, <1>3, FindNothing
<1>5. free # {} /\ free \in SUBSET Nat
  BY DEF Accept, connect_input, Entry
<1>6. new \in free
  BY <1>5, LeastExists
<1>7. /\ cf_list' = <<new>> \o cf_list
      /\ cfe' = [e \in DOMAIN cfe \cup {new} |->
                   IF e = new THEN cfe_new(s, s)
                   ELSE IF e \in {} THEN [cfe[e] EXCEPT !.cf_s = s] ELSE cfe[e]]
      /\ events' = (events \ {<<cfe[e].cf_s, e>> : e \in {}}) \cup {<<s, e>> : e \in {} \cup {new}}
      /\ srv_open' = (srv_open \ {cfe[e].cf_s : e \in {}}) \cup {s}
  BY <1>4 DEF Accept, connect_input
<1> HIDE DEF new, s
<1>8. cfe' = [d \in Clients \cup {new} |-> IF d = new THEN cfe_new(s, s) ELSE cfe[d]]
  BY <1>1, <1>7
<1>9. events' = events \cup {<<s, new>>} /\ srv_open' = srv_open \cup {s}
  BY <1>7
<1>10. cf_list' \in Seq(Entry) /\ Clients' = Clients \cup {new}
  <2>1. <<new>> \in Seq(Entry) /\ Len(<<new>>) = 1 /\ <<new>>[1] = new /\ Len(cf_list) \in Nat
    BY <1>1, <1>6, LenProperties
  <2>2. /\ cf_list' \in Seq(Entry) /\ Len(cf_list') = 1 + Len(cf_list)
        /\ \A i \in 1 .. 1 + Len(cf_list) :
             cf_list'[i] = IF i <= 1 THEN <<new>>[i] ELSE cf_list[i - 1]
    BY <1>1, <1>7, <2>1, ConcatProperties
  <2>3. Clients' = {cf_list'[i] : i \in 1 .. Len(cf_list')}
    BY <2>2, LenProperties DEF Clients, Range
  <2>4. Clients = {cf_list[i] : i \in 1 .. Len(cf_list)}
    BY <1>1, ClientsAreListed
  <2>5. \A i \in 1 .. Len(cf_list) : i + 1 \in 1 .. Len(cf_list') /\ cf_list'[i + 1] = cf_list[i]
    BY <2>1, <2>2
  <2>6. \A i \in 1 .. Len(cf_list') :
          \/ i = 1 /\ cf_list'[i] = new
          \/ i - 1 \in 1 .. Len(cf_list) /\ cf_list'[i] = cf_list[i - 1]
    BY <2>1, <2>2
  <2>7. 1 \in 1 .. Len(cf_list') /\ cf_list'[1] = new
    BY <2>1, <2>2
  <2>8. Clients' \subseteq Clients \cup {new}
    BY <2>3, <2>4, <2>6
  <2>9. Clients \cup {new} \subseteq Clients'
    <3>1. new \in Clients'
      BY <2>3, <2>7
    <3>2. ASSUME NEW d \in Clients PROVE d \in Clients'
      <4>1. PICK i \in 1 .. Len(cf_list) : d = cf_list[i]
        BY <2>4
      <4>2. QED  BY <2>3, <2>5, <4>1
    <3>3. QED  BY <3>1, <3>2
  <2>10. QED  BY <2>2, <2>8, <2>9
<1>11. NewClient(new)
  BY <1>1, <1>6, <1>8, <1>9, <1>10 DEF NewClient, Accept, connect_input, s
<1>12. QED  BY <1>6, <1>11

(* client_input: one of five outcomes.                                      *)
LEMMA ReadFlat ==
  ASSUME TypeInv, NEW e \in Clients, NEW outcome \in Outcomes, ReadMessage(e, outcome)
  PROVE  ReadRegister(e) \/ ReadReport(e) \/ ReadFails(e) \/ ReadReset(e) \/ ReadIgnored(e)
<1> DEFINE s == cfe[e].cf_s
           sp == First(e)
<1>1. /\ Running /\ c2s[s] # <<>> /\ c2s' = [c2s EXCEPT ![s] = Tail(@)] /\ ClientsKeep
      /\ IF IdMatches(e, sp) THEN rcv_sp_proto(e, sp, outcome) ELSE IgnoreMessage
      /\ sp.type = "REPORT_SEND" \/ outcome = "done"
  BY DEF ReadMessage, client_input, First, ClientsKeep
<1>2. cfe \in [Clients -> CfEntry] /\ s \in Conns /\ c2s[s] \in Seq(SpProto)
  BY DEF TypeInv, TypeOK, SrvTypeOK, NetTypeOK, CfEntry
<1>3. sp \in SpProto /\ sp.type \notin SpType \ ({"REGISTER"} \cup Report)
  BY <1>1, <1>2, TailQueue DEF TypeInv, MessageTypes, First
<1>4. sp.type \in {"REGISTER", "REPORT_SEND", "REPORT_RCV"}
  BY <1>3 DEF SpProto, SpType, Report
<1> HIDE DEF sp, s
<1>5. CASE ~IdMatches(e, sp)
  BY <1>1, <1>5 DEF IgnoreMessage, ReadIgnored, Reads, ListKeeps, srvVars, s, Clients
<1>6. CASE IdMatches(e, sp) /\ sp.type = "REGISTER"
  <2>1. Register(e, sp)
    BY <1>1, <1>6 DEF rcv_sp_proto
  <2>2. ReadRegister(e)
    BY <1>1, <1>6, <2>1 DEF Register, ReadRegister, Reads, ListKeeps, s, sp, Clients
  <2>3. QED  BY <2>2
<1>7. CASE IdMatches(e, sp) /\ sp.type = "REPORT_RCV"
  <2>1. ReportRcv(e)
    BY <1>1, <1>7 DEF rcv_sp_proto
  <2>2. ReadReport(e)
    BY <1>1, <1>7, <2>1 DEF ReportRcv, ReadReport, Reads, Writes, Report, ListKeeps, s, sp, Clients
  <2>3. QED  BY <2>2
<1>8. CASE IdMatches(e, sp) /\ sp.type = "REPORT_SEND"
  <2>1. ReportSend(e, sp, outcome)
    BY <1>1, <1>8 DEF rcv_sp_proto
  <2>2. UNCHANGED <<test_id, listening, s2c>>
    BY <2>1 DEF ReportSend
  <2>3. Reads(e)
    BY <1>1, <2>2 DEF Reads, s
  <2>4. Writes(e)
    <3> DEFINE written == IF sp.testid \in Tests THEN [logs EXCEPT ![sp.testid] = @ + 1] ELSE logs
    <3>1. logs' = logs \/ logs' = written
      BY <2>1 DEF ReportSend
    <3>2. QED  BY <3>1, <1>8 DEF Writes, sp
  <2>5. CASE outcome \in {"done", "empty"}
    <3>1. MarkIdle(e) /\ UNCHANGED <<cf_list, freed, events, srv_open, srv_exit, srv_fault>>
      BY <2>1, <2>5 DEF ReportSend
    <3>2. ReadReport(e)
      BY <1>8, <2>3, <2>4, <3>1 DEF ReadReport, ListKeeps, Clients, Report, sp
    <3>3. QED  BY <3>2
  <2>6. CASE outcome = "file_error"
    <3>1. srv_exit' = 1 /\ UNCHANGED <<cfe, cf_list, freed, events, srv_open, srv_fault>>
      BY <2>1, <2>6 DEF ReportSend
    <3>2. ReadFails(e)
      BY <1>8, <2>3, <2>4, <3>1 DEF ReadFails, ListKeeps, Clients, Report, sp
    <3>3. QED  BY <3>2
  <2>7. CASE outcome = "reset"
    <3>1. RemoveClients({e}, cfe) /\ srv_fault' = "use_after_free" /\ UNCHANGED srv_exit
      BY <2>1, <2>7 DEF ReportSend
    <3>2. {e} \in SUBSET Clients /\ DOMAIN cfe = Clients
      BY <1>2
    <3> DEFINE S == {e}
    <3>a. S \in SUBSET Clients /\ RemoveClients(S, cfe)
      BY <3>1, <3>2
    <3> HIDE DEF S
    <3>b. /\ cf_list' \in Seq(Entry) /\ Clients' = Clients \ S
          /\ cfe' = [d \in Clients \ S |-> cfe[d]]
          /\ events' = events \ {<<cfe[d].cf_s, d>> : d \in S}
          /\ srv_open' = srv_open \ {cfe[d].cf_s : d \in S}
          /\ freed' = freed \ S
      BY <3>2, <3>a, RemoveFlat
    <3>3. /\ cf_list' \in Seq(Entry) /\ Clients' = Clients \ {e}
          /\ cfe' = [d \in Clients \ {e} |-> cfe[d]]
          /\ events' \subseteq events /\ srv_open' \subseteq srv_open /\ freed' = freed \ {e}
      BY <3>b DEF S
    <3>4. ReadReset(e)
      BY <1>8, <2>3, <2>4, <3>1, <3>3 DEF ReadReset, Report, sp
    <3>5. QED  BY <3>4
  <2>8. QED  BY <2>5, <2>6, <2>7 DEF Outcomes
<1>9. QED  BY <1>4, <1>5, <1>6, <1>7, <1>8

(* client_input finds the connection closed.                                *)
LEMMA CloseFlat ==
  ASSUME TypeInv, ServerSide, NEW e \in Clients, ReadClose(e)
  PROVE  Forget({e})
<1> DEFINE S == {e}
<1>1. /\ Running /\ cfe[e].cf_s \notin cli_open /\ RemoveClients(S, cfe)
      /\ UNCHANGED <<test_id, logs, listening, srv_exit, srv_fault, s2c, c2s>> /\ ClientsKeep
  BY DEF ReadClose, ClientClosed, ClientsKeep
<1>2. /\ cfe \in [Clients -> CfEntry] /\ s2c \in [Conns -> Seq(SpProto)]
      /\ S \in SUBSET Clients /\ \A d \in S : cfe[d].cf_s \notin cli_open
  BY <1>1 DEF TypeInv, TypeOK, SrvTypeOK, NetTypeOK
<1> HIDE DEF S
<1>3. /\ cf_list' \in Seq(Entry) /\ Clients' = Clients \ S
      /\ cfe' = [d \in Clients \ S |-> cfe[d]]
      /\ events' = events \ {<<cfe[d].cf_s, d>> : d \in S}
      /\ srv_open' = srv_open \ {cfe[d].cf_s : d \in S}
      /\ freed' = freed \ S
  <2>1. DOMAIN cfe = Clients
    BY <1>2
  <2>2. QED  BY <1>1, <1>2, <2>1, RemoveFlat
<1>4. /\ cfe' \in [Clients \ S -> CfEntry]
      /\ \A d \in Clients \ S : SameFields(cfe'[d], cfe[d])
  BY <1>2, <1>3 DEF SameFields
<1>5. \A s \in Conns : s2c'[s] = s2c[s] /\ Extends(s2c'[s], s2c[s])
  BY <1>1, <1>2, ExtendsItself
<1>6. s2c' = [s \in Conns |-> s2c'[s]]
  BY <1>1, <1>2
<1>7. Forget(S)
  BY <1>1, <1>2, <1>3, <1>4, <1>5, <1>6 DEF Forget
<1>8. QED  BY <1>7 DEF S

(* client_timeout removes the clients that have not registered for long.    *)
LEMMA TimeoutFlat ==
  ASSUME TypeInv, ServerSide, Timeout
  PROVE  \E S \in SUBSET Clients : Forget(S)
<1> DEFINE S == {e \in Clients : cfe[e].cf_timeout = 1}
           contents == [e \in Clients |-> [cfe[e] EXCEPT !.cf_timeout = @ - 1]]
<1>1. /\ Running /\ RemoveClients(S, contents)
      /\ UNCHANGED <<test_id, logs, listening, srv_exit, srv_fault, s2c, c2s>> /\ ClientsKeep
  BY DEF Timeout, client_timeout, ClientsKeep
<1>2. /\ cfe \in [Clients -> CfEntry] /\ s2c \in [Conns -> Seq(SpProto)] /\ S \in SUBSET Clients
      /\ (\A d \in S : cfe[d].cf_s \notin cli_open) \/ "silent" \in Faults
  BY DEF TypeInv, TypeOK, SrvTypeOK, NetTypeOK, Timeout
<1>3. \A d \in Clients \ S : contents[d] \in CfEntry /\ SameFields(contents[d], cfe[d])
  <2>1. TAKE d \in Clients \ S
  <2>2. cfe[d] \in CfEntry /\ cfe[d].cf_timeout # 1
    BY <1>2
  <2>3. contents[d] = [cfe[d] EXCEPT !.cf_timeout = cfe[d].cf_timeout - 1]
    OBVIOUS
  <2>4. cfe[d].cf_timeout - 1 \in 1 .. SP_TIMEOUT_REG_NR
    BY <2>2, ServerAssumption DEF CfEntry
  <2> HIDE DEF contents, S
  <2>5. QED  BY <2>2, <2>3, <2>4 DEF CfEntry, SameFields
<1>a. DOMAIN contents = Clients
  OBVIOUS
<1> HIDE DEF S, contents
<1>4. /\ cf_list' \in Seq(Entry) /\ Clients' = Clients \ S
      /\ cfe' = [d \in Clients \ S |-> contents[d]]
      /\ events' = events \ {<<cfe[d].cf_s, d>> : d \in S}
      /\ srv_open' = srv_open \ {cfe[d].cf_s : d \in S}
      /\ freed' = freed \ S
  BY <1>1, <1>2, <1>a, RemoveFlat
<1>5. /\ cfe' \in [Clients \ S -> CfEntry]
      /\ \A d \in Clients \ S : SameFields(cfe'[d], cfe[d])
  BY <1>3, <1>4
<1>6. \A s \in Conns : s2c'[s] = s2c[s] /\ Extends(s2c'[s], s2c[s])
  BY <1>1, <1>2, ExtendsItself
<1>7. s2c' = [s \in Conns |-> s2c'[s]]
  BY <1>1, <1>2
<1>8. Forget(S)
  BY <1>1, <1>2, <1>4, <1>5, <1>6, <1>7 DEF Forget
<1>9. QED  BY <1>2, <1>8

(* kill_all_clients.                                                        *)
LEMMA KillFlat ==
  ASSUME TypeInv, ServerSide, NEW n \in 1 .. Len(cf_list), Kill(n)
  PROVE  \E S \in SUBSET Clients : Forget(S)
<1> DEFINE S == {cf_list[i] : i \in 1 .. n}
           K(s) == {e \in S : cfe[e].cf_s = s}
           X(s) == LET order == SetToSeq(K(s))
                   IN  [i \in DOMAIN order |-> sp_proto("EXIT", cfe[order[i]].cf_id, FALSE, 0)]
<1>1. /\ Running /\ RemoveClients(S, cfe) /\ "kill" \in Faults
      /\ s2c' = [s \in Conns |-> IF s \notin cli_open THEN s2c[s] ELSE s2c[s] \o X(s)]
      /\ UNCHANGED <<test_id, logs, listening, srv_exit, srv_fault, c2s>> /\ ClientsKeep
  BY DEF Kill, kill_all_clients, ClientsKeep
<1>2. /\ cfe \in [Clients -> CfEntry] /\ s2c \in [Conns -> Seq(SpProto)] /\ cf_list \in Seq(Entry)
  BY DEF TypeInv, TypeOK, SrvTypeOK, NetTypeOK
<1>3. S \in SUBSET Clients /\ \A s : K(s) \in SUBSET Clients
  BY <1>2, ClientsAreListed
<1>4. \A s \in Conns : Extends(s2c[s] \o X(s), s2c[s])
  <2>1. TAKE s \in Conns
  <2>2. X(s) \in Seq(SpProto) /\ \A i \in 1 .. Len(X(s)) : X(s)[i].type = "EXIT"
    <3>1. K(s) \in SUBSET Clients
      BY <1>3
    <3> HIDE DEF K
    <3>2. QED  BY <1>2, <3>1, KillMessages
  <2>3. s2c[s] \in Seq(SpProto)
    BY <1>2
  <2> HIDE DEF X
  <2>4. QED  BY <2>2, <2>3, ExtendsByExits
<1> HIDE DEF S, X
<1>5. /\ cf_list' \in Seq(Entry) /\ Clients' = Clients \ S
      /\ cfe' = [d \in Clients \ S |-> cfe[d]]
      /\ events' = events \ {<<cfe[d].cf_s, d>> : d \in S}
      /\ srv_open' = srv_open \ {cfe[d].cf_s : d \in S}
      /\ freed' = freed \ S
  <2>1. DOMAIN cfe = Clients
    BY <1>2
  <2>2. QED  BY <1>1, <1>3, <2>1, RemoveFlat
<1>6. /\ cfe' \in [Clients \ S -> CfEntry]
      /\ \A d \in Clients \ S : SameFields(cfe'[d], cfe[d])
  BY <1>2, <1>5 DEF SameFields
<1>7. \A s \in Conns : IF s \in cli_open THEN Extends(s2c'[s], s2c[s]) ELSE s2c'[s] = s2c[s]
  BY <1>1, <1>4
<1>8. s2c' = [s \in Conns |-> s2c'[s]]
  BY <1>1
<1>9. Forget(S)
  BY <1>1, <1>3, <1>5, <1>6, <1>7, <1>8 DEF Forget
<1>10. QED  BY <1>3, <1>9

(* udp_input changes the entries that cfe_find_byid found.                  *)
LEMMA ProbeFlat ==
  ASSUME TypeInv, NEW p \in udp, ReadProbe(p)
  PROVE  \E F \in SUBSET Clients : Probed(p, F)
<1> DEFINE F == cfe_find_byid(p.id)
<1>1. cf_list \in Seq(Entry) /\ cfe \in [Clients -> CfEntry]
  BY DEF TypeInv, TypeOK, SrvTypeOK
<1>2. F \subseteq {e \in Clients : cfe[e].cf_id = p.id}
  BY <1>1, FindById
<1>3. Running /\ Probe(p.id, p.from) /\ UNCHANGED <<cliVars, c2s, cli_open, histVars>>
  BY DEF ReadProbe, udp_input
<1>4. Probed(p, F)
  BY <1>1, <1>2, <1>3 DEF Probed, Probe, ListKeeps, ClientsKeep, Clients
<1>5. QED  BY <1>2, <1>4

(* client_startcalls sends two orders, or fails at one of them.             *)
LEMMA OrderFlat ==
  ASSUME TypeInv, ServerSide, NEW e1 \in Clients, NEW e2 \in Clients,
         NEW ok1 \in BOOLEAN, NEW ok2 \in BOOLEAN, StartCalls(e1, e2, ok1, ok2)
  PROVE  \E S1, S2 \in SUBSET Conns : Ordered(e1, e2, S1, S2)
<1> DEFINE s1 == cfe[e1].cf_s
           s2 == cfe[e2].cf_s
           m1 == StartMessage(e1, "START_SEND")
           m2 == StartMessage(e2, "START_RCV")
           S1 == IF ok1 THEN {s1} \cap cli_open ELSE {}
           S2 == IF ok1 /\ ok2 THEN {s2} \cap cli_open ELSE {}
           one == IF ok1 THEN Send(s2c, s1, m1, cli_open) ELSE s2c
           two == IF ok1 /\ ok2 THEN Send(one, s2, m2, cli_open) ELSE one
<1>1. client_startcalls(e1, e2, ok1, ok2) /\ UNCHANGED <<cliVars, c2s, cli_open, histVars>>
  BY DEF StartCalls
<1>2. /\ cfe \in [Clients -> CfEntry] /\ s2c \in [Conns -> Seq(SpProto)]
  BY DEF TypeInv, TypeOK, SrvTypeOK, NetTypeOK
<1>3. s1 \in Conns /\ s2 \in Conns
  BY <1>2 DEF CfEntry
<1>4. Running /\ e1 # e2
  BY <1>1 DEF client_startcalls
<1>5. s1 # s2
  BY <1>4 DEF ServerSide, Sane, ServerEndsOf
<1>6. s2c' = two
  BY <1>1 DEF client_startcalls
<1>7. S1 \subseteq {s1} \cap cli_open /\ S2 \subseteq {s2} \cap cli_open
  OBVIOUS
<1>8. S1 \in SUBSET Conns /\ S2 \in SUBSET Conns
  BY <1>3
<1>9. one = [s \in Conns |-> IF s \in S1 THEN Append(s2c[s], m1) ELSE s2c[s]]
  <2> HIDE DEF m1, s1
  <2>1. QED  BY <1>2, <1>3 DEF Send
<1>10. two = [s \in Conns |-> IF s \in S2 THEN Append(one[s], m2) ELSE one[s]]
  <2> HIDE DEF m2, s2, one
  <2>1. one = [s \in Conns |-> one[s]]
    BY <1>9
  <2>2. QED  BY <2>1, <1>3 DEF Send
<1>11. two = [s \in Conns |-> IF s \in S1 THEN Append(s2c[s], m1)
                              ELSE IF s \in S2 THEN Append(s2c[s], m2) ELSE s2c[s]]
  <2>1. \A s \in Conns : ~(s \in S1 /\ s \in S2)
    BY <1>5, <1>7
  <2> HIDE DEF S1, S2, one, two, m1, m2
  <2>2. QED  BY <1>9, <1>10, <2>1
<1>12. Ordered(e1, e2, S1, S2)
  <2> HIDE DEF S1, S2, two
  <2>1. /\ Running /\ test_id \in Tests /\ test_id' = test_id + 1 /\ e1 # e2
        /\ cfe[e1].cf_state = "CS_IDLE" /\ cfe[e2].cf_state = "CS_IDLE"
        /\ srv_fault' = srv_fault \/ srv_fault' = "assert"
        /\ UNCHANGED <<cf_list, c2s, freed, events, logs, listening>>
    BY <1>1 DEF client_startcalls
  <2>2. \/ /\ cfe' = [cfe EXCEPT ![e1].cf_state = "CS_SEND", ![e1].cf_peer = cfe[e2].cf_id,
                                 ![e2].cf_state = "CS_RCV", ![e2].cf_peer = cfe[e1].cf_id]
           /\ UNCHANGED <<srv_exit, srv_open>>
        \/ cfe' = cfe /\ srv_exit' = 1 /\ srv_open' \subseteq srv_open
    BY <1>1 DEF client_startcalls
  <2>3. QED  BY <1>1, <1>6, <1>7, <1>11, <2>1, <2>2 DEF Ordered, ClientsKeep, Clients
<1>13. QED  BY <1>8, <1>12

(* The loop of the server ends.                                             *)
LEMMA LeavesFlat ==
  ASSUME TypeInv, ServerLeavesLoop
  PROVE  Leaves
<1>1. LeaveLoop /\ UNCHANGED <<cliVars, c2s, cli_open, histVars>>
  BY DEF ServerLeavesLoop
<1>2. cf_list \in Seq(Entry) /\ freed \subseteq Clients
  BY DEF TypeInv, TypeOK, SrvTypeOK
<1>3. CASE cf_list = <<>>
  BY <1>1, <1>2, <1>3 DEF LeaveLoop, sps_exit, Leaves, ClientsKeep, Clients
<1>4. CASE cf_list # <<>>
  <2>1. Head(cf_list) \in Clients
    BY <1>2, <1>4, EmptySeq, ClientsAreListed
  <2>2. freed' \subseteq Clients /\ events' \subseteq events /\ srv_open' \subseteq srv_open
    BY <1>1, <1>2, <1>4, <2>1 DEF LeaveLoop, sps_exit
  <2>3. srv_fault' = srv_fault \/ srv_fault' = "double_free"
    BY <1>1, <1>4 DEF LeaveLoop, sps_exit
  <2>4. QED  BY <1>1, <2>2, <2>3 DEF LeaveLoop, sps_exit, Leaves, ClientsKeep, Clients
<1>5. QED  BY <1>3, <1>4

(* sps_wrapper connects, registers again, or ends the program.              *)
LEMMA WrapperFlat ==
  ASSUME TypeInv, NEW c \in Client, sps_wrapper(c), sp_state[c] = "SS_INIT" => ServerUp,
         UNCHANGED <<srvVars, histVars>>
  PROVE  Updates(c) \/ Dies(c) \/ \E s \in Conns : Connects(c, s)
<1>0. ServerKeeps
  BY DEF ServerKeeps, srvVars, Clients
<1>1. CASE connect_server(c)
  <2> DEFINE s == CHOOSE s \in FreeConns : \A t \in FreeConns : s <= t
  <2>1. FreeConns # {} /\ FreeConns \in SUBSET Nat
    BY <1>1 DEF connect_server, FreeConns, Conns
  <2>2. s \in FreeConns
    BY <2>1, LeastExists
  <2>3. s \in Conns
    BY <2>2 DEF FreeConns
  <2>4. Running
    BY <1>1 DEF connect_server, ServerUp
  <2>5. <<send_register(c).message>> = Append(<<>>, send_register(c).message)
    OBVIOUS
  <2>6. Connects(c, s)
    <3>1. /\ c \in alive /\ sp_state[c] = "SS_INIT"
          /\ sp_s' = [sp_s EXCEPT ![c] = s]
          /\ sp_state' = [sp_state EXCEPT ![c] = "SS_SERVER"]
          /\ cli_open' = cli_open \cup {s} /\ srv_open' = srv_open \cup {s}
          /\ backlog' = Append(backlog, s)
          /\ c2s' = [c2s EXCEPT ![s] = <<send_register(c).message>>]
          /\ s2c' = [s2c EXCEPT ![s] = <<>>]
          /\ udp' = udp \cup {send_register(c).probe}
          /\ UNCHANGED <<sp_id, sp_ds, sp_data, heap, timers, alive>>
      BY <1>1 DEF connect_server
    <3> HIDE DEF s
    <3>2. QED  BY <1>0, <2>2, <2>4, <2>5, <3>1 DEF Connects
  <2>7. QED  BY <2>3, <2>6
<1>2. CASE UpdateRegistration(c)
  BY <1>0, <1>2 DEF Updates
<1>3. CASE c \in alive /\ SendMayFail(c) /\ ProcessEnds(c)
  BY <1>0, <1>3 DEF Dies
<1>4. QED  BY <1>1, <1>2, <1>3 DEF sps_wrapper

(* server_input obeys an order, ignores it, or ends the program.            *)
LEMMA InputFlat ==
  ASSUME TypeInv, NEW c \in Client, server_input(c), UNCHANGED <<srvVars, histVars>>
  PROVE  \/ Dies(c) \/ Disobeys(c)
         \/ \E n \in Address, kind \in Kind, state \in DataState : Obeys(c, n, kind, state)
<1>0. ServerKeeps
  BY DEF ServerKeeps, srvVars, Clients
<1> DEFINE s == sp_s[c]
           sp == Order(c)
           obeyed == sp.id = sp_id[c] /\ sp_state[c] = "SS_SERVER"
<1>1. /\ c \in alive /\ s # 0 /\ s2c[s] # <<>>
      /\ IF sp.id = sp_id[c] /\ sp.type = "EXIT" THEN ProcessEnds(c)
         ELSE /\ s2c' = [s2c EXCEPT ![s] = Tail(@)]
              /\ CASE obeyed /\ sp.type = "START_SEND" -> start_sender(c, sp.testid)
                   [] obeyed /\ sp.type = "START_RCV" -> start_receiver(c, sp.testid)
                   [] OTHER -> UNCHANGED <<cliVars, c2s, srv_open, cli_open>>
  BY DEF server_input, Order
<1> HIDE DEF sp
<1>2. CASE sp.id = sp_id[c] /\ sp.type = "EXIT"
  BY <1>0, <1>1, <1>2 DEF Dies
<1>3. CASE ~(sp.id = sp_id[c] /\ sp.type = "EXIT")
  <2>1. TakesOrder(c)
    BY <1>0, <1>1, <1>3 DEF TakesOrder
  <2>2. CASE obeyed /\ sp.type = "START_SEND"
    <3>1. StartSession(c, "send", sp.testid, "SS_DATA_SEND")
      BY <1>1, <1>3, <2>2 DEF start_sender
    <3>2. PICK n \in Address :
            /\ heap[c][n] = {}
            /\ heap' = [heap EXCEPT ![c][n] = {[kind |-> "send", testid |-> sp.testid]}]
            /\ sp_data' = [sp_data EXCEPT ![c] = n]
            /\ timers' = [timers EXCEPT ![c][<<n, "send">>] = @ + 1]
            /\ sp_state' = [sp_state EXCEPT ![c] = "SS_DATA_SEND"]
            /\ UNCHANGED <<sp_id, sp_ds, sp_s, alive, backlog, udp, c2s, srv_open, cli_open>>
      BY <3>1 DEF StartSession
    <3>3. Obeys(c, n, "send", "SS_DATA_SEND")
      BY <2>1, <2>2, <3>2 DEF Obeys, sp
    <3>4. "send" \in Kind /\ "SS_DATA_SEND" \in DataState
      BY DEF Kind, DataState, SpcState
    <3>5. QED  BY <3>3, <3>4
  <2>3. CASE obeyed /\ sp.type = "START_RCV"
    <3>1. StartSession(c, "rcv", sp.testid, "SS_DATA_RCV")
      BY <1>1, <1>3, <2>3 DEF start_receiver
    <3>2. PICK n \in Address :
            /\ heap[c][n] = {}
            /\ heap' = [heap EXCEPT ![c][n] = {[kind |-> "rcv", testid |-> sp.testid]}]
            /\ sp_data' = [sp_data EXCEPT ![c] = n]
            /\ timers' = [timers EXCEPT ![c][<<n, "rcv">>] = @ + 1]
            /\ sp_state' = [sp_state EXCEPT ![c] = "SS_DATA_RCV"]
            /\ UNCHANGED <<sp_id, sp_ds, sp_s, alive, backlog, udp, c2s, srv_open, cli_open>>
      BY <3>1 DEF StartSession
    <3>3. Obeys(c, n, "rcv", "SS_DATA_RCV")
      BY <2>1, <2>3, <3>2 DEF Obeys, sp
    <3>4. "rcv" \in Kind /\ "SS_DATA_RCV" \in DataState
      BY DEF Kind, DataState, SpcState
    <3>5. QED  BY <3>3, <3>4
  <2>4. CASE ~(obeyed /\ sp.type \in {"START_SEND", "START_RCV"})
    BY <1>1, <1>3, <2>1, <2>4 DEF Disobeys
  <2>5. QED  BY <2>2, <2>3, <2>4
<1>4. QED  BY <1>2, <1>3

(* rcv_timeout and send_data_wrapper end a call, go on with it, find its    *)
(* session gone, or end the program.                                        *)
LEMMA TimeoutOfSessionFlat ==
  ASSUME TypeInv, NEW c \in Client, NEW n \in Address, NEW kind \in Kind,
         SessionTimeout(c, n, kind), UNCHANGED <<srvVars, histVars>>
  PROVE  \/ Dies(c) \/ Stops(c, n) \/ Expires(c, n, kind)
         \/ \E report \in SpProto : CallEnds(c, n, kind, report)
<1>0. ServerKeeps
  BY DEF ServerKeeps, srvVars, Clients
<1>1. c \in alive /\ timers[c][<<n, kind>>] > 0
  BY DEF SessionTimeout
<1>2. sp_id[c] \in Nat /\ TestIds(c, n) \subseteq Nat
  <2>1. sp_id[c] \in Ids /\ heap[c][n] \subseteq Session
    BY DEF TypeInv, TypeOK, CliTypeOK
  <2>2. \A ses \in heap[c][n] : ses.testid \in Nat
    BY <2>1 DEF Session
  <2>3. TestIds(c, n) \subseteq Nat
    BY <2>2 DEF TestIds
  <2>4. QED  BY <2>1, <2>3, NetAssumption
<1>3. CASE kind = "rcv" /\ rcv_timeout(c, n)
  <2>1. CASE sp_state[c] = "SS_DATA_RCV"
    <3>1. PICK testid \in TestIds(c, n) : EndCall(c, n, "rcv", sp_proto("REPORT_RCV", sp_id[c], FALSE, testid))
      BY <1>3, <2>1 DEF rcv_timeout, send_rcv_report
    <3> DEFINE report == sp_proto("REPORT_RCV", sp_id[c], FALSE, testid)
    <3>2. report \in SpProto /\ report.id = sp_id[c] /\ report.testid = testid /\ report.type = "REPORT_RCV"
      BY <1>2 DEF sp_proto, SpProto, SpType
    <3> HIDE DEF report
    <3>3. CallEnds(c, n, kind, report)
      BY <1>0, <1>1, <1>3, <2>1, <3>1, <3>2 DEF CallEnds, report
    <3>4. QED  BY <3>2, <3>3
  <2>2. CASE sp_state[c] # "SS_DATA_RCV"
    <3>1. TimerExpires(c, n, kind)
      BY <1>3, <2>2 DEF rcv_timeout
    <3>2. Expires(c, n, kind)
      BY <1>0, <1>1, <1>3, <2>2, <3>1 DEF Expires, KindOf
    <3>3. QED  BY <3>2
  <2>3. QED  BY <2>1, <2>2
<1>4. CASE kind = "send" /\ send_data_wrapper(c, n)
  <2>1. CASE sp_state[c] = "SS_DATA_SEND_CLOSING"
    <3>1. PICK testid \in TestIds(c, n) : EndCall(c, n, "send", sp_proto("REPORT_SEND", sp_id[c], FALSE, testid))
      BY <1>4, <2>1 DEF send_data_wrapper, send_send_report
    <3> DEFINE report == sp_proto("REPORT_SEND", sp_id[c], FALSE, testid)
    <3>2. report \in SpProto /\ report.id = sp_id[c] /\ report.testid = testid /\ report.type = "REPORT_SEND"
      BY <1>2 DEF sp_proto, SpProto, SpType
    <3> HIDE DEF report
    <3>3. CallEnds(c, n, kind, report)
      BY <1>0, <1>1, <1>4, <2>1, <3>1, <3>2 DEF CallEnds, report
    <3>4. QED  BY <3>2, <3>3
  <2>2. CASE sp_state[c] = "SS_DATA_SEND"
    <3>1. StopSending(c)
      BY <1>4, <2>2 DEF send_data_wrapper
    <3>2. Stops(c, n)
      BY <1>0, <1>1, <1>4, <2>2, <3>1 DEF Stops
    <3>3. QED  BY <3>2
  <2>3. CASE sp_state[c] \notin {"SS_DATA_SEND", "SS_DATA_SEND_CLOSING"}
    <3>1. TimerExpires(c, n, kind)
      BY <1>4, <2>3 DEF send_data_wrapper
    <3>2. sp_state[c] \in DataState => sp_state[c] = "SS_DATA_RCV"
      BY <2>3 DEF DataState, SpcState
    <3>3. Expires(c, n, kind)
      BY <1>0, <1>1, <1>4, <3>1, <3>2 DEF Expires, KindOf
    <3>4. QED  BY <3>3
  <2>4. QED  BY <2>1, <2>2, <2>3
<1>5. CASE ProcessEnds(c)
  BY <1>0, <1>1, <1>5 DEF Dies
<1>6. QED  BY <1>3, <1>4, <1>5 DEF SessionTimeout

(* Every step is one of those above.                                       *)
LEMMA Flat ==
  ASSUME TypeInv, ServerSide, [Next]_vars
  PROVE  ServerStep \/ ClientStep \/ Stutters
<1>1. CASE Accept
  BY <1>1, AcceptFlat DEF ServerStep
<1>2. CASE \E e \in Clients, outcome \in Outcomes : ReadMessage(e, outcome)
  BY <1>2, ReadFlat DEF ServerStep
<1>3. CASE \E e \in Clients : ReadClose(e)
  <2>1. PICK e \in Clients : ReadClose(e)
    BY <1>3
  <2>2. Forget({e}) /\ {e} \in SUBSET Clients
    BY <2>1, CloseFlat
  <2>3. QED  BY <2>2 DEF ServerStep
<1>4. CASE \E p \in udp : ReadProbe(p)
  BY <1>4, ProbeFlat DEF ServerStep
<1>5. CASE \E e1, e2 \in Clients, ok1, ok2 \in BOOLEAN : StartCalls(e1, e2, ok1, ok2)
  <2>1. PICK e1 \in Clients, e2 \in Clients, ok1 \in BOOLEAN, ok2 \in BOOLEAN :
          StartCalls(e1, e2, ok1, ok2)
    BY <1>5
  <2>2. \E S1, S2 \in SUBSET Conns : Ordered(e1, e2, S1, S2)
    BY <2>1, OrderFlat
  <2>3. QED  BY <2>2 DEF ServerStep
<1>6. CASE Timeout
  BY <1>6, TimeoutFlat DEF ServerStep
<1>7. CASE \E n \in 1 .. Len(cf_list) : Kill(n)
  BY <1>7, KillFlat DEF ServerStep
<1>8. CASE ServerLeavesLoop
  BY <1>8, LeavesFlat DEF ServerStep
<1>9. CASE ServerEnds
  <2>1. Clients' = {}
    BY <1>9 DEF ServerEnds, Clients, Range
  <2>2. QED  BY <1>9, <2>1 DEF ServerStep, Ends
<1>10. CASE ServerStarts
  <2>1. Clients' = Clients
    BY <1>10 DEF ServerStarts, Clients
  <2>2. QED  BY <1>10, <2>1 DEF ServerStep, Starts
<1>11. CASE \E c \in Client : ClientAction(c)
  <2>1. PICK c \in Client : ClientAction(c)
    BY <1>11
  <2>2. UNCHANGED <<srvVars, histVars>>
    BY <2>1 DEF ClientAction
  <2>3. CASE sps_wrapper(c) /\ (sp_state[c] = "SS_INIT" => ServerUp)
    BY <2>2, <2>3, WrapperFlat DEF ClientStep
  <2>4. CASE spc_state2init(c)
    BY <2>2, <2>4 DEF ClientStep, Disconnects, ServerKeeps, srvVars, Clients
  <2>5. CASE server_input(c)
    BY <2>2, <2>5, InputFlat DEF ClientStep
  <2>6. CASE \E n \in Address, kind \in Kind : SessionTimeout(c, n, kind)
    <3>1. PICK n \in Address, kind \in Kind : SessionTimeout(c, n, kind)
      BY <2>6
    <3>2. \/ Dies(c) \/ Stops(c, n) \/ Expires(c, n, kind)
          \/ \E report \in SpProto : CallEnds(c, n, kind, report)
      BY <2>2, <3>1, TimeoutOfSessionFlat
    <3>3. QED  BY <3>2 DEF ClientStep
  <2>7. CASE ClientStops(c)
    BY <2>2, <2>7 DEF ClientStep, ClientStops, Dies, ServerKeeps, srvVars, Clients
  <2>8. QED  BY <2>1, <2>3, <2>4, <2>5, <2>6, <2>7 DEF ClientAction
<1>12. CASE \E c \in Client, id \in Ids, addr \in UdpAddrs : ClientRestarts(c, id, addr)
  <2>1. PICK c \in Client, id \in Ids, addr \in UdpAddrs : ClientRestarts(c, id, addr)
    BY <1>12
  <2>2. Clients' = Clients
    BY <2>1 DEF ClientRestarts, srvVars, Clients
  <2>3. QED  BY <2>1, <2>2 DEF ClientStep, Restarts
<1>13. CASE UNCHANGED vars
  BY <1>13 DEF Stutters, vars, srvVars, Clients
<1>14. QED
  BY <1>1, <1>2, <1>3, <1>4, <1>5, <1>6, <1>7, <1>8, <1>9, <1>10, <1>11, <1>12, <1>13 DEF Next

-----------------------------------------------------------------------------
(* Types *)

\* The types that the entries and the messages of a step have.
LEMMA ConnsOfClients ==
  ASSUME TypeInv
  PROVE  /\ \A e \in Clients : cfe[e] \in CfEntry /\ cfe[e].cf_s \in Conns /\ cfe[e].cf_id \in Nat
         /\ \A s \in Conns : c2s[s] \in Seq(SpProto) /\ s2c[s] \in Seq(SpProto)
         /\ \A c \in Client : sp_id[c] \in Nat /\ (sp_s[c] # 0 => sp_s[c] \in Conns)
         /\ Clients \subseteq Entry /\ cf_list \in Seq(Entry)
         /\ c2s \in [Conns -> Seq(SpProto)] /\ s2c \in [Conns -> Seq(SpProto)]
         /\ cfe \in [Clients -> CfEntry]
<1>1. /\ c2s \in [Conns -> Seq(SpProto)] /\ s2c \in [Conns -> Seq(SpProto)]
      /\ cfe \in [Clients -> CfEntry] /\ cf_list \in Seq(Entry)
  BY DEF TypeInv, TypeOK, NetTypeOK, SrvTypeOK
<1>2. Clients \subseteq Entry
  BY <1>1, ClientsAreListed
<1>3. \A e \in Clients : cfe[e] \in CfEntry /\ cfe[e].cf_s \in Conns /\ cfe[e].cf_id \in Nat
  BY <1>1 DEF CfEntry
<1>4. \A c \in Client : sp_id[c] \in Ids /\ sp_s[c] \in 0 .. MaxConns
  BY DEF TypeInv, TypeOK, CliTypeOK
<1>5. \A c \in Client : sp_id[c] \in Nat /\ (sp_s[c] # 0 => sp_s[c] \in Conns)
  <2>1. \A s \in 0 .. MaxConns : s # 0 => s \in Conns
    BY NetAssumption DEF Conns
  <2>2. \A id \in Ids : id \in Nat
    BY NetAssumption
  <2>3. QED  BY <1>4, <2>1, <2>2, Zenon
<1>6. \A s \in Conns : c2s[s] \in Seq(SpProto) /\ s2c[s] \in Seq(SpProto)
  BY <1>1
<1>7. QED  BY <1>1, <1>2, <1>3, <1>5, <1>6, Zenon

\* Parts of the invariant that a step does not touch.
LEMMA CliTypeKept ==
  ASSUME CliTypeOK, UNCHANGED cliVars
  PROVE  CliTypeOK'
BY DEF CliTypeOK, cliVars

(* The same for the server.                                                 *)
LEMMA SrvTypeKept ==
  ASSUME SrvTypeOK, UNCHANGED srvVars, Clients' = Clients
  PROVE  SrvTypeOK'
BY DEF SrvTypeOK, srvVars

(* The type invariant, step by step: connect_input,                         *)
LEMMA NewClientType ==
  ASSUME TypeInv, NEW e \in Entry, NewClient(e)
  PROVE  TypeInv'
<1> DEFINE s == Head(backlog)
<1>1. backlog \in Seq(Conns) /\ backlog # <<>>
  BY DEF TypeInv, TypeOK, CliTypeOK, NewClient
<1>2. s \in Conns /\ Tail(backlog) \in Seq(Conns)
  BY <1>1, HeadTailProperties
<1> HIDE DEF s
<1>3. cfe_new(s, s) \in CfEntry
  BY <1>2, ServerAssumption, ProtocolAssumption DEF cfe_new, CfEntry, ClientState
<1>4. cfe' = [d \in Clients \cup {e} |-> IF d = e THEN cfe_new(s, s) ELSE cfe[d]]
  BY DEF NewClient, s
<1>5. cfe' \in [Clients' -> CfEntry]
  <2>1. Clients' = Clients \cup {e}
    BY DEF NewClient
  <2>2. QED  BY <1>3, <1>4, <2>1, ConnsOfClients
<1>6. NetTypeOK'
  BY <1>2 DEF NewClient, TypeInv, TypeOK, NetTypeOK, s
<1>7. SrvTypeOK'
  BY <1>2, <1>5 DEF NewClient, TypeInv, TypeOK, SrvTypeOK, s
<1>8. CliTypeOK' /\ drawn' \subseteq Ids
  BY <1>2 DEF NewClient, TypeInv, TypeOK, CliTypeOK, histVars
<1>9. MessageTypes'
  BY DEF NewClient, TypeInv, MessageTypes
<1>10. QED  BY <1>6, <1>7, <1>8, <1>9 DEF TypeInv, TypeOK

\* The queues after a message was read.
LEMMA ReadsType ==
  ASSUME TypeInv, NEW e \in Clients, Reads(e), srv_open' \subseteq srv_open
  PROVE  /\ NetTypeOK' /\ CliTypeOK' /\ drawn' \subseteq Ids /\ MessageTypes'
         /\ First(e) \in SpProto
<1> DEFINE s == cfe[e].cf_s
           q == c2s[s]
<1>1. s \in Conns /\ q \in Seq(SpProto) /\ q # <<>> /\ c2s \in [Conns -> Seq(SpProto)]
  BY ConnsOfClients DEF Reads
<1>2. Tail(q) \in Seq(SpProto) /\ Head(q) \in SpProto /\ \A K : None(q, K) => None(Tail(q), K)
  BY <1>1, TailQueue
<1>3. c2s' = [c2s EXCEPT ![s] = Tail(q)] /\ UNCHANGED <<s2c, cli_open>>
  BY DEF Reads, ClientsKeep
<1> HIDE DEF s, q
<1>4. NetTypeOK'
  BY <1>1, <1>2, <1>3 DEF TypeInv, TypeOK, NetTypeOK
<1>5. \A r \in Conns : c2s'[r] = IF r = s THEN Tail(q) ELSE c2s[r]
  BY <1>1, <1>3
<1>6. MessageTypes'
  BY <1>1, <1>2, <1>3, <1>5 DEF TypeInv, MessageTypes, q
<1>7. CliTypeOK'
  BY CliTypeKept DEF Reads, ClientsKeep, TypeInv, TypeOK
<1>8. drawn' \subseteq Ids
  BY DEF Reads, ClientsKeep, histVars, TypeInv, TypeOK
<1>9. QED  BY <1>2, <1>4, <1>6, <1>7, <1>8 DEF First, q, s

(* the log of a measurement,                                                *)
LEMMA WritesType ==
  ASSUME TypeInv, NEW e \in Clients, Writes(e)
  PROVE  logs' \in [Tests -> Nat]
<1>1. logs \in [Tests -> Nat]
  BY DEF TypeInv, TypeOK, SrvTypeOK
<1>2. QED  BY <1>1 DEF Writes

(* client_input,                                                            *)
LEMMA ReadType ==
  ASSUME TypeInv, NEW e \in Clients,
         ReadRegister(e) \/ ReadReport(e) \/ ReadFails(e) \/ ReadReset(e) \/ ReadIgnored(e)
  PROVE  TypeInv'
<1>0. Reads(e) /\ srv_open' \subseteq srv_open
  BY DEF ReadRegister, ReadReport, ReadFails, ReadReset, ReadIgnored, ListKeeps
<1>1. NetTypeOK' /\ CliTypeOK' /\ drawn' \subseteq Ids /\ MessageTypes' /\ First(e) \in SpProto
  BY <1>0, ReadsType
<1>2. /\ cf_list \in Seq(Entry) /\ freed \subseteq Clients /\ cfe \in [Clients -> CfEntry]
      /\ events \subseteq Conns \X Entry /\ test_id' \in 0 .. MaxTests
      /\ logs \in [Tests -> Nat] /\ listening' \in BOOLEAN /\ srv_exit \in 0 .. 3
      /\ srv_fault \in {"none", "use_after_free", "double_free", "assert"}
      /\ cfe[e] \in CfEntry
  BY <1>0 DEF TypeInv, TypeOK, SrvTypeOK, Reads
<1>3. CASE ReadRegister(e)
  <2> DEFINE new == [cfe[e] EXCEPT !.cf_timeout = SP_TIMEOUT_REG_NR, !.cf_id = First(e).id,
                                   !.cf_peer = IF First(e).busy THEN cfe[e].cf_peer ELSE 0]
  <2>1. cfe' = [cfe EXCEPT ![e] = new]
    BY <1>2, <1>3 DEF ReadRegister, Register
  <2>2. new \in CfEntry
    <3>1. First(e).id \in Nat /\ SP_TIMEOUT_REG_NR \in 1 .. SP_TIMEOUT_REG_NR
      BY <1>1, ServerAssumption DEF SpProto
    <3>2. QED  BY <1>2, <3>1 DEF CfEntry
  <2> HIDE DEF new
  <2>3. cfe' \in [Clients -> CfEntry]
    BY <1>2, <2>1, <2>2
  <2>4. SrvTypeOK'
    BY <1>2, <1>3, <2>3 DEF SrvTypeOK, ReadRegister, ListKeeps
  <2>5. QED  BY <1>1, <2>4 DEF TypeInv, TypeOK
<1>4. CASE ReadReport(e)
  <2> DEFINE new == [cfe[e] EXCEPT !.cf_state = "CS_IDLE", !.cf_peer = 0]
  <2>1. cfe' = [cfe EXCEPT ![e] = new]
    BY <1>2, <1>4 DEF ReadReport, MarkIdle
  <2>2. new \in CfEntry
    BY <1>2 DEF CfEntry, ClientState
  <2> HIDE DEF new
  <2>3. cfe' \in [Clients -> CfEntry]
    BY <1>2, <2>1, <2>2
  <2>a. logs' \in [Tests -> Nat]
    BY <1>4, WritesType DEF ReadReport
  <2>4. SrvTypeOK'
    BY <1>2, <1>4, <2>3, <2>a DEF SrvTypeOK, ReadReport, ListKeeps
  <2>5. QED  BY <1>1, <2>4 DEF TypeInv, TypeOK
<1>5. CASE ReadFails(e)
  <2>a. logs' \in [Tests -> Nat]
    BY <1>5, WritesType DEF ReadFails
  <2>4. SrvTypeOK'
    BY <1>2, <1>5, <2>a DEF SrvTypeOK, ReadFails, ListKeeps
  <2>5. QED  BY <1>1, <2>4 DEF TypeInv, TypeOK
<1>6. CASE ReadReset(e)
  <2>a. logs' \in [Tests -> Nat]
    BY <1>6, WritesType DEF ReadReset
  <2>1. cfe' \in [Clients' -> CfEntry]
    BY <1>2, <1>6 DEF ReadReset
  <2>2. freed' \subseteq Clients' /\ events' \subseteq Conns \X Entry
    BY <1>2, <1>6 DEF ReadReset
  <2>4. SrvTypeOK'
    BY <1>2, <1>6, <2>1, <2>2, <2>a DEF SrvTypeOK, ReadReset
  <2>5. QED  BY <1>1, <2>4 DEF TypeInv, TypeOK
<1>7. CASE ReadIgnored(e)
  <2>4. SrvTypeOK'
    BY <1>2, <1>7 DEF SrvTypeOK, ReadIgnored, ListKeeps
  <2>5. QED  BY <1>1, <2>4 DEF TypeInv, TypeOK
<1>8. QED  BY <1>3, <1>4, <1>5, <1>6, <1>7

(* clients that are removed,                                                *)
LEMMA ForgetType ==
  ASSUME TypeInv, NEW S \in SUBSET Clients, Forget(S)
  PROVE  TypeInv'
<1>1. \A s \in Conns : s2c'[s] \in Seq(SpProto) /\ \A K : "EXIT" \notin K /\ None(s2c[s], K) => None(s2c'[s], K)
  <2>1. TAKE s \in Conns
  <2>2. s2c[s] \in Seq(SpProto)
    BY ConnsOfClients
  <2>3. Extends(s2c'[s], s2c[s])
    BY <2>2, ExtendsItself DEF Forget
  <2>4. QED  BY <2>3 DEF Extends
<1>2. s2c' \in [Conns -> Seq(SpProto)]
  BY <1>1 DEF Forget
<1>3. NetTypeOK'
  BY <1>2 DEF Forget, ClientsKeep, TypeInv, TypeOK, NetTypeOK
<1>4. MessageTypes'
  <2>1. "EXIT" \notin SpType \ ({"EXIT"} \cup Start)
    OBVIOUS
  <2>2. UNCHANGED c2s
    BY DEF Forget
  <2>3. QED  BY <1>1, <2>1, <2>2 DEF TypeInv, MessageTypes
<1>5. freed' \subseteq Clients' /\ events' \subseteq Conns \X Entry
  BY DEF Forget, TypeInv, TypeOK, SrvTypeOK
<1>6. SrvTypeOK'
  BY <1>5 DEF Forget, TypeInv, TypeOK, SrvTypeOK
<1>7. CliTypeOK'
  BY CliTypeKept DEF Forget, ClientsKeep, TypeInv, TypeOK
<1>8. drawn' \subseteq Ids
  BY DEF Forget, ClientsKeep, histVars, TypeInv, TypeOK
<1>9. QED  BY <1>3, <1>4, <1>6, <1>7, <1>8 DEF TypeInv, TypeOK

\* Probed, entry by entry.
LEMMA ProbedEntries ==
  ASSUME TypeInv, NEW p \in udp, NEW F \in SUBSET Clients, Probed(p, F)
  PROVE  /\ cfe' \in [Clients -> CfEntry]
         /\ \A e \in Clients : cfe'[e].cf_s = cfe[e].cf_s /\ cfe'[e].cf_id = cfe[e].cf_id
                               /\ cfe'[e].cf_addr = cfe[e].cf_addr
         /\ \A e \in Clients : \/ /\ cfe'[e].cf_state = cfe[e].cf_state
                                  /\ cfe'[e].cf_pub = cfe[e].cf_pub
                               \/ /\ cfe[e].cf_id = p.id /\ cfe'[e].cf_pub = {p.from}
                                  /\ \/ cfe'[e].cf_state = cfe[e].cf_state
                                     \/ /\ cfe[e].cf_state = "CS_INIT"
                                        /\ cfe'[e].cf_state = "CS_IDLE"
<1> DEFINE new(e) == [cfe[e] EXCEPT
                       !.cf_timeout = SP_TIMEOUT_REG_NR,
                       !.cf_pub = {p.from},
                       !.cf_state = IF @ = "CS_INIT" THEN "CS_IDLE" ELSE @]
<1>1. cfe' = [e \in Clients |-> IF e \notin F \/ cfe[e].cf_pub = {p.from} THEN cfe[e] ELSE new(e)]
  BY DEF Probed
<1>2. {p.from} \subseteq Addrs /\ SP_TIMEOUT_REG_NR \in 1 .. SP_TIMEOUT_REG_NR
  BY ProtocolAssumption, ServerAssumption DEF TypeInv, TypeOK, CliTypeOK
<1>3. \A e \in Clients : cfe[e] \in CfEntry
  BY ConnsOfClients
<1>4. \A e \in Clients :
        /\ new(e) \in CfEntry
        /\ new(e).cf_s = cfe[e].cf_s /\ new(e).cf_id = cfe[e].cf_id
        /\ new(e).cf_addr = cfe[e].cf_addr /\ new(e).cf_pub = {p.from}
        /\ new(e).cf_state = IF cfe[e].cf_state = "CS_INIT" THEN "CS_IDLE" ELSE cfe[e].cf_state
  BY <1>2, <1>3 DEF CfEntry, ClientState
<1>5. \A e \in F : cfe[e].cf_id = p.id
  BY DEF Probed
<1> HIDE DEF new
<1>6. \A e \in Clients : cfe'[e] = cfe[e] \/ (e \in F /\ cfe'[e] = new(e))
  BY <1>1
<1>7. cfe' \in [Clients -> CfEntry]
  BY <1>1, <1>3, <1>4
<1>8. QED  BY <1>4, <1>5, <1>6, <1>7

(* udp_input,                                                               *)
LEMMA ProbedType ==
  ASSUME TypeInv, NEW p \in udp, NEW F \in SUBSET Clients, Probed(p, F)
  PROVE  TypeInv'
<1>1. cfe' \in [Clients -> CfEntry]
  BY ProbedEntries
<1>2. SrvTypeOK'
  BY <1>1 DEF Probed, ListKeeps, TypeInv, TypeOK, SrvTypeOK
<1>3. NetTypeOK'
  BY DEF Probed, ListKeeps, ClientsKeep, TypeInv, TypeOK, NetTypeOK
<1>4. MessageTypes'
  BY DEF Probed, TypeInv, MessageTypes
<1>5. CliTypeOK'
  BY CliTypeKept DEF Probed, ClientsKeep, TypeInv, TypeOK
<1>6. drawn' \subseteq Ids
  BY DEF Probed, ClientsKeep, histVars, TypeInv, TypeOK
<1>7. QED  BY <1>2, <1>3, <1>4, <1>5, <1>6 DEF TypeInv, TypeOK

\* Ordered, entry by entry and queue by queue.
LEMMA OrderedEntries ==
  ASSUME TypeInv, NEW e1 \in Clients, NEW e2 \in Clients, NEW S1, NEW S2, Ordered(e1, e2, S1, S2)
  PROVE  /\ cfe' \in [Clients -> CfEntry]
         /\ \A e \in Clients : cfe'[e].cf_s = cfe[e].cf_s /\ cfe'[e].cf_id = cfe[e].cf_id
                               /\ cfe'[e].cf_addr = cfe[e].cf_addr /\ cfe'[e].cf_pub = cfe[e].cf_pub
         /\ \A e \in Clients : e \notin {e1, e2} => cfe'[e].cf_state = cfe[e].cf_state
         /\ Running' => \A e \in {e1, e2} : cfe'[e].cf_state \in {"CS_SEND", "CS_RCV"}
<1>1. cfe \in [Clients -> CfEntry] /\ e1 # e2
  BY ConnsOfClients DEF Ordered
<1>2. CASE cfe' = cfe /\ srv_exit' = 1
  BY <1>1, <1>2 DEF Running
<1>3. CASE cfe' = [cfe EXCEPT ![e1].cf_state = "CS_SEND", ![e1].cf_peer = cfe[e2].cf_id,
                              ![e2].cf_state = "CS_RCV", ![e2].cf_peer = cfe[e1].cf_id]
  <2> DEFINE n1 == [cfe[e1] EXCEPT !.cf_state = "CS_SEND", !.cf_peer = cfe[e2].cf_id]
             n2 == [cfe[e2] EXCEPT !.cf_state = "CS_RCV", !.cf_peer = cfe[e1].cf_id]
  <2>1. cfe' = [cfe EXCEPT ![e1] = n1, ![e2] = n2]
    BY <1>1, <1>3
  <2>2. /\ n1 \in CfEntry /\ n1.cf_state = "CS_SEND" /\ n1.cf_s = cfe[e1].cf_s
        /\ n1.cf_id = cfe[e1].cf_id /\ n1.cf_addr = cfe[e1].cf_addr /\ n1.cf_pub = cfe[e1].cf_pub
    BY <1>1 DEF CfEntry, ClientState
  <2>3. /\ n2 \in CfEntry /\ n2.cf_state = "CS_RCV" /\ n2.cf_s = cfe[e2].cf_s
        /\ n2.cf_id = cfe[e2].cf_id /\ n2.cf_addr = cfe[e2].cf_addr /\ n2.cf_pub = cfe[e2].cf_pub
    BY <1>1 DEF CfEntry, ClientState
  <2> HIDE DEF n1, n2
  <2>4. /\ cfe' \in [Clients -> CfEntry] /\ cfe'[e1] = n1 /\ cfe'[e2] = n2
        /\ \A e \in Clients : e \notin {e1, e2} => cfe'[e] = cfe[e]
    BY <1>1, <2>1, <2>2, <2>3
  <2>5. QED  BY <2>2, <2>3, <2>4
<1>4. QED  BY <1>2, <1>3 DEF Ordered

(* The orders that client_startcalls sends.                                 *)
LEMMA OrderedQueues ==
  ASSUME TypeInv, NEW e1 \in Clients, NEW e2 \in Clients, NEW S1, NEW S2, Ordered(e1, e2, S1, S2)
  PROVE  /\ StartMessage(e1, "START_SEND") \in SpProto /\ StartMessage(e2, "START_RCV") \in SpProto
         /\ s2c' \in [Conns -> Seq(SpProto)]
         /\ \A s \in Conns : s2c'[s] = IF s \in S1 THEN Append(s2c[s], StartMessage(e1, "START_SEND"))
                                       ELSE IF s \in S2 THEN Append(s2c[s], StartMessage(e2, "START_RCV"))
                                       ELSE s2c[s]
<1> DEFINE m1 == StartMessage(e1, "START_SEND")
           m2 == StartMessage(e2, "START_RCV")
<1>1. test_id \in Nat
  BY ServerAssumption DEF TypeInv, TypeOK, SrvTypeOK
<1>2. m1 \in SpProto /\ m2 \in SpProto
  BY <1>1, ConnsOfClients DEF StartMessage, sp_proto, SpProto, SpType
<1> HIDE DEF m1, m2
<1>3. s2c' = [s \in Conns |-> IF s \in S1 THEN Append(s2c[s], m1)
                              ELSE IF s \in S2 THEN Append(s2c[s], m2) ELSE s2c[s]]
  BY DEF Ordered, m1, m2
<1>4. \A s \in Conns : /\ s2c[s] \in Seq(SpProto) /\ Append(s2c[s], m1) \in Seq(SpProto)
                       /\ Append(s2c[s], m2) \in Seq(SpProto)
  BY <1>2, ConnsOfClients, AppendQueue
<1>5. s2c' \in [Conns -> Seq(SpProto)]
  BY <1>3, <1>4
<1>6. QED  BY <1>2, <1>3, <1>5 DEF m1, m2

(* client_startcalls,                                                       *)
LEMMA OrderedType ==
  ASSUME TypeInv, NEW e1 \in Clients, NEW e2 \in Clients, NEW S1 \in SUBSET Conns,
         NEW S2 \in SUBSET Conns, Ordered(e1, e2, S1, S2)
  PROVE  TypeInv'
<1>1. cfe' \in [Clients -> CfEntry]
  BY OrderedEntries
<1>2. s2c' \in [Conns -> Seq(SpProto)]
  BY OrderedQueues
<1>3. test_id' \in 0 .. MaxTests
  BY ServerAssumption DEF Ordered, Tests
<1>4. SrvTypeOK'
  BY <1>1, <1>3 DEF Ordered, TypeInv, TypeOK, SrvTypeOK
<1>5. NetTypeOK'
  BY <1>2 DEF Ordered, ClientsKeep, TypeInv, TypeOK, NetTypeOK
<1>6. MessageTypes'
  <2> DEFINE m1 == StartMessage(e1, "START_SEND")
             m2 == StartMessage(e2, "START_RCV")
             K == SpType \ ({"EXIT"} \cup Start)
  <2>1. m1.type \notin K /\ m2.type \notin K
    BY DEF StartMessage, sp_proto, Start
  <2>2. /\ m1 \in SpProto /\ m2 \in SpProto
        /\ \A s \in Conns : s2c'[s] = IF s \in S1 THEN Append(s2c[s], m1)
                              ELSE IF s \in S2 THEN Append(s2c[s], m2) ELSE s2c[s]
    BY OrderedQueues
  <2>3. \A s \in Conns : None(s2c[s], K) /\ s2c[s] \in Seq(SpProto)
    BY ConnsOfClients DEF TypeInv, MessageTypes
  <2> HIDE DEF m1, m2, K
  <2>4. \A s \in Conns : None(Append(s2c[s], m1), K) /\ None(Append(s2c[s], m2), K)
    BY <2>1, <2>2, <2>3, AppendQueue
  <2>5. \A s \in Conns : None(s2c'[s], K)
    BY <2>2, <2>3, <2>4
  <2>6. UNCHANGED c2s
    BY DEF Ordered
  <2>7. QED  BY <2>5, <2>6 DEF TypeInv, MessageTypes, K
<1>7. CliTypeOK'
  BY CliTypeKept DEF Ordered, ClientsKeep, TypeInv, TypeOK
<1>8. drawn' \subseteq Ids
  BY DEF Ordered, ClientsKeep, histVars, TypeInv, TypeOK
<1>9. QED  BY <1>4, <1>5, <1>6, <1>7, <1>8 DEF TypeInv, TypeOK

(* the server's loop ends,                                                  *)
LEMMA LeavesType ==
  ASSUME TypeInv, Leaves
  PROVE  TypeInv'
<1>1. SrvTypeOK'
  <2>1. /\ cf_list' \in Seq(Entry) /\ freed' \subseteq Clients'
        /\ cfe' \in [Clients' -> CfEntry] /\ events' \subseteq Conns \X Entry
    BY DEF Leaves, TypeInv, TypeOK, SrvTypeOK
  <2>2. test_id' \in 0 .. MaxTests /\ logs' \in [Tests -> Nat] /\ listening' \in BOOLEAN
    BY DEF Leaves, TypeInv, TypeOK, SrvTypeOK
  <2>3. srv_exit' \in 0 .. 3 /\ srv_fault' \in {"none", "use_after_free", "double_free", "assert"}
    BY DEF Leaves, TypeInv, TypeOK, SrvTypeOK
  <2>4. QED  BY <2>1, <2>2, <2>3 DEF SrvTypeOK
<1>2. NetTypeOK'
  BY DEF Leaves, ClientsKeep, TypeInv, TypeOK, NetTypeOK
<1>3. MessageTypes'
  BY DEF Leaves, TypeInv, MessageTypes
<1>4. CliTypeOK'
  BY CliTypeKept DEF Leaves, ClientsKeep, TypeInv, TypeOK
<1>5. drawn' \subseteq Ids
  BY DEF Leaves, ClientsKeep, histVars, TypeInv, TypeOK
<1>6. QED  BY <1>1, <1>2, <1>3, <1>4, <1>5 DEF TypeInv, TypeOK

(* its process ends,                                                        *)
LEMMA EndsType ==
  ASSUME TypeInv, Ends
  PROVE  TypeInv'
<1>1. <<>> \in Seq(Entry) /\ <<>> \in Seq(SpProto) /\ <<>> \in Seq(Conns)
  BY EmptySeq
<1>2. <<>> \in [{} -> CfEntry]
  OBVIOUS
<1>3. SrvTypeOK'
  <2>1. /\ cf_list' \in Seq(Entry) /\ freed' \subseteq Clients'
        /\ cfe' \in [Clients' -> CfEntry] /\ events' \subseteq Conns \X Entry
    BY <1>1, <1>2 DEF Ends, ServerEnds
  <2>2. test_id' \in 0 .. MaxTests /\ logs' \in [Tests -> Nat] /\ listening' \in BOOLEAN
    BY DEF Ends, ServerEnds, TypeInv, TypeOK, SrvTypeOK
  <2>3. srv_exit' \in 0 .. 3 /\ srv_fault' \in {"none", "use_after_free", "double_free", "assert"}
    BY DEF Ends, ServerEnds, TypeInv, TypeOK, SrvTypeOK
  <2>4. QED  BY <2>1, <2>2, <2>3 DEF SrvTypeOK
<1>4. NetTypeOK'
  BY <1>1 DEF Ends, ServerEnds, TypeInv, TypeOK, NetTypeOK
<1>5. MessageTypes'
  BY EmptyQueue DEF Ends, ServerEnds, TypeInv, MessageTypes
<1>6. CliTypeOK'
  BY <1>1 DEF Ends, ServerEnds, TypeInv, TypeOK, CliTypeOK
<1>7. drawn' \subseteq Ids
  BY DEF Ends, ServerEnds, histVars, TypeInv, TypeOK
<1>8. QED  BY <1>3, <1>4, <1>5, <1>6, <1>7 DEF TypeInv, TypeOK

(* and starts again,                                                        *)
LEMMA StartsType ==
  ASSUME TypeInv, Starts
  PROVE  TypeInv'
<1>1. SrvTypeOK'
  BY ServerAssumption DEF Starts, ServerStarts, TypeInv, TypeOK, SrvTypeOK
<1>2. NetTypeOK'
  BY DEF Starts, ServerStarts, netVars, TypeInv, TypeOK, NetTypeOK
<1>3. MessageTypes'
  BY DEF Starts, ServerStarts, netVars, TypeInv, MessageTypes
<1>4. CliTypeOK'
  BY CliTypeKept DEF Starts, ServerStarts, TypeInv, TypeOK
<1>5. drawn' \subseteq Ids
  BY DEF Starts, ServerStarts, TypeInv, TypeOK
<1>6. QED  BY <1>1, <1>2, <1>3, <1>4, <1>5 DEF TypeInv, TypeOK

\* A number of timeouts is changed.
LEMMA TimersType ==
  ASSUME NEW T \in [Client -> [Address \X Kind -> Nat]], NEW c \in Client,
         NEW p \in Address \X Kind, NEW v \in Nat
  PROVE  /\ [T EXCEPT ![c][p] = v] \in [Client -> [Address \X Kind -> Nat]]
         /\ \A d \in Client, r \in Address \X Kind :
              [T EXCEPT ![c][p] = v][d][r] = IF d = c /\ r = p THEN v ELSE T[d][r]
OBVIOUS

\* send_register.
LEMMA RegisterMessage ==
  ASSUME TypeInv, NEW c \in Client
  PROVE  /\ send_register(c).message \in SpProto
         /\ send_register(c).message.type = "REGISTER"
         /\ send_register(c).message.id = sp_id[c]
         /\ send_register(c).probe = [id |-> sp_id[c], from |-> sp_ds[c]]
         /\ send_register(c).probe \in [id : Ids, from : UdpAddrs]
<1>1. sp_id[c] \in Ids /\ sp_id[c] \in Nat /\ sp_ds[c] \in UdpAddrs
  BY ConnsOfClients DEF TypeInv, TypeOK, CliTypeOK
<1>2. sp_proto("REGISTER", sp_id[c], sp_state[c] \in DataState, 0) \in SpProto
  BY <1>1 DEF sp_proto, SpProto, SpType
<1>3. QED  BY <1>1, <1>2 DEF send_register, sp_proto

\* A message of a client: the queues to the server and what they hold.
LEMMA SendType ==
  ASSUME TypeInv, NEW s \in Conns, NEW m \in SpProto, m.type \in {"REGISTER"} \cup Report,
         c2s' = Send(c2s, s, m, srv_open), UNCHANGED s2c
  PROVE  c2s' \in [Conns -> Seq(SpProto)] /\ MessageTypes'
<1> DEFINE K == SpType \ ({"REGISTER"} \cup Report)
<1>1. /\ c2s \in [Conns -> Seq(SpProto)] /\ \A r \in Conns : c2s[r] \in Seq(SpProto) /\ None(c2s[r], K)
  BY ConnsOfClients DEF TypeInv, MessageTypes
<1>2. c2s' = c2s \/ c2s' = [c2s EXCEPT ![s] = Append(c2s[s], m)]
  BY <1>1 DEF Send
<1>3. m.type \notin K
  OBVIOUS
<1> HIDE DEF K
<1>4. Append(c2s[s], m) \in Seq(SpProto) /\ None(Append(c2s[s], m), K)
  BY <1>1, <1>3, AppendQueue
<1>5. c2s' \in [Conns -> Seq(SpProto)] /\ \A r \in Conns : None(c2s'[r], K)
  BY <1>1, <1>2, <1>4
<1>6. QED  BY <1>5 DEF TypeInv, MessageTypes, K

(* a client connects,                                                       *)
LEMMA ConnectsType ==
  ASSUME TypeInv, NEW c \in Client, NEW s \in Conns, Connects(c, s)
  PROVE  TypeInv'
<1> DEFINE m == send_register(c).message
           p == send_register(c).probe
<1>1. m \in SpProto /\ m.type = "REGISTER" /\ p \in [id : Ids, from : UdpAddrs]
  BY RegisterMessage
<1> HIDE DEF m, p
<1>2. Append(<<>>, m) \in Seq(SpProto) /\ \A K : "REGISTER" \notin K => None(Append(<<>>, m), K)
  BY <1>1, EmptyQueue, AppendQueue
<1> DEFINE q == Append(<<>>, m)
<1>3. c2s' = [c2s EXCEPT ![s] = q] /\ s2c' = [s2c EXCEPT ![s] = <<>>]
  BY DEF Connects, m
<1> HIDE DEF q
<1>4. NetTypeOK'
  <2>1. cli_open' \subseteq Conns /\ srv_open' \subseteq Conns
    BY DEF Connects, TypeInv, TypeOK, NetTypeOK
  <2>2. c2s' \in [Conns -> Seq(SpProto)] /\ s2c' \in [Conns -> Seq(SpProto)]
    BY <1>2, <1>3, EmptyQueue, ConnsOfClients DEF q
  <2>3. QED  BY <2>1, <2>2 DEF NetTypeOK
<1>5. MessageTypes'
  <2>1. \A r \in Conns : /\ c2s'[r] = IF r = s THEN q ELSE c2s[r]
                         /\ s2c'[r] = IF r = s THEN <<>> ELSE s2c[r]
    BY <1>3, ConnsOfClients
  <2>2. None(q, SpType \ ({"REGISTER"} \cup Report))
    BY <1>2 DEF q
  <2>3. QED  BY <2>1, <2>2, EmptyQueue DEF TypeInv, MessageTypes
<1>6. CliTypeOK'
  <2>1. sp_state' \in [Client -> SpcState] /\ sp_s' \in [Client -> 0 .. MaxConns]
    BY NetAssumption DEF Connects, TypeInv, TypeOK, CliTypeOK, SpcState, Conns
  <2>2. backlog' \in Seq(Conns)
    BY AppendProperties DEF Connects, TypeInv, TypeOK, CliTypeOK
  <2>3. udp' \subseteq [id : Ids, from : UdpAddrs]
    BY <1>1 DEF Connects, TypeInv, TypeOK, CliTypeOK, p
  <2>4. QED  BY <2>1, <2>2, <2>3 DEF Connects, TypeInv, TypeOK, CliTypeOK
<1>7. SrvTypeOK'
  BY SrvTypeKept DEF Connects, ServerKeeps, TypeInv, TypeOK
<1>8. drawn' \subseteq Ids
  BY DEF Connects, ServerKeeps, histVars, TypeInv, TypeOK
<1>9. QED  BY <1>4, <1>5, <1>6, <1>7, <1>8 DEF TypeInv, TypeOK

\* UpdateRegistration is called with a connection.
Connected == \A c \in Client : sp_state[c] # "SS_INIT" => sp_s[c] # 0

(* registers again,                                                         *)
LEMMA UpdatesType ==
  ASSUME TypeInv, Connected, NEW c \in Client, Updates(c)
  PROVE  TypeInv'
<1> DEFINE m == send_register(c).message
           p == send_register(c).probe
           s == sp_s[c]
<1>1. m \in SpProto /\ m.type = "REGISTER" /\ p \in [id : Ids, from : UdpAddrs]
  BY RegisterMessage
<1>2. s \in Conns
  BY ConnsOfClients DEF Connected, Updates, UpdateRegistration
<1>3. /\ c2s' = Send(c2s, s, m, srv_open) /\ udp' = udp \cup {p}
      /\ UNCHANGED <<sp_state, sp_id, sp_ds, sp_s, sp_data, heap, timers, alive, backlog,
                     s2c, srv_open, cli_open>>
  BY DEF Updates, UpdateRegistration
<1> HIDE DEF m, p, s
<1>4. c2s' \in [Conns -> Seq(SpProto)] /\ MessageTypes'
  BY <1>1, <1>2, <1>3, SendType
<1>5. NetTypeOK'
  BY <1>3, <1>4 DEF TypeInv, TypeOK, NetTypeOK
<1>6. CliTypeOK'
  BY <1>1, <1>3 DEF TypeInv, TypeOK, CliTypeOK
<1>7. SrvTypeOK' /\ drawn' \subseteq Ids
  BY SrvTypeKept DEF Updates, ServerKeeps, histVars, TypeInv, TypeOK
<1>8. QED  BY <1>4, <1>5, <1>6, <1>7 DEF TypeInv, TypeOK

(* ends,                                                                    *)
LEMMA DiesType ==
  ASSUME TypeInv, NEW c \in Client, Dies(c)
  PROVE  TypeInv'
<1>1. /\ alive' \subseteq alive /\ cli_open' \subseteq cli_open
      /\ s2c' = [s \in Conns |-> IF s = sp_s[c] THEN <<>> ELSE s2c[s]]
      /\ sp_state' = [sp_state EXCEPT ![c] = "SS_INIT"]
      /\ sp_s' = [sp_s EXCEPT ![c] = 0]
      /\ sp_data' = [sp_data EXCEPT ![c] = 0]
      /\ heap' = [heap EXCEPT ![c] = NoSessions]
      /\ timers' = [timers EXCEPT ![c] = NoTimers]
      /\ UNCHANGED <<sp_id, sp_ds, backlog, udp, c2s, srv_open>>
  BY DEF Dies, ProcessEnds
<1>2. NetTypeOK'
  <2>1. s2c' \in [Conns -> Seq(SpProto)]
    BY <1>1, EmptyQueue, ConnsOfClients
  <2>2. QED  BY <1>1, <2>1 DEF TypeInv, TypeOK, NetTypeOK
<1>3. MessageTypes'
  BY <1>1, EmptyQueue DEF TypeInv, MessageTypes
<1>4. CliTypeOK'
  <2>1. sp_state' \in [Client -> SpcState] /\ sp_s' \in [Client -> 0 .. MaxConns]
    BY <1>1, NetAssumption DEF TypeInv, TypeOK, CliTypeOK, SpcState
  <2>2. sp_data' \in [Client -> 0 .. MaxSessions]
    BY <1>1, ClientAssumption DEF TypeInv, TypeOK, CliTypeOK
  <2>3. NoSessions \in [Address -> SUBSET Session] /\ NoTimers \in [Address \X Kind -> Nat]
    BY DEF NoSessions, NoTimers
  <2>4. heap' \in [Client -> [Address -> SUBSET Session]]
        /\ timers' \in [Client -> [Address \X Kind -> Nat]]
    BY <1>1, <2>3 DEF TypeInv, TypeOK, CliTypeOK
  <2>5. QED  BY <1>1, <2>1, <2>2, <2>4 DEF TypeInv, TypeOK, CliTypeOK
<1>5. SrvTypeOK' /\ drawn' \subseteq Ids
  BY SrvTypeKept DEF Dies, ServerKeeps, histVars, TypeInv, TypeOK
<1>6. QED  BY <1>2, <1>3, <1>4, <1>5 DEF TypeInv, TypeOK

(* finds the server gone (spc_state2init),                                  *)
LEMMA DisconnectsType ==
  ASSUME TypeInv, NEW c \in Client, Disconnects(c)
  PROVE  TypeInv'
<1> DEFINE h == [n \in Address |-> IF n = sp_data[c] THEN {} ELSE heap[c][n]]
<1>1. /\ cli_open' \subseteq cli_open
      /\ sp_state' = [sp_state EXCEPT ![c] = "SS_INIT"]
      /\ sp_s' = [sp_s EXCEPT ![c] = 0]
      /\ sp_data' = [sp_data EXCEPT ![c] = 0]
      /\ heap' = [heap EXCEPT ![c] = h]
      /\ UNCHANGED <<sp_id, sp_ds, timers, alive, backlog, udp, c2s, s2c, srv_open>>
  BY DEF Disconnects, spc_state2init
<1>2. h \in [Address -> SUBSET Session]
  BY DEF TypeInv, TypeOK, CliTypeOK
<1> HIDE DEF h
<1>3. NetTypeOK' /\ MessageTypes'
  BY <1>1 DEF TypeInv, TypeOK, NetTypeOK, MessageTypes
<1>4. CliTypeOK'
  <2>1. sp_state' \in [Client -> SpcState] /\ sp_s' \in [Client -> 0 .. MaxConns]
    BY <1>1, NetAssumption DEF TypeInv, TypeOK, CliTypeOK, SpcState
  <2>2. sp_data' \in [Client -> 0 .. MaxSessions]
    BY <1>1, ClientAssumption DEF TypeInv, TypeOK, CliTypeOK
  <2>3. heap' \in [Client -> [Address -> SUBSET Session]]
    BY <1>1, <1>2 DEF TypeInv, TypeOK, CliTypeOK
  <2>4. QED  BY <1>1, <2>1, <2>2, <2>3 DEF TypeInv, TypeOK, CliTypeOK
<1>5. SrvTypeOK' /\ drawn' \subseteq Ids
  BY SrvTypeKept DEF Disconnects, ServerKeeps, histVars, TypeInv, TypeOK
<1>6. QED  BY <1>3, <1>4, <1>5 DEF TypeInv, TypeOK

\* The queues after an order was read.
LEMMA TakesOrderType ==
  ASSUME TypeInv, NEW c \in Client, TakesOrder(c), UNCHANGED <<c2s, srv_open, cli_open>>
  PROVE  NetTypeOK' /\ MessageTypes' /\ SrvTypeOK' /\ drawn' \subseteq Ids /\ Order(c) \in SpProto
<1> DEFINE s == sp_s[c]
           q == s2c[s]
<1>1. s \in Conns /\ q \in Seq(SpProto) /\ q # <<>> /\ s2c \in [Conns -> Seq(SpProto)]
  BY ConnsOfClients DEF TakesOrder
<1>2. Tail(q) \in Seq(SpProto) /\ Head(q) \in SpProto /\ \A K : None(q, K) => None(Tail(q), K)
  BY <1>1, TailQueue
<1>3. s2c' = [s2c EXCEPT ![s] = Tail(q)]
  BY DEF TakesOrder
<1> HIDE DEF s, q
<1>4. NetTypeOK'
  BY <1>1, <1>2, <1>3 DEF TypeInv, TypeOK, NetTypeOK
<1>5. \A r \in Conns : s2c'[r] = IF r = s THEN Tail(q) ELSE s2c[r]
  BY <1>1, <1>3
<1>6. MessageTypes'
  BY <1>1, <1>2, <1>5 DEF TypeInv, MessageTypes, q
<1>7. SrvTypeOK' /\ drawn' \subseteq Ids
  BY SrvTypeKept DEF TakesOrder, ServerKeeps, histVars, TypeInv, TypeOK
<1>8. QED  BY <1>2, <1>4, <1>6, <1>7 DEF Order, q, s

(* begins a call,                                                           *)
LEMMA ObeysType ==
  ASSUME TypeInv, NEW c \in Client, NEW n \in Address, NEW kind \in Kind, NEW state \in DataState,
         Obeys(c, n, kind, state)
  PROVE  TypeInv'
<1>1. NetTypeOK' /\ MessageTypes' /\ SrvTypeOK' /\ drawn' \subseteq Ids /\ Order(c) \in SpProto
  BY TakesOrderType DEF Obeys
<1>2. CliTypeOK'
  <2> DEFINE ses == {[kind |-> kind, testid |-> Order(c).testid]}
  <2>1. ses \in SUBSET Session
    BY <1>1 DEF SpProto, Session
  <2> HIDE DEF ses
  <2>2. heap' = [heap EXCEPT ![c][n] = ses]
    BY DEF Obeys, ses
  <2>3. heap' \in [Client -> [Address -> SUBSET Session]]
    BY <2>1, <2>2 DEF TypeInv, TypeOK, CliTypeOK
  <2>4. timers' \in [Client -> [Address \X Kind -> Nat]]
    <3>1. timers' = [timers EXCEPT ![c][<<n, kind>>] = timers[c][<<n, kind>>] + 1]
      BY DEF Obeys
    <3>2. timers[c][<<n, kind>>] + 1 \in Nat /\ <<n, kind>> \in Address \X Kind
      BY DEF TypeInv, TypeOK, CliTypeOK
    <3>3. QED  BY <3>1, <3>2, TimersType DEF TypeInv, TypeOK, CliTypeOK
  <2>5. sp_data' \in [Client -> 0 .. MaxSessions]
    BY ClientAssumption DEF Obeys, Address, TypeInv, TypeOK, CliTypeOK
  <2>6. sp_state' \in [Client -> SpcState]
    BY DEF Obeys, DataState, TypeInv, TypeOK, CliTypeOK
  <2>7. QED  BY <2>3, <2>4, <2>5, <2>6 DEF Obeys, TypeInv, TypeOK, CliTypeOK
<1>3. QED  BY <1>1, <1>2 DEF TypeInv, TypeOK

(* ignores an order,                                                        *)
LEMMA DisobeysType ==
  ASSUME TypeInv, NEW c \in Client, Disobeys(c)
  PROVE  TypeInv'
<1>1. NetTypeOK' /\ MessageTypes' /\ SrvTypeOK' /\ drawn' \subseteq Ids
  BY TakesOrderType DEF Disobeys
<1>2. CliTypeOK'
  BY CliTypeKept DEF Disobeys, TypeInv, TypeOK
<1>3. QED  BY <1>1, <1>2 DEF TypeInv, TypeOK

\* One timeout less.
LEMMA TimerType ==
  ASSUME TypeInv, NEW c \in Client, NEW p \in Address \X Kind,
         timers[c][p] > 0, timers' = [timers EXCEPT ![c][p] = @ - 1]
  PROVE  /\ timers' \in [Client -> [Address \X Kind -> Nat]]
         /\ \A d \in Client, r \in Address \X Kind :
              timers'[d][r] = IF d = c /\ r = p THEN timers[c][p] - 1 ELSE timers[d][r]
<1> DEFINE D == Address \X Kind
           v == timers[c][p] - 1
<1>1. timers \in [Client -> [D -> Nat]] /\ p \in D
  BY DEF TypeInv, TypeOK, CliTypeOK
<1>2. v \in Nat
  BY <1>1
<1>3. timers' = [timers EXCEPT ![c][p] = v]
  OBVIOUS
<1> HIDE DEF D, v
<1>4. timers' = [d \in Client |-> IF d = c THEN [r \in D |-> IF r = p THEN v ELSE timers[c][r]] ELSE timers[d]]
  BY <1>1, <1>2, <1>3
<1>5. timers' \in [Client -> [D -> Nat]]
  BY <1>1, <1>2, <1>4
<1>6. \A d \in Client, r \in D : timers'[d][r] = IF d = c /\ r = p THEN v ELSE timers[d][r]
  BY <1>1, <1>4
<1>7. QED  BY <1>5, <1>6 DEF D, v

(* ends a call and reports,                                                 *)
LEMMA CallEndsType ==
  ASSUME TypeInv, Connected, NEW c \in Client, NEW n \in Address, NEW kind \in Kind,
         NEW report \in SpProto, CallEnds(c, n, kind, report)
  PROVE  TypeInv'
<1> DEFINE s == sp_s[c]
<1>1. s \in Conns
  BY ConnsOfClients DEF Connected, CallEnds
<1>2. report.type \in {"REGISTER"} \cup Report
  BY DEF CallEnds, Report
<1>3. /\ c2s' = Send(c2s, s, report, srv_open)
      /\ sp_data' = [sp_data EXCEPT ![c] = 0]
      /\ heap' = [heap EXCEPT ![c][n] = {}]
      /\ sp_state' = [sp_state EXCEPT ![c] = "SS_SERVER"]
      /\ timers' = [timers EXCEPT ![c][<<n, kind>>] = @ - 1]
      /\ UNCHANGED <<sp_id, sp_ds, sp_s, alive, backlog, udp, s2c, srv_open, cli_open>>
  BY DEF CallEnds, EndCall
<1>4. c2s' \in [Conns -> Seq(SpProto)] /\ MessageTypes'
  BY <1>1, <1>2, <1>3, SendType
<1>5. NetTypeOK'
  BY <1>3, <1>4 DEF TypeInv, TypeOK, NetTypeOK
<1>6. CliTypeOK'
  <2>1. sp_state' \in [Client -> SpcState] /\ sp_data' \in [Client -> 0 .. MaxSessions]
    BY <1>3, ClientAssumption DEF TypeInv, TypeOK, CliTypeOK, SpcState
  <2>2. heap' \in [Client -> [Address -> SUBSET Session]]
    BY <1>3 DEF TypeInv, TypeOK, CliTypeOK
  <2>3. timers' \in [Client -> [Address \X Kind -> Nat]]
    <3> DEFINE p == <<n, kind>>
    <3>1. p \in Address \X Kind /\ timers[c][p] > 0 /\ timers' = [timers EXCEPT ![c][p] = @ - 1]
      BY <1>3 DEF CallEnds
    <3> HIDE DEF p
    <3>2. QED  BY <3>1, TimerType
  <2>4. QED  BY <1>3, <2>1, <2>2, <2>3 DEF TypeInv, TypeOK, CliTypeOK
<1>7. SrvTypeOK' /\ drawn' \subseteq Ids
  BY SrvTypeKept DEF CallEnds, ServerKeeps, histVars, TypeInv, TypeOK
<1>8. QED  BY <1>4, <1>5, <1>6, <1>7 DEF TypeInv, TypeOK

(* stops sending (SS_DATA_SEND_CLOSING),                                    *)
LEMMA StopsType ==
  ASSUME TypeInv, NEW c \in Client, NEW n \in Address, Stops(c, n)
  PROVE  TypeInv'
<1>1. NetTypeOK' /\ MessageTypes'
  BY DEF Stops, StopSending, netVars, TypeInv, TypeOK, NetTypeOK, MessageTypes
<1>2. CliTypeOK'
  BY DEF Stops, StopSending, TypeInv, TypeOK, CliTypeOK, SpcState
<1>3. SrvTypeOK' /\ drawn' \subseteq Ids
  BY SrvTypeKept DEF Stops, ServerKeeps, histVars, TypeInv, TypeOK
<1>4. QED  BY <1>1, <1>2, <1>3 DEF TypeInv, TypeOK

(* finds a timeout whose call is gone,                                      *)
LEMMA ExpiresType ==
  ASSUME TypeInv, NEW c \in Client, NEW n \in Address, NEW kind \in Kind, Expires(c, n, kind)
  PROVE  TypeInv'
<1>1. NetTypeOK' /\ MessageTypes'
  BY DEF Expires, TimerExpires, netVars, TypeInv, TypeOK, NetTypeOK, MessageTypes
<1>2. timers' \in [Client -> [Address \X Kind -> Nat]]
  <2> DEFINE p == <<n, kind>>
  <2>1. p \in Address \X Kind /\ timers[c][p] > 0 /\ timers' = [timers EXCEPT ![c][p] = @ - 1]
    BY DEF Expires, TimerExpires
  <2> HIDE DEF p
  <2>2. QED  BY <2>1, TimerType
<1>3. CliTypeOK'
  BY <1>2 DEF Expires, TimerExpires, TypeInv, TypeOK, CliTypeOK
<1>4. SrvTypeOK' /\ drawn' \subseteq Ids
  BY SrvTypeKept DEF Expires, ServerKeeps, histVars, TypeInv, TypeOK
<1>5. QED  BY <1>1, <1>3, <1>4 DEF TypeInv, TypeOK

(* starts again.                                                            *)
LEMMA RestartsType ==
  ASSUME TypeInv, NEW c \in Client, NEW id \in Ids, Restarts(c, id)
  PROVE  TypeInv'
<1>1. NetTypeOK' /\ MessageTypes'
  BY DEF Restarts, ClientRestarts, ClientStarts, netVars, TypeInv, TypeOK, NetTypeOK, MessageTypes
<1>2. CliTypeOK' /\ drawn' \subseteq Ids
  <2>1. PICK addr \in UdpAddrs : ClientRestarts(c, id, addr)
    BY DEF Restarts
  <2>2. sp_id' \in [Client -> Ids] /\ sp_ds' \in [Client -> UdpAddrs]
    BY <2>1 DEF ClientRestarts, ClientStarts, TypeInv, TypeOK, CliTypeOK
  <2>3. alive' \subseteq Client /\ drawn' \subseteq Ids
    BY <2>1 DEF ClientRestarts, ClientStarts, TypeInv, TypeOK, CliTypeOK
  <2>4. QED  BY <2>1, <2>2, <2>3 DEF ClientRestarts, ClientStarts, TypeInv, TypeOK, CliTypeOK
<1>3. SrvTypeOK'
  BY SrvTypeKept DEF Restarts, ClientRestarts, TypeInv, TypeOK
<1>4. QED  BY <1>1, <1>2, <1>3 DEF TypeInv, TypeOK

-----------------------------------------------------------------------------
(* The two ends of a connection *)

\* The client's end of a connection.
ClientEnds ==
  /\ \A c \in Client : (sp_s[c] = 0) <=> (sp_state[c] = "SS_INIT")
  /\ \A c \in Client : sp_s[c] # 0 => sp_s[c] \in cli_open
  /\ \A c, d \in Client : sp_s[c] = sp_s[d] /\ sp_s[c] # 0 => c = d
  /\ \A c \in Client : c \notin alive => sp_s[c] = 0
  /\ \A s \in Conns : s \notin cli_open => s2c[s] = <<>>

(* A client in another state than SS_INIT has a connection.                 *)
LEMMA ConnectedFollows ==
  ASSUME ClientEnds
  PROVE  Connected
BY DEF ClientEnds, Connected

(* A step that leaves the clients' connections alone.                       *)
LEMMA ClientEndsKept ==
  ASSUME ClientEnds, UNCHANGED <<sp_s, sp_state, alive, cli_open>>,
         \A s \in Conns : s \notin cli_open => s2c'[s] = s2c[s]
  PROVE  ClientEnds'
BY DEF ClientEnds

(* A step that leaves the server alone.                                     *)
LEMMA ServerSideKept ==
  ASSUME ServerSide, UNCHANGED <<srvVars, srv_open, backlog>>, Clients' = Clients
  PROVE  ServerSide'
BY DEF ServerSide, ServerEndsOf, Sane, Running, srvVars

(* The server failed: nothing is asked of its lists any more.               *)
LEMMA NotSane ==
  ASSUME srv_exit' \in {1, 2} \/ (srv_exit' = 0 /\ srv_fault' # "none")
  PROVE  ServerSide' /\ ~Sane' /\ ~Running'
BY DEF ServerSide, Sane, Running

(* Both ends of the connections, step by step: connect_input,               *)
LEMMA NewClientSides ==
  ASSUME TypeInv, ServerSide, ClientEnds, NEW e \in Entry, NewClient(e)
  PROVE  ServerSide' /\ ClientEnds'
<1> DEFINE s == Head(backlog)
           n == Len(backlog)
<1>1. ClientEnds'
  BY ClientEndsKept DEF NewClient
<1>2. /\ Running /\ srv_exit' = 0 /\ e \notin Clients /\ Clients' = Clients \cup {e}
      /\ cfe' = [d \in Clients \cup {e} |-> IF d = e THEN cfe_new(s, s) ELSE cfe[d]]
      /\ events' = events \cup {<<s, e>>} /\ srv_open' = srv_open \cup {s}
      /\ backlog' = Tail(backlog) /\ freed' = freed
  BY DEF NewClient, Running
<1>3. ServerEndsOf(Clients)
  BY <1>2 DEF ServerSide, Sane
<1>4. /\ n \in Nat \ {0} /\ s = backlog[1]
      /\ Len(Tail(backlog)) = n - 1
      /\ \A i \in 1 .. n - 1 : Tail(backlog)[i] = backlog[i + 1]
  <2>1. backlog \in Seq(Conns) /\ backlog # <<>>
    BY DEF TypeInv, TypeOK, CliTypeOK, NewClient
  <2>2. QED  BY <2>1, HeadTailProperties, EmptySeq
<1>5. \A i \in 1 .. n - 1 : i + 1 \in 1 .. n /\ i + 1 # 1
  BY <1>4
<1>6. 1 \in 1 .. n
  BY <1>4
<1>6a. Len(backlog) = n
  OBVIOUS
<1>6b. \A i, j \in 1 .. n - 1 : i + 1 = j + 1 => i = j
  BY <1>4
<1> HIDE DEF s, n
<1>7. cfe'[e].cf_s = s /\ cfe'[e].cf_addr = s /\ \A d \in Clients : cfe'[d] = cfe[d]
  BY <1>2 DEF cfe_new
<1>8. /\ \A d \in Clients : cfe[d].cf_s \in srv_open /\ cfe[d].cf_addr = cfe[d].cf_s /\ cfe[d].cf_s # s
      /\ \A c, d \in Clients : cfe[c].cf_s = cfe[d].cf_s => c = d
  BY <1>3, <1>4, <1>6, <1>6a DEF ServerEndsOf
<1>9. /\ \A d \in Clients' : cfe'[d].cf_s \in srv_open' /\ cfe'[d].cf_addr = cfe'[d].cf_s
      /\ \A c, d \in Clients' : cfe'[c].cf_s = cfe'[d].cf_s => c = d
  BY <1>2, <1>7, <1>8
<1>10. events' = {<<cfe'[d].cf_s, d>> : d \in Clients'} /\ freed' = {}
  <2>1. events = {<<cfe[d].cf_s, d>> : d \in Clients} /\ freed = {}
    BY <1>3 DEF ServerEndsOf
  <2>2. QED  BY <2>1, <1>2, <1>7
<1>11. \A i \in 1 .. n - 1 : /\ backlog'[i] \in srv_open'
                             /\ \A d \in Clients' : backlog'[i] # cfe'[d].cf_s
                             /\ \A j \in 1 .. n - 1 : backlog'[i] = backlog'[j] => i = j
  <2>1. TAKE i \in 1 .. n - 1
  <2>2. backlog'[i] = backlog[i + 1] /\ i + 1 \in 1 .. n /\ i + 1 # 1
    BY <1>2, <1>4, <1>5
  <2>3. backlog[i + 1] \in srv_open /\ backlog[i + 1] # s /\ \A d \in Clients : backlog[i + 1] # cfe[d].cf_s
    BY <1>3, <1>4, <1>6, <1>6a, <2>2 DEF ServerEndsOf
  <2>4. \A d \in Clients' : backlog'[i] # cfe'[d].cf_s
    BY <1>2, <1>7, <2>2, <2>3
  <2>5. \A j \in 1 .. n - 1 : backlog'[i] = backlog'[j] => i = j
    <3>1. TAKE j \in 1 .. n - 1
    <3>2. backlog'[j] = backlog[j + 1] /\ j + 1 \in 1 .. n
      BY <1>2, <1>4, <1>5
    <3>3. backlog[i + 1] = backlog[j + 1] => i + 1 = j + 1
      BY <1>3, <1>6a, <2>2, <3>2 DEF ServerEndsOf
    <3>4. QED  BY <1>6b, <2>2, <3>2, <3>3
  <2>6. QED  BY <1>2, <2>2, <2>3, <2>4, <2>5
<1>12. Len(backlog') = n - 1
  BY <1>2, <1>4
<1>13. ServerEndsOf(Clients)'
  BY <1>9, <1>10, <1>11, <1>12 DEF ServerEndsOf
<1>14. QED  BY <1>1, <1>2, <1>13 DEF ServerSide

\* The entries keep the sockets.
LEMMA SameSockets ==
  ASSUME ServerSide, ListKeeps, Running, UNCHANGED <<backlog, srv_exit>>,
         \A d \in Clients : cfe'[d].cf_s = cfe[d].cf_s /\ cfe'[d].cf_addr = cfe[d].cf_addr
  PROVE  ServerSide'
<1>1. ServerEndsOf(Clients)
  BY DEF ServerSide, Sane
<1>2. {<<cfe'[d].cf_s, d>> : d \in Clients} = {<<cfe[d].cf_s, d>> : d \in Clients}
  OBVIOUS
<1>3. ServerEndsOf(Clients)'
  BY <1>1, <1>2 DEF ServerEndsOf, ListKeeps
<1>4. srv_exit' # 3
  BY DEF Running
<1>5. QED  BY <1>3, <1>4 DEF ServerSide

(* client_input,                                                            *)
LEMMA ReadSides ==
  ASSUME TypeInv, ServerSide, ClientEnds, NEW e \in Clients,
         ReadRegister(e) \/ ReadReport(e) \/ ReadFails(e) \/ ReadReset(e) \/ ReadIgnored(e)
  PROVE  ServerSide' /\ ClientEnds'
<1>0. Reads(e) /\ Running
  BY DEF ReadRegister, ReadReport, ReadFails, ReadReset, ReadIgnored, Reads
<1>1. ClientEnds'
  BY <1>0, ClientEndsKept DEF Reads, ClientsKeep, cliVars
<1>2. UNCHANGED backlog /\ cfe \in [Clients -> CfEntry] /\ cfe[e] \in CfEntry
  BY <1>0, ConnsOfClients DEF Reads, ClientsKeep, cliVars
<1>3. CASE ReadRegister(e)
  <2>1. \A d \in Clients : cfe'[d].cf_s = cfe[d].cf_s /\ cfe'[d].cf_addr = cfe[d].cf_addr
    BY <1>2, <1>3 DEF ReadRegister, Register, CfEntry
  <2>2. QED  BY <1>0, <1>1, <1>2, <1>3, <2>1, SameSockets DEF ReadRegister
<1>4. CASE ReadReport(e)
  <2>1. \A d \in Clients : cfe'[d].cf_s = cfe[d].cf_s /\ cfe'[d].cf_addr = cfe[d].cf_addr
    BY <1>2, <1>4 DEF ReadReport, MarkIdle, CfEntry
  <2>2. QED  BY <1>0, <1>1, <1>2, <1>4, <2>1, SameSockets DEF ReadReport
<1>5. CASE ReadFails(e)
  BY <1>1, <1>5, NotSane DEF ReadFails
<1>6. CASE ReadReset(e)
  BY <1>0, <1>1, <1>6, NotSane DEF ReadReset, Running
<1>7. CASE ReadIgnored(e)
  BY <1>0, <1>1, <1>2, <1>7, SameSockets DEF ReadIgnored
<1>8. QED  BY <1>3, <1>4, <1>5, <1>6, <1>7

(* clients that are removed,                                                *)
LEMMA ForgetSides ==
  ASSUME TypeInv, ServerSide, ClientEnds, NEW S \in SUBSET Clients, Forget(S)
  PROVE  ServerSide' /\ ClientEnds'
<1>1. ClientEnds'
  BY ClientEndsKept DEF Forget, ClientsKeep, cliVars
<1>2. /\ Running /\ srv_exit' = 0 /\ Clients' = Clients \ S
      /\ events' = events \ {<<cfe[e].cf_s, e>> : e \in S}
      /\ srv_open' = srv_open \ {cfe[e].cf_s : e \in S}
      /\ freed' = freed \ S /\ backlog' = backlog
      /\ \A e \in Clients \ S : cfe'[e].cf_s = cfe[e].cf_s /\ cfe'[e].cf_addr = cfe[e].cf_addr
  BY DEF Forget, Running, ClientsKeep, cliVars, SameFields
<1>3. ServerEndsOf(Clients)
  BY <1>2 DEF ServerSide, Sane
<1>4. events' = {<<cfe'[d].cf_s, d>> : d \in Clients'} /\ freed' = {}
  <2>1. events = {<<cfe[d].cf_s, d>> : d \in Clients} /\ freed = {}
    BY <1>3 DEF ServerEndsOf
  <2>2. events' = {<<cfe[d].cf_s, d>> : d \in Clients \ S}
    BY <1>2, <2>1
  <2>3. {<<cfe'[d].cf_s, d>> : d \in Clients \ S} = {<<cfe[d].cf_s, d>> : d \in Clients \ S}
    BY <1>2
  <2>4. QED  BY <1>2, <2>1, <2>2, <2>3
<1>5. \A d \in Clients \ S : cfe[d].cf_s \in srv_open'
  BY <1>2, <1>3 DEF ServerEndsOf
<1>6. \A i \in 1 .. Len(backlog) : backlog[i] \in srv_open'
  BY <1>2, <1>3 DEF ServerEndsOf
<1>7. ServerEndsOf(Clients)'
  BY <1>2, <1>3, <1>4, <1>5, <1>6 DEF ServerEndsOf
<1>8. QED  BY <1>1, <1>2, <1>7 DEF ServerSide

(* udp_input,                                                               *)
LEMMA ProbedSides ==
  ASSUME TypeInv, ServerSide, ClientEnds, NEW p \in udp, NEW F \in SUBSET Clients, Probed(p, F)
  PROVE  ServerSide' /\ ClientEnds'
<1>1. ClientEnds'
  BY ClientEndsKept DEF Probed, ClientsKeep, cliVars
<1>2. ServerSide'
  BY ProbedEntries, SameSockets DEF Probed, ClientsKeep, cliVars
<1>3. QED  BY <1>1, <1>2

(* client_startcalls,                                                       *)
LEMMA OrderedSides ==
  ASSUME TypeInv, ServerSide, ClientEnds, NEW e1 \in Clients, NEW e2 \in Clients,
         NEW S1 \in SUBSET Conns, NEW S2 \in SUBSET Conns, Ordered(e1, e2, S1, S2)
  PROVE  ServerSide' /\ ClientEnds'
<1>1. \A s \in Conns : s \notin cli_open => s2c'[s] = s2c[s]
  BY OrderedQueues DEF Ordered
<1>2. ClientEnds'
  BY <1>1, ClientEndsKept DEF Ordered, ClientsKeep, cliVars
<1>3. CASE srv_exit' = 1
  BY <1>2, <1>3, NotSane
<1>4. CASE UNCHANGED <<srv_exit, srv_open>>
  <2>1. \A d \in Clients : cfe'[d].cf_s = cfe[d].cf_s /\ cfe'[d].cf_addr = cfe[d].cf_addr
    BY OrderedEntries
  <2>2. ListKeeps /\ Running /\ UNCHANGED <<backlog, srv_exit>>
    BY <1>4 DEF Ordered, ListKeeps, ClientsKeep, cliVars
  <2>3. QED  BY <1>2, <2>1, <2>2, SameSockets
<1>5. QED  BY <1>3, <1>4 DEF Ordered

(* the server ends and starts,                                              *)
LEMMA ServerSides ==
  ASSUME TypeInv, ServerSide, ClientEnds, Leaves \/ Ends \/ Starts
  PROVE  ServerSide' /\ ClientEnds'
<1>1. CASE Leaves
  BY <1>1, NotSane, ClientEndsKept DEF Leaves, ClientsKeep, cliVars
<1>2. CASE Ends
  <2>1. ClientEnds'
    BY <1>2, ClientEndsKept DEF Ends, ServerEnds
  <2>2. ServerSide'
    BY <1>2, EmptySeq DEF Ends, ServerEnds, ServerSide, ServerEndsOf
  <2>3. QED  BY <2>1, <2>2
<1>3. CASE Starts
  <2>1. ClientEnds'
    BY <1>3, ClientEndsKept DEF Starts, ServerStarts, netVars, cliVars
  <2>2. ServerSide'
    BY <1>3 DEF Starts, ServerStarts, ServerSide, ServerEndsOf, Sane, netVars, cliVars
  <2>3. QED  BY <2>1, <2>2
<1>4. QED  BY <1>1, <1>2, <1>3

(* a client connects: the connection is new at both ends,                   *)
LEMMA ConnectsSides ==
  ASSUME TypeInv, ServerSide, ClientEnds, NEW c \in Client, NEW s \in Conns, Connects(c, s)
  PROVE  ServerSide' /\ ClientEnds'
<1>1. /\ Running /\ s \notin srv_open /\ s \notin cli_open /\ c \in alive
      /\ sp_s' = [sp_s EXCEPT ![c] = s]
      /\ sp_state' = [sp_state EXCEPT ![c] = "SS_SERVER"]
      /\ cli_open' = cli_open \cup {s} /\ srv_open' = srv_open \cup {s}
      /\ backlog' = Append(backlog, s) /\ s2c' = [s2c EXCEPT ![s] = <<>>]
      /\ UNCHANGED <<alive, srvVars>> /\ Clients' = Clients
  BY DEF Connects, FreeConns, ServerKeeps
<1>2. s # 0 /\ sp_s \in [Client -> 0 .. MaxConns] /\ sp_state \in [Client -> SpcState]
      /\ s2c \in [Conns -> Seq(SpProto)]
  BY NetAssumption DEF Conns, TypeInv, TypeOK, CliTypeOK, NetTypeOK
<1>3. ClientEnds'
  <2>1. \A d \in Client : /\ sp_s'[d] = IF d = c THEN s ELSE sp_s[d]
                          /\ sp_state'[d] = IF d = c THEN "SS_SERVER" ELSE sp_state[d]
    BY <1>1, <1>2
  <2>2. \A r \in Conns : s2c'[r] = IF r = s THEN <<>> ELSE s2c[r]
    BY <1>1, <1>2
  <2>3. \A d \in Client : sp_s[d] # s
    BY <1>1, <1>2 DEF ClientEnds
  <2>4. \A d \in Client : (sp_s'[d] = 0) <=> (sp_state'[d] = "SS_INIT")
    BY <1>2, <2>1 DEF ClientEnds
  <2>5. \A d \in Client : sp_s'[d] # 0 => sp_s'[d] \in cli_open'
    BY <1>1, <2>1 DEF ClientEnds
  <2>6. \A d, b \in Client : sp_s'[d] = sp_s'[b] /\ sp_s'[d] # 0 => d = b
    BY <2>1, <2>3 DEF ClientEnds
  <2>7. \A d \in Client : d \notin alive' => sp_s'[d] = 0
    BY <1>1, <2>1 DEF ClientEnds
  <2>8. \A r \in Conns : r \notin cli_open' => s2c'[r] = <<>>
    BY <1>1, <2>2 DEF ClientEnds
  <2>9. QED  BY <2>4, <2>5, <2>6, <2>7, <2>8 DEF ClientEnds
<1>4. ServerEndsOf(Clients)'
  <2> DEFINE n == Len(backlog)
  <2>1. ServerEndsOf(Clients)
    BY <1>1 DEF ServerSide, Sane
  <2>2. /\ n \in Nat /\ Len(backlog') = n + 1 /\ backlog'[n + 1] = s
        /\ \A i \in 1 .. n : backlog'[i] = backlog[i]
    <3>1. backlog \in Seq(Conns)
      BY DEF TypeInv, TypeOK, CliTypeOK
    <3>2. QED  BY <1>1, <3>1, AppendProperties, LenProperties
  <2>3. \A i \in 1 .. Len(backlog') : i \in 1 .. n \/ i = n + 1
    BY <2>2
  <2>4. Len(backlog) = n
    OBVIOUS
  <2> HIDE DEF n
  <2>5. /\ \A i \in 1 .. n : backlog[i] \in srv_open /\ backlog[i] # s
        /\ \A d \in Clients : cfe[d].cf_s \in srv_open /\ cfe[d].cf_s # s
    BY <1>1, <2>1, <2>4 DEF ServerEndsOf
  <2>6. UNCHANGED <<cfe, events, freed>>
    BY <1>1 DEF srvVars
  <2>7. \A i \in 1 .. Len(backlog') : backlog'[i] \in srv_open'
    BY <1>1, <2>2, <2>3, <2>5
  <2>8. \A i, j \in 1 .. Len(backlog') : backlog'[i] = backlog'[j] => i = j
    BY <2>1, <2>2, <2>3, <2>4, <2>5 DEF ServerEndsOf
  <2>9. \A i \in 1 .. Len(backlog'), d \in Clients' : backlog'[i] # cfe'[d].cf_s
    BY <1>1, <2>1, <2>2, <2>3, <2>4, <2>5, <2>6 DEF ServerEndsOf
  <2>10. QED  BY <1>1, <2>1, <2>6, <2>7, <2>8, <2>9 DEF ServerEndsOf
<1>5. srv_exit' # 3
  BY <1>1 DEF srvVars, Running
<1>6. QED  BY <1>3, <1>4, <1>5 DEF ServerSide

(* registers again,                                                         *)
LEMMA UpdatesSides ==
  ASSUME TypeInv, ServerSide, ClientEnds, NEW c \in Client, Updates(c)
  PROVE  ServerSide' /\ ClientEnds'
<1>1. ServerSide'
  BY ServerSideKept DEF Updates, UpdateRegistration, ServerKeeps
<1>2. ClientEnds'
  BY ClientEndsKept DEF Updates, UpdateRegistration
<1>3. QED  BY <1>1, <1>2

\* A client closes its connection.
LEMMA ClosesEnds ==
  ASSUME TypeInv, ClientEnds, NEW c \in Client,
         sp_s' = [sp_s EXCEPT ![c] = 0], sp_state' = [sp_state EXCEPT ![c] = "SS_INIT"],
         cli_open' = cli_open \ {sp_s[c]}, alive' = alive \/ alive' = alive \ {c},
         \A s \in Conns : s2c'[s] = IF s = sp_s[c] THEN <<>> ELSE s2c[s]
  PROVE  ClientEnds'
<1>1. \A d \in Client : /\ sp_s'[d] = IF d = c THEN 0 ELSE sp_s[d]
                        /\ sp_state'[d] = IF d = c THEN "SS_INIT" ELSE sp_state[d]
  BY DEF TypeInv, TypeOK, CliTypeOK
<1>2. \A d \in Client : (sp_s'[d] = 0) <=> (sp_state'[d] = "SS_INIT")
  BY <1>1 DEF ClientEnds
<1>3. \A d \in Client : sp_s'[d] # 0 => sp_s'[d] \in cli_open'
  BY <1>1 DEF ClientEnds
<1>4. \A d, b \in Client : sp_s'[d] = sp_s'[b] /\ sp_s'[d] # 0 => d = b
  BY <1>1 DEF ClientEnds
<1>5. \A d \in Client : d \notin alive' => sp_s'[d] = 0
  BY <1>1 DEF ClientEnds
<1>6. \A s \in Conns : s \notin cli_open' => s2c'[s] = <<>>
  BY DEF ClientEnds
<1>7. QED  BY <1>2, <1>3, <1>4, <1>5, <1>6 DEF ClientEnds

(* closes its end,                                                          *)
LEMMA ClosesSides ==
  ASSUME TypeInv, ServerSide, ClientEnds, NEW c \in Client, Dies(c) \/ Disconnects(c)
  PROVE  ServerSide' /\ ClientEnds'
<1>1. CASE Dies(c)
  <2>1. ServerSide'
    BY <1>1, ServerSideKept DEF Dies, ProcessEnds, ServerKeeps
  <2>2. ClientEnds'
    BY <1>1, ClosesEnds DEF Dies, ProcessEnds
  <2>3. QED  BY <2>1, <2>2
<1>2. CASE Disconnects(c)
  <2>1. ServerSide'
    BY <1>2, ServerSideKept DEF Disconnects, spc_state2init, ServerKeeps
  <2>2. ClientEnds'
    BY <1>2, ClosesEnds DEF Disconnects, spc_state2init
  <2>3. QED  BY <2>1, <2>2
<1>3. QED  BY <1>1, <1>2

\* A client changes from one state with a connection to another.
LEMMA ChangesEnds ==
  ASSUME TypeInv, ClientEnds, NEW c \in Client, NEW state \in SpcState,
         sp_state[c] # "SS_INIT", state # "SS_INIT",
         sp_state' = [sp_state EXCEPT ![c] = state], UNCHANGED <<sp_s, alive, cli_open>>,
         \A s \in Conns : s \notin cli_open => s2c'[s] = s2c[s]
  PROVE  ClientEnds'
<1>1. \A d \in Client : (sp_state'[d] = "SS_INIT") <=> (sp_state[d] = "SS_INIT")
  BY DEF TypeInv, TypeOK, CliTypeOK
<1>2. QED  BY <1>1 DEF ClientEnds

(* The order that server_input reads is at the head of the client's queue.  *)
LEMMA OrderTaken ==
  ASSUME TypeInv, ClientEnds, NEW c \in Client, TakesOrder(c)
  PROVE  /\ sp_s[c] \in Conns /\ sp_s[c] \in cli_open
         /\ \A s \in Conns : s2c'[s] = IF s = sp_s[c] THEN Tail(s2c[s]) ELSE s2c[s]
<1>1. sp_s[c] \in Conns /\ s2c \in [Conns -> Seq(SpProto)]
  BY ConnsOfClients DEF TakesOrder
<1>2. QED  BY <1>1 DEF TakesOrder, ClientEnds

(* server_input,                                                            *)
LEMMA InputSides ==
  ASSUME TypeInv, ServerSide, ClientEnds, NEW c \in Client, NEW n \in Address, NEW kind \in Kind,
         NEW state \in DataState, Disobeys(c) \/ Obeys(c, n, kind, state)
  PROVE  ServerSide' /\ ClientEnds'
<1>1. TakesOrder(c) /\ UNCHANGED <<sp_s, alive, cli_open, srv_open, backlog>>
  BY DEF Disobeys, Obeys, cliVars
<1>2. ServerSide'
  BY <1>1, ServerSideKept DEF TakesOrder, ServerKeeps
<1>3. \A s \in Conns : s \notin cli_open => s2c'[s] = s2c[s]
  BY <1>1, OrderTaken
<1>4. CASE Disobeys(c)
  BY <1>2, <1>3, <1>4, ClientEndsKept DEF Disobeys, cliVars
<1>5. CASE Obeys(c, n, kind, state)
  <2>1. /\ sp_state' = [sp_state EXCEPT ![c] = state] /\ sp_state[c] # "SS_INIT"
        /\ state # "SS_INIT" /\ state \in SpcState
    BY <1>5 DEF Obeys, DataState
  <2>2. QED  BY <1>1, <1>2, <1>3, <2>1, ChangesEnds
<1>6. QED  BY <1>4, <1>5

(* the timeouts of a call,                                                  *)
LEMMA CallSides ==
  ASSUME TypeInv, ServerSide, ClientEnds, NEW c \in Client, NEW n \in Address, NEW kind \in Kind,
         NEW report, CallEnds(c, n, kind, report) \/ Stops(c, n) \/ Expires(c, n, kind)
  PROVE  ServerSide' /\ ClientEnds'
<1>1. UNCHANGED <<sp_s, alive, cli_open, srv_open, backlog, s2c>> /\ ServerKeeps
  BY DEF CallEnds, EndCall, Stops, StopSending, Expires, TimerExpires, netVars
<1>2. ServerSide'
  BY <1>1, ServerSideKept DEF ServerKeeps
<1>3. CASE CallEnds(c, n, kind, report)
  BY <1>1, <1>2, <1>3, ChangesEnds DEF CallEnds, EndCall, SpcState
<1>4. CASE Stops(c, n)
  BY <1>1, <1>2, <1>4, ChangesEnds DEF Stops, StopSending, SpcState
<1>5. CASE Expires(c, n, kind)
  BY <1>1, <1>2, <1>5, ClientEndsKept DEF Expires, TimerExpires
<1>6. QED  BY <1>3, <1>4, <1>5

(* a client starts again.                                                   *)
LEMMA RestartsSides ==
  ASSUME TypeInv, ServerSide, ClientEnds, NEW c \in Client, NEW id \in Ids, Restarts(c, id)
  PROVE  ServerSide' /\ ClientEnds'
<1>1. ServerSide'
  BY ServerSideKept DEF Restarts, ClientRestarts, ClientStarts, netVars
<1>2. ClientEnds'
  BY DEF ClientEnds, Restarts, ClientRestarts, ClientStarts, netVars
<1>3. QED  BY <1>1, <1>2

-----------------------------------------------------------------------------
(* The invariant that the others rest on.                                  *)
Base == TypeInv /\ ServerSide /\ ClientEnds

(* Nobody is connected at first.                                            *)
LEMMA BaseInit ==
  ASSUME Init
  PROVE  Base
<1>1. <<>> \in Seq(Entry) /\ <<>> \in Seq(SpProto) /\ <<>> \in Seq(Conns) /\ Len(<<>>) = 0
  BY EmptySeq
<1>2. <<>> \in [{} -> CfEntry]
  OBVIOUS
<1>3. Clients = {}
  BY DEF Init, SrvInit, Clients, Range
<1>4. NetTypeOK
  BY <1>1 DEF Init, NetInit, NetTypeOK
<1>5. SrvTypeOK
  BY <1>1, <1>2, <1>3, ServerAssumption DEF Init, SrvInit, SrvTypeOK
<1>6. CliTypeOK
  <2>1. sp_s \in [Client -> 0 .. MaxConns] /\ sp_data \in [Client -> 0 .. MaxSessions]
    BY NetAssumption, ClientAssumption DEF Init, CliInit
  <2>2. NoSessions \in [Address -> SUBSET Session] /\ NoTimers \in [Address \X Kind -> Nat]
    BY DEF NoSessions, NoTimers
  <2>3. /\ heap \in [Client -> [Address -> SUBSET Session]]
        /\ timers \in [Client -> [Address \X Kind -> Nat]]
    BY <2>2 DEF Init, CliInit
  <2>4. QED  BY <1>1, <2>1, <2>3 DEF Init, CliInit, CliTypeOK, SpcState
<1>7. drawn \subseteq Ids
  BY DEF Init, CliInit, Range
<1>8. MessageTypes
  BY EmptyQueue DEF Init, NetInit, MessageTypes
<1>9. ServerSide
  BY <1>1, <1>3 DEF Init, SrvInit, CliInit, ServerSide, ServerEndsOf
<1>10. ClientEnds
  BY DEF Init, NetInit, CliInit, ClientEnds
<1>11. QED  BY <1>4, <1>5, <1>6, <1>7, <1>8, <1>9, <1>10 DEF Base, TypeInv, TypeOK

(* Every step keeps it.                                                     *)
LEMMA BaseNext ==
  ASSUME Base, [Next]_vars
  PROVE  Base'
<1>0. TypeInv /\ ServerSide /\ ClientEnds /\ Connected
  BY ConnectedFollows DEF Base
<1>1. CASE ServerStep
  <2>1. CASE \E e \in Entry : NewClient(e)
    BY <1>0, <2>1, NewClientType, NewClientSides DEF Base
  <2>2. CASE \E e \in Clients : ReadRegister(e) \/ ReadReport(e) \/ ReadFails(e) \/ ReadReset(e)
                                \/ ReadIgnored(e)
    BY <1>0, <2>2, ReadType, ReadSides DEF Base
  <2>3. CASE \E S \in SUBSET Clients : Forget(S)
    BY <1>0, <2>3, ForgetType, ForgetSides DEF Base
  <2>4. CASE \E p \in udp, F \in SUBSET Clients : Probed(p, F)
    BY <1>0, <2>4, ProbedType, ProbedSides DEF Base
  <2>5. CASE \E e1, e2 \in Clients, S1, S2 \in SUBSET Conns : Ordered(e1, e2, S1, S2)
    BY <1>0, <2>5, OrderedType, OrderedSides DEF Base
  <2>6. CASE Leaves \/ Ends \/ Starts
    BY <1>0, <2>6, LeavesType, EndsType, StartsType, ServerSides DEF Base
  <2>7. QED  BY <1>1, <2>1, <2>2, <2>3, <2>4, <2>5, <2>6 DEF ServerStep
<1>2. CASE ClientStep
  <2>1. CASE \E c \in Client, s \in Conns : Connects(c, s)
    BY <1>0, <2>1, ConnectsType, ConnectsSides DEF Base
  <2>2. CASE \E c \in Client : Updates(c)
    BY <1>0, <2>2, UpdatesType, UpdatesSides DEF Base
  <2>3. CASE \E c \in Client : Dies(c) \/ Disconnects(c)
    BY <1>0, <2>3, DiesType, DisconnectsType, ClosesSides DEF Base
  <2>4. CASE \E c \in Client : Disobeys(c)
    <3>1. PICK c \in Client : Disobeys(c)
      BY <2>4
    <3>2. TypeInv'
      BY <1>0, <3>1, DisobeysType
    <3>3. ServerSide'
      BY <1>0, <3>1, ServerSideKept DEF Disobeys, TakesOrder, ServerKeeps, cliVars
    <3>4. \A s \in Conns : s \notin cli_open => s2c'[s] = s2c[s]
      BY <1>0, <3>1, OrderTaken DEF Disobeys
    <3>5. ClientEnds'
      BY <1>0, <3>1, <3>4, ClientEndsKept DEF Disobeys, cliVars
    <3>6. QED  BY <3>2, <3>3, <3>5 DEF Base
  <2>5. CASE \E c \in Client, n \in Address, kind \in Kind, state \in DataState : Obeys(c, n, kind, state)
    BY <1>0, <2>5, ObeysType, InputSides DEF Base
  <2>6. CASE \E c \in Client, n \in Address, kind \in Kind, report \in SpProto : CallEnds(c, n, kind, report)
    BY <1>0, <2>6, CallEndsType, CallSides DEF Base
  <2>7. CASE \E c \in Client, n \in Address : Stops(c, n)
    <3>1. PICK c \in Client, n \in Address : Stops(c, n)
      BY <2>7
    <3>2. "send" \in Kind
      BY DEF Kind
    <3>3. QED  BY <1>0, <3>1, <3>2, StopsType, CallSides DEF Base
  <2>8. CASE \E c \in Client, n \in Address, kind \in Kind : Expires(c, n, kind)
    BY <1>0, <2>8, ExpiresType, CallSides DEF Base
  <2>9. CASE \E c \in Client, id \in Ids : Restarts(c, id)
    BY <1>0, <2>9, RestartsType, RestartsSides DEF Base
  <2>10. QED  BY <1>2, <2>1, <2>2, <2>3, <2>4, <2>5, <2>6, <2>7, <2>8, <2>9 DEF ClientStep
<1>3. CASE Stutters
  <2>1. UNCHANGED <<srvVars, cliVars, netVars, drawn>> /\ Clients' = Clients
    BY <1>3 DEF Stutters, vars, histVars
  <2>2. TypeInv'
    BY <1>0, <2>1, SrvTypeKept, CliTypeKept DEF TypeInv, TypeOK, NetTypeOK, MessageTypes, netVars
  <2>3. ServerSide'
    BY <1>0, <2>1, ServerSideKept DEF netVars, cliVars
  <2>4. ClientEnds'
    BY <1>0, <2>1, ClientEndsKept DEF netVars, cliVars
  <2>5. QED  BY <2>2, <2>3, <2>4 DEF Base
<1>4. QED  BY <1>0, <1>1, <1>2, <1>3, Flat

(* The server, the clients and their connections keep their types: in       *)
(* particular the server has contents for exactly the entries in its list,  *)
(* although cfe_rm frees them from client_input, client_timeout and         *)
(* kill_all_clients, a removed entry's memory is used again, and no client  *)
(* has fewer than one interval left; every message and probe has its        *)
(* fields, and the sessions and timeouts of a client lie at addresses of    *)
(* its heap.                                                                *)
THEOREM SpTypeCorrect == Spec => []TypeOK
<1>1. Init => Base
  BY BaseInit
<1>2. Base /\ [Next]_vars => Base'
  BY BaseNext
<1>3. Base => TypeOK
  BY DEF Base, TypeInv
<1>4. QED  BY <1>1, <1>2, <1>3, PTL DEF Spec

(* The list of clients, the list of events and the open sockets of sps      *)
(* agree as long as it has met no fault: each client has its callback       *)
(* client_input registered with its own entry and its own open socket, and  *)
(* there is no event of an entry that connect_input did not add or cfe_rm   *)
(* has freed.                                                               *)
THEOREM EventsMatch == Spec => []EventsMatchClients
<1>1. Init => Base
  BY BaseInit
<1>2. Base /\ [Next]_vars => Base'
  BY BaseNext
<1>3. Base => EventsMatchClients
  BY DEF Base, ServerSide, ServerEndsOf, Sane, EventsMatchClients
<1>4. QED  BY <1>1, <1>2, <1>3, PTL DEF Spec

-----------------------------------------------------------------------------
(* The calls of the clients *)

\* The session and the timeout of a client that is in a call.
CallOf(c) ==
  sp_state[c] \in DataState =>
    /\ sp_data[c] \in Address
    /\ \E ses \in heap[c][sp_data[c]] :
         heap[c][sp_data[c]] = {ses} /\ ses.kind = KindOf(sp_state[c])
    /\ timers[c][<<sp_data[c], KindOf(sp_state[c])>>] > 0

ClientCalls == \A c \in Client : CallOf(c)

(* A client that a step leaves alone keeps its call.                        *)
LEMMA CallKept ==
  ASSUME NEW d, CallOf(d), sp_state'[d] = sp_state[d], sp_data'[d] = sp_data[d],
         heap'[d] = heap[d], timers'[d] = timers[d]
  PROVE  CallOf(d)'
BY DEF CallOf

(* A client outside a call needs neither session nor timeout.               *)
LEMMA NoCall ==
  ASSUME NEW d, sp_state'[d] \in {"SS_INIT", "SS_SERVER"}
  PROVE  CallOf(d)'
BY DEF CallOf, DataState

(* A step of the server leaves the clients' variables alone.                *)
LEMMA ServerStepKeepsClients ==
  ASSUME ServerStep
  PROVE  UNCHANGED <<sp_state, sp_id, sp_ds, sp_s, sp_data, heap, timers, alive, udp, cli_open, drawn>>
<1>1. CASE \E e \in Entry : NewClient(e)
  BY <1>1 DEF NewClient, histVars
<1>2. CASE \E e \in Clients : ReadRegister(e) \/ ReadReport(e) \/ ReadFails(e) \/ ReadReset(e)
                              \/ ReadIgnored(e)
  BY <1>2 DEF ReadRegister, ReadReport, ReadFails, ReadReset, ReadIgnored, Reads, ClientsKeep,
              cliVars, histVars
<1>3. CASE \E S \in SUBSET Clients : Forget(S)
  BY <1>3 DEF Forget, ClientsKeep, cliVars, histVars
<1>4. CASE \E p \in udp, F \in SUBSET Clients : Probed(p, F)
  BY <1>4 DEF Probed, ClientsKeep, cliVars, histVars
<1>5. CASE \E e1, e2 \in Clients, S1, S2 \in SUBSET Conns : Ordered(e1, e2, S1, S2)
  BY <1>5 DEF Ordered, ClientsKeep, cliVars, histVars
<1>6. CASE Leaves
  BY <1>6 DEF Leaves, ClientsKeep, cliVars, histVars
<1>7. CASE Ends
  BY <1>7 DEF Ends, ServerEnds, histVars
<1>8. CASE Starts
  BY <1>8 DEF Starts, ServerStarts, cliVars, netVars
<1>9. QED  BY <1>1, <1>2, <1>3, <1>4, <1>5, <1>6, <1>7, <1>8 DEF ServerStep

(* sps_wrapper leaves the client without a call.                            *)
LEMMA ConnectsCall ==
  ASSUME TypeInv, ClientCalls, NEW c \in Client, NEW s \in Conns, Connects(c, s)
  PROVE  ClientCalls'
<1>1. /\ sp_state' = [sp_state EXCEPT ![c] = "SS_SERVER"] /\ UNCHANGED <<sp_data, heap, timers>>
      /\ sp_state \in [Client -> SpcState]
  BY DEF Connects, TypeInv, TypeOK, CliTypeOK
<1>2. CallOf(c)'
  BY <1>1, NoCall
<1>3. \A d \in Client : d # c => CallOf(d)'
  BY <1>1, CallKept DEF ClientCalls
<1>4. QED  BY <1>2, <1>3 DEF ClientCalls

(* So does the end of the connection, whatever timeout stays behind.        *)
LEMMA ClosesCall ==
  ASSUME TypeInv, ClientCalls, NEW c \in Client, Dies(c) \/ Disconnects(c)
  PROVE  ClientCalls'
<1>1. sp_state' = [sp_state EXCEPT ![c] = "SS_INIT"] /\ sp_data' = [sp_data EXCEPT ![c] = 0]
  BY DEF Dies, ProcessEnds, Disconnects, spc_state2init
<1>2. CallOf(c)'
  BY <1>1, NoCall DEF TypeInv, TypeOK, CliTypeOK
<1>3. \A d \in Client : d # c => heap'[d] = heap[d] /\ timers'[d] = timers[d]
  BY DEF Dies, ProcessEnds, Disconnects, spc_state2init, TypeInv, TypeOK, CliTypeOK
<1>4. \A d \in Client : d # c => sp_state'[d] = sp_state[d] /\ sp_data'[d] = sp_data[d]
  BY <1>1 DEF TypeInv, TypeOK, CliTypeOK
<1>5. \A d \in Client : d # c => CallOf(d)'
  BY <1>3, <1>4, CallKept DEF ClientCalls
<1>6. QED  BY <1>2, <1>5 DEF ClientCalls

(* start_sender, start_receiver: a new session and its timeout, at an       *)
(* address that was free.                                                   *)
LEMMA ObeysCall ==
  ASSUME TypeInv, ClientCalls, NEW c \in Client, NEW n \in Address, NEW kind \in Kind,
         NEW state \in DataState, Obeys(c, n, kind, state)
  PROVE  ClientCalls'
<1> DEFINE p == <<n, kind>>
           ses == [kind |-> kind, testid |-> Order(c).testid]
           v == timers[c][p] + 1
<1>1. /\ heap' = [heap EXCEPT ![c][n] = {ses}]
      /\ sp_data' = [sp_data EXCEPT ![c] = n]
      /\ timers' = [timers EXCEPT ![c][p] = v]
      /\ sp_state' = [sp_state EXCEPT ![c] = state]
      /\ kind = KindOf(state)
  BY DEF Obeys, KindOf
<1>2. /\ heap \in [Client -> [Address -> SUBSET Session]]
      /\ sp_data \in [Client -> 0 .. MaxSessions]
      /\ timers \in [Client -> [Address \X Kind -> Nat]] /\ p \in Address \X Kind
      /\ sp_state \in [Client -> SpcState]
  BY DEF TypeInv, TypeOK, CliTypeOK
<1>3. v > 0 /\ ses.kind = kind
  BY <1>2
<1> DEFINE D == Address \X Kind
<1>a. timers \in [Client -> [D -> Nat]] /\ p \in D
  BY <1>2
<1>b. <<n, KindOf(state)>> = p
  BY <1>1
<1> HIDE DEF p, ses, v, D
<1>4. /\ heap'[c][n] = {ses} /\ sp_data'[c] = n /\ sp_state'[c] = state
  BY <1>1, <1>2
<1>5. timers'[c][p] = v
  BY <1>1, <1>a
<1>6. CallOf(c)'
  <2>1. sp_data'[c] \in Address /\ <<sp_data'[c], KindOf(sp_state'[c])>> = p
    BY <1>4, <1>b
  <2>2. timers'[c][<<sp_data'[c], KindOf(sp_state'[c])>>] > 0
    BY <2>1, <1>3, <1>5
  <2>3. \E s \in heap'[c][sp_data'[c]] : heap'[c][sp_data'[c]] = {s} /\ s.kind = KindOf(sp_state'[c])
    BY <1>1, <1>3, <1>4
  <2>4. QED  BY <2>1, <2>2, <2>3 DEF CallOf
<1>7. \A d \in Client : d # c => heap'[d] = heap[d] /\ sp_data'[d] = sp_data[d]
                                 /\ sp_state'[d] = sp_state[d]
  BY <1>1, <1>2
<1>8. \A d \in Client : d # c => timers'[d] = timers[d]
  BY <1>1, <1>a
<1>9. \A d \in Client : d # c => CallOf(d)'
  BY <1>7, <1>8, CallKept DEF ClientCalls
<1>10. QED  BY <1>6, <1>9 DEF ClientCalls

(* The end of a call takes a timeout of that client only.                   *)
LEMMA CallEndsCall ==
  ASSUME TypeInv, ClientCalls, NEW c \in Client, NEW n \in Address, NEW kind \in Kind, NEW report,
         CallEnds(c, n, kind, report)
  PROVE  ClientCalls'
<1> DEFINE p == <<n, kind>>
           D == Address \X Kind
<1>1. /\ heap' = [heap EXCEPT ![c][n] = {}]
      /\ sp_data' = [sp_data EXCEPT ![c] = 0]
      /\ timers' = [timers EXCEPT ![c][p] = @ - 1]
      /\ sp_state' = [sp_state EXCEPT ![c] = "SS_SERVER"]
  BY DEF CallEnds, EndCall
<1>2. /\ heap \in [Client -> [Address -> SUBSET Session]]
      /\ sp_data \in [Client -> 0 .. MaxSessions]
      /\ timers \in [Client -> [D -> Nat]] /\ sp_state \in [Client -> SpcState]
  BY DEF TypeInv, TypeOK, CliTypeOK
<1> HIDE DEF p, D
<1>3. CallOf(c)'
  BY <1>1, <1>2, NoCall
<1>4. \A d \in Client : d # c => heap'[d] = heap[d] /\ sp_data'[d] = sp_data[d]
                                 /\ sp_state'[d] = sp_state[d]
  BY <1>1, <1>2
<1>5. \A d \in Client : d # c => timers'[d] = timers[d]
  BY <1>1, <1>2
<1>6. \A d \in Client : d # c => CallOf(d)'
  BY <1>4, <1>5, CallKept DEF ClientCalls
<1>7. QED  BY <1>3, <1>6 DEF ClientCalls

(* send_data_wrapper is registered again when it stops sending.             *)
LEMMA StopsCall ==
  ASSUME TypeInv, ClientCalls, NEW c \in Client, NEW n \in Address, Stops(c, n)
  PROVE  ClientCalls'
<1>1. /\ sp_state' = [sp_state EXCEPT ![c] = "SS_DATA_SEND_CLOSING"]
      /\ sp_state[c] = "SS_DATA_SEND" /\ UNCHANGED <<sp_data, heap, timers>>
      /\ sp_state \in [Client -> SpcState]
  BY DEF Stops, StopSending, TypeInv, TypeOK, CliTypeOK
<1>2. sp_state'[c] = "SS_DATA_SEND_CLOSING" /\ KindOf(sp_state'[c]) = KindOf(sp_state[c])
      /\ sp_state[c] \in DataState
  BY <1>1 DEF KindOf, DataState, SpcState
<1>3. CallOf(c)'
  BY <1>1, <1>2 DEF ClientCalls, CallOf
<1>4. \A d \in Client : d # c => CallOf(d)'
  BY <1>1, CallKept DEF ClientCalls
<1>5. QED  BY <1>3, <1>4 DEF ClientCalls

(* A timeout that is not the call's own expires without ending it.          *)
LEMMA ExpiresCall ==
  ASSUME TypeInv, ClientCalls, NEW c \in Client, NEW n \in Address, NEW kind \in Kind,
         Expires(c, n, kind)
  PROVE  ClientCalls'
<1> DEFINE p == <<n, kind>>
<1>1. /\ timers' = [timers EXCEPT ![c][p] = @ - 1] /\ timers[c][p] > 0 /\ p \in Address \X Kind
      /\ UNCHANGED <<sp_state, sp_data, heap>>
      /\ sp_state[c] \in DataState => kind # KindOf(sp_state[c])
  BY DEF Expires, TimerExpires
<1>a. \A d \in Client : CallOf(d)
  BY DEF ClientCalls
<1>b. \A x, y : <<x, y>> = p => y = kind
  OBVIOUS
<1> HIDE DEF p
<1>2. \A d \in Client, r \in Address \X Kind :
        timers'[d][r] = IF d = c /\ r = p THEN timers[c][p] - 1 ELSE timers[d][r]
  BY <1>1, TimerType
<1>3. ASSUME NEW d \in Client, sp_state[d] \in DataState
      PROVE  timers'[d][<<sp_data[d], KindOf(sp_state[d])>>] > 0
  <2>1. sp_data[d] \in Address /\ timers[d][<<sp_data[d], KindOf(sp_state[d])>>] > 0
    BY <1>3, <1>a DEF CallOf
  <2>2. KindOf(sp_state[d]) \in Kind
    BY DEF KindOf, Kind
  <2> DEFINE r == <<sp_data[d], KindOf(sp_state[d])>>
  <2>3. r \in Address \X Kind
    BY <2>1, <2>2
  <2>4. ~(d = c /\ r = p)
    BY <1>1, <1>3, <1>b
  <2> HIDE DEF r
  <2>5. timers'[d][r] = timers[d][r]
    BY <1>2, <2>3, <2>4
  <2>6. QED  BY <2>1, <2>5 DEF r
<1>4. \A d \in Client : CallOf(d)'
  BY <1>a, <1>1, <1>3 DEF CallOf
<1>5. QED  BY <1>4 DEF ClientCalls

(* No client is in a call at first.                                         *)
LEMMA CallsInit ==
  ASSUME Init
  PROVE  ClientCalls
BY DEF Init, CliInit, ClientCalls, CallOf, DataState

(* Every step keeps the calls.                                              *)
LEMMA CallsNext ==
  ASSUME Base, ClientCalls, [Next]_vars
  PROVE  ClientCalls'
<1>0. TypeInv /\ ServerSide /\ \A c \in Client : CallOf(c)
  BY DEF Base, ClientCalls
<1>1. CASE UNCHANGED <<sp_state, sp_data, heap, timers>>
  BY <1>0, <1>1, CallKept DEF ClientCalls
<1>2. CASE ServerStep
  BY <1>1, <1>2, ServerStepKeepsClients
<1>3. CASE ClientStep
  <2>1. CASE \E c \in Client, s \in Conns : Connects(c, s)
    BY <1>0, <2>1, ConnectsCall
  <2>2. CASE \E c \in Client : Updates(c)
    BY <1>1, <2>2 DEF Updates, UpdateRegistration
  <2>3. CASE \E c \in Client : Dies(c) \/ Disconnects(c)
    BY <1>0, <2>3, ClosesCall
  <2>4. CASE \E c \in Client : Disobeys(c)
    BY <1>1, <2>4 DEF Disobeys, cliVars
  <2>5. CASE \E c \in Client, n \in Address, kind \in Kind, state \in DataState : Obeys(c, n, kind, state)
    BY <1>0, <2>5, ObeysCall
  <2>6. CASE \E c \in Client, n \in Address, kind \in Kind, report \in SpProto : CallEnds(c, n, kind, report)
    BY <1>0, <2>6, CallEndsCall
  <2>7. CASE \E c \in Client, n \in Address : Stops(c, n)
    BY <1>0, <2>7, StopsCall
  <2>8. CASE \E c \in Client, n \in Address, kind \in Kind : Expires(c, n, kind)
    BY <1>0, <2>8, ExpiresCall
  <2>9. CASE \E c \in Client, id \in Ids : Restarts(c, id)
    BY <1>1, <2>9 DEF Restarts, ClientRestarts, ClientStarts
  <2>10. QED  BY <1>3, <2>1, <2>2, <2>3, <2>4, <2>5, <2>6, <2>7, <2>8, <2>9 DEF ClientStep
<1>4. CASE Stutters
  BY <1>1, <1>4 DEF Stutters, vars, cliVars
<1>5. QED  BY <1>0, <1>2, <1>3, <1>4, Flat

(* The connections, in every state.                                         *)
LEMMA BaseInvariant == Spec => []Base
<1>1. Init => Base
  BY BaseInit
<1>2. Base /\ [Next]_vars => Base'
  BY BaseNext
<1>3. QED  BY <1>1, <1>2, PTL DEF Spec

(* The calls, in every state.                                               *)
LEMMA CallsInvariant == Spec => []ClientCalls
<1>1. Init => ClientCalls
  BY CallsInit
<1>2. Base /\ ClientCalls /\ [Next]_vars => ClientCalls'
  BY CallsNext
<1>3. QED  BY <1>1, <1>2, BaseInvariant, PTL DEF Spec

(* A client of spc that is in a call has the session that udp_socket_input  *)
(* hands to rcv_data_input or send_data_input, and of the kind that they    *)
(* expect, although spc_state2init frees sessions when the server is lost   *)
(* and malloc uses their addresses again.                                   *)
THEOREM SessionOfCall == Spec => []CallHasSession
<1>1. Base /\ ClientCalls => CallHasSession
  <2>1. SUFFICES ASSUME Base, ClientCalls, NEW c \in alive, sp_state[c] \in DataState
                 PROVE  /\ sp_data[c] # 0
                        /\ \E ses \in heap[c][sp_data[c]] : ses.kind = KindOf(sp_state[c])
    BY DEF CallHasSession
  <2>2. c \in Client
    BY <2>1 DEF Base, TypeInv, TypeOK, CliTypeOK
  <2>3. CallOf(c)
    BY <2>1, <2>2 DEF ClientCalls
  <2>4. 0 \notin Address
    BY ClientAssumption DEF Address
  <2>5. QED  BY <2>1, <2>3, <2>4 DEF CallOf
<1>2. QED  BY <1>1, BaseInvariant, CallsInvariant, PTL

(* A client in a call has the timeout registered that ends it: rcv_timeout, *)
(* or send_data_wrapper, which is registered again at each of its runs.     *)
(* Timeouts that earlier calls left behind take none of it away.            *)
THEOREM TimeoutOfCall == Spec => []CallHasTimeout
<1>1. Base /\ ClientCalls => CallHasTimeout
  <2>1. SUFFICES ASSUME Base, ClientCalls, NEW c \in alive, sp_state[c] \in DataState
                 PROVE  timers[c][<<sp_data[c], KindOf(sp_state[c])>>] > 0
    BY DEF CallHasTimeout
  <2>2. c \in Client
    BY <2>1 DEF Base, TypeInv, TypeOK, CliTypeOK
  <2>3. CallOf(c)
    BY <2>1, <2>2 DEF ClientCalls
  <2>4. QED  BY <2>1, <2>3 DEF CallOf
<1>2. QED  BY <1>1, BaseInvariant, CallsInvariant, PTL

-----------------------------------------------------------------------------
(* Orders, calls and reports *)

\* The client of a connection is in a call; nothing of a call is under way;
\* there is at most one of an order, a call and a report.
InCall(s) == \E c \in Client : sp_s[c] = s /\ sp_state[c] \in DataState
Quiet(s) == None(s2c[s], Start) /\ None(c2s[s], Report) /\ ~InCall(s)
OneToken(s) ==
  /\ Lone(s2c[s], Start) /\ Lone(c2s[s], Report)
  /\ None(s2c[s], Start) \/ None(c2s[s], Report)
  /\ InCall(s) => None(s2c[s], Start) /\ None(c2s[s], Report)

\* For the server the client of a connection is in no call.
NotBusy(s) ==
  \/ \E i \in 1 .. Len(backlog) : backlog[i] = s
  \/ \E e \in Clients : cfe[e].cf_s = s /\ cfe[e].cf_state \in {"CS_INIT", "CS_IDLE"}

TokenAt(s) == OneToken(s) /\ (Sane /\ NotBusy(s) => Quiet(s))
Tokens == \A s \in Conns : TokenAt(s)

\* A step that begins nothing on a connection.
CalmQueues(s) ==
  /\ None(s2c[s], Start) => None(s2c'[s], Start)
  /\ Lone(s2c[s], Start) => Lone(s2c'[s], Start)
  /\ None(c2s[s], Report) => None(c2s'[s], Report)
  /\ Lone(c2s[s], Report) => Lone(c2s'[s], Report)

(* Such a step keeps what is under way.                                     *)
LEMMA CalmToken ==
  ASSUME NEW s, TokenAt(s), CalmQueues(s), InCall(s)' => InCall(s),
         Sane' /\ NotBusy(s)' => Sane /\ NotBusy(s)
  PROVE  TokenAt(s)'
<1>1. OneToken(s)'
  BY DEF TokenAt, OneToken, CalmQueues
<1>2. Quiet(s) => Quiet(s)'
  BY DEF Quiet, CalmQueues
<1>3. QED  BY <1>1, <1>2 DEF TokenAt

(* Reading a message, or sending EXIT, begins nothing.                      *)
LEMMA TailIsCalm ==
  ASSUME TypeInv, NEW s \in Conns,
         s2c'[s] = s2c[s] \/ (s2c[s] # <<>> /\ s2c'[s] = Tail(s2c[s])) \/ Extends(s2c'[s], s2c[s])
           \/ s2c'[s] = <<>>,
         c2s'[s] = c2s[s] \/ (c2s[s] # <<>> /\ c2s'[s] = Tail(c2s[s])) \/ c2s'[s] = <<>>
  PROVE  CalmQueues(s)
<1>1. c2s[s] \in Seq(SpProto) /\ s2c[s] \in Seq(SpProto)
  BY DEF TypeInv, TypeOK, NetTypeOK
<1>2. None(s2c[s], Start) => None(s2c'[s], Start)
  BY <1>1, TailQueue, EmptyQueue DEF Extends, Start
<1>3. Lone(s2c[s], Start) => Lone(s2c'[s], Start)
  BY <1>1, TailQueue, EmptyQueue DEF Extends, Start
<1>4. None(c2s[s], Report) => None(c2s'[s], Report)
  BY <1>1, TailQueue, EmptyQueue
<1>5. Lone(c2s[s], Report) => Lone(c2s'[s], Report)
  BY <1>1, TailQueue, EmptyQueue
<1>6. QED  BY <1>2, <1>3, <1>4, <1>5 DEF CalmQueues

(* The clients are in the same calls.                                       *)
LEMMA SameCalls ==
  ASSUME UNCHANGED <<sp_s, sp_state>>, NEW s
  PROVE  InCall(s)' <=> InCall(s)
BY DEF InCall

(* The server takes the same clients for busy.                              *)
LEMMA SameBusy ==
  ASSUME Clients' = Clients, UNCHANGED <<backlog, cfe, srv_exit, srv_fault>>, NEW s
  PROVE  Sane' /\ NotBusy(s)' => Sane /\ NotBusy(s)
BY DEF Sane, Running, NotBusy

(* A connection that is accepted has nothing of a call yet.                 *)
LEMMA NewClientToken ==
  ASSUME Base, Tokens, NEW e \in Entry, NewClient(e)
  PROVE  Tokens'
<1> DEFINE x == Head(backlog)
           n == Len(backlog)
<1>1. /\ Running /\ Clients' = Clients \cup {e} /\ e \notin Clients
      /\ cfe' = [d \in Clients \cup {e} |-> IF d = e THEN cfe_new(x, x) ELSE cfe[d]]
      /\ backlog' = Tail(backlog) /\ UNCHANGED <<s2c, c2s, sp_s, sp_state, srv_exit, srv_fault>>
  BY DEF NewClient
<1>2. /\ n \in Nat \ {0} /\ x = backlog[1] /\ Len(Tail(backlog)) = n - 1
      /\ \A i \in 1 .. n - 1 : Tail(backlog)[i] = backlog[i + 1]
  <2>1. backlog \in Seq(Conns) /\ backlog # <<>>
    BY DEF Base, TypeInv, TypeOK, CliTypeOK, NewClient
  <2>2. QED  BY <2>1, HeadTailProperties, EmptySeq
<1>3. \A i \in 1 .. n - 1 : i + 1 \in 1 .. n
  BY <1>2
<1>4. 1 \in 1 .. n /\ Len(backlog) = n
  BY <1>2
<1> HIDE DEF x, n
<1>5. cfe'[e].cf_s = x /\ \A d \in Clients : cfe'[d] = cfe[d]
  BY <1>1 DEF cfe_new
<1>6. SUFFICES ASSUME NEW s \in Conns PROVE TokenAt(s)'
  BY DEF Tokens
<1>7. CalmQueues(s) /\ (InCall(s)' => InCall(s))
  BY <1>1, TailIsCalm, SameCalls DEF Base
<1>8. NotBusy(s)' => NotBusy(s)
  <2>1. SUFFICES ASSUME NotBusy(s)' PROVE NotBusy(s)
    OBVIOUS
  <2>2. CASE \E i \in 1 .. Len(backlog') : backlog'[i] = s
    BY <1>1, <1>2, <1>3, <1>4, <2>2 DEF NotBusy
  <2>3. CASE \E d \in Clients' : cfe'[d].cf_s = s /\ cfe'[d].cf_state \in {"CS_INIT", "CS_IDLE"}
    BY <1>1, <1>2, <1>4, <1>5, <2>3 DEF NotBusy
  <2>4. QED  BY <2>1, <2>2, <2>3 DEF NotBusy
<1>9. Sane
  BY <1>1 DEF Sane
<1>10. QED  BY <1>7, <1>8, <1>9, CalmToken DEF Tokens

(* A report that is read was the only thing under way.                      *)
LEMMA ReadsToken ==
  ASSUME Base, Tokens, NEW e \in Clients, Reads(e), NEW s \in Conns
  PROVE  /\ CalmQueues(s) /\ (InCall(s)' <=> InCall(s)) /\ Sane
         /\ cfe[e].cf_s \in Conns
         /\ Lone(c2s[cfe[e].cf_s], Report)
         /\ First(e).type \in Report =>
              /\ None(c2s'[cfe[e].cf_s], Report) /\ None(s2c'[cfe[e].cf_s], Start)
              /\ ~InCall(cfe[e].cf_s)
<1> DEFINE x == cfe[e].cf_s
<1>1. /\ c2s \in [Conns -> Seq(SpProto)] /\ x \in Conns
      /\ c2s[x] # <<>> /\ c2s' = [c2s EXCEPT ![x] = Tail(@)] /\ s2c' = s2c
      /\ UNCHANGED <<sp_s, sp_state>> /\ Running
  <2>1. cfe[e] \in CfEntry
    BY DEF Base, TypeInv, TypeOK, SrvTypeOK
  <2>2. x \in Conns
    BY <2>1 DEF CfEntry
  <2>3. QED  BY <2>2 DEF Base, TypeInv, TypeOK, NetTypeOK, Reads, ClientsKeep, cliVars
<1>2. First(e) = Head(c2s[x])
  BY DEF First
<1> HIDE DEF x
<1>3. c2s'[s] = c2s[s] \/ (c2s[s] # <<>> /\ c2s'[s] = Tail(c2s[s]))
  BY <1>1
<1>4. CalmQueues(s)
  BY <1>1, <1>3, TailIsCalm DEF Base
<1>5. OneToken(x)
  BY <1>1 DEF Tokens, TokenAt
<1>6. c2s'[x] = Tail(c2s[x]) /\ c2s[x] \in Seq(SpProto)
  BY <1>1
<1>7. First(e).type \in Report => None(c2s'[x], Report) /\ ~None(c2s[x], Report)
  BY <1>1, <1>2, <1>5, <1>6, TailQueue DEF OneToken
<1>8. QED  BY <1>1, <1>4, <1>5, <1>7, SameCalls DEF OneToken, Sane, x

(* A registration may be read after an order was sent: it does not make a   *)
(* busy client idle.                                                        *)
LEMMA ReadRegisterToken ==
  ASSUME Base, Tokens, NEW e \in Clients, ReadRegister(e)
  PROVE  Tokens'
<1>1. SUFFICES ASSUME NEW s \in Conns PROVE TokenAt(s)'
  BY DEF Tokens
<1>2. CalmQueues(s) /\ (InCall(s)' => InCall(s)) /\ Sane
  BY ReadsToken DEF ReadRegister
<1>3. \A d \in Clients : cfe'[d].cf_s = cfe[d].cf_s /\ cfe'[d].cf_state = cfe[d].cf_state
  BY DEF ReadRegister, Register, Base, TypeInv, TypeOK, SrvTypeOK, CfEntry
<1>4. Clients' = Clients /\ backlog' = backlog
  BY DEF ReadRegister, ListKeeps, Reads, ClientsKeep, cliVars
<1>5. NotBusy(s)' => NotBusy(s)
  BY <1>3, <1>4 DEF NotBusy
<1>6. QED  BY <1>2, <1>5, CalmToken DEF Tokens

(* receive_send_report and receive_rcv_report make a client idle, and the   *)
(* report that they read was the last of its call.                          *)
LEMMA ReadReportToken ==
  ASSUME Base, Tokens, NEW e \in Clients, ReadReport(e)
  PROVE  Tokens'
<1>1. SUFFICES ASSUME NEW s \in Conns PROVE TokenAt(s)'
  BY DEF Tokens
<1>2. CalmQueues(s) /\ (InCall(s)' <=> InCall(s)) /\ Sane
  BY ReadsToken DEF ReadReport
<1>3. \A d \in Clients : cfe'[d].cf_s = cfe[d].cf_s /\ (d # e => cfe'[d].cf_state = cfe[d].cf_state)
  BY DEF ReadReport, MarkIdle, Base, TypeInv, TypeOK, SrvTypeOK, CfEntry
<1>4. Clients' = Clients /\ backlog' = backlog
  BY DEF ReadReport, ListKeeps, Reads, ClientsKeep, cliVars
<1>5. CASE s # cfe[e].cf_s
  <2>1. NotBusy(s)' => NotBusy(s)
    BY <1>3, <1>4, <1>5 DEF NotBusy
  <2>2. QED  BY <1>2, <2>1, CalmToken DEF Tokens
<1>6. CASE s = cfe[e].cf_s
  <2>1. None(c2s'[s], Report) /\ None(s2c'[s], Start) /\ ~InCall(s) /\ First(e).type \in Report
    BY <1>6, ReadsToken DEF ReadReport
  <2>2. Quiet(s)'
    BY <1>2, <2>1 DEF Quiet
  <2>3. OneToken(s)'
    BY <1>2, <2>1 DEF OneToken, Tokens, TokenAt, CalmQueues
  <2>4. QED  BY <2>2, <2>3 DEF TokenAt
<1>7. QED  BY <1>5, <1>6

\* The server is about to exit: nothing is asked of its entries.
LEMMA ReadFailsToken ==
  ASSUME Base, Tokens, NEW e \in Clients, ReadFails(e) \/ ReadReset(e)
  PROVE  Tokens'
<1>1. SUFFICES ASSUME NEW s \in Conns PROVE TokenAt(s)'
  BY DEF Tokens
<1>2. CalmQueues(s) /\ (InCall(s)' <=> InCall(s)) /\ Sane
  BY ReadsToken DEF ReadFails, ReadReset
<1>3. ~Sane'
  BY DEF ReadFails, ReadReset, Reads, Sane, Running
<1>4. QED  BY <1>2, <1>3, CalmToken DEF Tokens

(* A message that client_input drops.                                       *)
LEMMA ReadIgnoredToken ==
  ASSUME Base, Tokens, NEW e \in Clients, ReadIgnored(e)
  PROVE  Tokens'
<1>1. SUFFICES ASSUME NEW s \in Conns PROVE TokenAt(s)'
  BY DEF Tokens
<1>2. CalmQueues(s) /\ (InCall(s)' <=> InCall(s)) /\ Sane
  BY ReadsToken DEF ReadIgnored
<1>3. Sane' /\ NotBusy(s)' => Sane /\ NotBusy(s)
  BY SameBusy DEF ReadIgnored, ListKeeps, Reads, ClientsKeep, cliVars
<1>4. QED  BY <1>2, <1>3, CalmToken DEF Tokens

(* Clients that are removed.                                                *)
LEMMA ForgetToken ==
  ASSUME Base, Tokens, NEW S \in SUBSET Clients, Forget(S)
  PROVE  Tokens'
<1>1. SUFFICES ASSUME NEW s \in Conns PROVE TokenAt(s)'
  BY DEF Tokens
<1>2. s2c'[s] = s2c[s] \/ Extends(s2c'[s], s2c[s])
  BY DEF Forget
<1>3. c2s' = c2s /\ UNCHANGED <<sp_s, sp_state, backlog>> /\ Running
  BY DEF Forget, ClientsKeep, cliVars
<1>4. CalmQueues(s) /\ (InCall(s)' => InCall(s))
  BY <1>2, <1>3, TailIsCalm, SameCalls DEF Base
<1>5. NotBusy(s)' => NotBusy(s)
  BY <1>3 DEF NotBusy, Forget, SameFields
<1>6. QED  BY <1>3, <1>4, <1>5, CalmToken DEF Tokens, Sane

(* udp_input makes a new client idle, which has had no order.               *)
LEMMA ProbedToken ==
  ASSUME Base, Tokens, NEW p \in udp, NEW F \in SUBSET Clients, Probed(p, F)
  PROVE  Tokens'
<1>1. SUFFICES ASSUME NEW s \in Conns PROVE TokenAt(s)'
  BY DEF Tokens
<1>2. UNCHANGED <<c2s, s2c, sp_s, sp_state, backlog>> /\ Running /\ Clients' = Clients
  BY DEF Probed, ListKeeps, ClientsKeep, cliVars
<1>3. CalmQueues(s) /\ (InCall(s)' => InCall(s))
  BY <1>2, TailIsCalm, SameCalls DEF Base
<1>4. \A d \in Clients : /\ cfe'[d].cf_s = cfe[d].cf_s
                         /\ \/ cfe'[d].cf_state = cfe[d].cf_state
                            \/ cfe[d].cf_state = "CS_INIT"
  BY DEF Probed, Base, TypeInv, TypeOK, SrvTypeOK, CfEntry
<1>5. NotBusy(s)' => NotBusy(s)
  BY <1>2, <1>4 DEF NotBusy
<1>6. QED  BY <1>2, <1>3, <1>5, CalmToken DEF Tokens, Sane

(* client_startcalls orders idle clients: nothing of a call is under way.   *)
LEMMA OrderedToken ==
  ASSUME Base, Tokens, NEW e1 \in Clients, NEW e2 \in Clients, NEW S1 \in SUBSET Conns,
         NEW S2 \in SUBSET Conns, Ordered(e1, e2, S1, S2)
  PROVE  Tokens'
<1>1. /\ Running /\ UNCHANGED <<c2s, sp_s, sp_state, backlog>> /\ Clients' = Clients
      /\ cfe[e1].cf_state = "CS_IDLE" /\ cfe[e2].cf_state = "CS_IDLE" /\ e1 # e2
      /\ S1 \subseteq {cfe[e1].cf_s} /\ S2 \subseteq {cfe[e2].cf_s}
  BY DEF Ordered, ClientsKeep, cliVars
<1>2. /\ \A e \in Clients : cfe'[e].cf_s = cfe[e].cf_s
      /\ \A e \in Clients : e \notin {e1, e2} => cfe'[e].cf_state = cfe[e].cf_state
      /\ Running' => \A e \in {e1, e2} : cfe'[e].cf_state \in {"CS_SEND", "CS_RCV"}
  BY OrderedEntries DEF Base
<1>3. /\ StartMessage(e1, "START_SEND") \in SpProto /\ StartMessage(e2, "START_RCV") \in SpProto
      /\ \A s \in Conns : s2c'[s] = IF s \in S1 THEN Append(s2c[s], StartMessage(e1, "START_SEND"))
                                    ELSE IF s \in S2 THEN Append(s2c[s], StartMessage(e2, "START_RCV"))
                                    ELSE s2c[s]
  BY OrderedQueues DEF Base
<1>4. Sane /\ (Sane' => Running')
  BY <1>1 DEF Sane, Running, Ordered
<1>5. ServerEndsOf(Clients)
  BY <1>4 DEF Base, ServerSide
<1>6. SUFFICES ASSUME NEW s \in Conns PROVE TokenAt(s)'
  BY DEF Tokens
<1>7. InCall(s)' <=> InCall(s)
  BY <1>1, SameCalls
<1>8. c2s[s] \in Seq(SpProto) /\ s2c[s] \in Seq(SpProto) /\ c2s'[s] = c2s[s]
  BY <1>1, ConnsOfClients DEF Base
<1>9. CASE s \in S1 \cup S2
  <2>1. \E e \in {e1, e2} : cfe[e].cf_s = s
    BY <1>1, <1>9
  <2>2. Quiet(s)
    BY <1>1, <1>4, <2>1 DEF Tokens, TokenAt, NotBusy
  <2>3. PICK m \in SpProto : s2c'[s] = Append(s2c[s], m)
    BY <1>3, <1>9
  <2>4. Lone(s2c'[s], Start)
    BY <1>8, <2>2, <2>3, AppendQueue DEF Quiet
  <2>5. OneToken(s)'
    BY <1>7, <1>8, <2>2, <2>4 DEF Quiet, OneToken, Tokens, TokenAt
  <2>6. ~(Sane' /\ NotBusy(s)')
    <3>1. \A i \in 1 .. Len(backlog) : backlog[i] # s
      BY <1>5, <2>1 DEF ServerEndsOf
    <3>2. \A e \in Clients : cfe[e].cf_s = s => e \in {e1, e2}
      BY <1>5, <2>1 DEF ServerEndsOf
    <3>3. QED  BY <1>1, <1>2, <1>4, <3>1, <3>2 DEF NotBusy
  <2>7. QED  BY <2>5, <2>6 DEF TokenAt
<1>10. CASE s \notin S1 \cup S2
  <2>1. CalmQueues(s)
    BY <1>3, <1>8, <1>10, TailIsCalm DEF Base
  <2>2. Sane' /\ NotBusy(s)' => NotBusy(s)
    BY <1>1, <1>2, <1>4 DEF NotBusy
  <2>3. QED  BY <1>4, <1>7, <2>1, <2>2, CalmToken DEF Tokens
<1>11. QED  BY <1>9, <1>10

(* The server ends and starts.                                              *)
LEMMA ServerToken ==
  ASSUME Base, Tokens, Leaves \/ Ends \/ Starts
  PROVE  Tokens'
<1>1. SUFFICES ASSUME NEW s \in Conns PROVE TokenAt(s)'
  BY DEF Tokens
<1>2. CASE Leaves
  <2>1. UNCHANGED <<c2s, s2c, sp_s, sp_state>> /\ ~Sane'
    BY <1>2 DEF Leaves, ClientsKeep, cliVars, Sane, Running
  <2>2. CalmQueues(s) /\ (InCall(s)' => InCall(s))
    BY <2>1, TailIsCalm, SameCalls DEF Base
  <2>3. QED  BY <2>1, <2>2, CalmToken DEF Tokens
<1>3. CASE Ends
  <2>1. UNCHANGED <<s2c, sp_s, sp_state>> /\ c2s'[s] = <<>> /\ Clients' = {} /\ backlog' = <<>>
    BY <1>3 DEF Ends, ServerEnds
  <2>2. CalmQueues(s) /\ (InCall(s)' => InCall(s))
    BY <2>1, TailIsCalm, SameCalls DEF Base
  <2>3. ~NotBusy(s)'
    BY <2>1 DEF NotBusy
  <2>4. QED  BY <2>2, <2>3, CalmToken DEF Tokens
<1>4. CASE Starts
  <2>1. UNCHANGED <<c2s, s2c, sp_s, sp_state, backlog, cfe>> /\ srv_exit = 3 /\ Clients' = Clients
    BY <1>4 DEF Starts, ServerStarts, netVars, cliVars
  <2>2. CalmQueues(s) /\ (InCall(s)' => InCall(s))
    BY <2>1, TailIsCalm, SameCalls DEF Base
  <2>3. NotBusy(s)' => NotBusy(s)
    BY <2>1 DEF NotBusy
  <2>4. QED  BY <2>1, <2>2, <2>3, CalmToken DEF Tokens, Sane
<1>5. QED  BY <1>2, <1>3, <1>4

\* The client's own connection is the only one whose calls change.
LEMMA ServerKeepsBusy ==
  ASSUME ServerKeeps, UNCHANGED backlog, NEW s
  PROVE  Sane' /\ NotBusy(s)' => Sane /\ NotBusy(s)
BY SameBusy DEF ServerKeeps, srvVars

(* A new connection.                                                        *)
LEMMA ConnectsToken ==
  ASSUME Base, Tokens, NEW c \in Client, NEW x \in Conns, Connects(c, x)
  PROVE  Tokens'
<1>1. /\ Running /\ x \notin srv_open /\ x \notin cli_open
      /\ sp_s' = [sp_s EXCEPT ![c] = x] /\ sp_state' = [sp_state EXCEPT ![c] = "SS_SERVER"]
      /\ c2s' = [c2s EXCEPT ![x] = Append(<<>>, send_register(c).message)]
      /\ s2c' = [s2c EXCEPT ![x] = <<>>] /\ backlog' = Append(backlog, x)
      /\ UNCHANGED srvVars /\ Clients' = Clients
  BY DEF Connects, FreeConns, ServerKeeps
<1>2. /\ sp_s \in [Client -> 0 .. MaxConns] /\ sp_state \in [Client -> SpcState]
      /\ c2s \in [Conns -> Seq(SpProto)] /\ s2c \in [Conns -> Seq(SpProto)]
  BY DEF Base, TypeInv, TypeOK, CliTypeOK, NetTypeOK
<1>3. \A d \in Client : sp_s[d] # x
  BY <1>1, NetAssumption DEF Base, ClientEnds, Conns
<1>4. \A d \in Client : /\ sp_s'[d] = IF d = c THEN x ELSE sp_s[d]
                        /\ sp_state'[d] = IF d = c THEN "SS_SERVER" ELSE sp_state[d]
  BY <1>1, <1>2
<1>5. "SS_SERVER" \notin DataState
  BY DEF DataState
<1>6. SUFFICES ASSUME NEW s \in Conns PROVE TokenAt(s)'
  BY DEF Tokens
<1>7. InCall(s)' => InCall(s)
  BY <1>4, <1>5 DEF InCall
<1>8. CASE s = x
  <2>1. None(c2s'[s], Report) /\ Lone(c2s'[s], Report)
    <3>1. send_register(c).message \in SpProto /\ send_register(c).message.type \notin Report
      BY RegisterMessage DEF Base, Report
    <3>2. c2s'[s] = Append(<<>>, send_register(c).message)
      BY <1>1, <1>2, <1>8
    <3>3. <<>> \in Seq(SpProto) /\ None(<<>>, Report)
      BY EmptyQueue
    <3>4. None(c2s'[s], Report)
      <4> DEFINE m == send_register(c).message
                 q == <<>>
      <4>1. m \in SpProto /\ m.type \notin Report /\ q \in Seq(SpProto) /\ None(q, Report)
        BY <3>1, <3>3
      <4> HIDE DEF m, q
      <4>2. None(Append(q, m), Report)
        BY <4>1, AppendQueue
      <4>3. QED  BY <3>2, <4>2 DEF m, q
    <3>5. Lone(c2s'[s], Report)
      BY <3>1, <3>2, <3>3, AppendQueue
    <3>6. QED  BY <3>4, <3>5
  <2>2. None(s2c'[s], Start) /\ Lone(s2c'[s], Start)
    BY <1>1, <1>2, <1>8, EmptyQueue
  <2>3. ~InCall(s)'
    BY <1>3, <1>4, <1>5, <1>8 DEF InCall
  <2>4. QED  BY <2>1, <2>2, <2>3 DEF TokenAt, OneToken, Quiet
<1>9. CASE s # x
  <2>1. CalmQueues(s)
    BY <1>1, <1>2, <1>9, TailIsCalm DEF Base
  <2>2. NotBusy(s)' => NotBusy(s)
    <3> DEFINE n == Len(backlog)
    <3>1. /\ n \in Nat /\ Len(backlog') = n + 1 /\ backlog'[n + 1] = x
          /\ \A i \in 1 .. n : backlog'[i] = backlog[i]
      <4>1. backlog \in Seq(Conns)
        BY DEF Base, TypeInv, TypeOK, CliTypeOK
      <4>2. QED  BY <1>1, <4>1, AppendProperties, LenProperties
    <3>2. \A i \in 1 .. Len(backlog') : i \in 1 .. n \/ i = n + 1
      BY <3>1
    <3>3. (\E i \in 1 .. Len(backlog') : backlog'[i] = s) => \E i \in 1 .. Len(backlog) : backlog[i] = s
      BY <1>9, <3>1, <3>2
    <3>4. QED  BY <1>1, <3>3 DEF NotBusy, srvVars
  <2>3. QED  BY <1>1, <1>7, <2>1, <2>2, CalmToken DEF Tokens, Sane
<1>10. QED  BY <1>8, <1>9

\* A client sends a message.
LEMMA SentToken ==
  ASSUME TypeInv, NEW x \in Conns, NEW m \in SpProto, c2s' = Send(c2s, x, m, srv_open),
         NEW s \in Conns
  PROVE  /\ s # x => c2s'[s] = c2s[s]
         /\ c2s'[x] = c2s[x] \/ c2s'[x] = Append(c2s[x], m)
BY DEF Send, TypeInv, TypeOK, NetTypeOK

(* A client registers again, in a call or outside one.                      *)
LEMMA UpdatesToken ==
  ASSUME Base, Tokens, NEW c \in Client, Updates(c)
  PROVE  Tokens'
<1> DEFINE m == send_register(c).message
           x == sp_s[c]
<1>1. /\ c2s' = Send(c2s, x, m, srv_open) /\ UNCHANGED <<s2c, sp_s, sp_state, backlog>>
      /\ ServerKeeps /\ x \in Conns
  BY ConnsOfClients DEF Updates, UpdateRegistration, Base, ClientEnds
<1>2. m \in SpProto /\ m.type \notin Report
  BY RegisterMessage DEF Base, Report
<1> HIDE DEF m, x
<1>3. SUFFICES ASSUME NEW s \in Conns PROVE TokenAt(s)'
  BY DEF Tokens
<1>4. c2s'[s] = c2s[s] \/ c2s'[s] = Append(c2s[s], m)
  BY <1>1, <1>2, SentToken DEF Base
<1>5. c2s[s] \in Seq(SpProto)
  BY ConnsOfClients DEF Base
<1>6. CalmQueues(s)
  <2>1. None(c2s[s], Report) => None(c2s'[s], Report)
    BY <1>2, <1>4, <1>5, AppendQueue
  <2>2. Lone(c2s[s], Report) => Lone(c2s'[s], Report)
    BY <1>2, <1>4, <1>5, AppendQueue
  <2>3. QED  BY <1>1, <2>1, <2>2 DEF CalmQueues
<1>7. QED  BY <1>1, <1>6, SameCalls, ServerKeepsBusy, CalmToken DEF Tokens

(* A client closes its connection, and with it ends what was under way.     *)
LEMMA ClosesToken ==
  ASSUME Base, Tokens, NEW c \in Client, Dies(c) \/ Disconnects(c)
  PROVE  Tokens'
<1>1. /\ sp_state' = [sp_state EXCEPT ![c] = "SS_INIT"] /\ sp_s' = [sp_s EXCEPT ![c] = 0]
      /\ UNCHANGED <<c2s, backlog>> /\ ServerKeeps
  BY DEF Dies, ProcessEnds, Disconnects, spc_state2init
<1>2. SUFFICES ASSUME NEW s \in Conns PROVE TokenAt(s)'
  BY DEF Tokens
<1>3. s2c'[s] = s2c[s] \/ s2c'[s] = <<>>
  BY DEF Dies, ProcessEnds, Disconnects, spc_state2init
<1>4. CalmQueues(s)
  BY <1>1, <1>3, TailIsCalm DEF Base
<1>5. InCall(s)' => InCall(s)
  <2>1. \A d \in Client : d # c => sp_s'[d] = sp_s[d] /\ sp_state'[d] = sp_state[d]
    BY <1>1 DEF Base, TypeInv, TypeOK, CliTypeOK
  <2>2. sp_state'[c] \notin DataState
    BY <1>1 DEF Base, TypeInv, TypeOK, CliTypeOK, DataState
  <2>3. QED  BY <2>1, <2>2 DEF InCall
<1>6. QED  BY <1>1, <1>4, <1>5, ServerKeepsBusy, CalmToken DEF Tokens

(* The order that server_input reads was the only one.                      *)
LEMMA TakesOrderToken ==
  ASSUME Base, NEW c \in Client, TakesOrder(c), UNCHANGED c2s, NEW s \in Conns
  PROVE  /\ CalmQueues(s) /\ sp_s[c] \in Conns
         /\ Lone(s2c[sp_s[c]], Start) /\ Order(c).type \in Start =>
              None(s2c'[sp_s[c]], Start) /\ ~None(s2c[sp_s[c]], Start)
<1> DEFINE x == sp_s[c]
<1>1. x \in Conns /\ \A r \in Conns : s2c'[r] = IF r = x THEN Tail(s2c[r]) ELSE s2c[r]
  BY OrderTaken DEF Base
<1>2. s2c[x] # <<>> /\ s2c[x] \in Seq(SpProto)
  BY <1>1, ConnsOfClients DEF TakesOrder, Base
<1>3. Order(c) = Head(s2c[x])
  BY DEF Order
<1> HIDE DEF x
<1>4. CalmQueues(s)
  BY <1>1, <1>2, TailIsCalm DEF Base
<1>5. Lone(s2c[x], Start) /\ Order(c).type \in Start => None(s2c'[x], Start) /\ ~None(s2c[x], Start)
  BY <1>1, <1>2, <1>3, TailQueue
<1>6. QED  BY <1>1, <1>4, <1>5 DEF x

(* An order becomes a call.                                                 *)
LEMMA ObeysToken ==
  ASSUME Base, Tokens, NEW c \in Client, NEW n \in Address, NEW kind \in Kind,
         NEW state \in DataState, Obeys(c, n, kind, state)
  PROVE  Tokens'
<1> DEFINE x == sp_s[c]
<1>1. /\ TakesOrder(c) /\ UNCHANGED <<sp_s, c2s, backlog>> /\ ServerKeeps
      /\ sp_state' = [sp_state EXCEPT ![c] = state] /\ Order(c).type \in Start
  BY DEF Obeys, TakesOrder, Start
<1>2. x \in Conns /\ TokenAt(x)
  BY <1>1, OrderTaken DEF Tokens, Base
<1>3. None(s2c'[x], Start) /\ ~None(s2c[x], Start)
  BY <1>1, <1>2, TakesOrderToken DEF TokenAt, OneToken
<1>4. \A d \in Client : sp_s'[d] = sp_s[d] /\ (d # c => sp_state'[d] = sp_state[d])
  BY <1>1 DEF Base, TypeInv, TypeOK, CliTypeOK
<1>5. SUFFICES ASSUME NEW s \in Conns PROVE TokenAt(s)'
  BY DEF Tokens
<1>6. CalmQueues(s)
  BY <1>1, TakesOrderToken
<1>7. CASE s # x
  <2>1. InCall(s)' => InCall(s)
    BY <1>4, <1>7 DEF InCall
  <2>2. QED  BY <1>1, <1>6, <2>1, ServerKeepsBusy, CalmToken DEF Tokens
<1>8. CASE s = x
  <2>1. None(c2s'[s], Report) /\ Lone(c2s'[s], Report) /\ Lone(s2c'[s], Start)
    BY <1>1, <1>2, <1>3, <1>6, <1>8 DEF TokenAt, OneToken, CalmQueues
  <2>2. OneToken(s)'
    BY <1>3, <1>8, <2>1 DEF OneToken
  <2>3. ~(Sane /\ NotBusy(s))
    BY <1>2, <1>3, <1>8 DEF TokenAt, Quiet
  <2>4. ~(Sane' /\ NotBusy(s)')
    BY <1>1, <2>3, ServerKeepsBusy
  <2>5. QED  BY <2>2, <2>4 DEF TokenAt
<1>9. QED  BY <1>7, <1>8

(* An order is dropped.                                                     *)
LEMMA DisobeysToken ==
  ASSUME Base, Tokens, NEW c \in Client, Disobeys(c)
  PROVE  Tokens'
<1>1. TakesOrder(c) /\ ServerKeeps /\ UNCHANGED <<c2s, sp_s, sp_state, backlog>>
  BY DEF Disobeys, TakesOrder, cliVars
<1>2. SUFFICES ASSUME NEW s \in Conns PROVE TokenAt(s)'
  BY DEF Tokens
<1>3. QED  BY <1>1, TakesOrderToken, SameCalls, ServerKeepsBusy, CalmToken DEF Tokens

(* A call becomes a report.                                                 *)
LEMMA CallEndsToken ==
  ASSUME Base, Tokens, NEW c \in Client, NEW n \in Address, NEW kind \in Kind,
         NEW report \in SpProto, CallEnds(c, n, kind, report)
  PROVE  Tokens'
<1> DEFINE x == sp_s[c]
<1>1. /\ UNCHANGED <<s2c, sp_s, backlog>> /\ ServerKeeps
      /\ sp_state' = [sp_state EXCEPT ![c] = "SS_SERVER"] /\ sp_state[c] \in DataState
      /\ c2s' = Send(c2s, x, report, srv_open)
  BY DEF CallEnds, EndCall, DataState, SpcState
<1>2. x \in Conns
  BY <1>1, ConnsOfClients DEF Base, ClientEnds, DataState
<1>3. InCall(x) /\ TokenAt(x)
  BY <1>1, <1>2 DEF InCall, Tokens
<1>4. \A d \in Client : sp_s'[d] = sp_s[d] /\ sp_state'[d] = IF d = c THEN "SS_SERVER" ELSE sp_state[d]
  BY <1>1 DEF Base, TypeInv, TypeOK, CliTypeOK
<1>5. "SS_SERVER" \notin DataState
  BY DEF DataState
<1>6. SUFFICES ASSUME NEW s \in Conns PROVE TokenAt(s)'
  BY DEF Tokens
<1>7. InCall(s)' => InCall(s)
  BY <1>4, <1>5 DEF InCall
<1>8. c2s[s] \in Seq(SpProto) /\ c2s[x] \in Seq(SpProto)
  BY <1>2, ConnsOfClients DEF Base
<1> HIDE DEF x
<1>9. /\ s # x => c2s'[s] = c2s[s]
      /\ c2s'[x] = c2s[x] \/ c2s'[x] = Append(c2s[x], report)
  BY <1>1, <1>2, SentToken DEF Base
<1>10. CASE s # x
  <2>1. CalmQueues(s)
    BY <1>1, <1>9, <1>10 DEF CalmQueues
  <2>2. QED  BY <1>1, <1>7, <2>1, ServerKeepsBusy, CalmToken DEF Tokens
<1>11. CASE s = x
  <2>1. None(s2c'[s], Start) /\ None(c2s[s], Report) /\ Lone(s2c'[s], Start) /\ Lone(c2s[s], Report)
    BY <1>1, <1>3, <1>11 DEF TokenAt, OneToken
  <2>2. Lone(c2s'[s], Report)
    <3>1. Lone(Append(c2s[s], report), Report)
      BY <1>8, <2>1, AppendQueue
    <3>2. QED  BY <1>9, <1>11, <2>1, <3>1
  <2>3. ~InCall(s)'
    <3>1. \A d \in Client : sp_s[d] = x => d = c
      BY <1>2, NetAssumption DEF Base, ClientEnds, Conns, x
    <3>2. QED  BY <1>4, <1>5, <1>11, <3>1 DEF InCall
  <2>4. ~(Sane /\ NotBusy(s))
    BY <1>3, <1>11 DEF TokenAt, Quiet
  <2>5. QED  BY <1>1, <2>1, <2>2, <2>3, <2>4, ServerKeepsBusy DEF TokenAt, OneToken
<1>12. QED  BY <1>10, <1>11

(* A sender stops sending and stays in its call.                            *)
LEMMA StopsToken ==
  ASSUME Base, Tokens, NEW c \in Client, NEW n \in Address, Stops(c, n)
  PROVE  Tokens'
<1>1. /\ UNCHANGED <<c2s, s2c, sp_s, backlog>> /\ ServerKeeps
      /\ sp_state' = [sp_state EXCEPT ![c] = "SS_DATA_SEND_CLOSING"] /\ sp_state[c] \in DataState
  BY DEF Stops, StopSending, netVars, DataState, SpcState
<1>2. \A d \in Client : sp_state'[d] = IF d = c THEN "SS_DATA_SEND_CLOSING" ELSE sp_state[d]
  BY <1>1 DEF Base, TypeInv, TypeOK, CliTypeOK
<1>3. SUFFICES ASSUME NEW s \in Conns PROVE TokenAt(s)'
  BY DEF Tokens
<1>4. InCall(s)' => InCall(s)
  BY <1>1, <1>2 DEF InCall
<1>5. QED  BY <1>1, <1>4, TailIsCalm, ServerKeepsBusy, CalmToken DEF Tokens, Base

(* A step without messages.                                                 *)
LEMMA IdleToken ==
  ASSUME Base, Tokens, UNCHANGED <<c2s, s2c, sp_s, sp_state, backlog, cfe, srv_exit, srv_fault>>,
         Clients' = Clients
  PROVE  Tokens'
<1>1. SUFFICES ASSUME NEW s \in Conns PROVE TokenAt(s)'
  BY DEF Tokens
<1>2. QED  BY TailIsCalm, SameBusy, SameCalls, CalmToken DEF Tokens, Base

(* Nothing is under way at first.                                           *)
LEMMA TokensInit ==
  ASSUME Init
  PROVE  Tokens
<1>1. SUFFICES ASSUME NEW s \in Conns PROVE TokenAt(s)
  BY DEF Tokens
<1>2. c2s[s] = <<>> /\ s2c[s] = <<>> /\ \A c \in Client : sp_state[c] = "SS_INIT"
  BY DEF Init, NetInit, CliInit
<1>3. QED  BY <1>2, EmptyQueue DEF TokenAt, OneToken, Quiet, InCall, DataState

(* Every step keeps it.                                                     *)
LEMMA TokensNext ==
  ASSUME Base, Tokens, [Next]_vars
  PROVE  Tokens'
<1>1. CASE ServerStep
  <2>1. CASE \E e \in Entry : NewClient(e)
    BY <2>1, NewClientToken
  <2>2. CASE \E e \in Clients : ReadRegister(e) \/ ReadReport(e) \/ ReadFails(e) \/ ReadReset(e)
                                \/ ReadIgnored(e)
    BY <2>2, ReadRegisterToken, ReadReportToken, ReadFailsToken, ReadIgnoredToken
  <2>3. CASE \E S \in SUBSET Clients : Forget(S)
    BY <2>3, ForgetToken
  <2>4. CASE \E p \in udp, F \in SUBSET Clients : Probed(p, F)
    BY <2>4, ProbedToken
  <2>5. CASE \E e1, e2 \in Clients, S1, S2 \in SUBSET Conns : Ordered(e1, e2, S1, S2)
    BY <2>5, OrderedToken
  <2>6. CASE Leaves \/ Ends \/ Starts
    BY <2>6, ServerToken
  <2>7. QED  BY <1>1, <2>1, <2>2, <2>3, <2>4, <2>5, <2>6 DEF ServerStep
<1>2. CASE ClientStep
  <2>1. CASE \E c \in Client, s \in Conns : Connects(c, s)
    BY <2>1, ConnectsToken
  <2>2. CASE \E c \in Client : Updates(c) \/ Dies(c) \/ Disconnects(c) \/ Disobeys(c)
    BY <2>2, UpdatesToken, ClosesToken, DisobeysToken
  <2>3. CASE \E c \in Client, n \in Address, kind \in Kind, state \in DataState : Obeys(c, n, kind, state)
    BY <2>3, ObeysToken
  <2>4. CASE \E c \in Client, n \in Address, kind \in Kind, report \in SpProto : CallEnds(c, n, kind, report)
    BY <2>4, CallEndsToken
  <2>5. CASE \E c \in Client, n \in Address : Stops(c, n)
    BY <2>5, StopsToken
  <2>6. CASE \E c \in Client, n \in Address, kind \in Kind : Expires(c, n, kind)
    BY <2>6, IdleToken DEF Expires, TimerExpires, netVars, ServerKeeps, srvVars
  <2>7. CASE \E c \in Client, id \in Ids : Restarts(c, id)
    BY <2>7, IdleToken DEF Restarts, ClientRestarts, ClientStarts, netVars, srvVars
  <2>8. QED  BY <1>2, <2>1, <2>2, <2>3, <2>4, <2>5, <2>6, <2>7 DEF ClientStep
<1>3. CASE Stutters
  BY <1>3, IdleToken DEF Stutters, vars, netVars, cliVars, srvVars
<1>4. QED  BY <1>1, <1>2, <1>3, Flat DEF Base

(* At most one order, call or report is under way on a connection.          *)
LEMMA TokensInvariant == Spec => []Tokens
<1>1. Init => Tokens
  BY TokensInit
<1>2. Base /\ Tokens /\ [Next]_vars => Tokens'
  BY TokensNext
<1>3. QED  BY <1>1, <1>2, BaseInvariant, PTL DEF Spec

-----------------------------------------------------------------------------
(* Entries, identities and addresses *)

\* What a step of the server does to an entry that is in the list afterwards.
Fresh(e) ==
  /\ cfe'[e].cf_id = 0 /\ cfe'[e].cf_pub = {} /\ cfe'[e].cf_state = "CS_INIT"
Kept(e) ==
  /\ cfe'[e].cf_id = cfe[e].cf_id /\ cfe'[e].cf_pub = cfe[e].cf_pub
  /\ cfe'[e].cf_state = cfe[e].cf_state
Registered(e) ==
  /\ c2s[cfe[e].cf_s] # <<>> /\ cfe'[e].cf_id = Head(c2s[cfe[e].cf_s]).id
  /\ cfe[e].cf_id \in {0, cfe'[e].cf_id}
  /\ cfe'[e].cf_pub = cfe[e].cf_pub /\ cfe'[e].cf_state = cfe[e].cf_state
Restated(e) ==
  /\ cfe'[e].cf_id = cfe[e].cf_id /\ cfe'[e].cf_pub = cfe[e].cf_pub
  /\ cfe[e].cf_state # "CS_INIT"
Located(e, p) ==
  /\ cfe'[e].cf_id = cfe[e].cf_id /\ cfe[e].cf_id = p.id /\ cfe'[e].cf_pub = {p.from}

EntryStep(e) ==
  \/ Fresh(e)
  \/ /\ e \in Clients /\ cfe'[e].cf_s = cfe[e].cf_s
     /\ Kept(e) \/ Registered(e) \/ Restated(e) \/ \E p \in udp : Located(e, p)

(* Every step of the server does one of these to an entry.                  *)
LEMMA EntrySteps ==
  ASSUME Base, Tokens, ServerStep, NEW e \in Clients'
  PROVE  EntryStep(e)
<1>0. TypeInv /\ cfe \in [Clients -> CfEntry]
  BY ConnsOfClients DEF Base
<1>1. CASE \E d \in Entry : NewClient(d)
  <2>1. PICK d \in Entry : NewClient(d)
    BY <1>1
  <2>2. CASE e = d
    <3>1. cfe'[e] = cfe_new(Head(backlog), Head(backlog))
      BY <2>1, <2>2 DEF NewClient
    <3>2. QED  BY <3>1 DEF cfe_new, Fresh, EntryStep
  <2>3. CASE e # d
    BY <2>1, <2>3 DEF NewClient, Kept, EntryStep
  <2>4. QED  BY <2>2, <2>3
<1>2. CASE \E d \in Clients : ReadRegister(d) \/ ReadReport(d) \/ ReadFails(d) \/ ReadReset(d)
                              \/ ReadIgnored(d)
  <2>1. PICK d \in Clients : ReadRegister(d) \/ ReadReport(d) \/ ReadFails(d) \/ ReadReset(d)
                             \/ ReadIgnored(d)
    BY <1>2
  <2>2. CASE ReadRegister(d)
    <3>1. /\ Clients' = Clients /\ c2s[cfe[d].cf_s] # <<>> /\ IdMatches(d, First(d))
          /\ cfe' = [cfe EXCEPT ![d].cf_timeout = SP_TIMEOUT_REG_NR, ![d].cf_id = First(d).id,
                                ![d].cf_peer = IF First(d).busy THEN @ ELSE 0]
      BY <2>2 DEF ReadRegister, ListKeeps, Reads, Register
    <3>2. CASE e = d
      <4>1. cfe'[e].cf_id = First(e).id /\ cfe'[e].cf_pub = cfe[e].cf_pub
            /\ cfe'[e].cf_state = cfe[e].cf_state /\ cfe'[e].cf_s = cfe[e].cf_s
        BY <1>0, <3>1, <3>2 DEF CfEntry
      <4>2. QED  BY <3>1, <3>2, <4>1 DEF IdMatches, First, Registered, EntryStep
    <3>3. CASE e # d
      BY <1>0, <3>1, <3>3 DEF Kept, EntryStep
    <3>4. QED  BY <3>2, <3>3
  <2>3. CASE ReadReport(d)
    <3>1. /\ Clients' = Clients /\ Reads(d) /\ First(d).type \in Report
          /\ cfe' = [cfe EXCEPT ![d].cf_state = "CS_IDLE", ![d].cf_peer = 0]
      BY <2>3 DEF ReadReport, ListKeeps, MarkIdle
    <3>2. CASE e = d
      <4>1. cfe'[e].cf_id = cfe[e].cf_id /\ cfe'[e].cf_pub = cfe[e].cf_pub
            /\ cfe'[e].cf_s = cfe[e].cf_s
        BY <1>0, <3>1, <3>2 DEF CfEntry
      <4>2. cfe[e].cf_s \in Conns /\ c2s[cfe[e].cf_s] \in Seq(SpProto)
            /\ c2s[cfe[e].cf_s] # <<>> /\ Head(c2s[cfe[e].cf_s]).type \in Report /\ Running
        BY <1>0, <3>1, <3>2, ConnsOfClients DEF Reads, First
      <4>3. ~None(c2s[cfe[e].cf_s], Report)
        BY <4>2, TailQueue
      <4>4. ~NotBusy(cfe[e].cf_s)
        BY <4>2, <4>3 DEF Tokens, TokenAt, Quiet, Sane
      <4>5. cfe[e].cf_state # "CS_INIT"
        BY <3>1, <4>4 DEF NotBusy
      <4>6. QED  BY <3>1, <4>1, <4>5 DEF Restated, EntryStep
    <3>3. CASE e # d
      BY <1>0, <3>1, <3>3 DEF Kept, EntryStep
    <3>4. QED  BY <3>2, <3>3
  <2>4. CASE ReadFails(d) \/ ReadIgnored(d)
    BY <2>4 DEF ReadFails, ReadIgnored, ListKeeps, Kept, EntryStep
  <2>5. CASE ReadReset(d)
    BY <2>5 DEF ReadReset, Kept, EntryStep
  <2>6. QED  BY <2>1, <2>2, <2>3, <2>4, <2>5
<1>3. CASE \E S \in SUBSET Clients : Forget(S)
  BY <1>3 DEF Forget, SameFields, Kept, EntryStep
<1>4. CASE \E p \in udp, F \in SUBSET Clients : Probed(p, F)
  <2>1. PICK p \in udp, F \in SUBSET Clients : Probed(p, F)
    BY <1>4
  <2>2. e \in Clients
    BY <2>1 DEF Probed, ListKeeps
  <2>3. cfe'[e].cf_s = cfe[e].cf_s /\ (Kept(e) \/ Located(e, p))
    BY <1>0, <2>1, <2>2, ProbedEntries DEF Kept, Located
  <2>4. QED  BY <2>1, <2>2, <2>3 DEF EntryStep
<1>5. CASE \E e1, e2 \in Clients, S1, S2 \in SUBSET Conns : Ordered(e1, e2, S1, S2)
  <2>1. PICK e1 \in Clients, e2 \in Clients, S1 \in SUBSET Conns, S2 \in SUBSET Conns :
               Ordered(e1, e2, S1, S2)
    BY <1>5
  <2>2. e \in Clients /\ cfe[e1].cf_state = "CS_IDLE" /\ cfe[e2].cf_state = "CS_IDLE"
    BY <2>1 DEF Ordered
  <2>3. /\ cfe'[e].cf_s = cfe[e].cf_s /\ cfe'[e].cf_id = cfe[e].cf_id /\ cfe'[e].cf_pub = cfe[e].cf_pub
        /\ e \notin {e1, e2} => cfe'[e].cf_state = cfe[e].cf_state
    BY <1>0, <2>1, <2>2, OrderedEntries
  <2>4. QED  BY <2>2, <2>3 DEF Kept, Restated, EntryStep
<1>6. CASE Leaves
  BY <1>6 DEF Leaves, Kept, EntryStep
<1>7. CASE Ends
  BY <1>7 DEF Ends
<1>8. CASE Starts
  BY <1>8 DEF Starts, ServerStarts, Kept, EntryStep
<1>9. QED  BY <1>1, <1>2, <1>3, <1>4, <1>5, <1>6, <1>7, <1>8 DEF ServerStep

\* What a step of the server does to the queues.
LEMMA ServerReads ==
  ASSUME Base, ServerStep, NEW s \in Conns
  PROVE  c2s'[s] = c2s[s] \/ (c2s[s] # <<>> /\ c2s'[s] = Tail(c2s[s])) \/ c2s'[s] = <<>>
<1>1. CASE \E e \in Entry : NewClient(e)
  BY <1>1 DEF NewClient
<1>2. CASE \E e \in Clients : ReadRegister(e) \/ ReadReport(e) \/ ReadFails(e) \/ ReadReset(e)
                              \/ ReadIgnored(e)
  <2>1. PICK e \in Clients : Reads(e)
    BY <1>2 DEF ReadRegister, ReadReport, ReadFails, ReadReset, ReadIgnored
  <2>2. QED  BY <2>1, ConnsOfClients DEF Reads, Base
<1>3. CASE \E S \in SUBSET Clients : Forget(S)
  BY <1>3 DEF Forget
<1>4. CASE \E p \in udp, F \in SUBSET Clients : Probed(p, F)
  BY <1>4 DEF Probed
<1>5. CASE \E e1, e2 \in Clients, S1, S2 \in SUBSET Conns : Ordered(e1, e2, S1, S2)
  BY <1>5 DEF Ordered
<1>6. CASE Leaves
  BY <1>6 DEF Leaves
<1>7. CASE Ends
  BY <1>7 DEF Ends, ServerEnds
<1>8. CASE Starts
  BY <1>8 DEF Starts, ServerStarts, netVars
<1>9. QED  BY <1>1, <1>2, <1>3, <1>4, <1>5, <1>6, <1>7, <1>8 DEF ServerStep

\* An order is sent to an idle client and carries its identity.
OrderSent(s, e, m) ==
  /\ cfe[e].cf_s = s /\ cfe[e].cf_state = "CS_IDLE" /\ m.id = cfe[e].cf_id
  /\ s2c'[s] = Append(s2c[s], m)

(* The server sends nothing, EXIT messages, or an order.                    *)
LEMMA ServerWrites ==
  ASSUME Base, ServerStep, NEW s \in Conns
  PROVE  s2c'[s] = s2c[s] \/ Extends(s2c'[s], s2c[s])
         \/ \E e \in Clients, m \in SpProto : OrderSent(s, e, m)
<1>1. CASE \E e \in Entry : NewClient(e)
  BY <1>1 DEF NewClient
<1>2. CASE \E e \in Clients : ReadRegister(e) \/ ReadReport(e) \/ ReadFails(e) \/ ReadReset(e)
                              \/ ReadIgnored(e)
  BY <1>2 DEF ReadRegister, ReadReport, ReadFails, ReadReset, ReadIgnored, Reads
<1>3. CASE \E S \in SUBSET Clients : Forget(S)
  BY <1>3 DEF Forget
<1>4. CASE \E p \in udp, F \in SUBSET Clients : Probed(p, F)
  BY <1>4 DEF Probed
<1>5. CASE \E e1, e2 \in Clients, S1, S2 \in SUBSET Conns : Ordered(e1, e2, S1, S2)
  <2>1. PICK e1 \in Clients, e2 \in Clients, S1 \in SUBSET Conns, S2 \in SUBSET Conns :
               Ordered(e1, e2, S1, S2)
    BY <1>5
  <2> DEFINE m1 == StartMessage(e1, "START_SEND")
             m2 == StartMessage(e2, "START_RCV")
  <2>2. /\ m1 \in SpProto /\ m2 \in SpProto
        /\ s2c'[s] = IF s \in S1 THEN Append(s2c[s], m1)
                     ELSE IF s \in S2 THEN Append(s2c[s], m2) ELSE s2c[s]
    BY <2>1, OrderedQueues DEF Base
  <2>3. m1.id = cfe[e1].cf_id /\ m2.id = cfe[e2].cf_id
    BY DEF StartMessage, sp_proto
  <2> HIDE DEF m1, m2
  <2>4. /\ cfe[e1].cf_state = "CS_IDLE" /\ cfe[e2].cf_state = "CS_IDLE"
        /\ S1 \subseteq {cfe[e1].cf_s} /\ S2 \subseteq {cfe[e2].cf_s}
    BY <2>1 DEF Ordered
  <2>5. s \in S1 => OrderSent(s, e1, m1)
    BY <2>2, <2>3, <2>4 DEF OrderSent
  <2>6. s \notin S1 /\ s \in S2 => OrderSent(s, e2, m2)
    BY <2>2, <2>3, <2>4 DEF OrderSent
  <2>7. QED  BY <2>2, <2>5, <2>6
<1>6. CASE Leaves
  BY <1>6 DEF Leaves
<1>7. CASE Ends
  BY <1>7 DEF Ends, ServerEnds
<1>8. CASE Starts
  BY <1>8 DEF Starts, ServerStarts, netVars
<1>9. QED  BY <1>1, <1>2, <1>3, <1>4, <1>5, <1>6, <1>7, <1>8 DEF ServerStep

\* The server's variables in a step of a client.
LEMMA ClientStepKeepsServer ==
  ASSUME ClientStep \/ Stutters
  PROVE  UNCHANGED srvVars /\ Clients' = Clients
<1>1. CASE Stutters
  BY <1>1 DEF Stutters, vars
<1>2. CASE ClientStep
  <2>1. CASE \E c \in Client, s \in Conns : Connects(c, s)
    BY <2>1 DEF Connects, ServerKeeps
  <2>2. CASE \E c \in Client : Updates(c) \/ Dies(c) \/ Disconnects(c) \/ Disobeys(c)
    BY <2>2 DEF Updates, Dies, Disconnects, Disobeys, TakesOrder, ServerKeeps
  <2>3. CASE \E c \in Client, n \in Address, kind \in Kind, state \in DataState : Obeys(c, n, kind, state)
    BY <2>3 DEF Obeys, TakesOrder, ServerKeeps
  <2>4. CASE \E c \in Client, n \in Address, kind \in Kind, report \in SpProto : CallEnds(c, n, kind, report)
    BY <2>4 DEF CallEnds, ServerKeeps
  <2>5. CASE \E c \in Client, n \in Address : Stops(c, n)
    BY <2>5 DEF Stops, ServerKeeps
  <2>6. CASE \E c \in Client, n \in Address, kind \in Kind : Expires(c, n, kind)
    BY <2>6 DEF Expires, ServerKeeps
  <2>7. CASE \E c \in Client, id \in Ids : Restarts(c, id)
    BY <2>7 DEF Restarts, ClientRestarts
  <2>8. QED  BY <1>2, <2>1, <2>2, <2>3, <2>4, <2>5, <2>6, <2>7 DEF ClientStep
<1>3. QED  BY <1>1, <1>2

(* client_startcalls orders only clients whose public address is known,     *)
(* which client_output asserts: an entry leaves CS_INIT when udp_input has  *)
(* stored cf_pub, and neither a registration nor a report brings it there   *)
(* without. All faults are allowed.                                         *)
THEOREM AddressOfStarted == Spec => []StartedHasAddress
<1>1. Init => StartedHasAddress
  <2>1. Init => cf_list = <<>>
    BY DEF Init, SrvInit
  <2>2. Init => Clients = {}
    BY <2>1, EmptySeq, ClientsAreListed
  <2>3. QED  BY <2>2 DEF StartedHasAddress
<1>2. Base /\ Tokens /\ StartedHasAddress /\ [Next]_vars => StartedHasAddress'
  <2>1. SUFFICES ASSUME Base, Tokens, StartedHasAddress, [Next]_vars, NEW e \in Clients',
                        cfe'[e].cf_state # "CS_INIT"
                 PROVE  cfe'[e].cf_pub # {}
    BY DEF StartedHasAddress
  <2>2. CASE ServerStep
    <3>1. EntryStep(e)
      BY <2>1, <2>2, EntrySteps
    <3>2. CASE Fresh(e)
      BY <2>1, <3>2 DEF Fresh
    <3>3. CASE e \in Clients /\ (Kept(e) \/ Registered(e) \/ Restated(e))
      BY <2>1, <3>3 DEF StartedHasAddress, Kept, Registered, Restated
    <3>4. CASE \E p \in udp : Located(e, p)
      BY <3>4 DEF Located
    <3>5. QED  BY <3>1, <3>2, <3>3, <3>4 DEF EntryStep
  <2>3. CASE ClientStep \/ Stutters
    <3>1. cfe' = cfe /\ e \in Clients
      BY <2>1, <2>3, ClientStepKeepsServer DEF srvVars
    <3>2. QED  BY <2>1, <3>1 DEF StartedHasAddress
  <2>4. QED  BY <2>1, <2>2, <2>3, Flat DEF Base
<1>3. QED  BY <1>1, <1>2, BaseInvariant, TokensInvariant, PTL DEF Spec

\* What a step of some client does to client c: it has no connection, a new
\* one, or the same.
Unconnected(c) == sp_s'[c] = 0
NewlyConnected(c) ==
  /\ Running /\ sp_s'[c] \in Conns \ (srv_open \cup cli_open) /\ sp_id'[c] = sp_id[c]
  /\ \E m \in SpProto : m.id = sp_id[c] /\ c2s'[sp_s'[c]] = Append(<<>>, m)
  /\ s2c'[sp_s'[c]] = <<>>
SentOn(c) ==
  \/ c2s'[sp_s[c]] = c2s[sp_s[c]]
  \/ \E m \in SpProto : m.id = sp_id[c] /\ c2s'[sp_s[c]] = Append(c2s[sp_s[c]], m)
StillConnected(c) ==
  /\ sp_s'[c] = sp_s[c] /\ sp_s[c] \in Conns /\ sp_id'[c] = sp_id[c] /\ sp_ds'[c] = sp_ds[c]
  /\ SentOn(c)
  /\ \/ s2c'[sp_s[c]] = s2c[sp_s[c]]
     \/ s2c[sp_s[c]] # <<>> /\ s2c'[sp_s[c]] = Tail(s2c[sp_s[c]])
ConnectionStep(c) == Unconnected(c) \/ NewlyConnected(c) \/ StillConnected(c)

(* No two clients share a connection.                                       *)
LEMMA DistinctConns ==
  ASSUME Base
  PROVE  /\ \A c \in Client : sp_s[c] = 0 \/ (sp_s[c] \in Conns /\ sp_s[c] # 0 /\ sp_s[c] \in cli_open)
         /\ \A c, d \in Client : c # d /\ sp_s[c] \in Conns => sp_s[c] # sp_s[d]
<1>1. \A x \in Conns : x # 0
  BY NetAssumption DEF Conns
<1>2. QED  BY <1>1, ConnsOfClients DEF Base, ClientEnds

(* A step without messages on it.                                           *)
LEMMA QuietConnection ==
  ASSUME Base, NEW c \in Client, sp_s'[c] = sp_s[c], sp_id'[c] = sp_id[c],
         sp_ds'[c] = sp_ds[c], UNCHANGED <<c2s, s2c>>
  PROVE  ConnectionStep(c)
BY DistinctConns DEF ConnectionStep, Unconnected, StillConnected, SentOn

(* sps_wrapper, for the client that connects and for the others.            *)
LEMMA ConnectsConnection ==
  ASSUME Base, NEW c \in Client, NEW x \in Conns, Connects(c, x), NEW d \in Client
  PROVE  ConnectionStep(d)
<1>1. /\ Running /\ x \notin srv_open /\ x \notin cli_open
      /\ sp_s' = [sp_s EXCEPT ![c] = x] /\ sp_id' = sp_id /\ sp_ds' = sp_ds
      /\ c2s' = [c2s EXCEPT ![x] = Append(<<>>, send_register(c).message)]
      /\ s2c' = [s2c EXCEPT ![x] = <<>>]
  BY DEF Connects, FreeConns
<1>2. /\ sp_s \in [Client -> 0 .. MaxConns]
      /\ c2s \in [Conns -> Seq(SpProto)] /\ s2c \in [Conns -> Seq(SpProto)]
  BY DEF Base, TypeInv, TypeOK, CliTypeOK, NetTypeOK
<1>3. CASE d = c
  <2>1. send_register(c).message \in SpProto /\ send_register(c).message.id = sp_id[c]
    BY RegisterMessage DEF Base
  <2>2. sp_s'[d] = x /\ c2s'[x] = Append(<<>>, send_register(c).message) /\ s2c'[x] = <<>>
    BY <1>1, <1>2, <1>3
  <2>3. NewlyConnected(d)
    <3>1. \E m \in SpProto : m.id = sp_id[d] /\ c2s'[sp_s'[d]] = Append(<<>>, m)
      <4> DEFINE m == send_register(c).message
      <4>1. m \in SpProto /\ m.id = sp_id[d] /\ c2s'[sp_s'[d]] = Append(<<>>, m)
        BY <1>3, <2>1, <2>2
      <4> HIDE DEF m
      <4>2. QED  BY <4>1
    <3>2. sp_s'[d] \in Conns \ (srv_open \cup cli_open) /\ s2c'[sp_s'[d]] = <<>>
      BY <1>1, <2>2
    <3>3. QED  BY <1>1, <3>1, <3>2 DEF NewlyConnected
  <2>4. QED  BY <2>3 DEF ConnectionStep
<1>4. CASE d # c
  <2>0. x # 0 /\ x \notin cli_open
    BY <1>1, NetAssumption DEF Conns
  <2>a. sp_s[d] # x
    BY <2>0, DistinctConns
  <2>1. sp_s'[d] = sp_s[d] /\ sp_s[d] # x
    BY <1>1, <1>2, <1>4, <2>a
  <2>2. sp_s[d] \in Conns => c2s'[sp_s[d]] = c2s[sp_s[d]] /\ s2c'[sp_s[d]] = s2c[sp_s[d]]
    BY <1>1, <1>2, <2>1
  <2>3. QED  BY <1>1, <2>1, <2>2, DistinctConns
             DEF ConnectionStep, Unconnected, StillConnected, SentOn
<1>5. QED  BY <1>3, <1>4

(* A registration or a report, with the identity of its client.             *)
LEMMA SendsConnection ==
  ASSUME Base, NEW c \in Client, sp_s[c] \in Conns, NEW m \in SpProto, m.id = sp_id[c],
         c2s' = Send(c2s, sp_s[c], m, srv_open), UNCHANGED <<s2c, sp_s, sp_id, sp_ds>>, NEW d \in Client
  PROVE  ConnectionStep(d)
<1> DEFINE x == sp_s[c]
<1>1. \A s \in Conns : /\ s # x => c2s'[s] = c2s[s]
                       /\ c2s'[x] = c2s[x] \/ c2s'[x] = Append(c2s[x], m)
  BY SentToken DEF Base
<1>2. SUFFICES ASSUME sp_s[d] \in Conns PROVE ConnectionStep(d)
  BY DistinctConns DEF ConnectionStep, Unconnected
<1>3. SentOn(d)
  <2>1. CASE d = c
    BY <1>1, <2>1 DEF SentOn
  <2>2. CASE d # c
    BY <1>1, <1>2, <2>2, DistinctConns DEF SentOn
  <2>3. QED  BY <2>1, <2>2
<1>4. QED  BY <1>2, <1>3 DEF ConnectionStep, StillConnected

(* A client closes its end.                                                 *)
LEMMA ClosesConnection ==
  ASSUME Base, NEW c \in Client, Dies(c) \/ Disconnects(c), NEW d \in Client
  PROVE  ConnectionStep(d)
<1>1. sp_s' = [sp_s EXCEPT ![c] = 0] /\ UNCHANGED <<c2s, sp_id, sp_ds>>
  BY DEF Dies, ProcessEnds, Disconnects, spc_state2init
<1>2. sp_s \in [Client -> 0 .. MaxConns]
  BY DEF Base, TypeInv, TypeOK, CliTypeOK
<1>3. CASE d = c
  BY <1>1, <1>2, <1>3 DEF ConnectionStep, Unconnected
<1>4. CASE d # c /\ sp_s[d] = 0
  BY <1>1, <1>2, <1>4 DEF ConnectionStep, Unconnected
<1>5. CASE d # c /\ sp_s[d] # 0
  <2>1. sp_s[d] \in Conns /\ sp_s[d] # sp_s[c] /\ sp_s'[d] = sp_s[d]
    BY <1>1, <1>2, <1>5, DistinctConns
  <2>2. s2c'[sp_s[d]] = s2c[sp_s[d]]
    BY <2>1 DEF Dies, ProcessEnds, Disconnects, spc_state2init
  <2>3. QED  BY <1>1, <2>1, <2>2 DEF ConnectionStep, StillConnected, SentOn
<1>6. QED  BY <1>3, <1>4, <1>5

(* server_input reads an order.                                             *)
LEMMA TakesConnection ==
  ASSUME Base, NEW c \in Client, TakesOrder(c), UNCHANGED <<c2s, sp_s, sp_id, sp_ds>>, NEW d \in Client
  PROVE  ConnectionStep(d)
<1>1. \A s \in Conns : s2c'[s] = IF s = sp_s[c] THEN Tail(s2c[s]) ELSE s2c[s]
  BY OrderTaken DEF Base
<1>2. s2c[sp_s[c]] # <<>>
  BY DEF TakesOrder
<1>3. QED  BY <1>1, <1>2, DistinctConns DEF ConnectionStep, Unconnected, StillConnected, SentOn

(* Every step of a client does one of these to a connection.                *)
LEMMA ConnectionSteps ==
  ASSUME Base, ClientStep \/ Stutters, NEW d \in Client
  PROVE  ConnectionStep(d)
<1>1. CASE \E c \in Client, s \in Conns : Connects(c, s)
  BY <1>1, ConnectsConnection
<1>2. CASE \E c \in Client : Updates(c)
  <2>1. PICK c \in Client : Updates(c)
    BY <1>2
  <2>2. sp_s[c] \in Conns
    BY <2>1, DistinctConns DEF Updates, UpdateRegistration, Base, ClientEnds
  <2>3. send_register(c).message \in SpProto /\ send_register(c).message.id = sp_id[c]
    BY RegisterMessage DEF Base
  <2>4. QED  BY <2>1, <2>2, <2>3, SendsConnection DEF Updates, UpdateRegistration
<1>3. CASE \E c \in Client : Dies(c) \/ Disconnects(c)
  BY <1>3, ClosesConnection
<1>4. CASE \E c \in Client : Disobeys(c)
  BY <1>4, TakesConnection DEF Disobeys, cliVars
<1>5. CASE \E c \in Client, n \in Address, kind \in Kind, state \in DataState : Obeys(c, n, kind, state)
  BY <1>5, TakesConnection DEF Obeys
<1>6. CASE \E c \in Client, n \in Address, kind \in Kind, report \in SpProto : CallEnds(c, n, kind, report)
  <2>1. PICK c \in Client, n \in Address, kind \in Kind, report \in SpProto : CallEnds(c, n, kind, report)
    BY <1>6
  <2>2. sp_state[c] # "SS_INIT" /\ report.id = sp_id[c]
        /\ c2s' = Send(c2s, sp_s[c], report, srv_open) /\ UNCHANGED <<s2c, sp_s, sp_id, sp_ds>>
    BY <2>1 DEF CallEnds, EndCall
  <2>3. sp_s[c] \in Conns
    BY <2>2, DistinctConns DEF Base, ClientEnds
  <2>4. QED  BY <2>2, <2>3, SendsConnection
<1>7. CASE \E c \in Client, n \in Address : Stops(c, n)
  BY <1>7, QuietConnection DEF Stops, StopSending, netVars
<1>8. CASE \E c \in Client, n \in Address, kind \in Kind : Expires(c, n, kind)
  BY <1>8, QuietConnection DEF Expires, TimerExpires, netVars
<1>9. CASE \E c \in Client, id \in Ids : Restarts(c, id)
  <2>1. PICK c \in Client, id \in Ids : Restarts(c, id)
    BY <1>9
  <2>2. /\ c \notin alive /\ sp_id' = [sp_id EXCEPT ![c] = id] /\ UNCHANGED <<sp_s, c2s, s2c>>
        /\ sp_id \in [Client -> Ids] /\ sp_ds \in [Client -> UdpAddrs]
        /\ \E addr \in UdpAddrs : sp_ds' = [sp_ds EXCEPT ![c] = addr]
    BY <2>1 DEF Restarts, ClientRestarts, ClientStarts, netVars, Base, TypeInv, TypeOK, CliTypeOK
  <2>3. CASE d = c
    BY <2>2, <2>3 DEF Base, ClientEnds, ConnectionStep, Unconnected
  <2>4. CASE d # c
    BY <2>2, <2>4, QuietConnection
  <2>5. QED  BY <2>3, <2>4
<1>10. CASE Stutters
  BY <1>10, QuietConnection DEF Stutters, vars, cliVars, netVars
<1>11. QED  BY <1>1, <1>2, <1>3, <1>4, <1>5, <1>6, <1>7, <1>8, <1>9, <1>10 DEF ClientStep

-----------------------------------------------------------------------------
\* A client's messages and its entry carry its identity, if any.
IdentityOf(c) ==
  sp_s[c] # 0 =>
    /\ Named(c2s[sp_s[c]], SpType, sp_id[c])
    /\ \A e \in Clients : cfe[e].cf_s = sp_s[c] => cfe[e].cf_id \in {0, sp_id[c]}
Identities == \A c \in Client : IdentityOf(c)

(* The server copies the identity from the client's registration.           *)
LEMMA IdentitiesServer ==
  ASSUME Base, Tokens, Identities, ServerStep
  PROVE  Identities'
<1>1. UNCHANGED <<sp_s, sp_id, sp_ds>>
  BY ServerStepKeepsClients
<1>2. SUFFICES ASSUME NEW c \in Client, sp_s[c] # 0
               PROVE  /\ Named(c2s'[sp_s[c]], SpType, sp_id[c])
                      /\ \A e \in Clients' : cfe'[e].cf_s = sp_s[c] => cfe'[e].cf_id \in {0, sp_id[c]}
  BY <1>1 DEF Identities, IdentityOf
<1>3. sp_s[c] \in Conns /\ c2s[sp_s[c]] \in Seq(SpProto)
  BY <1>2, DistinctConns, ConnsOfClients DEF Base
<1>4. /\ Named(c2s[sp_s[c]], SpType, sp_id[c])
      /\ \A e \in Clients : cfe[e].cf_s = sp_s[c] => cfe[e].cf_id \in {0, sp_id[c]}
  BY <1>2 DEF Identities, IdentityOf
<1>5. Named(c2s'[sp_s[c]], SpType, sp_id[c])
  BY <1>3, <1>4, ServerReads, TailQueue, EmptyQueue
<1>6. ASSUME NEW e \in Clients', cfe'[e].cf_s = sp_s[c]
      PROVE  cfe'[e].cf_id \in {0, sp_id[c]}
  <2>1. EntryStep(e)
    BY EntrySteps
  <2>2. CASE Fresh(e)
    BY <2>2 DEF Fresh
  <2>3. CASE /\ e \in Clients /\ cfe'[e].cf_s = cfe[e].cf_s
             /\ Kept(e) \/ Restated(e) \/ \E p \in udp : Located(e, p)
    BY <1>4, <1>6, <2>3 DEF Kept, Restated, Located
  <2>4. CASE e \in Clients /\ cfe'[e].cf_s = cfe[e].cf_s /\ Registered(e)
    <3>1. c2s[sp_s[c]] # <<>> /\ cfe'[e].cf_id = Head(c2s[sp_s[c]]).id
      BY <1>6, <2>4 DEF Registered
    <3>2. Head(c2s[sp_s[c]]) \in SpProto /\ (Head(c2s[sp_s[c]]).type \in SpType => Head(c2s[sp_s[c]]).id = sp_id[c])
      BY <1>3, <1>4, <3>1, TailQueue
    <3>3. QED  BY <3>1, <3>2 DEF SpProto
  <2>5. QED  BY <2>1, <2>2, <2>3, <2>4 DEF EntryStep
<1>7. QED  BY <1>5, <1>6

(* A client draws its identity when it starts, before it connects.          *)
LEMMA IdentitiesClient ==
  ASSUME Base, Identities, ClientStep \/ Stutters
  PROVE  Identities'
<1>1. cfe' = cfe /\ Clients' = Clients
  BY ClientStepKeepsServer DEF srvVars
<1>2. SUFFICES ASSUME NEW c \in Client PROVE IdentityOf(c)'
  BY DEF Identities
<1>3. CASE Unconnected(c)
  BY <1>3 DEF Unconnected, IdentityOf
<1>4. CASE NewlyConnected(c)
  <2>1. PICK m \in SpProto : m.id = sp_id[c] /\ c2s'[sp_s'[c]] = Append(<<>>, m)
    BY <1>4 DEF NewlyConnected
  <2>2. Named(c2s'[sp_s'[c]], SpType, sp_id'[c])
    <3> DEFINE q == <<>>
    <3>1. q \in Seq(SpProto) /\ Named(q, SpType, sp_id[c])
      BY EmptyQueue
    <3> HIDE DEF q
    <3>2. Named(Append(q, m), SpType, sp_id[c])
      BY <2>1, <3>1, AppendQueue
    <3>3. QED  BY <1>4, <2>1, <3>2 DEF NewlyConnected, q
  <2>3. \A e \in Clients : cfe[e].cf_s # sp_s'[c]
    BY <1>4 DEF NewlyConnected, Base, ServerSide, ServerEndsOf, Sane
  <2>4. QED  BY <1>1, <2>2, <2>3 DEF IdentityOf
<1>5. CASE StillConnected(c)
  <2>1. /\ sp_s'[c] = sp_s[c] /\ sp_s[c] \in Conns /\ sp_s[c] # 0 /\ sp_id'[c] = sp_id[c]
        /\ SentOn(c) /\ c2s[sp_s[c]] \in Seq(SpProto)
    BY <1>5, NetAssumption, ConnsOfClients DEF StillConnected, Conns, Base
  <2>2. Named(c2s[sp_s[c]], SpType, sp_id[c])
    BY <2>1 DEF Identities, IdentityOf
  <2>3. Named(c2s'[sp_s[c]], SpType, sp_id[c])
    <3>1. CASE c2s'[sp_s[c]] = c2s[sp_s[c]]
      BY <2>2, <3>1
    <3>2. CASE \E m \in SpProto : m.id = sp_id[c] /\ c2s'[sp_s[c]] = Append(c2s[sp_s[c]], m)
      <4>1. PICK m \in SpProto : m.id = sp_id[c] /\ c2s'[sp_s[c]] = Append(c2s[sp_s[c]], m)
        BY <3>2
      <4>2. Named(Append(c2s[sp_s[c]], m), SpType, sp_id[c])
        BY <2>1, <2>2, <4>1, AppendQueue
      <4>3. QED  BY <4>1, <4>2
    <3>3. QED  BY <2>1, <3>1, <3>2 DEF SentOn
  <2>4. QED  BY <1>1, <2>1, <2>3 DEF Identities, IdentityOf
<1>6. QED  BY <1>3, <1>4, <1>5, ConnectionSteps DEF ConnectionStep

(* Messages and entry of a client carry its identity, in every state.       *)
LEMMA IdentitiesInvariant == Spec => []Identities
<1>1. Init => Identities
  BY DEF Init, CliInit, Identities, IdentityOf
<1>2. Base /\ Tokens /\ Identities /\ [Next]_vars => Identities'
  BY IdentitiesServer, IdentitiesClient, Flat DEF Base
<1>3. QED  BY <1>1, <1>2, BaseInvariant, TokensInvariant, PTL DEF Spec

\* An entry in another state than CS_INIT has an identity, and orders carry
\* the identity of the client they are sent to.
EntriesNamed == \A e \in Clients : cfe[e].cf_state # "CS_INIT" => cfe[e].cf_id # 0
OrdersNamed == \A c \in Client : sp_s[c] # 0 => Named(s2c[sp_s[c]], Start, sp_id[c])
StartsAddressed == EntriesNamed /\ OrdersNamed

(* A probe carries the identity of its sender.                              *)
LEMMA ProbeIds ==
  ASSUME Base, 0 \notin Ids, NEW p \in udp
  PROVE  p.id # 0 /\ p.id \in Ids
BY DEF Base, TypeInv, TypeOK, CliTypeOK

(* cfe_find_byid finds an entry for the probe's identity only, so an entry  *)
(* that has left CS_INIT has one.                                           *)
LEMMA EntriesNamedNext ==
  ASSUME Base, Tokens, EntriesNamed, 0 \notin Ids, [Next]_vars
  PROVE  EntriesNamed'
<1>1. SUFFICES ASSUME NEW e \in Clients', cfe'[e].cf_state # "CS_INIT" PROVE cfe'[e].cf_id # 0
  BY DEF EntriesNamed
<1>2. CASE ServerStep
  <2>1. EntryStep(e)
    BY <1>1, <1>2, EntrySteps
  <2>2. CASE Fresh(e)
    BY <1>1, <2>2 DEF Fresh
  <2>3. CASE e \in Clients /\ (Kept(e) \/ Registered(e) \/ Restated(e))
    BY <1>1, <2>3 DEF EntriesNamed, Kept, Registered, Restated
  <2>4. CASE \E p \in udp : Located(e, p)
    BY <2>4, ProbeIds DEF Located
  <2>5. QED  BY <2>1, <2>2, <2>3, <2>4 DEF EntryStep
<1>3. CASE ClientStep \/ Stutters
  BY <1>1, <1>3, ClientStepKeepsServer DEF EntriesNamed, srvVars
<1>4. QED  BY <1>2, <1>3, Flat DEF Base

(* client_startcalls copies the identity of the entry into the order.       *)
LEMMA OrdersNamedNext ==
  ASSUME Base, Identities, StartsAddressed, [Next]_vars
  PROVE  OrdersNamed'
<1>1. SUFFICES ASSUME NEW c \in Client, sp_s'[c] # 0
               PROVE  Named(s2c'[sp_s'[c]], Start, sp_id'[c])
  BY DEF OrdersNamed
<1>0. sp_s[c] # 0 => /\ Named(s2c[sp_s[c]], Start, sp_id[c])
                     /\ sp_s[c] \in Conns /\ s2c[sp_s[c]] \in Seq(SpProto)
  BY DistinctConns, ConnsOfClients DEF StartsAddressed, OrdersNamed, Base
<1>2. CASE ServerStep
  <2>1. sp_s'[c] = sp_s[c] /\ sp_id'[c] = sp_id[c]
    BY <1>2, ServerStepKeepsClients
  <2> DEFINE s == sp_s[c]
             q == s2c[s]
             r == s2c'[s]
  <2>2. s \in Conns /\ q \in Seq(SpProto) /\ Named(q, Start, sp_id[c])
    BY <1>0, <1>1, <2>1
  <2>a. "EXIT" \notin Start
    BY DEF Start
  <2>b. r = q \/ Extends(r, q) \/ \E e \in Clients, m \in SpProto : OrderSent(s, e, m)
    BY <1>2, <2>2, ServerWrites
  <2>c. \A e, m : OrderSent(s, e, m) =>
          /\ cfe[e].cf_s = s /\ cfe[e].cf_state = "CS_IDLE" /\ m.id = cfe[e].cf_id /\ r = Append(q, m)
    BY DEF OrderSent
  <2>d. sp_s[c] = s
    OBVIOUS
  <2> HIDE DEF q, r, s
  <2>3. ASSUME r = q \/ Extends(r, q)
        PROVE  Named(r, Start, sp_id[c])
    BY <2>2, <2>3, <2>a DEF Extends
  <2>4. ASSUME \E e \in Clients, m \in SpProto : OrderSent(s, e, m)
        PROVE  Named(r, Start, sp_id[c])
    <3>1. PICK e \in Clients, m \in SpProto : OrderSent(s, e, m)
      BY <2>4
    <3>2. cfe[e].cf_s = s /\ cfe[e].cf_id # 0 /\ m.id = cfe[e].cf_id /\ r = Append(q, m)
      BY <3>1, <2>c DEF StartsAddressed, EntriesNamed
    <3>3. m.id = sp_id[c]
      BY <1>1, <2>1, <2>d, <3>2 DEF Identities, IdentityOf
    <3>4. Named(Append(q, m), Start, sp_id[c])
      BY <2>2, <3>3, AppendQueue
    <3>5. QED  BY <3>2, <3>4
  <2>5. Named(r, Start, sp_id[c])
    BY <2>3, <2>4, <2>b
  <2>6. QED  BY <2>1, <2>5 DEF r, s
<1>3. CASE ClientStep \/ Stutters
  <2>1. CASE NewlyConnected(c)
    BY <2>1, EmptyQueue DEF NewlyConnected
  <2>2. CASE StillConnected(c)
    <3>1. CASE s2c'[sp_s[c]] = s2c[sp_s[c]]
      BY <1>0, <1>1, <2>2, <3>1 DEF StillConnected
    <3>2. CASE s2c[sp_s[c]] # <<>> /\ s2c'[sp_s[c]] = Tail(s2c[sp_s[c]])
      BY <1>0, <1>1, <2>2, <3>2, TailQueue DEF StillConnected
    <3>3. QED  BY <2>2, <3>1, <3>2 DEF StillConnected
  <2>3. QED  BY <1>1, <1>3, <2>1, <2>2, ConnectionSteps DEF ConnectionStep, Unconnected
<1>4. QED  BY <1>2, <1>3, Flat DEF Base

(* The server has no clients at first.                                      *)
LEMMA NoEntriesInit ==
  ASSUME Init
  PROVE  Clients = {}
<1>1. cf_list = <<>>
  BY DEF Init, SrvInit
<1>2. QED  BY <1>1, EmptySeq, ClientsAreListed

(* An order that is read finds its client idle, with the identity it names. *)
LEMMA OrderObeyed ==
  ASSUME Base, Tokens, OrdersNamed
  PROVE  OrdersAreObeyed
<1>1. SUFFICES ASSUME NEW c \in alive, sp_s[c] # 0, s2c[sp_s[c]] # <<>>,
                      Head(s2c[sp_s[c]]).type \in Start
               PROVE  Head(s2c[sp_s[c]]).id = sp_id[c] /\ sp_state[c] = "SS_SERVER"
  BY DEF OrdersAreObeyed, Start
<1>2. c \in Client
  BY DEF Base, TypeInv, TypeOK, CliTypeOK
<1>3. /\ sp_s[c] \in Conns /\ s2c[sp_s[c]] \in Seq(SpProto)
      /\ sp_state[c] # "SS_INIT" /\ sp_state[c] \in SpcState
  BY <1>1, <1>2, DistinctConns, ConnsOfClients DEF Base, ClientEnds, TypeInv, TypeOK, CliTypeOK
<1>4. Head(s2c[sp_s[c]]).id = sp_id[c]
  BY <1>1, <1>2, <1>3, TailQueue DEF OrdersNamed
<1>5. ~None(s2c[sp_s[c]], Start)
  BY <1>1, <1>3, TailQueue
<1>6. ~InCall(sp_s[c])
  BY <1>3, <1>5 DEF Tokens, TokenAt, OneToken
<1>7. sp_state[c] \notin DataState
  BY <1>2, <1>6 DEF InCall
<1>8. QED  BY <1>3, <1>4, <1>7 DEF DataState, SpcState

(* An order that server_input of spc reads names the client's identity and  *)
(* finds the client idle (SS_SERVER), so that it is not dropped: although   *)
(* the server decides from cf_state, which is behind the client's own       *)
(* state, and registrations cross its orders. 0 is no identity:             *)
(* cfe_find_byid(0) finds the entries that have not registered.             *)
THEOREM OrdersObeyed ==
  ASSUME 0 \notin Ids
  PROVE  Spec => []OrdersAreObeyed
<1>1. Init => StartsAddressed
  BY NoEntriesInit DEF StartsAddressed, EntriesNamed, OrdersNamed, Init, CliInit
<1>2. Base /\ Tokens /\ Identities /\ StartsAddressed /\ [Next]_vars => StartsAddressed'
  BY EntriesNamedNext, OrdersNamedNext DEF StartsAddressed
<1>3. Base /\ Tokens /\ StartsAddressed => OrdersAreObeyed
  BY OrderObeyed DEF StartsAddressed
<1>4. QED  BY <1>1, <1>2, <1>3, BaseInvariant, TokensInvariant, IdentitiesInvariant, PTL DEF Spec

-----------------------------------------------------------------------------
\* Identities and probes belong to one client each.
ProbesNamed ==
  /\ \A c \in Client : sp_id[c] \in drawn
  /\ \A p \in udp : p.id \in drawn
  /\ IdsUnique
  /\ \A p \in udp, c \in Client : p.id = sp_id[c] => p.from = sp_ds[c]

\* PublicAddressRight, of clients that do not run as well.
AddressesRight ==
  \A e \in Clients, c \in Client : sp_s[c] = cfe[e].cf_s => cfe[e].cf_pub \subseteq {sp_ds[c]}

(* No identity is drawn and no probe sent.                                  *)
LEMMA ProbesKept ==
  ASSUME ProbesNamed, UNCHANGED <<sp_id, sp_ds, drawn, udp>>
  PROVE  ProbesNamed'
BY DEF ProbesNamed, IdsUnique

(* send_register sends a probe with the client's own identity.              *)
LEMMA ProbeSent ==
  ASSUME Base, ProbesNamed, NEW c \in Client, udp' = udp \cup {send_register(c).probe},
         UNCHANGED <<sp_id, sp_ds, drawn>>
  PROVE  ProbesNamed'
<1> DEFINE q == send_register(c).probe
<1>1. q.id = sp_id[c] /\ q.from = sp_ds[c]
  BY DEF send_register
<1>2. udp' = udp \cup {q}
  OBVIOUS
<1> HIDE DEF q
<1>3. \A p \in udp', d \in Client : p.id = sp_id[d] => p.from = sp_ds[d]
  <2>1. \A d \in Client : sp_id[c] = sp_id[d] => d = c
    BY DEF ProbesNamed, IdsUnique
  <2>2. QED  BY <1>1, <1>2, <2>1 DEF ProbesNamed
<1>4. \A p \in udp' : p.id \in drawn
  BY <1>1, <1>2 DEF ProbesNamed
<1>5. QED  BY <1>3, <1>4 DEF ProbesNamed, IdsUnique

(* An identity that is drawn is new, and no old probe carries it.           *)
LEMMA ProbesNext ==
  ASSUME Base, ProbesNamed, "same_id" \notin Faults, [Next]_vars
  PROVE  ProbesNamed'
<1>1. CASE ServerStep
  BY <1>1, ServerStepKeepsClients, ProbesKept
<1>2. CASE Stutters
  BY <1>2, ProbesKept DEF Stutters, vars, cliVars, histVars
<1>3. CASE ClientStep
  <2>1. CASE \E c \in Client, s \in Conns : Connects(c, s)
    BY <2>1, ProbeSent DEF Connects, ServerKeeps, histVars
  <2>2. CASE \E c \in Client : Updates(c)
    BY <2>2, ProbeSent DEF Updates, UpdateRegistration, ServerKeeps, histVars
  <2>3. CASE \E c \in Client : Dies(c) \/ Disconnects(c) \/ Disobeys(c)
    BY <2>3, ProbesKept DEF Dies, ProcessEnds, Disconnects, spc_state2init, Disobeys, TakesOrder,
                            ServerKeeps, histVars, cliVars
  <2>4. CASE \E c \in Client, n \in Address, kind \in Kind, state \in DataState : Obeys(c, n, kind, state)
    BY <2>4, ProbesKept DEF Obeys, TakesOrder, ServerKeeps, histVars
  <2>5. CASE \E c \in Client, n \in Address, kind \in Kind, report \in SpProto : CallEnds(c, n, kind, report)
    BY <2>5, ProbesKept DEF CallEnds, EndCall, ServerKeeps, histVars
  <2>6. CASE \E c \in Client, n \in Address : Stops(c, n)
    BY <2>6, ProbesKept DEF Stops, StopSending, ServerKeeps, histVars
  <2>7. CASE \E c \in Client, n \in Address, kind \in Kind : Expires(c, n, kind)
    BY <2>7, ProbesKept DEF Expires, TimerExpires, ServerKeeps, histVars
  <2>8. CASE \E c \in Client, id \in Ids : Restarts(c, id)
    <3>1. PICK c \in Client, id \in Ids : Restarts(c, id)
      BY <2>8
    <3>2. /\ id \notin drawn /\ drawn' = drawn \cup {id} /\ udp' = udp
          /\ sp_id' = [sp_id EXCEPT ![c] = id] /\ sp_id \in [Client -> Ids]
          /\ sp_ds \in [Client -> UdpAddrs]
          /\ \E addr \in UdpAddrs : sp_ds' = [sp_ds EXCEPT ![c] = addr]
      BY <3>1 DEF Restarts, ClientRestarts, ClientStarts, Base, TypeInv, TypeOK, CliTypeOK
    <3>3. \A d \in Client : /\ sp_id'[d] = IF d = c THEN id ELSE sp_id[d]
                            /\ d # c => sp_ds'[d] = sp_ds[d]
      BY <3>2
    <3>4. \A p \in udp', d \in Client : p.id = sp_id'[d] => p.from = sp_ds'[d]
      <4>1. SUFFICES ASSUME NEW p \in udp, NEW d \in Client, p.id = sp_id'[d]
                     PROVE  p.from = sp_ds'[d]
        BY <3>2
      <4>2. d # c
        BY <3>2, <3>3, <4>1 DEF ProbesNamed
      <4>3. QED  BY <3>3, <4>1, <4>2 DEF ProbesNamed
    <3>5. IdsUnique'
      BY <3>2, <3>3 DEF ProbesNamed, IdsUnique
    <3>6. (\A d \in Client : sp_id'[d] \in drawn') /\ (\A p \in udp' : p.id \in drawn')
      BY <3>2, <3>3 DEF ProbesNamed
    <3>7. QED  BY <3>4, <3>5, <3>6 DEF ProbesNamed
  <2>9. QED  BY <1>3, <2>1, <2>2, <2>3, <2>4, <2>5, <2>6, <2>7, <2>8 DEF ClientStep
<1>4. QED  BY <1>1, <1>2, <1>3, Flat DEF Base

(* udp_input stores an address in the entry of the client that sent the     *)
(* probe, and in no other.                                                  *)
LEMMA AddressesNext ==
  ASSUME Base, Tokens, Identities, ProbesNamed, AddressesRight, 0 \notin Ids, [Next]_vars
  PROVE  AddressesRight'
<1>1. SUFFICES ASSUME NEW e \in Clients', NEW c \in Client, sp_s'[c] = cfe'[e].cf_s
               PROVE  cfe'[e].cf_pub \subseteq {sp_ds'[c]}
  BY DEF AddressesRight
<1>2. CASE ServerStep
  <2>1. sp_s' = sp_s /\ sp_ds' = sp_ds
    BY <1>2, ServerStepKeepsClients
  <2>2. EntryStep(e)
    BY <1>2, EntrySteps
  <2>3. CASE Fresh(e)
    BY <2>3 DEF Fresh
  <2>4. CASE e \in Clients /\ cfe'[e].cf_s = cfe[e].cf_s /\ (Kept(e) \/ Registered(e) \/ Restated(e))
    BY <1>1, <2>1, <2>4 DEF AddressesRight, Kept, Registered, Restated
  <2>5. CASE e \in Clients /\ cfe'[e].cf_s = cfe[e].cf_s /\ \E p \in udp : Located(e, p)
    <3>1. PICK p \in udp : Located(e, p)
      BY <2>5
    <3>2. sp_s[c] = cfe[e].cf_s /\ sp_s[c] # 0
      BY <1>1, <2>1, <2>5, ConnsOfClients, NetAssumption DEF Base, Conns
    <3>3. cfe[e].cf_id \in {0, sp_id[c]}
      BY <2>5, <3>2 DEF Identities, IdentityOf
    <3>4. p.id = sp_id[c]
      BY <3>1, <3>3, ProbeIds DEF Located
    <3>5. p.from = sp_ds[c]
      BY <3>4 DEF ProbesNamed
    <3>6. QED  BY <2>1, <3>1, <3>5 DEF Located
  <2>6. QED  BY <2>2, <2>3, <2>4, <2>5 DEF EntryStep
<1>3. CASE ClientStep \/ Stutters
  <2>1. cfe' = cfe /\ Clients' = Clients
    BY <1>3, ClientStepKeepsServer DEF srvVars
  <2>2. cfe[e].cf_s # 0 /\ e \in Clients
    BY <1>1, <2>1, ConnsOfClients, NetAssumption DEF Base, Conns
  <2>3. CASE NewlyConnected(c)
    BY <1>1, <2>1, <2>2, <2>3 DEF NewlyConnected, Base, ServerSide, ServerEndsOf, Sane
  <2>4. CASE StillConnected(c)
    BY <1>1, <2>1, <2>2, <2>4 DEF StillConnected, AddressesRight
  <2>5. QED  BY <1>1, <1>3, <2>1, <2>2, <2>3, <2>4, ConnectionSteps DEF ConnectionStep, Unconnected
<1>4. QED  BY <1>2, <1>3, Flat DEF Base

(* The address that udp_input stores for a client is that of the UDP socket *)
(* of its present run, if clients draw different identities and none draws  *)
(* 0: however late the probes of its earlier runs, whose sockets had other  *)
(* addresses, and of other clients arrive.                                  *)
THEOREM PublicAddresses ==
  ASSUME 0 \notin Ids, "same_id" \notin Faults
  PROVE  Spec => []PublicAddressRight
<1>1. Init => ProbesNamed /\ AddressesRight
  <2>1. SUFFICES ASSUME Init PROVE ProbesNamed /\ AddressesRight
    OBVIOUS
  <2>2. drawn = Range(sp_id) /\ udp = {} /\ IdsUnique /\ sp_id \in [Client -> Ids]
    BY <2>1 DEF Init, CliInit
  <2>3. \A c \in Client : sp_id[c] \in drawn
    BY <2>2 DEF Range
  <2>4. QED  BY <2>1, <2>2, <2>3, NoEntriesInit DEF ProbesNamed, AddressesRight
<1>2. Base /\ ProbesNamed /\ [Next]_vars => ProbesNamed'
  BY ProbesNext
<1>3. Base /\ Tokens /\ Identities /\ ProbesNamed /\ AddressesRight /\ [Next]_vars => AddressesRight'
  BY AddressesNext
<1>4. Base /\ AddressesRight => PublicAddressRight
  BY DEF AddressesRight, PublicAddressRight, Base, TypeInv, TypeOK, CliTypeOK
<1>5. QED  BY <1>1, <1>2, <1>3, <1>4, BaseInvariant, TokensInvariant, IdentitiesInvariant, PTL DEF Spec

-----------------------------------------------------------------------------
(* Measurements and their logs, as long as the server neither restarts nor *)
(* closes the connection of a client that runs                             *)

Undisturbed == Faults \cap {"server_restart", "kill", "silent"} = {}

\* The only timeout of a client is that of its call.
OwnTimers(c) ==
  \A p \in Address \X Kind : timers[c][p] > 0 =>
    /\ sp_state[c] \in DataState /\ p = <<sp_data[c], KindOf(sp_state[c])>>
    /\ timers[c][p] = 1

\* It is so for every client while the server runs, and afterwards for those
\* that are still connected.
Watched(c) == Running \/ sp_state[c] # "SS_INIT"
Orderly ==
  /\ Running => cli_open \subseteq srv_open
  /\ \A c \in Client : Watched(c) => OwnTimers(c)

(* A client that a step leaves alone keeps its timeouts.                    *)
LEMMA OwnTimersKept ==
  ASSUME NEW c, OwnTimers(c), sp_state'[c] = sp_state[c], sp_data'[c] = sp_data[c],
         timers'[c] = timers[c]
  PROVE  OwnTimers(c)'
BY DEF OwnTimers

(* A server that runs has run before: it does not start again.              *)
LEMMA RanBefore ==
  ASSUME Undisturbed, ServerStep \/ ClientStep \/ Stutters, Running'
  PROVE  Running
<1>1. CASE ClientStep \/ Stutters
  BY <1>1, ClientStepKeepsServer DEF srvVars, Running
<1>2. CASE ServerStep
  <2>1. ~Leaves /\ ~Ends /\ ~Starts
    BY DEF Leaves, Ends, ServerEnds, Starts, ServerStarts, Running, Undisturbed
  <2>2. CASE \E e \in Entry : NewClient(e)
    BY <2>2 DEF NewClient
  <2>3. CASE \E e \in Clients : ReadRegister(e) \/ ReadReport(e) \/ ReadFails(e) \/ ReadReset(e)
                                \/ ReadIgnored(e)
    BY <2>3 DEF ReadRegister, ReadReport, ReadFails, ReadReset, ReadIgnored, Reads
  <2>4. CASE \E S \in SUBSET Clients : Forget(S)
    BY <2>4 DEF Forget
  <2>5. CASE \E p \in udp, F \in SUBSET Clients : Probed(p, F)
    BY <2>5 DEF Probed
  <2>6. CASE \E e1, e2 \in Clients, S1, S2 \in SUBSET Conns : Ordered(e1, e2, S1, S2)
    BY <2>6 DEF Ordered
  <2>7. QED  BY <1>2, <2>1, <2>2, <2>3, <2>4, <2>5, <2>6 DEF ServerStep
<1>3. QED  BY <1>1, <1>2

(* The server closes a connection only when its client has closed it.       *)
LEMMA OrderlyServer ==
  ASSUME Base, Undisturbed, Orderly, ServerStep
  PROVE  Orderly'
<1>2. Running' => Running
  BY RanBefore
<1>3. UNCHANGED <<sp_state, sp_data, timers, cli_open>>
  BY ServerStepKeepsClients
<1>4. \A c \in Client : Watched(c)' => OwnTimers(c)'
  BY <1>2, <1>3, OwnTimersKept DEF Orderly, Watched
<1>5. ASSUME Running' PROVE cli_open' \subseteq srv_open'
  <2>1. CASE \E e \in Entry : NewClient(e)
    BY <1>2, <1>3, <1>5, <2>1 DEF NewClient, Orderly
  <2>2. CASE \E e \in Clients : ReadRegister(e) \/ ReadReport(e) \/ ReadIgnored(e)
    BY <1>2, <1>3, <1>5, <2>2 DEF ReadRegister, ReadReport, ReadIgnored, ListKeeps, Orderly
  <2>3. CASE \E e \in Clients : ReadFails(e) \/ ReadReset(e)
    BY <1>5, <2>3 DEF ReadFails, ReadReset, Running
  <2>4. CASE \E S \in SUBSET Clients : Forget(S)
    BY <1>2, <1>3, <1>5, <2>4 DEF Forget, Orderly, Undisturbed
  <2>5. CASE \E p \in udp, F \in SUBSET Clients : Probed(p, F)
    BY <1>2, <1>3, <1>5, <2>5 DEF Probed, ListKeeps, Orderly
  <2>6. CASE \E e1, e2 \in Clients, S1, S2 \in SUBSET Conns : Ordered(e1, e2, S1, S2)
    BY <1>2, <1>3, <1>5, <2>6 DEF Ordered, Orderly, Running
  <2>7. CASE Leaves \/ Ends \/ Starts
    BY <1>5, <2>7 DEF Leaves, Ends, ServerEnds, Starts, ServerStarts, Running, Undisturbed
  <2>8. QED  BY <2>1, <2>2, <2>3, <2>4, <2>5, <2>6, <2>7 DEF ServerStep
<1>6. QED  BY <1>4, <1>5 DEF Orderly

(* A step that touches neither connections nor timeouts.                    *)
LEMMA OrderlyKept ==
  ASSUME Orderly, UNCHANGED <<srvVars, cli_open, srv_open, sp_state, sp_data, timers>>
  PROVE  Orderly'
<1>1. Running' <=> Running
  BY DEF Running, srvVars
<1>2. QED  BY <1>1, OwnTimersKept DEF Orderly, Watched

(* A client outside a call has no timeout registered.                       *)
LEMMA NoTimersRunning ==
  ASSUME Base, NEW c \in Client, OwnTimers(c), sp_state[c] \notin DataState
  PROVE  \A p \in Address \X Kind : timers[c][p] = 0
<1> DEFINE D == Address \X Kind
<1>1. timers \in [Client -> [D -> Nat]]
  BY DEF Base, TypeInv, TypeOK, CliTypeOK
<1>2. \A p \in D : ~(timers[c][p] > 0)
  BY DEF OwnTimers
<1> HIDE DEF D
<1>3. \A p \in D : timers[c][p] = 0
  BY <1>1, <1>2
<1>4. QED  BY <1>3 DEF D

(* sps_wrapper connects a client that has no call and no timeout.           *)
LEMMA ConnectsOrderly ==
  ASSUME Base, Orderly, NEW c \in Client, NEW s \in Conns, Connects(c, s)
  PROVE  Orderly'
<1>1. /\ Running /\ sp_state[c] = "SS_INIT" /\ sp_state' = [sp_state EXCEPT ![c] = "SS_SERVER"]
      /\ cli_open' = cli_open \cup {s} /\ srv_open' = srv_open \cup {s}
      /\ UNCHANGED <<sp_data, timers>> /\ sp_state \in [Client -> SpcState]
  BY DEF Connects, Base, TypeInv, TypeOK, CliTypeOK
<1>2. \A d \in Client : d # c => OwnTimers(d)'
  BY <1>1, OwnTimersKept DEF Orderly, Watched
<1>3. OwnTimers(c)'
  <2>1. \A p \in Address \X Kind : timers[c][p] = 0
    BY <1>1, NoTimersRunning DEF Orderly, Watched, DataState
  <2>2. \A p \in Address \X Kind : ~(timers'[c][p] > 0)
    BY <1>1, <2>1
  <2>3. QED  BY <2>2 DEF OwnTimers
<1>4. QED  BY <1>1, <1>2, <1>3 DEF Orderly

(* The end of a process takes its timeouts with it.                         *)
LEMMA DiesOrderly ==
  ASSUME Base, Orderly, NEW c \in Client, Dies(c)
  PROVE  Orderly'
<1>1. /\ sp_state' = [sp_state EXCEPT ![c] = "SS_INIT"] /\ sp_data' = [sp_data EXCEPT ![c] = 0]
      /\ timers' = [timers EXCEPT ![c] = NoTimers] /\ cli_open' \subseteq cli_open
      /\ srv_open' = srv_open /\ UNCHANGED srvVars
  BY DEF Dies, ProcessEnds, ServerKeeps
<1>2. /\ sp_state \in [Client -> SpcState] /\ sp_data \in [Client -> 0 .. MaxSessions]
      /\ DOMAIN timers = Client
  BY DEF Base, TypeInv, TypeOK, CliTypeOK
<1>3. timers'[c] = NoTimers /\ \A d \in Client : d # c => timers'[d] = timers[d]
  BY <1>1, <1>2
<1>4. \A p \in Address \X Kind : ~(timers'[c][p] > 0)
  BY <1>3 DEF NoTimers
<1>5. OwnTimers(c)'
  BY <1>4 DEF OwnTimers
<1>6. \A d \in Client : d # c => sp_state'[d] = sp_state[d] /\ sp_data'[d] = sp_data[d]
  BY <1>1, <1>2
<1>7. Running' <=> Running
  BY <1>1 DEF Running, srvVars
<1>8. \A d \in Client : d # c /\ Watched(d)' => OwnTimers(d)'
  BY <1>3, <1>6, <1>7, OwnTimersKept DEF Orderly, Watched
<1>9. QED  BY <1>1, <1>5, <1>7, <1>8 DEF Orderly

(* spc_state2init is called only after the server has ended.                *)
LEMMA DisconnectsOrderly ==
  ASSUME Base, Orderly, NEW c \in Client, Disconnects(c)
  PROVE  Orderly'
<1>1. /\ sp_s[c] # 0 /\ sp_s[c] \notin srv_open /\ UNCHANGED <<srvVars, timers>>
      /\ sp_state' = [sp_state EXCEPT ![c] = "SS_INIT"] /\ sp_data' = [sp_data EXCEPT ![c] = 0]
  BY DEF Disconnects, spc_state2init, ServerKeeps
<1>2. sp_s[c] \in cli_open
  BY <1>1 DEF Base, ClientEnds
<1>3. ~Running /\ ~Running'
  BY <1>1, <1>2 DEF Orderly, Running, srvVars
<1>4. sp_state \in [Client -> SpcState] /\ sp_data \in [Client -> 0 .. MaxSessions]
  BY DEF Base, TypeInv, TypeOK, CliTypeOK
<1>5. ~Watched(c)'
  BY <1>1, <1>3, <1>4 DEF Watched
<1>6. \A d \in Client : d # c => sp_state'[d] = sp_state[d] /\ sp_data'[d] = sp_data[d]
  BY <1>1, <1>4
<1>7. \A d \in Client : d # c /\ Watched(d)' => OwnTimers(d)'
  BY <1>1, <1>3, <1>6, OwnTimersKept DEF Orderly, Watched
<1>8. QED  BY <1>3, <1>5, <1>7 DEF Orderly

(* start_sender and start_receiver register the only timeout of the client. *)
LEMMA ObeysOrderly ==
  ASSUME Base, Orderly, NEW c \in Client, NEW n \in Address, NEW kind \in Kind,
         NEW state \in DataState, Obeys(c, n, kind, state)
  PROVE  Orderly'
<1> DEFINE p == <<n, kind>>
           D == Address \X Kind
           v == timers[c][p] + 1
<1>1. /\ sp_data' = [sp_data EXCEPT ![c] = n] /\ sp_state' = [sp_state EXCEPT ![c] = state]
      /\ timers' = [timers EXCEPT ![c][p] = v] /\ UNCHANGED <<srv_open, cli_open>>
      /\ sp_state[c] = "SS_SERVER"
  BY DEF Obeys
<1>1a. UNCHANGED srvVars
  BY DEF Obeys, TakesOrder, ServerKeeps
<1>0. kind = KindOf(state)
  BY DEF Obeys, KindOf
<1>2. /\ sp_data \in [Client -> 0 .. MaxSessions] /\ sp_state \in [Client -> SpcState]
      /\ timers \in [Client -> [D -> Nat]] /\ p \in D
  BY DEF Base, TypeInv, TypeOK, CliTypeOK
<1>3. (Running' <=> Running) /\ OwnTimers(c)
  BY <1>1, <1>1a DEF Orderly, Watched, Running, srvVars
<1>4. \A r \in D : timers[c][r] = 0
  BY <1>1, <1>3, NoTimersRunning DEF DataState
<1>4a. v = 1
  BY <1>2, <1>4
<1>4b. p = <<n, KindOf(state)>>
  BY <1>0
<1> HIDE DEF p, v
<1>5. \A d \in Client, r \in D : timers'[d][r] = IF d = c /\ r = p THEN v ELSE timers[d][r]
  BY <1>1, <1>2, <1>4a, TimersType
<1>6. sp_data'[c] = n /\ sp_state'[c] = state
      /\ \A d \in Client : d # c => sp_state'[d] = sp_state[d] /\ sp_data'[d] = sp_data[d]
  BY <1>1, <1>2
<1>7. OwnTimers(c)'
  <2>1. \A r \in D : timers'[c][r] > 0 => r = p /\ timers'[c][r] = 1
    BY <1>4, <1>4a, <1>5
  <2>2. \A r \in D : timers'[c][r] > 0 =>
          sp_state'[c] \in DataState /\ r = <<sp_data'[c], KindOf(sp_state'[c])>> /\ timers'[c][r] = 1
    BY <1>4b, <1>6, <2>1
  <2>3. QED  BY <2>2 DEF OwnTimers
<1>8. ASSUME NEW d \in Client, d # c, Watched(d)' PROVE OwnTimers(d)'
  <2>1. OwnTimers(d)
    BY <1>3, <1>6, <1>8 DEF Orderly, Watched
  <2>2. timers'[d] = timers[d]
    <3> HIDE DEF D
    <3>1. QED  BY <1>1, <1>2, <1>8
  <2>3. QED  BY <1>6, <1>8, <2>1, <2>2, OwnTimersKept
<1>9. QED  BY <1>1, <1>3, <1>7, <1>8 DEF Orderly

(* The timeout that ends the call is its own: none is left.                 *)
LEMMA CallEndsOrderly ==
  ASSUME Base, Orderly, NEW c \in Client, NEW n \in Address, NEW kind \in Kind, NEW report,
         CallEnds(c, n, kind, report)
  PROVE  Orderly'
<1> DEFINE p == <<n, kind>>
           D == Address \X Kind
<1>1. /\ sp_data' = [sp_data EXCEPT ![c] = 0] /\ sp_state' = [sp_state EXCEPT ![c] = "SS_SERVER"]
      /\ timers' = [timers EXCEPT ![c][p] = @ - 1] /\ UNCHANGED <<srv_open, cli_open, srvVars>>
      /\ timers[c][p] > 0 /\ sp_state[c] # "SS_INIT"
  BY DEF CallEnds, EndCall, ServerKeeps
<1>2. /\ sp_data \in [Client -> 0 .. MaxSessions] /\ sp_state \in [Client -> SpcState]
      /\ timers \in [Client -> [D -> Nat]] /\ p \in D
  BY DEF Base, TypeInv, TypeOK, CliTypeOK
<1>3. (Running' <=> Running) /\ OwnTimers(c)
  BY <1>1 DEF Orderly, Watched, Running, srvVars
<1> HIDE DEF p
<1>4. \A d \in Client, r \in D : timers'[d][r] = IF d = c /\ r = p THEN timers[c][p] - 1 ELSE timers[d][r]
  BY <1>1, <1>2, TimerType DEF Base
<1>5. timers[c][p] = 1 /\ \A r \in D : timers[c][r] > 0 => r = p
  BY <1>1, <1>2, <1>3 DEF OwnTimers
<1>6. OwnTimers(c)'
  <2>1. \A r \in D : ~(timers'[c][r] > 0)
    BY <1>2, <1>4, <1>5
  <2>2. QED  BY <2>1 DEF OwnTimers
<1>7. ASSUME NEW d \in Client, d # c, Watched(d)' PROVE OwnTimers(d)'
  <2>2. timers'[d] = timers[d]
    <3> HIDE DEF D
    <3>1. QED  BY <1>1, <1>2, <1>7
  <2>3. sp_state'[d] = sp_state[d] /\ sp_data'[d] = sp_data[d]
    BY <1>1, <1>2, <1>7
  <2>4. OwnTimers(d)
    BY <1>3, <1>7, <2>3 DEF Orderly, Watched
  <2>5. QED  BY <2>4, <2>2, <2>3, OwnTimersKept
<1>8. QED  BY <1>1, <1>3, <1>6, <1>7 DEF Orderly

(* send_data_wrapper is registered again in place of itself.                *)
LEMMA StopsOrderly ==
  ASSUME Base, Orderly, NEW c \in Client, NEW n \in Address, Stops(c, n)
  PROVE  Orderly'
<1>1. /\ sp_state' = [sp_state EXCEPT ![c] = "SS_DATA_SEND_CLOSING"] /\ sp_state[c] = "SS_DATA_SEND"
      /\ UNCHANGED <<sp_data, timers, srv_open, cli_open, srvVars>> /\ sp_state \in [Client -> SpcState]
  BY DEF Stops, StopSending, netVars, ServerKeeps, Base, TypeInv, TypeOK, CliTypeOK
<1>2. (Running' <=> Running) /\ OwnTimers(c)
  BY <1>1 DEF Orderly, Watched, Running, srvVars
<1>3. sp_state'[c] = "SS_DATA_SEND_CLOSING" /\ KindOf(sp_state'[c]) = KindOf(sp_state[c])
      /\ sp_state'[c] \in DataState
  BY <1>1 DEF KindOf, DataState, SpcState
<1>4. OwnTimers(c)'
  BY <1>1, <1>2, <1>3 DEF OwnTimers
<1>5. \A d \in Client : d # c /\ Watched(d)' => OwnTimers(d)'
  BY <1>1, <1>2, OwnTimersKept DEF Orderly, Watched
<1>6. QED  BY <1>1, <1>2, <1>4, <1>5 DEF Orderly

(* A timeout without a call is left only when the server has ended.         *)
LEMMA ExpiresOrderly ==
  ASSUME Base, Orderly, NEW c \in Client, NEW n \in Address, NEW kind \in Kind, Expires(c, n, kind)
  PROVE  Orderly'
<1> DEFINE p == <<n, kind>>
           D == Address \X Kind
<1>1. /\ timers[c][p] > 0 /\ p \in Address \X Kind
      /\ sp_state[c] \in DataState => kind # KindOf(sp_state[c])
      /\ timers' = [timers EXCEPT ![c][p] = @ - 1]
      /\ UNCHANGED <<sp_state, sp_data, srv_open, cli_open, srvVars>>
  BY DEF Expires, TimerExpires, netVars, ServerKeeps
<1>2. \A x, y : p = <<x, y>> => kind = y
  OBVIOUS
<1> HIDE DEF p
<1>3. ~Watched(c) /\ (Running' <=> Running)
  BY <1>1, <1>2 DEF Orderly, OwnTimers, Running, srvVars
<1>4. timers \in [Client -> [D -> Nat]]
  BY DEF Base, TypeInv, TypeOK, CliTypeOK
<1> HIDE DEF D
<1>5. \A d \in Client : d # c => timers'[d] = timers[d]
  BY <1>1, <1>4
<1>6. \A d \in Client : Watched(d)' => d # c /\ Watched(d)
  BY <1>1, <1>3 DEF Watched
<1>7. \A d \in Client : Watched(d)' => OwnTimers(d)'
  BY <1>1, <1>5, <1>6, OwnTimersKept DEF Orderly
<1>8. QED  BY <1>1, <1>3, <1>7 DEF Orderly

(* Every step of a client keeps it.                                         *)
LEMMA OrderlyClient ==
  ASSUME Base, Undisturbed, Orderly, ClientStep \/ Stutters
  PROVE  Orderly'
<1>1. CASE \E c \in Client, s \in Conns : Connects(c, s)
  BY <1>1, ConnectsOrderly
<1>2. CASE \E c \in Client : Updates(c) \/ Disobeys(c)
  BY <1>2, OrderlyKept DEF Updates, UpdateRegistration, Disobeys, TakesOrder, ServerKeeps, cliVars
<1>3. CASE \E c \in Client : Dies(c) \/ Disconnects(c)
  BY <1>3, DiesOrderly, DisconnectsOrderly
<1>4. CASE \E c \in Client, n \in Address, kind \in Kind, state \in DataState : Obeys(c, n, kind, state)
  BY <1>4, ObeysOrderly
<1>5. CASE \E c \in Client, n \in Address, kind \in Kind, report \in SpProto : CallEnds(c, n, kind, report)
  BY <1>5, CallEndsOrderly
<1>6. CASE \E c \in Client, n \in Address : Stops(c, n)
  BY <1>6, StopsOrderly
<1>7. CASE \E c \in Client, n \in Address, kind \in Kind : Expires(c, n, kind)
  BY <1>7, ExpiresOrderly
<1>8. CASE \E c \in Client, id \in Ids : Restarts(c, id)
  BY <1>8, OrderlyKept DEF Restarts, ClientRestarts, ClientStarts, netVars
<1>9. CASE Stutters
  BY <1>9, OrderlyKept DEF Stutters, vars, netVars, cliVars
<1>10. QED  BY <1>1, <1>2, <1>3, <1>4, <1>5, <1>6, <1>7, <1>8, <1>9 DEF ClientStep

(* Timeouts belong to calls, as long as the server closes no connection.    *)
LEMMA OrderlyInvariant ==
  ASSUME Undisturbed
  PROVE  Spec => []Orderly
<1>1. Init => Orderly
  <2>1. SUFFICES ASSUME Init PROVE cli_open \subseteq srv_open /\ \A c \in Client : OwnTimers(c)
    BY DEF Orderly
  <2>2. cli_open = {} /\ \A c \in Client : timers[c] = NoTimers
    BY <2>1 DEF Init, NetInit, CliInit
  <2>3. \A c \in Client : OwnTimers(c)
    BY <2>2 DEF OwnTimers, NoTimers
  <2>4. QED  BY <2>2, <2>3
<1>2. Base /\ Orderly /\ [Next]_vars => Orderly'
  BY OrderlyServer, OrderlyClient, Flat DEF Base
<1>3. QED  BY <1>1, <1>2, BaseInvariant, PTL DEF Spec

\* Where the sender's part of measurement t is: in an order, in the call of a
\* client, or in a report.
SendState == {"SS_DATA_SEND", "SS_DATA_SEND_CLOSING"}
Sends(c, t) == sp_state[c] \in SendState /\ \E ses \in heap[c][sp_data[c]] : ses.testid = t
TestAt(s, t) ==
  \/ HasMessage(s2c[s], "START_SEND", t)
  \/ \E c \in Client : sp_s[c] = s /\ Sends(c, t)
  \/ HasMessage(c2s[s], "REPORT_SEND", t)

\* A measurement that is under way has been numbered, has not been logged, and
\* is in one place.
Numbered ==
  /\ \A t \in Tests : logs[t] > 0 => t < test_id
  /\ \A s \in Conns, t \in Tests : TestAt(s, t) => t < test_id /\ logs[t] = 0
  /\ \A s, r \in Conns, t \in Tests : TestAt(s, t) /\ TestAt(r, t) => s = r

Logging == LoggedOnce /\ (Running => Numbered)

(* A step that logs nothing and begins no measurement.                      *)
LEMMA LoggingKept ==
  ASSUME Logging, UNCHANGED <<logs, test_id>>,
         Running' => Running /\ \A s \in Conns, t \in Tests : TestAt(s, t)' => TestAt(s, t)
  PROVE  Logging'
<1>1. LoggedOnce'
  BY DEF Logging, LoggedOnce
<1>2. ASSUME Running' PROVE Numbered'
  <2>1. Numbered /\ \A s \in Conns, t \in Tests : TestAt(s, t)' => TestAt(s, t)
    BY <1>2 DEF Logging
  <2>2. \A t \in Tests : logs'[t] > 0 => t < test_id'
    BY <2>1 DEF Numbered
  <2>3. \A s \in Conns, t \in Tests : TestAt(s, t)' => t < test_id' /\ logs'[t] = 0
    BY <2>1 DEF Numbered
  <2>4. \A s, r \in Conns, t \in Tests : TestAt(s, t)' /\ TestAt(r, t)' => s = r
    BY <2>1 DEF Numbered
  <2>5. QED  BY <2>2, <2>3, <2>4 DEF Numbered
<1>3. QED  BY <1>1, <1>2 DEF Logging

(* A client that a step leaves alone sends for the same measurement.        *)
LEMMA SendsKept ==
  ASSUME NEW c, NEW t, sp_state'[c] = sp_state[c], sp_data'[c] = sp_data[c], heap'[c] = heap[c]
  PROVE  Sends(c, t)' <=> Sends(c, t)
BY DEF Sends

(* A client outside a call, or receiving, sends for none.                   *)
LEMMA NotSending ==
  ASSUME NEW c, NEW t, sp_state'[c] \in {"SS_INIT", "SS_SERVER", "SS_DATA_RCV"}
  PROVE  ~Sends(c, t)'
BY DEF Sends, SendState

(* Orders after a step that sends none.                                     *)
LEMMA OrdersKept ==
  ASSUME TypeInv, NEW s \in Conns, NEW t,
         s2c'[s] = s2c[s] \/ (s2c[s] # <<>> /\ s2c'[s] = Tail(s2c[s])) \/ Extends(s2c'[s], s2c[s])
           \/ s2c'[s] = <<>>,
         HasMessage(s2c'[s], "START_SEND", t)
  PROVE  HasMessage(s2c[s], "START_SEND", t)
<1>1. s2c[s] \in Seq(SpProto)
  BY ConnsOfClients
<1>2. CASE s2c[s] # <<>> /\ s2c'[s] = Tail(s2c[s])
  BY <1>1, <1>2, TailQueue
<1>3. CASE Extends(s2c'[s], s2c[s])
  BY <1>3 DEF Extends
<1>4. CASE s2c'[s] = <<>>
  BY <1>4, EmptyQueue
<1>5. QED  BY <1>2, <1>3, <1>4

(* Reports after a step that sends none.                                    *)
LEMMA ReportsKept ==
  ASSUME TypeInv, NEW s \in Conns, NEW t,
         c2s'[s] = c2s[s] \/ (c2s[s] # <<>> /\ c2s'[s] = Tail(c2s[s])) \/ c2s'[s] = <<>>,
         HasMessage(c2s'[s], "REPORT_SEND", t)
  PROVE  HasMessage(c2s[s], "REPORT_SEND", t)
<1>1. c2s[s] \in Seq(SpProto)
  BY ConnsOfClients
<1>2. CASE c2s[s] # <<>> /\ c2s'[s] = Tail(c2s[s])
  BY <1>1, <1>2, TailQueue
<1>3. CASE c2s'[s] = <<>>
  BY <1>3, EmptyQueue
<1>4. QED  BY <1>2, <1>3

(* Only an order brings a measurement to a connection.                      *)
LEMMA TestsOfServer ==
  ASSUME Base, ServerStep, NEW s \in Conns, NEW t, TestAt(s, t)'
  PROVE  TestAt(s, t) \/ HasMessage(s2c'[s], "START_SEND", t)
<1>1. UNCHANGED <<sp_state, sp_data, heap, sp_s>>
  BY ServerStepKeepsClients
<1>2. \A c \in Client : Sends(c, t)' <=> Sends(c, t)
  BY <1>1, SendsKept
<1>3. HasMessage(c2s'[s], "REPORT_SEND", t) => HasMessage(c2s[s], "REPORT_SEND", t)
  BY ServerReads, ReportsKept DEF Base
<1>4. QED  BY <1>1, <1>2, <1>3 DEF TestAt

(* receive_send_report writes the log of the measurement it was ordered     *)
(* for, and its report is read once.                                        *)
LEMMA ReadsLogs ==
  ASSUME Base, Tokens, Logging, ServerStep, NEW e \in Clients, Reads(e), First(e).type \in Report, Writes(e)
  PROVE  Logging'
<1> DEFINE m == First(e)
<1>0. PICK x, u : x = cfe[e].cf_s /\ u = First(e).testid
  OBVIOUS
<1>1. /\ Running /\ x \in Conns /\ c2s[x] \in Seq(SpProto) /\ c2s[x] # <<>> /\ m = Head(c2s[x])
      /\ s2c' = s2c /\ test_id' = test_id /\ logs \in [Tests -> Nat] /\ sp_s' = sp_s
      /\ sp_state' = sp_state
  BY <1>0, ConnsOfClients DEF Reads, Base, First, ClientsKeep, cliVars, TypeInv, TypeOK, SrvTypeOK
<1>2. ASSUME NEW s \in Conns, NEW t \in Tests, TestAt(s, t)' PROVE TestAt(s, t)
  BY <1>1, <1>2, TestsOfServer DEF TestAt
<1>3. CASE logs' = logs
  BY <1>1, <1>2, <1>3, LoggingKept
<1>4. CASE m.type = "REPORT_SEND" /\ u \in Tests /\ logs' = [logs EXCEPT ![u] = @ + 1]
  <2>1. HasMessage(c2s[x], "REPORT_SEND", u)
    BY <1>0, <1>1, <1>4, TailQueue
  <2>2. TestAt(x, u) /\ Numbered
    BY <1>1, <2>1 DEF TestAt, Logging
  <2>3. u < test_id /\ logs[u] = 0
    BY <1>1, <1>4, <2>2 DEF Numbered
  <2>4. \A t \in Tests : logs'[t] = IF t = u THEN 1 ELSE logs[t]
    BY <1>1, <1>4, <2>3
  <2>5. /\ None(c2s'[x], Report) /\ None(s2c'[x], Start) /\ ~InCall(x)
    BY <1>0, <1>1, ReadsToken
  <2>6. ~TestAt(x, u)'
    <3>1. ~HasMessage(c2s'[x], "REPORT_SEND", u) /\ ~HasMessage(s2c'[x], "START_SEND", u)
      BY <2>5 DEF None, HasMessage, Report, Start
    <3>2. \A c \in Client : sp_s[c] = x => sp_state[c] \notin SendState
      BY <2>5 DEF InCall, DataState, SpcState, SendState
    <3>3. \A c \in Client : sp_s'[c] = x => ~Sends(c, u)'
      BY <1>1, <3>2 DEF Sends
    <3>4. QED  BY <3>1, <3>3 DEF TestAt
  <2>7. \A s \in Conns : ~TestAt(s, u)'
    BY <1>1, <1>2, <1>4, <2>2, <2>6 DEF Numbered
  <2>8. LoggedOnce'
    BY <2>4 DEF Logging, LoggedOnce
  <2>9. \A t \in Tests : logs'[t] > 0 => t < test_id'
    BY <1>1, <2>2, <2>3, <2>4 DEF Numbered
  <2>10. \A s \in Conns, t \in Tests : TestAt(s, t)' => t < test_id' /\ logs'[t] = 0
    BY <1>1, <1>2, <2>2, <2>4, <2>7 DEF Numbered
  <2>11. \A s, r \in Conns, t \in Tests : TestAt(s, t)' /\ TestAt(r, t)' => s = r
    BY <1>2, <2>2 DEF Numbered
  <2>12. QED  BY <2>8, <2>9, <2>10, <2>11 DEF Logging, Numbered
<1>5. QED  BY <1>0, <1>3, <1>4 DEF Writes

(* client_startcalls takes a new number for a measurement.                  *)
LEMMA OrderedLogs ==
  ASSUME Base, Logging, ServerStep, NEW e1 \in Clients, NEW e2 \in Clients, NEW S1 \in SUBSET Conns,
         NEW S2 \in SUBSET Conns, Ordered(e1, e2, S1, S2)
  PROVE  Logging'
<1>1. /\ Running /\ test_id' = test_id + 1 /\ test_id \in Nat /\ test_id \in Tests /\ logs' = logs
      /\ logs \in [Tests -> Nat] /\ S1 \subseteq {cfe[e1].cf_s}
  BY ServerAssumption DEF Ordered, Base, TypeInv, TypeOK, SrvTypeOK, Tests
<1>2. Numbered /\ LoggedOnce /\ \A t \in Tests : t \in Int
  BY <1>1 DEF Logging, Tests
<1>3. ASSUME NEW s \in Conns, NEW t \in Tests, TestAt(s, t)'
      PROVE  TestAt(s, t) \/ (s \in S1 /\ t = test_id)
  <2> DEFINE m1 == StartMessage(e1, "START_SEND")
             m2 == StartMessage(e2, "START_RCV")
  <2>1. /\ m1 \in SpProto /\ m2 \in SpProto /\ s2c[s] \in Seq(SpProto)
        /\ s2c'[s] = IF s \in S1 THEN Append(s2c[s], m1)
                     ELSE IF s \in S2 THEN Append(s2c[s], m2) ELSE s2c[s]
    BY OrderedQueues, ConnsOfClients DEF Base
  <2>2. m1.testid = test_id /\ m2.type # "START_SEND"
    BY DEF StartMessage, sp_proto
  <2> HIDE DEF m1, m2
  <2>3. SUFFICES ASSUME HasMessage(s2c'[s], "START_SEND", t)
                 PROVE  HasMessage(s2c[s], "START_SEND", t) \/ (s \in S1 /\ t = test_id)
    BY <1>3, TestsOfServer DEF TestAt
  <2>4. CASE s \in S1
    BY <2>1, <2>2, <2>3, <2>4, AppendQueue
  <2>5. CASE s \notin S1 /\ s \in S2
    BY <2>1, <2>2, <2>3, <2>5, AppendQueue
  <2>6. QED  BY <2>1, <2>3, <2>4, <2>5
<1>4. \A s \in Conns : ~TestAt(s, test_id)
  BY <1>1, <1>2 DEF Numbered
<1>5. logs[test_id] = 0
  BY <1>1, <1>2 DEF Numbered
<1>6. \A t \in Tests : logs'[t] > 0 => t < test_id'
  BY <1>1, <1>2 DEF Numbered
<1>7. \A s \in Conns, t \in Tests : TestAt(s, t)' => t < test_id' /\ logs'[t] = 0
  BY <1>1, <1>2, <1>3, <1>5 DEF Numbered
<1>8. \A s, r \in Conns, t \in Tests : TestAt(s, t)' /\ TestAt(r, t)' => s = r
  BY <1>1, <1>2, <1>3, <1>4 DEF Numbered
<1>9. QED  BY <1>1, <1>2, <1>6, <1>7, <1>8 DEF Logging, LoggedOnce, Numbered

(* Every step of the server keeps it.                                       *)
LEMMA LoggingServer ==
  ASSUME Base, Tokens, Undisturbed, Logging, ServerStep
  PROVE  Logging'
<1>1. CASE \E e \in Clients : ReadReport(e) \/ ReadFails(e) \/ ReadReset(e)
  BY <1>1, ReadsLogs DEF ReadReport, ReadFails, ReadReset
<1>2. CASE \E e1, e2 \in Clients, S1, S2 \in SUBSET Conns : Ordered(e1, e2, S1, S2)
  BY <1>2, OrderedLogs
<1>3. CASE Leaves \/ Ends \/ Starts
  <2>1. UNCHANGED <<logs, test_id>> /\ ~Running'
    BY <1>3 DEF Leaves, Ends, ServerEnds, Starts, ServerStarts, Running, Undisturbed
  <2>2. QED  BY <2>1, LoggingKept
<1>4. CASE \/ \E e \in Entry : NewClient(e)
           \/ \E e \in Clients : ReadRegister(e) \/ ReadIgnored(e)
           \/ \E S \in SUBSET Clients : Forget(S)
           \/ \E p \in udp, F \in SUBSET Clients : Probed(p, F)
  <2>1. UNCHANGED <<logs, test_id>>
    BY <1>4 DEF NewClient, ReadRegister, ReadIgnored, Reads, Forget, Probed
  <2>2. \A s \in Conns : s2c'[s] = s2c[s] \/ Extends(s2c'[s], s2c[s])
    BY <1>4 DEF NewClient, ReadRegister, ReadIgnored, Reads, Forget, Probed
  <2>3. \A s \in Conns, t \in Tests : TestAt(s, t)' => TestAt(s, t)
    BY <2>2, TestsOfServer, OrdersKept DEF TestAt, Base
  <2>4. QED  BY <2>1, <2>3, RanBefore, LoggingKept
<1>5. QED  BY <1>1, <1>2, <1>3, <1>4 DEF ServerStep

\* The tests at a connection after a step of client c.
LEMMA TestsOfClient ==
  ASSUME NEW c \in Client, NEW s \in Conns, NEW t, TestAt(s, t)',
         \A d \in Client : d # c => /\ sp_s'[d] = sp_s[d] /\ sp_state'[d] = sp_state[d]
                                    /\ sp_data'[d] = sp_data[d] /\ heap'[d] = heap[d],
         HasMessage(s2c'[s], "START_SEND", t) => TestAt(s, t),
         HasMessage(c2s'[s], "REPORT_SEND", t) => TestAt(s, t),
         sp_s'[c] = s /\ Sends(c, t)' => TestAt(s, t)
  PROVE  TestAt(s, t)
<1>1. \A d \in Client : d # c => (Sends(d, t)' <=> Sends(d, t))
  BY SendsKept
<1>2. \A d \in Client : d # c /\ sp_s'[d] = s /\ Sends(d, t)' => TestAt(s, t)
  BY <1>1 DEF TestAt
<1>3. QED  BY <1>2 DEF TestAt

(* No client begins a measurement of its own: not when it connects,         *)
LEMMA ConnectsTests ==
  ASSUME Base, NEW c \in Client, NEW x \in Conns, Connects(c, x), NEW s \in Conns, NEW t, TestAt(s, t)'
  PROVE  TestAt(s, t)
<1>1. /\ sp_s' = [sp_s EXCEPT ![c] = x] /\ sp_state' = [sp_state EXCEPT ![c] = "SS_SERVER"]
      /\ c2s' = [c2s EXCEPT ![x] = Append(<<>>, send_register(c).message)]
      /\ s2c' = [s2c EXCEPT ![x] = <<>>] /\ UNCHANGED <<sp_data, heap>>
  BY DEF Connects
<1>2. /\ sp_s \in [Client -> 0 .. MaxConns] /\ sp_state \in [Client -> SpcState]
      /\ c2s \in [Conns -> Seq(SpProto)] /\ s2c \in [Conns -> Seq(SpProto)]
  BY DEF Base, TypeInv, TypeOK, CliTypeOK, NetTypeOK
<1>3. HasMessage(s2c'[s], "START_SEND", t) => TestAt(s, t)
  <2>1. s2c'[s] = s2c[s] \/ s2c'[s] = <<>>
    BY <1>1, <1>2
  <2>2. QED  BY <2>1, EmptyQueue DEF TestAt
<1>4. HasMessage(c2s'[s], "REPORT_SEND", t) => TestAt(s, t)
  <2> DEFINE m == send_register(c).message
             q == <<>>
  <2>1. c2s'[s] = c2s[s] \/ c2s'[s] = Append(q, m)
    BY <1>1, <1>2
  <2>2. m \in SpProto /\ m.type = "REGISTER" /\ q \in Seq(SpProto) /\ ~HasMessage(q, "REPORT_SEND", t)
    BY RegisterMessage, EmptyQueue DEF Base
  <2> HIDE DEF m, q
  <2>3. ~HasMessage(Append(q, m), "REPORT_SEND", t)
    BY <2>2, AppendQueue
  <2>4. QED  BY <2>1, <2>3 DEF TestAt
<1>5. ~Sends(c, t)'
  BY <1>1, <1>2, NotSending
<1>6. \A d \in Client : d # c => sp_s'[d] = sp_s[d] /\ sp_state'[d] = sp_state[d]
  BY <1>1, <1>2
<1>7. QED  BY <1>1, <1>3, <1>4, <1>5, <1>6, TestsOfClient

(* when it registers again,                                                 *)
LEMMA UpdatesTests ==
  ASSUME Base, NEW c \in Client, Updates(c), NEW s \in Conns, NEW t, TestAt(s, t)'
  PROVE  TestAt(s, t)
<1> DEFINE m == send_register(c).message
           q == c2s[s]
           r == c2s'[s]
<1>1. /\ c2s' = Send(c2s, sp_s[c], m, srv_open) /\ UNCHANGED <<s2c, sp_s, sp_state, sp_data, heap>>
      /\ sp_s[c] \in Conns
  BY DistinctConns DEF Updates, UpdateRegistration, Base, ClientEnds
<1>2. m \in SpProto /\ m.type # "REPORT_SEND" /\ q \in Seq(SpProto)
  BY RegisterMessage, ConnsOfClients DEF Base
<1>3. r = q \/ r = Append(q, m)
  BY <1>1, <1>2, SentToken DEF Base
<1> HIDE DEF m, q, r
<1>4. HasMessage(r, "REPORT_SEND", t) => HasMessage(q, "REPORT_SEND", t)
  <2>1. CASE r = Append(q, m)
    BY <1>2, <2>1, AppendQueue
  <2>2. QED  BY <1>3, <2>1
<1>5. HasMessage(c2s'[s], "REPORT_SEND", t) => HasMessage(c2s[s], "REPORT_SEND", t)
  BY <1>4 DEF q, r
<1>6. \A d \in Client : Sends(d, t)' <=> Sends(d, t)
  BY <1>1, SendsKept
<1>7. QED  BY <1>1, <1>5, <1>6 DEF TestAt

(* when it closes its connection,                                           *)
LEMMA ClosesTests ==
  ASSUME Base, NEW c \in Client, Dies(c) \/ Disconnects(c), NEW s \in Conns, NEW t, TestAt(s, t)'
  PROVE  TestAt(s, t)
<1>1. /\ sp_state' = [sp_state EXCEPT ![c] = "SS_INIT"] /\ sp_s' = [sp_s EXCEPT ![c] = 0]
      /\ sp_data' = [sp_data EXCEPT ![c] = 0] /\ c2s' = c2s
  BY DEF Dies, ProcessEnds, Disconnects, spc_state2init
<1>2. /\ sp_s \in [Client -> 0 .. MaxConns] /\ sp_state \in [Client -> SpcState]
      /\ sp_data \in [Client -> 0 .. MaxSessions]
  BY DEF Base, TypeInv, TypeOK, CliTypeOK
<1>3. s2c'[s] = s2c[s] \/ s2c'[s] = <<>>
  BY DEF Dies, ProcessEnds, Disconnects, spc_state2init
<1>4. HasMessage(s2c'[s], "START_SEND", t) => TestAt(s, t)
  BY <1>3, EmptyQueue DEF TestAt
<1>5. HasMessage(c2s'[s], "REPORT_SEND", t) => TestAt(s, t)
  BY <1>1 DEF TestAt
<1>6. ~Sends(c, t)'
  BY <1>1, <1>2, NotSending
<1>7. \A d \in Client : d # c => heap'[d] = heap[d]
  BY DEF Dies, ProcessEnds, Disconnects, spc_state2init, Base, TypeInv, TypeOK, CliTypeOK
<1>8. \A d \in Client : d # c => sp_s'[d] = sp_s[d] /\ sp_state'[d] = sp_state[d] /\ sp_data'[d] = sp_data[d]
  BY <1>1, <1>2
<1>9. QED  BY <1>4, <1>5, <1>6, <1>7, <1>8, TestsOfClient

(* when it obeys an order, which has the number of the call,                *)
LEMMA ObeysTests ==
  ASSUME Base, NEW c \in Client, NEW n \in Address, NEW kind \in Kind, NEW state \in DataState,
         Obeys(c, n, kind, state), NEW s \in Conns, NEW t, TestAt(s, t)'
  PROVE  TestAt(s, t)
<1> DEFINE ses == [kind |-> kind, testid |-> Order(c).testid]
<1>1. /\ TakesOrder(c) /\ UNCHANGED <<c2s, sp_s>>
      /\ heap' = [heap EXCEPT ![c][n] = {ses}]
      /\ sp_data' = [sp_data EXCEPT ![c] = n] /\ sp_state' = [sp_state EXCEPT ![c] = state]
      /\ state \in SendState => Order(c).type = "START_SEND"
  BY DEF Obeys, SendState
<1>2. /\ sp_state \in [Client -> SpcState] /\ sp_data \in [Client -> 0 .. MaxSessions]
      /\ heap \in [Client -> [Address -> SUBSET Session]]
  BY DEF Base, TypeInv, TypeOK, CliTypeOK
<1>3. \A r \in Conns : s2c'[r] = IF r = sp_s[c] THEN Tail(s2c[r]) ELSE s2c[r]
  BY <1>1, OrderTaken DEF Base
<1>4. s2c[sp_s[c]] # <<>>
  BY <1>1 DEF TakesOrder
<1>5. HasMessage(s2c'[s], "START_SEND", t) => TestAt(s, t)
  BY <1>3, <1>4, OrdersKept DEF TestAt, Base
<1>6. HasMessage(c2s'[s], "REPORT_SEND", t) => TestAt(s, t)
  BY <1>1 DEF TestAt
<1>7. ses.testid = Order(c).testid
  OBVIOUS
<1> HIDE DEF ses
<1>8. ASSUME sp_s'[c] = s, Sends(c, t)' PROVE TestAt(s, t)
  <2>1. heap'[c][sp_data'[c]] = {ses} /\ sp_state'[c] = state
    BY <1>1, <1>2
  <2>2. state \in SendState /\ ses.testid = t
    BY <1>8, <2>1 DEF Sends
  <2>3. Order(c).type = "START_SEND" /\ Order(c).testid = t /\ Order(c) = Head(s2c[s])
    BY <1>1, <1>7, <1>8, <2>2 DEF Order
  <2>4. s2c[s] \in Seq(SpProto) /\ s2c[s] # <<>>
    BY <1>1, <1>4, <1>8, ConnsOfClients DEF Base
  <2>5. HasMessage(s2c[s], "START_SEND", t)
    BY <2>3, <2>4, TailQueue
  <2>6. QED  BY <2>5 DEF TestAt
<1>9. \A d \in Client : d # c => /\ sp_s'[d] = sp_s[d] /\ sp_state'[d] = sp_state[d]
                                 /\ sp_data'[d] = sp_data[d] /\ heap'[d] = heap[d]
  BY <1>1, <1>2
<1>10. QED  BY <1>5, <1>6, <1>8, <1>9, TestsOfClient

(* when it ignores one,                                                     *)
LEMMA DisobeysTests ==
  ASSUME Base, NEW c \in Client, Disobeys(c), NEW s \in Conns, NEW t, TestAt(s, t)'
  PROVE  TestAt(s, t)
<1>1. TakesOrder(c) /\ UNCHANGED <<c2s, sp_s, sp_state, sp_data, heap>>
  BY DEF Disobeys, cliVars
<1>2. HasMessage(s2c'[s], "START_SEND", t) => HasMessage(s2c[s], "START_SEND", t)
  <2>1. \A r \in Conns : s2c'[r] = IF r = sp_s[c] THEN Tail(s2c[r]) ELSE s2c[r]
    BY <1>1, OrderTaken DEF Base
  <2>2. s2c[sp_s[c]] # <<>>
    BY <1>1 DEF TakesOrder
  <2>3. QED  BY <2>1, <2>2, OrdersKept DEF Base
<1>3. \A d \in Client : Sends(d, t)' <=> Sends(d, t)
  BY <1>1, SendsKept
<1>4. QED  BY <1>1, <1>2, <1>3 DEF TestAt

\* The report is about the call of the client, as its only timeout is that of
\* the call.
LEMMA CallEndsTests ==
  ASSUME Base, ClientCalls, Orderly, Running, NEW c \in Client, NEW n \in Address, NEW kind \in Kind,
         NEW report \in SpProto, CallEnds(c, n, kind, report), NEW s \in Conns, NEW t, TestAt(s, t)'
  PROVE  TestAt(s, t)
<1> DEFINE p == <<n, kind>>
           q == c2s[s]
           r == c2s'[s]
<1>1. /\ timers[c][p] > 0 /\ p \in Address \X Kind /\ report.testid \in TestIds(c, n)
      /\ report.type = "REPORT_SEND" => sp_state[c] = "SS_DATA_SEND_CLOSING"
      /\ sp_state[c] \in DataState
  BY DEF CallEnds, DataState, SpcState
<1>2. /\ UNCHANGED <<s2c, sp_s>> /\ heap' = [heap EXCEPT ![c][n] = {}]
      /\ sp_data' = [sp_data EXCEPT ![c] = 0] /\ sp_state' = [sp_state EXCEPT ![c] = "SS_SERVER"]
      /\ c2s' = Send(c2s, sp_s[c], report, srv_open)
  BY DEF CallEnds, EndCall
<1>3. /\ sp_state \in [Client -> SpcState] /\ sp_data \in [Client -> 0 .. MaxSessions]
      /\ heap \in [Client -> [Address -> SUBSET Session]] /\ q \in Seq(SpProto) /\ sp_s[c] \in Conns
  BY <1>1, ConnsOfClients, DistinctConns DEF Base, TypeInv, TypeOK, CliTypeOK, ClientEnds, DataState
<1>4. \A x, y : p = <<x, y>> => n = x
  OBVIOUS
<1>4a. r = q \/ (r = Append(q, report) /\ s = sp_s[c])
  BY <1>2, <1>3, SentToken DEF Base
<1> HIDE DEF p, q, r
<1>5. n = sp_data[c]
  BY <1>1, <1>4 DEF Orderly, Watched, OwnTimers
<1>6. \E ses \in heap[c][n] : heap[c][n] = {ses}
  BY <1>1, <1>5 DEF ClientCalls, CallOf
<1>7. \E ses \in heap[c][n] : ses.testid = report.testid
  BY <1>1, <1>6 DEF TestIds
<1>8. report.type = "REPORT_SEND" => Sends(c, report.testid)
  BY <1>1, <1>5, <1>7 DEF Sends, SendState
<1>9. HasMessage(r, "REPORT_SEND", t) => TestAt(s, t)
  <2>1. CASE r = q
    BY <2>1 DEF TestAt, q
  <2>2. CASE r = Append(q, report) /\ s = sp_s[c] /\ HasMessage(r, "REPORT_SEND", t)
    <3>1. HasMessage(q, "REPORT_SEND", t) \/ (report.type = "REPORT_SEND" /\ report.testid = t)
      BY <1>3, <2>2, AppendQueue
    <3>2. QED  BY <1>8, <2>2, <3>1 DEF TestAt, q
  <2>3. QED  BY <1>4a, <2>1, <2>2
<1>10. HasMessage(c2s'[s], "REPORT_SEND", t) => TestAt(s, t)
  BY <1>9 DEF r
<1>11. HasMessage(s2c'[s], "START_SEND", t) => TestAt(s, t)
  BY <1>2 DEF TestAt
<1>12. ~Sends(c, t)'
  BY <1>2, <1>3, NotSending
<1>13. \A d \in Client : d # c => /\ sp_s'[d] = sp_s[d] /\ sp_state'[d] = sp_state[d]
                                  /\ sp_data'[d] = sp_data[d] /\ heap'[d] = heap[d]
  BY <1>2, <1>3
<1>14. QED  BY <1>10, <1>11, <1>12, <1>13, TestsOfClient

(* when it stops sending,                                                   *)
LEMMA StopsTests ==
  ASSUME Base, NEW c \in Client, NEW n \in Address, Stops(c, n), NEW s \in Conns, NEW t, TestAt(s, t)'
  PROVE  TestAt(s, t)
<1>1. /\ UNCHANGED <<s2c, c2s, sp_s, sp_data, heap>> /\ sp_state[c] = "SS_DATA_SEND"
      /\ sp_state' = [sp_state EXCEPT ![c] = "SS_DATA_SEND_CLOSING"] /\ sp_state \in [Client -> SpcState]
  BY DEF Stops, StopSending, netVars, Base, TypeInv, TypeOK, CliTypeOK
<1>2. Sends(c, t)' => Sends(c, t)
  BY <1>1 DEF Sends, SendState
<1>3. \A d \in Client : d # c => sp_state'[d] = sp_state[d]
  BY <1>1
<1>4. \A d \in Client : Sends(d, t)' => Sends(d, t)
  BY <1>1, <1>2, <1>3, SendsKept
<1>5. QED  BY <1>1, <1>4 DEF TestAt

(* or when nothing of it changes.                                           *)
LEMMA SameTests ==
  ASSUME UNCHANGED <<s2c, c2s, sp_s, sp_state, sp_data, heap>>, NEW s, NEW t, TestAt(s, t)'
  PROVE  TestAt(s, t)
<1>1. \A d \in Client : Sends(d, t)' => Sends(d, t)
  BY SendsKept
<1>2. QED  BY <1>1 DEF TestAt

(* Every step of a client keeps it.                                         *)
LEMMA LoggingClient ==
  ASSUME Base, ClientCalls, Orderly, Logging, ClientStep \/ Stutters
  PROVE  Logging'
<1>1. UNCHANGED <<logs, test_id>> /\ (Running' <=> Running)
  BY ClientStepKeepsServer DEF srvVars, Running
<1>2. SUFFICES ASSUME Running, NEW s \in Conns, NEW t \in Tests, TestAt(s, t)' PROVE TestAt(s, t)
  BY <1>1, LoggingKept
<1>3. CASE \E c \in Client, x \in Conns : Connects(c, x)
  BY <1>2, <1>3, ConnectsTests
<1>4. CASE \E c \in Client : Updates(c)
  BY <1>2, <1>4, UpdatesTests
<1>5. CASE \E c \in Client : Dies(c) \/ Disconnects(c)
  BY <1>2, <1>5, ClosesTests
<1>6. CASE \E c \in Client : Disobeys(c)
  BY <1>2, <1>6, DisobeysTests
<1>7. CASE \E c \in Client, n \in Address, kind \in Kind, state \in DataState : Obeys(c, n, kind, state)
  BY <1>2, <1>7, ObeysTests
<1>8. CASE \E c \in Client, n \in Address, kind \in Kind, report \in SpProto : CallEnds(c, n, kind, report)
  BY <1>2, <1>8, CallEndsTests
<1>9. CASE \E c \in Client, n \in Address : Stops(c, n)
  BY <1>2, <1>9, StopsTests
<1>10. CASE \E c \in Client, n \in Address, kind \in Kind : Expires(c, n, kind)
  BY <1>2, <1>10, SameTests DEF Expires, TimerExpires, netVars
<1>11. CASE \E c \in Client, id \in Ids : Restarts(c, id)
  BY <1>2, <1>11, SameTests DEF Restarts, ClientRestarts, ClientStarts, netVars
<1>12. CASE Stutters
  BY <1>2, <1>12, SameTests DEF Stutters, vars, netVars, cliVars
<1>13. QED  BY <1>3, <1>4, <1>5, <1>6, <1>7, <1>8, <1>9, <1>10, <1>11, <1>12 DEF ClientStep

(* No measurement is under way at first.                                    *)
LEMMA LoggingInit ==
  ASSUME Init
  PROVE  Logging
<1>1. /\ \A t \in Tests : logs[t] = 0
      /\ \A s \in Conns : c2s[s] = <<>> /\ s2c[s] = <<>>
      /\ \A c \in Client : sp_state[c] = "SS_INIT"
  BY DEF Init, NetInit, SrvInit, CliInit
<1>2. \A s \in Conns, t \in Tests : ~TestAt(s, t)
  BY <1>1, EmptyQueue DEF TestAt, Sends, SendState
<1>3. QED  BY <1>1, <1>2 DEF Logging, LoggedOnce, Numbered

(* The log of a measurement is written once at most, by                     *)
(* receive_send_report, as long as the server does not start again (it      *)
(* would number measurements from 0) and closes no connection of a client   *)
(* that runs. Clients may stop in a call, log files fail, connections be    *)
(* reset and identities collide.                                            *)
THEOREM MeasurementLoggedOnce ==
  ASSUME Undisturbed
  PROVE  Spec => []LoggedOnce
<1>1. Init => Logging
  BY LoggingInit
<1>2. Base /\ ClientCalls /\ Tokens /\ Orderly /\ Logging /\ [Next]_vars => Logging'
  BY LoggingServer, LoggingClient, Flat DEF Base
<1>3. Logging => LoggedOnce
  BY DEF Logging
<1>4. QED  BY <1>1, <1>2, <1>3, BaseInvariant, CallsInvariant, TokensInvariant, OrderlyInvariant,
              PTL DEF Spec

(* When a call ends, its timeout was the only one.                          *)
LEMMA CallEndsTimers ==
  ASSUME Base, Orderly, NEW c \in Client, NEW n \in Address, NEW kind \in Kind, NEW report,
         CallEnds(c, n, kind, report), NEW d \in Client, sp_state[d] \in DataState,
         sp_state'[d] = "SS_SERVER", NEW k \in Kind, sp_data[d] \in Address
  PROVE  timers'[d][<<sp_data[d], k>>] = 0
<1> DEFINE p == <<n, kind>>
           q == <<sp_data[d], k>>
           D == Address \X Kind
<1>1. /\ sp_state' = [sp_state EXCEPT ![c] = "SS_SERVER"] /\ sp_state[c] # "SS_INIT"
      /\ timers' = [timers EXCEPT ![c][p] = @ - 1] /\ timers[c][p] > 0
  BY DEF CallEnds, EndCall
<1>2. sp_state \in [Client -> SpcState] /\ timers \in [Client -> [D -> Nat]] /\ p \in D /\ q \in D
  BY DEF Base, TypeInv, TypeOK, CliTypeOK
<1>3. d = c
  BY <1>1, <1>2 DEF DataState
<1>4. OwnTimers(c)
  BY <1>1 DEF Orderly, Watched
<1> HIDE DEF p, q
<1>5. timers[c][p] = 1 /\ \A r \in D : timers[c][r] > 0 => r = p
  BY <1>1, <1>2, <1>4 DEF OwnTimers
<1>6. timers'[c][q] = IF q = p THEN timers[c][p] - 1 ELSE timers[c][q]
  BY <1>1, <1>2, TimerType DEF Base
<1> HIDE DEF D
<1>7. timers'[c][q] = 0
  BY <1>2, <1>5, <1>6
<1>8. QED  BY <1>3, <1>7 DEF q

(* Only a timeout takes a client from a call back to SS_SERVER.             *)
LEMMA OnlyCallEnds ==
  ASSUME Base, ServerStep \/ ClientStep \/ Stutters, NEW d \in Client, sp_state[d] \in DataState,
         sp_state'[d] = "SS_SERVER"
  PROVE  \E c \in Client, n \in Address, kind \in Kind, report \in SpProto : CallEnds(c, n, kind, report)
<1>0. /\ sp_state \in [Client -> SpcState] /\ sp_state[d] \notin {"SS_INIT", "SS_SERVER"}
      /\ "SS_SERVER" \notin DataState /\ sp_state' # sp_state
  BY DEF Base, TypeInv, TypeOK, CliTypeOK, DataState
<1>1. CASE ServerStep \/ Stutters
  BY <1>0, <1>1, ServerStepKeepsClients DEF Stutters, vars, cliVars
<1>2. CASE ClientStep
  <2>1. CASE \E c \in Client, s \in Conns : Connects(c, s)
    BY <1>0, <2>1 DEF Connects
  <2>2. CASE \E c \in Client : Updates(c) \/ Disobeys(c)
    BY <1>0, <2>2 DEF Updates, UpdateRegistration, Disobeys, cliVars
  <2>3. CASE \E c \in Client : Dies(c) \/ Disconnects(c)
    BY <1>0, <2>3 DEF Dies, ProcessEnds, Disconnects, spc_state2init
  <2>4. CASE \E c \in Client, n \in Address, kind \in Kind, state \in DataState : Obeys(c, n, kind, state)
    <3>1. PICK c \in Client, state \in DataState : sp_state' = [sp_state EXCEPT ![c] = state]
      BY <2>4 DEF Obeys
    <3>2. QED  BY <1>0, <3>1
  <2>5. CASE \E c \in Client, n \in Address : Stops(c, n)
    BY <1>0, <2>5 DEF Stops, StopSending
  <2>6. CASE \E c \in Client, n \in Address, kind \in Kind : Expires(c, n, kind)
    BY <1>0, <2>6 DEF Expires, TimerExpires
  <2>7. CASE \E c \in Client, id \in Ids : Restarts(c, id)
    BY <1>0, <2>7 DEF Restarts, ClientRestarts, ClientStarts
  <2>8. QED  BY <1>2, <2>1, <2>2, <2>3, <2>4, <2>5, <2>6, <2>7 DEF ClientStep
<1>3. QED  BY <1>1, <1>2

(* Under the same condition a call is ended by the timeout that was set for *)
(* it ("How long to rcv"). The condition is what matters: spc_state2init    *)
(* leaves the timeout of a call registered when the server closes the       *)
(* connection, and with a server that starts again the property is false.   *)
THEOREM OwnTimeoutWhenUndisturbed ==
  ASSUME Undisturbed
  PROVE  Spec => OwnTimeoutEndsCall
<1> DEFINE Ends_ == \A c \in alive \cap alive' :
                      (sp_state[c] \in DataState /\ sp_state'[c] = "SS_SERVER") =>
                        timers'[c][<<sp_data[c], KindOf(sp_state[c])>>] = 0
<1>1. Base /\ ClientCalls /\ Orderly /\ [Next]_vars => [Ends_]_vars
  <2>1. SUFFICES ASSUME Base, ClientCalls, Orderly, [Next]_vars, NEW c \in alive,
                        sp_state[c] \in DataState, sp_state'[c] = "SS_SERVER"
                 PROVE  timers'[c][<<sp_data[c], KindOf(sp_state[c])>>] = 0
    OBVIOUS
  <2>2. c \in Client
    BY <2>1 DEF Base, TypeInv, TypeOK, CliTypeOK
  <2>3. sp_data[c] \in Address
    BY <2>1, <2>2 DEF ClientCalls, CallOf
  <2>4. PICK d \in Client, n \in Address, k \in Kind, report \in SpProto : CallEnds(d, n, k, report)
    BY <2>1, <2>2, OnlyCallEnds, Flat DEF Base
  <2>5. KindOf(sp_state[c]) \in Kind
    BY DEF KindOf, Kind
  <2>6. QED  BY <2>1, <2>2, <2>3, <2>4, <2>5, CallEndsTimers
<1>2. QED  BY <1>1, BaseInvariant, CallsInvariant, OrderlyInvariant, PTL DEF Spec, OwnTimeoutEndsCall
=============================================================================
