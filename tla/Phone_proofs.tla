----------------------------- MODULE Phone_proofs ------------------------------
(***************************************************************************)
(* First the end of a sphone program for every set of modules that         *)
(* register exit functions, when one signal is handled (SphoneExit; with   *)
(* two, the handler of the second walks over the list again while that of  *)
(* the first is interrupted: HandlersOnce is false).  The programs phone,  *)
(* send and rcv keep what is proved of the exit functions alone: every     *)
(* step of theirs is one of SphoneExit, leaves its state unchanged, or     *)
(* ends the process.  Then the objects: main() is a long list of steps, so *)
(* first what matters of the three lists is shown part by part (Built),    *)
(* and the invariant (ObjectInv) rests on that.                            *)
(***************************************************************************)
EXTENDS Phone, SequenceTheorems, FiniteSetTheorems, TLAPS

OneSignal == \A s, t \in Signals : s = t

-----------------------------------------------------------------------------
(* The inductive invariant *)

TypeOK ==
  /\ Err_handler \in Seq([eh_mod : Modules, eh_fn : BOOLEAN, nr : Nat])
  /\ frames \in Seq([kind : {"error"} \cup Signals, eh : Nat])
  /\ main_pc = "linked" => Err_handler # <<>>
  /\ sphone_exit \in Nat
  /\ calls \in [Modules -> Nat]

\* exit_register puts each module's entry, once, before the older ones.
ListOrder ==
  /\ \A i \in DOMAIN Err_handler : Err_handler[i].nr = Len(Err_handler) - i + 1
  /\ \A i, j \in DOMAIN Err_handler : i # j => Err_handler[i].eh_mod # Err_handler[j].eh_mod

\* At most one walk over the list is in progress; it is sphone_verror's if
\* sphone_exit is set, or else the signal handler's.
OneWalk ==
  /\ Len(frames) <= 1
  /\ Running /\ frames # <<>> => (frames[1].kind = "error" <=> sphone_exit > 0)

\* Before a walk no exit function has been called, during the walk those
\* before its place, and after it all of them.
CallsMatch ==
  /\ \A m \in Modules \ Registered : calls[m] = 0
  /\ frames = <<>> => \/ \A m \in Modules : calls[m] = 0
                      \/ sphone_exit > 0 /\ \A m \in Registered : calls[m] = 1
  /\ frames # <<>> /\ proc # "crashed" =>
       /\ frames[1].eh \in 1 .. Len(Err_handler) + 1
       /\ \A i \in DOMAIN Err_handler :
            calls[Err_handler[i].eh_mod] = IF i < frames[1].eh THEN 1 ELSE 0

ExitInv == TypeOK /\ ListOrder /\ OneWalk /\ CallsMatch /\ HandlersOnce

-----------------------------------------------------------------------------
(* One lemma per kind of step *)

(* Facts about the two lists that the steps need.                          *)
LEMMA ListFacts ==
  ASSUME TypeOK
  PROVE  /\ Len(Err_handler) \in Nat /\ DOMAIN Err_handler = 1 .. Len(Err_handler)
         /\ \A i \in DOMAIN Err_handler :
              Err_handler[i] \in [eh_mod : Modules, eh_fn : BOOLEAN, nr : Nat]
         /\ Len(frames) \in Nat /\ DOMAIN frames = 1 .. Len(frames)
         /\ frames # <<>> => /\ 1 \in DOMAIN frames
                             /\ frames[1] \in [kind : {"error"} \cup Signals, eh : Nat]
<1>1. /\ Err_handler \in Seq([eh_mod : Modules, eh_fn : BOOLEAN, nr : Nat])
      /\ frames \in Seq([kind : {"error"} \cup Signals, eh : Nat])
  BY DEF TypeOK
<1>2. /\ Len(Err_handler) \in Nat /\ DOMAIN Err_handler = 1 .. Len(Err_handler)
      /\ Len(frames) \in Nat /\ DOMAIN frames = 1 .. Len(frames)
  BY <1>1, LenProperties
<1>3. \A i \in DOMAIN Err_handler :
        Err_handler[i] \in [eh_mod : Modules, eh_fn : BOOLEAN, nr : Nat]
  BY <1>1, <1>2, ElementOfSeq
<1>4. frames # <<>> => Len(frames) \in Nat \ {0}
  BY <1>1, EmptySeq
<1>5. frames # <<>> => 1 \in DOMAIN frames
  BY <1>2, <1>4
<1>6. frames # <<>> => frames[1] \in [kind : {"error"} \cup Signals, eh : Nat]
  BY <1>1, <1>2, <1>5, ElementOfSeq
<1>7. QED  BY <1>2, <1>3, <1>5, <1>6

(* Steps of main() that touch neither the list nor the calls, and the end  *)
(* of the process.                                                         *)
LEMMA PlainStep ==
  ASSUME ExitInv, UNCHANGED <<Err_handler, frames, calls>>,
         sphone_exit' = sphone_exit \/ (frames = <<>> /\ sphone_exit' = sphone_exit + 1)
           \/ (~Running' /\ sphone_exit' = sphone_exit + 1),
         proc' = proc \/ ~Running',
         main_pc' = "linked" => main_pc = "linked",
         proc = "crashed" => proc' = "crashed"
  PROVE  ExitInv'
<1>1. sphone_exit \in Nat /\ sphone_exit' \in Nat /\ sphone_exit' >= sphone_exit
  BY DEF ExitInv, TypeOK
<1>2. TypeOK' /\ ListOrder' /\ HandlersOnce'
  BY <1>1 DEF ExitInv, TypeOK, ListOrder, HandlersOnce
<1>3. OneWalk'
  BY <1>1 DEF ExitInv, OneWalk, Running
<1>4. CallsMatch'
  BY <1>1 DEF ExitInv, CallsMatch, Registered
<1>5. QED  BY <1>2, <1>3, <1>4 DEF ExitInv

(* exit_register links an entry: no exit function has been called yet.     *)
LEMMA LinkInv ==
  ASSUME ExitInv, NEW m \in Modules, Link(m)
  PROVE  ExitInv'
<1> DEFINE H == [eh_mod : Modules, eh_fn : BOOLEAN, nr : Nat]
           new == [eh_mod |-> m, eh_fn |-> FALSE, nr |-> Len(Err_handler) + 1]
<1>1. /\ Err_handler \in Seq(H) /\ Len(Err_handler) \in Nat
      /\ DOMAIN Err_handler = 1 .. Len(Err_handler)
  BY ListFacts DEF ExitInv, TypeOK
<1>2. /\ frames = <<>> /\ sphone_exit = 0 /\ m \notin Registered
      /\ Err_handler' = <<new>> \o Err_handler
      /\ UNCHANGED <<frames, sphone_exit, proc, calls>>
  BY DEF Link, InMain
<1>3. new \in H
  BY <1>1
<1>4. /\ Err_handler' \in Seq(H) /\ Len(Err_handler') = Len(Err_handler) + 1
      /\ Err_handler'[1] = new
      /\ \A i \in 2 .. Len(Err_handler) + 1 : Err_handler'[i] = Err_handler[i - 1]
  <2> HIDE DEF new, H
  <2>1. <<new>> \in Seq(H) /\ Len(<<new>>) = 1 /\ <<new>>[1] = new
    BY <1>3
  <2>2. /\ <<new>> \o Err_handler \in Seq(H)
        /\ Len(<<new>> \o Err_handler) = Len(<<new>>) + Len(Err_handler)
        /\ \A i \in 1 .. Len(<<new>>) + Len(Err_handler) : (<<new>> \o Err_handler)[i] =
             IF i <= Len(<<new>>) THEN <<new>>[i] ELSE Err_handler[i - Len(<<new>>)]
    BY <1>1, <2>1, ConcatProperties
  <2>3. QED  BY <1>1, <1>2, <2>1, <2>2
<1>5. /\ DOMAIN Err_handler' = 1 .. Len(Err_handler) + 1 /\ Err_handler' # <<>>
      /\ \A i \in DOMAIN Err_handler' :
           \/ i = 1 /\ Err_handler'[i] = new
           \/ i > 1 /\ i - 1 \in DOMAIN Err_handler /\ Err_handler'[i] = Err_handler[i - 1]
  BY <1>1, <1>4, LenProperties, EmptySeq
<1>6. \A x \in Modules : calls[x] = 0
  BY <1>2 DEF ExitInv, CallsMatch
<1>7. TypeOK'
  BY <1>2, <1>4, <1>5 DEF ExitInv, TypeOK
<1>8. \A i \in DOMAIN Err_handler : /\ Err_handler[i].eh_mod # m
                                  /\ Err_handler[i].nr = Len(Err_handler) - i + 1
  BY <1>2 DEF Registered, ExitInv, ListOrder
<1>9. ListOrder'
  <2>1. \A i \in DOMAIN Err_handler' : Err_handler'[i].nr = Len(Err_handler') - i + 1
    <3> SUFFICES ASSUME NEW i \in DOMAIN Err_handler'
                 PROVE  Err_handler'[i].nr = Len(Err_handler) + 1 - i + 1
      BY <1>4
    <3>1. CASE i = 1
      BY <1>1, <1>4, <3>1
    <3>2. CASE i # 1
      <4>1. i \in Int /\ i - 1 \in DOMAIN Err_handler /\ Err_handler'[i] = Err_handler[i - 1]
        BY <1>5, <3>2
      <4>2. Err_handler[i - 1].nr = Len(Err_handler) - (i - 1) + 1
        BY <1>8, <4>1
      <4>3. QED  BY <1>1, <4>1, <4>2
    <3>3. QED  BY <3>1, <3>2
  <2>2. ASSUME NEW i \in DOMAIN Err_handler', NEW j \in DOMAIN Err_handler', i # j
        PROVE  Err_handler'[i].eh_mod # Err_handler'[j].eh_mod
    <3>1. CASE i = 1
      BY <1>5, <1>8, <2>2, <3>1
    <3>2. CASE j = 1
      BY <1>5, <1>8, <2>2, <3>2
    <3>3. CASE i # 1 /\ j # 1
      <4>1. i - 1 # j - 1
        BY <1>1, <1>5, <2>2
      <4>2. QED  BY <1>5, <3>3, <4>1 DEF ExitInv, ListOrder
    <3>4. QED  BY <3>1, <3>2, <3>3
  <2>3. QED  BY <2>1, <2>2 DEF ListOrder
<1>10. CallsMatch'
  BY <1>2, <1>6 DEF CallsMatch
<1>11. QED
  BY <1>2, <1>7, <1>9, <1>10 DEF ExitInv, OneWalk, HandlersOnce, Running

(* exit_register sets the function of the entry that it has linked.        *)
LEMMA SetFunctionInv ==
  ASSUME ExitInv, SetFunction
  PROVE  ExitInv'
<1> DEFINE H == [eh_mod : Modules, eh_fn : BOOLEAN, nr : Nat]
<1>1. /\ Err_handler \in Seq(H) /\ Len(Err_handler) \in Nat
      /\ DOMAIN Err_handler = 1 .. Len(Err_handler) /\ Err_handler # <<>>
      /\ \A i \in DOMAIN Err_handler : Err_handler[i] \in H
  BY ListFacts DEF ExitInv, TypeOK, SetFunction
<1>2. 1 \in DOMAIN Err_handler
  BY <1>1, EmptySeq
<1>3. Err_handler' = [Err_handler EXCEPT ![1] = [Err_handler[1] EXCEPT !.eh_fn = TRUE]]
  BY <1>2 DEF SetFunction
<1>4. [Err_handler[1] EXCEPT !.eh_fn = TRUE] \in H
  BY <1>1, <1>2
<1>5. /\ Err_handler' \in Seq(H) /\ Len(Err_handler') = Len(Err_handler)
      /\ DOMAIN Err_handler' = DOMAIN Err_handler
      /\ \A i \in DOMAIN Err_handler : /\ Err_handler'[i].eh_mod = Err_handler[i].eh_mod
                                      /\ Err_handler'[i].nr = Err_handler[i].nr
  <2>1. Err_handler' \in Seq(H) /\ Len(Err_handler') = Len(Err_handler)
    BY <1>1, <1>2, <1>3, <1>4, ExceptSeq
  <2>2. QED  BY <1>1, <1>2, <1>3, <2>1
<1>6. UNCHANGED <<frames, sphone_exit, proc, calls>> /\ main_pc' = "init"
  BY DEF SetFunction
<1>7. Registered' = Registered
  BY <1>5 DEF Registered
<1>8. TypeOK'
  BY <1>5, <1>6 DEF ExitInv, TypeOK
<1>9. ListOrder'
  BY <1>5 DEF ExitInv, ListOrder
<1>10. CallsMatch'
  BY <1>5, <1>6, <1>7 DEF ExitInv, CallsMatch
<1>11. QED
  BY <1>6, <1>8, <1>9, <1>10 DEF ExitInv, OneWalk, HandlersOnce, Running

(* A walk begins: no other is in progress and nothing has been called.     *)
LEMMA EnterInv ==
  ASSUME ExitInv, NEW kind \in {"error"} \cup Signals, Enter(kind),
         frames = <<>>, sphone_exit = 0, sphone_exit' \in Nat,
         kind = "error" <=> sphone_exit' > 0,
         UNCHANGED <<Err_handler, main_pc, proc, calls>>
  PROVE  ExitInv'
<1> DEFINE f == [kind |-> kind, eh |-> 1]
<1>1. frames' = <<f>> /\ f \in [kind : {"error"} \cup Signals, eh : Nat]
  BY DEF Enter
<1>2. /\ frames' \in Seq([kind : {"error"} \cup Signals, eh : Nat])
      /\ Len(frames') = 1 /\ frames'[1] = f /\ frames' # <<>>
  BY <1>1
<1>3. \A m \in Modules : calls[m] = 0
  BY DEF ExitInv, CallsMatch
<1>4. /\ Len(Err_handler) \in Nat /\ DOMAIN Err_handler = 1 .. Len(Err_handler)
      /\ \A i \in DOMAIN Err_handler : Err_handler[i].eh_mod \in Modules
  BY ListFacts DEF ExitInv
<1>5. CallsMatch'
  BY <1>2, <1>3, <1>4 DEF CallsMatch, Registered
<1>6. TypeOK'
  BY <1>2 DEF ExitInv, TypeOK
<1>7. QED
  BY <1>2, <1>5, <1>6 DEF ExitInv, ListOrder, OneWalk, HandlersOnce

(* The walk calls the function at its place, which it has not called yet,  *)
(* and no other entry is of the same module.                               *)
LEMMA CallHandlerInv ==
  ASSUME ExitInv, CallHandler
  PROVE  ExitInv'
<1> DEFINE F == [kind : {"error"} \cup Signals, eh : Nat]
           k == frames[1].eh
           h == Err_handler[frames[1].eh]
<1>1. /\ frames \in Seq(F) /\ frames # <<>> /\ 1 \in DOMAIN frames /\ frames[1] \in F
      /\ Len(frames) = 1 /\ DOMAIN frames = 1 .. 1
  <2>1. frames \in Seq(F) /\ frames # <<>> /\ Len(frames) <= 1
    BY DEF ExitInv, TypeOK, CallHandler, OneWalk
  <2>2. /\ Len(frames) \in Nat /\ DOMAIN frames = 1 .. Len(frames)
        /\ 1 \in DOMAIN frames /\ frames[1] \in F
    BY <2>1, ListFacts DEF ExitInv
  <2>3. Len(frames) = 1
    BY <2>1, <2>2
  <2>4. QED  BY <2>1, <2>2, <2>3
<1>2. frames' = [frames EXCEPT ![1] = [frames[1] EXCEPT !.eh = @ + 1]]
  BY <1>1 DEF CallHandler
<1>3. [frames[1] EXCEPT !.eh = @ + 1] \in F
  BY <1>1
<1>4. /\ frames' \in Seq(F) /\ Len(frames') = 1 /\ frames' # <<>>
      /\ frames'[1].eh = k + 1 /\ frames'[1].kind = frames[1].kind
  <2>1. frames' \in Seq(F) /\ Len(frames') = 1
    BY <1>1, <1>2, <1>3, ExceptSeq
  <2>2. frames' # <<>>
    BY <2>1, EmptySeq
  <2>3. QED  BY <1>1, <1>2, <2>1, <2>2
<1>5. /\ k \in 1 .. Len(Err_handler) /\ Len(Err_handler) \in Nat
      /\ DOMAIN Err_handler = 1 .. Len(Err_handler)
      /\ \A i \in DOMAIN Err_handler : Err_handler[i].eh_mod \in Modules
      /\ UNCHANGED <<Err_handler, main_pc, sphone_exit>>
  BY <1>1, ListFacts DEF ExitInv, CallsMatch, CallHandler, Running
<1>6. \A i \in DOMAIN Err_handler :
        calls[Err_handler[i].eh_mod] = IF i < k THEN 1 ELSE 0
  BY <1>1 DEF ExitInv, CallsMatch, CallHandler, Running
<1>7. TypeOK' /\ OneWalk' /\ ListOrder'
  <2>1. calls' \in [Modules -> Nat]
    <3>1. calls \in [Modules -> Nat] /\ h.eh_mod \in Modules
      BY <1>5 DEF ExitInv, TypeOK
    <3>2. calls' = calls \/ calls' = [calls EXCEPT ![h.eh_mod] = @ + 1]
      BY DEF CallHandler
    <3> HIDE DEF h
    <3>3. QED  BY <3>1, <3>2
  <2>2. QED
    BY <1>1, <1>4, <1>5, <2>1
       DEF ExitInv, TypeOK, OneWalk, ListOrder, Running, CallHandler
<1>8. CASE h.eh_fn
  <2>1. /\ calls' = [calls EXCEPT ![h.eh_mod] = @ + 1] /\ proc' = proc
        /\ calls \in [Modules -> Nat] /\ h.eh_mod \in Modules /\ calls[h.eh_mod] = 0
    BY <1>5, <1>6, <1>8 DEF CallHandler, ExitInv, TypeOK
  <2>2. \A m \in Modules : calls'[m] = IF m = h.eh_mod THEN 1 ELSE calls[m]
    BY <2>1
  <2>3. \A i \in DOMAIN Err_handler : Err_handler[i].eh_mod = h.eh_mod <=> i = k
    BY <1>5 DEF ExitInv, ListOrder
  <2>4. \A i \in DOMAIN Err_handler :
          calls'[Err_handler[i].eh_mod] = IF i < k + 1 THEN 1 ELSE 0
    BY <1>5, <1>6, <2>2, <2>3
  <2>5. h.eh_mod \in Registered
    BY <1>5 DEF Registered
  <2>6. CallsMatch'
    BY <1>4, <1>5, <2>2, <2>4, <2>5 DEF CallsMatch, ExitInv, Registered
  <2>7. HandlersOnce'
    BY <2>2 DEF ExitInv, HandlersOnce
  <2>8. QED  BY <1>7, <2>6, <2>7 DEF ExitInv
<1>9. CASE ~h.eh_fn
  <2>1. proc' = "crashed" /\ calls' = calls
    BY <1>9 DEF CallHandler
  <2>2. QED
    BY <1>4, <1>5, <1>7, <2>1 DEF ExitInv, CallsMatch, HandlersOnce, Registered
<1>10. QED  BY <1>8, <1>9

(* The end of a walk: all exit functions have been called once, and either *)
(* sphone_exit is set or the process ends.                                 *)
LEMMA EndWalkInv ==
  ASSUME ExitInv, EndWalk
  PROVE  ExitInv'
<1>1. /\ frames # <<>> /\ Len(frames) = 1
      /\ frames[1].eh = Len(Err_handler) + 1 /\ Running
      /\ UNCHANGED <<Err_handler, main_pc, calls>>
  BY ListFacts DEF ExitInv, OneWalk, EndWalk
<1>2. CASE frames[1].kind = "error"
  <2>1. frames' = Tail(frames) /\ UNCHANGED <<sphone_exit, proc>>
    BY <1>2 DEF EndWalk
  <2>2. /\ frames' \in Seq([kind : {"error"} \cup Signals, eh : Nat])
        /\ Len(frames') = 0 /\ frames' = <<>>
    <3>1. /\ frames' \in Seq([kind : {"error"} \cup Signals, eh : Nat])
          /\ Len(frames') = 0
      BY <1>1, <2>1, HeadTailProperties DEF ExitInv, TypeOK
    <3>2. QED  BY <3>1, EmptySeq
  <2>3. sphone_exit > 0
    BY <1>1, <1>2 DEF ExitInv, OneWalk
  <2>4. \A i \in DOMAIN Err_handler : calls[Err_handler[i].eh_mod] = 1
    <3>1. /\ Len(Err_handler) \in Nat /\ DOMAIN Err_handler = 1 .. Len(Err_handler)
      BY ListFacts DEF ExitInv
    <3>2. QED  BY <1>1, <3>1 DEF ExitInv, CallsMatch, Running
  <2>5. CallsMatch'
    BY <1>1, <2>1, <2>2, <2>3, <2>4 DEF ExitInv, CallsMatch, Registered
  <2>6. TypeOK'
    BY <1>1, <2>1, <2>2 DEF ExitInv, TypeOK
  <2>7. OneWalk'
    BY <2>2 DEF OneWalk
  <2>8. QED
    BY <1>1, <2>1, <2>5, <2>6, <2>7 DEF ExitInv, ListOrder, HandlersOnce
<1>3. CASE frames[1].kind # "error"
  <2>1. sphone_exit' = sphone_exit + 1 /\ proc' = "exited" /\ frames' = frames
    BY <1>3 DEF EndWalk
  <2>2. QED  BY <1>1, <2>1, PlainStep DEF Running
<1>4. QED  BY <1>2, <1>3

(* sphone_verror: the second time, just exit.                              *)
LEMMA VerrorInv ==
  ASSUME ExitInv, sphone_verror
  PROVE  ExitInv'
<1>1. sphone_exit \in Nat
  BY DEF ExitInv, TypeOK
<1>2. CASE sphone_exit > 0
  <2>1. /\ proc' = "exited" /\ Running
        /\ UNCHANGED <<Err_handler, frames, main_pc, sphone_exit, calls>>
    BY <1>2 DEF sphone_verror, exit0, InMain
  <2>2. QED  BY <2>1, PlainStep DEF Running
<1>3. CASE sphone_exit = 0
  <2>1. /\ frames = <<>> /\ sphone_exit' = 1 /\ Enter("error")
        /\ UNCHANGED <<Err_handler, main_pc, proc, calls>>
    BY <1>3 DEF sphone_verror, InMain
  <2>2. QED  BY <1>3, <2>1, EnterInv
<1>4. QED  BY <1>1, <1>2, <1>3

(* A signal interrupts sphone_verror's walk and ends the process, or comes *)
(* when no walk is in progress: the one signal is blocked during its own.  *)
LEMMA SignalInv ==
  ASSUME ExitInv, OneSignal, NEW sig \in Signals, sphone_signal_exit(sig)
  PROVE  ExitInv'
<1>1. sphone_exit \in Nat
  BY DEF ExitInv, TypeOK
<1>2. CASE sphone_exit > 0
  <2>1. /\ proc' = "exited" /\ Running
        /\ UNCHANGED <<Err_handler, frames, main_pc, sphone_exit, calls>>
    BY <1>2 DEF sphone_signal_exit, exit0
  <2>2. QED  BY <2>1, PlainStep DEF Running
<1>3. CASE sphone_exit = 0
  <2>1. frames = <<>>
    <3> SUFFICES ASSUME frames # <<>> PROVE FALSE
      OBVIOUS
    <3>1. 1 \in DOMAIN frames /\ frames[1].kind \in {"error"} \cup Signals
      BY ListFacts DEF ExitInv
    <3>2. frames[1].kind # "error"
      BY <1>3 DEF ExitInv, OneWalk, sphone_signal_exit
    <3>3. frames[1].kind # sig
      BY <3>1 DEF sphone_signal_exit
    <3>4. QED  BY <3>1, <3>2, <3>3 DEF OneSignal
  <2>2. /\ Enter(sig) /\ sphone_exit' = sphone_exit
        /\ UNCHANGED <<Err_handler, main_pc, proc, calls>>
    BY <1>3 DEF sphone_signal_exit
  <2>3. sig # "error"
    BY ExitAssumption
  <2>4. sig \in {"error"} \cup Signals /\ sphone_exit' \in Nat /\ ~(sphone_exit' > 0)
    BY <1>3, <2>2
  <2>5. QED  BY <1>3, <2>1, <2>2, <2>3, <2>4, EnterInv
<1>4. QED  BY <1>1, <1>2, <1>3

LEMMA InitInv == Init => ExitInv
<1> SUFFICES ASSUME Init PROVE ExitInv
  OBVIOUS
<1>1. TypeOK /\ ListOrder
  BY DEF Init, TypeOK, ListOrder
<1>2. QED
  BY <1>1 DEF Init, ExitInv, OneWalk, CallsMatch, HandlersOnce

LEMMA NextInv ==
  ASSUME OneSignal, ExitInv, [Next]_vars
  PROVE  ExitInv'
<1>1. CASE StartLoop
  BY <1>1, PlainStep DEF StartLoop, InMain, Running
<1>2. CASE Callback
  BY <1>2, PlainStep DEF Callback, InMain, Running
<1>3. ASSUME NEW rc \in {0, -1}, Return(rc) PROVE ExitInv'
  BY <1>3, PlainStep DEF Return, InMain, Running
<1>4. CASE MainReturns
  BY <1>4, PlainStep DEF MainReturns, exit0, InMain, Running
<1>5. CASE UNCHANGED vars
  BY <1>5, PlainStep DEF vars
<1>6. QED
  BY <1>1, <1>2, <1>3, <1>4, <1>5, LinkInv, SetFunctionInv, VerrorInv, SignalInv,
     CallHandlerInv, EndWalkInv DEF Next

-----------------------------------------------------------------------------
(* Results *)

(* The invariant gives the order of the calls.                             *)
LEMMA InvReverseOrder == ExitInv => ReverseOrder
<1> SUFFICES ASSUME ExitInv, proc # "crashed",
                    NEW i \in DOMAIN Err_handler, NEW j \in DOMAIN Err_handler,
                    Err_handler[i].nr > Err_handler[j].nr,
                    calls[Err_handler[j].eh_mod] > 0
             PROVE  calls[Err_handler[i].eh_mod] > 0
  BY DEF ReverseOrder
<1>1. /\ Len(Err_handler) \in Nat /\ DOMAIN Err_handler = 1 .. Len(Err_handler)
      /\ Err_handler[i].eh_mod \in Modules /\ Err_handler[j].eh_mod \in Modules
  BY ListFacts DEF ExitInv
<1>2. i < j
  BY <1>1 DEF ExitInv, ListOrder
<1>3. CASE frames = <<>>
  BY <1>1, <1>3 DEF ExitInv, CallsMatch, Registered
<1>4. CASE frames # <<>>
  <2>1. frames[1].eh \in Int
    BY <1>4, ListFacts DEF ExitInv
  <2>2. QED  BY <1>1, <1>2, <1>4, <2>1 DEF ExitInv, CallsMatch
<1>5. QED  BY <1>3, <1>4

(* With one signal, no exit function is called twice, whatever the signal  *)
(* interrupts and whichever callback fails.                                *)
THEOREM ExitFunctionsOnce ==
  ASSUME OneSignal
  PROVE  Spec => []HandlersOnce
<1>1. ExitInv /\ [Next]_vars => ExitInv'
  BY NextInv
<1>2. ExitInv => HandlersOnce
  BY DEF ExitInv
<1>3. QED  BY <1>1, <1>2, InitInv, PTL DEF Spec

(* With one signal, exit functions are called in the reverse order of      *)
(* registration.                                                           *)
THEOREM ExitInReverse ==
  ASSUME OneSignal
  PROVE  Spec => []ReverseOrder
<1>1. ExitInv /\ [Next]_vars => ExitInv'
  BY NextInv
<1>2. QED  BY <1>1, InvReverseOrder, InitInv, PTL DEF Spec

-----------------------------------------------------------------------------
(* The programs *)

(* The process ends and leaves the rest as it is (exit in main() after a   *)
(* silent failure, a crash in a failing ra_open).                          *)
LEMMA ProcessEnds ==
  ASSUME ExitInv, Running, proc' \in {"exited", "crashed"},
         UNCHANGED <<Err_handler, frames, main_pc, sphone_exit, calls>>
  PROVE  ExitInv'
  BY PlainStep DEF Running

-----------------------------------------------------------------------------
(* The steps of main() *)

\* What rcv_session_exit and send_session_exit find in the fields.
RcvOwned  == {"cp_audio_r", "cp_nw_r", "rtp_r", "rrs", "ca_r", "pa", "playout"}
SendOwned == {"cp_audio_s", "cp_nw_s", "rtp_s", "rss", "ca_s", "ra"}
Owned(s)  == IF s = "rcv_session" THEN RcvOwned ELSE SendOwned

\* What main() allocates and calls.
Names ==
  RcvOwned \cup SendOwned
  \cup {"filename", "rtp_init", "silentbuf", "pa_start", "ra_start", "napt_probing",
        "rtcp_rcv_init", "rtcp_send_init", "rcv_start", "duration", "logfile"}

\* Calls that may fail and allocations, the sockets, and what is attached to
\* a session: the kinds of steps that most of main() is made of.
FreshSet ==
  [op : {"new", "call"}, s : {"none"}, o : Names]
  \cup [op : {"sockets"}, s : {"none"}, o : {"rtp_r", "rtp_s"}]
PlainSet ==
  FreshSet
  \cup [op : {"attach"}, s : {"rcv_session"}, o : RcvOwned]
  \cup [op : {"attach"}, s : {"send_session"}, o : SendOwned]
  \cup [op : {"register"}, s : Session, o : Session]
OpenSet == [op : {"open"}, s : {"none"}, o : {"pa", "ra"}]
CopySet == [op : {"memcpy"}, s : {"rtp_s"}, o : {"rtp_r"}]

SetupSet == FreshSet \cup CopySet
RestSet  == PlainSet \cup OpenSet
StepSet  == RestSet \cup CopySet

\* x is a step of the program s.
Has(s, x) == \E i \in DOMAIN s : s[i] = x

\* Object o becomes the session's, and the exit function of the session is known.
KeepsIn(s, o) == {Step("register", s, s), Step("attach", s, o)}

\* Only the objects of S are opened, each of them once.
Opens(s, S) ==
  /\ s \in Seq(StepSet)
  /\ \A i \in DOMAIN s : s[i].op = "open" => s[i].o \in S
  /\ \A i, j \in DOMAIN s : (s[i].op = "open" /\ s[j].op = "open" /\ i # j) => s[i].o # s[j].o

\* From step n on: before rtp_send_session_init nothing is attached and no exit
\* function registered, and after it no RTP session is copied.
CopiesFrom(s, n) ==
  \E k \in DOMAIN s :
    /\ k >= n /\ s[k] = Step("sockets", "none", "rtp_s")
    /\ \A i \in DOMAIN s : (n <= i /\ i < k) => s[i] \in SetupSet
    /\ \A i \in DOMAIN s : i > k => s[i] \in RestSet

\* A program, or the beginning of one: it keeps the sockets of the sessions
\* apart, opens S and has the steps H.
Built(s, S, H) ==
  /\ s \in Seq(RestSet) \/ CopiesFrom(s, 1)
  /\ Opens(s, S)
  /\ \A x \in H : Has(s, x)

(* Two parts of a program.                                                 *)
LEMMA Concat ==
  ASSUME NEW S, NEW s \in Seq(S), NEW t \in Seq(S)
  PROVE  /\ s \o t \in Seq(S) /\ Len(s) \in Nat /\ Len(t) \in Nat
         /\ DOMAIN s = 1 .. Len(s) /\ DOMAIN t = 1 .. Len(t)
         /\ DOMAIN (s \o t) = 1 .. Len(s) + Len(t)
         /\ \A i \in DOMAIN s : (s \o t)[i] = s[i]
         /\ \A i \in DOMAIN (s \o t) :
              i \notin DOMAIN s => i - Len(s) \in DOMAIN t /\ (s \o t)[i] = t[i - Len(s)]
  OBVIOUS

(* A program of certain steps is one of those and others.                  *)
LEMMA SeqMono ==
  ASSUME NEW S, NEW T, S \subseteq T, NEW s \in Seq(S)
  PROVE  s \in Seq(T)
  OBVIOUS

(* How the kinds of steps are contained in each other.                     *)
LEMMA Kinds ==
  /\ FreshSet \subseteq PlainSet /\ FreshSet \subseteq SetupSet
  /\ PlainSet \subseteq RestSet /\ OpenSet \subseteq RestSet /\ RestSet \subseteq StepSet
  /\ SetupSet \subseteq StepSet /\ PlainSet \subseteq StepSet
  BY DEF FreshSet, PlainSet, SetupSet, RestSet, StepSet

LEMMA SetupConcat == \A s, t \in Seq(SetupSet) : s \o t \in Seq(SetupSet)
  BY Concat

LEMMA PlainConcat == \A s, t \in Seq(PlainSet) : s \o t \in Seq(PlainSet)
  BY Concat

LEMMA RestConcat == \A s, t \in Seq(RestSet) : s \o t \in Seq(RestSet)
  BY Concat

(* A step stays one when others follow.                                    *)
LEMMA HasConcat ==
  ASSUME NEW s \in Seq(StepSet), NEW t \in Seq(StepSet), NEW x
  PROVE  /\ Has(s, x) => Has(s \o t, x)
         /\ t = <<x>> => Has(s \o t, x)
<1>1. Has(s, x) => Has(s \o t, x)
  BY Concat DEF Has
<1>2. ASSUME t = <<x>>  PROVE Has(s \o t, x)
  <2>1. Len(s) + 1 \in DOMAIN (s \o t) /\ (s \o t)[Len(s) + 1] = x
    BY <1>2, Concat
  <2>2. QED  BY <2>1 DEF Has
<1>3. QED  BY <1>1, <1>2

(* Steps that open nothing.                                                *)
LEMMA PlainOpens ==
  ASSUME NEW s \in Seq(SetupSet) \cup Seq(PlainSet)
  PROVE  Opens(s, {})
<1>1. \A x \in SetupSet \cup PlainSet : x.op # "open" /\ x \in StepSet
  BY Kinds DEF SetupSet, PlainSet, FreshSet, CopySet, StepSet, RestSet
<1>2. \A i \in DOMAIN s : s[i] \in SetupSet \cup PlainSet
  BY ElementOfSeq, LenProperties
<1>3. s \in Seq(StepSet)
  BY SeqMono, Kinds
<1>4. QED  BY <1>1, <1>2, <1>3 DEF Opens

(* Two parts that open different objects.                                  *)
LEMMA OpensConcat ==
  ASSUME NEW S, NEW T, S \cap T = {}, NEW s, NEW t, Opens(s, S), Opens(t, T)
  PROVE  Opens(s \o t, S \cup T)
<1> DEFINE u == s \o t
           Part(i) == IF i \in DOMAIN s THEN s[i] ELSE t[i - Len(s)]
<1>1. s \in Seq(StepSet) /\ t \in Seq(StepSet)
  BY DEF Opens
<1>2. /\ u \in Seq(StepSet) /\ Len(s) \in Nat /\ DOMAIN s = 1 .. Len(s)
      /\ DOMAIN u = 1 .. Len(s) + Len(t) /\ Len(t) \in Nat
      /\ \A i \in DOMAIN u : /\ u[i] = Part(i)
                             /\ i \notin DOMAIN s => i - Len(s) \in DOMAIN t
  BY <1>1, Concat
<1> HIDE DEF u
<1>3. \A i \in DOMAIN u : u[i].op = "open" =>
        IF i \in DOMAIN s THEN u[i].o \in S ELSE u[i].o \in T
  BY <1>2 DEF Opens
<1>4. ASSUME NEW i \in DOMAIN u, NEW j \in DOMAIN u, u[i].op = "open", u[j].op = "open", i # j
      PROVE  u[i].o # u[j].o
  <2>1. CASE i \in DOMAIN s /\ j \in DOMAIN s
    BY <1>2, <1>4, <2>1 DEF Opens
  <2>2. CASE i \notin DOMAIN s /\ j \notin DOMAIN s
    <3>1. i - Len(s) # j - Len(s)
      BY <1>2, <1>4
    <3>2. QED  BY <1>2, <1>4, <2>2, <3>1 DEF Opens
  <2>3. CASE i \in DOMAIN s /\ j \notin DOMAIN s
    BY <1>3, <1>4, <2>3
  <2>4. CASE i \notin DOMAIN s /\ j \in DOMAIN s
    BY <1>3, <1>4, <2>4
  <2>5. QED  BY <2>1, <2>2, <2>3, <2>4
<1>5. QED  BY <1>2, <1>3, <1>4 DEF Opens, u

(* An object is opened.                                                    *)
LEMMA OpensOne ==
  ASSUME NEW o \in {"pa", "ra"}
  PROVE  Opens(Open(o), {o}) /\ Open(o) \in Seq(RestSet)
<1> DEFINE x == Step("open", "none", o)
<1>1. x \in OpenSet /\ x.o = o
  BY DEF OpenSet, Step
<1> HIDE DEF x
<1>2. x \in RestSet /\ x \in StepSet
  BY <1>1, Kinds
<1>3. <<x>> \in Seq(RestSet) /\ <<x>> \in Seq(StepSet) /\ DOMAIN <<x>> = {1} /\ <<x>>[1] = x
  BY <1>2
<1>4. Open(o) = <<x>>
  BY DEF Open, x
<1>5. QED  BY <1>1, <1>3, <1>4 DEF Opens

(* The parts of main() that allocate and call.                             *)
LEMMA FreshParts ==
  /\ \A o \in Names : /\ New(o) \in Seq(FreshSet) /\ Call(o) \in Seq(FreshSet)
                       /\ coding_param_init(o) \in Seq(FreshSet)
                       /\ coding_init(o) \in Seq(FreshSet)
                       /\ rtp_session_new(o) \in Seq(FreshSet)
  /\ rtp_init \in Seq(FreshSet) /\ rtp_rcv_session_init \in Seq(FreshSet)
  /\ rtp_send_session_init \in Seq(FreshSet)
  /\ audio_play_init \in Seq(FreshSet) /\ audio_record_init \in Seq(FreshSet)
  /\ pa_start \in Seq(FreshSet) /\ ra_start \in Seq(FreshSet)
  /\ napt_probing \in Seq(FreshSet)
<1> DEFINE F == Seq(FreshSet)
<1>1. \A x \in FreshSet : <<x>> \in F
  OBVIOUS
<1>2. \A o \in Names : Step("new", "none", o) \in FreshSet /\ Step("call", "none", o) \in FreshSet
  BY DEF Step, FreshSet
<1>3. Step("sockets", "none", "rtp_r") \in FreshSet /\ Step("sockets", "none", "rtp_s") \in FreshSet
  BY DEF Step, FreshSet
<1> HIDE DEF F
<1>4. \A o \in Names : New(o) \in F /\ Call(o) \in F
  BY <1>1, <1>2 DEF New, Call
<1>5. \A o \in Names : coding_param_init(o) \in F /\ coding_init(o) \in F /\ rtp_session_new(o) \in F
  BY <1>4 DEF coding_param_init, coding_init, rtp_session_new
<1>6. rtp_rcv_session_init \in F /\ rtp_send_session_init \in F
  BY <1>1, <1>3 DEF rtp_rcv_session_init, rtp_send_session_init
<1>7. /\ rtp_init \in F /\ pa_start \in F /\ ra_start \in F /\ napt_probing \in F
      /\ audio_play_init \in F /\ audio_record_init \in F
  BY <1>4 DEF rtp_init, pa_start, ra_start, napt_probing, audio_play_init, audio_record_init,
              Names, RcvOwned, SendOwned
<1>8. QED  BY <1>4, <1>5, <1>6, <1>7 DEF F

(* The parts that attach something to a session, or register its exit      *)
(* function.                                                               *)
LEMMA PlainParts ==
  /\ \A s \in Seq(FreshSet) : s \in Seq(PlainSet)
  /\ \A o \in RcvOwned : Attach("rcv_session", o) \in Seq(PlainSet)
  /\ \A o \in SendOwned : Attach("send_session", o) \in Seq(PlainSet)
  /\ rcv_session_new \in Seq(PlainSet) /\ send_session_new \in Seq(PlainSet)
  /\ rtcp_rcv_stats_new \in Seq(PlainSet) /\ rtcp_send_stats_new \in Seq(PlainSet)
  /\ playout_init \in Seq(PlainSet)
<1> DEFINE P == Seq(PlainSet)
<1>1. \A x \in PlainSet : <<x>> \in P
  OBVIOUS
<1>2. \A s \in Seq(FreshSet) : s \in P
  BY SeqMono, Kinds
<1>3. \A s, t \in P : s \o t \in P
  BY PlainConcat
<1>4. \A o \in Names : New(o) \in P /\ Call(o) \in P
  BY <1>2, FreshParts
<1> HIDE DEF P
<1>5. \A o \in RcvOwned : Attach("rcv_session", o) \in P
  <2>1. \A o \in RcvOwned : Step("attach", "rcv_session", o) \in PlainSet
    BY DEF Step, PlainSet
  <2>2. QED  BY <1>1, <2>1 DEF Attach
<1>6. \A o \in SendOwned : Attach("send_session", o) \in P
  <2>1. \A o \in SendOwned : Step("attach", "send_session", o) \in PlainSet
    BY DEF Step, PlainSet
  <2>2. QED  BY <1>1, <2>1 DEF Attach
<1>7. rcv_session_new \in P /\ send_session_new \in P
  <2>1. /\ Step("register", "rcv_session", "rcv_session") \in PlainSet
        /\ Step("register", "send_session", "send_session") \in PlainSet
    BY DEF Step, PlainSet, Session
  <2>2. QED  BY <1>1, <2>1 DEF rcv_session_new, send_session_new, Register
<1>8. /\ "rrs" \in RcvOwned /\ "playout" \in RcvOwned /\ "rss" \in SendOwned
      /\ {"rrs", "playout", "rss", "silentbuf"} \subseteq Names
  BY DEF RcvOwned, SendOwned, Names
<1>9. rtcp_rcv_stats_new \in P /\ rtcp_send_stats_new \in P
  BY <1>3, <1>4, <1>5, <1>6, <1>8 DEF rtcp_rcv_stats_new, rtcp_send_stats_new, NewIn
<1>10. playout_init \in P
  <2>1. New("playout") \o Attach("rcv_session", "playout") \in P
    BY <1>3, <1>4, <1>5, <1>8
  <2>2. Call("silentbuf") \in P
    BY <1>4, <1>8
  <2>3. QED  BY <1>3, <2>1, <2>2 DEF playout_init, NewIn
<1>11. QED  BY <1>2, <1>5, <1>6, <1>7, <1>9, <1>10 DEF P

(* The objects of the two sessions.                                        *)
LEMMA RcvAttach ==
  /\ Attach("rcv_session", "cp_audio_r") \in Seq(PlainSet)
  /\ Attach("rcv_session", "cp_nw_r") \in Seq(PlainSet)
  /\ Attach("rcv_session", "rtp_r") \in Seq(PlainSet)
  /\ Attach("rcv_session", "ca_r") \in Seq(PlainSet)
  /\ Attach("rcv_session", "pa") \in Seq(PlainSet)
  BY PlainParts DEF RcvOwned

LEMMA SendAttach ==
  /\ Attach("send_session", "cp_audio_s") \in Seq(PlainSet)
  /\ Attach("send_session", "cp_nw_s") \in Seq(PlainSet)
  /\ Attach("send_session", "rtp_s") \in Seq(PlainSet)
  /\ Attach("send_session", "ca_s") \in Seq(PlainSet)
  /\ Attach("send_session", "ra") \in Seq(PlainSet)
  BY PlainParts DEF SendOwned

(* Steps of most kinds, from the lemmas on the parts of a program.         *)
LEMMA PlainSteps ==
  ASSUME NEW o \in Names
  PROVE  /\ Call(o) \in Seq(PlainSet) /\ New(o) \in Seq(PlainSet)
         /\ coding_param_init(o) \in Seq(PlainSet) /\ coding_init(o) \in Seq(PlainSet)
         /\ rtp_session_new(o) \in Seq(PlainSet)
  BY FreshParts, PlainParts

(* How a program goes on: its sockets stay apart.                          *)
LEMMA CopiesConcat ==
  ASSUME NEW s \in Seq(StepSet), CopiesFrom(s, 1), NEW t \in Seq(RestSet)
  PROVE  CopiesFrom(s \o t, 1)
<1> DEFINE u == s \o t
<1>1. PICK k \in DOMAIN s :
        /\ k >= 1 /\ s[k] = Step("sockets", "none", "rtp_s")
        /\ \A i \in DOMAIN s : (1 <= i /\ i < k) => s[i] \in SetupSet
        /\ \A i \in DOMAIN s : i > k => s[i] \in RestSet
  BY DEF CopiesFrom
<1>2. t \in Seq(StepSet) /\ \A i \in DOMAIN t : t[i] \in RestSet
  BY SeqMono, Kinds, ElementOfSeq, LenProperties
<1>3. /\ Len(s) \in Nat /\ DOMAIN s = 1 .. Len(s) /\ DOMAIN u = 1 .. Len(s) + Len(t)
      /\ Len(t) \in Nat /\ \A i \in DOMAIN s : u[i] = s[i]
      /\ \A i \in DOMAIN u : i \notin DOMAIN s => i - Len(s) \in DOMAIN t /\ u[i] = t[i - Len(s)]
  BY <1>2, Concat
<1> HIDE DEF u
<1>4. k \in DOMAIN u /\ u[k] = Step("sockets", "none", "rtp_s")
  BY <1>1, <1>3
<1>5. \A i \in DOMAIN u : (1 <= i /\ i < k) => u[i] \in SetupSet
  BY <1>1, <1>3
<1>6. \A i \in DOMAIN u : i > k => u[i] \in RestSet
  BY <1>1, <1>2, <1>3
<1>7. CopiesFrom(u, 1)
  BY <1>1, <1>4, <1>5, <1>6 DEF CopiesFrom
<1>8. QED  BY <1>7 DEF u

LEMMA BuiltRest ==
  ASSUME NEW S, NEW T, NEW H, NEW s, Built(s, S, H), NEW t \in Seq(RestSet), Opens(t, T), S \cap T = {}
  PROVE  Built(s \o t, S \cup T, H)
<1>1. s \in Seq(StepSet) /\ t \in Seq(StepSet)
  BY DEF Built, Opens
<1>2. s \o t \in Seq(RestSet) \/ CopiesFrom(s \o t, 1)
  BY <1>1, RestConcat, CopiesConcat DEF Built
<1>3. Opens(s \o t, S \cup T)
  BY OpensConcat DEF Built
<1>4. \A x \in H : Has(s \o t, x)
  BY <1>1, HasConcat DEF Built
<1>5. QED  BY <1>2, <1>3, <1>4 DEF Built

(* Steps that open nothing.                                                *)
LEMMA BuiltPlain ==
  \A S, H, s : Built(s, S, H) => \A t \in Seq(PlainSet) : Built(s \o t, S, H)
<1> SUFFICES ASSUME NEW S, NEW H, NEW s, Built(s, S, H), NEW t \in Seq(PlainSet)
             PROVE  Built(s \o t, S, H)
  OBVIOUS
<1>1. t \in Seq(RestSet) /\ Opens(t, {})
  BY SeqMono, Kinds, PlainOpens
<1>2. S \cup {} = S /\ S \cap {} = {}
  OBVIOUS
<1>3. Built(s \o t, S \cup {}, H)
  BY <1>1, <1>2, BuiltRest
<1>4. QED  BY <1>2, <1>3

(* An object is opened.                                                    *)
LEMMA BuiltOpen ==
  ASSUME NEW S, NEW H, NEW s, Built(s, S, H), NEW o \in {"pa", "ra"}, o \notin S
  PROVE  Built(s \o Open(o), S \cup {o}, H)
  BY OpensOne, BuiltRest

(* A step that is to be remembered.                                        *)
LEMMA BuiltHas ==
  ASSUME NEW S, NEW H, NEW s, Built(s, S, H), NEW x, <<x>> \in Seq(PlainSet)
  PROVE  Built(s \o <<x>>, S, H \cup {x})
<1>1. Built(s \o <<x>>, S, H)
  BY BuiltPlain
<1>2. s \in Seq(StepSet) /\ <<x>> \in Seq(StepSet)
  BY SeqMono, Kinds DEF Built, Opens
<1>3. Has(s \o <<x>>, x)
  BY <1>2, HasConcat
<1>4. QED  BY <1>1, <1>3 DEF Built

(* How a program begins.                                                   *)
LEMMA BuiltFirst ==
  ASSUME NEW s \in Seq(PlainSet)
  PROVE  Built(s, {}, {})
  BY PlainOpens, SeqMono, Kinds DEF Built

LEMMA BuiltCopy ==
  ASSUME NEW s \in Seq(SetupSet)
  PROVE  Built(s \o rtp_send_session_init, {}, {})
<1> DEFINE x == Step("sockets", "none", "rtp_s")
           u == s \o <<x>>
<1>1. x \in SetupSet
  BY FreshParts, Kinds DEF x, Step, FreshSet
<1> HIDE DEF x
<1>2. <<x>> \in Seq(SetupSet)
  BY <1>1
<1>3. /\ u \in Seq(SetupSet) /\ Len(s) \in Nat /\ DOMAIN s = 1 .. Len(s)
      /\ DOMAIN u = 1 .. Len(s) + 1 /\ u[Len(s) + 1] = x
      /\ \A i \in DOMAIN s : u[i] = s[i] /\ s[i] \in SetupSet
  BY <1>1
<1> HIDE DEF u
<1>4. CopiesFrom(u, 1)
  BY <1>3 DEF CopiesFrom, x
<1>5. Opens(u, {})
  BY <1>3, PlainOpens
<1>6. QED  BY <1>4, <1>5 DEF Built, u, x, rtp_send_session_init

(* main() of rcv.                                                          *)
LEMMA RcvProgram == Built(RcvStart, {"pa"}, KeepsIn("rcv_session", "pa"))
<1> DEFINE
     P == Seq(PlainSet)
     r == Step("register", "rcv_session", "rcv_session")
     a == Step("attach", "rcv_session", "pa")
     A == coding_param_init("cp_audio_r") \o coding_param_init("cp_nw_r")
          \o Call("filename") \o coding_init("ca_r")
          \o rtp_session_new("rtp_r") \o rtp_init \o rtp_rcv_session_init
     B == A \o rcv_session_new
     C == B
          \o Attach("rcv_session", "cp_audio_r") \o Attach("rcv_session", "cp_nw_r")
          \o Attach("rcv_session", "rtp_r") \o rtcp_rcv_stats_new
          \o Attach("rcv_session", "ca_r") \o Call("logfile")
          \o audio_play_init
     D == C \o Open("pa")
     E == D \o Attach("rcv_session", "pa")
     F == E \o playout_init
          \o Call("rtcp_rcv_init") \o Call("duration")
          \o pa_start \o Call("rcv_start") \o napt_probing
<1>1. /\ F = RcvStart /\ rcv_session_new = <<r>> /\ Attach("rcv_session", "pa") = <<a>>
      /\ {r, a} = KeepsIn("rcv_session", "pa")
  BY DEF RcvStart, rcv_session_new, Register, Attach, KeepsIn
<1>2. /\ coding_param_init("cp_audio_r") \in P /\ coding_param_init("cp_nw_r") \in P
      /\ Call("filename") \in P /\ coding_init("ca_r") \in P /\ rtp_session_new("rtp_r") \in P
      /\ Call("logfile") \in P /\ Call("rtcp_rcv_init") \in P /\ Call("duration") \in P
      /\ Call("rcv_start") \in P
  BY PlainSteps DEF Names, RcvOwned
<1>3. /\ rtp_init \in P /\ rtp_rcv_session_init \in P /\ audio_play_init \in P
      /\ pa_start \in P /\ napt_probing \in P
  BY FreshParts, PlainParts
<1>4. rcv_session_new \in P /\ rtcp_rcv_stats_new \in P /\ playout_init \in P
  BY PlainParts
<1>5. \A s, t \in P : s \o t \in P
  BY PlainConcat
<1>6. \A S, H, s : Built(s, S, H) => \A t \in P : Built(s \o t, S, H)
  BY BuiltPlain
<1>7. A \in P
  <2> HIDE DEF P
  <2>1. QED  BY <1>2, <1>3, <1>5, Zenon
<1> HIDE DEF A
<1>8. Built(B, {}, {r})
  <2> HIDE DEF r
  <2>1. Built(A \o <<r>>, {}, {} \cup {r})
    BY <1>1, <1>4, <1>7, BuiltFirst, BuiltHas
  <2>2. QED  BY <1>1, <2>1
<1> HIDE DEF B, r
<1>9. Built(C, {}, {r})
  <2> HIDE DEF P
  <2>1. QED  BY <1>2, <1>3, <1>4, <1>6, <1>8, RcvAttach, Zenon DEF P
<1> HIDE DEF C
<1>10. Built(D, {"pa"}, {r})
  <2>1. Built(C \o Open("pa"), {} \cup {"pa"}, {r})
    BY <1>9, BuiltOpen
  <2>2. QED  BY <2>1
<1> HIDE DEF D
<1>11. Built(E, {"pa"}, {r, a})
  <2>1. <<a>> \in P
    BY <1>1, RcvAttach
  <2> HIDE DEF a
  <2>2. Built(D \o <<a>>, {"pa"}, {r} \cup {a})
    BY <1>10, <2>1, BuiltHas
  <2>3. QED  BY <1>1, <2>2
<1> HIDE DEF E
<1>12. Built(F, {"pa"}, {r, a})
  <2> HIDE DEF P, a
  <2>1. QED  BY <1>2, <1>3, <1>4, <1>6, <1>11, Zenon
<1> QED  BY <1>1, <1>12

(* main() of send.                                                         *)
LEMMA SendProgram == Built(SendStart, {"ra"}, {})
<1> DEFINE
     P == Seq(PlainSet)
     A == coding_param_init("cp_audio_s") \o coding_param_init("cp_nw_s")
          \o Call("filename") \o coding_init("ca_s")
          \o rtp_session_new("rtp_s") \o rtp_init \o rtp_send_session_init
          \o send_session_new
          \o Attach("send_session", "cp_audio_s") \o Attach("send_session", "cp_nw_s")
          \o Attach("send_session", "rtp_s") \o rtcp_send_stats_new
          \o Attach("send_session", "ca_s")
          \o audio_record_init
     B == A \o Open("ra")
     C == B \o Call("rtcp_send_init") \o Call("duration") \o ra_start
<1>1. C = SendStart
  BY DEF SendStart
<1>2. /\ coding_param_init("cp_audio_s") \in P /\ coding_param_init("cp_nw_s") \in P
      /\ Call("filename") \in P /\ coding_init("ca_s") \in P /\ rtp_session_new("rtp_s") \in P
      /\ Call("rtcp_send_init") \in P /\ Call("duration") \in P
  BY PlainSteps DEF Names, SendOwned
<1>3. rtp_init \in P /\ rtp_send_session_init \in P /\ audio_record_init \in P /\ ra_start \in P
  BY FreshParts, PlainParts
<1>4. send_session_new \in P /\ rtcp_send_stats_new \in P
  BY PlainParts
<1>5. \A s, t \in P : s \o t \in P
  BY PlainConcat
<1>6. \A S, H, s : Built(s, S, H) => \A t \in P : Built(s \o t, S, H)
  BY BuiltPlain
<1>7. A \in P
  <2> HIDE DEF P
  <2>1. QED  BY <1>2, <1>3, <1>4, <1>5, SendAttach, Zenon DEF P
<1> HIDE DEF A
<1>8. Built(B, {"ra"}, {})
  <2>1. Built(A \o Open("ra"), {} \cup {"ra"}, {})
    BY <1>7, BuiltFirst, BuiltOpen
  <2>2. QED  BY <2>1
<1> HIDE DEF B
<1>9. Built(C, {"ra"}, {})
  <2> HIDE DEF P
  <2>1. QED  BY <1>2, <1>3, <1>6, <1>8, Zenon
<1> QED  BY <1>1, <1>9

(* main() of phone.                                                        *)
LEMMA PhoneProgram ==
  Built(PhoneStart, {"pa", "ra"}, KeepsIn("rcv_session", "pa") \cup KeepsIn("send_session", "ra"))
<1> DEFINE
     P == Seq(PlainSet)
     T == Seq(SetupSet)
     r1 == Step("register", "rcv_session", "rcv_session")
     a1 == Step("attach", "rcv_session", "pa")
     r2 == Step("register", "send_session", "send_session")
     a2 == Step("attach", "send_session", "ra")
     A == coding_param_init("cp_audio_r") \o coding_param_init("cp_audio_s")
          \o coding_param_init("cp_nw_r") \o coding_param_init("cp_nw_s")
          \o Call("filename") \o coding_init("ca_r") \o coding_init("ca_s")
          \o rtp_session_new("rtp_r") \o rtp_session_new("rtp_s") \o rtp_init
          \o rtp_rcv_session_init
          \o <<Step("memcpy", "rtp_s", "rtp_r")>>
     B == A \o rtp_send_session_init
     C == B \o rcv_session_new
     D == C
          \o Attach("rcv_session", "cp_audio_r") \o Attach("rcv_session", "cp_nw_r")
          \o Attach("rcv_session", "rtp_r") \o rtcp_rcv_stats_new
          \o Attach("rcv_session", "ca_r")
     E == D \o send_session_new
     F == E
          \o Attach("send_session", "cp_audio_s") \o Attach("send_session", "cp_nw_s")
          \o Attach("send_session", "rtp_s") \o rtcp_send_stats_new
          \o Attach("send_session", "ca_s")
          \o audio_play_init
     G == F \o Open("pa")
     H == G \o Attach("rcv_session", "pa")
     I == H \o audio_record_init
     J == I \o Attach("send_session", "ra")
     K == J \o Open("ra")
     L == K \o playout_init
          \o Call("rtcp_rcv_init") \o Call("rtcp_send_init")
          \o pa_start \o ra_start \o Call("rcv_start")
<1>1. /\ L = PhoneStart
      /\ rcv_session_new = <<r1>> /\ Attach("rcv_session", "pa") = <<a1>>
      /\ send_session_new = <<r2>> /\ Attach("send_session", "ra") = <<a2>>
      /\ {r1, a1} = KeepsIn("rcv_session", "pa") /\ {r2, a2} = KeepsIn("send_session", "ra")
  BY DEF PhoneStart, rcv_session_new, send_session_new, Register, Attach, KeepsIn
<1>2. \A S, N, s : Built(s, S, N) => \A t \in P : Built(s \o t, S, N)
  BY BuiltPlain
<1>3. /\ rtcp_rcv_stats_new \in P /\ rtcp_send_stats_new \in P /\ playout_init \in P
      /\ rcv_session_new \in P /\ send_session_new \in P
  BY PlainParts
<1>4. audio_play_init \in P /\ audio_record_init \in P /\ pa_start \in P /\ ra_start \in P
  BY FreshParts, PlainParts
<1>5. Call("rtcp_rcv_init") \in P /\ Call("rtcp_send_init") \in P /\ Call("rcv_start") \in P
  BY PlainSteps DEF Names
<1>6. Built(B, {}, {})
  <2>1. \A s, t \in T : s \o t \in T
    BY SetupConcat
  <2>2. Seq(FreshSet) \subseteq T
    BY SeqMono, Kinds
  <2>3. <<Step("memcpy", "rtp_s", "rtp_r")>> \in T
    <3>1. Step("memcpy", "rtp_s", "rtp_r") \in SetupSet
      BY DEF Step, SetupSet, CopySet
    <3>2. QED  BY <3>1
  <2>4. /\ coding_param_init("cp_audio_r") \in T /\ coding_param_init("cp_audio_s") \in T
        /\ coding_param_init("cp_nw_r") \in T /\ coding_param_init("cp_nw_s") \in T
        /\ Call("filename") \in T /\ coding_init("ca_r") \in T /\ coding_init("ca_s") \in T
        /\ rtp_session_new("rtp_r") \in T /\ rtp_session_new("rtp_s") \in T
    BY <2>2, FreshParts DEF Names, RcvOwned, SendOwned
  <2>5. rtp_init \in T /\ rtp_rcv_session_init \in T
    BY <2>2, FreshParts
  <2> HIDE DEF T
  <2>6. A \in T
    BY <2>1, <2>3, <2>4, <2>5, Zenon
  <2> HIDE DEF A
  <2>7. QED  BY <2>6, BuiltCopy DEF T
<1> HIDE DEF B, r1, r2, a1, a2
<1>7. Built(C, {}, {r1})
  <2>1. Built(B \o <<r1>>, {}, {} \cup {r1})
    BY <1>1, <1>3, <1>6, BuiltHas
  <2>2. QED  BY <1>1, <2>1
<1> HIDE DEF C
<1>8. Built(D, {}, {r1})
  <2> HIDE DEF P
  <2>1. QED  BY <1>2, <1>3, <1>7, RcvAttach, Zenon DEF P
<1> HIDE DEF D
<1>9. Built(E, {}, {r1, r2})
  <2>1. Built(D \o <<r2>>, {}, {r1} \cup {r2})
    BY <1>1, <1>3, <1>8, BuiltHas
  <2>2. QED  BY <1>1, <2>1
<1> HIDE DEF E
<1>10. Built(F, {}, {r1, r2})
  <2> HIDE DEF P
  <2>1. QED  BY <1>2, <1>3, <1>4, <1>9, SendAttach, Zenon DEF P
<1> HIDE DEF F
<1>11. Built(G, {"pa"}, {r1, r2})
  <2>1. Built(F \o Open("pa"), {} \cup {"pa"}, {r1, r2})
    BY <1>10, BuiltOpen
  <2>2. QED  BY <2>1
<1> HIDE DEF G
<1>12. Built(H, {"pa"}, {r1, r2, a1})
  <2>1. Built(G \o <<a1>>, {"pa"}, {r1, r2} \cup {a1})
    BY <1>1, <1>11, RcvAttach, BuiltHas
  <2>2. {r1, r2} \cup {a1} = {r1, r2, a1}
    OBVIOUS
  <2>3. QED  BY <1>1, <2>1, <2>2
<1> HIDE DEF H
<1>13. Built(I, {"pa"}, {r1, r2, a1})
  BY <1>2, <1>4, <1>12
<1> HIDE DEF I
<1>14. Built(J, {"pa"}, {r1, r2, a1, a2})
  <2>1. Built(I \o <<a2>>, {"pa"}, {r1, r2, a1} \cup {a2})
    BY <1>1, <1>13, SendAttach, BuiltHas
  <2>2. {r1, r2, a1} \cup {a2} = {r1, r2, a1, a2}
    OBVIOUS
  <2>3. QED  BY <1>1, <2>1, <2>2
<1> HIDE DEF J
<1>15. Built(K, {"pa", "ra"}, {r1, r2, a1, a2})
  <2>1. Built(J \o Open("ra"), {"pa"} \cup {"ra"}, {r1, r2, a1, a2})
    BY <1>14, BuiltOpen
  <2>2. {"pa"} \cup {"ra"} = {"pa", "ra"}
    OBVIOUS
  <2>3. QED  BY <2>1, <2>2
<1> HIDE DEF K
<1>16. Built(L, {"pa", "ra"}, {r1, r2, a1, a2})
  <2> HIDE DEF P
  <2>1. QED  BY <1>2, <1>3, <1>4, <1>5, <1>15, Zenon
<1>17. {r1, r2, a1, a2} = KeepsIn("rcv_session", "pa") \cup KeepsIn("send_session", "ra")
  BY <1>1
<1> QED  BY <1>1, <1>16, <1>17

(* What is known of the three programs.                                    *)
LEMMA StartSteps ==
  ASSUME NEW app \in Apps
  PROVE  /\ Start(app) \in Seq(StepSet)
         /\ Start(app) \in Seq(RestSet) \/ CopiesFrom(Start(app), 1)
         /\ Opens(Start(app), {"pa", "ra"})
         /\ app # "send" => \A i \in DOMAIN Start(app) : Start(app)[i].op = "open" =>
              IF Start(app)[i].o = "pa"
              THEN \A x \in KeepsIn("rcv_session", "pa") : Has(Start(app), x)
              ELSE \A x \in KeepsIn("send_session", "ra") : Has(Start(app), x)
<1>1. CASE app = "phone"
  BY <1>1, PhoneProgram DEF Start, Built, Opens
<1>2. CASE app = "send"
  BY <1>2, SendProgram DEF Start, Built, Opens
<1>3. CASE app = "rcv"
  BY <1>3, RcvProgram DEF Start, Built, Opens
<1>4. QED  BY <1>1, <1>2, <1>3 DEF Apps

-----------------------------------------------------------------------------
(* The programs *)

\* The program does not change, and main() goes on.
MainInv == opt.app \in Apps /\ step \in Nat \ {0}

LEMMA MainInvariant == PhoneSpec => []MainInv
<1>1. PhoneInit => MainInv
  BY DEF PhoneInit, MainInv, PhoneOptions, SendOptions, RcvOptions, Apps
<1>2. MainInv /\ [PhoneNext]_allVars => MainInv'
  BY DEF MainInv, PhoneNext, allVars, phoneVars, StepDone, SessionNew, StepFails,
         StepFailsSilently, LeaveStart, CallExitFunction, RunStep
<1>3. QED  BY <1>1, <1>2, PTL DEF PhoneSpec

(* How a step of a program appears to the error and exit handling.         *)
LEMMA PhoneStepIsExitStep ==
  ASSUME MainInv, [PhoneNext]_allVars
  PROVE  \/ [Next]_vars
         \/ /\ Running /\ proc' \in {"exited", "crashed"}
            /\ UNCHANGED <<Err_handler, frames, main_pc, sphone_exit, calls>>
<1>1. CASE StepDone
  BY <1>1 DEF StepDone, exitVars, vars
<1>2. CASE SessionNew
  <2>1. Link(This.s)
    BY <1>2 DEF SessionNew
  <2>2. This.s \in Modules
    <3>1. Start(opt.app) \in Seq(StepSet)
      BY StartSteps DEF MainInv
    <3>2. step \in 1 .. Len(Start(opt.app))
      BY <1>2, <3>1, LenProperties DEF SessionNew, Starting, MainInv
    <3>3. This \in StepSet /\ This.op = "register"
      BY <1>2, <3>1, <3>2, ElementOfSeq DEF SessionNew, This
    <3>4. QED  BY <3>3, PhoneAssumption DEF StepSet, RestSet, PlainSet, FreshSet, OpenSet, CopySet
  <2>3. QED  BY <2>1, <2>2 DEF Next
<1>3. CASE StepFails
  BY <1>3 DEF StepFails, Next
<1>4. CASE StepFailsSilently
  BY <1>4 DEF StepFailsSilently, Starting, InMain, exit0
<1>5. CASE LeaveStart
  BY <1>5 DEF LeaveStart, Next, InMain
<1>6. CASE CallExitFunction
  BY <1>6 DEF CallExitFunction, Next
<1>7. CASE RunStep
  BY <1>7 DEF RunStep, Next
<1>8. CASE UNCHANGED allVars
  BY <1>8 DEF allVars, vars
<1>9. QED
  BY <1>1, <1>2, <1>3, <1>4, <1>5, <1>6, <1>7, <1>8 DEF PhoneNext

(* No step of a program breaks the invariant of the exit functions.        *)
LEMMA PhoneKeepsExitInv ==
  ASSUME OneSignal, MainInv, ExitInv, [PhoneNext]_allVars
  PROVE  ExitInv'
  BY PhoneStepIsExitStep, ProcessEnds, NextInv

(* In phone, send and rcv each session is released once, whichever step of *)
(* main() or callback fails and whenever the signal comes.                 *)
THEOREM SessionsReleasedOnce ==
  ASSUME OneSignal
  PROVE  PhoneSpec => []HandlersOnce
<1>1. PhoneInit => ExitInv
  BY InitInv DEF PhoneInit
<1>2. MainInv /\ ExitInv /\ [PhoneNext]_allVars => ExitInv'
  BY PhoneKeepsExitInv
<1>3. ExitInv => HandlersOnce
  BY DEF ExitInv
<1>4. QED  BY <1>1, <1>2, <1>3, MainInvariant, PTL DEF PhoneSpec

(* The session that was created last is released first.                    *)
THEOREM SessionsReleasedInReverse ==
  ASSUME OneSignal
  PROVE  PhoneSpec => []ReverseOrder
<1>1. PhoneInit => ExitInv
  BY InitInv DEF PhoneInit
<1>2. MainInv /\ ExitInv /\ [PhoneNext]_allVars => ExitInv'
  BY PhoneKeepsExitInv
<1>3. QED  BY <1>1, <1>2, InvReverseOrder, MainInvariant, PTL DEF PhoneSpec

-----------------------------------------------------------------------------
(* The objects: the inductive invariant *)

Prog == Start(opt.app)

RcvSockets  == {"rtp_r.rtp_s", "rtp_r.rtcp_s"}
SendSockets == {"rtp_s.rtp_s", "rtp_s.rtcp_s"}

\* What the exit function of a session may release.
Releases(s) == {s} \cup Owned(s) \cup (IF s = "rcv_session" THEN RcvSockets ELSE SendSockets)

ObjectTypes ==
  /\ attached \in [Session -> SUBSET (RcvOwned \cup SendOwned)]
  /\ \A s \in Session : attached[s] \subseteq Owned(s)
  /\ released \in [Objects -> Nat] /\ dd_refcnt \in [Devices -> Nat]
  /\ DOMAIN sock = {"rtp_r", "rtp_s"} /\ DOMAIN held = {"pa", "ra"}

\* As long as a session may be copied, nothing is attached.
SocketInv ==
  /\ sock["rtp_r"] \subseteq RcvSockets
  /\ \/ (\A s \in Session : attached[s] = {}) /\ CopiesFrom(Prog, step)
     \/ /\ sock["rtp_s"] \subseteq SendSockets
        /\ \A i \in DOMAIN Prog : i >= step => Prog[i] \in RestSet

\* What a session releases is not released before its exit function is called.
ReleaseInv ==
  \A s \in Session : calls[s] = 0 => \A o \in Objects \cap Releases(s) : released[o] = 0

\* A device counts the objects that use it; when ra_open or pa_open has failed
\* it may have been counted for nothing.
Users(d) == {o \in DOMAIN held : d \in held[o] /\ released[o] = 0}
DeviceInv ==
  \A d \in Devices :
    /\ Cardinality(Users(d)) <= dd_refcnt[d]
    /\ (sphone_exit = 0 \/ step > Len(Prog)) => Cardinality(Users(d)) = dd_refcnt[d]

\* An object that has a device was opened, and is not opened again.
OpenInv ==
  \A o \in {"pa", "ra"} : held[o] # {} =>
    /\ \E j \in DOMAIN Prog : Prog[j].op = "open" /\ Prog[j].o = o
    /\ sphone_exit = 0 => \A i \in DOMAIN Prog : (i >= step /\ Prog[i].op = "open") => Prog[i].o # o

\* What was attached is still, until it is released.
AttachInv ==
  /\ \A i \in DOMAIN Prog : i < step =>
       /\ Prog[i].op = "attach" => Prog[i].o \in attached[Prog[i].s] \/ released[Prog[i].o] > 0
       /\ Prog[i].op = "register" => Prog[i].s \in Registered
  /\ \A s \in Session : calls[s] > 0 => attached[s] = {}

ObjectInv ==
  /\ ObjectTypes /\ SocketInv /\ ReleaseInv /\ ReleasedOnce
  /\ DeviceInv /\ OpenInv /\ AttachInv

(* What the kinds of steps tell.                                           *)
LEMMA KindFacts ==
  ASSUME NEW x \in StepSet
  PROVE  /\ x.op = "attach" => x.s \in Session /\ x.o \in Owned(x.s)
         /\ x.op = "register" => x.s \in Session
         /\ x.op = "open" => x.o \in {"pa", "ra"}
         /\ x.op = "sockets" => x.o \in {"rtp_r", "rtp_s"}
         /\ x.op = "memcpy" => x.s = "rtp_s" /\ x.o = "rtp_r"
         /\ x \in SetupSet => x.op \notin {"attach", "register", "open"}
         /\ x \in RestSet => x.op # "memcpy"
  BY DEF StepSet, RestSet, PlainSet, FreshSet, OpenSet, CopySet, SetupSet, Session, Owned

(* main() of the program that runs.                                        *)
LEMMA ProgFacts ==
  ASSUME MainInv
  PROVE  /\ Prog \in Seq(StepSet) /\ Len(Prog) \in Nat /\ DOMAIN Prog = 1 .. Len(Prog)
         /\ \A i \in DOMAIN Prog : Prog[i] \in StepSet /\ Prog[i].o \in Objects
         /\ Opens(Prog, {"pa", "ra"})
<1>1. Prog \in Seq(StepSet) /\ Opens(Prog, {"pa", "ra"})
  BY StartSteps DEF MainInv, Prog
<1>2. \A i \in DOMAIN Prog : Prog[i].o \in Objects
  BY DEF MainInv, Prog, Objects
<1>3. QED  BY <1>1, <1>2, LenProperties, ElementOfSeq

(* A step of main() that is not yet done.                                  *)
LEMMA StartingFacts ==
  ASSUME MainInv, ExitInv, ReleaseInv, Starting
  PROVE  /\ step \in DOMAIN Prog /\ This = Prog[step] /\ This \in StepSet
         /\ frames = <<>> /\ sphone_exit = 0
         /\ \A s \in Session : calls[s] = 0 /\ \A o \in Objects \cap Releases(s) : released[o] = 0
<1>1. step \in DOMAIN Prog
  BY ProgFacts DEF Starting, MainInv, Prog
<1>2. frames = <<>> /\ sphone_exit = 0 /\ This = Prog[step]
  BY DEF Starting, InMain, This, Prog
<1>3. \A s \in Session : calls[s] = 0
  BY <1>2, PhoneAssumption DEF ExitInv, CallsMatch
<1>4. QED  BY <1>1, <1>2, <1>3, ProgFacts DEF ReleaseInv

(* The player and the recorder are objects.                                *)
LEMMA AudioObjects ==
  /\ "pa" \in Objects /\ "ra" \in Objects
  /\ "pa" \in Owned("rcv_session") /\ "ra" \in Owned("send_session")
<1>1. /\ Has(PhoneStart, Step("attach", "rcv_session", "pa"))
      /\ Has(PhoneStart, Step("attach", "send_session", "ra"))
  BY PhoneProgram DEF Built, KeepsIn
<1>2. Start("phone") = PhoneStart /\ "phone" \in Apps
  BY DEF Start, Apps
<1>3. "pa" \in Objects
  <2>1. PICK i \in DOMAIN Start("phone") : Start("phone")[i] = Step("attach", "rcv_session", "pa")
    BY <1>1, <1>2 DEF Has
  <2>2. Start("phone")[i].o = "pa"
    BY <2>1 DEF Step
  <2>3. QED  BY <1>2, <2>2 DEF Objects
<1>4. "ra" \in Objects
  <2>1. PICK i \in DOMAIN Start("phone") : Start("phone")[i] = Step("attach", "send_session", "ra")
    BY <1>1, <1>2 DEF Has
  <2>2. Start("phone")[i].o = "ra"
    BY <2>1 DEF Step
  <2>3. QED  BY <1>2, <2>2 DEF Objects
<1>5. QED  BY <1>3, <1>4 DEF Owned, RcvOwned, SendOwned

(* How many of the player and the recorder are in a set.                   *)
In(o, S) == IF o \in S THEN 1 ELSE 0

LEMMA PairCard ==
  ASSUME NEW S \in SUBSET {"pa", "ra"}
  PROVE  Cardinality(S) = In("pa", S) + In("ra", S)
<1>1. CASE S = {}
  BY <1>1, FS_EmptySet DEF In
<1>2. CASE S = {"pa"}
  <2>1. Cardinality({"pa"}) = 1
    BY FS_Singleton
  <2>2. QED  BY <1>2, <2>1 DEF In
<1>3. CASE S = {"ra"}
  <2>1. Cardinality({"ra"}) = 1
    BY FS_Singleton
  <2>2. QED  BY <1>3, <2>1 DEF In
<1>4. CASE S = {"pa", "ra"}
  <2>1. S = {"pa"} \cup {"ra"}
    BY <1>4
  <2>2. Cardinality({"pa"} \cup {"ra"}) = 2
    <3>1. IsFiniteSet({"pa"}) /\ Cardinality({"pa"}) = 1
      BY FS_Singleton
    <3>2. Cardinality({"pa"} \cup {"ra"}) = IF "ra" \in {"pa"} THEN Cardinality({"pa"}) ELSE Cardinality({"pa"}) + 1
      BY <3>1, FS_AddElement
    <3>3. QED  BY <3>1, <3>2
  <2>3. In("pa", S) = 1 /\ In("ra", S) = 1
    BY <1>4 DEF In
  <2>4. QED  BY <2>1, <2>2, <2>3
<1>5. S = {} \/ S = {"pa"} \/ S = {"ra"} \/ S = {"pa", "ra"}
  <2>1. \A x \in S : x = "pa" \/ x = "ra"
    OBVIOUS
  <2>2. QED  BY <2>1, Zenon
<1>6. QED  BY <1>1, <1>2, <1>3, <1>4, <1>5

(* The exit function of a session frees an object once, and nothing that   *)
(* the other one may.                                                      *)
FreedBy(s, o) == {x \in attached[s] \cup {s} : o \in Freed(x)}

LEMMA FreedOnce ==
  ASSUME ObjectTypes, SocketInv, NEW s \in Session, NEW o
  PROVE  /\ Cardinality(FreedBy(s, o)) \in {0, 1}
         /\ o \notin Releases(s) => Cardinality(FreedBy(s, o)) = 0
         /\ o \in attached[s] => Cardinality(FreedBy(s, o)) = 1
         /\ o \in {"pa", "ra"} \ attached[s] => Cardinality(FreedBy(s, o)) = 0
<1>1. attached[s] \subseteq Owned(s)
  BY DEF ObjectTypes
<1>2. \A x \in attached[s] : x \in DOMAIN sock =>
        sock[x] \subseteq (IF s = "rcv_session" THEN RcvSockets ELSE SendSockets)
  BY <1>1 DEF ObjectTypes, SocketInv, Session, Owned, RcvOwned, SendOwned
<1>3. s \notin DOMAIN sock
  BY DEF ObjectTypes, Session
<1>4. \A x \in FreedBy(s, o) :
        \/ x = o
        \/ /\ x = (IF s = "rcv_session" THEN "rtp_r" ELSE "rtp_s")
           /\ o \in (IF s = "rcv_session" THEN RcvSockets ELSE SendSockets)
  BY <1>1, <1>2, <1>3
     DEF FreedBy, Freed, ObjectTypes, Session, Owned, RcvOwned, SendOwned
<1>5. \A x \in FreedBy(s, o) : x \in Owned(s) \cup {s}
  BY <1>1 DEF FreedBy
<1>6. o \in RcvSockets \cup SendSockets => o \notin Owned(s) \cup {s}
  BY DEF RcvSockets, SendSockets, Owned, RcvOwned, SendOwned, Session
<1>7. \E w : FreedBy(s, o) \subseteq {w}
  <2>1. CASE o \in RcvSockets \cup SendSockets
    BY <1>4, <1>5, <1>6, <2>1
  <2>2. CASE o \notin RcvSockets \cup SendSockets
    BY <1>4, <2>2
  <2>3. QED  BY <2>1, <2>2
<1>8. Cardinality(FreedBy(s, o)) \in {0, 1} /\ (FreedBy(s, o) # {} => Cardinality(FreedBy(s, o)) = 1)
  <2>1. PICK w : FreedBy(s, o) \subseteq {w}
    BY <1>7
  <2>2. FreedBy(s, o) = {} \/ FreedBy(s, o) = {w}
    BY <2>1
  <2>3. QED  BY <2>2, FS_EmptySet, FS_Singleton
<1>9. ASSUME o \notin Releases(s)  PROVE FreedBy(s, o) = {}
  BY <1>4, <1>5, <1>9 DEF Releases
<1>10. ASSUME o \in attached[s]  PROVE FreedBy(s, o) # {}
  BY <1>10 DEF FreedBy, Freed
<1>11. ASSUME o \in {"pa", "ra"} \ attached[s]  PROVE FreedBy(s, o) = {}
  <2>1. o \notin RcvSockets \cup SendSockets /\ o # s
    BY <1>11 DEF RcvSockets, SendSockets, Session
  <2>2. o \notin FreedBy(s, o)
    BY <1>11, <2>1 DEF FreedBy
  <2>3. QED  BY <1>4, <2>1, <2>2
<1>12. QED  BY <1>8, <1>9, <1>10, <1>11, FS_EmptySet

(* Entries stay in the list of exit functions.                             *)
LEMMA RegisteredGrows ==
  ASSUME MainInv, ExitInv, [PhoneNext]_allVars
  PROVE  /\ Registered \subseteq Registered'
         /\ SessionNew => This.s \in Registered'
<1> DEFINE H == [eh_mod : Modules, eh_fn : BOOLEAN, nr : Nat]
<1>1. Err_handler \in Seq(H) /\ Len(Err_handler) \in Nat /\ DOMAIN Err_handler = 1 .. Len(Err_handler)
  BY ListFacts DEF ExitInv, TypeOK
<1>2. ASSUME NEW m, Err_handler' = <<[eh_mod |-> m, eh_fn |-> FALSE, nr |-> Len(Err_handler) + 1]>> \o Err_handler
      PROVE  Registered \subseteq Registered' /\ m \in Registered'
  <2> DEFINE h == [eh_mod |-> m, eh_fn |-> FALSE, nr |-> Len(Err_handler) + 1]
  <2>1. h.eh_mod = m
    OBVIOUS
  <2> HIDE DEF h, H
  <2>2. /\ DOMAIN Err_handler' = 1 .. Len(Err_handler) + 1
        /\ Err_handler'[1] = h
        /\ \A i \in DOMAIN Err_handler : Err_handler'[i + 1] = Err_handler[i]
    BY <1>1, <1>2 DEF h
  <2>3. \A i \in DOMAIN Err_handler : i + 1 \in DOMAIN Err_handler'
    BY <1>1, <2>2
  <2>4. 1 \in DOMAIN Err_handler'
    BY <1>1, <2>2
  <2>5. QED  BY <2>1, <2>2, <2>3, <2>4 DEF Registered
<1>3. CASE SetFunction
  <2>1. Err_handler' = [Err_handler EXCEPT ![1].eh_fn = TRUE]
    BY <1>3 DEF SetFunction
  <2>2. DOMAIN Err_handler' = DOMAIN Err_handler
    BY <2>1
  <2>3. \A i \in DOMAIN Err_handler : Err_handler'[i].eh_mod = Err_handler[i].eh_mod
    <3>1. \A i \in DOMAIN Err_handler : Err_handler[i] \in H
      BY ListFacts DEF ExitInv
    <3>2. QED  BY <2>1, <3>1
  <2>4. Registered \subseteq Registered'
    BY <2>2, <2>3 DEF Registered
  <2>5. ~SessionNew
    BY <1>3 DEF SetFunction, SessionNew, Starting
  <2>6. QED  BY <2>4, <2>5
<1>4. CASE UNCHANGED Err_handler /\ ~SessionNew
  BY <1>4 DEF Registered
<1>5. CASE SessionNew
  BY <1>2, <1>5 DEF SessionNew, Link
<1>6. SetFunction \/ SessionNew \/ UNCHANGED Err_handler
  BY DEF PhoneNext, allVars, vars, StepDone, exitVars, StepFails, StepFailsSilently, LeaveStart,
         CallExitFunction, RunStep, Callback, MainReturns, EndWalk, Return, sphone_verror,
         sphone_signal_exit, CallHandler, StartLoop
<1>7. QED  BY <1>3, <1>4, <1>5, <1>6

-----------------------------------------------------------------------------
(* The objects: one lemma per kind of step *)

(* Steps that only concern the exit functions and the event loop.          *)
LEMMA QuietStep ==
  ASSUME ObjectInv, UNCHANGED <<phoneVars, calls>>, Registered \subseteq Registered',
         sphone_exit' = 0 => sphone_exit = 0
  PROVE  ObjectInv'
<1>1. /\ UNCHANGED <<opt, step, attached, released, sock, held, dd_refcnt, calls>>
      /\ Prog' = Prog
  BY DEF phoneVars, Prog
<1>2. ObjectTypes' /\ SocketInv' /\ ReleaseInv' /\ ReleasedOnce'
  BY <1>1 DEF ObjectInv, ObjectTypes, SocketInv, ReleaseInv, ReleasedOnce
<1>3. DeviceInv'
  <2>1. \A d : Users(d)' = Users(d)
    BY <1>1 DEF Users
  <2>2. QED  BY <1>1, <2>1 DEF ObjectInv, DeviceInv
<1>4. OpenInv' /\ AttachInv'
  BY <1>1 DEF ObjectInv, OpenInv, AttachInv
<1>5. QED  BY <1>2, <1>3, <1>4 DEF ObjectInv

(* The sockets and what is not yet done of main().                         *)
LEMMA SocketsAtStep ==
  ASSUME MainInv, ExitInv, ObjectInv, Starting
  PROVE  \/ /\ CopiesFrom(Prog, step + 1) /\ \A s \in Session : attached[s] = {}
            /\ This.op \notin {"attach", "register"}
         \/ /\ \A i \in DOMAIN Prog : i >= step + 1 => Prog[i] \in RestSet
            /\ \/ This = Step("sockets", "none", "rtp_s")
               \/ sock["rtp_s"] \subseteq SendSockets /\ This.op # "memcpy"
<1>1. /\ step \in DOMAIN Prog /\ This = Prog[step] /\ This \in StepSet
      /\ DOMAIN Prog = 1 .. Len(Prog) /\ Len(Prog) \in Nat
      /\ \A i \in DOMAIN Prog : Prog[i] \in StepSet
  BY StartingFacts, ProgFacts DEF ObjectInv
<1>2. CASE (\A s \in Session : attached[s] = {}) /\ CopiesFrom(Prog, step)
  <2>1. PICK k \in DOMAIN Prog :
          /\ k >= step /\ Prog[k] = Step("sockets", "none", "rtp_s")
          /\ \A i \in DOMAIN Prog : (step <= i /\ i < k) => Prog[i] \in SetupSet
          /\ \A i \in DOMAIN Prog : i > k => Prog[i] \in RestSet
    BY <1>2 DEF CopiesFrom
  <2>2. CASE k = step
    BY <1>1, <2>1, <2>2
  <2>3. CASE k > step
    <3>1. CopiesFrom(Prog, step + 1)
      BY <1>1, <2>1, <2>3 DEF CopiesFrom
    <3>2. This \in SetupSet
      BY <1>1, <2>1, <2>3
    <3>3. QED  BY <1>1, <1>2, <3>1, <3>2, KindFacts
  <2>4. QED  BY <1>1, <2>1, <2>2, <2>3
<1>3. CASE sock["rtp_s"] \subseteq SendSockets /\ \A i \in DOMAIN Prog : i >= step => Prog[i] \in RestSet
  <2>1. This \in RestSet
    BY <1>1, <1>3
  <2>2. This.op # "memcpy"
    BY <1>1, <2>1, KindFacts
  <2>3. QED  BY <1>1, <1>3, <2>2
<1>4. QED  BY <1>2, <1>3 DEF ObjectInv, SocketInv

(* A session is created.                                                   *)
LEMMA SessionNewInv ==
  ASSUME MainInv, ExitInv, ObjectInv, SessionNew, Registered \subseteq Registered',
         This.s \in Registered'
  PROVE  ObjectInv'
<1>1. /\ UNCHANGED <<opt, attached, released, sock, held, dd_refcnt, calls, sphone_exit>>
      /\ Prog' = Prog /\ step' = step + 1 /\ Starting /\ This.op = "register"
  BY DEF SessionNew, Link, Prog
<1>2. /\ step \in DOMAIN Prog /\ This = Prog[step] /\ sphone_exit = 0
      /\ DOMAIN Prog = 1 .. Len(Prog) /\ Len(Prog) \in Nat /\ step \in Nat
  BY <1>1, StartingFacts, ProgFacts DEF ObjectInv, MainInv
<1>3. ObjectTypes' /\ ReleaseInv' /\ ReleasedOnce'
  BY <1>1 DEF ObjectInv, ObjectTypes, ReleaseInv, ReleasedOnce
<1>4. SocketInv'
  <2>1. /\ \A i \in DOMAIN Prog : i >= step + 1 => Prog[i] \in RestSet
        /\ sock["rtp_s"] \subseteq SendSockets
    BY <1>1, SocketsAtStep DEF Step
  <2>2. QED  BY <1>1, <2>1 DEF ObjectInv, SocketInv
<1>5. DeviceInv'
  <2>1. \A d : Users(d)' = Users(d)
    BY <1>1 DEF Users
  <2>2. QED  BY <1>1, <1>2, <2>1 DEF ObjectInv, DeviceInv
<1>6. OpenInv'
  BY <1>1, <1>2 DEF ObjectInv, OpenInv
<1>7. AttachInv'
  BY <1>1, <1>2 DEF ObjectInv, AttachInv
<1>8. QED  BY <1>3, <1>4, <1>5, <1>6, <1>7 DEF ObjectInv

(* A device is opened for the player or the recorder: it has one user more.*)
LEMMA DeviceOpened ==
  ASSUME MainInv, ExitInv, ObjectInv, Starting, This.op = "open",
         audio_devaudio_init(This.o), UNCHANGED <<released, opt>>
  PROVE  /\ dd_refcnt' \in [Devices -> Nat] /\ DOMAIN held' = {"pa", "ra"}
         /\ \A o \in {"pa", "ra"} \ {This.o} : held'[o] = held[o]
         /\ \A d \in Devices :
              dd_refcnt'[d] - Cardinality(Users(d)') = dd_refcnt[d] - Cardinality(Users(d))
<1>1. /\ step \in DOMAIN Prog /\ This = Prog[step] /\ This \in StepSet /\ sphone_exit = 0
      /\ This.o \in {"pa", "ra"} /\ step \in Nat
  BY StartingFacts, KindFacts DEF ObjectInv, MainInv
<1>2. held[This.o] = {}
  BY <1>1 DEF ObjectInv, OpenInv
<1>3. released[This.o] = 0
  <2>1. \A s \in Session : \A o \in Objects \cap Releases(s) : released[o] = 0
    BY StartingFacts DEF ObjectInv
  <2>2. This.o \in Objects /\ \E s \in Session : This.o \in Releases(s)
    BY <1>1, AudioObjects DEF Releases, Session
  <2>3. QED  BY <2>1, <2>2
<1>4. /\ DOMAIN held = {"pa", "ra"} /\ dd_refcnt \in [Devices -> Nat]
  BY DEF ObjectInv, ObjectTypes
<1>5. /\ DOMAIN held' = {"pa", "ra"} /\ held'[This.o] = {DeviceOf(This.o)}
      /\ \A o \in {"pa", "ra"} \ {This.o} : held'[o] = held[o]
      /\ dd_refcnt' \in [Devices -> Nat]
      /\ \A d \in Devices : dd_refcnt'[d] = IF d = DeviceOf(This.o) THEN dd_refcnt[d] + 1 ELSE dd_refcnt[d]
  <2> DEFINE o == This.o
             v == DeviceOf(o)
  <2>1. /\ held' = [held EXCEPT ![o] = {v}]
        /\ dd_refcnt' = [dd_refcnt EXCEPT ![v] = @ + 1]
    BY DEF audio_devaudio_init
  <2>2. o \in {"pa", "ra"}
    BY <1>1
  <2> HIDE DEF o, v
  <2>3. /\ DOMAIN held' = {"pa", "ra"} /\ held'[o] = {v}
        /\ \A p \in {"pa", "ra"} \ {o} : held'[p] = held[p]
    BY <1>4, <2>1, <2>2
  <2>4. /\ dd_refcnt' \in [Devices -> Nat]
        /\ \A d \in Devices : dd_refcnt'[d] = IF d = v THEN dd_refcnt[d] + 1 ELSE dd_refcnt[d]
    <3>1. dd_refcnt' = [d \in Devices |-> IF d = v THEN dd_refcnt[d] + 1 ELSE dd_refcnt[d]]
      BY <1>4, <2>1
    <3>2. \A d \in Devices : dd_refcnt[d] \in Nat
      BY <1>4
    <3>3. QED  BY <3>1, <3>2
  <2>5. QED  BY <2>3, <2>4 DEF o, v
<1>6. ASSUME NEW d \in Devices
      PROVE  dd_refcnt'[d] - Cardinality(Users(d)') = dd_refcnt[d] - Cardinality(Users(d))
  <2>1. Users(d) \in SUBSET {"pa", "ra"} /\ Users(d)' \in SUBSET {"pa", "ra"}
    BY <1>4, <1>5 DEF Users
  <2>2. /\ Cardinality(Users(d)) = In("pa", Users(d)) + In("ra", Users(d))
        /\ Cardinality(Users(d)') = In("pa", Users(d)') + In("ra", Users(d)')
    BY <2>1, PairCard
  <2>3. \A o \in {"pa", "ra"} \ {This.o} : o \in Users(d)' <=> o \in Users(d)
    BY <1>4, <1>5 DEF Users
  <2>4. This.o \notin Users(d) /\ (This.o \in Users(d)' <=> d = DeviceOf(This.o))
    BY <1>1, <1>2, <1>3, <1>4, <1>5 DEF Users
  <2>5. QED  BY <1>1, <1>4, <1>5, <2>2, <2>3, <2>4 DEF In
<1>7. QED  BY <1>5, <1>6

(* A step of main() is done.                                               *)
LEMMA StepDoneInv ==
  ASSUME MainInv, ExitInv, ObjectInv, StepDone
  PROVE  ObjectInv'
<1>1. /\ UNCHANGED <<opt, released, Err_handler, calls, sphone_exit>>
      /\ Prog' = Prog /\ step' = step + 1 /\ Starting
  BY DEF StepDone, exitVars, Prog
<1>2. /\ step \in DOMAIN Prog /\ This = Prog[step] /\ This \in StepSet /\ sphone_exit = 0
      /\ DOMAIN Prog = 1 .. Len(Prog) /\ Len(Prog) \in Nat /\ step \in Nat
      /\ \A s \in Session : calls[s] = 0
      /\ \A i \in DOMAIN Prog : Prog[i] \in StepSet
  BY <1>1, StartingFacts, ProgFacts DEF ObjectInv, MainInv
<1>3. ObjectTypes /\ SocketInv /\ ReleaseInv /\ ReleasedOnce /\ DeviceInv /\ OpenInv /\ AttachInv
  BY DEF ObjectInv
<1>4. ReleaseInv' /\ ReleasedOnce'
  BY <1>1, <1>3 DEF ReleaseInv, ReleasedOnce
<1>5. /\ attached' \in [Session -> SUBSET (RcvOwned \cup SendOwned)]
      /\ \A s \in Session : attached'[s] \subseteq Owned(s) /\ attached[s] \subseteq attached'[s]
      /\ This.op = "attach" => This.o \in attached'[This.s]
      /\ This.op # "attach" => attached' = attached
  <2>1. CASE This.op = "attach"
    <3>1. This.s \in Session /\ This.o \in Owned(This.s)
      BY <1>2, <2>1, KindFacts
    <3>2. attached' = [attached EXCEPT ![This.s] = @ \cup {This.o}]
      BY <2>1 DEF StepDone
    <3>3. \A s \in Session : Owned(s) \subseteq RcvOwned \cup SendOwned
      BY DEF Owned
    <3>4. QED  BY <1>3, <2>1, <3>1, <3>2, <3>3 DEF ObjectTypes
  <2>2. CASE This.op # "attach"
    BY <1>3, <2>2 DEF StepDone, ObjectTypes
  <2>3. QED  BY <2>1, <2>2
<1>6. /\ DOMAIN sock' = {"rtp_r", "rtp_s"} /\ sock'["rtp_r"] \subseteq RcvSockets
      /\ This = Step("sockets", "none", "rtp_s") => sock'["rtp_s"] \subseteq SendSockets
      /\ This.op # "memcpy" /\ sock["rtp_s"] \subseteq SendSockets => sock'["rtp_s"] \subseteq SendSockets
  <2>1. DOMAIN sock = {"rtp_r", "rtp_s"} /\ sock["rtp_r"] \subseteq RcvSockets
    BY <1>3 DEF ObjectTypes, SocketInv
  <2>2. CASE This.op = "sockets"
    <3>1. This.o \in {"rtp_r", "rtp_s"} /\ inet_init(This.o)
      BY <1>2, <2>2, KindFacts DEF StepDone
    <3>2. This = Step("sockets", "none", "rtp_s") => This.o = "rtp_s"
      BY DEF Step
    <3>3. QED  BY <2>1, <3>1, <3>2 DEF inet_init, RcvSockets, SendSockets
  <2>3. CASE This.op = "memcpy"
    <3>1. This.s = "rtp_s" /\ sock' = [sock EXCEPT ![This.s] = sock[This.o]]
      BY <1>2, <2>3, KindFacts DEF StepDone
    <3>2. This # Step("sockets", "none", "rtp_s")
      BY <2>3 DEF Step
    <3>3. QED  BY <2>1, <2>3, <3>1, <3>2
  <2>4. CASE This.op \notin {"sockets", "memcpy"}
    <3>1. sock' = sock /\ This # Step("sockets", "none", "rtp_s")
      BY <2>4 DEF StepDone, Step
    <3>2. QED  BY <2>1, <3>1
  <2>5. QED  BY <2>2, <2>3, <2>4
<1>7. SocketInv'
  <2>1. CASE /\ CopiesFrom(Prog, step + 1) /\ \A s \in Session : attached[s] = {}
             /\ This.op \notin {"attach", "register"}
    BY <1>1, <1>5, <1>6, <2>1 DEF SocketInv
  <2>2. CASE /\ \A i \in DOMAIN Prog : i >= step + 1 => Prog[i] \in RestSet
             /\ \/ This = Step("sockets", "none", "rtp_s")
                \/ sock["rtp_s"] \subseteq SendSockets /\ This.op # "memcpy"
    BY <1>1, <1>6, <2>2 DEF SocketInv
  <2>3. QED  BY <1>1, <2>1, <2>2, SocketsAtStep
<1>8. AttachInv'
  <2>1. \A s \in Session : calls'[s] > 0 => attached'[s] = {}
    BY <1>1, <1>2
  <2>2. Registered' = Registered
    BY <1>1 DEF Registered
  <2>3. ASSUME NEW i \in DOMAIN Prog, i < step + 1
        PROVE  /\ Prog[i].op = "attach" => Prog[i].o \in attached'[Prog[i].s] \/ released[Prog[i].o] > 0
               /\ Prog[i].op = "register" => Prog[i].s \in Registered
    <3>1. CASE i = step
      BY <1>2, <1>5, <3>1 DEF StepDone
    <3>2. CASE i < step
      <4>1. Prog[i].op = "attach" => Prog[i].s \in Session
        BY <1>2, KindFacts
      <4>2. QED  BY <1>3, <1>5, <3>2, <4>1 DEF AttachInv
    <3>3. QED  BY <1>2, <2>3, <3>1, <3>2
  <2>4. QED  BY <1>1, <2>1, <2>2, <2>3 DEF AttachInv
<1>9. CASE This.op = "open" /\ opt.audio = "devaudio"
  <2>1. /\ dd_refcnt' \in [Devices -> Nat] /\ DOMAIN held' = {"pa", "ra"}
        /\ \A o \in {"pa", "ra"} \ {This.o} : held'[o] = held[o]
        /\ \A d \in Devices :
             dd_refcnt'[d] - Cardinality(Users(d)') = dd_refcnt[d] - Cardinality(Users(d))
    BY <1>1, <1>9, DeviceOpened DEF StepDone
  <2>2. ObjectTypes'
    BY <1>1, <1>3, <1>5, <1>6, <2>1 DEF ObjectTypes
  <2>3. DeviceInv'
    <3> SUFFICES ASSUME NEW d \in Devices
                 PROVE  Cardinality(Users(d)') = dd_refcnt'[d]
      BY <2>1 DEF DeviceInv
    <3>1. Cardinality(Users(d)) = dd_refcnt[d]
      BY <1>2, <1>3 DEF DeviceInv
    <3>2. Users(d)' \in SUBSET {"pa", "ra"}
      BY <2>1 DEF Users
    <3>3. Cardinality(Users(d)') \in Int
      BY <3>2, PairCard DEF In
    <3>4. dd_refcnt[d] \in Int /\ dd_refcnt'[d] \in Int
      BY <1>3, <2>1 DEF ObjectTypes
    <3>5. QED  BY <2>1, <3>1, <3>3, <3>4
  <2>4. OpenInv'
    <3> SUFFICES ASSUME NEW o \in {"pa", "ra"}, held'[o] # {}
                 PROVE  /\ \E j \in DOMAIN Prog : Prog[j].op = "open" /\ Prog[j].o = o
                        /\ \A i \in DOMAIN Prog : (i >= step + 1 /\ Prog[i].op = "open") => Prog[i].o # o
      BY <1>1 DEF OpenInv
    <3>1. CASE o = This.o
      <4>1. Opens(Prog, {"pa", "ra"})
        BY ProgFacts
      <4>2. QED  BY <1>2, <1>9, <3>1, <4>1 DEF Opens
    <3>2. CASE o # This.o
      BY <1>2, <1>3, <2>1, <3>2 DEF OpenInv
    <3>3. QED  BY <3>1, <3>2
  <2>5. QED  BY <1>4, <1>7, <1>8, <2>2, <2>3, <2>4 DEF ObjectInv
<1>10. CASE ~(This.op = "open" /\ opt.audio = "devaudio")
  <2>1. UNCHANGED <<held, dd_refcnt>>
    BY <1>10 DEF StepDone
  <2>2. ObjectTypes'
    BY <1>1, <1>3, <1>5, <1>6, <2>1 DEF ObjectTypes
  <2>3. DeviceInv'
    <3>1. \A d : Users(d)' = Users(d)
      BY <1>1, <2>1 DEF Users
    <3>2. QED  BY <1>1, <1>2, <1>3, <2>1, <3>1 DEF DeviceInv
  <2>4. OpenInv'
    BY <1>1, <1>2, <1>3, <2>1 DEF OpenInv
  <2>5. QED  BY <1>4, <1>7, <1>8, <2>2, <2>3, <2>4 DEF ObjectInv
<1>11. QED  BY <1>9, <1>10

(* A step of main() fails.                                                 *)
LEMMA StepFailsInv ==
  ASSUME MainInv, ExitInv, ObjectInv, StepFails
  PROVE  ObjectInv'
<1>1. /\ UNCHANGED <<opt, step, attached, released>>
      /\ Prog' = Prog /\ Starting
  BY DEF StepFails, Prog
<1>2. /\ step \in DOMAIN Prog /\ This = Prog[step] /\ This \in StepSet /\ sphone_exit = 0
      /\ DOMAIN Prog = 1 .. Len(Prog) /\ Len(Prog) \in Nat /\ step \in Nat
  BY <1>1, StartingFacts, ProgFacts DEF ObjectInv, MainInv
<1>3. sphone_exit' = 1 /\ UNCHANGED <<Err_handler, calls>>
  BY <1>2 DEF StepFails, sphone_verror
<1>4. ObjectTypes /\ SocketInv /\ ReleaseInv /\ ReleasedOnce /\ DeviceInv /\ OpenInv /\ AttachInv
  BY DEF ObjectInv
<1>5. ReleaseInv' /\ ReleasedOnce' /\ AttachInv'
  BY <1>1, <1>3, <1>4 DEF ReleaseInv, ReleasedOnce, AttachInv, Registered
<1>6. /\ DOMAIN sock' = {"rtp_r", "rtp_s"} /\ sock'["rtp_r"] \subseteq RcvSockets
      /\ sock["rtp_s"] \subseteq SendSockets => sock'["rtp_s"] \subseteq SendSockets
  <2>1. DOMAIN sock = {"rtp_r", "rtp_s"} /\ sock["rtp_r"] \subseteq RcvSockets
    BY <1>4 DEF ObjectTypes, SocketInv
  <2>2. CASE This.op = "sockets" /\ inet_init(This.o)
    <3>1. This.o \in {"rtp_r", "rtp_s"}
      BY <1>2, <2>2, KindFacts
    <3>2. QED  BY <2>1, <2>2, <3>1 DEF inet_init, RcvSockets, SendSockets
  <2>3. CASE UNCHANGED sock
    BY <2>1, <2>3
  <2>4. QED  BY <2>2, <2>3 DEF StepFails
<1>7. SocketInv'
  BY <1>1, <1>4, <1>6 DEF SocketInv
<1>8. /\ dd_refcnt' \in [Devices -> Nat] /\ DOMAIN held' = {"pa", "ra"}
      /\ \A o \in {"pa", "ra"} : held'[o] # {} =>
           held[o] # {} \/ (This.op = "open" /\ This.o = o)
      /\ \A d \in Devices : Cardinality(Users(d)') <= dd_refcnt'[d]
  <2>1. CASE This.op = "open" /\ audio_devaudio_init(This.o)
    <3>1. /\ dd_refcnt' \in [Devices -> Nat] /\ DOMAIN held' = {"pa", "ra"}
          /\ \A o \in {"pa", "ra"} \ {This.o} : held'[o] = held[o]
          /\ \A d \in Devices :
               dd_refcnt'[d] - Cardinality(Users(d)') = dd_refcnt[d] - Cardinality(Users(d))
      BY <1>1, <2>1, DeviceOpened
    <3>2. ASSUME NEW d \in Devices  PROVE Cardinality(Users(d)') <= dd_refcnt'[d]
      <4>1. Cardinality(Users(d)) = dd_refcnt[d]
        BY <1>2, <1>4 DEF DeviceInv
      <4>2. Users(d)' \in SUBSET {"pa", "ra"}
        BY <3>1 DEF Users
      <4>3. Cardinality(Users(d)') \in Int
        BY <4>2, PairCard DEF In
      <4>4. dd_refcnt[d] \in Int /\ dd_refcnt'[d] \in Int
        BY <1>4, <3>1 DEF ObjectTypes
      <4>5. QED  BY <3>1, <4>1, <4>3, <4>4
    <3>3. QED  BY <2>1, <3>1, <3>2
  <2>2. CASE UNCHANGED held /\ dd_refcnt' \in [Devices -> Nat]
             /\ \A d \in Devices : dd_refcnt[d] <= dd_refcnt'[d]
    <3>1. DOMAIN held' = {"pa", "ra"}
      BY <1>4, <2>2 DEF ObjectTypes
    <3>2. ASSUME NEW d \in Devices  PROVE Cardinality(Users(d)') <= dd_refcnt'[d]
      <4>1. Users(d)' = Users(d)
        BY <1>1, <2>2 DEF Users
      <4>2. Cardinality(Users(d)) = dd_refcnt[d]
        BY <1>2, <1>4 DEF DeviceInv
      <4>3. QED  BY <2>2, <4>1, <4>2
    <3>3. QED  BY <2>2, <3>1, <3>2
  <2>3. CASE InitFails(This.o)
    <3> DEFINE v == DeviceOf(This.o)
    <3>1. /\ dd_refcnt[v] = 0 /\ UNCHANGED held
          /\ dd_refcnt' = dd_refcnt \/ dd_refcnt' = [dd_refcnt EXCEPT ![v] = 1]
      BY <2>3 DEF InitFails
    <3> HIDE DEF v
    <3>2. dd_refcnt \in [Devices -> Nat]
      BY <1>4 DEF ObjectTypes
    <3>3. /\ dd_refcnt' \in [Devices -> Nat]
          /\ \A d \in Devices : dd_refcnt[d] <= dd_refcnt'[d]
      BY <3>1, <3>2
    <3>4. QED  BY <2>2, <3>1, <3>3
  <2>4. CASE UNCHANGED <<held, dd_refcnt>>
    BY <1>4, <2>2, <2>4 DEF ObjectTypes
  <2>5. QED  BY <2>1, <2>3, <2>4 DEF StepFails, MmapFails
<1>9. ObjectTypes'
  BY <1>1, <1>4, <1>6, <1>8 DEF ObjectTypes
<1>10. DeviceInv'
  BY <1>1, <1>2, <1>3, <1>8 DEF DeviceInv
<1>11. OpenInv'
  BY <1>1, <1>2, <1>3, <1>4, <1>8 DEF OpenInv
<1>12. QED  BY <1>5, <1>7, <1>9, <1>10, <1>11 DEF ObjectInv

(* The exit function of a session is called.                               *)
LEMMA ReleaseStep ==
  ASSUME MainInv, ObjectInv, NEW s \in Session, Release(s),
         calls[s] = 0, calls' = [calls EXCEPT ![s] = 1], DOMAIN calls = Session,
         UNCHANGED <<Err_handler, sphone_exit, opt, step, sock, held>>
  PROVE  ObjectInv'
<1>1. ObjectTypes /\ SocketInv /\ ReleaseInv /\ ReleasedOnce /\ DeviceInv /\ OpenInv /\ AttachInv
  BY DEF ObjectInv
<1>2. Prog' = Prog /\ Registered' = Registered
  BY DEF Prog, Registered
<1>3. /\ attached' = [attached EXCEPT ![s] = {}]
      /\ released' = [o \in Objects |-> released[o] + Cardinality(FreedBy(s, o))]
      /\ audio_devaudio_exit(attached[s])
  BY DEF Release, FreedBy
<1>4. /\ attached' \in [Session -> SUBSET (RcvOwned \cup SendOwned)]
      /\ attached'[s] = {} /\ \A t \in Session \ {s} : attached'[t] = attached[t]
  BY <1>1, <1>3 DEF ObjectTypes
<1>5. /\ released' \in [Objects -> Nat]
      /\ \A o \in Objects :
           /\ released'[o] >= released[o]
           /\ o \notin Releases(s) => released'[o] = released[o]
           /\ o \in Releases(s) => released[o] = 0 /\ released'[o] <= 1
           /\ o \in attached[s] => released'[o] = 1
           /\ o \in {"pa", "ra"} \ attached[s] => released'[o] = released[o]
  <2>1. \A o \in Objects :
           /\ Cardinality(FreedBy(s, o)) \in {0, 1}
           /\ o \notin Releases(s) => Cardinality(FreedBy(s, o)) = 0
           /\ o \in attached[s] => Cardinality(FreedBy(s, o)) = 1
           /\ o \in {"pa", "ra"} \ attached[s] => Cardinality(FreedBy(s, o)) = 0
    BY <1>1, FreedOnce
  <2>2. \A o \in Objects : o \in Releases(s) => released[o] = 0
    BY <1>1 DEF ReleaseInv
  <2>3. attached[s] \subseteq Releases(s)
    BY <1>1 DEF ObjectTypes, Releases
  <2>4. \A o \in Objects : /\ released[o] \in Nat
                           /\ released'[o] = released[o] + Cardinality(FreedBy(s, o))
    BY <1>1, <1>3 DEF ObjectTypes
  <2>5. released' \in [Objects -> Nat]
    <3>1. \A o \in Objects : released[o] + Cardinality(FreedBy(s, o)) \in Nat
      BY <2>1, <2>4
    <3>2. QED  BY <1>3, <3>1
  <2>6. QED  BY <2>1, <2>2, <2>3, <2>4, <2>5
<1>6. SocketInv'
  BY <1>1, <1>2, <1>4 DEF SocketInv
<1>7. ReleaseInv'
  <2> SUFFICES ASSUME NEW t \in Session, calls'[t] = 0, NEW o \in Objects \cap Releases(t)
               PROVE  released'[o] = 0
    BY DEF ReleaseInv
  <2>1. t # s /\ calls[t] = 0
    OBVIOUS
  <2>2. o \notin Releases(s)
    BY <2>1 DEF Releases, Owned, RcvOwned, SendOwned, RcvSockets, SendSockets, Session
  <2>3. QED  BY <1>1, <1>5, <2>1, <2>2 DEF ReleaseInv
<1>8. ReleasedOnce'
  BY <1>1, <1>5 DEF ReleasedOnce
<1>9. AttachInv'
  <2>1. \A t \in Session : calls'[t] > 0 => attached'[t] = {}
    BY <1>1, <1>4 DEF AttachInv
  <2>2. ASSUME NEW i \in DOMAIN Prog, i < step, Prog[i].op = "attach"
        PROVE  Prog[i].o \in attached'[Prog[i].s] \/ released'[Prog[i].o] > 0
    <3>1. Prog[i].s \in Session /\ Prog[i].o \in Objects
      BY <2>2, ProgFacts, KindFacts
    <3>2. Prog[i].o \in attached[Prog[i].s] \/ released[Prog[i].o] > 0
      BY <1>1, <2>2 DEF AttachInv
    <3>3. released[Prog[i].o] \in Nat
      BY <1>1, <3>1 DEF ObjectTypes
    <3>4. QED  BY <1>4, <1>5, <3>1, <3>2, <3>3
  <2>3. QED  BY <1>1, <1>2, <2>1, <2>2 DEF AttachInv
<1>10. /\ dd_refcnt' \in [Devices -> Nat]
       /\ \A d \in Devices :
            dd_refcnt'[d] - Cardinality(Users(d)') = dd_refcnt[d] - Cardinality(Users(d))
  <2> DEFINE L(d) == {o \in attached[s] \cap DOMAIN held : d \in held[o]}
  <2>1. DOMAIN held = {"pa", "ra"} /\ dd_refcnt \in [Devices -> Nat]
    BY <1>1 DEF ObjectTypes
  <2>2. dd_refcnt' = [d \in Devices |-> dd_refcnt[d] - Cardinality(L(d))]
    BY <1>3 DEF audio_devaudio_exit
  <2>3. ASSUME NEW d \in Devices
        PROVE  /\ dd_refcnt[d] - Cardinality(L(d)) \in Nat
               /\ dd_refcnt[d] - Cardinality(L(d)) - Cardinality(Users(d)')
                    = dd_refcnt[d] - Cardinality(Users(d))
    <3>1. /\ L(d) \in SUBSET {"pa", "ra"} /\ Users(d) \in SUBSET {"pa", "ra"}
          /\ Users(d)' \in SUBSET {"pa", "ra"}
      BY <2>1 DEF Users
    <3>2. \A o \in {"pa", "ra"} :
             /\ o \in L(d) => o \in Users(d) /\ o \notin Users(d)'
             /\ o \notin L(d) => (o \in Users(d)' <=> o \in Users(d))
      <4> SUFFICES ASSUME NEW o \in {"pa", "ra"}
                   PROVE  /\ o \in L(d) => o \in Users(d) /\ o \notin Users(d)'
                          /\ o \notin L(d) => (o \in Users(d)' <=> o \in Users(d))
        OBVIOUS
      <4>1. o \in Objects
        BY AudioObjects
      <4>2. o \in attached[s] => released[o] = 0 /\ released'[o] = 1
        BY <1>1, <1>5, <4>1 DEF ObjectTypes, Releases
      <4>3. o \notin attached[s] => released'[o] = released[o]
        BY <1>5, <4>1
      <4>4. QED  BY <2>1, <4>2, <4>3 DEF Users
    <3> HIDE DEF L
    <3>3. /\ Cardinality(L(d)) = In("pa", L(d)) + In("ra", L(d))
          /\ Cardinality(Users(d)) = In("pa", Users(d)) + In("ra", Users(d))
          /\ Cardinality(Users(d)') = In("pa", Users(d)') + In("ra", Users(d)')
      BY <3>1, PairCard
    <3>4. Cardinality(Users(d)) = Cardinality(L(d)) + Cardinality(Users(d)')
      BY <3>2, <3>3 DEF In
    <3>5. /\ Cardinality(Users(d)) \in Nat /\ Cardinality(L(d)) \in Nat
          /\ Cardinality(Users(d)') \in Nat
      BY <3>3 DEF In
    <3>6. Cardinality(Users(d)) <= dd_refcnt[d] /\ dd_refcnt[d] \in Nat
      BY <1>1, <2>1 DEF DeviceInv
    <3>7. QED  BY <3>4, <3>5, <3>6
  <2> HIDE DEF L
  <2>4. QED  BY <2>2, <2>3
<1>11. DeviceInv'
  <2> SUFFICES ASSUME NEW d \in Devices
               PROVE  /\ Cardinality(Users(d)') <= dd_refcnt'[d]
                      /\ (sphone_exit = 0 \/ step > Len(Prog)) => Cardinality(Users(d)') = dd_refcnt'[d]
    BY <1>2 DEF DeviceInv
  <2>1. DOMAIN held = {"pa", "ra"} /\ dd_refcnt[d] \in Int /\ dd_refcnt'[d] \in Int
    BY <1>1, <1>10 DEF ObjectTypes
  <2>2. Users(d) \in SUBSET {"pa", "ra"} /\ Users(d)' \in SUBSET {"pa", "ra"}
    BY <2>1 DEF Users
  <2>3. Cardinality(Users(d)) \in Int /\ Cardinality(Users(d)') \in Int
    BY <2>2, PairCard DEF In
  <2>4. QED  BY <1>1, <1>10, <2>1, <2>3 DEF DeviceInv
<1>12. OpenInv'
  BY <1>1, <1>2 DEF OpenInv
<1>13. ObjectTypes'
  BY <1>1, <1>4, <1>5, <1>10 DEF ObjectTypes
<1>14. QED  BY <1>6, <1>7, <1>8, <1>9, <1>11, <1>12, <1>13 DEF ObjectInv

(* An exit function is called.                                             *)
LEMMA CallExitInv ==
  ASSUME MainInv, ExitInv, ExitInv', ObjectInv, CallExitFunction
  PROVE  ObjectInv'
<1> DEFINE k == frames[1].eh
           eh == Err_handler[k]
           m == eh.eh_mod
<1>1. /\ CallHandler /\ UNCHANGED <<Err_handler, sphone_exit, opt, step, sock, held>>
  BY DEF CallExitFunction, CallHandler
<1>2. k \in DOMAIN Err_handler /\ m \in Session /\ eh.eh_fn \in BOOLEAN
  <2>1. /\ frames # <<>> /\ k <= Len(Err_handler) /\ Running
    BY <1>1 DEF CallHandler
  <2>2. k \in 1 .. Len(Err_handler) + 1
    BY <2>1 DEF ExitInv, CallsMatch, Running
  <2>3. /\ Len(Err_handler) \in Nat /\ DOMAIN Err_handler = 1 .. Len(Err_handler)
        /\ \A i \in DOMAIN Err_handler :
             Err_handler[i] \in [eh_mod : Modules, eh_fn : BOOLEAN, nr : Nat]
    BY ListFacts DEF ExitInv
  <2> HIDE DEF k
  <2>4. k \in DOMAIN Err_handler
    BY <2>1, <2>2, <2>3
  <2>5. QED  BY <2>3, <2>4, PhoneAssumption
<1>3. CASE eh.eh_fn
  <2>1. calls' = [calls EXCEPT ![m] = @ + 1] /\ Release(m)
    BY <1>1, <1>3 DEF CallHandler, CallExitFunction
  <2>2. calls \in [Session -> Nat] /\ calls'[m] <= 1
    <3>1. calls \in [Session -> Nat]
      BY PhoneAssumption DEF ExitInv, TypeOK
    <3>2. \A x \in Session : calls'[x] <= 1
      BY PhoneAssumption DEF ExitInv, HandlersOnce
    <3>3. QED  BY <1>2, <3>1, <3>2
  <2> HIDE DEF m
  <2>3. calls[m] = 0 /\ calls' = [calls EXCEPT ![m] = 1] /\ DOMAIN calls = Session
    <3>1. DOMAIN calls = Session /\ calls[m] \in Nat
      BY <1>2, <2>2
    <3>2. calls' = [calls EXCEPT ![m] = calls[m] + 1]
      BY <2>1
    <3>3. calls'[m] = calls[m] + 1
      BY <1>2, <3>1, <3>2
    <3>4. calls[m] = 0
      BY <2>2, <3>1, <3>3
    <3>5. QED  BY <3>1, <3>2, <3>4
  <2>4. QED  BY <1>1, <1>2, <2>1, <2>3, ReleaseStep
<1>4. CASE ~eh.eh_fn
  <2>1. UNCHANGED <<calls, released, attached, dd_refcnt>>
    BY <1>1, <1>4 DEF CallHandler, CallExitFunction
  <2>2. Registered' = Registered
    BY <1>1 DEF Registered
  <2>3. QED  BY <1>1, <2>1, <2>2, QuietStep DEF phoneVars
<1>5. QED  BY <1>3, <1>4

LEMMA ObjectNext ==
  ASSUME MainInv, ExitInv, ExitInv', ObjectInv, [PhoneNext]_allVars
  PROVE  ObjectInv'
<1>1. Registered \subseteq Registered' /\ (SessionNew => This.s \in Registered')
  BY RegisteredGrows
<1>2. sphone_exit \in Nat
  BY DEF ExitInv, TypeOK
<1>3. CASE StepFailsSilently \/ LeaveStart \/ RunStep \/ UNCHANGED allVars
  <2>1. UNCHANGED phoneVars
    BY <1>3 DEF StepFailsSilently, LeaveStart, RunStep, allVars
  <2>2. UNCHANGED calls
    BY <1>3 DEF StepFailsSilently, exit0, LeaveStart, StartLoop, RunStep, SetFunction, Callback,
                MainReturns, EndWalk, Return, sphone_verror, sphone_signal_exit, allVars, vars
  <2>3. sphone_exit' = sphone_exit \/ sphone_exit' = sphone_exit + 1
    BY <1>3 DEF StepFailsSilently, exit0, LeaveStart, StartLoop, RunStep, SetFunction, Callback,
                MainReturns, EndWalk, Return, sphone_verror, sphone_signal_exit, allVars, vars
  <2>4. QED  BY <1>1, <1>2, <2>1, <2>2, <2>3, QuietStep
<1>4. QED
  BY <1>1, <1>3, SessionNewInv, StepDoneInv, StepFailsInv, CallExitInv DEF PhoneNext

LEMMA ObjectInit == PhoneInit => ObjectInv
<1> SUFFICES ASSUME PhoneInit PROVE ObjectInv
  OBVIOUS
<1>1. /\ step = 1 /\ attached = [s \in Session |-> {}] /\ released = [o \in Objects |-> 0]
      /\ sock = [o \in {"rtp_r", "rtp_s"} |-> {}] /\ held = [o \in {"pa", "ra"} |-> {}]
      /\ dd_refcnt = [d \in Devices |-> 0] /\ calls = [s \in Session |-> 0]
  BY PhoneAssumption DEF PhoneInit, Init
<1>2. MainInv
  BY DEF PhoneInit, MainInv, PhoneOptions, SendOptions, RcvOptions, Apps
<1>3. ObjectTypes /\ ReleaseInv /\ ReleasedOnce /\ OpenInv
  BY <1>1 DEF ObjectTypes, ReleaseInv, ReleasedOnce, OpenInv
<1>4. SocketInv
  <2>1. Prog \in Seq(RestSet) \/ CopiesFrom(Prog, 1)
    BY <1>2, StartSteps DEF MainInv, Prog
  <2>2. Prog \in Seq(RestSet) => \A i \in DOMAIN Prog : Prog[i] \in RestSet
    BY ElementOfSeq, LenProperties
  <2>3. QED  BY <1>1, <2>1, <2>2 DEF SocketInv
<1>5. DeviceInv
  <2>1. \A d : Users(d) = {}
    BY <1>1 DEF Users
  <2>2. QED  BY <1>1, <2>1, FS_EmptySet DEF DeviceInv
<1>6. AttachInv
  BY <1>1, <1>2, ProgFacts DEF AttachInv
<1>7. QED  BY <1>3, <1>4, <1>5, <1>6 DEF ObjectInv

(* What the invariant says of the device: when main() has opened all and   *)
(* both sessions are released, nobody uses it.                             *)
LEMMA InvDeviceShared == MainInv /\ ObjectInv => DeviceShared
<1> SUFFICES ASSUME MainInv, ObjectInv PROVE DeviceShared
  OBVIOUS
<1>1. \A d \in Devices : Cardinality(Users(d)) <= dd_refcnt[d]
  BY DEF ObjectInv, DeviceInv
<1>2. ASSUME opt.app # "send", step > Len(Prog), \A s \in Registered : calls[s] > 0,
             NEW d \in Devices
      PROVE  dd_refcnt[d] = 0
  <2>1. /\ Len(Prog) \in Nat /\ DOMAIN Prog = 1 .. Len(Prog) /\ step \in Nat
        /\ \A i \in DOMAIN Prog : i < step
    BY <1>2, ProgFacts DEF MainInv
  <2>2. ASSUME NEW s \in Session, NEW o, \A x \in KeepsIn(s, o) : Has(Prog, x)
        PROVE  released[o] > 0
    <3>1. s \in Registered
      <4>1. PICK i \in DOMAIN Prog : Prog[i] = Step("register", s, s)
        BY <2>2 DEF KeepsIn, Has
      <4>2. Prog[i].op = "register" /\ Prog[i].s = s
        BY <4>1 DEF Step
      <4>3. QED  BY <2>1, <4>2 DEF ObjectInv, AttachInv
    <3>2. attached[s] = {}
      BY <1>2, <3>1 DEF ObjectInv, AttachInv
    <3>3. PICK i \in DOMAIN Prog : Prog[i] = Step("attach", s, o)
      BY <2>2 DEF KeepsIn, Has
    <3>4. Prog[i].op = "attach" /\ Prog[i].s = s /\ Prog[i].o = o
      BY <3>3 DEF Step
    <3>5. QED  BY <2>1, <3>2, <3>4 DEF ObjectInv, AttachInv
  <2>3. ASSUME NEW o \in Users(d)  PROVE FALSE
    <3>1. o \in {"pa", "ra"} /\ held[o] # {} /\ released[o] = 0
      BY <2>3 DEF Users, ObjectInv, ObjectTypes
    <3>2. PICK j \in DOMAIN Prog : Prog[j].op = "open" /\ Prog[j].o = o
      BY <3>1 DEF ObjectInv, OpenInv
    <3>3. IF Prog[j].o = "pa"
          THEN \A x \in KeepsIn("rcv_session", "pa") : Has(Prog, x)
          ELSE \A x \in KeepsIn("send_session", "ra") : Has(Prog, x)
      BY <1>2, <3>2, StartSteps DEF MainInv, Prog
    <3>4. "rcv_session" \in Session /\ "send_session" \in Session
      BY DEF Session
    <3>5. CASE o = "pa"
      BY <2>2, <3>1, <3>2, <3>3, <3>4, <3>5
    <3>6. CASE o = "ra"
      BY <2>2, <3>1, <3>2, <3>3, <3>4, <3>6
    <3>7. QED  BY <3>1, <3>5, <3>6
  <2>4. Users(d) = {}
    BY <2>3
  <2>5. Cardinality(Users(d)) = dd_refcnt[d]
    BY <1>2 DEF ObjectInv, DeviceInv
  <2>6. QED  BY <2>4, <2>5, FS_EmptySet
<1>3. QED  BY <1>1, <1>2 DEF DeviceShared, Users, Prog

LEMMA ObjectsInvariant ==
  ASSUME OneSignal
  PROVE  PhoneSpec => [](MainInv /\ ObjectInv)
<1>1. PhoneInit => ExitInv
  BY InitInv DEF PhoneInit
<1>2. MainInv /\ ExitInv /\ [PhoneNext]_allVars => ExitInv'
  BY PhoneKeepsExitInv
<1>3. MainInv /\ ExitInv /\ ExitInv' /\ ObjectInv /\ [PhoneNext]_allVars => ObjectInv'
  BY ObjectNext
<1>4. QED  BY <1>1, <1>2, <1>3, ObjectInit, MainInvariant, PTL DEF PhoneSpec

(* In phone, send and rcv no object is freed and no socket is closed       *)
(* twice, although phone copies the RTP session of the receiver to the     *)
(* sender: whichever step of main() or callback fails and whenever the     *)
(* signal comes.                                                           *)
THEOREM ObjectsReleasedOnce ==
  ASSUME OneSignal
  PROVE  PhoneSpec => []ReleasedOnce
<1>1. ObjectInv => ReleasedOnce
  BY DEF ObjectInv
<1>2. QED  BY <1>1, ObjectsInvariant, PTL

(* An audio device stays open as long as a player or recorder uses it, and *)
(* is closed when the exit functions of phone or rcv are done.             *)
THEOREM DeviceIsShared ==
  ASSUME OneSignal
  PROVE  PhoneSpec => []DeviceShared
  BY ObjectsInvariant, InvDeviceShared, PTL
=============================================================================
