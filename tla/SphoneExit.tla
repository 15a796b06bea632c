------------------------------ MODULE SphoneExit -------------------------------
(***************************************************************************)
(* How a sphone program ends: src/sphone_error.c.  Modules register exit   *)
(* functions while main() initialises; sphone_error, called by a callback, *)
(* and the signal handler sphone_signal_exit go through them.  A signal    *)
(* may arrive between any two steps, in the middle of exit_register and of *)
(* exit_handler too; set_signal blocks no other signal while one is        *)
(* handled.                                                                *)
(*                                                                         *)
(* frames is the stack of calls on top of main(): sphone_verror and signal *)
(* handlers, each with its place in the list of exit functions.            *)
(***************************************************************************)
EXTENDS Integers, Sequences, FiniteSets

CONSTANTS
  Modules,   \* modules that register an exit function
  Signals,   \* signals that sphone_signal_exit handles
  Failing    \* may a callback fail without calling sphone_error?

ASSUME ExitAssumption ==
  IsFiniteSet(Modules) /\ Failing \in BOOLEAN /\ "error" \notin Signals

VARIABLES
  Err_handler,   \* registered exit functions, head of the list first
  frames,        \* calls in progress, the innermost first
  main_pc,       \* where main() is
  sphone_exit,
  proc,          \* "running", "exited" or "crashed"
  calls          \* history: how often each exit function was called

vars == <<Err_handler, frames, main_pc, sphone_exit, proc, calls>>

\* eh_fn is 0 (memset) until exit_register has set it; nr is history: the
\* place of the module in the order of registration.
Handler == [eh_mod : Modules, eh_fn : BOOLEAN, nr : 1 .. Cardinality(Modules)]
Frame == [kind : {"error"} \cup Signals, eh : 1 .. Cardinality(Modules) + 1]

Init ==
  /\ Err_handler = <<>> /\ frames = <<>>
  /\ main_pc = "init" /\ sphone_exit = 0 /\ proc = "running"
  /\ calls = [m \in Modules |-> 0]

Running == proc = "running"
InMain  == Running /\ frames = <<>>
Registered == {Err_handler[i].eh_mod : i \in DOMAIN Err_handler}

exit0 == proc' = "exited" /\ UNCHANGED <<frames, sphone_exit, calls>>

-----------------------------------------------------------------------------
(* main() and the callbacks of the event loop *)

\* Mutant: the exit functions are called in the order of registration.
LinkTail(m) ==
  /\ InMain /\ main_pc = "init" /\ sphone_exit = 0
  /\ m \notin Registered
  /\ Err_handler' = Append(Err_handler, [eh_mod |-> m, eh_fn |-> TRUE, nr |-> Len(Err_handler) + 1])
  /\ UNCHANGED <<frames, main_pc, sphone_exit, proc, calls>>

\* exit_register links the new entry before it sets the function.
Link(m) ==
  /\ InMain /\ main_pc = "init" /\ sphone_exit = 0
  /\ m \notin Registered
  /\ Err_handler' = <<[eh_mod |-> m, eh_fn |-> FALSE, nr |-> Len(Err_handler) + 1]>>
                      \o Err_handler
  /\ main_pc' = "linked"
  /\ UNCHANGED <<frames, sphone_exit, proc, calls>>

SetFunction ==
  /\ InMain /\ main_pc = "linked"
  /\ Err_handler' = [Err_handler EXCEPT ![1].eh_fn = TRUE]
  /\ main_pc' = "init"
  /\ UNCHANGED <<frames, sphone_exit, proc, calls>>

\* The loop is entered; after an error main() returns.
StartLoop ==
  /\ InMain /\ main_pc = "init"
  /\ main_pc' = IF sphone_exit > 0 THEN "left" ELSE "loop"
  /\ UNCHANGED <<Err_handler, frames, sphone_exit, proc, calls>>

Callback ==
  /\ InMain /\ main_pc = "loop"
  /\ main_pc' = "callback"
  /\ UNCHANGED <<Err_handler, frames, sphone_exit, proc, calls>>

\* Mutant: sphone_exit is tested at the top of the loop only when it is
\* entered.
ReturnContinues(rc) ==
  /\ InMain /\ main_pc = "callback"
  /\ rc < 0 /\ ~Failing => sphone_exit > 0
  /\ sphone_exit' = IF rc < 0 THEN sphone_exit + 1 ELSE sphone_exit
  /\ main_pc' = IF rc < 0 THEN "left" ELSE "loop"
  /\ UNCHANGED <<Err_handler, frames, proc, calls>>

\* The callback returns; a plain -1 leaves the loop as well.
Return(rc) ==
  /\ InMain /\ main_pc = "callback"
  /\ rc < 0 /\ ~Failing => sphone_exit > 0
  /\ sphone_exit' = IF rc < 0 THEN sphone_exit + 1 ELSE sphone_exit
  /\ main_pc' = IF sphone_exit' > 0 THEN "left" ELSE "loop"
  /\ UNCHANGED <<Err_handler, frames, proc, calls>>

\* "Normal exit": main() returns after the loop.
MainReturns ==
  /\ InMain /\ main_pc = "left"
  /\ exit0
  /\ UNCHANGED <<Err_handler, main_pc>>

-----------------------------------------------------------------------------
(* sphone_verror, sphone_signal_exit and exit_handler *)

\* A walk over the list begins.
Enter(kind) == frames' = <<[kind |-> kind, eh |-> 1]>> \o frames

\* Mutant: sphone_exit is not set before the exit functions are called.
sphone_verrorLate ==
  /\ InMain /\ main_pc \in {"init", "callback"}
  /\ IF sphone_exit > 0 THEN exit0
     ELSE Enter("error") /\ UNCHANGED <<sphone_exit, proc, calls>>
  /\ UNCHANGED <<Err_handler, main_pc>>

\* "Second time: just exit".
sphone_verror ==
  /\ InMain /\ main_pc \in {"init", "callback"}
  /\ IF sphone_exit > 0 THEN exit0
     ELSE /\ sphone_exit' = sphone_exit + 1
          /\ Enter("error")
          /\ UNCHANGED <<proc, calls>>
  /\ UNCHANGED <<Err_handler, main_pc>>

\* A signal arrives; one that is being handled is blocked.
sphone_signal_exit(sig) ==
  /\ Running
  /\ \A i \in DOMAIN frames : frames[i].kind # sig
  /\ IF sphone_exit > 0 THEN exit0
     ELSE Enter(sig) /\ UNCHANGED <<sphone_exit, proc, calls>>
  /\ UNCHANGED <<Err_handler, main_pc>>

\* The innermost walk calls the next exit function.
CallHandler ==
  /\ Running /\ frames # <<>>
  /\ frames[1].eh <= Len(Err_handler)
  /\ LET eh == Err_handler[frames[1].eh]
     IN  IF eh.eh_fn
         THEN calls' = [calls EXCEPT ![eh.eh_mod] = @ + 1] /\ UNCHANGED proc
         ELSE proc' = "crashed" /\ UNCHANGED calls
  /\ frames' = [frames EXCEPT ![1].eh = @ + 1]
  /\ UNCHANGED <<Err_handler, main_pc, sphone_exit>>

\* exit_handler is done: sphone_verror returns, a signal handler exits.
EndWalk ==
  /\ Running /\ frames # <<>>
  /\ frames[1].eh = Len(Err_handler) + 1
  /\ IF frames[1].kind = "error"
     THEN frames' = Tail(frames) /\ UNCHANGED <<sphone_exit, proc>>
     ELSE sphone_exit' = sphone_exit + 1 /\ proc' = "exited" /\ UNCHANGED frames
  /\ UNCHANGED <<Err_handler, main_pc, calls>>

Next ==
  \/ \E m \in Modules : Link(m)
  \/ SetFunction \/ StartLoop \/ Callback
  \/ \E rc \in {0, -1} : Return(rc)
  \/ MainReturns
  \/ sphone_verror
  \/ \E sig \in Signals : sphone_signal_exit(sig)
  \/ CallHandler \/ EndWalk

Spec == Init /\ [][Next]_vars

\* The process is scheduled; its callbacks return.
FairSpec ==
  Spec /\ WF_vars(\/ SetFunction \/ StartLoop
                  \/ \E rc \in {0, -1} : Return(rc)
                  \/ MainReturns \/ CallHandler \/ EndWalk)

-----------------------------------------------------------------------------
(* Properties *)

(* "Second time: just exit - we have been here before": no exit function   *)
(* is called twice (they free what they get as an argument).               *)
HandlersOnce == \A m \in Modules : calls[m] <= 1

(* "The exit handlers will be called in reverse order": whatever a signal  *)
(* interrupts, a module is not released before one that was registered     *)
(* after it.                                                               *)
ReverseOrder ==
  proc # "crashed" => \A i, j \in DOMAIN Err_handler :
    (Err_handler[i].nr > Err_handler[j].nr /\ calls[Err_handler[j].eh_mod] > 0)
      => calls[Err_handler[i].eh_mod] > 0

(* "The returns from both methods should ultimately lead to an exit in the *)
(* top-level function": once sphone_exit is set the process ends.          *)
ErrorExits == (sphone_exit > 0) ~> ~Running
=============================================================================
