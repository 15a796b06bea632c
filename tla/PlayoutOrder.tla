----------------------------- MODULE PlayoutOrder -----------------------------
(***************************************************************************)
(* What a receiver of one stream promises its audio device: the packets it *)
(* plays never go back in the stream, and once it has stopped it plays no  *)
(* more.  Where the network duplicates packets (Replay) the last packet    *)
(* may be played again.                                                    *)
(***************************************************************************)
EXTENDS Naturals

CONSTANT Replay   \* may a packet be played again?

VARIABLES last,     \* position in the stream of the last packet played
          running   \* the receiver is in its event loop

Init == last = 0 /\ running = TRUE

Play ==
  /\ running
  /\ last' \in Nat
  /\ IF Replay THEN last' >= last ELSE last' > last
  /\ running' = TRUE

Stop ==
  /\ running
  /\ running' = FALSE
  /\ last' = last

Next == Play \/ Stop

Spec == Init /\ [][Next]_<<last, running>>
=============================================================================
