----------------------------- MODULE MCEventloop ------------------------------
(* Two descriptors, two callbacks, up to three events at a time, and       *)
(* behaviours without end: Rebase moves the origin of time and renames     *)
(* events, neither of which the loop can tell.                             *)
EXTENDS Eventloop, FiniteSets

Listed(list) == {list[i].id : i \in DOMAIN list}
Rank(id) == Cardinality({n \in Listed(ee) \cup Listed(ee_timers) : n <= id})
Renamed(list) == [i \in DOMAIN list |-> [list[i] EXCEPT !.id = Rank(@)]]

\* The earliest time that is still of use.
Origin ==
  LET times == {now} \cup {ee_timers[i].time : i \in DOMAIN ee_timers}
  IN  CHOOSE t \in times : \A u \in times : t <= u

Rebase ==
  /\ pc = "loop"
  /\ Origin > 0 \/ ids > Rank(ids)
  /\ now' = now - Origin
  /\ ee' = Renamed(ee)
  /\ ee_timers' = [i \in DOMAIN ee_timers |->
                     [Renamed(ee_timers)[i] EXCEPT !.time = @ - Origin]]
  /\ ids' = Rank(ids)
  /\ UNCHANGED <<readable, fdset, e_next, cur, pc, ops, sphone_exit>>

MCSpec == Init /\ [][Next \/ Rebase]_vars /\ WF_vars(LoopStep)
=============================================================================
