------------------------------- MODULE Eventloop -------------------------------
(***************************************************************************)
(* The event loop of src/sphone_eventloop.c.  Everything in sphone, spc    *)
(* and sps runs as a callback of this loop: the two lists of registered    *)
(* events are changed by the very callbacks that the loop calls while it   *)
(* walks them.                                                             *)
(*                                                                         *)
(* A callback is modelled by what it may do to the loop: consume the input *)
(* of its file descriptor, make up to MaxOps calls of eventloop_reg_fd,    *)
(* eventloop_reg_timeout and eventloop_unreg, and return 0 or -1.  The     *)
(* pair (fn, arg) that identifies an event is a member of Callbacks.       *)
(***************************************************************************)
EXTENDS Integers, Sequences, SequencesExt

CONSTANTS
  Fds, Callbacks,
  MaxTime,      \* bound of the model: the clock
  MaxEvents,    \* bound of the model: events ever registered
  MaxOps        \* bound of the model: calls made by one callback

ASSUME LoopAssumption ==
  /\ MaxTime \in Nat /\ MaxEvents \in Nat /\ MaxOps \in Nat
  /\ Fds # {} /\ Callbacks # {}

VARIABLES
  ee,           \* registered descriptors, head of the list first
  ee_timers,    \* registered timeouts, head of the list first
  now,          \* gettimestamp()
  readable,     \* descriptors with input pending
  fdset,        \* what select returned
  e_next,       \* the loop's pointer to the next event: its id, 0 for NULL
  cur,          \* the event whose callback runs
  pc,           \* where the loop is
  ops,          \* bound: calls made by the running callback
  ids,          \* history: events registered so far (an event's address)
  sphone_exit

vars == <<ee, ee_timers, now, readable, fdset, e_next, cur, pc, ops, ids,
          sphone_exit>>

FdEvent   == [id : 1 .. MaxEvents, fd : Fds, fn : Callbacks]
TimeEvent == [id : 1 .. MaxEvents, time : 0 .. MaxTime, fn : Callbacks]
NoEvent   == [id |-> 0]

Init ==
  /\ ee = <<>> /\ ee_timers = <<>>
  /\ now = 0 /\ readable = {} /\ fdset = {}
  /\ e_next = 0 /\ cur = NoEvent /\ pc = "start" /\ ops = 0 /\ ids = 0
  /\ sphone_exit = 0

Registered == {ee[i].fd : i \in DOMAIN ee}
Position(list, id) == {i \in DOMAIN list : list[i].id = id}

\* e->e_next of the i-th event of the list.
NextOf(list, i) == IF i < Len(list) THEN list[i + 1].id ELSE 0

InCallback == pc \in {"fd_callback", "timer_callback"}

\* Calls are made by main() before the loop starts and by callbacks.
MayCall == (pc = "start" \/ InCallback) /\ ops < MaxOps /\ sphone_exit = 0

Called == ops' = ops + 1

-----------------------------------------------------------------------------
(* Registration *)

\* Mutant: not later is taken for earlier.
InsertPositionLast(time) ==
  LET later == {i \in DOMAIN ee_timers : time <= ee_timers[i].time}
  IN  IF later = {} THEN Len(ee_timers) + 1
      ELSE CHOOSE i \in later : \A j \in later : i <= j

\* The place of the first timeout that is strictly later, or the end.
InsertPosition(time) ==
  LET later == {i \in DOMAIN ee_timers : time < ee_timers[i].time}
  IN  IF later = {} THEN Len(ee_timers) + 1
      ELSE CHOOSE i \in later : \A j \in later : i <= j

eventloop_reg_timeout(time, fn) ==
  /\ MayCall /\ Called
  /\ ids < MaxEvents
  /\ ids' = ids + 1
  /\ ee_timers' = InsertAt(ee_timers, InsertPosition(time),
                           [id |-> ids + 1, time |-> time, fn |-> fn])
  /\ UNCHANGED <<ee, now, readable, fdset, e_next, cur, pc, sphone_exit>>

\* Mutant: the event is put at the tail of the list.
reg_fdTail(fd, fn) ==
  /\ MayCall /\ Called
  /\ ids < MaxEvents
  /\ ids' = ids + 1
  /\ ee' = Append(ee, [id |-> ids + 1, fd |-> fd, fn |-> fn])
  /\ UNCHANGED <<ee_timers, now, readable, fdset, e_next, cur, pc, sphone_exit>>

eventloop_reg_fd(fd, fn) ==
  /\ MayCall /\ Called
  /\ ids < MaxEvents
  /\ ids' = ids + 1
  /\ ee' = <<[id |-> ids + 1, fd |-> fd, fn |-> fn]>> \o ee
  /\ UNCHANGED <<ee_timers, now, readable, fdset, e_next, cur, pc, sphone_exit>>

\* The list without the first of the events at positions m.
WithoutFirst(list, m) ==
  IF m = {} THEN list ELSE RemoveAt(list, CHOOSE i \in m : \A j \in m : i <= j)

\* Removes the first timeout of the callback and the first event of the
\* callback on the descriptor.
eventloop_unreg(fd, fn) ==
  /\ MayCall /\ Called
  /\ ee_timers' = WithoutFirst(ee_timers, {i \in DOMAIN ee_timers : ee_timers[i].fn = fn})
  /\ ee' = WithoutFirst(ee, {i \in DOMAIN ee : ee[i].fn = fn /\ ee[i].fd = fd})
  /\ UNCHANGED <<now, readable, fdset, e_next, cur, pc, ids, sphone_exit>>

-----------------------------------------------------------------------------
(* How the callbacks of the repository use these calls: a descriptor is    *)
(* registered once at a time; a descriptor's callback unregisters its own  *)
(* event or one that was registered after it (connect_input of sps drops a *)
(* client's event, server_input of spc its own); a timeout is set relative *)
(* to the time, or to the deadline that has just passed.                   *)

UnregDiscipline(fd, fn) ==
  pc = "fd_callback" =>
    \A i \in DOMAIN ee : (ee[i].fd = fd /\ ee[i].fn = fn) => ee[i].id >= cur.id

RegTimeout ==
  \E fn \in Callbacks, delay \in 1 .. 2,
     base \in {now} \cup (IF pc = "timer_callback" THEN {cur.time} ELSE {}) :
    base + delay <= MaxTime /\ eventloop_reg_timeout(base + delay, fn)

RegFd ==
  \E fd \in Fds \ Registered, fn \in Callbacks : eventloop_reg_fd(fd, fn)

Unreg ==
  \E fd \in Fds, fn \in Callbacks :
    UnregDiscipline(fd, fn) /\ eventloop_unreg(fd, fn)

-----------------------------------------------------------------------------
(* The loop *)

Ready == readable \cap Registered

\* t.tv_sec < 0: the first timeout is overdue and select is not called.
Overdue == ee_timers # <<>> /\ Head(ee_timers).time < now

StartLoop ==
  /\ pc = "start"
  /\ pc' = "loop"
  /\ ops' = 0
  /\ UNCHANGED <<ee, ee_timers, now, readable, fdset, e_next, cur, ids,
                 sphone_exit>>

\* Mutant: FD_ZERO is called once, before the loop.
SelectReadyKeepsSet ==
  /\ pc = "loop"
  /\ ~Overdue
  /\ Ready # {}
  /\ fdset' = fdset \cup Ready
  /\ pc' = "dispatch"
  /\ e_next' = Head(ee).id
  /\ UNCHANGED <<ee, ee_timers, now, readable, cur, ops, ids, sphone_exit>>

\* select returns descriptors; interrupted (EINTR) it is called again.
SelectReady ==
  /\ pc = "loop"
  /\ ~Overdue
  /\ Ready # {}
  /\ fdset' = Ready
  /\ pc' = "dispatch"
  /\ e_next' = Head(ee).id
  /\ UNCHANGED <<ee, ee_timers, now, readable, cur, ops, ids, sphone_exit>>

\* Mutant: an interrupted select is taken for a timeout.
FireTimerEarly ==
  /\ pc = "loop"
  /\ ee_timers # <<>>
  /\ cur' = Head(ee_timers)
  /\ ee_timers' = Tail(ee_timers)
  /\ pc' = "timer_callback"
  /\ ops' = 0
  /\ UNCHANGED <<ee, now, readable, fdset, e_next, ids, sphone_exit>>

\* Mutant: the timeout is called and stays in the list.
FireTimerKeeps ==
  /\ pc = "loop"
  /\ ee_timers # <<>>
  /\ Overdue \/ (Head(ee_timers).time = now /\ Ready = {})
  /\ cur' = Head(ee_timers)
  /\ pc' = "timer_callback"
  /\ ops' = 0
  /\ UNCHANGED <<ee, ee_timers, now, readable, fdset, e_next, ids, sphone_exit>>

\* n == 0: the head of the list of timeouts is taken off and called.
FireTimer ==
  /\ pc = "loop"
  /\ ee_timers # <<>>
  /\ Overdue \/ (Head(ee_timers).time = now /\ Ready = {})
  /\ cur' = Head(ee_timers)
  /\ ee_timers' = Tail(ee_timers)
  /\ pc' = "timer_callback"
  /\ ops' = 0
  /\ UNCHANGED <<ee, now, readable, fdset, e_next, ids, sphone_exit>>

\* select fails: sphone_error, and the loop is left.
SelectFails ==
  /\ pc = "loop"
  /\ ~Overdue
  /\ sphone_exit' = sphone_exit + 1
  /\ pc' = "left"
  /\ UNCHANGED <<ee, ee_timers, now, readable, fdset, e_next, cur, ops, ids>>

\* One step of the walk over ee: the next event is fetched before the
\* callback is called, and the callback consumes the input.
Visit ==
  /\ pc = "dispatch"
  /\ \E i \in Position(ee, e_next) :
       /\ e_next' = NextOf(ee, i)
       /\ IF ee[i].fd \in fdset
          THEN /\ cur' = ee[i]
               /\ readable' = readable \ {ee[i].fd}
               /\ pc' = "fd_callback"
               /\ ops' = 0
          ELSE UNCHANGED <<cur, readable, pc, ops>>
  /\ UNCHANGED <<ee, ee_timers, now, fdset, ids, sphone_exit>>

EndDispatch ==
  /\ pc = "dispatch"
  /\ e_next = 0
  /\ pc' = "loop"
  /\ UNCHANGED <<ee, ee_timers, now, readable, fdset, e_next, cur, ops, ids,
                 sphone_exit>>

\* What a callback's return code, and whether it called sphone_error, add to
\* sphone_exit.
ExitAfter(rc, erred) ==
  sphone_exit + (IF erred THEN 1 ELSE 0) + (IF rc < 0 THEN 1 ELSE 0)

\* Mutant: the walk is not left, only the loop around it.
ReturnContinues(rc, erred) ==
  /\ InCallback
  /\ sphone_exit' = ExitAfter(rc, erred)
  /\ pc' = IF pc = "fd_callback" THEN "dispatch"
           ELSE IF sphone_exit' > 0 THEN "left" ELSE "loop"
  /\ cur' = NoEvent
  /\ UNCHANGED <<ee, ee_timers, now, readable, fdset, e_next, ops, ids>>

\* The callback returns; the loop is left once sphone_exit is set.
Return(rc, erred) ==
  /\ InCallback
  /\ sphone_exit' = ExitAfter(rc, erred)
  /\ pc' = IF sphone_exit' > 0 THEN "left"
           ELSE IF pc = "fd_callback" THEN "dispatch" ELSE "loop"
  /\ cur' = NoEvent
  /\ UNCHANGED <<ee, ee_timers, now, readable, fdset, e_next, ops, ids>>

\* Input arrives at any time.
Arrive ==
  /\ readable' \in {readable \cup {fd} : fd \in Fds \ readable}
  /\ UNCHANGED <<ee, ee_timers, now, fdset, e_next, cur, pc, ops, ids,
                 sphone_exit>>

\* Time passes while a callback runs, or while select blocks.
Tick ==
  /\ \/ InCallback
     \/ /\ pc = "loop" /\ Ready = {} /\ ~Overdue
        /\ ee_timers # <<>> => now # Head(ee_timers).time
  /\ now' \in now + 1 .. MaxTime
  /\ UNCHANGED <<ee, ee_timers, readable, fdset, e_next, cur, pc, ops, ids,
                 sphone_exit>>

Next ==
  \/ RegTimeout \/ RegFd \/ Unreg
  \/ StartLoop \/ SelectReady \/ FireTimer \/ SelectFails
  \/ Visit \/ EndDispatch
  \/ \E rc \in {0, -1}, erred \in BOOLEAN : Return(rc, erred)
  \/ Arrive \/ Tick

Spec == Init /\ [][Next]_vars

\* What happens if the process is scheduled and its callbacks return.
LoopStep ==
  \/ StartLoop \/ SelectReady \/ FireTimer \/ Visit \/ EndDispatch
  \/ \E rc \in {0, -1}, erred \in BOOLEAN : Return(rc, erred)

-----------------------------------------------------------------------------
(* Properties *)

(* The event that the walk over ee fetched before it called a callback is  *)
(* still registered when the walk goes on to it: no callback has freed the *)
(* memory that e_next points to.                                           *)
SavedNextLive ==
  pc \in {"dispatch", "fd_callback"} => (e_next = 0 \/ Position(ee, e_next) # {})

(* eventloop_reg_timeout keeps the list sorted by deadline, and timeouts   *)
(* with equal deadlines in the order in which they were registered.        *)
TimersSorted ==
  \A i, j \in DOMAIN ee_timers : i < j =>
    \/ ee_timers[i].time < ee_timers[j].time
    \/ ee_timers[i].time = ee_timers[j].time /\ ee_timers[i].id < ee_timers[j].id

(* A timeout is never called before its deadline, nor before one that was  *)
(* due earlier.                                                            *)
TimersOnTime ==
  [][(pc = "loop" /\ pc' = "timer_callback") =>
       /\ cur'.time <= now
       /\ \A i \in DOMAIN ee_timers' : cur'.time <= ee_timers'[i].time]_vars

(* A callback is called only for a descriptor that has input: select's     *)
(* answer is not stale for the events the walk has still to visit, though  *)
(* callbacks have run since (a second read would block the whole process). *)
NoSpuriousCallback ==
  [][(pc = "dispatch" /\ pc' = "fd_callback") => cur'.fd \in readable]_vars

(* Once sphone_error has run the exit functions, or a callback has failed, *)
(* no other callback is called: the sessions are freed by then.            *)
NothingAfterExit ==
  [][(pc' # pc /\ pc' \in {"fd_callback", "timer_callback"}) => sphone_exit = 0]_vars

\* The loop comes to a call of select: its first timeout is not overdue.
CaughtUp == pc = "loop" /\ ~Overdue

\* A callback takes time.
SlowCallback == InCallback /\ now' > now

(* "Timeouts may take over all events": input waits as long as timeouts    *)
(* are overdue, and no longer.  If the loop comes to select again and      *)
(* again, or if callbacks are slow for some time only (then the loop       *)
(* catches up, though a timeout may be set for a time that has passed),    *)
(* input on a registered descriptor is served, or its event unregistered,  *)
(* or the loop left, however many other descriptors have input.            *)
InputServed ==
  ([]<>CaughtUp \/ <>[][~SlowCallback]_vars) =>
    \A fd \in Fds : (fd \in Ready) ~> (fd \notin Ready \/ pc = "left")
=============================================================================
