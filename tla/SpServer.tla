-------------------------------- MODULE SpServer --------------------------------
(***************************************************************************)
(* The measurement server utils/sps.c: it keeps a list of the clients that *)
(* are connected, picks two idle ones at random times, tells one to send   *)
(* and the other to receive, and marks them idle again when they report.   *)
(* All of it runs in callbacks of one event loop.                          *)
(*                                                                         *)
(* A client entry (struct cf_entry) is known by its address in memory,     *)
(* which is used again after the entry was freed; cfe maps it to the       *)
(* fields.                                                                 *)
(***************************************************************************)
EXTENDS SpNet

CONSTANTS
  Addrs,              \* TCP and UDP addresses of clients
  SP_TIMEOUT_REG_NR,  \* 10 in the code
  MaxEntries,         \* bound of the model: entries at a time
  MaxTests            \* bound of the model: measurements ever started

ASSUME ServerAssumption ==
  SP_TIMEOUT_REG_NR \in Nat \ {0} /\ MaxEntries \in Nat /\ MaxTests \in Nat

VARIABLES
  cf_list,     \* the list of clients, head first
  cfe,         \* contents of the entries
  freed,       \* entries that were freed and are still in the list
  events,      \* descriptors of client_input registered in the event loop
  test_id,     \* number of the next measurement
  logs,        \* logs[t]: reports written to the log file of measurement t
  listening,   \* connect_input is registered
  srv_exit,    \* sphone_exit of the server
  srv_fault    \* "none", or what went wrong with memory or an assertion

srvVars == <<cf_list, cfe, freed, events, test_id, logs, listening,
             srv_exit, srv_fault>>

Entry == 1 .. MaxEntries
Tests == 0 .. MaxTests - 1
ClientState == {"CS_INIT", "CS_IDLE", "CS_RCV", "CS_SEND"}

CfEntry == [cf_addr : Addrs, cf_pub : SUBSET Addrs, cf_id : Nat, cf_s : Conns,
            cf_state : ClientState, cf_peer : Nat,
            cf_timeout : 1 .. SP_TIMEOUT_REG_NR]

SrvInit ==
  /\ cf_list = <<>> /\ cfe = <<>> /\ freed = {} /\ events = {}
  /\ test_id = 0 /\ logs = [t \in Tests |-> 0]
  /\ listening = TRUE /\ srv_exit = 0 /\ srv_fault = "none"

Clients == Range(cf_list)
Running == srv_exit = 0 /\ srv_fault = "none"

-----------------------------------------------------------------------------
(* The list of clients *)

\* The first entry of the list that satisfies Match, as a set.
FirstEntry(Match(_)) ==
  LET i == SelectInSeq(cf_list, Match) IN IF i = 0 THEN {} ELSE {cf_list[i]}

cfe_find(addr) ==
  LET Match(e) == cfe[e].cf_addr = addr IN FirstEntry(Match)

\* Mutant: an entry whose identity is not known yet matches.
cfe_find_byidOrUnset(id) ==
  LET Match(e) == cfe[e].cf_id \in {0, id} IN FirstEntry(Match)

cfe_find_byid(id) ==
  LET Match(e) == cfe[e].cf_id = id IN FirstEntry(Match)

\* memset and the fields that cfe_add and its caller set.
cfe_new(addr, s) ==
  [cf_addr |-> addr, cf_pub |-> {}, cf_id |-> 0, cf_s |-> s,
   cf_state |-> "CS_INIT", cf_peer |-> 0, cf_timeout |-> SP_TIMEOUT_REG_NR]

\* The list with the entries in S unlinked, one after the other.
Without(list, S) ==
  LET rest[n \in 0 .. Len(list)] ==
        IF n = 0 THEN <<>>
        ELSE IF list[n] \in S THEN rest[n - 1] ELSE Append(rest[n - 1], list[n])
  IN  rest[Len(list)]

\* Mutant: the event is left registered.
RemoveClientsKeepsEvent(S, contents) ==
  /\ UNCHANGED events
  /\ srv_open' = srv_open \ {cfe[e].cf_s : e \in S}
  /\ cf_list' = Without(cf_list, S)
  /\ cfe' = [e \in DOMAIN contents \ S |-> contents[e]]
  /\ freed' = freed \ S

\* Mutant: cfe_rm takes an entry out of the list and does not free it.
RemoveClientsLeaks(S, contents) ==
  /\ events' = events \ {<<cfe[e].cf_s, e>> : e \in S}
  /\ srv_open' = srv_open \ {cfe[e].cf_s : e \in S}
  /\ cf_list' = Without(cf_list, S)
  /\ cfe' = contents
  /\ freed' = freed \ S

\* eventloop_unreg and cfe_rm, which closes the socket, of the entries in S;
\* contents is what the callback leaves in the entries.
RemoveClients(S, contents) ==
  /\ events' = events \ {<<cfe[e].cf_s, e>> : e \in S}
  /\ srv_open' = srv_open \ {cfe[e].cf_s : e \in S}
  /\ cf_list' = Without(cf_list, S)
  /\ cfe' = [e \in DOMAIN contents \ S |-> contents[e]]
  /\ freed' = freed \ S

-----------------------------------------------------------------------------
(* Callbacks *)

\* A client connects.  An entry with the same address gets the new socket;
\* a new entry is added in any case, as the return belongs to the failure of
\* eventloop_reg_fd.
connect_input(s, addr) ==
  LET old == cfe_find(addr)
      new == CHOOSE e \in Entry \ Clients : \A d \in Entry \ Clients : e <= d
  IN  /\ Running /\ listening
      /\ Entry \ Clients # {}
      /\ cf_list' = <<new>> \o cf_list
      /\ cfe' = [e \in DOMAIN cfe \cup {new} |->
                   IF e = new THEN cfe_new(addr, s)
                   ELSE IF e \in old THEN [cfe[e] EXCEPT !.cf_s = s] ELSE cfe[e]]
      /\ events' = (events \ {<<cfe[e].cf_s, e>> : e \in old})
                     \cup {<<s, e>> : e \in old \cup {new}}
      /\ srv_open' = (srv_open \ {cfe[e].cf_s : e \in old}) \cup {s}
      /\ UNCHANGED <<freed, test_id, logs, listening, srv_exit, srv_fault, s2c>>

\* recv returns 0, or fails with ECONNRESET or ETIMEDOUT.
ClientClosed(e) ==
  /\ Running
  /\ \E s \in Conns : <<s, e>> \in events
  /\ RemoveClients({e}, cfe)
  /\ UNCHANGED <<test_id, logs, listening, srv_exit, srv_fault, s2c>>

\* A message that does not carry the identity of the client is ignored.
IdMatches(e, sp) == cfe[e].cf_id = 0 \/ sp.id = cfe[e].cf_id

\* Mutant: a client that says that it is not busy is marked idle.
RegisterMarksIdle(e, sp) ==
  /\ cfe' = [cfe EXCEPT ![e].cf_timeout = SP_TIMEOUT_REG_NR,
                        ![e].cf_id = sp.id,
                        ![e].cf_peer = IF sp.busy THEN @ ELSE 0,
                        ![e].cf_state = IF sp.busy \/ @ = "CS_INIT" THEN @ ELSE "CS_IDLE"]
  /\ UNCHANGED <<cf_list, freed, events, test_id, logs, listening,
                 srv_exit, srv_fault, s2c, srv_open>>

\* Mutant: a client that has registered is ready for calls.
RegisterMakesReady(e, sp) ==
  /\ cfe' = [cfe EXCEPT ![e].cf_timeout = SP_TIMEOUT_REG_NR,
                        ![e].cf_id = sp.id,
                        ![e].cf_peer = IF sp.busy THEN @ ELSE 0,
                        ![e].cf_state = IF @ = "CS_INIT" THEN "CS_IDLE" ELSE @]
  /\ UNCHANGED <<cf_list, freed, events, test_id, logs, listening,
                 srv_exit, srv_fault, s2c, srv_open>>

\* SP_TYPE_REGISTER over TCP: the state of the client is left alone, and so is
\* its public address, as clients leave sr_addr_pub empty.
Register(e, sp) ==
  /\ cfe' = [cfe EXCEPT ![e].cf_timeout = SP_TIMEOUT_REG_NR,
                        ![e].cf_id = sp.id,
                        ![e].cf_peer = IF sp.busy THEN @ ELSE 0]
  /\ UNCHANGED <<cf_list, freed, events, test_id, logs, listening,
                 srv_exit, srv_fault, s2c, srv_open>>

Deregister(e) ==
  /\ RemoveClients({e}, cfe)
  /\ UNCHANGED <<test_id, logs, listening, srv_exit, srv_fault, s2c>>

\* rcv_sp_proto marks a client that has reported as idle.
MarkIdle(e) == cfe' = [cfe EXCEPT ![e].cf_state = "CS_IDLE", ![e].cf_peer = 0]

\* receive_send_report: the log is written, or there is nothing to write, or a
\* file operation fails, or the connection breaks in the middle of the report.
\* In the last case the entry is freed, and then marked as idle.
ReportSend(e, sp, outcome) ==
  /\ LET written == IF sp.testid \in Tests
                    THEN [logs EXCEPT ![sp.testid] = @ + 1] ELSE logs
     IN  CASE outcome = "empty"      -> logs' = logs
           [] outcome = "file_error" -> logs' \in {logs, written}
           [] OTHER                  -> logs' = written
  /\ CASE outcome \in {"done", "empty"} ->
            MarkIdle(e)
            /\ UNCHANGED <<cf_list, freed, events, srv_open, srv_exit, srv_fault>>
       [] outcome = "file_error" ->
            srv_exit' = 1
            /\ UNCHANGED <<cfe, cf_list, freed, events, srv_open, srv_fault>>
       [] outcome = "reset" ->
            RemoveClients({e}, cfe)
            /\ srv_fault' = "use_after_free" /\ UNCHANGED srv_exit
  /\ UNCHANGED <<test_id, listening, s2c>>

\* Mutant: only the peer is reset.
ReportRcvStaysBusy(e) ==
  /\ cfe' = [cfe EXCEPT ![e].cf_peer = 0]
  /\ UNCHANGED <<cf_list, freed, events, test_id, logs, listening,
                 srv_exit, srv_fault, s2c, srv_open>>

ReportRcv(e) ==
  /\ MarkIdle(e)
  /\ UNCHANGED <<cf_list, freed, events, test_id, logs, listening,
                 srv_exit, srv_fault, s2c, srv_open>>

\* sps_exit: the server socket is closed; the loop over the clients is left
\* after the first one, which stays in the list.
sps_exit ==
  /\ listening' = FALSE
  /\ IF cf_list = <<>> THEN UNCHANGED <<events, srv_open, freed, srv_fault>>
     ELSE LET e == Head(cf_list)
          IN  /\ events' = events \ {<<cfe[e].cf_s, e>>}
              /\ srv_open' = srv_open \ {cfe[e].cf_s}
              /\ freed' = freed \cup {e}
              /\ srv_fault' = IF e \in freed THEN "double_free" ELSE srv_fault
  /\ UNCHANGED <<cf_list, cfe, test_id, logs, s2c>>

\* Clients never send the messages of the server.
IgnoreMessage == UNCHANGED <<srvVars, s2c, srv_open>>

rcv_sp_proto(e, sp, outcome) ==
  CASE sp.type = "REGISTER"    -> Register(e, sp)
    [] sp.type = "DEREGISTER"  -> Deregister(e)
    [] sp.type = "REPORT_SEND" -> ReportSend(e, sp, outcome)
    [] sp.type = "REPORT_RCV"  -> ReportRcv(e)
    [] sp.type = "EXIT"        -> sps_exit /\ UNCHANGED srv_exit
    [] OTHER                   -> IgnoreMessage

Outcomes == {"done", "empty", "file_error", "reset"}

client_input(e, sp, outcome) ==
  /\ Running
  /\ \E s \in Conns : <<s, e>> \in events
  /\ sp.type = "REPORT_SEND" \/ outcome = "done"
  /\ IF IdMatches(e, sp) THEN rcv_sp_proto(e, sp, outcome) ELSE IgnoreMessage

\* A REGISTER probe: the UDP address it comes from is the public address of
\* the first client with that identity.
Probe(id, from) ==
  LET found == cfe_find_byid(id)
  IN  /\ cfe' = [e \in DOMAIN cfe |->
                   IF e \notin found \/ cfe[e].cf_pub = {from} THEN cfe[e]
                   ELSE [cfe[e] EXCEPT
                           !.cf_timeout = SP_TIMEOUT_REG_NR,
                           !.cf_pub = {from},
                           !.cf_state = IF @ = "CS_INIT" THEN "CS_IDLE" ELSE @]]
      /\ UNCHANGED <<cf_list, freed, events, test_id, logs, listening,
                     srv_exit, srv_fault, s2c, srv_open>>

\* Every type but REGISTER makes the callback return -1.
udp_input(type, id, from) ==
  /\ Running
  /\ CASE type = "REGISTER" -> Probe(id, from)
       [] type = "EXIT"     -> sps_exit /\ srv_exit' = 1
       [] OTHER             -> srv_exit' = 1
                               /\ UNCHANGED <<cf_list, cfe, freed, events,
                                    test_id, logs, listening, srv_fault, s2c, srv_open>>

\* client_output: START_SEND or START_RCV to a client.
StartMessage(e, type) == sp_proto(type, cfe[e].cf_id, FALSE, test_id)

\* Mutant: the tentative number of the measurement is not committed.
client_startcallsTentative(e1, e2, ok1, ok2) ==
  LET s1 == cfe[e1].cf_s
      s2 == cfe[e2].cf_s
  IN  /\ Running
      /\ test_id \in Tests
      /\ e1 \in Clients /\ e2 \in Clients /\ e1 # e2
      /\ cfe[e1].cf_state = "CS_IDLE" /\ cfe[e2].cf_state = "CS_IDLE"
      /\ test_id' = test_id
      /\ srv_fault' = IF cfe[e1].cf_pub = {} \/ cfe[e2].cf_pub = {}
                      THEN "assert" ELSE srv_fault
      /\ IF ok1 /\ ok2
         THEN /\ cfe' = [cfe EXCEPT ![e1].cf_state = "CS_SEND",
                                    ![e1].cf_peer = cfe[e2].cf_id,
                                    ![e2].cf_state = "CS_RCV",
                                    ![e2].cf_peer = cfe[e1].cf_id]
              /\ UNCHANGED <<srv_exit, srv_open>>
         ELSE /\ srv_exit' = 1
              /\ srv_open' = srv_open \ {IF ok1 THEN s2 ELSE s1}
              /\ UNCHANGED cfe
      /\ s2c' = LET one == IF ok1 THEN Send(s2c, s1, StartMessage(e1, "START_SEND"), cli_open)
                           ELSE s2c
                IN  IF ok1 /\ ok2 THEN Send(one, s2, StartMessage(e2, "START_RCV"), cli_open)
                    ELSE one
      /\ UNCHANGED <<cf_list, freed, events, logs, listening>>

\* client_startcalls has drawn two different clients and both are idle; ok1
\* and ok2 say whether the messages can be sent.  (With fewer than two
\* clients, or one of them busy, it only sets its timer again.)
client_startcalls(e1, e2, ok1, ok2) ==
  LET s1 == cfe[e1].cf_s
      s2 == cfe[e2].cf_s
  IN  /\ Running
      /\ test_id \in Tests
      /\ e1 \in Clients /\ e2 \in Clients /\ e1 # e2
      /\ cfe[e1].cf_state = "CS_IDLE" /\ cfe[e2].cf_state = "CS_IDLE"
      /\ test_id' = test_id + 1
      /\ srv_fault' = IF cfe[e1].cf_pub = {} \/ cfe[e2].cf_pub = {}
                      THEN "assert" ELSE srv_fault
      /\ IF ok1 /\ ok2
         THEN /\ cfe' = [cfe EXCEPT ![e1].cf_state = "CS_SEND",
                                    ![e1].cf_peer = cfe[e2].cf_id,
                                    ![e2].cf_state = "CS_RCV",
                                    ![e2].cf_peer = cfe[e1].cf_id]
              /\ UNCHANGED <<srv_exit, srv_open>>
         ELSE /\ srv_exit' = 1
              /\ srv_open' = srv_open \ {IF ok1 THEN s2 ELSE s1}
              /\ UNCHANGED cfe
      /\ s2c' = LET one == IF ok1 THEN Send(s2c, s1, StartMessage(e1, "START_SEND"), cli_open)
                           ELSE s2c
                IN  IF ok1 /\ ok2 THEN Send(one, s2, StartMessage(e2, "START_RCV"), cli_open)
                    ELSE one
      /\ UNCHANGED <<cf_list, freed, events, logs, listening>>

\* client_timeout: every client loses one of its SP_TIMEOUT_REG_NR lives.
client_timeout ==
  LET dead == {e \in Clients : cfe[e].cf_timeout = 1}
  IN  /\ Running
      /\ cf_list # <<>>
      /\ RemoveClients(dead, [e \in Clients |-> [cfe[e] EXCEPT !.cf_timeout = @ - 1]])
      /\ UNCHANGED <<test_id, logs, listening, srv_exit, srv_fault, s2c>>

\* SIGUSR2: EXIT to the clients, whose entries are removed, up to the first
\* one that cannot be sent to.
kill_all_clients(n) ==
  LET killed == {cf_list[i] : i \in 1 .. n}
      Killed(s) == {e \in killed : cfe[e].cf_s = s}
  IN  /\ Running
      /\ n \in 1 .. Len(cf_list)
      /\ s2c' = [s \in Conns |->
                   IF s \notin cli_open THEN s2c[s]
                   ELSE LET order == SetToSeq(Killed(s))
                        IN  s2c[s] \o [i \in DOMAIN order |->
                              sp_proto("EXIT", cfe[order[i]].cf_id, FALSE, 0)]]
      /\ RemoveClients(killed, cfe)
      /\ UNCHANGED <<test_id, logs, listening, srv_exit, srv_fault>>

\* A callback failed: main leaves the event loop and calls sps_exit.
LeaveLoop ==
  /\ srv_exit = 1
  /\ srv_exit' = 2
  /\ sps_exit

-----------------------------------------------------------------------------
(* Properties *)

SrvTypeOK ==
  /\ cf_list \in Seq(Entry) /\ freed \subseteq Clients
  /\ cfe \in [Clients -> CfEntry]
  /\ events \subseteq Conns \X Entry
  /\ test_id \in 0 .. MaxTests /\ logs \in [Tests -> Nat]
  /\ listening \in BOOLEAN /\ srv_exit \in 0 .. 3
  /\ srv_fault \in {"none", "use_after_free", "double_free", "assert"}

(* "Sanity: cfe still exists": the descriptors in the event loop are those *)
(* of the clients in the list, each of them open, so that client_input is  *)
(* never called for an entry that was freed, nor select with a descriptor  *)
(* that was closed.                                                        *)
EventsMatchClients ==
  Running => /\ events = {<<cfe[e].cf_s, e>> : e \in Clients}
             /\ \A e \in Clients : cfe[e].cf_s \in srv_open
             /\ freed = {}
=============================================================================
