------------------------------- MODULE SpProtocol -------------------------------
(***************************************************************************)
(* The measurement system: the server of module SpServer and the clients   *)
(* of module SpClient, joined by the connections of module SpNet and by    *)
(* UDP probes that may be lost, duplicated and reordered.  Clients and the *)
(* server may stop and be started again at any time, as far as Faults      *)
(* allows.                                                                 *)
(***************************************************************************)
EXTENDS SpServer, SpClient

CONSTANT Faults   \* what may go wrong in this instance

ASSUME ProtocolAssumption ==
  /\ Faults \subseteq {"client_stop", "server_restart", "same_id", "file_error",
                       "reset", "kill", "silent"}
  /\ Conns \cup UdpAddrs \subseteq Addrs

VARIABLES
  restarts,   \* bound: restarts of the server so far
  drawn       \* history: identities drawn by clients so far

histVars == <<restarts, drawn>>
vars == <<netVars, srvVars, cliVars, histVars>>

\* sp_id = random()%100000 is taken to be unique unless "same_id".
IdsUnique == \A c, d \in Client : c # d => sp_id[c] # sp_id[d]

Init ==
  /\ NetInit /\ SrvInit /\ CliInit
  /\ restarts = 0 /\ drawn = Range(sp_id)
  /\ "same_id" \notin Faults => IdsUnique

-----------------------------------------------------------------------------
(* The server's side *)

\* A connection comes from a port of its own; a client reached over it has
\* its UDP socket at another address.
Accept ==
  /\ backlog # <<>>
  /\ connect_input(Head(backlog), Head(backlog))
  /\ backlog' = Tail(backlog)
  /\ UNCHANGED <<sp_state, sp_id, sp_ds, sp_s, sp_data, heap, timers, alive,
                 udp, c2s, cli_open, histVars>>

\* The next message on the connection of e.
ReadMessage(e, outcome) ==
  LET s == cfe[e].cf_s
  IN  /\ e \in Clients /\ c2s[s] # <<>>
      /\ outcome \in {"done", "empty"} \/ outcome \in Faults
      /\ client_input(e, Head(c2s[s]), outcome)
      /\ c2s' = [c2s EXCEPT ![s] = Tail(@)]
      /\ UNCHANGED <<cliVars, cli_open, histVars>>

ReadClose(e) ==
  /\ e \in Clients
  /\ c2s[cfe[e].cf_s] = <<>> /\ cfe[e].cf_s \notin cli_open
  /\ ClientClosed(e)
  /\ UNCHANGED <<cliVars, c2s, cli_open, histVars>>

\* A datagram may arrive more than once, late, or never.
ReadProbe(p) ==
  /\ udp_input("REGISTER", p.id, p.from)
  /\ UNCHANGED <<cliVars, c2s, cli_open, histVars>>

\* Sending to a client that has closed its end may fail.
StartCalls(e1, e2, ok1, ok2) ==
  /\ e1 \in Clients /\ e2 \in Clients
  /\ ~ok1 => cfe[e1].cf_s \notin cli_open
  /\ ~ok2 => cfe[e2].cf_s \notin cli_open
  /\ client_startcalls(e1, e2, ok1, ok2)
  /\ UNCHANGED <<cliVars, c2s, cli_open, histVars>>

\* A client that runs registers as often as client_timeout is called, so it
\* is not removed unless nothing of it arrives for SP_TIMEOUT_REG_NR times.
Timeout ==
  /\ client_timeout
  /\ \A e \in Clients :
       cfe[e].cf_timeout = 1 => cfe[e].cf_s \notin cli_open \/ "silent" \in Faults
  /\ UNCHANGED <<cliVars, c2s, cli_open, histVars>>

Kill(n) ==
  /\ "kill" \in Faults
  /\ kill_all_clients(n)
  /\ UNCHANGED <<cliVars, c2s, cli_open, histVars>>

ServerLeavesLoop ==
  /\ LeaveLoop
  /\ UNCHANGED <<cliVars, c2s, cli_open, histVars>>

\* The process ends, after sps_exit or by a crash: the connections are closed.
ServerEnds ==
  /\ srv_exit = 2 \/ (srv_exit = 0 /\ "server_restart" \in Faults /\ restarts = 0)
  /\ srv_exit' = 3 /\ listening' = FALSE
  /\ srv_open' = {} /\ backlog' = <<>>
  /\ c2s' = [s \in Conns |-> <<>>]
  /\ cf_list' = <<>> /\ cfe' = <<>> /\ freed' = {} /\ events' = {}
  /\ UNCHANGED <<test_id, logs, srv_fault, s2c, cli_open, sp_state, sp_id, sp_ds, sp_s,
                 sp_data, heap, timers, alive, udp, histVars>>

\* It is started again; measurements are numbered from 0.
ServerStarts ==
  /\ srv_exit = 3 /\ "server_restart" \in Faults /\ restarts = 0
  /\ restarts' = 1
  /\ test_id' = 0 /\ listening' = TRUE /\ srv_exit' = 0
  /\ UNCHANGED <<netVars, cf_list, cfe, freed, events, logs, srv_fault, cliVars,
                 drawn>>

-----------------------------------------------------------------------------
(* The clients' side *)

ServerUp == listening /\ Running

ClientAction(c) ==
  /\ \/ sps_wrapper(c) /\ (sp_state[c] = "SS_INIT" => ServerUp)
     \/ spc_state2init(c)
     \/ server_input(c)
     \/ \E n \in Address, kind \in Kind : SessionTimeout(c, n, kind)
     \/ "client_stop" \in Faults /\ ClientStops(c)
  /\ UNCHANGED <<srvVars, histVars>>

\* A client is started again with another identity.
ClientRestarts(c, id, addr) ==
  /\ "same_id" \notin Faults => id \notin drawn
  /\ drawn' = drawn \cup {id}
  /\ ClientStarts(c, id, addr)
  /\ UNCHANGED <<srvVars, restarts>>

Next ==
  \/ Accept
  \/ \E e \in Clients, outcome \in Outcomes : ReadMessage(e, outcome)
  \/ \E e \in Clients : ReadClose(e)
  \/ \E p \in udp : ReadProbe(p)
  \/ \E e1, e2 \in Clients, ok1, ok2 \in BOOLEAN : StartCalls(e1, e2, ok1, ok2)
  \/ Timeout
  \/ \E n \in 1 .. Len(cf_list) : Kill(n)
  \/ ServerLeavesLoop
  \/ ServerEnds
  \/ ServerStarts
  \/ \E c \in Client : ClientAction(c)
  \/ \E c \in Client, id \in Ids, addr \in UdpAddrs : ClientRestarts(c, id, addr)

Spec == Init /\ [][Next]_vars

\* Both programs run: the event loop of the server serves every connection
\* that has input, that of a client its connection and its timeouts.
Fairness ==
  /\ WF_vars(Accept)
  /\ \A e \in Entry : WF_vars(e \in Clients /\ (ReadMessage(e, "done") \/ ReadClose(e)))
  /\ \A c \in Client :
       /\ WF_vars(server_input(c) /\ UNCHANGED <<srvVars, histVars>>)
       /\ \A n \in Address, kind \in Kind :
            WF_vars(SessionTimeout(c, n, kind) /\ UNCHANGED <<srvVars, histVars>>)

-----------------------------------------------------------------------------
(* Properties *)

TypeOK ==
  /\ NetTypeOK
  /\ SrvTypeOK
  /\ CliTypeOK
  /\ drawn \subseteq Ids

(* client_output asserts the public address of the clients it starts: no   *)
(* report, probe or registration, however late, makes a client eligible    *)
(* for calls before its own probe arrived.                                 *)
StartedHasAddress ==
  \A e \in Clients : cfe[e].cf_state # "CS_INIT" => cfe[e].cf_pub # {}

(* The public address of an entry is that of the UDP socket of the client  *)
(* at the other end of its connection, in its present run: no late probe   *)
(* of an earlier run, whose socket had another address, or of another      *)
(* client is taken for its own.                                            *)
PublicAddressRight ==
  \A e \in Clients, c \in alive :
    sp_s[c] = cfe[e].cf_s => cfe[e].cf_pub \subseteq {sp_ds[c]}

(* An order reaches a client that waits for one: the server does not start *)
(* a call with a client whose previous call has not ended (server_input    *)
(* would drop the order, and the client would stay busy for the server).   *)
OrdersAreObeyed ==
  \A c \in alive : (sp_s[c] # 0 /\ s2c[sp_s[c]] # <<>>) =>
    LET sp == Head(s2c[sp_s[c]])
    IN  sp.type \in {"START_SEND", "START_RCV"} =>
          sp.id = sp_id[c] /\ sp_state[c] = "SS_SERVER"

\* The kind of call that a client in this state is in.
KindOf(state) == IF state = "SS_DATA_RCV" THEN "rcv" ELSE "send"

(* A client in a call has the session of a call of that kind, which        *)
(* udp_socket_input hands to rcv_data_input or send_data_input unchecked.  *)
CallHasSession ==
  \A c \in alive : sp_state[c] \in DataState =>
    /\ sp_data[c] # 0
    /\ \E ses \in heap[c][sp_data[c]] : ses.kind = KindOf(sp_state[c])

(* A client in a call has the timeout registered that ends the call, or    *)
(* udp_socket_input would serve it for ever: whatever is left of earlier   *)
(* calls, and although send_data_wrapper is registered again at each run.  *)
CallHasTimeout ==
  \A c \in alive : sp_state[c] \in DataState =>
    timers[c][<<sp_data[c], KindOf(sp_state[c])>>] > 0

(* "rs_duration: How long to rcv": a call is ended by the timeout that was *)
(* set for it and not by one that an earlier call of the same kind left    *)
(* behind: no timeout of its kind stays registered for its session.        *)
OwnTimeoutEndsCall ==
  [][\A c \in alive \cap alive' :
       (sp_state[c] \in DataState /\ sp_state'[c] = "SS_SERVER") =>
         timers'[c][<<sp_data[c], KindOf(sp_state[c])>>] = 0]_vars

(* "every meas has a uid": the log file of a measurement is written once.  *)
LoggedOnce == \A t \in Tests : logs[t] <= 1

(* A call ends for the server: a client that is busy becomes idle again,   *)
(* or is gone, or the server has stopped.                                  *)
CallsEnd ==
  \A e \in Entry :
    (e \in Clients /\ cfe[e].cf_state \in {"CS_SEND", "CS_RCV"})
      ~> (e \notin Clients \/ cfe[e].cf_state = "CS_IDLE" \/ ~Running)
=============================================================================
