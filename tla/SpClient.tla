-------------------------------- MODULE SpClient --------------------------------
(***************************************************************************)
(* The measurement clients, utils/spc.c with spc_rcv.c and spc_send.c.     *)
(* A client looks for the server (SS_INIT), waits for orders (SS_SERVER),  *)
(* receives (SS_DATA_RCV) or sends and then waits for the last echoes      *)
(* (SS_DATA_SEND, SS_DATA_SEND_CLOSING).  A call is a session on the heap  *)
(* that sp_data points to and that a timeout carries as its argument.      *)
(*                                                                         *)
(* Left out: the RTP packets of a call and their echoes, which change no   *)
(* state but counters of the session; sending until the duration has       *)
(* passed or no echo came is a timeout that may end the call.              *)
(***************************************************************************)
EXTENDS SpNet

CONSTANTS
  Client,
  UdpAddrs,     \* addresses that bind may give to UDP sockets
  MaxSessions,  \* bound of the model: addresses on a client's heap
  MaxQueue      \* bound of the model: no REGISTER is added to a longer queue

ASSUME ClientAssumption == MaxSessions \in Nat /\ MaxQueue \in Nat

VARIABLES
  sp_state,    \* struct spc_info, for every client
  sp_id,
  sp_ds,       \* address of the UDP socket
  sp_s,        \* connection to the server, 0 for -1
  sp_data,     \* address of the session of the call, 0 for NULL
  heap,        \* heap[c][n]: the session at address n, {} when it is free
  timers,      \* timers[c][n, kind]: timeouts registered with argument n
  alive,       \* clients that run
  backlog,     \* connections that the server has still to accept
  udp          \* probes sent so far; each may arrive any number of times

cliVars == <<sp_state, sp_id, sp_ds, sp_s, sp_data, heap, timers, alive, backlog, udp>>

SpcState == {"SS_INIT", "SS_SERVER", "SS_DATA_RCV", "SS_DATA_SEND",
             "SS_DATA_SEND_CLOSING"}
DataState == SpcState \ {"SS_INIT", "SS_SERVER"}
Address == 1 .. MaxSessions
Kind == {"rcv", "send"}
Session == [kind : Kind, testid : Nat]

NoSessions == [n \in Address |-> {}]
NoTimers == [t \in Address \X Kind |-> 0]

CliInit ==
  /\ sp_state = [c \in Client |-> "SS_INIT"]
  /\ sp_id \in [Client -> Ids]
  /\ sp_ds \in [Client -> UdpAddrs] /\ \A c, d \in Client : c # d => sp_ds[c] # sp_ds[d]
  /\ sp_s = [c \in Client |-> 0] /\ sp_data = [c \in Client |-> 0]
  /\ heap = [c \in Client |-> NoSessions]
  /\ timers = [c \in Client |-> NoTimers]
  /\ alive = Client
  /\ backlog = <<>> /\ udp = {}

\* The process of client c ends: the event loop is left and spc_exit called,
\* a signal, or a crash.
ProcessEnds(c) ==
  /\ alive' = alive \ {c}
  /\ cli_open' = cli_open \ {sp_s[c]}
  /\ s2c' = [s \in Conns |-> IF s = sp_s[c] THEN <<>> ELSE s2c[s]]
  /\ sp_state' = [sp_state EXCEPT ![c] = "SS_INIT"]
  /\ sp_s' = [sp_s EXCEPT ![c] = 0]
  /\ sp_data' = [sp_data EXCEPT ![c] = 0]
  /\ heap' = [heap EXCEPT ![c] = NoSessions]
  /\ timers' = [timers EXCEPT ![c] = NoTimers]
  /\ UNCHANGED <<sp_id, sp_ds, backlog, udp, c2s, srv_open>>

\* send on a connection may fail once the server has closed it.
SendMayFail(c) == sp_s[c] # 0 /\ sp_s[c] \notin srv_open

-----------------------------------------------------------------------------
(* sps_wrapper: the periodic timeout *)

\* send_register, over UDP as well.
send_register(c) ==
  [message |-> sp_proto("REGISTER", sp_id[c], sp_state[c] \in DataState, 0),
   probe |-> [id |-> sp_id[c], from |-> sp_ds[c]]]

\* connect_server succeeds.  (When it is refused the timeout is set again.)
connect_server(c) ==
  LET s == CHOOSE s \in FreeConns : \A t \in FreeConns : s <= t
  IN  /\ c \in alive
      /\ sp_state[c] = "SS_INIT"
      /\ FreeConns # {}
      /\ sp_s' = [sp_s EXCEPT ![c] = s]
      /\ sp_state' = [sp_state EXCEPT ![c] = "SS_SERVER"]
      /\ cli_open' = cli_open \cup {s} /\ srv_open' = srv_open \cup {s}
      /\ backlog' = Append(backlog, s)
      /\ c2s' = [c2s EXCEPT ![s] = <<send_register(c).message>>]
      /\ s2c' = [s2c EXCEPT ![s] = <<>>]
      /\ udp' = udp \cup {send_register(c).probe}
      /\ UNCHANGED <<sp_id, sp_ds, sp_data, heap, timers, alive>>

\* The registration is repeated.
UpdateRegistration(c) ==
  /\ c \in alive
  /\ sp_state[c] # "SS_INIT"
  /\ Len(c2s[sp_s[c]]) < MaxQueue
  /\ c2s' = Send(c2s, sp_s[c], send_register(c).message, srv_open)
  /\ udp' = udp \cup {send_register(c).probe}
  /\ UNCHANGED <<sp_state, sp_id, sp_ds, sp_s, sp_data, heap, timers, alive, backlog,
                 s2c, srv_open, cli_open>>

sps_wrapper(c) ==
  \/ connect_server(c)
  \/ UpdateRegistration(c)
  \/ c \in alive /\ SendMayFail(c) /\ ProcessEnds(c)   \* return -1

-----------------------------------------------------------------------------
(* server_input *)

\* recv returns 0.  The session is freed; its timeout stays registered.
spc_state2init(c) ==
  /\ c \in alive
  /\ sp_s[c] # 0 /\ sp_s[c] \notin srv_open /\ s2c[sp_s[c]] = <<>>
  /\ cli_open' = cli_open \ {sp_s[c]}
  /\ sp_s' = [sp_s EXCEPT ![c] = 0]
  /\ heap' = [heap EXCEPT ![c] =
                [n \in Address |-> IF n = sp_data[c] THEN {} ELSE heap[c][n]]]
  /\ sp_data' = [sp_data EXCEPT ![c] = 0]
  /\ sp_state' = [sp_state EXCEPT ![c] = "SS_INIT"]
  /\ UNCHANGED <<sp_id, sp_ds, timers, alive, backlog, udp, c2s, s2c, srv_open>>

\* The session of a call: malloc gives any free address.  (When it fails, or
\* the log file cannot be created, the process ends as in ClientStops.)
StartSession(c, kind, testid, state) ==
  \E n \in {m \in Address : heap[c][m] = {}} :
    /\ heap' = [heap EXCEPT ![c][n] = {[kind |-> kind, testid |-> testid]}]
    /\ sp_data' = [sp_data EXCEPT ![c] = n]
    /\ timers' = [timers EXCEPT ![c][<<n, kind>>] = @ + 1]
    /\ sp_state' = [sp_state EXCEPT ![c] = state]
    /\ UNCHANGED <<sp_id, sp_ds, sp_s, alive, backlog, udp, c2s, srv_open, cli_open>>

\* start_sender calls send_data_wrapper, which sets its timeout.
start_sender(c, testid) == StartSession(c, "send", testid, "SS_DATA_SEND")

start_receiver(c, testid) == StartSession(c, "rcv", testid, "SS_DATA_RCV")

\* Orders are ignored by a client that is not waiting for them, and those
\* for another identity by every client.
server_input(c) ==
  LET s  == sp_s[c]
      sp == Head(s2c[s])
      obeyed == sp.id = sp_id[c] /\ sp_state[c] = "SS_SERVER"
  IN  /\ c \in alive
      /\ s # 0 /\ s2c[s] # <<>>
      /\ IF sp.id = sp_id[c] /\ sp.type = "EXIT"
         THEN ProcessEnds(c)
         ELSE /\ s2c' = [s2c EXCEPT ![s] = Tail(@)]
              /\ CASE obeyed /\ sp.type = "START_SEND" -> start_sender(c, sp.testid)
                   [] obeyed /\ sp.type = "START_RCV" -> start_receiver(c, sp.testid)
                   [] OTHER -> UNCHANGED <<cliVars, c2s, srv_open, cli_open>>

-----------------------------------------------------------------------------
(* The timeouts of a call.  The argument n may have been freed meanwhile,  *)
(* and even allocated again: what the callback reads is then the old       *)
(* session, the new one, or anything, in which case the process crashes.   *)

\* Mutant: the state is left alone.
EndCallKeepsState(c, n, kind, report) ==
  /\ c2s' = Send(c2s, sp_s[c], report, srv_open)
  /\ sp_data' = [sp_data EXCEPT ![c] = 0]
  /\ heap' = [heap EXCEPT ![c][n] = {}]
  /\ timers' = [timers EXCEPT ![c][<<n, kind>>] = @ - 1]
  /\ UNCHANGED <<sp_state, sp_id, sp_ds, sp_s, alive, backlog, udp, s2c, srv_open,
                 cli_open>>

\* The report is sent, the session freed, and the client waits for orders.
EndCall(c, n, kind, report) ==
  /\ c2s' = Send(c2s, sp_s[c], report, srv_open)
  /\ sp_data' = [sp_data EXCEPT ![c] = 0]
  /\ heap' = [heap EXCEPT ![c][n] = {}]
  /\ sp_state' = [sp_state EXCEPT ![c] = "SS_SERVER"]
  /\ timers' = [timers EXCEPT ![c][<<n, kind>>] = @ - 1]
  /\ UNCHANGED <<sp_id, sp_ds, sp_s, alive, backlog, udp, s2c, srv_open, cli_open>>

\* A timeout that finds the client in another state does nothing.
TimerExpires(c, n, kind) ==
  /\ timers' = [timers EXCEPT ![c][<<n, kind>>] = @ - 1]
  /\ UNCHANGED <<sp_state, sp_id, sp_ds, sp_s, sp_data, heap, alive, backlog, udp,
                 netVars>>

\* ss_testid as it is read through the argument.
TestIds(c, n) ==
  IF heap[c][n] = {} THEN 0 .. 1 ELSE {ses.testid : ses \in heap[c][n]}

send_rcv_report(c, n) ==
  {sp_proto("REPORT_RCV", sp_id[c], FALSE, testid) : testid \in TestIds(c, n)}

\* The log that follows the header is left out.
send_send_report(c, n) ==
  {sp_proto("REPORT_SEND", sp_id[c], FALSE, testid) : testid \in TestIds(c, n)}

rcv_timeout(c, n) ==
  IF sp_state[c] = "SS_DATA_RCV"
  THEN \E report \in send_rcv_report(c, n) : EndCall(c, n, "rcv", report)
  ELSE TimerExpires(c, n, "rcv")

\* Mutant: the timeout is not registered again.
StopSendingForgets(c) ==
  /\ sp_state' = [sp_state EXCEPT ![c] = "SS_DATA_SEND_CLOSING"]
  /\ timers' = [timers EXCEPT ![c] = NoTimers]
  /\ UNCHANGED <<sp_id, sp_ds, sp_s, sp_data, heap, alive, backlog, udp, netVars>>

\* The duration has passed, or no echo came back.  The timeout is registered
\* again.
StopSending(c) ==
  /\ sp_state' = [sp_state EXCEPT ![c] = "SS_DATA_SEND_CLOSING"]
  /\ UNCHANGED <<sp_id, sp_ds, sp_s, sp_data, heap, timers, alive, backlog, udp, netVars>>

\* Before that the timeout sends packets and is registered again.
send_data_wrapper(c, n) ==
  CASE sp_state[c] = "SS_DATA_SEND" -> StopSending(c)
    [] sp_state[c] = "SS_DATA_SEND_CLOSING" ->
         \E report \in send_send_report(c, n) : EndCall(c, n, "send", report)
    [] OTHER -> TimerExpires(c, n, "send")

\* The session at address n is not the one the timeout was set for, as far
\* as can be told.
MayCrash(c, n, kind) == {ses \in heap[c][n] : ses.kind = kind} = {}

\* The timeout sends a report.
Reports(c, kind) ==
  \/ kind = "rcv" /\ sp_state[c] = "SS_DATA_RCV"
  \/ kind = "send" /\ sp_state[c] = "SS_DATA_SEND_CLOSING"

SessionTimeout(c, n, kind) ==
  /\ c \in alive /\ timers[c][<<n, kind>>] > 0
  /\ \/ kind = "rcv" /\ rcv_timeout(c, n)
     \/ kind = "send" /\ send_data_wrapper(c, n)
     \/ MayCrash(c, n, kind) /\ ProcessEnds(c)
     \/ Reports(c, kind) /\ SendMayFail(c) /\ ProcessEnds(c)

-----------------------------------------------------------------------------
\* A signal, or the machine goes down.
ClientStops(c) == c \in alive /\ ProcessEnds(c)

\* Started again, with a new random identity.  udp_socket_init binds port 0: the
\* address is any that no running client has, new or used before.
ClientStarts(c, id, addr) ==
  /\ c \notin alive
  /\ \A d \in alive : addr # sp_ds[d]
  /\ alive' = alive \cup {c}
  /\ sp_id' = [sp_id EXCEPT ![c] = id]
  /\ sp_ds' = [sp_ds EXCEPT ![c] = addr]
  /\ UNCHANGED <<sp_state, sp_s, sp_data, heap, timers, backlog, udp, netVars>>

-----------------------------------------------------------------------------
CliTypeOK ==
  /\ sp_state \in [Client -> SpcState] /\ sp_id \in [Client -> Ids]
  /\ sp_ds \in [Client -> UdpAddrs]
  /\ sp_s \in [Client -> 0 .. MaxConns] /\ sp_data \in [Client -> 0 .. MaxSessions]
  /\ heap \in [Client -> [Address -> SUBSET Session]]
  /\ timers \in [Client -> [Address \X Kind -> Nat]]
  /\ alive \subseteq Client /\ backlog \in Seq(Conns)
  /\ udp \subseteq [id : Ids, from : UdpAddrs]
=============================================================================
