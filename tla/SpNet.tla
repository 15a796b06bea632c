--------------------------------- MODULE SpNet ---------------------------------
(***************************************************************************)
(* What the measurement server (utils/sps.c) and its clients (utils/spc.c) *)
(* share: the TCP connections that carry struct sp_proto and the UDP       *)
(* probes.  A connection is the socket s1 that accept returns; both ends   *)
(* have the same number, which is used again once both are closed.  TCP is *)
(* reliable and in order while both ends are open; the reader of a         *)
(* connection that the other side has closed still gets what was sent      *)
(* before, and what is sent to a closed end is gone.                       *)
(***************************************************************************)
EXTENDS Integers, Sequences, FiniteSets, SequencesExt

CONSTANTS
  MaxConns,     \* bound of the model: connections at a time
  Ids           \* identities (sp_id, cf_id) of clients

ASSUME NetAssumption == MaxConns \in Nat /\ Ids \subseteq Nat

VARIABLES
  c2s,        \* c2s[s]: messages to the server on connection s
  s2c,        \* s2c[s]: messages to the client on connection s
  srv_open,   \* connections whose server end is open
  cli_open    \* connections whose client end is open

netVars == <<c2s, s2c, srv_open, cli_open>>

Conns == 1 .. MaxConns

\* enum sp_type
SpType == {"REGISTER", "DEREGISTER", "START_SEND", "START_RCV",
           "REPORT_SEND", "REPORT_RCV", "EXIT"}

\* struct sp_proto: sp_type, sp_id, sr_busy and ss_testid; the magic cookie
\* and the version always match between programs of one release.
SpProto == [type : SpType, id : Nat, busy : BOOLEAN, testid : Nat]

sp_proto(type, id, busy, testid) ==
  [type |-> type, id |-> id, busy |-> busy, testid |-> testid]

\* Appends to the queue of connection s, whose reading end is open or not.
Send(queues, s, sp, open) ==
  IF s \in open THEN [queues EXCEPT ![s] = Append(@, sp)] ELSE queues

\* The connection that the next connect gets.
FreeConns == Conns \ (srv_open \cup cli_open)

NetInit ==
  /\ c2s = [s \in Conns |-> <<>>]
  /\ s2c = [s \in Conns |-> <<>>]
  /\ srv_open = {} /\ cli_open = {}

NetTypeOK ==
  /\ c2s \in [Conns -> Seq(SpProto)] /\ s2c \in [Conns -> Seq(SpProto)]
  /\ srv_open \subseteq Conns /\ cli_open \subseteq Conns
=============================================================================
