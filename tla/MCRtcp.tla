-------------------------------- MODULE MCRtcp ---------------------------------
(* A session with RTP packets of any source, and its reports.              *)
EXTENDS Rtcp, FiniteSets

CONSTANTS MaxClock,    \* bound: ticks of the clock
          MaxPackets,  \* bound: RTP datagrams
          MaxReports   \* bound: reports under way

VARIABLE packets   \* RTP datagrams so far

\* Packets of every kind come before the clock starts; the later ones differ
\* in their source only, and change that of the session.
Packets ==
  IF clock = 0 THEN [id : {1}, seq : SeqNr, ssrc : Ssrc, from : Addr, len : {0, 1},
                     version : {1, 2}, pt : {"agreed", "other"}]
  ELSE [id : {1}, seq : {0}, ssrc : Ssrc \ {rtp_ssrc}, from : Addr, len : {1},
        version : {2}, pt : {"agreed"}]

MCInit == RtcpInit /\ packets = 0

\* Nothing more is explored once the receiver ends.
MCNext ==
  /\ sphone_exit = 0
  /\ \/ /\ packets < MaxPackets /\ packets' = packets + 1
        /\ RtpInput(Packets)
     \/ RtcpNext /\ UNCHANGED packets
  /\ clock' <= MaxClock
  /\ Cardinality(rtcp_net') <= MaxReports

MCSpec == MCInit /\ [][MCNext]_<<vars, packets>>
=============================================================================
