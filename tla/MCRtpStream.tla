----------------------------- MODULE MCRtpStream ------------------------------
(* One stream over a network whose faults each configuration names.        *)
EXTENDS RtpStream
=============================================================================
