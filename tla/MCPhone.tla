-------------------------------- MODULE MCPhone --------------------------------
(* Ways for the programs to start and to end.                              *)
EXTENDS Phone
=============================================================================
