------------------------------- MODULE ILBCDefine -------------------------------
(***************************************************************************)
(* The lengths that define an iLBC frame of 30 ms (iLBC_define.h), and the *)
(* lengths of memory that the codebooks of start state and blocks have.    *)
(***************************************************************************)
BLOCKL == 240
NSUB == 6
NASUB == 4
SUBL == 40
STATE_LEN == 80
STATE_SHORT_LEN == 58
CB_NSTAGES == 3
CB_MEML == 147
NO_OF_BYTES == 50
stMemLTbl == 85
memLfTbl == 147
=============================================================================
