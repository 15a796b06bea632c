-------------------------------- MODULE MCMedia --------------------------------
(* The parts that handle audio, one of which moves in each behaviour: the  *)
(* shared buffer of playout, a recorder, the coding of a packet, or the    *)
(* decoder of iLBC over many frames.                                       *)
EXTENDS Shbuf, Recorder, Coding, Concealment

VARIABLE part

\* The others in one state of their initial ones.
NoPlayout == Init /\ play_pos = 0
NoRecord == RecInit /\ ra = CHOOSE r \in RecorderSet : TRUE

MCInit ==
  /\ initDecode
  /\ \/ part = "playout" /\ Init /\ NoRecord /\ NoCoding
     \/ part = "record" /\ RecInit /\ NoPlayout /\ NoCoding
     \/ part = "coding" /\ CodingInit /\ NoPlayout /\ NoRecord
     \/ part = "decode" /\ NoPlayout /\ NoRecord /\ NoCoding

MCNext ==
  /\ UNCHANGED part
  /\ \/ part = "playout" /\ Next /\ UNCHANGED <<recVars, codingVars, decVars>>
     \/ part = "record" /\ RecNext /\ UNCHANGED <<vars, codingVars, decVars>>
     \/ part = "coding" /\ CodingNext /\ UNCHANGED <<vars, recVars, decVars>>
     \/ part = "decode" /\ DecNext /\ UNCHANGED <<vars, recVars, codingVars>>

MCSpec == MCInit /\ [][MCNext]_<<vars, recVars, codingVars, decVars, part>>
=============================================================================
