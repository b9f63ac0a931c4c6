---------------------------- MODULE MCIvfWriter ----------------------------
(* Constants for checking IvfWriter: frames of one or three packets, the   *)
(* two ways to put frames together and the two ways to compute a PTS.      *)
EXTENDS IvfWriter

OneOrThree == {1, 3}

MCConfigs == {[codec |-> "VP8", directPTS |-> FALSE],
              [codec |-> "AV1", directPTS |-> TRUE]}
=============================================================================
