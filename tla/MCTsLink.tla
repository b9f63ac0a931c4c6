------------------------------ MODULE MCTsLink ------------------------------
(* Constants for checking writer, transport and reader together.           *)
EXTENDS TsLink

H264(p) == [pid |-> p, codec |-> "H264"]
H265(p) == [pid |-> p, codec |-> "H265"]

OneTrack == <<H264(256)>>
TwoTracks == <<H264(256), H265(257)>>

MCOptions == {OneTrack, TwoTracks}

(* Three units.  On one track they take one packet, several, or more than  *)
(* the reader buffers; with two tracks the second one is a random access   *)
(* point.                                                                  *)
MCCalls ==
  [opts \in MCOptions |->
    [n \in 1..3 |->
      [len : IF opts = OneTrack THEN {100, 400, 600} ELSE {300},
       step : {5000}, reorder : {100}, aud : {FALSE},
       rai : {opts = TwoTracks /\ n = 2}]]]
=============================================================================
