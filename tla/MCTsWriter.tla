----------------------------- MODULE MCTsWriter -----------------------------
(* Constants for checking TsWriter by itself.                              *)
EXTENDS TsWriter

H264(p) == [pid |-> p, codec |-> "H264"]
H265(p) == [pid |-> p, codec |-> "H265"]

(* The application of this track moves its DTS about, the others send      *)
(* units of many lengths.                                                  *)
Jumping == <<H264(300)>>

(* Good lists, and every kind of list NewWriter refuses.                   *)
MCOptions ==
  { << >>, <<H264(256)>>, <<H265(256), H264(257)>>, Jumping, <<H264(31)>>,
    <<H264(8191)>>, <<H264(writerPMTPID)>>, <<H264(256), H265(256)>>,
    [i \in 1..34 |-> H264(255 + i)] }

(* Around the packet boundaries: with a 14 or 19 byte PES header and no,   *)
(* a 6 or a 7 byte delimiter, the first packet holds 184, 182 or 176 bytes.*)
MCLengths == {1, 150, 151, 156, 157, 162, 163, 164, 169, 170, 171, 346, 354}

MCCalls ==
  [opts \in MCOptions |->
    IF opts = Jumping
    THEN [n \in 1..4 |-> [len : {170}, step : {0, 3600, 9000, -3600},
                          reorder : {0}, aud : {FALSE}, rai : {FALSE}]]
    ELSE [n \in 1..2 |-> [len : MCLengths, step : {0}, reorder : {0, 1},
                          aud : BOOLEAN, rai : BOOLEAN]]]
=============================================================================
