------------------------------ MODULE MCRtpDump ------------------------------
(* Constants for checking RtpDump.                                         *)
EXTENDS RtpDump

CONSTANTS w1, w2, r1, r2

RTP(n, t) == [rtcp |-> FALSE, len |-> n, offset |-> t]
RTCP(n, t) == [rtcp |-> TRUE, len |-> n, offset |-> t]

(* No payload, one byte, little, the most a record holds, one byte more.   *)
MCPackets == {RTP(0, 3), RTP(12, 1003), RTCP(1, 3), RTP(65527, 3), RTP(65528, 3)}

(* The shortest and the longest address, and a Source that is not IPv4.    *)
MCHeaders == {[valid |-> TRUE, len |-> 23], [valid |-> TRUE, len |-> 35],
              [valid |-> FALSE, len |-> 21]}
=============================================================================
