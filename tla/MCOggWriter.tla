---------------------------- MODULE MCOggWriter ----------------------------
(* Constants for checking OggWriter.                                       *)
EXTENDS OggWriter

CONSTANTS c1, c2

(* Two tracks, one of them with a choice of serials, one of which is taken.*)
MCRequests == {[ssrc |-> 1, serial |-> 11], [ssrc |-> 2, serial |-> 11],
               [ssrc |-> 2, serial |-> 12]}

(* One page; the exact capacity of a page, which takes an empty second     *)
(* page; and a payload opusPacketSampleCount refuses.                      *)
MCPayloads == {[len |-> 80, samples |-> 960],
               [len |-> pageCapacity, samples |-> 480],
               [len |-> 80, samples |-> 0]}
=============================================================================
