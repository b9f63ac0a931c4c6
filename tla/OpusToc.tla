------------------------------- MODULE OpusToc -------------------------------
(***************************************************************************)
(* How oggwriter finds the duration of an Opus packet from its first two   *)
(* bytes (opusPacketSampleCount), and the table of RFC 6716.  The granule  *)
(* positions of a file are sums of these durations.                        *)
(***************************************************************************)
EXTENDS Integers, Sequences

errInvalid == -1

opusGranuleSampleRate == 48000
maxOpusPacketSamples == 5760

(* Fault: 60 ms frames follow the rule of the others.                      *)
opusSamplesPerFrame_No60(toc) ==
  LET frameSize == (toc \div 8) % 4
  IN CASE toc >= 128 ->
            (opusGranuleSampleRate * 2^frameSize) \div 400
       [] toc < 128 /\ toc >= 96 ->
            opusGranuleSampleRate \div (IF frameSize % 2 = 1 THEN 50 ELSE 100)
       [] OTHER ->
            (opusGranuleSampleRate * 2^frameSize) \div 100

opusSamplesPerFrame(toc) ==
  LET frameSize == (toc \div 8) % 4
  IN CASE toc >= 128 ->
            (opusGranuleSampleRate * 2^frameSize) \div 400
       [] toc < 128 /\ toc >= 96 ->
            opusGranuleSampleRate \div (IF frameSize % 2 = 1 THEN 50 ELSE 100)
       [] toc < 96 /\ frameSize = 3 ->
            (opusGranuleSampleRate * 60) \div 1000
       [] OTHER ->
            (opusGranuleSampleRate * 2^frameSize) \div 100

(* 0 stands for the error.                                                 *)
opusPacketFrameCount(p) ==
  CASE p[1] % 4 = 0 -> 1
    [] p[1] % 4 \in {1, 2} -> 2
    [] OTHER -> IF Len(p) < 2 THEN 0 ELSE p[2] % 64

opusPacketSampleCount(p) ==
  LET frames == opusPacketFrameCount(p)
      count  == opusSamplesPerFrame(p[1]) * frames
  IN IF p = << >> THEN errInvalid
     ELSE IF frames = 0 \/ count > maxOpusPacketSamples THEN errInvalid
     ELSE count

-----------------------------------------------------------------------------
(* RFC 6716, table 2: frame durations of configurations 0 to 31, in tenths *)
(* of a millisecond.                                                       *)
FrameTenths ==
  <<100, 200, 400, 600, 100, 200, 400, 600, 100, 200, 400, 600,
    100, 200, 100, 200,
    25, 50, 100, 200, 25, 50, 100, 200, 25, 50, 100, 200, 25, 50, 100, 200>>

(* RFC 6716, 3.1 and 3.2: 1, 2, 2 or a given number M > 0 of frames, at    *)
(* most 120 ms in all.                                                     *)
Frames(p) ==
  CASE p[1] % 4 = 0 -> {1}
    [] p[1] % 4 \in {1, 2} -> {2}
    [] OTHER -> IF Len(p) > 1 THEN {p[2] % 64} \ {0} ELSE {}
=============================================================================
