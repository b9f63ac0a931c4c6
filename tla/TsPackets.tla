----------------------------- MODULE TsPackets -----------------------------
(***************************************************************************)
(* What the MPEG-TS writer and reader of mpegts/ agree on: the layout of a *)
(* 188-byte transport packet in bytes, the 4-bit continuity counter, the   *)
(* 33-bit time stamps of a PES header and the rule that unwraps them.      *)
(* CCMod and Wrap are 16 and 2^33 in the code; they are parameters so that *)
(* the proofs hold for every counter width and TLC can use a short cycle.  *)
(***************************************************************************)
EXTENDS Integers, Sequences

CONSTANTS CCMod,  \* values of continuity_counter (16 in the code)
          Wrap    \* values of a PES time stamp (2^33 in the code)

ASSUME CCModAssumption == CCMod \in Nat /\ CCMod > 2

ASSUME WrapAssumption == Wrap \in Nat /\ Wrap > 0 /\ Wrap % 2 = 0

packetSize == 188
payloadSize == packetSize - 4

pidPAT == 0
writerPMTPID == 4096

CC == 0..(CCMod - 1)

NextCC_Early(c) == (c + 1) % (CCMod - 1)

NextCC(c) == (c + 1) % CCMod

-----------------------------------------------------------------------------
(* Smallest encoding of an adaptation field: length and flags, and a PCR.  *)
encodedLen(hasPCR) == IF hasPCR THEN 8 ELSE 2

(* The PES header the writer puts before an access unit.  Both stamps are  *)
(* cut to 33 bits (for a negative stamp the mask of its two's complement   *)
(* is % as well); the DTS is sent only when it then differs from the PTS.  *)
appendPESHeader(pts, dts) ==
  LET hasDTS == pts % Wrap # dts % Wrap
  IN [ptsDTS |-> IF hasDTS THEN "both" ELSE "pts",
      pts    |-> pts % Wrap,
      dts    |-> IF hasDTS THEN dts % Wrap ELSE 0,
      len    |-> IF hasDTS THEN 19 ELSE 14]

(* Half of the cycle, the distance at which unwrapping becomes ambiguous.  *)
Half == Wrap \div 2

(* Fault: a wrap forwards is not seen.                                     *)
extendTimestamp_NoForward(reference, ts33) ==
  LET candidate == (reference - (reference % Wrap)) + ts33
  IN IF reference < 0 THEN ts33
     ELSE IF candidate > reference + Half THEN candidate - Wrap
     ELSE candidate

(* The value congruent to ts33 that is closest to the reference; a         *)
(* negative reference stands for "nothing seen yet".                       *)
extendTimestamp(reference, ts33) ==
  LET candidate == (reference - (reference % Wrap)) + ts33
  IN IF reference < 0 THEN ts33
     ELSE IF candidate < reference - Half THEN candidate + Wrap
     ELSE IF candidate > reference + Half THEN candidate - Wrap
     ELSE candidate
=============================================================================
