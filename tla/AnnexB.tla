------------------------------- MODULE AnnexB -------------------------------
(***************************************************************************)
(* internal/annexb.Reader, which splits an Annex-B byte stream into NAL    *)
(* units, under the NextNAL of h264reader and h265reader, which leave out  *)
(* SEI units; and the scans of mpegts/h26x.go over the same bytes.         *)
(*                                                                         *)
(* A step is a call up to its first byte, or one ReadByte, which may give  *)
(* a byte, the end of the stream or a read error.  After an error the      *)
(* application calls again and the stream goes on where it was; what Next  *)
(* had collected is a local of the failed call.                            *)
(***************************************************************************)
EXTENDS Integers, SequencesExt

CONSTANTS MaxErrors   \* bound: read errors

VARIABLES codec,      \* "H264" or "H265"
          includeSEI, \* WithIncludeSEI
          input,      \* the stream
          pos,        \* bytes consumed
          started,    \* Reader.started
          pc,         \* "idle", "scan", or the final error: "EOF", "invalid"
          data, zeros,\* locals of Next
          nals,       \* what NextNAL returned
          errors      \* read errors so far

rvars == <<pos, started, pc, data, zeros, nals, errors>>

ReaderInit ==
  /\ includeSEI \in BOOLEAN
  /\ pos = 0
  /\ started = FALSE
  /\ pc = "idle"
  /\ data = << >> /\ zeros = 0
  /\ nals = << >>
  /\ errors = 0

-----------------------------------------------------------------------------
(* parseHeader: the type in the first byte; H.265 needs both bytes of its  *)
(* header, else the type stays TRAIL_N.                                    *)
UnitTypeH264(u) == u[1] % 32
UnitTypeH265(u) == IF Len(u) < 2 THEN 0 ELSE (u[1] % 128) \div 2
UnitType(c, u) == IF c = "H264" THEN UnitTypeH264(u) ELSE UnitTypeH265(u)

(* What NextNAL leaves out by default.                                     *)
IsSEIH264(u) == UnitTypeH264(u) = 6
IsSEIH265(u) == UnitTypeH265(u) \in {39, 40}
IsSEI(c, u) == IF c = "H264" THEN IsSEIH264(u) ELSE IsSEIH265(u)

(* NextNAL's loop: a unit is returned, or Next is called again.            *)
Return(unit) ==
  /\ data' = << >> /\ zeros' = 0
  /\ IF ~includeSEI /\ IsSEI(codec, unit)
     THEN UNCHANGED <<nals, pc>>
     ELSE nals' = Append(nals, unit) /\ pc' = "idle"

(* readPrefix: the length of the start code at the head of the stream.     *)
Prefix ==
  CASE IsPrefix(<<0, 0, 1>>, input)    -> 3
    [] IsPrefix(<<0, 0, 0, 1>>, input) -> 4
    [] OTHER -> 0

(* NextNAL calls Next; the first call reads the prefix.                    *)
Call ==
  /\ pc = "idle"
  /\ data' = << >> /\ zeros' = 0
  /\ IF started THEN pc' = "scan" /\ UNCHANGED <<pos, started>>
     ELSE CASE Len(input) < 4 -> pc' = "EOF" /\ UNCHANGED <<pos, started>>
            [] Len(input) >= 4 /\ Prefix = 0 ->
                 pc' = "invalid" /\ UNCHANGED <<pos, started>>
            [] OTHER -> pc' = "scan" /\ pos' = Prefix /\ started' = TRUE
  /\ UNCHANGED <<nals, errors>>

(* A start code has two or three zeros.                                    *)
Trimmed(d, z) == SubSeq(d, 1, Len(d) - (IF z < 3 THEN z ELSE 3))

(* The 1 of a start code ends the unit; nothing between two start codes is *)
(* no unit.                                                                *)
AtStartCode ==
  IF Trimmed(data, zeros) # << >> THEN Return(Trimmed(data, zeros))
  ELSE data' = << >> /\ zeros' = 0 /\ UNCHANGED <<nals, pc>>

ReadByte ==
  LET b == input[pos + 1]
  IN /\ pc = "scan" /\ pos < Len(input)
     /\ pos' = pos + 1
     /\ IF b = 1 /\ zeros >= 2 THEN AtStartCode
        ELSE /\ data' = Append(data, b)
             /\ zeros' = IF b = 0 THEN zeros + 1 ELSE 0
             /\ UNCHANGED <<nals, pc>>
     /\ UNCHANGED <<started, errors>>

(* io.EOF from the stream: the last unit, or io.EOF to the caller.         *)
ReadEnd ==
  /\ pc = "scan" /\ pos = Len(input)
  /\ IF data # << >> THEN Return(data)
     ELSE pc' = "EOF" /\ UNCHANGED <<data, zeros, nals>>
  /\ UNCHANGED <<pos, started, errors>>

(* Fault: an error makes the next call look for the prefix again.          *)
ReadError_Restarts ==
  /\ errors < MaxErrors
  /\ pc = "scan" \/ (pc = "idle" /\ ~started)
  /\ errors' = errors + 1
  /\ data' = << >> /\ zeros' = 0
  /\ pc' = "idle"
  /\ started' = FALSE
  /\ UNCHANGED <<pos, nals>>

(* Any other error, in readPrefix (Peek consumes nothing) or in the loop.  *)
ReadError ==
  /\ errors < MaxErrors
  /\ pc = "scan" \/ (pc = "idle" /\ ~started)
  /\ errors' = errors + 1
  /\ data' = << >> /\ zeros' = 0
  /\ pc' = "idle"
  /\ UNCHANGED <<pos, started, nals>>

ReaderNext ==
  /\ Call \/ ReadByte \/ ReadEnd \/ ReadError
  /\ UNCHANGED <<codec, includeSEI, input>>

-----------------------------------------------------------------------------
(* bytes.Index, repeated: where the start codes of a buffer are.           *)
StartCodes(b) == {p \in 1..(Len(b) - 2) : SubSeq(b, p, p + 2) = <<0, 0, 1>>}

(* The unit between the start code at p and the next one; one zero in      *)
(* front of that belongs to it, and the last unit takes everything.        *)
UnitAt(b, p) ==
  LET later == {q \in StartCodes(b) : q > p}
      q     == CHOOSE q \in later : \A r \in later : q <= r
      end   == IF later = {} THEN Len(b)
               ELSE IF q - 1 > p + 2 /\ b[q - 1] = 0 THEN q - 2 ELSE q - 1
  IN SubSeq(b, p + 3, end)

(* mpegts.forEachNAL, all the units it visits.                             *)
forEachNAL(b) ==
  LET starts == SetToSortSeq(StartCodes(b), <)
  IN SelectSeq([k \in DOMAIN starts |-> UnitAt(b, starts[k])],
               LAMBDA u : u # << >>)

NALType(c, u) == IF c = "H264" THEN u[1] % 32 ELSE (u[1] \div 2) % 64

(* Fault: a delimiter anywhere is enough.                                  *)
StartsWithAUD_Anywhere(c, b) ==
  \E k \in DOMAIN forEachNAL(b) :
    NALType(c, forEachNAL(b)[k]) = IF c = "H264" THEN 9 ELSE 35

(* h264StartsWithAUD, h265StartsWithAUD.                                   *)
StartsWithAUD(c, b) ==
  /\ forEachNAL(b) # << >>
  /\ NALType(c, forEachNAL(b)[1]) = IF c = "H264" THEN 9 ELSE 35

(* h264IsRandomAccess, h265IsRandomAccess.                                 *)
IsRandomAccess(c, b) ==
  \E k \in DOMAIN forEachNAL(b) :
    NALType(c, forEachNAL(b)[k]) \in (IF c = "H264" THEN {5} ELSE 16..23)
=============================================================================
