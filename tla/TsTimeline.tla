----------------------------- MODULE TsTimeline -----------------------------
(***************************************************************************)
(* The life of the time stamps of one track: an encoder's timeline of any  *)
(* length, cut to 33 bits by the writer (appendPESHeader), put together    *)
(* again by the reader (startUnit) with nothing but the previous unit to   *)
(* go by.  Units lost on the way only make the jumps longer.               *)
(***************************************************************************)
EXTENDS TsPackets

CONSTANTS First,     \* DTS of a unit received without a reference
          Jumps,     \* DTS difference of a unit to the one received before
          Reorders,  \* PTS - DTS of a unit
          MaxTime    \* bound: end of the timeline

ASSUME FirstAssumption == First \subseteq Int
ASSUME JumpsAssumption == Jumps \subseteq {j \in Int : -Half < j /\ j < Half}
ASSUME ReordersAssumption == Reorders \subseteq {c \in Int : 0 <= c /\ c < Half}

VARIABLES sent,      \* [pts, dts] the writer was given for the last unit
          lastTS,    \* esStream.lastTS
          pts, dts,  \* esStream.pts, esStream.dts
          base       \* dts - sent.dts when FirstUnit was received last

vars == <<sent, lastTS, pts, dts, base>>

Init ==
  /\ sent = [pts |-> 0, dts |-> 0]
  /\ lastTS = -1
  /\ pts = 0 /\ dts = 0
  /\ base = 0

(* startUnit, given the header the writer made.                            *)
Receive(p, d) ==
  LET hdr   == appendPESHeader(p, d)
      dts33 == IF hdr.ptsDTS = "both" THEN hdr.dts ELSE hdr.pts
      ext   == extendTimestamp(lastTS, dts33)
  IN /\ sent' = [pts |-> p, dts |-> d]
     /\ lastTS' = ext
     /\ dts' = ext
     /\ pts' = extendTimestamp(ext, hdr.pts)

(* A unit with no reference, or with one before zero.                      *)
FirstUnit(d, c) ==
  /\ lastTS < 0
  /\ Receive(d + c, d)
  /\ base' = (d % Wrap) - d

(* The next unit.  A timeline that steps back before the zero of the       *)
(* unwrapped one leaves a negative reference: the unit after it is taken   *)
(* for the first one.                                                      *)
NextUnit(j, c) ==
  /\ lastTS >= 0
  /\ sent.dts + j <= MaxTime
  /\ Receive(sent.dts + j + c, sent.dts + j)
  /\ UNCHANGED base

Next ==
  \/ \E d \in First, c \in Reorders : FirstUnit(d, c)
  \/ \E j \in Jumps, c \in Reorders : NextUnit(j, c)

Spec == Init /\ [][Next]_vars

-----------------------------------------------------------------------------
(* Types of the stamps the reader keeps for a stream (esStream).           *)
TypeOK ==
  /\ sent \in [pts : Int, dts : Int]
  /\ lastTS \in Int
  /\ pts \in Int /\ dts \in Int
  /\ base \in Int

(* Unwrapped stamps differ from the ones the writer was given by the same  *)
(* multiple of the cycle for the PTS and the DTS of every unit: no wrap is *)
(* missed, none is counted twice and reordering is kept (extendTimestamp), *)
(* until the timeline steps back before the reader's zero.                 *)
Tracking ==
  lastTS >= 0 =>
    /\ dts = sent.dts + base
    /\ pts = sent.pts + base
    /\ base % Wrap = 0

(* What makes Tracking inductive.                                          *)
Inv ==
  /\ TypeOK
  /\ lastTS >= 0 => lastTS = dts
  /\ Tracking
=============================================================================
