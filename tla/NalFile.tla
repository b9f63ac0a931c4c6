------------------------------- MODULE NalFile -------------------------------
(***************************************************************************)
(* h264writer.H264Writer or h265writer.H265Writer writing an Annex-B file  *)
(* from RTP packets, and h264reader or h265reader reading it back.  The    *)
(* writer records nothing before the first key frame; taking the NAL units *)
(* out of an RTP payload is the work of pion/rtp (external).  The reader   *)
(* is run on arbitrary bytes too.                                          *)
(***************************************************************************)
EXTENDS AnnexB

CONSTANTS Payloads(_),  \* RTP payloads of a codec: [bytes, nals, opens], the
                        \* units it completes, and those that begin in it
          Streams(_),   \* byte streams of other origin
          MaxPayloads,  \* bound: RTP packets handed to WriteRTP
          MaxFailures   \* bound: failing writes

VARIABLES hasKeyFrame,  \* hasKeyFrame of the writer
          pending,      \* the depacketizer holds the start of a unit
          sent,         \* payloads handed to WriteRTP
          failed,       \* indices in sent whose Write failed
          closed,       \* Close was called
          foreign       \* the file is not from the writer

wvars == <<hasKeyFrame, pending, sent, failed, closed, foreign>>
vars == <<codec, includeSEI, input, rvars, wvars>>

Init ==
  /\ ReaderInit
  /\ codec \in {"H264", "H265"}
  /\ hasKeyFrame = FALSE
  /\ pending = FALSE
  /\ sent = << >> /\ failed = {}
  /\ \/ closed = FALSE /\ foreign = FALSE /\ input = << >>
     \/ closed = TRUE /\ foreign = TRUE /\ input \in Streams(codec)

-----------------------------------------------------------------------------
(* isKeyFrame of h264writer: an SPS, alone or first in a STAP-A.           *)
isKeyFrameH264(p) ==
  /\ Len(p) >= 4
  /\ \/ p[1] % 32 = 7
     \/ p[1] % 32 = 24 /\ p[4] % 32 = 7

(* VPS, SPS, PPS and IDR pictures.                                         *)
isKeyFrameNalu(t) == t \in {32, 33, 34, 19, 20}

Size(p, o) == 256 * p[o] + p[o + 1]

(* Fault: the scan stops at an empty unit.                                 *)
AggregatedAt_StopsAtEmpty(p) ==
  LET at[o \in Nat] == IF o + 1 > Len(p) \/ o + 1 + Size(p, o) > Len(p) THEN {}
                       ELSE IF Size(p, o) = 0 THEN {}
                       ELSE {o + 2} \cup at[o + 2 + Size(p, o)]
  IN at[3]

(* The loop of checkAggregationPacketForKeyFrame: offsets of the units in  *)
(* front of the first one that is cut off.                                 *)
AggregatedAt(p) ==
  LET at[o \in Nat] == IF o + 1 > Len(p) \/ o + 1 + Size(p, o) > Len(p) THEN {}
                       ELSE (IF Size(p, o) > 0 THEN {o + 2} ELSE {})
                              \cup at[o + 2 + Size(p, o)]
  IN at[3]

(* isKeyFrame of h265writer: such a unit, one in an aggregation packet, or *)
(* the start of a fragmented one.                                          *)
isKeyFrameH265(p) ==
  LET t(b) == (b % 128) \div 2
  IN /\ Len(p) >= 2
     /\ \/ isKeyFrameNalu(t(p[1]))
        \/ t(p[1]) = 48 /\ \E o \in AggregatedAt(p) : isKeyFrameNalu(t(p[o]))
        \/ t(p[1]) = 49 /\ Len(p) >= 3 /\ p[3] >= 128 /\ isKeyFrameNalu(p[3] % 64)

isKeyFrame(p) == IF codec = "H264" THEN isKeyFrameH264(p) ELSE isKeyFrameH265(p)

(* Unmarshal of the depacketizer: the units a payload completes.  What the *)
(* end of a unit gives whose start was not seen is up to pion/rtp.         *)
Unmarshal(p) ==
  IF p.opens = << >> /\ ~pending THEN {<< >>, p.nals} ELSE {p.nals}

AnnexBBytes(units) ==
  FoldLeft(LAMBDA b, u : b \o <<0, 0, 0, 1>> \o u, << >>, units)

(* WriteRTP: the payload is left out, or its units are written; a failing  *)
(* Write has put n bytes into the file.  An empty payload is a no-op; an   *)
(* error of Unmarshal leaves what a Write that fails with n = 0 leaves.    *)
WriteRTP(p, units, n) ==
  LET put == AnnexBBytes(units)
  IN /\ ~closed /\ Len(sent) < MaxPayloads
     /\ hasKeyFrame' = (hasKeyFrame \/ isKeyFrame(p.bytes))
     /\ sent' = Append(sent, [opens |-> p.opens, nals |-> p.nals, put |-> units])
     /\ IF ~hasKeyFrame'
        THEN n = 0 /\ units = << >> /\ UNCHANGED <<pending, input, failed>>
        ELSE /\ units \in Unmarshal(p)
             /\ pending' = (p.opens # << >> /\ p.nals = << >>)
             /\ n \in 0..Len(put)
             /\ input' = input \o SubSeq(put, 1, n)
             /\ failed' = IF n = Len(put) THEN failed ELSE failed \cup {Len(sent')}
             /\ Cardinality(failed') <= MaxFailures
     /\ UNCHANGED <<codec, includeSEI, rvars, closed, foreign>>

(* Close; the writer is not used afterwards.                               *)
Close ==
  /\ ~closed /\ closed' = TRUE
  /\ UNCHANGED <<codec, includeSEI, input, rvars, hasKeyFrame, pending, sent,
                 failed, foreign>>

(* The two writers differ in isKeyFrame and in the depacketizer only.      *)
Handed(p) == \E units \in {<< >>, p.nals} :
               \E n \in 0..Len(AnnexBBytes(units)) : WriteRTP(p, units, n)
WriteH264 == codec = "H264" /\ \E p \in Payloads(codec) : Handed(p)
WriteH265 == codec = "H265" /\ \E p \in Payloads(codec) : Handed(p)

Read == closed /\ ReaderNext /\ UNCHANGED wvars

Done == pc \in {"EOF", "invalid"} /\ UNCHANGED vars

Next == WriteH264 \/ WriteH265 \/ Close \/ Read \/ Done

Spec == Init /\ [][Next]_vars

-----------------------------------------------------------------------------
(* The units NextNAL is to return of those given.                          *)
Visible(units) == SelectSeq(units, LAMBDA u : includeSEI \/ ~IsSEI(codec, u))

(* What a key frame begins with, by the units themselves.                  *)
KeyUnit(u) == UnitType(codec, u) \in
                (IF codec = "H264" THEN {7} ELSE {19, 20, 32, 33, 34})

Opens(p) == IF codec = "H264" THEN p.opens # << >> /\ KeyUnit(p.opens[1])
            ELSE \E k \in DOMAIN p.opens : KeyUnit(p.opens[k])

(* The packets in front of the first key frame are not recorded; of the    *)
(* others, the units of those whose Write succeeded.                       *)
Recorded ==
  FlattenSeq([k \in DOMAIN sent |->
    IF k \in failed \/ ~\E j \in 1..k : Opens(sent[j]) THEN << >>
    ELSE IF sent[k].opens = << >> THEN sent[k].put
    ELSE sent[k].nals])

(* s without the elements at D.                                            *)
Without(s, D) ==
  FlattenSeq([k \in DOMAIN s |-> IF k \in D THEN << >> ELSE <<s[k]>>])

(* A NAL unit does not end in a zero, zeros behind it are padding.         *)
Unpadded(units) ==
  [k \in DOMAIN units |->
     LET u == units[k] IN
     SubSeq(u, 1, Max({i \in DOMAIN u : u[i] # 0} \cup {0}))]

(* The file of a recording reads back as the units of all packets from the *)
(* first key frame on, SEI units only if asked for.  A Write that failed   *)
(* half way costs none of the others, whatever it left in the file, except *)
(* when it was the first and stopped inside the start code: no reader      *)
(* takes such a file.                                                      *)
RecordedIsRead ==
  (pc \in {"EOF", "invalid"} /\ ~foreign /\ errors = 0) =>
    \/ pc = "invalid" /\ failed # {} /\ input[4] # 1 /\ input[3] = 0
    \/ /\ pc = "EOF"
       /\ \E extra \in SUBSET DOMAIN nals :
            Without(Unpadded(nals), extra) = Visible(Recorded)
       /\ failed = {} => nals = Visible(Recorded)

(* NextNAL and the scans of mpegts see the same units in a stream, however *)
(* its zeros and start codes lie.  A read error costs at most the unit it  *)
(* hits and, inside a start code, the one behind; it adds at most one      *)
(* fragment.  All others come out, whole and in order.                     *)
UnitsSurviveErrors ==
  (pc \in {"EOF", "invalid"} /\ Prefix # 0) =>
    LET units == Visible(forEachNAL(input))
    IN /\ pc = "EOF"
       /\ \E lost \in SUBSET DOMAIN units, extra \in SUBSET DOMAIN nals :
            /\ Cardinality(lost) <= 2 * errors
            /\ Cardinality(extra) <= errors
            /\ Without(units, lost) = Without(nals, extra)

(* The flags mpegts sets on an access unit are those of the units a reader *)
(* of the same bytes gets: a delimiter first, a random access point        *)
(* anywhere.  A unit has a whole header.                                   *)
ScansAgreeWithReader ==
  (/\ pc = "EOF" /\ errors = 0 /\ includeSEI
   /\ \A k \in DOMAIN nals : Len(nals[k]) >= 2) =>
     LET types == [k \in DOMAIN nals |-> UnitType(codec, nals[k])]
     IN /\ StartsWithAUD(codec, input) <=>
             (nals # << >> /\ types[1] = IF codec = "H264" THEN 9 ELSE 35)
        /\ IsRandomAccess(codec, input) <=>
             \E k \in DOMAIN nals :
               types[k] \in (IF codec = "H264" THEN {5} ELSE 16..23)
=============================================================================
