------------------------------ MODULE TsReader ------------------------------
(***************************************************************************)
(* mpegts.Reader: the demuxer.  NewReader reads packets until it has the   *)
(* PAT and the PMT; NextAccessUnit then reads packets until one completes  *)
(* an access unit, and at the end of the input gives out what is buffered. *)
(*                                                                         *)
(* One step handles one packet, or flushes one stream.  A packet's payload *)
(* is a piece of an elementary stream (body.kind = "es", with the fields   *)
(* of its PES header) or of a PSI section ("psi"), or empty.  A buffer     *)
(* of the code is a sequence of [au, off, len] pieces; each stream has two *)
(* arrays, and an access unit refers to one of them rather than to a copy. *)
(***************************************************************************)
EXTENDS TsPackets, FiniteSets, SequencesExt

CONSTANT MaxAUSize      \* Reader.maxAUSize
ASSUME MaxAUSizeAssumption == MaxAUSize \in Nat \ {0}

VARIABLES phase,     \* "pat", "pmt": in NewReader; "read", "flush", "eof"; "failed"
          pmtPID,    \* Reader.pmtPID
          asm,       \* the sectionAssembler in use: patAsm, then pmtAsm
          order,     \* Reader.order, with the state of each esStream
          flushIdx,  \* Reader.flushIdx
          returned   \* result of the last NextAccessUnit, or NoAU

rvars == <<phase, pmtPID, asm, order, flushIdx, returned>>

NoAU == [stream |-> 0]

NoSection == [active |-> FALSE, got |-> << >>]

ReaderInit ==
  /\ phase = "pat"
  /\ pmtPID = pidPAT
  /\ asm = NoSection
  /\ order = << >>
  /\ flushIdx = 0
  /\ returned = NoAU

-----------------------------------------------------------------------------
(* sectionAssembler.feed: collects pieces of a section from a unit start   *)
(* on, without looking at the continuity counter, and hands the section    *)
(* over when the length announced in its first piece is there.  A piece is *)
(* [sec, off, len, total, ptr]; ptr says that the pointer_field of a unit  *)
(* start stays inside the payload.                                         *)
PieceLen(s) == FoldLeft(LAMBDA n, x : n + x.len, 0, s)

Feed(a, start, piece) ==
  LET fed  == IF start THEN piece.ptr ELSE a.active
      got  == IF start THEN <<piece>> ELSE Append(a.got, piece)
      done == fed /\ PieceLen(got) >= got[1].total
  IN [asm     |-> IF fed /\ ~done THEN [active |-> TRUE, got |-> got]
                                  ELSE NoSection,
      section |-> IF done THEN got ELSE << >>]

(* parseSectionBytes, parsePAT and parsePMT accept what has a matching     *)
(* CRC and the right table_id: the pieces of one section from its first    *)
(* byte on, none missing, repeated or foreign.                             *)
SectionValid(got, table) ==
  /\ got # << >>
  /\ got[1].off = 0
  /\ \A k \in DOMAIN got :
       /\ got[k].sec = got[1].sec
       /\ k > 1 => got[k].off = got[k-1].off + got[k-1].len
  /\ got[1].sec.table = table

(* readPAT: the first program (network PID entries left out) is selected.  *)
Programs(sec) == SelectSeq(sec.programs, LAMBDA g : g.number # 0)

(* Fault: every other stream type is taken for H.265.                      *)
codecFromStreamType_Default(st) == IF st = 27 THEN "H264" ELSE "H265"

codecFromStreamType(st) ==
  CASE st = 27 -> "H264" [] st = 36 -> "H265" [] OTHER -> "unknown"

NewStream(pid) ==
  [pid |-> pid, mem |-> [b \in {0, 1} |-> << >>], cur |-> 0,
   collecting |-> FALSE, hasCC |-> FALSE, cc |-> 0, pts |-> 0, dts |-> 0,
   rai |-> FALSE, lastTS |-> -1]

(* The k-th of the entries of a table that are kept, in its order.         *)
Nth(keep, k) == CHOOSE j \in keep : Cardinality({m \in keep : m <= j}) = k

(* readPMT: one stream per entry with a supported codec, in table order.   *)
StreamsOf(sec) ==
  LET known == {j \in DOMAIN sec.streams :
                  codecFromStreamType(sec.streams[j].type) # "unknown"}
  IN [k \in 1..Cardinality(known) |-> NewStream(sec.streams[Nth(known, k)].pid)]

(* Reader.streams: a PID listed twice belongs to its last entry.           *)
StreamIndex(pid) ==
  LET same == {i \in DOMAIN order : order[i].pid = pid}
  IN IF same = {} THEN 0 ELSE CHOOSE i \in same : \A j \in same : j <= i

-----------------------------------------------------------------------------
(* Sync byte and adaptation field control are in order, and the packet is  *)
(* not marked as damaged (transport_error_indicator, which both callers    *)
(* test at once).                                                          *)
parsePacketHeader(p) == p.fault # "error"

(* readTables: one packet of NewReader.  Packets that do not parse are     *)
(* skipped, as are packets without payload; scrambling is not looked at.   *)
TablePacket(p, pid) ==
  parsePacketHeader(p) /\ p.pid = pid /\ p.body.kind = "psi"

ReadPATPacket(p) ==
  LET fed   == Feed(asm, p.start, p.body)
      found == /\ SectionValid(fed.section, "pat")
               /\ Programs(fed.section[1].sec) # << >>
  IN /\ phase = "pat"
     /\ TablePacket(p, pidPAT)
     /\ phase' = IF found THEN "pmt" ELSE "pat"
     /\ pmtPID' = IF found THEN Programs(fed.section[1].sec)[1].pid ELSE pmtPID
     /\ asm' = IF found THEN NoSection ELSE fed.asm
     /\ UNCHANGED <<order, flushIdx, returned>>

ReadPMTPacket(p) ==
  LET fed   == Feed(asm, p.start, p.body)
      found == SectionValid(fed.section, "pmt")
  IN /\ phase = "pmt"
     /\ TablePacket(p, pmtPID)
     /\ order' = IF found THEN StreamsOf(fed.section[1].sec) ELSE order
     /\ phase' = CASE ~found -> "pmt"
                   [] found /\ order' = << >> -> "failed"  \* errNoUsableProgram
                   [] OTHER -> "read"
     /\ asm' = fed.asm
     /\ UNCHANGED <<pmtPID, flushIdx, returned>>

SkipPacketInTables(p) ==
  /\ \/ phase = "pat" /\ ~TablePacket(p, pidPAT)
     \/ phase = "pmt" /\ ~TablePacket(p, pmtPID)
  /\ UNCHANGED rvars

-----------------------------------------------------------------------------
(* Fault: one array for the unit given out and the one collected next.     *)
Finish_OneArray(s) ==
  IF s.collecting /\ s.mem[s.cur] # << >>
  THEN [stream |-> [s EXCEPT !.collecting = FALSE], au |-> 1 + s.cur]
  ELSE [stream |-> [s EXCEPT !.collecting = FALSE], au |-> 0]

(* esStream.finish: the arrays change places, so that the next unit is     *)
(* collected in the other one.  `au` is 1 + the array given out, or 0.     *)
Finish(s) ==
  IF s.collecting /\ s.mem[s.cur] # << >>
  THEN [stream |-> [s EXCEPT !.cur = 1 - @, !.mem[1 - s.cur] = << >>,
                             !.collecting = FALSE],
        au |-> 1 + s.cur]
  ELSE [stream |-> [s EXCEPT !.collecting = FALSE], au |-> 0]

(* Elementary stream bytes of a payload: what follows the PES header when  *)
(* the packet starts a unit.  A header alone leaves nothing.               *)
Piece(p, skip) ==
  IF p.body.len > skip
  THEN <<[au |-> p.body.au, off |-> p.body.off + skip, len |-> p.body.len - skip]>>
  ELSE << >>

(* esStream.startUnit.  The PES header has to parse and to hold a PTS.     *)
StartUnit(s, p) ==
  LET hdr   == p.body.pes
      dts33 == IF hdr.ptsDTS = "both" THEN hdr.dts ELSE hdr.pts
      dts   == extendTimestamp(s.lastTS, dts33)
  IN IF hdr.ptsDTS \in {"pts", "both"}
     THEN [s EXCEPT !.lastTS = dts, !.dts = dts,
                    !.pts = extendTimestamp(dts, hdr.pts),
                    !.rai = p.rai, !.mem[s.cur] = Piece(p, hdr.len),
                    !.collecting = TRUE]
     ELSE [s EXCEPT !.collecting = FALSE]

(* Faults: a repeated packet is taken for a gap; a gap is ignored.         *)
Duplicate_Never(s, p) == FALSE

AfterCC_NoGap(s, p) == [s EXCEPT !.cc = p.cc, !.hasCC = TRUE]

(* The continuity check of handleES.                                       *)
Duplicate(s, p) == s.hasCC /\ p.cc = s.cc /\ ~p.start

AfterCC(s, p) ==
  LET gap == s.hasCC /\ p.cc # NextCC(s.cc)
      t   == IF gap THEN [s EXCEPT !.mem[s.cur] = << >>, !.collecting = FALSE]
                    ELSE s
  IN [t EXCEPT !.cc = p.cc, !.hasCC = TRUE]

(* Fault: the size limit is not checked.                                   *)
Continue_NoLimit(s, p) ==
  IF s.collecting THEN [s EXCEPT !.mem[s.cur] = @ \o Piece(p, 0)] ELSE s

(* A continuation packet: appended, unless the unit becomes too large.     *)
Continue(s, p) ==
  LET buf == s.mem[s.cur] \o Piece(p, 0)
  IN IF ~s.collecting THEN s
     ELSE IF PieceLen(buf) <= MaxAUSize
          THEN [s EXCEPT !.mem[s.cur] = buf]
          ELSE [s EXCEPT !.mem[s.cur] = << >>, !.collecting = FALSE]

(* What finish() gives the caller, taken before startUnit overwrites the   *)
(* stream's stamps; `arr` says which array Data points into.               *)
Unit(i, s, f) ==
  IF f.au = 0 THEN NoAU
  ELSE [stream |-> i, pid |-> s.pid, pts |-> s.pts, dts |-> s.dts,
        rai |-> s.rai, arr |-> f.au - 1]

HandleES(i, p) ==
  LET s == order[i]
      t == AfterCC(s, p)
      f == Finish(t)
  IN CASE Duplicate(s, p) -> [stream |-> s, unit |-> NoAU]
       [] ~Duplicate(s, p) /\ p.start ->
            [stream |-> StartUnit(f.stream, p), unit |-> Unit(i, t, f)]
       [] OTHER -> [stream |-> Continue(t, p), unit |-> NoAU]

(* handlePacket: packets in error or scrambled, packets of other PIDs and  *)
(* packets without payload leave everything as it is.                      *)
Relevant(p) ==
  /\ parsePacketHeader(p) /\ p.fault # "scrambled"
  /\ StreamIndex(p.pid) # 0
  /\ p.body.kind = "es"

ReadESPacket(p) ==
  LET i == StreamIndex(p.pid)
      h == HandleES(i, p)
  IN /\ phase = "read"
     /\ Relevant(p)
     /\ order' = [order EXCEPT ![i] = h.stream]
     /\ returned' = h.unit
     /\ UNCHANGED <<phase, pmtPID, asm, flushIdx>>

SkipPacket(p) ==
  /\ phase = "read"
  /\ ~Relevant(p)
  /\ returned' = NoAU
  /\ UNCHANGED <<phase, pmtPID, asm, order, flushIdx>>

(* The input ends: NewReader fails, NextAccessUnit begins to flush.        *)
ReadEOF ==
  /\ phase \in {"pat", "pmt", "read"}
  /\ phase' = IF phase = "read" THEN "flush" ELSE "failed"
  /\ returned' = NoAU
  /\ UNCHANGED <<pmtPID, asm, order, flushIdx>>

(* Fault: the flush waits at a stream that holds nothing.                  *)
Flush_Waits ==
  LET i == flushIdx + 1
      f == Finish(order[i])
  IN /\ phase = "flush"
     /\ flushIdx < Len(order)
     /\ flushIdx' = IF f.au = 0 THEN flushIdx ELSE i
     /\ order' = [order EXCEPT ![i] = f.stream]
     /\ returned' = Unit(i, order[i], f)
     /\ UNCHANGED <<phase, pmtPID, asm>>

(* One stream of the flush, in PMT order, each of them once.               *)
Flush ==
  LET i == flushIdx + 1
      f == Finish(order[i])
  IN /\ phase = "flush"
     /\ flushIdx < Len(order)
     /\ flushIdx' = i
     /\ order' = [order EXCEPT ![i] = f.stream]
     /\ returned' = Unit(i, order[i], f)
     /\ UNCHANGED <<phase, pmtPID, asm>>

(* Everything is flushed: io.EOF, now and on every later call.             *)
ReportEOF ==
  /\ phase = "flush"
  /\ flushIdx = Len(order)
  /\ phase' = "eof"
  /\ returned' = NoAU
  /\ UNCHANGED <<pmtPID, asm, order, flushIdx>>

ReadPacket(p) ==
  \/ ReadPATPacket(p) \/ ReadPMTPacket(p) \/ SkipPacketInTables(p)
  \/ ReadESPacket(p) \/ SkipPacket(p)

(* The bytes the caller sees in Data after the call has returned.          *)
Data(unit) == order[unit.stream].mem[unit.arr]

-----------------------------------------------------------------------------
(* Types of a piece and of an esStream, for the invariants of the users.   *)
Chunk == [au : Nat, off : Nat, len : Nat]

Stream(pids) ==
  [pid : pids, mem : [{0, 1} -> Seq(Chunk)], cur : {0, 1}, collecting : BOOLEAN,
   hasCC : BOOLEAN, cc : Nat, pts : Int, dts : Int, rai : BOOLEAN, lastTS : Int]
=============================================================================
