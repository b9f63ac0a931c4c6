--------------------------- MODULE TsForeignStream ---------------------------
(***************************************************************************)
(* mpegts.Reader fed with packets of any other muxer, or damaged ones, in  *)
(* any order: tables in several pieces, corrupt or for other programs,     *)
(* scrambled packets, PES headers without time stamps, arbitrary           *)
(* continuity counters.                                                    *)
(***************************************************************************)
EXTENDS TsReader

CONSTANTS TablePackets,   \* packets the input may hold before the tables
          StreamPackets,  \* packets the input may hold afterwards
          MaxTables,      \* bound: packets read while looking for the tables
          MaxPackets      \* bound: packets read afterwards

(* The payload of a packet of an elementary stream, which is not empty     *)
(* (packetPayload), and what parsePESHeader finds at its start: ptsDTS is  *)
(* "none" unless there is a header, whole and with a PTS.                  *)
PESHeader == [ptsDTS : {"none", "pts", "both"}, pts : Nat, dts : Nat, len : Nat]

Payload == [kind : {"es"}, au : Nat, off : Nat, len : 1..payloadSize,
            pes : PESHeader]

ASSUME StreamPacketsAssumption ==
  \A p \in StreamPackets :
    /\ p \in [pid : Nat, start : BOOLEAN, cc : CC, rai : BOOLEAN,
              fault : {"none", "error", "scrambled"}, body : {p.body}]
    /\ p.body.kind = "es" =>
         /\ p.body \in Payload
         /\ p.body.pes.ptsDTS # "none" => p.body.pes.len <= p.body.len

ASSUME TablePacketsAssumption ==
  \A p \in TablePackets :
    p.body.kind = "psi" /\ p.body.sec.table = "pmt" =>
      p.body.sec.streams \in Seq([type : Nat, pid : Nat])

VARIABLES tables,  \* number of packets read while looking for the tables
          seen     \* the packets read afterwards, in order

vars == <<rvars, tables, seen>>

Init == ReaderInit /\ tables = 0 /\ seen = << >>

ReadForTables ==
  /\ tables < MaxTables
  /\ \E p \in TablePackets :
       ReadPATPacket(p) \/ ReadPMTPacket(p) \/ SkipPacketInTables(p)
  /\ tables' = tables + 1
  /\ UNCHANGED seen

(* Pieces get the packet's position in the input as their unit number.     *)
At(p, n) ==
  IF p.body.kind = "es" THEN [p EXCEPT !.body.au = n] ELSE p

ReadForUnits ==
  /\ Len(seen) < MaxPackets
  /\ \E p \in StreamPackets :
       LET q == At(p, Len(seen) + 1)
       IN /\ ReadESPacket(q) \/ SkipPacket(q)
          /\ seen' = Append(seen, q)
  /\ UNCHANGED tables

AtEnd ==
  /\ ReadEOF \/ Flush \/ ReportEOF
  /\ UNCHANGED <<tables, seen>>

Next == ReadForTables \/ ReadForUnits \/ AtEnd

Spec == Init /\ [][Next]_vars

-----------------------------------------------------------------------------
(* Packets of a PID, by position, that handleES looks at.                  *)
Counted(pid) ==
  {n \in DOMAIN seen : seen[n].pid = pid /\ Relevant(seen[n])}

(* No packet of the PID between m and n was taken as new.                  *)
OnlyRepeats(pid, m, n) ==
  \A j \in Counted(pid) \cap (m + 1)..(n - 1) :
    seen[j].cc = seen[m].cc /\ ~seen[j].start

(* Packet n goes on where packet m ended.                                  *)
Follows(pid, m, n) ==
  /\ n \in Counted(pid) /\ m < n
  /\ ~seen[n].start
  /\ seen[n].cc = NextCC(seen[m].cc)
  /\ OnlyRepeats(pid, m, n)

(* The bytes of a packet that belong to a unit.                            *)
Bytes(p) == Piece(p, IF p.start THEN p.body.pes.len ELSE 0)

(* The pieces d are what the packets from unit start s on hold.            *)
Run(pid, d, rai, s) ==
  /\ s \in Counted(pid) /\ seen[s].start
  /\ seen[s].body.pes.ptsDTS \in {"pts", "both"}
  /\ rai = seen[s].rai
  /\ d = << >> => Bytes(seen[s]) = << >>
  /\ d # << >> => \/ d[1].au = s
                  \/ Bytes(seen[s]) = << >> /\ Follows(pid, s, d[1].au)
  /\ \A k \in 2..Len(d) : Follows(pid, d[k-1].au, d[k].au)
  /\ \A k \in DOMAIN d : <<d[k]>> = Bytes(seen[d[k].au])

(* Data of a returned unit begins with the packet that started the unit    *)
(* and goes on with packets whose counters follow each other, all bytes of *)
(* each, with nothing but repeats of the last one in between, and nothing  *)
(* overwrites it while the same call begins the next unit (handleES,       *)
(* finish, startUnit).                                                     *)
DataIsOneRun ==
  returned.stream # 0 =>
    /\ Data(returned) # << >>
    /\ \E s \in DOMAIN seen : Run(returned.pid, Data(returned), returned.rai, s)

Bounded(buf) ==
  PieceLen(buf) <= MaxAUSize \/ (PieceLen(buf) <= payloadSize /\ Len(buf) = 1)

(* Memory per track stays bounded: a buffer holds at most the size limit,  *)
(* or one packet payload (WithMaxAccessUnitSize, handleES).                *)
BufferBounded ==
  \A i \in DOMAIN order : \A b \in {0, 1} : Bounded(order[i].mem[b])

(* The tracks are those of the PMT of the first program of a PAT, in its   *)
(* order and with H.264 or H.265 only, in spite of split, corrupt, foreign *)
(* or interrupted sections (readPAT, readPMT, sectionAssembler).           *)
TracksFromTables ==
  phase \in {"read", "flush", "eof"} =>
    \E p, q \in TablePackets :
      /\ p.pid = pidPAT /\ p.body.kind = "psi" /\ p.body.sec.table = "pat"
      /\ q.pid = pmtPID /\ q.body.kind = "psi" /\ q.body.sec.table = "pmt"
      /\ Programs(p.body.sec) # << >> /\ pmtPID = Programs(p.body.sec)[1].pid
      /\ LET table == q.body.sec.streams
             want  == {j \in DOMAIN table : table[j].type \in {27, 36}}
         IN /\ want # {} /\ DOMAIN order = 1..Cardinality(want)
            /\ \A k \in DOMAIN order : order[k].pid = table[Nth(want, k)].pid

-----------------------------------------------------------------------------
(* The inductive invariant behind the three.                               *)
(* The pieces of sections a PID may bring.                                 *)
Sections(pid) ==
  {p.body : p \in {x \in TablePackets : x.pid = pid /\ x.body.kind = "psi"}}

TypeOK ==
  /\ phase \in {"pat", "pmt", "read", "flush", "eof", "failed"}
  /\ order \in Seq(Stream({order[i].pid : i \in DOMAIN order}))
  /\ seen \in Seq({At(p, n) : p \in StreamPackets, n \in DOMAIN seen})
  /\ \A n \in DOMAIN seen : \E p \in StreamPackets : seen[n] = At(p, n)
  /\ flushIdx \in Nat

(* While the tables are looked for only pieces of the PID in question are  *)
(* collected, from a first one on, and nothing else has begun.             *)
Looking ==
  phase \in {"pat", "pmt"} =>
    /\ asm \in [active : BOOLEAN,
                got : Seq(Sections(IF phase = "pat" THEN pidPAT ELSE pmtPID))]
    /\ asm.active => asm.got # << >>
    /\ order = << >> /\ seen = << >> /\ returned = NoAU

ProgramFound ==
  phase \in {"pmt", "read", "flush", "eof"} =>
    \E p \in TablePackets :
      /\ p.pid = pidPAT /\ p.body.kind = "psi" /\ p.body.sec.table = "pat"
      /\ Programs(p.body.sec) # << >> /\ pmtPID = Programs(p.body.sec)[1].pid

(* The packet whose counter a stream has that holds d since unit start s.  *)
LastOf(d, s) == IF d = << >> THEN s ELSE d[Len(d)].au

(* Track i holds a run up to the packet before, which only repeats have    *)
(* followed.                                                               *)
HoldsRun(i) ==
  LET t == order[i]
      d == t.mem[t.cur]
  IN /\ i = StreamIndex(t.pid) /\ t.hasCC
     /\ \E s \in DOMAIN seen :
          /\ Run(t.pid, d, t.rai, s)
          /\ t.cc = seen[LastOf(d, s)].cc
          /\ OnlyRepeats(t.pid, LastOf(d, s), Len(seen) + 1)

Collects == \A i \in DOMAIN order : order[i].collecting => HoldsRun(i)

Inv ==
  /\ TypeOK /\ Looking /\ ProgramFound /\ TracksFromTables
  /\ Collects /\ DataIsOneRun /\ BufferBounded
=============================================================================
