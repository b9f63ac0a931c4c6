------------------------------ MODULE TsWriter ------------------------------
(***************************************************************************)
(* mpegts.Writer: the muxer.  An application creates it with a list of     *)
(* tracks and hands it access units; every unit becomes a PES packet cut   *)
(* into transport packets, with the PAT and the PMT repeated in between.   *)
(*                                                                         *)
(* One step is the work between two calls of dst.Write: the destination is *)
(* code of the caller and every such call can fail, which makes the writer *)
(* abandon what it was doing.  Data is a position: byte `off` of the PES   *)
(* packet of access unit number `au`.                                      *)
(***************************************************************************)
EXTENDS TsPackets, FiniteSets

CONSTANTS Options,      \* the option lists NewWriter may be called with
          Calls,        \* per option list and call, the inputs the call may
                        \* be made with: the length of the access unit, the
                        \* advance of its DTS, PTS - DTS, whether it starts
                        \* with a delimiter and whether it holds an IDR or
                        \* IRAP picture (bound: the number of calls)
          FirstDTS,     \* DTS the first advance is added to
          MaxFailures   \* bound: failing dst.Write calls

Track == [pid : Nat, codec : {"H264", "H265"}]

Input == [len : Nat, step : Int, reorder : Int, aud : BOOLEAN, rai : BOOLEAN]

ASSUME OptionsAssumption == Options \subseteq Seq(Track)

ASSUME CallsAssumption ==
  \A opts \in Options : Calls[opts] \in Seq(SUBSET Input)

ASSUME FirstDTSAssumption == FirstDTS \in Int

ASSUME MaxFailuresAssumption == MaxFailures \in Nat

VARIABLES tracks,      \* Writer.tracks: sequence of [pid, codec]
          cc,          \* Writer.cc: next counter per PID
          psiWritten,  \* Writer.psiWritten
          lastPSIDTS,  \* Writer.lastPSIDTS
          pc,          \* which dst.Write of the current call comes next
          job,         \* locals of writeAccessUnit and writePES
          log,         \* the access units accepted so far and their fate
          wire,        \* what dst.Write was called with
          failures     \* number of failed dst.Write calls

wvars == <<tracks, cc, psiWritten, lastPSIDTS, pc, job, log, wire, failures>>

minElementaryPID == 32
maxElementaryPID == 8190
psiIntervalTicks == 9000

(* audH264 and audH265, prepended unless the unit starts with one.         *)
AUDLen(codec, hasAUD) ==
  CASE hasAUD           -> 0
    [] ~hasAUD /\ codec = "H264" -> 6
    [] ~hasAUD /\ codec = "H265" -> 7

(* Marshalled tables with their pointer_field: 13 bytes of envelope, 4 per *)
(* program, 4 and 5 per stream.                                            *)
patRawLen == 17

pmtRawLen(n) == 17 + 5 * n

NoJob == [au |-> 0]

WriterInit ==
  /\ tracks = << >>
  /\ cc = [p \in {} |-> 0]
  /\ psiWritten = FALSE
  /\ lastPSIDTS = 0
  /\ pc = "new"
  /\ job = NoJob
  /\ log = << >>
  /\ wire = << >>
  /\ failures = 0

-----------------------------------------------------------------------------
(* withTrack, applied to each option in turn: PIDs in range, off the PMT's *)
(* PID and used once.                                                      *)
ValidOptions(opts) ==
  /\ opts # << >>
  /\ \A i \in DOMAIN opts :
       /\ opts[i].pid \in minElementaryPID..maxElementaryPID \ {writerPMTPID}
       /\ \A j \in 1..(i - 1) : opts[j].pid # opts[i].pid
  /\ pmtRawLen(Len(opts)) <= packetSize - 4

(* NewWriter, when it returns no error.  An error creates no writer.       *)
NewWriter(opts) ==
  /\ pc = "new"
  /\ ValidOptions(opts)
  /\ tracks' = opts
  /\ cc' = [p \in {opts[i].pid : i \in DOMAIN opts} \cup {pidPAT, writerPMTPID}
              |-> 0]
  /\ pc' = "idle"
  /\ UNCHANGED <<psiWritten, lastPSIDTS, job, log, wire, failures>>

pcrPID == tracks[1].pid

LastDTS == IF log = << >> THEN FirstDTS ELSE log[Len(log)].dts

(* Fault: tables count as fresh when the DTS steps back.                   *)
PSIFresh_AnyOrder(dts) == psiWritten /\ dts - lastPSIDTS < psiIntervalTicks

(* maybeWritePSI's early return.                                           *)
PSIFresh(dts) ==
  /\ psiWritten
  /\ dts >= lastPSIDTS
  /\ dts - lastPSIDTS < psiIntervalTicks

(* WriteH264 and WriteH265 up to the first dst.Write: the checks of        *)
(* writeAccessUnit (an unknown PID, another codec's PID and an empty unit  *)
(* are refused and change nothing), then the PES header and the segments.  *)
WriteAccessUnit(i, len, dts, pts, hasAUD, rai) ==
  LET track == tracks[i]
      hdr   == appendPESHeader(pts, dts)
      total == hdr.len + AUDLen(track.codec, hasAUD) + len
      id    == Len(log) + 1
  IN /\ pc = "idle"
     /\ len > 0
     /\ log' = Append(log, [pid |-> track.pid, pts |-> pts, dts |-> dts,
                            rai |-> rai, hdr |-> hdr.len, total |-> total,
                            status |-> "writing"])
     /\ job' = [au |-> id, pid |-> track.pid, dts |-> dts, rai |-> rai,
                withPCR |-> track.pid = pcrPID, hdr |-> hdr,
                remaining |-> total, total |-> total, first |-> TRUE]
     /\ pc' = IF PSIFresh(dts) THEN "pes" ELSE "pat"
     /\ UNCHANGED <<tracks, cc, psiWritten, lastPSIDTS, wire, failures>>

-----------------------------------------------------------------------------
(* Fault: the error is not passed on.                                      *)
Fail_Swallowed ==
  /\ failures < MaxFailures
  /\ failures' = failures + 1
  /\ pc' = "idle"
  /\ job' = NoJob
  /\ log' = [log EXCEPT ![job.au].status = "ok"]

(* A failing dst.Write: the call returns the error at once; nextCC has     *)
(* already counted the packet.  Assumed of dst: a Write that fails leaves  *)
(* nothing of the 188 bytes, else packets behind it were out of step.      *)
Fail ==
  /\ failures < MaxFailures
  /\ failures' = failures + 1
  /\ pc' = "idle"
  /\ job' = NoJob
  /\ log' = [log EXCEPT ![job.au].status = "failed"]

BumpCC(pid) == cc' = [cc EXCEPT ![pid] = NextCC(@)]

(* writeSection: a table in one packet of its own, padded with 0xFF.       *)
SectionPacket(pid, body, ok) ==
  [pid |-> pid, start |-> TRUE, cc |-> cc[pid], af |-> 0, rai |-> FALSE,
   pcr |-> FALSE, fault |-> "none", body |-> body, ok |-> ok]

(* A section with pointer_field as one piece; `at` notes the DTS it is for.*)
SectionBody(sec, rawLen) ==
  [kind |-> "psi", sec |-> sec, off |-> 0, len |-> rawLen - 1,
   total |-> rawLen - 1, ptr |-> TRUE, at |-> job.dts]

streamTypeFromCodec(codec) ==
  CASE codec = "H264" -> 27 [] codec = "H265" -> 36 [] OTHER -> 0

PATSection ==
  [table |-> "pat", programs |-> <<[number |-> 1, pid |-> writerPMTPID]>>]

PMTSection ==
  [table |-> "pmt", streams |-> [i \in DOMAIN tracks |->
                                   [type |-> streamTypeFromCodec(tracks[i].codec),
                                    pid  |-> tracks[i].pid]]]

PATBody == SectionBody(PATSection, patRawLen)

PMTBody == SectionBody(PMTSection, pmtRawLen(Len(tracks)))

WritePAT(ok) ==
  /\ pc = "pat"
  /\ wire' = Append(wire, SectionPacket(pidPAT, PATBody, ok))
  /\ BumpCC(pidPAT)
  /\ \/ /\ ok
        /\ pc' = "pmt"
        /\ UNCHANGED <<job, log, failures>>
     \/ ~ok /\ Fail
  /\ UNCHANGED <<tracks, psiWritten, lastPSIDTS>>

(* The PMT completes maybeWritePSI: only now are the tables counted as     *)
(* written, at the DTS of the access unit that made them due.              *)
WritePMT(ok) ==
  /\ pc = "pmt"
  /\ wire' = Append(wire, SectionPacket(writerPMTPID, PMTBody, ok))
  /\ BumpCC(writerPMTPID)
  /\ \/ /\ ok
        /\ psiWritten' = TRUE
        /\ lastPSIDTS' = job.dts
        /\ pc' = "pes"
        /\ UNCHANGED <<job, log, failures>>
     \/ /\ ~ok
        /\ Fail
        /\ UNCHANGED <<psiWritten, lastPSIDTS>>
  /\ UNCHANGED tracks

(* One turn of the loop of writePES.                                       *)
minAF ==
  IF job.first /\ (job.rai \/ job.withPCR) THEN encodedLen(job.withPCR) ELSE 0

(* Fault: the fields of a first packet that is also the last are           *)
(* forgotten.                                                              *)
afTotal_NoMinimum ==
  IF job.remaining < payloadSize THEN payloadSize - job.remaining ELSE minAF

(* Final packet: the adaptation field is stuffed with the difference.      *)
afTotal ==
  IF job.remaining < payloadSize - minAF
  THEN payloadSize - job.remaining ELSE minAF

(* How many bytes copy() takes from the segments.                          *)
Copied ==
  LET room == payloadSize - afTotal
  IN IF job.remaining < room THEN job.remaining ELSE room

PESPacket(ok) ==
  [pid |-> job.pid, start |-> job.first, cc |-> cc[job.pid], af |-> afTotal,
   rai |-> job.rai /\ job.first, pcr |-> job.withPCR /\ job.first,
   fault |-> "none",
   body |-> [kind |-> "es", au |-> job.au, off |-> job.total - job.remaining,
             len |-> Copied,
             pes |-> IF job.first THEN job.hdr ELSE [ptsDTS |-> "none"]],
   ok |-> ok]

WritePESPacket(ok) ==
  /\ pc = "pes"
  /\ wire' = Append(wire, PESPacket(ok))
  /\ BumpCC(job.pid)
  /\ \/ /\ ok
        /\ job.remaining > Copied
        /\ job' = [job EXCEPT !.remaining = @ - Copied, !.first = FALSE]
        /\ UNCHANGED <<pc, log, failures>>
     \/ /\ ok
        /\ job.remaining = Copied
        /\ job' = NoJob
        /\ pc' = "idle"
        /\ log' = [log EXCEPT ![job.au].status = "ok"]
        /\ UNCHANGED failures
     \/ ~ok /\ Fail
  /\ UNCHANGED <<tracks, psiWritten, lastPSIDTS>>

(* Close closes the destination and writes no trailer.  The writer keeps   *)
(* no record of it; its user makes no call afterwards.                     *)
Close ==
  /\ pc = "idle"
  /\ pc' = "closed"
  /\ UNCHANGED <<tracks, cc, psiWritten, lastPSIDTS, job, log, wire, failures>>

WriterNext ==
  \/ \E opts \in Options : NewWriter(opts)
  \/ \E i \in DOMAIN tracks :
       /\ Len(log) < Len(Calls[tracks])
       /\ \E in \in Calls[tracks][Len(log) + 1] :
            LET dts == LastDTS + in.step
            IN WriteAccessUnit(i, in.len, dts, dts + in.reorder, in.aud, in.rai)
  \/ \E ok \in BOOLEAN : WritePAT(ok) \/ WritePMT(ok) \/ WritePESPacket(ok)
  \/ Close

WriterSpec == WriterInit /\ [][WriterNext]_wvars

-----------------------------------------------------------------------------
(* A packet is exactly 188 bytes long and carries payload, and its         *)
(* adaptation field meets the precondition of marshalTo: one byte only     *)
(* when no field is set, else room for the fields; a table is padded.      *)
Exact(p) ==
  IF p.body.kind = "es"
  THEN /\ 4 + p.af + p.body.len = packetSize
       /\ p.body.len > 0
       /\ p.af = 1 => ~p.rai /\ ~p.pcr
       /\ p.rai \/ p.pcr => p.af >= encodedLen(p.pcr)
  ELSE 5 + p.body.len <= packetSize

(* Every transport packet is exact (writePES, writeSection).               *)
PacketsExact == \A k \in DOMAIN wire : Exact(wire[k])

(* Packet p carries data of access unit a.                                 *)
Carries(p, a) == p.body.kind = "es" /\ p.body.au = a

(* Packets b to e of w are those of unit a: no other packet has data of    *)
(* it, and they tile the start of its PES packet without gap or overlap;   *)
(* exactly the first one starts a payload unit, and none of them failed.   *)
Run(w, a, b, e) ==
  /\ \A k \in DOMAIN w : Carries(w[k], a) <=> k \in b..e
  /\ w[b].body.off = 0
  /\ \A k \in b..e :
       /\ w[k].ok
       /\ w[k].start <=> k = b
       /\ k > b => w[k].body.off = w[k-1].body.off + w[k-1].body.len

(* How much of a PES packet there is up to and with packet p.              *)
RunEnd(p) == p.body.off + p.body.len

(* Unit a, u in the log, is there as a whole, in consecutive packets, the  *)
(* first of which holds all of the PES header.                             *)
Whole(w, a, u) ==
  \E b, e \in DOMAIN w :
    /\ b <= e
    /\ Run(w, a, b, e)
    /\ w[b].body.len > u.hdr
    /\ RunEnd(w[e]) = u.total

(* A unit reported as written is on the wire as a whole, whatever failed   *)
(* before and after it (writePES, writeAccessUnit).                        *)
UnitsWhole ==
  \A a \in DOMAIN log : log[a].status = "ok" => Whole(wire, a, log[a])

(* c is the counter due on a PID after the first n packets of w.           *)
DueCC(w, c, pid, n) ==
  \/ c = 0 /\ \A k \in 1..n : w[k].pid # pid
  \/ \E k \in 1..n : /\ w[k].pid = pid
                     /\ c = (w[k].cc + 1) % CCMod
                     /\ \A i \in (k + 1)..n : w[i].pid # pid

(* The continuity counter of a PID counts attempts from zero, so a packet  *)
(* that dst.Write refused leaves a gap a receiver can see (nextCC before   *)
(* the write).                                                             *)
CountersCountAttempts ==
  \A k \in DOMAIN wire : DueCC(wire, wire[k].cc, wire[k].pid, k - 1)

(* The PMT at j of w, the PAT before it, both written.                     *)
TablesAt(w, j) ==
  /\ w[j].ok /\ w[j].pid = writerPMTPID
  /\ w[j-1].ok /\ w[j-1].pid = pidPAT

(* No unit starts unless PAT and PMT were both written without error, for  *)
(* a unit at most psiIntervalTicks older (maybeWritePSI), whatever failed  *)
(* in between and however the application moved its DTS.                   *)
TablesInForce ==
  \A k \in DOMAIN wire :
    (wire[k].ok /\ wire[k].body.kind = "es" /\ wire[k].start) =>
      \E j \in 2..(k - 1) :
        LET age == log[wire[k].body.au].dts - wire[j].body.at
        IN TablesAt(wire, j) /\ age \in 0..(psiIntervalTicks - 1)

-----------------------------------------------------------------------------
(* The inductive invariant behind these four.                              *)
WrittenUnit == [pid : Nat, pts : Int, dts : Int, rai : BOOLEAN, hdr : {14, 19},
                total : Nat, status : {"writing", "ok", "failed"}]

Header == [ptsDTS : {"both", "pts"}, pts : Int, dts : Int, len : {14, 19}]

Job == [au : Nat, pid : Nat, dts : Int, rai : BOOLEAN, withPCR : BOOLEAN,
        hdr : Header, remaining : Nat, total : Nat, first : BOOLEAN]

Section == [table : {"pat"}, programs : Seq([number : Nat, pid : Nat])]
           \cup [table : {"pmt"}, streams : Seq([type : Nat, pid : Nat])]

Body == [kind : {"psi"}, sec : Section, off : {0}, len : Nat, total : Nat,
         ptr : BOOLEAN, at : Int]
        \cup [kind : {"es"}, au : Nat, off : Nat, len : Nat,
              pes : Header \cup {[ptsDTS |-> "none"]}]

Packet == [pid : Nat, start : BOOLEAN, cc : CC, af : Nat, rai : BOOLEAN,
           pcr : BOOLEAN, fault : {"none"}, body : Body, ok : BOOLEAN]

Writing == pc \in {"pat", "pmt", "pes"}

TypeOK ==
  /\ tracks \in Seq(Track)
  /\ cc \in [DOMAIN cc -> CC]
  /\ psiWritten \in BOOLEAN
  /\ lastPSIDTS \in Int
  /\ pc \in {"new", "idle", "pat", "pmt", "pes", "closed"}
  /\ IF Writing THEN job \in Job ELSE job = NoJob
  /\ log \in Seq(WrittenUnit)
  /\ wire \in Seq(Packet)
  /\ failures \in 0..MaxFailures

(* The writer exists and its counters are those of its PIDs.               *)
Made ==
  IF pc = "new"
  THEN log = << >> /\ wire = << >> /\ tracks = << >> /\ ~psiWritten
       /\ cc = [p \in {} |-> 0]
  ELSE /\ ValidOptions(tracks) /\ tracks \in Options
       /\ DOMAIN cc = {tracks[i].pid : i \in DOMAIN tracks}
                      \cup {pidPAT, writerPMTPID}

(* Only the last unit can be under way, and the locals of the call are     *)
(* about it.                                                               *)
JobIsLast ==
  /\ \A a \in DOMAIN log : log[a].status = "writing" => Writing /\ a = Len(log)
  /\ Writing =>
       /\ job.au = Len(log) /\ job.au > 0
       /\ log[job.au].status = "writing"
       /\ job.pid = log[job.au].pid /\ job.dts = log[job.au].dts
       /\ job.total = log[job.au].total /\ job.hdr.len = log[job.au].hdr
       /\ job.pid \in {tracks[i].pid : i \in DOMAIN tracks}
       /\ job.hdr.len < job.total
       /\ 0 < job.remaining /\ job.remaining <= job.total

(* How far the unit under way has come.                                    *)
Progress ==
  /\ \A k \in DOMAIN wire : wire[k].body.kind = "es" => wire[k].body.au \in DOMAIN log
  /\ pc \in {"pat", "pmt"} => job.first
  /\ (Writing /\ job.first) =>
       /\ job.remaining = job.total
       /\ \A k \in DOMAIN wire : ~Carries(wire[k], job.au)
  /\ (Writing /\ ~job.first) =>
       \E b \in DOMAIN wire :
         /\ Run(wire, job.au, b, Len(wire))
         /\ wire[b].body.len > job.hdr.len
         /\ RunEnd(wire[Len(wire)]) = job.total - job.remaining

CountersDue == \A pid \in DOMAIN cc : DueCC(wire, cc[pid], pid, Len(wire))

TablesKnown ==
  /\ psiWritten => \E j \in 2..Len(wire) : /\ TablesAt(wire, j)
                                          /\ wire[j].body.at = lastPSIDTS
  /\ pc = "pmt" => /\ wire # << >> /\ wire[Len(wire)].ok
                   /\ wire[Len(wire)].pid = pidPAT
  /\ (pc = "pes" /\ job.first) => PSIFresh(job.dts)

Inv ==
  /\ TypeOK /\ Made /\ JobIsLast
  /\ Progress /\ UnitsWhole
  /\ CountersDue /\ CountersCountAttempts
  /\ TablesKnown /\ TablesInForce
  /\ PacketsExact
=============================================================================
