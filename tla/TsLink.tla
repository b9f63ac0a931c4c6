------------------------------- MODULE TsLink -------------------------------
(***************************************************************************)
(* mpegts.Writer and mpegts.Reader with a packet transport between them    *)
(* (a pipe, UDP, a broadcast link: external) that keeps the order and the  *)
(* 188-byte grid but may lose a packet or deliver it twice.  `wire` is what *)
(* dst.Write was called with; the first `pos` packets of it have left the  *)
(* transport.  A packet that dst.Write refused never arrives.              *)
(***************************************************************************)
EXTENDS TsWriter, TsReader

CONSTANTS MaxWire,   \* bound: packets under way (1: an unbuffered pipe)
          MaxBurst,  \* packets of a PID lost in a row, at most
          MaxLoss,   \* bound: packets lost
          MaxDup     \* bound: packets delivered twice

(* Fewer than a cycle of the counter minus one: a longer gap on a PID      *)
(* cannot be seen by any receiver.                                         *)
ASSUME MaxBurstAssumption == MaxBurst \in Nat /\ MaxBurst < CCMod - 1

(* Unwrapping needs less than half a cycle of the time stamps (13 hours)   *)
(* from one unit of a track to the next that arrives, any two units of the *)
(* recording when the others are lost; an encoder's DTS does not step back *)
(* (before 0 it would make the reader start over).                         *)
ASSUME TimeAssumption ==
  \A opts \in Options : \A n \in DOMAIN Calls[opts] : \A in \in Calls[opts][n] :
    /\ in.step >= 0 /\ in.step * Len(Calls[opts]) < Half
    /\ -Half < in.reorder /\ in.reorder < Half

VARIABLES pos,       \* packets received, lost or refused so far
          burst,     \* per PID, packets lost since the last one received
          losses, dups,
          again,     \* the packet at the head has been delivered once
          joined,    \* units whose first packet a ready reader received
          hit,       \* units that lost a packet, or were pending at a loss
          delivered  \* per PID, what the reader's caller got, in order

cvars == <<pos, burst, losses, dups, again, joined, hit>>
vars == <<wvars, rvars, cvars, delivered>>

PIDs == {pidPAT, writerPMTPID} \cup
        UNION {{o[i].pid : i \in DOMAIN o} : o \in Options}

Init ==
  /\ WriterInit
  /\ ReaderInit
  /\ pos = 0
  /\ burst = [p \in PIDs |-> 0]
  /\ losses = 0 /\ dups = 0
  /\ again = FALSE
  /\ joined = {}
  /\ hit = {}
  /\ delivered = [p \in PIDs |-> << >>]

-----------------------------------------------------------------------------
(* The writer runs while the transport accepts packets.                    *)
Write ==
  /\ Len(wire) - pos < MaxWire
  /\ WriterNext
  /\ UNCHANGED <<rvars, cvars, delivered>>

(* The packet that leaves the transport next.                              *)
UnderWay == pos < Len(wire)

First == wire[pos + 1]

(* The unit a reader is collecting on a PID, if any.                       *)
Pending(pid) ==
  LET i == StreamIndex(pid)
  IN IF i = 0 THEN {}
     ELSE {order[i].mem[order[i].cur][k].au :
             k \in {k \in DOMAIN order[i].mem[order[i].cur] : order[i].collecting}}

Gone(p) ==
  /\ pos' = pos + 1
  /\ burst' = [burst EXCEPT ![p.pid] = @ + 1]
  /\ hit' = IF p.body.kind = "es"
            THEN hit \cup {p.body.au} \cup Pending(p.pid) ELSE hit
  /\ UNCHANGED <<wvars, rvars, dups, again, joined, delivered>>

(* dst.Write returned an error for this packet.                            *)
Refused ==
  /\ UnderWay
  /\ ~First.ok
  /\ Gone(First)
  /\ UNCHANGED losses

Lose ==
  /\ UnderWay
  /\ First.ok /\ ~again
  /\ losses < MaxLoss
  /\ burst[First.pid] < MaxBurst
  /\ losses' = losses + 1
  /\ Gone(First)

(* What NextAccessUnit returned, with Data read after the call.            *)
Record(cut) ==
  delivered' =
    IF returned'.stream = 0 THEN delivered
    ELSE [delivered EXCEPT ![returned'.pid] =
            Append(@, [pts |-> returned'.pts, dts |-> returned'.dts,
                       rai |-> returned'.rai, data |-> Data(returned)',
                       cut |-> cut])]

(* The reader receives the packet at the head; `stay` leaves it there to   *)
(* be delivered a second time.                                             *)
Receive(stay) ==
  LET p == First
  IN /\ UnderWay
     /\ p.ok
     /\ ReadPacket(p)
     /\ IF stay
        THEN ~again /\ dups < MaxDup /\ dups' = dups + 1 /\ again' = TRUE
             /\ UNCHANGED pos
        ELSE again' = FALSE /\ pos' = pos + 1 /\ UNCHANGED dups
     /\ burst' = [burst EXCEPT ![p.pid] = 0]
     /\ joined' = IF phase = "read" /\ p.body.kind = "es" /\ p.start
                  THEN joined \cup {p.body.au} ELSE joined
     /\ Record(FALSE)
     /\ UNCHANGED <<wvars, losses, hit>>

(* The writer is closed and everything has arrived or is gone.             *)
EndOfInput ==
  /\ pc = "closed"
  /\ ~UnderWay
  /\ ReadEOF
  /\ UNCHANGED <<wvars, cvars, delivered>>

(* A unit flushed from a track whose last packets are missing is marked.   *)
FlushStream ==
  /\ Flush
  /\ Record(burst[order[flushIdx + 1].pid] > 0)
  /\ UNCHANGED <<wvars, cvars>>

EndOfFlush ==
  /\ ReportEOF
  /\ UNCHANGED <<wvars, cvars, delivered>>

ReaderStep == Receive(FALSE) \/ Refused \/ EndOfInput \/ FlushStream \/ EndOfFlush

Next == Write \/ Lose \/ Receive(TRUE) \/ ReaderStep

(* Fairness: the application keeps calling NextAccessUnit, which blocks    *)
(* only on the transport; nothing obliges the other application to write.  *)
Spec == Init /\ [][Next]_vars /\ WF_vars(ReaderStep)

-----------------------------------------------------------------------------
(* d holds every byte of unit a and nothing else.                          *)
IsUnit(d, a) ==
  /\ d.data # << >>
  /\ d.data[1].off = log[a].hdr
  /\ LET l == d.data[Len(d.data)] IN l.off + l.len = log[a].total
  /\ \A k \in DOMAIN d.data :
       /\ d.data[k].au = a
       /\ k > 1 => d.data[k].off = d.data[k-1].off + d.data[k-1].len

(* Every unit returned is a whole one (reader.go:219 "NextAccessUnit       *)
(* returns the next complete access unit in stream order").                *)
OnlyCompleteUnits ==
  \A t \in PIDs : \A k \in DOMAIN delivered[t] :
    IsUnit(delivered[t][k], delivered[t][k].data[1].au)

(* Unwrapped stamps of a track keep the distances the writer was given     *)
(* across a 33-bit wrap and across lost units (startUnit).                 *)
TimelineKept ==
  \A t \in PIDs : \A j, k \in DOMAIN delivered[t] :
    LET d == delivered[t][j]
        e == delivered[t][k]
        a == log[d.data[1].au]
        b == log[e.data[1].au]
    IN /\ d.dts - e.dts = a.dts - b.dts
       /\ d.pts - e.dts = a.pts - b.dts

(* A unit written without error, begun after the reader was ready, not     *)
(* above the size limit and untouched by a loss is delivered by io.EOF.    *)
NoNeedlessLoss ==
  phase = "eof" =>
    \A a \in joined \ hit :
      (log[a].status = "ok" /\ log[a].total - log[a].hdr <= MaxAUSize) =>
        \E k \in DOMAIN delivered[log[a].pid] :
          IsUnit(delivered[log[a].pid][k], a)

(* Once the writer is closed the reader's calls reach io.EOF (or NewReader *)
(* its error): neither the packet loop nor the flush can spin or block.    *)
ReaderFinishes == pc = "closed" ~> phase \in {"eof", "failed"}

-----------------------------------------------------------------------------
(* Refinement: the pair implements AccessUnitChannel.                      *)
AbsUnit(d) ==
  LET a == d.data[1].au
  IN IF IsUnit(d, a) /\ log[a].status = "ok" /\ d.rai = log[a].rai THEN a
     ELSE IF d.cut THEN 0 ELSE -1

AUC == INSTANCE AccessUnitChannel WITH
  Tracks   <- PIDs,
  Cut      <- 0,
  accepted <- [a \in DOMAIN log |-> log[a].pid],
  out      <- [t \in PIDs |->
                 [k \in DOMAIN delivered[t] |-> AbsUnit(delivered[t][k])]],
  ended    <- phase \in {"flush", "eof", "failed"}

(* Writer, transport and reader together behave as AccessUnitChannel: per  *)
(* track whole units of WriteAccessUnit calls that succeeded, with their   *)
(* flags, in order, at most once; only a flush after the loss of a track's *)
(* last packets gives part of one.  Rests on the continuity check of       *)
(* handleES, on nextCC counting refused packets and on finish and flush.   *)
ImplementsChannel == AUC!Spec

-----------------------------------------------------------------------------
(* The inductive invariant, on top of the writer's.                        *)

(* A gap on a PID is seen by a receiver when it is shorter than a cycle.   *)
GapsShort == \A t \in PIDs : burst[t] < CCMod

IsES(p) == p.body.kind = "es"

(* q holds the bytes that follow those of p.                               *)
GoesOn(p, q) ==
  IsES(q) /\ ~q.start /\ q.pid = p.pid /\ q.body.au = p.body.au
  /\ q.body.off = RunEnd(p)

JobTells ==
  Writing => /\ job.hdr = appendPESHeader(log[job.au].pts, log[job.au].dts)
             /\ job.rai = log[job.au].rai

(* A packet of a unit says what the log says of it and, unless it starts   *)
(* the unit, follows the packet before it; a later unit has a later start. *)
UnitPacket(k) ==
  LET p == wire[k]
      u == log[p.body.au]
  IN /\ p.body.au \in DOMAIN log
     /\ p.pid = u.pid /\ p.body.len > 0 /\ RunEnd(p) <= u.total
     /\ p.start => /\ p.body.off = 0 /\ p.body.len > u.hdr /\ p.rai = u.rai
                   /\ p.body.pes = appendPESHeader(u.pts, u.dts)
                   /\ p.body.pes.len = u.hdr
                   /\ \A j \in 1..(k - 1) :
                        IsES(wire[j]) => wire[j].body.au < p.body.au
     /\ ~p.start => /\ k > 1 /\ IsES(wire[k - 1]) /\ wire[k - 1].ok
                    /\ GoesOn(wire[k - 1], p)

(* A table is whole and in one piece.                                      *)
TablePiece(p) ==
  /\ p.start /\ p.body.off = 0 /\ p.body.ptr /\ p.body.len = p.body.total
  /\ \/ p.pid = pidPAT /\ p.body.sec = PATSection
     \/ p.pid = writerPMTPID /\ p.body.sec = PMTSection

WireTells ==
  \A k \in DOMAIN wire : IF IsES(wire[k]) THEN UnitPacket(k) ELSE TablePiece(wire[k])

(* After a packet that was written the unit is complete or goes on.        *)
WireFlows ==
  \A k \in DOMAIN wire :
    LET p == wire[k]
    IN IsES(p) /\ p.ok =>
         \/ RunEnd(p) = log[p.body.au].total /\ log[p.body.au].status = "ok"
         \/ k < Len(wire) /\ GoesOn(p, wire[k + 1])
         \/ /\ k = Len(wire) /\ pc = "pes" /\ ~job.first /\ job.au = p.body.au
            /\ job.total - job.remaining = RunEnd(p)

(* Units are given in the order of their DTS, in little more than no time. *)
LogTimes ==
  /\ log # << >> => tracks \in Options /\ Len(log) <= Len(Calls[tracks])
  /\ \A a, b \in DOMAIN log :
       a < b => /\ log[a].dts <= log[b].dts
                /\ (log[b].dts - log[a].dts) * Len(Calls[tracks]) <= (b - a) * (Half - 1)
  /\ \A a \in DOMAIN log : /\ -Half < log[a].pts - log[a].dts
                            /\ log[a].pts - log[a].dts < Half

LogPids == \A a \in DOMAIN log : log[a].pid \in {tracks[i].pid : i \in DOMAIN tracks}

WireInv == Inv /\ JobTells /\ WireTells /\ WireFlows /\ LogTimes /\ LogPids

(* The packets the reader has been given or that are lost.                 *)
Got == IF again THEN pos + 1 ELSE pos

Out == [pts : Int, dts : Int, rai : BOOLEAN, data : Seq(Chunk), cut : BOOLEAN]

LinkTypes ==
  /\ phase \in {"pat", "pmt", "read", "flush", "eof", "failed"}
  /\ order \in Seq(Stream(PIDs)) /\ flushIdx \in 0..Len(order)
  /\ pos \in 0..Len(wire)
  /\ again \in BOOLEAN /\ (again => UnderWay /\ First.ok)
  /\ burst \in [PIDs -> Nat]
  /\ delivered \in [PIDs -> Seq(Out)]

(* The tables are read whole, and the reader's tracks are the writer's.    *)
TablesRead ==
  /\ asm = NoSection
  /\ phase \in {"pat", "pmt"} => returned = NoAU
  /\ phase \in {"pat", "pmt", "failed"} => order = << >>
  /\ phase \in {"read", "flush", "eof"} =>
       /\ pc # "new" /\ DOMAIN order = DOMAIN tracks
       /\ \A i \in DOMAIN order : order[i].pid = tracks[i].pid
  /\ phase \in {"pat", "pmt", "read"} => flushIdx = 0
  /\ phase \in {"flush", "eof"} => pc = "closed" /\ ~UnderWay
  /\ phase = "eof" => flushIdx = Len(order)

(* c is the counter of the next packet of PID t after the first g packets, *)
(* written or not.                                                         *)
NextIs(g, t, c) ==
  /\ \A k \in (g + 1)..Len(wire) :
       wire[k].pid = t /\ (\A j \in (g + 1)..(k - 1) : wire[j].pid # t)
         => wire[k].cc = c
  /\ (\A j \in (g + 1)..Len(wire) : wire[j].pid # t) => cc[t] = c

(* The counter the reader has seen last, and what is missing since.        *)
CounterSeen(s) ==
  s.hasCC => s.cc \in CC /\ NextIs(Got, s.pid, (s.cc + burst[s.pid] + 1) % CCMod)

(* A unit in the middle of which packets are lost goes on in time.         *)
BurstsShort ==
  /\ UnderWay /\ IsES(First) /\ ~First.start => burst[First.pid] <= MaxBurst
  /\ ~UnderWay /\ pc = "pes" /\ ~job.first => burst[job.pid] <= MaxBurst

(* d holds the bytes of unit a from the first on.                          *)
PartOf(d, a) ==
  /\ d # << >> /\ a \in DOMAIN log
  /\ d[1].off = log[a].hdr
  /\ \A k \in DOMAIN d :
       /\ d[k].au = a
       /\ k > 1 => d[k].off = d[k-1].off + d[k-1].len

EndOf(d) == d[Len(d)].off + d[Len(d)].len

WasSeen(a) == \E j \in 1..Got : Carries(wire[j], a)

(* Packet m is the last of its PID, and the bytes of d end with it.        *)
UpTo(d, t, m) ==
  /\ Carries(wire[m], d[1].au) /\ wire[m].ok /\ RunEnd(wire[m]) = EndOf(d)
  /\ \A j \in (m + 1)..Got : wire[j].pid # t

(* What a track collects is a part of one unit; when no packet is missing  *)
(* since, up to the last packet of the PID.                                *)
Holds(s) ==
  LET d == s.mem[s.cur]
      a == d[1].au
  IN s.collecting =>
       /\ s.hasCC
       /\ PartOf(d, a) /\ log[a].pid = s.pid
       /\ s.rai = log[a].rai
       /\ WasSeen(a)
       /\ burst[s.pid] = 0 => \E m \in 1..Got : UpTo(d, s.pid, m)
       /\ \A k \in DOMAIN delivered[s.pid] : delivered[s.pid][k].data[1].au < a

(* The packet at the head has been handled once.                           *)
HandledOnce ==
  again => /\ burst[First.pid] = 0
           /\ IsES(First) => \A i \in DOMAIN order :
                order[i].pid = First.pid =>
                  /\ order[i].hasCC /\ order[i].cc = First.cc
                  /\ First.start => /\ order[i].collecting
                                    /\ order[i].mem[order[i].cur][1].au = First.body.au

Collected == \A i \in DOMAIN order : /\ CounterSeen(order[i]) /\ Holds(order[i])
                                     /\ i <= flushIdx => ~order[i].collecting

(* Whole, or cut short by the end of the input and the last of its track.  *)
GivenAs(d, t) ==
  LET a == d.data[1].au
  IN /\ d.data # << >> /\ a \in DOMAIN log /\ WasSeen(a)
     /\ \/ IsUnit(d, a) /\ log[a].status = "ok" /\ d.rai = log[a].rai
        \/ d.cut /\ pc = "closed" /\ \E i \in 1..flushIdx : order[i].pid = t

Given(t) == \A k \in DOMAIN delivered[t] : GivenAs(delivered[t][k], t)

LinkInv ==
  /\ WireInv /\ LinkTypes /\ TablesRead /\ BurstsShort /\ HandledOnce
  /\ Collected /\ \A t \in PIDs : Given(t)

(* Track s is collecting unit a and has missed nothing since.              *)
Collects(s, a) ==
  /\ s.collecting /\ s.pid = log[a].pid /\ burst[s.pid] = 0
  /\ s.mem[s.cur][1].au = a

(* A unit nothing happened to is delivered or being collected.             *)
Accounted(a) ==
  log[a].total - log[a].hdr <= MaxAUSize =>
    \/ \E k \in DOMAIN delivered[log[a].pid] : IsUnit(delivered[log[a].pid][k], a)
    \/ \E i \in DOMAIN order : Collects(order[i], a)

(* The pieces of a buffer add up to the part of the unit they cover.       *)
AddsUp(s) ==
  LET d == s.mem[s.cur]
  IN s.collecting => PieceLen(d) = EndOf(d) - log[d[1].au].hdr

NothingMissed ==
  /\ joined \subseteq DOMAIN log
  /\ phase \in {"pat", "pmt", "failed"} => joined = {}
  /\ \A i \in DOMAIN order : AddsUp(order[i])
  /\ \A a \in joined \ hit : Accounted(a)

(* The stamps of a unit, and those a track holds, are ahead of the         *)
(* writer's by b; the reference of a track is that of a unit seen before.  *)
UnitAhead(d, b) ==
  LET u == log[d.data[1].au] IN d.dts = u.dts + b /\ d.pts = u.pts + b

TrackAhead(s, b) ==
  LET u == log[s.mem[s.cur][1].au]
  IN /\ s.lastTS < 0 => ~s.collecting /\ delivered[s.pid] = << >>
     /\ s.lastTS >= 0 => \E a \in DOMAIN log : WasSeen(a) /\ s.lastTS = log[a].dts + b
     /\ s.collecting => s.dts = u.dts + b /\ s.pts = u.pts + b

Ahead(t, b) ==
  /\ b % Wrap = 0
  /\ \A k \in DOMAIN delivered[t] : UnitAhead(delivered[t][k], b)
  /\ \A i \in DOMAIN order : order[i].pid = t => TrackAhead(order[i], b)

OnTime ==
  /\ phase \in {"pat", "pmt"} => \A t \in PIDs : delivered[t] = << >>
  /\ \A t \in PIDs : \E b \in Int : Ahead(t, b)
=============================================================================
