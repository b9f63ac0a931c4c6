------------------------------- MODULE RtpDump -------------------------------
(***************************************************************************)
(* rtpdump.Writer and rtpdump.Reader: goroutines record RTP and RTCP       *)
(* packets, the recording ends (or is cut off), and goroutines read it     *)
(* back.  Each side has a mutex and works on a stream of bytes without     *)
(* marks between the records, so everything rests on the 16-bit length at  *)
(* the head of each one.                                                   *)
(*                                                                         *)
(* The file is a sequence of pieces: bytes from + 1 to `to` of record rec, *)
(* and where in the file they are.  One Write of the output may put down   *)
(* its bytes in two goes and may fail in between.                          *)
(***************************************************************************)
EXTENDS Integers, Sequences

CONSTANTS Writers, Readers,  \* goroutines
          Packets,      \* [rtcp, len, offset]: kind, payload length, offset
                        \* in milliseconds
          OffsetMod,    \* 2^32, the range of an offset in the file
          Headers,      \* [valid, len]: a Header by the length of its
                        \* preamble and whether its Source is an IPv4 address
          NoiseLengths, \* length fields read where no record starts
          Cuts,         \* bytes of a record a Write puts down in its first go
          MaxPackets,   \* bound: packets handed to WritePacket
          MaxFailures,  \* bound: failing writes
          NoOne

ASSUME NoOneAssumption == NoOne \notin Writers \cup Readers
ASSUME PacketsAssumption ==
  /\ Packets \subseteq [rtcp : BOOLEAN, len : Nat, offset : Nat]
  /\ OffsetMod \in Nat \ {0}
ASSUME HeadersAssumption == Headers \subseteq [valid : BOOLEAN, len : Nat]
ASSUME CutsAssumption == Cuts \subseteq Nat /\ NoiseLengths \subseteq Nat
ASSUME BoundsAssumption == MaxPackets \in Nat /\ MaxFailures \in Nat

VARIABLES header,   \* the Header of the recording
          begun,    \* bytes of preamble and header in the file
          log,      \* packets marshalled, with their fate
          file,     \* what was written behind the header
          writerMu, \* Writer.writerMu
          job,      \* per writer: its record and the bytes put down of it
          recording,\* the output is open
          failures,
          readerMu, \* Reader.readerMu
          opened,   \* "no", "yes", "malformed": result of NewReader
          pos,      \* bytes read behind the header
          head,     \* per reader: the header it has read
          out,      \* packets read
          ends      \* errors of Next, in order

wvars == <<header, begun, log, file, writerMu, job, recording, failures>>
rvars == <<readerMu, opened, pos, head, out, ends>>
vars == <<wvars, rvars>>

pktHeaderLen == 8
headerLen == 16
preambleLen == 36
MaxUint16 == 65535

NoJob == [id |-> 0, done |-> 0]

NoHead == [id |-> 0, Length |-> 0, PacketLength |-> 0, Offset |-> 0]

Init ==
  /\ header \in Headers
  /\ begun = 0
  /\ log = << >>
  /\ file = << >>
  /\ writerMu = NoOne
  /\ job = [w \in Writers |-> NoJob]
  /\ recording = TRUE
  /\ failures = 0
  /\ readerMu = NoOne
  /\ opened = "no"
  /\ pos = 0
  /\ head = [r \in Readers |-> NoHead]
  /\ out = << >>
  /\ ends = << >>

-----------------------------------------------------------------------------
(* Packet.Marshal's check.                                                 *)
Fits(p) == p.len <= MaxUint16 - pktHeaderLen

(* packet.offsetMs: offsets are whole milliseconds, not negative; the      *)
(* division by time.Millisecond is left out.                               *)
offsetMs(p) == p.offset % OffsetMod

(* packetHeader, as Packet.Marshal fills it in: uint16 and uint32 fields.  *)
Marshal(p) ==
  [Length       |-> ((p.len % (MaxUint16 + 1)) + 8) % (MaxUint16 + 1),
   PacketLength |-> IF p.rtcp THEN 0 ELSE p.len % (MaxUint16 + 1),
   Offset       |-> offsetMs(p)]

RecordLen(id) == pktHeaderLen + log[id].len

(* Packet.Unmarshal of `size` bytes.                                       *)
Unmarshal(hdr, size) ==
  IF hdr.Length < 8 \/ size < hdr.Length THEN [error |-> "malformed"]
  ELSE [error |-> "none", len |-> hdr.Length - 8, offset |-> hdr.Offset,
        rtcp |-> hdr.Length # 0 /\ hdr.PacketLength = 0]

(* NewWriter: preamble, then header; an error leaves no writer.            *)
NewWriter ==
  /\ begun = 0 /\ recording
  /\ \E n \in {0, header.len, header.len + 4, header.len + headerLen} :
       /\ begun' = n
       /\ recording' = (n = header.len + headerLen)
  /\ UNCHANGED <<header, log, file, writerMu, job, failures, rvars>>

(* How long the file is, and how it is with more bytes of record id.       *)
Size ==
  IF file = << >> THEN 0
  ELSE LET q == file[Len(file)] IN q.at + q.to - q.from

Put(id, from, to) ==
  IF from = to THEN file
  ELSE IF file # << >> /\ file[Len(file)].rec = id /\ file[Len(file)].to = from
  THEN [file EXCEPT ![Len(file)].to = to]
  ELSE Append(file, [rec |-> id, from |-> from, to |-> to, at |-> Size])

(* Fault: goroutines write as they come.                                   *)
LockWriter_Never(w) == UNCHANGED writerMu

LockWriter(w) == writerMu = NoOne /\ writerMu' = w

(* WritePacket up to the middle of its Write.                              *)
WritePacket(w, p) ==
  LET id == Len(log) + 1
  IN /\ begun > 0 /\ recording
     /\ job[w] = NoJob
     /\ Len(log) < MaxPackets
     /\ Fits(p)
     /\ LockWriter(w)
     /\ log' = Append(log, [rtcp |-> p.rtcp, len |-> p.len, offset |-> p.offset,
                            status |-> "writing"])
     /\ \E n \in Cuts :
          /\ n <= pktHeaderLen + p.len
          /\ job' = [job EXCEPT ![w] = [id |-> id, done |-> n]]
          /\ file' = Put(id, 0, n)
     /\ UNCHANGED <<header, begun, recording, failures, rvars>>

(* The rest of the Write, or its failure; WritePacket returns.             *)
FinishPacket(w, ok) ==
  LET id == job[w].id
  IN /\ id # 0 /\ recording
     /\ IF ok THEN file' = Put(id, job[w].done, RecordLen(id))
                   /\ UNCHANGED failures
        ELSE failures < MaxFailures /\ failures' = failures + 1
             /\ UNCHANGED file
     /\ log' = [log EXCEPT ![id].status = IF ok THEN "ok" ELSE "failed"]
     /\ job' = [job EXCEPT ![w] = NoJob]
     /\ writerMu' = NoOne
     /\ UNCHANGED <<header, begun, recording, rvars>>

(* The recording is closed by its owner, or cut off by a crash.            *)
Stop ==
  /\ begun > 0 /\ recording
  /\ recording' = FALSE
  /\ UNCHANGED <<header, begun, log, file, writerMu, job, failures, rvars>>

-----------------------------------------------------------------------------
(* Bytes off + 1 .. off + n of the file are bytes from + 1 .. from + n of  *)
(* record id.                                                              *)
Holds(off, n, id, from) ==
  \E k \in DOMAIN file :
    /\ file[k].rec = id
    /\ off - file[k].at = from - file[k].from
    /\ off >= file[k].at /\ from + n <= file[k].to

(* NewReader: the preamble has to be found in the first 36 bytes, then the *)
(* header follows.                                                         *)
NewReader ==
  /\ ~recording /\ opened = "no"
  /\ opened' = IF /\ begun + Size >= preambleLen
                  /\ header.valid
                  /\ begun = header.len + headerLen
               THEN "yes" ELSE "malformed"
  /\ UNCHANGED <<wvars, readerMu, pos, head, out, ends>>

(* What is read of a packetHeader h that is the one of record id.          *)
Header(id, h) ==
  [id |-> id, Length |-> h.Length, PacketLength |-> h.PacketLength,
   Offset |-> h.Offset]

(* The headers that may be read at the position of the stream.             *)
HeadersAt ==
  LET ids == {id \in DOMAIN log : Holds(pos, pktHeaderLen, id, 0)}
  IN IF ids # {} THEN {Header(id, Marshal(log[id])) : id \in ids}
     ELSE {[id |-> 0, Length |-> n, PacketLength |-> 0, Offset |-> 0] :
             n \in NoiseLengths}

(* Fault: io.EOF for everything that ends early.                           *)
Short_AlwaysEOF ==
  /\ pos' = Size
  /\ ends' = Append(ends, "EOF")

(* ReadFull ran out of bytes: io.EOF when it got none.                     *)
Short ==
  /\ pos' = Size
  /\ ends' = Append(ends, IF Size = pos THEN "EOF" ELSE "malformed")

LockReader(r) == readerMu = NoOne /\ readerMu' = r

(* Fault: Next returns with the mutex held.                                *)
UnlockReader_Never(r) == UNCHANGED readerMu

UnlockReader(r) == IF readerMu = r THEN readerMu' = NoOne ELSE UNCHANGED readerMu

Goes == opened = "yes" /\ Len(ends) < 2

(* Reader.Next: the header, with the mutex taken.                          *)
NextHeader(r) ==
  /\ Goes /\ head[r] = NoHead
  /\ Size - pos >= pktHeaderLen
  /\ LockReader(r)
  /\ \E h \in HeadersAt : h.Length >= pktHeaderLen /\ head' = [head EXCEPT ![r] = h]
  /\ pos' = pos + pktHeaderLen
  /\ UNCHANGED <<wvars, opened, out, ends>>

(* Reader.Next that ends with the header: not enough bytes or a length     *)
(* that does not even cover the header.                                    *)
NextFails(r) ==
  /\ Goes /\ head[r] = NoHead
  /\ readerMu = NoOne
  /\ \/ Size - pos < pktHeaderLen /\ Short
     \/ /\ Size - pos >= pktHeaderLen
        /\ \E h \in HeadersAt : h.Length < pktHeaderLen
        /\ pos' = pos + pktHeaderLen
        /\ ends' = Append(ends, "malformed")
  /\ UNCHANGED <<wvars, readerMu, opened, head, out>>

(* Reader.Next: the payload.  `id` is the record all of it came from.      *)
NextPayload(r) ==
  LET h == head[r]
      n == h.Length - pktHeaderLen
  IN /\ Goes /\ h # NoHead
     /\ \/ Size - pos < n /\ Short /\ UNCHANGED out
        \/ /\ Size - pos >= n
           /\ pos' = pos + n
           /\ out' = Append(out, [id |-> IF h.id # 0 /\ (n > 0 =>
                                              Holds(pos, n, h.id, pktHeaderLen))
                                         THEN h.id ELSE 0,
                                  len |-> n, offset |-> h.Offset,
                                  rtcp |-> h.PacketLength = 0])
           /\ UNCHANGED ends
     /\ head' = [head EXCEPT ![r] = NoHead]
     /\ UnlockReader(r)
     /\ UNCHANGED <<wvars, opened>>

ReadStep ==
  NewReader \/ \E r \in Readers : NextHeader(r) \/ NextFails(r) \/ NextPayload(r)

Next ==
  \/ NewWriter
  \/ \E w \in Writers : \/ \E p \in Packets : WritePacket(w, p)
                        \/ \E ok \in BOOLEAN : FinishPacket(w, ok)
  \/ Stop
  \/ ReadStep

(* Fairness: the readers go on calling Next.                               *)
Spec == Init /\ [][Next]_vars /\ WF_vars(ReadStep)

-----------------------------------------------------------------------------
(* The first k records of the file were written without error.             *)
Sound(k) == \A j \in 1..k : log[file[j].rec].status = "ok"

(* What Next makes of record id; Packet.Unmarshal makes the same of it.    *)
Restored(id) ==
  LET p == log[id]
  IN [id |-> id, len |-> p.len, offset |-> p.offset % OffsetMod,
      rtcp |-> p.rtcp \/ p.len = 0]

Unmarshalled(id) ==
  LET u == Unmarshal(Marshal(log[id]), RecordLen(id))
      r == Restored(id)
  IN u.error = "none" /\ u.len = r.len /\ u.offset = r.offset /\ u.rtcp = r.rtcp

(* Whatever goroutines wrote and read, every packet recorded without error *)
(* is in the file, and the packets that come back are those of the file,   *)
(* one for one and in its order, up to the first record that was cut:      *)
(* payload and its length exactly, also at the largest length the 16 bits  *)
(* hold, the offset in 32 bits, and the kind but for an RTP packet without *)
(* payload, which comes back as RTCP.                                      *)
RecordsComeBack ==
  /\ \A id \in DOMAIN log :
       log[id].status = "ok" =>
         Unmarshalled(id) /\ \E k \in DOMAIN file : file[k].rec = id
  /\ \A k \in DOMAIN out :
       (k <= Len(file) /\ Sound(k)) => out[k] = Restored(file[k].rec)

(* The last record is the only one cut, but not behind its header.         *)
Torn ==
  /\ file # << >> /\ Sound(Len(file) - 1)
  /\ file[Len(file)].to < RecordLen(file[Len(file)].rec)
  /\ file[Len(file)].to # pktHeaderLen

(* The first error of Next comes behind all whole records: io.EOF if there *)
(* is nothing else in the file, and if there is, an error that tells so    *)
(* unless the file ends with the header of the cut record.                 *)
EndTellsTruth ==
  ends # << >> =>
    /\ \A k \in DOMAIN file : Sound(k) => k <= Len(out)
    /\ Sound(Len(file)) => Len(out) = Len(file) /\ ends[1] = "EOF"
    /\ Torn => Len(out) = Len(file) - 1 /\ ends[1] = "malformed"

(* Every recording NewWriter began without error from a Source that is an  *)
(* IPv4 address can be read to its end.  For another Source NewWriter also *)
(* succeeds, with a preamble that NewReader refuses (header.valid).        *)
ReadsToTheEnd ==
  (~recording /\ header.valid /\ begun = header.len + headerLen) ~> ends # << >>

-----------------------------------------------------------------------------
(* The inductive invariant behind RecordsComeBack and EndTellsTruth.       *)
Recorded ==
  [rtcp : BOOLEAN, len : Nat, offset : Nat, status : {"writing", "ok", "failed"}]

Piece == [rec : Nat, from : Nat, to : Nat, at : Nat]

ReadHeader == [id : Nat, Length : Nat, PacketLength : Nat, Offset : Nat]

TypeOK ==
  /\ header \in Headers /\ begun \in Nat /\ recording \in BOOLEAN
  /\ log \in Seq(Recorded) /\ file \in Seq(Piece) /\ failures \in Nat
  /\ writerMu \in Writers \cup {NoOne}
  /\ job \in [Writers -> [id : Nat, done : Nat]]
  /\ readerMu \in Readers \cup {NoOne}
  /\ opened \in {"no", "yes", "malformed"} /\ pos \in Nat
  /\ head \in [Readers -> ReadHeader]
  /\ out \in Seq([id : Nat, len : Nat, offset : Nat, rtcp : BOOLEAN])
  /\ ends \in Seq({"EOF", "malformed"})

(* Record after record from its first byte on, one behind the other, and   *)
(* all of it when its Write returned no error.                             *)
Tiled ==
  /\ \A k \in DOMAIN file :
       /\ file[k].from = 0 /\ file[k].to > 0
       /\ file[k].rec \in DOMAIN log /\ file[k].to <= RecordLen(file[k].rec)
       /\ log[file[k].rec].status = "ok" => file[k].to = RecordLen(file[k].rec)
       /\ k = 1 => file[k].at = 0
  /\ \A j, k \in DOMAIN file :
       j < k => /\ file[j].rec < file[k].rec
                /\ file[j].at + file[j].to <= file[k].at
                /\ k = j + 1 => file[k].at = file[j].at + file[j].to

Logged ==
  \A id \in DOMAIN log :
    /\ Fits(log[id])
    /\ log[id].status = "ok" => \E k \in DOMAIN file : file[k].rec = id

(* The one call of WritePacket in progress and what it has put down.       *)
WriterAt ==
  \A w \in Writers :
    IF job[w].id = 0 THEN job[w] = NoJob
    ELSE /\ writerMu = w
         /\ job[w].id = Len(log) /\ log[Len(log)].status = "writing"
         /\ job[w].done <= RecordLen(Len(log))
         /\ IF job[w].done = 0 THEN \A k \in DOMAIN file : file[k].rec # Len(log)
            ELSE /\ file # << >>
                 /\ file[Len(file)].rec = Len(log)
                 /\ file[Len(file)].to = job[w].done

(* Everything read so far is a record written without error.               *)
InStep == ends = << >> /\ Len(out) <= Len(file) /\ Sound(Len(out))

(* Then Next stands at the start of a record or behind its header.         *)
AtRecord ==
  LET k == Len(out) + 1
  IN IF readerMu = NoOne THEN pos = IF k <= Len(file) THEN file[k].at ELSE Size
     ELSE /\ k <= Len(file)
          /\ pos = file[k].at + pktHeaderLen /\ pos <= Size
          /\ file[k].to >= pktHeaderLen =>
               head[readerMu] = Header(file[k].rec, Marshal(log[file[k].rec]))

(* Else all of these are out, and where the end can be told it is reached. *)
Passed ==
  /\ \A k \in DOMAIN file : Sound(k) => k <= Len(out)
  /\ Sound(Len(file)) \/ Torn => ends # << >> /\ pos = Size /\ readerMu = NoOne
  /\ Sound(Len(file)) => Len(out) = Len(file) /\ ends[1] = "EOF"
  /\ Torn => Len(out) = Len(file) - 1 /\ ends[1] = "malformed"

ReaderAt ==
  /\ recording => opened = "no"
  /\ opened # "yes" => pos = 0 /\ out = << >> /\ ends = << >> /\ readerMu = NoOne
  /\ \A r \in Readers : IF readerMu = r THEN head[r].Length >= pktHeaderLen
                         ELSE head[r] = NoHead
  /\ IF InStep THEN AtRecord ELSE Passed

Inv == TypeOK /\ Tiled /\ Logged /\ WriterAt /\ ReaderAt /\ RecordsComeBack
=============================================================================
