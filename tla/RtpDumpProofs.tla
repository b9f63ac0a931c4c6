---------------------------- MODULE RtpDumpProofs ----------------------------
(***************************************************************************)
(* Proofs about RtpDump: the bytes of the file are the records one behind  *)
(* the other, and Next stands at the head of a record or behind it until   *)
(* it meets one that was cut.                                              *)
(***************************************************************************)
EXTENDS RtpDump, TLAPS

USE DEF pktHeaderLen, headerLen, preambleLen, MaxUint16

-----------------------------------------------------------------------------
(* What the 16 and 32 bits of a header hold of a packet that fits.         *)
LEMMA MarshalKeeps ==
  ASSUME NEW p, p.rtcp \in BOOLEAN, p.len \in Nat, p.offset \in Nat, Fits(p)
  PROVE  /\ Marshal(p).Length = p.len + 8
         /\ Marshal(p).PacketLength = (IF p.rtcp THEN 0 ELSE p.len)
         /\ Marshal(p).Offset = p.offset % OffsetMod
         /\ p.offset % OffsetMod \in Nat
<1>1. p.len % 65536 = p.len /\ (p.len + 8) % 65536 = p.len + 8
  <2>1. p.len + 8 <= 65535
    BY DEF Fits
  <2>2. \A x \in Nat : x < 65536 => x % 65536 = x
    OBVIOUS
  <2> QED
    BY <2>1, <2>2
<1>2. p.offset % OffsetMod \in Nat
  BY PacketsAssumption
<1> QED
  BY <1>1, <1>2 DEF Marshal, offsetMs

(* Packet.Unmarshal undoes Packet.Marshal of a packet that fits.           *)
LEMMA UnmarshalUndoes ==
  ASSUME NEW p, p.rtcp \in BOOLEAN, p.len \in Nat, p.offset \in Nat, Fits(p)
  PROVE  LET u == Unmarshal(Marshal(p), 8 + p.len)
         IN /\ u.error = "none" /\ u.len = p.len /\ u.offset = p.offset % OffsetMod
            /\ u.rtcp = (p.rtcp \/ p.len = 0)
<1> DEFINE m == Marshal(p)
<1>1. /\ m.Length = p.len + 8 /\ m.Offset = p.offset % OffsetMod
      /\ m.PacketLength = (IF p.rtcp THEN 0 ELSE p.len)
  BY MarshalKeeps
<1> HIDE DEF m
<1>2. ~(m.Length < 8 \/ 8 + p.len < m.Length)
  BY <1>1
<1>3. m.Length - 8 = p.len
  BY <1>1
<1>4. (m.Length # 0 /\ m.PacketLength = 0) = (p.rtcp \/ p.len = 0)
  BY <1>1
<1>5. /\ Unmarshal(m, 8 + p.len).error = "none"
      /\ Unmarshal(m, 8 + p.len).len = p.len
      /\ Unmarshal(m, 8 + p.len).offset = p.offset % OffsetMod
      /\ Unmarshal(m, 8 + p.len).rtcp = (p.rtcp \/ p.len = 0)
  BY <1>1, <1>2, <1>3, <1>4 DEF Unmarshal
<1> QED
  BY <1>5 DEF m

(* Where the pieces of the file end.                                       *)
LEMMA PiecesEnd ==
  ASSUME TypeOK, Tiled
  PROVE  /\ Size \in Nat
         /\ file # << >> => Size = file[Len(file)].at + file[Len(file)].to
         /\ file = << >> => Size = 0
         /\ DOMAIN file = 1..Len(file) /\ Len(file) \in Nat
         /\ \A k \in 1..Len(file) : file[k] \in Piece
         /\ \A k \in 1..Len(file) : file[k].at + file[k].to <= Size
         /\ \A k \in 1..Len(file) :
              k < Len(file) => file[k + 1].at = file[k].at + file[k].to
<1>1. file \in Seq(Piece) /\ DOMAIN file = 1..Len(file) /\ Len(file) \in Nat
  BY DEF TypeOK
<1>2. \A k \in 1..Len(file) : file[k] \in Piece
  BY <1>1
<1>3. file # << >> => Len(file) \in 1..Len(file)
  BY <1>1
<1>4. file # << >> => Size = file[Len(file)].at + file[Len(file)].to
  <2>1. file # << >> => /\ file[Len(file)].from = 0
                        /\ file[Len(file)].at \in Nat /\ file[Len(file)].to \in Nat
    BY <1>1, <1>2, <1>3 DEF Tiled, Piece
  <2>2. file # << >> =>
          Size = file[Len(file)].at + file[Len(file)].to - file[Len(file)].from
    BY DEF Size
  <2> QED
    BY <2>1, <2>2
<1>5. file = << >> => Size = 0
  BY DEF Size
<1>6. Size \in Nat
  BY <1>2, <1>3, <1>4, <1>5 DEF Piece
<1>7. ASSUME NEW k \in 1..Len(file)
      PROVE  file[k].at + file[k].to <= Size
  <2>1. file # << >>
    BY <1>1
  <2>2. CASE k = Len(file)
    BY <2>1, <2>2, <1>4, <1>2 DEF Piece
  <2>3. CASE k < Len(file)
    <3>1. file[k].at + file[k].to <= file[Len(file)].at
      BY <2>3, <1>1, <1>3, <2>1 DEF Tiled
    <3>2. file[Len(file)].to >= 0 /\ file[k].at \in Nat /\ file[k].to \in Nat
          /\ file[Len(file)].to \in Nat /\ file[Len(file)].at \in Nat
      BY <1>2, <1>3, <2>1 DEF Piece
    <3> QED
      BY <3>1, <3>2, <1>4, <2>1
  <2>4. k = Len(file) \/ k < Len(file)
    <3>1. Len(file) \in Nat /\ k \in Nat /\ k <= Len(file)
      BY <1>1
    <3> QED
      BY <3>1
  <2> QED
    BY <2>2, <2>3, <2>4
<1>8. ASSUME NEW k \in 1..Len(file), k < Len(file)
      PROVE  file[k + 1].at = file[k].at + file[k].to
  BY <1>1, <1>8 DEF Tiled
<1> QED
  BY <1>1, <1>2, <1>4, <1>5, <1>6, <1>7, <1>8

(* At the start of a record whose header is whole, that header is read.    *)
LEMMA OneHeader ==
  ASSUME TypeOK, Tiled, NEW k \in 1..Len(file), pos = file[k].at, file[k].to >= 8
  PROVE  HeadersAt = {Header(file[k].rec, Marshal(log[file[k].rec]))}
<1>1. /\ DOMAIN file = 1..Len(file) /\ Len(file) \in Nat
      /\ \A j \in 1..Len(file) : file[j] \in Piece
  BY PiecesEnd
<1>2. ASSUME NEW j \in 1..Len(file), file[j].at = file[k].at
      PROVE  j = k
  <2>1. /\ file[j].to \in Nat /\ file[j].at \in Nat /\ file[j].to > 0
        /\ file[k].to \in Nat /\ file[k].to > 0
    BY <1>1 DEF Tiled, Piece
  <2>2. ~(j < k)
    BY <1>1, <1>2, <2>1 DEF Tiled
  <2>3. ~(k < j)
    BY <1>1, <1>2, <2>1 DEF Tiled
  <2> QED
    BY <2>2, <2>3, <1>1
<1>3. file[k].rec \in DOMAIN log
  BY <1>1 DEF Tiled
<1>4. Holds(pos, 8, file[k].rec, 0)
  BY <1>1, SMTT(30) DEF Holds, Tiled, Piece
<1>5. ASSUME NEW id \in DOMAIN log, Holds(pos, 8, id, 0)
      PROVE  id = file[k].rec
  <2>1. PICK j \in 1..Len(file) : file[j].rec = id /\ pos - file[j].at = 0 - file[j].from
    BY <1>1, <1>5 DEF Holds
  <2>2. file[j].at = file[k].at
    <3>1. file[j].at \in Nat /\ file[j].from = 0 /\ pos \in Nat
      BY <1>1 DEF Tiled, Piece, TypeOK
    <3> QED
      BY <2>1, <3>1
  <2> QED
    BY <2>1, <2>2, <1>2
<1>6. {id \in DOMAIN log : Holds(pos, 8, id, 0)} = {file[k].rec}
  BY <1>3, <1>4, <1>5
<1> QED
  BY <1>6 DEF HeadersAt

-----------------------------------------------------------------------------
(* The initial states.                                                     *)
LEMMA InitInv ==
  ASSUME Init
  PROVE  Inv
<1>1. Len(<< >>) = 0 /\ DOMAIN << >> = {}
  OBVIOUS
<1>2. TypeOK
  BY DEF Init, TypeOK, NoJob, NoHead, ReadHeader
<1>3. Tiled /\ Logged
  BY <1>1 DEF Init, Tiled, Logged
<1>4. WriterAt
  BY DEF Init, WriterAt, NoJob
<1>5. Size = 0
  BY DEF Init, Size
<1>6. InStep /\ AtRecord
  BY <1>1, <1>5 DEF Init, InStep, AtRecord, Sound
<1>7. ReaderAt
  BY <1>6, NoOneAssumption DEF Init, ReaderAt
<1>8. RecordsComeBack
  BY <1>1 DEF Init, RecordsComeBack
<1> QED
  BY <1>2, <1>3, <1>4, <1>7, <1>8 DEF Inv

(* As long as the recording goes on nothing was read of it.                *)
LEMMA ReaderWaits ==
  ASSUME Inv, recording, UNCHANGED rvars, TypeOK', Tiled'
  PROVE  ReaderAt'
<1>1. /\ opened' = "no" /\ pos' = 0 /\ out' = << >> /\ ends' = << >>
      /\ readerMu' = NoOne /\ head' = head
      /\ \A r \in Readers : head[r] = NoHead
  BY NoOneAssumption DEF Inv, ReaderAt, rvars
<1>2. Len(<< >>) = 0
  OBVIOUS
<1>3. file' \in Seq(Piece) /\ Len(file') \in Nat /\ DOMAIN file' = 1..Len(file')
  BY DEF TypeOK
<1>4. InStep'
  BY <1>1, <1>2, <1>3 DEF InStep, Sound
<1>5. 1 <= Len(file') => file'[1].at = 0
  BY <1>3 DEF Tiled
<1>6. ~(1 <= Len(file')) => Size' = 0
  BY <1>3 DEF Size
<1>7. AtRecord'
  BY <1>1, <1>2, <1>5, <1>6 DEF AtRecord
<1> QED
  BY <1>1, <1>4, <1>7, NoOneAssumption DEF ReaderAt

(* RecordsComeBack says of the writing side what Logged says.              *)
LEMMA NothingRead ==
  ASSUME Inv, recording, UNCHANGED rvars, TypeOK', Logged'
  PROVE  RecordsComeBack'
<1>1. out' = << >> /\ DOMAIN << >> = {}
  BY DEF Inv, ReaderAt, rvars
<1>2. ASSUME NEW id \in DOMAIN log'
      PROVE  Unmarshalled(id)'
  <2>1. log'[id] \in Recorded /\ Fits(log'[id])
    BY <1>2 DEF TypeOK, Logged
  <2>2. /\ log'[id].rtcp \in BOOLEAN /\ log'[id].len \in Nat /\ log'[id].offset \in Nat
    BY <2>1 DEF Recorded
  <2> QED
    BY <2>1, <2>2, UnmarshalUndoes DEF Unmarshalled, Restored, RecordLen
<1> QED
  BY <1>1, <1>2 DEF RecordsComeBack, Logged

(* Steps of the writer keep the invariant when they keep its own part.     *)
LEMMA WriterStep ==
  ASSUME Inv, recording, UNCHANGED rvars, TypeOK', Tiled', Logged', WriterAt'
  PROVE  Inv'
  BY ReaderWaits, NothingRead DEF Inv

LEMMA NewWriterInv ==
  ASSUME Inv, NewWriter
  PROVE  Inv'
<1>1. /\ recording /\ UNCHANGED rvars
      /\ UNCHANGED <<header, log, file, writerMu, job, failures>>
  BY DEF NewWriter
<1>2. begun' \in Nat /\ recording' \in BOOLEAN
  BY HeadersAssumption DEF NewWriter, Inv, TypeOK
<1>3. TypeOK'
  BY <1>1, <1>2 DEF Inv, TypeOK, rvars
<1>4. Tiled' /\ Logged' /\ WriterAt'
  BY <1>1 DEF Inv, Tiled, Logged, WriterAt, RecordLen
<1> QED
  BY <1>1, <1>3, <1>4, WriterStep

LEMMA StopInv ==
  ASSUME Inv, Stop
  PROVE  Inv'
<1>1. recording /\ UNCHANGED rvars
      /\ UNCHANGED <<header, begun, log, file, writerMu, job, failures>>
      /\ recording' \in BOOLEAN
  BY DEF Stop
<1>3. TypeOK'
  BY <1>1 DEF Inv, TypeOK, rvars
<1>4. Tiled' /\ Logged' /\ WriterAt'
  BY <1>1 DEF Inv, Tiled, Logged, WriterAt, RecordLen
<1> QED
  BY <1>1, <1>3, <1>4, WriterStep

-----------------------------------------------------------------------------
(* The three ways the file changes: not at all, by a record that begins,   *)
(* and by the rest of the record that is last.                             *)
LEMMA TileKept ==
  ASSUME TypeOK, Tiled, file' = file,
         \A i \in DOMAIN log :
           /\ i \in DOMAIN log' /\ log'[i].len = log[i].len
           /\ log'[i].status = "ok" =>
                \/ log[i].status = "ok"
                \/ \A k \in DOMAIN file : file[k].rec = i => file[k].to = RecordLen(i)
  PROVE  Tiled'
<1>1. ASSUME NEW k \in DOMAIN file
      PROVE  /\ file[k].from = 0 /\ file[k].to > 0
             /\ file[k].rec \in DOMAIN log'
             /\ file[k].to <= RecordLen(file[k].rec)'
             /\ log'[file[k].rec].status = "ok" => file[k].to = RecordLen(file[k].rec)'
             /\ k = 1 => file[k].at = 0
  <2>1. RecordLen(file[k].rec)' = RecordLen(file[k].rec)
    BY DEF RecordLen, Tiled
  <2> QED
    BY <2>1 DEF Tiled
<1>2. ASSUME NEW j \in DOMAIN file, NEW k \in DOMAIN file, j < k
      PROVE  /\ file[j].rec < file[k].rec
             /\ file[j].at + file[j].to <= file[k].at
             /\ k = j + 1 => file[k].at = file[j].at + file[j].to
  BY <1>2 DEF Tiled
<1> QED
  BY <1>1, <1>2 DEF Tiled

LEMMA TileAppended ==
  ASSUME TypeOK, Tiled, NEW id \in Nat, NEW n \in Nat, n > 0,
         file' = Append(file, [rec |-> id, from |-> 0, to |-> n, at |-> Size]),
         \A k \in DOMAIN file : file[k].rec < id,
         id \in DOMAIN log', n <= RecordLen(id)',
         log'[id].status = "ok" => n = RecordLen(id)',
         \A i \in DOMAIN log : i \in DOMAIN log' /\ (i # id => log'[i] = log[i])
  PROVE  Tiled' /\ file' \in Seq(Piece)
<1> DEFINE L == Len(file)
           q == [rec |-> id, from |-> 0, to |-> n, at |-> Size]
<1>1. /\ Size \in Nat
      /\ file # << >> => Size = file[L].at + file[L].to
      /\ file = << >> => Size = 0
      /\ DOMAIN file = 1..L /\ L \in Nat
      /\ \A k \in 1..L : file[k] \in Piece
      /\ \A k \in 1..L : file[k].at + file[k].to <= Size
  BY PiecesEnd
<1>2. file \in Seq(Piece) /\ q \in Piece
  BY <1>1 DEF TypeOK, Piece
<1>3. file' \in Seq(Piece)
  BY <1>2
<1>4. /\ DOMAIN file' = 1..(L + 1) /\ file'[L + 1] = q
      /\ \A k \in 1..L : file'[k] = file[k]
  BY <1>2
<1>5. q.rec = id /\ q.from = 0 /\ q.to = n /\ q.at = Size
  OBVIOUS
<1> HIDE DEF q
<1>6. ASSUME NEW k \in 1..(L + 1)
      PROVE  /\ file'[k].from = 0 /\ file'[k].to > 0
             /\ file'[k].rec \in DOMAIN log'
             /\ file'[k].to <= RecordLen(file[k].rec)'
             /\ log'[file'[k].rec].status = "ok" => file'[k].to = RecordLen(file[k].rec)'
             /\ k = 1 => file'[k].at = 0
  <2>1. CASE k = L + 1
    <3>1. k = 1 => file = << >>
      BY <2>1, <1>1, <1>2
    <3> QED
      BY <2>1, <3>1, <1>1, <1>4, <1>5
  <2>2. CASE k \in 1..L
    <3>1. /\ file[k].from = 0 /\ file[k].to > 0
          /\ file[k].rec \in DOMAIN log /\ file[k].to <= RecordLen(file[k].rec)
          /\ log[file[k].rec].status = "ok" => file[k].to = RecordLen(file[k].rec)
          /\ k = 1 => file[k].at = 0
      BY <2>2, <1>1 DEF Tiled
    <3>2. file[k].rec # id
      <4>1. file[k].rec \in Nat /\ file[k].rec < id
        BY <2>2, <1>1 DEF Piece
      <4> QED
        BY <4>1
    <3>3. log'[file[k].rec] = log[file[k].rec] /\ file[k].rec \in DOMAIN log'
      BY <3>1, <3>2
    <3>4. RecordLen(file[k].rec)' = RecordLen(file[k].rec)
      BY <3>3, <1>4, <2>2 DEF RecordLen
    <3> QED
      BY <3>1, <3>3, <3>4, <1>4, <2>2
  <2> QED
    BY <2>1, <2>2, <1>1
<1>7. ASSUME NEW j \in 1..(L + 1), NEW k \in 1..(L + 1), j < k
      PROVE  /\ file'[j].rec < file'[k].rec
             /\ file'[j].at + file'[j].to <= file'[k].at
             /\ k = j + 1 => file'[k].at = file'[j].at + file'[j].to
  <2>1. j \in 1..L
    BY <1>7, <1>1
  <2>2. CASE k = L + 1
    <3>1. k = j + 1 => j = L /\ file # << >>
      <4>1. file # << >>
        BY <2>1, <1>1
      <4>2. j \in Nat /\ L \in Nat
        BY <2>1, <1>1
      <4> QED
        BY <2>2, <4>1, <4>2
    <3> QED
      BY <2>1, <2>2, <3>1, <1>1, <1>4, <1>5
  <2>3. CASE k \in 1..L
    <3>1. /\ file[j].rec < file[k].rec
          /\ file[j].at + file[j].to <= file[k].at
          /\ k = j + 1 => file[k].at = file[j].at + file[j].to
      BY <1>7, <2>1, <2>3, <1>1 DEF Tiled
    <3> QED
      BY <3>1, <2>1, <2>3, <1>4
  <2> QED
    BY <2>2, <2>3, <1>1
<1> QED
  BY <1>3, <1>4, <1>6, <1>7 DEF Tiled

LEMMA TileExtended ==
  ASSUME TypeOK, Tiled, file # << >>, NEW n \in Nat, n >= file[Len(file)].to,
         file' = [file EXCEPT ![Len(file)].to = n],
         DOMAIN log' = DOMAIN log,
         \A i \in DOMAIN log : log'[i].len = log[i].len
                               /\ (i # file[Len(file)].rec => log'[i] = log[i]),
         n = RecordLen(file[Len(file)].rec)
  PROVE  Tiled' /\ file' \in Seq(Piece)
<1> DEFINE L == Len(file)
<1>1. /\ DOMAIN file = 1..L /\ L \in Nat /\ L \in 1..L /\ file \in Seq(Piece)
      /\ \A k \in 1..L : file[k] \in Piece
  BY PiecesEnd DEF TypeOK
<1>2. /\ DOMAIN file' = 1..L
      /\ \A k \in 1..L : k # L => file'[k] = file[k]
      /\ file'[L].rec = file[L].rec /\ file'[L].from = file[L].from
      /\ file'[L].at = file[L].at /\ file'[L].to = n
  BY <1>1 DEF Piece
<1>3. file' \in Seq(Piece)
  <2>1. [file[L] EXCEPT !.to = n] \in Piece
    BY <1>1 DEF Piece
  <2>2. file' = [file EXCEPT ![L] = [file[L] EXCEPT !.to = n]]
    BY <1>1
  <2> QED
    BY <2>1, <2>2, <1>1
<1>4. ASSUME NEW k \in 1..L
      PROVE  /\ file'[k].from = 0 /\ file'[k].to > 0
             /\ file'[k].rec \in DOMAIN log'
             /\ file'[k].to <= RecordLen(file[k].rec)'
             /\ log'[file'[k].rec].status = "ok" => file'[k].to = RecordLen(file[k].rec)'
             /\ k = 1 => file'[k].at = 0
  <2>1. /\ file[k].from = 0 /\ file[k].to > 0 /\ file[k].to \in Nat
        /\ file[k].rec \in DOMAIN log /\ file[k].to <= RecordLen(file[k].rec)
        /\ log[file[k].rec].status = "ok" => file[k].to = RecordLen(file[k].rec)
        /\ k = 1 => file[k].at = 0
    BY <1>1 DEF Tiled, Piece
  <2>2. file'[k].rec = file[k].rec /\ file'[k].from = file[k].from
        /\ file'[k].at = file[k].at
    BY <1>2
  <2>3. RecordLen(file[k].rec)' = RecordLen(file[k].rec)
    BY <2>1, <2>2 DEF RecordLen
  <2>4. CASE k = L
    BY <2>4, <2>1, <2>2, <2>3, <1>2
  <2>5. CASE k # L
    <3>1. file[k].rec # file[L].rec
      <4>1. k < L
        BY <2>5, <1>1
      <4>2. file[k].rec < file[L].rec
        BY <4>1, <1>1 DEF Tiled
      <4> QED
        BY <4>2, <1>1 DEF Piece
    <3> QED
      BY <3>1, <2>5, <2>1, <2>2, <2>3, <1>2
  <2> QED
    BY <2>4, <2>5
<1>5. ASSUME NEW j \in 1..L, NEW k \in 1..L, j < k
      PROVE  /\ file'[j].rec < file'[k].rec
             /\ file'[j].at + file'[j].to <= file'[k].at
             /\ k = j + 1 => file'[k].at = file'[j].at + file'[j].to
  <2>1. /\ file[j].rec < file[k].rec
        /\ file[j].at + file[j].to <= file[k].at
        /\ k = j + 1 => file[k].at = file[j].at + file[j].to
    BY <1>5, <1>1 DEF Tiled
  <2>2. j # L
    BY <1>5, <1>1
  <2> QED
    BY <2>1, <2>2, <1>2
<1> QED
  BY <1>2, <1>3, <1>4, <1>5 DEF Tiled

-----------------------------------------------------------------------------
LEMMA WritePacketInv ==
  ASSUME Inv, NEW w \in Writers, NEW p \in Packets, WritePacket(w, p)
  PROVE  Inv'
<1>0. PICK id \in Nat : id = Len(log) + 1
  BY DEF Inv, TypeOK
<1> DEFINE e == [rtcp |-> p.rtcp, len |-> p.len, offset |-> p.offset,
                 status |-> "writing"]
<1>1. /\ recording /\ job[w] = NoJob /\ Fits(p) /\ writerMu = NoOne /\ writerMu' = w
      /\ log' = Append(log, e)
      /\ UNCHANGED <<header, begun, recording, failures>> /\ UNCHANGED rvars
  BY DEF WritePacket, LockWriter
<1>2. PICK n \in Cuts :
        /\ n <= 8 + p.len
        /\ job' = [job EXCEPT ![w] = [id |-> id, done |-> n]]
        /\ file' = Put(id, 0, n)
  BY <1>0 DEF WritePacket
<1>3. n \in Nat /\ p.rtcp \in BOOLEAN /\ p.len \in Nat /\ p.offset \in Nat
  BY CutsAssumption, PacketsAssumption
<1>4. /\ TypeOK /\ Tiled /\ Logged /\ WriterAt
      /\ log \in Seq(Recorded) /\ Len(log) \in Nat /\ DOMAIN log = 1..Len(log)
      /\ file \in Seq(Piece) /\ DOMAIN file = 1..Len(file) /\ Len(file) \in Nat
  BY DEF Inv, TypeOK
<1>5. e \in Recorded /\ e.len = p.len /\ e.status = "writing" /\ (Fits(e) <=> Fits(p))
  BY <1>3 DEF Recorded, Fits
<1>6. /\ log' \in Seq(Recorded) /\ Len(log') = id /\ DOMAIN log' = 1..id
      /\ log'[id] = e
      /\ \A i \in 1..Len(log) : log'[i] = log[i]
  BY <1>0, <1>1, <1>4, <1>5
<1> HIDE DEF e
<1>7. \A k \in DOMAIN file : file[k].rec \in 1..Len(log) /\ file[k].rec < id
  BY <1>0, <1>4, SMTT(30) DEF Tiled, Piece
<1>8. file' = IF n = 0 THEN file
              ELSE Append(file, [rec |-> id, from |-> 0, to |-> n, at |-> Size])
  <2>1. file # << >> => file[Len(file)].rec # id
    <3>1. file # << >> => Len(file) \in DOMAIN file
      BY <1>4
    <3> QED
      BY <3>1, <1>0, <1>7, <1>4
  <2> QED
    BY <1>2, <1>3, <2>1 DEF Put
<1>9. RecordLen(id)' = 8 + p.len
  BY <1>4, <1>5, <1>6 DEF RecordLen
<1>10. Tiled' /\ file' \in Seq(Piece)
  <2>1. CASE n = 0
    <3>1. file' = file
      BY <1>8, <2>1
    <3>2. \A i \in DOMAIN log : i \in DOMAIN log' /\ log'[i] = log[i]
      BY <1>0, <1>4, <1>6
    <3> QED
      BY <3>1, <3>2, <1>4, TileKept
  <2>2. CASE n # 0
    <3>1. file' = Append(file, [rec |-> id, from |-> 0, to |-> n, at |-> Size])
      BY <1>8, <2>2
    <3>2. \A i \in DOMAIN log : i \in DOMAIN log' /\ (i # id => log'[i] = log[i])
      BY <1>0, <1>4, <1>6
    <3>3. /\ id \in Nat /\ n > 0 /\ id \in DOMAIN log' /\ n <= RecordLen(id)'
          /\ log'[id].status # "ok"
      BY <1>0, <1>2, <1>3, <1>4, <1>5, <1>6, <1>9, <2>2
    <3> QED
      BY <3>1, <3>2, <3>3, <1>3, <1>4, <1>7, TileAppended
  <2> QED
    BY <2>1, <2>2
<1>11. TypeOK'
  <2>1. job' \in [Writers -> [id : Nat, done : Nat]]
    BY <1>2, <1>3, <1>4 DEF TypeOK
  <2> QED
    BY <2>1, <1>1, <1>6, <1>10, <1>4 DEF TypeOK, rvars
<1>12. Logged'
  <2> SUFFICES ASSUME NEW i \in DOMAIN log'
               PROVE  /\ Fits(log'[i])
                      /\ log'[i].status = "ok" => \E k \in DOMAIN file' : file'[k].rec = i
    BY DEF Logged
  <2>1. CASE i = id
    BY <2>1, <1>1, <1>5, <1>6
  <2>2. CASE i # id
    <3>1. i \in DOMAIN log /\ log'[i] = log[i]
      BY <2>2, <1>0, <1>4, <1>6
    <3>2. ASSUME log[i].status = "ok"
          PROVE  \E k \in DOMAIN file' : file'[k].rec = i
      <4>1. PICK k \in DOMAIN file : file[k].rec = i
        BY <3>1, <3>2, <1>4 DEF Logged
      <4>2. k \in DOMAIN file' /\ file'[k] = file[k]
        BY <1>8, <1>4
      <4> QED
        BY <4>1, <4>2
    <3> QED
      BY <3>1, <3>2, <1>4 DEF Logged
  <2> QED
    BY <2>1, <2>2
<1>13. WriterAt'
  <2> SUFFICES ASSUME NEW v \in Writers
               PROVE  IF job'[v].id = 0 THEN job'[v] = NoJob
                      ELSE /\ writerMu' = v
                           /\ job'[v].id = Len(log') /\ log'[Len(log')].status = "writing"
                           /\ job'[v].done <= 8 + log'[Len(log')].len
                           /\ IF job'[v].done = 0
                              THEN \A k \in DOMAIN file' : file'[k].rec # Len(log')
                              ELSE /\ file' # << >>
                                   /\ file'[Len(file')].rec = Len(log')
                                   /\ file'[Len(file')].to = job'[v].done
    BY DEF WriterAt, RecordLen
  <2>1. CASE v # w
    <3>1. job'[v] = job[v]
      BY <2>1, <1>2, <1>4 DEF TypeOK
    <3>2. job[v].id = 0 /\ job[v] = NoJob
      BY <1>1, <1>4, NoOneAssumption DEF WriterAt
    <3> QED
      BY <3>1, <3>2
  <2>2. CASE v = w
    <3>1. job'[v].id = id /\ job'[v].done = n /\ id # 0
      BY <2>2, <1>0, <1>2, <1>4 DEF TypeOK
    <3>2. n = 0 => \A k \in DOMAIN file' : file'[k].rec # id
      BY <1>0, <1>8, <1>7, <1>4
    <3>3. n # 0 => file' # << >> /\ file'[Len(file')].rec = id /\ file'[Len(file')].to = n
      BY <1>8, <1>4, SMTT(30)
    <3> QED
      BY <3>1, <3>2, <3>3, <1>1, <1>2, <1>5, <1>6, <2>2
  <2> QED
    BY <2>1, <2>2
<1> QED
  BY <1>1, <1>10, <1>11, <1>12, <1>13, WriterStep

LEMMA FinishPacketInv ==
  ASSUME Inv, NEW w \in Writers, NEW ok \in BOOLEAN, FinishPacket(w, ok)
  PROVE  Inv'
<1>0. PICK id \in Nat : id = Len(log)
  BY DEF Inv, TypeOK
<1> DEFINE st == IF ok THEN "ok" ELSE "failed"
           n == 8 + log[id].len
<1>1. /\ TypeOK /\ Tiled /\ Logged /\ WriterAt
      /\ log \in Seq(Recorded) /\ Len(log) \in Nat /\ DOMAIN log = 1..Len(log)
      /\ file \in Seq(Piece) /\ DOMAIN file = 1..Len(file) /\ Len(file) \in Nat
  BY DEF Inv, TypeOK
<1>2. job[w].id # 0 /\ recording
  BY DEF FinishPacket
<1>3. /\ writerMu = w /\ job[w].id = id /\ log[id].status = "writing"
      /\ job[w].done <= n /\ job[w].done \in Nat
      /\ job[w].done = 0 => \A k \in DOMAIN file : file[k].rec # id
      /\ job[w].done # 0 => file # << >> /\ file[Len(file)].rec = id
                            /\ file[Len(file)].to = job[w].done
  BY <1>0, <1>1, <1>2 DEF WriterAt, TypeOK, RecordLen
<1>4. /\ ok => file' = Put(id, job[w].done, n) /\ UNCHANGED failures
      /\ ~ok => file' = file /\ failures' = failures + 1
      /\ log' = [log EXCEPT ![id].status = st]
      /\ job' = [job EXCEPT ![w] = NoJob] /\ writerMu' = NoOne
      /\ UNCHANGED <<header, begun, recording>> /\ UNCHANGED rvars
  BY <1>3 DEF FinishPacket, RecordLen
<1>5. id \in 1..id /\ id # 0
  BY <1>0, <1>1, <1>2, <1>3
<1>6. log[id] \in Recorded /\ log[id].len \in Nat /\ n \in Nat /\ n > 0
  <2>1. log[id] \in Recorded
    BY <1>0, <1>1, <1>5
  <2> QED
    BY <2>1 DEF Recorded
<1>7. /\ DOMAIN log' = 1..id /\ Len(log') = id
      /\ \A i \in 1..id : log'[i].len = log[i].len /\ (i # id => log'[i] = log[i])
      /\ \A i \in 1..id : Fits(log'[i]) <=> Fits(log[i])
      /\ log'[id].status = st
  <2>1. /\ DOMAIN log' = 1..id /\ Len(log') = id
        /\ \A i \in 1..id : i # id => log'[i] = log[i]
        /\ log'[id] = [log[id] EXCEPT !.status = st]
    BY <1>0, <1>1, <1>4, <1>5
  <2>2. log'[id].len = log[id].len /\ log'[id].status = st
    BY <2>1, <1>6 DEF Recorded
  <2>3. \A i \in 1..id : log'[i].len = log[i].len
    BY <2>1, <2>2
  <2> QED
    BY <2>1, <2>2, <2>3 DEF Fits
<1>8. log' \in Seq(Recorded)
  <2>1. [log[id] EXCEPT !.status = st] \in Recorded
    BY <1>6 DEF Recorded
  <2> QED
    BY <2>1, <1>0, <1>1, <1>4, <1>5
<1> HIDE DEF st, n
<1>9. ok <=> st = "ok"
  BY DEF st
<1>10. RecordLen(id)' = n /\ RecordLen(id) = n
  BY <1>5, <1>7 DEF RecordLen, n
<1>11. \A k \in DOMAIN file : file[k].rec \in 1..id
  BY <1>0, <1>1 DEF Tiled
<1>12. \/ file' = file /\ (ok => job[w].done = n)
       \/ /\ ok /\ job[w].done = 0
          /\ file' = Append(file, [rec |-> id, from |-> 0, to |-> n, at |-> Size])
       \/ /\ ok /\ file # << >> /\ file[Len(file)].rec = id /\ n >= file[Len(file)].to
          /\ file' = [file EXCEPT ![Len(file)].to = n]
  <2>1. CASE ~ok
    BY <2>1, <1>4
  <2>2. CASE ok /\ job[w].done = n
    BY <2>2, <1>4 DEF Put
  <2>3. CASE ok /\ job[w].done = 0 /\ n # 0
    <3>1. file # << >> => file[Len(file)].rec # id
      BY <2>3, <1>1, <1>3
    <3> QED
      BY <2>3, <3>1, <1>4 DEF Put
  <2>4. CASE ok /\ job[w].done # 0 /\ job[w].done # n
    BY <2>4, <1>3, <1>4, <1>6 DEF Put
  <2> QED
    BY <2>1, <2>2, <2>3, <2>4, <1>6
<1>13. Tiled' /\ file' \in Seq(Piece) /\ (ok => \E k \in DOMAIN file' : file'[k].rec = id)
       /\ \A k \in DOMAIN file : k \in DOMAIN file' /\ file'[k].rec = file[k].rec
  <2>1. CASE file' = file /\ (ok => job[w].done = n)
    <3>1. ok => /\ file # << >> /\ file[Len(file)].rec = id
                /\ \A k \in DOMAIN file : file[k].rec = id => file[k].to = n
      <4> SUFFICES ASSUME ok
                   PROVE  /\ file # << >> /\ file[Len(file)].rec = id
                          /\ \A k \in DOMAIN file : file[k].rec = id => file[k].to = n
        OBVIOUS
      <4>1. file # << >> /\ file[Len(file)].rec = id /\ file[Len(file)].to = n
        BY <2>1, <1>3, <1>6
      <4>2. Len(file) \in DOMAIN file
        BY <4>1, <1>1
      <4>3. ASSUME NEW k \in DOMAIN file, file[k].rec = id
            PROVE  k = Len(file)
        <5>1. ~(k < Len(file))
          BY <4>1, <4>2, <4>3, <1>1, <1>5 DEF Tiled
        <5> QED
          BY <5>1, <1>1
      <4> QED
        BY <4>1, <4>3
    <3>2. \A i \in DOMAIN log :
            /\ i \in DOMAIN log' /\ log'[i].len = log[i].len
            /\ log'[i].status = "ok" =>
                 \/ log[i].status = "ok"
                 \/ \A k \in DOMAIN file : file[k].rec = i => file[k].to = RecordLen(i)
      <4> SUFFICES ASSUME NEW i \in DOMAIN log
                   PROVE  /\ i \in DOMAIN log' /\ log'[i].len = log[i].len
                          /\ log'[i].status = "ok" =>
                               \/ log[i].status = "ok"
                               \/ \A k \in DOMAIN file : file[k].rec = i => file[k].to = RecordLen(i)
        OBVIOUS
      <4>0. i \in 1..id
        BY <1>0, <1>1
      <4>1. CASE i = id
        BY <4>0, <4>1, <3>1, <1>7, <1>9, <1>10
      <4>2. CASE i # id
        BY <4>0, <4>2, <1>7
      <4> QED
        BY <4>1, <4>2
    <3>3. Tiled'
      BY <3>2, <2>1, <1>1, TileKept
    <3>4. file # << >> => Len(file) \in DOMAIN file
      BY <1>1
    <3> QED
      BY <3>1, <3>3, <3>4, <2>1, <1>1
  <2>2. CASE /\ ok /\ job[w].done = 0
             /\ file' = Append(file, [rec |-> id, from |-> 0, to |-> n, at |-> Size])
    <3>1. \A k \in DOMAIN file : file[k].rec < id
      BY <2>2, <1>3, <1>5, <1>11
    <3>2. id \in DOMAIN log' /\ n <= RecordLen(id)'
      BY <1>5, <1>6, <1>7, <1>10
    <3>3. \A i \in DOMAIN log : i \in DOMAIN log' /\ (i # id => log'[i] = log[i])
      BY <1>0, <1>1, <1>7
    <3>4. Tiled' /\ file' \in Seq(Piece)
      BY <3>1, <3>2, <3>3, <2>2, <1>1, <1>5, <1>6, <1>10, TileAppended
    <3>5. \A k \in DOMAIN file : k \in DOMAIN file' /\ file'[k] = file[k]
      BY <2>2, <1>1
    <3>6. Len(file) + 1 \in DOMAIN file' /\ file'[Len(file) + 1].rec = id
      BY <2>2, <1>1
    <3> QED
      BY <3>4, <3>5, <3>6
  <2>3. CASE /\ ok /\ file # << >> /\ file[Len(file)].rec = id /\ n >= file[Len(file)].to
             /\ file' = [file EXCEPT ![Len(file)].to = n]
    <3>1. \A i \in DOMAIN log : log'[i].len = log[i].len
                                /\ (i # file[Len(file)].rec => log'[i] = log[i])
      BY <2>3, <1>0, <1>1, <1>7
    <3>2. DOMAIN log' = DOMAIN log /\ n = RecordLen(file[Len(file)].rec)
      BY <2>3, <1>0, <1>1, <1>7, <1>10
    <3>3. Tiled' /\ file' \in Seq(Piece)
      BY <3>1, <3>2, <2>3, <1>1, <1>6, TileExtended
    <3>4. \A k \in DOMAIN file : file[k] \in Piece
      BY <1>1
    <3>5. \A k \in DOMAIN file : k \in DOMAIN file' /\ file'[k].rec = file[k].rec
      BY <2>3, <3>4 DEF Piece
    <3>6. Len(file) \in DOMAIN file
      BY <2>3, <1>1
    <3> QED
      BY <3>3, <3>5, <3>6, <2>3
  <2> QED
    BY <1>12, <2>1, <2>2, <2>3
<1>14. TypeOK'
  <2>1. job' \in [Writers -> [id : Nat, done : Nat]]
    BY <1>1, <1>4 DEF TypeOK, NoJob
  <2>2. failures' \in Nat
    BY <1>1, <1>4 DEF TypeOK
  <2> QED
    BY <2>1, <2>2, <1>1, <1>4, <1>8, <1>13 DEF TypeOK, rvars
<1>15. Logged'
  <2> SUFFICES ASSUME NEW i \in DOMAIN log'
               PROVE  /\ Fits(log'[i])
                      /\ log'[i].status = "ok" => \E k \in DOMAIN file' : file'[k].rec = i
    BY DEF Logged
  <2>0. i \in 1..id /\ i \in DOMAIN log
    BY <1>0, <1>1, <1>7
  <2>1. Fits(log'[i])
    BY <2>0, <1>1, <1>7 DEF Logged
  <2>2. CASE i = id
    BY <2>1, <2>2, <1>7, <1>9, <1>13
  <2>3. CASE i # id
    <3>1. log'[i].status = "ok" => \E k \in DOMAIN file : file[k].rec = i
      BY <2>0, <2>3, <1>1, <1>7 DEF Logged
    <3> QED
      BY <3>1, <2>1, <1>13
  <2> QED
    BY <2>2, <2>3
<1>16. WriterAt'
  <2>1. \A v \in Writers : job'[v] = NoJob
    BY <1>1, <1>3, <1>4 DEF WriterAt, TypeOK
  <2> QED
    BY <2>1 DEF WriterAt, NoJob
<1> QED
  BY <1>2, <1>4, <1>13, <1>14, <1>15, <1>16, WriterStep

-----------------------------------------------------------------------------
(* The reader leaves the recording alone.                                  *)
LEMMA ReaderStep ==
  ASSUME Inv, UNCHANGED wvars, TypeOK', ReaderAt',
         \A k \in DOMAIN out' : (k <= Len(file) /\ Sound(k)) =>
                                  out'[k] = Restored(file[k].rec)
  PROVE  Inv'
<1>1. log' = log /\ file' = file /\ job' = job /\ writerMu' = writerMu
  BY DEF wvars
<1>2. Tiled' /\ Logged' /\ WriterAt'
  BY <1>1 DEF Inv, Tiled, Logged, WriterAt, RecordLen
<1>3. \A id \in DOMAIN log : Unmarshalled(id)' <=> Unmarshalled(id)
  BY <1>1 DEF Unmarshalled, Restored, RecordLen
<1>4. \A k : Sound(k)' <=> Sound(k)
  BY <1>1 DEF Sound
<1>6. ASSUME NEW k \in DOMAIN out', k <= Len(file'), Sound(k)'
      PROVE  out'[k] = Restored(file[k].rec)'
  <2>1. out'[k] = Restored(file[k].rec)
    BY <1>1, <1>4, <1>6
  <2>2. Restored(file[k].rec)' = Restored(file[k].rec)
    BY <1>1 DEF Restored
  <2> QED
    BY <2>1, <2>2
<1>7. \A id \in DOMAIN log' :
        log'[id].status = "ok" =>
          Unmarshalled(id)' /\ \E k \in DOMAIN file' : file'[k].rec = id
  BY <1>1, <1>3 DEF Inv, RecordsComeBack
<1>8. RecordsComeBack'
  BY <1>6, <1>7 DEF RecordsComeBack
<1> QED
  BY <1>2, <1>8 DEF Inv

(* What the states of the reader rest on does not change either.           *)
LEMMA Unwritten ==
  ASSUME UNCHANGED wvars
  PROVE  /\ log' = log /\ file' = file /\ recording' = recording
         /\ Size' = Size /\ (Torn' <=> Torn)
         /\ \A k : Sound(k)' <=> Sound(k)
  BY DEF wvars, Size, Torn, Sound, RecordLen

LEMMA ReaderTypes ==
  ASSUME Inv, UNCHANGED wvars, readerMu' \in Readers \cup {NoOne},
         opened' \in {"no", "yes", "malformed"}, pos' \in Nat,
         head' \in [Readers -> ReadHeader],
         out' \in Seq([id : Nat, len : Nat, offset : Nat, rtcp : BOOLEAN]),
         ends' \in Seq({"EOF", "malformed"})
  PROVE  TypeOK'
  BY DEF Inv, TypeOK, wvars

(* The header of a record gives its length, which is all of the record.    *)
LEMMA RecordHeader ==
  ASSUME TypeOK, Tiled, Logged, NEW k \in 1..Len(file)
  PROVE  LET p == log[file[k].rec]
             h == Header(file[k].rec, Marshal(p))
         IN /\ file[k].rec \in Nat /\ file[k].rec # 0
            /\ p.len \in Nat /\ p.rtcp \in BOOLEAN /\ RecordLen(file[k].rec) = 8 + p.len
            /\ h \in ReadHeader
            /\ h.id = file[k].rec /\ h.Length = 8 + p.len
            /\ h.PacketLength = (IF p.rtcp THEN 0 ELSE p.len)
            /\ h.Offset = p.offset % OffsetMod
            /\ file[k].to \in Nat /\ file[k].to > 0 /\ file[k].to <= 8 + p.len
            /\ file[k].at \in Nat
            /\ Sound(k) => file[k].to = 8 + p.len
            /\ p.status = "ok" => file[k].to = 8 + p.len
<1> DEFINE p == log[file[k].rec]
           m == Marshal(p)
           h == Header(file[k].rec, m)
<1>1. DOMAIN file = 1..Len(file) /\ file[k] \in Piece
  BY PiecesEnd
<1>2. /\ file[k].rec \in DOMAIN log /\ file[k].to > 0
      /\ file[k].to <= RecordLen(file[k].rec)
      /\ p.status = "ok" => file[k].to = RecordLen(file[k].rec)
  BY <1>1 DEF Tiled
<1>3. p \in Recorded /\ Fits(p) /\ file[k].rec # 0
  BY <1>2 DEF Logged, TypeOK
<1>4. p.len \in Nat /\ p.rtcp \in BOOLEAN /\ p.offset \in Nat
  BY <1>3 DEF Recorded
<1>5. RecordLen(file[k].rec) = 8 + p.len
  BY DEF RecordLen
<1>6. Sound(k) => p.status = "ok"
  BY <1>1 DEF Sound
<1> HIDE DEF p
<1>7. /\ m.Length = p.len + 8
      /\ m.PacketLength = (IF p.rtcp THEN 0 ELSE p.len)
      /\ m.Offset = p.offset % OffsetMod /\ p.offset % OffsetMod \in Nat
  BY <1>3, <1>4, MarshalKeeps
<1> HIDE DEF m
<1>8. h.id = file[k].rec /\ h.Length = 8 + p.len
      /\ h.PacketLength = (IF p.rtcp THEN 0 ELSE p.len)
      /\ h.Offset = p.offset % OffsetMod
  BY <1>4, <1>7 DEF Header
<1>9. /\ file[k].rec \in Nat /\ file[k].to \in Nat /\ file[k].at \in Nat
  BY <1>1 DEF Piece
<1>10. h \in ReadHeader
  BY <1>4, <1>7, <1>9 DEF Header, ReadHeader
<1> HIDE DEF h
<1>11. /\ file[k].rec \in Nat /\ file[k].rec # 0
       /\ p.len \in Nat /\ p.rtcp \in BOOLEAN /\ RecordLen(file[k].rec) = 8 + p.len
       /\ h \in ReadHeader
       /\ h.id = file[k].rec /\ h.Length = 8 + p.len
       /\ h.PacketLength = (IF p.rtcp THEN 0 ELSE p.len)
       /\ h.Offset = p.offset % OffsetMod
       /\ file[k].to \in Nat /\ file[k].to > 0 /\ file[k].to <= 8 + p.len
       /\ file[k].at \in Nat
       /\ Sound(k) => file[k].to = 8 + p.len
       /\ p.status = "ok" => file[k].to = 8 + p.len
  BY <1>2, <1>3, <1>4, <1>5, <1>6, <1>8, <1>9, <1>10
<1> QED
  BY <1>11 DEF h, m, p

(* Behind a first record that was cut nothing has to come back.            *)
LEMMA FirstCut ==
  ASSUME TypeOK, NEW k \in 1..Len(file), Sound(k - 1), ~Sound(k)
  PROVE  /\ \A j \in DOMAIN file : Sound(j) => j <= k - 1
         /\ ~Sound(Len(file))
         /\ Torn => k = Len(file)
<1>1. DOMAIN file = 1..Len(file) /\ Len(file) \in Nat /\ k \in Nat
  BY DEF TypeOK
<1>2. ASSUME NEW j \in Nat, Sound(j)
      PROVE  j <= k - 1
  <2> SUFFICES ASSUME ~(j <= k - 1) PROVE FALSE
    OBVIOUS
  <2>1. k <= j
    <3>1. k \in Nat /\ j \in Nat
      BY <1>1
    <3> QED
      BY <3>1
  <2>2. 1..k \subseteq 1..j
    BY <2>1, <1>1
  <2> QED
    BY <1>2, <2>2 DEF Sound
<1>3. \A j \in DOMAIN file : Sound(j) => j <= k - 1
  BY <1>1, <1>2
<1>4. ~Sound(Len(file))
  BY <1>1, <1>2
<1>5. Torn => k = Len(file)
  <2>1. Len(file) - 1 \in Nat
    BY <1>1
  <2>2. Sound(Len(file) - 1) => Len(file) - 1 <= k - 1
    BY <2>1, <1>2
  <2>3. Len(file) - 1 <= k - 1 => k = Len(file)
    <3>1. Len(file) \in Nat /\ k \in Nat /\ k <= Len(file)
      BY <1>1
    <3> QED
      BY <3>1
  <2> QED
    BY <2>2, <2>3 DEF Torn
<1> QED
  BY <1>3, <1>4, <1>5

(* When all records are whole none is torn.                                *)
LEMMA SoundNotTorn ==
  ASSUME TypeOK, Tiled, Sound(Len(file))
  PROVE  ~Torn
<1> SUFFICES ASSUME Torn PROVE FALSE
  OBVIOUS
<1>1. DOMAIN file = 1..Len(file) /\ Len(file) \in 1..Len(file)
  BY DEF TypeOK, Torn
<1>2. log[file[Len(file)].rec].status = "ok"
  BY <1>1 DEF Sound
<1>3. file[Len(file)].to = RecordLen(file[Len(file)].rec)
  BY <1>1, <1>2 DEF Tiled
<1>4. file[Len(file)].to \in Nat
  BY <1>1, PiecesEnd DEF Piece
<1> QED
  BY <1>3, <1>4 DEF Torn

-----------------------------------------------------------------------------
LEMMA NewReaderInv ==
  ASSUME Inv, NewReader
  PROVE  Inv'
<1>1. /\ UNCHANGED wvars /\ UNCHANGED <<readerMu, pos, head, out, ends>>
      /\ opened = "no" /\ ~recording /\ opened' \in {"yes", "malformed"}
  BY DEF NewReader
<1>2. /\ log' = log /\ file' = file /\ recording' = recording /\ Size' = Size
      /\ \A k : Sound(k)' <=> Sound(k)
  BY <1>1, Unwritten
<1>3. pos = 0 /\ out = << >> /\ ends = << >> /\ readerMu = NoOne /\ ReaderAt
  BY <1>1 DEF Inv, ReaderAt
<1>4. TypeOK'
  BY <1>1, ReaderTypes DEF Inv, TypeOK
<1>5. InStep
  BY <1>3 DEF InStep, Sound, Inv, TypeOK
<1>6. InStep'
  BY <1>1, <1>2, <1>5 DEF InStep
<1>7. AtRecord'
  BY <1>1, <1>2, <1>3, <1>5 DEF ReaderAt, AtRecord
<1>8. ReaderAt'
  BY <1>1, <1>2, <1>3, <1>6, <1>7 DEF ReaderAt
<1> QED
  BY <1>1, <1>3, <1>4, <1>8, ReaderStep

LEMMA NextHeaderInv ==
  ASSUME Inv, NEW r \in Readers, NextHeader(r)
  PROVE  Inv'
<1>1. /\ opened = "yes" /\ Size - pos >= 8 /\ readerMu = NoOne /\ readerMu' = r
      /\ pos' = pos + 8 /\ UNCHANGED wvars /\ UNCHANGED <<opened, out, ends>>
  BY DEF NextHeader, Goes, LockReader
<1>2. PICK h \in HeadersAt : h.Length >= 8 /\ head' = [head EXCEPT ![r] = h]
  BY DEF NextHeader
<1>3. /\ TypeOK /\ Tiled /\ Logged /\ ReaderAt /\ pos \in Nat
      /\ head \in [Readers -> ReadHeader]
      /\ out \in Seq([id : Nat, len : Nat, offset : Nat, rtcp : BOOLEAN])
      /\ Len(out) \in Nat
  BY DEF Inv, TypeOK
<1>4. /\ log' = log /\ file' = file /\ recording' = recording
      /\ Size' = Size /\ (Torn' <=> Torn)
      /\ \A k : Sound(k)' <=> Sound(k)
  BY <1>1, Unwritten
<1>5. /\ Size \in Nat /\ DOMAIN file = 1..Len(file) /\ Len(file) \in Nat
      /\ \A k \in 1..Len(file) : file[k] \in Piece
  BY <1>3, PiecesEnd
<1>6. h \in ReadHeader
  <2>1. CASE \E id \in DOMAIN log : h = Header(id, Marshal(log[id]))
    <3>1. PICK id \in DOMAIN log : h = Header(id, Marshal(log[id]))
      BY <2>1
    <3>2. log[id] \in Recorded /\ Fits(log[id]) /\ id \in Nat
      BY <1>3 DEF TypeOK, Logged
    <3>3. log[id].rtcp \in BOOLEAN /\ log[id].len \in Nat /\ log[id].offset \in Nat
      BY <3>2 DEF Recorded
    <3> DEFINE m == Marshal(log[id])
    <3>4. /\ m.Length = log[id].len + 8
          /\ m.PacketLength = (IF log[id].rtcp THEN 0 ELSE log[id].len)
          /\ m.Offset = log[id].offset % OffsetMod /\ log[id].offset % OffsetMod \in Nat
      BY <3>2, <3>3, MarshalKeeps
    <3>5. h = Header(id, m)
      BY <3>1
    <3> HIDE DEF m
    <3>6. m.Length \in Nat /\ m.PacketLength \in Nat /\ m.Offset \in Nat
      BY <3>3, <3>4
    <3> QED
      BY <3>2, <3>5, <3>6 DEF Header, ReadHeader
  <2>2. CASE \E n \in NoiseLengths :
               h = [id |-> 0, Length |-> n, PacketLength |-> 0, Offset |-> 0]
    BY <2>2, CutsAssumption DEF ReadHeader
  <2> QED
    BY <1>2, <2>1, <2>2 DEF HeadersAt
<1>7. TypeOK'
  <2>1. head' \in [Readers -> ReadHeader] /\ pos' \in Nat
    BY <1>1, <1>2, <1>3, <1>6
  <2> QED
    BY <2>1, <1>1, ReaderTypes DEF Inv, TypeOK
<1>8. head'[r] = h /\ \A s \in Readers : s # r => head'[s] = NoHead
  BY <1>1, <1>2, <1>3, NoOneAssumption DEF ReaderAt
<1>9. InStep' <=> InStep
  BY <1>1, <1>4 DEF InStep
<1>10. ASSUME InStep
       PROVE  AtRecord'
  <2> DEFINE k == Len(out) + 1
  <2>1. pos = IF k <= Len(file) THEN file[k].at ELSE Size
    BY <1>1, <1>3, <1>10 DEF ReaderAt, AtRecord
  <2>2. k <= Len(file) /\ pos = file[k].at
    BY <2>1, <1>1, <1>5
  <2>3. k \in 1..Len(file)
    BY <2>2, <1>3, <1>5
  <2>4. pos' = file[k].at + 8 /\ pos' <= Size
    BY <2>2, <1>1, <1>3, <1>5
  <2>5. ASSUME file[k].to >= 8
        PROVE  h = Header(file[k].rec, Marshal(log[file[k].rec]))
    <3> HIDE DEF k
    <3>1. HeadersAt = {Header(file[k].rec, Marshal(log[file[k].rec]))}
      BY <2>2, <2>3, <2>5, <1>3, OneHeader
    <3> QED
      BY <3>1, <1>2
  <2>6. r # NoOne
    BY NoOneAssumption
  <2>7. /\ readerMu' = r /\ out' = out /\ head'[r] = h
    BY <1>1, <1>8
  <2>8. Header(file[k].rec, Marshal(log[file[k].rec]))'
          = Header(file[k].rec, Marshal(log[file[k].rec]))
    BY <1>1, <1>4 DEF Header, Marshal, offsetMs
  <2> QED
    BY <2>2, <2>4, <2>5, <2>6, <2>7, <2>8, <1>4 DEF AtRecord
<1>11. ASSUME ~InStep
       PROVE  Passed'
  <2>1. Passed
    BY <1>3, <1>11 DEF ReaderAt
  <2>2. ~(Sound(Len(file)) \/ Torn)
    <3>1. pos # Size
      BY <1>1, <1>3, <1>5
    <3> QED
      BY <2>1, <3>1 DEF Passed
  <2> QED
    BY <2>1, <2>2, <1>1, <1>4 DEF Passed
<1>12. ReaderAt'
  <2>1. ~recording
    BY <1>1, <1>3 DEF ReaderAt
  <2>2. IF InStep' THEN AtRecord' ELSE Passed'
    BY <1>9, <1>10, <1>11
  <2> QED
    BY <2>1, <2>2, <1>1, <1>2, <1>4, <1>8 DEF ReaderAt
<1> QED
  BY <1>1, <1>7, <1>12, ReaderStep DEF Inv, RecordsComeBack

(* An error of Next in step with the file: it meets the end or the first   *)
(* record that was cut.                                                    *)
LEMMA FailsAtEnd ==
  ASSUME Inv, UNCHANGED wvars, UNCHANGED out, readerMu' = NoOne, InStep,
         NEW e \in {"EOF", "malformed"}, ends' = Append(ends, e),
         \/ Len(out) = Len(file) /\ pos' = Size /\ e = "EOF"
         \/ /\ Len(out) < Len(file) /\ ~Sound(Len(out) + 1)
            /\ Torn => pos' = Size /\ e = "malformed"
  PROVE  ~InStep' /\ Passed'
<1>1. /\ log' = log /\ file' = file /\ (Torn' <=> Torn) /\ Size' = Size
      /\ \A k : Sound(k)' <=> Sound(k)
  BY Unwritten
<1>2. /\ TypeOK /\ Tiled /\ ends = << >> /\ Sound(Len(out)) /\ Len(out) \in Nat
      /\ Len(file) \in Nat /\ DOMAIN file = 1..Len(file)
  BY DEF Inv, InStep, TypeOK
<1>3. ends' # << >> /\ ends'[1] = e
  BY <1>2
<1>4. ~InStep'
  BY <1>3 DEF InStep
<1>5. CASE Len(out) = Len(file) /\ pos' = Size /\ e = "EOF"
  <2>1. Sound(Len(file)) /\ ~Torn
    BY <1>2, <1>5, SoundNotTorn
  <2>2. \A k \in DOMAIN file : k <= Len(out)
    BY <1>2, <1>5
  <2> QED
    BY <2>1, <2>2, <1>1, <1>3, <1>4, <1>5 DEF Passed
<1>6. CASE /\ Len(out) < Len(file) /\ ~Sound(Len(out) + 1)
           /\ Torn => pos' = Size /\ e = "malformed"
  <2>1. PICK k \in 1..Len(file) : k = Len(out) + 1
    BY <1>2, <1>6
  <2>2. k - 1 = Len(out) /\ k \in Nat
    BY <2>1, <1>2
  <2>3. /\ \A j \in DOMAIN file : Sound(j) => j <= k - 1
        /\ ~Sound(Len(file))
        /\ Torn => k = Len(file)
    BY <2>1, <2>2, <1>2, <1>6, FirstCut
  <2>4. Torn => Len(out) = Len(file) - 1
    BY <2>2, <2>3
  <2> QED
    BY <2>2, <2>3, <2>4, <1>1, <1>3, <1>4, <1>6 DEF Passed
<1> QED
  BY <1>5, <1>6

(* An error of Next that is not the first, or comes behind a cut record.   *)
LEMMA FailsAgain ==
  ASSUME Inv, UNCHANGED wvars, UNCHANGED out, readerMu' = NoOne, ~InStep,
         NEW e \in {"EOF", "malformed"}, ends' = Append(ends, e),
         Sound(Len(file)) \/ Torn => pos' = Size
  PROVE  ~InStep' /\ Passed'
<1>1. /\ log' = log /\ file' = file /\ (Torn' <=> Torn) /\ Size' = Size
      /\ \A k : Sound(k)' <=> Sound(k)
  BY Unwritten
<1>2. Passed /\ ends \in Seq({"EOF", "malformed"})
  BY DEF Inv, ReaderAt, TypeOK
<1>3. ends' # << >> /\ (ends # << >> => ends'[1] = ends[1])
  BY <1>2
<1>4. ~InStep'
  BY <1>3 DEF InStep
<1> QED
  BY <1>1, <1>2, <1>3, <1>4 DEF Passed

LEMMA NextFailsInv ==
  ASSUME Inv, NEW r \in Readers, NextFails(r)
  PROVE  Inv'
<1>1. /\ opened = "yes" /\ readerMu = NoOne /\ UNCHANGED wvars
      /\ UNCHANGED <<readerMu, opened, head, out>>
  BY DEF NextFails, Goes
<1>2. /\ TypeOK /\ Tiled /\ Logged /\ ReaderAt /\ pos \in Nat
      /\ out \in Seq([id : Nat, len : Nat, offset : Nat, rtcp : BOOLEAN])
      /\ ends \in Seq({"EOF", "malformed"})
      /\ Len(out) \in Nat /\ readerMu' = NoOne
  BY <1>1 DEF Inv, TypeOK
<1>3. /\ Size \in Nat /\ DOMAIN file = 1..Len(file) /\ Len(file) \in Nat
      /\ \A k \in 1..Len(file) : file[k].at + file[k].to <= Size
      /\ file # << >> => Size = file[Len(file)].at + file[Len(file)].to
  BY <1>2, PiecesEnd
<1>4. PICK e \in {"EOF", "malformed"} :
        /\ ends' = Append(ends, e)
        /\ \/ /\ Size - pos < 8 /\ pos' = Size
              /\ e = IF Size = pos THEN "EOF" ELSE "malformed"
           \/ /\ Size - pos >= 8 /\ e = "malformed" /\ pos' = pos + 8
              /\ \E h \in HeadersAt : h.Length < 8
  BY DEF NextFails, Short
<1>5. TypeOK'
  <2>1. ends' \in Seq({"EOF", "malformed"})
    BY <1>2, <1>4
  <2>2. pos' \in Nat
    BY <1>2, <1>3, <1>4
  <2> QED
    BY <2>1, <2>2, <1>1, ReaderTypes DEF Inv, TypeOK
<1>6. ASSUME InStep
      PROVE  ~InStep' /\ Passed'
  <2>1. PICK k \in Nat : k = Len(out) + 1
    BY <1>2
  <2>2. pos = IF k <= Len(file) THEN file[k].at ELSE Size
    BY <2>1, <1>1, <1>2, <1>6 DEF ReaderAt, AtRecord
  <2>3. Len(out) <= Len(file)
    BY <1>6 DEF InStep
  <2>4. CASE k > Len(file)
    <3>1. Len(out) = Len(file)
      BY <2>1, <2>3, <2>4, <1>2, <1>3
    <3>2. pos = Size
      BY <2>2, <2>4, <1>3
    <3>3. pos' = Size /\ e = "EOF"
      BY <3>2, <1>2, <1>3, <1>4
    <3> QED
      BY <3>1, <3>3, <1>1, <1>2, <1>4, <1>6, FailsAtEnd
  <2>5. CASE k <= Len(file)
    <3>1. k \in 1..Len(file) /\ pos = file[k].at /\ Len(out) < Len(file)
      BY <2>1, <2>2, <2>5, <1>2, <1>3
    <3> DEFINE len == log[file[k].rec].len
    <3>2. /\ len \in Nat /\ file[k].to \in Nat /\ file[k].at \in Nat /\ file[k].to > 0
          /\ Sound(k) => file[k].to = 8 + len
          /\ Header(file[k].rec, Marshal(log[file[k].rec])).Length = 8 + len
      BY <3>1, <1>2, RecordHeader
    <3>3. file[k].at + file[k].to <= Size
      BY <3>1, <1>3
    <3>4. file[k].to < 8
      <4> SUFFICES ASSUME file[k].to >= 8 PROVE FALSE
        BY <3>2
      <4>1. Size - pos >= 8
        BY <3>1, <3>2, <3>3, <1>3
      <4>2. PICK h \in HeadersAt : h.Length < 8
        BY <4>1, <1>2, <1>3, <1>4
      <4>3. HeadersAt = {Header(file[k].rec, Marshal(log[file[k].rec]))}
        BY <3>1, <1>2, OneHeader
      <4>4. h.Length = 8 + len
        BY <4>2, <4>3, <3>2
      <4> HIDE DEF len
      <4> QED
        BY <4>2, <4>4, <3>2
    <3>5. ~Sound(k)
      BY <3>2, <3>4
    <3>6. Torn => pos' = Size /\ e = "malformed"
      <4> SUFFICES ASSUME Torn PROVE pos' = Size /\ e = "malformed"
        OBVIOUS
      <4>1. Sound(k - 1)
        <5>1. k - 1 = Len(out)
          BY <2>1, <1>2
        <5> QED
          BY <5>1, <1>6 DEF InStep
      <4>2. k = Len(file) /\ file # << >>
        BY <4>1, <3>1, <3>5, <1>2, FirstCut DEF Torn
      <4>3. Size = pos + file[k].to
        BY <4>2, <3>1, <1>3
      <4> QED
        BY <4>3, <3>2, <3>4, <1>2, <1>3, <1>4, SMTT(30)
    <3> QED
      BY <2>1, <3>1, <3>5, <3>6, <1>1, <1>2, <1>4, <1>6, FailsAtEnd
  <2> QED
    BY <2>4, <2>5, <2>1, <1>3
<1>7. ASSUME ~InStep
      PROVE  ~InStep' /\ Passed'
  <2>1. Sound(Len(file)) \/ Torn => pos = Size
    BY <1>2, <1>7 DEF ReaderAt, Passed
  <2>2. Sound(Len(file)) \/ Torn => pos' = Size
    BY <2>1, <1>2, <1>3, <1>4
  <2> QED
    BY <2>2, <1>1, <1>2, <1>4, <1>7, FailsAgain
<1>8. ReaderAt'
  <2>1. recording' = recording /\ ~recording
    BY <1>1, <1>2 DEF ReaderAt, wvars
  <2> QED
    BY <2>1, <1>1, <1>2, <1>6, <1>7, NoOneAssumption DEF ReaderAt
<1> QED
  BY <1>1, <1>5, <1>8, ReaderStep DEF Inv, RecordsComeBack

LEMMA NextPayloadInv ==
  ASSUME Inv, NEW r \in Readers, NextPayload(r)
  PROVE  Inv'
<1> DEFINE h == head[r]
           n == h.Length - 8
           got == [id |-> IF h.id # 0 /\ (n > 0 => Holds(pos, n, h.id, 8))
                          THEN h.id ELSE 0,
                   len |-> n, offset |-> h.Offset, rtcp |-> h.PacketLength = 0]
<1>1. /\ opened = "yes" /\ h # NoHead /\ UNCHANGED wvars /\ UNCHANGED opened
      /\ head' = [head EXCEPT ![r] = NoHead]
  BY DEF NextPayload, Goes
<1>2. /\ TypeOK /\ Tiled /\ Logged /\ ReaderAt /\ RecordsComeBack /\ pos \in Nat
      /\ head \in [Readers -> ReadHeader]
      /\ out \in Seq([id : Nat, len : Nat, offset : Nat, rtcp : BOOLEAN])
      /\ ends \in Seq({"EOF", "malformed"}) /\ Len(out) \in Nat /\ ~recording
  BY <1>1 DEF Inv, TypeOK, ReaderAt
<1>3. readerMu = r /\ r # NoOne /\ h.Length >= 8
  BY <1>1, <1>2, NoOneAssumption DEF ReaderAt
<1>4. h \in ReadHeader /\ h.Length \in Nat /\ n \in Nat /\ h.id \in Nat /\ h.Offset \in Nat
  BY <1>2, <1>3 DEF ReadHeader
<1>5. /\ readerMu' = NoOne
      /\ \/ /\ Size - pos < n /\ out' = out /\ pos' = Size
            /\ ends' = Append(ends, IF Size = pos THEN "EOF" ELSE "malformed")
         \/ /\ Size - pos >= n /\ pos' = pos + n
            /\ out' = Append(out, got) /\ ends' = ends
  BY <1>3 DEF NextPayload, UnlockReader, Short
<1>6. /\ Size \in Nat /\ DOMAIN file = 1..Len(file) /\ Len(file) \in Nat
      /\ \A k \in 1..Len(file) : file[k].at + file[k].to <= Size
      /\ file # << >> => Size = file[Len(file)].at + file[Len(file)].to
      /\ \A k \in 1..Len(file) :
           k < Len(file) => file[k + 1].at = file[k].at + file[k].to
  BY <1>2, PiecesEnd
<1>7. /\ log' = log /\ file' = file /\ recording' = recording
      /\ Size' = Size /\ (Torn' <=> Torn)
      /\ \A k : Sound(k)' <=> Sound(k)
  BY <1>1, Unwritten
<1>8. got \in [id : Nat, len : Nat, offset : Nat, rtcp : BOOLEAN]
  BY <1>4
<1>9. TypeOK'
  <2>1. head' \in [Readers -> ReadHeader]
    BY <1>1, <1>2 DEF NoHead, ReadHeader
  <2>2. pos' \in Nat
    BY <1>2, <1>4, <1>5, <1>6
  <2> HIDE DEF got, n, h
  <2>3. out' \in Seq([id : Nat, len : Nat, offset : Nat, rtcp : BOOLEAN])
    <3>1. out' = out \/ out' = Append(out, got)
      BY <1>5
    <3> DEFINE P == [id : Nat, len : Nat, offset : Nat, rtcp : BOOLEAN]
    <3>2. out \in Seq(P) /\ got \in P
      BY <1>2, <1>8
    <3> HIDE DEF P
    <3>3. out' \in Seq(P)
      BY <3>1, <3>2
    <3> QED
      BY <3>3 DEF P
  <2>4. ends' \in Seq({"EOF", "malformed"})
    <3>1. ends' = ends \/ \E e \in {"EOF", "malformed"} : ends' = Append(ends, e)
      BY <1>5
    <3> DEFINE E == {"EOF", "malformed"}
    <3>2. ends \in Seq(E)
      BY <1>2
    <3> HIDE DEF E
    <3>3. ends' \in Seq(E)
      BY <3>1, <3>2 DEF E
    <3> QED
      BY <3>3 DEF E
  <2> QED
    BY <2>1, <2>2, <2>3, <2>4, <1>1, <1>5, ReaderTypes DEF Inv, TypeOK
<1>10. \A s \in Readers : head'[s] = NoHead /\ readerMu' # s
  BY <1>1, <1>2, <1>3, <1>5, NoOneAssumption DEF ReaderAt
<1> HIDE DEF got, n, h
<1>11. ASSUME IF InStep' THEN AtRecord' ELSE Passed',
              \A k \in DOMAIN out' : (k <= Len(file) /\ Sound(k)) =>
                                       out'[k] = Restored(file[k].rec)
       PROVE  Inv'
  <2>1. ReaderAt'
    BY <1>1, <1>2, <1>7, <1>10, <1>11 DEF ReaderAt
  <2> QED
    BY <2>1, <1>1, <1>9, <1>11, ReaderStep
<1>12. \A k \in DOMAIN out : (k <= Len(file) /\ Sound(k)) => out[k] = Restored(file[k].rec)
  BY <1>2 DEF RecordsComeBack
<1>13. ASSUME out' = Append(out, got),
              Len(out) + 1 <= Len(file) /\ Sound(Len(out) + 1) =>
                got = Restored(file[Len(out) + 1].rec)
       PROVE  \A k \in DOMAIN out' : (k <= Len(file) /\ Sound(k)) =>
                                       out'[k] = Restored(file[k].rec)
  <2>1. /\ DOMAIN out' = 1..(Len(out) + 1) /\ out'[Len(out) + 1] = got
        /\ \A k \in 1..Len(out) : out'[k] = out[k]
        /\ DOMAIN out = 1..Len(out)
    BY <1>2, <1>8, <1>13
  <2> SUFFICES ASSUME NEW k \in 1..(Len(out) + 1), k <= Len(file), Sound(k)
               PROVE  out'[k] = Restored(file[k].rec)
    BY <2>1
  <2>2. CASE k = Len(out) + 1
    BY <2>1, <2>2, <1>13
  <2>3. CASE k \in 1..Len(out)
    BY <2>1, <2>3, <1>12
  <2> QED
    BY <2>2, <2>3, <1>2
<1>14. CASE InStep
  <2>1. PICK k \in Nat : k = Len(out) + 1
    BY <1>2
  <2>2. /\ k <= Len(file) /\ pos = file[k].at + 8 /\ pos <= Size
        /\ file[k].to >= 8 => h = Header(file[k].rec, Marshal(log[file[k].rec]))
    BY <2>1, <1>2, <1>3, <1>14 DEF ReaderAt, AtRecord, h
  <2>3. k \in 1..Len(file) /\ Len(out) < Len(file) /\ k - 1 = Len(out)
    BY <2>1, <2>2, <1>2, <1>6
  <2>4. ends = << >> /\ Sound(k - 1)
    BY <2>3, <1>14 DEF InStep
  <2> DEFINE p == log[file[k].rec]
  <2>5. /\ file[k].rec \in Nat /\ file[k].rec # 0
        /\ p.len \in Nat /\ p.rtcp \in BOOLEAN /\ RecordLen(file[k].rec) = 8 + p.len
        /\ file[k].to \in Nat /\ file[k].at \in Nat /\ file[k].to <= 8 + p.len
        /\ Sound(k) => file[k].to = 8 + p.len
    BY <2>3, <1>2, RecordHeader
  <2>6. file[k].to >= 8 => /\ h.id = file[k].rec /\ h.Length = 8 + p.len
                           /\ h.PacketLength = (IF p.rtcp THEN 0 ELSE p.len)
                           /\ h.Offset = p.offset % OffsetMod
    BY <2>2, <2>3, <1>2, RecordHeader
  <2>7. file[k].to >= 8 => n = p.len
    BY <2>5, <2>6 DEF n
  <2>8. file[k].at + file[k].to <= Size
    BY <2>3, <1>6
  <2>9. Torn /\ ~Sound(k) => /\ k = Len(file) /\ Size = pos + (file[k].to - 8)
                             /\ file[k].to > 8 /\ n = p.len /\ file[k].to < 8 + p.len
    <3> SUFFICES ASSUME Torn, ~Sound(k)
                 PROVE  /\ k = Len(file) /\ Size = pos + (file[k].to - 8)
                        /\ file[k].to > 8 /\ n = p.len /\ file[k].to < 8 + p.len
      OBVIOUS
    <3>1. k = Len(file) /\ file # << >>
      BY <2>3, <2>4, <1>2, FirstCut DEF Torn
    <3>2. Size = file[k].at + file[k].to /\ file[k].to # 8
          /\ file[k].to < RecordLen(file[k].rec)
      BY <3>1, <1>6 DEF Torn
    <3>3. file[k].to >= 8
      BY <3>2, <2>2, <2>5, <1>6
    <3> HIDE DEF p
    <3> QED
      BY <3>1, <3>2, <3>3, <2>2, <2>5, <2>7, SMTT(30)
  <2> HIDE DEF p
  <2>10. CASE /\ Size - pos < n /\ out' = out /\ pos' = Size
              /\ ends' = Append(ends, IF Size = pos THEN "EOF" ELSE "malformed")
    <3>1. ~Sound(k)
      <4> SUFFICES ASSUME Sound(k) PROVE FALSE
        OBVIOUS
      <4>1. file[k].to = 8 + p.len /\ n = p.len
        BY <2>5, <2>7
      <4> QED
        BY <4>1, <2>2, <2>5, <2>8, <2>10, <1>6, SMTT(30)
    <3>2. PICK e \in {"EOF", "malformed"} : e = IF Size = pos THEN "EOF" ELSE "malformed"
      OBVIOUS
    <3>3. Torn => pos' = Size /\ e = "malformed"
      BY <3>1, <3>2, <2>5, <2>9, <2>10, <1>2
    <3>4. ends' = Append(ends, e)
      BY <3>2, <2>10
    <3>5. ~InStep' /\ Passed'
      <4>1. ~Sound(Len(out) + 1)
        BY <3>1, <2>1
      <4>2. UNCHANGED out
        BY <2>10
      <4> QED
        BY <3>3, <3>4, <4>1, <4>2, <2>3, <1>1, <1>5, <1>14, FailsAtEnd
    <3>6. \A j \in DOMAIN out' :
            (j <= Len(file) /\ Sound(j)) => out'[j] = Restored(file[j].rec)
      BY <2>10, <1>12
    <3> QED
      BY <3>5, <3>6, <1>11
  <2>11. CASE /\ Size - pos >= n /\ pos' = pos + n
              /\ out' = Append(out, got) /\ ends' = ends
    <3>1. Len(out') = k
      BY <2>1, <2>11, <1>2, <1>8
    <3>2. CASE Sound(k)
      <4>1. file[k].to = 8 + p.len /\ file[k].to >= 8
        BY <3>2, <2>5
      <4>2. n = p.len /\ h.id = file[k].rec /\ h.Offset = p.offset % OffsetMod
            /\ h.PacketLength = (IF p.rtcp THEN 0 ELSE p.len)
        BY <4>1, <2>6, <2>7
      <4>3. Holds(pos, n, h.id, 8)
        <5>1. file[k].from = 0 /\ k \in DOMAIN file
          BY <2>3, <1>2, <1>6 DEF Tiled
        <5>2. /\ pos - file[k].at = 8 - file[k].from
              /\ pos >= file[k].at /\ 8 + n <= file[k].to
          BY <5>1, <4>1, <4>2, <2>2, <2>5
        <5> QED
          BY <5>1, <5>2, <4>2 DEF Holds
      <4>4. (h.PacketLength = 0) = (p.rtcp \/ p.len = 0)
        BY <4>2, <2>5
      <4>5. got = Restored(file[k].rec)
        BY <4>2, <4>3, <4>4, <2>5 DEF got, Restored, p
      <4>6. InStep'
        BY <3>1, <3>2, <2>2, <2>4, <2>11, <1>7 DEF InStep
      <4>7. pos' = file[k].at + file[k].to
        <5>1. pos' = file[k].at + 8 + p.len
          BY <4>2, <2>2, <2>11
        <5> QED
          BY <5>1, <4>1, <2>5
      <4>8. pos' = IF k + 1 <= Len(file) THEN file[k + 1].at ELSE Size
        <5>1. CASE k < Len(file)
          <6>1. k \in Nat /\ Len(file) \in Nat /\ k + 1 <= Len(file)
            BY <5>1, <1>6
          <6>2. file[k + 1].at = file[k].at + file[k].to
            BY <5>1, <2>3, <1>6
          <6> QED
            BY <6>1, <6>2, <4>7
        <5>2. CASE k = Len(file)
          <6>1. ~(k + 1 <= Len(file)) /\ file # << >>
            BY <5>2, <2>3, <1>6
          <6> QED
            BY <6>1, <5>2, <4>7, <1>6
        <5>3. k < Len(file) \/ k = Len(file)
          <6>1. k \in Nat /\ Len(file) \in Nat /\ k <= Len(file)
            BY <2>2, <1>6
          <6> QED
            BY <6>1
        <5> QED
          BY <5>1, <5>2, <5>3
      <4>9. AtRecord'
        BY <3>1, <4>8, <1>5, <1>7 DEF AtRecord
      <4> QED
        BY <4>5, <4>6, <4>9, <2>1, <2>11, <1>11, <1>13
    <3>3. CASE ~Sound(k)
      <4>1. ~InStep'
        BY <3>1, <3>3, <1>7 DEF InStep
      <4>2. ~Torn
        <5> SUFFICES ASSUME Torn PROVE FALSE
          OBVIOUS
        <5>1. Size = pos + (file[k].to - 8) /\ n = p.len /\ file[k].to < 8 + p.len
          BY <3>3, <2>9
        <5>2. Size - pos >= p.len
          BY <5>1, <2>11
        <5>3. p.len \in Nat /\ file[k].to \in Nat /\ pos \in Nat
          BY <2>5, <1>2
        <5> QED
          BY <5>1, <5>2, <5>3
      <4>3. (\A j \in DOMAIN file : Sound(j) => j <= k - 1) /\ ~Sound(Len(file))
        BY <3>3, <2>3, <2>4, <1>2, FirstCut
      <4>4. \A j \in DOMAIN file : Sound(j) => j <= k
        BY <4>3, <2>1, <1>6
      <4>5. Passed'
        BY <3>1, <4>2, <4>3, <4>4, <1>7 DEF Passed
      <4> QED
        BY <3>3, <4>1, <4>5, <2>1, <2>11, <1>11, <1>13
    <3> QED
      BY <3>2, <3>3
  <2> QED
    BY <1>5, <2>10, <2>11
<1>15. CASE ~InStep
  <2>1. /\ \A k \in DOMAIN file : Sound(k) => k <= Len(out)
        /\ ~Sound(Len(file)) /\ ~Torn
    BY <1>2, <1>3, <1>15 DEF ReaderAt, Passed
  <2>2. CASE /\ Size - pos < n /\ out' = out /\ pos' = Size
             /\ ends' = Append(ends, IF Size = pos THEN "EOF" ELSE "malformed")
    <3>1. PICK e \in {"EOF", "malformed"} : e = IF Size = pos THEN "EOF" ELSE "malformed"
      OBVIOUS
    <3>2. ends' = Append(ends, e)
      BY <3>1, <2>2
    <3>3. ~InStep' /\ Passed'
      BY <3>2, <2>1, <2>2, <1>1, <1>5, <1>15, FailsAgain
    <3> QED
      BY <3>3, <2>2, <1>11, <1>12
  <2>3. CASE /\ Size - pos >= n /\ pos' = pos + n
             /\ out' = Append(out, got) /\ ends' = ends
    <3>1. Len(out') = Len(out) + 1
      BY <2>3, <1>2, <1>8
    <3>2. ~InStep'
      <4>1. SUFFICES ASSUME ends = << >>, Len(out) + 1 <= Len(file), Sound(Len(out) + 1)
                     PROVE  FALSE
        BY <3>1, <2>3, <1>7 DEF InStep
      <4>2. 1..Len(out) \subseteq 1..(Len(out) + 1) /\ Len(out) <= Len(file)
        BY <4>1, <1>2, <1>6
      <4>3. InStep
        BY <4>1, <4>2 DEF InStep, Sound
      <4> QED
        BY <4>3, <1>15
    <3>3. Passed'
      <4>1. \A k \in DOMAIN file : Sound(k) => k <= Len(out')
        BY <3>1, <2>1, <1>2, <1>6
      <4> QED
        BY <4>1, <2>1, <1>7 DEF Passed
    <3>4. ~(Len(out) + 1 <= Len(file) /\ Sound(Len(out) + 1))
      <4>1. SUFFICES ASSUME Len(out) + 1 <= Len(file), Sound(Len(out) + 1)
                     PROVE  FALSE
        OBVIOUS
      <4>2. Len(out) + 1 \in DOMAIN file
        BY <4>1, <1>2, <1>6
      <4> QED
        BY <4>1, <4>2, <2>1, <1>2
    <3> QED
      BY <3>2, <3>3, <3>4, <2>3, <1>11, <1>13
  <2> QED
    BY <1>5, <2>2, <2>3
<1> QED
  BY <1>14, <1>15

LEMMA StutterInv ==
  ASSUME Inv, UNCHANGED vars
  PROVE  Inv'
<1>1. UNCHANGED wvars /\ UNCHANGED <<readerMu, opened, pos, head, out, ends>>
  BY DEF vars, rvars
<1>2. TypeOK'
  BY <1>1, ReaderTypes DEF Inv, TypeOK
<1>3. /\ log' = log /\ file' = file /\ recording' = recording
      /\ Size' = Size /\ (Torn' <=> Torn)
      /\ \A k : Sound(k)' <=> Sound(k)
  BY <1>1, Unwritten
<1>4. InStep' <=> InStep
  BY <1>1, <1>3 DEF InStep
<1>5. AtRecord' <=> AtRecord
  BY <1>1, <1>3 DEF AtRecord, Header, Marshal, offsetMs
<1>6. Passed' <=> Passed
  BY <1>1, <1>3 DEF Passed
<1>7. ReaderAt'
  BY <1>1, <1>3, <1>4, <1>5, <1>6 DEF Inv, ReaderAt
<1> QED
  BY <1>1, <1>2, <1>7, ReaderStep DEF Inv, RecordsComeBack

-----------------------------------------------------------------------------
(* Whatever goroutines write and read, wherever a Write is cut and the     *)
(* recording stops: the bytes of the file are records one behind the       *)
(* other, one WritePacket at most is in progress, and Next is in step with *)
(* the records until it meets one that was cut.                            *)
THEOREM InvHolds == Spec => []Inv
<1>1. Init => Inv
  BY InitInv
<1>2. Inv /\ [Next]_vars => Inv'
  <2> SUFFICES ASSUME Inv, [Next]_vars PROVE Inv'
    OBVIOUS
  <2>1. CASE NewWriter
    BY <2>1, NewWriterInv
  <2>2. ASSUME NEW w \in Writers, NEW p \in Packets, WritePacket(w, p)
        PROVE  Inv'
    BY <2>2, WritePacketInv
  <2>3. ASSUME NEW w \in Writers, NEW ok \in BOOLEAN, FinishPacket(w, ok)
        PROVE  Inv'
    BY <2>3, FinishPacketInv
  <2>4. CASE Stop
    BY <2>4, StopInv
  <2>5. CASE NewReader
    BY <2>5, NewReaderInv
  <2>6. ASSUME NEW r \in Readers, NextHeader(r)
        PROVE  Inv'
    BY <2>6, NextHeaderInv
  <2>7. ASSUME NEW r \in Readers, NextFails(r)
        PROVE  Inv'
    BY <2>7, NextFailsInv
  <2>8. ASSUME NEW r \in Readers, NextPayload(r)
        PROVE  Inv'
    BY <2>8, NextPayloadInv
  <2>9. CASE UNCHANGED vars
    BY <2>9, StutterInv
  <2> QED
    BY <2>1, <2>2, <2>3, <2>4, <2>5, <2>6, <2>7, <2>8, <2>9 DEF Next, ReadStep
<1> QED
  BY <1>1, <1>2, PTL DEF Spec

(* Every packet Writer.WritePacket recorded without error is in the file,  *)
(* Packet.Unmarshal undoes Packet.Marshal of it, and Reader.Next returns   *)
(* the records one for one, in their order, up to the first that was cut.  *)
THEOREM RecordsHold == Spec => []RecordsComeBack
<1>1. Inv => RecordsComeBack
  BY DEF Inv
<1> QED
  BY <1>1, InvHolds, PTL

(* Reader.Next's first error comes behind all whole records, and it is     *)
(* io.EOF when there is nothing else and errMalformed when a record is     *)
(* torn.                                                                   *)
THEOREM EndHolds == Spec => []EndTellsTruth
<1>1. Inv => EndTellsTruth
  <2> SUFFICES ASSUME Inv, ends # << >> PROVE Passed
    BY DEF EndTellsTruth, Passed
  <2> QED
    BY DEF Inv, ReaderAt, InStep
<1> QED
  BY <1>1, InvHolds, PTL
=============================================================================
