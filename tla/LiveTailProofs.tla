--------------------------- MODULE LiveTailProofs ---------------------------
(* Proofs about LiveTail, for every set of files of any length, any limit  *)
(* on frames and any bytes at a wrong offset.                              *)
EXTENDS LiveTail, WellFoundedInduction, TLAPS

(* The least-number principle for a set, from which the inductions below   *)
(* are made.                                                               *)
LEMMA LeastNumber ==
  ASSUME NEW T, T \subseteq Nat, T # {}
  PROVE  \E x \in T : \A y \in T : x <= y
<1>1. IsWellFoundedOn(OpToRel(<, Nat), Nat)
  BY NatLessThanWellFounded
<1>2. PICK x \in T : \A y \in T : ~(<<y, x>> \in OpToRel(<, Nat))
  BY <1>1, WFMin
<1>3. \A y \in T : ~(y < x)
  BY <1>2 DEF OpToRel
<1> QED BY <1>3

-----------------------------------------------------------------------------
(* A record of a file: its parts and its length, which is not zero.        *)
LEMMA RecordOf ==
  ASSUME NEW f \in Files, NEW k \in 1..Len(f.recs)
  PROVE  /\ f.recs[k] \in Seq(Nat) /\ Len(f.recs[k]) \in 1..3
         /\ \A i \in 1..Len(f.recs[k]) : f.recs[k][i] \in Nat
         /\ f.format = "ogg" => Len(f.recs[k]) = 3 /\ f.recs[k][1] = 27
         /\ f.format = "ivf" => /\ k = 1 => f.recs[k] = <<32>>
                                /\ k # 1 => Len(f.recs[k]) = 2 /\ f.recs[k][1] = 12
         /\ Bytes(f.recs[k]) \in Nat /\ Bytes(f.recs[k]) > 0
         /\ f.end[k] \in Nat /\ f.end[k - 1] \in Nat
         /\ f.end[k] = f.end[k - 1] + Bytes(f.recs[k])
<1>1. IsFile(f)
  BY FilesAssumption
<1>2. f.recs[k] \in Seq(Nat) /\ k \in DOMAIN f.recs
  BY <1>1 DEF IsFile
<1>3. f.format \in {"ivf", "ogg"}
  BY <1>1 DEF IsFile
<1>4. /\ f.format = "ogg" => Len(f.recs[k]) = 3 /\ f.recs[k][1] = 27
      /\ f.format = "ivf" => /\ k = 1 => f.recs[k] = <<32>>
                             /\ k # 1 => Len(f.recs[k]) = 2 /\ f.recs[k][1] = 12
  BY <1>1, <1>2 DEF IsFile, pageHeaderLen, IvfFileHeader, ivfFileHeaderSize,
                    ivfFrameHeaderSize
<1>5. /\ Len(f.recs[k]) \in 1..3 /\ f.recs[k][1] > 0
      /\ \A i \in 1..Len(f.recs[k]) : f.recs[k][i] \in Nat
  <2> DEFINE r == f.recs[k]
  <2>1. Len(r) \in Nat /\ \A i \in 1..Len(r) : r[i] \in Nat
    BY <1>2
  <2>2. CASE r = <<32>>
    BY <2>2
  <2>3. CASE Len(r) \in 2..3 /\ r[1] \in {12, 27}
    BY <2>1, <2>3
  <2>4. r = <<32>> \/ (Len(r) \in 2..3 /\ r[1] \in {12, 27})
    BY <1>3, <1>4
  <2> QED BY <2>2, <2>3, <2>4
<1>6. Bytes(f.recs[k]) \in Nat /\ Bytes(f.recs[k]) > 0
  <2> DEFINE r == f.recs[k]
  <2>1. r[1] \in Nat /\ r[1] > 0 /\ Len(r) \in 1..3
    BY <1>5
  <2>2. /\ Len(r) >= 2 => r[2] \in Nat
        /\ Len(r) >= 3 => r[3] \in Nat
    BY <1>5
  <2>3. Part(r, 1) = r[1] /\ Part(r, 2) \in Nat /\ Part(r, 3) \in Nat
    BY <2>1, <2>2 DEF Part
  <2> QED BY <2>1, <2>3 DEF Bytes
<1>7. f.end[k] \in Nat /\ f.end[k - 1] \in Nat
  <2>1. Len(f.recs) \in Nat /\ f.end \in [0..Len(f.recs) -> Nat]
    BY <1>1 DEF IsFile
  <2> QED BY <2>1
<1>8. f.end[k] = f.end[k - 1] + Bytes(f.recs[k])
  BY <1>1, <1>2 DEF IsFile
<1> QED BY <1>2, <1>4, <1>5, <1>6, <1>7, <1>8

(* Records do not overlap.                                                 *)
LEMMA EndsGrow ==
  ASSUME NEW f \in Files,
         NEW j \in 0..Len(f.recs), NEW k \in 0..Len(f.recs), j < k
  PROVE  f.end[j] < f.end[k]
<1>l. Len(f.recs) \in Nat
  BY FilesAssumption DEF IsFile
<1> DEFINE T == {n \in Nat : n > j /\ n <= Len(f.recs) /\ ~(f.end[j] < f.end[n])}
<1>1. SUFFICES T = {}
  BY <1>l
<1>2. ASSUME T # {} PROVE FALSE
  <2>1. PICK n \in T : \A m \in T : n <= m
    BY <1>2, LeastNumber
  <2>2. n - 1 \notin T /\ n \in 1..Len(f.recs)
    BY <2>1, <1>l
  <2>3. f.end[n] = f.end[n - 1] + Bytes(f.recs[n]) /\ Bytes(f.recs[n]) > 0
        /\ f.end[n] \in Nat /\ f.end[n - 1] \in Nat /\ Bytes(f.recs[n]) \in Nat
    BY <2>2, RecordOf
  <2>4. CASE n - 1 = j
    BY <2>1, <2>3, <2>4
  <2>5. CASE n - 1 > j
    <3>1. f.end[j] < f.end[n - 1]
      BY <2>2, <2>5, <1>l
    <3>2. f.end[j] \in Nat
      BY FilesAssumption DEF IsFile
    <3> QED BY <3>1, <3>2, <2>1, <2>3, SMTT(30)
  <2> QED BY <2>1, <2>2, <2>4, <2>5
<1> QED BY <1>2

-----------------------------------------------------------------------------
(* A call that begins, with a header's worth of bytes there, is at the     *)
(* start of the next record and finds just that one: no call reads bytes   *)
(* at a wrong offset.                                                      *)
LEMMA HeaderFound ==
  ASSUME Inv, reader \in {"opening", "open"}, cur.part = 0,
         size - pos >= HeaderLen
  PROVE  LET n == Len(out) + 1
         IN /\ n \in 1..Len(file.recs)
            /\ file.recs[n][1] = HeaderLen
            /\ Found = {[id |-> n, rec |-> file.recs[n], part |-> 2,
                         seen |-> IF n = Len(file.recs) THEN seal ELSE "plain"]}
<1> DEFINE n == Len(out) + 1
<1>t. /\ file \in Files /\ Len(file.recs) \in Nat /\ Len(out) \in Nat
      /\ file.format \in {"ivf", "ogg"}
      /\ file.end \in [0..Len(file.recs) -> Nat]
      /\ size \in Nat /\ pos \in Nat
  BY FilesAssumption DEF Inv, TypeOK, IsFile
<1>1. HeaderLen \in Nat /\ HeaderLen > 0
  BY DEF HeaderLen, pageHeaderLen, ivfFileHeaderSize, ivfFrameHeaderSize
<1>2. pos = End(Len(out)) /\ size <= Total /\ Len(out) <= Len(file.recs)
  BY DEF Inv, TypeOK, ReaderAt
<1>3. n \in 1..Len(file.recs)
  <2>1. Len(out) # Len(file.recs)
    BY <1>t, <1>1, <1>2 DEF Total, End
  <2> QED BY <2>1, <1>t, <1>2
<1>4. file.recs[n][1] = HeaderLen
  <2>1. CASE file.format = "ogg"
    BY <2>1, <1>3, <1>t, RecordOf DEF HeaderLen, pageHeaderLen
  <2>2. CASE file.format = "ivf" /\ reader = "opening"
    <3>1. n = 1
      BY <2>2 DEF Inv, ReaderAt
    <3> QED BY <2>2, <3>1, <1>3, <1>t, RecordOf DEF HeaderLen, ivfFileHeaderSize
  <2>3. CASE file.format = "ivf" /\ reader = "open"
    <3>1. n # 1
      BY <2>3 DEF Inv, ReaderAt
    <3> QED BY <2>3, <3>1, <1>3, <1>t, RecordOf DEF HeaderLen, ivfFrameHeaderSize
  <2> QED BY <2>1, <2>2, <2>3, <1>t
<1>5. {k \in DOMAIN file.recs : End(k - 1) = pos} = {n}
  <2>1. DOMAIN file.recs = 1..Len(file.recs)
    BY FilesAssumption, <1>t DEF IsFile
  <2>2. End(n - 1) = pos
    BY <1>2, <1>t
  <2>3. ASSUME NEW k \in 1..Len(file.recs), End(k - 1) = pos PROVE k = n
    <3>1. CASE k < n
      <4>1. k - 1 \in 0..Len(file.recs) /\ n - 1 \in 0..Len(file.recs)
            /\ k - 1 < n - 1
        BY <3>1, <1>3, <1>t
      <4>2. file.end[k - 1] < file.end[n - 1]
        BY <4>1, <1>t, EndsGrow
      <4> QED BY <4>1, <4>2, <2>3, <2>2, <1>t DEF End
    <3>2. CASE k > n
      <4>1. n - 1 \in 0..Len(file.recs) /\ k - 1 \in 0..Len(file.recs)
            /\ n - 1 < k - 1
        BY <3>2, <1>3, <1>t
      <4>2. file.end[n - 1] < file.end[k - 1]
        BY <4>1, <1>t, EndsGrow
      <4> QED BY <4>1, <4>2, <2>3, <2>2, <1>t DEF End
    <3> QED BY <3>1, <3>2, <1>3
  <2> QED BY <2>1, <2>2, <2>3, <1>3
<1> QED BY <1>3, <1>4, <1>5 DEF Found

(* A call that gives up leaves good and out alone.                         *)
LEMMA FailKeeps ==
  ASSUME Inv, NEW e, Fail(e), reader \in {"opening", "open"},
         pos' \in Nat, pos <= pos', pos' <= size,
         UNCHANGED <<file, options, wvars>>
  PROVE  Inv'
<1>1. /\ UNCHANGED <<file, options, size, seal, writer, good, out>>
      /\ cur' = Idle /\ reader' = (IF reader = "opening" THEN "none" ELSE "failed")
  BY DEF Fail, wvars
<1>2. TypeOK'
  BY <1>1 DEF Inv, TypeOK, Idle, Seals, Total, End
<1>3. ReaderAt'
  BY <1>1 DEF Inv, TypeOK, ReaderAt, Idle, End
<1>4. WholeRecordsInOrder'
  BY <1>1 DEF Inv, WholeRecordsInOrder, End
<1> QED BY <1>2, <1>3, <1>4 DEF Inv

(* A record read to its end: it is given out, or refused.                  *)
LEMMA FinishKeeps ==
  ASSUME Inv, NEW c, Finish(c), reader \in {"opening", "open"},
         Len(out) < Len(file.recs),
         c.id = Len(out) + 1, c.rec = file.recs[Len(out) + 1],
         c.seen \in Seals, file.format = "ivf" => c.seen = "plain",
         pos' = End(Len(out) + 1), pos <= pos', pos' <= size,
         UNCHANGED <<file, options, wvars>>
  PROVE  Inv'
<1> DEFINE n == Len(out) + 1
<1>t. /\ file \in Files /\ Len(file.recs) \in Nat /\ Len(out) \in Nat
      /\ file.format \in {"ivf", "ogg"}
      /\ file.end \in [0..Len(file.recs) -> Nat]
      /\ n \in 1..Len(file.recs)
  BY FilesAssumption DEF Inv, TypeOK, IsFile
<1>p. pos' \in Nat
  BY <1>t DEF End
<1>1. CASE ~ChecksumOK(c) \/ Refused
  <2>1. PICK e : Fail(e)
    BY <1>1 DEF Finish
  <2> QED BY <2>1, <1>p, FailKeeps
<1>2. CASE ChecksumOK(c) /\ ~Refused
  <2>1. /\ good' = good + Bytes(c.rec)
        /\ out' = Append(out, [id |-> c.id, seen |-> c.seen])
        /\ reader' = "open" /\ cur' = Idle
        /\ UNCHANGED <<file, options, size, seal, writer>>
    BY <1>2 DEF Finish, Advance, wvars
  <2>2. good' = End(n) /\ good' \in Nat
    <3>1. good = End(n - 1)
      BY <1>t DEF Inv, ReaderAt
    <3>2. End(n) = End(n - 1) + Bytes(file.recs[n])
      BY <1>t, RecordOf DEF End
    <3> QED BY <3>1, <3>2, <2>1, <1>t DEF End
  <2>3. /\ out' \in Seq([id : Nat, seen : Seals]) /\ Len(out') = n
        /\ \A k \in 1..Len(out) : out'[k] = out[k]
        /\ out'[n] = [id |-> n, seen |-> c.seen]
    BY <2>1, <1>t DEF Inv, TypeOK
  <2>4. TypeOK'
    BY <2>1, <2>2, <2>3, <1>p DEF Inv, TypeOK, Idle, Seals, Total, End
  <2>5. ReaderAt'
    BY <2>1, <2>2, <2>3, <1>t DEF Inv, TypeOK, ReaderAt, Idle, End
  <2>6. options.doChecksum => c.seen # "torn"
    BY <1>2, <1>t DEF ChecksumOK
  <2>7. WholeRecordsInOrder'
    <3>1. ASSUME NEW k \in DOMAIN out'
          PROVE  out'[k].id = k /\ (options'.doChecksum => out'[k].seen # "torn")
      <4>1. CASE k = n
        BY <4>1, <2>1, <2>3, <2>6
      <4>2. CASE k # n
        <5>1. k \in 1..Len(out) /\ k \in DOMAIN out
          BY <4>2, <2>3, <1>t DEF Inv, TypeOK
        <5> QED BY <5>1, <2>1, <2>3 DEF Inv, WholeRecordsInOrder
      <4> QED BY <4>1, <4>2
    <3> QED BY <3>1, <2>1, <2>2, <2>3 DEF WholeRecordsInOrder, End
  <2> QED BY <2>4, <2>5, <2>7 DEF Inv
<1> QED BY <1>1, <1>2

-----------------------------------------------------------------------------
(* Steps of the reader that only open or reopen it.                        *)
LEMMA OpenKeeps ==
  ASSUME Inv, NewIVFReader \/ NewOggReader \/ ResetReader,
         UNCHANGED <<file, options, wvars>>
  PROVE  Inv'
<1>t. /\ file \in Files /\ Len(file.recs) \in Nat /\ End(0) = 0
      /\ UNCHANGED <<file, options, size, seal, writer>>
  BY FilesAssumption DEF Inv, TypeOK, IsFile, End, wvars
<1>1. CASE NewIVFReader \/ NewOggReader
  <2>1. /\ reader = "none" /\ reader' \in {"opening", "open"}
        /\ file.format = "ivf" => reader' = "opening"
        /\ pos' = 0 /\ good' = 0 /\ cur' = Idle /\ out' = out
    BY <1>1 DEF NewIVFReader, NewOggReader, New
  <2>2. out = << >>
    BY <2>1 DEF Inv, ReaderAt, TypeOK
  <2>3. TypeOK'
    BY <2>1, <1>t DEF Inv, TypeOK, Idle, Seals, Total, End
  <2>4. ReaderAt'
    BY <2>1, <2>2, <1>t DEF Inv, TypeOK, ReaderAt, Idle, End
  <2>5. WholeRecordsInOrder'
    BY <2>1, <2>2 DEF WholeRecordsInOrder
  <2> QED BY <2>3, <2>4, <2>5 DEF Inv
<1>2. CASE ResetReader
  <2>1. /\ reader = "failed" /\ reader' = "open" /\ pos' = good
        /\ UNCHANGED <<good, cur, out>>
    BY <1>2 DEF ResetReader
  <2>3. TypeOK'
    BY <2>1, <1>t DEF Inv, TypeOK, Total, End
  <2>4. ReaderAt'
    BY <2>1, <1>t DEF Inv, TypeOK, ReaderAt, End
  <2>5. WholeRecordsInOrder'
    BY <2>1, <1>t DEF Inv, WholeRecordsInOrder, End
  <2> QED BY <2>3, <2>4, <2>5 DEF Inv
<1> QED BY <1>1, <1>2

(* Steps of the writer.                                                    *)
LEMMA WriteKeeps ==
  ASSUME Inv, Write
  PROVE  Inv'
<1>1. /\ UNCHANGED <<file, options, reader, pos, good, cur, out, err>>
      /\ size' \in Nat /\ size <= size' /\ size' <= Total
      /\ seal' \in Seals
      /\ file.format = "ivf" => seal' = seal /\ writer' # "sealing"
  <2>1. /\ size \in Nat /\ size <= Total /\ Total \in Nat /\ seal \in Seals
        /\ file.format = "ivf" => writer # "sealing"
    <3>1. /\ Len(file.recs) \in Nat
          /\ file.end \in [0..Len(file.recs) -> Nat]
      BY FilesAssumption DEF Inv, TypeOK, IsFile
    <3>2. Total \in Nat
      BY <3>1 DEF Total, End
    <3> QED BY <3>2 DEF Inv, TypeOK, ReaderAt
  <2>2. UNCHANGED <<file, options, reader, pos, good, cur, out, err>>
    BY DEF Write, rvars
  <2>3. CASE Grow
    BY <2>1, <2>2, <2>3 DEF Grow
  <2>4. CASE BeginSeal \/ EndSeal \/ Stop
    BY <2>1, <2>2, <2>4 DEF BeginSeal, EndSeal, Stop, Seals
  <2> QED BY <2>3, <2>4 DEF Write
<1>3. TypeOK'
  BY <1>1 DEF Inv, TypeOK, Total, End
<1>4. ReaderAt'
  BY <1>1 DEF Inv, TypeOK, ReaderAt, End
<1>5. WholeRecordsInOrder'
  BY <1>1 DEF Inv, WholeRecordsInOrder, End
<1> QED BY <1>3, <1>4, <1>5 DEF Inv

(* A call of ReadFull for a header.                                        *)
LEMMA ReadHeaderKeeps ==
  ASSUME Inv, ReadHeader, UNCHANGED <<file, options, wvars>>
  PROVE  Inv'
<1> DEFINE n == Len(out) + 1
<1>t. /\ file \in Files /\ Len(out) \in Nat /\ size \in Nat /\ pos \in Nat
      /\ seal \in Seals /\ pos <= size /\ pos = End(Len(out))
      /\ reader \in {"opening", "open"} /\ cur.part = 0
      /\ file.format \in {"ivf", "ogg"}
      /\ UNCHANGED <<file, options, size, seal, writer>>
  BY FilesAssumption DEF Inv, TypeOK, ReaderAt, ReadHeader, IsFile, wvars
<1>1. CASE FailShort
  <2>1. /\ pos' = size
        /\ Fail(IF size = pos THEN "EOF" ELSE "incomplete")
    BY <1>1 DEF FailShort
  <2> QED BY <2>1, <1>t, FailKeeps
<1>2. CASE size - pos >= HeaderLen /\ ~FailShort
  <2> DEFINE c == [id |-> n, rec |-> file.recs[n], part |-> 2,
                   seen |-> IF n = Len(file.recs) THEN seal ELSE "plain"]
  <2>1. /\ n \in 1..Len(file.recs) /\ file.recs[n][1] = HeaderLen
        /\ Found = {c}
    BY <1>2, <1>t, HeaderFound
  <2>2. /\ pos' = pos + HeaderLen
        /\ CASE TooLarge(c)     -> Fail("tooLarge")
             [] Len(c.rec) = 1  -> Finish(c)
             [] OTHER           -> /\ cur' = c
                                   /\ UNCHANGED <<reader, good, out, err>>
    BY <1>2, <2>1 DEF ReadHeader
  <2> HIDE DEF c
  <2>3. /\ c.id = n /\ c.rec = file.recs[n] /\ c.part = 2 /\ c.seen \in Seals
        /\ file.format = "ivf" => c.seen = "plain"
        /\ c \in [id : Nat, rec : Seq(Nat), part : 0..3, seen : Seals]
    <3>1. file.recs[n] \in Seq(Nat)
      BY <2>1, <1>t, RecordOf
    <3> QED BY <3>1, <1>t DEF c, Seals, Inv, ReaderAt
  <2>4. /\ HeaderLen \in Nat /\ pos' \in Nat /\ pos <= pos' /\ pos' <= size
    BY <2>2, <1>2, <1>t DEF HeaderLen, pageHeaderLen, ivfFileHeaderSize,
                            ivfFrameHeaderSize
  <2>r. /\ file.recs[n] \in Seq(Nat) /\ Len(file.recs[n]) \in 1..3
        /\ file.end[n] = file.end[n - 1] + Bytes(file.recs[n])
    BY <2>1, <1>t, RecordOf
  <2>5. CASE TooLarge(c)
    <3>1. Len(c.rec) # 1
      BY <2>5 DEF TooLarge
    <3>2. Fail("tooLarge")
      BY <2>2, <2>5, <3>1
    <3> QED BY <3>2, <2>4, <1>t, FailKeeps
  <2>6. CASE ~TooLarge(c) /\ Len(c.rec) = 1
    <3>1. Finish(c)
      BY <2>2, <2>6
    <3>2. Bytes(file.recs[n]) = HeaderLen
      BY <2>6, <2>1, <2>3, <2>4 DEF Bytes, Part
    <3>3. pos' = End(n)
      BY <3>2, <2>2, <2>r, <1>t DEF End
    <3>4. Len(out) < Len(file.recs)
      BY <2>1, <1>t
    <3> QED BY <3>1, <3>3, <3>4, <2>3, <2>4, <1>t, FinishKeeps
  <2>7. CASE ~TooLarge(c) /\ Len(c.rec) # 1
    <3>1. cur' = c /\ UNCHANGED <<reader, good, out, err>>
      BY <2>2, <2>7
    <3>2. TypeOK'
      BY <3>1, <2>3, <2>4, <1>t DEF Inv, TypeOK, Total, End
    <3>3. ReaderAt'
      <4>1. pos' = good + file.recs[n][1]
        BY <2>1, <2>2, <1>t DEF Inv, ReaderAt
      <4>2. 2 <= Len(file.recs[n])
        <5> DEFINE l == Len(file.recs[n])
        <5>1. l \in 1..3 /\ l # 1
          BY <2>7, <2>3, <2>r
        <5> HIDE DEF l
        <5>2. 2 <= l
          BY <5>1
        <5> QED BY <5>2 DEF l
      <4>3. /\ cur'.part = 2 /\ cur'.id = n /\ cur'.rec = file.recs[n]
            /\ file.format = "ivf" => cur'.seen = "plain"
        BY <3>1, <2>3
      <4>4. n - 1 < Len(file.recs)
        BY <2>1
      <4> HIDE DEF n
      <4>5. Len(out) + 1 = n /\ Len(out) < Len(file.recs)
        BY <4>4 DEF n
      <4>6. /\ Len(out') = Len(out) /\ End(Len(out))' = End(Len(out))
            /\ reader' = reader /\ good' = good
        BY <3>1, <1>t DEF End
      <4> QED BY <4>1, <4>3, <4>2, <4>5, <4>6, <2>4, <1>t DEF Inv, ReaderAt
    <3>4. WholeRecordsInOrder'
      BY <3>1, <1>t DEF Inv, WholeRecordsInOrder, End
    <3> QED BY <3>2, <3>3, <3>4 DEF Inv
  <2> QED BY <2>5, <2>6, <2>7
<1> QED BY <1>1, <1>2 DEF ReadHeader

(* A call of ReadFull for the rest of a record.                            *)
LEMMA ReadRestKeeps ==
  ASSUME Inv, ReadRest, UNCHANGED <<file, options, wvars>>
  PROVE  Inv'
<1> DEFINE n == Len(out) + 1
           r == cur.rec
           p == cur.part
           l == Len(r)
<1>u. UNCHANGED <<file, options, size, seal, writer>>
  BY DEF wvars
<1>t. /\ file \in Files /\ Len(file.recs) \in Nat /\ Len(out) \in Nat
      /\ size \in Nat /\ pos \in Nat /\ good \in Nat
      /\ pos <= size /\ good = End(Len(out))
  BY FilesAssumption DEF Inv, TypeOK, ReaderAt, IsFile
<1>c. /\ p \in {2, 3} /\ p <= l /\ n <= Len(file.recs)
      /\ cur.id = n /\ r = file.recs[n] /\ cur.seen \in Seals
      /\ file.format = "ivf" => cur.seen = "plain"
      /\ reader \in {"opening", "open"}
  <2>1. cur.part \in 0..3 /\ cur.part > 0
    BY DEF Inv, TypeOK, ReadRest
  <2> QED BY <2>1, SMTT(30) DEF Inv, TypeOK, ReaderAt
<1>p. pos = good + r[1] + (IF p = 3 THEN r[2] ELSE 0)
  BY <1>c DEF Inv, ReaderAt
<1>m. n \in 1..Len(file.recs) /\ n - 1 = Len(out)
  BY <1>t, <1>c
<1>r. /\ l \in 2..3 /\ r[1] \in Nat /\ r[2] \in Nat
      /\ l > 2 => r[3] \in Nat
      /\ End(n) = good + Bytes(r)
  <2>1. /\ Len(file.recs[n]) \in 1..3
        /\ \A i \in 1..Len(file.recs[n]) : file.recs[n][i] \in Nat
        /\ file.end[n] = file.end[n - 1] + Bytes(file.recs[n])
    BY <1>m, <1>t, RecordOf
  <2>2. l \in 2..3
    BY <2>1, <1>c
  <2>3. \A i \in 1..Len(r) : r[i] \in Nat
    BY <2>1, <1>c
  <2>4. End(n) = good + Bytes(r)
    BY <2>1, <1>c, <1>m, <1>t DEF End
  <2> QED BY <2>2, <2>3, <2>4
<1>1. CASE FailShort
  <2>1. /\ pos' = size
        /\ Fail(IF size = pos THEN "EOF" ELSE "incomplete")
    BY <1>1 DEF FailShort
  <2> QED BY <2>1, <1>t, <1>c, FailKeeps
<1>2. CASE ~FailShort
  <2>1. /\ size - pos >= r[p] /\ pos' = pos + r[p]
        /\ IF p < l
           THEN /\ cur' = [cur EXCEPT !.part = @ + 1]
                /\ UNCHANGED <<reader, good, out, err>>
           ELSE Finish(cur)
    BY <1>2 DEF ReadRest, Enough
  <2> HIDE DEF n, r, p, l
  <2>2. /\ p = 2 => r[p] = r[2]
        /\ p = 3 => r[p] = r[3] /\ l > 2
    BY <1>c, <1>r
  <2>3. r[p] \in Nat
    BY <2>2, <1>c, <1>r
  <2>4. pos' \in Nat /\ pos <= pos' /\ pos' <= size
    BY <2>1, <2>3, <1>t
  <2>5. CASE p < l
    <3>1. p = 2 /\ l > 2
      BY <2>5, <1>c, <1>r
    <3>2. UNCHANGED <<reader, good, out, err>> /\ cur' = [cur EXCEPT !.part = 3]
      BY <2>1, <2>5, <3>1 DEF p
    <3>3. /\ cur'.id = cur.id /\ cur'.rec = r /\ cur'.seen = cur.seen
          /\ cur'.part = 3
          /\ cur' \in [id : Nat, rec : Seq(Nat), part : 0..3, seen : Seals]
      <4>1. cur \in [id : Nat, rec : Seq(Nat), part : 0..3, seen : Seals]
        BY DEF Inv, TypeOK
      <4> QED BY <4>1, <3>2 DEF r
    <3>4. TypeOK'
      BY <3>2, <3>3, <2>4, <1>u DEF Inv, TypeOK, Total, End
    <3>5. pos' = good + r[1] + r[2]
      BY <3>1, <2>1, <2>2, <1>p, <1>r, <1>t
    <3>6. Len(out) < Len(file.recs) /\ Len(out) + 1 = n
      BY <1>m, <1>t DEF n
    <3>7. ReaderAt'
      <4>1. /\ Len(out') = Len(out) /\ End(Len(out))' = End(Len(out))
            /\ reader' = reader /\ good' = good
        BY <3>2, <1>u DEF End
      <4>2. n \in DOMAIN file.recs
        BY <1>m, <1>t
      <4>3. 3 <= Len(r)
        BY <3>1, <1>r DEF l
      <4> QED BY <4>1, <4>2, <4>3, <3>1, <3>3, <3>5, <3>6, <2>4, <1>c, <1>u, <1>t, SMTT(30)
              DEF Inv, ReaderAt
    <3>8. WholeRecordsInOrder'
      BY <3>2, <1>u DEF Inv, WholeRecordsInOrder, End
    <3> QED BY <3>4, <3>7, <3>8 DEF Inv
  <2>6. CASE p = l
    <3>1. Finish(cur)
      BY <2>1, <2>6, <1>r
    <3>2. pos' = End(n)
      <4>1. Bytes(r) = r[1] + r[2] + (IF l > 2 THEN r[3] ELSE 0)
        BY <1>r DEF Bytes, Part, l
      <4>2. CASE p = 2
        BY <4>1, <4>2, <2>1, <2>2, <2>6, <1>p, <1>t, <1>r, SMTT(30)
      <4>3. CASE p = 3
        BY <4>1, <4>3, <2>1, <2>2, <2>6, <1>p, <1>t, <1>r, SMTT(30)
      <4> QED BY <4>2, <4>3, <1>c
    <3>3. Len(out) < Len(file.recs) /\ Len(out) + 1 = n
      BY <1>m, <1>t DEF n
    <3>4. cur.rec = file.recs[n]
      BY <1>c DEF r
    <3> QED BY <3>1, <3>2, <3>3, <3>4, <2>4, <1>c, <1>u, FinishKeeps
  <2> QED BY <2>5, <2>6, <1>c, <1>r
<1> QED BY <1>1, <1>2

-----------------------------------------------------------------------------
LEMMA InitInv == Init => Inv
<1> SUFFICES ASSUME Init PROVE Inv
  OBVIOUS
<1>1. file \in Files /\ IsFile(file)
  BY FilesAssumption DEF Init
<1>2. /\ Len(file.recs) \in Nat /\ file.end \in [0..Len(file.recs) -> Nat]
      /\ file.end[0] = 0
  BY <1>1 DEF IsFile
<1>3. Total \in Nat
  BY <1>2 DEF Total, End
<1>4. TypeOK
  BY <1>1, <1>3 DEF Init, TypeOK, Idle, Seals
<1>5. ReaderAt
  BY <1>2 DEF Init, ReaderAt, Idle, End
<1>6. WholeRecordsInOrder
  BY DEF Init, WholeRecordsInOrder
<1> QED BY <1>4, <1>5, <1>6 DEF Inv

LEMMA NextInv == Inv /\ [Next]_vars => Inv'
<1> SUFFICES ASSUME Inv, [Next]_vars PROVE Inv'
  OBVIOUS
<1>1. CASE Write
  BY <1>1, WriteKeeps
<1>2. CASE Read
  <2>1. UNCHANGED <<file, options, wvars>>
    BY <1>2 DEF Read
  <2>2. CASE NewIVFReader \/ NewOggReader \/ ResetReader
    BY <2>1, <2>2, OpenKeeps
  <2>3. CASE ReadHeader
    BY <2>1, <2>3, ReadHeaderKeeps
  <2>4. CASE ReadRest
    BY <2>1, <2>4, ReadRestKeeps
  <2> QED BY <1>2, <2>2, <2>3, <2>4 DEF Read
<1>3. CASE UNCHANGED vars
  BY <1>3 DEF vars, wvars, rvars, Inv, TypeOK, ReaderAt, WholeRecordsInOrder,
              Total, End
<1> QED BY <1>1, <1>2, <1>3 DEF Next

(* Readers of a growing file give out its records from the start, each     *)
(* once, whole and in order, whatever they met in between, and ResetReader *)
(* hands out the end of the last of them (ivfreader, oggreader).           *)
THEOREM RecordsHold == Spec => []WholeRecordsInOrder
<1>1. Inv => WholeRecordsInOrder
  BY DEF Inv
<1> QED BY <1>1, InitInv, NextInv, PTL DEF Spec

(* A reader has given out all that is there when the next record, if there *)
(* is one, is not there as a whole.                                        *)
LEMMA CaughtUp ==
  ASSUME Inv, Len(out) < Len(file.recs) => End(Len(out) + 1) > size
  PROVE  Len(out) = Complete
<1> DEFINE n == Len(out)
           m == Len(file.recs)
           S == {j \in 0..m : End(j) <= size}
<1>t. /\ file \in Files /\ m \in Nat /\ n \in Nat /\ size \in Nat
      /\ file.end \in [0..m -> Nat]
  BY FilesAssumption DEF Inv, TypeOK, IsFile
<1>g. n <= m /\ good = End(n) /\ good <= pos /\ pos <= size
  BY DEF Inv, ReaderAt
<1>i. good \in Nat /\ pos \in Nat
  BY DEF Inv, TypeOK
<1>h. n < m => End(n + 1) > size
  OBVIOUS
<1>e. S = {j \in 0..Len(file.recs) : End(j) <= size}
  OBVIOUS
<1> HIDE DEF n, m
<1>1. n \in S
  BY <1>t, <1>g, <1>i
<1>2. ASSUME NEW j \in S PROVE j <= n
  <2>1. SUFFICES ASSUME j > n PROVE FALSE
    BY <1>t
  <2>2. n < m /\ n + 1 \in 0..m /\ j \in 0..m /\ file.end[j] <= size
    BY <2>1, <1>t DEF End
  <2>3. file.end[n + 1] > size
    BY <2>2, <1>h DEF End
  <2>4. CASE j = n + 1
    BY <2>2, <2>3, <2>4, <1>t
  <2>5. CASE j > n + 1
    <3>1. file.end[n + 1] < file.end[j]
      BY <2>5, <2>2, <1>t, EndsGrow DEF m
    <3>2. file.end[n + 1] \in Nat /\ file.end[j] \in Nat
      BY <2>2, <1>t
    <3> QED BY <3>1, <3>2, <2>2, <2>3, <1>t
  <2> QED BY <2>1, <2>4, <2>5, <1>t
<1>3. Max(S) = n
  <2>1. S \subseteq Int
    BY <1>t
  <2> HIDE DEF S
  <2>2. \A x \in S : (\A y \in S : x >= y) => x = n
    BY <1>1, <1>2, <2>1
  <2>3. \E x \in S : \A y \in S : x >= y
    BY <1>1, <1>2, <2>1
  <2> QED BY <2>2, <2>3 DEF Max
<1> QED BY <1>3, <1>e DEF Complete, n

(* The next record begins with what the next call asks for first.          *)
LEMMA HeaderAhead ==
  ASSUME Inv, reader \in {"opening", "open"}, Len(out) < Len(file.recs)
  PROVE  file.recs[Len(out) + 1][1] = HeaderLen /\ HeaderLen \in Nat
<1> DEFINE n == Len(out) + 1
<1>t. /\ file \in Files /\ file.format \in {"ivf", "ogg"}
      /\ Len(out) \in Nat /\ Len(file.recs) \in Nat
  BY FilesAssumption DEF Inv, TypeOK, IsFile
<1>1. n \in 1..Len(file.recs)
  BY <1>t
<1>2. HeaderLen \in Nat
  BY DEF HeaderLen, pageHeaderLen, ivfFileHeaderSize, ivfFrameHeaderSize
<1>3. CASE file.format = "ogg"
  BY <1>3, <1>1, <1>2, <1>t, RecordOf DEF HeaderLen, pageHeaderLen
<1>4. CASE file.format = "ivf" /\ reader = "opening"
  <2>1. n = 1
    BY <1>4 DEF Inv, ReaderAt
  <2> QED BY <1>4, <2>1, <1>1, <1>2, <1>t, RecordOf
          DEF HeaderLen, ivfFileHeaderSize
<1>5. CASE file.format = "ivf" /\ reader = "open"
  <2>1. n # 1
    BY <1>5 DEF Inv, ReaderAt
  <2> QED BY <1>5, <2>1, <1>1, <1>2, <1>t, RecordOf
          DEF HeaderLen, ivfFrameHeaderSize
<1> QED BY <1>3, <1>4, <1>5, <1>t

(* The next record of the file: where it ends, and its parts.              *)
LEMMA RecordAhead ==
  ASSUME Inv, Len(out) < Len(file.recs), NEW r, r = file.recs[Len(out) + 1]
  PROVE  /\ End(Len(out) + 1) = good + Bytes(r) /\ good \in Nat
         /\ Part(r, 1) = r[1] /\ r[1] \in Nat
         /\ \A i \in 2..3 : /\ Part(r, i) \in Nat
                            /\ i <= Len(r) => Part(r, i) = r[i]
<1> DEFINE n == Len(out) + 1
<1>t. /\ file \in Files /\ Len(out) \in Nat /\ Len(file.recs) \in Nat
      /\ good = End(Len(out)) /\ good \in Nat
  BY FilesAssumption DEF Inv, TypeOK, ReaderAt, IsFile
<1>1. n \in 1..Len(file.recs) /\ n - 1 = Len(out)
  BY <1>t
<1>2. /\ Len(file.recs[n]) \in 1..3
      /\ \A i \in 1..Len(file.recs[n]) : file.recs[n][i] \in Nat
      /\ file.end[n] = file.end[n - 1] + Bytes(file.recs[n])
  BY <1>1, <1>t, RecordOf
<1>3. End(n) = good + Bytes(r)
  BY <1>1, <1>2, <1>t DEF End
<1>4. /\ Len(r) \in 1..3
      /\ \A i \in 1..Len(r) : r[i] \in Nat
  BY <1>2
<1>5. Part(r, 1) = r[1] /\ r[1] \in Nat
  BY <1>4 DEF Part
<1>6. \A i \in 2..3 : /\ Part(r, i) \in Nat
                      /\ i <= Len(r) => Part(r, i) = r[i]
  BY <1>4 DEF Part
<1> QED BY <1>3, <1>5, <1>6, <1>t

(* A call that finds too few bytes is in, or before, a record that is not  *)
(* there as a whole.                                                       *)
LEMMA ShortMeansCut ==
  ASSUME Inv, reader \in {"opening", "open"}, Len(out) < Len(file.recs),
         \/ cur.part = 0 /\ size - pos < HeaderLen
         \/ cur.part > 0 /\ ~Enough(cur.rec[cur.part])
  PROVE  End(Len(out) + 1) > size
<1> DEFINE r == file.recs[Len(out) + 1]
           e == End(Len(out) + 1)
<1>1. /\ e = good + Bytes(r) /\ good \in Nat
      /\ Part(r, 1) = r[1] /\ r[1] \in Nat
      /\ Part(r, 2) \in Nat /\ Part(r, 3) \in Nat
      /\ 2 <= Len(r) => Part(r, 2) = r[2]
      /\ 3 <= Len(r) => Part(r, 3) = r[3]
  BY RecordAhead, SMTT(30)
<1>2. size \in Nat /\ pos \in Nat /\ cur.part \in 0..3
  BY DEF Inv, TypeOK
<1>3. r[1] = HeaderLen
  BY HeaderAhead
<1>4. cur.part = 0 => pos = good
  BY DEF Inv, ReaderAt
<1>5. cur.part > 0 =>
        /\ cur.rec = r /\ 2 <= cur.part /\ cur.part <= Len(cur.rec)
        /\ pos = good + r[1] + (IF cur.part = 3 THEN r[2] ELSE 0)
  BY DEF Inv, ReaderAt
<1>b. e = good + (r[1] + Part(r, 2) + Part(r, 3))
  BY <1>1 DEF Bytes
<1>l. Len(r) \in Nat
  <2>1. file \in Files /\ Len(out) \in Nat /\ Len(file.recs) \in Nat
    BY FilesAssumption DEF Inv, TypeOK, IsFile
  <2>2. Len(out) + 1 \in 1..Len(file.recs)
    BY <2>1
  <2> QED BY <2>1, <2>2, RecordOf
<1> DEFINE l == Len(r)
<1>n. /\ cur.part = 0 => size - pos < r[1]
      /\ cur.part > 0 => size - pos < r[cur.part]
  <2>1. cur.part = 0 => size - pos < r[1]
    BY <1>3
  <2>2. cur.part > 0 => ~Enough(r[cur.part])
    BY <1>5
  <2>3. cur.part > 0 => r[cur.part] \in Nat
    <3>1. SUFFICES ASSUME cur.part > 0 PROVE r[cur.part] \in Nat
      OBVIOUS
    <3>2. cur.part = 2 \/ cur.part = 3
      BY <3>1, <1>2, <1>5
    <3> QED BY <3>1, <3>2, <1>1, <1>5, <1>l
  <2> QED BY <2>1, <2>2, <2>3, <1>2 DEF Enough
<1>6. e > size
  <2>c. /\ cur.part = 2 => 2 <= l /\ pos = good + r[1]
        /\ cur.part = 3 => 3 <= l /\ pos = good + r[1] + r[2]
    <3>1. /\ cur.part = 2 => 2 <= l /\ pos = good + r[1] + 0
          /\ cur.part = 3 => 3 <= l /\ pos = good + r[1] + r[2]
      BY <1>5
    <3> QED BY <3>1, <1>1
  <2>t. /\ good \in Nat /\ r[1] \in Nat /\ Part(r, 2) \in Nat
        /\ Part(r, 3) \in Nat
    BY <1>1
  <2>a. \A g, a, b, c, x, s \in Nat :
          s - x < c /\ x = g + a + b => g + (a + b + c) > s
    OBVIOUS
  <2>p. /\ 2 <= l => Part(r, 2) = r[2]
        /\ 3 <= l => Part(r, 3) = r[3] /\ 2 <= l
    BY <1>1, <1>l
  <2> HIDE DEF r, e, l
  <2>1. CASE cur.part = 0
    BY <2>1, <1>n, <1>1, <1>2, <1>4, <1>b
  <2>2. CASE cur.part = 2
    <3>1. size - pos < Part(r, 2) /\ pos = good + r[1]
      BY <2>2, <2>c, <2>p, <1>n
    <3> QED BY <3>1, <2>t, <1>2, <1>b, SMTT(30)
  <2>3. CASE cur.part = 3
    <3>1. size - pos < Part(r, 3) /\ pos = good + r[1] + Part(r, 2)
      BY <2>3, <2>c, <2>p, <1>n
    <3>2. good + (r[1] + Part(r, 2) + Part(r, 3)) > size
      BY <3>1, <2>t, <2>a, <1>2
    <3> QED BY <3>2, <1>b
  <2>4. cur.part # 1
    BY <1>5, <1>2
  <2> QED BY <2>1, <2>2, <2>3, <2>4, <1>2
<1> QED BY <1>6

(* Only a ReadFull that gets too little reports the end.                   *)
LEMMA EndIsShort ==
  ASSUME Inv, [Next]_vars, reader \in {"opening", "open"},
         reader' \in {"none", "failed"}, err' \in {"EOF", "incomplete"}
  PROVE  \/ cur.part = 0 /\ size - pos < HeaderLen
         \/ cur.part > 0 /\ ~Enough(cur.rec[cur.part])
<1>1. ReadHeader \/ ReadRest
  <2>1. CASE Write
    BY <2>1 DEF Write, rvars
  <2>2. CASE UNCHANGED vars
    BY <2>2 DEF vars, rvars
  <2>3. CASE Read
    BY <2>3 DEF Read, NewIVFReader, NewOggReader, New, ResetReader
  <2> QED BY <2>1, <2>2, <2>3 DEF Next
<1>2. ASSUME NEW c, Finish(c) PROVE FALSE
  BY <1>2 DEF Finish, Fail
<1>3. CASE ReadHeader
  <2>1. cur.part = 0
    BY <1>3 DEF ReadHeader
  <2>2. CASE ~(size - pos < HeaderLen)
    <3>1. PICK c \in Found :
             CASE TooLarge(c)     -> Fail("tooLarge")
               [] Len(c.rec) = 1  -> Finish(c)
               [] OTHER           -> /\ cur' = c
                                     /\ UNCHANGED <<reader, good, out, err>>
      BY <1>3, <2>2 DEF ReadHeader
    <3>2. CASE TooLarge(c)
      <4>1. Len(c.rec) # 1
        BY <3>2 DEF TooLarge
      <4> QED BY <3>1, <3>2, <4>1 DEF Fail
    <3>3. CASE ~TooLarge(c) /\ Len(c.rec) = 1
      BY <3>1, <3>3, <1>2
    <3>4. CASE ~TooLarge(c) /\ Len(c.rec) # 1
      BY <3>1, <3>4
    <3> QED BY <3>2, <3>3, <3>4
  <2> QED BY <2>1, <2>2
<1>4. CASE ReadRest
  BY <1>4, <1>2 DEF ReadRest
<1> QED BY <1>1, <1>3, <1>4

(* io.EOF and io.ErrUnexpectedEOF are reported only when every record that *)
(* is in the file as a whole has been given out.                           *)
THEOREM EndHolds == Spec => EndMeansCaughtUp
<1>1. Inv /\ [Next]_vars =>
        ((/\ reader \in {"opening", "open"}
          /\ reader' \in {"none", "failed"}
          /\ err' \in {"EOF", "incomplete"}) => Len(out) = Complete)
  BY EndIsShort, ShortMeansCut, CaughtUp
<1> QED BY <1>1, InitInv, NextInv, PTL DEF Spec, EndMeansCaughtUp
=============================================================================
