------------------------------ MODULE LiveTail ------------------------------
(***************************************************************************)
(* ivfreader.IVFReader and oggreader.OggReader on a file that another      *)
(* process is still writing, the use ResetReader is made for: a call that  *)
(* meets the end of the file gives up inside a frame or page, and the      *)
(* application resets the reader to the last good position and tries       *)
(* again.  oggwriter sets the EOS flag of the last page in place when it   *)
(* is closed; the writer may also stop for good at any byte.               *)
(*                                                                         *)
(* A file is a sequence of records (the IVF file header and frames, Ogg    *)
(* pages), and a record is the sequence of the lengths of the ReadFull     *)
(* calls that read it.  Every ReadFull is a step.                          *)
(***************************************************************************)
EXTENDS Integers, SequencesExt

CONSTANTS Files,         \* Contents the writer may produce, with a file
                         \* header or OpusHead the reader accepts or not
          MaxFrameSize,  \* WithMaxFrameSize
          NoiseLengths   \* lengths a reader may see at a wrong offset

VARIABLES file,     \* the contents once everything is written
          size,     \* bytes of it that are visible
          writer,   \* "running", "sealing", "done"
          seal,     \* header of the last page: "plain", "torn", "sealed"
          options,  \* [doChecksum, header]: header if made by NewWith, which
                    \* reads the first record
          reader,   \* "none", "opening", "open", "failed"
          pos,      \* offset of the stream
          good,     \* bytesReadSuccesfully
          cur,      \* locals of the call: [id, rec, part, seen]
          out,      \* records read, with the state of their header
          err       \* last error of a call

wvars == <<writer, size, seal>>
rvars == <<reader, pos, good, cur, out, err>>
vars == <<file, options, wvars, rvars>>

ivfFileHeaderSize == 32
ivfFrameHeaderSize == 12
pageHeaderLen == 27

IvfFileHeader == <<ivfFileHeaderSize>>
IvfFrame(n) == <<ivfFrameHeaderSize, n>>
OggPage(segments, n) == <<pageHeaderLen, segments, n>>

Part(rec, i) == IF i <= Len(rec) THEN rec[i] ELSE 0

(* A record is read by at most three calls of ReadFull.                    *)
Bytes(rec) == Part(rec, 1) + Part(rec, 2) + Part(rec, 3)

(* A file with the offsets at which its records end.                       *)
Contents(format, valid, recs) ==
  LET end[k \in 0..Len(recs)] ==
        IF k = 0 THEN 0 ELSE end[k - 1] + Bytes(recs[k])
  IN [format |-> format, valid |-> valid, recs |-> recs, end |-> end]

(* What Contents makes of a file header and frames, or of pages.           *)
IsFile(f) ==
  /\ f.format \in {"ivf", "ogg"}
  /\ f.valid \in BOOLEAN
  /\ f.recs \in Seq(Seq(Nat)) /\ f.recs # << >>
  /\ \A k \in DOMAIN f.recs :
       IF f.format = "ogg"
       THEN Len(f.recs[k]) = 3 /\ f.recs[k][1] = pageHeaderLen
       ELSE IF k = 1 THEN f.recs[k] = IvfFileHeader
       ELSE Len(f.recs[k]) = 2 /\ f.recs[k][1] = ivfFrameHeaderSize
  /\ f.end \in [0..Len(f.recs) -> Nat]
  /\ f.end[0] = 0
  /\ \A k \in DOMAIN f.recs : f.end[k] = f.end[k - 1] + Bytes(f.recs[k])

ASSUME FilesAssumption == \A f \in Files : IsFile(f)

ASSUME LimitsAssumption == MaxFrameSize \in Nat /\ NoiseLengths \subseteq Nat

End(k) == file.end[k]

Total == End(Len(file.recs))

(* Records that are there as a whole.                                      *)
Complete == Max({k \in 0..Len(file.recs) : End(k) <= size})

Idle == [id |-> 0, rec |-> << >>, part |-> 0, seen |-> "plain"]

Init ==
  /\ file \in Files
  /\ size = 0
  /\ writer = "running"
  /\ seal = "plain"
  /\ options \in [doChecksum : BOOLEAN, header : BOOLEAN]
  /\ file.format = "ivf" => options.doChecksum /\ options.header
  /\ reader = "none"
  /\ pos = 0 /\ good = 0
  /\ cur = Idle
  /\ out = << >>
  /\ err = "none"

-----------------------------------------------------------------------------
(* One more byte of the file becomes visible.                              *)
Grow ==
  /\ writer = "running"
  /\ size < Total
  /\ size' = size + 1
  /\ UNCHANGED <<writer, seal>>

(* markTrackEndOfStream overwrites the page; its payload does not change,  *)
(* a reader may see the old, the new or a mixed header.                    *)
BeginSeal ==
  /\ writer = "running" /\ size = Total /\ file.format = "ogg"
  /\ writer' = "sealing"
  /\ seal' = "torn"
  /\ UNCHANGED size

EndSeal ==
  /\ writer = "sealing"
  /\ writer' = "done"
  /\ seal' = "sealed"
  /\ UNCHANGED size

(* Closed without EOS, or stopped by a crash, within WriteAt too.          *)
Stop ==
  /\ writer # "done"
  /\ writer' = "done"
  /\ UNCHANGED <<size, seal>>

Write ==
  /\ Grow \/ BeginSeal \/ EndSeal \/ Stop
  /\ UNCHANGED <<file, options, rvars>>

-----------------------------------------------------------------------------
(* A reader on a stream from the start of the file; NewWith then reads the *)
(* first record.                                                           *)
New(state) ==
  /\ reader = "none"
  /\ reader' = state
  /\ pos' = 0 /\ good' = 0
  /\ cur' = Idle
  /\ UNCHANGED <<out, err>>

NewIVFReader == file.format = "ivf" /\ New("opening")
NewOggReader ==
  file.format = "ogg" /\ New(IF options.header THEN "opening" ELSE "open")

HeaderLen ==
  CASE file.format = "ogg" -> pageHeaderLen
    [] file.format = "ivf" /\ reader = "opening" -> ivfFileHeaderSize
    [] OTHER -> ivfFrameHeaderSize

(* What the header at the position of the stream describes.  No record     *)
(* starts at a wrong offset, and any bytes are taken for a header.         *)
Found ==
  LET ks    == {k \in DOMAIN file.recs : End(k - 1) = pos}
      noise == {IF file.format = "ogg" THEN OggPage(1, n) ELSE IvfFrame(n) :
                  n \in NoiseLengths}
      seen(k) == IF k = Len(file.recs) THEN seal ELSE "plain"
  IN IF ks # {}
     THEN {[id |-> k, rec |-> file.recs[k], part |-> 2, seen |-> seen(k)] :
             k \in ks}
     ELSE {[id |-> 0, rec |-> r, part |-> 2, seen |-> "torn"] : r \in noise}

(* A call returns an error; a failed constructor leaves no reader.         *)
Fail(e) ==
  /\ err' = e
  /\ reader' = IF reader = "opening" THEN "none" ELSE "failed"
  /\ cur' = Idle
  /\ UNCHANGED <<good, out>>

(* io.EOF when nothing was there to read, else io.ErrUnexpectedEOF, which  *)
(* ivfreader turns into an error of its own.                               *)
FailShort ==
  /\ pos' = size
  /\ Fail(IF size = pos THEN "EOF" ELSE "incomplete")

(* Fault: torn pages are given out.                                        *)
ChecksumOK_Always(c) == TRUE

ChecksumOK(c) ==
  (file.format = "ogg" /\ options.doChecksum) => c.seen # "torn"

(* NewWith looks at the first record before there is a reader: type and    *)
(* contents of an OpusHead page, signature, version and timebase of an IVF *)
(* file header.                                                            *)
Refused == reader = "opening" /\ ~file.valid

(* Fault: headers do not count.                                            *)
Advance_PayloadOnly(rec) == Last(rec)

(* What a call adds to bytesReadSuccesfully: all its reads together.       *)
Advance(rec) == Bytes(rec)

(* The record is complete.                                                 *)
Finish(c) ==
  IF ~ChecksumOK(c) THEN Fail("checksum")
  ELSE IF Refused THEN Fail("refused")
  ELSE /\ good' = good + Advance(c.rec)
       /\ out' = Append(out, [id |-> c.id, seen |-> c.seen])
       /\ reader' = "open"
       /\ cur' = Idle
       /\ err' = "none"

TooLarge(c) == file.format = "ivf" /\ Len(c.rec) = 2 /\ c.rec[2] > MaxFrameSize

(* ParseNextFrame, ParseNextPage or parseFileHeader: its first ReadFull.   *)
ReadHeader ==
  /\ reader \in {"opening", "open"}
  /\ cur.part = 0
  /\ \/ size - pos < HeaderLen /\ FailShort
     \/ /\ size - pos >= HeaderLen
        /\ pos' = pos + HeaderLen
        /\ \E c \in Found :
             CASE TooLarge(c)     -> Fail("tooLarge")
               [] Len(c.rec) = 1  -> Finish(c)
               [] OTHER           -> /\ cur' = c
                                     /\ UNCHANGED <<reader, good, out, err>>

(* io.ReadFull gets all it asks for.                                       *)
Enough(n) == size - pos >= n

(* The next ReadFull: segment table and payload of a page, or payload of a *)
(* frame.                                                                  *)
ReadRest ==
  LET need == cur.rec[cur.part]
  IN /\ cur.part > 0
     /\ \/ ~Enough(need) /\ FailShort
        \/ /\ Enough(need)
           /\ pos' = pos + need
           /\ IF cur.part < Len(cur.rec)
              THEN /\ cur' = [cur EXCEPT !.part = @ + 1]
                   /\ UNCHANGED <<reader, good, out, err>>
              ELSE Finish(cur)

(* Fault: the new stream starts where the old one stopped.                 *)
ResetReader_AtStream ==
  /\ reader = "failed"
  /\ reader' = "open"
  /\ UNCHANGED <<pos, good, cur, out, err>>

(* ResetReader with a function that opens the file and seeks.  It follows  *)
(* an error, its documented use.  Between two calls without one it would   *)
(* change nothing, since the stream is then at good.  An application that  *)
(* goes on after an error without a reset is not modelled.                 *)
ResetReader ==
  /\ reader = "failed"
  /\ reader' = "open"
  /\ pos' = good
  /\ UNCHANGED <<good, cur, out, err>>

Read ==
  /\ NewIVFReader \/ NewOggReader \/ ReadHeader \/ ReadRest \/ ResetReader
  /\ UNCHANGED <<file, options, wvars>>

Next == Write \/ Read

(* Fairness: the application goes on calling, reopening and resetting.     *)
(* Nothing obliges the writer to go on.                                    *)
Spec == Init /\ [][Next]_vars /\ WF_vars(Read)

-----------------------------------------------------------------------------
(* Whatever the reader met in between, what it has given out is the file   *)
(* from its start, record by record, none twice, none left out and none    *)
(* made of parts of two, no damaged page unless checksums are off, and     *)
(* the position ResetReader hands out is the end of the last of them.      *)
WholeRecordsInOrder ==
  /\ \A k \in DOMAIN out :
       /\ out[k].id = k
       /\ options.doChecksum => out[k].seen # "torn"
  /\ out # << >> => good = End(Len(out))

Seals == {"plain", "torn", "sealed"}

TypeOK ==
  /\ file \in Files
  /\ size \in Nat /\ size <= Total
  /\ seal \in Seals
  /\ options \in [doChecksum : BOOLEAN, header : BOOLEAN]
  /\ reader \in {"none", "opening", "open", "failed"}
  /\ pos \in Nat /\ good \in Nat
  /\ cur \in [id : Nat, rec : Seq(Nat), part : 0..3, seen : Seals]
  /\ out \in Seq([id : Nat, seen : Seals])

(* Where the reader is: good is the end of the last record given out, a    *)
(* call that has just begun is there too, and a call under way is in the   *)
(* next record, behind the parts it has read.                              *)
ReaderAt ==
  LET n == Len(out)
  IN /\ n <= Len(file.recs)
     /\ good = End(n) /\ good <= pos /\ pos <= size
     /\ reader \in {"none", "opening"} => n = 0
     /\ file.format = "ivf" => writer # "sealing" /\ seal = "plain"
     /\ (file.format = "ivf" /\ reader \in {"open", "failed"}) => n > 0
     /\ reader \in {"none", "failed"} => cur.part = 0
     /\ (cur.part = 0 /\ reader \in {"opening", "open"}) => pos = good
     /\ cur.part > 0 =>
          /\ n < Len(file.recs)
          /\ cur.id = n + 1 /\ cur.rec = file.recs[n + 1]
          /\ 2 <= cur.part /\ cur.part <= Len(cur.rec)
          /\ pos = good + cur.rec[1] + (IF cur.part = 3 THEN cur.rec[2] ELSE 0)
          /\ file.format = "ivf" => cur.seen = "plain"

(* The inductive invariant behind WholeRecordsInOrder.                     *)
Inv == TypeOK /\ ReaderAt /\ WholeRecordsInOrder

(* A call reports the end of the data, or data that is not complete, only  *)
(* when every record that is in the file as a whole has been given out.    *)
EndMeansCaughtUp ==
  [][(/\ reader \in {"opening", "open"}
      /\ reader' \in {"none", "failed"}
      /\ err' \in {"EOF", "incomplete"}) => Len(out) = Complete]_vars

(* What can be read at last: the records up to the first one that is cut   *)
(* off, above the size limit or damaged; nothing of a refused file.        *)
Readable ==
  LET bad(k) == \/ k > Complete
                \/ TooLarge([rec |-> file.recs[k]])
                \/ options.doChecksum /\ seal = "torn" /\ k = Len(file.recs)
      ok(n)  == \A k \in 1..n : ~bad(k)
  IN IF options.header /\ ~file.valid THEN 0
     ELSE CHOOSE n \in 0..Len(file.recs) :
            ok(n) /\ \A m \in (n + 1)..Len(file.recs) : ~ok(m)

(* When the writer is gone, the loop of calls and resets gets through to   *)
(* everything readable: no read error is final, and a page that was seen   *)
(* half rewritten is read when it is whole (ResetReader).                  *)
CatchesUp == writer = "done" ~> Len(out) >= Readable
=============================================================================
