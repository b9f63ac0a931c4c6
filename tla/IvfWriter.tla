------------------------------ MODULE IvfWriter ------------------------------
(***************************************************************************)
(* ivfwriter.IVFWriter: RTP packets of a VP8, VP9 or AV1 stream put back   *)
(* together into frames and written to an IVF file.  An encoder (external) *)
(* sends frames 1, 2, ... of several packets each, some of which the       *)
(* network loses before WriteRTP gets them.  A frame of the file is the    *)
(* sequence of the packets [frame, part] appended to it.                   *)
(***************************************************************************)
EXTENDS Integers, Sequences, FiniteSets

CONSTANTS Configs,     \* options NewWith may be called with: [codec, directPTS]
          Parts,       \* numbers of packets a frame may have
          TsMod,       \* values of an RTP time stamp (2^32 in the code)
          Tick,        \* time stamp distance of two frames
          FirstTs,     \* time stamp of the first frame
          MaxFrames,   \* bound: frames sent
          MaxLoss,     \* bound: packets lost
          MaxFailures, \* bound: failing writes of the output
          CanSeek      \* the output is an io.WriteSeeker

(* Defaults of NewWith.                                                    *)
clockRate == 90000
timebaseNumerator == 1
timebaseDenominator == 30

ASSUME ConfigsAssumption ==
  Configs \subseteq [codec : {"VP8", "VP9", "AV1"}, directPTS : BOOLEAN]

ASSUME PartsAssumption == Parts \subseteq Nat \ {0}

(* The recording is shorter than a cycle of the time stamps, 13 hours at   *)
(* the clock rate: beyond it the difference of time stamps starts anew.    *)
ASSUME TimeAssumption ==
  /\ TsMod \in Nat \ {0} /\ Tick \in Nat /\ FirstTs \in Nat /\ MaxFrames \in Nat
  /\ MaxFrames * Tick < TsMod

ASSUME BoundsAssumption == MaxFailures \in Nat /\ CanSeek \in BOOLEAN

VARIABLES config,        \* IVFWriter.codec and directPTS
          sent,          \* frames sent so far: sequence of [parts, key]
          part,          \* packets of the last frame sent so far
          lost,          \* packets lost: set of [frame, part]
          open,          \* ioWriter # nil
          count,
          seenKeyFrame,
          firstFrameTimestamp,
          currentFrame,  \* packets appended so far
          isNil,         \* currentFrame = nil, which is not the same as empty
          file,          \* frames written: sequence of [ok, data, pts]
          frameCount,    \* frame count field of the file header
          failures

env == <<sent, part, lost>>
vars == <<config, sent, part, lost, open, count, seenKeyFrame,
          firstFrameTimestamp, currentFrame, isNil, file, frameCount, failures>>

Init ==
  /\ config \in Configs
  /\ sent = << >> /\ part = 0 /\ lost = {}
  /\ open = TRUE
  /\ count = 0
  /\ seenKeyFrame = FALSE
  /\ firstFrameTimestamp = 0
  /\ currentFrame = << >> /\ isNil = TRUE
  /\ file = << >>
  /\ frameCount = 900
  /\ failures = 0

-----------------------------------------------------------------------------
(* A frame is under way: some of its packets have not been sent.           *)
Sending == IF sent = << >> THEN FALSE ELSE part < sent[Len(sent)].parts

(* The encoder begins a frame, key or not, once the last one is sent.      *)
BeginFrame(n, key) ==
  /\ open
  /\ Len(sent) < MaxFrames
  /\ ~Sending
  /\ sent' = Append(sent, [parts |-> n, key |-> key])
  /\ part' = 0
  /\ UNCHANGED <<lost, open, count, seenKeyFrame, firstFrameTimestamp,
                 currentFrame, isNil, file, frameCount, failures>>

(* RTP time stamp of a frame.                                              *)
Ts(f) == (FirstTs + (f - 1) * Tick) % TsMod

(* The next packet of the frame under way.                                 *)
Packet ==
  LET f == Len(sent)
  IN [frame |-> f, part |-> part + 1, start |-> part = 0,
      marker |-> part + 1 = sent[f].parts, key |-> sent[f].key,
      ts |-> Ts(f)]

Lose ==
  /\ Sending
  /\ Cardinality(lost) < MaxLoss
  /\ lost' = lost \cup {[frame |-> Packet.frame, part |-> Packet.part]}
  /\ part' = part + 1
  /\ UNCHANGED <<sent, open, count, seenKeyFrame, firstFrameTimestamp,
                 currentFrame, isNil, file, frameCount, failures>>

-----------------------------------------------------------------------------
(* WriteRTP: the zero of the time line is the time stamp of the last       *)
(* packet that came before a frame was written; unsigned subtraction.      *)
ZeroTs(p) == IF count = 0 THEN p.ts ELSE firstFrameTimestamp

Scaled(ticks) ==
  IF config.directPTS THEN ticks
  ELSE (((1000 * ticks) \div clockRate) * timebaseNumerator)
         \div timebaseDenominator

(* Fault: a signed difference of time stamps.                              *)
Pts_Signed(p) == Scaled(p.ts - ZeroTs(p))

(* The PTS written: the difference itself, or milliseconds rescaled by the *)
(* time base of the header, rounded down twice.                            *)
Pts(p) == Scaled((p.ts - ZeroTs(p)) % TsMod)

(* Whether the codec's code appends the packet: nothing before the first   *)
(* key frame, and for VP8 and VP9 no frame without its first packet.       *)
AcceptsVPx(p) ==
  /\ seenKeyFrame \/ p.key
  /\ ~isNil \/ p.start

(* For AV1 only the first packet of a key frame carries the N bit or the   *)
(* sequence header that counts as one; any packet may begin a frame.       *)
AcceptsAV1(p) == seenKeyFrame \/ (p.key /\ p.start)

(* Faults: no waiting for a key frame; nothing but key frames.             *)
Accepts_AnyFrame(p) == config.codec = "AV1" \/ ~isNil \/ p.start

Accepts_KeyOnly(p) ==
  /\ p.key
  /\ config.codec = "AV1" \/ ~isNil \/ p.start

Accepts(p) == IF config.codec = "AV1" THEN AcceptsAV1(p) ELSE AcceptsVPx(p)

Skip(p) ==
  /\ ~Accepts(p)
  /\ UNCHANGED <<seenKeyFrame, currentFrame, isNil, count, file, failures>>

Appended(p) == Append(currentFrame, [frame |-> p.frame, part |-> p.part])

Collect(p) ==
  /\ Accepts(p)
  /\ ~p.marker
  /\ seenKeyFrame' = TRUE
  /\ currentFrame' = Appended(p)
  /\ isNil' = FALSE
  /\ UNCHANGED <<count, file, failures>>

(* Fault: the buffer is not given up.                                      *)
WriteFrame_KeepsBuffer(p) ==
  /\ Accepts(p)
  /\ p.marker
  /\ seenKeyFrame' = TRUE
  /\ count' = count + 1
  /\ file' = Append(file, [ok |-> TRUE, data |-> Appended(p), pts |-> Pts(p)])
  /\ currentFrame' = Appended(p)
  /\ isNil' = FALSE
  /\ UNCHANGED failures

(* The marker ends the frame: writeFrame counts it, writes a frame header  *)
(* and the data, and the buffer is given up.                               *)
WriteFrame(p) ==
  /\ Accepts(p)
  /\ p.marker
  /\ seenKeyFrame' = TRUE
  /\ count' = count + 1
  /\ file' = Append(file, [ok |-> TRUE, data |-> Appended(p), pts |-> Pts(p)])
  /\ currentFrame' = << >>
  /\ isNil' = TRUE
  /\ UNCHANGED failures

(* What the two writes of a frame leave when one of them fails: bytes of   *)
(* the first n packets, of the last one perhaps not all; with n = 0 the    *)
(* frame header or a part of it.  A frame header announces the length of   *)
(* the whole frame, so a reader takes what is behind a torn frame for the  *)
(* rest of it.                                                             *)
Torn(p, n) == [ok |-> FALSE, data |-> SubSeq(Appended(p), 1, n), pts |-> Pts(p)]

(* Fault: the buffer is given up although the frame was not written.       *)
WriteFrameFails_DropsBuffer(p) ==
  /\ Accepts(p)
  /\ p.marker
  /\ failures < MaxFailures
  /\ failures' = failures + 1
  /\ seenKeyFrame' = TRUE
  /\ count' = count + 1
  /\ currentFrame' = << >>
  /\ isNil' = TRUE
  /\ UNCHANGED file \/ \E n \in 0..Len(Appended(p)) : file' = Append(file, Torn(p, n))

(* A write of writeFrame fails: counted all the same, and the buffer keeps *)
(* the frame, to which the next packets are appended.  What a failing      *)
(* write has put down stays in the file.                                   *)
WriteFrameFails(p) ==
  /\ Accepts(p)
  /\ p.marker
  /\ failures < MaxFailures
  /\ failures' = failures + 1
  /\ seenKeyFrame' = TRUE
  /\ count' = count + 1
  /\ currentFrame' = Appended(p)
  /\ isNil' = FALSE
  /\ UNCHANGED file \/ \E n \in 0..Len(Appended(p)) : file' = Append(file, Torn(p, n))

WriteRTP ==
  /\ open
  /\ Sending
  /\ firstFrameTimestamp' = ZeroTs(Packet)
  /\ Skip(Packet) \/ Collect(Packet) \/ WriteFrame(Packet) \/ WriteFrameFails(Packet)
  /\ part' = part + 1
  /\ UNCHANGED <<sent, lost, open, frameCount>>

(* A count of which some bytes are old and some new.                       *)
Mixed == -1

(* Fault: the header keeps the count it was written with.                  *)
Close_KeepsDefault(ok) ==
  /\ open
  /\ ok
  /\ open' = FALSE
  /\ UNCHANGED <<env, count, seenKeyFrame, firstFrameTimestamp, currentFrame,
                 isNil, file, frameCount, failures>>

(* Close updates the frame count of the file header, if it can seek.  A    *)
(* failing update leaves the old count or, in part written, any other.     *)
Close(ok) ==
  /\ open
  /\ open' = FALSE
  /\ \/ ok /\ frameCount' = (IF CanSeek THEN count ELSE frameCount)
        /\ UNCHANGED failures
     \/ /\ ~ok /\ CanSeek
        /\ failures < MaxFailures
        /\ failures' = failures + 1
        /\ frameCount' \in {frameCount, Mixed}
  /\ UNCHANGED <<env, count, seenKeyFrame, firstFrameTimestamp, currentFrame,
                 isNil, file>>

Next ==
  /\ \/ \E n \in Parts, key \in BOOLEAN : BeginFrame(n, key)
     \/ Lose
     \/ WriteRTP
     \/ \E ok \in BOOLEAN : Close(ok)
  /\ UNCHANGED config

Spec == Init /\ [][Next]_vars

-----------------------------------------------------------------------------
(* Frames of the encoder that found their way into d.                      *)
FramesIn(d) == {d[k].frame : k \in DOMAIN d}

Hit(f) == \E l \in lost : l.frame = f

(* d is packets 1 to n of frame f.                                         *)
IsPrefix(d, f, n) ==
  /\ Len(d) = n
  /\ \A k \in 1..n : d[k] = [frame |-> f, part |-> k]

Whole(d, f) == IsPrefix(d, f, sent[f].parts)

(* A frame of the file that no loss and no failed write touches is exactly *)
(* one frame of the encoder, packets in order (writeVP8, writeVP9,         *)
(* writeAV1).                                                              *)
UntouchedFramesExact ==
  failures = 0 =>
    \A k \in DOMAIN file :
      (\A f \in FramesIn(file[k].data) : ~Hit(f)) =>
        \E f \in DOMAIN sent : Whole(file[k].data, f)

(* Frame f and the one before arrived in full, and a key frame before it.  *)
Undisturbed(f) ==
  /\ ~Hit(f) /\ ~Hit(f - 1)
  /\ \E g \in 1..f - 1 : sent[g].key /\ ~Hit(g)

(* A frame that arrives in full after a frame that did is in the file, as  *)
(* a frame of its own: a loss costs at most the frame it hits and the one  *)
(* after it, whose packets may be taken for the rest of the first.         *)
LossIsContained ==
  failures = 0 =>
    \A f \in 2..Len(sent) - 1 :
      Undisturbed(f) => \E k \in DOMAIN file : Whole(file[k].data, f)

(* d begins with the start of a key frame.                                 *)
KeyAhead(d) == sent[d[1].frame].key /\ d[1].part = 1

(* The first frame of the file begins with the start of a key frame,       *)
(* whatever arrives first, and if its write failed so does every later try *)
(* up to the first frame that was written (seenKeyFrame, currentFrame).    *)
(* Of a torn frame this speaks as far as any of its data is in the file:   *)
(* behind a header without data a reader finds no frame to begin with.     *)
BeginsWithKeyFrame ==
  \A k \in DOMAIN file :
    (file[k].data # << >> /\ \A j \in 1..(k - 1) : ~file[j].ok) =>
      KeyAhead(file[k].data)

(* Packet x was sent before packet y.                                      *)
Before(x, y) == x.frame < y.frame \/ (x.frame = y.frame /\ x.part < y.part)

Ascending(d) == \A m, n \in DOMAIN d : m < n => Before(d[m], d[n])

(* Entry e of the file has the packets d once more from its start on, all  *)
(* of them if it was written.                                              *)
Repeats(d, e) ==
  \A m \in DOMAIN d : IF m \in DOMAIN e.data THEN e.data[m] = d[m] ELSE ~e.ok

(* Packets are in the file in the order in which they were sent, and none  *)
(* is there twice unless the write of its frame failed: the next frame     *)
(* then begins with all packets of that one, so that the packets of a torn *)
(* frame are not lost, and no frame that was written has a packet of       *)
(* another one (currentFrame, kept by a failing writeFrame).               *)
FramesInOrder ==
  /\ \A k \in DOMAIN file : Ascending(file[k].data)
  /\ \A j, k \in DOMAIN file :
       j < k =>
         IF \E i \in j..(k - 1) : file[i].ok
         THEN \A m \in DOMAIN file[j].data, n \in DOMAIN file[k].data :
                Before(file[j].data[m], file[k].data[n])
         ELSE Repeats(file[j].data, file[k])

(* After Close the header of a seekable file says how many frames follow   *)
(* (ivfwriter.go:139 "will be updated on first Close() call").             *)
CountIsExact ==
  (~open /\ failures = 0 /\ CanSeek) => frameCount = Len(file)

(* ivfwriter.go:267 "the timestamp must be sequential": presentation time  *)
(* never goes back from one frame of the file to a later one, torn ones    *)
(* included.                                                               *)
TimestampsSequential ==
  \A j, k \in DOMAIN file : j < k => file[j].pts <= file[k].pts

-----------------------------------------------------------------------------
(* The inductive invariant behind these six.                               *)
EncodedFrame == [parts : Parts, key : BOOLEAN]

Piece == [frame : Nat, part : Nat]

WrittenFrame == [ok : BOOLEAN, data : Seq(Piece), pts : Int]

TypeOK ==
  /\ config \in Configs
  /\ sent \in Seq(EncodedFrame) /\ Len(sent) <= MaxFrames
  /\ part \in Nat
  /\ IF sent = << >> THEN part = 0 ELSE part <= sent[Len(sent)].parts
  /\ lost \subseteq Piece
  /\ open \in BOOLEAN /\ seenKeyFrame \in BOOLEAN /\ isNil \in BOOLEAN
  /\ count \in Nat /\ failures \in Nat /\ frameCount \in Int
  /\ firstFrameTimestamp \in Int
  /\ currentFrame \in Seq(Piece)
  /\ file \in Seq(WrittenFrame)

(* Packet x has left the encoder.                                          *)
Gone(x) ==
  /\ x.frame \in DOMAIN sent
  /\ x.frame = Len(sent) => x.part <= part

(* The buffer has been given up since entry k.                             *)
Settled(k) == \E i \in k..Len(file) : file[i].ok

(* Packets come into the buffer in order, and from there into the file;    *)
(* those of a frame whose write failed are at the head of the buffer.      *)
InOrder ==
  /\ Ascending(currentFrame)
  /\ \A n \in DOMAIN currentFrame : Gone(currentFrame[n])
  /\ \A k \in DOMAIN file :
       \A m \in DOMAIN file[k].data :
         /\ Gone(file[k].data[m])
         /\ IF Settled(k)
            THEN \A n \in DOMAIN currentFrame : Before(file[k].data[m], currentFrame[n])
            ELSE m \in DOMAIN currentFrame /\ currentFrame[m] = file[k].data[m]

(* The buffer is only there with a key frame; until a frame was written it *)
(* begins with the first packet of one.                                    *)
Buffer ==
  /\ isNil <=> currentFrame = << >>
  /\ currentFrame # << >> => seenKeyFrame
  /\ (\A k \in DOMAIN file : ~file[k].ok) =>
       /\ seenKeyFrame => currentFrame # << >>
       /\ currentFrame # << >> => KeyAhead(currentFrame)

(* A buffer no loss has touched is what was sent of the last frame.        *)
Untouched ==
  failures = 0 =>
    /\ (currentFrame # << >> /\ \A f \in FramesIn(currentFrame) : ~Hit(f)) =>
         Sending /\ IsPrefix(currentFrame, Len(sent), part)
    /\ (config.codec = "AV1" /\ seenKeyFrame /\ Sending /\ part > 0
          /\ currentFrame = << >>) => Hit(Len(sent))

(* Frames that arrived in full leave no rest in the buffer, key frames are *)
(* noticed, and an undisturbed frame is in the buffer or in the file.      *)
Contained ==
  failures = 0 =>
    /\ (sent # << >> /\ ~Sending /\ ~Hit(Len(sent))) => currentFrame = << >>
    /\ \A f \in DOMAIN sent :
         (sent[f].key /\ ~Hit(f) /\ (f < Len(sent) \/ part > 0)) => seenKeyFrame
    /\ \A f \in 2..Len(sent) :
         Undisturbed(f) =>
           IF f = Len(sent) /\ Sending THEN IsPrefix(currentFrame, f, part)
           ELSE \E k \in DOMAIN file : Whole(file[k].data, f)

Counted ==
  failures = 0 => /\ count = Len(file)
                  /\ (~open /\ CanSeek) => frameCount = count

(* Presentation times count from the time stamp of one frame.              *)
Timeline ==
  IF count = 0 THEN file = << >>
  ELSE \E z \in DOMAIN sent :
         /\ firstFrameTimestamp = Ts(z)
         /\ \A k \in DOMAIN file :
              \E f \in z..Len(sent) : file[k].pts = Scaled((f - z) * Tick)

Inv ==
  /\ TypeOK /\ InOrder /\ FramesInOrder
  /\ Buffer /\ BeginsWithKeyFrame
  /\ Untouched /\ UntouchedFramesExact
  /\ Contained /\ Counted /\ CountIsExact
  /\ Timeline /\ TimestampsSequential
=============================================================================
