# TLA+ verification of pion/format

Models of the container writers and readers of `src/`, checked with TLC and, where
stated, proved with TLAPS.

## 1. The system

The repository is a Go library of independent packages. Each one turns RTP packets or
encoded frames into a container file or stream, or reads one. There are no processes or
messages of its own: concurrency is that of the callers' goroutines, failure is that of
the `io.Writer` or `io.Reader` a caller passes in, and disorder is that of the network
that brings the packets, or of another process that is still writing the file.

| Component | State | Operations | Interacts with |
|---|---|---|---|
| `mpegts.Writer` | tracks, counter per PID, time of the last tables | `NewWriter`, `WriteH264`, `WriteH265`, `Close` | calls `dst.Write` once per packet, each call can fail |
| `mpegts.Reader` | tables, section assembler, per track: two buffers, counter, stamps | `NewReader`, `NextAccessUnit` | reads what a `Writer`, or any other muxer, produced |
| mpegts layout, PSI, time stamps | none | `writePES`, `appendPESHeader`, `feed`, `parsePAT`, `parsePMT`, `extendTimestamp` | used by both |
| mpegts unit inspection | none | `forEachNAL` and the scans on it | decides delimiter and random access flag of a unit |
| `oggwriter.Writer`, `Track` | mutex, tracks with page index, granule position and last page | `NewTrack`, `Track.WriteRTP`, `Close` | goroutines of the caller; output that may be rewritten in place |
| `oggwriter.OggWriter` | the same for one track | `New`, `NewWith`, `WriteRTP`, `Close` | shares the page code |
| Ogg paging, Opus durations | none | `createPagesForSerial`, `markTrackEndOfStream`, `opusPacketSampleCount` | used by both Ogg writers |
| Opus headers | none | options, `buildIDHeader`, `buildCommentHeader`; `HeaderType`, `ParseOpusHead`, `ParseOpusTags` | writer and reader of the same packets |
| `oggreader` | bytes read, checksum table | `NewWith`, `ParseNextPage`, `ResetReader` | a file that may still grow or be rewritten |
| `ivfwriter` | frame under way, key frame seen, count, first stamp | `WriteRTP`, `Close` | RTP depacketizers of pion/rtp |
| `ivfreader` | bytes read | `NewWith`, `ParseNextFrame`, `ResetReader` | a file that may still grow |
| `internal/annexb`, `h264reader`, `h265reader` | prefix read, unit under way | `Next`, `NextNAL` | a stream whose reads may fail |
| `h264writer`, `h265writer` | key frame seen, depacketizer | `WriteRTP`, `Close` | depacketizers of pion/rtp |
| `rtpdump` | two mutexes | `NewWriter`, `WritePacket`, `NewReader`, `Next` | goroutines of the caller |

What is hard, and what makes each part correct:

* **mpegts.** Continuity counters are the only thing that shows a loss, they have four bits,
  and a write that fails half way through a unit has to be visible through them. Two units
  must never be joined. Stamps wrap after 26 hours. Tables have to stay current although
  the PAT may be written and the PMT fail. A reader has to survive streams it did not write.
* **oggwriter.** Calls of several goroutines, with writes that fail between two pages of
  a packet; in-place rewriting of the last page of each track at `Close`, which is right only
  if the rebuilt page has exactly the size of the old one and the offset is still right.
* **ivfwriter.** Lost packets (first, last or middle) and failed writes must not spoil more
  than the frames they touch; presentation time and frame count of the file.
* **ivfreader, oggreader.** A call that meets the end of a growing file stops inside a record.
  `ResetReader` is right only if the position it hands out is the end of the last whole
  record, whatever failed since; the last Ogg page may be rewritten while it is read.
* **rtpdump.** No marks between records: everything rests on 16-bit lengths and on each
  record being written, and read, by one call at a time.
* **Annex-B.** Zeros around start codes, read errors inside one, two pieces of code (`annexb`
  and `mpegts`) that must agree on what a unit is, and the gate that waits for a key frame.

## 2. Modules

| Module | Models | State and actions in the code |
|---|---|---|
| `TsPackets` | packet layout, counter, `appendPESHeader`, `extendTimestamp` | pure operators |
| `TsWriter` | `mpegts/writer.go` | the fields of `Writer`; `Calls` gives, for each list of tracks, the inputs of the n-th call; an action is the work between two calls of `dst.Write` (`WritePAT`, `WritePMT`, `WritePESPacket`, with `ok` for the result of the write) |
| `TsReader` | `mpegts/reader.go`, `psi.go`, `pat.go`, `pmt.go` | the fields of `Reader` and `esStream`; an action handles one packet or flushes one stream |
| `TsLink` | both, and a transport between them | composition of the two, sharing `wire`; `Lose`, `Refused`, `Receive` |
| `AccessUnitChannel` | what the pair promises | abstract: units in, units out, per track |
| `TsForeignStream` | the reader on input of other muxers | any packets of a set, in any order |
| `TsTimeline` | stamps of a track through both | one action per unit received |
| `OggPages` | pages of a packet, in closed form | pure operators |
| `OggPaging` | the loops of `createPagesForSerial` | the locals of the loops, one action per segment and page |
| `OpusToc` | `opusPacketSampleCount` | pure operators |
| `OpusHeaders` | options, header packets and their parsers, byte for byte | pure operators |
| `OpusPackets` | one packet of any kind: made, paged, then measured or parsed | composes `OggPaging`, `OpusToc` and `OpusHeaders`; the packet may be cut or changed before it is parsed |
| `OggWriter` | `Writer`, `Track` and `OggWriter` of `oggwriter` | `mu` is the mutex; a call is a record of its stage (identification headers, comment headers, packet, EOS, closing), the track the stage is at and the pages it is writing, one per step (`NextHeader`, `NextEnd`, `Resume`); a file entry is a page with its place and its packet; `single` tells the two types apart |
| `IvfWriter` | `ivfwriter` | the fields of `IVFWriter`; an action per RTP packet |
| `LiveTail` | `ivfreader` and `oggreader` on a file that grows | `good` is `bytesReadSuccesfully`, `cur` the locals of a call; every `ReadFull` is an action, and so is every byte the writer adds |
| `RtpDump` | `rtpdump` | `writerMu`, `readerMu`; a `Write` in two halves with a possible failure between, `Next` in its two reads; the file is a sequence of pieces of records with their offsets, and `Cuts` are the places at which it may end |
| `AnnexB` | `internal/annexb`, `NextNAL` of both readers, the scans of `mpegts/h26x.go` | fields and locals of `Next`; an action per `ReadByte` |
| `NalFile` | `h264writer`, `h265writer`, composed with `AnnexB` | `hasKeyFrame`; `WriteRTP` with the gate on the bytes of the payload and a write that may stop at any byte |
| `TsTimelineProofs`, `OggPagingProofs`, `TsForeignStreamProofs`, `OggWriterProofs`, `IvfWriterProofs`, `LiveTailProofs`, `RtpDumpProofs` | theorems about the module in the name | |
| `TsLinkProofs` | theorems about `TsWriter` and `TsLink` | |
| `MC*` | constants for TLC | |

Definitions keep the names of the code where they can (`afTotal`, `minAF`, `lastPSIDTS`,
`startUnit` as `StartUnit`, ...). Definitions marked *Fault* are wrong variants of the
definition after them; no specification uses them. They are there to show that the properties
notice such a mistake: with the variant in place of the original TLC finds the property
violated.

Data is abstract where the properties allow it: bytes of an access unit are positions in it, a
section of a table is a value that is accepted when its pieces are complete and in order (that
is what the CRC is for), an Ogg page is its header fields and its size, a frame of an IVF file
is the sequence of packets appended to it, a record of a growing file is the lengths of the
reads that fetch it, a piece of an rtpdump file is a range of bytes of one record. Real bytes
are used where their values decide: Annex-B streams, RTP payloads at the key frame gate, Opus
headers and the first two bytes of Opus packets.

Bytes at an offset where no record starts can look like anything. `LiveTail` and `RtpDump`
therefore take any length of a set (`NoiseLengths`) there, a short one that fits into the rest
of the file and a long one or zero.

### Composition and refinement

`TsLink` extends `TsWriter` and `TsReader`; `wire` is every packet `dst.Write` was called with, and
the first `pos` of them have left the transport. A packet whose write failed is kept on `wire`
with `ok = FALSE` so that it uses up a counter value and then disappears (`Refused`). `burst`
counts, per PID, what is missing since the last packet that arrived, `delivered` is what the
caller of `NextAccessUnit` got, per PID. `ImplementsChannel` is the specification of
`AccessUnitChannel` under the mapping: accepted units are the entries of `log`, the output of
a track is the sequence of units returned for it, where a unit that is not exactly one unit
written in full, with its own random access flag, maps to -1 (which the abstract specification
never allows) or, when it is the last thing a flush returns on a track whose end was lost, to
`Cut`.

`OggWriter` uses the closed form of `OggPages`; `OggPaging` shows, and `OggPagingProofs`
proves, that the loops compute it. `NalFile` runs a writer and a reader over the same bytes;
`RtpDump` runs recording and reading goroutines one after the other over the same file;
`LiveTail` runs them at the same time.

## 3. Runs

| Run | Shows |
|---|---|
| `ts_writer` | units of lengths around every packet boundary, one or two tracks, with and without PCR, random access flag, delimiter, DTS; DTS moving back and forth; failing writes: every packet has 188 bytes and a legal adaptation field, a unit reported as written tiles its packets, counters count attempts, and PAT and PMT are in force for every unit |
| `ts_link` | writer, lossy and repeating transport, reader, on one track and on two interleaved ones, across a stamp wrap: refinement of `AccessUnitChannel`, kept distances between stamps, no unit lost without a cause, and the end of the input is reached |
| `ts_foreign` | arbitrary packets: a returned unit is all bytes of one run of counters from a unit start, buffers stay bounded, tracks come from intact tables only |
| `ts_timeline` | all jumps and reorderings shorter than half a cycle, back beyond zero included |
| `opus_packets` | the paging loops against the closed form at every boundary length; durations of all packets by their first two bytes against RFC 6716; headers of every sequence of two options parsed back, whole, cut at every byte and changed in every byte |
| `ogg_writer` | two goroutines; the multi-track writer with two tracks and the single-track one; packets of one and two pages and of two durations, two failing writes, both kinds of output (`seekable`) and so both ways of ending a stream; every call gives the mutex back |
| `ivf_writer` | frames of one or three packets, two losses, two writes that fail at any byte, for the VP8/VP9 rules and for AV1 |
| `live_tail` | IVF and Ogg readers against a file that grows byte by byte, is sealed in place or is abandoned at any byte, with files the constructor refuses and frames above the limit; calls, and a reset after every error, its documented use |
| `rtpdump` | two recording and two reading goroutines, record lengths from none to the largest 16 bits hold and one more, a torn write, a recording or a header cut off |
| `nal_file` | RTP payloads of both codecs through the key frame gate into a file and back with a write torn at any byte; the reader on all short streams with a read error at any byte |
| `ts_truncated`, `ogg_late_track` | disagreements between the code and its own words, section 5 |

### Bounds

* `CCMod = 4` instead of 16 and `Wrap` of a few units: the counter and the stamps wrap several
  times within a run. The rules compare for equality with the next value, or with half of
  the cycle, so the width matters only relative to the length of a loss.
* `MaxBurst = 2`, at most two packets of a PID lost in a row: with a counter of four values, a
  loss of three makes the next packet look like a repeat and a loss of four like no loss. In
  the code the same holds for 15 and 16 packets. The format cannot tell; the properties are
  stated for shorter losses (`MaxBurstAssumption`). One write may fail on top of that, so a gap
  can have three packets, as many as `MaxBurst + MaxFailures < CCMod` of the theorems allows.
  `MaxLoss = 3` with a burst of 2 is enough to hit two units, or a
  unit and a table; `MaxDup = 1` repeats any one packet.
* Lengths: 1 byte and the values at which, with a 14 or 19 byte PES header and a 0, 6 or 7
  byte delimiter, a packet of 184, 182 or 176 bytes is exactly full, one short or one over.
  In `ts_link` one, three and four packets, the last above the size limit.
* Ogg: a packet of one page and one that fills a page exactly, which needs an empty second
  page; two tracks, two goroutines, two packets, two failing writes. No symmetry is used,
  since the run also checks liveness. `OggPaging` uses lengths around 255, 64770, 65025 and
  130050 bytes; the proof covers all others.
* `MaxFailures`: one or two failing writes at any place; after each one the writer is used on.
* IVF: four frames, two lost packets, so that a hit frame, its successor and an untouched
  frame after them occur in every order; two failing writes, so that a frame kept by one failure
  meets another before it is written. `TsMod` 65536 with ticks of 3000: the RTP stamp wraps
  at the third frame.
* Opus headers: `MaxOptions = 2`, so that an option follows one it replaces, adds to or is
  refused after; mappings legal and illegal at each limit of each family. `OtherBytes` puts
  0, 1, `=` and 127 in every place of a header. The first two bytes of a packet are exhaustive.
* `LiveTail`: three or four records, one of no bytes, one above `MaxFrameSize`; the file grows
  byte by byte, so a call meets the end at every offset of every read.
* `RtpDump`: lengths are the real ones (65527 fits, 65528 does not), offsets are cut at
  `OffsetMod = 1000` for 2^32, since only the wrap matters. Three packets, so that a torn one
  has a neighbour on both sides.
* `NalFile`: three payloads (before, at and after the key frame), one torn write; all streams of
  up to six bytes 0, 1 and an SEI header behind either start code, which contain every way
  in which zeros, start codes and empty units can follow each other, and short ones with
  delimiters and random access points; one read error.

Deadlock is checked in `live_tail` and `nal_file`, whose readers can always go on or have
ended. It is off elsewhere: callers may stop calling, and the bounds end each run. What must
go on is stated as liveness instead.

### Fairness

* `TsLink`: `WF(ReaderStep)`. The application keeps calling `NextAccessUnit`, which blocks only
  on its input. Nothing is assumed of the writing application or the transport.
* `OggWriter`: `WF(Step(c))` per goroutine. A call that holds the mutex has no blocking step
  except the write, which returns. No fairness on making calls or on who gets the mutex.
* `LiveTail`: `WF(Read)`. The application keeps calling, reopening and resetting. Nothing
  obliges the writer to go on; `CatchesUp` speaks of what is there once it has stopped.
* `RtpDump`: `WF(ReadStep)`. Some goroutine keeps calling `Next`; a call that has the mutex has
  no blocking step but the read of a file that no longer changes.

## 4. Properties worth knowing

* `ImplementsChannel`: no loss, repeat or failed write joins two units, leaves a hole in one or
  lets one out twice. Depends on `nextCC` being called before the write and on the swap of the
  two buffers in `finish`, which keeps `Data` valid while the same call begins the next unit.
* `NoNeedlessLoss`: the other direction. A unit that was written, began after the reader was
  ready, fits the limit and had no loss on it, is returned.
* `TablesInForce`: for any DTS sequence and any failure between PAT and PMT.
* `DataIsOneRun`: whatever another muxer or a bad line delivers, the bytes given out for a unit
  are those behind its PES header and all bytes of the packets that follow by counter, with
  nothing but repeats of the last one in between.
* `PacketsWhole`, `NumbersHaveNoGap`, `HeadersFirst`, `EndsWithEOS`: an Ogg file
  is well formed after any interleaving and any failure. It begins with one BOS page per track,
  in the order of the tracks, and every comment header is complete before the first audio
  page. A failed packet leaves pages behind whose numbers the next packet uses again; that is
  the one exception `NumbersHaveNoGap` makes. Nothing complete of a track follows its EOS page in
  place or in time.
* `GranulesExact`: the granule position of a page is the exact sum of the durations of its own
  track's packets up to the one it ends. A packet whose write failed counts, because the position
  moves before the write; a refused one and those of other tracks do not.
* `FileStable`: `Close` changes nothing in the file but the EOS flag of last pages.
* `LossIsContained`: a loss costs an IVF file at most the frame it hits and the next one.
* `FramesInOrder`, `BeginsWithKeyFrame`: what an IVF file has after failing writes. The buffer
  is kept, so the packets of a torn frame are at the head of the next one; none is lost by the
  failure, none is out of order, and no packet is in two frames that were written.
* `WholeRecordsInOrder`, `EndMeansCaughtUp`, `CatchesUp`: a loop of calls and `ResetReader` gives
  each record once and in order, reports the end only when nothing whole is left, and gets
  through to everything readable, a page seen half rewritten included. A frame above the size
  limit is the exception: every reset returns to it (`Readable`).
* `RecordsComeBack`, `EndTellsTruth`: every packet recorded without error is in an rtpdump file;
  the records in front of the first cut one come back one for one, and `Next` tells a cut from
  an end, but for a file that ends with the header of a record, where it returns `io.EOF`.
* `RecordedIsRead`: what both gates let through is what the readers return. A write torn inside
  a start code leaves zeros, which trail the unit before; nothing else is touched.
* `UnitsSurviveErrors`, `ScansAgreeWithReader`: `annexb` and `mpegts` cut the same bytes into the
  same units, and a read error costs two units at most.
* `HeadRoundTrips`, `TagsRoundTrip`: an accepted option list gives a legal ID header, the reader
  gets out what the options said, and nothing out of a header cut short.

## 5. Disagreements found

Each is a run that TLC refutes, with the sentence it refutes quoted in `PROJECT.json`.

1. `ts_truncated`: at the end of the input a unit whose last packets never came is returned as
   if it were complete (`reader.go:219`). `AccessUnitChannel` allows it explicitly, once per
   track (`DeliverCut`).
2. `ogg_late_track`: after a header write failed half way, `NewTrack` still accepts a track
   although pages are in the output (`oggwriter.go:53`, `:425`).

Limits of the code that the properties are stated around, without a run of their own:

* The size limit is compared only when a continuation packet is appended, so a unit that fits
  its first packet is returned however small the limit is (`BufferBounded`).
* Tables are written with the first unit 100 ms or more after the last ones, so they are up to
  one frame more than 100 ms apart (`TablesInForce`).
* The presentation time of an IVF file is an unsigned 32-bit difference and starts again from
  zero after 2^32 ticks; `TimestampsSequential` holds for recordings shorter than that.
* A write of `writeFrame` that fails part way leaves a frame header, or part of it, or some of the
  data (`ivfwriter.go:168`-`173`). The header announces the whole frame, so a reader takes the
  bytes behind it, the next header included, for the rest: nothing is promised of what a reader
  gets from the first torn frame on. The buffer is kept, so the bytes that were put down are
  written a second time. `FramesInOrder` and `BeginsWithKeyFrame` say what the writer puts into the
  file, entry by entry (`ok` tells whether a frame was written in full).
* `ivfreader.go:113` says that all nil values are returned when no more frames are available; the
  code returns `io.EOF`. `LiveTail` follows the code.
* An RTP packet without payload is read back from an rtpdump file as RTCP, because a packet
  length of 0 is the mark of RTCP (`RecordsComeBack`).
* A `Source` that is not an IPv4 address makes a preamble `NewReader` refuses; `NewWriter` writes
  it without error (`Headers`, `ReadsToTheEnd`).
* More than three zeros in front of a start code, and zeros at the end of the stream, stay in
  the unit before them (`Unpadded` in `RecordedIsRead`).
* Of a comment header that takes several pages `ParseOpusTags` is given the first page only and
  refuses it.
* The tables of a transport stream are read once; a stream that changes them later keeps the
  old tracks.

## 6. Proofs

TLC checks each property on the instances of section 3; the theorems below hold for every
value of the constants that satisfies the named assumptions of the modules: any number of
tracks, goroutines, packets, losses and failures, any lengths, any counter and stamp width.
The assumptions are types of the inputs, evaluated by TLC in the runs; the few that say more
are named below.

Every proof has the same shape. None of the properties is inductive by itself: they speak of
what is in a file or has been returned, and are kept only because the locals of the calls
under way fit it. `Inv` in each module says how they fit. It was checked with TLC before it was
proved. A lemma `InitInv`, a lemma per action (`...Keeps`) and `NextInv` show that `Inv` is
inductive; the theorems follow from it.

**`TsTimelineProofs`** (any even `Wrap`, any start, jumps strictly shorter than half a cycle in
either direction, reordering from zero to less than half a cycle): `TypeCorrect`,
`TrackingHolds`. The next stamp is unwrapped against `lastTS`, so `Inv` adds that
`lastTS` is the DTS last given out. The core is arithmetic: for a reference `r` and any value
`v` within half a cycle of it, `extendTimestamp(r, v % Wrap) = v`. This is a lemma, used once
for the DTS and once for the PTS, whose reference is the DTS.

**`TsLinkProofs`, the writer**: `PacketsExactHolds`, `UnitsWholeHolds`, `CountersHold`, `TablesHold`.
`JobIsLast` and `Progress` tie the locals of `writePES` to the wire: nothing of the unit is there
before its first packet, and afterwards the wire ends with a run of its packets that reaches
exactly `total - remaining`. `CountersDue` says that each field `cc` is one more than the last
attempt on its PID; `TablesKnown` that `lastPSIDTS` is the time of a PAT and PMT that are on the
wire side by side. `TurnFits` is the arithmetic of header, adaptation field and payload.

**`TsLinkProofs`, writer, transport and reader**: `LinkInvHolds`, `ChannelImplemented` (the
refinement), `TimelineHolds`, `NoLossHolds`. They hold for any options and inputs, any number of
losses and repetitions and any bound on the packets under way. The argument has these layers:

* `WireInv` says what the wire tells: every packet of a unit says what `log` says of it
  (`UnitPacket`), a packet that was written is followed by the one that goes on with the unit, or
  ends it, or is the last one so far (`WireFlows`), tables are whole and name the tracks
  (`TablePiece`), and units are in the order of their DTS (`LogTimes`).
* `LinkInv` says how the reader fits the wire. `CounterSeen` is the heart: the counter a track saw
  last, plus `burst` plus one, is the counter of the next packet of its PID, be it on the wire or
  still to be written. With a gap shorter than a cycle, a packet whose counter is the
  expected one therefore follows with nothing missing, which is what `handleES` concludes. `Holds`
  says that a buffer has the bytes of one unit from the first on and, if nothing is missing
  since, up to the last packet of the PID; so when the next unit starts, or the input ends,
  `WireFlows` makes the buffer a whole unit that was written without error. `HandledOnce` is what
  is known of a packet that is about to come a second time. `Given` is what was returned.
* `ChannelWhileShort` maps each step to one of `AccessUnitChannel` or to none. Order and "at most
  once" come from `Holds`: what a track collects is later than all it has delivered.
* `OnTime`: per track there is one multiple of the cycle by which the stamps of everything
  delivered, of the unit being collected and of `lastTS` are ahead of the writer's. `Extend` is the
  lemma on `extendTimestamp` of `TsTimelineProofs`, `UnitsNear` the bound on the distance.
* `NothingMissed`: a unit whose start was received and that met no loss is delivered, or being
  collected without a gap (`Accounted`). `AddsUp` is needed because `handleES` gives up on the length
  of the buffer, which must not exceed that of the unit; that the length of a buffer is the sum
  over its pieces needs the recursion behind `FoldLeft` (`Sums`), by the least number principle.
* `ShortGaps`: the refused packets that are gone are counted against `failures`, so no gap is
  longer than `MaxBurst` plus the refused ones.

All of this needs the gaps to be shorter than a cycle (`GapsShort`): after 16 packets of a PID
missing in a row the next one looks as if none were. The theorems assume
`MaxBurst + MaxFailures < CCMod`, the condition on the constants under which `ShortGaps` proves it; the
lemmas `LinkAlways`, `ChannelWhileShort`, `TimelineWhileShort` and `LossWhileShort` are the same
results for any number of failing writes in behaviours with short gaps. `MaxBurstAssumption`
says that fewer than 15 packets of a PID in a row are lost: after 15 the next packet of the unit
looks like a repetition and is dropped, after which the counters fit again.
`TimeAssumption` says that DTS does not step back and that the recording is shorter than half a
cycle of the stamps, since losses may leave any two of its units next to each other.

**`TsForeignStreamProofs`**: `DataHolds`, `BuffersHold`, `TracksHold`. The packets are any set with
the types that parsing guarantees: a payload is not empty and not longer than a packet, and a PES
header is not longer than its payload (`StreamPacketsAssumption`, `TablePacketsAssumption`).
`Collects` is the strengthening: a track that collects is the one its PID leads to, holds a run
(`Run`) from a unit start on, and its `cc` is the counter of the last packet of the run, which
only repeats have followed. Without the last part a packet with the next counter could not be
known to follow; without the first, two entries of a PMT with the same PID could both claim the
packet. When a unit is returned its run is in the array that `finish` gave out, which
`startUnit` leaves alone because it fills the other one. `Looking` says that
the section assembler holds only pieces of the PID looked for, so an accepted section is
that of a PAT or PMT packet.

**`OggPagingProofs`** (packets of any length, any header type, serial, index and granule):
`LoopInvariant`, `LoopCorrect`, `RebuildCorrect`. While the packet is being cut, the bytes of full
pages, of the open page and of the rest add up and the open page has full segments only; after
the short segment the open page is the last page of the closed form; the pages made are its
first pages. `RebuildCorrect` is what makes the rewriting in place safe: the rebuilt page has the
size of the page it replaces and differs in the EOS flag only.

**`OggWriterProofs`**: `HeadersHold`, `PacketsHold`, `NumbersHold`, `GranulesHold`, `EndHolds` and the
action property `StableHolds`. `Exclusive` is the mutex: a caller that is in a call holds it, so
there is one call in progress (`Cur`). `Purpose`, `Made` and `Written` say what it is doing: its
pages are those of `CreatePages` for the track's current index and granule position, and the
file ends with the first `written` of them. `Numbers` and `Granules` give for each track what
number and position may come next; `EndOfStream` that the page noted for a track is its last
complete one and that EOS is set only on tracks `Close` is through with; `Layout` that entries
do not overlap, so that a page is found again by its offset; `Headers` how many header pages are
out at each stage.

`GranulesExact` speaks of a sum over the packets, which `Inv` does not know. `Clocked`, kept by a
second pass over the actions, says that each track has a clock, a function from the number of
packets so far to the time of the track (`IsClock`); that `previousGranulePosition`, less what the
packet under way has added, is its last value; and that every complete page of the track was
read off it. A new packet extends the clock (`FitsLonger`), one that ends moves its last value
(`FitsOver`). That the recursion in `Clock` defines this function is the least number principle
(`ClockIs`), and there is only one such function.

**`IvfWriterProofs`** (frames of any number of packets, any losses, any failing writes): `UntouchedHolds`,
`LossContained`, `KeyFrameHolds`, `OrderHolds`, `CountHolds`, `TimestampsHold`. `InOrder` says that
what is in the file left the encoder before what is in the buffer, or, since the last frame that
was written (`Settled`), is at the head of the buffer; `Buffer` that there is a buffer
only after a key frame, and that it begins with one until a frame was written; `Untouched` and `Contained` what the buffer is worth after a loss:
if none of its frames was hit it is exactly what was sent of the last frame, and a frame that
arrived in full leaves nothing behind. `Timeline` says that presentation times count from one
frame. `TimeAssumption` (`MaxFrames * Tick < TsMod`) limits the recording to one cycle of the
RTP stamps, 13 hours; beyond it `TimestampsSequential` is false, see section 5.

**`LiveTailProofs`** (any files of the two formats, any growth): `RecordsHold` and the action
property `EndHolds`. `ReaderAt` says that `good` is the end of the last record given out and that
a call under way is in the next record, behind the parts it has read. `FilesAssumption` says how
the offsets `end` add up, which replaces an induction over the records; that some record is the
first to reach beyond an offset is the least number principle (`LeastNumber`, from the
well-foundedness of the naturals).

**`RtpDumpProofs`** (any goroutines, any packets that fit, any torn writes and cuts): `RecordsHold`
and `EndHolds`. `Tiled` says that the pieces of the file lie one behind the other and that one
whose `Write` returned no error is whole; `WriterAt` that at most one `WritePacket` is under way and
what it has put down is the last piece. A reader is either in step (`AtRecord`: at the first byte
of the next record, or behind its header with the header in its locals) or has met a cut record
and passed it (`Passed`), after which nothing is claimed but that all whole records in front of
it were given out and that, where it can be told, the end was reported as what it is.

## 7. Only model-checked

* Liveness, which the prover does not do: `ReaderFinishes`, `CallsReturn`, `CatchesUp`,
  `ReadsToTheEnd`.
* `DurationAsInRFC6716`, which the run checks for every first two bytes there are, and
  `HeadRoundTrips`, `TagsRoundTrip`: the headers are folded byte by byte.
* `NalFile`: its properties compare the reader's byte-by-byte scan with units cut by
  position (`SetToSortSeq`, `SelectSeq`, a fold over the units of a file), which needs
  induction over the bytes.

## 8. Not modelled, and the plan

Left out on purpose:

* bit positions inside transport and PES headers, the polynomials of CRC and Ogg checksum, byte
  order, the value of the PCR, logging, names of NAL unit types, layer and temporal ids;
* a transport packet of which a failing `dst.Write` leaves some of its 188 bytes: a failing write is
  assumed to leave nothing (`Fail` in `TsWriter`). `writer.go` does not fill up such a packet;
* calls of a transport stream writer after `Close`, which keeps no record of it, and calls of a
  growing file's reader after an error without `ResetReader`, which would go on inside a record;
* fields of the IVF headers and `ptsToTimestamp`, arithmetic without state;
* start time and port of an rtpdump header, and offsets that are negative or not whole
  milliseconds;
* UTF-8 beyond one-byte characters, and lengths of 2^32 bytes, in Opus headers;
* read errors other than the end of the input in the transport stream reader: they are
  returned as they are, and what the caller does then is open;
* VP8 frames of several partitions: each partition starts with S = 1, by which alone
  `ivfwriter` takes it for the start of a frame. pion sends one;
* the depacketizers of pion/rtp (external). An AV1 packet carries whole OBUs. What the end of a
  fragmented unit gives whose start was dropped is any of the outcomes in `NalFile.Unmarshal`;
* the shared helpers, a random number and an empty package.

Plan: every invariant and action property but those of section 7 is proved. What could be added
is the reader of a stream whose reads fail in between, and an IVF writer for VP8 frames of several
partitions.
