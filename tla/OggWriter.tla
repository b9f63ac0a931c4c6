------------------------------ MODULE OggWriter ------------------------------
(***************************************************************************)
(* oggwriter.Writer, several Opus tracks multiplexed into one Ogg file,    *)
(* and oggwriter.OggWriter, one track whose headers the constructor writes.*)
(* Goroutines call NewTrack, WriteRTP and Close; each call holds the       *)
(* writer's mutex from its first check to its return.  A call that writes  *)
(* goes through stages and writes one page per step, since every write of  *)
(* the output can fail.  With a seekable output Close rewrites the last    *)
(* page of each track in place to set EOS; else Writer appends an empty    *)
(* page per track and OggWriter leaves the stream without EOS.             *)
(*                                                                         *)
(* The file is the sequence of what was written: pages (OggPages) and the  *)
(* fragments failing writes leave, each with its place and its packet.     *)
(***************************************************************************)
EXTENDS OggPages

CONSTANTS Callers,     \* goroutines
          Requests,    \* tracks asked for: [ssrc, serial], the Ogg serial
                       \* number being given or drawn at random
          Payloads,    \* Opus payloads: [len, samples], the duration in
                       \* samples being 0 when the payload is not valid Opus
          TagsLength,  \* length of the OpusTags packet
          MaxPackets,  \* bound: packets handed to WriteRTP
          MaxFailures, \* bound: failing writes
          NoCaller

ASSUME NoCallerAssumption == NoCaller \notin Callers
ASSUME RequestsAssumption == Requests \subseteq [ssrc : Nat, serial : Nat]
ASSUME PayloadsAssumption ==
  Payloads \subseteq [len : Nat, samples : Nat] /\ TagsLength \in Nat
ASSUME BoundsAssumption == MaxPackets \in Nat /\ MaxFailures \in Nat

VARIABLES single,      \* the writer is an OggWriter
          seekable,    \* Writer.pageRewriter # nil: WithSeekableOutput was
                       \* used; OggWriter.fd # nil: it was made by New
          mu,          \* Writer.mu: the caller that holds it
          open,        \* Writer.stream # nil
          started,     \* Writer.started
          tracks,      \* Writer.trackOrder
          call,        \* per caller, where its call is
          file,        \* the output
          packets,     \* packets WriteRTP got as far as writing, their fate
          failures,    \* failed writes
          errors       \* where writes failed: "header", "packet", "eos"

vars == <<single, seekable, mu, open, started, tracks, call, file, packets,
          failures, errors>>

idHeaderLength == 19   \* channel mapping family 0

-----------------------------------------------------------------------------
(* An entry of the file: a page, its first byte and the packet whose bytes *)
(* it has (0: a header packet, -1: none).                                  *)
Entry(page, at, id) == [page |-> page, at |-> at, id |-> id]

newTrackState(ssrc, serial) ==
  [ssrc |-> ssrc, serial |-> serial, pageIndex |-> 0,
   previousGranulePosition |-> 0, lastPageWritten |-> FALSE,
   last |-> Entry(NilPage(serial, 0, 0), 0, -1)]

(* A call: what it is, the stage it is in and the track that is about, the *)
(* packet it was made for and its track, the pages of the current packet   *)
(* and how many of them are written.                                       *)
Idle == [op |-> "none", stage |-> "idle", track |-> 0, to |-> 0, id |-> 0,
         pages |-> << >>, written |-> 0]

At(k, stage, i) ==
  [k EXCEPT !.stage = stage, !.track = i, !.pages = << >>, !.written = 0]

(* What New, NewWith and NewWriter create, tracks and calls aside.         *)
Fresh ==
  /\ seekable \in BOOLEAN
  /\ open = TRUE
  /\ started = FALSE
  /\ file = << >>
  /\ packets = << >>
  /\ failures = 0
  /\ errors = {}

(* NewWriter: no track and nothing written yet.                            *)
InitWriter ==
  /\ Fresh
  /\ single = FALSE
  /\ tracks = << >>
  /\ mu = NoCaller
  /\ call = [c \in Callers |-> Idle]

(* New or NewWith, before newWith writes the two headers.  Nobody has the  *)
(* writer before they are out, which is as if c held its mutex.            *)
InitOggWriter ==
  /\ Fresh
  /\ single = TRUE
  /\ \E r \in Requests : tracks = <<newTrackState(r.ssrc, r.serial)>>
  /\ mu \in Callers
  /\ call = [c \in Callers |->
               IF c = mu THEN At([Idle EXCEPT !.op = "new"], "ids", 1) ELSE Idle]

Init == InitWriter \/ InitOggWriter

serialInUse(serial) == \E i \in DOMAIN tracks : tracks[i].serial = serial

(* NewTrack.  A serial drawn at random is drawn again while it is in use,  *)
(* a given one that is in use is refused: either way it is a free one.     *)
NewTrack(ssrc, serial) ==
  /\ mu = NoCaller
  /\ open
  /\ ~single
  /\ ~started
  /\ \A i \in DOMAIN tracks : tracks[i].ssrc # ssrc
  /\ ~serialInUse(serial)
  /\ tracks' = Append(tracks, newTrackState(ssrc, serial))
  /\ UNCHANGED <<mu, open, started, call, file, packets, failures, errors>>

-----------------------------------------------------------------------------
(* Close after startLocked: EOS for each track, then the end; an OggWriter *)
(* without a file of its own ends without EOS.                             *)
Ending(k) ==
  IF tracks = << >> \/ (single /\ ~seekable) THEN At(k, "close", 0)
  ELSE At(k, "eos", 1)

(* The rest of a call after startLocked.                                   *)
Body(k) ==
  CASE k.op = "write" -> At(k, "packet", k.to)
    [] k.op = "close" -> Ending(k)
    [] OTHER -> Idle

StartLocked(k) ==
  IF started THEN Body(k)
  ELSE IF tracks = << >> THEN At(k, "start", 0) ELSE At(k, "ids", 1)

(* Fault: both headers of a track, then those of the next one.             *)
NextHeader_PerTrack(k) ==
  IF k.stage = "ids" THEN At(k, "tags", k.track)
  ELSE IF k.track < Len(tracks) THEN At(k, "ids", k.track + 1)
  ELSE At(k, "start", 0)

(* startLocked: all identification headers, then all comment headers.      *)
NextHeader(k) ==
  IF k.track < Len(tracks) THEN At(k, k.stage, k.track + 1)
  ELSE IF k.stage = "ids" THEN At(k, "tags", 1)
  ELSE At(k, "start", 0)

(* Close: the next track.                                                  *)
NextEnd(k) ==
  IF k.track < Len(tracks) THEN At(k, "eos", k.track + 1) ELSE At(k, "close", 0)

(* The call of c goes on with k, or is over.                               *)
Resume(c, k) ==
  /\ call' = [call EXCEPT ![c] = k]
  /\ mu' = IF k = Idle THEN NoCaller ELSE mu

(* Fault: the call does not take the mutex.                                *)
WriteRTP_NoLock(c, i, len, samples) ==
  /\ open
  /\ Len(packets) < MaxPackets
  /\ mu' = c
  /\ packets' = Append(packets, [track |-> i, len |-> len, samples |-> samples,
                                 status |-> "pending"])
  /\ call' = [call EXCEPT ![c] =
       StartLocked([Idle EXCEPT !.op = "write", !.id = Len(packets) + 1, !.to = i])]
  /\ UNCHANGED <<open, started, tracks, file, failures, errors>>

(* Track.WriteRTP for a packet with the track's SSRC and a payload, or     *)
(* OggWriter.WriteRTP, whose headers are written already.  What does not   *)
(* pass the checks before startLocked changes nothing.                     *)
WriteRTP(c, i, len, samples) ==
  /\ mu = NoCaller
  /\ open
  /\ Len(packets) < MaxPackets
  /\ mu' = c
  /\ packets' = Append(packets, [track |-> i, len |-> len, samples |-> samples,
                                 status |-> "pending"])
  /\ call' = [call EXCEPT ![c] =
       StartLocked([Idle EXCEPT !.op = "write", !.id = Len(packets) + 1, !.to = i])]
  /\ UNCHANGED <<open, started, tracks, file, failures, errors>>

(* Close: headers of a writer that has not started, then EOS per track.    *)
Close(c) ==
  /\ mu = NoCaller
  /\ open
  /\ mu' = c
  /\ call' = [call EXCEPT ![c] = StartLocked([Idle EXCEPT !.op = "close"])]
  /\ UNCHANGED <<open, started, tracks, file, packets, failures, errors>>

-----------------------------------------------------------------------------
SetStatus(id, st) ==
  packets' = IF id = 0 THEN packets ELSE [packets EXCEPT ![id].status = st]

(* Fault: an error return that does not unlock.                            *)
Abandon_KeepsLock(c) ==
  /\ call' = [call EXCEPT ![c] = Idle]
  /\ UNCHANGED <<mu, packets>>

(* A packet failed: WriteRTP returns the error, Close goes on with EOS.    *)
(* When it was a header, the packet WriteRTP was called with is refused:   *)
(* writeOpusPayload never saw it.                                          *)
Abandon(c) ==
  /\ SetStatus(call[c].id, IF call[c].stage = "packet" THEN "failed" ELSE "refused")
  /\ Resume(c, IF call[c].op = "close" THEN Ending(call[c]) ELSE Idle)

FileSize ==
  IF file = << >> THEN 0
  ELSE file[Len(file)].at + file[Len(file)].page.size

(* A failing write leaves nothing of the page, or part of it.              *)
Junk(n) ==
  [serial |-> -1, index |-> 0, flags |-> {}, granule |-> noGranulePosition,
   payload |-> 0, size |-> n]

Writing(k) == k.stage \in {"ids", "tags", "packet"}

(* The packet that a stage writes: length, flags, number in the file.      *)
PacketLength(k) ==
  CASE k.stage = "ids" -> idHeaderLength
    [] k.stage = "tags" -> TagsLength
    [] OTHER -> packets[k.id].len

PacketFlags(k) == IF k.stage = "ids" THEN {"bos"} ELSE {}

PacketId(k) == IF k.stage = "packet" THEN k.id ELSE 0

(* opusPacketSampleCount refuses the payload, after the headers were       *)
(* written; nothing of the packet is.                                      *)
BadPayload(c) ==
  /\ call[c].stage = "packet"
  /\ call[c].pages = << >>
  /\ packets[call[c].id].samples = 0
  /\ Abandon(c)
  /\ UNCHANGED <<open, started, tracks, file, failures, errors>>

(* Fault: one clock for all tracks.                                        *)
Granule_Shared(k) ==
  IF k.stage # "packet" THEN 0
  ELSE tracks[1].previousGranulePosition + packets[k.id].samples

(* Granule position of the packet: 0 for headers.                          *)
Granule(k) ==
  IF k.stage # "packet" THEN 0
  ELSE tracks[k.track].previousGranulePosition + packets[k.id].samples

(* writeOpusPayload and writePage up to the first write: the granule       *)
(* position advances, the pages are made.                                  *)
BeginPacket(c) ==
  LET k == call[c]
      t == tracks[k.track]
  IN /\ Writing(k)
     /\ k.pages = << >>
     /\ k.stage = "packet" => packets[k.id].samples > 0
     /\ tracks' = IF k.stage # "packet" THEN tracks
                  ELSE [tracks EXCEPT ![k.track].previousGranulePosition =
                          Granule(k)]
     /\ call' = [call EXCEPT ![c].pages =
          CreatePages(t.serial, t.pageIndex, PacketLength(k), PacketFlags(k),
                      Granule(k))]
     /\ UNCHANGED <<mu, open, started, file, packets, failures, errors>>

(* The next page of the packet, as it will be in the file.                 *)
NextPage(k) == Entry(k.pages[k.written + 1], FileSize, PacketId(k))

(* A page goes out that is not the last of the packet.                     *)
WritePage(c) ==
  LET k == call[c]
  IN /\ k.written + 1 < Len(k.pages)
     /\ file' = Append(file, NextPage(k))
     /\ call' = [call EXCEPT ![c].written = @ + 1]
     /\ UNCHANGED <<mu, open, started, tracks, packets, failures, errors>>

(* Faults: only the first page is noted; the offset behind the page is.    *)
NoteLastPage_Once(t, e) ==
  IF seekable /\ ~t.lastPageWritten
  THEN [t EXCEPT !.lastPageWritten = TRUE, !.last = e]
  ELSE t

NoteLastPage_Behind(t, e) ==
  IF seekable
  THEN [t EXCEPT !.lastPageWritten = TRUE,
                 !.last = [e EXCEPT !.at = @ + e.page.size]]
  ELSE t

(* A seekable writer notes where the last page of a packet is and what it  *)
(* was made of.                                                            *)
NoteLastPage(t, e) ==
  IF seekable THEN [t EXCEPT !.lastPageWritten = TRUE, !.last = e] ELSE t

(* Fault: the page index counts packets instead of pages.                  *)
Counted_Packets(t, k) == [t EXCEPT !.pageIndex = @ + 1]

Counted(t, k) == [t EXCEPT !.pageIndex = @ + Len(k.pages)]

(* The last page of the packet: the track's page index moves on.           *)
WriteLastPage(c) ==
  LET k == call[c]
  IN /\ k.pages # << >>
     /\ k.written + 1 = Len(k.pages)
     /\ file' = Append(file, NextPage(k))
     /\ tracks' = [tracks EXCEPT ![k.track] = Counted(NoteLastPage(@, NextPage(k)), k)]
     /\ SetStatus(PacketId(k), "ok")
     /\ Resume(c, IF k.stage = "packet" THEN Idle ELSE NextHeader(k))
     /\ UNCHANGED <<open, started, failures, errors>>

(* A write fails and its call returns the error; when it was newWith there *)
(* is no writer.                                                           *)
PageFails(c) ==
  LET k == call[c]
  IN /\ k.pages # << >>
     /\ failures < MaxFailures
     /\ failures' = failures + 1
     /\ \/ UNCHANGED file
        \/ file' = Append(file, Entry(Junk(1), FileSize, -1))
     /\ errors' = errors \cup {IF PacketId(k) = 0 THEN "header" ELSE "packet"}
     /\ Abandon(c)
     /\ open' = (k.op # "new")
     /\ UNCHANGED <<started, tracks>>

Started(c) ==
  /\ call[c].stage = "start"
  /\ started' = TRUE
  /\ Resume(c, Body(call[c]))
  /\ UNCHANGED <<open, tracks, file, packets, failures, errors>>

-----------------------------------------------------------------------------
(* WriteAt: replaces an entry of that offset and size, and damages         *)
(* everything else it reaches into.                                        *)
Overwrite(e) ==
  [k \in DOMAIN file |->
     IF file[k].at = e.at /\ file[k].page.size = e.page.size THEN e
     ELSE IF /\ file[k].at + file[k].page.size > e.at
             /\ file[k].at < e.at + e.page.size
     THEN [file[k] EXCEPT !.page = Junk(@.size)]
     ELSE file[k]]

(* markTrackEndOfStream: the noted page once more, with EOS.               *)
Rebuilt(t) ==
  LET p == t.last.page
  IN [t.last EXCEPT !.page =
        CreatePages(t.serial, p.index, p.payload, p.flags \cup {"eos"}, p.granule)[1]]

MarkEndOfStream(c) ==
  LET t == tracks[call[c].track]
  IN /\ call[c].stage = "eos"
     /\ seekable
     /\ file' = IF t.lastPageWritten THEN Overwrite(Rebuilt(t)) ELSE file
     /\ Resume(c, NextEnd(call[c]))
     /\ UNCHANGED <<open, started, tracks, packets, failures, errors>>

(* writeNilEndOfStreamPage, for a track with at least one page.            *)
WriteNilEndOfStream(c) ==
  LET i == call[c].track
      t == tracks[i]
      p == NilPage(t.serial, t.pageIndex, t.previousGranulePosition)
  IN /\ call[c].stage = "eos"
     /\ ~seekable
     /\ IF t.pageIndex = 0 THEN UNCHANGED <<file, tracks>>
        ELSE /\ file' = Append(file, Entry(p, FileSize, -1))
             /\ tracks' = [tracks EXCEPT ![i].pageIndex = @ + 1]
     /\ Resume(c, NextEnd(call[c]))
     /\ UNCHANGED <<open, started, packets, failures, errors>>

(* The EOS write fails; Close notes the error and goes on.  What a partial *)
(* write leaves is a damaged page, in place or at the end of the file.     *)
EndOfStreamFails(c) ==
  LET t == tracks[call[c].track]
  IN /\ call[c].stage = "eos"
     /\ IF seekable THEN t.lastPageWritten ELSE t.pageIndex > 0
     /\ failures < MaxFailures
     /\ failures' = failures + 1
     /\ errors' = errors \cup {"eos"}
     /\ \/ UNCHANGED file
        \/ seekable /\ file' = Overwrite([t.last EXCEPT !.page = Junk(@.size)])
        \/ ~seekable /\ file' = Append(file, Entry(Junk(1), FileSize, -1))
     /\ Resume(c, NextEnd(call[c]))
     /\ UNCHANGED <<open, started, tracks, packets>>

Closed(c) ==
  /\ call[c].stage = "close"
  /\ open' = FALSE
  /\ Resume(c, Idle)
  /\ UNCHANGED <<started, tracks, file, packets, failures, errors>>

Step(c) ==
  /\ \/ BadPayload(c) \/ BeginPacket(c) \/ WritePage(c) \/ WriteLastPage(c)
     \/ PageFails(c) \/ Started(c) \/ MarkEndOfStream(c)
     \/ WriteNilEndOfStream(c) \/ EndOfStreamFails(c) \/ Closed(c)
  /\ UNCHANGED <<single, seekable>>

Call(c) ==
  /\ call[c] = Idle
  /\ \/ \E r \in Requests : NewTrack(r.ssrc, r.serial)
     \/ \E i \in DOMAIN tracks, p \in Payloads : WriteRTP(c, i, p.len, p.samples)
     \/ Close(c)
  /\ UNCHANGED <<single, seekable>>

Next == \E c \in Callers : Call(c) \/ Step(c)

Spec == Init /\ [][Next]_vars /\ \A c \in Callers : WF_vars(Step(c))

-----------------------------------------------------------------------------
(* Where in file f the pages of a serial are, and which of them end a      *)
(* packet.                                                                 *)
Of(f, serial) == {k \in DOMAIN f : f[k].page.serial = serial}

Ends(e) == e.page.granule # noGranulePosition

Complete(f, serial) == {k \in Of(f, serial) : Ends(f[k])}

(* A file whose headers were written without error starts with one BOS     *)
(* page per track, before anything else, as Ogg grouping asks, and the     *)
(* comment header of every track is complete before the first audio page,  *)
(* whoever calls WriteRTP or Close first (startLocked).                    *)
HeadersFirst ==
  errors \cap {"header", "eos"} = {} =>
    /\ \A k \in DOMAIN file :
         /\ "bos" \in file[k].page.flags <=> k <= Len(tracks)
         /\ k <= Len(tracks) => file[k].page.serial = tracks[k].serial
    /\ \A k \in DOMAIN file, i \in DOMAIN tracks :
         file[k].id > 0 =>
           \E j \in Complete(file, tracks[i].serial) :
             Len(tracks) < j /\ j < k /\ file[j].id = 0

(* Entry e is page m of a packet of len bytes whose page 1 has number      *)
(* index.                                                                  *)
IsPageOf(e, serial, len, index, m) ==
  /\ e.page.serial = serial
  /\ e.page.index = index + m - 1
  /\ "cont" \in e.page.flags <=> m > 1
  /\ Ends(e) <=> m = PageCount(len)
  /\ e.page.payload = PagePayload(len, m)

(* File f has packet id of len bytes from entry a on and nowhere else.     *)
WholeFrom(f, a, serial, id, len) ==
  /\ a \in DOMAIN f /\ a + PageCount(len) - 1 \in DOMAIN f
  /\ \A k \in DOMAIN f :
       /\ f[k].id = id <=> a <= k /\ k < a + PageCount(len)
       /\ f[k].id = id =>
            IsPageOf(f[k], serial, len, f[a].page.index, k - a + 1)

(* A packet WriteRTP reported as written is in the file as a whole: its    *)
(* pages follow each other, number and continuation flag included, only    *)
(* the last one carries a granule position, and no page of another call    *)
(* came in between (writePage under the mutex).  Only a failing EOS        *)
(* rewrite can damage it later.                                            *)
PacketsWhole ==
  \A id \in DOMAIN packets :
    (packets[id].status = "ok" /\ "eos" \notin errors) =>
      \E a \in DOMAIN file :
        WholeFrom(file, a, tracks[packets[id].track].serial, id, packets[id].len)

(* Packets that were given up, the headers among them.                     *)
GivenUp == {id \in DOMAIN packets : packets[id].status = "failed"}
             \cup {id \in {0} : "header" \in errors}

(* Page number n may follow entry e: it falls back only behind the pages   *)
(* of a packet that was given up.                                          *)
MayFollow(e, n, lost) ==
  \/ n = e.page.index + 1
  \/ n <= e.page.index /\ ~Ends(e) /\ e.id \in lost

Numbered(f, serial, lost) ==
  \A k \in Of(f, serial) :
    /\ (\A j \in Of(f, serial) : j >= k) => f[k].page.index = 0
    /\ \A j \in Of(f, serial) :
         (j < k /\ \A m \in Of(f, serial) : m <= j \/ m >= k) =>
           MayFollow(f[j], f[k].page.index, lost)

(* Page numbers of a serial have no gap, which a player would take for a   *)
(* lost page (pageIndex of writePage).                                     *)
NumbersHaveNoGap ==
  "eos" \notin errors =>
    \A i \in DOMAIN tracks : Numbered(file, tracks[i].serial, GivenUp)

(* What packet p adds to the time of track i: its duration, when it is a   *)
(* packet of the track that got as far as writeOpusPayload, whether its    *)
(* pages could be written or not.                                          *)
Share(p, i) ==
  IF p.track = i /\ p.status \in {"ok", "failed"} THEN p.samples ELSE 0

(* The time of track i after each of the packets ps.                       *)
Clock(ps, i) ==
  LET c[n \in 0..Len(ps)] == IF n = 0 THEN 0 ELSE c[n - 1] + Share(ps[n], i)
  IN c

(* The granule position of a page that ends a packet is the sum of the     *)
(* durations of the packets of its own track up to that one, those whose   *)
(* write failed included; 0 for a header and the whole sum for the page    *)
(* writeNilEndOfStreamPage appends.  Packets of another track do not move  *)
(* it, nor do refused ones (previousGranulePosition of writeOpusPayload).  *)
GranulesExact ==
  \A i \in DOMAIN tracks : \A k \in Complete(file, tracks[i].serial) :
    file[k].page.granule =
      Clock(packets, i)[IF file[k].id >= 0 THEN file[k].id ELSE Len(packets)]

(* The last complete page of the serial has EOS, and no other page.        *)
Ended(f, serial) ==
  Complete(f, serial) # {} =>
    \E e \in Complete(f, serial) :
      /\ {k \in Of(f, serial) : "eos" \in f[k].page.flags} = {e}
      /\ \A k \in Complete(f, serial) :
           k <= e /\ f[k].page.granule <= f[e].page.granule

(* After Close every track that has a complete page ends in exactly one    *)
(* EOS page (unless the output of an OggWriter belongs to its caller);     *)
(* what follows it can only be pages of a packet that failed.  No complete *)
(* page of the track is later than it, whether it was rewritten in place   *)
(* or appended (markTrackEndOfStream, writeNilEndOfStreamPage).            *)
EndsWithEOS ==
  (~open /\ "eos" \notin errors /\ (single => started /\ seekable)) =>
    \A i \in DOMAIN tracks : Ended(file, tracks[i].serial)

(* What is in the file stays there, byte for byte: the only change is the  *)
(* EOS flag of a page that ends a packet, set in place during Close, and   *)
(* after Close nothing is written at all.  (A failing write is excepted.)  *)
FileStable ==
  [][failures' = failures =>
       /\ Len(file') >= Len(file)
       /\ ~open => file' = file
       /\ \A k \in DOMAIN file :
            \/ file'[k] = file[k]
            \/ /\ file'[k] = [file[k] EXCEPT !.page.flags = @ \cup {"eos"}]
               /\ Ends(file[k])
               /\ Len(file') = Len(file)]_vars

(* Every call returns and gives the mutex back, error paths included.      *)
CallsReturn == \A c \in Callers : mu = c ~> mu = NoCaller

(* oggwriter.go:425-426 "NewTrack registers a logical Opus stream [...] It *)
(* must be called before the first packet is written", and :53 "cannot add *)
(* Ogg tracks after writing has started".                                  *)
NoTrackAfterWriting ==
  [][Len(tracks') > Len(tracks) => file = << >>]_vars

-----------------------------------------------------------------------------
(* The inductive invariant behind these properties.                        *)
Page == [serial : Int, index : Nat, flags : SUBSET {"bos", "cont", "eos"},
         granule : Int, payload : Nat, size : Nat]

FileEntry == [page : Page, at : Nat, id : Int]

TrackState ==
  [ssrc : Nat, serial : Nat, pageIndex : Nat, previousGranulePosition : Nat,
   lastPageWritten : BOOLEAN, last : FileEntry]

SentPacket ==
  [track : Nat, len : Nat, samples : Nat,
   status : {"pending", "ok", "failed", "refused"}]

CallState ==
  [op : {"none", "new", "write", "close"},
   stage : {"idle", "ids", "tags", "start", "packet", "eos", "close"},
   track : Nat, to : Nat, id : Nat, pages : Seq(Page), written : Nat]

TypeOK ==
  /\ single \in BOOLEAN /\ seekable \in BOOLEAN
  /\ open \in BOOLEAN /\ started \in BOOLEAN
  /\ mu \in Callers \cup {NoCaller}
  /\ tracks \in Seq(TrackState)
  /\ call \in [Callers -> CallState]
  /\ file \in Seq(FileEntry)
  /\ packets \in Seq(SentPacket)
  /\ failures \in Nat
  /\ errors \subseteq {"header", "packet", "eos"}

(* The mutex: who holds it is in a call, and nobody else; no call begins   *)
(* on a closed writer.                                                     *)
Exclusive ==
  /\ \A c \in Callers : call[c] # Idle <=> mu = c
  /\ ~open => mu = NoCaller

(* The call in progress.                                                   *)
Cur == IF mu = NoCaller THEN Idle ELSE call[mu]

(* Serials tell the tracks apart, pages and packets belong to one of them. *)
Serials ==
  /\ \A i, j \in DOMAIN tracks : tracks[i].serial = tracks[j].serial => i = j
  /\ \A m \in DOMAIN file :
       \/ file[m].page.serial = -1
       \/ \E i \in DOMAIN tracks : file[m].page.serial = tracks[i].serial
  /\ \A id \in DOMAIN packets : packets[id].track \in DOMAIN tracks

(* What a call is for, and the stages it goes through.                     *)
Purpose(k) ==
  /\ k.op = "none" => k = Idle
  /\ k.op = "new" => single
  /\ IF k.op = "write"
     THEN /\ k.id \in DOMAIN packets /\ packets[k.id].status = "pending"
          /\ k.to \in DOMAIN tracks /\ packets[k.id].track = k.to
     ELSE k.id = 0
  /\ k.stage \in {"ids", "tags"} => ~started /\ k.track \in DOMAIN tracks
  /\ k.stage = "start" => ~started
  /\ k.stage = "packet" => started /\ k.op = "write" /\ k.track = k.to
  /\ k.stage \in {"eos", "close"} => k.op = "close"
  /\ k.stage = "eos" => k.track \in DOMAIN tracks
  /\ k.stage = "idle" => k.op = "none"

(* The pages a call is writing are those of its packet.                    *)
Made(k) ==
  IF k.pages = << >> THEN k.written = 0
  ELSE /\ Writing(k)
       /\ k.written < Len(k.pages)
       /\ k.pages = CreatePages(tracks[k.track].serial, tracks[k.track].pageIndex,
            PacketLength(k), PacketFlags(k),
            IF k.stage = "packet" THEN tracks[k.track].previousGranulePosition
            ELSE 0)

(* The end of the file is what was written of them, and a packet being     *)
(* written is nowhere else.                                                *)
Written(k) ==
  /\ k.written <= Len(file)
  /\ \A m \in 1..k.written :
       /\ file[Len(file) - k.written + m].page = k.pages[m]
       /\ file[Len(file) - k.written + m].id = PacketId(k)
  /\ k.op = "write" =>
       \A m \in DOMAIN file :
         file[m].id = k.id <=>
           k.stage = "packet" /\ m > Len(file) - k.written
  /\ \A m \in DOMAIN file : file[m].id <= Len(packets)

(* Entries do not overlap.                                                 *)
Layout ==
  /\ \A j \in DOMAIN file : file[j].page.size > 0
  /\ \A j, k \in DOMAIN file : j < k => file[j].at + file[j].page.size <= file[k].at

(* Number n may come next on the serial.                                   *)
Expects(f, serial, n, lost) ==
  /\ Of(f, serial) = {} => n = 0
  /\ \A j \in Of(f, serial) :
       (\A m \in Of(f, serial) : m <= j) => MayFollow(f[j], n, lost)

(* Page numbers of complete pages are used up.                             *)
Past(f, serial, n) == \A k \in Complete(f, serial) : f[k].page.index < n

Numbers ==
  \A i \in DOMAIN tracks :
    /\ Past(file, tracks[i].serial, tracks[i].pageIndex)
    /\ "eos" \notin errors =>
         /\ Numbered(file, tracks[i].serial, GivenUp)
         /\ Expects(file, tracks[i].serial,
              tracks[i].pageIndex + (IF Cur.track = i THEN Cur.written ELSE 0),
              GivenUp)

(* Granule positions grow from page to page.                               *)
Growing(f, serial, ps) ==
  \A j, k \in Complete(f, serial) :
    j < k =>
      /\ f[j].page.granule <= f[k].page.granule
      /\ f[k].id > 0 =>
           f[j].page.granule + ps[f[k].id].samples <= f[k].page.granule

(* No complete page of the serial is later than g.                         *)
Until(f, serial, g) == \A k \in Complete(f, serial) : f[k].page.granule <= g

(* Duration of the packet being written on track i.                        *)
Underway(i) ==
  IF Cur.stage = "packet" /\ Cur.pages # << >> /\ Cur.track = i
  THEN packets[Cur.id].samples ELSE 0

Granules ==
  \A i \in DOMAIN tracks :
    /\ Growing(file, tracks[i].serial, packets)
    /\ Until(file, tracks[i].serial,
             tracks[i].previousGranulePosition - Underway(i))
    /\ ~started => tracks[i].previousGranulePosition = 0

NoEOS(f, serial) == \A k \in Of(f, serial) : "eos" \notin f[k].page.flags

(* A page that ends a packet, rebuilt alone, is as long as it was.         *)
EndShape(p) ==
  /\ p.payload < pageCapacity
  /\ p.size = pageHeaderSize + ((p.payload \div segmentSize) + 1) + p.payload

(* The page noted for a track is its last complete one.                    *)
Noted(f, t) ==
  /\ Complete(f, t.serial) # {} => t.lastPageWritten
  /\ t.lastPageWritten =>
       /\ EndShape(t.last.page)
       /\ \E k \in Complete(f, t.serial) :
            f[k] = t.last /\ \A j \in Complete(f, t.serial) : j <= k

(* Close is through with track i.                                          *)
Through(i) ==
  ~open \/ Cur.stage = "close" \/ (Cur.stage = "eos" /\ i < Cur.track)

EndOfStream ==
  \A i \in DOMAIN tracks :
    IF Through(i)
    THEN ("eos" \notin errors /\ (single => started /\ seekable)) =>
           Ended(file, tracks[i].serial)
    ELSE /\ NoEOS(file, tracks[i].serial)
         /\ seekable => Noted(file, tracks[i])

(* The comment header of track i is complete.                              *)
Tagged(i) ==
  \E j \in Complete(file, tracks[i].serial) : Len(tracks) < j /\ file[j].id = 0

(* How far the headers are, as long as they go well.                       *)
Headers ==
  errors \cap {"header", "eos"} = {} =>
    /\ HeadersFirst
    /\ IF started THEN \A i \in DOMAIN tracks : Tagged(i)
       ELSE /\ \A m \in DOMAIN file : file[m].id <= 0
            /\ Cur.stage = "idle" => file = << >>
            /\ Cur.stage = "ids" => Len(file) = Cur.track - 1
            /\ Cur.stage = "tags" => \A i \in 1..(Cur.track - 1) : Tagged(i)
            /\ Cur.stage = "start" => \A i \in DOMAIN tracks : Tagged(i)
            /\ Cur.stage \in {"tags", "start"} => Len(file) >= Len(tracks)
            /\ Cur.stage \notin {"packet", "eos", "close"}

Inv ==
  /\ TypeOK /\ Exclusive /\ Serials
  /\ Purpose(Cur) /\ Made(Cur) /\ Written(Cur)
  /\ Layout /\ PacketsWhole /\ Numbers /\ Granules /\ EndOfStream /\ Headers

(* c is the time of track i after each of the packets ps.                  *)
IsClock(c, ps, i) ==
  /\ c \in [0..Len(ps) -> Nat]
  /\ c[0] = 0
  /\ \A n \in 1..Len(ps) : c[n] = c[n - 1] + Share(ps[n], i)

(* Clock c of track i stands at g, and the granule positions of its serial *)
(* are read off it.                                                        *)
Fits(c, ps, i, g, f, serial) ==
  /\ IsClock(c, ps, i)
  /\ g = c[Len(ps)]
  /\ \A k \in Complete(f, serial) :
       f[k].page.granule = c[IF f[k].id >= 0 THEN f[k].id ELSE Len(ps)]

(* Beyond Inv: every track has a clock; the packet being written is the    *)
(* last one, and a page that belongs to no packet is one of Close.         *)
Clocked ==
  /\ \A i \in DOMAIN tracks : \E c \in [0..Len(packets) -> Nat] :
       Fits(c, packets, i, tracks[i].previousGranulePosition - Underway(i),
            file, tracks[i].serial)
  /\ Cur.op = "write" => Cur.id = Len(packets)
  /\ \A i \in DOMAIN tracks : \A k \in Complete(file, tracks[i].serial) :
       file[k].id < 0 => ~open \/ Cur.op = "close"
=============================================================================
