----------------------------- MODULE OpusPackets -----------------------------
(***************************************************************************)
(* One packet of an Ogg Opus stream on its way through the loops of        *)
(* createPagesForSerial: an ID header or a comment header made from        *)
(* options, which an application then classifies and parses, or an Opus    *)
(* packet, of which the first two bytes and the length matter.             *)
(*                                                                         *)
(* A page may also come from a file cut short or from another program:     *)
(* the parsers then get the packet's beginning or a packet changed in one  *)
(* byte.                                                                   *)
(***************************************************************************)
EXTENDS OggPaging, OpusToc, OpusHeaders

CONSTANTS Options,       \* options, records with the field opt
          MaxOptions,    \* bound: options of one Writer and Track
          Bytes,         \* values of a byte of an Opus packet
          OtherBytes     \* values a changed byte of a header takes

VARIABLES kind,          \* "head", "tags" or "audio"
          opts,          \* the options given
          payload,       \* the packet, or the first two bytes of a longer one
          seen,          \* the payload the application parses
          result         \* what it got, or sample count

pvars == <<kind, opts, payload, seen, result>>

none == [ok |-> FALSE, pending |-> TRUE]

(* The packet the writer makes.                                            *)
Packet ==
  LET c == Configure(opts)
  IN CASE kind = "head" -> buildIDHeader(c)
       [] kind = "tags" -> buildCommentHeader(c.vendor, c.comments)

InitHeader ==
  /\ kind \in {"head", "tags"}
  /\ opts \in BoundedSeq(Options, MaxOptions)
  /\ Configure(opts).ok
  /\ payload = Packet
  /\ len = Len(payload)
  /\ flags = IF kind = "head" THEN {"bos"} ELSE {}

(* The bytes matter to the duration alone, so only plain short packets     *)
(* have any.                                                               *)
InitAudio ==
  /\ kind = "audio" /\ opts = << >>
  /\ len \in Lengths /\ flags \in FlagSets
  /\ payload \in [1..(IF len < 2 THEN len ELSE 2) ->
                    IF len <= 2 /\ flags = {} THEN Bytes ELSE {0}]

InitPackets ==
  /\ InitHeader \/ InitAudio
  /\ InitLoop
  /\ seen = << >> /\ result = none

Paging == Next /\ UNCHANGED pvars

(* The packet, its beginnings, and the packet with one byte changed.       *)
Seen ==
  {SubSeq(payload, 1, n) : n \in 0..Len(payload)}
    \cup {[payload EXCEPT ![k] = b] : k \in DOMAIN payload, b \in OtherBytes}

(* HeaderType of a page, then ParseOpusHead or ParseOpusTags.              *)
Parse(p) ==
  LET type == HeaderType(pages[1].flags, p)
  IN /\ Done /\ result = none /\ kind # "audio"
     /\ seen' = p
     /\ result' = CASE type = "OpusHead" -> ParseOpusHead(p)
                    [] type = "OpusTags" -> ParseOpusTags(p)
                    [] OTHER -> refused
     /\ UNCHANGED <<kind, opts, payload, vars>>

(* The granule position advances by the duration of the packet.            *)
Measure ==
  /\ Done /\ result = none /\ kind = "audio"
  /\ result' = [ok |-> TRUE, samples |-> opusPacketSampleCount(payload)]
  /\ UNCHANGED <<kind, opts, payload, seen, vars>>

NextPackets == Paging \/ Measure \/ \E p \in Seen : Parse(p)

SpecPackets == InitPackets /\ [][NextPackets]_<<vars, pvars>>

-----------------------------------------------------------------------------
(* The sample count is the duration the RFC gives the packet at 48 kHz, a  *)
(* whole number for every configuration, and exactly the packets the RFC   *)
(* calls malformed by their count byte or their 120 ms limit are refused   *)
(* (opusPacketSampleCount).                                                *)
DurationAsInRFC6716 ==
  (kind = "audio" /\ result # none /\ payload # << >>) =>
    LET tenths == FrameTenths[(payload[1] \div 8) + 1]
        legal  == {m \in Frames(payload) : tenths * m <= 1200}
    IN IF legal = {} THEN result.samples = errInvalid
       ELSE \A m \in legal : 10 * result.samples = 48 * tenths * m

(* RFC 7845, 5.1: what a decoder may rely on in an ID header.              *)
LegalHead(h) ==
  /\ h.version = 1 /\ h.channels > 0
  /\ h.family = 0 => h.channels <= 2
  /\ h.family # 0 =>
       /\ h.streams > 0 /\ h.coupled <= h.streams
       /\ Len(h.mapping) = h.channels
       /\ \A k \in DOMAIN h.mapping :
            h.mapping[k] \in (0..(h.streams + h.coupled - 1)) \cup {255}
  /\ h.family = 1 => h.channels <= 8

(* Whatever options NewWriter and NewTrack take, the last of each kind     *)
(* wins, the ID header that buildIDHeader makes is legal and ParseOpusHead *)
(* gets the same values out of it; of a header cut short it takes nothing. *)
HeadRoundTrips ==
  (kind = "head" /\ result # none) =>
    LET last(o) == SelectLastInSeq(opts, LAMBDA x : x.opt \in o)
        rate == last({"rate"})
        map  == last({"channels", "mapping"})
    IN /\ seen = payload =>
            /\ result.ok /\ LegalHead(result)
            /\ result.preSkip = 3840 /\ result.gain = 0
            /\ result.rate = IF rate = 0 THEN 48000 ELSE opts[rate].rate
            /\ IF map = 0 THEN result.family = 0 /\ result.channels = 2
               ELSE IF opts[map].opt = "channels"
               THEN result.family = 0 /\ result.channels = opts[map].count
               ELSE /\ result.family = opts[map].family
                    /\ result.streams = opts[map].streams
                    /\ result.coupled = opts[map].coupled
                    /\ result.mapping = opts[map].mapping
       /\ IsStrictPrefix(seen, payload) => ~result.ok

(* ParseOpusTags gets the last vendor and all comments given, in order,    *)
(* out of the comment header, with every = of a value in its place.  What  *)
(* it takes from any page is what the page says, byte for byte, and it     *)
(* takes nothing from a header cut short.                                  *)
TagsRoundTrip ==
  (kind = "tags" /\ result # none) =>
    LET vendor == SelectLastInSeq(opts, LAMBDA x : x.opt = "vendor")
        given  == FlattenSeq([k \in DOMAIN opts |->
                    IF opts[k].opt = "comments" THEN opts[k].comments ELSE << >>])
    IN /\ seen = payload =>
            /\ result.ok /\ result.comments = given
            /\ vendor # 0 => result.vendor = opts[vendor].vendor
       /\ result.ok => IsPrefix(buildCommentHeader(result.vendor, result.comments), seen)
       /\ IsStrictPrefix(seen, payload) => ~result.ok
=============================================================================
