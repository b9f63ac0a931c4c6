----------------------------- MODULE OpusHeaders -----------------------------
(***************************************************************************)
(* The two header packets of an Opus stream: how the options of NewWriter  *)
(* and NewTrack make a configuration, how oggwriter lays it out as an ID   *)
(* header and a comment header, and how oggreader parses the two.          *)
(*                                                                         *)
(* An option is a record with the field opt; strings are sequences of      *)
(* bytes.  Length limits of 2^32 are out of reach and left out.            *)
(***************************************************************************)
EXTENDS Integers, SequencesExt

refused == [ok |-> FALSE]

OpusHead == <<79, 112, 117, 115, 72, 101, 97, 100>>
OpusTags == <<79, 112, 117, 115, 84, 97, 103, 115>>
defaultPreSkip == 3840
equals == 61

LE(n, width) == [k \in 1..width |-> (n \div 256^(k - 1)) % 256]
Uint(b, from, width) ==
  FoldLeft(LAMBDA n, k : 256 * n + b[from + width - k], 0, [k \in 1..width |-> k])

-----------------------------------------------------------------------------
(* defaultChannelMapping.                                                  *)
defaultChannelMapping(count) ==
  IF count \notin {1, 2} THEN refused
  ELSE [ok |-> TRUE, family |-> 0, channels |-> count,
        streams |-> 1, coupled |-> count - 1, mapping |-> << >>]

(* Fault: the entries are compared with the streams alone.                 *)
LayoutOK_StreamsOnly(o) ==
  /\ Len(o.mapping) \in 1..255
  /\ o.streams = 1
  /\ o.coupled <= o.streams
  /\ \A k \in DOMAIN o.mapping : o.mapping[k] \in (0..o.streams) \cup {255}

(* validateChannelMappingLayout.                                           *)
LayoutOK(o) ==
  /\ Len(o.mapping) \in 1..255
  /\ o.streams = 1
  /\ o.coupled <= o.streams
  /\ \A k \in DOMAIN o.mapping :
       o.mapping[k] = 255 \/ o.mapping[k] < o.streams + o.coupled

(* validateFamilySpecificChannelMapping, validateVorbisChannelMapping.     *)
FamilyOK(o) ==
  CASE o.family = 1 -> <<o.coupled, o.mapping>> \in {<<0, <<0>> >>, <<1, <<0, 1>> >>}
    [] o.family = 2 -> o.coupled = 0 /\ o.mapping = <<0>>
    [] OTHER -> TRUE

(* validateChannelMapping.                                                 *)
validateChannelMapping(o) ==
  IF o.family \in {1, 2, 255} /\ LayoutOK(o) /\ FamilyOK(o)
  THEN [ok |-> TRUE, family |-> o.family, channels |-> Len(o.mapping),
        streams |-> o.streams, coupled |-> o.coupled, mapping |-> o.mapping]
  ELSE refused

(* utf8.ValidString, of texts without multi-byte characters.               *)
ValidString(s) == \A k \in DOMAIN s : s[k] < 128

(* Fault: the separator is allowed in a name.                              *)
isValidCommentName_Equals(s) ==
  s # << >> /\ \A k \in DOMAIN s : s[k] \in 32..125

isValidCommentName(s) ==
  s # << >> /\ \A k \in DOMAIN s : s[k] \in (32..125) \ {equals}

validateUserComments(comments) ==
  \A k \in DOMAIN comments :
    isValidCommentName(comments[k].name) /\ ValidString(comments[k].value)

Defaults ==
  [ok |-> TRUE, rate |-> 48000, map |-> defaultChannelMapping(2),
   vendor |-> <<112, 105, 111, 110>>, comments |-> << >>]

applyVendor(config, vendor) ==
  IF ValidString(vendor) THEN [config EXCEPT !.vendor = vendor] ELSE refused

applyUserComments(config, comments) ==
  IF validateUserComments(comments)
  THEN [config EXCEPT !.comments = @ \o comments] ELSE refused

(* applyWriterConfig or applyTrackConfig of one option; a track begins     *)
(* with the configuration of its Writer.  NewWriter, NewTrack end at the   *)
(* first option refused.                                                   *)
apply(config, o) ==
  LET map == IF o.opt = "channels" THEN defaultChannelMapping(o.count)
             ELSE validateChannelMapping(o)
  IN CASE ~config.ok -> refused
       [] config.ok /\ o.opt = "rate" -> [config EXCEPT !.rate = o.rate]
       [] config.ok /\ o.opt \in {"channels", "mapping"} ->
            IF map.ok THEN [config EXCEPT !.map = map] ELSE refused
       [] config.ok /\ o.opt = "vendor" -> applyVendor(config, o.vendor)
       [] config.ok /\ o.opt = "comments" -> applyUserComments(config, o.comments)

Configure(opts) == FoldLeft(apply, Defaults, opts)

-----------------------------------------------------------------------------
buildIDHeader(c) ==
  OpusHead \o <<1, c.map.channels>> \o LE(defaultPreSkip, 2) \o LE(c.rate, 4)
    \o LE(0, 2) \o <<c.map.family>>
    \o (IF c.map.family = 0 THEN << >>
        ELSE <<c.map.streams, c.map.coupled>> \o c.map.mapping)

buildCommentHeader(vendor, comments) ==
  FoldLeft(LAMBDA b, c : b \o LE(Len(c.name) + 1 + Len(c.value), 4)
                           \o c.name \o <<equals>> \o c.value,
           OpusTags \o LE(Len(vendor), 4) \o vendor \o LE(Len(comments), 4),
           comments)

(* HeaderType of a page: an OpusHead is one only at the start of a stream. *)
HeaderType(flags, p) ==
  CASE IsPrefix(OpusTags, p) -> "OpusTags"
    [] IsPrefix(OpusHead, p) /\ flags = {"bos"} -> "OpusHead"
    [] OTHER -> ""

(* parseChannelMapping: the length a header must have.                     *)
HeadLength(family, channels) ==
  CASE family = 0 -> {19}
    [] family \in {1, 2, 255} -> {21 + channels}
    [] OTHER -> {}

parseBasicHeaderFields(p) ==
  [ok |-> TRUE, version |-> p[9], channels |-> p[10],
   preSkip |-> Uint(p, 11, 2), rate |-> Uint(p, 13, 4),
   gain |-> Uint(p, 17, 2), family |-> p[19]]

ParseOpusHead(p) ==
  IF Len(p) < 19 \/ ~IsPrefix(OpusHead, p) THEN refused
  ELSE IF Len(p) \notin HeadLength(p[19], p[10]) THEN refused
  ELSE parseBasicHeaderFields(p) @@
       [streams |-> IF p[19] = 0 THEN 0 ELSE p[20],
        coupled |-> IF p[19] = 0 THEN 0 ELSE p[21],
        mapping |-> SubSeq(p, 22, Len(p))]

(* strings.SplitN(s, "=", 2): at the first one.                            *)
SplitAt(s) == SelectInSeq(s, LAMBDA b : b = equals)

(* parseSingleUserComment at offset a.pos, appended to what is parsed.     *)
parseSingleUserComment(p, a) ==
  LET n    == Uint(p, a.pos + 1, 4)
      text == SubSeq(p, a.pos + 5, a.pos + 4 + n)
      eq   == SplitAt(text)
  IN IF ~a.ok \/ a.pos + 4 > Len(p) THEN refused
     ELSE IF n > Len(p) - (a.pos + 4) THEN refused
     ELSE IF eq = 0 THEN refused
     ELSE [ok |-> TRUE, pos |-> a.pos + 4 + n, vendor |-> a.vendor,
           comments |-> Append(a.comments,
                          [name  |-> SubSeq(text, 1, eq - 1),
                           value |-> SubSeq(text, eq + 1, n)])]

ParseOpusTags(p) ==
  IF Len(p) < 16 \/ ~IsPrefix(OpusTags, p) THEN refused
  ELSE LET vendorLen == Uint(p, 9, 4)
           vendorEnd == 12 + vendorLen
           count     == Uint(p, vendorEnd + 1, 4)
       IN IF vendorLen > Len(p) - 16 THEN refused
          ELSE IF count > (Len(p) - vendorEnd) \div 4 THEN refused
          ELSE FoldLeft(LAMBDA a, k : parseSingleUserComment(p, a),
                        [ok |-> TRUE, pos |-> vendorEnd + 4, comments |-> << >>,
                         vendor |-> SubSeq(p, 13, vendorEnd)],
                        [k \in 1..count |-> k])
=============================================================================
