---------------------------- MODULE MCOpusPackets ----------------------------
EXTENDS OpusPackets

(* Packet lengths around every boundary: a segment, a page, two pages.     *)
MCLengths ==
  {0, 1, 2, 254, 255, 256, 510, 64769, 64770, 64771, 65024, 65025, 65026,
   65280, 130049, 130050, 130051}

MCFlagSets == {{}, {"bos"}, {"eos"}, {"cont", "eos"}}

AllBytes == 0..255

(* Mono, stereo and refused counts; legal and illegal mappings of every    *)
(* family; names and values with separators and bytes no text has.         *)
MCOptions ==
  {[opt |-> "rate", rate |-> r] : r \in {8000, 48000}}
  \cup {[opt |-> "channels", count |-> n] : n \in 0..3}
  \cup {[opt |-> "mapping", family |-> f, streams |-> s, coupled |-> c, mapping |-> m] :
          f \in {0, 1, 2, 3, 255}, s \in {1, 2}, c \in 0..2,
          m \in {<<0>>, <<0, 1>>, <<1>>, <<255, 0, 0>>}}
  \cup {[opt |-> "vendor", vendor |-> v] : v \in {<< >>, <<98, equals>>, <<200>>}}
  \cup {[opt |-> "comments", comments |-> <<[name |-> n, value |-> v]>>] :
          n \in {<< >>, <<97>>, <<98, equals>>, <<126>>},
          v \in {<< >>, <<99>>, <<equals, 99>>, <<200>>}}
=============================================================================
