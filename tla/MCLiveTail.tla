----------------------------- MODULE MCLiveTail -----------------------------
(* Constants for checking LiveTail.                                        *)
EXTENDS LiveTail

(* Frames of no, one and a few bytes, one above the limit; pages with no   *)
(* and with several segments.                                              *)
MCFiles ==
  { Contents("ivf", TRUE, <<IvfFileHeader, IvfFrame(2), IvfFrame(0), IvfFrame(3)>>),
    Contents("ivf", TRUE, <<IvfFileHeader, IvfFrame(1), IvfFrame(9), IvfFrame(1)>>),
    Contents("ivf", FALSE, <<IvfFileHeader, IvfFrame(1)>>),
    Contents("ogg", TRUE, <<OggPage(1, 19), OggPage(2, 3), OggPage(0, 0),
                            OggPage(1, 2)>>),
    Contents("ogg", FALSE, <<OggPage(1, 4), OggPage(1, 1)>>) }
=============================================================================
