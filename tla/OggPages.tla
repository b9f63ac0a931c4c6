------------------------------ MODULE OggPages ------------------------------
(***************************************************************************)
(* How oggwriter cuts a packet into Ogg pages (createPagesForSerial): a    *)
(* page has up to 255 segments of up to 255 bytes, and a segment shorter   *)
(* than 255 bytes, an empty one if need be, ends the packet.  Stated in    *)
(* closed form; OggPaging checks the loops of the code against it.         *)
(***************************************************************************)
EXTENDS Integers, Sequences

segmentSize == 255
maxOggPageSegments == 255
pageHeaderSize == 27
pageCapacity == segmentSize * maxOggPageSegments

noGranulePosition == -1   \* ^uint64(0)

PageCount(len) == (len \div pageCapacity) + 1

(* Payload and segments of page k of a packet of len bytes.                *)
PagePayload(len, k) ==
  IF k < PageCount(len) THEN pageCapacity ELSE len % pageCapacity

PageSegments(len, k) ==
  IF k < PageCount(len) THEN maxOggPageSegments
  ELSE ((len % pageCapacity) \div segmentSize) + 1

(* Fault: a continued page looks like the start of a packet when rebuilt.  *)
PageFlags_DropsCont(flags, k, n) ==
  (IF k = 1 THEN flags \ {"cont", "eos"} ELSE {"cont"})
    \cup (IF k = n THEN flags \cap {"eos"} ELSE {})

(* Header type flags: BOS stays on the first page, EOS goes to the last,   *)
(* pages after the first are marked as continuing a packet unless the flag *)
(* was given for the first page as well (packetPageHeaderType).            *)
PageFlags(flags, k, n) ==
  (IF k = 1 THEN flags \ {"eos"} ELSE {"cont"})
    \cup (IF k = n THEN flags \cap {"eos"} ELSE {})

(* Page k of the packet; only the last one ends it and has its granule.    *)
PageOf(serial, index, len, flags, granule, k) ==
  LET n == PageCount(len)
  IN [serial  |-> serial,
      index   |-> index + k - 1,
      flags   |-> PageFlags(flags, k, n),
      granule |-> IF k = n THEN granule ELSE noGranulePosition,
      payload |-> PagePayload(len, k),
      size    |-> pageHeaderSize + PageSegments(len, k) + PagePayload(len, k)]

CreatePages(serial, index, len, flags, granule) ==
  [k \in 1..PageCount(len) |-> PageOf(serial, index, len, flags, granule, k)]

(* createPageForSerialWithSegments(nil, nil): a page without segments.     *)
NilPage(serial, index, granule) ==
  [serial |-> serial, index |-> index, flags |-> {"eos"}, granule |-> granule,
   payload |-> 0, size |-> pageHeaderSize]
=============================================================================
