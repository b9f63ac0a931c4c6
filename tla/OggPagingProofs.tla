-------------------------- MODULE OggPagingProofs --------------------------
(* createPagesForSerial makes the pages of OggPages for a packet of any    *)
(* length, and the last one of them can be rebuilt in place.               *)
EXTENDS OggPaging, TLAPS

LEMMA Capacity ==
  /\ segmentSize = 255 /\ maxOggPageSegments = 255
  /\ pageCapacity = 65025 /\ pageHeaderSize = 27
  /\ noGranulePosition = -1
BY DEF pageCapacity, segmentSize, maxOggPageSegments, pageHeaderSize,
       noGranulePosition

(* Where a packet ends, from the number n of full pages before the end.    *)
LEMMA LastPage ==
  ASSUME NEW l \in Nat, NEW n \in Nat, NEW r \in Nat,
         l = n * 65025 + r, r < 65025
  PROVE  /\ PageCount(l) = n + 1
         /\ PagePayload(l, n + 1) = r
         /\ PageSegments(l, n + 1) = (r \div 255) + 1
<1>1. l \div 65025 = n /\ l % 65025 = r
  OBVIOUS
<1> QED BY <1>1, Capacity DEF PageCount, PagePayload, PageSegments

(* A page before the end is full.                                          *)
LEMMA FullPage ==
  ASSUME NEW l \in Nat, NEW k \in Nat, k * 65025 <= l
  PROVE  /\ PageCount(l) \in Nat /\ k < PageCount(l)
         /\ PagePayload(l, k) = 65025
         /\ PageSegments(l, k) = 255
<1>1. l \div 65025 \in Nat /\ k <= l \div 65025
  OBVIOUS
<1> QED BY <1>1, Capacity DEF PageCount, PagePayload, PageSegments

LEMMA HeaderTypes ==
  ASSUME NEW f \in SUBSET Flags, NEW k \in Nat \ {0}, NEW n \in Nat
  PROVE  packetPageHeaderType(f, k = 1, k = n) = PageFlags(f, k, n)
BY DEF packetPageHeaderType, PageFlags, Flags

LEMMA InitInv == Init => Inv
<1> SUFFICES ASSUME Init PROVE Inv
  OBVIOUS
<1>0. Len(pages) = 0 /\ pages \in Seq(Page)
  BY DEF Init, InitLoop
<1>1. len \in Nat /\ flags \in SUBSET Flags
  BY LengthsAssumption, FlagSetsAssumption, Zenon DEF Init, InitLoop
<1>2. TypeOK
  <2>1. packetComplete \in BOOLEAN
    BY Zenon DEF Init, InitLoop
  <2> QED BY <2>1, <1>0, <1>1, Capacity DEF Init, InitLoop, TypeOK
<1>3. OpenPage /\ ClosedPage
  BY <1>0, <1>1, Capacity DEF Init, InitLoop, OpenPage, ClosedPage
<1>4. MadeSoFar
  BY <1>0 DEF MadeSoFar
<1> QED BY <1>2, <1>3, <1>4 DEF Inv

(* A 255-byte segment keeps the count of bytes of the open page.           *)
LEMMA FullSegmentInv == Inv /\ FullSegment => Inv'
<1> SUFFICES ASSUME Inv, FullSegment PROVE Inv'
  OBVIOUS
<1>1. TypeOK'
  BY Capacity DEF Inv, TypeOK, FullSegment, InPage
<1>2. OpenPage'
  BY Capacity DEF Inv, TypeOK, OpenPage, FullSegment, InPage
<1>3. ClosedPage'
  BY DEF FullSegment, InPage, ClosedPage
<1>4. MadeSoFar'
  BY DEF Inv, FullSegment, MadeSoFar
<1> QED BY <1>1, <1>2, <1>3, <1>4 DEF Inv

(* The short segment ends the packet where the closed form does.           *)
LEMMA LastSegmentInv == Inv /\ LastSegment => Inv'
<1> SUFFICES ASSUME Inv, LastSegment PROVE Inv'
  OBVIOUS
<1> DEFINE n == Len(pages)
           r == pagePayloadSize + remainingPayload
<1>1. TypeOK'
  BY Capacity DEF Inv, TypeOK, LastSegment, InPage
<1>2. OpenPage'
  BY DEF LastSegment, OpenPage
<1>3. /\ n \in Nat /\ r \in Nat /\ r < 65025
      /\ len \in Nat /\ len = n * 65025 + r
      /\ r \div 255 = segments
  BY Capacity DEF Inv, TypeOK, OpenPage, LastSegment, InPage
<1>4. /\ PageCount(len) = n + 1
      /\ PagePayload(len, n + 1) = r
      /\ PageSegments(len, n + 1) = segments + 1
  BY <1>3, LastPage
<1>5. ClosedPage'
  BY <1>3, <1>4 DEF Inv, TypeOK, LastSegment, ClosedPage
<1>6. MadeSoFar'
  BY DEF Inv, LastSegment, MadeSoFar
<1> QED BY <1>1, <1>2, <1>5, <1>6 DEF Inv

(* A page that is emitted is the next page of the closed form.             *)
LEMMA EmitPageInv == Inv /\ EmitPage => Inv'
<1> SUFFICES ASSUME Inv, EmitPage PROVE Inv'
  OBVIOUS
<1> DEFINE n == Len(pages)
<1>1. /\ n \in Nat /\ len \in Nat /\ segments \in 1..255
      /\ pages = << >> <=> n + 1 = 1
  BY Capacity DEF Inv, TypeOK, EmitPage
<1>2. MadePage = PageOf(Serial, Index, len, flags, Granule, n + 1)
  <2>1. CASE packetComplete = TRUE
    <3>1. /\ PageCount(len) = n + 1
          /\ PagePayload(len, n + 1) = pagePayloadSize
          /\ PageSegments(len, n + 1) = segments
      BY <1>1, <2>1 DEF Inv, ClosedPage
    <3>2. packetPageHeaderType(flags, pages = << >>, packetComplete) =
            PageFlags(flags, n + 1, PageCount(len))
      <4>1. PageFlags(flags, n + 1, n + 1) =
              (IF n + 1 = 1 THEN flags \ {"eos"} ELSE {"cont"})
                \cup (flags \cap {"eos"})
        BY Zenon DEF PageFlags
      <4>2. packetPageHeaderType(flags, pages = << >>, packetComplete) =
              IF pages = << >> THEN flags ELSE {"cont"} \cup (flags \cap {"eos"})
        BY <2>1, Zenon DEF packetPageHeaderType
      <4>3. (flags \ {"eos"}) \cup (flags \cap {"eos"}) = flags
        BY Zenon
      <4> QED BY <4>1, <4>2, <4>3, <3>1, <1>1
    <3>3. (IF packetComplete THEN Granule ELSE noGranulePosition) = Granule
      BY <2>1, Zenon
    <3>4. Index + n = Index + (n + 1) - 1
      BY <1>1, ArgumentsAssumption
    <3> HIDE DEF n
    <3> QED BY <3>1, <3>2, <3>3, <3>4 DEF MadePage, PageOf, n
  <2>2. CASE packetComplete = FALSE
    <3>1. /\ segments = 255 /\ pagePayloadSize = 65025
          /\ (n + 1) * 65025 <= len
      BY <2>2, <1>1, Capacity DEF Inv, TypeOK, OpenPage, EmitPage, InPage
    <3>2. /\ PageCount(len) \in Nat /\ n + 1 < PageCount(len)
          /\ PagePayload(len, n + 1) = 65025
          /\ PageSegments(len, n + 1) = 255
      BY <3>1, <1>1, FullPage
    <3>3. packetPageHeaderType(flags, pages = << >>, packetComplete) =
            PageFlags(flags, n + 1, PageCount(len))
      BY <3>2, <1>1, <2>2, HeaderTypes DEF Inv, TypeOK
    <3> QED BY <3>1, <3>2, <3>3, <1>1, <2>2, ArgumentsAssumption DEF MadePage, PageOf
  <2> QED BY <2>1, <2>2 DEF Inv, TypeOK
<1>3. MadePage \in Page
  BY Capacity, ArgumentsAssumption
     DEF Inv, TypeOK, MadePage, Page, packetPageHeaderType, Flags
<1>4. /\ pages' \in Seq(Page) /\ Len(pages') = n + 1
      /\ pages'[n + 1] = MadePage
      /\ \A k \in 1..n : pages'[k] = pages[k]
  BY <1>1, <1>3 DEF Inv, TypeOK, EmitPage
<1>5. TypeOK'
  BY <1>4, Capacity DEF Inv, TypeOK, EmitPage
<1>6. OpenPage'
  <2> SUFFICES ASSUME ~packetComplete PROVE OpenPage'
    BY DEF OpenPage, EmitPage
  <2>1. /\ segments = 255 /\ pagePayloadSize = 65025
        /\ remainingPayload \in Nat
        /\ len = n * 65025 + pagePayloadSize + remainingPayload
    BY <1>1, Capacity DEF Inv, TypeOK, OpenPage, EmitPage, InPage
  <2>2. /\ segments' = 0 /\ pagePayloadSize' = 0
        /\ len' = len /\ remainingPayload' = remainingPayload
    BY DEF EmitPage
  <2> QED BY <2>1, <2>2, <1>1, <1>4, Capacity DEF OpenPage
<1>7. ClosedPage'
  BY <1>1, <1>4 DEF Inv, TypeOK, ClosedPage, EmitPage
<1>8. MadeSoFar'
  <2>1. \A k \in 1..n : pages'[k] = PageOf(Serial, Index, len, flags, Granule, k)
    BY <1>4, <1>1 DEF Inv, MadeSoFar
  <2>2. \A k \in 1..(n + 1) :
          pages'[k] = PageOf(Serial, Index, len, flags, Granule, k)
    BY <2>1, <1>2, <1>4, <1>1
  <2> QED BY <2>2, <1>4 DEF MadeSoFar, EmitPage
<1> QED BY <1>5, <1>6, <1>7, <1>8 DEF Inv

LEMMA NextInv == Inv /\ [Next]_vars => Inv'
<1>1. Inv /\ UNCHANGED vars => Inv'
  BY DEF vars, Inv, TypeOK, OpenPage, ClosedPage, MadeSoFar
<1> QED BY <1>1, FullSegmentInv, LastSegmentInv, EmitPageInv DEF Next

(* The loop invariant of createPagesForSerial holds throughout.            *)
THEOREM LoopInvariant == Spec => []Inv
BY InitInv, NextInv, PTL DEF Spec

LEMMA InvMatches == Inv => LoopMatchesClosedForm
<1> SUFFICES ASSUME Inv, Done
             PROVE  pages = CreatePages(Serial, Index, len, flags, Granule)
  BY DEF LoopMatchesClosedForm
<1>1. Len(pages) = PageCount(len) /\ pages \in Seq(Page)
  BY DEF Inv, TypeOK, ClosedPage, Done
<1>2. \A k \in 1..PageCount(len) :
        pages[k] = PageOf(Serial, Index, len, flags, Granule, k)
  BY <1>1 DEF Inv, MadeSoFar
<1> QED BY <1>1, <1>2 DEF CreatePages

(* For a packet of any length the loops of createPagesForSerial make       *)
(* exactly the pages that OggWriter writes.                                *)
THEOREM LoopCorrect == Spec => []LoopMatchesClosedForm
BY LoopInvariant, InvMatches, PTL

(* Setting EOS on a page changes its flags only.                           *)
LEMMA MarkPage ==
  ASSUME NEW p \in Page
  PROVE  [p EXCEPT !.flags = @ \cup {"eos"}] =
           [serial |-> p.serial, index |-> p.index, flags |-> p.flags \cup {"eos"},
            granule |-> p.granule, payload |-> p.payload, size |-> p.size]
BY DEF Page

LEMMA InvRebuilds == Inv => LastPageRebuilds
<1> SUFFICES ASSUME Inv, Done PROVE LastPageRebuilds
  BY DEF LastPageRebuilds
<1> DEFINE n == PageCount(len)
           last == pages[Len(pages)]
           r == len % 65025
<1>1. /\ len \in Nat /\ r \in Nat /\ r < 65025
      /\ n \in Nat /\ n >= 1 /\ Len(pages) = n /\ pages \in Seq(Page)
  <2>1. len \in Nat /\ Len(pages) = n /\ pages \in Seq(Page)
    BY DEF Inv, TypeOK, ClosedPage, Done
  <2>2. n \in Nat /\ n >= 1
    BY <2>1, Capacity DEF PageCount
  <2> QED BY <2>1, <2>2
<1>2. last = PageOf(Serial, Index, len, flags, Granule, n)
  BY <1>1 DEF Inv, MadeSoFar
<1>3. /\ last.serial = Serial /\ last.granule = Granule
      /\ last.payload = r
      /\ last.size = 27 + ((r \div 255) + 1) + r
  BY <1>1, <1>2, Capacity DEF PageOf, PagePayload, PageSegments
<1>4. last \in Page
  BY <1>1
<1>5. last.index \in Nat /\ last.flags \in SUBSET Flags
  BY <1>4 DEF Page
<1> DEFINE e == last.flags \cup {"eos"}
           i == last.index
<1> HIDE DEF last, r, e, i
<1>6. CreatePages(last.serial, last.index, last.payload, last.flags \cup {"eos"},
                  last.granule) =
        <<[serial |-> last.serial, index |-> last.index,
           flags |-> last.flags \cup {"eos"}, granule |-> last.granule,
           payload |-> last.payload, size |-> last.size]>>
  <2>1. /\ PageCount(r) = 1 /\ PagePayload(r, 1) = r
        /\ PageSegments(r, 1) = (r \div 255) + 1
    <3>1. r \div 65025 = 0 /\ r % 65025 = r
      BY <1>1
    <3> QED BY <3>1, <1>1, Capacity DEF PageCount, PagePayload, PageSegments
  <2>2. PageFlags(e, 1, 1) = e
    BY DEF PageFlags
  <2>3. i + 1 - 1 = i
    BY <1>5 DEF i
  <2>4. PageOf(Serial, i, r, e, Granule, 1) =
          [serial |-> Serial, index |-> i, flags |-> e, granule |-> Granule,
           payload |-> r, size |-> 27 + ((r \div 255) + 1) + r]
    BY <2>1, <2>2, <2>3, Capacity DEF PageOf
  <2>5. CreatePages(Serial, i, r, e, Granule) =
          [k \in 1..1 |-> PageOf(Serial, i, r, e, Granule, k)]
    BY <2>1 DEF CreatePages
  <2>6. CreatePages(Serial, i, r, e, Granule) =
          <<PageOf(Serial, i, r, e, Granule, 1)>>
    BY <2>5
  <2> QED BY <2>4, <2>6, <1>3, Zenon DEF e, i
<1>7. [last EXCEPT !.flags = @ \cup {"eos"}] =
        [serial |-> last.serial, index |-> last.index,
         flags |-> last.flags \cup {"eos"}, granule |-> last.granule,
         payload |-> last.payload, size |-> last.size]
  BY <1>4, MarkPage
<1> QED BY <1>6, <1>7 DEF LastPageRebuilds, last

(* For a packet of any length markTrackEndOfStream can rewrite its last    *)
(* page in place: one page of the same size that differs in EOS only.      *)
THEOREM RebuildCorrect == Spec => []LastPageRebuilds
BY LoopInvariant, InvRebuilds, PTL
=============================================================================
