------------------------------ MODULE OggPaging ------------------------------
(***************************************************************************)
(* The two nested loops of createPagesForSerial, one step per segment, to  *)
(* be compared with the closed form of OggPages.                           *)
(***************************************************************************)
EXTENDS OggPages

CONSTANTS Lengths,    \* packet lengths in bytes
          FlagSets,   \* header types the packet is written with
          Serial, Index, Granule  \* arguments the loops pass on

Flags == {"bos", "cont", "eos"}

ASSUME LengthsAssumption == Lengths \subseteq Nat
ASSUME FlagSetsAssumption == FlagSets \subseteq SUBSET Flags
ASSUME ArgumentsAssumption == Serial \in Nat /\ Index \in Nat /\ Granule \in Nat

VARIABLES len, flags,        \* arguments
          remainingPayload,
          segments,          \* len(segmentTable)
          pagePayloadSize,
          packetComplete,
          pages              \* pages made so far

vars == <<len, flags, remainingPayload, segments, pagePayloadSize,
          packetComplete, pages>>

(* The loops begin with the whole packet.                                  *)
InitLoop ==
  /\ remainingPayload = len
  /\ segments = 0
  /\ pagePayloadSize = 0
  /\ packetComplete = FALSE
  /\ pages = << >>

Init == len \in Lengths /\ flags \in FlagSets /\ InitLoop

InPage == segments < maxOggPageSegments /\ ~packetComplete

FullSegment ==
  /\ InPage
  /\ remainingPayload >= 255
  /\ segments' = segments + 1
  /\ pagePayloadSize' = pagePayloadSize + 255
  /\ remainingPayload' = remainingPayload - 255
  /\ UNCHANGED <<len, flags, packetComplete, pages>>

LastSegment ==
  /\ InPage
  /\ remainingPayload < 255
  /\ segments' = segments + 1
  /\ pagePayloadSize' = pagePayloadSize + remainingPayload
  /\ remainingPayload' = 0
  /\ packetComplete' = TRUE
  /\ UNCHANGED <<len, flags, pages>>

packetPageHeaderType(headerType, firstPage, complete) ==
  IF firstPage
  THEN IF complete THEN headerType ELSE headerType \ {"eos"}
  ELSE {"cont"} \cup (IF complete THEN headerType \cap {"eos"} ELSE {})

(* What one turn of the outer loop appends.                                *)
MadePage ==
  [serial  |-> Serial,
   index   |-> Index + Len(pages),
   flags   |-> packetPageHeaderType(flags, pages = << >>, packetComplete),
   granule |-> IF packetComplete THEN Granule ELSE noGranulePosition,
   payload |-> pagePayloadSize,
   size    |-> pageHeaderSize + segments + pagePayloadSize]

(* Fault: the size of the page is not reset.                               *)
EmitPage_KeepsSize ==
  /\ ~InPage
  /\ segments > 0
  /\ pages' = Append(pages, MadePage)
  /\ segments' = 0
  /\ UNCHANGED <<len, flags, remainingPayload, pagePayloadSize, packetComplete>>

(* The page is built; the outer loop goes on unless the packet is complete.*)
EmitPage ==
  /\ ~InPage
  /\ segments > 0
  /\ pages' = Append(pages, MadePage)
  /\ segments' = 0
  /\ pagePayloadSize' = 0
  /\ UNCHANGED <<len, flags, remainingPayload, packetComplete>>

Done == packetComplete /\ segments = 0

Next == FullSegment \/ LastSegment \/ EmitPage

Spec == Init /\ [][Next]_vars /\ WF_vars(Next)

-----------------------------------------------------------------------------
Page == [serial : Nat, index : Nat, flags : SUBSET Flags,
         granule : Nat \cup {noGranulePosition}, payload : Nat, size : Nat]

(* Types of the loops' locals.                                             *)
TypeOK ==
  /\ len \in Nat
  /\ flags \in SUBSET Flags
  /\ remainingPayload \in Nat
  /\ segments \in 0..maxOggPageSegments
  /\ pagePayloadSize \in Nat
  /\ packetComplete \in BOOLEAN
  /\ pages \in Seq(Page)

(* While the packet is being cut: the bytes of full pages, of the open     *)
(* page and of the rest add up, and the open page has full segments only.  *)
OpenPage ==
  ~packetComplete =>
    /\ len = Len(pages) * pageCapacity + pagePayloadSize + remainingPayload
    /\ pagePayloadSize = 255 * segments

(* After the short segment: the open page is the last of the closed form.  *)
ClosedPage ==
  packetComplete =>
    /\ segments = 0 => Len(pages) = PageCount(len)
    /\ segments > 0 =>
         /\ Len(pages) + 1 = PageCount(len)
         /\ pagePayloadSize = PagePayload(len, PageCount(len))
         /\ segments = PageSegments(len, PageCount(len))

(* The pages made so far are the first pages of the closed form.           *)
MadeSoFar ==
  \A k \in 1..Len(pages) :
    pages[k] = PageOf(Serial, Index, len, flags, Granule, k)

(* The loop invariant of createPagesForSerial: no byte is dropped or cut   *)
(* twice at any point of the two loops.                                    *)
Inv == TypeOK /\ OpenPage /\ ClosedPage /\ MadeSoFar

(* The loops make exactly the pages of the closed form: an empty last page *)
(* when the length is a multiple of the capacity, EOS on the last page     *)
(* only, a granule position on the page that ends the packet only.         *)
LoopMatchesClosedForm ==
  Done => pages = CreatePages(Serial, Index, len, flags, Granule)

(* The page that ends a packet, rebuilt alone from its payload and flags   *)
(* as markTrackEndOfStream does, is one page of the same size that differs *)
(* in the EOS flag only: rewriting it in place cannot touch its neighbour. *)
LastPageRebuilds ==
  Done =>
    LET last == pages[Len(pages)]
        again == CreatePages(last.serial, last.index, last.payload,
                             last.flags \cup {"eos"}, last.granule)
    IN again = <<[last EXCEPT !.flags = @ \cup {"eos"}]>>

=============================================================================
