-------------------------- MODULE OggWriterProofs --------------------------
(* Proofs about OggWriter, for any number of goroutines, tracks, packets   *)
(* of any length and failing writes.                                       *)
EXTENDS OggWriter, WellFoundedInduction, TLAPS

AllFlags == {"bos", "cont", "eos"}

LEMMA Capacity ==
  /\ segmentSize = 255 /\ maxOggPageSegments = 255
  /\ pageCapacity = 65025 /\ pageHeaderSize = 27
  /\ noGranulePosition = -1
BY DEF pageCapacity, segmentSize, maxOggPageSegments, pageHeaderSize,
       noGranulePosition

(* Sizes of the pages of a packet.                                         *)
LEMMA PageSizes ==
  ASSUME NEW len \in Nat
  PROVE  /\ PageCount(len) \in Nat /\ PageCount(len) > 0
         /\ \A m \in 1..PageCount(len) :
              /\ PagePayload(len, m) \in Nat /\ PageSegments(len, m) \in Nat
         /\ PagePayload(len, PageCount(len)) < pageCapacity
         /\ PageSegments(len, PageCount(len)) =
              (PagePayload(len, PageCount(len)) \div segmentSize) + 1
<1> DEFINE q == len \div 65025
           r == len % 65025
<1>1. q \in Nat /\ r \in Nat /\ r < 65025
  OBVIOUS
<1>2. r \div 255 \in Nat
  BY <1>1
<1> HIDE DEF q, r
<1>3. PageCount(len) = q + 1
  BY Capacity DEF PageCount, q
<1>4. \A m \in 1..PageCount(len) :
        /\ PagePayload(len, m) = IF m < PageCount(len) THEN 65025 ELSE r
        /\ PageSegments(len, m) = IF m < PageCount(len) THEN 255 ELSE (r \div 255) + 1
  BY Capacity DEF PagePayload, PageSegments, r
<1> QED BY <1>1, <1>2, <1>3, <1>4, Capacity

LEMMA FlagsOfPages ==
  ASSUME NEW flags \in SUBSET {"bos"}, NEW m, NEW n
  PROVE  /\ PageFlags(flags, m, n) \in SUBSET AllFlags
         /\ "eos" \notin PageFlags(flags, m, n)
         /\ "cont" \in PageFlags(flags, m, n) <=> m # 1
         /\ "bos" \in PageFlags(flags, m, n) <=> (m = 1 /\ "bos" \in flags)
<1>1. CASE m = 1
  BY <1>1 DEF PageFlags, AllFlags
<1>2. CASE m # 1
  BY <1>2 DEF PageFlags, AllFlags
<1> QED BY <1>1, <1>2

(* The pages of a packet.                                                  *)
Cut(ps, serial, index, len, flags, g) ==
  /\ serial \in Nat /\ index \in Nat /\ len \in Nat /\ flags \in SUBSET {"bos"}
  /\ g \in Nat /\ ps = CreatePages(serial, index, len, flags, g)

LEMMA PagesMade ==
  ASSUME NEW serial, NEW index, NEW len, NEW flags, NEW g, NEW ps,
         Cut(ps, serial, index, len, flags, g)
  PROVE  /\ ps \in Seq(Page) /\ Len(ps) = PageCount(len)
         /\ \A m \in 1..PageCount(len) :
              /\ ps[m] \in Page /\ ps[m].serial = serial
              /\ ps[m].index = index + m - 1
              /\ "eos" \notin ps[m].flags
              /\ "cont" \in ps[m].flags <=> m > 1
              /\ "bos" \in ps[m].flags <=> (m = 1 /\ "bos" \in flags)
              /\ ps[m].granule = IF m = PageCount(len) THEN g ELSE noGranulePosition
              /\ ps[m].payload = PagePayload(len, m)
              /\ ps[m].size > 0
         /\ EndShape(ps[PageCount(len)])
<1>t. /\ serial \in Nat /\ index \in Nat /\ len \in Nat /\ flags \in SUBSET {"bos"}
      /\ g \in Nat /\ ps = CreatePages(serial, index, len, flags, g)
  BY DEF Cut
<1> USE <1>t
<1> DEFINE n == PageCount(len)
<1>n. n \in Nat /\ n > 0
  BY PageSizes
<1>1. ASSUME NEW m \in 1..n
      PROVE  /\ PagePayload(len, m) \in Nat /\ PageSegments(len, m) \in Nat
             /\ pageHeaderSize + PageSegments(len, m) + PagePayload(len, m) \in Nat
             /\ pageHeaderSize + PageSegments(len, m) + PagePayload(len, m) > 0
  <2>1. PagePayload(len, m) \in Nat /\ PageSegments(len, m) \in Nat
    BY PageSizes
  <2> QED BY <2>1, Capacity
<1>2. ASSUME NEW m \in 1..n
      PROVE  /\ ps[m].serial = serial
             /\ ps[m].index = index + m - 1
             /\ ps[m].flags = PageFlags(flags, m, n)
             /\ ps[m].granule = IF m = n THEN g ELSE noGranulePosition
             /\ ps[m].payload = PagePayload(len, m)
             /\ ps[m].size = pageHeaderSize + PageSegments(len, m) + PagePayload(len, m)
             /\ ps[m] = [serial |-> ps[m].serial, index |-> ps[m].index,
                         flags |-> ps[m].flags, granule |-> ps[m].granule,
                         payload |-> ps[m].payload, size |-> ps[m].size]
  <2>1. ps[m] = PageOf(serial, index, len, flags, g, m)
    BY DEF CreatePages
  <2> QED BY <2>1 DEF PageOf
<1>f. ASSUME NEW m \in 1..n
      PROVE  /\ ps[m].flags \in SUBSET {"bos", "cont", "eos"}
             /\ "eos" \notin ps[m].flags
             /\ "cont" \in ps[m].flags <=> m # 1
             /\ "bos" \in ps[m].flags <=> (m = 1 /\ "bos" \in flags)
  <2>1. ps[m].flags = PageFlags(flags, m, n)
    BY <1>2
  <2> HIDE DEF n
  <2>2. /\ PageFlags(flags, m, n) \in SUBSET AllFlags
        /\ "eos" \notin PageFlags(flags, m, n)
        /\ "cont" \in PageFlags(flags, m, n) <=> m # 1
        /\ "bos" \in PageFlags(flags, m, n) <=> (m = 1 /\ "bos" \in flags)
    BY FlagsOfPages
  <2> QED BY <2>1, <2>2, Zenon DEF AllFlags
<1>3. ASSUME NEW m \in 1..n PROVE ps[m] \in Page
  <2> DEFINE p == ps[m]
  <2>1. p.index \in Nat
    <3>1. p.index = index + m - 1
      BY <1>2
    <3> QED BY <3>1, <1>n
  <2>2. p.granule \in Int
    <3>1. p.granule = g \/ p.granule = noGranulePosition
      BY <1>2
    <3> QED BY <3>1, Capacity
  <2>3. p.flags \in SUBSET {"bos", "cont", "eos"}
    BY <1>f
  <2>4. p.serial \in Int /\ p.payload \in Nat /\ p.size \in Nat
    <3>1. p.serial = serial
      BY <1>2
    <3>2. p.payload = PagePayload(len, m)
      BY <1>2
    <3>3. p.size = pageHeaderSize + PageSegments(len, m) + PagePayload(len, m)
      BY <1>2
    <3> QED BY <3>1, <3>2, <3>3, <1>1
  <2>5. p = [serial |-> p.serial, index |-> p.index, flags |-> p.flags,
             granule |-> p.granule, payload |-> p.payload, size |-> p.size]
    BY <1>2
  <2> HIDE DEF p
  <2>6. p \in Page
    BY <2>1, <2>2, <2>3, <2>4, <2>5 DEF Page
  <2> QED BY <2>6 DEF p
<1>4. ps \in Seq(Page) /\ Len(ps) = n
  <2>1. ps = [m \in 1..n |-> PageOf(serial, index, len, flags, g, m)]
    BY DEF CreatePages
  <2> HIDE DEF n
  <2>2. \A m \in 1..n : PageOf(serial, index, len, flags, g, m) \in Page
    BY <2>1, <1>3
  <2>3. ps \in [1..n -> Page]
    BY <2>1, <2>2
  <2> QED BY <2>3, <1>n
<1>5. ASSUME NEW m \in 1..n
      PROVE  /\ "eos" \notin ps[m].flags
             /\ "cont" \in ps[m].flags <=> m > 1
             /\ "bos" \in ps[m].flags <=> (m = 1 /\ "bos" \in flags)
  <2>1. m # 1 <=> m > 1
    BY <1>n
  <2> QED BY <2>1, <1>f
<1>6. EndShape(ps[n])
  <2>1. n \in 1..n
    BY <1>n
  <2>2. /\ ps[n].payload = PagePayload(len, n)
        /\ ps[n].size = pageHeaderSize + PageSegments(len, n) + PagePayload(len, n)
    BY <2>1, <1>2
  <2> QED BY <2>2, PageSizes DEF EndShape
<1> QED BY <1>1, <1>2, <1>3, <1>4, <1>5, <1>6

(* A page that ends a packet, rebuilt alone with EOS, is the page it was.  *)
LEMMA RebuiltPage ==
  ASSUME NEW p \in Page, EndShape(p)
  PROVE  CreatePages(p.serial, p.index, p.payload, p.flags \cup {"eos"}, p.granule)[1]
           = [p EXCEPT !.flags = @ \cup {"eos"}]
<1> DEFINE fl == p.flags \cup {"eos"}
<1>p. p.payload \in Nat /\ p.index \in Nat
  BY DEF Page
<1>1. /\ p.payload < 65025
      /\ p.size = 27 + ((p.payload \div 255) + 1) + p.payload
  BY Capacity DEF EndShape
<1>2. p.payload \div 65025 = 0 /\ p.payload % 65025 = p.payload
  BY <1>1, <1>p
<1>3. /\ PageCount(p.payload) = 1
      /\ PagePayload(p.payload, 1) = p.payload
      /\ PageSegments(p.payload, 1) = (p.payload \div 255) + 1
  BY <1>2, Capacity DEF PageCount, PagePayload, PageSegments
<1>4. PageFlags(fl, 1, 1) = fl
  BY DEF PageFlags
<1>5. p.index + 1 - 1 = p.index
  BY <1>p
<1> HIDE DEF fl
<1>6. CreatePages(p.serial, p.index, p.payload, fl, p.granule)[1] =
        PageOf(p.serial, p.index, p.payload, fl, p.granule, 1)
  BY <1>3 DEF CreatePages
<1>7. PageOf(p.serial, p.index, p.payload, fl, p.granule, 1) =
        [serial |-> p.serial, index |-> p.index, flags |-> fl,
         granule |-> p.granule, payload |-> p.payload, size |-> p.size]
  <2>1. pageHeaderSize + PageSegments(p.payload, 1) + PagePayload(p.payload, 1) = p.size
    BY <1>1, <1>3, Capacity
  <2> QED BY <2>1, <1>3, <1>4, <1>5 DEF PageOf
<1>8. [serial |-> p.serial, index |-> p.index, flags |-> fl,
       granule |-> p.granule, payload |-> p.payload, size |-> p.size] =
        [p EXCEPT !.flags = fl]
  BY DEF Page
<1> QED BY <1>6, <1>7, <1>8 DEF fl

-----------------------------------------------------------------------------
(* File h is file f with entry e behind it.                                *)
Behind(h, f, e) == f \in Seq(FileEntry) /\ e \in FileEntry /\ h = Append(f, e)

LEMMA Appending ==
  ASSUME NEW f, NEW e, NEW h, Behind(h, f, e)
  PROVE  /\ h \in Seq(FileEntry) /\ f \in Seq(FileEntry) /\ e \in FileEntry
         /\ Len(f) \in Nat /\ Len(h) = Len(f) + 1
         /\ DOMAIN f = 1..Len(f) /\ DOMAIN h = 1..(Len(f) + 1)
         /\ \A k \in DOMAIN f : h[k] = f[k] /\ k < Len(f) + 1
         /\ h[Len(f) + 1] = e
BY DEF Behind

LEMMA EntryTypes ==
  ASSUME NEW e \in FileEntry
  PROVE  /\ e.page \in Page /\ e.at \in Nat /\ e.id \in Int
         /\ e.page.serial \in Int /\ e.page.index \in Nat
         /\ e.page.granule \in Int /\ e.page.size \in Nat
         /\ e.page.flags \in SUBSET {"bos", "cont", "eos"}
         /\ e.page.payload \in Nat
<1>1. e.page \in Page /\ e.at \in Nat /\ e.id \in Int
  BY DEF FileEntry
<1>2. \A p \in Page :
        /\ p.serial \in Int /\ p.index \in Nat /\ p.granule \in Int
        /\ p.size \in Nat /\ p.payload \in Nat
        /\ p.flags \in SUBSET {"bos", "cont", "eos"}
  BY DEF Page
<1> QED BY <1>1, <1>2

LEMMA AppendOf ==
  ASSUME NEW f, NEW e, NEW h, Behind(h, f, e), NEW s
  PROVE  /\ \A k : k \in Of(h, s) <=>
                     k \in Of(f, s) \/ (k = Len(f) + 1 /\ e.page.serial = s)
         /\ \A k : k \in Complete(h, s) <=>
                     \/ k \in Complete(f, s)
                     \/ k = Len(f) + 1 /\ e.page.serial = s /\ Ends(e)
         /\ \A k \in Of(f, s) : h[k] = f[k] /\ k \in Nat /\ k < Len(f) + 1
         /\ h[Len(f) + 1] = e /\ Len(f) + 1 \in Nat
         /\ \A k \in Complete(f, s) : k \in Of(f, s) /\ h[k] = f[k]
<1> DEFINE n == Len(f) + 1
<1>1. /\ Len(f) \in Nat /\ n \in Nat /\ DOMAIN f = 1..Len(f)
      /\ DOMAIN h = 1..n
      /\ \A k \in DOMAIN f : h[k] = f[k] /\ k < n
      /\ h[n] = e
  BY Appending
<1>d. \A k : k \in DOMAIN h <=> k \in DOMAIN f \/ k = n
  BY <1>1
<1>k. \A k \in DOMAIN f : k \in Nat
  BY <1>1
<1> HIDE DEF n
<1>2. \A k : k \in Of(h, s) <=> k \in Of(f, s) \/ (k = n /\ e.page.serial = s)
  BY <1>1, <1>d DEF Of
<1>3. \A k : k \in Complete(h, s) <=>
               k \in Complete(f, s) \/ (k = n /\ e.page.serial = s /\ Ends(e))
  <2>1. \A k \in Of(f, s) : k \in DOMAIN f
    BY DEF Of
  <2>2. \A k \in Of(f, s) : Ends(h[k]) <=> Ends(f[k])
    BY <2>1, <1>1
  <2>3. Ends(h[n]) <=> Ends(e)
    BY <1>1
  <2>4. \A k : k = n => k \notin Of(f, s)
    BY <2>1, <1>1
  <2> QED BY <2>2, <2>3, <2>4, <1>2 DEF Complete
<1> QED BY <1>1, <1>k, <1>2, <1>3 DEF n, Of, Complete

(* A page of another serial, or a fragment, changes nothing for a serial.  *)
LEMMA AppendOther ==
  ASSUME NEW f, NEW e, NEW h, Behind(h, f, e), NEW s, e.page.serial # s
  PROVE  /\ Of(h, s) = Of(f, s) /\ Complete(h, s) = Complete(f, s)
         /\ \A k \in Of(f, s) : h[k] = f[k]
         /\ \A k \in Complete(f, s) : h[k] = f[k]
<1>1. /\ \A k : k \in Of(h, s) <=>
                  k \in Of(f, s) \/ (k = Len(f) + 1 /\ e.page.serial = s)
      /\ \A k : k \in Complete(h, s) <=>
                  \/ k \in Complete(f, s)
                  \/ k = Len(f) + 1 /\ e.page.serial = s /\ Ends(e)
      /\ \A k \in Of(f, s) : h[k] = f[k]
      /\ \A k \in Complete(f, s) : h[k] = f[k]
  BY AppendOf
<1>2. Of(h, s) = Of(f, s) /\ Complete(h, s) = Complete(f, s)
  BY <1>1
<1> QED BY <1>1, <1>2

(* What is said about a serial depends on its pages only.                  *)
LEMMA SamePages ==
  ASSUME NEW f, NEW h, NEW s, Of(h, s) = Of(f, s), Complete(h, s) = Complete(f, s),
         \A k \in Of(f, s) : h[k] = f[k], \A k \in Complete(f, s) : h[k] = f[k]
  PROVE  /\ \A lost : Numbered(h, s, lost) <=> Numbered(f, s, lost)
         /\ \A n, lost : Expects(h, s, n, lost) <=> Expects(f, s, n, lost)
         /\ \A n : Past(h, s, n) <=> Past(f, s, n)
         /\ \A ps : Growing(h, s, ps) <=> Growing(f, s, ps)
         /\ \A g : Until(h, s, g) <=> Until(f, s, g)
         /\ NoEOS(h, s) <=> NoEOS(f, s)
         /\ Ended(h, s) <=> Ended(f, s)
         /\ \A t : t.serial = s => (Noted(h, t) <=> Noted(f, t))
<1>1. \A lost : Numbered(h, s, lost) <=> Numbered(f, s, lost)
  BY DEF Numbered
<1>2. \A n, lost : Expects(h, s, n, lost) <=> Expects(f, s, n, lost)
  BY DEF Expects
<1>3. /\ \A n : Past(h, s, n) <=> Past(f, s, n)
      /\ \A ps : Growing(h, s, ps) <=> Growing(f, s, ps)
      /\ \A g : Until(h, s, g) <=> Until(f, s, g)
      /\ NoEOS(h, s) <=> NoEOS(f, s)
  BY DEF Past, Growing, Until, NoEOS
<1>4. Ended(h, s) <=> Ended(f, s)
  <2>1. {k \in Of(h, s) : "eos" \in h[k].page.flags} =
          {k \in Of(f, s) : "eos" \in f[k].page.flags}
    OBVIOUS
  <2> QED BY <2>1 DEF Ended
<1>5. \A t : t.serial = s => (Noted(h, t) <=> Noted(f, t))
  BY DEF Noted
<1> QED BY <1>1, <1>2, <1>3, <1>4, <1>5

(* The next page of a serial.                                              *)
LEMMA AppendNumber ==
  ASSUME NEW f, NEW e, NEW h, Behind(h, f, e),
         NEW s, e.page.serial = s, NEW lost,
         Numbered(f, s, lost), Expects(f, s, e.page.index, lost)
  PROVE  /\ Numbered(h, s, lost)
         /\ \A n : MayFollow(e, n, lost) => Expects(h, s, n, lost)
<1> DEFINE L == Len(f) + 1
<1>1. /\ Of(h, s) = Of(f, s) \cup {L}
      /\ \A k \in Of(f, s) : h[k] = f[k] /\ k \in Nat /\ k < L
      /\ h[L] = e /\ L \in Nat
  <2>1. /\ \A k : k \in Of(h, s) <=>
                    k \in Of(f, s) \/ (k = Len(f) + 1 /\ e.page.serial = s)
        /\ \A k \in Of(f, s) : h[k] = f[k] /\ k \in Nat /\ k < Len(f) + 1
        /\ h[Len(f) + 1] = e /\ Len(f) + 1 \in Nat
    BY AppendOf
  <2> QED BY <2>1
<1> HIDE DEF L
<1>2. Numbered(h, s, lost)
  <2>1. SUFFICES ASSUME NEW k \in Of(h, s)
                 PROVE  /\ (\A j \in Of(h, s) : j >= k) => h[k].page.index = 0
                        /\ \A j \in Of(h, s) :
                             (j < k /\ \A m \in Of(h, s) : m <= j \/ m >= k) =>
                               MayFollow(h[j], h[k].page.index, lost)
    BY DEF Numbered
  <2>2. CASE k \in Of(f, s)
    <3>1. ASSUME \A j \in Of(h, s) : j >= k PROVE h[k].page.index = 0
      BY <2>2, <3>1, <1>1 DEF Numbered
    <3>2. ASSUME NEW j \in Of(h, s), j < k,
                 \A m \in Of(h, s) : m <= j \/ m >= k
          PROVE  MayFollow(h[j], h[k].page.index, lost)
      <4>1. j \in Of(f, s)
        BY <3>2, <2>2, <1>1
      <4>2. \A m \in Of(f, s) : m <= j \/ m >= k
        BY <3>2, <1>1
      <4> QED BY <4>1, <4>2, <3>2, <2>2, <1>1 DEF Numbered
    <3> QED BY <3>1, <3>2
  <2>3. CASE k = L
    <3>1. ASSUME \A j \in Of(h, s) : j >= k PROVE h[k].page.index = 0
      <4>1. Of(f, s) = {}
        <5>1. \A j \in Of(f, s) : j >= L /\ j < L /\ j \in Nat
          BY <3>1, <2>3, <1>1
        <5> QED BY <5>1, <1>1
      <4> QED BY <4>1, <2>3, <1>1 DEF Expects
    <3>2. ASSUME NEW j \in Of(h, s), j < k,
                 \A m \in Of(h, s) : m <= j \/ m >= k
          PROVE  MayFollow(h[j], h[k].page.index, lost)
      <4>1. j \in Of(f, s)
        BY <3>2, <2>3, <1>1
      <4>2. \A m \in Of(f, s) : m <= j
        <5>1. \A m \in Of(f, s) : (m <= j \/ m >= L) /\ m < L /\ m \in Nat
          BY <3>2, <2>3, <1>1
        <5> QED BY <5>1, <1>1
      <4> QED BY <4>1, <4>2, <2>3, <1>1 DEF Expects
    <3> QED BY <3>1, <3>2
  <2> QED BY <2>2, <2>3, <1>1
<1>3. ASSUME NEW n, MayFollow(e, n, lost) PROVE Expects(h, s, n, lost)
  <2>1. Of(h, s) # {}
    BY <1>1
  <2>2. ASSUME NEW j \in Of(h, s), \A m \in Of(h, s) : m <= j
        PROVE  h[j] = e
    <3>1. L <= j /\ (j \in Of(f, s) => j < L /\ j \in Nat)
      BY <2>2, <1>1
    <3>2. j = L
      BY <3>1, <1>1
    <3> QED BY <3>2, <1>1
  <2> QED BY <2>1, <2>2, <1>3 DEF Expects
<1> QED BY <1>2, <1>3

(* A page that does not end a packet.                                      *)
LEMMA AppendPart ==
  ASSUME NEW f, NEW e, NEW h, Behind(h, f, e),
         NEW s, ~Ends(e)
  PROVE  /\ Complete(h, s) = Complete(f, s)
         /\ \A n : Past(f, s, n) => Past(h, s, n)
         /\ \A ps : Growing(f, s, ps) => Growing(h, s, ps)
         /\ \A g : Until(f, s, g) => Until(h, s, g)
         /\ ("eos" \notin e.page.flags /\ NoEOS(f, s)) => NoEOS(h, s)
         /\ \A t : (t.serial = s /\ Noted(f, t)) => Noted(h, t)
<1>2. /\ \A k : k \in Of(h, s) <=>
                  k \in Of(f, s) \/ (k = Len(f) + 1 /\ e.page.serial = s)
      /\ \A k : k \in Complete(h, s) <=>
                  \/ k \in Complete(f, s)
                  \/ k = Len(f) + 1 /\ e.page.serial = s /\ Ends(e)
      /\ \A k \in Of(f, s) : h[k] = f[k]
      /\ h[Len(f) + 1] = e
      /\ \A k \in Complete(f, s) : h[k] = f[k]
  BY AppendOf
<1>3. Complete(h, s) = Complete(f, s)
  BY <1>2
<1>4. /\ \A n : Past(f, s, n) => Past(h, s, n)
      /\ \A ps : Growing(f, s, ps) => Growing(h, s, ps)
      /\ \A g : Until(f, s, g) => Until(h, s, g)
      /\ \A t : (t.serial = s /\ Noted(f, t)) => Noted(h, t)
  BY <1>2, <1>3 DEF Past, Growing, Until, Noted
<1>5. ("eos" \notin e.page.flags /\ NoEOS(f, s)) => NoEOS(h, s)
  BY <1>2 DEF NoEOS
<1> QED BY <1>3, <1>4, <1>5

(* A page that ends a packet.                                              *)
LEMMA AppendEnd ==
  ASSUME NEW f, NEW e, NEW h, Behind(h, f, e),
         NEW s, e.page.serial = s, Ends(e)
  PROVE  /\ \A k \in Complete(f, s) : h[k] = f[k] /\ k \in Nat /\ k < Len(f) + 1
         /\ \A k : k \in Complete(h, s) <=> k \in Complete(f, s) \/ k = Len(f) + 1
         /\ \A k : k \in Of(h, s) <=> k \in Of(f, s) \/ k = Len(f) + 1
         /\ \A k \in Of(f, s) : h[k] = f[k] /\ k \in Nat /\ k < Len(f) + 1
         /\ h[Len(f) + 1] = e /\ Len(f) + 1 \in Nat
         /\ "eos" \notin e.page.flags /\ NoEOS(f, s) => NoEOS(h, s)
<1>3. /\ \A k : k \in Of(h, s) <=>
                  k \in Of(f, s) \/ (k = Len(f) + 1 /\ e.page.serial = s)
      /\ \A k : k \in Complete(h, s) <=>
                  \/ k \in Complete(f, s)
                  \/ k = Len(f) + 1 /\ e.page.serial = s /\ Ends(e)
      /\ \A k \in Of(f, s) : h[k] = f[k] /\ k \in Nat /\ k < Len(f) + 1
      /\ h[Len(f) + 1] = e /\ Len(f) + 1 \in Nat
      /\ \A k \in Complete(f, s) : k \in Of(f, s)
  BY AppendOf
<1>4. /\ \A k : k \in Complete(h, s) <=> k \in Complete(f, s) \/ k = Len(f) + 1
      /\ \A k : k \in Of(h, s) <=> k \in Of(f, s) \/ k = Len(f) + 1
  BY <1>3
<1>5. "eos" \notin e.page.flags /\ NoEOS(f, s) => NoEOS(h, s)
  BY <1>3, <1>4 DEF NoEOS
<1> QED BY <1>3, <1>4, <1>5

(* Its number is used up, its granule position is the latest.              *)
LEMMA AppendEndGrows ==
  ASSUME NEW f, NEW e, NEW h, Behind(h, f, e),
         NEW s, e.page.serial = s, Ends(e),
         NEW ps, NEW g \in Int, NEW n \in Nat, NEW p \in Nat,
         Growing(f, s, ps), Until(f, s, g), Past(f, s, n),
         n <= p, e.page.index < p, g <= e.page.granule,
         e.id > 0 => /\ ps[e.id].samples \in Nat
                     /\ g + ps[e.id].samples <= e.page.granule
  PROVE  /\ Growing(h, s, ps) /\ Until(h, s, e.page.granule) /\ Past(h, s, p)
<1> DEFINE L == Len(f) + 1
<1>1. /\ \A k \in Complete(f, s) : h[k] = f[k] /\ k \in Nat /\ k < L
      /\ \A k : k \in Complete(h, s) <=> k \in Complete(f, s) \/ k = L
      /\ h[L] = e /\ L \in Nat
  BY AppendEnd
<1>f. f \in Seq(FileEntry) /\ e \in FileEntry
  BY Appending
<1>t. \A k \in Complete(f, s) :
        f[k].page.granule \in Int /\ f[k].page.index \in Nat
  <2>1. \A k \in Complete(f, s) : f[k] \in FileEntry
    BY <1>f DEF Complete, Of
  <2> QED BY <2>1, EntryTypes
<1>e. e.page.granule \in Int /\ e.page.index \in Nat
  BY <1>f, EntryTypes
<1> HIDE DEF L
<1>2. Until(h, s, e.page.granule)
  BY <1>1, <1>t, <1>e DEF Until
<1>3. Past(h, s, p)
  BY <1>1, <1>t, <1>e DEF Past
<1>4. Growing(h, s, ps)
  <2>1. SUFFICES ASSUME NEW j \in Complete(h, s), NEW k \in Complete(h, s), j < k
                 PROVE  /\ h[j].page.granule <= h[k].page.granule
                        /\ h[k].id > 0 =>
                             h[j].page.granule + ps[h[k].id].samples
                               <= h[k].page.granule
    BY DEF Growing
  <2>2. CASE k \in Complete(f, s)
    <3>1. j \in Complete(f, s)
      BY <2>1, <2>2, <1>1
    <3> QED BY <3>1, <2>1, <2>2, <1>1 DEF Growing
  <2>3. CASE k = L
    <3>1. j \in Complete(f, s)
      BY <2>1, <2>3, <1>1
    <3>2. f[j].page.granule <= g /\ f[j].page.granule \in Int
      BY <3>1, <1>t DEF Until
    <3>3. h[k] = e /\ h[j] = f[j]
      BY <2>3, <3>1, <1>1
    <3> QED BY <3>2, <3>3, <1>e
  <2> QED BY <2>2, <2>3, <1>1
<1> QED BY <1>2, <1>3, <1>4

(* The last page is the one to note.                                       *)
LEMMA AppendEndNoted ==
  ASSUME NEW f, NEW e, NEW h, Behind(h, f, e),
         NEW s, e.page.serial = s, Ends(e), EndShape(e.page),
         NEW t, t.serial = s, t.last = e, t.lastPageWritten
  PROVE  Noted(h, t)
<1> DEFINE L == Len(f) + 1
<1>1. /\ \A k \in Complete(f, s) : k \in Nat /\ k < L
      /\ \A k : k \in Complete(h, s) <=> k \in Complete(f, s) \/ k = L
      /\ h[L] = e /\ L \in Nat
  BY AppendEnd
<1> HIDE DEF L
<1>2. L \in Complete(h, s) /\ \A j \in Complete(h, s) : j <= L
  BY <1>1
<1> QED BY <1>1, <1>2 DEF Noted

(* An EOS page behind the others.                                          *)
LEMMA AppendEndEnded ==
  ASSUME NEW f, NEW e, NEW h, Behind(h, f, e),
         NEW s, e.page.serial = s, Ends(e), "eos" \in e.page.flags,
         NoEOS(f, s), Until(f, s, e.page.granule)
  PROVE  Ended(h, s)
<1> DEFINE L == Len(f) + 1
<1>f. e \in FileEntry
  BY Appending
<1>0. /\ \A k : k \in Of(h, s) <=>
                  k \in Of(f, s) \/ (k = Len(f) + 1 /\ e.page.serial = s)
      /\ \A k : k \in Complete(h, s) <=>
                  \/ k \in Complete(f, s)
                  \/ k = Len(f) + 1 /\ e.page.serial = s /\ Ends(e)
      /\ \A k \in Of(f, s) : h[k] = f[k] /\ k \in Nat /\ k < Len(f) + 1
      /\ h[Len(f) + 1] = e /\ Len(f) + 1 \in Nat
      /\ \A k \in Complete(f, s) : k \in Of(f, s)
  BY AppendOf
<1>1. /\ \A k \in Complete(f, s) : h[k] = f[k] /\ k \in Nat /\ k < L
      /\ \A k : k \in Complete(h, s) <=> k \in Complete(f, s) \/ k = L
      /\ \A k : k \in Of(h, s) <=> k \in Of(f, s) \/ k = L
      /\ \A k \in Of(f, s) : h[k] = f[k] /\ k \in Nat /\ k < L
      /\ h[L] = e /\ L \in Nat
  BY <1>0
<1> HIDE DEF L
<1>2. {k \in Of(h, s) : "eos" \in h[k].page.flags} = {L}
  BY <1>1 DEF NoEOS
<1>e. e.page.granule \in Int
  BY <1>f, EntryTypes
<1>3. \A k \in Complete(h, s) : k <= L /\ h[k].page.granule <= h[L].page.granule
  BY <1>1, <1>e DEF Until
<1>4. L \in Complete(h, s)
  BY <1>1
<1> QED BY <1>2, <1>3, <1>4 DEF Ended

-----------------------------------------------------------------------------
(* File h is file f with entry e in the place of entry K.                  *)
Replaced(h, f, K, e) ==
  f \in Seq(FileEntry) /\ e \in FileEntry /\ K \in DOMAIN f /\ h = [f EXCEPT ![K] = e]

LEMMA Replacing ==
  ASSUME NEW f, NEW K, NEW e, NEW h, Replaced(h, f, K, e)
  PROVE  /\ h \in Seq(FileEntry) /\ f \in Seq(FileEntry) /\ e \in FileEntry
         /\ Len(h) = Len(f) /\ DOMAIN h = DOMAIN f /\ K \in DOMAIN f
         /\ DOMAIN f = 1..Len(f) /\ Len(f) \in Nat
         /\ \A k \in DOMAIN f : k # K => h[k] = f[k]
         /\ h[K] = e
BY DEF Replaced

(* Writing an entry over one of the same place and size changes that one.  *)
LEMMA OverwriteOne ==
  ASSUME file \in Seq(FileEntry), Layout, NEW K \in DOMAIN file,
         NEW e \in FileEntry, e.at = file[K].at, e.page.size = file[K].page.size
  PROVE  Replaced(Overwrite(e), file, K, e)
<1>t. \A k \in DOMAIN file : file[k] \in FileEntry /\ k \in Nat
  OBVIOUS
<1>n. \A k \in DOMAIN file : file[k].at \in Nat /\ file[k].page.size \in Nat
  BY <1>t, EntryTypes
<1>1. ASSUME NEW k \in DOMAIN file, k # K
      PROVE  \/ file[k].at + file[k].page.size <= e.at
             \/ e.at + e.page.size <= file[k].at
  <2>1. k < K \/ K < k
    BY <1>1, <1>t
  <2>2. k < K => file[k].at + file[k].page.size <= file[K].at
    BY DEF Layout
  <2>3. K < k => file[K].at + file[K].page.size <= file[k].at
    BY DEF Layout
  <2> QED BY <2>1, <2>2, <2>3
<1>2. \A k \in DOMAIN file : file[k].page.size > 0
  BY DEF Layout
<1>3. ASSUME NEW k \in DOMAIN file, k # K
      PROVE  /\ ~(file[k].at = e.at /\ file[k].page.size = e.page.size)
             /\ ~(/\ file[k].at + file[k].page.size > e.at
                  /\ file[k].at < e.at + e.page.size)
  <2>1. /\ file[k].at \in Nat /\ file[k].page.size \in Nat /\ file[k].page.size > 0
        /\ e.at \in Nat /\ e.page.size \in Nat /\ e.page.size > 0
    BY <1>n, <1>2
  <2>2. \/ file[k].at + file[k].page.size <= e.at
        \/ e.at + e.page.size <= file[k].at
    BY <1>1, <1>3
  <2> QED BY <2>1, <2>2
<1>4. Overwrite(e) = [k \in DOMAIN file |-> IF k = K THEN e ELSE file[k]]
  BY <1>3 DEF Overwrite
<1>5. [file EXCEPT ![K] = e] = [k \in DOMAIN file |-> IF k = K THEN e ELSE file[k]]
  OBVIOUS
<1> QED BY <1>4, <1>5 DEF Replaced

(* Two entries differ in their EOS flag only.                              *)
Alike(x, y) ==
  /\ x.at = y.at /\ x.id = y.id
  /\ x.page.serial = y.page.serial /\ x.page.index = y.page.index
  /\ x.page.granule = y.page.granule /\ x.page.payload = y.page.payload
  /\ x.page.size = y.page.size
  /\ "bos" \in x.page.flags <=> "bos" \in y.page.flags
  /\ "cont" \in x.page.flags <=> "cont" \in y.page.flags

AllAlike(h, f) == DOMAIN h = DOMAIN f /\ \A k \in DOMAIN f : Alike(h[k], f[k])

LEMMA AlikePages ==
  ASSUME NEW f, NEW h, AllAlike(h, f)
  PROVE  /\ \A s : Of(h, s) = Of(f, s) /\ Complete(h, s) = Complete(f, s)
         /\ \A s, lost : Numbered(f, s, lost) => Numbered(h, s, lost)
         /\ \A s, n, lost : Expects(f, s, n, lost) => Expects(h, s, n, lost)
         /\ \A s, n : Past(f, s, n) => Past(h, s, n)
         /\ \A s, ps : Growing(f, s, ps) => Growing(h, s, ps)
         /\ \A s, g : Until(f, s, g) => Until(h, s, g)
         /\ \A a, s, id, len :
              WholeFrom(f, a, s, id, len) => WholeFrom(h, a, s, id, len)
<1>1. \A k \in DOMAIN f :
        /\ h[k].page.serial = f[k].page.serial
        /\ h[k].page.index = f[k].page.index
        /\ h[k].page.granule = f[k].page.granule
        /\ h[k].page.payload = f[k].page.payload
        /\ "cont" \in h[k].page.flags <=> "cont" \in f[k].page.flags
        /\ h[k].id = f[k].id
  BY DEF AllAlike, Alike
<1>2. DOMAIN h = DOMAIN f
  BY DEF AllAlike
<1>3. \A k \in DOMAIN f : Ends(h[k]) <=> Ends(f[k])
  BY <1>1 DEF Ends
<1>4. \A s : Of(h, s) = Of(f, s)
  BY <1>1, <1>2 DEF Of
<1>5. \A s : \A k \in Of(f, s) : k \in DOMAIN f
  BY DEF Of
<1>6. \A s : Complete(h, s) = Complete(f, s)
  BY <1>3, <1>4, <1>5 DEF Complete
<1>7. \A s : \A k \in Complete(f, s) : k \in DOMAIN f
  BY DEF Complete, Of
<1>8. \A k \in DOMAIN f : \A n, lost :
        MayFollow(h[k], n, lost) <=> MayFollow(f[k], n, lost)
  BY <1>1, <1>3 DEF MayFollow
<1>9. ASSUME NEW s, NEW lost, Numbered(f, s, lost) PROVE Numbered(h, s, lost)
  BY <1>9, <1>1, <1>4, <1>5, <1>8 DEF Numbered
<1>10. ASSUME NEW s, NEW n, NEW lost, Expects(f, s, n, lost)
       PROVE  Expects(h, s, n, lost)
  BY <1>10, <1>4, <1>5, <1>8 DEF Expects
<1>11. /\ \A s, n : Past(f, s, n) => Past(h, s, n)
       /\ \A s, ps : Growing(f, s, ps) => Growing(h, s, ps)
       /\ \A s, g : Until(f, s, g) => Until(h, s, g)
  BY <1>1, <1>6, <1>7 DEF Past, Growing, Until
<1>12. ASSUME NEW a, NEW s, NEW id, NEW len, WholeFrom(f, a, s, id, len)
       PROVE  WholeFrom(h, a, s, id, len)
  BY <1>12, <1>1, <1>2, <1>3 DEF WholeFrom, IsPageOf
<1> QED BY <1>4, <1>6, <1>9, <1>10, <1>11, <1>12

(* The last complete page of a serial gets EOS.                            *)
LEMMA MarkedEnded ==
  ASSUME NEW f, NEW h, AllAlike(h, f), NEW s, NEW K \in Complete(f, s),
         \A k \in DOMAIN f : k # K => h[k] = f[k], "eos" \in h[K].page.flags,
         \A j \in Complete(f, s) : j <= K /\ j \in Nat,
         NoEOS(f, s), NEW ps, Growing(f, s, ps),
         f[K].page.granule \in Int
  PROVE  Ended(h, s)
<1>1. Of(h, s) = Of(f, s) /\ Complete(h, s) = Complete(f, s)
  BY AlikePages
<1>2. Of(f, s) \subseteq DOMAIN f /\ Complete(f, s) \subseteq Of(f, s)
  BY DEF Of, Complete
<1>3. {k \in Of(h, s) : "eos" \in h[k].page.flags} = {K}
  BY <1>1, <1>2 DEF NoEOS
<1>4. \A k \in DOMAIN f : h[k].page.granule = f[k].page.granule
  BY DEF AllAlike, Alike
<1>5. ASSUME NEW k \in Complete(f, s) PROVE f[k].page.granule <= f[K].page.granule
  <2>1. k = K \/ k < K
    BY <1>5
  <2> QED BY <2>1 DEF Growing
<1>6. \A k \in Complete(h, s) : k <= K /\ h[k].page.granule <= h[K].page.granule
  BY <1>1, <1>2, <1>4, <1>5
<1> QED BY <1>1, <1>3, <1>6 DEF Ended

(* An entry is damaged.                                                    *)
LEMMA Damaging ==
  ASSUME NEW f, NEW K, NEW e, NEW h, Replaced(h, f, K, e),
         NEW s, e.page.serial # s
  PROVE  /\ \A n : Past(f, s, n) => Past(h, s, n)
         /\ \A ps : Growing(f, s, ps) => Growing(h, s, ps)
         /\ \A g : Until(f, s, g) => Until(h, s, g)
         /\ f[K].page.serial # s =>
              /\ Of(h, s) = Of(f, s) /\ Complete(h, s) = Complete(f, s)
              /\ \A k \in Of(f, s) : h[k] = f[k]
              /\ \A k \in Complete(f, s) : h[k] = f[k]
<1>0. /\ DOMAIN h = DOMAIN f /\ K \in DOMAIN f
      /\ \A k \in DOMAIN f : k # K => h[k] = f[k]
      /\ h[K] = e
  BY Replacing
<1>1. \A k \in Of(h, s) : k \in Of(f, s) /\ k # K /\ h[k] = f[k]
  BY <1>0 DEF Of
<1>2. \A k \in Complete(h, s) : k \in Complete(f, s) /\ h[k] = f[k]
  BY <1>1 DEF Complete
<1>3. /\ \A n : Past(f, s, n) => Past(h, s, n)
      /\ \A ps : Growing(f, s, ps) => Growing(h, s, ps)
      /\ \A g : Until(f, s, g) => Until(h, s, g)
  BY <1>2 DEF Past, Growing, Until
<1>4. ASSUME f[K].page.serial # s
      PROVE  /\ Of(h, s) = Of(f, s)
             /\ \A k \in Of(f, s) : h[k] = f[k]
  BY <1>4, <1>0 DEF Of
<1>5. ASSUME f[K].page.serial # s
      PROVE  /\ Complete(h, s) = Complete(f, s)
             /\ \A k \in Complete(f, s) : h[k] = f[k]
  BY <1>5, <1>4 DEF Complete
<1> QED BY <1>3, <1>4, <1>5

(* Giving up more packets allows more.                                     *)
LEMMA LostGrows ==
  ASSUME NEW lost, NEW more, lost \subseteq more
  PROVE  /\ \A e, n : MayFollow(e, n, lost) => MayFollow(e, n, more)
         /\ \A f, s : Numbered(f, s, lost) => Numbered(f, s, more)
         /\ \A f, s, n : Expects(f, s, n, lost) => Expects(f, s, n, more)
<1>1. \A e, n : MayFollow(e, n, lost) => MayFollow(e, n, more)
  BY DEF MayFollow
<1>2. ASSUME NEW f, NEW s, Numbered(f, s, lost) PROVE Numbered(f, s, more)
  BY <1>1, <1>2 DEF Numbered
<1>3. ASSUME NEW f, NEW s, NEW n, Expects(f, s, n, lost) PROVE Expects(f, s, n, more)
  BY <1>1, <1>3 DEF Expects
<1> QED BY <1>1, <1>2, <1>3

(* An entry that is not of the packet leaves the packet as it is.          *)
LEMMA AppendWhole ==
  ASSUME NEW f, NEW e, NEW h, Behind(h, f, e),
         NEW a, NEW s, NEW id, NEW len \in Nat, e.id # id,
         WholeFrom(f, a, s, id, len)
  PROVE  WholeFrom(h, a, s, id, len)
<1>1. /\ Len(f) \in Nat /\ DOMAIN f = 1..Len(f) /\ DOMAIN h = 1..(Len(f) + 1)
      /\ \A k \in DOMAIN f : h[k] = f[k]
      /\ h[Len(f) + 1] = e
  BY Appending
<1>2. PageCount(len) \in Nat
  BY PageSizes
<1> DEFINE L == Len(f) + 1
           q == PageCount(len)
<1>3. a \in 1..Len(f) /\ a + q - 1 \in 1..Len(f)
  BY <1>1 DEF WholeFrom
<1>4. ~(a <= L /\ L < a + q)
  BY <1>1, <1>2, <1>3
<1>5. \A k \in DOMAIN h : k \in DOMAIN f \/ k = L
  BY <1>1
<1>6. L \notin DOMAIN f /\ h[L].id # id
  BY <1>1
<1>7. a \in DOMAIN h /\ a + q - 1 \in DOMAIN h /\ h[a] = f[a]
  BY <1>1, <1>3
<1> HIDE DEF L, q
<1>8. \A k \in DOMAIN f :
        /\ h[k].id = id <=> a <= k /\ k < a + q
        /\ h[k].id = id => IsPageOf(h[k], s, len, h[a].page.index, k - a + 1)
  BY <1>1, <1>7 DEF WholeFrom, q
<1> QED BY <1>4, <1>5, <1>6, <1>7, <1>8 DEF WholeFrom, q

-----------------------------------------------------------------------------
(* What steps leave alone.  Serials of the tracks:                         *)
TracksKept ==
  DOMAIN tracks' = DOMAIN tracks
    /\ \A i \in DOMAIN tracks : tracks'[i].serial = tracks[i].serial

(* The packets, but for what becomes of the ones being written:            *)
PacketsKept ==
  \A id \in DOMAIN packets :
    /\ id \in DOMAIN packets'
    /\ packets'[id].track = packets[id].track
    /\ packets'[id].len = packets[id].len
    /\ packets'[id].samples = packets[id].samples
    /\ packets[id].status # "pending" => packets'[id].status = packets[id].status

(* No packet is reported as written:                                       *)
NoneDone ==
  \A id \in DOMAIN packets' :
    packets'[id].status = "ok" => id \in DOMAIN packets /\ packets[id].status = "ok"

LEMMA GivenUpGrows ==
  ASSUME PacketsKept, errors \subseteq errors'
  PROVE  GivenUp \subseteq GivenUp'
<1>1. ASSUME NEW id \in DOMAIN packets, packets[id].status = "failed"
      PROVE  id \in DOMAIN packets' /\ packets'[id].status = "failed"
  BY <1>1 DEF PacketsKept
<1>2. "header" \in errors => "header" \in errors'
  OBVIOUS
<1> QED BY <1>1, <1>2 DEF GivenUp

LEMMA NumbersKept ==
  ASSUME Numbers, file' = file, TracksKept, GivenUp \subseteq GivenUp',
         \A i \in DOMAIN tracks : tracks'[i].pageIndex = tracks[i].pageIndex,
         Cur.written = 0, Cur'.written = 0, errors \subseteq errors'
  PROVE  Numbers'
<1>1. SUFFICES ASSUME NEW i \in DOMAIN tracks
      PROVE  /\ Past(file, tracks[i].serial, tracks[i].pageIndex)
             /\ "eos" \notin errors' =>
                  /\ Numbered(file, tracks[i].serial, GivenUp')
                  /\ Expects(file, tracks[i].serial, tracks[i].pageIndex + 0, GivenUp')
  BY DEF Numbers, TracksKept
<1>2. /\ Past(file, tracks[i].serial, tracks[i].pageIndex)
      /\ "eos" \notin errors =>
           /\ Numbered(file, tracks[i].serial, GivenUp)
           /\ Expects(file, tracks[i].serial, tracks[i].pageIndex + 0, GivenUp)
  BY DEF Numbers
<1> QED BY <1>2, LostGrows

(* Granule positions depend on the durations of the packets in the file.   *)
LEMMA GrowingKept ==
  ASSUME PacketsKept, packets \in Seq(SentPacket), file \in Seq(FileEntry),
         \A m \in DOMAIN file : file[m].id <= Len(packets),
         NEW s, Growing(file, s, packets)
  PROVE  Growing(file, s, packets')
<1>1. ASSUME NEW m \in Complete(file, s), file[m].id > 0
      PROVE  packets'[file[m].id].samples = packets[file[m].id].samples
  <2>1. m \in DOMAIN file
    BY DEF Complete, Of
  <2>2. file[m] \in FileEntry
    BY <2>1
  <2>3. file[m].id \in Int /\ file[m].id <= Len(packets)
    BY <2>1, <2>2, EntryTypes
  <2>4. file[m].id \in DOMAIN packets
    BY <2>3, <1>1
  <2> QED BY <2>4 DEF PacketsKept
<1> QED BY <1>1 DEF Growing

LEMMA UntilLater ==
  ASSUME NEW f, f \in Seq(FileEntry), NEW s, NEW g \in Int, NEW g2 \in Int, g <= g2,
         Until(f, s, g)
  PROVE  Until(f, s, g2)
<1>1. \A k \in Complete(f, s) : f[k] \in FileEntry
  BY DEF Complete, Of
<1>2. \A k \in Complete(f, s) : f[k].page.granule \in Int
  BY <1>1, EntryTypes
<1> QED BY <1>2 DEF Until

LEMMA GranulesKept ==
  ASSUME Granules, file' = file, TracksKept, PacketsKept,
         packets \in Seq(SentPacket), file \in Seq(FileEntry),
         \A m \in DOMAIN file : file[m].id <= Len(packets),
         \A i \in DOMAIN tracks :
           /\ tracks[i].previousGranulePosition - Underway(i) \in Int
           /\ tracks'[i].previousGranulePosition - Underway(i)' \in Int
           /\ tracks[i].previousGranulePosition - Underway(i)
                <= tracks'[i].previousGranulePosition - Underway(i)'
           /\ ~started' => tracks'[i].previousGranulePosition = 0
  PROVE  Granules'
<1>1. SUFFICES ASSUME NEW i \in DOMAIN tracks
      PROVE  /\ Growing(file, tracks[i].serial, packets')
             /\ Until(file, tracks[i].serial,
                      tracks'[i].previousGranulePosition - Underway(i)')
  BY DEF Granules, TracksKept
<1>2. /\ Growing(file, tracks[i].serial, packets)
      /\ Until(file, tracks[i].serial,
               tracks[i].previousGranulePosition - Underway(i))
  BY DEF Granules
<1>3. Growing(file, tracks[i].serial, packets')
  BY <1>2, GrowingKept
<1> DEFINE s == tracks[i].serial
           g == tracks[i].previousGranulePosition - Underway(i)
           g2 == tracks'[i].previousGranulePosition - Underway(i)'
<1>4. g \in Int /\ g2 \in Int /\ g <= g2 /\ Until(file, s, g)
  BY <1>2
<1> HIDE DEF s, g, g2
<1>5. Until(file, s, g2)
  BY <1>4, UntilLater
<1> QED BY <1>3, <1>5 DEF s, g2

LEMMA EndKept ==
  ASSUME EndOfStream, file' = file, TracksKept, errors \subseteq errors',
         single' = single, seekable' = seekable,
         \A i \in DOMAIN tracks :
           /\ tracks'[i].lastPageWritten = tracks[i].lastPageWritten
           /\ tracks'[i].last = tracks[i].last
           /\ \/ Through(i)' /\ single /\ ~(started' /\ seekable)
              \/ Through(i)' /\ Through(i) /\ started' = started
              \/ ~Through(i)' /\ ~Through(i)
  PROVE  EndOfStream'
<1>1. SUFFICES ASSUME NEW i \in DOMAIN tracks
      PROVE  IF Through(i)'
             THEN ("eos" \notin errors' /\ (single => started' /\ seekable)) =>
                    Ended(file, tracks[i].serial)
             ELSE /\ NoEOS(file, tracks[i].serial)
                  /\ seekable => Noted(file, tracks'[i])
  BY DEF EndOfStream, TracksKept
<1>2. IF Through(i)
      THEN ("eos" \notin errors /\ (single => started /\ seekable)) =>
             Ended(file, tracks[i].serial)
      ELSE /\ NoEOS(file, tracks[i].serial)
           /\ seekable => Noted(file, tracks[i])
  BY DEF EndOfStream
<1>3. Noted(file, tracks[i]) => Noted(file, tracks'[i])
  BY DEF Noted, TracksKept
<1> QED BY <1>2, <1>3

LEMMA WholeKept ==
  ASSUME PacketsWhole, Serials, file' = file, TracksKept, PacketsKept, NoneDone,
         errors \subseteq errors'
  PROVE  PacketsWhole'
<1>1. SUFFICES ASSUME NEW id \in DOMAIN packets', packets'[id].status = "ok",
                      "eos" \notin errors'
      PROVE  \E a \in DOMAIN file :
               WholeFrom(file, a, tracks'[packets'[id].track].serial, id,
                         packets'[id].len)
  BY DEF PacketsWhole
<1>2. id \in DOMAIN packets /\ packets[id].status = "ok" /\ "eos" \notin errors
  BY <1>1 DEF NoneDone
<1>3. /\ packets'[id].track = packets[id].track /\ packets'[id].len = packets[id].len
      /\ tracks'[packets[id].track].serial = tracks[packets[id].track].serial
  BY <1>2 DEF PacketsKept, TracksKept, Serials
<1> QED BY <1>2, <1>3 DEF PacketsWhole

-----------------------------------------------------------------------------
Stages == {"idle", "ids", "tags", "start", "packet", "eos", "close"}

LEMMA CallTypes ==
  ASSUME NEW k \in CallState
  PROVE  /\ k.op \in {"none", "new", "write", "close"} /\ k.stage \in Stages
         /\ k.track \in Nat /\ k.to \in Nat /\ k.id \in Nat
         /\ k.pages \in Seq(Page) /\ k.written \in Nat
BY DEF CallState, Stages

LEMMA AtState ==
  ASSUME NEW k \in CallState, NEW st \in Stages, NEW i \in Nat
  PROVE  /\ At(k, st, i) \in CallState
         /\ At(k, st, i).stage = st /\ At(k, st, i).track = i
         /\ At(k, st, i).pages = << >> /\ At(k, st, i).written = 0
         /\ At(k, st, i).op = k.op /\ At(k, st, i).to = k.to /\ At(k, st, i).id = k.id
<1>1. << >> \in Seq(Page)
  OBVIOUS
<1> QED BY <1>1 DEF At, CallState, Stages

LEMMA IdleState ==
  /\ Idle \in CallState /\ Idle.op = "none" /\ Idle.stage = "idle" /\ Idle.track = 0
  /\ Idle.to = 0 /\ Idle.id = 0 /\ Idle.pages = << >> /\ Idle.written = 0
<1>1. << >> \in Seq(Page)
  OBVIOUS
<1> QED BY <1>1 DEF Idle, CallState

(* Call j comes after call k: over, or in its next stage.                  *)
Moved(j, k) ==
  /\ j \in CallState /\ j.pages = << >> /\ j.written = 0
  /\ j = Idle \/ (j.op = k.op /\ j.id = k.id /\ j.to = k.to /\ j.stage # "idle")

LEMMA EndingState ==
  ASSUME NEW k \in CallState, tracks \in Seq(TrackState)
  PROVE  /\ Moved(Ending(k), k) /\ Ending(k).op = k.op
         /\ Ending(k).stage \in {"eos", "close"}
         /\ Ending(k).stage = "eos" => Ending(k).track = 1 /\ 1 \in DOMAIN tracks
         /\ Ending(k).stage = "close" => tracks = << >> \/ (single /\ ~seekable)
<1>1. CASE tracks = << >> \/ (single /\ ~seekable)
  <2>1. Ending(k) = At(k, "close", 0) /\ "close" \in Stages /\ 0 \in Nat
    BY <1>1 DEF Ending, Stages
  <2>2. Moved(At(k, "close", 0), k)
    BY <2>1, AtState DEF Moved
  <2> QED BY <1>1, <2>1, <2>2, AtState
<1>2. CASE ~(tracks = << >> \/ (single /\ ~seekable))
  <2>1. Ending(k) = At(k, "eos", 1) /\ "eos" \in Stages /\ 1 \in Nat
    BY <1>2 DEF Ending, Stages
  <2>2. Moved(At(k, "eos", 1), k)
    BY <2>1, AtState DEF Moved
  <2>3. 1 \in DOMAIN tracks
    BY <1>2
  <2> QED BY <2>1, <2>2, <2>3, AtState
<1> QED BY <1>1, <1>2

LEMMA BodyState ==
  ASSUME NEW k \in CallState, tracks \in Seq(TrackState)
  PROVE  /\ Moved(Body(k), k)
         /\ k.op = "write" => Body(k).stage = "packet" /\ Body(k).track = k.to
                              /\ Body(k).op = "write"
         /\ k.op = "close" => Body(k) = Ending(k)
         /\ k.op \notin {"write", "close"} => Body(k) = Idle
<1>1. CASE k.op = "write"
  <2>1. Body(k) = At(k, "packet", k.to) /\ "packet" \in Stages /\ k.to \in Nat
    BY <1>1, CallTypes DEF Body, Stages
  <2>2. Moved(At(k, "packet", k.to), k)
    BY <2>1, AtState DEF Moved
  <2> QED BY <1>1, <2>1, <2>2, AtState
<1>2. CASE k.op = "close"
  BY <1>2, EndingState DEF Body
<1>3. CASE k.op \notin {"write", "close"}
  BY <1>3, IdleState DEF Body, Moved
<1> QED BY <1>1, <1>2, <1>3

LEMMA StartLockedState ==
  ASSUME NEW k \in CallState, tracks \in Seq(TrackState), started \in BOOLEAN
  PROVE  /\ Moved(StartLocked(k), k)
         /\ started => StartLocked(k) = Body(k)
         /\ ~started =>
              /\ StartLocked(k).op = k.op
              /\ \/ /\ StartLocked(k).stage = "start" /\ tracks = << >>
                 \/ /\ StartLocked(k).stage = "ids"
                    /\ StartLocked(k).track = 1 /\ 1 \in DOMAIN tracks
<1>1. CASE started
  BY <1>1, BodyState DEF StartLocked
<1>2. CASE ~started /\ tracks = << >>
  <2>1. StartLocked(k) = At(k, "start", 0) /\ "start" \in Stages /\ 0 \in Nat
    BY <1>2 DEF StartLocked, Stages
  <2>2. Moved(At(k, "start", 0), k)
    BY <2>1, AtState DEF Moved
  <2> QED BY <1>2, <2>1, <2>2, AtState
<1>3. CASE ~started /\ tracks # << >>
  <2>1. StartLocked(k) = At(k, "ids", 1) /\ "ids" \in Stages /\ 1 \in Nat
    BY <1>3 DEF StartLocked, Stages
  <2>2. Moved(At(k, "ids", 1), k)
    BY <2>1, AtState DEF Moved
  <2>3. 1 \in DOMAIN tracks
    BY <1>3
  <2> QED BY <1>3, <2>1, <2>2, <2>3, AtState
<1> QED BY <1>1, <1>2, <1>3

LEMMA AtMoved ==
  ASSUME NEW k \in CallState, NEW st \in Stages, st # "idle", NEW i \in Nat
  PROVE  /\ Moved(At(k, st, i), k) /\ At(k, st, i).op = k.op
         /\ At(k, st, i).stage = st /\ At(k, st, i).track = i
BY AtState DEF Moved

LEMMA NextHeaderState ==
  ASSUME NEW k \in CallState, tracks \in Seq(TrackState), k.track \in DOMAIN tracks,
         k.stage \in {"ids", "tags"}
  PROVE  /\ Moved(NextHeader(k), k) /\ NextHeader(k).op = k.op
         /\ \/ /\ k.track < Len(tracks) /\ NextHeader(k).stage = k.stage
               /\ NextHeader(k).track = k.track + 1
               /\ k.track + 1 \in DOMAIN tracks
            \/ /\ k.track = Len(tracks) /\ k.stage = "ids" /\ 1 \in DOMAIN tracks
               /\ NextHeader(k).stage = "tags" /\ NextHeader(k).track = 1
            \/ /\ k.track = Len(tracks) /\ k.stage = "tags"
               /\ NextHeader(k).stage = "start" /\ NextHeader(k).track = 0
<1>0. k.stage \in Stages /\ k.track \in Nat /\ k.track + 1 \in Nat
  BY CallTypes DEF Stages
<1>n. /\ Len(tracks) \in Nat /\ DOMAIN tracks = 1..Len(tracks)
      /\ k.track <= Len(tracks) /\ k.track >= 1
  OBVIOUS
<1>s. "tags" \in Stages /\ "start" \in Stages /\ "tags" # "idle" /\ "start" # "idle"
  BY DEF Stages
<1>1. CASE k.track < Len(tracks)
  <2>1. NextHeader(k) = At(k, k.stage, k.track + 1)
    BY <1>1 DEF NextHeader
  <2>2. k.stage # "idle"
    OBVIOUS
  <2>3. /\ Moved(At(k, k.stage, k.track + 1), k) /\ At(k, k.stage, k.track + 1).op = k.op
        /\ At(k, k.stage, k.track + 1).stage = k.stage /\ At(k, k.stage, k.track + 1).track = k.track + 1
    BY <1>0, <2>2, AtMoved
  <2>4. k.track + 1 \in DOMAIN tracks
    BY <1>0, <1>1, <1>n
  <2> QED BY <1>0, <1>1, <2>1, <2>3, <2>4
<1>2. CASE ~(k.track < Len(tracks)) /\ k.stage = "ids"
  <2>1. NextHeader(k) = At(k, "tags", 1)
    BY <1>2 DEF NextHeader
  <2>3. /\ Moved(At(k, "tags", 1), k) /\ At(k, "tags", 1).op = k.op
        /\ At(k, "tags", 1).stage = "tags" /\ At(k, "tags", 1).track = 1
    BY <1>s, AtMoved
  <2>4. k.track = Len(tracks) /\ 1 \in DOMAIN tracks
    BY <1>0, <1>2, <1>n
  <2> QED BY <1>s, <1>2, <2>1, <2>3, <2>4
<1>3. CASE ~(k.track < Len(tracks)) /\ k.stage = "tags"
  <2>1. NextHeader(k) = At(k, "start", 0)
    BY <1>3 DEF NextHeader
  <2>3. /\ Moved(At(k, "start", 0), k) /\ At(k, "start", 0).op = k.op
        /\ At(k, "start", 0).stage = "start" /\ At(k, "start", 0).track = 0
    BY <1>s, AtMoved
  <2>4. k.track = Len(tracks)
    BY <1>0, <1>3, <1>n
  <2> QED BY <1>s, <1>3, <2>1, <2>3, <2>4
<1> QED BY <1>1, <1>2, <1>3

LEMMA NextEndState ==
  ASSUME NEW k \in CallState, tracks \in Seq(TrackState), k.track \in DOMAIN tracks
  PROVE  /\ Moved(NextEnd(k), k) /\ NextEnd(k).op = k.op
         /\ \/ /\ k.track < Len(tracks) /\ NextEnd(k).stage = "eos"
               /\ NextEnd(k).track = k.track + 1
               /\ k.track + 1 \in DOMAIN tracks
            \/ /\ k.track = Len(tracks) /\ NextEnd(k).stage = "close"
<1>0. k.track \in Nat /\ k.track + 1 \in Nat
  BY CallTypes
<1>n. /\ Len(tracks) \in Nat /\ DOMAIN tracks = 1..Len(tracks)
      /\ k.track <= Len(tracks) /\ k.track >= 1
  OBVIOUS
<1>s. "eos" \in Stages /\ "close" \in Stages /\ "eos" # "idle" /\ "close" # "idle"
  BY DEF Stages
<1>1. CASE k.track < Len(tracks)
  <2>1. NextEnd(k) = At(k, "eos", k.track + 1)
    BY <1>1 DEF NextEnd
  <2>3. /\ Moved(At(k, "eos", k.track + 1), k) /\ At(k, "eos", k.track + 1).op = k.op
        /\ At(k, "eos", k.track + 1).stage = "eos" /\ At(k, "eos", k.track + 1).track = k.track + 1
    BY <1>0, <1>s, AtMoved
  <2>4. k.track + 1 \in DOMAIN tracks
    BY <1>0, <1>1, <1>n
  <2> QED BY <1>0, <1>s, <1>1, <2>1, <2>3, <2>4
<1>2. CASE ~(k.track < Len(tracks))
  <2>1. NextEnd(k) = At(k, "close", 0)
    BY <1>2 DEF NextEnd
  <2>3. /\ Moved(At(k, "close", 0), k) /\ At(k, "close", 0).op = k.op
        /\ At(k, "close", 0).stage = "close" /\ At(k, "close", 0).track = 0
    BY <1>s, AtMoved
  <2>4. k.track = Len(tracks)
    BY <1>0, <1>2, <1>n
  <2> QED BY <1>s, <2>1, <2>3, <2>4
<1> QED BY <1>1, <1>2

(* A caller in a call has the mutex.                                       *)
LEMMA Holding ==
  ASSUME TypeOK, Exclusive, NEW c \in Callers, call[c] # Idle
  PROVE  mu = c /\ Cur = call[c] /\ open /\ Cur \in CallState /\ Cur # Idle
<1>1. mu = c
  BY DEF Exclusive
<1>2. call[c] \in CallState /\ open \in BOOLEAN
  BY DEF TypeOK
<1>3. open
  BY <1>1, <1>2, NoCallerAssumption DEF Exclusive
<1> QED BY <1>1, <1>2, <1>3, NoCallerAssumption DEF Cur

(* The mutex is free.                                                      *)
LEMMA Free ==
  ASSUME mu = NoCaller
  PROVE  Cur = Idle
BY DEF Cur

(* Caller c, who has the mutex or takes it, is in call j from now on.      *)
Turn(c, j) ==
  /\ call' = [call EXCEPT ![c] = j]
  /\ mu' = IF j = Idle THEN NoCaller ELSE c

LEMMA TakesTurn ==
  ASSUME TypeOK, Exclusive, NEW c \in Callers, mu \in {c, NoCaller},
         NEW j \in CallState, Turn(c, j), open' \/ j = Idle
  PROVE  /\ call' \in [Callers -> CallState] /\ mu' \in Callers \cup {NoCaller}
         /\ Exclusive' /\ Cur' = j
<1>1. call \in [Callers -> CallState]
  BY DEF TypeOK
<1>2. \A d \in Callers : d # c => call[d] = Idle
  BY NoCallerAssumption DEF Exclusive
<1>3. call'[c] = j /\ \A d \in Callers : d # c => call'[d] = Idle
  BY <1>1, <1>2 DEF Turn
<1>4. call' \in [Callers -> CallState]
  BY <1>1 DEF Turn
<1>5. CASE j = Idle
  <2>1. mu' = NoCaller
    BY <1>5 DEF Turn
  <2> QED BY <2>1, <1>3, <1>4, <1>5, NoCallerAssumption DEF Exclusive, Cur
<1>6. CASE j # Idle
  <2>1. mu' = c
    BY <1>6 DEF Turn
  <2>2. Exclusive'
    BY <2>1, <1>3, <1>6 DEF Exclusive
  <2> QED BY <2>1, <2>2, <1>3, <1>4, NoCallerAssumption DEF Cur
<1> QED BY <1>5, <1>6

LEMMA ResumeTurn ==
  ASSUME NEW c, NEW j, Resume(c, j), mu = c
  PROVE  Turn(c, j)
BY DEF Resume, Turn

(* A step that writes nothing.                                             *)
LEMMA Quietly ==
  ASSUME Inv, file' = file, tracks' = tracks, PacketsKept, NoneDone,
         errors \subseteq errors', Cur.written = 0, Cur.pages = << >>,
         Cur'.written = 0, Cur'.pages = << >>, started => started',
         \A id \in DOMAIN packets' : packets'[id].track \in DOMAIN tracks
  PROVE  /\ Serials' /\ Made(Cur)' /\ Layout' /\ PacketsWhole' /\ Numbers' /\ Granules'
<1>1. TracksKept
  BY DEF TracksKept
<1>2. Serials' /\ Layout'
  BY DEF Inv, Serials, Layout
<1>3. Made(Cur)'
  BY DEF Made
<1>4. PacketsWhole'
  BY <1>1, WholeKept DEF Inv
<1>5. Numbers'
  <2>1. GivenUp \subseteq GivenUp'
    BY GivenUpGrows
  <2> QED BY <1>1, <2>1, NumbersKept DEF Inv
<1>6. Granules'
  <2>1. \A i \in DOMAIN tracks : Underway(i) = 0 /\ Underway(i)' = 0
    BY DEF Underway
  <2>2. \A i \in DOMAIN tracks :
          /\ tracks[i].previousGranulePosition \in Nat
          /\ ~started => tracks[i].previousGranulePosition = 0
    <3>1. \A i \in DOMAIN tracks : tracks[i] \in TrackState
      BY DEF Inv, TypeOK
    <3> QED BY <3>1 DEF Inv, Granules, TrackState
  <2>3. \A i \in DOMAIN tracks :
           /\ tracks[i].previousGranulePosition - Underway(i) \in Int
           /\ tracks'[i].previousGranulePosition - Underway(i)' \in Int
           /\ tracks[i].previousGranulePosition - Underway(i)
                <= tracks'[i].previousGranulePosition - Underway(i)'
           /\ ~started' => tracks'[i].previousGranulePosition = 0
    BY <2>1, <2>2
  <2>4. /\ packets \in Seq(SentPacket) /\ file \in Seq(FileEntry)
        /\ \A m \in DOMAIN file : file[m].id <= Len(packets)
        /\ Granules
    BY DEF Inv, TypeOK, Written
  <2> QED BY <1>1, <2>3, <2>4, GranulesKept
<1> QED BY <1>2, <1>3, <1>4, <1>5, <1>6

(* The headers stay as they are.                                           *)
LEMMA HeadersKept ==
  ASSUME Inv, file' = file, tracks' = tracks, errors \subseteq errors',
         errors' \cap {"header", "eos"} = {}
  PROVE  /\ HeadersFirst' /\ \A i \in DOMAIN tracks : Tagged(i)' <=> Tagged(i)
         /\ HeadersFirst
         /\ IF started THEN \A i \in DOMAIN tracks : Tagged(i)
            ELSE /\ \A m \in DOMAIN file : file[m].id <= 0
                 /\ Cur.stage = "idle" => file = << >>
                 /\ Cur.stage = "ids" => Len(file) = Cur.track - 1
                 /\ Cur.stage = "tags" => \A i \in 1..(Cur.track - 1) : Tagged(i)
                 /\ Cur.stage = "start" => \A i \in DOMAIN tracks : Tagged(i)
                 /\ Cur.stage \in {"tags", "start"} => Len(file) >= Len(tracks)
                 /\ Cur.stage \notin {"packet", "eos", "close"}
<1>1. errors \cap {"header", "eos"} = {}
  OBVIOUS
<1>2. HeadersFirst
  BY <1>1 DEF Inv, Headers
<1>3. HeadersFirst'
  BY <1>1, <1>2 DEF HeadersFirst
<1>4. \A i \in DOMAIN tracks : Tagged(i)' <=> Tagged(i)
  BY DEF Tagged
<1> QED BY <1>1, <1>2, <1>3, <1>4 DEF Inv, Headers

-----------------------------------------------------------------------------
(* One lemma per action.                                                   *)
LEMMA NewTrackType ==
  ASSUME NEW ssrc \in Nat, NEW serial \in Nat
  PROVE  /\ newTrackState(ssrc, serial) \in TrackState
         /\ newTrackState(ssrc, serial).serial = serial
         /\ newTrackState(ssrc, serial).pageIndex = 0
         /\ newTrackState(ssrc, serial).previousGranulePosition = 0
         /\ newTrackState(ssrc, serial).lastPageWritten = FALSE
<1>1. NilPage(serial, 0, 0) \in Page
  BY Capacity DEF NilPage, Page
<1>2. Entry(NilPage(serial, 0, 0), 0, -1) \in FileEntry
  BY <1>1 DEF Entry, FileEntry
<1> QED BY <1>2 DEF newTrackState, TrackState

LEMMA NewTrackInv ==
  ASSUME Inv, NEW r \in Requests, NewTrack(r.ssrc, r.serial),
         UNCHANGED <<single, seekable>>
  PROVE  Inv'
<1> DEFINE n == Len(tracks) + 1
           new == newTrackState(r.ssrc, r.serial)
<1>r. r.ssrc \in Nat /\ r.serial \in Nat
  BY RequestsAssumption
<1>t. tracks \in Seq(TrackState) /\ file \in Seq(FileEntry) /\ packets \in Seq(SentPacket)
  BY DEF Inv, TypeOK
<1>s. /\ mu = NoCaller /\ open /\ ~started
      /\ ~serialInUse(r.serial)
      /\ tracks' = Append(tracks, new)
      /\ mu' = mu /\ open' = open /\ started' = started /\ call' = call
      /\ file' = file /\ packets' = packets /\ failures' = failures /\ errors' = errors
      /\ single' = single /\ seekable' = seekable
  BY DEF NewTrack
<1>new. /\ new \in TrackState /\ new.serial = r.serial /\ new.pageIndex = 0
        /\ new.previousGranulePosition = 0 /\ new.lastPageWritten = FALSE
  BY <1>r, NewTrackType
<1> HIDE DEF new
<1>d. /\ tracks' \in Seq(TrackState)
      /\ Len(tracks) \in Nat /\ DOMAIN tracks = 1..Len(tracks) /\ Len(tracks') = n
      /\ \A i \in DOMAIN tracks' : i \in DOMAIN tracks \/ i = n
      /\ n \in DOMAIN tracks' /\ n \notin DOMAIN tracks
      /\ \A i \in DOMAIN tracks : i \in DOMAIN tracks' /\ tracks'[i] = tracks[i]
      /\ tracks'[n] = new
  BY <1>s, <1>t, <1>new
<1> HIDE DEF n
<1>c. Cur = Idle /\ Cur' = Idle
  BY <1>s DEF Cur
<1>i. /\ Idle.op = "none" /\ Idle.stage = "idle" /\ Idle.track = 0
      /\ Idle.id = 0 /\ Idle.pages = << >> /\ Idle.written = 0
  BY IdleState
<1>f. \A i \in DOMAIN tracks : tracks[i].serial # r.serial
  BY <1>s DEF serialInUse
<1>e. Of(file, r.serial) = {} /\ Complete(file, r.serial) = {}
  <2>1. \A m \in DOMAIN file : file[m].page.serial # r.serial
    <3>1. \A m \in DOMAIN file :
            \/ file[m].page.serial = -1
            \/ \E i \in DOMAIN tracks : file[m].page.serial = tracks[i].serial
      BY DEF Inv, Serials
    <3> QED BY <3>1, <1>f, <1>r
  <2> QED BY <2>1 DEF Of, Complete
<1>1. TypeOK'
  BY <1>s, <1>d DEF Inv, TypeOK
<1>2. Exclusive'
  BY <1>s DEF Inv, Exclusive
<1>3. Serials'
  <2>1. \A i, j \in DOMAIN tracks' : tracks'[i].serial = tracks'[j].serial => i = j
    <3>1. \A i, j \in DOMAIN tracks : tracks[i].serial = tracks[j].serial => i = j
      BY DEF Inv, Serials
    <3> QED BY <3>1, <1>d, <1>f, <1>new
  <2>2. \A m \in DOMAIN file' :
           \/ file'[m].page.serial = -1
           \/ \E i \in DOMAIN tracks' : file'[m].page.serial = tracks'[i].serial
    BY <1>s, <1>d DEF Inv, Serials
  <2>3. \A id \in DOMAIN packets' : packets'[id].track \in DOMAIN tracks'
    BY <1>s, <1>d DEF Inv, Serials
  <2> QED BY <2>1, <2>2, <2>3 DEF Serials
<1>4. Purpose(Cur)' /\ Made(Cur)'
  BY <1>c, <1>i DEF Purpose, Made
<1>5. Written(Cur)'
  <2>1. Written(Cur)
    BY DEF Inv
  <2> QED BY <2>1, <1>s, <1>c, <1>i, <1>t DEF Written
<1>6. Layout'
  BY <1>s DEF Inv, Layout
<1>7. PacketsWhole'
  BY <1>s, <1>d DEF Inv, PacketsWhole, Serials
<1>8. Numbers'
  <2>1. GivenUp' = GivenUp
    BY <1>s DEF GivenUp
  <2>2. ASSUME NEW i \in DOMAIN tracks'
        PROVE  /\ Past(file, tracks'[i].serial, tracks'[i].pageIndex)
               /\ "eos" \notin errors =>
                    /\ Numbered(file, tracks'[i].serial, GivenUp)
                    /\ Expects(file, tracks'[i].serial, tracks'[i].pageIndex + 0, GivenUp)
    <3>1. CASE i \in DOMAIN tracks
      BY <3>1, <1>d, <1>c, <1>i DEF Inv, Numbers
    <3>2. CASE i = n
      BY <3>2, <1>d, <1>new, <1>e DEF Past, Numbered, Expects
    <3> QED BY <3>1, <3>2, <1>d
  <2> QED BY <2>1, <2>2, <1>s, <1>c, <1>i DEF Numbers
<1>9. Granules'
  <2>1. ASSUME NEW i \in DOMAIN tracks'
        PROVE  /\ Growing(file, tracks'[i].serial, packets)
               /\ Until(file, tracks'[i].serial, tracks'[i].previousGranulePosition - 0)
               /\ tracks'[i].previousGranulePosition = 0
    <3>1. CASE i \in DOMAIN tracks
      <4>1. Underway(i) = 0
        BY <1>c, <1>i DEF Underway
      <4> QED BY <3>1, <4>1, <1>d, <1>s DEF Inv, Granules
    <3>2. CASE i = n
      BY <3>2, <1>d, <1>new, <1>e DEF Growing, Until
    <3> QED BY <3>1, <3>2, <1>d
  <2>2. \A i : Underway(i)' = 0
    BY <1>c, <1>i DEF Underway
  <2> QED BY <2>1, <2>2, <1>s DEF Granules
<1>10. EndOfStream'
  <2>1. \A i : ~Through(i) /\ ~Through(i)'
    BY <1>c, <1>i, <1>s DEF Through
  <2>2. ASSUME NEW i \in DOMAIN tracks'
        PROVE  /\ NoEOS(file, tracks'[i].serial)
               /\ seekable => Noted(file, tracks'[i])
    <3>1. CASE i \in DOMAIN tracks
      BY <3>1, <2>1, <1>d DEF Inv, EndOfStream
    <3>2. CASE i = n
      BY <3>2, <1>d, <1>new, <1>e DEF NoEOS, Noted
    <3> QED BY <3>1, <3>2, <1>d
  <2> QED BY <2>1, <2>2, <1>s DEF EndOfStream
<1>11. Headers'
  <2>1. SUFFICES ASSUME errors \cap {"header", "eos"} = {}
        PROVE  /\ HeadersFirst'
               /\ \A m \in DOMAIN file : file[m].id <= 0
               /\ file = << >>
    BY <1>s, <1>c, <1>i DEF Headers
  <2>2. file = << >>
    BY <2>1, <1>s, <1>c, <1>i DEF Inv, Headers
  <2>3. HeadersFirst'
    BY <2>2, <1>s DEF HeadersFirst
  <2> QED BY <2>2, <2>3
<1> QED BY <1>1, <1>2, <1>3, <1>4, <1>5, <1>6, <1>7, <1>8, <1>9, <1>10, <1>11 DEF Inv

LEMMA WriteRTPInv ==
  ASSUME Inv, NEW c \in Callers, NEW i \in DOMAIN tracks, NEW p \in Payloads,
         WriteRTP(c, i, p.len, p.samples), UNCHANGED <<single, seekable>>
  PROVE  Inv'
<1> DEFINE k == [Idle EXCEPT !.op = "write", !.id = Len(packets) + 1, !.to = i]
           j == StartLocked(k)
           sent == [track |-> i, len |-> p.len, samples |-> p.samples,
                    status |-> "pending"]
           n == Len(packets) + 1
<1>t. /\ tracks \in Seq(TrackState) /\ file \in Seq(FileEntry)
      /\ packets \in Seq(SentPacket) /\ started \in BOOLEAN /\ i \in Nat
  BY DEF Inv, TypeOK
<1>k. /\ k \in CallState /\ k.op = "write" /\ k.id = n /\ k.to = i
  <2>1. n \in Nat
    BY <1>t
  <2> HIDE DEF n
  <2>2. LET q == [Idle EXCEPT !.op = "write", !.id = n, !.to = i]
        IN q \in CallState /\ q.op = "write" /\ q.id = n /\ q.to = i
    BY <2>1, <1>t, IdleState DEF CallState, Idle
  <2> QED BY <2>2 DEF n
<1>s. /\ mu = NoCaller /\ open /\ packets' = Append(packets, sent)
      /\ Turn(c, j) \/ j = Idle
      /\ call' = [call EXCEPT ![c] = j] /\ mu' = c
      /\ open' = open /\ started' = started /\ tracks' = tracks /\ file' = file
      /\ failures' = failures /\ errors' = errors
      /\ single' = single /\ seekable' = seekable
  BY DEF WriteRTP, Turn
<1>p. sent \in SentPacket
  BY <1>t, PayloadsAssumption DEF SentPacket
<1>pk. /\ packets' \in Seq(SentPacket) /\ Len(packets) \in Nat /\ n \in Nat
       /\ Len(packets') = n /\ DOMAIN packets = 1..Len(packets)
       /\ n \in DOMAIN packets' /\ n \notin DOMAIN packets
       /\ \A id \in DOMAIN packets' : id \in DOMAIN packets \/ id = n
       /\ \A id \in DOMAIN packets : id \in DOMAIN packets' /\ packets'[id] = packets[id]
       /\ packets'[n] = sent
  BY <1>s, <1>t, <1>p
<1>sf. sent.status = "pending" /\ sent.track = i
  OBVIOUS
<1> HIDE DEF k, j, n, sent
<1>j. /\ j \in CallState /\ j.pages = << >> /\ j.written = 0 /\ j.op = "write"
      /\ j.id = n /\ j.to = i
      /\ \/ started /\ j.stage = "packet" /\ j.track = i
         \/ ~started /\ j.stage = "ids" /\ j.track = 1 /\ 1 \in DOMAIN tracks
  <2>1. Moved(j, k)
    BY <1>k, <1>t, StartLockedState DEF j
  <2>2. started => j.stage = "packet" /\ j.track = i /\ j.op = "write"
    BY <1>k, <1>t, StartLockedState, BodyState DEF j
  <2>3. tracks # << >>
    BY <1>t
  <2>4. ~started => /\ j.op = "write" /\ j.stage = "ids" /\ j.track = 1
                    /\ 1 \in DOMAIN tracks
    BY <1>k, <1>t, <2>3, StartLockedState DEF j
  <2> QED BY <2>1, <2>2, <2>4, <1>k, <1>t, IdleState DEF Moved
<1>ni. j # Idle
  BY <1>j, IdleState
<1>x. call' \in [Callers -> CallState] /\ mu' \in Callers \cup {NoCaller}
      /\ Exclusive' /\ Cur' = j
  <2>1. Turn(c, j) /\ mu \in {c, NoCaller} /\ open'
    BY <1>s, <1>ni
  <2> QED BY <2>1, <1>j, TakesTurn DEF Inv
<1>c. Cur = Idle
  BY <1>s DEF Cur
<1>i. /\ Idle.op = "none" /\ Idle.stage = "idle" /\ Idle.track = 0
      /\ Idle.id = 0 /\ Idle.pages = << >> /\ Idle.written = 0
  BY IdleState
<1>1. TypeOK'
  BY <1>s, <1>x, <1>pk DEF Inv, TypeOK
<1>2. Serials' /\ Made(Cur)' /\ Layout' /\ PacketsWhole' /\ Numbers' /\ Granules'
  <2>1. PacketsKept
    BY <1>pk DEF PacketsKept
  <2>2. NoneDone
    BY <1>pk, <1>sf DEF NoneDone
  <2>3. \A id \in DOMAIN packets' : packets'[id].track \in DOMAIN tracks
    BY <1>pk, <1>sf DEF Inv, Serials
  <2> QED BY <2>1, <2>2, <2>3, <1>s, <1>x, <1>c, <1>i, <1>j, Quietly
<1>3. Purpose(Cur)'
  BY <1>s, <1>x, <1>j, <1>pk, <1>sf DEF Purpose
<1>4. Written(Cur)'
  <2>1. \A m \in DOMAIN file : file[m].id <= Len(packets) /\ file[m] \in FileEntry
    BY <1>t DEF Inv, Written
  <2>2. \A m \in DOMAIN file : file[m].id \in Int
    BY <2>1, EntryTypes
  <2>3. \A m \in DOMAIN file : file[m].id # n /\ file[m].id <= n
    BY <2>1, <2>2, <1>pk DEF n
  <2>4. \A m \in DOMAIN file : ~(m > Len(file) - 0)
    BY <1>t
  <2>5. 0 <= Len(file) /\ 1..0 = {}
    BY <1>t
  <2> QED BY <2>3, <2>4, <2>5, <1>s, <1>x, <1>j, <1>pk DEF Written
<1>5. EndOfStream'
  <2>1. \A m : ~Through(m) /\ ~Through(m)'
    BY <1>c, <1>i, <1>x, <1>j, <1>s DEF Through
  <2>2. TracksKept
    BY <1>s DEF TracksKept
  <2> QED BY <2>1, <2>2, <1>s, EndKept DEF Inv
<1>6. Headers'
  <2>1. SUFFICES ASSUME errors' \cap {"header", "eos"} = {}
        PROVE  /\ HeadersFirst'
               /\ IF started THEN \A m \in DOMAIN tracks : Tagged(m)'
                  ELSE (\A m \in DOMAIN file : file[m].id <= 0) /\ Len(file) = 1 - 1
    BY <1>s, <1>x, <1>j DEF Headers
  <2>2. /\ HeadersFirst' /\ \A m \in DOMAIN tracks : Tagged(m)' <=> Tagged(m)
        /\ IF started THEN \A m \in DOMAIN tracks : Tagged(m)
           ELSE /\ \A m \in DOMAIN file : file[m].id <= 0
                /\ file = << >>
    BY <2>1, <1>s, <1>c, <1>i, HeadersKept
  <2> QED BY <2>2
<1> QED BY <1>1, <1>2, <1>3, <1>4, <1>5, <1>6, <1>x DEF Inv

LEMMA CloseInv ==
  ASSUME Inv, NEW c \in Callers, Close(c), UNCHANGED <<single, seekable>>
  PROVE  Inv'
<1> DEFINE k == [Idle EXCEPT !.op = "close"]
           j == StartLocked(k)
<1>t. /\ tracks \in Seq(TrackState) /\ file \in Seq(FileEntry)
      /\ packets \in Seq(SentPacket) /\ started \in BOOLEAN
  BY DEF Inv, TypeOK
<1>k. k \in CallState /\ k.op = "close" /\ k.id = 0
  BY IdleState DEF CallState, Idle
<1>s. /\ mu = NoCaller /\ open /\ packets' = packets
      /\ Turn(c, j) \/ j = Idle
      /\ open' = open /\ started' = started /\ tracks' = tracks /\ file' = file
      /\ failures' = failures /\ errors' = errors
      /\ single' = single /\ seekable' = seekable
  BY DEF Close, Turn
<1> HIDE DEF k, j
<1>j. /\ j \in CallState /\ j.pages = << >> /\ j.written = 0 /\ j.op = "close" /\ j.id = 0
      /\ \/ started /\ j.stage = "eos" /\ j.track = 1 /\ 1 \in DOMAIN tracks
         \/ started /\ j.stage = "close" /\ (tracks = << >> \/ (single /\ ~seekable))
         \/ ~started /\ j.stage = "ids" /\ j.track = 1 /\ 1 \in DOMAIN tracks
         \/ ~started /\ j.stage = "start" /\ tracks = << >>
  <2>1. Moved(j, k)
    BY <1>k, <1>t, StartLockedState DEF j
  <2>2. started => j = Ending(k)
    BY <1>k, <1>t, StartLockedState, BodyState DEF j
  <2>3. started => /\ j.op = "close" /\ j.stage \in {"eos", "close"}
                   /\ j.stage = "eos" => j.track = 1 /\ 1 \in DOMAIN tracks
                   /\ j.stage = "close" => tracks = << >> \/ (single /\ ~seekable)
    BY <2>2, <1>k, <1>t, EndingState
  <2>4. ~started => /\ j.op = "close"
                    /\ \/ j.stage = "start" /\ tracks = << >>
                       \/ j.stage = "ids" /\ j.track = 1 /\ 1 \in DOMAIN tracks
    BY <1>k, <1>t, StartLockedState DEF j
  <2> QED BY <2>1, <2>3, <2>4, <1>k, <1>t, IdleState DEF Moved
<1>ni. j # Idle
  BY <1>j, IdleState
<1>x. call' \in [Callers -> CallState] /\ mu' \in Callers \cup {NoCaller}
      /\ Exclusive' /\ Cur' = j
  <2>1. Turn(c, j) /\ mu \in {c, NoCaller} /\ open'
    BY <1>s, <1>ni
  <2> QED BY <2>1, <1>j, TakesTurn DEF Inv
<1>c. Cur = Idle
  BY <1>s DEF Cur
<1>i. /\ Idle.op = "none" /\ Idle.stage = "idle" /\ Idle.track = 0
      /\ Idle.id = 0 /\ Idle.pages = << >> /\ Idle.written = 0
  BY IdleState
<1>1. TypeOK'
  BY <1>s, <1>x DEF Inv, TypeOK
<1>2. Serials' /\ Made(Cur)' /\ Layout' /\ PacketsWhole' /\ Numbers' /\ Granules'
  <2>1. PacketsKept
    BY <1>s DEF PacketsKept
  <2>2. NoneDone
    BY <1>s DEF NoneDone
  <2>3. \A id \in DOMAIN packets' : packets'[id].track \in DOMAIN tracks
    BY <1>s DEF Inv, Serials
  <2> QED BY <2>1, <2>2, <2>3, <1>s, <1>x, <1>c, <1>i, <1>j, Quietly
<1>3. Purpose(Cur)'
  BY <1>s, <1>x, <1>j DEF Purpose
<1>4. Written(Cur)'
  <2>1. 0 <= Len(file) /\ 1..0 = {}
    BY <1>t
  <2>2. \A m \in DOMAIN file : file[m].id <= Len(packets)
    BY DEF Inv, Written
  <2> QED BY <2>1, <2>2, <1>s, <1>x, <1>j DEF Written
<1>5. EndOfStream'
  <2>1. \A m \in DOMAIN tracks :
          \/ Through(m)' /\ single /\ ~(started' /\ seekable)
          \/ ~Through(m)' /\ ~Through(m)
    <3>1. \A m : ~Through(m)
      BY <1>c, <1>i, <1>s DEF Through
    <3>2. \A m \in DOMAIN tracks : ~(m < 1) /\ tracks # << >>
      BY <1>t
    <3> QED BY <3>1, <3>2, <1>x, <1>j, <1>s DEF Through
  <2>2. TracksKept
    BY <1>s DEF TracksKept
  <2> QED BY <2>1, <2>2, <1>s, EndKept DEF Inv
<1>6. Headers'
  <2>1. SUFFICES ASSUME errors' \cap {"header", "eos"} = {}
        PROVE  /\ HeadersFirst'
               /\ IF started THEN \A m \in DOMAIN tracks : Tagged(m)'
                  ELSE (\A m \in DOMAIN file : file[m].id <= 0) /\ Len(file) = 1 - 1
                       /\ (j.stage = "start" => Len(file) >= Len(tracks))
                       /\ (j.stage = "start" => DOMAIN tracks = {})
    BY <1>s, <1>x, <1>j DEF Headers
  <2>2. /\ HeadersFirst' /\ \A m \in DOMAIN tracks : Tagged(m)' <=> Tagged(m)
        /\ IF started THEN \A m \in DOMAIN tracks : Tagged(m)
           ELSE /\ \A m \in DOMAIN file : file[m].id <= 0
                /\ file = << >>
    BY <2>1, <1>s, <1>c, <1>i, HeadersKept
  <2>3. ~started /\ j.stage = "start" => tracks = << >>
    BY <1>j
  <2>4. tracks = << >> => Len(tracks) = 0 /\ DOMAIN tracks = {}
    OBVIOUS
  <2> QED BY <2>2, <2>3, <2>4
<1> QED BY <1>1, <1>2, <1>3, <1>4, <1>5, <1>6, <1>x DEF Inv

LEMMA StatusSet ==
  ASSUME packets \in Seq(SentPacket), NEW id,
         id = 0 \/ (id \in DOMAIN packets /\ packets[id].status = "pending"),
         NEW st \in {"ok", "failed", "refused"}, SetStatus(id, st)
  PROVE  /\ packets' \in Seq(SentPacket) /\ Len(packets') = Len(packets)
         /\ DOMAIN packets' = DOMAIN packets /\ PacketsKept
         /\ \A d \in DOMAIN packets : d # id => packets'[d] = packets[d]
         /\ id # 0 => packets'[id].status = st
         /\ st # "ok" => NoneDone
<1>1. CASE id = 0
  <2>1. packets' = packets
    BY <1>1 DEF SetStatus
  <2>2. 0 \notin DOMAIN packets
    OBVIOUS
  <2> QED BY <2>1, <2>2, <1>1 DEF PacketsKept, NoneDone
<1>2. CASE id # 0
  <2> DEFINE q == [packets[id] EXCEPT !.status = st]
  <2>1. packets' = [packets EXCEPT ![id] = q] /\ id \in DOMAIN packets
    BY <1>2 DEF SetStatus
  <2>2. packets[id] \in SentPacket
    BY <2>1
  <2>3. /\ q \in SentPacket /\ q.status = st /\ q.track = packets[id].track
        /\ q.len = packets[id].len /\ q.samples = packets[id].samples
    BY <2>2 DEF SentPacket
  <2> HIDE DEF q
  <2>4. /\ packets' \in Seq(SentPacket) /\ Len(packets') = Len(packets)
        /\ DOMAIN packets' = DOMAIN packets
        /\ \A d \in DOMAIN packets : d # id => packets'[d] = packets[d]
        /\ packets'[id] = q
    BY <2>1, <2>3
  <2>5. PacketsKept
    BY <2>1, <2>3, <2>4, <1>2 DEF PacketsKept
  <2>6. st # "ok" => NoneDone
    BY <2>3, <2>4 DEF NoneDone
  <2> QED BY <2>3, <2>4, <2>5, <2>6
<1> QED BY <1>1, <1>2

(* The call is over and wrote nothing.                                     *)
LEMMA BadPayloadInv ==
  ASSUME Inv, NEW c \in Callers, BadPayload(c), UNCHANGED <<single, seekable>>
  PROVE  Inv'
<1> DEFINE k == call[c]
<1>t. /\ tracks \in Seq(TrackState) /\ file \in Seq(FileEntry)
      /\ packets \in Seq(SentPacket)
  BY DEF Inv, TypeOK
<1>s. /\ k.stage = "packet" /\ k.pages = << >> /\ Abandon(c)
      /\ open' = open /\ started' = started /\ tracks' = tracks /\ file' = file
      /\ failures' = failures /\ errors' = errors
      /\ single' = single /\ seekable' = seekable
  BY DEF BadPayload
<1>i. /\ Idle.op = "none" /\ Idle.stage = "idle" /\ Idle.track = 0 /\ Idle.id = 0
      /\ Idle.pages = << >> /\ Idle.written = 0 /\ Idle \in CallState
  BY IdleState
<1>k. mu = c /\ Cur = k /\ open /\ k \in CallState
  BY <1>s, <1>i, Holding DEF Inv
<1> HIDE DEF k
<1>o. /\ k.op = "write" /\ k.id \in DOMAIN packets /\ packets[k.id].status = "pending"
      /\ started /\ k.written = 0
  BY <1>s, <1>k DEF Inv, Purpose, Made
<1>r. SetStatus(k.id, "failed") /\ Resume(c, Idle)
  BY <1>s, <1>o DEF Abandon, k
<1>x. call' \in [Callers -> CallState] /\ mu' \in Callers \cup {NoCaller}
      /\ Exclusive' /\ Cur' = Idle
  <2>1. Turn(c, Idle) /\ mu \in {c, NoCaller}
    BY <1>r, <1>k, ResumeTurn
  <2> QED BY <2>1, <1>i, TakesTurn DEF Inv
<1>p. /\ packets' \in Seq(SentPacket) /\ Len(packets') = Len(packets)
      /\ DOMAIN packets' = DOMAIN packets /\ PacketsKept /\ NoneDone
  BY <1>t, <1>o, <1>r, StatusSet
<1>1. TypeOK'
  BY <1>s, <1>x, <1>p DEF Inv, TypeOK
<1>2. Serials' /\ Made(Cur)' /\ Layout' /\ PacketsWhole' /\ Numbers' /\ Granules'
  <2>3. \A id \in DOMAIN packets' : packets'[id].track \in DOMAIN tracks
    BY <1>p DEF Inv, Serials, PacketsKept
  <2> QED BY <2>3, <1>s, <1>x, <1>k, <1>o, <1>i, <1>p, Quietly
<1>3. Purpose(Cur)'
  BY <1>x, <1>i DEF Purpose
<1>4. Written(Cur)'
  <2>1. 0 <= Len(file) /\ 1..0 = {}
    BY <1>t
  <2>2. \A m \in DOMAIN file : file[m].id <= Len(packets)
    BY DEF Inv, Written
  <2> QED BY <2>1, <2>2, <1>s, <1>x, <1>i, <1>p DEF Written
<1>5. EndOfStream'
  <2>1. \A m : ~Through(m) /\ ~Through(m)'
    BY <1>k, <1>s, <1>i, <1>x DEF Through
  <2>2. TracksKept
    BY <1>s DEF TracksKept
  <2> QED BY <2>1, <2>2, <1>s, EndKept DEF Inv
<1>6. Headers'
  <2>1. SUFFICES ASSUME errors' \cap {"header", "eos"} = {}
        PROVE  HeadersFirst' /\ \A m \in DOMAIN tracks : Tagged(m)'
    BY <1>s, <1>o DEF Headers
  <2> QED BY <2>1, <1>s, <1>o, HeadersKept
<1> QED BY <1>1, <1>2, <1>3, <1>4, <1>5, <1>6, <1>x DEF Inv

LEMMA StartedInv ==
  ASSUME Inv, NEW c \in Callers, Started(c), UNCHANGED <<single, seekable>>
  PROVE  Inv'
<1> DEFINE k == call[c]
           j == Body(k)
<1>t. /\ tracks \in Seq(TrackState) /\ file \in Seq(FileEntry)
      /\ packets \in Seq(SentPacket)
  BY DEF Inv, TypeOK
<1>s. /\ k.stage = "start" /\ Resume(c, j) /\ packets' = packets
      /\ open' = open /\ started' = TRUE /\ tracks' = tracks /\ file' = file
      /\ failures' = failures /\ errors' = errors
      /\ single' = single /\ seekable' = seekable
  BY DEF Started
<1>i. /\ Idle.op = "none" /\ Idle.stage = "idle" /\ Idle.track = 0 /\ Idle.id = 0
      /\ Idle.pages = << >> /\ Idle.written = 0 /\ Idle \in CallState
  BY IdleState
<1>k. mu = c /\ Cur = k /\ open /\ k \in CallState /\ k # Idle
  BY <1>s, <1>i, Holding DEF Inv
<1>kt. k.op \in {"none", "new", "write", "close"}
  BY <1>k, CallTypes
<1> HIDE DEF k, j
<1>o. k.pages = << >> /\ k.written = 0 /\ ~started
  BY <1>s, <1>k DEF Inv, Purpose, Made, Writing
<1>u. Purpose(k)
  BY <1>k DEF Inv
<1>j. /\ j \in CallState /\ j.pages = << >> /\ j.written = 0
      /\ \/ /\ j.op = "write" /\ j.stage = "packet" /\ j.track = k.to /\ j.to = k.to
            /\ j.id = k.id /\ k.op = "write"
         \/ j.op = "close" /\ j.stage = "eos" /\ j.track = 1 /\ 1 \in DOMAIN tracks /\ j.id = 0
         \/ /\ j.op = "close" /\ j.stage = "close" /\ j.id = 0
            /\ tracks = << >> \/ (single /\ ~seekable)
         \/ j = Idle
  <2>1. Moved(j, k)
    BY <1>k, <1>t, BodyState DEF j
  <2>2. CASE k.op = "write"
    <3>1. j.op = "write" /\ j.stage = "packet" /\ j.track = k.to
      BY <2>2, <1>k, <1>t, BodyState DEF j
    <3> QED BY <2>1, <2>2, <3>1, <1>i DEF Moved
  <2>3. CASE k.op = "close"
    <3>1. j = Ending(k)
      BY <2>3, <1>k, <1>t, BodyState DEF j
    <3>2. /\ j.op = "close" /\ j.stage \in {"eos", "close"}
          /\ j.stage = "eos" => j.track = 1 /\ 1 \in DOMAIN tracks
          /\ j.stage = "close" => tracks = << >> \/ (single /\ ~seekable)
      BY <2>3, <3>1, <1>k, <1>t, EndingState
    <3>3. k.id = 0
      BY <2>3, <1>u DEF Purpose
    <3> QED BY <2>1, <2>3, <3>2, <3>3, <1>i DEF Moved
  <2>4. CASE k.op \notin {"write", "close"}
    BY <2>1, <2>4, <1>k, <1>t, BodyState DEF j, Moved
  <2> QED BY <2>2, <2>3, <2>4
<1>x. call' \in [Callers -> CallState] /\ mu' \in Callers \cup {NoCaller}
      /\ Exclusive' /\ Cur' = j
  <2>1. Turn(c, j) /\ mu \in {c, NoCaller} /\ open'
    BY <1>s, <1>k, ResumeTurn
  <2> QED BY <2>1, <1>j, TakesTurn DEF Inv
<1>1. TypeOK'
  BY <1>s, <1>x DEF Inv, TypeOK
<1>2. Serials' /\ Made(Cur)' /\ Layout' /\ PacketsWhole' /\ Numbers' /\ Granules'
  <2>1. PacketsKept
    BY <1>s DEF PacketsKept
  <2>2. NoneDone
    BY <1>s DEF NoneDone
  <2>3. \A id \in DOMAIN packets' : packets'[id].track \in DOMAIN tracks
    BY <1>s DEF Inv, Serials
  <2> QED BY <2>1, <2>2, <2>3, <1>s, <1>x, <1>k, <1>o, <1>j, Quietly
<1>3. Purpose(Cur)'
  BY <1>s, <1>x, <1>j, <1>u, <1>i DEF Purpose
<1>4. Written(Cur)'
  <2>1. 0 <= Len(file) /\ 1..0 = {}
    BY <1>t
  <2>2. Written(k)
    BY <1>k DEF Inv
  <2>3. \A m \in DOMAIN file : ~(m > Len(file) - 0)
    BY <1>t
  <2>4. /\ \A m \in DOMAIN file : file[m].id <= Len(packets)
        /\ k.op = "write" => \A m \in DOMAIN file : file[m].id # k.id
    BY <2>2, <1>s DEF Written
  <2> QED BY <2>1, <2>3, <2>4, <1>s, <1>x, <1>j, <1>i DEF Written
<1>5. EndOfStream'
  <2>1. \A m \in DOMAIN tracks :
          \/ Through(m)' /\ single /\ ~(started' /\ seekable)
          \/ ~Through(m)' /\ ~Through(m)
    <3>1. \A m : ~Through(m)
      BY <1>k, <1>s DEF Through
    <3>2. \A m \in DOMAIN tracks : ~(m < 1) /\ tracks # << >>
      BY <1>t
    <3> QED BY <3>1, <3>2, <1>x, <1>j, <1>i, <1>s, <1>k DEF Through
  <2>2. TracksKept
    BY <1>s DEF TracksKept
  <2> QED BY <2>1, <2>2, <1>s, EndKept DEF Inv
<1>6. Headers'
  <2>1. SUFFICES ASSUME errors' \cap {"header", "eos"} = {}
        PROVE  HeadersFirst' /\ \A m \in DOMAIN tracks : Tagged(m)'
    BY <1>s DEF Headers
  <2> QED BY <2>1, <1>s, <1>o, <1>k, HeadersKept
<1> QED BY <1>1, <1>2, <1>3, <1>4, <1>5, <1>6, <1>x DEF Inv

LEMMA ClosedInv ==
  ASSUME Inv, NEW c \in Callers, Closed(c), UNCHANGED <<single, seekable>>
  PROVE  Inv'
<1> DEFINE k == call[c]
<1>t. /\ tracks \in Seq(TrackState) /\ file \in Seq(FileEntry)
      /\ packets \in Seq(SentPacket)
  BY DEF Inv, TypeOK
<1>s. /\ k.stage = "close" /\ Resume(c, Idle) /\ packets' = packets
      /\ open' = FALSE /\ started' = started /\ tracks' = tracks /\ file' = file
      /\ failures' = failures /\ errors' = errors
      /\ single' = single /\ seekable' = seekable
  BY DEF Closed
<1>i. /\ Idle.op = "none" /\ Idle.stage = "idle" /\ Idle.track = 0 /\ Idle.id = 0
      /\ Idle.pages = << >> /\ Idle.written = 0 /\ Idle \in CallState
  BY IdleState
<1>k. mu = c /\ Cur = k /\ open /\ k \in CallState /\ k # Idle
  BY <1>s, <1>i, Holding DEF Inv
<1> HIDE DEF k
<1>o. k.pages = << >> /\ k.written = 0 /\ k.op = "close"
  BY <1>s, <1>k DEF Inv, Purpose, Made, Writing
<1>x. call' \in [Callers -> CallState] /\ mu' \in Callers \cup {NoCaller}
      /\ Exclusive' /\ Cur' = Idle
  <2>1. Turn(c, Idle) /\ mu \in {c, NoCaller}
    BY <1>s, <1>k, ResumeTurn
  <2> QED BY <2>1, <1>i, TakesTurn DEF Inv
<1>1. TypeOK'
  BY <1>s, <1>x DEF Inv, TypeOK
<1>2. Serials' /\ Made(Cur)' /\ Layout' /\ PacketsWhole' /\ Numbers' /\ Granules'
  <2>1. PacketsKept
    BY <1>s DEF PacketsKept
  <2>2. NoneDone
    BY <1>s DEF NoneDone
  <2>3. \A id \in DOMAIN packets' : packets'[id].track \in DOMAIN tracks
    BY <1>s DEF Inv, Serials
  <2> QED BY <2>1, <2>2, <2>3, <1>s, <1>x, <1>k, <1>o, <1>i, Quietly
<1>3. Purpose(Cur)'
  BY <1>x, <1>i DEF Purpose
<1>4. Written(Cur)'
  <2>1. 0 <= Len(file) /\ 1..0 = {}
    BY <1>t
  <2>2. \A m \in DOMAIN file : file[m].id <= Len(packets)
    BY DEF Inv, Written
  <2> QED BY <2>1, <2>2, <1>s, <1>x, <1>i DEF Written
<1>5. EndOfStream'
  <2>1. \A m : Through(m) /\ Through(m)'
    BY <1>k, <1>s DEF Through
  <2>2. TracksKept
    BY <1>s DEF TracksKept
  <2> QED BY <2>1, <2>2, <1>s, EndKept DEF Inv
<1>6. Headers'
  <2>1. SUFFICES ASSUME errors' \cap {"header", "eos"} = {}
        PROVE  started /\ HeadersFirst' /\ \A m \in DOMAIN tracks : Tagged(m)'
    BY <1>s DEF Headers
  <2> QED BY <2>1, <1>s, <1>k, HeadersKept
<1> QED BY <1>1, <1>2, <1>3, <1>4, <1>5, <1>6, <1>x DEF Inv

(* The packet a call is about to cut into pages, or has cut.               *)
LEMMA PacketFacts ==
  ASSUME Inv, NEW k, k = Cur, Writing(k)
  PROVE  /\ k \in CallState /\ k.track \in DOMAIN tracks
         /\ tracks[k.track] \in TrackState
         /\ tracks[k.track].serial \in Nat /\ tracks[k.track].pageIndex \in Nat
         /\ tracks[k.track].previousGranulePosition \in Nat
         /\ PacketLength(k) \in Nat /\ PacketFlags(k) \in SUBSET {"bos"}
         /\ Granule(k) \in Nat
         /\ "bos" \in PacketFlags(k) <=> k.stage = "ids"
         /\ k.stage = "ids" => PageCount(PacketLength(k)) = 1
         /\ k.stage = "packet" =>
              /\ k.op = "write" /\ started /\ k.id \in DOMAIN packets
              /\ packets[k.id].status = "pending" /\ packets[k.id].track = k.track
              /\ packets[k.id].samples \in Nat
              /\ PacketLength(k) = packets[k.id].len
         /\ k.stage # "packet" => ~started
         /\ PacketId(k) \in Nat /\ PacketId(k) <= Len(packets)
         /\ PacketId(k) = 0 \/ PacketId(k) = k.id
         /\ PacketId(k) = 0 <=> k.stage # "packet"
<1>t. /\ tracks \in Seq(TrackState) /\ packets \in Seq(SentPacket)
  BY DEF Inv, TypeOK
<1>i. Idle \in CallState
  BY IdleState
<1>k. k \in CallState
  BY <1>i DEF Cur, Inv, TypeOK
<1>s. k.stage \in {"ids", "tags", "packet"}
  BY DEF Writing
<1>u. Purpose(k)
  BY DEF Inv
<1>1. k.track \in DOMAIN tracks
  BY <1>s, <1>u DEF Purpose
<1>2. tracks[k.track] \in TrackState
  BY <1>1, <1>t
<1>3. /\ tracks[k.track].serial \in Nat /\ tracks[k.track].pageIndex \in Nat
      /\ tracks[k.track].previousGranulePosition \in Nat
  BY <1>2 DEF TrackState
<1>4. k.stage = "packet" =>
        /\ k.op = "write" /\ started /\ k.id \in DOMAIN packets
        /\ packets[k.id].status = "pending" /\ packets[k.id].track = k.track
  BY <1>u DEF Purpose
<1>5. k.stage = "packet" => packets[k.id].samples \in Nat /\ packets[k.id].len \in Nat
  <2>1. k.stage = "packet" => packets[k.id] \in SentPacket
    BY <1>4, <1>t
  <2> QED BY <2>1 DEF SentPacket
<1>6. PacketLength(k) \in Nat /\ (k.stage = "packet" => PacketLength(k) = packets[k.id].len)
  BY <1>s, <1>5, PayloadsAssumption DEF PacketLength, idHeaderLength
<1>7. Granule(k) \in Nat
  BY <1>3, <1>5 DEF Granule
<1>8. PacketFlags(k) \in SUBSET {"bos"} /\ ("bos" \in PacketFlags(k) <=> k.stage = "ids")
  BY DEF PacketFlags
<1>9. k.stage = "ids" => PageCount(PacketLength(k)) = 1
  <2>1. 19 \div 65025 = 0
    OBVIOUS
  <2> QED BY <2>1, Capacity DEF PacketLength, idHeaderLength, PageCount
<1>10. /\ PacketId(k) \in Nat /\ PacketId(k) <= Len(packets)
       /\ PacketId(k) = 0 \/ PacketId(k) = k.id
       /\ PacketId(k) = 0 <=> k.stage # "packet"
  <2>1. CASE k.stage = "packet"
    BY <2>1, <1>4, <1>t DEF PacketId
  <2>2. CASE k.stage # "packet"
    BY <2>2, <1>t DEF PacketId
  <2> QED BY <2>1, <2>2
<1>11. k.stage # "packet" => ~started
  BY <1>s, <1>u DEF Purpose
<1> QED BY <1>k, <1>1, <1>2, <1>3, <1>4, <1>5, <1>6, <1>7, <1>8, <1>9, <1>10, <1>11

(* The headers stay as they are, whatever else changes of the tracks.      *)
LEMMA HeadersStay ==
  ASSUME Inv, file' = file, TracksKept, Len(tracks') = Len(tracks),
         errors' = errors, started' = started,
         Cur'.stage = Cur.stage, Cur'.track = Cur.track
  PROVE  Headers'
<1>t. /\ tracks \in Seq(TrackState) /\ file \in Seq(FileEntry)
      /\ DOMAIN tracks = 1..Len(tracks) /\ Len(tracks) \in Nat
      /\ \A k \in DOMAIN file : k \in Nat /\ k >= 1
  BY DEF Inv, TypeOK
<1>0. DOMAIN tracks' = DOMAIN tracks
      /\ \A i \in DOMAIN tracks : tracks'[i].serial = tracks[i].serial
  BY DEF TracksKept
<1>1. SUFFICES ASSUME errors \cap {"header", "eos"} = {}
      PROVE  HeadersFirst' /\ \A i \in DOMAIN tracks : Tagged(i)' <=> Tagged(i)
  <2>1. Cur.stage = "tags" => \A i \in 1..(Cur.track - 1) : i \in DOMAIN tracks
    <3>1. Cur.stage = "tags" => Cur.track \in DOMAIN tracks
      BY DEF Inv, Purpose
    <3> QED BY <3>1, <1>t
  <2>2. Headers
    BY DEF Inv
  <2> QED BY <2>1, <2>2, <1>0 DEF Headers
<1>2. HeadersFirst
  BY <1>1 DEF Inv, Headers
<1>3. HeadersFirst'
  <2>1. \A k \in DOMAIN file :
         /\ "bos" \in file[k].page.flags <=> k <= Len(tracks)
         /\ k <= Len(tracks) => file[k].page.serial = tracks'[k].serial
    BY <1>0, <1>1, <1>2, <1>t DEF HeadersFirst
  <2>2. \A k \in DOMAIN file, i \in DOMAIN tracks :
         file[k].id > 0 =>
           \E j \in Complete(file, tracks'[i].serial) :
             Len(tracks) < j /\ j < k /\ file[j].id = 0
    BY <1>0, <1>1, <1>2 DEF HeadersFirst
  <2> QED BY <2>1, <2>2, <1>0 DEF HeadersFirst
<1>4. \A i \in DOMAIN tracks : Tagged(i)' <=> Tagged(i)
  BY <1>0 DEF Tagged
<1> QED BY <1>3, <1>4

LEMMA BeginPacketInv ==
  ASSUME Inv, NEW c \in Callers, BeginPacket(c), UNCHANGED <<single, seekable>>
  PROVE  Inv'
<1> DEFINE k == call[c]
           t == tracks[k.track]
           ps == CreatePages(t.serial, t.pageIndex, PacketLength(k), PacketFlags(k),
                             Granule(k))
           j == [k EXCEPT !.pages = ps]
<1>t. /\ tracks \in Seq(TrackState) /\ file \in Seq(FileEntry)
      /\ packets \in Seq(SentPacket) /\ call \in [Callers -> CallState]
  BY DEF Inv, TypeOK
<1>s. /\ Writing(k) /\ k.pages = << >>
      /\ tracks' = IF k.stage # "packet" THEN tracks
                   ELSE [tracks EXCEPT ![k.track] =
                           [t EXCEPT !.previousGranulePosition = Granule(k)]]
      /\ call' = [call EXCEPT ![c] = j] /\ mu' = mu
      /\ open' = open /\ started' = started /\ packets' = packets /\ file' = file
      /\ failures' = failures /\ errors' = errors
      /\ single' = single /\ seekable' = seekable
  BY <1>t DEF BeginPacket
<1>k. mu = c /\ Cur = k /\ open /\ k \in CallState /\ k # Idle
  <2>1. k # Idle
    BY <1>s, IdleState DEF Writing
  <2> QED BY <2>1, Holding DEF Inv
<1>f. /\ k.track \in DOMAIN tracks /\ t \in TrackState /\ t.serial \in Nat
      /\ t.pageIndex \in Nat /\ t.previousGranulePosition \in Nat
      /\ PacketLength(k) \in Nat /\ PacketFlags(k) \in SUBSET {"bos"} /\ Granule(k) \in Nat
      /\ k.stage = "packet" => started /\ packets[k.id].samples \in Nat
  BY <1>s, <1>k, PacketFacts
<1>psd. ps = CreatePages(t.serial, t.pageIndex, PacketLength(k), PacketFlags(k),
                         Granule(k))
  OBVIOUS
<1> HIDE DEF ps
<1>p. ps \in Seq(Page) /\ Len(ps) = PageCount(PacketLength(k))
      /\ PageCount(PacketLength(k)) \in Nat /\ PageCount(PacketLength(k)) > 0
  <2> DEFINE len == PacketLength(k)
             fl == PacketFlags(k)
             g == Granule(k)
             sr == t.serial
             ix == t.pageIndex
  <2>1. len \in Nat /\ Cut(ps, sr, ix, len, fl, g)
    BY <1>f, <1>psd DEF Cut
  <2> HIDE DEF len, fl, g, sr, ix
  <2>2. ps \in Seq(Page) /\ Len(ps) = PageCount(len)
    BY <2>1, PagesMade
  <2>3. PageCount(len) \in Nat /\ PageCount(len) > 0
    BY <2>1, PageSizes
  <2> QED BY <2>2, <2>3 DEF len
<1>pd. ps # << >> /\ Len(ps) > 0
  BY <1>p
<1>j. /\ j \in CallState /\ j.pages = ps /\ j.written = k.written /\ j.stage = k.stage
      /\ j.track = k.track /\ j.op = k.op /\ j.id = k.id /\ j.to = k.to
  BY <1>k, <1>p DEF CallState
<1> HIDE DEF k, j
<1>ni. j # Idle
  BY <1>j, <1>pd, IdleState
<1>x. call' \in [Callers -> CallState] /\ mu' \in Callers \cup {NoCaller}
      /\ Exclusive' /\ Cur' = j
  <2>1. Turn(c, j) /\ mu \in {c, NoCaller} /\ open'
    BY <1>s, <1>k, <1>ni DEF Turn
  <2> QED BY <2>1, <1>j, TakesTurn DEF Inv
<1>tr. /\ tracks' \in Seq(TrackState) /\ Len(tracks') = Len(tracks) /\ TracksKept
       /\ \A i \in DOMAIN tracks :
            /\ tracks'[i].pageIndex = tracks[i].pageIndex
            /\ tracks'[i].lastPageWritten = tracks[i].lastPageWritten
            /\ tracks'[i].last = tracks[i].last
            /\ tracks'[i].previousGranulePosition =
                 IF k.stage = "packet" /\ i = k.track THEN Granule(k)
                 ELSE tracks[i].previousGranulePosition
  <2>1. CASE k.stage # "packet"
    BY <2>1, <1>s, <1>t DEF TracksKept
  <2>2. CASE k.stage = "packet"
    <3> DEFINE u == [t EXCEPT !.previousGranulePosition = Granule(k)]
    <3>1. /\ u \in TrackState /\ u.serial = t.serial /\ u.pageIndex = t.pageIndex
          /\ u.lastPageWritten = t.lastPageWritten /\ u.last = t.last
          /\ u.previousGranulePosition = Granule(k)
      BY <1>f DEF TrackState
    <3>2. tracks' = [tracks EXCEPT ![k.track] = u]
      BY <2>2, <1>s
    <3> HIDE DEF u
    <3>3. /\ tracks' \in Seq(TrackState) /\ Len(tracks') = Len(tracks)
          /\ DOMAIN tracks' = DOMAIN tracks
          /\ \A i \in DOMAIN tracks : i # k.track => tracks'[i] = tracks[i]
          /\ tracks'[k.track] = u
      BY <3>1, <3>2, <1>t, <1>f
    <3> QED BY <2>2, <3>1, <3>3 DEF TracksKept
  <2> QED BY <2>1, <2>2
<1>w. k.written = 0
  BY <1>s, <1>k DEF Inv, Made
<1>1. TypeOK'
  BY <1>s, <1>x, <1>tr DEF Inv, TypeOK
<1>2. Serials' /\ Layout'
  BY <1>s, <1>tr DEF Inv, Serials, Layout, TracksKept
<1>3. Purpose(Cur)'
  <2>1. Purpose(k)
    BY <1>k DEF Inv
  <2>2. k.op # "none"
    BY <2>1, <1>k DEF Purpose
  <2> QED BY <2>1, <2>2, <1>s, <1>x, <1>j, <1>tr DEF Purpose, TracksKept
<1>4. Made(Cur)'
  <2>1. /\ tracks'[k.track].serial = t.serial /\ tracks'[k.track].pageIndex = t.pageIndex
        /\ (IF k.stage = "packet" THEN tracks'[k.track].previousGranulePosition ELSE 0)
             = Granule(k)
    BY <1>tr, <1>f DEF TracksKept, Granule
  <2>2. PacketLength(Cur)' = PacketLength(k) /\ PacketFlags(Cur') = PacketFlags(k)
    BY <1>s, <1>x, <1>j DEF PacketLength, PacketFlags
  <2>3. Writing(Cur')
    BY <1>s, <1>x, <1>j DEF Writing
  <2>4. Cur'.pages = CreatePages(tracks'[Cur'.track].serial, tracks'[Cur'.track].pageIndex,
            PacketLength(Cur)', PacketFlags(Cur'),
            IF Cur'.stage = "packet" THEN tracks'[Cur'.track].previousGranulePosition
            ELSE 0)
    BY <2>1, <2>2, <1>psd, <1>x, <1>j
  <2>5. Cur'.written < Len(Cur'.pages)
    BY <1>w, <1>x, <1>j, <1>pd
  <2> QED BY <2>3, <2>4, <2>5, <1>x, <1>j, <1>pd DEF Made
<1>5. Written(Cur)'
  <2>1. Written(k)
    BY <1>k DEF Inv
  <2>2. 1..0 = {}
    OBVIOUS
  <2> QED BY <2>1, <2>2, <1>s, <1>x, <1>j, <1>w DEF Written
<1>pk. PacketsKept /\ NoneDone /\ GivenUp' = GivenUp
  BY <1>s DEF PacketsKept, NoneDone, GivenUp
<1>6. PacketsWhole'
  BY <1>s, <1>tr, <1>pk, WholeKept DEF Inv
<1>7. Numbers'
  BY <1>s, <1>tr, <1>pk, <1>x, <1>j, <1>w, <1>k, NumbersKept DEF Inv
<1>8. Granules'
  <2>1. ASSUME NEW i \in DOMAIN tracks
        PROVE  /\ tracks[i].previousGranulePosition - Underway(i) \in Int
               /\ tracks'[i].previousGranulePosition - Underway(i)' \in Int
               /\ tracks[i].previousGranulePosition - Underway(i)
                    <= tracks'[i].previousGranulePosition - Underway(i)'
               /\ ~started' => tracks'[i].previousGranulePosition = 0
    <3>1. Underway(i) = 0
      BY <1>s, <1>k DEF Underway
    <3>2. tracks[i].previousGranulePosition \in Nat
      <4>1. tracks[i] \in TrackState
        BY <1>t
      <4> QED BY <4>1 DEF TrackState
    <3>3. ~started => tracks[i].previousGranulePosition = 0
      BY DEF Inv, Granules
    <3>4. CASE k.stage = "packet" /\ i = k.track
      <4>1. Underway(i)' = packets[k.id].samples
        BY <3>4, <1>x, <1>j, <1>pd, <1>s DEF Underway
      <4>2. tracks'[i].previousGranulePosition =
              tracks[i].previousGranulePosition + packets[k.id].samples
        BY <3>4, <1>tr DEF Granule
      <4> QED BY <3>1, <3>2, <3>4, <4>1, <4>2, <1>f, <1>s
    <3>5. CASE ~(k.stage = "packet" /\ i = k.track)
      <4>1. Underway(i)' = 0
        BY <3>5, <1>x, <1>j DEF Underway
      <4>2. tracks'[i].previousGranulePosition = tracks[i].previousGranulePosition
        BY <3>5, <1>tr
      <4> QED BY <3>1, <3>2, <3>3, <4>1, <4>2, <1>s
    <3> QED BY <3>4, <3>5
  <2>2. /\ Granules
        /\ \A m \in DOMAIN file : file[m].id <= Len(packets)
    BY DEF Inv, Written
  <2> QED BY <2>1, <2>2, <1>s, <1>t, <1>tr, <1>pk, GranulesKept
<1>9. EndOfStream'
  <2>1. \A i : Through(i)' <=> Through(i)
    BY <1>s, <1>x, <1>j, <1>k DEF Through
  <2>2. \A i \in DOMAIN tracks :
           /\ tracks'[i].lastPageWritten = tracks[i].lastPageWritten
           /\ tracks'[i].last = tracks[i].last
           /\ \/ Through(i)' /\ Through(i) /\ started' = started
              \/ ~Through(i)' /\ ~Through(i)
    BY <2>1, <1>tr, <1>s
  <2> QED BY <2>2, <1>s, <1>tr, EndKept DEF Inv
<1>10. Headers'
  BY <1>s, <1>tr, <1>x, <1>j, <1>k, HeadersStay DEF Inv
<1> QED BY <1>1, <1>2, <1>3, <1>4, <1>5, <1>6, <1>7, <1>8, <1>9, <1>10, <1>x DEF Inv

LEMMA FileSizeType ==
  ASSUME file \in Seq(FileEntry)
  PROVE  /\ FileSize \in Nat
         /\ file # << >> => FileSize = file[Len(file)].at + file[Len(file)].page.size
<1>1. CASE file = << >>
  BY <1>1 DEF FileSize
<1>2. CASE file # << >>
  <2>1. file[Len(file)] \in FileEntry
    BY <1>2
  <2>2. file[Len(file)].at \in Nat /\ file[Len(file)].page.size \in Nat
    BY <2>1, EntryTypes
  <2> QED BY <1>2, <2>2 DEF FileSize
<1> QED BY <1>1, <1>2

(* What is written goes behind what there is.                              *)
LEMMA AppendLayout ==
  ASSUME Layout, NEW e, Behind(file', file, e), e.at = FileSize, e.page.size > 0
  PROVE  Layout'
<1> DEFINE L == Len(file)
<1>1. /\ file \in Seq(FileEntry) /\ L \in Nat
      /\ DOMAIN file = 1..L /\ DOMAIN file' = 1..(L + 1)
      /\ \A k \in DOMAIN file : file'[k] = file[k]
      /\ file'[L + 1] = e
  BY Appending
<1>t. \A k \in DOMAIN file : file[k].at \in Nat /\ file[k].page.size \in Nat
  <2>1. \A k \in DOMAIN file : file[k] \in FileEntry
    BY <1>1
  <2> QED BY <2>1, EntryTypes
<1>d. \A k \in DOMAIN file' : k \in DOMAIN file \/ k = L + 1
  BY <1>1
<1>2. \A j \in DOMAIN file' : file'[j].page.size > 0
  BY <1>1, <1>d DEF Layout
<1>3. ASSUME NEW j \in DOMAIN file PROVE file[j].at + file[j].page.size <= e.at
  <2>1. L \in DOMAIN file /\ file # << >> /\ (j < L \/ j = L)
    BY <1>1
  <2>2. e.at = file[L].at + file[L].page.size
    BY <2>1, <1>1, FileSizeType
  <2>3. CASE j = L
    BY <2>1, <2>2, <2>3, <1>t
  <2>4. CASE j < L
    <3>1. file[j].at + file[j].page.size <= file[L].at
      BY <2>1, <2>4 DEF Layout
    <3>2. /\ file[j].at \in Nat /\ file[j].page.size \in Nat
          /\ file[L].at \in Nat /\ file[L].page.size \in Nat
      BY <2>1, <1>t
    <3> QED BY <3>1, <3>2, <2>2
  <2> QED BY <2>1, <2>3, <2>4
<1> HIDE DEF L
<1>4. ASSUME NEW j \in DOMAIN file', NEW k \in DOMAIN file', j < k
      PROVE  file'[j].at + file'[j].page.size <= file'[k].at
  <2>1. j \in DOMAIN file
    BY <1>1, <1>4
  <2>2. CASE k \in DOMAIN file
    BY <2>1, <2>2, <1>1, <1>4 DEF Layout
  <2>3. CASE k = L + 1
    BY <2>1, <2>3, <1>1, <1>3
  <2> QED BY <2>2, <2>3, <1>d
<1> QED BY <1>2, <1>4 DEF Layout

LEMMA NextPageFacts ==
  ASSUME Inv, NEW k, k = Cur, k.pages # << >>
  PROVE  /\ Writing(k) /\ k \in CallState /\ k.written \in Nat
         /\ k.pages \in Seq(Page) /\ Len(k.pages) \in Nat
         /\ Len(k.pages) = PageCount(PacketLength(k)) /\ k.written < Len(k.pages)
         /\ NextPage(k) \in FileEntry /\ NextPage(k).page = k.pages[k.written + 1]
         /\ NextPage(k).at = FileSize /\ NextPage(k).id = PacketId(k)
         /\ k.written + 1 \in 1..Len(k.pages)
         /\ \A m \in 1..Len(k.pages) :
              /\ k.pages[m].serial = tracks[k.track].serial
              /\ k.pages[m].index = tracks[k.track].pageIndex + m - 1
              /\ "eos" \notin k.pages[m].flags
              /\ "cont" \in k.pages[m].flags <=> m > 1
              /\ "bos" \in k.pages[m].flags <=> (m = 1 /\ k.stage = "ids")
              /\ k.pages[m].granule =
                   IF m = Len(k.pages)
                   THEN IF k.stage = "packet"
                        THEN tracks[k.track].previousGranulePosition ELSE 0
                   ELSE noGranulePosition
              /\ k.pages[m].granule # noGranulePosition <=> m = Len(k.pages)
              /\ k.pages[m].payload = PagePayload(PacketLength(k), m)
              /\ k.pages[m].size > 0
         /\ EndShape(k.pages[Len(k.pages)])
<1> DEFINE t == tracks[k.track]
           g == IF k.stage = "packet" THEN t.previousGranulePosition ELSE 0
           len == PacketLength(k)
           fl == PacketFlags(k)
           ps == k.pages
<1>m. Made(k)
  BY DEF Inv
<1>1. Writing(k) /\ k.written < Len(k.pages)
  BY <1>m DEF Made
<1>2. /\ k \in CallState /\ t.serial \in Nat /\ t.pageIndex \in Nat
      /\ t.previousGranulePosition \in Nat /\ len \in Nat /\ fl \in SUBSET {"bos"}
      /\ "bos" \in fl <=> k.stage = "ids"
      /\ PacketId(k) \in Nat
  BY <1>1, PacketFacts
<1>3. k.written \in Nat /\ k.pages \in Seq(Page)
  BY <1>2, CallTypes
<1>4. ps = CreatePages(t.serial, t.pageIndex, len, fl, g)
  BY <1>m DEF Made
<1>5. g \in Nat
  BY <1>2
<1>6. Cut(ps, t.serial, t.pageIndex, len, fl, g)
  BY <1>2, <1>4, <1>5 DEF Cut
<1> HIDE DEF g, len, fl, ps
<1>7. /\ Len(ps) = PageCount(len)
      /\ \A m \in 1..PageCount(len) :
              /\ ps[m] \in Page /\ ps[m].serial = t.serial
              /\ ps[m].index = t.pageIndex + m - 1
              /\ "eos" \notin ps[m].flags
              /\ "cont" \in ps[m].flags <=> m > 1
              /\ "bos" \in ps[m].flags <=> (m = 1 /\ "bos" \in fl)
              /\ ps[m].granule = IF m = PageCount(len) THEN g ELSE noGranulePosition
              /\ ps[m].payload = PagePayload(len, m)
              /\ ps[m].size > 0
      /\ EndShape(ps[PageCount(len)])
  BY <1>6, PagesMade
<1>8. g # noGranulePosition
  BY <1>5, Capacity
<1>9. k.written + 1 \in 1..Len(k.pages) /\ Len(k.pages) \in Nat
  BY <1>1, <1>3
<1>10. /\ NextPage(k) \in FileEntry /\ NextPage(k).page = k.pages[k.written + 1]
       /\ NextPage(k).at = FileSize /\ NextPage(k).id = PacketId(k)
  <2>1. k.pages[k.written + 1] \in Page
    BY <1>3, <1>9
  <2>2. FileSize \in Nat
    BY FileSizeType DEF Inv, TypeOK
  <2> QED BY <2>1, <2>2, <1>2 DEF NextPage, Entry, FileEntry
<1>11. \A m \in 1..Len(ps) :
              /\ ps[m].serial = t.serial
              /\ ps[m].index = t.pageIndex + m - 1
              /\ "eos" \notin ps[m].flags
              /\ "cont" \in ps[m].flags <=> m > 1
              /\ "bos" \in ps[m].flags <=> (m = 1 /\ k.stage = "ids")
              /\ ps[m].granule = IF m = Len(ps) THEN g ELSE noGranulePosition
              /\ ps[m].granule # noGranulePosition <=> m = Len(ps)
              /\ ps[m].payload = PagePayload(len, m)
              /\ ps[m].size > 0
  BY <1>7, <1>8, <1>2
<1> QED BY <1>1, <1>2, <1>3, <1>7, <1>9, <1>10, <1>11 DEF g, len, ps

(* Something is written behind the file: what that means for the parts of  *)
(* the invariant.                                                          *)
LEMMA SerialsAppended ==
  ASSUME Serials, NEW e, Behind(file', file, e), TracksKept, PacketsKept,
         DOMAIN packets' = DOMAIN packets,
         e.page.serial = -1 \/ \E i \in DOMAIN tracks : e.page.serial = tracks[i].serial
  PROVE  Serials'
<1>1. /\ \A m \in DOMAIN file' : m \in DOMAIN file \/ m = Len(file) + 1
      /\ \A m \in DOMAIN file : file'[m] = file[m]
      /\ file'[Len(file) + 1] = e
  <2>1. /\ Len(file) \in Nat
        /\ DOMAIN file = 1..Len(file) /\ DOMAIN file' = 1..(Len(file) + 1)
        /\ \A k \in DOMAIN file : file'[k] = file[k]
        /\ file'[Len(file) + 1] = e
    BY Appending
  <2> QED BY <2>1
<1>2. /\ \A i, j \in DOMAIN tracks' : tracks'[i].serial = tracks'[j].serial => i = j
      /\ \A id \in DOMAIN packets' : packets'[id].track \in DOMAIN tracks'
  BY DEF Serials, TracksKept, PacketsKept
<1>3. \A m \in DOMAIN file' :
           \/ file'[m].page.serial = -1
           \/ \E i \in DOMAIN tracks' : file'[m].page.serial = tracks'[i].serial
  BY <1>1 DEF Serials, TracksKept
<1> QED BY <1>2, <1>3 DEF Serials

LEMMA WholeAppended ==
  ASSUME PacketsWhole, Serials, packets \in Seq(SentPacket),
         NEW e, Behind(file', file, e), TracksKept, PacketsKept, "eos" \notin errors,
         NEW id \in DOMAIN packets, packets[id].status = "ok", e.id # id
  PROVE  \E a \in DOMAIN file' :
           WholeFrom(file', a, tracks'[packets'[id].track].serial, id, packets'[id].len)
<1>1. PICK a \in DOMAIN file :
        WholeFrom(file, a, tracks[packets[id].track].serial, id, packets[id].len)
  BY DEF PacketsWhole
<1>2. packets[id].len \in Nat
  <2>1. packets[id] \in SentPacket
    OBVIOUS
  <2> QED BY <2>1 DEF SentPacket
<1>3. WholeFrom(file', a, tracks[packets[id].track].serial, id, packets[id].len)
  BY <1>1, <1>2, AppendWhole
<1>4. /\ packets'[id].track = packets[id].track /\ packets'[id].len = packets[id].len
      /\ tracks'[packets[id].track].serial = tracks[packets[id].track].serial
  BY DEF PacketsKept, TracksKept, Serials
<1>5. a \in DOMAIN file'
  BY <1>3 DEF WholeFrom
<1> QED BY <1>3, <1>4, <1>5

LEMMA HeadersAppended ==
  ASSUME tracks \in Seq(TrackState), HeadersFirst, errors \cap {"header", "eos"} = {},
         NEW e, Behind(file', file, e), TracksKept, Len(tracks') = Len(tracks),
         "bos" \in e.page.flags <=> Len(file) + 1 <= Len(tracks),
         Len(file) + 1 <= Len(tracks) => e.page.serial = tracks[Len(file) + 1].serial,
         e.id > 0 => \A i \in DOMAIN tracks : Tagged(i)
  PROVE  /\ HeadersFirst' /\ \A i \in DOMAIN tracks : Tagged(i) => Tagged(i)'
         /\ \A i \in DOMAIN tracks :
              (/\ e.page.serial = tracks[i].serial /\ Ends(e) /\ e.id = 0
               /\ Len(tracks) < Len(file) + 1) => Tagged(i)'
<1> DEFINE L == Len(file) + 1
<1>1. /\ \A m : m \in DOMAIN file' <=> m \in DOMAIN file \/ m = L
      /\ \A m \in DOMAIN file : file'[m] = file[m] /\ m < L /\ m \in Nat /\ m >= 1
      /\ file'[L] = e /\ L \in Nat /\ L >= 1
  <2>1. /\ Len(file) \in Nat
        /\ DOMAIN file = 1..Len(file) /\ DOMAIN file' = 1..(Len(file) + 1)
        /\ \A k \in DOMAIN file : file'[k] = file[k]
        /\ file'[Len(file) + 1] = e
    BY Appending
  <2> QED BY <2>1
<1>2. \A i \in DOMAIN tracks :
        /\ tracks'[i].serial = tracks[i].serial
        /\ \A k : k \in Complete(file', tracks[i].serial) <=>
                     \/ k \in Complete(file, tracks[i].serial)
                     \/ k = L /\ e.page.serial = tracks[i].serial /\ Ends(e)
        /\ \A k \in Complete(file, tracks[i].serial) : k \in DOMAIN file
  <2>1. ASSUME NEW s
        PROVE  /\ \A k : k \in Complete(file', s) <=>
                     \/ k \in Complete(file, s)
                     \/ k = Len(file) + 1 /\ e.page.serial = s /\ Ends(e)
               /\ \A k \in Complete(file, s) : k \in DOMAIN file
    <3>1. \A k \in Complete(file, s) : k \in DOMAIN file
      BY DEF Complete, Of
    <3> QED BY <3>1, AppendOf
  <2> QED BY <2>1 DEF TracksKept
<1>t. DOMAIN tracks' = DOMAIN tracks /\ DOMAIN tracks = 1..Len(tracks) /\ Len(tracks) \in Nat
  BY DEF TracksKept
<1>h. L <= Len(tracks) => L \in DOMAIN tracks
  BY <1>1, <1>t
<1>b. /\ "bos" \in e.page.flags <=> L <= Len(tracks)
      /\ L <= Len(tracks) => e.page.serial = tracks[L].serial
  OBVIOUS
<1> HIDE DEF L
<1>3. \A i \in DOMAIN tracks : Tagged(i) => Tagged(i)'
  BY <1>1, <1>2 DEF Tagged
<1>4. \A i \in DOMAIN tracks :
        (e.page.serial = tracks[i].serial /\ Ends(e) /\ e.id = 0 /\ Len(tracks) < L)
          => Tagged(i)'
  BY <1>1, <1>2 DEF Tagged
<1>5. ASSUME NEW k \in DOMAIN file'
      PROVE  /\ "bos" \in file'[k].page.flags <=> k <= Len(tracks)
             /\ k <= Len(tracks) => file'[k].page.serial = tracks'[k].serial
  <2>1. CASE k \in DOMAIN file
    <3>1. k <= Len(tracks) => k \in DOMAIN tracks
      BY <2>1, <1>1, <1>t
    <3> QED BY <2>1, <3>1, <1>1, <1>2 DEF HeadersFirst
  <2>2. CASE k = L
    BY <2>2, <1>1, <1>2, <1>h, <1>b
  <2> QED BY <2>1, <2>2, <1>1
<1>6. ASSUME NEW k \in DOMAIN file', NEW i \in DOMAIN tracks, file'[k].id > 0
      PROVE  \E j \in Complete(file', tracks'[i].serial) :
               Len(tracks) < j /\ j < k /\ file'[j].id = 0
  <2>1. CASE k \in DOMAIN file
    <3>1. PICK j \in Complete(file, tracks[i].serial) :
            Len(tracks) < j /\ j < k /\ file[j].id = 0
      BY <2>1, <1>1, <1>6 DEF HeadersFirst
    <3>2. j \in Complete(file', tracks'[i].serial) /\ file'[j] = file[j]
      BY <3>1, <1>1, <1>2
    <3> QED BY <3>1, <3>2
  <2>2. CASE k = L
    <3>1. PICK j \in Complete(file, tracks[i].serial) :
            Len(tracks) < j /\ file[j].id = 0
      BY <2>2, <1>1, <1>6 DEF Tagged
    <3>2. j \in Complete(file', tracks'[i].serial) /\ file'[j] = file[j] /\ j < L
      BY <3>1, <1>1, <1>2
    <3> QED BY <2>2, <3>1, <3>2
  <2> QED BY <2>1, <2>2, <1>1
<1>7. HeadersFirst'
  BY <1>5, <1>6, <1>t DEF HeadersFirst
<1> QED BY <1>3, <1>4, <1>7 DEF L

LEMMA TaggedLong ==
  ASSUME file \in Seq(FileEntry), tracks \in Seq(TrackState), NEW i, Tagged(i)
  PROVE  Len(tracks) < Len(file) + 1 /\ Len(tracks) < Len(file)
<1>1. PICK j \in Complete(file, tracks[i].serial) : Len(tracks) < j
  BY DEF Tagged
<1>2. j \in DOMAIN file
  BY DEF Complete, Of
<1>3. /\ Len(file) \in Nat /\ Len(tracks) \in Nat /\ j \in Nat /\ j <= Len(file)
  BY <1>2
<1> QED BY <1>1, <1>3

(* What has been written of the current packet, and one page more.         *)
LEMMA PrefixGrows ==
  ASSUME NEW k, NEW e, Behind(file', file, e), k.written \in Nat, Written(k),
         e.page = k.pages[k.written + 1], e.id = PacketId(k)
  PROVE  /\ k.written + 1 <= Len(file')
         /\ Len(file') - (k.written + 1) = Len(file) - k.written
         /\ Len(file) - k.written \in Nat
         /\ \A m \in 1..(k.written + 1) :
              /\ file'[Len(file) - k.written + m].page = k.pages[m]
              /\ file'[Len(file) - k.written + m].id = PacketId(k)
<1> DEFINE w == k.written
           L == Len(file)
<1>1. /\ L \in Nat /\ Len(file') = L + 1
      /\ DOMAIN file = 1..L
      /\ \A m \in DOMAIN file : file'[m] = file[m]
      /\ file'[L + 1] = e
  BY Appending
<1>2. /\ w \in Nat /\ w <= L
      /\ \A m \in 1..w : file[L - w + m].page = k.pages[m]
                         /\ file[L - w + m].id = PacketId(k)
      /\ e.page = k.pages[w + 1]
  BY DEF Written
<1> HIDE DEF w, L
<1>3. ASSUME NEW m \in 1..(w + 1)
      PROVE  file'[L - w + m].page = k.pages[m] /\ file'[L - w + m].id = PacketId(k)
  <2>1. CASE m \in 1..w
    <3>1. L - w + m \in DOMAIN file
      BY <2>1, <1>1, <1>2
    <3> QED BY <2>1, <3>1, <1>1, <1>2
  <2>2. CASE m = w + 1
    <3>1. L - w + m = L + 1
      BY <2>2, <1>1, <1>2
    <3> QED BY <2>2, <3>1, <1>1, <1>2
  <2> QED BY <2>1, <2>2, <1>2
<1>4. w + 1 <= Len(file') /\ Len(file') - (w + 1) = L - w /\ L - w \in Nat
  BY <1>1, <1>2
<1> QED BY <1>3, <1>4 DEF w, L

LEMMA WritePageInv ==
  ASSUME Inv, NEW c \in Callers, WritePage(c), UNCHANGED <<single, seekable>>
  PROVE  Inv'
<1> DEFINE k == call[c]
           e == NextPage(k)
           j == [k EXCEPT !.written = k.written + 1]
           s == tracks[k.track].serial
           w == k.written
<1>t. /\ tracks \in Seq(TrackState) /\ file \in Seq(FileEntry)
      /\ packets \in Seq(SentPacket) /\ call \in [Callers -> CallState]
  BY DEF Inv, TypeOK
<1>s. /\ k.written + 1 < Len(k.pages)
      /\ file' = Append(file, e)
      /\ call' = [call EXCEPT ![c] = j] /\ mu' = mu /\ tracks' = tracks
      /\ open' = open /\ started' = started /\ packets' = packets
      /\ failures' = failures /\ errors' = errors
      /\ single' = single /\ seekable' = seekable
  BY <1>t DEF WritePage
<1>k. mu = c /\ Cur = k /\ open /\ k \in CallState /\ k # Idle
  <2>1. k # Idle
    BY <1>s, IdleState
  <2> QED BY <2>1, Holding DEF Inv
<1>kt. k.written \in Nat /\ k.pages \in Seq(Page)
  BY <1>k, CallTypes
<1>ne. k.pages # << >>
  BY <1>s, <1>kt
<1>j. /\ j \in CallState /\ j.pages = k.pages /\ j.written = k.written + 1
      /\ j.stage = k.stage
      /\ j.track = k.track /\ j.op = k.op /\ j.id = k.id /\ j.to = k.to
  BY <1>k, <1>kt DEF CallState
<1> HIDE DEF k, j
<1>f. /\ Writing(k) /\ e \in FileEntry /\ e.at = FileSize /\ e.id = PacketId(k)
      /\ e.page = k.pages[w + 1]
      /\ e.page.serial = s /\ e.page.index = tracks[k.track].pageIndex + w
      /\ "eos" \notin e.page.flags /\ ~Ends(e) /\ e.page.size > 0
      /\ "bos" \notin e.page.flags /\ k.stage # "ids"
      /\ w \in Nat
  <2>1. /\ Writing(k) /\ e \in FileEntry /\ e.at = FileSize /\ e.id = PacketId(k)
        /\ e.page = k.pages[w + 1] /\ w + 1 \in 1..Len(k.pages)
        /\ Len(k.pages) = PageCount(PacketLength(k)) /\ w \in Nat
    BY <1>k, <1>ne, NextPageFacts
  <2>2. \A m \in 1..Len(k.pages) :
              /\ k.pages[m].serial = s
              /\ k.pages[m].index = tracks[k.track].pageIndex + m - 1
              /\ "eos" \notin k.pages[m].flags
              /\ "bos" \in k.pages[m].flags <=> (m = 1 /\ k.stage = "ids")
              /\ k.pages[m].granule # noGranulePosition <=> m = Len(k.pages)
              /\ k.pages[m].size > 0
    BY <1>k, <1>ne, NextPageFacts
  <2>3. tracks[k.track].pageIndex \in Nat
        /\ (k.stage = "ids" => PageCount(PacketLength(k)) = 1)
    BY <2>1, <1>k, PacketFacts
  <2>4. w + 1 # Len(k.pages) /\ k.stage # "ids"
    BY <2>1, <2>3, <1>s, <1>kt
  <2>5. ~Ends(e)
    BY <2>1, <2>2, <2>4 DEF Ends
  <2>6. e.page.index = tracks[k.track].pageIndex + (w + 1) - 1
    BY <2>1, <2>2
  <2> QED BY <2>1, <2>2, <2>3, <2>4, <2>5, <2>6
<1>g. /\ k.track \in DOMAIN tracks /\ tracks[k.track].pageIndex \in Nat
      /\ PacketId(k) \in Nat /\ PacketId(k) <= Len(packets)
      /\ PacketId(k) = 0 \/ PacketId(k) = k.id
      /\ PacketId(k) = 0 <=> k.stage # "packet"
      /\ k.stage = "packet" => started /\ k.id \in DOMAIN packets
                               /\ packets[k.id].status = "pending"
      /\ k.stage # "packet" => ~started
  BY <1>f, <1>k, PacketFacts
<1>b. Behind(file', file, e)
  BY <1>s, <1>t, <1>f DEF Behind
<1> HIDE DEF e, w
<1>a. /\ Len(file) \in Nat /\ Len(file') = Len(file) + 1 /\ file' \in Seq(FileEntry)
      /\ DOMAIN file = 1..Len(file) /\ DOMAIN file' = 1..(Len(file) + 1)
      /\ \A m \in DOMAIN file : file'[m] = file[m]
      /\ file'[Len(file) + 1] = e
  BY <1>b, Appending
<1>ni. j # Idle
  BY <1>j, <1>ne, IdleState
<1>x. call' \in [Callers -> CallState] /\ mu' \in Callers \cup {NoCaller}
      /\ Exclusive' /\ Cur' = j
  <2>1. Turn(c, j) /\ mu \in {c, NoCaller} /\ open'
    BY <1>s, <1>k, <1>ni DEF Turn
  <2> QED BY <2>1, <1>j, TakesTurn DEF Inv
<1>pk. PacketsKept /\ NoneDone /\ GivenUp' = GivenUp /\ TracksKept
  BY <1>s DEF PacketsKept, NoneDone, GivenUp, TracksKept
<1>1. TypeOK'
  BY <1>s, <1>x, <1>a DEF Inv, TypeOK
<1>2. Serials'
  BY <1>b, <1>pk, <1>f, <1>g, <1>s, SerialsAppended DEF Inv
<1>3. Layout'
  BY <1>b, <1>f, AppendLayout DEF Inv
<1>u. Purpose(k) /\ Made(k) /\ Written(k)
  BY <1>k DEF Inv
<1>4. Purpose(Cur)'
  BY <1>u, <1>k, <1>s, <1>x, <1>j DEF Purpose
<1>5. Made(Cur)'
  <2>1. PacketLength(Cur)' = PacketLength(k) /\ PacketFlags(Cur') = PacketFlags(k)
        /\ Writing(Cur')
    BY <1>s, <1>x, <1>j, <1>f DEF PacketLength, PacketFlags, Writing
  <2> QED BY <2>1, <1>u, <1>s, <1>x, <1>j, <1>ne DEF Made
<1>6. Written(Cur)'
  <2>1. /\ k.written + 1 <= Len(file')
        /\ Len(file') - (k.written + 1) = Len(file) - k.written
        /\ Len(file) - k.written \in Nat
        /\ \A m \in 1..(k.written + 1) :
              /\ file'[Len(file) - k.written + m].page = k.pages[m]
              /\ file'[Len(file) - k.written + m].id = PacketId(k)
    BY <1>b, <1>u, <1>kt, <1>f, PrefixGrows DEF w
  <2>2. PacketId(Cur') = PacketId(k)
    BY <1>x, <1>j DEF PacketId
  <2>3. \A m \in DOMAIN file' : file'[m].id <= Len(packets)
    BY <1>u, <1>a, <1>f, <1>g DEF Written
  <2>4. ASSUME k.op = "write", NEW m \in DOMAIN file'
        PROVE  file'[m].id = k.id <=> k.stage = "packet" /\ m > Len(file) - k.written
    <3>1. CASE m \in DOMAIN file
      BY <3>1, <2>4, <1>u, <1>a DEF Written
    <3>2. CASE m = Len(file) + 1
      <4>1. m > Len(file) - k.written
        BY <3>2, <1>a, <1>kt
      <4>2. k.id # 0
        BY <2>4, <1>u, <1>t DEF Purpose
      <4> QED BY <3>2, <4>1, <4>2, <1>a, <1>f, <1>g
    <3> QED BY <3>1, <3>2, <1>a
  <2>5. Len(file') - j.written = Len(file) - k.written
    BY <2>1, <1>j
  <2>6. /\ j.written <= Len(file')
        /\ \A m \in 1..j.written :
              /\ file'[Len(file') - j.written + m].page = j.pages[m]
              /\ file'[Len(file') - j.written + m].id = PacketId(k)
    BY <2>1, <2>5, <1>j
  <2>7. j.op = "write" =>
          \A m \in DOMAIN file' :
            file'[m].id = j.id <=> j.stage = "packet" /\ m > Len(file') - j.written
    BY <2>4, <2>5, <1>j
  <2> HIDE DEF s
  <2> QED BY <2>2, <2>3, <2>6, <2>7, <1>x, <1>s DEF Written
<1>7. PacketsWhole'
  <2>1. SUFFICES ASSUME NEW id \in DOMAIN packets, packets[id].status = "ok",
                        "eos" \notin errors
        PROVE  \E a \in DOMAIN file' :
                 WholeFrom(file', a, tracks'[packets'[id].track].serial, id,
                           packets'[id].len)
    BY <1>s DEF PacketsWhole
  <2>2. e.id # id
    BY <2>1, <1>f, <1>g, <1>t
  <2> QED BY <2>1, <2>2, <1>b, <1>t, <1>pk, WholeAppended DEF Inv
<1>o. \A i \in DOMAIN tracks : i # k.track => tracks[i].serial # s
  BY <1>g DEF Inv, Serials
<1>8. Numbers'
  <2>1. SUFFICES ASSUME NEW i \in DOMAIN tracks
        PROVE  /\ Past(file', tracks[i].serial, tracks[i].pageIndex)
               /\ "eos" \notin errors =>
                    /\ Numbered(file', tracks[i].serial, GivenUp)
                    /\ Expects(file', tracks[i].serial,
                         tracks[i].pageIndex + (IF j.track = i THEN j.written ELSE 0),
                         GivenUp)
    BY <1>s, <1>x, <1>pk DEF Numbers
  <2>2. /\ Past(file, tracks[i].serial, tracks[i].pageIndex)
        /\ "eos" \notin errors =>
             /\ Numbered(file, tracks[i].serial, GivenUp)
             /\ Expects(file, tracks[i].serial,
                  tracks[i].pageIndex + (IF k.track = i THEN k.written ELSE 0),
                  GivenUp)
    BY <1>k DEF Inv, Numbers
  <2>3. Past(file', tracks[i].serial, tracks[i].pageIndex)
    BY <2>2, <1>b, <1>f, AppendPart
  <2>4. CASE i = k.track
    <3>1. ASSUME "eos" \notin errors
          PROVE  Numbered(file', s, GivenUp)
                 /\ Expects(file', s, tracks[i].pageIndex + (w + 1), GivenUp)
      <4>1. Numbered(file, s, GivenUp) /\ Expects(file, s, e.page.index, GivenUp)
        BY <2>2, <2>4, <3>1, <1>f DEF w
      <4>2. MayFollow(e, tracks[i].pageIndex + (w + 1), GivenUp)
        <5>1. tracks[i].pageIndex + (w + 1) = e.page.index + 1
          BY <2>4, <1>f, <1>g
        <5> QED BY <5>1 DEF MayFollow
      <4> QED BY <4>1, <4>2, <1>b, <1>f, AppendNumber
    <3> QED BY <2>3, <2>4, <3>1, <1>j DEF w
  <2>5. CASE i # k.track
    <3> DEFINE q == tracks[i].serial
    <3>1. e.page.serial # q
      BY <2>5, <1>o, <1>f
    <3> HIDE DEF q
    <3>2. /\ Of(file', q) = Of(file, q) /\ Complete(file', q) = Complete(file, q)
          /\ \A m \in Of(file, q) : file'[m] = file[m]
          /\ \A m \in Complete(file, q) : file'[m] = file[m]
      BY <3>1, <1>b, AppendOther
    <3>3. /\ Numbered(file', q, GivenUp) <=> Numbered(file, q, GivenUp)
          /\ \A n : Expects(file', q, n, GivenUp) <=> Expects(file, q, n, GivenUp)
      BY <3>2, SamePages
    <3> QED BY <2>2, <2>3, <2>5, <3>3, <1>j DEF q
  <2> QED BY <2>4, <2>5
<1>9. Granules'
  <2>1. \A i : Underway(i)' = Underway(i)
    BY <1>s, <1>x, <1>j, <1>k DEF Underway
  <2>2. \A i \in DOMAIN tracks :
          /\ Growing(file', tracks[i].serial, packets)
          /\ Until(file', tracks[i].serial,
                   tracks[i].previousGranulePosition - Underway(i))
          /\ ~started => tracks[i].previousGranulePosition = 0
    BY <1>b, <1>f, AppendPart DEF Inv, Granules
  <2> QED BY <2>1, <2>2, <1>s DEF Granules
<1>10. EndOfStream'
  <2>1. \A i : ~Through(i) /\ ~Through(i)'
    BY <1>f, <1>s, <1>x, <1>j, <1>k DEF Through, Writing
  <2>2. \A i \in DOMAIN tracks :
          /\ NoEOS(file', tracks[i].serial)
          /\ seekable => Noted(file', tracks[i])
    BY <2>1, <1>b, <1>f, AppendPart DEF Inv, EndOfStream
  <2> QED BY <2>1, <2>2, <1>s DEF EndOfStream
<1>11. Headers'
  <2>1. SUFFICES ASSUME errors \cap {"header", "eos"} = {}
        PROVE  /\ HeadersFirst'
               /\ IF started THEN \A i \in DOMAIN tracks : Tagged(i)'
                  ELSE /\ \A m \in DOMAIN file' : file'[m].id <= 0
                       /\ k.stage = "tags" => \A i \in 1..(k.track - 1) : Tagged(i)'
                       /\ k.stage = "tags" => Len(file') >= Len(tracks)
                       /\ k.stage = "tags"
    BY <1>s, <1>x, <1>j DEF Headers
  <2>2. HeadersFirst
        /\ IF started THEN \A i \in DOMAIN tracks : Tagged(i)
           ELSE /\ \A m \in DOMAIN file : file[m].id <= 0
                /\ k.stage = "tags" => \A i \in 1..(k.track - 1) : Tagged(i)
                /\ k.stage = "tags" => Len(file) >= Len(tracks)
                /\ k.stage # "packet"
    BY <2>1, <1>k DEF Inv, Headers
  <2>3. Len(tracks) < Len(file) + 1
    <3>1. CASE started
      BY <3>1, <2>2, <1>g, <1>t, TaggedLong
    <3>2. CASE ~started
      <4>1. k.stage = "tags"
        BY <3>2, <2>2, <1>f DEF Writing
      <4> QED BY <3>2, <4>1, <2>2, <1>t
    <3> QED BY <3>1, <3>2
  <2>4. ~(Len(file) + 1 <= Len(tracks))
    BY <2>3, <1>t
  <2>5. e.id > 0 => \A i \in DOMAIN tracks : Tagged(i)
    BY <2>2, <1>f, <1>g
  <2>6. HeadersFirst' /\ \A i \in DOMAIN tracks : Tagged(i) => Tagged(i)'
    BY <2>1, <2>2, <2>4, <2>5, <1>b, <1>t, <1>pk, <1>f, <1>s, HeadersAppended
  <2>7. CASE started
    BY <2>2, <2>6, <2>7
  <2>8. CASE ~started
    <3>1. k.stage = "tags"
      BY <2>8, <2>2, <1>f DEF Writing
    <3>2. \A m \in DOMAIN file' : file'[m].id <= 0
      <4>1. e.id = 0
        BY <3>1, <1>f, <1>g
      <4> QED BY <4>1, <2>2, <2>8, <1>a
    <3>3. \A i \in 1..(k.track - 1) : i \in DOMAIN tracks
      BY <1>g, <1>t
    <3>4. Len(file') >= Len(tracks)
      BY <2>3, <1>a, <1>t
    <3> QED BY <2>2, <2>6, <2>8, <3>1, <3>2, <3>3, <3>4
  <2> QED BY <2>7, <2>8
<1> QED BY <1>1, <1>2, <1>3, <1>4, <1>5, <1>6, <1>7, <1>8, <1>9, <1>10, <1>11, <1>x DEF Inv

(* The last page of a packet makes the packet whole.                       *)
LEMMA LastPageWhole ==
  ASSUME Inv, NEW k, k = Cur, k.pages # << >>, k.stage = "packet",
         NEW e, e = NextPage(k), Behind(file', file, e), k.written + 1 = Len(k.pages)
  PROVE  WholeFrom(file', Len(file) - k.written + 1, tracks[k.track].serial, k.id,
                   packets[k.id].len)
<1> DEFINE w == k.written
           L == Len(file)
           n == Len(k.pages)
           a == L - w + 1
           s == tracks[k.track].serial
           x == tracks[k.track].pageIndex
           len == packets[k.id].len
<1>1. /\ Writing(k) /\ w \in Nat /\ n \in Nat /\ n = PageCount(PacketLength(k))
      /\ e.page = k.pages[w + 1] /\ e.id = PacketId(k)
      /\ \A m \in 1..n :
              /\ k.pages[m].serial = s
              /\ k.pages[m].index = x + m - 1
              /\ "cont" \in k.pages[m].flags <=> m > 1
              /\ k.pages[m].granule # noGranulePosition <=> m = n
              /\ k.pages[m].payload = PagePayload(PacketLength(k), m)
  BY NextPageFacts
<1>2. PacketLength(k) = len /\ x \in Nat /\ k.op = "write"
  BY <1>1, PacketFacts
<1>3. Written(k)
  BY DEF Inv
<1>4. /\ L - w \in Nat
      /\ \A m \in 1..(w + 1) : file'[L - w + m].page = k.pages[m]
                               /\ file'[L - w + m].id = PacketId(k)
  BY <1>1, <1>3, PrefixGrows
<1>5. /\ L \in Nat /\ DOMAIN file = 1..L /\ DOMAIN file' = 1..(L + 1)
      /\ \A m \in DOMAIN file : file'[m] = file[m]
      /\ file'[L + 1] = e
  BY Appending
<1>6. \A m \in DOMAIN file : file[m].id = k.id <=> m > L - w
  BY <1>2, <1>3 DEF Written
<1>7. PacketId(k) = k.id
  BY DEF PacketId
<1>8. n = w + 1
  OBVIOUS
<1> HIDE DEF w, L, n, s, x, len
<1>9. a \in DOMAIN file' /\ a + n - 1 \in DOMAIN file' /\ a + n - 1 = L + 1
  BY <1>1, <1>4, <1>5, <1>8
<1>10. ASSUME NEW m \in DOMAIN file'
       PROVE  file'[m].id = k.id <=> a <= m /\ m < a + n
  <2>1. CASE m \in DOMAIN file
    <3>1. m > L - w <=> a <= m /\ m < a + n
      BY <2>1, <1>4, <1>5, <1>8, <1>1
    <3> QED BY <2>1, <3>1, <1>5, <1>6
  <2>2. CASE m = L + 1
    <3>1. a <= m /\ m < a + n
      BY <2>2, <1>4, <1>5, <1>8, <1>1
    <3>2. file'[m].id = k.id
      BY <2>2, <1>5, <1>1, <1>7
    <3> QED BY <3>1, <3>2
  <2> QED BY <2>1, <2>2, <1>5
<1>11. ASSUME NEW m \in 1..n PROVE file'[a + m - 1].page = k.pages[m]
  <2>1. a + m - 1 = L - w + m /\ m \in 1..(w + 1)
    BY <1>4, <1>8, <1>1
  <2> QED BY <2>1, <1>4
<1>12. file'[a].page.index = x
  <2>1. 1 \in 1..n /\ a + 1 - 1 = a
    BY <1>8, <1>1, <1>4
  <2>2. file'[a].page = k.pages[1]
    BY <2>1, <1>11
  <2>3. k.pages[1].index = x + 1 - 1
    BY <2>1, <1>1
  <2> QED BY <2>2, <2>3, <1>2
<1>13. ASSUME NEW m \in DOMAIN file', file'[m].id = k.id
       PROVE  IsPageOf(file'[m], s, len, file'[a].page.index, m - a + 1)
  <2> DEFINE q == m - a + 1
  <2>1. q \in 1..n /\ a + q - 1 = m
    <3>1. a <= m /\ m < a + n
      BY <1>13, <1>10
    <3>2. m \in Nat /\ a \in Nat /\ n \in Nat
      BY <1>1, <1>4, <1>5
    <3> HIDE DEF a
    <3> QED BY <3>1, <3>2
  <2> HIDE DEF q
  <2>2. file'[m].page = k.pages[q]
    BY <2>1, <1>11
  <2> QED BY <2>1, <2>2, <1>1, <1>2, <1>12 DEF IsPageOf, Ends, q
<1>14. n = PageCount(len)
  BY <1>1, <1>2
<1> QED BY <1>9, <1>10, <1>13, <1>14 DEF WholeFrom, a, w, L, s, len

(* A track after the last page of a packet.                                *)
LEMMA TrackCounted ==
  ASSUME NEW t \in TrackState, NEW e \in FileEntry, NEW k, Len(k.pages) \in Nat,
         seekable \in BOOLEAN
  PROVE  LET u == Counted(NoteLastPage(t, e), k)
         IN /\ u \in TrackState /\ u.serial = t.serial
            /\ u.pageIndex = t.pageIndex + Len(k.pages)
            /\ u.previousGranulePosition = t.previousGranulePosition
            /\ seekable => u.lastPageWritten /\ u.last = e
<1> DEFINE v == NoteLastPage(t, e)
           u == Counted(NoteLastPage(t, e), k)
<1>1. /\ v \in TrackState /\ v.serial = t.serial /\ v.pageIndex = t.pageIndex
      /\ v.previousGranulePosition = t.previousGranulePosition
      /\ seekable => v.lastPageWritten /\ v.last = e
  BY DEF NoteLastPage, TrackState
<1>2. u = [v EXCEPT !.pageIndex = v.pageIndex + Len(k.pages)]
  BY DEF Counted
<1> HIDE DEF v
<1> DEFINE n == Len(k.pages)
<1>3. v.pageIndex \in Nat /\ v.pageIndex + n \in Nat
  <2>1. v.pageIndex \in Nat
    BY <1>1 DEF TrackState
  <2> QED BY <2>1
<1> HIDE DEF n
<1>4. u = [v EXCEPT !.pageIndex = v.pageIndex + n]
  BY <1>2 DEF n
<1> HIDE DEF u
<1>5. /\ u \in TrackState /\ u.serial = v.serial /\ u.pageIndex = v.pageIndex + n
      /\ u.previousGranulePosition = v.previousGranulePosition
      /\ u.lastPageWritten = v.lastPageWritten /\ u.last = v.last
  BY <1>1, <1>3, <1>4 DEF TrackState
<1> QED BY <1>1, <1>5 DEF n, u

LEMMA WriteLastPageInv ==
  ASSUME Inv, NEW c \in Callers, WriteLastPage(c), UNCHANGED <<single, seekable>>
  PROVE  Inv'
<1> DEFINE k == call[c]
           e == NextPage(k)
           j == IF k.stage = "packet" THEN Idle ELSE NextHeader(k)
           t == tracks[k.track]
           u == Counted(NoteLastPage(t, e), k)
           s == t.serial
           w == k.written
           n == Len(k.pages)
<1>t. /\ tracks \in Seq(TrackState) /\ file \in Seq(FileEntry)
      /\ packets \in Seq(SentPacket) /\ call \in [Callers -> CallState]
      /\ seekable \in BOOLEAN
  BY DEF Inv, TypeOK
<1>s. /\ k.pages # << >> /\ w + 1 = n
      /\ file' = Append(file, e)
      /\ tracks' = [tracks EXCEPT ![k.track] = u]
      /\ SetStatus(PacketId(k), "ok") /\ Resume(c, j)
      /\ open' = open /\ started' = started
      /\ failures' = failures /\ errors' = errors
      /\ single' = single /\ seekable' = seekable
  BY <1>t DEF WriteLastPage
<1>i. /\ Idle.op = "none" /\ Idle.stage = "idle" /\ Idle.track = 0 /\ Idle.id = 0
      /\ Idle.pages = << >> /\ Idle.written = 0 /\ Idle \in CallState
  BY IdleState
<1>k. mu = c /\ Cur = k /\ open /\ k \in CallState /\ k # Idle
  <2>1. k # Idle
    BY <1>s, <1>i
  <2> QED BY <2>1, Holding DEF Inv
<1> HIDE DEF k
<1>e. /\ Writing(k) /\ w \in Nat /\ n \in Nat /\ n = PageCount(PacketLength(k))
      /\ e \in FileEntry /\ e.at = FileSize /\ e.id = PacketId(k)
      /\ e.page = k.pages[n] /\ n \in 1..n /\ EndShape(e.page)
  BY <1>k, <1>s, NextPageFacts
<1>pg. \A m \in 1..Len(k.pages) :
              /\ k.pages[m].serial = s
              /\ k.pages[m].index = t.pageIndex + m - 1
              /\ "eos" \notin k.pages[m].flags
              /\ "bos" \in k.pages[m].flags <=> (m = 1 /\ k.stage = "ids")
              /\ k.pages[m].granule =
                   IF m = Len(k.pages)
                   THEN IF k.stage = "packet" THEN t.previousGranulePosition ELSE 0
                   ELSE noGranulePosition
              /\ k.pages[m].granule # noGranulePosition <=> m = Len(k.pages)
              /\ k.pages[m].size > 0
  BY <1>k, <1>s, NextPageFacts
<1>g. /\ k.track \in DOMAIN tracks /\ t \in TrackState /\ s \in Nat
      /\ t.pageIndex \in Nat /\ t.previousGranulePosition \in Nat
      /\ PacketId(k) \in Nat /\ PacketId(k) <= Len(packets)
      /\ PacketId(k) = 0 \/ PacketId(k) = k.id
      /\ PacketId(k) = 0 <=> k.stage # "packet"
      /\ k.stage = "ids" => PageCount(PacketLength(k)) = 1
      /\ k.stage = "packet" => started /\ k.id \in DOMAIN packets /\ k.op = "write"
                               /\ packets[k.id].status = "pending"
                               /\ packets[k.id].track = k.track
                               /\ packets[k.id].samples \in Nat
      /\ k.stage # "packet" => ~started
  BY <1>e, <1>k, PacketFacts
<1>st. k.stage \in {"ids", "tags", "packet"}
  BY <1>e DEF Writing
<1>f. /\ e.page.serial = s /\ e.page.index = t.pageIndex + w
      /\ "eos" \notin e.page.flags /\ Ends(e) /\ e.page.size > 0
      /\ "bos" \in e.page.flags <=> k.stage = "ids"
      /\ e.page.granule = IF k.stage = "packet" THEN t.previousGranulePosition ELSE 0
  <2>1. /\ e.page.serial = s /\ e.page.index = t.pageIndex + n - 1
        /\ "eos" \notin e.page.flags /\ Ends(e) /\ e.page.size > 0
        /\ "bos" \in e.page.flags <=> (n = 1 /\ k.stage = "ids")
        /\ e.page.granule = IF k.stage = "packet" THEN t.previousGranulePosition ELSE 0
    BY <1>e, <1>pg DEF Ends
  <2>2. t.pageIndex + n - 1 = t.pageIndex + w
    BY <1>e, <1>s, <1>g
  <2>3. k.stage = "ids" => n = 1
    BY <1>e, <1>g
  <2> QED BY <2>1, <2>2, <2>3
<1>u. /\ u \in TrackState /\ u.serial = s /\ u.pageIndex = t.pageIndex + n
      /\ u.previousGranulePosition = t.previousGranulePosition
      /\ seekable => u.lastPageWritten /\ u.last = e
  BY <1>e, <1>g, <1>t, TrackCounted, SMTT(30)
<1>b. Behind(file', file, e)
  BY <1>s, <1>t, <1>e DEF Behind
<1>j. /\ j \in CallState /\ j.pages = << >> /\ j.written = 0
      /\ k.stage = "packet" => j = Idle
      /\ k.stage # "packet" =>
           /\ j.op = k.op /\ j.id = k.id /\ j.to = k.to
           /\ \/ /\ k.track < Len(tracks) /\ j.stage = k.stage
                 /\ j.track = k.track + 1 /\ k.track + 1 \in DOMAIN tracks
              \/ /\ k.track = Len(tracks) /\ k.stage = "ids" /\ 1 \in DOMAIN tracks
                 /\ j.stage = "tags" /\ j.track = 1
              \/ /\ k.track = Len(tracks) /\ k.stage = "tags"
                 /\ j.stage = "start" /\ j.track = 0
  <2>1. CASE k.stage = "packet"
    BY <2>1, <1>i
  <2>2. CASE k.stage # "packet"
    <3>1. j = NextHeader(k) /\ k.stage \in {"ids", "tags"}
      BY <2>2, <1>st
    <3>2. /\ Moved(j, k) /\ j.op = k.op
          /\ \/ /\ k.track < Len(tracks) /\ j.stage = k.stage
                 /\ j.track = k.track + 1 /\ k.track + 1 \in DOMAIN tracks
              \/ /\ k.track = Len(tracks) /\ k.stage = "ids" /\ 1 \in DOMAIN tracks
                 /\ j.stage = "tags" /\ j.track = 1
              \/ /\ k.track = Len(tracks) /\ k.stage = "tags"
                 /\ j.stage = "start" /\ j.track = 0
      BY <3>1, <1>k, <1>t, <1>g, NextHeaderState
    <3>3. j # Idle
      BY <3>1, <3>2, <1>i
    <3> QED BY <2>2, <3>2, <3>3 DEF Moved
  <2> QED BY <2>1, <2>2
<1> HIDE DEF e, w, j, u, n
<1>a. /\ Len(file) \in Nat /\ Len(file') = Len(file) + 1 /\ file' \in Seq(FileEntry)
      /\ DOMAIN file = 1..Len(file) /\ DOMAIN file' = 1..(Len(file) + 1)
      /\ \A m \in DOMAIN file : file'[m] = file[m]
      /\ file'[Len(file) + 1] = e
  BY <1>b, Appending
<1>x. call' \in [Callers -> CallState] /\ mu' \in Callers \cup {NoCaller}
      /\ Exclusive' /\ Cur' = j
  <2>1. Turn(c, j) /\ mu \in {c, NoCaller} /\ open'
    BY <1>s, <1>k, ResumeTurn
  <2> QED BY <2>1, <1>j, TakesTurn DEF Inv
<1>tr. /\ tracks' \in Seq(TrackState) /\ Len(tracks') = Len(tracks)
       /\ DOMAIN tracks' = DOMAIN tracks /\ TracksKept
       /\ \A i \in DOMAIN tracks : i # k.track => tracks'[i] = tracks[i]
       /\ tracks'[k.track] = u
  <2>1. /\ tracks' \in Seq(TrackState) /\ Len(tracks') = Len(tracks)
        /\ DOMAIN tracks' = DOMAIN tracks
        /\ \A i \in DOMAIN tracks : i # k.track => tracks'[i] = tracks[i]
        /\ tracks'[k.track] = u
    BY <1>s, <1>t, <1>u, <1>g
  <2> QED BY <2>1, <1>u DEF TracksKept
<1>p. /\ packets' \in Seq(SentPacket) /\ Len(packets') = Len(packets)
      /\ DOMAIN packets' = DOMAIN packets /\ PacketsKept
      /\ \A d \in DOMAIN packets : d # PacketId(k) => packets'[d] = packets[d]
      /\ PacketId(k) # 0 => packets'[PacketId(k)].status = "ok"
  BY <1>t, <1>g, <1>s, StatusSet
<1>gu. GivenUp' = GivenUp
  <2>1. ASSUME NEW id \in DOMAIN packets
        PROVE  packets'[id].status = "failed" <=> packets[id].status = "failed"
    <3>1. CASE id # PacketId(k)
      BY <3>1, <1>p
    <3>2. CASE id = PacketId(k)
      <4>1. PacketId(k) # 0
        BY <3>2, <1>t
      <4> QED BY <3>2, <4>1, <1>p, <1>g
    <3> QED BY <3>1, <3>2
  <2> QED BY <2>1, <1>p, <1>s DEF GivenUp
<1>v. Purpose(k) /\ Written(k)
  BY <1>k DEF Inv
<1>1. TypeOK'
  BY <1>s, <1>x, <1>a, <1>tr, <1>p DEF Inv, TypeOK
<1>2. Serials'
  BY <1>b, <1>p, <1>tr, <1>f, <1>g, SerialsAppended DEF Inv
<1>3. Layout'
  BY <1>b, <1>e, <1>f, AppendLayout DEF Inv
<1>4. Purpose(Cur)'
  <2>1. CASE k.stage = "packet"
    BY <2>1, <1>x, <1>j, <1>i DEF Purpose
  <2>2. CASE k.stage # "packet"
    <3>1. packets' = packets
      BY <2>2, <1>s, <1>g DEF SetStatus
    <3>2. k.op # "none"
      BY <1>v, <1>k DEF Purpose
    <3> QED BY <2>2, <3>1, <3>2, <1>x, <1>j, <1>v, <1>s, <1>st, <1>tr DEF Purpose
  <2> QED BY <2>1, <2>2
<1>5. Made(Cur)'
  BY <1>x, <1>j DEF Made
<1>6. Written(Cur)'
  <2>1. \A m \in DOMAIN file' : file'[m].id <= Len(packets')
    BY <1>v, <1>a, <1>e, <1>g, <1>p DEF Written
  <2>2. 0 <= Len(file') /\ 1..0 = {} /\ \A m \in DOMAIN file' : ~(m > Len(file') - 0)
    BY <1>a
  <2>3. ASSUME j.op = "write", NEW m \in DOMAIN file' PROVE file'[m].id # j.id
    <3>1. k.stage # "packet" /\ k.op = "write" /\ j.id = k.id
      BY <2>3, <1>j, <1>i
    <3>2. CASE m \in DOMAIN file
      BY <3>1, <3>2, <1>v, <1>a DEF Written
    <3>3. CASE m = Len(file) + 1
      <4>1. k.id # 0
        BY <3>1, <1>v, <1>t DEF Purpose
      <4> QED BY <3>1, <3>3, <4>1, <1>a, <1>e, <1>g
    <3> QED BY <3>2, <3>3, <1>a
  <2> QED BY <2>1, <2>2, <2>3, <1>x, <1>j DEF Written
<1>7. PacketsWhole'
  <2>1. SUFFICES ASSUME NEW id \in DOMAIN packets, packets'[id].status = "ok",
                        "eos" \notin errors
        PROVE  \E a \in DOMAIN file' :
                 WholeFrom(file', a, tracks'[packets'[id].track].serial, id,
                           packets'[id].len)
    BY <1>s, <1>p DEF PacketsWhole
  <2>2. CASE id # PacketId(k)
    <3>1. packets[id].status = "ok" /\ e.id # id
      BY <2>1, <2>2, <1>p, <1>e
    <3> QED BY <2>1, <3>1, <1>b, <1>t, <1>tr, <1>p, WholeAppended DEF Inv
  <2>3. CASE id = PacketId(k)
    <3>1. id = k.id /\ k.stage = "packet"
      BY <2>3, <1>g, <1>t
    <3>2. WholeFrom(file', Len(file) - k.written + 1, tracks[k.track].serial, k.id,
                   packets[k.id].len)
      BY <3>1, <1>k, <1>s, <1>b, LastPageWhole DEF e, w, n
    <3>3. /\ packets'[id].len = packets[k.id].len /\ packets'[id].track = k.track
          /\ tracks'[k.track].serial = tracks[k.track].serial
      BY <3>1, <1>p, <1>g, <1>tr DEF PacketsKept, TracksKept
    <3>4. Len(file) - k.written + 1 \in DOMAIN file'
      BY <3>2 DEF WholeFrom
    <3> QED BY <3>1, <3>2, <3>3, <3>4
  <2> QED BY <2>2, <2>3
<1>o. \A i \in DOMAIN tracks : i # k.track => tracks[i].serial # s
  BY <1>g DEF Inv, Serials
<1>sp. ASSUME NEW i \in DOMAIN tracks, i # k.track
       PROVE  /\ \A lost : Numbered(file, tracks[i].serial, lost) =>
                             Numbered(file', tracks[i].serial, lost)
              /\ \A x, lost : Expects(file, tracks[i].serial, x, lost) =>
                                Expects(file', tracks[i].serial, x, lost)
              /\ \A x : Past(file, tracks[i].serial, x) => Past(file', tracks[i].serial, x)
              /\ \A ps : Growing(file, tracks[i].serial, ps) =>
                           Growing(file', tracks[i].serial, ps)
              /\ \A x : Until(file, tracks[i].serial, x) =>
                          Until(file', tracks[i].serial, x)
              /\ NoEOS(file, tracks[i].serial) => NoEOS(file', tracks[i].serial)
              /\ Noted(file, tracks[i]) => Noted(file', tracks[i])
  <2> DEFINE q == tracks[i].serial
  <2>1. e.page.serial # q
    BY <1>sp, <1>o, <1>f
  <2> HIDE DEF q
  <2>2. /\ Of(file', q) = Of(file, q) /\ Complete(file', q) = Complete(file, q)
        /\ \A m \in Of(file, q) : file'[m] = file[m]
        /\ \A m \in Complete(file, q) : file'[m] = file[m]
    BY <2>1, <1>b, AppendOther
  <2>3. /\ \A lost : Numbered(file', q, lost) <=> Numbered(file, q, lost)
        /\ \A x, lost : Expects(file', q, x, lost) <=> Expects(file, q, x, lost)
        /\ \A x : Past(file', q, x) <=> Past(file, q, x)
        /\ \A ps : Growing(file', q, ps) <=> Growing(file, q, ps)
        /\ \A x : Until(file', q, x) <=> Until(file, q, x)
        /\ NoEOS(file', q) <=> NoEOS(file, q)
        /\ \A x : x.serial = q => (Noted(file', x) <=> Noted(file, x))
    BY <2>2, SamePages
  <2>4. Noted(file', tracks[i]) <=> Noted(file, tracks[i])
    BY <2>3 DEF q
  <2> QED BY <2>3, <2>4 DEF q
<1>gr. /\ Growing(file', s, packets')
       /\ Until(file', s, t.previousGranulePosition)
       /\ Past(file', s, t.pageIndex + n)
  <2> DEFINE g == t.previousGranulePosition - Underway(k.track)
             h == t.previousGranulePosition
             x == t.pageIndex
  <2>1. /\ Growing(file, s, packets) /\ Until(file, s, g) /\ (~started => h = 0)
        /\ Past(file, s, x)
    BY <1>g DEF Inv, Granules, Numbers
  <2>2. Growing(file, s, packets')
    <3>1. \A m \in DOMAIN file : file[m].id <= Len(packets)
      BY <1>v DEF Written
    <3> QED BY <2>1, <3>1, <1>t, <1>p, GrowingKept
  <2>3. Underway(k.track) = IF k.stage = "packet" THEN packets[k.id].samples ELSE 0
    BY <1>k, <1>s DEF Underway
  <2>4. e.page.granule = h
    BY <2>1, <1>f, <1>g
  <2>5. /\ g \in Int /\ g <= e.page.granule
        /\ e.id > 0 => /\ packets'[e.id].samples \in Nat
                       /\ g + packets'[e.id].samples <= e.page.granule
    <3>1. CASE k.stage = "packet"
      <4>1. e.id = k.id /\ packets'[e.id].samples = packets[k.id].samples
        BY <3>1, <1>e, <1>g, <1>p DEF PacketsKept
      <4> QED BY <3>1, <4>1, <2>3, <2>4, <1>g
    <3>2. CASE k.stage # "packet"
      <4>1. e.id = 0
        BY <3>2, <1>e, <1>g
      <4> QED BY <3>2, <4>1, <2>3, <2>4, <1>g
    <3> QED BY <3>1, <3>2
  <2>6. /\ x \in Nat /\ x + n \in Nat /\ x <= x + n /\ e.page.index < x + n
    BY <1>f, <1>g, <1>s, <1>e
  <2> DEFINE y == x + n
  <2>y. /\ y \in Nat /\ x <= y /\ e.page.index < y
    BY <2>6
  <2> HIDE DEF g, h, x, y
  <2>7. Growing(file', s, packets') /\ Until(file', s, e.page.granule)
        /\ Past(file', s, y)
    BY <2>1, <2>2, <2>5, <2>6, <2>y, <1>b, <1>f, AppendEndGrows
  <2> QED BY <2>4, <2>7 DEF h, x, y
<1>8. Numbers'
  <2>1. SUFFICES ASSUME NEW i \in DOMAIN tracks
        PROVE  /\ Past(file', tracks'[i].serial, tracks'[i].pageIndex)
               /\ "eos" \notin errors =>
                    /\ Numbered(file', tracks'[i].serial, GivenUp)
                    /\ Expects(file', tracks'[i].serial, tracks'[i].pageIndex + 0,
                         GivenUp)
    BY <1>s, <1>x, <1>j, <1>tr, <1>gu DEF Numbers
  <2>2. /\ Past(file, tracks[i].serial, tracks[i].pageIndex)
        /\ "eos" \notin errors =>
             /\ Numbered(file, tracks[i].serial, GivenUp)
             /\ Expects(file, tracks[i].serial,
                  tracks[i].pageIndex + (IF k.track = i THEN k.written ELSE 0),
                  GivenUp)
    BY <1>k DEF Inv, Numbers
  <2>4. CASE i = k.track
    <3>0. tracks'[i].serial = s /\ tracks'[i].pageIndex = t.pageIndex + n
          /\ tracks'[i].pageIndex + 0 = e.page.index + 1
      <4>1. tracks'[i].serial = s /\ tracks'[i].pageIndex = t.pageIndex + n
        BY <2>4, <1>tr, <1>u
      <4>2. t.pageIndex + n + 0 = t.pageIndex + w + 1
        <5>1. w + 1 = n /\ w \in Nat /\ n \in Nat /\ t.pageIndex \in Nat
          BY <1>s, <1>e, <1>g
        <5> QED BY <5>1
      <4> QED BY <4>1, <4>2, <1>f
    <3>1. ASSUME "eos" \notin errors
          PROVE  Numbered(file', s, GivenUp)
                 /\ Expects(file', s, e.page.index + 1, GivenUp)
      <4>1. Numbered(file, s, GivenUp) /\ Expects(file, s, e.page.index, GivenUp)
        BY <2>2, <2>4, <3>1, <1>f DEF w
      <4>2. MayFollow(e, e.page.index + 1, GivenUp)
        BY DEF MayFollow
      <4> QED BY <4>1, <4>2, <1>b, <1>f, AppendNumber
    <3> QED BY <3>0, <3>1, <1>gr
  <2>5. CASE i # k.track
    BY <2>2, <2>5, <1>sp, <1>tr
  <2> QED BY <2>4, <2>5
<1>9. Granules'
  <2>1. \A i : Underway(i)' = 0
    BY <1>x, <1>j DEF Underway
  <2>2. ASSUME NEW i \in DOMAIN tracks
        PROVE  /\ Growing(file', tracks'[i].serial, packets')
               /\ Until(file', tracks'[i].serial,
                        tracks'[i].previousGranulePosition - 0)
               /\ ~started => tracks'[i].previousGranulePosition = 0
    <3>1. CASE i = k.track
      <4>1. ~started => t.previousGranulePosition = 0
        BY <1>g DEF Inv, Granules
      <4> QED BY <3>1, <4>1, <1>tr, <1>u, <1>gr, <1>g
    <3>2. CASE i # k.track
      <4>1. /\ Growing(file, tracks[i].serial, packets)
            /\ Until(file, tracks[i].serial,
                     tracks[i].previousGranulePosition - Underway(i))
            /\ ~started => tracks[i].previousGranulePosition = 0
        BY DEF Inv, Granules
      <4>2. Underway(i) = 0
        BY <3>2, <1>k DEF Underway
      <4>3. Growing(file, tracks[i].serial, packets')
        <5>1. \A m \in DOMAIN file : file[m].id <= Len(packets)
          BY <1>v DEF Written
        <5> QED BY <4>1, <5>1, <1>t, <1>p, GrowingKept
      <4> QED BY <3>2, <4>1, <4>2, <4>3, <1>sp, <1>tr
    <3> QED BY <3>1, <3>2
  <2> QED BY <2>1, <2>2, <1>s, <1>tr DEF Granules
<1>10. EndOfStream'
  <2>1. \A i : ~Through(i) /\ ~Through(i)'
    BY <1>st, <1>s, <1>x, <1>j, <1>i, <1>k DEF Through
  <2>2. ASSUME NEW i \in DOMAIN tracks
        PROVE  /\ NoEOS(file', tracks'[i].serial)
               /\ seekable => Noted(file', tracks'[i])
    <3>1. NoEOS(file, tracks[i].serial) /\ (seekable => Noted(file, tracks[i]))
      BY <2>1 DEF Inv, EndOfStream
    <3>2. CASE i = k.track
      <4>1. NoEOS(file', s)
        BY <3>1, <3>2, <1>b, <1>f, AppendEnd
      <4>2. seekable => Noted(file', u)
        BY <1>b, <1>f, <1>e, <1>u, AppendEndNoted
      <4> QED BY <3>2, <4>1, <4>2, <1>tr, <1>u
    <3>3. CASE i # k.track
      BY <3>1, <3>3, <1>sp, <1>tr
    <3> QED BY <3>2, <3>3
  <2> QED BY <2>1, <2>2, <1>s, <1>tr DEF EndOfStream
<1>11. Headers'
  <2>1. SUFFICES ASSUME errors \cap {"header", "eos"} = {} PROVE Headers'
    BY <1>s DEF Headers
  <2>2. HeadersFirst
        /\ IF started THEN \A i \in DOMAIN tracks : Tagged(i)
           ELSE /\ \A m \in DOMAIN file : file[m].id <= 0
                /\ k.stage = "ids" => Len(file) = k.track - 1
                /\ k.stage = "tags" => \A i \in 1..(k.track - 1) : Tagged(i)
                /\ k.stage = "tags" => Len(file) >= Len(tracks)
    BY <2>1, <1>k DEF Inv, Headers
  <2>3. k.stage # "ids" => Len(tracks) < Len(file) + 1
    <3>1. CASE started
      BY <3>1, <2>2, <1>g, <1>t, TaggedLong
    <3>2. CASE ~started /\ k.stage = "tags"
      BY <3>2, <2>2, <1>t
    <3> QED BY <3>1, <3>2, <1>g, <1>st
  <2>4. k.stage = "ids" => Len(file) + 1 = k.track /\ k.track <= Len(tracks)
    BY <2>2, <1>g, <1>t
  <2>5. /\ "bos" \in e.page.flags <=> Len(file) + 1 <= Len(tracks)
        /\ Len(file) + 1 <= Len(tracks) => e.page.serial = tracks[Len(file) + 1].serial
    <3>1. CASE k.stage = "ids"
      BY <3>1, <2>4, <1>f
    <3>2. CASE k.stage # "ids"
      BY <3>2, <2>3, <1>f, <1>t
    <3> QED BY <3>1, <3>2
  <2>6. e.id > 0 => \A i \in DOMAIN tracks : Tagged(i)
    BY <2>2, <1>e, <1>g
  <2>7. /\ HeadersFirst' /\ \A i \in DOMAIN tracks : Tagged(i) => Tagged(i)'
        /\ \A i \in DOMAIN tracks :
              (/\ e.page.serial = tracks[i].serial /\ Ends(e) /\ e.id = 0
               /\ Len(tracks) < Len(file) + 1) => Tagged(i)'
    BY <2>1, <2>2, <2>5, <2>6, <1>b, <1>t, <1>tr, <1>s, HeadersAppended
  <2>8. CASE started
    BY <2>2, <2>7, <2>8, <1>s, <1>tr DEF Headers
  <2>9. ASSUME ~started PROVE \A m \in DOMAIN file' : file'[m].id <= 0
    <3>1. e.id = 0
      BY <2>9, <1>e, <1>g
    <3> QED BY <3>1, <2>2, <2>9, <1>a
  <2>10. CASE ~started /\ k.stage = "ids"
    <3>1. \/ j.stage = "ids" /\ j.track = k.track + 1
          \/ j.stage = "tags" /\ j.track = 1 /\ k.track = Len(tracks)
      BY <2>10, <1>j
    <3>2. Len(file') = k.track /\ k.track \in Nat
      BY <2>4, <2>10, <1>a, <1>g, <1>t
    <3>3. 1..(1 - 1) = {} /\ Len(file') = k.track + 1 - 1
      BY <3>2
    <3>4. k.track = Len(tracks) => Len(file') >= Len(tracks')
      BY <3>2, <1>tr, <1>t
    <3>7. j.stage = "tags" => \A i : i \notin 1..(j.track - 1)
      <4>1. j.stage = "tags" => j.track = 1
        BY <3>1
      <4> QED BY <4>1
    <3>8. j.stage = "ids" => Len(file') = j.track - 1
      BY <3>1, <3>2
    <3>5. /\ j.stage = "ids" => Len(file') = j.track - 1
          /\ j.stage = "tags" => \A i \in 1..(j.track - 1) : Tagged(i)'
          /\ j.stage = "tags" => Len(file') >= Len(tracks')
          /\ j.stage \in {"ids", "tags"}
      BY <3>1, <3>4, <3>7, <3>8
    <3>6. ~started' /\ \A m \in DOMAIN file' : file'[m].id <= 0
      BY <2>9, <2>10, <1>s
    <3> QED BY <2>7, <3>5, <3>6, <1>x DEF Headers
  <2>11. CASE ~started /\ k.stage = "tags"
    <3>1. \/ j.stage = "tags" /\ j.track = k.track + 1
          \/ j.stage = "start" /\ k.track = Len(tracks)
      BY <2>11, <1>j
    <3>2. \A i \in DOMAIN tracks : i = k.track => Tagged(i)'
      BY <2>3, <2>7, <2>11, <1>e, <1>f, <1>g
    <3>3. \A i \in 1..k.track : Tagged(i)'
      <4>1. \A i \in 1..k.track : i \in DOMAIN tracks /\ (i \in 1..(k.track - 1) \/ i = k.track)
        BY <1>g, <1>t
      <4> QED BY <4>1, <3>2, <2>2, <2>7, <2>11
    <3>4. /\ 1..(k.track + 1 - 1) = 1..k.track
          /\ k.track = Len(tracks) => DOMAIN tracks' = 1..k.track
          /\ Len(file') >= Len(tracks')
      BY <2>3, <2>11, <1>g, <1>t, <1>tr, <1>a
    <3>7. j.stage = "tags" => 1..(j.track - 1) = 1..k.track
      <4>1. k.track \in Nat
        BY <1>g, <1>t
      <4> QED BY <3>1, <4>1
    <3>5. /\ j.stage = "tags" => \A i \in 1..(j.track - 1) : Tagged(i)'
          /\ j.stage = "start" => \A i \in DOMAIN tracks' : Tagged(i)'
          /\ Len(file') >= Len(tracks')
          /\ j.stage \in {"tags", "start"}
      BY <3>1, <3>3, <3>4, <3>7
    <3>6. ~started' /\ \A m \in DOMAIN file' : file'[m].id <= 0
      BY <2>9, <2>11, <1>s
    <3> QED BY <2>7, <3>5, <3>6, <1>x DEF Headers
  <2> QED BY <2>8, <2>10, <2>11, <1>g, <1>st
<1> QED BY <1>1, <1>2, <1>3, <1>4, <1>5, <1>6, <1>7, <1>8, <1>9, <1>10, <1>11, <1>x DEF Inv

(* What a failing write leaves.                                            *)
Fragment == Entry(Junk(1), FileSize, -1)

LEMMA FragmentFacts ==
  ASSUME file \in Seq(FileEntry)
  PROVE  /\ Fragment \in FileEntry /\ Fragment.page.serial = -1 /\ Fragment.id = -1
         /\ Fragment.page.flags = {} /\ ~Ends(Fragment) /\ Fragment.at = FileSize
         /\ Fragment.page.size > 0
<1>1. FileSize \in Nat
  BY FileSizeType
<1>2. Junk(1) \in Page /\ Junk(1).serial = -1 /\ Junk(1).flags = {}
      /\ Junk(1).granule = noGranulePosition /\ Junk(1).size = 1
  BY Capacity DEF Junk, Page
<1>3. Fragment \in FileEntry /\ Fragment.page = Junk(1) /\ Fragment.at = FileSize
      /\ Fragment.id = -1
  BY <1>1, <1>2 DEF Fragment, Entry, FileEntry
<1> QED BY <1>2, <1>3 DEF Ends

(* A fragment, or nothing, is written.                                     *)
LEMMA FragmentLeft ==
  ASSUME file \in Seq(FileEntry), Layout, file' \in {file, Append(file, Fragment)}
  PROVE  /\ file' \in Seq(FileEntry) /\ Layout'
         /\ \A m \in DOMAIN file' :
              \/ m \in DOMAIN file /\ file'[m] = file[m]
              \/ /\ file'[m].id = -1 /\ file'[m].page.serial = -1
                 /\ m > Len(file)
         /\ \A s \in Nat :
              /\ Of(file', s) = Of(file, s) /\ Complete(file', s) = Complete(file, s)
              /\ \A m \in Of(file, s) : file'[m] = file[m]
              /\ \A m \in Complete(file, s) : file'[m] = file[m]
         /\ \A a, s : \A id \in Nat : \A len \in Nat :
              WholeFrom(file, a, s, id, len) => WholeFrom(file', a, s, id, len)
<1>1. CASE file' = file
  BY <1>1 DEF Layout
<1>2. CASE file' = Append(file, Fragment)
  <2> DEFINE e == Fragment
  <2>1. /\ e \in FileEntry /\ e.page.serial = -1 /\ e.id = -1
        /\ ~Ends(e) /\ e.at = FileSize /\ e.page.size > 0
    BY FragmentFacts
  <2> HIDE DEF e
  <2>2. Behind(file', file, e)
    BY <1>2, <2>1 DEF Behind, e
  <2>3. /\ Len(file) \in Nat /\ Len(file') = Len(file) + 1 /\ file' \in Seq(FileEntry)
        /\ DOMAIN file = 1..Len(file) /\ DOMAIN file' = 1..(Len(file) + 1)
        /\ \A m \in DOMAIN file : file'[m] = file[m]
        /\ file'[Len(file) + 1] = e
    BY <2>2, Appending
  <2>4. Layout'
    BY <2>1, <2>2, AppendLayout
  <2>5. \A m \in DOMAIN file' :
          \/ m \in DOMAIN file /\ file'[m] = file[m]
          \/ /\ file'[m].id = -1 /\ file'[m].page.serial = -1
             /\ m > Len(file)
    BY <2>1, <2>3
  <2>6. ASSUME NEW s \in Nat
        PROVE  /\ Of(file', s) = Of(file, s) /\ Complete(file', s) = Complete(file, s)
               /\ \A m \in Of(file, s) : file'[m] = file[m]
               /\ \A m \in Complete(file, s) : file'[m] = file[m]
    <3>1. e.page.serial # s
      BY <2>1
    <3> QED BY <3>1, <2>2, AppendOther
  <2>7. ASSUME NEW a, NEW s, NEW id \in Nat, NEW len \in Nat,
               WholeFrom(file, a, s, id, len)
        PROVE  WholeFrom(file', a, s, id, len)
    <3>1. e.id # id
      BY <2>1
    <3> QED BY <3>1, <2>2, <2>7, AppendWhole
  <2> QED BY <2>3, <2>4, <2>5, <2>6, <2>7
<1> QED BY <1>1, <1>2

(* Whatever was in the file about a serial still is.                       *)
LEMMA FragmentTracks ==
  ASSUME file \in Seq(FileEntry), Layout, file' \in {file, Append(file, Fragment)},
         NEW s \in Nat
  PROVE  /\ \A lost : Numbered(file, s, lost) => Numbered(file', s, lost)
         /\ \A n, lost : Expects(file, s, n, lost) => Expects(file', s, n, lost)
         /\ \A n : Past(file, s, n) => Past(file', s, n)
         /\ \A ps : Growing(file, s, ps) => Growing(file', s, ps)
         /\ \A g : Until(file, s, g) => Until(file', s, g)
         /\ NoEOS(file, s) => NoEOS(file', s)
         /\ Ended(file, s) => Ended(file', s)
         /\ \A t : t.serial = s => (Noted(file, t) => Noted(file', t))
<1>1. /\ Of(file', s) = Of(file, s) /\ Complete(file', s) = Complete(file, s)
      /\ \A m \in Of(file, s) : file'[m] = file[m]
      /\ \A m \in Complete(file, s) : file'[m] = file[m]
  BY FragmentLeft
<1>2. /\ \A lost : Numbered(file', s, lost) <=> Numbered(file, s, lost)
      /\ \A n, lost : Expects(file', s, n, lost) <=> Expects(file, s, n, lost)
      /\ \A n : Past(file', s, n) <=> Past(file, s, n)
      /\ \A ps : Growing(file', s, ps) <=> Growing(file, s, ps)
      /\ \A g : Until(file', s, g) <=> Until(file, s, g)
      /\ NoEOS(file', s) <=> NoEOS(file, s)
      /\ Ended(file', s) <=> Ended(file, s)
      /\ \A t : t.serial = s => (Noted(file', t) <=> Noted(file, t))
  BY <1>1, SamePages
<1> QED BY <1>2

(* A packet given up in the middle: its pages may be numbered again.       *)
LEMMA GivenUpExpects ==
  ASSUME Inv, NEW k, k = Cur, k.pages # << >>, NEW lost, PacketId(k) \in lost,
         k.written > 0
  PROVE  Expects(file, tracks[k.track].serial, tracks[k.track].pageIndex, lost)
<1> DEFINE w == k.written
           L == Len(file)
           s == tracks[k.track].serial
           x == tracks[k.track].pageIndex
<1>1. /\ Writing(k) /\ w \in Nat /\ w < Len(k.pages) /\ Len(k.pages) \in Nat
      /\ \A m \in 1..Len(k.pages) :
              /\ k.pages[m].serial = s
              /\ k.pages[m].index = x + m - 1
              /\ k.pages[m].granule # noGranulePosition <=> m = Len(k.pages)
  BY NextPageFacts
<1>2. x \in Nat
  BY <1>1, PacketFacts
<1>3. Written(k) /\ file \in Seq(FileEntry)
  BY DEF Inv, TypeOK
<1>4. /\ w <= L /\ L \in Nat /\ DOMAIN file = 1..L
      /\ \A m \in 1..w : file[L - w + m].page = k.pages[m]
                         /\ file[L - w + m].id = PacketId(k)
  BY <1>3 DEF Written
<1> HIDE DEF w, L, s, x
<1>5. w \in 1..w /\ w \in 1..Len(k.pages) /\ L - w + w = L /\ w # Len(k.pages)
  BY <1>1, <1>4 DEF w
<1>6. file[L].page = k.pages[w] /\ file[L].id = PacketId(k)
  <2>1. file[L - w + w].page = k.pages[w] /\ file[L - w + w].id = PacketId(k)
    BY <1>4, <1>5
  <2> QED BY <2>1, <1>5
<1>7. L \in Of(file, s)
  <2>1. L \in DOMAIN file
    BY <1>1, <1>4, <1>5
  <2> QED BY <2>1, <1>1, <1>5, <1>6 DEF Of
<1>8. MayFollow(file[L], x, lost)
  <2>1. ~Ends(file[L])
    BY <1>1, <1>5, <1>6 DEF Ends
  <2>2. file[L].page.index = x + w - 1 /\ w >= 1
    BY <1>1, <1>5, <1>6
  <2>3. x <= file[L].page.index
    BY <2>2, <1>1, <1>2
  <2> QED BY <2>1, <2>3, <1>6 DEF MayFollow
<1>9. ASSUME NEW j \in Of(file, s), \A m \in Of(file, s) : m <= j PROVE j = L
  <2>1. j \in 1..L /\ L <= j
    BY <1>4, <1>7, <1>9 DEF Of
  <2> QED BY <2>1, <1>4
<1> QED BY <1>7, <1>8, <1>9 DEF Expects, s, x

LEMMA PageFailsInv ==
  ASSUME Inv, NEW c \in Callers, PageFails(c), UNCHANGED <<single, seekable>>
  PROVE  Inv'
<1> DEFINE k == call[c]
           j == IF k.op = "close" THEN Ending(k) ELSE Idle
<1>t. /\ tracks \in Seq(TrackState) /\ file \in Seq(FileEntry)
      /\ packets \in Seq(SentPacket) /\ call \in [Callers -> CallState]
      /\ Layout
  BY DEF Inv, TypeOK
<1>s. /\ k.pages # << >>
      /\ failures \in Nat /\ failures' = failures + 1
      /\ file' \in {file, Append(file, Fragment)}
      /\ errors' = errors \cup {IF PacketId(k) = 0 THEN "header" ELSE "packet"}
      /\ SetStatus(k.id, IF k.stage = "packet" THEN "failed" ELSE "refused")
      /\ Resume(c, j)
      /\ open' = (k.op # "new") /\ started' = started /\ tracks' = tracks
      /\ single' = single /\ seekable' = seekable
  BY DEF PageFails, Abandon, Fragment, Inv, TypeOK
<1>i. /\ Idle.op = "none" /\ Idle.stage = "idle" /\ Idle.track = 0 /\ Idle.id = 0
      /\ Idle.pages = << >> /\ Idle.written = 0 /\ Idle \in CallState
  BY IdleState
<1>k. mu = c /\ Cur = k /\ open /\ k \in CallState /\ k # Idle
  <2>1. k # Idle
    BY <1>s, <1>i
  <2> QED BY <2>1, Holding DEF Inv
<1> HIDE DEF k
<1>e. Writing(k) /\ k.written \in Nat
  BY <1>k, <1>s, NextPageFacts
<1>st. k.stage \in {"ids", "tags", "packet"}
  BY <1>e DEF Writing
<1>g. /\ k.track \in DOMAIN tracks
      /\ PacketId(k) = 0 \/ PacketId(k) = k.id
      /\ PacketId(k) = 0 <=> k.stage # "packet"
      /\ k.stage = "packet" => started /\ k.id \in DOMAIN packets /\ k.op = "write"
      /\ k.stage # "packet" => ~started
  BY <1>e, <1>k, PacketFacts
<1>v. Purpose(k) /\ Written(k)
  BY <1>k DEF Inv
<1>j. /\ j \in CallState /\ j.pages = << >> /\ j.written = 0
      /\ \/ j = Idle /\ k.op # "close"
         \/ /\ j.op = "close" /\ k.op = "close" /\ j.id = 0
            /\ \/ j.stage = "eos" /\ j.track = 1 /\ 1 \in DOMAIN tracks
               \/ j.stage = "close" /\ single /\ ~seekable
  <2>1. CASE k.op = "close"
    <3>1. j = Ending(k)
      BY <2>1
    <3>2. /\ Moved(j, k) /\ j.op = "close" /\ j.stage \in {"eos", "close"}
          /\ j.stage = "eos" => j.track = 1 /\ 1 \in DOMAIN tracks
          /\ j.stage = "close" => tracks = << >> \/ (single /\ ~seekable)
      BY <2>1, <3>1, <1>k, <1>t, EndingState
    <3>3. tracks # << >>
      BY <1>g
    <3>4. j # Idle /\ k.id = 0
      BY <2>1, <3>2, <1>i, <1>v DEF Purpose
    <3> QED BY <2>1, <3>2, <3>3, <3>4 DEF Moved
  <2>2. CASE k.op # "close"
    BY <2>2, <1>i
  <2> QED BY <2>1, <2>2
<1> HIDE DEF j
<1>x. call' \in [Callers -> CallState] /\ mu' \in Callers \cup {NoCaller}
      /\ Exclusive' /\ Cur' = j
  <2>1. Turn(c, j) /\ mu \in {c, NoCaller}
    BY <1>s, <1>k, ResumeTurn
  <2>2. open' \/ j = Idle
    BY <1>s, <1>j
  <2> QED BY <2>1, <2>2, <1>j, TakesTurn DEF Inv
<1>pid. k.id = 0 \/ (k.id \in DOMAIN packets /\ packets[k.id].status = "pending")
  BY <1>v DEF Purpose
<1>p. /\ packets' \in Seq(SentPacket) /\ Len(packets') = Len(packets)
      /\ DOMAIN packets' = DOMAIN packets /\ PacketsKept /\ NoneDone
      /\ k.id # 0 /\ k.stage = "packet" => packets'[k.id].status = "failed"
  BY <1>t, <1>pid, <1>s, StatusSet
<1>tr. TracksKept
  BY <1>s DEF TracksKept
<1>gu. GivenUp \subseteq GivenUp' /\ PacketId(k) \in GivenUp'
  <2>1. GivenUp \subseteq GivenUp'
    BY <1>p, <1>s, GivenUpGrows
  <2>2. CASE k.stage = "packet"
    <3>1. PacketId(k) = k.id /\ k.id \in DOMAIN packets' /\ k.id # 0
      BY <2>2, <1>g, <1>p, <1>t
    <3> QED BY <2>1, <2>2, <3>1, <1>p DEF GivenUp
  <2>3. CASE k.stage # "packet"
    <3>1. PacketId(k) = 0 /\ "header" \in errors'
      BY <2>3, <1>g, <1>s
    <3> QED BY <2>1, <3>1 DEF GivenUp
  <2> QED BY <2>2, <2>3
<1>a. /\ file' \in Seq(FileEntry) /\ Layout'
      /\ \A m \in DOMAIN file' :
           \/ m \in DOMAIN file /\ file'[m] = file[m]
           \/ file'[m].id = -1 /\ file'[m].page.serial = -1
  BY <1>t, <1>s, FragmentLeft
<1>ser. \A i \in DOMAIN tracks : tracks[i].serial \in Nat
                                /\ tracks[i].pageIndex \in Nat
                                /\ tracks[i].previousGranulePosition \in Nat
  <2>1. \A i \in DOMAIN tracks : tracks[i] \in TrackState
    BY <1>t
  <2> QED BY <2>1 DEF TrackState
<1>1. TypeOK'
  <2>1. failures' \in Nat /\ open' \in BOOLEAN
    BY <1>s
  <2>2. errors' \subseteq {"header", "packet", "eos"}
    BY <1>s DEF Inv, TypeOK
  <2> QED BY <2>1, <2>2, <1>s, <1>x, <1>a, <1>p DEF Inv, TypeOK
<1>2. Serials'
  BY <1>a, <1>p, <1>s DEF Inv, Serials, PacketsKept
<1>4. Purpose(Cur)'
  BY <1>x, <1>j, <1>i, <1>s DEF Purpose
<1>5. Made(Cur)'
  BY <1>x, <1>j DEF Made
<1>6. Written(Cur)'
  <2>1. \A m \in DOMAIN file' : file'[m].id <= Len(packets')
    <3>1. Len(packets) \in Nat /\ \A m \in DOMAIN file : file[m].id <= Len(packets)
      BY <1>t, <1>v DEF Written
    <3> QED BY <3>1, <1>a, <1>p
  <2>2. 0 <= Len(file') /\ 1..0 = {}
    BY <1>a
  <2> QED BY <2>1, <2>2, <1>x, <1>j, <1>i DEF Written
<1>7. PacketsWhole'
  <2>1. SUFFICES ASSUME NEW id \in DOMAIN packets, packets[id].status = "ok",
                        "eos" \notin errors
        PROVE  \E a \in DOMAIN file' :
                 WholeFrom(file', a, tracks[packets[id].track].serial, id,
                           packets[id].len)
    BY <1>s, <1>p DEF PacketsWhole, NoneDone, PacketsKept
  <2>2. PICK a \in DOMAIN file :
          WholeFrom(file, a, tracks[packets[id].track].serial, id, packets[id].len)
    BY <2>1 DEF Inv, PacketsWhole
  <2>3. packets[id].len \in Nat /\ id \in Nat
    <3>1. packets[id] \in SentPacket
      BY <1>t
    <3> QED BY <3>1, <1>t DEF SentPacket
  <2>4. WholeFrom(file', a, tracks[packets[id].track].serial, id, packets[id].len)
    BY <2>2, <2>3, <1>t, <1>s, FragmentLeft
  <2> QED BY <2>4 DEF WholeFrom
<1>8. Numbers'
  <2>1. SUFFICES ASSUME NEW i \in DOMAIN tracks
        PROVE  /\ Past(file', tracks[i].serial, tracks[i].pageIndex)
               /\ "eos" \notin errors =>
                    /\ Numbered(file', tracks[i].serial, GivenUp')
                    /\ Expects(file', tracks[i].serial, tracks[i].pageIndex + 0,
                         GivenUp')
    BY <1>s, <1>x, <1>j DEF Numbers
  <2>2. /\ Past(file, tracks[i].serial, tracks[i].pageIndex)
        /\ "eos" \notin errors =>
             /\ Numbered(file, tracks[i].serial, GivenUp)
             /\ Expects(file, tracks[i].serial,
                  tracks[i].pageIndex + (IF k.track = i THEN k.written ELSE 0),
                  GivenUp)
    BY <1>k DEF Inv, Numbers
  <2>3. tracks[i].pageIndex + 0 = tracks[i].pageIndex
    BY <1>ser
  <2>4. "eos" \notin errors =>
          Expects(file, tracks[i].serial, tracks[i].pageIndex + 0, GivenUp')
    <3>1. CASE k.track = i /\ k.written > 0
      <4>1. Expects(file, tracks[k.track].serial, tracks[k.track].pageIndex, GivenUp')
        BY <3>1, <1>k, <1>s, <1>gu, GivenUpExpects
      <4> QED BY <3>1, <4>1, <2>3
    <3>2. CASE ~(k.track = i /\ k.written > 0)
      <4>1. (IF k.track = i THEN k.written ELSE 0) = 0
        BY <3>2, <1>e
      <4> QED BY <4>1, <2>2, <1>gu, LostGrows
    <3> QED BY <3>1, <3>2
  <2>5. "eos" \notin errors => Numbered(file, tracks[i].serial, GivenUp')
    BY <2>2, <1>gu, LostGrows
  <2> QED BY <2>2, <2>4, <2>5, <1>t, <1>s, <1>ser, FragmentTracks
<1>9. Granules'
  <2>1. \A i : Underway(i)' = 0
    BY <1>x, <1>j DEF Underway
  <2>2. ASSUME NEW i \in DOMAIN tracks
        PROVE  /\ Growing(file', tracks[i].serial, packets')
               /\ Until(file', tracks[i].serial, tracks[i].previousGranulePosition - 0)
               /\ ~started => tracks[i].previousGranulePosition = 0
    <3>1. /\ Growing(file, tracks[i].serial, packets)
          /\ Until(file, tracks[i].serial,
                   tracks[i].previousGranulePosition - Underway(i))
          /\ ~started => tracks[i].previousGranulePosition = 0
      BY DEF Inv, Granules
    <3>2. Growing(file, tracks[i].serial, packets')
      <4>1. \A m \in DOMAIN file : file[m].id <= Len(packets)
        BY <1>v DEF Written
      <4> QED BY <3>1, <4>1, <1>t, <1>p, GrowingKept
    <3>3. Until(file, tracks[i].serial, tracks[i].previousGranulePosition - 0)
      <4> DEFINE h == tracks[i].previousGranulePosition - Underway(i)
                 g == tracks[i].previousGranulePosition - 0
                 q == tracks[i].serial
      <4>1. Underway(i) \in Nat
        <5>1. k.stage = "packet" => packets[k.id].samples \in Nat
          BY <1>e, <1>k, PacketFacts
        <5> QED BY <5>1, <1>k DEF Underway
      <4>2. h \in Int /\ g \in Int /\ h <= g /\ Until(file, q, h)
        BY <3>1, <4>1, <1>ser
      <4> HIDE DEF h, g, q
      <4>3. Until(file, q, g)
        BY <4>2, <1>t, UntilLater
      <4> QED BY <4>3 DEF g, q
    <3> QED BY <3>1, <3>2, <3>3, <1>t, <1>s, <1>ser, FragmentTracks
  <2> QED BY <2>1, <2>2, <1>s DEF Granules
<1>10. EndOfStream'
  <2>1. \A i : ~Through(i)
    BY <1>st, <1>k DEF Through
  <2>2. \A i \in DOMAIN tracks :
          ~Through(i)' \/ (single /\ ~(started /\ seekable))
    <3>1. CASE k.op = "new"
      <4>1. single /\ ~started
        BY <3>1, <1>v, <1>g, <1>st DEF Purpose
      <4> QED BY <4>1
    <3>2. CASE k.op # "new"
      <4>1. \A i \in DOMAIN tracks : ~(i < 1)
        BY <1>t
      <4> QED BY <3>2, <4>1, <1>s, <1>x, <1>j, <1>i DEF Through
    <3> QED BY <3>1, <3>2
  <2>3. ASSUME NEW i \in DOMAIN tracks
        PROVE  /\ NoEOS(file', tracks[i].serial)
               /\ seekable => Noted(file', tracks[i])
    <3>1. NoEOS(file, tracks[i].serial) /\ (seekable => Noted(file, tracks[i]))
      BY <2>1 DEF Inv, EndOfStream
    <3> QED BY <3>1, <1>t, <1>s, <1>ser, FragmentTracks
  <2> QED BY <2>2, <2>3, <1>s DEF EndOfStream
<1>11. Headers'
  <2>1. SUFFICES ASSUME errors' \cap {"header", "eos"} = {}
        PROVE  started /\ HeadersFirst' /\ \A i \in DOMAIN tracks : Tagged(i)'
    BY <1>s DEF Headers
  <2>2. errors \cap {"header", "eos"} = {} /\ k.stage = "packet" /\ started
    BY <2>1, <1>s, <1>g
  <2>3. HeadersFirst /\ \A i \in DOMAIN tracks : Tagged(i)
    BY <2>2 DEF Inv, Headers
  <2>4. CASE file' = file
    BY <2>1, <2>2, <2>4, <1>s, HeadersKept
  <2>5. CASE file' = Append(file, Fragment)
    <3> DEFINE e == Fragment
    <3>1. e \in FileEntry /\ e.id = -1 /\ e.page.flags = {}
      BY <1>t, FragmentFacts
    <3> HIDE DEF e
    <3>2. Behind(file', file, e)
      BY <2>5, <3>1, <1>t DEF Behind, e
    <3>3. Len(tracks) < Len(file) + 1
      BY <2>3, <1>g, <1>t, TaggedLong
    <3>4. ~(Len(file) + 1 <= Len(tracks)) /\ "bos" \notin e.page.flags /\ ~(e.id > 0)
      BY <3>1, <3>3, <1>t
    <3>5. HeadersFirst' /\ \A i \in DOMAIN tracks : Tagged(i) => Tagged(i)'
      BY <2>2, <2>3, <3>2, <3>4, <1>t, <1>tr, <1>s, HeadersAppended
    <3> QED BY <2>2, <2>3, <3>5
  <2> QED BY <2>4, <2>5, <1>s
<1> QED BY <1>1, <1>2, <1>4, <1>5, <1>6, <1>7, <1>8, <1>9, <1>10, <1>11, <1>x, <1>a DEF Inv

(* Close is at the EOS page of a track, and goes on to the next.           *)
LEMMA EosTurn ==
  ASSUME Inv, NEW c \in Callers, call[c].stage = "eos", Resume(c, NextEnd(call[c])),
         open' = open, started' = started, packets' = packets,
         DOMAIN tracks' = DOMAIN tracks
  PROVE  /\ open /\ Cur = call[c] /\ Cur.track \in DOMAIN tracks
         /\ Cur.written = 0 /\ Cur.pages = << >> /\ Cur.stage = "eos"
         /\ call' \in [Callers -> CallState] /\ mu' \in Callers \cup {NoCaller}
         /\ Exclusive' /\ Purpose(Cur)' /\ Made(Cur)'
         /\ Cur'.written = 0 /\ Cur'.pages = << >> /\ Cur'.op = "close"
         /\ \A i \in DOMAIN tracks : Through(i)' <=> Through(i) \/ i = Cur.track
         /\ \A i \in DOMAIN tracks : i = Cur.track => ~Through(i)
         /\ \A i \in DOMAIN tracks : Underway(i) = 0 /\ Underway(i)' = 0
<1> DEFINE k == call[c]
           j == NextEnd(k)
<1>t. tracks \in Seq(TrackState)
  BY DEF Inv, TypeOK
<1>i. Idle.stage = "idle" /\ Idle.op = "none"
  BY IdleState
<1>k. mu = c /\ Cur = k /\ open /\ k \in CallState /\ k # Idle
  BY <1>i, Holding DEF Inv
<1>v. Purpose(k) /\ Made(k)
  BY <1>k DEF Inv
<1> HIDE DEF k
<1>u. /\ k.stage = "eos" /\ k.op = "close" /\ k.id = 0 /\ k.track \in DOMAIN tracks
      /\ k.pages = << >> /\ k.written = 0
  BY <1>v DEF Purpose, Made, Writing, k
<1>j. /\ Moved(j, k) /\ j.op = "close"
      /\ \/ /\ k.track < Len(tracks) /\ j.stage = "eos" /\ j.track = k.track + 1
            /\ k.track + 1 \in DOMAIN tracks
         \/ k.track = Len(tracks) /\ j.stage = "close"
  BY <1>k, <1>t, <1>u, NextEndState
<1>r. Resume(c, j)
  BY DEF k
<1> HIDE DEF j
<1>m. /\ j \in CallState /\ j.pages = << >> /\ j.written = 0 /\ j.id = 0
  BY <1>j, <1>u, <1>i DEF Moved
<1>x. /\ call' \in [Callers -> CallState] /\ mu' \in Callers \cup {NoCaller}
      /\ Exclusive' /\ Cur' = j
  <2>1. Turn(c, j) /\ mu \in {c, NoCaller} /\ open'
    BY <1>r, <1>k, ResumeTurn
  <2> QED BY <2>1, <1>m, TakesTurn DEF Inv
<1>1. Purpose(Cur)' /\ Made(Cur)'
  BY <1>x, <1>j, <1>m DEF Purpose, Made
<1>2. ASSUME NEW i \in DOMAIN tracks
      PROVE  /\ Through(i) <=> i < k.track
             /\ Through(i)' <=> Through(i) \/ i = k.track
             /\ i = k.track => ~Through(i)
  <2>1. Through(i) <=> i < k.track
    BY <1>k, <1>u DEF Through
  <2>2. i \in Nat /\ k.track \in Nat /\ i <= Len(tracks)
    BY <1>t, <1>u
  <2>3. Through(i)' <=> j.stage = "close" \/ (j.stage = "eos" /\ i < j.track)
    BY <1>k, <1>x DEF Through
  <2>4. CASE j.stage = "close"
    <3>1. k.track = Len(tracks)
      BY <2>4, <1>j
    <3> QED BY <2>1, <2>2, <2>3, <2>4, <3>1
  <2>5. CASE j.stage = "eos"
    <3>1. j.track = k.track + 1
      BY <2>5, <1>j
    <3> QED BY <2>1, <2>2, <2>3, <2>5, <3>1
  <2> QED BY <2>4, <2>5, <1>j
<1>3. \A i \in DOMAIN tracks : Underway(i) = 0 /\ Underway(i)' = 0
  BY <1>k, <1>u, <1>x, <1>m DEF Underway
<1> QED BY <1>k, <1>u, <1>x, <1>1, <1>2, <1>3, <1>j, <1>m DEF k

(* A step that changes EOS flags only.                                     *)
LEMMA AlikeInv ==
  ASSUME Inv, AllAlike(file', file), file' \in Seq(FileEntry), tracks' = tracks,
         packets' = packets, errors' = errors, started' = started,
         Cur.written = 0, Cur'.written = 0,
         \A i \in DOMAIN tracks : Underway(i) = 0 /\ Underway(i)' = 0
  PROVE  /\ Serials' /\ Layout' /\ PacketsWhole' /\ Numbers' /\ Granules'
         /\ \A m \in DOMAIN file' : file'[m].id <= Len(packets)
         /\ errors \cap {"header", "eos"} = {} =>
              HeadersFirst' /\ \A i \in DOMAIN tracks : Tagged(i) => Tagged(i)'
<1>0. DOMAIN file' = DOMAIN file
  BY DEF AllAlike
<1>1. \A m \in DOMAIN file :
        /\ file'[m].at = file[m].at /\ file'[m].id = file[m].id
        /\ file'[m].page.serial = file[m].page.serial
        /\ file'[m].page.size = file[m].page.size
        /\ "bos" \in file'[m].page.flags <=> "bos" \in file[m].page.flags
  BY DEF AllAlike, Alike
<1>2. Serials' /\ Layout'
  BY <1>0, <1>1 DEF Inv, Serials, Layout
<1>3. PacketsWhole'
  BY <1>0, AlikePages DEF Inv, PacketsWhole
<1>4. Numbers'
  <2>1. GivenUp' = GivenUp
    BY DEF GivenUp
  <2>2. \A i \in DOMAIN tracks :
          /\ Past(file', tracks[i].serial, tracks[i].pageIndex)
          /\ "eos" \notin errors =>
               /\ Numbered(file', tracks[i].serial, GivenUp)
               /\ Expects(file', tracks[i].serial, tracks[i].pageIndex + 0, GivenUp)
    BY AlikePages DEF Inv, Numbers
  <2> QED BY <2>1, <2>2 DEF Numbers
<1>5. Granules'
  <2>1. \A i \in DOMAIN tracks :
          /\ Growing(file', tracks[i].serial, packets)
          /\ Until(file', tracks[i].serial, tracks[i].previousGranulePosition - 0)
          /\ ~started => tracks[i].previousGranulePosition = 0
    BY AlikePages DEF Inv, Granules
  <2> QED BY <2>1 DEF Granules
<1>6. \A m \in DOMAIN file' : file'[m].id <= Len(packets)
  BY <1>0, <1>1 DEF Inv, Written
<1>7. ASSUME errors \cap {"header", "eos"} = {}
      PROVE  HeadersFirst' /\ \A i \in DOMAIN tracks : Tagged(i) => Tagged(i)'
  <2>1. \A s : Complete(file', s) = Complete(file, s)
    BY AlikePages
  <2>2. \A s : \A m \in Complete(file, s) : m \in DOMAIN file
    BY DEF Complete, Of
  <2>3. HeadersFirst
    BY <1>7 DEF Inv, Headers
  <2>4. HeadersFirst'
    <3>1. \A m \in DOMAIN file :
            /\ "bos" \in file'[m].page.flags <=> m <= Len(tracks)
            /\ m <= Len(tracks) => file'[m].page.serial = tracks[m].serial
      BY <2>3, <1>1, <1>7 DEF HeadersFirst
    <3>2. \A m \in DOMAIN file, i \in DOMAIN tracks :
            file'[m].id > 0 =>
              \E j \in Complete(file', tracks[i].serial) :
                Len(tracks) < j /\ j < m /\ file'[j].id = 0
      BY <2>1, <2>2, <2>3, <1>1, <1>7 DEF HeadersFirst
    <3> QED BY <3>1, <3>2, <1>0 DEF HeadersFirst
  <2>5. \A i \in DOMAIN tracks : Tagged(i) => Tagged(i)'
    BY <2>1, <2>2, <1>1 DEF Tagged
  <2> QED BY <2>4, <2>5
<1> QED BY <1>2, <1>3, <1>4, <1>5, <1>6, <1>7

(* The noted page in the file, and what is written over it.                *)
LEMMA NotedPage ==
  ASSUME file \in Seq(FileEntry), Layout, NEW t \in TrackState,
         Noted(file, t), t.lastPageWritten
  PROVE  \E K \in Complete(file, t.serial) :
           /\ file[K] = t.last /\ \A m \in Complete(file, t.serial) : m <= K
           /\ K \in DOMAIN file /\ Ends(file[K]) /\ file[K].page.serial = t.serial
           /\ Replaced(Overwrite(Rebuilt(t)), file, K, Rebuilt(t))
           /\ Rebuilt(t) = [file[K] EXCEPT !.page.flags = @ \cup {"eos"}]
           /\ Alike(Rebuilt(t), file[K]) /\ "eos" \in Rebuilt(t).page.flags
<1>1. PICK K \in Complete(file, t.serial) :
        /\ file[K] = t.last /\ \A m \in Complete(file, t.serial) : m <= K
        /\ EndShape(t.last.page)
  BY DEF Noted
<1>2. K \in DOMAIN file /\ Ends(file[K]) /\ file[K].page.serial = t.serial
  BY DEF Complete, Of
<1> DEFINE e == file[K]
           p == e.page
           q == [p EXCEPT !.flags = p.flags \cup {"eos"}]
           r == [e EXCEPT !.page = q]
<1>3. e \in FileEntry /\ p \in Page
  <2>1. e \in FileEntry
    BY <1>2
  <2> QED BY <2>1, EntryTypes
<1>4. Rebuilt(t) = r
  <2>1. CreatePages(p.serial, p.index, p.payload, p.flags \cup {"eos"}, p.granule)[1] = q
    BY <1>1, <1>3, RebuiltPage
  <2> QED BY <2>1, <1>1, <1>2 DEF Rebuilt
<1>5. r = [file[K] EXCEPT !.page.flags = @ \cup {"eos"}]
  BY <1>3 DEF FileEntry, Page
<1>6. /\ q \in Page /\ q.serial = p.serial /\ q.index = p.index /\ q.granule = p.granule
      /\ q.payload = p.payload /\ q.size = p.size /\ q.flags = p.flags \cup {"eos"}
  BY <1>3 DEF Page
<1>7. r \in FileEntry /\ r.page = q /\ r.at = e.at /\ r.id = e.id
  BY <1>3, <1>6 DEF FileEntry
<1> HIDE DEF r
<1>8. Alike(r, e) /\ "eos" \in r.page.flags
  BY <1>6, <1>7 DEF Alike
<1>9. Replaced(Overwrite(r), file, K, r)
  BY <1>2, <1>6, <1>7, OverwriteOne
<1> QED BY <1>1, <1>2, <1>4, <1>5, <1>8, <1>9

(* Close sets EOS on the noted page of a track.                            *)
LEMMA MarkEndOfStreamInv ==
  ASSUME Inv, NEW c \in Callers, MarkEndOfStream(c), UNCHANGED <<single, seekable>>
  PROVE  Inv'
<1> DEFINE k == Cur
           t == tracks[k.track]
<1>t. /\ tracks \in Seq(TrackState) /\ file \in Seq(FileEntry)
      /\ packets \in Seq(SentPacket) /\ Layout /\ seekable
  BY DEF Inv, TypeOK, MarkEndOfStream
<1>s. /\ call[c].stage = "eos" /\ Resume(c, NextEnd(call[c]))
      /\ open' = open /\ started' = started /\ tracks' = tracks
      /\ packets' = packets /\ failures' = failures /\ errors' = errors
      /\ single' = single /\ seekable' = seekable
  BY DEF MarkEndOfStream
<1>q. /\ open /\ Cur = call[c] /\ Cur.track \in DOMAIN tracks
      /\ Cur.written = 0 /\ Cur.pages = << >> /\ Cur.stage = "eos"
      /\ call' \in [Callers -> CallState] /\ mu' \in Callers \cup {NoCaller}
      /\ Exclusive' /\ Purpose(Cur)' /\ Made(Cur)'
      /\ Cur'.written = 0 /\ Cur'.pages = << >> /\ Cur'.op = "close"
      /\ \A i \in DOMAIN tracks : Through(i)' <=> Through(i) \/ i = Cur.track
      /\ \A i \in DOMAIN tracks : i = Cur.track => ~Through(i)
      /\ \A i \in DOMAIN tracks : Underway(i) = 0 /\ Underway(i)' = 0
  BY <1>s, EosTurn
<1>k. k.track \in DOMAIN tracks /\ t \in TrackState /\ t.serial \in Nat
      /\ t.lastPageWritten \in BOOLEAN
  <2>1. t \in TrackState
    BY <1>q, <1>t
  <2> QED BY <2>1, <1>q DEF TrackState
<1>f. file' = IF t.lastPageWritten THEN Overwrite(Rebuilt(t)) ELSE file
  BY <1>q DEF MarkEndOfStream
<1>n. NoEOS(file, t.serial) /\ Noted(file, t)
  BY <1>q, <1>t DEF Inv, EndOfStream
<1>g. Growing(file, t.serial, packets)
  BY <1>q DEF Inv, Granules
<1>u. \A i \in DOMAIN tracks : i # k.track => tracks[i].serial # t.serial
  BY <1>q DEF Inv, Serials
<1> HIDE DEF k, t
<1>a. /\ AllAlike(file', file) /\ file' \in Seq(FileEntry) /\ Ended(file', t.serial)
      /\ \A s : s # t.serial =>
           /\ Of(file', s) = Of(file, s) /\ Complete(file', s) = Complete(file, s)
           /\ \A m \in Of(file, s) : file'[m] = file[m]
           /\ \A m \in Complete(file, s) : file'[m] = file[m]
  <2>1. CASE ~t.lastPageWritten
    <3>1. file' = file /\ AllAlike(file', file)
      BY <2>1, <1>f DEF AllAlike, Alike
    <3>2. Complete(file, t.serial) = {}
      BY <2>1, <1>n DEF Noted
    <3> QED BY <3>1, <3>2, <1>t DEF Ended
  <2>2. CASE t.lastPageWritten
    <3> DEFINE e == Rebuilt(t)
    <3>1. PICK K \in Complete(file, t.serial) :
           /\ \A m \in Complete(file, t.serial) : m <= K
           /\ K \in DOMAIN file /\ Ends(file[K]) /\ file[K].page.serial = t.serial
           /\ Replaced(Overwrite(e), file, K, e)
           /\ Alike(e, file[K]) /\ "eos" \in e.page.flags
      BY <2>2, <1>t, <1>k, <1>n, NotedPage
    <3> HIDE DEF e
    <3>2. Replaced(file', file, K, e)
      BY <2>2, <3>1, <1>f DEF e
    <3>3. /\ file' \in Seq(FileEntry) /\ DOMAIN file' = DOMAIN file /\ file'[K] = e
          /\ \A m \in DOMAIN file : m # K => file'[m] = file[m]
      BY <3>2, Replacing
    <3>4. AllAlike(file', file)
      <4>1. ASSUME NEW m \in DOMAIN file PROVE Alike(file'[m], file[m])
        <5>1. CASE m = K
          BY <5>1, <3>1, <3>3
        <5>2. CASE m # K
          <6>1. file'[m] = file[m]
            BY <5>2, <3>3
          <6> QED BY <6>1 DEF Alike
        <5> QED BY <5>1, <5>2
      <4> QED BY <4>1, <3>3 DEF AllAlike
    <3>5. Ended(file', t.serial)
      <4>1. \A j \in Complete(file, t.serial) : j <= K /\ j \in Nat
        BY <3>1, <1>t DEF Complete, Of
      <4>2. file[K].page.granule \in Int
        <5>1. file[K] \in FileEntry
          BY <3>1, <1>t
        <5> QED BY <5>1, EntryTypes
      <4> QED BY <3>1, <3>3, <3>4, <4>1, <4>2, <1>n, <1>g, MarkedEnded
    <3>6. ASSUME NEW s, s # t.serial
          PROVE  /\ Of(file', s) = Of(file, s) /\ Complete(file', s) = Complete(file, s)
                 /\ \A m \in Of(file, s) : file'[m] = file[m]
                 /\ \A m \in Complete(file, s) : file'[m] = file[m]
      <4>1. e.page.serial # s /\ file[K].page.serial # s
        BY <3>1, <3>6 DEF Alike
      <4> QED BY <4>1, <3>2, Damaging
    <3> QED BY <3>3, <3>4, <3>5, <3>6
  <2> QED BY <2>1, <2>2, <1>k
<1>1. /\ Serials' /\ Layout' /\ PacketsWhole' /\ Numbers' /\ Granules'
      /\ \A m \in DOMAIN file' : file'[m].id <= Len(packets)
      /\ errors \cap {"header", "eos"} = {} =>
           HeadersFirst' /\ \A i \in DOMAIN tracks : Tagged(i) => Tagged(i)'
  BY <1>a, <1>s, <1>q, AlikeInv
<1>2. TypeOK'
  BY <1>s, <1>q, <1>a DEF Inv, TypeOK
<1>3. Written(Cur)'
  <2>1. 0 <= Len(file') /\ 1..0 = {}
    BY <1>a
  <2> QED BY <2>1, <1>1, <1>q, <1>s DEF Written
<1>4. EndOfStream'
  <2>1. ASSUME NEW i \in DOMAIN tracks
        PROVE  IF Through(i)'
               THEN ("eos" \notin errors /\ (single => started /\ seekable)) =>
                      Ended(file', tracks[i].serial)
               ELSE /\ NoEOS(file', tracks[i].serial)
                    /\ seekable => Noted(file', tracks[i])
    <3>1. CASE i = k.track
      BY <3>1, <1>q, <1>a DEF k, t
    <3>2. CASE i # k.track
      <4>1. Through(i)' <=> Through(i)
        BY <3>2, <1>q DEF k
      <4>2. tracks[i].serial # t.serial
        BY <3>2, <1>u
      <4>3. /\ NoEOS(file', tracks[i].serial) <=> NoEOS(file, tracks[i].serial)
            /\ Ended(file', tracks[i].serial) <=> Ended(file, tracks[i].serial)
            /\ Noted(file', tracks[i]) <=> Noted(file, tracks[i])
        BY <4>2, <1>a, SamePages
      <4> QED BY <4>1, <4>3 DEF Inv, EndOfStream
    <3> QED BY <3>1, <3>2
  <2> QED BY <2>1, <1>s DEF EndOfStream
<1>5. Headers'
  <2>1. SUFFICES ASSUME errors \cap {"header", "eos"} = {}
        PROVE  started /\ HeadersFirst' /\ \A i \in DOMAIN tracks : Tagged(i)'
    BY <1>s DEF Headers
  <2>2. started /\ \A i \in DOMAIN tracks : Tagged(i)
    BY <2>1, <1>q DEF Inv, Headers
  <2> QED BY <2>1, <2>2, <1>1
<1> QED BY <1>1, <1>2, <1>3, <1>4, <1>5, <1>q DEF Inv

(* The empty EOS page of a track, as it will be in the file.               *)
NilEntry(t) ==
  Entry(NilPage(t.serial, t.pageIndex, t.previousGranulePosition), FileSize, -1)

LEMMA NilFacts ==
  ASSUME file \in Seq(FileEntry), NEW t \in TrackState
  PROVE  /\ NilEntry(t) \in FileEntry /\ NilEntry(t).id = -1
         /\ NilEntry(t).at = FileSize /\ NilEntry(t).page.size > 0
         /\ NilEntry(t).page.serial = t.serial
         /\ NilEntry(t).page.index = t.pageIndex
         /\ NilEntry(t).page.granule = t.previousGranulePosition
         /\ NilEntry(t).page.flags = {"eos"} /\ Ends(NilEntry(t))
<1> DEFINE p == NilPage(t.serial, t.pageIndex, t.previousGranulePosition)
<1>1. /\ t.serial \in Nat /\ t.pageIndex \in Nat /\ t.previousGranulePosition \in Nat
  BY DEF TrackState
<1>2. pageHeaderSize = 27 /\ noGranulePosition = -1
  BY Capacity
<1>3. /\ p \in Page /\ p.serial = t.serial /\ p.index = t.pageIndex
      /\ p.granule = t.previousGranulePosition /\ p.flags = {"eos"} /\ p.size = 27
  BY <1>1, <1>2 DEF NilPage, Page
<1>4. FileSize \in Nat
  BY FileSizeType
<1> HIDE DEF p
<1>5. NilEntry(t) = [page |-> p, at |-> FileSize, id |-> -1]
  BY DEF NilEntry, Entry, p
<1>6. NilEntry(t) \in FileEntry
  BY <1>3, <1>4, <1>5 DEF FileEntry
<1>7. p.granule # noGranulePosition /\ p.size > 0
  BY <1>1, <1>2, <1>3
<1> QED BY <1>3, <1>5, <1>6, <1>7 DEF Ends

(* Close has nothing to end: the track has no page.                        *)
LEMMA NoPageInv ==
  ASSUME Inv, NEW c \in Callers, call[c].stage = "eos", Resume(c, NextEnd(call[c])),
         open' = open, started' = started, packets' = packets, tracks' = tracks,
         file' = file, failures' = failures, errors' = errors,
         single' = single, seekable' = seekable,
         \A i \in DOMAIN tracks :
           i = Cur.track => Complete(file, tracks[i].serial) = {}
  PROVE  Inv'
<1>t. /\ tracks \in Seq(TrackState) /\ file \in Seq(FileEntry)
      /\ packets \in Seq(SentPacket) /\ Layout
  BY DEF Inv, TypeOK
<1>q. /\ open /\ Cur = call[c] /\ Cur.track \in DOMAIN tracks
      /\ Cur.written = 0 /\ Cur.pages = << >> /\ Cur.stage = "eos"
      /\ call' \in [Callers -> CallState] /\ mu' \in Callers \cup {NoCaller}
      /\ Exclusive' /\ Purpose(Cur)' /\ Made(Cur)'
      /\ Cur'.written = 0 /\ Cur'.pages = << >> /\ Cur'.op = "close"
      /\ \A i \in DOMAIN tracks : Through(i)' <=> Through(i) \/ i = Cur.track
      /\ \A i \in DOMAIN tracks : i = Cur.track => ~Through(i)
      /\ \A i \in DOMAIN tracks : Underway(i) = 0 /\ Underway(i)' = 0
  BY EosTurn
<1>a. AllAlike(file', file)
  BY DEF AllAlike, Alike
<1>1. /\ Serials' /\ Layout' /\ PacketsWhole' /\ Numbers' /\ Granules'
      /\ \A m \in DOMAIN file' : file'[m].id <= Len(packets)
      /\ errors \cap {"header", "eos"} = {} =>
           HeadersFirst' /\ \A i \in DOMAIN tracks : Tagged(i) => Tagged(i)'
  BY <1>a, <1>t, <1>q, AlikeInv
<1>2. TypeOK'
  BY <1>q DEF Inv, TypeOK
<1>3. Written(Cur)'
  <2>1. 0 <= Len(file') /\ 1..0 = {}
    BY <1>t
  <2> QED BY <2>1, <1>1, <1>q DEF Written
<1>4. EndOfStream'
  <2>1. ASSUME NEW i \in DOMAIN tracks
        PROVE  IF Through(i)'
               THEN ("eos" \notin errors /\ (single => started /\ seekable)) =>
                      Ended(file, tracks[i].serial)
               ELSE /\ NoEOS(file, tracks[i].serial)
                    /\ seekable => Noted(file, tracks[i])
    <3>1. CASE i = Cur.track
      <4>1. Ended(file, tracks[i].serial)
        BY <3>1 DEF Ended
      <4> QED BY <3>1, <4>1, <1>q
    <3>2. CASE i # Cur.track
      <4>1. Through(i)' <=> Through(i)
        BY <3>2, <1>q
      <4> QED BY <4>1 DEF Inv, EndOfStream
    <3> QED BY <3>1, <3>2
  <2> QED BY <2>1 DEF EndOfStream
<1>5. Headers'
  <2>1. SUFFICES ASSUME errors \cap {"header", "eos"} = {}
        PROVE  started /\ HeadersFirst' /\ \A i \in DOMAIN tracks : Tagged(i)'
    BY DEF Headers
  <2>2. started /\ \A i \in DOMAIN tracks : Tagged(i)
    BY <2>1, <1>q DEF Inv, Headers
  <2> QED BY <2>1, <2>2, <1>1
<1> QED BY <1>1, <1>2, <1>3, <1>4, <1>5, <1>q DEF Inv

(* Close appends an empty page with EOS to a track.                        *)
LEMMA WriteNilEndOfStreamInv ==
  ASSUME Inv, NEW c \in Callers, WriteNilEndOfStream(c),
         UNCHANGED <<single, seekable>>
  PROVE  Inv'
<1> DEFINE k == Cur
           t == tracks[k.track]
           e == NilEntry(t)
<1>t. /\ tracks \in Seq(TrackState) /\ file \in Seq(FileEntry)
      /\ packets \in Seq(SentPacket) /\ Layout /\ ~seekable
  BY DEF Inv, TypeOK, WriteNilEndOfStream
<1>s. /\ call[c].stage = "eos" /\ Resume(c, NextEnd(call[c]))
      /\ open' = open /\ started' = started
      /\ packets' = packets /\ failures' = failures /\ errors' = errors
      /\ single' = single /\ seekable' = seekable
  BY DEF WriteNilEndOfStream
<1>d. /\ Cur = call[c] /\ Cur.track \in DOMAIN tracks
  <2>1. Idle.stage = "idle"
    BY IdleState
  <2>2. Cur = call[c]
    BY <2>1, <1>s, Holding DEF Inv
  <2> QED BY <2>2, <1>s DEF Inv, Purpose
<1>k. /\ k.track \in DOMAIN tracks /\ t \in TrackState /\ t.serial \in Nat
      /\ t.pageIndex \in Nat /\ t.previousGranulePosition \in Nat
  <2>1. t \in TrackState
    BY <1>d, <1>t
  <2> QED BY <2>1, <1>d DEF TrackState
<1>f. IF t.pageIndex = 0 THEN file' = file /\ tracks' = tracks
      ELSE /\ file' = Append(file, e)
           /\ tracks' = [tracks EXCEPT ![k.track].pageIndex = @ + 1]
  BY <1>d DEF WriteNilEndOfStream, NilEntry
<1>p. /\ Past(file, t.serial, t.pageIndex)
      /\ "eos" \notin errors =>
           /\ Numbered(file, t.serial, GivenUp)
           /\ Expects(file, t.serial,
                t.pageIndex + (IF Cur.track = Cur.track THEN Cur.written ELSE 0),
                GivenUp)
  BY <1>d DEF Inv, Numbers
<1>1. CASE t.pageIndex = 0
  <2>1. Complete(file, t.serial) = {}
    <3>1. \A m \in Complete(file, t.serial) : file[m].page.index < 0 /\ file[m] \in FileEntry
      BY <1>1, <1>p, <1>t DEF Past, Complete, Of
    <3>2. \A m \in Complete(file, t.serial) : file[m].page.index \in Nat
      BY <3>1, EntryTypes
    <3> QED BY <3>1, <3>2
  <2>2. \A i \in DOMAIN tracks :
           i = Cur.track => Complete(file, tracks[i].serial) = {}
    BY <2>1
  <2> QED BY <1>1, <1>f, <1>s, <2>2, NoPageInv
<1>2. CASE t.pageIndex # 0
  <2>f. /\ file' = Append(file, e)
        /\ tracks' = [tracks EXCEPT ![k.track].pageIndex = @ + 1]
    BY <1>2, <1>f
  <2>e. /\ e \in FileEntry /\ e.id = -1 /\ e.at = FileSize /\ e.page.size > 0
        /\ e.page.serial = t.serial /\ e.page.index = t.pageIndex
        /\ e.page.granule = t.previousGranulePosition
        /\ e.page.flags = {"eos"} /\ Ends(e)
    BY <1>t, <1>k, NilFacts
  <2>tr. /\ tracks' \in Seq(TrackState) /\ DOMAIN tracks' = DOMAIN tracks
         /\ Len(tracks') = Len(tracks) /\ TracksKept
         /\ tracks'[k.track].pageIndex = t.pageIndex + 1
         /\ \A i \in DOMAIN tracks :
              /\ tracks'[i].serial = tracks[i].serial
              /\ tracks'[i].previousGranulePosition = tracks[i].previousGranulePosition
              /\ i # k.track => tracks'[i] = tracks[i]
    <3> DEFINE u == [t EXCEPT !.pageIndex = @ + 1]
    <3>1. /\ u \in TrackState /\ u.serial = t.serial
          /\ u.previousGranulePosition = t.previousGranulePosition
          /\ u.pageIndex = t.pageIndex + 1
      BY <1>k DEF TrackState
    <3>2. tracks' = [tracks EXCEPT ![k.track] = u]
      BY <2>f
    <3> HIDE DEF u, k
    <3>3. /\ tracks' \in Seq(TrackState) /\ DOMAIN tracks' = DOMAIN tracks
          /\ Len(tracks') = Len(tracks)
          /\ \A i \in DOMAIN tracks : tracks'[i] = IF i = k.track THEN u ELSE tracks[i]
      BY <3>1, <3>2, <1>k, <1>t
    <3> QED BY <3>1, <3>3, <1>k DEF TracksKept
  <2>q. /\ open /\ Cur = call[c] /\ Cur.track \in DOMAIN tracks
        /\ Cur.written = 0 /\ Cur.pages = << >> /\ Cur.stage = "eos"
        /\ call' \in [Callers -> CallState] /\ mu' \in Callers \cup {NoCaller}
        /\ Exclusive' /\ Purpose(Cur)' /\ Made(Cur)'
        /\ Cur'.written = 0 /\ Cur'.pages = << >> /\ Cur'.op = "close"
        /\ \A i \in DOMAIN tracks : Through(i)' <=> Through(i) \/ i = Cur.track
        /\ \A i \in DOMAIN tracks : i = Cur.track => ~Through(i)
        /\ \A i \in DOMAIN tracks : Underway(i) = 0 /\ Underway(i)' = 0
    BY <1>s, <2>tr, EosTurn
  <2>n. NoEOS(file, t.serial)
    BY <2>q DEF Inv, EndOfStream
  <2>g. Growing(file, t.serial, packets)
        /\ Until(file, t.serial, t.previousGranulePosition)
    <3>1. Growing(file, t.serial, packets)
          /\ Until(file, t.serial, t.previousGranulePosition - 0)
      BY <2>q DEF Inv, Granules
    <3> QED BY <3>1, <1>k
  <2>x. "eos" \notin errors => Expects(file, t.serial, t.pageIndex, GivenUp)
    <3>1. t.pageIndex + 0 = t.pageIndex
      BY <1>k
    <3> QED BY <3>1, <1>p, <2>q
  <2>u. \A i \in DOMAIN tracks : i # k.track => tracks[i].serial # t.serial
    BY <2>q DEF Inv, Serials
  <2> HIDE DEF e, k, t
  <2>b. Behind(file', file, e)
    BY <2>e, <2>f, <1>t DEF Behind
  <2>h. /\ file' \in Seq(FileEntry) /\ DOMAIN file = 1..Len(file)
        /\ Len(file) \in Nat /\ DOMAIN file' = 1..(Len(file) + 1)
        /\ \A m \in DOMAIN file : file'[m] = file[m]
        /\ file'[Len(file) + 1] = e
    BY <2>b, Appending
  <2>pk. PacketsKept /\ DOMAIN packets' = DOMAIN packets /\ GivenUp' = GivenUp
    BY <1>s DEF PacketsKept, GivenUp
  <2>o. ASSUME NEW i \in DOMAIN tracks, i # k.track
        PROVE  LET s == tracks[i].serial
               IN /\ Of(file', s) = Of(file, s) /\ Complete(file', s) = Complete(file, s)
                  /\ \A m \in Of(file, s) : file'[m] = file[m]
                  /\ \A m \in Complete(file, s) : file'[m] = file[m]
    BY <2>o, <2>b, <2>e, <2>u, AppendOther
  <2>ag. /\ Growing(file', t.serial, packets)
         /\ Until(file', t.serial, t.previousGranulePosition)
         /\ Past(file', t.serial, t.pageIndex + 1)
    <3>1. /\ t.previousGranulePosition \in Int /\ t.pageIndex + 1 \in Nat
          /\ t.pageIndex <= t.pageIndex + 1 /\ e.page.index < t.pageIndex + 1
          /\ t.previousGranulePosition <= e.page.granule /\ ~(e.id > 0)
      BY <1>k, <2>e
    <3>2. /\ Growing(file', t.serial, packets) /\ Until(file', t.serial, e.page.granule)
          /\ Past(file', t.serial, t.pageIndex + 1)
      <4>1. e.id > 0 => /\ packets[e.id].samples \in Nat
                        /\ t.previousGranulePosition + packets[e.id].samples
                             <= e.page.granule
        BY <3>1
      <4>2. e.page.serial = t.serial /\ Ends(e)
        BY <2>e
      <4>3. Past(file, t.serial, t.pageIndex) /\ t.pageIndex \in Nat
        BY <1>p, <1>k
      <4> DEFINE g == t.previousGranulePosition
                 n == t.pageIndex
                 q == t.pageIndex + 1
                 s == t.serial
      <4>4. /\ g \in Int /\ n \in Nat /\ q \in Nat /\ n <= q /\ e.page.index < q
            /\ g <= e.page.granule /\ e.page.serial = s
            /\ Growing(file, s, packets) /\ Until(file, s, g) /\ Past(file, s, n)
            /\ e.id > 0 => /\ packets[e.id].samples \in Nat
                           /\ g + packets[e.id].samples <= e.page.granule
        BY <3>1, <4>1, <4>2, <4>3, <2>g
      <4> HIDE DEF g, n, q, s
      <4>5. /\ Growing(file', s, packets) /\ Until(file', s, e.page.granule)
            /\ Past(file', s, q)
        BY <4>4, <4>2, <2>b, AppendEndGrows
      <4> QED BY <4>5 DEF q, s
    <3> QED BY <3>2, <2>e
  <2>1. TypeOK'
    BY <1>s, <2>q, <2>h, <2>tr DEF Inv, TypeOK
  <2>2. Serials'
    <3>1. \E i \in DOMAIN tracks : e.page.serial = tracks[i].serial
      BY <2>e, <1>k DEF t
    <3> QED BY <3>1, <2>b, <2>tr, <2>pk, SerialsAppended DEF Inv
  <2>3. Written(Cur)'
    <3>1. \A m \in DOMAIN file' : file'[m].id <= Len(packets)
      <4>1. \A m \in DOMAIN file : file[m].id <= Len(packets)
        BY DEF Inv, Written
      <4>2. -1 <= Len(packets)
        BY <1>t
      <4>3. \A m \in DOMAIN file' : m \in DOMAIN file \/ m = Len(file) + 1
        BY <2>h
      <4> QED BY <4>1, <4>2, <4>3, <2>h, <2>e
    <3>2. 0 <= Len(file') /\ 1..0 = {}
      BY <2>h
    <3> QED BY <3>1, <3>2, <2>q, <1>s DEF Written
  <2>4. Layout'
    BY <1>t, <2>b, <2>e, AppendLayout
  <2>5. PacketsWhole'
    <3>1. ASSUME NEW id \in DOMAIN packets, packets[id].status = "ok", "eos" \notin errors
          PROVE  \E a \in DOMAIN file' :
                   WholeFrom(file', a, tracks'[packets'[id].track].serial, id,
                             packets'[id].len)
      <4>1. e.id # id
        BY <2>e, <1>t
      <4> QED BY <3>1, <4>1, <1>t, <2>b, <2>tr, <2>pk, WholeAppended DEF Inv
    <3> QED BY <3>1, <1>s DEF PacketsWhole
  <2>6. Numbers'
    <3>1. ASSUME NEW i \in DOMAIN tracks
          PROVE  /\ Past(file', tracks[i].serial, tracks'[i].pageIndex)
                 /\ "eos" \notin errors =>
                      /\ Numbered(file', tracks[i].serial, GivenUp)
                      /\ Expects(file', tracks[i].serial, tracks'[i].pageIndex + 0,
                           GivenUp)
      <4>1. CASE i = k.track
        <5>1. /\ tracks[i].serial = t.serial /\ tracks'[i].pageIndex = t.pageIndex + 1
              /\ t.pageIndex + 1 + 0 = t.pageIndex + 1
          BY <4>1, <2>tr, <1>k DEF t
        <5>2. MayFollow(e, t.pageIndex + 1, GivenUp)
          BY <2>e DEF MayFollow
        <5>3. "eos" \notin errors =>
                /\ Numbered(file', t.serial, GivenUp)
                /\ Expects(file', t.serial, t.pageIndex + 1, GivenUp)
          BY <5>2, <1>p, <2>x, <2>b, <2>e, AppendNumber
        <5> QED BY <5>1, <5>3, <2>ag
      <4>2. CASE i # k.track
        <5>1. tracks'[i] = tracks[i]
          BY <4>2, <2>tr
        <5>2. /\ Past(file, tracks[i].serial, tracks[i].pageIndex)
              /\ "eos" \notin errors =>
                   /\ Numbered(file, tracks[i].serial, GivenUp)
                   /\ Expects(file, tracks[i].serial, tracks[i].pageIndex + 0, GivenUp)
          BY <4>2, <2>q DEF Inv, Numbers
        <5> QED BY <4>2, <5>1, <5>2, <2>o, SamePages
      <4> QED BY <4>1, <4>2
    <3> QED BY <3>1, <2>tr, <2>pk, <2>q, <1>s DEF Numbers
  <2>7. Granules'
    <3>1. ASSUME NEW i \in DOMAIN tracks
          PROVE  /\ Growing(file', tracks[i].serial, packets)
                 /\ Until(file', tracks[i].serial, tracks[i].previousGranulePosition - 0)
                 /\ ~started => tracks[i].previousGranulePosition = 0
      <4>1. /\ Growing(file, tracks[i].serial, packets)
            /\ Until(file, tracks[i].serial, tracks[i].previousGranulePosition - 0)
            /\ ~started => tracks[i].previousGranulePosition = 0
        BY <2>q DEF Inv, Granules
      <4>2. CASE i = k.track
        <5>1. /\ tracks[i].serial = t.serial
              /\ tracks[i].previousGranulePosition - 0 = t.previousGranulePosition
          BY <4>2, <1>k DEF t
        <5> QED BY <5>1, <4>1, <2>ag
      <4>3. CASE i # k.track
        BY <4>1, <4>3, <2>o, SamePages
      <4> QED BY <4>2, <4>3
    <3> QED BY <3>1, <2>tr, <2>q, <1>s DEF Granules
  <2>8. EndOfStream'
    <3>1. ASSUME NEW i \in DOMAIN tracks
          PROVE  IF Through(i)'
                 THEN ("eos" \notin errors /\ (single => started /\ seekable)) =>
                        Ended(file', tracks[i].serial)
                 ELSE NoEOS(file', tracks[i].serial)
      <4>1. CASE i = k.track
        <5>1. Ended(file', t.serial)
          <6>1. "eos" \in e.page.flags /\ Until(file, t.serial, e.page.granule)
            BY <2>e, <2>g
          <6> QED BY <6>1, <2>b, <2>e, <2>n, AppendEndEnded
        <5> QED BY <4>1, <5>1, <2>q DEF t, k
      <4>2. CASE i # k.track
        <5>1. Through(i)' <=> Through(i)
          BY <4>2, <2>q DEF k
        <5>2. /\ NoEOS(file', tracks[i].serial) <=> NoEOS(file, tracks[i].serial)
              /\ Ended(file', tracks[i].serial) <=> Ended(file, tracks[i].serial)
          BY <4>2, <2>o, SamePages
        <5> QED BY <5>1, <5>2 DEF Inv, EndOfStream
      <4> QED BY <4>1, <4>2
    <3> QED BY <3>1, <2>tr, <1>s, <1>t DEF EndOfStream
  <2>9. Headers'
    <3>1. SUFFICES ASSUME errors \cap {"header", "eos"} = {}
          PROVE  started /\ HeadersFirst' /\ \A i \in DOMAIN tracks' : Tagged(i)'
      BY <1>s DEF Headers
    <3>2. started /\ HeadersFirst /\ \A i \in DOMAIN tracks : Tagged(i)
      BY <3>1, <2>q DEF Inv, Headers
    <3>3. Len(tracks) < Len(file) + 1
      BY <3>2, <1>k, <1>t, TaggedLong
    <3>4. ~(Len(file) + 1 <= Len(tracks)) /\ "bos" \notin e.page.flags /\ ~(e.id > 0)
      BY <2>e, <3>3, <1>t
    <3>5. HeadersFirst' /\ \A i \in DOMAIN tracks : Tagged(i) => Tagged(i)'
      BY <3>1, <3>2, <3>4, <2>b, <1>t, <2>tr, HeadersAppended
    <3> QED BY <3>2, <3>5, <2>tr
  <2> QED BY <2>1, <2>2, <2>3, <2>4, <2>5, <2>6, <2>7, <2>8, <2>9, <2>q DEF Inv
<1> QED BY <1>1, <1>2

(* What a failing EOS write leaves of the noted page.                      *)
LEMMA NotedPageDamaged ==
  ASSUME file \in Seq(FileEntry), Layout, NEW t \in TrackState,
         Noted(file, t), t.lastPageWritten,
         NEW d, d = [t.last EXCEPT !.page = Junk(@.size)]
  PROVE  \E K \in DOMAIN file :
           /\ file[K].page.serial = t.serial /\ d.page.serial = -1
           /\ d.id = file[K].id /\ d.at = file[K].at
           /\ d.page.size = file[K].page.size
           /\ Replaced(Overwrite(d), file, K, d)
<1>1. PICK K \in Complete(file, t.serial) : file[K] = t.last
  BY DEF Noted
<1>2. K \in DOMAIN file /\ file[K].page.serial = t.serial
  BY DEF Complete, Of
<1> DEFINE e == file[K]
           q == Junk(e.page.size)
<1>3. e \in FileEntry
  BY <1>2
<1>4. e.page.size \in Nat
  BY <1>3, EntryTypes
<1>5. noGranulePosition = -1
  BY Capacity
<1>6. q \in Page /\ q.serial = -1 /\ q.size = e.page.size
  BY <1>4, <1>5 DEF Junk, Page
<1>7. d = [e EXCEPT !.page = q]
  BY <1>1
<1> HIDE DEF q
<1>8. d \in FileEntry /\ d.page = q /\ d.at = e.at /\ d.id = e.id
  BY <1>3, <1>6, <1>7 DEF FileEntry
<1>9. Replaced(Overwrite(d), file, K, d)
  BY <1>2, <1>6, <1>8, OverwriteOne
<1> QED BY <1>2, <1>6, <1>8, <1>9

(* The EOS write of a track fails.                                         *)
LEMMA EndOfStreamFailsInv ==
  ASSUME Inv, NEW c \in Callers, EndOfStreamFails(c), UNCHANGED <<single, seekable>>
  PROVE  Inv'
<1> DEFINE k == Cur
           t == tracks[k.track]
           d == [t.last EXCEPT !.page = Junk(@.size)]
<1>t. /\ tracks \in Seq(TrackState) /\ file \in Seq(FileEntry)
      /\ packets \in Seq(SentPacket) /\ Layout
  BY DEF Inv, TypeOK
<1>s. /\ call[c].stage = "eos" /\ Resume(c, NextEnd(call[c]))
      /\ open' = open /\ started' = started /\ tracks' = tracks
      /\ packets' = packets /\ failures \in Nat /\ failures' = failures + 1
      /\ errors' = errors \cup {"eos"} /\ "eos" \in errors'
      /\ single' = single /\ seekable' = seekable
  BY DEF EndOfStreamFails, Inv, TypeOK
<1>q. /\ open /\ Cur = call[c] /\ Cur.track \in DOMAIN tracks
      /\ Cur.written = 0 /\ Cur.pages = << >> /\ Cur.stage = "eos"
      /\ call' \in [Callers -> CallState] /\ mu' \in Callers \cup {NoCaller}
      /\ Exclusive' /\ Purpose(Cur)' /\ Made(Cur)'
      /\ Cur'.written = 0 /\ Cur'.pages = << >> /\ Cur'.op = "close"
      /\ \A i \in DOMAIN tracks : Through(i)' <=> Through(i) \/ i = Cur.track
      /\ \A i \in DOMAIN tracks : i = Cur.track => ~Through(i)
      /\ \A i \in DOMAIN tracks : Underway(i) = 0 /\ Underway(i)' = 0
  BY <1>s, EosTurn
<1>f. /\ IF seekable THEN t.lastPageWritten ELSE t.pageIndex > 0
      /\ \/ file' \in {file, Append(file, Fragment)}
         \/ seekable /\ file' = Overwrite(d)
  BY <1>q DEF EndOfStreamFails, Fragment
<1>k. k.track \in DOMAIN tracks /\ t \in TrackState /\ t.serial \in Nat
  <2>1. t \in TrackState
    BY <1>q, <1>t
  <2> QED BY <2>1, <1>q DEF TrackState
<1>n. seekable => Noted(file, t)
  BY <1>q DEF Inv, EndOfStream
<1>u. \A i \in DOMAIN tracks : i # k.track => tracks[i].serial # t.serial
  BY <1>q DEF Inv, Serials
<1>ser. \A i \in DOMAIN tracks : tracks[i].serial \in Nat
  <2>1. \A i \in DOMAIN tracks : tracks[i] \in TrackState
    BY <1>t
  <2> QED BY <2>1 DEF TrackState
<1>v. Len(packets) \in Nat /\ \A m \in DOMAIN file : file[m].id <= Len(packets)
  BY <1>t DEF Inv, Written
<1> HIDE DEF k, t, d
<1>a. /\ file' \in Seq(FileEntry) /\ Layout'
      /\ \A m \in DOMAIN file' :
           /\ \/ m \in DOMAIN file /\ file'[m] = file[m]
              \/ file'[m].page.serial = -1
           /\ file'[m].id <= Len(packets)
      /\ \A i \in DOMAIN tracks :
           /\ \A n : Past(file, tracks[i].serial, n) => Past(file', tracks[i].serial, n)
           /\ \A ps : Growing(file, tracks[i].serial, ps)
                        => Growing(file', tracks[i].serial, ps)
           /\ \A g : Until(file, tracks[i].serial, g) => Until(file', tracks[i].serial, g)
           /\ i # k.track =>
                /\ NoEOS(file, tracks[i].serial) => NoEOS(file', tracks[i].serial)
                /\ Noted(file, tracks[i]) => Noted(file', tracks[i])
  <2>1. CASE file' \in {file, Append(file, Fragment)}
    <3>1. /\ file' \in Seq(FileEntry) /\ Layout'
          /\ \A m \in DOMAIN file' :
               \/ m \in DOMAIN file /\ file'[m] = file[m]
               \/ file'[m].id = -1 /\ file'[m].page.serial = -1
      BY <2>1, <1>t, FragmentLeft
    <3>2. \A m \in DOMAIN file' : file'[m].id <= Len(packets)
      BY <3>1, <1>v
    <3>3. ASSUME NEW i \in DOMAIN tracks
          PROVE  /\ \A n : Past(file, tracks[i].serial, n)
                             => Past(file', tracks[i].serial, n)
                 /\ \A ps : Growing(file, tracks[i].serial, ps)
                              => Growing(file', tracks[i].serial, ps)
                 /\ \A g : Until(file, tracks[i].serial, g)
                             => Until(file', tracks[i].serial, g)
                 /\ NoEOS(file, tracks[i].serial) => NoEOS(file', tracks[i].serial)
                 /\ Noted(file, tracks[i]) => Noted(file', tracks[i])
      BY <2>1, <1>t, <1>ser, FragmentTracks
    <3> QED BY <3>1, <3>2, <3>3
  <2>2. CASE seekable /\ file' = Overwrite(d)
    <3>1. PICK K \in DOMAIN file :
            /\ file[K].page.serial = t.serial /\ d.page.serial = -1
            /\ d.id = file[K].id /\ d.at = file[K].at
            /\ d.page.size = file[K].page.size
            /\ Replaced(Overwrite(d), file, K, d)
      BY <2>2, <1>f, <1>k, <1>n, <1>t, NotedPageDamaged DEF d
    <3>2. Replaced(file', file, K, d)
      BY <2>2, <3>1
    <3>3. /\ file' \in Seq(FileEntry) /\ DOMAIN file' = DOMAIN file /\ file'[K] = d
          /\ \A m \in DOMAIN file : m # K => file'[m] = file[m]
      BY <3>2, Replacing
    <3>4. \A m \in DOMAIN file :
            /\ file'[m].at = file[m].at /\ file'[m].page.size = file[m].page.size
            /\ file'[m].id = file[m].id
      BY <3>1, <3>3
    <3>5. Layout'
      BY <3>3, <3>4, <1>t DEF Layout
    <3>6. ASSUME NEW i \in DOMAIN tracks
          PROVE  /\ \A n : Past(file, tracks[i].serial, n)
                             => Past(file', tracks[i].serial, n)
                 /\ \A ps : Growing(file, tracks[i].serial, ps)
                              => Growing(file', tracks[i].serial, ps)
                 /\ \A g : Until(file, tracks[i].serial, g)
                             => Until(file', tracks[i].serial, g)
                 /\ i # k.track =>
                      /\ NoEOS(file, tracks[i].serial) => NoEOS(file', tracks[i].serial)
                      /\ Noted(file, tracks[i]) => Noted(file', tracks[i])
      <4>1. d.page.serial # tracks[i].serial
        BY <3>1, <1>ser
      <4>2. /\ \A n : Past(file, tracks[i].serial, n) => Past(file', tracks[i].serial, n)
            /\ \A ps : Growing(file, tracks[i].serial, ps)
                         => Growing(file', tracks[i].serial, ps)
            /\ \A g : Until(file, tracks[i].serial, g)
                        => Until(file', tracks[i].serial, g)
        BY <3>2, <4>1, Damaging
      <4>3. ASSUME i # k.track
            PROVE  /\ NoEOS(file, tracks[i].serial) => NoEOS(file', tracks[i].serial)
                   /\ Noted(file, tracks[i]) => Noted(file', tracks[i])
        <5> DEFINE s == tracks[i].serial
        <5>1. file[K].page.serial # s
          BY <3>1, <4>3, <1>u
        <5>2. /\ Of(file', s) = Of(file, s) /\ Complete(file', s) = Complete(file, s)
              /\ \A m \in Of(file, s) : file'[m] = file[m]
              /\ \A m \in Complete(file, s) : file'[m] = file[m]
          BY <3>2, <4>1, <5>1, Damaging
        <5> QED BY <5>2, SamePages
      <4> QED BY <4>2, <4>3
    <3> QED BY <3>1, <3>3, <3>4, <3>5, <3>6, <1>v
  <2> QED BY <2>1, <2>2, <1>f
<1>1. TypeOK'
  <2>1. failures' \in Nat /\ errors' \subseteq {"header", "packet", "eos"}
    BY <1>s DEF Inv, TypeOK
  <2> QED BY <2>1, <1>s, <1>q, <1>a DEF Inv, TypeOK
<1>2. Serials'
  BY <1>a, <1>s DEF Inv, Serials
<1>3. Written(Cur)'
  <2>1. 0 <= Len(file') /\ 1..0 = {}
    BY <1>a
  <2> QED BY <2>1, <1>a, <1>q, <1>s DEF Written
<1>4. PacketsWhole' /\ Headers'
  BY <1>s DEF PacketsWhole, Headers
<1>5. Numbers'
  <2>1. \A i \in DOMAIN tracks : Past(file', tracks[i].serial, tracks[i].pageIndex)
    BY <1>a DEF Inv, Numbers
  <2> QED BY <2>1, <1>s DEF Numbers
<1>6. Granules'
  <2>1. \A i \in DOMAIN tracks :
          /\ Growing(file', tracks[i].serial, packets)
          /\ Until(file', tracks[i].serial, tracks[i].previousGranulePosition - 0)
          /\ ~started => tracks[i].previousGranulePosition = 0
    BY <1>a, <1>q DEF Inv, Granules
  <2> QED BY <2>1, <1>q, <1>s DEF Granules
<1>7. EndOfStream'
  <2>1. ASSUME NEW i \in DOMAIN tracks, ~Through(i)'
        PROVE  /\ NoEOS(file', tracks[i].serial)
               /\ seekable => Noted(file', tracks[i])
    <3>1. ~Through(i) /\ i # k.track
      BY <2>1, <1>q DEF k
    <3>2. NoEOS(file, tracks[i].serial) /\ (seekable => Noted(file, tracks[i]))
      BY <3>1 DEF Inv, EndOfStream
    <3> QED BY <3>1, <3>2, <1>a
  <2> QED BY <2>1, <1>s DEF EndOfStream
<1> QED BY <1>1, <1>2, <1>3, <1>4, <1>5, <1>6, <1>7, <1>q, <1>a DEF Inv

LEMMA NoElements ==
  /\ DOMAIN << >> = {} /\ Len(<< >>) = 0 /\ << >> \in Seq(TrackState)
  /\ << >> \in Seq(FileEntry) /\ << >> \in Seq(SentPacket)
<1>1. DOMAIN << >> = {}
  OBVIOUS
<1>2. Len(<< >>) = 0
  OBVIOUS
<1>3. << >> \in Seq(TrackState) /\ << >> \in Seq(FileEntry)
  OBVIOUS
<1>4. << >> \in Seq(SentPacket)
  OBVIOUS
<1> QED BY <1>1, <1>2, <1>3, <1>4

(* A writer that has written nothing.                                      *)
LEMMA FreshInv ==
  ASSUME Fresh, single \in BOOLEAN, tracks \in Seq(TrackState),
         \A i, j \in DOMAIN tracks : i = j,
         \A i \in DOMAIN tracks :
           /\ tracks[i].pageIndex = 0 /\ tracks[i].previousGranulePosition = 0
           /\ ~tracks[i].lastPageWritten,
         mu \in Callers \cup {NoCaller}, call \in [Callers -> CallState],
         \A c \in Callers : call[c] # Idle <=> mu = c,
         Cur.pages = << >>, Cur.written = 0, Cur.id = 0,
         \/ Cur = Idle
         \/ Cur.op = "new" /\ single /\ Cur.stage = "ids" /\ Cur.track = 1
            /\ 1 \in DOMAIN tracks
  PROVE  Inv
<1>0. /\ file = << >> /\ packets = << >> /\ open /\ ~started /\ failures = 0
      /\ errors = {} /\ seekable \in BOOLEAN
      /\ DOMAIN file = {} /\ DOMAIN packets = {} /\ Len(file) = 0 /\ Len(packets) = 0
      /\ open \in BOOLEAN /\ started \in BOOLEAN
      /\ file \in Seq(FileEntry) /\ packets \in Seq(SentPacket)
  <2>1. /\ file = << >> /\ packets = << >> /\ open = TRUE /\ started = FALSE
        /\ failures = 0 /\ errors = {} /\ seekable \in BOOLEAN
    BY DEF Fresh
  <2>2. /\ DOMAIN << >> = {} /\ Len(<< >>) = 0
        /\ << >> \in Seq(FileEntry) /\ << >> \in Seq(SentPacket)
    BY NoElements
  <2> QED BY <2>1, <2>2
<1>i. Idle.op = "none" /\ Idle.stage = "idle"
  BY IdleState
<1>e. \A s : Of(file, s) = {} /\ Complete(file, s) = {}
  BY <1>0 DEF Of, Complete
<1>1. TypeOK
  BY <1>0 DEF TypeOK
<1>2. Exclusive /\ Serials
  BY <1>0 DEF Exclusive, Serials
<1>3. Purpose(Cur) /\ Made(Cur)
  BY <1>0, <1>i DEF Purpose, Made
<1>4. Written(Cur)
  <2>1. 1..0 = {} /\ 0 <= 0
    OBVIOUS
  <2> QED BY <2>1, <1>0 DEF Written
<1>5. Layout /\ PacketsWhole
  BY <1>0 DEF Layout, PacketsWhole
<1>6. Numbers
  <2>1. \A i \in DOMAIN tracks :
          tracks[i].pageIndex + (IF Cur.track = i THEN Cur.written ELSE 0) = 0
    OBVIOUS
  <2> QED BY <2>1, <1>e DEF Numbers, Past, Numbered, Expects
<1>7. Granules
  BY <1>e DEF Granules, Growing, Until
<1>8. EndOfStream
  <2>1. \A i \in DOMAIN tracks : ~Through(i)
    BY <1>0, <1>i DEF Through
  <2> QED BY <2>1, <1>e DEF EndOfStream, NoEOS, Noted
<1>9. Headers
  <2>1. HeadersFirst
    BY <1>0 DEF HeadersFirst
  <2>2. 0 = 1 - 1
    OBVIOUS
  <2> QED BY <2>1, <2>2, <1>0, <1>i DEF Headers
<1> QED BY <1>1, <1>2, <1>3, <1>4, <1>5, <1>6, <1>7, <1>8, <1>9 DEF Inv

LEMMA InitInv ==
  ASSUME Init
  PROVE  Inv
<1>i. /\ Idle \in CallState /\ Idle.op = "none" /\ Idle.stage = "idle" /\ Idle.id = 0
      /\ Idle.pages = << >> /\ Idle.written = 0
  BY IdleState
<1>1. CASE InitWriter
  <2>1. /\ Fresh /\ single \in BOOLEAN /\ tracks = << >> /\ mu = NoCaller
        /\ call = [c \in Callers |-> Idle] /\ tracks \in Seq(TrackState)
        /\ DOMAIN tracks = {}
    BY <1>1, NoElements DEF InitWriter
  <2>2. Cur = Idle
    BY <2>1, Free
  <2>3. call \in [Callers -> CallState] /\ \A c \in Callers : call[c] # Idle <=> mu = c
    BY <2>1, <1>i, NoCallerAssumption
  <2> QED BY <2>1, <2>2, <2>3, <1>i, FreshInv
<1>2. CASE InitOggWriter
  <2> DEFINE n == [Idle EXCEPT !.op = "new"]
             k == At(n, "ids", 1)
  <2>1. PICK r \in Requests : tracks = <<newTrackState(r.ssrc, r.serial)>>
    BY <1>2 DEF InitOggWriter
  <2>2. /\ Fresh /\ single /\ single \in BOOLEAN /\ mu \in Callers
        /\ call = [c \in Callers |-> IF c = mu THEN k ELSE Idle]
    BY <1>2 DEF InitOggWriter
  <2> DEFINE t == newTrackState(r.ssrc, r.serial)
  <2>3. t \in TrackState /\ t.pageIndex = 0 /\ t.previousGranulePosition = 0
        /\ ~t.lastPageWritten
    <3>1. r.ssrc \in Nat /\ r.serial \in Nat
      BY RequestsAssumption
    <3> QED BY <3>1, NewTrackType
  <2> HIDE DEF t
  <2>4. tracks = <<t>>
    BY <2>1 DEF t
  <2>5. /\ tracks \in Seq(TrackState) /\ DOMAIN tracks = {1} /\ tracks[1] = t
    BY <2>3, <2>4
  <2>6. n \in CallState /\ n.op = "new" /\ n.id = 0
    BY <1>i DEF CallState
  <2>7. "ids" \in Stages /\ 1 \in Nat
    BY DEF Stages
  <2> HIDE DEF n
  <2>8. /\ k \in CallState /\ k.stage = "ids" /\ k.track = 1 /\ k.pages = << >>
        /\ k.written = 0 /\ k.op = "new" /\ k.id = 0
    BY <2>6, <2>7, AtState
  <2> HIDE DEF k
  <2>9. k # Idle
    BY <2>8, <1>i
  <2>10. /\ call \in [Callers -> CallState] /\ call[mu] = k
         /\ \A c \in Callers : call[c] # Idle <=> mu = c
    BY <2>2, <2>8, <2>9, <1>i
  <2>11. Cur = k
    BY <2>2, <2>10, NoCallerAssumption DEF Cur
  <2> QED BY <2>2, <2>3, <2>5, <2>8, <2>10, <2>11, FreshInv
<1> QED BY <1>1, <1>2 DEF Init

LEMMA StutterInv ==
  ASSUME Inv, UNCHANGED vars
  PROVE  Inv'
<1>1. /\ single' = single /\ seekable' = seekable /\ mu' = mu /\ open' = open
      /\ started' = started /\ tracks' = tracks /\ call' = call /\ file' = file
      /\ packets' = packets /\ failures' = failures /\ errors' = errors
  BY DEF vars
<1>2. Cur' = Cur /\ GivenUp' = GivenUp
  BY <1>1 DEF Cur, GivenUp
<1>3. TypeOK' /\ Exclusive' /\ Serials'
  BY <1>1 DEF Inv, TypeOK, Exclusive, Serials
<1>4. Purpose(Cur)' /\ Written(Cur)'
  BY <1>1, <1>2 DEF Inv, Purpose, Written, PacketId
<1>5. Made(Cur)'
  BY <1>1, <1>2 DEF Inv, Made, PacketLength
<1>6. Layout' /\ PacketsWhole'
  BY <1>1 DEF Inv, Layout, PacketsWhole
<1>7. Numbers'
  BY <1>1, <1>2 DEF Inv, Numbers
<1>8. Granules'
  BY <1>1, <1>2 DEF Inv, Granules, Underway
<1>9. EndOfStream'
  BY <1>1, <1>2 DEF Inv, EndOfStream, Through
<1>10. Headers'
  BY <1>1, <1>2 DEF Inv, Headers, HeadersFirst, Tagged
<1> QED BY <1>3, <1>4, <1>5, <1>6, <1>7, <1>8, <1>9, <1>10 DEF Inv

LEMMA NextInv ==
  ASSUME Inv, [Next]_vars
  PROVE  Inv'
<1>1. CASE UNCHANGED vars
  BY <1>1, StutterInv
<1>2. CASE Next
  <2>1. PICK c \in Callers : Call(c) \/ Step(c)
    BY <1>2 DEF Next
  <2>2. CASE Call(c)
    <3>1. UNCHANGED <<single, seekable>>
      BY <2>2 DEF Call
    <3>2. CASE \E r \in Requests : NewTrack(r.ssrc, r.serial)
      BY <3>1, <3>2, NewTrackInv
    <3>3. CASE \E i \in DOMAIN tracks, p \in Payloads : WriteRTP(c, i, p.len, p.samples)
      BY <3>1, <3>3, WriteRTPInv
    <3>4. CASE Close(c)
      BY <3>1, <3>4, CloseInv
    <3> QED BY <2>2, <3>2, <3>3, <3>4 DEF Call
  <2>3. CASE Step(c)
    <3>1. UNCHANGED <<single, seekable>>
      BY <2>3 DEF Step
    <3>2. CASE BadPayload(c)
      BY <3>1, <3>2, BadPayloadInv
    <3>3. CASE BeginPacket(c)
      BY <3>1, <3>3, BeginPacketInv
    <3>4. CASE WritePage(c)
      BY <3>1, <3>4, WritePageInv
    <3>5. CASE WriteLastPage(c)
      BY <3>1, <3>5, WriteLastPageInv
    <3>6. CASE PageFails(c)
      BY <3>1, <3>6, PageFailsInv
    <3>7. CASE Started(c)
      BY <3>1, <3>7, StartedInv
    <3>8. CASE MarkEndOfStream(c)
      BY <3>1, <3>8, MarkEndOfStreamInv
    <3>9. CASE WriteNilEndOfStream(c)
      BY <3>1, <3>9, WriteNilEndOfStreamInv
    <3>10. CASE EndOfStreamFails(c)
      BY <3>1, <3>10, EndOfStreamFailsInv
    <3>11. CASE Closed(c)
      BY <3>1, <3>11, ClosedInv
    <3> QED BY <2>3, <3>2, <3>3, <3>4, <3>5, <3>6, <3>7, <3>8, <3>9, <3>10, <3>11 DEF Step
  <2> QED BY <2>1, <2>2, <2>3
<1> QED BY <1>1, <1>2

-----------------------------------------------------------------------------
(* Whatever the goroutines call in whatever order, and whichever writes    *)
(* fail: the writer's state, its call in progress and its output fit       *)
(* together as the invariant says.                                         *)
THEOREM InvHolds == Spec => []Inv
<1>1. Init => Inv
  BY InitInv
<1>2. Inv /\ [Next]_vars => Inv'
  BY NextInv
<1> QED BY <1>1, <1>2, PTL DEF Spec

(* startLocked puts all identification headers before all comment headers  *)
(* and both before the audio, for every number of tracks, of goroutines    *)
(* and of packets, whoever makes the first call.                           *)
THEOREM HeadersHold == Spec => []HeadersFirst
<1>1. Inv => HeadersFirst
  BY DEF Inv, Headers, HeadersFirst
<1> QED BY <1>1, InvHolds, PTL

(* A packet for which writePage reported success is whole in the output,   *)
(* for packets of every length.                                            *)
THEOREM PacketsHold == Spec => []PacketsWhole
<1>1. Inv => PacketsWhole
  BY DEF Inv
<1> QED BY <1>1, InvHolds, PTL

(* pageIndex numbers the pages of each serial without a gap, given up      *)
(* packets included.                                                       *)
THEOREM NumbersHold == Spec => []NumbersHaveNoGap
<1>1. Inv => NumbersHaveNoGap
  BY DEF Inv, Numbers, NumbersHaveNoGap
<1> QED BY <1>1, InvHolds, PTL

(* A closed writer has set EOS on the last page that completes a packet of *)
(* every track, and on no other page.                                      *)
THEOREM EndHolds == Spec => []EndsWithEOS
<1>1. Inv => EndsWithEOS
  BY DEF Inv, EndOfStream, EndsWithEOS, Through
<1> QED BY <1>1, InvHolds, PTL

-----------------------------------------------------------------------------
(* The time of each track.                                                 *)

(* The least-number principle for a set.                                   *)
LEMMA LeastNumber ==
  ASSUME NEW T, T \subseteq Nat, T # {}
  PROVE  \E x \in T : \A y \in T : x <= y
<1>1. IsWellFoundedOn(OpToRel(<, Nat), Nat)
  BY NatLessThanWellFounded
<1>2. PICK x \in T : \A y \in T : ~(<<y, x>> \in OpToRel(<, Nat))
  BY <1>1, WFMin
<1>3. \A y \in T : ~(y < x)
  BY <1>2 DEF OpToRel
<1> QED BY <1>3

(* When a track has a clock, Clock is it.                                  *)
LEMMA ClockIs ==
  ASSUME NEW ps, Len(ps) \in Nat, NEW i, NEW c, IsClock(c, ps, i),
         \A n \in 1..Len(ps) : Share(ps[n], i) \in Nat
  PROVE  Clock(ps, i) = c
<1> DEFINE Eq(d) == d = [n \in 0..Len(ps) |->
                           IF n = 0 THEN 0 ELSE d[n - 1] + Share(ps[n], i)]
<1>1. Eq(c)
  <2>1. /\ c \in [0..Len(ps) -> Nat] /\ c[0] = 0
        /\ \A n \in 1..Len(ps) : c[n] = c[n - 1] + Share(ps[n], i)
    BY DEF IsClock
  <2>2. \A n \in 0..Len(ps) : n = 0 \/ n \in 1..Len(ps)
    OBVIOUS
  <2> QED BY <2>1, <2>2
<1>2. Clock(ps, i) = CHOOSE d : Eq(d)
  BY DEF Clock
<1>3. Eq(Clock(ps, i))
  <2> HIDE DEF Eq
  <2> QED BY <1>1, <1>2
<1> DEFINE d == Clock(ps, i)
           T == {n \in 0..Len(ps) : c[n] # d[n]}
<1> HIDE DEF d
<1>4. d = [n \in 0..Len(ps) |-> IF n = 0 THEN 0 ELSE d[n - 1] + Share(ps[n], i)]
  BY <1>3 DEF d
<1>5. /\ d[0] = 0
      /\ \A n \in 1..Len(ps) : d[n] = d[n - 1] + Share(ps[n], i)
  BY <1>4
<1>6. /\ c \in [0..Len(ps) -> Nat] /\ c[0] = 0
      /\ \A n \in 1..Len(ps) : c[n] = c[n - 1] + Share(ps[n], i)
  BY DEF IsClock
<1>7. ASSUME T # {} PROVE FALSE
  <2>1. T \subseteq Nat
    OBVIOUS
  <2>2. PICK x \in T : \A y \in T : x <= y
    BY <1>7, <2>1, LeastNumber
  <2>3. x # 0 /\ x \in 0..Len(ps)
    BY <2>2, <1>5, <1>6
  <2>4. x \in 1..Len(ps) /\ x - 1 \in 0..Len(ps) /\ ~(x <= x - 1)
    BY <2>3
  <2>5. c[x - 1] = d[x - 1]
    BY <2>2, <2>4
  <2>6. c[x] = d[x]
    BY <2>4, <2>5, <1>5, <1>6
  <2> QED BY <2>2, <2>6
<1>8. \A n \in 0..Len(ps) : c[n] = d[n]
  BY <1>7
<1>9. d = [n \in 0..Len(ps) |-> d[n]]
  BY <1>4
<1>10. c = [n \in 0..Len(ps) |-> c[n]]
  BY <1>6
<1> QED BY <1>8, <1>9, <1>10 DEF d

-----------------------------------------------------------------------------
LEMMA ShareType ==
  ASSUME packets \in Seq(SentPacket), NEW i
  PROVE  \A n \in 1..Len(packets) : Share(packets[n], i) \in Nat
<1>1. \A n \in 1..Len(packets) : packets[n] \in SentPacket
  OBVIOUS
<1>2. \A p \in SentPacket : p.samples \in Nat
  BY DEF SentPacket
<1> QED BY <1>1, <1>2 DEF Share

(* No packet's time is added: the clock still fits, with more header pages *)
(* or a page of Close perhaps.                                             *)
LEMMA FitsStill ==
  ASSUME NEW c, NEW ps, NEW qs, NEW i, NEW g, NEW f, NEW h, NEW s,
         Fits(c, ps, i, g, f, s), Len(ps) \in Nat, Len(qs) = Len(ps),
         \A n \in 1..Len(ps) : Share(qs[n], i) = Share(ps[n], i),
         \A k \in Complete(h, s) :
           \/ /\ k \in Complete(f, s)
              /\ h[k].page.granule = f[k].page.granule /\ h[k].id = f[k].id
           \/ h[k].id = 0 /\ h[k].page.granule = 0
           \/ h[k].id = -1 /\ h[k].page.granule = g
  PROVE  Fits(c, qs, i, g, h, s)
<1>1. /\ IsClock(c, ps, i) /\ g = c[Len(ps)] /\ c[0] = 0
      /\ \A k \in Complete(f, s) :
           f[k].page.granule = c[IF f[k].id >= 0 THEN f[k].id ELSE Len(ps)]
  BY DEF Fits, IsClock
<1>2. IsClock(c, qs, i)
  BY <1>1 DEF IsClock
<1>3. ASSUME NEW k \in Complete(h, s)
      PROVE  h[k].page.granule = c[IF h[k].id >= 0 THEN h[k].id ELSE Len(qs)]
  BY <1>1
<1> QED BY <1>1, <1>2, <1>3 DEF Fits

(* Track i has a clock, in the state with packets ps, file f and granule   *)
(* position g.                                                             *)
HasClock(ps, i, g, f, s) == \E c \in [0..Len(ps) -> Nat] : Fits(c, ps, i, g, f, s)

(* The packet that was being written is over: its duration is added.       *)
LEMMA FitsOver ==
  ASSUME NEW c, NEW ps, NEW qs, NEW i, NEW g, NEW d, NEW f, NEW h, NEW s,
         Fits(c, ps, i, g, f, s), Len(ps) \in Nat, Len(ps) > 0, Len(qs) = Len(ps),
         \A n \in 1..Len(ps) : n # Len(ps) => Share(qs[n], i) = Share(ps[n], i),
         Share(ps[Len(ps)], i) = 0, Share(qs[Len(ps)], i) = d, d \in Nat,
         \A k \in Complete(h, s) :
           \/ /\ k \in Complete(f, s) /\ f[k].id \in 0..(Len(ps) - 1)
              /\ h[k].page.granule = f[k].page.granule /\ h[k].id = f[k].id
           \/ h[k].id = Len(ps) /\ h[k].page.granule = g + d
  PROVE  HasClock(qs, i, g + d, h, s)
<1> DEFINE N == Len(ps)
           b == [c EXCEPT ![N] = g + d]
<1>1. /\ c \in [0..N -> Nat] /\ c[0] = 0 /\ g = c[N]
      /\ \A n \in 1..N : c[n] = c[n - 1] + Share(ps[n], i)
      /\ \A k \in Complete(f, s) :
           f[k].page.granule = c[IF f[k].id >= 0 THEN f[k].id ELSE N]
  BY DEF Fits, IsClock
<1>n. N \in Nat /\ N > 0 /\ N = Len(ps) /\ N = Len(qs)
  OBVIOUS
<1> HIDE DEF N
<1>2. g \in Nat /\ g + d \in Nat /\ N \in 0..N
  BY <1>1, <1>n
<1>3. b \in [0..N -> Nat] /\ b[N] = g + d /\ \A n \in 0..N : n # N => b[n] = c[n]
  BY <1>1, <1>2
<1> HIDE DEF b
<1>4. c[N - 1] = g
  <2>1. N \in 1..N /\ N - 1 \in 0..N
    BY <1>n
  <2>2. c[N] = c[N - 1] + 0
    BY <2>1, <1>1, <1>n
  <2> QED BY <2>1, <2>2, <1>1
<1>5. \A n \in 1..N : b[n] = b[n - 1] + Share(qs[n], i)
  <2>1. ASSUME NEW n \in 1..N PROVE b[n] = b[n - 1] + Share(qs[n], i)
    <3>1. n - 1 \in 0..N /\ n - 1 # N /\ n \in 0..N
      BY <1>n
    <3>2. b[n - 1] = c[n - 1]
      BY <3>1, <1>3
    <3>3. CASE n = N
      BY <3>2, <3>3, <1>3, <1>4, <1>n
    <3>4. CASE n # N
      BY <3>1, <3>2, <3>4, <1>1, <1>3, <1>n
    <3> QED BY <3>3, <3>4
  <2> QED BY <2>1
<1>6. b[0] = 0
  BY <1>1, <1>3, <1>n
<1>7. \A k \in Complete(h, s) :
        h[k].page.granule = b[IF h[k].id >= 0 THEN h[k].id ELSE N]
  <2>1. SUFFICES ASSUME NEW k \in Complete(h, s)
        PROVE  h[k].page.granule = b[IF h[k].id >= 0 THEN h[k].id ELSE N]
    OBVIOUS
  <2>2. CASE h[k].id = N /\ h[k].page.granule = g + d
    BY <2>2, <1>3, <1>n
  <2>3. CASE /\ k \in Complete(f, s) /\ f[k].id \in 0..(N - 1)
             /\ h[k].page.granule = f[k].page.granule /\ h[k].id = f[k].id
    <3>1. f[k].id >= 0 /\ f[k].id \in 0..N /\ f[k].id # N
      BY <2>3, <1>n
    <3> QED BY <2>3, <3>1, <1>1, <1>3
  <2> QED BY <2>2, <2>3, <1>n
<1>8. Fits(b, qs, i, g + d, h, s)
  BY <1>3, <1>5, <1>6, <1>7, <1>n DEF Fits, IsClock
<1> QED BY <1>3, <1>8, <1>n DEF HasClock

(* One more packet, of which nothing is written yet.                       *)
LEMMA FitsLonger ==
  ASSUME NEW c, NEW ps, NEW qs, NEW i, NEW g, NEW f, NEW s,
         Fits(c, ps, i, g, f, s), Len(ps) \in Nat, Len(qs) = Len(ps) + 1,
         \A n \in 1..Len(ps) : Share(qs[n], i) = Share(ps[n], i),
         Share(qs[Len(ps) + 1], i) = 0,
         \A k \in Complete(f, s) : f[k].id \in 0..Len(ps)
  PROVE  HasClock(qs, i, g, f, s)
<1> DEFINE N == Len(ps)
           b == [n \in 0..(N + 1) |-> IF n = N + 1 THEN g ELSE c[n]]
<1>1. /\ c \in [0..N -> Nat] /\ c[0] = 0 /\ g = c[N]
      /\ \A n \in 1..N : c[n] = c[n - 1] + Share(ps[n], i)
      /\ \A k \in Complete(f, s) :
           f[k].page.granule = c[IF f[k].id >= 0 THEN f[k].id ELSE N]
  BY DEF Fits, IsClock
<1>n. N \in Nat /\ N = Len(ps) /\ N + 1 = Len(qs) /\ N + 1 \in 0..(N + 1)
  OBVIOUS
<1> HIDE DEF N
<1>2. g \in Nat /\ \A n \in 0..N : n \in 0..(N + 1) /\ n # N + 1
  BY <1>1, <1>n
<1>3. b \in [0..(N + 1) -> Nat] /\ b[N + 1] = g /\ \A n \in 0..N : b[n] = c[n]
  BY <1>1, <1>2, <1>n
<1> HIDE DEF b
<1>5. \A n \in 1..(N + 1) : b[n] = b[n - 1] + Share(qs[n], i)
  <2>1. ASSUME NEW n \in 1..(N + 1) PROVE b[n] = b[n - 1] + Share(qs[n], i)
    <3>1. n - 1 \in 0..N
      BY <1>n
    <3>2. b[n - 1] = c[n - 1] /\ c[n - 1] \in Nat
      BY <3>1, <1>1, <1>3
    <3>3. CASE n = N + 1
      <4>1. n - 1 = N
        BY <3>3, <1>n
      <4> QED BY <3>2, <3>3, <4>1, <1>1, <1>3, <1>n
    <3>4. CASE n # N + 1
      <4>1. n \in 1..N /\ n \in 0..N
        BY <3>4, <1>n
      <4> QED BY <3>2, <4>1, <1>1, <1>3, <1>n
    <3> QED BY <3>3, <3>4
  <2> QED BY <2>1
<1>6. b[0] = 0
  BY <1>1, <1>3, <1>n
<1>7. \A k \in Complete(f, s) :
        f[k].page.granule = b[IF f[k].id >= 0 THEN f[k].id ELSE N + 1]
  <2>1. SUFFICES ASSUME NEW k \in Complete(f, s)
        PROVE  f[k].page.granule = b[IF f[k].id >= 0 THEN f[k].id ELSE N + 1]
    OBVIOUS
  <2>2. f[k].id \in 0..N /\ f[k].id >= 0
    BY <1>n
  <2> QED BY <2>2, <1>1, <1>3
<1>8. Fits(b, qs, i, g, f, s)
  BY <1>3, <1>5, <1>6, <1>7, <1>n DEF Fits, IsClock
<1> QED BY <1>3, <1>8, <1>n DEF HasClock

(* Only Close, which nothing follows, writes pages of no packet.           *)
Closing == ~open \/ Cur.op = "close"

LEMMA ClockedIs ==
  Clocked <=>
    /\ \A i \in DOMAIN tracks :
         HasClock(packets, i, tracks[i].previousGranulePosition - Underway(i),
                  file, tracks[i].serial)
    /\ Cur.op = "write" => Cur.id = Len(packets)
    /\ \A i \in DOMAIN tracks : \A k \in Complete(file, tracks[i].serial) :
         file[k].id < 0 => Closing
BY DEF Clocked, HasClock, Closing

(* A step that adds no packet's time.                                      *)
LEMMA ClockedStays ==
  ASSUME Inv, Clocked, DOMAIN tracks' = DOMAIN tracks, Len(packets') = Len(packets),
         \A i \in DOMAIN tracks :
           /\ tracks'[i].serial = tracks[i].serial
           /\ tracks'[i].previousGranulePosition - Underway(i)'
                = tracks[i].previousGranulePosition - Underway(i)
           /\ \A n \in 1..Len(packets) : Share(packets'[n], i) = Share(packets[n], i)
           /\ \A k \in Complete(file', tracks[i].serial) :
                \/ /\ k \in Complete(file, tracks[i].serial)
                   /\ file'[k].page.granule = file[k].page.granule
                   /\ file'[k].id = file[k].id
                \/ file'[k].id = 0 /\ file'[k].page.granule = 0
                \/ /\ file'[k].id = -1 /\ Closing'
                   /\ file'[k].page.granule
                        = tracks[i].previousGranulePosition - Underway(i),
         Cur'.op = "write" => Cur'.id = Len(packets),
         Closing => Closing'
  PROVE  Clocked'
<1>p. Len(packets) \in Nat
  BY DEF Inv, TypeOK
<1>c. /\ \A i \in DOMAIN tracks :
           HasClock(packets, i, tracks[i].previousGranulePosition - Underway(i),
                    file, tracks[i].serial)
      /\ \A i \in DOMAIN tracks : \A k \in Complete(file, tracks[i].serial) :
           file[k].id < 0 => Closing
  BY ClockedIs
<1>1. ASSUME NEW i \in DOMAIN tracks
      PROVE  HasClock(packets', i, tracks[i].previousGranulePosition - Underway(i),
                      file', tracks[i].serial)
  <2> DEFINE g == tracks[i].previousGranulePosition - Underway(i)
             s == tracks[i].serial
  <2>1. PICK c \in [0..Len(packets) -> Nat] : Fits(c, packets, i, g, file, s)
    BY <1>c DEF HasClock
  <2>2. /\ \A n \in 1..Len(packets) : Share(packets'[n], i) = Share(packets[n], i)
        /\ \A k \in Complete(file', s) :
             \/ /\ k \in Complete(file, s)
                /\ file'[k].page.granule = file[k].page.granule
                /\ file'[k].id = file[k].id
             \/ file'[k].id = 0 /\ file'[k].page.granule = 0
             \/ file'[k].id = -1 /\ file'[k].page.granule = g
    OBVIOUS
  <2> HIDE DEF g, s
  <2>3. Fits(c, packets', i, g, file', s)
    BY <2>1, <2>2, <1>p, FitsStill
  <2> QED BY <2>1, <2>3 DEF HasClock, g, s
<1>2. ASSUME NEW i \in DOMAIN tracks, NEW k \in Complete(file', tracks[i].serial),
             file'[k].id < 0
      PROVE  Closing'
  BY <1>2, <1>c
<1>3. /\ \A i \in DOMAIN tracks' :
           HasClock(packets', i, tracks'[i].previousGranulePosition - Underway(i)',
                    file', tracks'[i].serial)
      /\ Cur'.op = "write" => Cur'.id = Len(packets')
      /\ \A i \in DOMAIN tracks' : \A k \in Complete(file', tracks'[i].serial) :
           file'[k].id < 0 => Closing'
  BY <1>1, <1>2
<1> QED BY <1>3 DEF Clocked, HasClock, Closing

LEMMA NoneUnderway ==
  /\ Cur.pages = << >> => \A i : Underway(i) = 0
  /\ Cur'.pages = << >> => \A i : Underway(i)' = 0
BY DEF Underway

(* Nothing but the call in progress changes, which writes no page and goes *)
(* on with none.                                                           *)
LEMMA ClockedQuietly ==
  ASSUME Inv, Clocked, file' = file, tracks' = tracks, packets' = packets,
         Cur.pages = << >>, Cur'.pages = << >>,
         Cur'.op = "write" => Cur'.id = Len(packets), Closing => Closing'
  PROVE  Clocked'
<1>1. \A i : Underway(i) = 0 /\ Underway(i)' = 0
  BY NoneUnderway
<1> QED BY <1>1, ClockedStays

(* The packets of the pages in the file that end one.                      *)
LEMMA PacketsOfPages ==
  ASSUME Inv, Clocked, ~Closing, NEW i \in DOMAIN tracks,
         NEW m \in Complete(file, tracks[i].serial)
  PROVE  /\ file[m].id \in 0..Len(packets)
         /\ Cur.op = "write" => file[m].id \in 0..(Len(packets) - 1)
<1>t. /\ file \in Seq(FileEntry) /\ Len(packets) \in Nat /\ Cur \in CallState
  BY IdleState DEF Inv, TypeOK, Cur
<1>1. m \in DOMAIN file /\ Ends(file[m]) /\ file[m] \in FileEntry
  BY <1>t DEF Complete, Of
<1>2. file[m].id \in Int /\ ~(file[m].id < 0)
  BY <1>1, EntryTypes, ClockedIs
<1>3. file[m].id <= Len(packets)
  BY <1>1 DEF Inv, Written
<1>4. ASSUME Cur.op = "write" PROVE file[m].id # Len(packets)
  <2>1. SUFFICES ASSUME file[m].id = Len(packets) PROVE FALSE
    OBVIOUS
  <2>2. Cur.id = Len(packets)
    BY <1>4, ClockedIs
  <2>3. m > Len(file) - Cur.written /\ Cur.written <= Len(file)
        /\ \A q \in 1..Cur.written :
             file[Len(file) - Cur.written + q].page = Cur.pages[q]
    BY <1>4, <2>1, <2>2, <1>1 DEF Inv, Written
  <2> DEFINE q == m - (Len(file) - Cur.written)
             w == Cur.written
  <2>4. w \in Nat /\ Len(file) \in Nat /\ m \in 1..Len(file)
    BY <1>1, <1>t, CallTypes
  <2>5. q \in 1..w /\ Len(file) - w + q = m
    BY <2>3, <2>4
  <2>6. file[m].page = Cur.pages[q]
    BY <2>3, <2>5
  <2>7. Cur.pages # << >>
    <3>1. w # 0
      BY <2>4, <2>5
    <3> QED BY <3>1 DEF Inv, Made
  <2>8. w < Len(Cur.pages) /\ Len(Cur.pages) \in Nat
        /\ \A n \in 1..Len(Cur.pages) :
             Cur.pages[n].granule # noGranulePosition <=> n = Len(Cur.pages)
    BY <2>7, NextPageFacts
  <2>9. q \in 1..Len(Cur.pages) /\ q # Len(Cur.pages)
    BY <2>4, <2>5, <2>8
  <2>10. file[m].page.granule = noGranulePosition
    BY <2>6, <2>8, <2>9
  <2> QED BY <2>10, <1>1 DEF Ends
<1> QED BY <1>t, <1>2, <1>3, <1>4

(* A packet is over, well or not.                                          *)
LEMMA ClockedOver ==
  ASSUME Inv, Clocked, open, Cur.stage = "packet", Cur.pages # << >>,
         NEW st \in {"ok", "failed"}, SetStatus(Cur.id, st), Cur' = Idle,
         DOMAIN tracks' = DOMAIN tracks,
         \A i \in DOMAIN tracks :
           /\ tracks'[i].serial = tracks[i].serial
           /\ tracks'[i].previousGranulePosition = tracks[i].previousGranulePosition
           /\ \A m \in Complete(file', tracks[i].serial) :
                \/ /\ m \in Complete(file, tracks[i].serial)
                   /\ file'[m].page.granule = file[m].page.granule
                   /\ file'[m].id = file[m].id
                \/ /\ i = Cur.track /\ file'[m].id = Cur.id
                   /\ file'[m].page.granule = tracks[i].previousGranulePosition
  PROVE  Clocked'
<1> DEFINE k == Cur
           N == Len(packets)
           d == packets[k.id].samples
<1>t. /\ packets \in Seq(SentPacket) /\ N \in Nat /\ tracks \in Seq(TrackState)
  BY DEF Inv, TypeOK
<1>w. Writing(k)
  BY DEF Writing
<1>k. /\ k.op = "write" /\ k.id \in DOMAIN packets /\ d \in Nat
      /\ packets[k.id].status = "pending" /\ packets[k.id].track = k.track
      /\ k.track \in DOMAIN tracks
  BY <1>w, PacketFacts
<1>i. Idle.pages = << >> /\ Idle.op = "none"
  BY IdleState
<1>n. k.id = N /\ ~Closing
  BY <1>k, ClockedIs DEF Closing
<1>u. /\ \A i : Underway(i)' = 0
      /\ \A i : Underway(i) = IF i = k.track THEN d ELSE 0
  BY <1>i, NoneUnderway DEF Underway
<1>p. /\ Len(packets') = N
      /\ \A n \in 1..N : n # N => packets'[n] = packets[n]
      /\ packets'[N].status = st /\ packets'[N].track = k.track
      /\ packets'[N].samples = d /\ N > 0 /\ N \in 1..N
  <2>1. /\ Len(packets') = Len(packets) /\ PacketsKept
        /\ \A n \in DOMAIN packets : n # k.id => packets'[n] = packets[n]
        /\ k.id # 0 => packets'[k.id].status = st
    BY <1>t, <1>k, StatusSet
  <2>2. k.id # 0 /\ DOMAIN packets = 1..N
    BY <1>k, <1>t
  <2> QED BY <2>1, <2>2, <1>k, <1>n, <1>t DEF PacketsKept
<1>c. \A i \in DOMAIN tracks :
        HasClock(packets, i, tracks[i].previousGranulePosition - Underway(i),
                 file, tracks[i].serial)
  BY ClockedIs
<1>g. \A i \in DOMAIN tracks : tracks[i].previousGranulePosition \in Nat
  <2>1. \A i \in DOMAIN tracks : tracks[i] \in TrackState
    BY <1>t
  <2> QED BY <2>1 DEF TrackState
<1>o. \A i \in DOMAIN tracks : \A m \in Complete(file, tracks[i].serial) :
        file[m].id \in 0..(N - 1)
  BY <1>n, <1>k, PacketsOfPages
<1>cu. \A m, i : i \in DOMAIN tracks /\ m \in Complete(file', tracks[i].serial) =>
                \/ /\ m \in Complete(file, tracks[i].serial)
                   /\ file'[m].page.granule = file[m].page.granule
                   /\ file'[m].id = file[m].id
                \/ /\ i = k.track /\ file'[m].id = N
                   /\ file'[m].page.granule = tracks[i].previousGranulePosition
  BY <1>n
<1> HIDE DEF k, N, d
<1>1. ASSUME NEW i \in DOMAIN tracks, i # k.track
      PROVE  HasClock(packets', i, tracks[i].previousGranulePosition,
                      file', tracks[i].serial)
  <2> DEFINE g == tracks[i].previousGranulePosition
             s == tracks[i].serial
  <2>1. PICK c \in [0..N -> Nat] : Fits(c, packets, i, g, file, s)
    <3>1. HasClock(packets, i, g, file, s)
      <4>1. g - Underway(i) = g
        BY <1>1, <1>u, <1>g
      <4> QED BY <1>c, <4>1
    <3> QED BY <3>1 DEF HasClock, N
  <2>2. \A n \in 1..N : Share(packets'[n], i) = Share(packets[n], i)
    <3>1. Share(packets'[N], i) = 0 /\ Share(packets[N], i) = 0
      BY <1>1, <1>p, <1>k, <1>n DEF Share
    <3> QED BY <3>1, <1>p
  <2>3. \A m \in Complete(file', s) :
          /\ m \in Complete(file, s)
          /\ file'[m].page.granule = file[m].page.granule /\ file'[m].id = file[m].id
    BY <1>1, <1>cu
  <2> HIDE DEF g, s
  <2>4. Fits(c, packets', i, g, file', s)
    BY <2>1, <2>2, <2>3, <1>p, <1>t, FitsStill DEF N
  <2> QED BY <2>1, <2>4, <1>p DEF HasClock, g, s
<1>2. ASSUME NEW i \in DOMAIN tracks, i = k.track
      PROVE  HasClock(packets', i, tracks[i].previousGranulePosition,
                      file', tracks[i].serial)
  <2> DEFINE q == tracks[i].previousGranulePosition
             g == q - d
             s == tracks[i].serial
  <2>1. PICK c \in [0..N -> Nat] : Fits(c, packets, i, g, file, s)
    <3>1. HasClock(packets, i, g, file, s)
      BY <1>2, <1>c, <1>u
    <3> QED BY <3>1 DEF HasClock, N
  <2>2. /\ \A n \in 1..N : n # N => Share(packets'[n], i) = Share(packets[n], i)
        /\ Share(packets[N], i) = 0 /\ Share(packets'[N], i) = d
    <3>1. Share(packets[N], i) = 0
      BY <1>k, <1>n DEF Share
    <3>2. Share(packets'[N], i) = d
      BY <1>2, <1>p DEF Share
    <3> QED BY <3>1, <3>2, <1>p
  <2>3. g + d = q
    BY <1>g, <1>k
  <2>4. \A m \in Complete(file', s) :
          \/ /\ m \in Complete(file, s) /\ file[m].id \in 0..(N - 1)
             /\ file'[m].page.granule = file[m].page.granule
             /\ file'[m].id = file[m].id
          \/ file'[m].id = N /\ file'[m].page.granule = g + d
    BY <1>2, <1>cu, <1>o, <2>3
  <2> HIDE DEF g, s, q
  <2>5. HasClock(packets', i, g + d, file', s)
    <3>1. /\ Fits(c, packets, i, g, file, s) /\ Len(packets) \in Nat /\ Len(packets) > 0
          /\ Len(packets') = Len(packets) /\ d \in Nat
          /\ Share(packets[Len(packets)], i) = 0
          /\ Share(packets'[Len(packets)], i) = d
      BY <2>1, <2>2, <1>p, <1>t, <1>k DEF N
    <3>2. \A n \in 1..Len(packets) :
            n # Len(packets) => Share(packets'[n], i) = Share(packets[n], i)
      BY <2>2 DEF N
    <3>3. \A m \in Complete(file', s) :
            \/ /\ m \in Complete(file, s) /\ file[m].id \in 0..(Len(packets) - 1)
               /\ file'[m].page.granule = file[m].page.granule
               /\ file'[m].id = file[m].id
            \/ file'[m].id = Len(packets) /\ file'[m].page.granule = g + d
      BY <2>4 DEF N
    <3> QED BY <3>1, <3>2, <3>3, FitsOver
  <2> QED BY <2>3, <2>5 DEF q, s
<1>3. \A i \in DOMAIN tracks' : \A m \in Complete(file', tracks'[i].serial) :
        ~(file'[m].id < 0)
  <2>1. ASSUME NEW i \in DOMAIN tracks, NEW m \in Complete(file', tracks[i].serial)
        PROVE  ~(file'[m].id < 0)
    <3>1. file'[m].id = N \/ file'[m].id \in 0..(N - 1)
      BY <1>cu, <1>o
    <3> QED BY <3>1, <1>t
  <2> QED BY <2>1
<1>4. \A i \in DOMAIN tracks :
        tracks'[i].previousGranulePosition - Underway(i)'
          = tracks[i].previousGranulePosition
  BY <1>g, <1>u
<1> QED BY <1>1, <1>2, <1>3, <1>4, <1>i DEF Clocked, HasClock

LEMMA NewTrackClocked ==
  ASSUME Inv, Clocked, NEW r \in Requests, NewTrack(r.ssrc, r.serial)
  PROVE  Clocked'
<1> DEFINE n == Len(tracks) + 1
           new == newTrackState(r.ssrc, r.serial)
           N == Len(packets)
<1>r. r.ssrc \in Nat /\ r.serial \in Nat
  BY RequestsAssumption
<1>t. /\ tracks \in Seq(TrackState) /\ file \in Seq(FileEntry)
      /\ packets \in Seq(SentPacket) /\ N \in Nat
  BY DEF Inv, TypeOK
<1>s. /\ mu = NoCaller /\ open /\ ~serialInUse(r.serial)
      /\ tracks' = Append(tracks, new)
      /\ mu' = mu /\ open' = open /\ call' = call /\ file' = file /\ packets' = packets
  BY DEF NewTrack
<1>new. new \in TrackState /\ new.serial = r.serial /\ new.previousGranulePosition = 0
  BY <1>r, NewTrackType
<1> HIDE DEF new
<1>d. /\ \A i \in DOMAIN tracks' : i \in DOMAIN tracks \/ i = n
      /\ n \notin DOMAIN tracks
      /\ \A i \in DOMAIN tracks : tracks'[i] = tracks[i]
      /\ tracks'[n] = new
  BY <1>s, <1>t, <1>new
<1> HIDE DEF n
<1>c. Cur = Idle /\ Cur' = Idle
  BY <1>s DEF Cur
<1>i. Idle.op = "none" /\ Idle.pages = << >>
  BY IdleState
<1>u. \A i : Underway(i) = 0 /\ Underway(i)' = 0
  BY <1>c, <1>i, NoneUnderway
<1>e. Complete(file, r.serial) = {}
  <2>1. \A m \in DOMAIN file : file[m].page.serial # r.serial
    <3>1. \A m \in DOMAIN file :
            \/ file[m].page.serial = -1
            \/ \E i \in DOMAIN tracks : file[m].page.serial = tracks[i].serial
      BY DEF Inv, Serials
    <3> QED BY <3>1, <1>s, <1>r DEF serialInUse
  <2> QED BY <2>1 DEF Of, Complete
<1>1. HasClock(packets, n, 0, file, r.serial)
  <2> DEFINE c == [q \in 0..N |-> 0]
  <2>1. \A q \in 1..N : Share(packets[q], n) = 0
    <3>1. \A q \in 1..N : packets[q].track \in DOMAIN tracks
      BY <1>t DEF Inv, Serials
    <3> QED BY <3>1, <1>d DEF Share
  <2>2. \A q \in 1..N : q \in 0..N /\ q - 1 \in 0..N
    BY <1>t
  <2>3. c \in [0..N -> Nat] /\ c[0] = 0 /\ c[N] = 0 /\ \A q \in 0..N : c[q] = 0
    BY <1>t
  <2> HIDE DEF c
  <2>4. Fits(c, packets, n, 0, file, r.serial)
    BY <2>1, <2>2, <2>3, <1>e DEF Fits, IsClock
  <2> QED BY <2>3, <2>4 DEF HasClock
<1>2. ASSUME NEW i \in DOMAIN tracks'
      PROVE  /\ HasClock(packets, i, tracks'[i].previousGranulePosition - 0,
                         file, tracks'[i].serial)
             /\ \A k \in Complete(file, tracks'[i].serial) : ~(file[k].id < 0)
  <2>1. CASE i = n
    BY <2>1, <1>1, <1>d, <1>new, <1>e
  <2>2. CASE i \in DOMAIN tracks
    <3>1. ~Closing
      BY <1>s, <1>c, <1>i DEF Closing
    <3> QED BY <2>2, <3>1, <1>d, <1>u, ClockedIs
  <2> QED BY <2>1, <2>2, <1>d
<1> QED BY <1>2, <1>s, <1>c, <1>i, <1>u DEF Clocked, HasClock

LEMMA WriteRTPClocked ==
  ASSUME Inv, Clocked, NEW c \in Callers, NEW i \in DOMAIN tracks, NEW p \in Payloads,
         WriteRTP(c, i, p.len, p.samples)
  PROVE  Clocked'
<1> DEFINE k == [Idle EXCEPT !.op = "write", !.id = Len(packets) + 1, !.to = i]
           j == StartLocked(k)
           sent == [track |-> i, len |-> p.len, samples |-> p.samples,
                    status |-> "pending"]
           N == Len(packets)
<1>t. /\ tracks \in Seq(TrackState) /\ packets \in Seq(SentPacket)
      /\ started \in BOOLEAN /\ i \in Nat /\ N \in Nat /\ call \in [Callers -> CallState]
  BY DEF Inv, TypeOK
<1>k. k \in CallState /\ k.op = "write" /\ k.id = N + 1
  <2>1. N + 1 \in Nat
    BY <1>t
  <2> HIDE DEF N
  <2>2. LET q == [Idle EXCEPT !.op = "write", !.id = N + 1, !.to = i]
        IN q \in CallState /\ q.op = "write" /\ q.id = N + 1
    BY <2>1, <1>t, IdleState DEF CallState, Idle
  <2> QED BY <2>2 DEF N
<1>s. /\ mu = NoCaller /\ open /\ packets' = Append(packets, sent)
      /\ call' = [call EXCEPT ![c] = j] /\ mu' = c
      /\ open' = open /\ tracks' = tracks /\ file' = file
  BY DEF WriteRTP
<1>pk. /\ Len(packets') = N + 1
       /\ \A n \in 1..N : packets'[n] = packets[n]
       /\ packets'[N + 1] = sent /\ sent.status = "pending"
  BY <1>s, <1>t
<1> HIDE DEF k, j, sent
<1>j. j.pages = << >> /\ (j = Idle \/ j.id = N + 1)
  <2>1. Moved(j, k)
    BY <1>k, <1>t, StartLockedState DEF j
  <2> QED BY <2>1, <1>k DEF Moved
<1>c. Cur = Idle /\ Cur' = j
  BY <1>s, <1>t, NoCallerAssumption DEF Cur
<1>i. Idle.op = "none" /\ Idle.pages = << >>
  BY IdleState
<1>u. \A m : Underway(m) = 0 /\ Underway(m)' = 0
  BY <1>c, <1>i, <1>j, NoneUnderway
<1>n. ~Closing
  BY <1>s, <1>c, <1>i DEF Closing
<1>1. ASSUME NEW m \in DOMAIN tracks
      PROVE  HasClock(packets', m, tracks[m].previousGranulePosition - 0, file,
                      tracks[m].serial)
  <2> DEFINE g == tracks[m].previousGranulePosition - 0
             s == tracks[m].serial
  <2>1. PICK b \in [0..N -> Nat] : Fits(b, packets, m, g, file, s)
    BY <1>u, ClockedIs DEF HasClock
  <2>2. \A q \in Complete(file, s) : file[q].id \in 0..N
    BY <1>n, PacketsOfPages
  <2>3. /\ \A q \in 1..N : Share(packets'[q], m) = Share(packets[q], m)
        /\ Share(packets'[N + 1], m) = 0
    BY <1>pk DEF Share
  <2> HIDE DEF g, s
  <2>4. HasClock(packets', m, g, file, s)
    BY <2>1, <2>2, <2>3, <1>t, <1>pk, FitsLonger
  <2> QED BY <2>4 DEF g, s
<1>2. \A m \in DOMAIN tracks : \A q \in Complete(file, tracks[m].serial) :
        ~(file[q].id < 0)
  BY <1>n, ClockedIs
<1>3. Cur'.op = "write" => Cur'.id = Len(packets')
  BY <1>c, <1>i, <1>j, <1>pk
<1> QED BY <1>1, <1>2, <1>3, <1>s, <1>u DEF Clocked, HasClock

LEMMA CloseClocked ==
  ASSUME Inv, Clocked, NEW c \in Callers, Close(c)
  PROVE  Clocked'
<1> DEFINE k == [Idle EXCEPT !.op = "close"]
           j == StartLocked(k)
<1>t. /\ tracks \in Seq(TrackState) /\ started \in BOOLEAN
      /\ call \in [Callers -> CallState]
  BY DEF Inv, TypeOK
<1>s. /\ mu = NoCaller /\ open /\ call' = [call EXCEPT ![c] = j] /\ mu' = c
      /\ open' = open /\ tracks' = tracks /\ file' = file /\ packets' = packets
  BY DEF Close
<1>k. k \in CallState /\ k.op = "close"
  BY IdleState DEF CallState, Idle
<1> HIDE DEF k, j
<1>i. Idle.op = "none" /\ Idle.pages = << >>
  BY IdleState
<1>j. j.pages = << >> /\ j.op # "write"
  <2>1. Moved(j, k)
    BY <1>k, <1>t, StartLockedState DEF j
  <2> QED BY <2>1, <1>k, <1>i DEF Moved
<1>c. Cur = Idle /\ Cur' = j
  BY <1>s, <1>t, NoCallerAssumption DEF Cur
<1>n. ~Closing
  BY <1>s, <1>c, <1>i DEF Closing
<1> QED BY <1>s, <1>c, <1>i, <1>j, <1>n, ClockedQuietly

(* A call that goes on with j.                                             *)
LEMMA Resumed ==
  ASSUME Inv, NEW c \in Callers, call[c] # Idle, NEW j \in CallState, Resume(c, j)
  PROVE  Cur = call[c] /\ Cur' = j /\ open
<1>1. mu = c /\ Cur = call[c] /\ open /\ call \in [Callers -> CallState]
  BY Holding DEF Inv, TypeOK
<1>2. Turn(c, j)
  BY <1>1, ResumeTurn
<1>3. mu' = (IF j = Idle THEN NoCaller ELSE c) /\ call' = [call EXCEPT ![c] = j]
  BY <1>2 DEF Turn
<1>4. CASE j = Idle
  BY <1>1, <1>3, <1>4 DEF Cur
<1>5. CASE j # Idle
  BY <1>1, <1>3, <1>5, NoCallerAssumption DEF Cur
<1> QED BY <1>1, <1>4, <1>5

LEMMA StartedClocked ==
  ASSUME Inv, Clocked, NEW c \in Callers, Started(c)
  PROVE  Clocked'
<1> DEFINE k == call[c]
           j == Body(k)
<1>t. /\ tracks \in Seq(TrackState) /\ k \in CallState
  BY DEF Inv, TypeOK
<1>s. /\ k.stage = "start" /\ Resume(c, j) /\ open' = open
      /\ tracks' = tracks /\ file' = file /\ packets' = packets
  BY DEF Started
<1>i. Idle.op = "none" /\ Idle.pages = << >> /\ Idle.stage = "idle"
  BY IdleState
<1>j. /\ Moved(j, k) /\ j \in CallState /\ j.pages = << >>
      /\ k.op = "close" => j.op = "close"
  BY <1>t, BodyState, EndingState DEF Moved
<1> HIDE DEF j
<1>c. Cur = k /\ Cur' = j /\ open
  BY <1>s, <1>i, <1>j, Resumed
<1>p. k.pages = << >>
  BY <1>s, <1>c DEF Inv, Made, Writing
<1>1. Cur'.op = "write" => Cur'.id = Len(packets)
  BY <1>c, <1>i, <1>j, ClockedIs DEF Moved
<1>2. Closing => Closing'
  BY <1>c, <1>j DEF Closing
<1> QED BY <1>s, <1>c, <1>j, <1>p, <1>1, <1>2, ClockedQuietly

LEMMA ClosedClocked ==
  ASSUME Inv, Clocked, NEW c \in Callers, Closed(c)
  PROVE  Clocked'
<1>s. /\ call[c].stage = "close" /\ Resume(c, Idle) /\ open' = FALSE
      /\ tracks' = tracks /\ file' = file /\ packets' = packets
  BY DEF Closed
<1>i. Idle.op = "none" /\ Idle.pages = << >> /\ Idle.stage = "idle" /\ Idle \in CallState
  BY IdleState
<1>c. Cur = call[c] /\ Cur' = Idle
  BY <1>s, <1>i, Resumed
<1>p. Cur.pages = << >>
  BY <1>s, <1>c DEF Inv, Made, Writing
<1>1. Closing'
  BY <1>s DEF Closing
<1> QED BY <1>s, <1>c, <1>i, <1>p, <1>1, ClockedQuietly

(* The fate of a packet that adds nothing to the time of its track.        *)
LEMMA NothingAdded ==
  ASSUME Inv, NEW id, NEW st \in {"ok", "failed", "refused"}, SetStatus(id, st),
         id = 0 \/ (id \in DOMAIN packets /\ packets[id].status = "pending"),
         id # 0 => st = "refused" \/ packets[id].samples = 0
  PROVE  /\ Len(packets') = Len(packets)
         /\ \A i : \A n \in 1..Len(packets) :
              Share(packets'[n], i) = Share(packets[n], i)
<1>t. packets \in Seq(SentPacket)
  BY DEF Inv, TypeOK
<1>1. /\ Len(packets') = Len(packets) /\ PacketsKept
      /\ \A d \in DOMAIN packets : d # id => packets'[d] = packets[d]
      /\ id # 0 => packets'[id].status = st
  BY <1>t, StatusSet
<1>2. ASSUME NEW i, NEW n \in 1..Len(packets)
      PROVE  Share(packets'[n], i) = Share(packets[n], i)
  <2>1. n \in DOMAIN packets /\ n # 0
    BY <1>t
  <2>2. CASE n # id
    BY <2>1, <2>2, <1>1
  <2>3. CASE n = id
    <3>1. packets'[n].samples = packets[n].samples
      BY <2>1, <1>1 DEF PacketsKept
    <3>2. Share(packets[n], i) = 0
      BY <2>1, <2>3 DEF Share
    <3>3. Share(packets'[n], i) = 0
      BY <2>1, <2>3, <3>1, <1>1 DEF Share
    <3> QED BY <3>2, <3>3
  <2> QED BY <2>2, <2>3
<1> QED BY <1>1, <1>2

LEMMA BadPayloadClocked ==
  ASSUME Inv, Clocked, NEW c \in Callers, BadPayload(c)
  PROVE  Clocked'
<1> DEFINE k == call[c]
<1>s. /\ k.stage = "packet" /\ k.pages = << >> /\ Abandon(c)
      /\ packets[k.id].samples = 0
      /\ open' = open /\ tracks' = tracks /\ file' = file
  BY DEF BadPayload
<1>i. Idle.op = "none" /\ Idle.pages = << >> /\ Idle.stage = "idle" /\ Idle \in CallState
  BY IdleState
<1>k. Cur = k /\ open
  BY <1>s, <1>i, Holding DEF Inv
<1>o. k.op = "write" /\ k.id \in DOMAIN packets /\ packets[k.id].status = "pending"
  BY <1>s, <1>k DEF Inv, Purpose
<1>r. SetStatus(k.id, "failed") /\ Resume(c, Idle)
  BY <1>s, <1>o DEF Abandon
<1>c. Cur' = Idle
  BY <1>r, <1>s, <1>i, Resumed
<1>p. /\ Len(packets') = Len(packets)
      /\ \A i : \A n \in 1..Len(packets) : Share(packets'[n], i) = Share(packets[n], i)
  BY <1>r, <1>o, <1>s, NothingAdded
<1>u. \A i : Underway(i) = 0 /\ Underway(i)' = 0
  BY <1>c, <1>k, <1>s, <1>i, NoneUnderway
<1>n. ~Closing
  BY <1>k, <1>o DEF Closing
<1> QED BY <1>s, <1>c, <1>i, <1>p, <1>u, <1>n, ClockedStays

LEMMA BeginPacketClocked ==
  ASSUME Inv, Clocked, NEW c \in Callers, BeginPacket(c)
  PROVE  Clocked'
<1> DEFINE k == call[c]
           t == tracks[k.track]
           ps == CreatePages(t.serial, t.pageIndex, PacketLength(k), PacketFlags(k),
                             Granule(k))
           j == [k EXCEPT !.pages = ps]
<1>t. /\ tracks \in Seq(TrackState) /\ call \in [Callers -> CallState]
  BY DEF Inv, TypeOK
<1>s. /\ Writing(k) /\ k.pages = << >>
      /\ tracks' = IF k.stage # "packet" THEN tracks
                   ELSE [tracks EXCEPT ![k.track] =
                           [t EXCEPT !.previousGranulePosition = Granule(k)]]
      /\ call' = [call EXCEPT ![c] = j] /\ mu' = mu
      /\ open' = open /\ packets' = packets /\ file' = file
  BY <1>t DEF BeginPacket
<1>i. Idle.op = "none" /\ Idle.pages = << >> /\ Idle.stage = "idle"
  BY IdleState
<1>k. mu = c /\ Cur = k /\ open /\ k \in CallState
  <2>1. k # Idle
    BY <1>s, <1>i DEF Writing
  <2> QED BY <2>1, Holding DEF Inv
<1>f. /\ k.track \in DOMAIN tracks /\ t \in TrackState /\ Granule(k) \in Nat
      /\ t.serial \in Nat /\ t.pageIndex \in Nat /\ t.previousGranulePosition \in Nat
      /\ PacketLength(k) \in Nat /\ PacketFlags(k) \in SUBSET {"bos"}
      /\ k.stage = "packet" => packets[k.id].samples \in Nat
  BY <1>s, <1>k, PacketFacts
<1>g. k.stage = "packet" =>
        Granule(k) = t.previousGranulePosition + packets[k.id].samples
  BY DEF Granule
<1>pd. ps # << >>
  <2> DEFINE len == PacketLength(k)
             fl == PacketFlags(k)
             g == Granule(k)
             sr == t.serial
             ix == t.pageIndex
  <2>1. len \in Nat /\ Cut(ps, sr, ix, len, fl, g)
    BY <1>f DEF Cut
  <2> HIDE DEF len, fl, g, sr, ix, ps
  <2>2. ps \in Seq(Page) /\ Len(ps) = PageCount(len)
    BY <2>1, PagesMade
  <2>3. PageCount(len) \in Nat /\ PageCount(len) > 0
    BY <2>1, PageSizes
  <2> QED BY <2>2, <2>3
<1> HIDE DEF ps
<1>j. /\ j.pages = ps /\ j.stage = k.stage /\ j.track = k.track /\ j.op = k.op
      /\ j.id = k.id
  BY <1>k DEF CallState
<1> HIDE DEF j
<1>c. Cur' = j
  BY <1>s, <1>k, <1>t, NoCallerAssumption DEF Cur
<1>u. /\ \A i : Underway(i) = 0
      /\ \A i : Underway(i)' = IF k.stage = "packet" /\ i = k.track
                               THEN packets[k.id].samples ELSE 0
  <2>1. \A i : Underway(i) = 0
    BY <1>k, <1>s, NoneUnderway
  <2>2. \A i : Underway(i)' = IF j.stage = "packet" /\ j.pages # << >> /\ j.track = i
                              THEN packets[j.id].samples ELSE 0
    BY <1>c, <1>s DEF Underway
  <2> QED BY <2>1, <2>2, <1>j, <1>pd
<1>m. Closing => Closing'
  BY <1>s, <1>c, <1>k, <1>j DEF Closing
<1>w. Cur'.op = "write" => Cur'.id = Len(packets)
  BY <1>c, <1>j, <1>k, ClockedIs
<1> HIDE DEF k
<1>tr. /\ DOMAIN tracks' = DOMAIN tracks
       /\ \A i \in DOMAIN tracks :
            /\ tracks'[i].serial = tracks[i].serial
            /\ tracks'[i].previousGranulePosition - Underway(i)'
                 = tracks[i].previousGranulePosition - Underway(i)
  <2>0. \A i \in DOMAIN tracks : tracks[i].previousGranulePosition \in Nat
    <3>1. \A i \in DOMAIN tracks : tracks[i] \in TrackState
      BY <1>t
    <3> QED BY <3>1 DEF TrackState
  <2>1. CASE k.stage # "packet"
    BY <2>0, <2>1, <1>s, <1>u
  <2>2. CASE k.stage = "packet"
    <3> DEFINE v == [t EXCEPT !.previousGranulePosition = Granule(k)]
    <3>1. v.serial = t.serial /\ v.previousGranulePosition = Granule(k)
      BY <1>f DEF TrackState
    <3> HIDE DEF v
    <3>2. tracks' = [tracks EXCEPT ![k.track] = v]
      BY <2>2, <1>s DEF v
    <3>3. /\ DOMAIN tracks' = DOMAIN tracks /\ tracks'[k.track] = v
          /\ \A i \in DOMAIN tracks : i # k.track => tracks'[i] = tracks[i]
      BY <3>2, <1>t, <1>f
    <3>4. (t.previousGranulePosition + packets[k.id].samples) - packets[k.id].samples
            = t.previousGranulePosition - 0
      BY <2>2, <1>f
    <3>5. ASSUME NEW i \in DOMAIN tracks
          PROVE  /\ tracks'[i].serial = tracks[i].serial
                 /\ tracks'[i].previousGranulePosition - Underway(i)'
                      = tracks[i].previousGranulePosition - Underway(i)
      <4>1. CASE i = k.track
        BY <2>2, <4>1, <3>1, <3>3, <3>4, <1>g, <1>u
      <4>2. CASE i # k.track
        BY <4>2, <3>3, <1>u
      <4> QED BY <4>1, <4>2
    <3> QED BY <3>3, <3>5
  <2> QED BY <2>1, <2>2
<1> QED BY <1>s, <1>tr, <1>m, <1>w, ClockedStays

LEMMA WritePageClocked ==
  ASSUME Inv, Clocked, NEW c \in Callers, WritePage(c)
  PROVE  Clocked'
<1> DEFINE k == call[c]
           e == NextPage(k)
           j == [k EXCEPT !.written = @ + 1]
<1>t. /\ file \in Seq(FileEntry) /\ call \in [Callers -> CallState]
      /\ k \in CallState /\ tracks \in Seq(TrackState)
  BY DEF Inv, TypeOK
<1>s. /\ k.written + 1 < Len(k.pages) /\ file' = Append(file, e)
      /\ call' = [call EXCEPT ![c] = j] /\ mu' = mu
      /\ open' = open /\ tracks' = tracks /\ packets' = packets
  BY <1>t DEF WritePage
<1>p. k.pages # << >>
  <2>1. k.written \in Nat
    BY <1>t, CallTypes
  <2> QED BY <2>1, <1>s, NoElements
<1>k. mu = c /\ Cur = k /\ open
  BY <1>p, IdleState, Holding DEF Inv
<1>e. e \in FileEntry /\ ~Ends(e)
  <2>1. /\ e \in FileEntry /\ e.page = k.pages[k.written + 1]
        /\ k.written \in Nat /\ Len(k.pages) \in Nat
        /\ k.written + 1 \in 1..Len(k.pages)
        /\ \A m \in 1..Len(k.pages) :
             k.pages[m].granule # noGranulePosition <=> m = Len(k.pages)
    BY <1>k, <1>p, NextPageFacts
  <2>2. k.written + 1 # Len(k.pages)
    BY <2>1, <1>s
  <2> QED BY <2>1, <2>2 DEF Ends
<1>j. /\ j.pages = k.pages /\ j.stage = k.stage /\ j.track = k.track /\ j.op = k.op
      /\ j.id = k.id
  BY <1>t DEF CallState
<1> HIDE DEF e, j
<1>c. Cur' = j
  BY <1>s, <1>k, <1>t, NoCallerAssumption DEF Cur
<1>u. \A i : Underway(i)' = Underway(i)
  BY <1>c, <1>j, <1>k, <1>s DEF Underway
<1>b. Behind(file', file, e)
  BY <1>s, <1>t, <1>e DEF Behind
<1>f. ASSUME NEW s
      PROVE  /\ Complete(file', s) = Complete(file, s)
             /\ \A m \in Complete(file, s) : file'[m] = file[m]
  <2>1. Complete(file', s) = Complete(file, s)
    BY <1>b, <1>e, AppendPart
  <2>2. \A m \in Complete(file, s) : file'[m] = file[m]
    BY <1>b, AppendOf
  <2> QED BY <2>1, <2>2
<1>m. Closing => Closing'
  BY <1>s, <1>c, <1>k, <1>j DEF Closing
<1>w. Cur'.op = "write" => Cur'.id = Len(packets)
  BY <1>c, <1>j, <1>k, ClockedIs
<1> QED BY <1>s, <1>u, <1>f, <1>m, <1>w, ClockedStays

LEMMA WriteLastPageClocked ==
  ASSUME Inv, Clocked, NEW c \in Callers, WriteLastPage(c)
  PROVE  Clocked'
<1> DEFINE k == call[c]
           e == NextPage(k)
           j == IF k.stage = "packet" THEN Idle ELSE NextHeader(k)
           t == tracks[k.track]
           u == Counted(NoteLastPage(t, e), k)
<1>t. /\ tracks \in Seq(TrackState) /\ file \in Seq(FileEntry)
      /\ packets \in Seq(SentPacket) /\ seekable \in BOOLEAN
  BY DEF Inv, TypeOK
<1>s. /\ k.pages # << >> /\ k.written + 1 = Len(k.pages)
      /\ file' = Append(file, e)
      /\ tracks' = [tracks EXCEPT ![k.track] = u]
      /\ SetStatus(PacketId(k), "ok") /\ Resume(c, j) /\ open' = open
  BY <1>t DEF WriteLastPage
<1>i. Idle.op = "none" /\ Idle.stage = "idle" /\ Idle.pages = << >> /\ Idle \in CallState
  BY IdleState
<1>k. Cur = k /\ open /\ k \in CallState /\ k # Idle
  <2>1. k # Idle
    BY <1>s, <1>i
  <2> QED BY <2>1, Holding DEF Inv
<1> HIDE DEF k
<1>e. /\ Writing(k) /\ Len(k.pages) \in Nat /\ e \in FileEntry /\ e.id = PacketId(k)
      /\ e.page.serial = t.serial
      /\ e.page.granule = IF k.stage = "packet" THEN t.previousGranulePosition ELSE 0
  <2>1. /\ Writing(k) /\ Len(k.pages) \in Nat /\ e \in FileEntry /\ e.id = PacketId(k)
        /\ e.page = k.pages[Len(k.pages)] /\ Len(k.pages) \in 1..Len(k.pages)
    BY <1>k, <1>s, NextPageFacts
  <2>2. \A m \in 1..Len(k.pages) :
          /\ k.pages[m].serial = t.serial
          /\ k.pages[m].granule =
               IF m = Len(k.pages)
               THEN IF k.stage = "packet" THEN t.previousGranulePosition ELSE 0
               ELSE noGranulePosition
    BY <1>k, <1>s, NextPageFacts
  <2> QED BY <2>1, <2>2
<1>g. /\ k.track \in DOMAIN tracks /\ t \in TrackState
      /\ PacketId(k) = 0 \/ PacketId(k) = k.id
      /\ PacketId(k) = 0 <=> k.stage # "packet"
  BY <1>e, <1>k, PacketFacts
<1>st. k.stage \in {"ids", "tags", "packet"}
  BY <1>e DEF Writing
<1>u. u \in TrackState /\ u.serial = t.serial
      /\ u.previousGranulePosition = t.previousGranulePosition
  BY <1>e, <1>g, <1>t, TrackCounted, SMTT(30)
<1>b. Behind(file', file, e)
  BY <1>s, <1>t, <1>e DEF Behind
<1>j. /\ j \in CallState /\ j.pages = << >>
      /\ k.stage = "packet" => j = Idle
      /\ k.stage # "packet" => j.op = k.op /\ (j = Idle \/ j.id = k.id)
  <2>1. CASE k.stage = "packet"
    BY <2>1, <1>i
  <2>2. CASE k.stage # "packet"
    <3>1. Moved(NextHeader(k), k) /\ NextHeader(k).op = k.op
      BY <2>2, <1>st, <1>k, <1>t, <1>g, NextHeaderState
    <3> QED BY <2>2, <3>1 DEF Moved
  <2> QED BY <2>1, <2>2
<1> HIDE DEF e, j, u
<1>c. Cur' = j
  BY <1>s, <1>k, <1>j, Resumed DEF k
<1>tr. /\ DOMAIN tracks' = DOMAIN tracks
       /\ \A i \in DOMAIN tracks :
            /\ tracks'[i].serial = tracks[i].serial
            /\ tracks'[i].previousGranulePosition = tracks[i].previousGranulePosition
  <2>1. /\ DOMAIN tracks' = DOMAIN tracks
        /\ \A i \in DOMAIN tracks : i # k.track => tracks'[i] = tracks[i]
        /\ tracks'[k.track] = u
    BY <1>s, <1>t, <1>u, <1>g
  <2> QED BY <2>1, <1>u
<1>d. \A i \in DOMAIN tracks : tracks[i].serial = t.serial => i = k.track
  BY <1>g DEF Inv, Serials
<1>f. ASSUME NEW i \in DOMAIN tracks, NEW m \in Complete(file', tracks[i].serial)
      PROVE  \/ m \in Complete(file, tracks[i].serial) /\ file'[m] = file[m]
             \/ i = k.track /\ file'[m] = e
  <2> DEFINE s == tracks[i].serial
  <2>1. /\ m \in Complete(file, s) \/ (m = Len(file) + 1 /\ e.page.serial = s)
        /\ \A q \in Complete(file, s) : file'[q] = file[q]
        /\ file'[Len(file) + 1] = e
    BY <1>b, AppendOf
  <2> QED BY <2>1, <1>d, <1>e
<1>1. CASE k.stage = "packet"
  <2>1. PacketId(k) = k.id
    BY <1>1, <1>g
  <2>2. \A i \in DOMAIN tracks : \A m \in Complete(file', tracks[i].serial) :
          \/ /\ m \in Complete(file, tracks[i].serial)
             /\ file'[m].page.granule = file[m].page.granule
             /\ file'[m].id = file[m].id
          \/ /\ i = k.track /\ file'[m].id = k.id
             /\ file'[m].page.granule = tracks[i].previousGranulePosition
    <3>1. e.id = k.id /\ e.page.granule = t.previousGranulePosition
      BY <1>1, <1>e, <2>1
    <3> QED BY <3>1, <1>f
  <2> QED BY <1>1, <2>1, <2>2, <1>s, <1>k, <1>c, <1>j, <1>tr, ClockedOver
<1>2. CASE k.stage # "packet"
  <2>1. PacketId(k) = 0 /\ e.id = 0 /\ e.page.granule = 0
    BY <1>2, <1>g, <1>e
  <2>2. packets' = packets
    BY <2>1, <1>s DEF SetStatus
  <2>3. \A i \in DOMAIN tracks : \A m \in Complete(file', tracks[i].serial) :
          \/ /\ m \in Complete(file, tracks[i].serial)
             /\ file'[m].page.granule = file[m].page.granule
             /\ file'[m].id = file[m].id
          \/ file'[m].id = 0 /\ file'[m].page.granule = 0
    BY <2>1, <1>f
  <2>4. \A i : Underway(i) = 0 /\ Underway(i)' = 0
    <3>1. \A i : Underway(i) = 0
      BY <1>2, <1>k DEF Underway
    <3> QED BY <3>1, <1>c, <1>j, NoneUnderway
  <2>5. Closing => Closing'
    BY <1>2, <1>s, <1>c, <1>k, <1>j DEF Closing
  <2>6. Cur'.op = "write" => Cur'.id = Len(packets)
    BY <1>2, <1>c, <1>i, <1>j, <1>k, ClockedIs
  <2> QED BY <2>2, <2>3, <2>4, <2>5, <2>6, <1>tr, ClockedStays
<1> QED BY <1>1, <1>2

LEMMA PageFailsClocked ==
  ASSUME Inv, Clocked, NEW c \in Callers, PageFails(c)
  PROVE  Clocked'
<1> DEFINE k == call[c]
           j == IF k.op = "close" THEN Ending(k) ELSE Idle
<1>t. /\ tracks \in Seq(TrackState) /\ file \in Seq(FileEntry) /\ Layout
  BY DEF Inv, TypeOK
<1>s. /\ k.pages # << >> /\ file' \in {file, Append(file, Fragment)}
      /\ SetStatus(k.id, IF k.stage = "packet" THEN "failed" ELSE "refused")
      /\ Resume(c, j) /\ open' = (k.op # "new") /\ tracks' = tracks
  BY DEF PageFails, Abandon, Fragment
<1>i. Idle.op = "none" /\ Idle.stage = "idle" /\ Idle.pages = << >> /\ Idle \in CallState
  BY IdleState
<1>k. Cur = k /\ open /\ k \in CallState /\ k # Idle
  <2>1. k # Idle
    BY <1>s, <1>i
  <2> QED BY <2>1, Holding DEF Inv
<1> HIDE DEF k
<1>v. k.id = 0 \/ (k.id \in DOMAIN packets /\ packets[k.id].status = "pending")
  BY <1>k DEF Inv, Purpose
<1>o. k.stage = "packet" => k.op = "write"
  BY <1>k DEF Inv, Purpose
<1>j. /\ j \in CallState /\ j.pages = << >>
      /\ k.op = "close" => j.op = "close"
      /\ k.op # "close" => j = Idle
  <2>1. CASE k.op = "close"
    <3>1. Moved(Ending(k), k) /\ Ending(k).op = k.op
      BY <1>k, <1>t, EndingState
    <3> QED BY <2>1, <3>1 DEF Moved
  <2>2. CASE k.op # "close"
    BY <2>2, <1>i
  <2> QED BY <2>1, <2>2
<1> HIDE DEF j
<1>c. Cur' = j
  BY <1>s, <1>k, <1>j, Resumed DEF k
<1>f. \A i \in DOMAIN tracks : \A m \in Complete(file', tracks[i].serial) :
        m \in Complete(file, tracks[i].serial) /\ file'[m] = file[m]
  <2>1. \A i \in DOMAIN tracks : tracks[i].serial \in Nat
    <3>1. \A i \in DOMAIN tracks : tracks[i] \in TrackState
      BY <1>t
    <3> QED BY <3>1 DEF TrackState
  <2>2. \A s \in Nat : /\ Complete(file', s) = Complete(file, s)
                       /\ \A m \in Complete(file, s) : file'[m] = file[m]
    BY <1>t, <1>s, FragmentLeft
  <2> QED BY <2>1, <2>2
<1>1. CASE k.stage = "packet"
  <2>1. Cur' = Idle /\ SetStatus(k.id, "failed")
    BY <1>1, <1>o, <1>c, <1>j, <1>s
  <2> QED BY <1>1, <2>1, <1>s, <1>f, <1>k, ClockedOver
<1>2. CASE k.stage # "packet"
  <2>1. SetStatus(k.id, "refused")
    BY <1>2, <1>s
  <2>2. /\ Len(packets') = Len(packets)
        /\ \A i : \A n \in 1..Len(packets) : Share(packets'[n], i) = Share(packets[n], i)
    BY <2>1, <1>v, NothingAdded
  <2>3. \A i : Underway(i) = 0 /\ Underway(i)' = 0
    <3>1. \A i : Underway(i) = 0
      BY <1>2, <1>k DEF Underway
    <3> QED BY <3>1, <1>c, <1>j, NoneUnderway
  <2>4. (Closing => Closing') /\ Cur'.op # "write"
    BY <1>k, <1>c, <1>j, <1>i DEF Closing
  <2> QED BY <2>2, <2>3, <2>4, <1>s, <1>f, ClockedStays
<1> QED BY <1>1, <1>2

(* A step of Close that sets EOS on a track or fails to.                   *)
LEMMA EosClocked ==
  ASSUME Inv, Clocked, NEW c \in Callers, call[c].stage = "eos",
         Resume(c, NextEnd(call[c])), open' = open, started' = started,
         packets' = packets, DOMAIN tracks' = DOMAIN tracks,
         \A i \in DOMAIN tracks :
           /\ tracks'[i].serial = tracks[i].serial
           /\ tracks'[i].previousGranulePosition = tracks[i].previousGranulePosition
           /\ \A m \in Complete(file', tracks[i].serial) :
                \/ /\ m \in Complete(file, tracks[i].serial)
                   /\ file'[m].page.granule = file[m].page.granule
                   /\ file'[m].id = file[m].id
                \/ /\ file'[m].id = -1
                   /\ file'[m].page.granule = tracks[i].previousGranulePosition
  PROVE  Clocked'
<1>1. /\ Cur'.op = "close"
      /\ \A i \in DOMAIN tracks : Underway(i) = 0 /\ Underway(i)' = 0
  BY EosTurn
<1>2. Closing'
  BY <1>1 DEF Closing
<1>3. \A i \in DOMAIN tracks :
        tracks[i].previousGranulePosition - 0 = tracks[i].previousGranulePosition
  <2>1. \A i \in DOMAIN tracks : tracks[i] \in TrackState
    BY DEF Inv, TypeOK
  <2>2. \A i \in DOMAIN tracks : tracks[i].previousGranulePosition \in Nat
    BY <2>1 DEF TrackState
  <2> QED BY <2>2
<1> QED BY <1>1, <1>2, <1>3, ClockedStays

LEMMA MarkClocked ==
  ASSUME Inv, Clocked, NEW c \in Callers, MarkEndOfStream(c)
  PROVE  Clocked'
<1> DEFINE t == tracks[Cur.track]
<1>t. /\ tracks \in Seq(TrackState) /\ file \in Seq(FileEntry) /\ Layout
  BY DEF Inv, TypeOK
<1>s. /\ call[c].stage = "eos" /\ Resume(c, NextEnd(call[c])) /\ seekable
      /\ open' = open /\ started' = started /\ tracks' = tracks /\ packets' = packets
  BY DEF MarkEndOfStream
<1>q. /\ Cur = call[c] /\ Cur.track \in DOMAIN tracks
      /\ \A i \in DOMAIN tracks : i = Cur.track => ~Through(i)
  BY <1>s, EosTurn
<1>k. t \in TrackState
  BY <1>q, <1>t
<1>f. file' = IF t.lastPageWritten THEN Overwrite(Rebuilt(t)) ELSE file
  BY <1>q DEF MarkEndOfStream
<1>n. Noted(file, t)
  BY <1>q, <1>s DEF Inv, EndOfStream
<1> HIDE DEF t
<1>1. AllAlike(file', file)
  <2>1. CASE ~t.lastPageWritten
    BY <2>1, <1>f DEF AllAlike, Alike
  <2>2. CASE t.lastPageWritten
    <3> DEFINE e == Rebuilt(t)
    <3>1. PICK K \in Complete(file, t.serial) :
            Replaced(Overwrite(e), file, K, e) /\ Alike(e, file[K])
      BY <2>2, <1>t, <1>k, <1>n, NotedPage
    <3> HIDE DEF e
    <3>2. Replaced(file', file, K, e)
      BY <2>2, <3>1, <1>f DEF e
    <3>3. /\ DOMAIN file' = DOMAIN file /\ file'[K] = e
          /\ \A m \in DOMAIN file : m # K => file'[m] = file[m]
      BY <3>2, Replacing
    <3>4. ASSUME NEW m \in DOMAIN file PROVE Alike(file'[m], file[m])
      <4>1. CASE m = K
        BY <4>1, <3>1, <3>3
      <4>2. CASE m # K
        <5>1. file'[m] = file[m]
          BY <4>2, <3>3
        <5> QED BY <5>1 DEF Alike
      <4> QED BY <4>1, <4>2
    <3> QED BY <3>3, <3>4 DEF AllAlike
  <2> QED BY <2>1, <2>2
<1>2. ASSUME NEW s, NEW m \in Complete(file', s)
      PROVE  /\ m \in Complete(file, s)
             /\ file'[m].page.granule = file[m].page.granule /\ file'[m].id = file[m].id
  <2>1. m \in Complete(file, s)
    BY <1>1, AlikePages
  <2>2. m \in DOMAIN file
    BY <2>1 DEF Complete, Of
  <2> QED BY <2>1, <2>2, <1>1 DEF AllAlike, Alike
<1> QED BY <1>2, <1>s, EosClocked

LEMMA NilClocked ==
  ASSUME Inv, Clocked, NEW c \in Callers, WriteNilEndOfStream(c)
  PROVE  Clocked'
<1> DEFINE t == tracks[Cur.track]
           e == NilEntry(t)
<1>t. /\ tracks \in Seq(TrackState) /\ file \in Seq(FileEntry)
  BY DEF Inv, TypeOK
<1>s. /\ call[c].stage = "eos" /\ Resume(c, NextEnd(call[c]))
      /\ open' = open /\ started' = started /\ packets' = packets
  BY DEF WriteNilEndOfStream
<1>k. Cur = call[c] /\ Cur.track \in DOMAIN tracks
  <2>1. call[c] # Idle
    BY <1>s, IdleState
  <2>2. Cur = call[c]
    BY <2>1, Holding DEF Inv
  <2> QED BY <2>2, <1>s DEF Inv, Purpose
<1>f. \/ file' = file /\ tracks' = tracks
      \/ file' = Append(file, e) /\ tracks' = [tracks EXCEPT ![Cur.track].pageIndex = @ + 1]
  BY <1>k DEF WriteNilEndOfStream, NilEntry
<1>1. CASE file' = file /\ tracks' = tracks
  BY <1>1, <1>s, EosClocked
<1>2. CASE file' = Append(file, e)
           /\ tracks' = [tracks EXCEPT ![Cur.track].pageIndex = @ + 1]
  <2>1. t \in TrackState
    BY <1>k, <1>t
  <2> DEFINE u == [t EXCEPT !.pageIndex = @ + 1]
  <2>2. u.serial = t.serial /\ u.previousGranulePosition = t.previousGranulePosition
    BY <2>1 DEF TrackState
  <2> HIDE DEF u
  <2>3. tracks' = [tracks EXCEPT ![Cur.track] = u]
    BY <1>2, <1>k DEF u
  <2>4. /\ DOMAIN tracks' = DOMAIN tracks /\ tracks'[Cur.track] = u
        /\ \A i \in DOMAIN tracks : i # Cur.track => tracks'[i] = tracks[i]
    BY <2>3, <1>k, <1>t
  <2>5. \A i \in DOMAIN tracks :
          /\ tracks'[i].serial = tracks[i].serial
          /\ tracks'[i].previousGranulePosition = tracks[i].previousGranulePosition
    BY <2>2, <2>4
  <2>6. /\ e \in FileEntry /\ e.id = -1 /\ e.page.serial = t.serial
        /\ e.page.granule = t.previousGranulePosition
    BY <2>1, <1>t, NilFacts
  <2>7. \A i \in DOMAIN tracks : tracks[i].serial = t.serial => i = Cur.track
    BY <1>k DEF Inv, Serials
  <2> HIDE DEF e
  <2>8. Behind(file', file, e)
    BY <1>2, <2>6, <1>t DEF Behind
  <2>9. ASSUME NEW i \in DOMAIN tracks, NEW m \in Complete(file', tracks[i].serial)
        PROVE  \/ /\ m \in Complete(file, tracks[i].serial)
                  /\ file'[m].page.granule = file[m].page.granule
                  /\ file'[m].id = file[m].id
               \/ /\ file'[m].id = -1
                  /\ file'[m].page.granule = tracks[i].previousGranulePosition
    <3> DEFINE s == tracks[i].serial
    <3>1. /\ m \in Complete(file, s) \/ (m = Len(file) + 1 /\ e.page.serial = s)
          /\ \A q \in Complete(file, s) : file'[q] = file[q]
          /\ file'[Len(file) + 1] = e
      BY <2>8, AppendOf
    <3> QED BY <3>1, <2>6, <2>7
  <2> QED BY <2>4, <2>5, <2>9, <1>s, EosClocked
<1> QED BY <1>1, <1>2, <1>f

LEMMA EosFailsClocked ==
  ASSUME Inv, Clocked, NEW c \in Callers, EndOfStreamFails(c)
  PROVE  Clocked'
<1> DEFINE t == tracks[Cur.track]
           d == [t.last EXCEPT !.page = Junk(@.size)]
<1>t. /\ tracks \in Seq(TrackState) /\ file \in Seq(FileEntry) /\ Layout
  BY DEF Inv, TypeOK
<1>s. /\ call[c].stage = "eos" /\ Resume(c, NextEnd(call[c]))
      /\ open' = open /\ started' = started /\ tracks' = tracks /\ packets' = packets
  BY DEF EndOfStreamFails
<1>q. /\ Cur = call[c] /\ Cur.track \in DOMAIN tracks
      /\ \A i \in DOMAIN tracks : i = Cur.track => ~Through(i)
  BY <1>s, EosTurn
<1>k. t \in TrackState
  BY <1>q, <1>t
<1>f. \/ file' \in {file, Append(file, Fragment)}
      \/ seekable /\ t.lastPageWritten /\ file' = Overwrite(d)
  BY <1>q DEF EndOfStreamFails, Fragment
<1>n. seekable => Noted(file, t)
  BY <1>q DEF Inv, EndOfStream
<1>ser. \A i \in DOMAIN tracks : tracks[i].serial \in Nat
  <2>1. \A i \in DOMAIN tracks : tracks[i] \in TrackState
    BY <1>t
  <2> QED BY <2>1 DEF TrackState
<1> HIDE DEF t, d
<1>1. ASSUME NEW s \in Nat, NEW m \in Complete(file', s)
      PROVE  m \in Complete(file, s) /\ file'[m] = file[m]
  <2>1. CASE file' \in {file, Append(file, Fragment)}
    BY <2>1, <1>t, FragmentLeft
  <2>2. CASE seekable /\ t.lastPageWritten /\ file' = Overwrite(d)
    <3>1. PICK K \in DOMAIN file :
            d.page.serial = -1 /\ Replaced(Overwrite(d), file, K, d)
      BY <2>2, <1>k, <1>n, <1>t, NotedPageDamaged DEF d
    <3>2. Replaced(file', file, K, d)
      BY <2>2, <3>1
    <3>3. /\ DOMAIN file' = DOMAIN file /\ file'[K] = d
          /\ \A q \in DOMAIN file : q # K => file'[q] = file[q]
      BY <3>2, Replacing
    <3>4. m \in DOMAIN file' /\ file'[m].page.serial = s /\ Ends(file'[m])
      BY <1>1 DEF Complete, Of
    <3>5. m # K
      BY <3>1, <3>3, <3>4, <1>1
    <3>6. m \in DOMAIN file /\ file'[m] = file[m]
      BY <3>3, <3>4, <3>5
    <3> QED BY <3>4, <3>6 DEF Complete, Of
  <2> QED BY <2>1, <2>2, <1>f
<1> QED BY <1>1, <1>s, <1>ser, EosClocked

LEMMA StutterClocked ==
  ASSUME Inv, Clocked, UNCHANGED vars
  PROVE  Clocked'
<1>1. /\ mu' = mu /\ open' = open /\ tracks' = tracks /\ call' = call
      /\ file' = file /\ packets' = packets
  BY DEF vars
<1>2. Cur' = Cur
  BY <1>1 DEF Cur
<1>3. \A i : Underway(i)' = Underway(i)
  BY <1>1, <1>2 DEF Underway
<1> QED BY <1>1, <1>2, <1>3 DEF Clocked

LEMMA InitClocked ==
  ASSUME Init
  PROVE  Clocked
<1>0. /\ file = << >> /\ packets = << >>
      /\ \A i \in DOMAIN tracks : tracks[i].previousGranulePosition = 0
      /\ Cur.op # "write" /\ Cur.pages = << >>
  <2>i. Idle \in CallState /\ Idle.op = "none" /\ Idle.pages = << >>
    BY IdleState
  <2>1. CASE InitWriter
    <3>1. /\ Fresh /\ tracks = << >> /\ mu = NoCaller
      BY <2>1 DEF InitWriter
    <3>2. Cur = Idle
      BY <3>1, Free
    <3> QED BY <3>1, <3>2, <2>i, NoElements DEF Fresh
  <2>2. CASE InitOggWriter
    <3> DEFINE n == [Idle EXCEPT !.op = "new"]
               k == At(n, "ids", 1)
    <3>1. PICK r \in Requests : tracks = <<newTrackState(r.ssrc, r.serial)>>
      BY <2>2 DEF InitOggWriter
    <3>2. /\ Fresh /\ mu \in Callers
          /\ call = [c \in Callers |-> IF c = mu THEN k ELSE Idle]
      BY <2>2 DEF InitOggWriter
    <3>3. newTrackState(r.ssrc, r.serial).previousGranulePosition = 0
      BY DEF newTrackState
    <3>4. n \in CallState /\ n.op = "new"
      BY <2>i DEF CallState
    <3>5. "ids" \in Stages /\ 1 \in Nat
      BY DEF Stages
    <3> HIDE DEF n
    <3>6. k.pages = << >> /\ k.op = "new"
      BY <3>4, <3>5, AtState
    <3> HIDE DEF k
    <3>7. Cur = k
      BY <3>2, NoCallerAssumption DEF Cur
    <3> QED BY <3>1, <3>2, <3>3, <3>6, <3>7 DEF Fresh
  <2> QED BY <2>1, <2>2 DEF Init
<1>u. \A i : Underway(i) = 0
  BY <1>0, NoneUnderway
<1>e. Len(packets) = 0 /\ \A s : Complete(file, s) = {}
  <2>1. DOMAIN file = {} /\ Len(packets) = 0
    BY <1>0, NoElements
  <2> QED BY <2>1 DEF Complete, Of
<1>1. ASSUME NEW i \in DOMAIN tracks
      PROVE  HasClock(packets, i, tracks[i].previousGranulePosition - Underway(i),
                      file, tracks[i].serial)
  <2> DEFINE c == [n \in 0..0 |-> 0]
  <2>1. c \in [0..0 -> Nat] /\ c[0] = 0 /\ 1..0 = {}
    OBVIOUS
  <2> HIDE DEF c
  <2>2. tracks[i].previousGranulePosition - Underway(i) = 0
    BY <1>0, <1>u
  <2>3. Fits(c, packets, i, 0, file, tracks[i].serial)
    BY <2>1, <1>e DEF Fits, IsClock
  <2> QED BY <2>1, <2>2, <2>3, <1>e DEF HasClock
<1> QED BY <1>1, <1>0, <1>e, ClockedIs

LEMMA NextClocked ==
  ASSUME Inv, Clocked, [Next]_vars
  PROVE  Clocked'
<1>1. CASE UNCHANGED vars
  BY <1>1, StutterClocked
<1>2. CASE Next
  <2>1. PICK c \in Callers : Call(c) \/ Step(c)
    BY <1>2 DEF Next
  <2>2. CASE Call(c)
    <3>1. CASE \E r \in Requests : NewTrack(r.ssrc, r.serial)
      BY <3>1, NewTrackClocked
    <3>2. CASE \E i \in DOMAIN tracks, p \in Payloads : WriteRTP(c, i, p.len, p.samples)
      BY <3>2, WriteRTPClocked
    <3>3. CASE Close(c)
      BY <3>3, CloseClocked
    <3> QED BY <2>2, <3>1, <3>2, <3>3 DEF Call
  <2>3. CASE Step(c)
    BY <2>3, BadPayloadClocked, BeginPacketClocked, WritePageClocked,
       WriteLastPageClocked, PageFailsClocked, StartedClocked, MarkClocked,
       NilClocked, EosFailsClocked, ClosedClocked DEF Step
  <2> QED BY <2>1, <2>2, <2>3
<1> QED BY <1>1, <1>2

LEMMA ClockedExact ==
  ASSUME Inv, Clocked
  PROVE  GranulesExact
<1>1. packets \in Seq(SentPacket) /\ Len(packets) \in Nat
  BY DEF Inv, TypeOK
<1>2. ASSUME NEW i \in DOMAIN tracks, NEW k \in Complete(file, tracks[i].serial)
      PROVE  file[k].page.granule =
               Clock(packets, i)[IF file[k].id >= 0 THEN file[k].id ELSE Len(packets)]
  <2> DEFINE g == tracks[i].previousGranulePosition - Underway(i)
             s == tracks[i].serial
  <2>1. PICK c \in [0..Len(packets) -> Nat] : Fits(c, packets, i, g, file, s)
    BY DEF Clocked
  <2>2. /\ IsClock(c, packets, i)
        /\ file[k].page.granule = c[IF file[k].id >= 0 THEN file[k].id ELSE Len(packets)]
    BY <2>1 DEF Fits
  <2>3. Clock(packets, i) = c
    BY <2>2, <1>1, ShareType, ClockIs
  <2> QED BY <2>2, <2>3
<1> QED BY <1>2 DEF GranulesExact

(* Granule positions are exact: each is the sum of the durations of the    *)
(* packets of its own track up to that page's, those whose write failed    *)
(* included, whatever the goroutines do with the other tracks.             *)
THEOREM GranulesHold == Spec => []GranulesExact
<1>1. Init => Inv /\ Clocked
  BY InitInv, InitClocked
<1>2. (Inv /\ Clocked) /\ [Next]_vars => (Inv /\ Clocked)'
  BY NextInv, NextClocked
<1>3. Inv /\ Clocked => GranulesExact
  BY ClockedExact
<1> QED BY <1>1, <1>2, <1>3, PTL DEF Spec

-----------------------------------------------------------------------------
(* What one step may do to the file.                                       *)
Stable ==
  /\ Len(file') >= Len(file)
  /\ ~open => file' = file
  /\ \A k \in DOMAIN file :
       \/ file'[k] = file[k]
       \/ /\ file'[k] = [file[k] EXCEPT !.page.flags = @ \cup {"eos"}]
          /\ Ends(file[k])
          /\ Len(file') = Len(file)

LEMMA SameFileStable ==
  ASSUME Inv, file' = file
  PROVE  Stable
<1>1. Len(file) \in Nat
  BY DEF Inv, TypeOK
<1> QED BY <1>1 DEF Stable

LEMMA AppendStable ==
  ASSUME open, NEW e, Behind(file', file, e)
  PROVE  Stable
<1>1. /\ Len(file) \in Nat /\ Len(file') = Len(file) + 1
      /\ \A k \in DOMAIN file : file'[k] = file[k]
  BY Appending
<1> QED BY <1>1 DEF Stable

(* A call that is writing a page.                                          *)
LEMMA PageStable ==
  ASSUME Inv, NEW c \in Callers, call[c].pages # << >>,
         file' = Append(file, NextPage(call[c]))
  PROVE  Stable
<1>1. Idle.pages = << >>
  BY IdleState
<1>2. Cur = call[c] /\ open
  BY <1>1, Holding DEF Inv
<1>3. NextPage(call[c]) \in FileEntry
  BY <1>2, NextPageFacts
<1>4. Behind(file', file, NextPage(call[c]))
  BY <1>3 DEF Behind, Inv, TypeOK
<1> QED BY <1>2, <1>4, AppendStable

LEMMA EndStable ==
  ASSUME Inv, NEW c \in Callers, MarkEndOfStream(c) \/ WriteNilEndOfStream(c)
  PROVE  Stable
<1> DEFINE t == tracks[Cur.track]
<1>1. Idle.stage = "idle" /\ call[c].stage = "eos"
  BY IdleState DEF MarkEndOfStream, WriteNilEndOfStream
<1>2. Cur = call[c] /\ open
  BY <1>1, Holding DEF Inv
<1>3. Cur.track \in DOMAIN tracks /\ Cur.stage = "eos"
  BY <1>1, <1>2 DEF Inv, Purpose
<1>4. tracks \in Seq(TrackState) /\ file \in Seq(FileEntry) /\ Layout
  BY DEF Inv, TypeOK
<1>5. t \in TrackState
  BY <1>3, <1>4
<1>6. CASE MarkEndOfStream(c)
  <2>1. seekable /\ file' = IF t.lastPageWritten THEN Overwrite(Rebuilt(t)) ELSE file
    BY <1>2, <1>6 DEF MarkEndOfStream
  <2>2. CASE t.lastPageWritten
    <3>1. Noted(file, t)
      <4>1. \A i \in DOMAIN tracks : i = Cur.track => ~(i < Cur.track)
        BY <1>3, <1>4
      <4>2. \A i \in DOMAIN tracks : i = Cur.track => ~Through(i)
        BY <4>1, <1>2, <1>3 DEF Through
      <4> QED BY <4>2, <1>3, <2>1 DEF Inv, EndOfStream
    <3> HIDE DEF t
    <3>2. PICK K \in Complete(file, t.serial) :
             /\ K \in DOMAIN file /\ Ends(file[K])
             /\ Replaced(Overwrite(Rebuilt(t)), file, K, Rebuilt(t))
             /\ Rebuilt(t) = [file[K] EXCEPT !.page.flags = @ \cup {"eos"}]
      BY <2>2, <3>1, <1>4, <1>5, NotedPage
    <3>3. Replaced(file', file, K, Rebuilt(t))
      BY <2>1, <2>2, <3>2
    <3>4. /\ Len(file') = Len(file) /\ Len(file) \in Nat /\ file'[K] = Rebuilt(t)
          /\ \A k \in DOMAIN file : k # K => file'[k] = file[k]
      BY <3>3, Replacing
    <3>5. \A k \in DOMAIN file :
            \/ file'[k] = file[k]
            \/ /\ file'[k] = [file[k] EXCEPT !.page.flags = @ \cup {"eos"}]
               /\ Ends(file[k])
      BY <3>2, <3>4
    <3> QED BY <3>4, <3>5, <1>2 DEF Stable
  <2>3. CASE ~t.lastPageWritten
    BY <2>1, <2>3, SameFileStable
  <2> QED BY <2>2, <2>3
<1>7. CASE WriteNilEndOfStream(c)
  <2>1. file' = file \/ file' = Append(file, NilEntry(t))
    BY <1>2, <1>7 DEF WriteNilEndOfStream, NilEntry
  <2>2. CASE file' = file
    BY <2>2, SameFileStable
  <2>3. CASE file' = Append(file, NilEntry(t))
    <3>1. NilEntry(t) \in FileEntry
      BY <1>4, <1>5, NilFacts
    <3>2. Behind(file', file, NilEntry(t))
      BY <2>3, <3>1, <1>4 DEF Behind
    <3> QED BY <3>2, <1>2, AppendStable
  <2> QED BY <2>1, <2>2, <2>3
<1> QED BY <1>6, <1>7

LEMMA StepStable ==
  ASSUME Inv, [Next]_vars, failures' = failures
  PROVE  Stable
<1>1. CASE file' = file
  BY <1>1, SameFileStable
<1>2. CASE file' # file
  <2>1. PICK c \in Callers : Call(c) \/ Step(c)
    BY <1>2 DEF Next, vars
  <2>2. ~Call(c)
    BY <1>2 DEF Call, NewTrack, WriteRTP, Close
  <2>3. failures \in Nat
    BY DEF Inv, TypeOK
  <2>4. ~PageFails(c) /\ ~EndOfStreamFails(c)
    BY <2>3 DEF PageFails, EndOfStreamFails
  <2>5. ~BadPayload(c) /\ ~BeginPacket(c) /\ ~Started(c) /\ ~Closed(c)
    BY <1>2 DEF BadPayload, BeginPacket, Started, Closed
  <2>6. CASE WritePage(c)
    <3>1. file' = Append(file, NextPage(call[c]))
          /\ call[c].written + 1 < Len(call[c].pages)
      BY <2>6 DEF WritePage
    <3>2. call[c] \in CallState
      BY DEF Inv, TypeOK
    <3>3. call[c].written \in Nat
      BY <3>2, CallTypes
    <3>4. call[c].pages # << >>
      BY <3>1, <3>3, NoElements
    <3> QED BY <3>1, <3>4, PageStable
  <2>7. CASE WriteLastPage(c)
    <3>1. file' = Append(file, NextPage(call[c])) /\ call[c].pages # << >>
      BY <2>7 DEF WriteLastPage
    <3> QED BY <3>1, PageStable
  <2>8. CASE MarkEndOfStream(c) \/ WriteNilEndOfStream(c)
    BY <2>8, EndStable
  <2> QED BY <2>1, <2>2, <2>4, <2>5, <2>6, <2>7, <2>8 DEF Step
<1> QED BY <1>1, <1>2

(* Steps whose writes succeed append to the file or, in Close, set the EOS *)
(* flag of a page that ends a packet, and nothing is written after Close.  *)
THEOREM StableHolds == Spec => FileStable
<1>1. Inv /\ [Next]_vars => [failures' = failures => Stable]_vars
  BY StepStable
<1>2. [][failures' = failures => Stable]_vars => FileStable
  <2>1. [failures' = failures => Stable]_vars =>
          [failures' = failures =>
             /\ Len(file') >= Len(file)
             /\ ~open => file' = file
             /\ \A k \in DOMAIN file :
                  \/ file'[k] = file[k]
                  \/ /\ file'[k] = [file[k] EXCEPT !.page.flags = @ \cup {"eos"}]
                     /\ Ends(file[k])
                     /\ Len(file') = Len(file)]_vars
    BY DEF Stable
  <2> QED BY <2>1, PTL DEF FileStable
<1> QED BY <1>1, <1>2, InvHolds, PTL DEF Spec
=============================================================================
